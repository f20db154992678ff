-------------------------- MODULE MCCrawlDispatch --------------------------
(* Small instances of CrawlDispatch for TLC. *)
EXTENDS CrawlDispatch

CONSTANTS p1, j1, j2, d1, d2

OneOwner   == [j \in Jobs |-> p1]
OneUnknown == {j2}
Normal     == {"normal"}
NoEmptyNoBlock == {"found", "rate", "timeout", "error"}
=============================================================================
