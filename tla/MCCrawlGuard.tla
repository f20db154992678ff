---------------------------- MODULE MCCrawlGuard ----------------------------
EXTENDS CrawlGuard, TLC

\* The callers are interchangeable when all are in the same kind of process.
Symmetry == Permutations(Callers)
=============================================================================
