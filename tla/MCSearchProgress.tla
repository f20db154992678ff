-------------------------- MODULE MCSearchProgress --------------------------
(* Small instances of SearchProgress for TLC. *)
EXTENDS SearchProgress

CONSTANTS j1, j2, j3, i1, i2
=============================================================================
