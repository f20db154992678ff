-------------------------- MODULE MCResultPipeline --------------------------
(* Small instances of ResultPipeline for TLC. *)
EXTENDS ResultPipeline

CONSTANTS j1, j2, j3, i1, i2

PivotJob == {j3}
=============================================================================
