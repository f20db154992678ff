-------------------------- MODULE StandaloneProofs --------------------------
(***************************************************************************)
(* The components that are explored side by side by MCStandalone: a        *)
(* behaviour of that model is one of each of them, so that what is proved  *)
(* of a component alone holds of the runs.                                 *)
(***************************************************************************)
EXTENDS MCStandalone, DaemonProofs, RecordProofs, GraphProofs

\* Every component makes steps of its own, or none: of the growth daemon with its
\* fairness, of the scans without, since no liveness of theirs is checked.
THEOREM StandaloneParts ==
    StandaloneSpec =>
        /\ BuilderSpec /\ SatSpec /\ GraphSpec /\ RowsSpec
        /\ FreshInit /\ [][FreshNext]_freshVars
        /\ GrowthSpec /\ SessionSpec /\ OwnershipSpec /\ StoreSpec
<1>1. StandaloneInit => /\ BuilderInit /\ SatInit /\ GraphInit /\ RowsInit /\ FreshInit
                        /\ GrowthInit /\ SessionInit /\ OwnershipInit /\ StoreInit
  BY DEF StandaloneInit
<1>2. [StandaloneNext]_standaloneVars =>
          /\ [BuilderNext]_builderVars /\ [SatNext]_satVars /\ [GraphNext]_graphVars
          /\ [RowsNext]_rowsVars /\ [FreshNext]_freshVars /\ [GrowthNext]_growthVars
          /\ [SessionNext]_sessionVars /\ [OwnershipNext]_ownershipVars
          /\ [StoreNext]_storeVars
  BY DEF StandaloneNext, standaloneVars
<1> QED
  BY <1>1, <1>2, PTL DEF StandaloneSpec, BuilderSpec, SatSpec, GraphSpec, RowsSpec,
                         GrowthSpec, SessionSpec, OwnershipSpec, StoreSpec

\* Every variable of the nine components keeps its type.
THEOREM StandaloneTypeCorrect == StandaloneSpec => []StandaloneTypeOK
<1>1. BuilderTypeOK /\ SatTypeOK /\ GraphTypeOK /\ RowsTypeOK /\ FreshTypeOK
          /\ GrowthTypeOK /\ SessionTypeOK /\ OwnershipTypeOK /\ StoreTypeOK
      => StandaloneTypeOK
  BY DEF StandaloneTypeOK
<1>2. FreshInit /\ [][FreshNext]_freshVars => []FreshTypeOK
  <2>1. FreshInv => FreshTypeOK
    BY DEF FreshInv
  <2> QED  BY <2>1, FreshStarts, FreshStep, PTL
<1> QED
  BY <1>1, <1>2, StandaloneParts, BuilderTypeCorrect, SaturationTypeCorrect, GraphTypeCorrect,
     RowsTypeCorrect, GrowthTypeCorrect, SessionTypeCorrect,
     OwnershipTypeCorrect, StoreTypeCorrect, PTL
=============================================================================
