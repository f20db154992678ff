---------------------------- MODULE MCStandalone ----------------------------
(***************************************************************************)
(* Components that share no state, each explored alone: "part" is the one  *)
(* of a behaviour, and the variables of the others keep an initial value.  *)
(***************************************************************************)
EXTENDS PeopleBuilder, SaturationCrawler, GraphDedup, ResultRows,
        FreshnessScheduler, GrowthDaemon, EnrichmentSession,
        OwnershipDiscovery, RelationshipStore

CONSTANTS a, b, c

VARIABLE part

standaloneVars ==
    <<part, builderVars, satVars, graphVars, rowsVars, freshVars,
      growthVars, sessionVars, ownershipVars, storeVars>>

StandaloneInit ==
    /\ part \in 1..9
    /\ BuilderInit /\ SatInit /\ GraphInit /\ RowsInit /\ FreshInit
    /\ GrowthInit /\ SessionInit /\ OwnershipInit /\ StoreInit
    /\ queue[1].entity = a \/ (part = 2 /\ queue[1].entity = c)
    /\ part # 5 => \A p \in Profiles : age[p] = 0

StandaloneNext ==
    \/ part = 1 /\ BuilderNext
       /\ UNCHANGED <<part, satVars, graphVars, rowsVars, freshVars,
                      growthVars, sessionVars, ownershipVars, storeVars>>
    \/ part = 2 /\ SatNext
       /\ UNCHANGED <<part, builderVars, graphVars, rowsVars, freshVars,
                      growthVars, sessionVars, ownershipVars, storeVars>>
    \/ part = 3 /\ GraphNext
       /\ UNCHANGED <<part, builderVars, satVars, rowsVars, freshVars,
                      growthVars, sessionVars, ownershipVars, storeVars>>
    \/ part = 4 /\ RowsNext
       /\ UNCHANGED <<part, builderVars, satVars, graphVars, freshVars,
                      growthVars, sessionVars, ownershipVars, storeVars>>
    \/ part = 5 /\ FreshNext
       /\ UNCHANGED <<part, builderVars, satVars, graphVars, rowsVars,
                      growthVars, sessionVars, ownershipVars, storeVars>>
    \/ part = 6 /\ GrowthNext
       /\ UNCHANGED <<part, builderVars, satVars, graphVars, rowsVars,
                      freshVars, sessionVars, ownershipVars, storeVars>>
    \/ part = 7 /\ SessionNext
       /\ UNCHANGED <<part, builderVars, satVars, graphVars, rowsVars,
                      freshVars, growthVars, ownershipVars, storeVars>>
    \/ part = 8 /\ OwnershipNext
       /\ UNCHANGED <<part, builderVars, satVars, graphVars, rowsVars,
                      freshVars, growthVars, sessionVars, storeVars>>
    \/ part = 9 /\ StoreNext
       /\ UNCHANGED <<part, builderVars, satVars, graphVars, rowsVars,
                      freshVars, growthVars, sessionVars, ownershipVars>>

StandaloneSpec ==
    StandaloneInit /\ [][StandaloneNext]_standaloneVars /\ GrowthFairness

StandaloneTypeOK ==
    /\ BuilderTypeOK /\ SatTypeOK /\ GraphTypeOK /\ RowsTypeOK
    /\ FreshTypeOK /\ GrowthTypeOK /\ SessionTypeOK
    /\ OwnershipTypeOK /\ StoreTypeOK

\* Two of the entities have one name, two of the profiles one interval, and each of
\* the sources is worth more than the one before.
TwoNamesakes == [e \in Entities |-> IF e = c THEN "m" ELSE "n"]
TwoIntervals == [p \in Profiles |-> IF p = b THEN 2 ELSE 1]
OneTwoThree  == [s \in Sources |-> CASE s = a -> 1 [] s = b -> 2 [] s = c -> 3]
=============================================================================
