------------------------------ MODULE MCPersons ------------------------------
(***************************************************************************)
(* The pivots of a person, the identity of persons and the crawl of one    *)
(* platform: components that share no state in the model, each explored    *)
(* alone.  "part" is the one of a behaviour, and the variables of the      *)
(* others keep an initial value.                                           *)
(***************************************************************************)
EXTENDS PivotEnricher, PersonIdentity, CrawlerRun

CONSTANTS a, b

VARIABLE part

PersonsInit ==
    /\ part \in 1..3 /\ PivotInit /\ IdentityInit /\ RunInit
    /\ part # 3 => platform = "github"

PersonsNext ==
    \/ part = 1 /\ PivotNext /\ UNCHANGED <<part, identityVars, runVars>>
    \/ part = 2 /\ IdentityNext /\ UNCHANGED <<part, pivotVars, runVars>>
    \/ part = 3 /\ RunNext /\ UNCHANGED <<part, pivotVars, identityVars>>

PersonsSpec == PersonsInit /\ [][PersonsNext]_<<part, pivotVars, identityVars, runVars>>

PersonsTypeOK == PivotTypeOK /\ IdentityTypeOK /\ RunTypeOK

\* One of the values is searched by one platform only.
OneAndTwo == [v \in Values |-> IF v = a THEN 1 ELSE 2]

\* Persons, identifiers and sessions are interchangeable.
Symmetry == Permutations(Persons) \cup Permutations(Ingesters)
                \cup Permutations(People) \cup Permutations(Identifiers)
=============================================================================
