--------------------------- MODULE ResultDelivery ---------------------------
(***************************************************************************)
(* What the pipeline promises about the results of one person, whatever    *)
(* queues, daemons and repetitions it is made of: a result under way is    *)
(* stored once or lost to an error, never both and never silently; what    *)
(* is searchable is stored, and it stays searchable unless another address *)
(* takes its place or its identifier goes to another person.               *)
(***************************************************************************)
EXTENDS Naturals, FiniteSets

CONSTANTS
    Jobs,         \* crawls of the person
    Addresses,    \* those whose result is an address
    Identifiers,  \* those whose result is an identifier
    AddressCap    \* addresses that a document has room for

VARIABLES
    underway,   \* underway[j]: results of the crawl found and not stored yet
    stored,     \* stored[j]: results of it that are part of the person's data
    lost,       \* lost[j]: results of it that an error or a crash destroyed
    merged,     \* the identifiers of the person went to another one
    searchable  \* crawls with a result in the person's search document

vars == <<underway, stored, lost, merged, searchable>>

None == [j \in Jobs |-> 0]

Init == /\ underway = None /\ stored = None /\ lost = None
        /\ merged = FALSE /\ searchable = {}

Find(j) ==
    /\ underway' = [underway EXCEPT ![j] = @ + 1]
    /\ UNCHANGED <<stored, lost, merged, searchable>>

Store(j) ==
    /\ underway[j] > 0
    /\ underway' = [underway EXCEPT ![j] = @ - 1]
    /\ stored' = [stored EXCEPT ![j] = @ + 1]
    /\ UNCHANGED <<lost, merged, searchable>>

\* An error destroys one result, a crash several of several crawls.
Lose ==
    /\ lost' \in [Jobs -> Nat]
    /\ \A j \in Jobs : lost[j] <= lost'[j] /\ lost'[j] - lost[j] <= underway[j]
    /\ underway' = [j \in Jobs |-> underway[j] - (lost'[j] - lost[j])]
    /\ UNCHANGED <<stored, merged, searchable>>

Merge ==
    /\ merged' = TRUE
    /\ UNCHANGED <<underway, stored, lost, searchable>>

Replaced(j) ==
    \/ j \in Addresses /\ Cardinality(searchable' \cap Addresses) = AddressCap
    \/ j \in Identifiers /\ merged

Index ==
    /\ \A j \in searchable' : j \in Jobs /\ stored[j] > 0
    /\ Cardinality(searchable' \cap Addresses) <= AddressCap
    /\ \A j \in searchable \ searchable' : Replaced(j)
    /\ UNCHANGED <<underway, stored, lost, merged>>

Next == (\E j \in Jobs : Find(j) \/ Store(j)) \/ Lose \/ Merge \/ Index

Spec == Init /\ [][Next]_vars
=============================================================================
