----------------------------- MODULE GraphDedup -----------------------------
(***************************************************************************)
(* Pass 3 of entity resolution: candidates that reach the threshold become *)
(* edges between records, and a breadth-first search collects the clusters *)
(* that are then merged or reviewed, with the edges they are scored by.    *)
(***************************************************************************)
EXTENDS Naturals, FiniteSets

CONSTANTS
    Records,
    Scores,          \* confidences; those below the threshold are None
    None,
    MaxCandidates    \* bound of the model

ASSUME GraphAssumption ==
    IsFiniteSet(Records) /\ None \notin Scores /\ MaxCandidates \in Nat

VARIABLES
    given,      \* number of candidates given to add_edges_from_candidates
    adj,        \* _adj: adj[r]: neighbours with their edges
    search,     \* find_clusters: the component under way
    visited,
    clusters

graphVars == <<given, adj, search, visited, clusters>>

Edge      == [a : Records, b : Records, score : Scores]
Component == [ids : SUBSET Records, edges : SUBSET Edge]
NoSearch  == [on |-> FALSE, queue |-> {}, ids |-> {}, edges |-> {}]

GraphInit ==
    /\ given = 0
    /\ adj = [r \in Records |-> {}]
    /\ search = NoSearch
    /\ visited = {} /\ clusters = {}

Nodes == {r \in Records : adj[r] # {}}
Found == visited = Nodes /\ ~search.on    \* find_clusters returns

-----------------------------------------------------------------------------

\* Mutant: the edge is entered at one end only.
Entered_OneEnd(e) == [adj EXCEPT ![e.a] = @ \cup {<<e.b, e>>}]

Entered(e) == [adj EXCEPT ![e.a] = @ \cup {<<e.b, e>>}, ![e.b] = @ \cup {<<e.a, e>>}]

\* A weak candidate, or one that names a record twice, is left out.
AddEdge == \E x, y \in Records, score \in Scores \cup {None} :
    /\ given < MaxCandidates /\ visited = {}
    /\ given' = given + 1
    /\ adj' = IF score = None \/ x = y THEN adj ELSE Entered([a |-> x, b |-> y, score |-> score])
    /\ UNCHANGED <<search, visited, clusters>>

\* Mutant: the first record is not marked.
StartComponent_Unmarked == \E r \in Nodes \ visited :
    /\ ~search.on
    /\ search' = [on |-> TRUE, queue |-> {r}, ids |-> {}, edges |-> {}]
    /\ UNCHANGED <<given, adj, visited, clusters>>

StartComponent == \E r \in Nodes \ visited :
    /\ ~search.on
    /\ search' = [on |-> TRUE, queue |-> {r}, ids |-> {}, edges |-> {}]
    /\ visited' = visited \cup {r}
    /\ UNCHANGED <<given, adj, clusters>>

\* One record of the queue: its new neighbours wait, all its edges are collected.
\* The order of the queue does not matter for what is collected.
Visit == \E r \in search.queue :
    LET new == {n \in Records \ visited : \E link \in adj[r] : link[1] = n}
    IN /\ visited' = visited \cup new
       /\ search' = [search EXCEPT !.queue = (@ \ {r}) \cup new, !.ids = @ \cup {r},
                                   !.edges = @ \cup {link[2] : link \in adj[r]}]
       /\ UNCHANGED <<given, adj, clusters>>

\* Only components of two and more are clusters.
EndComponent ==
    /\ search.on /\ search.queue = {}
    /\ clusters' = IF Cardinality(search.ids) < 2 THEN clusters
                   ELSE clusters \cup {[ids |-> search.ids, edges |-> search.edges]}
    /\ search' = NoSearch
    /\ UNCHANGED <<given, adj, visited>>

GraphNext == AddEdge \/ StartComponent \/ Visit \/ EndComponent

GraphSpec == GraphInit /\ [][GraphNext]_graphVars

-----------------------------------------------------------------------------
(* Properties.                                                              *)

GraphTypeOK ==
    /\ given \in 0..MaxCandidates
    /\ adj \in [Records -> SUBSET (Records \X Edge)]
    /\ search.queue \subseteq visited /\ search.ids \subseteq visited
    /\ search.edges \subseteq Edge
    /\ clusters \subseteq Component

Edges     == {link[2] : link \in UNION {adj[r] : r \in Records}}
Closed(S) == \A e \in Edges : e.a \in S <=> e.b \in S
Linked(r) == {n \in Records : \A S \in SUBSET Records : r \in S /\ Closed(S) => n \in S}

\* The clusters are the classes of records linked by candidates, directly or over
\* others, each with every edge between its records: the average and the minimum
\* that decide whether it is merged are those of the whole cluster, however the
\* search came to its records (graph_dedup.py:124-168, entity_resolution.py:447).
ClustersAreComponents ==
    Found => clusters = {[ids   |-> Linked(r),
                          edges |-> {e \in Edges : e.a \in Linked(r)}] : r \in Nodes}
=============================================================================
