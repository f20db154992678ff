------------------------- MODULE SaturationCrawler -------------------------
(***************************************************************************)
(* A saturation crawl: breadth first from a seed entity to the entities    *)
(* named by its results and by the database, until the queue is empty, the *)
(* cap is reached or too few results are new; then the graph is written.   *)
(***************************************************************************)
EXTENDS Naturals, FiniteSets, SequencesExt

CONSTANTS
    Entities,     \* type and normalized name
    NameOf,       \* NameOf[e]: the name alone
    Platforms,    \* crawlers; each gives at most one result per entity
    Data,         \* what a result may say
    Unknown,      \* persons that have no row in the database
    MaxHops,      \* max_depth
    MaxEntities,  \* max_entities
    MaxLinks,     \* bound of the model: connections named by one entity
    FanoutCap,    \* connections followed per entity
    MinResults,   \* min_results_before_check
    MaxSeen       \* results remembered before the memory guard stops the crawl

ASSUME SaturationAssumption ==
    /\ NameOf \in [Entities -> {NameOf[e] : e \in Entities}]
    /\ MaxHops \in Nat /\ MaxEntities \in Nat /\ MaxLinks \in Nat /\ FanoutCap \in Nat
    /\ MinResults \in Nat /\ MaxSeen \in Nat /\ IsFiniteSet(Platforms)

VARIABLES
    phase,      \* CrawlPhase, and "stopped" when a break has left the loop
    queue,      \* QueueItems
    processed,  \* _processed
    seen,       \* _seen_hashes
    total,      \* stats.total_results
    novel,      \* stats.novel_results
    graph,      \* entities written to the graph
    links,      \* history: links[e]: connections found for a processed entity
    hops        \* history: hops[e]: depth at which it was processed

satVars == <<phase, queue, processed, seen, total, novel, graph, links, hops>>

\* "sure": the confidence reaches the threshold.
Link == [entity : Entities, sure : BOOLEAN]
Item == [entity : Entities, sure : BOOLEAN, depth : Nat]

\* _hash_result: the identifier that was searched is part of it, so that no result of
\* a crawl repeats one of another entity.
Hash == [platform : Platforms, entity : Entities, data : Data]

SatInit == \E seed \in Entities :
    /\ phase = "collecting"
    /\ queue = <<[entity |-> seed, sure |-> TRUE, depth |-> 0]>>
    /\ processed = {} /\ seen = {} /\ graph = {}
    /\ total = 0 /\ novel = 0
    /\ links = [e \in Entities |-> <<>>]
    /\ hops = [e \in {seed} |-> 0]

-----------------------------------------------------------------------------

Skipped(item) == item.entity \in processed \/ item.depth > MaxHops \/ ~item.sure

\* Of the connections with one name the first is kept, whatever its type and
\* confidence, and no more than the cap in all: their places in what was found.
Connections(found) ==
    LET firsts == {n \in DOMAIN found :
                     \A m \in 1..(n - 1) : NameOf[found[m].entity] # NameOf[found[n].entity]}
    IN {n \in firsts : Cardinality({m \in firsts : m < n}) < FanoutCap}

\* The items of the places in S, in their order.
InOrder(S, found, depth) ==
    {[k \in DOMAIN f |-> [entity |-> found[f[k]].entity, sure |-> found[f[k]].sure, depth |-> depth]] :
       f \in {f \in [1..Cardinality(S) -> S] : \A i, k \in DOMAIN f : i < k => f[i] < f[k]}}

New(found) == {n \in Connections(found) : found[n].entity \notin processed'}

\* Mutant: the queue is a stack.
Queued_Front(rest, item, found) ==
    {new \o rest : new \in InOrder(New(found), found, item.depth + 1)}

Queued(rest, item, found) ==
    {rest \o new : new \in InOrder(New(found), found, item.depth + 1)}

\* Fewer than one result in twenty is new.
Saturated == total' >= MinResults /\ 20 * novel' < total'

MaySearch == phase = "collecting" /\ queue # <<>> /\ Cardinality(processed) < MaxEntities

Skip ==
    /\ MaySearch /\ Skipped(Head(queue))
    /\ queue' = Tail(queue)
    /\ UNCHANGED <<phase, processed, seen, total, novel, graph, links, hops>>

\* Mutant: the last level is left out.
Crawl_OffByOne == \E found \in BoundedSeq(Link, MaxLinks) :
    LET item == Head(queue)
    IN /\ MaySearch /\ ~Skipped(item)
       /\ processed' = processed \cup {item.entity}
       /\ hops' = [e \in processed' |-> IF e = item.entity THEN item.depth ELSE hops[e]]
       /\ links' = [links EXCEPT ![item.entity] = found]
       /\ queue' \in IF item.depth + 1 < MaxHops THEN Queued(Tail(queue), item, found)
                     ELSE {Tail(queue)}
       /\ UNCHANGED <<phase, seen, total, novel, graph>>

\* One entity: its crawls, the count of new results, its connections, and the
\* two reasons to leave the loop.
Crawl == \E found \in BoundedSeq(Link, MaxLinks), hits \in SUBSET Platforms :
    \E data \in [hits -> Data] :
    LET item   == Head(queue)
        hashes == {[platform |-> p, entity |-> item.entity, data |-> data[p]] : p \in hits}
    IN /\ MaySearch /\ ~Skipped(item)
       /\ processed' = processed \cup {item.entity}
       /\ hops' = [e \in processed' |-> IF e = item.entity THEN item.depth ELSE hops[e]]
       /\ seen' = seen \cup hashes
       /\ total' = total + Cardinality(hashes)
       /\ novel' = novel + Cardinality(hashes \ seen)
       /\ IF Cardinality(seen') > MaxSeen
          THEN phase' = "stopped" /\ queue' = Tail(queue) /\ UNCHANGED links
          ELSE /\ links' = [links EXCEPT ![item.entity] = IF item.depth < MaxHops THEN found ELSE @]
               /\ queue' \in IF item.depth < MaxHops THEN Queued(Tail(queue), item, found)
                             ELSE {Tail(queue)}
               /\ phase' = IF Saturated THEN "stopped" ELSE phase
       /\ UNCHANGED graph

EndCollection ==
    /\ phase = "stopped" \/ (phase = "collecting" /\ ~MaySearch)
    /\ phase' = "enriching"
    /\ UNCHANGED <<queue, processed, seen, total, novel, graph, links, hops>>

\* Persons the database does not know and entities whose write fails are left out.
SyncToGraph == \E written \in SUBSET (processed \ Unknown) :
    /\ phase = "enriching"
    /\ graph' = graph \cup written
    /\ phase' = "complete"
    /\ UNCHANGED <<queue, processed, seen, total, novel, links, hops>>

SatNext == Skip \/ Crawl \/ EndCollection \/ SyncToGraph

SatSpec == SatInit /\ [][SatNext]_satVars

-----------------------------------------------------------------------------
(* Properties.                                                              *)

SatTypeOK ==
    /\ phase \in {"collecting", "stopped", "enriching", "complete"}
    /\ \A n \in DOMAIN queue : queue[n] \in Item
    /\ processed \subseteq Entities /\ Cardinality(processed) <= MaxEntities
    /\ seen \subseteq Hash /\ Cardinality(seen) <= MaxSeen + Cardinality(Platforms)
    /\ total \in Nat /\ novel \in Nat
    /\ graph \subseteq processed \ Unknown
    /\ \A e \in processed : hops[e] <= MaxHops

Named(found) == {found[n].entity : n \in {n \in Connections(found) : found[n].sure}}

\* Entities within n hops over connections that are followed.
Reach[n \in Nat] ==
    IF n = 0 THEN {e \in processed : hops[e] = 0}
    ELSE Reach[n - 1] \cup UNION {Named(links[e]) : e \in Reach[n - 1]}

\* Unless a limit cuts it short, the crawl has processed every entity within its
\* radius when it ends (saturation_crawler.py:209-300).
ReachComplete ==
    /\ phase \in {"enriching", "complete"}
    /\ queue = <<>> /\ Cardinality(processed) < MaxEntities /\ Cardinality(seen) <= MaxSeen
    => processed = Reach[MaxHops]

\* Whatever order connections come in, and though an entity may wait in the queue
\* several times, it is processed at its distance from the seed, so that the radius
\* is never used up by a detour (saturation_crawler.py:215-226).
ShallowestFirst == \A e \in processed, n \in 0..MaxHops : e \in Reach[n] => hops[e] <= n
=============================================================================
