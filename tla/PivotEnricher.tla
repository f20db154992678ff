--------------------------- MODULE PivotEnricher ---------------------------
(***************************************************************************)
(* A result that was found names further identifiers of its person.  Each  *)
(* that is new is stored and searched; those that another person has are   *)
(* flagged for review.  Several ingesters do this at the same time, each   *)
(* in a transaction of its own.  The Redis counter that stops the          *)
(* recursion is incremented and given its expiry by two calls.             *)
(***************************************************************************)
EXTENDS Naturals, FiniteSets, SequencesExt

CONSTANTS
    Persons,
    Values,           \* identifiers: type and normalized value
    Fan,              \* Fan[v]: registered platforms that accept the value
    Ingesters,
    MaxJobsPerCall,   \* _MAX_JOBS_PER_CALL
    MaxDepth,         \* max_depth of check_search_depth
    MaxCalls,         \* bound of the model: results with identifiers
    MaxFaults         \* bound of the model: calls of Redis that fail, crashes

ASSUME PivotAssumption ==
    /\ IsFiniteSet(Values) /\ Fan \in [Values -> Nat]
    /\ MaxJobsPerCall \in Nat \ {0} /\ MaxDepth \in Nat \ {0}
    /\ MaxCalls \in Nat /\ MaxFaults \in Nat

VARIABLES
    depth,    \* depth[p]: Redis counter of the calls made for the person
    expiry,   \* expiry[p]: the counter has an expiry
    stored,   \* committed identifiers
    reviews,  \* committed pairs of persons flagged for review
    call,     \* call[i]: the call of pivot_from_result of the ingester
    calls,    \* history: number of calls
    faults,   \* history: number of faults
    hist      \* history: see History

pivotVars == <<depth, expiry, stored, reviews, call, calls, faults, hist>>

Ident   == Persons \X Values
Pairs   == {{p, q} : p, q \in Persons}
Pivots  == {s \in BoundedSeq(Values, Cardinality(Values)) : IsInjective(s)}

\* "found" are the identifiers in the data, "todo" those not looked at yet,
\* "next" is the new one, "added" the rows flushed and "flagged" the pairs added
\* by the transaction, "jobs" what jobs_queued counts.
Call == [pc : {"depth", "expire", "look", "store", "commit"}, person : Persons,
         found : Pivots, todo : Pivots, added : SUBSET Values, flagged : SUBSET Pairs, jobs : Nat]
Idle == [pc |-> "idle"]

\* Identifiers whose crawls were pushed, those for which the push failed (it is
\* only logged), counters that lost their expiry to a fault, and the pairs whose
\* persons were written at the same time.
History == [searched : SUBSET Ident, unpushed : SUBSET Ident, stuck : SUBSET Persons,
            raced : SUBSET Pairs]

PivotInit ==
    /\ depth = [p \in Persons |-> 0]
    /\ expiry = [p \in Persons |-> FALSE]
    /\ stored = {} /\ reviews = {}
    /\ call = [i \in Ingesters |-> Idle]
    /\ calls = 0 /\ faults = 0
    /\ hist = [searched |-> {}, unpushed |-> {}, stuck |-> {}, raced |-> {}]

Go(i, pc) == call' = [call EXCEPT ![i].pc = pc]
At(i, pc) == call[i].pc = pc
Fault     == faults < MaxFaults /\ faults' = faults + 1

-----------------------------------------------------------------------------
(* The depth counter.                                                       *)

Start(i) == \E p \in Persons, s \in Pivots :
    /\ At(i, "idle") /\ calls < MaxCalls
    /\ calls' = calls + 1
    /\ call' = [call EXCEPT ![i] = [pc |-> "depth", person |-> p, found |-> s, todo |-> s,
                                    added |-> {}, flagged |-> {}, jobs |-> 0]]
    /\ UNCHANGED <<depth, expiry, stored, reviews, faults, hist>>

\* Nothing to pivot on returns early, after the depth was counted.
GoOn(i) ==
    call' = [call EXCEPT ![i] = IF @.found = <<>> THEN Idle ELSE [@ EXCEPT !.pc = "look"]]

\* What INCR returned decides; the first call goes on to set the expiry.
CountDepth(i) ==
    LET p == call[i].person
    IN /\ At(i, "depth")
       /\ depth' = [depth EXCEPT ![p] = @ + 1]
       /\ IF depth[p] = 0 THEN Go(i, "expire")
          ELSE IF depth'[p] > MaxDepth THEN call' = [call EXCEPT ![i] = Idle]
          ELSE GoOn(i)
       /\ UNCHANGED <<expiry, stored, reviews, calls, faults, hist>>

\* Mutant: the expiry is set by the call that reaches the limit.
SetExpiry_AtLimit(i) ==
    LET p == call[i].person
    IN /\ At(i, "expire")
       /\ expiry' = IF depth[p] = MaxDepth THEN [expiry EXCEPT ![p] = TRUE] ELSE expiry
       /\ GoOn(i)
       /\ UNCHANGED <<depth, stored, reviews, calls, faults, hist>>

SetExpiry(i) ==
    /\ At(i, "expire")
    /\ expiry' = [expiry EXCEPT ![call[i].person] = depth[call[i].person] > 0]
    /\ GoOn(i)
    /\ UNCHANGED <<depth, stored, reviews, calls, faults, hist>>

\* Redis does not answer: the pivot is allowed.
DepthFails(i) ==
    /\ At(i, "depth") \/ At(i, "expire")
    /\ Fault /\ GoOn(i)
    /\ hist' = IF At(i, "expire") THEN [hist EXCEPT !.stuck = @ \cup {call[i].person}] ELSE hist
    /\ UNCHANGED <<depth, expiry, stored, reviews, calls>>

Expire(p) ==
    /\ expiry[p]
    /\ depth' = [depth EXCEPT ![p] = 0]
    /\ expiry' = [expiry EXCEPT ![p] = FALSE]
    /\ UNCHANGED <<stored, reviews, call, calls, faults, hist>>

-----------------------------------------------------------------------------
(* New identifiers.                                                         *)

\* The rows the session sees: committed ones and its own.
Sees(i) == stored \cup ({call[i].person} \X call[i].added)

\* The limit of a call is looked at before each identifier, not before each job.
LimitReached(i) == call[i].jobs >= MaxJobsPerCall

Look(i) ==
    /\ At(i, "look") /\ call[i].todo # <<>> /\ ~LimitReached(i)
    /\ IF <<call[i].person, Head(call[i].todo)>> \in Sees(i)
       THEN call' = [call EXCEPT ![i].todo = Tail(@)]
       ELSE Go(i, "store")
    /\ UNCHANGED <<depth, expiry, stored, reviews, calls, faults, hist>>

\* The insert waits for another transaction that has inserted the same row.
Waits(i) == \E j \in Ingesters \ {i} :
    /\ ~At(j, "idle") /\ call[j].person = call[i].person
    /\ Head(call[i].todo) \in call[j].added

\* A duplicate rolls back all that the call has added so far; its crawls, like
\* those of the identifiers rolled back, are queued all the same.
Added(i) ==
    IF <<call[i].person, Head(call[i].todo)>> \in stored THEN {}
    ELSE call[i].added \cup {Head(call[i].todo)}

\* Mutant: the limit is looked at again before the jobs are pushed.
Store_Limit(i) ==
    LET v == Head(call[i].todo)
    IN /\ At(i, "store") /\ ~Waits(i)
       /\ call' = [call EXCEPT ![i].pc = "look", ![i].todo = Tail(@), ![i].added = Added(i),
                               ![i].jobs = IF @ + Fan[v] > MaxJobsPerCall THEN @ ELSE @ + Fan[v]]
       /\ hist' = IF call[i].jobs + Fan[v] > MaxJobsPerCall THEN hist
                  ELSE [hist EXCEPT !.searched = @ \cup {<<call[i].person, v>>}]
       /\ UNCHANGED <<depth, expiry, stored, reviews, calls, faults>>

\* The identifier is flushed and a job is pushed for each of its platforms.
Store(i) ==
    LET v == Head(call[i].todo)
    IN /\ At(i, "store") /\ ~Waits(i)
       /\ call' = [call EXCEPT ![i] = [@ EXCEPT !.pc = "look", !.todo = Tail(call[i].todo),
                                                !.added = Added(i), !.jobs = call[i].jobs + Fan[v]]]
       /\ \/ /\ hist' = [hist EXCEPT !.searched = @ \cup {<<call[i].person, v>>}]
             /\ UNCHANGED faults
          \/ /\ hist' = [hist EXCEPT !.unpushed = @ \cup {<<call[i].person, v>>}]
             /\ Fault
       /\ UNCHANGED <<depth, expiry, stored, reviews, calls>>

-----------------------------------------------------------------------------
(* Identifiers that two persons share.                                      *)

Others(i) == {q \in Persons \ {call[i].person} :
                 \E v \in ToSet(call[i].found) : <<q, v>> \in stored}

\* Mutant: a call that has reached its limit is over.
Review_NotAtLimit(i) ==
    /\ At(i, "look") /\ (call[i].todo = <<>> \/ LimitReached(i))
    /\ call' = [call EXCEPT
           ![i].pc = "commit",
           ![i].flagged = IF LimitReached(i) THEN {}
                          ELSE {{call[i].person, q} : q \in Others(i)} \ reviews]
    /\ UNCHANGED <<depth, expiry, stored, reviews, calls, faults, hist>>

\* All identifiers of the result are compared, also those past the limit.
Review(i) ==
    /\ At(i, "look") /\ (call[i].todo = <<>> \/ LimitReached(i))
    /\ call' = [call EXCEPT ![i].pc = "commit",
                            ![i].flagged = {{call[i].person, q} : q \in Others(i)} \ reviews]
    /\ UNCHANGED <<depth, expiry, stored, reviews, calls, faults, hist>>

\* Calls that have looked for others and not committed do not see this one's rows.
Commit(i) ==
    LET p == call[i].person
    IN /\ At(i, "commit")
       /\ stored' = stored \cup ({p} \X call[i].added)
       /\ reviews' = reviews \cup call[i].flagged
       /\ hist' = [hist EXCEPT !.raced = @ \cup
              {{p, call[j].person} : j \in {j \in Ingesters \ {i} : At(j, "commit")}}]
       /\ call' = [call EXCEPT ![i] = Idle]
       /\ UNCHANGED <<depth, expiry, calls, faults>>

-----------------------------------------------------------------------------
(* Failures.                                                                *)

\* The worker is killed, or the database fails: the transaction is rolled back.
Fail(i) ==
    /\ ~At(i, "idle") /\ Fault
    /\ call' = [call EXCEPT ![i] = Idle]
    /\ hist' = IF At(i, "expire") THEN [hist EXCEPT !.stuck = @ \cup {call[i].person}] ELSE hist
    /\ UNCHANGED <<depth, expiry, stored, reviews, calls>>

PivotNext ==
    \/ \E i \in Ingesters :
           \/ Start(i) \/ CountDepth(i) \/ SetExpiry(i) \/ DepthFails(i)
           \/ Look(i) \/ Store(i) \/ Review(i) \/ Commit(i) \/ Fail(i)
    \/ \E p \in Persons : Expire(p)

PivotSpec == PivotInit /\ [][PivotNext]_pivotVars

-----------------------------------------------------------------------------
(* Properties.                                                              *)

PivotTypeOK ==
    /\ depth \in [Persons -> Nat] /\ expiry \in [Persons -> BOOLEAN]
    /\ stored \subseteq Ident /\ reviews \subseteq Pairs
    /\ \A i \in Ingesters : call[i] = Idle \/ call[i] \in Call
    /\ calls \in 0..MaxCalls /\ faults \in 0..MaxFaults
    /\ hist \in History
    /\ \A i \in Ingesters : At(i, "store") => call[i].todo # <<>>

\* An identifier that a pivot has stored is not searched by later pivots, so it
\* must have been searched by the one that stored it, whichever limit it met,
\* unless the push failed (pivot_enricher.py:267-310).
StoredIsSearched == stored \subseteq hist.searched \cup hist.unpushed

\* Two persons with one identifier are flagged, whatever other ingesters do,
\* unless both were written at the same time (pivot_enricher.py:281-340).
SharedIsReviewed == \A p, q \in Persons, v \in Values :
    /\ p # q /\ <<p, v>> \in stored /\ <<q, v>> \in stored
    => {p, q} \in reviews \cup hist.raced

\* The counter of a person goes away again, so that the person can be pivoted
\* on later: it has its expiry, or the call that sets it is under way, or a
\* fault came between the two calls of Redis (dispatcher.py:430-432).
CounterExpires == \A p \in Persons :
    depth[p] > 0 => \/ expiry[p]
                    \/ \E i \in Ingesters : At(i, "expire") /\ call[i].person = p
                    \/ p \in hist.stuck
=============================================================================
