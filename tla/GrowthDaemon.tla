--------------------------- MODULE GrowthDaemon ---------------------------
(***************************************************************************)
(* How one crawl leads to others.  A crawl that finds something publishes  *)
(* an event and pushes a result.  The growth daemon takes the events one   *)
(* by one and crawls all identifiers of the person again, one level        *)
(* deeper; an ingester crawls the identifiers that are new in the result,  *)
(* and stores them afterwards, or not.  A crawl that is refused or raises  *)
(* is queued again.  None of these crawls has a row, so nothing sees them  *)
(* afterwards: depth, cooldown, fan-out and a daily cap limit them.        *)
(***************************************************************************)
EXTENDS Integers, Bags, SequencesExt

CONSTANTS
    Persons,
    Values,       \* identifiers of one person
    Pivoters,     \* ingesters, each of which pivots on one result at a time
    PlatformCount,\* number of platforms that accept an identifier
    MaxRetries,   \* MAX_RETRIES of the dispatcher
    MaxDepth,     \* MAX_DEPTH
    MaxFanout,    \* MAX_FANOUT_PER_PERSON
    MaxDaily,     \* MAX_DAILY_GROWTH_JOBS
    MaxSearches,  \* bound of the model: searches and persons announced
    MaxDays,      \* bound of the model: midnights
    MaxRefusals,  \* bound of the model: crawls a source refuses (429), without bound in the code
    MaxFaults     \* bound of the model: failed statements and restarts

ASSUME GrowthAssumption ==
    /\ PlatformCount \in Nat \ {0} /\ MaxDepth \in Nat \ {0} /\ MaxRetries \in Nat
    /\ MaxFanout \in Nat \ {0} /\ MaxDaily \in Nat \ {0}
    /\ MaxSearches \in Nat /\ MaxDays \in Nat /\ MaxRefusals \in Nat /\ MaxFaults \in Nat
    /\ IsFiniteSet(Values)

VARIABLES
    known,     \* known[p]: identifiers stored for the person
    jobs,      \* bag of crawls queued or running
    results,   \* bag of persons: results on the ingest queue
    hand,      \* hand[i]: the result an ingester pivots on
    events,    \* crawl_complete events the daemon's subscription holds
    daemon,    \* what the daemon is doing
    count,     \* _daily_job_count
    marker,    \* _day_marker
    today,     \* int(time.time()) // 86400
    recent,    \* persons whose cooldown runs
    searches,  \* history: number of searches and announcements
    refusals,  \* history: number of refused crawls
    faultsG,   \* history: number of faults
    grown      \* history: see Grown

\* What the daemon keeps, and what the crawls and the ingesters do.
dailyVars  == <<count, marker, today, recent, grown>>
crawlVars  == <<known, jobs, results, hand>>
growthVars == <<crawlVars, events, daemon, dailyVars, searches, refusals, faultsG>>

Job   == [person : Persons, depth : Nat, tries : Nat]
Event == [person : Persons, depth : Nat]
First(p, d) == [person |-> p, depth |-> d, tries |-> 0]
Again(job)  == [job EXCEPT !.tries = @ + 1]

\* The identifiers of the result not looked at yet, the new one, and the rows the
\* transaction has inserted.
Pivoting == [person : Persons, todo : SUBSET Values, next : SUBSET Values, kept : SUBSET Values]
Free     == [todo |-> {}]

\* One fan-out: the identifiers read and not looked at yet, the jobs it pushed.
FanOutState == [person : Persons, depth : Nat, todo : SUBSET Values, dispatched : Nat]
Waiting     == [todo |-> {}]

\* Jobs pushed by the daemon today, and those of them the counter does not have:
\* pushed after midnight by a fan-out of yesterday, by one that failed, or before
\* a restart.
Grown == [today : Nat, uncounted : Nat]

Copies(n, job) == IF n = 0 THEN EmptyBag ELSE [j \in {job} |-> n]
Least(a, b)    == IF a < b THEN a ELSE b

GrowthInit ==
    /\ known = [p \in Persons |-> {}]
    /\ jobs = EmptyBag /\ results = EmptyBag /\ events = <<>>
    /\ hand = [i \in Pivoters |-> Free]
    /\ daemon = Waiting
    /\ count = 0 /\ marker = 0 /\ today = 1
    /\ recent = {}
    /\ searches = 0 /\ refusals = 0 /\ faultsG = 0
    /\ grown = [today |-> 0, uncounted |-> 0]

-----------------------------------------------------------------------------
(* Searches and crawls.                                                     *)

Search(p, v) ==
    /\ searches < MaxSearches
    /\ searches' = searches + 1
    /\ known' = [known EXCEPT ![p] = @ \cup {v}]
    /\ jobs' = jobs (+) Copies(1, First(p, 0))
    /\ UNCHANGED <<results, hand, events, daemon, dailyVars, refusals, faultsG>>

\* The people builder announces a person it has linked (PeopleBuilder).
Announce(p) ==
    /\ searches < MaxSearches
    /\ searches' = searches + 1
    /\ events' = Append(events, [person |-> p, depth |-> 0])
    /\ UNCHANGED <<crawlVars, daemon, dailyVars, refusals, faultsG>>

\* The crawl is queued again, with one more try.
Requeued(job) == (jobs (-) Copies(1, job)) (+) Copies(1, Again(job))

\* The event carries the depth of the crawl, the result does not.
CrawlFinds(job) ==
    /\ BagIn(job, jobs)
    /\ jobs' = jobs (-) Copies(1, job)
    /\ results' = results (+) Copies(1, job.person)
    /\ events' = Append(events, [person |-> job.person, depth |-> job.depth])
    /\ UNCHANGED <<known, hand, daemon, dailyVars, searches, refusals, faultsG>>

\* Nothing found, blocked, timed out, or lost with its process.
CrawlFindsNothing(job) ==
    /\ BagIn(job, jobs)
    /\ jobs' = jobs (-) Copies(1, job)
    /\ UNCHANGED <<known, results, hand, events, daemon, dailyVars, searches, refusals, faultsG>>

\* A source that refuses is asked again, however often it has refused.
CrawlRefused(job) ==
    /\ BagIn(job, jobs) /\ refusals < MaxRefusals
    /\ refusals' = refusals + 1
    /\ jobs' = Requeued(job)
    /\ UNCHANGED <<known, results, hand, events, daemon, dailyVars, searches, faultsG>>

\* Mutant: the crawl is queued again as it was.
CrawlRaises_SameTry(job) == \E pushed \in {0, 1} :
    /\ BagIn(job, jobs)
    /\ jobs' = IF job.tries < MaxRetries THEN jobs ELSE jobs (-) Copies(1, job)
    /\ results' = results (+) Copies(pushed, job.person)
    /\ UNCHANGED <<known, hand, events, daemon, dailyVars, searches, refusals, faultsG>>

\* An exception, in the scraper or between the result and the event; while there
\* are tries left the crawl is made again.
CrawlRaises(job) == \E pushed \in {0, 1} :
    /\ BagIn(job, jobs)
    /\ jobs' = IF job.tries < MaxRetries THEN Requeued(job) ELSE jobs (-) Copies(1, job)
    /\ results' = results (+) Copies(pushed, job.person)
    /\ UNCHANGED <<known, hand, events, daemon, dailyVars, searches, refusals, faultsG>>

-----------------------------------------------------------------------------
(* Results.                                                                 *)

\* The identifiers in the result, as many of them as the limit of the call lets
\* the ingester look at.
Take(i, p) == \E found \in SUBSET Values :
    /\ hand[i] = Free /\ BagIn(p, results)
    /\ results' = results (-) Copies(1, p)
    /\ hand' = [hand EXCEPT ![i] = [person |-> p, todo |-> found, next |-> {}, kept |-> {}]]
    /\ UNCHANGED <<known, jobs, events, daemon, dailyVars, searches, refusals, faultsG>>

\* Committed identifiers of the person are passed over.
Look(i) == \E v \in hand[i].todo :
    /\ hand[i] # Free /\ hand[i].next = {}
    /\ hand' = [hand EXCEPT ![i].todo = @ \ {v}, ![i].next = {v} \ known[hand[i].person]]
    /\ UNCHANGED <<known, jobs, results, events, daemon, dailyVars, searches, refusals, faultsG>>

\* The insert waits for another transaction that has inserted the same row; when
\* several wait for one another in a circle the database makes one of them fail.
WaitsFor(i, k) == /\ hand[i] # Free /\ hand[k] # Free /\ k # i
                  /\ hand[i].person = hand[k].person /\ hand[i].next \cap hand[k].kept # {}
Circle(i) == \E S \in SUBSET Pivoters : /\ i \in S
                 /\ \A j \in S : (\E k \in S : WaitsFor(j, k)) /\ (\E k \in S : WaitsFor(k, j))

\* The new identifier is crawled, without a depth in the result again at depth 1;
\* how many of its platforms are registered, and which pushes fail, is PivotEnricher's
\* subject.  Whether the row stays is another matter: "kept" are the rows that do.
Pivot(i, kept) == \E n \in 0..PlatformCount :
    /\ hand[i] # Free /\ hand[i].next # {}
    /\ hand' = [hand EXCEPT ![i].next = {}, ![i].kept = kept]
    /\ jobs' = jobs (+) Copies(n, First(hand[i].person, 1))
    /\ UNCHANGED <<known, results, events, daemon, dailyVars, searches, refusals>>

\* A row that is there by now rolls the whole transaction back.
Store(i) ==
    /\ \A k \in Pivoters : ~WaitsFor(i, k)
    /\ Pivot(i, IF hand[i].next \subseteq known[hand[i].person] THEN {}
                ELSE hand[i].kept \cup hand[i].next)
    /\ UNCHANGED faultsG

\* So does a failed insert, and the victim of a circle.
StoreFails(i) ==
    /\ Circle(i) \/ faultsG < MaxFaults
    /\ Pivot(i, {})
    /\ faultsG' = faultsG + 1

CommitPivots(i) ==
    /\ hand[i] # Free /\ hand[i].todo = {} /\ hand[i].next = {}
    /\ known' = [known EXCEPT ![hand[i].person] = @ \cup hand[i].kept]
    /\ hand' = [hand EXCEPT ![i] = Free]
    /\ UNCHANGED <<jobs, results, events, daemon, dailyVars, searches, refusals, faultsG>>

\* The crawls are queued and the identifiers are not stored.
PivotsLost(i) ==
    /\ hand[i] # Free /\ faultsG < MaxFaults
    /\ hand' = [hand EXCEPT ![i] = Free]
    /\ faultsG' = faultsG + 1
    /\ UNCHANGED <<known, jobs, results, events, daemon, dailyVars, searches, refusals>>

-----------------------------------------------------------------------------
(* The growth daemon.                                                       *)

\* Mutant: the comparison the wrong way round.
Reset_SameDay == IF today = marker THEN 0 ELSE count

\* The counter the daemon goes by, reset with the first event of a day.
Reset == IF today = marker THEN count ELSE 0

Declined(e) == e.depth >= MaxDepth

HandleEvent ==
    /\ daemon = Waiting /\ events # <<>>
    /\ events' = Tail(events)
    /\ LET e == Head(events)
       IN IF Declined(e)
          THEN UNCHANGED <<count, marker, recent, daemon>>
          ELSE /\ marker' = today /\ count' = Reset
               /\ IF count' >= MaxDaily \/ e.person \in recent
                  THEN UNCHANGED <<recent, daemon>>
                  ELSE /\ recent' = recent \cup {e.person}
                       /\ daemon' = [person |-> e.person, depth |-> e.depth,
                                     todo |-> known[e.person], dispatched |-> 0]
    /\ UNCHANGED <<crawlVars, today, searches, refusals, faultsG, grown>>

\* One identifier: platforms without a crawler, switched off or with a row for
\* the same crawl are left out.
FanOut == \E v \in daemon.todo : \E n \in 0..Least(PlatformCount, MaxFanout - daemon.dispatched) :
    /\ daemon # Waiting /\ daemon.dispatched < MaxFanout
    /\ jobs' = jobs (+) Copies(n, First(daemon.person, daemon.depth + 1))
    /\ daemon' = [daemon EXCEPT !.todo = @ \ {v}, !.dispatched = @ + n]
    /\ grown' = [today     |-> grown.today + n,
                 uncounted |-> grown.uncounted + (IF marker = today THEN 0 ELSE n)]
    /\ UNCHANGED <<known, results, hand, events, count, marker, today, recent,
                   searches, refusals, faultsG>>

\* The jobs are counted when all of them have been pushed.
EndFanOut ==
    /\ daemon # Waiting /\ (daemon.todo = {} \/ daemon.dispatched >= MaxFanout)
    /\ count' = count + daemon.dispatched
    /\ daemon' = Waiting
    /\ UNCHANGED <<crawlVars, events, marker, today, recent, searches, refusals, faultsG, grown>>

\* The database fails in the middle: what was pushed is never counted.
FanOutFails ==
    /\ daemon # Waiting /\ faultsG < MaxFaults
    /\ faultsG' = faultsG + 1
    /\ daemon' = Waiting
    /\ grown' = [grown EXCEPT !.uncounted = @ + daemon.dispatched]
    /\ UNCHANGED <<crawlVars, events, count, marker, today, recent, searches, refusals>>

\* The worker process starts again: counter and cooldowns were in its memory, the
\* transactions are rolled back, and a subscription does not keep events.
Restart ==
    /\ faultsG < MaxFaults
    /\ faultsG' = faultsG + 1
    /\ daemon' = Waiting /\ events' = <<>> /\ recent' = {}
    /\ hand' = [i \in Pivoters |-> Free]
    /\ count' = 0 /\ marker' = 0
    /\ grown' = [grown EXCEPT !.uncounted = grown.today]
    /\ UNCHANGED <<known, jobs, results, today, searches, refusals>>

-----------------------------------------------------------------------------
(* Time.                                                                    *)

CooldownEnds(p) ==
    /\ p \in recent
    /\ recent' = recent \ {p}
    /\ UNCHANGED <<crawlVars, events, daemon, count, marker, today, grown,
                   searches, refusals, faultsG>>

Midnight ==
    /\ today <= MaxDays
    /\ today' = today + 1
    /\ grown' = [today |-> 0, uncounted |-> 0]
    /\ UNCHANGED <<crawlVars, events, daemon, count, marker, recent, searches, refusals, faultsG>>

-----------------------------------------------------------------------------

Crawls  == \E job \in BagToSet(jobs) :
               CrawlFinds(job) \/ CrawlFindsNothing(job) \/ CrawlRefused(job) \/ CrawlRaises(job)
Ingests == \E i \in Pivoters : \/ \E p \in BagToSet(results) : Take(i, p)
                               \/ Look(i) \/ Store(i) \/ StoreFails(i) \/ CommitPivots(i)

GrowthNext ==
    \/ \E p \in Persons, v \in Values : Search(p, v)
    \/ \E p \in Persons : Announce(p)
    \/ Crawls \/ Ingests \/ \E i \in Pivoters : PivotsLost(i)
    \/ HandleEvent \/ FanOut \/ EndFanOut \/ FanOutFails \/ Restart
    \/ \E p \in Persons : CooldownEnds(p)
    \/ Midnight

\* Dispatchers, ingesters and the daemon go on; searches, faults, cooldowns that
\* end and midnights need not come.
GrowthFairness == /\ WF_growthVars(Crawls) /\ WF_growthVars(Ingests)
                  /\ WF_growthVars(HandleEvent) /\ WF_growthVars(FanOut)
                  /\ WF_growthVars(EndFanOut)

GrowthSpec == GrowthInit /\ [][GrowthNext]_growthVars /\ GrowthFairness

-----------------------------------------------------------------------------
(* Properties.                                                              *)

\* Types; no crawl is deeper than the daemon allows.
GrowthTypeOK ==
    /\ known \in [Persons -> SUBSET Values]
    /\ IsABag(jobs) /\ \A job \in BagToSet(jobs) : /\ job \in Job /\ job.depth <= MaxDepth
                                                  /\ job.tries <= MaxRetries + refusals
    /\ IsABag(results) /\ BagToSet(results) \subseteq Persons
    /\ hand \in [Pivoters -> Pivoting \cup {Free}]
    /\ \A n \in DOMAIN events : events[n] \in Event
    /\ daemon = Waiting \/ daemon \in FanOutState
    /\ daemon # Waiting => daemon.dispatched <= MaxFanout /\ daemon.depth < MaxDepth
    /\ count \in Nat /\ marker \in 0..today /\ today \in 1..(MaxDays + 1)
    /\ recent \subseteq Persons
    /\ searches \in 0..MaxSearches /\ refusals \in 0..MaxRefusals /\ faultsG \in Nat
    /\ grown \in Grown

\* The cap is looked at before an event is fanned out and the jobs are counted
\* afterwards: the jobs of a day stay below the cap plus one fan-out, apart from
\* those the counter never gets to know (growth_daemon.py:139-181).
DailyBounded == grown.today < MaxDaily + MaxFanout + grown.uncounted

\* What one search starts comes to an end once the sources stop refusing, although
\* crawls lead to crawls and are made again, and pivots set the depth back and are
\* forgotten (growth_daemon.py:134, dispatcher.py:219-254, pivot_enricher.py:228-340).
CascadeEnds == <>[](/\ jobs = EmptyBag /\ results = EmptyBag /\ \A i \in Pivoters : hand[i] = Free
                    /\ events = <<>> /\ daemon = Waiting)

\* Why it does: what is left to do, at each depth and for each person.
Tries         == 0..(MaxRetries + MaxRefusals)
Number(e, B)  == IF BagIn(e, B) THEN B[e] ELSE 0
CrawlsAt(d, t) == [p \in Persons |-> Number([person |-> p, depth |-> d, tries |-> t], jobs)]
EventsAt(d)   == Cardinality({n \in 1..Len(events) : events[n].depth = d})
TodoAt(d)     == IF daemon # Waiting /\ daemon.depth = d THEN 1 + Cardinality(daemon.todo) ELSE 0
ResultsLeft   == [p \in Persons |-> Number(p, results)]
HandLeft(i)   == IF hand[i] = Free THEN 0
                 ELSE 1 + 2 * Cardinality(hand[i].todo) + Cardinality(hand[i].next)

\* Ingesters that are about to insert a row which is there by now, and the rows that
\* are stored or about to be.
Stale      == {i \in Pivoters : hand[i] # Free /\ hand[i].next \cap known[hand[i].person] # {}}
Holders(p) == {i \in Pivoters : hand[i] # Free /\ hand[i].person = p}
Taken(p)   == known[p] \cup UNION {hand[i].kept : i \in Holders(p)}

NoMore(f, g) == \A p \in Persons : f[p] <= g[p]
Fewer(f, g)  == NoMore(f, g) /\ f # g

\* At depth d there is nothing more to do than there was, or there is less: fewer
\* crawls, those made again counting less, or with them no more, fewer events, or no
\* more of both and less to fan out.
CrawlsNoMore(d) == \A t \in Tries : NoMore(CrawlsAt(d, t)', CrawlsAt(d, t))
NoMoreAt(d) == CrawlsNoMore(d) /\ EventsAt(d)' <= EventsAt(d) /\ TodoAt(d)' <= TodoAt(d)
LessAt(d) == \/ \E t \in Tries : /\ Fewer(CrawlsAt(d, t)', CrawlsAt(d, t))
                                 /\ \A u \in Tries : u < t => NoMore(CrawlsAt(d, u)', CrawlsAt(d, u))
             \/ /\ CrawlsNoMore(d)
                /\ \/ EventsAt(d)' < EventsAt(d)
                   \/ EventsAt(d)' = EventsAt(d) /\ TodoAt(d)' < TodoAt(d)

Depths == 0..MaxDepth

\* With what persons have unchanged: an ingester is over with a row that is there by
\* now; or a row more is about to be stored; or there is less to do at one depth and
\* no more at those above it, whatever is added below; or a result is off the queue;
\* or an ingester is further.  Only time may leave all as it is.
Settling ==
    \/ Stale' \subseteq Stale /\ Stale' # Stale
    \/ /\ Stale' = Stale
       /\ \A p \in Persons : Taken(p) \subseteq Taken(p)'
       /\ \/ \E p \in Persons : Taken(p)' # Taken(p)
          \/ \E d \in Depths : LessAt(d) /\ \A c \in Depths : c < d => NoMoreAt(c)
          \/ /\ \A d \in Depths : NoMoreAt(d)
             /\ \/ Fewer(ResultsLeft', ResultsLeft)
                \/ /\ results' = results
                   /\ \A i \in Pivoters : HandLeft(i)' <= HandLeft(i)
                   /\ \/ \E i \in Pivoters : HandLeft(i)' < HandLeft(i)
                      \/ Midnight \/ \E p \in Persons : CooldownEnds(p)

Descends ==
    /\ \A p \in Persons : known[p] \subseteq known'[p]
    /\ known' # known \/ Settling

\* Every step without a search, a refusal or a fault descends; persons, identifiers,
\* tries, depths and ingesters being finite, that comes to an end (growth_daemon.py:134,
\* dispatcher.py:219-254, pivot_enricher.py:228-340).
CascadeDescends ==
    [][searches' = searches /\ refusals' = refusals /\ faultsG' = faultsG => Descends]_growthVars

=============================================================================
