------------------------- MODULE FreshnessScheduler -------------------------
(***************************************************************************)
(* Scans for social profiles that were scraped too long ago and dispatches *)
(* a crawl job for each.  A row of the freshness queue keeps a profile     *)
(* from being dispatched twice.  The rows of a scan are committed at its   *)
(* end, the jobs are in Redis at once.                                     *)
(***************************************************************************)
EXTENDS Naturals, FiniteSets, SequencesExt

CONSTANTS
    Profiles,       \* rows of social_profiles that were scraped once
    Sla,            \* Sla[p]: SOURCE_SLA_DAYS of the platform
    ShortestSla,    \* 7 days
    Unregistered,   \* profiles without a handle or of a platform without a crawler
    BatchSize,      \* BATCH_SIZE
    Window,         \* candidates read, BATCH_SIZE * 3
    MaxAge,         \* bound of the model: days counted
    MaxScanFails    \* bound of the model: scans that fail

ASSUME FreshnessAssumption ==
    /\ IsFiniteSet(Profiles)
    /\ Sla \in [Profiles -> Nat] /\ ShortestSla \in Nat
    /\ \A p \in Profiles : Sla[p] >= ShortestSla
    /\ Unregistered \subseteq Profiles
    /\ BatchSize \in Nat \ {0} /\ Window \in Nat /\ MaxAge \in Nat /\ MaxScanFails \in Nat

VARIABLES
    age,        \* age[p]: days since last_scraped_at
    queued,     \* profiles with a committed row of FreshnessQueue
    crawls,     \* profiles whose job is in the low queue
    scan,       \* the scan under way
    scanFails   \* history: number of scans that failed

freshVars == <<age, queued, crawls, scan, scanFails>>

\* "stale" are the profiles of the scan that are left, "added" its new rows, "sent" its
\* jobs; "late" are those that were overdue and not behind others when it began.
Scan   == [on : BOOLEAN, stale : SUBSET Profiles, added : SUBSET Profiles, sent : SUBSET Profiles,
           late : SUBSET Profiles]
NoScan == [on |-> FALSE, stale |-> {}, added |-> {}, sent |-> {}, late |-> {}]

FreshInit ==
    /\ age \in [Profiles -> {0, MaxAge}]
    /\ queued = {} /\ crawls = {}
    /\ scan = NoScan /\ scanFails = 0

-----------------------------------------------------------------------------

Overdue(p) == age[p] > Sla[p]

\* The oldest n of a set, for some order of those of one age.
Oldest(S, n) == {T \in SUBSET S :
    /\ Cardinality(T) = IF Cardinality(S) < n THEN Cardinality(S) ELSE n
    /\ \A p \in T, q \in S \ T : age[p] >= age[q]}

\* Mutant: no more candidates are read than a batch takes.
Candidates_Batch == Oldest({p \in Profiles : age[p] > ShortestSla}, BatchSize)

Candidates == Oldest({p \in Profiles : age[p] > ShortestSla}, Window)

\* As many others are at least as old as are read, or as are served.
Behind(p) ==
    LET older == {q \in Profiles \ {p} : age[q] >= age[p]}
    IN \/ Cardinality({q \in older : age[q] > ShortestSla}) >= Window
       \/ Cardinality({q \in older : Overdue(q)}) >= BatchSize

\* The oldest candidates past the shortest interval are read and then judged by
\* the interval of their platform.
StartScan == \E read \in Candidates : \E stale \in Oldest({p \in read : Overdue(p)}, BatchSize) :
    /\ ~scan.on
    /\ scan' = [on |-> TRUE, stale |-> stale, added |-> {}, sent |-> {},
                late |-> {p \in Profiles : Overdue(p) /\ ~Behind(p)}]
    /\ UNCHANGED <<age, queued, crawls, scanFails>>

IsQueued(p) == p \in queued

Enqueue == \E p \in scan.stale :
    /\ scan.on
    /\ IF IsQueued(p) THEN scan' = [scan EXCEPT !.stale = @ \ {p}] /\ UNCHANGED crawls
       ELSE IF p \in Unregistered
       THEN scan' = [scan EXCEPT !.stale = @ \ {p}, !.added = @ \cup {p}] /\ UNCHANGED crawls
       ELSE /\ scan' = [scan EXCEPT !.stale = @ \ {p}, !.added = @ \cup {p}, !.sent = @ \cup {p}]
            /\ crawls' = crawls \cup {p}
    /\ UNCHANGED <<age, queued, scanFails>>

EndScan ==
    /\ scan.on /\ scan.stale = {}
    /\ queued' = queued \cup scan.added
    /\ scan' = NoScan
    /\ UNCHANGED <<age, crawls, scanFails>>

\* An error or a kill: the rows are rolled back, the jobs sent so far stay.
FailScan ==
    /\ scan.on /\ scanFails < MaxScanFails
    /\ scanFails' = scanFails + 1
    /\ scan' = NoScan
    /\ UNCHANGED <<age, queued, crawls>>

-----------------------------------------------------------------------------
(* Around the scheduler.                                                    *)

\* The job finds the profile and the aggregator sets last_scraped_at, or does not.
Rescrape(p) == \E found \in BOOLEAN :
    /\ p \in crawls
    /\ crawls' = crawls \ {p}
    /\ age' = IF found THEN [age EXCEPT ![p] = 0] ELSE age
    /\ UNCHANGED <<queued, scan, scanFails>>

Day == /\ \E p \in Profiles : age[p] < MaxAge
       /\ age' = [p \in Profiles |-> IF age[p] < MaxAge THEN age[p] + 1 ELSE MaxAge]
       /\ UNCHANGED <<queued, crawls, scan, scanFails>>

FreshNext == StartScan \/ Enqueue \/ EndScan \/ FailScan \/ Day \/ (\E p \in Profiles : Rescrape(p))

\* The worker scans every five minutes, and workers take what is in the queue.
FreshFairness == WF_freshVars(StartScan) /\ WF_freshVars(Enqueue) /\ WF_freshVars(EndScan)
                 /\ WF_freshVars(Day) /\ \A p \in Profiles : WF_freshVars(Rescrape(p))

FreshSpec == FreshInit /\ [][FreshNext]_freshVars /\ FreshFairness

-----------------------------------------------------------------------------
(* Properties.                                                              *)

FreshTypeOK ==
    /\ age \in [Profiles -> 0..MaxAge]
    /\ queued \subseteq Profiles /\ crawls \subseteq Profiles
    /\ scan \in Scan
    /\ scanFails \in 0..MaxScanFails

\* A scan that ends leaves no overdue profile without a row, but for those behind as
\* many older ones as it reads or serves; the older ones count though they have their
\* rows, so these hide those behind them for good (freshness_scheduler.py:125-155).
OverdueIsQueued == [][EndScan => scan.late \subseteq queued']_freshVars
=============================================================================
