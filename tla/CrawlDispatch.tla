--------------------------- MODULE CrawlDispatch ---------------------------
(***************************************************************************)
(* The life of a crawl job: the API inserts a crawl_jobs row and pushes a  *)
(* message on a Redis priority queue inside one still open transaction;    *)
(* the dispatchers of the worker process pop messages under a semaphore    *)
(* and run each one as an asyncio task; a retry endpoint and the           *)
(* PendingJobRecovery daemon push messages for rows that already exist.    *)
(*                                                                         *)
(* The row (PostgreSQL) and the message (Redis) are two stores that no     *)
(* transaction covers together.  Every await that another process can      *)
(* observe is an action of its own, so the model has all the orders in     *)
(* which the two stores can change.                                        *)
(***************************************************************************)
EXTENDS Naturals, Sequences, FiniteSets

CONSTANTS
    Persons,            \* people being searched for
    Jobs,               \* ids of crawl_jobs rows
    Owner,              \* Owner[j]: the person whose search created job j
    Unregistered,       \* jobs whose platform this worker has no crawler for
    Dispatchers,        \* the CrawlDispatcher instances of the worker process
    Concurrency,        \* CONCURRENCY_PER_WORKER
    MaxRetries,         \* MAX_RETRIES
    MaxRecoverPerScan,  \* MAX_RECOVER_PER_SCAN
    SubmitPriorities,   \* priorities a search request may ask for
    Verdicts,           \* how a crawl may end
    \* Bounds of the model; the code has none of these.
    RetryCap,           \* a crawl is rate limited only below this retry count
    QueueCap,           \* recovery pushes only while "normal" is shorter
    MaxFaults,          \* failed database or Redis calls
    MaxStops,           \* crashes and shutdowns of the worker
    MaxManual           \* calls of the retry endpoint

Priority == {"high", "normal", "low"}
Status   == {"pending", "running", "done", "failed", "rate_limited", "blocked"}
Verdict  == {"found", "empty", "rate", "block", "timeout", "error"}

ASSUME ConstantsAssumption ==
    /\ Owner \in [Jobs -> Persons]
    /\ Unregistered \subseteq Jobs
    /\ Concurrency \in Nat \ {0}
    /\ MaxRetries \in Nat /\ MaxRecoverPerScan \in Nat /\ RetryCap \in Nat
    /\ QueueCap \in Nat /\ MaxFaults \in Nat /\ MaxStops \in Nat /\ MaxManual \in Nat
    /\ SubmitPriorities \subseteq Priority /\ Verdicts \subseteq Verdict
    /\ IsFiniteSet(Jobs)

Slot    == Dispatchers \X (1..Concurrency)
Message == [job : Jobs, retry : Nat]

VARIABLES
    row,        \* row[j]: the crawl_jobs row as the other sessions see it
    status,     \* status[j]: its status column
    queue,      \* queue[p]: the Redis list, popped at its head
    worker,     \* the worker process: "running", "draining" or "down"
    loop,       \* loop[d]: where dispatcher d's start() loop is
    permits,    \* permits[d]: value of dispatcher d's semaphore
    task,       \* task[w]: the in-flight _process_one_guarded task of slot w
    scan,       \* jobs PendingJobRecovery has read and not re-enqueued yet
    retryReq,   \* retryReq[j]: where a retry_crawl request for j is
    delivered,  \* jobs with a payload pushed on the ingest queue
    announced,  \* persons whose completed crawl set has been announced
    settledBy,  \* history: the verdict behind row j's last final status
    dropped,    \* history: jobs a carrier of which vanished without its
                \* outcome reaching the row
    faults, stops, manual   \* how much of each bound is used

rowVars     == <<row, status, settledBy>>
workerVars  == <<worker, loop, permits, task, scan>>
outVars     == <<delivered, announced>>
bounds      == <<faults, stops, manual>>
vars == <<row, status, queue, worker, loop, permits, task, scan, retryReq,
          delivered, announced, settledBy, dropped, faults, stops, manual>>

-----------------------------------------------------------------------------
(* Rows.  A row in state "inserted" is flushed but not committed: UPDATEs   *)
(* of other sessions match nothing and a foreign key to it is refused.      *)
(* "stale" is a committed row whose created_at is older than                *)
(* STALE_THRESHOLD.                                                         *)

RowState   == {"absent", "inserted", "committed", "stale", "aborted"}
Visible(j) == row[j] \in {"committed", "stale"}
JobsOf(p)  == {j \in Jobs : Owner[j] = p}

\* Mutant: the update is executed but its session never commits.
UpdateStatus_NoCommit(j, s) == UNCHANGED status

UpdateStatus(j, s) == status' = IF Visible(j) THEN [status EXCEPT ![j] = s] ELSE status

Unfinished(p) == {j \in JobsOf(p) : Visible(j) /\ status[j] \in {"pending", "running"}}

-----------------------------------------------------------------------------
(* Queues and tasks.                                                        *)

Push(p, m) == queue' = [queue EXCEPT ![p] = Append(@, m)]
Fresh(j)   == [job |-> j, retry |-> 0]

PC == {"idle", "route", "crawl", "ingest", "requeue", "finish", "log",
       "publish", "fail", "check"}

Idle == [pc |-> "idle"]
Run  == [pc : PC \ {"idle"}, job : Jobs, retry : Nat, verdict : Verdict, poisoned : BOOLEAN]
Task == {Idle} \cup Run

\* Tasks whose final status update is still ahead of them.
Owing == {"crawl", "ingest", "requeue", "finish", "fail"}

Goto(w, pc)    == task' = [task EXCEPT ![w].pc = pc]
Active(d)      == {w \in Slot : w[1] = d /\ task[w].pc # "idle"}
Holding(d)     == IF loop[d] = "holding" THEN 1 ELSE 0
NoActiveTask   == \A w \in Slot : task[w].pc = "idle"

\* Mutant: the release is not in a finally clause.
EndTask_NoRelease(w) == task' = [task EXCEPT ![w] = Idle] /\ UNCHANGED permits

\* The finally clause of _process_one_guarded.
EndTask(w) == /\ task' = [task EXCEPT ![w] = Idle]
              /\ permits' = [permits EXCEPT ![w[1]] = @ + 1]

\* Mutants: one retry too many; a handler that returns once they are used up.
AfterError_OneMore(retry) == IF retry <= MaxRetries THEN "requeue" ELSE "fail"
AfterError_Return(retry)  == IF retry < MaxRetries THEN "requeue" ELSE "check"

\* Where the except Exception handler of _run_job goes first.
AfterError(retry) == IF retry < MaxRetries THEN "requeue" ELSE "fail"

\* Mutant: a status the column is never compared with.
FinalStatus_Typo(v) == IF v = "rate" THEN "ratelimited" ELSE "done"

FinalStatus(v) == CASE v = "rate" -> "rate_limited"
                    [] v = "block" -> "blocked"
                    [] OTHER -> "done"

-----------------------------------------------------------------------------
Init ==
    /\ row = [j \in Jobs |-> "absent"]
    /\ status = [j \in Jobs |-> "pending"]
    /\ queue = [p \in Priority |-> <<>>]
    /\ worker = "running"
    /\ loop = [d \in Dispatchers |-> "free"]
    /\ permits = [d \in Dispatchers |-> Concurrency]
    /\ task = [w \in Slot |-> Idle]
    /\ scan = {}
    /\ retryReq = [j \in Jobs |-> "none"]
    /\ delivered = {} /\ announced = {} /\ dropped = {}
    /\ settledBy = [j \in Jobs |-> "none"]
    /\ faults = 0 /\ stops = 0 /\ manual = 0

-----------------------------------------------------------------------------
(* The search endpoint: one open transaction inserts the person's rows,     *)
(* pushing each row's message as it goes, and commits at the end.           *)

\* dispatch_job swallows a failed push: the row is left without a message.
SubmitJob(j) ==
    /\ row[j] = "absent"
    /\ row' = [row EXCEPT ![j] = "inserted"]
    /\ \/ /\ \E p \in SubmitPriorities : Push(p, Fresh(j))
          /\ UNCHANGED <<dropped, faults>>
       \/ /\ faults < MaxFaults
          /\ faults' = faults + 1
          /\ dropped' = dropped \cup {j}
          /\ UNCHANGED queue
    /\ UNCHANGED <<status, settledBy, workerVars, retryReq, outVars, stops, manual>>

CommitSearch(p) ==
    /\ JobsOf(p) # {}
    /\ \A j \in JobsOf(p) : row[j] = "inserted"
    /\ row' = [j \in Jobs |-> IF Owner[j] = p THEN "committed" ELSE row[j]]
    /\ UNCHANGED <<status, settledBy, queue, workerVars, retryReq, outVars, dropped, bounds>>

\* The request fails before its commit; messages already pushed stay queued.
AbortSearch(p) ==
    /\ faults < MaxFaults
    /\ faults' = faults + 1
    /\ \E j \in JobsOf(p) : row[j] = "inserted"
    /\ row' = [j \in Jobs |-> IF Owner[j] = p /\ ~Visible(j) THEN "aborted" ELSE row[j]]
    /\ UNCHANGED <<status, settledBy, queue, workerVars, retryReq, outVars, dropped, stops, manual>>

\* STALE_THRESHOLD seconds pass after the row was created.
Age(j) ==
    /\ row[j] = "committed"
    /\ row' = [row EXCEPT ![j] = "stale"]
    /\ UNCHANGED <<status, settledBy, queue, workerVars, retryReq, outVars, dropped, bounds>>

-----------------------------------------------------------------------------
(* The retry endpoint: check, reset and commit, push.                       *)

RetryCheck(j) ==
    /\ manual < MaxManual
    /\ manual' = manual + 1
    /\ retryReq[j] = "none" /\ Visible(j)
    /\ status[j] \in {"failed", "blocked", "rate_limited"}
    /\ retryReq' = [retryReq EXCEPT ![j] = "checked"]
    /\ UNCHANGED <<rowVars, queue, workerVars, outVars, dropped, faults, stops>>

RetryReset(j) ==
    /\ retryReq[j] = "checked"
    /\ retryReq' = [retryReq EXCEPT ![j] = "reset"]
    /\ UpdateStatus(j, "pending")
    /\ UNCHANGED <<row, settledBy, queue, workerVars, outVars, dropped, bounds>>

RetryDispatch(j) ==
    /\ retryReq[j] = "reset"
    /\ retryReq' = [retryReq EXCEPT ![j] = "none"]
    /\ \/ /\ Push("high", Fresh(j))
          /\ UNCHANGED <<dropped, faults>>
       \/ /\ faults < MaxFaults
          /\ faults' = faults + 1
          /\ dropped' = dropped \cup {j}
          /\ UNCHANGED queue
    /\ UNCHANGED <<rowVars, workerVars, outVars, stops, manual>>

-----------------------------------------------------------------------------
(* The dispatcher's loop.                                                   *)

AcquirePermit(d) ==
    /\ worker = "running" /\ loop[d] = "free" /\ permits[d] > 0
    /\ permits' = [permits EXCEPT ![d] = @ - 1]
    /\ loop' = [loop EXCEPT ![d] = "holding"]
    /\ UNCHANGED <<rowVars, queue, worker, task, scan, retryReq, outVars, dropped, bounds>>

\* BRPOP over [high, normal, low]: the first list with an element is popped.
Pops(p) ==
    /\ queue[p] # <<>>
    /\ p = "normal" => queue["high"] = <<>>
    /\ p = "low" => queue["high"] = <<>> /\ queue["normal"] = <<>>
    /\ queue' = [queue EXCEPT ![p] = Tail(@)]

Dequeue(d) ==
    /\ worker = "running" /\ loop[d] = "holding"
    /\ \E p \in Priority :
         /\ Pops(p)
         /\ \E w \in Slot :
              /\ w[1] = d /\ task[w] = Idle
              /\ task' = [task EXCEPT ![w] =
                    [pc |-> "route", job |-> Head(queue[p]).job,
                     retry |-> Head(queue[p]).retry,
                     verdict |-> "empty", poisoned |-> FALSE]]
    /\ loop' = [loop EXCEPT ![d] = "free"]
    /\ UNCHANGED <<rowVars, worker, permits, scan, retryReq, outVars, dropped, bounds>>

\* dequeue_any returns None: the lists stayed empty, or the call failed
\* (maybe after Redis had already popped a message).
DequeueNone(d) ==
    /\ worker = "running" /\ loop[d] = "holding"
    /\ loop' = [loop EXCEPT ![d] = "free"]
    /\ permits' = [permits EXCEPT ![d] = @ + 1]
    /\ \/ /\ \A p \in Priority : queue[p] = <<>>
          /\ UNCHANGED <<queue, dropped, faults>>
       \/ /\ faults < MaxFaults
          /\ faults' = faults + 1
          /\ \E p \in Priority :
               Pops(p) /\ dropped' = dropped \cup {Head(queue[p]).job}
    /\ UNCHANGED <<rowVars, worker, task, scan, retryReq, outVars, stops, manual>>

-----------------------------------------------------------------------------
(* One crawl job, from _run_job.  Each action ends at an await after which  *)
(* another task, or another process, may run.                               *)

\* An UPDATE that meets an uncommitted row changes nothing and does not fail.
Settle(j, s, v) ==
    /\ UpdateStatus(j, s)
    /\ IF Visible(j)
       THEN /\ settledBy' = [settledBy EXCEPT ![j] = v]
            /\ UNCHANGED dropped
       ELSE /\ dropped' = dropped \cup {j}
            /\ UNCHANGED settledBy

StepFrame == UNCHANGED <<row, worker, loop, scan, retryReq, faults, stops, manual>>

Route(w) ==
    /\ task[w].pc = "route"
    /\ LET j == task[w].job IN
         IF j \in Unregistered
         THEN Settle(j, "failed", "error") /\ EndTask(w)
         ELSE /\ UpdateStatus(j, "running")
              /\ Goto(w, "crawl")
              /\ UNCHANGED <<settledBy, dropped, permits>>
    /\ UNCHANGED <<queue, outVars>> /\ StepFrame

\* crawler.run under wait_for: any verdict, within the crawler timeout.
Crawl(w) ==
    /\ task[w].pc = "crawl"
    /\ \E v \in Verdicts :
         /\ v = "rate" => task[w].retry < RetryCap
         /\ task' = [task EXCEPT ![w].verdict = v,
                                 ![w].pc = CASE v = "found" -> "ingest"
                                             [] v = "rate" -> "requeue"
                                             [] v = "timeout" -> "fail"
                                             [] v = "error" -> AfterError(task[w].retry)
                                             [] OTHER -> "finish"]
    /\ UNCHANGED <<status, settledBy, queue, permits, outVars, dropped>> /\ StepFrame

\* Mutant: a retried job does not push its result.
Ingest_FirstTry(w) ==
    /\ task[w].pc = "ingest"
    /\ delivered' = IF task[w].retry = 0 THEN delivered \cup {task[w].job} ELSE delivered
    /\ Goto(w, "finish")
    /\ UNCHANGED <<status, settledBy, queue, permits, announced, dropped>> /\ StepFrame

Ingest(w) ==
    /\ task[w].pc = "ingest"
    /\ delivered' = delivered \cup {task[w].job}
    /\ Goto(w, "finish")
    /\ UNCHANGED <<status, settledBy, queue, permits, announced, dropped>> /\ StepFrame

\* The rate-limit branch pushes the retry before it writes RATE_LIMITED, the
\* exception handler before it writes FAILED.
Requeue(w) ==
    /\ task[w].pc = "requeue"
    /\ Push(IF task[w].retry >= 1 THEN "low" ELSE "normal",
            [job |-> task[w].job, retry |-> task[w].retry + 1])
    /\ Goto(w, IF task[w].verdict = "rate" THEN "finish" ELSE "fail")
    /\ UNCHANGED <<status, settledBy, permits, outVars, dropped>> /\ StepFrame

Finish(w) ==
    /\ task[w].pc = "finish"
    /\ Settle(task[w].job, FinalStatus(task[w].verdict), task[w].verdict)
    /\ Goto(w, "log")
    /\ UNCHANGED <<queue, permits, outVars>> /\ StepFrame

\* _log_crawl: the foreign key refuses a row that is not committed; the
\* failed flush leaves the session unusable until a rollback nobody does.
Log(w) ==
    /\ task[w].pc = "log"
    /\ IF Visible(task[w].job)
       THEN Goto(w, IF task[w].verdict = "found" THEN "publish" ELSE "check")
       ELSE task' = [task EXCEPT ![w].verdict = "error", ![w].poisoned = TRUE,
                                 ![w].pc = AfterError(task[w].retry)]
    /\ UNCHANGED <<status, settledBy, queue, permits, outVars, dropped>> /\ StepFrame

\* The crawl_complete event for the growth daemon.
Publish(w) ==
    /\ task[w].pc = "publish"
    /\ Goto(w, "check")
    /\ UNCHANGED <<status, settledBy, queue, permits, outVars, dropped>> /\ StepFrame

\* The FAILED update of a handler; on a poisoned session it raises, and the
\* task ends there.
Fail(w) ==
    /\ task[w].pc = "fail"
    /\ IF task[w].poisoned
       THEN /\ dropped' = dropped \cup {task[w].job}
            /\ EndTask(w)
            /\ UNCHANGED <<status, settledBy>>
       ELSE /\ Settle(task[w].job, "failed", task[w].verdict)
            /\ Goto(w, "check")
            /\ UNCHANGED permits
    /\ UNCHANGED <<queue, outVars>> /\ StepFrame

CheckSearchComplete(w) ==
    /\ task[w].pc = "check"
    /\ LET p == Owner[task[w].job] IN
         announced' = IF Unfinished(p) = {} THEN announced \cup {p} ELSE announced
    /\ EndTask(w)
    /\ UNCHANGED <<status, settledBy, queue, delivered, dropped>> /\ StepFrame

RunStep(w) ==
    \/ Route(w) \/ Crawl(w) \/ Ingest(w) \/ Requeue(w) \/ Finish(w) \/ Log(w)
    \/ Publish(w) \/ Fail(w) \/ CheckSearchComplete(w)

\* A database or Redis call of the job raises inside the try block ...
InTry(w) == \/ task[w].pc \in {"ingest", "finish", "log", "publish"}
            \/ task[w].pc = "requeue" /\ task[w].verdict = "rate"

CallFailsInTry(w) ==
    /\ faults < MaxFaults /\ faults' = faults + 1
    /\ InTry(w)
    /\ task' = [task EXCEPT ![w].verdict = "error",
                            ![w].poisoned = task[w].pc \in {"finish", "log"},
                            ![w].pc = AfterError(task[w].retry)]
    /\ UNCHANGED <<rowVars, queue, worker, loop, permits, scan, retryReq, outVars,
                   dropped, stops, manual>>

\* ... or outside of it, where nothing catches it before the finally.
CallFailsOutside(w) ==
    /\ faults < MaxFaults /\ faults' = faults + 1
    /\ task[w].pc \in {"route", "requeue", "fail"} /\ ~InTry(w)
    /\ dropped' = dropped \cup {task[w].job}
    /\ EndTask(w)
    /\ UNCHANGED <<rowVars, queue, worker, loop, scan, retryReq, outVars, stops, manual>>

-----------------------------------------------------------------------------
(* PendingJobRecovery: read a batch, close the session, push one by one.    *)

\* Mutant: the age comparison the wrong way round.
StalePending_Young == {j \in Jobs : row[j] = "committed" /\ status[j] = "pending"}

StalePending == {j \in Jobs : row[j] = "stale" /\ status[j] = "pending"}

RecoverScan ==
    /\ worker = "running" /\ scan = {} /\ StalePending # {}
    /\ scan' \in {S \in SUBSET StalePending :
                   \/ Cardinality(S) = MaxRecoverPerScan
                   \/ S = StalePending /\ Cardinality(S) < MaxRecoverPerScan}
    /\ UNCHANGED <<rowVars, queue, worker, loop, permits, task, retryReq, outVars,
                   dropped, bounds>>

\* A row without a platform or an identifier would be skipped: the two places
\* that insert rows (search.py:662, persons.py:870) set both.
RecoverEnqueue(j) ==
    /\ worker = "running" /\ j \in scan
    /\ scan' = scan \ {j}
    /\ \/ /\ Len(queue["normal"]) < QueueCap
          /\ Push("normal", Fresh(j))
          /\ UNCHANGED faults
       \/ /\ faults < MaxFaults \* this job's push fails, the next one is tried
          /\ faults' = faults + 1
          /\ UNCHANGED queue
    /\ UNCHANGED <<rowVars, worker, loop, permits, task, retryReq, outVars, dropped,
                   stops, manual>>

-----------------------------------------------------------------------------
(* The worker process.                                                      *)

StopNow == /\ permits' = [d \in Dispatchers |-> Concurrency]
           /\ loop' = [d \in Dispatchers |-> "free"]
           /\ worker' = "down"

\* SIGTERM: every daemon task is cancelled; the dispatchers leave their loops
\* and wait for the crawls in flight.
Shutdown ==
    /\ worker = "running" /\ stops < MaxStops
    /\ stops' = stops + 1
    /\ worker' = "draining" /\ scan' = {}
    /\ UNCHANGED <<rowVars, queue, loop, permits, task, retryReq, outVars, dropped,
                   faults, manual>>

Exit ==
    /\ worker = "draining" /\ NoActiveTask
    /\ StopNow
    /\ UNCHANGED <<rowVars, queue, task, scan, retryReq, outVars, dropped, bounds>>

Crash ==
    /\ worker # "down" /\ stops < MaxStops
    /\ stops' = stops + 1
    /\ StopNow /\ scan' = {}
    /\ dropped' = dropped \cup {task[w].job : w \in {x \in Slot : task[x] # Idle}}
    /\ task' = [w \in Slot |-> Idle]
    /\ UNCHANGED <<rowVars, queue, retryReq, outVars, faults, manual>>

Restart ==
    /\ worker = "down"
    /\ worker' = "running"
    /\ UNCHANGED <<rowVars, queue, loop, permits, task, scan, retryReq, outVars,
                   dropped, bounds>>

-----------------------------------------------------------------------------
Next ==
    \/ \E j \in Jobs : \/ SubmitJob(j) \/ Age(j) \/ RecoverEnqueue(j)
                       \/ RetryCheck(j) \/ RetryReset(j) \/ RetryDispatch(j)
    \/ \E p \in Persons : CommitSearch(p) \/ AbortSearch(p)
    \/ \E d \in Dispatchers : AcquirePermit(d) \/ Dequeue(d) \/ DequeueNone(d)
    \/ \E w \in Slot : RunStep(w) \/ CallFailsInTry(w) \/ CallFailsOutside(w)
    \/ RecoverScan \/ Shutdown \/ Exit \/ Crash \/ Restart

Spec == Init /\ [][Next]_vars

\* The event loop runs every ready task, wait_for bounds every crawl, time
\* passes, the recovery daemon scans periodically, and the container's
\* restart policy brings the worker back.  Nothing is assumed of the API.
FairSpec ==
    /\ Spec
    /\ \A j \in Jobs : WF_vars(Age(j)) /\ WF_vars(RecoverEnqueue(j))
    /\ \A d \in Dispatchers : WF_vars(AcquirePermit(d)) /\ WF_vars(Dequeue(d))
    /\ \A w \in Slot : WF_vars(RunStep(w))
    /\ WF_vars(RecoverScan) /\ WF_vars(Exit) /\ WF_vars(Restart)

-----------------------------------------------------------------------------
(* Properties.                                                              *)

TypeOK ==
    /\ row \in [Jobs -> RowState]
    /\ status \in [Jobs -> Status]
    /\ queue \in [Priority -> Seq(Message)]
    /\ worker \in {"running", "draining", "down"}
    /\ loop \in [Dispatchers -> {"free", "holding"}]
    /\ permits \in [Dispatchers -> Nat]
    /\ task \in [Slot -> Task]
    /\ scan \in SUBSET Jobs
    /\ retryReq \in [Jobs -> {"none", "checked", "reset"}]
    /\ delivered \in SUBSET Jobs /\ announced \in SUBSET Persons
    /\ dropped \in SUBSET Jobs
    /\ settledBy \in [Jobs -> Verdict \cup {"none"}]
    /\ faults \in 0..MaxFaults /\ stops \in 0..MaxStops /\ manual \in 0..MaxManual

\* No path through the loop, a job, a failure or a restart leaks a semaphore
\* permit or releases one twice (dispatcher.py:51-89): the concurrency limit
\* never drifts, and a dispatcher with an empty in-flight set can always go on.
PermitsConserved ==
    \A d \in Dispatchers :
        permits[d] + Holding(d) + Cardinality(Active(d)) = Concurrency

InQueue(j)   == \E p \in Priority : \E i \in 1..Len(queue[p]) : queue[p][i].job = j
RunBy(j, w, pcs) == task[w].pc \in pcs /\ task[w].job = j
Carried(j)   == \/ InQueue(j)
                \/ \E w \in Slot : RunBy(j, w, Owing \cup {"route"})
                \/ retryReq[j] = "reset"

\* A committed row that says "pending" is on its way to a crawl, unless a
\* crash, a failed call or a final update that ran before the commit lost it:
\* those are all the ways a job needs PendingJobRecovery (pending_recovery.py:4-7).
PendingIsCarried ==
    \A j \in Jobs : Visible(j) /\ status[j] = "pending" => Carried(j) \/ j \in dropped

\* A row that says "running" has a live task that will still write its final
\* status, unless a crash or a failed call killed that task.  Nothing repairs
\* the rows of the exception: recovery and the retry endpoint both skip them.
RunningIsOwned ==
    \A j \in Jobs : Visible(j) /\ status[j] = "running"
                      => (\E w \in Slot : RunBy(j, w, Owing)) \/ j \in dropped

\* A row is marked done for a found result only after the result is on the
\* ingest queue (dispatcher.py:164-166), whatever crashes in between.
FoundIsDelivered ==
    \A j \in Jobs : settledBy[j] = "found" => j \in delivered

\* The tasks' side of it, which makes FoundIsDelivered inductive: a found result
\* is delivered before its task gets to the update, and a handler that writes
\* FAILED has forgotten that the crawl had found something.
VerdictInv ==
    \A w \in Slot :
        /\ task[w].pc = "finish" /\ task[w].verdict = "found" => task[w].job \in delivered
        /\ task[w].pc = "requeue" => task[w].verdict \in {"rate", "error"}
        /\ task[w].pc = "fail" => task[w].verdict \in {"timeout", "error"}

\* Only rate limiting goes past MAX_RETRIES: an exception never does, even
\* when the same run requeues twice (dispatcher.py:220-227 and 250-253).
RetryBudget ==
    \A p \in Priority : \A i \in 1..Len(queue[p]) :
        queue[p][i].retry <= MaxRetries \/ queue[p][i].retry <= RetryCap

\* Every committed row that is pending gets crawled in the end, whatever was
\* lost: this is what PendingJobRecovery is there for.
PendingIsServed ==
    \A j \in Jobs : (Visible(j) /\ status[j] = "pending") ~> status[j] # "pending"
=============================================================================
