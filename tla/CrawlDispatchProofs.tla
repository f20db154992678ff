------------------------ MODULE CrawlDispatchProofs ------------------------
(* Invariance proofs for CrawlDispatch, for every value of its constants.    *)
EXTENDS CrawlDispatch, FiniteSetTheorems, TLAPS

-----------------------------------------------------------------------------
(* Type correctness.                                                         *)

\* Moving a running task to another program point keeps it a running task.
LEMMA GotoType ==
    ASSUME task \in [Slot -> Task], NEW w \in Slot, task[w].pc # "idle",
           NEW pc \in PC \ {"idle"}, Goto(w, pc)
    PROVE  task' \in [Slot -> Task]
<1>1. task[w] \in Run
  BY DEF Task, Idle
<1>2. [task[w] EXCEPT !.pc = pc] \in Run
  BY <1>1 DEF Run
<1> QED BY <1>2 DEF Goto, Task

\* Popping a message and starting its task.
LEMMA PopsType ==
    ASSUME queue \in [Priority -> Seq(Message)], NEW p \in Priority, Pops(p)
    PROVE  /\ queue' \in [Priority -> Seq(Message)]
           /\ Head(queue[p]) \in Message
  BY DEF Pops

LEMMA PushType ==
    ASSUME queue \in [Priority -> Seq(Message)], NEW p \in Priority,
           NEW m \in Message, Push(p, m)
    PROVE  queue' \in [Priority -> Seq(Message)]
  BY DEF Push

LEMMA EndTaskType ==
    ASSUME task \in [Slot -> Task], permits \in [Dispatchers -> Nat],
           NEW w \in Slot, EndTask(w)
    PROVE  task' \in [Slot -> Task] /\ permits' \in [Dispatchers -> Nat]
  BY DEF EndTask, Slot, Task

LEMMA UpdateStatusType ==
    ASSUME status \in [Jobs -> Status], NEW j \in Jobs, NEW s \in Status,
           UpdateStatus(j, s)
    PROVE  status' \in [Jobs -> Status]
  BY DEF UpdateStatus

LEMMA SettleType ==
    ASSUME TypeOK, NEW j \in Jobs, NEW s \in Status, NEW v \in Verdict, Settle(j, s, v)
    PROVE  /\ status' \in [Jobs -> Status]
           /\ settledBy' \in [Jobs -> Verdict \cup {"none"}]
           /\ dropped' \in SUBSET Jobs
  BY UpdateStatusType DEF TypeOK, Settle

\* A task that is not idle carries a job, a retry count and a verdict.
LEMMA RunFields ==
    ASSUME task \in [Slot -> Task], NEW w \in Slot, task[w].pc # "idle"
    PROVE  /\ task[w] \in Run
           /\ task[w].job \in Jobs /\ task[w].retry \in Nat
           /\ task[w].verdict \in Verdict
  BY DEF Task, Run, Idle

LEMMA AfterErrorPC ==
    ASSUME NEW n \in Nat
    PROVE  AfterError(n) \in {"requeue", "fail"}
  BY DEF AfterError

\* The jump into the except Exception handler.
LEMMA AbandonType ==
    ASSUME task \in [Slot -> Task], NEW w \in Slot, task[w].pc # "idle",
           NEW b \in BOOLEAN,
           task' = [task EXCEPT ![w].verdict = "error", ![w].poisoned = b,
                                ![w].pc = AfterError(task[w].retry)]
    PROVE  task' \in [Slot -> Task]
<1>1. task[w] \in Run /\ AfterError(task[w].retry) \in PC \ {"idle"}
  BY RunFields, AfterErrorPC DEF PC
<1>2. [task[w] EXCEPT !.verdict = "error", !.poisoned = b,
                      !.pc = AfterError(task[w].retry)] \in Run
  BY <1>1 DEF Run, Verdict
<1>3. task' = [task EXCEPT ![w] = [task[w] EXCEPT !.verdict = "error", !.poisoned = b,
                                                  !.pc = AfterError(task[w].retry)]]
  BY <1>1 DEF Run
<1> QED BY <1>2, <1>3 DEF Task

\* The steps of one crawl job.
LEMMA RunStepType ==
    ASSUME ConstantsAssumption, TypeOK, NEW w \in Slot, RunStep(w)
    PROVE  TypeOK'
<1> USE DEF PC
<1>1. CASE Route(w)
  <2>1. task[w].job \in Jobs /\ task[w].pc # "idle"
    BY <1>1, RunFields DEF Route, TypeOK
  <2>2. CASE task[w].job \in Unregistered
    BY <1>1, <2>1, <2>2, SettleType, EndTaskType
    DEF Route, TypeOK, StepFrame, outVars, Status, Verdict
  <2>3. CASE task[w].job \notin Unregistered
    BY <1>1, <2>1, <2>3, UpdateStatusType, GotoType
    DEF Route, TypeOK, StepFrame, outVars, Status
  <2> QED BY <2>2, <2>3
<1>2. CASE Crawl(w)
  <2>1. task[w] \in Run /\ task[w].retry \in Nat
    BY <1>2, RunFields DEF Crawl, TypeOK
  <2>2. PICK v \in Verdicts :
          task' = [task EXCEPT ![w].verdict = v,
                               ![w].pc = CASE v = "found" -> "ingest"
                                           [] v = "rate" -> "requeue"
                                           [] v = "timeout" -> "fail"
                                           [] v = "error" -> AfterError(task[w].retry)
                                           [] OTHER -> "finish"]
    BY <1>2 DEF Crawl
  <2>3. v \in Verdict
    BY DEF ConstantsAssumption
  <2>4. task' \in [Slot -> Task]
    BY <2>1, <2>2, <2>3, AfterErrorPC, ZenonT(40) DEF TypeOK, Task, Run
  <2> QED BY <1>2, <2>4 DEF Crawl, TypeOK, StepFrame, outVars
<1>3. CASE Ingest(w)
  BY <1>3, GotoType, RunFields DEF Ingest, TypeOK, StepFrame
<1>4. CASE Requeue(w)
  <2>1. task[w].job \in Jobs /\ task[w].retry \in Nat
    BY <1>4, RunFields DEF Requeue, TypeOK
  <2>2. [job |-> task[w].job, retry |-> task[w].retry + 1] \in Message
    BY <2>1 DEF Message
  <2>3. queue' \in [Priority -> Seq(Message)]
    <3>1. (IF task[w].retry >= 1 THEN "low" ELSE "normal") \in Priority
      BY DEF Priority
    <3> QED BY <1>4, <2>2, <3>1, PushType DEF Requeue, TypeOK
  <2> QED BY <1>4, <2>3, GotoType DEF Requeue, TypeOK, StepFrame, outVars
<1>5. CASE Finish(w)
  <2>1. task[w].job \in Jobs /\ task[w].verdict \in Verdict
    BY <1>5, RunFields DEF Finish, TypeOK
  <2>2. FinalStatus(task[w].verdict) \in Status
    BY DEF FinalStatus, Status
  <2> QED BY <1>5, <2>1, <2>2, SettleType, GotoType
          DEF Finish, TypeOK, StepFrame, outVars
<1>6. CASE Log(w)
  <2>1. task[w] \in Run /\ task[w].retry \in Nat
    BY <1>6, RunFields DEF Log, TypeOK
  <2>2. task' \in [Slot -> Task]
    <3>1. CASE Visible(task[w].job)
      BY <1>6, <3>1, GotoType DEF Log, TypeOK
    <3>2. CASE ~Visible(task[w].job)
      BY <1>6, <3>2, AbandonType DEF Log, TypeOK
    <3> QED BY <3>1, <3>2
  <2> QED BY <1>6, <2>2 DEF Log, TypeOK, StepFrame, outVars
<1>7. CASE Publish(w)
  BY <1>7, GotoType DEF Publish, TypeOK, StepFrame, outVars
<1>8. CASE Fail(w)
  <2>1. task[w].job \in Jobs /\ task[w].verdict \in Verdict
    BY <1>8, RunFields DEF Fail, TypeOK
  <2>2. CASE task[w].poisoned
    BY <1>8, <2>1, <2>2, EndTaskType DEF Fail, TypeOK, StepFrame, outVars
  <2>3. CASE ~task[w].poisoned
    BY <1>8, <2>1, <2>3, SettleType, GotoType
    DEF Fail, TypeOK, StepFrame, outVars, Status
  <2> QED BY <2>2, <2>3
<1>9. CASE CheckSearchComplete(w)
  <2>1. Owner[task[w].job] \in Persons
    BY <1>9, RunFields DEF CheckSearchComplete, TypeOK, ConstantsAssumption
  <2> QED BY <1>9, <2>1, EndTaskType DEF CheckSearchComplete, TypeOK, StepFrame
<1> QED BY <1>1, <1>2, <1>3, <1>4, <1>5, <1>6, <1>7, <1>8, <1>9 DEF RunStep

LEMMA TypeInit == ConstantsAssumption => (Init => TypeOK)
  BY DEF ConstantsAssumption, Init, TypeOK, RowState, Status, Priority, Task

LEMMA TypeStep ==
    ASSUME ConstantsAssumption, TypeOK, [Next]_vars
    PROVE  TypeOK'
<1> USE DEF TypeOK
<1>1. CASE \E j \in Jobs : SubmitJob(j) \/ RetryDispatch(j) \/ RecoverEnqueue(j)
  <2>1. PICK j \in Jobs : SubmitJob(j) \/ RetryDispatch(j) \/ RecoverEnqueue(j)
    BY <1>1
  <2>2. Fresh(j) \in Message
    BY DEF Fresh, Message
  <2>3. \A p \in Priority : Push(p, Fresh(j)) => queue' \in [Priority -> Seq(Message)]
    BY <2>2, PushType
  <2>4. CASE SubmitJob(j)
    BY <2>3, <2>4 DEF SubmitJob, ConstantsAssumption, RowState, workerVars, outVars
  <2>5. CASE RetryDispatch(j)
    BY <2>3, <2>5
    DEF RetryDispatch, ConstantsAssumption, Priority, rowVars, workerVars, outVars
  <2>6. CASE RecoverEnqueue(j)
    BY <2>3, <2>6
    DEF RecoverEnqueue, ConstantsAssumption, Priority, rowVars, outVars
  <2> QED BY <2>1, <2>4, <2>5, <2>6
<1>2. CASE \E j \in Jobs : Age(j) \/ RetryCheck(j) \/ RetryReset(j)
  <2>1. PICK j \in Jobs : Age(j) \/ RetryCheck(j) \/ RetryReset(j)
    BY <1>2
  <2>2. CASE Age(j)
    BY <2>2 DEF Age, RowState, workerVars, outVars, bounds
  <2>3. CASE RetryCheck(j)
    BY <2>3 DEF RetryCheck, ConstantsAssumption, rowVars, workerVars, outVars
  <2>4. CASE RetryReset(j)
    BY <2>4, UpdateStatusType DEF RetryReset, Status, workerVars, outVars, bounds
  <2> QED BY <2>1, <2>2, <2>3, <2>4
<1>3. CASE \E p \in Persons : CommitSearch(p) \/ AbortSearch(p)
  BY <1>3
  DEF CommitSearch, AbortSearch, ConstantsAssumption, RowState, workerVars, outVars, bounds
<1>4. CASE \E d \in Dispatchers : AcquirePermit(d) \/ Dequeue(d) \/ DequeueNone(d)
  <2>1. PICK d \in Dispatchers : AcquirePermit(d) \/ Dequeue(d) \/ DequeueNone(d)
    BY <1>4
  <2>2. CASE AcquirePermit(d)
    BY <2>2 DEF AcquirePermit, rowVars, outVars, bounds
  <2>3. CASE Dequeue(d)
    <3>1. PICK p \in Priority, w \in Slot :
            /\ Pops(p) /\ w[1] = d /\ task[w] = Idle
            /\ task' = [task EXCEPT ![w] =
                  [pc |-> "route", job |-> Head(queue[p]).job,
                   retry |-> Head(queue[p]).retry,
                   verdict |-> "empty", poisoned |-> FALSE]]
      BY <2>3 DEF Dequeue
    <3>2. queue' \in [Priority -> Seq(Message)] /\ Head(queue[p]) \in Message
      BY <3>1, PopsType
    <3>3. task' \in [Slot -> Task]
      BY <3>1, <3>2 DEF Task, Run, PC, Verdict, Message
    <3> QED BY <2>3, <3>2, <3>3 DEF Dequeue, rowVars, outVars, bounds
  <2>4. CASE DequeueNone(d)
    <3>1. /\ queue' \in [Priority -> Seq(Message)]
          /\ dropped' \in SUBSET Jobs
      BY <2>4, PopsType DEF DequeueNone, Message
    <3> QED BY <2>4, <3>1 DEF DequeueNone, ConstantsAssumption, rowVars, outVars
  <2> QED BY <2>1, <2>2, <2>3, <2>4
<1>5. CASE \E w \in Slot : RunStep(w)
  BY <1>5, RunStepType
<1>6. CASE \E w \in Slot : CallFailsInTry(w)
  <2>1. PICK w \in Slot : CallFailsInTry(w)
    BY <1>6
  <2>2. task' \in [Slot -> Task]
    <3>1. task[w].pc # "idle"
      BY <2>1 DEF CallFailsInTry, InTry
    <3>2. (task[w].pc \in {"finish", "log"}) \in BOOLEAN
      OBVIOUS
    <3> QED BY <2>1, <3>1, <3>2, AbandonType DEF CallFailsInTry
  <2> QED BY <2>1, <2>2, SMTT(30) DEF CallFailsInTry, ConstantsAssumption, rowVars, outVars
<1>7. CASE \E w \in Slot : CallFailsOutside(w)
  BY <1>7, RunFields, EndTaskType
  DEF CallFailsOutside, ConstantsAssumption, rowVars, outVars
<1>8. CASE RecoverScan
  BY <1>8 DEF RecoverScan, StalePending, rowVars, outVars, bounds
<1>9. CASE Shutdown \/ Exit \/ Restart
  BY <1>9
  DEF Shutdown, Exit, Restart, StopNow, ConstantsAssumption, rowVars, outVars, bounds
<1>10. CASE Crash
  <2>1. {task[w].job : w \in {x \in Slot : task[x] # Idle}} \subseteq Jobs
    BY DEF Task, Run
  <2> QED BY <1>10, <2>1
          DEF Crash, StopNow, ConstantsAssumption, Task, rowVars, outVars
<1>11. CASE UNCHANGED vars
  BY <1>11 DEF vars
<1> QED BY <1>1, <1>2, <1>3, <1>4, <1>5, <1>6, <1>7, <1>8, <1>9, <1>10, <1>11 DEF Next

\* Every reachable state of the crawl-job life cycle is well typed: no step
\* writes a status, a retry count or a task that the others cannot read.
THEOREM TypeCorrect == Spec => []TypeOK
<1>1. Init => TypeOK
  BY TypeInit, ConstantsAssumption
<1>2. TypeOK /\ [Next]_vars => TypeOK'
  BY TypeStep, ConstantsAssumption
<1> QED BY <1>1, <1>2, PTL DEF Spec

-----------------------------------------------------------------------------
(* The semaphore.                                                            *)

LEMMA ActiveFinite ==
    ASSUME ConstantsAssumption, NEW d \in Dispatchers
    PROVE  IsFiniteSet(Active(d)) /\ Cardinality(Active(d)) \in Nat
<1> DEFINE f == [i \in 1..Concurrency |-> <<d, i>>]
           R == {f[i] : i \in 1..Concurrency}
<1>1. IsFiniteSet(1..Concurrency)
  BY FS_Interval DEF ConstantsAssumption
<1>2. f \in Surjection(1..Concurrency, R)
  BY DEF Surjection
<1>3. IsFiniteSet(R)
  BY <1>1, <1>2, FS_Surjection
<1>4. Active(d) \subseteq R
  BY DEF Active, Slot
<1>5. IsFiniteSet(Active(d))
  BY <1>3, <1>4, FS_Subset
<1> QED BY <1>5, FS_CardinalityType

\* A step that starts and ends no task leaves the in-flight sets alone.
LEMMA ActiveSame ==
    ASSUME \A w \in Slot : (task'[w].pc = "idle") <=> (task[w].pc = "idle")
    PROVE  \A d \in Dispatchers : Active(d)' = Active(d)
  BY DEF Active

LEMMA GotoActive ==
    ASSUME task \in [Slot -> Task], NEW w \in Slot, task[w].pc # "idle",
           NEW pc \in PC \ {"idle"}, Goto(w, pc)
    PROVE  \A x \in Slot : (task'[x].pc = "idle") <=> (task[x].pc = "idle")
<1>1. task[w] \in Run
  BY RunFields
<1> QED BY <1>1 DEF Goto, Run, PC

LEMMA AbandonActive ==
    ASSUME task \in [Slot -> Task], NEW w \in Slot, task[w].pc # "idle",
           NEW b \in BOOLEAN,
           task' = [task EXCEPT ![w].verdict = "error", ![w].poisoned = b,
                                ![w].pc = AfterError(task[w].retry)]
    PROVE  \A x \in Slot : (task'[x].pc = "idle") <=> (task[x].pc = "idle")
<1>1. task[w] \in Run /\ AfterError(task[w].retry) # "idle"
  BY RunFields, AfterErrorPC
<1> QED BY <1>1 DEF Run

\* Ending a task gives back the one permit it held.
LEMMA EndTaskPermits ==
    ASSUME ConstantsAssumption, TypeOK, PermitsConserved, NEW w \in Slot,
           task[w].pc # "idle", EndTask(w), UNCHANGED loop
    PROVE  PermitsConserved'
<1> SUFFICES ASSUME NEW d \in Dispatchers
             PROVE  permits'[d] + Holding(d)' + Cardinality(Active(d)') = Concurrency
  BY DEF PermitsConserved
<1>1. IsFiniteSet(Active(d)) /\ Cardinality(Active(d)) \in Nat
  BY ActiveFinite
<1>2. Holding(d)' = Holding(d) /\ Holding(d) \in Nat /\ permits[d] \in Nat
  BY DEF Holding, TypeOK
<1>3. permits[d] + Holding(d) + Cardinality(Active(d)) = Concurrency
  BY DEF PermitsConserved
<1>4. CASE w[1] = d
  <2>1. Active(d)' = Active(d) \ {w} /\ w \in Active(d)
    BY <1>4 DEF Active, EndTask, TypeOK, Idle
  <2>2. Cardinality(Active(d)') = Cardinality(Active(d)) - 1
    BY <1>1, <2>1, FS_RemoveElement, ZenonT(40)
  <2>3. permits'[d] = permits[d] + 1
    BY <1>4 DEF EndTask, TypeOK
  <2> QED BY <1>1, <1>2, <1>3, <2>2, <2>3
<1>5. CASE w[1] # d
  <2>1. Active(d)' = Active(d)
    BY <1>5 DEF Active, EndTask, TypeOK
  <2>2. permits'[d] = permits[d]
    BY <1>5 DEF EndTask, TypeOK
  <2> QED BY <1>2, <1>3, <2>1, <2>2
<1> QED BY <1>4, <1>5

LEMMA SamePermits ==
    ASSUME PermitsConserved, UNCHANGED <<loop, permits>>,
           \A w \in Slot : (task'[w].pc = "idle") <=> (task[w].pc = "idle")
    PROVE  PermitsConserved'
  BY ActiveSame DEF PermitsConserved, Holding

\* All of a fresh process's permits are free.
LEMMA FreshPermits ==
    ASSUME ConstantsAssumption, StopNow, \A w \in Slot : task'[w].pc = "idle"
    PROVE  PermitsConserved'
<1>1. \A d \in Dispatchers : Active(d)' = {} /\ Holding(d)' = 0 /\ permits'[d] = Concurrency
  BY DEF Active, Holding, StopNow
<1> QED BY <1>1, FS_EmptySet DEF PermitsConserved, ConstantsAssumption

LEMMA PermitsRunStep ==
    ASSUME ConstantsAssumption, TypeOK, PermitsConserved, NEW w \in Slot, RunStep(w)
    PROVE  PermitsConserved'
<1> USE DEF StepFrame
<1>1. task[w].pc # "idle" /\ UNCHANGED loop /\ task \in [Slot -> Task]
  BY DEF RunStep, Route, Crawl, Ingest, Requeue, Finish, Log, Publish, Fail,
         CheckSearchComplete, TypeOK
<1>2. EndTask(w) => PermitsConserved'
  BY <1>1, EndTaskPermits
<1>3. ASSUME NEW pc \in PC \ {"idle"}, Goto(w, pc), UNCHANGED permits
      PROVE  PermitsConserved'
  BY <1>1, <1>3, GotoActive, SamePermits
<1>4. CASE Route(w)
  BY <1>2, <1>3, <1>4 DEF Route, PC
<1>5. CASE Crawl(w)
  <2>1. task[w] \in Run /\ AfterError(task[w].retry) # "idle"
    BY <1>1, RunFields, AfterErrorPC
  <2>2. \A x \in Slot : (task'[x].pc = "idle") <=> (task[x].pc = "idle")
    BY <1>1, <1>5, <2>1 DEF Crawl, Run
  <2> QED BY <1>1, <1>5, <2>2, SamePermits DEF Crawl
<1>6. CASE Ingest(w) \/ Requeue(w) \/ Finish(w) \/ Publish(w)
  BY <1>3, <1>6 DEF Ingest, Requeue, Finish, Publish, PC
<1>7. CASE Log(w)
  <2>1. CASE Visible(task[w].job)
    BY <1>3, <1>7, <2>1 DEF Log, PC
  <2>2. CASE ~Visible(task[w].job)
    BY <1>1, <1>7, <2>2, AbandonActive, SamePermits DEF Log
  <2> QED BY <2>1, <2>2
<1>8. CASE Fail(w)
  BY <1>2, <1>3, <1>8 DEF Fail, PC
<1>9. CASE CheckSearchComplete(w)
  BY <1>2, <1>9 DEF CheckSearchComplete
<1> QED BY <1>4, <1>5, <1>6, <1>7, <1>8, <1>9 DEF RunStep

\* Starting a task passes the permit the loop holds on to it.
LEMMA PermitsDequeue ==
    ASSUME ConstantsAssumption, TypeOK, PermitsConserved, NEW d \in Dispatchers, Dequeue(d)
    PROVE  PermitsConserved'
<1> SUFFICES ASSUME NEW e \in Dispatchers
             PROVE  permits'[e] + Holding(e)' + Cardinality(Active(e)') = Concurrency
  BY DEF PermitsConserved
<1>1. PICK p \in Priority, w \in Slot :
        /\ w[1] = d /\ task[w] = Idle
        /\ task' = [task EXCEPT ![w] =
              [pc |-> "route", job |-> Head(queue[p]).job,
               retry |-> Head(queue[p]).retry,
               verdict |-> "empty", poisoned |-> FALSE]]
  BY DEF Dequeue
<1>2. loop[d] = "holding" /\ loop' = [loop EXCEPT ![d] = "free"] /\ permits' = permits
  BY DEF Dequeue
<1>3. /\ permits[e] + Holding(e) + Cardinality(Active(e)) = Concurrency
      /\ permits[e] \in Nat
  BY DEF PermitsConserved, TypeOK
<1>4. IsFiniteSet(Active(e)) /\ Cardinality(Active(e)) \in Nat
  BY ActiveFinite
<1>5. CASE e = d
  <2>1. Active(e)' = Active(e) \cup {w} /\ w \notin Active(e)
    BY <1>1, <1>5 DEF Active, Idle, TypeOK
  <2>2. Cardinality(Active(e)') = Cardinality(Active(e)) + 1
    BY <1>4, <2>1, FS_AddElement
  <2>3. Holding(e) = 1 /\ Holding(e)' = 0
    BY <1>2, <1>5 DEF Holding, TypeOK
  <2> QED BY <1>2, <1>3, <1>4, <2>2, <2>3
<1>6. CASE e # d
  <2>1. Active(e)' = Active(e)
    BY <1>1, <1>6 DEF Active, TypeOK
  <2>2. Holding(e)' = Holding(e)
    BY <1>2, <1>6 DEF Holding, TypeOK
  <2> QED BY <1>2, <1>3, <2>1, <2>2
<1> QED BY <1>5, <1>6

\* The loop takes a permit before it pops, and puts it back if nothing came.
LEMMA PermitsLoop ==
    ASSUME ConstantsAssumption, TypeOK, PermitsConserved, NEW d \in Dispatchers,
           AcquirePermit(d) \/ DequeueNone(d)
    PROVE  PermitsConserved'
<1> SUFFICES ASSUME NEW e \in Dispatchers
             PROVE  permits'[e] + Holding(e)' + Cardinality(Active(e)') = Concurrency
  BY DEF PermitsConserved
<1>1. Active(e)' = Active(e) /\ Cardinality(Active(e)) \in Nat
  BY ActiveFinite DEF Active, AcquirePermit, DequeueNone
<1>2. permits[e] + Holding(e) + Cardinality(Active(e)) = Concurrency /\ permits[e] \in Nat
  BY DEF PermitsConserved, TypeOK
<1>3. CASE AcquirePermit(d)
  <2>1. \/ e = d /\ permits'[e] = permits[e] - 1 /\ Holding(e) = 0 /\ Holding(e)' = 1
        \/ e # d /\ permits'[e] = permits[e] /\ Holding(e)' = Holding(e)
    BY <1>3 DEF AcquirePermit, Holding, TypeOK
  <2> QED BY <1>1, <1>2, <2>1 DEF Holding
<1>4. CASE DequeueNone(d)
  <2>1. \/ e = d /\ permits'[e] = permits[e] + 1 /\ Holding(e) = 1 /\ Holding(e)' = 0
        \/ e # d /\ permits'[e] = permits[e] /\ Holding(e)' = Holding(e)
    BY <1>4 DEF DequeueNone, Holding, TypeOK
  <2> QED BY <1>1, <1>2, <2>1 DEF Holding
<1> QED BY <1>3, <1>4

LEMMA PermitsStep ==
    ASSUME ConstantsAssumption, TypeOK, PermitsConserved, [Next]_vars
    PROVE  PermitsConserved'
<1>1. CASE \E d \in Dispatchers : AcquirePermit(d) \/ Dequeue(d) \/ DequeueNone(d)
  BY <1>1, PermitsDequeue, PermitsLoop
<1>2. CASE \E w \in Slot : RunStep(w)
  BY <1>2, PermitsRunStep
<1>3. CASE \E w \in Slot : CallFailsInTry(w)
  <2>1. PICK w \in Slot : CallFailsInTry(w)
    BY <1>3
  <2>2. task[w].pc # "idle" /\ (task[w].pc \in {"finish", "log"}) \in BOOLEAN
    BY <2>1 DEF CallFailsInTry, InTry
  <2> QED BY <2>1, <2>2, AbandonActive, SamePermits DEF CallFailsInTry, TypeOK
<1>4. CASE \E w \in Slot : CallFailsOutside(w)
  BY <1>4, EndTaskPermits DEF CallFailsOutside
<1>5. CASE Exit
  BY <1>5, FreshPermits DEF Exit, NoActiveTask
<1>6. CASE Crash
  <2>1. \A w \in Slot : task'[w].pc = "idle"
    BY <1>6 DEF Crash, Idle
  <2> QED BY <1>6, <2>1, FreshPermits DEF Crash
<1>7. CASE UNCHANGED <<task, loop, permits>>
  BY <1>7, SamePermits
<1>8. CASE \/ \E j \in Jobs : \/ SubmitJob(j) \/ Age(j) \/ RecoverEnqueue(j)
                             \/ RetryCheck(j) \/ RetryReset(j) \/ RetryDispatch(j)
           \/ \E p \in Persons : CommitSearch(p) \/ AbortSearch(p)
           \/ RecoverScan \/ Shutdown \/ Restart \/ UNCHANGED vars
  BY <1>7, <1>8
  DEF SubmitJob, Age, RecoverEnqueue, RetryCheck, RetryReset, RetryDispatch, CommitSearch,
      AbortSearch, RecoverScan, Shutdown, Restart, workerVars, vars
<1> QED BY <1>1, <1>2, <1>3, <1>4, <1>5, <1>6, <1>8 DEF Next

\* The semaphore of a dispatcher is conserved: whatever the number of
\* dispatchers, slots, failures and restarts, free permits, the loop's own
\* permit and the tasks in flight always add up to CONCURRENCY_PER_WORKER.
THEOREM PermitsCorrect == Spec => []PermitsConserved
<1>1. ConstantsAssumption /\ Init => PermitsConserved
  <2> SUFFICES ASSUME ConstantsAssumption, Init, NEW d \in Dispatchers
               PROVE  permits[d] + Holding(d) + Cardinality(Active(d)) = Concurrency
    BY DEF PermitsConserved
  <2>1. Active(d) = {} /\ Holding(d) = 0 /\ permits[d] = Concurrency
    BY DEF Init, Active, Holding, Idle
  <2> QED BY <2>1, FS_EmptySet DEF ConstantsAssumption
<1>2. TypeOK /\ PermitsConserved /\ [Next]_vars => PermitsConserved'
  BY PermitsStep, ConstantsAssumption
<1> QED BY <1>1, <1>2, TypeCorrect, ConstantsAssumption, PTL DEF Spec

-----------------------------------------------------------------------------
(* What becomes of a found result.                                           *)

\* Sending a running task elsewhere changes its program point and nothing else.
LEMMA GotoEffect ==
    ASSUME task \in [Slot -> Task], NEW w \in Slot, task[w].pc # "idle",
           NEW pc, Goto(w, pc)
    PROVE  /\ task'[w].pc = pc /\ task'[w].job = task[w].job
           /\ task'[w].verdict = task[w].verdict
           /\ \A x \in Slot : x # w => task'[x] = task[x]
<1>1. task[w] \in Run
  BY RunFields
<1> QED BY <1>1 DEF Goto, Run

LEMMA EndTaskEffect ==
    ASSUME task \in [Slot -> Task], NEW w \in Slot, EndTask(w)
    PROVE  /\ task'[w] = Idle
           /\ \A x \in Slot : x # w => task'[x] = task[x]
  BY DEF EndTask

LEMMA AbandonEffect ==
    ASSUME task \in [Slot -> Task], NEW w \in Slot, task[w].pc # "idle", NEW b \in BOOLEAN,
           task' = [task EXCEPT ![w].verdict = "error", ![w].poisoned = b,
                                ![w].pc = AfterError(task[w].retry)]
    PROVE  /\ task'[w].pc \in {"requeue", "fail"} /\ task'[w].job = task[w].job
           /\ task'[w].verdict = "error"
           /\ \A x \in Slot : x # w => task'[x] = task[x]
<1>1. task[w] \in Run /\ AfterError(task[w].retry) \in {"requeue", "fail"}
  BY RunFields, AfterErrorPC
<1> QED BY <1>1 DEF Run

LEMMA CrawlEffect ==
    ASSUME task \in [Slot -> Task], NEW w \in Slot, Crawl(w)
    PROVE  /\ task'[w].job = task[w].job
           /\ task'[w].pc \in {"ingest", "requeue", "fail", "finish"}
           /\ task'[w].pc = "finish" => task'[w].verdict # "found"
           /\ task'[w].pc = "requeue" => task'[w].verdict \in {"rate", "error"}
           /\ task'[w].pc = "fail" => task'[w].verdict \in {"timeout", "error"}
           /\ \A x \in Slot : x # w => task'[x] = task[x]
<1>1. task[w] \in Run /\ AfterError(task[w].retry) \in {"requeue", "fail"}
  BY RunFields, AfterErrorPC DEF Crawl
<1> QED BY <1>1 DEF Crawl, Run

\* What every step of a job leaves alone.
LEMMA RunStepFrame ==
    ASSUME NEW w \in Slot, RunStep(w)
    PROVE  StepFrame /\ task[w].pc # "idle"
  BY DEF RunStep, Route, Crawl, Ingest, Requeue, Finish, Log, Publish, Fail,
         CheckSearchComplete

DeliveryInv == FoundIsDelivered /\ VerdictInv

\* Only the task that moves, and what it settles, has to be looked at.
LEMMA DeliveryFrame ==
    ASSUME DeliveryInv, NEW w \in Slot, delivered \subseteq delivered',
           \A x \in Slot : x # w => task'[x] = task[x],
           task'[w].pc = "finish" /\ task'[w].verdict = "found" => task'[w].job \in delivered',
           task'[w].pc = "requeue" => task'[w].verdict \in {"rate", "error"},
           task'[w].pc = "fail" => task'[w].verdict \in {"timeout", "error"},
           FoundIsDelivered'
    PROVE  DeliveryInv'
  BY DEF DeliveryInv, VerdictInv

LEMMA DeliveryRunStep ==
    ASSUME TypeOK, DeliveryInv, NEW w \in Slot, RunStep(w)
    PROVE  DeliveryInv'
<1>1. /\ task[w].pc # "idle" /\ task \in [Slot -> Task] /\ task[w].job \in Jobs
      /\ settledBy \in [Jobs -> Verdict \cup {"none"}]
  BY RunStepFrame, RunFields DEF TypeOK
<1>2. ASSUME UNCHANGED settledBy, delivered \subseteq delivered'
      PROVE  FoundIsDelivered'
  BY <1>2 DEF DeliveryInv, FoundIsDelivered
<1>3. ASSUME NEW s, NEW v, v # "found" \/ task[w].job \in delivered,
             Settle(task[w].job, s, v), UNCHANGED delivered
      PROVE  FoundIsDelivered'
  BY <1>1, <1>3 DEF DeliveryInv, FoundIsDelivered, Settle
<1>4. CASE Route(w)
  <2>1. FoundIsDelivered' /\ UNCHANGED delivered
    BY <1>2, <1>3, <1>4 DEF Route, outVars
  <2>2. task'[w].pc \in {"idle", "crawl"} /\ \A x \in Slot : x # w => task'[x] = task[x]
    BY <1>1, <1>4, GotoEffect, EndTaskEffect DEF Route, Idle
  <2> QED BY <2>1, <2>2, DeliveryFrame
<1>5. CASE Crawl(w)
  <2>1. FoundIsDelivered' /\ UNCHANGED delivered
    BY <1>2, <1>5 DEF Crawl, outVars
  <2> QED BY <1>1, <1>5, <2>1, CrawlEffect, DeliveryFrame
<1>6. CASE Ingest(w)
  <2>1. FoundIsDelivered' /\ delivered' = delivered \cup {task[w].job}
    BY <1>2, <1>6 DEF Ingest
  <2> QED BY <1>1, <1>6, <2>1, GotoEffect, DeliveryFrame DEF Ingest
<1>7. CASE Requeue(w)
  <2>1. FoundIsDelivered' /\ UNCHANGED delivered
    BY <1>2, <1>7 DEF Requeue, outVars
  <2>2. task[w].verdict \in {"rate", "error"}
    BY <1>7 DEF Requeue, DeliveryInv, VerdictInv
  <2> QED BY <1>1, <1>7, <2>1, <2>2, GotoEffect, DeliveryFrame DEF Requeue
<1>8. CASE Finish(w)
  <2>1. FoundIsDelivered' /\ UNCHANGED delivered
    BY <1>3, <1>8 DEF Finish, DeliveryInv, VerdictInv, outVars
  <2> QED BY <1>1, <1>8, <2>1, GotoEffect, DeliveryFrame DEF Finish
<1>9. CASE Log(w)
  <2>1. FoundIsDelivered' /\ UNCHANGED delivered
    BY <1>2, <1>9 DEF Log, outVars
  <2>2. CASE Visible(task[w].job)
    BY <1>1, <1>9, <2>1, <2>2, GotoEffect, DeliveryFrame DEF Log
  <2>3. CASE ~Visible(task[w].job)
    BY <1>1, <1>9, <2>1, <2>3, AbandonEffect, DeliveryFrame DEF Log
  <2> QED BY <2>2, <2>3
<1>10. CASE Publish(w)
  <2>1. FoundIsDelivered' /\ UNCHANGED delivered
    BY <1>2, <1>10 DEF Publish, outVars
  <2> QED BY <1>1, <1>10, <2>1, GotoEffect, DeliveryFrame DEF Publish
<1>11. CASE Fail(w)
  <2>1. FoundIsDelivered' /\ UNCHANGED delivered
    BY <1>2, <1>3, <1>11 DEF Fail, DeliveryInv, VerdictInv, outVars
  <2>2. task'[w].pc \in {"idle", "check"} /\ \A x \in Slot : x # w => task'[x] = task[x]
    BY <1>1, <1>11, GotoEffect, EndTaskEffect DEF Fail, Idle
  <2> QED BY <2>1, <2>2, DeliveryFrame
<1>12. CASE CheckSearchComplete(w)
  <2>1. FoundIsDelivered' /\ UNCHANGED delivered
    BY <1>2, <1>12 DEF CheckSearchComplete
  <2>2. task'[w].pc = "idle" /\ \A x \in Slot : x # w => task'[x] = task[x]
    BY <1>1, <1>12, EndTaskEffect DEF CheckSearchComplete, Idle
  <2> QED BY <2>1, <2>2, DeliveryFrame
<1> QED BY <1>4, <1>5, <1>6, <1>7, <1>8, <1>9, <1>10, <1>11, <1>12 DEF RunStep

LEMMA DeliveryStep ==
    ASSUME TypeOK, DeliveryInv, [Next]_vars
    PROVE  DeliveryInv'
<1>1. task \in [Slot -> Task]
  BY DEF TypeOK
<1>2. ASSUME UNCHANGED <<settledBy, delivered>>
      PROVE  FoundIsDelivered'
  BY <1>2 DEF DeliveryInv, FoundIsDelivered
<1>3. CASE \E w \in Slot : RunStep(w)
  BY <1>3, DeliveryRunStep
<1>4. CASE \E d \in Dispatchers : Dequeue(d)
  <2>1. PICK w \in Slot : task'[w].pc = "route" /\ \A x \in Slot : x # w => task'[x] = task[x]
    BY <1>1, <1>4 DEF Dequeue
  <2> QED BY <1>2, <1>4, <2>1, DeliveryFrame DEF Dequeue, rowVars, outVars
<1>5. CASE \E w \in Slot : CallFailsInTry(w)
  <2>1. PICK w \in Slot : CallFailsInTry(w)
    BY <1>5
  <2>2. task[w].pc # "idle" /\ (task[w].pc \in {"finish", "log"}) \in BOOLEAN
    BY <2>1 DEF CallFailsInTry, InTry
  <2> QED BY <1>1, <1>2, <2>1, <2>2, AbandonEffect, DeliveryFrame
          DEF CallFailsInTry, rowVars, outVars
<1>6. CASE \E w \in Slot : CallFailsOutside(w)
  BY <1>1, <1>2, <1>6, EndTaskEffect, DeliveryFrame DEF CallFailsOutside, Idle, rowVars, outVars
<1>7. CASE Crash
  BY <1>2, <1>7 DEF Crash, Idle, DeliveryInv, VerdictInv, rowVars, outVars
<1>8. CASE UNCHANGED <<task, settledBy, delivered>>
  BY <1>2, <1>8 DEF DeliveryInv, VerdictInv
<1>9. CASE \/ \E j \in Jobs : \/ SubmitJob(j) \/ Age(j) \/ RecoverEnqueue(j)
                             \/ RetryCheck(j) \/ RetryReset(j) \/ RetryDispatch(j)
           \/ \E p \in Persons : CommitSearch(p) \/ AbortSearch(p)
           \/ \E d \in Dispatchers : AcquirePermit(d) \/ DequeueNone(d)
           \/ RecoverScan \/ Shutdown \/ Exit \/ Restart \/ UNCHANGED vars
  BY <1>8, <1>9
  DEF SubmitJob, Age, RecoverEnqueue, RetryCheck, RetryReset, RetryDispatch, CommitSearch,
      AbortSearch, AcquirePermit, DequeueNone, RecoverScan, Shutdown, Exit, Restart,
      rowVars, workerVars, outVars, vars
<1> QED BY <1>3, <1>4, <1>5, <1>6, <1>7, <1>9 DEF Next

\* No row is ever marked done for a found result that was not pushed on the
\* ingest queue first, in every interleaving, failure and restart.
THEOREM FoundIsDeliveredCorrect == Spec => []FoundIsDelivered
<1>1. Init => DeliveryInv
  BY DEF Init, DeliveryInv, FoundIsDelivered, VerdictInv, Idle
<1>2. TypeOK /\ DeliveryInv /\ [Next]_vars => DeliveryInv'
  BY DeliveryStep
<1>3. DeliveryInv => FoundIsDelivered
  BY DEF DeliveryInv
<1> QED BY <1>1, <1>2, <1>3, TypeCorrect, PTL DEF Spec

-----------------------------------------------------------------------------
(* How often a job is repeated.                                              *)

Within(n) == n <= MaxRetries \/ n <= RetryCap

\* The message of a task came from the queue, and a task decides to requeue
\* before it pushes: its next count must fit already.
TasksWithin ==
    \A w \in Slot :
        task[w].pc # "idle" =>
            /\ Within(task[w].retry)
            /\ task[w].pc = "requeue" => Within(task[w].retry + 1)

QueuesWithin(p) == \A i \in 1..Len(queue[p]) : Within(queue[p][i].retry)

BudgetInv == RetryBudget /\ TasksWithin

LEMMA BudgetByQueue == RetryBudget <=> \A p \in Priority : QueuesWithin(p)
  BY DEF RetryBudget, QueuesWithin, Within

LEMMA BudgetPush ==
    ASSUME TypeOK, RetryBudget, NEW p \in Priority, NEW m \in Message, Within(m.retry), Push(p, m)
    PROVE  RetryBudget'
<1>1. /\ queue[p] \in Seq(Message) /\ queue'[p] = Append(queue[p], m)
      /\ \A q \in Priority : q # p => queue'[q] = queue[q]
  BY DEF Push, TypeOK
<1>2. \A i \in 1..Len(queue'[p]) : queue'[p][i] = m \/ (i \in 1..Len(queue[p]) /\ queue'[p][i] = queue[p][i])
  BY <1>1
<1>3. QueuesWithin(p)'
  BY <1>2, BudgetByQueue DEF QueuesWithin, Within
<1> QED BY <1>1, <1>3, BudgetByQueue DEF QueuesWithin, Within, RetryBudget

LEMMA BudgetPop ==
    ASSUME TypeOK, RetryBudget, NEW p \in Priority, Pops(p)
    PROVE  RetryBudget' /\ Within(Head(queue[p]).retry)
<1>1. /\ queue[p] \in Seq(Message) /\ queue[p] # <<>> /\ queue'[p] = Tail(queue[p])
      /\ \A q \in Priority : q # p => queue'[q] = queue[q]
  BY DEF Pops, TypeOK
<1>2. Head(queue[p]) = queue[p][1] /\ 1 \in 1..Len(queue[p])
  BY <1>1
<1>3. \A i \in 1..Len(queue'[p]) : i + 1 \in 1..Len(queue[p]) /\ queue'[p][i] = queue[p][i + 1]
  BY <1>1
<1>4. QueuesWithin(p)'
  BY <1>3 DEF RetryBudget, QueuesWithin, Within
<1>5. RetryBudget'
  BY <1>1, <1>4 DEF RetryBudget, QueuesWithin, Within
<1> QED BY <1>2, <1>5 DEF RetryBudget, Within

\* Only the task that moves has to be looked at.
LEMMA BudgetFrame ==
    ASSUME TasksWithin, NEW w \in Slot, task[w].pc # "idle",
           \A x \in Slot : x # w => task'[x] = task[x],
           task'[w].pc # "idle" => task'[w].retry = task[w].retry,
           task'[w].pc = "requeue" => Within(task[w].retry + 1)
    PROVE  TasksWithin'
  BY DEF TasksWithin, Within

\* The handler of an exception repeats a job only below MAX_RETRIES.
LEMMA AbandonWithin ==
    ASSUME task \in [Slot -> Task], NEW w \in Slot, task[w].pc # "idle", NEW b \in BOOLEAN,
           task' = [task EXCEPT ![w].verdict = "error", ![w].poisoned = b,
                                ![w].pc = AfterError(task[w].retry)],
           ConstantsAssumption, TasksWithin
    PROVE  TasksWithin'
<1>1. task[w] \in Run /\ task[w].retry \in Nat
  BY RunFields
<1>2. /\ task'[w].retry = task[w].retry /\ task'[w].pc = AfterError(task[w].retry)
      /\ \A x \in Slot : x # w => task'[x] = task[x]
  BY <1>1 DEF Run
<1>3. AfterError(task[w].retry) = "requeue" => Within(task[w].retry + 1)
  BY <1>1 DEF AfterError, Within, ConstantsAssumption
<1> QED BY <1>2, <1>3, BudgetFrame

LEMMA GotoWithin ==
    ASSUME task \in [Slot -> Task], NEW w \in Slot, task[w].pc # "idle",
           NEW pc, pc # "requeue", Goto(w, pc), TasksWithin
    PROVE  TasksWithin'
<1>1. task[w] \in Run
  BY RunFields
<1>2. /\ task'[w].retry = task[w].retry /\ task'[w].pc = pc
      /\ \A x \in Slot : x # w => task'[x] = task[x]
  BY <1>1 DEF Goto, Run
<1> QED BY <1>2, BudgetFrame

LEMMA EndTaskWithin ==
    ASSUME task \in [Slot -> Task], NEW w \in Slot, EndTask(w), TasksWithin
    PROVE  TasksWithin'
  BY EndTaskEffect DEF TasksWithin, Within, Idle

\* A crawl repeats a job for the rate limit below RetryCap, for an error below
\* MAX_RETRIES.
LEMMA CrawlWithin ==
    ASSUME ConstantsAssumption, task \in [Slot -> Task], NEW w \in Slot, Crawl(w), TasksWithin
    PROVE  TasksWithin'
<1>1. task[w] \in Run /\ task[w].retry \in Nat /\ task[w].pc # "idle"
  BY RunFields DEF Crawl
<1>2. PICK v \in Verdicts :
        /\ v = "rate" => task[w].retry < RetryCap
        /\ task' = [task EXCEPT ![w].verdict = v,
                                ![w].pc = CASE v = "found" -> "ingest"
                                            [] v = "rate" -> "requeue"
                                            [] v = "timeout" -> "fail"
                                            [] v = "error" -> AfterError(task[w].retry)
                                            [] OTHER -> "finish"]
  BY DEF Crawl
<1>3. /\ task'[w].retry = task[w].retry
      /\ \A x \in Slot : x # w => task'[x] = task[x]
      /\ task'[w].pc = "requeue" => v = "rate" \/ AfterError(task[w].retry) = "requeue"
  BY <1>1, <1>2 DEF Run
<1>4. task'[w].pc = "requeue" => Within(task[w].retry + 1)
  BY <1>1, <1>2, <1>3 DEF AfterError, Within, ConstantsAssumption
<1> QED BY <1>1, <1>3, <1>4, BudgetFrame

LEMMA BudgetRunStep ==
    ASSUME ConstantsAssumption, TypeOK, BudgetInv, NEW w \in Slot, RunStep(w)
    PROVE  BudgetInv'
<1>1. task[w].pc # "idle" /\ task \in [Slot -> Task] /\ TasksWithin /\ RetryBudget
  BY RunStepFrame DEF TypeOK, BudgetInv
<1>2. UNCHANGED queue => RetryBudget'
  BY <1>1 DEF RetryBudget
<1>3. CASE Route(w)
  BY <1>1, <1>2, <1>3, GotoWithin, EndTaskWithin DEF Route, BudgetInv
<1>4. CASE Crawl(w)
  BY <1>1, <1>2, <1>4, CrawlWithin DEF Crawl, BudgetInv
<1>5. CASE Ingest(w) \/ Finish(w) \/ Publish(w)
  BY <1>1, <1>2, <1>5, GotoWithin DEF Ingest, Finish, Publish, BudgetInv
<1>6. CASE Requeue(w)
  <2>1. task[w].job \in Jobs /\ task[w].retry \in Nat
    BY <1>1, RunFields
  <2> DEFINE m == [job |-> task[w].job, retry |-> task[w].retry + 1]
             p == IF task[w].retry >= 1 THEN "low" ELSE "normal"
  <2>2. m \in Message /\ p \in Priority /\ Push(p, m)
    BY <1>6, <2>1 DEF Requeue, Message, Priority
  <2>3. Within(m.retry)
    BY <1>1, <1>6 DEF Requeue, TasksWithin
  <2> HIDE DEF m, p
  <2>4. RetryBudget'
    BY <1>1, <2>2, <2>3, BudgetPush
  <2>5. TasksWithin'
    BY <1>1, <1>6, GotoWithin DEF Requeue
  <2> QED BY <2>4, <2>5 DEF BudgetInv
<1>7. CASE Log(w)
  <2>1. CASE Visible(task[w].job)
    BY <1>1, <1>2, <1>7, <2>1, GotoWithin DEF Log, BudgetInv
  <2>2. CASE ~Visible(task[w].job)
    BY <1>1, <1>2, <1>7, <2>2, AbandonWithin DEF Log, BudgetInv
  <2> QED BY <2>1, <2>2
<1>8. CASE Fail(w)
  BY <1>1, <1>2, <1>8, GotoWithin, EndTaskWithin DEF Fail, BudgetInv
<1>9. CASE CheckSearchComplete(w)
  BY <1>1, <1>2, <1>9, EndTaskWithin DEF CheckSearchComplete, BudgetInv
<1> QED BY <1>3, <1>4, <1>5, <1>6, <1>7, <1>8, <1>9 DEF RunStep

LEMMA BudgetStep ==
    ASSUME ConstantsAssumption, TypeOK, BudgetInv, [Next]_vars
    PROVE  BudgetInv'
<1>1. task \in [Slot -> Task] /\ TasksWithin /\ RetryBudget
  BY DEF TypeOK, BudgetInv
<1>2. UNCHANGED queue => RetryBudget'
  BY <1>1 DEF RetryBudget
<1>3. UNCHANGED task => TasksWithin'
  BY <1>1 DEF TasksWithin, Within
<1>4. CASE \E w \in Slot : RunStep(w)
  BY <1>4, BudgetRunStep
<1>5. CASE \E j \in Jobs : SubmitJob(j) \/ RecoverEnqueue(j) \/ RetryDispatch(j)
  <2>1. PICK j \in Jobs : SubmitJob(j) \/ RecoverEnqueue(j) \/ RetryDispatch(j)
    BY <1>5
  <2> DEFINE m == Fresh(j)
  <2>2. m \in Message /\ Within(m.retry)
    BY DEF Fresh, Message, Within, ConstantsAssumption
  <2>3. UNCHANGED task
    BY <2>1 DEF SubmitJob, RecoverEnqueue, RetryDispatch, workerVars
  <2>4. UNCHANGED queue \/ \E p \in Priority : Push(p, m)
    BY <2>1 DEF SubmitJob, RecoverEnqueue, RetryDispatch, Priority, ConstantsAssumption
  <2> HIDE DEF m
  <2>5. RetryBudget'
    BY <1>1, <1>2, <2>2, <2>4, BudgetPush
  <2> QED BY <1>3, <2>3, <2>5 DEF BudgetInv
<1>6. CASE \E d \in Dispatchers : Dequeue(d)
  <2>1. PICK p \in Priority, w \in Slot :
          /\ Pops(p) /\ task[w] = Idle
          /\ task' = [task EXCEPT ![w] =
                [pc |-> "route", job |-> Head(queue[p]).job,
                 retry |-> Head(queue[p]).retry,
                 verdict |-> "empty", poisoned |-> FALSE]]
    BY <1>6 DEF Dequeue
  <2>2. RetryBudget' /\ Within(Head(queue[p]).retry)
    BY <1>1, <2>1, BudgetPop
  <2>3. /\ task'[w].pc = "route" /\ task'[w].retry = Head(queue[p]).retry
        /\ \A x \in Slot : x # w => task'[x] = task[x]
    BY <1>1, <2>1
  <2>4. TasksWithin'
    BY <1>1, <2>2, <2>3 DEF TasksWithin, Within
  <2> QED BY <2>2, <2>4 DEF BudgetInv
<1>7. CASE \E d \in Dispatchers : DequeueNone(d)
  BY <1>1, <1>2, <1>3, <1>7, BudgetPop DEF DequeueNone, BudgetInv
<1>8. CASE \E w \in Slot : CallFailsInTry(w)
  <2>1. PICK w \in Slot : CallFailsInTry(w)
    BY <1>8
  <2>2. task[w].pc # "idle" /\ (task[w].pc \in {"finish", "log"}) \in BOOLEAN
    BY <2>1 DEF CallFailsInTry, InTry
  <2> QED BY <1>1, <1>2, <2>1, <2>2, AbandonWithin DEF CallFailsInTry, BudgetInv
<1>9. CASE \E w \in Slot : CallFailsOutside(w)
  BY <1>1, <1>2, <1>9, EndTaskWithin DEF CallFailsOutside, BudgetInv
<1>10. CASE Crash
  BY <1>2, <1>10 DEF Crash, Idle, TasksWithin, BudgetInv
<1>11. CASE \/ \E j \in Jobs : Age(j) \/ RetryCheck(j) \/ RetryReset(j)
            \/ \E p \in Persons : CommitSearch(p) \/ AbortSearch(p)
            \/ \E d \in Dispatchers : AcquirePermit(d)
            \/ RecoverScan \/ Shutdown \/ Exit \/ Restart \/ UNCHANGED vars
  <2>1. UNCHANGED <<task, queue>>
    BY <1>11 DEF Age, RetryCheck, RetryReset, CommitSearch, AbortSearch, AcquirePermit,
       RecoverScan, Shutdown, Exit, Restart, workerVars, vars
  <2> QED BY <1>2, <1>3, <2>1 DEF BudgetInv
<1> QED BY <1>4, <1>5, <1>6, <1>7, <1>8, <1>9, <1>10, <1>11 DEF Next

\* An exception never repeats a job past MAX_RETRIES, however often its run
\* requeues: only the rate limit goes further (dispatcher.py:220-227, 250-253).
THEOREM RetryBudgetCorrect == Spec => []RetryBudget
<1>1. Init => BudgetInv
  BY DEF Init, BudgetInv, RetryBudget, TasksWithin, Idle
<1>2. TypeOK /\ BudgetInv /\ [Next]_vars => BudgetInv'
  BY BudgetStep, ConstantsAssumption
<1>3. BudgetInv => RetryBudget
  BY DEF BudgetInv
<1> QED BY <1>1, <1>2, <1>3, TypeCorrect, PTL DEF Spec

-----------------------------------------------------------------------------
(* Rows, and who is going to finish them.                                    *)

\* The rows a search has not rolled back, and what keeps PendingIsCarried true
\* across the commit: a row nobody sees yet is pending and carried as well.
Live(j) == row[j] \notin {"absent", "aborted"}

LiveIsCarried ==
    \A j \in Jobs : Live(j) /\ status[j] = "pending" => Carried(j) \/ j \in dropped

HiddenIsPending == \A j \in Jobs : ~Visible(j) => status[j] = "pending"

OwnerInv == RunningIsOwned /\ LiveIsCarried /\ HiddenIsPending

LEMMA PushKeeps ==
    ASSUME TypeOK, NEW p \in Priority, NEW m \in Message, Push(p, m)
    PROVE  /\ \A j \in Jobs : InQueue(j) => InQueue(j)'
           /\ InQueue(m.job)'
<1>1. queue'[p] = Append(queue[p], m) /\ \A q \in Priority : q # p => queue'[q] = queue[q]
  BY DEF Push, TypeOK
<1>2. /\ queue[p] \in Seq(Message)
      /\ Len(queue'[p]) = Len(queue[p]) + 1
      /\ queue'[p][Len(queue[p]) + 1] = m
      /\ \A i \in 1..Len(queue[p]) : queue'[p][i] = queue[p][i]
  BY <1>1 DEF TypeOK
<1>3. Len(queue[p]) \in Nat /\ Len(queue[p]) + 1 \in 1..Len(queue'[p])
  BY <1>2
<1>4. ASSUME NEW j \in Jobs, NEW q \in Priority, NEW i \in 1..Len(queue[q]),
             queue[q][i].job = j
      PROVE  InQueue(j)'
  <2>1. i \in 1..Len(queue'[q]) /\ queue'[q][i] = queue[q][i]
    BY <1>1, <1>2, <1>3
  <2> QED BY <1>4, <2>1 DEF InQueue
<1>5. InQueue(m.job)'
  BY <1>2, <1>3 DEF InQueue
<1> QED BY <1>4, <1>5 DEF InQueue

\* Popping a message hides at most the job of that message.
LEMMA PopsKeeps ==
    ASSUME TypeOK, NEW p \in Priority, Pops(p)
    PROVE  \A j \in Jobs : InQueue(j) => InQueue(j)' \/ j = Head(queue[p]).job
<1>1. /\ queue'[p] = Tail(queue[p]) /\ \A q \in Priority : q # p => queue'[q] = queue[q]
      /\ queue[p] \in Seq(Message) /\ queue[p] # <<>>
  BY DEF Pops, TypeOK
<1> SUFFICES ASSUME NEW j \in Jobs, NEW q \in Priority, NEW i \in 1..Len(queue[q]),
                    queue[q][i].job = j, j # Head(queue[p]).job
             PROVE  InQueue(j)'
  BY DEF InQueue
<1>2. CASE q # p
  BY <1>1, <1>2 DEF InQueue
<1>3. CASE q = p
  <2>1. i # 1 /\ i - 1 \in 1..Len(queue'[p]) /\ queue'[p][i - 1] = queue[p][i]
    BY <1>1, <1>3
  <2> QED BY <1>3, <2>1 DEF InQueue
<1> QED BY <1>2, <1>3

\* A step that changes no status: no carrier is lost, no owner is lost, and
\* rows only come into sight.
LEMMA OwnerFrame ==
    ASSUME OwnerInv, UNCHANGED status, dropped \subseteq dropped',
           \A j \in Jobs :
              /\ Live(j)' => Live(j) \/ Carried(j)' \/ j \in dropped'
              /\ Visible(j) => Visible(j)'
              /\ Carried(j) => Carried(j)' \/ j \in dropped'
              /\ (\E x \in Slot : RunBy(j, x, Owing))
                    => (\E x \in Slot : RunBy(j, x, Owing)') \/ j \in dropped'
    PROVE  OwnerInv'
<1>1. RunningIsOwned'
  <2> SUFFICES ASSUME NEW j \in Jobs, Visible(j)', status[j] = "running"
               PROVE  (\E x \in Slot : RunBy(j, x, Owing)') \/ j \in dropped'
    BY DEF RunningIsOwned
  <2>1. Visible(j)
    BY DEF OwnerInv, HiddenIsPending
  <2> QED BY <2>1 DEF OwnerInv, RunningIsOwned
<1>2. LiveIsCarried'
  BY DEF OwnerInv, LiveIsCarried
<1>3. HiddenIsPending'
  BY DEF OwnerInv, HiddenIsPending
<1> QED BY <1>1, <1>2, <1>3 DEF OwnerInv

\* The same for a step that moves no task.
LEMMA QuietFrame ==
    ASSUME OwnerInv, UNCHANGED <<status, task>>, dropped \subseteq dropped',
           \A j \in Jobs :
              /\ Live(j)' => Live(j) \/ InQueue(j)' \/ j \in dropped'
              /\ Visible(j) => Visible(j)'
              /\ InQueue(j) => InQueue(j)' \/ j \in dropped'
              /\ retryReq[j] = "reset" =>
                    retryReq'[j] = "reset" \/ InQueue(j)' \/ j \in dropped'
    PROVE  OwnerInv'
<1>1. \A j \in Jobs, x \in Slot : \A pcs : RunBy(j, x, pcs)' <=> RunBy(j, x, pcs)
  BY DEF RunBy
<1>2. \A j \in Jobs : Carried(j) => Carried(j)' \/ j \in dropped'
  BY <1>1 DEF Carried
<1>3. \A j \in Jobs : InQueue(j)' => Carried(j)'
  BY DEF Carried
<1> QED BY <1>1, <1>2, <1>3, OwnerFrame

\* The same for a step of one task, which touches no row.
LEMMA TaskFrame ==
    ASSUME OwnerInv, NEW w \in Slot,
           UNCHANGED <<row, status, retryReq>>, dropped \subseteq dropped',
           \A x \in Slot : x # w => task'[x] = task[x],
           \A j \in Jobs :
              /\ InQueue(j) => Carried(j)' \/ j \in dropped'
              /\ RunBy(j, w, Owing) => RunBy(j, w, Owing)' \/ j \in dropped'
              /\ RunBy(j, w, {"route"}) => j \in dropped'
    PROVE  OwnerInv'
<1>1. \A j \in Jobs, x \in Slot : \A pcs : x # w => (RunBy(j, x, pcs)' <=> RunBy(j, x, pcs))
  BY DEF RunBy
<1>2. \A j \in Jobs : (Live(j)' <=> Live(j)) /\ (Visible(j)' <=> Visible(j))
  BY DEF Live, Visible
<1>3. \A j \in Jobs, x \in Slot :
        RunBy(j, x, Owing \cup {"route"}) <=> RunBy(j, x, Owing) \/ RunBy(j, x, {"route"})
  BY DEF RunBy
<1>4. \A j \in Jobs, x \in Slot :
        RunBy(j, x, Owing)' => RunBy(j, x, Owing \cup {"route"})'
  BY DEF RunBy
<1>5. ASSUME NEW j \in Jobs, Carried(j), j \notin dropped'
      PROVE  Carried(j)'
  <2>1. CASE InQueue(j) \/ retryReq[j] = "reset"
    BY <1>5, <2>1 DEF Carried
  <2>2. CASE \E x \in Slot : RunBy(j, x, Owing \cup {"route"})
    <3>1. PICK x \in Slot : RunBy(j, x, Owing \cup {"route"})
      BY <2>2
    <3>2. RunBy(j, x, Owing \cup {"route"})'
      BY <1>1, <1>3, <1>4, <1>5, <3>1
    <3> QED BY <3>2 DEF Carried
  <2> QED BY <1>5, <2>1, <2>2 DEF Carried
<1>6. ASSUME NEW j \in Jobs, NEW x \in Slot, RunBy(j, x, Owing), j \notin dropped'
      PROVE  RunBy(j, x, Owing)'
  BY <1>1, <1>6
<1> QED BY <1>2, <1>5, <1>6, OwnerFrame

\* A step of task w that settles its row, or misses it, may let go of it.
LEMMA SettleFrame ==
    ASSUME TypeOK, OwnerInv, NEW w \in Slot, task[w].pc # "idle",
           NEW s \in Status \ {"pending", "running"}, NEW v, Settle(task[w].job, s, v),
           UNCHANGED <<row, retryReq, queue>>,
           \A x \in Slot : x # w => task'[x] = task[x]
    PROVE  OwnerInv'
<1> DEFINE k == task[w].job
<1>1. k \in Jobs /\ dropped \subseteq dropped'
  BY RunFields DEF Settle, TypeOK
<1>2. /\ Visible(k) => status'[k] = s
      /\ ~Visible(k) => status' = status
  BY <1>1 DEF Settle, UpdateStatus, TypeOK
<1>3. \A j \in Jobs : j # k => status'[j] = status[j]
  BY <1>1 DEF Settle, UpdateStatus, TypeOK
<1>4. ~Visible(k) => k \in dropped'
  BY DEF Settle
<1>5. \A j \in Jobs : /\ Visible(j)' <=> Visible(j)
                      /\ Live(j)' <=> Live(j)
                      /\ InQueue(j)' <=> InQueue(j)
  BY DEF Visible, Live, InQueue
<1>6. \A j \in Jobs, x \in Slot : \A pcs : j # k /\ RunBy(j, x, pcs) => RunBy(j, x, pcs)'
  BY DEF RunBy
<1>7. RunningIsOwned'
  <2> SUFFICES ASSUME NEW j \in Jobs, Visible(j)', status'[j] = "running"
               PROVE  (\E x \in Slot : RunBy(j, x, Owing)') \/ j \in dropped'
    BY DEF RunningIsOwned
  <2>1. j # k
    BY <1>2, <1>5
  <2> QED BY <1>1, <1>3, <1>5, <1>6, <2>1 DEF OwnerInv, RunningIsOwned
<1>8. LiveIsCarried'
  <2> SUFFICES ASSUME NEW j \in Jobs, Live(j)', status'[j] = "pending", j \notin dropped'
               PROVE  Carried(j)'
    BY DEF LiveIsCarried
  <2>1. j # k
    BY <1>2, <1>4
  <2>2. Carried(j)
    BY <1>1, <1>3, <1>5, <2>1 DEF OwnerInv, LiveIsCarried
  <2> QED BY <1>5, <1>6, <2>1, <2>2 DEF Carried
<1>9. HiddenIsPending'
  BY <1>2, <1>3, <1>5 DEF OwnerInv, HiddenIsPending
<1> QED BY <1>7, <1>8, <1>9 DEF OwnerInv

\* Marking the row RUNNING makes the task its owner.
LEMMA RunningFrame ==
    ASSUME TypeOK, OwnerInv, NEW w \in Slot, task[w].pc = "route",
           UpdateStatus(task[w].job, "running"), Goto(w, "crawl"),
           UNCHANGED <<row, retryReq, queue, dropped>>
    PROVE  OwnerInv'
<1> DEFINE k == task[w].job
<1>1. /\ k \in Jobs /\ task'[w].pc = "crawl" /\ task'[w].job = k
      /\ \A x \in Slot : x # w => task'[x] = task[x]
  BY RunFields, GotoEffect DEF TypeOK
<1>2. \A j \in Jobs : status'[j] = IF j = k /\ Visible(j) THEN "running" ELSE status[j]
  BY DEF UpdateStatus, TypeOK
<1>3. \A j \in Jobs : j = k => RunBy(j, w, Owing)'
  BY <1>1 DEF RunBy, Owing
<1>4. \A j \in Jobs : /\ Visible(j)' <=> Visible(j)
                      /\ Live(j)' <=> Live(j)
                      /\ InQueue(j)' <=> InQueue(j)
  BY DEF Visible, Live, InQueue
<1>5. \A j \in Jobs, x \in Slot : \A pcs : j # k /\ RunBy(j, x, pcs) => RunBy(j, x, pcs)'
  BY <1>1 DEF RunBy
<1>6. RunningIsOwned'
  <2> SUFFICES ASSUME NEW j \in Jobs, Visible(j)', status'[j] = "running"
               PROVE  (\E x \in Slot : RunBy(j, x, Owing)') \/ j \in dropped'
    BY DEF RunningIsOwned
  <2>1. CASE j = k
    BY <1>3, <2>1
  <2>2. CASE j # k
    BY <1>2, <1>4, <1>5, <2>2 DEF OwnerInv, RunningIsOwned
  <2> QED BY <2>1, <2>2
<1>7. LiveIsCarried'
  <2> SUFFICES ASSUME NEW j \in Jobs, Live(j)', status'[j] = "pending", j \notin dropped'
               PROVE  Carried(j)'
    BY DEF LiveIsCarried
  <2>1. CASE j = k
    <3>1. RunBy(j, w, Owing \cup {"route"})'
      BY <1>3, <2>1 DEF RunBy
    <3> QED BY <2>1, <3>1 DEF Carried
  <2>2. CASE j # k
    <3>1. Carried(j)
      BY <1>2, <1>4, <2>2 DEF OwnerInv, LiveIsCarried
    <3> QED BY <1>4, <1>5, <2>2, <3>1 DEF Carried
  <2> QED BY <2>1, <2>2
<1>8. HiddenIsPending'
  BY <1>2, <1>4 DEF OwnerInv, HiddenIsPending
<1> QED BY <1>6, <1>7, <1>8 DEF OwnerInv

LEMMA FinalStatusType ==
    ASSUME NEW v PROVE FinalStatus(v) \in Status \ {"pending", "running"}
  BY DEF FinalStatus, Status

LEMMA OwnerRunStep ==
    ASSUME TypeOK, OwnerInv, NEW w \in Slot, RunStep(w)
    PROVE  OwnerInv'
<1>1. /\ task[w].pc # "idle" /\ task \in [Slot -> Task] /\ task[w].job \in Jobs
      /\ UNCHANGED <<row, retryReq>>
  BY RunStepFrame, RunFields DEF TypeOK, StepFrame
<1>2. \A x \in Slot, j \in Jobs : \A pcs : RunBy(j, x, pcs) => task[x].pc \in pcs /\ task[x].job = j
  BY DEF RunBy
\* From one owing step to the next, with the queues at least as full as before.
<1>3. ASSUME task[w].pc # "route", task'[w].pc \in Owing, task'[w].job = task[w].job,
             \A x \in Slot : x # w => task'[x] = task[x],
             UNCHANGED <<status, dropped>>, \A j \in Jobs : InQueue(j) => InQueue(j)'
      PROVE  OwnerInv'
  <2>1. \A j \in Jobs : /\ RunBy(j, w, Owing) => RunBy(j, w, Owing)'
                        /\ ~RunBy(j, w, {"route"})
                        /\ InQueue(j) => Carried(j)'
    BY <1>3 DEF RunBy, Carried
  <2> QED BY <1>1, <1>3, <2>1, TaskFrame
\* After the final status nothing is owed.
<1>4. ASSUME task[w].pc \notin Owing \cup {"route"}, UNCHANGED <<status, dropped, queue>>,
             \A x \in Slot : x # w => task'[x] = task[x]
      PROVE  OwnerInv'
  <2>1. \A j \in Jobs : /\ ~RunBy(j, w, Owing) /\ ~RunBy(j, w, {"route"})
                        /\ InQueue(j) => Carried(j)'
    BY <1>4 DEF RunBy, InQueue, Carried
  <2> QED BY <1>1, <1>4, <2>1, TaskFrame
<1>5. UNCHANGED queue => \A j \in Jobs : InQueue(j) => InQueue(j)'
  BY DEF InQueue
<1>6. CASE Route(w)
  <2>1. CASE task[w].job \in Unregistered
    <3>1. /\ Settle(task[w].job, "failed", "error") /\ UNCHANGED queue
          /\ \A x \in Slot : x # w => task'[x] = task[x]
      BY <1>1, <1>6, <2>1, EndTaskEffect DEF Route
    <3>2. "failed" \in Status \ {"pending", "running"}
      BY DEF Status
    <3> QED BY <1>1, <3>1, <3>2, SettleFrame
  <2>2. CASE task[w].job \notin Unregistered
    BY <1>1, <1>6, <2>2, RunningFrame DEF Route
  <2> QED BY <2>1, <2>2
<1>7. CASE Crawl(w)
  <2>1. task[w].pc # "route" /\ UNCHANGED <<status, dropped, queue>> /\ task'[w].pc \in Owing
    BY <1>1, <1>7, CrawlEffect DEF Crawl, Owing
  <2> QED BY <1>1, <1>3, <1>5, <1>7, <2>1, CrawlEffect
<1>8. CASE Ingest(w)
  <2>1. task[w].pc # "route" /\ UNCHANGED <<status, dropped, queue>> /\ task'[w].pc \in Owing
    BY <1>1, <1>8, GotoEffect DEF Ingest, Owing
  <2> QED BY <1>1, <1>3, <1>5, <1>8, <2>1, GotoEffect DEF Ingest
<1>9. CASE Requeue(w)
  <2> DEFINE q == IF task[w].retry >= 1 THEN "low" ELSE "normal"
             n == [job |-> task[w].job, retry |-> task[w].retry + 1]
             pc == IF task[w].verdict = "rate" THEN "finish" ELSE "fail"
  <2>1. task[w].pc = "requeue" /\ UNCHANGED <<status, dropped>> /\ Push(q, n) /\ Goto(w, pc)
    BY <1>9 DEF Requeue
  <2>2. q \in Priority /\ n \in Message /\ pc \in Owing
    BY <1>1, RunFields DEF Priority, Message, Owing
  <2>3. \A j \in Jobs : InQueue(j) => InQueue(j)'
    BY <2>1, <2>2, PushKeeps
  <2> QED BY <1>1, <1>3, <2>1, <2>2, <2>3, GotoEffect
<1>10. CASE Finish(w)
  BY <1>1, <1>10, FinalStatusType, GotoEffect, SettleFrame DEF Finish
<1>11. CASE Log(w)
  <2>1. task[w].pc = "log" /\ UNCHANGED <<status, dropped, queue>>
    BY <1>11 DEF Log
  <2>2. \A x \in Slot : x # w => task'[x] = task[x]
    BY <1>1, <1>11, GotoEffect, AbandonEffect DEF Log
  <2> QED BY <1>4, <2>1, <2>2 DEF Owing
<1>12. CASE Publish(w)
  BY <1>1, <1>4, <1>12, GotoEffect DEF Publish, Owing
<1>13. CASE Fail(w)
  <2>1. CASE task[w].poisoned
    <3>1. /\ dropped' = dropped \cup {task[w].job} /\ UNCHANGED <<status, queue>>
          /\ task[w].pc = "fail" /\ \A x \in Slot : x # w => task'[x] = task[x]
      BY <1>1, <1>13, <2>1, EndTaskEffect DEF Fail
    <3>2. \A j \in Jobs : /\ RunBy(j, w, Owing) => j \in dropped'
                          /\ ~RunBy(j, w, {"route"})
                          /\ InQueue(j) => Carried(j)'
      BY <1>5, <3>1 DEF RunBy, Carried
    <3> QED BY <1>1, <3>1, <3>2, TaskFrame
  <2>2. CASE ~task[w].poisoned
    <3>1. "failed" \in Status \ {"pending", "running"}
      BY DEF Status
    <3> QED BY <1>1, <1>13, <2>2, <3>1, GotoEffect, SettleFrame DEF Fail
  <2> QED BY <2>1, <2>2
<1>14. CASE CheckSearchComplete(w)
  <2>1. task[w].pc = "check" /\ UNCHANGED <<status, dropped, queue>> /\ EndTask(w)
    BY <1>14 DEF CheckSearchComplete
  <2> QED BY <1>1, <1>4, <2>1, EndTaskEffect DEF Owing
<1> QED BY <1>6, <1>7, <1>8, <1>9, <1>10, <1>11, <1>12, <1>13, <1>14 DEF RunStep

\* Pushing the message of a row.
LEMMA PushFresh ==
    ASSUME TypeOK, NEW j \in Jobs, NEW p \in Priority, Push(p, Fresh(j))
    PROVE  (\A k \in Jobs : InQueue(k) => InQueue(k)') /\ InQueue(j)'
<1> DEFINE n == Fresh(j)
<1>1. n \in Message /\ n.job = j /\ Push(p, n)
  BY DEF Fresh, Message
<1> HIDE DEF n
<1>2. (\A k \in Jobs : InQueue(k) => InQueue(k)') /\ InQueue(n.job)'
  BY <1>1, PushKeeps
<1>3. InQueue(j)'
  BY <1>1, <1>2 DEF InQueue
<1> QED BY <1>2, <1>3

\* The search endpoint.
LEMMA OwnerSearch ==
    ASSUME TypeOK, OwnerInv,
           \/ \E j \in Jobs : SubmitJob(j) \/ Age(j)
           \/ \E p \in Persons : CommitSearch(p) \/ AbortSearch(p)
    PROVE  OwnerInv'
<1>1. ASSUME UNCHANGED <<status, task, queue, retryReq, dropped>>,
             \A j \in Jobs : (Live(j)' => Live(j)) /\ (Visible(j) => Visible(j)')
      PROVE  OwnerInv'
  <2>1. \A j \in Jobs : InQueue(j) => InQueue(j)'
    BY <1>1 DEF InQueue
  <2> QED BY <1>1, <2>1, QuietFrame
<1>2. ASSUME NEW j \in Jobs, SubmitJob(j)
      PROVE  OwnerInv'
  <2>1. /\ UNCHANGED <<status, task, retryReq>> /\ dropped \subseteq dropped'
        /\ row[j] = "absent" /\ row' = [row EXCEPT ![j] = "inserted"]
    BY <1>2 DEF SubmitJob, workerVars
  <2>2. \A k \in Jobs : /\ Visible(k) => Visible(k)'
                        /\ Live(k)' => Live(k) \/ k = j
    BY <2>1 DEF Visible, Live, TypeOK
  <2>3. (\A k \in Jobs : InQueue(k) => InQueue(k)') /\ (InQueue(j)' \/ j \in dropped')
    <3>1. CASE \E p \in SubmitPriorities : Push(p, Fresh(j))
      <4>1. PICK p \in Priority : Push(p, Fresh(j))
        BY <3>1, ConstantsAssumption DEF ConstantsAssumption
      <4> QED BY <4>1, PushFresh
    <3>2. CASE UNCHANGED queue /\ j \in dropped'
      BY <3>2 DEF InQueue
    <3> QED BY <1>2, <3>1, <3>2 DEF SubmitJob
  <2> QED BY <2>1, <2>2, <2>3, QuietFrame
<1>3. ASSUME NEW j \in Jobs, Age(j)
      PROVE  OwnerInv'
  <2>1. \A k \in Jobs : (Live(k)' => Live(k)) /\ (Visible(k) => Visible(k)')
    BY <1>3 DEF Age, Live, Visible, TypeOK
  <2> QED BY <1>1, <1>3, <2>1 DEF Age, workerVars
<1>4. ASSUME NEW p \in Persons, CommitSearch(p)
      PROVE  OwnerInv'
  <2>1. \A k \in Jobs : (Live(k)' => Live(k)) /\ (Visible(k) => Visible(k)')
    BY <1>4 DEF CommitSearch, JobsOf, Live, Visible, TypeOK
  <2> QED BY <1>1, <1>4, <2>1 DEF CommitSearch, workerVars
<1>5. ASSUME NEW p \in Persons, AbortSearch(p)
      PROVE  OwnerInv'
  <2>1. \A k \in Jobs : (Live(k)' => Live(k)) /\ (Visible(k) => Visible(k)')
    BY <1>5 DEF AbortSearch, Live, Visible, TypeOK
  <2> QED BY <1>1, <1>5, <2>1 DEF AbortSearch, workerVars
<1> QED BY <1>2, <1>3, <1>4, <1>5

\* The retry endpoint and the recovery daemon.
LEMMA OwnerRetry ==
    ASSUME TypeOK, OwnerInv, NEW j \in Jobs,
           RetryCheck(j) \/ RetryReset(j) \/ RetryDispatch(j) \/ RecoverEnqueue(j)
    PROVE  OwnerInv'
<1>1. ASSUME UNCHANGED row
      PROVE  \A k \in Jobs : (Live(k)' <=> Live(k)) /\ (Visible(k)' <=> Visible(k))
  BY <1>1 DEF Live, Visible
<1>2. UNCHANGED queue => \A k \in Jobs : InQueue(k)' <=> InQueue(k)
  BY DEF InQueue
<1>3. CASE RetryCheck(j)
  <2>1. /\ UNCHANGED <<row, status, task, queue, dropped>>
        /\ \A k \in Jobs : retryReq[k] = "reset" => retryReq'[k] = "reset"
    BY <1>3 DEF RetryCheck, rowVars, workerVars, TypeOK
  <2> QED BY <1>1, <1>2, <2>1, QuietFrame
<1>4. CASE RetryDispatch(j)
  <2>1. /\ UNCHANGED <<row, status, task>> /\ dropped \subseteq dropped'
        /\ \A k \in Jobs : retryReq[k] = "reset" => retryReq'[k] = "reset" \/ k = j
    BY <1>4 DEF RetryDispatch, rowVars, workerVars, TypeOK
  <2>2. (\A k \in Jobs : InQueue(k) => InQueue(k)') /\ (InQueue(j)' \/ j \in dropped')
    <3>1. CASE Push("high", Fresh(j))
      BY <3>1, PushFresh DEF Priority
    <3>2. CASE UNCHANGED queue /\ j \in dropped'
      BY <1>2, <3>2
    <3> QED BY <1>4, <3>1, <3>2 DEF RetryDispatch
  <2> QED BY <1>1, <2>1, <2>2, QuietFrame
<1>5. CASE RecoverEnqueue(j)
  <2>1. UNCHANGED <<row, status, task, retryReq, dropped>>
    BY <1>5 DEF RecoverEnqueue, rowVars
  <2>2. \A k \in Jobs : InQueue(k) => InQueue(k)'
    BY <1>2, <1>5, PushFresh DEF RecoverEnqueue, Priority
  <2> QED BY <1>1, <2>1, <2>2, QuietFrame
<1>6. CASE RetryReset(j)
  <2>1. /\ UNCHANGED <<row, task, queue, dropped>>
        /\ retryReq'[j] = "reset" /\ \A k \in Jobs : k # j => retryReq'[k] = retryReq[k]
        /\ \A k \in Jobs : status'[k] = IF k = j /\ Visible(k) THEN "pending" ELSE status[k]
    BY <1>6 DEF RetryReset, UpdateStatus, workerVars, TypeOK
  <2>2. \A k \in Jobs, x \in Slot : \A pcs : RunBy(k, x, pcs)' <=> RunBy(k, x, pcs)
    BY <2>1 DEF RunBy
  <2>3. RunningIsOwned'
    BY <1>1, <2>1, <2>2 DEF OwnerInv, RunningIsOwned
  <2>4. LiveIsCarried'
    <3> SUFFICES ASSUME NEW k \in Jobs, Live(k)', status'[k] = "pending", k \notin dropped'
                 PROVE  Carried(k)'
      BY DEF LiveIsCarried
    <3>1. CASE k = j
      BY <2>1, <3>1 DEF Carried
    <3>2. CASE k # j
      <4>1. Carried(k)
        BY <1>1, <2>1, <3>2 DEF OwnerInv, LiveIsCarried
      <4> QED BY <1>2, <2>1, <2>2, <3>2, <4>1 DEF Carried
    <3> QED BY <3>1, <3>2
  <2>5. HiddenIsPending'
    BY <1>1, <2>1 DEF OwnerInv, HiddenIsPending
  <2> QED BY <2>3, <2>4, <2>5 DEF OwnerInv
<1> QED BY <1>3, <1>4, <1>5, <1>6

LEMMA OwnerStep ==
    ASSUME TypeOK, OwnerInv, [Next]_vars
    PROVE  OwnerInv'
<1>0. task \in [Slot -> Task]
  BY DEF TypeOK
<1>1. UNCHANGED row => \A k \in Jobs : (Live(k)' <=> Live(k)) /\ (Visible(k)' <=> Visible(k))
  BY DEF Live, Visible
<1>2. UNCHANGED queue => \A k \in Jobs : InQueue(k)' <=> InQueue(k)
  BY DEF InQueue
<1>3. CASE UNCHANGED <<row, status, task, queue, retryReq, dropped>>
  BY <1>1, <1>2, <1>3, QuietFrame
<1>4. ASSUME NEW d \in Dispatchers, Dequeue(d)
      PROVE  OwnerInv'
  <2>1. PICK p \in Priority, w \in Slot :
          /\ Pops(p)
          /\ task[w] = Idle
          /\ task' = [task EXCEPT ![w] = [pc |-> "route", job |-> Head(queue[p]).job,
                                         retry |-> Head(queue[p]).retry,
                                         verdict |-> "empty", poisoned |-> FALSE]]
    BY <1>4 DEF Dequeue
  <2>2. /\ UNCHANGED <<row, status, retryReq, dropped>>
        /\ task'[w].pc = "route" /\ task'[w].job = Head(queue[p]).job
        /\ \A x \in Slot : x # w => task'[x] = task[x]
    BY <1>0, <1>4, <2>1 DEF Dequeue, rowVars
  <2>3. \A k \in Jobs : InQueue(k) => Carried(k)'
    <3>1. \A k \in Jobs : k = Head(queue[p]).job => RunBy(k, w, Owing \cup {"route"})'
      BY <2>2 DEF RunBy
    <3> QED BY <2>1, <3>1, PopsKeeps DEF Carried
  <2>4. \A k \in Jobs : ~RunBy(k, w, Owing) /\ ~RunBy(k, w, {"route"})
    BY <2>1 DEF RunBy, Idle, Owing
  <2> QED BY <2>2, <2>3, <2>4, TaskFrame
<1>5. ASSUME NEW d \in Dispatchers, DequeueNone(d)
      PROVE  OwnerInv'
  <2>1. UNCHANGED <<row, status, task, retryReq>> /\ dropped \subseteq dropped'
    BY <1>5 DEF DequeueNone, rowVars
  <2>2. \A k \in Jobs : InQueue(k) => InQueue(k)' \/ k \in dropped'
    BY <1>2, <1>5, PopsKeeps DEF DequeueNone
  <2> QED BY <1>1, <2>1, <2>2, QuietFrame
<1>6. ASSUME NEW w \in Slot, CallFailsInTry(w)
      PROVE  OwnerInv'
  <2>1. UNCHANGED <<row, status, queue, retryReq, dropped>> /\ InTry(w)
    BY <1>6 DEF CallFailsInTry, rowVars
  <2>2. task[w].pc \notin {"idle", "route"} /\ (task[w].pc \in {"finish", "log"}) \in BOOLEAN
    BY <2>1 DEF InTry
  <2>3. /\ task'[w].pc \in {"requeue", "fail"} /\ task'[w].job = task[w].job
        /\ \A x \in Slot : x # w => task'[x] = task[x]
    BY <1>0, <1>6, <2>2, AbandonEffect DEF CallFailsInTry
  <2>4. \A k \in Jobs : /\ RunBy(k, w, Owing) => RunBy(k, w, Owing)'
                        /\ ~RunBy(k, w, {"route"})
                        /\ InQueue(k) => Carried(k)'
    BY <1>2, <2>1, <2>2, <2>3 DEF RunBy, Owing, Carried
  <2> QED BY <2>1, <2>3, <2>4, TaskFrame
<1>7. ASSUME NEW w \in Slot, CallFailsOutside(w)
      PROVE  OwnerInv'
  <2>1. /\ UNCHANGED <<row, status, queue, retryReq>>
        /\ dropped' = dropped \cup {task[w].job}
        /\ \A x \in Slot : x # w => task'[x] = task[x]
    BY <1>0, <1>7, EndTaskEffect DEF CallFailsOutside, rowVars
  <2>2. \A k \in Jobs : /\ RunBy(k, w, Owing) \/ RunBy(k, w, {"route"}) => k \in dropped'
                        /\ InQueue(k) => Carried(k)'
    BY <1>2, <2>1 DEF RunBy, Carried
  <2> QED BY <2>1, <2>2, TaskFrame
<1>8. CASE Crash
  <2>1. /\ UNCHANGED <<row, status, queue, retryReq>>
        /\ dropped' = dropped \cup {task[w].job : w \in {x \in Slot : task[x] # Idle}}
    BY <1>8 DEF Crash, rowVars
  <2>2. \A k \in Jobs, x \in Slot :
          RunBy(k, x, Owing) \/ RunBy(k, x, Owing \cup {"route"}) => k \in dropped'
    BY <2>1 DEF RunBy, Owing, Idle
  <2>3. \A k \in Jobs : Carried(k) => Carried(k)' \/ k \in dropped'
    BY <1>2, <2>1, <2>2 DEF Carried
  <2> QED BY <1>1, <2>1, <2>2, <2>3, OwnerFrame
<1>9. CASE \/ \E d \in Dispatchers : AcquirePermit(d)
           \/ RecoverScan \/ Shutdown \/ Exit \/ Restart \/ UNCHANGED vars
  BY <1>3, <1>9 DEF AcquirePermit, RecoverScan, Shutdown, Exit, Restart, rowVars, vars
<1> QED BY <1>4, <1>5, <1>6, <1>7, <1>8, <1>9, OwnerRunStep, OwnerSearch, OwnerRetry DEF Next

\* The inductive invariant behind the two theorems that follow: every status
\* a reader can see has somebody left who will change it.
THEOREM OwnerCorrect == Spec => []OwnerInv
<1>1. Init => OwnerInv
  BY DEF Init, OwnerInv, RunningIsOwned, LiveIsCarried, HiddenIsPending, Live, Visible
<1>2. TypeOK /\ OwnerInv /\ [Next]_vars => OwnerInv'
  BY OwnerStep
<1> QED BY <1>1, <1>2, TypeCorrect, PTL DEF Spec

\* A visible row that says "running" always has a live task that will write
\* its final status, or is one of those a crash or a failed call left behind.
THEOREM RunningIsOwnedCorrect == Spec => []RunningIsOwned
<1>1. OwnerInv => RunningIsOwned
  BY DEF OwnerInv
<1> QED BY <1>1, OwnerCorrect, PTL

\* A visible row that says "pending" always has a message, a task or a retry
\* request on its way, or lost one in one of the listed ways: nothing else
\* needs the recovery daemon.
THEOREM PendingIsCarriedCorrect == Spec => []PendingIsCarried
<1>1. OwnerInv => PendingIsCarried
  BY DEF OwnerInv, LiveIsCarried, PendingIsCarried, Live, Visible
<1> QED BY <1>1, OwnerCorrect, PTL
=============================================================================
