---------------------------- MODULE DaemonProofs ----------------------------
(***************************************************************************)
(* Theorems about the daemons that crawl on their own account, for any     *)
(* number of jobs, persons, profiles, crawls and kills: the people         *)
(* builder, the growth daemon and the freshness scheduler.                 *)
(***************************************************************************)
EXTENDS PeopleBuilder, GrowthDaemon, FreshnessScheduler, FiniteSetTheorems, FunctionTheorems,
        TLAPS

-----------------------------------------------------------------------------
(* PeopleBuilder: the inductive invariant.                                  *)

\* What may be said of a job whose end is decided.
Ends(j) == row[j] \in Final \/ j \in histB.killed \cup histB.halfway \cup histB.overwritten

\* Nothing cancels a job before its task runs.  Only a task that is through has a
\* final status of its own making; the flag is there because somebody writes, or has
\* written, the cancellation; and a task that leaves has written how it ended, or was
\* told to leave.
Settles(j) ==
    /\ task[j].pc \in {"none", "created"} => active[j] = "absent"
    /\ row[j] \in {"complete", "failed"} => task[j].pc \in {"leave", "over"}
    /\ active[j] = "cancelled" => j \in cancelling \/ Ends(j)
    /\ task[j].pc \in {"leave", "over"} => j \in cancelling \/ Ends(j)

\* A link that is not judged is one of the task's own, and after the filter its
\* person was gone.
Judged(j) == \A n \in Names : linked[j][n] = "built" =>
    /\ n \in task[j].built
    /\ row[j] = "complete" \/ task[j].pc \in {"expand?", "expand", "complete"} => <<j, n>> \in histB.gone

BuilderInv ==
    /\ BuilderTypeOK
    /\ \A j \in Builds : Settles(j) /\ Judged(j)

-----------------------------------------------------------------------------

LEMMA BuilderStarts == BuilderInit => BuilderInv
  BY BuilderAssumption
     DEF BuilderInit, BuilderInv, BuilderTypeOK, Settles, Judged, Ends, Status, Task, NoTask, PC, HistoryB

\* What the step of a job leaves as it was for another one.
Untouched(j) ==
    /\ row'[j] = row[j] /\ active'[j] = active[j] /\ task'[j] = task[j] /\ linked'[j] = linked[j]
    /\ j \in cancelling' <=> j \in cancelling
    /\ histB.killed \subseteq histB'.killed /\ histB.overwritten \subseteq histB'.overwritten
    /\ histB.halfway \subseteq histB'.halfway
    /\ histB.gone \subseteq histB'.gone

LEMMA BuilderFrame ==
    ASSUME NEW j \in Builds, Settles(j), Judged(j), Untouched(j)
    PROVE  Settles(j)' /\ Judged(j)'
  BY DEF Settles, Judged, Ends, Untouched

\* The next step of a task.
LEMMA ToStep ==
    ASSUME BuilderTypeOK, NEW j \in Builds, NEW pc \in PC, To(j, pc)
    PROVE  /\ task' \in [Builds -> Task] /\ task'[j].pc = pc /\ task'[j].built = task[j].built
           /\ \A i \in Builds \ {j} : task'[i] = task[i]
<1>1. task \in [Builds -> Task] /\ task[j] \in Task
  BY DEF BuilderTypeOK
<1>2. /\ task'[j] = [task[j] EXCEPT !.pc = pc] /\ task' = [task EXCEPT ![j] = task'[j]]
  BY <1>1 DEF To
<1>3. task'[j] \in Task /\ task'[j].pc = pc /\ task'[j].built = task[j].built
  BY <1>1, <1>2 DEF Task
<1> QED  BY <1>1, <1>2, <1>3

\* A status that is written over a cancellation is remembered.
LEMMA WriteStep ==
    ASSUME BuilderTypeOK, NEW j \in Builds, NEW s \in Status, Write(j, s)
    PROVE  /\ row' \in [Builds -> Status] /\ row'[j] = s /\ histB' \in HistoryB
           /\ \A i \in Builds \ {j} : row'[i] = row[i]
           /\ histB'.killed = histB.killed /\ histB'.halfway = histB.halfway /\ histB'.gone = histB.gone
           /\ histB.overwritten \subseteq histB'.overwritten
           /\ row[j] = "cancelled" => j \in histB'.overwritten
<1>1. /\ row \in [Builds -> Status] /\ histB \in HistoryB
      /\ histB.overwritten \subseteq Builds /\ row' = [row EXCEPT ![j] = s]
  BY DEF BuilderTypeOK, HistoryB, Write
<1>2. CASE row[j] = "cancelled"
  <2>1. histB' = [histB EXCEPT !.overwritten = @ \cup {j}]
    BY <1>2 DEF Write
  <2> QED  BY <1>1, <2>1 DEF HistoryB
<1>3. CASE row[j] # "cancelled"
  <2>1. histB' = histB
    BY <1>3 DEF Write
  <2> QED  BY <1>1, <1>3, <2>1
<1> QED  BY <1>2, <1>3

\* What a step of one job keeps.
OneJob(j) == BuilderTypeOK' /\ Settles(j)' /\ Judged(j)' /\ \A i \in Builds \ {j} : Untouched(i)

LEMMA StatusStep ==
    ASSUME BuilderInv, NEW j \in Builds, NEW at \in PC \ {"none", "created", "leave", "over"}, NEW s \in Status, NEW pc \in PC,
           Enter(j, at, s, pc),
           pc \in {"leave", "over"} <=> s \in Final,
           s = "complete" => at = "complete",
           pc \notin {"none", "created", "expand?", "complete"},
           pc = "expand" => at = "expand?"
    PROVE  OneJob(j)
<1>1. BuilderTypeOK /\ Settles(j) /\ Judged(j) /\ task[j].pc = at
  BY DEF BuilderInv, Enter, In
<1>2. /\ UNCHANGED <<people, active, cancelling, linked, kills>>
      /\ Write(j, s) /\ To(j, pc)
  BY DEF Enter
<1>3. BuilderTypeOK'
  BY <1>1, <1>2, WriteStep, ToStep DEF BuilderTypeOK
<1>4. Settles(j)'
  BY <1>1, <1>2, WriteStep, ToStep DEF Settles, Ends, Final
<1>5. Judged(j)'
  BY <1>1, <1>2, WriteStep, ToStep DEF Judged, Final
<1>6. \A i \in Builds \ {j} : Untouched(i)
  BY <1>1, <1>2, WriteStep, ToStep DEF Untouched
<1> QED  BY <1>3, <1>4, <1>5, <1>6 DEF OneJob

LEMMA FailedStep ==
    ASSUME BuilderInv, NEW j \in Builds,
           WriteFailed(j) \/ WriteFailedFails(j) \/ Fails(j) \/ LaunchFails(j) \/ CancelFails(j)
    PROVE  OneJob(j)
<1>1. BuilderTypeOK /\ Settles(j) /\ Judged(j)
  BY DEF BuilderInv
<1>2. "leave" \in PC /\ "failing" \in PC /\ "failed" \in Status
  BY DEF PC, Status, Final
<1>3. CASE WriteFailed(j)
  <2>1. /\ UNCHANGED <<people, active, cancelling, linked, kills>>
        /\ Write(j, "failed") /\ To(j, "leave") /\ task[j].pc = "failing"
    BY <1>3 DEF WriteFailed, In
  <2> QED
    BY <1>1, <1>2, <2>1, WriteStep, ToStep DEF OneJob, BuilderTypeOK, Settles, Ends, Judged, Final, Untouched
<1>4. CASE WriteFailedFails(j)
  <2>1. /\ UNCHANGED <<people, row, active, cancelling, linked>>
        /\ To(j, "leave") /\ task[j].pc = "failing"
        /\ kills' \in 0..MaxKills
    BY <1>1, <1>4, BuilderAssumption DEF WriteFailedFails, In, Kill, BuilderTypeOK
  <2>2. /\ histB' \in HistoryB /\ histB'.killed = histB.killed \cup {j}
        /\ histB'.overwritten = histB.overwritten /\ histB'.halfway = histB.halfway /\ histB'.gone = histB.gone
    BY <1>1, <1>4 DEF WriteFailedFails, BuilderTypeOK, HistoryB
  <2> QED
    BY <1>1, <1>2, <2>1, <2>2, ToStep DEF OneJob, BuilderTypeOK, Settles, Ends, Judged, Final, Untouched
<1>5. CASE Fails(j)
  <2>1. /\ UNCHANGED <<people, row, active, cancelling, linked, kills, histB>>
        /\ To(j, "failing") /\ task[j].pc \notin {"leave", "over"}
    BY <1>5 DEF Fails, Running
  <2> QED
    BY <1>1, <1>2, <2>1, ToStep DEF OneJob, BuilderTypeOK, Settles, Ends, Judged, Final, Untouched
<1>6. CASE LaunchFails(j)
  <2>1. /\ UNCHANGED <<people, row, active, cancelling, linked>>
        /\ To(j, "over") /\ task[j].pc = "created" /\ "over" \in PC
        /\ kills' \in 0..MaxKills
    BY <1>1, <1>6, BuilderAssumption DEF LaunchFails, In, Kill, BuilderTypeOK, PC
  <2>2. /\ histB' \in HistoryB /\ histB'.halfway = histB.halfway \cup {j} /\ histB'.killed = histB.killed
        /\ histB'.overwritten = histB.overwritten /\ histB'.gone = histB.gone
    BY <1>1, <1>6 DEF LaunchFails, BuilderTypeOK, HistoryB
  <2> QED
    BY <1>1, <2>1, <2>2, ToStep DEF OneJob, BuilderTypeOK, Settles, Ends, Judged, Final, Untouched
<1>7. CASE CancelFails(j)
  <2>1. /\ UNCHANGED <<people, row, active, task, linked>> /\ cancelling' = cancelling \ {j}
        /\ kills' \in 0..MaxKills
    BY <1>1, <1>7, BuilderAssumption DEF CancelFails, Kill, BuilderTypeOK
  <2>2. /\ histB' \in HistoryB /\ histB'.halfway = histB.halfway \cup {j} /\ histB'.killed = histB.killed
        /\ histB'.overwritten = histB.overwritten /\ histB'.gone = histB.gone
    BY <1>1, <1>7 DEF CancelFails, BuilderTypeOK, HistoryB
  <2> QED
    BY <1>1, <2>1, <2>2 DEF OneJob, BuilderTypeOK, Settles, Ends, Judged, Untouched
<1> QED  BY <1>3, <1>4, <1>5, <1>6, <1>7

\* What a filter that finds some persons gone and sees the others does.
Filtered(j, gone, seen, good, passed) ==
    /\ Cancelled(j) \/ seen = task[j].built \ gone
    /\ linked' = [linked EXCEPT ![j] = [n \in Names |->
           IF n \in good THEN "filtered_in" ELSE IF n \in seen THEN "filtered_out" ELSE @[n]]]
    /\ task' = [task EXCEPT ![j].pc = Proceed(j, "expand?"), ![j].passed = passed]
    /\ histB' = [histB EXCEPT !.gone = @ \cup ({j} \X gone)]

\* The job that moves.
LEMMA BuilderMoves ==
    ASSUME BuilderInv, NEW j \in Builds,
           \/ Create(j) \/ Launch(j) \/ Cancel(j) \/ CancelCommit(j)
           \/ Pipeline(j) \/ Fails(j) \/ WriteFailedFails(j) \/ LaunchFails(j) \/ CancelFails(j)
    PROVE  OneJob(j)
<1>1. BuilderTypeOK /\ Settles(j) /\ Judged(j) /\ task[j] \in Task
  BY DEF BuilderInv, BuilderTypeOK
<1>2. CASE Create(j)
  <2>1. /\ row' = [row EXCEPT ![j] = "pending"] /\ To(j, "created") /\ task[j].pc = "none"
        /\ UNCHANGED <<people, active, cancelling, linked, kills, histB>>
    BY <1>2 DEF Create, In
  <2>2. "created" \in PC /\ "pending" \in Status
    BY DEF PC, Status
  <2> QED
    BY <1>1, <2>1, <2>2, ToStep DEF OneJob, BuilderTypeOK, Settles, Ends, Judged, Final, Untouched
<1>3. CASE Launch(j)
  <2>1. /\ active' = [active EXCEPT ![j] = "running"] /\ To(j, "start") /\ task[j].pc = "created"
        /\ UNCHANGED <<people, row, cancelling, linked, kills, histB>>
    BY <1>3 DEF Launch, In
  <2>2. "start" \in PC
    BY DEF PC
  <2> QED
    BY <1>1, <2>1, <2>2, ToStep DEF OneJob, BuilderTypeOK, Settles, Ends, Judged, Final, Untouched
<1>4. CASE Cancel(j) \/ CancelCommit(j)
  BY <1>1, <1>4
     DEF Cancel, CancelCommit, OneJob, BuilderTypeOK, Settles, Ends, Judged, Status, Final, Untouched
<1>5. CASE EnterDiscover(j) \/ EnterBuild(j) \/ EnterFilter(j) \/ EnterExpand(j) \/ EnterComplete(j)
  <2>1. {"discovering", "building", "filtering", "expanding", "complete"} \subseteq Status
    BY DEF Status, Final
  <2>2. {"start", "build?", "filter?", "expand?", "complete", "discover", "build", "filter", "expand",
         "leave"} \subseteq PC
    BY DEF PC
  <2> QED
    BY <1>5, <2>1, <2>2, StatusStep
       DEF EnterDiscover, EnterBuild, EnterFilter, EnterExpand, EnterComplete, Final
<1>6. CASE EndBuild(j) \/ Expand(j) \/ Leave(j)
  <2>1. {"filter?", "complete", "leave", "over"} \subseteq PC
    BY DEF PC
  <2>2. CASE EndBuild(j)
    <3>1. /\ To(j, Proceed(j, "filter?")) /\ task[j].pc = "build"
          /\ UNCHANGED <<people, row, active, cancelling, linked, kills, histB>>
      BY <2>2 DEF EndBuild, In
    <3>2. \/ Proceed(j, "filter?") = "leave" /\ active[j] = "cancelled"
          \/ Proceed(j, "filter?") = "filter?"
      BY DEF Proceed, Cancelled
    <3> QED
      BY <1>1, <2>1, <3>1, <3>2, ToStep DEF OneJob, BuilderTypeOK, Settles, Ends, Judged, Final, Untouched
  <2>3. CASE Expand(j)
    BY <1>1, <2>1, <2>3, ToStep
       DEF Expand, In, OneJob, BuilderTypeOK, Settles, Ends, Judged, Final, Untouched
  <2>4. CASE Leave(j)
    BY <1>1, <2>1, <2>4, ToStep
       DEF Leave, In, OneJob, BuilderTypeOK, Settles, Ends, Judged, Final, Untouched
  <2> QED  BY <1>6, <2>2, <2>3, <2>4
<1>7. CASE Discover(j)
  <2>1. PICK found \in SUBSET Names :
            task' = [task EXCEPT ![j].pc = Proceed(j, "build?"), ![j].todo = found]
    BY <1>7 DEF Discover
  <2>2. /\ UNCHANGED <<people, row, active, cancelling, linked, kills, histB>> /\ task[j].pc = "discover"
    BY <1>7 DEF Discover, In
  <2>3. \/ Proceed(j, "build?") = "leave" /\ active[j] = "cancelled"
        \/ Proceed(j, "build?") = "build?"
    BY DEF Proceed, Cancelled
  <2>4. /\ task' \in [Builds -> Task] /\ task'[j].pc = Proceed(j, "build?") /\ task'[j].built = task[j].built
        /\ \A i \in Builds \ {j} : task'[i] = task[i]
    <3>1. task'[j] = [task[j] EXCEPT !.pc = Proceed(j, "build?"), !.todo = found] 
      BY <1>1, <2>1 DEF BuilderTypeOK
    <3>2. task'[j] \in Task /\ task'[j].pc = Proceed(j, "build?") /\ task'[j].built = task[j].built
      BY <1>1, <2>3, <3>1 DEF Task, PC
    <3> QED  BY <1>1, <2>1, <3>2 DEF BuilderTypeOK
  <2> QED
    BY <1>1, <2>2, <2>3, <2>4 DEF OneJob, BuilderTypeOK, Settles, Ends, Judged, Final, Untouched
<1>8. CASE LookUp(j)
  <2>1. PICK n \in task[j].todo, new \in BOOLEAN :
            task' = [task EXCEPT ![j].pc = "insert", ![j].todo = @ \ {n}, ![j].name = {n},
                                 ![j].create = new]
    <3>1. PICK n \in task[j].todo :
              task' = [task EXCEPT ![j].pc = "insert", ![j].todo = @ \ {n}, ![j].name = {n},
                                   ![j].create = people[n] = 0]
      BY <1>8 DEF LookUp
    <3>2. (people[n] = 0) \in BOOLEAN
      OBVIOUS
    <3> QED  BY <3>1, <3>2, Zenon
  <2>2. /\ UNCHANGED <<people, row, active, cancelling, linked, kills, histB>> /\ task[j].pc = "build"
    BY <1>8 DEF LookUp, In
  <2>4. /\ task' \in [Builds -> Task] /\ task'[j].pc = "insert" /\ task'[j].built = task[j].built
        /\ \A i \in Builds \ {j} : task'[i] = task[i]
    <3>1. task'[j] = [task[j] EXCEPT !.pc = "insert", !.todo = @ \ {n}, !.name = {n}, !.create = new]
      BY <1>1, <2>1 DEF BuilderTypeOK
    <3>2. /\ {n} \in SUBSET Names /\ task[j].todo \ {n} \in SUBSET Names /\ "insert" \in PC
      BY <1>1 DEF Task, PC
    <3>3. task'[j] = [pc |-> "insert", todo |-> task[j].todo \ {n}, name |-> {n}, create |-> new,
                      built |-> task[j].built, passed |-> task[j].passed]
      BY <1>1, <3>1 DEF Task
    <3>4. task[j].built \in SUBSET Names /\ task[j].passed \in SUBSET Names
      BY <1>1 DEF Task
    <3>5. task'[j] \in Task
      <4>1. CASE new = TRUE
        BY <3>2, <3>3, <3>4, <4>1 DEF Task
      <4>2. CASE new = FALSE
        BY <3>2, <3>3, <3>4, <4>2 DEF Task
      <4> QED  BY <2>1, <4>1, <4>2
    <3>6. task'[j].pc = "insert" /\ task'[j].built = task[j].built
      BY <3>3
    <3> QED  BY <1>1, <2>1, <3>5, <3>6 DEF BuilderTypeOK
  <2> QED
    BY <1>1, <2>2, <2>4 DEF OneJob, BuilderTypeOK, Settles, Ends, Judged, Final, Untouched
<1>9. CASE Insert(j)
  <2>1. PICK n \in task[j].name :
            /\ people' = IF task[j].create THEN [people EXCEPT ![n] = @ + 1] ELSE people
            /\ linked' = [linked EXCEPT ![j][n] = "built"]
            /\ task' = [task EXCEPT ![j].pc = "build", ![j].built = @ \cup {n}, ![j].name = {}]
    BY <1>9 DEF Insert
  <2>2. /\ UNCHANGED <<row, active, cancelling, kills, histB>> /\ task[j].pc = "insert" /\ n \in Names
    BY <1>1, <1>9 DEF Insert, In, Task
  <2>3. people' \in [Names -> Nat]
    BY <1>1, <2>1, <2>2 DEF BuilderTypeOK
  <2>4. /\ task' \in [Builds -> Task] /\ task'[j].pc = "build" /\ task'[j].built = task[j].built \cup {n}
        /\ \A i \in Builds \ {j} : task'[i] = task[i]
    <3>1. task'[j] = [task[j] EXCEPT !.pc = "build", !.built = @ \cup {n}, !.name = {}]
      BY <1>1, <2>1 DEF BuilderTypeOK
    <3>2. task[j].built \cup {n} \subseteq Names /\ "build" \in PC
      BY <1>1, <2>2 DEF Task, PC
    <3>3. task'[j] \in Task /\ task'[j].pc = "build" /\ task'[j].built = task[j].built \cup {n}
      BY <1>1, <3>1, <3>2 DEF Task
    <3> QED  BY <1>1, <2>1, <3>3 DEF BuilderTypeOK
  <2>5. /\ linked' \in [Builds -> [Names -> {"none", "built", "filtered_in", "filtered_out"}]]
        /\ \A i \in Builds \ {j} : linked'[i] = linked[i]
        /\ \A m \in Names \ {n} : linked'[j][m] = linked[j][m]
    BY <1>1, <2>1, <2>2 DEF BuilderTypeOK
  <2> QED
    BY <1>1, <2>2, <2>3, <2>4, <2>5 DEF OneJob, BuilderTypeOK, Settles, Ends, Judged, Final, Untouched
<1>10. CASE Filter(j)
  <2>1. task[j].built \subseteq Names
    BY <1>1 DEF Task
  <2>2. PICK gone, seen, good, passed \in SUBSET Names :
            good \subseteq seen /\ Filtered(j, gone, seen, good, passed)
    <3>1. \E gone \in SUBSET task[j].built : \E seen \in SUBSET (task[j].built \ gone) :
              \E good \in SUBSET seen : \E passed \in SUBSET good : Filtered(j, gone, seen, good, passed)
      BY <1>10, Zenon DEF Filter, Filtered
    <3> QED  BY <2>1, <3>1
  <2>3. /\ UNCHANGED <<people, row, active, cancelling, kills>> /\ task[j].pc = "filter"
    BY <1>10 DEF Filter, In
  <2>4. \/ Proceed(j, "expand?") = "leave" /\ active[j] = "cancelled"
        \/ Proceed(j, "expand?") = "expand?" /\ seen = task[j].built \ gone
    BY <2>2 DEF Filtered, Proceed, Cancelled
  <2>5. /\ task' \in [Builds -> Task] /\ task'[j].pc = Proceed(j, "expand?")
        /\ task'[j].built = task[j].built /\ \A i \in Builds \ {j} : task'[i] = task[i]
    <3>1. task'[j] = [task[j] EXCEPT !.pc = Proceed(j, "expand?"), !.passed = passed]
      BY <1>1, <2>2 DEF Filtered, BuilderTypeOK
    <3>2. task'[j] \in Task /\ task'[j].pc = Proceed(j, "expand?") /\ task'[j].built = task[j].built
      BY <1>1, <2>2, <2>4, <3>1 DEF Task, PC
    <3> QED  BY <1>1, <2>2, <3>2 DEF Filtered, BuilderTypeOK
  <2>6. /\ histB' \in HistoryB /\ histB'.gone = histB.gone \cup ({j} \X gone)
        /\ histB'.killed = histB.killed /\ histB'.overwritten = histB.overwritten
        /\ histB'.halfway = histB.halfway
    BY <1>1, <2>2 DEF Filtered, BuilderTypeOK, HistoryB
  <2>7. /\ linked' \in [Builds -> [Names -> {"none", "built", "filtered_in", "filtered_out"}]]
        /\ \A i \in Builds \ {j} : linked'[i] = linked[i]
        /\ \A n \in Names : linked'[j][n] = "built" => n \notin seen /\ linked[j][n] = "built"
    BY <1>1, <2>2 DEF Filtered, BuilderTypeOK
  <2>8. BuilderTypeOK'
    BY <1>1, <2>3, <2>5, <2>6, <2>7 DEF BuilderTypeOK
  <2>9. Settles(j)'
    BY <1>1, <2>3, <2>4, <2>5, <2>6 DEF Settles, Ends, Final
  <2>10. Judged(j)'
    BY <1>1, <2>3, <2>4, <2>5, <2>6, <2>7 DEF Judged, Settles
  <2>11. \A i \in Builds \ {j} : Untouched(i)
    BY <2>3, <2>5, <2>6, <2>7 DEF Untouched
  <2> QED  BY <2>8, <2>9, <2>10, <2>11 DEF OneJob
<1> QED  BY <1>2, <1>3, <1>4, <1>5, <1>6, <1>7, <1>8, <1>9, <1>10, FailedStep DEF Pipeline

\* The kill of the process ends every task and accounts for it.
LEMMA BuilderKilled ==
    ASSUME BuilderInv, KillApi
    PROVE  BuilderInv'
<1> DEFINE alive == {j \in Builds : task[j].pc \notin {"none", "over"}}
<1>1. BuilderTypeOK
  BY DEF BuilderInv
<1>2. /\ UNCHANGED <<people, row, linked>>
      /\ active' = [j \in Builds |-> "absent"] /\ cancelling' = {} /\ kills' \in 0..MaxKills
  BY <1>1, BuilderAssumption DEF KillApi, Kill, BuilderTypeOK
<1>3. /\ histB' \in HistoryB /\ histB'.killed = histB.killed \cup alive \cup cancelling
      /\ histB'.overwritten = histB.overwritten /\ histB'.halfway = histB.halfway /\ histB'.gone = histB.gone
  BY <1>1 DEF KillApi, BuilderTypeOK, HistoryB
<1>4. task' = [j \in Builds |-> IF j \in alive THEN [task[j] EXCEPT !.pc = "over"] ELSE task[j]]
  BY DEF KillApi
<1> HIDE DEF alive
<1>5. ASSUME NEW j \in Builds
      PROVE  task'[j] \in Task /\ task'[j].built = task[j].built
             /\ (task'[j].pc = task[j].pc \/ (task'[j].pc = "over" /\ j \in alive))
  <2>1. task[j] \in Task
    BY <1>1 DEF BuilderTypeOK
  <2>2. CASE j \in alive
    BY <1>4, <2>1, <2>2 DEF Task, PC
  <2>3. CASE j \notin alive
    <3>1. task'[j] = task[j]
      BY <1>4, <2>3
    <3> QED  BY <2>1, <3>1
  <2> QED  BY <2>2, <2>3
<1>6. BuilderTypeOK'
  BY <1>1, <1>2, <1>3, <1>4, <1>5 DEF BuilderTypeOK
<1>7. ASSUME NEW j \in Builds PROVE Settles(j)'
  <2>1. Settles(j)
    BY DEF BuilderInv
  <2>2. j \in alive \/ task[j].pc \in {"none", "over"}
    BY DEF alive
  <2> QED  BY <1>2, <1>3, <1>5, <2>1, <2>2 DEF Settles, Ends
<1>8. ASSUME NEW j \in Builds PROVE Judged(j)'
  BY <1>2, <1>3, <1>5 DEF Judged, BuilderInv
<1> QED  BY <1>6, <1>7, <1>8 DEF BuilderInv

LEMMA BuilderStep == BuilderInv /\ [BuilderNext]_builderVars => BuilderInv'
<1> SUFFICES ASSUME BuilderInv, [BuilderNext]_builderVars PROVE BuilderInv'
  OBVIOUS
<1>1. CASE UNCHANGED builderVars
  BY <1>1 DEF builderVars, BuilderInv, BuilderTypeOK, Settles, Judged, Ends, In
<1>2. CASE KillApi
  BY <1>2, BuilderKilled
<1>3. ASSUME NEW i \in Builds,
             \/ Create(i) \/ Launch(i) \/ Cancel(i) \/ CancelCommit(i)
             \/ Pipeline(i) \/ Fails(i) \/ WriteFailedFails(i) \/ LaunchFails(i) \/ CancelFails(i)
      PROVE  BuilderInv'
  <2>1. OneJob(i)
    BY <1>3, BuilderMoves
  <2>2. ASSUME NEW j \in Builds, j # i PROVE Settles(j)' /\ Judged(j)'
    BY <2>1, <2>2, BuilderFrame DEF BuilderInv, OneJob
  <2> QED  BY <2>1, <2>2 DEF BuilderInv, OneJob
<1> QED  BY <1>1, <1>2, <1>3 DEF BuilderNext

LEMMA BuilderInvariant == BuilderSpec => []BuilderInv
  BY BuilderStarts, BuilderStep, PTL DEF BuilderSpec

\* The rows, tasks and histories of builder jobs keep their types
\* (discovery_engine.py:45-147).
THEOREM BuilderTypeCorrect == BuilderSpec => []BuilderTypeOK
<1>1. BuilderInv => BuilderTypeOK
  BY DEF BuilderInv
<1> QED  BY <1>1, BuilderInvariant, PTL

\* Whatever the interleaving of tasks, cancellations and kills, a job that nobody
\* works on has a final status or a history that says why not
\* (discovery_engine.py:72-147).
THEOREM SettledCorrect == BuilderSpec => []SettledUnlessRaced
<1>1. BuilderInv => SettledUnlessRaced
  BY DEF BuilderInv, SettledUnlessRaced, Settles, Ends, In
<1> QED  BY <1>1, BuilderInvariant, PTL

\* Every person a complete job built was judged by its filter or is gone
\* (builder.py:117-123).
THEOREM CompleteIsFilteredCorrect == BuilderSpec => []CompleteIsFiltered
<1>1. BuilderInv => CompleteIsFiltered
  BY DEF BuilderInv, CompleteIsFiltered, Judged
<1> QED  BY <1>1, BuilderInvariant, PTL

-----------------------------------------------------------------------------
(* GrowthDaemon: bags.                                                      *)

\* Copies make a bag, and bags are added and taken away.
LEMMA CopiesIsABag ==
    ASSUME NEW n \in Nat, NEW e
    PROVE  IsABag(Copies(n, e)) /\ BagToSet(Copies(n, e)) \subseteq {e}
<1>1. CASE n = 0
  BY <1>1 DEF Copies, EmptyBag, SetToBag, IsABag, BagToSet
<1>2. CASE n # 0
  BY <1>2 DEF Copies, IsABag, BagToSet
<1> QED  BY <1>1, <1>2

LEMMA AddedIsABag ==
    ASSUME NEW B1, NEW B2, IsABag(B1), IsABag(B2)
    PROVE  IsABag(B1 (+) B2) /\ BagToSet(B1 (+) B2) = BagToSet(B1) \cup BagToSet(B2)
  BY DEF IsABag, BagToSet, (+)

LEMMA TakenIsABag ==
    ASSUME NEW B1, NEW B2, IsABag(B1), IsABag(B2)
    PROVE  IsABag(B1 (-) B2) /\ BagToSet(B1 (-) B2) \subseteq BagToSet(B1)
  BY DEF IsABag, BagToSet, (-)

-----------------------------------------------------------------------------
(* GrowthDaemon: the inductive invariant.                                   *)

\* What the fan-out under way has pushed.
InFlight == IF daemon = Waiting THEN 0 ELSE daemon.dispatched

\* The jobs of today are in the counter, in the fan-out under way or among those the
\* counter never gets to know; before the first event of the day all of them are
\* such.  A fan-out begins below the cap and pushes no more than its limit.
Counted ==
    /\ grown.today <= grown.uncounted + (IF marker = today THEN count + InFlight ELSE 0)
    /\ count < MaxDaily + MaxFanout
    /\ daemon # Waiting => count < MaxDaily

\* The jobs that may be there, and hands that have looked at each identifier once.
JobOK(job) == job \in Job /\ job.depth <= MaxDepth /\ job.tries <= MaxRetries + refusals
JobsOK     == IsABag(jobs) /\ \A job \in BagToSet(jobs) : JobOK(job)
Apart(h)   == /\ h.kept \cap (h.todo \cup h.next) = {} /\ h.todo \cap h.next = {}
              /\ \A v, w \in h.next : v = w
HandsOK    == /\ hand \in [Pivoters -> Pivoting \cup {Free}]
              /\ \A i \in Pivoters : hand[i] # Free => Apart(hand[i])

CrawlsOK ==
    /\ known \in [Persons -> SUBSET Values]
    /\ JobsOK /\ HandsOK
    /\ IsABag(results) /\ BagToSet(results) \subseteq Persons
    /\ events \in Seq(Event)
    /\ recent \subseteq Persons
    /\ searches \in 0..MaxSearches /\ refusals \in 0..MaxRefusals /\ faultsG \in Nat

NumbersOK ==
    /\ daemon = Waiting \/ daemon \in FanOutState
    /\ daemon # Waiting => daemon.dispatched <= MaxFanout /\ daemon.depth < MaxDepth
    /\ count \in Nat /\ marker \in 0..today /\ today \in 1..(MaxDays + 1)
    /\ grown \in Grown

GrowthInv == CrawlsOK /\ NumbersOK /\ Counted

-----------------------------------------------------------------------------

LEMMA GrowthStarts == GrowthInit => GrowthInv
<1> SUFFICES ASSUME GrowthInit PROVE GrowthInv
  OBVIOUS
<1>1. IsABag(EmptyBag) /\ BagToSet(EmptyBag) = {}
  BY DEF EmptyBag, SetToBag, IsABag, BagToSet
<1>2. CrawlsOK
  BY <1>1, GrowthAssumption DEF GrowthInit, CrawlsOK, JobsOK, HandsOK
<1>3. NumbersOK /\ Counted
  BY GrowthAssumption DEF GrowthInit, NumbersOK, Counted, InFlight, Grown
<1> QED  BY <1>2, <1>3 DEF GrowthInv

\* Searches, announcements, crawls and results do not touch what the daemon counts.
LEMMA CountingFrame ==
    ASSUME NumbersOK, Counted, UNCHANGED <<daemon, count, marker, today, grown>>
    PROVE  NumbersOK' /\ Counted'
  BY DEF NumbersOK, Counted, InFlight

\* Jobs that are pushed, taken and queued again.
LEMMA PushedJobs ==
    ASSUME CrawlsOK, NEW n \in Nat, NEW p \in Persons, NEW d \in 0..MaxDepth,
           jobs' = jobs (+) Copies(n, First(p, d)), refusals' = refusals
    PROVE  JobsOK'
<1>1. IsABag(jobs) /\ IsABag(Copies(n, First(p, d))) /\ BagToSet(Copies(n, First(p, d))) \subseteq {First(p, d)}
  BY CopiesIsABag DEF CrawlsOK, JobsOK
<1>2. IsABag(jobs') /\ BagToSet(jobs') \subseteq BagToSet(jobs) \cup {First(p, d)}
  BY <1>1, AddedIsABag
<1>3. JobOK(First(p, d))
  BY GrowthAssumption DEF CrawlsOK, JobOK, Job, First
<1> QED  BY <1>2, <1>3 DEF CrawlsOK, JobsOK, JobOK

LEMMA TakenJobs ==
    ASSUME CrawlsOK, NEW job, jobs' = jobs (-) Copies(1, job), refusals' = refusals
    PROVE  JobsOK'
<1>1. IsABag(jobs') /\ BagToSet(jobs') \subseteq BagToSet(jobs)
  BY CopiesIsABag, TakenIsABag DEF CrawlsOK, JobsOK
<1> QED  BY <1>1 DEF CrawlsOK, JobsOK, JobOK

LEMMA RequeuedJobs ==
    ASSUME CrawlsOK, NEW job \in BagToSet(jobs), jobs' = Requeued(job),
           refusals' = refusals + 1 \/ (refusals' = refusals /\ job.tries < MaxRetries)
    PROVE  JobsOK'
<1> PICK B : B = jobs (-) Copies(1, job)
  OBVIOUS
<1> PICK e : e = Again(job)
  OBVIOUS
<1>1. IsABag(B) /\ BagToSet(B) \subseteq BagToSet(jobs)
  BY CopiesIsABag, TakenIsABag DEF CrawlsOK, JobsOK
<1>2. IsABag(Copies(1, e)) /\ BagToSet(Copies(1, e)) \subseteq {e}
  BY CopiesIsABag
<1>3. jobs' = B (+) Copies(1, e)
  BY DEF Requeued
<1>4. IsABag(jobs') /\ BagToSet(jobs') \subseteq BagToSet(jobs) \cup {e}
  BY <1>1, <1>2, <1>3, AddedIsABag
<1>5. JobOK(job) /\ refusals \in Nat
  BY GrowthAssumption DEF CrawlsOK, JobsOK
<1>6. job \in Job /\ job.tries \in Nat /\ e \in Job /\ e.depth = job.depth /\ e.tries = job.tries + 1
  BY <1>5 DEF JobOK, Job, Again
<1>7. JobOK(e)'
  BY <1>5, <1>6, GrowthAssumption DEF JobOK
<1>8. \A j \in BagToSet(jobs) : JobOK(j)'
  <2> TAKE j \in BagToSet(jobs)
  <2>1. JobOK(j) /\ refusals <= refusals'
    BY <1>5 DEF CrawlsOK, JobsOK
  <2>2. j.tries \in Nat
    BY <2>1 DEF JobOK, Job
  <2> QED  BY <1>5, <2>1, <2>2, GrowthAssumption DEF JobOK
<1> QED  BY <1>4, <1>7, <1>8 DEF JobsOK

LEMMA SearchStep ==
    ASSUME GrowthInv, NEW p \in Persons, NEW v \in Values, Search(p, v)
    PROVE  GrowthInv'
<1>1. CrawlsOK /\ jobs' = jobs (+) Copies(1, First(p, 0)) /\ refusals' = refusals
  BY DEF Search, GrowthInv
<1>2. JobsOK'
  BY <1>1, PushedJobs, GrowthAssumption
<1>3. CrawlsOK'
  BY <1>1, <1>2, GrowthAssumption DEF Search, CrawlsOK, HandsOK, dailyVars
<1> QED  BY <1>3, CountingFrame DEF Search, GrowthInv, dailyVars

LEMMA CrawlsStep ==
    ASSUME GrowthInv, Crawls
    PROVE  GrowthInv'
<1>1. PICK job \in BagToSet(jobs) :
          CrawlFinds(job) \/ CrawlFindsNothing(job) \/ CrawlRefused(job) \/ CrawlRaises(job)
  BY DEF Crawls
<1>2. /\ CrawlsOK /\ NumbersOK /\ Counted
      /\ UNCHANGED <<known, hand, daemon, count, marker, today, recent, grown, searches, faultsG>>
  BY <1>1 DEF GrowthInv, CrawlFinds, CrawlFindsNothing, CrawlRefused, CrawlRaises, dailyVars
<1>3. job \in Job /\ job.person \in Persons /\ job.depth \in Nat
  BY <1>2 DEF CrawlsOK, JobsOK, JobOK, Job
<1>4. JobsOK' /\ refusals' \in 0..MaxRefusals
  <2>1. CASE CrawlFinds(job) \/ CrawlFindsNothing(job)
    BY <1>2, <2>1, TakenJobs DEF CrawlFinds, CrawlFindsNothing, CrawlsOK
  <2>2. CASE CrawlRefused(job)
    BY <1>2, <2>2, RequeuedJobs, GrowthAssumption DEF CrawlRefused, CrawlsOK
  <2>3. CASE CrawlRaises(job)
    BY <1>2, <2>3, RequeuedJobs, TakenJobs DEF CrawlRaises, CrawlsOK
  <2> QED  BY <1>1, <2>1, <2>2, <2>3
<1>5. IsABag(results') /\ BagToSet(results') \subseteq Persons
  <2>1. results' = results \/ \E n \in {0, 1} : results' = results (+) Copies(n, job.person)
    BY <1>1 DEF CrawlFinds, CrawlFindsNothing, CrawlRefused, CrawlRaises
  <2>2. CASE results' = results
    BY <1>2, <2>2 DEF CrawlsOK
  <2>3. ASSUME NEW n \in {0, 1}, results' = results (+) Copies(n, job.person)
        PROVE  IsABag(results') /\ BagToSet(results') \subseteq Persons
    <3>1. n \in Nat /\ IsABag(results) /\ BagToSet(results) \subseteq Persons
      BY <1>2 DEF CrawlsOK
    <3>2. IsABag(Copies(n, job.person)) /\ BagToSet(Copies(n, job.person)) \subseteq {job.person}
      BY <3>1, CopiesIsABag
    <3> QED  BY <1>3, <2>3, <3>1, <3>2, AddedIsABag
  <2> QED  BY <2>1, <2>2, <2>3
<1>6. events' \in Seq(Event)
  <2>1. [person |-> job.person, depth |-> job.depth] \in Event
    BY <1>3 DEF Event
  <2>2. events' = events \/ events' = Append(events, [person |-> job.person, depth |-> job.depth])
    BY <1>1 DEF CrawlFinds, CrawlFindsNothing, CrawlRefused, CrawlRaises
  <2> QED  BY <1>2, <2>1, <2>2 DEF CrawlsOK
<1>7. CrawlsOK'
  BY <1>2, <1>4, <1>5, <1>6 DEF CrawlsOK, HandsOK
<1> QED  BY <1>2, <1>7, CountingFrame DEF GrowthInv

-----------------------------------------------------------------------------
(* GrowthDaemon: the ingesters.                                             *)

\* One hand that moves.
LEMMA HandStep ==
    ASSUME HandsOK, NEW i \in Pivoters, NEW h \in Pivoting \cup {Free}, h = Free \/ Apart(h),
           hand' = [hand EXCEPT ![i] = h]
    PROVE  HandsOK' /\ hand'[i] = h /\ \A k \in Pivoters \ {i} : hand'[k] = hand[k]
  BY DEF HandsOK, Apart

\* What the steps of a hand do to it.
LEMMA HandMoves ==
    ASSUME CrawlsOK, NEW i \in Pivoters
    PROVE  /\ \A p \in Persons : Take(i, p) =>
                  \E h \in Pivoting : /\ Apart(h) /\ hand' = [hand EXCEPT ![i] = h] /\ hand[i] = Free
                                      /\ h.person = p /\ h.next = {} /\ h.kept = {}
           /\ hand[i] # Free => hand[i] \in Pivoting /\ Apart(hand[i]) /\ hand[i].person \in Persons
           /\ Look(i) =>
                  \E h \in Pivoting, v \in hand[i].todo :
                      /\ Apart(h) /\ hand' = [hand EXCEPT ![i] = h] /\ hand[i] # Free
                      /\ h.person = hand[i].person /\ h.kept = hand[i].kept /\ h.todo = hand[i].todo \ {v}
                      /\ h.next = {v} \ known[h.person] /\ hand[i].next = {}
           /\ \A kept \in SUBSET (hand[i].kept \cup hand[i].next) : Pivot(i, kept) =>
                  \E h \in Pivoting :
                      /\ Apart(h) /\ hand' = [hand EXCEPT ![i] = h] /\ hand[i] # Free
                      /\ h.person = hand[i].person /\ h.kept = kept /\ h.todo = hand[i].todo
                      /\ h.next = {} /\ hand[i].next # {}
<1>1. hand \in [Pivoters -> Pivoting \cup {Free}] /\ (hand[i] # Free => Apart(hand[i]))
  BY DEF CrawlsOK, HandsOK
<1>2. ASSUME NEW p \in Persons, Take(i, p)
      PROVE  \E h \in Pivoting : /\ Apart(h) /\ hand' = [hand EXCEPT ![i] = h] /\ hand[i] = Free
                                 /\ h.person = p /\ h.next = {} /\ h.kept = {}
  <2>1. PICK found \in SUBSET Values :
            hand' = [hand EXCEPT ![i] = [person |-> p, todo |-> found, next |-> {}, kept |-> {}]]
    BY <1>2 DEF Take
  <2>2. [person |-> p, todo |-> found, next |-> {}, kept |-> {}] \in Pivoting
    BY DEF Pivoting
  <2> QED  BY <1>2, <2>1, <2>2 DEF Take, Apart
<1>3. hand[i] # Free => hand[i] \in Pivoting /\ Apart(hand[i]) /\ hand[i].person \in Persons
  BY <1>1 DEF Pivoting
<1>4. ASSUME Look(i)
      PROVE  \E h \in Pivoting, v \in hand[i].todo :
                 /\ Apart(h) /\ hand' = [hand EXCEPT ![i] = h] /\ hand[i] # Free
                 /\ h.person = hand[i].person /\ h.kept = hand[i].kept /\ h.todo = hand[i].todo \ {v}
                 /\ h.next = {v} \ known[h.person] /\ hand[i].next = {}
  <2>1. PICK v \in hand[i].todo :
            /\ hand[i] # Free /\ hand[i].next = {}
            /\ hand' = [hand EXCEPT ![i].todo = @ \ {v}, ![i].next = {v} \ known[hand[i].person]]
    BY <1>4 DEF Look
  <2> PICK h : h = [hand[i] EXCEPT !.todo = @ \ {v}, !.next = {v} \ known[hand[i].person]]
    OBVIOUS
  <2>2. /\ h \in Pivoting /\ h.person = hand[i].person /\ h.kept = hand[i].kept
        /\ h.todo = hand[i].todo \ {v} /\ h.next = {v} \ known[hand[i].person]
    BY <1>3, <2>1 DEF Pivoting
  <2>3. hand' = [hand EXCEPT ![i] = h]
    BY <1>1, <2>1
  <2>4. Apart(h)
    BY <1>3, <2>1, <2>2 DEF Apart
  <2> QED  BY <2>1, <2>2, <2>3, <2>4
<1>5. ASSUME NEW kept \in SUBSET (hand[i].kept \cup hand[i].next), Pivot(i, kept)
      PROVE  \E h \in Pivoting :
                 /\ Apart(h) /\ hand' = [hand EXCEPT ![i] = h] /\ hand[i] # Free
                 /\ h.person = hand[i].person /\ h.kept = kept /\ h.todo = hand[i].todo
                 /\ h.next = {} /\ hand[i].next # {}
  <2>1. /\ hand[i] # Free /\ hand[i].next # {}
        /\ hand' = [hand EXCEPT ![i].next = {}, ![i].kept = kept]
    BY <1>5 DEF Pivot
  <2> PICK h : h = [hand[i] EXCEPT !.next = {}, !.kept = kept]
    OBVIOUS
  <2>2. /\ h \in Pivoting /\ h.person = hand[i].person /\ h.kept = kept
        /\ h.todo = hand[i].todo /\ h.next = {}
    BY <1>3, <2>1 DEF Pivoting
  <2>3. hand' = [hand EXCEPT ![i] = h]
    BY <1>1, <2>1
  <2>4. Apart(h)
    BY <1>3, <2>1, <2>2 DEF Apart
  <2> QED  BY <2>1, <2>2, <2>3, <2>4
<1> QED  BY <1>2, <1>3, <1>4, <1>5

\* The rows a transaction has after an insert.
KeptBy(i) == IF hand[i].next \subseteq known[hand[i].person] THEN {} ELSE hand[i].kept \cup hand[i].next

LEMMA IngestsStep ==
    ASSUME GrowthInv, Ingests \/ \E i \in Pivoters : PivotsLost(i)
    PROVE  GrowthInv'
<1>1. PICK i \in Pivoters : \/ \E p \in BagToSet(results) : Take(i, p)
                            \/ Look(i) \/ Store(i) \/ StoreFails(i) \/ CommitPivots(i) \/ PivotsLost(i)
  BY DEF Ingests
<1>2. /\ CrawlsOK /\ NumbersOK /\ Counted /\ HandsOK /\ JobsOK
  BY DEF GrowthInv, CrawlsOK
<1>3. /\ UNCHANGED <<events, daemon, count, marker, today, recent, grown, searches, refusals>>
      /\ faultsG' = faultsG \/ faultsG' = faultsG + 1
  BY <1>1 DEF Take, Look, Store, StoreFails, Pivot, CommitPivots, PivotsLost, dailyVars
<1>4. CASE \E p \in BagToSet(results) : Take(i, p)
  <2>1. PICK p \in BagToSet(results) : Take(i, p)
    BY <1>4
  <2>2. p \in Persons
    BY <1>2 DEF CrawlsOK
  <2>3. HandsOK'
    BY <1>2, <2>1, <2>2, HandMoves, HandStep
  <2>4. UNCHANGED <<known, jobs>> /\ results' = results (-) Copies(1, p)
    BY <2>1 DEF Take
  <2>5. CrawlsOK'
    BY <1>2, <1>3, <2>3, <2>4, CopiesIsABag, TakenIsABag DEF CrawlsOK, JobsOK, JobOK
  <2> QED  BY <1>2, <1>3, <2>5, CountingFrame DEF GrowthInv
<1>5. CASE Look(i)
  <2>1. HandsOK'
    BY <1>2, <1>5, HandMoves, HandStep
  <2>2. UNCHANGED <<known, jobs, results>>
    BY <1>5 DEF Look
  <2>3. CrawlsOK'
    BY <1>2, <1>3, <2>1, <2>2 DEF CrawlsOK, JobsOK, JobOK
  <2> QED  BY <1>2, <1>3, <2>3, CountingFrame DEF GrowthInv
<1>6. CASE Store(i) \/ StoreFails(i)
  <2>1. PICK kept \in SUBSET (hand[i].kept \cup hand[i].next) : Pivot(i, kept)
    BY <1>6 DEF Store, StoreFails
  <2>2. hand[i] # Free /\ hand[i].person \in Persons
    BY <1>2, <2>1, HandMoves DEF Pivot
  <2>3. HandsOK'
    BY <1>2, <2>1, HandMoves, HandStep
  <2>4. PICK n \in 0..PlatformCount : jobs' = jobs (+) Copies(n, First(hand[i].person, 1))
    BY <2>1 DEF Pivot
  <2>5. UNCHANGED <<known, results>>
    BY <2>1 DEF Pivot
  <2>6. JobsOK'
    BY <1>2, <1>3, <2>2, <2>4, PushedJobs, GrowthAssumption
  <2>7. CrawlsOK'
    BY <1>2, <1>3, <2>3, <2>5, <2>6 DEF CrawlsOK
  <2> QED  BY <1>2, <1>3, <2>7, CountingFrame DEF GrowthInv
<1>7. CASE CommitPivots(i) \/ PivotsLost(i)
  <2>1. UNCHANGED <<jobs, results>> /\ hand' = [hand EXCEPT ![i] = Free] /\ hand[i] # Free
    BY <1>7 DEF CommitPivots, PivotsLost
  <2>2. HandsOK'
    BY <1>2, <2>1, HandStep
  <2>3. hand[i].kept \in SUBSET Values
    BY <1>2, <2>1, HandMoves DEF Pivoting
  <2>4. known' \in [Persons -> SUBSET Values]
    BY <1>2, <1>7, <2>3 DEF CommitPivots, PivotsLost, CrawlsOK
  <2>5. CrawlsOK'
    BY <1>2, <1>3, <2>1, <2>2, <2>4 DEF CrawlsOK, JobsOK, JobOK
  <2> QED  BY <1>2, <1>3, <2>5, CountingFrame DEF GrowthInv
<1> QED  BY <1>1, <1>4, <1>5, <1>6, <1>7

-----------------------------------------------------------------------------
(* GrowthDaemon: the daemon.                                                *)

LEMMA HandleStep ==
    ASSUME GrowthInv, HandleEvent
    PROVE  GrowthInv'
<1> DEFINE e == Head(events)
<1>1. /\ CrawlsOK /\ NumbersOK /\ Counted /\ daemon = Waiting
      /\ events # <<>> /\ events' = Tail(events)
      /\ UNCHANGED <<known, jobs, results, hand, today, searches, refusals, faultsG, grown>>
  BY DEF HandleEvent, GrowthInv, crawlVars
<1>2. /\ e \in Event /\ e.person \in Persons /\ e.depth \in Nat /\ known[e.person] \in SUBSET Values
      /\ events' \in Seq(Event)
  <2>1. e \in Event /\ events' \in Seq(Event)
    BY <1>1 DEF CrawlsOK
  <2>2. e.person \in Persons /\ e.depth \in Nat
    BY <2>1 DEF Event
  <2> QED  BY <1>1, <2>1, <2>2 DEF CrawlsOK
<1> HIDE DEF e
<1>3. CASE Declined(e)
  <2>1. UNCHANGED <<count, marker, recent, daemon>>
    BY <1>3 DEF e, HandleEvent
  <2> QED  BY <1>1, <1>2, <2>1, CountingFrame DEF GrowthInv, CrawlsOK, JobsOK, JobOK, HandsOK
<1>4. CASE ~Declined(e)
  <2>1. /\ marker' = today /\ count' = (IF today = marker THEN count ELSE 0)
    BY <1>4 DEF e, HandleEvent, Reset
  <2>2. CASE count' >= MaxDaily \/ e.person \in recent
    <3>1. UNCHANGED <<recent, daemon>>
      BY <1>4, <2>2 DEF e, HandleEvent
    <3>2. CrawlsOK'
      BY <1>1, <1>2, <3>1 DEF CrawlsOK, JobsOK, JobOK, HandsOK
    <3>3. NumbersOK' /\ Counted'
      BY <1>1, <2>1, <3>1, GrowthAssumption DEF NumbersOK, Counted, InFlight, Grown
    <3> QED  BY <3>2, <3>3 DEF GrowthInv
  <2>3. CASE ~(count' >= MaxDaily \/ e.person \in recent)
    <3>1. /\ recent' = recent \cup {e.person}
          /\ daemon' = [person |-> e.person, depth |-> e.depth, todo |-> known[e.person], dispatched |-> 0]
      BY <1>4, <2>3 DEF e, HandleEvent
    <3>2. CrawlsOK'
      BY <1>1, <1>2, <3>1 DEF CrawlsOK, JobsOK, JobOK, HandsOK
    <3>3. daemon' \in FanOutState /\ daemon'.dispatched = 0 /\ daemon'.depth < MaxDepth
      BY <1>2, <1>4, <3>1, GrowthAssumption DEF FanOutState, Declined
    <3>4. InFlight' = 0
      BY <3>3 DEF InFlight
    <3>5. count' \in Nat /\ count' < MaxDaily
      BY <1>1, <2>1, <2>3, GrowthAssumption DEF NumbersOK
    <3>6. NumbersOK'
      BY <1>1, <2>1, <3>3, <3>5, GrowthAssumption DEF NumbersOK
    <3>7. Counted'
      BY <1>1, <2>1, <3>4, <3>5, GrowthAssumption DEF NumbersOK, Counted, InFlight, Grown
    <3> QED  BY <3>2, <3>6, <3>7 DEF GrowthInv
  <2> QED  BY <2>2, <2>3
<1> QED  BY <1>3, <1>4

LEMMA FanOutIsNotWaiting == ASSUME NEW d \in FanOutState PROVE d # Waiting
<1>1. "depth" \in DOMAIN d /\ "depth" \notin DOMAIN Waiting
  BY DEF FanOutState, Waiting
<1> QED  BY <1>1

LEMMA FanOutStep ==
    ASSUME GrowthInv, FanOut
    PROVE  GrowthInv'
<1>1. PICK v \in daemon.todo, n \in 0..Least(PlatformCount, MaxFanout - daemon.dispatched) :
          /\ jobs' = jobs (+) Copies(n, First(daemon.person, daemon.depth + 1))
          /\ daemon' = [daemon EXCEPT !.todo = @ \ {v}, !.dispatched = @ + n]
          /\ grown' = [today     |-> grown.today + n,
                       uncounted |-> grown.uncounted + (IF marker = today THEN 0 ELSE n)]
  BY DEF FanOut
<1>2. /\ CrawlsOK /\ NumbersOK /\ Counted /\ daemon # Waiting /\ daemon.dispatched < MaxFanout
      /\ UNCHANGED <<known, results, hand, events, count, marker, today, recent,
                     searches, refusals, faultsG>>
  BY DEF FanOut, GrowthInv
<1>3. /\ daemon \in FanOutState /\ daemon.person \in Persons /\ daemon.depth \in Nat
      /\ daemon.dispatched \in Nat /\ daemon.depth < MaxDepth
  BY <1>2 DEF NumbersOK, FanOutState
<1>4. n \in Nat /\ n <= MaxFanout - daemon.dispatched
  BY <1>2, <1>3, GrowthAssumption DEF Least
<1>5. daemon.depth + 1 \in 0..MaxDepth
  BY <1>3, GrowthAssumption
<1>6. JobsOK'
  BY <1>1, <1>2, <1>3, <1>4, <1>5, PushedJobs
<1>7. CrawlsOK'
  BY <1>2, <1>6 DEF CrawlsOK, HandsOK
<1>8. /\ daemon' \in FanOutState /\ daemon'.dispatched = daemon.dispatched + n
      /\ daemon'.depth = daemon.depth
  <2>1. daemon.todo \ {v} \in SUBSET Values /\ daemon.dispatched + n \in Nat
    BY <1>3, <1>4 DEF FanOutState
  <2> QED  BY <1>1, <1>3, <2>1 DEF FanOutState
<1>9. /\ grown' \in Grown /\ grown'.today = grown.today + n
      /\ grown'.uncounted = grown.uncounted + (IF marker = today THEN 0 ELSE n)
  BY <1>1, <1>2, <1>4 DEF Grown, NumbersOK
<1>10. NumbersOK'
  BY <1>2, <1>3, <1>4, <1>8, <1>9, GrowthAssumption DEF NumbersOK
<1>11. InFlight = daemon.dispatched /\ InFlight' = daemon.dispatched + n /\ count < MaxDaily
  BY <1>2, <1>8, FanOutIsNotWaiting DEF InFlight, Counted
<1>12. Counted'
  <2>1. grown.today \in Nat /\ grown.uncounted \in Nat /\ count \in Nat
    BY <1>2 DEF NumbersOK, Grown
  <2> QED  BY <1>2, <1>3, <1>4, <1>9, <1>11, <2>1, GrowthAssumption DEF Counted
<1> QED  BY <1>7, <1>10, <1>12 DEF GrowthInv

LEMMA EndFanOutStep ==
    ASSUME GrowthInv, EndFanOut
    PROVE  GrowthInv'
<1>1. /\ CrawlsOK /\ NumbersOK /\ Counted /\ daemon # Waiting /\ daemon' = Waiting
      /\ count' = count + daemon.dispatched
      /\ UNCHANGED <<known, jobs, results, hand, events, marker, today, recent,
                     searches, refusals, faultsG, grown>>
  BY DEF EndFanOut, GrowthInv, crawlVars
<1>2. /\ daemon.dispatched \in 0..MaxFanout /\ count \in Nat /\ grown.today \in Nat
      /\ grown.uncounted \in Nat /\ count < MaxDaily
  BY <1>1, GrowthAssumption DEF NumbersOK, FanOutState, Grown, Counted
<1>3. CrawlsOK'
  BY <1>1 DEF CrawlsOK, JobsOK, JobOK, HandsOK
<1>4. NumbersOK'
  BY <1>1, <1>2 DEF NumbersOK
<1>5. Counted'
  BY <1>1, <1>2, GrowthAssumption DEF Counted, InFlight
<1> QED  BY <1>3, <1>4, <1>5 DEF GrowthInv

LEMMA FaultStep ==
    ASSUME GrowthInv, FanOutFails \/ Restart
    PROVE  GrowthInv'
<1>1. CrawlsOK /\ NumbersOK /\ Counted /\ faultsG \in Nat
  BY DEF GrowthInv, CrawlsOK
<1>2. /\ count \in Nat /\ grown \in Grown /\ grown.today \in Nat /\ grown.uncounted \in Nat
      /\ marker \in 0..today /\ today \in Nat \ {0}
  BY <1>1, GrowthAssumption DEF NumbersOK, Grown
<1>3. CASE FanOutFails
  <2>1. /\ daemon # Waiting /\ daemon' = Waiting /\ faultsG' \in Nat
        /\ grown' = [grown EXCEPT !.uncounted = @ + daemon.dispatched]
        /\ UNCHANGED <<known, jobs, results, hand, events, count, marker, today, recent,
                       searches, refusals>>
    BY <1>1, <1>3, GrowthAssumption DEF FanOutFails, crawlVars
  <2>2. daemon.dispatched \in Nat /\ InFlight = daemon.dispatched
    BY <1>1, <2>1 DEF NumbersOK, FanOutState, InFlight
  <2>3. /\ grown' \in Grown /\ grown'.today = grown.today
        /\ grown'.uncounted = grown.uncounted + daemon.dispatched
    BY <1>2, <2>1, <2>2 DEF Grown
  <2>4. CrawlsOK'
    BY <1>1, <2>1 DEF CrawlsOK, JobsOK, JobOK, HandsOK
  <2>5. NumbersOK'
    BY <1>1, <2>1, <2>3 DEF NumbersOK
  <2>6. Counted'
    BY <1>1, <1>2, <2>1, <2>2, <2>3 DEF Counted, InFlight
  <2> QED  BY <2>4, <2>5, <2>6 DEF GrowthInv
<1>4. CASE Restart
  <2>1. /\ daemon' = Waiting /\ events' = <<>> /\ recent' = {} /\ count' = 0 /\ marker' = 0
        /\ faultsG' \in Nat /\ hand' = [i \in Pivoters |-> Free]
        /\ grown' = [grown EXCEPT !.uncounted = grown.today]
        /\ UNCHANGED <<known, jobs, results, today, searches, refusals>>
    BY <1>1, <1>4, GrowthAssumption DEF Restart
  <2>2. grown' \in Grown /\ grown'.today = grown.today /\ grown'.uncounted = grown.today
    BY <1>2, <2>1 DEF Grown
  <2>3. CrawlsOK'
    BY <1>1, <2>1 DEF CrawlsOK, JobsOK, JobOK, HandsOK
  <2>4. NumbersOK'
    BY <1>1, <1>2, <2>1, <2>2 DEF NumbersOK
  <2>5. Counted'
    BY <1>2, <2>1, <2>2, GrowthAssumption, SMTT(30) DEF Counted
  <2> QED  BY <2>3, <2>4, <2>5 DEF GrowthInv
<1> QED  BY <1>3, <1>4

LEMMA MidnightStep ==
    ASSUME GrowthInv, Midnight
    PROVE  GrowthInv'
<1>1. /\ CrawlsOK /\ NumbersOK /\ Counted
      /\ today <= MaxDays /\ today' = today + 1 /\ grown' = [today |-> 0, uncounted |-> 0]
      /\ UNCHANGED <<known, jobs, results, hand, events, daemon, count, marker, recent,
                     searches, refusals, faultsG>>
  BY DEF Midnight, GrowthInv, crawlVars
<1>2. marker \in 0..today /\ today \in 1..(MaxDays + 1)
  BY <1>1 DEF NumbersOK
<1>3. CrawlsOK'
  BY <1>1 DEF CrawlsOK, JobsOK, JobOK, HandsOK
<1>4. NumbersOK'
  BY <1>1, <1>2, GrowthAssumption DEF NumbersOK, Grown
<1>5. Counted'
  BY <1>1, <1>2, GrowthAssumption DEF Counted
<1> QED  BY <1>3, <1>4, <1>5 DEF GrowthInv

LEMMA GrowthStep == GrowthInv /\ [GrowthNext]_growthVars => GrowthInv'
<1> SUFFICES ASSUME GrowthInv, [GrowthNext]_growthVars PROVE GrowthInv'
  OBVIOUS
<1>1. CASE UNCHANGED growthVars
  BY <1>1 DEF growthVars, crawlVars, dailyVars, GrowthInv, CrawlsOK, JobsOK, JobOK, HandsOK,
              NumbersOK, Counted, InFlight
<1>2. ASSUME NEW p \in Persons, CooldownEnds(p) PROVE GrowthInv'
  <2>1. CrawlsOK'
    BY <1>2 DEF CooldownEnds, GrowthInv, CrawlsOK, JobsOK, JobOK, HandsOK, crawlVars
  <2> QED  BY <1>2, <2>1, CountingFrame DEF CooldownEnds, GrowthInv, crawlVars
<1>3. CASE \E p \in Persons, v \in Values : Search(p, v)
  BY <1>3, SearchStep
<1>4. CASE \E p \in Persons : Announce(p)
  <2>1. PICK p \in Persons : Announce(p)
    BY <1>4
  <2>2. CrawlsOK'
    <3>1. [person |-> p, depth |-> 0] \in Event
      BY DEF Event
    <3> QED  BY <2>1, <3>1, GrowthAssumption
             DEF Announce, GrowthInv, CrawlsOK, JobsOK, JobOK, HandsOK, crawlVars, dailyVars
  <2> QED  BY <2>1, <2>2, CountingFrame DEF Announce, GrowthInv, crawlVars, dailyVars
<1>5. CASE Crawls \/ Ingests \/ \E i \in Pivoters : PivotsLost(i)
  BY <1>5, CrawlsStep, IngestsStep
<1>6. CASE HandleEvent \/ FanOut \/ EndFanOut \/ FanOutFails \/ Restart \/ Midnight
  BY <1>6, HandleStep, FanOutStep, EndFanOutStep, FaultStep, MidnightStep
<1> QED  BY <1>1, <1>2, <1>3, <1>4, <1>5, <1>6 DEF GrowthNext

LEMMA GrowthInvariant == GrowthSpec => []GrowthInv
  BY GrowthStarts, GrowthStep, PTL DEF GrowthSpec

\* No crawl is deeper than the daemon allows, whatever the order of events, results,
\* faults and midnights (growth_daemon.py:130-137).
THEOREM GrowthTypeCorrect == GrowthSpec => []GrowthTypeOK
<1>1. GrowthInv => GrowthTypeOK
  BY DEF GrowthInv, CrawlsOK, JobsOK, JobOK, HandsOK, NumbersOK, GrowthTypeOK
<1> QED  BY <1>1, GrowthInvariant, PTL

\* The daily cap is exceeded by less than one fan-out and by what the counter never
\* gets to know (growth_daemon.py:139-181).
THEOREM DailyBoundedCorrect == GrowthSpec => []DailyBounded
<1>1. ASSUME GrowthInv PROVE DailyBounded
  <2>1. /\ grown.today \in Nat /\ grown.uncounted \in Nat /\ count \in Nat
        /\ daemon # Waiting => daemon.dispatched \in 0..MaxFanout
    BY <1>1, GrowthAssumption DEF GrowthInv, NumbersOK, Grown, FanOutState
  <2> QED  BY <1>1, <2>1, GrowthAssumption DEF GrowthInv, Counted, InFlight, DailyBounded
<1> QED  BY <1>1, GrowthInvariant, PTL

-----------------------------------------------------------------------------
(* GrowthDaemon: what is left to do.                                        *)

\* Copies that a bag gains and loses.
LEMMA NumberAdded ==
    ASSUME NEW B, IsABag(B), NEW n \in Nat, NEW e, NEW x
    PROVE  /\ Number(x, B) \in Nat
           /\ Number(x, B (+) Copies(n, e)) = Number(x, B) + (IF x = e THEN n ELSE 0)
<1>1. Number(x, B) \in Nat
  BY DEF Number, BagIn, BagToSet, IsABag
<1>2. CASE n = 0
  <2>1. DOMAIN Copies(n, e) = {}
    BY <1>2 DEF Copies, EmptyBag, SetToBag
  <2> QED  BY <1>1, <1>2, <2>1 DEF Number, BagIn, BagToSet, IsABag, (+)
<1>3. CASE n # 0
  <2>1. Copies(n, e) = [j \in {e} |-> n]
    BY <1>3 DEF Copies
  <2> QED  BY <1>1, <2>1 DEF Number, BagIn, BagToSet, IsABag, (+)
<1> QED  BY <1>1, <1>2, <1>3

LEMMA NumberTaken ==
    ASSUME NEW B, IsABag(B), NEW e, e \in BagToSet(B), NEW x
    PROVE  /\ Number(x, B) \in Nat
           /\ Number(x, B (-) Copies(1, e)) = Number(x, B) - (IF x = e THEN 1 ELSE 0)
<1>1. Number(x, B) \in Nat
  BY DEF Number, BagIn, BagToSet, IsABag
<1>2. Copies(1, e) = [j \in {e} |-> 1]
  BY DEF Copies
<1> DEFINE C == [y \in DOMAIN B |-> IF y \in {e} THEN B[y] - 1 ELSE B[y]]
<1>3. B (-) Copies(1, e) = [y \in {z \in DOMAIN B : C[z] > 0} |-> C[y]]
  BY <1>2 DEF (-)
<1>4. /\ x \in DOMAIN B => B[x] \in Nat \ {0} /\ C[x] = B[x] - (IF x = e THEN 1 ELSE 0)
      /\ x \notin DOMAIN B => x # e
  BY DEF BagToSet, IsABag
<1> HIDE DEF C
<1>5. Number(x, B (-) Copies(1, e)) = IF x \in DOMAIN B /\ C[x] > 0 THEN C[x] ELSE 0
  BY <1>3 DEF Number, BagIn, BagToSet
<1> QED  BY <1>1, <1>4, <1>5 DEF Number, BagIn, BagToSet

\* Where the events of depth d are in a queue, and how their number changes.
OfDepth(s, d) == {n \in 1..Len(s) : s[n].depth = d}

LEMMA OfDepthFinite ==
    ASSUME NEW s \in Seq(Event), NEW d
    PROVE  IsFiniteSet(OfDepth(s, d)) /\ Cardinality(OfDepth(s, d)) \in Nat
<1>1. IsFiniteSet(1..Len(s)) /\ OfDepth(s, d) \subseteq 1..Len(s)
  BY FS_Interval DEF OfDepth
<1> QED  BY <1>1, FS_Subset, FS_CardinalityType

LEMMA OfDepthAppend ==
    ASSUME NEW s \in Seq(Event), NEW e \in Event, NEW d
    PROVE  Cardinality(OfDepth(Append(s, e), d))
               = Cardinality(OfDepth(s, d)) + (IF e.depth = d THEN 1 ELSE 0)
<1>1. CASE e.depth = d
  <2>1. OfDepth(Append(s, e), d) = OfDepth(s, d) \cup {Len(s) + 1} /\ Len(s) + 1 \notin OfDepth(s, d)
    BY <1>1 DEF OfDepth
  <2>2. IsFiniteSet(OfDepth(s, d))
    BY OfDepthFinite
  <2>3. Cardinality(OfDepth(s, d) \cup {Len(s) + 1}) = Cardinality(OfDepth(s, d)) + 1
    BY <2>1, <2>2, FS_AddElement
  <2> QED  BY <1>1, <2>1, <2>3
<1>2. CASE e.depth # d
  <2>1. OfDepth(Append(s, e), d) = OfDepth(s, d)
    BY <1>2 DEF OfDepth
  <2> QED  BY <1>2, <2>1, OfDepthFinite
<1> QED  BY <1>1, <1>2

LEMMA OfDepthTail ==
    ASSUME NEW s \in Seq(Event), s # <<>>, NEW d
    PROVE  Cardinality(OfDepth(s, d))
               = Cardinality(OfDepth(Tail(s), d)) + (IF Head(s).depth = d THEN 1 ELSE 0)
<1> DEFINE T == OfDepth(Tail(s), d)
           R == OfDepth(s, d) \ {1}
           f == [n \in T |-> n + 1]
<1>1. /\ Tail(s) \in Seq(Event) /\ Len(s) \in Nat \ {0} /\ Len(Tail(s)) = Len(s) - 1
      /\ \A n \in 1..Len(Tail(s)) : Tail(s)[n] = s[n + 1]
  OBVIOUS
<1>2. T \subseteq Nat
  BY DEF OfDepth
<1>3. f \in [T -> R]
  <2> SUFFICES ASSUME NEW n \in T PROVE n + 1 \in R
    OBVIOUS
  <2>1. n \in 1..Len(Tail(s)) /\ Tail(s)[n].depth = d
    BY DEF OfDepth
  <2>2. n + 1 \in 1..Len(s) /\ s[n + 1].depth = d /\ n + 1 # 1
    BY <1>1, <2>1
  <2> QED  BY <2>2 DEF OfDepth
<1>4. \A m, n \in T : f[m] = f[n] => m = n
  BY <1>2
<1>5. \A m \in R : \E n \in T : f[n] = m
  <2> SUFFICES ASSUME NEW m \in R PROVE \E n \in T : f[n] = m
    OBVIOUS
  <2>1. m \in 2..Len(s) /\ s[m].depth = d
    BY DEF OfDepth
  <2>2. m - 1 \in 1..Len(Tail(s)) /\ Tail(s)[m - 1].depth = d
    BY <1>1, <2>1
  <2>3. m - 1 \in T /\ f[m - 1] = m
    BY <2>1, <2>2 DEF OfDepth
  <2> QED  BY <2>3
<1>6. Cardinality(T) = Cardinality(R)
  <2>1. f \in Bijection(T, R)
    BY <1>3, <1>4, <1>5, Fun_IsBij
  <2>2. ExistsBijection(T, R)
    BY <2>1, Fun_ExistsBij
  <2> QED  BY <1>1, <2>2, OfDepthFinite, FS_Bijection
<1>7. IsFiniteSet(OfDepth(s, d)) /\ Cardinality(OfDepth(s, d)) \in Nat /\ Cardinality(T) \in Nat
  BY <1>1, OfDepthFinite
<1>8. 1 \in OfDepth(s, d) <=> Head(s).depth = d
  BY <1>1 DEF OfDepth
<1>9. Cardinality(R) = IF 1 \in OfDepth(s, d) THEN Cardinality(OfDepth(s, d)) - 1
                                              ELSE Cardinality(OfDepth(s, d))
  BY <1>7, FS_RemoveElement
<1> QED  BY <1>6, <1>7, <1>8, <1>9

\* No event is deeper than the daemon allows.
Shallow == \A n \in 1..Len(events) : events[n].depth <= MaxDepth

LEMMA ShallowStep ==
    ASSUME GrowthInv, Shallow, [GrowthNext]_growthVars
    PROVE  Shallow'
<1>1. events \in Seq(Event)
  BY DEF GrowthInv, CrawlsOK
<1>2. ASSUME NEW e \in Event, e.depth <= MaxDepth, events' = Append(events, e) PROVE Shallow'
  BY <1>1, <1>2 DEF Shallow
<1>3. CASE events' = events
  BY <1>3 DEF Shallow
<1>4. CASE \E p \in Persons : Announce(p)
  <2>1. PICK p \in Persons : events' = Append(events, [person |-> p, depth |-> 0])
    BY <1>4 DEF Announce
  <2> QED  BY <1>2, <2>1, GrowthAssumption DEF Event
<1>5. CASE Crawls
  <2>1. PICK job \in BagToSet(jobs) :
            \/ events' = events
            \/ events' = Append(events, [person |-> job.person, depth |-> job.depth])
    BY <1>5 DEF Crawls, CrawlFinds, CrawlFindsNothing, CrawlRefused, CrawlRaises
  <2>2. job \in Job /\ job.depth <= MaxDepth
    BY DEF GrowthInv, CrawlsOK, JobsOK, JobOK
  <2>3. /\ [person |-> job.person, depth |-> job.depth] \in Event
        /\ [person |-> job.person, depth |-> job.depth].depth <= MaxDepth
    BY <2>2 DEF Job, Event
  <2> QED  BY <1>2, <1>3, <2>1, <2>3
<1>6. CASE HandleEvent
  <2>1. events # <<>> /\ events' = Tail(events)
    BY <1>6 DEF HandleEvent
  <2>2. Len(events') = Len(events) - 1 /\ \A n \in 1..Len(events') : events'[n] = events[n + 1]
    BY <1>1, <2>1
  <2> QED  BY <1>1, <2>2 DEF Shallow
<1>7. CASE Restart
  BY <1>7 DEF Restart, Shallow
<1>8. CASE Ingests \/ \E i \in Pivoters : PivotsLost(i)
  BY <1>3, <1>8 DEF Ingests, Take, Look, Store, StoreFails, Pivot, CommitPivots, PivotsLost
<1> QED  BY <1>3, <1>4, <1>5, <1>6, <1>7, <1>8
         DEF GrowthNext, growthVars, Search, FanOut, EndFanOut, FanOutFails, CooldownEnds, Midnight

LEMMA GrowthShallow == GrowthSpec => [](GrowthInv /\ Shallow)
<1>1. GrowthInit => Shallow
  BY DEF GrowthInit, Shallow
<1> QED  BY <1>1, GrowthStarts, GrowthStep, ShallowStep, PTL DEF GrowthSpec

\* The measures are numbers.
LEMMA Measured ==
    ASSUME GrowthInv, NEW d
    PROVE  /\ EventsAt(d) = Cardinality(OfDepth(events, d)) /\ EventsAt(d) \in Nat
           /\ TodoAt(d) \in Nat
           /\ \A t, p : p \in Persons => CrawlsAt(d, t)[p] \in Nat
           /\ \A p \in Persons : ResultsLeft[p] \in Nat
           /\ \A i \in Pivoters : HandLeft(i) \in Nat
<1>1. EventsAt(d) = Cardinality(OfDepth(events, d)) /\ EventsAt(d) \in Nat
  BY OfDepthFinite DEF GrowthInv, CrawlsOK, EventsAt, OfDepth
<1>2. ASSUME NEW S \in SUBSET Values PROVE IsFiniteSet(S) /\ Cardinality(S) \in Nat
  BY GrowthAssumption, FS_Subset, FS_CardinalityType
<1>3. TodoAt(d) \in Nat
  <2>1. CASE daemon = Waiting
    BY <2>1 DEF TodoAt
  <2>2. CASE daemon # Waiting
    <3>1. daemon.todo \in SUBSET Values
      BY <2>2 DEF GrowthInv, NumbersOK, FanOutState
    <3>2. Cardinality(daemon.todo) \in Nat
      BY <1>2, <3>1
    <3> QED  BY <3>2 DEF TodoAt
  <2> QED  BY <2>1, <2>2
<1>4. ASSUME NEW t, NEW p \in Persons PROVE CrawlsAt(d, t)[p] \in Nat
  BY NumberTaken DEF GrowthInv, CrawlsOK, JobsOK, CrawlsAt, Number, BagIn, BagToSet, IsABag
<1>5. ASSUME NEW p \in Persons PROVE ResultsLeft[p] \in Nat
  BY NumberTaken DEF GrowthInv, CrawlsOK, ResultsLeft, Number, BagIn, BagToSet, IsABag
<1>6. ASSUME NEW i \in Pivoters PROVE HandLeft(i) \in Nat
  <2>1. CASE hand[i] = Free
    BY <2>1 DEF HandLeft
  <2>2. CASE hand[i] # Free
    <3>1. hand[i].todo \in SUBSET Values /\ hand[i].next \in SUBSET Values
      BY <2>2 DEF GrowthInv, CrawlsOK, HandsOK, Pivoting
    <3> QED  BY <1>2, <2>2, <3>1 DEF HandLeft
  <2> QED  BY <2>1, <2>2
<1> QED  BY <1>1, <1>3, <1>4, <1>5, <1>6

\* What a step leaves alone is no more than it was.
LEMMA SameCrawls ==
    ASSUME GrowthInv, jobs' = jobs, NEW d
    PROVE  CrawlsNoMore(d)
<1>1. ASSUME NEW t PROVE CrawlsAt(d, t)' = CrawlsAt(d, t)
  BY DEF CrawlsAt
<1> QED  BY <1>1, Measured DEF CrawlsNoMore, NoMore

LEMMA SameEvents ==
    ASSUME GrowthInv, events' = events, NEW d
    PROVE  EventsAt(d)' = EventsAt(d) /\ EventsAt(d)' <= EventsAt(d)
<1>1. EventsAt(d)' = EventsAt(d)
  BY DEF EventsAt
<1> QED  BY <1>1, Measured

LEMMA NoMoreTodo ==
    ASSUME GrowthInv, daemon' = daemon \/ daemon' = Waiting, NEW d
    PROVE  TodoAt(d)' <= TodoAt(d)
<1>1. TodoAt(d)' = TodoAt(d) \/ TodoAt(d)' = 0
  BY DEF TodoAt
<1> QED  BY <1>1, Measured

\* Jobs pushed at depth d leave those at other depths alone.
LEMMA PushedBelow ==
    ASSUME GrowthInv, NEW p, NEW n \in Nat, NEW d,
           jobs' = jobs (+) Copies(n, First(p, d)), NEW c, c # d
    PROVE  CrawlsNoMore(c)
<1> SUFFICES ASSUME NEW t, NEW q \in Persons PROVE CrawlsAt(c, t)'[q] = CrawlsAt(c, t)[q]
  BY Measured DEF NoMore, CrawlsNoMore
<1>1. [person |-> q, depth |-> c, tries |-> t] # First(p, d)
  BY DEF First
<1> QED  BY <1>1, NumberAdded DEF GrowthInv, CrawlsOK, JobsOK, CrawlsAt

-----------------------------------------------------------------------------
(* GrowthDaemon: every step leaves less to do.                              *)

\* A step that neither persons nor ingesters notice.
LEMMA Unnoticed ==
    ASSUME GrowthInv, known' = known, hand' = hand
    PROVE  /\ \A p \in Persons : known[p] \subseteq known'[p]
           /\ Stale' = Stale /\ \A p \in Persons : Taken(p)' = Taken(p)
           /\ \A i \in Pivoters : HandLeft(i)' = HandLeft(i)
  BY DEF Stale, Taken, Holders, HandLeft

LEMMA DepthDescends ==
    ASSUME GrowthInv, known' = known, hand' = hand,
           \E d \in Depths : LessAt(d) /\ \A c \in Depths : c < d => NoMoreAt(c)
    PROVE  Descends
  BY Unnoticed DEF Descends, Settling

LEMMA CrawlDescends ==
    ASSUME GrowthInv, Crawls, refusals' = refusals
    PROVE  Descends
<1>1. PICK job \in BagToSet(jobs) :
          CrawlFinds(job) \/ CrawlFindsNothing(job) \/ CrawlRefused(job) \/ CrawlRaises(job)
  BY DEF Crawls
<1> PICK d, p, t : d = job.depth /\ p = job.person /\ t = job.tries
  OBVIOUS
<1> PICK B : B = jobs (-) Copies(1, job)
  OBVIOUS
<1> PICK e : e = [person |-> p, depth |-> d]
  OBVIOUS
<1>2. /\ known' = known /\ hand' = hand /\ daemon' = daemon
      /\ events' = events \/ events' = Append(events, e)
      /\ jobs' = B \/ (t < MaxRetries /\ jobs' = B (+) Copies(1, Again(job)))
  <2>1. ~CrawlRefused(job)
    BY GrowthAssumption DEF CrawlRefused, GrowthInv, CrawlsOK
  <2>2. CASE CrawlFinds(job) \/ CrawlFindsNothing(job)
    BY <2>2 DEF CrawlFinds, CrawlFindsNothing
  <2>3. CASE CrawlRaises(job)
    BY <2>3 DEF CrawlRaises, Requeued
  <2> QED  BY <1>1, <2>1, <2>2, <2>3
<1>3. /\ p \in Persons /\ d \in Nat /\ d <= MaxDepth /\ t \in Nat /\ t \in Tries /\ e \in Event
      /\ job = [person |-> p, depth |-> d, tries |-> t] /\ IsABag(jobs) /\ events \in Seq(Event)
      /\ Again(job) = [person |-> p, depth |-> d, tries |-> t + 1]
  <2>1. /\ IsABag(jobs) /\ events \in Seq(Event) /\ JobOK(job) /\ refusals \in 0..MaxRefusals
    BY DEF GrowthInv, CrawlsOK, JobsOK
  <2>2. /\ job \in Job /\ p \in Persons /\ d \in Nat /\ t \in Nat
        /\ job = [person |-> p, depth |-> d, tries |-> t]
    BY <2>1 DEF JobOK, Job
  <2>3. d <= MaxDepth /\ t \in Tries
    BY <2>1, <2>2, GrowthAssumption DEF JobOK, Tries
  <2>4. Again(job) = [person |-> p, depth |-> d, tries |-> t + 1]
    BY <2>2 DEF Again
  <2>5. e \in Event
    BY <2>2 DEF Event
  <2> QED  BY <2>1, <2>2, <2>3, <2>4, <2>5
<1>4. ASSUME NEW c, NEW u, NEW q \in Persons
      PROVE  /\ q = p /\ c = d /\ u = t => CrawlsAt(c, u)'[q] = CrawlsAt(c, u)[q] - 1
             /\ ~(q = p /\ c = d /\ (u = t \/ u = t + 1)) => CrawlsAt(c, u)'[q] = CrawlsAt(c, u)[q]
  <2> PICK x : x = [person |-> q, depth |-> c, tries |-> u]
    OBVIOUS
  <2>1. x = job <=> q = p /\ c = d /\ u = t
    BY <1>3
  <2>2. x = Again(job) <=> q = p /\ c = d /\ u = t + 1
    BY <1>3
  <2>3. /\ CrawlsAt(c, u)[q] = Number(x, jobs) /\ CrawlsAt(c, u)'[q] = Number(x, jobs')
    BY DEF CrawlsAt
  <2>4. IsABag(B)
    BY <1>3, CopiesIsABag, TakenIsABag
  <2>5. Number(x, B) = Number(x, jobs) - (IF x = job THEN 1 ELSE 0) /\ Number(x, jobs) \in Nat
    BY <1>3, NumberTaken
  <2>6. Number(x, B (+) Copies(1, Again(job))) = Number(x, B) + (IF x = Again(job) THEN 1 ELSE 0)
    BY <2>4, NumberAdded
  <2>7. t # t + 1
    BY <1>3
  <2> QED  BY <1>2, <2>1, <2>2, <2>3, <2>5, <2>6, <2>7
<1>5. ASSUME NEW c, NEW u, c # d \/ (u # t + 1) PROVE NoMore(CrawlsAt(c, u)', CrawlsAt(c, u))
  <2> SUFFICES ASSUME NEW q \in Persons PROVE CrawlsAt(c, u)'[q] <= CrawlsAt(c, u)[q]
    BY DEF NoMore
  <2> PICK m : m = CrawlsAt(c, u)[q]
    OBVIOUS
  <2>1. m \in Nat
    BY Measured
  <2>2. CrawlsAt(c, u)'[q] = m \/ CrawlsAt(c, u)'[q] = m - 1
    BY <1>4, <1>5
  <2> QED  BY <2>1, <2>2
<1>6. CrawlsAt(d, t)'[p] # CrawlsAt(d, t)[p]
  <2> PICK m : m = CrawlsAt(d, t)[p]
    OBVIOUS
  <2>1. m \in Nat
    BY <1>3, Measured
  <2>2. CrawlsAt(d, t)'[p] = m - 1
    BY <1>3, <1>4
  <2> QED  BY <2>1, <2>2
<1>7. LessAt(d)
  <2>1. \A u \in Tries : u < t => u # t + 1
    BY <1>3, GrowthAssumption DEF Tries
  <2>2. t # t + 1
    BY <1>3
  <2> QED  BY <1>3, <1>5, <1>6, <2>1, <2>2 DEF LessAt, Fewer
<1>8. ASSUME NEW c \in Depths, c < d PROVE NoMoreAt(c)
  <2>1. c # d
    BY <1>3, <1>8, GrowthAssumption DEF Depths
  <2>2. CrawlsNoMore(c)
    BY <1>5, <2>1 DEF CrawlsNoMore
  <2>3. CASE events' = events
    BY <1>2, <2>2, <2>3, SameEvents, NoMoreTodo DEF NoMoreAt
  <2>4. CASE events' = Append(events, e)
    <3>1. EventsAt(c)' = Cardinality(OfDepth(events', c))
      BY DEF EventsAt, OfDepth
    <3>2. EventsAt(c)' = EventsAt(c)
      BY <1>3, <2>1, <2>4, <3>1, OfDepthAppend, Measured
    <3> QED  BY <1>2, <2>2, <3>2, Measured, NoMoreTodo DEF NoMoreAt
  <2> QED  BY <1>2, <2>3, <2>4
<1> QED  BY <1>2, <1>3, <1>7, <1>8, DepthDescends, GrowthAssumption DEF Depths

-----------------------------------------------------------------------------
(* GrowthDaemon: the ingesters get on.                                      *)

LEMMA TakenIs ==
    ASSUME NEW p, NEW v
    PROVE  v \in Taken(p) <=> \/ v \in known[p]
                              \/ \E k \in Pivoters : hand[k] # Free /\ hand[k].person = p /\ v \in hand[k].kept
  BY DEF Taken, Holders

\* The rest of the work when only the ingesters do something.
LEMMA OnlyHands ==
    ASSUME GrowthInv, jobs' = jobs, events' = events, daemon' = daemon, NEW d
    PROVE  NoMoreAt(d)
  BY SameCrawls, SameEvents, NoMoreTodo DEF NoMoreAt

\* One hand that moves, with what is left of it.
LEMMA HandMoved ==
    ASSUME GrowthInv, known' = known, NEW i \in Pivoters, NEW h \in Pivoting \cup {Free},
           hand' = [hand EXCEPT ![i] = h],
           h # Free => h.next \cap known[h.person] = {}
    PROVE  /\ Stale' = Stale \ {i}
           /\ \A k \in Pivoters : k # i => HandLeft(k)' = HandLeft(k)
           /\ h # Free => HandLeft(i)' = 1 + 2 * Cardinality(h.todo) + Cardinality(h.next)
           /\ h = Free => HandLeft(i)' = 0
<1>1. hand'[i] = h /\ \A k \in Pivoters : k # i => hand'[k] = hand[k]
  BY DEF GrowthInv, CrawlsOK, HandsOK
<1>2. Stale' = Stale \ {i}
  BY <1>1 DEF Stale
<1>3. \A k \in Pivoters : k # i => HandLeft(k)' = HandLeft(k)
  BY <1>1 DEF HandLeft
<1> QED  BY <1>1, <1>2, <1>3 DEF HandLeft

LEMMA TakeDescends ==
    ASSUME GrowthInv, NEW i \in Pivoters, NEW p \in BagToSet(results), Take(i, p)
    PROVE  Descends
<1>1. CrawlsOK /\ p \in Persons /\ IsABag(results)
  BY DEF GrowthInv, CrawlsOK
<1>2. PICK h \in Pivoting : /\ hand' = [hand EXCEPT ![i] = h] /\ hand[i] = Free
                            /\ h.person = p /\ h.next = {} /\ h.kept = {}
  BY <1>1, HandMoves
<1>3. /\ UNCHANGED <<known, jobs, events, daemon>> /\ results' = results (-) Copies(1, p)
  BY DEF Take
<1>4. Stale' = Stale
  <2>1. Stale' = Stale \ {i}
    BY <1>2, <1>3, HandMoved
  <2>2. i \notin Stale
    BY <1>2 DEF Stale
  <2> QED  BY <2>1, <2>2
<1>5. ASSUME NEW q \in Persons PROVE Taken(q)' = Taken(q)
  <2>1. hand'[i] = h /\ \A k \in Pivoters : k # i => hand'[k] = hand[k]
    BY <1>1, <1>2 DEF CrawlsOK, HandsOK
  <2>2. UNION {hand[k].kept : k \in Holders(q)}' = UNION {hand[k].kept : k \in Holders(q)}
    BY <1>2, <2>1 DEF Holders
  <2> QED  BY <1>3, <2>2 DEF Taken
<1>6. ASSUME NEW q \in Persons
      PROVE  ResultsLeft'[q] = ResultsLeft[q] - (IF q = p THEN 1 ELSE 0)
  BY <1>1, <1>3, NumberTaken DEF ResultsLeft
<1>7. Fewer(ResultsLeft', ResultsLeft)
  BY <1>1, <1>6, Measured DEF Fewer, NoMore
<1>8. \A d \in Depths : NoMoreAt(d)
  BY <1>3, OnlyHands
<1> QED  BY <1>3, <1>4, <1>5, <1>7, <1>8 DEF Descends, Settling

\* A hand that is nearer to its end, with the rows it had.
LEMMA HandDescends ==
    ASSUME GrowthInv, UNCHANGED <<known, jobs, results, events, daemon>>, NEW i \in Pivoters,
           Stale' = Stale, \A p \in Persons : Taken(p)' = Taken(p),
           \A k \in Pivoters : k # i => HandLeft(k)' = HandLeft(k),
           HandLeft(i)' \in Nat, HandLeft(i)' < HandLeft(i)
    PROVE  Descends
<1>1. \A d \in Depths : NoMoreAt(d)
  BY OnlyHands
<1>2. \A k \in Pivoters : HandLeft(k)' <= HandLeft(k)
  BY Measured
<1> QED  BY <1>1, <1>2 DEF Descends, Settling

LEMMA LookDescends ==
    ASSUME GrowthInv, NEW i \in Pivoters, Look(i)
    PROVE  Descends
<1>1. CrawlsOK
  BY DEF GrowthInv
<1>2. PICK h \in Pivoting, v \in hand[i].todo :
          /\ hand' = [hand EXCEPT ![i] = h] /\ hand[i] # Free
          /\ h.person = hand[i].person /\ h.kept = hand[i].kept /\ h.todo = hand[i].todo \ {v}
          /\ h.next = {v} \ known[h.person] /\ hand[i].next = {}
  BY <1>1, HandMoves
<1>3. UNCHANGED <<known, jobs, results, events, daemon>>
  BY DEF Look
<1>4. /\ Stale' = Stale \ {i}
      /\ \A k \in Pivoters : k # i => HandLeft(k)' = HandLeft(k)
      /\ HandLeft(i)' = 1 + 2 * Cardinality(h.todo) + Cardinality(h.next)
  <2>1. h # Free
    <3>1. "person" \in DOMAIN h /\ "person" \notin DOMAIN Free
      BY DEF Pivoting, Free
    <3> QED  BY <3>1
  <2>2. h.next \cap known[h.person] = {} /\ known' = known
    BY <1>2, <1>3
  <2> QED  BY <1>2, <2>1, <2>2, HandMoved
<1>5. i \notin Stale
  BY <1>2 DEF Stale
<1>6. hand'[i] = h /\ \A k \in Pivoters : k # i => hand'[k] = hand[k]
  BY <1>1, <1>2 DEF CrawlsOK, HandsOK
<1>7. h # Free
  <2>1. "person" \in DOMAIN h /\ "person" \notin DOMAIN Free
    BY DEF Pivoting, Free
  <2> QED  BY <2>1
<1>8. ASSUME NEW q \in Persons PROVE Taken(q)' = Taken(q)
  <2>1. Holders(q)' = Holders(q) /\ \A k \in Pivoters : k \in Holders(q) => hand'[k].kept = hand[k].kept
    BY <1>2, <1>6, <1>7 DEF Holders
  <2>2. Holders(q) \subseteq Pivoters
    BY DEF Holders
  <2>3. UNION {hand[k].kept : k \in Holders(q)}' = UNION {hand[k].kept : k \in Holders(q)}
    BY <2>1, <2>2
  <2> QED  BY <1>3, <2>3 DEF Taken
<1>9. HandLeft(i)' \in Nat /\ HandLeft(i)' < HandLeft(i)
  <2>1. hand[i].todo \in SUBSET Values
    BY <1>1, <1>2, HandMoves DEF Pivoting
  <2>2. IsFiniteSet(hand[i].todo) /\ Cardinality(hand[i].todo) \in Nat
    BY <2>1, GrowthAssumption, FS_Subset, FS_CardinalityType
  <2>3. Cardinality(h.todo) = Cardinality(hand[i].todo) - 1
    <3>1. v \in hand[i].todo /\ h.todo = hand[i].todo \ {v}
      BY <1>2
    <3>2. Cardinality(hand[i].todo \ {v}) = Cardinality(hand[i].todo) - 1
      BY <2>2, <3>1, FS_RemoveElement
    <3> QED  BY <3>1, <3>2
  <2>4. Cardinality(h.next) \in {0, 1}
    <3>1. h.next = {} \/ h.next = {v}
      BY <1>2
    <3> QED  BY <3>1, FS_EmptySet, FS_Singleton
  <2>5. HandLeft(i) = 1 + 2 * Cardinality(hand[i].todo) + Cardinality(hand[i].next)
    BY <1>2 DEF HandLeft
  <2>6. Cardinality(hand[i].next) = 0
    BY <1>2, FS_EmptySet
  <2> PICK m : m = Cardinality(hand[i].todo)
    OBVIOUS
  <2> PICK n : n = Cardinality(h.next)
    OBVIOUS
  <2>7. m \in Nat /\ m - 1 = Cardinality(h.todo) /\ n \in {0, 1}
    BY <2>2, <2>3, <2>4
  <2>8. m - 1 \in Nat
    <3>1. IsFiniteSet(h.todo)
      BY <1>2, <2>2, FS_RemoveElement
    <3> QED  BY <2>7, <3>1, FS_CardinalityType
  <2>9. HandLeft(i) = 1 + 2 * m + 0
    BY <2>5, <2>6
  <2>10. HandLeft(i)' = 1 + 2 * (m - 1) + n
    BY <1>4, <2>7
  <2> QED  BY <2>7, <2>8, <2>9, <2>10
<1> QED  BY <1>3, <1>4, <1>5, <1>8, <1>9, HandDescends

\* A row more, or one stale hand less.
LEMMA StoreDescends ==
    ASSUME GrowthInv, NEW i \in Pivoters, Store(i)
    PROVE  Descends
<1>1. CrawlsOK /\ known \in [Persons -> SUBSET Values]
  BY DEF GrowthInv, CrawlsOK
<1>2. Pivot(i, KeptBy(i)) /\ KeptBy(i) \in SUBSET (hand[i].kept \cup hand[i].next)
      /\ \A k \in Pivoters : ~WaitsFor(i, k)
  BY DEF Store, KeptBy
<1> PICK K : K = KeptBy(i)
  OBVIOUS
<1>3. PICK h \in Pivoting :
          /\ hand' = [hand EXCEPT ![i] = h] /\ hand[i] # Free
          /\ h.person = hand[i].person /\ h.kept = K
          /\ h.next = {} /\ hand[i].next # {}
  BY <1>1, <1>2, HandMoves
<1>4. known' = known
  BY <1>2 DEF Pivot
<1>5. Stale' = Stale \ {i}
  BY <1>3, <1>4, HandMoved
<1>6. hand'[i] = h /\ \A k \in Pivoters : k # i => hand'[k] = hand[k]
  BY <1>1, <1>3 DEF CrawlsOK, HandsOK
<1>7. \A p \in Persons : known[p] \subseteq known'[p]
  BY <1>4
<1>8. CASE hand[i].next \subseteq known[hand[i].person]
  <2>1. i \in Stale
    BY <1>3, <1>8 DEF Stale
  <2> QED  BY <1>5, <1>7, <2>1 DEF Descends, Settling
<1>9. CASE ~(hand[i].next \subseteq known[hand[i].person])
  <2>1. Apart(hand[i]) /\ hand[i].person \in Persons /\ K = hand[i].kept \cup hand[i].next
    BY <1>1, <1>3, <1>9, HandMoves DEF KeptBy
  <2>2. PICK v \in hand[i].next : v \notin known[hand[i].person]
    BY <1>9
  <2>3. hand[i].next = {v}
    BY <2>1, <2>2 DEF Apart
  <2>4. i \notin Stale
    BY <2>2, <2>3 DEF Stale
  <2>5. h # Free
    <3>1. "person" \in DOMAIN h /\ "person" \notin DOMAIN Free
      BY DEF Pivoting, Free
    <3> QED  BY <3>1
  <2>6. \A k \in Pivoters : hand[k] # Free => /\ hand'[k] # Free /\ hand'[k].person = hand[k].person
                                              /\ hand[k].kept \subseteq hand'[k].kept
    BY <1>3, <1>6, <2>1, <2>5
  <2>7. ASSUME NEW p \in Persons PROVE Taken(p) \subseteq Taken(p)'
    <3> SUFFICES ASSUME NEW w \in Taken(p) PROVE w \in Taken(p)'
      OBVIOUS
    <3>1. CASE w \in known[p]
      BY <1>4, <3>1 DEF Taken
    <3>2. CASE \E k \in Pivoters : hand[k] # Free /\ hand[k].person = p /\ w \in hand[k].kept
      <4>1. PICK k \in Pivoters : hand[k] # Free /\ hand[k].person = p /\ w \in hand[k].kept
        BY <3>2
      <4>2. k \in Holders(p)' /\ w \in hand'[k].kept
        BY <2>6, <4>1 DEF Holders
      <4> QED  BY <4>2 DEF Taken
    <3> QED  BY <3>1, <3>2, TakenIs
  <2> PICK p : p = hand[i].person
    OBVIOUS
  <2>8. v \notin Taken(p)
    <3>1. ASSUME NEW k \in Pivoters, hand[k] # Free, hand[k].person = p, v \in hand[k].kept PROVE FALSE
      <4>1. CASE k = i
        BY <2>1, <2>2, <3>1, <4>1 DEF Apart
      <4>2. CASE k # i
        BY <1>2, <1>3, <2>2, <3>1, <4>2 DEF WaitsFor
      <4> QED  BY <4>1, <4>2
    <3> QED  BY <2>2, <3>1, TakenIs
  <2>9. v \in Taken(p)'
    <3>1. i \in Holders(p)' /\ v \in hand'[i].kept
      BY <1>3, <1>6, <2>1, <2>2, <2>5 DEF Holders
    <3> QED  BY <3>1 DEF Taken
  <2>10. Taken(p)' # Taken(p) /\ p \in Persons
    BY <2>1, <2>8, <2>9
  <2> QED  BY <1>5, <1>7, <2>4, <2>7, <2>10 DEF Descends, Settling
<1> QED  BY <1>8, <1>9

LEMMA CommitDescends ==
    ASSUME GrowthInv, NEW i \in Pivoters, CommitPivots(i)
    PROVE  Descends
<1>1. CrawlsOK /\ known \in [Persons -> SUBSET Values]
  BY DEF GrowthInv, CrawlsOK
<1> PICK p : p = hand[i].person
  OBVIOUS
<1>2. /\ hand[i] # Free /\ hand[i].todo = {} /\ hand[i].next = {}
      /\ known' = [known EXCEPT ![p] = @ \cup hand[i].kept] /\ hand' = [hand EXCEPT ![i] = Free]
      /\ UNCHANGED <<jobs, results, events, daemon>>
  BY DEF CommitPivots
<1>3. p \in Persons /\ known'[p] = known[p] \cup hand[i].kept
      /\ \A q \in Persons : q # p => known'[q] = known[q]
  BY <1>1, <1>2, HandMoves
<1>4. \A q \in Persons : known[q] \subseteq known'[q]
  BY <1>3
<1>5. CASE known' # known
  BY <1>4, <1>5 DEF Descends
<1>6. CASE known' = known
  <2>1. hand[i].kept \subseteq known[p]
    BY <1>3, <1>6
  <2>2. /\ Stale' = Stale \ {i} /\ \A k \in Pivoters : k # i => HandLeft(k)' = HandLeft(k)
        /\ HandLeft(i)' = 0
    BY <1>2, <1>6, HandMoved
  <2>3. i \notin Stale
    BY <1>2 DEF Stale
  <2>4. hand'[i] = Free /\ \A k \in Pivoters : k # i => hand'[k] = hand[k]
    BY <1>1, <1>2 DEF CrawlsOK, HandsOK
  <2>5. ASSUME NEW q \in Persons PROVE Taken(q)' = Taken(q)
    <3>1. ASSUME NEW w PROVE w \in Taken(q)' <=> w \in Taken(q)
      <4>1. ASSUME w \in Taken(q)' PROVE w \in Taken(q)
        <5>1. CASE w \in known'[q]
          BY <1>6, <5>1 DEF Taken
        <5>2. CASE w \notin known'[q]
          <6>1. PICK k \in Holders(q)' : w \in hand'[k].kept
            BY <4>1, <5>2 DEF Taken
          <6>2. k # i /\ k \in Pivoters /\ k \in Holders(q) /\ w \in hand[k].kept
            BY <2>4, <6>1 DEF Holders
          <6> QED  BY <6>2 DEF Taken
        <5> QED  BY <5>1, <5>2
      <4>2. ASSUME w \in Taken(q) PROVE w \in Taken(q)'
        <5>1. CASE w \in known[q]
          BY <1>6, <5>1 DEF Taken
        <5>2. CASE w \notin known[q]
          <6>1. PICK k \in Holders(q) : w \in hand[k].kept
            BY <4>2, <5>2 DEF Taken
          <6>2. k # i
            BY <2>1, <5>2, <6>1 DEF Holders
          <6>3. k \in Pivoters /\ k \in Holders(q)' /\ w \in hand'[k].kept
            BY <2>4, <6>1, <6>2 DEF Holders
          <6> QED  BY <6>3 DEF Taken
        <5> QED  BY <5>1, <5>2
      <4> QED  BY <4>1, <4>2
    <3> QED  BY <3>1
  <2>6. HandLeft(i)' \in Nat /\ HandLeft(i)' < HandLeft(i)
    <3>1. HandLeft(i) = 1 + 2 * 0 + 0
      BY <1>2, FS_EmptySet DEF HandLeft
    <3> QED  BY <2>2, <3>1
  <2> QED  BY <1>2, <1>6, <2>2, <2>3, <2>5, <2>6, HandDescends
<1> QED  BY <1>5, <1>6

LEMMA IngestDescends ==
    ASSUME GrowthInv, Ingests, faultsG' = faultsG
    PROVE  Descends
<1>1. PICK i \in Pivoters : \/ \E p \in BagToSet(results) : Take(i, p)
                            \/ Look(i) \/ Store(i) \/ StoreFails(i) \/ CommitPivots(i)
  BY DEF Ingests
<1>2. ~StoreFails(i)
  BY DEF StoreFails, GrowthInv, CrawlsOK
<1> QED  BY <1>1, <1>2, TakeDescends, LookDescends, StoreDescends, CommitDescends

-----------------------------------------------------------------------------
(* GrowthDaemon: so does the daemon.                                        *)

LEMMA HandleDescends ==
    ASSUME GrowthInv, Shallow, HandleEvent
    PROVE  \E d \in Depths : LessAt(d) /\ \A c \in Depths : c < d => NoMoreAt(c)
<1> PICK d : d = Head(events).depth
  OBVIOUS
<1>1. /\ daemon = Waiting /\ events # <<>> /\ events' = Tail(events) /\ jobs' = jobs
      /\ daemon' = daemon \/ daemon'.depth = d
  BY DEF HandleEvent, crawlVars
<1>2. /\ events \in Seq(Event) /\ Head(events) = events[1] /\ 1 \in 1..Len(events)
      /\ events[1] \in Event
  BY <1>1 DEF GrowthInv, CrawlsOK
<1>3. d \in Nat /\ d <= MaxDepth /\ d \in Depths
  BY <1>2, GrowthAssumption DEF Shallow, Depths, Event
<1>4. ASSUME NEW c
      PROVE  EventsAt(c) = EventsAt(c)' + (IF d = c THEN 1 ELSE 0) /\ EventsAt(c)' \in Nat
  <2>1. EventsAt(c)' = Cardinality(OfDepth(Tail(events), c))
    BY <1>1 DEF EventsAt, OfDepth
  <2>2. Tail(events) \in Seq(Event)
    BY <1>1, <1>2
  <2> QED  BY <1>1, <1>2, <2>1, <2>2, OfDepthTail, OfDepthFinite, Measured
<1>5. LessAt(d)
  BY <1>1, <1>4, Measured, SameCrawls DEF LessAt
<1>6. ASSUME NEW c \in Depths, c < d PROVE NoMoreAt(c)
  <2>1. TodoAt(c)' <= TodoAt(c)
    <3>1. d # c
      BY <1>3, <1>6, GrowthAssumption DEF Depths
    <3> QED  BY <1>1, <3>1, NoMoreTodo DEF TodoAt
  <2>2. EventsAt(c)' <= EventsAt(c)
    BY <1>4
  <2> QED  BY <1>1, <2>1, <2>2, SameCrawls DEF NoMoreAt
<1> QED  BY <1>3, <1>5, <1>6

LEMMA FanOutDescends ==
    ASSUME GrowthInv, FanOut
    PROVE  \E d \in Depths : LessAt(d) /\ \A c \in Depths : c < d => NoMoreAt(c)
<1>1. PICK v \in daemon.todo, n \in 0..Least(PlatformCount, MaxFanout - daemon.dispatched) :
          /\ jobs' = jobs (+) Copies(n, First(daemon.person, daemon.depth + 1))
          /\ daemon' = [daemon EXCEPT !.todo = @ \ {v}, !.dispatched = @ + n]
  BY DEF FanOut
<1>2. daemon # Waiting /\ events' = events
  BY DEF FanOut
<1>3. /\ daemon \in FanOutState /\ daemon.depth \in Nat /\ daemon.depth < MaxDepth
      /\ daemon.todo \in SUBSET Values /\ daemon.dispatched \in Nat
  BY <1>2 DEF GrowthInv, NumbersOK, FanOutState
<1>4. n \in Nat
  BY <1>3, GrowthAssumption DEF Least
<1> PICK d : d = daemon.depth
  OBVIOUS
<1>5. ASSUME NEW c \in Nat, c <= d PROVE CrawlsNoMore(c)
  BY <1>1, <1>3, <1>4, <1>5, PushedBelow
<1>6. /\ daemon' # Waiting /\ daemon'.depth = d /\ daemon'.todo = daemon.todo \ {v}
  <2>1. "depth" \in DOMAIN daemon' /\ "depth" \notin DOMAIN Waiting
    BY <1>1, <1>3 DEF FanOutState, Waiting
  <2> QED  BY <1>1, <1>3, <2>1 DEF FanOutState
<1>7. Cardinality(daemon.todo) \in Nat /\ Cardinality(daemon'.todo) = Cardinality(daemon.todo) - 1
  <2>1. IsFiniteSet(daemon.todo)
    BY <1>3, GrowthAssumption, FS_Subset
  <2>2. Cardinality(daemon.todo \ {v}) = Cardinality(daemon.todo) - 1
    BY <1>1, <2>1, FS_RemoveElement
  <2> QED  BY <1>6, <2>1, <2>2, FS_CardinalityType
<1>8. EventsAt(d)' = EventsAt(d)
  BY <1>2 DEF EventsAt
<1>9. TodoAt(d)' < TodoAt(d)
  BY <1>2, <1>6, <1>7 DEF TodoAt
<1>10. LessAt(d)
  BY <1>3, <1>5, <1>8, <1>9 DEF LessAt
<1>11. ASSUME NEW c \in Depths, c < d PROVE NoMoreAt(c)
  <2>1. TodoAt(c)' <= TodoAt(c)
    <3>1. c # d
      BY <1>3, <1>11, GrowthAssumption DEF Depths
    <3> QED  BY <1>6, <3>1 DEF TodoAt
  <2> QED  BY <1>2, <1>3, <1>5, <1>11, <2>1, SameEvents, GrowthAssumption DEF NoMoreAt, Depths
<1> QED  BY <1>3, <1>10, <1>11, GrowthAssumption DEF Depths

LEMMA EndDescends ==
    ASSUME GrowthInv, EndFanOut
    PROVE  \E d \in Depths : LessAt(d) /\ \A c \in Depths : c < d => NoMoreAt(c)
<1>1. daemon # Waiting /\ daemon' = Waiting /\ UNCHANGED <<jobs, events>>
  BY DEF EndFanOut, crawlVars
<1> PICK d : d = daemon.depth
  OBVIOUS
<1>2. d \in Nat /\ d < MaxDepth /\ daemon.todo \in SUBSET Values
  BY <1>1 DEF GrowthInv, NumbersOK, FanOutState
<1>3. Cardinality(daemon.todo) \in Nat
  BY <1>2, GrowthAssumption, FS_Subset, FS_CardinalityType
<1>4. TodoAt(d)' < TodoAt(d) /\ EventsAt(d)' = EventsAt(d)
  BY <1>1, <1>3 DEF TodoAt, EventsAt
<1>5. LessAt(d)
  BY <1>1, <1>4, SameCrawls DEF LessAt
<1>6. ASSUME NEW c PROVE NoMoreAt(c)
  BY <1>1, SameCrawls, SameEvents, NoMoreTodo DEF NoMoreAt
<1> QED  BY <1>2, <1>5, <1>6, GrowthAssumption DEF Depths

\* Time adds nothing.
LEMMA TimeDescends ==
    ASSUME GrowthInv, Midnight \/ \E p \in Persons : CooldownEnds(p)
    PROVE  Descends
<1>1. UNCHANGED <<known, hand, jobs, results, events, daemon>>
  BY DEF Midnight, CooldownEnds, crawlVars
<1>2. \A d \in Depths : NoMoreAt(d)
  BY <1>1, OnlyHands
<1>3. \A k \in Pivoters : HandLeft(k)' <= HandLeft(k)
  BY <1>1, Unnoticed, Measured
<1> QED  BY <1>1, <1>2, <1>3, Unnoticed DEF Descends, Settling

LEMMA StepDescends ==
    ASSUME GrowthInv, Shallow, GrowthNext,
           searches' = searches, refusals' = refusals, faultsG' = faultsG
    PROVE  Descends
<1>1. searches' # searches + 1 /\ faultsG' # faultsG + 1
  BY GrowthAssumption DEF GrowthInv, CrawlsOK
<1>2. /\ ~(\E p \in Persons, v \in Values : Search(p, v)) /\ ~(\E p \in Persons : Announce(p))
      /\ ~(\E i \in Pivoters : PivotsLost(i)) /\ ~FanOutFails /\ ~Restart
  BY <1>1 DEF Search, Announce, PivotsLost, FanOutFails, Restart
<1>3. CASE Ingests
  BY <1>3, IngestDescends
<1>4. CASE Crawls
  BY <1>4, CrawlDescends
<1>5. CASE HandleEvent \/ FanOut \/ EndFanOut
  <2>1. \E d \in Depths : LessAt(d) /\ \A c \in Depths : c < d => NoMoreAt(c)
    BY <1>5, HandleDescends, FanOutDescends, EndDescends
  <2>2. known' = known /\ hand' = hand
    BY <1>5 DEF HandleEvent, FanOut, EndFanOut, crawlVars
  <2> QED  BY <2>1, <2>2, DepthDescends
<1>6. CASE Midnight \/ \E p \in Persons : CooldownEnds(p)
  BY <1>6, TimeDescends
<1> QED  BY <1>2, <1>3, <1>4, <1>5, <1>6 DEF GrowthNext

\* Between searches, refusals and faults every step of the cascade leaves less to do, in
\* an order that cannot go down for ever: a crawl is made again with a try less, or leads
\* to work at its own depth that is nearer to its end or to crawls one level deeper; and
\* only a row that was not there starts again at depth 1, or one that another ingester
\* has stored in the meantime (growth_daemon.py:130-181, dispatcher.py:219-254,
\* pivot_enricher.py:228-340).
THEOREM CascadeDescendsCorrect == GrowthSpec => CascadeDescends
<1>1. GrowthInv /\ Shallow /\ [GrowthNext]_growthVars
          => [searches' = searches /\ refusals' = refusals /\ faultsG' = faultsG => Descends]_growthVars
  BY StepDescends
<1> QED  BY <1>1, GrowthShallow, PTL DEF GrowthSpec, CascadeDescends

-----------------------------------------------------------------------------
(* FreshnessScheduler: what is not among the oldest n is behind n others.   *)

LEMMA NotOldest ==
    ASSUME NEW S, IsFiniteSet(S), NEW n \in Nat, NEW T \in Oldest(S, n), NEW p \in S \ T,
           NEW U, IsFiniteSet(U),
           \A q \in S : q # p /\ age[q] >= age[p] => q \in U
    PROVE  Cardinality(U) >= n
<1>1. /\ T \subseteq S /\ Cardinality(T) = (IF Cardinality(S) < n THEN Cardinality(S) ELSE n)
      /\ \A r \in T, q \in S \ T : age[r] >= age[q]
  BY DEF Oldest
<1>2. Cardinality(S) \in Nat /\ Cardinality(U) \in Nat /\ Cardinality(T) \in Nat /\ IsFiniteSet(T)
  BY <1>1, FS_Subset, FS_CardinalityType
<1>3. Cardinality(T) # Cardinality(S)
  BY <1>1, FS_Subset
<1>4. Cardinality(T) = n
  BY <1>1, <1>2, <1>3
<1>5. T \subseteq U
  BY <1>1
<1> QED  BY <1>2, <1>4, <1>5, FS_Subset

\* Who is overdue and not behind others when a scan begins is served by it.
LEMMA LateIsStale ==
    ASSUME FreshTypeOK, NEW read \in Candidates,
           NEW stale \in Oldest({p \in read : Overdue(p)}, BatchSize),
           NEW p \in Profiles, Overdue(p), ~Behind(p)
    PROVE  p \in stale
<1> DEFINE C == {q \in Profiles : age[q] > ShortestSla}
           D == {q \in read : Overdue(q)}
           older == {q \in Profiles \ {p} : age[q] >= age[p]}
           U == {q \in older : age[q] > ShortestSla}
           V == {q \in older : Overdue(q)}
<1>1. /\ \A q \in Profiles : age[q] \in Nat /\ Sla[q] \in Nat /\ Sla[q] >= ShortestSla
      /\ ShortestSla \in Nat /\ Window \in Nat /\ BatchSize \in Nat
  BY FreshnessAssumption DEF FreshTypeOK
<1>2. read \in Oldest(C, Window) /\ read \subseteq C /\ C \subseteq Profiles /\ D \subseteq Profiles
  BY DEF Candidates, Oldest
<1>3. IsFiniteSet(C) /\ IsFiniteSet(D) /\ IsFiniteSet(U) /\ IsFiniteSet(V)
  BY <1>2, FS_Subset, FreshnessAssumption
<1>4. Cardinality(U) \in Nat /\ Cardinality(V) \in Nat
  BY <1>3, FS_CardinalityType
<1>5. ~(Cardinality(U) >= Window) /\ ~(Cardinality(V) >= BatchSize)
  BY DEF Behind
<1>6. p \in C
  BY <1>1 DEF Overdue
<1>7. \A q \in C : q # p /\ age[q] >= age[p] => q \in U
  OBVIOUS
<1>8. \A q \in D : q # p /\ age[q] >= age[p] => q \in V
  BY <1>2
<1> HIDE DEF C, D, U, V
<1>9. p \in read
  BY <1>1, <1>2, <1>3, <1>5, <1>6, <1>7, NotOldest
<1>10. p \in D
  BY <1>9 DEF D
<1> QED  BY <1>1, <1>3, <1>5, <1>8, <1>10, NotOldest DEF D

-----------------------------------------------------------------------------

\* A scan owes a row to those it has found late: they are still to be served, have
\* their row in its transaction, or have one already.
FreshInv ==
    /\ FreshTypeOK
    /\ scan.on => scan.late \subseteq scan.stale \cup scan.added \cup queued

LEMMA FreshStarts == FreshInit => FreshInv
  BY FreshnessAssumption DEF FreshInit, FreshInv, FreshTypeOK, Scan, NoScan

LEMMA StartScanStep ==
    ASSUME FreshInv, StartScan
    PROVE  FreshInv'
<1>1. PICK read \in Candidates : \E stale \in Oldest({p \in read : Overdue(p)}, BatchSize) :
          scan' = [on |-> TRUE, stale |-> stale, added |-> {}, sent |-> {},
                   late |-> {p \in Profiles : Overdue(p) /\ ~Behind(p)}]
  BY DEF StartScan
<1>2. PICK stale \in Oldest({p \in read : Overdue(p)}, BatchSize) :
          scan' = [on |-> TRUE, stale |-> stale, added |-> {}, sent |-> {},
                   late |-> {p \in Profiles : Overdue(p) /\ ~Behind(p)}]
  BY <1>1
<1> DEFINE late == {p \in Profiles : Overdue(p) /\ ~Behind(p)}
<1>3. FreshTypeOK /\ UNCHANGED <<age, queued, crawls, scanFails>>
  BY DEF StartScan, FreshInv
<1>4. late \subseteq stale
  BY <1>3, LateIsStale
<1>5. stale \subseteq Profiles /\ late \subseteq Profiles
  BY DEF Oldest, Candidates
<1> HIDE DEF late
<1>6. scan' = [on |-> TRUE, stale |-> stale, added |-> {}, sent |-> {}, late |-> late]
  BY <1>2 DEF late
<1>7. scan' \in Scan /\ scan'.late \subseteq scan'.stale
  BY <1>4, <1>5, <1>6 DEF Scan
<1> QED  BY <1>3, <1>7 DEF FreshInv, FreshTypeOK

LEMMA EnqueueStep ==
    ASSUME FreshInv, Enqueue
    PROVE  FreshInv'
<1>1. FreshTypeOK /\ scan \in Scan /\ scan.on /\ UNCHANGED <<age, queued, scanFails>>
  BY DEF FreshInv, FreshTypeOK, Enqueue
<1>2. PICK p \in scan.stale :
          \/ IsQueued(p) /\ scan' = [scan EXCEPT !.stale = @ \ {p}] /\ UNCHANGED crawls
          \/ scan' = [scan EXCEPT !.stale = @ \ {p}, !.added = @ \cup {p}] /\ UNCHANGED crawls
          \/ /\ scan' = [scan EXCEPT !.stale = @ \ {p}, !.added = @ \cup {p}, !.sent = @ \cup {p}]
             /\ crawls' = crawls \cup {p}
  BY DEF Enqueue
<1>3. p \in Profiles
  BY <1>1 DEF Scan
<1>4. /\ scan' = [on |-> TRUE, stale |-> scan'.stale, added |-> scan'.added, sent |-> scan'.sent,
                   late |-> scan.late]
      /\ scan'.stale = scan.stale \ {p}
      /\ scan'.added \in {scan.added, scan.added \cup {p}} /\ scan'.sent \in {scan.sent, scan.sent \cup {p}}
      /\ p \in queued \cup scan'.added
  BY <1>1, <1>2 DEF Scan, IsQueued
<1>5. scan.stale \subseteq Profiles /\ scan.added \subseteq Profiles /\ scan.sent \subseteq Profiles
      /\ scan.late \subseteq Profiles
  BY <1>1 DEF Scan
<1>6. scan' \in Scan
  <2>1. \A A, B, C, D \in SUBSET Profiles :
            [on |-> TRUE, stale |-> A, added |-> B, sent |-> C, late |-> D] \in Scan
    BY DEF Scan
  <2>2. {scan'.stale, scan'.added, scan'.sent, scan.late} \subseteq SUBSET Profiles
    BY <1>3, <1>4, <1>5
  <2> QED  BY <1>4, <2>1, <2>2
<1>7. scan'.late \subseteq scan'.stale \cup scan'.added \cup queued
  BY <1>1, <1>4 DEF FreshInv
<1>8. crawls' \subseteq Profiles
  BY <1>1, <1>2, <1>3 DEF FreshTypeOK
<1> QED  BY <1>1, <1>6, <1>7, <1>8 DEF FreshInv, FreshTypeOK

LEMMA FreshStep == FreshInv /\ [FreshNext]_freshVars => FreshInv'
<1> SUFFICES ASSUME FreshInv, [FreshNext]_freshVars PROVE FreshInv'
  OBVIOUS
<1>0. FreshTypeOK /\ NoScan \in Scan /\ ~NoScan.on
  BY DEF FreshInv, Scan, NoScan
<1>1. CASE UNCHANGED freshVars
  BY <1>1 DEF freshVars, FreshInv, FreshTypeOK
<1>2. CASE EndScan \/ FailScan
  BY <1>0, <1>2, FreshnessAssumption DEF EndScan, FailScan, FreshInv, FreshTypeOK, Scan
<1>3. CASE Day
  BY <1>3, FreshnessAssumption DEF Day, FreshInv, FreshTypeOK
<1>4. ASSUME NEW p \in Profiles, Rescrape(p) PROVE FreshInv'
  BY <1>4, FreshnessAssumption DEF Rescrape, FreshInv, FreshTypeOK
<1> QED  BY <1>1, <1>2, <1>3, <1>4, StartScanStep, EnqueueStep DEF FreshNext

LEMMA FreshInvariant == FreshSpec => []FreshInv
  BY FreshStarts, FreshStep, PTL DEF FreshSpec

\* The queue, the profiles and the scan under way keep their types
\* (freshness_scheduler.py:109-155).
THEOREM FreshTypeCorrect == FreshSpec => []FreshTypeOK
<1>1. FreshInv => FreshTypeOK
  BY DEF FreshInv
<1> QED  BY <1>1, FreshInvariant, PTL

\* A scan that commits leaves no late profile without a row, for any numbers of
\* profiles, intervals and days (freshness_scheduler.py:109-155).
THEOREM OverdueIsQueuedCorrect == FreshSpec => OverdueIsQueued
<1>1. FreshInv /\ EndScan => scan.late \subseteq queued'
  BY DEF FreshInv, EndScan
<1>2. FreshInv /\ [FreshNext]_freshVars => [EndScan => scan.late \subseteq queued']_freshVars
  BY <1>1
<1> QED  BY <1>2, FreshInvariant, PTL DEF FreshSpec, OverdueIsQueued
=============================================================================
