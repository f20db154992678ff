--------------------------- MODULE PeopleBuilder ---------------------------
(***************************************************************************)
(* Builder jobs: tasks of the API process that discover names, find or     *)
(* create their persons one by one, link them to the job and announce them *)
(* to the growth daemon, filter and expand them.  A cancellation sets a    *)
(* flag that the task looks at between steps, and writes the status of the *)
(* job at the same time as the task does.                                  *)
(***************************************************************************)
EXTENDS Naturals, FiniteSets

CONSTANTS
    Builds,        \* builder jobs
    Names,         \* persons by name and date of birth
    MaxResults,    \* max_results
    MaxKills       \* bound of the model: kills of the API process, failed writes of an end

ASSUME BuilderAssumption == MaxResults \in Nat \ {0} /\ MaxKills \in Nat

VARIABLES
    people,      \* people[n]: unmerged rows of persons with the name
    row,         \* row[j]: status of the job, "none" before the insert is committed
    active,      \* active[j]: _active_jobs: "absent", "running" or "cancelled"
    task,        \* task[j]: the pipeline of the job
    cancelling,  \* jobs whose cancellation has set the flag and not the status
    linked,       \* linked[j][n]: phase of BuilderJobPerson, "none" without a row
    kills,       \* history: number of kills and such failures
    histB        \* history: see HistoryB

builderVars == <<people, row, active, task, cancelling, linked, kills, histB>>

Final  == {"complete", "failed", "cancelled"}
Status == {"none", "pending", "discovering", "building", "filtering", "expanding"} \cup Final
PC     == {"none", "created", "start", "discover", "build?", "build", "insert", "filter?", "filter",
           "expand?", "expand", "complete", "leave", "failing", "over"}
Task   == [pc : PC, todo : SUBSET Names, name : SUBSET Names, create : BOOLEAN,
           built : SUBSET Names, passed : SUBSET Names]
NoTask == [pc |-> "none", todo |-> {}, name |-> {}, create |-> FALSE, built |-> {}, passed |-> {}]

\* Jobs whose cancelled status the task overwrote, those whose task or cancellation
\* was killed or could not write its failure, those of which a request failed after
\* its first effect (a row without a task, a flag without a status), and persons that
\* were gone when the job filtered them.
HistoryB == [overwritten : SUBSET Builds, killed : SUBSET Builds, halfway : SUBSET Builds,
             gone : SUBSET (Builds \X Names)]

BuilderInit ==
    /\ people = [n \in Names |-> 0]
    /\ row = [j \in Builds |-> "none"]
    /\ active = [j \in Builds |-> "absent"]
    /\ task = [j \in Builds |-> NoTask]
    /\ cancelling = {}
    /\ linked = [j \in Builds |-> [n \in Names |-> "none"]]
    /\ kills = 0
    /\ histB = [overwritten |-> {}, killed |-> {}, halfway |-> {}, gone |-> {}]

Smaller(a, b) == IF a < b THEN a ELSE b

In(j, pc)    == task[j].pc = pc
To(j, pc)    == task' = [task EXCEPT ![j].pc = pc]
Cancelled(j) == active[j] = "cancelled"

\* Mutant: the flag is not looked at between two phases.
Proceed_NoCheck(j, pc) == pc

\* The check between two phases, made without a pause after the phase's last await.
Proceed(j, pc) == IF Cancelled(j) THEN "leave" ELSE pc

\* An update without a look at the status that is there.
Write(j, status) ==
    /\ row' = [row EXCEPT ![j] = status]
    /\ histB' = IF row[j] = "cancelled" THEN [histB EXCEPT !.overwritten = @ \cup {j}] ELSE histB

-----------------------------------------------------------------------------
(* Start and cancellation.                                                  *)

\* start_discovery commits the row before the task exists.
Create(j) ==
    /\ In(j, "none")
    /\ row' = [row EXCEPT ![j] = "pending"]
    /\ To(j, "created")
    /\ UNCHANGED <<people, active, cancelling, linked, kills, histB>>

Launch(j) ==
    /\ In(j, "created")
    /\ active' = [active EXCEPT ![j] = "running"]
    /\ To(j, "start")
    /\ UNCHANGED <<people, row, cancelling, linked, kills, histB>>

Cancel(j) ==
    /\ active[j] # "absent" /\ j \notin cancelling
    /\ active' = [active EXCEPT ![j] = "cancelled"]
    /\ cancelling' = cancelling \cup {j}
    /\ UNCHANGED <<people, row, task, linked, kills, histB>>

CancelCommit(j) ==
    /\ j \in cancelling
    /\ row' = [row EXCEPT ![j] = "cancelled"]
    /\ cancelling' = cancelling \ {j}
    /\ UNCHANGED <<people, active, task, linked, kills, histB>>

-----------------------------------------------------------------------------
(* The pipeline.                                                            *)

\* The status of the next phase.
Enter(j, at, status, pc) ==
    /\ In(j, at)
    /\ Write(j, status) /\ To(j, pc)
    /\ UNCHANGED <<people, active, cancelling, linked, kills>>

EnterDiscover(j) == Enter(j, "start", "discovering", "discover")
EnterBuild(j)    == Enter(j, "build?", "building", "build")
EnterFilter(j)   == Enter(j, "filter?", "filtering", "filter")
EnterExpand(j)   == Enter(j, "expand?", "expanding", "expand")
EnterComplete(j) == Enter(j, "complete", "complete", "leave")

\* Sources may fail, and a cancellation stops between two of them.
Discover(j) == \E found \in SUBSET Names :
    /\ In(j, "discover")
    /\ Cardinality(found) <= 2 * MaxResults
    /\ task' = [task EXCEPT ![j].pc = Proceed(j, "build?"), ![j].todo = found]
    /\ UNCHANGED <<people, row, active, cancelling, linked, kills, histB>>

LookUp(j) == \E n \in task[j].todo :
    /\ In(j, "build") /\ ~Cancelled(j)
    /\ task' = [task EXCEPT ![j].pc = "insert", ![j].todo = @ \ {n}, ![j].name = {n},
                            ![j].create = people[n] = 0]
    /\ UNCHANGED <<people, row, active, cancelling, linked, kills, histB>>

\* The person that was not found is created; it is linked and announced.
Insert(j) == \E n \in task[j].name :
    /\ In(j, "insert")
    /\ people' = IF task[j].create THEN [people EXCEPT ![n] = @ + 1] ELSE people
    /\ linked' = [linked EXCEPT ![j][n] = "built"]
    /\ task' = [task EXCEPT ![j].pc = "build", ![j].built = @ \cup {n}, ![j].name = {}]
    /\ UNCHANGED <<row, active, cancelling, kills, histB>>

EndBuild(j) ==
    /\ In(j, "build") /\ (task[j].todo = {} \/ Cancelled(j))
    /\ To(j, Proceed(j, "filter?"))
    /\ UNCHANGED <<people, row, active, cancelling, linked, kills, histB>>

\* The criteria are applied in one transaction, to the persons that still exist
\* and until a cancellation; the best of those that pass go on.
Filter(j) ==
    \E gone \in SUBSET task[j].built :
    \E seen \in SUBSET (task[j].built \ gone) : \E good \in SUBSET seen : \E passed \in SUBSET good :
        /\ In(j, "filter")
        /\ Cancelled(j) \/ seen = task[j].built \ gone
        /\ Cardinality(passed) = Smaller(MaxResults, Cardinality(good))
        /\ linked' = [linked EXCEPT ![j] = [n \in Names |->
               IF n \in good THEN "filtered_in" ELSE IF n \in seen THEN "filtered_out" ELSE @[n]]]
        /\ task' = [task EXCEPT ![j].pc = Proceed(j, "expand?"), ![j].passed = passed]
        /\ histB' = [histB EXCEPT !.gone = @ \cup ({j} \X gone)]
        /\ UNCHANGED <<people, row, active, cancelling, kills>>

\* The expansion is announced and, cancelled or not, the job becomes complete.
Expand(j) ==
    /\ In(j, "expand")
    /\ To(j, "complete")
    /\ UNCHANGED <<people, row, active, cancelling, linked, kills, histB>>

\* The finally clause.
Leave(j) ==
    /\ In(j, "leave")
    /\ active' = [active EXCEPT ![j] = "absent"]
    /\ To(j, "over")
    /\ UNCHANGED <<people, row, cancelling, linked, kills, histB>>

-----------------------------------------------------------------------------
(* Failures.                                                                *)

Running(j) == task[j].pc \notin {"none", "created", "failing", "leave", "over"}

Kill == kills < MaxKills /\ kills' = kills + 1

\* The committed row cannot be read again: the request ends without a task.
LaunchFails(j) ==
    /\ In(j, "created") /\ Kill /\ To(j, "over")
    /\ histB' = [histB EXCEPT !.halfway = @ \cup {j}]
    /\ UNCHANGED <<people, row, active, cancelling, linked>>

\* The flag is set and the status cannot be written: the task will leave at its next
\* check, with the row as it is.
CancelFails(j) ==
    /\ j \in cancelling /\ Kill
    /\ cancelling' = cancelling \ {j}
    /\ histB' = [histB EXCEPT !.halfway = @ \cup {j}]
    /\ UNCHANGED <<people, row, active, task, linked>>

\* An error anywhere in the pipeline.
Fails(j) ==
    /\ Running(j) /\ To(j, "failing")
    /\ UNCHANGED <<people, row, active, cancelling, linked, kills, histB>>

\* Mutant: the error is logged and the status left as it is.
WriteFailed_LogOnly(j) ==
    /\ In(j, "failing") /\ To(j, "leave")
    /\ UNCHANGED <<people, row, active, cancelling, linked, kills, histB>>

WriteFailed(j) ==
    /\ In(j, "failing")
    /\ Write(j, "failed") /\ To(j, "leave")
    /\ UNCHANGED <<people, active, cancelling, linked, kills>>

\* The failure cannot be written either; the finally clause still runs.
WriteFailedFails(j) ==
    /\ In(j, "failing") /\ Kill /\ To(j, "leave")
    /\ histB' = [histB EXCEPT !.killed = @ \cup {j}]
    /\ UNCHANGED <<people, row, active, cancelling, linked>>

\* The API process ends, and with it every task; nothing takes a job up again.
KillApi ==
    /\ Kill
    /\ LET alive == {j \in Builds : task[j].pc \notin {"none", "over"}}
       IN /\ task' = [j \in Builds |-> IF j \in alive THEN [task[j] EXCEPT !.pc = "over"]
                                       ELSE task[j]]
          /\ histB' = [histB EXCEPT !.killed = @ \cup alive \cup cancelling]
    /\ active' = [j \in Builds |-> "absent"]
    /\ cancelling' = {}
    /\ UNCHANGED <<people, row, linked>>

-----------------------------------------------------------------------------

Pipeline(j) ==
    \/ EnterDiscover(j) \/ Discover(j)
    \/ EnterBuild(j) \/ LookUp(j) \/ Insert(j) \/ EndBuild(j)
    \/ EnterFilter(j) \/ Filter(j)
    \/ EnterExpand(j) \/ Expand(j) \/ EnterComplete(j)
    \/ WriteFailed(j) \/ Leave(j)

BuilderNext ==
    \/ \E j \in Builds : \/ Create(j) \/ Launch(j) \/ Cancel(j) \/ CancelCommit(j)
                         \/ Pipeline(j) \/ Fails(j) \/ WriteFailedFails(j)
                         \/ LaunchFails(j) \/ CancelFails(j)
    \/ KillApi

BuilderSpec == BuilderInit /\ [][BuilderNext]_builderVars

-----------------------------------------------------------------------------
(* Properties.                                                              *)

BuilderTypeOK ==
    /\ people \in [Names -> Nat]
    /\ row \in [Builds -> Status]
    /\ active \in [Builds -> {"absent", "running", "cancelled"}]
    /\ task \in [Builds -> Task]
    /\ cancelling \subseteq Builds
    /\ linked \in [Builds -> [Names -> {"none", "built", "filtered_in", "filtered_out"}]]
    /\ kills \in 0..MaxKills /\ histB \in HistoryB

\* A job that nobody works on has a final status, unless its task was killed or
\* could not write its failure, it overwrote the status of a cancellation with that
\* of its next phase, which it then left, or a request of its own failed between the
\* flag and the status or between the row and the task (discovery_engine.py:49-147).
SettledUnlessRaced == \A j \in Builds :
    In(j, "over") /\ j \notin cancelling => row[j] \in Final \/ j \in histB.killed \cup histB.halfway \cup histB.overwritten

\* The results of a job are the persons that passed its filter: once it is complete,
\* every person it built was judged or is gone (builder.py:117-123).
CompleteIsFiltered == \A j \in Builds, n \in Names :
    row[j] = "complete" /\ linked[j][n] = "built" => <<j, n>> \in histB.gone
=============================================================================
