------------------------ MODULE ResultPipelineProofs ------------------------
(***************************************************************************)
(* Theorems about ResultPipeline and the stream of SearchProgress next to  *)
(* it, for any number of crawls, ingesters, retries, faults and crashes:   *)
(* every variable keeps its type, data that is stored and not indexed has  *)
(* an index request under way, and the pipeline implements ResultDelivery, *)
(* watched or not: a result that is under way is stored once or lost to an *)
(* error that is accounted for, and the search document stops showing data *)
(* only for another address or another person.  In the stream the          *)
(* percentage stays in the range of its phase, every report that was       *)
(* published is counted once, and what it says of a crawl is what that is  *)
(* doing, unless an event about it was lost.                               *)
(***************************************************************************)
EXTENDS SearchProgress, FiniteSetTheorems, FunctionTheorems, TLAPS

-----------------------------------------------------------------------------
(* Events, tasks and the work of ingesters.                                 *)

\* What the actions publish are events.
LEMMA OfType ==
    ASSUME NEW type \in EventType, NEW j \in Jobs, NEW processed \in Nat, NEW total \in Nat
    PROVE  Of(type, j, processed, total) \in Event
BY DEF Of, Event

\* Publishing an event keeps the queue of the stream a sequence of events.
LEMMA PublishType ==
    ASSUME inbox \in Seq(Event), NEW e \in Event, Publish(e)
    PROVE  inbox' \in Seq(Event)
BY DEF Publish

\* So does an attempt to publish one, within the bound on faults.
LEMMA EmitType ==
    ASSUME TypeOK, NEW e \in Event, Emit(e)
    PROVE  inbox' \in Seq(Event) /\ faults' \in 0..MaxFaults
BY PublishType, ConstantsAssumption DEF Emit, Swallowed, Fault, TypeOK

LEMMA TellType ==
    ASSUME TypeOK, NEW type \in EventType, NEW j \in Jobs, Tell(j, type)
    PROVE  inbox' \in Seq(Event) /\ faults' \in 0..MaxFaults /\ silent' \in SUBSET Jobs
<1>1. Of(type, j, 0, 0) \in Event
  BY OfType
<1> QED  BY <1>1, PublishType, ConstantsAssumption DEF Tell, Swallowed, Fault, TypeOK

\* Moving a task, and updating a row.
LEMMA ToType ==
    ASSUME TypeOK, NEW j \in Jobs, NEW k \in Attempts, NEW t \in {Free} \cup Task, To(j, k, t)
    PROVE  run' \in [Jobs -> [Attempts -> {Free} \cup Task]]
BY DEF To, TypeOK

LEMMA RowType ==
    ASSUME TypeOK, NEW j \in Jobs, NEW s \in Row, SetRow(j, s)
    PROVE  row' \in [Jobs -> Row]
BY DEF SetRow, TypeOK

\* An attempt that is under way is a task.
LEMMA TaskType ==
    ASSUME TypeOK, NEW j \in Jobs, NEW k \in Attempts, run[j][k].pc # "free"
    PROVE  run[j][k] \in Task
BY DEF TypeOK, Free

\* An ingester that is not idle has a job.
LEMMA BusyType ==
    ASSUME ing \in [Ingesters -> {NoWork} \cup BusyWork], NEW i \in Ingesters,
           ing[i].pc # "idle"
    PROVE  ing[i] \in BusyWork /\ ing[i].job \in Jobs
BY DEF NoWork, BusyWork

\* A step of an ingester from one place to another keeps its type.
LEMMA WorkType ==
    ASSUME ing \in [Ingesters -> {NoWork} \cup BusyWork], NEW i \in Ingesters,
           ing[i].pc # "idle", NEW pc \in Ingesting, Work(i, pc)
    PROVE  ing' \in [Ingesters -> {NoWork} \cup BusyWork]
BY BusyType DEF Work, BusyWork

\* So does its end.
LEMMA StopWorkType ==
    ASSUME ing \in [Ingesters -> {NoWork} \cup BusyWork], NEW i \in Ingesters, StopWork(i)
    PROVE  ing' \in [Ingesters -> {NoWork} \cup BusyWork]
BY DEF StopWork

\* The ingesters that write a crawl's result are counted by a natural number.
LEMMA WritingCount ==
    ASSUME NEW j \in Jobs
    PROVE  Cardinality(Writing(j)) \in Nat
BY ConstantsAssumption, FS_Subset, FS_CardinalityType DEF Writing

-----------------------------------------------------------------------------
(* The type invariant.                                                      *)

\* What the steps of a crawl leave alone.
LEMMA CrawlRest ==
    ASSUME NEW j \in Jobs, Crawls(j)
    PROVE  /\ UNCHANGED <<ing, writes, corr, merged, indexQ, indexer, shown, indexed, listening>>
           /\ UNCHANGED <<completed, losses, missed, raced, crashes, merges>>
BY DEF Crawls, CrawlStep, StartCrawl, StartFails, FoundResult, NoResult, SettleCrawl,
       ReportCrawl, CheckSearchComplete, CrawlFails, HandlerFails, Redispatch, CrawlFrame,
       personVars, indexVars, history

\* The steps of an attempt keep the types.
LEMMA AttemptType ==
    ASSUME TypeOK, NEW j \in Jobs, NEW k \in Attempts,
           CrawlStep(j, k) \/ CrawlFails(j, k) \/ HandlerFails(j, k)
    PROVE  TypeOK'
<1> USE DEF taskHistory
<1>0. UNCHANGED <<ing, writes, corr, merged, indexQ, indexer, shown, indexed, listening,
                  completed, losses, missed, raced, crashes, merges>>
  BY CrawlRest DEF Crawls
<1>m ASSUME NoMsg \/ MsgAgain(j)
     PROVE  retries' \in [Jobs -> 0..MaxRetries] /\ msgs' \in [Jobs -> Nat]
  <2>1. CASE NoMsg
    BY <2>1 DEF NoMsg, TypeOK
  <2>2. CASE MsgAgain(j)
    BY <2>2, ConstantsAssumption DEF MsgAgain, TypeOK
  <2> QED  BY <1>m, <2>1, <2>2
<1>f ASSUME Fault
     PROVE  faults' \in 0..MaxFaults
  BY <1>f, ConstantsAssumption DEF Fault, TypeOK
<1>g ASSUME GiveUp(j, k)
     PROVE  /\ run' \in [Jobs -> [Attempts -> {Free} \cup Task]]
            /\ silent' \in SUBSET Jobs
  BY <1>g, ToType DEF GiveUp, TypeOK
<1>t ASSUME NEW p \in Unreported \cup {"reported"}, run[j][k].pc # "free",
            To(j, k, [run[j][k] EXCEPT !.pc = p])
     PROVE  run' \in [Jobs -> [Attempts -> {Free} \cup Task]]
  <2>1. [run[j][k] EXCEPT !.pc = p] \in Task
    BY TaskType, <1>t DEF Task
  <2> QED  BY <1>t, <2>1, ToType
<1>1. CASE StartCrawl(j, k)
  <2>1. inbox' \in Seq(Event) /\ faults' \in 0..MaxFaults /\ silent' \in SUBSET Jobs
    BY <1>1, TellType DEF StartCrawl, EventType
  <2>2. msgs' \in [Jobs -> Nat]
    BY <1>1 DEF StartCrawl, TypeOK
  <2>3. run' \in [Jobs -> [Attempts -> {Free} \cup Task]]
    BY <1>1, ToType DEF StartCrawl, Task, Unreported, Verdict
  <2>4. row' \in [Jobs -> Row]
    BY <1>1, RowType DEF StartCrawl, Row
  <2>5. overlapped' \in SUBSET Jobs
    BY <1>1 DEF StartCrawl, TypeOK
  <2> QED  BY <1>0, <1>1, <2>1, <2>2, <2>3, <2>4, <2>5 DEF StartCrawl, TypeOK
<1>2. CASE FoundResult(j, k)
  <2>1. run' \in [Jobs -> [Attempts -> {Free} \cup Task]]
    BY <1>2, ToType DEF FoundResult, Task, Unreported, Verdict
  <2>2. pushes' \in [Jobs -> Nat]
    BY <1>2 DEF FoundResult, TypeOK
  <2>3. ingestQ' \in Seq(Jobs)
    BY <1>2 DEF FoundResult, TypeOK
  <2> QED  BY <1>0, <1>2, <2>1, <2>2, <2>3 DEF FoundResult, TypeOK
<1>3. CASE NoResult(j, k)
  <2>1. retries' \in [Jobs -> 0..MaxRetries] /\ msgs' \in [Jobs -> Nat]
    BY <1>3, <1>m DEF NoResult
  <2>2. run' \in [Jobs -> [Attempts -> {Free} \cup Task]]
    <3>1. PICK v \in {"empty", "refused", "failed"} : To(j, k, [pc |-> "ended", verdict |-> v])
      BY <1>3 DEF NoResult
    <3> QED  BY <3>1, ToType DEF Task, Unreported, Verdict
  <2> QED  BY <1>0, <1>3, <2>1, <2>2 DEF NoResult, TypeOK
<1>4. CASE SettleCrawl(j, k)
  <2>1. run' \in [Jobs -> [Attempts -> {Free} \cup Task]]
    BY <1>4, <1>t DEF SettleCrawl, Unreported
  <2>2. row' \in [Jobs -> Row]
    BY <1>4, RowType DEF SettleCrawl, Row
  <2> QED  BY <1>0, <1>4, <2>1, <2>2 DEF SettleCrawl, TypeOK
<1>5. CASE ReportCrawl(j, k)
  <2>1. run' \in [Jobs -> [Attempts -> {Free} \cup Task]]
    BY <1>5, <1>t DEF ReportCrawl
  <2>2. inbox' \in Seq(Event) /\ faults' \in 0..MaxFaults /\ silent' \in SUBSET Jobs
    BY <1>5, TellType DEF ReportCrawl, EventType
  <2> QED  BY <1>0, <1>5, <2>1, <2>2 DEF ReportCrawl, TypeOK
<1>6. CASE CheckSearchComplete(j, k)
  <2>1. run' \in [Jobs -> [Attempts -> {Free} \cup Task]]
    BY <1>6, ToType DEF CheckSearchComplete
  <2>2. Of("dedup_running", j, 0, 1) \in Event
    BY OfType DEF EventType
  <2>3. inbox' \in Seq(Event) /\ faults' \in 0..MaxFaults
    BY <1>6, <2>2, EmitType DEF CheckSearchComplete, TypeOK
  <2> QED  BY <1>0, <1>6, <2>1, <2>3 DEF CheckSearchComplete, TypeOK
<1>7. CASE CrawlFails(j, k)
  <2>1. retries' \in [Jobs -> 0..MaxRetries] /\ msgs' \in [Jobs -> Nat]
    BY <1>7, <1>m DEF CrawlFails
  <2>2. faults' \in 0..MaxFaults
    BY <1>7, <1>f DEF CrawlFails
  <2>3. [pc |-> "ended", verdict |-> "failed"] \in Task
    BY DEF Task, Unreported, Verdict
  <2>4. /\ run' \in [Jobs -> [Attempts -> {Free} \cup Task]]
        /\ silent' \in SUBSET Jobs
    BY <1>7, <1>g, <2>3, ToType DEF CrawlFails, TypeOK
  <2> QED  BY <1>0, <1>7, <2>1, <2>2, <2>4 DEF CrawlFails, TypeOK
<1>8. CASE HandlerFails(j, k)
  BY <1>0, <1>8, <1>f, <1>g DEF HandlerFails, TypeOK
<1> QED  BY <1>1, <1>2, <1>3, <1>4, <1>5, <1>6, <1>7, <1>8 DEF CrawlStep

\* So does whatever else happens to a crawl.
LEMMA CrawlType ==
    ASSUME TypeOK, NEW j \in Jobs, Crawls(j)
    PROVE  TypeOK'
<1> USE DEF taskHistory
<1>0. UNCHANGED <<ing, writes, corr, merged, indexQ, indexer, shown, indexed, listening,
                  completed, losses, missed, raced, crashes, merges>>
  BY CrawlRest
<1>1. CASE \E k \in Attempts : CrawlStep(j, k) \/ CrawlFails(j, k) \/ HandlerFails(j, k)
  BY <1>1, AttemptType
<1>2. CASE StartFails(j)
  <2>1. msgs' \in [Jobs -> Nat]
    BY <1>2 DEF StartFails, TypeOK
  <2>2. faults' \in 0..MaxFaults
    BY <1>2, ConstantsAssumption DEF StartFails, Fault, TypeOK
  <2> QED  BY <1>0, <1>2, <2>1, <2>2 DEF StartFails, TypeOK
<1>3. CASE Redispatch(j)
  <2>1. retries' \in [Jobs -> 0..MaxRetries] /\ msgs' \in [Jobs -> Nat]
    BY <1>3, ConstantsAssumption DEF Redispatch, MsgAgain, TypeOK
  <2>2. row' \in [Jobs -> Row]
    BY <1>3, RowType DEF Redispatch, Row
  <2> QED  BY <1>0, <1>3, <2>1, <2>2 DEF Redispatch, TypeOK
<1> QED  BY <1>1, <1>2, <1>3 DEF Crawls

\* The steps of an ingester keep the types.
LEMMA IngestType ==
    ASSUME TypeOK, NEW i \in Ingesters,
           IngestStep(i) \/ WriteFails(i) \/ RequestIndexFails(i)
    PROVE  TypeOK'
<1> USE DEF IngestFrame, EnrichFrame, personVars, history, taskHistory
<1>b ASSUME ing[i].pc # "idle"
     PROVE  /\ ing[i] \in BusyWork /\ ing[i].job \in Jobs /\ ing[i].step \in Nat
            /\ ing[i].corr \in Nat
  BY <1>b, BusyType DEF BusyWork, TypeOK
<1>w ASSUME ing[i].pc # "idle", NEW pc \in Ingesting, Work(i, pc)
     PROVE  ing' \in [Ingesters -> {NoWork} \cup BusyWork]
  BY <1>w, WorkType DEF TypeOK
<1>s ASSUME StopWork(i)
     PROVE  ing' \in [Ingesters -> {NoWork} \cup BusyWork]
  BY <1>s, StopWorkType DEF TypeOK
<1>f ASSUME Fault
     PROVE  faults' \in 0..MaxFaults
  BY <1>f, ConstantsAssumption DEF Fault, TypeOK
<1>e ASSUME NEW type \in EventType, NEW n \in Nat, NEW m \in Nat, ing[i].pc # "idle",
            Emit(Of(type, ing[i].job, n, m))
     PROVE  inbox' \in Seq(Event) /\ faults' \in 0..MaxFaults
  <2>1. Of(type, ing[i].job, n, m) \in Event
    BY <1>b, <1>e, OfType
  <2> QED  BY <1>e, <2>1, EmitType
<1>1. CASE Pop(i)
  <2>1. Head(ingestQ) \in Jobs /\ Tail(ingestQ) \in Seq(Jobs)
    BY <1>1 DEF Pop, TypeOK
  <2>2. [pc |-> "write", job |-> Head(ingestQ), corr |-> corr, step |-> 0] \in BusyWork
    BY <2>1, ConstantsAssumption DEF BusyWork, Ingesting, TypeOK
  <2>3. ing' \in [Ingesters -> {NoWork} \cup BusyWork]
    BY <1>1, <2>2 DEF Pop, TypeOK
  <2> QED  BY <1>1, <2>1, <2>3 DEF Pop, TypeOK
<1>2. CASE Write(i)
  <2>1. ing[i] \in BusyWork /\ ing[i].job \in Jobs /\ ing[i].corr \in Nat
    BY <1>2, <1>b DEF Write
  <2>2. ing' \in [Ingesters -> {NoWork} \cup BusyWork]
    BY <1>2, <1>w DEF Write, Ingesting
  <2>3. corr' \in Nat
    <3>1. corr' = IF ing[i].job \in Reliable THEN ing[i].corr + 1 ELSE corr
      BY <1>2 DEF Write
    <3>2. corr \in Nat
      BY DEF TypeOK
    <3> QED  BY <2>1, <3>1, <3>2
  <2>4. writes' = [writes EXCEPT ![ing[i].job] = @ + 1]
    BY <1>2 DEF Write
  <2>5. writes' \in [Jobs -> Nat]
    <3>1. writes \in [Jobs -> Nat]
      BY DEF TypeOK
    <3>2. writes[ing[i].job] + 1 \in Nat
      BY <2>1, <3>1
    <3> QED  BY <2>4, <3>1, <3>2
  <2>6. raced' \in BOOLEAN
    BY <1>2 DEF Write, CountIsLoaded, TypeOK
  <2> QED  BY <1>2, <2>2, <2>3, <2>5, <2>6 DEF Write, TypeOK
<1>3. CASE WriteFails(i)
  <2>1. ing' \in [Ingesters -> {NoWork} \cup BusyWork] /\ ing[i].job \in Jobs
    BY <1>3, <1>b, <1>s DEF WriteFails
  <2>2. losses' = [losses EXCEPT ![ing[i].job] = @ + 1]
    BY <1>3 DEF WriteFails
  <2>3. losses' \in [Jobs -> Nat]
    BY <2>1, <2>2 DEF TypeOK
  <2> QED  BY <1>3, <1>f, <2>1, <2>3 DEF WriteFails, TypeOK
<1>4. CASE ReportIngest(i)
  <2>1. ing' \in [Ingesters -> {NoWork} \cup BusyWork] /\ ing[i].job \in Jobs
    BY <1>4, <1>b, <1>w DEF ReportIngest, Ingesting
  <2>2. inbox' \in Seq(Event) /\ faults' \in 0..MaxFaults
    BY <1>4, <1>e DEF ReportIngest, EventType
  <2> QED  BY <1>4, <2>1, <2>2 DEF ReportIngest, TypeOK
<1>5. CASE RequestIndex(i)
  <2>1. ing' \in [Ingesters -> {NoWork} \cup BusyWork]
    BY <1>5, <1>w DEF RequestIndex, Ingesting
  <2> QED  BY <1>5, <2>1 DEF RequestIndex, TypeOK
<1>6. CASE RequestIndexFails(i)
  <2>1. ing' \in [Ingesters -> {NoWork} \cup BusyWork] /\ ing[i].job \in Jobs
    BY <1>6, <1>b, <1>s DEF RequestIndexFails
  <2> QED  BY <1>6, <1>f, <2>1 DEF RequestIndexFails, TypeOK
<1>7. CASE Pivot(i)
  <2>1. ing' \in [Ingesters -> {NoWork} \cup BusyWork]
    BY <1>7, <1>w DEF Pivot, Ingesting
  <2>2. row' \in [Jobs -> Row] /\ msgs' \in [Jobs -> Nat]
    BY <1>7 DEF Pivot, Row, TypeOK
  <2> QED  BY <1>7, <2>1, <2>2 DEF Pivot, TypeOK
<1>8. CASE CheckTerminal(i)
  <2>1. ing' \in [Ingesters -> {NoWork} \cup BusyWork]
    BY <1>8, <1>w, <1>s DEF CheckTerminal, Ingesting
  <2>2. faults' \in 0..MaxFaults
    BY <1>8, <1>f DEF CheckTerminal, TypeOK
  <2> QED  BY <1>8, <2>1, <2>2 DEF CheckTerminal, TypeOK
<1>9. CASE BeginEnrichment(i)
  <2>1. ing' \in [Ingesters -> {NoWork} \cup BusyWork] /\ ing[i].job \in Jobs
    BY <1>9, <1>b, <1>w, <1>s DEF BeginEnrichment, Ingesting
  <2>2. inbox' \in Seq(Event) /\ faults' \in 0..MaxFaults
    BY <1>9, <1>e, ConstantsAssumption DEF BeginEnrichment, EventType, TypeOK
  <2> QED  BY <1>9, <2>1, <2>2 DEF BeginEnrichment, TypeOK
<1>10. CASE EnrichStep(i)
  <2>1. ing[i] \in BusyWork /\ ing[i].job \in Jobs /\ ing[i].step + 1 \in Nat
    BY <1>10, <1>b, ConstantsAssumption DEF EnrichStep
  <2>2. ing' \in [Ingesters -> {NoWork} \cup BusyWork]
    BY <1>10, <2>1 DEF EnrichStep, BusyWork, Ingesting, TypeOK
  <2>3. inbox' \in Seq(Event) /\ faults' \in 0..MaxFaults
    BY <1>10, <1>e, <2>1, ConstantsAssumption DEF EnrichStep, EventType
  <2> QED  BY <1>10, <2>2, <2>3 DEF EnrichStep, TypeOK
<1>11. CASE CompleteSearch(i)
  <2>1. ing' \in [Ingesters -> {NoWork} \cup BusyWork] /\ ing[i].job \in Jobs
    BY <1>11, <1>b, <1>s DEF CompleteSearch
  <2>2. inbox' \in Seq(Event) /\ faults' \in 0..MaxFaults /\ completed' \in BOOLEAN
    BY <1>11, <1>f, <2>1, OfType, PublishType
    DEF CompleteSearch, EventType, Swallowed, TypeOK
  <2> QED  BY <1>11, <2>1, <2>2 DEF CompleteSearch, TypeOK
<1> QED  BY <1>1, <1>2, <1>3, <1>4, <1>5, <1>6, <1>7, <1>8, <1>9, <1>10, <1>11 DEF IngestStep

\* So do the indexer, a merge and a crash.
LEMMA OtherType ==
    ASSUME TypeOK,
           ReadPerson \/ WriteDocument \/ WriteDocumentFails \/ MergePerson \/ Crash
    PROVE  TypeOK'
<1> USE DEF OtherFrame, indexVars, streamVars, bounds
<1>1. CASE ReadPerson
  <2>1. indexQ' \in Nat
    BY <1>1 DEF ReadPerson, TypeOK
  <2>2. indexer' \in {NoWork} \cup [pc : {"write"}, seen : SUBSET Jobs, doc : SUBSET Jobs]
    BY <1>1 DEF ReadPerson, Stored
  <2> QED  BY <1>1, <2>1, <2>2 DEF ReadPerson, TypeOK
<1>2. CASE WriteDocument
  <2>1. indexer.seen \in SUBSET Jobs /\ indexer.doc \in SUBSET Jobs
    BY <1>2 DEF WriteDocument, NoWork, TypeOK
  <2> QED  BY <1>2, <2>1 DEF WriteDocument, TypeOK
<1>3. CASE WriteDocumentFails
  <2>1. indexer.seen \in SUBSET Jobs
    BY <1>3 DEF WriteDocumentFails, NoWork, TypeOK
  <2>2. faults' \in 0..MaxFaults
    BY <1>3, ConstantsAssumption DEF WriteDocumentFails, Fault, TypeOK
  <2> QED  BY <1>3, <2>1, <2>2 DEF WriteDocumentFails, TypeOK
<1>4. CASE MergePerson
  <2>1. merges' \in 0..MaxMerges
    BY <1>4, ConstantsAssumption DEF MergePerson, TypeOK
  <2> QED  BY <1>4, <2>1 DEF MergePerson, TypeOK
<1>5. CASE Crash
  <2>1. run' \in [Jobs -> [Attempts -> {Free} \cup Task]] /\ silent' \in SUBSET Jobs
    BY <1>5 DEF Crash, TypeOK
  <2>2. losses' \in [Jobs -> Nat]
    BY <1>5, WritingCount DEF Crash, TypeOK
  <2>3. ASSUME NEW i \in Ingesters, ing[i].pc \in {"event", "index"}
        PROVE  ing[i].job \in Jobs
    BY <2>3, BusyType DEF TypeOK
  <2>4. indexer # NoWork => indexer.seen \in SUBSET Jobs
    BY DEF TypeOK
  <2>5. missed' \in SUBSET Jobs
    BY <1>5, <2>3, <2>4 DEF Crash, TypeOK
  <2>6. crashes' \in 0..MaxCrashes
    BY <1>5, ConstantsAssumption DEF Crash, TypeOK
  <2> QED  BY <1>5, <2>1, <2>2, <2>5, <2>6 DEF Crash, TypeOK
<1> QED  BY <1>1, <1>2, <1>3, <1>4, <1>5

LEMMA InitType == Init => TypeOK
<1> SUFFICES ASSUME Init PROVE TypeOK
  OBVIOUS
<1> USE ConstantsAssumption DEF Init
<1>1. row \in [Jobs -> Row] /\ run \in [Jobs -> [Attempts -> {Free} \cup Task]]
  BY DEF Row
<1>2. /\ msgs \in [Jobs -> Nat] /\ retries \in [Jobs -> 0..MaxRetries]
      /\ pushes \in [Jobs -> Nat] /\ writes \in [Jobs -> Nat] /\ losses \in [Jobs -> Nat]
  OBVIOUS
<1>3. ingestQ \in Seq(Jobs) /\ inbox \in Seq(Event)
  OBVIOUS
<1>4. ing \in [Ingesters -> {NoWork} \cup BusyWork]
  OBVIOUS
<1>5. faults \in 0..MaxFaults /\ crashes \in 0..MaxCrashes /\ merges \in 0..MaxMerges
  OBVIOUS
<1> QED  BY <1>1, <1>2, <1>3, <1>4, <1>5 DEF TypeOK

LEMMA NextType ==
    ASSUME TypeOK, [Next]_vars
    PROVE  TypeOK'
<1>1. CASE UNCHANGED vars
  BY <1>1 DEF TypeOK, vars, crawlVars, personVars, indexVars, streamVars, history, taskHistory,
                bounds
<1>2. CASE Next
  BY <1>2, CrawlType, IngestType, OtherType DEF Next
<1> QED  BY <1>1, <1>2

\* Every variable keeps its type, however the dispatchers, the ingesters, the
\* indexer and the failures interleave.
THEOREM TypeCorrect == Spec => []TypeOK
BY InitType, NextType, PTL DEF Spec

-----------------------------------------------------------------------------
(* Stored data has an index request under way.                              *)
(*                                                                         *)
(* StoredIsIndexed is not inductive: if the indexer wrote an older copy     *)
(* over a newer document, data would fall out of the index without a new    *)
(* request.  There is one indexer, so the copy it writes has all that the   *)
(* document has.                                                            *)

IndexInv ==
    /\ indexed \subseteq Stored
    /\ indexer # NoWork => /\ indexer.pc = "write"
                           /\ indexed \subseteq indexer.seen
                           /\ indexer.seen \subseteq Stored
    /\ StoredIsIndexed

\* An ingester that is about to push the request for the data of job j.
Asking(i, j) == ing[i].pc \in {"event", "index"} /\ ing[i].job = j

\* What touches neither the person nor the index keeps the invariant, if it
\* takes no ingester off its way to the request.
LEMMA IndexFrame ==
    ASSUME IndexInv, UNCHANGED <<writes, indexQ, indexer, indexed>>, missed \subseteq missed',
           \A i \in Ingesters : \A j \in Jobs : Asking(i, j) => Asking(i, j)' \/ j \in missed'
    PROVE  IndexInv'
BY DEF IndexInv, StoredIsIndexed, Stored, Asking

LEMMA IndexStep ==
    ASSUME TypeOK, IndexInv, [Next]_vars
    PROVE  IndexInv'
<1> USE DEF personVars, indexVars, history
<1>1. CASE UNCHANGED vars
  BY <1>1, IndexFrame DEF vars, Asking
<1>2. ASSUME NEW j \in Jobs, Crawls(j)
      PROVE  IndexInv'
  BY <1>2, CrawlRest, IndexFrame DEF Asking
<1>3. ASSUME NEW i \in Ingesters,
             IngestStep(i) \/ WriteFails(i) \/ RequestIndexFails(i)
      PROVE  IndexInv'
  <2> USE DEF IngestFrame, EnrichFrame
  <2>1. CASE Write(i)
    <3>1. ing[i] \in BusyWork /\ ing[i].job \in Jobs
      BY <2>1, BusyType DEF Write, TypeOK
    <3>2. ing' = [ing EXCEPT ![i].pc = "event"]
      BY <2>1 DEF Write, Work
    <3>4. \A k \in Ingesters : \A j \in Jobs : Asking(k, j) => Asking(k, j)'
      BY <2>1, <3>2 DEF Write, Asking, TypeOK
    <3>5. writes' = [writes EXCEPT ![ing[i].job] = @ + 1]
      BY <2>1 DEF Write
    <3>6. Stored' = Stored \cup {ing[i].job}
      BY <3>1, <3>5, SMTT(30) DEF Stored, TypeOK
    <3>7. UNCHANGED <<indexQ, indexer, indexed, missed>>
      BY <2>1 DEF Write
    <3>8. \A j \in Stored \ (indexed \cup missed) :
            indexQ > 0 \/ (\E k \in Ingesters : Asking(k, j))
                       \/ (indexer.pc = "write" /\ j \in indexer.seen)
      BY DEF IndexInv, StoredIsIndexed, Asking
    <3>9. \A j \in Stored' \ (indexed' \cup missed') :
            indexQ' > 0 \/ (\E k \in Ingesters : Asking(k, j)')
                        \/ (indexer'.pc = "write" /\ j \in indexer'.seen)
      <4> TAKE j \in Stored' \ (indexed' \cup missed')
      <4>1. j \in Jobs
        BY <3>1, <3>6 DEF Stored
      <4>2. CASE j = ing[i].job
        <5>1. Asking(i, j)'
          BY <3>1, <3>2, <4>2 DEF Asking, BusyWork, TypeOK
        <5> QED  BY <5>1
      <4>3. CASE j # ing[i].job
        BY <3>4, <3>6, <3>7, <3>8, <4>1, <4>3
      <4> QED  BY <4>2, <4>3
    <3>10. StoredIsIndexed'
      BY <3>9 DEF StoredIsIndexed, Asking
    <3> QED  BY <3>6, <3>7, <3>10 DEF IndexInv
  <2>2. CASE RequestIndex(i)
    <3>1. indexQ' > 0 /\ UNCHANGED <<writes, indexer, indexed, missed>>
      BY <2>2 DEF RequestIndex, TypeOK
    <3> QED  BY <3>1 DEF IndexInv, StoredIsIndexed, Stored
  <2>3. CASE RequestIndexFails(i)
    <3>1. missed' = missed \cup {ing[i].job} /\ ing' = [ing EXCEPT ![i] = NoWork]
      BY <2>3 DEF RequestIndexFails, StopWork
    <3>2. UNCHANGED <<writes, indexQ, indexer, indexed>>
      BY <2>3 DEF RequestIndexFails
    <3>3. \A k \in Ingesters : \A j \in Jobs : Asking(k, j) => Asking(k, j)' \/ j \in missed'
      BY <3>1 DEF Asking, TypeOK
    <3> QED  BY <3>1, <3>2, <3>3, IndexFrame
  <2>4. CASE ReportIngest(i)
    <3>1. UNCHANGED <<writes, indexQ, indexer, indexed, missed>>
      BY <2>4 DEF ReportIngest
    <3>2. ing[i] \in BusyWork /\ ing' = [ing EXCEPT ![i].pc = "index"]
      BY <2>4, BusyType DEF ReportIngest, Work, TypeOK
    <3>3. \A k \in Ingesters : \A j \in Jobs : Asking(k, j) => Asking(k, j)'
      BY <3>2 DEF Asking, BusyWork, TypeOK
    <3> QED  BY <3>1, <3>3, IndexFrame
  <2>5. CASE \/ Pop(i) \/ WriteFails(i) \/ Pivot(i) \/ CheckTerminal(i)
             \/ BeginEnrichment(i) \/ EnrichStep(i) \/ CompleteSearch(i)
    <3>1. UNCHANGED <<writes, indexQ, indexer, indexed, missed>>
      BY <2>5 DEF Pop, WriteFails, Pivot, CheckTerminal, BeginEnrichment, EnrichStep,
                  CompleteSearch
    <3>2. ing[i].pc \notin {"event", "index"}
      BY <2>5 DEF Pop, WriteFails, Pivot, CheckTerminal, BeginEnrichment, EnrichStep,
                  CompleteSearch, NoWork
    <3>3. \A k \in Ingesters \ {i} : ing'[k] = ing[k]
      BY <2>5 DEF Pop, WriteFails, Pivot, CheckTerminal, BeginEnrichment, EnrichStep,
                  CompleteSearch, Work, StopWork, TypeOK
    <3>4. \A k \in Ingesters : \A j \in Jobs : Asking(k, j) => Asking(k, j)'
      BY <3>2, <3>3 DEF Asking
    <3> QED  BY <3>1, <3>4, IndexFrame
  <2> QED  BY <1>3, <2>1, <2>2, <2>3, <2>4, <2>5 DEF IngestStep
<1>4. CASE ReadPerson
  <2>1. /\ indexer'.pc = "write" /\ indexer'.seen = Stored
        /\ UNCHANGED <<writes, ing, indexed, missed>>
    BY <1>4 DEF ReadPerson, OtherFrame
  <2> QED  BY <2>1 DEF IndexInv, StoredIsIndexed, Stored, NoWork
<1>5. CASE WriteDocument
  <2>1. indexed' = indexer.seen /\ indexer' = NoWork
        /\ UNCHANGED <<writes, ing, indexQ, missed>>
    BY <1>5 DEF WriteDocument, OtherFrame
  <2>2. indexed \subseteq indexer.seen /\ indexer.seen \subseteq Stored
    BY <1>5 DEF WriteDocument, IndexInv, NoWork
  <2> QED  BY <2>1, <2>2 DEF IndexInv, StoredIsIndexed, Stored, NoWork
<1>6. CASE WriteDocumentFails
  <2>1. missed' = missed \cup (indexer.seen \ indexed) /\ indexer' = NoWork
        /\ UNCHANGED <<writes, ing, indexQ, indexed>>
    BY <1>6 DEF WriteDocumentFails, OtherFrame
  <2> QED  BY <2>1 DEF IndexInv, StoredIsIndexed, Stored, NoWork
<1>7. CASE MergePerson
  <2>1. UNCHANGED <<ing, writes, indexQ, indexer, indexed, missed>>
    BY <1>7 DEF MergePerson, OtherFrame
  <2> QED  BY <2>1, IndexFrame DEF Asking
<1>8. CASE Crash
  <2>1. \A i \in Ingesters : \A j \in Jobs : Asking(i, j) => j \in missed'
    BY <1>8 DEF Crash, Asking
  <2>2. missed \subseteq missed'
    BY <1>8 DEF Crash
  <2>3. indexer # NoWork => indexer.seen \subseteq indexed \cup missed'
    BY <1>8 DEF Crash
  <2>4. indexer' = NoWork /\ UNCHANGED <<writes, indexQ, indexed>>
    BY <1>8 DEF Crash, OtherFrame
  <2>5. \A j \in Stored \ (indexed \cup missed') : indexQ > 0
    <3> TAKE j \in Stored \ (indexed \cup missed')
    <3>1. j \in Jobs /\ j \notin missed
      BY <2>2 DEF Stored
    <3>2. ~\E i \in Ingesters : ing[i].pc \in {"event", "index"} /\ ing[i].job = j
      BY <2>1, <3>1 DEF Asking
    <3>3. ~(indexer.pc = "write" /\ j \in indexer.seen)
      BY <2>3 DEF NoWork
    <3> QED  BY <3>1, <3>2, <3>3 DEF IndexInv, StoredIsIndexed
  <2> QED  BY <2>4, <2>5 DEF IndexInv, StoredIsIndexed, Stored
<1> QED  BY <1>1, <1>2, <1>3, <1>4, <1>5, <1>6, <1>7, <1>8 DEF Next

LEMMA IndexInit == Init => IndexInv
BY DEF Init, IndexInv, StoredIsIndexed, Stored

\* Stored data that no document was made from has an index request queued, about
\* to be pushed or being served, unless an error gave it up.
THEOREM StoredIsIndexedCorrect == Spec => []StoredIsIndexed
<1>1. TypeOK /\ IndexInv /\ [Next]_vars => IndexInv'
  BY IndexStep
<1>2. IndexInv => StoredIsIndexed
  BY DEF IndexInv
<1> QED  BY <1>1, <1>2, IndexInit, TypeCorrect, PTL DEF Spec

-----------------------------------------------------------------------------
(* What the document shows.                                                 *)
(*                                                                         *)
(* The document is always one that the data it was made from allows, and so *)
(* is the copy that the indexer writes.                                     *)

DocumentInv ==
    /\ Document(shown, indexed)
    /\ indexer # NoWork => Document(indexer.doc, indexer.seen)

\* A merge takes identifiers away, and nothing brings them back.
LEMMA MergedStays ==
    ASSUME [Next]_vars
    PROVE  merged' = merged \/ (merged' = TRUE /\ shown' = shown)
<1> USE DEF personVars, indexVars
<1>1. CASE UNCHANGED vars
  BY <1>1 DEF vars
<1>2. ASSUME NEW i \in Ingesters,
             IngestStep(i) \/ WriteFails(i) \/ RequestIndexFails(i)
      PROVE  merged' = merged
  BY <1>2 DEF IngestStep, Pop, Write, ReportIngest, RequestIndex, Pivot, CheckTerminal,
              BeginEnrichment, EnrichStep, CompleteSearch, WriteFails, RequestIndexFails,
              EnrichFrame
<1>3. CASE ReadPerson \/ WriteDocument \/ WriteDocumentFails \/ MergePerson \/ Crash
  BY <1>3 DEF ReadPerson, WriteDocument, WriteDocumentFails, MergePerson, Crash
<1> QED  BY <1>1, <1>2, <1>3, CrawlRest DEF Next

\* A document stays possible for its data.
LEMMA DocumentFrame ==
    ASSUME DocumentInv, UNCHANGED <<indexer, shown, indexed>>, merged => merged'
    PROVE  DocumentInv'
BY DEF DocumentInv, Document

LEMMA DocumentStep ==
    ASSUME DocumentInv, [Next]_vars
    PROVE  DocumentInv'
<1> USE DEF personVars, indexVars
<1>0. merged => merged'
  BY MergedStays
<1>1. CASE UNCHANGED vars
  BY <1>0, <1>1, DocumentFrame DEF vars
<1>2. ASSUME NEW j \in Jobs, Crawls(j)
      PROVE  DocumentInv'
  BY <1>0, <1>2, CrawlRest, DocumentFrame
<1>3. ASSUME NEW i \in Ingesters,
             IngestStep(i) \/ WriteFails(i) \/ RequestIndexFails(i)
      PROVE  DocumentInv'
  <2>1. UNCHANGED <<indexer, shown, indexed>>
    BY <1>3 DEF IngestStep, Pop, Write, ReportIngest, RequestIndex, Pivot, CheckTerminal,
                BeginEnrichment, EnrichStep, CompleteSearch, WriteFails, RequestIndexFails,
                EnrichFrame, IngestFrame
  <2> QED  BY <1>0, <2>1, DocumentFrame
<1>4. CASE ReadPerson
  <2>1. Document(indexer'.doc, indexer'.seen) /\ UNCHANGED <<merged, shown, indexed>>
    BY <1>4 DEF ReadPerson
  <2> QED  BY <2>1 DEF DocumentInv, Document
<1>5. CASE WriteDocument
  <2>1. /\ indexed' = indexer.seen /\ shown' = indexer.doc /\ indexer' = NoWork
        /\ UNCHANGED merged
    BY <1>5 DEF WriteDocument
  <2>2. Document(indexer.doc, indexer.seen)
    BY <1>5 DEF WriteDocument, DocumentInv, NoWork
  <2> QED  BY <2>1, <2>2 DEF DocumentInv, Document
<1>6. CASE WriteDocumentFails \/ Crash
  <2>1. indexer' = NoWork /\ UNCHANGED <<merged, shown, indexed>>
    BY <1>6 DEF WriteDocumentFails, Crash
  <2> QED  BY <2>1 DEF DocumentInv, Document
<1>7. CASE MergePerson
  <2>1. UNCHANGED <<indexer, shown, indexed>>
    BY <1>7 DEF MergePerson
  <2> QED  BY <1>0, <2>1, DocumentFrame
<1> QED  BY <1>1, <1>2, <1>3, <1>4, <1>5, <1>6, <1>7 DEF Next

LEMMA DocumentInit == Init => DocumentInv
<1>1. Cardinality({}) = 0
  BY FS_EmptySet
<1>2. {} \cap Addresses = {}
  OBVIOUS
<1> QED  BY <1>1, <1>2, ConstantsAssumption DEF Init, DocumentInv, Document

\* Data that the document stops showing was displaced by another address, or is
\* an identifier of a person who was merged.
LEMMA DocumentShrinks ==
    ASSUME IndexInv, DocumentInv, [Next]_vars
    PROVE  \A j \in shown \ shown' :
               \/ j \in Addresses /\ Cardinality(shown' \cap Addresses) = AddressCap
               \/ j \in Identifiers /\ merged
<1> USE DEF indexVars
<1>1. CASE UNCHANGED vars
  BY <1>1 DEF vars
<1>2. ASSUME NEW i \in Ingesters,
             IngestStep(i) \/ WriteFails(i) \/ RequestIndexFails(i)
      PROVE  shown' = shown
  BY <1>2 DEF IngestStep, Pop, Write, ReportIngest, RequestIndex, Pivot, CheckTerminal,
              BeginEnrichment, EnrichStep, CompleteSearch, WriteFails, RequestIndexFails,
              EnrichFrame, IngestFrame
<1>3. CASE ReadPerson \/ WriteDocumentFails \/ MergePerson \/ Crash
  BY <1>3 DEF ReadPerson, WriteDocumentFails, MergePerson, Crash
<1>4. CASE WriteDocument
  <2>1. shown' = indexer.doc /\ indexer # NoWork
    BY <1>4 DEF WriteDocument, NoWork
  <2>2. Document(shown', indexer.seen) /\ shown \subseteq indexer.seen
    BY <2>1 DEF DocumentInv, IndexInv, Document
  <2> QED  BY <2>2 DEF Document
<1> QED  BY <1>1, <1>2, <1>3, <1>4, CrawlRest DEF Next

-----------------------------------------------------------------------------
(* Counting what a queue holds.                                             *)

\* Where a queue holds a member of S.
Places(q, S) == {k \in 1..Len(q) : q[k] \in S}

LEMMA PlacesFinite ==
    ASSUME NEW A, NEW q \in Seq(A), NEW S
    PROVE  IsFiniteSet(Places(q, S)) /\ Cardinality(Places(q, S)) \in Nat
<1>1. IsFiniteSet(1..Len(q))
  BY FS_Interval
<1>2. Places(q, S) \subseteq 1..Len(q)
  BY DEF Places
<1> QED  BY <1>1, <1>2, FS_Subset, FS_CardinalityType

\* A push adds one place or none.
LEMMA PlacesAppend ==
    ASSUME NEW A, NEW q \in Seq(A), NEW S, NEW x \in A
    PROVE  Cardinality(Places(Append(q, x), S))
             = IF x \in S THEN Cardinality(Places(q, S)) + 1 ELSE Cardinality(Places(q, S))
<1>1. CASE x \in S
  <2>1. Places(Append(q, x), S) = Places(q, S) \cup {Len(q) + 1}
    BY <1>1 DEF Places
  <2>2. Len(q) + 1 \notin Places(q, S)
    BY DEF Places
  <2> QED  BY <1>1, <2>1, <2>2, PlacesFinite, FS_AddElement
<1>2. CASE x \notin S
  <2>1. Places(Append(q, x), S) = Places(q, S)
    BY <1>2 DEF Places
  <2> QED  BY <1>2, <2>1
<1> QED  BY <1>1, <1>2

\* A pop removes one place or none: the others move down by one.
LEMMA PlacesTail ==
    ASSUME NEW A, NEW q \in Seq(A), q # <<>>, NEW S
    PROVE  Cardinality(Places(q, S))
             = IF Head(q) \in S THEN Cardinality(Places(Tail(q), S)) + 1
                                ELSE Cardinality(Places(Tail(q), S))
<1> DEFINE T == Places(Tail(q), S)
           R == Places(q, S) \ {1}
           f == [n \in T |-> n + 1]
<1>1. /\ Tail(q) \in Seq(A) /\ Len(q) \in Nat \ {0} /\ Len(Tail(q)) = Len(q) - 1
      /\ \A n \in 1..Len(Tail(q)) : Tail(q)[n] = q[n + 1]
  OBVIOUS
<1>2. T \subseteq Nat
  BY DEF Places
<1>3. f \in [T -> R]
  <2> SUFFICES ASSUME NEW n \in T PROVE n + 1 \in R
    OBVIOUS
  <2>1. n \in 1..Len(Tail(q)) /\ Tail(q)[n] \in S
    BY DEF Places
  <2>2. n + 1 \in 1..Len(q) /\ q[n + 1] \in S /\ n + 1 # 1
    BY <1>1, <2>1
  <2> QED  BY <2>2 DEF Places
<1>4. \A a, b \in T : f[a] = f[b] => a = b
  BY <1>2
<1>5. \A m \in R : \E n \in T : f[n] = m
  <2> SUFFICES ASSUME NEW m \in R PROVE \E n \in T : f[n] = m
    OBVIOUS
  <2>1. m \in 2..Len(q) /\ q[m] \in S
    BY DEF Places
  <2>2. m - 1 \in 1..Len(Tail(q)) /\ Tail(q)[m - 1] \in S
    BY <1>1, <2>1
  <2>3. m - 1 \in T /\ f[m - 1] = m
    BY <2>1, <2>2 DEF Places
  <2> QED  BY <2>3
<1>6. f \in Bijection(T, R)
  BY <1>3, <1>4, <1>5, Fun_IsBij
<1>7. Cardinality(R) = Cardinality(T)
  <2>1. ExistsBijection(T, R)
    BY <1>6, Fun_ExistsBij
  <2>2. IsFiniteSet(T)
    BY <1>1, PlacesFinite
  <2> QED  BY <2>1, <2>2, FS_Bijection
<1>8. Cardinality(T) \in Nat /\ Cardinality(Places(q, S)) \in Nat
  BY <1>1, PlacesFinite
<1>9. Cardinality(R) = IF 1 \in Places(q, S) THEN Cardinality(Places(q, S)) - 1
                                         ELSE Cardinality(Places(q, S))
  <2>1. IsFiniteSet(Places(q, S))
    BY PlacesFinite
  <2> QED  BY <2>1, FS_RemoveElement
<1>10. 1 \in Places(q, S) <=> Head(q) \in S
  BY <1>1 DEF Places
<1> QED  BY <1>7, <1>8, <1>9, <1>10

\* Where a job is in a queue of jobs.
At(q, j) == Places(q, {j})

LEMMA AtFinite ==
    ASSUME NEW q \in Seq(Jobs), NEW j \in Jobs
    PROVE  IsFiniteSet(At(q, j)) /\ Cardinality(At(q, j)) \in Nat
BY PlacesFinite DEF At

LEMMA AtAppend ==
    ASSUME NEW q \in Seq(Jobs), NEW j \in Jobs, NEW k \in Jobs
    PROVE  Cardinality(At(Append(q, k), j))
             = IF j = k THEN Cardinality(At(q, j)) + 1 ELSE Cardinality(At(q, j))
BY PlacesAppend DEF At

LEMMA AtTail ==
    ASSUME NEW q \in Seq(Jobs), q # <<>>, NEW j \in Jobs
    PROVE  Cardinality(At(q, j))
             = IF j = Head(q) THEN Cardinality(At(Tail(q), j)) + 1
                              ELSE Cardinality(At(Tail(q), j))
BY PlacesTail DEF At

-----------------------------------------------------------------------------
(* Counting the ingesters that write a job's result.                        *)

LEMMA WritingFinite ==
    ASSUME NEW j \in Jobs
    PROVE  IsFiniteSet(Writing(j)) /\ Cardinality(Writing(j)) \in Nat
BY ConstantsAssumption, FS_Subset, FS_CardinalityType DEF Writing

\* An ingester that begins to write a result is one more.
LEMMA WritingEnter ==
    ASSUME NEW i \in Ingesters, NEW k \in Jobs, NEW w, ing[i].pc # "write",
           w.pc = "write", w.job = k, ing \in [Ingesters -> {NoWork} \cup BusyWork],
           ing' = [ing EXCEPT ![i] = w], NEW j \in Jobs
    PROVE  Cardinality(Writing(j)')
             = IF j = k THEN Cardinality(Writing(j)) + 1 ELSE Cardinality(Writing(j))
<1>1. i \notin Writing(j) /\ ing'[i] = w /\ \A n \in Ingesters \ {i} : ing'[n] = ing[n]
  BY DEF Writing
<1>2. Writing(j)' = IF j = k THEN Writing(j) \cup {i} ELSE Writing(j)
  BY <1>1 DEF Writing
<1>3. IsFiniteSet(Writing(j)) /\ Cardinality(Writing(j)) \in Nat
  BY WritingFinite
<1>4. Cardinality(Writing(j) \cup {i}) = Cardinality(Writing(j)) + 1
  BY <1>1, <1>3, FS_AddElement
<1> QED  BY <1>2, <1>4

\* An ingester that has written its result, or lost it, is one less.
LEMMA WritingLeave ==
    ASSUME NEW i \in Ingesters, ing[i].pc = "write", ing'[i].pc # "write",
           \A n \in Ingesters \ {i} : ing'[n] = ing[n], NEW j \in Jobs
    PROVE  /\ j = ing[i].job => Cardinality(Writing(j)) > 0
           /\ Cardinality(Writing(j)')
                = IF j = ing[i].job THEN Cardinality(Writing(j)) - 1
                                    ELSE Cardinality(Writing(j))
<1>1. Writing(j)' = IF j = ing[i].job THEN Writing(j) \ {i} ELSE Writing(j)
  BY DEF Writing
<1>2. i \in Writing(j) <=> j = ing[i].job
  BY DEF Writing
<1>3. j = ing[i].job => Cardinality(Writing(j)) > 0
  BY <1>2, WritingFinite, FS_EmptySet
<1> QED  BY <1>1, <1>2, <1>3, WritingFinite, FS_RemoveElement

\* Steps of an ingester elsewhere do not matter.
LEMMA WritingSame ==
    ASSUME NEW i \in Ingesters, ing[i].pc # "write", ing'[i].pc # "write",
           \A n \in Ingesters \ {i} : ing'[n] = ing[n], NEW j \in Jobs
    PROVE  Writing(j)' = Writing(j)
BY DEF Writing

-----------------------------------------------------------------------------
(* What a step does to the results of a crawl.                              *)

Underway(j) == Cardinality(Queued(j)) + Cardinality(Writing(j))

Nothing ==
    /\ UNCHANGED <<pushes, writes, losses>>
    /\ \A j \in Jobs : Underway(j)' = Underway(j)

Found(k) ==
    /\ pushes' = [pushes EXCEPT ![k] = @ + 1] /\ UNCHANGED <<writes, losses, shown, merged>>
    /\ \A j \in Jobs : Underway(j)' = IF j = k THEN Underway(j) + 1 ELSE Underway(j)

Aggregated(k) ==
    /\ writes' = [writes EXCEPT ![k] = @ + 1] /\ UNCHANGED <<pushes, losses, shown, merged>>
    /\ Underway(k) > 0
    /\ \A j \in Jobs : Underway(j)' = IF j = k THEN Underway(j) - 1 ELSE Underway(j)

Destroyed ==
    /\ losses' \in [Jobs -> Nat] /\ UNCHANGED <<pushes, writes, shown, merged>>
    /\ \A j \in Jobs : /\ losses[j] <= losses'[j]
                       /\ losses'[j] - losses[j] <= Underway(j)
                       /\ Underway(j)' = Underway(j) - (losses'[j] - losses[j])

LEMMA UnderwayType ==
    ASSUME TypeOK, NEW j \in Jobs
    PROVE  /\ Underway(j) \in Nat
           /\ Cardinality(Queued(j)) \in Nat /\ Cardinality(Writing(j)) \in Nat
           /\ Queued(j) = At(ingestQ, j)
<1>1. Queued(j) = At(ingestQ, j)
  BY DEF Queued, At, Places
<1> QED  BY <1>1, AtFinite, WritingFinite DEF Underway, TypeOK

\* A step that leaves the queue and the writing ingesters alone.
LEMMA NothingFrame ==
    ASSUME UNCHANGED <<pushes, writes, losses, ingestQ>>,
           \A j \in Jobs : Writing(j)' = Writing(j)
    PROVE  Nothing
BY DEF Nothing, Underway, Queued

LEMMA CrawlDelivery ==
    ASSUME TypeOK, NEW j \in Jobs, Crawls(j)
    PROVE  Nothing \/ Found(j)
<1>0. UNCHANGED <<ing, writes, losses, shown, merged>>
  BY CrawlRest
<1>1. ASSUME NEW k \in Attempts, FoundResult(j, k)
      PROVE  Found(j)
  <2>1. ingestQ' = Append(ingestQ, j) /\ pushes' = [pushes EXCEPT ![j] = @ + 1]
    BY <1>1 DEF FoundResult
  <2>2. ASSUME NEW n \in Jobs
        PROVE  Underway(n)' = IF n = j THEN Underway(n) + 1 ELSE Underway(n)
    <3>1. Writing(n)' = Writing(n)
      BY <1>0 DEF Writing
    <3>2. Queued(n)' = At(Append(ingestQ, j), n)
      BY <2>1 DEF Queued, At, Places
    <3>3. Queued(n) = At(ingestQ, n) /\ Cardinality(Queued(n)) \in Nat
          /\ Cardinality(Writing(n)) \in Nat
      BY UnderwayType
    <3>4. Cardinality(Queued(n)') = IF n = j THEN Cardinality(Queued(n)) + 1
                                             ELSE Cardinality(Queued(n))
      BY <3>2, <3>3, AtAppend, SMTT(30) DEF TypeOK
    <3> QED  BY <3>1, <3>3, <3>4 DEF Underway
  <2> QED  BY <1>0, <2>1, <2>2 DEF Found
<1>2. CASE ~\E k \in Attempts : FoundResult(j, k)
  <2>1. UNCHANGED <<pushes, ingestQ>>
    BY <1>2 DEF Crawls, CrawlStep, StartCrawl, StartFails, NoResult, SettleCrawl, ReportCrawl,
                CheckSearchComplete, CrawlFails, HandlerFails, Redispatch
  <2> QED  BY <1>0, <2>1, NothingFrame DEF Writing
<1> QED  BY <1>1, <1>2

LEMMA IngestDelivery ==
    ASSUME TypeOK, NEW i \in Ingesters,
           IngestStep(i) \/ WriteFails(i) \/ RequestIndexFails(i)
    PROVE  Nothing \/ (\E k \in Jobs : Aggregated(k)) \/ Destroyed
<1> USE DEF IngestFrame, EnrichFrame, personVars, history
<1>1. CASE Pop(i)
  <2> DEFINE w == [pc |-> "write", job |-> Head(ingestQ), corr |-> corr, step |-> 0]
  <2>1. /\ ingestQ # <<>> /\ ingestQ' = Tail(ingestQ) /\ ing[i] = NoWork
        /\ ing' = [ing EXCEPT ![i] = w]
        /\ UNCHANGED <<pushes, writes, losses>>
    BY <1>1 DEF Pop
  <2>2. Head(ingestQ) \in Jobs /\ ingestQ \in Seq(Jobs) /\ Tail(ingestQ) \in Seq(Jobs)
    BY <2>1 DEF TypeOK
  <2>3. ASSUME NEW j \in Jobs
        PROVE  Underway(j)' = Underway(j)
    <3>1. Cardinality(Writing(j)') = IF j = Head(ingestQ) THEN Cardinality(Writing(j)) + 1
                                                          ELSE Cardinality(Writing(j))
      <4>1. w.pc = "write" /\ w.job = Head(ingestQ) /\ ing[i].pc # "write"
        BY <2>1 DEF NoWork
      <4> HIDE DEF w
      <4> QED  BY <2>1, <2>2, <4>1, WritingEnter DEF TypeOK
    <3>2. Queued(j)' = At(Tail(ingestQ), j) /\ Queued(j) = At(ingestQ, j)
      BY <2>1 DEF Queued, At, Places
    <3>3. /\ Cardinality(Queued(j)) \in Nat /\ Cardinality(Writing(j)) \in Nat
          /\ Cardinality(At(Tail(ingestQ), j)) \in Nat
      BY <2>2, UnderwayType, AtFinite
    <3>4. Cardinality(Queued(j)) = IF j = Head(ingestQ) THEN Cardinality(Queued(j)') + 1
                                                        ELSE Cardinality(Queued(j)')
      BY <2>1, <2>2, <3>2, AtTail
    <3> QED  BY <3>1, <3>2, <3>3, <3>4 DEF Underway
  <2> QED  BY <2>1, <2>3 DEF Nothing
<1>2. CASE Write(i) \/ WriteFails(i)
  <2>1. /\ ing[i].pc = "write" /\ ing'[i].pc # "write" /\ ing[i].job \in Jobs
        /\ \A n \in Ingesters \ {i} : ing'[n] = ing[n]
    BY <1>2, BusyType, SMTT(30) DEF Write, WriteFails, Work, StopWork, NoWork, BusyWork, TypeOK
  <2>2. UNCHANGED <<ingestQ, pushes, shown, merged>>
    BY <1>2 DEF Write, WriteFails
  <2>3. ASSUME NEW j \in Jobs
        PROVE  /\ j = ing[i].job => Underway(j) > 0
               /\ Underway(j)' = IF j = ing[i].job THEN Underway(j) - 1 ELSE Underway(j)
    <3>1. /\ j = ing[i].job => Cardinality(Writing(j)) > 0
          /\ Cardinality(Writing(j)') = IF j = ing[i].job THEN Cardinality(Writing(j)) - 1
                                                          ELSE Cardinality(Writing(j))
      BY <2>1, WritingLeave
    <3>2. Queued(j)' = Queued(j)
      BY <2>2 DEF Queued
    <3>3. Cardinality(Queued(j)) \in Nat /\ Cardinality(Writing(j)) \in Nat
      BY UnderwayType
    <3> QED  BY <3>1, <3>2, <3>3 DEF Underway
  <2>4. CASE Write(i)
    <3>1. writes' = [writes EXCEPT ![ing[i].job] = @ + 1] /\ UNCHANGED losses
      BY <2>4 DEF Write
    <3> QED  BY <2>1, <2>2, <2>3, <3>1 DEF Aggregated
  <2>5. CASE WriteFails(i)
    <3>1. losses' = [losses EXCEPT ![ing[i].job] = @ + 1] /\ UNCHANGED writes
      BY <2>5 DEF WriteFails
    <3>2. losses' \in [Jobs -> Nat]
      BY <2>1, <3>1 DEF TypeOK
    <3>3. ASSUME NEW j \in Jobs
          PROVE  /\ losses[j] <= losses'[j] /\ losses'[j] - losses[j] <= Underway(j)
                 /\ Underway(j)' = Underway(j) - (losses'[j] - losses[j])
      <4>1. losses'[j] = IF j = ing[i].job THEN losses[j] + 1 ELSE losses[j]
        BY <3>1 DEF TypeOK
      <4>2. losses[j] \in Nat /\ Underway(j) \in Nat
        BY UnderwayType DEF TypeOK
      <4> QED  BY <2>3, <4>1, <4>2
    <3> QED  BY <2>2, <3>1, <3>2, <3>3 DEF Destroyed
  <2> QED  BY <1>2, <2>4, <2>5
<1>3. CASE \/ ReportIngest(i) \/ RequestIndex(i) \/ RequestIndexFails(i) \/ Pivot(i)
           \/ CheckTerminal(i) \/ BeginEnrichment(i) \/ EnrichStep(i) \/ CompleteSearch(i)
  <2>1. UNCHANGED <<ingestQ, pushes, writes, losses>>
    BY <1>3 DEF ReportIngest, RequestIndex, RequestIndexFails, Pivot, CheckTerminal,
                BeginEnrichment, EnrichStep, CompleteSearch
  <2>2. ing[i].pc \notin {"write", "idle"}
    BY <1>3 DEF ReportIngest, RequestIndex, RequestIndexFails, Pivot, CheckTerminal,
                BeginEnrichment, EnrichStep, CompleteSearch
  <2>3. ing[i] \in BusyWork
    BY <2>2, BusyType DEF TypeOK
  <2>4. ing'[i].pc # "write" /\ \A n \in Ingesters \ {i} : ing'[n] = ing[n]
    BY <1>3, <2>3, SMTT(30) DEF ReportIngest, RequestIndex, RequestIndexFails, Pivot, CheckTerminal,
                BeginEnrichment, EnrichStep, CompleteSearch, Work, StopWork, NoWork,
                BusyWork, TypeOK
  <2> QED  BY <2>1, <2>2, <2>4, WritingSame, NothingFrame
<1> QED  BY <1>1, <1>2, <1>3 DEF IngestStep

LEMMA OtherDelivery ==
    ASSUME TypeOK,
           ReadPerson \/ WriteDocument \/ WriteDocumentFails \/ MergePerson \/ Crash
    PROVE  Nothing \/ Destroyed
<1> USE DEF OtherFrame, indexVars, streamVars
<1>1. CASE Crash
  <2>1. /\ losses' = [j \in Jobs |-> losses[j] + Cardinality(Writing(j))]
        /\ ing' = [i \in Ingesters |-> NoWork]
        /\ UNCHANGED <<ingestQ, pushes, writes, shown, merged>>
    BY <1>1 DEF Crash
  <2>2. ASSUME NEW j \in Jobs
        PROVE  /\ losses'[j] \in Nat
               /\ losses[j] <= losses'[j] /\ losses'[j] - losses[j] <= Underway(j)
               /\ Underway(j)' = Underway(j) - (losses'[j] - losses[j])
    <3>1. Writing(j)' = {}
      BY <2>1 DEF Writing, NoWork
    <3>2. Cardinality(Writing(j)') = 0 /\ Queued(j)' = Queued(j)
      BY <2>1, <3>1, FS_EmptySet DEF Queued
    <3>3. Cardinality(Queued(j)) \in Nat /\ Cardinality(Writing(j)) \in Nat /\ losses[j] \in Nat
      BY UnderwayType DEF TypeOK
    <3>4. losses'[j] = losses[j] + Cardinality(Writing(j))
      BY <2>1
    <3> QED  BY <3>2, <3>3, <3>4 DEF Underway
  <2>3. losses' \in [Jobs -> Nat]
    BY <2>1, <2>2
  <2> QED  BY <2>1, <2>2, <2>3 DEF Destroyed
<1>2. CASE ~Crash
  <2>1. UNCHANGED <<ing, ingestQ, pushes, writes, losses>>
    BY <1>2 DEF ReadPerson, WriteDocument, WriteDocumentFails, MergePerson
  <2> QED  BY <2>1, NothingFrame DEF Writing
<1> QED  BY <1>1, <1>2

LEMMA DeliveryStep ==
    ASSUME TypeOK, [Next]_vars
    PROVE  Nothing \/ (\E k \in Jobs : Found(k) \/ Aggregated(k)) \/ Destroyed
<1>1. CASE UNCHANGED vars
  BY <1>1, NothingFrame DEF vars, crawlVars, personVars, history, Writing
<1>2. CASE Next
  BY <1>2, CrawlDelivery, IngestDelivery, OtherDelivery DEF Next
<1> QED  BY <1>1, <1>2

-----------------------------------------------------------------------------
(* The two theorems.                                                        *)

LEMMA ConservedInit == Init => ResultsConserved
<1> SUFFICES ASSUME Init, NEW j \in Jobs
             PROVE  pushes[j] = Cardinality(Queued(j)) + Cardinality(Writing(j))
                                  + writes[j] + losses[j]
  BY DEF ResultsConserved
<1>1. Queued(j) = {} /\ Writing(j) = {}
  BY DEF Init, Queued, Writing, NoWork
<1> QED  BY <1>1, FS_EmptySet DEF Init

LEMMA ConservedStep ==
    ASSUME TypeOK, TypeOK', ResultsConserved, [Next]_vars
    PROVE  ResultsConserved'
<1> SUFFICES ASSUME NEW j \in Jobs
             PROVE  pushes'[j] = Underway(j)' + writes'[j] + losses'[j]
  <2>1. \A k \in Jobs : Underway(k)' + writes'[k] + losses'[k]
          = Cardinality(Queued(k)') + Cardinality(Writing(k)') + writes'[k] + losses'[k]
    BY DEF Underway
  <2> QED  BY <2>1 DEF ResultsConserved
<1>1. pushes[j] = Underway(j) + writes[j] + losses[j]
  BY DEF ResultsConserved, Underway
<1>2. /\ Underway(j) \in Nat /\ pushes \in [Jobs -> Nat]
      /\ writes \in [Jobs -> Nat] /\ losses \in [Jobs -> Nat]
  BY UnderwayType DEF TypeOK
<1>3. CASE Nothing
  BY <1>1, <1>3 DEF Nothing
<1>4. ASSUME NEW k \in Jobs, Found(k)
      PROVE  pushes'[j] = Underway(j)' + writes'[j] + losses'[j]
  BY <1>1, <1>2, <1>4 DEF Found
<1>5. ASSUME NEW k \in Jobs, Aggregated(k)
      PROVE  pushes'[j] = Underway(j)' + writes'[j] + losses'[j]
  BY <1>1, <1>2, <1>5 DEF Aggregated
<1>6. CASE Destroyed
  <2>1. losses'[j] \in Nat
    BY <1>6 DEF Destroyed
  <2> QED  BY <1>1, <1>2, <1>6, <2>1 DEF Destroyed
<1> QED  BY <1>3, <1>4, <1>5, <1>6, DeliveryStep

\* Every result that a dispatcher pushes is on the queue, in the hands of one
\* ingester, part of the person's data or lost to a recorded error: none is
\* forgotten and none is aggregated twice.
THEOREM ResultsConservedCorrect == Spec => []ResultsConserved
<1>1. TypeOK /\ TypeOK' /\ ResultsConserved /\ [Next]_vars => ResultsConserved'
  BY ConservedStep
<1> QED  BY <1>1, ConservedInit, TypeCorrect, PTL DEF Spec

LEMMA ImplementsInit == Init => Delivery!Init
<1> SUFFICES ASSUME Init PROVE Delivery!Init
  OBVIOUS
<1>1. ASSUME NEW j \in Jobs
      PROVE  Cardinality(Queued(j)) + Cardinality(Writing(j)) = 0
  <2>1. Queued(j) = {} /\ Writing(j) = {}
    BY DEF Init, Queued, Writing, NoWork
  <2> QED  BY <2>1, FS_EmptySet
<1> QED  BY <1>1 DEF Init, Delivery!Init, Delivery!None

\* The instance counts in the same way.
LEMMA SameCount ==
    ASSUME NEW S
    PROVE  Delivery!Cardinality(S) = Cardinality(S)
BY DEF Delivery!Cardinality, Cardinality

LEMMA ImplementsStep ==
    ASSUME TypeOK, IndexInv, IndexInv', DocumentInv, DocumentInv', [Next]_vars
    PROVE  [Delivery!Next]_Delivery!vars
<1> DEFINE under == [j \in Jobs |-> Cardinality(Queued(j)) + Cardinality(Writing(j))]
<1>1. under = [j \in Jobs |-> Underway(j)] /\ under' = [j \in Jobs |-> Underway(j)']
  BY DEF Underway
<1>2. CASE Nothing /\ merged' = merged
  <2>1. under' = under /\ UNCHANGED <<writes, losses, merged>>
    BY <1>1, <1>2 DEF Nothing
  <2>2. \A j \in shown' : j \in Jobs /\ writes[j] > 0
    BY <2>1 DEF DocumentInv, Document, IndexInv, Stored
  <2>3. Cardinality(shown' \cap Addresses) <= AddressCap
    BY DEF DocumentInv, Document
  <2>4. \A j \in shown \ shown' : Delivery!Replaced(j)
    BY DocumentShrinks, SameCount DEF Delivery!Replaced
  <2> HIDE DEF under
  <2>5. Delivery!Index
    BY <2>1, <2>2, <2>3, <2>4, SameCount DEF Delivery!Index, under
  <2> QED  BY <2>5 DEF Delivery!Next
<1>3. CASE Nothing /\ merged' # merged
  <2>1. under' = under /\ merged' = TRUE /\ UNCHANGED <<writes, losses, shown>>
    BY <1>1, <1>3, MergedStays DEF Nothing
  <2>2. Delivery!Merge
    BY <2>1 DEF Delivery!Merge
  <2> QED  BY <2>2 DEF Delivery!Next
<1>4. ASSUME NEW k \in Jobs, Found(k)
      PROVE  Delivery!Next
  <2>1. under' = [under EXCEPT ![k] = @ + 1] /\ UNCHANGED <<writes, losses, merged, shown>>
    <3>1. /\ UNCHANGED <<writes, losses, merged, shown>>
          /\ Underway(k)' = Underway(k) + 1
          /\ \A j \in Jobs \ {k} : Underway(j)' = Underway(j)
      BY <1>4 DEF Found
    <3> HIDE DEF under
    <3> QED  BY <1>1, <3>1
  <2>2. Delivery!Find(k)
    BY <2>1 DEF Delivery!Find
  <2> QED  BY <2>2 DEF Delivery!Next
<1>5. ASSUME NEW k \in Jobs, Aggregated(k)
      PROVE  Delivery!Next
  <2>1. /\ under' = [under EXCEPT ![k] = @ - 1] /\ under[k] > 0
        /\ writes' = [writes EXCEPT ![k] = @ + 1] /\ UNCHANGED <<losses, merged, shown>>
    BY <1>1, <1>5 DEF Aggregated
  <2>2. Delivery!Store(k)
    BY <2>1 DEF Delivery!Store
  <2> QED  BY <2>2 DEF Delivery!Next
<1>6. CASE Destroyed
  <2>1. /\ under' = [j \in Jobs |-> under[j] - (losses'[j] - losses[j])]
        /\ \A j \in Jobs : losses[j] <= losses'[j] /\ losses'[j] - losses[j] <= under[j]
        /\ losses' \in [Jobs -> Nat] /\ UNCHANGED <<writes, merged, shown>>
    BY <1>1, <1>6 DEF Destroyed
  <2>2. Delivery!Lose
    BY <2>1 DEF Delivery!Lose
  <2> QED  BY <2>2 DEF Delivery!Next
<1> QED  BY <1>2, <1>3, <1>4, <1>5, <1>6, DeliveryStep

\* What the index and its document keep of the person.
LEMMA IndexInvariant == Spec => [](IndexInv /\ DocumentInv)
<1>1. TypeOK /\ IndexInv /\ [Next]_vars => IndexInv'
  BY IndexStep
<1>2. DocumentInv /\ [Next]_vars => DocumentInv'
  BY DocumentStep
<1> QED  BY <1>1, <1>2, IndexInit, DocumentInit, TypeCorrect, PTL DEF Spec

\* The pipeline implements its abstract specification.
THEOREM Refinement == Spec => ImplementsDelivery
<1>1. /\ TypeOK /\ (IndexInv /\ DocumentInv) /\ (IndexInv /\ DocumentInv)' /\ [Next]_vars
      => [Delivery!Next]_Delivery!vars
  BY ImplementsStep
<1>2. Spec => [][Delivery!Next]_Delivery!vars
  BY <1>1, IndexInvariant, TypeCorrect, PTL DEF Spec
<1> QED
  BY <1>2, ImplementsInit, PTL DEF Spec, ImplementsDelivery, Delivery!Spec

\* What the search document shows it goes on showing, until another address takes
\* the place, or the identifier belongs to another person: no document is
\* overwritten with one made from older data, however requests, reads and writes
\* of the indexer interleave with ingesters, faults and crashes
\* (modules/search/index_daemon.py:50-154).
THEOREM SearchableStays ==
    Spec => [][\A j \in shown \ shown' :
                  \/ j \in Addresses /\ Cardinality(shown' \cap Addresses) = AddressCap
                  \/ j \in Identifiers /\ merged]_shown
<1>1. /\ IndexInv /\ DocumentInv /\ [Next]_vars
      => [\A j \in shown \ shown' :
            \/ j \in Addresses /\ Cardinality(shown' \cap Addresses) = AddressCap
            \/ j \in Identifiers /\ merged]_shown
  BY DocumentShrinks
<1> QED  BY <1>1, IndexInvariant, PTL DEF Spec

-----------------------------------------------------------------------------
(* The corroboration count.                                                 *)
(*                                                                         *)
(* CorroborationCounted is not inductive: an ingester writes a count it     *)
(* computed from one it had loaded some steps before.  That one is within   *)
(* the bound, and it is the count of now as long as nobody raced.           *)

Bounded(n) == n <= 1 + Cardinality(Counting)

CorroborationInv ==
    /\ CorroborationCounted
    /\ \A i \in Ingesters :
          ing[i].pc = "write" => /\ Bounded(ing[i].corr)
                                 /\ ~raced /\ ing[i].job \in Reliable => ing[i].corr = corr

LEMMA CountingFinite == TypeOK => IsFiniteSet(Counting) /\ Cardinality(Counting) \in Nat
<1> SUFFICES ASSUME TypeOK PROVE IsFiniteSet(Counting)
  BY FS_CardinalityType
<1> DEFINE Of1(j) == {j} \X (1..writes[j])
           all == {Of1(j) : j \in Reliable}
           f == [j \in Reliable |-> Of1(j)]
<1>1. IsFiniteSet(Reliable)
  BY ConstantsAssumption, FS_Subset
<1>2. f \in Surjection(Reliable, all)
  BY DEF Surjection
<1>3. ASSUME NEW j \in Reliable PROVE IsFiniteSet(Of1(j))
  <2>1. writes[j] \in Nat
    BY ConstantsAssumption DEF TypeOK
  <2>2. IsFiniteSet({j}) /\ IsFiniteSet(1..writes[j])
    <3>1. IsFiniteSet({j})
      BY FS_Singleton
    <3>2. 1 \in Int /\ writes[j] \in Int
      BY <2>1
    <3> QED  BY <3>1, <3>2, FS_Interval
  <2> QED  BY <2>2, FS_Product
<1> HIDE DEF f, Of1
<1>4. IsFiniteSet(all)
  <2> HIDE DEF all
  <2> QED  BY <1>1, <1>2, FS_Surjection
<1>5. \A S \in all : IsFiniteSet(S)
  BY <1>3
<1> HIDE DEF all
<1>6. IsFiniteSet(UNION all)
  BY <1>4, <1>5, FS_UNION
<1> QED  BY <1>6 DEF Counting, all, Of1

\* A reliable result that is aggregated is one more, any other changes nothing.
LEMMA CountingWrite ==
    ASSUME TypeOK, NEW k \in Jobs, writes' = [writes EXCEPT ![k] = @ + 1]
    PROVE  Cardinality(Counting') = IF k \in Reliable THEN Cardinality(Counting) + 1
                                                      ELSE Cardinality(Counting)
<1>1. \A j \in Jobs : writes[j] \in Nat /\ writes'[j] = IF j = k THEN writes[j] + 1 ELSE writes[j]
  BY DEF TypeOK
<1>2. Reliable \subseteq Jobs
  BY ConstantsAssumption
<1>3. \A x : x \in Counting <=> \E j \in Reliable : \E n \in 1..writes[j] : x = <<j, n>>
  BY DEF Counting
<1>4. \A x : x \in Counting' <=> \E j \in Reliable : \E n \in 1..writes'[j] : x = <<j, n>>
  BY DEF Counting
<1> DEFINE new == <<k, writes[k] + 1>>
<1>5. CASE k \in Reliable
  <2>1. new \notin Counting
    BY <1>1, <1>3
  <2>2. ASSUME NEW j \in Reliable, NEW n \in 1..writes'[j] PROVE <<j, n>> \in Counting \cup {new}
    <3>1. n \in 1..writes[j] \/ (j = k /\ n = writes[k] + 1)
      BY <1>1, <1>2
    <3> QED  BY <1>3, <3>1
  <2>3. ASSUME NEW j \in Reliable, NEW n \in 1..writes[j] PROVE <<j, n>> \in Counting'
    <3>1. n \in 1..writes'[j]
      BY <1>1, <1>2
    <3> QED  BY <1>4, <3>1
  <2>4. new \in Counting'
    <3>1. writes[k] + 1 \in 1..writes'[k]
      BY <1>1
    <3> QED  BY <1>4, <1>5, <3>1
  <2>5. Counting' = Counting \cup {new}
    BY <1>3, <1>4, <2>2, <2>3, <2>4
  <2> QED  BY <1>5, <2>1, <2>5, CountingFinite, FS_AddElement
<1>6. CASE k \notin Reliable
  <2>1. \A j \in Reliable : writes'[j] = writes[j]
    BY <1>1, <1>2, <1>6
  <2>2. Counting' = Counting
    BY <1>3, <1>4, <2>1
  <2> QED  BY <1>6, <2>2
<1> QED  BY <1>5, <1>6

\* What neither writes nor loads a count keeps the invariant.
LEMMA CorroborationFrame ==
    ASSUME CorroborationInv, UNCHANGED <<writes, corr, raced>>,
           \A i \in Ingesters : ing'[i].pc = "write" => ing'[i] = ing[i]
    PROVE  CorroborationInv'
<1>1. Counting' = Counting
  BY DEF Counting
<1> QED  BY <1>1 DEF CorroborationInv, CorroborationCounted, Bounded

LEMMA CorroborationStep ==
    ASSUME TypeOK, CorroborationInv, [Next]_vars
    PROVE  CorroborationInv'
<1> USE DEF personVars, history
<1>1. CASE UNCHANGED vars
  BY <1>1, CorroborationFrame DEF vars
<1>2. ASSUME NEW j \in Jobs, Crawls(j)
      PROVE  CorroborationInv'
  BY <1>2, CrawlRest, CorroborationFrame
<1>3. ASSUME NEW i \in Ingesters, IngestStep(i) \/ WriteFails(i) \/ RequestIndexFails(i)
      PROVE  CorroborationInv'
  <2>1. CASE Pop(i)
    <3>1. /\ ing' = [ing EXCEPT ![i] = [pc |-> "write", job |-> Head(ingestQ), corr |-> corr,
                                        step |-> 0]]
          /\ UNCHANGED <<writes, corr, raced>>
      BY <2>1 DEF Pop
    <3>2. \A k \in Ingesters : ing'[k] = ing[k] \/ (k = i /\ ing'[k].corr = corr)
      BY <3>1 DEF TypeOK
    <3>3. Counting' = Counting
      BY <3>1 DEF Counting
    <3> QED  BY <3>1, <3>2, <3>3 DEF CorroborationInv, CorroborationCounted, Bounded
  <2>2. CASE Write(i)
    <3> DEFINE k == ing[i].job
    <3>1. /\ ing[i].pc = "write" /\ writes' = [writes EXCEPT ![k] = @ + 1]
          /\ corr' = IF k \in Reliable THEN ing[i].corr + 1 ELSE corr
          /\ ing' = [ing EXCEPT ![i].pc = "event"]
          /\ raced' = (raced \/ CountIsLoaded(i))
      BY <2>2 DEF Write, Work
    <3>2. k \in Jobs /\ ing[i].corr \in Nat /\ corr \in Nat /\ ing[i] \in BusyWork
      BY <3>1, BusyType DEF BusyWork, TypeOK
    <3> HIDE DEF k
    <3>3. /\ Cardinality(Counting) \in Nat
          /\ Cardinality(Counting') = IF k \in Reliable THEN Cardinality(Counting) + 1
                                                       ELSE Cardinality(Counting)
      BY <3>1, <3>2, CountingFinite, CountingWrite
    <3>4. /\ Bounded(corr) /\ Bounded(ing[i].corr)
          /\ raced \/ corr = 1 + Cardinality(Counting)
          /\ raced \/ k \notin Reliable \/ ing[i].corr = corr
      BY <3>1 DEF CorroborationInv, CorroborationCounted, Bounded, k
    <3>5. CorroborationCounted'
      <4>1. Bounded(corr)'
        BY <3>1, <3>2, <3>3, <3>4 DEF Bounded
      <4>2. ASSUME ~raced' PROVE corr' = 1 + Cardinality(Counting')
        <5>1. ~raced /\ corr = 1 + Cardinality(Counting) /\ (k \notin Reliable \/ ing[i].corr = corr)
          BY <3>1, <3>4, <4>2
        <5> QED  BY <3>1, <3>2, <3>3, <5>1
      <4> QED  BY <4>1, <4>2 DEF CorroborationCounted, Bounded
    <3>6. \A n \in Ingesters : ing'[n].pc = "write" =>
            n # i /\ ing'[n] = ing[n] /\ ing[n].corr \in Nat
      <4>1. ASSUME NEW n \in Ingesters, n # i, ing[n].pc = "write" PROVE ing[n].corr \in Nat
        BY <4>1, BusyType DEF BusyWork, TypeOK
      <4>2. \A n \in Ingesters : n # i => ing'[n] = ing[n]
        BY <3>1 DEF TypeOK
      <4>3. ing'[i].pc = "event"
        BY <3>1, <3>2 DEF BusyWork, TypeOK
      <4> QED  BY <4>1, <4>2, <4>3
    <3>7. ASSUME NEW n \in Ingesters, ing'[n].pc = "write" PROVE Bounded(ing[n].corr)'
      <4>1. ing'[n] = ing[n] /\ ing[n].corr \in Nat /\ Bounded(ing[n].corr)
        BY <3>6, <3>7 DEF CorroborationInv
      <4> QED  BY <3>3, <4>1 DEF Bounded
    <3>8. ASSUME NEW n \in Ingesters, ing'[n].pc = "write", ~raced', ing'[n].job \in Reliable
          PROVE  ing'[n].corr = corr'
      <4>1. n # i /\ ing'[n] = ing[n] /\ ~raced /\ ~CountIsLoaded(i)
        BY <3>1, <3>6, <3>8
      <4>2. k \notin Reliable
        BY <3>8, <4>1 DEF CountIsLoaded, k
      <4> QED  BY <3>1, <3>8, <4>1, <4>2 DEF CorroborationInv
    <3> QED  BY <3>5, <3>7, <3>8 DEF CorroborationInv
  <2>3. CASE ~Pop(i) /\ ~Write(i)
    <3>1. UNCHANGED <<writes, corr, raced>>
      BY <1>3, <2>3 DEF IngestStep, WriteFails, ReportIngest, RequestIndex, RequestIndexFails, Pivot,
                        CheckTerminal, BeginEnrichment, EnrichStep, CompleteSearch, EnrichFrame
    <3>2. \/ ing' = [ing EXCEPT ![i] = NoWork]
          \/ \E pc \in Ingesting \ {"write"} : Work(i, pc)
          \/ EnrichStep(i)
      BY <1>3, <2>3 DEF IngestStep, WriteFails, ReportIngest, RequestIndex, RequestIndexFails, Pivot,
                        CheckTerminal, BeginEnrichment, CompleteSearch, StopWork, Ingesting
    <3>3. /\ \A k \in Ingesters \ {i} : ing'[k] = ing[k]
          /\ ing'[i].pc = "write" => ing'[i] = ing[i]
      <4>1. CASE ing' = [ing EXCEPT ![i] = NoWork]
        BY <4>1 DEF NoWork, TypeOK
      <4>2. CASE \E pc \in Ingesting \ {"write"} : Work(i, pc)
        BY <4>2 DEF Work, NoWork, BusyWork, TypeOK
      <4>3. CASE EnrichStep(i)
        <5>1. ing[i] \in BusyWork
          BY <4>3, BusyType DEF EnrichStep, TypeOK
        <5> QED  BY <4>3, <5>1 DEF EnrichStep, BusyWork, TypeOK
      <4> QED  BY <3>2, <4>1, <4>2, <4>3
    <3> QED  BY <3>1, <3>3, CorroborationFrame
  <2> QED  BY <2>1, <2>2, <2>3
<1>4. CASE ReadPerson \/ WriteDocument \/ WriteDocumentFails \/ MergePerson
  <2>1. UNCHANGED <<ing, writes, corr, raced>>
    BY <1>4 DEF ReadPerson, WriteDocument, WriteDocumentFails, MergePerson, OtherFrame
  <2> QED  BY <2>1, CorroborationFrame
<1>5. CASE Crash
  <2>1. UNCHANGED <<writes, corr, raced>> /\ ing' = [i \in Ingesters |-> NoWork]
    BY <1>5 DEF Crash, OtherFrame
  <2> QED  BY <2>1, CorroborationFrame DEF NoWork
<1> QED  BY <1>1, <1>2, <1>3, <1>4, <1>5 DEF Next

LEMMA CorroborationInit == Init => CorroborationInv
<1> SUFFICES ASSUME Init PROVE CorroborationInv
  OBVIOUS
<1>1. corr = 1 /\ ing = [i \in Ingesters |-> NoWork] /\ \A j \in Jobs : writes[j] = 0
  BY DEF Init
<1>2. Counting = {}
  BY <1>1, ConstantsAssumption DEF Counting
<1> QED  BY <1>1, <1>2, FS_EmptySet DEF CorroborationInv, CorroborationCounted, NoWork

\* The corroboration count is the number of reliable results that were aggregated,
\* however often crawls are repeated and writes fail, until two ingesters have the
\* person loaded at the same time; even then no result raises it twice.
THEOREM CorroborationCountedCorrect == Spec => []CorroborationCounted
<1>1. TypeOK /\ CorroborationInv /\ [Next]_vars => CorroborationInv'
  BY CorroborationStep
<1>2. CorroborationInv => CorroborationCounted
  BY DEF CorroborationInv
<1> QED  BY <1>1, <1>2, CorroborationInit, TypeCorrect, PTL DEF Spec

-----------------------------------------------------------------------------
(* SearchProgress: the percentage.                                          *)

\* The smaller, and the larger, of two numbers.
LEMMA MinOfTwo ==
    ASSUME NEW m \in Nat, NEW n \in Nat
    PROVE  Min({m, n}) \in Nat /\ Min({m, n}) <= m /\ Min({m, n}) <= n
<1>1. \E x \in {m, n} : \A y \in {m, n} : x <= y
  <2>1. CASE m <= n
    BY <2>1
  <2>2. CASE n <= m
    BY <2>2
  <2> QED  BY <2>1, <2>2
<1>2. Min({m, n}) \in {m, n} /\ \A y \in {m, n} : Min({m, n}) <= y
  BY <1>1, Zenon DEF Min
<1> QED  BY <1>2

LEMMA AtLeastOneType ==
    ASSUME NEW n \in Nat
    PROVE  AtLeastOne(n) \in Nat \ {0}
<1>1. \E x \in {1, n} : \A y \in {1, n} : x >= y
  <2>1. CASE n >= 1
    BY <2>1
  <2>2. CASE n = 0
    BY <2>2
  <2> QED  BY <2>1, <2>2
<1>2. Max({1, n}) \in {1, n} /\ \A y \in {1, n} : Max({1, n}) >= y
  BY <1>1, Zenon DEF Max
<1> QED  BY <1>2 DEF AtLeastOne

LEMMA Quotient ==
    ASSUME NEW m \in Nat, NEW n \in Nat \ {0}
    PROVE  m \div n \in Nat
OBVIOUS

\* However the counters of the aggregator stand, the percentage is in the range of
\* its phase.
LEMMA PctBounded == agg \in Aggregator => PctInPhase
<1> SUFFICES ASSUME agg \in Aggregator
             PROVE  progress_pct \in PHASE_RANGES[agg.phase]
  BY DEF PctInPhase
<1>1. /\ agg.phase \in StreamPhase /\ agg.total \in Nat \ {0} /\ agg.done \in Nat
      /\ agg.failed \in Nat /\ agg.dedup \in Count /\ agg.enrich \in Count
  BY DEF Aggregator
<1>2. ASSUME NEW width \in Nat, NEW c \in Count, c.total # 0
      PROVE  PartOf(width, c) \in 0..width
  <2>1. c.processed * width \in Nat /\ c.total \in Nat \ {0}
    BY <1>2 DEF Count
  <2> QED  BY <2>1, Quotient, MinOfTwo DEF PartOf
<1>3. collection_pct(agg.done + agg.failed, agg.total) \in 0..60
  <2>1. (agg.done + agg.failed) * 60 \in Nat
    BY <1>1
  <2>2. ((agg.done + agg.failed) * 60) \div agg.total \in Nat
    BY <1>1, <2>1, Quotient
  <2> QED  BY <2>2, MinOfTwo, SMTT(30) DEF collection_pct
<1>4. dedup_pct(agg.dedup) \in 60..75
  <2>1. agg.dedup.total # 0 => PartOf(15, agg.dedup) \in 0..15
    BY <1>1, <1>2
  <2> QED  BY <2>1 DEF dedup_pct
<1>5. enrichment_pct(agg.enrich) \in 75..95
  <2>1. agg.enrich.total # 0 => PartOf(20, agg.enrich) \in 0..20
    BY <1>1, <1>2
  <2> QED  BY <2>1 DEF enrichment_pct
<1>6. CASE agg.phase = "collecting"
  BY <1>3, <1>6 DEF progress_pct, PHASE_RANGES
<1>7. CASE agg.phase = "deduplicating"
  BY <1>4, <1>7 DEF progress_pct, PHASE_RANGES
<1>8. CASE agg.phase = "enriching"
  BY <1>5, <1>8 DEF progress_pct, PHASE_RANGES
<1>9. CASE agg.phase = "complete"
  BY <1>9 DEF progress_pct, PHASE_RANGES
<1> QED  BY <1>1, <1>6, <1>7, <1>8, <1>9 DEF StreamPhase

-----------------------------------------------------------------------------
(* What the stream says of a crawl.                                         *)

News     == {e \in Event : e.type \in ReportType}
Tells(j) == {e \in Event : e.job = j /\ e.type \in {"scraper_running"} \cup ReportType}

\* An attempt at crawl j has not reported yet.
Busy(j) == \E k \in Attempts : run[j][k].pc \in Unreported

\* "mixed": how many attempts have not reported cannot be told from the events.
Modes   == {"idle", "busy", "mixed"}
Mode(j) == IF ~Busy(j) THEN "idle" ELSE IF j \in overlapped THEN "mixed" ELSE "busy"

\* A status, or the event that sets it, agrees with the mode of its crawl.
Fits(said, mode) ==
    /\ said \in {"running", "scraper_running"} => mode # "idle"
    /\ said \in {"done", "failed"} \cup ReportType => mode # "busy"

\* The last event about j in the queue q agrees with the mode of j, and so does the
\* status, if there is none.
Told(q, status, mode, j) ==
    /\ \A k \in Places(q, Tells(j)) :
           (\A n \in Places(q, Tells(j)) : n <= k) => Fits(q[k].type, mode)
    /\ Places(q, Tells(j)) = {} => Fits(status, mode)

\* An event of j joins the queue.
LEMMA ToldNews ==
    ASSUME NEW q \in Seq(Event), NEW status, NEW mode, NEW j, NEW e \in Tells(j), Fits(e.type, mode)
    PROVE  Told(Append(q, e), status, mode, j)
<1>1. /\ Len(q) + 1 \in Places(Append(q, e), Tells(j))
      /\ Append(q, e)[Len(q) + 1] = e
  BY DEF Places, Tells
<1>2. \A k \in Places(Append(q, e), Tells(j)) : k \in 1..(Len(q) + 1)
  BY DEF Places, Tells
<1>3. ASSUME NEW k \in Places(Append(q, e), Tells(j)),
             \A n \in Places(Append(q, e), Tells(j)) : n <= k
      PROVE  k = Len(q) + 1
  <2>1. k \in 1..(Len(q) + 1) /\ Len(q) + 1 <= k /\ Len(q) \in Nat
    BY <1>1, <1>2, <1>3
  <2> QED  BY <2>1
<1> QED  BY <1>1, <1>3 DEF Told

\* One that is not about j joins.
LEMMA ToldOther ==
    ASSUME NEW q \in Seq(Event), NEW status, NEW mode, NEW j, NEW e \in Event \ Tells(j),
           Told(q, status, mode, j)
    PROVE  Told(Append(q, e), status, mode, j)
<1>1. Places(Append(q, e), Tells(j)) = Places(q, Tells(j))
  BY DEF Places
<1>2. \A k \in Places(q, Tells(j)) : Append(q, e)[k] = q[k]
  BY DEF Places
<1> QED  BY <1>1, <1>2 DEF Told

\* The stream processes an event.
LEMMA ToldTail ==
    ASSUME NEW q \in Seq(Event), q # <<>>, NEW status, NEW next, NEW mode, NEW j,
           Told(q, status, mode, j),
           Head(q) \in Tells(j) => (Fits(Head(q).type, mode) => Fits(next, mode)),
           Head(q) \notin Tells(j) => (Fits(status, mode) => Fits(next, mode))
    PROVE  Told(Tail(q), next, mode, j)
<1> DEFINE T == Places(Tail(q), Tells(j))
           Q == Places(q, Tells(j))
<1>1. /\ Tail(q) \in Seq(Event) /\ Len(q) \in Nat \ {0} /\ Len(Tail(q)) = Len(q) - 1
      /\ \A n \in 1..Len(Tail(q)) : Tail(q)[n] = q[n + 1]
      /\ Head(q) = q[1]
  OBVIOUS
<1>2. T \subseteq Nat /\ Q \subseteq Nat
  BY DEF Places
<1>3. \A n \in T : n + 1 \in Q /\ Tail(q)[n] = q[n + 1]
  BY <1>1 DEF Places
<1>4. \A n \in Q : n = 1 \/ n - 1 \in T
  BY <1>1 DEF Places
<1>5. 1 \in Q <=> Head(q) \in Tells(j)
  BY <1>1 DEF Places
<1>6. ASSUME NEW k \in T, \A n \in T : n <= k
      PROVE  Fits(Tail(q)[k].type, mode)
  <2>1. \A n \in Q : n <= k + 1
    BY <1>2, <1>4, <1>6
  <2>2. k + 1 \in Q /\ Tail(q)[k] = q[k + 1]
    BY <1>3
  <2> QED  BY <2>1, <2>2 DEF Told
<1>7. ASSUME T = {}
      PROVE  Fits(next, mode)
  <2>1. CASE Head(q) \in Tells(j)
    <3>1. 1 \in Q /\ \A n \in Q : n <= 1
      BY <1>2, <1>4, <1>5, <1>7, <2>1
    <3>2. Fits(q[1].type, mode)
      BY <3>1 DEF Told
    <3> QED  BY <1>1, <2>1, <3>2
  <2>2. CASE Head(q) \notin Tells(j)
    <3>1. Q = {}
      BY <1>4, <1>5, <1>7, <2>2
    <3> QED  BY <2>2, <3>1 DEF Told
  <2> QED  BY <2>1, <2>2
<1> QED  BY <1>6, <1>7 DEF Told

-----------------------------------------------------------------------------
(* The inductive invariant.                                                 *)

\* Before the stream is open nothing is counted and no crawl has been heard of.
Unheard ==
    /\ heard = 0 /\ agg.done = 0 /\ agg.failed = 0
    /\ \A j \in Jobs : agg.statuses[j] \in {"none", "queued"}

\* Attempts that have not reported are one at a time, unless they overlapped.
OneAtATime ==
    \A j \in Jobs \ overlapped : \A k, n \in Attempts :
        run[j][k].pc \in Unreported /\ run[j][n].pc \in Unreported => k = n

ProgressTypes ==
    /\ TypeOK
    /\ announced \in BOOLEAN /\ stream \in {"off", "counted", "open", "closed"}
    /\ agg \in Aggregator /\ heard \in Nat
    /\ listening = (stream = "open")
    /\ stream # "open" => inbox = <<>>

ProgressInv ==
    /\ ProgressTypes
    /\ OneAtATime
    /\ stream \in {"off", "counted"} => Unheard
    /\ stream = "open" =>
           /\ agg.done + agg.failed + Cardinality(Places(inbox, News)) = heard
           /\ \A j \in Jobs \ silent : Told(inbox, agg.statuses[j], Mode(j), j)

LEMMA ReportsArePlaces ==
    ASSUME inbox \in Seq(Event)
    PROVE  /\ Reports = Places(inbox, News)
           /\ \A j \in Jobs : About(j) = Places(inbox, Tells(j))
<1>1. \A k \in 1..Len(inbox) : inbox[k] \in Event
  OBVIOUS
<1> QED  BY <1>1 DEF Reports, About, Places, News, Tells

-----------------------------------------------------------------------------
(* What a step of the pipeline publishes.                                   *)

\* Nothing about a crawl, and every crawl that is told of stays in its mode.
Silent ==
    /\ \/ inbox' = inbox
       \/ \E e \in Event : /\ e.type \notin {"scraper_running"} \cup ReportType
                           /\ inbox' = Append(inbox, e)
    /\ silent \subseteq silent'
    /\ \A j \in Jobs \ silent' : Mode(j)' = Mode(j)

\* That an attempt at crawl j begins, or that one is through.
Speaks(j, e) ==
    /\ inbox' = Append(inbox, e) /\ e \in Tells(j) /\ Fits(e.type, Mode(j)')
    /\ silent' = silent
    /\ \A i \in Jobs \ {j} : Mode(i)' = Mode(i)

\* One task moves.
LEMMA Moved ==
    ASSUME TypeOK, NEW j \in Jobs, NEW k \in Attempts, NEW t, To(j, k, t)
    PROVE  \A i \in Jobs, n \in Attempts :
               run'[i][n] = IF i = j /\ n = k THEN t ELSE run[i][n]
BY DEF To, TypeOK

LEMMA ModeSame ==
    ASSUME NEW i \in Jobs, i \in overlapped' <=> i \in overlapped,
           \A n \in Attempts : run'[i][n].pc \in Unreported <=> run[i][n].pc \in Unreported
    PROVE  Mode(i)' = Mode(i)
<1>1. Busy(i)' <=> Busy(i)
  BY DEF Busy
<1> QED  BY <1>1 DEF Mode

\* A step of a crawl other than its beginning and its report: no attempt becomes
\* unreported, and one that vanishes leaves the crawl silent.
LEMMA CrawlGoesOn ==
    ASSUME TypeOK, NEW j \in Jobs, NEW k \in Attempts,
           \/ FoundResult(j, k) \/ NoResult(j, k) \/ SettleCrawl(j, k)
           \/ CheckSearchComplete(j, k) \/ CrawlFails(j, k) \/ HandlerFails(j, k)
    PROVE  /\ overlapped' = overlapped /\ silent \subseteq silent'
           /\ \A i \in Jobs, n \in Attempts :
                 run'[i][n].pc \in Unreported => run[i][n].pc \in Unreported
           /\ \A i \in Jobs \ silent' : Mode(i)' = Mode(i)
<1> USE DEF taskHistory
<1>0. overlapped' = overlapped
  BY DEF FoundResult, NoResult, SettleCrawl, CheckSearchComplete, CrawlFails, HandlerFails
<1>m ASSUME NEW t, To(j, k, t), t.pc \in Unreported <=> run[j][k].pc \in Unreported,
            silent \subseteq silent'
     PROVE  /\ silent \subseteq silent'
            /\ \A i \in Jobs, n \in Attempts :
                 run'[i][n].pc \in Unreported => run[i][n].pc \in Unreported
            /\ \A i \in Jobs \ silent' : Mode(i)' = Mode(i)
  <2>1. \A i \in Jobs, n \in Attempts :
           run'[i][n].pc \in Unreported <=> run[i][n].pc \in Unreported
    BY <1>m, Moved
  <2> QED  BY <1>0, <1>m, <2>1, ModeSame
<1>g ASSUME GiveUp(j, k)
     PROVE  /\ silent \subseteq silent'
            /\ \A i \in Jobs, n \in Attempts :
                 run'[i][n].pc \in Unreported => run[i][n].pc \in Unreported
            /\ \A i \in Jobs \ silent' : Mode(i)' = Mode(i)
  <2>1. \A i \in Jobs, n \in Attempts :
           run'[i][n] = IF i = j /\ n = k THEN Free ELSE run[i][n]
    BY <1>g, Moved DEF GiveUp
  <2>2. silent' = silent \cup {j} /\ Free.pc \notin Unreported
    BY <1>g DEF GiveUp, Free, Unreported
  <2>3. \A i \in Jobs \ silent' : \A n \in Attempts : run'[i][n] = run[i][n]
    BY <2>1, <2>2
  <2> QED  BY <1>0, <2>1, <2>2, <2>3, ModeSame
<1>1. CASE FoundResult(j, k)
  <2>1. /\ To(j, k, [pc |-> "pushed", verdict |-> "found"]) /\ silent' = silent
        /\ run[j][k].pc = "running"
    BY <1>1 DEF FoundResult
  <2> QED  BY <1>0, <1>m, <2>1 DEF Unreported
<1>2. CASE NoResult(j, k)
  <2>1. PICK v : To(j, k, [pc |-> "ended", verdict |-> v])
    BY <1>2 DEF NoResult
  <2>2. silent' = silent /\ run[j][k].pc = "running"
    BY <1>2 DEF NoResult
  <2> QED  BY <1>0, <1>m, <2>1, <2>2 DEF Unreported
<1>3. CASE SettleCrawl(j, k)
  <2>1. /\ To(j, k, [run[j][k] EXCEPT !.pc = "settled"]) /\ silent' = silent
        /\ run[j][k].pc \in {"pushed", "ended"}
    BY <1>3 DEF SettleCrawl
  <2>2. run[j][k] \in Task
    BY <2>1, TaskType
  <2>3. [run[j][k] EXCEPT !.pc = "settled"].pc = "settled"
    BY <2>2 DEF Task
  <2> QED  BY <1>0, <1>m, <2>1, <2>3 DEF Unreported
<1>4. CASE CheckSearchComplete(j, k)
  <2>1. To(j, k, Free) /\ silent' = silent /\ run[j][k].pc = "reported"
    BY <1>4 DEF CheckSearchComplete
  <2> QED  BY <1>0, <1>m, <2>1 DEF Free, Unreported
<1>5. CASE CrawlFails(j, k)
  <2>1. CASE GiveUp(j, k)
    BY <1>0, <1>g, <2>1
  <2>2. CASE To(j, k, [pc |-> "ended", verdict |-> "failed"]) /\ UNCHANGED silent
    <3>1. run[j][k].pc \in Unreported
      BY <1>5 DEF CrawlFails, Unreported
    <3> QED  BY <1>0, <1>m, <2>2, <3>1 DEF Unreported
  <2> QED  BY <1>5, <2>1, <2>2 DEF CrawlFails
<1>6. CASE HandlerFails(j, k)
  BY <1>0, <1>6, <1>g DEF HandlerFails
<1> QED  BY <1>1, <1>2, <1>3, <1>4, <1>5, <1>6

LEMMA CrawlSays ==
    ASSUME TypeOK, OneAtATime, listening, NEW j \in Jobs, Crawls(j)
    PROVE  Silent \/ (\E e \in Event : Speaks(j, e))
<1> USE DEF taskHistory
<1>1. ASSUME NEW k \in Attempts, StartCrawl(j, k)
      PROVE  Silent \/ (\E e \in Event : Speaks(j, e))
  <2> DEFINE e == Of("scraper_running", j, 0, 0)
  <2>1. e \in Event /\ e.job = j /\ e.type = "scraper_running"
    BY OfType DEF EventType, Of
  <2>2. \A i \in Jobs, n \in Attempts :
           run'[i][n] = IF i = j /\ n = k THEN [pc |-> "running", verdict |-> "none"]
                                          ELSE run[i][n]
    BY <1>1, Moved DEF StartCrawl
  <2>3. \A i \in Jobs \ {j} : i \in overlapped' <=> i \in overlapped
    BY <1>1 DEF StartCrawl
  <2>4. \A i \in Jobs \ {j} : Mode(i)' = Mode(i)
    BY <2>2, <2>3, ModeSame
  <2>5. Mode(j)' # "idle"
    <3>1. Busy(j)'
      BY <2>2 DEF Busy, Unreported
    <3> QED  BY <3>1 DEF Mode
  <2> HIDE DEF e
  <2>6. CASE Publish(e) /\ UNCHANGED <<faults, silent>>
    <3>1. inbox' = Append(inbox, e) /\ e \in Tells(j)
      BY <2>1, <2>6 DEF Publish, Tells
    <3>2. Fits(e.type, Mode(j)')
      BY <2>1, <2>5 DEF Fits, ReportType
    <3> QED  BY <2>1, <2>4, <2>6, <3>1, <3>2 DEF Speaks
  <2>7. CASE Swallowed /\ silent' = silent \cup {j}
    BY <2>4, <2>7 DEF Swallowed, Silent
  <2> QED  BY <1>1, <2>6, <2>7 DEF StartCrawl, Tell, e
<1>2. ASSUME NEW k \in Attempts, ReportCrawl(j, k)
      PROVE  Silent \/ (\E e \in Event : Speaks(j, e))
  <2> DEFINE type == IF run[j][k].verdict = "failed" THEN "scraper_failed" ELSE "scraper_done"
             e == Of(type, j, 0, 0)
  <2>1. e \in Event /\ e.job = j /\ e.type \in ReportType
    BY OfType DEF EventType, Of, ReportType
  <2>2. run[j][k].pc = "settled" /\ run[j][k] \in Task
    BY <1>2, TaskType DEF ReportCrawl
  <2> DEFINE t == [run[j][k] EXCEPT !.pc = "reported"]
  <2>3. To(j, k, t) /\ t.pc = "reported"
    BY <1>2, <2>2 DEF ReportCrawl, Task
  <2> HIDE DEF t
  <2>4. \A i \in Jobs, n \in Attempts :
           run'[i][n] = IF i = j /\ n = k THEN t ELSE run[i][n]
    BY <2>3, Moved
  <2>5. overlapped' = overlapped
    BY <1>2 DEF ReportCrawl
  <2>6. \A i \in Jobs \ {j} : Mode(i)' = Mode(i)
    BY <2>4, <2>5, ModeSame
  <2>7. Mode(j)' # "busy"
    <3>1. ASSUME j \notin overlapped, NEW n \in Attempts PROVE run'[j][n].pc \notin Unreported
      <4>1. CASE n = k
        BY <2>3, <2>4, <4>1 DEF Unreported
      <4>2. CASE n # k
        BY <2>2, <2>4, <3>1, <4>2 DEF OneAtATime, Unreported
      <4> QED  BY <4>1, <4>2
    <3>2. j \in overlapped' \/ ~Busy(j)'
      BY <2>5, <3>1 DEF Busy
    <3> QED  BY <3>2 DEF Mode
  <2> HIDE DEF e, type
  <2>8. CASE Publish(e) /\ UNCHANGED <<faults, silent>>
    <3>1. inbox' = Append(inbox, e) /\ e \in Tells(j)
      BY <2>1, <2>8 DEF Publish, Tells
    <3>2. Fits(e.type, Mode(j)')
      BY <2>1, <2>7 DEF Fits, ReportType
    <3> QED  BY <2>1, <2>6, <2>8, <3>1, <3>2 DEF Speaks
  <2>9. CASE Swallowed /\ silent' = silent \cup {j}
    BY <2>6, <2>9 DEF Swallowed, Silent
  <2> QED  BY <1>2, <2>8, <2>9 DEF ReportCrawl, Tell, e, type
<1>3. ASSUME NEW k \in Attempts,
             \/ FoundResult(j, k) \/ NoResult(j, k) \/ SettleCrawl(j, k)
             \/ CheckSearchComplete(j, k) \/ CrawlFails(j, k) \/ HandlerFails(j, k)
      PROVE  Silent
  <2>1. /\ silent \subseteq silent'
        /\ \A i \in Jobs \ silent' : Mode(i)' = Mode(i)
    BY <1>3, CrawlGoesOn
  <2>2. CASE CheckSearchComplete(j, k)
    <3> DEFINE e == Of("dedup_running", j, 0, 1)
    <3>1. e \in Event /\ e.type \notin {"scraper_running"} \cup ReportType
      BY OfType DEF EventType, Of, ReportType
    <3>2. inbox' = inbox \/ Publish(e)
      BY <2>2 DEF CheckSearchComplete, Emit, Swallowed
    <3> HIDE DEF e
    <3>3. inbox' = inbox \/ inbox' = Append(inbox, e)
      BY <3>2 DEF Publish
    <3> QED  BY <2>1, <3>1, <3>3 DEF Silent
  <2>3. CASE ~CheckSearchComplete(j, k)
    <3>1. inbox' = inbox
      BY <1>3, <2>3 DEF FoundResult, NoResult, SettleCrawl, CrawlFails, HandlerFails
    <3> QED  BY <2>1, <3>1 DEF Silent
  <2> QED  BY <2>2, <2>3
<1>4. CASE StartFails(j) \/ Redispatch(j)
  <2>1. UNCHANGED <<inbox, run, silent, overlapped>>
    BY <1>4 DEF StartFails, Redispatch
  <2>2. \A i \in Jobs : Mode(i)' = Mode(i)
    BY <2>1 DEF Mode, Busy
  <2> QED  BY <2>1, <2>2 DEF Silent
<1> QED  BY <1>1, <1>2, <1>3, <1>4 DEF Crawls, CrawlStep

\* Attempts stay one at a time.
LEMMA CrawlOneAtATime ==
    ASSUME TypeOK, OneAtATime, NEW j \in Jobs, Crawls(j)
    PROVE  OneAtATime'
<1> USE DEF taskHistory
<1>1. ASSUME NEW k \in Attempts, StartCrawl(j, k)
      PROVE  OneAtATime'
  <2>1. \A i \in Jobs, n \in Attempts :
           i # j \/ n # k => run'[i][n] = run[i][n]
    BY <1>1, Moved DEF StartCrawl
  <2>2. /\ overlapped \subseteq overlapped'
        /\ j \notin overlapped' => \A n \in Attempts : run[j][n].pc \notin Unreported
    BY <1>1 DEF StartCrawl
  <2> QED  BY <2>1, <2>2 DEF OneAtATime
<1>2. ASSUME overlapped' = overlapped,
             \A i \in Jobs, n \in Attempts :
                 run'[i][n].pc \in Unreported => run[i][n].pc \in Unreported
      PROVE  OneAtATime'
  BY <1>2 DEF OneAtATime
<1>3. ASSUME NEW k \in Attempts, ReportCrawl(j, k)
      PROVE  OneAtATime'
  <2>1. run[j][k].pc = "settled" /\ overlapped' = overlapped
    BY <1>3 DEF ReportCrawl
  <2>2. \A i \in Jobs, n \in Attempts :
           i # j \/ n # k => run'[i][n] = run[i][n]
    BY <1>3, Moved DEF ReportCrawl
  <2> QED  BY <1>2, <2>1, <2>2 DEF Unreported
<1>4. ASSUME NEW k \in Attempts,
             \/ FoundResult(j, k) \/ NoResult(j, k) \/ SettleCrawl(j, k)
             \/ CheckSearchComplete(j, k) \/ CrawlFails(j, k) \/ HandlerFails(j, k)
      PROVE  OneAtATime'
  BY <1>2, <1>4, CrawlGoesOn
<1>5. CASE StartFails(j) \/ Redispatch(j)
  <2>1. UNCHANGED <<run, overlapped>>
    BY <1>5 DEF StartFails, Redispatch
  <2> QED  BY <1>2, <2>1
<1> QED  BY <1>1, <1>3, <1>4, <1>5 DEF Crawls, CrawlStep

\* What an ingester does.
LEMMA IngestRest ==
    ASSUME NEW i \in Ingesters, IngestStep(i) \/ WriteFails(i) \/ RequestIndexFails(i)
    PROVE  UNCHANGED <<run, silent, overlapped, listening>>
BY DEF IngestStep, Pop, Write, WriteFails, ReportIngest, RequestIndex, RequestIndexFails,
       Pivot, CheckTerminal, BeginEnrichment, EnrichStep, CompleteSearch, IngestFrame,
       EnrichFrame, taskHistory

LEMMA IngestSays ==
    ASSUME TypeOK, NEW i \in Ingesters,
           IngestStep(i) \/ WriteFails(i) \/ RequestIndexFails(i)
    PROVE  Silent
<1>1. UNCHANGED <<run, silent, overlapped>>
  BY IngestRest
<1>2. \A j \in Jobs : Mode(j)' = Mode(j)
  BY <1>1 DEF Mode, Busy
<1>q ASSUME inbox' = inbox
     PROVE  Silent
  BY <1>q, <1>1, <1>2 DEF Silent
<1>e ASSUME NEW type \in EventType \ ({"scraper_running"} \cup ReportType), NEW j \in Jobs,
            NEW processed \in Nat, NEW total \in Nat,
            Publish(Of(type, j, processed, total))
     PROVE  Silent
  <2> DEFINE e == Of(type, j, processed, total)
  <2>1. e \in Event /\ e.type = type
    BY OfType DEF Of
  <2> HIDE DEF e
  <2>2. inbox' = inbox \/ inbox' = Append(inbox, e)
    BY <1>e DEF Publish, e
  <2> QED  BY <1>1, <1>2, <2>1, <2>2 DEF Silent
<1>b ASSUME ing[i].pc # "idle"
     PROVE  ing[i].job \in Jobs /\ ing[i].step \in Nat
  BY <1>b, BusyType DEF BusyWork, TypeOK
<1>3. CASE ReportIngest(i)
  <2>1. ing[i].job \in Jobs
    BY <1>3, <1>b DEF ReportIngest
  <2>2. inbox' = inbox \/ Publish(Of("dedup_running", ing[i].job, 1, 1))
    BY <1>3 DEF ReportIngest, Emit, Swallowed
  <2> QED  BY <2>1, <2>2, <1>e, <1>q DEF EventType, ReportType
<1>4. CASE BeginEnrichment(i)
  <2>1. ing[i].job \in Jobs
    BY <1>4, <1>b DEF BeginEnrichment
  <2>2. inbox' = inbox \/ Publish(Of("enrichment_running", ing[i].job, 0, Steps))
    BY <1>4 DEF BeginEnrichment, Emit, Swallowed
  <2> QED  BY <2>1, <2>2, <1>e, <1>q, ConstantsAssumption DEF EventType, ReportType
<1>5. CASE EnrichStep(i)
  <2>1. ing[i].job \in Jobs /\ ing[i].step + 1 \in Nat
    BY <1>5, <1>b DEF EnrichStep
  <2>2. inbox' = inbox \/ Publish(Of("enrichment_running", ing[i].job, ing[i].step + 1, Steps))
    BY <1>5 DEF EnrichStep, Emit, Swallowed
  <2> QED  BY <2>1, <2>2, <1>e, <1>q, ConstantsAssumption DEF EventType, ReportType
<1>6. CASE CompleteSearch(i)
  <2>1. ing[i].job \in Jobs
    BY <1>6, <1>b DEF CompleteSearch
  <2>2. inbox' = inbox \/ Publish(Of("search_complete", ing[i].job, 0, 0))
    BY <1>6 DEF CompleteSearch, Swallowed
  <2> QED  BY <2>1, <2>2, <1>e, <1>q DEF EventType, ReportType
<1>7. CASE \/ Pop(i) \/ Write(i) \/ WriteFails(i) \/ RequestIndex(i) \/ RequestIndexFails(i)
           \/ Pivot(i) \/ CheckTerminal(i)
  <2>1. inbox' = inbox
    BY <1>7 DEF Pop, Write, WriteFails, RequestIndex, RequestIndexFails, Pivot, CheckTerminal
  <2> QED  BY <1>q, <2>1
<1> QED  BY <1>3, <1>4, <1>5, <1>6, <1>7 DEF IngestStep

\* A merge, or a crash, which leaves no attempt under way.
LEMMA OtherSays ==
    ASSUME TypeOK, OneAtATime, MergePerson \/ Crash
    PROVE  Silent /\ OneAtATime' /\ UNCHANGED <<listening, inbox>>
<1> USE DEF OtherFrame, streamVars
<1>0. UNCHANGED <<overlapped, inbox, listening>>
  BY DEF MergePerson, Crash
<1>1. CASE MergePerson
  <2>1. UNCHANGED <<run, silent>>
    BY <1>1 DEF MergePerson
  <2>2. \A j \in Jobs : Mode(j)' = Mode(j)
    BY <1>0, <2>1 DEF Mode, Busy
  <2> QED  BY <1>0, <2>1, <2>2 DEF Silent, OneAtATime
<1>2. CASE Crash
  <2>1. \A j \in Jobs, k \in Attempts : run'[j][k].pc \notin Unreported
    BY <1>2 DEF Crash, Free, Unreported
  <2>2. /\ silent \subseteq silent'
        /\ \A j \in Jobs \ silent' : \A k \in Attempts : run[j][k].pc \notin Unreported
    BY <1>2 DEF Crash
  <2>3. \A j \in Jobs \ silent' : Mode(j)' = Mode(j)
    BY <1>0, <2>1, <2>2, ModeSame
  <2> QED  BY <1>0, <2>1, <2>2, <2>3 DEF Silent, OneAtATime
<1> QED  BY <1>1, <1>2

-----------------------------------------------------------------------------
(* The steps keep the invariant.                                            *)

LEMMA ListeningSame ==
    ASSUME PipelineStep
    PROVE  listening' = listening /\ (~listening => inbox' = inbox)
<1>1. ASSUME NEW j \in Jobs, Crawls(j)
      PROVE  listening' = listening /\ (~listening => inbox' = inbox)
  <2>1. listening' = listening
    BY <1>1, CrawlRest
  <2>2. ~listening => inbox' = inbox
    BY <1>1 DEF Crawls, CrawlStep, StartCrawl, StartFails, FoundResult, NoResult, SettleCrawl,
                ReportCrawl, CheckSearchComplete, CrawlFails, HandlerFails, Redispatch,
                Tell, Emit, Swallowed, Publish
  <2> QED  BY <2>1, <2>2
<1>2. ASSUME NEW i \in Ingesters, IngestStep(i) \/ WriteFails(i) \/ RequestIndexFails(i)
      PROVE  listening' = listening /\ (~listening => inbox' = inbox)
  <2>1. listening' = listening
    BY <1>2, IngestRest
  <2>2. ~listening => inbox' = inbox
    BY <1>2 DEF IngestStep, Pop, Write, WriteFails, ReportIngest, RequestIndex,
                RequestIndexFails, Pivot, CheckTerminal, BeginEnrichment, EnrichStep,
                CompleteSearch, Emit, Swallowed, Publish
  <2> QED  BY <2>1, <2>2
<1>3. CASE MergePerson \/ Crash
  BY <1>3 DEF MergePerson, Crash, OtherFrame, streamVars
<1> QED  BY <1>1, <1>2, <1>3 DEF PipelineStep

LEMMA PipelineKeeps ==
    ASSUME ProgressInv, PipelineStep
    PROVE  ProgressInv'
<1>1. TypeOK /\ OneAtATime /\ inbox \in Seq(Event) /\ heard \in Nat
  BY DEF ProgressInv, ProgressTypes, TypeOK
<1>2. TypeOK'
  BY <1>1, CrawlType, IngestType, OtherType DEF PipelineStep
<1>3. /\ UNCHANGED <<announced, stream, agg, listening>>
      /\ heard' = IF inbox' # inbox /\ inbox'[Len(inbox')].type \in ReportType
                  THEN heard + 1 ELSE heard
  BY ListeningSame DEF PipelineStep
<1>4. OneAtATime'
  <2>1. ASSUME NEW i \in Ingesters, IngestStep(i) \/ WriteFails(i) \/ RequestIndexFails(i)
        PROVE  OneAtATime'
    BY <1>1, <2>1, IngestRest DEF OneAtATime
  <2> QED  BY <1>1, <2>1, CrawlOneAtATime, OtherSays DEF PipelineStep
<1>5. CASE stream # "open"
  <2>1. ~listening /\ inbox = <<>>
    BY <1>5 DEF ProgressInv, ProgressTypes
  <2>2. inbox' = inbox /\ heard' = heard
    BY <1>3, <2>1, ListeningSame
  <2>3. ProgressTypes'
    BY <1>2, <1>3, <2>1, <2>2 DEF ProgressInv, ProgressTypes
  <2>4. stream' # "open" /\ (stream' \in {"off", "counted"} => Unheard')
    BY <1>3, <1>5, <2>2 DEF ProgressInv, Unheard
  <2> QED  BY <1>4, <2>3, <2>4 DEF ProgressInv
<1>6. CASE stream = "open"
  <2>1. /\ listening /\ agg.done + agg.failed + Cardinality(Places(inbox, News)) = heard
        /\ agg.done \in Nat /\ agg.failed \in Nat
        /\ Cardinality(Places(inbox, News)) \in Nat
    BY <1>1, <1>6, PlacesFinite DEF ProgressInv, ProgressTypes, Aggregator
  <2>2. Silent \/ (\E j \in Jobs, e \in Event : Speaks(j, e))
    BY <1>1, <2>1, CrawlSays, IngestSays, OtherSays DEF PipelineStep
  <2>a ASSUME NEW e \in Event, inbox' = Append(inbox, e)
       PROVE  /\ heard' = IF e \in News THEN heard + 1 ELSE heard
              /\ Cardinality(Places(inbox', News))
                   = IF e \in News THEN Cardinality(Places(inbox, News)) + 1
                                   ELSE Cardinality(Places(inbox, News))
    <3>1. inbox' # inbox /\ inbox'[Len(inbox')] = e
      BY <1>1, <2>a
    <3>2. heard' = IF e \in News THEN heard + 1 ELSE heard
      BY <1>3, <3>1 DEF News
    <3> QED  BY <1>1, <2>a, <3>2, PlacesAppend
  <2>3. /\ heard' \in Nat
        /\ agg'.done + agg'.failed + Cardinality(Places(inbox', News)) = heard'
    <3>1. CASE inbox' = inbox
      BY <1>1, <1>3, <2>1, <3>1
    <3>2. CASE inbox' # inbox
      <4>1. PICK e \in Event : inbox' = Append(inbox, e)
        BY <2>2, <3>2 DEF Silent, Speaks
      <4> QED  BY <1>1, <1>3, <2>1, <2>a, <4>1
    <3> QED  BY <3>1, <3>2
  <2>4. ASSUME NEW j \in Jobs \ silent'
        PROVE  Told(inbox', agg'.statuses[j], Mode(j)', j)
    <3>1. PICK mode : mode = Mode(j)'
      OBVIOUS
    <3>2. agg'.statuses[j] = agg.statuses[j]
      BY <1>3
    <3>3. CASE Silent
      <4>1. j \notin silent /\ Mode(j) = mode
        BY <3>1, <3>3 DEF Silent
      <4>2. Told(inbox, agg.statuses[j], mode, j)
        BY <1>6, <4>1 DEF ProgressInv
      <4>3. CASE inbox' = inbox
        BY <3>1, <3>2, <4>2, <4>3
      <4>4. CASE inbox' # inbox
        <5>1. PICK e \in Event : /\ e.type \notin {"scraper_running"} \cup ReportType
                                 /\ inbox' = Append(inbox, e)
          BY <3>3, <4>4 DEF Silent
        <5>2. e \in Event \ Tells(j)
          BY <5>1 DEF Tells
        <5>3. Told(Append(inbox, e), agg.statuses[j], mode, j)
          BY <1>1, <4>2, <5>2, ToldOther
        <5> QED  BY <3>1, <3>2, <5>1, <5>3
      <4> QED  BY <4>3, <4>4
    <3>4. ASSUME NEW i \in Jobs, NEW e \in Event, Speaks(i, e)
          PROVE  Told(inbox', agg'.statuses[j], Mode(j)', j)
      <4>1. inbox' = Append(inbox, e) /\ e \in Tells(i) /\ j \notin silent
        BY <3>4 DEF Speaks
      <4>2. CASE j = i
        <5>1. e \in Tells(j) /\ Fits(e.type, mode)
          BY <3>1, <3>4, <4>2 DEF Speaks
        <5>2. Told(Append(inbox, e), agg.statuses[j], mode, j)
          BY <1>1, <5>1, ToldNews
        <5> QED  BY <3>1, <3>2, <4>1, <5>2
      <4>3. CASE j # i
        <5>1. Mode(j) = mode /\ e \in Event \ Tells(j)
          BY <3>1, <3>4, <4>1, <4>3 DEF Speaks, Tells
        <5>2. Told(inbox, agg.statuses[j], mode, j)
          BY <1>6, <4>1, <5>1 DEF ProgressInv
        <5>3. Told(Append(inbox, e), agg.statuses[j], mode, j)
          BY <1>1, <5>1, <5>2, ToldOther
        <5> QED  BY <3>1, <3>2, <4>1, <5>3
      <4> QED  BY <4>2, <4>3
    <3> QED  BY <2>2, <3>3, <3>4
  <2>5. ProgressTypes'
    BY <1>1, <1>2, <1>3, <1>6, <2>1, <2>3 DEF ProgressInv, ProgressTypes
  <2>6. stream' = "open"
    BY <1>3, <1>6
  <2> QED  BY <1>4, <2>3, <2>4, <2>5, <2>6 DEF ProgressInv
<1> QED  BY <1>5, <1>6

\* What changes nothing but the stream and its queue.
LEMMA RestKeeps ==
    ASSUME TypeOK, UNCHANGED pipelineRest, listening' \in BOOLEAN, inbox' \in Seq(Event),
           faults' \in 0..MaxFaults
    PROVE  /\ TypeOK'
           /\ OneAtATime => OneAtATime'
           /\ silent' = silent /\ \A j \in Jobs : Mode(j)' = Mode(j)
<1>1. TypeOK'
  BY DEF pipelineRest, crawlVars, personVars, indexVars, history, taskHistory, TypeOK
<1>2. UNCHANGED <<run, silent, overlapped>>
  BY DEF pipelineRest, crawlVars, taskHistory
<1>3. OneAtATime => OneAtATime'
  BY <1>2 DEF OneAtATime
<1>4. \A j \in Jobs : Mode(j)' = Mode(j)
  BY <1>2 DEF Mode, Busy
<1> QED  BY <1>1, <1>2, <1>3, <1>4

\* The stream processes an event and stays open.
LEMMA ProcessKeeps ==
    ASSUME ProgressInv, NEW type \in EventType, Next1(type), StreamGoesOn,
           agg' \in Aggregator,
           agg'.done + agg'.failed
             = agg.done + agg.failed + (IF Event1 \in News THEN 1 ELSE 0),
           \A j \in Jobs, mode \in Modes :
               /\ Event1 \in Tells(j) => (Fits(type, mode) => Fits(agg'.statuses[j], mode))
               /\ Event1 \notin Tells(j) =>
                      (Fits(agg.statuses[j], mode) => Fits(agg'.statuses[j], mode))
    PROVE  ProgressInv'
<1>1. /\ stream = "open" /\ inbox # <<>> /\ Event1 = Head(inbox) /\ Event1.type = type
      /\ inbox' = Tail(inbox) /\ inbox \in Seq(Event) /\ Tail(inbox) \in Seq(Event)
      /\ UNCHANGED <<announced, heard, stream, listening>>
  BY DEF Next1, StreamGoesOn, Event1, ProgressInv, ProgressTypes, TypeOK
<1>2. /\ TypeOK' /\ OneAtATime'
      /\ silent' = silent /\ \A j \in Jobs : Mode(j)' = Mode(j)
  <2>1. TypeOK /\ UNCHANGED <<pipelineRest, faults>> /\ OneAtATime
    BY DEF Next1, ProgressInv, ProgressTypes
  <2>2. listening' \in BOOLEAN /\ inbox' \in Seq(Event) /\ faults' \in 0..MaxFaults
    BY <1>1, <2>1 DEF TypeOK
  <2> QED  BY <2>1, <2>2, RestKeeps
<1>3. ProgressTypes'
  BY <1>1, <1>2 DEF ProgressInv, ProgressTypes
<1>4. agg'.done + agg'.failed + Cardinality(Places(inbox', News)) = heard'
  <2>1. Cardinality(Places(inbox, News))
          = IF Event1 \in News THEN Cardinality(Places(Tail(inbox), News)) + 1
                               ELSE Cardinality(Places(Tail(inbox), News))
    BY <1>1, PlacesTail
  <2>2. Cardinality(Places(Tail(inbox), News)) \in Nat
    BY <1>1, PlacesFinite
  <2>3. agg.done + agg.failed + Cardinality(Places(inbox, News)) = heard
        /\ agg.done \in Nat /\ agg.failed \in Nat
    BY <1>1 DEF ProgressInv, ProgressTypes, Aggregator
  <2>4. agg'.done \in Nat /\ agg'.failed \in Nat
    BY DEF Aggregator
  <2> QED  BY <1>1, <2>1, <2>2, <2>3, <2>4, SMTT(30)
<1>5. ASSUME NEW j \in Jobs \ silent'
      PROVE  Told(inbox', agg'.statuses[j], Mode(j)', j)
  <2>1. Told(inbox, agg.statuses[j], Mode(j), j) /\ Mode(j) \in Modes /\ Mode(j)' = Mode(j)
    BY <1>1, <1>2 DEF ProgressInv, Mode, Modes
  <2>2. PICK status : status = agg'.statuses[j]
    OBVIOUS
  <2>3. Told(Tail(inbox), status, Mode(j), j)
    BY <1>1, <2>1, <2>2, ToldTail
  <2> QED  BY <1>1, <2>1, <2>2, <2>3
<1> QED  BY <1>1, <1>2, <1>3, <1>4, <1>5 DEF ProgressInv

LEMMA HeadIsEvent ==
    ASSUME ProgressInv, NEW type, Next1(type)
    PROVE  /\ Event1 \in Event /\ Event1.type = type /\ Event1.job \in Jobs
           /\ Event1.processed \in Nat /\ Event1.total \in Nat
           /\ agg \in Aggregator
<1>1. inbox \in Seq(Event) /\ inbox # <<>> /\ Event1.type = type /\ agg \in Aggregator
  BY DEF Next1, Event1, ProgressInv, ProgressTypes, TypeOK
<1>2. Event1 \in Event
  BY <1>1 DEF Event1
<1> QED  BY <1>1, <1>2 DEF Event

LEMMA EventKeeps ==
    ASSUME ProgressInv, ProcessEvent
    PROVE  ProgressInv'
<1> USE DEF ReportType
<1>1. CASE ProcessStarted
  <2>1. /\ Event1 \in Event /\ Event1.type = "search_started" /\ Event1.total \in Nat
        /\ agg \in Aggregator /\ Next1("search_started") /\ StreamGoesOn
    BY <1>1, HeadIsEvent DEF ProcessStarted
  <2> DEFINE queued == [j \in Jobs |-> IF j \in Listed THEN "queued" ELSE agg.statuses[j]]
  <2>2. agg' = [agg EXCEPT !.total = AtLeastOne(Event1.total), !.statuses = queued]
    BY <1>1 DEF ProcessStarted
  <2>3. AtLeastOne(Event1.total) \in Nat \ {0} /\ queued \in [Jobs -> Status]
    BY <2>1, AtLeastOneType DEF Aggregator, Status
  <2>4. \A j \in Jobs : queued[j] \in {"queued", agg.statuses[j]}
    OBVIOUS
  <2> HIDE DEF queued
  <2>5. /\ agg' \in Aggregator /\ agg'.done = agg.done /\ agg'.failed = agg.failed
        /\ agg'.statuses = queued
    BY <2>1, <2>2, <2>3 DEF Aggregator
  <2>6. Event1 \notin News /\ \A j \in Jobs : Event1 \notin Tells(j)
    BY <2>1 DEF News, Tells
  <2>7. \A j \in Jobs, mode \in Modes : Fits(agg.statuses[j], mode) => Fits(queued[j], mode)
    BY <2>4 DEF Fits
  <2>8. agg.done \in Nat /\ agg.failed \in Nat
    BY <2>1 DEF Aggregator
  <2> QED  BY <2>1, <2>5, <2>6, <2>7, <2>8, ProcessKeeps DEF EventType
<1>s ASSUME NEW type \in {"scraper_running"} \cup ReportType, NEW said \in Status, Next1(type),
            agg'.statuses = [agg.statuses EXCEPT ![Event1.job] = said],
            \A mode \in Modes : Fits(type, mode) => Fits(said, mode)
     PROVE  \A j \in Jobs, mode \in Modes :
               /\ Event1 \in Tells(j) => (Fits(type, mode) => Fits(agg'.statuses[j], mode))
               /\ Event1 \notin Tells(j) =>
                      (Fits(agg.statuses[j], mode) => Fits(agg'.statuses[j], mode))
  <2>1. Event1 \in Event /\ Event1.type = type /\ agg.statuses \in [Jobs -> Status]
    BY <1>s, HeadIsEvent DEF Aggregator
  <2>2. \A j \in Jobs : Event1 \in Tells(j) <=> Event1.job = j
    BY <1>s, <2>1 DEF Tells
  <2> QED  BY <1>s, <2>1, <2>2
<1>2. CASE ProcessRunning
  <2>1. /\ Event1 \in Event /\ Event1.type = "scraper_running" /\ Event1.job \in Jobs
        /\ agg \in Aggregator /\ Next1("scraper_running") /\ StreamGoesOn
    BY <1>2, HeadIsEvent DEF ProcessRunning
  <2>2. agg' = [agg EXCEPT !.statuses[Event1.job] = "running"]
    BY <1>2 DEF ProcessRunning
  <2>3. /\ agg' \in Aggregator /\ agg'.done = agg.done /\ agg'.failed = agg.failed
        /\ agg'.statuses = [agg.statuses EXCEPT ![Event1.job] = "running"]
    BY <2>1, <2>2 DEF Aggregator, Status
  <2>4. \A mode \in Modes : Fits("scraper_running", mode) => Fits("running", mode)
    BY DEF Fits
  <2>5. Event1 \notin News /\ agg.done \in Nat /\ agg.failed \in Nat
    BY <2>1 DEF News, Aggregator
  <2>6. "running" \in Status
    BY DEF Status
  <2> QED  BY <1>s, <2>1, <2>3, <2>4, <2>5, <2>6, ProcessKeeps DEF EventType
<1>3. CASE ProcessDone
  <2>1. /\ Event1 \in Event /\ Event1.type = "scraper_done" /\ Event1.job \in Jobs
        /\ agg \in Aggregator /\ Next1("scraper_done") /\ StreamGoesOn
    BY <1>3, HeadIsEvent DEF ProcessDone
  <2>2. agg' = [agg EXCEPT !.done = @ + 1, !.statuses[Event1.job] = "done"]
    BY <1>3 DEF ProcessDone
  <2>3. agg.done \in Nat /\ agg.failed \in Nat
    BY <2>1 DEF Aggregator
  <2> DEFINE told == [agg.statuses EXCEPT ![Event1.job] = "done"]
  <2>7. told \in [Jobs -> Status]
    BY <2>1 DEF Aggregator, Status
  <2> DEFINE counted == [agg EXCEPT !.done = @ + 1]
  <2>8. agg' = [counted EXCEPT !.statuses = told]
    BY <2>2
  <2>9. counted \in Aggregator /\ counted.done = agg.done + 1 /\ counted.failed = agg.failed
        /\ counted.statuses = agg.statuses
    BY <2>1, <2>3 DEF Aggregator
  <2> HIDE DEF told, counted
  <2>10. agg' \in Aggregator /\ agg'.done = agg.done + 1 /\ agg'.failed = agg.failed /\ agg'.statuses = told
    BY <2>7, <2>8, <2>9 DEF Aggregator
  <2>4. /\ agg' \in Aggregator /\ agg'.done = agg.done + 1 /\ agg'.failed = agg.failed
        /\ agg'.statuses = [agg.statuses EXCEPT ![Event1.job] = "done"]
    BY <2>10 DEF told
  <2>5. \A mode \in Modes : Fits("scraper_done", mode) => Fits("done", mode)
    BY DEF Fits
  <2>6. Event1 \in News /\ "done" \in Status
    BY <2>1 DEF News, Status
  <2> QED  BY <1>s, <2>1, <2>3, <2>4, <2>5, <2>6, ProcessKeeps DEF EventType
<1>4. CASE ProcessFailed
  <2>1. /\ Event1 \in Event /\ Event1.type = "scraper_failed" /\ Event1.job \in Jobs
        /\ agg \in Aggregator /\ Next1("scraper_failed") /\ StreamGoesOn
    BY <1>4, HeadIsEvent DEF ProcessFailed
  <2>2. agg' = [agg EXCEPT !.failed = @ + 1, !.statuses[Event1.job] = "failed"]
    BY <1>4 DEF ProcessFailed
  <2>3. agg.done \in Nat /\ agg.failed \in Nat
    BY <2>1 DEF Aggregator
  <2> DEFINE told == [agg.statuses EXCEPT ![Event1.job] = "failed"]
  <2>7. told \in [Jobs -> Status]
    BY <2>1 DEF Aggregator, Status
  <2> DEFINE counted == [agg EXCEPT !.failed = @ + 1]
  <2>8. agg' = [counted EXCEPT !.statuses = told]
    BY <2>2
  <2>9. counted \in Aggregator /\ counted.done = agg.done /\ counted.failed = agg.failed + 1
        /\ counted.statuses = agg.statuses
    BY <2>1, <2>3 DEF Aggregator
  <2> HIDE DEF told, counted
  <2>10. agg' \in Aggregator /\ agg'.done = agg.done /\ agg'.failed = agg.failed + 1 /\ agg'.statuses = told
    BY <2>7, <2>8, <2>9 DEF Aggregator
  <2>4. /\ agg' \in Aggregator /\ agg'.done = agg.done /\ agg'.failed = agg.failed + 1
        /\ agg'.statuses = [agg.statuses EXCEPT ![Event1.job] = "failed"]
    BY <2>10 DEF told
  <2>5. \A mode \in Modes : Fits("scraper_failed", mode) => Fits("failed", mode)
    BY DEF Fits
  <2>6. Event1 \in News /\ "failed" \in Status
    BY <2>1 DEF News, Status
  <2> QED  BY <1>s, <2>1, <2>3, <2>4, <2>5, <2>6, ProcessKeeps DEF EventType
<1>5. CASE ProcessDedup
  <2>1. /\ Event1 \in Event /\ Event1.type = "dedup_running" /\ Event1.processed \in Nat
        /\ Event1.total \in Nat /\ agg \in Aggregator /\ Next1("dedup_running") /\ StreamGoesOn
    BY <1>5, HeadIsEvent DEF ProcessDedup
  <2>2. agg' = [agg EXCEPT !.phase = "deduplicating", !.dedup = CountOf(Event1)]
    BY <1>5 DEF ProcessDedup
  <2>3. CountOf(Event1) \in Count
    BY <2>1 DEF CountOf, Count
  <2>4. /\ agg' \in Aggregator /\ agg'.done = agg.done /\ agg'.failed = agg.failed
        /\ agg'.statuses = agg.statuses
    BY <2>1, <2>2, <2>3 DEF Aggregator, StreamPhase
  <2>5. Event1 \notin News /\ \A j \in Jobs : Event1 \notin Tells(j)
    BY <2>1 DEF News, Tells
  <2>6. agg.done \in Nat /\ agg.failed \in Nat
    BY <2>1 DEF Aggregator
  <2> QED  BY <2>1, <2>4, <2>5, <2>6, ProcessKeeps DEF EventType
<1>6. CASE ProcessEnrichment
  <2>1. /\ Event1 \in Event /\ Event1.type = "enrichment_running" /\ Event1.processed \in Nat
        /\ Event1.total \in Nat /\ agg \in Aggregator /\ Next1("enrichment_running")
        /\ StreamGoesOn
    BY <1>6, HeadIsEvent DEF ProcessEnrichment
  <2>2. agg' = [agg EXCEPT !.phase = "enriching", !.enrich = CountOf(Event1)]
    BY <1>6 DEF ProcessEnrichment
  <2>3. CountOf(Event1) \in Count
    BY <2>1 DEF CountOf, Count
  <2>4. /\ agg' \in Aggregator /\ agg'.done = agg.done /\ agg'.failed = agg.failed
        /\ agg'.statuses = agg.statuses
    BY <2>1, <2>2, <2>3 DEF Aggregator, StreamPhase
  <2>5. Event1 \notin News /\ \A j \in Jobs : Event1 \notin Tells(j)
    BY <2>1 DEF News, Tells
  <2>6. agg.done \in Nat /\ agg.failed \in Nat
    BY <2>1 DEF Aggregator
  <2> QED  BY <2>1, <2>4, <2>5, <2>6, ProcessKeeps DEF EventType
<1>7. CASE ProcessComplete
  <2>1. agg' \in Aggregator
    BY <1>7 DEF ProcessComplete, ProgressInv, ProgressTypes, Aggregator, StreamPhase
  <2>3. listening' \in BOOLEAN /\ inbox' \in Seq(Event)
    <3>1. listening' = FALSE /\ inbox' = <<>>
      BY <1>7 DEF ProcessComplete
    <3>2. <<>> \in Seq(Event)
      OBVIOUS
    <3>3. FALSE \in BOOLEAN
      OBVIOUS
    <3> QED  BY <3>1, <3>2, <3>3, Zenon
  <2>4. TypeOK /\ OneAtATime /\ UNCHANGED <<pipelineRest, faults>>
    BY <1>7 DEF ProcessComplete, ProgressInv, ProgressTypes
  <2>2. TypeOK' /\ OneAtATime'
    <3>1. faults' \in 0..MaxFaults
      BY <2>4 DEF TypeOK
    <3> QED  BY <2>3, <2>4, <3>1, RestKeeps
  <2> QED  BY <1>7, <2>1, <2>2 DEF ProcessComplete, ProgressInv, ProgressTypes
<1> QED  BY <1>1, <1>2, <1>3, <1>4, <1>5, <1>6, <1>7 DEF ProcessEvent

\* A new aggregator has heard of nothing.
LEMMA NewAggregatorType ==
    ASSUME NEW total \in Nat \ {0}, NEW S
    PROVE  /\ NewAggregator(total, S) \in Aggregator
           /\ NewAggregator(total, S).done = 0 /\ NewAggregator(total, S).failed = 0
           /\ \A j \in Jobs : NewAggregator(total, S).statuses[j] \in {"none", "queued"}
<1> DEFINE sts == [j \in Jobs |-> IF j \in S THEN "queued" ELSE "none"]
<1>1. sts \in [Jobs -> Status] /\ \A j \in Jobs : sts[j] \in {"none", "queued"}
  BY DEF Status
<1>2. Zero \in Count
  BY DEF Zero, Count
<1>3. NewAggregator(total, S)
        = [phase |-> "collecting", total |-> total, done |-> 0, failed |-> 0,
           dedup |-> Zero, enrich |-> Zero, statuses |-> sts]
  BY DEF NewAggregator
<1> HIDE DEF sts
<1> QED  BY <1>1, <1>2, <1>3 DEF Aggregator, StreamPhase

\* Nothing is told by an empty queue before a crawl is heard of.
LEMMA NothingTold ==
    ASSUME NEW status \in {"none", "queued"}, NEW mode, NEW j
    PROVE  Told(<<>>, status, mode, j)
BY DEF Told, Places, Fits, ReportType

LEMMA StreamKeeps ==
    ASSUME ProgressInv, OpenStream \/ Subscribe \/ AnnounceSearch \/ Disconnect
    PROVE  ProgressInv'
<1>1. /\ TypeOK /\ OneAtATime /\ ProgressTypes /\ inbox \in Seq(Event)
      /\ faults \in 0..MaxFaults
  BY DEF ProgressInv, ProgressTypes, TypeOK
<1>2. CASE OpenStream
  <2>1. Cardinality(Listed) \in Nat
    BY ConstantsAssumption, FS_Subset, FS_CardinalityType DEF Listed
  <2>2. PICK n \in Nat \ {0}, S \in {Listed, {}} : agg' = NewAggregator(n, S)
    BY <1>2, <2>1, AtLeastOneType DEF OpenStream
  <2>3. /\ agg' \in Aggregator /\ agg'.done = 0 /\ agg'.failed = 0
        /\ \A j \in Jobs : agg'.statuses[j] \in {"none", "queued"}
    BY <2>2, NewAggregatorType
  <2>4. stream = "off" /\ stream' = "counted" /\ UNCHANGED <<vars, announced, heard>>
    BY <1>2 DEF OpenStream
  <2>5. TypeOK' /\ OneAtATime'
    <3>1. UNCHANGED <<pipelineRest, faults, listening, inbox>>
      BY <2>4 DEF vars, pipelineRest, streamVars, bounds
    <3>2. listening' \in BOOLEAN
      BY <1>1, <3>1 DEF TypeOK
    <3> QED  BY <1>1, <3>1, <3>2, RestKeeps
  <2>6. inbox' = inbox /\ listening' = listening
    BY <2>4 DEF vars, streamVars
  <2> QED  BY <2>3, <2>4, <2>5, <2>6 DEF ProgressInv, ProgressTypes, Unheard
<1>3. CASE Subscribe
  <2>1. /\ stream = "counted" /\ stream' = "open" /\ listening' = TRUE /\ inbox = <<>>
        /\ UNCHANGED <<pipelineRest, faults, inbox, announced, agg, heard>> /\ Unheard
    BY <1>3 DEF Subscribe, ProgressInv, ProgressTypes
  <2>2. TypeOK' /\ OneAtATime'
    BY <1>1, <2>1, RestKeeps
  <2>3. Cardinality(Places(inbox', News)) = 0
    <3>1. Places(inbox', News) = {}
      BY <2>1 DEF Places
    <3> QED  BY <3>1, FS_EmptySet
  <2>4. ASSUME NEW j \in Jobs PROVE Told(inbox', agg'.statuses[j], Mode(j)', j)
    <3>1. PICK mode : mode = Mode(j)'
      OBVIOUS
    <3>2. Told(<<>>, agg.statuses[j], mode, j)
      BY <2>1, NothingTold DEF Unheard
    <3> QED  BY <2>1, <3>1, <3>2
  <2>5. ProgressTypes'
    BY <1>1, <2>1, <2>2 DEF ProgressTypes
  <2>6. agg'.done + agg'.failed + Cardinality(Places(inbox', News)) = heard'
    BY <2>1, <2>3 DEF Unheard
  <2> QED  BY <2>1, <2>2, <2>4, <2>5, <2>6 DEF ProgressInv
<1>4. CASE AnnounceSearch
  <2> DEFINE e == Of("search_started", CHOOSE j \in Listed : TRUE, 0, Cardinality(Listed))
  <2>1. Cardinality(Listed) \in Nat
    BY ConstantsAssumption, FS_Subset, FS_CardinalityType DEF Listed
  <2>2. (CHOOSE j \in Listed : TRUE) \in Jobs
    BY <1>4 DEF AnnounceSearch, Listed
  <2>3. e \in Event /\ e.type = "search_started"
    BY <2>1, <2>2, OfType DEF EventType, Of
  <2>4. /\ Emit(e) /\ announced' = TRUE
        /\ UNCHANGED <<pipelineRest, listening, stream, agg, heard>>
    BY <1>4 DEF AnnounceSearch
  <2> HIDE DEF e
  <2>5. inbox' \in Seq(Event) /\ faults' \in 0..MaxFaults
    BY <1>1, <2>3, <2>4, EmitType
  <2>6. /\ TypeOK' /\ OneAtATime'
        /\ silent' = silent /\ \A j \in Jobs : Mode(j)' = Mode(j)
    <3>1. listening' \in BOOLEAN
      BY <1>1, <2>4 DEF TypeOK
    <3> QED  BY <1>1, <2>4, <2>5, <3>1, RestKeeps
  <2>7. e \notin News /\ \A j \in Jobs : e \notin Tells(j)
    BY <2>3 DEF News, Tells, ReportType
  <2>8. CASE stream # "open"
    <3>1. ~listening /\ inbox' = inbox
      BY <1>1, <2>4, <2>8 DEF ProgressTypes, Emit, Swallowed, Publish
    <3> QED  BY <1>1, <2>4, <2>6, <2>8, <3>1 DEF ProgressInv, ProgressTypes, Unheard
  <2>9. CASE stream = "open"
    <3>1. inbox' = inbox \/ inbox' = Append(inbox, e)
      BY <2>4 DEF Emit, Swallowed, Publish
    <3>2. Cardinality(Places(inbox', News)) = Cardinality(Places(inbox, News))
      <4>1. CASE inbox' = inbox
        BY <4>1
      <4>2. CASE inbox' = Append(inbox, e)
        BY <1>1, <2>3, <2>7, <4>2, PlacesAppend
      <4> QED  BY <3>1, <4>1, <4>2
    <3>4. ASSUME NEW j \in Jobs \ silent'
          PROVE  Told(inbox', agg'.statuses[j], Mode(j)', j)
      <4>1. /\ Told(inbox, agg.statuses[j], Mode(j), j) /\ e \in Event \ Tells(j)
            /\ Mode(j)' = Mode(j) /\ agg' = agg
        BY <2>3, <2>4, <2>6, <2>7, <2>9 DEF ProgressInv
      <4>2. Told(Append(inbox, e), agg.statuses[j], Mode(j), j)
        BY <1>1, <4>1, ToldOther
      <4> QED  BY <3>1, <4>1, <4>2
    <3>5. ProgressTypes'
      BY <1>1, <2>4, <2>6, <2>9 DEF ProgressTypes
    <3> QED  BY <2>4, <2>6, <2>9, <3>2, <3>4, <3>5 DEF ProgressInv
  <2> QED  BY <2>8, <2>9
<1>5. CASE Disconnect
  <2>1. /\ stream' = "closed" /\ listening' = FALSE /\ inbox' = <<>> /\ heard' = 0
        /\ agg' = NewAggregator(1, {}) /\ UNCHANGED <<pipelineRest, faults, announced>>
    BY <1>5 DEF Disconnect
  <2>2. agg' \in Aggregator
    BY <2>1, NewAggregatorType
  <2>3. listening' \in BOOLEAN /\ inbox' \in Seq(Event)
    <3>1. <<>> \in Seq(Event) /\ FALSE \in BOOLEAN
      OBVIOUS
    <3> QED  BY <2>1, <3>1, Zenon
  <2>4. TypeOK' /\ OneAtATime'
    BY <1>1, <2>1, <2>3, RestKeeps
  <2> QED  BY <1>1, <2>1, <2>2, <2>4 DEF ProgressInv, ProgressTypes
<1> QED  BY <1>2, <1>3, <1>4, <1>5

LEMMA ProgressStarts == ProgressInit => ProgressInv
<1> SUFFICES ASSUME ProgressInit PROVE ProgressInv
  OBVIOUS
<1>1. TypeOK
  BY InitType DEF ProgressInit
<1>2. agg \in Aggregator /\ Unheard
  BY NewAggregatorType DEF ProgressInit, Unheard
<1>3. announced = FALSE /\ stream = "off" /\ heard = 0 /\ listening = FALSE /\ inbox = <<>>
  BY DEF ProgressInit, Init
<1>4. listening = (stream = "open") /\ announced \in BOOLEAN
  BY <1>3
<1>5. ProgressTypes
  BY <1>1, <1>2, <1>3, <1>4, SMT DEF ProgressTypes
<1>6. OneAtATime
  BY DEF ProgressInit, Init, OneAtATime, Free, Unreported
<1> QED  BY <1>2, <1>3, <1>5, <1>6 DEF ProgressInv

LEMMA ProgressKeeps ==
    ASSUME ProgressInv, [ProgressNext]_allVars
    PROVE  ProgressInv'
<1>1. CASE UNCHANGED allVars
  <2>1. UNCHANGED <<announced, stream, agg, heard, inbox, listening, pipelineRest, faults>>
    BY <1>1 DEF allVars, vars, streamVars, bounds, pipelineRest, progressVars
  <2>2. /\ TypeOK /\ OneAtATime /\ inbox' \in Seq(Event) /\ listening' \in BOOLEAN
        /\ faults' \in 0..MaxFaults
    BY <2>1 DEF ProgressInv, ProgressTypes, TypeOK
  <2>3. /\ TypeOK' /\ OneAtATime'
        /\ silent' = silent /\ \A j \in Jobs : Mode(j)' = Mode(j)
    BY <2>1, <2>2, RestKeeps
  <2> QED  BY <2>1, <2>3 DEF ProgressInv, ProgressTypes, Unheard
<1>2. CASE ProgressNext
  BY <1>2, PipelineKeeps, EventKeeps, StreamKeeps DEF ProgressNext
<1> QED  BY <1>1, <1>2

LEMMA ProgressInvariant == ProgressSpec => []ProgressInv
BY ProgressStarts, ProgressKeeps, PTL DEF ProgressSpec

-----------------------------------------------------------------------------
(* The theorems.                                                            *)

\* Every variable of the stream keeps its type, it is subscribed as long as it is
\* open, and the percentage stays in the range of its phase, whatever the counters
\* of the events say.
THEOREM ProgressTypeCorrect == ProgressSpec => []ProgressTypeOK
<1>1. ProgressInv => ProgressTypeOK
  BY PctBounded DEF ProgressInv, ProgressTypes, ProgressTypeOK
<1> QED  BY <1>1, ProgressInvariant, PTL

\* Every report that is published while the stream is subscribed is counted exactly
\* once, or waits in its queue.
THEOREM ReportsCountedCorrect == ProgressSpec => []ReportsCounted
<1>1. ProgressInv => ReportsCounted
  BY ReportsArePlaces DEF ProgressInv, ProgressTypes, TypeOK, ReportsCounted
<1> QED  BY <1>1, ProgressInvariant, PTL

\* Unless an event about it was lost: a crawl that the stream shows as running has
\* an attempt that has not reported, and one that it shows as done or failed has
\* none, if its attempts never overlapped, or an event about it is on its way.
THEOREM ViewFollowsCorrect == ProgressSpec => []ViewFollows
<1>1. ASSUME ProgressInv PROVE ViewFollows
  <2> SUFFICES ASSUME stream = "open", NEW j \in Jobs \ silent, About(j) = {}
               PROVE  /\ agg.statuses[j] = "running" => Busy(j)
                      /\ agg.statuses[j] \in {"done", "failed"} /\ j \notin overlapped
                           => ~Busy(j)
    BY DEF ViewFollows, Busy
  <2>1. inbox \in Seq(Event) /\ Told(inbox, agg.statuses[j], Mode(j), j)
    BY <1>1 DEF ProgressInv, ProgressTypes, TypeOK
  <2>2. Places(inbox, Tells(j)) = {}
    BY <2>1, ReportsArePlaces
  <2>3. Fits(agg.statuses[j], Mode(j))
    BY <2>1, <2>2 DEF Told
  <2> QED  BY <2>3 DEF Fits, Mode
<1> QED  BY <1>1, ProgressInvariant, PTL

-----------------------------------------------------------------------------
(* The pipeline with a stream next to it.                                   *)

\* A step of the pipeline with its stream is a step of the pipeline, or one that
\* changes nothing but the stream and its queue.
LEMMA StreamAside ==
    ASSUME [ProgressNext]_allVars
    PROVE  Next \/ UNCHANGED pipelineRest
<1> USE DEF crawlVars, personVars, indexVars, streamVars, history, taskHistory, bounds
<1>1. CASE UNCHANGED allVars
  BY <1>1 DEF allVars, vars, pipelineRest
<1>2. CASE PipelineStep
  BY <1>2 DEF PipelineStep, Next
<1>3. CASE OpenStream \/ Subscribe \/ AnnounceSearch \/ Disconnect
  BY <1>3 DEF OpenStream, Subscribe, AnnounceSearch, Disconnect, vars, pipelineRest
<1>4. CASE ProcessEvent
  BY <1>4 DEF ProcessEvent, ProcessStarted, ProcessRunning, ProcessDone, ProcessFailed,
              ProcessDedup, ProcessEnrichment, ProcessComplete, Next1, pipelineRest
<1> QED  BY <1>1, <1>2, <1>3, <1>4 DEF ProgressNext

\* What nobody but the stream sees does not count for the pipeline.
LEMMA AsideKeeps ==
    ASSUME UNCHANGED pipelineRest
    PROVE  /\ IndexInv => IndexInv'
           /\ DocumentInv => DocumentInv'
           /\ ResultsConserved => ResultsConserved'
           /\ UNCHANGED Delivery!vars
<1> USE DEF crawlVars, personVars, indexVars, history, pipelineRest
<1>1. IndexInv => IndexInv'
  BY IndexFrame DEF Asking
<1>2. DocumentInv => DocumentInv'
  BY DocumentFrame
<1>3. \A j \in Jobs : Queued(j)' = Queued(j) /\ Writing(j)' = Writing(j)
  BY DEF Queued, Writing
<1>4. ResultsConserved => ResultsConserved'
  BY <1>3 DEF ResultsConserved
<1>5. UNCHANGED Delivery!vars
  BY <1>3 DEF Delivery!vars
<1> QED  BY <1>1, <1>2, <1>4, <1>5

LEMMA WatchedInvariant ==
    ProgressSpec => [](TypeOK /\ IndexInv /\ DocumentInv /\ ResultsConserved)
<1>1. ProgressInit => IndexInv /\ DocumentInv /\ ResultsConserved
  BY IndexInit, DocumentInit, ConservedInit DEF ProgressInit
<1>2. ProgressInv => TypeOK
  BY DEF ProgressInv, ProgressTypes
<1>3. /\ TypeOK /\ TypeOK' /\ IndexInv /\ DocumentInv /\ ResultsConserved
      /\ [ProgressNext]_allVars
      => IndexInv' /\ DocumentInv' /\ ResultsConserved'
  BY StreamAside, AsideKeeps, IndexStep, DocumentStep, ConservedStep
<1> QED  BY <1>1, <1>2, <1>3, ProgressInvariant, PTL DEF ProgressSpec

\* Watching a search changes nothing of what becomes of its results: with a stream
\* that opens, falls behind and is left, the pipeline still implements the
\* promise of ResultDelivery.
THEOREM WatchedDelivery == ProgressSpec => ImplementsDelivery
<1>1. ProgressInit => Delivery!Init
  BY ImplementsInit DEF ProgressInit
<1>2. /\ TypeOK /\ IndexInv /\ IndexInv' /\ DocumentInv /\ DocumentInv'
      /\ [ProgressNext]_allVars
      => [Delivery!Next]_Delivery!vars
  BY StreamAside, AsideKeeps, ImplementsStep
<1>3. ProgressSpec => [][Delivery!Next]_Delivery!vars
  BY <1>2, WatchedInvariant, PTL DEF ProgressSpec
<1> QED
  BY <1>1, <1>3, PTL DEF ProgressSpec, ImplementsDelivery, Delivery!Spec

\* Nor is a result forgotten or aggregated twice, nor an index request.
THEOREM WatchedResults == ProgressSpec => []ResultsConserved /\ []StoredIsIndexed
<1>1. IndexInv => StoredIsIndexed
  BY DEF IndexInv
<1> QED  BY <1>1, WatchedInvariant, PTL

=============================================================================
