--------------------------- MODULE ResultPipeline ---------------------------
(***************************************************************************)
(* What becomes of the results of one person's crawls: a dispatcher task   *)
(* pushes a result on the ingest queue and settles its row; the ingesters  *)
(* aggregate results into the person's data, ask for a new index document, *)
(* create pivot crawls and run the enrichment; the indexer copies the      *)
(* person into Typesense.  All of them report on the progress channel.     *)
(*                                                                         *)
(* A crawl takes the steps of CrawlDispatch in the order of their awaits,  *)
(* and several attempts at it may be under way at once; each row is        *)
(* visible from the start.  A result stands for one kind of data: an       *)
(* address, an identifier, or data that a document always shows.           *)
(***************************************************************************)
EXTENDS Naturals, Sequences, FiniteSetsExt

CONSTANTS
    Jobs,         \* crawls of the person
    Rowless,      \* those a pivot creates: a message but no crawl_jobs row
    Reliable,     \* those whose source_reliability is above 0.5
    Addresses,    \* those whose result is an address
    Identifiers,  \* those whose result is an identifier
    AddressCap,   \* addresses that a document has room for
    Ingesters,    \* the ingestion daemons of the worker
    Steps,        \* enrichers that enrich_person runs one after the other
    \* Bounds of the model.
    MaxRetries,   \* messages pushed for one crawl after its first one
    MaxFaults,    \* failed database, Redis or Typesense calls
    MaxCrashes,   \* crashes of the worker, which restarts at once
    MaxMerges     \* merges of the person into another one: 0 or 1

ASSUME ConstantsAssumption ==
    /\ Rowless \subseteq Jobs /\ Reliable \subseteq Jobs
    /\ Addresses \subseteq Jobs /\ Identifiers \subseteq Jobs /\ AddressCap \in Nat \ {0}
    /\ IsFiniteSet(Jobs) /\ IsFiniteSet(Ingesters)
    /\ Steps \in Nat \ {0} /\ MaxRetries \in Nat
    /\ MaxFaults \in Nat /\ MaxCrashes \in Nat /\ MaxMerges \in Nat

VARIABLES
    row,        \* row[j]: the status column of the crawl_jobs row, if it has one
    run,        \* run[j][k]: the task of the k-th attempt under way at the crawl
    msgs,       \* msgs[j]: messages for it on the crawl queues
    retries,    \* retries[j]: messages pushed after the first one
    pushes,     \* history: results pushed on the ingest queue, per crawl
    ingestQ,    \* the Redis list of results
    ing,        \* ing[i]: what ingester i is doing
    writes,     \* results aggregated into the person's data, per crawl
    corr,       \* persons.corroboration_count
    merged,     \* persons.merged_into is set
    indexQ,     \* number of requests on the index queue
    indexer,    \* what the indexer is doing
    shown,      \* results that the Typesense document shows
    indexed,    \* history: results that it was made from
    listening,  \* an SSE stream of the person is subscribed
    inbox,      \* progress events the stream has not processed yet
    completed,  \* history: SEARCH_COMPLETE has been published
    losses,     \* history: results popped and then given up, per crawl
    missed,     \* history: results whose index request was given up
    raced,      \* history: a counted result was aggregated while another
                \* ingester had the person loaded
    silent,     \* history: crawls an event of which was not published, or an
                \* attempt at which ended without a report
    overlapped, \* history: crawls started while an earlier attempt had not
                \* reported yet
    faults, crashes, merges

crawlVars  == <<row, run, msgs, retries, pushes>>
personVars == <<writes, corr, merged>>
indexVars  == <<indexQ, indexer, shown, indexed>>
streamVars == <<listening, inbox>>
history    == <<completed, losses, missed, raced>>
taskHistory == <<silent, overlapped>>
bounds     == <<faults, crashes, merges>>
vars == <<crawlVars, ingestQ, ing, personVars, indexVars, streamVars, history,
          taskHistory, bounds>>

\* A crawl without a row is "absent" until a pivot sends its message.  "failed"
\* stands for the statuses a user may retry: failed, blocked, rate limited.
Row     == {"absent", "none", "pending", "running", "done", "failed"}
Verdict == {"none", "found", "empty", "refused", "failed"}

\* An attempt that is "ended" and "failed" is in an exception handler.
Unreported == {"running", "pushed", "ended", "settled"}
Free       == [pc |-> "free", verdict |-> "none"]
Task       == [pc : Unreported \cup {"reported"}, verdict : Verdict]
Attempts   == 0..MaxRetries

\* The rows _check_search_complete and _all_jobs_terminal count.
Unfinished == {j \in Jobs \ Rowless : row[j] \in {"pending", "running"}}

Queued(j)  == {k \in 1..Len(ingestQ) : ingestQ[k] = j}
Writing(j) == {i \in Ingesters : ing[i].pc = "write" /\ ing[i].job = j}
Stored == {j \in Jobs : writes[j] > 0}
Lost   == {j \in Jobs : losses[j] > 0}

Ingesting == {"write", "event", "index", "pivot", "check", "enrich", "step",
              "complete"}
NoWork    == [pc |-> "idle"]
BusyWork  == [pc : Ingesting, job : Jobs, corr : Nat, step : Nat]

EventType == {"search_started", "scraper_running", "scraper_done", "scraper_failed",
              "dedup_running", "enrichment_running", "search_complete"}
Event == [type : EventType, job : Jobs, processed : Nat, total : Nat]

\* Redis pub/sub keeps nothing for those who are not subscribed.
Publish(e) == inbox' = IF listening THEN Append(inbox, e) ELSE inbox
Of(type, j, processed, total) ==
    [type |-> type, job |-> j, processed |-> processed, total |-> total]

Fault == faults < MaxFaults /\ faults' = faults + 1

\* A publication that fails is swallowed.  Without a subscriber it would have
\* had no effect either.
Swallowed == listening /\ Fault /\ UNCHANGED inbox
Emit(e)   == (Publish(e) /\ UNCHANGED faults) \/ Swallowed

Init ==
    /\ row = [j \in Jobs |-> IF j \in Rowless THEN "absent" ELSE "pending"]
    /\ msgs = [j \in Jobs |-> IF j \in Rowless THEN 0 ELSE 1]
    /\ run = [j \in Jobs |-> [k \in Attempts |-> Free]] /\ retries = [j \in Jobs |-> 0]
    /\ pushes = [j \in Jobs |-> 0]
    /\ ingestQ = <<>> /\ ing = [i \in Ingesters |-> NoWork]
    /\ writes = [j \in Jobs |-> 0] /\ corr = 1 /\ merged = FALSE
    /\ indexQ = 0 /\ indexer = NoWork /\ indexed = {} /\ shown = {}
    /\ listening = FALSE /\ inbox = <<>>
    /\ completed = FALSE /\ losses = [j \in Jobs |-> 0] /\ missed = {}
    /\ raced = FALSE /\ silent = {} /\ overlapped = {}
    /\ faults = 0 /\ crashes = 0 /\ merges = 0

-----------------------------------------------------------------------------
(* Crawls: _run_job of the dispatcher, and those who push its messages.     *)

CrawlFrame == UNCHANGED <<ing, personVars, indexVars, listening, history, crashes, merges>>

To(j, k, t)  == run' = [run EXCEPT ![j][k] = t]
SetRow(j, s) == row' = IF j \in Rowless THEN row ELSE [row EXCEPT ![j] = s]

\* Another message for the crawl, within the bound, or none.
MsgAgain(j) ==
    /\ retries[j] < MaxRetries
    /\ retries' = [retries EXCEPT ![j] = @ + 1]
    /\ msgs' = [msgs EXCEPT ![j] = @ + 1]
NoMsg == UNCHANGED <<msgs, retries>>

\* _emit_progress.
Tell(j, type) ==
    \/ Publish(Of(type, j, 0, 0)) /\ UNCHANGED <<faults, silent>>
    \/ Swallowed /\ silent' = silent \cup {j}

\* Nothing keeps two messages for one crawl from being processed at once.
StartCrawl(j, k) ==
    /\ msgs[j] > 0
    /\ run[j][k] = Free /\ \A n \in 0..(k - 1) : run[j][n] # Free
    /\ msgs' = [msgs EXCEPT ![j] = @ - 1]
    /\ SetRow(j, "running")
    /\ To(j, k, [pc |-> "running", verdict |-> "none"])
    /\ Tell(j, "scraper_running")
    /\ overlapped' = IF \E n \in Attempts : run[j][n].pc \in Unreported
                     THEN overlapped \cup {j} ELSE overlapped
    /\ UNCHANGED <<retries, pushes, ingestQ>> /\ CrawlFrame

\* The first update of the row raises, and nobody handles that.
StartFails(j) ==
    /\ Fault
    /\ j \notin Rowless /\ msgs[j] > 0
    /\ msgs' = [msgs EXCEPT ![j] = @ - 1]
    /\ UNCHANGED <<row, run, retries, pushes, ingestQ, inbox, taskHistory>> /\ CrawlFrame

\* The crawler found something: the result goes on the ingest queue.
FoundResult(j, k) ==
    /\ run[j][k].pc = "running"
    /\ To(j, k, [pc |-> "pushed", verdict |-> "found"])
    /\ pushes' = [pushes EXCEPT ![j] = @ + 1]
    /\ ingestQ' = Append(ingestQ, j)
    /\ UNCHANGED <<row, msgs, retries, inbox, taskHistory, faults>> /\ CrawlFrame

\* It did not.  A rate limit and an exception put the message back, before
\* anything else; a block, a timeout and an exception on the last retry do not.
NoResult(j, k) ==
    /\ run[j][k].pc = "running"
    /\ \E v \in {"empty", "refused", "failed"} :
         /\ To(j, k, [pc |-> "ended", verdict |-> v])
         /\ NoMsg \/ (v # "empty" /\ MsgAgain(j))
    /\ UNCHANGED <<row, pushes, ingestQ, inbox, taskHistory, faults>> /\ CrawlFrame

SettleCrawl(j, k) ==
    /\ run[j][k].pc \in {"pushed", "ended"}
    /\ SetRow(j, IF run[j][k].verdict \in {"found", "empty"} THEN "done" ELSE "failed")
    /\ To(j, k, [run[j][k] EXCEPT !.pc = "settled"])
    /\ UNCHANGED <<msgs, retries, pushes, ingestQ, inbox, taskHistory, faults>> /\ CrawlFrame

\* The crawl is logged and reported.
ReportCrawl(j, k) ==
    /\ run[j][k].pc = "settled"
    /\ To(j, k, [run[j][k] EXCEPT !.pc = "reported"])
    /\ Tell(j, IF run[j][k].verdict = "failed" THEN "scraper_failed" ELSE "scraper_done")
    /\ UNCHANGED <<row, msgs, retries, pushes, ingestQ, overlapped>> /\ CrawlFrame

CheckSearchComplete(j, k) ==
    /\ run[j][k].pc = "reported"
    /\ To(j, k, Free)
    /\ IF Unfinished = {} THEN Emit(Of("dedup_running", j, 0, 1)) ELSE UNCHANGED <<inbox, faults>>
    /\ UNCHANGED <<row, msgs, retries, pushes, ingestQ, taskHistory>> /\ CrawlFrame

\* The task ends without a report, and the row stays as it is.
GiveUp(j, k) == To(j, k, Free) /\ silent' = silent \cup {j}

\* A call after the crawl raises: the update of the row, its log entry or the
\* crawl_complete event.  The handler may put the message back although the
\* result was pushed; then its own update of the row raises as well when the
\* session is no longer usable.
CrawlFails(j, k) ==
    /\ Fault
    /\ run[j][k].verdict # "failed"
    /\ \/ j \notin Rowless /\ run[j][k].pc \in {"pushed", "ended", "settled"}
       \/ run[j][k] = [pc |-> "settled", verdict |-> "found"]
    /\ \/ /\ NoMsg \/ MsgAgain(j)
          /\ To(j, k, [pc |-> "ended", verdict |-> "failed"])
          /\ UNCHANGED silent
       \/ /\ NoMsg \/ (j \notin Rowless /\ MsgAgain(j))
          /\ GiveUp(j, k)
    /\ UNCHANGED <<row, pushes, ingestQ, inbox, overlapped>> /\ CrawlFrame

\* The handler of a crawl that raised fails: it cannot put the message back, or
\* cannot update the row.
HandlerFails(j, k) ==
    /\ Fault
    /\ \/ run[j][k].pc = "running"
       \/ j \notin Rowless /\ run[j][k] = [pc |-> "ended", verdict |-> "failed"]
    /\ GiveUp(j, k)
    /\ UNCHANGED <<row, msgs, retries, pushes, ingestQ, inbox, overlapped>> /\ CrawlFrame

\* The recovery scan finds the pending row old, or a user retries the crawl.
Redispatch(j) ==
    /\ j \notin Rowless /\ row[j] \in {"pending", "failed"}
    /\ SetRow(j, "pending")
    /\ MsgAgain(j)
    /\ UNCHANGED <<run, pushes, ingestQ, inbox, taskHistory, faults>> /\ CrawlFrame

-----------------------------------------------------------------------------
(* Ingesters: _process_one.                                                 *)

Work(i, pc)    == ing' = [ing EXCEPT ![i].pc = pc]
StopWork(i)    == ing' = [ing EXCEPT ![i] = NoWork]
IngestFrame    == UNCHANGED <<run, retries, pushes, indexer, shown, indexed, listening,
                              taskHistory, crashes, merges>>

\* Mutant: the result is read and stays on the queue.
Pop_Peek(i) ==
    /\ ing[i] = NoWork /\ ingestQ # <<>>
    /\ ing' = [ing EXCEPT ![i] = [pc |-> "write", job |-> Head(ingestQ), corr |-> corr,
                                 step |-> 0]]
    /\ UNCHANGED <<row, msgs, ingestQ, personVars, indexQ, inbox, history, faults>>
    /\ IngestFrame

\* Pop a result and start aggregate_result, which loads the person.
Pop(i) ==
    /\ ing[i] = NoWork /\ ingestQ # <<>>
    /\ ingestQ' = Tail(ingestQ)
    /\ ing' = [ing EXCEPT ![i] = [pc |-> "write", job |-> Head(ingestQ), corr |-> corr,
                                 step |-> 0]]
    /\ UNCHANGED <<row, msgs, personVars, indexQ, inbox, history, faults>> /\ IngestFrame

\* Another ingester loaded the count and has not written it yet.
CountIsLoaded(i) ==
    ing[i].job \in Reliable
      /\ \E n \in Ingesters \ {i} : ing[n].pc = "write" /\ ing[n].job \in Reliable

\* Mutant: a source counts once, however often it is crawled.
Write_SourceOnce(i) ==
    /\ ing[i].pc = "write"
    /\ writes' = [writes EXCEPT ![ing[i].job] = @ + 1]
    /\ corr' = IF ing[i].job \in Reliable /\ writes[ing[i].job] = 0 THEN ing[i].corr + 1 ELSE corr
    /\ raced' = (raced \/ CountIsLoaded(i))
    /\ Work(i, "event")
    /\ UNCHANGED <<row, msgs, ingestQ, merged, indexQ, inbox, completed, losses, missed, faults>>
    /\ IngestFrame

\* The commit of aggregate_result.  The row is updated with a value computed
\* from the one that was loaded.
Write(i) ==
    /\ ing[i].pc = "write"
    /\ writes' = [writes EXCEPT ![ing[i].job] = @ + 1]
    /\ corr' = IF ing[i].job \in Reliable THEN ing[i].corr + 1 ELSE corr
    /\ raced' = (raced \/ CountIsLoaded(i))
    /\ Work(i, "event")
    /\ UNCHANGED <<row, msgs, ingestQ, merged, indexQ, inbox, completed, losses, missed, faults>>
    /\ IngestFrame

\* aggregate_result raises: rollback, and the result is gone.
WriteFails(i) ==
    /\ Fault
    /\ ing[i].pc = "write"
    /\ losses' = [losses EXCEPT ![ing[i].job] = @ + 1]
    /\ StopWork(i)
    /\ UNCHANGED <<row, msgs, ingestQ, personVars, indexQ, inbox, completed, missed, raced>>
    /\ IngestFrame

ReportIngest(i) ==
    /\ ing[i].pc = "event"
    /\ Emit(Of("dedup_running", ing[i].job, 1, 1))
    /\ Work(i, "index")
    /\ UNCHANGED <<row, msgs, ingestQ, personVars, indexQ, history>> /\ IngestFrame

\* Mutant: no request while another one is queued or the indexer is at work.
RequestIndex_WhenIdle(i) ==
    /\ ing[i].pc = "index"
    /\ indexQ' = IF indexQ = 0 /\ indexer = NoWork THEN 1 ELSE indexQ
    /\ Work(i, "pivot")
    /\ UNCHANGED <<row, msgs, ingestQ, personVars, inbox, history, faults>> /\ IngestFrame

RequestIndex(i) ==
    /\ ing[i].pc = "index"
    /\ indexQ' = indexQ + 1
    /\ Work(i, "pivot")
    /\ UNCHANGED <<row, msgs, ingestQ, personVars, inbox, history, faults>> /\ IngestFrame

\* The push raises: the handler skips the pivots and the enrichment as well.
RequestIndexFails(i) ==
    /\ Fault
    /\ ing[i].pc = "index"
    /\ missed' = missed \cup {ing[i].job}
    /\ StopWork(i)
    /\ UNCHANGED <<row, msgs, ingestQ, personVars, indexQ, inbox, completed, losses, raced>>
    /\ IngestFrame

\* pivot_from_result queues crawls, some or none of them before it raises.
Pivot(i) ==
    /\ ing[i].pc = "pivot"
    /\ \E P \in SUBSET {j \in Rowless : row[j] = "absent"} :
         /\ row' = [j \in Jobs |-> IF j \in P THEN "none" ELSE row[j]]
         /\ msgs' = [j \in Jobs |-> IF j \in P THEN 1 ELSE msgs[j]]
    /\ Work(i, "check")
    /\ UNCHANGED <<ingestQ, personVars, indexQ, inbox, history, faults>> /\ IngestFrame

AllJobsTerminal == Unfinished = {}

\* _all_jobs_terminal says yes as well when it cannot tell.
CheckTerminal(i) ==
    /\ ing[i].pc = "check"
    /\ \/ AllJobsTerminal /\ Work(i, "enrich") /\ UNCHANGED faults
       \/ ~AllJobsTerminal /\ StopWork(i) /\ UNCHANGED faults
       \/ Fault /\ Work(i, "enrich")
    /\ UNCHANGED <<row, msgs, ingestQ, personVars, indexQ, inbox, history>> /\ IngestFrame

-----------------------------------------------------------------------------
(* The enrichment: enrich_person, called by the ingester.                   *)

EnrichFrame == IngestFrame /\ UNCHANGED <<row, msgs, ingestQ, personVars, indexQ, losses,
                                          missed, raced>>

\* A person merged into another one is skipped, without any event.
BeginEnrichment(i) ==
    /\ ing[i].pc = "enrich"
    /\ IF merged
       THEN StopWork(i) /\ UNCHANGED <<inbox, faults>>
       ELSE Work(i, "step") /\ Emit(Of("enrichment_running", ing[i].job, 0, Steps))
    /\ UNCHANGED completed /\ EnrichFrame

\* An enricher runs, or fails, and the next event is published.
EnrichStep(i) ==
    /\ ing[i].pc = "step"
    /\ ing' = [ing EXCEPT ![i].step = @ + 1,
                          ![i].pc = IF ing[i].step + 1 = Steps THEN "complete" ELSE "step"]
    /\ Emit(Of("enrichment_running", ing[i].job, ing[i].step + 1, Steps))
    /\ UNCHANGED completed /\ EnrichFrame

CompleteSearch(i) ==
    /\ ing[i].pc = "complete"
    /\ \/ /\ Publish(Of("search_complete", ing[i].job, 0, 0))
          /\ completed' = TRUE /\ UNCHANGED faults
       \/ Swallowed /\ UNCHANGED completed
    /\ StopWork(i)
    /\ EnrichFrame

IngestStep(i) ==
    \/ Pop(i) \/ Write(i) \/ ReportIngest(i) \/ RequestIndex(i) \/ Pivot(i)
    \/ CheckTerminal(i) \/ BeginEnrichment(i) \/ EnrichStep(i)
    \/ CompleteSearch(i)

-----------------------------------------------------------------------------
(* The indexer, and the rest of the world.                                  *)

OtherFrame == UNCHANGED <<row, msgs, retries, pushes, ingestQ, writes, corr,
                         streamVars, completed, raced, overlapped>>

\* D can be the document of a person with the data S.  It has the first
\* AddressCap addresses that an unordered query returns.  The identifiers of a
\* merged person belong to the other one, except those it got since.
Document(D, S) ==
    /\ D \subseteq S
    /\ S \ (Addresses \cup Identifiers) \subseteq D
    /\ merged \/ S \cap Identifiers \subseteq D
    /\ Cardinality(D \cap Addresses) <= AddressCap
    /\ S \cap Addresses \subseteq D \/ Cardinality(D \cap Addresses) = AddressCap

ReadPerson ==
    /\ indexer = NoWork /\ indexQ > 0
    /\ indexQ' = indexQ - 1
    /\ \E D \in SUBSET Stored :
         /\ Document(D, Stored)
         /\ indexer' = [pc |-> "write", seen |-> Stored, doc |-> D]
    /\ UNCHANGED <<run, ing, merged, shown, indexed, losses, missed, silent, bounds>> /\ OtherFrame

\* Mutant: the requests that came in meanwhile are taken for answered.
WriteDocument_Coalesce ==
    /\ indexer.pc = "write"
    /\ indexed' = indexer.seen /\ shown' = indexer.doc
    /\ indexer' = NoWork
    /\ indexQ' = 0
    /\ UNCHANGED <<run, ing, merged, losses, missed, silent, bounds>> /\ OtherFrame

\* Mutant: the document is replaced by the part that changed.
WriteDocument_Delta ==
    /\ indexer.pc = "write"
    /\ indexed' = indexer.seen /\ shown' = indexer.doc \ shown
    /\ indexer' = NoWork
    /\ UNCHANGED <<run, ing, merged, indexQ, losses, missed, silent, bounds>> /\ OtherFrame

WriteDocument ==
    /\ indexer.pc = "write"
    /\ indexed' = indexer.seen /\ shown' = indexer.doc
    /\ indexer' = NoWork
    /\ UNCHANGED <<run, ing, merged, indexQ, losses, missed, silent, bounds>> /\ OtherFrame

\* The request to Typesense fails: it is logged and not repeated.
WriteDocumentFails ==
    /\ Fault
    /\ indexer.pc = "write"
    /\ missed' = missed \cup (indexer.seen \ indexed)
    /\ indexer' = NoWork
    /\ UNCHANGED <<run, ing, merged, indexQ, shown, indexed, losses, silent, crashes, merges>>
    /\ OtherFrame

\* A user or a search links the person's identifiers to another person, who
\* takes them over; nobody asks for a new document.
MergePerson ==
    /\ merges < MaxMerges /\ merges' = merges + 1
    /\ merged' = TRUE
    /\ UNCHANGED <<run, ing, indexVars, losses, missed, silent, faults, crashes>> /\ OtherFrame

\* The worker is killed and restarted: a crawl in flight leaves its row where
\* it was, a result or an index request in flight is gone.
Crash ==
    /\ crashes < MaxCrashes /\ crashes' = crashes + 1
    /\ run' = [j \in Jobs |-> [k \in Attempts |-> Free]]
    /\ silent' = silent \cup {j \in Jobs : \E k \in Attempts : run[j][k].pc \in Unreported}
    /\ losses' = [j \in Jobs |-> losses[j] + Cardinality(Writing(j))]
    /\ missed' = missed
         \cup {ing[i].job : i \in {k \in Ingesters : ing[k].pc \in {"event", "index"}}}
         \cup (IF indexer = NoWork THEN {} ELSE indexer.seen \ indexed)
    /\ ing' = [i \in Ingesters |-> NoWork] /\ indexer' = NoWork
    /\ UNCHANGED <<merged, indexQ, shown, indexed, faults, merges>> /\ OtherFrame

-----------------------------------------------------------------------------
CrawlStep(j, k) == \/ StartCrawl(j, k) \/ FoundResult(j, k) \/ NoResult(j, k)
                   \/ SettleCrawl(j, k) \/ ReportCrawl(j, k) \/ CheckSearchComplete(j, k)

Crawls(j) == \/ \E k \in Attempts : CrawlStep(j, k) \/ CrawlFails(j, k) \/ HandlerFails(j, k)
             \/ StartFails(j) \/ Redispatch(j)

Next ==
    \/ \E j \in Jobs : Crawls(j)
    \/ \E i \in Ingesters : IngestStep(i) \/ WriteFails(i) \/ RequestIndexFails(i)
    \/ ReadPerson \/ WriteDocument \/ WriteDocumentFails \/ MergePerson \/ Crash

Spec == Init /\ [][Next]_vars

\* Crawls are bounded by wait_for, the daemons' loops catch every exception
\* and go on, and one Redis list is popped by whoever asks.
Fairness ==
    /\ \A j \in Jobs : \A k \in Attempts : WF_vars(CrawlStep(j, k))
    /\ \A i \in Ingesters : WF_vars(IngestStep(i))
    /\ WF_vars(ReadPerson) /\ WF_vars(WriteDocument)

FairSpec == Spec /\ Fairness

-----------------------------------------------------------------------------
(* Properties.                                                              *)

TypeOK ==
    /\ row \in [Jobs -> Row] /\ run \in [Jobs -> [Attempts -> {Free} \cup Task]]
    /\ msgs \in [Jobs -> Nat] /\ retries \in [Jobs -> 0..MaxRetries]
    /\ pushes \in [Jobs -> Nat]
    /\ ingestQ \in Seq(Jobs) /\ ing \in [Ingesters -> {NoWork} \cup BusyWork]
    /\ writes \in [Jobs -> Nat] /\ corr \in Nat /\ merged \in BOOLEAN
    /\ indexQ \in Nat /\ shown \in SUBSET Jobs /\ indexed \in SUBSET Jobs
    /\ indexer \in {NoWork} \cup [pc : {"write"}, seen : SUBSET Jobs, doc : SUBSET Jobs]
    /\ listening \in BOOLEAN /\ inbox \in Seq(Event)
    /\ completed \in BOOLEAN /\ losses \in [Jobs -> Nat] /\ missed \in SUBSET Jobs
    /\ raced \in BOOLEAN /\ silent \in SUBSET Jobs /\ overlapped \in SUBSET Jobs
    /\ faults \in 0..MaxFaults /\ crashes \in 0..MaxCrashes /\ merges \in 0..MaxMerges

\* No result that a dispatcher pushed is forgotten silently or aggregated
\* twice, however often its crawl is repeated (dispatcher.py:164,
\* ingestion_daemon.py:69-107): it is queued, or in the hands of one ingester,
\* or aggregated, or an error lost it.
ResultsConserved ==
    \A j \in Jobs :
        pushes[j] = Cardinality(Queued(j)) + Cardinality(Writing(j)) + writes[j] + losses[j]

\* The whole of that, and what a document may stop showing, as a specification
\* of its own: the queue and the ingesters together are one place where a result
\* waits until it is stored or lost.
Delivery == INSTANCE ResultDelivery
              WITH underway   <- [j \in Jobs |-> Cardinality(Queued(j)) + Cardinality(Writing(j))],
                   stored     <- writes,
                   lost       <- losses,
                   searchable <- shown

ImplementsDelivery == Delivery!Spec

\* Data that is stored and that no document was made from yet will get there: a
\* request is queued, or an ingester is about to push one, or a document made
\* from it is being written, or an error gave the request up.  This is what
\* pushing the request after the commit is for (ingestion_daemon.py:107-129).
StoredIsIndexed ==
    \A j \in Stored \ (indexed \cup missed) :
        \/ indexQ > 0
        \/ \E i \in Ingesters : ing[i].pc \in {"event", "index"} /\ ing[i].job = j
        \/ indexer.pc = "write" /\ j \in indexer.seen

\* The aggregated results that count, one by one.
Counting == UNION {{j} \X (1..writes[j]) : j \in Reliable}

\* The corroboration count is the number of reliable results that were
\* aggregated, those of a repeated crawl included, unless two ingesters had the
\* person loaded at the same time; even then no result counts more than once.
\* Failed writes, repeated crawls and crashes change nothing of that
\* (aggregator.py:644-660).
CorroborationCounted ==
    /\ corr <= 1 + Cardinality(Counting)
    /\ raced \/ corr = 1 + Cardinality(Counting)

\* A result that a document was made from and that it need not show: its places
\* for addresses are taken, or the identifier may be another person's now.
CrowdedOut(j) ==
    /\ j \in indexed
    /\ \/ j \in Addresses /\ Cardinality(shown \cap Addresses) = AddressCap
       \/ j \in Identifiers /\ merged

\* Every result is searchable in the end, unless an error lost it or gave its
\* index request up, or it is crowded out of the document
\* (ingestion_daemon.py:69-129, index_daemon.py:80-182).
FoundIsSearchable ==
    \A j \in Jobs : pushes[j] > 0 ~> j \in shown \cup Lost \cup missed \/ CrowdedOut(j)

\* enrichment_orchestrator.py:247 "Signal SEARCH_COMPLETE so progress bar
\* reaches 100%": a search that found something is complete in the end.
SearchCompletes == (\E j \in Jobs : pushes[j] > 0) ~> completed
=============================================================================
