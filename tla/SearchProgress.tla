--------------------------- MODULE SearchProgress ---------------------------
(***************************************************************************)
(* The progress stream of one person, next to the pipeline of              *)
(* ResultPipeline: the API counts the crawl rows, subscribes to the        *)
(* progress channel, and feeds every event to a ProgressAggregator whose   *)
(* state goes to the browser.  Each crawl has a platform of its own.       *)
(***************************************************************************)
EXTENDS ResultPipeline

CONSTANT MaxBehind  \* bound of the model: events the stream may be behind

ASSUME MaxBehindAssumption == MaxBehind \in Nat

VARIABLES
    announced,  \* the API has published SEARCH_STARTED
    stream,     \* "off", then "counted", "open" and "closed"
    agg,        \* the ProgressAggregator
    heard       \* history: reports published since the subscription

progressVars == <<announced, stream, agg, heard>>
allVars      == <<vars, progressVars>>
pipelineRest == <<crawlVars, ingestQ, ing, personVars, indexVars, history, taskHistory,
                  crashes, merges>>

Listed == Jobs \ Rowless      \* the crawls with a row

StreamPhase == {"collecting", "deduplicating", "enriching", "complete"}
Status      == {"none", "queued", "running", "done", "failed"}
Count       == [processed : Nat, total : Nat]
Aggregator  == [phase : StreamPhase, total : Nat \ {0}, done : Nat, failed : Nat,
                dedup : Count, enrich : Count, statuses : [Jobs -> Status]]

Zero == [processed |-> 0, total |-> 0]
NewAggregator(total, S) ==
    [phase |-> "collecting", total |-> total, done |-> 0, failed |-> 0,
     dedup |-> Zero, enrich |-> Zero,
     statuses |-> [j \in Jobs |-> IF j \in S THEN "queued" ELSE "none"]]

ProgressInit ==
    /\ Init
    /\ announced = FALSE /\ stream = "off" /\ heard = 0
    /\ agg = NewAggregator(1, {})

\* scraper_count is never below 1.
AtLeastOne(n) == Max({1, n})

\* The rows are counted, or the database fails and the search counts as one crawl.
OpenStream ==
    /\ stream = "off" /\ stream' = "counted"
    /\ agg' \in {NewAggregator(AtLeastOne(Cardinality(Listed)), Listed), NewAggregator(1, {})}
    /\ UNCHANGED <<vars, announced, heard>>

Subscribe ==
    /\ stream = "counted" /\ stream' = "open"
    /\ listening' = TRUE
    /\ UNCHANGED <<pipelineRest, faults, inbox, announced, agg, heard>>

\* The API's last step of a search, after the commit of the rows, if there are any.
AnnounceSearch ==
    /\ ~announced /\ Listed # {}
    /\ announced' = TRUE
    /\ Emit(Of("search_started", CHOOSE j \in Listed : TRUE, 0, Cardinality(Listed)))
    /\ UNCHANGED <<pipelineRest, listening, stream, agg, heard>>

-----------------------------------------------------------------------------
(* ProgressAggregator.process, one action per kind of event.                *)

Event1 == Head(inbox)
Next1(type) == /\ stream = "open" /\ inbox # <<>> /\ Event1.type = type
               /\ inbox' = Tail(inbox)
               /\ UNCHANGED <<pipelineRest, faults, announced, heard>>
StreamGoesOn == UNCHANGED <<stream, listening>>

ProcessStarted ==
    /\ Next1("search_started")
    /\ agg' = [agg EXCEPT !.total = AtLeastOne(Event1.total),
                          !.statuses = [j \in Jobs |-> IF j \in Listed THEN "queued" ELSE @[j]]]
    /\ StreamGoesOn

ProcessRunning ==
    /\ Next1("scraper_running")
    /\ agg' = [agg EXCEPT !.statuses[Event1.job] = "running"]
    /\ StreamGoesOn

\* Mutant: the counter goes up, the status stays.
ProcessDone_NoStatus ==
    /\ Next1("scraper_done")
    /\ agg' = [agg EXCEPT !.done = @ + 1]
    /\ StreamGoesOn

ProcessDone ==
    /\ Next1("scraper_done")
    /\ agg' = [agg EXCEPT !.done = @ + 1, !.statuses[Event1.job] = "done"]
    /\ StreamGoesOn

\* Mutant: a failed crawl is not counted.
ProcessFailed_NoCount ==
    /\ Next1("scraper_failed")
    /\ agg' = [agg EXCEPT !.statuses[Event1.job] = "failed"]
    /\ StreamGoesOn

ProcessFailed ==
    /\ Next1("scraper_failed")
    /\ agg' = [agg EXCEPT !.failed = @ + 1, !.statuses[Event1.job] = "failed"]
    /\ StreamGoesOn

CountOf(e) == [processed |-> e.processed, total |-> e.total]

ProcessDedup ==
    /\ Next1("dedup_running")
    /\ agg' = [agg EXCEPT !.phase = "deduplicating", !.dedup = CountOf(Event1)]
    /\ StreamGoesOn

ProcessEnrichment ==
    /\ Next1("enrichment_running")
    /\ agg' = [agg EXCEPT !.phase = "enriching", !.enrich = CountOf(Event1)]
    /\ StreamGoesOn

\* The last state is sent and the subscription cancelled.
ProcessComplete ==
    /\ stream = "open" /\ inbox # <<>> /\ Event1.type = "search_complete"
    /\ agg' = [agg EXCEPT !.phase = "complete"]
    /\ stream' = "closed" /\ listening' = FALSE /\ inbox' = <<>>
    /\ UNCHANGED <<pipelineRest, faults, announced, heard>>

\* The browser goes away.
Disconnect ==
    /\ stream \in {"counted", "open"}
    /\ stream' = "closed" /\ listening' = FALSE /\ inbox' = <<>>
    /\ agg' = NewAggregator(1, {}) /\ heard' = 0
    /\ UNCHANGED <<pipelineRest, faults, announced>>

ProcessEvent == \/ ProcessStarted \/ ProcessRunning \/ ProcessDone \/ ProcessFailed
                \/ ProcessDedup \/ ProcessEnrichment \/ ProcessComplete

-----------------------------------------------------------------------------
ReportType == {"scraper_done", "scraper_failed"}

\* What the indexer does publishes nothing and is left out, and so is what
\* happens after the end of the stream.
PipelineStep ==
    /\ Len(inbox) <= MaxBehind /\ stream # "closed"
    /\ \/ \E j \in Jobs : Crawls(j)
       \/ \E i \in Ingesters : IngestStep(i) \/ WriteFails(i) \/ RequestIndexFails(i)
       \/ MergePerson \/ Crash
    /\ heard' = IF inbox' # inbox /\ inbox'[Len(inbox')].type \in ReportType
                THEN heard + 1 ELSE heard
    /\ UNCHANGED <<announced, stream, agg>>

ProgressNext == \/ PipelineStep \/ OpenStream \/ Subscribe \/ AnnounceSearch
                \/ ProcessEvent \/ Disconnect

ProgressSpec == ProgressInit /\ [][ProgressNext]_allVars

-----------------------------------------------------------------------------
(* The state that is sent.                                                  *)

\* Mutant: no upper bound.
collection_pct_Unbounded(done, total) == (done * 60) \div total

collection_pct(done, total) == Min({60, (done * 60) \div total})

PartOf(width, c) == Min({width, (c.processed * width) \div c.total})
dedup_pct(c)      == 60 + (IF c.total = 0 THEN 0 ELSE PartOf(15, c))
enrichment_pct(c) == 75 + (IF c.total = 0 THEN 0 ELSE PartOf(20, c))

progress_pct ==
    CASE agg.phase = "collecting"    -> collection_pct(agg.done + agg.failed, agg.total)
      [] agg.phase = "deduplicating" -> dedup_pct(agg.dedup)
      [] agg.phase = "enriching"     -> enrichment_pct(agg.enrich)
      [] agg.phase = "complete"      -> 100

PHASE_RANGES == [collecting |-> 0..60, deduplicating |-> 60..75, enriching |-> 75..95,
                 complete |-> {100}]

-----------------------------------------------------------------------------
(* Properties.                                                              *)

\* The percentage stays in the range of its phase (progress_tracker.py:13-19),
\* although crawls that are repeated, or have no row, report more often than
\* scrapers_total says.
PctInPhase == progress_pct \in PHASE_RANGES[agg.phase]

\* The types, a subscription as long as the stream is open (ws.py:187-240), and
\* the percentage.
ProgressTypeOK ==
    /\ TypeOK
    /\ announced \in BOOLEAN /\ stream \in {"off", "counted", "open", "closed"}
    /\ agg \in Aggregator /\ heard \in Nat
    /\ listening = (stream = "open")
    /\ PctInPhase

Reports  == {k \in 1..Len(inbox) : inbox[k].type \in ReportType}
About(j) == {k \in 1..Len(inbox) :
                inbox[k].job = j /\ inbox[k].type \in ReportType \cup {"scraper_running"}}

\* Every report published since the subscription is counted exactly once, or
\* still waits in the stream's queue (progress_tracker.py:130-159, ws.py:225-227).
ReportsCounted ==
    stream = "open" => agg.done + agg.failed + Cardinality(Reports) = heard

\* What the stream says of a crawl is what it is doing, unless an event about it
\* is on its way, one was not published, or an attempt ended without a report
\* (dispatcher.py:134-282, progress_tracker.py:125-159): "running" means that an
\* attempt has not reported yet, however the attempts at one crawl overlap;
\* "done" and "failed" that all have, if they never overlapped.
ViewFollows ==
    stream = "open" =>
        \A j \in Jobs \ silent : About(j) = {} =>
            /\ agg.statuses[j] = "running" =>
                 \E k \in Attempts : run[j][k].pc \in Unreported
            /\ agg.statuses[j] \in {"done", "failed"} /\ j \notin overlapped =>
                 \A k \in Attempts : run[j][k].pc \notin Unreported
=============================================================================
