# Lycan-Data in TLA+

Specifications of the concurrent core of Lycan-Data, model-checked with TLC and
proved with TLAPS. Lycan-Data is a people-intelligence platform: a FastAPI process
accepts searches, a worker process (`worker.py`) runs about twenty asyncio daemons,
and the two talk through Redis-compatible lists and channels (`shared/events.py`)
and one PostgreSQL database. No transaction covers Redis and PostgreSQL together,
and nothing on a Redis list is acknowledged; most of what can go wrong follows from
these two facts.

## 1. Inventory

| component | state it keeps | operations | correct when |
|---|---|---|---|
| Search and crawl endpoints (`api/routes/search.py`, `crawls.py`) | `crawl_jobs`, `persons`, `identifiers` rows | find, create or link the person; insert rows and push messages, commit; retry a job | a committed row is on its way to a crawl |
| CrawlDispatcher (`modules/dispatcher/dispatcher.py`) | semaphore, in-flight tasks, row status | acquire, pop, run one job, requeue, settle, announce | limits hold, results are handed over before the row says done, no row is left behind |
| EventBus (`shared/events.py`) | Redis lists and channels | enqueue, dequeue, publish, subscribe | priority order; a popped message is gone |
| Pending job recovery | batch being re-enqueued | scan, push one by one | every pending row is crawled in the end |
| Worker (`worker.py`) | its tasks | start, SIGTERM drain; restarted by docker | nothing survives but Redis and PostgreSQL |
| Ingestion daemon, aggregator | person data, ingest queue | pop, aggregate, pivot, trigger enrichment | a result is stored once; a row that must be unique is |
| Enrichment orchestrator, enrichers | one database session of twelve steps | run the steps, each may fail | completion is announced; what a step wrote is not lost to another one |
| Progress tracker, SSE (`ws.py`) | counters and phase per search | one handler per event | counters agree with the crawls, completion is reached |
| Pivot enricher | identifiers, review queue, depth counter | store and search new identifiers, flag shared ones | nothing is searched that is not stored, shared identifiers are reviewed |
| Growth daemon | cooldown, daily counter | handle event, fan out | cascades end, the daily cap holds up to one fan-out |
| Freshness scheduler | `freshness_queue` rows | find stale profiles, queue a rescrape | every stale profile is queued, none twice |
| Circuit breaker, rate limiter, base crawler | Redis hashes per domain | ask, wait for a token, send, report | limits hold although callers interleave |
| Person merges, links and deletions (`api/routes/persons.py`, `dedup.py`) | `merged_into`, identifiers | link, merge, delete, redirect | no value is lost, redirects end |
| Entity resolution, graph deduplication | clusters, review queue | score, cluster, merge or review | clusters are the components of the edges |
| People builder | builder job rows, active table | start, cancel, run the pipeline | a job settles, a complete one went through every phase |
| Search index daemon | index queue | pop, read the person, write the document | stored data becomes searchable |
| Saturation crawler | queue, seen entities, novelty window | crawl until saturated, write the graph | everything in reach is visited, nearest first |
| Ownership discovery (`company_intel.py`, `ubo_discovery.py`) | companies visited, owners | crawl officers, breadth first | every owner within depth and cap is found |
| Relationships (`relationship_expansion.py`) | `relationships`, `relationship_details` | report by a source | the best source counts, in any order |
| Platform scrapers (`modules/crawlers/`, 184 registered classes), `BaseCrawler.run` | the sources asked so far, what was kept, attempts | ask a source by httpx, curl, solver, browser or tool; judge the reply; try again | a crawl says what its sources said, in whichever order they answer, refuse or fail |
| Transport registry, proxy pool, Tor, audit, CRUD | none that is shared, or nobody calls it | compute, read, write | unit-testable, not modelled |

A search goes: the API finds or creates the person, inserts one row per platform and
pushes one message per row, then commits; a dispatcher pops a message, marks the row
running, crawls through breaker and limiter, pushes the result on the ingest queue,
marks the row done, logs, publishes `crawl_complete` and announces the crawl set
when no row is left; the ingestion daemon aggregates it, asks for a new index
document, creates pivot crawls (a message without a row) and, when it finds no
unfinished row, runs the enrichment. All of them publish on the progress channel,
which the SSE stream turns into a percentage. The growth daemon listens to the
enrichment channel and crawls the identifiers of a person again, one level deeper.
Retries, the recovery daemon and the retry endpoint push further messages for
existing rows, so one row can be worked on by several tasks.

The hard behaviours: messages pushed before their row is visible; two tasks of one
row; each await as a point where a call can fail, the worker can be killed or
another task can run; state that lives in Redis or PostgreSQL and is read and
written in separate calls under READ COMMITTED; work without a row that nothing
sees; one session shared by steps that do not know of each other. They are listed
line by line in `PROJECT.json` under `hazards`.

## 2. Modules

`CrawlDispatch` - the life of crawl jobs. State and code:

| variable | code |
|---|---|
| `row`, `status` | `crawl_jobs` as other sessions see it: not inserted, flushed but not committed, committed, older than STALE_THRESHOLD, rolled back |
| `queue` | the lists `queue:high`, `queue:normal`, `queue:low` |
| `loop`, `permits`, `task` | per dispatcher: the loop of `start`, its semaphore, and the `_process_one_guarded` tasks, one slot each |
| `scan` | the batch `_recover_stale` has read before it closed its session |
| `retryReq` | a `retry_crawl` request between its three awaits |
| `delivered`, `announced` | the hand-off to the ingest queue, the completion events |
| `settledBy`, `dropped` | history variables: the verdict behind the last final status, and the jobs a carrier of which vanished |
| `worker`, `faults`, `stops`, `manual` | the process, and how much of the model's bounds is used |

Each action is the code from one await that others can observe to the next.
`task[w].pc` names the place in `_run_job`: `route` (crawler lookup, RUNNING),
`crawl` (the crawler, with all its verdicts), `ingest`, `requeue`, `finish` (the
final status), `log` (`_log_crawl`, whose foreign key refuses a row that is not
committed), `publish`, `fail`, `check` (`_check_search_complete`). `CallFailsInTry`
and `CallFailsOutside` are the failure of any database or Redis call, inside the
`try` of `_run_job` and outside of it; a failed flush leaves the session unusable
(`poisoned`), so that the FAILED update of the handler raises as well.

`MCCrawlDispatch` gives the constants of `CrawlDispatch` values for TLC;
`CrawlDispatchProofs` holds its theorems.

Abstractions: the message keeps the job and the retry count (the platform and the
identifier only choose the crawler: `Unregistered`); backoff delays, which the code
writes as `run_after` and never reads, are left out; results are only "found" or
not; the read endpoints change nothing. Messages without a row are the subject of
`ResultPipeline`.

`ResultPipeline` - what becomes of the results of one person. State and code:

| variable | code |
|---|---|
| `row` | the status column of a crawl's row |
| `run`, `msgs`, `retries` | the tasks of the attempts under way at a crawl, each between the awaits of `_run_job`, and its messages on the crawl queues |
| `ingestQ`, `indexQ` | the lists `queue:ingest` and `queue:index` |
| `ing` | per ingestion daemon: its place in `_process_one` and in `enrich_person`, the result at hand and the `corroboration_count` its transaction has loaded |
| `writes`, `corr`, `merged` | the person: results aggregated into it, `corroboration_count`, `merged_into` |
| `indexer`, `shown` | the index daemon with the document it has made of the person it has read; the results the document in Typesense shows |
| `listening`, `inbox` | the subscription of an SSE stream and the `asyncio.Queue` behind it |
| `pushes`, `losses`, `missed`, `completed`, `indexed` | history variables: results pushed, results and index requests given up after an error or a crash, SEARCH_COMPLETE published, results a document was made from |
| `raced`, `silent`, `overlapped` | history variables: a counted result was aggregated while another ingester had the person loaded; crawls an event of which could not be published or an attempt at which ended without a report; crawls started again before the last attempt had reported |

The crawl side has the steps of `CrawlDispatch` with their order, coarsened: rows
are visible from the start, and one dispatcher has a slot for every message. A crawl
is queued again before its task has settled the row and reported
(`dispatcher.py:221`, `253`), so that several attempts at it may be under way, each
with its own verdict, push and report. A failure after the push of a result repeats
the crawl although its result is on the queue, so the same crawl may deliver several
results. A publication that fails is swallowed (`dispatcher.py:270-282`,
`Swallowed`). A task may end without any report: its first update is outside of the
`try` (`:134`), and after a failed `_log_crawl` the handler's own update fails on
the same session (`:167`, `:227`).

The whole of `aggregate_result` is one transaction: `Pop` loads the person, `Write`
commits, `WriteFails` rolls back. The person's data is the set of results it
contains, each of them an address, an identifier, or data that a document always
shows. `ReadPerson` makes the document: at most `AddressCap` addresses of an
unordered select (`index_daemon.py:117-120`; no code ever sets `is_current` to
false, so the choice between `current` and all changes nothing), and of a merged
person only some of its identifiers, since a link gives them to another person one
by one (`persons.py:1213-1232`). The other data of a person stays with it when it is
merged; a merge that deletes the person is in `PersonIdentity` only. One index
daemon writes all documents, and its read of one person is one step. The twelve
enrichers are `Steps` steps, each of which may fail without a consequence for the
next one. A crawl in `Rowless` is one a pivot creates. Every platform has a crawler
(the branch without one is in `CrawlDispatch`).

`ResultDelivery` is the abstract specification behind it, in five variables: a
result under way is stored once or lost, never both and never silently; what is
searchable is stored, and it stays so unless another address takes its place or its
identifier goes to another person. `ResultPipeline` instantiates it with the queue
and the ingesters together as the place where a result waits.

`SearchProgress` extends `ResultPipeline` with the progress stream of one person:
the count of its rows (`OpenStream`), the subscription some time later
(`Subscribe`), SEARCH_STARTED at any time (`AnnounceSearch`), one action per kind of
event of `ProgressAggregator.process`, the end of the stream. `agg` is the
aggregator, `progress_pct` what `to_state` computes from it, with integer division.
Each crawl has a platform of its own, by which the code names it. The pipeline stops
with the stream, since nothing is said about it afterwards.

`CircuitBreaker`, `RateLimiter`, `CrawlGuard` - one request of
`HttpxCrawler.get/post`. `CircuitBreaker` has the decisions of the breaker as
operators on the hash a caller has read; `RateLimiter` is the token bucket as a
state machine (`Acquire`, `Expire`, the clock), with the time stamp a client took
before its call, which may arrive late; `CrawlGuard` composes them: each call of
Redis is a step, so any number of callers may be between the read and the write of
one hash. `Wired` are the callers in a process that handed Redis to both.

`PivotEnricher` - `pivot_from_result` of several ingesters with its limit, the
review rows, and `check_search_depth` with its INCR and EXPIRE. `PersonIdentity` -
which person an identifier belongs to: `txn` holds what a search, link, merge,
ingest or deletion has read and will write; the schema's constraints refuse a write,
READ COMMITTED refuses nothing else. `merging` remembers who was merged into whom.
`GrowthDaemon` - the loop crawl, event, growth, crawl and the loop crawl, result,
pivot, crawl, with depth, cooldown, fan-out and daily cap. A crawl is refused or
raises and is queued again (`CrawlRefused`, without bound in the code;
`CrawlRaises`, up to MAX_RETRIES). A pivot takes a result, looks each identifier up,
queues its crawls, and commits or loses the identifiers only afterwards (`Take`,
`Look`, `Store`, `StoreFails`, `CommitPivots`, `PivotsLost`). Results carry no
depth. `PeopleBuilder` - a builder job from the request to its last phase, and the
requests that start and cancel it, which write the row apart from the flag or the
task and may fail between the two (`LaunchFails`, `CancelFails`).
`SaturationCrawler`, `FreshnessScheduler`, `ResultRows` (the rows one result adds,
by handlers that append, insert or look up), `GraphDedup` (clusters of candidate
pairs, checked against the connected components of the edges), `OwnershipDiscovery`
(owners behind a company, checked against the owners within depth),
`RelationshipStore` (reports of several sources on one relationship) model the
component they are named for.

`EnrichmentSession` - the twelve steps of `enrich_person` on their one session.
`ResultPipeline` knows that a step may fail; this module knows what its failure does
to the session. A unit is a step or, within entity resolution, a pass. `txn` is
"clean", "aborted" (PostgreSQL refuses until the transaction ends) or "broken"
(SQLAlchemy refuses until a rollback). Which unit flushes, commits, rolls back,
swallows its errors or tries a merge is read from each enricher.

`Scrapers`, `RecordScrapers`, `PeopleScrapers`, `SocialScrapers`, `CyberScrapers` -
one definition per registered crawler class, under its name in the registry. A
scraper is a record: the transport (`via`), the verdicts that may end it before its
first request (`early`), the sequences of sources it may ask (`ways`, more than one
where the configuration or the shape of the identifier decides), and its verdict
when all were asked in vain. A source is a function from kinds of reply to verdicts:
end the scrape (found, absent, an error that is noted in the data, an error, an
error with one of the dispatcher's words, an error that quotes a text not its own,
an exception) or go on. `Scrapers` names the forms that many share: `Page` for a
scraper that judges one page, `More` for one source among several, `Reports` for one
that tells 429 apart, `Fragile` for one that takes a reply apart outside any `try`,
`Detail` for a request that adds to a record and can undo it, `Leading` for a source
whose failure leaves the next one out. Pages are abstracted to "hit", "empty",
"garbled" (does not parse) and "strange" (parses into something the scraper does not
expect: null, a list for a record, a null field). A request that only adds detail
and cannot undo the record, and the list caches that some scrapers keep in files,
are left out.

`CrawlerRun` - one crawl of one platform: kill switch and circuit, the attempts of
`BaseCrawler.run`, what each transport delivers of what a source says (curl makes
every status a failure, a browser shows the page whatever its status, the solver
does either), and the outcome the dispatcher reads from `found` and from two words
in the error. `CrawlDispatch` chooses that outcome freely; this module says which
ones a platform can have and why. An error that is not a text (the `message` of
`crypto_ethereum` or `geo_ip`, when it is no string) makes the dispatcher's
`.lower()` raise: there the crawl fails, which is an exception that `CrawlDispatch`
chooses. curl_cffi is taken to be installed.

`MC...` modules give constants for TLC. `MCPersons` and `MCStandalone` are unions of
components that share no state in the model: the variable `part` chooses one per
behaviour, so that one run explores each of them alone. The eight `...Proofs`
modules hold the theorems, one module for components of one kind: `DaemonProofs`
(`PeopleBuilder`, `GrowthDaemon`, `FreshnessScheduler`), `RecordProofs`
(`ResultRows`, `RelationshipStore`, `EnrichmentSession`), `PersonProofs`
(`PersonIdentity`, `PivotEnricher`, `CrawlerRun` and their union `MCPersons`),
`GraphProofs` (`GraphDedup`, `OwnershipDiscovery`, `SaturationCrawler`),
`ResultPipelineProofs` (with `ResultDelivery` and `SearchProgress`), and
`StandaloneProofs` for the union `MCStandalone`.

Operators whose name has a suffix after `_` and whose comment starts with "Mutant"
are plausible bugs; each property is known to fail when its mutant takes the place
of the definition (`mutants` in `PROJECT.json`).

## 3. Runs

| run | constants | shows |
|---|---|---|
| `dispatch_race` | 1 job, 1 dispatcher with 2 slots, retries, recovery, retry endpoint | permits and ownership of the row survive every interleaving of two tasks of the same row and the late commit |
| `dispatch_live` | 2 jobs, one with no crawler, every verdict, one failed call, one stop, fair | which rows may be left behind, hand-off of results, retry counts; every committed pending row is crawled |
| `pipeline_live` | a crawl and the row-less one its pivot creates, 2 ingesters, one failed call, one crash, fair | two addresses compete for a document with room for one: stored data has an index request; pushed results become searchable or are crowded out; the pipeline implements `ResultDelivery` |
| `pipeline_retry` | 1 crawl with two attempts that may overlap, 2 ingesters, one failed call, one crash, one merge | no result is forgotten or aggregated twice; each is counted once unless two ingesters had the person loaded |
| `progress_view` | 1 crawl with two attempts that may overlap, a stream opened at any time, at most 2 events behind, one failed call or publication, no crash and no merge (the theorems have them) | counters and statuses agree with the pipeline, for crawls all of whose events were published; the percentage stays in the range of its phase (a part of the type invariant) |
| `guard` | 2 callers with Redis, thresholds 2, burst 1, lag 1, 3 ticks, one failed call, one forced close | no more tokens in a window than the limit allows; requests while the circuit is open only by callers that could not know; the composition uses the limiter as specified |
| `persons` | pivots: 2 ingesters, 2 values, 2 persons; identity: 2 sessions, 3 persons, 2 identifiers, 5 transactions; crawls: all 184 scrapers, 3 attempts (`MAX_SCRAPER_RETRIES`) | identifiers searched are stored, shared ones are reviewed, the depth counter expires; values are kept, orphans and circles of redirects come only from named races; a crawl is found, put off or blocked because of what its sources said, whichever answer, refuse or raise, except for the scrapers `CrawlerRun` names |
| `standalone` | nine components, below | a property or two of each |
| `pipeline_complete`, `guard_worker`, `identity_circle`, `session_steps` | small | findings, section 4 |

The parts of `standalone`: a builder job with a cancellation and a kill
(`SettledUnlessRaced`, `CompleteIsFiltered`); a saturation crawl over three entities
(`ReachComplete`, `ShallowestFirst`); the clusters of four candidate pairs
(`ClustersAreComponents`); the rows of two deliveries by two ingesters
(`RefusedOnlyRaced`, `SingleUnlessRaced`); the scans over three profiles
(`OverdueIsQueued`); growth over a midnight with the crawls and pivots that feed it,
one of them refused (`DailyBounded`, and `CascadeEnds` under fairness); an
enrichment (`LossExplained`); the owners of a company among five (`OwnersFound`);
three sources that report one relationship in two requests (`BestSourceKept`).

Bounds. Two slots are enough for any pair of tasks to race, and every property of
the dispatcher speaks of one row and at most two of its carriers; rows of different
persons share nothing but the queue. `dispatch_race` has no failed call and no stop:
what those do to the permits is proved (`PermitsCorrect`). In `dispatch_live` the
batch of the recovery daemon has room for one of the two rows, so it must come back
for the other. `RetryCap` stops a crawl from being rate limited for ever (the code
has no limit there), `QueueCap` stops the recovery daemon from filling the queue (it
re-enqueues a row at every scan while it is pending), `MaxFaults`, `MaxStops`,
`MaxCrashes`, `MaxManual` bound the environment. One failed call and one stop reach
every error path; combinations of failures are covered by the proofs, whose bounds
are arbitrary. Two attempts at a crawl put two results on the queue together, enough
for two ingesters to hold results of one crawl, and are enough for the reports of an
attempt to come after the first events of the next; `MaxBehind` lets events of
different publishers meet in the queue of the stream. Two addresses and room for one
(`AddressCap`, 5 in the code) are the least that compete; the counting proofs are
for any cap. Two callers, one refused and one under way, suffice for the races on a
hash that two calls touch; three ticks let a circuit open, be probed and time out.
The crawls have no bound but the code's own `MaxAttempts`: every scraper meets every
combination of replies. Three persons allow a merge of a merged person, five
transactions a circle with two bystanders. In `standalone` `MaxTroubles`,
`MaxReports`, `MaxDeliveries`, `MaxScanFails` and `MaxKills` bound what goes wrong.
`MaxRefusals` bounds the 429s of the cascade, which the code does not: a source that
refuses for ever keeps its crawl on the queue for ever. One trouble in an enrichment
is what the property explains, and its theorem is for any number. Depth 3 of the
ownership search has one level below the companies a company names, five companies
let the crawl cap cut the search. Deadlock is checked for the dispatcher only: every
other component stops when its work is done.

Fairness (`FairSpec` of `CrawlDispatch`). The asyncio loop runs every ready task,
`wait_for` bounds each crawl, so `RunStep` is weakly fair; the loops of the
dispatchers and the recovery daemon never stop by themselves; time passes (`Age`);
the draining worker exits and docker restarts it (`restart: unless-stopped` in
`docker-compose.yml`). Nothing is assumed of the API, of failures or of the retry
endpoint. In `ResultPipeline` the crawls are weakly fair for the same reason, and so
are the ingesters and the indexer, whose loops catch every exception and go on.
Failures, merges, retries by users and crashes are not. `SearchCompletes` is refuted
under this fairness. `GrowthFairness` keeps crawls, ingesters and the growth daemon
going, for the same reasons: once the sources stop refusing, the cascade ends
because it runs out of depth and of identifiers, not because somebody stops.

## 4. Findings

Each is a counterexample of TLC, in a run of its own.

- `pipeline_complete`: only an ingester that finds all rows settled after its own
  result starts the enrichment. When the last row is settled after the last result
  was ingested, nobody does, and SEARCH_COMPLETE (`enrichment_orchestrator.py:247`)
  is never published.
- `guard_worker`: breaker and limiter are handed Redis by the API process only
  (`api/main.py:111-116`); the crawlers run in the worker, where both let everything
  through, although the breaker "is shared across all worker processes"
  (`circuit_breaker.py:4-5`).
- `identity_circle`: two manual links in a row merge two persons into each other,
  and GET redirects for ever (`persons.py:1230`).
- `session_steps`: a failed statement of one enrichment step makes every later one
  fail, although "each enricher is independent" (`enrichment_orchestrator.py:5`).

Observed while the modules were written, and built into them as the behaviour of the
code (the models do what the code does), but without a run of their own:

- Pipeline. Two ingesters that load one `corroboration_count` lose one of two
  corroborations (`aggregator.py:649`), and results of one source that come again
  count again, although the comment before it (`:641-643`) says otherwise. A
  document shows the first five addresses of an unordered select, so a new one may
  drop an address that was shown before (`index_daemon.py:117-120`). The enrichment
  starts while row-less pivot crawls or retries are queued
  (`ingestion_daemon.py:145`). The crawl set is announced as finished while retries
  or uncommitted rows are left (`dispatcher.py:296-313`). The stream goes back from
  "enriching" to "deduplicating" (`progress_tracker.py:162`), and a running crawl
  back to "queued" when SEARCH_STARTED comes late (`:117`). It misses events that
  could not be published (`dispatcher.py:270-282`); after a failed `_log_crawl` no
  report is sent; a crawl that is queued again before its report (`:221`, `:253`)
  may start before the stream hears that it failed, and then shows as failed while
  it runs.
- Guard. The limiter's TimeoutError is swallowed and the request goes without a
  token (`httpx_base.py:68-71`); two callers are both the "one test request"
  (`circuit_breaker.py:9-10`); a stale success of a half-open circuit can close one
  that was just opened again.
- Scrapers. An error that is handed to `_result()` ends in the data, so its `error`
  field is empty (`base.py:252-260`): the row is DONE and the breaker counts a
  success; so do most scrapers with a 429. Of the 29 that tell 429 apart, 11 use
  curl, whose `raise_for_status` turns it into "no response" (`curl_base.py:35`):
  they never report it, although the class is a "drop-in replacement"
  (`curl_base.py:8`) and `test_paste_monitor.py:109-117` expects `rate_limited`;
  `people_thatsthem` and `people_zabasearch` see it through the solver only. The
  text `circuit_open: <platform>` contains "rate" for `company_opencorporates` and
  `us_corporate_registry` and "block" for `crypto_blockchair`, which the dispatcher
  takes for a limit and a block. So it does with the texts of exceptions, and with
  errors in which six scrapers quote their source or the identifier (`Quoting`).
  Eighty-seven scrapers may raise on some reply, eighty of them because they take it
  apart outside any `try`, although "never raise" (`base.py:68`); ten of these lose
  what another source had (`Losing`; `email_breach.py:87-88`, `cyber_dns.py:158`).
  Eighteen report a hit for an answer that has none, three drop the hit of a second
  source (`Presuming`, `EmptyHits`, `PageHits`, `Wasteful` in `CrawlerRun`).
- Identity. `AsyncMergeExecutor` updates tables that have no `person_id`, so its
  transaction always aborts and is rolled back: merges by the executor, by
  `AutoDedup` and by the cascade are attempted and never committed. An orphaned
  identifier makes each search create one more person. Ingestion does not follow
  `merged_into`. The merge endpoint fails as a whole on an identifier both have.
- Resolution. Repeated review rows make pass 2 (`entity_resolution.py:389`) and the
  cross-person pass (`:254`) raise MultipleResultsFound; pass 4's "merge" is never
  executed; `score_person_dedup` reads an attribute Person does not have.
- Relationships. `aggregator.py:1329` and `enrichment_orchestrator.py:415, 460`
  construct Relationship with columns it does not have; the error is swallowed.
  Lists in plain JSONB columns are extended in place and never written, so the
  number of sources never passes 2 and the level that needs five is never reached.
  The order of the pair loses who is the parent.
- Genealogy. The flag `needs_genealogy` is reset in place and not committed, so the
  same persons are processed again.
- Enrichment. The rollback of the coverage step and of each merge attempt drop work
  that was reported "ok"; crawls are queued for identifiers a later rollback
  removes.
- Growth and pivots. Results carry no depth, so each pivot starts again at depth 1
  and a chain may exceed MAX_DEPTH; a crawl that is refused is queued again without
  bound (`dispatcher.py:220-222`); crawls of a pivot stay queued when its
  identifiers are rolled back (`pivot_enricher.py:258-277`); a crash between INCR
  and EXPIRE stops a person's pivots for good.
- Builder. A cancellation at a change of phase, or one whose update of the row fails
  (`discovery_engine.py:75-82`), leaves an unfinished row that no task works on; one
  during the expansion ends "complete"; a restart of the API leaves its jobs
  unfinished; the SSE stream of a cancelled job does not end.
- Saturation and graph. Each result's hash contains the identifier searched, so
  nothing is ever seen twice and the novelty stop never acts; `build_person_graph`
  adds edges between hops twice. Diamonds of ownership are reported as circular;
  "returns partial results on errors" raises instead.
- Rows. A result that comes again repeats the rows of appending handlers, and a
  repeated crypto wallet loses the whole result.
- Freshness. Rows of the queue are never deleted, so each profile is rescraped at
  most once, and a job may be dispatched whose row is rolled back.

## 5. Proofs

The theorems hold for every value of the constants that satisfies the named
assumptions, so for any number of jobs, dispatchers, ingesters, retries, failures
and crashes. The assumptions are the `...Assumption`s of the modules. They ask that
the sets a deployment can only have finitely many of are finite (jobs, slots,
ingesters, writers, identifiers, profiles, platforms, records, companies), that
bounds are natural numbers, that names for "none" are no member of the set they
stand beside, and that no source is to be refreshed more often than `ShortestSla`,
the 7 days of the scan's query (`freshness_scheduler.py:133`; the least number of
its table). `CatalogAssumption` is about the scrapers: which of their forms keep the
verdict of a crawl honest, and that those named as exceptions are exactly the ones
that have another form. TLC evaluates it for all 184. Nothing is assumed of how a
scheduler interleaves steps. Every invariant a passing run checks is proved.

`CrawlDispatchProofs`:

- `TypeCorrect`. `TypeOK` is inductive by itself; one lemma per operator that
  changes a task, the queue or a row.
- `PermitsCorrect`. Permits, the permit the loop holds and the live slots of each
  dispatcher add up to CONCURRENCY_PER_WORKER. Inductive over `TypeOK`; the work is
  in counting: a slot that is taken or freed changes the cardinality of the set of
  live slots by one.
- `FoundIsDeliveredCorrect`. `settledBy` is written at the end of a run, from the
  task's verdict; the invariant needs that a task with the verdict "found" that is
  past the hand-off has delivered (`VerdictInv`), because the final status is only
  written some awaits after the push.
- `RetryBudgetCorrect`. A task decides to requeue before it pushes, so the count it
  is about to write must fit already (`TasksWithin`).
- `OwnerCorrect`, from which `RunningIsOwnedCorrect` and `PendingIsCarriedCorrect`
  follow. `PendingIsCarried` speaks of visible rows and is not inductive: a commit
  makes rows visible that nothing was said about before. `OwnerInv` is
  `RunningIsOwned` with two facts about rows nobody sees yet: they are carried as
  well as long as the search is not rolled back (`LiveIsCarried`), and they say
  "pending" (`HiddenIsPending`), since an update of a row that is not committed
  matches nothing.

`ResultPipelineProofs`:

- `TypeCorrect`, with one lemma per actor.
- `StoredIsIndexedCorrect`. `StoredIsIndexed` is not inductive: it would fail if the
  indexer could replace a document by an older copy. `IndexInv` adds that the copy
  in the indexer's hands has all that the document has, and nothing that is not
  stored. `IndexFrame` reduces most steps to "no ingester is taken off its way to
  the request".
- `ResultsConservedCorrect`. The invariant itself is inductive; the work is in
  counting the occurrences of a result in a queue (`AtAppend`, `AtTail`) and the
  ingesters that hold it.
- `Refinement`. `ResultPipeline` implements `ResultDelivery`: one lemma per actor
  maps its steps to `Find`, `Store`, `Lose`, `Merge`, `Index` or a stutter.
- `SearchableStays`, an action property: what leaves `shown` is an address while all
  `AddressCap` places are taken by others, or an identifier of a merged person. The
  indexer holds a copy that is as old as its read; by `IndexInv` that copy has all
  that any document was made from, so no document is older than the one it replaces,
  and whatever it leaves out was crowded out of it.
- `CorroborationCountedCorrect`. An ingester writes back a count it loaded at some
  earlier time. As long as nothing has raced, the count is the number of reliable
  results aggregated, and so is the count in the hands of each ingester with a
  reliable one (`CorroborationInv`): nobody else wrote one since it was loaded.
  After a race the counts are still no greater. An aggregated result makes the set
  of results that count larger by one.
- `ProgressTypeCorrect` (with the range of the percentage, by arithmetic on integer
  division), `ReportsCountedCorrect`, `ViewFollowsCorrect`. The last one is not
  inductive: several events about a crawl may be queued, of several attempts. `Told`
  says that the last of them fits what the attempts at the crawl are doing, and if
  there is none, that the view does; crawls in `silent` are excepted, and of those
  in `overlapped` only "running" tells something. `OneAtATime` keeps the attempts of
  all others apart. `Silent` and `Speaks` are the two ways in which a step of the
  pipeline touches a stream.
- `WatchedResults`, `WatchedDelivery`: what is proved of the pipeline alone holds
  when streams watch it. `SearchProgress` stops the pipeline with the stream and
  adds the stream's own steps, which are stutters of the pipeline (`StreamAside`);
  so the invariants and the refinement carry over.

`CrawlGuardProofs`:

- `LimiterCorrect`. Tokens granted since a watch began and tokens left are bounded
  by burst and refill; the stamps may be late by `MaxLag`, which is why the bound
  counts the lag as time.
- `UsesLimiterCorrect`, and from it `WindowBoundedCorrect`: the composition touches
  the bucket in steps of the limiter only, so that the bound of the limiter holds
  for any number of callers.
- `RefusedWhileOpenCorrect`, by `Informed`: while the circuit is open a caller that
  may still send has read the hash before it opened.

`PersonProofs`:

- `IdentityTypeCorrect` (with the unique key and the foreign keys),
  `ValuesKeptCorrect` and `OrphansExplainedCorrect`. A merge or a deletion decides
  on rows it listed earlier; `Ready` says that a row its person got since then is
  recorded as raced, so that a row left behind by `Drop` is explained. `CommitStep`
  collects what any commit owes to the transactions that are still open;
  `AbsorbStep` and `DropStep` show it for the two ways in which rows change hands.
- `CirclesExplainedCorrect`. While nobody is relinked the redirects go up in an
  order that no step states. `Ranked` says that there is one: numbers for the
  persons that grow along each redirect, except to someone who was relinked. Whoever
  is chosen to keep another one and is not relinked by that has no redirect at that
  moment, so its number can be raised (`RankAbsorb`). All that follow from a person
  without passing a relinked one have a greater number, so the person is not among
  them.
- `StoredIsSearchedCorrect`, `SharedIsReviewedCorrect`, `CounterExpiresCorrect`.
  None is inductive, since a call speaks for rows that nobody sees before it
  commits. `Fits` relates a call to the committed rows: what it added was among the
  identifiers of its result and was searched or not pushed, and once it has looked
  for other persons, those it did not see have raced with it. `Counters` ties a
  depth counter without an expiry to a call that is about to set it.
- `PivotTypeCorrect`: what is left of a duplicate-free list of identifiers is one
  (`TailOfPivots`).
- `VerdictExplainedCorrect`, from a criterion on the text of a scraper that needs no
  run: `Honest` says that nothing but a hit is found or kept, `Counts` that a hit is
  the result, or is kept and the sources asked after it cannot undo it but by
  raising (`Harmless`), `Loses` that one of them may raise, `Quotes` that an error
  has a text that is not the scraper's, `Requeues` that every source tells 429
  apart. `Asked` relates a scraper under way to it: what was kept was a hit, a hit
  is kept and no source that is left undoes it (`Keeps`), no 429 was passed over. An
  exception throws away what an attempt kept and heard; only that of the last
  attempt decides the outcome. Why the exceptions are exceptions is seen from their
  definitions, without running them.
- `PersonsParts`, `PersonsTypeCorrect`: a behaviour of the union is one of each
  component, so the theorems above hold of the run `persons`.

`RecordProofs`:

- `RowsTypeCorrect`, `RefusedOnlyRacedCorrect`, `SingleUnlessRacedCorrect`. `TxOK`
  says of each open transaction that a row it has looked up and added, and that is
  there now, was committed by another one since (which is the race); the lemmas on
  `Lawful` say which writes a result leads to, and in which order.
- `BestSourceKeptCorrect`. A report decides on values it read at two moments;
  `ReadsOld` orders the four values, `Empty` says that an insert meets an empty
  table, `OneSource` that the list of sources never grows.
- `LossExplainedCorrect`. Work that waits in the session must be known to be
  explained before it is dropped. `WaitingExplained` says so for an aborted
  transaction, after the coverage for the first half, and after the last unit for
  all; `TroubleExplains` shows that trouble in a unit explains the loss of
  everything that waits.

`DaemonProofs`:

- `SettledCorrect` and `CompleteIsFilteredCorrect`. A final status is written some
  awaits before the task ends, and a request that failed halfway (`halfway`) may
  have left a row without its task or a flag without its row: `Settles` follows a
  task through its phases, `Judged` follows the persons through the filter.
- `DailyBoundedCorrect`. The daily counter is compared once per event and
  incremented per job. `Counted` relates it to the crawls pushed that day and to
  those the event under way may still push, per start of the worker; the bag of
  crawls and its counts have lemmas of their own.
- `CascadeDescendsCorrect`, an action property: why a cascade ends. Crawls lead to
  events, events to crawls one level deeper, results to crawls at depth 1, and
  nothing counts all of them. `Descends` states the order that every step without a
  search, a refusal or a fault goes down in: identifiers still unknown to a person,
  pivots on identifiers stored meanwhile, identifiers in the hands of a pivot that
  are not inserted yet, then depth by depth the crawls (each with its tries left),
  the events and what is left of a fan-out, then the results, then what the
  ingesters have left to do. A rolled back pivot is a fault; a crawl made again has
  fewer tries left. It needs that no event is deeper than MAX_DEPTH (`Shallow`); the
  rest is counting in bags and queues (`NumberTaken`, `OfDepthTail`). From it and
  fairness TLC's `CascadeEnds` follows; that last step is not proved.
- `OverdueIsQueuedCorrect`, an action property: what a scan finds late is in its
  hands, added or queued already until it ends. Beforehand `Candidates` must be
  shown to be the oldest ones, which is a fact on counting in finite sets.

`GraphProofs`, about graphs of any size. The library's induction theorems take an
operator, which no installed prover instantiates; here each is stated for a set of
naturals (`Inductive`, `LeastMember`) and recursion for a set of functions
(`Iterates`), derived from the existence of least elements.

- `ClustersAreComponentsCorrect`. The search for one cluster holds records that are
  linked to one another only, and the neighbours of those it has left behind; when
  its queue is empty it is closed, hence a class (`GraphInv`).
- `OwnersFoundCorrect`. The breadth-first invariant (`OwnInv`): at some depth D the
  queue holds companies D and D + 1 steps away, the nearer ones first; those nearer
  than D are crawled, those crawled have their distance, the companies they name are
  queued or crawled (`Levelled`, `Nearest`, `Covered`). `Counts` is for circles: a
  company that two chains lead to adds a share that adds no company.
- `ReachCompleteCorrect` and `ShallowestFirstCorrect`. An entity may be queued
  several times, so there is no level: `Sorted` says that the depths in the queue
  increase and differ by one hop at most, `Reachable` that an entity is not queued
  nearer than it is, `Followed` that what a processed entity leads to is processed,
  or waits, one hop further at most.

`StandaloneProofs`: `StandaloneParts` and `StandaloneTypeCorrect`, the same for the
nine components of the run `standalone`. A behaviour of the union is one of each
component with its fairness where a liveness property needs it.

Only model-checked: liveness (`PendingIsServed`, `FoundIsSearchable`,
`CascadeEnds`), which needs fairness and ENABLED. What keeps each of them from
failing is proved: a pending row has its carrier (`PendingIsCarried`), stored data
its index request and pushed results an ingester (`StoredIsIndexed`,
`ResultsConserved`), and a cascade goes down (`CascadeDescends`). The properties of
section 4 are false.

## 6. Plan and what is not modelled

Next, in this order: the refinement of abstract specifications for the daemons; the
composition of `PivotEnricher` with `ResultPipeline`; the list caches of the
scrapers; the golden record's choice of field values.

Not modelled and why:

- How a scraper parses a page and which fields it takes from it: `Scrapers` keeps
  the reply a page amounts to and what is done about it. The list caches in files
  (`sanctions_ofac.py` and its like) keep what was fetched, even a garbled page, for
  hours; the models fetch each time.
- The enrichers' formulas compute over one person without shared state. What an
  enricher does to the shared session is in `EnrichmentSession`.
- The migrations and model classes are schema; the constraints that matter (unique
  identifiers, relationships, foreign keys of merged and deleted persons) are guards
  of the actions that would violate them.
- The executor's, `AutoDedup`'s and the cascade's merges, as their transactions are
  never committed (section 4); the attempts are in `EnrichmentSession`.
- The discovery orchestrator runs external tools; proxy pool and Tor rotate a list;
  the transport registry is called by its tests only; the audit writes one row a
  day; graph queries and most endpoints only read.
- Which person a result without one belongs to: `ResultRows` looks it up by one key,
  the code by identifier, name and similar name (`aggregator.py:674-778`).
- A root of the ownership search without a corporate suffix: the code takes it for a
  person when it is named as an officer (`ubo_discovery.py:212`).
- Failures of a breaker that are lost because two callers write one hash are steps
  of `CircuitBreaker`, but no property forbids them; that a profile is rescraped
  once only (section 4) is none of `OverdueIsQueued`.
- The 24 hour expiry of a breaker's hash, and the estimate of the remaining time of
  a search.
