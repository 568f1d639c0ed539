# A verification development of Open Besluitvorming

Open Besluitvorming imports council information (meetings, agenda items,
documents, motions, votes) from the systems municipalities use, stores every
version of every entity, makes documents searchable, and publishes a change feed
other parties keep a copy of. Several processes share one SQLite file, one
object store and one search index, and they are killed and redeployed while they
work. This directory models the parts of it where that matters: TLA+ modules,
TLC configurations that check them on small instances, and TLAPS proofs.

- Check a run: `tlc -config Service.cfg MCService` (see "Runs" for the pairs).
- Check a proof: `tlapm ServiceProofs.tla`.
- `PROJECT.json` lists components, runs, mutants, the map from every definition
  to the lines it models, findings, hazards and theorems.

Paths below are relative to the repository (`src/…`, `web/…`, `scripts/…`).

## 1. Inventory

| component | code | state it keeps | operations | what makes it correct |
|---|---|---|---|---|
| Export changes log | `src/exports/log.ts` | `export_head`, `export_entity_state`, `export_pending`, `export_segment`; objects in storage; `flushLocks` per process | `recordCommit`, `recordDelete`, `recordRepair` → `append`; `flush` | a gapless, deduplicated, append-only feed; nothing lost by a failed or interrupted flush |
| Export reads and their consumers | `src/exports/log.ts`, `web/server.ts`, `API.md` | request-local; the consumer's cursor and copy | `readSnapshot`, `readChanges`, `feedStatus` | a copy built from snapshot + changes equals the source; the cursor never jumps and always advances |
| Import run queue | `src/ops/store.ts`, `src/ingest.ts`, `src/worker.ts` | `ingest_run`; per worker `activeRuns`, `activeCount` | enqueue, `claimQueuedRun`, `updateRun`, completion, watchdog, `reconcileInterruptedRuns`, SIGTERM release | one execution per run, legal life cycle, bounded retries, every run settled |
| Ops jobs | `src/ops/jobs.ts`, `src/ops/store.ts`, `src/worker.ts`, `web/ops_api.ts`, `scripts/ops_host_agent.py` | `ops_job`; per worker `activeOpsJob` | create, claim (worker, host agent), finish, release, reconcile, fail stale | one apply job at a time, settled is final, one executor, every job settled |
| Scheduler | `src/scheduler.ts` | none but the clock and a timer | next tick, window choice, skip rule, enqueue | no night is lost to a clock change or a restart |
| Stall watchdog, supplier breaker | `src/ingest_watchdog.ts`, `src/ingest_stall_timeout.ts`, `src/ibabs/rate_limit.ts` | heartbeat time; breaker state in a file shared by workers | race, heartbeat, record failure, cool down | deliberate waiting is never mistaken for a stall |
| Takedown and purge | `src/ops/delete_document.ts`, `src/ops/purge_source.ts`, `src/documents/bsn.ts` | blocklist; document state in four stores | delete one document, purge a source | what was taken down is gone everywhere and stays gone |
| Source removals | `src/pipeline/source_removals.ts`, `src/documents/source_presence.ts` | presence rows; per-run sightings | observe, retract, restore | retracted only if really gone; what drops off is at least reported |
| Import pipeline | `src/ingest.ts`, `src/pipeline/versioning.ts`, `src/events/entity_commit.ts` | entity versions, buffers | fetch, commit, index, flush | each change committed, exported and indexed |
| Reindex, repair, sweeps | `src/pipeline/reindex.ts`, `repair_ibabs_times.ts`, `scripts/revalidate_documents.ts`, `scripts/enqueue_full_history.ts` | buffered rows; streaks; the windows asked for | replay, shift times, confirm what is gone, plan windows | old rows never outrank a takedown; a sweep that is killed and run again counts and shifts nothing twice |
| Document processing | `src/documents/*.ts` | document cache in object storage | lookup, download, extract, store, quarantine | no import indexes text its scan would quarantine; stored text is not lost to a failed repair |
| Quickwit client | `src/quickwit/*.ts` | none | pack rows into bodies, halve, retry, delete tasks, search | every row is taken, refused alone or reported |
| Storage client, backup | `src/storage/*.ts`, `scripts/backup_state.ts` | none; copies in storage | put, in one request or in parts, list, delete; back up, prune, stamp | the stamp means that there is a copy |
| Extractors and their clients | `src/ibabs`, `src/notubiz`, `src/parlaeus`, `src/gemeenteoplossingen` | per run: what was seen, counted and named; per call two budgets | list, halve, fetch with bounded concurrency, retry | what an answer held and is left out is named; an error is not an empty answer, where the answer has a status |
| Motions and recordings | `src/motions`, `src/recordings` | the run's index of meetings | link a motion, read its outcome, merge cues into segments | a motion is linked to its own meeting however small the window; no word changes speaker |
| Search API, rate limit, search gate | `web/*.ts` | token buckets, phrase slots in use, figures in memory and on disk, page images | charge, admit, refuse, scan, put a detail together, render a page | budgets exact, slots given back, pages neither repeat nor skip, what is shown was there |
| Status, coverage, monitor | `web/status_api.ts`, `src/coverage/check.ts`, `scripts/monitor-production.sh`, `.ts` | a cached answer; the check's record; a cooldown file | read, compare, publish, alert | what is reported was true while it was read, or the report says it is not whole; a trouble that lasts is told |
| Search page, its viewers | `web/src/App.svelte`, `PdfDocumentView.svelte`, `MeetingRecordingPlayer.svelte` | address, form, list, detail, pages, playhead, calls under way | type, search, page, open, follow a link, scroll, jump, find | what is on screen is what the address says; a jump lands |
| Extraction service | `services/extraction/main.py` | objects in storage | extract one document | a failed step leaves nothing a later one misreads |
| Admin page | `web/src/AdminApp.svelte`, `web/ops_api.ts` | the list, the filter, polls under way | load, poll, read on, import again, ask for a job | the list is the server's; a request does what it named |
| Publication, catalogue | `src/integrations`, `src/sources` | — | — | not state machines of this system |

How they interact. The scheduler, the API and ops jobs insert rows into
`ingest_run`; workers poll it, claim rows and run `executeIngest`, which appends
to the export log and ends in a flush of its source. Takedowns and purges run as
ops jobs in the same workers and append tombstones to the same log. The web
process reads the log for consumers. The only things all of them share are
SQLite statements and objects in storage: there is no lock across processes.

What is hard: statement-level interleavings between worker containers; awaits
between a read and the write that depends on it; SIGTERM, crashes and the
watchdog each ending an execution in a different way; a reconcile at startup
that cannot tell a dead sibling from a slow one; several stores changed one
after the other by one operation.

## 2. Plan

| order | module | models | abstract spec / composition |
|---|---|---|---|
| 1, done | `ExportRecords`, `ChangeFeed`, `ExportLog` | the export log | `ExportLog` implements `ChangeFeed` |
| 2, done | `ExportSync` | reads and a consumer | extends `ExportLog` |
| 3, done | `RunQueue` | import run queue | in `MCImports` |
| 4, done | `OpsJobs` | ops job queue | in `MCService` |
| 5, done | `Takedown`, `PageImages` | takedown, purge, import and reindex of one document; its page images | composes the writers of one index and one store |
| 6, done | `SourceRemovals`, `Materialize`, `ImportRun` with `IbabsExtraction`, `NotubizExtraction`, `SiteExtraction` | what one import does, per supplier | in `MCImports` |
| 7, done | `Scheduler`, `Breaker`, `IbabsClient` | when imports run, how fast they may ask, and what a call makes of an answer | in `MCImports` |
| 8, done | `MotionLinks`, `Transcript` | what an import makes of motions and recordings | in `MCImports` |
| 9, done | `SearchPage`, `SearchWindow`, `Admission`, `EntityDetail`, `PdfView`, `RecordingPlayer` | the reader's side | in `MCService` |
| 10, done | `IndexClient`, `Revalidation`, `TimeRepair`, `StateBackup`, `OpsRequests`; `Backfill` | upkeep: sweeps, repairs, backups, requests; backfill plans | in `MCUpkeep`; `Backfill` in `MCImports` |
| 11, done | `Monitor`, `CoverageCheck`, `StatusPage`, `Figures`, `AdminPage` | what is reported of the system | in `MCUpkeep` |
| left | — | `resumeQueuedIngests` and the command-line runner; the other suppliers' clients; the sitemap; suggestions and facets | — |

Proofs, in the order they were done: `ExportLog` for one process and for several,
`RunQueue`, `OpsJobs`, `Takedown`, `PageImages`, `EntityDetail`, `Admission`,
`Materialize`, `Breaker`, `IbabsClient`, `SourceRemovals`, `Scheduler`, `StateBackup`,
`Monitor`, `Figures`, `CoverageCheck`, `StatusPage`, `AdminPage`, the search page and
its viewers, the consumer of `ExportSync`, the sweeps (`Revalidation`, `IndexClient`,
`TimeRepair`, `Backfill`, `OpsRequests`), the extractions, `MotionLinks`, `Transcript`,
`SearchWindow`, the types of all components, and the composed runs' invariants that
follow from them. With that every invariant and every action property of the passing
runs is proved; what is left is liveness, which stays with TLC.

## 3. What is modelled

### Export log (`ExportRecords`, `ChangeFeed`, `ExportLog`)

One source: every statement is keyed by `source_key`. The variables are the four
tables, the objects in storage, and per process the flush it is in the middle
of. `AppendRecord` is the one `BEGIN IMMEDIATE` transaction of `append()`,
including the deduplication test (`IsChange`) and its rollback (the action is
simply not enabled). A flush is three steps, as in `flushNow()`: `BeginFlush`
(select), `PutObject`/`PutFails` (the awaited upload, which may fail after the
object was stored), `RegisterSegment` (upsert the segment by `start_seq`, delete
rows up to the flush's last number). `AbandonFlush` is a crash or a rolled-back
transaction. `flushLocks` is one promise chain per process, hence one `flush`
record per process; nothing serialises different processes.

`ChangeFeed` is what the log promises: a set of records numbered `0 .. n-1`, each
a change relative to its entity's previous record. `FeedSpec` reads it off what
is available: published records and the pending tail.

The payload is identified by its hash; reason, meeting, time and commit id
decide nothing and are left out. `countLiveEntities`, `getEntityRecord` and the
listing reads change nothing and are left out.

### Export reads and a consumer (`ExportSync`)

Extends `ExportLog` with a consumer written after API.md: page the snapshot,
keep the first page's changes cursor, poll changes. `readSnapshot()` is two
steps (head, rows), `readChanges()` is two (list the segments; after the awaited
object reads, select the tail and cut the page). The consumer is external; its
definitions are marked so in the map. Object storage failures end a request.

### Import run queue (`RunQueue`)

Variables: the table, per submitter the window `findActiveRun()` found free
(check and insert are separate statements), per worker its mode, the rows its
startup reconcile selected, its `activeRuns` map, and the set of
`executeIngest()` calls under way. `updateRun()` reads the whole row and writes
it back: `ReadRow`/`WriteProgress` are two steps, because another process may
write in between; within a process nothing runs between the two. `Stall` is the
watchdog: the row is marked failed (or that update fails and is logged), the
slot is freed, and the call goes on *detached* and may still write progress and
its outcome. `Sigterm` hands back what `activeRuns` names.

Abstracted: queue order and look-ahead (any queued run may be the next claim;
the guarded `UPDATE` decides), memory-based concurrency (the constant `Slots`),
the claim age (`old` turns true at any time), the release of several runs at
SIGTERM (one step; the statements touch different rows). Not modelled: the
command-line runner (`runIngest`, `drainIngestQueue`, `resumeQueuedIngests`).

### Ops jobs (`OpsJobs`)

Variables: the table, per worker its mode, the rows its reconcile has still to
update, and `activeOpsJob`; the job the host agent's tick runs. `CreateJob` is
the guarded insert. `ClaimJob`, `FinishJob`, `Sigterm` are the worker's;
`FailStaleJobs`, `AgentClaim`, `AgentFinish`, `AgentDies` the agent's, which is a
systemd oneshot unit, so one tick at a time. `Boot` is the select of
`reconcileInterruptedOpsJobs()` and `ReconcileJob` one of its row updates, each
guarded by `status = 'running'` but deciding by the count of the select. Rows
are numbered in the order of `created_at`. What the actions do, their parameters
and the captured output are left out. A SIGTERM between the claim's statement
and the assignment of `activeOpsJob` has the effect of `Crash`: the row stays
running and nothing is released.

### Takedown, purge, import and reindex of one document (`Takedown`)

`rows` is the index: copies and delete markers of the document and of its one
page, each with the time readers compare. `deleteOne()` is one action per
awaited step (`InspectDocument`, `IngestMarkers`, `CreateDeleteTask`,
`ClearStorage`, `RecordTombstone`, `Blocklist`), and `TakedownFails` ends it
between any two. An import materialises (`Materialize`), checks the blocklist
and commits (`CommitImport`), and flushes its buffer later (`FlushImport`); a
reindex reads the snapshot, rehydrates from storage and flushes; a purge
tombstones, clears storage and creates a delete task. `Ingest` is given the rows
a request stored, all or, when it failed, some; `Merge` is the janitor applying a delete
task to the rows it was created for. `history` records which writers overlapped
the takedown, which is what the two invariants excuse.

### Source removals (`SourceRemovals`)

The supplier changes agendas and files and refuses everything for a while,
between any two steps of a run. `EmitMeeting` is `observeMeeting()` followed by
the commit that overwrites the list it compared with. `Plan` is the plan:
clearing suspects, the skipped meetings, the cap. `AskControl`/`AskCandidate`
are the awaited probes, `RecordSightings` and `Retract` the consequences;
`RunEndsEarly` is any of them throwing, or the run dying. `sightings` and
`blind` remember what the supplier truthfully said. What became of a document that
dropped off is kept apart by how much the issues tell of it: its id (`named`), the
meeting that lost everything with it (`emptied`), a number it is one of when the cap
stops the run (`counted`), or nothing, because the run ended before (`lost`).

### One document through imports (`Materialize`)

`work` is the import's place in `materializeDocument()`; `objects` is what
storage holds. `ChooseSource` decides between a plain cache hit, a page repair, a
re-derivation from the stored file, the service and the local path. The service
takes its steps one at a time (`Uploads`), may fail after any of them, and its
answer may be lost; an attempt is repeated up to `MaxRetries` times. Quarantine
writes the objects and then the blocklist, and `BlocklistingFails` in between.
`Reindex` puts back, at any time, the text the record's keys name, without a scan;
`leftover` remembers the texts that calls of the service stored whose answer no
import could act on.
Text and pages are present or absent; quality and thumbnails are left out.

### One import from first call to outcome (`ImportRun` and the extractors)

`ImportRun` is `executeIngest()` and `mapLimit()`, whatever the supplier. `plan` is
what the extractor has still to do; the workers of a `mapLimit` are `Pool`,
everything else is `Main`. `Commit` is `onEntity()`: commit at once, buffer, and
send a full buffer; it is emptied before the index answers, so a refused batch is
lost to it. `Reject` is what goes past a task's last catch block: the pool rejects
and the run fails, and the other workers do not notice and carry on. `RunThrows`
is an await outside the pools that throws. `issues` holds what issues name.

The extractors add what they ask and what each catch block does, which is where
they differ:

- `IbabsExtraction`: chunks, the halves of a chunk that timed out
  (`ListTimesOut`), meetings emitted one after the other, then lists and entries
  under a limit. An entry has two catch blocks, one inside the other (`Caught`).
  `ListsKnown` is any of the source's lists: a list with a blank name is passed over
  and an error is read as none, and nothing says so.
- `NotubizExtraction`: pages of events, assemblies that name further meetings
  (`AssemblyAnswers`), per meeting its detail and its media, documents taken once
  per page; then modules, items and attachments taken once per run. A meeting
  outside its catch blocks rejects (`MeetingThrows`), and a recording that fails
  is emitted a second time (`RecordingFails`).
- `SiteExtraction`: GemeenteOplossingen and Parlaeus, which share their shape:
  rosters with one catch block each (`RosterFails`, whose issue names nothing),
  meetings, documents. A body that is no list is read as an empty one. They differ in parts or a whole window (`SiteChunks`, `SiteListFails`) and in who
  catches a meeting (`SiteMeetingFails`).

What "left out" is measured against: for iBabs the meetings of the window and the
entries of the lists `getLists()` returned (`plan.due`), because those requests answer
everything or fail; for the others `plan.named`, what the answers named, because a
failure may read as an empty list (`MayAnswer`) and a site names a document only with
its meeting. Statistics and heartbeats are left out; days stand for dates and an entity for its
rows. Runs that do not index (`ingestToQuickwit` off) commit nothing and are left
out.

### Daily scheduler (`Scheduler`)

Time in hours UTC over three days around a clock change (`season`: none, back or
forward). `NextTick` uses the offset of the moment it is computed at, as the code
does. `TickFires` is the skip rule and `EnqueueNext` one source at a time, so a
deploy (`Stop`) can cut the night short.

### Supplier breaker (`Breaker`)

Moments are kept as the time that is left, so the clock needs no bound. A caller
sleeps until the block is over and then until its slot, and looks at neither
again; `Throttled` and `Succeeded` are what answers do to the limiter;
`WriteLands` is the unawaited write of the shared file. A process has a limiter per
host, and what one of them knows of another's throttle it knows from that file, read
at most once per `ReadTTL`. `held` is the block a limiter knows of and what it sent
into it.

### Backfill plans (`Backfill`)

The three planners of a history, each with its look and its insert in two
statements, beside the scheduler, the workers and operators who run windows by
hand. `table` has for each mode and window how many runs are active and what the
others ended with. `FailedWindows` is the query as it stands: a run of the same dates
that succeeded in any mode hides a window (`SomeModeSucceeded`), and a run started by
hand that failed is not one it looks at (`unlisted`). `Owed` is what a sweep of the
failed can then be held to.

### Search page (`SearchPage`)

The address, the form, the list, the open detail, and `pending`: every call
under way with what its continuation remembers of the moment it was made
(`requestId`, the signature, the entity to open). Answers arrive in any order or
fail. A setting of the filters is one value. Markup, facets, suggestions and
scroll positions are left out. An action runs to its first await; `DetailFails`
inside `runSearch()` counts as a failed search, as its one `try` makes it.

### Search windows and admission (`SearchWindow`, `Admission`)

`SearchWindow` is `collectSearchWindow()`: `ScanBatch` sizes a batch by the rows
per result so far, `Answer` slices the page. `honest` says whether Quickwit
counted all hits or stopped early. The index does not change while the reader
pages. `Admission` is the bucket with lazy refill and the sweep of idle ones,
compared with a bucket that fills all the time (`refill`, history), and the
slots of phrase searches.

### The iBabs client (`IbabsClient`)

One call with its two budgets: `Attempt` is what the network and the answer do,
`Rest` the pause between. `met` counts what was met and `told` what the breaker
was told, which is where a call could lie. An answer's body is read in the order
the code reads it: the operation's node, its status, its rows with an id and a
name.

### Motions and recordings (`MotionLinks`, `Transcript`)

`MotionLinks` is the index of a run's meetings, the days iBabs loads on demand,
Notubiz's references, and the reading of an outcome from a status. A name is a
sequence of words and a status a set of them: enough to tell a title that merely
begins alike from the same title. `Transcript` merges cues into segments, cuts
the agenda into chapters and writes both as rows, one step per cue and per row.

### Page images (`PageImages`)

One document of numbered versions. `asker` is the place of each request for a
page in the route of `web/server.ts`, `prewarm` that of the import that renders
the first page ahead, `clearing` that of a takedown. The PDF in memory, the
stored images and the stored count are three things that can be of different
versions; `overlapped` remembers who was under way while a takedown was.

### The page of an entity (`EntityDetail`)

One answer of `/api/entities/{id}`: each request to the index, to storage or to
the supplier is a step of `reply`, each may fail, and imports, takedowns and
purges move `copies` and `objectsKept` in between. A read asks for a number of rows
in no order (`RowsAsked`: 8 of an entity, 100 of motions, 3 for each attachment, 20 of
recordings). When there are more (each import adds one, and the lists hold rows of
others too: `beside`) the answer is any of them, `RowsFound`, and `Found` takes the
newest of those. `wasThere`, `wasGone`, `hadRows` and `hadMore` remember the time
since the request began.

### The viewers (`PdfView`, `RecordingPlayer`)

`PdfView` keeps every request it sent (`pageRequests`), because an answer writes
under its page number into whatever map is there when it comes. `RecordingPlayer`
has the video without a timeline, the jump that is held until it has one, and the
find bar that opens by itself on the reader's term.

### Upkeep (`IndexClient`, `Revalidation`, `TimeRepair`, `StateBackup`, `OpsRequests`)

- `IndexClient` packs rows into bodies, halves a body the index answers 413,
  retries other answers; a request that timed out may have put its rows in.
- `Revalidation` reads the index by offset, so a row may be read twice or not at
  all, and keeps a streak per document; a source that is down answers as if all
  were gone.
- `TimeRepair` pages through the snapshot while imports and takedowns write the
  same log, is killed and started again; the clocks change on its day 1.
- `StateBackup` goes through the databases one request at a time, in one upload or
  in parts, over midnight and through kills; `stamp` is what it tells the monitor.
- `OpsRequests` follows one request from its token to what the worker or the host
  agent does with the row, each with the catalogue it was started with.

### Reports (`Monitor`, `CoverageCheck`, `StatusPage`, `Figures`, `AdminPage`)

- `Monitor` is a tick of either script: its checks one after the other, then the
  webhook, at most once per cooldown and key.
- `CoverageCheck` lists a supplier (`Lists…` per way a request may fail), compares
  with a log that moves, and records. A page of events, an assembly, the modules, a
  module's items or the lists may be read as empty without a warning; `unsaid` is
  what was there.
- `StatusPage` reads the runs in three statements and two awaits, and keeps its
  answer a while.
- `Figures` is what the web process remembers of the index: figures in memory and
  on disk, ratios per query, previews. A figure is the time at which it was true.
- `AdminPage` is the list of runs: loads, polls, older pages and imports under way
  together, answered in any order.

## 4. Runs

| run | module, cfg | instance | what it shows |
|---|---|---|---|
| `live` | `MCLive`, `Live.cfg` | a log with 2 entities, 2 hashes, 3 numbers, 1 process; 2 import runs with 1 worker; 2 ops jobs with 1 worker and the agent | nothing lost, segments disjoint, the log implements `ChangeFeed`, everything is published, every run and job is settled in the end |
| `log_shared` | `MCExportShared`, `ExportShared.cfg` | 2 entities, 2 hashes (the consumer's component uses 1), 3 numbers, pages of 1, 2 processes | what survives two flushing processes; a caught-up consumer has exactly the live rows, gaps need a flush inside the request, it keeps catching up |
| `log_loss` | `MCExportShared`, `ExportLogLoss.cfg` | the same | violated: two processes lose a published record |
| `sync_gap` | `MCExportShared`, `ExportSyncGap.cfg` | pages of 2 | violated: a flush between the two selects makes a page jump |
| `imports` | `MCImports`, `Imports.cfg` | ten components, see below | the import side |
| `queue_fresh` | `RunQueue`, `RunQueueFresh.cfg` | 1 run, 2 workers | violated: a fresh claim is requeued by a sibling's reconcile |
| `service` | `MCService`, `Service.cfg` | nine components | ops jobs, takedown, and the reader's side |
| `upkeep` | `MCUpkeep`, `Upkeep.cfg` | twelve components, the figures counting as three | sweeps, repairs, backups, requests, reports |
| `hidden_at_once` | `Takedown`, `TakedownVisible.cfg` | 3 points in time, 1 reindex | violated: a search still shows a document whose markers are in |
| `address_opens` | `SearchPage`, `SearchPageAddress.cfg` | 1 query, 2 searches, 1 detail | violated: the address of an entity ends on the home page |
| `monitor_backup` | `Monitor`, `MonitorBackup.cfg` | 3 troubles, a cooldown of 2 ticks | violated: a stale backup is never told |
| `page_after_takedown` | `PageImages`, `PageAfterTakedown.cfg` | 2 requests, 2 pages, 2 versions | violated: a page rendered during a takedown stays in storage |

`imports`, `service`, `upkeep`, `live` and `log_shared` check several components in
one run. The components share no variable: the variable `component` is chosen in
the initial state, only that component moves, and the others rest in one initial
state. The state space is the sum of the components', not their product, and each
property is checked exactly as it would be alone; the proofs use the same fact the
other way round (section 5). These runs set `CHECK_DEADLOCK FALSE` because bounded
components stop (the last import, the last day, the last search). No symmetry is
used.

What the properties of `imports` say: a run has one claim and a bounded number of
attempts (`ClaimsHold`) and follows its life cycle (`LifecycleRespected`) until a
reconcile touches it while it runs; a document is retracted only after two runs
were truthfully told it is gone, unless a refusal began after the control document
had answered (`RetractedAfterTwoGoneAnswers`), and one that drops off its meeting is
named, or its emptied meeting is, or the issue of the cap counts it, unless a run
ended early (`DropsAreReported`); no import sends text that holds a BSN to the index,
and a reindex only what the service stored in a call whose answer was lost
(`OnlyLeftoversEscapeTheScan`); a failed import does not lose stored text,
re-derivation aside (`StoredTextIsKept`); every night's windows are enqueued,
whatever the clocks do, unless the process was down or the skip rule applied
(`NoNightIsLost`); a limiter that knows of a block sends at most the one request that
was past its wait, and a SOAP call tells its breaker what it met and takes no error
for an answer, `GetLists` excepted (`ThrottlesAreHeeded`); an import of any of the
four suppliers that does not fail has committed all that the answers held (of an
iBabs window: all of it but the lists it was not told of), or an issue accounts for
what is missing, though one about a roster says only that there is something; a
motion is linked to its own meeting or to none, no word changes its speaker, and a
backfill plan that came to its end left no hole it could see
(`NothingLostSilently`).

`service`: one apply job, one executor, bounded requeues, settled is final; after
a takedown nobody overlapped the document is out of storage and log, every copy
left in the index is doomed and no page image is left (`NothingTakenDownIsLeft`),
and until then older copies stay hidden from lookups (`MarkerHidesOlderCopies`);
the list is the first pages of the search the address names, in any order of
answers, no spinner outlives its call, an entity page shows what was there while
it was asked for (of what has no more rows than a read asks for), the page that is read is there or on its way, and a jump lands
(`ScreensAreTrue`); pages repeat and skip nothing and the last one is really the
last (`PagesAreWhole`); buckets and slots are exact (`AdmissionIsExact`).

`upkeep`: a streak is earned over separate sweeps, a date is shifted once, a row is
taken or refused alone, and a request does what it named or nothing
(`SweepsAreSound`); a stamp means a copy of every database that was there
(`StampMeansBackup`); a trouble that lasts is told, status and coverage were true at
a time while they were read, but for what the check read as empty, a list of runs
read in peace is right, a figure is no older than its life (`ReportsAreTrue`).

The largest runs are `imports` and `service` (1.3 million states each) and `upkeep`
(1.1), between one and three and a half minutes.

Bounds. `MaxSeq = 3` gives a segment of one and of two records, a tail next to
both, an upsert–tombstone–upsert of one entity, and two overlapping flushes,
which is the shortest way to every disagreement two processes can have. Pages of
one record put the cursor inside a segment, at its end and in the tail. One run
or two jobs are enough for exclusion, since rows only meet in the apply slot and
in the order of claims; two workers are needed for every race; the requeue caps
are 1 (the code's value for ops jobs; 5 in `MAX_INTERRUPTED_REQUEUES`), which is
enough to reach the cap and pass it with a stale count. The bound on detached
calls of the queue (`FewTroubles`) is one: it takes one late writer to disturb a
row.

- *Source removals*: 2 meetings and 3 documents, so a document can move, a meeting
  can lose all, and the cap of 1 be exceeded; 2 ticks with an age and an expiry of
  1 put a second sighting too early, in time and too late; 2 changes at the
  supplier are the fewest that let it go back on an answer. Three initial records
  (`SomeLists`) stand for all: everything on one meeting, shared, or doubled.
- *Materialize*: 3 attempts as in the code and 3 imports: one that leaves something
  half done, one that meets it, one that meets what the second left.
- *Scheduler*: 3 days with the change on the second; the process is late by at
  most an hour; a limit of 0 active runs, the default.
- *Breaker*: 2 processes; cooldowns of 1 and 2 ticks tell the base from the
  maximum; 2 callers each, one waiting and one under way.
- *IbabsClient*: 3 attempts over the network and 2 after a throttle, so each budget
  runs out while the other has some left.
- *MotionLinks*: 3 meetings, two of them alike in name or day; a horizon of 5 days
  has a date in the window, one out of it and one that is implausible. *Transcript*:
  segments of 3 seconds and a gap of 1, so a cue joins its segment, is too late for
  it, or finds it long enough.
- *The imports of one supplier*: a window of 3 days. iBabs reads chunks of 2, so
  one chunk can be halved and one cannot; documents hang on two meetings and an
  entry; one motion, one or two register entries under a limit of 1,
  so a cap is hit or just not hit. Notubiz gets pages of one event in one part of
  the window, an assembly with a meeting under it, one recording, one item that is
  not public, and at most two issues (`FewTroubles`, a state constraint): two are
  what it takes for one failure to meet another, and more only repeat. The sites
  get parts of 2 days and a roster of two members, so one can be emitted before the
  roster breaks off. Batches of 2 and pools of 2, so a request is answered while
  another worker has put a row in the buffer.
- *Backfill*: three months in two years, a history that does not begin with a month,
  2 planners and 2 plans; 1 run that is daily or by hand (`ByHand`: the dates of a
  window that is both a chunk of the history and a year of motions, in both modes).
- *Takedown*: 3 points in time order two imports and the markers either way; 1
  reindex. *PageImages*: 2 versions of 1 and 2 pages and 2 requests, so a page of
  the longer one can outlive it.
- *SearchPage*: 1 query, 2 searches in flight besides "few", "short" and none, 2
  pages, 1 detail under way. *EntityDetail*: reads ask for 2 rows, and there are up to
  3 of the document and 1 of others in a list, so an answer has all rows, the newest
  and an older one, or not the newest.
- *PdfView*: 3 pages with 1 fetched ahead and 1 kept around, so a page is asked
  for, dropped and asked for again; 5 requests. *RecordingPlayer*: three terms, said
  never, once and twice.
- *SearchWindow*: up to 6 rows of 3 results in every order, batches of 2 to 3 and a
  budget of 5, so it is reached or not, and pages of 2, so the budget ends inside one.
  *Admission*: 2 clients, capacity 3, 10 ticks,
  which passes a full refill and a sweep.
- *IndexClient*: 3 rows of sizes 1, 3 and 5 against bodies of 3 and an index that
  takes 4: one fits with another, one fits alone, one does not. *Revalidation*: 2
  sweeps of 3 rows and a threshold of 2. *TimeRepair*: snapshot pages of 1 and 2
  versions, across both changes of the clocks. *StateBackup*: 2 days, uploads of 1
  part and in one request. *OpsRequests*: two catalogues, a token with 1 request left.
- *Monitor*: 3 ticks with a cooldown of 2 and a streak of 3 slow searches.
  *CoverageCheck*: 1 check. *StatusPage*: 2 runs. *Figures*: 4 moments, one longer
  than a life. *AdminPage*: 2 runs and 2 requests under way, which is what it takes
  for one to overtake the other.

Fairness. Stated in the modules (`Fairness` of `ExportLog`, `RunQueue`, `OpsJobs`;
`SyncFairness` of the consumer) and used by `MCLive` and `MCExportShared`, each
component's only while it is chosen. *Log*: every import, takedown and purge ends
in a flush, so selecting is weakly fair; uploading and registering are strongly
fair, because each retry may fail but not all of them for ever. *Consumer*: it
keeps asking (weak) and a request is answered if it is retried for ever (strong).
*Queues*: a worker container is restarted when it is down (compose restart policy)
and by every deploy (`Sigterm`); a call that is not killed every time ends or the
watchdog ends it. The deploy matters: a worker that crashes within two minutes of a
claim restarts before the claim is old enough for its own reconcile, and the row
stays running until some later restart. Ops jobs have no watchdog, so `FinishJob`
is assumed fair: a job whose await never settles holds the apply slot until a
deploy. The queues are checked for liveness with one worker. With two, an endless
series of stale writes and reconciles of live runs keeps a run from being settled,
and no fairness of the code rules that out. `imports`, `service` and `upkeep` check
safety only.

`interfered`. Two properties of the queues hold *until a reconcile touches
something that is being executed*. That is what a worker restarting alone does
to a sibling's claim older than two minutes; `worker.ts` says why it is taken to
be safe ("every deploy restarts all workers together"). The history variable
makes the premise explicit instead of assuming restarts happen together.

## 5. Proofs

A component's theorems are for its own specification and every value of its
constants. A composed run (`MCImports`, `MCService`, `MCUpkeep`) moves one component
and leaves the others at rest, so a step of it is a step of each component or leaves
it alone. That is proved too (`ServiceSpec => TakedownSpec`, `EachIsAPart` and so on),
and by it the properties the composed runs check follow for
the composition (`SweepsStaySound`, `ReportsStayTrue`, `ScreensTrue`, `NothingIsLeft`,
`ThrottlesHeeded`, …).

Each argument has the same shape: a type invariant, a strengthening that holds
initially and is kept by every action (one step per action), and the property as a
consequence of it. What the strengthenings add, and why the properties are not
inductive without:

**`ExportLogProofs`**
- One flushing process (`SingleProcess`, the premise of each theorem; `log_loss`
  shows that it cannot be dropped): registering a segment drops rows, and whether
  their records stay readable depends on what the flush holds and on the object of
  that name. `LogInv` adds that published numbers are exactly those before the tail,
  that a flush under way holds the head of the tail, that a key names one object, that
  a flush about to register has stored its own, and that the entity table is exact,
  which the refinement of `ChangeFeed` needs: `append()` deduplicates against the
  table, the feed against its own newest record.
- Any set of processes: `SharedInv` pairs records with numbers wherever they are (in
  the table, in a flush, in an object) and has keys say where a segment starts and
  ends. Two processes that store one key therefore store the same records.
- *Consumer*, of such a log: `OrderInv` adds to `SharedInv` that of two segments the
  one that starts later ends later, so that overlapping segments only repeat; the
  last line about an entity below a number is then its state at that number.
  `SyncInv` adds that what a request has listed stays stored, that its page is what
  is readable from its cursor on, and that an entity whose newest record lies behind
  the consumer's position is in the copy as it is in the source, unless a page jumped
  over a number. With one process a page jumps only when a segment was registered
  between the two selects of the request (`GapsAreRaces`).

**`ImportPartsProofs`**
- `Exclusive`: what an executor has read is what the row says, rows that are executed
  are running or failed, and `activeRuns` names only runs that are watched. Broken only
  by a reconcile of a live run, which is what `interfered` records.
- `CountsBounded`: the count in the row plus the attempts workers still hold do not
  pass the cap plus one for each other worker, since each may write from a count it
  read before.
- *Extractions* (`ImportRun` with each of its three extensions): unless the run has
  failed, every id the supplier named is dealt with (committed, withheld, in an issue)
  or held: still in the pool, in a thread's hand or in the rest of its task. A document
  that counts as `seen`, which nobody takes up again, is dealt with or in the hands of
  the thread that took it; a row that is not in the index is still to be sent, or named.
  For iBabs the parts a window is halved into go on covering it, and an entry that is
  reported takes what it had left along in its issue.
- *Motions*: what comes to the index comes with the rest of its day, and a day that is
  done is in an issue or has all its meetings in the index; so an entry that is placed
  is linked within its own meeting, and as an earlier import linked it. Of several
  candidates `find()` and `findAgendaItemId()` take the first or the last: that a finite
  set of places has one is all the proof needs.
- *Transcript*: the cues taken are shared out over the segments in order, each segment
  with one speaker; each chapter is written once, and while segments begin in order,
  those above a segment are the ones that have begun. That the ranks of `Chapters` and
  of `ParseTranscriptCues` leave none out is proved by the least rank that is missing.

**`ServiceProofs`**
- *Ops jobs*: every step but an insert keeps absent rows absent, settled rows settled
  and the kind of a row (`KeepsRows`), so active apply jobs come only from an insert,
  which looks. `ExecutorInv` has workers hold worker jobs and the agent a host job, on
  rows that exist; else the agent's late finish could settle a worker's job.
  `RequeuesBounded` counts as in the run queue.
- *Takedown*: no copy is dated after the newest import, and each store the takedown
  has dealt with stays so unless a writer overlapped it.
- *Page images*: an image is of a version that has this page; behind the takedown
  nothing is left unless a render or an import overlapped.
- *Entity page*: what is there now was there at some time since the request began, so
  what was gathered was; a read that is not full has all the rows, so its newest is the
  newest.
- *Admission*: a bucket's tokens plus the ticks since it was filled are those of a
  bucket that fills all the time and is never dropped. The slots in use are counted
  by a sum over clients, whose facts are proved by the least counterexample.
- *Search page*: calls carry the number of their search, of each kind one call at most
  still counts, and the list on the screen is what the calls that counted brought; what
  is stale is told by its number, whatever the order of the answers.
- *PDF view*: entries and requests that nobody aborted are of the address of now; an
  image may be asked for one page beyond the end at most, since the count of pages
  comes with an image.
- *Player*: of the jumps asked for the last is made or held until there is a timeline;
  the find bar's place is below its number of hits, which is a sum over segments.
- *Search window* (`PagesAreWhole`): what was collected is the order of first rows of the
  rows read so far (`IsOrder`): each result once, by the place of its first row. A batch
  extends it row by row, a page is a slice of it, and the pages read so far put together
  are its beginning. The invariant says so of every state of a scan, so how the ratio
  cuts the batches does not matter, and where the budget ends is the last row there is.
- *Types* (`ServiceIsTyped`): bounds that no component states for itself. On the search
  page the place asked for next is beyond all that is listed, one call of the latest
  search at a time asks for it, and none once it is the last page, also when the page
  has gone home meanwhile and shows nothing. Requests for pages of a PDF are numbered on
  from those there are; each hit of the player is in a segment.

**`ImportsProofs`**
- *Claims*, and *what an import loses* (`NothingLostSilently`): the invariants of
  `ImportPartsProofs`, carried over. The extractors share one set of variables, so the
  composition holds the invariant of whichever of them the run began with.
- *Materialize*: no text that holds a BSN goes on once it has been marked; what an
  import falls back on, what the service answered and what a record names is stored;
  of a document with a BSN, what is stored outside an import under way, and what a
  record names, is a leftover.
- *Breaker*: a limiter knows of each block it waits for, from its own throttles or the
  file, and one request at most is past its wait. *Client*: the two counters are what was met.
- *Source removals*: what a run plans stays planned; every live document no meeting
  lists waits in one of the places that lead to an issue (plan, suspects, the skipped
  meetings, a run that may still end early); a sighting that the database keeps was
  true, unless the supplier was blind.
- *Types* (`ImportsAreTyped`): the bounds that the constants put on counters and lists,
  for all components of the composition.
- *Scheduler*: of each two o'clock that has passed either it is dealt with, or the timer
  is still to go off for it, or its tick is under way; and `NextTick` never jumps over
  two of them, for either change of the clocks.
- *Backfill*: what a plan asks for stands in the table or still waits in its list, and
  what stands is never taken away; a window that is owed is on the list the sweep
  was made of. That the chunks of `dateChunks` cover a history
  rests on going back by months really going back (`MonthsGoBack`), which for the day
  the code lands on after a shorter month is not obvious.

**`UpkeepProofs`**
- *Backup*: days are ordered, and a run that has not failed leaves each database it
  found done, but the one it is at.
- *Monitor*: every check a tick has been through has raised what was wrong all along;
  a key is marked as told only after the webhook took it.
- *Figures*: what is remembered says when it was true and how long from then it may be
  shown, and each query is remembered once, of at most as many as there is room for.
- *Coverage check*: without warnings, what hangs on the items of the phase is listed,
  still to be asked, or behind an answer that was read as empty.
- *Status page*: a run that succeeds after a statement has read it finishes no earlier
  than the answer began, succeeded rows stay so, and counts of recent runs only grow.
- *Admin page*: a request that has the page to itself finds the list as long as when
  its limit was worked out, and a poll's timer is still set; `known` is set only when
  nothing is under way.
- *Ops requests*: a row is bound to the catalogue its author's process had; every later
  step leaves what the row is about or fills in what was left out.
- *Revalidation*: what is left of a batch when the sources that look down are taken
  out has too few rows of each to tell an outage, and a document that is in a batch
  once is recorded once a sweep.
- *Index client*: the bodies still to be sent cut the rest of the rows into pieces that
  follow each other; packing, halving and refusing keep the cut. `Pack` is a recursive
  function: that it exists, and that it cuts, is proved by the least counterexample.
- *Clock times*: an offset is one hour or two and changes once, so the second look at a
  record finds its instant if there is one; what the repair holds is what a page of the
  log said, and `overtaken` is exactly what was written behind its back.

Sums, ranks, gathered lists and recursive functions are the places where one would
argue by induction over data. The provers cannot instantiate the induction theorems, so
these lemmas take the least number, or the smallest set, for which the fact fails
(`LeastOf`, `NatLessThanWellFounded`) and show that it holds there after all.

What the proofs changed. Where one did not go through, the model was wrong or said
less than it seemed:

- `OpsDoWhatWasNamed` compared the catalogue a request was accepted with to the one
  the worker has *now*. That held for the two catalogues of the run and is false in
  general: a worker may refuse, and a later deployment bring the first catalogue
  back. The row now remembers the catalogue it was refused with, and the run's
  catalogues are two in which the difference shows.
- Going back by months ends only in a calendar whose months have days, and the years
  have to reach the last day asked for: `BackfillAssumption` says so now.
- `PagesAreTheResultsInOrder` asked every page but the last to be full. With pages of
  one result, which the run had, that is so; with two it is not: where the budget ends
  inside a page, the page is short, says there is more, and the next is empty. The
  property says now that a short page in the middle means that all the budget reaches
  has been shown, and the run has pages of two.
- `indexed` of an import was described as "the index took its latest row". A document
  that is emitted again stays in it until the new row is taken or refused: the index
  took a row of it since it was committed.
- That an import loses nothing needs ids of different kinds to be different, and neither
  to be the placeholders of the model: `ImportRunAssumption` says so now.
- The bound on a coverage check's warnings was one of the run's instance, not of the
  code; `CoverageTypeOK` asks for a number.
- The folds of the search window, the flat agenda of a meeting and the cues of a
  subtitle file were recursive. They are a recursive function, a set of places and ranks
  now, and mean the same: `imports` finds the same states as before.

Assumptions. Constants are assumed to be what the code makes them, by name, in the
module that declares them, and TLC evaluates every one. Those that say more than a
type: there is a worker (`QueueAssumption`, `OpsAssumption`); clients, the entities of
a log and a supplier's meetings are finitely many, and its lists are not its entries
(`AdmissionAssumption`, `SyncAssumption`, `CoverageAssumption`); there is a time after
the first (`FiguresAssumption`); the bound on throttles lets a cooldown reach its cap
(`BreakerAssumption`); every listed document
has a source (`RevalidationAssumption`); ids of different kinds are different, since an
id begins with its kind (`ImportRunAssumption`); whether a meeting is a sibling's is
told by its name, so meetings of one name agree in it (`LinksAssumption`); the
catalogues of the processes list the same sources (`OpsRequestsAssumption`); and the
calendar is one (`BackfillAssumption`).
The theorems of `ExportLogProofs` that need one flushing process say so themselves.

Only model-checked:

- liveness, since fairness and ENABLED are out of the prover's reach: `live`
  (`EventuallyPublished`, `EventuallySettled`) and the consumer's `CatchesUp`. Every other
  property that a passing run checks is a theorem.

## 6. Where the code and its documentation part

Found while modelling and shown by a violation run:

1. `log_loss` — `src/exports/log.ts:301`: flushes are serialised inside a process
   only. A shorter flush that registers last shrinks the segment row and hides a
   record whose pending row is gone.
2. `sync_gap` — `src/exports/log.ts:358`: the tail is selected after segments
   were listed and fetched; a flush in between makes the page skip records, and
   the cursor jumps past them.
3. `queue_fresh` — `src/ops/store.ts:578`: the requeue `UPDATE` tests only the id,
   so a claim made after the select is requeued.
4. `hidden_at_once` — `src/ops/delete_document.ts:55`: a marker carries none of the
   fields a search filters on, so it is not among the hits it should outrank; the
   document stays in search results until the delete task has been merged. Lookups
   by id do see it.
5. `address_opens` — `web/src/App.svelte:1276`: `/?view=<id>` has no filter, and a
   search without filters goes to the home page. The sitemap publishes these
   addresses.
6. `monitor_backup` — `scripts/monitor-production.sh:267`: the header of a function
   is missing, so its line runs inside the container check and reads an unset `$1`
   under `set -u`: the script ends there, before the backup check and before the
   webhook. `scripts/backup_state.ts:130` counts on the alert.
7. `page_after_takedown` — `web/server.ts:789`: a page rendered from a file that was
   read before a takedown is stored after it, and nothing ever clears it.

Seen, and not given a run of their own:


- Two imports of one window can be active, because `findActiveRun` and `createRun`
  are separate statements (`src/ingest.ts:632`; `deployment.md` says they are
  blocked); runs are requeued five times where `deployment.md` says two; the
  requeue cap is compared with a count read before the transaction
  (`AttemptsBounded` and `RequeuesBounded` state what still holds).
- A batch the index refuses holds up to `QUICKWIT_BATCH_SIZE` committed rows, and
  the issue names only the entity whose emit sent it (`src/ingest.ts:162`,
  `src/ibabs/extractor.ts:320`). `NothingLostSilently` asks for no more than that.
- Notubiz answers failures with status 200 and an error body
  (`src/notubiz/extractor.ts:47`). Events, assemblies, modules, items and media read
  such a body as an empty list, so the hole is silent, although
  `src/notubiz/assemblies.ts:15` has a failing lookup reported "so the hole is
  visible". The clients of GemeenteOplossingen, Parlaeus and Allmanak read a body that
  is no list the same way (`src/gemeenteoplossingen/client.ts:130`,
  `src/parlaeus/client.ts:164`, `src/allmanak/client.ts:110`). `NotubizLosesNothing`
  and `SiteLosesNothing` are about what the answers named. When a roster fails, or
  Parlaeus's list of agendas does, the issue has no entity and does not say what is
  missing (`src/parlaeus/extractor.ts:126`).
- Removals beyond the cap are only counted, and of a meeting that lost all its
  documents only the meeting is named (`src/ingest.ts:353`, `:360`), where the comment
  at `:320` says "every decision lands in the run's issues".
- The service stores a document's text before anything has scanned it. When its
  answer is lost, or cannot be acted on, the next import takes the text for a cache
  hit and does not scan it (`src/documents/process.ts:340`), and a reindex puts it
  into the index (`src/pipeline/reindex.ts:107`), although `process.ts:219` says of a
  quarantine that "the document is never indexed".
- A `motions_only` run of a Parlaeus or GemeenteOplossingen source is a full one; a
  `media_only` run fails.
- Workers of a `mapLimit` whose sibling has rejected go on emitting after the run
  has been marked failed (`src/util/map_limit.ts:20`).
- A cache hit is emitted without its text, because "the document was already
  indexed in a previous run" (`src/documents/process.ts:358`). When the import that
  stored the text died before its rows were flushed, that is not so, and the text
  stays out of the index until a reindex.
- A cache hit also rebuilds the entity with fewer fields than the first extraction
  set (`src/documents/process.ts:362`), so importing an unchanged document a second
  time appends a record; `src/exports/log.ts:54` and `API.md:682` say it does not.
- When Quickwit stops counting early, a scan that reaches that `num_hits` counts as
  exhausted (`web/search_api.ts:1300`): the page says there is no more and gives its
  count as exact. `NoMoreMeansAllShown` has the honest count as its premise.
  Results are deduplicated as the batches come in, so a copy of an earlier batch
  can stand for a newer one of a later batch.
- On the Monday after the autumn change the scheduler fires at 01:00 local time,
  because the offset is that of the moment the tick was computed, and again at
  02:00; `src/scheduler.ts:3` says "at a fixed wall-clock time".
- The last writer of the breaker's shared file wins even with a shorter block, and
  a caller that sleeps does not learn of a block that was lengthened meanwhile. The
  other limiters go on until they read the file, and when they cannot, for as long as
  they are not throttled themselves; `src/ibabs/rate_limit.ts:15` speaks of every
  request.
- A detail opened by `runSearch()` after its await can appear although the reader
  has moved on, and going home leaves the debounce timer running
  (`web/src/App.svelte`); `ResultsAreOfTheAddress` holds all the same.
- *Imports.* An import passes no `onOversized`, so a row the index refuses alone is
  named nowhere, though `src/quickwit/client.ts:352` says it is reported. A hard
  block on the iBabs download host is counted as a throttle
  (`src/ibabs/client.ts:734`); `GetLists` takes an error result as "no registries"
  (`:407`) and passes over lists without a name, so their entries are left out
  without an issue; `Confidential` is parsed and never read. On a shared iBabs site a day that is
  loaded on demand also indexes the meetings of sibling sources
  (`src/ibabs/extractor.ts:544`), which the pass over the window filters out, so a
  motion can be linked to a meeting that does not exist under this source. Of two
  meetings of one name and day only the last is found by name. Notubiz loads no day
  on demand, so importing a motion again in a window without its meeting drops the
  link, the case `src/ibabs/extractor.ts:528` guards against.
- *Takedown and repair.* A repair appended from a page copy can overwrite a newer
  import or revive a record that was taken down; one killed between append and
  projection is not projected by the next. `objectsDeleted` undercounts. A document
  listed twice in one batch is counted gone twice by one sweep
  (`src/ops/store.ts:1207`; `:1158` says a single miss is never enough).
- *Backfill.* The comment at `src/ops/store.ts:1375` has the list of failed windows
  hold what "no later attempt has completed". The query skips a window when any run of
  its dates succeeded (`:1416`), an earlier one and one of another mode included, so a
  succeeded `motions_only` run hides a failed full one; and it does not look at what
  failed by hand (`:1409`). `NoHoleIsLeft` leaves out both (`Owed`); an oldest chunk of 20 days or less
  is never asked for again; a plan of motions stops at the first active window and
  leaves the rest. A `rerun_source` job that is requeued after it has enqueued fails,
  or enqueues a second run when the first has ended.
- *Backup.* A database that is not there is skipped and the stamp written all the
  same (`StampMeansBackup` is about those that were found).
- *Reports.* A run counts from the time it was queued, so a supplier may be "down"
  because five of its runs wait; API.md says coverage is against the index, but it
  is against the export log; the check reads an error of Notubiz in a body that came
  (`src/coverage/check.ts:139`, `:172`, `:183`) and one of iBabs's `GetLists` (`:261`)
  as an empty list, without a warning, so it can call complete what it did not see
  (`CoverageIsTrue` leaves out exactly that); `monitor-production.ts` has no backup check, warns when
  the worker *is* running, and counts reindex runs as imports. A tick of the host
  agent of more than a minute, or an empty `ps`, makes it look stale.
- *Figures.* A copy read from disk counts as fresh for a whole life however old it
  is; a preview that is not there within 300 ms counts as absent for ten minutes.
- *Page images and the entity page.* Pages are stored by entity, not by version, so
  a document that changed keeps its old images; an image whose count is missing comes
  without it, and the viewer shows one page. The entity page asks for 8 rows in no
  order (`web/search_api.ts:1692`) though each import adds one, and for 20 of
  recordings and 3 for each attachment; beyond that it may show an older version, a
  document whose marker is not among them, or nothing of one that is there.
  `DetailIsTrue` says of those only that a live row is in the index. A storage failure while a transcript is read costs
  the whole page, though `web/search_api.ts:1868` says the recording is still
  returned.
- *Viewers.* An aborted request deletes the controller of the newer one for its page;
  when the page asked for first fails, the page count stays 0. "A new query starts at
  the first hit" (`MeetingRecordingPlayer.svelte:352`) only when the old position is
  out of range.
- *Admin page.* A late answer of a poll leaves an active run unpolled; a reload that
  ends while an older page is read lets that page be appended twice; pages by offset
  repeat a run when rows are queued on top; answers of a filter can replace those of
  a later one.
- `preferIndexedHit` is not transitive (`web/search_api.ts:1050`).

## 7. Not modelled

`components` in `PROJECT.json` gives the reason for each part. A large share of
the repository has no behaviour a state machine could get wrong: the source
catalogue (5,600 lines of data), type declarations, the normalisers and parsers
of four suppliers, projection, markup and styles of two pages, request shaping,
facets and highlighting, the HTML and XML the server writes. They stay out.

Stateful code that is left out, and why: the command-line runner of the queue,
which runs alone; the clients of the other suppliers and of storage, which appear
as answers and failures; suggestions, facets and the sitemap, which keep nothing;
`importOpenRunAgain` of the admin page, which is a request and a reload, both
modelled.
