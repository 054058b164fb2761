# SeaCommons in TLA+

SeaCommons collects distress reports, AIS tracks and other maritime signals on a
VM, computes drift for alerts, and shows a public Live feed through an edge
worker. This directory holds TLA+ modules for the parts of it where state
survives crashes, crosses a network or is shared by threads, the TLC
configurations that check them on small instances, and TLAPS proofs of the
properties that matter most for every size.

`PROJECT.json` ties the parts together: components, runs, mutants, the map from
definitions to source lines, findings, hazards and theorems. All paths below
are relative to `src/`; `core/` is `apps/api/core/`.

## 1. Inventory

| Part | State | Operations | What is hard |
|---|---|---|---|
| AIS track spool (`core/vessels/track_store.py`, `track_spool.py`) | SQLite table of pending fixes with a batch id; PostgreSQL tracks and batch receipts; in memory the throttle windows and a row counter | `on_position`, `claim`, the flush transaction, `acknowledge`, start | crash between commit and delete; lost commit answers; two processes on one file; capacity counter |
| Alert queue and worker (`core/jobs.py`, `worker.py`, `api/routes/alerts.py`) | rows of alert, drift and job; the lease of a job | the POST request, `claim`, `renew`, `complete`, `fail`, `retry`, `execute` | leases and takeover, crash between any two transactions, a late report, retries and their limit |
| Live room (`apps/edge/src/live.js`) | list of visible events, seen ids, last version per incident, head of the hash chain | `ingest`, `loadSnapshot`, `reset` | duplicated, reordered and late posts; removals; a bounded list with a time to live |
| Live edge publisher (`core/live_edge_publisher.py`) | SQLite outbox: pending, delivered | `collect`, `deliver`, the cycle, `prune` | restart from the outbox, retries with backoff overtaking each other, rows revised, withdrawn and reopened meanwhile |
| Media OCR queue (`core/intel/media_ocr_queue.py`) | pending, in-flight and deferred jobs of a thread pool | `submit`, `_run`, `shutdown` | tests outside the lock, dedup, two bounded backlogs, shutdown during submit |
| Intel store (`core/intel/store.py`) | bounded deque of events, dedup window, FIFO of durable writes, rows of `intel_events` | `add`, `update_metadata`, `enrich_location`, `append_thread_repost`, the persistence worker, `load_from_db` | copies taken outside the lock, ids replaced by the worker, eviction, restart, failing writes |
| Web live client (`apps/web/src/hooks/useLiveFeed.js`) | the list on the map, its cache in `localStorage`, timers and requests under way | VM poll, edge snapshot poll, socket, VM backup, reload | overlapping and late answers, outages answered with an empty list, hidden tabs, timers that multiply |
| Automatic drift requests (`core/intel/drift_service.py`, `drift_watchdog.py`, `drift_refresher.py`, `drift_ownership.py`) | drift status in the event's metadata (memory, queue, row), drift jobs, the slots of a semaphore, the incident's current drift | request by route, refresher and watchdog; a run's steps; startup reset | a run dying at any step, restarts, eviction, a position that moves during the run |
| Drift engine, pool and cache (`core/drift/`) | process pool, cache | run, cache | numerics; worker processes |
| Radio (`core/radio/runtime.py`, `kiwisdr.py`, `openwebrx.py`, `failover.py`) | entries of the receivers, list of started adapters, a connection and a reader thread each | the supervisor's pass, connect, disconnect, `stop` | reader threads behind the supervisor's back, connects that outlive the shutdown, cooldowns |
| Humanitarian incidents (`core/intel/humanitarian_incident.py`) and lifecycle rules (`core/intel/lifecycle.py`) | the incident row: lifecycle and last update | upsert by the subscriber threads, reconcile, retire, review | unordered threads, dropped failures, a pass that reads and writes later, two readings of one thread |
| Review ledger, cases (`core/review/`, `core/cases/`) | rows and a ledger | decide | order of decisions |
| Scheduler, process entry points, HTTP API, rate limit | timers, routes | start, stop | order of start and stop |
| AIS sources, monitors, extraction, fusion, sensors, ocean data, forensics, outbound policy, web pages | little of their own | I/O, text and numeric rules | mostly out of a model checker's reach |

How they interact: AIS sources call `on_position`; source monitors call the
intel store's `add` and the OCR queue's `submit`; OCR jobs and drift threads
come back with `update_metadata` and `enrich_location`; the store's rows are
what the publisher scans; the publisher posts to the room; browsers read the
room. Events in the store start subscriber threads that upsert the incident
row; the scheduler runs the incident job, the drift watchdog and the refresher;
a drift run writes its job, the event's metadata and the incident's pointer. The
alert queue is fed by the HTTP API and shares only the database with the rest.
The radio supervisor shares nothing but the shutdown.

The hazards, one by one and at their lines, are in `PROJECT.json` under
`hazards`, each with the properties that would catch it or the reason there is
none: the forty that matter most. Others are in sections 3 and 6.

## 2. Modules

| Module | Role |
|---|---|
| `TrackHistory` | abstract specification: fixes are accepted in order and stored in order, once each |
| `TrackSpool` | the durable AIS path; implements `TrackHistory` |
| `AlertJobs` | request, job queue and workers |
| `LiveRoom` | the Durable Object, alone with an arbitrary network |
| `LiveEdge` | the publisher and its outbox composed with an instance of `LiveRoom` |
| `MediaOcrQueue` | the OCR pool |
| `IntelStore` | events, dedup, durable writes and restart |
| `Incidents` | threads of posts, the lifecycle rules, the incident row and its writers |
| `DriftRequests` | one event's drift: requesters, runs, slots, jobs, metadata, restart |
| `LiveClient` | the public page's feed hook against two servers that fail |
| `RadioFailover` | receivers, their adapters and readers, the supervisor and `stop()` |
| `TrackSpoolProofs`, `AlertJobsProofs`, `LiveRoomProofs`, `MediaOcrQueueProofs`, `IncidentsProofs`, `RadioFailoverProofs` | theorems and proofs about the module of that name |
| `LiveEdgeProofs` | theorems about `LiveEdge` and, at its end, `LiveClient` |
| `IntelProofs` | theorems about `DriftRequests` and, in its second part, `IntelStore` |
| `MC...` | instances for TLC; the constants are in the `.cfg` files |

`LiveEdgeProofs` and `IntelProofs` extend two modules each, so `LiveClient` and
`IntelStore` name their specifications `ClientSpec` and `StoreSpec`, and so on.

A definition whose comment begins with "Mutant:" is a plausible bug of the
definition that follows it. It is not part of any specification; replacing the
correct definition by it must make TLC report the property that `mutants` in
`PROJECT.json` names.

### TrackSpool

A fix is its AUTOINCREMENT number. `pending`, `batchOf`, `receipts` and
`pgRows` are durable; `count`, `throttled`, `held` and `pc` belong to one
process, and `Crash` erases them at any step. `OnPosition` is `enqueue` plus
the throttle update that follows it; `OnPositionRejected` is every way the
spool refuses. `ReClaim` and `Claim` are the two branches of `claim`, each one
SQLite transaction. `ReadReceipt` and `Commit` are the two halves of the
PostgreSQL transaction, split because two processes may both read before either
commits; the receipt's primary key is `Commit`'s guard. `FlushError` is the
`except` of `_flush_spool`: it is possible at every step of a flush, after the
commit too (the answer was lost). The digest of a batch is its set of rows.
Sizes in bytes are one per row. The RAM buffer used without a spool, `prune` of
old rows and the queries are left out.

### AlertJobs

One action per transaction: the request's `CreateAlert`, `CreateDriftJob`,
`Enqueue`; the queue's `Claim`, `Renew`, `OperatorRetry`; the worker's
`Compute` (engine and `complete_drift_job`), `Sign`, `FailDrift`,
`UpdateAlertStatus`, `CheckDrift`, `Complete`, `Fail`. Each may raise where the
code can, and `Crash` may follow any of them. Time is reduced to two facts: a
backoff is over (`due`) and a lease has run out (`lease`). `LeaseExpires` may
strike while the owner executes the job: `keep_alive` has no handler, so one
exception of `renew` or `heartbeat` ends it for the rest of the job
(`core/worker.py:49-55`), or it comes late. `lapses` counts these per job, and
`MaxLapses` bounds them. `complete` may commit and raise; it stands in `run`'s
`try` (`worker.py:57-62`), so `fail` follows for a completed job. A call that
commits and raises elsewhere is the call followed by the failure of the next
one or by the end of the process. `claim` is one step, as on PostgreSQL (`FOR
UPDATE SKIP LOCKED`); so is `renew`.

### LiveRoom and LiveEdge

An event id is a hash of an incident and its material content, not of
`observed_at`; the model's id is the record of what is hashed. `chain` is the
sequence of accepted events and `visible` the positions of those in the list.
`Duplicate`, `Stale` and `Accept` are the three ends of `ingest`.
`LiveEdge` adds rows that are edited, hidden, published and grow old; the
outbox; and the publisher's cycle: `Collect` (with its two queries),
`TakeBatch` (`ready`), `Delivered`, `DeliveryFails`, `EndCycle` (with `prune`).
`Unanswered` says what became of a post without an answer: never processed,
processed, or still on the wire, where `LateArrival` finds it. `CollectCut` and
`PublisherStops` are exceptions and restarts in the middle of a cycle;
`CleanStart` is the documented cutover. `Edit` is any write to a row by the
other parts. The clock counts days. Heartbeat and source-health posts,
signatures and the WebSocket fan-out are left out; they share no state with the
events.

### MediaOcrQueue

`submit` is three steps, because it tests `_closed` and builds the executor
before it takes the lock; everything under the lock is one step.
`SubmitStuck` is the case in which shutdown removed the executor in between:
`_enqueue_locked` calls `_ensure_executor`, which waits for the non-reentrant
lock its own thread holds. The executor is external: a FIFO and its threads;
`orphans` is the FIFO of the one that was shut down, whose futures may still be
taken until `cancel_futures` gets to them.

### IntelStore

The events are those of the X collectors, whose posts have a url of their own and
a tweet id. A report is a post and the spelling of its source it was collected
under (`alarm_phone` and `Alarm Phone` both occur, `core/intel/store.py:1403`);
posts are numbered in the order of their timestamps. `add` compares url and
normalised source (`Collected`), while the content hash (`TextKey`) and the row's
look-up (`RowsOf`) compare the source exactly; the other key, `x:<tweet id>`
(`IdKey`), does not contain it. `Remember` enters both keys, in either order
because they come from a Python set, and drops the oldest beyond the window.

An object number stands for one `IntelEvent`. `eid` is its id, which the
persistence worker replaces when it finds the report's row (`PersistMerge`,
`PersistRepoint`). Metadata is a set of facts, one per key; the verified replies
are the one list-valued key, so a merge takes either the row's or the event's.
Threads go through `Copy` (taken after the lock is released) and `Put`
(`queue.put`), which is where two updates can change order. `BroadcastRaises` is
the unguarded `_fire_broadcast`, which in `add` comes before `_persist`: the event
is then in the deque and never written.

`StoreRestart` is the end of the process and the two queries of `load_from_db`:
rows after a cutoff (any, since time is not modelled), the newest `MaxEvents`, and
the newest `SeedLimit` of Alarm Phone's. `Load` enters one of them: a loaded row
unless one of its keys is known, only the keys of the others. Both processes that
have a store call it before they start collectors (`api/main.py:61`,
`intel_worker_main.py:42`), so threads wait for it. `forgotten` is a history
variable: the posts whose key left the window or was not read back. With the
code's sizes a restart may itself push keys of the oldest loaded events out,
since 600 loaded rows and 500 seeded ones have 2200 keys for a window of 2000.

Abstractions: one process, url-dedup types only (no machine episodes with
deterministic ids), verified replies but not plain reposts, one location of best
quality, no retention stamps, no subscribers.

### Incidents

A thread is the founding report and its self-replies; a text is the outcome the
classifiers read in it. `LatestOwnReplyOutcome`, `IsDirectlyConcluded`,
`IsWithinLiveWindow` and `DistressLifecycle` are the rules of `lifecycle.py`.
`AppendThreadRepost` starts a subscriber thread, which computes the lifecycle
(`ThreadCompute`), writes it later (`ThreadWrite`) or fails and is dropped
(`ThreadFail`). The scheduler's job is `PassBegin` (which reads the open rows),
one `PassCompute` and one `PassWrite` per row, and `PassRetire`; `PassFail` is
its exception. `ApplyReview` is an approved review. Replies may carry any time
up to now, since a source's timestamps are not those of collection.

### DriftRequests

One event, which may be evicted from the deque (`resident`). `Route`,
`Refresher` and `Watchdog` are the three callers of `schedule_intel_drift`; a
run goes through `RunCreate`, `RunComplete`, `RunSync` and `RunRecord`.
`RunRaises` is an exception anywhere in the `try` that `drift_service.py:338`
closes, also after the job was completed and the pointer set; `RunFail` is the
handler's `fail_drift_job`, which does not look at the job's status, and
`undone` remembers the runs that failed a job they had completed. `RunDies` is
an exception outside the `try` or in the handler. `SlotLeaks` is
`update_metadata` raising between the slot and the `try`
(`drift_service.py:400-409`): no thread runs, and nobody gives the slot back.
`StartFails` is the `except` that does. Metadata exists in memory, in queued
writes and in the row; a write to an evicted event is a no-op, as in
`update_metadata`. `LocationEnriched` is the OCR result that moves the event and
marks the drift superseded. Time is the age of a request in units of the
watchdog's two limits, and a job is stale or not. `Restart` is the end of the
process with `reset_stale_computing_jobs` and the status reset that follows it.
The rate limit of the route and the choice of the object type are left out.

### LiveClient

`edgePrimary` chooses the build. A list is the server it came from and its
revision. Requests are slots: two polls of the edge may overlap, one begun by
the timer and one by the socket. `OracleAnswers` is the front's answer with status
200: the VM's list, an older copy its CDN kept (`oldest` bounds how old,
`CopiesExpire`), or in an outage the empty compatibility list.
`ShowAndStore` is a list shown and stored, where `setItem` may throw
(`refused`); the edge's snapshots are stored under another key, which the page
never reads (`ShowAndStoreAside`). `Reload` keeps only what `localStorage` holds,
if it can be read and is not past the 24 hours or the expiry that
`loadCachedEvents` tests (`Loaded`).

### RadioFailover

`Init` is every outcome of `_start_managed`. A pass of the supervisor is
`PassBegin`, one of `CheckHealthy`, `CheckStale` and `CheckDown` per active
receiver, the steps of a reconnect (`Restart...`), and the steps of a promotion
(`Promotion...`) for channels that are short. Connects are split in three
(begun, open, complete) because `stop()`, the peer and a reader thread may act
in between: `Completes` sets the connected flag even when the reader has cleared
it. `StopAdapter` may leave a reader behind that is storing an observation;
`LateReader` is its return. `TakeList` is the end of `stop()`'s join, which times
out only while the supervisor is inside a call of an adapter. The mode without
failover, `status()`, the decoder workers and burst segmentation are left out.

## 3. Runs

Every run ends within about two minutes on two workers.

| Run | Question | Bounds and why they are enough |
|---|---|---|
| `spool_two_processes` | exactly once, in order, receipts match, throttle backed; refinement of `TrackHistory` | 2 processes, 3 fixes, batches of 2, capacity 2, 2 crashes: a full batch and a partial one, a full spool, both processes inside one transaction |
| `spool_live` | exact capacity counter; every accepted fix is stored in the end | the documented single process, 3 fixes, 2 crashes |
| `alert_jobs` | no more executors than lapsed leases explain, completed means done, who may reopen a completed job, every job settles | 1 job, 3 workers, 2 attempts, 2 leases lapsed under a live worker, 2 crashes, 1 operator retry, a lost answer to any `complete` (832 000 states): a worker that lost its lease, its successor that loses it too, and the third. Jobs share only the workers; `MCAlertJobsTwo.cfg` has two of them |
| `live_room` | no id twice, no resurrection, the latest is visible, eviction only when full | 3 incidents for a list of 2, one incident with two versions and a removal, 3 instants, 1 reset |
| `live_edge` | acknowledged means processed, removals are justified, a wanted version reaches the room past a spike | a distress row and a spike row competing for a scan limit of 1, 1 edit, 1 fault, 1 clean start (371 000 states). Two rows that compete for the second query are in `MCLiveEdgeCrowded.cfg` |
| `live_edge_stale` | a stale version never replaces a newer one: violated | 1 row with 2 contents, 2 edits, 1 fault |
| `ocr_queue` | dedup, books, termination | 5 jobs against 2 + 2 places, 2 submitters, 1 pool thread (the default of `MEDIA_OCR_WORKERS`), shutdown at any time |
| `intel_store` | one row per report, no second marker of a post, recorded in the end, waiters released | an Alarm Phone post under two spellings and a later post of another source, for a deque of 1, a window of 3 keys and 1 seeded row; 2 threads, 3 calls, 1 restart with any cutoff, 1 failing write, broadcast or query (313 000 states): keys are pushed out, rows fall under the cutoff, out of the limit and among the seeded |
| `incidents` | resolved only on evidence, the two readings agree, the public timer never goes back, a conclusion reaches the row, silence retires it | 1 incident with 2 posts, 3 ticks for a window of 1, 1 review, 1 failed pass (90 000 states): both orders of two threads, each of them late, lost or overlapping the pass. Rows do not share state, so one incident is enough |
| `drift_requests` | slots are given back, completed is backed by a completed job, an open incident gets its drift | 2 runs, 2 slots, 1 move, 1 fault or restart at any step (1 075 000 states): a run overlapping another, one dying and one taking over, a slot leaked and one left |
| `live_client` | the map converges, only a reload without a usable stored list empties it, one chain of polls is left | both builds, 2 overlapping polls, 1 revision, 2 outages, 1 reload, `setItem` and the stored list failing at will (867 000 states): one revision is enough for an older copy and for a refused list |
| `radio_failover` | no connection forgotten, no more than the replicas, channels recover, `stop()` completes | 3 receivers on one channel and 1 on another, 1 replica, 2 faults (169 000 states): the replacement of a failed receiver may fail too, and a channel may have every candidate in cooldown |

`live_edge_stale` expects a violation, because the code does not do what the
repository says: a first version waits in backoff, the second is delivered, and
the retry of the first replaces it. Both carry the row's timestamp as
`observed_at`, so the room takes neither for stale.
`docs/REALTIME_ARCHITECTURE.md:42` says a stale version cannot.

### Other disagreements with the repository's documents

These have a configuration that shows the counterexample, which is not one of
the runs above:

* `MCLiveEdgeReopened.cfg`: a report retired after 24 hours and reopened by a
  repost is active on the VM's feed and stale at the room, because the tombstone
  has the same `observed_at` (`core/live_edge_publisher.py:431`). Lines 239-242
  say the two cannot differ.
* `MCIntelStoreReply.cfg`: `update_metadata` copies all metadata outside the lock
  (`core/intel/store.py:1019`); the copy is queued behind a reply that was
  committed and broadcast, and removes it from the row. `append_thread_repost`
  commits first so that this cannot happen (`core/intel/store.py:1258-1260`).
* `MCIncidentsReopened.cfg`: the reconciler looks at open rows only, so when the
  thread of a later reply that reports continuing danger is dropped, or writes
  before an older one, the row stays resolved. `docs/updates.md:449,452` says
  that later evidence revises it.
* `MCDriftRefresh.cfg`: the run the refresher started fails; the event does not
  say completed any more, so the refresher skips it
  (`core/intel/drift_refresher.py:103`), and the watchdog skips it because the
  old drift is current. Line 7 says the estimate "keeps tracking the conditions".
* `MCRadioShutdown.cfg`: the reconnect path (`core/radio/runtime.py:239-258`) does
  not look at the stop event, so a receiver that `stop()` closed during the
  reconnect is connected again and stays so. The promotion path tests it, "Do
  not leak this late socket into exit" (`runtime.py:343-344`).

Four configurations take further bounds than the runs, and pass:

* `MCAlertJobsTwo.cfg`: two jobs that compete for two workers (654 000 states), and
  `AttemptsExplained` besides.
* `MCDriftRequestsFaults.cfg`: two faults and no OCR move (707 000 states): both
  slots leaked, a leak and a dying run, a raise and a restart.
* `MCLiveEdgeCrowded.cfg`: two reports and a spike for a scan limit of 1, so that
  the limit of the second query binds (291 000 states).
* `MCIntelStoreRestarts.cfg`: one thread, two restarts, a deque of 2 and a window
  of 4: two rows of one post are read back together, and the second is skipped.

Met while modelling, without a configuration of their own:

* `fail()` tests neither owner nor status (`core/jobs.py:50`): a worker that lost
  its lease, or one whose `complete` committed and raised, puts a completed job
  back to `retry`, or makes it dead. `retry` says "Only failed jobs can be
  retried". `CompletedIsFinal` says that nothing else reopens a job.
* A run whose report raises after `complete_drift_job` fails the completed job
  (`core/intel/drift_service.py:338`), with its result still in the row and
  `current_drift_id` naming it; the watchdog then takes the incident for one
  without a drift. A slot lost at `drift_service.py:402` is gone until a restart.
* A post collected under two spellings of its source has a row for each, once its
  key was forgotten: `_persist_sync` compares the source exactly
  (`core/intel/store.py:824`), the in-memory test does not (420).
* `claim` does not look at `max_attempts`, so a job whose execution kills the
  worker is claimed once per crash without limit; `docs/PRODUCTION_RUNBOOK.md:46`
  speaks of dead jobs "rather than an automatic infinite retry".
  `AttemptsExplainedHolds` proves the bound that does hold.
* A row that returns to a content already delivered has the id of that delivery,
  and `enqueue` refuses it (`core/live_edge_publisher.py:131`); the edge keeps
  the content in between until `prune`. `docs/REALTIME_ARCHITECTURE.md:37-38`
  says only the latest version remains visible.
* For the same reason a second withdrawal of a row, whose removal has the id of
  the first (`core/live_edge_publisher.py:474`), is not sent.
* `submit` can deadlock with itself at shutdown (`SubmitStuck`), and a submit
  that passed the unlocked test builds a new pool in a closed queue
  (`core/intel/media_ocr_queue.py:61`). Both need the shutdown hook to run at
  that moment.
* The VM backup of the edge build applies the front's empty compatibility answer
  (`useLiveFeed.js:296-316`, against the comment at 271-272); this is why
  `LastGoodKept` is stated for the default build. A late backup answer also
  covers a recovered edge until the next poll.
* An incident's `current_drift_id` is cleared when the next run ends, not when
  the incident is resolved (`core/intel/drift_ownership.py:26-28` says
  "outright").

`CHECK_DEADLOCK FALSE` is set where the bounded inputs come to an end (alerts
settled, calls used up, runs exhausted, radio stopped). The spool, the room, the
edge, the incidents and the client are checked for deadlock.

## 4. Fairness

* Spool: a dead process is restarted by its supervisor, and the flush loop
  catches every exception and goes on. `FlushError` may strike at every step, so
  each flush step has strong fairness: the databases do not fail for ever.
* Alerts: weak fairness of a worker's loop and of restart; clocks advance, so
  backoffs end and unrenewed leases expire. The outcome of each call stays a
  free choice, so `JobSettles` holds even when every attempt fails.
* Edge: weak fairness of the publisher's cycle and of backoffs; faults are
  finitely many (`MaxFaults`), and no fairness is asked of edits, late posts or
  the clock.
* OCR: threads are scheduled and a job returns (its subprocesses have
  timeouts). Starting a submit or a shutdown is not forced.
* Intel store: the persistence worker and threads inside a call are scheduled.
* Incidents: weak fairness of the scheduler's job and of each subscriber thread,
  which may end by failing. Posts, reviews and the clock are not forced.
* Drift: the persistence worker, the steps of a run, the watchdog's and the
  refresher's timers and the clock. Nobody is forced to call the route, and a
  run may still fail or die at every step (`MaxFaults`). `Recovered` gives up when
  the model's runs are used up or every slot has leaked (`Exhausted`).
* Client: requests are answered or fail (the fetch has a timeout), timers fire,
  the servers recover, copies of the CDN expire and the tab becomes visible
  again. The VM poll has strong fairness: hiding the tab and showing it again
  disables and enables its timer.
* Radio: the supervisor's calls return because each connect has a timeout, the
  join of `stop()` is bounded, cooldowns and silences elapse and a late reader
  comes back. Frames are not forced to come and `stop()` need not be called.

## 5. Proofs

All constants are arbitrary under the `ASSUME` of each module, which says only
that the bounds are naturals, the limits and the room's time to live positive,
the null value not a member of the sets, the set of the spool's processes finite
and the posts naturals; `QuietEdgeIsCurrent` assumes that the rows are finitely
many. Every safety invariant and every action property that a run checks is
proved below.

**TrackSpool.** `TypeCorrect`, `ExactlyOnceHolds`, `ReceiptsMatchHolds` (with
`OneFrozenBatch`), `StoredInOrderHolds`, `ThrottleBackedHolds`, and
`Refinement` of `TrackHistory`. None of these is inductive. The invariant adds
that the spool is a suffix of the accepted fixes and the frozen batch a prefix
of the spool (`SpoolInv`); that a receipt, or the batch a live flush holds,
names exactly the rows that carry its id (`StoreInv`, `HeldInv`); and that a fix
is stored if and only if its batch has a receipt. From the last, a step of
`Commit` stores a set closed towards older fixes, which is `TrackHistory`'s
`Store`. `OldestIsPrefix` is the one fact about `claim`'s `ORDER BY seq LIMIT`.
`CounterExactHolds` has an invariant of its own, `CounterInv`: the table respects
the capacity also while the process is down, so that a restart counts a table
within the limit.

**AlertJobs.** `TypeCorrect`, `JobBackedHolds`, `NoJobIsStranded`,
`ExclusiveExecutionHolds`, `CompletedMeansDoneHolds`, `CompletedIsFinalHolds`,
`AttemptsExplainedHolds`, all of them with leases that lapse under live workers
and completions whose answer is lost. `RowsInv` says that the columns of a job
agree with its status and which rows a request has written. `NotStranded` is the
safety half of `JobSettles`: an unfinished job can be claimed now, when its lease
runs out or when its backoff ends. A job none of whose leases lapsed is owned by
the worker that executes it, under a valid lease or completed by it (`OwnerInv`),
and its rows are what each call needs (`StageInv`): when `complete` committed and
raised, the rows were settled, and the job that runs again settles them again
before it completes. `Bounded` counts for the others: a job has one executor more
than lapses only while one of them holds its lease or when it is completed, so a
claim, which needs neither, never adds one too many; and an attempt beyond the
limit follows a crash or a lapse.

**LiveRoom.** `TypeCorrect`, `AcceptedOnceHolds`, `NoResurrectionHolds`,
`VisibleIsLatestHolds`. `ingest` compares a message with one stored record per
incident; `HistoryInv` says that this record dominates every accepted version of
the incident, which makes that comparison enough. `EvictedOnlyWhenFullHolds`:
what `accept` drops from the end of the list has `MaxEvents` newer events of
other incidents in front of it, and the chain only grows.

**LiveEdge.** `TypeCorrect`, `AckMeansProcessedHolds`, `RemovalJustifiedHolds`,
`RoomRefinement` (`Spec => Room!Spec`) and `RoomInvariantsHold`: every room
property proved for an arbitrary network holds with the real publisher in front
of it. The invariant carries `LiveRoomProofs`' own invariant through each step
of the publisher. `RemovalJustified` speaks of the chain; `Justified` says the
same of every removal wherever it is, in the outbox, in a post that may arrive
late, or in the room, and holds until a clean start. `NothingIsDropped`: a
payload leaves the outbox only because the room has processed its id, or at a
clean start. `QuietEdgeIsCurrent` is the safety half of `Reaches`: when the
outbox is empty and a scan, cut at `ScanLimit` as the code's is, would add nothing,
the room has processed the present version of every wanted row that this scan
read or that cannot be crowded out of it. `NeverCrowdedOut` are the rows with
fewer than `ScanLimit` other non-spike rows as new; that every scan reads them
(`ScansReadThem`) is a count of the two queries' results. Of a row that is crowded
out nothing is promised, by the model or by the code: `collect` takes the newest
200 (`core/live_edge_publisher.py:518,526`).

**LiveClient.** `ClientTypeCorrect`, `LastGoodKeptHolds`, `ChainNeverDies`. In
the default build (`DefaultBuild`) no poll, timer or socket of the edge
transport is ever alive, and the stored list is the one shown unless storage
refused it; so only a list that a server or the CDN answered can replace it, and
a reload brings it back unless it was refused or has become unusable. That the
map never shows an older list than before does not hold of the code, since the
CDN may answer with an older copy, and is not claimed. `ChainNeverDies` is the
safety half of `OneChain`, for any number of overlapping polls: in the edge
build a snapshot request is under way or a timer is armed, because a call clears
a timer only when it has taken over the chain itself. That the chains also
become one again is left to TLC.

**MediaOcrQueue.** `TypeCorrect`, `JobRunsOnce` (`OneRunPerJob`),
`BooksAreExact` (`BooksBalance`). `Places` says that the FIFO and the second
backlog repeat nothing and share nothing with each other or the workers, and
that the two books are what they should be. `Open` is needed besides: until a
shutdown a thread past `_ensure_executor` has an executor, so no thread stops
halfway with the lock (`LockFreeUntilShutdown`): the deadlock of `SubmitStuck`
needs a shutdown. The claims on the books end with the shutdown, which clears
them while jobs run. `DeferredIsNotStranded` is the safety half of `Finishes`:
an upload waits in the second backlog only while every slot of the pool is
taken, so that the end of a job refills it.

**Incidents.** `TypeCorrect`, `ResolvedHasEvidenceHolds`, `RulesAgreeHolds`,
`UpdatedNeverGoesBackHolds`. The second speaks of what threads and the pass hold
and have not written yet, too; to be inductive it needs only that every thread
was started by a post of its event, and posts are never taken back. `RulesAgree`
is a fact about the rules, for threads of any length. The fourth follows from
`SyncRow`'s maximum and holds for threads in any order. `TimerIsAPostHolds`: the
public timer of a row is the time of a post of its thread. `NoEarlyRetirement`
is the safety half of `SilenceRetires`: no incident is archived, or about to be,
before a whole window has passed since its founding report (`TimerInv`).

**DriftRequests.** `TypeCorrect`, `SlotsBalanceHolds`, `CompletedIsBackedHolds`,
`RequestIsDatedHolds`. `SlotsBalance` counts a slot as free, held by a live run
or leaked. `PhaseJob` relates the phase of a run to its job; with `JobsKept`
(only the run itself takes its completed job back, over restarts too) it shows
that every copy of the metadata in memory, in the queue and in the row, and the
incident's pointer, name a job that is completed or that its run undid.
`RequestIsDated` is the safety half of `Recovered`: metadata that says a drift
is computed or failed carries the date of a request that was launched, so the
watchdog's wait ends. It needs that the event in memory carries a date while a
run of its is alive (`DatedInv`).

**IntelStore.** `StoreTypeCorrect`, `OneRowPerItemHolds`, `WaiterHasItsWrite`,
`EventHasItsWriteHolds`, `OneMarkerPerPostHolds`, for any posts, spellings,
window, limits and cutoffs. `Live` are the objects that can still be shown or
written: in the deque, in a call, in the queue, read by `load_from_db`, or between
the two halves of a merge. `Tracked` says that an object's id always names an
object of the same report, also while the persistence worker replaces it outside
the lock, and that a merge has found its row; a second row for a report would
need an insert past that row. `WaiterHasItsWrite` is the safety half of
`WaiterReleased`: a caller that waits for a durable write has exactly one write
in the queue, so the worker wakes everyone it should and nobody twice.
`EventHasItsWrite` is the safety half of `Recorded`: as long as no transaction and
no broadcast failed, an event shown from the deque has a row, or its write is with
a thread, in the queue or with the worker. It needs that a merge is always of the
write at the head of the queue (`MergesHead`). `OneMarkerPerPost` needs more
(`Marked`): all live objects of a post that is not forgotten carry one id, under
every spelling, it has one row at most, and its key is in the window or in what
`load_from_db` has still to enter. A key leaves the window only into `forgotten`
(`RememberFacts`, `Keeps`), and a row that a restart does not read back does too
(`ReadFacts`), so no assumption on the window is needed; `Starting` says that
nobody adds a post before `load_from_db` is through.

**RadioFailover.** `TypeCorrect`, `NoOrphanHolds`, `ListIsExact`,
`ConnectionsBoundedHolds`, `SurvivorsWereClosed`, for any receivers, channels
and replicas. `NoOrphan` needs that the list is the set of active receivers
until `stop()` takes it (`ListExact`), that what a pass has still to check can
be stopped (`TodoBacked`), that a receiver being promoted is a standby, and that
nothing is open where a connect is about to begin. The bound is proved for the
receivers that may have a connection (`Claims`): a promotion adds one only to a
channel that is short, and `PlannedBounded` shows that the plan starts with at
most the replicas. `SurvivorsWereClosed` bounds the race of the supervisor's
reconnect with `stop()`: a connection that outlives a complete shutdown is of a
receiver that `stop()` has closed, never of one it did not know.

Only model-checked: the liveness properties (`Delivered`, `JobSettles`,
`Reaches`, `Finishes`, `Recorded`, `WaiterReleased`, `ConclusionReachesRow`,
`SilenceRetires`, `Recovered`, `Converges`, `OneChain`, `ChannelsRecover`,
`StopCompletes`), which rest on fairness and are out of the prover's reach. The
safety half of nine of them is proved: of eight as said above, and of
`Delivered` by `ExactlyOnceHolds`, for an accepted fix that is not stored is
still in the spool.

## 6. Not modelled

Numerics (drift, probability, fusion scores), text and image heuristics, signal
processing, provider sockets, signing, page rendering: out of reach or without
state. They are most of the repository: of some 73 000 lines of implementation
the modules stand for a few thousand, the ones whose order, failures and
concurrency decide whether the data survives. Routes, schema, projection to
GeoJSON, monitors and pages are sequential code over the state modelled here,
and tests reach it. The reason for every part is in `PROJECT.json`.

Known hazards in code that is not modelled: with the spool off, `flush` puts the
RAM buffer's rows back after an error, so a lost commit answer stores them twice
and a crash loses them (`track_store.py:242`); `sync_from_db` overwrites metadata
in memory with a row read before a queued write reached the database
(`store.py:661`); an item evicted, forgotten and collected again is in the deque
under a new id when a reply rehydrates its row (`store.py:1236`); two first frames
at once make `decoder_runtime.py:232` start two workers for a shard, so frames of
a receiver lose their order; a pass of the incident reconciler writes over a
reviewer's decision (`humanitarian_incident.py:226`; both are actions of
`Incidents`, and no document says which should win).

Parts with state that are left: the RAM mode of the track store, the split
deployment's `sync_from_db`, machine episodes in the intel store, the drift
pool, the decoder workers, the review ledger, the field node's offline cache.

## 7. Plan

Done, in this order: `TrackSpool`, `AlertJobs`, `LiveRoom`, `LiveEdge`,
`MediaOcrQueue`, `IntelStore`, `Incidents`, `DriftRequests`, `LiveClient`,
`RadioFailover`; proofs of `TrackSpool`, `AlertJobs`, `LiveRoom`, `Incidents`,
`DriftRequests`, `RadioFailover`, `MediaOcrQueue`, `LiveEdge`, `LiveClient`,
`IntelStore`.

Next, theorems: the safety half of the liveness properties that have none yet,
`ConclusionReachesRow`, `Converges`, `ChannelsRecover` and `StopCompletes`.

Next, modules:

1. `IntelStore`: machine episodes with deterministic ids, plain reposts,
   `touch_source_observation`, `refresh_source_link`, and `sync_from_db` with the
   reader process of the split deployment.
2. `TrackBuffer`: the RAM mode of `track_store.py`, against `TrackHistory`.
3. `LiveClient` composed with `LiveRoom` instead of its revision counter.
4. The drift pool and the decoder workers.
