# A TLA+ development of AI-Boss

AI-Boss runs *modules* (agents, automations, workflows: Python classes with a
manifest) in pipelines, from a FastAPI server with a dashboard. The modules of
this directory model the parts of it whose state can go wrong in ways that
tests hardly reach: the live view of a run, the orchestrator, the circuit
breaker, the scheduler, saved pipelines, the run history, ingestion with the
artifacts it leaves, automatic backups, and what stands before a launch. TLC checks
each on small instances; TLAPS proves the safety properties of all of them for every
value of the constants.

Paths below are relative to `src/`.

## 1. The system

### Parts, state, operations

| Part | Source | State it keeps | Operations that change it |
|---|---|---|---|
| Run event bus | `webapp/events.py` | per stream an event list, a done flag, the time it was closed; an id counter; one condition variable. In memory only | `create` (sweeps first), `publish`, `close`; `stream()` is a generator per connection |
| Live view | `webapp/main.py` `/api/stream/{id}`, `static/app.js` `subscribeToStream` | per page the stream id, the last event id, `consecutiveErrors` | connect, message, error; the browser reconnects by itself |
| Orchestrator | `engine/orchestrator.py` | a run's position, failure flags, the shared `ExecutionContext`, futures in a pool of 16 | `run`, `_run_parallel_group`, the retry loops |
| Circuit breaker | `webapp/main.py` 288-371, `engine/state_store.py` 584-720 | `module_health`, `breaker_overrides`, `module_overrides` | the launch gate, recording of step ends, reset, threshold and enabled switches |
| Scheduler | `webapp/scheduler.py`, `schedules` table | rows with next run, enabled, last status; the pause flag (in memory) | the polling thread; create, duplicate, switch, delete, pause |
| Saved pipelines | `webapp/pipelines.py` and routes | `pipelines/*.yaml`, `_versions/<slug>/*`, `pipeline_tags`, slugs named by `schedules` | save, restore, branch, duplicate, clone, import, rename, delete, prune, tag |
| Run history | `engine/state_store.py` | `runs`, `steps`, `protected_runs`, `run_notes` | start, log, finish, prune, delete, protect, annotate, export, restore |
| Automatic backups | `webapp/auto_backup.py` | timer settings, `backups/*.json`, `protected_backups` | tick, run now, prune, purge, protect, delete |
| Ingestion, watcher | `webapp/ingestion.py`, `webapp/watcher.py` | artifact files and their conversions, `ingested_files`; the names the watcher has seen (in memory) | upload, URL and zip import, the watcher's scan |
| Artifacts | `webapp/main.py` artifact routes | `artifact_tags`, `artifact_notes`, keyed by file name | tag, note, rename, duplicate, delete, purge, and their bulk forms |
| Launch path | `webapp/main.py` 401-530, 1030-1070, `webapp/ratelimit.py`, `webapp/cache.py` | a window of launches per client and its limits; `rate_limit_override`; `result_cache` | rate limit, gate, cache lookup and store, thread per run; change of the limits |
| Notifications, audit log, presets, notes, memory | `engine/state_store.py` | one table each | single statements |
| Registry, scaffolding, linting, templates, health, reports, CLI | rest | none that outlives a call, or files of the user's | |

`PROJECT.json` lists all of them, with what is modelled and what is not.

### How they interact

A launch request passes the rate limiter, the result cache and the breaker's
gate, creates a stream on the bus and starts a thread (`_run_in_background`).
The thread calls `Orchestrator.run` with a callback; every event of the run goes
through `handle_event` to the bus, to the breaker (`_record_breaker_event`) and
to notifications. Step rows and the run's row go to the state store. When the
thread ends, the stream is closed. The page that launched the run reads the
stream over SSE. The scheduler's thread launches runs the same way. All threads
share one SQLite connection under one lock: a store method is atomic, a sequence
of them is not. Files (pipelines, artifacts, backups) are written with no lock.

### What is hard about it

* **Interleaving**: requests run in a thread pool, runs in threads of their own,
  the scheduler, the watcher and the backup timer in theirs; most handlers are
  several store calls or file operations long.
* **Abandoned work**: a module whose timeout passes is not stopped. It goes on
  in the pool, may emit, write the shared context, return or raise later, and keeps
  its worker.
* **Restarts**: the bus, the pause flag and all threads are lost, the tables and
  files stay; nothing is resumed.
* **Delivery**: an SSE response ends after 30 silent seconds, connections drop,
  the browser reconnects with the last id it has seen.
* **Partial failure**: what raises outside a try block ends a thread between two
  writes; a `write_text` is a truncation and a write.
* **Two places for one thing**: a file and the row keyed by its name, limits in
  memory and their override in a table, a snapshot file and its pin: each pair is
  changed in steps of its own.

The hazards, each at its line and with the properties aimed at it, are listed in
`PROJECT.json`.

### What makes each part correct

* Bus and live view: no wake-up is lost; a reader gets a gap-free piece of the
  log from where it asked; a reader that ends of itself has been told everything;
  a page is shown the log of one run, in order, and every watch ends.
* Orchestrator: history, events and verdict agree; every step is accounted for
  once; `stop_on_error` stops; what an abandoned call returns reaches no later step; a
  row shows what its step ran on, and no secret; the run ends although modules do not.
* Breaker: open exactly from the threshold to the reset; each trip announced once;
  nothing is launched that was barred throughout.
* Scheduler: one fire per occurrence; one-time means once; off means off after the
  tick at hand; the panel tells how the last attempt ended; what is due fires.
* Pipelines: files are found under their names; no definition is lost; a rename
  takes everything along.
* Run history: no step without its run or under another; finished runs keep their
  steps; purges spare live runs and the runs they knew to be protected.
* Ingestion: what is refused as known was once stored whole; no content is ingested
  twice; what was dropped into the folder is taken; a table comes out without blank
  and repeated rows and with everything else, in its order.
* Artifacts: tags and notes stay with their file through renames and copies; no file
  is written over.
* Backups: a restorable snapshot remains; pinned ones survive; due ones are made.
* Launch: the limiter is the sliding window it says it is, with the limits on record;
  a replayed result is a recent success of the same module on the same inputs.

## 2. The modules and the code

| Module | Lines | Models | Proofs | TLC |
|---|---|---|---|---|
| `RunFeed` | 63 | abstract: what a person watching a run is promised | (refinement: `RunEventBus_proofs`) | refined by `EventStream` |
| `RunEventBus` | 241 | `events.py` | `RunEventBus_proofs` | through `EventStream` |
| `EventStream` | 257 | the SSE endpoint, the worker thread, `subscribeToStream`; EXTENDS `RunEventBus` | `RunEventBus_proofs` | `MCEventStream` |
| `Orchestrator` | 551 | one call of `Orchestrator.run` | `Orchestrator_proofs` | `MCOrchestrator` |
| `CircuitBreaker` | 296 | gate, recording, tables of the breaker | `CircuitBreaker_proofs` | `MCCircuitBreaker` |
| `Scheduler` | 338 | the polling thread and the requests beside it | `Scheduler_proofs` | `MCScheduler` |
| `PipelineStore` | 343 | pipeline files, versions, tags, schedules' targets | `PipelineStore_proofs` | `MCPipelineStore` |
| `RunHistory` | 267 | runs, steps, pins, snapshots | `Retention_proofs` | `MCRunHistory` |
| `Tables` | 70 | what an uploaded table is made into before it is stored | `Artifacts_proofs` | through `Artifacts` |
| `Ingestion` | 332 | uploads, imports and the watched folder; EXTENDS `Tables` | `Artifacts_proofs` | through `Artifacts` |
| `Artifacts` | 358 | the artifact routes with tags and notes; EXTENDS `Ingestion` | `Artifacts_proofs` | `MCArtifacts` |
| `AutoBackup` | 342 | snapshot files: timer, requests, pruning, pins | `Retention_proofs` | `MCAutoBackup` |
| `Launch` | 287 | rate limiter, gate, result cache, the limits' override | `Launch_proofs` | `MCLaunch` |

Throughout: a store method holds the store's lock, so it is one action; what lies
between two store calls, two file operations or two looks at shared state is a
place where others come in. Variables marked *history* in a module are not in the
code: they record what happened so that a property can speak of it, and no guard
reads them. Operators marked *Seeded fault* are not in the code either: each is
the form a plausible bug would give to the definition below it, and the run that
checks a property must find that property violated when the fault is put in.

**RunEventBus.** `known` is the keys of `_events` and `_done`, `log` the event
lists, `expired` the streams whose `_closed_at` is beyond the retention time (the
clock is the action `RetentionPasses`; `create` sweeps). A reader of `stream()` is
a little process: `Check` is the loop body under the lock, `Yield` and `Timeout`
are what it does outside it. `Condition.wait` gives up before it takes the lock
again, so an event may still arrive in between (`Timeout` leaves a reader in a
state of its own). `log` stays as history when a stream is swept.

**EventStream** adds the thread behind each stream (`worker`: it publishes steps,
a closing event, and closes the stream in its finally clause, with or without the
closing event) and the pages. A page's `out` is what its generator has yielded and
it has not read. `FromIndex` is the endpoint's treatment of Last-Event-ID. A
response that ends, a lost connection and a dead server are one thing to an
EventSource: an error, and a reconnection. A module that was abandoned may publish
at any time, also after the close.

**RunFeed** has no connections, indices, generators or retries: a run keeps a log, a
view is extended by the next event of it, a watch is over at the closing event or
when the watcher gives up. `EventStream` implements it with `view` the events of
`shown` and `feed` the log (property `ImplementsFeed`).

**Orchestrator.** The run's thread is `at` one of eleven places; each action is one
stretch of it up to the next thing others can see (a condition asked, the context
seeded, a snapshot of it taken, a call submitted, an outcome awaited). `calls` are all submitted calls of
`module.run()`, with a worker or waiting for one; `PoolSize` workers are shared by
timed steps and group branches. A call whose timeout passes stays. Values are
abstracted to where they come from (`Val`: seeded for a branch, returned by an attempt,
or set by an attempt itself), which is what the properties on contexts and recorded
inputs need. Modules are handed the live context: while a call runs, abandoned or not, it
may set names in it (`CallSets`; `Settable` and `MaxSets` bound which and how often), also
between the seed of a step and its snapshot. A row shows `Redacted` inputs: a name of
`Secrets` as `Masked`. What no try block covers (`SeedRaises`, `OutputRaises`, `LogRaises`,
`StoreRaises`, `ClosingRaises`) ends the thread. The row of a step and its event are
written in one action.

**CircuitBreaker.** A run thread is a launch request first: `_ensure_modules_runnable`
reads health and enabled flag of one module after another. Then it is a run: for
each step that ends `_record_breaker_event` reads the threshold, counts the failure
and reads the threshold again to decide whether to announce the trip. The rows keep
their meaning over a restart; what a thread was about to do is lost.

**Scheduler.** `_tick` is a sequence of store calls on a list of due rows read once:
`Scan`, then for each row `Trigger`, `Record`, `DisableOnce`. Between any two of them
come requests, the clock and a restart. `NextDaily` and `NextWeekly` are the
calendar arithmetic, with a day of `Day` units and a week of `Week` days, in local time:
`astimezone()` gives the base the offset in force there (`Offset`, larger by `Saving` at
the instants of `Summer`), the arithmetic keeps that offset, and so does the way back.
`StoreRaises` is an exception outside the try block: it ends the thread for good.

**PipelineStore.** A request is the sequence of file and table steps of its handler
(the diagram in the module's head); `Truncate` and `Fill` are the two halves of
`write_text`. A definition is a name and the number of what was composed, number 0
standing for a definition with no steps, which `validate_pipeline` refuses. Names
that `_slugify` makes equal are distinct names with one slug.

**RunHistory.** `runs` and `steps` are the tables, with the id each row has and, in
`by`, the run it is about; ids come from AUTOINCREMENT counters. `Export` copies both
tables under one lock, `Restore` is INSERT OR IGNORE by id, into the database the
snapshot came from. `cut` are runs deleted while running, `raced` runs removed while a
request was pinning them, or by a purge that had read the pins before they were pinned
(`late`, noted in the purge's job).

**Tables** is the cleansing loop of `ingestion.py` as a recursive function of the number
of records read (`Turns`), beside a statement of what it is for that has no loop
(`IsCleanCopy`).

**Ingestion.** One file is ingested by a thread in up to four steps, `Look` (the hash),
`Save` (the size is checked and the bytes written), `Convert` (the sidecar), `Record`
(the hash); a zip is a list of files with the failures of each kept apart. A content is
an abstract value whose equality is the equality of hashes, with the records it holds
(`Table`, unless it is a PDF) and what is made of them (`Converted`, by `Cleanse`); `Half` of it is what the
watcher may read while it is being copied in. An uploaded file's name is its
millisecond, stem and kind. The watcher
marks what it finds as seen (`TakeUp`) before it reads it (`Read`). A write that fails
and a death of the process leave a torn file. `budget` bounds what the environment does
and says where a behaviour starts.

**Artifacts** adds the requests on stored files. Each is the sequence of file operations
and store calls of its handler: a rename moves the file, then its row of tags, then its
note. A rename or a copy goes to any free name (`Given`), that of an upload or of a missing
conversion included; `borrowed` are such names once a user has put a file under one.
`meant` is what users have given each artifact; deleting one leaves its rows, and
`haunted` are the names that were taken over with such rows, by a rename, a copy, an
upload or a file that a death leaves torn.

**AutoBackup.** A backup, by the timer or on request, is `Begin` (the second it is named
after), `Open` and `Fill` (the two halves of `write_text`), `ReadProtected`, `List`, then
`Unlink` file by file (`UnlinkMissing` when another was faster), then `Stamp`. What
raises in it is caught in `_tick`, which calls `on_failure`: that writes a notification
(`Reported`) or raises itself and ends the thread (`ReportRaises`). A purge
shares its second half. The clock counts seconds and never goes back. `safe`, `kept` and
`written` are history. Settings and `last` are memory only, as in the code.

**Launch.** A launch is `Allow` (the whole of `RateLimiter.allow`, under its lock, with a
`now` read before it), the gate, and for a single module the look into the cache, at most
one run each. A change of the limits is three assignments: stored row, `max_requests`,
`window_seconds`. A module is blocked or not: `CircuitBreaker` takes the gate apart.

## 3. The runs

| Run | Instance | Shows |
|---|---|---|
| `stream_safety` | 1 page, 2 streams, 2 events each, 2 lives of the server, 5 errors, 1 lost connection | `STypeOK`, `NoLostWakeup`, `ShownIsThePrefix` |
| `stream_live` | the same with 1 life | `EveryWatchEnds`, `EndReachesThePage`, and that bus, endpoint and page implement `RunFeed` (`ImplementsFeed`) |
| `orchestrator` | pipelines `Chain` (retries, a condition, mappings), `Fan` (a group of two between steps, one without a timeout), `Rivals` (branches writing one key); 2 workers; one secret name; modules set one name, once; all faults | `HistoryMatchesEvents`, `VerdictMatches`, `EveryStepAccountedFor`, `StopMeansStop`, `OutputsAreOnRecord`, `StepRanOnItsInputs`, `RunEnds` |
| `breaker` | 1 module, 2 threads, threshold 2 with an override of 1, 4 failures, 1 restart | `OpenAtTheThreshold`, `TripsAreAnnounced`, `GateIsTight`, `OpenUntilReset` |
| `scheduler_ticks` | an interval and two one-time schedules (the second to clone into), clock to 2, 1 restart | `OneLateFire`, `FiresApart` |
| `scheduler_calendar` | a daily and a weekly schedule, days of 3, weeks of 2, an offset of 1 and of 2 from instant 1 to 2, clock to 3, 1 store fault | `NextIsTheFirst`, `DueSchedulesFire` |
| `pipelines` | 2 clients, 3 names on 2 slugs, 6 requests, 2 definitions, 1 schedule, 1 crash | `FiledUnderItsName`, `NothingIsLost`, `RenameTakesEverything` |
| `run_history` | 1 thread, 2 requests, 2 runs, 2 steps, 1 snapshot, 1 death | `EveryStepHasItsRun`, `StepsAreTheirRunsOwn`, `FinishedRunsAreWhole`, `PinsHaveTheirRun` |
| `artifacts` | 1 client, the watcher, 2 editors, all tables of up to 3 rows over 2 columns, 7 kinds of beginning (`TheBudgets`) with up to 4 requests on artifacts; users choose among two names of their own and one that an upload may get | `RefusedOnlyIfKept`, `NotTwice`, `TakenUpMeansIngested`, `TablesAreClean`, `AnnotationsFollow`, `NothingIsOverwritten` |
| `artifact_rename` | two artifacts, 4 requests on them | a *violation* of `TaggingSurvivesRename` (section 6) |
| `backups` | the timer and 1 request at a time, 3 seconds, 3 requests, keep 1 or 2, 1 fault | `SafeMeansRestorable`, `PinnedSurvives`, `DueBackupsHappen` |
| `launch` | 2 clients, 2 modules, 1 input, limits of 1 in 1 and 2 in 2 seconds, 4 seconds, 3 requests, 1 block or death | `LimitIsOnRecord`, `ReplayIsARecentSuccess`, `AdmitsExactly` |

The type invariants of the modules with proofs are proved and not repeated in the runs.

**Why the bounds are enough.** They are the smallest at which each hazard happens.
Two streams are needed for a sweep (only `create` sweeps) and to wake readers of
the wrong one; two events for an order and a gap; two lives for ids that start
again; five errors is the code's own number; one lost connection, since each
reconnection starts from the same place. The pipelines of the orchestrator have
every kind of slot beside every other and two workers, so that two abandoned calls
fill the pool. Two threads and a threshold of two are the least at which a streak is
shared; four failures allow a trip, a reset and another trip. Two schedules are the
least at which one waits for the other on a tick's list; a day of three units has
"before", "at" and "after" the hour, a week of two days "today" and "another day", and
two instants of daylight saving a base and a result on either side of each change.
Two branches and one write of a module's own are enough for a name to change between
seed and snapshot, between snapshot and start, and after the run.
Two clients, two slugs and six requests allow a save over a rename with its history
moved and a crash in between. Two runs are the least at which an id could be used
again. Three rows are the least at which a repeated row can be apart from its first; two
contents and three ways in allow one content to come twice at once; four requests allow a
deletion, a rename onto the freed name and a rename back. Three seconds and a retention of
one or two give a backup, a newer one and one to prune; the timer and one request are two
writers. Two requests before the lock are what it takes to reach it out of order, two
limits to mix one with the other. The proofs of section 5 do not depend on any of them.

**Constraints and symmetry.** `Room` in `scheduler_ticks` keeps one of the three
schedules absent (any two of them are together in some state; the properties speak
of one schedule at a time). `NotRaced` in `pipelines` stops where two requests have
worked on one slug at the same time: `NothingIsLost` and `RenameTakesEverything`
claim nothing from there on; that `TypeOK` and `FiledUnderItsName` hold
there too is proved (section 5). `NotBlurred` in `artifacts` stops where two requests work
on one name at the same time or a death cuts one off, of which names the properties claim
nothing. Symmetry is over clients, editors, threads, workers and the two one-time schedules, which no definition tells apart, and is used in no run with a
liveness property.

**Deadlock** is not an error where everything may be over: the stream's bounds can be
used up, a run ends, and requests are bounded. The other runs check it.

## 4. Fairness

Liveness is claimed under weak fairness of what the code keeps scheduling, and of
nothing else.

* `EventStream`: the generator of each connection (a server thread that runs until
  the response is over), the browser's reconnection, its delivery of messages that
  have arrived, its noticing of a response that has ended. Not the runs, the clock,
  the network, the process: `EveryWatchEnds` holds although a run may never end,
  because silent responses end and are counted. `Timeout` is part of the
  generator's step: a wait of 30 s does end.
* `Orchestrator`: the run's thread (`ThreadStep`). Not the modules or the pool: a
  module may never return, which is why `RunEnds` asks for a timeout on every step.
* `Scheduler`: the thread (`Tick`). Not requests, not the clock.
* `AutoBackup`: the timer's loop (`Wake`) and its thread's steps (`BackupStep(Timer)`).
  Not requests, not the clock, and writes may fail: the loop comes round again, unless
  the notification of the failure fails as well. `DueBackupsHappen` excepts that: the
  thread is over then, as it is in the code.

`DueSchedulesFire` makes an exception of a store call that raised: the code has no
try block there and the thread does not come back.

## 5. The proofs

Each `*_proofs` module shows `Spec => []IInv` for an inductive strengthening `IInv`
(`Init => IInv`, one lemma per action or per part for `IInv /\ [Next]_vars => IInv'`)
and derives the properties. They assume nothing but the ASSUMEs on the constants in
the modules, which TLC evaluates in the runs.

* `RunEventBus_proofs`: of the bus alone `TypeCorrect`, `NoWakeupIsLost`,
  `ReplayIsExact`, `CleanEndMeansDrained`, `SweepSparesLiveStreams`. The strengthening
  says that ids are allotted upwards, a list never shrinks below its length at close, and
  a reader between its look and its yield has something to yield. (Without the last, an
  event picked under the lock could be out of the list at the yield.) Of the bus with
  runs, pages and connections `StreamTypes`, `StreamWakesUp`, `PageShowsThePrefix`: the
  second invariant (`SInv`) says that what is on its way to a page continues what the page
  shows. With it every step of `EventStream` is a step of `RunFeed` or a stutter
  (`FeedImplemented`, for `MaxLives = 1`: a restart empties the log a page is watching).
* `Orchestrator_proofs`: `TypeCorrect`, `VerdictIsTrue`, `StopIsFinal`,
  `NoAbandonedOutput`, `RecordedInputsAreTrue`, `HistoryIsTrue`, `EveryStepIsAccounted`, for
  every pipeline, pool size and set of faults. The strengthening ties the failure flags to the step rows,
  says where the thread may be after a failure, and what the calls of a single step have
  read: those of the awaited attempt read what the snapshot shows, but for names a module
  has set since. For the last theorem it says what the events tell of each
  branch: nothing ahead of the thread, one end and at most one start behind it, and in the
  current slot nothing of the branches that wait, one start of the one at hand.
  `HistoryMatchesEvents` counts: the n-th event that ends a step and the n-th step row, so
  that its proof is about cardinalities and needs no induction over the log.
* `CircuitBreaker_proofs`: `OpensAtTheThreshold`, `EachTripToldOnce`, `GateHolds`,
  `OnlyResetCloses`. A thread measures against the threshold in force as long as
  nobody changes it, so a closed breaker's streak stays below it; it passes the
  threshold once per trip, and the failure that does carries the number of the trip.
* `Scheduler_proofs`: `OffMeansOff`, `PanelIsTrue`, `CalendarIsExact`, `CadenceKept`,
  `OnceMeansOnce`, for any schedules, cadences and lengths of day and week, and for any
  offset and instants of daylight saving. Beside the invariant there is the arithmetic of
  the calendar (quotient and remainder, and that no local time between the base's and the
  next run's matches), which `CalendarIsExact` carries over to instants of the base's
  offset.
* `PipelineStore_proofs`: `FilesMatchNames`, `DefinitionsAreSafe`,
  `RenamesAreComplete`. `NothingIsLost` is not inductive: the invariant counts a
  definition only where the next step cannot destroy it, and says how far each request
  has come.
* `Retention_proofs`, of `RunHistory`: `StepsHaveTheirRuns`, `StepsAreOwn`, `FinishedAreWhole`,
  `PinsAreAboutRuns`, `PurgesSpare`, for any number of runs, steps, threads and requests,
  as long as the snapshots are merged into the database they came from (`Spec`). The
  tables alone are not inductive, since a restore brings back what a snapshot holds: the
  invariant says of every snapshot what it says of the tables, and that it goes on being
  true while the runs that were live at the export log more steps. Of a purge it says that
  what it spares is what was pinned when it read the pins: a run pinned now is spared, or
  among the `late` ones.
* `Retention_proofs`, of `AutoBackup`: `SafetyHolds`, `PinsHold`, `LastIsWritten`, for any number of
  clients, seconds and faults. `Sound` names the whole snapshot that is safe and says that
  a backup past its writing finds it the newest and does not have it on its list; `Spared`
  that a list made from the pins of before leaves out what has been kept since.
* `Launch_proofs`: `WindowIsExact`, `LimitsAreStored`, `ReplaysAreTrue`. `Window` says that
  the deque is what is left of all admitted hits when the first `k`, expired ones, are
  popped, as long as stamps come in order and the window does not grow; `Changing` that a
  change of the limits that overlaps no other carries the limits on record; `Recorded` that
  each cached row is of a run that ended well.

* `Artifacts_proofs`, of `Ingestion` and `Artifacts` together: `RefusedWasKept`,
  `RecordedOnce`, `TakenUpIsIngested`, `ConversionsFollow`, `NothingOverwritten`,
  `AnnotationsHold`, `TablesComeOutClean`, for any threads, editors, names, contents,
  beginnings and length of time, and also of the states beyond `NotBlurred`. Every part of
  the invariant speaks of what is in hand between two steps: `Kept` that a thread about to
  record has stored everything; `Once` that what two threads have in hand, or one thread
  and the records, is contested; `TakenUp` that the watcher's file is what still lies in
  the folder; `Belong` that a thread about to convert has its own table before it and no
  other thread has the same name; `Raw` that stored tables are contents that could be
  read; `Apart` that requests that meet are blurred in all they touch, and that a rename
  or a copy goes to a name still free; that an upload which comes under a name of a request
  in flight blurs it (`MeetRequests`); `Follows` how far a request has come with each file
  it touches (row by row what was meant, or what is still to be written), that there is no
  meaning without a file, and that a name about to be annotated has a file or a row, so
  that no upload slips under a row to come. `AnnotationsFollow` alone speaks of settled
  files only and says nothing of the steps in between.
* `Artifacts_proofs`, of `Tables`: `CleanseCleans`, by induction on the records. The
  library's induction theorems take an operator; `Least` derives from `WFMin` that a set of
  numbers has a least element, `Induction` follows for sets of numbers, and `Unrolled`
  shows with it that the recursive function exists and does what it says. `CleanSoFar`
  is the promise for the records read so far: order is kept because a row that is added is
  not blank, is not among those kept, and so does not occur earlier in the table.

`ConversionsFollow` and `TablesComeOutClean` assume nothing of the names users choose: they
except a table only if a user has put a file under its name or under that of its conversion
(`OwnNames`), which the routes do not forbid.

Two definitions changed when their proofs failed. `Meets` did not see a file whose name a
second thread was about to give to its conversion: two files of one name within a
millisecond, of which `clashed` has to know. `ComeUnderRows` was left out of `Die`: a file
torn by a death comes under the rows of a deleted namesake like any other.

Model-checked only: what needs fairness (`EveryWatchEnds`, `EndReachesThePage`, `RunEnds`,
`DueSchedulesFire`, `DueBackupsHappen`), since liveness and ENABLED are beyond the prover.
Every invariant and action property of the passing runs is stated by a theorem.

## 6. Disagreements

One disagreement between code and comment is a run in which TLC finds it.

* `artifact_rename`: a rename "moves its tag-store row to follow it, so tagging survives
  the rename" (`webapp/main.py:4180`). Deleting an artifact leaves its rows, and a file
  name is the primary key of both tables: renaming another artifact to the deleted one's
  name moves the file and then raises in `UPDATE ... SET filename`
  (`webapp/main.py:4195`, `engine/state_store.py:984`). The file has its new name with the
  tags of the deleted one; its own tags and note stay under the old name.

Others are excluded by the properties, which say so, and are not runs of their own.

* Stream ids come from a counter in memory. After a restart a page that reconnects resumes
  the stream of whichever run has its id now (`webapp/events.py:30` against
  `webapp/main.py:2375`). `ShownIsThePrefix` speaks of pages of the present life.
* A silent response is an error to the page, and only a message resets the count, so a
  step silent for five timeouts makes the page report a lost connection
  (`static/app.js:2218` against `static/app.js:2216`). `EndReachesThePage` asks for a page
  with patience left.
* A rename moves versions whose definitions keep the old name; a restore of one creates a
  second pipeline under the old slug and leaves the current definition as it was
  (`webapp/pipelines.py:261` against `webapp/pipelines.py:254`).
* A snapshot is merged table by table and id by id. In a database that has begun runs of
  its own, steps of the snapshot show up under other runs (`engine/state_store.py:1403`
  against `engine/state_store.py:1388`). `RunHistory` merges into the same database only.
* Two files of one name that are stored within a millisecond overwrite each other, where
  the stamp is said to keep names apart (`webapp/ingestion.py:101`). `TablesAreClean`,
  `AnnotationsFollow` and `NothingIsOverwritten` except this (`clashed`).
* HH:MM is local time, "the one a user picking 09:00 actually means"
  (`webapp/scheduler.py:24`), but with the offset of the base: across a change of the
  clocks the run is off by the difference, and after it the right time can come up again
  on the same day. `NextIsTheFirst` excepts instants with another offset than the base's.
* "A write failure here must not kill the background thread's loop"
  (`webapp/auto_backup.py:101`), but `on_failure` is called outside any `try` and writes to
  the store: if that fails as well, the thread ends and nothing is backed up until a
  restart. `DueBackupsHappen` excepts this.
* A run reports `run_completed` or `run_failed` at its end (`docs/ARCHITECTURE.md:75`).
  `finish_run` comes first; then `redact_secrets` walks the live variables, and raises if
  an abandoned module adds a name meanwhile (`engine/orchestrator.py:320`): the row has its
  verdict, the page gets no closing event. `VerdictMatches` says no more than that the
  row is right.

Behaviours met while modelling, described where they are modelled and not claimed:

* The branches of a group are seeded one after another into one context before any of
  them runs: a branch can read what another was seeded with, and its recorded inputs
  need not be what it ran on.
* An output that is no mapping, or cannot be logged, ends `run()` outside its try blocks:
  the run has no closing event and its row stays "running". Such a row, like one left by
  a crash, is never purged.
* A breaker whose threshold is changed between the two readings may open without a
  notification, or be announced again.
* Two saves of one slug at the same time both archive first: the first new definition
  is lost. Whether a name is free is checked before the write.
* Deleting a pipeline leaves its schedules, which then report errors; while a rename is
  going on, a tick may find neither name.
* A one-time schedule that has fired and is duplicated gives a copy that is due at once;
  one that is enabled again while its trigger is being recorded is disabled again.
* A run that is protected between a purge's reading of the pins and its deletion is
  deleted, and its pin stays.
* Modules hold the live context: one whose timeout has passed may still set names in it
  (`engine/context.py:119`), which later steps read. `StepRanOnItsInputs` and
  `OutputsAreOnRecord` tell such values apart.
* A user may rename or copy a file to `<stamp>_<name>.json`, when it is free: it stands
  beside the table of that stamp and is no conversion of it (`borrowed`).
* Bulk tagging and muted notification kinds are read before they are written.
* A file duplicated onto the name of a deleted artifact has that one's tags and note
  until its own are copied, and keeps them where it has none (`haunted`).
* The watcher marks a name as seen and then reads the file, once: one still being copied in
  is ingested half, and a second file of the name is passed over (`missed`). Watcher and
  upload can ingest one content twice, as both look before either records.
* The hash of a deleted artifact stays on record: the same content is refused from then on.
* The limiter reads the clock before it takes its lock, so stamps can be out of order; a
  window that is made wider does not bring back hits already dropped. Two changes of the
  limits at a time can leave the stored row, the maximum and the window of different
  requests (`webapp/main.py:1040`-`1066`) until the next change or restart.
* Two backups at a time can prune the only whole snapshot while the newer one is still
  torn, and `last_backup_at` can go back. When both prune one file the slower raises: its
  own snapshot is written all the same, and a request answers with an error. A second
  backup in one second writes over the first.
* Pins of snapshots that are gone stay. The timer's settings are lost in a restart.

## 7. Not modelled, and the plan

Left out on purpose: what the page draws; webhook forwarding and notification kinds;
instants in finer units than the cadences (a schedule's minute is a unit of its day);
clocks that go back;
labels, run notes and search; exports and reports, which read only; scaffolding, linting
and registry, which are file generation and imports; conditions and templates, which
are pure functions on strings (a condition is whether its key has a value), and where
inside a value a secret is (a name holds one or not); parsing
of file formats (a content can be read or not), schema inference and merging of tables;
the result cache of several inputs at once, which are rows of their own.

Order of the work, most important first; all of it has been done.

1. `RunEventBus`, `EventStream`, `RunFeed`
2. `Orchestrator`
3. `CircuitBreaker`
4. `Scheduler`
5. `PipelineStore`
6. `RunHistory`
7. `AutoBackup`
8. `Tables`, `Ingestion`, `Artifacts`
9. `Launch`

What could follow: one specification that composes `Launch`, `CircuitBreaker` and
`EventStream` around an abstract run; an abstract specification of the artifacts (a name
has a content, tags and a note, given and taken in one step each) that `Artifacts`
implements where nothing is blurred; notifications, whose muted kinds are read before the
insert; blackboard and custom events of the shared context.
