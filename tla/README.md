# Extella SEO Employee: TLA+ models

Formal models of the run queue, the scheduler, the audit run and its report, the target configuration, the audit workers, the
panel and the backup script of the SEO Employee service, model-checked with TLC; the safety properties are also proved with TLAPS. Paths are relative to the repository (`experts/...` is `src/experts/...`).

## The system

One container, `seo-employee` (`deploy/compose.yaml:8`, `restart: unless-stopped`), runs `runtime/product/server.py`:

| actor | code | what it does |
|---|---|---|
| HTTP handlers | `server.py` `dispatch`, one thread per request | `configure`, `run`, `state`; a run is only put into the queue |
| scheduler | `server.py` `schedule_loop`, once a minute | `experts/seo_employee_schedule.py`: enqueues a daily run for each due target |
| consumer | `experts/seo_employee_run.py` `QueueConsumer`, one thread | claims one item at a time and calls `run_seo_employee` |
| container runtime | `deploy/compose.yaml` | restarts the process after it died |

They share files and nothing else (the consumer's wake event aside). Outside the container, the panel (`app/app.js`) runs in a frame of
its host and sends `configure`, `run` and `state` over `app/extella-bridge.js`:

| component | state | operations | what is hard | correct means |
|---|---|---|---|---|
| Run queue (`experts/seo_employee_queue.py`) | `state/queue.json` | enqueue, claim, complete, fail, recover | handles in several threads, failing writes, kills, retention | FIFO, one running item, one active item per target and trigger, nothing lost, at most one repetition |
| Admission and consumer (`experts/seo_employee_run.py`) | none of its own | `run`, `process_queue_once`, `_serve` | errors while settling, error inside the error handler | every accepted item is settled |
| Audit run (`experts/seo_employee_service.py`) | per target: lock, `current_state.json`, latest report, history, daily index, baseline | `run_seo_employee` | kill between two of five files, stale locks, clock crossing midnight, unreadable files | what is shown, recorded or compared rests on a saved report |
| Report (`collect_sources` to `_build_v2_report`, `seo_employee_sources.py`, `_rules.py`, `_profiles.py`, `runtime/source_proxy.py`) | `baseline.json` across runs | collect, merge, rank, explain, compare | blocked or cut off sources, shared deadline, several plans, a model that fails | tasks are the worst findings, nothing is called fixed on silence, comparisons add up |
| Scheduler (`experts/seo_employee_schedule.py`) | reads config and daily index | tick | check first, enqueue later | one daily report per target and daily key (date and timezone) |
| Configuration (`experts/seo_employee_targets.py`, `save_configuration`) | `config.json` | configure, migrate | unlocked read-modify-write | no target lost, ownership confirmed before any audit |
| State reader (`experts/seo_employee_state.py`) | none | `state` | reads several files without a lock | an answer that misleads nobody |
| Audit workers (`runtime/worker_server.mjs`) | busy flag, child process | `/run`, `/resolve` | abort, timeout, exit and disconnect race | one audit at a time, free again afterwards |
| Panel (`app/app.js`) | selected target, tokens, poll timer | select, run, poll | late and reordered answers, timers, clicks in between | never shows another target's or an older answer, asks while there is something to wait for, and stops |
| Backup (`deploy/backup.py`) | snapshots, service state | create, verify, restore, prune | failure in the middle with services stopped | services come back, no half snapshot |
| Safe fetch, gateway, installation and release tools | none | | no interacting actors, or pure I/O | |

`PROJECT.json` lists all components with their status and every hazard with its line.

## Modules

`RunQueue` is what the queue promises: a document (`items`, queue id to item), the item in the worker's hands (`held`)
and, as history, how often each item was handed out (`claims`). One action per operation, because each operation of
`SeoEmployeeQueue` replaces the file once. Queue ids are numbers in insertion order; the code's are random, and its list
order is the order of insertion. `requested_at` and the item's `run_id` are payload that no operation of the queue
reads. `Abandon` is the worker that dies or gives up settling.

`QueueFile` is how the code keeps the promise: `Enter`, `Lock`, `Read`, `Rename`, `Unlock`, an exception (`Raise`) at
the read or the write, and `Kill` at any point; `at` says where each thread is. The document is the list itself, the operations are
operators on sequences and their places (`Pruned`, `Appended`, `Claimed`, `Recovered`, ...). Writing the temporary file is merged with the rename: nobody reads
it, and a failure before the rename is `Raise`. It refines `RunQueue` under the mapping that reads the list as a function
of ids (`Promise`, `KeepsPromise`). The consumer may call `complete` again after an exception, which the code never does;
the model allows more than the code here.

`SeoEmployee` composes `RunQueue` (as `Queue`) with the world, the scheduler, the consumer thread and the audit run. The
consumer's program counter `pc` stands before a step that touches a shared file; steps on local memory are merged with
the next shared one. One action corresponds to one statement of `run_seo_employee`:

| action | code (`experts/seo_employee_service.py`) |
|---|---|
| `RefuseRun` | ownership gate and validation, 1396-1425 |
| `StartRun`, `AnswerBusy` | `_acquire_lock`, 1433-1435 |
| `AnswerDuplicate` | daily index asked again, 1437-1440 |
| `PublishRunning` | 1442 |
| `Collect` | sources, baseline read, report and comparison, 1443-1447; what they say is in `AuditReport` |
| `SaveHistory`, `SaveLatest` | `_save_completed_report`, 1449 |
| `RecordDaily` | 1453-1454 |
| `Publish`, `PromoteBaseline` | 1455-1457 |
| `Raise`, `PublishFailed` | except branch, 1459-1465 |
| `ReleaseLock`, `KeepLock` | finally, 1467 |

`Settle` and `SettleRaises` are the end of `process_queue_once`, `FailExcepted` and `FailExceptedRaises` its except branch, which
tries `fail` once (`Excepting` is the way there: a refused run, a lock that cannot be removed, a failing queue file); `RunCommand`,
`ScheduleTick` and `EnqueueCommand` are the two halves of admission, between which everything else may happen. `Configure` is the part of
`configure` that the run and the scheduler see: ownership and timezone. `clock` counts the moments at which a day begins in some timezone,
`LocalDate` is the calendar (timezone and moment to date), and `DailyKey` the target's date and timezone at this moment, as `_daily_key` has
it; a change of the timezone may take the date back. `Fault` marks a step in which a read or write of a file fails; the numbers of faults
and kills are bounded, and so is the sum of kills, faults, reconfigurations and midnights (`MaxEvents`). The ledger `runs` records what
the running code knows of each run and what its report says; a run is its position in it. `instance` is the number of
kills so far: a process draws its `SERVICE_INSTANCE_ID` anew.

`AuditReport` is what the reports of one target say, run after run. Between `Start` and `Publish` a run asks the two sources
(`Answer`, `NoAnswer`), reads the baseline and ranks the findings (`ReadBaseline`), lets the model explain each (`Explain`) and saves
(`SaveReport`). A finding is an identity (URL and rule). A payload is reduced to what the adapters decide by: does it declare that
there is no answer, is it blocked, is it well formed and whole, and which findings does it name (`Parsed`). Time passes inside the
calls only, up to the timeout each of them gets from `RunDeadline`. `KnownTo`, `VerifiedBy`, `Severity` and `Covered` stand for the
rule catalog, of which `ValidCatalog` is what its loader accepts. `affected_pages_count` is 1 for every finding and does
not rank. A rule without a fixed fact belongs to one source only, so a finding never loses its fact by merging. `inspected` and
`reports` are history; `Stop` is an exception or a kill, whose effects on the other files are in `SeoEmployee`. The lock lets one run
of a target at a time come here (`LockGuardsRun`), which is why the module has no second one.

`BackupSnapshot` is `deploy/backup.py`. A part of the data, the database or a volume, is a version number that each write of
a running service replaces; a snapshot holds a version of each part. `create` stops the clients, starts the database if it is
down, dumps it, stops it, archives volume by volume, and publishes the directory by a rename; `restore` checks the snapshot,
stops, replaces the database and volume by volume; both end in the same `finally` (`StopStarted`, `Restart`). `prune` deletes all
but the newest snapshots that verify. Each step is one external command, which may fail, and may then have done part of its work:
stop and start with several services, a volume half filled (`Torn`), a snapshot half deleted (`Missing`). `Kill` ends a script anywhere. `op.trouble` remembers which commands failed. The script
takes no lock; the model assumes an operator who runs one at a time.

`TargetConfig` is `config.json` and its backup. Each thread serves one call: `configure` with a known target (`Probe`,
`LoadFile`, perhaps the three `Migrate...` steps, `SaveRead`, `SaveWrite`) or without one (`Probe`, `SaveRead`,
`SaveWrite`), or a load by a run, by the scheduler or for the state, which migrates a file of version 1. A step reads or
replaces one file; nothing locks it, so other threads act in between. A failing read or write ends the call (`Refuse`),
with one exception: the read in `save_configuration`, where unreadable counts as absent. `said`, `confirmed` and
`overtaken` are history. The process's configuration is independent of its queue, so the module stands beside
`SeoEmployee`, which sees ownership and timezone only (`Configure`).

`AuditWorker` is one source worker, `runtime/worker_server.mjs`: the busy flag, and for each request the await its handler
stands at (`at`), its abort signal, its child process and its answer. A step is what Node runs between two awaits;
an abort that rejects `readJson` runs the handler to its end in the same step. `HangUp` is the client that goes, `Notice`
the event that tells the worker; between them the worker works for nobody. `ChildEnds` is the operating system, `Settle`
the exit or error event that comes later, so that the timer and the abort can race with a child that has already ended.
The product's client is `source_proxy.py`, one at a time, but a worker cannot rely on that, and the model lets requests
overlap.

`Panel` is the page and what it sees of the service. The page (`page`) is `currentState`, `selectedTargetId`, `savedTargetId` and
`runBusy`; `timers` and `left` are the poll timer and what remains until `pollDeadlineAt`, counted in timers; `calls` are the calls in
flight. An action of the page is what runs between two awaits: a click sends a call, and the code after the `await` is an action of its own
(`StateAnswered`, `BootAnswered`, `RunAnswered`, `SaveAnswered`, `StateFails`, `CommandFails`, or `StateIgnored` when the tokens say so).
The service goes on meanwhile. It is `SeoEmployee` as the state reader sees it: `doc` (a state and how many reports are saved) and
`queue`, which change one after the other (`Claim`, `PublishRunning`, `PublishResult`, `Settle`), and the reader reads one after the
other too (`ReadDocument`, `ReadQueue`). `pollToken` and `stateRequestToken` are raised together by `cancelPolling` and only compared,
so each call remembers whether they are still its own (`live`). `normalizeStatePayload` spreads an answer over the old state; of the
fields that survive because an answer lacks them, `queue_item` of `run` (`page.item`), `target_id` of `configure` (`page.named`) and the
list's states (`page.summary`) decide something and are kept.

The modules whose names begin with `MC` give the constants small values. Each module `M` has its theorems and proofs in `MProofs`. Definitions marked "Faulty" are plausible bugs: each run's property is known to fail when the faulty
definition stands in for the real one.

## Runs

| run | bounds | shows |
|---|---|---|
| `RunQueue.cfg` | 3 targets, 1 trigger, 6 items, retention 2 | the safety properties of the queue; the worker may die without limit |
| `QueueFile.cfg` | 2 threads, 1 target, 2 triggers, 4 items, 2 kills | the file implements `RunQueue`, its order included; every call returns |
| `SeoEmployee.cfg` | 1 target, 2 timezones, 2 moments, 2 items, 2 events (kills, one failing file, reconfigurations, midnights) | one report per daily key; records rest on reports; locks left by dead processes refuse nobody; shown results are saved; accepted commands are settled |
| `SeoUnsaved.cfg` | 1 target, 1 item, 2 kills | **violated**: `UnsavedIsFailed` |
| `TargetConfig.cfg` | 2 threads, 2 targets, 3 calls, 2 faults or kills | answered targets are kept unless a writer is overtaken; ownership is confirmed; the file stays acceptable |
| `AuditWorker.cfg` | 3 requests | one child at a time, cancellation, honest answers, clean directories, and the worker comes free |
| `AuditReport.cfg` | 2 findings, 2 plans, 1 task, 3 reports, 1 mishap | the deadline reaches both sources; tasks are the worst findings; silence is no repair; the baseline is the newest ready list; comparisons add up |
| `BackupSnapshot.cfg` | 2 volumes, 2 clients and the database, 2 writes, 4 scripts, 2 mishaps, one snapshot kept | a snapshot is complete and of one moment; services come back as they were and see one moment; the newest good snapshot survives |
| `Panel.cfg` | 2 targets, 1 audit, 2 clicks, 1 failing call, 2 timers per deadline | nothing older or of another target is shown; one polling chain; who waits is watched; polling ends |
| `PanelReady.cfg` | 1 target, 1 audit, 1 click | **violated**: `ReadyIsShown` |
| `ReportFixed.cfg` | 2 findings, 1 plan, 1 task, 2 reports, no mishap | **violated**: `FixedIsGone` |
| `TargetConfigUnread.cfg` | 1 thread, 3 calls, 1 fault | **violated**: `UnreadableIsNeverEmpty` |

Why the bounds are enough: a retention limit of two is the least at which something settled is kept and something is
pruned, and six items fill the list and prune it more than once; `QueueFile.cfg` has both triggers, and the
proofs cover every size. Two items per composed run are the
least at which a second item waits, overtakes or meets the files of the first; a manual and a daily item of one
target, and two daily items of one key, occur. Two events reach the recovery limit (two kills), a kill after a failing file, and a
midnight in one timezone while the target moves to the other. The target begins in the timezone that has its midnight first
(`FirstZone`), so that its date stays, steps on, or steps back with the move. A failure of the handler of a failure needs two faults and is left to the proofs, which have
no bounds. The composed runs have one target: each file of a run belongs to one target, so
targets meet only in the queue, and `RunQueue` has several. In the composed runs two settled items never reach
retention; that too is left to `RunQueue.cfg` and the proofs. Three calls on two targets are the least in which two
writers of `config.json` overlap and a third call meets what they left. Three requests to a worker: one is served, one finds it busy
or dying, one comes after both. Two findings for one place on the list of tasks are the least at which something falls off it (the code
has ten places); one of them both sources know and verify together, as the catalog's actionable rule, so that it changes its rank
with what the sources saw. Three reports: one makes the baseline, one is compared, cut off or of the other plan, one comes after.
Four scripts are two snapshots, a pruning and a restore; two mishaps are a damaged snapshot and a failing command, or a failing
command and a failing cleanup. Two clicks and the page's own first requests are the least in which the user leaves a target and
comes back while the first answer is still under way; one audit moves the document through all its states and the number of saved
reports from 0 to 1, so that an answer may be older than another; two timers are a poll and a deadline. The `Panel`, `TargetConfig`, `AuditWorker`, `AuditReport` and
`BackupSnapshot` runs disable the deadlock check, because their calls are bounded and nothing else happens, and so do the `SeoEmployee`
runs, because a consumer thread that died on a failing file stays dead (`ConsumerDies`) once items and events are used up; `RunQueue.cfg`
and `QueueFile.cfg` check it.

The violated runs state two sentences of `docs/contracts/service-seo-runner.md`, one of `docs/contracts/ui-seo-panel.md` and a comment of
the code:

* SC-SEO-025 (line 54): state `failed` if no snapshot was saved. When the process dies twice in a run, recovery fails the queue item
  (`recovery_limit`) and nobody touches the state document, which says `running` for ever (`UnsavedIsFailed`): the state is written by a
  run only, and `QueueConsumer.start` recovers the queue only. With more events, a repetition that finds the ownership withdrawn or the
  daily key recorded, and a handler whose own write fails, end the same way.
* SC-SEO-020 (line 46): an identity that has disappeared from the findings is fixed. The code compares the lists of at most
  ten tasks, not the findings (`compare_with_baseline`, `seo_employee_service.py:648`): a finding that was found again, but that a
  worse one pushed off the list, is reported as fixed. `ChangesAddUp` says what the comparison does mean: the difference of two lists.
* UC-SEO-007 (`ui-seo-panel.md`, line 20): state `ready` shows its result. The answer to `run` carries a `queue_item` that says
  `queued`; it stays in the page's state, because no later answer has that field, and `queuePayloadState` (`app.js:690`) falls back to it
  whenever the queue holds nothing active for the target. From the first click on the run button the page says queued, for every
  target, until the poll deadline turns that into a failure; only a reload ends it.
* `experts/seo_employee_run.py:395`: a pre-existing unreadable file is never an empty config. The text is read for that
  reason and thrown away, and `save_configuration` reads the file again, where a failing read, or malformed JSON, counts
  as no file (`seo_employee_service.py:862`, `:877`): the saved targets are gone. `AnsweredIsKept` says what is left:
  a target is lost only to this, or to an overlapping writer.

What the code falls short of without a violated run of its own:

* SC-SEO-005 (`service-seo-runner.md`, line 19) and FC-SEO-002 (`feature-seo-audit-monitoring.md`, line 19): a second daily trigger with
  the same key creates no new run. The code contradicts that: the daily index is written when a run ends with a report, so a daily run
  that raised, or was killed before the record, leaves no entry and the next tick starts another run with its key. What the code does
  guarantee is `OneReportPerDailyKey`: one *report* per target, date and timezone, plus at most one for each kill or failing file. And because
  the timezone is part of the key, a target that moves to another timezone may get a second report for the same date
  without any kill or fault, where CT-SC-002 (`docs/verification/traceability.md:39`) speaks of one daily run per local date and target.
* A kill between the daily record and `Publish` (`seo_employee_service.py:1454`, `:1455`) leaves `running` over a report that is saved, and
  the repetition is answered as a duplicate without a new state. `UnsavedIsFailed` does not speak of it, and no other property does.
* A configuration writer that overlaps another may undo it (`AnsweredIsKept` excuses whoever was overtaken), and may bring back an ownership
  that was withdrawn meanwhile (`OwnershipWasConfirmed` asks only whether it was confirmed at some time).
* A restore that fails in the middle leaves data of two moments, as `OPERATIONS.md` line 87 says it may; `ServicesSeeOneMoment` and
  `SnapshotIsOneMoment` speak of the rest.
* `WaitingIsWatched`: the page loses its thread (`strayed`), and may say queued with nobody asking, when the answer to `run` comes after
  the selection has moved (`app.js:1596` cancels the other target's request), when a state request other than a poll fails, when the form
  is saved, and when a message of the host has it rendered anew over an expired deadline.
* `FirstOf`: `queueViewModel` takes the first item of a target in the list (`app.js:650`), which may be a settled one in front of an
  active one.
* `Normalized`: an answer clears the mark of an unsaved form, for `savedTargetId` is null both for a changed form and for none
  (`app.js:1637`).

## Fairness

`RunQueue` has no fair specification: its `Abandon` is a dead process as well as a failed `fail` in a live one, and `recover_interrupted`
runs at the start of a process only, so that nothing in the queue alone makes it come. That items are settled is stated of `SeoEmployee`,
which tells the two apart.

`QueueFile!FairSpec`: a thread inside an operation goes on; a thread that waits for the lock gets it if it is
free again and again (strong fairness: every holder leaves after finitely many steps and there are finitely many threads).

`SeoEmployee!FairSpec`: the consumer thread runs, and the container runtime restarts the process. Users, clock, kills
and faults are not forced. `EveryItemSettles` holds as long as no file fails; after a failing queue file an item may be
stranded until the next restart, which nothing forces.

`AuditWorker!FairSpec`: the event loop serves what is ready (file operations return, events are delivered), the timer of
`runAuditProcess` fires, a killed process ends, and a body is read or `requestTimeout` closes the connection. Other
clients need not hang up and a child need not end by itself.

`Panel!FairSpec`: the service answers a call or the bridge's own timer ends it (`extella-bridge.js:91`), answers that are there are
delivered, and a timer that is set fires. Users, failures, the scheduler and the audit itself are not forced: `PollingEnds` holds although
the audit may hang for ever.

## Proofs

`RunQueueProofs` proves for every set of targets, triggers and modes, every retention limit of at least two
(`RetentionAssumption`; the code has a fixed limit above it), every attempts limit of at least two and every bound on ids:

| theorem | property |
|---|---|
| `TypeCorrect` | `TypeOK` |
| `ValidationNeverBlocks` | `WritesNeverRefused` |
| `FirstInFirstOut` | `RunningIsOldest` |
| `RecoveryIsLimited` | `HandedOutAtMostTwice` |
| `AcceptedWorkIsKept` | `NoItemIsLost` |

They all follow from one inductive invariant, `QueueInv`. None of the properties is inductive alone: that a recovered item
does not overtake needs to know that a running item is older than the waiting ones; that a second running item
never appears needs `held` and the document to agree; that the third hand-out never comes needs the exact relation between
`attempts` and `claims` in each status, and, for settled items, the fact that they never return. One lemma per
action shows that the step keeps `QueueInv`; `RetainedKeepsActive` is the fact about pruning, `RecoveredItem` the one
about recovery.

`AuditWorkerProofs` proves for every set of requests `TypeCorrect` (`TypeOK`), `MutualExclusion` (`OneAuditAtATime`),
`CancellationReaches` (`CancelledAuditIsKilled`), `AnswersAreHonest` (`AnswerTellsOutcome`) and `IdleWorkerIsClean`
(`IdleIsClean`), with no assumption. Its inductive invariant is `WorkerInv`: `Serialized` (only the request that holds `busy`
stands at an await), `Progress` (where a handler stands says what it has and has not done), `Cancelled` (an abort seen at the
audit has a reason, and a reason means a kill) and `Honest` (what `auditProcess` will return rests on reason and exit).

`QueueFileProofs` proves that the file keeps the promise, for any finite set of threads, every number of kills and the same limits as above
(`ThreadsAssumption`, `LimitsAssumption`):

| theorem | property |
|---|---|
| `KeepsThePromise` | `KeepsPromise`: `QueueFile` implements `RunQueue` |
| `FileKeepsOrderAndWork` | oldest first, at most two hand-outs and no lost work carry over from `RunQueueProofs` to the file |

Half of the module is about lists: what `Picked` keeps and that it keeps the order, that an id is at one place, and so what pruning, appending,
claiming, settling and recovering the list do to the function of ids that the promise speaks of (the code goes by place, the promise by
id; a list in ascending order makes the two agree). The other half is the invariant `FileInv`, which has what the refinement of a rename needs: `LockInv` (whoever is past the lock has it,
so what it is about to install is the successor of the document that is still there), `ConsumerInv` (one thread claims and settles, with
empty hands before a claim or a recovery) and `IdInv` (the enqueues under way do not use up the bound on ids). Every other step is a stutter of the promise,
but for the exception in `fail` and the kill, which are its `Abandon`.

`AuditReportProofs` proves, for any set of findings, any catalog that the loader accepts, any plans and any timeouts of which the
source's is the smaller (`CatalogAssumption`, `TimeoutAssumption`), and without bounds on reports, findings and time:

| theorem | property |
|---|---|
| `TypeCorrect` | `TypeOK` |
| `DeadlineReachesBothSources` | `SourcesShareTheTime` |
| `WorstFirst` | `TasksAreTheWorst` |
| `SilenceIsNoRepair` | `FixedIsNotSilence` |
| `BaselineHasOrigin` | `BaselineIsNewestReady` |
| `ComparisonsAddUp` | `ChangesAddUp` |

The invariants are `Typed`, `Timely` (how much time is spent before each step), `Answered` (each source heard has an entry,
and one that counts did inspect the site), `Traced` (the report the baseline comes from; the run in progress compares with that
baseline or with none; a report on its way that offers no baseline was not comparable), `Compares` (each comparison was made with
the newest baseline of its time), `Tasked` and `Ranked` (how many tasks a report has, and which). `BaselineIsNewestReady` alone is not inductive: a ready report that settles without
reaching the baseline needs the fact that its plan differs from the baseline's, and that needs `Traced`. For `WorstFirst`,
`OrderAssumption` says what the sort key is made of: severities and positions are numbers, no two findings have the same
position, and there are finitely many findings. Then `Before` is a total order (`BeforeOrders`), the rank of a finding, which counts those
before it, is one-to-one (`RankIsOneToOne`), and the first places are all taken (`TopIsWorst`).

`SeoEmployeeProofs` proves for all targets, timezones and calendars, items, kills, faults, reconfigurations and midnights (`QueueAssumption` is
RunQueue's; `CalendarAssumption`: each timezone has a date at each moment, and
the targets begin in such timezones; `NothingAssumption` tells an absent file from a document):

| theorem | property |
|---|---|
| `TypeCorrect` | `TypeOK` |
| `LocksGuardRuns` | `LockGuardsRun` |
| `RecordedKeysHaveReports` | `DailyKeyHasReport` |
| `PublishedReportsAreSaved` | `PublishedReportIsSaved` |
| `OneReportForEachKey` | `OneReportPerDailyKey` |
| `QueueIsUsedAsPromised` | the composition implements `RunQueue` |

The invariant is `EmployeeInv`. It contains RunQueue's own invariant, kept because every step is a step of the queue or leaves it alone. `ThreadInv`
says that the consumer holds an item exactly while it works and that its run is the last in the ledger; `ProgressInv` says for each `pc` which files the run has written;
`LockInv` that a lock of this process is the run's own or due to a failing file. `OneReportPerDailyKey` is a count, and its invariant `CreditInv`
keeps the account: while a key is not recorded and no run is between its report and the record, there are no more reports for it than
kills and faults; a run that raises or dies in between spends one of them. The calendar
need not go forward: a key is compared with keys only.

`TargetConfigProofs` proves for any threads, finite set of URLs, calls and faults (`OldUrlAssumption`: the URL of a file of version 1 is one of
the URLs; `AbsentAssumption` tells an absent file from a document):

| theorem | property |
|---|---|
| `TypeCorrect` | `TypeOK` |
| `AnswersAreKept` | `AnsweredIsKept` |
| `OwnersAreConfirmed` | `OwnershipWasConfirmed` |

The invariant is `ConfigInv`: `OwnershipInv` follows ownership through everything that may come to the file, the documents in the
threads' memories and the forms on their way; `CallsInv` says which of them has read the file when.

`BackupSnapshotProofs` proves for any volumes, clients, writes, scripts, failures and number of snapshots kept that is not zero (`KeepAssumption`,
as `prune_snapshots` demands; `PartsAssumption` keeps names apart):

| theorem | property |
|---|---|
| `TypeCorrect` | `TypeOK` |
| `NoMixedData` | `ServicesSeeOneMoment` |
| `ServicesRunAgain` | `ServicesComeBack` |
| `SnapshotsAreMoments` | `SnapshotIsOneMoment` |
| `NewestAreKept` | `NewestSurvive` |

The invariant is `BackupInv`. That a snapshot is of one moment rests on `QuietInv`: from the stop to the restart nothing is live, so what
has been copied still agrees with the data. `MomentsInv` carries that to the snapshots and back from them by a restore, `RunningInv` says which services may run
besides those that ran before, `PruneInv` that enough newer snapshots verify than those about to be deleted.

`PanelProofs` proves for any targets and whatever bounds on items, clicks, failures and polls (`NoneAssumption`: no target is called `None`;
`BoundsAssumption`: the bounds are numbers, and a chain polls at least once):

| theorem | property |
|---|---|
| `TypeCorrect` | `TypeOK` |
| `NewestShown` | `NewestIsShown` |
| `OneChain` | `OnePollingChain` |
| `WaitingWatched` | `WaitingIsWatched` |

The invariant is `PanelInv`: `ChainInv` (at most one call that asks and whose answer counts, or one timer, for the selected target),
`ShownInv` (the answer on its way is no older than what the page has seen) and types. `WaitingIsWatched` is inductive with them:
each handler that takes away the last watcher must leave the page ready, failed or strayed.

`TypeOK` says more than types here: what is listed is configured, what is selected is listed, and a chain has time left.
`BoundsInv` keeps it: `ListsInv` and `AboutListed` follow targets from `configured` through the answers to the page, `TimeInv` leaves
no poll without time, `ConsumerInv` compares the reports with the items that are done, and `CountsInv` counts the commands
that the service has not accepted, of which each is at one place only (`Stays`), however calls come and go.

Only model-checked: all liveness properties (`EveryItemSettles`, `EveryCallReturns`, `WorkerComesFree`,
`PollingEnds`), for liveness under fairness is out of the prover's reach. Every other property of a passing run is a theorem.
The four violated properties are counterexamples and need no proof.

## Not modelled

`Panel` sees the service through a queue and a document; a composition of `Panel` with `SeoEmployee` itself is out of TLC's reach on the
bounds that either needs alone. Errors of the state reader (a file that is malformed or cannot be read is shown as failed) are left out.

Left out: wording and layout of messages and reports, schema and secret filters (they only refuse), the category tables of
the profiles, `complete_from_evidence` (called by tests only), one-shot scripts (install, prepare, probe, release tools), address
filtering, third-party auditors, and the systemd units in
`runtime/systemd`: no script installs them, and a host process does not share the container's volumes.
