----------------------------- MODULE SeoEmployee -----------------------------
(***************************************************************************)
(* The running product: HTTP handlers and the minute scheduler put work     *)
(* into the queue, one consumer thread takes it out and audits a target     *)
(* step by step, and every step leaves a file behind.  The process may be   *)
(* killed between any two steps, and a read or write of a file may fail.    *)
(*                                                                         *)
(* Sources: runtime/product/server.py (threads), seo_employee_schedule.py   *)
(* (scheduler), seo_employee_run.py (admission, consumer) and               *)
(* run_seo_employee with its file helpers in seo_employee_service.py.       *)
(*                                                                         *)
(* Steps that touch only the consumer's memory are merged with the next     *)
(* step that reads or writes something shared.  A run is a number, the      *)
(* position of its record in the ledger "runs", which stands for what the   *)
(* running code knows of it and what its report says.                       *)
(***************************************************************************)
EXTENDS Integers, Sequences, FiniteSets

CONSTANTS Targets, Modes, MaxTerminal, MaxAttempts,
          Zones,        \* IANA timezones a target may be configured with
          LocalDate,    \* zone -> moment -> date on the calendar there
          FirstZone,    \* target -> timezone it is first configured with
          MaxRequests,  \* bound: items enqueued
          MaxClock,     \* bound: moments told apart, 0..MaxClock
          MaxCrashes,   \* bound: kills of the process
          MaxFaults,    \* bound: failing reads and writes
          MaxEvents,    \* bound: kills, failing files, reconfigurations and midnights together
          Nothing       \* an absent file

ASSUME NothingAssumption ==
  Nothing \notin Nat \cup [run : Nat, instance : Nat] \cup [status : STRING, run : Nat]
ASSUME QueueAssumption == MaxTerminal \in Nat /\ MaxTerminal >= 2 /\ MaxAttempts \in Nat /\ MaxAttempts >= 2
ASSUME BoundsAssumption == {MaxRequests, MaxClock, MaxCrashes, MaxFaults} \subseteq Nat
ASSUME CalendarAssumption == LocalDate \in [Zones -> [0..MaxClock -> Nat]] /\ FirstZone \in [Targets -> Zones]

VARIABLES
  items, held, claims,  \* the queue document and the claimed item: RunQueue
  owned,                \* config.json: targets with ownership_confirmed
  zone,                 \* config.json: target -> timezone
  clock,                \* the moment: midnights passed, in whatever zone
  lock,                 \* locks/<target>.lock
  state,                \* the target's current_state.json
  history, latest,      \* history/<run>.json and the latest report
  daily,                \* daily index: daily key -> run recorded as completed
  up, pc, run, promote, \* the process, the consumer thread and its locals
  outcome,              \* how the consumer will settle the held item
  admitted,             \* checked commands about to call enqueue
  runs,                 \* ledger of the runs started so far
  crashes, faults, changes  \* kills, failing files, reconfigurations so far

queueVars == <<items, held, claims>>
world == <<owned, zone, clock>>
files == <<lock, state, history, latest, daily>>
locals == <<up, pc, run, promote, outcome>>
budget == <<crashes, faults, changes>>
vars == <<queueVars, world, files, locals, admitted, runs, budget>>

Queue == INSTANCE RunQueue WITH Triggers <- {"manual", "daily"}, MaxId <- MaxRequests
-----------------------------------------------------------------------------
NoRun == 0
Results == {"ready", "partial", "failed"}

\* SERVICE_INSTANCE_ID is drawn anew by every process.
instance == crashes

\* _daily_key, in the target's own index: the date where the target is said to be.
DailyKey(t) == [date |-> LocalDate[zone[t]][clock], zone |-> zone[t]]

Run == runs[run]
HeldTarget == items[held].target_id

Init ==
  /\ Queue!Init
  /\ owned \in SUBSET Targets /\ zone = FirstZone /\ clock = 0
  /\ lock = [t \in Targets |-> Nothing]
  /\ state = [t \in Targets |-> Nothing]
  /\ history = [t \in Targets |-> {}]
  /\ latest = [t \in Targets |-> Nothing]
  /\ daily = [t \in Targets |-> [k \in {} |-> NoRun]]
  /\ up = TRUE /\ pc = "idle" /\ run = NoRun /\ promote = FALSE /\ outcome = "none"
  /\ admitted = {} /\ runs = <<>>
  /\ crashes = 0 /\ faults = 0 /\ changes = 0

MoreEvents == crashes + faults + changes + clock < MaxEvents

\* A failing read or write of a file.
Fault == faults < MaxFaults /\ MoreEvents /\ faults' = faults + 1 /\ UNCHANGED <<crashes, changes>>
NoFault == UNCHANGED budget
-----------------------------------------------------------------------------
(* The world: configuration, clock.                                         *)

\* configure replaces the whole target; what the run, the scheduler and the daily
\* key see of it is the confirmation and the timezone.
Configure(t) ==
  /\ up /\ MoreEvents
  /\ zone' \in {[zone EXCEPT ![t] = z] : z \in Zones}
  /\ owned' \in {owned \cup {t}, owned \ {t}}
  /\ <<owned', zone'>> # <<owned, zone>>
  /\ changes' = changes + 1
  /\ UNCHANGED <<queueVars, clock, files, locals, admitted, runs, crashes, faults>>

\* Somewhere a new day begins.
Midnight ==
  /\ clock < MaxClock /\ MoreEvents
  /\ clock' = clock + 1
  /\ UNCHANGED <<queueVars, owned, zone, files, locals, admitted, runs, budget>>
-----------------------------------------------------------------------------
(* Commands enter the queue in two steps: the configuration is read first,  *)
(* the queue is locked and written later.                                   *)

\* Bound: nobody asks for more than MaxRequests items.
MoreRequests == \A q \in DOMAIN items : q < MaxRequests

RunCommand(t) ==
  /\ up /\ t \in owned
  /\ <<t, "manual">> \notin admitted /\ MoreRequests
  /\ admitted' = admitted \cup {<<t, "manual">>}
  /\ UNCHANGED <<queueVars, world, files, locals, runs, budget>>

\* The target is due: its daily_run_time may be any time of the day.
SchedulerFinds(t) ==
  /\ up /\ t \in owned
  /\ \A u \in Targets : <<u, "daily">> \notin admitted
  /\ MoreRequests
  /\ admitted' = admitted \cup {<<t, "daily">>}
  /\ UNCHANGED <<queueVars, world, files, locals, runs>>

\* The scheduler asks the daily index first.
ScheduleTick(t) ==
  /\ DailyKey(t) \notin DOMAIN daily[t]
  /\ SchedulerFinds(t) /\ NoFault

\* _read_json_object turns an unreadable index into an empty one.
ScheduleTickBlind(t) ==
  /\ DailyKey(t) \in DOMAIN daily[t]
  /\ SchedulerFinds(t) /\ Fault

EnqueueCommand(t, tr, m) ==
  /\ <<t, tr>> \in admitted
  /\ admitted' = admitted \ {<<t, tr>>}
  /\ IF Queue!IsFree(items, t, tr)
     THEN \E q \in 1..MaxRequests : Queue!IsNextId(q, items) /\ Queue!Enqueue(q, t, tr, m)
     ELSE UNCHANGED queueVars
  /\ UNCHANGED <<world, files, locals, runs, budget>>
-----------------------------------------------------------------------------
(* The consumer thread: QueueConsumer._serve and process_queue_once.        *)

Consumer(at) == up /\ pc = at

Claim ==
  /\ Consumer("idle")
  /\ Queue!ClaimNext
  /\ pc' = "start"
  /\ UNCHANGED <<world, files, up, run, promote, outcome, admitted, runs, budget>>

\* Nothing to claim: the wait ends after wake_seconds and the loop goes round.
Wait ==
  /\ Consumer("idle")
  /\ Queue!Queued(items) = {} \/ Queue!Running(items) # {}
  /\ UNCHANGED vars

\* An exception outside process_queue_once's try ends the thread; the process
\* stays up.
ConsumerDies ==
  /\ Consumer("idle") /\ Fault
  /\ pc' = "dead"
  /\ UNCHANGED <<queueVars, world, files, up, run, promote, outcome, admitted, runs>>

Settling(result) ==
  /\ pc' = "settle" /\ outcome' = result
  /\ run' = NoRun /\ promote' = FALSE
  /\ UNCHANGED up

\* An exception of the worker or of the queue goes to the handler of
\* process_queue_once.
Excepting ==
  /\ pc' = "except" /\ outcome' = "failed"
  /\ run' = NoRun /\ promote' = FALSE
  /\ UNCHANGED up

Settle ==
  /\ Consumer("settle") /\ NoFault
  /\ IF outcome = "completed" THEN Queue!Complete ELSE Queue!Fail("run_failed")
  /\ pc' = "idle" /\ outcome' = "none"
  /\ UNCHANGED <<world, files, up, run, promote, admitted, runs>>

\* The queue file fails under complete or fail.
SettleRaises ==
  /\ Consumer("settle") /\ Fault
  /\ Excepting
  /\ UNCHANGED <<queueVars, world, files, admitted, runs>>

\* The handler fails the item, and tries that once.
FailExcepted ==
  /\ Consumer("except") /\ NoFault
  /\ Queue!Fail("run_failed")
  /\ pc' = "idle" /\ outcome' = "none"
  /\ UNCHANGED <<world, files, up, run, promote, admitted, runs>>

\* A failed read (QueueError) is swallowed, a failed write (OSError) ends the
\* thread; either way the document keeps saying running.
FailExceptedRaises ==
  /\ Consumer("except") /\ Fault
  /\ Queue!Abandon
  /\ pc' \in {"idle", "dead"} /\ outcome' = "none"
  /\ UNCHANGED <<world, files, up, run, promote, admitted, runs>>
-----------------------------------------------------------------------------
(* run_seo_employee, from the ownership gate to the release of the lock.    *)

\* The run is refused before it touches a file: ownership was withdrawn, or
\* the configuration or the name server does not answer.
RefuseRun ==
  /\ Consumer("start")
  /\ IF HeldTarget \in owned THEN Fault ELSE NoFault
  /\ Excepting
  /\ UNCHANGED <<queueVars, world, files, admitted, runs>>

LockedByThisProcess(t) == lock[t] # Nothing /\ lock[t].instance = instance

AnswerBusy ==
  /\ Consumer("start") /\ HeldTarget \in owned
  /\ LockedByThisProcess(HeldTarget)
  /\ Settling("completed")
  /\ UNCHANGED <<queueVars, world, files, admitted, runs, budget>>

\* _acquire_lock: a lock of another process is residue and is replaced; so is
\* one that cannot be read.
StartRun ==
  /\ Consumer("start") /\ HeldTarget \in owned
  /\ IF LockedByThisProcess(HeldTarget) THEN Fault ELSE NoFault
  /\ run' = Len(runs) + 1
  /\ runs' = Append(runs, [target |-> HeldTarget, item |-> held, key |-> DailyKey(HeldTarget),
                           trigger |-> items[held].trigger, result |-> "none"])
  /\ lock' = [lock EXCEPT ![HeldTarget] = [run |-> run', instance |-> instance]]
  /\ pc' = "check"
  /\ UNCHANGED <<queueVars, world, state, history, latest, daily,
                 up, promote, outcome, admitted>>

\* Faulty: the run does not ask the daily index again after the queue.
NotAskedAgain == FALSE

\* The key is that of the moment and of the configuration the run began with.
RecordedToday == Run.trigger = "daily" /\ Run.key \in DOMAIN daily[Run.target]

Finish(result, next) ==
  /\ outcome' = result /\ pc' = next
  /\ UNCHANGED <<up, run, promote>>

Goto(next) == pc' = next /\ UNCHANGED <<up, run, promote, outcome>>

AnswerDuplicate ==
  /\ Consumer("check") /\ RecordedToday
  /\ runs' = [runs EXCEPT ![run].result = "duplicate"]
  /\ Finish("completed", "release")
  /\ UNCHANGED <<queueVars, world, files, admitted, budget>>

PublishRunning ==
  /\ Consumer("check")
  /\ IF RecordedToday THEN Fault ELSE NoFault
  /\ state' = [state EXCEPT ![Run.target] = [status |-> "running", run |-> run]]
  /\ Goto("collect")
  /\ UNCHANGED <<queueVars, world, lock, history, latest, daily, admitted, runs>>

\* What the report says, and whether the run offers it as the new baseline, is
\* AuditReport's matter.
Collect(result) ==
  /\ Consumer("collect")
  /\ runs' = [runs EXCEPT ![run].result = result]
  /\ promote' \in {FALSE, result = "ready"}
  /\ pc' = "history"
  /\ UNCHANGED <<queueVars, world, files, up, run, outcome, admitted, budget>>

SaveHistory ==
  /\ Consumer("history")
  /\ history' = [history EXCEPT ![Run.target] = @ \cup {run}]
  /\ Goto("latest")
  /\ UNCHANGED <<queueVars, world, lock, state, latest, daily, admitted, runs, budget>>

\* Faulty: only the history copy of the report is written.
SaveHistoryOnly ==
  /\ Consumer("latest")
  /\ Goto(IF Run.trigger = "daily" THEN "record" ELSE "publish")
  /\ UNCHANGED <<queueVars, world, files, admitted, runs, budget>>

SaveLatest ==
  /\ Consumer("latest")
  /\ latest' = [latest EXCEPT ![Run.target] = run]
  /\ Goto(IF Run.trigger = "daily" THEN "record" ELSE "publish")
  /\ UNCHANGED <<queueVars, world, lock, state, history, daily, admitted, runs, budget>>

WithKey(index, key, r) == [k \in DOMAIN index \cup {key} |-> IF k = key THEN r ELSE index[k]]

\* Faulty: the key is taken when the run ends, not when it began.
RecordedAtEnd(index) == WithKey(index, DailyKey(Run.target), run)

\* Faulty: the key is recorded without the run.
RecordedNoRun(index) == WithKey(index, Run.key, NoRun)

\* The index is read, extended and replaced; an unreadable index is replaced by
\* one that holds this key only.
Recorded(index) == WithKey(index, Run.key, run)

RecordDaily ==
  /\ Consumer("record")
  /\ LET index == daily[Run.target] IN
     \/ NoFault /\ daily' = [daily EXCEPT ![Run.target] = Recorded(index)]
     \/ Fault /\ DOMAIN index # {}
              /\ daily' = [daily EXCEPT ![Run.target] = Recorded([k \in {} |-> NoRun])]
  /\ Goto("publish")
  /\ UNCHANGED <<queueVars, world, lock, state, history, latest, admitted, runs>>

Publish ==
  /\ Consumer("publish")
  /\ state' = [state EXCEPT ![Run.target] = [status |-> Run.result, run |-> run]]
  /\ Finish(IF Run.result = "failed" THEN "failed" ELSE "completed",
            IF promote THEN "baseline" ELSE "release")
  /\ UNCHANGED <<queueVars, world, lock, history, latest, daily, admitted, runs, budget>>

\* baseline.json is AuditReport's; here only that writing it may fail.
PromoteBaseline ==
  /\ Consumer("baseline")
  /\ Goto("release")
  /\ UNCHANGED <<queueVars, world, files, admitted, runs, budget>>

\* Any exception after the lock: the report is refused by the secret filter, or
\* a write fails.
Raise ==
  /\ \/ Consumer("collect") /\ NoFault
     \/ Consumer("history") /\ NoFault
     \/ up /\ pc \in {"check", "history", "latest", "record", "publish", "baseline"} /\ Fault
  /\ runs' = [runs EXCEPT ![run].result = IF @ = "none" THEN "raised" ELSE @]
  /\ Finish("failed", "handler")
  /\ UNCHANGED <<queueVars, world, files, admitted>>

\* The handler publishes failed; its own write failure is swallowed.
PublishFailed ==
  /\ Consumer("handler")
  /\ \/ NoFault /\ state' = [state EXCEPT ![Run.target] = [status |-> "failed", run |-> run]]
     \/ Fault /\ UNCHANGED state
  /\ Goto("release")
  /\ UNCHANGED <<queueVars, world, lock, history, latest, daily, admitted, runs>>

\* Faulty: a failed run keeps its lock.
ReleaseCompleted ==
  /\ Consumer("release") /\ NoFault
  /\ lock' = IF outcome = "completed" THEN [lock EXCEPT ![Run.target] = Nothing] ELSE lock
  /\ Settling(outcome)
  /\ UNCHANGED <<queueVars, world, state, history, latest, daily, admitted, runs>>

ReleaseLock ==
  /\ Consumer("release") /\ NoFault
  /\ lock' = IF lock[Run.target].run = run THEN [lock EXCEPT ![Run.target] = Nothing] ELSE lock
  /\ Settling(outcome)
  /\ UNCHANGED <<queueVars, world, state, history, latest, daily, admitted, runs>>

\* An unreadable lock is kept in silence; a failing unlink raises out of the
\* finally block.
KeepLock ==
  /\ Consumer("release") /\ Fault
  /\ Settling(outcome) \/ (lock[Run.target].run = run /\ Excepting)
  /\ UNCHANGED <<queueVars, world, files, admitted, runs>>
-----------------------------------------------------------------------------
(* The process dies and is restarted by the container runtime.              *)

Crash ==
  /\ up /\ crashes < MaxCrashes /\ MoreEvents
  /\ up' = FALSE /\ pc' = "down" /\ run' = NoRun /\ promote' = FALSE /\ outcome' = "none"
  /\ admitted' = {}
  /\ crashes' = crashes + 1
  /\ IF held = 0 THEN UNCHANGED queueVars ELSE Queue!Abandon
  /\ UNCHANGED <<world, files, runs, faults, changes>>

\* Faulty: the consumer starts without recovering the queue.
RestartOnly ==
  /\ ~up
  /\ up' = TRUE /\ pc' = "idle"
  /\ UNCHANGED <<queueVars, world, files, run, promote, outcome, admitted, runs, budget>>

Restart ==
  /\ ~up
  /\ Queue!RecoverInterrupted
  /\ up' = TRUE /\ pc' = "idle"
  /\ UNCHANGED <<world, files, run, promote, outcome, admitted, runs, budget>>
-----------------------------------------------------------------------------
ConsumerStep ==
  \/ Claim \/ Settle \/ FailExcepted
  \/ RefuseRun \/ AnswerBusy \/ StartRun \/ AnswerDuplicate \/ PublishRunning
  \/ \E result \in Results : Collect(result)
  \/ SaveHistory \/ SaveLatest \/ RecordDaily \/ Publish \/ PromoteBaseline
  \/ Raise \/ PublishFailed \/ ReleaseLock

StorageFails == ConsumerDies \/ SettleRaises \/ FailExceptedRaises \/ KeepLock

Enqueues == \E t \in Targets, tr \in {"manual", "daily"}, m \in Modes : EnqueueCommand(t, tr, m)

Next ==
  \/ \E t \in Targets : \/ Configure(t)
                        \/ RunCommand(t) \/ ScheduleTick(t) \/ ScheduleTickBlind(t)
  \/ Midnight
  \/ Enqueues
  \/ ConsumerStep \/ Wait \/ StorageFails
  \/ Crash \/ Restart

Spec == Init /\ [][Next]_vars

\* The consumer thread keeps running and compose.yaml restarts the process
\* ("restart: unless-stopped"); nothing obliges a user, the clock or a fault.
FairSpec == Spec /\ WF_vars(ConsumerStep) /\ WF_vars(Restart)
-----------------------------------------------------------------------------
RunIds == 1..Len(runs)
DailyKeys == [date : Nat, zone : Zones]
InProgress(n) == up /\ run = n

TypeOK ==
  /\ Queue!TypeOK
  /\ owned \subseteq Targets /\ zone \in [Targets -> Zones] /\ clock \in 0..MaxClock
  /\ \A t \in Targets :
       /\ lock[t] \in [run : RunIds, instance : 0..MaxCrashes] \cup {Nothing}
       /\ state[t] \in [status : Results \cup {"running"}, run : RunIds] \cup {Nothing}
       /\ history[t] \subseteq RunIds /\ latest[t] \in RunIds \cup {Nothing}
       /\ DOMAIN daily[t] \subseteq DailyKeys /\ daily[t] \in [DOMAIN daily[t] -> RunIds]
  /\ up \in BOOLEAN /\ promote \in BOOLEAN
  /\ pc \in {"idle", "start", "check", "collect", "history", "latest", "record", "publish",
             "baseline", "handler", "release", "settle", "except", "dead", "down"}
  /\ run \in RunIds \cup {NoRun} /\ outcome \in {"none", "completed", "failed"}
  /\ admitted \subseteq Targets \X {"manual", "daily"}

\* SC-SEO-006.  The lock files this process answers "duplicate" for are exactly
\* those of the run in progress, across kills and restarts: no residue refuses
\* a run, and no run goes on without its lock.
LockGuardsRun ==
  faults = 0 =>
    \A t \in Targets :
      LockedByThisProcess(t) <=> run # NoRun /\ Run.target = t /\ lock[t].run = run

\* A key recorded in the daily index has its own saved report: the run was started
\* by the daily trigger on that date in that timezone, and its report is in history.
DailyKeyHasReport ==
  \A t \in Targets : \A k \in DOMAIN daily[t] :
    LET r == runs[daily[t][k]] IN
    /\ daily[t][k] \in history[t]
    /\ r.target = t /\ r.trigger = "daily" /\ r.key = k /\ r.result \in Results

\* SC-SEO-023, SC-SEO-025.  A target shown as ready or partial shows the newest
\* report, that report is in history, and it has that result.
PublishedReportIsSaved ==
  \A t \in Targets :
    state[t] # Nothing /\ state[t].status \in {"ready", "partial"} =>
      /\ latest[t] = state[t].run /\ state[t].run \in history[t]
      /\ runs[state[t].run].target = t /\ runs[state[t].run].result = state[t].status

ReportsFor(t, k) ==
  {n \in history[t] : runs[n].trigger = "daily" /\ runs[n].key = k}

\* SC-SEO-005 as far as the code goes.  The scheduler asks the daily index before
\* the queue and the run asks it again after the queue, however the clock moves and
\* the timezone is changed in between: a target gets one daily report for a key,
\* that is for a date in a timezone, and at most one more for each kill or failing
\* file.  Reports, not runs: a run that raised has no entry and is tried again.
OneReportPerDailyKey ==
  \A t \in Targets : \A k \in {runs[n].key : n \in RunIds} :
    Cardinality(ReportsFor(t, k)) <= 1 + crashes + faults

\* SC-SEO-025: the state failed MUST be used if no report was saved.  Once a run is
\* over, with no report and nothing left that would repeat it, its target does not
\* go on saying running.
UnsavedIsFailed ==
  \A t \in Targets :
    state[t] # Nothing /\ state[t].status = "running" /\ state[t].run \notin history[t] =>
      ~up \/ InProgress(state[t].run) \/ runs[state[t].run].item \in Queue!Active(items)

\* Every accepted command is settled, whatever is enqueued around it and
\* although the process is killed, as long as the files answer.
EveryItemSettles ==
  \A q \in 1..MaxRequests :
    q \in Queue!Active(items) ~> q \notin Queue!Active(items) \/ faults > 0
=============================================================================
