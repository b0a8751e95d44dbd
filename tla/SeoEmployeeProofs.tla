--------------------------- MODULE SeoEmployeeProofs ---------------------------
(***************************************************************************)
(* What holds of the running product for any number of targets, timezones, *)
(* requests, midnights, kills and failing files, and any calendar.  The    *)
(* proofs about the queue are those of RunQueue: QueueIsUsedAsPromised      *)
(* carries them over.  For the rest, ProgressInv says which files a run has *)
(* written when its consumer stands at a step, HistoryInv ties what is      *)
(* saved to the ledger, and CreditInv counts the reports of a daily key.    *)
(***************************************************************************)
EXTENDS SeoEmployee, FiniteSetTheorems, TLAPS

QueueProofs == INSTANCE RunQueueProofs WITH Triggers <- {"manual", "daily"}, MaxId <- MaxRequests

Ledger == [target : Targets, item : 0..MaxRequests, key : DailyKeys, trigger : {"manual", "daily"},
           result : Results \cup {"none", "duplicate", "raised"}]

Auditing == {"check", "collect", "history", "latest", "record", "publish", "baseline", "handler", "release"}

WorldInv ==
  /\ owned \subseteq Targets /\ zone \in [Targets -> Zones] /\ clock \in 0..MaxClock
  /\ crashes \in 0..MaxCrashes /\ faults \in 0..MaxFaults
  /\ admitted \subseteq Targets \X {"manual", "daily"}

\* The consumer holds an item exactly while it works, and a run while it audits.
ThreadInv ==
  /\ pc \in Auditing \cup {"idle", "start", "settle", "except", "dead", "down"}
  /\ up \in BOOLEAN /\ promote \in BOOLEAN /\ outcome \in {"none", "completed", "failed"}
  /\ up <=> pc # "down"
  /\ held = 0 <=> pc \in {"idle", "dead", "down"}
  /\ runs \in Seq(Ledger)
  /\ run = IF pc \in Auditing THEN Len(runs) ELSE NoRun
  /\ pc \in Auditing => runs # <<>>

Locks == [run : RunIds, instance : 0..MaxCrashes]
States == [status : Results \cup {"running"}, run : RunIds]

FilesInv ==
  /\ state \in [Targets -> States \cup {Nothing}]
  /\ history \in [Targets -> SUBSET RunIds]
  /\ latest \in [Targets -> RunIds \cup {Nothing}]
  /\ DOMAIN daily = Targets /\ daily = [t \in Targets |-> daily[t]]
  /\ \A t \in Targets : DOMAIN daily[t] \subseteq DailyKeys /\ daily[t] \in [DOMAIN daily[t] -> RunIds]

\* What a run has written when the consumer stands at pc.
ProgressInv ==
  /\ pc \in {"check", "collect"} => Run.result = "none"
  /\ pc \in {"history", "latest", "record", "publish", "baseline"} => Run.result \in Results
  /\ pc = "handler" => Run.result \in Results \cup {"raised"}
  /\ pc = "record" => Run.trigger = "daily"
  /\ pc \in {"latest", "record", "publish", "baseline"} => run \in history[Run.target]
  /\ pc \in {"record", "publish", "baseline"} => latest[Run.target] = run
  /\ pc \in {"collect", "history", "latest", "record", "publish"} =>
       state[Run.target] = [status |-> "running", run |-> run]

\* A saved report is the finished report of a run of that target.
HistoryInv ==
  /\ \A t \in Targets : \A n \in history[t] : runs[n].target = t /\ runs[n].result \in Results
  /\ \A t \in Targets : state[t] # Nothing => runs[state[t].run].target = t

\* The lock of the run in progress is its own; a lock that outlives its run in
\* the same process is due to a failing file.
LockInv ==
  /\ lock \in [Targets -> Locks \cup {Nothing}]
  /\ pc \in Auditing => lock[Run.target] = [run |-> run, instance |-> crashes]
  /\ \A t \in Targets :
       lock[t] # Nothing =>
         /\ lock[t].instance <= crashes
         /\ faults = 0 /\ lock[t].instance = crashes => pc \in Auditing /\ t = Run.target

Reports(t, d) == Cardinality(ReportsFor(t, d))
Doing(t, d, steps) == pc \in steps /\ Run.target = t /\ Run.trigger = "daily" /\ Run.key = d

\* Every report beyond those that kills and faults account for is recorded, or
\* about to be; and a run that is about to save one has found the key free, or
\* a fault has hidden the index from it.
CreditInv ==
  \A t \in Targets, d \in DailyKeys :
    /\ Reports(t, d) <= 1 + crashes + faults
    /\ d \notin DOMAIN daily[t] /\ ~Doing(t, d, {"latest", "record"}) => Reports(t, d) <= crashes + faults
    /\ Doing(t, d, {"collect", "history"}) => Reports(t, d) <= crashes + faults

EmployeeInv ==
  /\ QueueProofs!QueueInv /\ WorldInv /\ ThreadInv /\ FilesInv /\ ProgressInv /\ HistoryInv
  /\ LockInv /\ DailyKeyHasReport /\ PublishedReportIsSaved /\ CreditInv
-----------------------------------------------------------------------------
(* The queue.                                                               *)

\* Queue and QueueProofs are two instances of one module: their actions agree.
LEMMA SameCardinality == ASSUME NEW S PROVE Queue!Cardinality(S) = QueueProofs!Cardinality(S)
BY DEF Queue!Cardinality, QueueProofs!Cardinality

LEMMA SameRetained == ASSUME NEW its PROVE Queue!Retained(its) = QueueProofs!Retained(its)
BY SameCardinality, Zenon
   DEF Queue!Retained, QueueProofs!Retained, Queue!Active, QueueProofs!Active, Queue!WithStatus,
       QueueProofs!WithStatus, Queue!ActiveStatus, QueueProofs!ActiveStatus, Queue!TerminalStatus,
       QueueProofs!TerminalStatus

LEMMA SameEnqueue ==
  ASSUME NEW q, NEW t, NEW tr, NEW m, Queue!Enqueue(q, t, tr, m)
  PROVE  QueueProofs!Enqueue(q, t, tr, m)
<1>1. Queue!IsFree(items, t, tr) <=> QueueProofs!IsFree(items, t, tr)
  BY DEF Queue!IsFree, QueueProofs!IsFree, Queue!Active, QueueProofs!Active, Queue!WithStatus,
     QueueProofs!WithStatus, Queue!ActiveStatus, QueueProofs!ActiveStatus, Queue!Key,
     QueueProofs!Key
<1> QED
  BY <1>1, SameRetained DEF Queue!Enqueue, QueueProofs!Enqueue, Queue!NewItem, QueueProofs!NewItem

LEMMA SameClaim == Queue!ClaimNext <=> QueueProofs!ClaimNext
BY DEF Queue!ClaimNext, QueueProofs!ClaimNext, Queue!WithStatus, QueueProofs!WithStatus,
   Queue!Queued, QueueProofs!Queued, Queue!Running, QueueProofs!Running, Queue!NoItem,
   QueueProofs!NoItem, Queue!Replace, QueueProofs!Replace

LEMMA SameSettle ==
  /\ Queue!Complete <=> QueueProofs!Complete
  /\ \A reason : Queue!Fail(reason) <=> QueueProofs!Fail(reason)
  /\ Queue!Abandon <=> QueueProofs!Abandon
BY DEF Queue!Complete, QueueProofs!Complete, Queue!Fail, QueueProofs!Fail, Queue!Abandon,
   QueueProofs!Abandon, Queue!WithStatus, QueueProofs!WithStatus, Queue!Running,
   QueueProofs!Running, Queue!NoItem, QueueProofs!NoItem, Queue!Replace, QueueProofs!Replace

LEMMA SameRecover == Queue!RecoverInterrupted <=> QueueProofs!RecoverInterrupted
BY DEF Queue!RecoverInterrupted, QueueProofs!RecoverInterrupted, Queue!Recovered,
   QueueProofs!Recovered, Queue!Replace, QueueProofs!Replace, Queue!NoItem, QueueProofs!NoItem

\* A step of the queue keeps what RunQueueProofs shows to be invariant.
LEMMA QueueStep == QueueProofs!QueueInv /\ [Queue!Next]_Queue!vars => QueueProofs!QueueInv'
<1> SUFFICES ASSUME QueueProofs!QueueInv, [Queue!Next]_Queue!vars PROVE QueueProofs!QueueInv' OBVIOUS
<1>1. [QueueProofs!Next]_QueueProofs!vars
  <2>1. UNCHANGED Queue!vars => UNCHANGED QueueProofs!vars BY DEF Queue!vars, QueueProofs!vars
  <2>2. ASSUME NEW q \in Queue!Ids, NEW t \in Targets, NEW tr \in {"manual", "daily"}, NEW m \in Modes,
               Queue!IsNextId(q, items), Queue!Enqueue(q, t, tr, m)
        PROVE  QueueProofs!Next
    BY <2>2, SameEnqueue DEF QueueProofs!Next, Queue!Ids, QueueProofs!Ids, Queue!IsNextId, QueueProofs!IsNextId
  <2>3. Queue!ClaimNext \/ Queue!Complete \/ Queue!Fail("run_failed") \/ Queue!Abandon
          \/ Queue!RecoverInterrupted => QueueProofs!Next
    BY SameClaim, SameSettle, SameRecover DEF QueueProofs!Next
  <2> QED BY <2>1, <2>2, <2>3 DEF Queue!Next
<1> QED BY <1>1, QueueProofs!StepInv, QueueAssumption, BoundsAssumption, Zenon

\* What the product needs to know of the queue in a state.
LEMMA QueueFacts ==
  ASSUME QueueProofs!QueueInv
  PROVE  /\ Queue!TypeOK
         /\ DOMAIN items \subseteq 1..MaxRequests /\ held \in 0..MaxRequests
         /\ held # 0 => /\ held \in DOMAIN items /\ held \in Queue!Running(items)
                        /\ items[held].target_id \in Targets /\ items[held].trigger \in {"manual", "daily"}
<1>1. Queue!TypeOK
  BY DEF QueueProofs!QueueInv, Queue!TypeOK, QueueProofs!TypeOK, Queue!Ids, QueueProofs!Ids, Queue!NoItem,
     QueueProofs!NoItem, Queue!Item, QueueProofs!Item, Queue!Reasons, QueueProofs!Reasons,
     Queue!ActiveStatus, QueueProofs!ActiveStatus, Queue!TerminalStatus, QueueProofs!TerminalStatus
<1>2. DOMAIN items \subseteq 1..MaxRequests /\ held \in 0..MaxRequests
  BY <1>1, BoundsAssumption DEF Queue!TypeOK, Queue!Ids, Queue!NoItem
<1>3. ASSUME held # 0
      PROVE  /\ held \in DOMAIN items /\ held \in Queue!Running(items)
             /\ items[held].target_id \in Targets /\ items[held].trigger \in {"manual", "daily"}
  <2>1. held \in DOMAIN items /\ items[held] \in Queue!Item BY <1>1, <1>3 DEF Queue!TypeOK, Queue!NoItem
  <2>2. held \in QueueProofs!Running(items)
    BY <1>3 DEF QueueProofs!QueueInv, QueueProofs!HeldIsRunning, QueueProofs!NoItem
  <2>3. held \in Queue!Running(items)
    BY <2>2 DEF Queue!Running, QueueProofs!Running, Queue!WithStatus, QueueProofs!WithStatus
  <2> QED BY <2>1, <2>3 DEF Queue!Item
<1> QED BY <1>1, <1>2, <1>3
-----------------------------------------------------------------------------
(* The ledger of runs grows, and a result is written once.                  *)

SameRun(n) ==
  /\ runs'[n].target = runs[n].target /\ runs'[n].item = runs[n].item
  /\ runs'[n].key = runs[n].key /\ runs'[n].trigger = runs[n].trigger
  /\ runs[n].result # "none" => runs'[n].result = runs[n].result

Extends ==
  /\ runs' \in Seq(Ledger) /\ Len(runs) <= Len(runs') /\ RunIds \subseteq RunIds'
  /\ \A n \in RunIds : SameRun(n)

\* The fields of a run.
LEMMA RunFields ==
  ASSUME runs \in Seq(Ledger), NEW n \in RunIds
  PROVE  /\ runs[n] \in Ledger
         /\ runs[n].target \in Targets /\ runs[n].item \in 0..MaxRequests /\ runs[n].key \in DailyKeys
         /\ runs[n].trigger \in {"manual", "daily"}
         /\ runs[n].result \in Results \cup {"none", "duplicate", "raised"}
<1>1. runs[n] \in Ledger BY DEF RunIds
<1> QED BY <1>1, SMT DEF Ledger

LEMMA LedgerSame == ASSUME runs \in Seq(Ledger), UNCHANGED runs PROVE Extends
<1>1. Len(runs) \in Nat OBVIOUS
<1> QED BY <1>1 DEF Extends, SameRun, RunIds

LEMMA LedgerAppended ==
  ASSUME runs \in Seq(Ledger), NEW r \in Ledger, runs' = Append(runs, r)
  PROVE  Extends /\ Len(runs') = Len(runs) + 1 /\ runs'[Len(runs) + 1] = r /\ Len(runs) + 1 \in RunIds'
<1>1. /\ Len(runs) \in Nat /\ runs' \in Seq(Ledger) /\ Len(runs') = Len(runs) + 1
      /\ runs'[Len(runs) + 1] = r
      /\ \A n \in 1..Len(runs) : runs'[n] = runs[n]
  OBVIOUS
<1>2. RunIds \subseteq RunIds' /\ Len(runs) + 1 \in RunIds' BY <1>1, SMT DEF RunIds
<1>3. \A n \in RunIds : SameRun(n) BY <1>1 DEF SameRun, RunIds
<1>4. Len(runs) <= Len(runs') BY <1>1
<1> QED BY <1>1, <1>2, <1>3, <1>4 DEF Extends

LEMMA MarkedRun ==
  ASSUME NEW r \in Ledger, NEW x \in Results \cup {"none", "duplicate", "raised"}
  PROVE  LET marked == [r EXCEPT !.result = x] IN
         /\ marked \in Ledger /\ marked.result = x
         /\ marked.target = r.target /\ marked.item = r.item
         /\ marked.key = r.key /\ marked.trigger = r.trigger
  BY SMT DEF Ledger

LEMMA LedgerMarked ==
  ASSUME runs \in Seq(Ledger), NEW n \in RunIds, NEW x \in Results \cup {"none", "duplicate", "raised"},
         runs' = [runs EXCEPT ![n].result = x],
         runs[n].result = "none" \/ x = runs[n].result
  PROVE  Extends /\ Len(runs') = Len(runs) /\ runs'[n].result = x
<1> DEFINE marked == [runs[n] EXCEPT !.result = x]
<1>1. runs[n] \in Ledger BY RunFields
<1>2. /\ marked \in Ledger /\ marked.result = x
      /\ marked.target = runs[n].target /\ marked.item = runs[n].item
      /\ marked.key = runs[n].key /\ marked.trigger = runs[n].trigger
  BY <1>1, MarkedRun
<1>3. runs' = [runs EXCEPT ![n] = marked] OBVIOUS
<1> HIDE DEF marked
<1>4. /\ Len(runs) \in Nat /\ runs' \in Seq(Ledger) /\ Len(runs') = Len(runs)
      /\ runs'[n] = marked
      /\ \A m \in RunIds \ {n} : runs'[m] = runs[m]
  BY <1>2, <1>3 DEF RunIds
<1>5. RunIds' = RunIds BY <1>4 DEF RunIds
<1>6. \A m \in RunIds : SameRun(m) BY <1>2, <1>4 DEF SameRun
<1> QED BY <1>2, <1>4, <1>5, <1>6 DEF Extends
-----------------------------------------------------------------------------
(* What a step leaves true when it does not write the files concerned.      *)

\* The saved reports and the daily indexes, under a growing ledger.
LEMMA SavedStay ==
  ASSUME EmployeeInv, Extends, UNCHANGED <<history, daily>>
  PROVE  DailyKeyHasReport'
<1>1. \A t \in Targets : \A d \in DOMAIN daily[t] : daily[t][d] \in RunIds
  BY DEF EmployeeInv, FilesInv
<1>2. ASSUME NEW t \in Targets, NEW d \in DOMAIN daily[t]
      PROVE  LET r == runs'[daily[t][d]] IN
             daily[t][d] \in history[t] /\ r.target = t /\ r.trigger = "daily" /\ r.key = d /\ r.result \in Results
  <2> DEFINE n == daily[t][d]
  <2>1. n \in RunIds /\ n \in history[t] BY <1>1, <1>2 DEF EmployeeInv, DailyKeyHasReport
  <2>2. runs[n].target = t /\ runs[n].trigger = "daily" /\ runs[n].key = d /\ runs[n].result \in Results
    BY <1>2 DEF EmployeeInv, DailyKeyHasReport
  <2>3. runs[n].result # "none" BY <2>2 DEF Results
  <2>4. SameRun(n) BY <2>1 DEF Extends
  <2> QED BY <2>1, <2>2, <2>3, <2>4 DEF SameRun
<1> QED BY <1>2 DEF DailyKeyHasReport

LEMMA PublishedStay ==
  ASSUME EmployeeInv, Extends, UNCHANGED <<history, latest, state>>
  PROVE  PublishedReportIsSaved'
<1> SUFFICES ASSUME NEW t \in Targets, state[t] # Nothing, state[t].status \in {"ready", "partial"}
             PROVE  /\ latest[t] = state[t].run /\ state[t].run \in history[t]
                    /\ runs'[state[t].run].target = t /\ runs'[state[t].run].result = state[t].status
  BY DEF PublishedReportIsSaved
<1>1. /\ latest[t] = state[t].run /\ state[t].run \in history[t]
      /\ runs[state[t].run].target = t /\ runs[state[t].run].result = state[t].status
  BY DEF EmployeeInv, PublishedReportIsSaved
<1>2. state[t].run \in RunIds BY <1>1 DEF EmployeeInv, FilesInv
<1>3. SameRun(state[t].run) BY <1>2 DEF Extends
<1> QED BY <1>1, <1>3 DEF SameRun

LEMMA HistoryStays ==
  ASSUME EmployeeInv, Extends, UNCHANGED <<history, state>>
  PROVE  HistoryInv'
<1>1. ASSUME NEW t \in Targets, NEW n \in history[t]
      PROVE  runs'[n].target = t /\ runs'[n].result \in Results
  <2>1. n \in RunIds BY <1>1 DEF EmployeeInv, FilesInv
  <2>2. runs[n].target = t /\ runs[n].result \in Results BY <1>1 DEF EmployeeInv, HistoryInv
  <2> QED BY <2>1, <2>2 DEF Extends, SameRun, Results
<1>2. ASSUME NEW t \in Targets, state[t] # Nothing PROVE runs'[state[t].run].target = t
  <2>1. state[t].run \in RunIds
    <3>1. state[t] \in States BY <1>2 DEF EmployeeInv, FilesInv
    <3> QED BY <3>1, SMT DEF States
  <2>2. runs[state[t].run].target = t BY <1>2 DEF EmployeeInv, HistoryInv
  <2> QED BY <2>1, <2>2 DEF Extends, SameRun
<1> QED BY <1>1, <1>2 DEF HistoryInv

\* The types of the files, under a growing ledger.
LEMMA FilesTyped ==
  ASSUME FilesInv, Extends
  PROVE  /\ state \in [Targets -> States' \cup {Nothing}]
         /\ history \in [Targets -> SUBSET RunIds']
         /\ latest \in [Targets -> RunIds' \cup {Nothing}]
         /\ \A t \in Targets : daily[t] \in [DOMAIN daily[t] -> RunIds']
<1>1. RunIds \subseteq RunIds' BY DEF Extends
<1>2. States \subseteq States'
  <2> SUFFICES ASSUME NEW r \in States PROVE r \in States' OBVIOUS
  <2> QED BY <1>1, SMT DEF States
<1> QED BY <1>1, <1>2 DEF FilesInv

\* A fault counts as one mishap more, and no fault as none.
LEMMA Mishaps ==
  ASSUME WorldInv
  PROVE  /\ crashes \in Nat /\ faults \in Nat
         /\ Fault => /\ faults' \in 0..MaxFaults /\ crashes' = crashes /\ faults' # 0
                     /\ crashes + faults < crashes' + faults'
         /\ NoFault => faults' = faults /\ crashes' = crashes
<1>1. crashes \in Nat /\ faults \in Nat /\ faults \in 0..MaxFaults /\ MaxFaults \in Nat
  BY BoundsAssumption DEF WorldInv
<1>2. Fault => /\ faults' \in 0..MaxFaults /\ crashes' = crashes /\ faults' # 0
               /\ crashes + faults < crashes' + faults'
  BY <1>1, SMT DEF Fault
<1>3. NoFault => faults' = faults /\ crashes' = crashes BY DEF NoFault, budget
<1> QED BY <1>1, <1>2, <1>3

\* The reports of a key are a finite set, which a growing ledger does not change.
LEMMA ReportsKept ==
  ASSUME EmployeeInv, NEW t \in Targets, NEW d
  PROVE  /\ IsFiniteSet(ReportsFor(t, d)) /\ Reports(t, d) \in Nat
         /\ Extends /\ history'[t] = history[t] => ReportsFor(t, d)' = ReportsFor(t, d)
<1>1. history[t] \subseteq RunIds BY DEF EmployeeInv, FilesInv
<1>2. Len(runs) \in Nat BY DEF EmployeeInv, ThreadInv
<1>3. IsFiniteSet(RunIds) BY <1>2, FS_Interval DEF RunIds
<1>4. IsFiniteSet(ReportsFor(t, d)) BY <1>1, <1>3, FS_Subset DEF ReportsFor
<1>5. Reports(t, d) \in Nat BY <1>4, FS_CardinalityType DEF Reports
<1>6. ASSUME Extends, history'[t] = history[t] PROVE ReportsFor(t, d)' = ReportsFor(t, d)
  BY <1>1, <1>6 DEF ReportsFor, Extends, SameRun
<1> QED BY <1>4, <1>5, <1>6

\* More mishaps account for more reports.
LEMMA MoreMishaps ==
  \A n, c, f, c1, f1 \in Nat :
    c + f <= c1 + f1 /\ n <= 1 + c + f =>
      /\ n <= 1 + c1 + f1
      /\ n <= c + f => n <= c1 + f1
      /\ c + f < c1 + f1 => n <= c1 + f1
BY SMT

\* The account of the reports stays in order when no report is saved and no
\* record is lost, and a run that leaves the steps before its record costs a mishap.
LEMMA CreditStays ==
  ASSUME EmployeeInv, Extends, UNCHANGED <<history, daily>>, crashes' \in Nat, faults' \in Nat,
         crashes + faults <= crashes' + faults',
         \A t \in Targets, d \in DailyKeys :
           /\ Doing(t, d, {"latest", "record"}) =>
                Doing(t, d, {"latest", "record"})' \/ crashes + faults < crashes' + faults'
           /\ Doing(t, d, {"collect", "history"})' =>
                \/ Doing(t, d, {"collect", "history"})
                \/ crashes + faults < crashes' + faults'
                \/ d \notin DOMAIN daily[t] /\ ~Doing(t, d, {"latest", "record"})
  PROVE  CreditInv'
<1> SUFFICES ASSUME NEW t \in Targets, NEW d \in DailyKeys
             PROVE  (/\ Reports(t, d) <= 1 + crashes + faults
                     /\ d \notin DOMAIN daily[t] /\ ~Doing(t, d, {"latest", "record"}) =>
                          Reports(t, d) <= crashes + faults
                     /\ Doing(t, d, {"collect", "history"}) => Reports(t, d) <= crashes + faults)'
  BY DEF CreditInv
<1>1. PICK n \in Nat : n = Reports(t, d) /\ n = Reports(t, d)' BY ReportsKept DEF Reports
<1>2. crashes \in Nat /\ faults \in Nat BY Mishaps DEF EmployeeInv
<1>3. /\ n <= 1 + crashes + faults
      /\ d \notin DOMAIN daily[t] /\ ~Doing(t, d, {"latest", "record"}) => n <= crashes + faults
      /\ Doing(t, d, {"collect", "history"}) => n <= crashes + faults
  BY <1>1 DEF EmployeeInv, CreditInv
<1>4. /\ n <= 1 + crashes' + faults'
      /\ n <= crashes + faults => n <= crashes' + faults'
      /\ crashes + faults < crashes' + faults' => n <= crashes' + faults'
  <2>1. n <= 1 + crashes + faults BY <1>3
  <2> QED BY <1>2, <2>1, MoreMishaps
<1>5. ASSUME d \notin DOMAIN daily'[t], ~Doing(t, d, {"latest", "record"})'
      PROVE  n <= crashes' + faults'
  <2>1. CASE Doing(t, d, {"latest", "record"}) BY <1>4, <1>5, <2>1
  <2>2. CASE ~Doing(t, d, {"latest", "record"}) BY <1>3, <1>4, <1>5, <2>2
  <2> QED BY <2>1, <2>2
<1>6. ASSUME Doing(t, d, {"collect", "history"})' PROVE n <= crashes' + faults'
  BY <1>3, <1>4, <1>6
<1> QED BY <1>1, <1>4, <1>5, <1>6

\* Outside of an audit only the account matters.
LEMMA FilesOutside ==
  ASSUME EmployeeInv, pc' \notin Auditing, UNCHANGED <<runs, state, history, latest, daily>>,
         crashes' \in Nat, faults' \in Nat, crashes + faults <= crashes' + faults',
         pc \in {"latest", "record"} => crashes + faults < crashes' + faults'
  PROVE  FilesInv' /\ ProgressInv' /\ HistoryInv' /\ DailyKeyHasReport' /\ PublishedReportIsSaved' /\ CreditInv'
<1>1. Extends BY LedgerSame DEF EmployeeInv, ThreadInv
<1>2. HistoryInv' /\ DailyKeyHasReport' /\ PublishedReportIsSaved'
  BY <1>1, HistoryStays, SavedStay, PublishedStay
<1>3. FilesInv' BY DEF EmployeeInv, FilesInv, States, RunIds
<1>4. ProgressInv' BY DEF ProgressInv, Auditing
<1>5. CreditInv'
  <2>1. \A t \in Targets, d \in DailyKeys :
          /\ Doing(t, d, {"latest", "record"}) =>
               Doing(t, d, {"latest", "record"})' \/ crashes + faults < crashes' + faults'
          /\ Doing(t, d, {"collect", "history"})' => Doing(t, d, {"collect", "history"})
    BY DEF Doing, Auditing
  <2> QED BY <1>1, <2>1, CreditStays
<1> QED BY <1>2, <1>3, <1>4, <1>5

\* A lock that no step writes stays with the run in progress.
LEMMA LockStays ==
  ASSUME EmployeeInv, Extends, lock' = lock, crashes' = crashes, faults' = 0 => faults = 0,
         pc \in Auditing <=> pc' \in Auditing, pc \in Auditing => run' = run
  PROVE  LockInv'
<1>1. Locks \subseteq Locks'
  <2> SUFFICES ASSUME NEW r \in Locks PROVE r \in Locks' OBVIOUS
  <2> QED BY SMT DEF Locks, Extends
<1>2. pc \in Auditing => run \in RunIds /\ Run.target = Run.target'
  <2> SUFFICES ASSUME pc \in Auditing PROVE run \in RunIds /\ Run.target = Run.target' OBVIOUS
  <2>1. run \in RunIds
    <3>1. runs \in Seq(Ledger) /\ runs # <<>> /\ run = Len(runs) BY DEF EmployeeInv, ThreadInv
    <3> QED BY <3>1, SMT DEF RunIds
  <2> QED BY <2>1 DEF Extends, SameRun, Run
<1>3. lock' \in [Targets -> Locks' \cup {Nothing}] BY <1>1 DEF EmployeeInv, LockInv
<1>4. pc' \in Auditing => lock'[Run.target'] = [run |-> run', instance |-> crashes']
  BY <1>2 DEF EmployeeInv, LockInv
<1>5. ASSUME NEW t \in Targets, lock'[t] # Nothing
      PROVE  /\ lock'[t].instance <= crashes'
             /\ faults' = 0 /\ lock'[t].instance = crashes' => pc' \in Auditing /\ t = Run.target'
  BY <1>2, <1>5 DEF EmployeeInv, LockInv
<1> QED BY <1>3, <1>4, <1>5 DEF LockInv

\* What an auditing step leaves alone: the queue, the world and the lock.
LEMMA AuditStep ==
  ASSUME EmployeeInv, pc \in Auditing, pc' \in Auditing, run' = run, UNCHANGED <<queueVars, world, up, lock, admitted>>,
         promote' \in BOOLEAN, outcome' \in {"none", "completed", "failed"},
         Extends, Len(runs') = Len(runs), Fault \/ NoFault
  PROVE  QueueProofs!QueueInv' /\ WorldInv' /\ ThreadInv' /\ LockInv'
<1>1. QueueProofs!QueueInv' BY QueueStep DEF queueVars, Queue!vars, EmployeeInv
<1>2. /\ faults' \in 0..MaxFaults /\ crashes' \in 0..MaxCrashes /\ crashes' = crashes
      /\ faults' = 0 => faults = 0
  BY Mishaps DEF EmployeeInv, WorldInv
<1>3. WorldInv' BY <1>2 DEF EmployeeInv, WorldInv, world
<1>4. ThreadInv' BY DEF EmployeeInv, ThreadInv, Extends, queueVars, Auditing
<1>5. LockInv' BY <1>2, LockStays
<1> QED BY <1>1, <1>3, <1>4, <1>5
-----------------------------------------------------------------------------
(* The steps of the world, of the commands and of the consumer between      *)
(* audits.                                                                  *)

\* A daily key is a date of the calendar with the timezone it was taken in.
LEMMA KeyTyped == ASSUME WorldInv, NEW t \in Targets PROVE DailyKey(t) \in DailyKeys
<1>1. zone[t] \in Zones /\ clock \in 0..MaxClock BY DEF WorldInv
<1>2. LocalDate[zone[t]] \in [0..MaxClock -> Nat] BY <1>1, CalendarAssumption
<1>3. LocalDate[zone[t]][clock] \in Nat BY <1>1, <1>2
<1> QED BY <1>1, <1>3 DEF DailyKey, DailyKeys

\* Mishaps add up.
LEMMA Sums ==
  ASSUME NEW c \in Nat, NEW f \in Nat
  PROVE  /\ c + f < (c + 1) + f /\ c + f <= (c + 1) + f
         /\ \A g \in Nat : f <= g => c + f <= c + g /\ (g = 0 => f = 0)
BY SMT

\* A step that leaves the consumer, the files and the ledger alone.
LEMMA Aside ==
  ASSUME EmployeeInv, [Queue!Next]_Queue!vars, held' = held, UNCHANGED <<files, locals, runs>>, WorldInv',
         crashes' = crashes, faults \in Nat, faults' \in Nat, faults <= faults'
  PROVE  EmployeeInv'
<1> USE DEF files, locals
<1>1. QueueProofs!QueueInv' BY QueueStep DEF EmployeeInv
<1>2. ThreadInv' BY DEF EmployeeInv, ThreadInv
<1>3. Extends BY LedgerSame DEF EmployeeInv, ThreadInv
<1>4. HistoryInv' /\ DailyKeyHasReport' /\ PublishedReportIsSaved'
  BY <1>3, HistoryStays, SavedStay, PublishedStay
<1>5. FilesInv' BY DEF EmployeeInv, FilesInv, States, RunIds
<1>6. ProgressInv' BY DEF EmployeeInv, ProgressInv, Run
<1>7. /\ crashes \in Nat /\ crashes' \in Nat /\ crashes + faults <= crashes' + faults'
      /\ faults' = 0 => faults = 0
  <2>1. crashes \in Nat BY Mishaps DEF EmployeeInv
  <2> QED BY <2>1, Sums
<1>8. CreditInv'
  <2>1. \A t \in Targets, d \in DailyKeys :
          /\ Doing(t, d, {"latest", "record"}) =>
               Doing(t, d, {"latest", "record"})' \/ crashes + faults < crashes' + faults'
          /\ Doing(t, d, {"collect", "history"})' => Doing(t, d, {"collect", "history"})
    BY DEF Doing, Run
  <2> QED BY <1>3, <1>7, <2>1, CreditStays
<1>9. LockInv' BY <1>3, <1>7, LockStays
<1> QED BY <1>1, <1>2, <1>4, <1>5, <1>6, <1>8, <1>9 DEF EmployeeInv

\* One lemma for each action of SeoEmployee: the step keeps the invariant.
LEMMA ConfigureKeepsInv ==
  ASSUME EmployeeInv, NEW t \in Targets, Configure(t) PROVE EmployeeInv'
<1>1. crashes' = crashes /\ faults' = faults /\ held' = held BY DEF Configure, queueVars
<1>2. [Queue!Next]_Queue!vars BY DEF Configure, queueVars, Queue!vars
<1>3. faults \in Nat /\ faults <= faults' BY <1>1, Mishaps, SMT DEF EmployeeInv
<1>4. UNCHANGED <<files, locals, runs>> BY DEF Configure
<1>5. WorldInv'
  <2>1. owned' \subseteq Targets BY DEF EmployeeInv, WorldInv, Configure
  <2>2. PICK z \in Zones : zone' = [zone EXCEPT ![t] = z] BY DEF Configure
  <2>3. zone' \in [Targets -> Zones] BY <2>2 DEF EmployeeInv, WorldInv
  <2>4. UNCHANGED <<clock, admitted>> BY DEF Configure
  <2> QED BY <1>1, <2>1, <2>3, <2>4 DEF EmployeeInv, WorldInv
<1> QED BY <1>1, <1>2, <1>3, <1>4, <1>5, Aside

LEMMA MidnightKeepsInv == ASSUME EmployeeInv, Midnight PROVE EmployeeInv'
<1>1. crashes' = crashes /\ faults' = faults /\ held' = held BY DEF Midnight, budget, queueVars
<1>2. clock' \in 0..MaxClock BY BoundsAssumption, SMT DEF Midnight, EmployeeInv, WorldInv
<1>3. WorldInv' BY <1>1, <1>2 DEF EmployeeInv, WorldInv, Midnight
<1>4. [Queue!Next]_Queue!vars BY DEF Midnight, queueVars, Queue!vars
<1>5. faults \in Nat /\ faults <= faults' BY <1>1, Mishaps, SMT DEF EmployeeInv
<1>6. UNCHANGED <<files, locals, runs>> BY DEF Midnight
<1> QED BY <1>1, <1>3, <1>4, <1>5, <1>6, Aside

LEMMA CommandKeepsInv ==
  ASSUME EmployeeInv, NEW t \in Targets, RunCommand(t) \/ ScheduleTick(t) \/ ScheduleTickBlind(t)
  PROVE  EmployeeInv'
<1>1. /\ UNCHANGED <<queueVars, world, files, locals, runs>>
      /\ NoFault \/ Fault
      /\ \E tr \in {"manual", "daily"} : admitted' = admitted \cup {<<t, tr>>}
  BY DEF RunCommand, ScheduleTick, ScheduleTickBlind, SchedulerFinds, NoFault
<1>2. crashes' = crashes /\ faults \in Nat /\ faults' \in 0..MaxFaults /\ faults <= faults'
  BY <1>1, Mishaps, BoundsAssumption, SMT DEF EmployeeInv, WorldInv, Fault
<1>3. WorldInv' BY <1>1, <1>2 DEF EmployeeInv, WorldInv, world
<1>4. [Queue!Next]_Queue!vars /\ held' = held BY <1>1 DEF queueVars, Queue!vars
<1>5. faults' \in Nat BY <1>2, BoundsAssumption, SMT
<1> QED BY <1>1, <1>2, <1>3, <1>4, <1>5, Aside

LEMMA EnqueueKeepsInv ==
  ASSUME EmployeeInv, NEW t \in Targets, NEW tr \in {"manual", "daily"}, NEW m \in Modes, EnqueueCommand(t, tr, m)
  PROVE  EmployeeInv'
<1>1. /\ UNCHANGED <<world, files, locals, runs, budget>>
      /\ admitted' \subseteq admitted
  BY DEF EnqueueCommand
<1>2. crashes' = crashes /\ faults' = faults BY <1>1 DEF budget
<1>3. faults \in Nat /\ faults <= faults' BY <1>2, Mishaps, SMT DEF EmployeeInv
<1>4. WorldInv' BY <1>1, <1>2 DEF EmployeeInv, WorldInv, world
<1>5. [Queue!Next]_Queue!vars /\ held' = held
  BY DEF EnqueueCommand, queueVars, Queue!vars, Queue!Next, Queue!Enqueue, Queue!Ids
<1> QED BY <1>1, <1>2, <1>3, <1>4, <1>5, Aside

\* A step of the consumer that neither begins nor goes on with an audit.
LEMMA Outside ==
  ASSUME EmployeeInv, [Queue!Next]_Queue!vars, WorldInv', ThreadInv', LockInv',
         pc' \notin Auditing, UNCHANGED <<runs, state, history, latest, daily>>,
         crashes + faults <= crashes' + faults',
         pc \in {"latest", "record"} => crashes + faults < crashes' + faults'
  PROVE  EmployeeInv'
<1>1. QueueProofs!QueueInv' BY QueueStep DEF EmployeeInv
<1>2. crashes' \in Nat /\ faults' \in Nat BY BoundsAssumption, SMT DEF WorldInv
<1>3. FilesInv' /\ ProgressInv' /\ HistoryInv' /\ DailyKeyHasReport' /\ PublishedReportIsSaved' /\ CreditInv'
  BY <1>2, FilesOutside
<1> QED BY <1>1, <1>3 DEF EmployeeInv

\* The same between audits, where the locks stay too.
LEMMA Between ==
  ASSUME EmployeeInv, [Queue!Next]_Queue!vars, ThreadInv', pc \notin Auditing, pc' \notin Auditing,
         UNCHANGED <<runs, files, world, admitted>>, Fault \/ NoFault
  PROVE  EmployeeInv'
<1>1. /\ faults' \in 0..MaxFaults /\ crashes' = crashes /\ crashes + faults <= crashes' + faults'
      /\ faults' = 0 => faults = 0
  <2>1. crashes \in Nat /\ faults \in Nat /\ faults' \in 0..MaxFaults /\ crashes' = crashes
    BY Mishaps DEF EmployeeInv, WorldInv
  <2>2. faults' \in Nat BY <2>1, BoundsAssumption, SMT
  <2>3. faults <= faults'
    <3>1. CASE NoFault BY <2>1, <3>1 DEF NoFault, budget
    <3>2. CASE Fault BY <2>1, <3>2 DEF Fault
    <3> QED BY <3>1, <3>2
  <2> QED BY <2>1, <2>2, <2>3, Sums
<1>2. WorldInv' BY <1>1 DEF EmployeeInv, WorldInv, world
<1>3. Extends BY LedgerSame DEF EmployeeInv, ThreadInv
<1>4. LockInv' BY <1>1, <1>3, LockStays DEF files
<1>5. pc \notin {"latest", "record"} BY DEF Auditing
<1> QED BY <1>1, <1>2, <1>4, <1>5, Outside DEF files

LEMMA ClaimKeepsInv == ASSUME EmployeeInv, Claim PROVE EmployeeInv'
<1>1. /\ pc = "idle" /\ pc' = "start" /\ UNCHANGED <<world, files, up, run, promote, outcome, admitted, runs>>
      /\ NoFault /\ Queue!ClaimNext
  BY DEF Claim, Consumer, NoFault
<1>2. [Queue!Next]_Queue!vars BY <1>1 DEF Queue!Next
<1>3. held' # 0
  <2>1. DOMAIN items \subseteq 1..MaxRequests BY QueueFacts DEF EmployeeInv
  <2>2. held' \in DOMAIN items BY <1>1 DEF Queue!ClaimNext, Queue!Queued, Queue!WithStatus
  <2> QED BY <2>1, <2>2, SMT
<1>4. ThreadInv' BY <1>1, <1>3 DEF EmployeeInv, ThreadInv, Auditing
<1>5. pc \notin Auditing /\ pc' \notin Auditing BY <1>1 DEF Auditing
<1> QED BY <1>1, <1>2, <1>4, <1>5, Between

LEMMA ConsumerDiesKeepsInv == ASSUME EmployeeInv, ConsumerDies PROVE EmployeeInv'
<1>1. /\ pc = "idle" /\ pc' = "dead" /\ UNCHANGED <<world, files, up, run, promote, outcome, admitted, runs>>
      /\ Fault /\ UNCHANGED queueVars
  BY DEF ConsumerDies, Consumer
<1>2. [Queue!Next]_Queue!vars /\ held' = held BY <1>1 DEF queueVars, Queue!vars
<1>3. ThreadInv' BY <1>1, <1>2 DEF EmployeeInv, ThreadInv, Auditing
<1>4. pc \notin Auditing /\ pc' \notin Auditing BY <1>1 DEF Auditing
<1> QED BY <1>1, <1>2, <1>3, <1>4, Between

\* The item is settled, or the consumer lets go of it.
LEMMA SettleKeepsInv ==
  ASSUME EmployeeInv, Settle \/ FailExcepted \/ FailExceptedRaises PROVE EmployeeInv'
<1>1. /\ pc \in {"settle", "except"} /\ pc' \in {"idle", "dead"} /\ outcome' = "none"
      /\ UNCHANGED <<world, files, up, run, promote, admitted, runs>>
      /\ Fault \/ NoFault
      /\ Queue!Complete \/ Queue!Fail("run_failed") \/ Queue!Abandon
  BY DEF Settle, FailExcepted, FailExceptedRaises, Consumer
<1>2. [Queue!Next]_Queue!vars BY <1>1 DEF Queue!Next
<1>3. held' = 0 BY <1>1 DEF Queue!Complete, Queue!Fail, Queue!Abandon, Queue!NoItem
<1>4. up BY <1>1 DEF EmployeeInv, ThreadInv
<1>5. ThreadInv' BY <1>1, <1>3, <1>4 DEF EmployeeInv, ThreadInv, Auditing
<1>6. pc \notin Auditing /\ pc' \notin Auditing BY <1>1 DEF Auditing
<1> QED BY <1>1, <1>2, <1>5, <1>6, Between

LEMMA SettleRaisesKeepsInv == ASSUME EmployeeInv, SettleRaises PROVE EmployeeInv'
<1>1. /\ pc = "settle" /\ pc' = "except" /\ outcome' = "failed" /\ run' = NoRun /\ promote' = FALSE
      /\ UNCHANGED <<queueVars, world, files, up, admitted, runs>> /\ Fault
  BY DEF SettleRaises, Excepting, Consumer
<1>2. [Queue!Next]_Queue!vars /\ held' = held BY <1>1 DEF queueVars, Queue!vars
<1>3. ThreadInv' BY <1>1, <1>2 DEF EmployeeInv, ThreadInv, Auditing
<1>4. pc \notin Auditing /\ pc' \notin Auditing BY <1>1 DEF Auditing
<1> QED BY <1>1, <1>2, <1>3, <1>4, Between

\* The run is refused, or another run of this process is under way.
LEMMA RefuseKeepsInv == ASSUME EmployeeInv, RefuseRun \/ AnswerBusy PROVE EmployeeInv'
<1>1. /\ pc = "start" /\ pc' \in {"settle", "except"} /\ outcome' \in {"failed", "completed"}
      /\ run' = NoRun /\ promote' = FALSE
      /\ UNCHANGED <<queueVars, world, files, up, admitted, runs>>
      /\ Fault \/ NoFault
  BY DEF RefuseRun, AnswerBusy, Consumer, Settling, Excepting, NoFault
<1>2. [Queue!Next]_Queue!vars /\ held' = held BY <1>1 DEF queueVars, Queue!vars
<1>3. ThreadInv' BY <1>1, <1>2 DEF EmployeeInv, ThreadInv, Auditing
<1>4. pc \notin Auditing /\ pc' \notin Auditing BY <1>1 DEF Auditing
<1> QED BY <1>1, <1>2, <1>3, <1>4, Between

\* A kill leaves every lock behind as residue of another process.
LEMMA CrashKeepsInv == ASSUME EmployeeInv, Crash PROVE EmployeeInv'
<1>1. /\ up' = FALSE /\ pc' = "down" /\ run' = NoRun /\ promote' = FALSE /\ outcome' = "none"
      /\ admitted' = {} /\ crashes' = crashes + 1 /\ crashes < MaxCrashes /\ faults' = faults
      /\ UNCHANGED <<world, files, runs>>
  BY DEF Crash
<1>2. [Queue!Next]_Queue!vars /\ held' = 0
  <2>1. CASE held = 0 BY <2>1 DEF Crash, queueVars, Queue!vars
  <2>2. CASE held # 0 BY <2>2 DEF Crash, Queue!Next, Queue!Abandon, Queue!NoItem
  <2> QED BY <2>1, <2>2
<1>3. /\ crashes \in Nat /\ faults \in Nat /\ crashes' \in 0..MaxCrashes
      /\ crashes + faults < crashes' + faults' /\ crashes + faults <= crashes' + faults'
  <2>1. crashes \in 0..MaxCrashes /\ crashes \in Nat /\ faults \in Nat BY Mishaps DEF EmployeeInv, WorldInv
  <2>2. crashes' \in 0..MaxCrashes BY <1>1, <2>1, BoundsAssumption, SMT
  <2> QED BY <1>1, <2>1, <2>2, Sums
<1>4. WorldInv' BY <1>1, <1>3 DEF EmployeeInv, WorldInv, world
<1>5. pc' \notin Auditing BY <1>1 DEF Auditing
<1>6. ThreadInv' BY <1>1, <1>2, <1>5 DEF EmployeeInv, ThreadInv
<1>7. LockInv'
  <2>1. lock \in [Targets -> Locks \cup {Nothing}] BY DEF EmployeeInv, LockInv
  <2>2. ASSUME NEW t \in Targets, lock[t] # Nothing
        PROVE  lock[t].instance <= crashes' /\ lock[t].instance # crashes'
    <3>1. lock[t] \in Locks /\ lock[t].instance <= crashes BY <2>1, <2>2 DEF EmployeeInv, LockInv
    <3>2. lock[t].instance \in 0..MaxCrashes BY <3>1, SMT DEF Locks
    <3> QED BY <1>1, <1>3, <3>1, <3>2, BoundsAssumption, SMT
  <2>3. lock' = lock /\ Locks' = Locks BY <1>1 DEF files, Locks, RunIds
  <2> QED BY <1>5, <2>1, <2>2, <2>3 DEF LockInv
<1> QED BY <1>1, <1>2, <1>3, <1>4, <1>5, <1>6, <1>7, Outside DEF files

LEMMA RestartKeepsInv == ASSUME EmployeeInv, Restart PROVE EmployeeInv'
<1>1. /\ up' = TRUE /\ pc' = "idle" /\ UNCHANGED <<world, files, run, promote, outcome, admitted, runs>>
      /\ NoFault /\ Queue!RecoverInterrupted /\ ~up
  BY DEF Restart, NoFault
<1>2. [Queue!Next]_Queue!vars /\ held' = held /\ held = 0
  BY <1>1 DEF Queue!Next, Queue!RecoverInterrupted, Queue!NoItem
<1>3. pc = "down" BY <1>1 DEF EmployeeInv, ThreadInv
<1>4. pc \notin Auditing /\ pc' \notin Auditing BY <1>1, <1>3 DEF Auditing
<1>5. ThreadInv' BY <1>1, <1>2, <1>4 DEF EmployeeInv, ThreadInv
<1> QED BY <1>1, <1>2, <1>4, <1>5, Between
-----------------------------------------------------------------------------
(* The steps of an audit.                                                   *)

\* The run in progress is the newest of the ledger.
LEMMA TheRun ==
  ASSUME EmployeeInv, pc \in Auditing
  PROVE  /\ run \in RunIds /\ run = Len(runs) /\ run \in Nat \ {0}
         /\ Run \in Ledger /\ Run.target \in Targets /\ Run.key \in DailyKeys
         /\ Run.trigger \in {"manual", "daily"}
         /\ Run.result \in Results \cup {"none", "duplicate", "raised"}
         /\ Extends /\ run' = run =>
              Run.target' = Run.target /\ Run.key' = Run.key /\ Run.trigger' = Run.trigger
<1>1. runs \in Seq(Ledger) /\ runs # <<>> /\ run = Len(runs) BY DEF EmployeeInv, ThreadInv
<1>2. run \in RunIds /\ run \in Nat \ {0} BY <1>1, SMT DEF RunIds
<1>3. Extends /\ run' = run =>
        Run.target' = Run.target /\ Run.key' = Run.key /\ Run.trigger' = Run.trigger
  BY <1>2 DEF Extends, SameRun, Run
<1> QED BY <1>1, <1>2, <1>3, RunFields DEF Run

\* Auditing steps that write neither a report nor the daily index.
LEMMA AuditCredit ==
  ASSUME EmployeeInv, pc \in Auditing, run' = run, Extends, UNCHANGED <<history, daily>>, Fault \/ NoFault,
         pc \in {"latest", "record"} => pc' \in {"latest", "record"} \/ Fault \/ Run.trigger # "daily",
         pc' \in {"collect", "history"} => pc \in {"collect", "history"}
  PROVE  CreditInv'
<1>1. /\ crashes' \in Nat /\ faults' \in Nat /\ crashes + faults <= crashes' + faults'
      /\ Fault => crashes + faults < crashes' + faults'
  <2>1. crashes \in Nat /\ faults \in Nat BY Mishaps DEF EmployeeInv
  <2>2. CASE NoFault BY <2>1, <2>2, Sums, Mishaps, SMT DEF EmployeeInv
  <2>3. CASE Fault BY <2>1, <2>3, SMT DEF Fault
  <2> QED BY <2>2, <2>3
<1>2. Run.target' = Run.target /\ Run.key' = Run.key /\ Run.trigger' = Run.trigger BY TheRun
<1>3. ASSUME NEW t \in Targets, NEW d \in DailyKeys
      PROVE  /\ Doing(t, d, {"latest", "record"}) =>
                  Doing(t, d, {"latest", "record"})' \/ crashes + faults < crashes' + faults'
             /\ Doing(t, d, {"collect", "history"})' => Doing(t, d, {"collect", "history"})
  BY <1>1, <1>2 DEF Doing
<1> QED BY <1>1, <1>3, CreditStays

\* The state is written for the run in progress.
LEMMA StateWritten ==
  ASSUME EmployeeInv, pc \in Auditing, UNCHANGED <<runs, history, latest, daily>>,
         NEW s \in Results \cup {"running"},
         state' = [state EXCEPT ![Run.target] = [status |-> s, run |-> run]],
         s \in {"ready", "partial"} =>
           latest[Run.target] = run /\ run \in history[Run.target] /\ Run.result = s
  PROVE  /\ FilesInv' /\ HistoryInv' /\ PublishedReportIsSaved' /\ DailyKeyHasReport'
         /\ state'[Run.target] = [status |-> s, run |-> run]
<1> DEFINE new == [status |-> s, run |-> run]
<1>1. new.status = s /\ new.run = run OBVIOUS
<1>2. new \in States BY TheRun DEF States
<1>3. Run.target \in Targets /\ run \in RunIds BY TheRun
<1>4. state' = [state EXCEPT ![Run.target] = new] OBVIOUS
<1> HIDE DEF new
<1>5. state'[Run.target] = new /\ \A t \in Targets : t # Run.target => state'[t] = state[t]
  BY <1>3, <1>4 DEF EmployeeInv, FilesInv
<1>6. FilesInv'
  <2>1. state' \in [Targets -> States \cup {Nothing}] BY <1>2, <1>4 DEF EmployeeInv, FilesInv
  <2>2. RunIds' = RunIds /\ States' = States BY DEF RunIds, States
  <2> QED BY <2>1, <2>2 DEF EmployeeInv, FilesInv
<1>7. HistoryInv'
  <2>1. \A t \in Targets : \A n \in history[t] : runs'[n].target = t /\ runs'[n].result \in Results
    BY DEF EmployeeInv, HistoryInv
  <2>2. ASSUME NEW t \in Targets, state'[t] # Nothing PROVE runs'[state'[t].run].target = t
    <3>1. CASE t = Run.target BY <1>1, <1>5, <3>1 DEF Run
    <3>2. CASE t # Run.target BY <1>5, <2>2, <3>2 DEF EmployeeInv, HistoryInv
    <3> QED BY <3>1, <3>2
  <2> QED BY <2>1, <2>2 DEF HistoryInv
<1>8. PublishedReportIsSaved'
  <2> SUFFICES ASSUME NEW t \in Targets, state'[t] # Nothing, state'[t].status \in {"ready", "partial"}
               PROVE  /\ latest[t] = state'[t].run /\ state'[t].run \in history[t]
                      /\ runs[state'[t].run].target = t /\ runs[state'[t].run].result = state'[t].status
    BY DEF PublishedReportIsSaved
  <2>1. CASE t = Run.target BY <1>1, <1>5, <2>1 DEF Run
  <2>2. CASE t # Run.target BY <1>5, <2>2 DEF EmployeeInv, PublishedReportIsSaved
  <2> QED BY <2>1, <2>2
<1>9. DailyKeyHasReport' BY LedgerSame, SavedStay DEF EmployeeInv, ThreadInv
<1> QED BY <1>5, <1>6, <1>7, <1>8, <1>9 DEF new

LEMMA StartRunKeepsInv == ASSUME EmployeeInv, StartRun PROVE EmployeeInv'
<1> DEFINE r == [target |-> HeldTarget, item |-> held, key |-> DailyKey(HeldTarget),
                 trigger |-> items[held].trigger, result |-> "none"]
           n == Len(runs) + 1
           own == [run |-> n, instance |-> crashes]
<1>1. /\ pc = "start" /\ pc' = "check" /\ up /\ run' = n /\ runs' = Append(runs, r)
      /\ lock' = [lock EXCEPT ![HeldTarget] = own]
      /\ UNCHANGED <<queueVars, world, state, history, latest, daily, up, promote, outcome, admitted>>
      /\ IF LockedByThisProcess(HeldTarget) THEN Fault ELSE NoFault
  BY DEF StartRun, Consumer, instance
<1>2. held # 0 /\ pc \notin Auditing /\ pc' \in Auditing BY <1>1 DEF EmployeeInv, ThreadInv, Auditing
<1>3. HeldTarget \in Targets /\ held \in 0..MaxRequests /\ items[held].trigger \in {"manual", "daily"}
  BY <1>2, QueueFacts DEF EmployeeInv, HeldTarget
<1>4. r \in Ledger /\ r.target = HeldTarget /\ r.result = "none"
  <2>1. DailyKey(HeldTarget) \in DailyKeys BY <1>3, KeyTyped DEF EmployeeInv
  <2> QED BY <1>3, <2>1 DEF Ledger
<1>5. n \in Nat BY DEF EmployeeInv, ThreadInv
<1>6. own.run = n /\ own.instance = crashes /\ own # Nothing
  <2>1. crashes \in Nat BY Mishaps DEF EmployeeInv
  <2>2. own \in [run : Nat, instance : Nat] BY <1>5, <2>1
  <2> QED BY <2>2, NothingAssumption
<1> HIDE DEF r, own
<1>7. /\ Extends /\ Len(runs') = n /\ runs'[n] = r /\ n \in RunIds'
  BY <1>1, <1>4, LedgerAppended DEF EmployeeInv, ThreadInv
<1> HIDE DEF n
<1>8. Run' = r BY <1>1, <1>7 DEF Run
<1>9. /\ crashes' = crashes /\ crashes \in Nat /\ faults \in Nat /\ faults' \in 0..MaxFaults /\ faults' \in Nat
      /\ crashes + faults <= crashes' + faults'
      /\ faults' = 0 => faults = 0 /\ ~LockedByThisProcess(HeldTarget)
  <2>1. crashes \in Nat /\ faults \in Nat /\ faults \in 0..MaxFaults BY Mishaps DEF EmployeeInv, WorldInv
  <2>2. CASE NoFault /\ ~LockedByThisProcess(HeldTarget) BY <2>1, <2>2, Sums, Mishaps DEF EmployeeInv
  <2>3. CASE Fault
    <3>1. faults' \in 0..MaxFaults /\ crashes' = crashes /\ faults' # 0 BY <2>3, Mishaps DEF EmployeeInv
    <3>2. faults' \in Nat /\ faults <= faults' BY <2>1, <2>3, <3>1, BoundsAssumption, SMT DEF Fault
    <3> QED BY <2>1, <3>1, <3>2, Sums
  <2> QED BY <1>1, <2>2, <2>3
<1>10. QueueProofs!QueueInv' BY <1>1, QueueStep DEF queueVars, Queue!vars, EmployeeInv
<1>11. WorldInv' BY <1>1, <1>9 DEF EmployeeInv, WorldInv, world
<1>12. ThreadInv'
  <2>1. runs' # <<>> BY <1>5, <1>7 DEF n, EmployeeInv, ThreadInv
  <2> QED BY <1>1, <1>2, <1>7, <2>1 DEF EmployeeInv, ThreadInv, Extends, queueVars, Auditing
<1>13. FilesInv' BY <1>1, <1>7, FilesTyped DEF EmployeeInv, FilesInv
<1>14. HistoryInv' /\ DailyKeyHasReport' /\ PublishedReportIsSaved'
  BY <1>1, <1>7, HistoryStays, SavedStay, PublishedStay
<1>15. ProgressInv' BY <1>1, <1>4, <1>8 DEF ProgressInv
<1>16. CreditInv'
  <2>1. \A t \in Targets, d \in DailyKeys :
          /\ Doing(t, d, {"latest", "record"}) =>
               Doing(t, d, {"latest", "record"})' \/ crashes + faults < crashes' + faults'
          /\ Doing(t, d, {"collect", "history"})' => Doing(t, d, {"collect", "history"})
    BY <1>1 DEF Doing
  <2> QED BY <1>1, <1>7, <1>9, <2>1, CreditStays
<1>17. LockInv'
  <2>1. own \in Locks'
    <3>1. crashes \in 0..MaxCrashes BY DEF EmployeeInv, WorldInv
    <3> QED BY <1>7, <3>1 DEF own, Locks
  <2>2. Locks \subseteq Locks'
    <3> SUFFICES ASSUME NEW l \in Locks PROVE l \in Locks' OBVIOUS
    <3> QED BY <1>7, SMT DEF Locks, Extends
  <2>3. lock' \in [Targets -> Locks' \cup {Nothing}] BY <1>1, <2>1, <2>2 DEF EmployeeInv, LockInv
  <2>4. lock'[HeldTarget] = own /\ \A t \in Targets : t # HeldTarget => lock'[t] = lock[t]
    BY <1>1, <1>3 DEF EmployeeInv, LockInv
  <2>5. Run.target' = HeldTarget BY <1>4, <1>8
  <2>6. own = [run |-> run', instance |-> crashes'] BY <1>1, <1>9 DEF own
  <2>7. ASSUME NEW t \in Targets, lock'[t] # Nothing
        PROVE  /\ lock'[t].instance <= crashes'
               /\ faults' = 0 /\ lock'[t].instance = crashes' => pc' \in Auditing /\ t = Run.target'
    <3>1. CASE t = HeldTarget BY <1>2, <1>6, <1>9, <2>4, <2>5, <3>1
    <3>2. CASE t # HeldTarget
      <4>1. lock[t] # Nothing /\ lock'[t] = lock[t] BY <2>4, <2>7, <3>2
      <4> QED BY <1>2, <1>9, <4>1 DEF EmployeeInv, LockInv
    <3> QED BY <3>1, <3>2
  <2> QED BY <2>3, <2>4, <2>5, <2>6, <2>7 DEF LockInv
<1> QED BY <1>10, <1>11, <1>12, <1>13, <1>14, <1>15, <1>16, <1>17 DEF EmployeeInv

\* A step that writes a result into the ledger and no file.
LEMMA ResultKeepsInv ==
  ASSUME EmployeeInv, pc \in Auditing, pc' \in Auditing, run' = run,
         NEW x \in Results \cup {"none", "duplicate", "raised"},
         runs' = [runs EXCEPT ![run].result = x], Run.result = "none" \/ x = Run.result,
         UNCHANGED <<queueVars, world, files, up, admitted>>,
         promote' \in BOOLEAN, outcome' \in {"none", "completed", "failed"}, Fault \/ NoFault,
         pc \in {"latest", "record"} => Fault,
         pc' = "history" => pc = "collect" /\ x \in Results,
         pc' = "handler" => x \in Results \cup {"raised"},
         pc' \in {"history", "handler", "release"}
  PROVE  EmployeeInv'
<1>1. run \in RunIds /\ runs \in Seq(Ledger) /\ Run.target \in Targets
  BY TheRun DEF EmployeeInv, ThreadInv
<1>2. Extends /\ Len(runs') = Len(runs) /\ runs'[run].result = x BY <1>1, LedgerMarked DEF Run
<1>3. QueueProofs!QueueInv' /\ WorldInv' /\ ThreadInv' /\ LockInv' BY <1>2, AuditStep DEF files
<1>4. FilesInv' BY <1>2, FilesTyped DEF EmployeeInv, FilesInv, files
<1>5. HistoryInv' /\ DailyKeyHasReport' /\ PublishedReportIsSaved'
  BY <1>2, HistoryStays, SavedStay, PublishedStay DEF files
<1>6. CreditInv' BY <1>2, AuditCredit DEF files
<1>7. ProgressInv'
  <2>1. Run.target' = Run.target /\ Run.result' = x BY <1>2, TheRun DEF Run
  <2>2. pc' = "history" => state'[Run.target'] = [status |-> "running", run |-> run']
    BY <2>1 DEF EmployeeInv, ProgressInv, files
  <2> QED BY <2>1, <2>2 DEF ProgressInv
<1> QED BY <1>3, <1>4, <1>5, <1>6, <1>7 DEF EmployeeInv

LEMMA AnswerDuplicateKeepsInv == ASSUME EmployeeInv, AnswerDuplicate PROVE EmployeeInv'
<1>1. /\ pc = "check" /\ pc' = "release" /\ run' = run /\ runs' = [runs EXCEPT ![run].result = "duplicate"]
      /\ UNCHANGED <<queueVars, world, files, up, admitted, promote>> /\ outcome' = "completed" /\ NoFault
  BY DEF AnswerDuplicate, Consumer, Finish, NoFault
<1>2. Run.result = "none" /\ promote \in BOOLEAN BY <1>1 DEF EmployeeInv, ProgressInv, ThreadInv
<1>3. pc \in Auditing /\ pc' \in Auditing BY <1>1 DEF Auditing
<1> QED BY <1>1, <1>2, <1>3, ResultKeepsInv

LEMMA CollectKeepsInv == ASSUME EmployeeInv, NEW result \in Results, Collect(result) PROVE EmployeeInv'
<1>1. /\ pc = "collect" /\ pc' = "history" /\ run' = run /\ runs' = [runs EXCEPT ![run].result = result]
      /\ UNCHANGED <<queueVars, world, files, up, admitted, outcome>> /\ promote' \in BOOLEAN /\ NoFault
  BY DEF Collect, Consumer, NoFault
<1>2. Run.result = "none" /\ outcome \in {"none", "completed", "failed"}
  BY <1>1 DEF EmployeeInv, ProgressInv, ThreadInv
<1>3. pc \in Auditing /\ pc' \in Auditing BY <1>1 DEF Auditing
<1> QED BY <1>1, <1>2, <1>3, ResultKeepsInv

LEMMA RaiseKeepsInv == ASSUME EmployeeInv, Raise PROVE EmployeeInv'
<1> DEFINE x == IF runs[run].result = "none" THEN "raised" ELSE runs[run].result
<1>1. /\ pc \in {"check", "collect", "history", "latest", "record", "publish", "baseline"} /\ pc' = "handler"
      /\ run' = run /\ runs' = [runs EXCEPT ![run].result = x]
      /\ UNCHANGED <<queueVars, world, files, up, admitted, promote>> /\ outcome' = "failed"
      /\ Fault \/ NoFault
      /\ pc \in {"latest", "record"} => Fault
  BY DEF Raise, Consumer, Finish
<1>2. pc \in Auditing /\ pc' \in Auditing BY <1>1 DEF Auditing
<1>3. x \in Results \cup {"raised"} /\ (Run.result = "none" \/ x = Run.result)
  BY <1>1 DEF EmployeeInv, ProgressInv, Run
<1>4. promote \in BOOLEAN BY DEF EmployeeInv, ThreadInv
<1> HIDE DEF x
<1> QED BY <1>1, <1>2, <1>3, <1>4, ResultKeepsInv

\* The published state and the end of the run write nothing but the state.
LEMMA StateKeepsInv ==
  ASSUME EmployeeInv, pc \in Auditing, run' = run,
         UNCHANGED <<queueVars, world, lock, history, latest, daily, up, admitted, runs>>,
         NEW s \in Results \cup {"running"},
         state' = [state EXCEPT ![Run.target] = [status |-> s, run |-> run]],
         promote' \in BOOLEAN, outcome' \in {"none", "completed", "failed"}, Fault \/ NoFault,
         \/ pc = "publish" /\ pc' \in {"baseline", "release"} /\ s = Run.result
         \/ pc = "handler" /\ pc' = "release" /\ s = "failed"
  PROVE  EmployeeInv'
<1>1. Extends /\ Len(runs') = Len(runs) BY LedgerSame DEF EmployeeInv, ThreadInv
<1>2. pc' \in Auditing /\ pc \notin {"latest", "record"} /\ pc' \notin {"collect", "history"} BY DEF Auditing
<1>3. QueueProofs!QueueInv' /\ WorldInv' /\ ThreadInv' /\ LockInv' BY <1>1, <1>2, AuditStep
<1>4. s \in {"ready", "partial"} =>
        latest[Run.target] = run /\ run \in history[Run.target] /\ Run.result = s
  BY DEF EmployeeInv, ProgressInv
<1>5. FilesInv' /\ HistoryInv' /\ PublishedReportIsSaved' /\ DailyKeyHasReport' BY <1>4, StateWritten
<1>6. CreditInv' BY <1>1, <1>2, AuditCredit
<1>7. ProgressInv' BY DEF EmployeeInv, ProgressInv, Run
<1> QED BY <1>3, <1>5, <1>6, <1>7 DEF EmployeeInv

LEMMA PublishKeepsInv == ASSUME EmployeeInv, Publish PROVE EmployeeInv'
<1>1. /\ pc = "publish" /\ pc' \in {"baseline", "release"} /\ run' = run
      /\ state' = [state EXCEPT ![Run.target] = [status |-> Run.result, run |-> run]]
      /\ UNCHANGED <<queueVars, world, lock, history, latest, daily, up, admitted, runs, promote>>
      /\ outcome' \in {"none", "completed", "failed"} /\ NoFault
  BY DEF Publish, Consumer, Finish, NoFault
<1>2. Run.result \in Results /\ promote \in BOOLEAN BY <1>1 DEF EmployeeInv, ProgressInv, ThreadInv
<1>3. pc \in Auditing BY <1>1 DEF Auditing
<1> QED BY <1>1, <1>2, <1>3, StateKeepsInv

\* A step that goes on and writes nothing.
LEMMA GoOnKeepsInv ==
  ASSUME EmployeeInv, pc \in {"baseline", "handler"}, pc' = "release",
         UNCHANGED <<queueVars, world, files, up, run, promote, outcome, admitted, runs>>, Fault \/ NoFault
  PROVE  EmployeeInv'
<1>1. Extends /\ Len(runs') = Len(runs) BY LedgerSame DEF EmployeeInv, ThreadInv
<1>2. pc \in Auditing /\ pc' \in Auditing /\ pc \notin {"latest", "record"} /\ pc' \notin {"collect", "history"}
  BY DEF Auditing
<1>3. QueueProofs!QueueInv' /\ WorldInv' /\ ThreadInv' /\ LockInv'
  BY <1>1, <1>2, AuditStep DEF files, EmployeeInv, ThreadInv
<1>4. FilesInv' BY DEF EmployeeInv, FilesInv, States, RunIds, files
<1>5. HistoryInv' /\ DailyKeyHasReport' /\ PublishedReportIsSaved'
  BY <1>1, HistoryStays, SavedStay, PublishedStay DEF files
<1>6. CreditInv' BY <1>1, <1>2, AuditCredit DEF files
<1>7. ProgressInv' BY DEF ProgressInv
<1> QED BY <1>3, <1>4, <1>5, <1>6, <1>7 DEF EmployeeInv

LEMMA HandlerKeepsInv == ASSUME EmployeeInv, PublishFailed \/ PromoteBaseline PROVE EmployeeInv'
<1>1. CASE PromoteBaseline BY <1>1, GoOnKeepsInv DEF PromoteBaseline, Consumer, Goto, NoFault
<1>2. CASE PublishFailed
  <2>1. /\ pc = "handler" /\ pc' = "release" /\ UNCHANGED <<up, run, promote, outcome>>
        /\ UNCHANGED <<queueVars, world, lock, history, latest, daily, admitted, runs>>
    BY <1>2 DEF PublishFailed, Consumer, Goto
  <2>2. promote \in BOOLEAN /\ outcome \in {"none", "completed", "failed"} /\ pc \in Auditing
    BY <2>1 DEF EmployeeInv, ThreadInv, Auditing
  <2>3. CASE NoFault /\ state' = [state EXCEPT ![Run.target] = [status |-> "failed", run |-> run]]
    BY <2>1, <2>2, <2>3, StateKeepsInv DEF Results
  <2>4. CASE Fault /\ UNCHANGED state BY <2>1, <2>4, GoOnKeepsInv DEF files
  <2> QED BY <1>2, <2>3, <2>4 DEF PublishFailed
<1> QED BY <1>1, <1>2

\* The run goes on because its key is free, or because a fault hides the index.
LEMMA PublishRunningKeepsInv == ASSUME EmployeeInv, PublishRunning PROVE EmployeeInv'
<1>1. /\ pc = "check" /\ pc' = "collect" /\ UNCHANGED <<up, run, promote, outcome>>
      /\ state' = [state EXCEPT ![Run.target] = [status |-> "running", run |-> run]]
      /\ UNCHANGED <<queueVars, world, lock, history, latest, daily, admitted, runs>>
      /\ IF RecordedToday THEN Fault ELSE NoFault
  BY DEF PublishRunning, Consumer, Goto
<1>2. /\ pc \in Auditing /\ pc' \in Auditing /\ Run.result = "none"
      /\ promote' \in BOOLEAN /\ outcome' \in {"none", "completed", "failed"}
  BY <1>1 DEF EmployeeInv, ThreadInv, ProgressInv, Auditing
<1>3. Extends /\ Len(runs') = Len(runs) BY <1>1, LedgerSame DEF EmployeeInv, ThreadInv
<1>4. QueueProofs!QueueInv' /\ WorldInv' /\ ThreadInv' /\ LockInv' BY <1>1, <1>2, <1>3, AuditStep
<1>5. /\ FilesInv' /\ HistoryInv' /\ PublishedReportIsSaved' /\ DailyKeyHasReport'
      /\ state'[Run.target] = [status |-> "running", run |-> run]
  BY <1>1, <1>2, StateWritten
<1>6. ProgressInv' BY <1>1, <1>2, <1>5 DEF ProgressInv, Run
<1>7. CreditInv'
  <2>1. crashes \in Nat /\ faults \in Nat BY Mishaps DEF EmployeeInv
  <2>2. /\ crashes' \in Nat /\ faults' \in Nat /\ crashes + faults <= crashes' + faults'
        /\ RecordedToday => crashes + faults < crashes' + faults'
    <3>1. CASE Fault BY <2>1, <3>1, SMT DEF Fault
    <3>2. CASE NoFault /\ ~RecordedToday BY <2>1, <3>2, SMT DEF NoFault, budget
    <3> QED BY <1>1, <3>1, <3>2
  <2>3. ASSUME NEW t \in Targets, NEW d \in DailyKeys
        PROVE  /\ ~Doing(t, d, {"latest", "record"})
               /\ Doing(t, d, {"collect", "history"})' =>
                    crashes + faults < crashes' + faults' \/ d \notin DOMAIN daily[t]
    <3>1. ~Doing(t, d, {"latest", "record"}) BY <1>1 DEF Doing
    <3>2. ASSUME Doing(t, d, {"collect", "history"})', d \in DOMAIN daily[t] PROVE RecordedToday
      BY <1>1, <3>2 DEF Doing, RecordedToday, Run
    <3> QED BY <2>2, <3>1, <3>2
  <2> QED BY <1>1, <1>3, <2>2, <2>3, CreditStays
<1> QED BY <1>4, <1>5, <1>6, <1>7 DEF EmployeeInv

\* The report is saved once more than before, and only for the run in progress.
LEMMA SavedReport ==
  ASSUME EmployeeInv, pc \in Auditing, Extends, runs' = runs,
         history' = [history EXCEPT ![Run.target] = @ \cup {run}], NEW t \in Targets, NEW d \in DailyKeys
  PROVE  \/ Run.target = t /\ Run.trigger = "daily" /\ Run.key = d /\ Reports(t, d)' <= Reports(t, d) + 1
         \/ Reports(t, d)' = Reports(t, d)
<1>1. Run.target \in Targets /\ history \in [Targets -> SUBSET RunIds] BY TheRun DEF EmployeeInv, FilesInv
<1>2. history'[t] = IF t = Run.target THEN history[t] \cup {run} ELSE history[t] BY <1>1
<1>3. CASE Run.target = t /\ Run.trigger = "daily" /\ Run.key = d
  <2>1. ReportsFor(t, d)' = ReportsFor(t, d) \cup {run} BY <1>2, <1>3 DEF ReportsFor, Run
  <2>2. /\ IsFiniteSet(ReportsFor(t, d)) /\ Reports(t, d) \in Nat BY ReportsKept
  <2>3. Cardinality(ReportsFor(t, d) \cup {run}) \in {Cardinality(ReportsFor(t, d)), Cardinality(ReportsFor(t, d)) + 1}
    BY <2>2, FS_AddElement
  <2>4. Reports(t, d)' \in {Reports(t, d), Reports(t, d) + 1} BY <2>1, <2>3 DEF Reports
  <2> QED BY <1>3, <2>2, <2>4
<1>4. CASE ~(Run.target = t /\ Run.trigger = "daily" /\ Run.key = d)
  <2>1. ReportsFor(t, d)' = ReportsFor(t, d) BY <1>2, <1>4 DEF ReportsFor, Run
  <2> QED BY <2>1 DEF Reports
<1> QED BY <1>3, <1>4

LEMMA SaveHistoryKeepsInv == ASSUME EmployeeInv, SaveHistory PROVE EmployeeInv'
<1>1. /\ pc = "history" /\ pc' = "latest" /\ UNCHANGED <<up, run, promote, outcome>>
      /\ history' = [history EXCEPT ![Run.target] = @ \cup {run}] /\ NoFault
      /\ UNCHANGED <<queueVars, world, lock, state, latest, daily, admitted, runs>>
  BY DEF SaveHistory, Consumer, Goto, NoFault
<1>2. /\ pc \in Auditing /\ pc' \in Auditing /\ Run.result \in Results
      /\ promote' \in BOOLEAN /\ outcome' \in {"none", "completed", "failed"}
      /\ state[Run.target] = [status |-> "running", run |-> run]
  BY <1>1 DEF EmployeeInv, ThreadInv, ProgressInv, Auditing
<1>3. Extends /\ Len(runs') = Len(runs) BY <1>1, LedgerSame DEF EmployeeInv, ThreadInv
<1>4. QueueProofs!QueueInv' /\ WorldInv' /\ ThreadInv' /\ LockInv' BY <1>1, <1>2, <1>3, AuditStep
<1>5. run \in RunIds /\ Run.target \in Targets /\ Run' = Run BY <1>1, <1>2, TheRun DEF Run
<1>6. \A t \in Targets : history'[t] = IF t = Run.target THEN history[t] \cup {run} ELSE history[t]
  BY <1>1 DEF EmployeeInv, FilesInv
<1>7. FilesInv'
  <2>1. history' \in [Targets -> SUBSET RunIds] BY <1>1, <1>5 DEF EmployeeInv, FilesInv
  <2>2. RunIds' = RunIds /\ States' = States BY <1>1 DEF RunIds, States
  <2> QED BY <1>1, <2>1, <2>2 DEF EmployeeInv, FilesInv
<1>8. HistoryInv' BY <1>1, <1>2, <1>6 DEF EmployeeInv, HistoryInv, Run
<1>9. DailyKeyHasReport' BY <1>1, <1>6 DEF EmployeeInv, DailyKeyHasReport
<1>10. PublishedReportIsSaved' BY <1>1, <1>6 DEF EmployeeInv, PublishedReportIsSaved
<1>11. ProgressInv' BY <1>1, <1>2, <1>5, <1>6 DEF ProgressInv
<1>12. CreditInv'
  <2> SUFFICES ASSUME NEW t \in Targets, NEW d \in DailyKeys
               PROVE  (/\ Reports(t, d) <= 1 + crashes + faults
                       /\ d \notin DOMAIN daily[t] /\ ~Doing(t, d, {"latest", "record"}) =>
                            Reports(t, d) <= crashes + faults
                       /\ Doing(t, d, {"collect", "history"}) => Reports(t, d) <= crashes + faults)'
    BY DEF CreditInv
  <2>1. crashes \in Nat /\ faults \in Nat /\ crashes' = crashes /\ faults' = faults
    BY <1>1, Mishaps DEF EmployeeInv
  <2>2. PICK n \in Nat : n = Reports(t, d) BY ReportsKept
  <2>3. Reports(t, d)' \in Nat
    <3>1. IsFiniteSet(ReportsFor(t, d)')
      <4>1. history'[t] \subseteq RunIds BY <1>1, <1>7 DEF FilesInv, RunIds
      <4>2. IsFiniteSet(RunIds) BY FS_Interval DEF RunIds, EmployeeInv, ThreadInv
      <4> QED BY <4>1, <4>2, FS_Subset DEF ReportsFor
    <3> QED BY <3>1, FS_CardinalityType DEF Reports
  <2>4. PICK m \in Nat : m = Reports(t, d)' BY <2>3
  <2>5. /\ n <= 1 + crashes + faults
        /\ d \notin DOMAIN daily[t] /\ ~Doing(t, d, {"latest", "record"}) => n <= crashes + faults
        /\ Doing(t, d, {"collect", "history"}) => n <= crashes + faults
    BY <2>2 DEF EmployeeInv, CreditInv
  <2>6. ~Doing(t, d, {"latest", "record"}) /\ ~Doing(t, d, {"collect", "history"})' BY <1>1 DEF Doing
  <2>7. CASE Run.target = t /\ Run.trigger = "daily" /\ Run.key = d /\ Reports(t, d)' <= Reports(t, d) + 1
    <3>1. Doing(t, d, {"collect", "history"}) /\ Doing(t, d, {"latest", "record"})'
      BY <1>1, <1>5, <2>7 DEF Doing
    <3>2. m <= n + 1 BY <2>2, <2>4, <2>7
    <3>3. m <= 1 + crashes + faults BY <2>1, <2>5, <3>1, <3>2, SMT
    <3> QED BY <2>1, <2>4, <2>6, <3>1, <3>3
  <2>8. CASE Reports(t, d)' = Reports(t, d) BY <1>1, <2>1, <2>2, <2>5, <2>6, <2>8
  <2> QED BY <1>1, <1>2, <1>3, <2>7, <2>8, SavedReport
<1> QED BY <1>4, <1>7, <1>8, <1>9, <1>10, <1>11, <1>12 DEF EmployeeInv

LEMMA SaveLatestKeepsInv == ASSUME EmployeeInv, SaveLatest PROVE EmployeeInv'
<1>1. /\ pc = "latest" /\ pc' = IF Run.trigger = "daily" THEN "record" ELSE "publish"
      /\ UNCHANGED <<up, run, promote, outcome>>
      /\ latest' = [latest EXCEPT ![Run.target] = run] /\ NoFault
      /\ UNCHANGED <<queueVars, world, lock, state, history, daily, admitted, runs>>
  BY DEF SaveLatest, Consumer, Goto, NoFault
<1>2. /\ pc \in Auditing /\ pc' \in Auditing /\ Run.result \in Results /\ run \in history[Run.target]
      /\ promote' \in BOOLEAN /\ outcome' \in {"none", "completed", "failed"}
      /\ state[Run.target] = [status |-> "running", run |-> run]
  BY <1>1 DEF EmployeeInv, ThreadInv, ProgressInv, Auditing
<1>3. Extends /\ Len(runs') = Len(runs) BY <1>1, LedgerSame DEF EmployeeInv, ThreadInv
<1>4. QueueProofs!QueueInv' /\ WorldInv' /\ ThreadInv' /\ LockInv' BY <1>1, <1>2, <1>3, AuditStep
<1>5. run \in RunIds /\ Run.target \in Targets /\ Run' = Run BY <1>1, <1>2, TheRun DEF Run
<1>6. \A t \in Targets : latest'[t] = IF t = Run.target THEN run ELSE latest[t]
  BY <1>1 DEF EmployeeInv, FilesInv
<1>7. FilesInv'
  <2>1. latest' \in [Targets -> RunIds \cup {Nothing}] BY <1>1, <1>5 DEF EmployeeInv, FilesInv
  <2>2. RunIds' = RunIds /\ States' = States BY <1>1 DEF RunIds, States
  <2> QED BY <1>1, <2>1, <2>2 DEF EmployeeInv, FilesInv
<1>8. HistoryInv' /\ DailyKeyHasReport' BY <1>1, <1>3, HistoryStays, SavedStay
<1>9. PublishedReportIsSaved'
  <2>1. state[Run.target].status = "running" BY <1>2
  <2> QED BY <1>1, <1>6, <2>1 DEF EmployeeInv, PublishedReportIsSaved
<1>10. ProgressInv' BY <1>1, <1>2, <1>5, <1>6 DEF ProgressInv
<1>11. CreditInv' BY <1>1, <1>2, <1>3, AuditCredit
<1> QED BY <1>4, <1>7, <1>8, <1>9, <1>10, <1>11 DEF EmployeeInv

\* The new index of the target holds the key of the run, and nothing that the
\* old one did not hold; without a fault it loses nothing.
LEMMA IndexWritten ==
  ASSUME EmployeeInv, RecordDaily
  PROVE  /\ \A t \in Targets : t # Run.target => daily'[t] = daily[t]
         /\ Run.key \in DOMAIN daily'[Run.target] /\ daily'[Run.target][Run.key] = run
         /\ \A d \in DOMAIN daily'[Run.target] :
              d # Run.key => d \in DOMAIN daily[Run.target] /\ daily'[Run.target][d] = daily[Run.target][d]
         /\ daily'[Run.target] \in [DOMAIN daily'[Run.target] -> RunIds]
         /\ DOMAIN daily' = Targets /\ daily' = [t \in Targets |-> daily'[t]]
         /\ NoFault => DOMAIN daily[Run.target] \subseteq DOMAIN daily'[Run.target]
         /\ NoFault \/ Fault
<1>1. pc \in Auditing BY DEF RecordDaily, Consumer, Auditing
<1>2. run \in RunIds /\ Run.target \in Targets BY <1>1, TheRun
<1>3. DOMAIN daily = Targets /\ daily = [t \in Targets |-> daily[t]] BY DEF EmployeeInv, FilesInv
<1>4. \/ NoFault /\ daily' = [daily EXCEPT ![Run.target] = Recorded(daily[Run.target])]
      \/ Fault /\ daily' = [daily EXCEPT ![Run.target] = Recorded([k \in {} |-> NoRun])]
  BY DEF RecordDaily
<1>5. daily[Run.target] \in [DOMAIN daily[Run.target] -> RunIds] BY <1>2 DEF EmployeeInv, FilesInv
<1>6. CASE NoFault /\ daily' = [daily EXCEPT ![Run.target] = Recorded(daily[Run.target])]
  <2>1. daily'[Run.target] = Recorded(daily[Run.target]) BY <1>2, <1>3, <1>6
  <2>2. DOMAIN daily' = Targets /\ \A t \in Targets : t # Run.target => daily'[t] = daily[t]
    BY <1>2, <1>3, <1>6
  <2>3. daily' = [t \in Targets |-> daily'[t]] BY <1>2, <1>3, <1>6
  <2> QED BY <1>2, <1>5, <1>6, <2>1, <2>2, <2>3 DEF Recorded, WithKey
<1>7. CASE Fault /\ daily' = [daily EXCEPT ![Run.target] = Recorded([k \in {} |-> NoRun])]
  <2>1. daily'[Run.target] = Recorded([k \in {} |-> NoRun]) BY <1>2, <1>3, <1>7
  <2>2. DOMAIN daily' = Targets /\ \A t \in Targets : t # Run.target => daily'[t] = daily[t]
    BY <1>2, <1>3, <1>7
  <2>3. daily' = [t \in Targets |-> daily'[t]] BY <1>2, <1>3, <1>7
  <2>4. DOMAIN daily'[Run.target] = {Run.key} BY <2>1 DEF Recorded, WithKey
  <2>5. daily'[Run.target][Run.key] = run BY <2>1 DEF Recorded, WithKey
  <2>6. ~NoFault
    <3>1. faults \in Nat BY Mishaps DEF EmployeeInv
    <3> QED BY <1>7, <3>1, SMT DEF Fault, NoFault, budget
  <2>7. daily'[Run.target] \in [DOMAIN daily'[Run.target] -> RunIds] BY <1>2, <2>1 DEF Recorded, WithKey
  <2> QED BY <1>7, <2>2, <2>3, <2>4, <2>5, <2>6, <2>7
<1> QED BY <1>4, <1>6, <1>7

LEMMA RecordDailyKeepsInv == ASSUME EmployeeInv, RecordDaily PROVE EmployeeInv'
<1>1. /\ pc = "record" /\ pc' = "publish" /\ UNCHANGED <<up, run, promote, outcome>>
      /\ UNCHANGED <<queueVars, world, lock, state, history, latest, admitted, runs>>
  BY DEF RecordDaily, Consumer, Goto
<1>2. /\ pc \in Auditing /\ pc' \in Auditing /\ Run.result \in Results /\ Run.trigger = "daily"
      /\ run \in history[Run.target] /\ latest[Run.target] = run
      /\ promote' \in BOOLEAN /\ outcome' \in {"none", "completed", "failed"}
      /\ state[Run.target] = [status |-> "running", run |-> run]
  BY <1>1 DEF EmployeeInv, ThreadInv, ProgressInv, Auditing
<1>3. Extends /\ Len(runs') = Len(runs) BY <1>1, LedgerSame DEF EmployeeInv, ThreadInv
<1>4. QueueProofs!QueueInv' /\ WorldInv' /\ ThreadInv' /\ LockInv'
  BY <1>1, <1>2, <1>3, IndexWritten, AuditStep
<1>5. run \in RunIds /\ Run.target \in Targets /\ Run.key \in DailyKeys /\ Run' = Run
  BY <1>1, <1>2, TheRun DEF Run
<1>6. FilesInv'
  <2>1. \A t \in Targets : DOMAIN daily'[t] \subseteq DailyKeys /\ daily'[t] \in [DOMAIN daily'[t] -> RunIds]
    BY <1>5, IndexWritten DEF EmployeeInv, FilesInv
  <2>2. RunIds' = RunIds /\ States' = States BY <1>1 DEF RunIds, States
  <2> QED BY <1>1, <2>1, <2>2, IndexWritten DEF EmployeeInv, FilesInv
<1>7. HistoryInv' /\ PublishedReportIsSaved' BY <1>1, <1>3, HistoryStays, PublishedStay
<1>8. DailyKeyHasReport'
  <2> SUFFICES ASSUME NEW t \in Targets, NEW d \in DOMAIN daily'[t]
               PROVE  LET r == runs[daily'[t][d]] IN
                      /\ daily'[t][d] \in history[t]
                      /\ r.target = t /\ r.trigger = "daily" /\ r.key = d /\ r.result \in Results
    BY <1>1 DEF DailyKeyHasReport
  <2>1. CASE t = Run.target /\ d = Run.key BY <1>2, <2>1, IndexWritten DEF Run
  <2>2. CASE ~(t = Run.target /\ d = Run.key)
    <3>1. d \in DOMAIN daily[t] /\ daily'[t][d] = daily[t][d] BY <2>2, IndexWritten
    <3> QED BY <3>1 DEF EmployeeInv, DailyKeyHasReport
  <2> QED BY <2>1, <2>2
<1>9. ProgressInv' BY <1>1, <1>2, <1>5 DEF ProgressInv
<1>10. CreditInv'
  <2> SUFFICES ASSUME NEW t \in Targets, NEW d \in DailyKeys
               PROVE  (/\ Reports(t, d) <= 1 + crashes + faults
                       /\ d \notin DOMAIN daily[t] /\ ~Doing(t, d, {"latest", "record"}) =>
                            Reports(t, d) <= crashes + faults
                       /\ Doing(t, d, {"collect", "history"}) => Reports(t, d) <= crashes + faults)'
    BY DEF CreditInv
  <2>1. PICK n \in Nat : n = Reports(t, d) /\ n = Reports(t, d)' BY <1>1, <1>3, ReportsKept DEF Reports
  <2>2. /\ n <= 1 + crashes + faults
        /\ d \notin DOMAIN daily[t] /\ ~Doing(t, d, {"latest", "record"}) => n <= crashes + faults
    BY <2>1 DEF EmployeeInv, CreditInv
  <2>3. ~Doing(t, d, {"collect", "history"})' BY <1>1 DEF Doing
  <2>4. crashes \in Nat /\ faults \in Nat BY Mishaps DEF EmployeeInv
  <2>5. CASE NoFault
    <3>1. crashes' = crashes /\ faults' = faults BY <2>5 DEF NoFault, budget
    <3>2. ASSUME d \notin DOMAIN daily'[t] PROVE d \notin DOMAIN daily[t] /\ ~Doing(t, d, {"latest", "record"})
      BY <2>5, <3>2, IndexWritten DEF Doing
    <3> QED BY <2>1, <2>2, <2>3, <3>1, <3>2
  <2>6. CASE Fault
    <3>1. crashes' = crashes /\ faults' = faults + 1 BY <2>6 DEF Fault
    <3>2. n <= crashes + (faults + 1) /\ n <= 1 + crashes + (faults + 1) BY <2>2, <2>4, SMT
    <3> QED BY <2>1, <2>3, <3>1, <3>2
  <2> QED BY <2>5, <2>6, IndexWritten
<1> QED BY <1>4, <1>6, <1>7, <1>8, <1>9, <1>10 DEF EmployeeInv

\* The run gives its lock back, or a failing file leaves it behind.
LEMMA ReleaseKeepsInv == ASSUME EmployeeInv, ReleaseLock \/ KeepLock PROVE EmployeeInv'
<1>1. /\ pc = "release" /\ pc' \in {"settle", "except"} /\ run' = NoRun /\ promote' = FALSE /\ up' = up
      /\ outcome' \in {outcome, "failed"}
      /\ UNCHANGED <<queueVars, world, state, history, latest, daily, admitted, runs>>
  BY DEF ReleaseLock, KeepLock, Consumer, Settling, Excepting, files
<1>2. pc \in Auditing /\ pc' \notin Auditing BY <1>1 DEF Auditing
<1>3. [Queue!Next]_Queue!vars /\ held' = held BY <1>1 DEF queueVars, Queue!vars
<1>4. ThreadInv' BY <1>1, <1>2, <1>3 DEF EmployeeInv, ThreadInv, Auditing
<1>5. /\ faults' \in 0..MaxFaults /\ crashes' = crashes /\ crashes + faults <= crashes' + faults'
  <2>1. crashes \in Nat /\ faults \in Nat BY Mishaps DEF EmployeeInv
  <2>2. CASE ReleaseLock BY <2>1, <2>2, SMT DEF ReleaseLock, NoFault, budget, EmployeeInv, WorldInv
  <2>3. CASE KeepLock
    <3>1. Fault BY <2>3 DEF KeepLock
    <3> QED BY <2>1, <3>1, Mishaps DEF EmployeeInv
  <2> QED BY <2>2, <2>3
<1>6. WorldInv' BY <1>1, <1>5 DEF EmployeeInv, WorldInv, world
<1>7. Locks' = Locks BY <1>1 DEF Locks, RunIds
<1>8. LockInv'
  <2>1. CASE ReleaseLock
    <3>1. Run.target \in Targets /\ lock[Run.target] = [run |-> run, instance |-> crashes]
      BY <1>2, TheRun DEF EmployeeInv, LockInv
    <3>2. lock' = [lock EXCEPT ![Run.target] = Nothing] BY <2>1, <3>1 DEF ReleaseLock
    <3>3. lock' \in [Targets -> Locks \cup {Nothing}] BY <3>2 DEF EmployeeInv, LockInv
    <3>4. faults' = faults BY <2>1 DEF ReleaseLock, NoFault, budget
    <3>5. \A t \in Targets : lock'[t] # Nothing => lock'[t] = lock[t] /\ t # Run.target
      BY <3>1, <3>2 DEF EmployeeInv, LockInv
    <3> QED BY <1>2, <1>5, <1>7, <3>3, <3>4, <3>5 DEF EmployeeInv, LockInv
  <2>2. CASE KeepLock
    <3>1. lock' = lock BY <2>2 DEF KeepLock, files
    <3>2. faults' # 0 BY <2>2, Mishaps DEF KeepLock, EmployeeInv
    <3> QED BY <1>2, <1>5, <1>7, <3>1, <3>2 DEF EmployeeInv, LockInv
  <2> QED BY <2>1, <2>2
<1> QED BY <1>1, <1>2, <1>3, <1>4, <1>5, <1>6, <1>8, Outside
-----------------------------------------------------------------------------
(* The invariant.                                                           *)

LEMMA InitInv == Init => EmployeeInv
<1> SUFFICES ASSUME Init PROVE EmployeeInv OBVIOUS
<1>1. QueueProofs!QueueInv
  <2>1. QueueProofs!Init BY DEF Init, Queue!Init, QueueProofs!Init, Queue!NoItem, QueueProofs!NoItem
  <2> QED BY <2>1, QueueProofs!InitInv, QueueAssumption, BoundsAssumption
<1>2. held = 0 BY DEF Init, Queue!Init, Queue!NoItem
<1>3. crashes = 0 /\ faults = 0 /\ MaxCrashes \in Nat /\ MaxFaults \in Nat /\ 0 \in 0..MaxClock
  BY BoundsAssumption, SMT DEF Init
<1>4. WorldInv BY <1>3, CalendarAssumption DEF Init, WorldInv
<1>5. ThreadInv
  <2>1. runs \in Seq(Ledger) BY DEF Init
  <2>2. pc = "idle" /\ pc \notin Auditing BY DEF Init, Auditing
  <2>3. run = NoRun /\ up /\ up \in BOOLEAN /\ promote \in BOOLEAN /\ outcome = "none" BY DEF Init
  <2> QED BY <1>2, <2>1, <2>2, <2>3 DEF ThreadInv
<1>6. FilesInv BY DEF Init, FilesInv
<1>7. ProgressInv BY DEF Init, ProgressInv
<1>8. HistoryInv BY DEF Init, HistoryInv
<1>9. LockInv BY DEF Init, LockInv, Auditing
<1>10. DailyKeyHasReport BY DEF Init, DailyKeyHasReport
<1>11. PublishedReportIsSaved BY DEF Init, PublishedReportIsSaved
<1>12. CreditInv
  <2>1. ASSUME NEW t \in Targets, NEW d \in DailyKeys PROVE Reports(t, d) = 0
    <3>1. ReportsFor(t, d) = {} BY DEF Init, ReportsFor
    <3> QED BY <3>1, FS_EmptySet DEF Reports
  <2> QED BY <1>3, <2>1 DEF CreditInv
<1> QED BY <1>1, <1>4, <1>5, <1>6, <1>7, <1>8, <1>9, <1>10, <1>11, <1>12 DEF EmployeeInv

LEMMA StutterKeepsInv == ASSUME EmployeeInv, UNCHANGED vars PROVE EmployeeInv'
<1>1. [Queue!Next]_Queue!vars /\ held' = held BY DEF vars, queueVars, Queue!vars
<1>2. UNCHANGED <<files, locals, runs>> /\ crashes' = crashes /\ faults' = faults BY DEF vars, budget
<1>3. WorldInv' BY <1>2 DEF vars, world, EmployeeInv, WorldInv
<1>4. faults \in Nat /\ faults <= faults' BY <1>2, Mishaps, SMT DEF EmployeeInv
<1> QED BY <1>1, <1>2, <1>3, <1>4, Aside

LEMMA NextKeepsInv == EmployeeInv /\ [Next]_vars => EmployeeInv'
<1> SUFFICES ASSUME EmployeeInv, [Next]_vars PROVE EmployeeInv' OBVIOUS
<1>1. CASE UNCHANGED vars BY <1>1, StutterKeepsInv
<1>2. CASE \E t \in Targets : Configure(t) \/ RunCommand(t) \/ ScheduleTick(t) \/ ScheduleTickBlind(t)
  BY <1>2, ConfigureKeepsInv, CommandKeepsInv
<1>3. CASE Midnight BY <1>3, MidnightKeepsInv
<1>4. CASE Enqueues BY <1>4, EnqueueKeepsInv DEF Enqueues
<1>5. CASE ConsumerStep
  <2>1. CASE Claim BY <2>1, ClaimKeepsInv
  <2>2. CASE Settle \/ FailExcepted BY <2>2, SettleKeepsInv
  <2>3. CASE RefuseRun \/ AnswerBusy BY <2>3, RefuseKeepsInv
  <2>4. CASE StartRun BY <2>4, StartRunKeepsInv
  <2>5. CASE AnswerDuplicate BY <2>5, AnswerDuplicateKeepsInv
  <2>6. CASE PublishRunning BY <2>6, PublishRunningKeepsInv
  <2>7. CASE \E result \in Results : Collect(result) BY <2>7, CollectKeepsInv
  <2>8. CASE SaveHistory BY <2>8, SaveHistoryKeepsInv
  <2>9. CASE SaveLatest BY <2>9, SaveLatestKeepsInv
  <2>10. CASE RecordDaily BY <2>10, RecordDailyKeepsInv
  <2>11. CASE Publish BY <2>11, PublishKeepsInv
  <2>12. CASE PromoteBaseline \/ PublishFailed BY <2>12, HandlerKeepsInv
  <2>13. CASE Raise BY <2>13, RaiseKeepsInv
  <2>14. CASE ReleaseLock BY <2>14, ReleaseKeepsInv
  <2> QED BY <1>5, <2>1, <2>2, <2>3, <2>4, <2>5, <2>6, <2>7, <2>8, <2>9, <2>10, <2>11, <2>12, <2>13, <2>14
          DEF ConsumerStep
<1>6. CASE Wait BY <1>6, StutterKeepsInv DEF Wait
<1>7. CASE StorageFails
  BY <1>7, ConsumerDiesKeepsInv, SettleRaisesKeepsInv, SettleKeepsInv, ReleaseKeepsInv DEF StorageFails
<1>8. CASE Crash BY <1>8, CrashKeepsInv
<1>9. CASE Restart BY <1>9, RestartKeepsInv
<1> QED BY <1>1, <1>2, <1>3, <1>4, <1>5, <1>6, <1>7, <1>8, <1>9 DEF Next

\* The queue, the thread, the files and the ledger stay in step whatever is
\* commanded, killed or refused by the disk.
THEOREM Invariance == Spec => []EmployeeInv
BY InitInv, NextKeepsInv, PTL DEF Spec

THEOREM TypeCorrect == Spec => []TypeOK
<1>1. EmployeeInv => TypeOK
  <2> SUFFICES ASSUME EmployeeInv PROVE TypeOK OBVIOUS
  <2>1. Queue!TypeOK BY QueueFacts DEF EmployeeInv
  <2>2. owned \subseteq Targets /\ zone \in [Targets -> Zones] /\ clock \in 0..MaxClock /\ admitted \subseteq Targets \X {"manual", "daily"}
    BY DEF EmployeeInv, WorldInv
  <2>3. ASSUME NEW t \in Targets
        PROVE  /\ lock[t] \in [run : RunIds, instance : 0..MaxCrashes] \cup {Nothing}
               /\ state[t] \in [status : Results \cup {"running"}, run : RunIds] \cup {Nothing}
               /\ history[t] \subseteq RunIds /\ latest[t] \in RunIds \cup {Nothing}
               /\ DOMAIN daily[t] \subseteq DailyKeys /\ daily[t] \in [DOMAIN daily[t] -> RunIds]
    BY DEF EmployeeInv, LockInv, FilesInv, Locks, States
  <2>4. /\ up \in BOOLEAN /\ promote \in BOOLEAN /\ outcome \in {"none", "completed", "failed"}
        /\ pc \in {"idle", "start", "check", "collect", "history", "latest", "record", "publish",
                   "baseline", "handler", "release", "settle", "except", "dead", "down"}
    BY DEF EmployeeInv, ThreadInv, Auditing
  <2>5. run \in RunIds \cup {NoRun}
    <3>1. CASE pc \in Auditing BY <3>1, TheRun
    <3>2. CASE pc \notin Auditing BY <3>2 DEF EmployeeInv, ThreadInv
    <3> QED BY <3>1, <3>2
  <2> QED BY <2>1, <2>2, <2>3, <2>4, <2>5 DEF TypeOK
<1> QED BY <1>1, Invariance, PTL

\* A daily key recorded as done has the saved report of a run that the daily
\* trigger started on that date in that timezone.
THEOREM RecordedKeysHaveReports == Spec => []DailyKeyHasReport
BY Invariance, PTL DEF EmployeeInv

\* Whatever is shown as ready or partial is the newest saved report.
THEOREM PublishedReportsAreSaved == Spec => []PublishedReportIsSaved
BY Invariance, PTL DEF EmployeeInv

\* Unless a file failed, the locks that count for this process are those of the
\* run in progress.
THEOREM LocksGuardRuns == Spec => []LockGuardsRun
<1>1. EmployeeInv => LockGuardsRun
  <2> SUFFICES ASSUME EmployeeInv, faults = 0, NEW t \in Targets
               PROVE  LockedByThisProcess(t) <=> run # NoRun /\ Run.target = t /\ lock[t].run = run
    BY DEF LockGuardsRun
  <2>1. run # NoRun <=> pc \in Auditing BY TheRun DEF EmployeeInv, ThreadInv, NoRun
  <2>2. ASSUME LockedByThisProcess(t) PROVE pc \in Auditing /\ Run.target = t /\ lock[t].run = run
    <3>1. pc \in Auditing /\ t = Run.target BY <2>2 DEF LockedByThisProcess, instance, EmployeeInv, LockInv
    <3> QED BY <3>1 DEF EmployeeInv, LockInv
  <2>3. ASSUME pc \in Auditing, Run.target = t PROVE LockedByThisProcess(t)
    <3>1. lock[t] = [run |-> run, instance |-> crashes] BY <2>3 DEF EmployeeInv, LockInv
    <3>2. crashes \in Nat /\ run \in Nat BY <2>3, TheRun, Mishaps DEF EmployeeInv
    <3>3. lock[t] \in [run : Nat, instance : Nat] BY <3>1, <3>2
    <3>4. lock[t] # Nothing BY <3>3, NothingAssumption
    <3> QED BY <3>1, <3>4 DEF LockedByThisProcess, instance
  <2> QED BY <2>1, <2>2, <2>3
<1> QED BY <1>1, Invariance, PTL

\* However the clock moves and the timezone of a target is changed, it gets one
\* daily report for each daily key, that is for each date in a timezone, and at
\* most one more for each kill and each failing file.
THEOREM OneReportForEachKey == Spec => []OneReportPerDailyKey
<1>1. EmployeeInv => OneReportPerDailyKey
  <2> SUFFICES ASSUME EmployeeInv, NEW t \in Targets, NEW n \in RunIds
               PROVE  Cardinality(ReportsFor(t, runs[n].key)) <= 1 + crashes + faults
    BY DEF OneReportPerDailyKey
  <2>1. runs[n].key \in DailyKeys BY RunFields DEF EmployeeInv, ThreadInv
  <2> QED BY <2>1 DEF EmployeeInv, CreditInv, Reports
<1> QED BY <1>1, Invariance, PTL

\* The handlers, the scheduler, the consumer and its restarts use the queue as
\* RunQueue expects of them, so what is proved of the queue holds here.
THEOREM QueueIsUsedAsPromised == Spec => Queue!Spec
<1>1. Init => Queue!Init BY DEF Init
<1>2. [Next]_vars => [Queue!Next]_Queue!vars
  <2> SUFFICES ASSUME [Next]_vars PROVE Queue!Next \/ UNCHANGED queueVars
    BY DEF queueVars, Queue!vars
  <2>1. CASE UNCHANGED vars \/ Wait BY <2>1 DEF Wait, vars
  <2>2. CASE \E t \in Targets : Configure(t) \/ RunCommand(t) \/ ScheduleTick(t) \/ ScheduleTickBlind(t)
    BY <2>2 DEF Configure, RunCommand, ScheduleTick, ScheduleTickBlind, SchedulerFinds
  <2>3. CASE Midnight BY <2>3 DEF Midnight
  <2>4. CASE Enqueues BY <2>4 DEF Enqueues, EnqueueCommand, Queue!Next, Queue!Ids
  <2>5. CASE ConsumerStep
    <3>1. CASE Claim \/ Settle \/ FailExcepted BY <3>1 DEF Claim, Settle, FailExcepted, Queue!Next
    <3>2. CASE RefuseRun \/ AnswerBusy \/ StartRun \/ AnswerDuplicate \/ PublishRunning
      BY <3>2 DEF RefuseRun, AnswerBusy, StartRun, AnswerDuplicate, PublishRunning
    <3>3. CASE \/ \E result \in Results : Collect(result)
               \/ SaveHistory \/ SaveLatest \/ RecordDaily \/ Publish \/ PromoteBaseline
               \/ Raise \/ PublishFailed \/ ReleaseLock
      BY <3>3 DEF Collect, SaveHistory, SaveLatest, RecordDaily, Publish, PromoteBaseline, Raise,
                  PublishFailed, ReleaseLock
    <3> QED BY <2>5, <3>1, <3>2, <3>3 DEF ConsumerStep
  <2>6. CASE StorageFails
    BY <2>6 DEF StorageFails, ConsumerDies, SettleRaises, FailExceptedRaises, KeepLock, Queue!Next
  <2>7. CASE Crash BY <2>7 DEF Crash, Queue!Next
  <2>8. CASE Restart BY <2>8 DEF Restart, Queue!Next
  <2> QED BY <2>1, <2>2, <2>3, <2>4, <2>5, <2>6, <2>7, <2>8 DEF Next
<1> QED BY <1>1, <1>2, PTL DEF Spec, Queue!Spec
===============================================================================
