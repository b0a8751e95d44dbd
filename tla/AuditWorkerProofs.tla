--------------------------- MODULE AuditWorkerProofs ---------------------------
\* What holds of the audit worker for any set of requests.
EXTENDS AuditWorker, TLAPS

Serving(r) == at[r] \notin {"idle", "done"}

\* busy is the lock of all handlers; only the one that holds it stands at an await.
Serialized ==
  \A r \in Requests : Serving(r) => busy /\ \A s \in Requests \ {r} : ~Serving(s)

\* What a handler has and has not done so far follows from where it stands.
Progress ==
  \A r \in Requests :
    /\ child[r] # "none" => at[r] = "audit"
    /\ at[r] \in {"idle", "body", "mkdir", "plan"} => reason[r] = "none"
    /\ at[r] = "report" => reason[r] = "none" /\ exit[r] = "ok"
    /\ at[r] \in {"idle", "body", "mkdir", "plan", "audit", "report"} => outcome[r] = "none"
    /\ at[r] # "done" => answer[r] = "none"
    /\ r \in dirs \ litter <=> at[r] \in {"plan", "audit", "report", "clean"}
    /\ r \in litter => at[r] = "done"
    /\ conn[r] = "none" => at[r] = "idle"

\* A cancelled audit: marked, and its child killed.
Cancelled ==
  \A r \in Requests :
    /\ r \in aborted /\ at[r] = "audit" => reason[r] # "none"
    /\ reason[r] # "none" => child[r] # "runs"

\* An outcome or an answer that claims something rests on what happened.
Honest ==
  \A r \in Requests :
    /\ outcome[r] = "report" => reason[r] = "none" /\ exit[r] = "ok"
    /\ outcome[r] = "timed_out" => reason[r] = "timed_out"

WorkerInv == TypeOK /\ Serialized /\ Progress /\ Cancelled /\ Honest /\ AnswerTellsOutcome

\* A fresh worker serves nobody.
LEMMA InvInit == Init => WorkerInv
<1> SUFFICES ASSUME Init PROVE WorkerInv OBVIOUS
<1> USE DEF Init, WorkerInv
<1>0. busy \in BOOLEAN OBVIOUS
<1>1. TypeOK BY <1>0, SMT DEF TypeOK
<1>2. Serialized /\ Progress /\ Cancelled BY SMT DEF Serialized, Progress, Cancelled, Serving
<1>3. Honest /\ AnswerTellsOutcome BY SMT DEF Honest, AnswerTellsOutcome
<1> QED BY <1>1, <1>2, <1>3

\* One lemma for each action of AuditWorker: the step keeps the invariant.
LEMMA RequestKeepsInv ==
  ASSUME WorkerInv, NEW r \in Requests, Request(r) PROVE WorkerInv'
<1> USE DEF Request, Goto, WorkerInv, TypeOK, Serving
<1>0. busy' \in BOOLEAN BY Zenon
<1>1. TypeOK' BY <1>0, SMT
<1>2. Serialized' BY SMT DEF Serialized
<1>3. Progress'
  <2>1. CASE busy BY <2>1, SMT DEF Progress
  <2>2. CASE ~busy BY <2>2, SMT DEF Serialized, Progress
  <2> QED BY <2>1, <2>2
<1>4. Cancelled' BY SMT DEF Progress, Cancelled
<1>5. Honest' BY SMT DEF Progress, Honest
<1>6. AnswerTellsOutcome' BY SMT DEF Progress, Honest, AnswerTellsOutcome
<1> QED BY <1>1, <1>2, <1>3, <1>4, <1>5, <1>6

LEMMA HangUpKeepsInv ==
  ASSUME WorkerInv, NEW r \in Requests, HangUp(r) PROVE WorkerInv'
  BY SMT DEF HangUp, WorkerInv, TypeOK, Serialized, Progress, Cancelled, Honest, AnswerTellsOutcome, Serving

LEMMA NoticeKeepsInv ==
  ASSUME WorkerInv, NEW r \in Requests, Notice(r) PROVE WorkerInv'
<1> USE DEF Notice, Goto, Terminated, WorkerInv, TypeOK, Serving
<1>0. busy' \in BOOLEAN BY Zenon
<1>1. TypeOK' BY <1>0, SMT
<1>2. Serialized' BY SMT DEF Serialized
<1>3. Progress' BY SMT DEF Serialized, Progress
<1>4. Cancelled' BY SMT DEF Progress, Cancelled
<1>5. Honest' BY SMT DEF Progress, Honest
<1>6. AnswerTellsOutcome' BY SMT DEF Progress, Honest, AnswerTellsOutcome
<1> QED BY <1>1, <1>2, <1>3, <1>4, <1>5, <1>6

LEMMA ReadBodyKeepsInv ==
  ASSUME WorkerInv, NEW r \in Requests, ReadBody(r) PROVE WorkerInv'
<1> USE DEF ReadBody, Return, Reply, Goto, WorkerInv, TypeOK, Serving
<1>0. busy' \in BOOLEAN BY Zenon
<1>1. TypeOK' BY <1>0, SMT
<1>2. Serialized' BY SMT DEF Serialized
<1>3. Progress' BY SMT DEF Serialized, Progress
<1>4. Cancelled' BY SMT DEF Progress, Cancelled
<1>5. Honest' BY SMT DEF Progress, Honest
<1>6. AnswerTellsOutcome' BY SMT DEF Progress, Honest, AnswerTellsOutcome
<1> QED BY <1>1, <1>2, <1>3, <1>4, <1>5, <1>6

LEMMA MakeDirectoryKeepsInv ==
  ASSUME WorkerInv, NEW r \in Requests, MakeDirectory(r) PROVE WorkerInv'
<1> USE DEF MakeDirectory, Return, Reply, Goto, WorkerInv, TypeOK, Serving
<1>0. busy' \in BOOLEAN BY Zenon
<1>1. TypeOK' BY <1>0, SMT
<1>2. Serialized' BY SMT DEF Serialized
<1>3. Progress' BY SMT DEF Serialized, Progress
<1>4. Cancelled' BY SMT DEF Progress, Cancelled
<1>5. Honest' BY SMT DEF Progress, Honest
<1>6. AnswerTellsOutcome' BY SMT DEF Progress, Honest, AnswerTellsOutcome
<1> QED BY <1>1, <1>2, <1>3, <1>4, <1>5, <1>6

LEMMA WritePlanKeepsInv ==
  ASSUME WorkerInv, NEW r \in Requests, WritePlan(r) PROVE WorkerInv'
  BY SMTT(60) DEF WritePlan, Leave, Goto, WorkerInv, TypeOK, Serialized, Progress, Cancelled, Honest, AnswerTellsOutcome, Serving

LEMMA ChildEndsKeepsInv ==
  ASSUME WorkerInv, NEW r \in Requests, ChildEnds(r) PROVE WorkerInv'
  BY SMTT(60) DEF ChildEnds, WorkerInv, TypeOK, Serialized, Progress, Cancelled, Honest, AnswerTellsOutcome, Serving

LEMMA TimerFiresKeepsInv ==
  ASSUME WorkerInv, NEW r \in Requests, TimerFires(r) PROVE WorkerInv'
  BY SMTT(60) DEF TimerFires, Terminated, WorkerInv, TypeOK, Serialized, Progress, Cancelled, Honest, AnswerTellsOutcome, Serving

LEMMA SettleKeepsInv ==
  ASSUME WorkerInv, NEW r \in Requests, Settle(r) PROVE WorkerInv'
  BY SMTT(60) DEF Settle, Leave, Goto, WorkerInv, TypeOK, Serialized, Progress, Cancelled, Honest, AnswerTellsOutcome, Serving

LEMMA ReadReportKeepsInv ==
  ASSUME WorkerInv, NEW r \in Requests, ReadReport(r) PROVE WorkerInv'
  BY SMTT(60) DEF ReadReport, Leave, Goto, WorkerInv, TypeOK, Serialized, Progress, Cancelled, Honest, AnswerTellsOutcome, Serving

LEMMA CleanKeepsInv ==
  ASSUME WorkerInv, NEW r \in Requests, Clean(r) PROVE WorkerInv'
<1> USE DEF Clean, Return, Reply, Goto, WorkerInv, TypeOK, Serving
<1>0. busy' \in BOOLEAN BY Zenon
<1>1. TypeOK'
  <2>1. r \in dirs \ litter BY SMT DEF Progress
  <2>2. litter' \subseteq dirs' /\ dirs' \subseteq Requests BY <2>1, SMT
  <2>3. answer' \in [Requests -> {"none", "200", "timeout", "audit_failed", "worker_busy"}] BY SMT
  <2> QED BY <1>0, <2>2, <2>3, SMT
<1>2. Serialized' BY SMT DEF Serialized
<1>3. Progress' BY SMT DEF Serialized, Progress
<1>4. Cancelled' BY SMT DEF Progress, Cancelled
<1>5. Honest' BY SMT DEF Progress, Honest
<1>6. AnswerTellsOutcome' BY SMT DEF Progress, Honest, AnswerTellsOutcome
<1> QED BY <1>1, <1>2, <1>3, <1>4, <1>5, <1>6

\* Every step keeps the invariant.
LEMMA InvNext == WorkerInv /\ [Next]_vars => WorkerInv'
<1> SUFFICES ASSUME WorkerInv, [Next]_vars PROVE WorkerInv' OBVIOUS
<1>1. CASE UNCHANGED vars
  BY <1>1 DEF vars, WorkerInv, TypeOK, Serialized, Progress, Cancelled, Honest, AnswerTellsOutcome, Serving
<1>2. CASE Next
  <2> PICK r \in Requests :
        Request(r) \/ HangUp(r) \/ Notice(r) \/ Handle(r) \/ ChildEnds(r) \/ TimerFires(r)
    BY <1>2 DEF Next
  <2>1. CASE Handle(r)
    BY <2>1, ReadBodyKeepsInv, MakeDirectoryKeepsInv, WritePlanKeepsInv, SettleKeepsInv, ReadReportKeepsInv,
       CleanKeepsInv DEF Handle
  <2>2. CASE ~Handle(r)
    BY <2>2, RequestKeepsInv, HangUpKeepsInv, NoticeKeepsInv, ChildEndsKeepsInv, TimerFiresKeepsInv
  <2> QED BY <2>1, <2>2
<1> QED BY <1>1, <1>2

\* The parts above are inductive only together: which await a handler stands at
\* says what it has done, and busy says that no other handler stands at one.
THEOREM WorkerInvariant == Spec => []WorkerInv
  BY InvInit, InvNext, PTL DEF Spec
-----------------------------------------------------------------------------
\* The state of the worker keeps its types, for any number of requests.
THEOREM TypeCorrect == Spec => []TypeOK
<1>1. WorkerInv => TypeOK BY DEF WorkerInv
<1> QED BY <1>1, WorkerInvariant, PTL

\* runtime/worker_server.mjs: two children never run together, however requests,
\* hang-ups, timers, exits and failing file operations interleave.
THEOREM MutualExclusion == Spec => []OneAuditAtATime
<1>1. WorkerInv => OneAuditAtATime
  BY DEF WorkerInv, Progress, Serialized, Serving, OneAuditAtATime, Alive
<1> QED BY <1>1, WorkerInvariant, PTL

\* A hang-up that was noticed, or the timer, leaves no audit running, whenever it
\* came: before the child was started, while it runs, or after it ended.
THEOREM CancellationReaches == Spec => []CancelledAuditIsKilled
<1>1. WorkerInv => CancelledAuditIsKilled
  BY DEF WorkerInv, Progress, Cancelled, CancelledAuditIsKilled
<1> QED BY <1>1, WorkerInvariant, PTL

\* The answer to a request tells how its own audit ended.
THEOREM AnswersAreHonest == Spec => []AnswerTellsOutcome
<1>1. WorkerInv => AnswerTellsOutcome BY DEF WorkerInv
<1> QED BY <1>1, WorkerInvariant, PTL

\* An idle worker has removed every work directory it could.
THEOREM IdleWorkerIsClean == Spec => []IdleIsClean
<1>1. WorkerInv => IdleIsClean
  BY DEF WorkerInv, TypeOK, Progress, Serialized, Serving, IdleIsClean
<1> QED BY <1>1, WorkerInvariant, PTL
=============================================================================
