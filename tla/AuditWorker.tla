------------------------------ MODULE AuditWorker ------------------------------
(***************************************************************************)
(* One source worker (CrawlSEO or SEOmator): a Node server that runs at     *)
(* most one audit, in a child process with a time limit and a work          *)
(* directory.  The client may hang up at any moment; hang-up, timer, exit   *)
(* of the child and file operations reach the event loop in any order.      *)
(*                                                                         *)
(* Source: runtime/worker_server.mjs.  A step is what runs between two      *)
(* awaits; promise continuations run with the event that settles them.      *)
(* /health and /resolve share no state with /run and are left out.          *)
(***************************************************************************)
CONSTANT Requests   \* requests to /run, each used once

VARIABLES
  busy,       \* createHandler: an audit is in progress
  conn,       \* the client's end: "none", "open", "closed"
  aborted,    \* requests whose controller.signal is aborted
  at,         \* the await at which the handler of a request stands
  child,      \* the child process: "none", "runs", "killed", "ended", "unborn"
  exit,       \* how it ended: "ok", "bad"
  reason,     \* cancellationReason; terminated is reason # "none"
  outcome,    \* what auditProcess is about to return or throw
  dirs,       \* work directories that exist
  answer,     \* what was sent to the client
  litter      \* history: the work directories that could not be removed

vars == <<busy, conn, aborted, at, child, exit, reason, outcome, dirs, answer, litter>>

Init ==
  /\ busy = FALSE
  /\ conn = [r \in Requests |-> "none"]
  /\ aborted = {}
  /\ at = [r \in Requests |-> "idle"]
  /\ child = [r \in Requests |-> "none"]
  /\ exit = [r \in Requests |-> "none"]
  /\ reason = [r \in Requests |-> "none"]
  /\ outcome = [r \in Requests |-> "none"]
  /\ dirs = {}
  /\ answer = [r \in Requests |-> "none"]
  /\ litter = {}
-----------------------------------------------------------------------------
Goto(r, step) == at' = [at EXCEPT ![r] = step]

\* Faulty: the answer does not depend on the signal.
ReplyAlways(r, result) ==
  answer' = [answer EXCEPT ![r] = IF result = "report" THEN "200"
                                  ELSE IF result = "timed_out" THEN "timeout" ELSE "audit_failed"]

\* Faulty: the error is sent as it is.
ReplyRaw(r, result) ==
  answer' = [answer EXCEPT ![r] = IF r \in aborted THEN @ ELSE IF result = "report" THEN "200" ELSE result]

\* The try and catch of handleRequest: a client that is known to be gone gets
\* no answer; machineErrorCode tells a timeout from every other failure.
Reply(r, result) ==
  answer' = [answer EXCEPT ![r] = IF r \in aborted THEN @
                                  ELSE IF result = "report" THEN "200"
                                  ELSE IF result = "timed_out" THEN "timeout" ELSE "audit_failed"]

\* ... and its finally.
Return(r, result) ==
  /\ Reply(r, result)
  /\ Goto(r, "done") /\ busy' = FALSE

\* auditProcess enters its finally.
Leave(r, result) ==
  /\ outcome' = [outcome EXCEPT ![r] = result]
  /\ Goto(r, "clean")

\* killAuditProcess: nothing is sent to a process that has already ended.
Terminated(r, why) ==
  /\ reason' = [reason EXCEPT ![r] = why]
  /\ child' = [child EXCEPT ![r] = IF @ = "runs" THEN "killed" ELSE @]
-----------------------------------------------------------------------------
Request(r) ==
  /\ conn[r] = "none"
  /\ conn' = [conn EXCEPT ![r] = "open"]
  /\ IF busy
     THEN /\ answer' = [answer EXCEPT ![r] = "worker_busy"]
          /\ Goto(r, "done") /\ UNCHANGED busy
     ELSE /\ busy' = TRUE /\ Goto(r, "body") /\ UNCHANGED answer
  /\ UNCHANGED <<aborted, child, exit, reason, outcome, dirs, litter>>

\* The client's own time limit, its death, or requestTimeout of the server.
HangUp(r) ==
  /\ conn[r] = "open" /\ answer[r] = "none"
  /\ conn' = [conn EXCEPT ![r] = "closed"]
  /\ UNCHANGED <<busy, aborted, at, child, exit, reason, outcome, dirs, answer, litter>>

\* Faulty: the promise of the audit is settled by the kill.
NoticeAndSettle(r) ==
  /\ conn[r] = "closed" /\ r \notin aborted
  /\ at[r] = "audit"
  /\ aborted' = aborted \cup {r}
  /\ Terminated(r, "cancelled") /\ Leave(r, "cancelled")
  /\ UNCHANGED <<busy, conn, exit, dirs, answer, litter>>

\* watchDisconnect: the abort ends a pending readJson at once, kills a running
\* audit, and is only remembered at any other await.
Notice(r) ==
  /\ conn[r] = "closed" /\ r \notin aborted
  /\ at[r] \notin {"idle", "done"}
  /\ aborted' = aborted \cup {r}
  /\ IF at[r] = "body" THEN Goto(r, "done") /\ busy' = FALSE ELSE UNCHANGED <<at, busy>>
  /\ IF at[r] = "audit" /\ reason[r] = "none" THEN Terminated(r, "cancelled")
     ELSE UNCHANGED <<reason, child>>
  /\ UNCHANGED <<conn, exit, outcome, dirs, answer, litter>>

\* readJson and validateRunPayload.
ReadBody(r) ==
  /\ at[r] = "body"
  /\ \/ Goto(r, "mkdir") /\ UNCHANGED <<busy, answer>>
     \/ Return(r, "failed")
  /\ UNCHANGED <<conn, aborted, child, exit, reason, outcome, dirs, litter>>

\* Faulty: an early return between mkdtemp and the try.
MakeDirectoryEarlyReturn(r) ==
  /\ at[r] = "mkdir"
  /\ dirs' = dirs \cup {r}
  /\ IF r \in aborted THEN Return(r, "failed") ELSE Goto(r, "plan") /\ UNCHANGED <<busy, answer>>
  /\ UNCHANGED <<conn, aborted, child, exit, reason, outcome, litter>>

\* mkdtemp, outside the try: when it fails nothing is cleaned.
MakeDirectory(r) ==
  /\ at[r] = "mkdir"
  /\ \/ dirs' = dirs \cup {r} /\ Goto(r, "plan") /\ UNCHANGED <<busy, answer>>
     \/ Return(r, "failed") /\ UNCHANGED dirs
  /\ UNCHANGED <<conn, aborted, child, exit, reason, outcome, litter>>

\* Faulty: an abort that came before the listener is missed.
WritePlanAndSpawn(r) ==
  /\ at[r] = "plan"
  /\ child' = [child EXCEPT ![r] = "runs"] /\ Goto(r, "audit") /\ UNCHANGED outcome
  /\ UNCHANGED <<busy, conn, aborted, exit, reason, dirs, answer, litter>>

\* The plan is written and runAuditProcess starts the child, unless the client
\* has gone; spawn may throw, or fail later with an error event.
WritePlan(r) ==
  /\ at[r] = "plan"
  /\ \/ r \in aborted /\ Leave(r, "cancelled") /\ UNCHANGED child
     \/ /\ r \notin aborted
        /\ \E born \in {"runs", "unborn"} : child' = [child EXCEPT ![r] = born]
        /\ Goto(r, "audit") /\ UNCHANGED outcome
     \/ Leave(r, "failed") /\ UNCHANGED child
  /\ UNCHANGED <<busy, conn, aborted, exit, reason, dirs, answer, litter>>

\* The operating system ends the child; the event is still to come.
ChildEnds(r) ==
  /\ child[r] \in {"runs", "killed"}
  /\ child' = [child EXCEPT ![r] = "ended"]
  /\ \E how \in IF child[r] = "killed" THEN {"bad"} ELSE {"ok", "bad"} : exit' = [exit EXCEPT ![r] = how]
  /\ UNCHANGED <<busy, conn, aborted, at, reason, outcome, dirs, answer, litter>>

\* Faulty: terminated is set first, so that terminate returns at once.
TimerOnlyMarks(r) ==
  /\ at[r] = "audit" /\ reason[r] = "none"
  /\ reason' = [reason EXCEPT ![r] = "timed_out"]
  /\ UNCHANGED <<busy, conn, aborted, at, child, exit, outcome, dirs, answer, litter>>

\* The time limit of the plan, at most HARD_AUDIT_TIMEOUT_MS.
TimerFires(r) ==
  /\ at[r] = "audit" /\ reason[r] = "none"
  /\ Terminated(r, "timed_out")
  /\ UNCHANGED <<busy, conn, aborted, at, exit, outcome, dirs, answer, litter>>

\* Faulty: a child that exits with 0 has succeeded.
SettleByExit(r) ==
  /\ at[r] = "audit" /\ child[r] \in {"ended", "unborn"}
  /\ child' = [child EXCEPT ![r] = "none"]
  /\ IF child[r] = "ended" /\ exit[r] = "ok" THEN Goto(r, "report") /\ UNCHANGED outcome
     ELSE Leave(r, IF reason[r] # "none" THEN reason[r] ELSE "failed")
  /\ UNCHANGED <<busy, conn, aborted, exit, reason, dirs, answer, litter>>

\* finish, on "exit" or "error": the reason of a cancellation comes before what
\* the child says of itself.
Settle(r) ==
  /\ at[r] = "audit" /\ child[r] \in {"ended", "unborn"}
  /\ child' = [child EXCEPT ![r] = "none"]
  /\ IF child[r] = "ended" /\ exit[r] = "ok" /\ reason[r] = "none"
     THEN Goto(r, "report") /\ UNCHANGED outcome
     ELSE Leave(r, IF reason[r] # "none" THEN reason[r] ELSE "failed")
  /\ UNCHANGED <<busy, conn, aborted, exit, reason, dirs, answer, litter>>

\* stat, readFile, JSON.parse: the report may be missing, too large or invalid.
ReadReport(r) ==
  /\ at[r] = "report"
  /\ \E result \in {"report", "failed"} : Leave(r, result)
  /\ UNCHANGED <<busy, conn, aborted, child, exit, reason, dirs, answer, litter>>

\* rm in the finally of auditProcess; when it throws, its error takes the place
\* of the report.
Clean(r) ==
  /\ at[r] = "clean"
  /\ \/ dirs' = dirs \ {r} /\ Return(r, outcome[r]) /\ UNCHANGED litter
     \/ litter' = litter \cup {r} /\ Return(r, "failed") /\ UNCHANGED dirs
  /\ UNCHANGED <<conn, aborted, child, exit, reason, outcome>>

Handle(r) ==
  \/ ReadBody(r) \/ MakeDirectory(r) \/ WritePlan(r) \/ Settle(r) \/ ReadReport(r) \/ Clean(r)

Next ==
  \E r \in Requests :
    \/ Request(r) \/ HangUp(r) \/ Notice(r) \/ Handle(r) \/ ChildEnds(r) \/ TimerFires(r)

Spec == Init /\ [][Next]_vars

\* The event loop serves what is ready, timers fire, the operating system ends a
\* killed process, and a body comes or requestTimeout closes the connection.  No
\* other client hangs up and no child ends of itself.
FairSpec ==
  /\ Spec
  /\ \A r \in Requests :
       /\ WF_vars(at[r] = "body" /\ (ReadBody(r) \/ HangUp(r))) /\ WF_vars(Notice(r))
       /\ WF_vars(at[r] # "body" /\ Handle(r)) /\ WF_vars(TimerFires(r))
       /\ WF_vars(child[r] = "killed" /\ ChildEnds(r))
-----------------------------------------------------------------------------
\* Handlers stand at the awaits the code has, answers are those it can send.
TypeOK ==
  /\ busy \in BOOLEAN
  /\ aborted \subseteq Requests /\ dirs \subseteq Requests /\ litter \subseteq dirs
  /\ conn \in [Requests -> {"none", "open", "closed"}]
  /\ at \in [Requests -> {"idle", "body", "mkdir", "plan", "audit", "report", "clean", "done"}]
  /\ child \in [Requests -> {"none", "runs", "killed", "ended", "unborn"}]
  /\ exit \in [Requests -> {"none", "ok", "bad"}]
  /\ reason \in [Requests -> {"none", "cancelled", "timed_out"}]
  /\ outcome \in [Requests -> {"none", "report", "failed", "cancelled", "timed_out"}]
  /\ answer \in [Requests -> {"none", "200", "timeout", "audit_failed", "worker_busy"}]

Alive(r) == child[r] \in {"runs", "killed"}

\* Whatever races with whatever, two children never run together, also when one
\* has been cancelled and is still dying; and the worker knows that it is busy.
OneAuditAtATime ==
  \A r \in Requests : Alive(r) => busy /\ \A s \in Requests \ {r} : ~Alive(s)

\* SC-SEO-026.  Once the worker has noticed the hang-up, or the time is over, the
\* audit does not go on: also when the abort came before the child was started.
CancelledAuditIsKilled ==
  \A r \in Requests : r \in aborted \/ reason[r] # "none" => child[r] # "runs"

\* A report is sent only for an audit that ended well of itself, in time and for
\* a client not known to be gone; "timeout" only when the timer ended it.
AnswerTellsOutcome ==
  \A r \in Requests :
    /\ answer[r] = "200" => exit[r] = "ok" /\ reason[r] = "none" /\ r \notin aborted
    /\ answer[r] = "timeout" => reason[r] = "timed_out" /\ r \notin aborted

\* An idle worker holds no work directory but those that rm has failed to remove.
IdleIsClean == ~busy => dirs \subseteq litter

\* Every audit ends, although its child may hang and its client wait for ever,
\* and the worker takes the next one.
WorkerComesFree == busy ~> ~busy
=============================================================================
