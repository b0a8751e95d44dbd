--------------------------------- MODULE Panel ---------------------------------
(***************************************************************************)
(* The panel, app/app.js, in front of the service.  The page keeps one      *)
(* state (currentState), one selection and at most one poll timer, and      *)
(* sends calls over the bridge of the host; every call is answered or       *)
(* fails by itself, in any order, while the user goes on.                   *)
(*                                                                         *)
(* An action of the page is what JavaScript runs between two awaits.        *)
(* pollToken and stateRequestToken are only ever raised together, in        *)
(* cancelPolling, and compared with the current one: a call carries live,   *)
(* "no cancelPolling since it was sent", and a timer that survives one has   *)
(* no effect and is gone.  A partial result is shown as a ready one.  A page *)
(* that is left stops its timer and is gone.                                *)
(*                                                                         *)
(* The service is what the state reader, experts/seo_employee_state.py,     *)
(* sees of SeoEmployee: per target a state document, and one queue.         *)
(***************************************************************************)
EXTENDS Integers, Sequences, FiniteSets, SequencesExt

CONSTANTS Targets,
          None,          \* null
          MaxItems,      \* bound: items in the queue
          MaxClicks,     \* bound: what the user does
          MaxFailures,   \* bound: calls that fail, polls' deadline aside
          MaxPolls       \* bound: timers that fire before the poll deadline

ASSUME NoneAssumption == None \notin Targets
ASSUME BoundsAssumption ==
  MaxItems \in Nat /\ MaxClicks \in Nat /\ MaxFailures \in Nat /\ MaxPolls \in Nat \ {0}

VARIABLES
  configured,    \* targets in config.json
  queue,         \* queue.json, oldest item first
  doc,           \* target -> current_state.json, and how many reports are saved
  step,          \* how far the consumer is with the running item
  page,          \* currentState, selection and runBusy
  timers,        \* poll timers that are set, by target
  left,          \* timers that may fire before pollDeadlineAt
  calls,         \* calls in flight
  seen,          \* history: target -> reports saved, as far as the page has known
  strayed,       \* history: the page has lost its thread, see WaitingIsWatched
  clicks, failures

service == <<configured, queue, doc, step>>
polling == <<timers, left>>
history == <<seen, strayed>>
budget == <<clicks, failures>>
vars == <<service, page, polling, calls, history, budget>>
-----------------------------------------------------------------------------
ActiveStatus == {"queued", "running"}
WorkState(s) == s \in {"queued", "running"}
TerminalState(s) == s \in {"empty", "ready", "failed"}

NoDocument == [target |-> None, saved |-> 0]
NoAnswer == [state |-> "none", document |-> NoDocument, view |-> [t \in Targets |-> "none"],
             summary |-> [t \in Targets |-> "unknown"], known |-> {}, item |-> "none"]

\* items.find: the first item of the target in the queue, settled or not.
FirstOf(t) ==
  LET at == {i \in 1..Len(queue) : queue[i].target = t} IN
  IF at = {} THEN "none" ELSE queue[CHOOSE i \in at : \A j \in at : i <= j].status

\* queuePayloadState(currentState): the item of the target the page names, or the
\* queue_item of the last answer to run, which every later answer leaves in place.
QueueState(p) ==
  LET t == IF p.named # None THEN p.named ELSE p.selected IN
  IF t # None /\ p.view[t] \in ActiveStatus THEN p.view[t] ELSE p.item

\* Faulty: a settled item decides what is shown as well.
RenderedSettled(p) ==
  IF p.selected # None /\ p.view[p.selected] # "none"
  THEN [p EXCEPT !.state = p.view[p.selected]] ELSE p

\* renderState without ignoreQueue.
Rendered(p) ==
  IF QueueState(p) \in ActiveStatus THEN [p EXCEPT !.state = QueueState(p)] ELSE p

\* Faulty: who waits in the queue is not polled for.
OnlyRunning(p, t) == p.state = "running"

ShouldContinuePolling(p, t) ==
  (t # None /\ p.view[t] \in ActiveStatus) \/ ~TerminalState(p.state)

RunAllowed(p) ==
  p.selected # None /\ p.saved = p.selected /\ p.selected \in p.detailed

\* Faulty: the tokens stay as they are.
NotCancelled(cs) == cs

\* cancelPolling, as far as the calls in flight notice.
Cancelled(cs) == [i \in 1..Len(cs) |-> [cs[i] EXCEPT !.live = FALSE]]

Call(kind, t) ==
  [kind |-> kind, target |-> t, live |-> TRUE, stage |-> "sent", answer |-> NoAnswer]

\* The page is now p.
Shows(p, strays) ==
  /\ page' = p
  /\ LET d == p.document IN
     seen' = IF d.target # None /\ seen[d.target] < d.saved
             THEN [seen EXCEPT ![d.target] = d.saved] ELSE seen
  /\ strayed' = (strayed \/ strays)

\* cancelPolling.
StopPolling(cs) == timers' = <<>> /\ left' = 0 /\ calls' = Cancelled(cs)

\* startPolling, with the schedulePolling at its end: a timer for a target that is
\* not the selected one is never set.
StartPolling(p, t, cs) ==
  IF timers # <<>> /\ Last(timers) = t
  THEN UNCHANGED polling /\ calls' = cs
  ELSE /\ left' = MaxPolls
       /\ calls' = Cancelled(cs)
       /\ timers' = IF t = p.selected /\ ShouldContinuePolling(p, t) THEN <<t>> ELSE <<>>
-----------------------------------------------------------------------------
Init ==
  /\ configured \in SUBSET Targets
  /\ queue = <<>>
  /\ doc = [t \in Targets |-> [state |-> "empty", saved |-> 0]]
  /\ step = "idle"
  /\ page = [state |-> "empty", document |-> NoDocument, view |-> NoAnswer.view, named |-> None,
             item |-> "none", summary |-> NoAnswer.summary,
             listed |-> {}, detailed |-> {}, selected |-> None, saved |-> None, busy |-> TRUE]
  /\ timers = <<>> /\ left = 0
  /\ calls = <<Call("boot", None)>>
  /\ seen = [t \in Targets |-> 0] /\ strayed = FALSE
  /\ clicks = 0 /\ failures = 0
-----------------------------------------------------------------------------
(* The service.                                                             *)

Free(t, trigger) ==
  \A i \in 1..Len(queue) :
    ~ (queue[i].target = t /\ queue[i].trigger = trigger /\ queue[i].status \in ActiveStatus)

Enqueued(t, trigger) == Append(queue, [target |-> t, trigger |-> trigger, status |-> "queued"])

\* Commands to run that the service has not accepted yet, each of them an item to
\* come, and whether one more fits into the bound.
Sent == {i \in 1..Len(calls) : calls[i].kind = "run" /\ calls[i].stage = "sent"}
Room == Len(queue) + Cardinality(Sent) < MaxItems

\* The scheduler.
DailyRun(t) ==
  /\ t \in configured /\ Free(t, "daily")
  /\ Room
  /\ queue' = Enqueued(t, "daily")
  /\ UNCHANGED <<configured, doc, step, page, polling, calls, history, budget>>

Running == CHOOSE i \in 1..Len(queue) : queue[i].status = "running"

Claim ==
  /\ step = "idle"
  /\ \E i \in 1..Len(queue) :
       /\ queue[i].status = "queued" /\ \A j \in 1..(i - 1) : queue[j].status # "queued"
       /\ queue' = [queue EXCEPT ![i].status = "running"]
  /\ step' = "claimed"
  /\ UNCHANGED <<configured, doc, page, polling, calls, history, budget>>

Publish(t, state, saved, next) ==
  /\ doc' = [doc EXCEPT ![t] = [state |-> state, saved |-> saved]]
  /\ step' = next
  /\ UNCHANGED <<configured, queue, page, polling, calls, history, budget>>

PublishRunning ==
  /\ step = "claimed"
  /\ LET t == queue[Running].target IN Publish(t, "running", doc[t].saved, "running")

PublishResult ==
  /\ step = "running"
  /\ LET t == queue[Running].target
         n == doc[t].saved IN
     \/ Publish(t, "ready", n + 1, "published")
     \/ Publish(t, "failed", n, "published")

\* The item is settled after the result is published, or at once if the run was refused.
Settle ==
  /\ step \in {"claimed", "published"}
  /\ queue' = [queue EXCEPT ![Running].status = "settled"]
  /\ step' = "idle"
  /\ UNCHANGED <<configured, doc, page, polling, calls, history, budget>>

Answers(i, answer, stage) ==
  calls' = [calls EXCEPT ![i].answer = answer, ![i].stage = stage]

\* The state reader reads the document first.  Without a target and with several
\* of them it reads no document, and lists the state of each.  An answer that is
\* not awaited any more is not worked out.
ReadDocument(i) ==
  LET c == calls[i]
      alone == {u \in configured : configured = {u}}
      known == IF c.target # None THEN {c.target} ELSE configured
      read == IF c.target # None THEN {c.target} ELSE alone
  IN
  /\ c.kind \in {"boot", "refresh", "poll"} /\ c.stage = "sent" /\ c.live
  /\ IF read = {}
     THEN Answers(i, [NoAnswer EXCEPT !.state = "empty", !.known = known,
                        !.summary = [u \in Targets |-> IF u \in known THEN doc[u].state ELSE "unknown"]],
                  "half")
     ELSE \E t \in read :
            Answers(i, [NoAnswer EXCEPT !.state = doc[t].state, !.known = known,
                          !.document = [target |-> t, saved |-> doc[t].saved]], "half")
  /\ UNCHANGED <<service, page, polling, history, budget>>

\* ... and then the queue.
ReadQueue(i) ==
  /\ calls[i].stage = "half" /\ calls[i].live
  /\ Answers(i, [calls[i].answer EXCEPT !.view = [t \in Targets |-> FirstOf(t)]], "answered")
  /\ UNCHANGED <<service, page, polling, history, budget>>

\* seo_employee_run: a new item, or the one that is active for the key.
AcceptRun(i) ==
  LET c == calls[i]
      same == {j \in 1..Len(queue) :
                 queue[j].target = c.target /\ queue[j].trigger = "manual" /\ queue[j].status \in ActiveStatus}
  IN
  /\ c.kind = "run" /\ c.stage = "sent"
  /\ IF same = {}
     THEN /\ queue' = Enqueued(c.target, "manual")
          /\ Answers(i, [NoAnswer EXCEPT !.item = "queued"], "answered")
     ELSE /\ UNCHANGED queue
          /\ \E j \in same : Answers(i, [NoAnswer EXCEPT !.item = queue[j].status], "answered")
  /\ UNCHANGED <<configured, doc, step, page, polling, history, budget>>

\* configure of a new URL appends a target, of a known one changes it; without a
\* target_id the answer is the last target of the list.
AcceptSave(i) ==
  LET c == calls[i] IN
  /\ c.kind = "save" /\ c.stage = "sent"
  /\ IF c.target # None
     THEN UNCHANGED configured /\ Answers(i, [NoAnswer EXCEPT !.known = {c.target}], "answered")
     ELSE \E t \in Targets :
            /\ configured' = configured \cup {t}
            /\ \E last \in IF t \in configured THEN configured ELSE {t} :
                 Answers(i, [NoAnswer EXCEPT !.known = {last}], "answered")
  /\ UNCHANGED <<queue, doc, step, page, polling, history, budget>>
-----------------------------------------------------------------------------
(* The user.                                                                *)

Click == clicks < MaxClicks /\ clicks' = clicks + 1 /\ UNCHANGED failures

Summary(p, t) ==
  IF p.view[t] \in ActiveStatus THEN p.view[t]
  ELSE IF p.summary[t] # "unknown" THEN p.summary[t] ELSE p.state

SelectTarget(t) ==
  /\ Click
  /\ t \in page.listed /\ t # page.selected
  /\ Shows(Rendered([page EXCEPT !.selected = t, !.saved = t, !.state = Summary(page, t),
                                 !.document = NoDocument, !.busy = TRUE]), FALSE)
  /\ timers' = <<>> /\ left' = 0
  /\ calls' = Append(Cancelled(calls), Call("refresh", t))
  /\ UNCHANGED service

StartNewTarget ==
  /\ Click
  /\ Shows(Rendered([page EXCEPT !.selected = None, !.saved = None, !.state = "empty",
                                 !.document = NoDocument]), FALSE)
  /\ StopPolling(calls)
  /\ UNCHANGED service

\* markDirty, on the first change of a field.
MarkDirty ==
  /\ Click
  /\ page.saved = page.selected /\ page.saved # None
  /\ page' = [page EXCEPT !.saved = None]
  /\ UNCHANGED <<service, polling, calls, history>>

SaveConfiguration ==
  /\ Click
  /\ \A i \in 1..Len(calls) : calls[i].kind # "save"
  /\ page' = [page EXCEPT !.busy = TRUE]
  /\ calls' = Append(calls, Call("save", page.selected))
  /\ UNCHANGED <<service, polling, history>>

\* The button is enabled, and the item fits into the bound.
RunAudit ==
  /\ Click
  /\ ~page.busy /\ ~WorkState(page.state) /\ RunAllowed(page)
  /\ Room
  /\ Shows(Rendered([page EXCEPT !.state = "running", !.busy = TRUE]), FALSE)
  /\ timers' = <<>> /\ left' = 0
  /\ calls' = Append(Cancelled(calls), Call("run", page.selected))
  /\ UNCHANGED service

\* A message of the host sets the language, and the page is rendered anew.
ApplyLanguage ==
  /\ page # Rendered(page)
  /\ Shows(Rendered(page), TRUE)
  /\ UNCHANGED <<service, polling, calls, budget>>
-----------------------------------------------------------------------------
(* Answers and timers.                                                      *)

Rest(i) == RemoveAt(calls, i)

\* Faulty: an answer is good if it is about the selected target.
AcceptsSameTarget(c) == c.target = None \/ c.target = page.selected

Accepted(c) == c.live /\ (c.target = None \/ c.target = page.selected)

\* What normalizeStatePayload and refreshState make of an answer; s is selected.
Normalized(c, s) ==
  LET said == c.answer IN
  [page EXCEPT
    !.state = IF page.selected # None /\ said.view[page.selected] \in ActiveStatus
              THEN said.view[page.selected] ELSE said.state,
    !.document = said.document, !.view = said.view,
    !.summary = [t \in Targets |-> IF said.summary[t] = "unknown" THEN @[t] ELSE said.summary[t]],
    !.listed = @ \cup said.known,
    !.detailed = IF said.summary = NoAnswer.summary THEN @ \cup said.known ELSE @,
    !.selected = s,
    !.saved = IF @ \in {None, s} THEN s ELSE @,
    !.busy = FALSE]

\* Faulty: a poll starts a chain, with a deadline of its own.
RestartPolling(p, t, cs) ==
  IF ShouldContinuePolling(p, t) THEN StartPolling(p, t, cs) ELSE StopPolling(cs)

\* schedulePolling after a poll, or the end of the chain.
ContinuePolling(p, t, cs) ==
  IF ShouldContinuePolling(p, t)
  THEN timers' = Append(timers, t) /\ calls' = cs /\ UNCHANGED left
  ELSE StopPolling(cs)

\* refreshState, the answer to the targetless request aside, and pollState.
StateAnswered(i) ==
  LET c == calls[i]
      p == Rendered(Normalized(c, c.target))
  IN
  /\ c.kind \in {"refresh", "poll"} /\ c.stage = "answered" /\ Accepted(c)
  /\ Shows(p, FALSE)
  /\ IF c.kind = "poll" THEN ContinuePolling(p, c.target, Rest(i))
     ELSE IF ShouldContinuePolling(p, c.target) THEN StartPolling(p, c.target, Rest(i))
     ELSE StopPolling(Rest(i))
  /\ UNCHANGED <<service, budget>>

\* The first answer selects a target and asks for its state, under the same tokens.
BootAnswered(i) ==
  LET c == calls[i]
      known == c.answer.known
  IN
  /\ c.kind = "boot" /\ c.stage = "answered" /\ Accepted(c)
  /\ \E s \in IF page.selected \in known THEN {page.selected}
               ELSE IF known # {} THEN known ELSE {page.selected} :
       LET p == Rendered(Normalized(c, s)) IN
       IF known # {}
       THEN /\ Shows([p EXCEPT !.busy = TRUE], FALSE)
            /\ calls' = Append(Rest(i), Call("refresh", s))
            /\ UNCHANGED polling
       ELSE /\ Shows(p, FALSE)
            /\ IF s # None /\ ShouldContinuePolling(p, s)
               THEN StartPolling(p, s, Rest(i)) ELSE StopPolling(Rest(i))
  /\ UNCHANGED <<service, budget>>

\* A late answer, or failure, changes nothing but runBusy.
StateIgnored(i) ==
  LET c == calls[i] IN
  /\ c.kind \in {"boot", "refresh", "poll"} /\ ~Accepted(c)
  /\ page' = [page EXCEPT !.busy = FALSE] /\ calls' = Rest(i)
  /\ UNCHANGED <<service, polling, history, budget>>

\* No check that the target is still the selected one.
RunAnswered(i) ==
  LET c == calls[i]
      p == Rendered([page EXCEPT !.state = "queued", !.item = c.answer.item, !.busy = FALSE])
  IN
  /\ c.kind = "run" /\ c.stage = "answered"
  /\ Shows(p, c.target # page.selected)
  /\ StartPolling(p, c.target, Rest(i))
  /\ UNCHANGED <<service, budget>>

SaveAnswered(i) ==
  LET c == calls[i] IN
  /\ c.kind = "save" /\ c.stage = "answered"
  /\ \E t \in c.answer.known :
       LET s == IF page.selected # None THEN page.selected ELSE t IN
       Shows(Rendered([page EXCEPT !.named = t, !.selected = s, !.saved = s, !.busy = FALSE,
                                   !.listed = @ \cup {s, t}, !.detailed = @ \cup {s, t}]), TRUE)
  /\ calls' = Rest(i)
  /\ UNCHANGED <<service, polling, budget>>

\* A failing call, at whatever stage the service is with it, the deadline aside.
StateFails(i) ==
  LET c == calls[i]
      p == Rendered([page EXCEPT !.state = "failed", !.busy = FALSE])
  IN
  /\ c.kind \in {"boot", "refresh", "poll"} /\ Accepted(c)
  /\ Shows(p, TRUE)
  /\ IF c.kind = "poll" THEN ContinuePolling(p, c.target, Rest(i))
     ELSE calls' = Rest(i) /\ UNCHANGED polling

CommandFails(i) ==
  LET c == calls[i] IN
  /\ c.kind \in {"run", "save"}
  /\ IF c.kind = "run"
     THEN Shows(Rendered([page EXCEPT !.state = "failed", !.busy = FALSE]), TRUE)
     ELSE page' = [page EXCEPT !.busy = FALSE] /\ UNCHANGED history
  /\ calls' = Rest(i) /\ UNCHANGED polling

CallFails(i) ==
  /\ failures < MaxFailures /\ failures' = failures + 1 /\ UNCHANGED clicks
  /\ StateFails(i) \/ CommandFails(i)
  /\ UNCHANGED service

\* The poll deadline has come: the state is failed whatever the queue says.  (After
\* an answer, schedulePolling does the same, should the deadline come just then.)
Expire(p, cs) ==
  /\ Shows([p EXCEPT !.state = "failed"], FALSE)
  /\ StopPolling(cs)

\* ... while a call waits for its answer (a boot or a refresh has a deadline of its
\* own, which comes first only if the page has been suspended meanwhile).
PollTimesOut(i) ==
  /\ calls[i].kind \in {"boot", "refresh", "poll"} /\ Accepted(calls[i])
  /\ Expire([page EXCEPT !.busy = FALSE], Rest(i))
  /\ UNCHANGED <<service, budget>>

\* pollState, when its timer fires.
PollState ==
  /\ timers # <<>>
  /\ \E more \in 0..(left - 1) :
       IF more = 0
       THEN Expire(page, calls)
       ELSE /\ calls' = Append(calls, Call("poll", Head(timers)))
            /\ timers' = Tail(timers) /\ left' = more
            /\ page' = [page EXCEPT !.busy = TRUE] /\ UNCHANGED history
  /\ UNCHANGED <<service, budget>>
-----------------------------------------------------------------------------
Serve(i) == ReadDocument(i) \/ ReadQueue(i) \/ AcceptRun(i) \/ AcceptSave(i)

Receive(i) ==
  StateAnswered(i) \/ BootAnswered(i) \/ StateIgnored(i) \/ RunAnswered(i) \/ SaveAnswered(i)

Next ==
  \/ \E t \in Targets : DailyRun(t) \/ SelectTarget(t)
  \/ Claim \/ PublishRunning \/ PublishResult \/ Settle
  \/ StartNewTarget \/ MarkDirty \/ SaveConfiguration \/ RunAudit \/ ApplyLanguage
  \/ \E i \in 1..Len(calls) : Serve(i) \/ Receive(i) \/ CallFails(i) \/ PollTimesOut(i)
  \/ PollState

Spec == Init /\ [][Next]_vars

\* Every call is answered (else its timer in the bridge ends it) and timers fire.
FairSpec ==
  /\ Spec
  /\ WF_vars(\E i \in 1..Len(calls) : Serve(i))
  /\ WF_vars(\E i \in 1..Len(calls) : Receive(i))
  /\ WF_vars(PollState)
-----------------------------------------------------------------------------
\* Calls whose answer the page will take.
Live(kinds) == {i \in 1..Len(calls) : calls[i].kind \in kinds /\ calls[i].live}

TypeOK ==
  /\ configured \subseteq Targets
  /\ Len(queue) <= MaxItems /\ step \in {"idle", "claimed", "running", "published"}
  /\ \A t \in Targets : doc[t].saved \in 0..MaxItems /\ seen[t] \in 0..doc[t].saved
  /\ page.state \in {"empty", "queued", "running", "ready", "failed"}
  /\ page.selected \in page.listed \cup {None} /\ page.saved \in page.listed \cup {None}
  /\ page.detailed \subseteq page.listed /\ page.listed \subseteq configured
  /\ left \in 0..MaxPolls /\ (timers # <<>> => left > 0)
  /\ clicks \in 0..MaxClicks /\ failures \in 0..MaxFailures

\* What the page shows of a target's document is the selected target's, and never
\* from before a report that the page has known of, in whatever order answers come.
NewestIsShown ==
  page.document.target # None =>
    /\ page.document.target = page.selected
    /\ page.document.saved = seen[page.selected]

\* One bounded polling chain: one timer or one poll in flight, for the selected
\* target.
OnePollingChain ==
  /\ Len(timers) + Cardinality(Live({"poll"})) <= 1
  /\ \A i \in 1..Len(timers) : timers[i] = page.selected

\* While the page says that a target waits or runs, a timer or a call will ask.
\* It loses the thread when an answer comes after the selection has moved, a
\* call other than a poll fails, the form is saved or the page is rendered anew.
WaitingIsWatched ==
  ~strayed /\ page.selected # None /\ WorkState(page.state) =>
    timers # <<>> \/ Live({"boot", "refresh", "poll", "run"}) # {}

\* Left alone, the page stops asking.
PollingEnds == (timers # <<>> \/ calls # <<>>) ~> (timers = <<>> /\ calls = <<>> /\ ~page.busy)
-----------------------------------------------------------------------------
\* UC-SEO-007, docs/contracts/ui-seo-panel.md:20: state ready shows its result.  An
\* answer that says so, with nothing of the target in the queue, is shown as ready.
ReadyIsShown ==
  [][ \A i \in 1..Len(calls) :
        /\ StateAnswered(i)
        /\ calls[i].answer.state = "ready" /\ calls[i].answer.view[calls[i].target] \notin ActiveStatus
        => page'.state = "ready" ]_vars
=============================================================================
