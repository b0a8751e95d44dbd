------------------------------ MODULE RunQueue ------------------------------
(***************************************************************************)
(* What the persistent FIFO queue of audit runs promises                   *)
(* (experts/seo_employee_queue.py).  One document, state/queue.json, holds  *)
(* the items in insertion order; every operation of SeoEmployeeQueue reads  *)
(* the document, computes its successor and replaces the file in one        *)
(* atomic step, so here each operation is one action on the document.       *)
(* QueueFile refines these actions to the lock, the temporary file and the  *)
(* replace.                                                                *)
(*                                                                         *)
(* The JSON list is represented by a function from queue ids to items: an   *)
(* id is a number, and the list order is the order of the ids, because     *)
(* enqueue appends and nothing reorders.  requested_at is payload that no   *)
(* operation reads and is left out.                                        *)
(***************************************************************************)
EXTENDS Integers, FiniteSets

CONSTANTS Targets,      \* configured target_id values
          Triggers,     \* QUEUE_TRIGGERS
          Modes,        \* QUEUE_MODES
          MaxTerminal,  \* MAX_TERMINAL_ITEMS
          MaxAttempts,  \* _MAX_ATTEMPTS
          MaxId         \* bound: ids enqueued in a behaviour

ASSUME RetentionAssumption == MaxTerminal \in Nat /\ MaxTerminal >= 2
ASSUME AttemptsAssumption == MaxAttempts \in Nat /\ MaxAttempts >= 2
ASSUME BoundAssumption == MaxId \in Nat

VARIABLES items,  \* the document: queue_id -> item
          held,   \* the item the live consumer has in memory, or NoItem
          claims  \* history: how often each present item was handed out

vars == <<items, held, claims>>
-----------------------------------------------------------------------------
Ids == 1..MaxId
NoItem == 0
Reasons == {"run_failed", "recovery_limit"}

ActiveStatus == {"queued", "running"}
TerminalStatus == {"completed", "failed"}

Item == [target_id : Targets, trigger : Triggers, mode : Modes,
         status : ActiveStatus \cup TerminalStatus,
         attempts : 0..MaxAttempts, failure_reason : Reasons \cup {"none"}]

WithStatus(its, S) == {q \in DOMAIN its : its[q].status \in S}
Active(its)  == WithStatus(its, ActiveStatus)
Queued(its)  == WithStatus(its, {"queued"})
Running(its) == WithStatus(its, {"running"})

Key(item) == <<item.target_id, item.trigger>>

\* What _items_from_document demands of a document on every read and before
\* every write.
ValidDocument(its) ==
  /\ \A p, q \in Active(its) : Key(its[p]) = Key(its[q]) => p = q
  /\ \A p, q \in Running(its) : p = q
  /\ \A q \in DOMAIN its : its[q].failure_reason # "none" => its[q].status = "failed"

\* Faulty: prunes whatever is oldest, settled or not.
RetainedNewest(its) ==
  IF Cardinality(WithStatus(its, TerminalStatus)) < MaxTerminal
  THEN DOMAIN its
  ELSE {q \in DOMAIN its : Cardinality({p \in DOMAIN its : p > q}) < MaxTerminal - 1}

\* The ids that survive the pruning in enqueue: every active item, and, once
\* MaxTerminal items are terminal, only the newest MaxTerminal - 1 of them.
Retained(its) ==
  LET terminal == WithStatus(its, TerminalStatus) IN
  IF Cardinality(terminal) < MaxTerminal
  THEN DOMAIN its
  ELSE Active(its) \cup {q \in terminal : Cardinality({p \in terminal : p > q}) < MaxTerminal - 1}

NewItem(t, tr, m) ==
  [target_id |-> t, trigger |-> tr, mode |-> m,
   status |-> "queued", attempts |-> 0, failure_reason |-> "none"]

\* The fresh queue_id: one past the newest id in the document, which pruning
\* never forgets.
IsNextId(q, its) ==
  /\ \A p \in DOMAIN its : p < q
  /\ q = 1 \/ q - 1 \in DOMAIN its

\* Faulty: a running item no longer answers for its key.
IsFreeOfQueued(its, t, tr) == \A q \in Queued(its) : Key(its[q]) # <<t, tr>>

IsFree(its, t, tr) == \A q \in Active(its) : Key(its[q]) # <<t, tr>>

\* dataclasses.replace on the three fields an operation may change.
Replace(item, status, attempts, reason) ==
  [target_id |-> item.target_id, trigger |-> item.trigger, mode |-> item.mode,
   status |-> status, attempts |-> attempts, failure_reason |-> reason]

\* Faulty: an interrupted item is requeued every time.
RecoveredAlways(item) ==
  Replace(item, "queued", IF item.attempts < MaxAttempts THEN item.attempts + 1 ELSE MaxAttempts, "none")

\* An interrupted item is requeued once; the second interruption fails it.
Recovered(item) ==
  IF item.attempts = 0
  THEN Replace(item, "queued", 1, "none")
  ELSE Replace(item, "failed",
               IF item.attempts < MaxAttempts THEN item.attempts + 1 ELSE MaxAttempts,
               "recovery_limit")
-----------------------------------------------------------------------------
Init ==
  /\ items = [q \in {} |-> 0]
  /\ held = NoItem
  /\ claims = [q \in {} |-> 0]

\* enqueue of a free key: prune, then append.  A key that is already active is
\* answered with the existing item and leaves the document as it is.
Enqueue(q, t, tr, m) ==
  /\ IsFree(items, t, tr)
  /\ \A p \in DOMAIN items : p < q
  /\ items' = [p \in Retained(items) \cup {q} |-> IF p = q THEN NewItem(t, tr, m) ELSE items[p]]
  /\ claims' = [p \in Retained(items) \cup {q} |-> IF p = q THEN 0 ELSE claims[p]]
  /\ UNCHANGED held

\* Faulty: takes the newest queued item.
ClaimNewest ==
  /\ held = NoItem
  /\ Running(items) = {}
  /\ \E q \in Queued(items) :
       /\ \A p \in Queued(items) : q >= p
       /\ items' = [items EXCEPT ![q] = Replace(@, "running", @.attempts, "none")]
       /\ claims' = [claims EXCEPT ![q] = @ + 1]
       /\ held' = q

\* claim_next: nothing while an item is running, otherwise the first queued one.
ClaimNext ==
  /\ held = NoItem
  /\ Running(items) = {}
  /\ \E q \in Queued(items) :
       /\ \A p \in Queued(items) : q <= p
       /\ items' = [items EXCEPT ![q] = Replace(@, "running", @.attempts, "none")]
       /\ claims' = [claims EXCEPT ![q] = @ + 1]
       /\ held' = q

Complete ==
  /\ held \in Running(items)
  /\ items' = [items EXCEPT ![held] = Replace(@, "completed", @.attempts, "none")]
  /\ held' = NoItem
  /\ UNCHANGED claims

Fail(reason) ==
  /\ held \in Running(items)
  /\ items' = [items EXCEPT ![held] = Replace(@, "failed", @.attempts, reason)]
  /\ held' = NoItem
  /\ UNCHANGED claims

\* The process dies with the item in its hands, or gives up settling it after a
\* storage error and lives on: the document still says running.  Only the next
\* start of the process recovers it, and nothing here obliges one; what does, and
\* that work is settled then, is SeoEmployee's matter.
Abandon ==
  /\ held # NoItem
  /\ held' = NoItem
  /\ UNCHANGED <<items, claims>>

\* Faulty: recovers while the worker is at its item.
RecoverAnyTime ==
  /\ items' = [q \in DOMAIN items |->
                 IF items[q].status = "running" THEN Recovered(items[q]) ELSE items[q]]
  /\ UNCHANGED <<held, claims>>

\* recover_interrupted, called once by QueueConsumer.start before any claim.
RecoverInterrupted ==
  /\ held = NoItem
  /\ items' = [q \in DOMAIN items |->
                 IF items[q].status = "running" THEN Recovered(items[q]) ELSE items[q]]
  /\ UNCHANGED <<held, claims>>

Next ==
  \/ \E q \in Ids, t \in Targets, tr \in Triggers, m \in Modes :
       IsNextId(q, items) /\ Enqueue(q, t, tr, m)
  \/ ClaimNext
  \/ Complete
  \/ Fail("run_failed")
  \/ Abandon
  \/ RecoverInterrupted

Spec == Init /\ [][Next]_vars
-----------------------------------------------------------------------------
\* The document maps ids to items; a held item is one of them.
TypeOK ==
  /\ DOMAIN items \subseteq Ids
  /\ items \in [DOMAIN items -> Item]
  /\ held \in DOMAIN items \cup {NoItem}
  /\ claims \in [DOMAIN items -> Nat]

\* The validation in _encode_document never refuses a document an operation
\* computed: no legal sequence of calls can wedge the queue on its own check.
WritesNeverRefused == ValidDocument(items)

\* The item in the consumer's hands is the one the document calls running, so
\* complete and fail never meet "requires a matching running queue item".
HeldIsRunning == held # NoItem => Running(items) = {held}

\* A running item is older than everything still waiting, also after a recovery
\* put it back into the line: no target overtakes another.
RunningIsOldest == \A r \in Running(items), q \in Queued(items) : r < q

\* No item is handed to a worker more than twice, however often the process
\* dies: attempts counts recoveries, and the claims never get ahead of it.
HandedOutAtMostTwice ==
  \A q \in DOMAIN items :
    /\ claims[q] <= 2
    /\ items[q].status = "queued" => claims[q] = items[q].attempts /\ claims[q] <= 1
    /\ items[q].status = "running" => claims[q] = items[q].attempts + 1

\* Accepted work is never dropped, and what is settled is never reopened or
\* rewritten: it stays as it is until retention forgets it.
NoItemIsLost ==
  [][ /\ Active(items) \subseteq DOMAIN items'
      /\ \A q \in DOMAIN items \cap DOMAIN items' :
           items[q].status \in TerminalStatus => items'[q] = items[q] ]_vars
=============================================================================
