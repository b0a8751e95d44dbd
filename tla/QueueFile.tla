------------------------------ MODULE QueueFile ------------------------------
(***************************************************************************)
(* How SeoEmployeeQueue keeps the promise of RunQueue with files: every     *)
(* operation takes the path's lock, reads and validates the document,       *)
(* computes its successor, writes it to a temporary file and renames that   *)
(* over the document.  Several threads of one process call it (HTTP         *)
(* handlers, the scheduler, the consumer), any read or write may fail, and  *)
(* the process may be killed between any two steps.                         *)
(*                                                                         *)
(* The document is the JSON list itself, a sequence of items in insertion   *)
(* order with their queue_id.                                              *)
(***************************************************************************)
EXTENDS Integers, FiniteSets, SequencesExt

CONSTANTS Threads, Targets, Triggers, Modes, MaxTerminal, MaxAttempts,
          MaxId,     \* bound: enqueued items
          MaxKills,  \* bound: kills of the process
          Nobody     \* no thread, no document in memory

ASSUME ThreadsAssumption == IsFiniteSet(Threads) /\ Nobody \notin Threads
ASSUME LimitsAssumption ==
  {MaxTerminal, MaxAttempts, MaxId} \subseteq Nat /\ MaxTerminal >= 2 /\ MaxAttempts >= 2

VARIABLES file,     \* state/queue.json
          lock,     \* the thread inside the path lock, or Nobody
          at,       \* per thread: where it is in its operation
          call,     \* per thread: the operation it is in, Idle outside
          doc,      \* per thread: the document it read or is about to install
          held,     \* queue_id in the hands of the worker that claimed it, or 0
          started,  \* QueueConsumer.start has recovered the queue
          claims,   \* history: queue_id -> number of times handed out
          kills

vars == <<file, lock, at, call, doc, held, started, claims, kills>>
-----------------------------------------------------------------------------
Idle == [op |-> "none"]

ConsumerOps == {"claim", "complete", "fail", "recover"}

Calls ==
  [op : {"enqueue"}, target_id : Targets, trigger : Triggers, mode : Modes] \cup [op : ConsumerOps]

Places(s)      == 1..Len(s)
Ids(s)         == {s[k].queue_id : k \in Places(s)}
IsActive(e)    == e.status \in {"queued", "running"}
Terminal(s)    == {k \in Places(s) : ~IsActive(s[k])}
IsRunning(s)   == \E k \in Places(s) : s[k].status = "running"
WithId(s, q)   == CHOOSE k \in Places(s) : s[k].queue_id = q
FirstQueued(s) == SelectInSeq(s, LAMBDA e : e.status = "queued")
Highest(s)     == Max(Ids(s) \cup {0})

\* _items_from_document, applied to every document read and before every write.
Valid(s) ==
  \A j, k \in Places(s) :
    \/ s[j].queue_id = s[k].queue_id
    \/ IsActive(s[j]) /\ IsActive(s[k]) /\ s[j].target_id = s[k].target_id /\ s[j].trigger = s[k].trigger
    \/ s[j].status = "running" /\ s[k].status = "running"
    => j = k

\* The entries at the places I, in their order.
Place(I, n)  == CHOOSE k \in I : Cardinality({j \in I : j <= k}) = n
Picked(s, I) == [n \in 1..Cardinality(I) |-> s[Place(I, n)]]

\* Every active entry, and terminal[-(MAX_TERMINAL_ITEMS - 1):] once
\* MAX_TERMINAL_ITEMS is reached.
Retained(s) ==
  IF Cardinality(Terminal(s)) < MaxTerminal THEN Places(s)
  ELSE {k \in Places(s) : IsActive(s[k]) \/ Cardinality({j \in Terminal(s) : j > k}) < MaxTerminal - 1}

Pruned(s) == Picked(s, Retained(s))

Existing(s, c) ==
  \E k \in Places(s) : IsActive(s[k]) /\ s[k].target_id = c.target_id /\ s[k].trigger = c.trigger

Appended(s, c) ==
  Append(Pruned(s), [queue_id |-> Highest(s) + 1, target_id |-> c.target_id, trigger |-> c.trigger,
                     mode |-> c.mode, status |-> "queued", attempts |-> 0, failure_reason |-> "none"])

\* dataclasses.replace on the three fields an operation may change.
Replaced(e, status, attempts, reason) ==
  [queue_id |-> e.queue_id, target_id |-> e.target_id, trigger |-> e.trigger, mode |-> e.mode,
   status |-> status, attempts |-> attempts, failure_reason |-> reason]

Claimed(s) == [s EXCEPT ![FirstQueued(s)] = Replaced(@, "running", @.attempts, "none")]

Settled(s, q, status, reason) == [s EXCEPT ![WithId(s, q)] = Replaced(@, status, @.attempts, reason)]

\* _recover.
Recovered(s) ==
  [k \in Places(s) |->
     IF s[k].status # "running" THEN s[k]
     ELSE IF s[k].attempts = 0 THEN Replaced(s[k], "queued", 1, "none")
     ELSE Replaced(s[k], "failed", IF s[k].attempts < MaxAttempts THEN s[k].attempts + 1 ELSE MaxAttempts,
                   "recovery_limit")]

\* The document an operation wants to install; the document itself when it has
\* nothing to write (existing item returned, nothing to claim or to recover,
\* QueueOperationError).
Successor(s, c) ==
  LET running(q) == \E k \in Places(s) : s[k].queue_id = q /\ s[k].status = "running" IN
  CASE c.op = "enqueue"  -> IF Existing(s, c) THEN s ELSE Appended(s, c)
    [] c.op = "claim"    -> IF IsRunning(s) \/ FirstQueued(s) = 0 THEN s ELSE Claimed(s)
    [] c.op = "complete" -> IF running(held) THEN Settled(s, held, "completed", "none") ELSE s
    [] c.op = "fail"     -> IF running(held) THEN Settled(s, held, "failed", "run_failed") ELSE s
    [] c.op = "recover"  -> Recovered(s)
-----------------------------------------------------------------------------
Init ==
  /\ file = <<>> /\ lock = Nobody
  /\ at = [th \in Threads |-> "idle"] /\ call = [th \in Threads |-> Idle]
  /\ doc = [th \in Threads |-> Nobody]
  /\ held = 0 /\ started = FALSE /\ claims = [q \in {} |-> 0] /\ kills = 0

Enqueuing == {th \in Threads : call[th].op = "enqueue"}

\* Only QueueConsumer.start recovers, before the server takes requests; one
\* consumer claims, and settles what it claimed.
MayCall(c) ==
  CASE c.op = "recover" -> ~started
    [] c.op = "enqueue" -> started /\ Highest(file) + Cardinality(Enqueuing) < MaxId
    [] c.op = "claim"   -> started /\ held = 0
    [] OTHER            -> started /\ held # 0

\* The thread enters the operation and waits for the path lock.
Enter(th, c) ==
  /\ call[th] = Idle /\ MayCall(c)
  /\ c.op # "enqueue" => \A other \in Threads : call[other].op \notin ConsumerOps
  /\ at' = [at EXCEPT ![th] = "waiting"] /\ call' = [call EXCEPT ![th] = c]
  /\ UNCHANGED <<file, lock, doc, held, started, claims, kills>>

\* Faulty: two handles on one path do not share their lock.
LockOfOneHandle(th) ==
  /\ at[th] = "waiting"
  /\ lock' = th /\ at' = [at EXCEPT ![th] = "reading"]
  /\ UNCHANGED <<file, call, doc, held, started, claims, kills>>

Lock(th) ==
  /\ at[th] = "waiting" /\ lock = Nobody
  /\ lock' = th /\ at' = [at EXCEPT ![th] = "reading"]
  /\ UNCHANGED <<file, call, doc, held, started, claims, kills>>

Read(th) ==
  /\ at[th] = "reading" /\ Valid(file)
  /\ doc' = [doc EXCEPT ![th] = Successor(file, call[th])]
  /\ at' = [at EXCEPT ![th] = IF doc'[th] = file THEN "leaving" ELSE "writing"]
  /\ started' = (started \/ (call[th].op = "recover" /\ doc'[th] = file))
  /\ UNCHANGED <<file, lock, call, held, claims, kills>>

\* os.replace: the only step that changes the document.
Rename(th) ==
  /\ at[th] = "writing" /\ Valid(doc[th])
  /\ file' = doc[th]
  /\ at' = [at EXCEPT ![th] = "leaving"]
  /\ LET q == file[FirstQueued(file)].queue_id IN
     CASE call[th].op = "claim"   -> held' = q /\ claims' = [claims EXCEPT ![q] = @ + 1]
       [] call[th].op = "enqueue" -> /\ claims' = [p \in Ids(file') |-> IF p \in DOMAIN claims THEN claims[p] ELSE 0]
                                     /\ UNCHANGED held
       [] call[th].op \in {"complete", "fail"} -> held' = 0 /\ UNCHANGED claims
       [] OTHER                   -> UNCHANGED <<held, claims>>
  /\ started' = (started \/ call[th].op = "recover")
  /\ UNCHANGED <<lock, call, doc, kills>>

\* The read, the validation or the write raises; the temporary file is unlinked
\* and the document is untouched.  When complete raises, the consumer still has
\* the item and calls fail; when fail raises, it drops the item.
Raise(th) ==
  /\ at[th] \in {"reading", "writing"}
  /\ at' = [at EXCEPT ![th] = "leaving"]
  /\ held' = IF call[th].op = "fail" THEN 0 ELSE held
  /\ UNCHANGED <<file, lock, call, doc, started, claims, kills>>

\* Faulty: an operation that raised keeps the lock.
UnlockWhenDone(th) ==
  /\ at[th] = "leaving"
  /\ lock' = IF doc[th] = file THEN Nobody ELSE lock
  /\ at' = [at EXCEPT ![th] = "idle"] /\ call' = [call EXCEPT ![th] = Idle]
  /\ doc' = [doc EXCEPT ![th] = Nobody]
  /\ UNCHANGED <<file, held, started, claims, kills>>

Unlock(th) ==
  /\ at[th] = "leaving"
  /\ lock' = Nobody
  /\ at' = [at EXCEPT ![th] = "idle"] /\ call' = [call EXCEPT ![th] = Idle]
  /\ doc' = [doc EXCEPT ![th] = Nobody]
  /\ UNCHANGED <<file, held, started, claims, kills>>

Kill ==
  /\ kills < MaxKills
  /\ kills' = kills + 1
  /\ lock' = Nobody /\ held' = 0 /\ started' = FALSE
  /\ at' = [th \in Threads |-> "idle"] /\ call' = [th \in Threads |-> Idle]
  /\ doc' = [th \in Threads |-> Nobody]
  /\ UNCHANGED <<file, claims>>

Step(th) == Lock(th) \/ Read(th) \/ Rename(th) \/ Raise(th) \/ Unlock(th)

Next ==
  \/ \E th \in Threads : Step(th) \/ \E c \in Calls : Enter(th, c)
  \/ Kill

Spec == Init /\ [][Next]_vars

\* Every thread inside an operation runs on; a lock that is free infinitely
\* often is granted.
FairSpec == Spec /\ \A th \in Threads : WF_vars(Read(th) \/ Rename(th) \/ Raise(th) \/ Unlock(th))
                                     /\ SF_vars(Lock(th))
-----------------------------------------------------------------------------
\* The refinement: an id stands for the list entry that carries it.
Item(e) ==
  [target_id |-> e.target_id, trigger |-> e.trigger, mode |-> e.mode,
   status |-> e.status, attempts |-> e.attempts, failure_reason |-> e.failure_reason]

Document(s) == [q \in Ids(s) |-> Item(s[WithId(s, q)])]

Promise == INSTANCE RunQueue WITH items <- Document(file)

\* Whatever the threads interleave, whichever read or write fails and whenever
\* the process is killed, the file changes as the queue promises.  The promise
\* goes by age, the code by place in the list: the list must keep its order.
KeepsPromise == Promise!Spec

\* No operation hangs: whoever entered leaves, with its result or an exception.
EveryCallReturns == \A th \in Threads : at[th] # "idle" ~> at[th] = "idle"
=============================================================================
