--------------------------- MODULE RunQueueProofs ---------------------------
(***************************************************************************)
(* Proofs about the persistent queue for every set of targets, triggers and *)
(* modes, every retention limit and every number of items.  The inductive   *)
(* invariant joins five named parts: RunningIsOldest needs the single       *)
(* running item of WritesNeverRefused, HeldIsRunning needs the exact claim   *)
(* counts only through the statuses, and all of them need TypeOK.           *)
(***************************************************************************)
EXTENDS RunQueue, TLAPS

QueueInv ==
  /\ TypeOK
  /\ WritesNeverRefused
  /\ HeldIsRunning
  /\ RunningIsOldest
  /\ HandedOutAtMostTwice

\* Pruning forgets settled items only.
LEMMA RetainedKeepsActive ==
  ASSUME NEW its
  PROVE  Active(its) \subseteq Retained(its) /\ Retained(its) \subseteq DOMAIN its
BY DEF Active, Retained, WithStatus

\* What recovery does to one running item.
LEMMA RecoveredItem ==
  ASSUME NEW item \in Item, item.status = "running"
  PROVE  /\ Recovered(item) \in Item
         /\ Key(Recovered(item)) = Key(item)
         /\ \/ /\ item.attempts = 0
               /\ Recovered(item).status = "queued"
               /\ Recovered(item).attempts = 1
               /\ Recovered(item).failure_reason = "none"
            \/ /\ item.attempts # 0
               /\ Recovered(item).status = "failed"
<1> USE AttemptsAssumption DEF Item, Recovered, Replace, Key, Reasons, ActiveStatus, TerminalStatus
<1>1. CASE item.attempts = 0
  BY <1>1
<1>2. CASE item.attempts # 0
  BY <1>2
<1> QED BY <1>1, <1>2

LEMMA InitInv == Init => QueueInv
<1> SUFFICES ASSUME Init PROVE QueueInv
  OBVIOUS
<1>1. DOMAIN items = {} /\ DOMAIN claims = {} /\ held = NoItem
  BY DEF Init
<1>2. TypeOK
  BY <1>1 DEF TypeOK, Init, NoItem
<1>3. WritesNeverRefused /\ RunningIsOldest /\ HandedOutAtMostTwice
  BY <1>1 DEF WritesNeverRefused, ValidDocument, RunningIsOldest, HandedOutAtMostTwice,
              Active, Running, Queued, WithStatus
<1>4. HeldIsRunning
  BY <1>1 DEF HeldIsRunning
<1> QED BY <1>2, <1>3, <1>4 DEF QueueInv

-----------------------------------------------------------------------------
LEMMA EnqueueInv ==
  ASSUME QueueInv, NEW q \in Ids, NEW t \in Targets, NEW tr \in Triggers, NEW m \in Modes,
         Enqueue(q, t, tr, m)
  PROVE  QueueInv'
<1> DEFINE kept == Retained(items)
<1>1. /\ Active(items) \subseteq kept
      /\ kept \subseteq DOMAIN items
  BY RetainedKeepsActive
<1>2. /\ DOMAIN items' = kept \cup {q}
      /\ q \notin kept
      /\ items'[q] = NewItem(t, tr, m)
      /\ \A p \in kept : items'[p] = items[p] /\ p < q
      /\ DOMAIN claims' = kept \cup {q}
      /\ claims'[q] = 0
      /\ \A p \in kept : claims'[p] = claims[p]
      /\ held' = held
  <2>1. \A p \in kept : p < q /\ p \in Nat
    BY <1>1 DEF Enqueue, QueueInv, TypeOK, Ids
  <2>2. q \notin kept
    BY <2>1 DEF Ids
  <2> HIDE DEF kept
  <2> QED BY <2>1, <2>2 DEF Enqueue, kept
<1>3. NewItem(t, tr, m) \in Item
  BY AttemptsAssumption DEF NewItem, Item, ActiveStatus
<1>4. /\ NewItem(t, tr, m).status = "queued"
      /\ NewItem(t, tr, m).attempts = 0
      /\ NewItem(t, tr, m).failure_reason = "none"
      /\ Key(NewItem(t, tr, m)) = <<t, tr>>
  BY DEF NewItem, Key
<1> HIDE DEF kept
<1>5. /\ Running(items') = Running(items)
      /\ Queued(items') = Queued(items) \cup {q}
      /\ Active(items') = Active(items) \cup {q}
  BY <1>1, <1>2, <1>4 DEF Running, Queued, Active, WithStatus, ActiveStatus
<1>6. Running(items) \subseteq kept
  BY <1>1 DEF Active, Running, WithStatus, ActiveStatus
<1>7. TypeOK'
  <2>1. DOMAIN items' \subseteq Ids
    BY <1>1, <1>2 DEF QueueInv, TypeOK
  <2>2. items' \in [DOMAIN items' -> Item]
    BY <1>1, <1>2, <1>3 DEF QueueInv, TypeOK, Enqueue, kept
  <2>3. held' \in DOMAIN items' \cup {NoItem}
    BY <1>2, <1>6 DEF QueueInv, HeldIsRunning
  <2>4. claims' \in [DOMAIN items' -> Nat]
    BY <1>1, <1>2 DEF QueueInv, TypeOK, Enqueue, kept
  <2> QED BY <2>1, <2>2, <2>3, <2>4 DEF TypeOK
<1>8. WritesNeverRefused'
  <2>1. \A p, r \in Active(items') : Key(items'[p]) = Key(items'[r]) => p = r
    <3>1. \A p \in Active(items) : Key(items[p]) # <<t, tr>> /\ items'[p] = items[p]
      BY <1>1, <1>2 DEF Enqueue, IsFree
    <3> QED BY <3>1, <1>2, <1>4, <1>5 DEF QueueInv, WritesNeverRefused, ValidDocument
  <2>2. \A p, r \in Running(items') : p = r
    BY <1>5 DEF QueueInv, WritesNeverRefused, ValidDocument
  <2>3. \A p \in DOMAIN items' : items'[p].failure_reason # "none" => items'[p].status = "failed"
    BY <1>1, <1>2, <1>4 DEF QueueInv, WritesNeverRefused, ValidDocument
  <2> QED BY <2>1, <2>2, <2>3 DEF WritesNeverRefused, ValidDocument
<1>9. HeldIsRunning'
  BY <1>2, <1>5 DEF QueueInv, HeldIsRunning
<1>10. RunningIsOldest'
  BY <1>2, <1>5, <1>6 DEF QueueInv, RunningIsOldest
<1>11. HandedOutAtMostTwice'
  BY <1>1, <1>2, <1>4 DEF QueueInv, HandedOutAtMostTwice
<1> QED BY <1>7, <1>8, <1>9, <1>10, <1>11 DEF QueueInv

LEMMA ClaimInv ==
  ASSUME QueueInv, ClaimNext
  PROVE  QueueInv'
<1>1. PICK q \in Queued(items) :
        /\ \A p \in Queued(items) : q <= p
        /\ items' = [items EXCEPT ![q] = Replace(@, "running", @.attempts, "none")]
        /\ claims' = [claims EXCEPT ![q] = @ + 1]
        /\ held' = q
  BY DEF ClaimNext
<1>2. /\ q \in DOMAIN items
      /\ items[q].status = "queued"
      /\ items[q] \in Item
      /\ claims[q] \in Nat
      /\ q \in Ids
      /\ Running(items) = {}
  BY <1>1 DEF Queued, WithStatus, QueueInv, TypeOK, ClaimNext
<1>3. /\ DOMAIN items' = DOMAIN items
      /\ items'[q] = Replace(items[q], "running", items[q].attempts, "none")
      /\ \A p \in DOMAIN items : p # q => items'[p] = items[p]
      /\ DOMAIN claims' = DOMAIN items
      /\ claims'[q] = claims[q] + 1
      /\ \A p \in DOMAIN items : p # q => claims'[p] = claims[p]
  BY <1>1, <1>2 DEF QueueInv, TypeOK
<1>4. /\ items'[q] \in Item
      /\ items'[q].status = "running"
      /\ items'[q].failure_reason = "none"
      /\ items'[q].attempts = items[q].attempts
      /\ Key(items'[q]) = Key(items[q])
  BY <1>2, <1>3 DEF Item, Replace, ActiveStatus, Reasons, Key
<1>5. /\ Running(items') = {q}
      /\ Queued(items') = Queued(items) \ {q}
      /\ Active(items') = Active(items)
  BY <1>2, <1>3, <1>4 DEF Running, Queued, Active, WithStatus, ActiveStatus
<1>6. TypeOK'
  BY <1>1, <1>2, <1>3, <1>4 DEF QueueInv, TypeOK
<1>7. WritesNeverRefused'
  <2>1. \A p, r \in Active(items') : Key(items'[p]) = Key(items'[r]) => p = r
    <3>1. \A p \in Active(items) : Key(items'[p]) = Key(items[p])
      BY <1>3, <1>4 DEF Active, WithStatus
    <3> QED BY <3>1, <1>5 DEF QueueInv, WritesNeverRefused, ValidDocument
  <2> QED BY <2>1, <1>3, <1>4, <1>5 DEF QueueInv, WritesNeverRefused, ValidDocument
<1>8. HeldIsRunning'
  BY <1>1, <1>5 DEF HeldIsRunning
<1>9. RunningIsOldest'
  <2>1. \A p \in Queued(items) : p \in Nat
    BY DEF Queued, WithStatus, QueueInv, TypeOK, Ids
  <2>2. \A p \in Queued(items) \ {q} : q < p
    BY <2>1, <1>1
  <2> QED BY <2>2, <1>5 DEF RunningIsOldest
<1>10. HandedOutAtMostTwice'
  BY <1>2, <1>3, <1>4 DEF QueueInv, HandedOutAtMostTwice, Item
<1> QED BY <1>6, <1>7, <1>8, <1>9, <1>10 DEF QueueInv

\* complete and fail differ in the outcome only.
LEMMA SettleInv ==
  ASSUME QueueInv, Complete \/ Fail("run_failed")
  PROVE  QueueInv'
<1>1. PICK status \in TerminalStatus, reason \in Reasons \cup {"none"} :
        /\ items' = [items EXCEPT ![held] = Replace(@, status, @.attempts, reason)]
        /\ reason # "none" => status = "failed"
  BY DEF Complete, Fail, TerminalStatus, Reasons
<1>2. /\ held \in Running(items)
      /\ held' = NoItem
      /\ claims' = claims
  BY DEF Complete, Fail
<1>3. /\ held \in DOMAIN items
      /\ items[held] \in Item
      /\ Running(items) = {held}
  BY <1>2 DEF QueueInv, TypeOK, Running, WithStatus, WritesNeverRefused, ValidDocument
<1>4. /\ DOMAIN items' = DOMAIN items
      /\ items'[held] = Replace(items[held], status, items[held].attempts, reason)
      /\ \A p \in DOMAIN items : p # held => items'[p] = items[p]
  BY <1>1, <1>3 DEF QueueInv, TypeOK
<1>5. /\ items'[held] \in Item
      /\ items'[held].status = status
      /\ items'[held].failure_reason = reason
      /\ status \notin ActiveStatus
  BY <1>3, <1>4 DEF Item, Replace, ActiveStatus, TerminalStatus
<1>6. /\ Running(items') = {}
      /\ Queued(items') \subseteq Queued(items)
      /\ Active(items') \subseteq Active(items) \ {held}
  BY <1>3, <1>4, <1>5 DEF Running, Queued, Active, WithStatus, ActiveStatus
<1>7. TypeOK'
  <2>1. items' \in [DOMAIN items -> Item]
    BY <1>1, <1>3, <1>4, <1>5 DEF QueueInv, TypeOK
  <2> QED BY <2>1, <1>2, <1>4 DEF QueueInv, TypeOK
<1>8. WritesNeverRefused'
  <2>1. \A p \in Active(items') : items'[p] = items[p]
    BY <1>4, <1>6 DEF Active, WithStatus
  <2>2. \A p, r \in Active(items') : Key(items'[p]) = Key(items'[r]) => p = r
    BY <2>1, <1>6 DEF QueueInv, WritesNeverRefused, ValidDocument
  <2>3. \A p \in DOMAIN items' : items'[p].failure_reason # "none" => items'[p].status = "failed"
    BY <1>1, <1>4, <1>5 DEF QueueInv, WritesNeverRefused, ValidDocument
  <2> QED BY <2>2, <2>3, <1>6 DEF WritesNeverRefused, ValidDocument
<1>9. HeldIsRunning' /\ RunningIsOldest'
  BY <1>2, <1>6 DEF HeldIsRunning, RunningIsOldest
<1>10. HandedOutAtMostTwice'
  BY <1>2, <1>3, <1>4, <1>5 DEF QueueInv, HandedOutAtMostTwice, ActiveStatus
<1> QED BY <1>7, <1>8, <1>9, <1>10 DEF QueueInv

LEMMA RecoverInv ==
  ASSUME QueueInv, RecoverInterrupted
  PROVE  QueueInv'
<1>1. /\ DOMAIN items' = DOMAIN items
      /\ \A p \in Running(items) : items'[p] = Recovered(items[p])
      /\ \A p \in DOMAIN items \ Running(items) : items'[p] = items[p]
      /\ held = NoItem /\ held' = NoItem
      /\ claims' = claims
  BY DEF RecoverInterrupted, Running, WithStatus
<1>2. \A p \in Running(items) :
        p \in DOMAIN items /\ items[p] \in Item /\ items[p].status = "running"
  BY DEF QueueInv, TypeOK, Running, WithStatus
<1>3. \A p \in Running(items) :
        /\ items'[p] \in Item
        /\ Key(items'[p]) = Key(items[p])
        /\ \/ /\ items[p].attempts = 0
              /\ items'[p].status = "queued"
              /\ items'[p].attempts = 1
              /\ items'[p].failure_reason = "none"
           \/ /\ items[p].attempts # 0
              /\ items'[p].status = "failed"
  BY <1>1, <1>2, RecoveredItem
<1>4. /\ Running(items') = {}
      /\ Queued(items') \subseteq Queued(items) \cup Running(items)
      /\ Active(items') \subseteq Active(items)
  BY <1>1, <1>2, <1>3 DEF Running, Queued, Active, WithStatus, ActiveStatus
<1>5. TypeOK'
  <2>1. \A p \in DOMAIN items : items'[p] \in Item
    BY <1>1, <1>3 DEF QueueInv, TypeOK
  <2>2. items' \in [DOMAIN items -> Item]
    BY <2>1, <1>1 DEF RecoverInterrupted
  <2> QED BY <2>2, <1>1 DEF QueueInv, TypeOK
<1>6. WritesNeverRefused'
  <2>1. \A p \in Active(items') : Key(items'[p]) = Key(items[p])
    BY <1>1, <1>3 DEF Active, WithStatus
  <2>2. \A p, r \in Active(items') : Key(items'[p]) = Key(items'[r]) => p = r
    BY <2>1, <1>4 DEF QueueInv, WritesNeverRefused, ValidDocument
  <2>3. \A p \in DOMAIN items' : items'[p].failure_reason # "none" => items'[p].status = "failed"
    BY <1>1, <1>3 DEF QueueInv, WritesNeverRefused, ValidDocument
  <2> QED BY <2>2, <2>3, <1>4 DEF WritesNeverRefused, ValidDocument
<1>7. HeldIsRunning' /\ RunningIsOldest'
  BY <1>1, <1>4 DEF HeldIsRunning, RunningIsOldest
<1>8. HandedOutAtMostTwice'
  <2>1. \A p \in Running(items) : claims[p] = items[p].attempts + 1 /\ claims[p] <= 2
    BY <1>2 DEF QueueInv, HandedOutAtMostTwice
  <2> QED BY <2>1, <1>1, <1>2, <1>3 DEF QueueInv, HandedOutAtMostTwice, Running, WithStatus
<1> QED BY <1>5, <1>6, <1>7, <1>8 DEF QueueInv

LEMMA StepInv == QueueInv /\ [Next]_vars => QueueInv'
<1> SUFFICES ASSUME QueueInv, [Next]_vars PROVE QueueInv'
  OBVIOUS
<1>1. CASE \E q \in Ids, t \in Targets, tr \in Triggers, m \in Modes :
             IsNextId(q, items) /\ Enqueue(q, t, tr, m)
  BY <1>1, EnqueueInv
<1>2. CASE ClaimNext
  BY <1>2, ClaimInv
<1>3. CASE Complete \/ Fail("run_failed")
  BY <1>3, SettleInv
<1>4. CASE Abandon
  BY <1>4 DEF Abandon, QueueInv, TypeOK, WritesNeverRefused, HeldIsRunning, RunningIsOldest,
              HandedOutAtMostTwice
<1>5. CASE RecoverInterrupted
  BY <1>5, RecoverInv
<1>6. CASE UNCHANGED vars
  BY <1>6 DEF vars, QueueInv, TypeOK, WritesNeverRefused, HeldIsRunning, RunningIsOldest,
              HandedOutAtMostTwice
<1> QED BY <1>1, <1>2, <1>3, <1>4, <1>5, <1>6 DEF Next
-----------------------------------------------------------------------------
\* The document stays well typed under every sequence of queue operations.
THEOREM TypeCorrect == Spec => []TypeOK
<1>1. QueueInv => TypeOK
  BY DEF QueueInv
<1> QED BY InitInv, StepInv, <1>1, PTL DEF Spec

\* No operation of SeoEmployeeQueue computes a document its own validation
\* refuses.
THEOREM ValidationNeverBlocks == Spec => []WritesNeverRefused
<1>1. QueueInv => WritesNeverRefused
  BY DEF QueueInv
<1> QED BY InitInv, StepInv, <1>1, PTL DEF Spec

\* First in, first out across targets and across recoveries.
THEOREM FirstInFirstOut == Spec => []RunningIsOldest
<1>1. QueueInv => RunningIsOldest
  BY DEF QueueInv
<1> QED BY InitInv, StepInv, <1>1, PTL DEF Spec

\* An item that keeps killing its worker is handed out at most twice.
THEOREM RecoveryIsLimited == Spec => []HandedOutAtMostTwice
<1>1. QueueInv => HandedOutAtMostTwice
  BY DEF QueueInv
<1> QED BY InitInv, StepInv, <1>1, PTL DEF Spec

\* A step drops no active item and leaves what is settled as it is, until
\* retention forgets it.
THEOREM AcceptedWorkIsKept == Spec => NoItemIsLost
<1> DEFINE Kept == /\ Active(items) \subseteq DOMAIN items'
                   /\ \A q \in DOMAIN items \cap DOMAIN items' :
                        items[q].status \in TerminalStatus => items'[q] = items[q]
<1>1. QueueInv /\ [Next]_vars => [Kept]_vars
  <2> SUFFICES ASSUME QueueInv, Next PROVE Kept
    OBVIOUS
  <2>1. ASSUME NEW q \in Ids, NEW t \in Targets, NEW tr \in Triggers, NEW m \in Modes,
               Enqueue(q, t, tr, m)
        PROVE  Kept
    <3>1. Active(items) \subseteq Retained(items) /\ Retained(items) \subseteq DOMAIN items
      BY RetainedKeepsActive
    <3>2. \A p \in DOMAIN items : p # q
      BY <2>1 DEF Enqueue, QueueInv, TypeOK, Ids
    <3> QED BY <2>1, <3>1, <3>2 DEF Enqueue
  <2>2. CASE ClaimNext
    BY <2>2 DEF ClaimNext, Queued, Active, WithStatus, ActiveStatus, TerminalStatus,
                QueueInv, TypeOK
  <2>3. CASE Complete \/ Fail("run_failed")
    BY <2>3 DEF Complete, Fail, Running, Active, WithStatus, ActiveStatus, TerminalStatus,
                QueueInv, TypeOK
  <2>4. CASE Abandon
    BY <2>4 DEF Abandon, Active, WithStatus
  <2>5. CASE RecoverInterrupted
    BY <2>5 DEF RecoverInterrupted, Active, WithStatus, TerminalStatus
  <2> QED BY <2>1, <2>2, <2>3, <2>4, <2>5 DEF Next
<1> QED BY InitInv, StepInv, <1>1, PTL DEF Spec, NoItemIsLost
=============================================================================
