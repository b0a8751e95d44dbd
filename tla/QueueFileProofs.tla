---------------------------- MODULE QueueFileProofs ----------------------------
(***************************************************************************)
(* QueueFile implements RunQueue, for any threads, targets, triggers and    *)
(* modes, any limits and any number of items and kills.  Mutual exclusion   *)
(* makes the document that a thread installs the successor of the one that  *)
(* is there (LockInv), one consumer makes the worker's item its own         *)
(* (ConsumerInv), and the list stays ordered by age (Ordered), so that its  *)
(* places and the promise's ids say the same.                               *)
(***************************************************************************)
EXTENDS QueueFile, FiniteSetTheorems, SequenceTheorems, TLAPS

Statuses == {"queued", "running", "completed", "failed"}
Reasons == {"none", "run_failed", "recovery_limit"}
Entries ==
  [queue_id : Nat, target_id : Targets, trigger : Triggers, mode : Modes,
   status : Statuses, attempts : Nat, failure_reason : Reasons]

\* The list is in the order of age.
Ordered(s) == \A j, k \in Places(s) : j < k => s[j].queue_id < s[k].queue_id

Lists == {s \in Seq(Entries) : Ordered(s)}
-----------------------------------------------------------------------------
(* Entries and lists.                                                       *)

LEMMA EntryFields ==
  ASSUME NEW e \in Entries
  PROVE  /\ e.queue_id \in Nat /\ e.target_id \in Targets /\ e.trigger \in Triggers /\ e.mode \in Modes
         /\ e.status \in Statuses /\ e.attempts \in Nat /\ e.failure_reason \in Reasons
BY SMT DEF Entries

LEMMA ReplacedEntry ==
  ASSUME NEW e \in Entries, NEW s \in Statuses, NEW n \in Nat, NEW r \in Reasons
  PROVE  /\ Replaced(e, s, n, r) \in Entries /\ Replaced(e, s, n, r).queue_id = e.queue_id
         /\ Replaced(e, s, n, r).status = s
BY EntryFields, SMT DEF Replaced, Entries

LEMMA ListFacts ==
  ASSUME NEW s \in Lists
  PROVE  /\ s \in Seq(Entries) /\ Len(s) \in Nat /\ DOMAIN s = Places(s) /\ Places(s) \subseteq Nat
         /\ \A k \in Places(s) : s[k] \in Entries /\ s[k].queue_id \in Nat
         /\ \A j, k \in Places(s) : j < k <=> s[j].queue_id < s[k].queue_id
         /\ \A j, k \in Places(s) : s[j].queue_id = s[k].queue_id => j = k
<1>1. s \in Seq(Entries) /\ Ordered(s) BY DEF Lists
<1>2. Len(s) \in Nat /\ DOMAIN s = Places(s) BY <1>1, LenProperties DEF Places
<1>3. Places(s) \subseteq Nat BY <1>2, SMT DEF Places
<1>4. ASSUME NEW k \in Places(s) PROVE s[k] \in Entries /\ s[k].queue_id \in Nat
  <2>1. s[k] \in Entries BY <1>1, ElementOfSeq DEF Places
  <2> QED BY <2>1, EntryFields
<1>5. ASSUME NEW j \in Places(s), NEW k \in Places(s)
      PROVE  (j < k <=> s[j].queue_id < s[k].queue_id) /\ (s[j].queue_id = s[k].queue_id => j = k)
  <2> DEFINE a == s[j].queue_id
             b == s[k].queue_id
  <2>1. a \in Nat /\ b \in Nat /\ j \in Nat /\ k \in Nat BY <1>3, <1>4
  <2>2. (j < k => a < b) /\ (k < j => b < a) BY <1>1 DEF Ordered
  <2>3. j = k => a = b OBVIOUS
  <2> HIDE DEF a, b
  <2>4. (j < k <=> a < b) /\ (a = b => j = k) BY <2>1, <2>2, <2>3, SMT
  <2> QED BY <2>4 DEF a, b
<1> QED BY <1>1, <1>2, <1>3, <1>4, <1>5

\* The id of a place, and the place of an id.
LEMMA PlaceOfId ==
  ASSUME NEW s \in Lists, NEW k \in Places(s)
  PROVE  s[k].queue_id \in Ids(s) /\ WithId(s, s[k].queue_id) = k
BY ListFacts DEF Ids, WithId

\* A document is known by what it says at each place.
LEMMA DocumentAt ==
  ASSUME NEW s \in Lists
  PROVE  /\ DOMAIN Document(s) = Ids(s) /\ Document(s) = [q \in Ids(s) |-> Document(s)[q]]
         /\ \A k \in Places(s) : s[k].queue_id \in Ids(s) /\ Document(s)[s[k].queue_id] = Item(s[k])
         /\ \A q \in Ids(s) : WithId(s, q) \in Places(s) /\ s[WithId(s, q)].queue_id = q
                              /\ Document(s)[q] = Item(s[WithId(s, q)])
<1>1. \A k \in Places(s) : s[k].queue_id \in Ids(s) /\ Document(s)[s[k].queue_id] = Item(s[k])
  BY PlaceOfId DEF Document
<1>2. \A q \in Ids(s) : WithId(s, q) \in Places(s) /\ s[WithId(s, q)].queue_id = q
  BY PlaceOfId DEF Ids
<1> QED BY <1>1, <1>2 DEF Document

LEMMA HighestId ==
  ASSUME NEW s \in Lists
  PROVE  Highest(s) \in Nat /\ (Highest(s) \in Ids(s) \/ Highest(s) = 0) /\ \A q \in Ids(s) : q <= Highest(s)
<1> DEFINE S == Ids(s) \cup {0}
<1>1. Ids(s) \subseteq Nat BY ListFacts DEF Ids
<1>2. \E m \in S : \A q \in S : m >= q
  <2>1. CASE Len(s) = 0
    <3>1. Places(s) = {} BY <2>1, SMT DEF Places
    <3>2. S = {0} BY <3>1 DEF Ids
    <3> HIDE DEF S
    <3> QED BY <3>2, SMT
  <2>2. CASE Len(s) # 0
    <3> DEFINE m == s[Len(s)].queue_id
    <3>1. Len(s) \in Places(s) /\ \A k \in Places(s) : k <= Len(s) BY <2>2, ListFacts, SMT DEF Places
    <3>2. m \in Ids(s) /\ m \in Nat BY <1>1, <3>1 DEF Ids
    <3>3. ASSUME NEW q \in Ids(s) PROVE m >= q
      <4>1. PICK k \in Places(s) : q = s[k].queue_id BY DEF Ids
      <4>2. k < Len(s) \/ k = Len(s) BY <3>1, ListFacts, SMT
      <4>3. q < m \/ q = m BY <3>1, <4>1, <4>2, ListFacts
      <4>4. q \in Nat BY <1>1
      <4> HIDE DEF m
      <4> QED BY <3>2, <4>3, <4>4, SMT
    <3> HIDE DEF m
    <3>4. m >= 0 BY <3>2, SMT
    <3> QED BY <3>2, <3>3, <3>4
  <2> QED BY <2>1, <2>2
<1>3. Highest(s) = CHOOSE m \in S : \A q \in S : m >= q BY DEF Highest, Max
<1>4. Highest(s) \in S /\ \A q \in S : Highest(s) >= q
  <2> DEFINE top(m) == \A q \in S : m >= q
  <2>1. \E m \in S : top(m) BY <1>2
  <2>2. Highest(s) = CHOOSE m \in S : top(m) BY <1>3
  <2> HIDE DEF top
  <2>3. Highest(s) \in S /\ top(Highest(s)) BY <2>1, <2>2
  <2> QED BY <2>3 DEF top
<1>5. Highest(s) \in Nat BY <1>1, <1>4
<1>6. \A q \in Ids(s) : q <= Highest(s) BY <1>1, <1>4, <1>5, SMT
<1> QED BY <1>4, <1>5, <1>6
-----------------------------------------------------------------------------
(* Pruning: some places of a list, in their order.                          *)

LEMMA PlacesInOrder ==
  ASSUME NEW s \in Lists, NEW I \in SUBSET Places(s)
  PROVE  /\ Cardinality(I) \in Nat
         /\ \A n \in 1..Cardinality(I) : Place(I, n) \in I
         /\ \A k \in I : \E n \in 1..Cardinality(I) : Place(I, n) = k
         /\ \A m, n \in 1..Cardinality(I) : m < n => Place(I, m) < Place(I, n)
<1> DEFINE upTo(k) == {j \in I : j <= k}
           rank == [k \in I |-> Cardinality(upTo(k))]
           N == Cardinality(I)
<1>1. Places(s) \subseteq Nat /\ IsFiniteSet(Places(s)) /\ I \subseteq Nat
  <2>1. Len(s) \in Int /\ 1 \in Int BY ListFacts
  <2> QED BY <2>1, ListFacts, FS_Interval DEF Places
<1>2. IsFiniteSet(I) /\ N \in Nat BY <1>1, FS_Subset, FS_CardinalityType
<1>3. ASSUME NEW k \in I PROVE IsFiniteSet(upTo(k)) /\ Cardinality(upTo(k)) \in 1..N
  <2>1. upTo(k) \subseteq I /\ k \in upTo(k) BY <1>1, SMT
  <2>2. IsFiniteSet(upTo(k)) /\ Cardinality(upTo(k)) \in Nat /\ Cardinality(upTo(k)) <= N
    BY <1>2, <2>1, FS_Subset, FS_CardinalityType
  <2>3. Cardinality(upTo(k)) # 0 BY <2>1, <2>2, FS_EmptySet
  <2> HIDE DEF upTo, N
  <2> QED BY <1>2, <2>2, <2>3, SMT
<1>4. ASSUME NEW j \in I, NEW k \in I, j < k PROVE rank[j] < rank[k]
  <2>1. upTo(j) \subseteq upTo(k) /\ k \in upTo(k) /\ k \notin upTo(j)
    <3>1. \A i \in I : i \in Nat BY <1>1
    <3>2. (\A i \in I : i <= j => i <= k) /\ k <= k /\ ~(k <= j) BY <1>4, <3>1, SMT
    <3> QED BY <3>2
  <2>2. Cardinality(upTo(j)) <= Cardinality(upTo(k)) /\ Cardinality(upTo(j)) # Cardinality(upTo(k))
    BY <1>3, <2>1, FS_Subset
  <2>3. rank[j] = Cardinality(upTo(j)) /\ rank[k] = Cardinality(upTo(k)) OBVIOUS
  <2>4. Cardinality(upTo(j)) \in Nat /\ Cardinality(upTo(k)) \in Nat BY <1>3, FS_CardinalityType
  <2> HIDE DEF upTo, rank
  <2> QED BY <2>2, <2>3, <2>4, SMT
<1>5. rank \in [I -> 1..N] BY <1>3
<1> HIDE DEF rank
<1>6. ASSUME NEW j \in I, NEW k \in I, rank[j] = rank[k] PROVE j = k
  <2>1. rank[j] \in 1..N /\ rank[k] \in 1..N /\ j \in Nat /\ k \in Nat BY <1>1, <1>5
  <2>2. ~(j < k) /\ ~(k < j)
    <3>1. ~(rank[j] < rank[k]) /\ ~(rank[k] < rank[j]) BY <1>6, <2>1, SMT
    <3> QED BY <1>4, <3>1
  <2> QED BY <2>1, <2>2, SMT
<1>7. rank \in Injection(I, 1..N) BY <1>5, <1>6 DEF Injection, IsInjective
<1>8. IsFiniteSet(1..N) /\ Cardinality(1..N) = N
  <2>1. 1 \in Int /\ N \in Int BY <1>2
  <2>2. IsFiniteSet(1..N) /\ Cardinality(1..N) = IF 1 > N THEN 0 ELSE N - 1 + 1 BY <2>1, FS_Interval
  <2> HIDE DEF N
  <2> QED BY <1>2, <2>2, SMT
<1>9. rank \in Surjection(I, 1..N) BY <1>7, <1>8, FS_Injection
<1>10. ASSUME NEW n \in 1..N PROVE Place(I, n) \in I /\ rank[Place(I, n)] = n
  <2>1. \E k \in I : rank[k] = n BY <1>9 DEF Surjection
  <2>2. \A k \in I : rank[k] = Cardinality({j \in I : j <= k}) BY DEF rank
  <2>3. \E k \in I : Cardinality({j \in I : j <= k}) = n BY <2>1, <2>2
  <2>4. Place(I, n) \in I /\ Cardinality({j \in I : j <= Place(I, n)}) = n BY <2>3 DEF Place
  <2> QED BY <2>2, <2>4
<1>11. ASSUME NEW k \in I PROVE Place(I, rank[k]) = k /\ rank[k] \in 1..N BY <1>5, <1>6, <1>10
<1>12. ASSUME NEW m \in 1..N, NEW n \in 1..N, m < n PROVE Place(I, m) < Place(I, n)
  <2> DEFINE j == Place(I, m)
             k == Place(I, n)
  <2>1. j \in I /\ k \in I /\ rank[j] = m /\ rank[k] = n /\ j \in Nat /\ k \in Nat BY <1>1, <1>10
  <2>2. m \in Nat /\ n \in Nat BY SMT
  <2> HIDE DEF j, k
  <2>3. j # k /\ ~(k < j)
    <3>1. rank[j] # rank[k] /\ ~(rank[k] < rank[j]) BY <1>12, <2>1, <2>2, SMT
    <3> QED BY <1>4, <2>1, <3>1
  <2>4. j < k BY <2>1, <2>3, SMT
  <2> QED BY <2>4 DEF j, k
<1> QED BY <1>2, <1>10, <1>11, <1>12

LEMMA PickedList ==
  ASSUME NEW s \in Lists, NEW I \in SUBSET Places(s)
  PROVE  /\ Picked(s, I) \in Lists
         /\ \A n \in Places(Picked(s, I)) : \E k \in I : Picked(s, I)[n] = s[k]
         /\ \A k \in I : \E n \in Places(Picked(s, I)) : Picked(s, I)[n] = s[k]
<1> DEFINE p == Picked(s, I)
           N == Cardinality(I)
<1>1. /\ N \in Nat
      /\ \A n \in 1..N : Place(I, n) \in I
      /\ \A k \in I : \E n \in 1..N : Place(I, n) = k
      /\ \A m, n \in 1..N : m < n => Place(I, m) < Place(I, n)
  BY PlacesInOrder
<1>2. p = [n \in 1..N |-> s[Place(I, n)]] BY DEF Picked
<1> HIDE DEF p, N
<1>3. \A n \in 1..N : p[n] = s[Place(I, n)] /\ p[n] \in Entries BY <1>1, <1>2, ListFacts
<1>4. p \in Seq(Entries) /\ Len(p) = N
  <2>1. p = [n \in 1..N |-> p[n]] BY <1>2, <1>3
  <2> QED BY <1>1, <1>3, <2>1, IsASeq, LenProperties
<1>5. Ordered(p)
  <2> SUFFICES ASSUME NEW m \in 1..N, NEW n \in 1..N, m < n PROVE p[m].queue_id < p[n].queue_id
    BY <1>4 DEF Ordered, Places
  <2>1. Place(I, m) \in Places(s) /\ Place(I, n) \in Places(s) /\ Place(I, m) < Place(I, n) BY <1>1
  <2>2. s[Place(I, m)].queue_id < s[Place(I, n)].queue_id BY <2>1, ListFacts
  <2> QED BY <1>3, <2>2
<1>6. Places(p) = 1..N BY <1>4 DEF Places
<1> QED BY <1>1, <1>3, <1>4, <1>5, <1>6 DEF Lists, p

\* The documents of two lists are the same when they say the same of each id.
LEMMA DocumentIs ==
  ASSUME NEW s \in Lists, NEW f, f = [q \in Ids(s) |-> f[q]],
         \A k \in Places(s) : f[s[k].queue_id] = Item(s[k])
  PROVE  Document(s) = f
<1>1. \A q \in Ids(s) : Document(s)[q] = f[q] BY DocumentAt
<1> QED BY <1>1, DocumentAt

LEMMA SameSize ==
  ASSUME NEW s \in Lists, NEW I \in SUBSET Places(s)
  PROVE  Cardinality({s[k].queue_id : k \in I}) = Cardinality(I)
<1> DEFINE T == {s[k].queue_id : k \in I}
           f == [k \in I |-> s[k].queue_id]
<1>1. IsFiniteSet(I)
  <2>1. Len(s) \in Int /\ 1 \in Int BY ListFacts
  <2>2. IsFiniteSet(Places(s)) BY <2>1, FS_Interval DEF Places
  <2> QED BY <2>2, FS_Subset
<1>2. f \in [I -> T] OBVIOUS
<1>3. \A j, k \in I : f[j] = f[k] => j = k BY ListFacts
<1>4. \A t \in T : \E k \in I : f[k] = t OBVIOUS
<1> HIDE DEF f, T
<1>5. f \in Injection(I, T) BY <1>2, <1>3 DEF Injection, IsInjective
<1>6. f \in Surjection(I, T) BY <1>2, <1>4 DEF Surjection
<1>7. ExistsBijection(I, T) BY <1>5, <1>6 DEF ExistsBijection, Bijection
<1> QED BY <1>1, <1>7, FS_Bijection DEF T

\* The promise counts as its implementation does.
LEMMA SameCardinality == ASSUME NEW S PROVE Promise!Cardinality(S) = Cardinality(S)
BY DEF Promise!Cardinality, Cardinality

\* The list keeps the entries of which the promise keeps the ids.
LEMMA SameRetained ==
  ASSUME NEW s \in Lists
  PROVE  Promise!Retained(Document(s)) = {s[k].queue_id : k \in Retained(s)}
<1> DEFINE its == Document(s)
           id(I) == {s[k].queue_id : k \in I}
           T == Promise!WithStatus(its, Promise!TerminalStatus)
           newer(q) == {p \in T : p > q}
           after(k) == {j \in Terminal(s) : j > k}
<1>1. \A k \in Places(s) : /\ its[s[k].queue_id].status = s[k].status /\ s[k].queue_id \in DOMAIN its
                           /\ s[k].status \in Statuses
  <2> TAKE k \in Places(s)
  <2>1. its[s[k].queue_id] = Item(s[k]) /\ s[k].queue_id \in DOMAIN its BY DocumentAt
  <2>2. Item(s[k]).status = s[k].status BY DEF Item
  <2>3. s[k].status \in Statuses BY ListFacts, EntryFields
  <2> QED BY <2>1, <2>2, <2>3
<1>2. DOMAIN its = id(Places(s)) BY DocumentAt DEF Ids
<1>3. \A k \in Places(s) : ~IsActive(s[k]) <=> its[s[k].queue_id].status \in Promise!TerminalStatus
  BY <1>1 DEF IsActive, Promise!TerminalStatus, Statuses
<1>4. T = id(Terminal(s)) BY <1>2, <1>3 DEF Promise!WithStatus, Terminal
<1>5. Promise!Active(its) = id({k \in Places(s) : IsActive(s[k])})
  BY <1>1, <1>2 DEF Promise!Active, Promise!WithStatus, Promise!ActiveStatus, IsActive
<1> HIDE DEF its, T
<1>6. Terminal(s) \in SUBSET Places(s) BY DEF Terminal
<1>7. Cardinality(T) = Cardinality(Terminal(s)) BY <1>4, <1>6, SameSize
<1>8. ASSUME NEW k \in Places(s) PROVE Cardinality(newer(s[k].queue_id)) = Cardinality(after(k))
  <2>1. \A j \in Places(s) : j > k <=> s[j].queue_id > s[k].queue_id
    <3>1. \A j \in Places(s) : k < j <=> s[k].queue_id < s[j].queue_id BY ListFacts
    <3>2. \A j \in Places(s) : (j > k <=> k < j) /\ (s[j].queue_id > s[k].queue_id <=> s[k].queue_id < s[j].queue_id)
      OBVIOUS
    <3> QED BY <3>1, <3>2
  <2>2. newer(s[k].queue_id) = id(after(k)) BY <1>4, <1>6, <2>1
  <2>3. after(k) \in SUBSET Places(s) BY <1>6
  <2> HIDE DEF newer, after
  <2> QED BY <2>2, <2>3, SameSize
<1>9. Promise!Retained(its) =
        IF Cardinality(T) < MaxTerminal THEN DOMAIN its
        ELSE Promise!Active(its) \cup {q \in T : Cardinality(newer(q)) < MaxTerminal - 1}
  BY SameCardinality DEF Promise!Retained, T
<1>10. Retained(s) =
         IF Cardinality(Terminal(s)) < MaxTerminal THEN Places(s)
         ELSE {k \in Places(s) : IsActive(s[k]) \/ Cardinality(after(k)) < MaxTerminal - 1}
  BY DEF Retained
<1>11. CASE Cardinality(T) < MaxTerminal BY <1>2, <1>7, <1>9, <1>10, <1>11 DEF its
<1>12. CASE ~(Cardinality(T) < MaxTerminal)
  <2>1. \A k \in Places(s) : ~IsActive(s[k]) <=> k \in Terminal(s) BY DEF Terminal
  <2>2. {q \in T : Cardinality(newer(q)) < MaxTerminal - 1}
          = id({k \in Terminal(s) : Cardinality(after(k)) < MaxTerminal - 1})
    <3> DEFINE small(n) == n < MaxTerminal - 1
    <3>1. \A k \in Terminal(s) : s[k].queue_id \in T BY <1>4
    <3>2. \A q \in T : \E k \in Terminal(s) : q = s[k].queue_id BY <1>4
    <3>3. \A k \in Terminal(s) : Cardinality(newer(s[k].queue_id)) = Cardinality(after(k)) BY <1>6, <1>8
    <3> HIDE DEF newer, after, small
    <3>4. {q \in T : small(Cardinality(newer(q)))} = id({k \in Terminal(s) : small(Cardinality(after(k)))})
      BY <3>1, <3>2, <3>3
    <3> QED BY <3>4 DEF small
  <2>3. Promise!Retained(its) = Promise!Active(its) \cup {q \in T : Cardinality(newer(q)) < MaxTerminal - 1}
    BY <1>9, <1>12
  <2>4. Retained(s) = {k \in Places(s) : IsActive(s[k]) \/ Cardinality(after(k)) < MaxTerminal - 1}
    BY <1>7, <1>10, <1>12
  <2>5. Retained(s) = {k \in Places(s) : IsActive(s[k])}
                        \cup {k \in Terminal(s) : Cardinality(after(k)) < MaxTerminal - 1}
    BY <1>6, <2>1, <2>4
  <2> HIDE DEF newer, after
  <2> QED BY <1>5, <2>2, <2>3, <2>5 DEF its
<1> QED BY <1>11, <1>12
-----------------------------------------------------------------------------
(* What each operation makes of a list, as the promise sees it.             *)

LEMMA PrunedList ==
  ASSUME NEW s \in Lists
  PROVE  /\ Pruned(s) \in Lists /\ Ids(Pruned(s)) = Promise!Retained(Document(s))
         /\ Promise!Retained(Document(s)) \subseteq Ids(s)
         /\ \A q \in Ids(Pruned(s)) : Document(Pruned(s))[q] = Document(s)[q]
<1> DEFINE p == Pruned(s)
           I == Retained(s)
<1>1. I \in SUBSET Places(s) BY DEF Retained
<1>2. /\ p \in Lists
      /\ \A n \in Places(p) : \E k \in I : p[n] = s[k]
      /\ \A k \in I : \E n \in Places(p) : p[n] = s[k]
  BY <1>1, PickedList DEF Pruned
<1>3. Promise!Retained(Document(s)) = {s[k].queue_id : k \in I} BY SameRetained
<1> HIDE DEF p, I
<1>4. Ids(p) = {s[k].queue_id : k \in I} BY <1>2 DEF Ids
<1>5. {s[k].queue_id : k \in I} \subseteq Ids(s) BY <1>1 DEF Ids
<1>6. ASSUME NEW q \in Ids(p) PROVE Document(p)[q] = Document(s)[q]
  <2>1. PICK n \in Places(p) : q = p[n].queue_id BY DEF Ids
  <2>2. PICK k \in I : p[n] = s[k] BY <1>2
  <2>3. Document(p)[q] = Item(p[n]) BY <1>2, <2>1, DocumentAt
  <2>4. Document(s)[q] = Item(s[k]) BY <1>1, <2>1, <2>2, DocumentAt
  <2> QED BY <2>2, <2>3, <2>4
<1> QED BY <1>2, <1>3, <1>4, <1>5, <1>6 DEF p

LEMMA AppendedEntry ==
  ASSUME NEW p \in Lists, NEW e \in Entries, \A q \in Ids(p) : q < e.queue_id
  PROVE  LET n == Append(p, e) IN
         /\ n \in Lists /\ Ids(n) = Ids(p) \cup {e.queue_id}
         /\ Document(n)[e.queue_id] = Item(e) /\ \A q \in Ids(p) : Document(n)[q] = Document(p)[q]
<1> DEFINE n == Append(p, e)
           N == Len(p) + 1
<1>1. /\ n \in Seq(Entries) /\ Len(n) = N /\ n[N] = e /\ Len(p) \in Nat
      /\ \A k \in 1..Len(p) : n[k] = p[k]
  <2>1. p \in Seq(Entries) BY ListFacts
  <2> QED BY <2>1, SMT
<1> HIDE DEF n
<1>2. /\ \A k \in Places(n) : k \in Places(p) \/ k = N
      /\ N \in Places(n) /\ Places(p) \subseteq Places(n) /\ \A k \in Places(p) : k < N /\ ~(N < k)
      /\ ~(N < N)
  BY <1>1, SMT DEF Places
<1>3. \A k \in Places(p) : n[k] = p[k] /\ p[k].queue_id \in Ids(p) BY <1>1 DEF Places, Ids
<1> HIDE DEF N
<1>4. Ordered(n)
  <2> SUFFICES ASSUME NEW j \in Places(n), NEW k \in Places(n), j < k PROVE n[j].queue_id < n[k].queue_id
    BY DEF Ordered
  <2>1. j \in Places(p) /\ (k \in Places(p) \/ k = N) BY <1>2
  <2>2. CASE k \in Places(p) BY <1>3, <2>1, <2>2, ListFacts
  <2>3. CASE k = N BY <1>1, <1>3, <2>1, <2>3
  <2> QED BY <2>1, <2>2, <2>3
<1>5. n \in Lists BY <1>1, <1>4 DEF Lists
<1>6. Ids(n) = Ids(p) \cup {e.queue_id} BY <1>1, <1>2, <1>3 DEF Ids
<1>7. Document(n)[e.queue_id] = Item(e) BY <1>1, <1>2, <1>5, DocumentAt
<1>8. ASSUME NEW q \in Ids(p) PROVE Document(n)[q] = Document(p)[q]
  <2>1. PICK k \in Places(p) : q = p[k].queue_id BY DEF Ids
  <2>2. n[k] = p[k] /\ k \in Places(n) BY <1>2, <1>3
  <2>3. Document(p)[q] = Item(p[k]) BY <2>1, DocumentAt
  <2>4. Document(n)[q] = Item(n[k]) BY <1>5, <2>1, <2>2, DocumentAt
  <2> QED BY <2>2, <2>3, <2>4
<1> QED BY <1>5, <1>6, <1>7, <1>8 DEF n

LEMMA AppendedList ==
  ASSUME NEW s \in Lists, NEW c \in Calls, c.op = "enqueue"
  PROVE  LET n   == Appended(s, c)
             q   == Highest(s) + 1
             its == Document(s)
         IN  /\ n \in Lists /\ c.target_id \in Targets /\ c.trigger \in Triggers /\ c.mode \in Modes
             /\ Ids(n) = Promise!Retained(its) \cup {q} /\ Ids(n) \subseteq Ids(s) \cup {q} /\ q \in Nat /\ q \notin Ids(s)
             /\ Document(n) = [p \in Promise!Retained(its) \cup {q} |->
                                 IF p = q THEN Promise!NewItem(c.target_id, c.trigger, c.mode) ELSE its[p]]
<1> DEFINE q == Highest(s) + 1
           its == Document(s)
           e == [queue_id |-> q, target_id |-> c.target_id, trigger |-> c.trigger, mode |-> c.mode,
                 status |-> "queued", attempts |-> 0, failure_reason |-> "none"]
           p == Pruned(s)
           n == Appended(s, c)
           new == Promise!NewItem(c.target_id, c.trigger, c.mode)
           f == [r \in Promise!Retained(its) \cup {q} |-> IF r = q THEN new ELSE its[r]]
<1>1. c.target_id \in Targets /\ c.trigger \in Triggers /\ c.mode \in Modes
  <2>1. c \in [op : {"enqueue"}, target_id : Targets, trigger : Triggers, mode : Modes]
    <3>1. ASSUME c \in [op : ConsumerOps] PROVE FALSE
      <4>1. c.op \in ConsumerOps BY <3>1
      <4> QED BY <4>1 DEF ConsumerOps
    <3> QED BY <3>1 DEF Calls
  <2> QED BY <2>1
<1>2. q \in Nat /\ q \notin Ids(s) /\ \A r \in Ids(s) : r < q
  <2>1. Ids(s) \subseteq Nat BY ListFacts DEF Ids
  <2> QED BY <2>1, HighestId, SMT
<1> HIDE DEF q
<1>3. e \in Entries /\ e.queue_id = q
  <2>1. "queued" \in Statuses /\ 0 \in Nat /\ "none" \in Reasons BY DEF Statuses, Reasons
  <2> QED BY <1>1, <1>2, <2>1 DEF Entries
<1>4. Item(e) = new BY DEF Item, Promise!NewItem
<1>5. n = Append(p, e) BY DEF Appended, q
<1>6. /\ p \in Lists /\ Ids(p) = Promise!Retained(its) /\ Ids(p) \subseteq Ids(s)
      /\ \A r \in Ids(p) : Document(p)[r] = its[r]
  BY PrunedList
<1> HIDE DEF e, p, n, its, new
<1>7. /\ n \in Lists /\ Ids(n) = Ids(p) \cup {q}
      /\ Document(n)[q] = Item(e) /\ \A r \in Ids(p) : Document(n)[r] = Document(p)[r]
  <2>1. \A r \in Ids(p) : r < e.queue_id BY <1>2, <1>3, <1>6
  <2> QED BY <1>3, <1>5, <1>6, <2>1, AppendedEntry
<1>8. Document(n) = f
  <2>1. Document(n) = [r \in Ids(n) |-> Document(n)[r]] BY <1>7, DocumentAt
  <2>2. \A r \in Ids(n) : Document(n)[r] = IF r = q THEN new ELSE its[r] BY <1>2, <1>4, <1>6, <1>7
  <2> QED BY <1>6, <1>7, <2>1, <2>2
<1> QED BY <1>1, <1>2, <1>6, <1>7, <1>8 DEF q, n, its, new

\* An entry replaced in its place changes the document at its id.
LEMMA ReplacedList ==
  ASSUME NEW s \in Lists, NEW i \in Places(s), NEW e \in Entries, e.queue_id = s[i].queue_id
  PROVE  LET n == [s EXCEPT ![i] = e] IN
         n \in Lists /\ Ids(n) = Ids(s) /\ Document(n) = [Document(s) EXCEPT ![s[i].queue_id] = Item(e)]
<1> DEFINE n == [s EXCEPT ![i] = e]
           f == [Document(s) EXCEPT ![s[i].queue_id] = Item(e)]
<1>1. n \in Seq(Entries) /\ Len(n) = Len(s) /\ n[i] = e /\ \A k \in Places(s) : k # i => n[k] = s[k]
  <2>1. s \in Seq(Entries) /\ i \in 1..Len(s) BY ListFacts DEF Places
  <2>2. n \in Seq(Entries) /\ Len(n) = Len(s) BY <2>1, ExceptSeq
  <2>3. i \in DOMAIN s /\ DOMAIN s = Places(s) BY ListFacts
  <2> QED BY <2>2, <2>3
<1>2. Places(n) = Places(s) BY <1>1 DEF Places
<1>3. \A k \in Places(s) : n[k].queue_id = s[k].queue_id BY <1>1
<1> HIDE DEF n
<1>4. n \in Lists
  <2>1. \A j, k \in Places(s) : j < k => s[j].queue_id < s[k].queue_id BY ListFacts
  <2>2. Ordered(n) BY <1>2, <1>3, <2>1 DEF Ordered
  <2> QED BY <1>1, <2>2 DEF Lists
<1>5. Ids(n) = Ids(s) BY <1>2, <1>3 DEF Ids
<1>6. DOMAIN Document(s) = Ids(s) BY DocumentAt
<1>7. ASSUME NEW k \in Places(n) PROVE f[n[k].queue_id] = Item(n[k])
  <2>1. k \in Places(s) /\ s[k].queue_id \in Ids(s) /\ Document(s)[s[k].queue_id] = Item(s[k])
    BY <1>2, DocumentAt
  <2>2. CASE k = i BY <1>1, <1>3, <1>6, <2>1, <2>2
  <2>3. CASE k # i
    <3>1. s[k].queue_id # s[i].queue_id BY <2>1, <2>3, ListFacts
    <3> QED BY <1>1, <1>3, <1>6, <2>1, <2>3, <3>1
  <2> QED BY <2>2, <2>3
<1>8. f = [q \in Ids(n) |-> f[q]] BY <1>5, <1>6
<1> HIDE DEF f
<1>9. Document(n) = f BY <1>4, <1>7, <1>8, DocumentIs
<1> QED BY <1>4, <1>5, <1>9 DEF n, f

\* Replacing the fields of an entry replaces those of its item.
LEMMA ReplacedItem ==
  ASSUME NEW e, NEW s, NEW n, NEW r
  PROVE  Item(Replaced(e, s, n, r)) = Promise!Replace(Item(e), s, n, r)
BY DEF Item, Replaced, Promise!Replace

\* What the promise calls running and queued, place by place.
LEMMA StatusOfIds ==
  ASSUME NEW s \in Lists
  PROVE  /\ Promise!Running(Document(s)) = {s[k].queue_id : k \in {j \in Places(s) : s[j].status = "running"}}
         /\ Promise!Queued(Document(s)) = {s[k].queue_id : k \in {j \in Places(s) : s[j].status = "queued"}}
         /\ Promise!Active(Document(s)) = {s[k].queue_id : k \in {j \in Places(s) : IsActive(s[j])}}
<1>1. \A k \in Places(s) : Document(s)[s[k].queue_id].status = s[k].status
  <2> TAKE k \in Places(s)
  <2>1. Document(s)[s[k].queue_id] = Item(s[k]) BY DocumentAt
  <2> QED BY <2>1 DEF Item
<1>2. DOMAIN Document(s) = {s[k].queue_id : k \in Places(s)} BY DocumentAt DEF Ids
<1> QED BY <1>1, <1>2 DEF Promise!Running, Promise!Queued, Promise!Active, Promise!WithStatus,
                          Promise!ActiveStatus, IsActive

\* The first queued place is that of the oldest queued id.
LEMMA FirstQueuedPlace ==
  ASSUME NEW s \in Lists, FirstQueued(s) # 0
  PROVE  /\ FirstQueued(s) \in Places(s) /\ s[FirstQueued(s)].status = "queued"
         /\ \A k \in Places(s) : s[k].status = "queued" => FirstQueued(s) <= k
<1> DEFINE Q == {k \in 1..Len(s) : s[k].status = "queued"}
           least(m) == \A k \in Q : m <= k
<1>1. FirstQueued(s) = IF Q # {} THEN Min(Q) ELSE 0 BY DEF FirstQueued, SelectInSeq
<1>2. Q # {} BY <1>1
<1>3. \E m \in Q : least(m)
  <2>1. Q \subseteq Nat BY ListFacts DEF Places
  <2> HIDE DEF Q
  <2>2. PICK m \in Q : \A k \in Q : <<k, m>> \notin OpToRel(<, Nat)
    <3>1. IsWellFoundedOn(OpToRel(<, Nat), Nat) BY NatLessThanWellFounded, Zenon
    <3> QED BY <1>2, <2>1, <3>1, WFMin, Zenon
  <2>3. \A k \in Q : ~(k < m) BY <2>1, <2>2, Zenon DEF OpToRel
  <2>4. \A k \in Q : m <= k BY <2>1, <2>3, SMT
  <2> QED BY <2>4
<1>4. FirstQueued(s) = CHOOSE m \in Q : least(m) BY <1>1, <1>2 DEF Min
<1> HIDE DEF least
<1>5. FirstQueued(s) \in Q /\ least(FirstQueued(s)) BY <1>3, <1>4
<1> QED BY <1>5 DEF least, Places

LEMMA ClaimedList ==
  ASSUME NEW s \in Lists, ~IsRunning(s), FirstQueued(s) # 0
  PROVE  LET n   == Claimed(s)
             its == Document(s)
             q   == s[FirstQueued(s)].queue_id
         IN  /\ n \in Lists /\ Ids(n) = Ids(s) /\ q \in Nat /\ q \in Ids(s)
             /\ Promise!Running(its) = {} /\ q \in Promise!Queued(its) /\ \A p \in Promise!Queued(its) : q <= p
             /\ Document(n) = [its EXCEPT ![q] = Promise!Replace(@, "running", @.attempts, "none")]
<1> DEFINE i == FirstQueued(s)
           e == Replaced(s[i], "running", s[i].attempts, "none")
           its == Document(s)
           q == s[i].queue_id
<1>1. i \in Places(s) /\ s[i].status = "queued" /\ \A k \in Places(s) : s[k].status = "queued" => i <= k
  BY FirstQueuedPlace
<1>2. Claimed(s) = [s EXCEPT ![i] = e] BY <1>1, ListFacts DEF Claimed
<1> HIDE DEF i
<1>3. s[i] \in Entries /\ q \in Nat BY <1>1, ListFacts
<1>4. e \in Entries /\ e.queue_id = q
  <2>1. "running" \in Statuses /\ "none" \in Reasons BY DEF Statuses, Reasons
  <2>2. s[i].attempts \in Nat BY <1>3, EntryFields
  <2> QED BY <1>3, <2>1, <2>2, ReplacedEntry
<1>5. q \in Ids(s) /\ its[q] = Item(s[i]) /\ DOMAIN its = Ids(s) BY <1>1, DocumentAt
<1>6. Item(e) = Promise!Replace(its[q], "running", its[q].attempts, "none")
  <2>1. its[q].attempts = s[i].attempts BY <1>5 DEF Item
  <2>2. Item(e) = Promise!Replace(Item(s[i]), "running", s[i].attempts, "none") BY ReplacedItem
  <2> QED BY <1>5, <2>1, <2>2
<1>7. Promise!Running(its) = {} BY StatusOfIds DEF IsRunning
<1>8. q \in Promise!Queued(its) BY <1>1, StatusOfIds
<1>9. ASSUME NEW p \in Promise!Queued(its) PROVE q <= p
  <2>1. PICK k \in Places(s) : p = s[k].queue_id /\ s[k].status = "queued" BY StatusOfIds
  <2>2. i <= k /\ i \in Nat /\ k \in Nat /\ p \in Nat BY <1>1, <2>1, ListFacts
  <2>3. i < k \/ i = k BY <2>2, SMT
  <2>4. q < p \/ q = p BY <1>1, <2>1, <2>3, ListFacts
  <2> HIDE DEF q
  <2> QED BY <1>3, <2>2, <2>4, SMT
<1>10. /\ [s EXCEPT ![i] = e] \in Lists /\ Ids([s EXCEPT ![i] = e]) = Ids(s)
       /\ Document([s EXCEPT ![i] = e]) = [its EXCEPT ![q] = Item(e)]
  <2> HIDE DEF e
  <2> QED BY <1>1, <1>4, ReplacedList
<1>11. [its EXCEPT ![q] = Item(e)] = [its EXCEPT ![q] = Promise!Replace(@, "running", @.attempts, "none")]
  <2> HIDE DEF its, q, e
  <2> QED BY <1>5, <1>6
<1> QED BY <1>2, <1>3, <1>5, <1>7, <1>8, <1>9, <1>10, <1>11 DEF i

LEMMA SettledList ==
  ASSUME NEW s \in Lists, NEW k \in Places(s), s[k].status = "running",
         NEW st \in Statuses, NEW r \in Reasons
  PROVE  LET q   == s[k].queue_id
             n   == Settled(s, q, st, r)
             its == Document(s)
         IN  /\ n \in Lists /\ Ids(n) = Ids(s) /\ q \in Promise!Running(its)
             /\ Document(n) = [its EXCEPT ![q] = Promise!Replace(@, st, @.attempts, r)]
<1> DEFINE e == Replaced(s[k], st, s[k].attempts, r)
           its == Document(s)
           q == s[k].queue_id
<1>1. Settled(s, q, st, r) = [s EXCEPT ![k] = e] BY PlaceOfId, ListFacts DEF Settled
<1>2. s[k] \in Entries BY ListFacts
<1>3. e \in Entries /\ e.queue_id = q
  <2>1. s[k].attempts \in Nat BY <1>2, EntryFields
  <2> QED BY <1>2, <2>1, ReplacedEntry
<1>4. q \in Ids(s) /\ its[q] = Item(s[k]) /\ DOMAIN its = Ids(s) BY DocumentAt
<1>5. Item(e) = Promise!Replace(its[q], st, its[q].attempts, r)
  <2>1. its[q].attempts = s[k].attempts BY <1>4 DEF Item
  <2>2. Item(e) = Promise!Replace(Item(s[k]), st, s[k].attempts, r) BY ReplacedItem
  <2> QED BY <1>4, <2>1, <2>2
<1>6. q \in Promise!Running(its) BY StatusOfIds
<1>7. /\ [s EXCEPT ![k] = e] \in Lists /\ Ids([s EXCEPT ![k] = e]) = Ids(s)
      /\ Document([s EXCEPT ![k] = e]) = [its EXCEPT ![q] = Item(e)]
  <2> HIDE DEF e
  <2> QED BY <1>3, ReplacedList
<1>8. [its EXCEPT ![q] = Item(e)] = [its EXCEPT ![q] = Promise!Replace(@, st, @.attempts, r)]
  <2> HIDE DEF its, q, e
  <2> QED BY <1>4, <1>5
<1> QED BY <1>1, <1>4, <1>6, <1>7, <1>8

LEMMA RecoveredList ==
  ASSUME NEW s \in Lists
  PROVE  LET n   == Recovered(s)
             its == Document(s)
         IN  /\ n \in Lists /\ Ids(n) = Ids(s)
             /\ Document(n) = [q \in DOMAIN its |->
                                 IF its[q].status = "running" THEN Promise!Recovered(its[q]) ELSE its[q]]
<1> DEFINE n == Recovered(s)
           its == Document(s)
           up(a) == IF a < MaxAttempts THEN a + 1 ELSE MaxAttempts
           f == [q \in DOMAIN its |-> IF its[q].status = "running" THEN Promise!Recovered(its[q]) ELSE its[q]]
<1>1. /\ \A k \in Places(s) : n[k] = IF s[k].status # "running" THEN s[k]
                                     ELSE IF s[k].attempts = 0 THEN Replaced(s[k], "queued", 1, "none")
                                     ELSE Replaced(s[k], "failed", up(s[k].attempts), "recovery_limit")
      /\ n = [k \in Places(s) |-> n[k]]
  BY DEF Recovered
<1> HIDE DEF n
<1>2. ASSUME NEW k \in Places(s)
      PROVE  /\ n[k] \in Entries /\ n[k].queue_id = s[k].queue_id
             /\ Item(n[k]) = IF Item(s[k]).status = "running" THEN Promise!Recovered(Item(s[k])) ELSE Item(s[k])
  <2>1. s[k] \in Entries BY ListFacts
  <2>2. s[k].attempts \in Nat BY <2>1, EntryFields
  <2>3. up(s[k].attempts) \in Nat
    <3> DEFINE a == s[k].attempts
    <3>1. a \in Nat /\ MaxAttempts \in Nat BY <2>2, LimitsAssumption
    <3> HIDE DEF a
    <3>2. up(a) \in Nat BY <3>1, SMT
    <3> QED BY <3>2 DEF a
  <2>4. {"queued", "failed"} \subseteq Statuses /\ {"none", "recovery_limit"} \subseteq Reasons /\ 1 \in Nat
    BY DEF Statuses, Reasons
  <2>5. Item(s[k]).status = s[k].status /\ Item(s[k]).attempts = s[k].attempts BY DEF Item
  <2>6. CASE s[k].status # "running" BY <1>1, <2>1, <2>5, <2>6
  <2>7. CASE s[k].status = "running" /\ s[k].attempts = 0
    <3>1. n[k] = Replaced(s[k], "queued", 1, "none") BY <1>1, <2>7
    <3>2. Replaced(s[k], "queued", 1, "none") \in Entries
          /\ Replaced(s[k], "queued", 1, "none").queue_id = s[k].queue_id
      <4> DEFINE one == 1
                 queued == "queued"
                 none == "none"
      <4>1. one \in Nat /\ queued \in Statuses /\ none \in Reasons BY <2>4
      <4> HIDE DEF one, queued, none
      <4>2. Replaced(s[k], queued, one, none) \in Entries /\ Replaced(s[k], queued, one, none).queue_id = s[k].queue_id
        BY <2>1, <4>1, ReplacedEntry
      <4> QED BY <4>2 DEF one, queued, none
    <3>3. Item(n[k]) = Promise!Replace(Item(s[k]), "queued", 1, "none") BY <3>1, ReplacedItem
    <3> QED BY <2>5, <2>7, <3>1, <3>2, <3>3 DEF Promise!Recovered
  <2>8. CASE s[k].status = "running" /\ s[k].attempts # 0
    <3>1. n[k] = Replaced(s[k], "failed", up(s[k].attempts), "recovery_limit") BY <1>1, <2>8
    <3>2. Replaced(s[k], "failed", up(s[k].attempts), "recovery_limit") \in Entries
          /\ Replaced(s[k], "failed", up(s[k].attempts), "recovery_limit").queue_id = s[k].queue_id
      <4> DEFINE many == up(s[k].attempts)
                 failed == "failed"
                 limit == "recovery_limit"
      <4>1. many \in Nat /\ failed \in Statuses /\ limit \in Reasons BY <2>3, <2>4
      <4> HIDE DEF many, failed, limit
      <4>2. Replaced(s[k], failed, many, limit) \in Entries /\ Replaced(s[k], failed, many, limit).queue_id = s[k].queue_id
        BY <2>1, <4>1, ReplacedEntry
      <4> QED BY <4>2 DEF many, failed, limit
    <3>3. Item(n[k]) = Promise!Replace(Item(s[k]), "failed", up(s[k].attempts), "recovery_limit")
      BY <3>1, ReplacedItem
    <3> QED BY <2>5, <2>8, <3>1, <3>2, <3>3 DEF Promise!Recovered
  <2> QED BY <2>6, <2>7, <2>8
<1>3. n \in Seq(Entries) /\ Len(n) = Len(s)
  <2>1. Len(s) \in Nat BY ListFacts
  <2>2. n = [k \in 1..Len(s) |-> n[k]] /\ \A k \in 1..Len(s) : n[k] \in Entries BY <1>1, <1>2 DEF Places
  <2> QED BY <2>1, <2>2, IsASeq, LenProperties
<1>4. Places(n) = Places(s) BY <1>3 DEF Places
<1>5. n \in Lists
  <2>1. \A j, k \in Places(s) : j < k => s[j].queue_id < s[k].queue_id BY ListFacts
  <2>2. Ordered(n) BY <1>2, <1>4, <2>1 DEF Ordered
  <2> QED BY <1>3, <2>2 DEF Lists
<1>6. Ids(n) = Ids(s) BY <1>2, <1>4 DEF Ids
<1>7. DOMAIN its = Ids(s) /\ \A k \in Places(s) : s[k].queue_id \in Ids(s) /\ its[s[k].queue_id] = Item(s[k])
  BY DocumentAt
<1>8. \A k \in Places(n) : f[n[k].queue_id] = Item(n[k]) BY <1>2, <1>4, <1>7
<1>9. f = [q \in Ids(n) |-> f[q]] BY <1>6, <1>7
<1> HIDE DEF f
<1>10. Document(n) = f BY <1>5, <1>8, <1>9, DocumentIs
<1> QED BY <1>5, <1>6, <1>10 DEF n, f

\* The list has an active entry under the key that is asked for, or the promise
\* sees the key free.
LEMMA FreeKey ==
  ASSUME NEW s \in Lists, NEW c
  PROVE  ~Existing(s, c) => Promise!IsFree(Document(s), c.target_id, c.trigger)
<1> SUFFICES ASSUME ~Existing(s, c), NEW q \in Promise!Active(Document(s))
             PROVE  Promise!Key(Document(s)[q]) # <<c.target_id, c.trigger>>
  BY DEF Promise!IsFree
<1>1. PICK k \in Places(s) : q = s[k].queue_id /\ IsActive(s[k]) BY StatusOfIds
<1>2. Document(s)[q] = Item(s[k]) BY <1>1, DocumentAt
<1>3. ~(s[k].target_id = c.target_id /\ s[k].trigger = c.trigger) BY <1>1 DEF Existing
<1> QED BY <1>2, <1>3 DEF Promise!Key, Item
-----------------------------------------------------------------------------
(* The invariant.                                                           *)

Inside  == {"reading", "writing", "leaving"}
Pending == {"waiting", "reading", "writing"}

TypeInv ==
  /\ file \in Lists /\ held \in Nat /\ DOMAIN claims = Ids(file)
  /\ at \in [Threads -> {"idle"} \cup Pending \cup Inside]
  /\ call \in [Threads -> Calls \cup {Idle}]
  /\ DOMAIN doc = Threads
  /\ \A th \in Threads : at[th] # "idle" => call[th] \in Calls

\* Whoever is past the lock has it, so that what it installs is the successor of
\* the document that is there.
LockInv ==
  \A th \in Threads :
    /\ at[th] \in Inside => lock = th
    /\ at[th] = "writing" => doc[th] = Successor(file, call[th]) /\ doc[th] # file

\* One thread is the consumer; it claims and recovers with empty hands.
ConsumerInv ==
  /\ \A t, u \in Threads : call[t].op \in ConsumerOps /\ call[u].op \in ConsumerOps => t = u
  /\ ~started => held = 0
  /\ \A th \in Threads :
       at[th] \in Pending =>
         /\ call[th].op \in {"claim", "recover"} => held = 0
         /\ call[th].op = "claim" => started

\* The enqueues under way that may still append.
Growing == {th \in Enqueuing : at[th] \in Pending}

IdInv == Highest(file) + Cardinality(Growing) <= MaxId

FileInv == TypeInv /\ LockInv /\ ConsumerInv /\ IdInv
-----------------------------------------------------------------------------
LEMMA CallKinds ==
  /\ \A c \in Calls : c.op \in {"enqueue", "claim", "complete", "fail", "recover"}
  /\ Idle.op \notin ConsumerOps \cup {"enqueue"}
BY SMT DEF Calls, ConsumerOps, Idle

LEMMA GrowingFinite ==
  /\ IsFiniteSet(Enqueuing) /\ Cardinality(Enqueuing) \in Nat
  /\ IsFiniteSet(Growing) /\ Cardinality(Growing) \in Nat /\ Cardinality(Growing) <= Cardinality(Enqueuing)
<1>1. Enqueuing \in SUBSET Threads /\ Growing \in SUBSET Enqueuing BY DEF Enqueuing, Growing
<1> QED BY <1>1, ThreadsAssumption, FS_Subset, FS_CardinalityType

\* Ids are not used up while no document gains an entry and no enqueue begins.
LEMMA IdsKept ==
  ASSUME FileInv, Ids(file') = Ids(file), Growing' \subseteq Growing
  PROVE  IdInv'
<1> DEFINE g == Cardinality(Growing)
           h == Cardinality(Growing')
<1>1. g \in Nat /\ h \in Nat /\ h <= g
  <2>1. Growing' \in SUBSET Growing OBVIOUS
  <2> QED BY <2>1, GrowingFinite, FS_Subset, FS_CardinalityType
<1>2. Highest(file') = Highest(file) /\ Highest(file) \in Nat
  BY HighestId DEF Highest, FileInv, TypeInv
<1>3. Highest(file) + g <= MaxId /\ MaxId \in Nat BY LimitsAssumption DEF FileInv, IdInv
<1> DEFINE top == Highest(file)
<1>4. IdInv' <=> Highest(file') + h <= MaxId BY DEF IdInv
<1> HIDE DEF g, h, top
<1>5. top + h <= MaxId BY <1>1, <1>2, <1>3, SMT DEF top
<1> QED BY <1>2, <1>4, <1>5 DEF top

\* The document that a call installs is the one its operation computes.
LEMMA SuccessorIs ==
  ASSUME NEW s, NEW c, Successor(s, c) # s
  PROVE  /\ c.op = "enqueue" => ~Existing(s, c) /\ Successor(s, c) = Appended(s, c)
         /\ c.op = "claim" => ~IsRunning(s) /\ FirstQueued(s) # 0 /\ Successor(s, c) = Claimed(s)
         /\ c.op = "complete" => /\ \E k \in Places(s) : s[k].queue_id = held /\ s[k].status = "running"
                                 /\ Successor(s, c) = Settled(s, held, "completed", "none")
         /\ c.op = "fail" => /\ \E k \in Places(s) : s[k].queue_id = held /\ s[k].status = "running"
                             /\ Successor(s, c) = Settled(s, held, "failed", "run_failed")
         /\ c.op = "recover" => Successor(s, c) = Recovered(s)
<1> DEFINE busy == \E k \in Places(s) : s[k].queue_id = held /\ s[k].status = "running"
           done == Settled(s, held, "completed", "none")
           failed == Settled(s, held, "failed", "run_failed")
<1>1. Successor(s, c) = CASE c.op = "enqueue"  -> IF Existing(s, c) THEN s ELSE Appended(s, c)
                          [] c.op = "claim"    -> IF IsRunning(s) \/ FirstQueued(s) = 0 THEN s ELSE Claimed(s)
                          [] c.op = "complete" -> IF busy THEN done ELSE s
                          [] c.op = "fail"     -> IF busy THEN failed ELSE s
                          [] c.op = "recover"  -> Recovered(s)
  BY DEF Successor
<1> HIDE DEF busy, done, failed
<1>2. CASE c.op = "enqueue" BY <1>1, <1>2
<1>3. CASE c.op = "claim" BY <1>1, <1>3
<1>4. CASE c.op = "complete" BY <1>1, <1>4 DEF busy, done
<1>5. CASE c.op = "fail" BY <1>1, <1>5 DEF busy, failed
<1>6. CASE c.op = "recover" BY <1>1, <1>6
<1> QED BY <1>2, <1>3, <1>4, <1>5, <1>6
-----------------------------------------------------------------------------
(* What the step that installs a document means to the promise.             *)

\* The parts of a promise's step that a rename takes, and what it leaves of the
\* types.
Renamed(th) ==
  /\ file' \in Lists /\ held' \in Nat /\ DOMAIN claims' = Ids(file')
  /\ Promise!Next
  /\ call[th].op \notin ConsumerOps => held' = held
  /\ call[th].op # "enqueue" => Ids(file') = Ids(file)
  /\ call[th].op = "enqueue" => Ids(file') \subseteq Ids(file) \cup {Highest(file) + 1}
                                /\ Highest(file) + 1 \in Ids(file')
  /\ call[th].op # "claim" => held' = 0 \/ held' = held

LEMMA Installs ==
  ASSUME FileInv, NEW th \in Threads, Rename(th)
  PROVE  /\ call[th] \in Calls /\ file' = Successor(file, call[th]) /\ file' # file
         /\ at[th] = "writing" /\ lock = th /\ at' = [at EXCEPT ![th] = "leaving"]
         /\ UNCHANGED <<lock, call, doc, kills>> /\ started' = (started \/ call[th].op = "recover")
  BY DEF Rename, FileInv, TypeInv, LockInv, Inside

LEMMA RenameEnqueue ==
  ASSUME FileInv, NEW th \in Threads, Rename(th), call[th].op = "enqueue"
  PROVE  Renamed(th)
<1> DEFINE c == call[th]
           its == Document(file)
           q == Highest(file) + 1
<1>1. c \in Calls /\ file' = Appended(file, c) /\ ~Existing(file, c) BY Installs, SuccessorIs
<1>2. file \in Lists /\ DOMAIN claims = Ids(file) BY DEF FileInv, TypeInv
<1>3. /\ file' \in Lists /\ c.target_id \in Targets /\ c.trigger \in Triggers /\ c.mode \in Modes
      /\ Ids(file') = Promise!Retained(its) \cup {q} /\ Ids(file') \subseteq Ids(file) \cup {q}
      /\ q \in Nat /\ q \notin Ids(file)
      /\ Document(file') = [p \in Promise!Retained(its) \cup {q} |->
                              IF p = q THEN Promise!NewItem(c.target_id, c.trigger, c.mode) ELSE its[p]]
  BY <1>1, <1>2, AppendedList
<1>4. claims' = [p \in Ids(file') |-> IF p \in DOMAIN claims THEN claims[p] ELSE 0] /\ held' = held
  BY ONLY Rename(th), c.op = "enqueue", Zenon DEF Rename
<1>5. Promise!IsFree(its, c.target_id, c.trigger) BY <1>1, <1>2, FreeKey
<1>6. DOMAIN its = Ids(file) /\ \A p \in Ids(file) : p \in Nat
  <2>1. DOMAIN its = Ids(file) BY <1>2, DocumentAt
  <2>2. \A p \in Ids(file) : p \in Nat BY <1>2, ListFacts DEF Ids
  <2> QED BY <2>1, <2>2
<1>7. Promise!IsNextId(q, its) /\ q \in Promise!Ids
  <2> DEFINE top == Highest(file)
             g == Cardinality(Growing)
  <2>1. top \in Nat /\ (top \in Ids(file) \/ top = 0) /\ \A p \in Ids(file) : p <= top BY <1>2, HighestId
  <2>2. g \in Nat /\ g # 0
    <3>1. th \in Growing BY <1>1, Installs DEF Growing, Enqueuing, Pending
    <3> QED BY <3>1, GrowingFinite, FS_EmptySet
  <2>3. top + g <= MaxId /\ MaxId \in Nat BY LimitsAssumption DEF FileInv, IdInv
  <2> HIDE DEF top, g
  <2>4. top + 1 \in 1..MaxId /\ (top + 1) - 1 = top /\ (top = 0 => top + 1 = 1) BY <2>1, <2>2, <2>3, SMT
  <2>5. \A p \in Ids(file) : p < top + 1 BY <1>6, <2>1, SMT
  <2>6. q = top + 1 BY DEF top
  <2> HIDE DEF q, its
  <2> QED BY <1>6, <2>1, <2>4, <2>5, <2>6 DEF Promise!IsNextId, Promise!Ids
<1>8. Promise!Enqueue(q, c.target_id, c.trigger, c.mode)
  <2>1. \A p \in DOMAIN its : p < q BY <1>7 DEF Promise!IsNextId
  <2>2. claims' = [p \in Promise!Retained(its) \cup {q} |-> IF p = q THEN 0 ELSE claims[p]]
    <3>1. \A p \in Ids(file') : p \in DOMAIN claims <=> p # q BY <1>2, <1>3
    <3> HIDE DEF q, its
    <3> QED BY <1>3, <1>4, <3>1
  <2> HIDE DEF q, its, c
  <2> QED BY <1>3, <1>4, <1>5, <2>1, <2>2 DEF Promise!Enqueue, its
<1>9. Promise!Next
  <2> HIDE DEF q, its, c
  <2> QED BY <1>3, <1>7, <1>8 DEF Promise!Next, its
<1>10. held \in Nat BY DEF FileInv, TypeInv
<1> QED BY <1>3, <1>4, <1>9, <1>10 DEF Renamed, ConsumerOps

LEMMA RenameClaim ==
  ASSUME FileInv, NEW th \in Threads, Rename(th), call[th].op = "claim"
  PROVE  Renamed(th)
<1> DEFINE its == Document(file)
           q == file[FirstQueued(file)].queue_id
<1>1. file' = Claimed(file) /\ ~IsRunning(file) /\ FirstQueued(file) # 0 /\ file' # file /\ at[th] = "writing"
  BY Installs, SuccessorIs
<1>2. file \in Lists /\ DOMAIN claims = Ids(file) BY DEF FileInv, TypeInv
<1>3. /\ file' \in Lists /\ Ids(file') = Ids(file) /\ q \in Nat /\ q \in Ids(file)
      /\ Promise!Running(its) = {} /\ q \in Promise!Queued(its) /\ \A p \in Promise!Queued(its) : q <= p
      /\ Document(file') = [its EXCEPT ![q] = Promise!Replace(@, "running", @.attempts, "none")]
  BY <1>1, <1>2, ClaimedList
<1>4. held' = q /\ claims' = [claims EXCEPT ![q] = @ + 1]
  BY ONLY Rename(th), call[th].op = "claim", Zenon DEF Rename
<1>5. held = 0 BY <1>1 DEF FileInv, ConsumerInv, Pending
<1> HIDE DEF q
<1>6. Promise!ClaimNext BY <1>3, <1>4, <1>5 DEF Promise!ClaimNext, Promise!NoItem
<1>7. Promise!Next BY <1>6 DEF Promise!Next
<1>8. DOMAIN claims' = Ids(file') BY <1>2, <1>3, <1>4
<1> QED BY <1>3, <1>4, <1>7, <1>8 DEF Renamed, ConsumerOps

LEMMA RenameSettle ==
  ASSUME FileInv, NEW th \in Threads, Rename(th), call[th].op \in {"complete", "fail"}
  PROVE  Renamed(th)
<1> DEFINE its == Document(file)
           st == IF call[th].op = "complete" THEN "completed" ELSE "failed"
           r == IF call[th].op = "complete" THEN "none" ELSE "run_failed"
<1>1. file' = Settled(file, held, st, r) /\ \E k \in Places(file) : file[k].queue_id = held /\ file[k].status = "running"
  BY Installs, SuccessorIs
<1>2. file \in Lists /\ DOMAIN claims = Ids(file) BY DEF FileInv, TypeInv
<1>3. st \in Statuses /\ r \in Reasons BY DEF Statuses, Reasons
<1>4. PICK k \in Places(file) : file[k].queue_id = held /\ file[k].status = "running" BY <1>1
<1>5. /\ file' \in Lists /\ Ids(file') = Ids(file) /\ held \in Promise!Running(its)
      /\ Document(file') = [its EXCEPT ![held] = Promise!Replace(@, st, @.attempts, r)]
  <2> DEFINE p == file[k].queue_id
  <2> HIDE DEF st, r
  <2>1. /\ Settled(file, p, st, r) \in Lists /\ Ids(Settled(file, p, st, r)) = Ids(file)
        /\ p \in Promise!Running(its)
        /\ Document(Settled(file, p, st, r)) = [its EXCEPT ![p] = Promise!Replace(@, st, @.attempts, r)]
    <3>1. file \in Lists /\ k \in Places(file) /\ file[k].status = "running" BY <1>2, <1>4
    <3> HIDE DEF its
    <3>2. LET n == Settled(file, file[k].queue_id, st, r) IN
          /\ n \in Lists /\ Ids(n) = Ids(file) /\ file[k].queue_id \in Promise!Running(Document(file))
          /\ Document(n) = [Document(file) EXCEPT ![file[k].queue_id] = Promise!Replace(@, st, @.attempts, r)]
      BY <1>3, <3>1, SettledList
    <3> QED BY <3>2 DEF its
  <2>2. p = held BY <1>4
  <2> HIDE DEF p
  <2> QED BY <1>1, <2>1, <2>2
<1>6. held' = 0 /\ claims' = claims
  BY ONLY Rename(th), call[th].op \in {"complete", "fail"}, Zenon DEF Rename
<1>7. Promise!Next
  <2>1. CASE call[th].op = "complete"
    <3>1. Promise!Complete BY <1>5, <1>6, <2>1 DEF Promise!Complete, Promise!NoItem
    <3> QED BY <3>1 DEF Promise!Next
  <2>2. CASE call[th].op = "fail"
    <3>1. Promise!Fail("run_failed") BY <1>5, <1>6, <2>2 DEF Promise!Fail, Promise!NoItem
    <3> QED BY <3>1 DEF Promise!Next
  <2> QED BY <2>1, <2>2
<1> QED BY <1>2, <1>5, <1>6, <1>7 DEF Renamed, ConsumerOps

LEMMA RenameRecover ==
  ASSUME FileInv, NEW th \in Threads, Rename(th), call[th].op = "recover"
  PROVE  Renamed(th)
<1> DEFINE its == Document(file)
<1>1. file' = Recovered(file) /\ at[th] = "writing" BY Installs, SuccessorIs
<1>2. file \in Lists /\ DOMAIN claims = Ids(file) BY DEF FileInv, TypeInv
<1>3. /\ file' \in Lists /\ Ids(file') = Ids(file)
      /\ Document(file') = [q \in DOMAIN its |->
                              IF its[q].status = "running" THEN Promise!Recovered(its[q]) ELSE its[q]]
  BY <1>1, <1>2, RecoveredList
<1>4. UNCHANGED <<held, claims>>
  BY ONLY Rename(th), call[th].op = "recover", Zenon DEF Rename
<1>5. held = 0 BY <1>1 DEF FileInv, ConsumerInv, Pending
<1>6. Promise!RecoverInterrupted BY <1>3, <1>4, <1>5 DEF Promise!RecoverInterrupted, Promise!NoItem
<1>7. Promise!Next BY <1>6 DEF Promise!Next
<1> QED BY <1>2, <1>3, <1>4, <1>5, <1>7 DEF Renamed, ConsumerOps

LEMMA RenameMeans ==
  ASSUME FileInv, NEW th \in Threads, Rename(th)
  PROVE  Renamed(th)
<1>1. call[th].op \in {"enqueue", "claim", "complete", "fail", "recover"} BY Installs, CallKinds
<1> QED BY <1>1, RenameEnqueue, RenameClaim, RenameSettle, RenameRecover
-----------------------------------------------------------------------------
(* Every action keeps the invariant and is a step of the promise, or none.  *)

\* A step in which no thread but th moves.
Moves(th) == \A u \in Threads : u # th => at'[u] = at[u] /\ call'[u] = call[u] /\ doc'[u] = doc[u]

Locked(u) ==
  /\ at[u] \in Inside => lock = u
  /\ at[u] = "writing" => doc[u] = Successor(file, call[u]) /\ doc[u] # file

LEMMA SuccessorKept ==
  ASSUME NEW u, file' = file, held' = held, call'[u] = call[u]
  PROVE  Successor(file, call[u])' = Successor(file, call[u])
BY SMT DEF Successor, Existing, Appended, IsRunning, FirstQueued, Claimed, Settled, WithId, Recovered

\* No thread is disturbed by a step that leaves the lock and the document alone,
\* or that the one inside takes.
LEMMA OthersLocked ==
  ASSUME FileInv, NEW th \in Threads, Moves(th),
         UNCHANGED <<file, held, lock>> \/ lock = th \/ lock = Nobody
  PROVE  \A u \in Threads : u # th => Locked(u)'
<1> SUFFICES ASSUME NEW u \in Threads, u # th PROVE Locked(u)' OBVIOUS
<1>1. at'[u] = at[u] /\ call'[u] = call[u] /\ doc'[u] = doc[u] BY DEF Moves
<1>2. Locked(u) BY DEF FileInv, LockInv, Locked
<1>3. CASE UNCHANGED <<file, held, lock>>
  <2>1. Successor(file, call[u])' = Successor(file, call[u]) BY <1>1, <1>3, SuccessorKept
  <2> QED BY <1>1, <1>2, <1>3, <2>1 DEF Locked
<1>4. CASE lock = th \/ lock = Nobody
  <2>1. lock # u BY <1>4, ThreadsAssumption
  <2>2. at'[u] \notin Inside /\ at'[u] # "writing" BY <1>1, <1>2, <2>1 DEF Locked, Inside
  <2> QED BY <2>2 DEF Locked
<1> QED BY <1>3, <1>4

LEMMA Stutter ==
  ASSUME UNCHANGED <<file, held, claims>>
  PROVE  UNCHANGED Promise!vars
BY DEF Promise!vars

\* No enqueue begins in a step of a thread that goes on in its call or ends it.
LEMMA NothingGrows ==
  ASSUME FileInv, NEW th \in Threads, Moves(th), at[th] \in Pending \/ at'[th] \notin Pending,
         call'[th] = call[th] \/ call'[th] = Idle
  PROVE  Growing' \subseteq Growing
<1> SUFFICES ASSUME NEW u \in Threads, call'[u].op = "enqueue", at'[u] \in Pending
             PROVE  call[u].op = "enqueue" /\ at[u] \in Pending
  BY DEF Growing, Enqueuing
<1>1. CASE u = th BY <1>1, CallKinds
<1>2. CASE u # th BY <1>2 DEF Moves
<1> QED BY <1>1, <1>2

LEMMA EnterKeeps ==
  ASSUME FileInv, NEW th \in Threads, NEW c \in Calls, Enter(th, c)
  PROVE  FileInv' /\ UNCHANGED Promise!vars
<1>1. /\ call[th] = Idle /\ UNCHANGED <<file, lock, doc, held, started, claims, kills>>
      /\ at' = [at EXCEPT ![th] = "waiting"] /\ call' = [call EXCEPT ![th] = c]
      /\ MayCall(c)
      /\ c.op # "enqueue" => \A other \in Threads : call[other].op \notin ConsumerOps
  BY DEF Enter
<1>2. /\ at \in [Threads -> {"idle"} \cup Pending \cup Inside] /\ call \in [Threads -> Calls \cup {Idle}]
      /\ at'[th] = "waiting" /\ call'[th] = c /\ "waiting" \in Pending /\ "waiting" \notin Inside
      /\ \A u \in Threads : u # th => at'[u] = at[u] /\ call'[u] = call[u]
  BY <1>1 DEF FileInv, TypeInv, Pending, Inside
<1>3. Moves(th) BY <1>1, <1>2 DEF Moves
<1>4. TypeInv'
  <2>1. at' \in [Threads -> {"idle"} \cup Pending \cup Inside] /\ call' \in [Threads -> Calls \cup {Idle}]
    BY <1>1, <1>2
  <2>2. \A u \in Threads : at'[u] # "idle" => call'[u] \in Calls BY <1>2 DEF FileInv, TypeInv
  <2> QED BY <1>1, <2>1, <2>2 DEF FileInv, TypeInv
<1>5. LockInv'
  <2>1. Locked(th)' BY <1>2 DEF Locked, Inside
  <2>2. \A u \in Threads : u # th => Locked(u)' BY <1>1, <1>3, OthersLocked
  <2> QED BY <2>1, <2>2 DEF LockInv, Locked
<1>6. ConsumerInv'
  <2>1. ASSUME NEW t \in Threads, NEW u \in Threads, call'[t].op \in ConsumerOps, call'[u].op \in ConsumerOps
        PROVE  t = u
    <3>1. \A v \in Threads : v # th /\ call'[v].op \in ConsumerOps => c.op = "enqueue"
      BY <1>1, <1>2
    <3>2. c.op \in ConsumerOps => c.op # "enqueue" BY DEF ConsumerOps
    <3> QED BY <1>2, <2>1, <3>1, <3>2 DEF FileInv, ConsumerInv
  <2>2. ~started' => held' = 0 BY <1>1 DEF FileInv, ConsumerInv
  <2>3. ASSUME NEW u \in Threads, at'[u] \in Pending
        PROVE  /\ call'[u].op \in {"claim", "recover"} => held' = 0
               /\ call'[u].op = "claim" => started'
    <3>1. CASE u = th
      <4>1. c.op = "claim" => started /\ held = 0 BY <1>1 DEF MayCall
      <4>2. c.op = "recover" => held = 0
        <5>1. c.op = "recover" => ~started BY <1>1 DEF MayCall
        <5> QED BY <5>1 DEF FileInv, ConsumerInv
      <4> QED BY <1>1, <1>2, <3>1, <4>1, <4>2
    <3>2. CASE u # th BY <1>1, <1>2, <2>3, <3>2 DEF FileInv, ConsumerInv
    <3> QED BY <3>1, <3>2
  <2> QED BY <2>1, <2>2, <2>3 DEF ConsumerInv
<1>7. IdInv'
  <2>1. CASE c.op # "enqueue"
    <3>1. Growing' \subseteq Growing BY <1>2, <2>1 DEF Growing, Enqueuing
    <3> QED BY <1>1, <3>1, IdsKept
  <2>2. CASE c.op = "enqueue"
    <3> DEFINE top == Highest(file)
               all == Cardinality(Enqueuing)
               g == Cardinality(Growing)
               h == Cardinality(Growing')
    <3>1. top + all < MaxId BY <1>1, <2>2 DEF MayCall
    <3>2. all \in Nat /\ g \in Nat /\ g <= all BY GrowingFinite
    <3>3. Growing' = Growing \cup {th} BY <1>2, <2>2 DEF Growing, Enqueuing
    <3>4. h = IF th \in Growing THEN g ELSE g + 1 BY <3>3, GrowingFinite, FS_AddElement
    <3>5. top \in Nat /\ MaxId \in Nat BY HighestId, LimitsAssumption DEF FileInv, TypeInv
    <3>6. Highest(file') = top BY <1>1
    <3>7. IdInv' <=> Highest(file') + h <= MaxId BY DEF IdInv
    <3> HIDE DEF top, all, g, h
    <3>8. top + h <= MaxId BY <3>1, <3>2, <3>4, <3>5, SMT
    <3> QED BY <3>6, <3>7, <3>8
  <2> QED BY <2>1, <2>2
<1> QED BY <1>1, <1>4, <1>5, <1>6, <1>7, Stutter DEF FileInv

\* Nobody but the consumer touches what the worker holds, and it only when it
\* is done.
LEMMA ConsumerKept ==
  ASSUME FileInv, NEW th \in Threads, Moves(th), at[th] \in Pending \/ at'[th] \notin Pending,
         call'[th] = call[th] \/ call'[th] = Idle, started => started', ~started' => held' = 0,
         held' = held \/ (call[th].op \in ConsumerOps /\ at'[th] \notin Pending)
  PROVE  ConsumerInv'
<1>1. \A u \in Threads : call'[u] = call[u] \/ call'[u] = Idle BY DEF Moves
<1>2. \A u \in Threads : call'[u].op \in ConsumerOps => call[u].op \in ConsumerOps BY <1>1, CallKinds
<1>3. \A t, u \in Threads : call'[t].op \in ConsumerOps /\ call'[u].op \in ConsumerOps => t = u
  BY <1>2 DEF FileInv, ConsumerInv
<1>4. ASSUME NEW u \in Threads, at'[u] \in Pending
      PROVE  /\ call'[u].op \in {"claim", "recover"} => held' = 0
             /\ call'[u].op = "claim" => started'
  <2> SUFFICES ASSUME call'[u].op \in {"claim", "recover"}
               PROVE  held' = 0 /\ (call'[u].op = "claim" => started')
    OBVIOUS
  <2>1. call'[u].op \in ConsumerOps BY DEF ConsumerOps
  <2>2. call'[u] = call[u] /\ call[u].op \in ConsumerOps BY <1>1, <1>2, <2>1, CallKinds
  <2>3. at[u] \in Pending /\ held' = held
    <3>1. CASE u = th BY <1>4, <3>1
    <3>2. CASE u # th
      <4>1. at[u] \in Pending BY <1>4, <3>2 DEF Moves
      <4>2. call[th].op \notin ConsumerOps BY <2>2, <3>2 DEF FileInv, ConsumerInv
      <4> QED BY <4>1, <4>2
    <3> QED BY <3>1, <3>2
  <2> QED BY <2>2, <2>3 DEF FileInv, ConsumerInv
<1> QED BY <1>3, <1>4 DEF ConsumerInv

LEMMA LockKeeps ==
  ASSUME FileInv, NEW th \in Threads, Lock(th)
  PROVE  FileInv' /\ UNCHANGED Promise!vars
<1>1. /\ at[th] = "waiting" /\ lock = Nobody /\ lock' = th /\ at' = [at EXCEPT ![th] = "reading"]
      /\ UNCHANGED <<file, call, doc, held, started, claims, kills>>
  BY DEF Lock
<1>2. /\ at \in [Threads -> {"idle"} \cup Pending \cup Inside]
      /\ at'[th] = "reading" /\ {"waiting", "reading"} \subseteq Pending /\ "reading" \in Inside
      /\ \A u \in Threads : u # th => at'[u] = at[u]
  BY <1>1 DEF FileInv, TypeInv, Pending, Inside
<1>3. Moves(th) BY <1>1, <1>2 DEF Moves
<1>4. TypeInv'
  <2>1. at' \in [Threads -> {"idle"} \cup Pending \cup Inside] BY <1>1, <1>2
  <2>2. \A u \in Threads : at'[u] # "idle" => call'[u] \in Calls BY <1>1, <1>2 DEF FileInv, TypeInv
  <2> QED BY <1>1, <2>1, <2>2 DEF FileInv, TypeInv
<1>5. LockInv'
  <2>1. Locked(th)' BY <1>1, <1>2 DEF Locked
  <2>2. \A u \in Threads : u # th => Locked(u)' BY <1>1, <1>3, OthersLocked
  <2> QED BY <2>1, <2>2 DEF LockInv, Locked
<1>6. ConsumerInv'
  <2>1. ~started' => held' = 0 BY <1>1 DEF FileInv, ConsumerInv
  <2> QED BY <1>1, <1>2, <1>3, <2>1, ConsumerKept
<1>7. IdInv'
  <2>1. Growing' \subseteq Growing BY <1>1, <1>2, <1>3, NothingGrows
  <2> QED BY <1>1, <2>1, IdsKept
<1> QED BY <1>1, <1>4, <1>5, <1>6, <1>7, Stutter DEF FileInv

LEMMA ReadKeeps ==
  ASSUME FileInv, NEW th \in Threads, Read(th)
  PROVE  FileInv' /\ UNCHANGED Promise!vars
<1> DEFINE next == IF doc'[th] = file THEN "leaving" ELSE "writing"
<1>1. /\ at[th] = "reading" /\ doc' = [doc EXCEPT ![th] = Successor(file, call[th])]
      /\ at' = [at EXCEPT ![th] = next]
      /\ (started => started')
      /\ UNCHANGED <<file, lock, call, held, claims, kills>>
  BY DEF Read
<1>2. /\ at \in [Threads -> {"idle"} \cup Pending \cup Inside] /\ lock = th
      /\ at'[th] = next /\ next \in Inside /\ at[th] \in Pending
      /\ doc'[th] = Successor(file, call[th]) /\ (at'[th] = "writing" => doc'[th] # file)
      /\ \A u \in Threads : u # th => at'[u] = at[u] /\ doc'[u] = doc[u]
  BY <1>1 DEF FileInv, TypeInv, LockInv, Pending, Inside
<1>3. Moves(th) BY <1>1, <1>2 DEF Moves
<1> HIDE DEF next
<1>4. TypeInv'
  <2>1. at' \in [Threads -> {"idle"} \cup Pending \cup Inside] /\ DOMAIN doc' = Threads
    BY <1>1, <1>2 DEF FileInv, TypeInv
  <2>2. \A u \in Threads : at'[u] # "idle" => call'[u] \in Calls
    <3>1. at[th] # "idle" BY <1>1
    <3> QED BY <1>1, <1>2, <3>1 DEF FileInv, TypeInv
  <2> QED BY <1>1, <2>1, <2>2 DEF FileInv, TypeInv
<1>5. LockInv'
  <2>1. Successor(file, call[th])' = Successor(file, call[th]) BY <1>1, SuccessorKept
  <2>2. Locked(th)' BY <1>1, <1>2, <2>1 DEF Locked
  <2>3. \A u \in Threads : u # th => Locked(u)' BY <1>1, <1>3, OthersLocked
  <2> QED BY <2>2, <2>3 DEF LockInv, Locked
<1>6. ConsumerInv'
  <2>1. ~started' => held' = 0 BY <1>1 DEF FileInv, ConsumerInv
  <2> QED BY <1>1, <1>2, <1>3, <2>1, ConsumerKept
<1>7. IdInv'
  <2>1. Growing' \subseteq Growing BY <1>1, <1>2, <1>3, NothingGrows
  <2> QED BY <1>1, <2>1, IdsKept
<1> QED BY <1>1, <1>4, <1>5, <1>6, <1>7, Stutter DEF FileInv

LEMMA RenameKeeps ==
  ASSUME FileInv, NEW th \in Threads, Rename(th)
  PROVE  FileInv' /\ Promise!Next
<1>1. /\ call[th] \in Calls /\ at[th] = "writing" /\ lock = th /\ at' = [at EXCEPT ![th] = "leaving"]
      /\ UNCHANGED <<lock, call, doc, kills>> /\ started' = (started \/ call[th].op = "recover")
  BY Installs
<1>2. /\ at \in [Threads -> {"idle"} \cup Pending \cup Inside]
      /\ at'[th] = "leaving" /\ at[th] \in Pending /\ "leaving" \in Inside /\ "leaving" \notin Pending
      /\ \A u \in Threads : u # th => at'[u] = at[u]
  BY <1>1 DEF FileInv, TypeInv, Pending, Inside
<1>3. Moves(th) BY <1>1, <1>2 DEF Moves
<1>4. Renamed(th) BY RenameMeans
<1>5. TypeInv'
  <2>1. at' \in [Threads -> {"idle"} \cup Pending \cup Inside] BY <1>1, <1>2
  <2>2. \A u \in Threads : at'[u] # "idle" => call'[u] \in Calls BY <1>1, <1>2 DEF FileInv, TypeInv
  <2>3. call' \in [Threads -> Calls \cup {Idle}] /\ DOMAIN doc' = Threads BY <1>1 DEF FileInv, TypeInv
  <2> QED BY <1>4, <2>1, <2>2, <2>3 DEF Renamed, TypeInv
<1>6. LockInv'
  <2>1. Locked(th)' BY <1>1, <1>2 DEF Locked
  <2>2. \A u \in Threads : u # th => Locked(u)' BY <1>1, <1>3, OthersLocked
  <2> QED BY <2>1, <2>2 DEF LockInv, Locked
<1>7. ConsumerInv'
  <2>1. ~started' => held' = 0
    <3>1. call[th].op = "claim" => started BY <1>1, <1>2 DEF FileInv, ConsumerInv
    <3>2. ~started => held = 0 BY DEF FileInv, ConsumerInv
    <3> QED BY <1>1, <1>4, <3>1, <3>2 DEF Renamed
  <2>2. held' = held \/ call[th].op \in ConsumerOps BY <1>4 DEF Renamed
  <2>3. (started => started') /\ call'[th] = call[th] BY <1>1
  <2> QED BY <1>2, <1>3, <2>1, <2>2, <2>3, ConsumerKept
<1>8. IdInv'
  <2>1. Growing' \subseteq Growing BY <1>1, <1>2, <1>3, NothingGrows
  <2>2. CASE call[th].op # "enqueue" BY <1>4, <2>1, <2>2, IdsKept DEF Renamed
  <2>3. CASE call[th].op = "enqueue"
    <3> DEFINE top == Highest(file)
               new == Highest(file')
               g == Cardinality(Growing)
               h == Cardinality(Growing')
    <3>1. top \in Nat /\ \A q \in Ids(file) : q <= top BY HighestId DEF FileInv, TypeInv
    <3>2. new \in Nat /\ (new \in Ids(file') \/ new = 0)
      <4>1. file' \in Lists BY <1>4 DEF Renamed
      <4> QED BY <4>1, HighestId
    <3>3. Ids(file') \subseteq Ids(file) \cup {top + 1} BY <1>4, <2>3 DEF Renamed
    <3>4. new <= top + 1
      <4>1. new \in Ids(file) \/ new = top + 1 \/ new = 0 BY <3>2, <3>3
      <4>2. new \in Ids(file) => new <= top BY <3>1
      <4> HIDE DEF top, new
      <4> QED BY <3>1, <3>2, <4>1, <4>2, SMT
    <3>5. g \in Nat /\ h \in Nat /\ h <= g - 1
      <4>1. th \in Growing /\ th \notin Growing' BY <1>1, <1>2, <2>3 DEF Growing, Enqueuing
      <4>2. Growing' \in SUBSET (Growing \ {th}) BY <2>1, <4>1
      <4>3. IsFiniteSet(Growing \ {th}) /\ Cardinality(Growing \ {th}) = g - 1
        BY <4>1, GrowingFinite, FS_RemoveElement
      <4>4. h <= g - 1 /\ IsFiniteSet(Growing') BY <4>2, <4>3, FS_Subset
      <4> QED BY <4>4, GrowingFinite, FS_CardinalityType
    <3>6. top + g <= MaxId /\ MaxId \in Nat BY LimitsAssumption DEF FileInv, IdInv
    <3>7. IdInv' <=> new + h <= MaxId BY DEF IdInv
    <3> HIDE DEF top, new, g, h
    <3>8. new + h <= MaxId BY <3>1, <3>2, <3>4, <3>5, <3>6, SMT
    <3> QED BY <3>7, <3>8
  <2> QED BY <2>2, <2>3
<1> QED BY <1>4, <1>5, <1>6, <1>7, <1>8 DEF FileInv, Renamed

LEMMA RaiseKeeps ==
  ASSUME FileInv, NEW th \in Threads, Raise(th)
  PROVE  FileInv' /\ [Promise!Next]_(Promise!vars)
<1>1. /\ at[th] \in {"reading", "writing"} /\ at' = [at EXCEPT ![th] = "leaving"]
      /\ held' = IF call[th].op = "fail" THEN 0 ELSE held
      /\ UNCHANGED <<file, lock, call, doc, started, claims, kills>>
  BY DEF Raise
<1>2. /\ at \in [Threads -> {"idle"} \cup Pending \cup Inside] /\ lock = th
      /\ at'[th] = "leaving" /\ at[th] \in Pending /\ "leaving" \in Inside /\ "leaving" \notin Pending
      /\ \A u \in Threads : u # th => at'[u] = at[u]
  BY <1>1 DEF FileInv, TypeInv, LockInv, Pending, Inside
<1>3. Moves(th) BY <1>1, <1>2 DEF Moves
<1>4. TypeInv'
  <2>1. at' \in [Threads -> {"idle"} \cup Pending \cup Inside] BY <1>1, <1>2
  <2>2. \A u \in Threads : at'[u] # "idle" => call'[u] \in Calls
    <3>1. at[th] # "idle" BY <1>1
    <3> QED BY <1>1, <1>2, <3>1 DEF FileInv, TypeInv
  <2>3. held' \in Nat BY <1>1 DEF FileInv, TypeInv
  <2> QED BY <1>1, <2>1, <2>2, <2>3 DEF FileInv, TypeInv
<1>5. LockInv'
  <2>1. Locked(th)' BY <1>1, <1>2 DEF Locked
  <2>2. \A u \in Threads : u # th => Locked(u)' BY <1>2, <1>3, OthersLocked
  <2> QED BY <2>1, <2>2 DEF LockInv, Locked
<1>6. ConsumerInv'
  <2>1. ~started' => held' = 0 BY <1>1 DEF FileInv, ConsumerInv
  <2>2. held' = held \/ call[th].op \in ConsumerOps BY <1>1 DEF ConsumerOps
  <2> QED BY <1>1, <1>2, <1>3, <2>1, <2>2, ConsumerKept
<1>7. IdInv'
  <2>1. Growing' \subseteq Growing BY <1>1, <1>2, <1>3, NothingGrows
  <2> QED BY <1>1, <2>1, IdsKept
<1>8. [Promise!Next]_(Promise!vars)
  <2>1. CASE held' = held BY <1>1, <2>1, Stutter
  <2>2. CASE held' # held
    <3>1. Promise!Abandon BY <1>1, <2>2 DEF Promise!Abandon, Promise!NoItem
    <3> QED BY <3>1 DEF Promise!Next
  <2> QED BY <2>1, <2>2
<1> QED BY <1>4, <1>5, <1>6, <1>7, <1>8 DEF FileInv

LEMMA UnlockKeeps ==
  ASSUME FileInv, NEW th \in Threads, Unlock(th)
  PROVE  FileInv' /\ UNCHANGED Promise!vars
<1>1. /\ at[th] = "leaving" /\ lock' = Nobody
      /\ at' = [at EXCEPT ![th] = "idle"] /\ call' = [call EXCEPT ![th] = Idle]
      /\ doc' = [doc EXCEPT ![th] = Nobody]
      /\ UNCHANGED <<file, held, started, claims, kills>>
  BY DEF Unlock
<1>2. /\ at \in [Threads -> {"idle"} \cup Pending \cup Inside] /\ lock = th
      /\ call \in [Threads -> Calls \cup {Idle}]
      /\ at'[th] = "idle" /\ call'[th] = Idle /\ "idle" \notin Inside \cup Pending
      /\ \A u \in Threads : u # th => at'[u] = at[u] /\ call'[u] = call[u] /\ doc'[u] = doc[u]
  BY <1>1 DEF FileInv, TypeInv, LockInv, Pending, Inside
<1>3. Moves(th) BY <1>2 DEF Moves
<1>4. TypeInv'
  <2>1. at' \in [Threads -> {"idle"} \cup Pending \cup Inside] BY <1>1, <1>2
  <2>2. \A u \in Threads : at'[u] # "idle" => call'[u] \in Calls BY <1>1, <1>2 DEF FileInv, TypeInv
  <2>3. call' \in [Threads -> Calls \cup {Idle}] /\ DOMAIN doc' = Threads BY <1>1, <1>2 DEF FileInv, TypeInv
  <2> QED BY <1>1, <2>1, <2>2, <2>3 DEF FileInv, TypeInv
<1>5. LockInv'
  <2>1. Locked(th)' BY <1>2 DEF Locked, Inside
  <2>2. \A u \in Threads : u # th => Locked(u)' BY <1>2, <1>3, OthersLocked
  <2> QED BY <2>1, <2>2 DEF LockInv, Locked
<1>6. ConsumerInv'
  <2>1. ~started' => held' = 0 BY <1>1 DEF FileInv, ConsumerInv
  <2> QED BY <1>1, <1>2, <1>3, <2>1, ConsumerKept
<1>7. IdInv'
  <2>1. Growing' \subseteq Growing BY <1>2, <1>3, NothingGrows
  <2> QED BY <1>1, <2>1, IdsKept
<1> QED BY <1>1, <1>4, <1>5, <1>6, <1>7, Stutter DEF FileInv

LEMMA KillKeeps ==
  ASSUME FileInv, Kill
  PROVE  FileInv' /\ [Promise!Next]_(Promise!vars)
<1>1. /\ lock' = Nobody /\ held' = 0 /\ started' = FALSE
      /\ at' = [th \in Threads |-> "idle"] /\ call' = [th \in Threads |-> Idle]
      /\ doc' = [th \in Threads |-> Nobody] /\ UNCHANGED <<file, claims>>
  BY DEF Kill
<1>2. \A th \in Threads : at'[th] = "idle" /\ call'[th] = Idle BY <1>1
<1>3. "idle" \notin Inside \cup Pending BY DEF Inside, Pending
<1>4. TypeInv' BY <1>1 DEF FileInv, TypeInv
<1>5. LockInv' BY <1>2, <1>3 DEF LockInv, Inside
<1>6. ConsumerInv' BY <1>1, <1>2, <1>3, CallKinds DEF ConsumerInv
<1>7. IdInv'
  <2>1. Growing' \subseteq Growing BY <1>2, <1>3 DEF Growing, Enqueuing
  <2> QED BY <1>1, <2>1, IdsKept
<1>8. [Promise!Next]_(Promise!vars)
  <2>1. CASE held' = held BY <1>1, <2>1, Stutter
  <2>2. CASE held' # held
    <3>1. Promise!Abandon BY <1>1, <2>2 DEF Promise!Abandon, Promise!NoItem
    <3> QED BY <3>1 DEF Promise!Next
  <2> QED BY <2>1, <2>2
<1> QED BY <1>4, <1>5, <1>6, <1>7, <1>8 DEF FileInv
-----------------------------------------------------------------------------
LEMMA Initially == Init => FileInv /\ Promise!Init
<1> SUFFICES ASSUME Init PROVE FileInv /\ Promise!Init OBVIOUS
<1>1. /\ file = <<>> /\ held = 0 /\ started = FALSE /\ claims = [q \in {} |-> 0]
      /\ at = [th \in Threads |-> "idle"] /\ call = [th \in Threads |-> Idle]
      /\ doc = [th \in Threads |-> Nobody]
  BY DEF Init
<1>2. \A th \in Threads : at[th] = "idle" /\ call[th] = Idle BY <1>1
<1>3. "idle" \notin Inside \cup Pending BY DEF Inside, Pending
<1>4. Places(file) = {} /\ file \in Seq(Entries)
  <2>1. Len(file) = 0 /\ file \in Seq(Entries) BY <1>1, SMT
  <2> QED BY <2>1, SMT DEF Places
<1>5. Ids(file) = {} /\ file \in Lists BY <1>4 DEF Ids, Lists, Ordered
<1>6. TypeInv
  <2>1. DOMAIN claims = {} BY <1>1
  <2>2. held \in Nat BY <1>1
  <2>3. /\ at \in [Threads -> {"idle"} \cup Pending \cup Inside] /\ call \in [Threads -> Calls \cup {Idle}]
        /\ DOMAIN doc = Threads
    BY <1>1
  <2> QED BY <1>2, <1>5, <2>1, <2>2, <2>3 DEF TypeInv
<1>7. LockInv BY <1>2, <1>3 DEF LockInv, Inside
<1>8. ConsumerInv BY <1>1, <1>2, <1>3, CallKinds DEF ConsumerInv
<1>9. IdInv
  <2>1. Growing = {} BY <1>2, <1>3 DEF Growing, Enqueuing
  <2>2. Highest(file) = 0 BY <1>5, HighestId
  <2>3. Cardinality(Growing) = 0 BY <2>1, FS_EmptySet
  <2>4. MaxId \in Nat BY LimitsAssumption
  <2>5. 0 + 0 <= MaxId BY <2>4, SMT
  <2> QED BY <2>2, <2>3, <2>5 DEF IdInv
<1>10. Document(file) = [q \in {} |-> 0]
  <2>1. DOMAIN Document(file) = {} BY <1>5, DocumentAt
  <2> QED BY <1>5 DEF Document
<1> QED BY <1>1, <1>6, <1>7, <1>8, <1>9, <1>10 DEF FileInv, Promise!Init, Promise!NoItem

\* Each step keeps the invariant and is one of the promise, or leaves it alone.
LEMMA Steps ==
  ASSUME FileInv, [Next]_vars
  PROVE  FileInv' /\ [Promise!Next]_(Promise!vars)
<1>1. CASE UNCHANGED vars
  <2>1. UNCHANGED <<file, lock, at, call, doc, held, started, claims, kills>> BY <1>1 DEF vars
  <2>2. UNCHANGED Promise!vars BY <2>1, Stutter
  <2>3. LockInv'
    <3>1. \A th \in Threads : Successor(file, call[th])' = Successor(file, call[th]) BY <2>1, SuccessorKept
    <3> QED BY <2>1, <3>1 DEF FileInv, LockInv
  <2>4. Growing' = Growing /\ Ids(file') = Ids(file) BY <2>1 DEF Growing, Enqueuing
  <2> QED BY <2>1, <2>2, <2>3, <2>4, IdsKept DEF FileInv, TypeInv, ConsumerInv
<1>2. ASSUME NEW th \in Threads, Step(th) PROVE FileInv' /\ [Promise!Next]_(Promise!vars)
  BY <1>2, LockKeeps, ReadKeeps, RenameKeeps, RaiseKeeps, UnlockKeeps DEF Step
<1>3. ASSUME NEW th \in Threads, NEW c \in Calls, Enter(th, c)
      PROVE  FileInv' /\ [Promise!Next]_(Promise!vars)
  BY <1>3, EnterKeeps
<1>4. CASE Kill BY <1>4, KillKeeps
<1> QED BY <1>1, <1>2, <1>3, <1>4 DEF Next

\* FileInv holds in every state: whoever is past the lock alone has it, and
\* installs the successor of the document that is there.
THEOREM Invariance == Spec => []FileInv
<1>1. Init => FileInv BY Initially
<1>2. FileInv /\ [Next]_vars => FileInv' BY Steps
<1> QED BY <1>1, <1>2, PTL DEF Spec

\* SeoEmployeeQueue with its lock, its temporary file and its rename, under any
\* interleaving, failing reads and writes and kills, behaves as the queue of
\* RunQueue, of which each operation is one step.
THEOREM KeepsThePromise == Spec => KeepsPromise
<1>1. Init => Promise!Init BY Initially
<1>2. FileInv /\ [Next]_vars => [Promise!Next]_(Promise!vars) BY Steps
<1> QED BY <1>1, <1>2, Invariance, PTL DEF Spec, KeepsPromise, Promise!Spec
-----------------------------------------------------------------------------
(* What is proved of the promise holds of the file.                         *)

Kept == INSTANCE RunQueueProofs WITH items <- Document(file)

LEMMA PromiseIsKept == Spec => Kept!Spec
<1>1. Promise!Init => Kept!Init
  BY DEF Kept!Init, Promise!Init, Kept!NoItem, Promise!NoItem
<1>2. [Promise!Next]_(Promise!vars) => [Kept!Next]_(Kept!vars)
  <2>1. UNCHANGED Promise!vars => UNCHANGED Kept!vars
    BY DEF Kept!vars, Promise!vars
  <2>2. Promise!Next => Kept!Next
    BY Zenon DEF Promise!Next, Promise!Ids, Promise!IsNextId, Promise!Enqueue, Promise!IsFree, Promise!Active,
       Promise!WithStatus, Promise!ActiveStatus, Promise!TerminalStatus, Promise!Key, Promise!Retained,
       Promise!Cardinality, Promise!NewItem, Promise!ClaimNext, Promise!NoItem, Promise!Running, Promise!Queued,
       Promise!Replace, Promise!Complete, Promise!Fail, Promise!Abandon, Promise!RecoverInterrupted,
       Promise!Recovered,
       Kept!Next, Kept!Ids, Kept!IsNextId, Kept!Enqueue, Kept!IsFree, Kept!Active,
       Kept!WithStatus, Kept!ActiveStatus, Kept!TerminalStatus, Kept!Key, Kept!Retained,
       Kept!Cardinality, Kept!NewItem, Kept!ClaimNext, Kept!NoItem, Kept!Running, Kept!Queued,
       Kept!Replace, Kept!Complete, Kept!Fail, Kept!Abandon, Kept!RecoverInterrupted, Kept!Recovered
  <2> QED BY <2>1, <2>2
<1> QED BY <1>1, <1>2, KeepsThePromise, PTL DEF KeepsPromise, Promise!Spec, Kept!Spec

\* Also with threads, failing files and kills inside the operations: the running
\* item is the oldest of those that wait, no item is handed out more than twice,
\* and no step of any thread drops an active item or rewrites a settled one.
THEOREM FileKeepsOrderAndWork ==
  Spec => [](Kept!RunningIsOldest /\ Kept!HandedOutAtMostTwice) /\ Kept!NoItemIsLost
<1>1. MaxTerminal \in Nat /\ MaxTerminal >= 2 /\ MaxAttempts \in Nat /\ MaxAttempts >= 2 /\ MaxId \in Nat
  BY LimitsAssumption
<1>2. Kept!Spec => []Kept!RunningIsOldest BY <1>1, Kept!FirstInFirstOut, PTL
<1>3. Kept!Spec => []Kept!HandedOutAtMostTwice BY <1>1, Kept!RecoveryIsLimited, PTL
<1>4. Kept!Spec => Kept!NoItemIsLost BY <1>1, Kept!AcceptedWorkIsKept, PTL
<1> QED BY <1>2, <1>3, <1>4, PromiseIsKept, PTL
=============================================================================
