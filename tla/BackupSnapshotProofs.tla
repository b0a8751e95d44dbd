------------------------- MODULE BackupSnapshotProofs -------------------------
(***************************************************************************)
(* Proofs about BackupSnapshot, for any volumes and services, any number of *)
(* snapshots to keep and any number of scripts, writes and failures.  The   *)
(* invariant follows a script through its steps: between the stop and the   *)
(* restart of the services nobody writes (QuietInv), so what has been       *)
(* copied or replaced agrees with its copy; MomentsInv says that the data   *)
(* and the intact snapshots then are states which the product produced.     *)
(***************************************************************************)
EXTENDS BackupSnapshot, FiniteSetTheorems, TLAPS

Values == Versions \cup {Torn, Missing}
Steps == {"stop", "start", "dump", "stop database", "archive", "cleanup", "replace", "finally", "restart",
          "end", "delete"}
Commands == {"stop", "start database", "stop database", "copy", "publish", "replace", "restart"}

Scripts ==
  [kind : {"create", "restore", "prune"}, at : Steps, was : SUBSET Services, started : BOOLEAN,
   stopped : BOOLEAN, failed : BOOLEAN, trouble : SUBSET Commands, copy : [Parts -> Values],
   done : SUBSET Parts, victims : SUBSET (1..MaxScripts)]

DataInv ==
  /\ running \subseteq Services /\ data \in [Parts -> Versions \cup {Torn}]
  /\ DOMAIN snapshots \subseteq 1..MaxScripts
  /\ snapshots \in [DOMAIN snapshots -> [Parts -> Values]]
  /\ moments \subseteq [Parts -> Versions] /\ mixed \in BOOLEAN
  /\ writes \in 0..MaxWrites /\ scripts \in 0..MaxScripts
  /\ op # Idle => op \in Scripts /\ scripts > 0

Copying == op.kind \in {"create", "restore"}
InOrder == Copying /\ ~op.failed
Creating == {"stop", "start", "dump", "stop database", "archive", "cleanup", "finally", "restart", "end"}
Restoring == {"stop", "start", "replace", "finally", "restart", "end"}

\* Which steps a script has come through.
StepInv ==
  /\ op.kind = "create" => op.at \in Creating
  /\ op.kind = "restore" => op.at \in Restoring
  /\ op.kind = "prune" => op.at = "delete"
  /\ Copying => op.victims = {}
  /\ InOrder /\ op.at \in {"stop", "start", "dump"} => op.done = {}
  /\ InOrder /\ op.at = "stop database" => op.done = {Database}
  /\ InOrder /\ op.at = "archive" => Database \in op.done
  /\ op.kind = "create" /\ op.at = "cleanup" => op.failed
  /\ Copying /\ op.at \in {"stop", "start", "dump", "stop database"} => ~op.stopped
  /\ Copying /\ op.at \in {"stop", "start", "dump", "stop database", "archive", "replace"} => ~op.failed
  /\ op.kind = "restore" /\ ~op.failed /\ op.at \in {"finally", "restart"} => op.done = Parts
  /\ op.kind = "restore" /\ op.at = "replace" => op.done # Parts
  /\ op.kind = "restore" => Missing \notin Range(op.copy)

\* While the script is at work nobody writes: what is copied is like its copy.
QuietInv ==
  InOrder /\ op.at \notin {"stop", "end"} =>
    ~Live /\ \A part \in op.done : op.copy[part] = data[part]

MomentsInv ==
  ~mixed =>
    /\ data \in moments \/ (op.kind = "restore" /\ op.at = "replace" /\ op.done # {})
    /\ \A s \in Intact : snapshots[s] \in moments
    /\ op.kind = "restore" => op.copy \in moments

\* What runs besides what ran before is a database.
RunningInv ==
  Copying =>
    /\ running \subseteq op.was \cup {Database}
    /\ op.at = "end" /\ "restart" \notin op.trouble => op.was \subseteq running
    /\ Database \in running \ op.was =>
         \/ op.trouble \cap {"start database", "stop database"} # {}
         \/ op.started /\ ~op.stopped /\ op.at \notin {"restart", "end"}

\* Newer snapshots than the victims are enough to be kept.
Newer(s) == {t \in Intact : t > s}
PruneInv ==
  op.kind = "prune" =>
    /\ op.victims # {} /\ op.victims \subseteq Intact
    /\ \A s \in op.victims : Cardinality(Newer(s)) >= Keep

BackupInv == DataInv /\ StepInv /\ QuietInv /\ MomentsInv /\ RunningInv /\ PruneInv
-----------------------------------------------------------------------------
(* The record of a script, field by field.                                  *)

LEMMA Fields ==
  ASSUME NEW r \in Scripts
  PROVE  /\ r.kind \in {"create", "restore", "prune"} /\ r.at \in Steps /\ r.was \subseteq Services
         /\ r.started \in BOOLEAN /\ r.stopped \in BOOLEAN /\ r.failed \in BOOLEAN
         /\ r.trouble \subseteq Commands /\ r.copy \in [Parts -> Values]
         /\ r.done \subseteq Parts /\ r.victims \subseteq 1..MaxScripts
BY SMT DEF Scripts

Same(n, r) == n.kind = r.kind /\ n.was = r.was /\ n.victims = r.victims
SameFlags(n, r) == n.started = r.started /\ n.stopped = r.stopped
SameCopy(n, r) == n.copy = r.copy /\ n.done = r.done
SameTrouble(n, r) == n.failed = r.failed /\ n.trouble = r.trouble

LEMMA SetAt ==
  ASSUME NEW r \in Scripts, NEW at \in Steps
  PROVE  LET n == [r EXCEPT !.at = at] IN
         n \in Scripts /\ n.at = at /\ Same(n, r) /\ SameFlags(n, r) /\ SameCopy(n, r) /\ SameTrouble(n, r)
BY SMT DEF Scripts, Same, SameFlags, SameCopy, SameTrouble

LEMMA SetFlag ==
  ASSUME NEW r \in Scripts, NEW flag \in BOOLEAN
  PROVE  /\ LET n == [r EXCEPT !.failed = flag] IN
            n \in Scripts /\ n.failed = flag /\ n.at = r.at /\ Same(n, r) /\ SameFlags(n, r) /\ SameCopy(n, r)
              /\ n.trouble = r.trouble
         /\ LET n == [r EXCEPT !.started = flag] IN
            n \in Scripts /\ n.started = flag /\ n.stopped = r.stopped /\ n.at = r.at /\ Same(n, r)
              /\ SameCopy(n, r) /\ SameTrouble(n, r)
         /\ LET n == [r EXCEPT !.stopped = flag] IN
            n \in Scripts /\ n.stopped = flag /\ n.started = r.started /\ n.at = r.at /\ Same(n, r)
              /\ SameCopy(n, r) /\ SameTrouble(n, r)
BY SMT DEF Scripts, Same, SameFlags, SameCopy, SameTrouble

LEMMA AddTrouble ==
  ASSUME NEW r \in Scripts, NEW c \in Commands
  PROVE  LET n == [r EXCEPT !.trouble = @ \cup {c}] IN
         n \in Scripts /\ n.trouble = r.trouble \cup {c} /\ n.at = r.at /\ n.failed = r.failed
           /\ Same(n, r) /\ SameFlags(n, r) /\ SameCopy(n, r)
BY SMT DEF Scripts, Same, SameFlags, SameCopy

LEMMA AddDone ==
  ASSUME NEW r \in Scripts, NEW part \in Parts
  PROVE  LET n == [r EXCEPT !.done = @ \cup {part}] IN
         n \in Scripts /\ n.done = r.done \cup {part} /\ n.at = r.at /\ n.copy = r.copy
           /\ Same(n, r) /\ SameFlags(n, r) /\ SameTrouble(n, r)
BY SMT DEF Scripts, Same, SameFlags, SameTrouble

LEMMA SetVictims ==
  ASSUME NEW r \in Scripts, NEW rest \in SUBSET r.victims
  PROVE  LET n == [r EXCEPT !.victims = rest] IN
         n \in Scripts /\ n.kind = r.kind /\ n.at = r.at /\ n.victims = rest
BY SMT DEF Scripts

LEMMA SetCopy ==
  ASSUME NEW r \in Scripts, NEW c \in [Parts -> Values]
  PROVE  LET n == [r EXCEPT !.copy = c] IN
         n \in Scripts /\ n.copy = c /\ n.done = r.done /\ n.at = r.at
           /\ Same(n, r) /\ SameFlags(n, r) /\ SameTrouble(n, r)
BY SMT DEF Scripts, Same, SameFlags, SameTrouble

\* The same, for what one command does to the record.
FailsOf(r, at, c) == [r EXCEPT !.at = at, !.failed = TRUE, !.trouble = @ \cup {c}]

LEMMA Failed ==
  ASSUME NEW r \in Scripts, NEW at \in Steps, NEW c \in Commands, NEW n, n = FailsOf(r, at, c)
  PROVE  n \in Scripts /\ n.at = at /\ Same(n, r) /\ SameFlags(n, r) /\ SameCopy(n, r)
           /\ n.failed /\ n.trouble = r.trouble \cup {c}
<1> DEFINE m == [r EXCEPT !.at = at]
           l == [m EXCEPT !.failed = TRUE]
<1>1. m \in Scripts /\ m.at = at /\ Same(m, r) /\ SameFlags(m, r) /\ SameCopy(m, r) /\ SameTrouble(m, r)
  BY SetAt
<1> HIDE DEF m
<1>2. l \in Scripts /\ l.failed /\ l.at = m.at /\ Same(l, m) /\ SameFlags(l, m) /\ SameCopy(l, m)
        /\ l.trouble = m.trouble
  BY <1>1, SetFlag
<1> HIDE DEF l
<1>3. n = [l EXCEPT !.trouble = @ \cup {c}] BY DEF FailsOf, l, m
<1>4. n \in Scripts /\ n.trouble = l.trouble \cup {c} /\ n.at = l.at /\ n.failed = l.failed
        /\ Same(n, l) /\ SameFlags(n, l) /\ SameCopy(n, l)
  BY <1>2, <1>3, AddTrouble
<1> QED BY <1>1, <1>2, <1>4 DEF Same, SameFlags, SameCopy, SameTrouble

LEMMA Started ==
  ASSUME NEW r \in Scripts, NEW at \in Steps
  PROVE  /\ LET n == [r EXCEPT !.at = at, !.started = TRUE] IN
            n \in Scripts /\ n.at = at /\ n.started /\ n.stopped = r.stopped
              /\ Same(n, r) /\ SameCopy(n, r) /\ SameTrouble(n, r)
         /\ LET n == [r EXCEPT !.at = at, !.stopped = TRUE] IN
            n \in Scripts /\ n.at = at /\ n.stopped /\ n.started = r.started
              /\ Same(n, r) /\ SameCopy(n, r) /\ SameTrouble(n, r)
<1> DEFINE m == [r EXCEPT !.at = at]
           n == [m EXCEPT !.started = TRUE]
           l == [m EXCEPT !.stopped = TRUE]
<1>1. m \in Scripts /\ m.at = at /\ Same(m, r) /\ SameFlags(m, r) /\ SameCopy(m, r) /\ SameTrouble(m, r)
  BY SetAt
<1> HIDE DEF m
<1>2. /\ n \in Scripts /\ n.started /\ n.stopped = m.stopped /\ n.at = m.at /\ Same(n, m)
      /\ SameCopy(n, m) /\ SameTrouble(n, m)
      /\ l \in Scripts /\ l.stopped /\ l.started = m.started /\ l.at = m.at /\ Same(l, m)
      /\ SameCopy(l, m) /\ SameTrouble(l, m)
  BY <1>1, SetFlag
<1> HIDE DEF n, l
<1>3. n = [r EXCEPT !.at = at, !.started = TRUE] /\ l = [r EXCEPT !.at = at, !.stopped = TRUE] BY DEF n, l, m
<1>4. /\ n \in Scripts /\ n.at = at /\ n.started /\ n.stopped = r.stopped
      /\ Same(n, r) /\ SameCopy(n, r) /\ SameTrouble(n, r)
      /\ l \in Scripts /\ l.at = at /\ l.stopped /\ l.started = r.started
      /\ Same(l, r) /\ SameCopy(l, r) /\ SameTrouble(l, r)
  BY <1>1, <1>2 DEF Same, SameFlags, SameCopy, SameTrouble
<1> QED BY <1>3, <1>4

TroubleOf(r, at, c) == [r EXCEPT !.at = at, !.trouble = @ \cup {c}]

LEMMA Troubled ==
  ASSUME NEW r \in Scripts, NEW at \in Steps, NEW c \in Commands, NEW n, n = TroubleOf(r, at, c)
  PROVE  n \in Scripts /\ n.at = at /\ n.trouble = r.trouble \cup {c} /\ n.failed = r.failed
           /\ Same(n, r) /\ SameFlags(n, r) /\ SameCopy(n, r)
<1> DEFINE m == [r EXCEPT !.at = at]
<1>1. m \in Scripts /\ m.at = at /\ Same(m, r) /\ SameFlags(m, r) /\ SameCopy(m, r) /\ SameTrouble(m, r)
  BY SetAt
<1> HIDE DEF m
<1>2. n = [m EXCEPT !.trouble = @ \cup {c}] BY DEF TroubleOf, m
<1>3. n \in Scripts /\ n.trouble = m.trouble \cup {c} /\ n.at = m.at /\ n.failed = m.failed
        /\ Same(n, m) /\ SameFlags(n, m) /\ SameCopy(n, m)
  BY <1>1, <1>2, AddTrouble
<1> QED BY <1>1, <1>3 DEF Same, SameFlags, SameCopy, SameTrouble

\* A command that fails while the script cleans up.
StillFails(command, at) == op' = [op EXCEPT !.at = at, !.trouble = @ \cup {command}]

LEMMA StillFailsSteps ==
  ASSUME op \in Scripts, NEW command \in Commands, NEW at \in Steps, StillFails(command, at)
  PROVE  /\ op' \in Scripts /\ op'.at = at /\ Same(op', op) /\ SameFlags(op', op) /\ SameCopy(op', op)
         /\ op'.failed = op.failed /\ op'.trouble = op.trouble \cup {command}
<1>1. op' = TroubleOf(op, at, command) BY DEF StillFails, TroubleOf
<1> QED BY <1>1, Troubled

CopyOf(r, at, part, v) == [r EXCEPT !.at = at, !.copy[part] = v, !.done = @ \cup {part}]

IsCopied(n, r, at, part, v) ==
  /\ n \in Scripts /\ n.at = at /\ n.done = r.done \cup {part}
  /\ n.copy[part] = v /\ \A p \in Parts \ {part} : n.copy[p] = r.copy[p]
  /\ Same(n, r) /\ SameFlags(n, r) /\ SameTrouble(n, r)

LEMMA Copied ==
  ASSUME NEW r \in Scripts, NEW at \in Steps, NEW part \in Parts, NEW v \in Values,
         NEW n, n = CopyOf(r, at, part, v)
  PROVE  IsCopied(n, r, at, part, v)
<1> DEFINE m == [r EXCEPT !.at = at]
           c == [m.copy EXCEPT ![part] = v]
           l == [m EXCEPT !.copy = c]
<1>1. m \in Scripts /\ m.at = at /\ Same(m, r) /\ SameFlags(m, r) /\ SameCopy(m, r) /\ SameTrouble(m, r)
  BY SetAt
<1> HIDE DEF m
<1>2. c \in [Parts -> Values] BY <1>1, Fields
<1> HIDE DEF c
<1>3. l \in Scripts /\ l.copy = c /\ l.done = m.done /\ l.at = m.at
        /\ Same(l, m) /\ SameFlags(l, m) /\ SameTrouble(l, m)
  BY <1>1, <1>2, SetCopy
<1> HIDE DEF l
<1>4. n = [l EXCEPT !.done = @ \cup {part}] BY DEF CopyOf, l, c, m
<1>5. n \in Scripts /\ n.done = l.done \cup {part} /\ n.at = l.at /\ n.copy = l.copy
        /\ Same(n, l) /\ SameFlags(n, l) /\ SameTrouble(n, l)
  BY <1>3, <1>4, AddDone
<1>6. m.copy \in [Parts -> Values] BY <1>1, Fields
<1>7. c[part] = v /\ \A p \in Parts \ {part} : c[p] = m.copy[p] BY <1>6 DEF c
<1> QED BY <1>1, <1>3, <1>5, <1>7 DEF IsCopied, Same, SameFlags, SameCopy, SameTrouble

ReplaceOf(r, part) ==
  [r EXCEPT !.done = @ \cup {part}, !.at = IF r.done \cup {part} = Parts THEN "finally" ELSE @]

LEMMA Replaced ==
  ASSUME NEW r \in Scripts, NEW part \in Parts, NEW n, n = ReplaceOf(r, part)
  PROVE  n \in Scripts /\ n.at = (IF r.done \cup {part} = Parts THEN "finally" ELSE r.at)
           /\ n.done = r.done \cup {part} /\ n.copy = r.copy
           /\ Same(n, r) /\ SameFlags(n, r) /\ SameTrouble(n, r)
<1> DEFINE m == [r EXCEPT !.done = @ \cup {part}]
           at == IF r.done \cup {part} = Parts THEN "finally" ELSE m.at
<1>1. m \in Scripts /\ m.done = r.done \cup {part} /\ m.at = r.at /\ m.copy = r.copy
        /\ Same(m, r) /\ SameFlags(m, r) /\ SameTrouble(m, r)
  BY AddDone
<1> HIDE DEF m
<1>2. at \in Steps BY <1>1, Fields DEF Steps
<1> HIDE DEF at
<1>3. n = [m EXCEPT !.at = at] BY DEF ReplaceOf, m, at
<1>4. n \in Scripts /\ n.at = at /\ Same(n, m) /\ SameFlags(n, m) /\ SameCopy(n, m) /\ SameTrouble(n, m)
  BY <1>1, <1>2, <1>3, SetAt
<1> QED BY <1>1, <1>4 DEF at, Same, SameFlags, SameCopy, SameTrouble
-----------------------------------------------------------------------------
(* Steps of create and restore that leave the data and the snapshots alone. *)

LEMMA InScript ==
  ASSUME BackupInv, op.kind \in {"create", "restore", "prune"}
  PROVE  op \in Scripts /\ op # Idle /\ scripts > 0
BY DEF BackupInv, DataInv, Idle

LEMMA FailsSteps ==
  ASSUME op \in Scripts, NEW command \in Commands, NEW cleanup \in Steps, Fails(command, cleanup)
  PROVE  /\ op' \in Scripts /\ op'.at = cleanup /\ Same(op', op) /\ SameFlags(op', op) /\ SameCopy(op', op)
         /\ op'.failed /\ op'.trouble = op.trouble \cup {command}
<1>1. op' = FailsOf(op, cleanup, command) BY DEF Fails, FailsOf
<1> QED BY <1>1, Failed

\* What such a step keeps, whatever it does to the services.
LEMMA OpStep ==
  ASSUME BackupInv, Copying, op' \in Scripts, Same(op', op), running' \subseteq Services,
         UNCHANGED <<data, snapshots, history, counters>>,
         op.at # "replace", op.kind = "restore" => op'.copy = op.copy
  PROVE  DataInv' /\ MomentsInv' /\ PruneInv' /\ Copying' /\ op' # Idle
<1>1. op # Idle /\ scripts > 0 /\ Copying' BY InScript DEF Copying, Same
<1>2. op' # Idle BY <1>1 DEF Copying, Idle
<1>3. DataInv' BY <1>1, <1>2 DEF BackupInv, DataInv, Versions, Values, Scripts, history, counters
<1>4. Intact' = Intact BY DEF Intact
<1>5. MomentsInv' BY <1>4 DEF BackupInv, MomentsInv, Same, history
<1>6. PruneInv' BY <1>1 DEF PruneInv, Copying
<1> QED BY <1>1, <1>2, <1>3, <1>5, <1>6

LEMMA StopClientsKeepsInv == ASSUME BackupInv, CreateStops \/ RestoreStops PROVE BackupInv'
<1>1. PICK cleanup \in {"cleanup", "finally"} :
        /\ Copying /\ op.at = "stop" /\ StopClients("start", cleanup)
        /\ cleanup = "cleanup" <=> op.kind = "create"
  BY DEF CreateStops, RestoreStops, At, Copying
<1>2. op \in Scripts BY <1>1, InScript DEF Copying
<1>3. ~op.failed /\ ~op.stopped /\ op.done = {} /\ op.victims = {} BY <1>1 DEF BackupInv, StepInv, InOrder
<1>4. running \subseteq op.was \cup {Database} /\ running \subseteq Services
  BY <1>1 DEF BackupInv, RunningInv, DataInv
<1>5. UNCHANGED <<data, snapshots, history, counters>> BY <1>1 DEF StopClients
<1>6. CASE running' = running \ (op.was \ {Database}) /\ Goto("start")
  <2>1. /\ op' \in Scripts /\ op'.at = "start" /\ Same(op', op) /\ SameFlags(op', op) /\ SameCopy(op', op)
        /\ SameTrouble(op', op)
    BY <1>2, <1>6, SetAt DEF Goto, Steps
  <2>2. DataInv' /\ MomentsInv' /\ PruneInv' /\ Copying' BY <1>1, <1>4, <1>5, <1>6, <2>1, OpStep DEF SameCopy
  <2>3. StepInv'
    BY <1>1, <1>3, <2>1 DEF BackupInv, StepInv, Copying, InOrder, Same, SameCopy, SameFlags, SameTrouble, Creating, Restoring
  <2>4. QuietInv'
    <3>1. running' \cap Clients = {} BY <1>4, <1>6, PartsAssumption
    <3> QED BY <1>3, <2>1, <3>1 DEF QuietInv, Live, SameCopy
  <2>5. RunningInv'
    BY <1>1, <1>6, <2>1 DEF BackupInv, RunningInv, Same, SameTrouble, SameFlags
  <2> QED BY <2>2, <2>3, <2>4, <2>5 DEF BackupInv
<1>7. CASE (\E some \in SUBSET (op.was \ {Database}) : running' = running \ some) /\ Fails("stop", cleanup)
  <2>1. /\ op' \in Scripts /\ op'.at = cleanup /\ Same(op', op) /\ SameFlags(op', op) /\ SameCopy(op', op)
        /\ op'.failed /\ op'.trouble = op.trouble \cup {"stop"}
    <3>1. cleanup \in Steps /\ "stop" \in Commands BY DEF Steps, Commands
    <3> QED BY <1>2, <1>7, <3>1, FailsSteps
  <2>2. DataInv' /\ MomentsInv' /\ PruneInv' /\ Copying' BY <1>1, <1>4, <1>5, <1>7, <2>1, OpStep DEF SameCopy
  <2>3. StepInv'
    BY <1>1, <1>3, <2>1 DEF BackupInv, StepInv, Copying, InOrder, Same, SameCopy, SameFlags, Creating, Restoring
  <2>4. QuietInv' BY <2>1 DEF QuietInv, InOrder
  <2>5. RunningInv' BY <1>1, <1>7, <2>1 DEF BackupInv, RunningInv, Same, SameFlags
  <2> QED BY <2>2, <2>3, <2>4, <2>5 DEF BackupInv
<1> QED BY <1>1, <1>6, <1>7 DEF StopClients

LEMMA StartDatabaseKeepsInv == ASSUME BackupInv, CreateStarts \/ RestoreStarts PROVE BackupInv'
<1>1. PICK next \in {"dump", "replace"}, cleanup \in {"cleanup", "finally"} :
        /\ Copying /\ op.at = "start" /\ StartDatabase(next, cleanup)
        /\ cleanup = "cleanup" <=> op.kind = "create"
        /\ next = "dump" <=> op.kind = "create"
  BY DEF CreateStarts, RestoreStarts, At, Copying
<1>2. op \in Scripts BY <1>1, InScript DEF Copying
<1>3. ~op.failed /\ ~op.stopped /\ op.done = {} /\ op.victims = {} /\ op.done # Parts
  BY <1>1 DEF BackupInv, StepInv, InOrder, Parts
<1>4. running \subseteq op.was \cup {Database} /\ running \subseteq Services /\ ~Live
  BY <1>1, <1>3 DEF BackupInv, RunningInv, DataInv, QuietInv, InOrder
<1>5. UNCHANGED <<data, snapshots, history, counters>> BY <1>1 DEF StartDatabase
<1>6. running' \in {running, running \cup {Database}} BY <1>1 DEF StartDatabase
<1>7. running' \subseteq Services /\ ~Live' /\ running' \subseteq op.was \cup {Database}
  BY <1>4, <1>6, PartsAssumption DEF Services, Live
<1>8. CASE Database \in op.was /\ UNCHANGED running /\ Goto(next)
  <2>1. /\ op' \in Scripts /\ op'.at = next /\ Same(op', op) /\ SameFlags(op', op) /\ SameCopy(op', op)
        /\ SameTrouble(op', op)
    <3>1. next \in Steps BY DEF Steps
    <3> QED BY <1>2, <1>8, <3>1, SetAt DEF Goto
  <2>2. DataInv' /\ MomentsInv' /\ PruneInv' /\ Copying' BY <1>1, <1>5, <1>7, <2>1, OpStep DEF SameCopy
  <2>3. StepInv'
    BY <1>1, <1>3, <2>1 DEF BackupInv, StepInv, Copying, InOrder, Same, SameCopy, SameFlags, SameTrouble, Creating, Restoring
  <2>4. QuietInv' BY <1>3, <1>7, <2>1 DEF QuietInv, SameCopy
  <2>5. RunningInv' BY <1>1, <1>7, <1>8, <2>1 DEF RunningInv, Same
  <2> QED BY <2>2, <2>3, <2>4, <2>5 DEF BackupInv
<1>9. CASE op' = [op EXCEPT !.at = next, !.started = TRUE]
  <2>1. /\ op' \in Scripts /\ op'.at = next /\ op'.started /\ op'.stopped = op.stopped
        /\ Same(op', op) /\ SameCopy(op', op) /\ SameTrouble(op', op)
    <3>1. next \in Steps BY DEF Steps
    <3> QED BY <1>2, <1>9, <3>1, Started
  <2>2. DataInv' /\ MomentsInv' /\ PruneInv' /\ Copying' BY <1>1, <1>5, <1>7, <2>1, OpStep DEF SameCopy
  <2>3. StepInv'
    BY <1>1, <1>3, <2>1 DEF BackupInv, StepInv, Copying, InOrder, Same, SameCopy, SameFlags, SameTrouble, Creating, Restoring
  <2>4. QuietInv' BY <1>3, <1>7, <2>1 DEF QuietInv, SameCopy
  <2>5. ~op'.stopped BY <1>3, <2>1
  <2>6. RunningInv' BY <1>1, <1>7, <2>1, <2>5 DEF RunningInv, Same
  <2> QED BY <2>2, <2>3, <2>4, <2>6 DEF BackupInv
<1>10. CASE Fails("start database", cleanup)
  <2>1. /\ op' \in Scripts /\ op'.at = cleanup /\ Same(op', op) /\ SameFlags(op', op) /\ SameCopy(op', op)
        /\ op'.failed /\ op'.trouble = op.trouble \cup {"start database"}
    <3>1. cleanup \in Steps /\ "start database" \in Commands BY DEF Steps, Commands
    <3> QED BY <1>2, <1>10, <3>1, FailsSteps
  <2>2. DataInv' /\ MomentsInv' /\ PruneInv' /\ Copying' BY <1>1, <1>5, <1>7, <2>1, OpStep DEF SameCopy
  <2>3. StepInv'
    BY <1>1, <1>3, <2>1 DEF BackupInv, StepInv, Copying, InOrder, Same, SameCopy, SameFlags, Creating, Restoring
  <2>4. QuietInv' BY <2>1 DEF QuietInv, InOrder
  <2>5. RunningInv' BY <1>1, <1>7, <2>1 DEF RunningInv, Same
  <2> QED BY <2>2, <2>3, <2>4, <2>5 DEF BackupInv
<1> QED BY <1>1, <1>8, <1>9, <1>10 DEF StartDatabase

\* A command of create or restore fails: the cleanup follows, and nobody's data
\* has changed.
LEMMA FailureKeepsInv ==
  ASSUME BackupInv, Copying, op.at # "replace", NEW command \in Commands, NEW cleanup \in Steps,
         Fails(command, cleanup),
         cleanup = IF op.kind = "create" THEN "cleanup" ELSE "finally",
         running' \subseteq op.was \cup {Database}, running' \subseteq Services,
         Database \in running' \ op.was /\ ~(Database \in running \ op.was) =>
           command \in {"start database", "stop database"},
         op.at \notin {"restart", "end"},
         op.started /\ ~op.stopped => op'.started /\ ~op'.stopped,
         UNCHANGED <<data, snapshots, history, counters>>
  PROVE  BackupInv'
<1>1. op \in Scripts BY InScript DEF Copying
<1>2. /\ op' \in Scripts /\ op'.at = cleanup /\ Same(op', op) /\ SameFlags(op', op) /\ SameCopy(op', op)
      /\ op'.failed /\ op'.trouble = op.trouble \cup {command}
  BY <1>1, FailsSteps
<1>3. DataInv' /\ MomentsInv' /\ PruneInv' /\ Copying' BY <1>2, OpStep DEF SameCopy
<1>4. StepInv'
  BY <1>2 DEF BackupInv, StepInv, Copying, InOrder, Same, SameCopy, Creating, Restoring
<1>5. QuietInv' BY <1>2 DEF QuietInv, InOrder
<1>6. RunningInv' BY <1>2 DEF BackupInv, RunningInv, Same
<1> QED BY <1>3, <1>4, <1>5, <1>6 DEF BackupInv

\* One part is copied while nobody writes.
LEMMA CopyKeepsInv ==
  ASSUME BackupInv, NEW part \in Parts, (Dump /\ part = Database) \/ (part \in Volumes /\ Archive(part))
  PROVE  BackupInv'
<1>1. PICK next \in {"stop database", "archive"} :
        /\ op.kind = "create" /\ op.at \in {"dump", "archive"} /\ Copy(part, next)
        /\ op.at = "dump" => next = "stop database" /\ part = Database
        /\ op.at = "archive" => next = "archive"
        /\ UNCHANGED <<running, data, snapshots, history, counters>>
  BY DEF Dump, Archive, At
<1>2. op \in Scripts /\ Copying BY <1>1, InScript DEF Copying
<1>3. /\ ~op.failed /\ op.victims = {} /\ (op.at = "dump" => op.done = {} /\ ~op.stopped)
      /\ op.at = "archive" => Database \in op.done
  BY <1>1, <1>2 DEF BackupInv, StepInv, InOrder, Copying
<1>4. running \subseteq Services /\ data[part] \in Values
  BY DEF BackupInv, DataInv, Values
<1>5. ~Live /\ \A p \in op.done : op.copy[p] = data[p]
  BY <1>1, <1>2, <1>3 DEF BackupInv, QuietInv, InOrder
<1>6. CASE op' = [op EXCEPT !.at = next, !.copy[part] = data[part], !.done = @ \cup {part}]
  <2>1. op' = CopyOf(op, next, part, data[part]) BY <1>6 DEF CopyOf
  <2>2. /\ op' \in Scripts /\ op'.at = next /\ op'.done = op.done \cup {part}
        /\ op'.copy[part] = data[part] /\ \A p \in Parts \ {part} : op'.copy[p] = op.copy[p]
        /\ Same(op', op) /\ SameFlags(op', op) /\ SameTrouble(op', op)
    <3>1. next \in Steps BY DEF Steps
    <3>2. op \in Scripts BY <1>2
    <3> DEFINE v == data[part]
    <3>3. v \in Values /\ op' = CopyOf(op, next, part, v) BY <1>4, <2>1
    <3> HIDE DEF v
    <3>4. IsCopied(op', op, next, part, v) BY <3>1, <3>2, <3>3, Copied
    <3> QED BY <3>4 DEF v, IsCopied
  <2>3. DataInv' /\ MomentsInv' /\ PruneInv' /\ Copying' BY <1>1, <1>2, <1>4, <2>2, OpStep
  <2>4. StepInv'
    BY <1>1, <1>3, <2>2 DEF StepInv, Copying, InOrder, Same, SameFlags, SameTrouble, Creating
  <2>5. QuietInv'
    <3>1. \A p \in op'.done : op'.copy[p] = data[p] BY <1>2, <1>5, <2>2, Fields
    <3> QED BY <1>1, <1>5, <3>1 DEF QuietInv, Live
  <2>6. RunningInv' BY <1>1, <1>2, <2>2 DEF BackupInv, RunningInv, Same, SameFlags, SameTrouble
  <2> QED BY <2>3, <2>4, <2>5, <2>6 DEF BackupInv
<1>7. CASE Fails("copy", "cleanup")
  <2>1. "copy" \in Commands /\ "cleanup" \in Steps BY DEF Commands, Steps
  <2>2. SameFlags(op', op) BY <1>2, <1>7, <2>1, FailsSteps
  <2>3. running' \subseteq op.was \cup {Database} BY <1>1, <1>2 DEF BackupInv, RunningInv
  <2> QED BY <1>1, <1>2, <1>4, <1>7, <2>1, <2>2, <2>3, FailureKeepsInv DEF SameFlags
<1> QED BY <1>1, <1>6, <1>7 DEF Copy

LEMMA StopDatabaseKeepsInv == ASSUME BackupInv, StopDatabase PROVE BackupInv'
<1>1. /\ op.kind = "create" /\ op.at = "stop database"
      /\ UNCHANGED <<data, snapshots, history, counters>>
  BY DEF StopDatabase, At
<1>2. op \in Scripts /\ Copying BY <1>1, InScript DEF Copying
<1>3. ~op.failed /\ op.victims = {} /\ op.done = {Database}
  BY <1>1, <1>2 DEF BackupInv, StepInv, InOrder
<1>4. running \subseteq Services /\ running \subseteq op.was \cup {Database}
  BY <1>2 DEF BackupInv, DataInv, RunningInv
<1>5. ~Live /\ \A p \in op.done : op.copy[p] = data[p]
  BY <1>1, <1>2, <1>3 DEF BackupInv, QuietInv, InOrder
<1>6. CASE running' = running \ {Database} /\ op' = [op EXCEPT !.at = "archive", !.stopped = TRUE]
  <2>1. /\ op' \in Scripts /\ op'.at = "archive" /\ op'.stopped /\ op'.started = op.started
        /\ Same(op', op) /\ SameCopy(op', op) /\ SameTrouble(op', op)
    <3>1. "archive" \in Steps BY DEF Steps
    <3> QED BY <1>2, <1>6, <3>1, Started
  <2>2. DataInv' /\ MomentsInv' /\ PruneInv' /\ Copying' BY <1>1, <1>2, <1>4, <1>6, <2>1, OpStep
  <2>3. StepInv' BY <1>1, <1>3, <2>1 DEF StepInv, Copying, InOrder, Same, SameCopy, SameTrouble, Creating
  <2>4. QuietInv' BY <1>1, <1>5, <1>6, <2>1 DEF QuietInv, Live, SameCopy
  <2>5. RunningInv' BY <1>4, <1>6, <2>1 DEF RunningInv, Same
  <2> QED BY <2>2, <2>3, <2>4, <2>5 DEF BackupInv
<1>7. CASE running' \in {running, running \ {Database}} /\ Fails("stop database", "cleanup")
  <2>1. "stop database" \in Commands /\ "cleanup" \in Steps BY DEF Commands, Steps
  <2>2. SameFlags(op', op) BY <1>2, <1>7, <2>1, FailsSteps
  <2> QED BY <1>1, <1>2, <1>4, <1>7, <2>1, <2>2, FailureKeepsInv DEF SameFlags
<1> QED BY <1>6, <1>7 DEF StopDatabase

\* The snapshot that gets its name is the data of that moment.
LEMMA PublishedCopy ==
  ASSUME BackupInv, Publish
  PROVE  op.copy = data /\ op.copy \in [Parts -> Versions \cup {Torn}] /\ op \in Scripts /\ Copying /\ ~op.failed
<1>1. op.kind = "create" /\ op.at = "archive" /\ op.done = Parts BY DEF Publish, At
<1>2. op \in Scripts /\ Copying BY <1>1, InScript DEF Copying
<1>3. ~op.failed BY <1>1, <1>2 DEF BackupInv, StepInv
<1>4. \A p \in Parts : op.copy[p] = data[p] BY <1>1, <1>2, <1>3 DEF BackupInv, QuietInv, InOrder
<1>5. op.copy \in [Parts -> Values] BY <1>2, Fields
<1>6. data \in [Parts -> Versions \cup {Torn}] BY DEF BackupInv, DataInv
<1>7. op.copy = data BY <1>4, <1>5, <1>6
<1> QED BY <1>2, <1>3, <1>6, <1>7

LEMMA PublishKeepsInv == ASSUME BackupInv, Publish PROVE BackupInv'
<1>1. /\ op.kind = "create" /\ op.at = "archive" /\ op.done = Parts
      /\ UNCHANGED <<running, data, history, counters>>
  BY DEF Publish, At
<1>2. op \in Scripts /\ Copying /\ ~op.failed /\ op # Idle /\ scripts > 0
  BY <1>1, PublishedCopy, InScript
<1>3. op.victims = {} /\ Database \in op.done BY <1>1, <1>2 DEF BackupInv, StepInv, InOrder
<1>4. running \subseteq Services /\ running \subseteq op.was \cup {Database}
  BY <1>2 DEF BackupInv, DataInv, RunningInv
<1>5. CASE snapshots' = Published /\ Goto("finally")
  <2>1. /\ op' \in Scripts /\ op'.at = "finally" /\ Same(op', op) /\ SameFlags(op', op) /\ SameCopy(op', op)
        /\ SameTrouble(op', op)
    <3>1. "finally" \in Steps BY DEF Steps
    <3> QED BY <1>2, <1>5, <3>1, SetAt DEF Goto
  <2>2. Copying' /\ op'.kind = "create" /\ op' # Idle BY <1>1, <2>1 DEF Copying, Same, Idle
  <2>3. scripts \in 1..MaxScripts /\ scripts \in 0..MaxScripts
    BY <1>2, BoundsAssumption, SMT DEF BackupInv, DataInv
  <2>4. /\ DOMAIN snapshots' = DOMAIN snapshots \cup {scripts}
        /\ \A s \in DOMAIN snapshots' : snapshots'[s] = IF s = scripts THEN op.copy ELSE snapshots[s]
        /\ snapshots' = [s \in DOMAIN snapshots' |-> snapshots'[s]]
    BY <1>5 DEF Published
  <2>5. DataInv'
    <3>1. op.copy \in [Parts -> Values] BY <1>2, Fields
    <3>2. snapshots' \in [DOMAIN snapshots' -> [Parts -> Values]]
      BY <2>4, <3>1 DEF BackupInv, DataInv
    <3> QED BY <1>1, <1>2, <2>1, <2>3, <2>4, <3>2
        DEF BackupInv, DataInv, Versions, Values, Scripts, history, counters
  <2>6. MomentsInv'
    <3> SUFFICES ASSUME ~mixed
                 PROVE  data \in moments /\ \A s \in Intact' : snapshots'[s] \in moments
      BY <1>1, <2>2 DEF MomentsInv, history
    <3>1. data \in moments /\ \A s \in Intact : snapshots[s] \in moments
      BY <1>1 DEF BackupInv, MomentsInv
    <3>2. ASSUME NEW s \in Intact', s # scripts PROVE s \in Intact /\ snapshots'[s] = snapshots[s]
      BY <2>4, <3>2 DEF Intact
    <3>3. op.copy = data BY PublishedCopy
    <3>4. \A s \in Intact' : s = scripts => snapshots'[s] = data BY <2>4, <3>3 DEF Intact
    <3> QED BY <3>1, <3>2, <3>4
  <2>7. PruneInv' BY <2>2 DEF PruneInv
  <2>8. StepInv' BY <1>1, <1>2, <1>3, <2>1 DEF StepInv, Copying, InOrder, Same, SameCopy, SameTrouble, Creating
  <2>9. QuietInv'
    <3>1. ~Live /\ \A p \in op.done : op.copy[p] = data[p]
      BY <1>1, <1>2 DEF BackupInv, QuietInv, InOrder
    <3> QED BY <1>1, <2>1, <3>1 DEF QuietInv, Live, SameCopy
  <2>10. RunningInv' BY <1>1, <1>2, <2>1 DEF BackupInv, RunningInv, Same, SameFlags, SameTrouble
  <2> QED BY <2>5, <2>6, <2>7, <2>8, <2>9, <2>10 DEF BackupInv
<1>6. CASE Fails("publish", "cleanup") /\ UNCHANGED snapshots
  <2>1. "publish" \in Commands /\ "cleanup" \in Steps BY DEF Commands, Steps
  <2>2. SameFlags(op', op) BY <1>2, <1>6, <2>1, FailsSteps
  <2> QED BY <1>1, <1>2, <1>4, <1>6, <2>1, <2>2, FailureKeepsInv DEF SameFlags
<1> QED BY <1>5, <1>6 DEF Publish

LEMMA CleanupKeepsInv == ASSUME BackupInv, Cleanup PROVE BackupInv'
<1>1. /\ op.kind = "create" /\ op.at = "cleanup" /\ Goto("finally")
      /\ UNCHANGED <<running, data, snapshots, history, counters>>
  BY DEF Cleanup, At
<1>2. op \in Scripts /\ Copying BY <1>1, InScript DEF Copying
<1>3. op.failed /\ op.victims = {} BY <1>1, <1>2 DEF BackupInv, StepInv
<1>4. /\ op' \in Scripts /\ op'.at = "finally" /\ Same(op', op) /\ SameFlags(op', op) /\ SameCopy(op', op)
      /\ SameTrouble(op', op)
  <2>1. "finally" \in Steps BY DEF Steps
  <2> QED BY <1>1, <1>2, <2>1, SetAt DEF Goto
<1>5. running' \subseteq Services BY <1>1 DEF BackupInv, DataInv
<1>6. DataInv' /\ MomentsInv' /\ PruneInv' BY <1>1, <1>2, <1>4, <1>5, OpStep
<1>7. StepInv' BY <1>1, <1>3, <1>4 DEF StepInv, Copying, InOrder, Same, SameTrouble, Creating
<1>8. QuietInv' BY <1>3, <1>4 DEF QuietInv, InOrder, SameTrouble
<1>9. RunningInv' BY <1>1, <1>2, <1>4 DEF BackupInv, RunningInv, Same, SameFlags, SameTrouble
<1> QED BY <1>6, <1>7, <1>8, <1>9 DEF BackupInv

LEMMA StopStartedKeepsInv == ASSUME BackupInv, StopStarted PROVE BackupInv'
<1>1. /\ Copying /\ op.at = "finally" /\ running' \in {running, running \ {Database}}
      /\ UNCHANGED <<data, snapshots, history, counters>>
      /\ op.started /\ ~op.stopped => running' = running \ {Database} \/ StillFails("stop database", "restart")
      /\ Goto("restart") \/ StillFails("stop database", "restart")
  BY DEF StopStarted, Copying, StillFails
<1>2. op \in Scripts BY <1>1, InScript DEF Copying
<1>3. op.victims = {} BY <1>1 DEF BackupInv, StepInv
<1>4. /\ op' \in Scripts /\ op'.at = "restart" /\ Same(op', op) /\ SameCopy(op', op) /\ op'.failed = op.failed
      /\ op.trouble \subseteq op'.trouble
      /\ op.started /\ ~op.stopped => running' = running \ {Database} \/ "stop database" \in op'.trouble
  <2>1. "restart" \in Steps /\ "stop database" \in Commands BY DEF Steps, Commands
  <2>2. CASE StillFails("stop database", "restart")
    <3>1. op' \in Scripts /\ op'.at = "restart" /\ op'.trouble = op.trouble \cup {"stop database"}
            /\ op'.failed = op.failed /\ Same(op', op) /\ SameFlags(op', op) /\ SameCopy(op', op)
      BY <1>2, <2>1, <2>2, StillFailsSteps
    <3> QED BY <3>1
  <2>3. CASE Goto("restart") /\ ~StillFails("stop database", "restart")
    <3>1. /\ op' \in Scripts /\ op'.at = "restart" /\ Same(op', op) /\ SameFlags(op', op) /\ SameCopy(op', op)
          /\ SameTrouble(op', op)
      BY <1>2, <2>1, <2>3, SetAt DEF Goto
    <3> QED BY <1>1, <2>3, <3>1 DEF SameTrouble
  <2> QED BY <1>1, <2>2, <2>3
<1>5. running' \subseteq Services BY <1>1 DEF BackupInv, DataInv
<1>6. DataInv' /\ MomentsInv' /\ PruneInv' BY <1>1, <1>4, <1>5, OpStep DEF SameCopy
<1>7. StepInv'
  BY <1>1, <1>3, <1>4 DEF BackupInv, StepInv, Copying, InOrder, Same, SameCopy, Creating, Restoring
<1>8. QuietInv' BY <1>1, <1>4 DEF BackupInv, QuietInv, InOrder, Live, Copying, Same, SameCopy
<1>9. RunningInv' BY <1>1, <1>4 DEF BackupInv, RunningInv, Copying, Same
<1> QED BY <1>6, <1>7, <1>8, <1>9 DEF BackupInv

LEMMA RestartKeepsInv == ASSUME BackupInv, Restart PROVE BackupInv'
<1>1. /\ Copying /\ op.at = "restart" /\ UNCHANGED <<data, snapshots, history, counters>>
      /\ \/ running' = running \cup op.was /\ Goto("end")
         \/ (\E some \in SUBSET op.was : running' = running \cup some) /\ Fails("restart", "end")
  BY DEF Restart, Copying
<1>2. op \in Scripts BY <1>1, InScript DEF Copying
<1>3. op.victims = {} BY <1>1 DEF BackupInv, StepInv
<1>4. /\ op' \in Scripts /\ op'.at = "end" /\ Same(op', op) /\ SameCopy(op', op) /\ op.trouble \subseteq op'.trouble
      /\ "restart" \notin op'.trouble => op.was \subseteq running'
      /\ op'.failed \in BOOLEAN
  <2>1. "end" \in Steps /\ "restart" \in Commands BY DEF Steps, Commands
  <2>2. CASE running' = running \cup op.was /\ Goto("end")
    <3>1. op' \in Scripts /\ op'.at = "end" /\ Same(op', op) /\ SameCopy(op', op) /\ SameTrouble(op', op)
      BY <1>2, <2>1, <2>2, SetAt DEF Goto
    <3> QED BY <2>2, <3>1, Fields DEF SameTrouble
  <2>3. CASE Fails("restart", "end")
    <3>1. /\ op' \in Scripts /\ op'.at = "end" /\ Same(op', op) /\ SameCopy(op', op)
          /\ op'.trouble = op.trouble \cup {"restart"}
      BY <1>2, <2>1, <2>3, FailsSteps
    <3> QED BY <3>1, Fields
  <2> QED BY <1>1, <2>2, <2>3
<1>5. op.was \subseteq Services BY <1>2, Fields
<1>6. running' \subseteq Services /\ running' \subseteq running \cup op.was /\ running \subseteq running'
  BY <1>1, <1>5 DEF BackupInv, DataInv
<1>7. DataInv' /\ MomentsInv' /\ PruneInv' BY <1>1, <1>4, <1>6, OpStep DEF SameCopy
<1>8. StepInv'
  BY <1>1, <1>3, <1>4 DEF BackupInv, StepInv, Copying, InOrder, Same, SameCopy, Creating, Restoring
<1>9. QuietInv' BY <1>4 DEF QuietInv
<1>10. RunningInv' BY <1>1, <1>4, <1>6 DEF BackupInv, RunningInv, Copying, Same
<1> QED BY <1>7, <1>8, <1>9, <1>10 DEF BackupInv
-----------------------------------------------------------------------------
(* The beginning and the end of a script, and what happens in between.      *)

\* Without a script the data are a moment of the product, unless a restore
\* stopped halfway.
LEMMA IdleStep ==
  ASSUME op' = Idle, DataInv',
         ~mixed' => data' \in moments' /\ \A s \in Intact' : snapshots'[s] \in moments'
  PROVE  BackupInv'
<1>1. op'.kind = "none" BY DEF Idle
<1>2. StepInv' /\ QuietInv' /\ RunningInv' /\ PruneInv'
  BY <1>1 DEF StepInv, QuietInv, RunningInv, PruneInv, InOrder, Copying
<1>3. MomentsInv' BY <1>1 DEF MomentsInv
<1> QED BY <1>2, <1>3 DEF BackupInv

LEMMA EndKeepsInv == ASSUME BackupInv, End PROVE BackupInv'
<1>1. op.at = "end" /\ op' = Idle /\ UNCHANGED <<running, data, snapshots, history, counters>>
  BY DEF End
<1>2. DataInv' BY <1>1 DEF BackupInv, DataInv, Versions, Values, Scripts, history, counters
<1>3. ~mixed' => data' \in moments' /\ \A s \in Intact' : snapshots'[s] \in moments'
  BY <1>1 DEF BackupInv, MomentsInv, Intact, history
<1> QED BY <1>1, <1>2, <1>3, IdleStep

LEMMA WriteKeepsInv == ASSUME BackupInv, NEW part \in Parts, Write(part) PROVE BackupInv'
<1>1. /\ Live /\ writes < MaxWrites /\ writes' = writes + 1
      /\ data' = [data EXCEPT ![part] = writes' + 1]
      /\ moments' = IF data \in moments THEN moments \cup {data'} ELSE moments
      /\ UNCHANGED <<running, snapshots, op, mixed, scripts, faults>>
  BY DEF Write
<1>2. writes' \in 0..MaxWrites /\ writes' + 1 \in Versions
  BY <1>1, BoundsAssumption, SMT DEF BackupInv, DataInv, Versions
<1>3. data' \in [Parts -> Versions \cup {Torn}] BY <1>1, <1>2 DEF BackupInv, DataInv
<1>4. moments' \subseteq [Parts -> Versions]
  <2>1. data \in moments => data' \in [Parts -> Versions]
    <3> SUFFICES ASSUME data \in moments PROVE data' \in [Parts -> Versions] OBVIOUS
    <3>1. data \in [Parts -> Versions] BY DEF BackupInv, DataInv
    <3> QED BY <1>1, <1>2, <3>1
  <2> QED BY <1>1, <2>1 DEF BackupInv, DataInv
<1>5. DataInv' BY <1>1, <1>2, <1>3, <1>4 DEF BackupInv, DataInv, Values, Versions, Scripts
<1>6. Intact' = Intact BY <1>1 DEF Intact
<1>7. StepInv' /\ RunningInv' BY <1>1 DEF BackupInv, StepInv, RunningInv, InOrder, Copying
<1>8. PruneInv' BY <1>1, <1>6 DEF BackupInv, PruneInv, Newer
<1>9. QuietInv' BY <1>1 DEF BackupInv, QuietInv, InOrder, Copying, Live
<1>10. MomentsInv'
  <2> SUFFICES ASSUME ~mixed
               PROVE  /\ data' \in moments'
                      /\ \A s \in Intact : snapshots[s] \in moments'
                      /\ op.kind = "restore" => op.copy \in moments'
    BY <1>1, <1>6 DEF MomentsInv
  <2>1. ~(op.kind = "restore" /\ op.at = "replace")
    BY <1>1 DEF BackupInv, StepInv, QuietInv, InOrder, Copying
  <2>2. /\ data \in moments
        /\ \A s \in Intact : snapshots[s] \in moments
        /\ op.kind = "restore" => op.copy \in moments
    BY <2>1 DEF BackupInv, MomentsInv
  <2> QED BY <1>1, <2>2
<1> QED BY <1>5, <1>7, <1>8, <1>9, <1>10 DEF BackupInv

\* What a script starts from.
LEMMA NewScript ==
  ASSUME BackupInv, NEW kind \in {"create", "restore", "prune"}, NEW at \in Steps
  PROVE  LET n == Script(kind, at) IN
         /\ n \in Scripts /\ n.kind = kind /\ n.at = at /\ n.was = running
         /\ ~n.started /\ ~n.stopped /\ ~n.failed /\ n.trouble = {} /\ n.copy = NoCopy
         /\ n.done = {} /\ n.victims = {}
<1>1. NoCopy \in [Parts -> Values] BY DEF NoCopy, Values
<1>2. running \subseteq Services BY DEF BackupInv, DataInv
<1> QED BY <1>1, <1>2 DEF Script, Scripts

LEMMA BeginStep ==
  ASSUME BackupInv, NEW script \in Scripts, Begin(script)
  PROVE  /\ op = Idle /\ op' = script /\ DataInv' /\ Intact' = Intact
         /\ UNCHANGED <<running, data, snapshots, history>>
         /\ ~mixed => data \in moments /\ \A s \in Intact : snapshots[s] \in moments
<1>1. /\ op = Idle /\ op' = script /\ scripts < MaxScripts /\ scripts' = scripts + 1
      /\ UNCHANGED <<running, data, snapshots, history, writes, faults>>
  BY DEF Begin
<1>2. scripts' \in 0..MaxScripts /\ scripts' > 0 BY <1>1, BoundsAssumption, SMT DEF BackupInv, DataInv
<1>3. op.kind = "none" BY <1>1 DEF Idle
<1>4. DataInv' BY <1>1, <1>2 DEF BackupInv, DataInv, Versions, Values, Scripts, history
<1>5. Intact' = Intact BY <1>1 DEF Intact
<1> QED BY <1>1, <1>3, <1>4, <1>5 DEF BackupInv, MomentsInv

LEMMA CreateKeepsInv == ASSUME BackupInv, Create PROVE BackupInv'
<1> DEFINE n == Script("create", "stop")
<1>1. /\ n \in Scripts /\ n.kind = "create" /\ n.at = "stop" /\ n.was = running
      /\ ~n.started /\ ~n.stopped /\ ~n.failed /\ n.done = {} /\ n.victims = {}
  <2>1. "stop" \in Steps BY DEF Steps
  <2> QED BY <2>1, NewScript
<1>2. Begin(n) BY DEF Create
<1> HIDE DEF n
<1>3. /\ op' = n /\ DataInv' /\ UNCHANGED <<running, data, snapshots, history>> /\ Intact' = Intact
      /\ ~mixed => data \in moments /\ \A s \in Intact : snapshots[s] \in moments
  BY <1>1, <1>2, BeginStep
<1>4. StepInv' BY <1>1, <1>3 DEF StepInv, Copying, InOrder, Creating
<1>5. QuietInv' BY <1>1, <1>3 DEF QuietInv
<1>6. MomentsInv' BY <1>1, <1>3 DEF MomentsInv, history
<1>7. RunningInv' BY <1>1, <1>3 DEF RunningInv
<1>8. PruneInv' BY <1>1, <1>3 DEF PruneInv
<1> QED BY <1>3, <1>4, <1>5, <1>6, <1>7, <1>8 DEF BackupInv

LEMMA RestoreKeepsInv == ASSUME BackupInv, NEW s \in DOMAIN snapshots, Restore(s) PROVE BackupInv'
<1> DEFINE r == Script("restore", "stop")
           n == [r EXCEPT !.copy = snapshots[s]]
<1>1. /\ r \in Scripts /\ r.kind = "restore" /\ r.at = "stop" /\ r.was = running
      /\ ~r.started /\ ~r.stopped /\ ~r.failed /\ r.done = {} /\ r.victims = {}
  <2>1. "stop" \in Steps BY DEF Steps
  <2> QED BY <2>1, NewScript
<1>2. s \in Intact /\ Begin(n) BY DEF Restore
<1> HIDE DEF r
<1>3. snapshots[s] \in [Parts -> Values] BY DEF BackupInv, DataInv
<1>4. /\ n \in Scripts /\ n.copy = snapshots[s] /\ n.done = r.done /\ n.at = r.at
      /\ Same(n, r) /\ SameFlags(n, r) /\ SameTrouble(n, r)
  BY <1>1, <1>3, SetCopy
<1> HIDE DEF n
<1>5. /\ n.kind = "restore" /\ n.at = "stop" /\ n.was = running
      /\ ~n.started /\ ~n.stopped /\ ~n.failed /\ n.done = {} /\ n.victims = {}
  BY <1>1, <1>4 DEF Same, SameFlags, SameTrouble
<1>6. /\ op' = n /\ DataInv' /\ UNCHANGED <<running, data, snapshots, history>> /\ Intact' = Intact
      /\ ~mixed => data \in moments /\ \A q \in Intact : snapshots[q] \in moments
  BY <1>2, <1>4, BeginStep
<1>7. StepInv'
  <2>1. Missing \notin Range(n.copy) /\ {} # Parts BY <1>2, <1>4 DEF Intact, Parts
  <2> QED BY <1>5, <1>6, <2>1 DEF StepInv, Copying, InOrder, Restoring
<1>8. QuietInv' BY <1>5, <1>6 DEF QuietInv
<1>9. MomentsInv' BY <1>2, <1>4, <1>6 DEF MomentsInv, history
<1>10. RunningInv' BY <1>5, <1>6 DEF RunningInv
<1>11. PruneInv' BY <1>5, <1>6 DEF PruneInv
<1> QED BY <1>6, <1>7, <1>8, <1>9, <1>10, <1>11 DEF BackupInv

\* The snapshots that verify are finitely many.
LEMMA IntactIsFinite ==
  ASSUME BackupInv, NEW S \in SUBSET Intact
  PROVE  S \subseteq 1..MaxScripts /\ IsFiniteSet(S) /\ Cardinality(S) \in Nat
<1>1. S \subseteq 1..MaxScripts BY DEF BackupInv, DataInv, Intact
<1>2. IsFiniteSet(1..MaxScripts) BY BoundsAssumption, FS_Interval
<1>3. IsFiniteSet(S) BY <1>1, <1>2, FS_Subset
<1> QED BY <1>1, <1>3, FS_CardinalityType

LEMMA PruneKeepsInv == ASSUME BackupInv, Prune PROVE BackupInv'
<1> DEFINE r == Script("prune", "delete")
           n == [r EXCEPT !.victims = Victims]
<1>1. /\ r \in Scripts /\ r.kind = "prune" /\ r.at = "delete"
  <2>1. "delete" \in Steps BY DEF Steps
  <2> QED BY <2>1, NewScript
<1>2. Victims # {} /\ Begin(n) BY DEF Prune
<1> HIDE DEF r
<1>3. Victims \subseteq Intact BY DEF Victims
<1>4. /\ n \in Scripts /\ n.victims = Victims /\ n.kind = r.kind /\ n.at = r.at
  BY <1>1, <1>3, IntactIsFinite, SMT DEF Scripts
<1> HIDE DEF n
<1>5. /\ op' = n /\ DataInv' /\ UNCHANGED <<running, data, snapshots, history>> /\ Intact' = Intact
      /\ ~mixed => data \in moments /\ \A s \in Intact : snapshots[s] \in moments
  BY <1>2, <1>4, BeginStep
<1>6. StepInv' BY <1>1, <1>4, <1>5 DEF StepInv, Copying, InOrder
<1>7. QuietInv' /\ RunningInv' BY <1>1, <1>4, <1>5 DEF QuietInv, RunningInv, InOrder, Copying
<1>8. MomentsInv' BY <1>1, <1>4, <1>5 DEF MomentsInv, history
<1>9. PruneInv'
  <2>1. ASSUME NEW s \in Victims PROVE Cardinality(Newer(s)) >= Keep
    <3>1. Cardinality(Newer(s)) \in Nat BY IntactIsFinite DEF Newer
    <3>2. ~(Cardinality(Newer(s)) < Keep) BY <2>1 DEF Victims, NewestOf, Newer
    <3> QED BY <3>1, <3>2, KeepAssumption, SMT
  <2>2. \A s : Newer(s)' = Newer(s) BY <1>5 DEF Newer
  <2> QED BY <1>2, <1>3, <1>4, <1>5, <2>1, <2>2 DEF PruneInv
<1> QED BY <1>5, <1>6, <1>7, <1>8, <1>9 DEF BackupInv
-----------------------------------------------------------------------------
(* restore replaces the parts; a fault leaves that part torn.               *)

\* What a restore puts back has no missing part.
LEMMA RestoredParts ==
  ASSUME BackupInv, op.kind = "restore"
  PROVE  op.copy \in [Parts -> Versions \cup {Torn}]
<1>1. op \in Scripts BY InScript
<1>2. op.copy \in [Parts -> Values] BY <1>1, Fields
<1>3. Missing \notin Range(op.copy) BY DEF BackupInv, StepInv
<1>4. \A part \in Parts : op.copy[part] # Missing BY <1>2, <1>3 DEF Range
<1> QED BY <1>2, <1>4 DEF Values

LEMMA ReplaceKeepsInv == ASSUME BackupInv, NEW part \in Parts, Replace(part) PROVE BackupInv'
<1>1. /\ op.kind = "restore" /\ op.at = "replace" /\ part \notin op.done
      /\ UNCHANGED <<running, snapshots, moments, counters>>
  BY DEF Replace, CanReplace, At
<1>2. op \in Scripts /\ Copying /\ scripts > 0 BY <1>1, InScript DEF Copying
<1>3. /\ ~op.failed /\ op.victims = {} /\ Missing \notin Range(op.copy)
      /\ ~Live /\ \A p \in op.done : op.copy[p] = data[p]
      /\ ~mixed => op.copy \in moments /\ (data \in moments \/ op.done # {})
      /\ \A s \in Intact : ~mixed => snapshots[s] \in moments
  BY <1>1, <1>2 DEF BackupInv, StepInv, QuietInv, MomentsInv, InOrder, Copying
<1>4. op.copy \in [Parts -> Versions \cup {Torn}] /\ data \in [Parts -> Versions \cup {Torn}] /\ op.done \subseteq Parts
  BY <1>1, <1>2, RestoredParts, Fields DEF BackupInv, DataInv
<1>5. Intact' = Intact /\ ~Live' BY <1>1, <1>3 DEF Intact, Live
<1>6. ASSUME op' \in Scripts, data' \in [Parts -> Versions \cup {Torn}], mixed' \in BOOLEAN PROVE DataInv'
  BY <1>1, <1>2, <1>6 DEF BackupInv, DataInv, Versions, Values, Scripts, counters
<1>7. CASE /\ UNCHANGED mixed /\ data' = Whole(part)
           /\ op' = [op EXCEPT !.done = @ \cup {part}, !.at = IF op.done \cup {part} = Parts THEN "finally" ELSE @]
  <2>1. op' = ReplaceOf(op, part) BY <1>7 DEF ReplaceOf
  <2>2. /\ op' \in Scripts /\ op'.at = (IF op.done \cup {part} = Parts THEN "finally" ELSE op.at)
        /\ op'.done = op.done \cup {part} /\ op'.copy = op.copy
        /\ Same(op', op) /\ SameFlags(op', op) /\ SameTrouble(op', op)
    BY <1>2, <2>1, Replaced
  <2>3. data' \in [Parts -> Versions \cup {Torn}] /\ \A p \in op'.done : op'.copy[p] = data'[p]
    <3>1. data' = [data EXCEPT ![part] = op.copy[part]] BY <1>7 DEF Whole
    <3>2. data' \in [Parts -> Versions \cup {Torn}] BY <1>4, <3>1
    <3>3. data'[part] = op.copy[part] /\ \A p \in Parts \ {part} : data'[p] = data[p] BY <1>4, <3>1
    <3> QED BY <1>3, <1>4, <2>2, <3>2, <3>3
  <2>4. DataInv' BY <1>6, <1>7, <2>2, <2>3 DEF BackupInv, DataInv
  <2>5. StepInv'
    BY <1>1, <1>3, <2>2 DEF StepInv, Copying, InOrder, Same, SameFlags, SameTrouble, Restoring
  <2>6. QuietInv' BY <1>5, <2>3 DEF QuietInv
  <2>7. MomentsInv'
    <3>1. op'.done = Parts => data' = op.copy BY <1>4, <2>2, <2>3
    <3>2. op'.done # Parts => op'.at = "replace" /\ op'.kind = "restore" /\ op'.done # {}
      BY <1>1, <2>2 DEF Same
    <3> QED BY <1>1, <1>3, <1>5, <1>7, <2>2, <3>1, <3>2 DEF MomentsInv
  <2>8. RunningInv'
    <3>1. op'.at \in {"replace", "finally"} BY <1>1, <2>2
    <3> QED BY <1>1, <1>2, <2>2, <3>1 DEF BackupInv, RunningInv, Same, SameFlags, SameTrouble
  <2>9. PruneInv' BY <1>1, <2>2 DEF PruneInv, Same
  <2> QED BY <2>4, <2>5, <2>6, <2>7, <2>8, <2>9 DEF BackupInv
<1>8. CASE /\ data' \in {data, Half(part)} /\ mixed' = (mixed \/ data' # data \/ op.done # {})
           /\ Fails("replace", "finally")
  <2>1. /\ op' \in Scripts /\ op'.at = "finally" /\ Same(op', op) /\ SameFlags(op', op) /\ SameCopy(op', op)
        /\ op'.failed /\ op'.trouble = op.trouble \cup {"replace"}
    <3>1. "replace" \in Commands /\ "finally" \in Steps BY DEF Commands, Steps
    <3> QED BY <1>2, <1>8, <3>1, FailsSteps
  <2>2. data' \in [Parts -> Versions \cup {Torn}] BY <1>4, <1>8 DEF Half
  <2>3. mixed' \in BOOLEAN /\ (~mixed' => ~mixed /\ data' = data /\ op.done = {}) BY <1>8, Zenon
  <2>4. DataInv' BY <1>6, <2>1, <2>2, <2>3
  <2>5. StepInv'
    BY <1>1, <1>3, <2>1 DEF StepInv, Copying, InOrder, Same, SameFlags, SameCopy, Restoring
  <2>6. QuietInv' BY <2>1 DEF QuietInv, InOrder
  <2>7. MomentsInv' BY <1>1, <1>3, <1>5, <2>1, <2>3 DEF MomentsInv, SameCopy
  <2>8. RunningInv' BY <1>1, <1>2, <2>1 DEF BackupInv, RunningInv, Same, SameFlags
  <2>9. PruneInv' BY <1>1, <2>1 DEF PruneInv, Same
  <2> QED BY <2>4, <2>5, <2>6, <2>7, <2>8, <2>9 DEF BackupInv
<1> QED BY <1>7, <1>8 DEF Replace
-----------------------------------------------------------------------------
(* Snapshots are deleted and damaged, scripts are killed.                   *)

\* A finite set of numbers has a greatest one: its newer ones are the fewest.
LEMMA Greatest ==
  ASSUME NEW n \in Nat, NEW S \in SUBSET (1..n), S # {}
  PROVE  Max(S) \in S /\ \A t \in S : t <= Max(S)
<1> DEFINE Above(s) == {t \in S : t > s}
           T == {Above(s) : s \in S}
<1>1. IsFiniteSet(S)
  <2>1. IsFiniteSet(1..n) BY FS_Interval
  <2> QED BY <2>1, FS_Subset
<1>2. FiniteSubsetsOf(S) = SUBSET S BY <1>1, FS_FiniteSubsetsOfFinite
<1>3. IsWellFoundedOn(StrictSubsetOrdering(S), SUBSET S) BY <1>2, FS_StrictSubsetOrderingWellFounded
<1>4. T \subseteq SUBSET S /\ T # {} OBVIOUS
<1>5. PICK least \in T : \A y \in T : <<y, least>> \notin StrictSubsetOrdering(S)
  <2> HIDE DEF T
  <2> QED BY <1>3, <1>4, WFMin
<1>6. PICK s \in S : least = Above(s) BY <1>5
<1>7. \A t \in S : s >= t
  <2> SUFFICES ASSUME NEW t \in S, t > s PROVE FALSE BY <1>6, SMT
  <2>1. Above(t) \subseteq Above(s) /\ t \in Above(s) /\ t \notin Above(t)
    <3>1. t \in Int /\ s \in Int /\ t > s /\ ~(t > t) OBVIOUS
    <3>2. ASSUME NEW u \in S, u > t PROVE u > s
      <4>1. u \in Int OBVIOUS
      <4> QED BY <3>1, <3>2, <4>1, SMT
    <3> QED BY <3>1, <3>2
  <2>2. Above(t) \subseteq S /\ Above(s) \subseteq S /\ Above(t) # Above(s) BY <2>1
  <2> HIDE DEF Above
  <2>3. <<Above(t), Above(s)>> \in StrictSubsetOrdering(S) BY <2>1, <2>2 DEF StrictSubsetOrdering
  <2> QED BY <1>5, <1>6, <2>3
<1>8. Max(S) \in S /\ \A t \in S : Max(S) >= t BY <1>7 DEF Max
<1> QED BY <1>8, SMT

LEMMA Damage ==
  ASSUME BackupInv, NEW s \in DOMAIN snapshots, Damaged(s)
  PROVE  /\ DOMAIN snapshots' = DOMAIN snapshots
         /\ snapshots' \in [DOMAIN snapshots' -> [Parts -> Values]]
         /\ Intact' = Intact \ {s} /\ \A t \in Intact' : snapshots'[t] = snapshots[t]
<1>1. PICK part \in Parts : snapshots' = [snapshots EXCEPT ![s][part] = Missing] BY DEF Damaged
<1>2. snapshots \in [DOMAIN snapshots -> [Parts -> Values]] BY DEF BackupInv, DataInv
<1> DEFINE copy == [snapshots[s] EXCEPT ![part] = Missing]
<1>3. snapshots' = [snapshots EXCEPT ![s] = copy] BY <1>1
<1>4. copy \in [Parts -> Values] /\ copy[part] = Missing BY <1>2 DEF Values
<1> HIDE DEF copy
<1>5. /\ DOMAIN snapshots' = DOMAIN snapshots
      /\ snapshots'[s] = copy /\ \A t \in DOMAIN snapshots \ {s} : snapshots'[t] = snapshots[t]
  BY <1>3
<1>6. snapshots' \in [DOMAIN snapshots -> [Parts -> Values]] BY <1>2, <1>3, <1>4
<1>7. Missing \in Range(copy) BY <1>4 DEF Range
<1>8. Intact' = Intact \ {s} BY <1>5, <1>7 DEF Intact
<1> QED BY <1>5, <1>6, <1>8 DEF Intact

\* What such a script leaves behind.
LEMMA AfterDamage ==
  ASSUME BackupInv, NEW s \in DOMAIN snapshots, Damaged(s), op' = Idle, op.kind # "restore",
         UNCHANGED <<running, data, history, counters>>
  PROVE  BackupInv'
<1>1. /\ DOMAIN snapshots' = DOMAIN snapshots
      /\ snapshots' \in [DOMAIN snapshots' -> [Parts -> Values]]
      /\ Intact' = Intact \ {s} /\ \A t \in Intact' : snapshots'[t] = snapshots[t]
  BY Damage
<1>2. DataInv' BY <1>1 DEF BackupInv, DataInv, Versions, Values, Scripts, history, counters
<1>3. ~mixed' => data' \in moments' /\ \A t \in Intact' : snapshots'[t] \in moments'
  BY <1>1 DEF BackupInv, MomentsInv, history
<1> QED BY <1>2, <1>3, IdleStep

LEMMA DecayKeepsInv == ASSUME BackupInv, NEW s \in DOMAIN snapshots, Decay(s) PROVE BackupInv'
<1>1. /\ op = Idle /\ op' = Idle /\ Damaged(s) /\ UNCHANGED <<running, data, history, counters>>
  BY DEF Decay
<1>2. op.kind # "restore" BY <1>1 DEF Idle
<1> QED BY <1>1, <1>2, AfterDamage

\* The victim that prune deletes next.
LEMMA NextVictim ==
  ASSUME BackupInv, op.kind = "prune"
  PROVE  /\ Max(op.victims) \in op.victims /\ op.victims \subseteq Intact /\ Max(op.victims) \in DOMAIN snapshots
         /\ \A s \in op.victims : s <= Max(op.victims) /\ Cardinality(Newer(s)) >= Keep
<1>1. op.victims # {} /\ op.victims \subseteq Intact /\ \A s \in op.victims : Cardinality(Newer(s)) >= Keep
  BY DEF BackupInv, PruneInv
<1>2. op.victims \subseteq 1..MaxScripts BY <1>1, IntactIsFinite
<1>3. Max(op.victims) \in op.victims /\ \A s \in op.victims : s <= Max(op.victims)
  BY <1>1, <1>2, BoundsAssumption, Greatest
<1> QED BY <1>1, <1>3 DEF Intact

LEMMA DeleteKeepsInv == ASSUME BackupInv, Delete PROVE BackupInv'
<1> DEFINE victim == Max(op.victims)
           rest == op.victims \ {victim}
<1>1. /\ op.kind = "prune" /\ UNCHANGED <<running, data, history, counters>>
      /\ \/ /\ snapshots' = [s \in DOMAIN snapshots \ {victim} |-> snapshots[s]]
            /\ op' = IF rest = {} THEN Idle ELSE [op EXCEPT !.victims = rest]
         \/ Damaged(victim) /\ op' = Idle
  BY DEF Delete
<1>2. /\ victim \in op.victims /\ op.victims \subseteq Intact /\ victim \in DOMAIN snapshots
      /\ \A s \in op.victims : s <= victim /\ Cardinality(Newer(s)) >= Keep
  BY <1>1, NextVictim
<1>3. op \in Scripts /\ scripts > 0 BY <1>1, InScript
<1> HIDE DEF victim
<1>4. CASE Damaged(victim) /\ op' = Idle BY <1>1, <1>2, <1>4, AfterDamage
<1>5. CASE /\ snapshots' = [s \in DOMAIN snapshots \ {victim} |-> snapshots[s]]
           /\ op' = IF rest = {} THEN Idle ELSE [op EXCEPT !.victims = rest]
  <2>1. /\ DOMAIN snapshots' = DOMAIN snapshots \ {victim}
        /\ \A s \in DOMAIN snapshots' : snapshots'[s] = snapshots[s]
    BY <1>5
  <2>2. Intact' = Intact \ {victim} BY <2>1 DEF Intact
  <2>3. snapshots' \in [DOMAIN snapshots' -> [Parts -> Values]] BY <1>5, <2>1 DEF BackupInv, DataInv
  <2>4. ASSUME op' = Idle \/ op' \in Scripts PROVE DataInv'
    BY <1>1, <1>3, <2>1, <2>3, <2>4 DEF BackupInv, DataInv, Versions, Values, Scripts, history, counters
  <2>5. ~mixed => data \in moments /\ \A s \in Intact' : snapshots'[s] \in moments
    BY <1>1, <2>1, <2>2 DEF BackupInv, MomentsInv, Intact
  <2>6. CASE op' = Idle BY <1>1, <2>4, <2>5, <2>6, IdleStep DEF history
  <2>7. CASE rest # {} /\ op' = [op EXCEPT !.victims = rest]
    <3>1. op' \in Scripts /\ op'.kind = "prune" /\ op'.at = op.at /\ op'.victims = rest
      BY <1>1, <1>3, <2>7, SetVictims
    <3>2. StepInv' BY <1>1, <3>1 DEF BackupInv, StepInv, Copying, InOrder
    <3>3. QuietInv' /\ RunningInv' BY <3>1 DEF QuietInv, RunningInv, InOrder, Copying
    <3>4. MomentsInv' BY <1>1, <2>5, <3>1 DEF MomentsInv, history
    <3>5. ASSUME NEW s \in rest PROVE s \in Intact' /\ Cardinality(Newer(s)') >= Keep
      <4>1. s \in op.victims /\ s # victim /\ s \in Intact' BY <1>2, <2>2
      <4>2. Newer(s)' = {t \in Intact' : t > s} BY DEF Newer
      <4>3. Intact' \subseteq Intact /\ Intact \subseteq 1..MaxScripts BY <2>2, IntactIsFinite
      <4>4. victim \in 1..MaxScripts /\ s \in 1..MaxScripts BY <1>2, <4>1, <4>3
      <4>5. Newer(victim) \subseteq Newer(s)'
        <5>1. ASSUME NEW t \in Intact, t > victim PROVE t \in Intact' /\ t > s
          <6>1. t \in 1..MaxScripts /\ s <= victim BY <1>2, <4>1, <4>3
          <6>2. t # victim /\ t > s BY <4>4, <5>1, <6>1, BoundsAssumption, SMT
          <6> QED BY <2>2, <6>2
        <5> QED BY <4>2, <5>1 DEF Newer
      <4>6. IsFiniteSet(Newer(s)') /\ Cardinality(Newer(s)') \in Nat
        BY <4>2, <4>3, IntactIsFinite
      <4>7. Cardinality(Newer(victim)) <= Cardinality(Newer(s)') BY <4>5, <4>6, FS_Subset
      <4>8. Cardinality(Newer(victim)) \in Nat /\ Cardinality(Newer(victim)) >= Keep
        BY <1>2, IntactIsFinite DEF Newer
      <4> QED BY <4>1, <4>6, <4>7, <4>8, KeepAssumption, SMT
    <3>6. PruneInv' BY <2>7, <3>1, <3>5 DEF PruneInv
    <3> QED BY <2>4, <3>1, <3>2, <3>3, <3>4, <3>6 DEF BackupInv
  <2> QED BY <1>5, <2>6, <2>7
<1> QED BY <1>1, <1>4, <1>5

LEMMA KillKeepsInv == ASSUME BackupInv, Kill PROVE BackupInv'
<1>1. /\ op' = Idle /\ op # Idle /\ UNCHANGED <<running, moments, counters>>
      /\ UNCHANGED data \/ \E part \in Parts : CanReplace(part) /\ data' \in {Half(part), Whole(part)}
      /\ mixed' = (mixed \/ (op.kind = "restore" /\ (data' # data \/ op.done \notin {{}, Parts})))
      /\ UNCHANGED snapshots \/ (op.kind = "prune" /\ Damaged(Max(op.victims)))
  BY DEF Kill
<1>2. CASE op.kind = "prune" /\ Damaged(Max(op.victims))
  <2>1. Max(op.victims) \in DOMAIN snapshots BY <1>2, NextVictim
  <2>2. UNCHANGED data BY <1>1, <1>2 DEF CanReplace, At
  <2>3. op.kind # "restore" BY <1>2
  <2>4. mixed' = (mixed \/ FALSE) BY <1>1, <2>3
  <2>5. mixed' = mixed BY <2>4 DEF BackupInv, DataInv
  <2> QED BY <1>1, <1>2, <2>1, <2>2, <2>3, <2>5, AfterDamage DEF history
<1>3. CASE UNCHANGED snapshots
  <2>1. data' # data => op.kind = "restore" /\ op.at = "replace" BY <1>1 DEF CanReplace, At
  <2>2. data' \in [Parts -> Versions \cup {Torn}]
    <3>1. data \in [Parts -> Versions \cup {Torn}] BY DEF BackupInv, DataInv
    <3>2. CASE UNCHANGED data BY <3>1, <3>2
    <3>3. ASSUME NEW part \in Parts, CanReplace(part), data' \in {Half(part), Whole(part)}
          PROVE  data' \in [Parts -> Versions \cup {Torn}]
      <4>1. op.copy[part] \in Versions \cup {Torn} BY <3>3, RestoredParts DEF CanReplace, At
      <4> QED BY <3>1, <3>3, <4>1 DEF Half, Whole
    <3> QED BY <1>1, <3>2, <3>3
  <2>3. mixed' \in BOOLEAN BY <1>1, Zenon
  <2>4. DataInv'
    BY <1>1, <1>3, <2>2, <2>3 DEF BackupInv, DataInv, Versions, Values, Scripts, counters
  <2>5. ~mixed' => data' \in moments' /\ \A s \in Intact' : snapshots'[s] \in moments'
    <3> SUFFICES ASSUME ~mixed' PROVE data' \in moments /\ \A s \in Intact : snapshots[s] \in moments
      BY <1>1, <1>3 DEF Intact
    <3>1. ~mixed /\ (op.kind = "restore" => data' = data /\ op.done \in {{}, Parts}) BY <1>1, Zenon
    <3>2. data' = data BY <2>1, <3>1
    <3>3. op.kind = "restore" /\ op.at = "replace" => op.done = {} BY <3>1 DEF BackupInv, StepInv
    <3> QED BY <3>1, <3>2, <3>3 DEF BackupInv, MomentsInv
  <2> QED BY <1>1, <2>4, <2>5, IdleStep
<1> QED BY <1>1, <1>2, <1>3

LEMMA StutterKeepsInv == ASSUME BackupInv, UNCHANGED vars PROVE BackupInv'
<1>1. UNCHANGED <<running, data, snapshots, op, moments, mixed, writes, scripts, faults>> BY DEF vars
<1>2. Intact' = Intact BY <1>1 DEF Intact
<1>3. DataInv' BY <1>1 DEF BackupInv, DataInv, Versions, Values, Scripts
<1>4. StepInv' /\ RunningInv' BY <1>1 DEF BackupInv, StepInv, RunningInv, InOrder, Copying
<1>5. QuietInv' BY <1>1 DEF BackupInv, QuietInv, InOrder, Copying, Live
<1>6. MomentsInv' BY <1>1, <1>2 DEF BackupInv, MomentsInv
<1>7. PruneInv' BY <1>1, <1>2 DEF BackupInv, PruneInv, Newer
<1> QED BY <1>3, <1>4, <1>5, <1>6, <1>7 DEF BackupInv

LEMMA InitInv == Init => BackupInv
<1> SUFFICES ASSUME Init PROVE BackupInv OBVIOUS
<1>1. op.kind = "none" /\ op = Idle BY DEF Init, Idle
<1>2. 1 \in Versions /\ 0 \in 0..MaxWrites /\ 0 \in 0..MaxScripts BY BoundsAssumption, SMT DEF Versions
<1>3. data \in [Parts -> Versions] /\ moments = {data} BY <1>2 DEF Init
<1>4. DOMAIN snapshots = {} /\ snapshots \in [{} -> [Parts -> Values]] BY DEF Init
<1>5. DataInv BY <1>1, <1>2, <1>3, <1>4 DEF Init, DataInv, Services
<1>6. MomentsInv BY <1>1, <1>3, <1>4 DEF MomentsInv, Intact
<1>7. StepInv /\ QuietInv /\ RunningInv /\ PruneInv
  BY <1>1 DEF StepInv, QuietInv, RunningInv, PruneInv, InOrder, Copying
<1> QED BY <1>5, <1>6, <1>7 DEF BackupInv

LEMMA NextKeepsInv == BackupInv /\ [Next]_vars => BackupInv'
<1> SUFFICES ASSUME BackupInv, [Next]_vars PROVE BackupInv' OBVIOUS
<1>1. CASE \E part \in Parts : Write(part) BY <1>1, WriteKeepsInv
<1>2. CASE CreateStep
  <2>1. CASE CreateStarts BY <2>1, StartDatabaseKeepsInv
  <2>2. CASE Dump
    <3>1. Database \in Parts BY DEF Parts
    <3>2. \A part \in Parts : (Dump /\ part = Database) => BackupInv' BY CopyKeepsInv
    <3> QED BY <2>2, <3>1, <3>2
  <2>3. ASSUME NEW v \in Volumes, Archive(v) PROVE BackupInv'
    <3>1. v \in Parts BY DEF Parts
    <3> QED BY <2>3, <3>1, CopyKeepsInv
  <2> QED BY <1>2, <2>1, <2>2, <2>3, CreateKeepsInv, StopClientsKeepsInv, StopDatabaseKeepsInv, PublishKeepsInv,
             CleanupKeepsInv DEF CreateStep
<1>3. CASE RestoreStep
  BY <1>3, RestoreKeepsInv, StopClientsKeepsInv, StartDatabaseKeepsInv, ReplaceKeepsInv DEF RestoreStep
<1>4. CASE Prune \/ Delete BY <1>4, PruneKeepsInv, DeleteKeepsInv
<1>5. CASE \E s \in DOMAIN snapshots : Decay(s) BY <1>5, DecayKeepsInv
<1>6. CASE StopStarted \/ Restart \/ End BY <1>6, StopStartedKeepsInv, RestartKeepsInv, EndKeepsInv
<1>7. CASE Kill BY <1>7, KillKeepsInv
<1>8. CASE UNCHANGED vars BY <1>8, StutterKeepsInv
<1> QED BY <1>1, <1>2, <1>3, <1>4, <1>5, <1>6, <1>7, <1>8 DEF Next

\* The invariant that the theorems below follow from.
THEOREM Invariance == Spec => []BackupInv
BY InitInv, NextKeepsInv, PTL DEF Spec
-----------------------------------------------------------------------------
(* The properties that TLC checks on small instances.                       *)

\* Every variable, and every field of the script in progress, has its type;
\* victims are snapshots that verify.
THEOREM TypeCorrect == Spec => []TypeOK
<1>1. ASSUME BackupInv PROVE TypeOK
  <2>1. /\ running \subseteq Services /\ data \in [Parts -> Versions \cup {Torn}]
        /\ DOMAIN snapshots \subseteq 1..MaxScripts
        /\ \A s \in DOMAIN snapshots : snapshots[s] \in [Parts -> Values]
        /\ moments \subseteq [Parts -> Versions] /\ mixed \in BOOLEAN
    BY <1>1 DEF BackupInv, DataInv
  <2>2. ASSUME op # Idle
        PROVE  /\ op.was \subseteq Services /\ op.done \subseteq Parts /\ op.victims \subseteq Intact
               /\ \A part \in Parts : op.copy[part] \in Values
    <3>1. op \in Scripts BY <1>1, <2>2 DEF BackupInv, DataInv
    <3>2. op.kind \in {"create", "restore", "prune"} BY <3>1, Fields
    <3>3. op.victims \subseteq Intact BY <1>1, <3>2 DEF BackupInv, StepInv, PruneInv, Copying
    <3> QED BY <3>1, <3>3, Fields
  <2> QED BY <2>1, <2>2 DEF TypeOK, Values
<1> QED BY <1>1, Invariance, PTL

\* Services that run see the data of one moment unless a restore stopped
\* halfway, and a restore that reports success has replaced every part: the
\* services stand still for as long as parts of two moments lie side by side.
THEOREM NoMixedData == Spec => []ServicesSeeOneMoment
<1>1. ASSUME BackupInv PROVE ServicesSeeOneMoment
  <2>1. Live /\ ~mixed => data \in moments
    <3>1. op.kind = "restore" /\ op.at = "replace" => ~Live
      BY <1>1 DEF BackupInv, StepInv, QuietInv, InOrder, Copying
    <3> QED BY <1>1, <3>1 DEF BackupInv, MomentsInv
  <2>2. ASSUME op.kind = "restore", op.at = "restart", ~op.failed PROVE data = op.copy
    <3>1. op.done = Parts /\ \A part \in op.done : op.copy[part] = data[part]
      BY <1>1, <2>2 DEF BackupInv, StepInv, QuietInv, InOrder, Copying
    <3>2. op.copy \in [Parts -> Versions \cup {Torn}] /\ data \in [Parts -> Versions \cup {Torn}]
      BY <1>1, <2>2, RestoredParts DEF BackupInv, DataInv
    <3> QED BY <3>1, <3>2
  <2> QED BY <2>1, <2>2 DEF ServicesSeeOneMoment
<1> QED BY <1>1, Invariance, PTL

\* However a script ends, unless it was killed or its final start failed, what
\* ran before it runs again and nothing else does, but for the database.
THEOREM ServicesRunAgain == Spec => ServicesComeBack
<1>1. ASSUME BackupInv, End, "restart" \notin op.trouble
      PROVE  /\ op.was \subseteq running
             /\ running # op.was =>
                  /\ running = op.was \cup {Database}
                  /\ op.trouble \cap {"start database", "stop database"} # {}
  <2>1. Copying /\ op.at = "end" BY <1>1 DEF End, Copying
  <2>2. op.was \subseteq running /\ running \subseteq op.was \cup {Database}
    BY <1>1, <2>1 DEF BackupInv, RunningInv
  <2>3. Database \in running \ op.was => op.trouble \cap {"start database", "stop database"} # {}
    BY <1>1, <2>1 DEF BackupInv, RunningInv
  <2> QED BY <2>2, <2>3
<1>2. BackupInv /\ [Next]_vars =>
        [ End /\ "restart" \notin op.trouble =>
            /\ op.was \subseteq running
            /\ running # op.was =>
                 /\ running = op.was \cup {Database}
                 /\ op.trouble \cap {"start database", "stop database"} # {} ]_vars
  BY <1>1
<1> QED BY <1>2, Invariance, PTL DEF Spec, ServicesComeBack

\* What a step may do to the snapshots.
LEMMA SnapshotSteps ==
  ASSUME BackupInv, Next
  PROVE  \/ UNCHANGED snapshots \/ Publish \/ Delete
         \/ op = Idle /\ \E s \in DOMAIN snapshots : Damaged(s)
         \/ op.kind = "prune" /\ Damaged(Max(op.victims))
<1>1. CASE \E part \in Parts : Write(part) BY <1>1 DEF Write
<1>2. CASE CreateStep
  BY <1>2 DEF CreateStep, Create, CreateStops, CreateStarts, Dump, StopDatabase, Archive, Cleanup, Begin,
              StopClients, StartDatabase
<1>3. CASE RestoreStep
  BY <1>3 DEF RestoreStep, Restore, RestoreStops, RestoreStarts, Replace, Begin, StopClients, StartDatabase
<1>4. CASE Prune \/ Delete \/ StopStarted \/ Restart \/ End
  BY <1>4 DEF Prune, Begin, StopStarted, Restart, End
<1>5. CASE \E s \in DOMAIN snapshots : Decay(s) BY <1>5 DEF Decay
<1>6. CASE Kill BY <1>6 DEF Kill
<1> QED BY <1>1, <1>2, <1>3, <1>4, <1>5, <1>6 DEF Next

\* A snapshot appears whole: when it gets its name it is what the product's
\* data are at that moment, in every part.
THEOREM SnapshotsAreMoments == Spec => SnapshotIsOneMoment
<1>1. ASSUME BackupInv, Next, NEW s \in DOMAIN snapshots' \ DOMAIN snapshots PROVE snapshots'[s] = data
  <2>1. CASE UNCHANGED snapshots BY <1>1, <2>1
  <2>2. CASE Publish
    <3>1. op.copy = data BY <1>1, <2>2, PublishedCopy
    <3>2. snapshots' = Published BY <1>1, <2>2 DEF Publish
    <3> QED BY <1>1, <3>1, <3>2 DEF Published
  <2>3. CASE Delete
    <3>1. op.kind = "prune" /\ (Damaged(Max(op.victims)) \/ DOMAIN snapshots' \subseteq DOMAIN snapshots)
      BY <2>3 DEF Delete
    <3>2. Max(op.victims) \in DOMAIN snapshots BY <1>1, <3>1, NextVictim
    <3> QED BY <1>1, <3>1, <3>2, Damage
  <2>4. CASE \E t \in DOMAIN snapshots : Damaged(t) BY <1>1, <2>4, Damage
  <2>5. CASE op.kind = "prune" /\ Damaged(Max(op.victims))
    <3>1. Max(op.victims) \in DOMAIN snapshots BY <1>1, <2>5, NextVictim
    <3> QED BY <1>1, <2>5, <3>1, Damage
  <2> QED BY <1>1, <2>1, <2>2, <2>3, <2>4, <2>5, SnapshotSteps
<1>2. BackupInv /\ [Next]_vars => [\A s \in DOMAIN snapshots' \ DOMAIN snapshots : snapshots'[s] = data]_vars
  BY <1>1
<1> QED BY <1>2, Invariance, PTL DEF Spec, SnapshotIsOneMoment

\* The newest snapshots that verify survive every step of every script, also the
\* step that fails or in which the script is killed.
THEOREM NewestAreKept == Spec => NewestSurvive
<1>1. ASSUME BackupInv, Next, op # Idle, NEW s \in NewestOf(Intact) PROVE s \in Intact'
  <2>1. s \in Intact /\ Cardinality(Newer(s)) < Keep BY DEF NewestOf, Newer
  <2>2. op.kind = "prune" => Max(op.victims) \in DOMAIN snapshots /\ s # Max(op.victims)
    <3> SUFFICES ASSUME op.kind = "prune" PROVE Max(op.victims) \in DOMAIN snapshots /\ s # Max(op.victims)
      OBVIOUS
    <3>1. Max(op.victims) \in DOMAIN snapshots /\ Cardinality(Newer(Max(op.victims))) >= Keep
      BY <1>1, NextVictim
    <3>2. Cardinality(Newer(s)) \in Nat BY <1>1, IntactIsFinite DEF Newer
    <3>3. ~(Cardinality(Newer(s)) >= Keep) BY <2>1, <3>2, KeepAssumption, SMT
    <3> QED BY <3>1, <3>3
  <2>3. CASE UNCHANGED snapshots BY <2>1, <2>3 DEF Intact
  <2>4. CASE Publish
    <3>1. CASE UNCHANGED snapshots BY <2>3, <3>1
    <3>2. CASE snapshots' = Published
      <4>1. op.copy \in [Parts -> Versions \cup {Torn}] BY <1>1, <2>4, PublishedCopy
      <4>2. Missing \notin Versions \cup {Torn} BY PartsAssumption DEF Versions, Torn
      <4>3. Missing \notin Range(op.copy) BY <4>1, <4>2 DEF Range
      <4>4. s \in DOMAIN snapshots' /\ snapshots'[s] \in {op.copy, snapshots[s]}
        BY <2>1, <3>2 DEF Published, Intact
      <4> QED BY <2>1, <4>3, <4>4 DEF Intact
    <3> QED BY <2>4, <3>1, <3>2 DEF Publish
  <2>5. CASE op.kind = "prune" /\ Damaged(Max(op.victims)) BY <1>1, <2>1, <2>2, <2>5, Damage
  <2>6. CASE Delete
    <3> DEFINE victim == Max(op.victims)
    <3>1. /\ op.kind = "prune"
          /\ Damaged(victim) \/ snapshots' = [t \in DOMAIN snapshots \ {victim} |-> snapshots[t]]
      BY <2>6 DEF Delete
    <3>2. s # victim BY <2>2, <3>1
    <3> HIDE DEF victim
    <3>3. CASE snapshots' = [t \in DOMAIN snapshots \ {victim} |-> snapshots[t]]
      BY <2>1, <3>2, <3>3 DEF Intact
    <3> QED BY <2>5, <3>1, <3>3 DEF victim
  <2> QED BY <1>1, <2>3, <2>4, <2>5, <2>6, SnapshotSteps
<1>2. BackupInv /\ [Next]_vars => [op # Idle => \A s \in NewestOf(Intact) : s \in Intact']_vars BY <1>1
<1> QED BY <1>2, Invariance, PTL DEF Spec, NewestSurvive
=============================================================================
