---------------------------- MODULE BackupSnapshot ----------------------------
(***************************************************************************)
(* deploy/backup.py: an operator runs a script that stops the product,      *)
(* copies or replaces its database and its volumes one after the other and  *)
(* starts again what was running.  Every command may fail, also after it    *)
(* has done part of its work, and the script may be killed between any two. *)
(*                                                                         *)
(* A part of the product's data (the database, a volume) is its version: a  *)
(* write by a running service gives the part a new one.  One script runs at *)
(* a time.  Paths, links and modes only make a command fail.                *)
(***************************************************************************)
EXTENDS Integers, FiniteSets, FiniteSetsExt, Functions

CONSTANTS Volumes,    \* PRODUCT_VOLUMES
          Clients,    \* services other than the database
          Database,   \* crawlseo-db, the service and its data
          Keep,       \* prune --keep
          MaxWrites,  \* bound: writes by the services
          MaxScripts, \* bound: scripts run
          MaxFaults,  \* bound: failing commands, kills of a script
          Missing     \* a part that a copy does not hold

ASSUME KeepAssumption == Keep \in Nat \ {0}
ASSUME BoundsAssumption == {MaxWrites, MaxScripts, MaxFaults} \subseteq Nat
ASSUME PartsAssumption == Database \notin Volumes \cup Clients /\ Missing \notin Int

VARIABLES
  running,    \* services that run
  data,       \* part -> version
  snapshots,  \* visible snapshots: id -> copy of each part, Missing when damaged
  op,         \* the script in progress, or Idle
  moments,    \* history: the states of all data that the product itself produced
  mixed,      \* history: some restore stopped halfway
  writes, scripts, faults

vars == <<running, data, snapshots, op, moments, mixed, writes, scripts, faults>>
-----------------------------------------------------------------------------
Parts == Volumes \cup {Database}
Services == Clients \cup {Database}
Torn == 0
Idle == [kind |-> "none"]
NoCopy == [part \in Parts |-> Missing]

Script(kind, at) ==
  [kind |-> kind, at |-> at, was |-> running, started |-> FALSE, stopped |-> FALSE,
   failed |-> FALSE, trouble |-> {}, copy |-> NoCopy, done |-> {}, victims |-> {}]

At(kind, at) == op.kind = kind /\ op.at = at
Goto(at) == op' = [op EXCEPT !.at = at]

Fault == faults < MaxFaults /\ faults' = faults + 1
NoFault == UNCHANGED faults
history == <<moments, mixed>>
counters == <<writes, scripts>>

\* A command that raises: the script goes on with its cleanup.
Fails(command, cleanup) ==
  op' = [op EXCEPT !.at = cleanup, !.failed = TRUE, !.trouble = @ \cup {command}]

Init ==
  /\ running \in {Services, Clients, {Database}, {}}
  /\ data = [part \in Parts |-> 1] /\ moments = {data} /\ mixed = FALSE
  /\ snapshots = [s \in {} |-> NoCopy] /\ op = Idle
  /\ writes = 0 /\ scripts = 0 /\ faults = 0
-----------------------------------------------------------------------------
(* The product and its operator.                                            *)

Live == running \cap Clients # {}

Write(part) ==
  /\ Live /\ writes < MaxWrites
  /\ part = Database => Database \in running
  /\ writes' = writes + 1
  /\ data' = [data EXCEPT ![part] = writes' + 1]
  /\ moments' = IF data \in moments THEN moments \cup {data'} ELSE moments
  /\ UNCHANGED <<running, snapshots, op, mixed, scripts, faults>>

Begin(script) ==
  /\ op = Idle /\ scripts < MaxScripts
  /\ scripts' = scripts + 1
  /\ op' = script
  /\ UNCHANGED <<running, data, snapshots, history, writes, faults>>

-----------------------------------------------------------------------------
(* Steps that create and restore have in common.                            *)

\* Faulty: the exit code of the command is not looked at.
StopUnchecked(next, cleanup) ==
  LET clients == op.was \ {Database} IN
  /\ \/ NoFault /\ running' = running \ clients
     \/ Fault /\ \E some \in SUBSET clients : running' = running \ some
  /\ Goto(next)
  /\ UNCHANGED <<data, snapshots, history, counters>>

\* _stop_non_database: one command for all; when it fails some have stopped.
StopClients(next, cleanup) ==
  LET clients == op.was \ {Database} IN
  /\ \/ NoFault /\ running' = running \ clients /\ Goto(next)
     \/ /\ Fault /\ clients # {}
        /\ \E some \in SUBSET clients : running' = running \ some
        /\ Fails("stop", cleanup)
  /\ UNCHANGED <<data, snapshots, history, counters>>

\* _start_database_if_needed; a start that fails may still have started it.
StartDatabase(next, cleanup) ==
  /\ \/ Database \in op.was /\ NoFault /\ UNCHANGED running /\ Goto(next)
     \/ /\ Database \notin op.was /\ NoFault
        /\ running' = running \cup {Database}
        /\ op' = [op EXCEPT !.at = next, !.started = TRUE]
     \/ /\ Database \notin op.was /\ Fault
        /\ running' \in {running, running \cup {Database}}
        /\ Fails("start database", cleanup)
  /\ UNCHANGED <<data, snapshots, history, counters>>

\* The finally block: a database this script has started and not stopped.
StopStarted ==
  /\ op.kind \in {"create", "restore"} /\ op.at = "finally"
  /\ IF op.started /\ ~op.stopped
     THEN \/ NoFault /\ running' = running \ {Database} /\ Goto("restart")
          \/ /\ Fault /\ running' \in {running, running \ {Database}}
             /\ op' = [op EXCEPT !.at = "restart", !.trouble = @ \cup {"stop database"}]
     ELSE NoFault /\ UNCHANGED running /\ Goto("restart")
  /\ UNCHANGED <<data, snapshots, history, counters>>

\* Faulty: only what the script itself has stopped is started.
RestartClients ==
  /\ op.kind \in {"create", "restore"} /\ op.at = "restart"
  /\ running' = running \cup (op.was \cap Clients) /\ NoFault /\ Goto("end")
  /\ UNCHANGED <<data, snapshots, history, counters>>

\* _restore_service_state: one command for all that ran before.
Restart ==
  /\ op.kind \in {"create", "restore"} /\ op.at = "restart"
  /\ \/ NoFault /\ running' = running \cup op.was /\ Goto("end")
     \/ /\ Fault /\ op.was # {}
        /\ \E some \in SUBSET op.was : running' = running \cup some
        /\ Fails("restart", "end")
  /\ UNCHANGED <<data, snapshots, history, counters>>

End ==
  /\ op.kind \in {"create", "restore"} /\ op.at = "end"
  /\ op' = Idle
  /\ UNCHANGED <<running, data, snapshots, history, counters, faults>>
-----------------------------------------------------------------------------
(* create_snapshot.                                                         *)

Create == Begin(Script("create", "stop"))

CreateStops == At("create", "stop") /\ StopClients("start", "cleanup")
CreateStarts == At("create", "start") /\ StartDatabase("dump", "cleanup")

Copy(part, next) ==
  \/ /\ NoFault
     /\ op' = [op EXCEPT !.at = next, !.copy[part] = data[part], !.done = @ \cup {part}]
  \/ Fault /\ Fails("copy", "cleanup")

Dump ==
  /\ At("create", "dump") /\ Copy(Database, "stop database")
  /\ UNCHANGED <<running, data, snapshots, history, counters>>

StopDatabase ==
  /\ At("create", "stop database")
  /\ \/ /\ NoFault /\ running' = running \ {Database}
        /\ op' = [op EXCEPT !.at = "archive", !.stopped = TRUE]
     \/ /\ Fault /\ running' \in {running, running \ {Database}}
        /\ Fails("stop database", "cleanup")
  /\ UNCHANGED <<data, snapshots, history, counters>>

Archive(v) ==
  /\ At("create", "archive") /\ v \notin op.done
  /\ Copy(v, "archive")
  /\ UNCHANGED <<running, data, snapshots, history, counters>>

Published ==
  [s \in DOMAIN snapshots \cup {scripts} |-> IF s = scripts THEN op.copy ELSE snapshots[s]]

\* Faulty: the directory gets its name before everything is in it.
PublishEarly ==
  /\ At("create", "archive") /\ NoFault
  /\ snapshots' = Published
  /\ Goto("finally")
  /\ UNCHANGED <<running, data, history, counters>>

\* The manifest with its hashes, and os.replace to the final name.
Publish ==
  /\ At("create", "archive") /\ op.done = Parts
  /\ \/ /\ NoFault /\ Goto("finally")
        /\ snapshots' = Published
     \/ /\ Fault /\ Fails("publish", "cleanup")
        /\ UNCHANGED snapshots
  /\ UNCHANGED <<running, data, history, counters>>

\* The except branch removes the temporary directory, or fails to.
Cleanup ==
  /\ At("create", "cleanup")
  /\ NoFault \/ Fault
  /\ Goto("finally")
  /\ UNCHANGED <<running, data, snapshots, history, counters>>
-----------------------------------------------------------------------------
(* restore_check, with --apply.                                             *)

Intact == {s \in DOMAIN snapshots : Missing \notin Range(snapshots[s])}

\* Faulty: the snapshot is not verified.
RestoreUnverified(s) ==
  s \in DOMAIN snapshots /\ Begin([Script("restore", "stop") EXCEPT !.copy = snapshots[s]])

\* verify_snapshot refuses a damaged snapshot; the rest is unpacked before
\* anything is stopped.
Restore(s) ==
  s \in Intact /\ Begin([Script("restore", "stop") EXCEPT !.copy = snapshots[s]])

RestoreStops == At("restore", "stop") /\ StopClients("start", "finally")
RestoreStarts == At("restore", "start") /\ StartDatabase("replace", "finally")

\* _restore_database comes first; then the volumes, each wiped and filled.  A
\* failure in between leaves that part torn and the others as they are.
CanReplace(part) ==
  At("restore", "replace") /\ part \notin op.done /\ (part = Database \/ Database \in op.done)

Whole(part) == [data EXCEPT ![part] = op.copy[part]]
Half(part) == [data EXCEPT ![part] = Torn]

Replace(part) ==
  /\ CanReplace(part)
  /\ \/ /\ NoFault /\ UNCHANGED mixed
        /\ data' = Whole(part)
        /\ op' = [op EXCEPT !.done = @ \cup {part},
                            !.at = IF op.done \cup {part} = Parts THEN "finally" ELSE @]
     \/ /\ Fault
        /\ data' \in {data, Half(part)}
        /\ mixed' = (mixed \/ data' # data \/ op.done # {})
        /\ Fails("replace", "finally")
  /\ UNCHANGED <<running, snapshots, moments, counters>>
-----------------------------------------------------------------------------
(* prune_snapshots, with --apply.                                           *)

NewestOf(ids) == {s \in ids : Cardinality({t \in ids : t > s}) < Keep}

\* Faulty: damaged snapshots take places among the newest.
VictimsOfAll == Intact \ NewestOf(DOMAIN snapshots)

\* Of those that verify, all but the newest; damaged ones are never touched.
Victims == Intact \ NewestOf(Intact)

Prune == Victims # {} /\ Begin([Script("prune", "delete") EXCEPT !.victims = Victims])

Damaged(s) == \E part \in Parts : snapshots' = [snapshots EXCEPT ![s][part] = Missing]

\* A snapshot is damaged on its disk.
Decay(s) ==
  /\ op = Idle /\ s \in Intact /\ Fault
  /\ Damaged(s)
  /\ UNCHANGED <<running, data, op, history, counters>>

\* shutil.rmtree, newest victim first; when it fails, a part is gone and the
\* script ends.
Delete ==
  /\ op.kind = "prune"
  /\ LET victim == Max(op.victims)
         rest == op.victims \ {victim}
     IN \/ /\ NoFault
           /\ snapshots' = [s \in DOMAIN snapshots \ {victim} |-> snapshots[s]]
           /\ op' = IF rest = {} THEN Idle ELSE [op EXCEPT !.victims = rest]
        \/ /\ Fault /\ Damaged(victim)
           /\ op' = Idle
  /\ UNCHANGED <<running, data, history, counters>>
-----------------------------------------------------------------------------
\* A script dies between two steps or inside one; what it had copied is left
\* under a name that begins with a dot, which nothing reads.
Kill ==
  /\ op # Idle /\ Fault
  /\ op' = Idle
  /\ \/ UNCHANGED data
     \/ \E part \in Parts : CanReplace(part) /\ data' \in {Half(part), Whole(part)}
  /\ mixed' = (mixed \/ (op.kind = "restore" /\ (data' # data \/ op.done \notin {{}, Parts})))
  /\ \/ UNCHANGED snapshots
     \/ op.kind = "prune" /\ Damaged(Max(op.victims))
  /\ UNCHANGED <<running, moments, counters>>
-----------------------------------------------------------------------------
CreateStep ==
  \/ Create \/ CreateStops \/ CreateStarts \/ Dump \/ StopDatabase
  \/ \E v \in Volumes : Archive(v)
  \/ Publish \/ Cleanup

RestoreStep ==
  \/ \E s \in DOMAIN snapshots : Restore(s)
  \/ RestoreStops \/ RestoreStarts
  \/ \E part \in Parts : Replace(part)

Next ==
  \/ \E part \in Parts : Write(part)
  \/ CreateStep \/ RestoreStep \/ Prune \/ Delete
  \/ \E s \in DOMAIN snapshots : Decay(s)
  \/ StopStarted \/ Restart \/ End
  \/ Kill

Spec == Init /\ [][Next]_vars
-----------------------------------------------------------------------------
Versions == 1..(MaxWrites + 1)

TypeOK ==
  /\ running \subseteq Services
  /\ data \in [Parts -> Versions \cup {Torn}]
  /\ DOMAIN snapshots \subseteq 1..MaxScripts
  /\ \A s \in DOMAIN snapshots :
       snapshots[s] \in [Parts -> Versions \cup {Torn, Missing}]
  /\ op # Idle =>
       /\ op.was \subseteq Services /\ op.done \subseteq Parts /\ op.victims \subseteq Intact
       /\ \A part \in Parts : op.copy[part] \in Versions \cup {Torn, Missing}
  /\ moments \subseteq [Parts -> Versions] /\ mixed \in BOOLEAN

\* A snapshot appears complete or not at all, and it is the product at one
\* moment: what was copied first still is the product's data when the last part
\* has been copied and the snapshot gets its name.
SnapshotIsOneMoment ==
  [][ \A s \in DOMAIN snapshots' \ DOMAIN snapshots : snapshots'[s] = data ]_vars

\* create restores the initial service state (create_snapshot, backup.py:549),
\* restore does too.  However a script ends, unless it is killed or the final
\* start fails, what ran before runs again; nothing else runs, but for a database
\* whose start or stop failed.
ServicesComeBack ==
  [][ End /\ "restart" \notin op.trouble =>
        /\ op.was \subseteq running
        /\ running # op.was =>
             /\ running = op.was \cup {Database}
             /\ op.trouble \cap {"start database", "stop database"} # {} ]_vars

\* Services never work on parts of different moments, unless a restore stopped
\* halfway; they are started again even then.  A restore that reports success has
\* replaced every part while nothing else wrote.
ServicesSeeOneMoment ==
  /\ Live /\ ~mixed => data \in moments
  /\ op.kind = "restore" /\ op.at = "restart" /\ ~op.failed => data = op.copy

\* The newest snapshots that verify survive whatever a script does to others,
\* also when it fails or dies on the way, and damaged ones do not count.
NewestSurvive ==
  [][ op # Idle => \A s \in NewestOf(Intact) : s \in Intact' ]_vars
=============================================================================
