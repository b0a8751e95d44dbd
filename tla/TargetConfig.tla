----------------------------- MODULE TargetConfig -----------------------------
(***************************************************************************)
(* config/config.json: the list of targets.  The HTTP handlers configure,   *)
(* and handlers and scheduler load it, which migrates a file of version 1.  *)
(* Every writer reads the file, computes a document and replaces the file;  *)
(* nothing locks it, so threads overtake each other between their read and  *)
(* their write, and any read or write may fail.                             *)
(*                                                                         *)
(* Sources: method configure of seo_employee_run, save_configuration and    *)
(* load_configuration of seo_employee_service, seo_employee_targets.  A     *)
(* target_id is a hash of the target's URL, so the URL stands for both.     *)
(***************************************************************************)
EXTENDS Integers, Sequences, FiniteSets

CONSTANTS Threads, Urls,
          OldUrl,     \* the target of a version 1 file
          MaxCalls,   \* bound: calls
          MaxFaults,  \* bound: failing reads and writes, kills of the process
          Absent      \* no file

Targets == [url : Urls, owned : BOOLEAN, n : 0..MaxCalls]
Documents == [schema : {"v1", "v2"}, targets : Seq(Targets)]

ASSUME OldUrlAssumption == OldUrl \in Urls /\ IsFiniteSet(Urls)
ASSUME BoundsAssumption == MaxCalls \in Nat /\ MaxFaults \in Nat
ASSUME AbsentAssumption == Absent \notin Documents

VARIABLES
  file, backup,  \* config.json, config.json.v1.backup
  call,          \* per thread: the call it serves, or Idle
  said,          \* history: url -> the target its last configure wrote
  confirmed,     \* history: urls whose ownership a user has confirmed
  overtaken,     \* history: some write replaced another document than was read
  calls, faults

vars == <<file, backup, call, said, confirmed, overtaken, calls, faults>>
-----------------------------------------------------------------------------
Idle == [at |-> "idle"]

\* Migration gives the only target of version 1 no ownership; n = 0 names it.
Target(u, owned, n) == [url |-> u, owned |-> owned, n |-> n]
Version1 == [schema |-> "v1", targets |-> <<Target(OldUrl, FALSE, 0)>>]

UrlsOf(document) ==
  IF document = Absent THEN {} ELSE {document.targets[k].url : k \in DOMAIN document.targets}
TargetsOf(document) ==
  IF document = Absent THEN {} ELSE {document.targets[k] : k \in DOMAIN document.targets}

\* Faulty: a migrated target may be audited at once.
MigratedOwned(document) ==
  [schema |-> "v2", targets |-> IF document.schema = "v1" THEN <<Target(OldUrl, TRUE, 0)>> ELSE document.targets]

\* migrate_config; a document of version 2 is returned as it is.
Migrated(document) == [document EXCEPT !.schema = "v2"]

\* Faulty: a target is known by its place, and the last one is replaced.
UpdatedLast(document, target) ==
  IF document = Absent THEN [schema |-> "v2", targets |-> <<target>>]
  ELSE LET prior == Migrated(document).targets IN
       [schema |-> "v2", targets |-> IF target.url \in UrlsOf(document)
                                     THEN [prior EXCEPT ![Len(prior)] = target]
                                     ELSE Append(prior, target)]

\* Faulty: a known target is appended again.
UpdatedAppend(document, target) ==
  [schema |-> "v2", targets |-> IF document = Absent THEN <<target>>
                                ELSE Append(Migrated(document).targets, target)]

\* save_configuration: the target of this URL is replaced in its place or
\* appended; without a readable document it becomes the only one.
Updated(document, target) ==
  IF document = Absent THEN [schema |-> "v2", targets |-> <<target>>]
  ELSE LET prior == Migrated(document).targets IN
       [schema |-> "v2",
        targets |-> IF target.url \in UrlsOf(document)
                    THEN [k \in DOMAIN prior |-> IF prior[k].url = target.url THEN target ELSE prior[k]]
                    ELSE Append(prior, target)]
-----------------------------------------------------------------------------
Init ==
  /\ file \in {Absent, Version1} /\ backup = Absent
  /\ call = [th \in Threads |-> Idle]
  /\ said = [u \in {} |-> 0] /\ confirmed = {} /\ overtaken = FALSE
  /\ calls = 0 /\ faults = 0

Fault == faults < MaxFaults /\ faults' = faults + 1
NoFault == UNCHANGED faults
history == <<said, confirmed, overtaken>>

At(th, step) == call[th].at = step
Goto(th, step) == call' = [call EXCEPT ![th].at = step]
Read(th, document, step) == call' = [call EXCEPT ![th].at = step, ![th].base = document]
Answer(th) == call' = [call EXCEPT ![th] = Idle]

\* method configure with or without a target_id.
Configure(th, u, owned, known) ==
  /\ call[th] = Idle /\ calls < MaxCalls
  /\ calls' = calls + 1
  /\ call' = [call EXCEPT ![th] = [at |-> "probe", op |-> "configure", known |-> known, base |-> Absent,
                                   target |-> Target(u, owned, calls')]]
  /\ confirmed' = IF owned THEN confirmed \cup {u} ELSE confirmed
  /\ UNCHANGED <<file, backup, said, overtaken, faults>>

\* load_configuration, called by run, by the scheduler and for the state.
Load(th) ==
  /\ call[th] = Idle /\ calls < MaxCalls
  /\ calls' = calls + 1
  /\ call' = [call EXCEPT ![th] = [at |-> "load", op |-> "load", base |-> Absent]]
  /\ UNCHANGED <<file, backup, history, faults>>

\* "A pre-existing unreadable file is never an empty config": its text is read
\* and thrown away.
Probe(th) ==
  /\ At(th, "probe") /\ NoFault
  /\ Goto(th, IF call[th].known THEN "load" ELSE "read")
  /\ UNCHANGED <<file, backup, history, calls>>

\* What follows a document that has been loaded: configure goes on when it
\* holds the target.
Loaded(th, document) ==
  IF call[th].op = "configure" /\ call[th].target.url \in UrlsOf(document)
  THEN Goto(th, "read") ELSE Answer(th)

LoadFile(th) ==
  /\ At(th, "load") /\ NoFault
  /\ IF file # Absent /\ file.schema = "v1" THEN Goto(th, "migrate") ELSE Loaded(th, file)
  /\ UNCHANGED <<file, backup, history, calls>>

\* migrate_config_file reads the file anew.
MigrateRead(th) ==
  /\ At(th, "migrate") /\ NoFault
  /\ Read(th, file, IF file.schema = "v1" /\ backup = Absent THEN "backup" ELSE "replace")
  /\ UNCHANGED <<file, backup, history, calls>>

MigrateBackup(th) ==
  /\ At(th, "backup") /\ NoFault
  /\ backup' = call[th].base
  /\ Goto(th, "replace")
  /\ UNCHANGED <<file, history, calls>>

Replace(th, document) ==
  /\ file' = document
  /\ overtaken' = (overtaken \/ call[th].base # file)

MigrateWrite(th) ==
  /\ At(th, "replace") /\ NoFault
  /\ Replace(th, Migrated(call[th].base))
  /\ Loaded(th, file')
  /\ UNCHANGED <<backup, said, confirmed, calls>>

\* _read_json_object gives None for a file that is absent, and for one that
\* cannot be read just now.
SaveRead(th) ==
  /\ At(th, "read")
  /\ \/ NoFault /\ Read(th, file, "write")
     \/ Fault /\ Read(th, Absent, "write")
  /\ UNCHANGED <<file, backup, history, calls>>

SaveWrite(th) ==
  /\ At(th, "write") /\ NoFault
  /\ LET target == call[th].target IN
     /\ Replace(th, Updated(call[th].base, target))
     /\ said' = [u \in DOMAIN said \cup {target.url} |-> IF u = target.url THEN target ELSE said[u]]
  /\ Answer(th)
  /\ UNCHANGED <<backup, confirmed, calls>>

\* Any other failing read or write is answered with an error.
Refuse(th) ==
  /\ call[th].at \in {"probe", "load", "migrate", "backup", "replace", "write"} /\ Fault
  /\ Answer(th)
  /\ UNCHANGED <<file, backup, history, calls>>

\* The process dies with every call in it.
Kill ==
  /\ Fault
  /\ call' = [th \in Threads |-> Idle]
  /\ UNCHANGED <<file, backup, history, calls>>

Step(th) ==
  \/ Probe(th) \/ LoadFile(th) \/ MigrateRead(th) \/ MigrateBackup(th) \/ MigrateWrite(th)
  \/ SaveRead(th) \/ SaveWrite(th) \/ Refuse(th)

Next ==
  \/ \E th \in Threads :
       \/ \E u \in Urls, owned, known \in BOOLEAN : Configure(th, u, owned, known)
       \/ Load(th) \/ Step(th)
  \/ Kill

Spec == Init /\ [][Next]_vars
-----------------------------------------------------------------------------
Document(d) ==
  /\ d \in Documents /\ Len(d.targets) \in 1..Cardinality(Urls)
  /\ Cardinality(UrlsOf(d)) = Len(d.targets)

\* validate_config accepts the file, whoever wrote it last: no target_id twice.
TypeOK ==
  /\ file = Absent \/ Document(file)
  /\ backup \in {Absent, Version1}
  /\ \A th \in Threads : call[th] # Idle => call[th].base = Absent \/ Document(call[th].base)
  /\ DOMAIN said \subseteq Urls /\ confirmed \subseteq Urls /\ overtaken \in BOOLEAN
  /\ calls \in 0..MaxCalls /\ faults \in 0..MaxFaults

\* What configure has answered stays in force, across migrations and failures,
\* until the next configure of that target.  The exception is a writer that does
\* not have the current document: save_configuration and migrate_config_file take
\* no lock, and the later of two overlapping writers throws the other's target
\* away; save_configuration takes a document it could not read for none.
AnsweredIsKept == ~overtaken => \A u \in DOMAIN said : said[u] \in TargetsOf(file)

\* SC-SEO-042.  However writers overtake each other and whatever fails, a target
\* is marked as owned only if a user has confirmed that very target.
OwnershipWasConfirmed == \A t \in TargetsOf(file) : t.owned => t.url \in confirmed

-----------------------------------------------------------------------------
\* seo_employee_run.py:395: a pre-existing unreadable file is never an empty
\* config.  One handler at a time must not lose a target to a failing read.
UnreadableIsNeverEmpty == [][ UrlsOf(file) \subseteq UrlsOf(file') ]_vars
=============================================================================
