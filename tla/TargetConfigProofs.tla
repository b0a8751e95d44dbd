-------------------------- MODULE TargetConfigProofs --------------------------
(***************************************************************************)
(* What holds of config/config.json for any number of threads and targets. *)
(***************************************************************************)
EXTENDS TargetConfig, FiniteSetTheorems, TLAPS

\* No URL twice, and a document of version 1 is the one the program began with.
Valid(d) ==
  /\ d \in Documents /\ d.targets # <<>>
  /\ \A j, k \in DOMAIN d.targets : d.targets[j].url = d.targets[k].url => j = k
  /\ d.schema = "v1" => d = Version1

Bases == {Absent} \cup Documents
Loads == [at : {"load", "migrate", "backup", "replace"}, op : {"load"}, base : Bases]
Configures ==
  [at : {"probe", "load", "migrate", "backup", "replace", "read", "write"}, op : {"configure"},
   known : BOOLEAN, base : Bases, target : Targets]

\* The document a call holds is a valid one, and a migration holds one.
CallsInv ==
  /\ call \in [Threads -> {Idle} \cup Loads \cup Configures]
  /\ \A th \in Threads : call[th] # Idle =>
       /\ call[th].base = Absent \/ Valid(call[th].base)
       /\ call[th].at = "migrate" => file # Absent
       /\ call[th].at \in {"backup", "replace"} => call[th].base # Absent
       /\ call[th].at = "backup" => call[th].base = Version1

FilesInv ==
  /\ file = Absent \/ Valid(file)
  /\ backup \in {Absent, Version1}
  /\ overtaken \in BOOLEAN /\ calls \in 0..MaxCalls /\ faults \in 0..MaxFaults

Confirmed(document) == \A t \in TargetsOf(document) : t.owned => t.url \in confirmed

CallsConfirmed ==
  \A th \in Threads : call[th] # Idle =>
    /\ Confirmed(call[th].base)
    /\ call[th].op = "configure" /\ call[th].target.owned => call[th].target.url \in confirmed

\* Ownership is confirmed wherever it may come to the file from.
OwnershipInv ==
  /\ confirmed \subseteq Urls
  /\ Confirmed(file)
  /\ CallsConfirmed

\* What is remembered of a URL is a target of this URL.
SaidInv ==
  /\ DOMAIN said \subseteq Urls
  /\ \A u \in DOMAIN said : said[u].url = u
  /\ AnsweredIsKept

ConfigInv == FilesInv /\ CallsInv /\ OwnershipInv /\ SaidInv
-----------------------------------------------------------------------------
\* A call keeps its other fields when it moves on.
LEMMA LoadMoves ==
  ASSUME NEW r \in Loads, NEW step \in {"load", "migrate", "backup", "replace"}
  PROVE  LET moved == [r EXCEPT !.at = step] IN
         moved \in Loads /\ moved.at = step /\ moved.op = r.op /\ moved.base = r.base
  BY SMT DEF Loads

LEMMA LoadReads ==
  ASSUME NEW r \in Loads, NEW document \in Bases
  PROVE  LET read == [r EXCEPT !.base = document] IN
         read \in Loads /\ read.at = r.at /\ read.op = r.op /\ read.base = document
  BY SMT DEF Loads

LEMMA ConfigureMoves ==
  ASSUME NEW r \in Configures,
         NEW step \in {"probe", "load", "migrate", "backup", "replace", "read", "write"}
  PROVE  LET moved == [r EXCEPT !.at = step] IN
         /\ moved \in Configures /\ moved.at = step /\ moved.op = r.op /\ moved.base = r.base
         /\ moved.target = r.target
  BY SMT DEF Configures

LEMMA ConfigureReads ==
  ASSUME NEW r \in Configures, NEW document \in Bases
  PROVE  LET read == [r EXCEPT !.base = document] IN
         /\ read \in Configures /\ read.at = r.at /\ read.op = r.op /\ read.base = document
         /\ read.target = r.target
  BY SMT DEF Configures

\* A call that is served is a load or a configure, not both, and not idle.
LEMMA CallKinds ==
  ASSUME NEW r PROVE /\ r \in Loads => r # Idle /\ r.op = "load"
                     /\ r \in Configures => r # Idle /\ r.op = "configure"
  BY SMT DEF Loads, Configures, Idle

\* The file the program may begin with is valid.
LEMMA Version1Valid == Valid(Version1) /\ Version1 # Absent /\ Confirmed(Version1)
<1> DEFINE old == Target(OldUrl, FALSE, 0)
<1>1. old \in Targets /\ ~old.owned BY OldUrlAssumption, BoundsAssumption, SMT DEF Target, Targets
<1> HIDE DEF old
<1>2. <<old>> \in Seq(Targets) /\ <<old>> # <<>> /\ DOMAIN <<old>> = {1} /\ <<old>>[1] = old BY <1>1, SMT
<1>3. Version1 = [schema |-> "v1", targets |-> <<old>>] BY DEF Version1, old
<1>4. Version1 \in Documents BY <1>2, <1>3, SMT DEF Documents
<1>5. Version1 # Absent BY <1>4, AbsentAssumption
<1>6. Version1.targets = <<old>> BY <1>3, SMT
<1>7. TargetsOf(Version1) = {old} BY <1>2, <1>5, <1>6, SMT DEF TargetsOf
<1>8. Confirmed(Version1) BY <1>1, <1>7 DEF Confirmed
<1>9. Valid(Version1) BY <1>2, <1>4, <1>6, SMT DEF Valid
<1> QED BY <1>5, <1>8, <1>9

\* migrate_config keeps the targets.
LEMMA MigratedKeeps ==
  ASSUME NEW d, Valid(d)
  PROVE  /\ Valid(Migrated(d)) /\ Migrated(d) # Absent /\ Migrated(d).targets = d.targets
         /\ TargetsOf(Migrated(d)) = TargetsOf(d)
<1>1. d \in Documents BY DEF Valid
<1>2. /\ Migrated(d) \in Documents /\ Migrated(d).targets = d.targets /\ Migrated(d).schema = "v2"
  BY <1>1, SMT DEF Migrated, Documents
<1>3. d # Absent /\ Migrated(d) # Absent BY <1>1, <1>2, AbsentAssumption
<1> QED BY <1>2, <1>3, SMT DEF Valid, TargetsOf

\* save_configuration puts the target in the place of the one of its URL, or last,
\* and keeps all others.
LEMMA UpdatedReplaces ==
  ASSUME NEW d, d = Absent \/ Valid(d), NEW target \in Targets
  PROVE  /\ Valid(Updated(d, target)) /\ Updated(d, target) # Absent
         /\ TargetsOf(Updated(d, target)) = {target} \cup {t \in TargetsOf(d) : t.url # target.url}
<1> DEFINE new == Updated(d, target)
<1>1. CASE d = Absent
  <2>1. new = [schema |-> "v2", targets |-> <<target>>] BY <1>1 DEF Updated
  <2>2. new \in Documents BY <2>1, SMT DEF Documents
  <2> QED BY <1>1, <2>1, <2>2, AbsentAssumption, SMT DEF Valid, TargetsOf
<1>2. CASE Valid(d)
  <2> DEFINE prior == Migrated(d).targets
  <2>0. d # Absent /\ prior = d.targets /\ prior \in Seq(Targets)
    BY <1>2, MigratedKeeps, AbsentAssumption, SMT DEF Valid, Documents
  <2>1. CASE target.url \in UrlsOf(d)
    <3> DEFINE replaced == [k \in DOMAIN prior |-> IF prior[k].url = target.url THEN target ELSE prior[k]]
    <3>1. new = [schema |-> "v2", targets |-> replaced] BY <2>0, <2>1 DEF Updated
    <3>2. replaced \in Seq(Targets) /\ DOMAIN replaced = DOMAIN prior /\ Len(replaced) = Len(prior)
      BY <2>0, SMT
    <3>3. new \in Documents BY <3>1, <3>2, SMT DEF Documents
    <3>4. new # Absent BY <3>3, AbsentAssumption
    <3>5. Valid(new) BY <1>2, <2>0, <3>1, <3>2, <3>3, SMT DEF Valid
    <3>6. TargetsOf(new) = {target} \cup {t \in TargetsOf(d) : t.url # target.url}
      <4>1. TargetsOf(new) = {replaced[k] : k \in DOMAIN prior} BY <3>1, <3>2, <3>4 DEF TargetsOf
      <4>2. TargetsOf(d) = {prior[k] : k \in DOMAIN prior} BY <2>0 DEF TargetsOf
      <4>3. \E k \in DOMAIN prior : prior[k].url = target.url BY <2>0, <2>1 DEF UrlsOf
      <4>4. {replaced[k] : k \in DOMAIN prior} \subseteq {target} \cup {t \in TargetsOf(d) : t.url # target.url}
        <5> SUFFICES ASSUME NEW k \in DOMAIN prior
                     PROVE  replaced[k] \in {target} \cup {t \in TargetsOf(d) : t.url # target.url}
          OBVIOUS
        <5>1. prior[k] \in TargetsOf(d) BY <4>2
        <5> QED BY <5>1
      <4>5. ASSUME NEW t \in TargetsOf(d), t.url # target.url PROVE t \in {replaced[k] : k \in DOMAIN prior}
        <5>1. PICK k \in DOMAIN prior : t = prior[k] BY <4>2, <4>5
        <5>2. replaced[k] = t BY <4>5, <5>1
        <5> QED BY <5>2
      <4>6. target \in {replaced[k] : k \in DOMAIN prior} BY <4>3
      <4> HIDE DEF replaced, prior
      <4> QED BY <4>1, <4>4, <4>5, <4>6, SMT
    <3> QED BY <3>4, <3>5, <3>6
  <2>2. CASE target.url \notin UrlsOf(d)
    <3>1. new = [schema |-> "v2", targets |-> Append(prior, target)] BY <2>0, <2>2 DEF Updated
    <3>2. /\ Append(prior, target) \in Seq(Targets)
          /\ DOMAIN Append(prior, target) = DOMAIN prior \cup {Len(prior) + 1}
          /\ Append(prior, target)[Len(prior) + 1] = target
          /\ \A k \in DOMAIN prior : Append(prior, target)[k] = prior[k]
      BY <2>0, SMT
    <3>3. new \in Documents BY <3>1, <3>2, SMT DEF Documents
    <3>4. new # Absent BY <3>3, AbsentAssumption
    <3>5. \A k \in DOMAIN prior : prior[k].url # target.url BY <2>0, <2>2 DEF UrlsOf
    <3>6. Valid(new) BY <1>2, <2>0, <3>1, <3>2, <3>3, <3>5, SMT DEF Valid
    <3>7. TargetsOf(new) = {target} \cup {t \in TargetsOf(d) : t.url # target.url}
      <4>1. TargetsOf(new) = {Append(prior, target)[k] : k \in DOMAIN prior \cup {Len(prior) + 1}}
        BY <3>1, <3>2, <3>4 DEF TargetsOf
      <4>2. TargetsOf(d) = {prior[k] : k \in DOMAIN prior} BY <2>0 DEF TargetsOf
      <4> QED BY <3>2, <3>5, <4>1, <4>2, SMT
    <3> QED BY <3>4, <3>6, <3>7
  <2> QED BY <2>1, <2>2
<1> QED BY <1>1, <1>2
-----------------------------------------------------------------------------
\* The call of th moves to a step, with a document in hand.
Continues(th, step, document) ==
  /\ call' \in [Threads -> {Idle} \cup Loads \cup Configures]
  /\ \A x \in Threads \ {th} : call'[x] = call[x]
  /\ call'[th] # Idle /\ call'[th].at = step /\ call'[th].op = call[th].op /\ call'[th].base = document
  /\ call[th].op = "configure" => call'[th].target = call[th].target

Answered(th) ==
  /\ call' \in [Threads -> {Idle} \cup Loads \cup Configures]
  /\ \A x \in Threads \ {th} : call'[x] = call[x]
  /\ call'[th] = Idle

Fits(th, step) ==
  /\ call[th] \in Loads \cup Configures
  /\ call[th] \in Loads => step \in {"load", "migrate", "backup", "replace"}
  /\ step \in {"probe", "load", "migrate", "backup", "replace", "read", "write"}

\* The updates of call by which the actions are written do just this.
LEMMA GotoContinues ==
  ASSUME CallsInv, NEW th \in Threads, NEW step, Fits(th, step), Goto(th, step)
  PROVE  Continues(th, step, call[th].base)
<1> DEFINE moved == [call[th] EXCEPT !.at = step]
<1>0. call \in [Threads -> {Idle} \cup Loads \cup Configures] BY DEF CallsInv
<1>1. call' = [call EXCEPT ![th] = moved] BY <1>0 DEF Goto
<1>2. /\ moved \in Loads \cup Configures /\ moved.at = step /\ moved.op = call[th].op
      /\ moved.base = call[th].base
      /\ call[th].op = "configure" => moved.target = call[th].target
  <2>1. CASE call[th] \in Loads BY <2>1, LoadMoves, CallKinds DEF Fits
  <2>2. CASE call[th] \in Configures BY <2>2, ConfigureMoves DEF Fits
  <2> QED BY <2>1, <2>2 DEF Fits
<1>3. moved # Idle BY <1>2, CallKinds
<1> HIDE DEF moved
<1> QED BY <1>0, <1>1, <1>2, <1>3 DEF Continues

LEMMA ReadContinues ==
  ASSUME CallsInv, NEW th \in Threads, NEW step, NEW document \in Bases, Fits(th, step),
         Read(th, document, step)
  PROVE  Continues(th, step, document)
<1> DEFINE moved == [call[th] EXCEPT !.at = step]
           read == [moved EXCEPT !.base = document]
<1>0. call \in [Threads -> {Idle} \cup Loads \cup Configures] BY DEF CallsInv
<1>1. call' = [call EXCEPT ![th] = read] BY <1>0 DEF Read
<1>2. /\ call[th] \in Loads => moved \in Loads
      /\ call[th] \in Configures => moved \in Configures
      /\ moved.at = step /\ moved.op = call[th].op
      /\ call[th].op = "configure" => moved.target = call[th].target
  <2>1. CASE call[th] \in Loads BY <2>1, LoadMoves, CallKinds DEF Fits
  <2>2. CASE call[th] \in Configures BY <2>2, ConfigureMoves, CallKinds DEF Fits
  <2> QED BY <2>1, <2>2 DEF Fits
<1> HIDE DEF moved
<1>3. /\ read \in Loads \cup Configures /\ read.at = step /\ read.op = call[th].op /\ read.base = document
      /\ call[th].op = "configure" => read.target = call[th].target
  BY <1>2, LoadReads, ConfigureReads, CallKinds DEF Fits
<1>4. read # Idle BY <1>3, CallKinds
<1> HIDE DEF read
<1> QED BY <1>0, <1>1, <1>3, <1>4 DEF Continues

LEMMA AnswerAnswers ==
  ASSUME CallsInv, NEW th \in Threads, Answer(th) PROVE Answered(th)
  BY DEF CallsInv, Answer, Answered

\* Where a step takes place tells which call is served.
LEMMA Served ==
  ASSUME CallsInv, NEW th \in Threads, call[th].at # "idle"
  PROVE  /\ call[th] \in Loads \cup Configures /\ call[th] # Idle
         /\ call[th].at \in {"probe", "read", "write"} => call[th] \in Configures
         /\ call[th] \in Configures => call[th].op = "configure" /\ call[th].target \in Targets
         /\ call[th].op = "configure" => call[th] \in Configures
         /\ call[th].base \in Bases
<1>1. call[th] \in {Idle} \cup Loads \cup Configures BY DEF CallsInv
<1>2. Idle.at = "idle" BY DEF Idle
<1>3. call[th] \in Loads \cup Configures BY <1>1, <1>2
<1>4. CASE call[th] \in Loads
  <2>1. /\ call[th].at \notin {"probe", "read", "write"} /\ call[th].op = "load" /\ call[th].base \in Bases
    BY <1>4, SMT DEF Loads
  <2>2. call[th] # Idle /\ call[th] \notin Configures BY <1>4, <2>1, CallKinds
  <2> QED BY <1>4, <2>1, <2>2
<1>5. CASE call[th] \in Configures
  <2>1. call[th].target \in Targets /\ call[th].base \in Bases BY <1>5, SMT DEF Configures
  <2> QED BY <1>5, <2>1, CallKinds
<1> QED BY <1>3, <1>4, <1>5
-----------------------------------------------------------------------------
\* A step of one call leaves what is known of all calls true, when the document
\* it takes in hand is one that a call may hold.
LEMMA CallsContinue ==
  ASSUME CallsInv, CallsConfirmed, NEW th \in Threads, NEW step, NEW document, Continues(th, step, document),
         call[th] # Idle, confirmed' = confirmed, file # Absent => file' # Absent,
         document = Absent \/ Valid(document), Confirmed(document),
         step = "migrate" => file' # Absent,
         step \in {"backup", "replace"} => document # Absent,
         step = "backup" => document = Version1
  PROVE  CallsInv' /\ CallsConfirmed'
<1>1. CallsInv' BY DEF CallsInv, Continues
<1>2. CallsConfirmed'
  <2> SUFFICES ASSUME NEW x \in Threads, call'[x] # Idle
               PROVE  (/\ Confirmed(call[x].base)
                       /\ call[x].op = "configure" /\ call[x].target.owned => call[x].target.url \in confirmed)'
    BY DEF CallsConfirmed
  <2>1. CASE x = th BY <2>1 DEF CallsConfirmed, Continues, Confirmed
  <2>2. CASE x # th BY <2>2 DEF CallsConfirmed, Continues, Confirmed
  <2> QED BY <2>1, <2>2
<1> QED BY <1>1, <1>2

LEMMA CallsAnswer ==
  ASSUME CallsInv, CallsConfirmed, NEW th \in Threads, Answered(th),
         confirmed' = confirmed, file # Absent => file' # Absent
  PROVE  CallsInv' /\ CallsConfirmed'
  BY DEF CallsInv, CallsConfirmed, Answered, Confirmed

\* While nothing is written and nothing is said, the files stay as they are.
LEMMA FilesStay ==
  ASSUME ConfigInv, UNCHANGED <<file, said, confirmed, overtaken>>, backup' \in {Absent, Version1},
         calls' \in 0..MaxCalls, faults' \in 0..MaxFaults
  PROVE  /\ FilesInv' /\ SaidInv' /\ confirmed' \subseteq Urls /\ Confirmed(file)'
         /\ file # Absent => file' # Absent
         /\ confirmed' = confirmed
  BY DEF ConfigInv, FilesInv, OwnershipInv, SaidInv, Confirmed, AnsweredIsKept

\* What follows a document that has been loaded is a step or the answer.
LEMMA LoadedContinues ==
  ASSUME CallsInv, NEW th \in Threads, NEW document, call[th].at # "idle", Loaded(th, document)
  PROVE  Continues(th, "read", call[th].base) \/ Answered(th)
<1>1. CASE Goto(th, "read") /\ call[th].op = "configure"
  <2>1. Fits(th, "read") BY <1>1, Served, CallKinds DEF Fits
  <2> QED BY <1>1, <2>1, GotoContinues
<1>2. CASE Answer(th) BY <1>2, AnswerAnswers
<1> QED BY <1>1, <1>2 DEF Loaded

\* At first there is no file, or one of version 1, and no call.
LEMMA InvInit == Init => ConfigInv
<1> SUFFICES ASSUME Init PROVE ConfigInv OBVIOUS
<1> USE DEF Init
<1>1. FilesInv
  <2>1. overtaken \in BOOLEAN BY Zenon
  <2>2. calls \in 0..MaxCalls /\ faults \in 0..MaxFaults BY BoundsAssumption, SMT
  <2>3. (file = Absent \/ Valid(file)) /\ backup \in {Absent, Version1} BY Version1Valid, Zenon
  <2> QED BY <2>1, <2>2, <2>3 DEF FilesInv
<1>2. CallsInv
  <2>1. \A th \in Threads : call[th] = Idle OBVIOUS
  <2>2. call \in [Threads -> {Idle} \cup Loads \cup Configures] OBVIOUS
  <2> QED BY <2>1, <2>2 DEF CallsInv
<1>3. Confirmed(file) BY Version1Valid DEF Confirmed, TargetsOf
<1>4. OwnershipInv BY <1>3 DEF OwnershipInv, CallsConfirmed
<1>5. DOMAIN said = {} OBVIOUS
<1>6. SaidInv BY <1>5 DEF SaidInv, AnsweredIsKept
<1> QED BY <1>1, <1>2, <1>4, <1>6 DEF ConfigInv

\* A call in service holds a valid document or none, with confirmed owners.
LEMMA Held ==
  ASSUME ConfigInv, NEW th \in Threads, call[th].at # "idle"
  PROVE  /\ call[th].base = Absent \/ Valid(call[th].base)
         /\ Confirmed(call[th].base) /\ call[th].base \in Bases
         /\ call[th].at = "migrate" => file # Absent
         /\ call[th].at \in {"backup", "replace"} => call[th].base # Absent
         /\ call[th].at = "backup" => call[th].base = Version1
<1>1. CallsInv /\ CallsConfirmed BY DEF ConfigInv, OwnershipInv
<1>2. call[th] # Idle /\ call[th].base \in Bases BY <1>1, Served
<1> QED BY <1>1, <1>2 DEF CallsInv, CallsConfirmed

\* A step that writes no file but the backup keeps the invariant.
LEMMA QuietContinue ==
  ASSUME ConfigInv, NEW th \in Threads, NEW step, NEW document, Continues(th, step, document),
         call[th].at # "idle",
         UNCHANGED <<file, said, confirmed, overtaken>>, backup' \in {Absent, Version1},
         calls' \in 0..MaxCalls, faults' \in 0..MaxFaults,
         document = Absent \/ Valid(document), Confirmed(document),
         step = "migrate" => file # Absent,
         step \in {"backup", "replace"} => document # Absent,
         step = "backup" => document = Version1
  PROVE  ConfigInv'
<1>1. CallsInv /\ CallsConfirmed BY DEF ConfigInv, OwnershipInv
<1>2. call[th] # Idle BY <1>1, Served
<1>3. /\ FilesInv' /\ SaidInv' /\ confirmed' \subseteq Urls /\ Confirmed(file)'
      /\ file # Absent => file' # Absent
      /\ confirmed' = confirmed
  BY FilesStay
<1>4. step = "migrate" => file' # Absent BY <1>3
<1>5. CallsInv' /\ CallsConfirmed' BY <1>1, <1>2, <1>3, <1>4, CallsContinue
<1> QED BY <1>3, <1>5 DEF ConfigInv, OwnershipInv

LEMMA QuietAnswer ==
  ASSUME ConfigInv, NEW th \in Threads, Answered(th),
         UNCHANGED <<file, said, confirmed, overtaken>>, backup' \in {Absent, Version1},
         calls' \in 0..MaxCalls, faults' \in 0..MaxFaults
  PROVE  ConfigInv'
<1>1. /\ FilesInv' /\ SaidInv' /\ confirmed' \subseteq Urls /\ Confirmed(file)'
      /\ file # Absent => file' # Absent
      /\ confirmed' = confirmed
  BY FilesStay
<1>2. CallsInv' /\ CallsConfirmed' BY <1>1, CallsAnswer DEF ConfigInv, OwnershipInv
<1> QED BY <1>1, <1>2 DEF ConfigInv, OwnershipInv

\* One more call, or one more fault, stays within its bound.
LEMMA Counted ==
  ASSUME ConfigInv
  PROVE  /\ calls \in 0..MaxCalls /\ faults \in 0..MaxFaults /\ backup \in {Absent, Version1}
         /\ calls < MaxCalls => calls + 1 \in 0..MaxCalls
         /\ faults < MaxFaults => faults + 1 \in 0..MaxFaults
<1>1. calls \in 0..MaxCalls /\ faults \in 0..MaxFaults /\ backup \in {Absent, Version1}
  BY DEF ConfigInv, FilesInv
<1>2. calls < MaxCalls => calls + 1 \in 0..MaxCalls BY <1>1, BoundsAssumption, SMT
<1>3. faults < MaxFaults => faults + 1 \in 0..MaxFaults BY <1>1, BoundsAssumption, SMT
<1> QED BY <1>1, <1>2, <1>3

\* One lemma for each action of TargetConfig: the step keeps the invariant.
LEMMA ProbeKeepsInv ==
  ASSUME ConfigInv, NEW th \in Threads, Probe(th) PROVE ConfigInv'
<1> DEFINE step == IF call[th].known THEN "load" ELSE "read"
<1>1. call[th].at # "idle" /\ CallsInv BY DEF Probe, At, ConfigInv
<1>2. call[th] \in Configures BY <1>1, Served DEF Probe, At
<1>3. Fits(th, step) BY <1>2, CallKinds DEF Fits, Loads, Configures
<1>4. Continues(th, step, call[th].base) BY <1>1, <1>3, GotoContinues DEF Probe
<1>5. step \notin {"migrate", "backup", "replace"} OBVIOUS
<1> HIDE DEF step
<1> QED BY <1>1, <1>4, <1>5, Held, Counted, QuietContinue DEF Probe, NoFault, history

LEMMA LoadFileKeepsInv ==
  ASSUME ConfigInv, NEW th \in Threads, LoadFile(th) PROVE ConfigInv'
<1>1. call[th].at # "idle" /\ CallsInv BY DEF LoadFile, At, ConfigInv
<1>2. UNCHANGED <<file, said, confirmed, overtaken>> /\ UNCHANGED <<backup, calls, faults>>
  BY DEF LoadFile, NoFault, history
<1>3. CASE file # Absent /\ Goto(th, "migrate")
  <2>1. Fits(th, "migrate") BY <1>1, Served DEF Fits
  <2>2. Continues(th, "migrate", call[th].base) BY <1>1, <1>3, <2>1, GotoContinues
  <2> QED BY <1>1, <1>2, <1>3, <2>2, Held, Counted, QuietContinue
<1>4. CASE Loaded(th, file)
  <2>1. CASE Continues(th, "read", call[th].base) BY <1>1, <1>2, <2>1, Held, Counted, QuietContinue
  <2>2. CASE Answered(th) BY <1>2, <2>2, Counted, QuietAnswer
  <2> QED BY <1>1, <1>4, <2>1, <2>2, LoadedContinues
<1> QED BY <1>3, <1>4 DEF LoadFile

LEMMA MigrateReadKeepsInv ==
  ASSUME ConfigInv, NEW th \in Threads, MigrateRead(th) PROVE ConfigInv'
<1> DEFINE step == IF file.schema = "v1" /\ backup = Absent THEN "backup" ELSE "replace"
<1>1. call[th].at = "migrate" /\ call[th].at # "idle" /\ CallsInv BY DEF MigrateRead, At, ConfigInv
<1>2. UNCHANGED <<file, said, confirmed, overtaken>> /\ UNCHANGED <<backup, calls, faults>>
  BY DEF MigrateRead, NoFault, history
<1>3. Valid(file) /\ file # Absent /\ file \in Bases /\ Confirmed(file)
  BY <1>1, Held DEF ConfigInv, FilesInv, OwnershipInv, Valid, Bases
<1>4. Fits(th, step) BY <1>1, Served DEF Fits
<1>5. Continues(th, step, file) BY <1>1, <1>3, <1>4, ReadContinues DEF MigrateRead
<1>6. step = "backup" => file = Version1 BY <1>3 DEF Valid
<1>7. step # "migrate" OBVIOUS
<1> HIDE DEF step
<1> QED BY <1>1, <1>2, <1>3, <1>5, <1>6, <1>7, Counted, QuietContinue

LEMMA MigrateBackupKeepsInv ==
  ASSUME ConfigInv, NEW th \in Threads, MigrateBackup(th) PROVE ConfigInv'
<1>1. call[th].at = "backup" /\ call[th].at # "idle" /\ CallsInv BY DEF MigrateBackup, At, ConfigInv
<1>2. UNCHANGED <<file, said, confirmed, overtaken>> /\ UNCHANGED <<calls, faults>>
  BY DEF MigrateBackup, NoFault, history
<1>3. backup' = Version1 BY <1>1, Held DEF MigrateBackup
<1>4. Fits(th, "replace") BY <1>1, Served DEF Fits
<1>5. Continues(th, "replace", call[th].base) BY <1>1, <1>4, GotoContinues DEF MigrateBackup
<1> QED BY <1>1, <1>2, <1>3, <1>5, Held, Counted, QuietContinue

LEMMA SaveReadKeepsInv ==
  ASSUME ConfigInv, NEW th \in Threads, SaveRead(th) PROVE ConfigInv'
<1>1. call[th].at # "idle" /\ CallsInv BY DEF SaveRead, At, ConfigInv
<1>2. UNCHANGED <<file, said, confirmed, overtaken>> /\ UNCHANGED <<backup, calls>>
  BY DEF SaveRead, history
<1>3. faults' \in 0..MaxFaults BY Counted DEF SaveRead, NoFault, Fault
<1>4. Fits(th, "write") BY <1>1, Served, CallKinds DEF Fits, SaveRead, At
<1>5. PICK document \in {file, Absent} : Read(th, document, "write") BY DEF SaveRead
<1>6. document \in Bases /\ (document = Absent \/ Valid(document)) /\ Confirmed(document)
  BY DEF ConfigInv, FilesInv, OwnershipInv, Valid, Bases, Confirmed, TargetsOf
<1>7. Continues(th, "write", document) BY <1>1, <1>4, <1>5, <1>6, ReadContinues
<1> QED BY <1>1, <1>2, <1>3, <1>6, <1>7, Counted, QuietContinue

LEMMA RefuseKeepsInv ==
  ASSUME ConfigInv, NEW th \in Threads, Refuse(th) PROVE ConfigInv'
<1>1. Answered(th) BY AnswerAnswers DEF Refuse, ConfigInv
<1>2. UNCHANGED <<file, said, confirmed, overtaken>> /\ UNCHANGED <<backup, calls>> BY DEF Refuse, history
<1>3. faults' \in 0..MaxFaults BY Counted DEF Refuse, Fault
<1> QED BY <1>1, <1>2, <1>3, Counted, QuietAnswer

LEMMA ConfigureKeepsInv ==
  ASSUME ConfigInv, NEW th \in Threads, NEW u \in Urls, NEW owned \in BOOLEAN, NEW known \in BOOLEAN,
         Configure(th, u, owned, known)
  PROVE  ConfigInv'
<1> DEFINE target == Target(u, owned, calls')
           request == [at |-> "probe", op |-> "configure", known |-> known, base |-> Absent, target |-> target]
<1>1. /\ UNCHANGED <<file, said, overtaken, backup, faults>>
      /\ calls' \in 0..MaxCalls /\ call' = [call EXCEPT ![th] = request]
      /\ confirmed' = IF owned THEN confirmed \cup {u} ELSE confirmed
  BY Counted DEF Configure
<1>2. target \in Targets /\ target.url = u /\ target.owned = owned
  <2>1. target = [url |-> u, owned |-> owned, n |-> calls'] BY DEF Target
  <2> HIDE DEF target
  <2>2. target.url = u /\ target.owned = owned BY <2>1
  <2>3. target \in Targets BY <1>1, <2>1 DEF Targets
  <2> QED BY <2>2, <2>3
<1> HIDE DEF target
<1>3. request \in Configures BY <1>2 DEF Configures, Bases
<1>4. /\ request # Idle /\ request.base = Absent /\ request.at = "probe"
      /\ request.target = target /\ request.op = "configure"
  BY <1>3, CallKinds
<1> HIDE DEF request
<1>5. CallsInv'
  <2>1. call \in [Threads -> {Idle} \cup Loads \cup Configures] BY DEF ConfigInv, CallsInv
  <2>2. call'[th] = request /\ \A x \in Threads \ {th} : call'[x] = call[x] BY <1>1, <2>1
  <2>3. call' \in [Threads -> {Idle} \cup Loads \cup Configures] BY <1>1, <1>3, <2>1
  <2> QED BY <1>1, <1>4, <2>2, <2>3 DEF ConfigInv, CallsInv
<1>6. OwnershipInv'
  <2>1. call \in [Threads -> {Idle} \cup Loads \cup Configures] BY DEF ConfigInv, CallsInv
  <2>2. call'[th] = request /\ \A x \in Threads \ {th} : call'[x] = call[x] BY <1>1, <2>1
  <2>3. confirmed \subseteq confirmed' /\ confirmed' \subseteq Urls /\ (owned => u \in confirmed')
    BY <1>1 DEF ConfigInv, OwnershipInv
  <2>4. Confirmed(file)' BY <1>1, <2>3 DEF ConfigInv, OwnershipInv, Confirmed
  <2>5. ASSUME NEW x \in Threads \ {th}, call'[x] # Idle
        PROVE  (/\ Confirmed(call[x].base)
                /\ call[x].op = "configure" /\ call[x].target.owned => call[x].target.url \in confirmed)'
    BY <2>2, <2>3, <2>5 DEF ConfigInv, OwnershipInv, CallsConfirmed, Confirmed
  <2>6. (/\ Confirmed(call[th].base)
         /\ call[th].op = "configure" /\ call[th].target.owned => call[th].target.url \in confirmed)'
    BY <1>2, <1>4, <2>2, <2>3 DEF Confirmed, TargetsOf
  <2> QED BY <2>3, <2>4, <2>5, <2>6 DEF OwnershipInv, CallsConfirmed
<1>7. FilesInv' /\ SaidInv' BY <1>1 DEF ConfigInv, FilesInv, SaidInv, AnsweredIsKept
<1> QED BY <1>5, <1>6, <1>7 DEF ConfigInv

LEMMA LoadKeepsInv ==
  ASSUME ConfigInv, NEW th \in Threads, Load(th) PROVE ConfigInv'
<1> DEFINE request == [at |-> "load", op |-> "load", base |-> Absent]
<1>1. /\ UNCHANGED <<file, said, overtaken, backup, faults, confirmed>>
      /\ calls' \in 0..MaxCalls /\ call' = [call EXCEPT ![th] = request]
  BY Counted DEF Load, history
<1>2. request \in Loads BY DEF Loads, Bases
<1>3. /\ request # Idle /\ request.base = Absent /\ request.at = "load" /\ request.op = "load"
  BY <1>2, CallKinds
<1> HIDE DEF request
<1>4. call \in [Threads -> {Idle} \cup Loads \cup Configures] BY DEF ConfigInv, CallsInv
<1>5. call'[th] = request /\ \A x \in Threads \ {th} : call'[x] = call[x] BY <1>1, <1>4
<1>6. CallsInv' BY <1>1, <1>2, <1>3, <1>4, <1>5 DEF ConfigInv, CallsInv
<1>7. OwnershipInv'
  <2>1. confirmed \subseteq Urls /\ Confirmed(file) /\ CallsConfirmed BY DEF ConfigInv, OwnershipInv
  <2>2. Confirmed(file)' BY <1>1, <2>1 DEF Confirmed
  <2>3. CallsConfirmed' BY <1>1, <1>3, <1>5, <2>1 DEF CallsConfirmed, Confirmed, TargetsOf
  <2> QED BY <1>1, <2>1, <2>2, <2>3 DEF OwnershipInv
<1>8. FilesInv' /\ SaidInv' BY <1>1 DEF ConfigInv, FilesInv, SaidInv, AnsweredIsKept
<1> QED BY <1>6, <1>7, <1>8 DEF ConfigInv

LEMMA MigrateWriteKeepsInv ==
  ASSUME ConfigInv, NEW th \in Threads, MigrateWrite(th) PROVE ConfigInv'
<1> DEFINE document == Migrated(call[th].base)
<1>1. /\ call[th].at = "replace" /\ call[th].at # "idle" /\ CallsInv /\ CallsConfirmed /\ call[th] # Idle
      /\ FilesInv /\ SaidInv /\ confirmed \subseteq Urls
  BY Served DEF MigrateWrite, At, ConfigInv, OwnershipInv
<1>2. UNCHANGED <<backup, said, confirmed, calls, faults>> BY DEF MigrateWrite, NoFault
<1>3. file' = document /\ overtaken' = (overtaken \/ call[th].base # file) BY DEF MigrateWrite, Replace
<1>4. Valid(call[th].base) /\ Confirmed(call[th].base) BY <1>1, Held
<1>5. Valid(document) /\ document # Absent /\ TargetsOf(document) = TargetsOf(call[th].base)
  BY <1>4, MigratedKeeps
<1> HIDE DEF document
<1>6. FilesInv'
  <2>1. overtaken' \in BOOLEAN BY <1>3, Zenon
  <2> QED BY <1>1, <1>2, <1>3, <1>5, <2>1 DEF FilesInv
<1>7. SaidInv'
  <2>1. TargetsOf(file') = TargetsOf(call[th].base) BY <1>3, <1>5
  <2>2. ~overtaken' => ~overtaken /\ TargetsOf(file') = TargetsOf(file) BY <1>3, <2>1
  <2> QED BY <1>1, <1>2, <2>2 DEF SaidInv, AnsweredIsKept
<1>8. Confirmed(file)' BY <1>2, <1>3, <1>4, <1>5 DEF Confirmed
<1>9. (Goto(th, "read") /\ call[th].op = "configure") \/ Answer(th) BY DEF MigrateWrite, Loaded
<1>10. CallsInv' /\ CallsConfirmed'
  <2>1. CASE Goto(th, "read") /\ call[th].op = "configure"
    <3>1. Fits(th, "read") BY <1>1, <2>1, Served, CallKinds DEF Fits
    <3>2. Continues(th, "read", call[th].base) BY <1>1, <2>1, <3>1, GotoContinues
    <3> QED BY <1>1, <1>2, <1>3, <1>4, <1>5, <3>2, CallsContinue
  <2>2. CASE Answer(th)
    <3>1. Answered(th) BY <1>1, <2>2, AnswerAnswers
    <3> QED BY <1>1, <1>2, <1>3, <1>5, <3>1, CallsAnswer
  <2> QED BY <1>9, <2>1, <2>2
<1> QED BY <1>1, <1>2, <1>6, <1>7, <1>8, <1>10 DEF ConfigInv, OwnershipInv

LEMMA SaveWriteKeepsInv ==
  ASSUME ConfigInv, NEW th \in Threads, SaveWrite(th) PROVE ConfigInv'
<1> DEFINE target == call[th].target
           document == Updated(call[th].base, target)
<1>1. /\ call[th].at = "write" /\ call[th].at # "idle" /\ CallsInv /\ CallsConfirmed /\ call[th] # Idle
      /\ FilesInv /\ SaidInv /\ confirmed \subseteq Urls
  BY Served DEF SaveWrite, At, ConfigInv, OwnershipInv
<1>2. UNCHANGED <<backup, confirmed, calls, faults>> BY DEF SaveWrite, NoFault
<1>3. /\ file' = document /\ overtaken' = (overtaken \/ call[th].base # file)
      /\ said' = [u \in DOMAIN said \cup {target.url} |-> IF u = target.url THEN target ELSE said[u]]
  BY DEF SaveWrite, Replace
<1>4. /\ target \in Targets /\ target.url \in Urls
      /\ target.owned => target.url \in confirmed
  <2>1. target \in Targets /\ call[th].op = "configure" BY <1>1, Served
  <2>2. target.url \in Urls BY <2>1, SMT DEF Targets
  <2>3. target.owned => target.url \in confirmed BY <1>1, <2>1 DEF CallsConfirmed
  <2> QED BY <2>1, <2>2, <2>3
<1>5. (call[th].base = Absent \/ Valid(call[th].base)) /\ Confirmed(call[th].base) BY <1>1, Held
<1>6. /\ Valid(document) /\ document # Absent
      /\ TargetsOf(document) = {target} \cup {t \in TargetsOf(call[th].base) : t.url # target.url}
  BY <1>4, <1>5, UpdatedReplaces
<1> HIDE DEF document, target
<1>7. FilesInv'
  <2>1. overtaken' \in BOOLEAN BY <1>3, Zenon
  <2> QED BY <1>1, <1>2, <1>3, <1>6, <2>1 DEF FilesInv
<1>8. Confirmed(file)' BY <1>2, <1>3, <1>4, <1>5, <1>6 DEF Confirmed
<1>9. SaidInv'
  <2>1. DOMAIN said' = DOMAIN said \cup {target.url} BY <1>3
  <2>2. \A u \in DOMAIN said' : said'[u] = IF u = target.url THEN target ELSE said[u] BY <1>3, <2>1
  <2>3. DOMAIN said' \subseteq Urls BY <1>1, <1>4, <2>1 DEF SaidInv
  <2>4. \A u \in DOMAIN said' : said'[u].url = u BY <1>1, <2>1, <2>2 DEF SaidInv
  <2>5. AnsweredIsKept'
    <3> SUFFICES ASSUME ~overtaken', NEW u \in DOMAIN said' PROVE said'[u] \in TargetsOf(document)
      BY <1>3 DEF AnsweredIsKept
    <3>1. ~overtaken /\ call[th].base = file BY <1>3
    <3>2. CASE u = target.url BY <1>6, <2>2, <3>2
    <3>3. CASE u # target.url
      <4>1. u \in DOMAIN said /\ said'[u] = said[u] BY <2>1, <2>2, <3>3
      <4>2. said[u] \in TargetsOf(file) /\ said[u].url = u BY <1>1, <3>1, <4>1 DEF SaidInv, AnsweredIsKept
      <4> QED BY <1>6, <3>1, <3>3, <4>1, <4>2
    <3> QED BY <3>2, <3>3
  <2> QED BY <2>3, <2>4, <2>5 DEF SaidInv
<1>10. Answered(th) BY <1>1, AnswerAnswers DEF SaveWrite
<1>11. CallsInv' /\ CallsConfirmed' BY <1>1, <1>2, <1>3, <1>6, <1>10, CallsAnswer
<1> QED BY <1>1, <1>2, <1>7, <1>8, <1>9, <1>11 DEF ConfigInv, OwnershipInv

LEMMA KillKeepsInv ==
  ASSUME ConfigInv, Kill PROVE ConfigInv'
<1>1. UNCHANGED <<file, said, confirmed, overtaken, backup, calls>> BY DEF Kill, history
<1>2. faults' \in 0..MaxFaults BY Counted DEF Kill, Fault
<1>3. \A th \in Threads : call'[th] = Idle BY DEF Kill
<1>4. call' \in [Threads -> {Idle} \cup Loads \cup Configures] BY DEF Kill
<1>5. CallsInv' /\ CallsConfirmed' BY <1>3, <1>4 DEF CallsInv, CallsConfirmed
<1>6. FilesInv' /\ SaidInv' /\ confirmed' \subseteq Urls /\ Confirmed(file)' BY <1>1, <1>2, Counted, FilesStay
<1> QED BY <1>5, <1>6 DEF ConfigInv, OwnershipInv

\* Every step keeps the invariant.
LEMMA InvNext == ConfigInv /\ [Next]_vars => ConfigInv'
<1> SUFFICES ASSUME ConfigInv, [Next]_vars PROVE ConfigInv' OBVIOUS
<1>1. CASE UNCHANGED vars
  BY <1>1 DEF vars, ConfigInv, FilesInv, CallsInv, OwnershipInv, CallsConfirmed, Confirmed, SaidInv, AnsweredIsKept
<1>2. ASSUME NEW th \in Threads, NEW u \in Urls, NEW owned \in BOOLEAN, NEW known \in BOOLEAN,
             Configure(th, u, owned, known)
      PROVE  ConfigInv'
  BY <1>2, ConfigureKeepsInv
<1>3. ASSUME NEW th \in Threads, Load(th) \/ Step(th) PROVE ConfigInv'
  BY <1>3, LoadKeepsInv, ProbeKeepsInv, LoadFileKeepsInv, MigrateReadKeepsInv, MigrateBackupKeepsInv,
     MigrateWriteKeepsInv, SaveReadKeepsInv, SaveWriteKeepsInv, RefuseKeepsInv DEF Step
<1>4. CASE Kill BY <1>4, KillKeepsInv
<1> QED BY <1>1, <1>2, <1>3, <1>4 DEF Next

\* The invariant holds of every behaviour.
THEOREM Invariance == Spec => []ConfigInv
BY InvInit, InvNext, PTL DEF Spec

\* In a valid document there are as many URLs as targets, so no more than there are.
LEMMA ValidDocument == ASSUME NEW d, Valid(d) PROVE Document(d)
<1> DEFINE targets == d.targets
           url == [k \in 1..Len(targets) |-> targets[k].url]
<1>1. /\ d \in Documents /\ targets \in Seq(Targets) /\ targets # <<>>
      /\ Len(targets) \in Nat /\ DOMAIN targets = 1..Len(targets) /\ d # Absent
  BY AbsentAssumption, SMT DEF Valid, Documents
<1>2. \A k \in 1..Len(targets) : targets[k].url \in Urls
  <2> SUFFICES ASSUME NEW k \in 1..Len(targets) PROVE targets[k].url \in Urls OBVIOUS
  <2>1. targets[k] \in Targets BY <1>1
  <2> QED BY <2>1, SMT DEF Targets
<1>3. UrlsOf(d) = {url[k] : k \in 1..Len(targets)} BY <1>1 DEF UrlsOf
<1>4. url \in Bijection(1..Len(targets), UrlsOf(d))
  BY <1>1, <1>3 DEF Valid, Bijection, Injection, Surjection, IsInjective
<1>5. Cardinality(UrlsOf(d)) = Len(targets)
  BY <1>1, <1>4, FS_CountingElements DEF ExistsBijection
<1>6. UrlsOf(d) \subseteq Urls BY <1>2, <1>3
<1>7. Len(targets) \in 1..Cardinality(Urls)
  <2>1. Len(targets) <= Cardinality(Urls) /\ Cardinality(Urls) \in Nat
    BY <1>5, <1>6, FS_Subset, FS_CardinalityType, OldUrlAssumption
  <2>2. Len(targets) # 0 BY <1>1, SMT
  <2> QED BY <1>1, <2>1, <2>2, SMT
<1> QED BY <1>1, <1>5, <1>7 DEF Document

\* validate_config accepts the file in every state, whoever wrote it last: the
\* targets have distinct identities, and no call holds a document it would refuse.
THEOREM TypeCorrect == Spec => []TypeOK
<1>1. ConfigInv => TypeOK
  BY ValidDocument DEF ConfigInv, FilesInv, CallsInv, OwnershipInv, SaidInv, TypeOK
<1> QED BY <1>1, Invariance, PTL

\* What configure has answered stays in the file until the next configure of that
\* target, as long as no writer replaces another document than it has read:
\* save_configuration and migrate_config lose nothing by themselves.
THEOREM AnswersAreKept == Spec => []AnsweredIsKept
<1>1. ConfigInv => AnsweredIsKept BY DEF ConfigInv, SaidInv
<1> QED BY <1>1, Invariance, PTL

\* SC-SEO-042 for any number of threads, however they overtake each other and
\* whatever fails: no target is marked as owned that no user has confirmed.
THEOREM OwnersAreConfirmed == Spec => []OwnershipWasConfirmed
<1>1. ConfigInv => OwnershipWasConfirmed
  BY DEF ConfigInv, OwnershipInv, Confirmed, OwnershipWasConfirmed
<1> QED BY <1>1, Invariance, PTL
=============================================================================
