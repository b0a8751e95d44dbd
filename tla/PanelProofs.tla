------------------------------ MODULE PanelProofs ------------------------------
(***************************************************************************)
(* Proofs about Panel, for any targets, any number of items, clicks and     *)
(* failing calls, and any poll deadline.  The page is safe because at most  *)
(* one call or timer asks for the state at a time (ChainInv): an answer     *)
(* that the page takes is then never older than what it shows (ShownInv),   *)
(* although answers come in any order and most of them are dropped.  The     *)
(* bounds rest on that, and on an account of items and commands (BoundsInv). *)
(***************************************************************************)
EXTENDS Panel, FiniteSetTheorems, SequenceTheorems, TLAPS

States == {"none", "unknown", "empty", "queued", "running", "ready", "failed", "settled"}
Documents == [target : Targets \cup {None}, saved : Nat]
AllAnswers ==
  [state : States, document : Documents, view : [Targets -> States], summary : [Targets -> States],
   known : SUBSET Targets, item : States]
Kinds == {"boot", "refresh", "poll", "run", "save"}
Stages == {"sent", "half", "answered"}
AllCalls == [kind : Kinds, target : Targets \cup {None}, live : BOOLEAN, stage : Stages, answer : AllAnswers]
Pages ==
  [state : States, document : Documents, view : [Targets -> States], named : Targets \cup {None},
   item : States, summary : [Targets -> States], listed : SUBSET Targets, detailed : SUBSET Targets,
   selected : Targets \cup {None}, saved : Targets \cup {None}, busy : BOOLEAN]
Items == [target : Targets, trigger : {"manual", "daily"}, status : States]
Stored == [state : States, saved : Nat]

TypeInv ==
  /\ configured \subseteq Targets /\ queue \in Seq(Items) /\ doc \in [Targets -> Stored]
  /\ page \in Pages /\ timers \in Seq(Targets) /\ calls \in Seq(AllCalls)
  /\ seen \in [Targets -> Nat] /\ strayed \in BOOLEAN

\* Calls whose answer is shown, and those that keep the page in motion.
StateKinds == {"boot", "refresh", "poll"}
Asks(cs) == {i \in 1..Len(cs) : cs[i].kind \in StateKinds /\ cs[i].live}
Watches(cs) == {i \in 1..Len(cs) : cs[i].kind \in {"boot", "refresh", "poll", "run"} /\ cs[i].live}

\* What a call in flight asks for, and how old its answer can be.
Aims(c, selected) ==
  IF c.kind = "boot" THEN c.target = None ELSE c.target = selected /\ selected # None
Fresh(c, known, stored) ==
  LET d == c.answer.document IN
  c.stage # "sent" /\ d.target # None =>
    /\ known[d.target] <= d.saved /\ d.saved <= stored[d.target].saved
    /\ IF c.kind = "boot" THEN c.answer.known = {d.target} ELSE d.target = c.target

\* One timer or one call asks for the state.
ChainInv ==
  /\ \A i, j \in Asks(calls) : i = j
  /\ timers # <<>> => Len(timers) = 1 /\ timers[1] = page.selected /\ Asks(calls) = {}
  /\ \A i \in Asks(calls) : Aims(calls[i], page.selected)
  /\ \A i \in 1..Len(calls) : calls[i].kind = "run" => calls[i].target # None

\* The page has seen no more than there is and shows the last that it has seen.
ShownInv ==
  /\ \A t \in Targets : seen[t] <= doc[t].saved
  /\ NewestIsShown
  /\ \A i \in Asks(calls) : Fresh(calls[i], seen, doc)

PanelInv == TypeInv /\ ChainInv /\ ShownInv /\ WaitingIsWatched
-----------------------------------------------------------------------------
(* The records of the page, of a call and of an answer, field by field.     *)

LEMMA PageFields ==
  ASSUME NEW p \in Pages
  PROVE  /\ p.state \in States /\ p.document \in Documents /\ p.view \in [Targets -> States]
         /\ p.named \in Targets \cup {None} /\ p.item \in States /\ p.summary \in [Targets -> States]
         /\ p.listed \subseteq Targets /\ p.detailed \subseteq Targets
         /\ p.selected \in Targets \cup {None} /\ p.saved \in Targets \cup {None} /\ p.busy \in BOOLEAN
BY SMT DEF Pages

\* The same document of the same target.
Shown(n, p) == n.document = p.document /\ n.selected = p.selected

LEMMA PageStates ==
  ASSUME NEW p \in Pages, NEW s \in States
  PROVE  /\ LET n == [p EXCEPT !.state = s] IN n \in Pages /\ Shown(n, p)
         /\ LET n == [p EXCEPT !.item = s] IN n \in Pages /\ Shown(n, p)
BY SMT DEF Pages, Shown

LEMMA PageTargets ==
  ASSUME NEW p \in Pages, NEW t \in Targets \cup {None}
  PROVE  /\ LET n == [p EXCEPT !.named = t] IN n \in Pages /\ Shown(n, p)
         /\ LET n == [p EXCEPT !.saved = t] IN n \in Pages /\ Shown(n, p)
BY SMT DEF Pages, Shown

LEMMA PageSelected ==
  ASSUME NEW p \in Pages, NEW t \in Targets \cup {None}
  PROVE  LET n == [p EXCEPT !.selected = t] IN n \in Pages /\ n.selected = t /\ n.document = p.document
BY SMT DEF Pages, Shown

LEMMA PageSets ==
  ASSUME NEW p \in Pages, NEW S \in SUBSET Targets
  PROVE  /\ LET n == [p EXCEPT !.listed = S] IN n \in Pages /\ Shown(n, p)
         /\ LET n == [p EXCEPT !.detailed = S] IN n \in Pages /\ Shown(n, p)
BY SMT DEF Pages, Shown

LEMMA PageViews ==
  ASSUME NEW p \in Pages, NEW v \in [Targets -> States]
  PROVE  /\ LET n == [p EXCEPT !.view = v] IN n \in Pages /\ Shown(n, p)
         /\ LET n == [p EXCEPT !.summary = v] IN n \in Pages /\ Shown(n, p)
BY SMT DEF Pages, Shown

LEMMA PageDocument ==
  ASSUME NEW p \in Pages, NEW d \in Documents
  PROVE  LET n == [p EXCEPT !.document = d] IN n \in Pages /\ n.document = d /\ n.selected = p.selected
BY SMT DEF Pages, Shown

LEMMA PageBusy ==
  ASSUME NEW p \in Pages, NEW b \in BOOLEAN
  PROVE  LET n == [p EXCEPT !.busy = b] IN n \in Pages /\ Shown(n, p)
BY SMT DEF Pages, Shown

LEMMA CallFields ==
  ASSUME NEW c \in AllCalls
  PROVE  /\ c.kind \in Kinds /\ c.target \in Targets \cup {None} /\ c.live \in BOOLEAN
         /\ c.stage \in Stages /\ c.answer \in AllAnswers
BY SMT DEF AllCalls

LEMMA AnswerFields ==
  ASSUME NEW a \in AllAnswers
  PROVE  /\ a.state \in States /\ a.document \in Documents /\ a.view \in [Targets -> States]
         /\ a.summary \in [Targets -> States] /\ a.known \subseteq Targets /\ a.item \in States
BY SMT DEF AllAnswers

LEMMA DocumentFields ==
  ASSUME NEW d \in Documents
  PROVE  d.target \in Targets \cup {None} /\ d.saved \in Nat
BY SMT DEF Documents

LEMMA NoAnswerIsAnswer ==
  /\ NoDocument \in Documents /\ NoDocument.target = None
  /\ NoAnswer \in AllAnswers /\ NoAnswer.document = NoDocument
<1>1. NoDocument \in Documents /\ NoDocument.target = None BY SMT DEF NoDocument, Documents
<1>2. {"none", "empty", "unknown"} \subseteq States BY DEF States
<1>3. [t \in Targets |-> "none"] \in [Targets -> States] /\ [t \in Targets |-> "unknown"] \in [Targets -> States]
  BY <1>2
<1>4. "none" \in States /\ {} \in SUBSET Targets BY <1>2
<1> HIDE DEF States
<1>5. NoAnswer \in AllAnswers BY <1>1, <1>3, <1>4 DEF NoAnswer, AllAnswers
<1>6. NoAnswer.document = NoDocument BY DEF NoAnswer
<1> QED BY <1>1, <1>5, <1>6

LEMMA NewCall ==
  ASSUME NEW kind \in Kinds, NEW t \in Targets \cup {None}
  PROVE  LET c == Call(kind, t) IN
         c \in AllCalls /\ c.kind = kind /\ c.target = t /\ c.live /\ c.stage = "sent"
<1>1. NoAnswer \in AllAnswers /\ TRUE \in BOOLEAN /\ "sent" \in Stages BY NoAnswerIsAnswer DEF Stages
<1> QED BY <1>1, SMT DEF Call, AllCalls
-----------------------------------------------------------------------------
(* The calls in flight.                                                     *)

LEMMA CancelledCalls ==
  ASSUME NEW cs \in Seq(AllCalls)
  PROVE  /\ Cancelled(cs) \in Seq(AllCalls) /\ Len(Cancelled(cs)) = Len(cs)
         /\ \A i \in 1..Len(cs) :
              ~Cancelled(cs)[i].live /\ Cancelled(cs)[i].kind = cs[i].kind /\ Cancelled(cs)[i].target = cs[i].target
<1>1. ASSUME NEW i \in 1..Len(cs)
      PROVE  LET c == [cs[i] EXCEPT !.live = FALSE] IN
             c \in AllCalls /\ ~c.live /\ c.kind = cs[i].kind /\ c.target = cs[i].target
  <2>1. cs[i] \in AllCalls BY SMT
  <2>2. ASSUME NEW b \in BOOLEAN, NEW r \in AllCalls
        PROVE  LET c == [r EXCEPT !.live = b] IN
               c \in AllCalls /\ c.live = b /\ c.kind = r.kind /\ c.target = r.target
    BY SMT DEF AllCalls
  <2>3. FALSE \in BOOLEAN OBVIOUS
  <2> QED BY <2>1, <2>2, <2>3
<1>2. \A i \in 1..Len(cs) : Cancelled(cs)[i] = [cs[i] EXCEPT !.live = FALSE] BY DEF Cancelled
<1>3. Len(cs) \in Nat BY SMT
<1>4. Cancelled(cs) = [i \in 1..Len(cs) |-> Cancelled(cs)[i]] BY DEF Cancelled
<1>5. \A i \in 1..Len(cs) : Cancelled(cs)[i] \in AllCalls BY <1>1, <1>2
<1>6. Cancelled(cs) \in Seq(AllCalls) /\ Len(Cancelled(cs)) = Len(cs) BY <1>3, <1>4, <1>5, IsASeq, LenProperties
<1> QED BY <1>1, <1>2, <1>6

LEMMA RestOfCalls ==
  ASSUME calls \in Seq(AllCalls), NEW i \in 1..Len(calls)
  PROVE  /\ Rest(i) \in Seq(AllCalls) /\ Len(Rest(i)) = Len(calls) - 1
         /\ \A j \in 1..Len(Rest(i)) : Rest(i)[j] = calls[IF j < i THEN j ELSE j + 1]
<1> DEFINE before == SubSeq(calls, 1, i - 1)
           after == SubSeq(calls, i + 1, Len(calls))
<1>1. Len(calls) \in Nat /\ i \in Int /\ 1 \in Int /\ i - 1 \in Int /\ i + 1 \in Int /\ Len(calls) \in Int BY SMT
<1>2. \A j \in 1..Len(calls) : calls[j] \in AllCalls BY ElementOfSeq
<1>3. /\ before \in Seq(AllCalls) /\ Len(before) = i - 1
      /\ \A j \in 1..(i - 1) : before[j] = calls[j]
  <2>1. \A j \in 1..(i - 1) : calls[j] \in AllCalls BY <1>1, <1>2, SMT
  <2>2. /\ before \in Seq(AllCalls) /\ Len(before) = IF 1 <= i - 1 THEN i - 1 - 1 + 1 ELSE 0
        /\ \A j \in 1..(i - 1 - 1 + 1) : before[j] = calls[1 + j - 1]
    BY <1>1, <2>1, SubSeqProperties
  <2> HIDE DEF before
  <2> QED BY <1>1, <2>2, SMT
<1>4. /\ after \in Seq(AllCalls) /\ Len(after) = Len(calls) - i
      /\ \A j \in 1..(Len(calls) - i) : after[j] = calls[i + j]
  <2>1. \A j \in (i + 1)..Len(calls) : calls[j] \in AllCalls BY <1>1, <1>2, SMT
  <2>2. /\ after \in Seq(AllCalls)
        /\ Len(after) = IF i + 1 <= Len(calls) THEN Len(calls) - (i + 1) + 1 ELSE 0
        /\ \A j \in 1..(Len(calls) - (i + 1) + 1) : after[j] = calls[i + 1 + j - 1]
    BY <1>1, <2>1, SubSeqProperties
  <2> HIDE DEF after
  <2> QED BY <1>1, <2>2, SMT
<1>5. Rest(i) = before \o after BY DEF Rest, RemoveAt
<1> HIDE DEF before, after
<1>6. /\ before \o after \in Seq(AllCalls) /\ Len(before \o after) = Len(before) + Len(after)
      /\ \A j \in 1..(Len(before) + Len(after)) :
           (before \o after)[j] = IF j <= Len(before) THEN before[j] ELSE after[j - Len(before)]
  BY <1>3, <1>4, ConcatProperties
<1>7. Rest(i) \in Seq(AllCalls) /\ Len(Rest(i)) = Len(calls) - 1 BY <1>1, <1>3, <1>4, <1>5, <1>6
<1>8. ASSUME NEW j \in 1..Len(Rest(i)) PROVE Rest(i)[j] = calls[IF j < i THEN j ELSE j + 1]
  <2>1. j \in Int /\ 1 <= j /\ j <= Len(calls) - 1 BY <1>1, <1>7, SMT
  <2>2. Rest(i)[j] = IF j <= i - 1 THEN before[j] ELSE after[j - (i - 1)]
    BY <1>1, <1>3, <1>4, <1>5, <1>6, <1>7
  <2>3. CASE j < i
    <3>1. j \in 1..(i - 1) BY <1>1, <2>1, <2>3, SMT
    <3> QED BY <1>1, <1>3, <2>1, <2>2, <2>3, <3>1
  <2>4. CASE ~(j < i)
    <3>1. ~(j <= i - 1) /\ j - (i - 1) \in 1..(Len(calls) - i) /\ i + (j - (i - 1)) = j + 1
      BY <1>1, <2>1, <2>4, SMT
    <3>2. after[j - (i - 1)] = calls[i + (j - (i - 1))] BY <1>4, <3>1
    <3> QED BY <2>2, <2>4, <3>1, <3>2
  <2> QED BY <2>3, <2>4
<1> QED BY <1>7, <1>8

LEMMA AppendedCall ==
  ASSUME NEW cs \in Seq(AllCalls), NEW c \in AllCalls
  PROVE  /\ Append(cs, c) \in Seq(AllCalls) /\ Len(Append(cs, c)) = Len(cs) + 1 /\ Len(cs) \in Nat
         /\ Append(cs, c)[Len(cs) + 1] = c
         /\ \A i \in 1..Len(cs) : Append(cs, c)[i] = cs[i]
BY SMT

\* Every call that asks is one of those in flight.
Inherits(cs) ==
  /\ \A j \in Asks(cs) : \E k \in Asks(calls) : cs[j] = calls[k]
  /\ \A j, k \in Asks(cs) : j = k
RunsAim(cs) == \A j \in 1..Len(cs) : cs[j].kind = "run" => cs[j].target # None

LEMMA QuietCalls ==
  ASSUME NEW cs \in Seq(AllCalls), RunsAim(cs)
  PROVE  Cancelled(cs) \in Seq(AllCalls) /\ Asks(Cancelled(cs)) = {} /\ RunsAim(Cancelled(cs))
BY CancelledCalls DEF Asks, RunsAim

LEMMA RestInherits ==
  ASSUME PanelInv, NEW i \in 1..Len(calls)
  PROVE  /\ Rest(i) \in Seq(AllCalls) /\ Inherits(Rest(i)) /\ RunsAim(Rest(i))
         /\ i \in Asks(calls) => Asks(Rest(i)) = {}
         /\ \A k \in Watches(calls) : k # i => Watches(Rest(i)) # {}
<1> DEFINE f(j) == IF j < i THEN j ELSE j + 1
<1>1. calls \in Seq(AllCalls) /\ Len(calls) \in Nat BY SMT DEF PanelInv, TypeInv
<1>2. /\ Rest(i) \in Seq(AllCalls) /\ Len(Rest(i)) = Len(calls) - 1
      /\ \A j \in 1..Len(Rest(i)) : Rest(i)[j] = calls[f(j)]
  BY <1>1, RestOfCalls
<1>3. ASSUME NEW j \in 1..Len(Rest(i)) PROVE f(j) \in 1..Len(calls) /\ f(j) # i
  BY <1>1, <1>2, SMT
<1>4. ASSUME NEW j \in 1..Len(Rest(i)), NEW k \in 1..Len(Rest(i)), f(j) = f(k) PROVE j = k
  BY <1>1, <1>2, <1>4, SMT
<1>5. ASSUME NEW k \in 1..Len(calls), k # i PROVE \E j \in 1..Len(Rest(i)) : f(j) = k
  <2> DEFINE j == IF k < i THEN k ELSE k - 1
  <2>1. j \in 1..Len(Rest(i)) /\ f(j) = k BY <1>1, <1>2, <1>5, SMT
  <2> QED BY <2>1
<1> HIDE DEF f
<1>6. \A j \in Asks(Rest(i)) : f(j) \in Asks(calls) /\ f(j) # i /\ Rest(i)[j] = calls[f(j)]
  BY <1>2, <1>3 DEF Asks
<1>7. \A j, k \in Asks(calls) : j = k BY DEF PanelInv, ChainInv
<1>8. Inherits(Rest(i)) BY <1>4, <1>6, <1>7 DEF Inherits, Asks
<1>9. RunsAim(Rest(i)) BY <1>2, <1>3 DEF RunsAim, PanelInv, ChainInv
<1>10. i \in Asks(calls) => Asks(Rest(i)) = {} BY <1>6, <1>7
<1>11. ASSUME NEW k \in Watches(calls), k # i PROVE Watches(Rest(i)) # {}
  <2>1. PICK j \in 1..Len(Rest(i)) : f(j) = k BY <1>5, <1>11 DEF Watches
  <2>2. Rest(i)[j] = calls[k] BY <1>2, <2>1
  <2>3. j \in Watches(Rest(i)) BY <1>11, <2>1, <2>2 DEF Watches
  <2> QED BY <2>3
<1> QED BY <1>2, <1>8, <1>9, <1>10, <1>11

\* A call is sent: it is the last of the calls.
LEMMA SentCall ==
  ASSUME NEW cs \in Seq(AllCalls), RunsAim(cs), NEW kind \in Kinds, NEW t \in Targets \cup {None},
         kind = "run" => t # None
  PROVE  LET n == Append(cs, Call(kind, t)) IN
         /\ n \in Seq(AllCalls) /\ RunsAim(n)
         /\ kind \notin StateKinds => \A j \in Asks(n) : j \in Asks(cs) /\ n[j] = cs[j]
         /\ kind \in StateKinds => \A j \in Asks(n) : j \in Asks(cs) \/ (j = Len(cs) + 1 /\ n[j] = Call(kind, t))
         /\ kind # "save" => Watches(n) # {}
         /\ Watches(cs) # {} => Watches(n) # {}
<1> DEFINE c == Call(kind, t)
           n == Append(cs, c)
<1>1. c \in AllCalls /\ c.kind = kind /\ c.target = t /\ c.live BY NewCall
<1> HIDE DEF c
<1>2. /\ n \in Seq(AllCalls) /\ Len(n) = Len(cs) + 1 /\ Len(cs) \in Nat
      /\ n[Len(cs) + 1] = c /\ \A i \in 1..Len(cs) : n[i] = cs[i]
  BY <1>1, AppendedCall
<1> HIDE DEF n
<1>3. \A j \in 1..Len(n) : j \in 1..Len(cs) \/ j = Len(cs) + 1 BY <1>2, SMT
<1>4. Len(cs) + 1 \in 1..Len(n) /\ 1..Len(cs) \subseteq 1..Len(n) BY <1>2, SMT
<1>5. RunsAim(n) BY <1>1, <1>2, <1>3 DEF RunsAim
<1>6. kind \notin StateKinds => \A j \in Asks(n) : j \in Asks(cs) /\ n[j] = cs[j]
  BY <1>1, <1>2, <1>3 DEF Asks
<1>7. \A j \in Asks(n) : j \in Asks(cs) \/ (j = Len(cs) + 1 /\ n[j] = c)
  BY <1>1, <1>2, <1>3 DEF Asks
<1>8. kind # "save" => Len(cs) + 1 \in Watches(n) BY <1>1, <1>2, <1>4 DEF Watches, Kinds
<1>9. \A j \in Watches(cs) : j \in Watches(n) BY <1>2, <1>4 DEF Watches
<1> QED BY <1>2, <1>5, <1>6, <1>7, <1>8, <1>9 DEF n, c
-----------------------------------------------------------------------------
(* What a step does to the chain, in four cases.                            *)

\* Nothing new is asked and nothing new is shown; a selection may be made.
LEMMA KeptChain ==
  ASSUME PanelInv, TypeInv', Inherits(calls'), RunsAim(calls'), UNCHANGED <<timers, seen>>,
         page'.selected = page.selected \/ page.selected = None, page'.document = page.document,
         \A t \in Targets : doc[t].saved <= doc'[t].saved
  PROVE  ChainInv' /\ ShownInv'
<1>1. \A j \in Asks(calls') : \E k \in Asks(calls) : calls'[j] = calls[k] /\ Aims(calls[k], page.selected) /\ Fresh(calls[k], seen, doc)
  BY DEF Inherits, PanelInv, ChainInv, ShownInv
<1>2. \A j \in Asks(calls') : Aims(calls'[j], page'.selected) BY <1>1 DEF Aims
<1>3. timers' # <<>> => Len(timers') = 1 /\ timers'[1] = page'.selected /\ Asks(calls') = {}
  <2>1. timers # <<>> => timers[1] \in Targets
    <3>1. timers \in Seq(Targets) /\ (timers # <<>> => Len(timers) = 1) BY DEF PanelInv, TypeInv, ChainInv
    <3> QED BY <3>1, SMT
  <2> QED BY <1>1, <2>1, NoneAssumption DEF PanelInv, ChainInv
<1>4. ChainInv' BY <1>2, <1>3 DEF ChainInv, Inherits, RunsAim, Asks
<1>5. \A t \in Targets : doc[t].saved \in Nat /\ doc'[t].saved \in Nat /\ seen[t] \in Nat
  BY SMT DEF PanelInv, TypeInv, Stored
<1>6. \A t \in Targets : seen'[t] <= doc'[t].saved
  <2> TAKE t \in Targets
  <2>1. seen[t] <= doc[t].saved BY DEF PanelInv, ShownInv
  <2> QED BY <1>5, <2>1, SMT
<1>7. ASSUME NEW j \in Asks(calls') PROVE Fresh(calls'[j], seen', doc')
  <2>1. PICK k \in Asks(calls) : calls'[j] = calls[k] /\ Fresh(calls[k], seen, doc) BY <1>1
  <2> DEFINE d == calls[k].answer.document
  <2>2. calls[k] \in AllCalls BY SMT DEF PanelInv, TypeInv, Asks
  <2>3. d.target \in Targets \cup {None} /\ d.saved \in Nat
    BY <2>2, CallFields, AnswerFields, DocumentFields
  <2> SUFFICES ASSUME calls[k].stage # "sent", d.target # None
               PROVE  /\ seen[d.target] <= d.saved /\ d.saved <= doc'[d.target].saved
                      /\ IF calls[k].kind = "boot" THEN calls[k].answer.known = {d.target} ELSE d.target = calls[k].target
    BY <2>1 DEF Fresh
  <2>4. /\ seen[d.target] <= d.saved /\ d.saved <= doc[d.target].saved
        /\ IF calls[k].kind = "boot" THEN calls[k].answer.known = {d.target} ELSE d.target = calls[k].target
    BY <2>1 DEF Fresh
  <2>5. d.target \in Targets /\ doc[d.target].saved <= doc'[d.target].saved BY <2>3
  <2> HIDE DEF d
  <2>6. d.saved <= doc'[d.target].saved BY <1>5, <2>3, <2>4, <2>5, SMT
  <2> QED BY <2>4, <2>6
<1>8. NewestIsShown' BY DEF PanelInv, ShownInv, NewestIsShown
<1>9. ShownInv' BY <1>6, <1>7, <1>8 DEF ShownInv, Asks
<1> QED BY <1>4, <1>9

\* Nobody asks any more, but for a timer.
LEMMA QuietChain ==
  ASSUME Asks(calls') = {}, RunsAim(calls'),
         timers' # <<>> => Len(timers') = 1 /\ timers'[1] = page'.selected,
         \A t \in Targets : seen'[t] <= doc'[t].saved, NewestIsShown'
  PROVE  ChainInv' /\ ShownInv'
BY DEF ChainInv, ShownInv, RunsAim, Asks

\* A call has been sent when nobody asked.
LEMMA AskedChain ==
  ASSUME NEW cs \in Seq(AllCalls), RunsAim(cs), Asks(cs) = {}, timers' = <<>>,
         NEW kind \in {"refresh", "poll"}, NEW t \in Targets, calls' = Append(cs, Call(kind, t)),
         t = page'.selected,
         \A u \in Targets : seen'[u] <= doc'[u].saved, NewestIsShown'
  PROVE  ChainInv' /\ ShownInv' /\ Watches(calls') # {} /\ calls' \in Seq(AllCalls)
<1> DEFINE c == Call(kind, t)
<1>1. kind \in Kinds /\ t \in Targets \cup {None} /\ kind # "run" /\ kind \in StateKinds /\ kind # "save"
  BY DEF Kinds, StateKinds
<1>2. c.kind = kind /\ c.target = t /\ c.stage = "sent" BY <1>1, NewCall
<1>3. /\ calls' \in Seq(AllCalls) /\ RunsAim(calls') /\ Watches(calls') # {}
      /\ \A j \in Asks(calls') : j \in Asks(cs) \/ (j = Len(cs) + 1 /\ calls'[j] = c)
  BY <1>1, SentCall
<1> HIDE DEF c
<1>4. t # None BY NoneAssumption
<1>5. ChainInv' BY <1>2, <1>3, <1>4 DEF ChainInv, RunsAim, Aims, Asks
<1>6. ShownInv' BY <1>2, <1>3 DEF ShownInv, Fresh, Asks
<1> QED BY <1>3, <1>5, <1>6
-----------------------------------------------------------------------------
(* What the page shows.                                                     *)

LEMMA RenderedPage ==
  ASSUME NEW p \in Pages
  PROVE  Rendered(p) \in Pages /\ Rendered(p).document = p.document /\ Rendered(p).selected = p.selected
<1>1. p.view \in [Targets -> States] /\ p.item \in States /\ p.named \in Targets \cup {None}
        /\ p.selected \in Targets \cup {None}
  BY PageFields
<1>2. QueueState(p) \in States BY <1>1 DEF QueueState
<1>3. LET n == [p EXCEPT !.state = QueueState(p)] IN n \in Pages /\ Shown(n, p) BY <1>2, PageStates
<1> QED BY <1>3 DEF Rendered, Shown

\* A page that waits goes on polling.
LEMMA WaitingContinues ==
  ASSUME NEW p, NEW t, WorkState(p.state)
  PROVE  ShouldContinuePolling(p, t)
BY DEF WorkState, ShouldContinuePolling, TerminalState

\* The same document, or none: nothing new is seen.
LEMMA ShowsOld ==
  ASSUME PanelInv, NEW p, p.document = page.document \/ p.document = NoDocument, NEW strays, Shows(p, strays)
  PROVE  page' = p /\ seen' = seen
<1> DEFINE d == p.document
<1>1. seen' = IF d.target # None /\ seen[d.target] < d.saved
              THEN [seen EXCEPT ![d.target] = d.saved] ELSE seen
  BY DEF Shows
<1>2. ASSUME d.target # None PROVE ~(seen[d.target] < d.saved)
  <2>1. d = page.document BY <1>2, NoAnswerIsAnswer
  <2>2. d.saved = seen[d.target] /\ d.target \in Targets
    <3>1. page \in Pages BY DEF PanelInv, TypeInv
    <3>2. d.target \in Targets \cup {None} BY <2>1, <3>1, PageFields, DocumentFields
    <3> QED BY <1>2, <2>1, <3>2 DEF PanelInv, ShownInv, NewestIsShown
  <2>3. seen[d.target] \in Nat BY <2>2 DEF PanelInv, TypeInv
  <2> HIDE DEF d
  <2> QED BY <2>2, <2>3, SMT
<1> QED BY <1>1, <1>2 DEF Shows

LEMMA ShowsOldQuietly ==
  ASSUME PanelInv, NEW p, p.document = page.document \/ p.document = NoDocument, Shows(p, FALSE)
  PROVE  page' = p /\ seen' = seen /\ strayed' = strayed /\ strayed' \in BOOLEAN
<1> DEFINE quiet == FALSE
<1>1. Shows(p, quiet) /\ strayed' = (strayed \/ FALSE) BY DEF Shows
<1>2. strayed \in BOOLEAN BY DEF PanelInv, TypeInv
<1>3. strayed' = strayed BY <1>1, <1>2, Zenon
<1> HIDE DEF quiet
<1>4. page' = p /\ seen' = seen BY <1>1, ShowsOld
<1> QED BY <1>2, <1>3, <1>4

LEMMA ShowsOldStrayed ==
  ASSUME PanelInv, NEW p, p.document = page.document \/ p.document = NoDocument, Shows(p, TRUE)
  PROVE  page' = p /\ seen' = seen /\ strayed' /\ strayed' \in BOOLEAN
<1> DEFINE lost == TRUE
<1>1. Shows(p, lost) /\ strayed' = (strayed \/ TRUE) BY DEF Shows
<1>2. strayed' /\ strayed' \in BOOLEAN BY <1>1, Zenon
<1> HIDE DEF lost
<1>3. page' = p /\ seen' = seen BY <1>1, ShowsOld
<1> QED BY <1>2, <1>3

LEMMA ShowsAnswer ==
  ASSUME PanelInv, NEW i \in Asks(calls), calls[i].stage = "answered",
         NEW p, p.document = calls[i].answer.document, Shows(p, FALSE)
  PROVE  /\ page' = p /\ strayed' = strayed /\ seen' \in [Targets -> Nat]
         /\ \A t \in Targets : seen'[t] <= doc[t].saved
         /\ p.document.target # None =>
              p.document.target \in Targets /\ p.document.saved = seen'[p.document.target]
<1> DEFINE d == p.document
<1>1. page' = p /\ strayed' = strayed /\ seen \in [Targets -> Nat]
  <2>1. strayed' = (strayed \/ FALSE) BY DEF Shows
  <2>2. strayed \in BOOLEAN BY DEF PanelInv, TypeInv
  <2>3. strayed' = strayed BY <2>1, <2>2, Zenon
  <2> QED BY <2>3 DEF Shows, PanelInv, TypeInv
<1>2. seen' = IF d.target # None /\ seen[d.target] < d.saved
              THEN [seen EXCEPT ![d.target] = d.saved] ELSE seen
  BY DEF Shows
<1>3. d.target \in Targets \cup {None} /\ d.saved \in Nat
  <2>1. calls[i] \in AllCalls BY SMT DEF PanelInv, TypeInv, Asks
  <2> QED BY <2>1, CallFields, AnswerFields, DocumentFields
<1>4. d.target # None => seen[d.target] <= d.saved /\ d.saved <= doc[d.target].saved
  BY DEF PanelInv, ShownInv, Fresh
<1>5. \A t \in Targets : seen[t] <= doc[t].saved BY DEF PanelInv, ShownInv
<1> HIDE DEF d
<1>6. CASE d.target = None BY <1>1, <1>2, <1>3, <1>5, <1>6 DEF d
<1>7. CASE d.target # None
  <2>1. d.target \in Targets /\ seen[d.target] \in Nat BY <1>1, <1>3, <1>7
  <2>2. seen' = [seen EXCEPT ![d.target] = d.saved]
    <3>1. ~(seen[d.target] < d.saved) => seen[d.target] = d.saved BY <1>3, <1>4, <1>7, <2>1, SMT
    <3>2. seen[d.target] = d.saved => seen = [seen EXCEPT ![d.target] = d.saved] BY <1>1, <2>1
    <3> QED BY <1>2, <1>7, <3>1, <3>2
  <2>3. seen' \in [Targets -> Nat] /\ seen'[d.target] = d.saved /\ \A t \in Targets : t # d.target => seen'[t] = seen[t]
    BY <1>1, <1>3, <2>1, <2>2
  <2>4. \A t \in Targets : seen'[t] <= doc[t].saved BY <1>4, <1>5, <1>7, <2>3
  <2> QED BY <1>1, <2>1, <2>3, <2>4 DEF d
<1> QED BY <1>6, <1>7

LEMMA NormalizedPage ==
  ASSUME PanelInv, NEW c \in AllCalls, NEW s \in Targets \cup {None}
  PROVE  LET n == Normalized(c, s) IN
         n \in Pages /\ n.document = c.answer.document /\ n.selected = s
<1> DEFINE said == c.answer
           v1 == IF page.selected # None /\ said.view[page.selected] \in ActiveStatus
                 THEN said.view[page.selected] ELSE said.state
           v4 == [t \in Targets |-> IF said.summary[t] = "unknown" THEN page.summary[t] ELSE said.summary[t]]
           v5 == page.listed \cup said.known
           v6 == IF said.summary = NoAnswer.summary THEN page.detailed \cup said.known ELSE page.detailed
           v8 == IF page.saved \in {None, s} THEN s ELSE page.saved
           v9 == FALSE
           p1 == [page EXCEPT !.state = v1]
           p2 == [p1 EXCEPT !.document = said.document]
           p3 == [p2 EXCEPT !.view = said.view]
           p4 == [p3 EXCEPT !.summary = v4]
           p5 == [p4 EXCEPT !.listed = v5]
           p6 == [p5 EXCEPT !.detailed = v6]
           p7 == [p6 EXCEPT !.selected = s]
           p8 == [p7 EXCEPT !.saved = v8]
           p9 == [p8 EXCEPT !.busy = v9]
<1>1. page \in Pages /\ said \in AllAnswers BY CallFields DEF PanelInv, TypeInv
<1>2. /\ said.document \in Documents /\ said.view \in [Targets -> States]
      /\ v1 \in States /\ v4 \in [Targets -> States] /\ v5 \in SUBSET Targets /\ v6 \in SUBSET Targets
      /\ v8 \in Targets \cup {None} /\ v9 \in BOOLEAN
  <2>1. /\ said.state \in States /\ said.view \in [Targets -> States] /\ said.summary \in [Targets -> States]
        /\ said.known \subseteq Targets /\ said.document \in Documents
    BY <1>1, AnswerFields
  <2>2. /\ page.summary \in [Targets -> States] /\ page.listed \subseteq Targets /\ page.detailed \subseteq Targets
        /\ page.selected \in Targets \cup {None} /\ page.saved \in Targets \cup {None}
    BY <1>1, PageFields
  <2> HIDE DEF said
  <2> QED BY <2>1, <2>2
<1>3. Normalized(c, s) = p9 BY DEF Normalized
<1> HIDE DEF v1, v4, v5, v6, v8, v9, said
<1>4. p1 \in Pages /\ Shown(p1, page) BY <1>1, <1>2, PageStates
<1> HIDE DEF p1
<1>5. p2 \in Pages /\ p2.document = said.document BY <1>2, <1>4, PageDocument
<1> HIDE DEF p2
<1>6. p3 \in Pages /\ Shown(p3, p2) BY <1>2, <1>5, PageViews
<1> HIDE DEF p3
<1>7. p4 \in Pages /\ Shown(p4, p3) BY <1>2, <1>6, PageViews
<1> HIDE DEF p4
<1>8. p5 \in Pages /\ Shown(p5, p4) BY <1>2, <1>7, PageSets
<1> HIDE DEF p5
<1>9. p6 \in Pages /\ Shown(p6, p5) BY <1>2, <1>8, PageSets
<1> HIDE DEF p6
<1>10. p7 \in Pages /\ p7.selected = s /\ p7.document = p6.document BY <1>9, PageSelected
<1> HIDE DEF p7
<1>11. p8 \in Pages /\ Shown(p8, p7) BY <1>2, <1>10, PageTargets
<1> HIDE DEF p8
<1>12. p9 \in Pages /\ Shown(p9, p8) BY <1>2, <1>11, PageBusy
<1> HIDE DEF p9
<1> QED BY <1>3, <1>5, <1>6, <1>7, <1>8, <1>9, <1>10, <1>11, <1>12 DEF Shown, said
-----------------------------------------------------------------------------
(* The service works on while the page waits.                               *)

\* What the page and its calls keep when only the service takes a step.
LEMMA ServiceStep ==
  ASSUME PanelInv, TypeInv', UNCHANGED <<page, polling, calls, history, budget>>,
         \A t \in Targets : doc[t].saved <= doc'[t].saved
  PROVE  PanelInv'
<1>1. UNCHANGED <<page, timers, calls, seen, strayed>> BY DEF polling, history
<1>2. Inherits(calls') /\ RunsAim(calls') BY <1>1 DEF PanelInv, ChainInv, Inherits, RunsAim
<1>3. ChainInv' /\ ShownInv' BY <1>1, <1>2, KeptChain
<1>4. WaitingIsWatched' BY <1>1 DEF PanelInv, WaitingIsWatched, Live
<1> QED BY <1>3, <1>4 DEF PanelInv

LEMMA SameDocuments == ASSUME PanelInv, UNCHANGED doc PROVE \A t \in Targets : doc[t].saved <= doc'[t].saved
<1>1. \A t \in Targets : doc[t].saved \in Nat BY SMT DEF PanelInv, TypeInv, Stored
<1> QED BY <1>1, SMT

LEMMA QueueItem ==
  ASSUME NEW t \in Targets, NEW trigger \in {"manual", "daily"}, NEW s \in States
  PROVE  [target |-> t, trigger |-> trigger, status |-> s] \in Items
BY SMT DEF Items

LEMMA QueueStatus ==
  ASSUME PanelInv, NEW i, NEW s \in States
  PROVE  [queue EXCEPT ![i].status = s] \in Seq(Items)
<1>1. queue \in Seq(Items) BY DEF PanelInv, TypeInv
<1>2. queue \in [1..Len(queue) -> Items] /\ Len(queue) \in Nat BY <1>1, LenProperties
<1>3. CASE i \in 1..Len(queue)
  <2>1. ASSUME NEW r \in Items PROVE [r EXCEPT !.status = s] \in Items BY SMT DEF Items
  <2>2. queue[i] \in Items BY <1>2, <1>3
  <2> DEFINE n == [queue[i] EXCEPT !.status = s]
  <2>3. n \in Items BY <2>1, <2>2
  <2>4. [queue EXCEPT ![i].status = s] = [queue EXCEPT ![i] = n] OBVIOUS
  <2> HIDE DEF n
  <2> QED BY <1>1, <1>3, <2>3, <2>4, ExceptSeq
<1>4. CASE i \notin 1..Len(queue)
  <2>1. [queue EXCEPT ![i].status = s] = queue BY <1>2, <1>4
  <2> QED BY <1>1, <2>1
<1> QED BY <1>3, <1>4

LEMMA DailyRunKeepsInv == ASSUME PanelInv, NEW t \in Targets, DailyRun(t) PROVE PanelInv'
<1>1. queue' = Enqueued(t, "daily") /\ UNCHANGED <<configured, doc, step, page, polling, calls, history, budget>>
  BY DEF DailyRun
<1>2. [target |-> t, trigger |-> "daily", status |-> "queued"] \in Items
  <2>1. "queued" \in States /\ "daily" \in {"manual", "daily"} BY DEF States
  <2> QED BY <2>1, QueueItem
<1>3. queue' \in Seq(Items)
  <2> DEFINE item == [target |-> t, trigger |-> "daily", status |-> "queued"]
  <2>1. queue' = Append(queue, item) BY <1>1 DEF Enqueued
  <2> HIDE DEF item
  <2> QED BY <1>2, <2>1 DEF item, PanelInv, TypeInv
<1>4. TypeInv' BY <1>1, <1>3 DEF PanelInv, TypeInv, polling, history
<1> QED BY <1>1, <1>4, ServiceStep, SameDocuments

LEMMA ClaimOrSettleKeepsInv == ASSUME PanelInv, Claim \/ Settle PROVE PanelInv'
<1>1. UNCHANGED <<configured, doc, page, polling, calls, history, budget>> BY DEF Claim, Settle
<1>2. PICK i, s : s \in {"running", "settled"} /\ queue' = [queue EXCEPT ![i].status = s]
  <2>1. CASE Claim
    <3>1. \E i \in 1..Len(queue) : queue' = [queue EXCEPT ![i].status = "running"] BY <2>1 DEF Claim
    <3> QED BY <3>1
  <2>2. CASE Settle
    <3>1. queue' = [queue EXCEPT ![Running].status = "settled"] BY <2>2 DEF Settle
    <3> QED BY <3>1
  <2> QED BY <2>1, <2>2
<1>3. s \in States BY <1>2 DEF States
<1>4. queue' \in Seq(Items) BY <1>2, <1>3, QueueStatus
<1>5. TypeInv' BY <1>1, <1>4 DEF PanelInv, TypeInv, polling, history
<1> QED BY <1>1, <1>5, ServiceStep, SameDocuments

LEMMA PublishKeepsInv == ASSUME PanelInv, PublishRunning \/ PublishResult PROVE PanelInv'
<1> DEFINE t == queue[Running].target
<1>1. PICK state \in {"running", "ready", "failed"}, saved \in {doc[t].saved, doc[t].saved + 1},
           next \in {"running", "published"} : Publish(t, state, saved, next)
  BY DEF PublishRunning, PublishResult
<1>2. UNCHANGED <<configured, queue, page, polling, calls, history, budget>>
        /\ doc' = [doc EXCEPT ![t] = [state |-> state, saved |-> saved]]
  BY <1>1 DEF Publish
<1> HIDE DEF t
<1>3. doc \in [Targets -> Stored] BY DEF PanelInv, TypeInv
<1>4. \A u \in Targets : doc[u].saved \in Nat BY <1>3, SMT DEF Stored
<1>5. CASE t \in Targets
  <2>1. saved \in Nat /\ doc[t].saved <= saved BY <1>4, <1>5, SMT
  <2>2. state \in States BY DEF States
  <2> DEFINE n == [state |-> state, saved |-> saved]
  <2>3. n \in Stored /\ n.saved = saved BY <2>1, <2>2, SMT DEF Stored
  <2>4. doc' = [doc EXCEPT ![t] = n] BY <1>2
  <2> HIDE DEF n
  <2>5. doc' \in [Targets -> Stored] /\ doc'[t] = n /\ \A u \in Targets : u # t => doc'[u] = doc[u]
    BY <1>3, <1>5, <2>3, <2>4
  <2>6. \A u \in Targets : doc[u].saved <= doc'[u].saved
    <3> TAKE u \in Targets
    <3>1. CASE u = t BY <2>1, <2>3, <2>5, <3>1
    <3>2. CASE u # t
      <4>1. doc'[u] = doc[u] BY <2>5, <3>2
      <4> QED BY <1>4, <4>1, SMT
    <3> QED BY <3>1, <3>2
  <2>7. TypeInv' BY <1>2, <2>5 DEF PanelInv, TypeInv, polling, history
  <2> QED BY <1>2, <2>6, <2>7, ServiceStep
<1>6. CASE t \notin Targets
  <2>1. doc' = doc BY <1>2, <1>3, <1>6
  <2>2. TypeInv' BY <1>2, <2>1 DEF PanelInv, TypeInv, polling, history
  <2> QED BY <1>2, <2>1, <2>2, ServiceStep, SameDocuments
<1> QED BY <1>5, <1>6
-----------------------------------------------------------------------------
(* The service answers a call.                                              *)

LEMMA AnswerValues ==
  ASSUME NEW a \in AllAnswers
  PROVE  /\ \A s \in States :
              /\ LET n == [a EXCEPT !.state = s] IN n \in AllAnswers /\ n.document = a.document /\ n.known = a.known
              /\ LET n == [a EXCEPT !.item = s] IN n \in AllAnswers /\ n.document = a.document /\ n.known = a.known
         /\ \A v \in [Targets -> States] :
              /\ LET n == [a EXCEPT !.view = v] IN n \in AllAnswers /\ n.document = a.document /\ n.known = a.known
              /\ LET n == [a EXCEPT !.summary = v] IN n \in AllAnswers /\ n.document = a.document /\ n.known = a.known
         /\ \A S \in SUBSET Targets :
              LET n == [a EXCEPT !.known = S] IN n \in AllAnswers /\ n.document = a.document /\ n.known = S
         /\ \A d \in Documents :
              LET n == [a EXCEPT !.document = d] IN n \in AllAnswers /\ n.document = d /\ n.known = a.known
BY SMT DEF AllAnswers

LEMMA AnsweredCall ==
  ASSUME PanelInv, NEW i \in 1..Len(calls), NEW a \in AllAnswers, NEW s \in Stages, Answers(i, a, s)
  PROVE  /\ calls' \in Seq(AllCalls) /\ Len(calls') = Len(calls)
         /\ \A j \in 1..Len(calls) : j # i => calls'[j] = calls[j]
         /\ calls'[i].kind = calls[i].kind /\ calls'[i].target = calls[i].target
         /\ calls'[i].live = calls[i].live /\ calls'[i].answer = a /\ calls'[i].stage = s
<1>1. calls \in Seq(AllCalls) /\ calls[i] \in AllCalls BY SMT DEF PanelInv, TypeInv
<1>2. ASSUME NEW r \in AllCalls
      PROVE  /\ LET n == [r EXCEPT !.answer = a] IN
                n \in AllCalls /\ n.answer = a /\ n.kind = r.kind /\ n.target = r.target /\ n.live = r.live
             /\ LET n == [r EXCEPT !.stage = s] IN
                n \in AllCalls /\ n.stage = s /\ n.answer = r.answer /\ n.kind = r.kind /\ n.target = r.target
                  /\ n.live = r.live
  BY SMT DEF AllCalls
<1> DEFINE m == [calls[i] EXCEPT !.answer = a]
           n == [m EXCEPT !.stage = s]
<1>3. m \in AllCalls /\ m.answer = a /\ m.kind = calls[i].kind /\ m.target = calls[i].target /\ m.live = calls[i].live
  BY <1>1, <1>2
<1> HIDE DEF m
<1>4. n \in AllCalls /\ n.stage = s /\ n.answer = m.answer /\ n.kind = m.kind /\ n.target = m.target
        /\ n.live = m.live
  BY <1>2, <1>3
<1> HIDE DEF n
<1>5. calls' = [calls EXCEPT ![i] = n]
  <2>1. calls' = [calls EXCEPT ![i].answer = a, ![i].stage = s] BY DEF Answers
  <2>2. calls \in [1..Len(calls) -> AllCalls] BY <1>1, LenProperties
  <2> QED BY <2>1, <2>2 DEF n, m
<1>6. /\ calls' \in Seq(AllCalls) /\ Len(calls') = Len(calls)
      /\ \A j \in 1..Len(calls) : calls'[j] = IF j = i THEN n ELSE calls[j]
  BY <1>1, <1>4, <1>5, ExceptSeq
<1> QED BY <1>3, <1>4, <1>6

\* An answer changes what a call carries, and nothing else.
LEMMA ServedStep ==
  ASSUME PanelInv, NEW i \in 1..Len(calls), NEW a \in AllAnswers, NEW s \in Stages, Answers(i, a, s),
         configured' \subseteq Targets, queue' \in Seq(Items), UNCHANGED <<doc, page, polling, history, budget>>,
         i \in Asks(calls) => Fresh(calls'[i], seen, doc)
  PROVE  PanelInv'
<1>1. /\ calls' \in Seq(AllCalls) /\ Len(calls') = Len(calls)
      /\ \A j \in 1..Len(calls) : j # i => calls'[j] = calls[j]
      /\ calls'[i].kind = calls[i].kind /\ calls'[i].target = calls[i].target /\ calls'[i].live = calls[i].live
  BY AnsweredCall
<1>2. UNCHANGED <<doc, page, timers, seen, strayed>> BY DEF polling, history
<1>3. TypeInv' BY <1>1, <1>2 DEF PanelInv, TypeInv
<1>4. Asks(calls') = Asks(calls) /\ Watches(calls') = Watches(calls) BY <1>1 DEF Asks, Watches
<1>5. \A j \in 1..Len(calls) : calls'[j].kind = calls[j].kind /\ calls'[j].target = calls[j].target
  BY <1>1
<1>6. ChainInv'
  <2>1. \A j \in Asks(calls) : Aims(calls'[j], page.selected)
    BY <1>5 DEF PanelInv, ChainInv, Aims, Asks
  <2>2. (Asks(calls))' = Asks(calls) BY <1>4 DEF Asks
  <2> QED BY <1>1, <1>2, <1>4, <1>5, <2>1, <2>2 DEF PanelInv, ChainInv
<1>7. ShownInv'
  <2>1. \A j \in Asks(calls) : Fresh(calls'[j], seen, doc)
    <3> TAKE j \in Asks(calls)
    <3>1. j \in 1..Len(calls) BY DEF Asks
    <3> QED BY <1>1, <3>1 DEF PanelInv, ShownInv
  <2>2. (Asks(calls))' = Asks(calls) BY <1>4 DEF Asks
  <2> QED BY <1>2, <2>1, <2>2 DEF PanelInv, ShownInv, NewestIsShown
<1>8. WaitingIsWatched'
  <2>1. Live({"boot", "refresh", "poll", "run"}) = Watches(calls)
        /\ Live({"boot", "refresh", "poll", "run"})' = Watches(calls')
    BY DEF Live, Watches
  <2> QED BY <1>2, <1>4, <2>1 DEF PanelInv, WaitingIsWatched
<1> QED BY <1>3, <1>6, <1>7, <1>8 DEF PanelInv

\* A non-empty set of numbers up to n has a least one.
LEMMA Least ==
  ASSUME NEW n \in Nat, NEW S \in SUBSET (1..n), S # {}
  PROVE  \E s \in S : \A t \in S : s <= t
<1> DEFINE Below(s) == {t \in S : t < s}
           T == {Below(s) : s \in S}
<1>1. IsFiniteSet(S)
  <2>1. IsFiniteSet(1..n) BY FS_Interval
  <2> QED BY <2>1, FS_Subset
<1>2. FiniteSubsetsOf(S) = SUBSET S BY <1>1, FS_FiniteSubsetsOfFinite
<1>3. IsWellFoundedOn(StrictSubsetOrdering(S), SUBSET S) BY <1>2, FS_StrictSubsetOrderingWellFounded
<1>4. T \subseteq SUBSET S /\ T # {} OBVIOUS
<1>5. PICK least \in T : \A y \in T : <<y, least>> \notin StrictSubsetOrdering(S)
  <2> HIDE DEF T
  <2> QED BY <1>3, <1>4, WFMin
<1>6. PICK s \in S : least = Below(s) BY <1>5
<1>7. \A t \in S : s <= t
  <2> SUFFICES ASSUME NEW t \in S, t < s PROVE FALSE BY <1>6, SMT
  <2>1. Below(t) \subseteq Below(s) /\ t \in Below(s) /\ t \notin Below(t)
    <3>1. t \in Int /\ s \in Int /\ t < s /\ ~(t < t) OBVIOUS
    <3>2. ASSUME NEW u \in S, u < t PROVE u < s
      <4>1. u \in Int OBVIOUS
      <4> QED BY <3>1, <3>2, <4>1, SMT
    <3> QED BY <3>1, <3>2
  <2>2. Below(t) \subseteq S /\ Below(s) \subseteq S /\ Below(t) # Below(s) BY <2>1
  <2> HIDE DEF Below
  <2>3. <<Below(t), Below(s)>> \in StrictSubsetOrdering(S) BY <2>1, <2>2 DEF StrictSubsetOrdering
  <2> QED BY <1>5, <1>6, <2>3
<1> QED BY <1>7

LEMMA QueueStates == ASSUME PanelInv, NEW i \in 1..Len(queue) PROVE queue[i].status \in States
<1>1. queue[i] \in Items BY SMT DEF PanelInv, TypeInv
<1> QED BY <1>1, SMT DEF Items

LEMMA FirstStates == ASSUME PanelInv, NEW t \in Targets PROVE FirstOf(t) \in States
<1> DEFINE at == {i \in 1..Len(queue) : queue[i].target = t}
           first == CHOOSE i \in at : \A j \in at : i <= j
<1>1. CASE at = {} BY <1>1 DEF FirstOf, States
<1>2. CASE at # {}
  <2>1. Len(queue) \in Nat BY SMT DEF PanelInv, TypeInv
  <2>2. \E i \in at : \A j \in at : i <= j
    <3>1. at \in SUBSET (1..Len(queue)) OBVIOUS
    <3> HIDE DEF at
    <3> QED BY <1>2, <2>1, <3>1, Least
  <2>3. first \in 1..Len(queue)
    <3>1. first \in at
      <4> HIDE DEF at
      <4> QED BY <2>2
    <3> QED BY <3>1
  <2>4. FirstOf(t) = queue[first].status BY <1>2 DEF FirstOf
  <2> HIDE DEF first
  <2> QED BY <2>3, <2>4, QueueStates
<1> QED BY <1>1, <1>2

LEMMA ReadQueueKeepsInv == ASSUME PanelInv, NEW i \in 1..Len(calls), ReadQueue(i) PROVE PanelInv'
<1> DEFINE view == [t \in Targets |-> FirstOf(t)]
           a == [calls[i].answer EXCEPT !.view = view]
<1>1. /\ calls[i].stage = "half" /\ Answers(i, a, "answered")
      /\ UNCHANGED <<service, page, polling, history, budget>>
  BY DEF ReadQueue
<1>2. view \in [Targets -> States] BY FirstStates
<1>3. calls[i] \in AllCalls BY SMT DEF PanelInv, TypeInv
<1>4. calls[i].answer \in AllAnswers BY <1>3, CallFields
<1> HIDE DEF view
<1>5. a \in AllAnswers /\ a.document = calls[i].answer.document /\ a.known = calls[i].answer.known
  BY <1>2, <1>4, AnswerValues
<1>6. "answered" \in Stages BY DEF Stages
<1> HIDE DEF a
<1>7. /\ calls'[i].kind = calls[i].kind /\ calls'[i].target = calls[i].target
      /\ calls'[i].answer = a /\ calls'[i].stage = "answered"
  BY <1>1, <1>5, <1>6, AnsweredCall
<1>8. i \in Asks(calls) => Fresh(calls'[i], seen, doc)
  <2>1. i \in Asks(calls) => Fresh(calls[i], seen, doc) BY DEF PanelInv, ShownInv
  <2>2. calls[i].stage # "sent" BY <1>1
  <2> QED BY <1>5, <1>7, <2>1, <2>2 DEF Fresh
<1>9. configured' \subseteq Targets /\ queue' \in Seq(Items) /\ UNCHANGED doc BY <1>1 DEF service, PanelInv, TypeInv
<1> QED BY <1>1, <1>5, <1>6, <1>8, <1>9, ServedStep

LEMMA ReadDocumentKeepsInv == ASSUME PanelInv, NEW i \in 1..Len(calls), ReadDocument(i) PROVE PanelInv'
<1> DEFINE c == calls[i]
           alone == {u \in configured : configured = {u}}
           known == IF c.target # None THEN {c.target} ELSE configured
           read == IF c.target # None THEN {c.target} ELSE alone
           states == [u \in Targets |-> IF u \in known THEN doc[u].state ELSE "unknown"]
           empty == [NoAnswer EXCEPT !.state = "empty", !.known = known, !.summary = states]
           document(t) == [target |-> t, saved |-> doc[t].saved]
           stored(t) == [NoAnswer EXCEPT !.state = doc[t].state, !.known = known, !.document = document(t)]
<1>1. /\ c.kind \in StateKinds /\ c.stage = "sent" /\ c.live
      /\ UNCHANGED <<service, page, polling, history, budget>>
      /\ (read = {} /\ Answers(i, empty, "half")) \/ \E t \in read : Answers(i, stored(t), "half")
  BY DEF ReadDocument, StateKinds
<1>2. c \in AllCalls /\ i \in Asks(calls)
  <2>1. calls \in Seq(AllCalls) BY DEF PanelInv, TypeInv
  <2>2. c \in AllCalls BY <2>1, ElementOfSeq
  <2>3. i \in Asks(calls) BY <1>1 DEF Asks
  <2> QED BY <2>2, <2>3
<1>3. c.target \in Targets \cup {None} /\ configured \subseteq Targets BY <1>2, CallFields DEF PanelInv, TypeInv
<1>4. known \subseteq Targets /\ read \subseteq Targets BY <1>3
<1>5. \A t \in Targets : doc[t].state \in States /\ doc[t].saved \in Nat /\ seen[t] <= doc[t].saved
  BY SMT DEF PanelInv, TypeInv, ShownInv, Stored
<1>6. {"empty", "unknown"} \subseteq States /\ "half" \in Stages BY DEF States, Stages
<1>7. NoAnswer \in AllAnswers /\ NoAnswer.document.target = None BY NoAnswerIsAnswer
<1>8. configured' \subseteq Targets /\ queue' \in Seq(Items) /\ UNCHANGED doc BY <1>1 DEF service, PanelInv, TypeInv
<1>9. states \in [Targets -> States] BY <1>5, <1>6
<1> HIDE DEF states
<1>10. CASE Answers(i, empty, "half")
  <2> DEFINE m1 == [NoAnswer EXCEPT !.state = "empty"]
             m2 == [m1 EXCEPT !.known = known]
             m3 == [m2 EXCEPT !.summary = states]
  <2>1. empty = m3 OBVIOUS
  <2>2. m1 \in AllAnswers /\ m1.document = NoAnswer.document BY <1>6, <1>7, AnswerValues
  <2> HIDE DEF m1, known
  <2>3. m2 \in AllAnswers /\ m2.document = m1.document BY <1>4, <2>2, AnswerValues
  <2> HIDE DEF m2
  <2>4. m3 \in AllAnswers /\ m3.document = m2.document BY <1>9, <2>3, AnswerValues
  <2> HIDE DEF m3, empty
  <2>5. empty \in AllAnswers /\ empty.document.target = None BY <1>7, <2>1, <2>2, <2>3, <2>4
  <2>6. calls'[i].answer = empty BY <1>6, <1>10, <2>5, AnsweredCall
  <2>7. Fresh(calls'[i], seen, doc) BY <2>5, <2>6 DEF Fresh
  <2> QED BY <1>1, <1>6, <1>8, <1>10, <2>5, <2>7, ServedStep
<1>11. ASSUME NEW t \in read, Answers(i, stored(t), "half") PROVE PanelInv'
  <2> DEFINE d == document(t)
             m1 == [NoAnswer EXCEPT !.state = doc[t].state]
             m2 == [m1 EXCEPT !.known = known]
             m3 == [m2 EXCEPT !.document = d]
             a == stored(t)
  <2>1. t \in Targets /\ doc[t].state \in States /\ doc[t].saved \in Nat /\ seen[t] <= doc[t].saved
    BY <1>4, <1>5, <1>11
  <2>2. d \in Documents /\ d.target = t /\ d.saved = doc[t].saved BY <2>1, SMT DEF Documents
  <2>3. a = m3 OBVIOUS
  <2> HIDE DEF d
  <2>4. m1 \in AllAnswers BY <1>7, <2>1, AnswerValues
  <2>5. /\ c.target # None => known = {t} /\ c.target = t
        /\ c.target = None => known = {t}
    BY <1>11
  <2> HIDE DEF m1, known
  <2>6. m2 \in AllAnswers /\ m2.known = known BY <1>4, <2>4, AnswerValues
  <2> HIDE DEF m2
  <2>7. m3 \in AllAnswers /\ m3.document = d /\ m3.known = m2.known BY <2>2, <2>6, AnswerValues
  <2>8. a \in AllAnswers /\ a.document = d /\ a.known = {t} BY <2>3, <2>5, <2>6, <2>7
  <2>9. Answers(i, a, "half") BY <1>11
  <2> HIDE DEF m3, a
  <2>10. calls'[i].answer = a /\ calls'[i].kind = c.kind /\ calls'[i].target = c.target
    BY <1>6, <2>8, <2>9, AnsweredCall
  <2>11. c.kind # "boot" => c.target # None BY <1>2 DEF PanelInv, ChainInv, Aims
  <2>12. Fresh(calls'[i], seen, doc)
    <3>1. doc[t].saved <= doc[t].saved BY <2>1, SMT
    <3>2. calls'[i].kind # "boot" => t = calls'[i].target BY <2>5, <2>10, <2>11
    <3> HIDE DEF c
    <3> QED BY <2>1, <2>2, <2>8, <2>10, <3>1, <3>2 DEF Fresh
  <2> QED BY <1>1, <1>6, <1>8, <2>8, <2>9, <2>12, ServedStep
<1> QED BY <1>1, <1>10, <1>11

LEMMA AcceptRunKeepsInv == ASSUME PanelInv, NEW i \in 1..Len(calls), AcceptRun(i) PROVE PanelInv'
<1>1. /\ calls[i].kind = "run" /\ UNCHANGED <<configured, doc, step, page, polling, history, budget>>
      /\ \/ queue' = Enqueued(calls[i].target, "manual") /\ Answers(i, [NoAnswer EXCEPT !.item = "queued"], "answered")
         \/ /\ UNCHANGED queue
            /\ \E j \in 1..Len(queue) : Answers(i, [NoAnswer EXCEPT !.item = queue[j].status], "answered")
  BY DEF AcceptRun
<1>2. "queued" \in States /\ "answered" \in Stages /\ "manual" \in {"manual", "daily"} BY DEF States, Stages
<1>3. calls[i] \in AllCalls BY SMT DEF PanelInv, TypeInv
<1>4. calls[i].target \in Targets BY <1>1, <1>3, CallFields DEF PanelInv, ChainInv
<1>5. queue' \in Seq(Items)
  <2> DEFINE item == [target |-> calls[i].target, trigger |-> "manual", status |-> "queued"]
  <2>1. queue' = queue \/ queue' = Append(queue, item) BY <1>1 DEF Enqueued
  <2>2. item \in Items BY <1>2, <1>4, QueueItem
  <2> HIDE DEF item
  <2>3. queue \in Seq(Items) BY DEF PanelInv, TypeInv
  <2>4. Append(queue, item) \in Seq(Items) BY <2>2, <2>3
  <2> QED BY <2>1, <2>3, <2>4
<1>6. PICK s \in States : Answers(i, [NoAnswer EXCEPT !.item = s], "answered")
  <2>1. \A j \in 1..Len(queue) : queue[j].status \in States BY QueueStates
  <2> QED BY <1>1, <1>2, <2>1
<1> DEFINE a == [NoAnswer EXCEPT !.item = s]
<1>7. a \in AllAnswers BY NoAnswerIsAnswer, AnswerValues
<1>8. Answers(i, a, "answered") BY <1>6
<1> HIDE DEF a
<1>9. i \notin Asks(calls) BY <1>1 DEF Asks, StateKinds
<1>10. configured' \subseteq Targets BY <1>1 DEF PanelInv, TypeInv
<1> QED BY <1>1, <1>2, <1>5, <1>7, <1>8, <1>9, <1>10, ServedStep

LEMMA AcceptSaveKeepsInv == ASSUME PanelInv, NEW i \in 1..Len(calls), AcceptSave(i) PROVE PanelInv'
<1>1. calls[i].kind = "save" /\ UNCHANGED <<queue, doc, step, page, polling, history, budget>> BY DEF AcceptSave
<1>2. configured \subseteq Targets /\ calls[i] \in AllCalls BY SMT DEF PanelInv, TypeInv
<1>3. calls[i].target \in Targets \cup {None} BY <1>2, CallFields
<1>4. PICK t \in Targets : Answers(i, [NoAnswer EXCEPT !.known = {t}], "answered") /\ configured' \subseteq Targets
  <2>1. CASE calls[i].target # None BY <1>2, <1>3, <2>1 DEF AcceptSave
  <2>2. CASE calls[i].target = None
    <3>1. PICK t \in Targets :
            /\ configured' = configured \cup {t}
            /\ \E last \in IF t \in configured THEN configured ELSE {t} :
                 Answers(i, [NoAnswer EXCEPT !.known = {last}], "answered")
      BY <2>2 DEF AcceptSave
    <3>2. PICK last \in Targets : Answers(i, [NoAnswer EXCEPT !.known = {last}], "answered") BY <1>2, <3>1
    <3> QED BY <1>2, <3>1, <3>2
  <2> QED BY <2>1, <2>2
<1> DEFINE S == {t}
           a == [NoAnswer EXCEPT !.known = S]
<1>5. S \in SUBSET Targets /\ Answers(i, a, "answered") BY <1>4
<1> HIDE DEF S
<1>6. a \in AllAnswers BY <1>5, NoAnswerIsAnswer, AnswerValues
<1> HIDE DEF a
<1>7. "answered" \in Stages /\ i \notin Asks(calls) BY <1>1 DEF Stages, Asks, StateKinds
<1>8. queue' \in Seq(Items) BY <1>1 DEF PanelInv, TypeInv
<1> QED BY <1>1, <1>4, <1>5, <1>6, <1>7, <1>8, ServedStep
-----------------------------------------------------------------------------
(* The user.                                                                *)

LEMMA PageStep ==
  ASSUME PanelInv, UNCHANGED service, page' \in Pages, timers' \in Seq(Targets), calls' \in Seq(AllCalls),
         seen' \in [Targets -> Nat], strayed' \in BOOLEAN
  PROVE  TypeInv'
BY DEF PanelInv, TypeInv, service

LEMMA Watched ==
  ASSUME \/ strayed' \/ page'.selected = None \/ ~WorkState(page'.state)
         \/ timers' # <<>> \/ Watches(calls') # {}
  PROVE  WaitingIsWatched'
BY DEF WaitingIsWatched, Live, Watches

\* The facts about the state before a step of the page.
LEMMA PageFacts ==
  ASSUME PanelInv
  PROVE  /\ page \in Pages /\ timers \in Seq(Targets) /\ calls \in Seq(AllCalls) /\ RunsAim(calls)
         /\ seen \in [Targets -> Nat] /\ strayed \in BOOLEAN
         /\ \A t \in Targets : seen[t] <= doc[t].saved
         /\ Inherits(calls) /\ <<>> \in Seq(Targets)
BY EmptySeq DEF PanelInv, TypeInv, ChainInv, ShownInv, RunsAim, Inherits

LEMMA SelectTargetKeepsInv == ASSUME PanelInv, NEW t \in Targets, SelectTarget(t) PROVE PanelInv'
<1> DEFINE s == Summary(page, t)
           p1 == [page EXCEPT !.selected = t]
           p2 == [p1 EXCEPT !.saved = t]
           p3 == [p2 EXCEPT !.state = s]
           p4 == [p3 EXCEPT !.document = NoDocument]
           flag == TRUE
           p5 == [p4 EXCEPT !.busy = flag]
           p == Rendered(p5)
<1>1. /\ Shows(p, FALSE) /\ timers' = <<>> /\ UNCHANGED service
      /\ calls' = Append(Cancelled(calls), Call("refresh", t))
  BY DEF SelectTarget
<1>2. page \in Pages BY PageFacts
<1>3. s \in States /\ flag \in BOOLEAN /\ t \in Targets \cup {None} /\ NoDocument \in Documents
  <2>1. page.view \in [Targets -> States] /\ page.summary \in [Targets -> States] /\ page.state \in States
    BY <1>2, PageFields
  <2> QED BY <2>1, NoAnswerIsAnswer DEF Summary
<1> HIDE DEF s, flag
<1>4. p1 \in Pages /\ p1.selected = t BY <1>2, <1>3, PageSelected
<1> HIDE DEF p1
<1>5. p2 \in Pages /\ Shown(p2, p1) BY <1>3, <1>4, PageTargets
<1> HIDE DEF p2
<1>6. p3 \in Pages /\ Shown(p3, p2) BY <1>3, <1>5, PageStates
<1> HIDE DEF p3
<1>7. p4 \in Pages /\ p4.document = NoDocument /\ p4.selected = p3.selected BY <1>3, <1>6, PageDocument
<1> HIDE DEF p4
<1>8. p5 \in Pages /\ Shown(p5, p4) BY <1>3, <1>7, PageBusy
<1> HIDE DEF p5
<1>9. p \in Pages /\ p.document = NoDocument /\ p.selected = t
  BY <1>4, <1>5, <1>6, <1>7, <1>8, RenderedPage DEF Shown
<1> HIDE DEF p
<1>10. page' = p /\ seen' = seen /\ strayed' \in BOOLEAN BY <1>1, <1>9, ShowsOldQuietly
<1>11. NewestIsShown' BY <1>9, <1>10, NoAnswerIsAnswer DEF NewestIsShown
<1>12. Cancelled(calls) \in Seq(AllCalls) /\ Asks(Cancelled(calls)) = {} /\ RunsAim(Cancelled(calls))
  BY PageFacts, QuietCalls
<1>13. \A u \in Targets : seen'[u] <= doc'[u].saved BY <1>1, <1>10, PageFacts DEF service
<1>14. ChainInv' /\ ShownInv' /\ Watches(calls') # {} /\ calls' \in Seq(AllCalls)
  <2>1. "refresh" \in {"refresh", "poll"} /\ t = page'.selected BY <1>9, <1>10
  <2> QED BY <1>1, <1>11, <1>12, <1>13, <2>1, AskedChain
<1>15. TypeInv' BY <1>1, <1>9, <1>10, <1>14, PageFacts, PageStep
<1> QED BY <1>14, <1>15, Watched DEF PanelInv

LEMMA StartNewTargetKeepsInv == ASSUME PanelInv, StartNewTarget PROVE PanelInv'
<1> DEFINE s == "empty"
           p1 == [page EXCEPT !.selected = None]
           p2 == [p1 EXCEPT !.saved = None]
           p3 == [p2 EXCEPT !.state = s]
           p4 == [p3 EXCEPT !.document = NoDocument]
           p == Rendered(p4)
<1>1. Shows(p, FALSE) /\ timers' = <<>> /\ UNCHANGED service /\ calls' = Cancelled(calls)
  BY DEF StartNewTarget, StopPolling
<1>2. page \in Pages BY PageFacts
<1>3. s \in States /\ None \in Targets \cup {None} /\ NoDocument \in Documents BY NoAnswerIsAnswer DEF States
<1> HIDE DEF s
<1>4. p1 \in Pages /\ p1.selected = None BY <1>2, <1>3, PageSelected
<1> HIDE DEF p1
<1>5. p2 \in Pages /\ Shown(p2, p1) BY <1>3, <1>4, PageTargets
<1> HIDE DEF p2
<1>6. p3 \in Pages /\ Shown(p3, p2) BY <1>3, <1>5, PageStates
<1> HIDE DEF p3
<1>7. p4 \in Pages /\ p4.document = NoDocument /\ p4.selected = p3.selected BY <1>3, <1>6, PageDocument
<1> HIDE DEF p4
<1>8. p \in Pages /\ p.document = NoDocument /\ p.selected = None
  BY <1>4, <1>5, <1>6, <1>7, RenderedPage DEF Shown
<1> HIDE DEF p
<1>9. page' = p /\ seen' = seen /\ strayed' \in BOOLEAN BY <1>1, <1>8, ShowsOldQuietly
<1>10. NewestIsShown' BY <1>8, <1>9, NoAnswerIsAnswer DEF NewestIsShown
<1>11. calls' \in Seq(AllCalls) /\ Asks(calls') = {} /\ RunsAim(calls') BY <1>1, PageFacts, QuietCalls
<1>12. \A u \in Targets : seen'[u] <= doc'[u].saved BY <1>1, <1>9, PageFacts DEF service
<1>13. ChainInv' /\ ShownInv' BY <1>1, <1>10, <1>11, <1>12, QuietChain
<1>14. TypeInv' BY <1>1, <1>8, <1>9, <1>11, PageFacts, PageStep
<1>15. WaitingIsWatched' BY <1>8, <1>9, Watched
<1> QED BY <1>13, <1>14, <1>15 DEF PanelInv

\* The page keeps its state, document and selection, and the calls that ask.
LEMMA KeptPage ==
  ASSUME PanelInv, UNCHANGED service, page' \in Pages, Shown(page', page), UNCHANGED <<polling, seen>>,
         calls' \in Seq(AllCalls), Inherits(calls'), RunsAim(calls'), strayed' \in BOOLEAN,
         strayed' \/ (page'.state = page.state /\ (strayed => strayed') /\ (Watches(calls) # {} => Watches(calls') # {}))
  PROVE  PanelInv'
<1>1. UNCHANGED <<timers, seen, doc>> BY DEF polling, service
<1>2. TypeInv' BY <1>1, PageFacts, PageStep
<1>3. ChainInv' /\ ShownInv' BY <1>1, <1>2, SameDocuments, KeptChain DEF Shown
<1>4. WaitingIsWatched'
  <2>1. Live({"boot", "refresh", "poll", "run"}) = Watches(calls)
        /\ Live({"boot", "refresh", "poll", "run"})' = Watches(calls')
    BY DEF Live, Watches
  <2> QED BY <1>1, <2>1 DEF PanelInv, WaitingIsWatched, Shown
<1> QED BY <1>2, <1>3, <1>4 DEF PanelInv

LEMMA MarkDirtyKeepsInv == ASSUME PanelInv, MarkDirty PROVE PanelInv'
<1>1. page' = [page EXCEPT !.saved = None] /\ UNCHANGED <<service, polling, calls, history>> BY DEF MarkDirty
<1>2. page \in Pages BY PageFacts
<1>3. None \in Targets \cup {None} OBVIOUS
<1>4. page' \in Pages /\ Shown(page', page) BY <1>1, <1>2, <1>3, PageTargets
<1>5. page'.state = page.state BY <1>1, <1>2, SMT DEF Pages
<1> QED BY <1>1, <1>4, <1>5, PageFacts, KeptPage DEF history

LEMMA SaveConfigurationKeepsInv == ASSUME PanelInv, SaveConfiguration PROVE PanelInv'
<1> DEFINE flag == TRUE
           kind == "save"
           t == page.selected
<1>1. /\ page' = [page EXCEPT !.busy = flag] /\ calls' = Append(calls, Call(kind, t))
      /\ UNCHANGED <<service, polling, history>>
  BY DEF SaveConfiguration
<1>2. page \in Pages /\ flag \in BOOLEAN BY PageFacts
<1>3. kind \in Kinds /\ kind \notin StateKinds /\ kind # "run" /\ t \in Targets \cup {None}
  BY <1>2, PageFields DEF Kinds, StateKinds
<1> HIDE DEF flag, kind, t
<1>4. page' \in Pages /\ Shown(page', page) BY <1>1, <1>2, PageBusy
<1>5. page'.state = page.state BY <1>1, <1>2, SMT DEF Pages
<1>6. calls \in Seq(AllCalls) /\ RunsAim(calls) BY PageFacts
<1>7. /\ calls' \in Seq(AllCalls) /\ RunsAim(calls') /\ (Watches(calls) # {} => Watches(calls') # {})
      /\ \A j \in Asks(calls') : j \in Asks(calls) /\ calls'[j] = calls[j]
  BY <1>1, <1>3, <1>6, SentCall
<1>8. Inherits(calls') BY <1>7, PageFacts DEF Inherits
<1> QED BY <1>1, <1>4, <1>5, <1>7, <1>8, PageFacts, KeptPage DEF history

LEMMA RunAuditKeepsInv == ASSUME PanelInv, RunAudit PROVE PanelInv'
<1> DEFINE s == "running"
           flag == TRUE
           p1 == [page EXCEPT !.state = s]
           p2 == [p1 EXCEPT !.busy = flag]
           p == Rendered(p2)
<1>1. /\ Shows(p, FALSE) /\ timers' = <<>> /\ UNCHANGED service /\ page.selected # None
      /\ calls' = Append(Cancelled(calls), Call("run", page.selected))
  BY DEF RunAudit, RunAllowed
<1>2. page \in Pages BY PageFacts
<1>3. s \in States /\ flag \in BOOLEAN BY DEF States
<1> HIDE DEF s, flag
<1>4. p1 \in Pages /\ Shown(p1, page) BY <1>2, <1>3, PageStates
<1> HIDE DEF p1
<1>5. p2 \in Pages /\ Shown(p2, p1) BY <1>3, <1>4, PageBusy
<1> HIDE DEF p2
<1>6. p \in Pages /\ p.document = page.document /\ p.selected = page.selected
  BY <1>4, <1>5, RenderedPage DEF Shown
<1> HIDE DEF p
<1>7. page' = p /\ seen' = seen /\ strayed' \in BOOLEAN BY <1>1, <1>6, ShowsOldQuietly
<1>8. NewestIsShown' BY <1>6, <1>7 DEF PanelInv, ShownInv, NewestIsShown
<1>9. Cancelled(calls) \in Seq(AllCalls) /\ Asks(Cancelled(calls)) = {} /\ RunsAim(Cancelled(calls))
  BY PageFacts, QuietCalls
<1>10. "run" \in Kinds /\ "run" \notin StateKinds /\ "run" # "save" /\ page.selected \in Targets \cup {None}
  BY <1>2, PageFields DEF Kinds, StateKinds
<1>11. calls' \in Seq(AllCalls) /\ RunsAim(calls') /\ Watches(calls') # {} /\ Asks(calls') = {}
  <2>1. /\ calls' \in Seq(AllCalls) /\ RunsAim(calls') /\ Watches(calls') # {}
        /\ \A j \in Asks(calls') : j \in Asks(Cancelled(calls))
    BY <1>1, <1>9, <1>10, SentCall
  <2> QED BY <1>9, <2>1
<1>12. \A u \in Targets : seen'[u] <= doc'[u].saved BY <1>1, <1>7, PageFacts DEF service
<1>13. ChainInv' /\ ShownInv' BY <1>1, <1>8, <1>11, <1>12, QuietChain
<1>14. TypeInv' BY <1>1, <1>6, <1>7, <1>11, PageFacts, PageStep
<1> QED BY <1>11, <1>13, <1>14, Watched DEF PanelInv

LEMMA ApplyLanguageKeepsInv == ASSUME PanelInv, ApplyLanguage PROVE PanelInv'
<1>1. Shows(Rendered(page), TRUE) /\ UNCHANGED <<service, polling, calls, budget>> BY DEF ApplyLanguage
<1>2. /\ Rendered(page) \in Pages /\ Rendered(page).document = page.document
      /\ Rendered(page).selected = page.selected
  BY PageFacts, RenderedPage
<1>3. page' = Rendered(page) /\ seen' = seen /\ strayed' \in BOOLEAN /\ strayed' BY <1>1, <1>2, ShowsOldStrayed
<1>4. Shown(page', page) BY <1>2, <1>3 DEF Shown
<1> QED BY <1>1, <1>2, <1>3, <1>4, PageFacts, KeptPage
-----------------------------------------------------------------------------
(* Answers and timers.                                                      *)

\* Polling is started, stopped or continued when nobody but the timer asks.
LEMMA Polled ==
  ASSUME PanelInv, NEW p \in Pages, page' = p, p.selected = page.selected,
         NEW t \in Targets \cup {None}, NEW cs \in Seq(AllCalls), RunsAim(cs), Inherits(cs),
         \A u \in Targets : seen'[u] <= doc'[u].saved, NewestIsShown',
         \/ t \in Targets /\ StartPolling(p, t, cs)
         \/ StopPolling(cs) /\ (t \in Targets => ~ShouldContinuePolling(p, t))
         \/ t \in Targets /\ ContinuePolling(p, t, cs) /\ timers = <<>> /\ Asks(cs) = {} /\ t = p.selected
  PROVE  /\ ChainInv' /\ ShownInv' /\ calls' \in Seq(AllCalls) /\ timers' \in Seq(Targets)
         /\ t \in Targets /\ t = p.selected /\ WorkState(p.state) => timers' # <<>>
<1>1. Cancelled(cs) \in Seq(AllCalls) /\ Asks(Cancelled(cs)) = {} /\ RunsAim(Cancelled(cs)) BY QuietCalls
<1>2. /\ timers \in Seq(Targets) /\ <<>> \in Seq(Targets) /\ (t \in Targets => <<t>> \in Seq(Targets))
      /\ Len(<<t>>) = 1 /\ <<t>>[1] = t /\ <<t>> # <<>>
  BY PageFacts
<1>3. timers # <<>> => Len(timers) = 1 /\ timers[1] = p.selected /\ Asks(cs) = {}
  BY DEF PanelInv, ChainInv, Inherits
<1>4. WorkState(p.state) => ShouldContinuePolling(p, t) BY WaitingContinues
<1>5. \/ timers # <<>> /\ timers' = timers /\ calls' = cs
      \/ timers' = <<>> /\ calls' = Cancelled(cs) /\ ~(t \in Targets /\ t = p.selected /\ ShouldContinuePolling(p, t))
      \/ timers' = <<t>> /\ t \in Targets /\ t = p.selected /\ calls' = Cancelled(cs)
      \/ timers' = <<t>> /\ t \in Targets /\ t = p.selected /\ calls' = cs /\ Asks(cs) = {}
  <2>1. CASE t \in Targets /\ StartPolling(p, t, cs)
    <3>1. CASE timers # <<>> /\ Last(timers) = t BY <2>1, <3>1 DEF StartPolling, polling
    <3>2. CASE ~(timers # <<>> /\ Last(timers) = t) BY <2>1, <3>2 DEF StartPolling
    <3> QED BY <3>1, <3>2
  <2>2. CASE StopPolling(cs) /\ (t \in Targets => ~ShouldContinuePolling(p, t)) BY <2>2 DEF StopPolling
  <2>3. CASE t \in Targets /\ ContinuePolling(p, t, cs) /\ timers = <<>> /\ Asks(cs) = {} /\ t = p.selected
    <3>1. CASE ShouldContinuePolling(p, t)
      <4>1. timers' = Append(timers, t) /\ calls' = cs BY <2>3, <3>1 DEF ContinuePolling
      <4>2. Append(<<>>, t) = <<t>> OBVIOUS
      <4> QED BY <2>3, <4>1, <4>2
    <3>2. CASE ~ShouldContinuePolling(p, t) BY <2>3, <3>2 DEF ContinuePolling, StopPolling
    <3> QED BY <3>1, <3>2
  <2> QED BY <2>1, <2>2, <2>3
<1>6. /\ Asks(calls') = {} /\ RunsAim(calls') /\ calls' \in Seq(AllCalls) /\ timers' \in Seq(Targets)
      /\ timers' # <<>> => Len(timers') = 1 /\ timers'[1] = page'.selected
  BY <1>1, <1>2, <1>3, <1>5
<1>7. ChainInv' /\ ShownInv' BY <1>6, QuietChain
<1> QED BY <1>2, <1>4, <1>5, <1>6, <1>7

\* A call that asks and is about to be answered, or to fail.
LEMMA AskingCall ==
  ASSUME PanelInv, NEW i \in 1..Len(calls), calls[i].kind \in StateKinds, calls[i].live
  PROVE  /\ i \in Asks(calls) /\ timers = <<>> /\ Asks(Rest(i)) = {}
         /\ calls[i].kind = "boot" => calls[i].target = None
         /\ calls[i].kind # "boot" => calls[i].target = page.selected /\ calls[i].target \in Targets
<1>1. i \in Asks(calls) BY DEF Asks
<1>2. Aims(calls[i], page.selected) /\ timers = <<>> BY <1>1 DEF PanelInv, ChainInv
<1>3. page.selected \in Targets \cup {None} BY PageFacts, PageFields
<1> QED BY <1>1, <1>2, <1>3, RestInherits DEF Aims

LEMMA StateAnsweredKeepsInv == ASSUME PanelInv, NEW i \in 1..Len(calls), StateAnswered(i) PROVE PanelInv'
<1> DEFINE c == calls[i]
           t == c.target
           n == Normalized(c, t)
           p == Rendered(n)
<1>1. /\ c.kind \in {"refresh", "poll"} /\ c.stage = "answered" /\ c.live /\ Shows(p, FALSE)
      /\ UNCHANGED service
      /\ IF c.kind = "poll" THEN ContinuePolling(p, t, Rest(i))
         ELSE IF ShouldContinuePolling(p, t) THEN StartPolling(p, t, Rest(i))
         ELSE StopPolling(Rest(i))
  BY DEF StateAnswered, Accepted
<1>2. /\ i \in Asks(calls) /\ timers = <<>> /\ Asks(Rest(i)) = {} /\ c.kind # "boot" /\ c.kind \in StateKinds
      /\ t = page.selected /\ t \in Targets
  <2>1. c.kind \in StateKinds /\ c.kind # "boot" BY <1>1 DEF StateKinds
  <2> QED BY <1>1, <2>1, AskingCall
<1>3. c \in AllCalls /\ c.answer \in AllAnswers
  <2>1. c \in AllCalls BY SMT DEF PanelInv, TypeInv
  <2> QED BY <2>1, CallFields
<1>4. p \in Pages /\ p.document = c.answer.document /\ p.selected = t BY <1>2, <1>3, NormalizedPage, RenderedPage
<1>5. Fresh(c, seen, doc) BY <1>2 DEF PanelInv, ShownInv
<1> HIDE DEF n, p
<1>6. /\ page' = p /\ strayed' = strayed /\ seen' \in [Targets -> Nat]
      /\ \A u \in Targets : seen'[u] <= doc[u].saved
      /\ p.document.target # None => p.document.target \in Targets /\ p.document.saved = seen'[p.document.target]
  BY <1>1, <1>2, <1>4, ShowsAnswer
<1>7. p.document.target # None => p.document.target = t BY <1>1, <1>2, <1>4, <1>5 DEF Fresh
<1>8. NewestIsShown' BY <1>2, <1>4, <1>6, <1>7 DEF NewestIsShown
<1>9. \A u \in Targets : seen'[u] <= doc'[u].saved BY <1>1, <1>6 DEF service
<1>10. Rest(i) \in Seq(AllCalls) /\ RunsAim(Rest(i)) /\ Inherits(Rest(i)) BY RestInherits
<1>11. /\ ChainInv' /\ ShownInv' /\ calls' \in Seq(AllCalls) /\ timers' \in Seq(Targets)
       /\ WorkState(p.state) => timers' # <<>>
  BY <1>1, <1>2, <1>4, <1>6, <1>8, <1>9, <1>10, Polled
<1>12. TypeInv' BY <1>1, <1>4, <1>6, <1>11, PageFacts, PageStep
<1> QED BY <1>6, <1>11, <1>12, Watched DEF PanelInv

LEMMA BootAnsweredKeepsInv == ASSUME PanelInv, NEW i \in 1..Len(calls), BootAnswered(i) PROVE PanelInv'
<1> DEFINE c == calls[i]
           known == c.answer.known
<1>1. c.kind = "boot" /\ c.stage = "answered" /\ c.live /\ UNCHANGED service BY DEF BootAnswered, Accepted
<1>2. i \in Asks(calls) /\ timers = <<>> /\ Asks(Rest(i)) = {}
  <2>1. c.kind \in StateKinds BY <1>1 DEF StateKinds
  <2> QED BY <1>1, <2>1, AskingCall
<1>3. c \in AllCalls /\ known \subseteq Targets
  <2>1. c \in AllCalls BY SMT DEF PanelInv, TypeInv
  <2> QED BY <2>1, CallFields, AnswerFields
<1>4. Fresh(c, seen, doc) BY <1>2 DEF PanelInv, ShownInv
<1>5. PICK s \in IF page.selected \in known THEN {page.selected}
                 ELSE IF known # {} THEN known ELSE {page.selected} :
        LET p == Rendered(Normalized(c, s)) IN
        IF known # {}
        THEN /\ Shows([p EXCEPT !.busy = TRUE], FALSE)
             /\ calls' = Append(Rest(i), Call("refresh", s))
             /\ UNCHANGED polling
        ELSE /\ Shows(p, FALSE)
             /\ IF s # None /\ ShouldContinuePolling(p, s)
                THEN StartPolling(p, s, Rest(i)) ELSE StopPolling(Rest(i))
  BY DEF BootAnswered
<1> DEFINE n == Normalized(c, s)
           p == Rendered(n)
           flag == TRUE
           q == [p EXCEPT !.busy = flag]
<1>6. s \in Targets \cup {None} /\ (known # {} => s \in known) /\ (known = {} => s = page.selected)
  BY <1>3, <1>5, PageFacts, PageFields
<1>7. p \in Pages /\ p.document = c.answer.document /\ p.selected = s BY <1>3, <1>6, NormalizedPage, RenderedPage
<1>8. flag \in BOOLEAN /\ \/ known # {} /\ Shows(q, FALSE) /\ calls' = Append(Rest(i), Call("refresh", s)) /\ UNCHANGED polling
                          \/ known = {} /\ Shows(p, FALSE) /\ IF s # None /\ ShouldContinuePolling(p, s)
                                 THEN StartPolling(p, s, Rest(i)) ELSE StopPolling(Rest(i))
  BY <1>5
<1> HIDE DEF n, p, flag
<1>9. q \in Pages /\ q.document = c.answer.document /\ q.selected = s BY <1>7, <1>8, PageBusy DEF Shown
<1>10. Rest(i) \in Seq(AllCalls) /\ RunsAim(Rest(i)) /\ Inherits(Rest(i)) BY RestInherits
<1> HIDE DEF q
<1>11. c.answer.document.target # None => known = {c.answer.document.target} BY <1>1, <1>4 DEF Fresh
<1>12. CASE known # {}
  <2>1. Shows(q, FALSE) /\ calls' = Append(Rest(i), Call("refresh", s)) /\ timers' = timers BY <1>8, <1>12 DEF polling
  <2>2. /\ page' = q /\ strayed' = strayed /\ seen' \in [Targets -> Nat]
        /\ \A u \in Targets : seen'[u] <= doc[u].saved
        /\ q.document.target # None => q.document.target \in Targets /\ q.document.saved = seen'[q.document.target]
    BY <1>1, <1>2, <1>9, <2>1, ShowsAnswer
  <2>3. q.document.target # None => q.document.target = s BY <1>6, <1>9, <1>11, <1>12
  <2>4. NewestIsShown' BY <1>9, <2>2, <2>3 DEF NewestIsShown
  <2>5. \A u \in Targets : seen'[u] <= doc'[u].saved BY <1>1, <2>2 DEF service
  <2>6. s \in Targets BY <1>3, <1>6, <1>12
  <2>7. ChainInv' /\ ShownInv' /\ Watches(calls') # {} /\ calls' \in Seq(AllCalls)
    <3>1. "refresh" \in {"refresh", "poll"} /\ timers' = <<>> /\ s = page'.selected BY <1>2, <1>9, <2>1, <2>2
    <3> QED BY <1>2, <1>10, <2>1, <2>4, <2>5, <2>6, <3>1, AskedChain
  <2>8. TypeInv' BY <1>1, <1>9, <2>1, <2>2, <2>7, PageFacts, PageStep
  <2> QED BY <2>7, <2>8, Watched DEF PanelInv
<1>13. CASE known = {}
  <2>1. /\ Shows(p, FALSE)
        /\ IF s # None /\ ShouldContinuePolling(p, s) THEN StartPolling(p, s, Rest(i)) ELSE StopPolling(Rest(i))
    BY <1>8, <1>13
  <2>2. page' = p /\ strayed' = strayed /\ seen' \in [Targets -> Nat] /\ \A u \in Targets : seen'[u] <= doc[u].saved
    BY <1>1, <1>2, <1>7, <2>1, ShowsAnswer
  <2>3. p.document.target = None BY <1>7, <1>11, <1>13
  <2>4. NewestIsShown' BY <2>2, <2>3 DEF NewestIsShown
  <2>5. \A u \in Targets : seen'[u] <= doc'[u].saved BY <1>1, <2>2 DEF service
  <2>6. s = page.selected BY <1>6, <1>13
  <2>7. /\ ChainInv' /\ ShownInv' /\ calls' \in Seq(AllCalls) /\ timers' \in Seq(Targets)
        /\ s \in Targets /\ WorkState(p.state) => timers' # <<>>
    <3>1. \/ s \in Targets /\ StartPolling(p, s, Rest(i))
          \/ StopPolling(Rest(i)) /\ (s \in Targets => ~ShouldContinuePolling(p, s))
      BY <1>6, <2>1, NoneAssumption
    <3> QED BY <1>6, <1>7, <1>10, <2>2, <2>4, <2>5, <2>6, <3>1, Polled
  <2>8. TypeInv' BY <1>1, <1>7, <2>2, <2>7, PageFacts, PageStep
  <2> QED BY <1>6, <1>7, <2>2, <2>7, <2>8, Watched DEF PanelInv
<1> QED BY <1>12, <1>13

LEMMA StateIgnoredKeepsInv == ASSUME PanelInv, NEW i \in 1..Len(calls), StateIgnored(i) PROVE PanelInv'
<1> DEFINE flag == FALSE
<1>1. /\ calls[i].kind \in StateKinds /\ ~Accepted(calls[i])
      /\ page' = [page EXCEPT !.busy = flag] /\ calls' = Rest(i)
      /\ UNCHANGED <<service, polling, history, budget>>
  BY DEF StateIgnored, StateKinds
<1>2. page \in Pages /\ flag \in BOOLEAN BY PageFacts
<1> HIDE DEF flag
<1>3. page' \in Pages /\ Shown(page', page) BY <1>1, <1>2, PageBusy
<1>4. page'.state = page.state BY <1>1, <1>2, SMT DEF Pages
<1>5. ~calls[i].live
  <2>1. ~(calls[i].target = None \/ calls[i].target = page.selected) => ~calls[i].live
    BY <1>1, AskingCall
  <2> QED BY <1>1, <2>1 DEF Accepted
<1>6. Watches(calls) # {} => Watches(Rest(i)) # {}
  <2>1. i \notin Watches(calls) BY <1>5 DEF Watches
  <2> QED BY <2>1, RestInherits
<1>7. Rest(i) \in Seq(AllCalls) /\ RunsAim(Rest(i)) /\ Inherits(Rest(i)) BY RestInherits
<1> QED BY <1>1, <1>3, <1>4, <1>6, <1>7, PageFacts, KeptPage DEF history

LEMMA RunAnsweredKeepsInv == ASSUME PanelInv, NEW i \in 1..Len(calls), RunAnswered(i) PROVE PanelInv'
<1> DEFINE c == calls[i]
           t == c.target
           s == "queued"
           flag == FALSE
           p1 == [page EXCEPT !.state = s]
           p2 == [p1 EXCEPT !.item = c.answer.item]
           p3 == [p2 EXCEPT !.busy = flag]
           p == Rendered(p3)
           strays == t # page.selected
<1>1. c.kind = "run" /\ Shows(p, strays) /\ StartPolling(p, t, Rest(i)) /\ UNCHANGED service BY DEF RunAnswered
<1>2. page \in Pages /\ s \in States /\ flag \in BOOLEAN BY PageFacts DEF States
<1>3. c \in AllCalls /\ c.answer.item \in States /\ t \in Targets
  <2>1. c \in AllCalls BY SMT DEF PanelInv, TypeInv
  <2>2. c.answer.item \in States /\ t \in Targets \cup {None} BY <2>1, CallFields, AnswerFields
  <2> QED BY <1>1, <2>1, <2>2 DEF PanelInv, ChainInv
<1>4. strayed' = (strayed \/ strays) BY <1>1 DEF Shows
<1>5. strayed' \in BOOLEAN /\ (t # page.selected => strayed') BY <1>4, Zenon
<1> HIDE DEF s, flag, strays
<1>6. p1 \in Pages /\ Shown(p1, page) BY <1>2, PageStates
<1> HIDE DEF p1
<1>7. p2 \in Pages /\ Shown(p2, p1) BY <1>3, <1>6, PageStates
<1> HIDE DEF p2
<1>8. p3 \in Pages /\ Shown(p3, p2) BY <1>2, <1>7, PageBusy
<1> HIDE DEF p3
<1>9. p \in Pages /\ p.document = page.document /\ p.selected = page.selected
  BY <1>6, <1>7, <1>8, RenderedPage DEF Shown
<1> HIDE DEF p
<1>10. page' = p /\ seen' = seen BY <1>1, <1>9, ShowsOld
<1>11. NewestIsShown' BY <1>9, <1>10 DEF PanelInv, ShownInv, NewestIsShown
<1>12. \A u \in Targets : seen'[u] <= doc'[u].saved BY <1>1, <1>10, PageFacts DEF service
<1>13. Rest(i) \in Seq(AllCalls) /\ RunsAim(Rest(i)) /\ Inherits(Rest(i)) BY RestInherits
<1>14. /\ ChainInv' /\ ShownInv' /\ calls' \in Seq(AllCalls) /\ timers' \in Seq(Targets)
       /\ t = p.selected /\ WorkState(p.state) => timers' # <<>>
  <2>1. t \in Targets \cup {None} BY <1>3
  <2> QED BY <1>1, <1>3, <1>9, <1>10, <1>11, <1>12, <1>13, <2>1, Polled
<1>15. TypeInv' BY <1>1, <1>5, <1>9, <1>10, <1>14, PageFacts, PageStep
<1>16. WaitingIsWatched' BY <1>5, <1>9, <1>10, <1>14, Watched
<1> QED BY <1>14, <1>15, <1>16 DEF PanelInv

LEMMA SaveAnsweredKeepsInv == ASSUME PanelInv, NEW i \in 1..Len(calls), SaveAnswered(i) PROVE PanelInv'
<1>1. PICK t \in calls[i].answer.known :
        LET s == IF page.selected # None THEN page.selected ELSE t IN
        Shows(Rendered([page EXCEPT !.named = t, !.selected = s, !.saved = s, !.busy = FALSE,
                                    !.listed = @ \cup {s, t}, !.detailed = @ \cup {s, t}]), TRUE)
  BY DEF SaveAnswered
<1>2. calls' = Rest(i) /\ UNCHANGED <<service, polling, budget>> BY DEF SaveAnswered
<1> DEFINE s == IF page.selected # None THEN page.selected ELSE t
           listed == page.listed \cup {s, t}
           detailed == page.detailed \cup {s, t}
           flag == FALSE
           p1 == [page EXCEPT !.named = t]
           p2 == [p1 EXCEPT !.selected = s]
           p3 == [p2 EXCEPT !.saved = s]
           p4 == [p3 EXCEPT !.busy = flag]
           p5 == [p4 EXCEPT !.listed = listed]
           p6 == [p5 EXCEPT !.detailed = detailed]
           p == Rendered(p6)
<1>3. page \in Pages /\ flag \in BOOLEAN /\ t \in Targets
  <2>1. calls[i] \in AllCalls BY SMT DEF PanelInv, TypeInv
  <2> QED BY <1>1, <2>1, PageFacts, CallFields, AnswerFields
<1>4. /\ t \in Targets \cup {None} /\ s \in Targets \cup {None} /\ listed \in SUBSET Targets
      /\ detailed \in SUBSET Targets /\ (s = page.selected \/ page.selected = None)
  BY <1>3, PageFields
<1>5. Shows(p, TRUE)
  <2>1. p6 = [page EXCEPT !.named = t, !.selected = s, !.saved = s, !.busy = FALSE,
                          !.listed = @ \cup {s, t}, !.detailed = @ \cup {s, t}]
    BY <1>3 DEF Pages
  <2> QED BY <1>1, <2>1
<1> HIDE DEF s, listed, detailed, flag
<1>6. p1 \in Pages /\ Shown(p1, page) BY <1>3, <1>4, PageTargets
<1> HIDE DEF p1
<1>7. p2 \in Pages /\ p2.selected = s /\ p2.document = p1.document BY <1>4, <1>6, PageSelected
<1> HIDE DEF p2
<1>8. p3 \in Pages /\ Shown(p3, p2) BY <1>4, <1>7, PageTargets
<1> HIDE DEF p3
<1>9. p4 \in Pages /\ Shown(p4, p3) BY <1>3, <1>8, PageBusy
<1> HIDE DEF p4
<1>10. p5 \in Pages /\ Shown(p5, p4) BY <1>4, <1>9, PageSets
<1> HIDE DEF p5
<1>11. p6 \in Pages /\ Shown(p6, p5) BY <1>4, <1>10, PageSets
<1> HIDE DEF p6
<1>12. p \in Pages /\ p.document = page.document /\ p.selected = s
  BY <1>6, <1>7, <1>8, <1>9, <1>10, <1>11, RenderedPage DEF Shown
<1> HIDE DEF p
<1>13. page' = p /\ seen' = seen /\ strayed' /\ strayed' \in BOOLEAN BY <1>5, <1>12, ShowsOldStrayed
<1>14. Rest(i) \in Seq(AllCalls) /\ RunsAim(Rest(i)) /\ Inherits(Rest(i)) BY RestInherits
<1>15. UNCHANGED <<timers, doc>> BY <1>2 DEF polling, service
<1>16. TypeInv' BY <1>2, <1>12, <1>13, <1>14, <1>15, PageFacts, PageStep
<1>17. ChainInv' /\ ShownInv' BY <1>2, <1>4, <1>12, <1>13, <1>14, <1>15, <1>16, SameDocuments, KeptChain
<1>18. WaitingIsWatched' BY <1>13, Watched
<1> QED BY <1>16, <1>17, <1>18 DEF PanelInv

\* The end of the chain with a page that says so.
LEMMA ExpireKeepsInv ==
  ASSUME PanelInv, UNCHANGED service, NEW p \in Pages, Shown(p, page),
         NEW cs \in Seq(AllCalls), RunsAim(cs), Expire(p, cs)
  PROVE  PanelInv'
<1> DEFINE s == "failed"
           n == [p EXCEPT !.state = s]
<1>1. Shows(n, FALSE) /\ timers' = <<>> /\ calls' = Cancelled(cs) BY DEF Expire, StopPolling
<1>2. s \in States /\ n.state = s /\ ~WorkState(s) BY SMT DEF States, Pages, WorkState
<1> HIDE DEF s
<1>3. n \in Pages /\ Shown(n, p) BY <1>2, PageStates
<1> HIDE DEF n
<1>4. n.document = page.document /\ n.selected = page.selected BY <1>3 DEF Shown
<1>5. page' = n /\ seen' = seen /\ strayed' \in BOOLEAN BY <1>1, <1>4, ShowsOldQuietly
<1>6. NewestIsShown' BY <1>4, <1>5 DEF PanelInv, ShownInv, NewestIsShown
<1>7. \A u \in Targets : seen'[u] <= doc'[u].saved BY <1>5, PageFacts DEF service
<1>8. calls' \in Seq(AllCalls) /\ Asks(calls') = {} /\ RunsAim(calls') BY <1>1, QuietCalls
<1>9. ChainInv' /\ ShownInv' BY <1>1, <1>6, <1>7, <1>8, QuietChain
<1>10. TypeInv' BY <1>1, <1>3, <1>5, <1>8, PageFacts, PageStep
<1>11. WaitingIsWatched' BY <1>2, <1>5, Watched
<1> QED BY <1>9, <1>10, <1>11 DEF PanelInv

LEMMA PollTimesOutKeepsInv == ASSUME PanelInv, NEW i \in 1..Len(calls), PollTimesOut(i) PROVE PanelInv'
<1> DEFINE flag == FALSE
           p == [page EXCEPT !.busy = flag]
<1>1. Expire(p, Rest(i)) /\ UNCHANGED service BY DEF PollTimesOut
<1>2. page \in Pages /\ flag \in BOOLEAN BY PageFacts
<1> HIDE DEF flag
<1>3. p \in Pages /\ Shown(p, page) BY <1>2, PageBusy
<1> HIDE DEF p
<1>4. Rest(i) \in Seq(AllCalls) /\ RunsAim(Rest(i)) BY RestInherits
<1> QED BY <1>1, <1>3, <1>4, ExpireKeepsInv

LEMMA PollStateKeepsInv == ASSUME PanelInv, PollState PROVE PanelInv'
<1> DEFINE flag == TRUE
           t == Head(timers)
<1>1. timers # <<>> /\ UNCHANGED service BY DEF PollState
<1>2. \/ Expire(page, calls)
      \/ /\ calls' = Append(calls, Call("poll", t)) /\ timers' = Tail(timers)
         /\ page' = [page EXCEPT !.busy = flag] /\ UNCHANGED history
  BY DEF PollState
<1>3. page \in Pages /\ flag \in BOOLEAN /\ calls \in Seq(AllCalls) /\ RunsAim(calls) BY PageFacts
<1>4. CASE Expire(page, calls)
  <2>1. Shown(page, page) BY DEF Shown
  <2> QED BY <1>1, <1>3, <1>4, <2>1, ExpireKeepsInv
<1>5. CASE /\ calls' = Append(calls, Call("poll", t)) /\ timers' = Tail(timers)
           /\ page' = [page EXCEPT !.busy = flag] /\ UNCHANGED history
  <2>1. t = page.selected /\ t \in Targets /\ timers' = <<>> /\ Asks(calls) = {}
    <3>1. Len(timers) = 1 /\ timers[1] = page.selected /\ Asks(calls) = {} /\ timers \in Seq(Targets)
      BY <1>1 DEF PanelInv, ChainInv, TypeInv
    <3>2. Head(timers) = timers[1] /\ timers[1] \in Targets /\ Tail(timers) \in Seq(Targets) /\ Len(Tail(timers)) = 0
      BY <3>1, SMT
    <3>3. Tail(timers) = <<>> BY <3>2, EmptySeq
    <3> QED BY <1>5, <3>1, <3>2, <3>3
  <2> HIDE DEF flag, t
  <2>2. page' \in Pages /\ Shown(page', page) BY <1>3, <1>5, PageBusy
  <2>3. NewestIsShown' BY <1>5, <2>2 DEF PanelInv, ShownInv, NewestIsShown, Shown, history
  <2>4. \A u \in Targets : seen'[u] <= doc'[u].saved BY <1>1, <1>5, PageFacts DEF service, history
  <2>5. ChainInv' /\ ShownInv' /\ Watches(calls') # {} /\ calls' \in Seq(AllCalls)
    <3>1. "poll" \in {"refresh", "poll"} /\ t = page'.selected BY <2>1, <2>2 DEF Shown
    <3> QED BY <1>3, <1>5, <2>1, <2>3, <2>4, <3>1, AskedChain
  <2>6. TypeInv' BY <1>1, <1>5, <2>1, <2>2, <2>5, PageFacts, PageStep DEF history
  <2> QED BY <2>5, <2>6, Watched DEF PanelInv
<1> QED BY <1>2, <1>4, <1>5

LEMMA StateFailsKeepsInv ==
  ASSUME PanelInv, NEW i \in 1..Len(calls), StateFails(i), UNCHANGED service PROVE PanelInv'
<1> DEFINE c == calls[i]
           t == c.target
           s == "failed"
           flag == FALSE
           p1 == [page EXCEPT !.state = s]
           p2 == [p1 EXCEPT !.busy = flag]
           p == Rendered(p2)
<1>1. /\ c.kind \in StateKinds /\ c.live /\ Shows(p, TRUE)
      /\ IF c.kind = "poll" THEN ContinuePolling(p, t, Rest(i)) ELSE calls' = Rest(i) /\ UNCHANGED polling
  BY DEF StateFails, Accepted, StateKinds
<1>2. page \in Pages /\ s \in States /\ flag \in BOOLEAN BY PageFacts DEF States
<1> HIDE DEF s, flag
<1>3. p1 \in Pages /\ Shown(p1, page) BY <1>2, PageStates
<1> HIDE DEF p1
<1>4. p2 \in Pages /\ Shown(p2, p1) BY <1>2, <1>3, PageBusy
<1> HIDE DEF p2
<1>5. p \in Pages /\ p.document = page.document /\ p.selected = page.selected
  BY <1>3, <1>4, RenderedPage DEF Shown
<1> HIDE DEF p
<1>6. page' = p /\ seen' = seen /\ strayed' /\ strayed' \in BOOLEAN BY <1>1, <1>5, ShowsOldStrayed
<1>7. Rest(i) \in Seq(AllCalls) /\ RunsAim(Rest(i)) /\ Inherits(Rest(i)) BY RestInherits
<1>8. CASE c.kind = "poll"
  <2>1. timers = <<>> /\ Asks(Rest(i)) = {} /\ t = page.selected /\ t \in Targets /\ t \in Targets \cup {None}
    BY <1>1, <1>8, AskingCall
  <2>2. NewestIsShown' BY <1>5, <1>6 DEF PanelInv, ShownInv, NewestIsShown
  <2>3. \A u \in Targets : seen'[u] <= doc'[u].saved BY <1>6, PageFacts DEF service
  <2>4. ChainInv' /\ ShownInv' /\ calls' \in Seq(AllCalls) /\ timers' \in Seq(Targets)
    BY <1>1, <1>5, <1>6, <1>7, <1>8, <2>1, <2>2, <2>3, Polled
  <2>5. TypeInv' BY <1>5, <1>6, <2>4, PageFacts, PageStep
  <2> QED BY <1>6, <2>4, <2>5, Watched DEF PanelInv
<1>9. CASE c.kind # "poll"
  <2>1. Shown(page', page) /\ calls' = Rest(i) /\ UNCHANGED polling BY <1>1, <1>5, <1>6, <1>9 DEF Shown
  <2> QED BY <1>5, <1>6, <1>7, <2>1, KeptPage
<1> QED BY <1>8, <1>9

LEMMA CommandFailsKeepsInv ==
  ASSUME PanelInv, NEW i \in 1..Len(calls), CommandFails(i), UNCHANGED service PROVE PanelInv'
<1> DEFINE s == "failed"
           flag == FALSE
           p1 == [page EXCEPT !.state = s]
           p2 == [p1 EXCEPT !.busy = flag]
           p == Rendered(p2)
           q == [page EXCEPT !.busy = flag]
<1>1. /\ calls' = Rest(i) /\ UNCHANGED polling
      /\ \/ calls[i].kind = "run" /\ Shows(p, TRUE)
         \/ calls[i].kind = "save" /\ page' = q /\ UNCHANGED history
  BY DEF CommandFails
<1>2. page \in Pages /\ s \in States /\ flag \in BOOLEAN BY PageFacts DEF States
<1>3. q.state = page.state BY <1>2, SMT DEF Pages
<1> HIDE DEF s, flag
<1>4. p1 \in Pages /\ Shown(p1, page) BY <1>2, PageStates
<1> HIDE DEF p1
<1>5. p2 \in Pages /\ Shown(p2, p1) BY <1>2, <1>4, PageBusy
<1> HIDE DEF p2
<1>6. p \in Pages /\ Shown(p, page) BY <1>4, <1>5, RenderedPage DEF Shown
<1> HIDE DEF p
<1>7. q \in Pages /\ Shown(q, page) BY <1>2, PageBusy
<1> HIDE DEF q
<1>8. Rest(i) \in Seq(AllCalls) /\ RunsAim(Rest(i)) /\ Inherits(Rest(i)) BY RestInherits
<1>9. CASE Shows(p, TRUE)
  <2>1. p.document = page.document BY <1>6 DEF Shown
  <2>2. page' = p /\ seen' = seen /\ strayed' /\ strayed' \in BOOLEAN BY <1>9, <2>1, ShowsOldStrayed
  <2> QED BY <1>1, <1>6, <1>8, <2>2, KeptPage
<1>10. CASE calls[i].kind = "save" /\ page' = q /\ UNCHANGED history
  <2>1. Watches(calls) # {} => Watches(Rest(i)) # {}
    <3>1. i \notin Watches(calls) BY <1>10 DEF Watches
    <3> QED BY <3>1, RestInherits
  <2> QED BY <1>1, <1>3, <1>7, <1>8, <1>10, <2>1, PageFacts, KeptPage DEF history
<1> QED BY <1>1, <1>9, <1>10
-----------------------------------------------------------------------------
(* The inductive invariant.                                                 *)

LEMMA StutterKeepsInv == ASSUME PanelInv, UNCHANGED vars PROVE PanelInv'
<1>1. UNCHANGED <<configured, queue, doc, page, timers, calls, seen, strayed>> BY DEF vars, service, polling, history
<1> QED BY <1>1 DEF PanelInv, TypeInv, ChainInv, ShownInv, NewestIsShown, WaitingIsWatched, Live, Asks

LEMMA InitInv == ASSUME Init PROVE PanelInv
<1> DEFINE c == Call("boot", None)
<1>1. c \in AllCalls /\ c.kind = "boot" /\ c.target = None /\ c.live /\ c.stage = "sent"
  <2>1. "boot" \in Kinds /\ None \in Targets \cup {None} BY DEF Kinds
  <2> QED BY <2>1, NewCall
<1>2. calls = <<c>> /\ timers = <<>> /\ seen = [t \in Targets |-> 0] /\ strayed = FALSE /\ queue = <<>>
      /\ doc = [t \in Targets |-> [state |-> "empty", saved |-> 0]] /\ configured \subseteq Targets
  BY DEF Init
<1> HIDE DEF c
<1>3. calls \in Seq(AllCalls) /\ Len(calls) = 1 /\ calls[1] = c BY <1>1, <1>2
<1>4. \A i \in 1..Len(calls) : calls[i] = c /\ i = 1 BY <1>3, SMT
<1>5. page \in Pages /\ page.document.target = None /\ page.selected = None
  <2> DEFINE view == NoAnswer.view
             summary == NoAnswer.summary
             flag == TRUE
             nothing == {}
             empty == "empty"
             none == "none"
             d == NoDocument
  <2>1. view \in [Targets -> States] /\ summary \in [Targets -> States] BY NoAnswerIsAnswer, AnswerFields
  <2>2. flag \in BOOLEAN /\ nothing \in SUBSET Targets /\ empty \in States /\ none \in States /\ d \in Documents
          /\ d.target = None
    BY NoAnswerIsAnswer DEF States
  <2>3. page = [state |-> empty, document |-> d, view |-> view, named |-> None,
                item |-> none, summary |-> summary, listed |-> nothing, detailed |-> nothing,
                selected |-> None, saved |-> None, busy |-> flag]
    BY DEF Init
  <2> HIDE DEF view, summary, flag, nothing, empty, none, d
  <2>4. None \in Targets \cup {None} OBVIOUS
  <2>5. page \in Pages BY <2>1, <2>2, <2>3, <2>4, SMT DEF Pages
  <2> QED BY <2>2, <2>3, <2>5
<1>6. TypeInv
  <2>1. doc \in [Targets -> Stored]
    <3>1. "empty" \in States /\ 0 \in Nat BY DEF States
    <3>2. [state |-> "empty", saved |-> 0] \in Stored BY <3>1, SMT DEF Stored
    <3> QED BY <1>2, <3>2
  <2>2. queue \in Seq(Items) /\ timers \in Seq(Targets) BY <1>2
  <2>3. seen \in [Targets -> Nat] BY <1>2
  <2>4. strayed \in BOOLEAN BY <1>2
  <2> QED BY <1>2, <1>3, <1>5, <2>1, <2>2, <2>3, <2>4 DEF TypeInv
<1>7. ChainInv BY <1>1, <1>2, <1>4 DEF ChainInv, Aims, Asks
<1>8. ShownInv
  <2>1. \A t \in Targets : seen[t] <= doc[t].saved BY <1>2
  <2>2. NewestIsShown BY <1>5 DEF NewestIsShown
  <2> QED BY <1>1, <1>4, <2>1, <2>2 DEF ShownInv, Fresh, Asks
<1>9. WaitingIsWatched BY <1>5 DEF WaitingIsWatched
<1> QED BY <1>6, <1>7, <1>8, <1>9 DEF PanelInv

LEMMA NextKeepsInv == ASSUME PanelInv, [Next]_vars PROVE PanelInv'
<1>1. CASE \E t \in Targets : DailyRun(t) \/ SelectTarget(t) BY <1>1, DailyRunKeepsInv, SelectTargetKeepsInv
<1>2. CASE Claim \/ PublishRunning \/ PublishResult \/ Settle BY <1>2, ClaimOrSettleKeepsInv, PublishKeepsInv
<1>3. CASE StartNewTarget \/ MarkDirty \/ SaveConfiguration \/ RunAudit \/ ApplyLanguage
  BY <1>3, StartNewTargetKeepsInv, MarkDirtyKeepsInv, SaveConfigurationKeepsInv, RunAuditKeepsInv,
     ApplyLanguageKeepsInv
<1>4. ASSUME NEW i \in 1..Len(calls), Serve(i) PROVE PanelInv'
  BY <1>4, ReadDocumentKeepsInv, ReadQueueKeepsInv, AcceptRunKeepsInv, AcceptSaveKeepsInv DEF Serve
<1>5. ASSUME NEW i \in 1..Len(calls), Receive(i) PROVE PanelInv'
  BY <1>5, StateAnsweredKeepsInv, BootAnsweredKeepsInv, StateIgnoredKeepsInv, RunAnsweredKeepsInv,
     SaveAnsweredKeepsInv DEF Receive
<1>6. ASSUME NEW i \in 1..Len(calls), CallFails(i) PROVE PanelInv'
  BY <1>6, StateFailsKeepsInv, CommandFailsKeepsInv DEF CallFails
<1>7. ASSUME NEW i \in 1..Len(calls), PollTimesOut(i) PROVE PanelInv' BY <1>7, PollTimesOutKeepsInv
<1>8. CASE PollState BY <1>8, PollStateKeepsInv
<1>9. CASE UNCHANGED vars BY <1>9, StutterKeepsInv
<1> QED BY <1>1, <1>2, <1>3, <1>4, <1>5, <1>6, <1>7, <1>8, <1>9 DEF Next

\* The state that the page and its calls are in, whatever the user, the service
\* and the host do (app/app.js).
THEOREM Invariance == Spec => []PanelInv
<1>1. Init => PanelInv BY InitInv
<1>2. PanelInv /\ [Next]_vars => PanelInv' BY NextKeepsInv
<1> QED BY <1>1, <1>2, PTL DEF Spec
-----------------------------------------------------------------------------
\* NewestIsShown: the panel never shows the document of a target that is not
\* selected, nor goes back to one from before a report it has known of.
THEOREM NewestShown == Spec => []NewestIsShown
<1>1. PanelInv => NewestIsShown BY DEF PanelInv, ShownInv
<1> QED BY <1>1, Invariance, PTL

\* OnePollingChain: startPolling, schedulePolling and pollState never make two
\* chains, and the one there is asks for the selected target.
THEOREM OneChain == Spec => []OnePollingChain
<1>1. ASSUME PanelInv PROVE OnePollingChain
  <2> DEFINE polls == Live({"poll"})
  <2>1. /\ timers \in Seq(Targets)
        /\ timers # <<>> => Len(timers) = 1 /\ timers[1] = page.selected /\ Asks(calls) = {}
    BY <1>1 DEF PanelInv, TypeInv, ChainInv
  <2>2. polls \subseteq Asks(calls) BY DEF Live, Asks, StateKinds
  <2>3. \A i, j \in Asks(calls) : i = j BY <1>1 DEF PanelInv, ChainInv
  <2> HIDE DEF polls
  <2>4. CASE polls = {}
    <3>1. Cardinality(polls) = 0 BY <2>4, FS_EmptySet
    <3>2. Len(timers) = 0 \/ Len(timers) = 1 BY <2>1, SMT
    <3>3. \A i \in 1..Len(timers) : timers[i] = page.selected BY <2>1, <3>2, SMT
    <3> QED BY <3>1, <3>2, <3>3 DEF OnePollingChain, polls
  <2>5. CASE polls # {}
    <3>1. PICK i : polls = {i} BY <2>2, <2>3, <2>5
    <3>2. Cardinality(polls) = 1 BY <3>1, FS_Singleton
    <3>3. timers = <<>> BY <2>1, <2>2, <2>5
    <3>4. Len(timers) = 0 BY <3>3
    <3> QED BY <3>2, <3>4 DEF OnePollingChain, polls
  <2> QED BY <2>4, <2>5
<1> QED BY <1>1, Invariance, PTL

\* WaitingIsWatched: while the page says that a target waits or runs, and has not
\* strayed, a timer is set or a call will set one.
THEOREM WaitingWatched == Spec => []WaitingIsWatched
<1>1. PanelInv => WaitingIsWatched BY DEF PanelInv
<1> QED BY <1>1, Invariance, PTL
-----------------------------------------------------------------------------
(* The bounds and the lists of targets.                                     *)

Visible == {"empty", "queued", "running", "ready", "failed"}
Summaries == [Targets -> Visible \cup {"unknown"}]

\* What the page shows of the targets that it lists, all of them configured.
ListsInv(p, known) ==
  /\ p.state \in Visible /\ p.summary \in Summaries
  /\ p.selected \in p.listed \cup {None} /\ p.saved \in p.listed \cup {None}
  /\ p.detailed \subseteq p.listed /\ p.listed \subseteq known

\* A call is about a target that the page lists, its answer about configured ones.
AboutListed(c, listed, known) ==
  /\ c.target \in listed \cup {None}
  /\ c.answer.known \subseteq known /\ c.answer.summary \in Summaries
  /\ c.kind \in StateKinds /\ c.stage # "sent" => c.answer.state \in Visible

\* Who polls has time left.
NoPolls(cs) == \A i \in 1..Len(cs) : cs[i].kind = "poll" => ~cs[i].live
TimeInv == left \in 0..MaxPolls /\ (left = 0 => timers = <<>> /\ NoPolls(calls))

CountsInv ==
  /\ Len(queue) + Cardinality(Sent) <= MaxItems
  /\ clicks \in 0..MaxClicks /\ failures \in 0..MaxFailures

\* Items whose report, if any, is saved.
Done == {i \in 1..Len(queue) :
           queue[i].status = "settled" \/ (queue[i].status = "running" /\ step = "published")}

\* The consumer has one item in hand, and no target more reports than items are done.
ConsumerInv ==
  /\ step \in {"idle", "claimed", "running", "published"}
  /\ step = "idle" <=> \A i \in 1..Len(queue) : queue[i].status # "running"
  /\ \A i, j \in 1..Len(queue) : queue[i].status = "running" /\ queue[j].status = "running" => i = j
  /\ \A t \in Targets : doc[t].state \in Visible /\ doc[t].saved <= Cardinality(Done)

BoundsInv ==
  /\ ListsInv(page, configured)
  /\ \A i \in 1..Len(calls) : AboutListed(calls[i], page.listed, configured)
  /\ TimeInv /\ CountsInv /\ ConsumerInv
-----------------------------------------------------------------------------
\* The calls that stay are calls in flight, with what they carry, each at one place.
SameCall(c, d) ==
  c.kind = d.kind /\ c.target = d.target /\ c.stage = d.stage /\ c.answer = d.answer /\ (c.live => d.live)
Stays(cs) ==
  \E f \in [1..Len(cs) -> 1..Len(calls)] :
    /\ \A j, k \in 1..Len(cs) : f[j] = f[k] => j = k
    /\ \A j \in 1..Len(cs) : SameCall(cs[j], calls[f[j]])

LEMMA CallsStay == Stays(calls)
<1> DEFINE f == [i \in 1..Len(calls) |-> i]
<1>1. f \in [1..Len(calls) -> 1..Len(calls)] OBVIOUS
<1>2. \A j, k \in 1..Len(calls) : f[j] = f[k] => j = k OBVIOUS
<1>3. \A j \in 1..Len(calls) : SameCall(calls[j], calls[f[j]]) BY DEF SameCall
<1> HIDE DEF f
<1> QED BY <1>1, <1>2, <1>3 DEF Stays

LEMMA RestStays ==
  ASSUME calls \in Seq(AllCalls), NEW i \in 1..Len(calls)
  PROVE  Stays(Rest(i))
<1> DEFINE g(j) == IF j < i THEN j ELSE j + 1
           f == [j \in 1..Len(Rest(i)) |-> g(j)]
<1>1. Len(calls) \in Nat BY SMT
<1>2. /\ Rest(i) \in Seq(AllCalls) /\ Len(Rest(i)) = Len(calls) - 1
      /\ \A j \in 1..Len(Rest(i)) : Rest(i)[j] = calls[g(j)]
  BY RestOfCalls
<1>3. ASSUME NEW j \in 1..Len(Rest(i)) PROVE g(j) \in 1..Len(calls)
  BY <1>1, <1>2, SMT
<1>4. ASSUME NEW j \in 1..Len(Rest(i)), NEW k \in 1..Len(Rest(i)), g(j) = g(k) PROVE j = k
  BY <1>1, <1>2, <1>4, SMT
<1> HIDE DEF g
<1>5. f \in [1..Len(Rest(i)) -> 1..Len(calls)] /\ \A j \in 1..Len(Rest(i)) : f[j] = g(j) BY <1>3
<1> HIDE DEF f
<1>6. \A j, k \in 1..Len(Rest(i)) : f[j] = f[k] => j = k BY <1>4, <1>5
<1>7. \A j \in 1..Len(Rest(i)) : SameCall(Rest(i)[j], calls[f[j]]) BY <1>2, <1>5 DEF SameCall
<1> QED BY <1>5, <1>6, <1>7 DEF Stays

LEMMA CancelledStay ==
  ASSUME NEW cs \in Seq(AllCalls), Stays(cs)
  PROVE  Stays(Cancelled(cs)) /\ \A i \in 1..Len(Cancelled(cs)) : ~Cancelled(cs)[i].live
<1> DEFINE n == Cancelled(cs)
<1>1. n \in Seq(AllCalls) /\ Len(n) = Len(cs) /\ \A i \in 1..Len(cs) : ~n[i].live BY CancelledCalls
<1>2. \A i \in 1..Len(cs) : SameCall(n[i], cs[i])
  <2> TAKE i \in 1..Len(cs)
  <2>1. n[i] = [cs[i] EXCEPT !.live = FALSE] BY DEF Cancelled
  <2>2. cs[i] \in AllCalls BY ElementOfSeq
  <2>3. ASSUME NEW c \in AllCalls PROVE SameCall([c EXCEPT !.live = FALSE], c) BY SMT DEF AllCalls, SameCall
  <2> QED BY <2>1, <2>2, <2>3
<1> HIDE DEF n
<1>3. PICK f \in [1..Len(cs) -> 1..Len(calls)] :
        /\ \A j, k \in 1..Len(cs) : f[j] = f[k] => j = k
        /\ \A j \in 1..Len(cs) : SameCall(cs[j], calls[f[j]])
  BY DEF Stays
<1>4. \A j \in 1..Len(n) : SameCall(n[j], calls[f[j]]) BY <1>1, <1>2, <1>3 DEF SameCall
<1> QED BY <1>1, <1>3, <1>4 DEF Stays, n

\* Commands that the service has not accepted, of any list of calls.
SentOf(cs) == {i \in 1..Len(cs) : cs[i].kind = "run" /\ cs[i].stage = "sent"}

LEMMA SentIsFinite ==
  ASSUME NEW cs \in Seq(AllCalls)
  PROVE  IsFiniteSet(SentOf(cs)) /\ Cardinality(SentOf(cs)) \in Nat
<1>1. Len(cs) \in Nat BY SMT
<1>2. IsFiniteSet(1..Len(cs)) BY <1>1, FS_Interval, SMT
<1>3. SentOf(cs) \in SUBSET (1..Len(cs)) BY DEF SentOf
<1> QED BY <1>2, <1>3, FS_Subset, FS_CardinalityType

LEMMA SentShrinks ==
  ASSUME calls \in Seq(AllCalls), NEW cs, Stays(cs)
  PROVE  IsFiniteSet(SentOf(cs)) /\ Cardinality(SentOf(cs)) <= Cardinality(SentOf(calls))
<1>1. PICK f \in [1..Len(cs) -> 1..Len(calls)] :
        /\ \A j, k \in 1..Len(cs) : f[j] = f[k] => j = k
        /\ \A j \in 1..Len(cs) : SameCall(cs[j], calls[f[j]])
  BY DEF Stays
<1> DEFINE S == SentOf(cs)
           T == SentOf(calls)
           g == [j \in S |-> f[j]]
<1>2. S \subseteq 1..Len(cs) BY DEF SentOf
<1>3. \A j \in S : f[j] \in T BY <1>1, <1>2 DEF SentOf, SameCall
<1> HIDE DEF S, T
<1>4. g \in Injection(S, T)
  <2>1. g \in [S -> T] /\ DOMAIN g = S BY <1>3
  <2>2. \A j, k \in S : g[j] = g[k] => j = k BY <1>1, <1>2
  <2> HIDE DEF g
  <2> QED BY <2>1, <2>2 DEF Injection, IsInjective
<1>5. IsFiniteSet(T) BY SentIsFinite DEF T
<1>6. IsFiniteSet(S) /\ Cardinality(S) <= Cardinality(T) BY <1>4, <1>5, FS_Injection
<1> QED BY <1>6 DEF S, T

LEMMA StayedCalls ==
  ASSUME PanelInv, BoundsInv, Stays(calls'),
         page.listed \subseteq page'.listed, configured \subseteq configured'
  PROVE  /\ \A j \in 1..Len(calls') : AboutListed(calls'[j], page'.listed, configured')
         /\ Cardinality(Sent)' <= Cardinality(Sent)
         /\ NoPolls(calls) => NoPolls(calls')
<1>1. PICK f \in [1..Len(calls') -> 1..Len(calls)] :
        /\ \A j, k \in 1..Len(calls') : f[j] = f[k] => j = k
        /\ \A j \in 1..Len(calls') : SameCall(calls'[j], calls[f[j]])
  BY DEF Stays
<1>2. \A j \in 1..Len(calls') : AboutListed(calls'[j], page'.listed, configured')
  BY <1>1 DEF BoundsInv, AboutListed, SameCall
<1>3. calls \in Seq(AllCalls) BY DEF PanelInv, TypeInv
<1>4. Sent = SentOf(calls) /\ Sent' = SentOf(calls') BY DEF Sent, SentOf
<1>5. Cardinality(SentOf(calls')) <= Cardinality(SentOf(calls)) BY <1>3, SentShrinks
<1>6. NoPolls(calls) => NoPolls(calls') BY <1>1 DEF NoPolls, SameCall
<1> QED BY <1>2, <1>4, <1>5, <1>6

LEMMA AddedCall ==
  ASSUME PanelInv, BoundsInv, NEW cs \in Seq(AllCalls), Stays(cs),
         NEW kind \in Kinds, NEW t \in page'.listed \cup {None}, t \in Targets \cup {None},
         calls' = Append(cs, Call(kind, t)),
         page.listed \subseteq page'.listed, configured \subseteq configured'
  PROVE  /\ \A j \in 1..Len(calls') : AboutListed(calls'[j], page'.listed, configured')
         /\ Cardinality(Sent)' <= Cardinality(Sent) + 1
         /\ kind # "run" => Cardinality(Sent)' <= Cardinality(Sent)
         /\ NoPolls(cs) /\ kind # "poll" => NoPolls(calls')
<1> DEFINE c == Call(kind, t)
<1>1. /\ c \in AllCalls /\ c.kind = kind /\ c.target = t /\ c.stage = "sent" /\ c.answer = NoAnswer
  BY NewCall DEF Call
<1> HIDE DEF c
<1>2. /\ calls' \in Seq(AllCalls) /\ Len(calls') = Len(cs) + 1 /\ Len(cs) \in Nat
      /\ calls'[Len(cs) + 1] = c /\ \A i \in 1..Len(cs) : calls'[i] = cs[i]
  BY <1>1, AppendedCall DEF c
<1>3. \A j \in 1..Len(calls') : j \in 1..Len(cs) \/ j = Len(cs) + 1 BY <1>2, SMT
<1>4. PICK f \in [1..Len(cs) -> 1..Len(calls)] :
        /\ \A j, k \in 1..Len(cs) : f[j] = f[k] => j = k
        /\ \A j \in 1..Len(cs) : SameCall(cs[j], calls[f[j]])
  BY DEF Stays
<1>5. NoAnswer.known = {} /\ NoAnswer.summary \in Summaries BY DEF NoAnswer, Summaries
<1>6. \A j \in 1..Len(calls') : AboutListed(calls'[j], page'.listed, configured')
  <2>1. AboutListed(c, page'.listed, configured') BY <1>1, <1>5 DEF AboutListed
  <2>2. \A j \in 1..Len(cs) : AboutListed(cs[j], page'.listed, configured')
    BY <1>4 DEF BoundsInv, AboutListed, SameCall
  <2> QED BY <1>2, <1>3, <2>1, <2>2
<1>7. calls \in Seq(AllCalls) BY DEF PanelInv, TypeInv
<1> DEFINE n == Cardinality(SentOf(cs))
<1>8. n \in Nat /\ Cardinality(Sent) \in Nat /\ n <= Cardinality(Sent) /\ IsFiniteSet(SentOf(cs))
  BY <1>7, SentIsFinite, SentShrinks DEF Sent, SentOf
<1>9. Sent' \subseteq SentOf(cs) \cup {Len(cs) + 1} /\ (kind # "run" => Sent' \subseteq SentOf(cs))
  BY <1>1, <1>2, <1>3 DEF Sent, SentOf
<1>10. Cardinality(Sent)' <= n + 1 /\ (kind # "run" => Cardinality(Sent)' <= n) /\ Cardinality(Sent)' \in Nat
  <2> DEFINE S == SentOf(cs)
             last == Len(cs) + 1
             R == Sent'
  <2>1. IsFiniteSet(S) /\ R \subseteq S \cup {last} /\ (kind # "run" => R \subseteq S) BY <1>8, <1>9
  <2> HIDE DEF S, last, R
  <2>2. IsFiniteSet(S \cup {last}) /\ Cardinality(S \cup {last}) \in {Cardinality(S), Cardinality(S) + 1}
    BY <2>1, FS_AddElement
  <2>3. IsFiniteSet(R) /\ Cardinality(R) <= Cardinality(S \cup {last}) BY <2>1, <2>2, FS_Subset
  <2>4. kind # "run" => Cardinality(R) <= Cardinality(S) BY <2>1, FS_Subset
  <2>5. Cardinality(R) \in Nat /\ Cardinality(S) \in Nat BY <2>1, <2>3, FS_CardinalityType
  <2>6. Cardinality(R) <= Cardinality(S) + 1 BY <2>2, <2>3, <2>5, SMT
  <2> QED BY <2>4, <2>5, <2>6 DEF R, S
<1> HIDE DEF n
<1>11. Cardinality(Sent)' <= Cardinality(Sent) + 1 /\ (kind # "run" => Cardinality(Sent)' <= Cardinality(Sent))
  BY <1>8, <1>10, SMT
<1>12. NoPolls(cs) /\ kind # "poll" => NoPolls(calls') BY <1>1, <1>2, <1>3 DEF NoPolls
<1> QED BY <1>6, <1>11, <1>12

\* What starting, stopping and continuing do to the time left.
LEMMA PollingTime ==
  ASSUME PanelInv, BoundsInv, NEW cs \in Seq(AllCalls), Stays(cs), NEW p, NEW t,
         \/ StartPolling(p, t, cs) \/ StopPolling(cs)
         \/ ContinuePolling(p, t, cs) /\ left # 0
         \/ calls' = cs /\ UNCHANGED polling
  PROVE  Stays(calls') /\ TimeInv'
<1>1. Stays(Cancelled(cs)) /\ NoPolls(Cancelled(cs)) BY CancelledStay DEF NoPolls
<1>2. left \in 0..MaxPolls /\ (left = 0 => timers = <<>> /\ NoPolls(calls)) BY DEF BoundsInv, TimeInv
<1>3. NoPolls(calls) => NoPolls(cs) BY DEF Stays, NoPolls, SameCall
<1>4. CASE StartPolling(p, t, cs)
  <2>1. CASE timers # <<>> /\ Last(timers) = t BY <1>2, <1>3, <1>4, <2>1 DEF StartPolling, polling, TimeInv
  <2>2. CASE ~(timers # <<>> /\ Last(timers) = t)
    <3>1. left' = MaxPolls /\ calls' = Cancelled(cs) BY <1>4, <2>2 DEF StartPolling
    <3>2. MaxPolls \in 0..MaxPolls /\ MaxPolls # 0 BY BoundsAssumption, SMT
    <3> QED BY <1>1, <3>1, <3>2 DEF TimeInv
  <2> QED BY <2>1, <2>2
<1>5. ASSUME StopPolling(cs) PROVE Stays(calls') /\ TimeInv'
  <2>1. 0 \in 0..MaxPolls BY BoundsAssumption, SMT
  <2> QED BY <1>1, <1>5, <2>1 DEF StopPolling, TimeInv
<1>6. CASE ContinuePolling(p, t, cs) /\ left # 0
  <2>1. CASE ShouldContinuePolling(p, t) BY <1>2, <1>6, <2>1 DEF ContinuePolling, TimeInv
  <2>2. CASE ~ShouldContinuePolling(p, t) BY <1>5, <1>6, <2>2 DEF ContinuePolling
  <2> QED BY <2>1, <2>2
<1>7. CASE calls' = cs /\ UNCHANGED polling BY <1>2, <1>3, <1>7 DEF polling, TimeInv
<1> QED BY <1>4, <1>5, <1>6, <1>7
-----------------------------------------------------------------------------
(* The consumer and its queue.                                              *)

LEMMA DoneIsFinite ==
  ASSUME PanelInv
  PROVE  /\ IsFiniteSet(Done) /\ Cardinality(Done) \in Nat /\ Cardinality(Done) <= Len(queue) /\ Len(queue) \in Nat
         /\ \A t \in Targets : doc[t].saved \in Nat
<1>1. Len(queue) \in Nat BY SMT DEF PanelInv, TypeInv
<1>2. IsFiniteSet(1..Len(queue)) /\ Cardinality(1..Len(queue)) = Len(queue) BY <1>1, FS_Interval, SMT
<1>3. Done \in SUBSET (1..Len(queue)) BY DEF Done
<1>4. IsFiniteSet(Done) /\ Cardinality(Done) <= Len(queue) BY <1>2, <1>3, FS_Subset
<1>5. \A t \in Targets : doc[t].saved \in Nat BY SMT DEF PanelInv, TypeInv, Stored
<1> QED BY <1>1, <1>4, <1>5, FS_CardinalityType

LEMMA DoneStaysFinite ==
  ASSUME PanelInv'
  PROVE  IsFiniteSet(Done)' /\ (Cardinality(Done) \in Nat)'
<1> DEFINE n == Len(queue')
<1>1. n \in Nat BY SMT DEF PanelInv, TypeInv
<1>2. Done' \in SUBSET (1..n) BY DEF Done
<1> HIDE DEF n
<1>3. IsFiniteSet(1..n) BY <1>1, FS_Interval, SMT
<1> QED BY <1>2, <1>3, FS_Subset, FS_CardinalityType

\* More items are done, and no more reports are saved.
LEMMA MoreDone ==
  ASSUME PanelInv, PanelInv', ConsumerInv, Done \subseteq Done', UNCHANGED doc
  PROVE  \A t \in Targets : doc'[t].state \in Visible /\ doc'[t].saved <= Cardinality(Done)'
<1>1. IsFiniteSet(Done)' /\ (Cardinality(Done) \in Nat)' BY DoneStaysFinite
<1>2. Cardinality(Done) <= Cardinality(Done') BY <1>1, FS_Subset
<1>3. Cardinality(Done) \in Nat /\ \A t \in Targets : doc[t].saved \in Nat BY DoneIsFinite
<1> SUFFICES ASSUME NEW t \in Targets PROVE doc[t].state \in Visible /\ doc[t].saved <= Cardinality(Done)' OBVIOUS
<1>4. doc[t].state \in Visible /\ doc[t].saved <= Cardinality(Done) BY DEF ConsumerInv
<1> DEFINE old == Cardinality(Done)
           new == Cardinality(Done')
<1>5. old \in Nat /\ new \in Nat /\ old <= new /\ doc[t].saved <= old /\ doc[t].saved \in Nat BY <1>1, <1>2, <1>3, <1>4
<1> HIDE DEF old, new
<1>6. doc[t].saved <= new BY <1>5, SMT
<1> QED BY <1>4, <1>6 DEF new

LEMMA StatusSet ==
  ASSUME PanelInv, NEW i \in 1..Len(queue), NEW s, queue' = [queue EXCEPT ![i].status = s]
  PROVE  /\ Len(queue') = Len(queue)
         /\ queue'[i].status = s /\ queue'[i].target = queue[i].target
         /\ \A j \in 1..Len(queue) : j # i => queue'[j] = queue[j]
<1>1. queue \in Seq(Items) BY DEF PanelInv, TypeInv
<1>2. queue[i] \in Items BY <1>1, ElementOfSeq
<1> DEFINE r == [queue[i] EXCEPT !.status = s]
<1>3. r.status = s /\ r.target = queue[i].target BY <1>2, SMT DEF Items
<1>4. queue \in [1..Len(queue) -> Items] /\ Len(queue) \in Nat BY <1>1, LenProperties
<1>5. queue' = [queue EXCEPT ![i] = r] BY <1>4
<1> HIDE DEF r
<1>6. queue' = [j \in 1..Len(queue) |-> IF j = i THEN r ELSE queue[j]] BY <1>4, <1>5
<1>7. Len(queue') = Len(queue) BY <1>4, <1>6, SMT
<1> QED BY <1>3, <1>6, <1>7

LEMMA QueuedItem ==
  ASSUME PanelInv, PanelInv', ConsumerInv, NEW item \in Items, item.status = "queued",
         queue' = Append(queue, item), UNCHANGED <<step, doc>>
  PROVE  ConsumerInv' /\ Len(queue') = Len(queue) + 1
<1>1. queue \in Seq(Items) /\ Len(queue) \in Nat BY SMT DEF PanelInv, TypeInv
<1>2. /\ Len(queue') = Len(queue) + 1 /\ queue'[Len(queue) + 1] = item
      /\ \A j \in 1..Len(queue) : queue'[j] = queue[j]
  BY <1>1, SMT
<1>3. \A j \in 1..Len(queue') : j \in 1..Len(queue) \/ j = Len(queue) + 1 BY <1>1, <1>2, SMT
<1>4. \A j \in 1..Len(queue) : j \in 1..Len(queue') BY <1>1, <1>2, SMT
<1>5. Done \subseteq Done' BY <1>2, <1>4 DEF Done
<1>6. \A t \in Targets : doc'[t].state \in Visible /\ doc'[t].saved <= Cardinality(Done)' BY <1>5, MoreDone
<1>7. step' = "idle" <=> \A j \in 1..Len(queue') : queue'[j].status # "running"
  BY <1>2, <1>3, <1>4 DEF ConsumerInv
<1>8. \A j, k \in 1..Len(queue') : queue'[j].status = "running" /\ queue'[k].status = "running" => j = k
  BY <1>2, <1>3 DEF ConsumerInv
<1> QED BY <1>2, <1>6, <1>7, <1>8 DEF ConsumerInv

LEMMA ClaimedItem ==
  ASSUME PanelInv, PanelInv', ConsumerInv, Claim
  PROVE  ConsumerInv' /\ Len(queue') = Len(queue)
<1>1. PICK i \in 1..Len(queue) :
        queue[i].status = "queued" /\ queue' = [queue EXCEPT ![i].status = "running"]
  BY DEF Claim
<1>2. step = "idle" /\ step' = "claimed" /\ UNCHANGED doc BY DEF Claim
<1>3. /\ Len(queue') = Len(queue) /\ queue'[i].status = "running"
      /\ \A j \in 1..Len(queue) : j # i => queue'[j] = queue[j]
  BY <1>1, StatusSet
<1>4. \A j \in 1..Len(queue) : queue[j].status # "running" BY <1>2 DEF ConsumerInv
<1>5. Done \subseteq Done' BY <1>1, <1>2, <1>3, <1>4 DEF Done
<1>6. \A t \in Targets : doc'[t].state \in Visible /\ doc'[t].saved <= Cardinality(Done)' BY <1>2, <1>5, MoreDone
<1>7. step' # "idle" /\ step' \in {"idle", "claimed", "running", "published"} BY <1>2
<1>8. \A j, k \in 1..Len(queue') : queue'[j].status = "running" /\ queue'[k].status = "running" => j = k
  BY <1>3, <1>4
<1> QED BY <1>3, <1>6, <1>7, <1>8 DEF ConsumerInv

LEMMA RunningItem ==
  ASSUME ConsumerInv, step # "idle"
  PROVE  Running \in 1..Len(queue) /\ queue[Running].status = "running"
BY DEF ConsumerInv, Running

LEMMA SettledItem ==
  ASSUME PanelInv, PanelInv', ConsumerInv, Settle
  PROVE  ConsumerInv' /\ Len(queue') = Len(queue)
<1> DEFINE i == Running
<1>1. step # "idle" /\ step' = "idle" /\ UNCHANGED doc /\ queue' = [queue EXCEPT ![i].status = "settled"]
  BY DEF Settle
<1>2. i \in 1..Len(queue) /\ queue[i].status = "running" BY <1>1, RunningItem
<1> HIDE DEF i
<1>3. /\ Len(queue') = Len(queue) /\ queue'[i].status = "settled"
      /\ \A j \in 1..Len(queue) : j # i => queue'[j] = queue[j]
  BY <1>1, <1>2, StatusSet
<1>4. \A j \in 1..Len(queue) : queue[j].status = "running" => j = i BY <1>2 DEF ConsumerInv
<1>5. Done \subseteq Done' BY <1>3, <1>4 DEF Done
<1>6. \A t \in Targets : doc'[t].state \in Visible /\ doc'[t].saved <= Cardinality(Done)' BY <1>1, <1>5, MoreDone
<1>7. \A j \in 1..Len(queue') : queue'[j].status # "running" BY <1>3, <1>4
<1> QED BY <1>1, <1>3, <1>6, <1>7 DEF ConsumerInv

\* A result may be one report more, and is one item more that is done.
LEMMA PublishedItem ==
  ASSUME PanelInv, PanelInv', ConsumerInv, PublishRunning \/ PublishResult
  PROVE  ConsumerInv' /\ UNCHANGED queue
<1> DEFINE t == queue[Running].target
<1>1. \/ step = "claimed" /\ Publish(t, "running", doc[t].saved, "running")
      \/ step = "running" /\ Publish(t, "ready", doc[t].saved + 1, "published")
      \/ step = "running" /\ Publish(t, "failed", doc[t].saved, "published")
  BY DEF PublishRunning, PublishResult
<1>2. UNCHANGED queue /\ step' \in {"running", "published"} BY <1>1 DEF Publish
<1>3. Running \in 1..Len(queue) /\ queue[Running].status = "running" BY <1>1, RunningItem
<1>4. t \in Targets
  <2>1. queue[Running] \in Items BY <1>3, ElementOfSeq DEF PanelInv, TypeInv
  <2> QED BY <2>1, SMT DEF Items
<1>5. doc \in [Targets -> Stored] BY DEF PanelInv, TypeInv
<1>6. PICK state \in Visible, more \in {0, 1} :
        /\ doc' = [doc EXCEPT ![t] = [state |-> state, saved |-> doc[t].saved + more]]
        /\ more = 1 => step = "running" /\ step' = "published"
  <2>1. doc[t].saved \in Nat BY <1>4, DoneIsFinite
  <2>2. doc[t].saved + 0 = doc[t].saved BY <2>1, SMT
  <2>3. 0 # 1 OBVIOUS
  <2> HIDE DEF t
  <2>4. CASE step = "claimed" /\ Publish(t, "running", doc[t].saved, "running")
    <3>1. "running" \in Visible /\ doc' = [doc EXCEPT ![t] = [state |-> "running", saved |-> doc[t].saved + 0]]
      BY <2>2, <2>4 DEF Publish, Visible
    <3> QED BY <2>3, <3>1
  <2>5. CASE step = "running" /\ Publish(t, "ready", doc[t].saved + 1, "published")
    <3>1. "ready" \in Visible /\ doc' = [doc EXCEPT ![t] = [state |-> "ready", saved |-> doc[t].saved + 1]]
      BY <2>5 DEF Publish, Visible
    <3>2. step' = "published" BY <2>5 DEF Publish
    <3> QED BY <2>3, <2>5, <3>1, <3>2
  <2>6. CASE step = "running" /\ Publish(t, "failed", doc[t].saved, "published")
    <3>1. "failed" \in Visible /\ doc' = [doc EXCEPT ![t] = [state |-> "failed", saved |-> doc[t].saved + 0]]
      BY <2>2, <2>6 DEF Publish, Visible
    <3> QED BY <2>3, <3>1
  <2> QED BY <1>1, <2>4, <2>5, <2>6
<1> DEFINE new == [state |-> state, saved |-> doc[t].saved + more]
           r == Running
<1>7. new.state = state /\ new.saved = doc[t].saved + more OBVIOUS
<1>8. doc'[t] = new /\ \A u \in Targets : u # t => doc'[u] = doc[u] BY <1>4, <1>5, <1>6
<1> HIDE DEF new, t, r
<1>9. Done \subseteq Done' /\ (more = 1 => r \in Done' /\ r \notin Done)
  <2>1. step # "published" BY <1>1
  <2>2. Done \subseteq Done' BY <1>2, <2>1 DEF Done
  <2>3. more = 1 => r \in Done' /\ r \notin Done
    <3>1. "running" # "settled" OBVIOUS
    <3> QED BY <1>2, <1>3, <1>6, <2>1, <3>1 DEF Done, r
  <2> QED BY <2>2, <2>3
<1> DEFINE before == Cardinality(Done)
           after == Cardinality(Done')
<1>10. before \in Nat /\ after \in Nat /\ before <= after /\ (more = 1 => before + 1 <= after)
  <2>1. IsFiniteSet(Done) /\ Cardinality(Done) \in Nat BY DoneIsFinite
  <2>2. IsFiniteSet(Done)' /\ (Cardinality(Done) \in Nat)' BY DoneStaysFinite
  <2>3. Cardinality(Done) <= Cardinality(Done') BY <1>9, <2>2, FS_Subset
  <2>4. ASSUME more = 1 PROVE Cardinality(Done) + 1 <= Cardinality(Done')
    <3>1. Cardinality(Done \cup {r}) = Cardinality(Done) + 1 BY <1>9, <2>1, <2>4, FS_AddElement
    <3>2. Done \cup {r} \subseteq Done' BY <1>9, <2>4
    <3>3. Cardinality(Done \cup {r}) <= Cardinality(Done') BY <2>2, <3>2, FS_Subset
    <3> QED BY <3>1, <3>3
  <2> QED BY <2>1, <2>2, <2>3, <2>4
<1>11. \A u \in Targets : doc'[u].state \in Visible /\ doc'[u].saved <= Cardinality(Done)'
  <2> SUFFICES ASSUME NEW u \in Targets PROVE doc'[u].state \in Visible /\ doc'[u].saved <= after BY DEF after
  <2>1. doc[u].state \in Visible /\ doc[u].saved <= before /\ doc[u].saved \in Nat BY DoneIsFinite DEF ConsumerInv, before
  <2> HIDE DEF before, after
  <2>2. CASE u # t
    <3>1. doc'[u] = doc[u] BY <1>8, <2>2
    <3>2. doc[u].saved <= after BY <1>10, <2>1, SMT
    <3> QED BY <2>1, <3>1, <3>2
  <2>3. CASE u = t
    <3>1. doc[u].saved + more <= after BY <1>10, <2>1, SMT
    <3> QED BY <1>7, <1>8, <2>3, <3>1
  <2> QED BY <2>2, <2>3
<1>12. step # "idle" /\ step' # "idle" /\ step' \in {"idle", "claimed", "running", "published"} BY <1>1, <1>2
<1> QED BY <1>2, <1>11, <1>12 DEF ConsumerInv
-----------------------------------------------------------------------------
(* Steps of the service.                                                    *)

LEMMA ConsumerTurn ==
  ASSUME PanelInv, BoundsInv, UNCHANGED <<configured, page, polling, calls, history, budget>>, ConsumerInv',
         Len(queue') = Len(queue) \/ (Len(queue') = Len(queue) + 1 /\ Room)
  PROVE  BoundsInv'
<1>1. UNCHANGED <<configured, page, calls, timers, left, clicks, failures>> BY DEF polling, budget
<1>2. ListsInv(page, configured)' /\ TimeInv' BY <1>1 DEF BoundsInv, ListsInv, TimeInv, NoPolls
<1>3. (\A i \in 1..Len(calls) : AboutListed(calls[i], page.listed, configured))'
  BY <1>1 DEF BoundsInv, AboutListed
<1>4. Len(queue) \in Nat /\ Cardinality(Sent) \in Nat
  <2>1. calls \in Seq(AllCalls) /\ queue \in Seq(Items) BY DEF PanelInv, TypeInv
  <2>2. Len(queue) \in Nat BY <2>1, LenProperties
  <2>3. Cardinality(SentOf(calls)) \in Nat BY <2>1, SentIsFinite
  <2> QED BY <2>2, <2>3 DEF Sent, SentOf
<1>5. Sent' = Sent BY <1>1 DEF Sent
<1> DEFINE n == Cardinality(Sent)
           old == Len(queue)
           new == Len(queue')
<1>6. old + n <= MaxItems /\ (new = old \/ (new = old + 1 /\ old + n < MaxItems)) BY DEF BoundsInv, CountsInv, Room
<1>7. n \in Nat /\ old \in Nat /\ Len(queue') + Cardinality(Sent)' = new + n BY <1>4, <1>5
<1> HIDE DEF n, old, new
<1>8. new + n <= MaxItems BY <1>6, <1>7, BoundsAssumption, SMT
<1>9. CountsInv' BY <1>1, <1>7, <1>8 DEF BoundsInv, CountsInv
<1> QED BY <1>2, <1>3, <1>9 DEF BoundsInv

LEMMA DailyRunBounds ==
  ASSUME PanelInv, PanelInv', BoundsInv, NEW t \in Targets, DailyRun(t) PROVE BoundsInv'
<1> DEFINE item == [target |-> t, trigger |-> "daily", status |-> "queued"]
<1>1. "queued" \in States /\ "daily" \in {"manual", "daily"} BY DEF States
<1>2. item \in Items /\ item.status = "queued" BY <1>1, QueueItem
<1>3. queue' = Append(queue, item) /\ Room /\ UNCHANGED <<configured, doc, step, page, polling, calls, history, budget>>
  BY DEF DailyRun, Enqueued
<1> HIDE DEF item
<1>4. ConsumerInv' /\ Len(queue') = Len(queue) + 1 BY <1>2, <1>3, QueuedItem DEF BoundsInv
<1> QED BY <1>3, <1>4, ConsumerTurn

LEMMA ConsumerBounds ==
  ASSUME PanelInv, PanelInv', BoundsInv, Claim \/ PublishRunning \/ PublishResult \/ Settle PROVE BoundsInv'
<1>1. ConsumerInv' /\ Len(queue') = Len(queue)
  BY ClaimedItem, SettledItem, PublishedItem DEF BoundsInv
<1>2. UNCHANGED <<configured, page, polling, calls, history, budget>>
  BY DEF Claim, Settle, PublishRunning, PublishResult, Publish
<1> QED BY <1>1, <1>2, ConsumerTurn

LEMMA AnsweredTurn ==
  ASSUME PanelInv, BoundsInv, NEW i \in 1..Len(calls), NEW a \in AllAnswers, NEW s \in {"half", "answered"},
         Answers(i, a, s), configured \subseteq configured', a.known \subseteq configured', a.summary \in Summaries,
         calls[i].kind \in StateKinds => a.state \in Visible,
         UNCHANGED <<page, polling, budget>>, ConsumerInv',
         Len(queue') = Len(queue) \/ (Len(queue') = Len(queue) + 1 /\ i \in Sent)
  PROVE  BoundsInv'
<1>1. s \in Stages /\ s # "sent" BY DEF Stages
<1>2. /\ calls' \in Seq(AllCalls) /\ Len(calls') = Len(calls)
      /\ \A j \in 1..Len(calls) : j # i => calls'[j] = calls[j]
      /\ calls'[i].kind = calls[i].kind /\ calls'[i].target = calls[i].target
      /\ calls'[i].live = calls[i].live /\ calls'[i].answer = a /\ calls'[i].stage = s
  BY <1>1, AnsweredCall
<1>3. UNCHANGED <<page, timers, left, clicks, failures>> BY DEF polling, budget
<1>4. ListsInv(page, configured)' BY <1>3 DEF BoundsInv, ListsInv
<1>5. (\A j \in 1..Len(calls) : AboutListed(calls[j], page.listed, configured))'
  <2>1. ASSUME NEW j \in 1..Len(calls) PROVE AboutListed(calls'[j], page.listed, configured')
    <3>1. AboutListed(calls[j], page.listed, configured) BY DEF BoundsInv
    <3>2. CASE j = i BY <1>2, <3>1, <3>2 DEF AboutListed
    <3>3. CASE j # i BY <1>2, <3>1, <3>3 DEF AboutListed
    <3> QED BY <3>2, <3>3
  <2> QED BY <1>2, <1>3, <2>1
<1>6. TimeInv' BY <1>2, <1>3 DEF BoundsInv, TimeInv, NoPolls
<1>7. calls \in Seq(AllCalls) /\ Len(queue) \in Nat BY SMT DEF PanelInv, TypeInv
<1>8. Sent' \subseteq Sent \ {i} BY <1>1, <1>2 DEF Sent
<1> DEFINE n == Cardinality(Sent)
           m == Cardinality(Sent')
           old == Len(queue)
           new == Len(queue')
<1>9. n \in Nat /\ m \in Nat /\ m <= n /\ (i \in Sent => m <= n - 1)
  <2>1. IsFiniteSet(Sent) /\ Cardinality(Sent) \in Nat BY <1>7, SentIsFinite DEF Sent, SentOf
  <2> DEFINE R == Sent \ {i}
             S == Sent'
             c == Cardinality(R)
  <2>2. IsFiniteSet(R) /\ c = (IF i \in Sent THEN n - 1 ELSE n) /\ c \in Nat
    BY <2>1, FS_RemoveElement, FS_CardinalityType
  <2>3. S \subseteq R BY <1>8
  <2> HIDE DEF R, S
  <2>4. IsFiniteSet(S) /\ Cardinality(S) <= Cardinality(R) /\ Cardinality(S) \in Nat
    BY <2>2, <2>3, FS_Subset, FS_CardinalityType
  <2>5. m <= c /\ m \in Nat /\ n \in Nat BY <2>1, <2>4 DEF S
  <2> HIDE DEF n, m, c
  <2> QED BY <2>2, <2>5, SMT
<1>10. old \in Nat /\ old + n <= MaxItems /\ (new = old \/ (new = old + 1 /\ i \in Sent)) BY <1>7 DEF BoundsInv, CountsInv
<1>11. Len(queue') + Cardinality(Sent)' = new + m OBVIOUS
<1> HIDE DEF n, m, old, new
<1>12. new + m <= MaxItems BY <1>9, <1>10, BoundsAssumption, SMT
<1>13. CountsInv' BY <1>3, <1>11, <1>12 DEF BoundsInv, CountsInv
<1> QED BY <1>4, <1>5, <1>6, <1>13 DEF BoundsInv

\* A step that leaves queue, step and documents alone leaves the consumer alone.
LEMMA SameConsumer == ASSUME ConsumerInv, UNCHANGED <<queue, doc, step>> PROVE ConsumerInv'
BY DEF ConsumerInv, Done

LEMMA EmptyAnswer ==
  /\ NoAnswer \in AllAnswers /\ NoAnswer.known = {} /\ NoAnswer.summary \in Summaries
BY NoAnswerIsAnswer DEF NoAnswer, Summaries

LEMMA ReadQueueBounds ==
  ASSUME PanelInv, PanelInv', BoundsInv, NEW i \in 1..Len(calls), ReadQueue(i) PROVE BoundsInv'
<1> DEFINE view == [t \in Targets |-> FirstOf(t)]
           old == calls[i].answer
           a == [old EXCEPT !.view = view]
<1>1. /\ calls[i].stage = "half" /\ Answers(i, a, "answered")
      /\ UNCHANGED <<service, page, polling, history, budget>>
  BY DEF ReadQueue
<1>2. view \in [Targets -> States] BY FirstStates
<1>3. calls[i] \in AllCalls BY SMT DEF PanelInv, TypeInv
<1>4. old \in AllAnswers BY <1>3, CallFields
<1>5. /\ old.known \subseteq configured /\ old.summary \in Summaries
      /\ calls[i].kind \in StateKinds => old.state \in Visible
  BY <1>1 DEF BoundsInv, AboutListed
<1> HIDE DEF view, old
<1>6. a \in AllAnswers BY <1>2, <1>4, AnswerValues
<1>7. a.known = old.known /\ a.summary = old.summary /\ a.state = old.state BY <1>4, SMT DEF AllAnswers
<1> HIDE DEF a
<1>8. UNCHANGED <<configured, queue, doc, step>> BY <1>1 DEF service
<1>9. ConsumerInv' BY <1>8, SameConsumer DEF BoundsInv
<1> QED BY <1>1, <1>5, <1>6, <1>7, <1>8, <1>9, AnsweredTurn

LEMMA ReadDocumentBounds ==
  ASSUME PanelInv, PanelInv', BoundsInv, NEW i \in 1..Len(calls), ReadDocument(i) PROVE BoundsInv'
<1> DEFINE c == calls[i]
           alone == {u \in configured : configured = {u}}
           known == IF c.target # None THEN {c.target} ELSE configured
           read == IF c.target # None THEN {c.target} ELSE alone
           states == [u \in Targets |-> IF u \in known THEN doc[u].state ELSE "unknown"]
           empty == [NoAnswer EXCEPT !.state = "empty", !.known = known, !.summary = states]
           document(t) == [target |-> t, saved |-> doc[t].saved]
           stored(t) == [NoAnswer EXCEPT !.state = doc[t].state, !.known = known, !.document = document(t)]
<1>1. /\ UNCHANGED <<service, page, polling, history, budget>>
      /\ Answers(i, empty, "half") \/ \E t \in read : Answers(i, stored(t), "half")
  BY DEF ReadDocument
<1>2. c.target \in page.listed \cup {None} /\ page.listed \subseteq configured /\ configured \subseteq Targets
  BY DEF BoundsInv, AboutListed, ListsInv, PanelInv, TypeInv
<1>3. known \subseteq configured /\ known \in SUBSET Targets /\ read \subseteq Targets BY <1>2
<1>4. \A t \in Targets : doc[t].state \in Visible /\ doc[t].saved \in Nat /\ doc[t].state \in States
  BY DoneIsFinite DEF BoundsInv, ConsumerInv, Visible, States
<1>5. states \in Summaries /\ states \in [Targets -> States] BY <1>4 DEF Summaries, States
<1>6. UNCHANGED <<configured, queue, doc, step>> BY <1>1 DEF service
<1>7. ConsumerInv' BY <1>6, SameConsumer DEF BoundsInv
<1> HIDE DEF known, read, states
<1>8. CASE Answers(i, empty, "half")
  <2> DEFINE s == "empty"
             m1 == [NoAnswer EXCEPT !.state = s]
             m2 == [m1 EXCEPT !.known = known]
             m3 == [m2 EXCEPT !.summary = states]
  <2>1. empty = m3 OBVIOUS
  <2>2. s \in States /\ s \in Visible BY DEF States, Visible
  <2> HIDE DEF s
  <2>3. m1 \in AllAnswers /\ m1.state = s BY <2>2, EmptyAnswer, SMT DEF AllAnswers
  <2> HIDE DEF m1
  <2>4. m2 \in AllAnswers /\ m2.state = s /\ m2.known = known BY <1>3, <2>3, SMT DEF AllAnswers
  <2> HIDE DEF m2
  <2>5. m3 \in AllAnswers /\ m3.state = s /\ m3.known = known /\ m3.summary = states BY <1>5, <2>4, SMT DEF AllAnswers
  <2> HIDE DEF m3, empty
  <2> QED BY <1>1, <1>3, <1>5, <1>6, <1>7, <1>8, <2>1, <2>2, <2>5, AnsweredTurn
<1>9. ASSUME NEW t \in read, Answers(i, stored(t), "half") PROVE BoundsInv'
  <2> DEFINE s == doc[t].state
             d == document(t)
             m1 == [NoAnswer EXCEPT !.state = s]
             m2 == [m1 EXCEPT !.known = known]
             m3 == [m2 EXCEPT !.document = d]
             a == stored(t)
  <2>1. a = m3 OBVIOUS
  <2>2. s \in States /\ s \in Visible /\ doc[t].saved \in Nat /\ t \in Targets BY <1>3, <1>4
  <2>3. d \in Documents BY <2>2, SMT DEF Documents
  <2> HIDE DEF s, d
  <2>4. m1 \in AllAnswers /\ m1.state = s /\ m1.summary = NoAnswer.summary BY <2>2, EmptyAnswer, SMT DEF AllAnswers
  <2> HIDE DEF m1
  <2>5. m2 \in AllAnswers /\ m2.state = s /\ m2.known = known /\ m2.summary = NoAnswer.summary
    BY <1>3, <2>4, SMT DEF AllAnswers
  <2> HIDE DEF m2
  <2>6. m3 \in AllAnswers /\ m3.state = s /\ m3.known = known /\ m3.summary = NoAnswer.summary
    BY <2>3, <2>5, SMT DEF AllAnswers
  <2>7. Answers(i, a, "half") BY <1>9
  <2> HIDE DEF m3, a
  <2> QED BY <1>1, <1>3, <1>6, <1>7, <2>1, <2>2, <2>6, <2>7, EmptyAnswer, AnsweredTurn
<1> QED BY <1>1, <1>8, <1>9

LEMMA AcceptRunBounds ==
  ASSUME PanelInv, PanelInv', BoundsInv, NEW i \in 1..Len(calls), AcceptRun(i) PROVE BoundsInv'
<1> DEFINE item == [target |-> calls[i].target, trigger |-> "manual", status |-> "queued"]
<1>1. /\ calls[i].kind = "run" /\ calls[i].stage = "sent"
      /\ UNCHANGED <<configured, doc, step, page, polling, history, budget>>
      /\ \/ queue' = Append(queue, item) /\ Answers(i, [NoAnswer EXCEPT !.item = "queued"], "answered")
         \/ /\ UNCHANGED queue
            /\ \E j \in 1..Len(queue) : Answers(i, [NoAnswer EXCEPT !.item = queue[j].status], "answered")
  BY DEF AcceptRun, Enqueued
<1>2. "queued" \in States /\ "manual" \in {"manual", "daily"} BY DEF States
<1>3. calls[i] \in AllCalls BY SMT DEF PanelInv, TypeInv
<1>4. calls[i].target \in Targets BY <1>1, <1>3, CallFields DEF PanelInv, ChainInv
<1>5. item \in Items /\ item.status = "queued" BY <1>2, <1>4, QueueItem
<1> HIDE DEF item
<1>6. ConsumerInv' /\ (Len(queue') = Len(queue) \/ Len(queue') = Len(queue) + 1)
  BY <1>1, <1>5, QueuedItem, SameConsumer DEF BoundsInv
<1>7. PICK s \in States : Answers(i, [NoAnswer EXCEPT !.item = s], "answered")
  <2>1. \A j \in 1..Len(queue) : queue[j].status \in States BY QueueStates
  <2> QED BY <1>1, <1>2, <2>1
<1> DEFINE a == [NoAnswer EXCEPT !.item = s]
<1>8. a \in AllAnswers /\ a.known = {} /\ a.summary \in Summaries
  BY EmptyAnswer, SMT DEF AllAnswers
<1>9. Answers(i, a, "answered") BY <1>7
<1> HIDE DEF a
<1>10. i \in Sent /\ calls[i].kind \notin StateKinds BY <1>1 DEF Sent, StateKinds
<1> QED BY <1>1, <1>6, <1>8, <1>9, <1>10, AnsweredTurn

LEMMA AcceptSaveBounds ==
  ASSUME PanelInv, PanelInv', BoundsInv, NEW i \in 1..Len(calls), AcceptSave(i) PROVE BoundsInv'
<1>1. calls[i].kind = "save" /\ UNCHANGED <<queue, doc, step, page, polling, history, budget>> BY DEF AcceptSave
<1>2. calls[i].target \in page.listed \cup {None} /\ page.listed \subseteq configured /\ configured \subseteq Targets
  BY DEF BoundsInv, AboutListed, ListsInv, PanelInv, TypeInv
<1>3. PICK t \in Targets :
        /\ Answers(i, [NoAnswer EXCEPT !.known = {t}], "answered")
        /\ configured \subseteq configured' /\ t \in configured'
  <2>1. CASE calls[i].target # None BY <1>2, <2>1 DEF AcceptSave
  <2>2. CASE calls[i].target = None
    <3>1. PICK t \in Targets :
            /\ configured' = configured \cup {t}
            /\ \E last \in IF t \in configured THEN configured ELSE {t} :
                 Answers(i, [NoAnswer EXCEPT !.known = {last}], "answered")
      BY <2>2 DEF AcceptSave
    <3>2. PICK last \in configured' : Answers(i, [NoAnswer EXCEPT !.known = {last}], "answered") BY <3>1
    <3> QED BY <1>2, <3>1, <3>2
  <2> QED BY <2>1, <2>2
<1> DEFINE S == {t}
           a == [NoAnswer EXCEPT !.known = S]
<1>4. S \in SUBSET Targets /\ S \subseteq configured' /\ Answers(i, a, "answered") BY <1>3
<1> HIDE DEF S
<1>5. a \in AllAnswers /\ a.known = S /\ a.summary \in Summaries BY <1>4, EmptyAnswer, SMT DEF AllAnswers
<1> HIDE DEF a
<1>6. calls[i].kind \notin StateKinds BY <1>1 DEF StateKinds
<1>7. ConsumerInv' BY <1>1, SameConsumer DEF BoundsInv
<1> QED BY <1>1, <1>3, <1>4, <1>5, <1>6, <1>7, AnsweredTurn
-----------------------------------------------------------------------------
(* Steps of the page.                                                       *)

\* The fields that ListsInv speaks of.
HasLists(p) == {"state", "summary", "selected", "saved", "detailed", "listed"} \subseteq DOMAIN p

LEMMA RenderedLists ==
  ASSUME NEW p, HasLists(p), NEW known, ListsInv(p, known)
  PROVE  ListsInv(Rendered(p), known) /\ Rendered(p).listed = p.listed /\ HasLists(Rendered(p))
<1>1. CASE QueueState(p) \in ActiveStatus
  <2> DEFINE s == QueueState(p)
  <2>1. Rendered(p) = [p EXCEPT !.state = s] BY <1>1 DEF Rendered
  <2>2. s \in Visible BY <1>1 DEF ActiveStatus, Visible
  <2> HIDE DEF s
  <2> QED BY <2>1, <2>2, SMT DEF ListsInv, HasLists
<1>2. CASE QueueState(p) \notin ActiveStatus BY <1>2 DEF Rendered
<1> QED BY <1>1, <1>2

\* The step of a page that sends nothing, and of one that sends a call.
LEMMA QuietTurn ==
  ASSUME PanelInv, BoundsInv, UNCHANGED service, ListsInv(page', configured), page.listed \subseteq page'.listed,
         Stays(calls'), TimeInv', clicks' \in 0..MaxClicks, failures' \in 0..MaxFailures
  PROVE  BoundsInv'
<1>1. UNCHANGED <<configured, queue, doc, step>> BY DEF service
<1>2. ListsInv(page, configured)' BY <1>1 DEF ListsInv
<1>3. configured \subseteq configured' BY <1>1
<1>4. /\ \A j \in 1..Len(calls') : AboutListed(calls'[j], page'.listed, configured')
      /\ Cardinality(Sent)' <= Cardinality(Sent)
  BY <1>3, StayedCalls
<1>5. ConsumerInv' BY <1>1, SameConsumer DEF BoundsInv
<1>6. calls \in Seq(AllCalls) /\ Len(queue) \in Nat BY SMT DEF PanelInv, TypeInv
<1> DEFINE n == Cardinality(Sent)
           m == Cardinality(Sent')
           k == Len(queue)
<1>7. n \in Nat /\ m \in Nat /\ m <= n /\ k \in Nat /\ k + n <= MaxItems
  <2>1. n \in Nat BY <1>6, SentIsFinite DEF Sent, SentOf
  <2>2. m \in Nat BY <1>6, SentShrinks, FS_CardinalityType DEF Sent, SentOf
  <2> QED BY <1>4, <1>6, <2>1, <2>2 DEF BoundsInv, CountsInv
<1>8. Len(queue') + Cardinality(Sent)' = k + m BY <1>1
<1> HIDE DEF n, m, k
<1>9. k + m <= MaxItems BY <1>7, BoundsAssumption, SMT
<1>10. CountsInv' BY <1>8, <1>9 DEF CountsInv
<1> QED BY <1>2, <1>4, <1>5, <1>10 DEF BoundsInv

LEMMA AskingTurn ==
  ASSUME PanelInv, BoundsInv, UNCHANGED service, ListsInv(page', configured), page.listed \subseteq page'.listed,
         NEW cs \in Seq(AllCalls), Stays(cs), NEW kind \in Kinds, NEW t \in page'.listed \cup {None},
         calls' = Append(cs, Call(kind, t)), kind = "run" => Room,
         left' \in 0..MaxPolls, left' = 0 => timers' = <<>> /\ NoPolls(cs) /\ kind # "poll",
         clicks' \in 0..MaxClicks, failures' \in 0..MaxFailures
  PROVE  BoundsInv'
<1>1. UNCHANGED <<configured, queue, doc, step>> BY DEF service
<1>2. ListsInv(page, configured)' BY <1>1 DEF ListsInv
<1>3. configured \subseteq configured' /\ t \in Targets \cup {None}
  BY <1>1 DEF ListsInv, PanelInv, TypeInv
<1>4. /\ \A j \in 1..Len(calls') : AboutListed(calls'[j], page'.listed, configured')
      /\ Cardinality(Sent)' <= Cardinality(Sent) + 1
      /\ kind # "run" => Cardinality(Sent)' <= Cardinality(Sent)
      /\ NoPolls(cs) /\ kind # "poll" => NoPolls(calls')
  BY <1>3, AddedCall
<1>5. ConsumerInv' BY <1>1, SameConsumer DEF BoundsInv
<1>6. TimeInv' BY <1>4 DEF TimeInv
<1>7. calls \in Seq(AllCalls) /\ Len(queue) \in Nat BY SMT DEF PanelInv, TypeInv
<1>8. calls' \in Seq(AllCalls)
  <2>1. Call(kind, t) \in AllCalls BY <1>3, NewCall
  <2> QED BY <2>1, AppendedCall
<1> DEFINE n == Cardinality(Sent)
           m == Cardinality(Sent')
           k == Len(queue)
<1>9. /\ n \in Nat /\ m \in Nat /\ k \in Nat /\ k + n <= MaxItems
      /\ m <= n \/ (m <= n + 1 /\ k + n < MaxItems)
  <2>1. n \in Nat BY <1>7, SentIsFinite DEF Sent, SentOf
  <2>2. m \in Nat BY <1>8, SentIsFinite DEF Sent, SentOf
  <2> QED BY <1>4, <1>7, <2>1, <2>2 DEF BoundsInv, CountsInv, Room
<1>10. Len(queue') + Cardinality(Sent)' = k + m BY <1>1
<1> HIDE DEF n, m, k
<1>11. k + m <= MaxItems BY <1>9, BoundsAssumption, SMT
<1>12. CountsInv' BY <1>10, <1>11 DEF CountsInv
<1> QED BY <1>2, <1>4, <1>5, <1>6, <1>12 DEF BoundsInv

LEMMA Budget ==
  ASSUME BoundsInv
  PROVE  /\ UNCHANGED budget => clicks' \in 0..MaxClicks /\ failures' \in 0..MaxFailures
         /\ Click => clicks' \in 0..MaxClicks /\ failures' \in 0..MaxFailures
         /\ failures < MaxFailures /\ failures' = failures + 1 /\ UNCHANGED clicks =>
              clicks' \in 0..MaxClicks /\ failures' \in 0..MaxFailures
<1>1. clicks \in 0..MaxClicks /\ failures \in 0..MaxFailures BY DEF BoundsInv, CountsInv
<1>2. clicks < MaxClicks => clicks + 1 \in 0..MaxClicks BY <1>1, BoundsAssumption, SMT
<1>3. failures < MaxFailures => failures + 1 \in 0..MaxFailures BY <1>1, BoundsAssumption, SMT
<1> QED BY <1>1, <1>2, <1>3 DEF budget, Click

\* What the lemmas about a step of the page begin with.
LEMMA TurnFacts ==
  ASSUME PanelInv, BoundsInv
  PROVE  /\ page \in Pages /\ calls \in Seq(AllCalls) /\ ListsInv(page, configured) /\ Stays(calls)
         /\ HasLists(page)
         /\ Stays(Cancelled(calls)) /\ NoPolls(Cancelled(calls)) /\ Cancelled(calls) \in Seq(AllCalls)
         /\ \A i \in 1..Len(calls) : Rest(i) \in Seq(AllCalls) /\ Stays(Rest(i)) /\ calls[i] \in AllCalls
         /\ 0 \in 0..MaxPolls
<1>1. calls \in Seq(AllCalls) /\ page \in Pages BY DEF PanelInv, TypeInv
<1>2. \A i \in 1..Len(calls) : Rest(i) \in Seq(AllCalls) /\ Stays(Rest(i)) /\ calls[i] \in AllCalls
  BY <1>1, RestStays, RestOfCalls, ElementOfSeq
<1>3. 0 \in 0..MaxPolls BY BoundsAssumption, SMT
<1>4. /\ Stays(Cancelled(calls)) /\ NoPolls(Cancelled(calls)) /\ Cancelled(calls) \in Seq(AllCalls)
  BY <1>1, CallsStay, CancelledStay, CancelledCalls DEF NoPolls
<1>5. HasLists(page) BY <1>1, SMT DEF Pages, HasLists
<1> QED BY <1>1, <1>2, <1>3, <1>4, <1>5, CallsStay DEF BoundsInv

LEMMA SelectTargetBounds ==
  ASSUME PanelInv, PanelInv', BoundsInv, NEW t \in Targets, SelectTarget(t) PROVE BoundsInv'
<1> DEFINE s == Summary(page, t)
           d == NoDocument
           flag == TRUE
           p == [page EXCEPT !.selected = t, !.saved = t, !.state = s, !.document = d, !.busy = flag]
<1>1. /\ page' = Rendered(p) /\ t \in page.listed /\ timers' = <<>> /\ left' = 0 /\ UNCHANGED service
      /\ calls' = Append(Cancelled(calls), Call("refresh", t)) /\ Click
  BY DEF SelectTarget, Shows
<1>2. /\ page \in Pages /\ ListsInv(page, configured) /\ Stays(Cancelled(calls)) /\ NoPolls(Cancelled(calls))
      /\ Cancelled(calls) \in Seq(AllCalls) /\ 0 \in 0..MaxPolls
  BY TurnFacts
<1>3. s \in Visible
  <2>1. page.summary[t] \in Visible \cup {"unknown"} /\ page.state \in Visible BY <1>2 DEF ListsInv, Summaries
  <2> QED BY <2>1 DEF Summary, ActiveStatus, Visible
<1>4. s \in States /\ d \in Documents /\ flag \in BOOLEAN BY <1>3, NoAnswerIsAnswer DEF Visible, States
<1> HIDE DEF s, d, flag
<1>5. HasLists(p) /\ ListsInv(p, configured) /\ p.listed = page.listed BY <1>1, <1>2, <1>3, <1>4, SMT DEF Pages, ListsInv, HasLists
<1> HIDE DEF p
<1>6. ListsInv(page', configured) /\ page'.listed = page.listed BY <1>1, <1>5, RenderedLists
<1>7. "refresh" \in Kinds /\ "refresh" # "run" /\ "refresh" # "poll" BY DEF Kinds
<1> QED BY <1>1, <1>2, <1>6, <1>7, Budget, AskingTurn

LEMMA StartNewTargetBounds ==
  ASSUME PanelInv, PanelInv', BoundsInv, StartNewTarget PROVE BoundsInv'
<1> DEFINE s == "empty"
           d == NoDocument
           p == [page EXCEPT !.selected = None, !.saved = None, !.state = s, !.document = d]
<1>1. page' = Rendered(p) /\ StopPolling(calls) /\ UNCHANGED service /\ Click BY DEF StartNewTarget, Shows
<1>2. page \in Pages /\ ListsInv(page, configured) /\ Stays(calls) /\ calls \in Seq(AllCalls) BY TurnFacts
<1>3. s \in Visible /\ s \in States /\ d \in Documents BY NoAnswerIsAnswer DEF Visible, States
<1> HIDE DEF s, d
<1>4. HasLists(p) /\ ListsInv(p, configured) /\ p.listed = page.listed BY <1>1, <1>2, <1>3, SMT DEF Pages, ListsInv, HasLists
<1> HIDE DEF p
<1>5. ListsInv(page', configured) /\ page'.listed = page.listed BY <1>1, <1>4, RenderedLists
<1>6. Stays(calls') /\ TimeInv' BY <1>1, <1>2, PollingTime
<1> QED BY <1>1, <1>5, <1>6, Budget, QuietTurn

LEMMA MarkDirtyBounds == ASSUME PanelInv, PanelInv', BoundsInv, MarkDirty PROVE BoundsInv'
<1>1. page' = [page EXCEPT !.saved = None] /\ UNCHANGED <<service, polling, calls>> /\ Click BY DEF MarkDirty
<1>2. page \in Pages /\ ListsInv(page, configured) /\ Stays(calls) /\ calls \in Seq(AllCalls) BY TurnFacts
<1>3. ListsInv(page', configured) /\ page'.listed = page.listed BY <1>1, <1>2, SMT DEF Pages, ListsInv
<1>4. Stays(calls') /\ TimeInv' BY <1>1, <1>2, PollingTime
<1> QED BY <1>1, <1>3, <1>4, Budget, QuietTurn

LEMMA SaveConfigurationBounds == ASSUME PanelInv, PanelInv', BoundsInv, SaveConfiguration PROVE BoundsInv'
<1> DEFINE flag == TRUE
<1>1. /\ page' = [page EXCEPT !.busy = flag] /\ calls' = Append(calls, Call("save", page.selected))
      /\ UNCHANGED <<service, polling>> /\ Click
  BY DEF SaveConfiguration
<1>2. page \in Pages /\ ListsInv(page, configured) /\ Stays(calls) /\ calls \in Seq(AllCalls) BY TurnFacts
<1> HIDE DEF flag
<1>3. ListsInv(page', configured) /\ page'.listed = page.listed BY <1>1, <1>2, SMT DEF Pages, ListsInv
<1>4. page.selected \in page'.listed \cup {None} BY <1>2, <1>3 DEF ListsInv
<1>5. "save" \in Kinds /\ "save" # "run" /\ "save" # "poll" BY DEF Kinds
<1>6. left' \in 0..MaxPolls /\ (left' = 0 => timers' = <<>> /\ NoPolls(calls))
  BY <1>1 DEF BoundsInv, TimeInv, polling
<1> QED BY <1>1, <1>2, <1>3, <1>4, <1>5, <1>6, Budget, AskingTurn

LEMMA RunAuditBounds == ASSUME PanelInv, PanelInv', BoundsInv, RunAudit PROVE BoundsInv'
<1> DEFINE s == "running"
           flag == TRUE
           p == [page EXCEPT !.state = s, !.busy = flag]
<1>1. /\ page' = Rendered(p) /\ timers' = <<>> /\ left' = 0 /\ UNCHANGED service /\ Room /\ Click
      /\ calls' = Append(Cancelled(calls), Call("run", page.selected))
  BY DEF RunAudit, Shows
<1>2. /\ page \in Pages /\ ListsInv(page, configured) /\ Stays(Cancelled(calls)) /\ NoPolls(Cancelled(calls))
      /\ Cancelled(calls) \in Seq(AllCalls) /\ 0 \in 0..MaxPolls
  BY TurnFacts
<1>3. s \in Visible /\ s \in States /\ flag \in BOOLEAN BY DEF Visible, States
<1> HIDE DEF s, flag
<1>4. HasLists(p) /\ ListsInv(p, configured) /\ p.listed = page.listed BY <1>2, <1>3, SMT DEF Pages, ListsInv, HasLists
<1> HIDE DEF p
<1>5. ListsInv(page', configured) /\ page'.listed = page.listed BY <1>1, <1>4, RenderedLists
<1>6. page.selected \in page'.listed \cup {None} BY <1>2, <1>5 DEF ListsInv
<1>7. "run" \in Kinds /\ "run" # "poll" BY DEF Kinds
<1> QED BY <1>1, <1>2, <1>5, <1>6, <1>7, Budget, AskingTurn

LEMMA ApplyLanguageBounds == ASSUME PanelInv, PanelInv', BoundsInv, ApplyLanguage PROVE BoundsInv'
<1>1. page' = Rendered(page) /\ UNCHANGED <<service, polling, calls, budget>> BY DEF ApplyLanguage, Shows
<1>2. HasLists(page) /\ ListsInv(page, configured) /\ Stays(calls) /\ calls \in Seq(AllCalls) BY TurnFacts
<1>3. ListsInv(page', configured) /\ page'.listed = page.listed BY <1>1, <1>2, RenderedLists
<1>4. Stays(calls') /\ TimeInv' BY <1>1, <1>2, PollingTime
<1> QED BY <1>1, <1>3, <1>4, Budget, QuietTurn
-----------------------------------------------------------------------------
(* Answers and timers.                                                      *)

\* What is made of an answer is about targets that are listed or known by now.
LEMMA NormalizedLists ==
  ASSUME PanelInv, BoundsInv, NEW i \in 1..Len(calls), calls[i].kind \in StateKinds, calls[i].stage = "answered",
         NEW s \in page.listed \cup calls[i].answer.known \cup {None}
  PROVE  LET n == Normalized(calls[i], s) IN
         ListsInv(n, configured) /\ HasLists(n) /\ page.listed \subseteq n.listed /\ s \in n.listed \cup {None}
<1> DEFINE c == calls[i]
           said == c.answer
           v1 == IF page.selected # None /\ said.view[page.selected] \in ActiveStatus
                 THEN said.view[page.selected] ELSE said.state
           v2 == said.document
           v3 == said.view
           v4 == [t \in Targets |-> IF said.summary[t] = "unknown" THEN page.summary[t] ELSE said.summary[t]]
           v5 == page.listed \cup said.known
           v6 == IF said.summary = NoAnswer.summary THEN page.detailed \cup said.known ELSE page.detailed
           v8 == IF page.saved \in {None, s} THEN s ELSE page.saved
           v9 == FALSE
           n == [page EXCEPT !.state = v1, !.document = v2, !.view = v3, !.summary = v4, !.listed = v5,
                             !.detailed = v6, !.selected = s, !.saved = v8, !.busy = v9]
<1>1. page \in Pages /\ ListsInv(page, configured) /\ HasLists(page) BY TurnFacts
<1>2. said.known \subseteq configured /\ said.summary \in Summaries /\ said.state \in Visible
  BY DEF BoundsInv, AboutListed
<1>3. v1 \in Visible BY <1>2 DEF ActiveStatus, Visible
<1>4. v4 \in Summaries
  <2>1. page.summary \in Summaries BY <1>1 DEF ListsInv
  <2> HIDE DEF said
  <2> QED BY <1>2, <2>1 DEF Summaries
<1>5. v5 \subseteq configured /\ v6 \subseteq v5 /\ s \in v5 \cup {None} /\ v8 \in v5 \cup {None} /\ page.listed \subseteq v5
  BY <1>1, <1>2 DEF ListsInv
<1>6. Normalized(c, s) = n BY <1>1, SMT DEF Normalized, Pages
<1> HIDE DEF c, said, v1, v2, v3, v4, v5, v6, v8, v9
<1>7. /\ n.state = v1 /\ n.summary = v4 /\ n.listed = v5 /\ n.detailed = v6 /\ n.selected = s /\ n.saved = v8
      /\ HasLists(n)
  BY <1>1, SMT DEF Pages, HasLists
<1> HIDE DEF n
<1> QED BY <1>3, <1>4, <1>5, <1>6, <1>7 DEF ListsInv, c

LEMMA StateAnsweredBounds ==
  ASSUME PanelInv, PanelInv', BoundsInv, NEW i \in 1..Len(calls), StateAnswered(i) PROVE BoundsInv'
<1> DEFINE c == calls[i]
           t == c.target
           n == Normalized(c, t)
           p == Rendered(n)
<1>1. /\ c.kind \in {"refresh", "poll"} /\ c.stage = "answered" /\ c.live /\ page' = p
      /\ UNCHANGED <<service, budget>>
      /\ IF c.kind = "poll" THEN ContinuePolling(p, t, Rest(i))
         ELSE IF ShouldContinuePolling(p, t) THEN StartPolling(p, t, Rest(i))
         ELSE StopPolling(Rest(i))
  BY DEF StateAnswered, Accepted, Shows
<1>2. t \in page.listed \cup {None} BY DEF BoundsInv, AboutListed
<1>3. c.kind \in StateKinds BY <1>1 DEF StateKinds
<1>4. ListsInv(n, configured) /\ HasLists(n) /\ page.listed \subseteq n.listed BY <1>1, <1>2, <1>3, NormalizedLists
<1>5. c.kind = "poll" => left # 0 BY <1>1 DEF BoundsInv, TimeInv, NoPolls
<1> HIDE DEF n
<1>6. ListsInv(page', configured) /\ page.listed \subseteq page'.listed BY <1>1, <1>4, RenderedLists
<1> HIDE DEF p
<1>7. Rest(i) \in Seq(AllCalls) /\ Stays(Rest(i)) BY TurnFacts
<1>8. Stays(calls') /\ TimeInv' BY <1>1, <1>5, <1>7, PollingTime
<1> QED BY <1>1, <1>6, <1>8, Budget, QuietTurn

LEMMA BootAnsweredBounds ==
  ASSUME PanelInv, PanelInv', BoundsInv, NEW i \in 1..Len(calls), BootAnswered(i) PROVE BoundsInv'
<1> DEFINE c == calls[i]
           known == c.answer.known
<1>1. c.kind = "boot" /\ c.stage = "answered" /\ UNCHANGED <<service, budget>> BY DEF BootAnswered
<1>2. PICK s \in IF page.selected \in known THEN {page.selected}
                 ELSE IF known # {} THEN known ELSE {page.selected} :
        LET p == Rendered(Normalized(c, s)) IN
        IF known # {}
        THEN /\ Shows([p EXCEPT !.busy = TRUE], FALSE)
             /\ calls' = Append(Rest(i), Call("refresh", s))
             /\ UNCHANGED polling
        ELSE /\ Shows(p, FALSE)
             /\ IF s # None /\ ShouldContinuePolling(p, s)
                THEN StartPolling(p, s, Rest(i)) ELSE StopPolling(Rest(i))
  BY DEF BootAnswered
<1> DEFINE n == Normalized(c, s)
           p == Rendered(n)
           flag == TRUE
           q == [p EXCEPT !.busy = flag]
<1>3. \/ page' = q /\ calls' = Append(Rest(i), Call("refresh", s)) /\ UNCHANGED polling
      \/ page' = p /\ (StartPolling(p, s, Rest(i)) \/ StopPolling(Rest(i)))
  BY <1>2 DEF Shows
<1>4. s \in page.listed \cup known \cup {None}
  <2>1. page.selected \in page.listed \cup {None} BY DEF BoundsInv, ListsInv
  <2> QED BY <1>2, <2>1
<1>5. c.kind \in StateKinds BY <1>1 DEF StateKinds
<1>6. /\ ListsInv(n, configured) /\ HasLists(n) /\ page.listed \subseteq n.listed
      /\ s \in n.listed \cup {None}
  BY <1>1, <1>4, <1>5, NormalizedLists
<1> HIDE DEF n
<1>7. /\ ListsInv(p, configured) /\ HasLists(p) /\ page.listed \subseteq p.listed
      /\ s \in p.listed \cup {None}
  BY <1>6, RenderedLists
<1> HIDE DEF p, flag
<1>8. ListsInv(q, configured) /\ q.listed = p.listed BY <1>7, SMT DEF ListsInv, HasLists
<1> HIDE DEF q
<1>9. Rest(i) \in Seq(AllCalls) /\ Stays(Rest(i)) BY TurnFacts
<1>10. CASE page' = q /\ calls' = Append(Rest(i), Call("refresh", s)) /\ UNCHANGED polling
  <2>1. "refresh" \in Kinds /\ "refresh" # "run" /\ "refresh" # "poll" BY DEF Kinds
  <2>2. NoPolls(calls) => NoPolls(Rest(i)) BY <1>9 DEF Stays, NoPolls, SameCall
  <2>3. left' \in 0..MaxPolls /\ (left' = 0 => timers' = <<>> /\ NoPolls(Rest(i)))
    BY <1>10, <2>2 DEF BoundsInv, TimeInv, polling
  <2> QED BY <1>1, <1>7, <1>8, <1>9, <1>10, <2>1, <2>3, Budget, AskingTurn
<1>11. CASE page' = p /\ (StartPolling(p, s, Rest(i)) \/ StopPolling(Rest(i)))
  <2>1. Stays(calls') /\ TimeInv' BY <1>9, <1>11, PollingTime
  <2> QED BY <1>1, <1>7, <1>11, <2>1, Budget, QuietTurn
<1> QED BY <1>3, <1>10, <1>11

\* Steps that take a call away and touch the state of the page at most.
LEMMA RestTurn ==
  ASSUME PanelInv, BoundsInv, UNCHANGED service, ListsInv(page', configured), page.listed \subseteq page'.listed,
         NEW i \in 1..Len(calls), calls' = Rest(i), UNCHANGED polling,
         clicks' \in 0..MaxClicks, failures' \in 0..MaxFailures
  PROVE  BoundsInv'
<1>1. Rest(i) \in Seq(AllCalls) /\ Stays(Rest(i)) BY TurnFacts
<1>2. Stays(calls') /\ TimeInv' BY <1>1, PollingTime
<1> QED BY <1>2, QuietTurn

LEMMA BusyLists ==
  ASSUME PanelInv, BoundsInv, NEW flag
  PROVE  LET n == [page EXCEPT !.busy = flag] IN ListsInv(n, configured) /\ HasLists(n) /\ n.listed = page.listed
<1>1. page \in Pages /\ ListsInv(page, configured) BY TurnFacts
<1> QED BY <1>1, SMT DEF ListsInv, HasLists, Pages

LEMMA StatedLists ==
  ASSUME NEW p, HasLists(p), ListsInv(p, configured), NEW s \in Visible
  PROVE  LET n == [p EXCEPT !.state = s] IN ListsInv(n, configured) /\ HasLists(n) /\ n.listed = p.listed
BY SMT DEF ListsInv, HasLists

LEMMA StateIgnoredBounds ==
  ASSUME PanelInv, PanelInv', BoundsInv, NEW i \in 1..Len(calls), StateIgnored(i) PROVE BoundsInv'
<1> DEFINE flag == FALSE
<1>1. page' = [page EXCEPT !.busy = flag] /\ calls' = Rest(i) /\ UNCHANGED <<service, polling, budget>>
  BY DEF StateIgnored
<1> HIDE DEF flag
<1>2. ListsInv(page', configured) /\ page'.listed = page.listed BY <1>1, BusyLists
<1> QED BY <1>1, <1>2, Budget, RestTurn

LEMMA RunAnsweredBounds ==
  ASSUME PanelInv, PanelInv', BoundsInv, NEW i \in 1..Len(calls), RunAnswered(i) PROVE BoundsInv'
<1> DEFINE flag == FALSE
           s == "queued"
           item == calls[i].answer.item
           n == [page EXCEPT !.state = s, !.item = item, !.busy = flag]
           p == Rendered(n)
<1>1. page' = p /\ StartPolling(p, calls[i].target, Rest(i)) /\ UNCHANGED <<service, budget>>
  BY DEF RunAnswered, Shows
<1>2. s \in Visible /\ page \in Pages /\ ListsInv(page, configured) BY TurnFacts DEF Visible
<1> HIDE DEF flag, s, item
<1>3. ListsInv(n, configured) /\ HasLists(n) /\ n.listed = page.listed BY <1>2, SMT DEF ListsInv, HasLists, Pages
<1> HIDE DEF n
<1>4. ListsInv(page', configured) /\ page'.listed = page.listed BY <1>1, <1>3, RenderedLists
<1> HIDE DEF p
<1>5. Rest(i) \in Seq(AllCalls) /\ Stays(Rest(i)) BY TurnFacts
<1>6. Stays(calls') /\ TimeInv' BY <1>1, <1>5, PollingTime
<1> QED BY <1>1, <1>4, <1>6, Budget, QuietTurn

LEMMA SaveAnsweredBounds ==
  ASSUME PanelInv, PanelInv', BoundsInv, NEW i \in 1..Len(calls), SaveAnswered(i) PROVE BoundsInv'
<1>1. calls[i].stage = "answered" /\ calls' = Rest(i) /\ UNCHANGED <<service, polling, budget>> BY DEF SaveAnswered
<1>2. PICK t \in calls[i].answer.known :
        LET u == IF page.selected # None THEN page.selected ELSE t IN
        Shows(Rendered([page EXCEPT !.named = t, !.selected = u, !.saved = u, !.busy = FALSE,
                                    !.listed = @ \cup {u, t}, !.detailed = @ \cup {u, t}]), TRUE)
  BY DEF SaveAnswered
<1> DEFINE u == IF page.selected # None THEN page.selected ELSE t
           listed == page.listed \cup {u, t}
           detailed == page.detailed \cup {u, t}
           flag == FALSE
           n == [page EXCEPT !.named = t, !.selected = u, !.saved = u, !.busy = flag,
                             !.listed = listed, !.detailed = detailed]
<1>3. page \in Pages /\ ListsInv(page, configured) /\ HasLists(page) BY TurnFacts
<1>4. page' = Rendered(n)
  <2>1. n = [page EXCEPT !.named = t, !.selected = u, !.saved = u, !.busy = FALSE,
                         !.listed = @ \cup {u, t}, !.detailed = @ \cup {u, t}]
    BY <1>3, SMT DEF Pages
  <2> QED BY <1>2, <2>1 DEF Shows
<1>5. t \in configured BY DEF BoundsInv, AboutListed
<1>6. /\ u \in listed /\ listed \subseteq configured /\ detailed \subseteq listed /\ page.listed \subseteq listed
      /\ page.summary \in Summaries /\ page.state \in Visible
  BY <1>3, <1>5 DEF ListsInv
<1> HIDE DEF u, listed, detailed, flag
<1>7. /\ n.state = page.state /\ n.summary = page.summary /\ n.listed = listed /\ n.detailed = detailed
      /\ n.selected = u /\ n.saved = u /\ HasLists(n)
  BY <1>3, SMT DEF Pages, HasLists
<1> HIDE DEF n
<1>8. ListsInv(n, configured) /\ page.listed \subseteq n.listed BY <1>6, <1>7 DEF ListsInv
<1>9. ListsInv(page', configured) /\ page.listed \subseteq page'.listed BY <1>4, <1>7, <1>8, RenderedLists
<1> QED BY <1>1, <1>9, Budget, RestTurn

LEMMA CallFailsBounds ==
  ASSUME PanelInv, PanelInv', BoundsInv, NEW i \in 1..Len(calls), CallFails(i) PROVE BoundsInv'
<1> DEFINE flag == FALSE
           s == "failed"
           n == [page EXCEPT !.state = s, !.busy = flag]
           q == [page EXCEPT !.busy = flag]
           p == Rendered(n)
           t == calls[i].target
<1>1. UNCHANGED service /\ clicks' \in 0..MaxClicks /\ failures' \in 0..MaxFailures BY Budget DEF CallFails
<1>2. \/ /\ page' = p /\ calls[i].kind = "poll" /\ calls[i].live /\ ContinuePolling(p, t, Rest(i))
      \/ page' \in {p, q} /\ calls' = Rest(i) /\ UNCHANGED polling
  BY DEF CallFails, StateFails, CommandFails, Accepted, Shows
<1>3. s \in Visible BY DEF Visible
<1> HIDE DEF flag, s
<1>4. /\ ListsInv(n, configured) /\ HasLists(n) /\ n.listed = page.listed
      /\ ListsInv(q, configured) /\ q.listed = page.listed
  <2>1. page \in Pages /\ ListsInv(page, configured) BY TurnFacts
  <2>2. ListsInv(n, configured) /\ HasLists(n) /\ n.listed = page.listed
    BY <1>3, <2>1, SMT DEF ListsInv, HasLists, Pages
  <2>3. ListsInv(q, configured) /\ q.listed = page.listed BY BusyLists
  <2> QED BY <2>2, <2>3
<1> HIDE DEF n, q
<1>5. ListsInv(p, configured) /\ p.listed = page.listed BY <1>4, RenderedLists
<1> HIDE DEF p, t
<1>6. ListsInv(page', configured) /\ page'.listed = page.listed BY <1>2, <1>4, <1>5
<1>7. CASE calls[i].kind = "poll" /\ calls[i].live /\ ContinuePolling(p, t, Rest(i))
  <2>1. left # 0 BY <1>7 DEF BoundsInv, TimeInv, NoPolls
  <2>2. Rest(i) \in Seq(AllCalls) /\ Stays(Rest(i)) BY TurnFacts
  <2>3. Stays(calls') /\ TimeInv' BY <1>7, <2>1, <2>2, PollingTime
  <2> QED BY <1>1, <1>6, <2>3, QuietTurn
<1>8. CASE calls' = Rest(i) /\ UNCHANGED polling BY <1>1, <1>6, <1>8, RestTurn
<1> QED BY <1>2, <1>7, <1>8

LEMMA PollTimesOutBounds ==
  ASSUME PanelInv, PanelInv', BoundsInv, NEW i \in 1..Len(calls), PollTimesOut(i) PROVE BoundsInv'
<1> DEFINE flag == FALSE
           s == "failed"
           q == [page EXCEPT !.busy = flag]
           n == [q EXCEPT !.state = s]
<1>1. page' = n /\ StopPolling(Rest(i)) /\ UNCHANGED <<service, budget>> BY DEF PollTimesOut, Expire, Shows
<1>2. s \in Visible BY DEF Visible
<1> HIDE DEF flag, s
<1>3. ListsInv(q, configured) /\ HasLists(q) /\ q.listed = page.listed BY BusyLists
<1> HIDE DEF q
<1>4. ListsInv(n, configured) /\ n.listed = page.listed BY <1>2, <1>3, StatedLists
<1> HIDE DEF n
<1>5. Rest(i) \in Seq(AllCalls) /\ Stays(Rest(i)) BY TurnFacts
<1>6. Stays(calls') /\ TimeInv' BY <1>1, <1>5, PollingTime
<1> QED BY <1>1, <1>4, <1>6, Budget, QuietTurn

LEMMA PollStateBounds == ASSUME PanelInv, PanelInv', BoundsInv, PollState PROVE BoundsInv'
<1> DEFINE flag == TRUE
           s == "failed"
           n == [page EXCEPT !.state = s]
           q == [page EXCEPT !.busy = flag]
           t == Head(timers)
<1>1. timers # <<>> /\ UNCHANGED <<service, budget>> BY DEF PollState
<1>2. PICK more \in 0..(left - 1) :
        \/ page' = n /\ StopPolling(calls)
        \/ more # 0 /\ page' = q /\ calls' = Append(calls, Call("poll", t)) /\ left' = more
  BY DEF PollState, Expire, Shows
<1>3. s \in Visible BY DEF Visible
<1>4. calls \in Seq(AllCalls) /\ ListsInv(page, configured) /\ HasLists(page) /\ Stays(calls) BY TurnFacts
<1> HIDE DEF flag, s, t
<1>5. ListsInv(n, configured) /\ n.listed = page.listed BY <1>3, <1>4, StatedLists
<1>6. ListsInv(q, configured) /\ q.listed = page.listed BY BusyLists
<1> HIDE DEF n, q
<1>7. CASE page' = n /\ StopPolling(calls)
  <2>1. Stays(calls') /\ TimeInv' BY <1>4, <1>7, PollingTime
  <2> QED BY <1>1, <1>5, <1>7, <2>1, Budget, QuietTurn
<1>8. CASE more # 0 /\ page' = q /\ calls' = Append(calls, Call("poll", t)) /\ left' = more
  <2>1. t \in page.listed \cup {None}
    <3>1. Len(timers) = 1 /\ timers[1] = page.selected /\ timers \in Seq(Targets)
      BY <1>1 DEF PanelInv, ChainInv, TypeInv
    <3>2. t = timers[1] BY <3>1, SMT DEF t
    <3> QED BY <1>4, <3>1, <3>2 DEF ListsInv
  <2>2. left' \in 0..MaxPolls /\ left' # 0
    <3>1. left \in 0..MaxPolls BY DEF BoundsInv, TimeInv
    <3> QED BY <1>8, <3>1, BoundsAssumption, SMT
  <2>3. "poll" \in Kinds /\ "poll" # "run" BY DEF Kinds
  <2> QED BY <1>1, <1>4, <1>6, <1>8, <2>1, <2>2, <2>3, Budget, AskingTurn
<1> QED BY <1>2, <1>7, <1>8
-----------------------------------------------------------------------------
LEMMA StutterBounds == ASSUME BoundsInv, UNCHANGED vars PROVE BoundsInv'
<1>1. UNCHANGED <<configured, queue, doc, step, page, timers, left, calls, clicks, failures>>
  BY DEF vars, service, polling, budget
<1> QED BY <1>1 DEF BoundsInv, ListsInv, AboutListed, TimeInv, NoPolls, CountsInv, Sent, ConsumerInv, Done

LEMMA InitBounds == ASSUME Init PROVE BoundsInv
<1> DEFINE c == Call("boot", None)
<1>1. /\ queue = <<>> /\ step = "idle" /\ timers = <<>> /\ left = 0 /\ calls = <<c>>
      /\ doc = [t \in Targets |-> [state |-> "empty", saved |-> 0]] /\ clicks = 0 /\ failures = 0
  BY DEF Init
<1>2. c.kind = "boot" /\ c.target = None /\ c.stage = "sent" /\ c.answer = NoAnswer BY DEF Call
<1> HIDE DEF c
<1>3. Len(calls) = 1 /\ calls[1] = c /\ Len(queue) = 0 BY <1>1
<1>4. \A i \in 1..Len(calls) : calls[i] = c BY <1>3, SMT
<1>5. NoAnswer.known = {} /\ NoAnswer.summary \in Summaries BY EmptyAnswer
<1>6. ListsInv(page, configured)
  <2> DEFINE summary == NoAnswer.summary
  <2>1. /\ page.state = "empty" /\ page.summary = summary /\ page.listed = {} /\ page.detailed = {}
        /\ page.selected = None /\ page.saved = None
    BY DEF Init
  <2> HIDE DEF summary
  <2> QED BY <1>5, <2>1 DEF ListsInv, Visible, summary
<1>7. \A i \in 1..Len(calls) : AboutListed(calls[i], page.listed, configured) BY <1>2, <1>4, <1>5 DEF AboutListed
<1>8. TimeInv
  <2>1. 0 \in 0..MaxPolls BY BoundsAssumption, SMT
  <2> QED BY <1>1, <1>2, <1>4, <2>1 DEF TimeInv, NoPolls
<1>9. CountsInv
  <2>1. Sent = {} BY <1>2, <1>4 DEF Sent
  <2>2. Cardinality(Sent) = 0 BY <2>1, FS_EmptySet
  <2>3. 0 \in 0..MaxClicks /\ 0 \in 0..MaxFailures /\ 0 + 0 <= MaxItems BY BoundsAssumption, SMT
  <2> QED BY <1>1, <1>3, <2>2, <2>3 DEF CountsInv
<1>10. ConsumerInv
  <2>1. \A i \in 1..Len(queue) : FALSE BY <1>3, SMT
  <2>2. Done = {} BY <2>1 DEF Done
  <2>3. Cardinality(Done) = 0 BY <2>2, FS_EmptySet
  <2>4. \A t \in Targets : doc[t].state = "empty" /\ doc[t].saved = 0 BY <1>1
  <2> QED BY <1>1, <2>1, <2>3, <2>4, SMT DEF ConsumerInv, Visible
<1> QED BY <1>6, <1>7, <1>8, <1>9, <1>10 DEF BoundsInv

LEMMA NextKeepsBounds == ASSUME PanelInv, PanelInv', BoundsInv, [Next]_vars PROVE BoundsInv'
<1>1. CASE \E t \in Targets : DailyRun(t) \/ SelectTarget(t) BY <1>1, DailyRunBounds, SelectTargetBounds
<1>2. CASE Claim \/ PublishRunning \/ PublishResult \/ Settle BY <1>2, ConsumerBounds
<1>3. CASE StartNewTarget \/ MarkDirty \/ SaveConfiguration \/ RunAudit \/ ApplyLanguage
  BY <1>3, StartNewTargetBounds, MarkDirtyBounds, SaveConfigurationBounds, RunAuditBounds, ApplyLanguageBounds
<1>4. ASSUME NEW i \in 1..Len(calls), Serve(i) PROVE BoundsInv'
  BY <1>4, ReadDocumentBounds, ReadQueueBounds, AcceptRunBounds, AcceptSaveBounds DEF Serve
<1>5. ASSUME NEW i \in 1..Len(calls), Receive(i) PROVE BoundsInv'
  BY <1>5, StateAnsweredBounds, BootAnsweredBounds, StateIgnoredBounds, RunAnsweredBounds, SaveAnsweredBounds
  DEF Receive
<1>6. ASSUME NEW i \in 1..Len(calls), CallFails(i) \/ PollTimesOut(i) PROVE BoundsInv'
  BY <1>6, CallFailsBounds, PollTimesOutBounds
<1>7. CASE PollState BY <1>7, PollStateBounds
<1>8. CASE UNCHANGED vars BY <1>8, StutterBounds
<1> QED BY <1>1, <1>2, <1>3, <1>4, <1>5, <1>6, <1>7, <1>8 DEF Next

\* TypeOK: what the page lists is configured, what it selects is listed, whoever
\* polls has time left, and queue, reports and clicks keep within the bounds.
THEOREM TypeCorrect == Spec => []TypeOK
<1>1. Init => BoundsInv BY InitBounds
<1>2. PanelInv /\ PanelInv' /\ BoundsInv /\ [Next]_vars => BoundsInv' BY NextKeepsBounds
<1>3. ASSUME PanelInv, BoundsInv PROVE TypeOK
  <2>1. configured \subseteq Targets BY <1>3 DEF PanelInv, TypeInv
  <2>2. Len(queue) \in Nat /\ Cardinality(Sent) \in Nat /\ Len(queue) <= MaxItems
    <3>1. calls \in Seq(AllCalls) /\ queue \in Seq(Items) BY <1>3 DEF PanelInv, TypeInv
    <3> DEFINE n == Cardinality(Sent)
               k == Len(queue)
    <3>2. k \in Nat BY <3>1, LenProperties
    <3>3. n \in Nat BY <3>1, SentIsFinite DEF Sent, SentOf
    <3>4. k + n <= MaxItems BY <1>3 DEF BoundsInv, CountsInv
    <3> HIDE DEF n, k
    <3>5. k <= MaxItems BY <3>2, <3>3, <3>4, BoundsAssumption, SMT
    <3> QED BY <3>2, <3>3, <3>5 DEF n, k
  <2>3. ASSUME NEW t \in Targets PROVE doc[t].saved \in 0..MaxItems /\ seen[t] \in 0..doc[t].saved
    <3> DEFINE d == Cardinality(Done)
               k == Len(queue)
               saved == doc[t].saved
    <3>1. /\ d \in Nat /\ d <= k /\ saved \in Nat /\ saved <= d
          /\ seen[t] \in Nat /\ seen[t] <= saved
      BY <1>3, DoneIsFinite DEF BoundsInv, ConsumerInv, PanelInv, TypeInv, ShownInv
    <3>2. k \in Nat /\ k <= MaxItems BY <2>2
    <3> HIDE DEF d, k, saved
    <3>3. saved \in 0..MaxItems /\ seen[t] \in 0..saved BY <3>1, <3>2, BoundsAssumption, SMT
    <3> QED BY <3>3 DEF saved
  <2>4. left \in 0..MaxPolls /\ (timers # <<>> => left > 0)
    <3>1. left \in 0..MaxPolls /\ (timers # <<>> => left # 0) BY <1>3 DEF BoundsInv, TimeInv
    <3>2. left # 0 => left > 0 BY <3>1, SMT
    <3> QED BY <3>1, <3>2
  <2> QED BY <1>3, <2>1, <2>2, <2>3, <2>4 DEF TypeOK, BoundsInv, ListsInv, CountsInv, ConsumerInv, Visible
<1> QED BY <1>1, <1>2, <1>3, Invariance, PTL DEF Spec
================================================================================
