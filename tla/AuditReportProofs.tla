--------------------------- MODULE AuditReportProofs ---------------------------
(***************************************************************************)
(* Proofs about AuditReport, for every set of findings, catalog, plan and   *)
(* timeout, and any number of reports and mishaps.  The invariant has the   *)
(* layers below, all of which rest on the first:                            *)
(*   Typed      what the variables are, and that only the last report can   *)
(*              still be on its way;                                        *)
(*   Timely     how far the clock may be at each step of a run;             *)
(*   Answered   which sources have been heard, and that an answer taken for *)
(*              one is one;                                                 *)
(*   Traced     where the baseline comes from, and that the run in progress *)
(*              compares with that one;                                     *)
(*   Compares   that each comparison was made with the newest baseline of   *)
(*              its time;                                                   *)
(*   Tasked and Ranked   that the tasks are the first of the findings, in   *)
(*              an order that never leaves two of them equal.               *)
(***************************************************************************)
EXTENDS AuditReport, FiniteSetTheorems, TLAPS

Steps == {"idle", "CrawlSEO", "SEOmator", "read", "explain", "publish", "promote"}
AfterSave == {"publish", "promote"}
Result == [status : Statuses, seen : SUBSET Defects]
Baselines == [plan : Plans, tasks : SUBSET Defects]
Difference == [kind : {"created", "compared", "not_compared"}, new : SUBSET Defects, fixed : SUBSET Defects]
Findings == UNION {[D -> SUBSET Sources] : D \in SUBSET Defects}
Fates == {"saved", "done", "cut", "baseline"}
Report == [plan : Plans, state : {"ready", "partial", "failed"}, evidence : Findings, tasks : SUBSET Defects,
           comparison : Difference, inspected : SUBSET Sources, fate : Fates]

\* The parts that belong to the run in progress and to the files.
RunTyped ==
  /\ pc \in Steps /\ plan \in Plans \cup {Nothing} /\ clock \in Nat
  /\ pc # "idle" => plan \in Plans
  /\ results \in [Sources -> Result \cup {Nothing}] /\ inspected \subseteq Sources
  /\ base \in Baselines \cup {Nothing} /\ baseline \in Baselines \cup {Nothing}
  /\ todo \subseteq Defects /\ tasks \subseteq Defects

ReportsTyped ==
  /\ reports \in Seq(Report)
  /\ \A i \in 1..Len(reports) : reports[i].fate = "saved" => i = Len(reports) /\ pc \in AfterSave
  /\ pc \in AfterSave => Len(reports) > 0

Typed == RunTyped /\ ReportsTyped

\* How much of the time is spent before each step.
Timely ==
  /\ pc \in {"idle", "CrawlSEO"} => clock = 0
  /\ pc = "SEOmator" => clock <= SourceTimeout
  /\ clock <= OverallTimeout
Heard == IF pc \in {"idle", "CrawlSEO"} THEN {} ELSE IF pc = "SEOmator" THEN {"CrawlSEO"} ELSE Sources

\* Every source heard has an entry, and one that counts did inspect the site.
Answered ==
  \A s \in Heard : results[s] \in Result /\ (results[s].status = "ok" => s \in inspected)

\* Report i is where the baseline comes from; the ready reports of its plan that
\* came later were cut off.
IsOrigin(i) ==
  /\ i \in 1..Len(reports)
  /\ reports[i].fate = "baseline" /\ reports[i].state = "ready"
  /\ reports[i].plan = baseline.plan /\ reports[i].tasks = baseline.tasks
  /\ \A j \in (i + 1)..Len(reports) :
       /\ reports[j].fate # "baseline"
       /\ reports[j].state = "ready" /\ reports[j].plan = baseline.plan => reports[j].fate \in {"saved", "cut"}

\* The report on its way says what the run did.
SavedByRun ==
  LET r == reports[Len(reports)] IN
  /\ r.fate = "saved" /\ r.plan = plan /\ r.tasks = tasks
  /\ r.state = "ready" /\ r.comparison.kind = "not_compared" => base # Nothing /\ base.plan # plan
  /\ pc = "promote" => r.state = "ready"

Traced ==
  /\ baseline # Nothing => \E i \in 1..Len(reports) : IsOrigin(i)
  /\ base # Nothing => base = baseline
  /\ pc \in AfterSave => SavedByRun

\* ChangesAddUp for report i, with the report m it was compared with.
AddsUp(i, m) ==
  LET r == reports[i]
      b == reports[m]
  IN  /\ m \in 1..(i - 1) /\ b.fate = "baseline"
      /\ \A j \in 1..(i - 1) : reports[j].fate = "baseline" => j <= m
      /\ b.plan = r.plan /\ b.state = "ready"
      /\ r.comparison.new \cap b.tasks = {} /\ r.comparison.fixed \subseteq b.tasks
      /\ IF r.state = "ready"
         THEN (b.tasks \ r.comparison.fixed) \cup r.comparison.new = r.tasks
         ELSE r.comparison.fixed = {} /\ r.tasks \subseteq b.tasks \cup r.comparison.new

\* The findings to explain and the tasks made so far are the worst findings.
Tasked ==
  IF pc \in AfterSave \cup {"explain"} THEN tasks \cup todo = Top(Evidence) ELSE tasks = {} /\ todo = {}

\* TasksAreTheWorst for report r.
ListsTheWorst(r) ==
  /\ r.tasks \subseteq DOMAIN r.evidence
  /\ \A d \in DOMAIN r.evidence : r.evidence[d] # {} /\ r.evidence[d] \subseteq r.inspected
  /\ \A d \in DOMAIN r.evidence \ r.tasks :
       Cardinality(r.tasks) = MaxTasks /\ \A t \in r.tasks : Before(t, d, r.evidence)

Ranked == \A i \in 1..Len(reports) : ListsTheWorst(reports[i])

Compares ==
  \A i \in 1..Len(reports) :
    reports[i].comparison.kind = "compared" => \E m \in 1..Len(reports) : AddsUp(i, m)
-----------------------------------------------------------------------------
LEMMA EvidenceTyped ==
  ASSUME RunTyped, pc # "idle" PROVE Evidence \in Findings /\ DOMAIN Evidence \subseteq Defects
<1> DEFINE seenBy(d) == {s \in Sources : Ok(s) /\ d \in results[s].seen}
           D == {e \in Covered[plan] : seenBy(e) # {}}
<1>1. plan \in Plans BY DEF RunTyped
<1>2. D \subseteq Defects BY <1>1, CatalogAssumption DEF ValidCatalog
<1>3. Evidence = [d \in D |-> seenBy(d)] BY DEF Evidence
<1>4. \A d \in D : seenBy(d) \in SUBSET Sources OBVIOUS
<1>5. Evidence \in [D -> SUBSET Sources] BY <1>3, <1>4
<1> HIDE DEF D, seenBy
<1> QED BY <1>2, <1>3, <1>5 DEF Findings

LEMMA ComparisonTyped ==
  ASSUME RunTyped PROVE Comparison \in Difference
<1>1. ASSUME NEW old \in SUBSET Defects, NEW kind \in {"created", "compared"}
      PROVE Compared(old, kind) \in Difference /\ [Compared(old, kind) EXCEPT !.fixed = {}] \in Difference
  BY DEF Compared, Difference, RunTyped
<1>2. WithBaseline \in Difference /\ [WithBaseline EXCEPT !.fixed = {}] \in Difference
  <2>1. CASE base = Nothing BY <1>1, <2>1 DEF WithBaseline
  <2>2. CASE base # Nothing
    <3>1. base.tasks \in SUBSET Defects BY <2>2 DEF RunTyped, Baselines
    <3> QED BY <1>1, <2>2, <3>1 DEF WithBaseline
  <2> QED BY <2>1, <2>2
<1>3. NotCompared \in Difference BY DEF NotCompared, Difference
<1> QED BY <1>2, <1>3 DEF Comparison

\* A report that is settled, or cut off, is settled for good.
LEMMA FateKeepsReports ==
  ASSUME Typed, pc \in AfterSave, NEW fate \in Fates \ {"saved"}, Fate(fate), pc' = "idle"
  PROVE  ReportsTyped'
<1>1. Last \in 1..Len(reports) /\ reports[Last] \in Report BY DEF Typed, ReportsTyped, Last
<1>2. [reports[Last] EXCEPT !.fate = fate] \in Report BY <1>1 DEF Report
<1>3. reports' = [reports EXCEPT ![Last] = [reports[Last] EXCEPT !.fate = fate]]
  BY DEF Fate
<1>4. reports' \in Seq(Report) /\ Len(reports') = Len(reports)
  BY <1>1, <1>2, <1>3 DEF Typed, ReportsTyped
<1>5. ASSUME NEW i \in 1..Len(reports') PROVE reports'[i].fate # "saved"
  <2>1. CASE i = Last BY <1>1, <1>2, <1>3, <2>1 DEF Fates, Report, Typed, ReportsTyped
  <2>2. CASE i # Last BY <1>1, <1>3, <1>4, <1>5, <2>2 DEF Last, Typed, ReportsTyped
  <2> QED BY <2>1, <2>2
<1> QED BY <1>4, <1>5 DEF ReportsTyped, AfterSave

LEMMA TypedInit == Init => Typed
BY DEF Init, Typed, RunTyped, ReportsTyped, Steps, AfterSave, NoResults, Sources

LEMMA AnswerTyped ==
  ASSUME NEW s \in Sources, NEW p \in Payloads(s)
  PROVE  Parsed(p) \in Result /\ (Parsed(p).status = "ok" => Inspects(p))
<1>1. p.declared \in NoAnswers \cup {"nothing"} /\ p.seen \subseteq Defects BY DEF Payloads
<1> QED BY <1>1 DEF Parsed, Inspects, Missing, Result, Statuses, NoAnswers

\* One lemma for each action: the step keeps Typed and Timely.
LEMMA StartTyped ==
  ASSUME Typed, Timely, NEW p \in Plans, Start(p) PROVE Typed' /\ Timely'
<1>1. RunTyped' BY DEF Start, Typed, RunTyped, Steps
<1>2. ReportsTyped' BY DEF Start, Typed, ReportsTyped, AfterSave
<1>3. Timely' BY DEF Start, Timely
<1> QED BY <1>1, <1>2, <1>3 DEF Typed

LEMMA CollectedTyped ==
  ASSUME Typed, Timely, NEW s \in Sources, pc = s, NEW result \in Result,
         NEW time \in 0..Remaining(SourceTimeout), Collected(s, result, time), inspected' \subseteq Sources
  PROVE  Typed' /\ Timely'
<1>1. pc' = IF s = "CrawlSEO" THEN "SEOmator" ELSE "read" BY DEF Collected
<1>2. s \in {"CrawlSEO", "SEOmator"} BY DEF Sources
<1>3. clock' = clock + time /\ clock \in Nat /\ time \in Nat
      /\ time <= SourceTimeout /\ time <= OverallTimeout - clock
  BY TimeoutAssumption DEF Collected, Remaining, Min2, Typed, RunTyped, ValidTimeouts
<1>4. RunTyped' BY <1>1, <1>2, <1>3 DEF Collected, Typed, RunTyped, Steps
<1>5. ReportsTyped' BY <1>1, <1>2 DEF Collected, Typed, ReportsTyped, AfterSave
<1>6. Timely' BY <1>1, <1>2, <1>3, TimeoutAssumption DEF Timely, ValidTimeouts
<1> QED BY <1>4, <1>5, <1>6 DEF Typed

LEMMA SourcesTyped ==
  ASSUME Typed, Timely, NEW s \in Sources, Answer(s) \/ NoAnswer(s) PROVE Typed' /\ Timely'
<1>1. CASE Answer(s)
  <2>1. PICK p \in Payloads(s), time \in 0..Remaining(SourceTimeout) :
          /\ Collected(s, Parsed(p), time)
          /\ inspected' = IF Inspects(p) THEN inspected \cup {s} ELSE inspected
    BY <1>1 DEF Answer
  <2>2. Parsed(p) \in Result BY AnswerTyped
  <2>3. inspected' \subseteq Sources BY <2>1 DEF Typed, RunTyped
  <2>4. pc = s BY <1>1 DEF Answer
  <2> QED BY <2>1, <2>2, <2>3, <2>4, CollectedTyped
<1>2. CASE NoAnswer(s)
  <2>1. PICK status \in {"unavailable", "failed"}, time \in 0..Remaining(SourceTimeout) :
          Collected(s, Missing(status), time)
    BY <1>2 DEF NoAnswer
  <2>2. Missing(status) \in Result BY DEF Missing, Result, Statuses, NoAnswers
  <2>3. inspected' \subseteq Sources BY <1>2 DEF NoAnswer, Typed, RunTyped
  <2>4. pc = s BY <1>2 DEF NoAnswer
  <2> QED BY <2>1, <2>2, <2>3, <2>4, CollectedTyped
<1> QED BY <1>1, <1>2

LEMMA ReadBaselineTyped ==
  ASSUME Typed, Timely, ReadBaseline PROVE Typed' /\ Timely'
<1>1. Top(Evidence) \subseteq Defects BY EvidenceTyped DEF Top, ReadBaseline, Typed
<1>2. RunTyped' BY <1>1 DEF ReadBaseline, Typed, RunTyped, Steps
<1>3. ReportsTyped' BY DEF ReadBaseline, Typed, ReportsTyped, AfterSave
<1>4. Timely' BY DEF ReadBaseline, Timely
<1> QED BY <1>2, <1>3, <1>4 DEF Typed

LEMMA ExplainTyped ==
  ASSUME Typed, Timely, NEW d \in Defects, Explain(d) PROVE Typed' /\ Timely'
<1>1. pc = "explain" /\ pc' = pc BY DEF Explain
<1>2. clock' \in Nat /\ clock' <= OverallTimeout
  BY TimeoutAssumption DEF Explain, Remaining, Min2, Typed, RunTyped, Timely, ValidTimeouts
<1>3. RunTyped' BY <1>2 DEF Explain, Typed, RunTyped
<1>4. ReportsTyped' BY DEF Explain, Typed, ReportsTyped
<1>5. Timely' BY <1>1, <1>2 DEF Timely
<1> QED BY <1>3, <1>4, <1>5 DEF Typed

\* What SaveReport appends.
Written == [plan |-> plan, state |-> ReportState, evidence |-> Evidence, tasks |-> tasks,
            comparison |-> Comparison, inspected |-> inspected, fate |-> "saved"]

LEMMA WrittenTyped ==
  ASSUME Typed, pc = "explain" PROVE Written \in Report
<1>1. plan \in Plans /\ tasks \subseteq Defects /\ inspected \subseteq Sources BY DEF Typed, RunTyped
<1>2. Evidence \in Findings BY EvidenceTyped DEF Typed
<1>3. Comparison \in Difference BY ComparisonTyped DEF Typed
<1>4. ReportState \in {"ready", "partial", "failed"} BY DEF ReportState
<1> QED BY <1>1, <1>2, <1>3, <1>4 DEF Written, Report, Fates

\* The new report is last, the others stay as they are and are settled.
LEMMA SavedLast ==
  ASSUME Typed, SaveReport
  PROVE  /\ reports' \in Seq(Report) /\ Len(reports') = Len(reports) + 1
         /\ reports'[Len(reports')] = Written
         /\ \A i \in 1..Len(reports) : reports'[i] = reports[i] /\ reports[i].fate # "saved"
<1>1. reports' = Append(reports, Written) /\ pc = "explain" BY DEF SaveReport, Written
<1>2. Written \in Report BY <1>1, WrittenTyped
<1>3. reports \in Seq(Report) BY DEF Typed, ReportsTyped
<1> HIDE DEF Written
<1>4. \A i \in 1..Len(reports) : reports[i].fate # "saved" BY <1>1 DEF Typed, ReportsTyped, AfterSave
<1> QED BY <1>1, <1>2, <1>3, <1>4

LEMMA SaveReportTyped ==
  ASSUME Typed, Timely, SaveReport PROVE Typed' /\ Timely'
<1>1. pc' = "publish" /\ pc = "explain" BY DEF SaveReport
<1>2. RunTyped' BY <1>1 DEF SaveReport, run, Typed, RunTyped, Steps
<1>3. ReportsTyped'
  <2>1. Len(reports) \in Nat BY DEF Typed, ReportsTyped
  <2> QED BY <1>1, <2>1, SavedLast DEF ReportsTyped, AfterSave
<1>4. Timely' BY <1>1 DEF SaveReport, run, Timely
<1> QED BY <1>2, <1>3, <1>4 DEF Typed

LEMMA EndsTyped ==
  ASSUME Typed, Ends, baseline' \in Baselines \cup {Nothing} PROVE RunTyped' /\ Timely'
BY TimeoutAssumption DEF Ends, NoResults, Typed, RunTyped, Steps, Timely, Sources, ValidTimeouts

LEMMA PublishTyped ==
  ASSUME Typed, Timely, Publish PROVE Typed' /\ Timely'
<1>1. pc = "publish" BY DEF Publish
<1>2. CASE OffersBaseline
  <2>1. pc' = "promote" BY <1>2 DEF Publish
  <2>2. RunTyped' BY <1>2, <2>1 DEF Publish, run, Typed, RunTyped, Steps
  <2>3. ReportsTyped' BY <1>1, <1>2, <2>1 DEF Publish, Typed, ReportsTyped, AfterSave
  <2>4. Timely' BY <1>1, <1>2, <2>1 DEF Publish, run, Timely
  <2> QED BY <2>2, <2>3, <2>4 DEF Typed
<1>3. CASE ~OffersBaseline
  <2>1. Ends /\ Fate("done") /\ UNCHANGED baseline BY <1>3 DEF Publish
  <2>2. RunTyped' /\ Timely' BY <2>1, EndsTyped DEF Typed, RunTyped
  <2>3. ReportsTyped' BY <1>1, <2>1, FateKeepsReports DEF Ends, AfterSave, Fates
  <2> QED BY <2>2, <2>3 DEF Typed
<1> QED BY <1>2, <1>3

LEMMA PromoteTyped ==
  ASSUME Typed, Timely, Promote PROVE Typed' /\ Timely'
<1>1. pc = "promote" /\ Ends /\ Fate("baseline") BY DEF Promote
<1>2. baseline' \in Baselines BY <1>1 DEF Promote, Typed, RunTyped, Baselines
<1>3. RunTyped' /\ Timely' BY <1>1, <1>2, EndsTyped
<1>4. ReportsTyped' BY <1>1, FateKeepsReports DEF Ends, AfterSave, Fates
<1> QED BY <1>3, <1>4 DEF Typed

LEMMA StopTyped ==
  ASSUME Typed, Timely, Stop PROVE Typed' /\ Timely'
<1>1. Ends /\ UNCHANGED baseline BY DEF Stop
<1>2. RunTyped' /\ Timely' BY <1>1, EndsTyped DEF Typed, RunTyped
<1>3. CASE pc \in AfterSave
  <2>1. Fate("cut") BY <1>3 DEF Stop, AfterSave
  <2>2. ReportsTyped' BY <1>1, <1>3, <2>1, FateKeepsReports DEF Ends, Fates
  <2> QED BY <1>2, <2>2 DEF Typed
<1>4. CASE pc \notin AfterSave
  <2>1. ReportsTyped' BY <1>1, <1>4 DEF Stop, Ends, Typed, ReportsTyped, AfterSave
  <2> QED BY <1>2, <2>1 DEF Typed
<1> QED BY <1>3, <1>4

LEMMA NextTyped ==
  ASSUME Typed, Timely, [Next]_vars PROVE Typed' /\ Timely'
<1>1. CASE UNCHANGED vars
  BY <1>1 DEF vars, run, Typed, RunTyped, ReportsTyped, Timely
<1>2. CASE Next
  BY <1>2, StartTyped, SourcesTyped, ReadBaselineTyped, ExplainTyped, SaveReportTyped, PublishTyped,
     PromoteTyped, StopTyped DEF Next
<1> QED BY <1>1, <1>2

\* RunDeadline: the second source always has time left, and the run never takes
\* longer than the plan allows.
THEOREM DeadlineReachesBothSources == Spec => []SourcesShareTheTime
<1>1. Init => Timely BY TimeoutAssumption DEF Init, Timely, ValidTimeouts
<1>2. Typed /\ Timely /\ [Next]_vars => (Typed /\ Timely)' BY NextTyped
<1>3. Typed /\ Timely => SourcesShareTheTime
  BY TimeoutAssumption DEF Typed, RunTyped, Timely, SourcesShareTheTime, Remaining, Min2, Sources, ValidTimeouts
<1> QED BY <1>1, <1>2, <1>3, TypedInit, PTL DEF Spec
-----------------------------------------------------------------------------
(* What was heard.                                                           *)

LEMMA NextAnswered ==
  ASSUME Typed, Answered, [Next]_vars PROVE Answered'
<1>1. CASE UNCHANGED vars BY <1>1 DEF vars, run, Answered, Heard
<1>2. CASE \E p \in Plans : Start(p) BY <1>2 DEF Start, Answered, Heard
<1>3. ASSUME NEW s \in Sources, Answer(s) PROVE Answered'
  <2>1. PICK p \in Payloads(s), time \in 0..Remaining(SourceTimeout) :
          /\ Collected(s, Parsed(p), time)
          /\ inspected' = IF Inspects(p) THEN inspected \cup {s} ELSE inspected
    BY <1>3 DEF Answer
  <2>2. Parsed(p) \in Result /\ (Parsed(p).status = "ok" => Inspects(p)) BY AnswerTyped
  <2>3. pc = s /\ pc' = IF s = "CrawlSEO" THEN "SEOmator" ELSE "read" BY <1>3, <2>1 DEF Answer, Collected
  <2>4. results' = [results EXCEPT ![s] = Parsed(p)] BY <2>1 DEF Collected
  <2>5. results \in [Sources -> Result \cup {Nothing}] BY DEF Typed, RunTyped
  <2> QED BY <2>1, <2>2, <2>3, <2>4, <2>5 DEF Answered, Heard, Sources
<1>4. ASSUME NEW s \in Sources, NoAnswer(s) PROVE Answered'
  <2>1. PICK status \in {"unavailable", "failed"}, time \in 0..Remaining(SourceTimeout) :
          Collected(s, Missing(status), time)
    BY <1>4 DEF NoAnswer
  <2>2. Missing(status) \in Result /\ Missing(status).status # "ok"
    BY DEF Missing, Result, Statuses, NoAnswers
  <2>3. pc = s /\ pc' = (IF s = "CrawlSEO" THEN "SEOmator" ELSE "read") /\ inspected' = inspected
    BY <1>4, <2>1 DEF NoAnswer, Collected
  <2>4. results' = [results EXCEPT ![s] = Missing(status)] BY <2>1 DEF Collected
  <2>5. results \in [Sources -> Result \cup {Nothing}] BY DEF Typed, RunTyped
  <2> QED BY <2>2, <2>3, <2>4, <2>5 DEF Answered, Heard, Sources
<1>5. CASE ReadBaseline BY <1>5 DEF ReadBaseline, Answered, Heard
<1>6. CASE \E d \in Defects : Explain(d) BY <1>6 DEF Explain, Answered, Heard
<1>7. CASE SaveReport BY <1>7 DEF SaveReport, run, Answered, Heard
<1>8. ASSUME Ends PROVE Answered' BY <1>8 DEF Ends, Answered, Heard
<1>9. CASE Publish
  <2>1. CASE OffersBaseline BY <1>9, <2>1 DEF Publish, run, Answered, Heard
  <2>2. CASE ~OffersBaseline BY <1>8, <1>9, <2>2 DEF Publish
  <2> QED BY <2>1, <2>2
<1>10. CASE Promote \/ Stop BY <1>8, <1>10 DEF Promote, Stop
<1> QED BY <1>1, <1>2, <1>3, <1>4, <1>5, <1>6, <1>7, <1>9, <1>10 DEF Next

\* A report names something as fixed only if both sources did inspect the site.
LEMMA WrittenIsNotSilent ==
  ASSUME Typed, Answered, pc = "explain", Written.comparison.fixed # {} PROVE Written.inspected = Sources
<1>1. Comparison.fixed # {} BY DEF Written
<1>2. ReportState \notin {"partial", "failed"} BY <1>1 DEF Comparison, NotCompared, NoComparison, WithBaseline, Compared
<1>3. \A s \in Sources : Ok(s) BY <1>2 DEF ReportState
<1>4. Sources \subseteq inspected BY <1>3 DEF Answered, Heard, Ok
<1> QED BY <1>4 DEF Written, Typed, RunTyped

\* A fate changes nothing else, and only the last report's.
LEMMA FateOnly ==
  ASSUME Typed, pc \in AfterSave, NEW fate \in Fates, Fate(fate)
  PROVE  /\ Len(reports') = Len(reports) /\ Len(reports) \in Nat \ {0}
         /\ \A i \in 1..Len(reports) :
              /\ reports'[i].plan = reports[i].plan /\ reports'[i].state = reports[i].state
              /\ reports'[i].tasks = reports[i].tasks /\ reports'[i].comparison = reports[i].comparison
              /\ reports'[i].inspected = reports[i].inspected /\ reports'[i].evidence = reports[i].evidence
              /\ reports'[i].fate = IF i = Len(reports) THEN fate ELSE reports[i].fate
<1>1. reports \in Seq(Report) /\ Len(reports) \in Nat \ {0} BY DEF Typed, ReportsTyped
<1>2. reports' = [reports EXCEPT ![Len(reports)] = [reports[Len(reports)] EXCEPT !.fate = fate]] BY DEF Fate, Last
<1>3. \A i \in 1..Len(reports) : reports[i] \in Report BY <1>1
<1>4. Len(reports') = Len(reports) BY <1>1, <1>2
<1>5. ASSUME NEW i \in 1..Len(reports)
      PROVE  reports'[i] = IF i = Len(reports) THEN [reports[i] EXCEPT !.fate = fate] ELSE reports[i]
  BY <1>1, <1>2
<1> QED BY <1>1, <1>3, <1>4, <1>5 DEF Report

\* Which steps touch the list of reports, and how.
LEMMA ReportsChange ==
  ASSUME Typed, [Next]_vars, ~SaveReport
  PROVE  reports' = reports \/ (pc \in AfterSave /\ \E fate \in Fates : Fate(fate))
BY DEF Next, vars, Start, Answer, NoAnswer, Collected, ReadBaseline, Explain, Publish, Promote, Stop,
       AfterSave, Fates

\* SC-SEO-021: a finding is called fixed only by a run in which both sources did
\* inspect the site.
THEOREM SilenceIsNoRepair == Spec => []FixedIsNotSilence
<1>1. Init => Timely BY TimeoutAssumption DEF Init, Timely, ValidTimeouts
<1>2. Init => Answered /\ FixedIsNotSilence BY DEF Init, Answered, Heard, FixedIsNotSilence, Ids, Last
<1>3. ASSUME Typed, Timely, Answered, FixedIsNotSilence, [Next]_vars PROVE FixedIsNotSilence'
  <2>1. CASE SaveReport
    <3>1. pc = "explain" BY <2>1 DEF SaveReport
    <3>2. Len(reports) \in Nat BY <1>3 DEF Typed, ReportsTyped
    <3> QED BY <1>3, <2>1, <3>1, <3>2, SavedLast, WrittenIsNotSilent DEF FixedIsNotSilence, Ids, Last
  <2>2. CASE ~SaveReport
    <3>1. CASE reports' = reports BY <1>3, <3>1 DEF FixedIsNotSilence, Ids, Last
    <3>2. CASE pc \in AfterSave /\ \E fate \in Fates : Fate(fate)
      BY <1>3, <3>2, FateOnly DEF FixedIsNotSilence, Ids, Last
    <3> QED BY <1>3, <2>2, <3>1, <3>2, ReportsChange
  <2> QED BY <2>1, <2>2
<1>4. Typed /\ Timely /\ Answered /\ FixedIsNotSilence /\ [Next]_vars
        => (Typed /\ Timely /\ Answered /\ FixedIsNotSilence)'
  BY <1>3, NextTyped, NextAnswered
<1> QED BY <1>1, <1>2, <1>4, TypedInit, PTL DEF Spec
-----------------------------------------------------------------------------
(* Where the baseline comes from.                                            *)

LEMMA StartKeepsTrace ==
  ASSUME Typed, Traced, NEW p \in Plans, Start(p) PROVE Traced'
BY DEF Start, Traced, IsOrigin, AfterSave

LEMMA CollectKeepsTrace ==
  ASSUME Typed, Traced, NEW s \in Sources, Answer(s) \/ NoAnswer(s) PROVE Traced'
<1>1. pc' \in {"SEOmator", "read"} /\ UNCHANGED <<plan, base, tasks, baseline, reports>>
  BY DEF Answer, NoAnswer, Collected
<1> QED BY <1>1 DEF Traced, IsOrigin, AfterSave

LEMMA ReadBaselineKeepsTrace ==
  ASSUME Typed, Traced, ReadBaseline PROVE Traced'
BY DEF ReadBaseline, Traced, IsOrigin, AfterSave

LEMMA ExplainKeepsTrace ==
  ASSUME Typed, Traced, NEW d \in Defects, Explain(d) PROVE Traced'
BY DEF Explain, Traced, IsOrigin, AfterSave

\* The new report is saved and not yet settled: it leaves the origin where it is.
LEMMA SaveKeepsTrace ==
  ASSUME Typed, Traced, SaveReport PROVE Traced'
<1>1. pc = "explain" /\ pc' = "publish" /\ UNCHANGED <<plan, base, tasks, baseline>>
  BY DEF SaveReport, run
<1>2. Len(reports) \in Nat BY DEF Typed, ReportsTyped
<1>3. ASSUME NEW i \in 1..Len(reports), IsOrigin(i) PROVE IsOrigin(i)'
  <2>1. \A j \in 1..Len(reports') : j \in 1..Len(reports) \/ j = Len(reports') BY <1>2, SavedLast
  <2>2. Written.fate = "saved" BY DEF Written
  <2> HIDE DEF Written
  <2> QED BY <1>1, <1>2, <1>3, <2>1, <2>2, SavedLast DEF IsOrigin
<1>4. (baseline # Nothing => \E i \in 1..Len(reports) : IsOrigin(i))'
  BY <1>1, <1>2, <1>3, SavedLast DEF Traced
<1>5. SavedByRun'
  <2>1. reports'[Len(reports')] = Written BY SavedLast
  <2>2. Written.fate = "saved" /\ Written.plan = plan /\ Written.tasks = tasks
        /\ Written.state = ReportState /\ Written.comparison = Comparison
    BY DEF Written
  <2>3. ReportState = "ready" /\ Comparison.kind = "not_compared" => base # Nothing /\ base.plan # plan
    BY DEF Comparison, NoComparison, WithBaseline, Compared
  <2> HIDE DEF Written
  <2> QED BY <1>1, <2>1, <2>2, <2>3 DEF SavedByRun
<1> QED BY <1>1, <1>4, <1>5 DEF Traced

\* A report that does not reach the baseline: not ready, of another plan, or cut off.
LEMMA SettledKeepsOrigin ==
  ASSUME Typed, Traced, pc \in AfterSave, NEW fate \in {"done", "cut"}, Fate(fate), UNCHANGED baseline,
         fate = "done" =>
           LET r == reports[Len(reports)] IN
           baseline # Nothing => r.state # "ready" \/ r.plan # baseline.plan,
         NEW i \in 1..Len(reports), IsOrigin(i), baseline # Nothing
  PROVE  IsOrigin(i)'
<1>1. fate \in Fates BY DEF Fates
<1>2. reports[Len(reports)].fate = "saved" BY DEF Traced, SavedByRun
<1>3. i # Len(reports) BY <1>2 DEF IsOrigin
<1> QED BY <1>1, <1>2, <1>3, FateOnly DEF IsOrigin

LEMMA EndsKeepsTrace ==
  ASSUME Typed, Traced, pc \in AfterSave, NEW fate \in {"done", "cut"}, Fate(fate), Ends, UNCHANGED baseline,
         fate = "done" =>
           LET r == reports[Len(reports)] IN
           baseline # Nothing => r.state # "ready" \/ r.plan # baseline.plan
  PROVE  Traced'
<1>1. Len(reports') = Len(reports) BY FateOnly DEF Fates
<1>2. (baseline # Nothing => \E i \in 1..Len(reports) : IsOrigin(i))'
  BY <1>1, SettledKeepsOrigin DEF Traced
<1>3. pc' = "idle" /\ base' = Nothing BY DEF Ends
<1> QED BY <1>2, <1>3 DEF Traced, AfterSave

LEMMA PublishKeepsTrace ==
  ASSUME Typed, Traced, Publish PROVE Traced'
<1>1. pc = "publish" /\ SavedByRun BY DEF Publish, Traced, AfterSave
<1>2. CASE OffersBaseline
  BY <1>1, <1>2 DEF Publish, run, Traced, IsOrigin, SavedByRun, AfterSave, OffersBaseline, Last
<1>3. CASE ~OffersBaseline
  <2>1. Ends /\ Fate("done") /\ UNCHANGED baseline BY <1>3 DEF Publish
  <2>2. ASSUME baseline # Nothing
        PROVE  reports[Len(reports)].state # "ready" \/ reports[Len(reports)].plan # baseline.plan
    BY <1>1, <1>3, <2>2 DEF OffersBaseline, SavedByRun, Traced, Last
  <2> QED BY <1>1, <2>1, <2>2, EndsKeepsTrace DEF AfterSave
<1> QED BY <1>2, <1>3

LEMMA PromoteKeepsTrace ==
  ASSUME Typed, Traced, Promote PROVE Traced'
<1>1. pc = "promote" /\ Ends /\ Fate("baseline") /\ baseline' = [plan |-> plan, tasks |-> tasks]
  BY DEF Promote
<1>2. SavedByRun BY <1>1 DEF Traced, AfterSave
<1>3. Len(reports') = Len(reports) /\ Len(reports) \in Nat \ {0}
      /\ reports'[Len(reports)].fate = "baseline" /\ reports'[Len(reports)].state = "ready"
      /\ reports'[Len(reports)].plan = plan /\ reports'[Len(reports)].tasks = tasks
  BY <1>1, <1>2, FateOnly DEF SavedByRun, AfterSave, Fates
<1>4. IsOrigin(Len(reports))' BY <1>1, <1>3 DEF IsOrigin
<1> QED BY <1>1, <1>3, <1>4 DEF Traced, Ends, AfterSave

LEMMA StopKeepsTrace ==
  ASSUME Typed, Traced, Stop PROVE Traced'
<1>1. Ends /\ UNCHANGED baseline BY DEF Stop
<1>2. CASE pc \in AfterSave
  <2>1. Fate("cut") BY <1>2 DEF Stop, AfterSave
  <2> QED BY <1>1, <1>2, <2>1, EndsKeepsTrace
<1>3. CASE pc \notin AfterSave BY <1>1, <1>3 DEF Stop, Ends, Traced, IsOrigin, AfterSave
<1> QED BY <1>2, <1>3

LEMMA NextTraced ==
  ASSUME Typed, Traced, [Next]_vars PROVE Traced'
<1>1. CASE UNCHANGED vars BY <1>1 DEF vars, run, Traced, IsOrigin, SavedByRun
<1> QED
  BY <1>1, StartKeepsTrace, CollectKeepsTrace, ReadBaselineKeepsTrace, ExplainKeepsTrace, SaveKeepsTrace,
     PublishKeepsTrace, PromoteKeepsTrace, StopKeepsTrace DEF Next

\* SC-SEO-019, SC-SEO-021: the baseline is the list of the newest ready report of
\* its plan, except those that were cut off before they reached it.
THEOREM BaselineHasOrigin == Spec => []BaselineIsNewestReady
<1>1. Init => Timely BY TimeoutAssumption DEF Init, Timely, ValidTimeouts
<1>2. Init => Traced BY DEF Init, Traced, AfterSave
<1>3. Typed /\ Timely /\ Traced /\ [Next]_vars => (Typed /\ Timely /\ Traced)' BY NextTyped, NextTraced
<1>4. Traced => BaselineIsNewestReady BY DEF Traced, IsOrigin, BaselineIsNewestReady, Ids, Last
<1> QED BY <1>1, <1>2, <1>3, <1>4, TypedInit, PTL DEF Spec
-----------------------------------------------------------------------------
(* What a comparison says.                                                   *)

LEMMA MaxIs ==
  ASSUME NEW S \in SUBSET Int, NEW m \in S, \A j \in S : j <= m PROVE Max(S) = m
<1>1. \A x \in S : (\A y \in S : x >= y) => x = m OBVIOUS
<1>2. \E x \in S : \A y \in S : x >= y OBVIOUS
<1> QED BY <1>1, <1>2 DEF Max

\* Applying the comparison to the list it was made with gives the new list.
LEMMA ComparisonAdds ==
  ASSUME Comparison.kind = "compared"
  PROVE  /\ base # Nothing /\ base.plan = plan
         /\ Comparison.new \cap base.tasks = {} /\ Comparison.fixed \subseteq base.tasks
         /\ IF ReportState = "ready"
            THEN (base.tasks \ Comparison.fixed) \cup Comparison.new = tasks
            ELSE Comparison.fixed = {} /\ tasks \subseteq base.tasks \cup Comparison.new
<1>1. ~NoComparison BY DEF Comparison, NotCompared
<1>2. Comparison = IF ReportState = "partial" THEN [WithBaseline EXCEPT !.fixed = {}] ELSE WithBaseline
  BY <1>1 DEF Comparison
<1>3. base # Nothing /\ WithBaseline = Compared(base.tasks, "compared")
  <2>1. CASE base = Nothing
    <3>1. WithBaseline.kind = "created" /\ [WithBaseline EXCEPT !.fixed = {}].kind = "created"
      BY <2>1 DEF WithBaseline, Compared
    <3> QED BY <1>2, <3>1
  <2>2. CASE base # Nothing BY <2>2 DEF WithBaseline
  <2> QED BY <2>1, <2>2
<1>4. base.plan = plan /\ ReportState \in {"ready", "partial"} BY <1>1, <1>3 DEF NoComparison, ReportState
<1>5. /\ Comparison.new = tasks \ base.tasks
      /\ Comparison.fixed = IF ReportState = "partial" THEN {} ELSE base.tasks \ tasks
  BY <1>2, <1>3 DEF Compared
<1> QED BY <1>3, <1>4, <1>5

\* A settled report's comparison stays true: neither it nor what came before it
\* changes any more.
LEMMA SaveKeepsComparisons ==
  ASSUME Typed, Traced, Compares, SaveReport PROVE Compares'
<1>1. Len(reports) \in Nat /\ reports'[Len(reports')] = Written /\ Len(reports') = Len(reports) + 1
  BY SavedLast DEF Typed, ReportsTyped
<1>2. ASSUME NEW i \in 1..Len(reports), NEW m \in 1..Len(reports), AddsUp(i, m) PROVE AddsUp(i, m)'
  BY <1>1, <1>2, SavedLast DEF AddsUp
<1>3. PICK n \in Nat : n = Len(reports') BY <1>1
<1>4. ASSUME Written.comparison.kind = "compared" PROVE \E m \in 1..Len(reports) : AddsUp(n, m)'
  <2>1. Written.comparison = Comparison /\ Written.state = ReportState /\ Written.tasks = tasks /\ Written.plan = plan
    BY DEF Written
  <2>2. PICK m \in 1..Len(reports) : IsOrigin(m) BY <1>4, <2>1, ComparisonAdds DEF Traced
  <2>3. base = baseline BY <1>4, <2>1, ComparisonAdds DEF Traced
  <2>4. reports[m].plan = plan /\ reports[m].tasks = base.tasks /\ reports[m].state = "ready"
        /\ reports[m].fate = "baseline" /\ \A j \in 1..Len(reports) : reports[j].fate = "baseline" => j <= m
    BY <1>1, <1>4, <2>1, <2>2, <2>3, ComparisonAdds DEF IsOrigin
  <2> HIDE DEF Written
  <2>5. \A j \in 1..Len(reports) : reports'[j] = reports[j] BY SavedLast
  <2>6. AddsUp(n, m)'
    BY <1>1, <1>3, <1>4, <2>1, <2>4, <2>5, ComparisonAdds DEF AddsUp
  <2> QED BY <2>6
<1>5. \A i \in 1..Len(reports') : i = Len(reports') \/ (i \in 1..Len(reports) /\ reports'[i] = reports[i])
  BY <1>1, SavedLast
<1> HIDE DEF Written
<1> QED BY <1>1, <1>2, <1>3, <1>4, <1>5 DEF Compares

LEMMA FateKeepsComparisons ==
  ASSUME Typed, Compares, pc \in AfterSave, NEW fate \in Fates, Fate(fate) PROVE Compares'
<1>1. ASSUME NEW i \in 1..Len(reports), NEW m \in 1..Len(reports), AddsUp(i, m) PROVE AddsUp(i, m)'
  BY <1>1, FateOnly DEF AddsUp
<1> QED BY <1>1, FateOnly DEF Compares

LEMMA NextCompares ==
  ASSUME Typed, Traced, Compares, [Next]_vars PROVE Compares'
<1>1. CASE SaveReport BY <1>1, SaveKeepsComparisons
<1>2. CASE reports' = reports BY <1>2 DEF Compares, AddsUp
<1>3. CASE pc \in AfterSave /\ \E fate \in Fates : Fate(fate) BY <1>3, FateKeepsComparisons
<1> QED BY <1>1, <1>2, <1>3, ReportsChange

\* SC-SEO-020: whoever follows new and fixed from one ready report to the next
\* has the list of tasks; a comparison is with the newest baseline, of its plan.
THEOREM ComparisonsAddUp == Spec => []ChangesAddUp
<1>1. Init => Timely BY TimeoutAssumption DEF Init, Timely, ValidTimeouts
<1>2. Init => Traced /\ Compares BY DEF Init, Traced, AfterSave, Compares
<1>3. Typed /\ Timely /\ Traced /\ Compares /\ [Next]_vars => (Typed /\ Timely /\ Traced /\ Compares)'
  BY NextTyped, NextTraced, NextCompares
<1>4. Typed /\ Compares => ChangesAddUp
  <2> SUFFICES ASSUME Typed, Compares, NEW i \in Ids, reports[i].comparison.kind = "compared",
                      NEW m \in 1..Len(reports), AddsUp(i, m)
               PROVE  Behind(i) # {} /\ Max(Behind(i)) = m
    BY DEF ChangesAddUp, Compares, AddsUp, Ids, Last
  <2>1. m \in Behind(i) /\ Behind(i) \subseteq Int /\ \A j \in Behind(i) : j <= m BY DEF Behind, AddsUp
  <2> QED BY <2>1, MaxIs
<1> QED BY <1>1, <1>2, <1>3, <1>4, TypedInit, PTL DEF Spec
-----------------------------------------------------------------------------
(* The tasks.  Findings are ranked by an order that never leaves two of them *)
(* equal, so that the first MaxTasks places are taken by as many findings.   *)

LEMMA BeforeIs ==
  ASSUME NEW ev, NEW d, NEW e
  PROVE  Before(d, e, ev) <=>
           \/ Severity[d] < Severity[e]
           \/ Severity[d] = Severity[e] /\ Level(d, ev) < Level(e, ev)
           \/ Severity[d] = Severity[e] /\ Level(d, ev) = Level(e, ev) /\ Position[d] < Position[e]
<1> DEFINE key(f) == <<Severity[f], Level(f, ev), Position[f]>>
           later(i) == key(d)[i] < key(e)[i] /\ \A j \in 1..(i - 1) : key(d)[j] = key(e)[j]
<1>1. Before(d, e, ev) <=> \E i \in 1..3 : later(i) BY DEF Before
<1>2. (\E i \in 1..3 : later(i)) <=> later(1) \/ later(2) \/ later(3)
  <2>1. 1..3 = {1, 2, 3} OBVIOUS
  <2> HIDE DEF later
  <2> QED BY <2>1
<1>3. later(1) <=> Severity[d] < Severity[e]
  <2>1. 1..(1 - 1) = {} OBVIOUS
  <2> QED BY <2>1
<1>4. later(2) <=> Severity[d] = Severity[e] /\ Level(d, ev) < Level(e, ev)
  <2>1. 1..(2 - 1) = {1} OBVIOUS
  <2> QED BY <2>1
<1>5. later(3) <=> Severity[d] = Severity[e] /\ Level(d, ev) = Level(e, ev) /\ Position[d] < Position[e]
  <2>1. 1..(3 - 1) = {1, 2} OBVIOUS
  <2> QED BY <2>1
<1> HIDE DEF later
<1> QED BY <1>1, <1>2, <1>3, <1>4, <1>5

LEMMA BeforeOrders ==
  ASSUME NEW ev, NEW d \in Defects, NEW e \in Defects, NEW f \in Defects
  PROVE  /\ ~Before(d, d, ev)
         /\ d = e \/ Before(d, e, ev) \/ Before(e, d, ev)
         /\ Before(d, e, ev) /\ Before(e, f, ev) => Before(d, f, ev)
<1>1. ASSUME NEW x \in Defects PROVE Severity[x] \in Nat /\ Level(x, ev) \in Nat /\ Position[x] \in Nat
  BY OrderAssumption DEF ValidOrder, Level
<1>2. Position[d] = Position[e] => d = e BY OrderAssumption DEF ValidOrder
<1> QED BY <1>1, <1>2, BeforeIs

\* The places of a set of findings, counted from 0, are 0 to their number - 1.
Ahead(d, ev) == {e \in DOMAIN ev : Before(e, d, ev)}
Rank(ev) == [d \in DOMAIN ev |-> Cardinality(Ahead(d, ev))]

LEMMA RankIsOneToOne ==
  ASSUME NEW ev, DOMAIN ev \subseteq Defects
  PROVE  LET n == Cardinality(DOMAIN ev) IN
         /\ IsFiniteSet(DOMAIN ev) /\ n \in Nat
         /\ Rank(ev) \in Injection(DOMAIN ev, 0..(n - 1))
         /\ Rank(ev) \in Surjection(DOMAIN ev, 0..(n - 1))
         /\ \A d, e \in DOMAIN ev : Rank(ev)[d] < Rank(ev)[e] => Before(d, e, ev)
<1> DEFINE D == DOMAIN ev
           n == Cardinality(D)
           rank == Rank(ev)
<1>1. IsFiniteSet(D) /\ n \in Nat BY OrderAssumption, FS_Subset, FS_CardinalityType DEF ValidOrder
<1>2. ASSUME NEW d \in D
      PROVE  rank[d] = Cardinality(Ahead(d, ev)) /\ IsFiniteSet(Ahead(d, ev)) /\ rank[d] \in 0..(n - 1)
  <2>1. Ahead(d, ev) \subseteq D /\ d \notin Ahead(d, ev) BY BeforeOrders DEF Ahead
  <2>2. IsFiniteSet(Ahead(d, ev)) /\ Cardinality(Ahead(d, ev)) \in Nat /\ Cardinality(Ahead(d, ev)) <= n
        /\ Cardinality(Ahead(d, ev)) # n
    BY <1>1, <2>1, FS_Subset, FS_CardinalityType
  <2>3. rank[d] = Cardinality(Ahead(d, ev)) BY DEF Rank
  <2> HIDE DEF rank, n
  <2> QED BY <1>1, <2>2, <2>3
<1>3. ASSUME NEW d \in D, NEW e \in D, Before(d, e, ev) PROVE rank[d] < rank[e]
  <2>1. Ahead(d, ev) \subseteq Ahead(e, ev) /\ d \in Ahead(e, ev) /\ d \notin Ahead(d, ev)
    BY <1>3, BeforeOrders DEF Ahead
  <2>2. Cardinality(Ahead(d, ev)) <= Cardinality(Ahead(e, ev))
        /\ Cardinality(Ahead(d, ev)) # Cardinality(Ahead(e, ev))
    BY <1>2, <2>1, FS_Subset
  <2>3. rank[d] \in Nat /\ rank[e] \in Nat /\ rank[d] <= rank[e] /\ rank[d] # rank[e] BY <1>1, <1>2, <2>2
  <2> HIDE DEF rank
  <2> QED BY <2>3
<1>4. rank \in [D -> 0..(n - 1)] BY <1>2 DEF Rank
<1>5. \A d \in D : rank[d] \in Nat BY <1>1, <1>2
<1> HIDE DEF rank
<1>6. ASSUME NEW d \in D, NEW e \in D, rank[d] < rank[e] PROVE Before(d, e, ev)
  <2>1. d # e /\ ~(rank[e] < rank[d]) BY <1>5, <1>6
  <2> QED BY <1>3, <2>1, BeforeOrders
<1>7. ASSUME NEW d \in D, NEW e \in D, rank[d] = rank[e] PROVE d = e
  <2>1. ~(rank[d] < rank[e]) /\ ~(rank[e] < rank[d]) BY <1>5, <1>7
  <2> QED BY <1>3, <2>1, BeforeOrders
<1>8. rank \in Injection(D, 0..(n - 1)) BY <1>4, <1>7 DEF Injection, IsInjective
<1>9. IsFiniteSet(0..(n - 1)) /\ Cardinality(0..(n - 1)) = n
  <2>1. 0 \in Int /\ n - 1 \in Int BY <1>1
  <2>2. IsFiniteSet(0..(n - 1)) /\ Cardinality(0..(n - 1)) = IF 0 > n - 1 THEN 0 ELSE n - 1 - 0 + 1
    BY <2>1, FS_Interval
  <2> HIDE DEF n
  <2> QED BY <1>1, <2>2
<1>10. rank \in Surjection(D, 0..(n - 1)) BY <1>8, <1>9, FS_Injection
<1> QED BY <1>1, <1>6, <1>8, <1>10 DEF rank

\* prioritize_findings: at most MaxTasks findings; if it leaves one out, exactly
\* so many, all of which come before it.
LEMMA TopIsWorst ==
  ASSUME NEW ev, DOMAIN ev \subseteq Defects
  PROVE  /\ Top(ev) \subseteq DOMAIN ev
         /\ Cardinality(Top(ev)) \in Nat /\ Cardinality(Top(ev)) <= MaxTasks
         /\ \A d \in DOMAIN ev \ Top(ev) :
              Cardinality(Top(ev)) = MaxTasks /\ \A t \in Top(ev) : Before(t, d, ev)
<1> DEFINE D == DOMAIN ev
           n == Cardinality(D)
           rank == Rank(ev)
           T == Top(ev)
           places == 0..(MaxTasks - 1)
           R == {rank[d] : d \in T}
           f == [d \in T |-> rank[d]]
<1>1. /\ IsFiniteSet(D) /\ n \in Nat
      /\ rank \in Injection(D, 0..(n - 1)) /\ rank \in Surjection(D, 0..(n - 1))
      /\ \A d, e \in D : rank[d] < rank[e] => Before(d, e, ev)
  BY RankIsOneToOne
<1>2. T = {d \in D : rank[d] < MaxTasks} BY DEF Top, Rank, Ahead
<1>3. MaxTasks \in Nat \ {0} BY OrderAssumption DEF ValidOrder
<1> HIDE DEF rank, T
<1>4. \A d \in D : rank[d] \in Nat /\ rank[d] < n BY <1>1 DEF Injection
<1>5. IsFiniteSet(T) /\ T \subseteq D /\ Cardinality(T) \in Nat BY <1>1, <1>2, FS_Subset, FS_CardinalityType
<1>6. R \subseteq places BY <1>2, <1>3, <1>4
<1>7. ExistsBijection(T, R)
  <2>1. f \in [T -> R] OBVIOUS
  <2>2. \A d, e \in T : f[d] = f[e] => d = e BY <1>1, <1>5 DEF Injection, IsInjective
  <2>3. \A r \in R : \E d \in T : f[d] = r OBVIOUS
  <2> HIDE DEF f, R
  <2>4. f \in Injection(T, R) BY <2>1, <2>2 DEF Injection, IsInjective
  <2>5. f \in Surjection(T, R) BY <2>1, <2>3 DEF Surjection
  <2> QED BY <2>4, <2>5 DEF ExistsBijection, Bijection
<1>8. Cardinality(R) = Cardinality(T) BY <1>5, <1>7, FS_Bijection
<1>9. IsFiniteSet(places) /\ Cardinality(places) = MaxTasks
  <2>1. 0 \in Int /\ MaxTasks - 1 \in Int BY <1>3
  <2>2. IsFiniteSet(places) /\ Cardinality(places) = IF 0 > MaxTasks - 1 THEN 0 ELSE MaxTasks - 1 - 0 + 1
    BY <2>1, FS_Interval
  <2> HIDE DEF places
  <2> QED BY <1>3, <2>2
<1>10. Cardinality(T) <= MaxTasks
  <2>1. Cardinality(R) <= Cardinality(places) BY <1>6, <1>9, FS_Subset
  <2> QED BY <1>8, <1>9, <2>1
<1>11. ASSUME NEW d \in D, d \notin T PROVE Cardinality(T) = MaxTasks /\ \A t \in T : Before(t, d, ev)
  <2>1. rank[d] \in Nat /\ ~(rank[d] < MaxTasks) /\ rank[d] < n BY <1>2, <1>4, <1>11
  <2>2. \A t \in T : rank[t] \in Nat /\ rank[t] < MaxTasks BY <1>2, <1>4
  <2>3. \A t \in T : rank[t] < rank[d] BY <1>3, <2>1, <2>2
  <2>4. places \subseteq R
    <3> SUFFICES ASSUME NEW k \in places PROVE k \in R OBVIOUS
    <3>1. k \in 0..(n - 1) /\ k < MaxTasks BY <1>1, <1>3, <2>1
    <3>2. PICK t \in D : rank[t] = k BY <1>1, <3>1 DEF Surjection
    <3> QED BY <1>2, <3>1, <3>2
  <2>5. R = places BY <1>6, <2>4
  <2> QED BY <1>1, <1>5, <1>8, <1>9, <1>11, <2>3, <2>5
<1> QED BY <1>5, <1>10, <1>11 DEF T

\* Where a run stands says what it has listed.
LEMMA NextTasked ==
  ASSUME Typed, Tasked, [Next]_vars PROVE Tasked'
<1>1. CASE UNCHANGED vars
  <2>1. UNCHANGED <<pc, plan, results, todo, tasks>> BY <1>1 DEF vars, run
  <2>2. Top(Evidence)' = Top(Evidence) BY <2>1 DEF Top, Before, Level, Evidence, Ok
  <2> QED BY <2>1, <2>2 DEF Tasked
<1>2. CASE \E p \in Plans : Start(p) BY <1>2 DEF Start, Tasked, AfterSave
<1>3. ASSUME NEW s \in Sources, Answer(s) \/ NoAnswer(s) PROVE Tasked'
  BY <1>3 DEF Answer, NoAnswer, Collected, Tasked, AfterSave, Sources
<1>4. CASE ReadBaseline
  <2>1. pc = "read" /\ pc' = "explain" /\ todo' = Top(Evidence) /\ UNCHANGED <<plan, results, tasks>>
    BY <1>4 DEF ReadBaseline
  <2>2. Top(Evidence)' = Top(Evidence) BY <2>1 DEF Top, Before, Level, Evidence, Ok
  <2>3. tasks = {} BY <2>1 DEF Tasked, AfterSave
  <2> QED BY <2>1, <2>2, <2>3 DEF Tasked
<1>5. ASSUME NEW d \in Defects, Explain(d) PROVE Tasked'
  <2>1. pc = "explain" /\ pc' = pc /\ d \in todo /\ todo' = todo \ {d} /\ tasks' = tasks \cup {d}
        /\ UNCHANGED <<plan, results>>
    BY <1>5 DEF Explain
  <2>2. Top(Evidence)' = Top(Evidence) BY <2>1 DEF Top, Before, Level, Evidence, Ok
  <2> QED BY <2>1, <2>2 DEF Tasked
<1>6. CASE SaveReport \/ (Publish /\ OffersBaseline)
  <2>1. pc \in AfterSave \cup {"explain"} /\ pc' \in AfterSave /\ UNCHANGED run
    BY <1>6 DEF SaveReport, Publish, AfterSave
  <2>2. UNCHANGED <<plan, results, todo, tasks>> BY <2>1 DEF run
  <2>3. Top(Evidence)' = Top(Evidence) BY <2>2 DEF Top, Before, Level, Evidence, Ok
  <2> QED BY <2>1, <2>2, <2>3 DEF Tasked
<1>7. CASE (Publish /\ ~OffersBaseline) \/ Promote \/ Stop
  BY <1>7 DEF Publish, Promote, Stop, Ends, Tasked, AfterSave
<1> QED BY <1>1, <1>2, <1>3, <1>4, <1>5, <1>6, <1>7 DEF Next

LEMMA WrittenListsTheWorst ==
  ASSUME Typed, Answered, Tasked, pc = "explain", todo = {} PROVE ListsTheWorst(Written)
<1>1. tasks = Top(Evidence) BY DEF Tasked, AfterSave
<1>2. DOMAIN Evidence \subseteq Defects BY EvidenceTyped DEF Typed
<1>3. ASSUME NEW d \in DOMAIN Evidence PROVE Evidence[d] # {} /\ Evidence[d] \subseteq inspected
  <2>1. Evidence[d] = {s \in Sources : Ok(s) /\ d \in results[s].seen} /\ Evidence[d] # {}
    BY DEF Evidence
  <2>2. \A s \in Sources : Ok(s) => s \in inspected BY DEF Answered, Heard, Ok
  <2> QED BY <2>1, <2>2
<1>4. Written.tasks = tasks /\ Written.evidence = Evidence /\ Written.inspected = inspected BY DEF Written
<1> HIDE DEF Written
<1> QED BY <1>1, <1>2, <1>3, <1>4, TopIsWorst DEF ListsTheWorst

LEMMA NextRanked ==
  ASSUME Typed, Answered, Tasked, Ranked, [Next]_vars PROVE Ranked'
<1>1. CASE SaveReport
  <2>1. pc = "explain" /\ todo = {} /\ Len(reports) \in Nat BY <1>1 DEF SaveReport, Typed, ReportsTyped
  <2>2. ListsTheWorst(Written) BY <2>1, WrittenListsTheWorst
  <2> HIDE DEF Written
  <2>3. \A i \in 1..Len(reports') : reports'[i] = Written \/ (i \in 1..Len(reports) /\ reports'[i] = reports[i])
    BY <1>1, <2>1, SavedLast
  <2> QED BY <2>2, <2>3 DEF Ranked, ListsTheWorst, Before, Level
<1>2. CASE reports' = reports BY <1>2 DEF Ranked, ListsTheWorst, Before, Level
<1>3. CASE pc \in AfterSave /\ \E fate \in Fates : Fate(fate)
  <2>1. Len(reports') = Len(reports)
        /\ \A i \in 1..Len(reports) :
             /\ reports'[i].tasks = reports[i].tasks /\ reports'[i].evidence = reports[i].evidence
             /\ reports'[i].inspected = reports[i].inspected
    BY <1>3, FateOnly
  <2>2. ASSUME NEW i \in 1..Len(reports) PROVE ListsTheWorst(reports'[i])
    <3>1. ListsTheWorst(reports[i]) BY DEF Ranked
    <3> QED BY <2>1, <3>1 DEF ListsTheWorst
  <2> QED BY <2>1, <2>2 DEF Ranked, ListsTheWorst, Before, Level
<1> QED BY <1>1, <1>2, <1>3, ReportsChange

LEMMA InitTasked == Init => Answered /\ Tasked /\ Ranked
BY DEF Init, Answered, Heard, Tasked, Ranked, AfterSave

\* SC-SEO-016, 017, 040: the tasks of a report are the worst findings of the
\* sources that inspected the site in this run, whatever the model does.
THEOREM WorstFirst == Spec => []TasksAreTheWorst
<1>1. Init => Timely BY TimeoutAssumption DEF Init, Timely, ValidTimeouts
<1>2. Typed /\ Timely /\ Answered /\ Tasked /\ Ranked /\ [Next]_vars
        => (Typed /\ Timely /\ Answered /\ Tasked /\ Ranked)'
  BY NextTyped, NextAnswered, NextTasked, NextRanked
<1>3. Ranked => TasksAreTheWorst BY DEF Ranked, ListsTheWorst, TasksAreTheWorst, Ids, Last
<1> QED BY <1>1, <1>2, <1>3, TypedInit, InitTasked, PTL DEF Spec

\* The values of all variables at all times; a run lists no more tasks than allowed.
THEOREM TypeCorrect == Spec => []TypeOK
<1>1. Init => Timely BY TimeoutAssumption DEF Init, Timely, ValidTimeouts
<1>2. Typed /\ Timely /\ Tasked /\ [Next]_vars => (Typed /\ Timely /\ Tasked)' BY NextTyped, NextTasked
<1>3. Typed /\ Tasked => TypeOK
  <2> SUFFICES ASSUME Typed, Tasked PROVE TypeOK OBVIOUS
  <2>1. Cardinality(tasks) <= MaxTasks
    <3>1. CASE pc \in AfterSave \cup {"explain"}
      <4>1. tasks \subseteq Top(Evidence) BY <3>1 DEF Tasked
      <4>2. DOMAIN Evidence \subseteq Defects BY <3>1, EvidenceTyped DEF Typed, AfterSave
      <4>3. IsFiniteSet(Top(Evidence)) /\ Cardinality(Top(Evidence)) \in Nat
            /\ Cardinality(Top(Evidence)) <= MaxTasks
        <5>1. Top(Evidence) \subseteq Defects BY <4>2, TopIsWorst
        <5> QED BY <4>2, <5>1, TopIsWorst, OrderAssumption, FS_Subset DEF ValidOrder
      <4>4. Cardinality(tasks) \in Nat /\ Cardinality(tasks) <= Cardinality(Top(Evidence))
        BY <4>1, <4>3, FS_Subset, FS_CardinalityType
      <4>5. MaxTasks \in Nat BY OrderAssumption DEF ValidOrder
      <4> QED BY <4>3, <4>4, <4>5
    <3>2. CASE pc \notin AfterSave \cup {"explain"}
      <4>1. Cardinality(tasks) = 0 BY <3>2, FS_EmptySet DEF Tasked
      <4> QED BY <4>1, OrderAssumption DEF ValidOrder
    <3> QED BY <3>1, <3>2
  <2>2. /\ pc \in Sources \cup {"idle", "read", "explain", "publish", "promote"}
        /\ plan \in Plans \cup {Nothing} /\ clock \in Nat /\ inspected \subseteq Sources
        /\ todo \subseteq Defects /\ tasks \subseteq Defects
    BY DEF Typed, RunTyped, Steps, Sources
  <2>3. \A s \in Sources : results[s] \in [status : Statuses, seen : SUBSET Defects] \cup {Nothing}
    BY DEF Typed, RunTyped, Result
  <2>4. {base, baseline} \subseteq [plan : Plans, tasks : SUBSET Defects] \cup {Nothing}
    BY DEF Typed, RunTyped, Baselines
  <2>5. \A i \in Ids : reports[i].fate = "saved" => i = Last /\ pc \in {"publish", "promote"}
    BY DEF Typed, ReportsTyped, Ids, Last, AfterSave
  <2> QED BY <2>1, <2>2, <2>3, <2>4, <2>5 DEF TypeOK
<1> QED BY <1>1, <1>2, <1>3, TypedInit, InitTasked, PTL DEF Spec
=============================================================================
