------------------------------ MODULE AuditReport ------------------------------
(***************************************************************************)
(* What a report says.  A run asks two sources one after the other under    *)
(* one deadline, merges what they found, lists the worst findings as tasks, *)
(* lets a model explain them, and compares the list with the baseline, the  *)
(* list of an earlier run.                                                  *)
(*                                                                         *)
(* Sources: seo_employee_sources.py, seo_employee_rules.py, and from        *)
(* collect_sources to the saved report in seo_employee_service.py.  One     *)
(* target: its lock lets one run at a time come here (SeoEmployee).  A      *)
(* defect is the identity of a finding, a URL and a rule of the catalog.    *)
(* Time passes inside the calls only, in units of the model.                *)
(***************************************************************************)
EXTENDS Integers, Sequences, FiniteSets, FiniteSetsExt

CONSTANTS Defects,
          KnownTo,         \* defect -> sources with a rule for it
          VerifiedBy,      \* defect -> sets of sources that verify it
          Severity,        \* defect -> number, 1 is the worst
          Position,        \* defect -> its place by URL and rule_key
          Plans,           \* plan signatures, with target and catalog major
          Covered,         \* plan -> defects whose rule is of the plan's profile
          MaxTasks,
          OverallTimeout, SourceTimeout, AgentTimeout,
          MaxReports,      \* bound: saved reports
          MaxMishaps,      \* bound: failing files, kills
          Nothing          \* no baseline

Sources == {"CrawlSEO", "SEOmator"}

\* What the loader of the rule catalog accepts: a rule belongs to sources, and
\* only those can verify it.
ValidCatalog ==
  /\ \A p \in Plans : Covered[p] \subseteq Defects
  /\ \A d \in Defects :
       /\ KnownTo[d] \in SUBSET Sources \ {{}}
       /\ VerifiedBy[d] \subseteq SUBSET KnownTo[d] \ {{}}

\* build_audit_plan: 120 of 180 seconds, or 720 of 900.
ValidTimeouts ==
  {OverallTimeout, SourceTimeout, AgentTimeout} \subseteq Nat \ {0} /\ SourceTimeout < OverallTimeout

\* prioritize_findings sorts by numbers and then by what makes a finding this one;
\* its limit is positive, and a run has finitely many findings.
ValidOrder ==
  /\ IsFiniteSet(Defects) /\ {Severity, Position} \subseteq [Defects -> Nat]
  /\ \A d, e \in Defects : Position[d] = Position[e] => d = e
  /\ MaxTasks \in Nat \ {0}

ASSUME CatalogAssumption == ValidCatalog
ASSUME OrderAssumption == ValidOrder
ASSUME TimeoutAssumption == ValidTimeouts

VARIABLES
  pc, plan, clock,   \* the run; time since its deadline was set
  results,           \* source -> what collect_sources keeps of its answer
  inspected,         \* history: sources that did inspect the site in this run
  base,              \* the baseline as this run has read it
  todo, tasks,       \* findings to explain, tasks made of them
  baseline,          \* baseline.json
  reports,           \* history: the saved reports
  mishaps

run == <<plan, clock, results, inspected, base, todo, tasks>>
vars == <<pc, run, baseline, reports, mishaps>>
-----------------------------------------------------------------------------
Min2(a, b) == IF a < b THEN a ELSE b

\* Faulty: every call gets its full time.
FullTime(cap) == cap

\* RunDeadline.remaining
Remaining(cap) == Min2(cap, OverallTimeout - clock)

Mishap == mishaps < MaxMishaps /\ mishaps' = mishaps + 1
NoMishap == UNCHANGED mishaps

Ok(s) == results[s].status = "ok"

\* Findings of the run: defect -> sources with evidence for it.
Evidence ==
  LET seenBy(d) == {s \in Sources : Ok(s) /\ d \in results[s].seen}
  IN [d \in {e \in Covered[plan] : seenBy(e) # {}} |-> seenBy(d)]

Level(d, evidence) == IF evidence[d] \in VerifiedBy[d] THEN 1 ELSE 2

Before(d, e, evidence) ==
  LET key(f) == <<Severity[f], Level(f, evidence), Position[f]>> IN
  \E i \in 1..3 : key(d)[i] < key(e)[i] /\ \A j \in 1..(i - 1) : key(d)[j] = key(e)[j]

\* Faulty: one task too many.
TopAndNext(evidence) ==
  {d \in DOMAIN evidence :
     Cardinality({e \in DOMAIN evidence : Before(e, d, evidence)}) <= MaxTasks}

\* prioritize_findings
Top(evidence) ==
  {d \in DOMAIN evidence :
     Cardinality({e \in DOMAIN evidence : Before(e, d, evidence)}) < MaxTasks}

ReportState ==
  IF \A s \in Sources : Ok(s) THEN "ready" ELSE IF \E s \in Sources : Ok(s) THEN "partial" ELSE "failed"
-----------------------------------------------------------------------------
NoResults == [s \in Sources |-> Nothing]

Init ==
  /\ pc = "idle" /\ plan = Nothing /\ clock = 0 /\ results = NoResults
  /\ inspected = {} /\ base = Nothing /\ todo = {} /\ tasks = {}
  /\ baseline = Nothing /\ reports = <<>> /\ mishaps = 0

\* The lock is taken, the deadline set, the running state published.
Start(p) ==
  /\ pc = "idle" /\ Len(reports) < MaxReports
  /\ pc' = "CrawlSEO" /\ plan' = p
  /\ UNCHANGED <<clock, results, inspected, base, todo, tasks, baseline, reports, mishaps>>

Ends ==
  /\ pc' = "idle" /\ plan' = Nothing /\ clock' = 0 /\ results' = NoResults
  /\ inspected' = {} /\ base' = Nothing /\ todo' = {} /\ tasks' = {}

Collected(s, result, time) ==
  /\ results' = [results EXCEPT ![s] = result]
  /\ clock' = clock + time
  /\ pc' = IF s = "CrawlSEO" THEN "SEOmator" ELSE "read"
  /\ UNCHANGED <<plan, base, todo, tasks, baseline, reports>>

Missing(status) == [status |-> status, seen |-> {}]

\* Faulty: signs of a blocked crawl are not looked for.
ParsedBlindly(p) ==
  IF p.declared # "nothing" THEN Missing(p.declared)
  ELSE IF p.sound THEN [status |-> "ok", seen |-> p.seen] ELSE Missing("failed")

\* An adapter's parse.  A payload may declare that there is no answer, show that
\* the crawl was blocked, or not be the whole, well-formed answer to the plan.
Parsed(p) ==
  IF p.declared # "nothing" THEN Missing(p.declared)
  ELSE IF p.blocked THEN Missing("unavailable")
  ELSE IF p.sound THEN [status |-> "ok", seen |-> p.seen] ELSE Missing("failed")

NoAnswers == {"unavailable", "failed", "not_configured", "unsupported"}

Payloads(s) ==
  [declared : NoAnswers \cup {"nothing"}, blocked : BOOLEAN, sound : BOOLEAN,
   seen : SUBSET {d \in Defects : s \in KnownTo[d]}]

Inspects(p) == p.declared = "nothing" /\ ~p.blocked /\ p.sound

Answer(s) ==
  /\ pc = s
  /\ \E p \in Payloads(s), time \in 0..Remaining(SourceTimeout) :
       /\ Collected(s, Parsed(p), time)
       /\ inspected' = IF Inspects(p) THEN inspected \cup {s} ELSE inspected
  /\ NoMishap

\* The wrapper ends with an error, cannot be started, or is killed at the timeout.
NoAnswer(s) ==
  /\ pc = s
  /\ \E status \in {"unavailable", "failed"}, time \in 0..Remaining(SourceTimeout) :
       Collected(s, Missing(status), time)
  /\ UNCHANGED <<inspected, mishaps>>

\* The baseline is read when the sources are done; unreadable counts as none.
ReadBaseline ==
  /\ pc = "read"
  /\ \/ base' = baseline /\ NoMishap
     \/ base' = Nothing /\ baseline # Nothing /\ Mishap
  /\ todo' = Top(Evidence)
  /\ pc' = "explain"
  /\ UNCHANGED <<plan, clock, results, inspected, tasks, baseline, reports>>

\* Faulty: a task without explanation is left out.
ExplainOrDrop(d) ==
  /\ pc = "explain" /\ d \in todo /\ \A e \in todo \ {d} : Before(d, e, Evidence)
  /\ todo' = todo \ {d}
  /\ tasks' \in IF Remaining(AgentTimeout) > 0 THEN {tasks, tasks \cup {d}} ELSE {tasks}
  /\ UNCHANGED <<pc, plan, clock, results, inspected, base, baseline, reports, mishaps>>

\* _build_tasks: the model gets what is left of the time; whether it explains
\* the finding or not, the task is made.
Explain(d) ==
  /\ pc = "explain" /\ d \in todo /\ \A e \in todo \ {d} : Before(d, e, Evidence)
  /\ clock' \in clock..(clock + Remaining(AgentTimeout))
  /\ todo' = todo \ {d} /\ tasks' = tasks \cup {d}
  /\ UNCHANGED <<pc, plan, results, inspected, base, baseline, reports, mishaps>>

\* compare_with_baseline
Compared(previous, kind) == [kind |-> kind, new |-> tasks \ previous, fixed |-> previous \ tasks]

WithBaseline == IF base = Nothing THEN Compared({}, "created") ELSE Compared(base.tasks, "compared")

NotCompared == [kind |-> "not_compared", new |-> {}, fixed |-> {}]

NoComparison == ReportState = "failed" \/ (base # Nothing /\ base.plan # plan)

\* Faulty: a partial run reports as fixed what it did not see.
ComparisonAlike == IF NoComparison THEN NotCompared ELSE WithBaseline

\* _comparison_for_v2
Comparison ==
  IF NoComparison THEN NotCompared
  ELSE IF ReportState = "partial" THEN [WithBaseline EXCEPT !.fixed = {}]
  ELSE WithBaseline

SaveReport ==
  /\ pc = "explain" /\ todo = {}
  /\ reports' = Append(reports, [plan |-> plan, state |-> ReportState, evidence |-> Evidence, tasks |-> tasks,
                                 comparison |-> Comparison, inspected |-> inspected, fate |-> "saved"])
  /\ pc' = "publish"
  /\ UNCHANGED <<run, baseline, mishaps>>

Last == Len(reports)
Fate(fate) == reports' = [reports EXCEPT ![Last].fate = fate]

\* Faulty: a partial report moves the baseline too.
OffersUsable == reports[Last].state # "failed" /\ reports[Last].comparison.kind # "not_compared"

OffersBaseline == reports[Last].state = "ready" /\ reports[Last].comparison.kind # "not_compared"

\* The daily index and the state document.
Publish ==
  /\ pc = "publish"
  /\ IF OffersBaseline
     THEN pc' = "promote" /\ UNCHANGED <<run, reports>>
     ELSE Ends /\ Fate("done")
  /\ UNCHANGED <<baseline, mishaps>>

Promote ==
  /\ pc = "promote"
  /\ baseline' = [plan |-> plan, tasks |-> tasks]
  /\ Ends /\ Fate("baseline")
  /\ UNCHANGED mishaps

\* A file cannot be written, the process is killed, or a text looks like a
\* secret: the run ends where it is.
Stop ==
  /\ pc # "idle" /\ Mishap /\ Ends
  /\ IF pc \in {"publish", "promote"} THEN Fate("cut") ELSE UNCHANGED reports
  /\ UNCHANGED baseline

Next ==
  \/ \E p \in Plans : Start(p)
  \/ \E s \in Sources : Answer(s) \/ NoAnswer(s)
  \/ ReadBaseline
  \/ \E d \in Defects : Explain(d)
  \/ SaveReport \/ Publish \/ Promote
  \/ Stop

Spec == Init /\ [][Next]_vars
-----------------------------------------------------------------------------
Ids == 1..Last
Statuses == NoAnswers \cup {"ok"}

TypeOK ==
  /\ pc \in Sources \cup {"idle", "read", "explain", "publish", "promote"}
  /\ plan \in Plans \cup {Nothing} /\ clock \in Nat /\ inspected \subseteq Sources
  /\ \A s \in Sources :
       results[s] \in [status : Statuses, seen : SUBSET Defects] \cup {Nothing}
  /\ {base, baseline} \subseteq [plan : Plans, tasks : SUBSET Defects] \cup {Nothing}
  /\ todo \subseteq Defects /\ tasks \subseteq Defects /\ Cardinality(tasks) <= MaxTasks
  /\ \A i \in Ids : reports[i].fate = "saved" => i = Last /\ pc \in {"publish", "promote"}

\* SC-SEO-026.  The two sources share one deadline, and the first can never use
\* it up: the second always has time, and the run is never abandoned between
\* them (RunDeadline.remaining raises when nothing is left).
SourcesShareTheTime ==
  /\ clock <= OverallTimeout
  /\ pc \in Sources => Remaining(SourceTimeout) > 0

\* SC-SEO-016, 017, 040.  The tasks of a report are the worst findings of the
\* sources that inspected the site in this run, however the model or the time
\* failed: none is lost, and none left out outranks one that is listed.
TasksAreTheWorst ==
  \A i \in Ids :
    LET r == reports[i] IN
    /\ r.tasks \subseteq DOMAIN r.evidence
    /\ \A d \in DOMAIN r.evidence : r.evidence[d] # {} /\ r.evidence[d] \subseteq r.inspected
    /\ \A d \in DOMAIN r.evidence \ r.tasks :
         Cardinality(r.tasks) = MaxTasks /\ \A t \in r.tasks : Before(t, d, r.evidence)

\* SC-SEO-021.  A finding is called fixed only by a run in which both sources
\* did inspect the site: a blocked, refused, cut off or unreadable answer is no
\* sign of health.
FixedIsNotSilence ==
  \A i \in Ids : reports[i].comparison.fixed # {} => reports[i].inspected = Sources

\* SC-SEO-019, SC-SEO-021.  The baseline is the list of the newest ready report
\* of its plan, except those that were cut off before they reached it.
BaselineIsNewestReady ==
  baseline # Nothing =>
    \E i \in Ids :
      /\ reports[i].state = "ready" /\ reports[i].fate = "baseline"
      /\ reports[i].plan = baseline.plan /\ reports[i].tasks = baseline.tasks
      /\ \A j \in (i + 1)..Last :
           reports[j].state = "ready" /\ reports[j].plan = baseline.plan => reports[j].fate \in {"saved", "cut"}

Behind(i) == {j \in 1..(i - 1) : reports[j].fate = "baseline"}

\* SC-SEO-020 as far as the code goes.  A comparison is with the newest baseline
\* there was, which is of the same plan, and applying it to that list gives the
\* list of the report: a reader who follows new and fixed from one ready report to
\* the next never loses track.  A partial report takes nothing away.
ChangesAddUp ==
  \A i \in Ids :
    LET r == reports[i] IN
    r.comparison.kind = "compared" =>
      /\ Behind(i) # {}
      /\ LET b == reports[Max(Behind(i))] IN
         /\ b.plan = r.plan /\ b.state = "ready"
         /\ r.comparison.new \cap b.tasks = {} /\ r.comparison.fixed \subseteq b.tasks
         /\ IF r.state = "ready"
            THEN (b.tasks \ r.comparison.fixed) \cup r.comparison.new = r.tasks
            ELSE r.comparison.fixed = {} /\ r.tasks \subseteq b.tasks \cup r.comparison.new

\* SC-SEO-020, docs/contracts/service-seo-runner.md:46: an identity that has
\* disappeared from the findings is fixed.
FixedIsGone ==
  \A i \in Ids : reports[i].comparison.fixed \cap DOMAIN reports[i].evidence = {}
=============================================================================
