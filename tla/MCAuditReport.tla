---------------------------- MODULE MCAuditReport ----------------------------
(* AuditReport with two findings of one severity.  Both sources know "shared"  *)
(* and verify it together; only SEOmator knows "single", and only one plan     *)
(* covers it.  Seen by one source, "shared" ranks behind "single".             *)
EXTENDS AuditReport

TwoDefects == {"shared", "single"}
TwoPlans == {"full_audit", "daily_monitor"}
OnePlan == {"full_audit"}
Knows == [d \in TwoDefects |-> IF d = "shared" THEN Sources ELSE {"SEOmator"}]
Verifies == [d \in TwoDefects |-> IF d = "shared" THEN {Sources} ELSE {}]
SameSeverity == [d \in TwoDefects |-> 2]
Positions == [d \in TwoDefects |-> IF d = "single" THEN 1 ELSE 2]
Covers == [p \in TwoPlans |-> IF p = "full_audit" THEN TwoDefects ELSE {"shared"}]
=============================================================================
