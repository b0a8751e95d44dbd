----------------------------- MODULE MCAuditWorker -----------------------------
\* Three requests: one is served, one finds the worker busy or dying, one comes
\* after both.
EXTENDS AuditWorker

CONSTANTS r1, r2, r3

MCRequests == {r1, r2, r3}
=============================================================================
