----------------------------- MODULE MCRunQueue -----------------------------
\* Three targets under one trigger, so that three items are active together and
\* the retention limit (2 instead of 500) is crossed; MCQueueFile has two triggers.
EXTENDS RunQueue

CONSTANTS t1, t2, t3

MCTargets == {t1, t2, t3}
MCTriggers == {"manual"}
MCModes == {"full_audit"}
=============================================================================
