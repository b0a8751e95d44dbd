----------------------------- MODULE MCQueueFile -----------------------------
\* Two threads, one target under both triggers, a retention limit of two.
EXTENDS QueueFile

CONSTANTS a, b

MCThreads == {a, b}
MCTargets == {"site"}
MCTriggers == {"manual", "daily"}
MCModes == {"full_audit"}
=============================================================================
