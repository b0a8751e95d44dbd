---------------------------- MODULE MCTargetConfig ----------------------------
\* One or two threads on a file with up to two targets.
EXTENDS TargetConfig, TLC

CONSTANTS a, b

OneThread == {a}
TwoThreads == {a, b}
MCUrls == {"old", "new"}

Symmetry == Permutations(TwoThreads)
=============================================================================
