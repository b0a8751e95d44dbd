-------------------------------- MODULE MCPanel --------------------------------
(* Panel on one or two targets.                                              *)
EXTENDS Panel

CONSTANTS a, b

OneTarget == {a}
TwoTargets == {a, b}
=============================================================================
