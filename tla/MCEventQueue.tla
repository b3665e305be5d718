---------------------------- MODULE MCEventQueue ----------------------------
(* Small instances of EventQueue: a fast timer and a slower one-shot.       *)
EXTENDS EventQueue

Periods == [fast |-> 1, once |-> 2]
=============================================================================
