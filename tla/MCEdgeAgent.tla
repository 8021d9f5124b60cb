---------------------------- MODULE MCEdgeAgent ----------------------------
(***************************************************************************)
(* EdgeAgent for TLC.  EvictDivisor is 2 instead of 10 so that a buffer of *)
(* two or three rows already loses one, and events are interchangeable.    *)
(***************************************************************************)
EXTENDS EdgeAgent, TLC

EventSymmetry == Permutations(Events)
=============================================================================
