--------------------------- MODULE MCAlertCorrelator ---------------------------
(***************************************************************************)
(* AlertCorrelator for TLC: alerts of one key, or all but one of them.     *)
(***************************************************************************)
EXTENDS AlertCorrelator, TLC

CONSTANTS k1, k2

OneKey == [a \in Alerts |-> k1]
Odd == CHOOSE a \in Alerts : TRUE
OddOneOut == [a \in Alerts |-> IF a = Odd THEN k2 ELSE k1]

\* The alerts of one key are alike.
Symmetry == Permutations(Alerts) \union Permutations(Instances)
=============================================================================
