---------------------------- MODULE MCInvestigation ----------------------------
(* A small instance of Investigation with a filter one types: one of two logs  *)
(* is of the address.                                                          *)
EXTENDS Investigation

MCMatching == [k \in Keys |-> {"l1"}]
=============================================================================
