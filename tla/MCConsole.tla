------------------------------- MODULE MCConsole -------------------------------
(* A small instance of Console: one of two logs has what one filters by, and   *)
(* the one rule is Suricata's.                                                 *)
EXTENDS Console

MCMatching == [k \in Keys |-> {"l1"}]
MCRulesOf == [t \in RuleTabs |-> IF t = "suricata" THEN {"r1"} ELSE {}]
=============================================================================
