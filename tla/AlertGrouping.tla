---------------------------- MODULE AlertGrouping ----------------------------
(***************************************************************************)
(* What services/rust-alert-correlator promises of the rows of alert_meta, *)
(* whatever it remembers in Redis and however its calls fail: a reading of *)
(* an alert is counted in one group at most, which is a group of its own   *)
(* key; a key gets a second group only when there is a reason to begin     *)
(* one; a group keeps what it has counted; and only what was counted is    *)
(* published.  There is no promise that every reading is counted or        *)
(* published, or that an alert read twice is counted once.                 *)
(***************************************************************************)
EXTENDS Naturals, Sequences, FiniteSets

CONSTANTS Alerts, Keys, KeyOf, Readers, NoAlert

VARIABLES
  hand,    \* the alert each reader has read and not yet counted
  counted, \* the alert each reader has counted and not yet published
  groups,  \* per group, how often it has counted each alert
  reasons  \* per key, the reasons there were to begin another group

vars == <<hand, counted, groups, reasons>>

Groups(k) ==
  {g \in DOMAIN groups : \E a \in Alerts : groups[g][a] > 0 /\ KeyOf[a] = k}

Init ==
  /\ hand = [i \in Readers |-> NoAlert] /\ counted = [i \in Readers |-> NoAlert]
  /\ groups = <<>>
  /\ reasons = [k \in Keys |-> 0]

Read(i) ==
  /\ hand[i] = NoAlert /\ counted[i] = NoAlert
  /\ \E a \in Alerts : hand' = [hand EXCEPT ![i] = a]
  /\ UNCHANGED <<counted, groups, reasons>>

\* After it was counted a reading may be published, unless its reader fails.
Done(i) ==
  /\ hand' = [hand EXCEPT ![i] = NoAlert]
  /\ counted' \in {counted, [counted EXCEPT ![i] = hand[i]]}

\* The reading is counted in a group of its key, or begins one, or is lost.
Count(i, g) ==
  /\ hand[i] # NoAlert
  /\ \A a \in Alerts : groups[g][a] > 0 => KeyOf[a] = KeyOf[hand[i]]
  /\ groups' = [groups EXCEPT ![g][hand[i]] = @ + 1]
  /\ Done(i)
  /\ UNCHANGED reasons

Begin(i) ==
  /\ hand[i] # NoAlert
  /\ Cardinality(Groups(KeyOf[hand[i]])) <= reasons'[KeyOf[hand[i]]]
  /\ groups' = Append(groups, [a \in Alerts |-> IF a = hand[i] THEN 1 ELSE 0])
  /\ Done(i)

Lose(i) ==
  /\ hand[i] # NoAlert
  /\ hand' = [hand EXCEPT ![i] = NoAlert]
  /\ UNCHANGED <<counted, groups>>

\* A reader publishes what it has counted, or fails to.
Publish(i) ==
  /\ counted[i] # NoAlert
  /\ counted' = [counted EXCEPT ![i] = NoAlert]
  /\ UNCHANGED <<hand, groups>>

\* A window ends, two readers overlap, a call fails.
Reason(k) == reasons' = [reasons EXCEPT ![k] = @ + 1]
MayBeReason == UNCHANGED reasons \/ \E k \in Keys : Reason(k)

Next ==
  \/ \E i \in Readers :
       \/ Read(i)
       \/ \E g \in DOMAIN groups : Count(i, g)
       \/ Begin(i) /\ MayBeReason
       \/ Lose(i) /\ MayBeReason
       \/ Publish(i) /\ MayBeReason
  \/ \E k \in Keys : Reason(k) /\ UNCHANGED <<hand, counted, groups>>

Spec == Init /\ [][Next]_vars
=============================================================================
