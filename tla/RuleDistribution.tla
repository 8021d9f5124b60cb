--------------------------- MODULE RuleDistribution ---------------------------
(***************************************************************************)
(* How a detection rule gets from POST /edge/rules of                      *)
(* services/rust-edge-coordinator to the agents of                         *)
(* services/rust-edge-agent: create_rule inserts a row and then publishes  *)
(* the rule on the topic edge-rules; rule_updater_task of every agent      *)
(* consumes that topic and adds the rule to the detector's list.           *)
(*                                                                         *)
(* All messages have the key "rule-update", so they are in one partition,  *)
(* and all agents use the group "edge-agent-rule-updater", so one of them  *)
(* owns it.  An agent's list is a set here: its order matters to which of  *)
(* several matching rules grades an event, and to no property below.       *)
(***************************************************************************)
EXTENDS Integers, Sequences, FiniteSets

CONSTANTS
  Agents, Names,
  NoAgent,      \* the partition has no owner
  DefaultNames, \* default_rules of the detector
  MaxRules,     \* bound: calls of create_rule that reach the database
  MaxMoves,     \* bound: crashes of agents and rebalances
  MaxPosts      \* bound: lists of rules posted to an agent

ASSUME DistributionAssumption ==
  /\ NoAgent \notin Agents
  /\ DefaultNames \subseteq Names
  /\ MaxRules \in Nat /\ MaxMoves \in Nat /\ MaxPosts \in Nat

VARIABLES
  created,         \* the names given to create_rule, in the order of the rows
  request,         \* what became of each of these calls
  detection_rules, \* the rows of the table that were not deleted
  topic,           \* edge-rules: the rows published
  rules,           \* the list of each agent's detector
  owner,           \* the agent that consumes the partition
  position,        \* how far each agent has read
  committed,       \* the group's offset, or NoOffset
  consumed,        \* the owner has read something since it got the partition
  from,            \* history: where each agent's list starts to follow the topic
  received,        \* history: the rows each agent has received
  troubled,        \* history: names for which two calls overlapped or one failed
  moves, posts

coordinator == <<created, request, detection_rules, troubled>>
group       == <<owner, position, committed, consumed, from>>
vars == <<coordinator, topic, rules, group, received, moves, posts>>

NoOffset == -1
Ids == 1 .. Len(created)
Rule(n, id) == [name |-> n, id |-> id]

\* A rule that did not come through the coordinator.
Local == 0
Defaults == {Rule(n, Local) : n \in DefaultNames}

Init ==
  /\ created = <<>> /\ request = <<>>
  /\ detection_rules = {} /\ troubled = {}
  /\ topic = <<>>
  /\ rules = [a \in Agents |-> Defaults]
  /\ owner = NoAgent /\ committed = NoOffset /\ consumed = FALSE
  /\ position = [a \in Agents |-> 0] /\ from = [a \in Agents |-> 0]
  /\ received = [a \in Agents |-> {}]
  /\ moves = 0 /\ posts = 0

-----------------------------------------------------------------------------
(* The coordinator.  Calls run concurrently, in one process or in two.     *)

UnderWay == {"publishing", "gone"}
Busy(n) == \E id \in Ids : created[id] = n /\ request[id] \in UnderWay

\* create_rule inserts the row; the statement may also fail after it took effect.
Save(n) ==
  /\ Len(created) < MaxRules
  /\ created' = Append(created, n)
  /\ detection_rules' = detection_rules \union {Len(created) + 1}
  /\ \E s \in {"publishing", "failed"} :
       /\ request' = Append(request, s)
       /\ troubled' = IF Busy(n) \/ s = "failed" THEN troubled \union {n} ELSE troubled
  /\ UNCHANGED <<topic, rules, group, received, moves, posts>>

\* Mutant: the answer does not wait for the send, which fails unnoticed.
PublishUnawaited(id) ==
  /\ request[id] = "publishing"
  /\ topic' \in {topic, Append(topic, id)}
  /\ request' = [request EXCEPT ![id] = "created"]
  /\ UNCHANGED <<created, detection_rules, troubled, rules, group, received, 
                 moves, posts>>

\* publish_rule_update succeeded: 201.
Publish(id) ==
  /\ request[id] = "publishing"
  /\ topic' = Append(topic, id)
  /\ request' = [request EXCEPT ![id] = "created"]
  /\ UNCHANGED <<created, detection_rules, troubled, rules, group, received, 
                 moves, posts>>

\* The send fails, though the broker may have the message: 500.  The row stays.
PublishFails(id) ==
  /\ request[id] = "publishing"
  /\ topic' \in {topic, Append(topic, id)}
  /\ request' = [request EXCEPT ![id] = "failed"]
  /\ troubled' = troubled \union {created[id]}
  /\ UNCHANGED <<created, detection_rules, rules, group, received, moves, posts>>

\* The client disconnects and the handler is dropped; the message stays queued.
Disconnect(id) ==
  /\ request[id] = "publishing"
  /\ request' = [request EXCEPT ![id] = "gone"]
  /\ troubled' = troubled \union {created[id]}
  /\ UNCHANGED <<created, detection_rules, topic, rules, group, received, moves, posts>>

\* A queued message arrives, or times out after five seconds.
QueuedMessage(id) ==
  /\ request[id] = "gone"
  /\ request' = [request EXCEPT ![id] = "failed"]
  /\ topic' \in {topic, Append(topic, id)}
  /\ UNCHANGED <<created, detection_rules, troubled, rules, group, received,
                 moves, posts>>

\* delete_rule tells nobody.
DeleteRule(id) ==
  /\ id \in detection_rules
  /\ detection_rules' = detection_rules \ {id}
  /\ UNCHANGED <<created, request, troubled, topic, rules, group, received, 
                 moves, posts>>

-----------------------------------------------------------------------------
(* The agents.                                                             *)

\* Mutant: a rule that is known by its name is kept, and the new one added.
AddRuleKeepsOld(a, r) == rules' = [rules EXCEPT ![a] = @ \union {r}]

\* add_rule: retain the rules of another name, push this one.
AddRule(a, r) ==
  rules' = [rules EXCEPT ![a] = {s \in @ : s.name # r.name} \union {r}]

\* Mutant: a message for a name that is already in the list ends the task.
ReceiveNewOnly(a) ==
  /\ owner = a /\ position[a] < Len(topic)
  /\ LET id == topic[position[a] + 1] IN
       /\ \A r \in rules[a] : r.name # created[id]
       /\ AddRule(a, Rule(created[id], id))
       /\ received' = [received EXCEPT ![a] = @ \union {id}]
  /\ position' = [position EXCEPT ![a] = @ + 1]
  /\ consumed' = TRUE
  /\ UNCHANGED <<coordinator, topic, owner, committed, from, moves, posts>>

\* rule_updater_task reads the next message.
Receive(a) ==
  /\ owner = a /\ position[a] < Len(topic)
  /\ LET id == topic[position[a] + 1] IN
       /\ AddRule(a, Rule(created[id], id))
       /\ received' = [received EXCEPT ![a] = @ \union {id}]
  /\ position' = [position EXCEPT ![a] = @ + 1]
  /\ consumed' = TRUE
  /\ UNCHANGED <<coordinator, topic, owner, committed, from, moves, posts>>

\* POST /config with detection_rules: update_rules replaces the list.
UpdateRules(a) ==
  /\ posts < MaxPosts
  /\ posts' = posts + 1
  /\ \E N \in SUBSET Names : rules' = [rules EXCEPT ![a] = {Rule(n, Local) : n \in N}]
  /\ from' = [from EXCEPT ![a] = position[a]]
  /\ UNCHANGED <<coordinator, topic, owner, position, committed, consumed, 
                 received, moves>>

\* Mutant: the offset committed is one further than what was read.
CommitNext ==
  /\ owner \in Agents /\ consumed
  /\ committed' = position[owner] + 1
  /\ UNCHANGED <<coordinator, topic, rules, owner, position, consumed, from,
                 received, moves, posts>>

\* enable.auto.commit: a timer commits what the owner has read.
Commit ==
  /\ owner \in Agents /\ consumed
  /\ committed' = position[owner]
  /\ UNCHANGED <<coordinator, topic, rules, owner, position, consumed, from, 
                 received, moves, posts>>

\* a gets the partition.  A group without an offset starts at the end
\* (auto.offset.reset is not set).
Start(a) ==
  LET p == IF committed = NoOffset THEN Len(topic) ELSE committed IN
  /\ owner' = a
  /\ position' = [position EXCEPT ![a] = p]
  /\ from' = [from EXCEPT ![a] = p]
  /\ consumed' = FALSE

Assign(a) ==
  /\ owner = NoAgent
  /\ Start(a)
  /\ UNCHANGED <<coordinator, topic, rules, committed, received, moves, posts>>

\* The group is rebalanced; the old owner may commit a last time.
Revoke ==
  /\ owner \in Agents
  /\ moves < MaxMoves
  /\ moves' = moves + 1
  /\ owner' = NoAgent
  /\ committed' \in {committed} \union (IF consumed THEN {position[owner]} ELSE {})
  /\ consumed' = FALSE
  /\ UNCHANGED <<coordinator, topic, rules, position, from, received, posts>>

\* The process dies and starts again with the default rules.
Crash(a) ==
  /\ moves < MaxMoves
  /\ moves' = moves + 1
  /\ rules' = [rules EXCEPT ![a] = Defaults]
  /\ from' = [from EXCEPT ![a] = position[a]]
  /\ IF owner = a THEN owner' = NoAgent /\ consumed' = FALSE
                  ELSE UNCHANGED <<owner, consumed>>
  /\ UNCHANGED <<coordinator, topic, position, committed, received, posts>>

-----------------------------------------------------------------------------
Coordinator ==
  \/ \E n \in Names : Save(n)
  \/ \E id \in Ids :
       \/ Publish(id) \/ PublishFails(id)
       \/ Disconnect(id) \/ QueuedMessage(id) \/ DeleteRule(id)

Agent(a) == Receive(a) \/ UpdateRules(a) \/ Assign(a) \/ Crash(a)

Next == Coordinator \/ (\E a \in Agents : Agent(a)) \/ Commit \/ Revoke

Spec == Init /\ [][Next]_vars

\* Somebody gets the partition, and recv returns what there is to read.
Fairness ==
  /\ WF_vars(\E a \in Agents : Assign(a))
  /\ \A a \in Agents : WF_vars(Receive(a))

FairSpec == Spec /\ Fairness

-----------------------------------------------------------------------------
(* Properties.                                                             *)

TypeOK ==
  /\ created \in Seq(Names)
  /\ request \in Seq(UnderWay \union {"created", "failed"})
  /\ Len(request) = Len(created)
  /\ detection_rules \subseteq Ids /\ troubled \subseteq Names
  /\ topic \in Seq(Ids)
  /\ rules \in [Agents -> SUBSET [name : Names, id : Ids \union {Local}]]
  /\ owner \in Agents \union {NoAgent}
  /\ position \in [Agents -> 0 .. Len(topic)]
  /\ from \in [Agents -> 0 .. Len(topic)]
  /\ \A a \in Agents : from[a] <= position[a]
  /\ committed \in {NoOffset} \union 0 .. Len(topic)
  /\ consumed \in BOOLEAN
  /\ received \in [Agents -> SUBSET Ids]
  /\ moves \in Nat /\ posts \in Nat

NameAt(p) == created[topic[p]]

\* Of the messages an agent has read since it started, got the partition or was
\* given a list, the last one of each name decides: its rule, and no other, is
\* in the list under that name.
ListFollowsTopic ==
  \A a \in Agents : \A p \in from[a] + 1 .. position[a] :
    (\A q \in p + 1 .. position[a] : NameAt(q) # NameAt(p))
      => {r \in rules[a] : r.name = NameAt(p)} = {Rule(NameAt(p), topic[p])}

\* What get_rules lists for a name is never newer than the last message about
\* it, except while a call is under way, or after calls for that name that
\* overlapped, failed, or were abandoned: the database and the topic are
\* written one after the other.
TopicFollowsDatabase ==
  \A id \in detection_rules :
    LET n == created[id] IN
    n \notin troubled /\ ~Busy(n) =>
      \E p \in 1 .. Len(topic) :
        /\ NameAt(p) = n /\ topic[p] >= id
        /\ \A q \in p + 1 .. Len(topic) : NameAt(q) # n

\* A message published while an agent owns the partition reaches an agent, once
\* owners no longer change.
RuleReachesAnAgent ==
  \A id \in 1 .. MaxRules :
    (/\ moves = MaxMoves /\ owner \in Agents
     /\ \E p \in position[owner] + 1 .. Len(topic) : topic[p] = id)
      ~> \E a \in Agents : id \in received[a]
=============================================================================
