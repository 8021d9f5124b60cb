------------------------ MODULE RuleDistributionProofs ------------------------
(***************************************************************************)
(* Theorems about RuleDistribution for any agents and names, and any       *)
(* number of rules, crashes, rebalances and posted lists.                  *)
(***************************************************************************)
EXTENDS RuleDistribution, TLAPS

-----------------------------------------------------------------------------
(* Type correctness.                                                       *)

\* A call of the coordinator appends to the topic, or leaves it alone.
LEMMA TopicGrows ==
  ASSUME TypeOK, NEW id \in Ids, topic' \in {topic, Append(topic, id)}
  PROVE  /\ topic' \in Seq(Ids)
         /\ Len(topic) <= Len(topic')
         /\ \A p \in 1 .. Len(topic) : (topic')[p] = topic[p]
<1>1. topic \in Seq(Ids)
  BY DEF TypeOK
<1> HIDE DEF Ids
<1>2. CASE topic' = topic
  BY <1>1, <1>2
<1>3. CASE topic' = Append(topic, id)
  BY <1>1, <1>3
<1> QED
  BY <1>2, <1>3

\* What a call does to the topic does not disturb the agents' types.
LEMMA AgentsType ==
  ASSUME TypeOK, NEW id \in Ids, topic' \in {topic, Append(topic, id)},
         UNCHANGED <<created, rules, group, received, moves, posts>>
  PROVE  /\ Ids' = Ids /\ created' \in Seq(Names)
         /\ topic' \in Seq(Ids')
         /\ rules' \in [Agents -> SUBSET [name : Names, id : Ids' \union {Local}]]
         /\ owner' \in Agents \union {NoAgent}
         /\ position' \in [Agents -> 0 .. Len(topic')]
         /\ from' \in [Agents -> 0 .. Len(topic')]
         /\ \A a \in Agents : from'[a] <= position'[a]
         /\ committed' \in {NoOffset} \union 0 .. Len(topic')
         /\ consumed' \in BOOLEAN
         /\ received' \in [Agents -> SUBSET Ids']
         /\ moves' \in Nat /\ posts' \in Nat
<1>1. topic' \in Seq(Ids) /\ Len(topic) <= Len(topic') /\ Len(topic') \in Nat
  BY TopicGrows
<1>2. Ids' = Ids
  BY DEF Ids
<1>3. /\ position' \in [Agents -> 0 .. Len(topic')]
      /\ from' \in [Agents -> 0 .. Len(topic')]
      /\ committed' \in {NoOffset} \union 0 .. Len(topic')
  BY <1>1 DEF TypeOK, group
<1> QED
  BY <1>1, <1>2, <1>3 DEF TypeOK, group

LEMMA RequestType ==
  ASSUME TypeOK, NEW id \in Ids, NEW s \in UnderWay \union {"created", "failed"},
         request' = [request EXCEPT ![id] = s], created' = created
  PROVE  /\ request' \in Seq(UnderWay \union {"created", "failed"})
         /\ Len(request') = Len(created')
         /\ \A jd \in Ids : (request')[jd] = IF jd = id THEN s ELSE request[jd]
  BY DEF TypeOK, Ids

LEMMA TypeStep == TypeOK /\ [Next]_vars => TypeOK'
<1> SUFFICES ASSUME TypeOK, [Next]_vars PROVE TypeOK'
  OBVIOUS
<1> USE DistributionAssumption
<1>1. ASSUME NEW n \in Names, Save(n) PROVE TypeOK'
  <2>1. /\ created' \in Seq(Names) /\ Len(created') = Len(created) + 1
        /\ Ids \subseteq Ids' /\ Len(created) + 1 \in Ids'
    BY <1>1 DEF TypeOK, Save, Ids
  <2>2. /\ request' \in Seq(UnderWay \union {"created", "failed"})
        /\ Len(request') = Len(request) + 1
        /\ troubled' \subseteq Names
    BY <1>1 DEF TypeOK, Save, UnderWay
  <2>3. detection_rules' \subseteq Ids'
    BY <1>1, <2>1 DEF TypeOK, Save
  <2>4. topic' \in Seq(Ids')
    BY <1>1, <2>1 DEF TypeOK, Save
  <2>5. rules' \in [Agents -> SUBSET [name : Names, id : Ids' \union {Local}]]
        /\ received' \in [Agents -> SUBSET Ids']
    BY <1>1, <2>1 DEF TypeOK, Save
  <2> QED
    BY <1>1, <2>1, <2>2, <2>3, <2>4, <2>5 DEF TypeOK, Save, group
<1>2. ASSUME NEW id \in Ids,
             Publish(id) \/ PublishFails(id) \/ Disconnect(id) \/ QueuedMessage(id)
      PROVE  TypeOK'
  <2>1. created[id] \in Names
    BY DEF TypeOK, Ids
  <2>2. /\ topic' \in {topic, Append(topic, id)}
        /\ UNCHANGED <<created, rules, group, received, moves, posts>>
        /\ troubled' \in {troubled, troubled \union {created[id]}}
        /\ detection_rules' = detection_rules
    BY <1>2 DEF Publish, PublishFails, Disconnect, QueuedMessage
  <2>3. PICK s \in UnderWay \union {"created", "failed"} : request' = [request EXCEPT ![id] = s]
    BY <1>2 DEF Publish, PublishFails, Disconnect, QueuedMessage, UnderWay
  <2>4. /\ request' \in Seq(UnderWay \union {"created", "failed"})
        /\ Len(request') = Len(created')
    BY <2>2, <2>3, RequestType
  <2>5. detection_rules' \subseteq Ids' /\ troubled' \subseteq Names
    BY <2>1, <2>2 DEF TypeOK, Ids
  <2> QED
    BY <2>2, <2>4, <2>5, AgentsType DEF TypeOK
<1>3. ASSUME NEW id \in Ids, DeleteRule(id) PROVE TypeOK'
  BY <1>3 DEF TypeOK, DeleteRule, Ids, group
<1>4. ASSUME NEW a \in Agents, Receive(a) PROVE TypeOK'
  <2> DEFINE id == topic[position[a] + 1]
  <2>1. position[a] + 1 \in 1 .. Len(topic) /\ position[a] \in Nat
    BY <1>4 DEF TypeOK, Receive
  <2>2. id \in Ids
    BY <2>1 DEF TypeOK
  <2>3. created[id] \in Names
    BY <2>2 DEF TypeOK, Ids
  <2>4. Ids' = Ids /\ topic' = topic
    BY <1>4 DEF Receive, coordinator, Ids
  <2>5. received' \in [Agents -> SUBSET Ids']
    BY <1>4, <2>2, <2>4 DEF TypeOK, Receive
  <2>6. Rule(created[id], id) \in [name : Names, id : Ids \union {Local}]
    BY <2>2, <2>3 DEF Rule
  <2>7. rules' = [rules EXCEPT ![a] = {s \in @ : s.name # Rule(created[id], id).name}
                                         \union {Rule(created[id], id)}]
    BY <1>4 DEF Receive, AddRule
  <2>8. rules' \in [Agents -> SUBSET [name : Names, id : Ids' \union {Local}]]
    <3> HIDE DEF id
    <3> QED
      BY <2>4, <2>6, <2>7 DEF TypeOK
  <2>9. position' = [position EXCEPT ![a] = position[a] + 1]
    BY <1>4 DEF Receive
  <2>10. /\ position' \in [Agents -> 0 .. Len(topic')]
         /\ \A b \in Agents : from'[b] <= position'[b]
    BY <1>4, <2>1, <2>4, <2>9 DEF TypeOK, Receive
  <2> QED
    BY <1>4, <2>4, <2>5, <2>8, <2>10 DEF TypeOK, Receive, coordinator
<1>5. ASSUME NEW a \in Agents, UpdateRules(a) PROVE TypeOK'
  <2>1. \A N \in SUBSET Names :
          {Rule(n, Local) : n \in N} \in SUBSET [name : Names, id : Ids \union {Local}]
    BY DEF Rule
  <2>2. rules' \in [Agents -> SUBSET [name : Names, id : Ids \union {Local}]]
    BY <1>5, <2>1 DEF TypeOK, UpdateRules
  <2>3. Ids' = Ids
    BY <1>5 DEF UpdateRules, coordinator, Ids
  <2>4. from' = [from EXCEPT ![a] = position[a]] /\ UNCHANGED <<topic, position>>
    BY <1>5 DEF UpdateRules
  <2>5. /\ from' \in [Agents -> 0 .. Len(topic')]
        /\ \A b \in Agents : from'[b] <= position'[b]
    BY <2>4 DEF TypeOK
  <2> QED
    BY <1>5, <2>2, <2>3, <2>5 DEF TypeOK, UpdateRules, coordinator
<1>6. ASSUME NEW a \in Agents, Assign(a) PROVE TypeOK'
  <2>1. Ids' = Ids
    BY <1>6 DEF Assign, coordinator, Ids
  <2>2. PICK p \in 0 .. Len(topic) :
          position' = [position EXCEPT ![a] = p] /\ from' = [from EXCEPT ![a] = p]
    <3> DEFINE start == IF committed = NoOffset THEN Len(topic) ELSE committed
    <3>1. Len(topic) \in Nat /\ committed \in {NoOffset} \union 0 .. Len(topic)
      BY DEF TypeOK
    <3>2. start \in 0 .. Len(topic)
      BY <3>1
    <3>3. /\ position' = [position EXCEPT ![a] = start]
          /\ from' = [from EXCEPT ![a] = start]
      BY <1>6 DEF Assign, Start
    <3> HIDE DEF start
    <3> QED
      BY <3>2, <3>3
  <2>3. topic' = topic
    BY <1>6 DEF Assign
  <2>4. /\ position' \in [Agents -> 0 .. Len(topic')]
        /\ from' \in [Agents -> 0 .. Len(topic')]
        /\ \A b \in Agents : from'[b] <= position'[b]
    BY <2>2, <2>3 DEF TypeOK
  <2> QED
    BY <1>6, <2>1, <2>4 DEF TypeOK, Assign, Start, coordinator
<1>7. ASSUME Commit \/ Revoke PROVE TypeOK'
  <2>1. Ids' = Ids
    BY <1>7 DEF Commit, Revoke, coordinator, Ids
  <2>2. committed' \in {NoOffset} \union 0 .. Len(topic)
    BY <1>7 DEF TypeOK, Commit, Revoke
  <2>3. consumed' \in BOOLEAN
    BY <1>7 DEF TypeOK, Commit, Revoke
  <2> QED
    BY <1>7, <2>1, <2>2, <2>3 DEF TypeOK, Commit, Revoke, coordinator
<1>8. ASSUME NEW a \in Agents, Crash(a) PROVE TypeOK'
  <2>1. Ids' = Ids
    BY <1>8 DEF Crash, coordinator, Ids
  <2>2. Defaults \in SUBSET [name : Names, id : Ids \union {Local}]
    BY DEF Defaults, Rule
  <2>3. consumed' \in BOOLEAN
    BY <1>8 DEF TypeOK, Crash
  <2>4. from' = [from EXCEPT ![a] = position[a]] /\ UNCHANGED <<topic, position>>
    BY <1>8 DEF Crash
  <2>5. /\ from' \in [Agents -> 0 .. Len(topic')]
        /\ \A b \in Agents : from'[b] <= position'[b]
    BY <2>4 DEF TypeOK
  <2> QED
    BY <1>8, <2>1, <2>2, <2>3, <2>5 DEF TypeOK, Crash, coordinator
<1>9. CASE UNCHANGED vars
  BY <1>9 DEF TypeOK, vars, coordinator, group, Ids
<1> QED
  BY <1>1, <1>2, <1>3, <1>4, <1>5, <1>6, <1>7, <1>8, <1>9 DEF Next, Coordinator, Agent

\* Type correctness; in particular every offset is within the topic.
THEOREM TypeCorrect == Spec => []TypeOK
<1>1. Init => TypeOK
  <2> SUFFICES ASSUME Init PROVE TypeOK
    OBVIOUS
  <2>1. /\ created \in Seq(Names) /\ topic \in Seq(Ids) /\ Len(topic) = 0
        /\ request \in Seq(UnderWay \union {"created", "failed"})
        /\ Len(request) = Len(created)
    BY DEF Init
  <2>2. Defaults \in SUBSET [name : Names, id : Ids \union {Local}]
    BY DistributionAssumption DEF Defaults, Rule
  <2>3. rules \in [Agents -> SUBSET [name : Names, id : Ids \union {Local}]]
    BY <2>2 DEF Init
  <2>4. /\ position \in [Agents -> 0 .. Len(topic)]
        /\ from \in [Agents -> 0 .. Len(topic)]
        /\ \A a \in Agents : from[a] <= position[a]
    BY <2>1 DEF Init
  <2> QED
    BY <2>1, <2>3, <2>4 DEF Init, TypeOK
<1> QED
  BY <1>1, TypeStep, PTL DEF Spec

-----------------------------------------------------------------------------
(* An agent's list follows the topic.                                      *)

Follows(a) ==
  \A p \in from[a] + 1 .. position[a] :
    (\A q \in p + 1 .. position[a] : NameAt(q) # NameAt(p))
      => {r \in rules[a] : r.name = NameAt(p)} = {Rule(NameAt(p), topic[p])}

\* Messages and rows are never rewritten, so an agent that does nothing keeps
\* following the topic.
LEMMA IdleAgentFollows ==
  ASSUME TypeOK, NEW a \in Agents, Follows(a),
         \A id \in Ids : (created')[id] = created[id],
         \A p \in 1 .. Len(topic) : (topic')[p] = topic[p],
         (position')[a] = position[a], (from')[a] = from[a], (rules')[a] = rules[a]
  PROVE  Follows(a)'
<1>1. \A p \in from[a] + 1 .. position[a] :
         p \in 1 .. Len(topic) /\ \A q \in p + 1 .. position[a] : q \in 1 .. Len(topic)
  BY DEF TypeOK
<1>2. \A p \in 1 .. Len(topic) : topic[p] \in Ids
  BY DEF TypeOK
<1>3. \A p \in 1 .. Len(topic) : NameAt(p)' = NameAt(p) /\ (topic')[p] = topic[p]
  BY <1>2 DEF NameAt
<1> SUFFICES ASSUME NEW p \in from[a] + 1 .. position[a],
                    \A q \in p + 1 .. position[a] : NameAt(q)' # NameAt(p)'
             PROVE  {r \in rules[a] : r.name = NameAt(p)'} = {Rule(NameAt(p)', (topic')[p])}
  BY DEF Follows
<1>4. \A q \in p + 1 .. position[a] : NameAt(q) # NameAt(p)
  BY <1>1, <1>3
<1> QED
  BY <1>1, <1>3, <1>4 DEF Follows

\* Reading one more message: its name is replaced, the others are kept.
LEMMA ReaderFollows ==
  ASSUME TypeOK, NEW a \in Agents, Follows(a), Receive(a)
  PROVE  Follows(a)'
<1> DEFINE new == position[a] + 1
           id == topic[new]
<1>1. new \in 1 .. Len(topic) /\ position[a] \in Nat /\ from[a] \in Nat
  BY DEF TypeOK, Receive
<1>2. \A p \in 1 .. Len(topic) : topic[p] \in Ids
  BY DEF TypeOK
<1>3. /\ (position')[a] = new /\ (from')[a] = from[a]
      /\ topic' = topic /\ created' = created
  BY DEF TypeOK, Receive, coordinator
<1>4. (rules')[a] = {r \in rules[a] : r.name # created[id]} \union {Rule(created[id], id)}
  BY DEF TypeOK, Receive, AddRule, Rule
<1>5. NameAt(new) = created[id]
  BY DEF NameAt
<1> HIDE DEF id
<1> SUFFICES ASSUME NEW p \in from[a] + 1 .. new,
                    \A q \in p + 1 .. new : NameAt(q) # NameAt(p)
             PROVE  {r \in (rules')[a] : r.name = NameAt(p)} = {Rule(NameAt(p), topic[p])}
  BY <1>3 DEF Follows, NameAt
<1>6. CASE p = new
  <2>1. \A r \in (rules')[a] : r.name = created[id] => r = Rule(created[id], id)
    BY <1>4
  <2>2. Rule(created[id], id).name = created[id]
    BY DEF Rule
  <2> QED
    BY <1>4, <1>5, <1>6, <2>1, <2>2 DEF id
<1>7. CASE p # new
  <2>1. p \in from[a] + 1 .. position[a]
    BY <1>1, <1>7
  <2>2. NameAt(new) # NameAt(p)
    BY <1>1, <2>1
  <2>3. {r \in rules[a] : r.name = NameAt(p)} = {Rule(NameAt(p), topic[p])}
    BY <1>1, <2>1 DEF Follows
  <2>4. Rule(created[id], id).name = created[id]
    BY DEF Rule
  <2> QED
    BY <1>4, <1>5, <2>2, <2>3, <2>4
<1> QED
  BY <1>6, <1>7

\* An agent that just started, got the partition or was given a list has read
\* nothing since.
LEMMA NewAgentFollows ==
  ASSUME NEW a \in Agents, (from')[a] = (position')[a], (position')[a] \in Nat
  PROVE  Follows(a)'
  BY DEF Follows

\* Of the messages an agent has read since it started, got the partition or was
\* given a list, the last one about a name is the only rule it has of that name.
THEOREM ListFollows == Spec => []ListFollowsTopic
<1>1. Init => ListFollowsTopic
  BY DEF Init, ListFollowsTopic
<1>2. TypeOK /\ TypeOK' /\ (\A a \in Agents : Follows(a)) /\ [Next]_vars
        => \A a \in Agents : Follows(a)'
  <2> SUFFICES ASSUME TypeOK, TypeOK', \A a \in Agents : Follows(a), [Next]_vars,
                      NEW a \in Agents
               PROVE  Follows(a)'
    OBVIOUS
  <2>1. ASSUME NEW n \in Names, Save(n) PROVE Follows(a)'
    BY <2>1, IdleAgentFollows DEF TypeOK, Save, group, Ids
  <2>2. ASSUME NEW id \in Ids, Publish(id) \/ PublishFails(id) \/ Disconnect(id)
                               \/ QueuedMessage(id) \/ DeleteRule(id)
        PROVE  Follows(a)'
    <3>1. /\ topic' \in {topic, Append(topic, id)}
          /\ UNCHANGED <<created, rules, position, from>>
      BY <2>2 DEF Publish, PublishFails, Disconnect, QueuedMessage, DeleteRule, group
    <3> QED
      BY <3>1, TopicGrows, IdleAgentFollows
  <2>3. ASSUME NEW b \in Agents, Agent(b) PROVE Follows(a)'
    <3>1. created' = created /\ topic' = topic
      BY <2>3 DEF Agent, Receive, UpdateRules, Assign, Crash, coordinator
    <3>2. CASE a # b
      <4>1. (position')[a] = position[a] /\ (from')[a] = from[a] /\ (rules')[a] = rules[a]
        BY <2>3, <3>2 DEF TypeOK, Agent, Receive, AddRule, UpdateRules, Assign, Start, Crash
      <4> QED
        BY <3>1, <4>1, IdleAgentFollows
    <3>3. CASE a = b /\ Receive(b)
      BY <3>3, ReaderFollows
    <3>4. CASE a = b /\ ~Receive(b)
      <4>1. (from')[a] = (position')[a]
        BY <2>3, <3>4 DEF TypeOK, Agent, UpdateRules, Assign, Start, Crash
      <4>2. (position')[a] \in Nat
        BY DEF TypeOK
      <4> QED
        BY <4>1, <4>2, NewAgentFollows
    <3> QED
      BY <3>2, <3>3, <3>4
  <2>4. CASE Commit \/ Revoke
    <3>1. UNCHANGED <<created, topic, rules, position, from>>
      BY <2>4 DEF Commit, Revoke, coordinator
    <3> QED
      BY <3>1, IdleAgentFollows
  <2>5. CASE UNCHANGED vars
    <3>1. UNCHANGED <<created, topic, rules, position, from>>
      BY <2>5 DEF vars, coordinator, group
    <3> QED
      BY <3>1, IdleAgentFollows
  <2> QED
    BY <2>1, <2>2, <2>3, <2>4, <2>5 DEF Next, Coordinator
<1>3. TypeOK /\ TypeOK' /\ ListFollowsTopic /\ [Next]_vars => ListFollowsTopic'
  BY <1>2 DEF ListFollowsTopic, Follows
<1> QED
  BY <1>1, <1>3, TypeCorrect, PTL DEF Spec

-----------------------------------------------------------------------------
(* The topic follows the database.                                         *)

Announced(id) ==
  \E p \in 1 .. Len(topic) :
    /\ NameAt(p) = created[id] /\ topic[p] >= id
    /\ \A q \in p + 1 .. Len(topic) : NameAt(q) # created[id]

\* For a name whose calls neither overlapped nor failed: a message under way is
\* of the newest row, and a row whose call has ended is announced.
AnnouncedInv ==
  \A id \in Ids :
    /\ request[id] = "gone" => created[id] \in troubled
    /\ created[id] \notin troubled /\ request[id] = "publishing"
         => \A jd \in Ids : created[jd] = created[id] => jd <= id
    /\ created[id] \notin troubled /\ request[id] \notin UnderWay => Announced(id)

\* Messages about other names do not matter to a row.
LEMMA StaysAnnounced ==
  ASSUME TypeOK, NEW id \in Ids, Announced(id),
         \A jd \in Ids : (created')[jd] = created[jd],
         \/ topic' = topic
         \/ \E jd \in Ids : topic' = Append(topic, jd) /\ created[jd] # created[id]
  PROVE  Announced(id)'
<1>1. /\ topic \in Seq(Ids) /\ Len(topic) \in Nat
      /\ \A p \in 1 .. Len(topic) : topic[p] \in Ids
  BY DEF TypeOK
<1>2. PICK p \in 1 .. Len(topic) :
        /\ NameAt(p) = created[id] /\ topic[p] >= id
        /\ \A q \in p + 1 .. Len(topic) : NameAt(q) # created[id]
  BY DEF Announced
<1>3. (created')[id] = created[id]
  OBVIOUS
<1>4. CASE topic' = topic
  <2>1. \A q \in 1 .. Len(topic) : NameAt(q)' = NameAt(q)
    BY <1>1, <1>4 DEF NameAt
  <2>2. \A q \in p + 1 .. Len(topic) : NameAt(q)' # created[id]
    BY <1>1, <1>2, <2>1
  <2> QED
    BY <1>2, <1>3, <1>4, <2>1, <2>2 DEF Announced
<1>5. CASE topic' # topic
  <2>1. PICK jd \in Ids : topic' = Append(topic, jd) /\ created[jd] # created[id]
    BY <1>5
  <2> HIDE DEF Ids
  <2>2. /\ Len(topic') = Len(topic) + 1 /\ (topic')[Len(topic) + 1] = jd
        /\ \A q \in 1 .. Len(topic) : (topic')[q] = topic[q]
    BY <1>1, <2>1
  <2>3. \A q \in 1 .. Len(topic) : NameAt(q)' = NameAt(q)
    BY <1>1, <2>2 DEF NameAt
  <2>4. ASSUME NEW q, q = Len(topic) + 1 PROVE NameAt(q)' # created[id]
    <3>1. NameAt(q)' = (created')[jd]
      BY <2>2, <2>4 DEF NameAt
    <3> QED
      BY <2>1, <3>1
  <2>5. \A q \in p + 1 .. Len(topic') : NameAt(q)' # created[id]
    <3>1. ASSUME NEW q \in p + 1 .. Len(topic) + 1 PROVE NameAt(q)' # created[id]
      <4>1. CASE q = Len(topic) + 1
        BY <2>4, <4>1
      <4>2. CASE q # Len(topic) + 1
        <5>1. q \in p + 1 .. Len(topic) /\ q \in 1 .. Len(topic)
          BY <1>1, <4>2
        <5> QED
          BY <1>2, <2>3, <5>1
      <4> QED
        BY <4>1, <4>2
    <3> QED
      BY <2>2, <3>1
  <2>6. p \in 1 .. Len(topic') /\ NameAt(p)' = created[id] /\ (topic')[p] >= id
    BY <1>1, <1>2, <2>2, <2>3
  <2> QED
    BY <1>3, <2>5, <2>6 DEF Announced
<1> QED
  BY <1>4, <1>5

\* A message of the newest row of a name announces every row of that name.
LEMMA NewlyAnnounced ==
  ASSUME TypeOK, NEW id \in Ids, NEW jd \in Ids, created[jd] = created[id], id <= jd,
         created' = created, topic' = Append(topic, jd)
  PROVE  Announced(id)'
<1>1. /\ topic \in Seq(Ids) /\ Len(topic) \in Nat
      /\ id \in Nat /\ jd \in Nat
  BY DEF TypeOK, Ids
<1> HIDE DEF Ids
<1>2. Len(topic') = Len(topic) + 1 /\ (topic')[Len(topic) + 1] = jd
  BY <1>1
<1>3. PICK p \in Nat : p = Len(topic) + 1
  BY <1>1
<1>4. NameAt(p)' = (created')[id]
  BY <1>2, <1>3 DEF NameAt
<1>5. /\ p \in 1 .. Len(topic') /\ (topic')[p] >= id
      /\ \A q \in p + 1 .. Len(topic') : FALSE
  BY <1>1, <1>2, <1>3
<1> QED
  BY <1>4, <1>5 DEF Announced

LEMMA AnnouncedStep == TypeOK /\ AnnouncedInv /\ [Next]_vars => AnnouncedInv'
<1> SUFFICES ASSUME TypeOK, AnnouncedInv, [Next]_vars PROVE AnnouncedInv'
  OBVIOUS
<1>1. ASSUME NEW n \in Names, Save(n) PROVE AnnouncedInv'
  <2> DEFINE new == Len(created) + 1
  <2>1. /\ topic' = topic /\ Ids' = Ids \union {new} /\ (created')[new] = n
        /\ \A id \in Ids : (created')[id] = created[id] /\ (request')[id] = request[id]
        /\ \A id \in Ids : id < new
    BY <1>1 DEF TypeOK, Save, Ids
  <2>2. PICK s \in {"publishing", "failed"} :
          /\ request' = Append(request, s)
          /\ troubled' = IF Busy(n) \/ s = "failed" THEN troubled \union {n} ELSE troubled
    BY <1>1 DEF Save
  <2>3. (request')[new] = s
    BY <2>2 DEF TypeOK
  <2>4. troubled \subseteq troubled' /\ (Busy(n) \/ s = "failed" => n \in troubled')
    BY <2>2
  <2> HIDE DEF Ids, new
  <2>5. ASSUME NEW id \in Ids, (created')[id] \notin troubled'
        PROVE  /\ request[id] # "gone"
               /\ (request')[id] = "publishing" =>
                    \A jd \in Ids' : (created')[jd] = (created')[id] => jd <= id
               /\ (request')[id] \notin UnderWay => Announced(id)'
    <3>1. created[id] \notin troubled
      BY <2>1, <2>4, <2>5
    <3>2. request[id] # "gone"
      BY <3>1 DEF AnnouncedInv
    <3>3. ASSUME (request')[id] = "publishing", NEW jd \in Ids', (created')[jd] = (created')[id]
          PROVE  jd <= id
      <4>1. CASE jd \in Ids
        BY <2>1, <3>1, <3>3, <4>1 DEF AnnouncedInv
      <4>2. CASE jd = new
        <5>1. created[id] = n /\ request[id] \in UnderWay
          BY <2>1, <3>3, <4>2 DEF UnderWay
        <5>2. n \in troubled'
          BY <2>4, <5>1 DEF Busy
        <5> QED
          BY <2>1, <2>5, <5>1, <5>2
      <4> QED
        BY <2>1, <4>1, <4>2
    <3>4. ASSUME (request')[id] \notin UnderWay PROVE Announced(id)'
      BY <2>1, <3>1, <3>4, StaysAnnounced DEF AnnouncedInv
    <3> QED
      BY <3>2, <3>3, <3>4
  <2>6. ASSUME (created')[new] \notin troubled'
        PROVE  /\ (request')[new] = "publishing"
               /\ \A jd \in Ids' : jd <= new
    <3>1. s # "failed"
      BY <2>1, <2>4, <2>6
    <3>2. new \in Nat /\ \A id \in Ids : id \in Nat
      BY DEF TypeOK, Ids, new
    <3> QED
      BY <2>1, <2>3, <3>1, <3>2
  <2>7. (request')[new] # "gone"
    BY <2>3
  <2>8. ASSUME NEW id \in Ids'
        PROVE  /\ (request')[id] = "gone" => (created')[id] \in troubled'
               /\ (created')[id] \notin troubled' /\ (request')[id] = "publishing"
                    => \A jd \in Ids' : (created')[jd] = (created')[id] => jd <= id
               /\ (created')[id] \notin troubled' /\ (request')[id] \notin UnderWay
                    => Announced(id)'
    <3>1. CASE id \in Ids
      BY <2>1, <2>5, <3>1
    <3>2. CASE id = new
      BY <2>6, <2>7, <3>2 DEF UnderWay
    <3> QED
      BY <2>1, <3>1, <3>2
  <2> QED
    BY <2>8 DEF AnnouncedInv, UnderWay
<1>2. ASSUME NEW id \in Ids,
             Publish(id) \/ PublishFails(id) \/ Disconnect(id) \/ QueuedMessage(id)
      PROVE  AnnouncedInv'
  <2>1. /\ created' = created /\ Ids' = Ids
        /\ topic' \in {topic, Append(topic, id)}
        /\ troubled \subseteq troubled'
    BY <1>2 DEF Publish, PublishFails, Disconnect, QueuedMessage, Ids
  <2>2. PICK s \in UnderWay \union {"created", "failed"} : request' = [request EXCEPT ![id] = s]
    BY <1>2 DEF Publish, PublishFails, Disconnect, QueuedMessage, UnderWay
  <2>3. \A jd \in Ids : (request')[jd] = IF jd = id THEN s ELSE request[jd]
    BY <2>1, <2>2, RequestType
  <2>4. \/ created[id] \in troubled'
        \/ s = "created" /\ request[id] = "publishing" /\ topic' = Append(topic, id)
    <3>1. CASE Publish(id)
      BY <2>2, <2>3, <3>1, RequestType DEF Publish, TypeOK, Ids
    <3>2. CASE PublishFails(id) \/ Disconnect(id)
      BY <3>2 DEF PublishFails, Disconnect
    <3>3. CASE QueuedMessage(id)
      BY <2>1, <3>3 DEF QueuedMessage, AnnouncedInv
    <3> QED
      BY <1>2, <3>1, <3>2, <3>3
  <2> HIDE DEF Ids
  <2>5. ASSUME NEW jd \in Ids, created[jd] \notin troubled'
        PROVE  /\ (request')[jd] # "gone"
               /\ (request')[jd] = "publishing" =>
                    \A kd \in Ids : created[kd] = created[jd] => kd <= jd
               /\ (request')[jd] \notin UnderWay => Announced(jd)'
    <3>1. created[jd] \notin troubled
      BY <2>1, <2>5
    <3>2. CASE created[jd] # created[id]
      <4>1. (request')[jd] = request[jd]
        BY <2>3, <3>2
      <4>2. Announced(jd) => Announced(jd)'
        BY <2>1, <3>2, StaysAnnounced
      <4> QED
        BY <3>1, <4>1, <4>2 DEF AnnouncedInv
    <3>3. CASE created[jd] = created[id]
      <4>1. s = "created" /\ request[id] = "publishing" /\ topic' = Append(topic, id)
        BY <2>4, <2>5, <3>3
      <4>2. jd <= id
        BY <3>1, <3>3, <4>1 DEF AnnouncedInv
      <4>3. Announced(jd)'
        BY <2>1, <3>3, <4>1, <4>2, NewlyAnnounced
      <4>4. (request')[jd] # "gone"
        BY <2>3, <3>1, <4>1 DEF AnnouncedInv
      <4>5. (request')[jd] = "publishing" => request[jd] = "publishing"
        BY <2>3, <4>1
      <4> QED
        BY <3>1, <4>3, <4>4, <4>5 DEF AnnouncedInv
    <3> QED
      BY <3>2, <3>3
  <2> QED
    BY <2>1, <2>5 DEF AnnouncedInv, UnderWay
<1>3. CASE UNCHANGED <<created, request, troubled, topic>>
  <2>1. Ids' = Ids
    BY <1>3 DEF Ids
  <2>2. \A id \in Ids : Announced(id) => Announced(id)'
    BY <1>3, StaysAnnounced
  <2> QED
    BY <1>3, <2>1, <2>2 DEF AnnouncedInv, UnderWay
<1>4. ASSUME NEW id \in Ids, DeleteRule(id) PROVE UNCHANGED <<created, request, troubled, topic>>
  BY <1>4 DEF DeleteRule
<1>5. ASSUME NEW a \in Agents, Agent(a) PROVE UNCHANGED <<created, request, troubled, topic>>
  BY <1>5 DEF Agent, Receive, UpdateRules, Assign, Crash, coordinator
<1>6. CASE Commit \/ Revoke \/ UNCHANGED vars
  BY <1>3, <1>6 DEF Commit, Revoke, vars, coordinator
<1> QED
  BY <1>1, <1>2, <1>3, <1>4, <1>5, <1>6 DEF Next, Coordinator

\* What the coordinator lists for a name is not newer than the last message about
\* it, unless calls for that name overlapped, failed, were abandoned or go on.
THEOREM TopicFollows == Spec => []TopicFollowsDatabase
<1>1. Init => AnnouncedInv
  BY DEF Init, AnnouncedInv, Ids
<1>2. TypeOK /\ AnnouncedInv => TopicFollowsDatabase
  <2> SUFFICES ASSUME TypeOK, AnnouncedInv, NEW id \in detection_rules,
                      created[id] \notin troubled, ~Busy(created[id])
               PROVE  Announced(id)
    BY DEF TopicFollowsDatabase, Announced
  <2>1. id \in Ids
    BY DEF TypeOK
  <2>2. request[id] \notin UnderWay
    BY <2>1 DEF Busy
  <2> QED
    BY <2>1, <2>2 DEF AnnouncedInv
<1> QED
  BY <1>1, <1>2, TypeCorrect, AnnouncedStep, PTL DEF Spec
=============================================================================
