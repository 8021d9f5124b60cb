\* Two agents, two rules, a crash or rebalance, a list that is posted.
SPECIFICATION FairSpec
CONSTANTS
  Agents = {a1, a2}
  Names = {n1, n2}
  NoAgent = NoAgent
  DefaultNames = {n1}
  MaxRules = 2
  MaxMoves = 1
  MaxPosts = 1
\* The calls, crashes and posts are finitely many.
CHECK_DEADLOCK FALSE
INVARIANTS
  TypeOK
  ListFollowsTopic
  TopicFollowsDatabase
PROPERTY
  RuleReachesAnAgent
