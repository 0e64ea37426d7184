SPECIFICATION Spec
CONSTANTS
  Nodes <- MCNodes
  LeaderOf <- MCLeaderOf
  Ticks <- MCTicks
  MaxTerm = 2
  MaxIndex = 2
  IntLimit = 4
  WordLimit = 32
INVARIANT TypeOK FollowsTermLeader NoVoteUnderLeader TimeoutInRange
