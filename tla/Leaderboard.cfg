SPECIFICATION FairSpec
CONSTANTS
  Teams <- TwoTeams
  Requests = {q1, q2}
  Kinds <- AllKinds
  Readers = {r1}
  InitialBalance = 100
  Equities = {250}
  Stake = 50
CHECK_DEADLOCK FALSE
INVARIANTS TypeOK ReadYourWrites ScoredWhenDone SettledStandings
PROPERTIES FrozenIsFinal PageCatchesUp
