SPECIFICATION PSpec
CONSTANTS
  MaxWrites = 3
  MaxOps = 0
  Near <- MCNear
  K = 2
  MaxHops = 1
  Expand = 1
  Same <- MCSame
  Queries <- MCQueries
  Excerpts = {1, 9}
  Siblings = {"a"}
  Lists <- MCLists
  PoolQueries <- MCPoolQueries
  RankConstant = 60
  Weight = 1
  Slots = 1
  Strict = FALSE
  MaxPoolWrites = 2
INVARIANTS
  QuietRecallIsCurrentTruth
  SteadyNotesAreFound
  HistoryIsAncestry
  PoolAnswerIsFused
