CONSTANTS
  Resolvers = {bind9, unbound}
  Rounds = 3
  PipeCap = 2
  MaxDeaths = 2
  MaxFailures = 1
SPECIFICATION Spec
INVARIANTS
  TypeOK
  PastIsSuffixOfOwnRounds
  LostOnlyToDeaths
PROPERTY UnitEnds
CHECK_DEADLOCK FALSE
