SPECIFICATION NetworkSpec
CONSTANTS
  Ports = {1, 2}
  Masters = {1, 2}
  Ranks = {1, 3}
  OwnRank = 2
  SeqMod = 6
  Announces <- AnyMessage
  MinTimeout = 3
  MaxTimeout = 4
  None = None
  Networks <- OneOrTwoPorts
  InitialRank <- WorseFirst
INVARIANTS ForeignMastersAreConsistent ErbestIsFresh
PROPERTIES Converges ActiveHasErbestUnlessOwnBetter ParentChangesToEbest
