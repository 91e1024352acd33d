SPECIFICATION FairSpec
CONSTANTS
  Workers = {w1, w2}
  Names <- MCAllNames
  LongNames <- MCLongNames
  Nameless = Nameless
  MaxBusinesses = 4
CHECK_DEADLOCK FALSE
INVARIANTS TypeOK SlugsDistinct NumbersAreUsedInOrder FailsOnlyInRaces
PROPERTY AnsweredOrOvertaken
