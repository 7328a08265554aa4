SPECIFICATION Spec
CONSTANTS
  Ids <- MCIds
  PerMillisecond = 2
  Limits = {1, 2}
  LastTick = 3
INVARIANTS
  TypeOK
  NoRowTwice
  NothingSkipped
PROPERTY
  PagingEnds
