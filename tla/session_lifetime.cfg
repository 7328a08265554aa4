SPECIFICATION Spec
CONSTANTS
  Requests = {r1, r2}
  Second = 3
  MaxSeconds = 4
  r1 = r1
  r2 = r2
INVARIANTS
  TypeOK
  CappedByAbsolute
  UsedSessionKept
PROPERTIES
  ExpiredRunsOut
  SignedInSessionEnds
