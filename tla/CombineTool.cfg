CONSTANTS
  u1 = u1
  u2 = u2
  k1 = k1
  k2 = k2
  new = new
  Users <- TwoUsers
  KEYS <- TwoKeys
  NEW_KEY = new
  Selections <- AllOrOne
  BatchSize = 1
  MaxRecords = 2
  MaxRuns = 2
SPECIFICATION Spec
INVARIANT TypeOK
INVARIANT RecordsKept
INVARIANT CopiesPerRun
INVARIANT ActiveUnderNewKey
PROPERTY RunEnds
