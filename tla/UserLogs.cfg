CONSTANTS
  c1 = c1
  Calls <- OneCall
  Times <- DayBounds
  Periods <- Forward
  MaxRecords = 2
  Modulus = 262144
SPECIFICATION Spec
INVARIANT TypeOK
INVARIANT SeesEarlierRecords
INVARIANT DaysInOrder
INVARIANT GathersTheResults
PROPERTY EveryReadAnswered
