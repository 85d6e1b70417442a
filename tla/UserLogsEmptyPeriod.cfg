CONSTANTS
  c1 = c1
  Calls <- OneCall
  Times <- DayBounds
  Periods <- AnyPeriods
  MaxRecords = 1
  Modulus = 262144
SPECIFICATION Spec
INVARIANT CallbackForAnyPeriod
