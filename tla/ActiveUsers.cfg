CONSTANTS
  c1 = c1
  u1 = u1
  u2 = u2
  Calls <- OneCall
  Users <- TwoUsers
  Times <- DayBounds
  Periods <- AnyPeriods
  Modulus = 172800
SPECIFICATION Spec
INVARIANT TypeOK
INVARIANT OnlyActiveUsers
PROPERTY NoActiveUserMissed
PROPERTY EveryQueryAnswered
