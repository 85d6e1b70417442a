--------------------------- MODULE MCActiveUsers ---------------------------
(* Model values for checking ActiveUsers.  The times are the first and the  *)
(* last second of two days.                                                 *)
EXTENDS ActiveUsers
CONSTANTS c1, u1, u2
OneCall == {c1}
TwoUsers == {u1, u2}
DayBounds == {0, 86399, 86400, 172799}
AnyPeriods == DayBounds \X DayBounds
=============================================================================
