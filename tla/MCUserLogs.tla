----------------------------- MODULE MCUserLogs -----------------------------
(* Model values for checking UserLogs.  The times are the first and the     *)
(* last second of three days.                                               *)
EXTENDS UserLogs
CONSTANT c1
OneCall == {c1}
DayBounds == {0, 86399, 86400, 172799, 172800, 259199}
Forward == {p \in DayBounds \X DayBounds : p[1] <= p[2]}
AnyPeriods == DayBounds \X DayBounds
=============================================================================
