------------------------------ MODULE MCAddOps ------------------------------
(* Model values for checking AddOps: see AddOps.cfg.  c1 may be any         *)
(* operation, of a provider that asks for one of the two groups; c2 appends *)
(* to the log, so that two records can meet in a file, and its provider     *)
(* asks for more groups than there are.                                     *)
EXTENDS AddOps
CONSTANTS c1, c2, g1, g2, u1, s1
TwoCalls == {c1, c2}
AnyAndLog == [c \in TwoCalls |-> IF c = c1 THEN Kinds ELSE {"log"}]
OneAndThree == [c \in TwoCalls |-> IF c = c1 THEN 1 ELSE 3]
TwoGroups == {g1, g2}
OneUser == {u1}
OneSubkey == {s1}
=============================================================================
