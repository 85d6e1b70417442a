------------------------------ MODULE MCWaiter ------------------------------
(* Model values for checking Waiter: see MCWaiter.cfg. *)
EXTENDS Waiter
CONSTANTS c1, c2
MCCalls == {c1, c2}
OneAndTwo == [c \in MCCalls |-> IF c = c1 THEN 1 ELSE 2]
=============================================================================
