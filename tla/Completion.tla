----------------------------- MODULE Completion -----------------------------
(***************************************************************************)
(* What an add operation of the provider promises its caller, whatever the *)
(* number of parts it writes, the order in which they finish and the       *)
(* threads that see them finish: the call is answered once, after every    *)
(* part it asked for has finished, with TRUE exactly when each part was    *)
(* written to at least MinWrites[c] groups.                                *)
(*                                                                         *)
(* This is the contract of include/historydb/provider.h ("callback -       *)
(* complete callback", "min_writes - minimum numbers of groups which       *)
(* shouldn't fail write"); Waiter and AddOps are shown to implement it.    *)
(***************************************************************************)
EXTENDS Naturals, AddParts

CONSTANTS
  Calls,      \* calls of add_log, add_activity and add_log_with_activity
  MaxGroups,  \* number of elliptics groups a part is written to
  MinWrites   \* MinWrites[c]: number of groups whose write must succeed

VARIABLES
  kind,       \* kind[c]: the operation called, "none" before the call
  got,        \* got[c][p]: successful groups of part p, NoResult while it runs
  answers     \* answers[c]: what the caller of c has been told, in order

vars == <<kind, got, answers>>

NoResult == MaxGroups + 1       \* no write succeeds in more than MaxGroups groups

Finished(c) == kind[c] # "none" /\ \A p \in PartsOf(kind[c]) : got[c][p] # NoResult
Enough(c)   == \A p \in PartsOf(kind[c]) : got[c][p] >= MinWrites[c]

Init ==
  /\ kind = [c \in Calls |-> "none"]
  /\ got = [c \in Calls |-> [p \in Parts |-> NoResult]]
  /\ answers = [c \in Calls |-> <<>>]

Call(c, k) ==
  /\ kind[c] = "none"
  /\ kind' = [kind EXCEPT ![c] = k]
  /\ UNCHANGED <<got, answers>>

Finish(c, p, n) ==
  /\ p \in PartsOf(kind[c])
  /\ got[c][p] = NoResult
  /\ got' = [got EXCEPT ![c][p] = n]
  /\ UNCHANGED <<kind, answers>>

Answer(c) ==
  /\ Finished(c)
  /\ answers[c] = <<>>
  /\ answers' = [answers EXCEPT ![c] = <<Enough(c)>>]
  /\ UNCHANGED <<kind, got>>

Next ==
  \E c \in Calls :
    \/ \E k \in Kinds : Call(c, k)
    \/ \E p \in Parts, n \in 0..MaxGroups : Finish(c, p, n)
    \/ Answer(c)

Spec == Init /\ [][Next]_vars
=============================================================================
