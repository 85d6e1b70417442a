------------------------------- MODULE Waiter -------------------------------
(***************************************************************************)
(* struct waiter of src/lib/provider_impl.cpp: the object that joins the   *)
(* results of an asynchronous add operation.  add_log_with_activity binds  *)
(* one waiter to two elliptics requests; their handlers, on_log and        *)
(* on_activity, run on elliptics' threads in any order and at the same     *)
(* time, and the one that finds both flags set calls the user's callback.  *)
(*                                                                         *)
(* The handlers are modelled statement by statement, because what is at    *)
(* stake is that the mutex makes "set my flag, then look at both" safe.    *)
(***************************************************************************)
EXTENDS Naturals, Sequences, AddParts

CONSTANTS
  Calls,      \* asynchronous calls, each with a waiter of its own
  MaxGroups,  \* number of groups a request is sent to: res.size() <= MaxGroups
  MinWrites   \* MinWrites[c]: min_writes_ as the constructor of c's waiter received it

ASSUME MaxGroupsAssumption == MaxGroups \in Nat
ASSUME MinWritesAssumption == MinWrites \in [Calls -> Nat]

VARIABLES
  kind,       \* kind[c]: which add operation created the waiter, or "none"
  got,        \* got[c][p]: res.size() of part p's result, NoResult until then
  pc,         \* pc[c][p]: the next statement of part p's handler
  mutex,      \* mutex[c]: the part whose handler holds mutex_, or "free"
  completed,  \* completed[c][p]: log_completed and activity_completed
  result,     \* result[c]: result_
  answers     \* answers[c]: the arguments of the calls of callback_, in order

vars == <<kind, got, pc, mutex, completed, result, answers>>

NoResult == MaxGroups + 1

Steps == {"idle", "lock", "check", "mark", "handle", "unlock", "done"}
Inside == {"check", "mark", "handle", "unlock"}   \* between lock and unlock

TypeOK ==
  /\ kind \in [Calls -> Kinds \cup {"none"}]
  /\ got \in [Calls -> [Parts -> 0..NoResult]]
  /\ pc \in [Calls -> [Parts -> Steps]]
  /\ mutex \in [Calls -> Parts \cup {"free"}]
  /\ completed \in [Calls -> [Parts -> BOOLEAN]]
  /\ result \in [Calls -> BOOLEAN]
  /\ answers \in [Calls -> {<<>>, <<TRUE>>, <<FALSE>>}]

Init ==
  /\ kind = [c \in Calls |-> "none"]
  /\ got = [c \in Calls |-> [p \in Parts |-> NoResult]]
  /\ pc = [c \in Calls |-> [p \in Parts |-> "idle"]]
  /\ mutex = [c \in Calls |-> "free"]
  /\ completed = [c \in Calls |-> [p \in Parts |-> FALSE]]
  /\ result = [c \in Calls |-> TRUE]
  /\ answers = [c \in Calls |-> <<>>]

(* The caller creates the waiter and sends the requests.  The constructor's *)
(* flags say which parts this operation does not have.                      *)
Create(c, k) ==
  /\ kind[c] = "none"
  /\ kind' = [kind EXCEPT ![c] = k]
  /\ completed' = [completed EXCEPT ![c] = [p \in Parts |-> p \notin PartsOf(k)]]
  /\ UNCHANGED <<got, pc, mutex, result, answers>>

(* External: elliptics has an answer or a timeout from every group and one  *)
(* of its threads enters the handler; n groups have succeeded.              *)
Deliver(c, p, n) ==
  /\ p \in PartsOf(kind[c])
  /\ pc[c][p] = "idle"
  /\ got' = [got EXCEPT ![c][p] = n]
  /\ pc' = [pc EXCEPT ![c][p] = "lock"]
  /\ UNCHANGED <<kind, mutex, completed, result, answers>>

(* Mutant: the handlers do not take mutex_. *)
MutantLock(c, p) ==
  /\ pc[c][p] = "lock"
  /\ pc' = [pc EXCEPT ![c][p] = "check"]
  /\ UNCHANGED <<kind, got, mutex, completed, result, answers>>

(* boost::mutex::scoped_lock lock(mutex_) *)
Lock(c, p) ==
  /\ pc[c][p] = "lock"
  /\ mutex[c] = "free"
  /\ mutex' = [mutex EXCEPT ![c] = p]
  /\ pc' = [pc EXCEPT ![c][p] = "check"]
  /\ UNCHANGED <<kind, got, completed, result, answers>>

(* Mutant: the verdict of the last handler replaces the one before it. *)
MutantCheck(c, p) ==
  /\ pc[c][p] = "check"
  /\ result' = [result EXCEPT ![c] = got[c][p] >= MinWrites[c]]
  /\ pc' = [pc EXCEPT ![c][p] = "mark"]
  /\ UNCHANGED <<kind, got, mutex, completed, answers>>

(* if (res.size() < min_writes_) result_ = false *)
Check(c, p) ==
  /\ pc[c][p] = "check"
  /\ result' = [result EXCEPT ![c] = @ /\ ~(got[c][p] < MinWrites[c])]
  /\ pc' = [pc EXCEPT ![c][p] = "mark"]
  /\ UNCHANGED <<kind, got, mutex, completed, answers>>

(* log_completed = true, activity_completed = true *)
Mark(c, p) ==
  /\ pc[c][p] = "mark"
  /\ completed' = [completed EXCEPT ![c][p] = TRUE]
  /\ pc' = [pc EXCEPT ![c][p] = "handle"]
  /\ UNCHANGED <<kind, got, mutex, result, answers>>

(* Mutant: the handler answers without looking at the other part's flag. *)
MutantHandle(c, p) ==
  /\ pc[c][p] = "handle"
  /\ answers' = [answers EXCEPT ![c] = Append(@, result[c])]
  /\ pc' = [pc EXCEPT ![c][p] = "unlock"]
  /\ UNCHANGED <<kind, got, mutex, completed, result>>

(* handle(): the callback runs inside the critical section. *)
Handle(c, p) ==
  /\ pc[c][p] = "handle"
  /\ answers' = IF completed[c]["log"] /\ completed[c]["activity"]
                THEN [answers EXCEPT ![c] = Append(@, result[c])]
                ELSE answers
  /\ pc' = [pc EXCEPT ![c][p] = "unlock"]
  /\ UNCHANGED <<kind, got, mutex, completed, result>>

(* Mutant: a handler keeps the mutex when it has nothing to answer. *)
MutantUnlock(c, p) ==
  /\ pc[c][p] = "unlock"
  /\ mutex' = [mutex EXCEPT ![c] = IF answers[c] = <<>> THEN @ ELSE "free"]
  /\ pc' = [pc EXCEPT ![c][p] = "done"]
  /\ UNCHANGED <<kind, got, completed, result, answers>>

(* The end of the handler destroys the scoped_lock. *)
Unlock(c, p) ==
  /\ pc[c][p] = "unlock"
  /\ mutex' = [mutex EXCEPT ![c] = "free"]
  /\ pc' = [pc EXCEPT ![c][p] = "done"]
  /\ UNCHANGED <<kind, got, completed, result, answers>>

Handler(c, p) ==
  Lock(c, p) \/ Check(c, p) \/ Mark(c, p) \/ Handle(c, p) \/ Unlock(c, p)

(* Every call made has been answered and no handler is running. *)
Quiescent ==
  /\ \A c \in Calls : kind[c] # "none" /\ \A p \in PartsOf(kind[c]) : pc[c][p] = "done"
  /\ UNCHANGED vars

Next ==
  \/ \E c \in Calls, k \in Kinds : Create(c, k)
  \/ \E c \in Calls, p \in Parts :
       \/ \E n \in 0..MaxGroups : Deliver(c, p, n)
       \/ Handler(c, p)
  \/ Quiescent

(* elliptics answers every request, if only with a timeout, and its threads *)
(* run the handlers they have entered; the caller may never make a call.    *)
Fairness ==
  \A c \in Calls, p \in Parts :
    /\ WF_vars(\E n \in 0..MaxGroups : Deliver(c, p, n))
    /\ WF_vars(Handler(c, p))

Spec == Init /\ [][Next]_vars /\ Fairness
-----------------------------------------------------------------------------
Delivered(c) == \A p \in PartsOf(kind[c]) : got[c][p] # NoResult
Enough(c)    == \A p \in PartsOf(kind[c]) : got[c][p] >= MinWrites[c]

(* The callback is never called twice, never before every part of the call  *)
(* has its result, and its argument is the verdict on all of them: neither  *)
(* handler's verdict is lost, whichever of on_log and on_activity is last.  *)
AnsweredOnceInFull ==
  \A c \in Calls :
    /\ Len(answers[c]) <= 1
    /\ answers[c] # <<>> => Delivered(c) /\ answers[c] = <<Enough(c)>>

(* The waiter implements the promise of an add operation: each step of the  *)
(* handlers is a step of the contract or changes nothing the caller sees.   *)
Promise == INSTANCE Completion
Implements == Promise!Spec

(* Every call is answered: the waiter leaves no caller waiting, although a  *)
(* handler may have to wait for the mutex while the other one runs.         *)
EveryCallAnswered ==
  \A c \in Calls : kind[c] # "none" ~> answers[c] # <<>>
=============================================================================
