---------------------------- MODULE ActiveUsers ----------------------------
(***************************************************************************)
(* Who was active in a period of time: get_active_users, blocking and with *)
(* a callback, and for_active_users, of src/lib/provider_impl.cpp, while   *)
(* other clients go on adding activity.                                    *)
(*                                                                         *)
(* get_active_users asks elliptics once for all days of the period;        *)
(* for_active_users asks for one day, calls its callback with the users of *)
(* that day and only then asks for the next one.  A user is never removed  *)
(* from an index.                                                          *)
(***************************************************************************)
EXTENDS DayKeys

CONSTANTS
  Users,        \* users who may be active
  Calls,        \* calls of the three operations
  Times,        \* the times at which users are active
  Periods       \* the <<begin_time, end_time>> the calls are made with

ASSUME TimesAssumption == Times \subseteq AllTimes
ASSUME PeriodsAssumption == Periods \subseteq Times \X Times

VARIABLES
  index,      \* index[s]: users in the activity index of day s
  op,         \* op[c]: "get", "async_get", "for" once c has been made
  period,     \* period[c]: its arguments
  since,      \* history: since[c], the index when c's caller was last in control
  reply,      \* reply[c][i]: i-th day as "unasked", "pending", "failed" or "found"
  found,      \* found[c][i]: users read for the i-th day
  answer,     \* answer[c]: the sets handed to the caller, in order
  status      \* status[c]: "none", "asking", "answered" or "stopped" (by the
              \* callback of for_active_users)

vars == <<index, op, period, since, reply, found, answer, status>>

Days == 0..time_to_subkey(Modulus - 1)
Ops == {"get", "async_get", "for"}
Replies == {"unasked", "pending", "failed", "found"}
subkeys(c) == time_period_to_subkeys(period[c][1], period[c][2])
Positions(c) == 1..Len(subkeys(c))

(* The days of the request that is being made after n answers: one day for  *)
(* for_active_users, all of them otherwise.                                 *)
Asked(c, o, n) == IF o = "for" THEN {n + 1} \cap Positions(c) ELSE Positions(c)

TypeOK ==
  /\ index \in [Days -> SUBSET Users]
  /\ op \in [Calls -> Ops \cup {"none"}]
  /\ period \in [Calls -> Periods]
  /\ since \in [Calls -> [Days -> SUBSET Users]]
  /\ \A c \in Calls : reply[c] \in [Positions(c) -> Replies]
  /\ \A c \in Calls : found[c] \in [Positions(c) -> SUBSET Users]
  /\ answer \in [Calls -> Seq(SUBSET Users)]
  /\ \A c \in Calls : op[c] = "for" => Len(answer[c]) <= Len(subkeys(c))
  /\ \A c \in Calls : op[c] # "for" => Len(answer[c]) = IF status[c] = "answered" THEN 1 ELSE 0
  /\ status \in [Calls -> {"none", "asking", "answered", "stopped"}]

Init ==
  /\ index = [s \in Days |-> {}]
  /\ op = [c \in Calls |-> "none"]
  /\ period \in [Calls -> Periods]
  /\ since = [c \in Calls |-> index]
  /\ reply = [c \in Calls |-> [i \in Positions(c) |-> "unasked"]]
  /\ found = [c \in Calls |-> [i \in Positions(c) |-> {}]]
  /\ answer = [c \in Calls |-> <<>>]
  /\ status = [c \in Calls |-> "none"]

(* External: some client's add_activity for user u at time t. *)
Activity(u, t) ==
  /\ u \notin index[time_to_subkey(t)]
  /\ index' = [index EXCEPT ![time_to_subkey(t)] = @ \cup {u}]
  /\ UNCHANGED <<op, period, since, reply, found, answer, status>>

(* Mutant: for_active_users sends all its requests at once. *)
MutantAsk(c, o, n) ==
  reply' = [reply EXCEPT ![c] = [i \in Positions(c) |->
              IF n = 0 THEN "pending" ELSE reply[c][i]]]

(* find_any_indexes is sent for the days asked for. *)
Ask(c, o, n) ==
  reply' = [reply EXCEPT ![c] = [i \in Positions(c) |->
              IF i \in Asked(c, o, n) THEN "pending" ELSE reply[c][i]]]

(* The entry of an operation.  With no day, the loop of for_active_users    *)
(* ends before its first round.                                             *)
Call(c, o) ==
  /\ status[c] = "none"
  /\ op' = [op EXCEPT ![c] = o]
  /\ since' = [since EXCEPT ![c] = index]
  /\ Ask(c, o, 0)
  /\ status' = [status EXCEPT ![c] =
                  IF o = "for" /\ subkeys(c) = <<>> THEN "answered" ELSE "asking"]
  /\ UNCHANGED <<index, period, found, answer>>

(* External: the index of one of the days is read, or cannot be; the days   *)
(* of one request are on different nodes and read at different moments.     *)
Reply(c, i) ==
  /\ reply[c][i] = "pending"
  /\ \/ /\ reply' = [reply EXCEPT ![c][i] = "found"]
        /\ found' = [found EXCEPT ![c][i] = index[subkeys(c)[i]]]
     \/ reply' = [reply EXCEPT ![c][i] = "failed"] /\ UNCHANGED found
  /\ UNCHANGED <<index, op, period, since, answer, status>>

(* External: the request is complete.  Mutant: with an error it is not      *)
(* passed on.                                                               *)
MutantComplete(c) ==
  status[c] = "asking" /\ \A i \in Asked(c, op[c], Len(answer[c])) : reply[c][i] = "found"
Complete(c) ==
  status[c] = "asking" /\ \A i \in Asked(c, op[c], Len(answer[c])) : reply[c][i] # "pending"

(* Mutant: the set is not a new one in every round. *)
MutantActiveUsersFound(c) == UNION {found[c][i] : i \in Positions(c)}

(* The set built from the entries of the result; a request that failed has  *)
(* none, and its error is not looked at.                                    *)
ActiveUsersFound(c) == UNION {found[c][i] : i \in Asked(c, op[c], Len(answer[c]))}

(* get_active_users returns the set or calls its callback with it. *)
Answer(c) ==
  /\ Complete(c)
  /\ op[c] # "for"
  /\ answer' = [answer EXCEPT ![c] = Append(@, ActiveUsersFound(c))]
  /\ status' = [status EXCEPT ![c] = "answered"]
  /\ UNCHANGED <<index, op, period, since, reply, found>>

(* There is a day after the n-th.  Mutant: it is looked for only when the   *)
(* callback returns false.                                                  *)
MutantMore(c, n) == TRUE
More(c, n) == n < Len(subkeys(c))

(* A round of for_active_users: the callback is called with one day's set   *)
(* and tells whether to go on with the next day.                            *)
Round(c, goOn) ==
  /\ Complete(c)
  /\ op[c] = "for"
  /\ answer' = [answer EXCEPT ![c] = Append(@, ActiveUsersFound(c))]
  /\ IF goOn /\ More(c, Len(answer'[c]))
     THEN Ask(c, "for", Len(answer'[c])) /\ UNCHANGED status
     ELSE /\ status' = [status EXCEPT ![c] = IF goOn THEN "answered" ELSE "stopped"]
          /\ UNCHANGED reply
  /\ since' = [since EXCEPT ![c] = index]
  /\ UNCHANGED <<index, op, period, found>>

(* Every call is over. *)
Quiescent ==
  /\ \A c \in Calls : status[c] \in {"answered", "stopped"}
  /\ UNCHANGED vars

Next ==
  \/ \E u \in Users, t \in Times : Activity(u, t)
  \/ \E c \in Calls :
       \/ \E o \in Ops : Call(c, o)
       \/ \E i \in Positions(c) : Reply(c, i)
       \/ Answer(c)
       \/ \E goOn \in BOOLEAN : Round(c, goOn)
  \/ Quiescent

(* elliptics answers every request, if only with a timeout, and the thread  *)
(* that waits for it or is called back runs.                                *)
Fairness ==
  \A c \in Calls :
    /\ WF_vars(\E i \in Positions(c) : Reply(c, i))
    /\ WF_vars(Answer(c) \/ \E goOn \in BOOLEAN : Round(c, goOn))

Spec == Init /\ [][Next]_vars /\ Fairness
-----------------------------------------------------------------------------
(* The set in which the users of the i-th day are handed out. *)
SetOf(c, i) == IF op[c] = "for" THEN i ELSE 1

(* The sets handed out by a step miss no one. *)
SetsAreComplete ==
  \A c \in Calls : \A i \in Positions(c) :
    LET j == SetOf(c, i)
    IN j \in DOMAIN answer'[c] \ DOMAIN answer[c] /\ reply[c][i] # "failed"
         => since[c][subkeys(c)[i]] \subseteq answer'[c][j]

(* No active user is missed: a set handed to the caller contains everyone   *)
(* who was in the index of one of its days when the caller was last in      *)
(* control - when it made the call, or when the callback for the day before *)
(* returned, so that a caller of for_active_users finds on later days what  *)
(* its own callback has waited for - unless the read of that day failed.    *)
NoActiveUserMissed == [][SetsAreComplete]_vars

(* Only active users are reported: everyone in a set was active on a day    *)
(* that the set stands for, at a time within the period's days; the sets of *)
(* for_active_users are one for each day, in order.                         *)
OnlyActiveUsers ==
  \A c \in Calls : \A j \in DOMAIN answer[c] : \A u \in answer[c][j] :
    \E i \in Positions(c) : SetOf(c, i) = j /\ u \in index[subkeys(c)[i]]

(* Every call ends, whether the requests succeed or fail. *)
EveryQueryAnswered ==
  \A c \in Calls : status[c] # "none" ~> status[c] \in {"answered", "stopped"}
=============================================================================
