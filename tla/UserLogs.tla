------------------------------ MODULE UserLogs ------------------------------
(***************************************************************************)
(* Reading a user's logs for a period of time: the blocking get_user_logs, *)
(* the one with a callback (a chain of on_user_log handlers over the list  *)
(* of results) and for_user_logs, of src/lib/provider_impl.cpp, while      *)
(* other clients go on appending.                                          *)
(*                                                                         *)
(* All of them first send a read of every day's file and then take the     *)
(* results in the order of the days, whatever the order of the replies.    *)
(* A log file only grows, so its content is modelled by its number of      *)
(* records; 0 is a file that is empty.                                     *)
(***************************************************************************)
EXTENDS DayKeys

CONSTANTS
  Calls,        \* calls of the three operations for one user
  Times,        \* the times the bounds of a period and the records may have
  Periods,      \* the <<begin_time, end_time>> the calls are made with
  MaxRecords    \* bound: no log file grows beyond this many records

ASSUME TimesAssumption == Times \subseteq AllTimes
ASSUME PeriodsAssumption == Periods \subseteq Times \X Times
ASSUME MaxRecordsAssumption == MaxRecords \in Nat

VARIABLES
  files,      \* files[s]: number of records in the user's file of day s
  op,         \* op[c]: "get", "async_get", "for" once c has been made
  period,     \* period[c]: its arguments
  started,    \* history: started[c], the files when c was made
  reply,      \* reply[c][i]: content read for the i-th day, Pending or Failed
  taken,      \* taken[c]: how many results have been taken off the list
  data,       \* data[c]: the contents gathered, or passed to the callback
  status      \* status[c]: "none", "reading", "answered", "stopped" (by the
              \* callback of for_user_logs) or "undefined"

vars == <<files, op, period, started, reply, taken, data, status>>

Days == 0..time_to_subkey(Modulus - 1)
Ops == {"get", "async_get", "for"}
Pending == -1
Failed == -2        \* an error, a timeout or no such file
Results == {Pending, Failed} \cup 0..MaxRecords
subkeys(c) == time_period_to_subkeys(period[c][1], period[c][2])

TypeOK ==
  /\ files \in [Days -> 0..MaxRecords]
  /\ op \in [Calls -> Ops \cup {"none"}]
  /\ period \in [Calls -> Periods]
  /\ started \in [Calls -> [Days -> 0..MaxRecords]]
  /\ reply \in [Calls -> Seq(Results)]
  /\ \A c \in Calls : status[c] # "none" => Len(reply[c]) = Len(subkeys(c))
  /\ taken \in [Calls -> Nat]
  /\ \A c \in Calls : taken[c] <= Len(subkeys(c))
  /\ data \in [Calls -> Seq(Days \X (1..MaxRecords))]
  /\ status \in [Calls -> {"none", "reading", "answered", "stopped", "undefined"}]

Init ==
  /\ files = [s \in Days |-> 0]
  /\ op = [c \in Calls |-> "none"]
  /\ period \in [Calls -> Periods]
  /\ started = [c \in Calls |-> files]
  /\ reply = [c \in Calls |-> <<>>]
  /\ taken = [c \in Calls |-> 0]
  /\ data = [c \in Calls |-> <<>>]
  /\ status = [c \in Calls |-> "none"]

(* External: some client's append to the file of a record's day. *)
Add(t) ==
  /\ files[time_to_subkey(t)] < MaxRecords
  /\ files' = [files EXCEPT ![time_to_subkey(t)] = @ + 1]
  /\ UNCHANGED <<op, period, started, reply, taken, data, status>>

(* The entry of an operation: a read for every day of the period.  With no  *)
(* day the blocking operations are finished, and the asynchronous one takes *)
(* the front of an empty list, which is undefined.                          *)
Call(c, o) ==
  /\ status[c] = "none"
  /\ op' = [op EXCEPT ![c] = o]
  /\ started' = [started EXCEPT ![c] = files]
  /\ reply' = [reply EXCEPT ![c] = [i \in 1..Len(subkeys(c)) |-> Pending]]
  /\ status' = [status EXCEPT ![c] = IF subkeys(c) # <<>> THEN "reading"
                                     ELSE IF o = "async_get" THEN "undefined" ELSE "answered"]
  /\ UNCHANGED <<files, period, taken, data>>

(* External: read_latest answers with the file as it is, or fails. *)
Reply(c, i) ==
  /\ status[c] \in {"reading", "stopped"}
  /\ reply[c][i] = Pending
  /\ \E r \in {files[subkeys(c)[i]], Failed} : reply' = [reply EXCEPT ![c][i] = r]
  /\ UNCHANGED <<files, op, period, started, taken, data, status>>

(* The result on_user_log takes is the first of the list it shares with the *)
(* handlers to come.  Mutant: the last one.                                 *)
MutantFront(c) == Len(subkeys(c)) - taken[c]
Front(c) == taken[c] + 1

(* Its handler runs, or get() returns.  Mutant: not if it is an error. *)
MutantReady(c) == reply[c][Front(c)] \notin {Pending, Failed}
Ready(c) == reply[c][Front(c)] # Pending

(* There is something to gather.  Mutant: empty files are not skipped. *)
MutantFound(r) == r # Failed
Found(r) == r > 0

(* There is no result left.  Mutant: or this one had nothing. *)
MutantLast(c) == Front(c) = Len(subkeys(c)) \/ reply[c][Front(c)] <= 0
Last(c) == taken[c] + 1 = Len(subkeys(c))

(* on_user_log, or one round of the loops: a file that is empty or could    *)
(* not be read is skipped; after the last one the callback is called or the *)
(* vector returned.                                                         *)
Gather(c) ==
  LET r == reply[c][Front(c)]
  IN /\ taken' = [taken EXCEPT ![c] = @ + 1]
     /\ data' = IF Found(r) THEN [data EXCEPT ![c] = Append(@, <<subkeys(c)[Front(c)], r>>)]
                ELSE data
     /\ UNCHANGED <<files, op, period, started, reply>>

Take(c) ==
  /\ status[c] = "reading"
  /\ Ready(c)
  /\ Gather(c)
  /\ status' = [status EXCEPT ![c] = IF Last(c) THEN "answered" ELSE @]

(* The callback of for_user_logs is called with a file and returns false.   *)
TakeLast(c) ==
  /\ status[c] = "reading"
  /\ op[c] = "for"
  /\ Ready(c) /\ Found(reply[c][Front(c)])
  /\ Gather(c)
  /\ status' = [status EXCEPT ![c] = "stopped"]

(* Every call is over. *)
Quiescent ==
  /\ \A c \in Calls : status[c] \notin {"none", "reading"}
  /\ UNCHANGED vars

Next ==
  \/ \E t \in Times : Add(t)
  \/ \E c \in Calls :
       \/ \E o \in Ops : Call(c, o)
       \/ \E i \in DOMAIN reply[c] : Reply(c, i)
       \/ Take(c)
       \/ TakeLast(c)
  \/ Quiescent

(* elliptics answers every read, if only with a timeout, and the thread     *)
(* that takes the results (the caller's or elliptics') runs.                *)
Fairness ==
  \A c \in Calls :
    /\ WF_vars(\E i \in DOMAIN reply[c] : Reply(c, i))
    /\ WF_vars(Take(c))

Spec == Init /\ [][Next]_vars /\ Fairness
-----------------------------------------------------------------------------
FailedOn(c, s) == \E i \in DOMAIN reply[c] : subkeys(c)[i] = s /\ reply[c][i] = Failed

(* A finished read misses no earlier record: for every time t of the period *)
(* the records of t's day that were there when the call was made are in the *)
(* answer, unless the read of that day failed.  The records of the last     *)
(* day are included, whatever the time of day at which the period ends.     *)
SeesEarlierRecords ==
  \A c \in Calls, t \in Times :
    LET s == time_to_subkey(t)
    IN /\ status[c] = "answered"
       /\ period[c][1] <= t /\ t <= period[c][2]
       /\ started[c][s] > 0
       => FailedOn(c, s) \/ \E j \in DOMAIN data[c] :
                               data[c][j][1] = s /\ data[c][j][2] >= started[c][s]

(* The files gathered are of the days of the period, each day's at most     *)
(* once and in the order of the days, although the replies come in any      *)
(* order and the handlers run on any thread.                                *)
DaysInOrder ==
  \A c \in Calls : \A j \in DOMAIN data[c] :
    LET day == data[c][j][1]
    IN /\ time_to_subkey(period[c][1]) <= day
       /\ day <= time_to_subkey(period[c][2])
       /\ j > 1 => data[c][j - 1][1] < day

(* The three operations agree: what each has gathered are exactly the       *)
(* non-empty files among the results it has taken, once each in the order   *)
(* of the reads, which is that of the days; answered, it has taken all of   *)
(* them.                                                                    *)
GathersTheResults ==
  \A c \in Calls :
    LET read == {<<subkeys(c)[i], reply[c][i]>> : i \in 1..taken[c]}
    IN /\ {data[c][j] : j \in DOMAIN data[c]} = {r \in read : r[2] > 0}
       /\ \A j, k \in DOMAIN data[c] : j < k => data[c][j][1] < data[c][k][1]
       /\ status[c] = "answered" => taken[c] = Len(subkeys(c))

(* An asynchronous call calls its callback, a blocking one returns. *)
EveryReadAnswered ==
  \A c \in Calls : status[c] # "none" ~> status[c] \in {"answered", "stopped"}

(* "callback - result callback which accepts vector of user's daily logs    *)
(* for specified period" (provider.h): no call with a period becomes        *)
(* undefined instead of reaching its callback.                              *)
CallbackForAnyPeriod == \A c \in Calls : status[c] # "undefined"
=============================================================================
