------------------------- MODULE ActiveUsersProofs --------------------------
(***************************************************************************)
(* For any users, calls, periods and type of times in which a day fits:    *)
(* the sets of active users that get_active_users and for_active_users     *)
(* hand out miss no one and name no one else, while clients go on adding   *)
(* activity and the days of a request are read at different moments.       *)
(***************************************************************************)
EXTENDS ActiveUsers, SequenceTheorems, TLAPS

(* Every call has its replies and sets, whatever its period. *)
Functions ==
  /\ reply = [c \in Calls |-> reply[c]]
  /\ found = [c \in Calls |-> found[c]]

(* What is read or remembered of an index was in it, and nobody leaves it.  *)
Genuine(c) ==
  /\ \A s \in Days : since[c][s] \subseteq index[s]
  /\ \A i \in Positions(c) : found[c][i] \subseteq index[subkeys(c)[i]]

(* A call that asks has sent its request, for one day more in the case of   *)
(* for_active_users; a day read since then has those who were active before.*)
Current(c) ==
  status[c] = "asking" => \A i \in Asked(c, op[c], Len(answer[c])) :
    /\ reply[c][i] # "unasked"
    /\ reply[c][i] = "found" => since[c][subkeys(c)[i]] \subseteq found[c][i]

Progress(c) ==
  /\ op[c] = "none" <=> status[c] = "none"
  /\ status[c] = "none" => answer[c] = <<>>
  /\ status[c] = "asking" /\ op[c] = "for" => More(c, Len(answer[c]))

(* Everyone in the j-th set was active on a day it stands for. *)
Reported(c, j) ==
  \A u \in answer[c][j] :
    \E i \in Positions(c) : SetOf(c, i) = j /\ u \in index[subkeys(c)[i]]

CallInv(c) ==
  Genuine(c) /\ Current(c) /\ Progress(c) /\ \A j \in DOMAIN answer[c] : Reported(c, j)

IInv == TypeOK /\ Functions /\ \A c \in Calls : CallInv(c)
-----------------------------------------------------------------------------
(* The subkeys of a call are days, in whatever order its period's ends are. *)
LEMMA SubkeysOfCall ==
  ASSUME NEW c \in Calls, period[c] \in Periods
  PROVE  /\ Len(subkeys(c)) \in Nat
         /\ subkeys(c) = <<>> <=> Len(subkeys(c)) = 0
         /\ \A i \in Positions(c) : subkeys(c)[i] \in Days
<1> DEFINE b == time_to_subkey(period[c][1])
           e == time_to_subkey(period[c][2])
           last == time_to_subkey(Modulus - 1)
           n == IF e < b THEN 0 ELSE e + 1 - b
<1>1. period[c][1] \in AllTimes /\ period[c][2] \in AllTimes
  BY PeriodsAssumption, TimesAssumption
<1>2. b \in Nat /\ e \in Nat /\ last \in Nat /\ e <= last /\ e + 1 < Modulus
  <2>1. \A t \in AllTimes : time_to_subkey(t) \in Nat /\ time_to_subkey(t) + 1 < Modulus
    BY ModulusAssumption DEF AllTimes, time_to_subkey, SECONDS_IN_DAY
  <2>2. \A t, u \in AllTimes : t <= u => time_to_subkey(t) <= time_to_subkey(u)
    BY DEF AllTimes, time_to_subkey, SECONDS_IN_DAY
  <2>3. Modulus - 1 \in AllTimes /\ period[c][2] <= Modulus - 1
    BY <1>1, ModulusAssumption DEF AllTimes
  <2> QED
    BY <1>1, <2>1, <2>2, <2>3
<1>3. (e + 1) % Modulus = e + 1
  BY <1>2, ModulusAssumption
<1>4. subkeys(c) = [i \in 1..(e + 1 - b) |-> b + i - 1]
  <2>1. ASSUME NEW x \in AllTimes, NEW y \in AllTimes,
               time_to_subkey(x) \in Nat, time_to_subkey(y) \in Nat,
               (time_to_subkey(y) + 1) % Modulus = time_to_subkey(y) + 1
        PROVE  time_period_to_subkeys(x, y)
                 = [i \in 1..(time_to_subkey(y) + 1 - time_to_subkey(x)) |-> time_to_subkey(x) + i - 1]
    BY <2>1 DEF time_period_to_subkeys, time_to_subkey
  <2> QED
    BY <1>1, <1>2, <1>3, <2>1 DEF subkeys
<1> HIDE DEF b, e, last
<1>5. n \in Nat /\ 1..(e + 1 - b) = 1..n /\ \A i \in 1..n : b + i - 1 \in 0..last
  BY <1>2
<1>6. \A i \in 1..n : subkeys(c)[i] \in 0..last
  BY <1>4, <1>5
<1>7. subkeys(c) \in Seq(Nat) /\ Len(subkeys(c)) = n
  <2>1. subkeys(c) \in [1..n -> Nat]
    BY <1>2, <1>4, <1>5
  <2> HIDE DEF n
  <2> QED
    BY <1>5, <2>1
<1>8. subkeys(c) = <<>> <=> n = 0
  BY <1>5, <1>7, EmptySeq
<1>9. Days = 0..last
  BY DEF Days, last
<1> QED
  BY <1>5, <1>6, <1>7, <1>8, <1>9 DEF Positions

(* Before the first query there is nothing to tell. *)
LEMMA InitInv == Init => IInv
<1> SUFFICES ASSUME Init PROVE IInv
  OBVIOUS
<1>1. \A c \in Calls : Len(subkeys(c)) \in Nat
  BY SubkeysOfCall DEF Init
<1>2. \A c \in Calls : answer[c] = <<>> /\ Len(answer[c]) = 0
  BY DEF Init
<1>3. TypeOK
  BY <1>1, <1>2, EmptySeq DEF Init, TypeOK, Ops, Replies
<1>4. Functions
  BY DEF Init, Functions
<1>5. \A c \in Calls : CallInv(c)
  BY <1>2 DEF Init, CallInv, Genuine, Current, Progress
<1> QED
  BY <1>3, <1>4, <1>5 DEF IInv

(* A call at which a step leaves everything as it is keeps its invariant,   *)
(* whoever is added to the indexes.                                         *)
LEMMA Undisturbed ==
  ASSUME NEW d \in Calls, CallInv(d), period[d] \in Periods,
         UNCHANGED <<op[d], period[d], since[d], reply[d], found[d], answer[d], status[d]>>,
         \A s \in Days : index[s] \subseteq index'[s]
  PROVE  CallInv(d)'
<1>1. subkeys(d)' = subkeys(d) /\ Positions(d)' = Positions(d)
  BY DEF subkeys, Positions
<1>2. \A i \in Positions(d) : subkeys(d)[i] \in Days
  BY SubkeysOfCall
<1>3. Genuine(d)'
  BY <1>1, <1>2 DEF CallInv, Genuine
<1>4. Current(d)' /\ Progress(d)'
  BY <1>1 DEF CallInv, Current, Progress, Asked, More
<1>5. \A j : SetOf(d, j)' = SetOf(d, j)
  BY DEF SetOf
<1>6. ASSUME NEW j \in DOMAIN answer[d] PROVE Reported(d, j)'
  BY <1>1, <1>2, <1>5 DEF CallInv, Reported
<1> QED
  BY <1>3, <1>4, <1>6 DEF CallInv

(* Someone becomes active: nobody leaves an index. *)
LEMMA ActivityStep ==
  ASSUME IInv, NEW u \in Users, NEW t \in Times, Activity(u, t)
  PROVE  IInv'
<1> DEFINE s == time_to_subkey(t)
<1>1. /\ UNCHANGED <<op, period, since, reply, found, answer, status>>
      /\ index' = [index EXCEPT ![s] = @ \cup {u}]
  BY DEF Activity
<1>2. TypeOK /\ index \in [Days -> SUBSET Users]
  BY DEF IInv, TypeOK
<1>3. \A c \in Calls : subkeys(c)' = subkeys(c) /\ Positions(c)' = Positions(c)
  BY <1>1 DEF subkeys, Positions
<1> HIDE DEF s
<1>4. index' \in [Days -> SUBSET Users] /\ \A d \in Days : index[d] \subseteq index'[d]
  BY <1>1, <1>2
<1>5. TypeOK' /\ Functions'
  BY <1>1, <1>2, <1>3, <1>4 DEF IInv, TypeOK, Functions
<1> QED
  BY <1>1, <1>2, <1>4, <1>5, Undisturbed DEF IInv, TypeOK

(* A query begins: what is in the indexes then is what it must find. *)
LEMMA CallStep ==
  ASSUME IInv, NEW c \in Calls, NEW o \in Ops, Call(c, o)
  PROVE  IInv'
<1> DEFINE asks == [i \in Positions(c) |-> IF i \in Asked(c, o, 0) THEN "pending" ELSE reply[c][i]]
           st == IF o = "for" /\ subkeys(c) = <<>> THEN "answered" ELSE "asking"
<1>1. /\ status[c] = "none" /\ UNCHANGED <<index, period, found, answer>>
      /\ op' = [op EXCEPT ![c] = o] /\ since' = [since EXCEPT ![c] = index]
      /\ reply' = [reply EXCEPT ![c] = asks] /\ status' = [status EXCEPT ![c] = st]
  BY DEF Call, Ask
<1>2. TypeOK /\ Functions /\ CallInv(c) /\ \A d \in Calls : period[d] \in Periods
  BY DEF IInv, TypeOK
<1>3. \A d \in Calls : subkeys(d)' = subkeys(d) /\ Positions(d)' = Positions(d)
  BY <1>1 DEF subkeys, Positions
<1>4. answer[c] = <<>> /\ Len(answer[c]) = 0
  BY <1>1, <1>2 DEF CallInv, Progress
<1>5. asks \in [Positions(c) -> Replies] /\ \A i \in Asked(c, o, 0) : asks[i] = "pending"
  BY <1>2 DEF TypeOK, Replies, Asked
<1>6. /\ Len(subkeys(c)) \in Nat /\ (subkeys(c) = <<>> <=> Len(subkeys(c)) = 0)
      /\ \A i \in Positions(c) : subkeys(c)[i] \in Days
  BY <1>2, SubkeysOfCall
<1>7. /\ reply'[c] = asks /\ since'[c] = index /\ op'[c] = o /\ status'[c] = st
      /\ \A d \in Calls : d # c =>
           UNCHANGED <<op[d], period[d], since[d], reply[d], found[d], answer[d], status[d]>>
  BY <1>1, <1>2 DEF TypeOK, Functions
<1>8. st \in {"asking", "answered"} /\ (st = "answered" => o = "for")
  OBVIOUS
<1> HIDE DEF asks
<1>9. TypeOK'
  <2>1. /\ op' \in [Calls -> Ops \cup {"none"}] /\ since' \in [Calls -> [Days -> SUBSET Users]]
        /\ status' \in [Calls -> {"none", "asking", "answered", "stopped"}]
    BY <1>1, <1>2, <1>8 DEF TypeOK
  <2>2. \A d \in Calls : reply'[d] \in [Positions(d) -> Replies]
    BY <1>2, <1>5, <1>7 DEF TypeOK
  <2>3. /\ \A d \in Calls : op'[d] = "for" => Len(answer[d]) <= Len(subkeys(d))
        /\ \A d \in Calls : op'[d] # "for" => Len(answer[d]) = IF status'[d] = "answered" THEN 1 ELSE 0
    BY <1>2, <1>4, <1>6, <1>7, <1>8 DEF TypeOK
  <2> QED
    BY <1>1, <1>2, <1>3, <2>1, <2>2, <2>3 DEF TypeOK
<1>10. Functions'
  BY <1>1, <1>2 DEF Functions
<1>11. CallInv(c)'
  <2>1. Genuine(c)'
    BY <1>1, <1>2, <1>3, <1>7 DEF CallInv, Genuine
  <2>2. Current(c)'
    <3>1. Asked(c, op[c], Len(answer[c]))' = Asked(c, o, 0)
      BY <1>1, <1>3, <1>4, <1>7 DEF Asked
    <3> QED
      BY <1>5, <1>7, <3>1 DEF Current
  <2>3. Progress(c)'
    BY <1>1, <1>3, <1>4, <1>6, <1>7, <1>8 DEF Progress, More, Ops
  <2>4. DOMAIN answer'[c] = {}
    BY <1>1, <1>4
  <2> QED
    BY <2>1, <2>2, <2>3, <2>4 DEF CallInv
<1>12. \A d \in Calls : CallInv(d)'
  BY <1>1, <1>2, <1>7, <1>11, Undisturbed DEF IInv
<1> QED
  BY <1>9, <1>10, <1>12 DEF IInv

(* A day is answered with its index as it is, or fails. *)
LEMMA ReplyStep ==
  ASSUME IInv, NEW c \in Calls, NEW i \in Positions(c), Reply(c, i)
  PROVE  IInv'
<1>1. UNCHANGED <<index, op, period, since, answer, status>>
  BY DEF Reply
<1>2. TypeOK /\ Functions /\ CallInv(c) /\ \A d \in Calls : period[d] \in Periods
  BY DEF IInv, TypeOK
<1>3. \A d \in Calls : subkeys(d)' = subkeys(d) /\ Positions(d)' = Positions(d)
  BY <1>1 DEF subkeys, Positions
<1>4. subkeys(c)[i] \in Days /\ index[subkeys(c)[i]] \subseteq Users
  BY <1>2, SubkeysOfCall DEF TypeOK
<1>5. PICK r \in {"found", "failed"} :
        /\ reply' = [reply EXCEPT ![c][i] = r]
        /\ \/ r = "found" /\ found' = [found EXCEPT ![c][i] = index[subkeys(c)[i]]]
           \/ r = "failed" /\ found' = found
  BY DEF Reply
<1>6. /\ \A d \in Calls : d # c => reply'[d] = reply[d] /\ found'[d] = found[d]
      /\ \A k \in Positions(c) : k # i => reply'[c][k] = reply[c][k] /\ found'[c][k] = found[c][k]
      /\ reply'[c][i] = r /\ (r = "found" => found'[c][i] = index[subkeys(c)[i]])
      /\ (r = "failed" => found'[c][i] = found[c][i])
  BY <1>2, <1>5 DEF TypeOK, Functions
<1>7. Functions'
  BY <1>2, <1>5 DEF Functions
<1>8. /\ reply'[c] \in [Positions(c) -> Replies] /\ found'[c] \in [Positions(c) -> SUBSET Users]
  BY <1>2, <1>4, <1>5 DEF TypeOK, Functions, Replies
<1>9. TypeOK'
  BY <1>1, <1>2, <1>3, <1>6, <1>8 DEF TypeOK
<1>10. CallInv(c)'
  <2>1. Genuine(c)'
    BY <1>1, <1>2, <1>3, <1>4, <1>6 DEF CallInv, Genuine
  <2>2. Asked(c, op[c], Len(answer[c]))' = Asked(c, op[c], Len(answer[c]))
    BY <1>1, <1>3 DEF Asked
  <2>3. Current(c)'
    BY <1>1, <1>2, <1>3, <1>4, <1>6, <2>2 DEF CallInv, Current, Genuine, Asked
  <2>4. Progress(c)' /\ \A j \in DOMAIN answer[c] : Reported(c, j)'
    BY <1>1, <1>2, <1>3 DEF CallInv, Progress, More, Reported, SetOf
  <2> QED
    BY <1>1, <2>1, <2>3, <2>4 DEF CallInv
<1>11. \A d \in Calls : CallInv(d)'
  BY <1>1, <1>2, <1>6, <1>10, Undisturbed DEF IInv
<1> QED
  BY <1>7, <1>9, <1>11 DEF IInv

(* What a request that is complete adds to the answer: the users of its     *)
(* days, in a set that stands for them.                                     *)
LEMMA HandedOut ==
  ASSUME IInv, NEW c \in Calls, Complete(c),
         answer' = [answer EXCEPT ![c] = Append(@, ActiveUsersFound(c))]
  PROVE  LET n == Len(answer[c])
         IN /\ answer' \in [Calls -> Seq(SUBSET Users)]
            /\ \A d \in Calls : d # c => answer'[d] = answer[d]
            /\ n \in Nat /\ DOMAIN answer[c] = 1..n
            /\ Len(answer'[c]) = n + 1 /\ DOMAIN answer'[c] = 1..(n + 1)
            /\ answer'[c][n + 1] = ActiveUsersFound(c)
            /\ \A j \in 1..n : answer'[c][j] = answer[c][j]
            /\ op[c] # "for" => n = 0
            /\ op[c] = "for" => n + 1 \in Positions(c)
<1> DEFINE n == Len(answer[c])
           A == ActiveUsersFound(c)
<1>1. TypeOK /\ Progress(c) /\ status[c] = "asking"
  BY DEF IInv, CallInv, Complete
<1>2. answer[c] \in Seq(SUBSET Users) /\ A \in SUBSET Users
  BY <1>1 DEF TypeOK, ActiveUsersFound, Asked
<1> HIDE DEF A
<1>3. /\ Append(answer[c], A) \in Seq(SUBSET Users)
      /\ n \in Nat /\ DOMAIN answer[c] = 1..n
      /\ Len(Append(answer[c], A)) = n + 1 /\ DOMAIN Append(answer[c], A) = 1..(n + 1)
      /\ Append(answer[c], A)[n + 1] = A
      /\ \A j \in 1..n : Append(answer[c], A)[j] = answer[c][j]
  BY <1>2, LenProperties
<1>4. answer' = [answer EXCEPT ![c] = Append(answer[c], A)]
  BY DEF A
<1>5. answer'[c] = Append(answer[c], A) /\ \A d \in Calls : d # c => answer'[d] = answer[d]
  BY <1>1, <1>4 DEF TypeOK
<1>6. answer' \in [Calls -> Seq(SUBSET Users)]
  BY <1>1, <1>3, <1>4 DEF TypeOK
<1>7. op[c] # "for" => n = 0
  BY <1>1 DEF TypeOK
<1>8. op[c] = "for" => n + 1 \in Positions(c)
  <2>1. Len(subkeys(c)) \in Nat
    BY <1>1, SubkeysOfCall DEF TypeOK
  <2> QED
    BY <1>1, <1>3, <2>1 DEF Progress, More, Positions
<1> QED
  BY <1>3, <1>5, <1>6, <1>7, <1>8 DEF A

(* Nobody in it is invented. *)
LEMMA ReportedKept ==
  ASSUME IInv, NEW c \in Calls, Complete(c), UNCHANGED <<index, op, period>>,
         answer' = [answer EXCEPT ![c] = Append(@, ActiveUsersFound(c))]
  PROVE  \A j \in DOMAIN answer'[c] : Reported(c, j)'
<1> DEFINE n == Len(answer[c])
<1>1. \A j \in DOMAIN answer[c] : Reported(c, j)
  BY DEF IInv, CallInv
<1>2. subkeys(c)' = subkeys(c) /\ Positions(c)' = Positions(c) /\ \A i : SetOf(c, i)' = SetOf(c, i)
  BY DEF subkeys, Positions, SetOf
<1>3. \A u \in ActiveUsersFound(c) :
        \E i \in Positions(c) : SetOf(c, i) = n + 1 /\ u \in index[subkeys(c)[i]]
  <2>1. \A i \in Asked(c, op[c], n) : i \in Positions(c) /\ SetOf(c, i) = n + 1
    <3>1. op[c] # "for" => n = 0
      BY HandedOut
    <3> HIDE DEF n
    <3> QED
      BY <3>1 DEF Asked, SetOf
  <2>2. Genuine(c)
    BY DEF IInv, CallInv
  <2> QED
    BY <2>1, <2>2 DEF ActiveUsersFound, Genuine
<1>4. /\ DOMAIN answer[c] = 1..n /\ DOMAIN answer'[c] = 1..(n + 1) /\ n \in Nat
      /\ answer'[c][n + 1] = ActiveUsersFound(c)
      /\ \A j \in 1..n : answer'[c][j] = answer[c][j]
  BY HandedOut
<1> HIDE DEF n
<1> SUFFICES ASSUME NEW j \in DOMAIN answer'[c], NEW u \in answer'[c][j]
             PROVE  \E i \in Positions(c) : SetOf(c, i) = j /\ u \in index[subkeys(c)[i]]
  BY <1>2 DEF Reported
<1>5. CASE j = n + 1
  BY <1>3, <1>4, <1>5
<1>6. CASE j \in 1..n
  BY <1>1, <1>4, <1>6 DEF Reported
<1> QED
  BY <1>4, <1>5, <1>6

(* The sets are handed out when every day is answered. *)
LEMMA AnswerStep ==
  ASSUME IInv, NEW c \in Calls, Answer(c)
  PROVE  IInv'
<1>1. /\ Complete(c) /\ op[c] # "for" /\ UNCHANGED <<index, op, period, since, reply, found>>
      /\ answer' = [answer EXCEPT ![c] = Append(@, ActiveUsersFound(c))]
      /\ status' = [status EXCEPT ![c] = "answered"]
  BY DEF Answer
<1>2. TypeOK /\ Functions /\ CallInv(c) /\ \A d \in Calls : period[d] \in Periods
  BY DEF IInv, TypeOK
<1>3. \A d \in Calls : subkeys(d)' = subkeys(d) /\ Positions(d)' = Positions(d)
  BY <1>1 DEF subkeys, Positions
<1>4. /\ answer' \in [Calls -> Seq(SUBSET Users)] /\ Len(answer'[c]) = 1
      /\ \A d \in Calls : d # c => answer'[d] = answer[d]
  <2>1. Len(answer[c]) = 0 /\ Len(answer'[c]) = Len(answer[c]) + 1
    BY <1>1, HandedOut
  <2>2. answer' \in [Calls -> Seq(SUBSET Users)] /\ \A d \in Calls : d # c => answer'[d] = answer[d]
    BY <1>1, HandedOut
  <2> QED
    BY <2>1, <2>2
<1>5. status[c] = "asking" /\ status'[c] = "answered" /\ \A d \in Calls : d # c => status'[d] = status[d]
  BY <1>1, <1>2 DEF Complete, TypeOK
<1>6. TypeOK'
  <2>1. status' \in [Calls -> {"none", "asking", "answered", "stopped"}]
    BY <1>1, <1>2 DEF TypeOK
  <2>2. /\ \A d \in Calls : op[d] = "for" => Len(answer'[d]) <= Len(subkeys(d))
        /\ \A d \in Calls : op[d] # "for" => Len(answer'[d]) = IF status'[d] = "answered" THEN 1 ELSE 0
    BY <1>1, <1>2, <1>4, <1>5 DEF TypeOK
  <2> QED
    BY <1>1, <1>2, <1>3, <1>4, <2>1, <2>2 DEF TypeOK
<1>7. Functions'
  BY <1>1, <1>2 DEF Functions
<1>8. CallInv(c)'
  <2>1. Genuine(c)' /\ Current(c)' /\ Progress(c)'
    BY <1>1, <1>2, <1>3, <1>5 DEF CallInv, Genuine, Current, Progress
  <2> QED
    BY <1>1, <2>1, ReportedKept DEF CallInv
<1> QED
  BY <1>1, <1>2, <1>4, <1>5, <1>6, <1>7, <1>8, Undisturbed DEF IInv

(* A callback returns, and the next day is asked for, or not. *)
LEMMA RoundStep ==
  ASSUME IInv, NEW c \in Calls, NEW goOn \in BOOLEAN, Round(c, goOn)
  PROVE  IInv'
<1> DEFINE n == Len(answer[c])
           asks == [i \in Positions(c) |-> IF i \in Asked(c, "for", n + 1) THEN "pending" ELSE reply[c][i]]
<1>1. /\ Complete(c) /\ op[c] = "for" /\ UNCHANGED <<index, op, period, found>>
      /\ answer' = [answer EXCEPT ![c] = Append(@, ActiveUsersFound(c))]
      /\ since' = [since EXCEPT ![c] = index]
  BY DEF Round
<1>2. TypeOK /\ Functions /\ CallInv(c) /\ \A d \in Calls : period[d] \in Periods
  BY DEF IInv, TypeOK
<1>3. \A d \in Calls : subkeys(d)' = subkeys(d) /\ Positions(d)' = Positions(d)
  BY <1>1 DEF subkeys, Positions
<1>4. /\ answer' \in [Calls -> Seq(SUBSET Users)] /\ n \in Nat /\ Len(answer'[c]) = n + 1
      /\ \A d \in Calls : d # c => answer'[d] = answer[d]
      /\ n + 1 \in Positions(c)
  BY <1>1, HandedOut
<1>5. \/ More(c, n + 1) /\ reply' = [reply EXCEPT ![c] = asks] /\ status' = status
      \/ reply' = reply /\ \E st \in {"answered", "stopped"} : status' = [status EXCEPT ![c] = st]
  <2>1. CASE goOn /\ More(c, Len(answer'[c]))
    BY <1>4, <2>1 DEF Round, Ask
  <2>2. CASE ~(goOn /\ More(c, Len(answer'[c])))
    BY <2>2 DEF Round
  <2> QED
    BY <2>1, <2>2
<1>6. asks \in [Positions(c) -> Replies] /\ \A i \in Asked(c, "for", n + 1) : asks[i] = "pending"
  BY <1>2 DEF TypeOK, Replies, Asked
<1> HIDE DEF asks, n
<1>7. /\ since'[c] = index /\ status[c] = "asking"
      /\ \/ More(c, n + 1) /\ reply'[c] = asks /\ status'[c] = "asking"
         \/ reply'[c] = reply[c] /\ status'[c] \in {"answered", "stopped"}
      /\ \A d \in Calls : d # c =>
           UNCHANGED <<op[d], period[d], since[d], reply[d], found[d], answer[d], status[d]>>
  BY <1>1, <1>2, <1>4, <1>5 DEF TypeOK, Functions, Complete
<1>8. TypeOK'
  <2>1. /\ since' \in [Calls -> [Days -> SUBSET Users]]
        /\ status' \in [Calls -> {"none", "asking", "answered", "stopped"}]
    BY <1>1, <1>2, <1>5 DEF TypeOK
  <2>2. \A d \in Calls : reply'[d] \in [Positions(d) -> Replies]
    BY <1>2, <1>6, <1>7 DEF TypeOK
  <2>3. n + 1 <= Len(subkeys(c))
    BY <1>2, <1>4, SubkeysOfCall DEF Positions
  <2>4. /\ \A d \in Calls : op[d] = "for" => Len(answer'[d]) <= Len(subkeys(d))
        /\ \A d \in Calls : op[d] # "for" => Len(answer'[d]) = IF status'[d] = "answered" THEN 1 ELSE 0
    BY <1>1, <1>2, <1>4, <1>7, <2>3 DEF TypeOK
  <2> QED
    BY <1>1, <1>2, <1>3, <1>4, <2>1, <2>2, <2>4 DEF TypeOK
<1>9. Functions'
  BY <1>1, <1>2, <1>5 DEF Functions
<1>10. CallInv(c)'
  <2>1. Genuine(c)'
    BY <1>1, <1>2, <1>3, <1>7 DEF CallInv, Genuine
  <2>2. Current(c)'
    <3>1. Asked(c, op[c], Len(answer[c]))' = Asked(c, "for", n + 1)
      BY <1>1, <1>3, <1>4 DEF Asked
    <3> QED
      BY <1>6, <1>7, <3>1 DEF Current
  <2>3. Progress(c)'
    BY <1>1, <1>2, <1>3, <1>4, <1>7 DEF CallInv, Progress, More
  <2> QED
    BY <1>1, <2>1, <2>2, <2>3, ReportedKept DEF CallInv
<1> QED
  BY <1>1, <1>2, <1>7, <1>8, <1>9, <1>10, Undisturbed DEF IInv

(* Every step keeps the invariant. *)
LEMMA InvStep == IInv /\ [Next]_vars => IInv'
<1> SUFFICES ASSUME IInv, [Next]_vars PROVE IInv'
  OBVIOUS
<1>1. CASE UNCHANGED vars
  <2>1. \A c \in Calls : subkeys(c)' = subkeys(c) /\ Positions(c)' = Positions(c)
    BY <1>1 DEF vars, subkeys, Positions
  <2>2. TypeOK' /\ Functions'
    BY <1>1, <2>1 DEF vars, IInv, TypeOK, Functions
  <2> QED
    BY <1>1, <2>2, Undisturbed DEF vars, IInv, TypeOK
<1> QED
  BY <1>1, ActivityStep, CallStep, ReplyStep, AnswerStep, RoundStep DEF Next, Quiescent

(* The inductive invariant holds whatever the indexes and the replies do. *)
THEOREM Invariance == Spec => []IInv
BY InitInv, InvStep, PTL DEF Spec
-----------------------------------------------------------------------------
(* Types, and never more sets than days or than one. *)
THEOREM TypeCorrect == Spec => []TypeOK
BY Invariance, PTL DEF IInv

(* Everyone in a set handed out was active on a day the set stands for. *)
THEOREM OnlyActive == Spec => []OnlyActiveUsers
<1>1. IInv => OnlyActiveUsers
  BY DEF IInv, CallInv, Reported, OnlyActiveUsers
<1> QED
  BY <1>1, Invariance, PTL

(* A step that changes no answer hands out nothing. *)
LEMMA NothingHandedOut == answer' = answer => SetsAreComplete
BY DEF SetsAreComplete

(* A set that is handed out has everyone who was active before. *)
LEMMA HandOutComplete ==
  ASSUME IInv, NEW c \in Calls, Complete(c), UNCHANGED <<op, period>>,
         answer' = [answer EXCEPT ![c] = Append(@, ActiveUsersFound(c))]
  PROVE  SetsAreComplete
<1> DEFINE n == Len(answer[c])
<1>1. /\ \A d \in Calls : d # c => answer'[d] = answer[d]
      /\ n \in Nat /\ DOMAIN answer[c] = 1..n /\ DOMAIN answer'[c] = 1..(n + 1)
      /\ answer'[c][n + 1] = ActiveUsersFound(c)
      /\ op[c] # "for" => n = 0
  BY HandedOut
<1>2. SUFFICES ASSUME NEW d \in Calls, NEW i \in Positions(d), reply[d][i] # "failed",
                      SetOf(d, i) \in DOMAIN answer'[d] \ DOMAIN answer[d]
               PROVE  since[d][subkeys(d)[i]] \subseteq answer'[d][SetOf(d, i)]
  BY DEF SetsAreComplete
<1>3. d = c
  BY <1>1, <1>2
<1>4. SetOf(c, i) = n + 1
  BY <1>1, <1>2, <1>3
<1>5. i \in Asked(c, op[c], n)
  BY <1>1, <1>2, <1>3, <1>4 DEF SetOf, Asked
<1>6. reply[c][i] = "found"
  <2>1. reply[c][i] \in Replies /\ Current(c)
    BY <1>2, <1>3 DEF IInv, TypeOK, CallInv
  <2> QED
    BY <1>2, <1>3, <1>5, <2>1 DEF Complete, Current, Replies
<1>7. since[c][subkeys(c)[i]] \subseteq found[c][i]
  BY <1>5, <1>6 DEF IInv, CallInv, Current, Complete
<1>8. found[c][i] \subseteq ActiveUsersFound(c)
  BY <1>5 DEF ActiveUsersFound
<1> QED
  BY <1>1, <1>3, <1>4, <1>7, <1>8

(* Everyone who was active on a day when the caller was last in control is  *)
(* in the set it is handed for that day, unless the day could not be read.  *)
THEOREM NoneMissed == Spec => NoActiveUserMissed
<1>1. IInv /\ [Next]_vars => [SetsAreComplete]_vars
  <2> SUFFICES ASSUME IInv, Next PROVE SetsAreComplete
    OBVIOUS
  <2>1. ASSUME NEW c \in Calls, Answer(c) PROVE SetsAreComplete
    BY <2>1, HandOutComplete DEF Answer
  <2>2. ASSUME NEW c \in Calls, NEW goOn \in BOOLEAN, Round(c, goOn) PROVE SetsAreComplete
    BY <2>2, HandOutComplete DEF Round
  <2> QED
    BY <2>1, <2>2, NothingHandedOut DEF Next, Activity, Call, Reply, Quiescent, vars
<1> QED
  BY <1>1, Invariance, PTL DEF Spec, NoActiveUserMissed
=============================================================================
