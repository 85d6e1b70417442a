--------------------------- MODULE UserLogsProofs ---------------------------
(***************************************************************************)
(* Reading a user's logs, for any calls, periods and type of times in      *)
(* which a day fits (uint64_t is one): the arithmetic of the subkeys, and  *)
(* what a read gathers while clients append and replies come in any order. *)
(***************************************************************************)
EXTENDS UserLogs, SequenceTheorems, TLAPS

(* The day after the last one of a period does not wrap around: the         *)
(* increment of time_period_to_subkeys cannot overflow.                     *)
THEOREM NoOverflow ==
  ASSUME NEW t \in AllTimes
  PROVE  /\ time_to_subkey(t) \in Nat
         /\ (time_to_subkey(t) + 1) % Modulus = time_to_subkey(t) + 1
<1>1. time_to_subkey(t) \in Nat /\ time_to_subkey(t) + 1 < Modulus
  BY ModulusAssumption DEF AllTimes, time_to_subkey, SECONDS_IN_DAY
<1> QED
  BY <1>1, ModulusAssumption

(* A later time has the same day or a later one. *)
LEMMA DaysGrow ==
  ASSUME NEW t \in AllTimes, NEW u \in AllTimes, t <= u
  PROVE  time_to_subkey(t) <= time_to_subkey(u)
BY DEF AllTimes, time_to_subkey, SECONDS_IN_DAY

(* The subkeys of a period are consecutive days, from that of begin_time to *)
(* that of end_time; a period that ends a day before it begins has none.    *)
THEOREM PeriodSubkeys ==
  ASSUME NEW b \in AllTimes, NEW e \in AllTimes
  PROVE  LET keys == time_period_to_subkeys(b, e)
         IN /\ keys \in [1..(time_to_subkey(e) + 1 - time_to_subkey(b)) -> Nat]
            /\ \A i \in DOMAIN keys : keys[i] = time_to_subkey(b) + i - 1
            /\ time_to_subkey(e) < time_to_subkey(b) => DOMAIN keys = {}
<1> DEFINE B == time_to_subkey(b)
           E == time_to_subkey(e)
<1>1. B \in Nat /\ E \in Nat /\ (E + 1) % Modulus = E + 1
  BY NoOverflow
<1>2. time_period_to_subkeys(b, e) = [i \in 1..(E + 1 - B) |-> B + i - 1]
  BY <1>1 DEF time_period_to_subkeys, time_to_subkey
<1> HIDE DEF B, E
<1>3. \A i \in 1..(E + 1 - B) : B + i - 1 \in Nat
  BY <1>1
<1>4. E < B => 1..(E + 1 - B) = {}
  BY <1>1
<1> QED
  BY <1>1, <1>2, <1>3, <1>4 DEF B, E

(* A record is written under a subkey that is read by every period that     *)
(* contains its time, wherever in its day the period begins or ends.        *)
THEOREM PeriodCovered ==
  ASSUME NEW b \in AllTimes, NEW e \in AllTimes, NEW t \in AllTimes, b <= t, t <= e
  PROVE  \E i \in DOMAIN time_period_to_subkeys(b, e) :
           time_period_to_subkeys(b, e)[i] = time_to_subkey(t)
<1> DEFINE B == time_to_subkey(b)
           E == time_to_subkey(e)
           T == time_to_subkey(t)
           keys == time_period_to_subkeys(b, e)
<1>1. B <= T /\ T <= E /\ B \in Nat /\ T \in Nat /\ E \in Nat
  BY DaysGrow, NoOverflow
<1>2. DOMAIN keys = 1..(E + 1 - B) /\ \A i \in DOMAIN keys : keys[i] = B + i - 1
  BY PeriodSubkeys
<1> HIDE DEF B, E, T, keys
<1>3. T - B + 1 \in DOMAIN keys /\ keys[T - B + 1] = T
  BY <1>1, <1>2
<1> QED
  BY <1>3 DEF T, keys
-----------------------------------------------------------------------------
(* A file read after the call holds no less than it did at the call, and no *)
(* file gets shorter.                                                       *)
Grown == \A c \in Calls, s \in Days : started[c][s] <= files[s]

Recent(c) ==
  status[c] # "none" =>
    \A i \in 1..Len(subkeys(c)) :
      reply[c][i] >= 0 => started[c][subkeys(c)[i]] <= reply[c][i]

(* How far a call has come in each status; what it has taken is settled.    *)
Progress(c) ==
  /\ status[c] = "none" => taken[c] = 0 /\ data[c] = <<>>
  /\ status[c] = "reading" => taken[c] < Len(subkeys(c))
  /\ status[c] = "answered" => taken[c] = Len(subkeys(c))
  /\ \A i \in 1..taken[c] : reply[c][i] # Pending

(* The i-th result is a file that the j-th of the data holds. *)
IsResult(c, j, i) == data[c][j] = <<subkeys(c)[i], reply[c][i]>> /\ reply[c][i] > 0

(* What has been gathered, element by element, as GathersTheResults has it. *)
Gathered(c) ==
  /\ \A j \in DOMAIN data[c] : \E i \in 1..taken[c] : IsResult(c, j, i)
  /\ \A i \in 1..taken[c] : reply[c][i] > 0 => \E j \in DOMAIN data[c] : IsResult(c, j, i)
  /\ \A j, k \in DOMAIN data[c] : j < k => data[c][j][1] < data[c][k][1]

CallInv(c) == Recent(c) /\ Progress(c) /\ Gathered(c)

IInv == TypeOK /\ Grown /\ \A c \in Calls : CallInv(c)
-----------------------------------------------------------------------------
(* The subkeys of a call are the consecutive days of its period. *)
LEMMA SubkeysOfCall ==
  ASSUME NEW c \in Calls, period[c] \in Periods
  PROVE  LET b == time_to_subkey(period[c][1])
             e == time_to_subkey(period[c][2])
         IN /\ Len(subkeys(c)) \in Nat
            /\ DOMAIN subkeys(c) = 1..Len(subkeys(c))
            /\ subkeys(c) # <<>> => Len(subkeys(c)) > 0
            /\ b \in Nat /\ e \in Nat
            /\ \A i \in 1..Len(subkeys(c)) :
                 subkeys(c)[i] \in Days /\ subkeys(c)[i] = b + i - 1 /\ subkeys(c)[i] <= e
<1> DEFINE b == time_to_subkey(period[c][1])
           e == time_to_subkey(period[c][2])
           last == time_to_subkey(Modulus - 1)
           n == IF e < b THEN 0 ELSE e + 1 - b
<1>1. period[c][1] \in AllTimes /\ period[c][2] \in AllTimes
  BY PeriodsAssumption, TimesAssumption
<1>2. Modulus - 1 \in AllTimes /\ period[c][2] <= Modulus - 1
  BY <1>1, ModulusAssumption DEF AllTimes
<1>3. b \in Nat /\ e \in Nat /\ last \in Nat /\ e <= last
  BY <1>1, <1>2, NoOverflow, DaysGrow
<1>4. /\ subkeys(c) \in [1..(e + 1 - b) -> Nat]
      /\ \A i \in DOMAIN subkeys(c) : subkeys(c)[i] = b + i - 1
  BY <1>1, PeriodSubkeys DEF subkeys
<1> HIDE DEF b, e, last
<1>5. n \in Nat /\ 1..(e + 1 - b) = 1..n
  BY <1>3
<1>6. subkeys(c) \in Seq(Nat) /\ Len(subkeys(c)) = n
  BY <1>4, <1>5
<1>7. subkeys(c) # <<>> => Len(subkeys(c)) > 0
  BY <1>6, EmptySeq
<1>8. \A i \in 1..n : subkeys(c)[i] \in Days /\ subkeys(c)[i] = b + i - 1 /\ subkeys(c)[i] <= e
  <2>1. DOMAIN subkeys(c) = 1..n
    BY <1>4, <1>5
  <2>2. Days = 0..last
    BY DEF Days, last
  <2> QED
    BY <1>3, <1>4, <2>1, <2>2
<1> QED
  BY <1>3, <1>4, <1>5, <1>6, <1>7, <1>8 DEF b, e

(* Before the first call there is nothing to tell. *)
LEMMA InitInv == Init => IInv
<1> SUFFICES ASSUME Init PROVE IInv
  OBVIOUS
<1>1. MaxRecords \in Nat /\ 0 \in 0..MaxRecords
  BY MaxRecordsAssumption
<1>2. \A c \in Calls : Len(subkeys(c)) \in Nat
  BY SubkeysOfCall DEF Init
<1>3. TypeOK
  BY <1>1, <1>2, EmptySeq DEF Init, TypeOK, Ops
<1>4. Grown
  BY <1>1 DEF Init, Grown
<1>5. \A c \in Calls : CallInv(c)
  BY DEF Init, CallInv, Recent, Progress, Gathered
<1> QED
  BY <1>3, <1>4, <1>5 DEF IInv

(* A call at which a step leaves everything as it is keeps its invariant. *)
LEMMA Undisturbed ==
  ASSUME NEW d \in Calls, CallInv(d), UNCHANGED <<period[d], started[d]>>,
         UNCHANGED <<reply[d], taken[d], data[d], status[d]>>
  PROVE  CallInv(d)'
<1>1. subkeys(d)' = subkeys(d)
  BY DEF subkeys
<1> QED
  BY <1>1 DEF CallInv, Recent, Progress, Gathered, IsResult

(* A record is appended: no file gets shorter. *)
LEMMA AddStep ==
  ASSUME IInv, NEW t \in Times, Add(t)
  PROVE  IInv'
<1> DEFINE s == time_to_subkey(t)
<1>1. UNCHANGED <<op, period, started, reply, taken, data, status>>
  BY DEF Add
<1>2. \A c \in Calls : subkeys(c)' = subkeys(c)
  BY <1>1 DEF subkeys
<1>3. files \in [Days -> 0..MaxRecords] /\ MaxRecords \in Nat
  BY MaxRecordsAssumption DEF IInv, TypeOK
<1>4. files[s] < MaxRecords /\ files' = [files EXCEPT ![s] = @ + 1]
  BY DEF Add
<1> HIDE DEF s
<1>5. files' \in [Days -> 0..MaxRecords] /\ \A d \in Days : files[d] <= files'[d]
  <2>1. \A d \in Days : files'[d] = IF d = s THEN files[s] + 1 ELSE files[d]
    BY <1>3, <1>4
  <2>2. \A d \in Days : files[d] \in 0..MaxRecords /\ files'[d] \in 0..MaxRecords /\ files[d] <= files'[d]
    BY <1>3, <1>4, <2>1
  <2>3. files' = [d \in Days |-> files'[d]]
    BY <1>3, <1>4
  <2> QED
    BY <2>2, <2>3
<1>6. TypeOK'
  BY <1>1, <1>2, <1>5 DEF IInv, TypeOK
<1>7. Grown'
  BY <1>1, <1>3, <1>5 DEF IInv, TypeOK, Grown
<1> QED
  BY <1>1, <1>6, <1>7, Undisturbed DEF IInv

(* A call begins: what is in the files then is what it must find. *)
LEMMA CallStep ==
  ASSUME IInv, NEW c \in Calls, NEW o \in Ops, Call(c, o)
  PROVE  IInv'
<1>1. /\ status[c] = "none" /\ UNCHANGED <<files, period, taken, data>>
      /\ op' = [op EXCEPT ![c] = o] /\ started' = [started EXCEPT ![c] = files]
      /\ reply' = [reply EXCEPT ![c] = [i \in 1..Len(subkeys(c)) |-> Pending]]
  BY DEF Call
<1>2. /\ subkeys(c) # <<>> /\ status' = [status EXCEPT ![c] = "reading"]
      \/ /\ subkeys(c) = <<>>
         /\ \/ status' = [status EXCEPT ![c] = "undefined"]
            \/ status' = [status EXCEPT ![c] = "answered"]
  BY DEF Call
<1>3. TypeOK /\ CallInv(c) /\ \A d \in Calls : period[d] \in Periods
  BY DEF IInv, TypeOK
<1>4. \A d \in Calls : subkeys(d)' = subkeys(d)
  BY <1>1 DEF subkeys
<1>5. taken[c] = 0 /\ data[c] = <<>>
  BY <1>1, <1>3 DEF CallInv, Progress
<1> DEFINE n == Len(subkeys(c))
           pending == [i \in 1..n |-> Pending]
<1>6. n \in Nat /\ (subkeys(c) # <<>> => n > 0) /\ (subkeys(c) = <<>> => n = 0)
  BY <1>3, SubkeysOfCall, EmptySeq
<1>7. reply' = [reply EXCEPT ![c] = pending]
  BY <1>1
<1>8. pending \in Seq(Results) /\ Len(pending) = n /\ Pending \in Results
  <2> HIDE DEF n
  <2> QED
    BY <1>6 DEF Results
<1>9. ASSUME NEW d \in Calls, d # c
      PROVE  UNCHANGED <<period[d], started[d], reply[d], taken[d], data[d], status[d]>>
  BY <1>1, <1>2, <1>3, <1>9 DEF TypeOK
<1>10. reply'[c] = pending /\ status'[c] # "none" /\ started'[c] = files
  BY <1>1, <1>2, <1>3, <1>7 DEF TypeOK
<1>11. TypeOK'
  <2>1. /\ op' \in [Calls -> Ops \cup {"none"}]
        /\ started' \in [Calls -> [Days -> 0..MaxRecords]]
        /\ status' \in [Calls -> {"none", "reading", "answered", "stopped", "undefined"}]
    BY <1>1, <1>2, <1>3 DEF TypeOK
  <2>2. reply' \in [Calls -> Seq(Results)]
    <3> HIDE DEF pending
    <3> QED
      BY <1>3, <1>7, <1>8 DEF TypeOK
  <2>3. ASSUME NEW d \in Calls, status'[d] # "none" PROVE Len(reply'[d]) = Len(subkeys(d))
    <3> HIDE DEF pending, n
    <3>1. CASE d = c
      BY <1>8, <1>10, <3>1 DEF n
    <3>2. CASE d # c
      BY <1>3, <1>9, <2>3, <3>2 DEF TypeOK
    <3> QED
      BY <3>1, <3>2
  <2> QED
    BY <1>1, <1>3, <1>4, <2>1, <2>2, <2>3 DEF TypeOK
<1>12. Grown'
  <2> SUFFICES ASSUME NEW d \in Calls, NEW s \in Days PROVE started'[d][s] <= files[s]
    BY <1>1 DEF Grown
  <2>1. files[s] \in Nat
    BY <1>3, MaxRecordsAssumption DEF TypeOK
  <2> QED
    BY <1>9, <1>10, <2>1 DEF IInv, Grown
<1>13. CallInv(c)'
  <2>1. Recent(c)'
    BY <1>4, <1>10 DEF Recent, Pending
  <2>2. Progress(c)'
    BY <1>1, <1>2, <1>3, <1>4, <1>5, <1>6 DEF Progress, TypeOK
  <2>3. Gathered(c)'
    BY <1>1, <1>5 DEF Gathered
  <2> QED
    BY <2>1, <2>2, <2>3 DEF CallInv
<1>14. \A d \in Calls : CallInv(d)'
  BY <1>9, <1>13, Undisturbed DEF IInv
<1> QED
  BY <1>11, <1>12, <1>14 DEF IInv

(* A day is answered with its file as it is. *)
LEMMA ReplyStep ==
  ASSUME IInv, NEW c \in Calls, NEW i \in DOMAIN reply[c], Reply(c, i)
  PROVE  IInv'
<1>1. UNCHANGED <<files, op, period, started, taken, data, status>> /\ reply[c][i] = Pending
  BY DEF Reply
<1>2. PICK r \in {files[subkeys(c)[i]], Failed} : reply' = [reply EXCEPT ![c][i] = r]
  BY DEF Reply
<1>3. TypeOK /\ Grown /\ CallInv(c)
  BY DEF IInv
<1>4. \A d \in Calls : subkeys(d)' = subkeys(d)
  BY <1>1 DEF subkeys
<1>5. reply[c] \in Seq(Results) /\ DOMAIN reply[c] = 1..Len(subkeys(c)) /\ status[c] # "none"
  <2>1. status[c] # "none" /\ reply[c] \in Seq(Results)
    BY <1>3 DEF Reply, TypeOK
  <2> QED
    BY <1>3, <2>1, LenProperties DEF TypeOK
<1>6. subkeys(c)[i] \in Days
  BY <1>3, <1>5, SubkeysOfCall DEF TypeOK
<1>7. files[subkeys(c)[i]] \in 0..MaxRecords /\ MaxRecords \in Nat
  BY <1>3, <1>6, MaxRecordsAssumption DEF TypeOK
<1>8. r \in Results /\ (r >= 0 => started[c][subkeys(c)[i]] <= r)
  BY <1>3, <1>6, <1>7 DEF Results, Failed, Grown
<1>9. r # Pending
  BY <1>7 DEF Failed, Pending
<1>10. /\ reply'[c] = [reply[c] EXCEPT ![i] = r]
       /\ \A d \in Calls : d # c => reply'[d] = reply[d]
  BY <1>2, <1>3 DEF TypeOK
<1>11. reply'[c] \in Seq(Results) /\ Len(reply'[c]) = Len(reply[c])
  BY <1>5, <1>8, <1>10
<1>12. TypeOK'
  <2>1. reply' \in [Calls -> Seq(Results)]
    BY <1>2, <1>3, <1>10, <1>11 DEF TypeOK
  <2> QED
    BY <1>1, <1>3, <1>4, <1>10, <1>11, <2>1 DEF TypeOK
<1>13. Grown'
  BY <1>1, <1>3 DEF Grown
<1>14. CallInv(c)'
  <2>1. \A k \in DOMAIN reply[c] : k # i => reply'[c][k] = reply[c][k]
    BY <1>10
  <2>2. reply'[c][i] = r
    BY <1>10
  <2>3. Recent(c)'
    BY <1>1, <1>3, <1>4, <1>5, <1>8, <2>1, <2>2 DEF Recent, CallInv
  <2>4. i \notin 1..taken[c] /\ 1..taken[c] \subseteq DOMAIN reply[c]
    <3>1. taken[c] \in Nat /\ taken[c] <= Len(subkeys(c)) /\ Len(subkeys(c)) \in Nat
      BY <1>3, SubkeysOfCall DEF TypeOK
    <3> QED
      BY <1>1, <1>3, <1>5, <3>1 DEF CallInv, Progress
  <2>5. \A k \in 1..taken[c] : reply'[c][k] = reply[c][k]
    BY <2>1, <2>4
  <2>6. Progress(c)'
    BY <1>1, <1>3, <1>4, <2>5 DEF CallInv, Progress
  <2>7. \A j \in DOMAIN data[c], k \in 1..taken[c] : IsResult(c, j, k)' <=> IsResult(c, j, k)
    BY <1>1, <1>4, <2>5 DEF IsResult
  <2>8. Gathered(c)'
    BY <1>1, <1>3, <2>5, <2>7 DEF CallInv, Gathered
  <2> QED
    BY <2>3, <2>6, <2>8 DEF CallInv
<1>15. \A d \in Calls : CallInv(d)'
  BY <1>1, <1>10, <1>14, Undisturbed DEF IInv
<1> QED
  BY <1>12, <1>13, <1>15 DEF IInv

(* Taking the next result, in the first place of the list: it is settled,   *)
(* and if it is a file, then of a later day than those gathered before.     *)
LEMMA GatherKeeps ==
  ASSUME IInv, NEW c \in Calls, status[c] = "reading", Ready(c), Gather(c)
  PROVE  /\ taken' = [taken EXCEPT ![c] = @ + 1] /\ taken[c] + 1 <= Len(subkeys(c))
         /\ data' \in [Calls -> Seq(Days \X (1..MaxRecords))]
         /\ \A d \in Calls : d # c => data'[d] = data[d]
         /\ \A i \in 1..taken'[c] : reply[c][i] # Pending
         /\ Gathered(c)'
<1> DEFINE n == taken[c] + 1
           r == reply[c][n]
           f == data[c]
           e == <<subkeys(c)[n], r>>
<1>1. /\ TypeOK /\ Progress(c) /\ Gathered(c)
      /\ taken' = [taken EXCEPT ![c] = n] /\ UNCHANGED <<period, reply>>
      /\ r # Pending
      /\ data' = IF r > 0 THEN [data EXCEPT ![c] = Append(f, e)] ELSE data
  BY DEF IInv, CallInv, Gather, Ready, Front, Found
<1>2. /\ Len(subkeys(c)) \in Nat /\ taken[c] \in Nat /\ n \in 1..Len(subkeys(c))
      /\ subkeys(c)[n] \in Days
      /\ \A i \in 1..taken[c] : subkeys(c)[i] < subkeys(c)[n]
  <2>1. taken[c] \in Nat /\ taken[c] < Len(subkeys(c)) /\ Len(subkeys(c)) \in Nat
    BY <1>1, SubkeysOfCall DEF TypeOK, Progress
  <2>2. \E b \in Nat : \A i \in 1..Len(subkeys(c)) : subkeys(c)[i] = b + i - 1 /\ subkeys(c)[i] \in Days
    BY <1>1, SubkeysOfCall DEF TypeOK
  <2> QED
    BY <2>1, <2>2
<1>3. f \in Seq(Days \X (1..MaxRecords)) /\ r \in Results
  <2>1. reply[c] \in Seq(Results) /\ Len(reply[c]) = Len(subkeys(c))
    BY <1>1 DEF TypeOK
  <2> QED
    BY <1>1, <1>2, <2>1 DEF TypeOK
<1>4. subkeys(c)' = subkeys(c) /\ taken'[c] = n
  BY <1>1 DEF subkeys, TypeOK
<1> DEFINE WillBe(j, i) == data'[c][j] = <<subkeys(c)[i], reply[c][i]>> /\ reply[c][i] > 0
<1>5. /\ \A j, i : IsResult(c, j, i)' <=> WillBe(j, i)
      /\ \A i : \A j \in DOMAIN f : data'[c][j] = f[j] => (WillBe(j, i) <=> IsResult(c, j, i))
  BY <1>1, <1>4 DEF IsResult
<1>6. 1..n = 1..taken[c] \cup {n}
  BY <1>2
<1>7. CASE ~(r > 0)
  <2>1. data' = data
    BY <1>1, <1>7
  <2>2. Gathered(c)'
    BY <1>1, <1>4, <1>5, <1>6, <1>7, <2>1 DEF Gathered
  <2> QED
    BY <1>1, <1>2, <1>4, <1>6, <2>1, <2>2 DEF TypeOK, Progress
<1>8. CASE r > 0
  <2>1. data' = [data EXCEPT ![c] = Append(f, e)] /\ data'[c] = Append(f, e)
    BY <1>1, <1>8 DEF TypeOK
  <2>2. e \in Days \X (1..MaxRecords)
    BY <1>2, <1>3, <1>8, MaxRecordsAssumption DEF Results, Failed, Pending
  <2> HIDE DEF e, r, n, f
  <2>3. /\ Append(f, e) \in Seq(Days \X (1..MaxRecords))
        /\ Len(f) \in Nat /\ DOMAIN f = 1..Len(f)
        /\ DOMAIN Append(f, e) = 1..(Len(f) + 1)
        /\ Append(f, e)[Len(f) + 1] = e
        /\ \A j \in 1..Len(f) : Append(f, e)[j] = f[j]
    BY <1>3, <2>2, LenProperties
  <2>4. data' \in [Calls -> Seq(Days \X (1..MaxRecords))]
    BY <1>1, <2>1, <2>3 DEF TypeOK
  <2>5. WillBe(Len(f) + 1, n)
    BY <1>8, <2>1, <2>3 DEF e, r
  <2> HIDE DEF WillBe
  <2>6. \A j \in DOMAIN data'[c] : \E i \in 1..n : WillBe(j, i)
    <3> SUFFICES ASSUME NEW j \in DOMAIN data'[c] PROVE \E i \in 1..n : WillBe(j, i)
      OBVIOUS
    <3>1. CASE j = Len(f) + 1
      BY <1>6, <2>5, <3>1
    <3>2. CASE j \in DOMAIN f
      BY <1>1, <1>5, <1>6, <2>1, <2>3, <3>2 DEF Gathered, f
    <3> QED
      BY <2>1, <2>3, <3>1, <3>2
  <2>7. \A i \in 1..n : reply[c][i] > 0 => \E j \in DOMAIN data'[c] : WillBe(j, i)
    <3> SUFFICES ASSUME NEW i \in 1..n, reply[c][i] > 0
                 PROVE  \E j \in DOMAIN data'[c] : WillBe(j, i)
      OBVIOUS
    <3>1. CASE i = n
      BY <2>1, <2>3, <2>5, <3>1
    <3>2. CASE i \in 1..taken[c]
      BY <1>1, <1>5, <2>1, <2>3, <3>2 DEF Gathered, f
    <3> QED
      BY <1>6, <3>1, <3>2
  <2>8. \A j \in DOMAIN f : f[j][1] < e[1]
    BY <1>1, <1>2 DEF Gathered, IsResult, e, f
  <2>9. \A j, k \in DOMAIN data'[c] : j < k => data'[c][j][1] < data'[c][k][1]
    <3> SUFFICES ASSUME NEW j \in DOMAIN data'[c], NEW k \in DOMAIN data'[c], j < k
                 PROVE  Append(f, e)[j][1] < Append(f, e)[k][1]
      BY <2>1
    <3>1. j \in 1..Len(f) /\ (k \in 1..Len(f) \/ k = Len(f) + 1)
      BY <2>1, <2>3
    <3>2. CASE k \in 1..Len(f)
      BY <1>1, <2>3, <3>1, <3>2 DEF Gathered, f
    <3>3. CASE k = Len(f) + 1
      BY <2>3, <2>8, <3>1, <3>3
    <3> QED
      BY <3>1, <3>2, <3>3
  <2>10. Gathered(c)'
    BY <1>1, <1>4, <1>5, <2>6, <2>7, <2>9 DEF Gathered
  <2>11. \A d \in Calls : d # c => data'[d] = data[d]
    BY <1>1, <2>1 DEF TypeOK
  <2> QED
    BY <1>1, <1>2, <1>4, <1>6, <2>4, <2>10, <2>11 DEF n, r, Progress
<1> QED
  BY <1>7, <1>8

(* What follows of it for a step that takes a result and gives c the status *)
(* st: the call goes on, is answered with the last result, or is stopped.   *)
LEMMA TakeKeeps ==
  ASSUME IInv, NEW c \in Calls, status[c] = "reading", Ready(c), Gather(c),
         NEW st \in {"reading", "answered", "stopped"}, status' = [status EXCEPT ![c] = st],
         st = "reading" => ~Last(c), st = "answered" => Last(c)
  PROVE  IInv'
<1>1. TypeOK /\ CallInv(c) /\ UNCHANGED <<files, op, period, started, reply>>
  BY DEF IInv, Gather
<1>2. /\ taken' = [taken EXCEPT ![c] = @ + 1] /\ taken[c] + 1 <= Len(subkeys(c))
      /\ data' \in [Calls -> Seq(Days \X (1..MaxRecords))]
      /\ \A d \in Calls : d # c => data'[d] = data[d]
      /\ \A i \in 1..taken'[c] : reply[c][i] # Pending
      /\ Gathered(c)'
  BY GatherKeeps
<1>3. \A d \in Calls : subkeys(d)' = subkeys(d) /\ Len(subkeys(d)) \in Nat
  BY <1>1, SubkeysOfCall DEF subkeys, TypeOK
<1>4. ASSUME NEW d \in Calls, d # c
      PROVE  UNCHANGED <<period[d], started[d], reply[d], taken[d], data[d], status[d]>>
  BY <1>1, <1>2, <1>4 DEF TypeOK
<1>5. taken'[c] = taken[c] + 1 /\ status'[c] = st /\ taken[c] \in Nat
  BY <1>1, <1>2 DEF TypeOK
<1>6. TypeOK'
  <2>1. taken' \in [Calls -> Nat] /\ \A d \in Calls : taken'[d] <= Len(subkeys(d))
    BY <1>1, <1>2, <1>4, <1>5 DEF TypeOK
  <2>2. /\ status' \in [Calls -> {"none", "reading", "answered", "stopped", "undefined"}]
        /\ \A d \in Calls : status'[d] # "none" => status[d] # "none"
    BY <1>1, <1>4, <1>5 DEF TypeOK
  <2> QED
    BY <1>1, <1>2, <1>3, <2>1, <2>2 DEF TypeOK
<1>7. Grown'
  BY <1>1 DEF IInv, Grown
<1>8. CallInv(c)'
  <2>1. Recent(c)'
    BY <1>1, <1>3 DEF CallInv, Recent
  <2>2. Progress(c)'
    BY <1>1, <1>2, <1>3, <1>5 DEF Progress, Last
  <2> QED
    BY <1>2, <2>1, <2>2 DEF CallInv
<1> QED
  BY <1>4, <1>6, <1>7, <1>8, Undisturbed DEF IInv

(* Every step keeps the invariant. *)
LEMMA InvStep == IInv /\ [Next]_vars => IInv'
<1> SUFFICES ASSUME IInv, [Next]_vars PROVE IInv'
  OBVIOUS
<1>1. ASSUME NEW c \in Calls, Take(c) PROVE IInv'
  <2>1. \/ Last(c) /\ status' = [status EXCEPT ![c] = "answered"]
        \/ ~Last(c) /\ status' = [status EXCEPT ![c] = "reading"]
    BY <1>1 DEF Take
  <2> QED
    BY <1>1, <2>1, TakeKeeps DEF Take
<1>2. ASSUME NEW c \in Calls, TakeLast(c) PROVE IInv'
  BY <1>2, TakeKeeps DEF TakeLast
<1>3. CASE UNCHANGED vars
  <2>1. \A c \in Calls : subkeys(c)' = subkeys(c)
    BY <1>3 DEF vars, subkeys
  <2>2. TypeOK'
    BY <1>3, <2>1 DEF vars, IInv, TypeOK
  <2>3. Grown'
    BY <1>3 DEF vars, IInv, Grown
  <2> QED
    BY <1>3, <2>2, <2>3, Undisturbed DEF vars, IInv
<1> QED
  BY <1>1, <1>2, <1>3, AddStep, CallStep, ReplyStep DEF Next, Quiescent

(* The inductive invariant holds whatever is appended and however the reads end. *)
THEOREM Invariance == Spec => []IInv
BY InitInv, InvStep, PTL DEF Spec
-----------------------------------------------------------------------------
(* Types, and no more results are taken than were asked for. *)
THEOREM TypeCorrect == Spec => []TypeOK
BY Invariance, PTL DEF IInv

(* The three operations gather exactly the non-empty files among the        *)
(* results they have taken, in order, and when answered have taken all.     *)
THEOREM Gathers == Spec => []GathersTheResults
<1>1. IInv => GathersTheResults
  <2> SUFFICES ASSUME IInv, NEW c \in Calls
               PROVE  LET read == {<<subkeys(c)[i], reply[c][i]>> : i \in 1..taken[c]}
                      IN /\ {data[c][j] : j \in DOMAIN data[c]} = {x \in read : x[2] > 0}
                         /\ \A j, k \in DOMAIN data[c] : j < k => data[c][j][1] < data[c][k][1]
                         /\ status[c] = "answered" => taken[c] = Len(subkeys(c))
    BY DEF GathersTheResults
  <2> DEFINE read == {<<subkeys(c)[i], reply[c][i]>> : i \in 1..taken[c]}
             gathered == {data[c][j] : j \in DOMAIN data[c]}
  <2>1. Progress(c) /\ Gathered(c)
    BY DEF IInv, CallInv
  <2>2. gathered \subseteq {x \in read : x[2] > 0}
    BY <2>1 DEF Gathered, IsResult
  <2>3. {x \in read : x[2] > 0} \subseteq gathered
    BY <2>1 DEF Gathered, IsResult
  <2> QED
    BY <2>1, <2>2, <2>3 DEF Progress, Gathered
<1> QED
  BY <1>1, Invariance, PTL

(* What is gathered is of the days of the period, in their order. *)
THEOREM InOrderOfDays == Spec => []DaysInOrder
<1>1. IInv => DaysInOrder
  <2> SUFFICES ASSUME IInv, NEW c \in Calls, NEW j \in DOMAIN data[c]
               PROVE  LET day == data[c][j][1]
                      IN /\ time_to_subkey(period[c][1]) <= day
                         /\ day <= time_to_subkey(period[c][2])
                         /\ j > 1 => data[c][j - 1][1] < day
    BY DEF DaysInOrder
  <2>1. TypeOK /\ Gathered(c) /\ period[c] \in Periods
    BY DEF IInv, CallInv, TypeOK
  <2>2. PICK i \in 1..taken[c] : data[c][j][1] = subkeys(c)[i]
    BY <2>1 DEF Gathered, IsResult
  <2>3. i \in 1..Len(subkeys(c))
    BY <2>1, SubkeysOfCall DEF TypeOK
  <2>4. /\ time_to_subkey(period[c][1]) <= subkeys(c)[i]
        /\ subkeys(c)[i] <= time_to_subkey(period[c][2])
    BY <2>1, <2>3, SubkeysOfCall
  <2>5. j > 1 => j - 1 \in DOMAIN data[c] /\ j - 1 < j
    BY <2>1, LenProperties DEF TypeOK
  <2> QED
    BY <2>1, <2>2, <2>4, <2>5 DEF Gathered
<1> QED
  BY <1>1, Invariance, PTL

(* An answered read contains, for every time of its period, the records of  *)
(* that time's day that were there when it was made, unless that day's file *)
(* could not be read.                                                       *)
THEOREM SeesEarlier == Spec => []SeesEarlierRecords
<1>1. IInv => SeesEarlierRecords
  <2> SUFFICES ASSUME IInv, NEW c \in Calls, NEW t \in Times, status[c] = "answered",
                      period[c][1] <= t, t <= period[c][2],
                      started[c][time_to_subkey(t)] > 0,
                      ~FailedOn(c, time_to_subkey(t))
               PROVE  \E j \in DOMAIN data[c] :
                        /\ data[c][j][1] = time_to_subkey(t)
                        /\ data[c][j][2] >= started[c][time_to_subkey(t)]
    BY DEF SeesEarlierRecords
  <2> DEFINE s == time_to_subkey(t)
  <2>1. TypeOK /\ CallInv(c) /\ period[c] \in Periods
    BY DEF IInv, TypeOK
  <2>2. period[c][1] \in AllTimes /\ period[c][2] \in AllTimes /\ t \in AllTimes
    BY <2>1, PeriodsAssumption, TimesAssumption
  <2>3. PICK i \in DOMAIN subkeys(c) : subkeys(c)[i] = s
    BY <2>2, PeriodCovered DEF subkeys
  <2>4. i \in 1..Len(subkeys(c)) /\ Len(subkeys(c)) \in Nat /\ s \in Days
    BY <2>1, <2>3, SubkeysOfCall
  <2> HIDE DEF s
  <2>5. i \in 1..taken[c] /\ reply[c][i] # Pending
    BY <2>1, <2>4 DEF CallInv, Progress
  <2>6. reply[c] \in Seq(Results) /\ Len(reply[c]) = Len(subkeys(c))
    BY <2>1 DEF TypeOK
  <2>7. i \in DOMAIN reply[c] /\ reply[c][i] \in Results
    BY <2>4, <2>6
  <2>8. reply[c][i] # Failed
    BY <2>3, <2>7 DEF FailedOn, s
  <2>9. reply[c][i] >= 0
    BY <2>5, <2>7, <2>8, MaxRecordsAssumption DEF Results
  <2>10. started[c][s] <= reply[c][i] /\ started[c][s] > 0 /\ started[c][s] \in 0..MaxRecords
    BY <2>1, <2>3, <2>4, <2>9 DEF CallInv, Recent, TypeOK, s
  <2>11. PICK j \in DOMAIN data[c] : IsResult(c, j, i)
    <3>1. reply[c][i] > 0
      BY <2>7, <2>9, <2>10, MaxRecordsAssumption DEF Results, Pending, Failed
    <3> QED
      BY <2>1, <2>5, <3>1 DEF CallInv, Gathered
  <2> QED
    BY <2>3, <2>7, <2>10, <2>11, MaxRecordsAssumption DEF IsResult, s, Results
<1> QED
  BY <1>1, Invariance, PTL
=============================================================================
