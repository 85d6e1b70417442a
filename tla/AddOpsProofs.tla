---------------------------- MODULE AddOpsProofs ----------------------------
(***************************************************************************)
(* For any calls, groups and min_writes: the write path of AddOps keeps    *)
(* its types, stores what it reports as added, and implements Completion.  *)
(***************************************************************************)
EXTENDS AddOps, FiniteSetTheorems, SequenceTheorems, TLAPS

(* What the requests have done: an acknowledged request has been executed,  *)
(* an executed one is in the store, and only parts of the call are sent.    *)
RequestInv ==
  /\ acked \subseteq applied
  /\ \A c \in Calls, p \in Parts, g \in Groups :
       /\ <<c, p, g>> \in applied => Stored(c, p, g)
       /\ <<c, p, g>> \in applied \cup acked \cup failed => <<c, p>> \in sent
  /\ \A c \in Calls, p \in Parts : <<c, p>> \in sent => p \in PartsOf(kind[c])

(* What a call has found out: a part is taken when it is finished, result   *)
(* is the verdict on the parts taken, and the answer is result.             *)
CallInv(c) ==
  /\ kind[c] = "none" => \A p \in Parts : ~completed[c][p]
  /\ kind[c] # "none" => \A p \in Parts \ PartsOf(kind[c]) : completed[c][p]
  /\ \A p \in PartsOf(kind[c]) : completed[c][p] => Finished(c, p)
  /\ result[c] <=> \A p \in PartsOf(kind[c]) :
                     completed[c][p] => Cardinality(Acked(c, p)) >= min_writes(c)
  /\ answers[c] = IF \A p \in Parts : completed[c][p] THEN <<result[c]>> ELSE <<>>

VerdictInv == \A c \in Calls : CallInv(c)

IInv == TypeOK /\ RequestInv /\ VerdictInv
-----------------------------------------------------------------------------
(* Every operation writes some part, and only parts; no call, no parts. *)
LEMMA PartsOfKinds ==
  /\ \A k \in Kinds : PartsOf(k) # {} /\ PartsOf(k) \subseteq Parts
  /\ PartsOf("none") = {}
BY DEF PartsOf, Parts, Kinds

(* The parts of a call are parts. *)
LEMMA PartsOfParts == TypeOK => \A c \in Calls : PartsOf(kind[c]) \subseteq Parts
BY PartsOfKinds, OperationsAssumption DEF TypeOK

(* The threshold the code compares with is at most the number of groups. *)
LEMMA MinWritesBound ==
  /\ Cardinality(Groups) \in Nat
  /\ \A c \in Calls : min_writes(c) \in Nat /\ min_writes(c) <= Cardinality(Groups)
<1>1. Cardinality(Groups) \in Nat
  BY FS_CardinalityType, GroupsAssumption
<1> QED
  BY <1>1, MinWritesArgAssumption DEF min_writes

(* The first answer, the append to a file and the insertion into an index    *)
(* keep the types of what they change.                                      *)
LEMMA AppendOne == ASSUME NEW b \in BOOLEAN PROVE Append(<<>>, b) = <<b>>
OBVIOUS

(* A file with another record is a file. *)
LEMMA AppendTyped ==
  ASSUME NEW f \in [Groups -> [Keys -> Seq(Calls)]], NEW g \in Groups, NEW k \in Keys,
         NEW c \in Calls
  PROVE  [f EXCEPT ![g][k] = Append(@, c)] \in [Groups -> [Keys -> Seq(Calls)]]
OBVIOUS

(* An index with another user is an index. *)
LEMMA InsertTyped ==
  ASSUME NEW f \in [Groups -> [Subkeys -> SUBSET Users]], NEW g \in Groups, NEW k \in Keys
  PROVE  [f EXCEPT ![g][k[2]] = @ \cup {k[1]}] \in [Groups -> [Subkeys -> SUBSET Users]]
BY DEF Keys

(* The number of groups with some property is at most that of all groups,   *)
(* and a weaker property does not make it smaller.                          *)
LEMMA CountBound ==
  ASSUME NEW S \in SUBSET Groups
  PROVE  Cardinality(S) \in Nat /\ Cardinality(S) <= Cardinality(Groups)
BY FS_Subset, FS_CardinalityType, GroupsAssumption

(* More groups are not fewer. *)
LEMMA CountMonotone ==
  ASSUME NEW S \in SUBSET Groups, NEW T \in SUBSET Groups, S \subseteq T
  PROVE  Cardinality(S) <= Cardinality(T)
BY FS_Subset, GroupsAssumption
-----------------------------------------------------------------------------
(* Before the first call nothing is sent, replied or judged. *)
LEMMA InitInv == Init => IInv
<1> SUFFICES ASSUME Init PROVE IInv
  OBVIOUS
<1>1. TypeOK
  BY DEF Init, FirstVerdict, TypeOK, Parts
<1>2. RequestInv
  BY DEF Init, RequestInv
<1>3. VerdictInv
  BY PartsOfKinds DEF Init, FirstVerdict, VerdictInv, CallInv, Parts
<1> QED
  BY <1>1, <1>2, <1>3 DEF IInv

(* Every step keeps the types. *)
LEMMA TypeStep == TypeOK /\ RequestInv /\ VerdictInv /\ [Next]_vars => TypeOK'
<1> SUFFICES ASSUME TypeOK, RequestInv, VerdictInv, [Next]_vars PROVE TypeOK'
  OBVIOUS
<1> USE DEF TypeOK, callerVars, verdictVars, replyVars, storeVars, Requests
<1>1. ASSUME NEW c \in Calls, NEW k \in Operations[c], NEW m \in {"sync", "async"}, Start(c, k, m)
      PROVE  TypeOK'
  BY <1>1, OperationsAssumption DEF Start, Flags
<1>2. ASSUME NEW c \in Calls, NEW p \in Parts, Send(c, p) PROVE TypeOK'
  <2>1. sent' \subseteq Calls \X Parts
    BY <1>2 DEF Send
  <2> QED
    BY <1>2, <2>1 DEF Send
<1>3. ASSUME NEW c \in Calls, NEW p \in Parts, NEW g \in Groups, Apply(c, p, g) PROVE TypeOK'
  <2>1. applied' \subseteq Requests
    BY <1>3 DEF Apply
  <2>2. files' \in [Groups -> [Keys -> Seq(Calls)]]
    <3>1. [files EXCEPT ![g][key[c]] = Append(@, c)] \in [Groups -> [Keys -> Seq(Calls)]]
      BY AppendTyped
    <3> QED
      BY <1>3, <3>1 DEF Apply
  <2>3. index' \in [Groups -> [Subkeys -> SUBSET Users]]
    <3>1. [index EXCEPT ![g][key[c][2]] = @ \cup {key[c][1]}]
            \in [Groups -> [Subkeys -> SUBSET Users]]
      BY InsertTyped
    <3> QED
      BY <1>3, <3>1 DEF Apply
  <2> QED
    BY <1>3, <2>1, <2>2, <2>3 DEF Apply
<1>4. ASSUME NEW c \in Calls, NEW p \in Parts, NEW g \in Groups, Ack(c, p, g) PROVE TypeOK'
  <2>1. acked' \subseteq Requests
    BY <1>4 DEF Ack
  <2> QED
    BY <1>4, <2>1 DEF Ack
<1>5. ASSUME NEW c \in Calls, NEW p \in Parts, NEW g \in Groups, Fail(c, p, g) PROVE TypeOK'
  <2>1. failed' \subseteq Requests
    BY <1>5 DEF Fail
  <2> QED
    BY <1>5, <2>1 DEF Fail
<1>6. ASSUME NEW c \in Calls, NEW p \in Parts, Take(c, p) PROVE TypeOK'
  <2>1. completed' \in [Calls -> [Parts -> BOOLEAN]] /\ result' \in [Calls -> BOOLEAN]
    BY <1>6 DEF Take, Verdict
  <2>2. answers[c] = <<>>
    BY <1>6, PartsOfParts DEF Take, Due, VerdictInv, CallInv
  <2>3. Append(<<>>, result'[c]) = <<result'[c]>> /\ result'[c] \in BOOLEAN
    BY <2>1, AppendOne
  <2>4. answers' \in [Calls -> {<<>>, <<TRUE>>, <<FALSE>>}]
    BY <1>6, <2>2, <2>3 DEF Take
  <2> QED
    BY <1>6, <2>1, <2>4 DEF Take
<1>7. CASE UNCHANGED vars
  BY <1>7 DEF vars
<1> QED
  BY <1>1, <1>2, <1>3, <1>4, <1>5, <1>6, <1>7 DEF Next, Quiescent

(* An execution puts the record into the store and takes nothing out of it. *)
LEMMA AppendKeeps ==
  ASSUME NEW f \in Seq(Calls), NEW c \in Calls
  PROVE  /\ \E i \in DOMAIN Append(f, c) : Append(f, c)[i] = c
         /\ \A d : (\E i \in DOMAIN f : f[i] = d) =>
                  \E i \in DOMAIN Append(f, c) : Append(f, c)[i] = d
<1>1. DOMAIN f = 1..Len(f) /\ DOMAIN Append(f, c) = 1..(Len(f) + 1) /\ Len(f) \in Nat
  BY AppendProperties, LenProperties
<1> QED
  BY <1>1, AppendProperties

(* A request that is executed stores its part and removes none. *)
LEMMA ApplyStores ==
  ASSUME TypeOK, NEW c \in Calls, NEW p \in Parts, NEW g \in Groups, Apply(c, p, g)
  PROVE  /\ Stored(c, p, g)'
         /\ \A d \in Calls, q \in Parts, h \in Groups : Stored(d, q, h) => Stored(d, q, h)'
<1>1. key' = key /\ key \in [Calls -> Keys]
  BY DEF Apply, callerVars, TypeOK
<1>2. files \in [Groups -> [Keys -> Seq(Calls)]] /\ index \in [Groups -> [Subkeys -> SUBSET Users]]
  BY DEF TypeOK
<1>3. CASE p = "log"
  <2>1. files' = [files EXCEPT ![g][key[c]] = Append(@, c)] /\ index' = index
    BY <1>3 DEF Apply
  <2>2. files'[g][key[c]] = Append(files[g][key[c]], c)
    BY <1>1, <1>2, <2>1
  <2>3. \A h \in Groups, k \in Keys : <<h, k>> # <<g, key[c]>> => files'[h][k] = files[h][k]
    BY <1>1, <1>2, <2>1
  <2>4. /\ \E i \in DOMAIN files'[g][key[c]] : files'[g][key[c]][i] = c
        /\ \A d : (\E i \in DOMAIN files[g][key[c]] : files[g][key[c]][i] = d) =>
                 \E i \in DOMAIN files'[g][key[c]] : files'[g][key[c]][i] = d
    <3>1. files[g][key[c]] \in Seq(Calls)
      BY <1>1, <1>2
    <3> DEFINE f == files[g][key[c]]
    <3>2. /\ \E i \in DOMAIN Append(f, c) : Append(f, c)[i] = c
          /\ \A d : (\E i \in DOMAIN f : f[i] = d) =>
                   \E i \in DOMAIN Append(f, c) : Append(f, c)[i] = d
      BY <3>1, AppendKeeps
    <3> QED
      BY <2>2, <3>2
  <2>5. ASSUME NEW d \in Calls, NEW q \in Parts, NEW h \in Groups, Stored(d, q, h)
        PROVE  Stored(d, q, h)'
    <3>1. CASE q = "activity"
      BY <1>1, <2>1, <2>5, <3>1 DEF Stored
    <3>2. CASE q = "log" /\ h = g /\ key[d] = key[c]
      BY <1>1, <2>4, <2>5, <3>2 DEF Stored
    <3>3. CASE q = "log" /\ ~(h = g /\ key[d] = key[c])
      <4>1. files'[h][key[d]] = files[h][key[d]]
        BY <1>1, <2>3, <3>3
      <4> QED
        BY <1>1, <2>5, <3>3, <4>1 DEF Stored
    <3> QED
      BY <3>1, <3>2, <3>3 DEF Parts
  <2>6. Stored(c, p, g)'
    BY <1>1, <1>3, <2>4 DEF Stored
  <2> QED
    BY <2>5, <2>6
<1>4. CASE p = "activity"
  <2>1. index' = [index EXCEPT ![g][key[c][2]] = @ \cup {key[c][1]}] /\ files' = files
    BY <1>4 DEF Apply
  <2>2. \A d \in Calls : key[d][1] \in Users /\ key[d][2] \in Subkeys
    BY <1>1 DEF Keys
  <2>3. index'[g][key[c][2]] = index[g][key[c][2]] \cup {key[c][1]}
    BY <1>2, <2>1, <2>2
  <2>4. \A h \in Groups, s \in Subkeys : index[h][s] \subseteq index'[h][s]
    BY <1>2, <2>1, <2>2
  <2> QED
    BY <1>1, <1>4, <2>1, <2>2, <2>3, <2>4 DEF Stored, Parts
<1> QED
  BY <1>3, <1>4 DEF Parts

(* Every step keeps what is said of the requests. *)
LEMMA RequestStep == TypeOK /\ RequestInv /\ [Next]_vars => RequestInv'
<1> SUFFICES ASSUME TypeOK, RequestInv, [Next]_vars PROVE RequestInv'
  OBVIOUS
<1>0. ASSUME UNCHANGED <<key, files, index>>
      PROVE  \A d \in Calls, q \in Parts, h \in Groups : Stored(d, q, h)' <=> Stored(d, q, h)
  BY <1>0 DEF Stored
<1> USE DEF RequestInv, callerVars, verdictVars, replyVars, storeVars
<1>1. ASSUME NEW c \in Calls, NEW k \in Operations[c], NEW m \in {"sync", "async"}, Start(c, k, m)
      PROVE  RequestInv'
  <2>1. \A p \in Parts : <<c, p>> \notin sent
    BY <1>1, PartsOfKinds DEF Start
  <2>2. \A d \in Calls, p \in Parts : <<d, p>> \in sent => kind'[d] = kind[d]
    BY <1>1, <2>1 DEF Start, TypeOK
  <2> QED
    BY <1>0, <1>1, <2>2 DEF Start
<1>2. ASSUME NEW c \in Calls, NEW p \in Parts, Send(c, p) PROVE RequestInv'
  BY <1>0, <1>2 DEF Send
<1>3. ASSUME NEW c \in Calls, NEW p \in Parts, NEW g \in Groups, Apply(c, p, g) PROVE RequestInv'
  BY <1>3, ApplyStores DEF Apply
<1>4. ASSUME NEW c \in Calls, NEW p \in Parts, NEW g \in Groups, Ack(c, p, g) PROVE RequestInv'
  BY <1>0, <1>4 DEF Ack, Waiting
<1>5. ASSUME NEW c \in Calls, NEW p \in Parts, NEW g \in Groups, Fail(c, p, g) PROVE RequestInv'
  BY <1>0, <1>5 DEF Fail, Waiting
<1>6. ASSUME NEW c \in Calls, NEW p \in Parts, Take(c, p) PROVE RequestInv'
  BY <1>0, <1>6 DEF Take
<1>7. CASE UNCHANGED vars
  BY <1>0, <1>7 DEF vars
<1> QED
  BY <1>1, <1>2, <1>3, <1>4, <1>5, <1>6, <1>7 DEF Next, Quiescent

(* A reply of group g to part p of c: the part was not finished, and the    *)
(* other parts do not notice.                                               *)
LEMMA ReplyElsewhere ==
  ASSUME TypeOK, NEW c \in Calls, NEW p \in Parts, NEW g \in Groups,
         Ack(c, p, g) \/ Fail(c, p, g)
  PROVE  /\ ~Finished(c, p)
         /\ \A d \in Calls, q \in Parts : <<d, q>> # <<c, p>> =>
              Acked(d, q)' = Acked(d, q) /\ Finished(d, q)' = Finished(d, q)
<1>1. sent' = sent /\ acked' \subseteq acked \cup {<<c, p, g>>} /\ acked \subseteq acked'
      /\ failed' \subseteq failed \cup {<<c, p, g>>} /\ failed \subseteq failed'
  BY DEF Ack, Fail
<1>2. g \notin Replied(c, p)
  BY DEF Ack, Fail, Waiting, Replied
<1>3. ASSUME NEW d \in Calls, NEW q \in Parts, <<d, q>> # <<c, p>>
      PROVE  Acked(d, q)' = Acked(d, q) /\ Replied(d, q)' = Replied(d, q)
  <2>1. \A h \in Groups : <<d, q, h>> # <<c, p, g>>
    BY <1>3
  <2> QED
    BY <1>1, <2>1 DEF Acked, Replied
<1> QED
  BY <1>1, <1>2, <1>3 DEF Finished

(* A step that leaves the variables of call d and the replies to the parts  *)
(* it has taken alone leaves what it has found out alone.                   *)
LEMMA Undisturbed ==
  ASSUME NEW d \in Calls, CallInv(d),
         kind'[d] = kind[d], completed'[d] = completed[d],
         result'[d] = result[d], answers'[d] = answers[d],
         \A q \in PartsOf(kind[d]) : completed[d][q] /\ Finished(d, q) =>
           Acked(d, q)' = Acked(d, q) /\ Finished(d, q)'
  PROVE  CallInv(d)'
<1>1. min_writes(d)' = min_writes(d)
  BY DEF min_writes
<1> QED
  BY <1>1 DEF CallInv

(* A step that sends no request and receives no reply. *)
LEMMA NoReply ==
  ASSUME UNCHANGED <<sent, acked, failed>>
  PROVE  \A d \in Calls : \A q : Acked(d, q)' = Acked(d, q) /\ Finished(d, q)' = Finished(d, q)
BY DEF Acked, Finished, Replied

(* A call begins with the verdict on no part. *)
LEMMA StartVerdict ==
  ASSUME TypeOK, VerdictInv,
         NEW c \in Calls, NEW k \in Operations[c], NEW m \in {"sync", "async"}, Start(c, k, m)
  PROVE  VerdictInv'
<1>1. /\ kind' = [kind EXCEPT ![c] = k] /\ kind[c] = "none"
      /\ completed' = [completed EXCEPT ![c] = [p \in Parts |-> p \notin PartsOf(k)]]
      /\ result' = result /\ answers' = answers /\ UNCHANGED <<sent, acked, failed>>
  BY DEF Start, Flags, replyVars
<1>2. ASSUME NEW d \in Calls, d # c PROVE CallInv(d)'
  BY <1>1, <1>2, NoReply, Undisturbed DEF TypeOK, VerdictInv
<1>3. CallInv(c)'
  <2>1. PartsOf(k) # {} /\ PartsOf(k) \subseteq Parts /\ k # "none" /\ PartsOf("none") = {}
    BY PartsOfKinds, OperationsAssumption DEF Kinds
  <2>2. result[c] /\ answers[c] = <<>>
    BY <1>1, <2>1 DEF VerdictInv, CallInv, Parts
  <2>3. kind'[c] = k /\ \A p \in Parts : completed'[c][p] <=> p \notin PartsOf(k)
    BY <1>1 DEF TypeOK
  <2>4. \A p \in PartsOf(k) : ~completed'[c][p]
    BY <2>1, <2>3
  <2> QED
    BY <1>1, <2>1, <2>2, <2>3, <2>4 DEF CallInv
<1> QED
  BY <1>2, <1>3 DEF VerdictInv

(* A part that is taken is judged with the parts before it. *)
LEMMA TakeVerdict ==
  ASSUME TypeOK, VerdictInv, NEW c \in Calls, NEW p \in Parts, Take(c, p)
  PROVE  VerdictInv'
<1>1. /\ completed' = [completed EXCEPT ![c][p] = TRUE]
      /\ result' = [result EXCEPT ![c] = @ /\ ~(Cardinality(Acked(c, p)) < min_writes(c))]
      /\ ~completed[c][p] /\ p \in PartsOf(kind[c]) /\ Finished(c, p)
      /\ kind' = kind /\ UNCHANGED <<sent, acked, failed>>
  BY DEF Take, Due, Verdict, callerVars, replyVars
<1>2. /\ completed'[c][p] /\ \A q \in Parts : q # p => completed'[c][q] = completed[c][q]
      /\ \A d \in Calls : d # c => completed'[d] = completed[d] /\ result'[d] = result[d]
      /\ result'[c] = (result[c] /\ ~(Cardinality(Acked(c, p)) < min_writes(c)))
  BY <1>1 DEF TypeOK
<1>3. answers[c] = <<>>
  BY <1>1 DEF VerdictInv, CallInv
<1>4. /\ answers'[c] = IF \A q \in Parts : completed'[c][q] THEN <<result'[c]>> ELSE <<>>
      /\ \A d \in Calls : d # c => answers'[d] = answers[d]
  <2>1. Append(answers[c], result'[c]) = <<result'[c]>>
    <3>1. result'[c] \in BOOLEAN
      BY <1>2 DEF TypeOK
    <3> QED
      BY <1>3, <3>1, AppendOne
  <2>2. answers' = IF \A q \in Parts : completed'[c][q]
                   THEN [answers EXCEPT ![c] = Append(answers[c], result'[c])]
                   ELSE answers
    BY DEF Take
  <2> QED
    BY <1>3, <2>1, <2>2 DEF TypeOK
<1>5. ASSUME NEW d \in Calls, d # c PROVE CallInv(d)'
  BY <1>1, <1>2, <1>4, <1>5, NoReply, Undisturbed DEF VerdictInv
<1>6. CallInv(c)'
  <2>1. Acked(c, p) \in SUBSET Groups
    BY DEF Acked
  <2>2. ~(Cardinality(Acked(c, p)) < min_writes(c)) <=> Cardinality(Acked(c, p)) >= min_writes(c)
    BY <2>1, CountBound, MinWritesBound
  <2>3. min_writes(c)' = min_writes(c) /\ PartsOf(kind[c]) \subseteq Parts
    BY PartsOfParts DEF min_writes
  <2>4. CallInv(c) /\ kind[c] # "none"
    BY <1>1, PartsOfKinds DEF VerdictInv
  <2>5. result'[c] <=> \A q \in PartsOf(kind[c]) :
                        completed'[c][q] => Cardinality(Acked(c, q)) >= min_writes(c)
    BY <1>1, <1>2, <2>2, <2>3, <2>4 DEF CallInv
  <2> QED
    BY <1>1, <1>2, <1>4, <2>3, <2>4, <2>5, NoReply DEF CallInv
<1> QED
  BY <1>5, <1>6 DEF VerdictInv

(* Every step keeps the verdicts. *)
LEMMA VerdictStep == TypeOK /\ RequestInv /\ VerdictInv /\ [Next]_vars => VerdictInv'
<1> SUFFICES ASSUME TypeOK, RequestInv, VerdictInv, [Next]_vars PROVE VerdictInv'
  OBVIOUS
<1>1. ASSUME NEW c \in Calls, NEW p \in Parts, Send(c, p) PROVE VerdictInv'
  <2>1. \A d \in Calls : \A q :
          Acked(d, q)' = Acked(d, q) /\ (Finished(d, q) => Finished(d, q)')
    BY <1>1 DEF Send, Acked, Finished, Replied, replyVars
  <2>2. UNCHANGED <<kind, completed, result, answers>>
    BY <1>1 DEF Send, callerVars, verdictVars
  <2> QED
    BY <2>1, <2>2, Undisturbed DEF VerdictInv
<1>2. ASSUME NEW c \in Calls, NEW p \in Parts, NEW g \in Groups, Apply(c, p, g) PROVE VerdictInv'
  <2>1. UNCHANGED <<sent, acked, failed, kind, completed, result, answers>>
    BY <1>2 DEF Apply, replyVars, callerVars, verdictVars
  <2> QED
    BY <2>1, NoReply, Undisturbed DEF VerdictInv
<1>3. ASSUME NEW c \in Calls, NEW p \in Parts, NEW g \in Groups, Ack(c, p, g) \/ Fail(c, p, g)
      PROVE  VerdictInv'
  <2>1. UNCHANGED <<kind, completed, result, answers>>
    BY <1>3 DEF Ack, Fail, callerVars, verdictVars
  <2>2. /\ ~Finished(c, p)
        /\ \A d \in Calls, q \in Parts : <<d, q>> # <<c, p>> =>
             Acked(d, q)' = Acked(d, q) /\ Finished(d, q)' = Finished(d, q)
    BY <1>3, ReplyElsewhere
  <2> QED
    BY <2>1, <2>2, PartsOfParts, Undisturbed DEF VerdictInv
<1>4. CASE UNCHANGED vars
  <2>1. UNCHANGED <<sent, acked, failed, kind, completed, result, answers>>
    BY <1>4 DEF vars, replyVars, callerVars, verdictVars
  <2> QED
    BY <2>1, NoReply, Undisturbed DEF VerdictInv
<1> QED
  BY <1>1, <1>2, <1>3, <1>4, StartVerdict, TakeVerdict DEF Next, Quiescent

(* Every reachable state satisfies the invariant. *)
THEOREM Invariance == Spec => []IInv
<1>1. IInv /\ [Next]_vars => IInv'
  BY TypeStep, RequestStep, VerdictStep DEF IInv
<1> QED
  BY InitInv, <1>1, PTL DEF Spec

(* The variables of AddOps always have their types. *)
THEOREM TypeCorrect == Spec => []TypeOK
<1>1. IInv => TypeOK
  BY DEF IInv
<1> QED
  BY Invariance, <1>1, PTL

(* An operation reported as added is stored, every part of it, in at least  *)
(* min_writes groups, for any number of groups, calls and failures.         *)
THEOREM StoredWhenAdded == Spec => []AddedMeansStored
<1>1. IInv => AddedMeansStored
  <2> SUFFICES ASSUME IInv, NEW c \in Calls, answers[c] = <<TRUE>>, NEW p \in PartsOf(kind[c])
               PROVE  Cardinality({g \in Groups : Stored(c, p, g)}) >= min_writes(c)
    BY DEF AddedMeansStored
  <2> DEFINE S == {g \in Groups : Stored(c, p, g)}
  <2>1. p \in Parts /\ CallInv(c)
    BY PartsOfParts DEF IInv, VerdictInv
  <2>2. completed[c][p] /\ result[c]
    <3>1. <<TRUE>> # <<>> /\ \A b \in BOOLEAN : <<TRUE>> = <<b>> => b
      OBVIOUS
    <3>2. result[c] \in BOOLEAN
      BY DEF IInv, TypeOK
    <3> QED
      BY <2>1, <3>1, <3>2 DEF CallInv
  <2>3. Cardinality(Acked(c, p)) >= min_writes(c)
    BY <2>1, <2>2 DEF CallInv
  <2>4. Acked(c, p) \subseteq S
    BY <2>1 DEF Acked, IInv, RequestInv
  <2>5. Acked(c, p) \in SUBSET Groups /\ S \in SUBSET Groups
    BY DEF Acked
  <2>6. Cardinality(Acked(c, p)) <= Cardinality(S)
    BY <2>4, <2>5, CountMonotone
  <2>7. Cardinality(Acked(c, p)) \in Nat /\ Cardinality(S) \in Nat
    BY <2>5, CountBound
  <2> HIDE DEF S
  <2>8. Cardinality(S) >= min_writes(c)
    BY <2>3, <2>6, <2>7, MinWritesBound
  <2> QED
    BY <2>8 DEF S
<1> QED
  BY Invariance, <1>1, PTL

(* The clamp of the constructors: no min_writes makes a provider report a   *)
(* failure of a call that every group has acknowledged.                     *)
THEOREM AddedWhenAllAcked == Spec => []AllAckedMeansAdded
<1>1. IInv => AllAckedMeansAdded
  <2> SUFFICES ASSUME IInv, NEW c \in Calls, answers[c] # <<>>,
                      \A p \in PartsOf(kind[c]) : Acked(c, p) = Groups
               PROVE  answers[c] = <<TRUE>>
    BY DEF AllAckedMeansAdded
  <2>1. result[c]
    BY MinWritesBound DEF IInv, VerdictInv, CallInv
  <2> QED
    BY <2>1 DEF IInv, VerdictInv, CallInv, TypeOK
<1> QED
  BY Invariance, <1>1, PTL
-----------------------------------------------------------------------------
(* The refinement: what the callers of AddOps see is a behavior of          *)
(* Completion.  A reply that completes a part is Finish, the last Take is   *)
(* Answer, Start is Call, every other step changes nothing the callers see. *)
LEMMA GotBound ==
  ASSUME NEW c \in Calls, NEW p \in Parts
  PROVE  /\ Finished(c, p) => Got(c, p) \in 0..Cardinality(Groups) /\ Got(c, p) = Cardinality(Acked(c, p))
         /\ ~Finished(c, p) => Got(c, p) = Cardinality(Groups) + 1
         /\ Finished(c, p) <=> Got(c, p) # Cardinality(Groups) + 1
<1>1. Acked(c, p) \in SUBSET Groups
  BY DEF Acked
<1>2. Cardinality(Acked(c, p)) \in Nat /\ Cardinality(Acked(c, p)) <= Cardinality(Groups)
  BY <1>1, CountBound
<1> QED
  BY <1>2, MinWritesBound DEF Got

(* Where the replies stand still, so does the number of successes. *)
LEMMA GotUnchanged ==
  ASSUME NEW c \in Calls, NEW p \in Parts,
         Acked(c, p)' = Acked(c, p), Finished(c, p)' = Finished(c, p)
  PROVE  Got(c, p)' = Got(c, p)
BY DEF Got

(* A part gets its last reply: the contract's Finish. *)
LEMMA PartStep ==
  ASSUME NEW c \in Calls, NEW p \in Parts, p \in PartsOf(kind[c]),
         kind' = kind, answers' = answers, ~Finished(c, p),
         \A d \in Calls, q \in Parts : <<d, q>> # <<c, p>> => Got(d, q)' = Got(d, q)
  PROVE  [Promise!Next]_Promise!vars
<1> DEFINE got == [d \in Calls |-> [q \in Parts |-> Got(d, q)]]
<1>1. got[c][p] = Cardinality(Groups) + 1
  BY GotBound
<1>2. CASE ~Finished(c, p)'
  <2>1. Got(c, p)' = Got(c, p)
    BY <1>2 DEF Got
  <2>2. \A d \in Calls, q \in Parts : Got(d, q)' = Got(d, q)
    BY <2>1
  <2>3. got' = got
    BY <2>2
  <2> QED
    BY <2>3 DEF Promise!vars, Promise!Parts, Parts
<1>3. CASE Finished(c, p)'
  <2> DEFINE n == Cardinality(Acked(c, p)')
  <2>1. Got(c, p)' = n /\ n \in 0..Cardinality(Groups)
    <3>1. Acked(c, p)' \in SUBSET Groups
      BY DEF Acked
    <3>2. n \in Nat /\ n <= Cardinality(Groups)
      BY <3>1, CountBound
    <3> QED
      BY <1>3, <3>2, MinWritesBound DEF Got
  <2>2. got' = [got EXCEPT ![c][p] = n]
    <3> SUFFICES ASSUME NEW d \in Calls, NEW q \in Parts
                 PROVE  got'[d][q] = [got EXCEPT ![c][p] = n][d][q]
      OBVIOUS
    <3>1. CASE <<d, q>> = <<c, p>>
      BY <2>1, <3>1
    <3>2. CASE <<d, q>> # <<c, p>>
      BY <3>2
    <3> QED
      BY <3>1, <3>2
  <2>3. Promise!Finish(c, p, n)
    BY <1>1, <2>2 DEF Promise!Finish, Promise!NoResult, Promise!PartsOf, PartsOf, Promise!Parts, Parts
  <2> QED
    BY <2>1, <2>3 DEF Promise!Next, Promise!Parts, Parts
<1> QED
  BY <1>2, <1>3

(* A step without a reply or an answer is none of the contract. *)
LEMMA Stutter ==
  ASSUME kind' = kind, answers' = answers,
         \A d \in Calls, q \in Parts : Got(d, q)' = Got(d, q)
  PROVE  UNCHANGED Promise!vars
BY DEF Promise!vars, Promise!Parts, Parts

(* The last part is taken: the contract's Answer. *)
LEMMA AnswerStep ==
  ASSUME TypeOK, VerdictInv, VerdictInv', NEW c \in Calls, NEW p \in Parts, Take(c, p)
  PROVE  [Promise!Next]_Promise!vars
<1> DEFINE got == [d \in Calls |-> [q \in Parts |-> Got(d, q)]]
<1>1. kind' = kind /\ p \in PartsOf(kind[c]) /\ ~completed[c][p] /\ UNCHANGED <<sent, acked, failed>>
  BY DEF Take, Due, callerVars, replyVars
<1>2. \A d \in Calls, q \in Parts : Got(d, q)' = Got(d, q)
  BY <1>1, NoReply, GotUnchanged
<1>3. got' = got
  BY <1>2
<1>4. CASE answers' = answers
  BY <1>1, <1>2, <1>4, Stutter
<1>5. CASE answers' # answers
  <2>1. \A q \in Parts : completed'[c][q]
    BY <1>5 DEF Take
  <2>2. kind[c] # "none" /\ PartsOf(kind[c]) \subseteq Parts
    BY <1>1, PartsOfKinds, PartsOfParts
  <2>3. /\ \A q \in PartsOf(kind[c]) : Finished(c, q)
        /\ result'[c] <=> \A q \in PartsOf(kind[c]) : Cardinality(Acked(c, q)) >= min_writes(c)
    <3>1. CallInv(c)' /\ min_writes(c)' = min_writes(c)
      BY DEF VerdictInv, min_writes
    <3>2. \A q : Acked(c, q)' = Acked(c, q) /\ Finished(c, q)' = Finished(c, q)
      BY <1>1, NoReply
    <3> QED
      BY <1>1, <2>1, <2>2, <3>1, <3>2 DEF CallInv
  <2>4. \A q \in PartsOf(kind[c]) : got[c][q] = Cardinality(Acked(c, q))
    BY <2>2, <2>3, GotBound
  <2>5. result'[c] <=> \A q \in PartsOf(kind[c]) : got[c][q] >= min_writes(c)
    BY <2>3, <2>4
  <2>6. answers[c] = <<>>
    BY <1>1 DEF VerdictInv, CallInv
  <2>7. result'[c] \in BOOLEAN
    BY DEF Take, Verdict, TypeOK
  <2>8. answers' = [answers EXCEPT ![c] = <<result'[c]>>]
    BY <1>5, <2>6, <2>7, AppendOne DEF Take
  <2>9. Promise!PartsOf(kind[c]) = PartsOf(kind[c])
    BY DEF Promise!PartsOf, PartsOf, Promise!Parts, Parts
  <2>10. Promise!Finished(c)
    BY <2>2, <2>3, <2>9, GotBound DEF Promise!Finished, Promise!NoResult, Promise!Parts, Parts
  <2>11. Promise!Enough(c) = result'[c]
    BY <2>5, <2>7, <2>9, Zenon DEF Promise!Enough, Promise!Parts, Parts
  <2>12. Promise!Answer(c)
    BY <1>1, <1>3, <2>6, <2>8, <2>10, <2>11 DEF Promise!Answer, Promise!Parts, Parts
  <2> QED
    BY <2>12 DEF Promise!Next
<1> QED
  BY <1>4, <1>5

(* Every step is one of the contract, or none. *)
LEMMA RefinementStep ==
  TypeOK /\ RequestInv /\ VerdictInv /\ VerdictInv' /\ [Next]_vars => [Promise!Next]_Promise!vars
<1> SUFFICES ASSUME TypeOK, RequestInv, VerdictInv, VerdictInv', [Next]_vars
             PROVE  [Promise!Next]_Promise!vars
  OBVIOUS
<1>1. ASSUME NEW c \in Calls, NEW k \in Operations[c], NEW m \in {"sync", "async"}, Start(c, k, m)
      PROVE  [Promise!Next]_Promise!vars
  <2>1. UNCHANGED <<sent, acked, failed, answers>> /\ kind[c] = "none" /\ kind' = [kind EXCEPT ![c] = k]
    BY <1>1 DEF Start, replyVars
  <2>2. \A d \in Calls, q \in Parts : Got(d, q)' = Got(d, q)
    BY <2>1, NoReply, GotUnchanged
  <2>3. Promise!Call(c, k)
    BY <2>1, <2>2 DEF Promise!Call, Promise!Parts, Parts
  <2>4. k \in Promise!Kinds
    BY OperationsAssumption DEF Promise!Kinds, Kinds
  <2> QED
    BY <2>3, <2>4 DEF Promise!Next
<1>2. ASSUME NEW c \in Calls, NEW p \in Parts, Send(c, p) PROVE [Promise!Next]_Promise!vars
  <2>1. p \in PartsOf(kind[c]) /\ kind' = kind /\ answers' = answers /\ ~Finished(c, p)
    BY <1>2 DEF Send, callerVars, verdictVars, Finished
  <2>2. \A d \in Calls, q \in Parts : <<d, q>> # <<c, p>> =>
          Acked(d, q)' = Acked(d, q) /\ Finished(d, q)' = Finished(d, q)
    BY <1>2 DEF Send, Acked, Finished, Replied, replyVars
  <2> QED
    BY <2>1, <2>2, GotUnchanged, PartStep
<1>3. ASSUME NEW c \in Calls, NEW p \in Parts, NEW g \in Groups, Apply(c, p, g)
      PROVE  [Promise!Next]_Promise!vars
  <2>1. UNCHANGED <<sent, acked, failed, kind, answers>>
    BY <1>3 DEF Apply, replyVars, callerVars, verdictVars
  <2> QED
    BY <2>1, NoReply, GotUnchanged, Stutter
<1>4. ASSUME NEW c \in Calls, NEW p \in Parts, NEW g \in Groups, Ack(c, p, g) \/ Fail(c, p, g)
      PROVE  [Promise!Next]_Promise!vars
  <2>1. kind' = kind /\ answers' = answers /\ p \in PartsOf(kind[c])
    BY <1>4 DEF Ack, Fail, Waiting, callerVars, verdictVars, RequestInv
  <2> QED
    BY <1>4, <2>1, ReplyElsewhere, GotUnchanged, PartStep
<1>5. CASE UNCHANGED vars
  <2>1. UNCHANGED <<sent, acked, failed, kind, answers>>
    BY <1>5 DEF vars, replyVars, callerVars, verdictVars
  <2> QED
    BY <2>1, NoReply, GotUnchanged, Stutter
<1> QED
  BY <1>1, <1>2, <1>3, <1>4, <1>5, AnswerStep DEF Next, Quiescent

(* The write path implements its contract, Completion, for every instance:  *)
(* every call, blocking or not, is answered at most once, after all of its  *)
(* parts, with the verdict on all of them.                                  *)
THEOREM ImplementsPromise == Spec => Implements
<1>1. Init => Promise!Init
  <2>1. Init => \A c \in Calls, p \in Parts : Got(c, p) = Cardinality(Groups) + 1
    BY DEF Init, Got, Finished
  <2> QED
    BY <2>1 DEF Init, Promise!Init, Promise!Parts, Parts, Promise!NoResult
<1>2. IInv /\ IInv' /\ [Next]_vars => [Promise!Next]_Promise!vars
  BY RefinementStep DEF IInv
<1> QED
  BY <1>1, <1>2, Invariance, PTL DEF Spec, Implements, Promise!Spec
-----------------------------------------------------------------------------
(* Records added one after the other are stored in that order: AddedInOrder *)
(* needs more of the store than the other properties.                      *)

(* Only executed appends are in a file, and before[c] are earlier successes *)
(* whose records come before c's in every group that acknowledged them.     *)
FilesInv ==
  \A g \in Groups, k \in Keys : \A i \in DOMAIN files[g][k] :
    <<files[g][k][i], "log", g>> \in applied

OrderOf(d, c) ==
  /\ answers[d] = <<TRUE>>
  /\ key[c] = key[d] /\ "log" \in PartsOf(kind[c]) \cap PartsOf(kind[d])
     => \A g \in Acked(d, "log") : InOrder(d, c, g)

OrderInv == \A c \in Calls : \A d \in before[c] : OrderOf(d, c)
-----------------------------------------------------------------------------
(* A call answered TRUE has been finished and was made. *)
LEMMA AnsweredTrue ==
  ASSUME IInv, NEW c \in Calls, answers[c] = <<TRUE>>
  PROVE  /\ kind[c] # "none"
         /\ \A p \in PartsOf(kind[c]) :
              p \in Parts /\ Finished(c, p) /\ completed[c][p]
              /\ Cardinality(Acked(c, p)) >= min_writes(c)
<1>1. <<TRUE>> # <<>> /\ \A b \in BOOLEAN : <<TRUE>> = <<b>> => b
  OBVIOUS
<1>2. CallInv(c) /\ result[c] \in BOOLEAN /\ PartsOf(kind[c]) \subseteq Parts
  BY PartsOfParts DEF IInv, TypeOK, VerdictInv
<1>3. result[c] /\ \A p \in Parts : completed[c][p]
  BY <1>1, <1>2 DEF CallInv
<1> QED
  BY <1>2, <1>3 DEF CallInv, Parts

(* The append of call x to a file keeps the order of the records in it and  *)
(* puts x's at the end.                                                     *)
LEMMA AppendOrder ==
  ASSUME NEW f \in Seq(Calls), NEW x \in Calls, NEW c \in Calls, NEW d \in Calls,
         Precedes(f, d, c)
  PROVE  Precedes(Append(f, x), d, c)
<1>1. DOMAIN f = 1..Len(f) /\ DOMAIN Append(f, x) = 1..(Len(f) + 1) /\ Len(f) \in Nat
  BY AppendProperties, LenProperties
<1>2. \A i \in 1..Len(f) : Append(f, x)[i] = f[i]
  BY AppendProperties
<1>3. PICK i \in DOMAIN f : f[i] = d /\ \A j \in DOMAIN f : f[j] = c => i < j
  BY DEF Precedes
<1>4. \A j \in DOMAIN Append(f, x) : Append(f, x)[j] = c => i < j
  BY <1>1, <1>2, <1>3
<1> QED
  BY <1>1, <1>2, <1>3, <1>4 DEF Precedes

(* Members of a file with another record. *)
LEMMA AppendMembers ==
  ASSUME NEW f \in Seq(Calls), NEW x \in Calls, NEW i \in DOMAIN Append(f, x)
  PROVE  Append(f, x)[i] = x \/ \E j \in DOMAIN f : f[j] = Append(f, x)[i]
<1>1. DOMAIN f = 1..Len(f) /\ DOMAIN Append(f, x) = 1..(Len(f) + 1) /\ Len(f) \in Nat
  BY AppendProperties, LenProperties
<1> QED
  BY <1>1, AppendProperties
-----------------------------------------------------------------------------
(* Empty files are in order. *)
LEMMA InitOrder == Init => FilesInv /\ OrderInv
BY DEF Init, FilesInv, OrderInv

(* An append keeps both; other steps do not change the files. *)
LEMMA ApplyOrder ==
  ASSUME IInv, FilesInv, OrderInv,
         NEW x \in Calls, NEW p \in Parts, NEW h \in Groups, Apply(x, p, h)
  PROVE  FilesInv' /\ OrderInv'
<1>1. /\ UNCHANGED <<kind, key, before, answers, acked>> /\ applied' = applied \cup {<<x, p, h>>}
      /\ key \in [Calls -> Keys] /\ files \in [Groups -> [Keys -> Seq(Calls)]]
  BY DEF Apply, callerVars, verdictVars, replyVars, IInv, TypeOK
<1>2. \A d \in Calls : Acked(d, "log")' = Acked(d, "log")
  BY <1>1 DEF Acked
<1>3. CASE p = "activity"
  <2>1. files' = files
    BY <1>3 DEF Apply
  <2>2. \A c, d \in Calls : \A g : InOrder(d, c, g)' = InOrder(d, c, g)
    BY <1>1, <2>1 DEF InOrder
  <2>3. ASSUME NEW c \in Calls, NEW d \in before[c] PROVE OrderOf(d, c)'
    <3>1. d \in Calls /\ OrderOf(d, c)
      BY DEF IInv, TypeOK, OrderInv
    <3> QED
      BY <1>1, <1>2, <2>2, <3>1 DEF OrderOf
  <2> QED
    BY <1>1, <2>1, <2>3 DEF FilesInv, OrderInv
<1>4. CASE p = "log"
  <2>0. files' = [files EXCEPT ![h][key[x]] = Append(@, x)]
    BY <1>4 DEF Apply
  <2>1. files'[h][key[x]] = Append(files[h][key[x]], x) /\ files[h][key[x]] \in Seq(Calls)
    BY <1>1, <2>0
  <2>2. \A g \in Groups, k \in Keys : <<g, k>> # <<h, key[x]>> => files'[g][k] = files[g][k]
    BY <1>1, <2>0
  <2>3. FilesInv'
    <3> SUFFICES ASSUME NEW g \in Groups, NEW k \in Keys, NEW i \in DOMAIN files'[g][k]
                 PROVE  <<files'[g][k][i], "log", g>> \in applied'
      BY DEF FilesInv
    <3>1. CASE <<g, k>> = <<h, key[x]>>
      <4> DEFINE f == files[h][key[x]]
      <4>1. files'[g][k][i] = x \/ \E j \in DOMAIN f : f[j] = files'[g][k][i]
        <5>1. i \in DOMAIN Append(f, x) /\ files'[g][k] = Append(f, x) /\ f \in Seq(Calls)
          BY <2>1, <3>1
        <5> HIDE DEF f
        <5> QED
          BY <5>1, AppendMembers
      <4> QED
        BY <1>1, <1>4, <3>1, <4>1 DEF FilesInv
    <3>2. CASE <<g, k>> # <<h, key[x]>>
      BY <1>1, <2>2, <3>2 DEF FilesInv
    <3> QED
      BY <3>1, <3>2
  <2>4. ASSUME NEW c \in Calls, NEW d \in Calls, NEW g \in Groups, key[c] = key[d], InOrder(d, c, g)
        PROVE  InOrder(d, c, g)'
    <3>1. CASE <<g, key[c]>> = <<h, key[x]>>
      <4>1. Precedes(files[h][key[x]], d, c)
        BY <2>4, <3>1 DEF InOrder
      <4>2. Precedes(Append(files[h][key[x]], x), d, c)
        BY <2>1, <4>1, AppendOrder
      <4> QED
        BY <1>1, <2>1, <3>1, <4>2 DEF InOrder
    <3>2. CASE <<g, key[c]>> # <<h, key[x]>>
      BY <1>1, <2>2, <2>4, <3>2 DEF InOrder
    <3> QED
      BY <3>1, <3>2
  <2>5. OrderInv'
    <3> SUFFICES ASSUME NEW c \in Calls, NEW d \in before[c] PROVE OrderOf(d, c)'
      BY <1>1 DEF OrderInv
    <3>1. d \in Calls /\ OrderOf(d, c)
      BY DEF IInv, TypeOK, OrderInv
    <3>2. Acked(d, "log") \subseteq Groups
      BY DEF Acked
    <3> QED
      BY <1>1, <1>2, <2>4, <3>1, <3>2 DEF OrderOf
  <2> QED
    BY <2>3, <2>5
<1> QED
  BY <1>3, <1>4 DEF Parts

(* A new call: its record is nowhere, those of the earlier successes are in *)
(* the groups that acknowledged them.                                       *)
LEMMA StartOrder ==
  ASSUME IInv, FilesInv, OrderInv,
         NEW x \in Calls, NEW k \in Operations[x], NEW m \in {"sync", "async"}, Start(x, k, m)
  PROVE  FilesInv' /\ OrderInv'
<1>1. /\ kind' = [kind EXCEPT ![x] = k] /\ kind[x] = "none"
      /\ before' = [before EXCEPT ![x] = {d \in Calls : answers[d] = <<TRUE>>}]
      /\ UNCHANGED <<key, sent, acked, failed, answers, applied, files>>
  BY DEF Start, replyVars, storeVars
<1>2. FilesInv'
  BY <1>1 DEF FilesInv
<1>3. answers[x] # <<TRUE>>
  BY <1>1, AnsweredTrue
<1>4. \A d \in Calls : d # x => kind'[d] = kind[d] /\ before'[d] = before[d]
  BY <1>1 DEF IInv, TypeOK
<1>5. \A g \in Groups : <<x, "log", g>> \notin applied
  <2>1. "log" \notin PartsOf(kind[x]) /\ "log" \in Parts
    BY <1>1, PartsOfKinds DEF Parts
  <2> QED
    BY <2>1 DEF IInv, RequestInv
<1>6. ASSUME NEW d \in Calls, answers[d] = <<TRUE>>, key[x] = key[d], NEW g \in Acked(d, "log")
      PROVE  InOrder(d, x, g)
  <2>1. g \in Groups /\ "log" \in Parts /\ key[x] \in Keys
    BY DEF Acked, Parts, IInv, TypeOK
  <2>2. <<d, "log", g>> \in applied
    BY DEF Acked, IInv, RequestInv
  <2>3. Stored(d, "log", g)
    BY <2>1, <2>2 DEF IInv, RequestInv
  <2>4. \A j \in DOMAIN files[g][key[x]] : files[g][key[x]][j] # x
    BY <1>5, <2>1 DEF FilesInv
  <2> QED
    BY <1>6, <2>3, <2>4 DEF Stored, InOrder, Precedes
<1>7. \A c, d \in Calls : \A g : InOrder(d, c, g)' = InOrder(d, c, g)
  BY <1>1 DEF InOrder
<1>8. \A d \in Calls : Acked(d, "log")' = Acked(d, "log")
  BY <1>1 DEF Acked
<1>9. ASSUME NEW c \in Calls, NEW d \in before'[c] PROVE OrderOf(d, c)'
  <2>1. CASE c = x
    <3>1. d \in Calls /\ answers[d] = <<TRUE>>
      BY <1>1, <1>9, <2>1 DEF IInv, TypeOK
    <3>2. key[x] = key[d] => \A g \in Acked(d, "log") : InOrder(d, x, g)'
      BY <1>6, <1>7, <3>1
    <3> QED
      BY <1>1, <1>8, <2>1, <3>1, <3>2 DEF OrderOf
  <2>2. CASE c # x
    <3>1. d \in before[c] /\ d \in Calls
      BY <1>4, <1>9, <2>2 DEF IInv, TypeOK
    <3>2. OrderOf(d, c) /\ d # x
      BY <1>3, <3>1 DEF OrderInv, OrderOf
    <3>3. kind'[d] = kind[d] /\ kind'[c] = kind[c]
      BY <1>4, <2>2, <3>1, <3>2
    <3> QED
      BY <1>1, <1>7, <1>8, <3>1, <3>2, <3>3 DEF OrderOf
  <2> QED
    BY <2>1, <2>2
<1> QED
  BY <1>2, <1>9 DEF OrderInv

(* The other steps: the files stay, a call answered TRUE stays so and gets  *)
(* no more replies.                                                         *)
LEMMA OtherOrder ==
  ASSUME IInv, FilesInv, OrderInv, UNCHANGED <<kind, key, before, files, applied>>,
         \A d \in Calls : answers[d] = <<TRUE>> => answers'[d] = <<TRUE>>,
         \A d \in Calls : answers[d] = <<TRUE>> /\ "log" \in PartsOf(kind[d])
                            => Acked(d, "log")' = Acked(d, "log")
  PROVE  FilesInv' /\ OrderInv'
<1>1. FilesInv'
  BY DEF FilesInv
<1>2. \A c, d \in Calls : \A g : InOrder(d, c, g)' = InOrder(d, c, g)
  BY DEF InOrder
<1>3. ASSUME NEW c \in Calls, NEW d \in before[c] PROVE OrderOf(d, c)'
  <2>1. d \in Calls /\ OrderOf(d, c)
    BY DEF IInv, TypeOK, OrderInv
  <2> QED
    BY <1>2, <2>1 DEF OrderOf
<1> QED
  BY <1>1, <1>3 DEF OrderInv

(* Every step keeps the order of records. *)
LEMMA OrderStep == IInv /\ FilesInv /\ OrderInv /\ [Next]_vars => FilesInv' /\ OrderInv'
<1> SUFFICES ASSUME IInv, FilesInv, OrderInv, [Next]_vars PROVE FilesInv' /\ OrderInv'
  OBVIOUS
<1>1. ASSUME NEW c \in Calls, NEW p \in Parts, Send(c, p) PROVE FilesInv' /\ OrderInv'
  <2>1. UNCHANGED <<kind, key, before, files, applied, answers, acked>>
    BY <1>1 DEF Send, callerVars, verdictVars, replyVars, storeVars
  <2> QED
    BY <2>1, OtherOrder DEF Acked
<1>2. ASSUME NEW c \in Calls, NEW p \in Parts, NEW g \in Groups, Ack(c, p, g) \/ Fail(c, p, g)
      PROVE  FilesInv' /\ OrderInv'
  <2>1. UNCHANGED <<kind, key, before, files, applied, answers>>
    BY <1>2 DEF Ack, Fail, callerVars, verdictVars, storeVars
  <2>2. ASSUME NEW d \in Calls, answers[d] = <<TRUE>>, "log" \in PartsOf(kind[d])
        PROVE  Acked(d, "log")' = Acked(d, "log")
    <3>1. Finished(d, "log") /\ "log" \in Parts
      BY <2>2, AnsweredTrue
    <3>2. <<d, "log">> # <<c, p>>
      BY <1>2, <3>1, ReplyElsewhere DEF IInv
    <3> QED
      BY <1>2, <3>1, <3>2, ReplyElsewhere DEF IInv
  <2> QED
    BY <2>1, <2>2, OtherOrder
<1>3. ASSUME NEW c \in Calls, NEW p \in Parts, Take(c, p) PROVE FilesInv' /\ OrderInv'
  <2>1. UNCHANGED <<kind, key, before, files, applied, acked>>
    BY <1>3 DEF Take, callerVars, replyVars, storeVars
  <2>2. answers[c] # <<TRUE>>
    BY <1>3, AnsweredTrue DEF Take, Due
  <2>3. \A d \in Calls : d # c => answers'[d] = answers[d]
    BY <1>3 DEF Take, IInv, TypeOK
  <2> QED
    BY <2>1, <2>2, <2>3, OtherOrder DEF Acked
<1>4. CASE UNCHANGED vars
  <2>1. UNCHANGED <<kind, key, before, files, applied, answers, acked>>
    BY <1>4 DEF vars, callerVars, verdictVars, replyVars, storeVars
  <2> QED
    BY <2>1, OtherOrder DEF Acked
<1> QED
  BY <1>1, <1>2, <1>3, <1>4, StartOrder, ApplyOrder DEF Next, Quiescent

(* If a call is made after another one of the same user and subkey has been *)
(* answered TRUE, at least min_writes groups hold the earlier record, and   *)
(* hold the later one, if at all, behind it.                                *)
THEOREM SequentialOrder == Spec => []AddedInOrder
<1>1. IInv /\ OrderInv => AddedInOrder
  <2> SUFFICES ASSUME IInv, OrderInv, NEW c \in Calls, NEW d \in Calls,
                      d \in before[c], key[c] = key[d],
                      "log" \in PartsOf(kind[c]) \cap PartsOf(kind[d])
               PROVE  Cardinality({g \in Groups : InOrder(d, c, g)}) >= min_writes(d)
    BY DEF AddedInOrder
  <2> DEFINE S == {g \in Groups : InOrder(d, c, g)}
             A == Acked(d, "log")
  <2>1. answers[d] = <<TRUE>> /\ \A g \in A : InOrder(d, c, g)
    BY DEF OrderInv, OrderOf
  <2>2. Cardinality(A) >= min_writes(d)
    BY <2>1, AnsweredTrue
  <2>3. A \in SUBSET Groups /\ S \in SUBSET Groups /\ A \subseteq S
    BY <2>1 DEF Acked
  <2> HIDE DEF A, S
  <2>4. Cardinality(A) <= Cardinality(S) /\ Cardinality(A) \in Nat /\ Cardinality(S) \in Nat
    BY <2>3, CountMonotone, CountBound
  <2>5. Cardinality(S) >= min_writes(d)
    BY <2>2, <2>4, MinWritesBound
  <2> QED
    BY <2>5 DEF S
<1>2. Spec => [](FilesInv /\ OrderInv)
  <2>1. (FilesInv /\ OrderInv) /\ IInv /\ [Next]_vars => (FilesInv /\ OrderInv)'
    BY OrderStep
  <2> QED
    BY InitOrder, <2>1, Invariance, PTL DEF Spec
<1> QED
  BY <1>1, <1>2, Invariance, PTL
=============================================================================
