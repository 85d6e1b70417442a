---------------------------- MODULE WaiterProofs ----------------------------
(***************************************************************************)
(* For any number of calls and groups and any min_writes: the handlers of  *)
(* struct waiter call the callback once, after both results, with the      *)
(* verdict on both.                                                        *)
(***************************************************************************)
EXTENDS Waiter, TLAPS

Judged == {"mark", "handle", "unlock", "done"}  \* the handler has counted the groups
Marked == {"handle", "unlock", "done"}          \* it has set its flag
Past == {"unlock", "done"}                      \* it has been through handle()

(* The mutex: exactly the handler that holds it is inside. *)
MutexInv(c) == \A p \in Parts : pc[c][p] \in Inside <=> mutex[c] = p

(* The flags: set for the parts the operation does not have and for those   *)
(* whose handler has come so far; a handler runs once its result is there.  *)
FlagInv(c) ==
  \A p \in Parts :
    /\ got[c][p] = NoResult <=> pc[c][p] = "idle"
    /\ p \notin PartsOf(kind[c]) => pc[c][p] = "idle"
    /\ completed[c][p] <=> IF p \in PartsOf(kind[c]) THEN pc[c][p] \in Marked ELSE kind[c] # "none"

(* The verdict: result is that on the parts counted so far, and it is       *)
(* handed out when the last handler has been through handle().              *)
ResultInv(c) ==
  /\ result[c] <=> \A p \in Parts : pc[c][p] \in Judged => got[c][p] >= MinWrites[c]
  /\ answers[c] = IF kind[c] # "none" /\ \A p \in PartsOf(kind[c]) : pc[c][p] \in Past
                  THEN <<result[c]>> ELSE <<>>

CallInv(c) == MutexInv(c) /\ FlagInv(c) /\ ResultInv(c)
IInv == TypeOK /\ \A c \in Calls : CallInv(c)
-----------------------------------------------------------------------------
(* Every operation writes some part, and only parts; no call, no parts. *)
LEMMA PartsOfKinds ==
  /\ \A k \in Kinds : PartsOf(k) # {} /\ PartsOf(k) \subseteq Parts
  /\ PartsOf("none") = {}
BY DEF PartsOf, Parts, Kinds

(* The first call of the callback. *)
LEMMA AppendOne == ASSUME NEW b \in BOOLEAN PROVE Append(<<>>, b) = <<b>>
OBVIOUS

(* A step leaves alone the calls whose variables it does not change. *)
LEMMA Undisturbed ==
  ASSUME NEW d \in Calls, CallInv(d),
         kind'[d] = kind[d], got'[d] = got[d], pc'[d] = pc[d], mutex'[d] = mutex[d],
         completed'[d] = completed[d], result'[d] = result[d], answers'[d] = answers[d]
  PROVE  CallInv(d)'
BY DEF CallInv, MutexInv, FlagInv, ResultInv

(* Before the first call there is no waiter. *)
LEMMA InitInv == Init => IInv
<1> SUFFICES ASSUME Init PROVE IInv
  OBVIOUS
<1>1. TypeOK
  BY MaxGroupsAssumption DEF Init, TypeOK, Parts, NoResult, Steps
<1>2. \A c \in Calls : CallInv(c)
  BY PartsOfKinds DEF Init, CallInv, MutexInv, FlagInv, ResultInv, Parts, Inside, Judged, Past
<1> QED
  BY <1>1, <1>2 DEF IInv

(* A waiter begins with the flags of the parts it does not have. *)
LEMMA CreateInv ==
  ASSUME IInv, NEW c \in Calls, NEW k \in Kinds, Create(c, k)
  PROVE  IInv'
<1>1. TypeOK'
  BY DEF IInv, TypeOK, Create
<1>2. ASSUME NEW d \in Calls, d # c PROVE CallInv(d)'
  BY <1>2, Undisturbed DEF IInv, TypeOK, Create
<1>3. CallInv(c)'
  <2>1. /\ kind[c] = "none" /\ kind'[c] = k /\ UNCHANGED <<got, pc, mutex, result, answers>>
        /\ \A p \in Parts : completed'[c][p] <=> p \notin PartsOf(k)
    BY DEF IInv, TypeOK, Create
  <2>2. PartsOf(k) # {} /\ PartsOf(k) \subseteq Parts /\ PartsOf("none") = {} /\ k # "none"
    BY PartsOfKinds DEF Kinds
  <2>3. CallInv(c) /\ \A p \in Parts : pc[c][p] = "idle"
    BY <2>1, <2>2 DEF IInv, CallInv, FlagInv
  <2>4. MutexInv(c)' /\ FlagInv(c)'
    BY <2>1, <2>2, <2>3 DEF CallInv, MutexInv, FlagInv, Marked
  <2>5. ResultInv(c)'
    BY <2>1, <2>2, <2>3 DEF CallInv, ResultInv, Past
  <2> QED
    BY <2>4, <2>5 DEF CallInv
<1> QED
  BY <1>1, <1>2, <1>3 DEF IInv

(* elliptics enters a handler. *)
LEMMA DeliverInv ==
  ASSUME IInv, NEW c \in Calls, NEW p \in Parts, NEW n \in 0..MaxGroups, Deliver(c, p, n)
  PROVE  IInv'
<1>1. /\ pc[c][p] = "idle" /\ p \in PartsOf(kind[c])
      /\ got' = [got EXCEPT ![c][p] = n] /\ pc' = [pc EXCEPT ![c][p] = "lock"]
      /\ UNCHANGED <<kind, mutex, completed, result, answers>>
  BY DEF Deliver
<1>2. TypeOK'
  <2>1. n \in 0..NoResult
    BY MaxGroupsAssumption DEF NoResult
  <2> QED
    BY <1>1, <2>1 DEF IInv, TypeOK, Steps
<1>3. ASSUME NEW d \in Calls, d # c PROVE CallInv(d)'
  BY <1>1, <1>3, Undisturbed DEF IInv, TypeOK
<1>4. CallInv(c)'
  <2>1. /\ pc'[c][p] = "lock" /\ got'[c][p] = n /\ n # NoResult
        /\ \A q \in Parts : q # p => pc'[c][q] = pc[c][q] /\ got'[c][q] = got[c][q]
    BY <1>1, MaxGroupsAssumption DEF IInv, TypeOK, NoResult
  <2>2. CallInv(c)
    BY DEF IInv
  <2> QED
    BY <1>1, <2>1, <2>2, PartsOfKinds
       DEF CallInv, MutexInv, FlagInv, ResultInv, Inside, Judged, Marked, Past
<1> QED
  BY <1>2, <1>3, <1>4 DEF IInv

(* What a step of the handler of part p of c may change. *)
LEMMA HandlerFrame ==
  ASSUME IInv, NEW c \in Calls, NEW p \in Parts, Handler(c, p)
  PROVE  /\ UNCHANGED <<kind, got>> /\ p \in PartsOf(kind[c])
         /\ \A q \in Parts : q # p => pc'[c][q] = pc[c][q]
         /\ \A d \in Calls \ {c} :
              /\ pc'[d] = pc[d] /\ mutex'[d] = mutex[d] /\ completed'[d] = completed[d]
              /\ result'[d] = result[d] /\ answers'[d] = answers[d]
<1>1. pc[c][p] # "idle"
  BY DEF Handler, Lock, Check, Mark, Handle, Unlock
<1>2. p \in PartsOf(kind[c])
  BY <1>1 DEF IInv, CallInv, FlagInv
<1> QED
  BY <1>2 DEF Handler, Lock, Check, Mark, Handle, Unlock, IInv, TypeOK

(* Every statement of a handler keeps the invariant. *)
LEMMA HandlerInv ==
  ASSUME IInv, NEW c \in Calls, NEW p \in Parts, Handler(c, p)
  PROVE  IInv'
<1>0. /\ UNCHANGED <<kind, got>> /\ p \in PartsOf(kind[c]) /\ kind[c] # "none"
      /\ \A q \in Parts : q # p => pc'[c][q] = pc[c][q]
      /\ CallInv(c) /\ PartsOf(kind[c]) \subseteq Parts
  BY HandlerFrame, PartsOfKinds DEF IInv, TypeOK
<1> USE DEF MutexInv, FlagInv, ResultInv, Inside, Judged, Marked, Past
<1>1. CASE Lock(c, p)
  <2>1. TypeOK'
    BY <1>1 DEF Lock, IInv, TypeOK, Steps
  <2>2. /\ pc[c][p] = "lock" /\ pc'[c][p] = "check" /\ mutex[c] = "free" /\ mutex'[c] = p
        /\ UNCHANGED <<completed, result, answers>>
    BY <1>1 DEF Lock, IInv, TypeOK
  <2>3. CallInv(c)'
    BY <1>0, <2>2 DEF CallInv, Parts
  <2> QED
    BY <2>1, <2>3, HandlerFrame, Undisturbed DEF IInv
<1>2. CASE Check(c, p)
  <2>1. TypeOK'
    BY <1>2 DEF Check, IInv, TypeOK, Steps
  <2>2. /\ pc[c][p] = "check" /\ pc'[c][p] = "mark"
        /\ result'[c] <=> result[c] /\ ~(got[c][p] < MinWrites[c])
        /\ UNCHANGED <<mutex, completed, answers>>
    BY <1>2 DEF Check, IInv, TypeOK
  <2>3. ~(got[c][p] < MinWrites[c]) <=> got[c][p] >= MinWrites[c]
    BY MaxGroupsAssumption, MinWritesAssumption DEF IInv, TypeOK, NoResult
  <2>4. CallInv(c)'
    BY <1>0, <2>2, <2>3 DEF CallInv
  <2> QED
    BY <2>1, <2>4, HandlerFrame, Undisturbed DEF IInv
<1>3. CASE Mark(c, p)
  <2>1. TypeOK'
    BY <1>3 DEF Mark, IInv, TypeOK, Steps
  <2>2. /\ pc[c][p] = "mark" /\ pc'[c][p] = "handle"
        /\ completed'[c][p] /\ \A q \in Parts : q # p => completed'[c][q] = completed[c][q]
        /\ UNCHANGED <<mutex, result, answers>>
    BY <1>3 DEF Mark, IInv, TypeOK
  <2>3. CallInv(c)'
    BY <1>0, <2>2 DEF CallInv
  <2> QED
    BY <2>1, <2>3, HandlerFrame, Undisturbed DEF IInv
<1>4. CASE Handle(c, p)
  <2>1. /\ pc[c][p] = "handle" /\ pc'[c][p] = "unlock"
        /\ UNCHANGED <<mutex, completed, result>>
    BY <1>4 DEF Handle, IInv, TypeOK
  <2>2. mutex[c] = p /\ answers[c] = <<>>
    BY <1>0, <2>1 DEF CallInv
  <2>3. \A q \in PartsOf(kind[c]) : q # p => (completed[c][q] <=> pc[c][q] = "done")
    BY <1>0, <2>2 DEF CallInv
  <2>4. result[c] \in BOOLEAN
    BY DEF IInv, TypeOK
  <2>5. (completed[c]["log"] /\ completed[c]["activity"])
          <=> \A q \in PartsOf(kind[c]) : pc'[c][q] \in Past
    BY <1>0, <2>1, <2>3 DEF CallInv, Parts
  <2>6. answers' = IF completed[c]["log"] /\ completed[c]["activity"]
                   THEN [answers EXCEPT ![c] = <<result[c]>>] ELSE answers
    BY <1>4, <2>2, <2>4, AppendOne DEF Handle
  <2>7. TypeOK'
    <3>1. answers' \in [Calls -> {<<>>, <<TRUE>>, <<FALSE>>}]
      BY <2>4, <2>6 DEF IInv, TypeOK
    <3> QED
      BY <1>4, <3>1 DEF Handle, IInv, TypeOK, Steps
  <2>8. ResultInv(c)'
    <3>1. answers'[c] = IF \A q \in PartsOf(kind[c]) : pc'[c][q] \in Past THEN <<result[c]>> ELSE <<>>
      BY <2>2, <2>5, <2>6 DEF IInv, TypeOK
    <3> QED
      BY <1>0, <2>1, <3>1 DEF CallInv
  <2>9. MutexInv(c)' /\ FlagInv(c)'
    BY <1>0, <2>1 DEF CallInv
  <2> QED
    BY <2>7, <2>8, <2>9, HandlerFrame, Undisturbed DEF IInv, CallInv
<1>5. CASE Unlock(c, p)
  <2>1. TypeOK'
    BY <1>5 DEF Unlock, IInv, TypeOK, Steps
  <2>2. /\ pc[c][p] = "unlock" /\ pc'[c][p] = "done" /\ mutex'[c] = "free"
        /\ UNCHANGED <<completed, result, answers>>
    BY <1>5 DEF Unlock, IInv, TypeOK
  <2>3. CallInv(c)'
    BY <1>0, <2>2 DEF CallInv, Parts
  <2> QED
    BY <2>1, <2>3, HandlerFrame, Undisturbed DEF IInv
<1> QED
  BY <1>1, <1>2, <1>3, <1>4, <1>5 DEF Handler

(* Every step keeps the invariant. *)
LEMMA StepInv == IInv /\ [Next]_vars => IInv'
<1>1. ASSUME IInv, UNCHANGED vars PROVE IInv'
  <2>1. TypeOK'
    BY <1>1 DEF vars, IInv, TypeOK
  <2> QED
    BY <1>1, <2>1, Undisturbed DEF vars, IInv
<1> QED
  BY <1>1, CreateInv, DeliverInv, HandlerInv DEF Next, Quiescent

(* The inductive invariant holds in every interleaving of the handlers. *)
THEOREM Invariance == Spec => []IInv
BY InitInv, StepInv, PTL DEF Spec

(* The waiter's fields and its handlers' positions keep their types. *)
THEOREM TypeCorrect == Spec => []TypeOK
<1>1. IInv => TypeOK
  BY DEF IInv
<1> QED
  BY Invariance, <1>1, PTL

(* The callback is called at most once, after every part has its result,    *)
(* with the verdict on all of them, for every interleaving of the handlers. *)
THEOREM AnsweredOnce == Spec => []AnsweredOnceInFull
<1>1. IInv => AnsweredOnceInFull
  <2> SUFFICES ASSUME IInv, NEW c \in Calls
               PROVE  /\ Len(answers[c]) <= 1
                      /\ answers[c] # <<>> => Delivered(c) /\ answers[c] = <<Enough(c)>>
    BY DEF AnsweredOnceInFull
  <2>1. Len(answers[c]) <= 1
    <3>1. Len(<<>>) <= 1 /\ Len(<<TRUE>>) <= 1 /\ Len(<<FALSE>>) <= 1
      OBVIOUS
    <3>2. answers[c] \in {<<>>, <<TRUE>>, <<FALSE>>}
      BY DEF IInv, TypeOK
    <3> QED
      BY <3>1, <3>2, Zenon
  <2>2. ASSUME answers[c] # <<>> PROVE Delivered(c) /\ answers[c] = <<Enough(c)>>
    <3>1. /\ CallInv(c) /\ kind[c] # "none" /\ PartsOf(kind[c]) \subseteq Parts
          /\ \A p \in PartsOf(kind[c]) : pc[c][p] \in Past
          /\ answers[c] = <<result[c]>> /\ result[c] \in BOOLEAN
      BY <2>2, PartsOfKinds DEF IInv, TypeOK, CallInv, ResultInv
    <3>2. \A p \in Parts : pc[c][p] \in Judged <=> p \in PartsOf(kind[c])
      BY <3>1 DEF CallInv, FlagInv, Past, Judged
    <3>3. Delivered(c)
      BY <3>1 DEF CallInv, FlagInv, Past, Delivered
    <3>4. result[c] <=> \A p \in PartsOf(kind[c]) : got[c][p] >= MinWrites[c]
      BY <3>1, <3>2 DEF CallInv, ResultInv
    <3>5. result[c] = Enough(c)
      BY <3>1, <3>4, Zenon DEF Enough
    <3> QED
      BY <3>1, <3>3, <3>5
  <2> QED
    BY <2>1, <2>2
<1> QED
  BY Invariance, <1>1, PTL
-----------------------------------------------------------------------------
(* The refinement: Create is Call, Deliver is Finish, the handle() that     *)
(* calls the callback is Answer, the other statements are not seen.         *)
LEMMA AnswerStep ==
  ASSUME IInv, IInv', NEW c \in Calls, NEW p \in Parts, Handle(c, p)
  PROVE  [Promise!Next]_Promise!vars
<1>1. UNCHANGED <<kind, got, result>> /\ pc[c][p] = "handle" /\ kind[c] # "none"
  <2>1. p \in PartsOf(kind[c])
    BY HandlerFrame DEF Handler
  <2> QED
    BY <2>1, PartsOfKinds DEF Handle
<1>2. CASE ~(completed[c]["log"] /\ completed[c]["activity"])
  BY <1>1, <1>2 DEF Handle, Promise!vars
<1>3. CASE completed[c]["log"] /\ completed[c]["activity"]
  <2>1. CallInv(c) /\ PartsOf(kind[c]) \subseteq Parts /\ result[c] \in BOOLEAN
    BY <1>1, PartsOfKinds DEF IInv, TypeOK
  <2>2. \A q \in Parts : pc[c][q] \in Judged <=> q \in PartsOf(kind[c])
    BY <1>3, <2>1 DEF CallInv, FlagInv, Marked, Judged, Parts
  <2>3. \A q \in PartsOf(kind[c]) : got[c][q] # NoResult
    BY <2>1, <2>2 DEF CallInv, FlagInv, Judged
  <2>4. result[c] <=> \A q \in PartsOf(kind[c]) : got[c][q] >= MinWrites[c]
    BY <2>1, <2>2 DEF CallInv, ResultInv
  <2>5. Promise!PartsOf(kind[c]) = PartsOf(kind[c])
    BY DEF Promise!PartsOf, PartsOf, Promise!Parts, Parts
  <2>6. Promise!Finished(c)
    BY <1>1, <2>3, <2>5 DEF Promise!Finished, Promise!NoResult, NoResult
  <2>7. Promise!Enough(c) = result[c]
    BY <2>1, <2>4, <2>5, Zenon DEF Promise!Enough
  <2>8. answers[c] = <<>>
    <3>1. p \in PartsOf(kind[c]) /\ pc[c][p] \notin Past
      BY <1>1, HandlerFrame DEF Handler, Past
    <3> QED
      BY <2>1, <3>1 DEF CallInv, ResultInv
  <2>9. answers' = [answers EXCEPT ![c] = <<result[c]>>]
    BY <1>3, <2>1, <2>8, AppendOne DEF Handle
  <2>10. Promise!Answer(c)
    BY <1>1, <2>6, <2>7, <2>8, <2>9 DEF Promise!Answer
  <2> QED
    BY <2>10 DEF Promise!Next
<1> QED
  BY <1>2, <1>3

(* Every step is one of the contract, or none. *)
LEMMA RefinementStep == IInv /\ IInv' /\ [Next]_vars => [Promise!Next]_Promise!vars
<1> SUFFICES ASSUME IInv, IInv', [Next]_vars PROVE [Promise!Next]_Promise!vars
  OBVIOUS
<1> USE DEF Promise!Parts, Parts, Promise!Kinds, Kinds
<1>1. ASSUME NEW c \in Calls, NEW k \in Kinds, Create(c, k) PROVE [Promise!Next]_Promise!vars
  <2>1. Promise!Call(c, k)
    BY <1>1 DEF Create, Promise!Call
  <2> QED
    BY <2>1 DEF Promise!Next
<1>2. ASSUME NEW c \in Calls, NEW p \in Parts, NEW n \in 0..MaxGroups, Deliver(c, p, n)
      PROVE  [Promise!Next]_Promise!vars
  <2>1. got[c][p] = NoResult
    BY <1>2 DEF Deliver, IInv, CallInv, FlagInv
  <2>2. Promise!Finish(c, p, n)
    BY <1>2, <2>1 DEF Deliver, Promise!Finish, Promise!NoResult, NoResult, Promise!PartsOf, PartsOf
  <2> QED
    BY <2>2 DEF Promise!Next
<1>3. ASSUME NEW c \in Calls, NEW p \in Parts, Lock(c, p) \/ Check(c, p) \/ Mark(c, p) \/ Unlock(c, p)
      PROVE  [Promise!Next]_Promise!vars
  BY <1>3 DEF Lock, Check, Mark, Unlock, Promise!vars
<1>4. CASE UNCHANGED vars
  BY <1>4 DEF vars, Promise!vars
<1> QED
  BY <1>1, <1>2, <1>3, <1>4, AnswerStep DEF Next, Handler, Quiescent

(* struct waiter implements the contract of an add operation.               *)
THEOREM ImplementsPromise == Spec => Implements
<1>1. Init => Promise!Init
  BY DEF Init, Promise!Init, Promise!Parts, Parts, Promise!NoResult, NoResult
<1> QED
  BY <1>1, RefinementStep, Invariance, PTL DEF Spec, Implements, Promise!Spec
=============================================================================
