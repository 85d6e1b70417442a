---------------------- MODULE SessionParametersProofs -----------------------
(***************************************************************************)
(* For any number of calls, groups and replacements of the parameters: an  *)
(* asynchronous call that begins while nobody replaces them is judged by   *)
(* the setting it was made under, and so is a blocking one if no other     *)
(* setting was asked for since.                                            *)
(*                                                                         *)
(* For a front end with any configuration and ints of any width: the JSON  *)
(* reader and writer keep the numbers that 64 bits hold, and every write   *)
(* is judged by the number in the configuration.  FoldLeft and Digits are  *)
(* defined by recursion over their data; what they compute is proved here  *)
(* by induction over the places of a numeral.                              *)
(***************************************************************************)
EXTENDS Configuration, FiniteSetTheorems, SequenceTheorems, TLAPS

(* The parameters are what was asked for, as far as the assignments have    *)
(* come.                                                                    *)
ParamInv ==
  /\ groups_ = asked.groups
  /\ pc = "idle" => min_writes_ = Required(asked)
  /\ pc = "clamp" => min_writes_ = asked.min_writes

(* A call has acknowledgements after it has copied what it needs, and an    *)
(* answer after that.  One that is not disturbed copies while its setting   *)
(* is in force, and an asynchronous one keeps the threshold it copied.      *)
CallInvOf(c) ==
  /\ acked[c] # Waiting => mode[c] # "none" /\ ~Beginning(c)
  /\ answer[c] # "none" => acked[c] # Waiting
  /\ c \notin disturbed /\ Beginning(c) => pc = "idle" /\ setting[c] = asked
  /\ c \notin disturbed /\ "min_writes" \in copied[c] => threshold[c] = Required(setting[c])
  /\ c \notin disturbed /\ mode[c] = "async" => JudgedAsMade(c)
CallInv == \A c \in Calls : CallInvOf(c)

IInv == TypeOK /\ ParamInv /\ CallInv

AllSettings == Created \cup Settings

(* Clamped: any number, brought down to the number of groups.               *)
LEMMA ClampedBounds ==
  ASSUME NEW g \in SUBSET Groups, NEW m \in Nat
  PROVE  /\ Clamped(m, g) \in 0..Cardinality(g)
         /\ Cardinality(g) \in 0..Cardinality(Groups)
<1>1. IsFiniteSet(Groups)
  BY GroupsAssumption
<1>2. IsFiniteSet(g) /\ Cardinality(g) <= Cardinality(Groups)
  BY <1>1, FS_Subset
<1>3. Cardinality(g) \in Nat /\ Cardinality(Groups) \in Nat
  BY <1>1, <1>2, FS_CardinalityType
<1> QED
  BY <1>2, <1>3 DEF Clamped

(* A setting's parts, from the assumption on the constants, and what the    *)
(* clamp makes of its min_writes.                                           *)
LEMMA SettingParts ==
  ASSUME NEW s \in AllSettings
  PROVE  /\ s.groups \in SUBSET Groups /\ s.min_writes \in Nat
         /\ Clamped(s.min_writes, s.groups) = Required(s)
         /\ Required(s) \in 0..Cardinality(s.groups)
         /\ Cardinality(s.groups) \in Nat
         /\ create_config(s) \in [wait : Timeouts, check : Timeouts]
         /\ set_timeouts(s) \in [wait : Timeouts, check : Timeouts]
<1>1. /\ s.groups \in SUBSET Groups /\ s.min_writes \in Nat
      /\ s.wait_timeout \in Timeouts /\ s.check_timeout \in Timeouts
  BY SettingsAssumption DEF AllSettings
<1>2. Cardinality(s.groups) \in Nat
  BY <1>1, GroupsAssumption, FS_Subset, FS_CardinalityType
<1>3. Clamped(s.min_writes, s.groups) = Required(s)
  BY <1>1, <1>2 DEF Required, Clamped
<1>4. Required(s) \in 0..Cardinality(s.groups)
  BY <1>1, <1>2 DEF Required
<1> QED
  BY <1>1, <1>2, <1>3, <1>4 DEF create_config, set_timeouts

(* The constructor establishes the invariant. *)
LEMMA InitInv == Init => IInv
<1> SUFFICES ASSUME Init PROVE IInv
  OBVIOUS
<1>1. asked \in AllSettings
  BY DEF Init, AllSettings
<1>2. Cardinality(Groups) \in Nat
  BY GroupsAssumption, FS_CardinalityType
<1>3. min_writes_ = Required(asked) /\ min_writes_ \in 0..Cardinality(groups_)
      /\ groups_ \in SUBSET Groups /\ Cardinality(groups_) \in Nat
  BY <1>1, SettingParts DEF Init
<1>4. TypeOK
  <2>1. min_writes_ \in Nat
    BY <1>3
  <2>2. timeouts \in [wait : Timeouts, check : Timeouts]
    BY <1>1, SettingParts DEF Init
  <2> QED
    BY <1>1, <1>2, <1>3, <2>1, <2>2, MaxSettingsAssumption DEF Init, TypeOK, AllSettings, Waiting
<1>5. ParamInv
  BY <1>3 DEF Init, ParamInv
<1>6. CallInv
  BY DEF Init, CallInv, CallInvOf, JudgedAsMade, Beginning, Copies
<1> QED
  BY <1>4, <1>5, <1>6 DEF IInv

(* What is said of a call depends on its own variables; and on the          *)
(* parameters only while it copies them undisturbed.                        *)
LEMMA CallStill ==
  ASSUME NEW c \in Calls, CallInvOf(c),
         mode'[c] = mode[c], copied'[c] = copied[c], threshold'[c] = threshold[c],
         setting'[c] = setting[c], acked'[c] = acked[c], answer'[c] = answer[c],
         c \notin disturbed' => c \notin disturbed,
         c \notin disturbed' /\ Beginning(c) => pc' = pc /\ asked' = asked
  PROVE  CallInvOf(c)'
BY DEF CallInvOf, JudgedAsMade, Beginning, Required

(* Every step of set_session_parameters and of the calls preserves it. *)
LEMMA StepInv == IInv /\ [Next]_vars => IInv'
<1> SUFFICES ASSUME IInv, [Next]_vars PROVE IInv'
  OBVIOUS
<1> USE DEF IInv
<1>0. /\ Cardinality(Groups) \in Nat /\ groups_ \in SUBSET Groups
      /\ Cardinality(groups_) \in 0..Cardinality(Groups) /\ asked \in AllSettings
  <2>1. groups_ \in SUBSET Groups /\ asked \in AllSettings
    BY DEF TypeOK, AllSettings
  <2> QED
    BY <2>1, ClampedBounds, GroupsAssumption, FS_CardinalityType
<1>1. ASSUME NEW s \in Settings, SetGroups(s) PROVE IInv'
  <2>1. s \in AllSettings /\ s.groups \in SUBSET Groups
    BY SettingParts DEF AllSettings
  <2>2. TypeOK'
    BY <1>1, <2>1, MaxSettingsAssumption DEF TypeOK, SetGroups, Waiting
  <2>3. ParamInv'
    BY <1>1 DEF ParamInv, SetGroups
  <2>4. ASSUME NEW c \in Calls PROVE CallInvOf(c)'
    BY <1>1, <2>4, CallStill DEF SetGroups, CallInv
  <2> QED
    BY <2>2, <2>3, <2>4 DEF CallInv
<1>2. ASSUME SetMinWrites PROVE IInv'
  <2>1. asked.min_writes \in Nat
    BY <1>0, SettingParts
  <2>2. TypeOK'
    BY <1>2, <2>1 DEF TypeOK, SetMinWrites, NewMinWrites, callVars, Waiting
  <2>3. ParamInv'
    BY <1>2 DEF ParamInv, SetMinWrites, NewMinWrites
  <2>4. ASSUME NEW c \in Calls PROVE CallInvOf(c)'
    <3>1. c \notin disturbed => ~Beginning(c)
      BY <1>2 DEF SetMinWrites, CallInv, CallInvOf
    <3> QED
      BY <1>2, <3>1, CallStill DEF SetMinWrites, callVars, CallInv
  <2> QED
    BY <2>2, <2>3, <2>4 DEF CallInv
<1>3. ASSUME Clamp PROVE IInv'
  <2>1. min_writes_' = Required(asked) /\ min_writes_' \in 0..Cardinality(groups_)
    BY <1>3, <1>0, SettingParts DEF Clamp, ParamInv
  <2>2. timeouts' = set_timeouts(asked) /\ timeouts' \in [wait : Timeouts, check : Timeouts]
    BY <1>3, <1>0, SettingParts DEF Clamp
  <2>3. TypeOK'
    BY <1>3, <1>0, <2>1, <2>2 DEF TypeOK, Clamp, callVars, Waiting
  <2>4. ParamInv'
    BY <1>3, <2>1 DEF ParamInv, Clamp, Required
  <2>5. ASSUME NEW c \in Calls PROVE CallInvOf(c)'
    <3>1. c \notin disturbed => ~Beginning(c)
      BY <1>3 DEF Clamp, CallInv, CallInvOf
    <3> QED
      BY <1>3, <3>1, CallStill DEF Clamp, callVars, CallInv
  <2> QED
    BY <2>3, <2>4, <2>5 DEF CallInv
<1>4. ASSUME NEW c \in Calls, NEW m \in {"sync", "async"}, Begin(c, m) PROVE IInv'
  <2>1. /\ groups_' \in SUBSET Groups /\ min_writes_' \in Nat
        /\ (pc' = "idle" => min_writes_' \in 0..Cardinality(groups_'))
        /\ timeouts' \in [wait : Timeouts, check : Timeouts]
        /\ pc' \in {"idle", "min_writes", "clamp"}
        /\ asked' \in AllSettings /\ settings' \in 0..MaxSettings
    BY <1>4, <1>0 DEF TypeOK, Begin, paramVars
  <2>2. mode[c] = "none" /\ copied[c] = {} /\ m # "none"
    BY <1>4 DEF Begin, TypeOK, Copies
  <2>3. TypeOK'
    <3>1. mode' \in [Calls -> {"none", "sync", "async"}] /\ setting' \in [Calls -> AllSettings]
          /\ disturbed' \subseteq Calls
      BY <1>4, <1>0 DEF TypeOK, Begin, AllSettings
    <3>2. ASSUME NEW d \in Calls PROVE copied'[d] \subseteq Copies(mode'[d])
      BY <1>4, <2>2, <3>2 DEF TypeOK, Begin, Copies
    <3> QED
      BY <1>4, <2>1, <3>1, <3>2 DEF TypeOK, Begin, AllSettings, Waiting
  <2>4. ParamInv'
    BY <1>4 DEF ParamInv, Begin, paramVars, Required
  <2>5. ASSUME NEW d \in Calls PROVE CallInvOf(d)'
    <3>1. CASE d = c
      <4>1. acked'[c] = Waiting /\ answer'[c] = "none" /\ copied'[c] = {}
        BY <1>4, <2>2 DEF Begin, CallInv, CallInvOf
      <4>2. c \notin disturbed' => pc' = "idle" /\ setting'[c] = asked'
        BY <1>4 DEF Begin, TypeOK, paramVars
      <4> QED
        BY <3>1, <4>1, <4>2 DEF CallInvOf, JudgedAsMade
    <3>2. CASE d # c
      BY <1>4, <3>2, CallStill DEF Begin, TypeOK, CallInv, paramVars
    <3> QED
      BY <3>1, <3>2
  <2> QED
    BY <2>3, <2>4, <2>5 DEF CallInv
<1>5. ASSUME NEW c \in Calls, CopyGroups(c) PROVE IInv'
  <2>1. TypeOK'
    <3>1. acked[c] = Waiting
      BY <1>5 DEF CopyGroups, CallInv, CallInvOf, Beginning
    <3>2. ASSUME NEW d \in Calls, acked'[d] # Waiting PROVE acked'[d] <= Cardinality(session'[d])
      BY <1>5, <3>1, <3>2 DEF CopyGroups, TypeOK
    <3>3. ASSUME NEW d \in Calls PROVE copied'[d] \subseteq Copies(mode'[d])
      BY <1>5, <3>3 DEF CopyGroups, TypeOK
    <3>4. copied' \in [Calls -> SUBSET {"groups", "min_writes"}] /\ session' \in [Calls -> SUBSET Groups]
          /\ waits' \in [Calls -> [wait : Timeouts, check : Timeouts]]
      BY <1>5, <1>0 DEF CopyGroups, TypeOK
    <3> QED
      BY <1>5, <3>2, <3>3, <3>4 DEF CopyGroups, TypeOK, paramVars, Waiting
  <2>2. ParamInv'
    BY <1>5 DEF ParamInv, CopyGroups, paramVars, Required
  <2>3. ASSUME NEW d \in Calls PROVE CallInvOf(d)'
    <3>1. CASE d = c
      <4>1. acked[c] = Waiting /\ answer[c] = "none" /\ Beginning(c)
        BY <1>5 DEF CopyGroups, CallInv, CallInvOf, Beginning
      <4>2. copied'[c] = copied[c] \cup {"groups"}
        BY <1>5 DEF CopyGroups, TypeOK
      <4> QED
        BY <1>5, <3>1, <4>1, <4>2 DEF CopyGroups, CallInv, CallInvOf, JudgedAsMade, paramVars, Required
    <3>2. CASE d # c
      BY <1>5, <3>2, CallStill DEF CopyGroups, TypeOK, CallInv, paramVars
    <3> QED
      BY <3>1, <3>2
  <2> QED
    BY <2>1, <2>2, <2>3 DEF CallInv
<1>6. ASSUME NEW c \in Calls, CopyMinWrites(c) PROVE IInv'
  <2>1. TypeOK'
    <3>1. ASSUME NEW d \in Calls PROVE copied'[d] \subseteq Copies(mode'[d])
      BY <1>6, <3>1 DEF CopyMinWrites, TypeOK
    <3>2. copied' \in [Calls -> SUBSET {"groups", "min_writes"}] /\ threshold' \in [Calls -> Nat]
      BY <1>6 DEF CopyMinWrites, TypeOK
    <3> QED
      BY <1>6, <3>1, <3>2 DEF CopyMinWrites, TypeOK, paramVars, Waiting
  <2>2. ParamInv'
    BY <1>6 DEF ParamInv, CopyMinWrites, paramVars, Required
  <2>3. ASSUME NEW d \in Calls PROVE CallInvOf(d)'
    <3>1. CASE d = c
      <4>1. acked[c] = Waiting /\ answer[c] = "none" /\ Beginning(c)
        BY <1>6 DEF CopyMinWrites, CallInv, CallInvOf, Beginning
      <4>2. threshold'[c] = min_writes_
        BY <1>6 DEF CopyMinWrites, TypeOK
      <4>3. c \notin disturbed => pc = "idle" /\ setting[c] = asked /\ min_writes_ = Required(setting[c])
        BY <4>1 DEF CallInv, CallInvOf, ParamInv
      <4> QED
        BY <1>6, <3>1, <4>1, <4>2, <4>3 DEF CopyMinWrites, CallInvOf, JudgedAsMade, paramVars, Required
    <3>2. CASE d # c
      BY <1>6, <3>2, CallStill DEF CopyMinWrites, TypeOK, CallInv, paramVars
    <3> QED
      BY <3>1, <3>2
  <2> QED
    BY <2>1, <2>2, <2>3 DEF CallInv
<1>7. ASSUME NEW c \in Calls, NEW n \in 0..Cardinality(Groups), Finish(c, n) PROVE IInv'
  <2>1. TypeOK'
    BY <1>7, <1>0 DEF TypeOK, Finish, paramVars, Waiting
  <2>2. ParamInv'
    BY <1>7 DEF ParamInv, Finish, paramVars, Required
  <2>3. ASSUME NEW d \in Calls PROVE CallInvOf(d)'
    <3>1. CASE d = c
      <4>1. n # Waiting /\ answer[c] = "none" /\ acked'[c] = n
        BY <1>7, <1>0 DEF Finish, CallInv, CallInvOf, Waiting, TypeOK
      <4> QED
        BY <1>7, <3>1, <4>1 DEF Finish, CallInv, CallInvOf, JudgedAsMade, Beginning, paramVars, Required
    <3>2. CASE d # c
      BY <1>7, <3>2, CallStill DEF Finish, TypeOK, CallInv, paramVars
    <3> QED
      BY <3>1, <3>2
  <2> QED
    BY <2>1, <2>2, <2>3 DEF CallInv
<1>8. ASSUME NEW c \in Calls, Judge(c) PROVE IInv'
  <2>1. TypeOK'
    BY <1>8 DEF TypeOK, Judge, Verdict, paramVars, Waiting
  <2>2. ParamInv'
    BY <1>8 DEF ParamInv, Judge, paramVars, Required
  <2>3. ASSUME NEW d \in Calls PROVE CallInvOf(d)'
    <3>1. CASE d = c
      <4>1. answer'[c] = Verdict(acked[c], Threshold(c)) /\ acked[c] # Waiting
        BY <1>8 DEF Judge, TypeOK
      <4>2. mode[c] = "async" /\ c \notin disturbed => Threshold(c) = Required(setting[c])
        <5>1. mode[c] = "async" => "min_writes" \in copied[c]
          BY <1>8 DEF Judge, CallInv, CallInvOf, Beginning, Copies
        <5> QED
          BY <5>1 DEF CallInv, CallInvOf, Threshold
      <4> QED
        BY <1>8, <3>1, <4>1, <4>2 DEF Judge, CallInv, CallInvOf, JudgedAsMade, Beginning, paramVars, Required
    <3>2. CASE d # c
      BY <1>8, <3>2, CallStill DEF Judge, TypeOK, CallInv, paramVars
    <3> QED
      BY <3>1, <3>2
  <2> QED
    BY <2>1, <2>2, <2>3 DEF CallInv
<1>9. CASE UNCHANGED vars
  <2>1. TypeOK'
    BY <1>9 DEF TypeOK, vars, paramVars, callVars, Waiting
  <2>2. ParamInv'
    BY <1>9 DEF ParamInv, vars, paramVars, Required
  <2>3. ASSUME NEW c \in Calls PROVE CallInvOf(c)'
    BY <1>9, CallStill DEF vars, paramVars, callVars, CallInv
  <2> QED
    BY <2>1, <2>2, <2>3 DEF CallInv
<1> QED
  BY <1>1, <1>2, <1>3, <1>4, <1>5, <1>6, <1>7, <1>8, <1>9 DEF Next, Quiescent

(* The invariant holds throughout. *)
LEMMA Invariance == Spec => []IInv
<1> QED
  BY InitInv, StepInv, PTL DEF Spec

(* The parameters and the calls keep their types: between two runs of       *)
(* set_session_parameters min_writes_ is never above the number of groups.  *)
THEOREM TypeCorrect == Spec => []TypeOK
<1>1. IInv => TypeOK
  BY DEF IInv
<1> QED
  BY <1>1, Invariance, PTL

(* waiter::min_writes_: an asynchronous call is judged by the setting it    *)
(* was made under, whatever is set while it waits, unless it began while    *)
(* set_session_parameters was replacing the parameters.                     *)
THEOREM AsyncJudged == Spec => []AsyncJudgedAsMade
<1>1. IInv => AsyncJudgedAsMade
  BY DEF IInv, CallInv, CallInvOf, AsyncJudgedAsMade
<1> QED
  BY <1>1, Invariance, PTL

(* A blocking call compares with min_writes_ as it is after the wait: if    *)
(* the parameters are not being replaced and its setting is still the last  *)
(* one, that is the threshold of its setting.                               *)
THEOREM SyncJudged == Spec => SyncJudgedUndisturbed
<1>1. IInv /\ [Next]_vars => [\A c \in Calls : SyncAnswered(c)]_vars
  <2> SUFFICES ASSUME IInv, [Next]_vars, NEW c \in Calls,
                      mode[c] = "sync", answer[c] = "none", answer'[c] # "none",
                      setting[c] = asked, pc = "idle"
               PROVE  JudgedAsMade(c)'
    BY DEF SyncAnswered
  <2>1. Judge(c)
    <3>1. answer' # answer
      OBVIOUS
    <3>2. PICK d \in Calls : Judge(d)
      BY <3>1 DEF Next, SetGroups, SetMinWrites, Clamp, Begin, CopyGroups, CopyMinWrites, Finish,
                  Quiescent, vars, paramVars, callVars
    <3>3. d = c
      BY <3>2 DEF Judge, IInv, TypeOK
    <3> QED
      BY <3>2, <3>3
  <2>2. min_writes_ = Required(setting[c]) /\ Threshold(c) = min_writes_
    BY DEF IInv, ParamInv, Threshold
  <2>3. answer'[c] = Verdict(acked'[c], Required(setting'[c]))
    BY <2>1, <2>2 DEF Judge, IInv, TypeOK
  <2> QED
    BY <2>3 DEF JudgedAsMade
<1> QED
  BY <1>1, Invariance, PTL DEF Spec, SyncJudgedUndisturbed
-----------------------------------------------------------------------------
(* Induction on the naturals, for a set, by the least number outside it.    *)
LEMMA Induction ==
  ASSUME NEW S, 0 \in S, \A n \in Nat : n \in S => n + 1 \in S
  PROVE  Nat \subseteq S
<1> SUFFICES ASSUME Nat \ S # {} PROVE FALSE
  OBVIOUS
<1> DEFINE Less == OpToRel(<, Nat)
<1>1. IsWellFoundedOn(Less, Nat)
  BY NatLessThanWellFounded
<1>2. \A x, y \in Nat : y < x => <<y, x>> \in Less
  BY DEF OpToRel
<1> HIDE DEF Less
<1>3. PICK x \in Nat \ S : \A y \in Nat \ S : ~(<<y, x>> \in Less)
  BY <1>1, WFMin
<1>4. x # 0 /\ x - 1 \in Nat /\ x - 1 < x /\ (x - 1) + 1 = x
  OBVIOUS
<1>5. <<x - 1, x>> \in Less
  BY <1>2, <1>4
<1>6. x - 1 \in S
  BY <1>3, <1>4, <1>5
<1>7. (x - 1) + 1 \in S
  BY <1>4, <1>6
<1> QED
  BY <1>4, <1>7

(* The largest of some of the numbers 1..n. *)
LEMMA Largest ==
  ASSUME NEW n \in Nat, NEW t \in SUBSET (1..n), t # {}
  PROVE  Max(t) \in t /\ \A i \in t : i <= Max(t)
<1> DEFINE S == {k \in Nat : \A u \in SUBSET (1..k) : u # {} => \E x \in u : \A y \in u : x >= y}
<1>1. 0 \in S
  <2>1. \A u \in SUBSET (1..0) : u = {}
    OBVIOUS
  <2> QED
    BY <2>1
<1>2. ASSUME NEW k \in Nat, k \in S PROVE k + 1 \in S
  <2>1. ASSUME NEW u \in SUBSET (1..(k + 1)), u # {} PROVE \E x \in u : \A y \in u : x >= y
    <3>1. CASE k + 1 \in u
      BY <3>1
    <3>2. CASE k + 1 \notin u
      <4>1. u \in SUBSET (1..k)
        BY <3>2
      <4> QED
        BY <1>2, <2>1, <4>1
    <3> QED
      BY <3>1, <3>2
  <2> QED
    BY <2>1
<1> HIDE DEF S
<1>3. n \in S
  BY <1>1, <1>2, Induction
<1>4. \E x \in t : \A y \in t : x >= y
  BY <1>3 DEF S
<1>5. Max(t) \in t /\ \A y \in t : Max(t) >= y
  BY <1>4 DEF Max
<1>6. \A i \in t : i \in Nat
  OBVIOUS
<1> QED
  BY <1>5, <1>6

(* The function on the sets of places that a fold of the elements at those  *)
(* places is defined by: g takes the element at the last one.               *)
FoldsBy(f, n, base, g) ==
  f = [t \in SUBSET (1..n) |-> IF t = {} THEN base ELSE g[<<f[t \ {Max(t)}], Max(t)>>]]

(* There is one. *)
LEMMA FoldExists ==
  ASSUME NEW n \in Nat, NEW A, NEW base \in A, NEW g \in [A \X (1..n) -> A]
  PROVE  \E f \in [SUBSET (1..n) -> A] : FoldsBy(f, n, base, g)
<1> DEFINE P(k) == \E f \in [SUBSET (1..k) -> A] : FoldsBy(f, k, base, g)
           S == {k \in Nat : k <= n => P(k)}
<1>1. 0 \in S
  <2> DEFINE f == [t \in SUBSET (1..0) |-> base]
  <2>1. f \in [SUBSET (1..0) -> A]
    OBVIOUS
  <2>2. \A t \in SUBSET (1..0) : t = {}
    OBVIOUS
  <2>3. FoldsBy(f, 0, base, g)
    BY <2>2 DEF FoldsBy
  <2> HIDE DEF f
  <2>4. P(0)
    BY <2>1, <2>3
  <2> HIDE DEF P
  <2> QED
    BY <2>4
<1>2. ASSUME NEW k \in Nat, k \in S PROVE k + 1 \in S
  <2> HIDE DEF P
  <2> SUFFICES ASSUME k + 1 <= n, P(k) PROVE P(k + 1)
    BY <1>2
  <2>1. PICK e \in [SUBSET (1..k) -> A] : FoldsBy(e, k, base, g)
    BY DEF P
  <2>7. k + 1 \in Nat /\ k + 1 \in 1..n
    OBVIOUS
  <2> DEFINE f == [t \in SUBSET (1..(k + 1)) |->
                     IF k + 1 \in t THEN g[<<e[t \ {k + 1}], k + 1>>] ELSE e[t]]
  <2>2. ASSUME NEW t \in SUBSET (1..(k + 1)), k + 1 \in t
        PROVE  /\ t \ {k + 1} \in SUBSET (1..k) /\ f[t] = g[<<e[t \ {k + 1}], k + 1>>]
               /\ f[t] \in A /\ Max(t) = k + 1 /\ f[t \ {k + 1}] = e[t \ {k + 1}]
    <3>1. t \ {k + 1} \in SUBSET (1..k) /\ k + 1 \in 1..n
      BY <2>7
    <3>2. Max(t) \in t /\ \A i \in t : i <= Max(t)
      BY <2>2, <2>7, Largest
    <3>6. k + 1 <= Max(t) /\ Max(t) \in 1..(k + 1)
      BY <2>2, <3>2
    <3>3. Max(t) = k + 1
      BY <3>6
    <3>4. e[t \ {k + 1}] \in A
      BY <2>1, <3>1
    <3>5. t \ {k + 1} \in SUBSET (1..(k + 1))
      OBVIOUS
    <3> QED
      BY <2>2, <3>1, <3>3, <3>4, <3>5
  <2>3. ASSUME NEW t \in SUBSET (1..(k + 1)), k + 1 \notin t
        PROVE  t \in SUBSET (1..k) /\ f[t] = e[t] /\ f[t] \in A
    <3>1. t \in SUBSET (1..k)
      BY <2>3
    <3> QED
      BY <2>1, <2>3, <3>1
  <2>4. f \in [SUBSET (1..(k + 1)) -> A]
    BY <2>2, <2>3
  <2>5. ASSUME NEW t \in SUBSET (1..(k + 1))
        PROVE  f[t] = IF t = {} THEN base ELSE g[<<f[t \ {Max(t)}], Max(t)>>]
    <3>1. CASE k + 1 \in t
      <4> HIDE DEF f
      <4> QED
        BY <2>2, <3>1
    <3>2. CASE k + 1 \notin t
      <4>1. t \in SUBSET (1..k) /\ f[t] = e[t]
        BY <2>3, <3>2
      <4>2. e[t] = IF t = {} THEN base ELSE g[<<e[t \ {Max(t)}], Max(t)>>]
        BY <2>1, <4>1 DEF FoldsBy
      <4>3. f[t \ {Max(t)}] = e[t \ {Max(t)}]
        <5>1. t \ {Max(t)} \in SUBSET (1..(k + 1)) /\ k + 1 \notin t \ {Max(t)}
          BY <3>2
        <5> QED
          BY <2>3, <5>1
      <4> HIDE DEF f
      <4> QED
        BY <4>1, <4>2, <4>3
    <3> QED
      BY <3>1, <3>2
  <2> HIDE DEF f
  <2>6. FoldsBy(f, k + 1, base, g)
    BY <2>4, <2>5 DEF FoldsBy
  <2> QED
    BY <2>4, <2>6 DEF P
<1> HIDE DEF P, S
<1>3. n \in S
  BY <1>1, <1>2, Induction
<1>4. P(n)
  BY <1>3 DEF S
<1> QED
  BY <1>4 DEF P

(* The places up to one, without it. *)
LEMMA LastPlace ==
  ASSUME NEW n \in Nat, NEW k \in 1..n
  PROVE  /\ 1..k \in SUBSET (1..n) /\ 1..k # {} /\ Max(1..k) = k
         /\ (1..k) \ {k} = 1..(k - 1) /\ 1..(k - 1) \in SUBSET (1..n)
<1>1. 1..k \in SUBSET (1..n) /\ 1..k # {} /\ k \in 1..k /\ k \in Nat
  OBVIOUS
<1>2. Max(1..k) \in 1..k /\ k <= Max(1..k)
  BY <1>1, Largest
<1>3. Max(1..k) = k
  BY <1>2
<1>4. (1..k) \ {k} = 1..(k - 1) /\ 1..(k - 1) \in SUBSET (1..n)
  OBVIOUS
<1> QED
  BY <1>1, <1>3, <1>4

(* One digit more. *)
LEMMA NextNumber ==
  ASSUME NEW v \in Nat, NEW d \in 0..9
  PROVE  10 * v + d \in Nat
OBVIOUS

(* The number that the first digits of s denote, digit by digit. *)
LEMMA Places ==
  ASSUME NEW s \in Seq(0..9)
  PROVE  \E m \in [0..Len(s) -> Nat] :
           /\ m[0] = 0
           /\ \A k \in 1..Len(s) : m[k] = 10 * m[k - 1] + s[k]
           /\ FoldLeft(LAMBDA a, d : 10 * a + d, 0, s) = m[Len(s)]
<1> DEFINE n == Len(s)
           g == [p \in Nat \X (1..n) |-> 10 * p[1] + s[p[2]]]
           Folds(f) == f = [t \in SUBSET (1..n) |-> IF t = {} THEN 0 ELSE 10 * f[t \ {Max(t)}] + s[Max(t)]]
           iter == CHOOSE f : Folds(f)
           m == [k \in 0..n |-> iter[1..k]]
<1>1. n \in Nat /\ DOMAIN s = 1..n /\ \A i \in 1..n : s[i] \in 0..9
  OBVIOUS
<1>2. g \in [Nat \X (1..n) -> Nat] /\ \A a \in Nat : \A i \in 1..n : g[<<a, i>>] = 10 * a + s[i]
  <2> HIDE DEF n
  <2>1. \A p \in Nat \X (1..n) : 10 * p[1] + s[p[2]] \in Nat
    BY <1>1
  <2>2. \A a \in Nat : \A i \in 1..n : <<a, i>> \in Nat \X (1..n) /\ <<a, i>>[1] = a /\ <<a, i>>[2] = i
    OBVIOUS
  <2> QED
    BY <2>1, <2>2
<1> HIDE DEF g, n
<1>3. PICK f \in [SUBSET (1..n) -> Nat] : FoldsBy(f, n, 0, g)
  BY <1>1, <1>2, FoldExists
<1>4. Folds(f)
  <2>1. ASSUME NEW t \in SUBSET (1..n)
        PROVE  f[t] = IF t = {} THEN 0 ELSE 10 * f[t \ {Max(t)}] + s[Max(t)]
    <3>1. f[t] = IF t = {} THEN 0 ELSE g[<<f[t \ {Max(t)}], Max(t)>>]
      BY <1>3 DEF FoldsBy
    <3>2. CASE t # {}
      <4>1. Max(t) \in 1..n /\ t \ {Max(t)} \in SUBSET (1..n)
        BY <1>1, <3>2, Largest
      <4>2. f[t \ {Max(t)}] \in Nat
        BY <1>3, <4>1
      <4> QED
        BY <1>2, <3>1, <3>2, <4>1, <4>2
    <3> QED
      BY <3>1, <3>2
  <2> QED
    BY <1>3, <2>1
<1> HIDE DEF Folds
<1>5. Folds(iter)
  BY <1>4
<1>6. FoldLeft(LAMBDA a, d : 10 * a + d, 0, s) = iter[1..n]
  <2>1. FoldLeft(LAMBDA a, d : 10 * a + d, 0, s) = iter[DOMAIN s]
    BY <1>1, Zenon DEF FoldLeft, MapThenFoldSet, Folds
  <2> QED
    BY <1>1, <2>1
<1> HIDE DEF iter
<1>7. iter[1..0] = 0
  <2>1. 1..0 = {} /\ {} \in SUBSET (1..n)
    OBVIOUS
  <2> QED
    BY <1>5, <2>1 DEF Folds
<1>8. ASSUME NEW k \in 1..n PROVE iter[1..k] = 10 * iter[1..(k - 1)] + s[k]
  <2>1. iter[1..k] = IF 1..k = {} THEN 0 ELSE 10 * iter[(1..k) \ {Max(1..k)}] + s[Max(1..k)]
    BY <1>1, <1>5, LastPlace DEF Folds
  <2> QED
    BY <1>1, <2>1, LastPlace
<1>9. \A k \in 0..n : iter[1..k] \in Nat
  <2> DEFINE S == {k \in Nat : k <= n => iter[1..k] \in Nat}
  <2>1. 0 \in S
    BY <1>7
  <2>2. ASSUME NEW k \in Nat, k \in S PROVE k + 1 \in S
    <3> SUFFICES ASSUME k + 1 <= n PROVE iter[1..(k + 1)] \in Nat
      OBVIOUS
    <3>1. k + 1 \in 1..n /\ (k + 1) - 1 = k /\ iter[1..k] \in Nat
      BY <1>1, <2>2
    <3>2. \A i \in 1..n : iter[1..i] = 10 * iter[1..(i - 1)] + s[i]
      BY <1>8
    <3>3. iter[1..(k + 1)] = 10 * iter[1..k] + s[k + 1]
      BY <3>1, <3>2
    <3>4. s[k + 1] \in 0..9
      BY <1>1, <3>1
    <3>5. 10 * iter[1..k] + s[k + 1] \in Nat
      BY <3>1, <3>4, NextNumber
    <3> QED
      BY <3>3, <3>5
  <2> HIDE DEF S
  <2>3. Nat \subseteq S
    BY <2>1, <2>2, Induction
  <2> QED
    BY <1>1, <2>3 DEF S
<1>10. m \in [0..n -> Nat] /\ \A k \in 0..n : m[k] = iter[1..k]
  BY <1>9
<1> HIDE DEF m
<1>11. m[0] = 0 /\ m[n] = iter[1..n]
  BY <1>1, <1>7, <1>10
<1>12. ASSUME NEW k \in 1..n PROVE m[k] = 10 * m[k - 1] + s[k]
  <2>1. k \in 0..n /\ k - 1 \in 0..n
    BY <1>1
  <2> QED
    BY <1>8, <1>10, <2>1
<1> QED
  BY <1>6, <1>10, <1>11, <1>12 DEF n

(* With one element more a set has twice as many subsets. *)
LEMMA Subsets ==
  ASSUME NEW R, NEW x, x \notin R, IsFiniteSet(SUBSET R)
  PROVE  Cardinality(SUBSET (R \cup {x})) = Cardinality(SUBSET R) + Cardinality(SUBSET R)
<1> DEFINE U == {T \cup {x} : T \in SUBSET R}
           f == [T \in SUBSET R |-> T \cup {x}]
<1>1. f \in [SUBSET R -> U] /\ \A T \in SUBSET R : f[T] = T \cup {x}
  OBVIOUS
<1>2. \A u \in U : \E T \in SUBSET R : f[T] = u
  OBVIOUS
<1>3. \A T, V \in SUBSET R : f[T] = f[V] => T = V
  OBVIOUS
<1>4. (SUBSET R) \cap U = {}
  OBVIOUS
<1>5. SUBSET (R \cup {x}) = (SUBSET R) \cup U
  <2>1. ASSUME NEW T \in SUBSET (R \cup {x}) PROVE T \in (SUBSET R) \cup U
    <3>1. T \ {x} \in SUBSET R /\ (x \in T => T = (T \ {x}) \cup {x})
      OBVIOUS
    <3>2. CASE x \in T
      BY <3>1, <3>2
    <3>3. CASE x \notin T
      BY <3>3
    <3> QED
      BY <3>2, <3>3
  <2>2. ASSUME NEW T \in (SUBSET R) \cup U PROVE T \in SUBSET (R \cup {x})
    OBVIOUS
  <2> QED
    BY <2>1, <2>2
<1> HIDE DEF f, U
<1>6. DOMAIN f = SUBSET R
  BY <1>1
<1>7. f \in Bijection(SUBSET R, U)
  BY <1>1, <1>2, <1>3, <1>6 DEF Bijection, Injection, Surjection, IsInjective
<1>8. IsFiniteSet(U) /\ Cardinality(U) = Cardinality(SUBSET R)
  BY <1>7, FS_Bijection DEF ExistsBijection
<1>9. Cardinality((SUBSET R) \cup U) = Cardinality(SUBSET R) + Cardinality(U) - Cardinality((SUBSET R) \cap U)
  BY <1>8, FS_Union
<1>10. Cardinality((SUBSET R) \cap U) = 0
  BY <1>4, FS_EmptySet
<1>11. Cardinality(SUBSET R) \in Nat
  BY FS_CardinalityType
<1>12. Cardinality((SUBSET R) \cup U) = Cardinality(SUBSET R) + Cardinality(SUBSET R)
  BY <1>8, <1>9, <1>10, <1>11, SMT
<1> QED
  BY <1>5, <1>12

(* A power of two, as the number of subsets, and the next one. *)
LEMMA Powers ==
  ASSUME NEW n \in Nat
  PROVE  2^n \in Nat \ {0} /\ 2^(n + 1) = 2^n + 2^n
<1>1. IsFiniteSet(1..n) /\ Cardinality(1..n) = n /\ IsFiniteSet(1..(n+1)) /\ Cardinality(1..(n+1)) = n + 1
  BY FS_Interval
<1>2. IsFiniteSet(SUBSET (1..n)) /\ Cardinality(SUBSET (1..n)) = 2^n /\ Cardinality(SUBSET (1..(n+1))) = 2^(n + 1)
  BY <1>1, FS_SUBSET
<1>3. Cardinality(SUBSET (1..n)) \in Nat \ {0}
  <2>1. SUBSET (1..n) # {}
    OBVIOUS
  <2> QED
    BY <1>2, <2>1, FS_CardinalityType, FS_EmptySet
<1>4. 1..(n + 1) = (1..n) \cup {n + 1} /\ n + 1 \notin 1..n
  OBVIOUS
<1>5. Cardinality(SUBSET (1..(n + 1))) = Cardinality(SUBSET (1..n)) + Cardinality(SUBSET (1..n))
  BY <1>2, <1>4, Subsets
<1> QED
  BY <1>2, <1>3, <1>5

-----------------------------------------------------------------------------
States == [width : Nat, value : Nat]

(* The widths, and the ranges of the types. *)
LEMMA Ranges ==
  /\ IntBits \in Nat /\ IntBits - 1 \in Nat /\ Wide \in Nat /\ Wide - 1 \in Nat /\ DoubleWidth \in Nat
  /\ IntBits < Wide /\ Wide < DoubleWidth
  /\ 2^(IntBits - 1) \in Nat \ {0} /\ 2^IntBits = 2^(IntBits - 1) + 2^(IntBits - 1)
  /\ 2^(Wide - 1) \in Nat \ {0} /\ 2^Wide = 2^(Wide - 1) + 2^(Wide - 1)
<1>1. /\ IntBits \in Nat /\ IntBits - 1 \in Nat /\ Wide \in Nat /\ Wide - 1 \in Nat /\ DoubleWidth \in Nat
      /\ IntBits < Wide /\ Wide < DoubleWidth
  BY IntBitsAssumption DEF Wide, DoubleWidth
<1>2. (IntBits - 1) + 1 = IntBits /\ (Wide - 1) + 1 = Wide
  BY <1>1
<1> HIDE DEF Wide
<1> QED
  BY <1>1, <1>2, Powers

(* Fits: there is room for another digit if the number with it is within    *)
(* the limit.                                                               *)
LEMMA FitsBelow ==
  ASSUME NEW v \in Nat, NEW d \in 0..9, NEW limit \in Nat
  PROVE  Fits(v, d, limit) <=> 10 * v + d <= limit
BY DEF Fits

(* A remainder that is not one. *)
LEMMA Remainder ==
  ASSUME NEW b \in Nat \ {0}, NEW x \in 0..(b - 1)
  PROVE  x % b = x
OBVIOUS

(* One digit more, where there is room for it, or for it in a wider type.   *)
LEMMA OneDigit ==
  ASSUME NEW minus \in BOOLEAN, NEW r \in States, NEW d \in 0..9
  PROVE  /\ TakeDigit(minus, r, d) \in States
         /\ r.width = IntBits /\ 10 * r.value + d <= Limit(minus, IntBits)
              => TakeDigit(minus, r, d) = [width |-> IntBits, value |-> 10 * r.value + d]
<1> DEFINE widths == {w \in {IntBits, Wide} : w >= r.width /\ Fits(r.value, d, Limit(minus, w))}
           width == IF widths = {} THEN DoubleWidth ELSE CHOOSE w \in widths : \A x \in widths : w <= x
           v == 10 * r.value + d
<1>1. TakeDigit(minus, r, d) = [width |-> width, value |-> IF widths = {} THEN 0 ELSE v % 2^width]
  BY DEF TakeDigit
<1>2. r.value \in Nat /\ r.width \in Nat /\ v \in Nat
  BY DEF States
<1>3. widths # {} => width \in widths /\ \A x \in widths : width <= x
  <2>1. widths # {} => \E w \in widths : \A x \in widths : w <= x
    <3>1. CASE IntBits \in widths
      BY <3>1, Ranges
    <3>2. CASE IntBits \notin widths
      BY <3>2, Ranges
    <3> QED
      BY <3>1, <3>2
  <2> QED
    BY <2>1
<1>4. width \in {IntBits, Wide, DoubleWidth} /\ width \in Nat
  BY <1>3, Ranges
<1>5. 2^width \in Nat \ {0}
  BY <1>4, Powers
<1> HIDE DEF width, widths, v
<1>6. v % 2^width \in Nat
  BY <1>2, <1>5
<1>7. TakeDigit(minus, r, d) \in States
  BY <1>1, <1>4, <1>6 DEF States
<1>8. ASSUME r.width = IntBits, v <= Limit(minus, IntBits)
      PROVE  TakeDigit(minus, r, d) = [width |-> IntBits, value |-> v]
  <2>1. Limit(minus, IntBits) \in Nat /\ Limit(minus, IntBits) <= 2^IntBits - 1
    BY Ranges DEF Limit
  <2>2. Fits(r.value, d, Limit(minus, IntBits))
    BY <1>2, <1>8, <2>1, FitsBelow DEF v
  <2>3. IntBits \in widths
    BY <1>8, <2>2, Ranges DEF widths
  <2>4. width = IntBits
    <3>1. width \in {IntBits, Wide} /\ width <= IntBits
      BY <1>3, <2>3 DEF widths
    <3> QED
      BY <3>1, Ranges
  <2>5. v \in 0..(2^IntBits - 1) /\ 2^IntBits \in Nat \ {0}
    BY <1>2, <1>8, <2>1, Ranges
  <2>6. v % 2^IntBits = v
    BY <2>5, Remainder
  <2> QED
    BY <1>1, <2>3, <2>4, <2>6
<1> QED
  BY <1>7, <1>8 DEF v

(* What is kept of the first digits of a numeral, digit by digit. *)
LEMMA Taken ==
  ASSUME NEW minus \in BOOLEAN, NEW s \in Seq(0..9)
  PROVE  \E r \in [0..Len(s) -> States] :
           /\ r[0] = [width |-> IntBits, value |-> 0]
           /\ \A k \in 1..Len(s) : r[k] = TakeDigit(minus, r[k - 1], s[k])
           /\ FoldLeft(LAMBDA q, d : TakeDigit(minus, q, d), [width |-> IntBits, value |-> 0], s) = r[Len(s)]
<1> DEFINE n == Len(s)
           base == [width |-> IntBits, value |-> 0]
           g == [p \in States \X (1..n) |-> TakeDigit(minus, p[1], s[p[2]])]
           Folds(f) == f = [t \in SUBSET (1..n) |->
                              IF t = {} THEN base ELSE TakeDigit(minus, f[t \ {Max(t)}], s[Max(t)])]
           iter == CHOOSE f : Folds(f)
           r == [k \in 0..n |-> iter[1..k]]
<1>1. n \in Nat /\ DOMAIN s = 1..n /\ (\A i \in 1..n : s[i] \in 0..9) /\ base \in States
  BY Ranges DEF States
<1>2. g \in [States \X (1..n) -> States] /\ \A q \in States : \A i \in 1..n : g[<<q, i>>] = TakeDigit(minus, q, s[i])
  <2>1. \A q \in States : \A i \in 1..n : TakeDigit(minus, q, s[i]) \in States
    BY <1>1, OneDigit
  <2> HIDE DEF n
  <2> QED
    BY <2>1
<1>6. FoldLeft(LAMBDA q, d : TakeDigit(minus, q, d), base, s) = iter[1..n]
  <2>1. FoldLeft(LAMBDA q, d : TakeDigit(minus, q, d), base, s) = iter[DOMAIN s]
    BY <1>1, Zenon DEF FoldLeft, MapThenFoldSet
  <2> QED
    BY <1>1, <2>1
<1> HIDE DEF g, n, base
<1>3. PICK f \in [SUBSET (1..n) -> States] : FoldsBy(f, n, base, g)
  BY <1>1, <1>2, FoldExists
<1>4. Folds(f)
  <2>1. ASSUME NEW t \in SUBSET (1..n)
        PROVE  f[t] = IF t = {} THEN base ELSE TakeDigit(minus, f[t \ {Max(t)}], s[Max(t)])
    <3>1. f[t] = IF t = {} THEN base ELSE g[<<f[t \ {Max(t)}], Max(t)>>]
      BY <1>3 DEF FoldsBy
    <3>2. CASE t # {}
      <4>1. Max(t) \in 1..n /\ t \ {Max(t)} \in SUBSET (1..n)
        BY <1>1, <3>2, Largest
      <4>2. f[t \ {Max(t)}] \in States
        BY <1>3, <4>1
      <4> QED
        BY <1>2, <3>1, <3>2, <4>1, <4>2
    <3> QED
      BY <3>1, <3>2
  <2> QED
    BY <1>3, <2>1
<1> HIDE DEF Folds
<1>5. Folds(iter)
  BY <1>4
<1> HIDE DEF iter
<1>7. iter[1..0] = base
  <2>1. 1..0 = {} /\ {} \in SUBSET (1..n)
    OBVIOUS
  <2> QED
    BY <1>5, <2>1 DEF Folds
<1>8. ASSUME NEW k \in 1..n PROVE iter[1..k] = TakeDigit(minus, iter[1..(k - 1)], s[k])
  <2>1. iter[1..k] = IF 1..k = {} THEN base ELSE TakeDigit(minus, iter[(1..k) \ {Max(1..k)}], s[Max(1..k)])
    BY <1>1, <1>5, LastPlace DEF Folds
  <2> QED
    BY <1>1, <2>1, LastPlace
<1>9. \A k \in 0..n : iter[1..k] \in States
  <2> DEFINE S == {k \in Nat : k <= n => iter[1..k] \in States}
  <2>1. 0 \in S
    BY <1>1, <1>7
  <2>2. ASSUME NEW k \in Nat, k \in S PROVE k + 1 \in S
    <3> SUFFICES ASSUME k + 1 <= n PROVE iter[1..(k + 1)] \in States
      OBVIOUS
    <3>1. k + 1 \in 1..n /\ (k + 1) - 1 = k /\ iter[1..k] \in States
      BY <1>1, <2>2
    <3>2. iter[1..(k + 1)] = TakeDigit(minus, iter[1..k], s[k + 1]) /\ s[k + 1] \in 0..9
      BY <1>1, <1>8, <3>1
    <3> QED
      BY <3>1, <3>2, OneDigit
  <2> HIDE DEF S
  <2>3. Nat \subseteq S
    BY <2>1, <2>2, Induction
  <2> QED
    BY <1>1, <2>3 DEF S
<1>10. r \in [0..n -> States] /\ \A k \in 0..n : r[k] = iter[1..k]
  BY <1>9
<1> HIDE DEF r
<1>11. r[0] = base /\ r[n] = iter[1..n]
  BY <1>1, <1>7, <1>10
<1>12. ASSUME NEW k \in 1..n PROVE r[k] = TakeDigit(minus, r[k - 1], s[k])
  <2>1. k \in 0..n /\ k - 1 \in 0..n
    BY <1>1
  <2> QED
    BY <1>8, <1>10, <2>1
<1> QED
  BY <1>6, <1>10, <1>11, <1>12 DEF n, base

(* What is kept of a number m: the number itself, in the narrowest type     *)
(* that has room for it.                                                    *)
Holds(minus, r, m) ==
  \/ r = [width |-> IntBits, value |-> m] /\ m <= Limit(minus, IntBits)
  \/ r = [width |-> Wide, value |-> m] /\ m > Limit(minus, IntBits) /\ m <= Limit(minus, Wide)
  \/ r.width = DoubleWidth /\ m > Limit(minus, Wide)

(* An int's range is within that of the wide type. *)
LEMMA Widths == 2^IntBits <= 2^(Wide - 1)
<1> DEFINE S == {k \in Nat : 2^IntBits <= 2^(IntBits + k)}
<1>1. 0 \in S
  <2>1. IntBits + 0 = IntBits /\ 2^IntBits \in Nat
    BY Ranges
  <2> QED
    BY <2>1
<1>2. ASSUME NEW k \in Nat, k \in S PROVE k + 1 \in S
  <2>1. IntBits + k \in Nat /\ IntBits + (k + 1) = (IntBits + k) + 1 /\ 2^IntBits \in Nat
    BY Ranges
  <2>2. 2^(IntBits + k) \in Nat /\ 2^((IntBits + k) + 1) = 2^(IntBits + k) + 2^(IntBits + k)
    BY <2>1, Powers
  <2>3. 2^IntBits <= 2^(IntBits + k)
    BY <1>2
  <2>4. 2^IntBits <= 2^((IntBits + k) + 1)
    BY <2>1, <2>2, <2>3
  <2> QED
    BY <2>1, <2>4
<1> HIDE DEF S
<1>3. Nat \subseteq S
  BY <1>1, <1>2, Induction
<1>4. IntBits - 1 \in Nat /\ IntBits + (IntBits - 1) = Wide - 1
  BY IntBitsAssumption DEF Wide
<1>5. IntBits - 1 \in S
  BY <1>3, <1>4
<1> QED
  BY <1>4, <1>5 DEF S

(* The limits, the one of an int below the other.                           *)
LEMMA Limits ==
  ASSUME NEW minus \in BOOLEAN
  PROVE  /\ Limit(minus, IntBits) \in Nat /\ Limit(minus, IntBits) < 2^IntBits
         /\ Limit(minus, Wide) \in Nat /\ Limit(minus, Wide) < 2^Wide
         /\ Limit(minus, IntBits) < Limit(minus, Wide)
<1>1. 2^IntBits <= 2^(Wide - 1)
  BY Widths
<1>2. CASE minus
  BY <1>1, <1>2, Ranges DEF Limit
<1>3. CASE ~minus
  BY <1>1, <1>3, Ranges DEF Limit
<1> QED
  BY <1>2, <1>3

(* With one digit more, it is kept of the number with that digit. *)
LEMMA HoldsDigit ==
  ASSUME NEW minus \in BOOLEAN, NEW r \in States, NEW m \in Nat, Holds(minus, r, m), NEW d \in 0..9
  PROVE  Holds(minus, TakeDigit(minus, r, d), 10 * m + d)
<1> DEFINE widths == {w \in {IntBits, Wide} : w >= r.width /\ Fits(r.value, d, Limit(minus, w))}
           width == IF widths = {} THEN DoubleWidth ELSE CHOOSE w \in widths : \A x \in widths : w <= x
           v == 10 * m + d
<1>1. TakeDigit(minus, r, d) = [width |-> width, value |-> IF widths = {} THEN 0 ELSE (10 * r.value + d) % 2^width]
  BY DEF TakeDigit
<1>2. r.width \in Nat /\ r.value \in Nat /\ v \in Nat /\ v >= m
  BY DEF States
<1>3. \A w \in widths : w \in {IntBits, Wide} /\ w >= r.width
  OBVIOUS
<1>4. \A w \in widths : (\A x \in widths : w <= x) => width = w
  <2>1. \A w, x \in widths : w \in Nat /\ (w <= x /\ x <= w => w = x)
    BY <1>3, Ranges
  <2> QED
    BY <2>1
<1>5. CASE r.width = DoubleWidth
  <2>1. widths = {}
    BY <1>3, <1>5, Ranges
  <2>2. v > Limit(minus, Wide)
    <3>1. m > Limit(minus, Wide)
      BY <1>5, Ranges DEF Holds
    <3> QED
      BY <1>2, <3>1, Limits
  <2> QED
    BY <1>1, <2>1, <2>2 DEF Holds
<1>6. CASE r.width # DoubleWidth
  <2>1. r.value = m /\ r.width \in {IntBits, Wide} /\ (r.width = Wide => m > Limit(minus, IntBits))
    BY <1>6, Ranges DEF Holds
  <2>2. \A w \in {IntBits, Wide} : w \in widths <=> w >= r.width /\ v <= Limit(minus, w)
    <3>1. \A w \in {IntBits, Wide} : Fits(r.value, d, Limit(minus, w)) <=> v <= Limit(minus, w)
      BY <2>1, FitsBelow, Limits
    <3> QED
      BY <3>1
  <2> HIDE DEF widths, width, v
  <2>3. CASE v <= Limit(minus, IntBits)
    <3>1. r.width = IntBits /\ IntBits \in widths
      BY <1>2, <2>1, <2>2, <2>3, Limits, Ranges
    <3>2. width = IntBits
      BY <1>3, <1>4, <3>1, Ranges
    <3>3. v % 2^IntBits = v
      <4>1. v \in 0..(2^IntBits - 1) /\ 2^IntBits \in Nat \ {0}
        BY <1>2, <2>3, Limits, Ranges
      <4> QED
        BY <4>1, Remainder
    <3>4. TakeDigit(minus, r, d) = [width |-> IntBits, value |-> v]
      BY <1>1, <2>1, <3>1, <3>2, <3>3 DEF v
    <3> QED
      BY <2>3, <3>4 DEF Holds, v
  <2>4. CASE v > Limit(minus, IntBits) /\ v <= Limit(minus, Wide)
    <3>1. Wide \in widths /\ IntBits \notin widths
      BY <1>2, <2>1, <2>2, <2>4, Limits, Ranges
    <3>2. width = Wide
      BY <1>3, <1>4, <3>1, Ranges
    <3>3. v % 2^Wide = v
      <4>1. v \in 0..(2^Wide - 1) /\ 2^Wide \in Nat \ {0}
        BY <1>2, <2>4, Limits, Ranges
      <4> QED
        BY <4>1, Remainder
    <3>4. TakeDigit(minus, r, d) = [width |-> Wide, value |-> v]
      BY <1>1, <2>1, <3>1, <3>2, <3>3 DEF v
    <3> QED
      BY <2>4, <3>4 DEF Holds, v
  <2>5. CASE v > Limit(minus, Wide)
    <3>1. widths = {}
      BY <1>2, <1>3, <2>2, <2>5, Limits
    <3>2. TakeDigit(minus, r, d) = [width |-> DoubleWidth, value |-> 0]
      BY <1>1, <3>1 DEF width
    <3> QED
      BY <2>5, <3>2 DEF Holds, v
  <2> QED
    BY <1>2, <2>3, <2>4, <2>5, Limits
<1> QED
  BY <1>5, <1>6

(* What is kept of a numeral is kept of the number it denotes, which is     *)
(* that of its last digit.                                                  *)
LEMMA ParsedValue ==
  ASSUME NEW n \in Numerals
  PROVE  \E m \in [0..Len(n.digits) -> Nat], r \in States :
           /\ m[0] = 0 /\ \A k \in 1..Len(n.digits) : m[k] = 10 * m[k - 1] + n.digits[k]
           /\ Meaning(n) = IF n.minus THEN -m[Len(n.digits)] ELSE m[Len(n.digits)]
           /\ Holds(n.minus, r, m[Len(n.digits)])
           /\ ParseNumber(n) =
                IF n.fraction \/ r.width = DoubleWidth THEN OfDouble
                ELSE IF n.minus THEN IF r.width = Wide THEN OfInt64(Signed(-r.value, Wide))
                                     ELSE OfInt(Signed(-r.value, IntBits))
                ELSE IF r.width = Wide THEN OfUint64(r.value) ELSE OfUint(r.value)
<1> DEFINE s == n.digits
<1>1. n.minus \in BOOLEAN /\ s \in Seq(0..9) /\ Len(s) \in Nat
  BY DEF Numerals
<1>2. PICK m \in [0..Len(s) -> Nat] :
        /\ m[0] = 0
        /\ \A k \in 1..Len(s) : m[k] = 10 * m[k - 1] + s[k]
        /\ FoldLeft(LAMBDA a, d : 10 * a + d, 0, n.digits) = m[Len(s)]
  BY <1>1, Places
<1>3. PICK q \in [0..Len(s) -> States] :
        /\ q[0] = [width |-> IntBits, value |-> 0]
        /\ \A k \in 1..Len(s) : q[k] = TakeDigit(n.minus, q[k - 1], s[k])
        /\ FoldLeft(LAMBDA x, d : TakeDigit(n.minus, x, d), [width |-> IntBits, value |-> 0], n.digits) = q[Len(s)]
  BY <1>1, Taken
<1>4. ASSUME NEW k \in Nat, k <= Len(s) PROVE Holds(n.minus, q[k], m[k])
  <2> DEFINE S == {i \in Nat : i <= Len(s) => Holds(n.minus, q[i], m[i])}
  <2>1. 0 \in S
    <3>1. Holds(n.minus, q[0], m[0])
      <4>1. q[0] = [width |-> IntBits, value |-> m[0]] /\ m[0] = 0
        BY <1>2, <1>3
      <4>2. Limit(n.minus, IntBits) \in Nat
        BY <1>1, Limits
      <4>3. m[0] <= Limit(n.minus, IntBits)
        BY <4>1, <4>2
      <4> QED
        BY <4>1, <4>3 DEF Holds
    <3> QED
      BY <3>1
  <2>2. ASSUME NEW i \in Nat, i \in S PROVE i + 1 \in S
    <3> SUFFICES ASSUME i + 1 <= Len(s), Holds(n.minus, q[i], m[i]) PROVE Holds(n.minus, q[i + 1], m[i + 1])
      BY <1>1, <2>2
    <3>1. i + 1 \in 1..Len(s) /\ (i + 1) - 1 = i /\ i \in 0..Len(s) /\ s[i + 1] \in 0..9
      BY <1>1
    <3>2. q[i + 1] = TakeDigit(n.minus, q[i], s[i + 1]) /\ m[i + 1] = 10 * m[i] + s[i + 1]
      BY <1>2, <1>3, <3>1
    <3>3. q[i] \in States /\ m[i] \in Nat
      BY <1>2, <1>3, <3>1
    <3> QED
      BY <1>1, <3>1, <3>2, <3>3, HoldsDigit
  <2> HIDE DEF S
  <2>3. Nat \subseteq S
    BY <2>1, <2>2, Induction
  <2> QED
    BY <1>4, <2>3 DEF S
<1>5. Holds(n.minus, q[Len(s)], m[Len(s)]) /\ q[Len(s)] \in States
  <2>1. Len(s) \in Nat /\ Len(s) <= Len(s) /\ Len(s) \in 0..Len(s)
    BY <1>1
  <2> QED
    BY <1>3, <1>4, <2>1
<1>6. Meaning(n) = IF n.minus THEN -m[Len(s)] ELSE m[Len(s)]
  BY <1>2 DEF Meaning
<1>7. ParseNumber(n) =
        IF n.fraction \/ q[Len(s)].width = DoubleWidth THEN OfDouble
        ELSE IF n.minus THEN IF q[Len(s)].width = Wide THEN OfInt64(Signed(-q[Len(s)].value, Wide))
                             ELSE OfInt(Signed(-q[Len(s)].value, IntBits))
        ELSE IF q[Len(s)].width = Wide THEN OfUint64(q[Len(s)].value) ELSE OfUint(q[Len(s)].value)
  BY <1>3 DEF ParseNumber
<1> QED
  BY <1>2, <1>5, <1>6, <1>7


(* A number that an int holds is read back as it is, when it was kept as    *)
(* signed and when as unsigned.                                             *)
LEMMA SignedInRange ==
  ASSUME NEW b \in Nat, 2^(b - 1) \in Nat \ {0}, 2^b = 2^(b - 1) + 2^(b - 1),
         NEW x \in Int, -(2^(b - 1)) <= x, x < 2^(b - 1)
  PROVE  Signed(x, b) = x
<1> DEFINE h == 2^(b - 1)
<1>1. h \in Nat \ {0} /\ -h <= x /\ x < h /\ 2^b = h + h /\ Signed(x, b) = ((x + h) % 2^b) - h
  BY DEF Signed
<1> HIDE DEF h
<1>2. h + h \in Nat \ {0} /\ x + h \in 0..((h + h) - 1)
  BY <1>1
<1>3. (x + h) % (h + h) = x + h
  BY <1>2, Remainder
<1> QED
  BY <1>1, <1>3

(* GetInt of a numeral without a fraction that an int holds. *)
LEMMA IntsRead ==
  ASSUME NEW n \in Numerals, ~n.fraction,
         -(2^(IntBits - 1)) <= Meaning(n), Meaning(n) < 2^(IntBits - 1)
  PROVE  Signed(ParseNumber(n).value, IntBits) = Meaning(n) /\ Meaning(n) \in Int
<1> DEFINE h == 2^(IntBits - 1)
<1>1. PICK m \in Nat, r \in States :
        /\ Meaning(n) = IF n.minus THEN -m ELSE m
        /\ Holds(n.minus, r, m)
        /\ ParseNumber(n) =
             IF n.fraction \/ r.width = DoubleWidth THEN OfDouble
             ELSE IF n.minus THEN IF r.width = Wide THEN OfInt64(Signed(-r.value, Wide))
                                  ELSE OfInt(Signed(-r.value, IntBits))
             ELSE IF r.width = Wide THEN OfUint64(r.value) ELSE OfUint(r.value)
  <2>1. Len(n.digits) \in Nat /\ Len(n.digits) \in 0..Len(n.digits)
    BY DEF Numerals
  <2> QED
    BY <2>1, ParsedValue
<1>2. h \in Nat \ {0} /\ 2^IntBits = h + h /\ IntBits \in Nat /\ n.minus \in BOOLEAN
  BY Ranges DEF Numerals
<1>3. m <= Limit(n.minus, IntBits)
  BY <1>1, <1>2 DEF Limit
<1>4. r.width = IntBits /\ r.value = m
  BY <1>1, <1>3, Limits, Ranges, <1>2 DEF Holds
<1> HIDE DEF h
<1>5. \A x \in Int : -h <= x /\ x < h => Signed(x, IntBits) = x
  BY <1>2, SignedInRange DEF h
<1>6. CASE n.minus
  <2>1. Signed(-m, IntBits) = -m /\ -m \in Int /\ Meaning(n) = -m
    BY <1>1, <1>5, <1>6 DEF h
  <2>2. ParseNumber(n).value = -m
    BY <1>1, <1>4, <1>6, <2>1, Ranges DEF OfInt, Value
  <2> QED
    BY <2>1, <2>2
<1>7. CASE ~n.minus
  <2>1. Signed(m, IntBits) = m /\ Meaning(n) = m
    BY <1>1, <1>5, <1>7 DEF h
  <2>2. ParseNumber(n).value = m
    BY <1>1, <1>4, <1>7, Ranges DEF OfUint, Value
  <2> QED
    BY <2>1, <2>2
<1> QED
  BY <1>6, <1>7

-----------------------------------------------------------------------------
(* f gives the digits of the numbers up to k. *)
DigitsUpTo(f, k) ==
  \A u \in 0..k : f[u] = IF u < 10 THEN <<u>> ELSE Append(f[u \div 10], u % 10)

(* A tenth of a number, and its last digit. *)
LEMMA Tenth ==
  ASSUME NEW u \in Nat
  PROVE  /\ u \div 10 \in Nat /\ u % 10 \in 0..9 /\ u = 10 * (u \div 10) + (u % 10)
         /\ u \div 10 <= u /\ (u >= 10 => u \div 10 < u)
OBVIOUS

(* There is one such function for every k. *)
LEMMA DigitsExist == \A k \in Nat : \E f \in [0..k -> Seq(Nat)] : DigitsUpTo(f, k)
<1> DEFINE P(k) == \E f \in [0..k -> Seq(Nat)] : DigitsUpTo(f, k)
           S == {k \in Nat : P(k)}
<1>1. P(0)
  <2> DEFINE f == [u \in 0..0 |-> <<u>>]
  <2>1. f \in [0..0 -> Seq(Nat)]
    OBVIOUS
  <2>2. \A u \in 0..0 : u < 10 /\ f[u] = <<u>>
    OBVIOUS
  <2> HIDE DEF f
  <2> QED
    BY <2>1, <2>2 DEF DigitsUpTo
<1>2. ASSUME NEW k \in Nat, P(k) PROVE P(k + 1)
  <2>1. PICK e \in [0..k -> Seq(Nat)] : DigitsUpTo(e, k)
    BY <1>2
  <2> DEFINE last == IF k + 1 < 10 THEN <<k + 1>> ELSE Append(e[(k + 1) \div 10], (k + 1) % 10)
             f == [u \in 0..(k + 1) |-> IF u = k + 1 THEN last ELSE e[u]]
  <2>2. k + 1 >= 10 => (k + 1) \div 10 \in 0..k
    BY Tenth
  <2>3. last \in Seq(Nat)
    <3>1. CASE k + 1 < 10
      BY <3>1
    <3>2. CASE ~(k + 1 < 10)
      <4>1. e[(k + 1) \div 10] \in Seq(Nat) /\ (k + 1) % 10 \in Nat
        BY <2>1, <2>2, <3>2, Tenth
      <4> QED
        BY <3>2, <4>1
    <3> QED
      BY <3>1, <3>2
  <2> HIDE DEF last
  <2>4. f \in [0..(k + 1) -> Seq(Nat)] /\ f[k + 1] = last /\ \A u \in 0..k : f[u] = e[u]
    BY <2>1, <2>3
  <2> HIDE DEF f
  <2>5. ASSUME NEW u \in 0..(k + 1)
        PROVE  f[u] = IF u < 10 THEN <<u>> ELSE Append(f[u \div 10], u % 10)
    <3>1. CASE u = k + 1
      <4>1. k + 1 >= 10 => f[(k + 1) \div 10] = e[(k + 1) \div 10]
        BY <2>2, <2>4
      <4> QED
        BY <2>4, <3>1, <4>1 DEF last
    <3>2. CASE u # k + 1
      <4>1. u \in 0..k /\ u \in Nat
        BY <3>2
      <4>2. u \div 10 \in 0..k
        BY <4>1, Tenth
      <4>3. e[u] = IF u < 10 THEN <<u>> ELSE Append(e[u \div 10], u % 10)
        BY <2>1, <4>1 DEF DigitsUpTo
      <4> QED
        BY <2>4, <4>1, <4>2, <4>3
    <3> QED
      BY <3>1, <3>2
  <2> QED
    BY <2>4, <2>5 DEF DigitsUpTo
<1> HIDE DEF P
<1>3. 0 \in S /\ \A k \in Nat : k \in S => k + 1 \in S
  BY <1>1, <1>2
<1> HIDE DEF S
<1>4. Nat \subseteq S
  BY <1>3, Induction
<1> QED
  BY <1>4 DEF S, P

(* They agree where they overlap. *)
LEMMA DigitsAgree ==
  ASSUME NEW k \in Nat, NEW l \in Nat, NEW f, NEW g, DigitsUpTo(f, k), DigitsUpTo(g, l)
  PROVE  \A u \in Nat : u <= k /\ u <= l => f[u] = g[u]
<1> DEFINE S == {i \in Nat : \A u \in 0..i : u <= k /\ u <= l => f[u] = g[u]}
<1>1. 0 \in S
  <2>1. \A u \in 0..0 : u = 0 /\ f[0] = <<0>> /\ g[0] = <<0>>
    <3>1. 0 \in 0..k /\ 0 \in 0..l /\ 0 < 10
      OBVIOUS
    <3>2. f[0] = <<0>> /\ g[0] = <<0>>
      BY <3>1 DEF DigitsUpTo
    <3> QED
      BY <3>2
  <2> QED
    BY <2>1
<1>2. ASSUME NEW i \in Nat, i \in S PROVE i + 1 \in S
  <2> SUFFICES ASSUME NEW u \in 0..(i + 1), u <= k, u <= l PROVE f[u] = g[u]
    OBVIOUS
  <2>1. u \in 0..k /\ u \in 0..l /\ u \in Nat
    OBVIOUS
  <2>2. /\ f[u] = IF u < 10 THEN <<u>> ELSE Append(f[u \div 10], u % 10)
        /\ g[u] = IF u < 10 THEN <<u>> ELSE Append(g[u \div 10], u % 10)
    BY <2>1 DEF DigitsUpTo
  <2>3. CASE u >= 10
    <3>1. u \div 10 \in 0..i /\ u \div 10 <= k /\ u \div 10 <= l
      BY <2>1, <2>3, Tenth
    <3>2. f[u \div 10] = g[u \div 10]
      BY <1>2, <3>1
    <3> QED
      BY <2>1, <2>2, <2>3, <3>2
  <2> QED
    BY <2>1, <2>2, <2>3
<1> HIDE DEF S
<1>3. Nat \subseteq S
  BY <1>1, <1>2, Induction
<1> QED
  BY <1>3 DEF S

(* Digits is what its definition says. *)
LEMMA DigitsOf ==
  ASSUME NEW u \in Nat
  PROVE  Digits[u] = IF u < 10 THEN <<u>> ELSE Append(Digits[u \div 10], u % 10)
<1> DEFINE g(k) == CHOOSE f \in [0..k -> Seq(Nat)] : DigitsUpTo(f, k)
           all == [v \in Nat |-> g(v)[v]]
           Def(f) == f = [v \in Nat |-> IF v < 10 THEN <<v>> ELSE Append(f[v \div 10], v % 10)]
<1>1. \A k \in Nat : DigitsUpTo(g(k), k)
  BY DigitsExist
<1> HIDE DEF g
<1>2. ASSUME NEW v \in Nat
      PROVE  all[v] = IF v < 10 THEN <<v>> ELSE Append(all[v \div 10], v % 10)
  <2>1. g(v)[v] = IF v < 10 THEN <<v>> ELSE Append(g(v)[v \div 10], v % 10)
    BY <1>1 DEF DigitsUpTo
  <2>2. v \div 10 \in Nat /\ v \div 10 <= v
    BY Tenth
  <2>3. g(v)[v \div 10] = g(v \div 10)[v \div 10]
    BY <1>1, <2>2, DigitsAgree
  <2> QED
    BY <2>1, <2>2, <2>3
<1>3. Def(all)
  BY <1>2, Zenon
<1> HIDE DEF all, Def
<1>4. Def(CHOOSE f : Def(f))
  BY <1>3, Zenon
<1>5. Def(Digits)
  BY <1>4, Zenon DEF Digits, Def
<1> QED
  BY <1>5 DEF Def


(* Which of its functions the writer takes. *)
LEMMA WriteCases ==
  ASSUME NEW v
  PROVE  /\ "int" \in v.flags => WriteNumber(v) = WriteInt(Signed(v.value, IntBits), IntBits)
         /\ v.flags = {"uint", "uint64", "int64"}
              => WriteNumber(v) = Numeral(FALSE, Digits[v.value % 2^IntBits], FALSE)
         /\ v.flags \in {{"int64"}, {"uint64", "int64"}} => WriteNumber(v) = WriteInt(Signed(v.value, Wide), Wide)
         /\ v.flags = {"uint64"} => WriteNumber(v) = Numeral(FALSE, Digits[v.value], FALSE)
<1> DEFINE i == "int" \in v.flags
           u == "uint" \in v.flags
           l == "int64" \in v.flags
           none == v.flags \cap {"int", "uint"} = {}
           last == v.flags = {"uint64"}
<1>1. WriteNumber(v) =
        CASE i -> WriteInt(Signed(v.value, IntBits), IntBits)
          [] ~i /\ u -> Numeral(FALSE, Digits[v.value % 2^IntBits], FALSE)
          [] none /\ l -> WriteInt(Signed(v.value, Wide), Wide)
          [] last -> Numeral(FALSE, Digits[v.value], FALSE)
          [] OTHER -> Numeral(FALSE, <<>>, TRUE)
  BY Zenon DEF WriteNumber
<1>2. none <=> ~i /\ ~u
  OBVIOUS
<1>3. last => ~i /\ ~u /\ ~l
  OBVIOUS
<1>4. v.flags = {"uint", "uint64", "int64"} => ~i /\ u
  OBVIOUS
<1>5. v.flags \in {{"int64"}, {"uint64", "int64"}} => ~i /\ ~u /\ l
  OBVIOUS
<1>6. i <=> "int" \in v.flags
  OBVIOUS
<1>7. last <=> v.flags = {"uint64"}
  OBVIOUS
<1> HIDE DEF i, u, l, none, last
<1>8. i => WriteNumber(v) = WriteInt(Signed(v.value, IntBits), IntBits)
  BY <1>1, <1>2, <1>3
<1>9. ~i /\ u => WriteNumber(v) = Numeral(FALSE, Digits[v.value % 2^IntBits], FALSE)
  BY <1>1, <1>2, <1>3
<1>10. ~i /\ ~u /\ l => WriteNumber(v) = WriteInt(Signed(v.value, Wide), Wide)
  BY <1>1, <1>2, <1>3
<1>11. last => WriteNumber(v) = Numeral(FALSE, Digits[v.value], FALSE)
  BY <1>1, <1>2, <1>3
<1> QED
  BY <1>4, <1>5, <1>6, <1>7, <1>8, <1>9, <1>10, <1>11

(* The sign and the digits of an integer. *)
LEMMA WrittenInt ==
  ASSUME NEW m \in Nat, NEW bits
  PROVE  /\ WriteInt(m, bits) = Numeral(FALSE, Digits[m], FALSE)
         /\ m # 0 /\ m % 2^bits = m => WriteInt(-m, bits) = Numeral(TRUE, Digits[m], FALSE)
<1>1. (m < 0) = FALSE
  OBVIOUS
<1>2. m # 0 => (-m < 0) = TRUE /\ -(-m) = m
  OBVIOUS
<1>3. WriteInt(m, bits) = Numeral(FALSE, Digits[m], FALSE)
  BY <1>1, Zenon DEF WriteInt
<1>4. ASSUME m # 0, m % 2^bits = m PROVE WriteInt(-m, bits) = Numeral(TRUE, Digits[m], FALSE)
  <2>1. WriteInt(-m, bits) = Numeral(-m < 0, Digits[(-(-m)) % 2^bits], FALSE)
    BY <1>2, <1>4, Zenon DEF WriteInt
  <2> QED
    BY <1>2, <1>4, <2>1, Zenon
<1> QED
  BY <1>3, <1>4


(* The digits of the number that a numeral denotes are those of the         *)
(* numeral.                                                                 *)
LEMMA DigitsKept ==
  ASSUME NEW n \in Numerals,
         NEW m \in [0..Len(n.digits) -> Nat], m[0] = 0,
         \A k \in 1..Len(n.digits) : m[k] = 10 * m[k - 1] + n.digits[k]
  PROVE  Digits[m[Len(n.digits)]] = n.digits
<1> DEFINE s == n.digits
           First(k) == SubSeq(s, 1, k)
           S == {k \in Nat : k < Len(s) => Digits[m[k + 1]] = First(k + 1) /\ (Len(s) > 1 => m[k + 1] > 0)}
<1>1. s \in Seq(0..9) /\ Len(s) \in Nat \ {0} /\ \A i \in 1..Len(s) : s[i] \in 0..9
  BY EmptySeq DEF Numerals
<1>2. ASSUME NEW k \in 1..Len(s)
      PROVE  First(k) = Append(First(k - 1), s[k])
  <2>1. 1 \in 1..Len(s) /\ k \in 1..Len(s)
    BY <1>1
  <2>2. First(k) = First(k - 1) \o <<s[k]>>
    BY <1>1, <2>1, SubSeqRecursiveSecond
  <2>3. \A i \in 1..(k - 1) : s[i] \in 0..9
    BY <1>1
  <2>4. First(k - 1) \in Seq(0..9)
    BY <1>1, <2>3, SubSeqProperties
  <2>5. s[k] \in 0..9
    BY <1>1
  <2> HIDE DEF First, s
  <2> QED
    BY <2>2, <2>4, <2>5, AppendIsConcat
<1>3. 0 \in S
  <2>1. 1 \in 1..Len(s) /\ 1 - 1 = 0 /\ 0 + 1 = 1 /\ 0 < Len(s)
    BY <1>1
  <2>2. m[1] = s[1] /\ s[1] \in 0..9
    BY <1>1, <2>1
  <2>3. Digits[m[1]] = <<m[1]>>
    <3>1. m[1] \in Nat /\ m[1] < 10
      BY <2>2
    <3> QED
      BY <3>1, DigitsOf
  <2>4. First(1) = <<s[1]>>
    <3>1. First(0) = <<>>
      BY SubSeqEmpty
    <3>2. First(1) = Append(First(0), s[1])
      BY <1>2, <2>1
    <3>3. Append(<<>>, s[1]) = <<s[1]>>
      OBVIOUS
    <3> HIDE DEF First, s
    <3> QED
      BY <3>1, <3>2, <3>3
  <2>5. Len(s) > 1 => m[1] > 0
    <3>1. s[1] # 0 \/ Len(s) = 1
      BY DEF Numerals
    <3> HIDE DEF s, First, S
    <3>2. Len(s) > 1 => Len(s) # 1
      BY <1>1
    <3>3. Len(s) > 1 => s[1] # 0
      BY <3>1, <3>2
    <3> QED
      BY <2>2, <3>3
  <2> HIDE DEF s, First
  <2> QED
    BY <2>1, <2>2, <2>3, <2>4, <2>5
<1>4. ASSUME NEW k \in Nat, k \in S PROVE k + 1 \in S
  <2> SUFFICES ASSUME k + 1 < Len(s)
               PROVE  Digits[m[(k + 1) + 1]] = First((k + 1) + 1) /\ m[(k + 1) + 1] > 0
    OBVIOUS
  <2>0. Digits[m[k + 1]] = First(k + 1) /\ m[k + 1] > 0
    <3>1. k < Len(s) => Digits[m[k + 1]] = First(k + 1) /\ (Len(s) > 1 => m[k + 1] > 0)
      BY <1>4
    <3> HIDE DEF s, First
    <3>2. k < Len(s) /\ Len(s) > 1
      BY <1>1
    <3> QED
      BY <3>1, <3>2
  <2> DEFINE v == m[k + 1]
             d == s[(k + 1) + 1]
             w == m[(k + 1) + 1]
  <2>1. (k + 1) + 1 \in 1..Len(s) /\ ((k + 1) + 1) - 1 = k + 1 /\ k + 1 \in 0..Len(s) /\ k + 1 \in Nat
    BY <1>1
  <2>2. w = 10 * v + d /\ v \in Nat /\ v > 0 /\ d \in 0..9 /\ w \in Nat
    <3>1. v \in Nat /\ d \in 0..9 /\ v > 0
      BY <1>1, <2>0, <2>1
    <3>2. w = 10 * m[((k + 1) + 1) - 1] + d
      BY <2>1
    <3>3. w = 10 * v + d
      BY <2>1, <3>2
    <3> HIDE DEF v, w, d
    <3> QED
      BY <3>1, <3>3
  <2>3. First((k + 1) + 1) = Append(First(k + 1), d) /\ Digits[v] = First(k + 1)
    BY <1>2, <2>0, <2>1
  <2> HIDE DEF v, d, w, First, s
  <2>4. w >= 10 /\ w \div 10 = v /\ w % 10 = d
    <3>1. w >= 10
      BY <2>2
    <3>2. w \div 10 \in Nat /\ w % 10 \in 0..9 /\ w = 10 * (w \div 10) + (w % 10)
      BY <2>2, Tenth
    <3> QED
      BY <2>2, <3>1, <3>2
  <2>5. Digits[w] = Append(Digits[v], d)
    <3>1. Digits[w] = IF w < 10 THEN <<w>> ELSE Append(Digits[w \div 10], w % 10)
      BY <2>2, DigitsOf
    <3>2. ~(w < 10)
      BY <2>2, <2>4
    <3> QED
      BY <2>4, <3>1, <3>2, Zenon
  <2>6. Digits[w] = First((k + 1) + 1) /\ w > 0
    BY <2>2, <2>3, <2>4, <2>5
  <2> QED
    BY <2>6 DEF w
<1> HIDE DEF S
<1>5. Nat \subseteq S
  BY <1>3, <1>4, Induction
<1>6. Len(s) - 1 \in S /\ (Len(s) - 1) + 1 = Len(s) /\ Len(s) - 1 < Len(s)
  BY <1>1, <1>5
<1>7. Digits[m[Len(s)]] = First(Len(s))
  BY <1>6 DEF S
<1>8. First(Len(s)) = s
  BY <1>1, SubSeqFull
<1> QED
  BY <1>7, <1>8

(* A number without a fraction that 64 bits hold is written as it was read, *)
(* unless it is zero with a minus sign, whatever the width of an int.       *)
LEMMA NumeralKept ==
  ASSUME NEW n \in Numerals, ParseNumber(n) # OfDouble, n # MinusZero
  PROVE  WriteNumber(ParseNumber(n)) = n
<1>1. PICK m \in Nat, r \in States :
        /\ Digits[m] = n.digits
        /\ Holds(n.minus, r, m)
        /\ ParseNumber(n) =
             IF n.fraction \/ r.width = DoubleWidth THEN OfDouble
             ELSE IF n.minus THEN IF r.width = Wide THEN OfInt64(Signed(-r.value, Wide))
                                  ELSE OfInt(Signed(-r.value, IntBits))
             ELSE IF r.width = Wide THEN OfUint64(r.value) ELSE OfUint(r.value)
  <2>1. Len(n.digits) \in Nat /\ Len(n.digits) \in 0..Len(n.digits)
    BY DEF Numerals
  <2> QED
    BY <2>1, ParsedValue, DigitsKept
<1>2. ~n.fraction /\ r.width # DoubleWidth
  BY <1>1
<1>3. n = Numeral(n.minus, Digits[m], FALSE)
  BY <1>1, <1>2 DEF Numerals, Numeral
<1> DEFINE h == 2^(IntBits - 1)
           g == 2^(Wide - 1)
<1>4. /\ h \in Nat \ {0} /\ 2^IntBits = h + h /\ g \in Nat \ {0} /\ 2^Wide = g + g /\ h + h <= g
      /\ IntBits \in Nat /\ Wide \in Nat /\ IntBits # Wide
  <2>1. Limit(TRUE, Wide) = g /\ Limit(TRUE, IntBits) = h
    BY DEF Limit
  <2> QED
    BY Ranges, Widths
<1>5. /\ Limit(n.minus, IntBits) = IF n.minus THEN h ELSE (h + h) - 1
      /\ Limit(n.minus, Wide) = IF n.minus THEN g ELSE (g + g) - 1
  BY <1>4 DEF Limit
<1>6. /\ \A x \in Int : -h <= x /\ x < h => Signed(x, IntBits) = x
      /\ \A x \in Int : -g <= x /\ x < g => Signed(x, Wide) = x
  BY <1>4, SignedInRange
<1>7. /\ \A x \in 0..((h + h) - 1) : x % 2^IntBits = x
      /\ \A x \in 0..((g + g) - 1) : x % 2^Wide = x
  BY <1>4, Remainder
<1>8. r.value = m /\ r.width \in {IntBits, Wide}
  BY <1>1, <1>2, Ranges DEF Holds
<1> HIDE DEF h, g
<1>9. CASE ~n.minus
  <2>1. n = Numeral(FALSE, Digits[m], FALSE)
    <3>1. n.minus = FALSE
      BY <1>9 DEF Numerals
    <3> QED
      BY <1>3, <3>1
  <2>2. CASE r.width = IntBits
    <3>1. m <= (h + h) - 1 /\ ParseNumber(n) = OfUint(m)
      BY <1>1, <1>2, <1>4, <1>5, <1>8, <1>9, <2>2, Ranges DEF Holds
    <3>2. CASE m < h
      <4>1. "int" \in OfUint(m).flags /\ OfUint(m).value = m
        BY <3>2 DEF OfUint, Value, If, h
      <4>2. Signed(m, IntBits) = m
        BY <1>4, <1>6, <3>2
      <4>3. WriteNumber(OfUint(m)) = WriteInt(m, IntBits)
        BY <4>1, <4>2, WriteCases
      <4> QED
        BY <2>1, <3>1, <4>3, WrittenInt
    <3>3. CASE ~(m < h)
      <4>1. OfUint(m).value = m /\ OfUint(m).flags = {"uint", "uint64", "int64"}
        BY <3>3 DEF OfUint, Value, If, h
      <4>2. m % 2^IntBits = m
        BY <1>4, <1>7, <3>1
      <4> QED
        BY <2>1, <3>1, <4>1, <4>2, WriteCases
    <3> QED
      BY <3>2, <3>3
  <2>3. CASE r.width = Wide
    <3>1. m > (h + h) - 1 /\ m <= (g + g) - 1 /\ ParseNumber(n) = OfUint64(m)
      BY <1>1, <1>2, <1>4, <1>5, <1>8, <1>9, <2>3, Ranges DEF Holds
    <3>2. ~(m < 2^IntBits) /\ ~(m < 2^(IntBits - 1))
      BY <1>4, <3>1 DEF h
    <3>3. CASE m < g
      <4>1. OfUint64(m).value = m /\ OfUint64(m).flags = {"uint64", "int64"}
        BY <3>2, <3>3 DEF OfUint64, Value, If, g
      <4>2. Signed(m, Wide) = m
        BY <1>4, <1>6, <3>3
      <4>3. WriteNumber(OfUint64(m)) = WriteInt(m, Wide)
        BY <4>1, <4>2, WriteCases
      <4> QED
        BY <2>1, <3>1, <4>3, WrittenInt
    <3>4. CASE ~(m < g)
      <4>1. OfUint64(m).value = m /\ OfUint64(m).flags = {"uint64"}
        BY <3>2, <3>4 DEF OfUint64, Value, If, g
      <4> QED
        BY <2>1, <3>1, <4>1, WriteCases
    <3> QED
      BY <3>3, <3>4
  <2> QED
    BY <1>8, <2>2, <2>3
<1>10. CASE n.minus
  <2>1. n = Numeral(TRUE, Digits[m], FALSE)
    <3>1. n.minus = TRUE
      BY <1>10 DEF Numerals
    <3> QED
      BY <1>3, <3>1
  <2>2. m # 0
    <3>1. Digits[0] = <<0>>
      <4>1. Digits[0] = IF 0 < 10 THEN <<0>> ELSE Append(Digits[0 \div 10], 0 % 10)
        BY DigitsOf, Zenon
      <4> QED
        BY <4>1
    <3> QED
      BY <2>1, <3>1 DEF MinusZero
  <2>3. CASE r.width = IntBits
    <3>1. m <= h /\ ParseNumber(n) = OfInt(Signed(-m, IntBits))
      BY <1>1, <1>2, <1>4, <1>5, <1>8, <1>10, <2>3, Ranges DEF Holds
    <3>2. Signed(-m, IntBits) = -m /\ m % 2^IntBits = m
      BY <1>4, <1>6, <1>7, <3>1
    <3>3. "int" \in OfInt(-m).flags /\ OfInt(-m).value = -m
      BY DEF OfInt, Value
    <3>4. WriteNumber(OfInt(-m)) = WriteInt(-m, IntBits)
      BY <3>2, <3>3, WriteCases
    <3> QED
      BY <2>1, <2>2, <3>1, <3>2, <3>4, WrittenInt
  <2>4. CASE r.width = Wide
    <3>1. m > h /\ m <= g /\ ParseNumber(n) = OfInt64(Signed(-m, Wide))
      BY <1>1, <1>2, <1>4, <1>5, <1>8, <1>10, <2>4, Ranges DEF Holds
    <3>2. Signed(-m, Wide) = -m /\ m % 2^Wide = m
      BY <1>4, <1>6, <1>7, <3>1
    <3>3. ~(-m >= 0) /\ ~(-m >= -h)
      BY <1>4, <3>1
    <3>4. OfInt64(-m).value = -m /\ OfInt64(-m).flags = {"int64"}
      BY <3>3 DEF OfInt64, Value, If, h
    <3>5. WriteNumber(OfInt64(-m)) = WriteInt(-m, Wide)
      BY <3>2, <3>4, WriteCases
    <3> QED
      BY <2>1, <2>2, <3>1, <3>2, <3>5, WrittenInt
  <2> QED
    BY <1>8, <2>3, <2>4
<1> QED
  BY <1>9, <1>10
-----------------------------------------------------------------------------
(* A front end's server keeps the setting that its configuration gives, and *)
(* judges every call by it.                                                 *)
ServedInv ==
  /\ config \in Configs /\ Starts(config)
  /\ ~Library => /\ asked = ProviderSetting(config) /\ pc = "idle" /\ disturbed = {}
                 /\ \A c \in Calls : setting[c] = asked /\ JudgedAsMade(c)

(* A server is one of the behaviours of the parameters.                     *)
THEOREM ServedImplements == ServedSpec => Spec
<1>1. ServedInit => Init
  BY DEF ServedInit
<1>2. [ServedNext]_<<vars, config>> => [Next]_vars
  BY DEF ServedNext
<1> QED
  BY <1>1, <1>2, PTL DEF ServedSpec, Spec

(* The constructor establishes it. *)
LEMMA ServedInitInv == ServedInit => ServedInv
BY DEF ServedInit, ServedInv, Init, JudgedAsMade

(* Every step of a server that never sets the parameters preserves it.      *)
LEMMA ServedStepInv == IInv /\ ServedInv /\ [ServedNext]_<<vars, config>> => ServedInv'
<1> SUFFICES ASSUME IInv, ServedInv, [ServedNext]_<<vars, config>> PROVE ServedInv'
  OBVIOUS
<1>1. config' = config /\ (Library' <=> Library) /\ (Starts(config)' <=> Starts(config))
      /\ ProviderSetting(config)' = ProviderSetting(config)
  <2>1. config' = config
    BY DEF ServedNext
  <2> QED
    BY <2>1 DEF Library, Starts, ProviderSetting
<1> DEFINE Held == /\ asked = ProviderSetting(config) /\ pc = "idle" /\ disturbed = {}
                   /\ \A d \in Calls : setting[d] = asked /\ JudgedAsMade(d)
<1>2. SUFFICES ASSUME ~Library PROVE Held'
  BY <1>1 DEF ServedInv
<1>3. Held
  BY <1>2 DEF ServedInv
<1>4. min_writes_ = Required(asked) /\ settings \in Nat /\ ProviderSetting(config)' = asked
  BY <1>1, <1>3, MaxSettingsAssumption DEF IInv, ParamInv, TypeOK
<1>5. ASSUME NEW c \in Calls, NEW m \in {"sync", "async"}, Begin(c, m) PROVE Held'
  <2>1. answer' = answer /\ acked' = acked /\ asked' = asked /\ pc' = "idle" /\ disturbed' = {}
    BY <1>3, <1>5 DEF Begin, paramVars
  <2>2. \A d \in Calls : setting'[d] = asked
    BY <1>3, <1>5 DEF Begin, IInv, TypeOK
  <2> QED
    BY <1>3, <1>4, <2>1, <2>2 DEF JudgedAsMade
<1>6. ASSUME NEW c \in Calls, CopyGroups(c) \/ CopyMinWrites(c) PROVE Held'
  <2>1. answer' = answer /\ acked' = acked /\ setting' = setting /\ disturbed' = disturbed
        /\ asked' = asked /\ pc' = "idle"
    BY <1>3, <1>6 DEF CopyGroups, CopyMinWrites, paramVars
  <2> QED
    BY <1>3, <1>4, <2>1 DEF JudgedAsMade
<1>7. ASSUME NEW c \in Calls, NEW n \in 0..Cardinality(Groups), Finish(c, n) PROVE Held'
  <2>1. answer' = answer /\ setting' = setting /\ disturbed' = disturbed /\ asked' = asked /\ pc' = "idle"
    BY <1>3, <1>7 DEF Finish, paramVars
  <2>2. answer[c] = "none" /\ \A d \in Calls : d # c => acked'[d] = acked[d]
    BY <1>7 DEF Finish, IInv, CallInv, CallInvOf, TypeOK
  <2> QED
    BY <1>3, <1>4, <2>1, <2>2 DEF JudgedAsMade
<1>8. ASSUME NEW c \in Calls, Judge(c) PROVE Held'
  <2>1. acked' = acked /\ setting' = setting /\ disturbed' = disturbed /\ asked' = asked /\ pc' = "idle"
    BY <1>3, <1>8 DEF Judge, paramVars
  <2>2. Threshold(c) = Required(asked)
    <3>1. mode[c] = "async" => "min_writes" \in copied[c]
      BY <1>8 DEF Judge, IInv, CallInv, CallInvOf, Beginning, Copies
    <3> QED
      BY <1>3, <1>4, <3>1 DEF Threshold, IInv, CallInv, CallInvOf
  <2>3. answer'[c] = Verdict(acked[c], Required(asked)) /\ \A d \in Calls : d # c => answer'[d] = answer[d]
    BY <1>8, <2>2 DEF Judge, IInv, TypeOK
  <2> QED
    BY <1>3, <1>4, <2>1, <2>3 DEF JudgedAsMade
<1>9. CASE UNCHANGED vars
  BY <1>3, <1>4, <1>9 DEF vars, paramVars, callVars, JudgedAsMade
<1>10. ASSUME ServedNext
       PROVE  \/ UNCHANGED vars
              \/ \E c \in Calls : \/ \E m \in {"sync", "async"} : Begin(c, m)
                                  \/ CopyGroups(c) \/ CopyMinWrites(c)
                                  \/ \E n \in 0..Cardinality(Groups) : Finish(c, n)
                                  \/ Judge(c)
  <2>1. settings' = settings /\ Next
    BY <1>2, <1>10 DEF ServedNext
  <2>2. ASSUME NEW s \in Settings, SetGroups(s) PROVE FALSE
    BY <1>4, <2>1, <2>2 DEF SetGroups
  <2>3. ~SetMinWrites /\ ~Clamp
    BY <1>3 DEF SetMinWrites, Clamp
  <2> QED
    BY <2>1, <2>2, <2>3 DEF Next, Quiescent
<1> HIDE DEF Held
<1> QED
  BY <1>5, <1>6, <1>7, <1>8, <1>9, <1>10

(* It holds throughout, with that of the parameters. *)
LEMMA ServedInvariance == ServedSpec => [](IInv /\ ServedInv)
<1>1. [ServedNext]_<<vars, config>> => [Next]_vars
  BY DEF ServedNext
<1>2. ServedInit => IInv
  BY InitInv DEF ServedInit
<1> QED
  BY <1>1, <1>2, ServedInitInv, ServedStepInv, StepInv, PTL DEF ServedSpec

(* min_writes on its way from the configuration to the constructor, through *)
(* the JSON reader, an int and a uint32_t, and its clamp: what is left are  *)
(* the groups that the configuration demands.                               *)
LEMMA DemandedRequired ==
  ASSUME config \in Configs, ~Library, Starts(config),
         "min_writes" \in config.members => AsIntSucceeds(config.min_writes)
  PROVE  Required(ProviderSetting(config)) = Demanded /\ Demanded \in Nat
<1> DEFINE c == config
           h == 2^(IntBits - 1)
           total == NumGroups(c)
<1>1. c.server \in {"thevoid", "fastcgi"} /\ c.groups \in SUBSET Groups /\ c.min_writes \in Numerals
  BY ConfigsAssumption DEF Library
<1>2. h \in Nat \ {0} /\ 2^IntBits = h + h
  BY Ranges
<1>3. total \in Nat /\ total <= h
  <2>1. GroupsOf(c) \in SUBSET Groups
    BY <1>1 DEF GroupsOf
  <2>2. Cardinality(GroupsOf(c)) <= Cardinality(Groups) /\ Cardinality(GroupsOf(c)) \in Nat
        /\ Cardinality(Groups) \in Nat
    BY <2>1, GroupsAssumption, FS_Subset, FS_CardinalityType
  <2> QED
    BY <1>2, <2>2, GroupsFit DEF NumGroups
<1>4. ProviderSetting(c).groups = GroupsOf(c)
  BY <1>1 DEF ProviderSetting, InitializeSetting, OnLoadSetting
<1>5. Required(ProviderSetting(c)) = IF ProviderSetting(c).min_writes < total
                                     THEN ProviderSetting(c).min_writes ELSE total
  BY <1>4 DEF Required, NumGroups
<1>6. CASE "min_writes" \notin c.members
  <2>1. c.server = "thevoid"
    BY <1>1, <1>6 DEF Starts, OnLoadSucceeds
  <2>2. ProviderSetting(c).min_writes = total
    BY <1>6, <2>1 DEF ProviderSetting, InitializeSetting
  <2>3. Demanded = total
    BY <1>6 DEF Demanded
  <2> HIDE DEF total
  <2> QED
    BY <1>3, <1>5, <2>2, <2>3
<1>7. CASE "min_writes" \in c.members
  <2> DEFINE x == Meaning(c.min_writes)
  <2>1. ~c.min_writes.fraction /\ x \in (-h)..(h - 1)
    BY <1>7 DEF AsIntSucceeds
  <2>2. x \in Int /\ -h <= x /\ x < h
    BY <1>2, <2>1
  <2>3. GetInt(ParseNumber(c.min_writes)) = x
    BY <1>1, <2>1, <2>2, IntsRead DEF GetInt
  <2>4. ProviderSetting(c).min_writes = Unsigned(x)
    <3>1. CASE c.server = "thevoid"
      BY <1>7, <2>3, <3>1 DEF ProviderSetting, InitializeSetting
    <3>2. CASE c.server = "fastcgi"
      BY <3>2 DEF ProviderSetting, OnLoadSetting, AsInt
    <3> QED
      BY <1>1, <3>1, <3>2
  <2>5. Demanded = IF x < 0 \/ x > total THEN total ELSE x
    BY <1>7 DEF Demanded
  <2> HIDE DEF x, total, h
  <2>6. CASE x >= 0
    <3>1. Unsigned(x) = x
      <4>1. x \in 0..((h + h) - 1) /\ h + h \in Nat \ {0}
        BY <1>2, <2>2, <2>6
      <4> QED
        BY <1>2, <4>1, Remainder DEF Unsigned
    <3> QED
      BY <1>3, <1>5, <2>2, <2>4, <2>5, <2>6, <3>1
  <2>7. CASE x < 0
    <3>1. Unsigned(x) = x + (h + h)
      <4>1. x % (h + h) = x + (h + h)
        BY <1>2, <2>2, <2>7
      <4> QED
        BY <1>2, <4>1 DEF Unsigned
    <3>2. Unsigned(x) >= total /\ Unsigned(x) \in Nat
      BY <1>2, <1>3, <2>2, <3>1
    <3> QED
      BY <1>3, <1>5, <2>2, <2>4, <2>5, <2>7, <3>2
  <2> QED
    BY <2>2, <2>6, <2>7
<1> QED
  BY <1>6, <1>7

(* webserver::initialize and handler::onLoad to waiter::on_log or the       *)
(* comparison after get(): with any number of groups, any width of an int   *)
(* and any number in the configuration that an int holds, a server reports  *)
(* a write as done exactly when as many groups as that number demands took  *)
(* it.                                                                      *)
THEOREM ServedAsConfigured == ServedSpec => []ConfiguredWrites
<1>1. IInv /\ ServedInv => ConfiguredWrites
  <2> SUFFICES ASSUME IInv, ServedInv, ~Library,
                      "min_writes" \in config.members => AsIntSucceeds(config.min_writes),
                      NEW c \in Calls, answer[c] # "none"
               PROVE  answer[c] = "added" <=> acked[c] >= Demanded
    BY DEF ConfiguredWrites
  <2>1. Required(setting[c]) = Demanded /\ Demanded \in Nat /\ answer[c] = Verdict(acked[c], Required(setting[c]))
    BY DemandedRequired DEF ServedInv, JudgedAsMade
  <2>2. acked[c] \in Nat
    <3>1. Cardinality(Groups) \in Nat /\ acked[c] \in 0..Waiting
      BY GroupsAssumption, FS_CardinalityType DEF IInv, TypeOK
    <3> QED
      BY <3>1
  <2> QED
    BY <2>1, <2>2 DEF Verdict
<1> QED
  BY <1>1, ServedInvariance, PTL

(* ParseNumber, the constructors of GenericValue, WriteInt, WriteUint and   *)
(* the like: the numbers of any configuration that 64 bits hold, for ints   *)
(* of any width, are written as they were read.                             *)
THEOREM NumbersWrittenBack == ServedSpec => []NumbersKept
<1>1. ServedInv => NumbersKept
  <2> SUFFICES ASSUME ServedInv, ~Library,
                      NEW n \in {config.min_writes, config.wait_timeout, config.check_timeout},
                      ParseNumber(n) # OfDouble, n # MinusZero
               PROVE  WriteNumber(ParseNumber(n)) = n
    BY DEF NumbersKept
  <2>1. n \in Numerals
    BY ConfigsAssumption DEF ServedInv, Library
  <2> QED
    BY <2>1, NumeralKept
<1> QED
  BY <1>1, ServedInvariance, PTL
=============================================================================
