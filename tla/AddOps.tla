------------------------------- MODULE AddOps -------------------------------
(***************************************************************************)
(* The write path of src/lib/provider_impl.cpp: add_log, add_activity and  *)
(* add_log_with_activity, blocking and with a callback, of providers whose *)
(* session parameters do not change.                                       *)
(*                                                                         *)
(* A call sends one request per part to every group (a replica).  The log  *)
(* part appends the data to the file combine_key(user, subkey), the        *)
(* activity part puts the user into the index subkey.  elliptics collects  *)
(* one reply or one failure (error, timeout, no connection) per group and  *)
(* completes the part; the code counts the successes.  A request whose     *)
(* reply never came may have been executed, or may be executed later.      *)
(*                                                                         *)
(* Bodies of on_log and on_activity are single steps here: Waiter checks   *)
(* that the mutex makes them so.                                           *)
(***************************************************************************)
EXTENDS Naturals, FiniteSets, Sequences, AddParts

CONSTANTS
  Calls,          \* calls of the add operations, each identifying its data
  Groups,         \* groups_: the elliptics groups every request goes to
  MinWritesArg,   \* MinWritesArg[c]: min_writes as c's provider received it (a uint32_t)
  Operations,     \* Operations[c]: the operations call c may be
  Users,          \* user names without a dot, so that combine_key is injective
  Subkeys         \* days or custom keys

ASSUME GroupsAssumption == IsFiniteSet(Groups)
ASSUME MinWritesArgAssumption == MinWritesArg \in [Calls -> Nat]
ASSUME OperationsAssumption == Operations \in [Calls -> SUBSET Kinds]

VARIABLES
  kind,       \* kind[c]: the operation called, "none" before the call
  mode,       \* mode[c]: "sync" for the blocking overload, "async" otherwise
  key,        \* key[c]: the <<user, subkey>> c is made with, an input
  sent,       \* <<c, p>>: the requests of part p of c have been sent
  applied,    \* <<c, p, g>>: group g has executed the request
  acked,      \* <<c, p, g>>: the success of group g has reached the client
  failed,     \* <<c, p, g>>: the client has given group g up
  completed,  \* completed[c][p]: log_completed, activity_completed
  result,     \* result[c]: result_, or the local variable result
  answers,    \* answers[c]: results the caller got (FALSE: the exception)
  files,      \* files[g][<<user, subkey>>]: the log file in group g
  index,      \* index[g][subkey]: the users in the index in group g
  before      \* history: before[c], calls answered TRUE when c was made

callerVars == <<kind, mode, key, before>>
verdictVars == <<completed, result, answers>>
replyVars == <<acked, failed>>
storeVars == <<applied, files, index>>
vars == <<callerVars, sent, replyVars, verdictVars, storeVars>>

Keys == Users \X Subkeys
Requests == Calls \X Parts \X Groups

TypeOK ==
  /\ kind \in [Calls -> Kinds \cup {"none"}]
  /\ mode \in [Calls -> {"sync", "async"}]
  /\ key \in [Calls -> Keys]
  /\ sent \subseteq Calls \X Parts
  /\ applied \subseteq Requests
  /\ acked \subseteq Requests
  /\ failed \subseteq Requests
  /\ completed \in [Calls -> [Parts -> BOOLEAN]]
  /\ result \in [Calls -> BOOLEAN]
  /\ answers \in [Calls -> {<<>>, <<TRUE>>, <<FALSE>>}]
  /\ files \in [Groups -> [Keys -> Seq(Calls)]]
  /\ index \in [Groups -> [Subkeys -> SUBSET Users]]
  /\ before \in [Calls -> SUBSET Calls]

(* min_writes_: the constructors clamp the argument to the number of groups. *)
MutantMin_writes(c) == MinWritesArg[c]
min_writes(c) == IF MinWritesArg[c] > Cardinality(Groups)
                 THEN Cardinality(Groups) ELSE MinWritesArg[c]

Acked(c, p) == {g \in Groups : <<c, p, g>> \in acked}          \* res
Replied(c, p) == {g \in Groups : <<c, p, g>> \in acked \cup failed}

(* elliptics has completed the part: every group has replied or failed. *)
Finished(c, p) == <<c, p>> \in sent /\ Replied(c, p) = Groups

Waiting(c, p, g) == <<c, p>> \in sent /\ <<c, p, g>> \notin acked \cup failed

(* The verdict of a call no part of which has been looked at. *)
FirstVerdict == TRUE

Init ==
  /\ kind = [c \in Calls |-> "none"]
  /\ mode = [c \in Calls |-> "sync"]
  /\ key \in [Calls -> Keys]
  /\ sent = {}
  /\ applied = {} /\ acked = {} /\ failed = {}
  /\ completed = [c \in Calls |-> [p \in Parts |-> FALSE]]
  /\ result = [c \in Calls |-> FirstVerdict]
  /\ answers = [c \in Calls |-> <<>>]
  /\ files = [g \in Groups |-> [k \in Keys |-> <<>>]]
  /\ index = [g \in Groups |-> [s \in Subkeys |-> {}]]
  /\ before = [c \in Calls |-> {}]

(* The flags of a new waiter: the parts there are not are complete.  Mutant: *)
(* it expects both parts of every operation.                                *)
MutantFlags(k) == [p \in Parts |-> FALSE]
Flags(k) == [p \in Parts |-> p \notin PartsOf(k)]

(* The entry of an add operation: sessions and the asynchronous overloads'  *)
(* waiter.                                                                  *)
Start(c, k, m) ==
  /\ kind[c] = "none"
  /\ kind' = [kind EXCEPT ![c] = k]
  /\ mode' = [mode EXCEPT ![c] = m]
  /\ before' = [before EXCEPT ![c] = {d \in Calls : answers[d] = <<TRUE>>}]
  /\ completed' = [completed EXCEPT ![c] = Flags(k)]
  /\ UNCHANGED <<key, sent, replyVars, result, answers, storeVars>>

(* write_data and update_indexes_internal: the log part is sent first, and  *)
(* its replies can arrive before the activity part is sent.                 *)
Send(c, p) ==
  /\ p \in PartsOf(kind[c])
  /\ <<c, p>> \notin sent
  /\ p = "activity" /\ kind[c] = "both" => <<c, "log">> \in sent
  /\ sent' = sent \cup {<<c, p>>}
  /\ UNCHANGED <<callerVars, replyVars, verdictVars, storeVars>>

(* External: group g executes a request, even one already given up.         *)
Apply(c, p, g) ==
  /\ <<c, p>> \in sent
  /\ <<c, p, g>> \notin applied
  /\ applied' = applied \cup {<<c, p, g>>}
  /\ IF p = "log"
     THEN /\ files' = [files EXCEPT ![g][key[c]] = Append(@, c)]
          /\ index' = index
     ELSE /\ index' = [index EXCEPT ![g][key[c][2]] = @ \cup {key[c][1]}]
          /\ files' = files
  /\ UNCHANGED <<callerVars, sent, replyVars, verdictVars>>

(* External: the success of group g reaches the client in time. *)
Ack(c, p, g) ==
  /\ Waiting(c, p, g)
  /\ <<c, p, g>> \in applied
  /\ acked' = acked \cup {<<c, p, g>>}
  /\ UNCHANGED <<callerVars, sent, failed, verdictVars, storeVars>>

(* External: an error, or no reply within wait_timeout. *)
Fail(c, p, g) ==
  /\ Waiting(c, p, g)
  /\ failed' = failed \cup {<<c, p, g>>}
  /\ UNCHANGED <<callerVars, sent, acked, verdictVars, storeVars>>

(* The blocking overloads take the results after sending everything, the    *)
(* log's first; a waiter's handler runs as soon as its part is complete.    *)
InTurn(c, p) ==
  mode[c] = "sync" =>
    /\ \A q \in PartsOf(kind[c]) : <<c, q>> \in sent
    /\ p = "activity" => completed[c]["log"]

(* Part p of c can be taken.  Mutants: without waiting for its replies; a   *)
(* second time.                                                             *)
MutantDueEarly(c, p) == ~completed[c][p] /\ <<c, p>> \in sent /\ InTurn(c, p)
MutantDueAgain(c, p) == Finished(c, p) /\ InTurn(c, p)
Due(c, p) == ~completed[c][p] /\ Finished(c, p) /\ InTurn(c, p)

(* result_ after part p.  Mutants: the last part decides alone; errors are   *)
(* counted as results.                                                      *)
MutantVerdict(c, p) == ~(Cardinality(Acked(c, p)) < min_writes(c))
MutantVerdictErrors(c, p) == result[c] /\ ~(Cardinality(Replied(c, p)) < min_writes(c))
Verdict(c, p) == result[c] /\ ~(Cardinality(Acked(c, p)) < min_writes(c))

(* on_log, on_activity, or the check after get(): count the successes and,  *)
(* after the last part, call the callback, return or throw.                 *)
Take(c, p) ==
  /\ p \in PartsOf(kind[c])
  /\ Due(c, p)
  /\ completed' = [completed EXCEPT ![c][p] = TRUE]
  /\ result' = [result EXCEPT ![c] = Verdict(c, p)]
  /\ answers' = IF \A q \in Parts : completed'[c][q]
                THEN [answers EXCEPT ![c] = Append(@, result'[c])]
                ELSE answers
  /\ UNCHANGED <<callerVars, sent, replyVars, storeVars>>

(* Every call has been made and answered. *)
Quiescent ==
  /\ \A c \in Calls : answers[c] # <<>>
  /\ UNCHANGED vars

Next ==
  \/ \E c \in Calls, m \in {"sync", "async"} : \E k \in Operations[c] : Start(c, k, m)
  \/ \E c \in Calls, p \in Parts :
       \/ Send(c, p)
       \/ \E g \in Groups : Apply(c, p, g) \/ Ack(c, p, g) \/ Fail(c, p, g)
       \/ Take(c, p)
  \/ Quiescent

(* The calling thread and elliptics' threads run; elliptics gives a group   *)
(* up when wait_timeout is over.  No group has to execute a request.        *)
Fairness ==
  \A c \in Calls, p \in Parts :
    /\ WF_vars(Send(c, p))
    /\ WF_vars(Take(c, p))
    /\ \A g \in Groups : WF_vars(Ack(c, p, g) \/ Fail(c, p, g))

Spec == Init /\ [][Next]_vars /\ Fairness
-----------------------------------------------------------------------------
(* What a reader of group g would find of part p of call c. *)
Stored(c, p, g) ==
  IF p = "log" THEN \E i \in DOMAIN files[g][key[c]] : files[g][key[c]][i] = c
  ELSE key[c][1] \in index[g][key[c][2]]

(* A caller told "added" can lose all but min_writes of its groups: every   *)
(* part of its record is in at least min_writes of them, even if a reply    *)
(* was lost or late, in whichever order the parts finished.                 *)
AddedMeansStored ==
  \A c \in Calls : answers[c] = <<TRUE>> =>
    \A p \in PartsOf(kind[c]) : Cardinality({g \in Groups : Stored(c, p, g)}) >= min_writes(c)

(* A call that every group acknowledged is answered TRUE, whatever          *)
(* min_writes its provider was created with: a provider that is asked for   *)
(* more groups than it has does not report a failure when it stored         *)
(* everything it could.                                                     *)
AllAckedMeansAdded ==
  \A c \in Calls :
    answers[c] # <<>> /\ (\A p \in PartsOf(kind[c]) : Acked(c, p) = Groups) => answers[c] = <<TRUE>>

(* d is in the file f, and c behind it or not there. *)
Precedes(f, d, c) ==
  \E i \in DOMAIN f : f[i] = d /\ \A j \in DOMAIN f : f[j] = c => i < j

(* In the log file of group g, c's record is not in front of d's. *)
InOrder(d, c, g) == Precedes(files[g][key[c]], d, c)

(* Records of one user and day that were added one after the other (the     *)
(* first was answered TRUE before the second call was made) are in that     *)
(* order in at least min_writes groups, as many as the first call was sure  *)
(* of: late executions of the requests given up reorder the others only.    *)
AddedInOrder ==
  \A c, d \in Calls :
    /\ d \in before[c] /\ key[c] = key[d]
    /\ "log" \in PartsOf(kind[c]) \cap PartsOf(kind[d])
    => Cardinality({g \in Groups : InOrder(d, c, g)}) >= min_writes(d)

(* What the caller sees of the requests of part p of c. *)
Got(c, p) == IF Finished(c, p) THEN Cardinality(Acked(c, p)) ELSE Cardinality(Groups) + 1

(* The operations implement their contract, the blocking overloads as well  *)
(* as the asynchronous ones: answered once, after all the parts, with the   *)
(* verdict on all the parts.                                                *)
Promise == INSTANCE Completion WITH
  MaxGroups <- Cardinality(Groups), MinWrites <- [c \in Calls |-> min_writes(c)],
  got <- [c \in Calls |-> [p \in Parts |-> Got(c, p)]]
Implements == Promise!Spec

(* Every call is answered, whatever the groups do. *)
EveryCallAnswered ==
  \A c \in Calls : kind[c] # "none" ~> answers[c] # <<>>
=============================================================================
