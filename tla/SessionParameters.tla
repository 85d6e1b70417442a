------------------------- MODULE SessionParameters --------------------------
(***************************************************************************)
(* groups_, min_writes_ and node_'s timeouts of src/lib/provider_impl.cpp, *)
(* which set_session_parameters replaces statement by statement and        *)
(* without a lock while calls are being answered by other threads.         *)
(*                                                                         *)
(* A call copies groups_ when it begins (create_session).  A call with a   *)
(* callback also copies min_writes_ then, into its waiter: add_log and     *)
(* add_activity after groups_, add_log_with_activity before it.  A         *)
(* blocking call reads min_writes_ after it has waited for the groups.     *)
(* Any of this may come between two statements of set_session_parameters.  *)
(* What the two do at the same moment to the vector groups_ is undefined,  *)
(* and is not modelled: its copy and its assignment are single steps.      *)
(***************************************************************************)
EXTENDS Naturals, FiniteSets

CONSTANTS
  Calls,        \* calls of add operations
  Groups,       \* elliptics groups
  Timeouts,     \* numbers of seconds
  Created,      \* settings the constructor may be given
  Settings,     \* what the parameters are set to
  MaxSettings   \* bound: number of calls of set_session_parameters

ASSUME GroupsAssumption == IsFiniteSet(Groups)
ASSUME SettingsAssumption == Created \cup Settings \subseteq
  [groups : SUBSET Groups, min_writes : Nat, wait_timeout : Timeouts, check_timeout : Timeouts]
ASSUME MaxSettingsAssumption == MaxSettings \in Nat

VARIABLES
  groups_,      \* the groups a new call writes to
  min_writes_,  \* the threshold
  timeouts,     \* node_'s wait and check timeout
  pc,           \* the next statement of set_session_parameters, or "idle"
  asked,        \* history: the setting last asked for
  settings,     \* number of calls of set_session_parameters so far
  mode,         \* mode[c]: "none" before the call, "sync" or "async"
  copied,       \* copied[c]: which of groups_ and min_writes_ it has copied
  session,      \* session[c]: the groups of the call's session
  threshold,    \* threshold[c]: the waiter's min_writes_ of an asynchronous call
  waits,        \* waits[c]: node_'s timeouts when the session was created
  setting,      \* history: setting[c], the setting in force when c was made
  disturbed,    \* history: calls that began while the parameters were replaced
  acked,        \* acked[c]: groups that succeeded, Waiting before
  answer        \* answer[c]: "none", or what the caller is told

paramVars == <<groups_, min_writes_, timeouts, pc, asked, settings>>
callVars == <<mode, copied, session, threshold, waits, setting, disturbed, acked, answer>>
vars == <<paramVars, callVars>>

Waiting == Cardinality(Groups) + 1
Verdict(n, required) == IF n < required THEN "failed" ELSE "added"

MutantClamped(m, g) == m
Clamped(m, g) == IF m > Cardinality(g) THEN Cardinality(g) ELSE m

(* What an operation copies of the parameters when it begins. *)
Copies(m) == CASE m = "async" -> {"groups", "min_writes"}
               [] m = "sync" -> {"groups"}
               [] m = "none" -> {}
Beginning(c) == copied[c] # Copies(mode[c])

(* The node's configuration as the constructor makes it: the two timeouts   *)
(* are stored one in the place of the other.                                *)
create_config(s) == [wait |-> s.check_timeout, check |-> s.wait_timeout]

(* node_.set_timeouts(wait_timeout, check_timeout) *)
set_timeouts(s) == [wait |-> s.wait_timeout, check |-> s.check_timeout]

(* min_writes_ = min_writes *)
MutantNewMinWrites(s) == min_writes_
NewMinWrites(s) == s.min_writes

(* What the number of groups that succeeded is compared with. *)
MutantThreshold(c) == min_writes_
Threshold(c) == IF mode[c] = "async" THEN threshold[c] ELSE min_writes_

TypeOK ==
  /\ groups_ \in SUBSET Groups
  /\ min_writes_ \in Nat
  /\ pc = "idle" => min_writes_ \in 0..Cardinality(groups_)
  /\ timeouts \in [wait : Timeouts, check : Timeouts]
  /\ pc \in {"idle", "min_writes", "clamp"}
  /\ asked \in Created \cup Settings
  /\ settings \in 0..MaxSettings
  /\ mode \in [Calls -> {"none", "sync", "async"}]
  /\ copied \in [Calls -> SUBSET {"groups", "min_writes"}]
  /\ \A c \in Calls : copied[c] \subseteq Copies(mode[c])
  /\ session \in [Calls -> SUBSET Groups]
  /\ threshold \in [Calls -> Nat]
  /\ waits \in [Calls -> [wait : Timeouts, check : Timeouts]]
  /\ setting \in [Calls -> Created \cup Settings]
  /\ disturbed \subseteq Calls
  /\ acked \in [Calls -> 0..Waiting]
  /\ \A c \in Calls : acked[c] # Waiting => acked[c] <= Cardinality(session[c])
  /\ answer \in [Calls -> {"none", "added", "failed"}]

(* The constructor: the setting it is given, clamped. *)
Init ==
  /\ asked \in Created
  /\ groups_ = asked.groups
  /\ min_writes_ = Clamped(asked.min_writes, asked.groups)
  /\ timeouts = create_config(asked)
  /\ pc = "idle"
  /\ settings = 0
  /\ mode = [c \in Calls |-> "none"]
  /\ copied = [c \in Calls |-> {}]
  /\ session = [c \in Calls |-> {}]
  /\ threshold = [c \in Calls |-> 0]
  /\ waits = [c \in Calls |-> timeouts]
  /\ setting = [c \in Calls |-> asked]
  /\ disturbed = {}
  /\ acked = [c \in Calls |-> Waiting]
  /\ answer = [c \in Calls |-> "none"]

(* set_session_parameters: groups_ = groups; min_writes_ = min_writes; ...  *)
SetGroups(s) ==
  /\ pc = "idle"
  /\ settings < MaxSettings
  /\ asked' = s
  /\ groups_' = s.groups
  /\ pc' = "min_writes"
  /\ settings' = settings + 1
  /\ disturbed' = disturbed \cup {c \in Calls : Beginning(c)}
  /\ UNCHANGED <<min_writes_, timeouts, mode, copied, session, threshold, waits, setting, acked, answer>>

SetMinWrites ==
  /\ pc = "min_writes"
  /\ min_writes_' = NewMinWrites(asked)
  /\ pc' = "clamp"
  /\ UNCHANGED <<groups_, timeouts, asked, settings, callVars>>

(* if (min_writes_ > groups_.size()) min_writes_ = groups_.size();          *)
(* node_.set_timeouts(...)                                                  *)
Clamp ==
  /\ pc = "clamp"
  /\ min_writes_' = Clamped(min_writes_, groups_)
  /\ timeouts' = set_timeouts(asked)
  /\ pc' = "idle"
  /\ UNCHANGED <<groups_, asked, settings, callVars>>

(* An operation is called. *)
Begin(c, m) ==
  /\ mode[c] = "none"
  /\ mode' = [mode EXCEPT ![c] = m]
  /\ setting' = [setting EXCEPT ![c] = asked]
  /\ disturbed' = IF pc = "idle" THEN disturbed ELSE disturbed \cup {c}
  /\ UNCHANGED <<paramVars, copied, session, threshold, waits, acked, answer>>

(* create_session: a session of node_, with its timeouts, for the groups.   *)
CopyGroups(c) ==
  /\ "groups" \in Copies(mode[c]) \ copied[c]
  /\ copied' = [copied EXCEPT ![c] = @ \cup {"groups"}]
  /\ session' = [session EXCEPT ![c] = groups_]
  /\ waits' = [waits EXCEPT ![c] = timeouts]
  /\ UNCHANGED <<paramVars, mode, threshold, setting, disturbed, acked, answer>>

(* make_shared<waiter>(callback, node_, min_writes_, ...) *)
CopyMinWrites(c) ==
  /\ "min_writes" \in Copies(mode[c]) \ copied[c]
  /\ copied' = [copied EXCEPT ![c] = @ \cup {"min_writes"}]
  /\ threshold' = [threshold EXCEPT ![c] = min_writes_]
  /\ UNCHANGED <<paramVars, mode, session, waits, setting, disturbed, acked, answer>>

(* External: every group of the session has answered or failed. *)
Finish(c, n) ==
  /\ mode[c] # "none" /\ ~Beginning(c)
  /\ acked[c] = Waiting
  /\ n <= Cardinality(session[c])
  /\ acked' = [acked EXCEPT ![c] = n]
  /\ UNCHANGED <<paramVars, mode, copied, session, threshold, waits, setting, disturbed, answer>>

(* waiter::on_log, waiter::on_activity; or, without a callback, the         *)
(* comparison after get() with min_writes_ as it is now.                    *)
Judge(c) ==
  /\ acked[c] # Waiting
  /\ answer[c] = "none"
  /\ answer' = [answer EXCEPT ![c] = Verdict(acked[c], Threshold(c))]
  /\ UNCHANGED <<paramVars, mode, copied, session, threshold, waits, setting, disturbed, acked>>

Quiescent ==
  /\ \A c \in Calls : answer[c] # "none"
  /\ UNCHANGED vars

Next ==
  \/ \E s \in Settings : SetGroups(s)
  \/ SetMinWrites
  \/ Clamp
  \/ \E c \in Calls :
       \/ \E m \in {"sync", "async"} : Begin(c, m)
       \/ CopyGroups(c)
       \/ CopyMinWrites(c)
       \/ \E n \in 0..Cardinality(Groups) : Finish(c, n)
       \/ Judge(c)
  \/ Quiescent

Spec == Init /\ [][Next]_vars
-----------------------------------------------------------------------------
(* The number of groups that must succeed under a setting: min_writes of    *)
(* them, or all of them when there are fewer.                               *)
Required(s) == IF s.min_writes < Cardinality(s.groups) THEN s.min_writes ELSE Cardinality(s.groups)

(* c's verdict is the one of the setting in force when it was made. *)
JudgedAsMade(c) == answer[c] # "none" => answer[c] = Verdict(acked[c], Required(setting[c]))

(* An asynchronous call is judged by the setting it was made under, however *)
(* often the parameters are replaced before its groups have answered, and   *)
(* in whichever order it copies them; only a call that begins while         *)
(* set_session_parameters runs may get a threshold that no setting has.     *)
AsyncJudgedAsMade == \A c \in Calls : mode[c] = "async" /\ c \notin disturbed => JudgedAsMade(c)

(* "if historydb tries to write in 5 groups and min_writes is 3 the attemp  *)
(* will be failed if write will be succeeded in less then 3 groups"         *)
(* (README.md): so is a blocking call.                                      *)
SyncJudgedAsMade == \A c \in Calls : mode[c] = "sync" /\ c \notin disturbed => JudgedAsMade(c)

(* An answer to a blocking call whose setting is the last one asked for is  *)
(* the one of that setting, unless the parameters are being replaced.       *)
SyncAnswered(c) ==
  mode[c] = "sync" /\ answer[c] = "none" /\ answer'[c] # "none"
  /\ setting[c] = asked /\ pc = "idle" => JudgedAsMade(c)'

(* A blocking call too is judged by its setting if no other setting was     *)
(* asked for since.  One of several calls that wait may see the parameters  *)
(* replaced; a call that begins later must not be affected by it.           *)
SyncJudgedUndisturbed == [][\A c \in Calls : SyncAnswered(c)]_vars

(* "uint32_t wait_timeout = 60, uint32_t check_timeout = 60" (provider.h),  *)
(* config["wait_timeout"] (webserver.cpp): the session of a call waits for  *)
(* its groups as long as its setting's wait_timeout, and node_ checks its   *)
(* connections every check_timeout, whether the constructor or              *)
(* set_session_parameters was given them.                                   *)
WaitsAsNamed ==
  \A c \in Calls : "groups" \in copied[c] /\ c \notin disturbed =>
    /\ waits[c].wait = setting[c].wait_timeout
    /\ waits[c].check = setting[c].check_timeout
=============================================================================
