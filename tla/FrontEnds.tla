----------------------------- MODULE FrontEnds -----------------------------
(***************************************************************************)
(* The two HTTP front ends, src/thevoid and src/fastcgi, each with a       *)
(* provider of its own that keeps the contract of Completion.  Both serve  *)
(* the same interface: here the same request is sent to both of them.      *)
(*                                                                         *)
(* A handler of src/thevoid calls an operation with a callback and returns *)
(* - the reply is sent from the callback; a handler of src/fastcgi calls   *)
(* the blocking operation and replies when it returns or throws.  Both     *)
(* catch what an operation throws before it has sent all its requests; the *)
(* sessions of the provider throw nothing afterwards (no_exceptions).      *)
(***************************************************************************)
EXTENDS Naturals, Sequences, AddParts

CONSTANTS
  Queries,      \* the requests, as records with uri, method and args
  MaxGroups,
  MinWrites     \* MinWrites[s]: min_writes_ of the provider of s

FrontEnd == {"thevoid", "fastcgi"}

VARIABLES
  query,        \* the request
  call,         \* call[s]: the operation its handler in s has called, or what
                \* it has found instead; Received before
  sent,         \* sent[s]: the parts of the add operation that elliptics was given
  found,        \* found[s]: what a read has found, "unread" before
  thrown,       \* thrown[s]: what the operation has thrown, or "nothing"
  replies,      \* replies[s]: the replies sent by s
  kind, got, answers    \* the calls of add operations, one by each front end

callVars == <<call, sent, found, thrown>>
addVars == <<kind, got, answers>>
vars == <<query, callVars, replies, addVars>>

Provider == INSTANCE Completion WITH Calls <- FrontEnd

Args == {"user", "data", "key", "time", "keys", "begin_time", "end_time"}
Values == {"absent", "empty", "text", "early", "late"}
Numbers == {"early", "late"}

ASSUME QueriesAssumption == \A q \in Queries : q.args \in [Args -> Values]
ASSUME BoundsAssumption == MaxGroups \in Nat /\ MinWrites \in [FrontEnd -> Nat]

Has(q, a) == q.args[a] # "absent"
Filled(q, a) == Has(q, a) /\ q.args[a] # "empty"
Number(q, a) == q.args[a] \in Numbers   \* boost::lexical_cast<uint64_t> succeeds

Calling(op, by) == [op |-> op, by |-> by]
Received == Calling("none", "nothing")
Refused == Calling("refused", "nothing")
Served == Calling("root", "nothing")
Unknown == Calling("unknown", "nothing")
Ops == [op : {"log", "activity", "both", "logs", "users"},
        by : {"key", "time", "keys", "period"}] \cup {Received, Refused, Served, Unknown}

(* The key goes before the time; a time that is no number is refused. *)
ByKeyOrTime(q, op) ==
  IF Has(q, "key") THEN Calling(op, "key")
  ELSE IF Number(q, "time") THEN Calling(op, "time")
  ELSE Refused

ByKeysOrPeriod(q, op) ==
  IF Has(q, "keys") THEN Calling(op, "keys")
  ELSE IF Number(q, "begin_time") /\ Number(q, "end_time") THEN Calling(op, "period")
  ELSE Refused

(* The handlers of src/thevoid. *)
on_add_log(q) ==
  IF Has(q, "user") /\ Has(q, "data") THEN ByKeyOrTime(q, "log") ELSE Refused
on_add_activity(q) ==
  IF Has(q, "user") THEN ByKeyOrTime(q, "activity") ELSE Refused
on_add_log_with_activity(q) ==
  IF Has(q, "user") /\ Has(q, "data") THEN ByKeyOrTime(q, "both") ELSE Refused
on_get_active_users(q) == ByKeysOrPeriod(q, "users")
on_get_user_logs(q) == IF Has(q, "user") THEN ByKeysOrPeriod(q, "logs") ELSE Refused

(* The methods for which webserver::initialize registers the handlers. *)
Method(uri) ==
  IF uri \in {"/add_log", "/add_activity", "/add_log_with_activity"} THEN "POST" ELSE "GET"

thevoid(q) ==
  IF q.method # Method(q.uri) THEN Unknown
  ELSE CASE q.uri = "/"                       -> Served
         [] q.uri = "/add_log"                -> on_add_log(q)
         [] q.uri = "/add_activity"           -> on_add_activity(q)
         [] q.uri = "/add_log_with_activity"  -> on_add_log_with_activity(q)
         [] q.uri = "/get_active_users"       -> on_get_active_users(q)
         [] q.uri = "/get_user_logs"          -> on_get_user_logs(q)
         [] OTHER                             -> Unknown

(* The handlers of src/fastcgi.  Those of the activity do not use a key, or *)
(* a list of keys, that is empty.                                           *)
handle_add_log(q) ==
  IF Has(q, "user") /\ Has(q, "data") THEN ByKeyOrTime(q, "log") ELSE Refused

handle_add_activity(q) ==
  IF ~Has(q, "user") THEN Refused
  ELSE IF Filled(q, "key") THEN Calling("activity", "key")
  ELSE IF Number(q, "time") THEN Calling("activity", "time")
  ELSE Refused

(* Mutant: the wrong operation, copied from handle_add_log. *)
Mutant_handle_add_log_with_activity(q) ==
  IF Has(q, "user") /\ Has(q, "data") THEN ByKeyOrTime(q, "log") ELSE Refused

handle_add_log_with_activity(q) ==
  IF Has(q, "user") /\ Has(q, "data") THEN ByKeyOrTime(q, "both") ELSE Refused

handle_get_active_users(q) ==
  IF Filled(q, "keys") THEN Calling("users", "keys")
  ELSE IF Number(q, "begin_time") /\ Number(q, "end_time") THEN Calling("users", "period")
  ELSE Refused

(* Mutant: the user is not asked for. *)
Mutant_handle_get_user_logs(q) == ByKeysOrPeriod(q, "logs")

handle_get_user_logs(q) == IF Has(q, "user") THEN ByKeysOrPeriod(q, "logs") ELSE Refused

fastcgi(q) ==
  CASE q.uri = "/"                       -> Served
    [] q.uri = "/add_log"                -> handle_add_log(q)
    [] q.uri = "/add_activity"           -> handle_add_activity(q)
    [] q.uri = "/add_log_with_activity"  -> handle_add_log_with_activity(q)
    [] q.uri = "/get_active_users"       -> handle_get_active_users(q)
    [] q.uri = "/get_user_logs"          -> handle_get_user_logs(q)
    [] OTHER                             -> Unknown

Handler(s, q) == IF s = "thevoid" THEN thevoid(q) ELSE fastcgi(q)

Statuses == {200, 400, 404, 500}
Bodies == {"empty", "empty list", "list"}

TypeOK ==
  /\ query.args \in [Args -> Values]
  /\ call \in [FrontEnd -> Ops]
  /\ sent \in [FrontEnd -> SUBSET Parts]
  /\ found \in [FrontEnd -> {"unread", "none", "some"}]
  /\ thrown \in [FrontEnd -> {"nothing", "elliptics::error", "another"}]
  /\ replies \in [FrontEnd -> Seq([status : Statuses, body : Bodies])]
  /\ \A s \in FrontEnd : Len(replies[s]) <= 1
  /\ kind \in [FrontEnd -> Kinds \cup {"none"}]
  /\ got \in [FrontEnd -> [Parts -> 0..(MaxGroups + 1)]]
  /\ answers \in [FrontEnd -> {<<>>, <<TRUE>>, <<FALSE>>}]

Init ==
  /\ query \in Queries
  /\ call = [s \in FrontEnd |-> Received]
  /\ sent = [s \in FrontEnd |-> {}]
  /\ found = [s \in FrontEnd |-> "unread"]
  /\ thrown = [s \in FrontEnd |-> "nothing"]
  /\ replies = [s \in FrontEnd |-> <<>>]
  /\ Provider!Init

Reply(s, status, body) ==
  replies' = [replies EXCEPT ![s] = Append(@, [status |-> status, body |-> body])]

(* What is replied before the handler returns, if anything.  Mutant: an     *)
(* exception after the call is replied to as well.                          *)
MutantAtOnce(h) == IF h = Unknown THEN {404} ELSE {400}
AtOnce(h) ==
  IF h = Served THEN {200} ELSE IF h = Refused THEN {400} ELSE IF h = Unknown THEN {404} ELSE {}

(* The handler runs: it calls the provider, or replies at once. *)
Handle(s) ==
  LET h == Handler(s, query)
  IN /\ call[s] = Received
     /\ call' = [call EXCEPT ![s] = h]
     /\ IF h.op \in Kinds THEN Provider!Call(s, h.op) ELSE UNCHANGED addVars
     /\ IF AtOnce(h) = {} THEN UNCHANGED replies
        ELSE \E status \in AtOnce(h) : Reply(s, status, "empty")
     /\ UNCHANGED <<query, sent, found, thrown>>

(* The add operation gives elliptics a request, the log's first. *)
Send(s, p) ==
  /\ p \in PartsOf(kind[s]) \ sent[s]
  /\ p = "activity" /\ kind[s] = "both" => "log" \in sent[s]
  /\ thrown[s] = "nothing"
  /\ sent' = [sent EXCEPT ![s] = @ \cup {p}]
  /\ UNCHANGED <<query, call, found, thrown, replies, addVars>>

(* External: elliptics finishes one of the writes. *)
Finish(s, p, n) ==
  /\ p \in sent[s]
  /\ Provider!Finish(s, p, n)
  /\ UNCHANGED <<query, callVars, replies>>

(* on_finish.  Mutant: it replies only when the record was added. *)
MutantFinished(s, added) == IF added THEN Reply(s, 200, "empty") ELSE UNCHANGED replies
Finished(s, added) == Reply(s, IF added THEN 200 ELSE 500, "empty")

(* An add operation calls on_finish, or returns or throws. *)
AddDone(s) ==
  /\ Provider!Answer(s)
  /\ Finished(s, answers'[s] = <<TRUE>>)
  /\ UNCHANGED <<query, callVars>>

Reading(s) == call[s].op \in {"logs", "users"} /\ replies[s] = <<>>

(* A period that ends before it begins. *)
Reversed(q) == q.args["begin_time"] = "late" /\ q.args["end_time"] = "early"

(* A period without a day, for which get_user_logs with a callback is       *)
(* undefined (see UserLogs).                                                *)
Undefined(s) == s = "thevoid" /\ call[s] = Calling("logs", "period") /\ Reversed(query)

(* The document with what a read has found; on_get_user_logs makes none     *)
(* when that is nothing.                                                    *)
Body(s, op, what) ==
  IF what = "some" THEN "list" ELSE IF s = "thevoid" /\ op = "logs" THEN "empty" ELSE "empty list"

(* A read operation calls on_finished, or returns; neither tells of errors. *)
ReadDone(s, what) ==
  /\ Reading(s)
  /\ ~Undefined(s)
  /\ call[s].by = "period" /\ Reversed(query) => what = "none"
  /\ found' = [found EXCEPT ![s] = what]
  /\ Reply(s, 200, Body(s, call[s].op, what))
  /\ UNCHANGED <<query, call, sent, thrown, addVars>>

(* catch(elliptics::error&) and catch(...) *)
Caught(exception) == IF exception = "elliptics::error" THEN 500 ELSE 400

(* External: an operation throws while it makes its sessions and requests;  *)
(* the log part of add_log_with_activity may have been sent.                *)
Throw(s, exception) ==
  /\ Reading(s) \/ PartsOf(kind[s]) \ sent[s] # {}
  /\ thrown[s] = "nothing"
  /\ thrown' = [thrown EXCEPT ![s] = exception]
  /\ Reply(s, Caught(exception), "empty")
  /\ UNCHANGED <<query, call, sent, found, addVars>>

(* Both have replied, or one is in an undefined state. *)
Quiescent ==
  /\ \A s \in FrontEnd : replies[s] # <<>> \/ Undefined(s)
  /\ UNCHANGED vars

Next ==
  \/ \E s \in FrontEnd :
       \/ Handle(s)
       \/ \E p \in Parts : Send(s, p)
       \/ \E p \in Parts, n \in 0..MaxGroups : Finish(s, p, n)
       \/ AddDone(s)
       \/ \E what \in {"none", "some"} : ReadDone(s, what)
       \/ \E exception \in {"elliptics::error", "another"} : Throw(s, exception)
  \/ Quiescent

(* The servers' threads run; the provider's operations come to their end    *)
(* (EveryCallAnswered of AddOps, EveryReadAnswered of UserLogs).  None has  *)
(* to throw.                                                                *)
Fairness ==
  \A s \in FrontEnd :
    /\ WF_vars(Handle(s))
    /\ WF_vars(\E p \in Parts : Send(s, p))
    /\ WF_vars(\E p \in Parts, n \in 0..MaxGroups : Finish(s, p, n))
    /\ WF_vars(AddDone(s))
    /\ WF_vars(\E what \in {"none", "some"} : ReadDone(s, what))

Spec == Init /\ [][Next]_vars /\ Fairness
-----------------------------------------------------------------------------
(* The parts that the interface promises to write. *)
Promised(uri) ==
  CASE uri = "/add_log" -> {"log"}
    [] uri = "/add_activity" -> {"activity"}
    [] uri = "/add_log_with_activity" -> Parts
    [] OTHER -> {}

Status(s) == replies[s][1].status

(* What a client may conclude from the status of an add request: 200, that  *)
(* everything the URI names has been written to enough groups; 500, that    *)
(* some of it was not even sent, or has not; 400, that some of it was not   *)
(* sent - not that nothing was, as an exception between the two requests of *)
(* add_log_with_activity is told by the same status; 404, that nothing was. *)
StatusTellsWrites ==
  \A s \in FrontEnd : replies[s] # <<>> =>
    /\ Status(s) = 200 => \A p \in Promised(query.uri) :
                            got[s][p] \in MinWrites[s]..MaxGroups
    /\ Status(s) = 500 /\ Promised(query.uri) # {} =>
         \E p \in Promised(query.uri) : p \notin sent[s] \/ got[s][p] < MinWrites[s]
    /\ Status(s) = 400 /\ Promised(query.uri) # {} => Promised(query.uri) \ sent[s] # {}
    /\ Status(s) = 404 => sent[s] = {}

(* The requests that the two front ends treat differently: of another       *)
(* method than src/thevoid expects; of the activity with an empty key or    *)
(* list of keys; and for the logs of a period that ends before it begins,   *)
(* which src/thevoid does not answer.                                       *)
Differs(q) ==
  \/ q.method # Method(q.uri)
  \/ q.uri = "/add_activity" /\ q.args["key"] = "empty"
  \/ q.uri = "/get_active_users" /\ q.args["keys"] = "empty"
  \/ q.uri = "/get_user_logs" /\ Has(q, "user") /\ ~Has(q, "keys") /\ Reversed(q)

(* The provider did the same for both. *)
SameOutcome ==
  LET v == "thevoid"  f == "fastcgi"
  IN answers[v] = answers[f] /\ found[v] = found[f] /\ thrown[v] = thrown[f]

(* For every other request it does not matter which of the two is asked:    *)
(* both are defined and call the same operation with the same keys; when    *)
(* that ends, or throws, in the same way they reply with the same status    *)
(* and the same body, unless they tell that there are no logs.              *)
FrontEndsAgree ==
  LET v == "thevoid"  f == "fastcgi"
  IN ~Differs(query) =>
       /\ ~Undefined(v)
       /\ call[v] # Received /\ call[f] # Received => call[v] = call[f]
       /\ replies[v] # <<>> /\ replies[f] # <<>> /\ SameOutcome =>
            /\ Status(v) = Status(f)
            /\ replies[v] = replies[f] \/ (call[v].op = "logs" /\ found[v] = "none")

(* Every request is replied to, whatever the provider answers; the only     *)
(* exception is the undefined behaviour on a period without a day.          *)
EveryRequestAnswered ==
  \A s \in FrontEnd : <>(replies[s] # <<>> \/ Undefined(s))
=============================================================================
