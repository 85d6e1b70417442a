-------------------------- MODULE FrontEndsProofs ---------------------------
(***************************************************************************)
(* For any request, any number of groups and any min_writes, and whatever  *)
(* the operations throw: what the status of a reply says about the writes  *)
(* behind it, and that the two front ends give the same reply.             *)
(***************************************************************************)
EXTENDS FrontEnds, SequenceTheorems, TLAPS

(* What a front end has called is what its handler decides for the request; *)
(* only requests that were sent have results, an operation that has thrown  *)
(* has not sent all of them, and the provider has answered with the verdict *)
(* on the parts of the call.                                                *)
Called(s) ==
  /\ call[s] \in {Received, Handler(s, query)}
  /\ kind[s] = IF call[s].op \in Kinds THEN call[s].op ELSE "none"
  /\ sent[s] \subseteq PartsOf(kind[s])
  /\ \A p \in Parts \ sent[s] : got[s][p] = MaxGroups + 1
  /\ thrown[s] # "nothing" /\ call[s].op \in Kinds => PartsOf(kind[s]) \ sent[s] # {}
  /\ answers[s] # <<>> => Provider!Finished(s)
  /\ answers[s] = <<TRUE>> => Provider!Enough(s)
  /\ answers[s] = <<FALSE>> => ~Provider!Enough(s)

Message(status, body) == [status |-> status, body |-> body]
MessageType == [status : Statuses, body : Bodies]

(* The replies r of s that go with the decision h, the provider's answers   *)
(* a, what was found, d, and what was thrown, t: nothing before the handler *)
(* has run, the verdict of an add operation, 200 and the body for a read,   *)
(* the status of what was caught, and at once what needs no operation.      *)
RepliesFor(s, h, a, d, t, r) ==
  /\ t # "nothing" => /\ h.op \in Kinds \cup {"logs", "users"} /\ a = <<>>
                      /\ r = <<Message(Caught(t), "empty")>>
  /\ h = Received => r = <<>>
  /\ h.op \notin {"logs", "users"} => d = "unread"
  /\ t = "nothing" /\ h.op \in Kinds =>
       /\ a = <<>> => r = <<>>
       /\ a = <<TRUE>> => r = <<Message(200, "empty")>>
       /\ a = <<FALSE>> => r = <<Message(500, "empty")>>
  /\ t = "nothing" /\ h.op \in {"logs", "users"} =>
       r = IF d = "unread" THEN <<>> ELSE <<Message(200, Body(s, h.op, d))>>
  /\ h = Served => r = <<Message(200, "empty")>>
  /\ h = Refused => r = <<Message(400, "empty")>>
  /\ h = Unknown => r = <<Message(404, "empty")>>

Replied(s) == RepliesFor(s, call[s], answers[s], found[s], thrown[s], replies[s])

IInv == TypeOK /\ query \in Queries /\ \A s \in FrontEnd : Called(s) /\ Replied(s)
-----------------------------------------------------------------------------
(* Every answer of the handlers is one of five kinds. *)
LEMMA Answers ==
  ASSUME NEW h \in Ops
  PROVE  \/ h = Received /\ h.op = "none"
         \/ h = Refused /\ h.op = "refused"
         \/ h = Served /\ h.op = "root"
         \/ h = Unknown /\ h.op = "unknown"
         \/ h.op \in Kinds \cup {"logs", "users"}
BY DEF Ops, Received, Refused, Served, Unknown, Calling, Kinds

(* The first of one, which is not none. *)
LEMMA FirstOf == \A n : <<n>>[1] = n /\ <<n>> # <<>>
OBVIOUS

(* The replies q and r are alike: they differ in the body at most, and only *)
(* to tell that there are no logs.                                          *)
Alike(h, d, q, r) ==
  q[1].status = r[1].status /\ (q = r \/ (h.op = "logs" /\ d = "none"))

(* A decision and what the provider did leave one reply to send, but for    *)
(* the body that tells of no logs.                                          *)
LEMMA OneReply ==
  ASSUME NEW h \in Ops, h # Received,
         NEW a \in {<<>>, <<TRUE>>, <<FALSE>>},
         NEW d \in {"unread", "none", "some"},
         NEW t,
         NEW q, q # <<>>, RepliesFor("thevoid", h, a, d, t, q),
         NEW r, r # <<>>, RepliesFor("fastcgi", h, a, d, t, r)
  PROVE  Alike(h, d, q, r)
<1>0. q = r => Alike(h, d, q, r)
  BY DEF Alike
<1>1. CASE h = Refused \/ h = Served \/ h = Unknown
  <2>1. q = r
    BY <1>1 DEF RepliesFor
  <2> QED
    BY <1>0, <2>1
<1>2. CASE t # "nothing"
  <2>1. q = r
    BY <1>2 DEF RepliesFor
  <2> QED
    BY <1>0, <2>1
<1>3. CASE t = "nothing" /\ h.op \in Kinds
  <2>1. CASE a = <<>>
    BY <1>3, <2>1 DEF RepliesFor
  <2>2. CASE a = <<TRUE>>
    <3>1. q = <<Message(200, "empty")>> /\ r = <<Message(200, "empty")>>
      BY <1>3, <2>2, Zenon DEF RepliesFor
    <3> QED
      BY <1>0, <3>1
  <2>3. CASE a = <<FALSE>>
    <3>1. q = <<Message(500, "empty")>> /\ r = <<Message(500, "empty")>>
      BY <1>3, <2>3, Zenon DEF RepliesFor
    <3> QED
      BY <1>0, <3>1
  <2> QED
    BY <2>1, <2>2, <2>3
<1>4. CASE t = "nothing" /\ h.op \in {"logs", "users"}
  <2>1. /\ d # "unread"
        /\ q = <<Message(200, Body("thevoid", h.op, d))>>
        /\ r = <<Message(200, Body("fastcgi", h.op, d))>>
    BY <1>4 DEF RepliesFor
  <2>2. q[1].status = 200 /\ r[1].status = 200
    BY <2>1, FirstOf DEF Message
  <2>3. \/ h.op = "logs" /\ d = "none"
        \/ Body("thevoid", h.op, d) = Body("fastcgi", h.op, d)
    BY <2>1 DEF Body
  <2> QED
    BY <2>1, <2>2, <2>3 DEF Alike
<1> QED
  BY <1>1, <1>2, <1>3, <1>4, Answers

(* What AtOnce says of them. *)
LEMMA AnsweredAtOnce ==
  ASSUME NEW h \in Ops
  PROVE  /\ h.op \in {"none", "logs", "users"} \cup Kinds => AtOnce(h) = {}
         /\ h = Served => AtOnce(h) = {200}
         /\ h = Refused => AtOnce(h) = {400}
         /\ h = Unknown => AtOnce(h) = {404}
BY DEF AtOnce, Served, Refused, Unknown, Calling, Kinds

(* A handler for a request decides for an operation, and only for one that  *)
(* writes just what the URI promises.                                       *)
LEMMA ByKeyOrTimeOps ==
  ASSUME NEW q, NEW op \in {"log", "activity", "both"}
  PROVE  ByKeyOrTime(q, op) = Refused \/ (ByKeyOrTime(q, op) \in Ops /\ ByKeyOrTime(q, op).op = op)
BY DEF ByKeyOrTime, Calling, Ops

(* A request for logs or users is refused or asks for just that. *)
LEMMA ByKeysOrPeriodOps ==
  ASSUME NEW q, NEW op \in {"logs", "users"}
  PROVE  ByKeysOrPeriod(q, op) = Refused
           \/ (ByKeysOrPeriod(q, op) \in Ops /\ ByKeysOrPeriod(q, op).op = op)
BY DEF ByKeysOrPeriod, Calling, Ops

(* What a handler may decide for a URI: only what the interface promises of *)
(* it, with an operation that writes just the parts promised.               *)
Decides(h, uri) ==
  /\ h \in Ops /\ h # Received
  /\ h.op \in Kinds => Promised(uri) = PartsOf(h.op)
  /\ h.op \in {"logs", "users"} \/ h = Served => Promised(uri) = {}

(* Refusing decides nothing that could be wrong, nor does finding no page.  *)
LEMMA RefusedDecides == \A uri : Decides(Refused, uri) /\ Decides(Unknown, uri)
BY DEF Decides, Refused, Unknown, Served, Received, Calling, Ops, Kinds

(* Every handler of both front ends decides what its URI promises. *)
LEMMA HandlerDecides ==
  ASSUME NEW s \in FrontEnd, NEW q
  PROVE  Decides(Handler(s, q), q.uri)
<1>1. ASSUME NEW op \in {"log", "activity", "both"}, NEW uri, Promised(uri) = PartsOf(op),
             NEW h, h = Refused \/ (h \in Ops /\ h.op = op)
      PROVE  Decides(h, uri)
  <2>1. CASE h = Refused
    BY <2>1, RefusedDecides
  <2>2. CASE h \in Ops /\ h.op = op
    BY <1>1, <2>2 DEF Decides, Received, Served, Calling, Kinds
  <2> QED
    BY <1>1, <2>1, <2>2
<1>2. ASSUME NEW op \in {"logs", "users"}, NEW uri, Promised(uri) = {},
             NEW h, h = Refused \/ (h \in Ops /\ h.op = op)
      PROVE  Decides(h, uri)
  <2>1. CASE h = Refused
    BY <2>1, RefusedDecides
  <2>2. CASE h \in Ops /\ h.op = op
    BY <1>2, <2>2 DEF Decides, Received, Served, Calling, Kinds
  <2> QED
    BY <1>2, <2>1, <2>2
<1>3. /\ Promised("/add_log") = PartsOf("log")
      /\ Promised("/add_activity") = PartsOf("activity")
      /\ Promised("/add_log_with_activity") = PartsOf("both")
      /\ Promised("/get_active_users") = {} /\ Promised("/get_user_logs") = {} /\ Promised("/") = {}
  BY DEF Promised, PartsOf, Parts
<1>4. Decides(on_add_log(q), "/add_log") /\ Decides(handle_add_log(q), "/add_log")
  <2>1. \A h \in {on_add_log(q), handle_add_log(q)} : h = Refused \/ (h \in Ops /\ h.op = "log")
    BY ByKeyOrTimeOps DEF on_add_log, handle_add_log
  <2> QED
    BY <1>1, <1>3, <2>1
<1>5. Decides(on_add_activity(q), "/add_activity") /\ Decides(handle_add_activity(q), "/add_activity")
  <2>1. on_add_activity(q) = Refused \/ (on_add_activity(q) \in Ops /\ on_add_activity(q).op = "activity")
    BY ByKeyOrTimeOps DEF on_add_activity
  <2>2. \/ handle_add_activity(q) = Refused
        \/ handle_add_activity(q) \in Ops /\ handle_add_activity(q).op = "activity"
    BY DEF handle_add_activity, Calling, Ops
  <2> QED
    BY <1>1, <1>3, <2>1, <2>2
<1>6. /\ Decides(on_add_log_with_activity(q), "/add_log_with_activity")
      /\ Decides(handle_add_log_with_activity(q), "/add_log_with_activity")
  <2>1. \A h \in {on_add_log_with_activity(q), handle_add_log_with_activity(q)} :
          h = Refused \/ (h \in Ops /\ h.op = "both")
    BY ByKeyOrTimeOps DEF on_add_log_with_activity, handle_add_log_with_activity
  <2> QED
    BY <1>1, <1>3, <2>1
<1>7. /\ Decides(on_get_active_users(q), "/get_active_users")
      /\ Decides(handle_get_active_users(q), "/get_active_users")
  <2>1. on_get_active_users(q) = Refused
          \/ (on_get_active_users(q) \in Ops /\ on_get_active_users(q).op = "users")
    BY ByKeysOrPeriodOps DEF on_get_active_users
  <2>2. handle_get_active_users(q) = Refused
          \/ (handle_get_active_users(q) \in Ops /\ handle_get_active_users(q).op = "users")
    BY DEF handle_get_active_users, Calling, Ops
  <2> QED
    BY <1>2, <1>3, <2>1, <2>2
<1>8. Decides(on_get_user_logs(q), "/get_user_logs") /\ Decides(handle_get_user_logs(q), "/get_user_logs")
  <2>1. \A h \in {on_get_user_logs(q), handle_get_user_logs(q)} : h = Refused \/ (h \in Ops /\ h.op = "logs")
    BY ByKeysOrPeriodOps DEF on_get_user_logs, handle_get_user_logs
  <2> QED
    BY <1>2, <1>3, <2>1
<1>9. Decides(Served, "/")
  BY <1>3 DEF Decides, Served, Received, Calling, Ops, Kinds
<1>10. Decides(thevoid(q), q.uri)
  BY <1>4, <1>5, <1>6, <1>7, <1>8, <1>9, RefusedDecides DEF thevoid
<1>11. Decides(fastcgi(q), q.uri)
  BY <1>4, <1>5, <1>6, <1>7, <1>8, <1>9, RefusedDecides DEF fastcgi
<1> QED
  BY <1>10, <1>11 DEF Handler, FrontEnd

(* The handlers of the two front ends decide alike, except for requests     *)
(* that they are known to treat differently.                                *)
LEMMA SameDecision ==
  ASSUME NEW q, ~Differs(q)
  PROVE  thevoid(q) = fastcgi(q)
<1>1. on_add_log(q) = handle_add_log(q) /\ on_get_user_logs(q) = handle_get_user_logs(q)
  BY DEF on_add_log, handle_add_log, on_get_user_logs, handle_get_user_logs
<1>2. on_add_log_with_activity(q) = handle_add_log_with_activity(q)
  BY DEF on_add_log_with_activity, handle_add_log_with_activity
<1>3. q.args["key"] # "empty" => on_add_activity(q) = handle_add_activity(q)
  BY DEF on_add_activity, handle_add_activity, ByKeyOrTime, Filled, Has
<1>4. q.args["keys"] # "empty" => on_get_active_users(q) = handle_get_active_users(q)
  BY DEF on_get_active_users, handle_get_active_users, ByKeysOrPeriod, Filled, Has
<1> QED
  BY <1>1, <1>2, <1>3, <1>4 DEF Differs, thevoid, fastcgi

(* src/thevoid reads the logs of a period only when it is asked for them.   *)
LEMMA PeriodOfLogs ==
  ASSUME NEW q, thevoid(q) = Calling("logs", "period")
  PROVE  q.uri = "/get_user_logs" /\ Has(q, "user") /\ ~Has(q, "keys")
<1>1. Calling("logs", "period").op = "logs"
      /\ Refused.op = "refused" /\ Served.op = "root" /\ Unknown.op = "unknown"
  BY DEF Calling, Refused, Served, Unknown
<1>2. /\ on_add_log(q).op # "logs" /\ on_add_activity(q).op # "logs"
      /\ on_add_log_with_activity(q).op # "logs" /\ on_get_active_users(q).op # "logs"
  <2>1. \A h \in {on_add_log(q), on_add_activity(q), on_add_log_with_activity(q), on_get_active_users(q)} :
          h = Refused \/ h.op \in {"log", "activity", "both", "users"}
    BY ByKeyOrTimeOps, ByKeysOrPeriodOps
       DEF on_add_log, on_add_activity, on_add_log_with_activity, on_get_active_users
  <2> QED
    BY <1>1, <2>1
<1>3. q.uri = "/get_user_logs" /\ on_get_user_logs(q) = Calling("logs", "period")
  BY <1>1, <1>2 DEF thevoid
<1>4. Has(q, "user") /\ ByKeysOrPeriod(q, "logs") = Calling("logs", "period")
  BY <1>1, <1>3 DEF on_get_user_logs
<1>5. ~Has(q, "keys")
  <2>1. Calling("logs", "keys") # Calling("logs", "period")
    BY DEF Calling
  <2> QED
    BY <1>4, <2>1 DEF ByKeysOrPeriod
<1> QED
  BY <1>3, <1>4, <1>5
-----------------------------------------------------------------------------
(* The first reply. *)
LEMMA AppendFirst ==
  ASSUME NEW m \in MessageType
  PROVE  Append(<<>>, m) = <<m>> /\ <<m>> \in Seq(MessageType) /\ Len(<<m>>) = 1
OBVIOUS

(* The provider's parts of an operation are the front ends'. *)
LEMMA SameParts == \A k : Provider!PartsOf(k) = PartsOf(k)
BY DEF Provider!PartsOf, PartsOf, Provider!Parts, Parts

(* Operations write parts, and none without an operation. *)
LEMMA PartsOfKinds ==
  /\ \A k \in Kinds : PartsOf(k) # {} /\ PartsOf(k) \subseteq Parts
  /\ PartsOf("none") = {} /\ "none" \notin Kinds
BY DEF PartsOf, Parts, Kinds

(* The verdicts of a provider are told apart. *)
LEMMA Verdicts ==
  /\ <<>> # <<TRUE>> /\ <<>> # <<FALSE>>
  /\ \A b \in BOOLEAN : /\ <<b>> \in {<<TRUE>>, <<FALSE>>} /\ <<b>> # <<>>
                        /\ <<b>> = <<TRUE>> <=> b
                        /\ <<b>> = <<FALSE>> <=> ~b
OBVIOUS

(* Before a request is handled nothing was called or replied. *)
LEMMA InitInv == Init => IInv
<1> SUFFICES ASSUME Init PROVE IInv
  OBVIOUS
<1>1. query.args \in [Args -> Values]
  BY QueriesAssumption DEF Init
<1>2. Received \in Ops /\ Received.op = "none"
  BY DEF Received, Ops, Calling
<1>3. TypeOK
  <2>1. replies \in [FrontEnd -> Seq([status : Statuses, body : Bodies])]
        /\ \A s \in FrontEnd : Len(replies[s]) <= 1
    BY EmptySeq DEF Init
  <2> QED
    BY <1>1, <1>2, <2>1, BoundsAssumption
       DEF Init, TypeOK, Provider!Init, Provider!NoResult, Provider!Parts, Parts
<1>4. ASSUME NEW s \in FrontEnd PROVE Called(s) /\ Replied(s)
  <2>1. call[s] = Received /\ replies[s] = <<>> /\ kind[s] = "none" /\ answers[s] = <<>>
        /\ sent[s] = {} /\ found[s] = "unread" /\ thrown[s] = "nothing"
        /\ \A p \in Parts : got[s][p] = MaxGroups + 1
    BY DEF Init, Provider!Init, Provider!NoResult, Provider!Parts, Parts
  <2>2. answers[s] # <<TRUE>> /\ answers[s] # <<FALSE>>
    BY <2>1, Verdicts
  <2>3. Called(s)
    BY <1>2, <2>1, <2>2 DEF Called, Kinds
  <2>4. Received # Served /\ Received # Refused /\ Received # Unknown
    BY DEF Received, Served, Refused, Unknown, Calling
  <2> QED
    BY <1>2, <2>1, <2>3, <2>4 DEF Replied, RepliesFor, Kinds
<1> QED
  BY <1>3, <1>4 DEF Init, IInv

(* A front end at which a step leaves everything as it is. *)
LEMMA Undisturbed ==
  ASSUME NEW s \in FrontEnd, Called(s), Replied(s), query' = query,
         UNCHANGED <<call[s], sent[s], found[s], thrown[s], replies[s], kind[s], got[s], answers[s]>>
  PROVE  Called(s)' /\ Replied(s)'
<1>1. (Provider!Finished(s)' <=> Provider!Finished(s)) /\ (Provider!Enough(s)' <=> Provider!Enough(s))
  BY DEF Provider!Finished, Provider!Enough
<1>2. Called(s)'
  BY <1>1 DEF Called
<1>3. Replied(s)'
  BY DEF Replied
<1> QED
  BY <1>2, <1>3

(* A step of one front end that keeps the types keeps the invariant if it   *)
(* keeps that front end's.                                                  *)
LEMMA OneFrontEnd ==
  ASSUME IInv, TypeOK', query' = query, NEW s \in FrontEnd, Called(s)' /\ Replied(s)',
         \A x \in FrontEnd : x # s =>
           UNCHANGED <<call[x], sent[x], found[x], thrown[x], replies[x], kind[x], got[x], answers[x]>>
  PROVE  IInv'
<1>1. query \in Queries /\ \A x \in FrontEnd : Called(x) /\ Replied(x)
  BY DEF IInv
<1>2. \A x \in FrontEnd : Called(x)' /\ Replied(x)'
  BY <1>1, Undisturbed
<1> QED
  BY <1>1, <1>2 DEF IInv

(* m becomes the only reply of s. *)
OnlyReply(s, m) ==
  /\ replies' = [replies EXCEPT ![s] = <<m>>]
  /\ replies' \in [FrontEnd -> Seq([status : Statuses, body : Bodies])]
  /\ \A x \in FrontEnd : Len(replies'[x]) <= 1
  /\ replies'[s] = <<m>>
  /\ \A x \in FrontEnd : x # s => replies'[x] = replies[x]

(* A reply is one message more; the first one is the only one.              *)
LEMMA ReplyOnce ==
  ASSUME TypeOK, NEW s \in FrontEnd, replies[s] = <<>>,
         NEW status \in Statuses, NEW body \in Bodies, Reply(s, status, body)
  PROVE  OnlyReply(s, Message(status, body))
<1> DEFINE m == Message(status, body)
<1>1. m \in MessageType /\ replies' = [replies EXCEPT ![s] = Append(replies[s], m)]
  BY DEF Reply, Message, MessageType
<1> HIDE DEF m
<1>2. Append(replies[s], m) = <<m>> /\ <<m>> \in Seq(MessageType) /\ Len(<<m>>) <= 1
  BY <1>1, AppendFirst
<1>3. replies' = [replies EXCEPT ![s] = <<m>>]
  BY <1>1, <1>2
<1>4. replies \in [FrontEnd -> Seq(MessageType)] /\ \A x \in FrontEnd : Len(replies[x]) <= 1
  BY DEF TypeOK, MessageType
<1>5. replies' \in [FrontEnd -> Seq(MessageType)] /\ \A x \in FrontEnd : Len(replies'[x]) <= 1
  BY <1>2, <1>3, <1>4
<1> QED
  BY <1>3, <1>4, <1>5 DEF m, MessageType, OnlyReply

(* The handler runs: what it decides is called or replied to. *)
LEMMA HandleStep ==
  ASSUME IInv, NEW s \in FrontEnd, Handle(s)
  PROVE  IInv'
<1> DEFINE h == Handler(s, query)
<1>1. /\ call[s] = Received /\ call' = [call EXCEPT ![s] = h]
      /\ UNCHANGED <<query, sent, found, thrown>>
      /\ IF h.op \in Kinds THEN Provider!Call(s, h.op) ELSE UNCHANGED addVars
      /\ IF AtOnce(h) = {} THEN UNCHANGED replies
         ELSE \E status \in AtOnce(h) : Reply(s, status, "empty")
  BY DEF Handle
<1>2. TypeOK /\ Called(s) /\ Replied(s)
  BY DEF IInv
<1>3. Decides(h, query.uri)
  BY HandlerDecides
<1>4. h \in Ops /\ h # Received
  BY <1>3 DEF Decides
<1>5. Received.op \notin Kinds \cup {"logs", "users"}
  BY DEF Received, Calling, Kinds
<1>6. /\ kind[s] = "none" /\ replies[s] = <<>> /\ sent[s] = {}
      /\ found[s] = "unread" /\ thrown[s] = "nothing"
  BY <1>1, <1>2, <1>5, PartsOfKinds DEF Called, Replied, RepliesFor
<1>7. answers[s] = <<>>
  BY <1>2, <1>6 DEF Called, Provider!Finished
<1> HIDE DEF h
<1>8. /\ UNCHANGED <<got, answers>>
      /\ kind' = [kind EXCEPT ![s] = IF h.op \in Kinds THEN h.op ELSE "none"]
  <2>1. CASE h.op \in Kinds
    BY <1>1, <2>1 DEF Provider!Call
  <2>2. CASE h.op \notin Kinds
    <3>1. UNCHANGED <<kind, got, answers>>
      BY <1>1, <2>2 DEF addVars
    <3> QED
      BY <1>2, <1>6, <2>2, <3>1 DEF TypeOK
  <2> QED
    BY <2>1, <2>2
<1>9. /\ RepliesFor(s, h, <<>>, "unread", "nothing", replies'[s])
      /\ replies' \in [FrontEnd -> Seq([status : Statuses, body : Bodies])]
      /\ \A x \in FrontEnd : Len(replies'[x]) <= 1
      /\ \A x \in FrontEnd : x # s => replies'[x] = replies[x]
  <2>1. CASE h.op \in Kinds \cup {"logs", "users"}
    <3>1. replies' = replies
      BY <1>1, <1>4, <2>1, AnsweredAtOnce
    <3>2. h # Served /\ h # Refused /\ h # Unknown
      BY <2>1 DEF Served, Refused, Unknown, Calling, Kinds
    <3> QED
      BY <1>2, <1>4, <1>6, <3>1, <3>2, Verdicts DEF RepliesFor, TypeOK
  <2>2. ASSUME NEW n \in {200, 400, 404}, AtOnce(h) = {n}, h.op \notin Kinds \cup {"logs", "users"},
               h = Served => n = 200, h = Refused => n = 400, h = Unknown => n = 404
        PROVE  /\ RepliesFor(s, h, <<>>, "unread", "nothing", replies'[s])
               /\ OnlyReply(s, Message(n, "empty"))
    <3>1. Reply(s, n, "empty") /\ n \in Statuses /\ "empty" \in Bodies
      BY <1>1, <2>2 DEF Statuses, Bodies
    <3>2. OnlyReply(s, Message(n, "empty"))
      BY <1>2, <1>6, <3>1, ReplyOnce
    <3>3. RepliesFor(s, h, <<>>, "unread", "nothing", replies'[s])
      BY <1>4, <2>2, <3>2 DEF RepliesFor, OnlyReply
    <3> QED
      BY <3>2, <3>3
  <2>3. CASE h = Served \/ h = Refused \/ h = Unknown
    <3>1. h.op \notin Kinds \cup {"logs", "users"}
      BY <2>3 DEF Served, Refused, Unknown, Calling, Kinds
    <3>2. Served # Refused /\ Served # Unknown /\ Refused # Unknown
      BY DEF Served, Refused, Unknown, Calling
    <3>3. PICK n \in {200, 400, 404} :
            /\ AtOnce(h) = {n} /\ (h = Served => n = 200)
            /\ (h = Refused => n = 400) /\ (h = Unknown => n = 404)
      BY <1>4, <2>3, <3>2, AnsweredAtOnce
    <3>4. /\ RepliesFor(s, h, <<>>, "unread", "nothing", replies'[s])
          /\ OnlyReply(s, Message(n, "empty"))
      BY <2>2, <3>1, <3>3
    <3> QED
      BY <3>4 DEF OnlyReply
  <2> QED
    BY <1>4, <2>1, <2>3, Answers
<1>10. TypeOK'
  <2>1. call' \in [FrontEnd -> Ops] /\ kind' \in [FrontEnd -> Kinds \cup {"none"}]
    BY <1>1, <1>2, <1>4, <1>8 DEF TypeOK
  <2> QED
    BY <1>1, <1>2, <1>8, <1>9, <2>1 DEF TypeOK
<1>11. call'[s] = h /\ kind'[s] = IF h.op \in Kinds THEN h.op ELSE "none"
  BY <1>1, <1>2, <1>8 DEF TypeOK
<1>12. Called(s)'
  <2>1. answers'[s] = <<>> /\ answers'[s] # <<TRUE>> /\ answers'[s] # <<FALSE>>
    BY <1>7, <1>8, Verdicts
  <2>2. Handler(s, query)' = Handler(s, query)
    BY <1>1
  <2>3. /\ sent'[s] = {} /\ thrown'[s] = "nothing"
        /\ \A p \in Parts \ sent'[s] : got'[s][p] = MaxGroups + 1
    BY <1>1, <1>2, <1>6, <1>8 DEF Called
  <2> QED
    BY <1>11, <2>1, <2>2, <2>3 DEF Called, h
<1>13. Replied(s)'
  BY <1>1, <1>6, <1>7, <1>8, <1>9, <1>11 DEF Replied
<1>14. \A x \in FrontEnd : x # s =>
         UNCHANGED <<call[x], sent[x], found[x], thrown[x], replies[x], kind[x], got[x], answers[x]>>
  BY <1>1, <1>2, <1>8, <1>9 DEF TypeOK
<1> QED
  BY <1>1, <1>10, <1>12, <1>13, <1>14, OneFrontEnd

(* A request is given to elliptics. *)
LEMMA SendStep ==
  ASSUME IInv, NEW s \in FrontEnd, NEW p \in Parts, Send(s, p)
  PROVE  IInv'
<1>1. /\ p \in PartsOf(kind[s]) /\ thrown[s] = "nothing"
      /\ sent' = [sent EXCEPT ![s] = @ \cup {p}]
      /\ UNCHANGED <<query, call, found, thrown, replies, kind, got, answers>>
  BY DEF Send, addVars
<1>2. TypeOK /\ Called(s) /\ Replied(s)
  BY DEF IInv
<1>3. TypeOK'
  <2>1. sent' \in [FrontEnd -> SUBSET Parts]
    BY <1>1, <1>2 DEF TypeOK
  <2> QED
    BY <1>1, <1>2, <2>1 DEF TypeOK
<1>4. Called(s)'
  <2>1. (Provider!Finished(s)' <=> Provider!Finished(s)) /\ (Provider!Enough(s)' <=> Provider!Enough(s))
    BY <1>1 DEF Provider!Finished, Provider!Enough
  <2>2. sent'[s] = sent[s] \cup {p}
    BY <1>1, <1>2 DEF TypeOK
  <2> QED
    BY <1>1, <1>2, <2>1, <2>2 DEF Called
<1>5. Replied(s)'
  BY <1>1, <1>2 DEF Replied
<1>6. \A x \in FrontEnd : x # s =>
        UNCHANGED <<call[x], sent[x], found[x], thrown[x], replies[x], kind[x], got[x], answers[x]>>
  BY <1>1, <1>2 DEF TypeOK
<1> QED
  BY <1>1, <1>3, <1>4, <1>5, <1>6, OneFrontEnd

(* A call with a request that was not sent has no answer. *)
LEMMA NoAnswerYet ==
  ASSUME NEW s \in FrontEnd, Called(s), NEW p \in PartsOf(kind[s]), p \in Parts,
         p \notin sent[s] \/ got[s][p] = MaxGroups + 1
  PROVE  ~Provider!Finished(s) /\ answers[s] = <<>>
<1>1. got[s][p] = MaxGroups + 1
  BY DEF Called
<1>2. ~Provider!Finished(s)
  BY <1>1, SameParts DEF Provider!Finished, Provider!NoResult
<1> QED
  BY <1>2 DEF Called

(* A write ends: the call has not been answered yet. *)
LEMMA FinishStep ==
  ASSUME IInv, NEW s \in FrontEnd, NEW p \in Parts, NEW n \in 0..MaxGroups, Finish(s, p, n)
  PROVE  IInv'
<1>1. /\ p \in sent[s] /\ p \in PartsOf(kind[s]) /\ got[s][p] = MaxGroups + 1
      /\ got' = [got EXCEPT ![s][p] = n]
      /\ UNCHANGED <<query, call, sent, found, thrown, replies, kind, answers>>
  BY SameParts DEF Finish, Provider!Finish, Provider!NoResult, callVars
<1>2. TypeOK /\ Called(s) /\ Replied(s)
  BY DEF IInv
<1>3. TypeOK'
  <2>1. n \in 0..(MaxGroups + 1)
    BY BoundsAssumption
  <2> QED
    BY <1>1, <1>2, <2>1 DEF TypeOK
<1>4. answers[s] = <<>>
  BY <1>1, <1>2, NoAnswerYet
<1>5. Called(s)'
  <2>1. answers'[s] = <<>> /\ answers'[s] # <<TRUE>> /\ answers'[s] # <<FALSE>>
    BY <1>1, <1>4, Verdicts
  <2>2. \A q \in Parts \ sent'[s] : got'[s][q] = MaxGroups + 1
    BY <1>1, <1>2 DEF Called, TypeOK
  <2> QED
    BY <1>1, <1>2, <2>1, <2>2 DEF Called
<1>6. Replied(s)'
  BY <1>1, <1>2 DEF Replied
<1>7. \A x \in FrontEnd : x # s =>
        UNCHANGED <<call[x], sent[x], found[x], thrown[x], replies[x], kind[x], got[x], answers[x]>>
  BY <1>1, <1>2 DEF TypeOK
<1> QED
  BY <1>1, <1>3, <1>5, <1>6, <1>7, OneFrontEnd

(* on_finish is called, or the blocking operation returns or throws. *)
LEMMA AddDoneStep ==
  ASSUME IInv, NEW s \in FrontEnd, AddDone(s)
  PROVE  IInv'
<1> DEFINE n == IF answers'[s] = <<TRUE>> THEN 200 ELSE 500
<1>1. /\ Provider!Finished(s) /\ answers[s] = <<>>
      /\ answers' = [answers EXCEPT ![s] = <<Provider!Enough(s)>>]
      /\ UNCHANGED <<query, call, sent, found, thrown, kind, got>>
      /\ Reply(s, n, "empty")
  BY DEF AddDone, Provider!Answer, Finished, callVars
<1>2. TypeOK /\ Called(s) /\ Replied(s)
  BY DEF IInv
<1>3. call[s].op \in Kinds /\ kind[s] \in Kinds
  <2>1. kind[s] # "none"
    BY <1>1 DEF Provider!Finished
  <2> QED
    BY <1>2, <2>1 DEF Called
<1>4. thrown[s] = "nothing" /\ replies[s] = <<>>
  <2>1. thrown[s] = "nothing"
    <3> SUFFICES ASSUME thrown[s] # "nothing" PROVE FALSE
      OBVIOUS
    <3>1. PICK p \in PartsOf(kind[s]) : p \notin sent[s]
      BY <1>2, <1>3 DEF Called
    <3>2. p \in Parts
      BY <1>3, <3>1, PartsOfKinds
    <3> QED
      BY <1>1, <1>2, <3>1, <3>2, NoAnswerYet
  <2> QED
    BY <1>1, <1>2, <1>3, <2>1 DEF Replied, RepliesFor
<1>5. \E b \in BOOLEAN : answers' = [answers EXCEPT ![s] = <<b>>] /\ (b <=> Provider!Enough(s))
  <2>1. CASE Provider!Enough(s)
    <3>1. Provider!Enough(s) = TRUE
      BY <2>1
    <3> QED
      BY <1>1, <2>1, <3>1, Zenon
  <2>2. CASE ~Provider!Enough(s)
    <3>1. Provider!Enough(s) = FALSE
      BY <2>2 DEF Provider!Enough
    <3> QED
      BY <1>1, <2>2, <3>1, Zenon
  <2> QED
    BY <2>1, <2>2
<1>6. PICK b \in BOOLEAN : answers' = [answers EXCEPT ![s] = <<b>>] /\ (b <=> Provider!Enough(s))
  BY <1>5
<1>7. answers'[s] = <<b>> /\ <<b>> \in {<<>>, <<TRUE>>, <<FALSE>>}
  BY <1>2, <1>6, Verdicts DEF TypeOK
<1>8. n \in {200, 500} /\ (<<b>> = <<TRUE>> => b /\ n = 200) /\ (<<b>> = <<FALSE>> => ~b /\ n = 500) /\ <<b>> # <<>>
  <2>1. (<<b>> = <<TRUE>> <=> b) /\ (<<b>> = <<FALSE>> <=> ~b) /\ <<b>> # <<>>
    BY Verdicts
  <2>2. CASE answers'[s] = <<TRUE>>
    <3>1. n = 200 /\ <<b>> = <<TRUE>>
      BY <1>7, <2>2
    <3> QED
      BY <2>1, <3>1
  <2>3. CASE answers'[s] # <<TRUE>>
    <3>1. n = 500 /\ <<b>> # <<TRUE>>
      BY <1>7, <2>3
    <3> QED
      BY <2>1, <3>1
  <2> QED
    BY <2>2, <2>3
<1> HIDE DEF n
<1>9. OnlyReply(s, Message(n, "empty"))
  <2>1. n \in Statuses /\ "empty" \in Bodies
    BY <1>8 DEF Statuses, Bodies
  <2> QED
    BY <1>1, <1>2, <1>4, <2>1, ReplyOnce
<1>10. TypeOK'
  <2>1. answers' \in [FrontEnd -> {<<>>, <<TRUE>>, <<FALSE>>}]
    BY <1>2, <1>6, <1>7 DEF TypeOK
  <2> QED
    BY <1>1, <1>2, <1>9, <2>1 DEF TypeOK, OnlyReply
<1>11. Called(s)'
  <2>1. (Provider!Finished(s)' <=> Provider!Finished(s)) /\ (Provider!Enough(s)' <=> Provider!Enough(s))
    BY <1>1 DEF Provider!Finished, Provider!Enough
  <2>2. /\ answers'[s] = <<TRUE>> => Provider!Enough(s)'
        /\ answers'[s] = <<FALSE>> => ~Provider!Enough(s)'
    BY <1>6, <1>7, <1>8, <2>1
  <2> QED
    BY <1>1, <1>2, <2>1, <2>2 DEF Called
<1>12. Replied(s)'
  <2>1. /\ call[s] # Received /\ call[s] # Served /\ call[s] # Refused /\ call[s] # Unknown
        /\ call[s].op \notin {"logs", "users"}
    BY <1>3 DEF Received, Served, Refused, Unknown, Calling, Kinds
  <2>2. found[s] = "unread"
    BY <1>2, <2>1 DEF Replied, RepliesFor
  <2>3. RepliesFor(s, call[s], <<b>>, found[s], "nothing", <<Message(n, "empty")>>)
    BY <1>8, <2>1, <2>2 DEF RepliesFor
  <2> QED
    BY <1>1, <1>4, <1>7, <1>9, <2>3 DEF Replied, OnlyReply
<1>13. \A x \in FrontEnd : x # s =>
         UNCHANGED <<call[x], sent[x], found[x], thrown[x], replies[x], kind[x], got[x], answers[x]>>
  BY <1>1, <1>2, <1>6, <1>9 DEF TypeOK, OnlyReply
<1> QED
  BY <1>1, <1>10, <1>11, <1>12, <1>13, OneFrontEnd

(* A read is replied to with 200 and what it found. *)
LEMMA ReadDoneStep ==
  ASSUME IInv, NEW s \in FrontEnd, NEW d \in {"none", "some"}, ReadDone(s, d)
  PROVE  IInv'
<1> DEFINE body == Body(s, call[s].op, d)
<1>1. /\ call[s].op \in {"logs", "users"} /\ replies[s] = <<>>
      /\ UNCHANGED <<query, call, sent, thrown, kind, got, answers>>
      /\ found' = [found EXCEPT ![s] = d]
      /\ Reply(s, 200, body)
  BY DEF ReadDone, Reading, addVars
<1>2. TypeOK /\ Called(s) /\ Replied(s)
  BY DEF IInv
<1>3. thrown[s] = "nothing"
  BY <1>1, <1>2, FirstOf DEF Replied, RepliesFor
<1>4. OnlyReply(s, Message(200, body))
  <2>1. 200 \in Statuses /\ body \in Bodies
    BY DEF Statuses, Bodies, Body
  <2> QED
    BY <1>1, <1>2, <2>1, ReplyOnce
<1>5. TypeOK'
  <2>1. found' \in [FrontEnd -> {"unread", "none", "some"}]
    BY <1>1, <1>2 DEF TypeOK
  <2> QED
    BY <1>1, <1>2, <1>4, <2>1 DEF TypeOK, OnlyReply
<1>6. Called(s)'
  <2>1. (Provider!Finished(s)' <=> Provider!Finished(s)) /\ (Provider!Enough(s)' <=> Provider!Enough(s))
    BY <1>1 DEF Provider!Finished, Provider!Enough
  <2> QED
    BY <1>1, <1>2, <2>1 DEF Called
<1>7. Replied(s)'
  <2>1. /\ call[s] # Received /\ call[s] # Served /\ call[s] # Refused /\ call[s] # Unknown
        /\ call[s].op \notin Kinds
    BY <1>1 DEF Received, Served, Refused, Unknown, Calling, Kinds
  <2>2. RepliesFor(s, call[s], answers[s], d, "nothing", <<Message(200, body)>>)
    BY <1>1, <2>1 DEF RepliesFor
  <2>3. found'[s] = d
    BY <1>1, <1>2 DEF TypeOK
  <2> QED
    BY <1>1, <1>3, <1>4, <2>2, <2>3 DEF Replied, OnlyReply
<1>8. \A x \in FrontEnd : x # s =>
        UNCHANGED <<call[x], sent[x], found[x], thrown[x], replies[x], kind[x], got[x], answers[x]>>
  BY <1>1, <1>2, <1>4 DEF TypeOK, OnlyReply
<1> QED
  BY <1>1, <1>5, <1>6, <1>7, <1>8, OneFrontEnd

(* What an operation throws is caught and replied to, before all its        *)
(* requests are sent.                                                       *)
LEMMA ThrowStep ==
  ASSUME IInv, NEW s \in FrontEnd, NEW e \in {"elliptics::error", "another"}, Throw(s, e)
  PROVE  IInv'
<1>1. /\ Reading(s) \/ PartsOf(kind[s]) \ sent[s] # {}
      /\ thrown[s] = "nothing" /\ thrown' = [thrown EXCEPT ![s] = e]
      /\ UNCHANGED <<query, call, sent, found, kind, got, answers>>
      /\ Reply(s, Caught(e), "empty")
  BY DEF Throw, addVars
<1>2. TypeOK /\ Called(s) /\ Replied(s)
  BY DEF IInv
<1>3. /\ call[s].op \in Kinds \cup {"logs", "users"} /\ answers[s] = <<>> /\ replies[s] = <<>>
      /\ call[s].op \in Kinds => PartsOf(kind[s]) \ sent[s] # {}
  <2>1. CASE Reading(s)
    <3>1. call[s].op \in {"logs", "users"} /\ replies[s] = <<>> /\ kind[s] = "none"
      BY <1>2, <2>1 DEF Reading, Called, Kinds
    <3>2. answers[s] = <<>>
      BY <1>2, <3>1 DEF Called, Provider!Finished
    <3> QED
      BY <3>1, <3>2 DEF Kinds
  <2>2. CASE PartsOf(kind[s]) \ sent[s] # {}
    <3>1. PICK p \in PartsOf(kind[s]) : p \notin sent[s]
      BY <2>2
    <3>2. call[s].op \in Kinds /\ p \in Parts
      BY <1>2, <3>1, PartsOfKinds DEF Called
    <3>3. answers[s] = <<>>
      BY <1>2, <3>1, <3>2, NoAnswerYet
    <3> QED
      BY <1>1, <1>2, <2>2, <3>2, <3>3 DEF Replied, RepliesFor
  <2> QED
    BY <1>1, <2>1, <2>2
<1>4. OnlyReply(s, Message(Caught(e), "empty"))
  <2>1. Caught(e) \in Statuses /\ "empty" \in Bodies
    BY DEF Statuses, Bodies, Caught
  <2> QED
    BY <1>1, <1>2, <1>3, <2>1, ReplyOnce
<1>5. TypeOK'
  <2>1. thrown' \in [FrontEnd -> {"nothing", "elliptics::error", "another"}]
    BY <1>1, <1>2 DEF TypeOK
  <2> QED
    BY <1>1, <1>2, <1>4, <2>1 DEF TypeOK, OnlyReply
<1>6. Called(s)'
  <2>1. (Provider!Finished(s)' <=> Provider!Finished(s)) /\ (Provider!Enough(s)' <=> Provider!Enough(s))
    BY <1>1 DEF Provider!Finished, Provider!Enough
  <2> QED
    BY <1>1, <1>2, <1>3, <2>1 DEF Called
<1>7. Replied(s)'
  <2>1. call[s] # Received /\ call[s] # Served /\ call[s] # Refused /\ call[s] # Unknown
    BY <1>3 DEF Received, Served, Refused, Unknown, Calling, Kinds
  <2>2. call[s].op \notin {"logs", "users"} => found[s] = "unread"
    BY <1>2 DEF Replied, RepliesFor
  <2>3. RepliesFor(s, call[s], <<>>, found[s], e, <<Message(Caught(e), "empty")>>)
    BY <1>3, <2>1, <2>2 DEF RepliesFor
  <2>4. thrown'[s] = e
    BY <1>1, <1>2 DEF TypeOK
  <2> QED
    BY <1>1, <1>3, <1>4, <2>3, <2>4 DEF Replied, OnlyReply
<1>8. \A x \in FrontEnd : x # s =>
        UNCHANGED <<call[x], sent[x], found[x], thrown[x], replies[x], kind[x], got[x], answers[x]>>
  BY <1>1, <1>2, <1>4 DEF TypeOK, OnlyReply
<1> QED
  BY <1>1, <1>5, <1>6, <1>7, <1>8, OneFrontEnd

(* Every step keeps the invariant. *)
LEMMA InvStep == IInv /\ [Next]_vars => IInv'
<1> SUFFICES ASSUME IInv, [Next]_vars PROVE IInv'
  OBVIOUS
<1>1. CASE UNCHANGED vars
  <2>1. UNCHANGED <<query, call, sent, found, thrown, replies, kind, got, answers>>
    BY <1>1 DEF vars, callVars, addVars
  <2>2. TypeOK'
    BY <2>1 DEF IInv, TypeOK
  <2>3. \A s \in FrontEnd : Called(s)' /\ Replied(s)'
    BY <2>1, Undisturbed DEF IInv
  <2> QED
    BY <2>1, <2>2, <2>3 DEF IInv
<1> QED
  BY <1>1, HandleStep, SendStep, FinishStep, AddDoneStep, ReadDoneStep, ThrowStep DEF Next, Quiescent

(* The inductive invariant holds for every request. *)
THEOREM Invariance == Spec => []IInv
BY InitInv, InvStep, PTL DEF Spec
-----------------------------------------------------------------------------
(* Types, and no request is replied to twice. *)
THEOREM TypeCorrect == Spec => []TypeOK
BY Invariance, PTL DEF IInv

(* A status of 200 means that everything the URI names is in at least       *)
(* min_writes groups, 500 that something is not or was not even sent, 400   *)
(* that something was not sent, and 404 that nothing was.                   *)
THEOREM StatusTells == Spec => []StatusTellsWrites
<1>1. IInv => StatusTellsWrites
  <2> SUFFICES ASSUME IInv, NEW s \in FrontEnd, replies[s] # <<>>
               PROVE  /\ Status(s) = 200 => \A p \in Promised(query.uri) :
                                              got[s][p] \in MinWrites[s]..MaxGroups
                      /\ Status(s) = 500 /\ Promised(query.uri) # {} =>
                           \E p \in Promised(query.uri) : p \notin sent[s] \/ got[s][p] < MinWrites[s]
                      /\ Status(s) = 400 /\ Promised(query.uri) # {} =>
                           Promised(query.uri) \ sent[s] # {}
                      /\ Status(s) = 404 => sent[s] = {}
    BY DEF StatusTellsWrites
  <2> DEFINE h == call[s]
  <2>1. TypeOK /\ Called(s) /\ RepliesFor(s, h, answers[s], found[s], thrown[s], replies[s])
    BY DEF IInv, Replied
  <2>2. h # Received /\ h \in Ops /\ h = Handler(s, query)
    BY <2>1 DEF TypeOK, Called, RepliesFor
  <2>3. Decides(h, query.uri)
    BY <2>2, HandlerDecides
  <2>4. h.op \in Kinds => kind[s] = h.op /\ Promised(query.uri) = PartsOf(kind[s]) /\ kind[s] \in Kinds
    BY <2>1, <2>3 DEF Called, Decides
  <2>5. \A n : replies[s] = <<Message(n, "empty")>> => Status(s) = n
    BY FirstOf DEF Status, Message
  <2> HIDE DEF h
  <2>6. CASE thrown[s] # "nothing"
    <3>1. Status(s) \in {400, 500} /\ h.op \in Kinds \cup {"logs", "users"}
      BY <2>1, <2>5, <2>6 DEF RepliesFor, Caught
    <3>2. CASE h.op \in Kinds
      <4>1. PartsOf(kind[s]) \ sent[s] # {}
        BY <2>1, <2>6, <3>2 DEF Called, h
      <4> QED
        BY <2>4, <3>1, <3>2, <4>1
    <3>3. CASE h.op \in {"logs", "users"}
      <4>1. Promised(query.uri) = {}
        BY <2>3, <3>3 DEF Decides
      <4> QED
        BY <3>1, <4>1
    <3> QED
      BY <3>1, <3>2, <3>3
  <2>7. CASE thrown[s] = "nothing" /\ h.op \in Kinds
    <3>1. kind[s] = h.op /\ Promised(query.uri) = PartsOf(kind[s]) /\ kind[s] \in Kinds
      BY <2>4, <2>7
    <3>2. \A p \in PartsOf(kind[s]) : got[s][p] \in 0..(MaxGroups + 1)
      BY <2>1 DEF TypeOK, PartsOf, Parts
    <3>3. answers[s] \in {<<TRUE>>, <<FALSE>>}
      <4>1. answers[s] # <<>>
        BY <2>1, <2>7 DEF RepliesFor
      <4>2. answers[s] \in {<<>>, <<TRUE>>, <<FALSE>>}
        BY <2>1 DEF TypeOK
      <4> QED
        BY <4>1, <4>2
    <3>4. CASE answers[s] = <<TRUE>>
      <4>1. Status(s) = 200
        BY <2>1, <2>5, <2>7, <3>4 DEF RepliesFor
      <4>2. Provider!Finished(s) /\ Provider!Enough(s)
        BY <2>1, <3>4, Verdicts DEF Called
      <4>3. \A p \in PartsOf(kind[s]) : got[s][p] # MaxGroups + 1 /\ got[s][p] >= MinWrites[s]
        BY <4>2, SameParts DEF Provider!Finished, Provider!Enough, Provider!NoResult
      <4>4. \A p \in PartsOf(kind[s]) : got[s][p] \in MinWrites[s]..MaxGroups
        BY <3>2, <4>3, BoundsAssumption
      <4> QED
        BY <3>1, <4>1, <4>4
    <3>5. CASE answers[s] = <<FALSE>>
      <4>1. Status(s) = 500
        BY <2>1, <2>5, <2>7, <3>5 DEF RepliesFor
      <4>2. ~Provider!Enough(s)
        BY <2>1, <3>5 DEF Called
      <4>3. PICK p \in PartsOf(kind[s]) : ~(got[s][p] >= MinWrites[s])
        BY <4>2, SameParts DEF Provider!Enough
      <4>4. got[s][p] < MinWrites[s]
        BY <3>2, <4>3, BoundsAssumption
      <4> QED
        BY <3>1, <4>1, <4>4
    <3> QED
      BY <3>3, <3>4, <3>5
  <2>8. CASE (thrown[s] = "nothing" /\ h.op \in {"logs", "users"}) \/ h = Served
    <3>1. Status(s) = 200 /\ Promised(query.uri) = {}
      BY <2>1, <2>3, <2>8, FirstOf DEF RepliesFor, Decides, Status, Message
    <3> QED
      BY <3>1
  <2>9. CASE h = Refused \/ h = Unknown
    <3>1. Status(s) \in {400, 404}
      BY <2>1, <2>5, <2>9 DEF RepliesFor
    <3>2. h.op \notin Kinds
      BY <2>9 DEF Refused, Unknown, Calling, Kinds
    <3>3. sent[s] = {}
      BY <2>1, <3>2, PartsOfKinds DEF Called, h
    <3> QED
      BY <3>1, <3>3
  <2> QED
    BY <2>2, <2>6, <2>7, <2>8, <2>9, Answers
<1> QED
  BY <1>1, Invariance, PTL

(* A request that the front ends are not known to treat differently makes   *)
(* both call the same operation with the same keys, never the undefined one *)
(* of src/thevoid; if it ends or throws in the same way they reply with the *)
(* same status and, unless there are no logs, the same body.                *)
THEOREM Agree == Spec => []FrontEndsAgree
<1>1. IInv => FrontEndsAgree
  <2> DEFINE v == "thevoid"
             f == "fastcgi"
             h == Handler(v, query)
  <2> SUFFICES ASSUME IInv, ~Differs(query)
               PROVE  /\ ~Undefined(v)
                      /\ call[v] # Received /\ call[f] # Received => call[v] = call[f]
                      /\ replies[v] # <<>> /\ replies[f] # <<>> /\ SameOutcome =>
                           /\ Status(v) = Status(f)
                           /\ replies[v] = replies[f] \/ (call[v].op = "logs" /\ found[v] = "none")
    BY DEF FrontEndsAgree
  <2>1. v \in FrontEnd /\ f \in FrontEnd
    BY DEF FrontEnd
  <2>2. Handler(f, query) = h /\ h = thevoid(query)
    BY SameDecision DEF Handler
  <2>3. \A s \in FrontEnd : /\ call[s] \in {Received, h}
                            /\ RepliesFor(s, call[s], answers[s], found[s], thrown[s], replies[s])
    BY <2>1, <2>2 DEF IInv, Called, Replied, FrontEnd
  <2>4. h \in Ops /\ h # Received
    BY <2>1, HandlerDecides DEF Decides
  <2> HIDE DEF h
  <2>5. ~Undefined(v)
    <3> SUFFICES ASSUME call[v] = Calling("logs", "period"), Reversed(query) PROVE FALSE
      BY DEF Undefined
    <3>1. thevoid(query) = Calling("logs", "period")
      <4>1. Received # Calling("logs", "period")
        BY DEF Received, Calling
      <4> QED
        BY <2>1, <2>2, <2>3, <4>1
    <3> QED
      BY <3>1, PeriodOfLogs DEF Differs
  <2>6. ASSUME replies[v] # <<>>, replies[f] # <<>>, SameOutcome
        PROVE  /\ Status(v) = Status(f)
               /\ replies[v] = replies[f] \/ (call[v].op = "logs" /\ found[v] = "none")
    <3>1. call[v] = h /\ call[f] = h
      BY <2>1, <2>3, <2>6 DEF RepliesFor
    <3>2. /\ RepliesFor(v, h, answers[v], found[v], thrown[v], replies[v])
          /\ RepliesFor(f, h, answers[v], found[v], thrown[v], replies[f])
      BY <2>1, <2>3, <2>6, <3>1 DEF SameOutcome
    <3>3. answers[v] \in {<<>>, <<TRUE>>, <<FALSE>>} /\ found[v] \in {"unread", "none", "some"}
      BY <2>1 DEF IInv, TypeOK
    <3>4. Alike(h, found[v], replies[v], replies[f])
      BY <2>4, <2>6, <3>2, <3>3, OneReply
    <3> QED
      BY <3>1, <3>4 DEF Alike, Status
  <2> QED
    BY <2>1, <2>3, <2>5, <2>6
<1> QED
  BY <1>1, Invariance, PTL
=============================================================================
