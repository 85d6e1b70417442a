------------------------------ MODULE JsonBody -------------------------------
(***************************************************************************)
(* The body of a reply to get_user_logs or get_active_users: a front end   *)
(* builds a rapidjson document from the records, writes it as text and     *)
(* sends it; what arrives - all of it, or the beginning when the           *)
(* connection breaks - is parsed into a document of the client, which is   *)
(* used again for another attempt if the body is refused.  No code of the  *)
(* repository parses a reply: the client is a hypothetical one that uses   *)
(* the reader that comes with the front ends.                              *)
(*                                                                         *)
(* Documents live in pools (JsonPool): a value is its type with the        *)
(* address, size and capacity of what it holds; nothing but the pool says  *)
(* what that is.  The stack of a document is a block of its pool.  The     *)
(* writer and the reader are parameters; JsonDocument has those of the     *)
(* code.                                                                   *)
(***************************************************************************)
EXTENDS JsonPool, SequencesExt

CONSTANTS
  StackCapacity,         \* first capacity of a document's stack in bytes (1024)
  ValueSize,             \* sizeof(GenericValue)
  DefaultArrayCapacity,  \* kDefaultArrayCapacity (16)
  DefaultObjectCapacity, \* kDefaultObjectCapacity (16)
  Name,                  \* "logs" or "active_users"
  Replies,               \* the records of a reply: sequences of sequences of bytes
  MaxReads,              \* bound: attempts of the client
  Accept(_, _),          \* the writer: the text made of a value in a pool, as .out, and
                         \* whether an assertion failed, as .aborted
  Read(_)                \* the reader: the events it passes on for a text, as .events, and
                         \* whether it comes to the end, as .ok

ASSUME SizesAssumption ==
  /\ StackCapacity \in Nat \ {0}
  /\ ValueSize \in Nat \ {0}
  /\ DefaultArrayCapacity \in Nat \ {0}
  /\ DefaultObjectCapacity \in Nat \ {0}

Byte == 0..255
ASSUME RepliesAssumption == Replies \subseteq Seq(Seq(Byte)) /\ MaxReads \in Nat

(* The events of a reader. *)
Kinds == {"object", "array"}
Event ==
  [type : {"string"}, chars : Seq(Byte)] \cup [type : {"start"}, kind : Kinds]
  \cup [type : {"end"}, kind : Kinds, count : Nat]

Handlers == {"thevoid_logs", "thevoid_users", "fastcgi"}

VARIABLES
  handler,    \* the handler that replies
  records,    \* the records it was called back with
  phase,      \* how far the reply is
  server,     \* the handler's document
  array,      \* user_logs or active_users, the array it fills
  sent,       \* the body put on the connection
  length,     \* Content-Length
  client,     \* the client's document
  received,   \* what has arrived of the body
  events,     \* events of the reader its document has not handled yet
  reads       \* number of attempts so far

vars == <<handler, records, phase, server, array, sent, length, client, received, events, reads>>
serverVars == <<handler, records, server, array, sent, length>>
-----------------------------------------------------------------------------
NullValue == [type |-> "null"]
Literal == <<0, 1>>   \* the address of a name, which is not in a pool
EmptyValue(kind) == [type |-> kind, at |-> Null, size |-> 0, capacity |-> 0]

(* Number of values held by a value of size members or elements. *)
Held(kind, n) == IF kind = "object" THEN 2 * n ELSE n

NewDocument ==
  LET m == Malloc(NewPool, StackCapacity, <<>>)
  IN  [pool |-> m.pool, stack |-> [at |-> m.at, size |-> 0, capacity |-> StackCapacity], root |-> NullValue]

Chars(h, v) == IF v.at = Literal THEN Name ELSE SubSeq(Items(h, v.at), 1, v.length)
Values(h, v) == SubSeq(Items(h, v.at), 1, Held(v.type, v.size))

(* What a reader of the document sees. *)
ReadBack(h, v) == [i \in 1..v.size |-> Chars(h, Values(h, v)[i])]
Holds(d, s) ==
  /\ d.root.type = "object" /\ d.root.size = 1
  /\ LET m == Values(d.pool, d.root)
     IN Chars(d.pool, m[1]) = Name /\ m[2].type = "array" /\ ReadBack(d.pool, m[2]) = s

(* A copied string: its characters and a terminating zero.  Mutant: it is   *)
(* not copied, and its value points to what is not memory of the document.  *)
MutantNewString(h, s) == [pool |-> h, value |-> [type |-> "string", at |-> Literal, length |-> Len(Name)]]
NewString(h, s) ==
  LET m == Malloc(h, Len(s) + 1, Append(s, 0))
  IN  [pool |-> m.pool, value |-> [type |-> "string", at |-> m.at, length |-> Len(s)]]

(* Reserve, when the array is full.  Mutant: it is looked for too late. *)
MutantFull(a) == a.size > a.capacity
Full(a) == a.size >= a.capacity

Reserve(h, a) ==
  LET capacity == IF a.capacity = 0 THEN DefaultArrayCapacity ELSE 2 * a.capacity
      m == Realloc(h, a.at, a.capacity * ValueSize, capacity * ValueSize)
  IN  IF Full(a) THEN [pool |-> m.pool, array |-> [a EXCEPT !.at = m.at, !.capacity = capacity]]
      ELSE [pool |-> h, array |-> a]

PushBack(h, a, v) ==
  LET r == Reserve(h, a)
  IN  [pool |-> Store(r.pool, r.array.at, Append(SubSeq(Items(r.pool, r.array.at), 1, a.size), v)),
       array |-> [r.array EXCEPT !.size = @ + 1]]
-----------------------------------------------------------------------------
(* A buffer taken for a C string. *)
GetString(text) == IF Contains(text, 0) THEN SubSeq(text, 1, SelectInSeq(text, LAMBDA c : c = 0) - 1) ELSE text

(* The stack of a document that is being parsed. *)
StackItems(d) == SubSeq(Items(d.pool, d.stack.at), 1, d.stack.size)

Push(d, v) ==
  LET needed == (d.stack.size + 1) * ValueSize
      capacity == IF needed < d.stack.capacity THEN d.stack.capacity
                  ELSE IF needed > 2 * d.stack.capacity THEN needed ELSE 2 * d.stack.capacity
      m == Realloc(d.pool, d.stack.at, d.stack.capacity, capacity)
  IN  [d EXCEPT !.pool = Store(m.pool, m.at, Append(StackItems(d), v)),
                !.stack = [at |-> m.at, size |-> d.stack.size + 1, capacity |-> capacity]]

(* n values are taken from the stack and the one below becomes v. *)
PopInto(d, n, v) ==
  LET rest == SubSeq(StackItems(d), 1, d.stack.size - n - 1)
  IN  [d EXCEPT !.pool = Store(@, d.stack.at, Append(rest, v)), !.stack.size = @ - n]

HandleString(d, e) ==
  LET p == Push(d, NullValue)
      s == NewString(p.pool, e.chars)
  IN  PopInto([p EXCEPT !.pool = s.pool], 0, s.value)

(* EndObject, EndArray: what was pushed since Start is copied to a block of *)
(* its own size.                                                            *)
HandleEnd(d, e) ==
  LET n == Held(e.kind, e.count)
      m == Malloc(d.pool, n * ValueSize, SubSeq(StackItems(d), d.stack.size - n + 1, d.stack.size))
  IN  PopInto([d EXCEPT !.pool = m.pool], n,
              [type |-> e.kind, at |-> m.at, size |-> e.count, capacity |-> e.count])

Handle(d, e) ==
  CASE e.type = "string" -> HandleString(d, e)
    [] e.type = "start" -> Push(d, EmptyValue(e.kind))
    [] e.type = "end" -> HandleEnd(d, e)

(* RAPIDJSON_ASSERT of Pop and Top. *)
CanHandle(d, e) == e.type = "end" => d.stack.size > Held(e.kind, e.count)

(* ClearStack, after an error.  Mutant: the stack is left as it is. *)
MutantClearStack(d) == d
ClearStack(d) == [d EXCEPT !.stack.size = 0]
-----------------------------------------------------------------------------
Init ==
  /\ handler \in Handlers
  /\ records \in Replies
  /\ phase = "building"
  /\ server = NewDocument
  /\ array = EmptyValue("array")
  /\ sent = <<>> /\ length = 0
  /\ client = NewDocument
  /\ received = <<>> /\ events = <<>> /\ reads = 0

(* One round of the loop over the records. *)
AddRecord ==
  /\ phase = "building"
  /\ array.size < Len(records)
  /\ LET s == NewString(server.pool, records[array.size + 1])
         p == PushBack(s.pool, array, s.value)
     IN  server' = [server EXCEPT !.pool = p.pool] /\ array' = p.array
  /\ UNCHANGED <<handler, records, phase, sent, length, client, received, events, reads>>

(* on_get_user_logs of the HTTP front end makes no document without logs. *)
MakesDocument == handler = "thevoid_logs" => records # <<>>

(* AddMember: the array becomes the only member of the root. *)
AddMember ==
  /\ phase = "building"
  /\ array.size = Len(records)
  /\ MakesDocument
  /\ LET name == [type |-> "string", at |-> Literal, length |-> Len(Name)]
         m == Malloc(server.pool, DefaultObjectCapacity * 2 * ValueSize, <<name, array>>)
     IN  server' = [server EXCEPT !.pool = m.pool,
                      !.root = [type |-> "object", at |-> m.at, size |-> 1, capacity |-> DefaultObjectCapacity]]
  /\ phase' = "built"
  /\ UNCHANGED <<handler, records, array, sent, length, client, received, events, reads>>

(* Accept with a writer, and the reply: the HTTP front end's body is the C  *)
(* string in the buffer and its length; the FastCGI front end streams the C *)
(* string, but takes Content-Length from the buffer.                        *)
Reply ==
  /\ phase = "built"
  /\ LET w == Accept(server.pool, server.root)
     IN  /\ sent' = GetString(w.out)
         /\ length' = IF handler = "fastcgi" THEN Len(w.out) ELSE Len(GetString(w.out))
         /\ phase' = IF w.aborted THEN "aborted" ELSE "sent"
  /\ UNCHANGED <<handler, records, server, array, client, received, events, reads>>

ReplyNothing ==
  /\ phase = "building"
  /\ ~MakesDocument
  /\ phase' = "sent"
  /\ UNCHANGED <<serverVars, client, received, events, reads>>

(* External: the first n bytes of the body arrive, then the connection is   *)
(* closed.  ParseStream begins with a null root.                            *)
Receive(n) ==
  /\ phase \in {"sent", "refused"}
  /\ reads < MaxReads
  /\ received' = SubSeq(sent, 1, n)
  /\ events' = Read(received').events
  /\ client' = [client EXCEPT !.root = NullValue]
  /\ reads' = reads + 1
  /\ phase' = "parsing"
  /\ UNCHANGED serverVars

(* The reader passes one event to the document. *)
HandleEvent ==
  /\ phase = "parsing"
  /\ events # <<>>
  /\ IF CanHandle(client, Head(events))
     THEN client' = Handle(client, Head(events)) /\ UNCHANGED phase
     ELSE phase' = "aborted" /\ UNCHANGED client
  /\ events' = Tail(events)
  /\ UNCHANGED <<serverVars, received, reads>>

(* The reader has come to the end, and the document takes its root from the *)
(* stack, where nothing else may be.                                        *)
ParseEnds ==
  /\ phase = "parsing"
  /\ events = <<>>
  /\ Read(received).ok
  /\ IF client.stack.size = 1
     THEN /\ client' = [ClearStack(client) EXCEPT !.root = StackItems(client)[1]]
          /\ phase' = "accepted"
     ELSE phase' = "aborted" /\ UNCHANGED client
  /\ UNCHANGED <<serverVars, received, events, reads>>

(* The reader has met an error. *)
ParseFails ==
  /\ phase = "parsing"
  /\ events = <<>>
  /\ ~Read(received).ok
  /\ client' = ClearStack(client)
  /\ phase' = "refused"
  /\ UNCHANGED <<serverVars, received, events, reads>>

Quiescent ==
  /\ phase = "accepted" \/ (phase = "refused" /\ reads = MaxReads)
  /\ UNCHANGED vars

Next ==
  \/ AddRecord
  \/ AddMember
  \/ Reply
  \/ ReplyNothing
  \/ \E n \in 0..Len(sent) : Receive(n)
  \/ HandleEvent
  \/ ParseEnds
  \/ ParseFails
  \/ Quiescent

Spec == Init /\ [][Next]_vars
-----------------------------------------------------------------------------
(* What the writer and the reader hand over. *)
StreamsOK == length \in Nat /\ events \in Seq(Event)

TypeOK ==
  /\ StreamsOK
  /\ handler \in Handlers
  /\ records \in Replies
  /\ phase \in {"building", "built", "sent", "parsing", "accepted", "refused", "aborted"}
  /\ array.size \in 0..Len(records)
  /\ array.capacity >= array.size
  /\ reads \in 0..MaxReads
  /\ \A d \in {server, client} : d.stack.size * ValueSize <= d.stack.capacity

(* The memory of the documents is sound: the blocks of a pool lie apart     *)
(* from each other in the used part of their chunks, and the stack and the  *)
(* array are written to within their blocks, however they grew - in place,  *)
(* by a copy to the same chunk or to a new one.                             *)
MemorySound ==
  /\ PoolSound(server.pool) /\ PoolSound(client.pool)
  /\ \A d \in {server, client} : d.pool.blocks[d.stack.at].size = d.stack.capacity
  /\ array.capacity > 0 => server.pool.blocks[array.at].size = array.capacity * ValueSize

(* The document being built holds the records so far, in order: none is     *)
(* lost or overwritten when the array or the pool grows.  What the writer   *)
(* gets is an object of one member with all of them.                        *)
DocumentKept ==
  /\ ReadBack(server.pool, array) = SubSeq(records, 1, array.size)
  /\ phase = "built" => Holds(server, records)

(* What the client accepts is the whole reply: all of the body, as long as  *)
(* the Content-Length that the front ends take from different places, from  *)
(* which it reads exactly the records, with whatever bytes they have.       *)
AcceptedWhole ==
  phase = "accepted" => received = sent /\ Len(received) = length /\ Holds(client, records)

(* The client refuses only a body that was cut, or that was empty because   *)
(* the HTTP front end replies to a request without logs with no document.   *)
RefusedCut ==
  phase = "refused" => /\ client.root = NullValue
                       /\ received # sent \/ ~MakesDocument

(* No RAPIDJSON_ASSERT fails, also when a document is used again after an   *)
(* attempt to parse that ended somewhere in the middle.                     *)
NoAssertFails == phase # "aborted"
=============================================================================
