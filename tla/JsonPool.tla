------------------------------ MODULE JsonPool -------------------------------
(***************************************************************************)
(* MemoryPoolAllocator of src/src/fastcgi/rapidjson/rapidjson.h, from      *)
(* which both front ends take the memory of the documents they reply with. *)
(*                                                                         *)
(* A pool is a sequence of chunks, the newest last, and the blocks handed  *)
(* out, none of which is ever freed.  A block is known by where it begins, *)
(* <<chunk, offset>>, and holds a sequence of items.  Sizes are in bytes.  *)
(***************************************************************************)
EXTENDS Naturals, Sequences

CONSTANT
  ChunkCapacity   \* capacity of an ordinary chunk (64 KB in the code)

ASSUME ChunkCapacityAssumption == ChunkCapacity \in Nat

Null == <<0, 0>>
Aligned(n) == ((n + 3) \div 4) * 4

Chunk == [capacity : Nat, size : Nat]
NewPool == [chunks |-> <<[capacity |-> ChunkCapacity, size |-> 0]>>, blocks |-> <<>>]

AddChunk(h, capacity) == [h EXCEPT !.chunks = Append(@, [capacity |-> capacity, size |-> 0])]

(* The chunk that serves allocation. *)
Newest(h) == h.chunks[Len(h.chunks)]
Top(h) == <<Len(h.chunks), Newest(h).size>>

(* Mutant: the rounding up is forgotten when room is looked for. *)
MutantHasRoom(h, size) == Newest(h).size < Newest(h).capacity
HasRoom(h, size) == Newest(h).size + size <= Newest(h).capacity

(* h with room for size bytes in its newest chunk.  A block larger than an  *)
(* ordinary chunk gets one of its own size.                                 *)
WithRoom(h, size) ==
  IF HasRoom(h, size) THEN h
  ELSE AddChunk(h, IF ChunkCapacity > size THEN ChunkCapacity ELSE size)

(* size more bytes of the newest chunk are in use. *)
Grown(h, size) ==
  LET used == [Newest(h) EXCEPT !.size = @ + size]
  IN  [h EXCEPT !.chunks = [@ EXCEPT ![Len(h.chunks)] = used]]

(* h with the block p of n bytes; a block of no bytes cannot hold anything. *)
WithBlock(h, p, n, items) ==
  IF n = 0 THEN h
  ELSE [chunks |-> h.chunks,
        blocks |-> [q \in DOMAIN h.blocks \cup {p} |->
                      IF q = p THEN [size |-> n, items |-> items] ELSE h.blocks[q]]]

Items(h, p) == IF p \in DOMAIN h.blocks THEN h.blocks[p].items ELSE <<>>

(* The pool after allocation of a block of n bytes that holds items; the    *)
(* block begins at Top of the pool with room for it.                        *)
Malloc(h, n, items) ==
  LET g == WithRoom(h, Aligned(n))
  IN  [at |-> Top(g), pool |-> WithBlock(Grown(g, Aligned(n)), Top(g), n, items)]

(* The block is the last one that was handed out and can grow in its chunk. *)
(* Mutant: that it is the last one is not looked at.                        *)
MutantGrowsInPlace(h, p, old, new) == HasRoom(h, Aligned(new - old))
GrowsInPlace(h, p, old, new) ==
  /\ p[1] = Len(h.chunks)
  /\ p[2] + old = Newest(h).size
  /\ HasRoom(h, Aligned(new - old))

(* Realloc of p from old to new bytes: never shrinks, grows in place where  *)
(* it can, else copies.                                                     *)
Realloc(h, p, old, new) ==
  IF p = Null THEN Malloc(h, new, <<>>)
  ELSE IF old >= new THEN [at |-> p, pool |-> h]
  ELSE IF GrowsInPlace(h, p, old, new)
  THEN [at |-> p, pool |-> WithBlock(Grown(h, Aligned(new - old)), p, new, Items(h, p))]
  ELSE Malloc(h, new, Items(h, p))

(* items is written to the block at p. *)
Store(h, p, items) == IF p \in DOMAIN h.blocks THEN [h EXCEPT !.blocks[p].items = items] ELSE h
-----------------------------------------------------------------------------
PoolTypeOK(h) ==
  /\ h = [chunks |-> h.chunks, blocks |-> h.blocks]
  /\ h.chunks \in Seq(Chunk)
  /\ h.chunks # <<>>
  /\ DOMAIN h.blocks \subseteq Nat \X Nat
  /\ h.blocks = [p \in DOMAIN h.blocks |-> h.blocks[p]]
  /\ \A p \in DOMAIN h.blocks : /\ h.blocks[p] = [size |-> h.blocks[p].size, items |-> h.blocks[p].items]
                                /\ h.blocks[p].size \in Nat \ {0}

(* No more of a chunk is in use than it has; it stays aligned. *)
ChunksHold(h) ==
  \A i \in DOMAIN h.chunks : h.chunks[i].size <= h.chunks[i].capacity /\ h.chunks[i].size % 4 = 0

(* Every block is aligned and lies in the used part of its chunk. *)
BlocksInside(h) ==
  \A p \in DOMAIN h.blocks :
    /\ p[1] \in DOMAIN h.chunks
    /\ p[2] % 4 = 0
    /\ p[2] + h.blocks[p].size <= h.chunks[p[1]].size

(* No two blocks share a byte. *)
BlocksApart(h) ==
  \A p, q \in DOMAIN h.blocks :
    p # q /\ p[1] = q[1] => \/ p[2] + h.blocks[p].size <= q[2]
                            \/ q[2] + h.blocks[q].size <= p[2]

PoolSound(h) == PoolTypeOK(h) /\ ChunksHold(h) /\ BlocksInside(h) /\ BlocksApart(h)
=============================================================================
