--------------------------- MODULE JsonBodyProofs ----------------------------
(***************************************************************************)
(* Proofs about JsonPool and JsonBody.  Allocation of blocks of any size   *)
(* from chunks of any capacity keeps the blocks apart and leaves the       *)
(* others as they are.  So the memory of both documents of a reply stays   *)
(* sound, and the one that is built holds the records, for any records,    *)
(* capacities and sizes, and for any writer and reader that hand over what *)
(* their types let them (StreamsOK).                                       *)
(***************************************************************************)
EXTENDS JsonBody, SequenceTheorems, TLAPS

(* Rounding up: the least multiple of four that is not below n. *)
LEMMA AlignedBounds ==
  ASSUME NEW n \in Nat
  PROVE  Aligned(n) \in Nat /\ Aligned(n) >= n /\ Aligned(n) % 4 = 0
BY DEF Aligned

(* Aligned sizes add up to an aligned size. *)
LEMMA AlignedSum ==
  ASSUME NEW m \in Nat, m % 4 = 0, NEW n \in Nat, n % 4 = 0
  PROVE  (m + n) % 4 = 0
OBVIOUS

(* A pool given other chunks keeps its blocks. *)
LEMMA ReplaceChunks ==
  ASSUME NEW h, h = [chunks |-> h.chunks, blocks |-> h.blocks], NEW x
  PROVE  [h EXCEPT !.chunks = x] = [chunks |-> x, blocks |-> h.blocks]
OBVIOUS

(* What is at most x is at most what x is at most. *)
LEMMA AtMost ==
  ASSUME NEW n \in Nat, NEW x \in Nat, NEW y \in Nat, n <= x, x <= y
  PROVE  n <= y
OBVIOUS

(* A block at x that grows as far as its chunk does still fits. *)
LEMMA GrownFits ==
  ASSUME NEW x \in Nat, NEW old \in Nat, NEW new \in Nat, NEW size \in Nat, new - old <= size
  PROVE  x + new <= (x + old) + size
OBVIOUS

(* A block of old bytes at x has nothing behind it if its chunk ends there. *)
LEMMA NothingBehind ==
  ASSUME NEW x \in Nat, NEW old \in Nat, NEW y \in Nat, NEW n \in Nat \ {0},
         y + n <= x \/ x + old <= y, y + n <= x + old
  PROVE  y + n <= x
OBVIOUS

(* A sum of naturals is not below its first part. *)
LEMMA NotLess ==
  ASSUME NEW m \in Nat, NEW n \in Nat
  PROVE  m <= m + n
OBVIOUS

(* A pool with room for size bytes is as sound as it was, with the same     *)
(* blocks.                                                                  *)
LEMMA WithRoomSound ==
  ASSUME NEW h, PoolSound(h), NEW size \in Nat
  PROVE  LET g == WithRoom(h, size)
         IN PoolSound(g) /\ HasRoom(g, size) /\ g.blocks = h.blocks
<1>1. CASE HasRoom(h, size)
  BY <1>1 DEF WithRoom
<1>2. CASE ~HasRoom(h, size)
  <2> DEFINE capacity == IF ChunkCapacity > size THEN ChunkCapacity ELSE size
             c == [capacity |-> capacity, size |-> 0]
             g == WithRoom(h, size)
  <2>1. capacity \in Nat /\ size <= capacity
    BY ChunkCapacityAssumption
  <2>2. g = [chunks |-> Append(h.chunks, c), blocks |-> h.blocks]
    BY <1>2 DEF WithRoom, AddChunk, PoolSound, PoolTypeOK
  <2> HIDE DEF capacity, g
  <2>3. c \in Chunk
    BY <2>1 DEF Chunk
  <2>4. h.chunks \in Seq(Chunk)
    BY DEF PoolSound, PoolTypeOK
  <2>5. /\ g.chunks \in Seq(Chunk)
        /\ Len(g.chunks) = Len(h.chunks) + 1
        /\ g.chunks[Len(g.chunks)] = c
        /\ \A i \in DOMAIN h.chunks : i \in DOMAIN g.chunks /\ g.chunks[i] = h.chunks[i]
        /\ \A i \in DOMAIN g.chunks : i \in DOMAIN h.chunks \/ i = Len(g.chunks)
    BY <2>2, <2>3, <2>4
  <2> HIDE DEF c
  <2>6. c.size = 0 /\ c.capacity = capacity
    BY DEF c
  <2>7. PoolTypeOK(g)
    BY <2>2, <2>5, <2>4 DEF PoolSound, PoolTypeOK
  <2>8. ChunksHold(g)
    <3> SUFFICES ASSUME NEW i \in DOMAIN g.chunks
                 PROVE  g.chunks[i].size <= g.chunks[i].capacity /\ g.chunks[i].size % 4 = 0
      BY DEF ChunksHold
    <3>1. CASE i \in DOMAIN h.chunks
      BY <2>5, <3>1 DEF PoolSound, ChunksHold
    <3>2. CASE i = Len(g.chunks)
      <4>1. 0 <= capacity /\ 0 % 4 = 0
        BY <2>1
      <4> QED
        BY <2>5, <2>6, <3>2, <4>1
    <3> QED
      BY <2>5, <3>1, <3>2
  <2>9. BlocksInside(g) /\ BlocksApart(g)
    BY <2>2, <2>5 DEF PoolSound, BlocksInside, BlocksApart
  <2>10. HasRoom(g, size)
    BY <2>1, <2>5, <2>6 DEF HasRoom, Newest
  <2> QED
    BY <2>2, <2>7, <2>8, <2>9, <2>10 DEF PoolSound, g
<1> QED
  BY <1>1, <1>2

(* The next size bytes of the newest chunk may become part of the block p,  *)
(* which then has n bytes and ends there.                                   *)
CanTake(h, size, p, n) ==
  /\ size \in Nat /\ size % 4 = 0 /\ HasRoom(h, size)
  /\ p \in Nat \X Nat /\ n \in Nat \ {0}
  /\ p[1] = Len(h.chunks) /\ p[2] % 4 = 0
  /\ p[2] + n <= Newest(h).size + size
  /\ \A q \in DOMAIN h.blocks \ {p} : q[1] = p[1] => q[2] + h.blocks[q].size <= p[2]

(* Of the blocks of h, only p has changed in g. *)
Changed(h, g, p, n, items) ==
  /\ DOMAIN g.blocks = DOMAIN h.blocks \cup {p}
  /\ g.blocks[p] = [size |-> n, items |-> items]
  /\ \A q \in DOMAIN h.blocks \ {p} : g.blocks[q] = h.blocks[q]

(* The step that Malloc and Realloc share. *)
LEMMA TakeSound ==
  ASSUME NEW h, PoolSound(h), NEW size, NEW p, NEW n, NEW items, CanTake(h, size, p, n)
  PROVE  /\ PoolSound(WithBlock(Grown(h, size), p, n, items))
         /\ Changed(h, WithBlock(Grown(h, size), p, n, items), p, n, items)
<1> DEFINE l == Len(h.chunks)
           used == [h.chunks[l] EXCEPT !.size = @ + size]
           c == [h.chunks EXCEPT ![l] = used]
           b == [q \in DOMAIN h.blocks \cup {p} |->
                   IF q = p THEN [size |-> n, items |-> items] ELSE h.blocks[q]]
           g == WithBlock(Grown(h, size), p, n, items)
<1> SUFFICES ASSUME size \in Nat, size % 4 = 0, HasRoom(h, size),
                    p \in Nat \X Nat, n \in Nat \ {0},
                    p[1] = Len(h.chunks), p[2] % 4 = 0,
                    p[2] + n <= Newest(h).size + size,
                    \A q \in DOMAIN h.blocks \ {p} :
                      q[1] = p[1] => q[2] + h.blocks[q].size <= p[2]
             PROVE  PoolSound(g) /\ Changed(h, g, p, n, items)
  BY DEF CanTake
<1>1. g = [chunks |-> c, blocks |-> b]
  <2>1. Grown(h, size) = [chunks |-> c, blocks |-> h.blocks]
    <3>1. h = [chunks |-> h.chunks, blocks |-> h.blocks]
      BY DEF PoolSound, PoolTypeOK
    <3>2. Grown(h, size) = [h EXCEPT !.chunks = c]
      BY DEF Grown, Newest
    <3> HIDE DEF used, c
    <3> QED
      BY <3>1, <3>2, ReplaceChunks
  <2>2. n # 0
    OBVIOUS
  <2> HIDE DEF c
  <2> QED
    BY <2>1, <2>2 DEF WithBlock
<1>2. /\ h.chunks \in Seq(Chunk)
      /\ l \in DOMAIN h.chunks
      /\ DOMAIN h.chunks = 1..l
  BY DEF PoolSound, PoolTypeOK
<1>3. /\ c \in Seq(Chunk)
      /\ Len(c) = l
      /\ DOMAIN c = DOMAIN h.chunks
      /\ c[l].size = h.chunks[l].size + size
      /\ c[l].capacity = h.chunks[l].capacity
      /\ \A i \in DOMAIN h.chunks \ {l} : c[i] = h.chunks[i]
  <2>1. h.chunks[l] \in Chunk
    BY <1>2, ElementOfSeq
  <2>2. /\ used \in Chunk
        /\ used.size = h.chunks[l].size + size
        /\ used.capacity = h.chunks[l].capacity
    <3>1. \A x \in Chunk : x.size \in Nat /\ x.capacity \in Nat
                           /\ [x EXCEPT !.size = x.size + size]
                                = [capacity |-> x.capacity, size |-> x.size + size]
      BY SMT DEF Chunk
    <3>2. used = [capacity |-> h.chunks[l].capacity, size |-> h.chunks[l].size + size]
      BY <2>1, <3>1
    <3> HIDE DEF used
    <3> QED
      BY <2>1, <3>1, <3>2, SMT DEF Chunk
  <2> HIDE DEF used
  <2> QED
    BY <1>2, <2>2, ExceptSeq
<1>4. /\ DOMAIN b = DOMAIN h.blocks \cup {p}
      /\ b[p] = [size |-> n, items |-> items]
      /\ \A q \in DOMAIN h.blocks \ {p} : b[q] = h.blocks[q]
      /\ b = [q \in DOMAIN b |-> b[q]]
  OBVIOUS
<1>5. b[p].size = n
  BY <1>4
<1> HIDE DEF used, c, b, g
<1>6. /\ \A i \in DOMAIN h.chunks : h.chunks[i].size <= c[i].size
      /\ \A i \in DOMAIN h.chunks : h.chunks[i].size \in Nat /\ c[i].size \in Nat /\ c[i].capacity \in Nat
  <2> SUFFICES ASSUME NEW i \in DOMAIN h.chunks
               PROVE  /\ h.chunks[i].size <= c[i].size
                      /\ h.chunks[i].size \in Nat /\ c[i].size \in Nat /\ c[i].capacity \in Nat
    OBVIOUS
  <2>1. h.chunks[i] \in Chunk /\ c[i] \in Chunk
    BY <1>2, <1>3, ElementOfSeq
  <2>2. CASE i = l
    <3>1. c[l].size = h.chunks[l].size + size
      BY <1>3
    <3>2. /\ h.chunks[l].size \in Nat /\ c[l].size \in Nat
          /\ c[l].capacity \in Nat
      BY <2>1, <2>2 DEF Chunk
    <3>3. h.chunks[l].size <= c[l].size
      BY <3>1, <3>2, NotLess
    <3> QED
      BY <2>2, <3>2, <3>3
  <2>3. CASE i # l
    BY <1>3, <2>1, <2>3 DEF Chunk
  <2> QED
    BY <2>2, <2>3
<1>7. PoolTypeOK(g)
  <2>1. g = [chunks |-> g.chunks, blocks |-> g.blocks] /\ g.chunks # <<>>
    BY <1>1, <1>2, <1>3
  <2>2. DOMAIN g.blocks \subseteq Nat \X Nat
    BY <1>1, <1>4 DEF PoolSound, PoolTypeOK
  <2>3. ASSUME NEW q \in DOMAIN g.blocks
        PROVE  g.blocks[q] = [size |-> g.blocks[q].size, items |-> g.blocks[q].items]
               /\ g.blocks[q].size \in Nat \ {0}
    <3>1. CASE q = p
      <4>1. g.blocks[q] = [size |-> n, items |-> items]
        BY <1>1, <1>4, <3>1
      <4> QED
        BY <4>1
    <3>2. CASE q # p
      <4>1. q \in DOMAIN h.blocks /\ g.blocks[q] = h.blocks[q]
        BY <1>1, <1>4, <3>2
      <4> QED
        BY <4>1 DEF PoolSound, PoolTypeOK
    <3> QED
      BY <3>1, <3>2
  <2> QED
    BY <1>1, <1>3, <1>4, <2>1, <2>2, <2>3 DEF PoolTypeOK
<1>8. ChunksHold(g)
  <2> SUFFICES ASSUME NEW i \in DOMAIN h.chunks
               PROVE  c[i].size <= c[i].capacity /\ c[i].size % 4 = 0
    BY <1>1, <1>3 DEF ChunksHold
  <2>1. h.chunks[i].size <= h.chunks[i].capacity /\ h.chunks[i].size % 4 = 0
    BY DEF PoolSound, ChunksHold
  <2>2. CASE i # l
    BY <1>3, <2>1, <2>2
  <2>3. CASE i = l
    <3>1. c[l].size <= c[l].capacity
      BY <1>3 DEF HasRoom, Newest
    <3>2. h.chunks[l].size \in Nat /\ h.chunks[l].size % 4 = 0
      BY <1>6, <2>1, <2>3
    <3>3. (h.chunks[l].size + size) % 4 = 0
      BY <3>2, AlignedSum
    <3> QED
      BY <1>3, <2>3, <3>1, <3>3
  <2> QED
    BY <2>2, <2>3
<1>9. BlocksInside(g)
  <2> SUFFICES ASSUME NEW q \in DOMAIN b
               PROVE  /\ q[1] \in DOMAIN c
                      /\ q[2] % 4 = 0
                      /\ q[2] + b[q].size <= c[q[1]].size
    BY <1>1 DEF BlocksInside
  <2>1. CASE q = p
    BY <1>2, <1>3, <1>5, <2>1 DEF Newest
  <2>2. CASE q # p
    <3>1. q \in DOMAIN h.blocks \ {p} /\ b[q] = h.blocks[q]
      BY <1>4, <2>2
    <3>2. q[1] \in DOMAIN h.chunks /\ q[2] % 4 = 0 /\ q[2] + h.blocks[q].size <= h.chunks[q[1]].size
      BY <3>1 DEF PoolSound, BlocksInside
    <3>3. q[2] \in Nat /\ h.blocks[q].size \in Nat
      BY <3>1 DEF PoolSound, PoolTypeOK
    <3>4. /\ h.chunks[q[1]].size <= c[q[1]].size
          /\ h.chunks[q[1]].size \in Nat /\ c[q[1]].size \in Nat
      BY <1>6, <3>2
    <3>5. q[2] + h.blocks[q].size <= c[q[1]].size
      <4>1. q[2] + h.blocks[q].size \in Nat
        BY <3>3
      <4> HIDE DEF b, c
      <4> QED
        BY <3>2, <3>4, <4>1, AtMost
    <3>6. q[1] \in DOMAIN c
      BY <1>3, <3>2
    <3>7. b[q].size = h.blocks[q].size
      BY <3>1
    <3> HIDE DEF b, c
    <3> QED
      BY <3>2, <3>5, <3>6, <3>7
  <2> QED
    BY <2>1, <2>2
<1>10. BlocksApart(g)
  <2> SUFFICES ASSUME NEW q \in DOMAIN b, NEW r \in DOMAIN b, q # r, q[1] = r[1]
               PROVE  q[2] + b[q].size <= r[2] \/ r[2] + b[r].size <= q[2]
    BY <1>1 DEF BlocksApart
  <2>1. CASE q = p
    BY <1>4, <2>1
  <2>2. CASE r = p
    BY <1>4, <2>2
  <2>3. CASE q # p /\ r # p
    BY <1>4, <2>3 DEF PoolSound, BlocksApart
  <2> QED
    BY <2>1, <2>2, <2>3
<1> QED
  BY <1>1, <1>4, <1>7, <1>8, <1>9, <1>10 DEF PoolSound, Changed, g

(* Everything handed out from the newest chunk of a sound pool ends at or   *)
(* before its Top.                                                          *)
LEMMA BelowTop ==
  ASSUME NEW h, PoolSound(h)
  PROVE  /\ Top(h) \in Nat \X Nat
         /\ Top(h)[1] = Len(h.chunks) /\ Top(h)[2] = Newest(h).size /\ Newest(h).size % 4 = 0
         /\ Top(h) \notin DOMAIN h.blocks
         /\ \A q \in DOMAIN h.blocks : q[1] = Top(h)[1] => q[2] + h.blocks[q].size <= Top(h)[2]
<1>1. h.chunks \in Seq(Chunk) /\ Len(h.chunks) \in 1..Len(h.chunks)
  BY DEF PoolSound, PoolTypeOK
<1>2. Newest(h).size \in Nat
  <2>1. Newest(h) \in Chunk
    BY <1>1, ElementOfSeq DEF Newest
  <2> QED
    BY <2>1 DEF Chunk
<1>3. Newest(h).size % 4 = 0
  BY <1>1 DEF PoolSound, ChunksHold, Newest
<1>4. \A q \in DOMAIN h.blocks : q[1] = Len(h.chunks) => q[2] + h.blocks[q].size <= Newest(h).size
  BY DEF PoolSound, BlocksInside, Newest
<1>5. Top(h) \notin DOMAIN h.blocks
  <2> SUFFICES ASSUME Top(h) \in DOMAIN h.blocks PROVE FALSE
    OBVIOUS
  <2>1. h.blocks[Top(h)].size \in Nat \ {0}
    BY DEF PoolSound, PoolTypeOK
  <2>2. Newest(h).size + h.blocks[Top(h)].size <= Newest(h).size
    BY <1>4 DEF Top
  <2> QED
    BY <1>2, <2>1, <2>2
<1> QED
  BY <1>1, <1>2, <1>3, <1>4, <1>5 DEF Top

(* Malloc: in a sound pool, for any size, the pool stays sound - the new    *)
(* block shares no byte with an earlier one and lies within its chunk - and *)
(* the earlier blocks are where they were with what they held.              *)
THEOREM MallocSound ==
  ASSUME NEW h, PoolSound(h), NEW n \in Nat, NEW items
  PROVE  LET m == Malloc(h, n, items)
         IN /\ PoolSound(m.pool)
            /\ \A q \in DOMAIN h.blocks : q \in DOMAIN m.pool.blocks /\ m.pool.blocks[q] = h.blocks[q]
            /\ n > 0 => /\ m.at \in DOMAIN m.pool.blocks \ DOMAIN h.blocks
                        /\ m.pool.blocks[m.at] = [size |-> n, items |-> items]
<1> DEFINE size == Aligned(n)
           g == WithRoom(h, size)
           m == Malloc(h, n, items)
<1>1. size \in Nat /\ n <= size /\ size % 4 = 0
  BY AlignedBounds
<1>2. PoolSound(g) /\ HasRoom(g, size) /\ g.blocks = h.blocks
  BY <1>1, WithRoomSound
<1>3. m.at = Top(g) /\ m.pool = WithBlock(Grown(g, size), Top(g), n, items)
  BY DEF Malloc
<1> HIDE DEF m, g, size
<1>4. CASE n = 0
  <2>1. size = 0
    BY <1>4 DEF size, Aligned
  <2>2. g.chunks \in Seq(Chunk) /\ Len(g.chunks) \in 1..Len(g.chunks) /\ g = [chunks |-> g.chunks, blocks |-> g.blocks]
    BY <1>2 DEF PoolSound, PoolTypeOK
  <2>3. Newest(g) \in Chunk
    BY <2>2, ElementOfSeq DEF Newest
  <2>4. [Newest(g) EXCEPT !.size = @ + 0] = Newest(g)
    BY <2>3 DEF Chunk
  <2>5. [g.chunks EXCEPT ![Len(g.chunks)] = Newest(g)] = g.chunks
    BY <2>2 DEF Newest
  <2>6. Grown(g, 0) = g
    BY <2>2, <2>4, <2>5, ReplaceChunks DEF Grown
  <2>7. m.pool = g
    BY <1>3, <1>4, <2>1, <2>6 DEF WithBlock
  <2> QED
    BY <1>2, <1>4, <2>7 DEF m
<1>5. CASE n > 0
  <2> DEFINE p == Top(g)
  <2>1. /\ p \in Nat \X Nat
        /\ p[1] = Len(g.chunks) /\ p[2] = Newest(g).size /\ p[2] % 4 = 0
        /\ p \notin DOMAIN g.blocks
        /\ \A q \in DOMAIN g.blocks : q[1] = p[1] => q[2] + g.blocks[q].size <= p[2]
    BY <1>2, BelowTop
  <2> HIDE DEF p
  <2>2. p[2] \in Nat /\ p[2] + n <= Newest(g).size + size
    BY <1>1, <2>1
  <2>3. n \in Nat \ {0}
    BY <1>5
  <2>4. \A q \in DOMAIN g.blocks \ {p} : q[1] = p[1] => q[2] + g.blocks[q].size <= p[2]
    BY <2>1
  <2>5. CanTake(g, size, p, n)
    BY <1>1, <1>2, <2>1, <2>2, <2>3, <2>4 DEF CanTake
  <2>6. m.at = p /\ m.pool = WithBlock(Grown(g, size), p, n, items)
    BY <1>3 DEF p
  <2>7. PoolSound(m.pool) /\ Changed(g, m.pool, p, n, items)
    BY <1>2, <2>5, <2>6, TakeSound
  <2> QED
    BY <1>2, <2>1, <2>6, <2>7 DEF Changed, m
<1> QED
  BY <1>4, <1>5 DEF m

(* Realloc of a block to any larger size: the pool stays sound, the block   *)
(* returned has the new size and what was in the old one, and every other   *)
(* block is where it was with what it held - whether the block grew where   *)
(* it is or was copied.                                                     *)
THEOREM ReallocSound ==
  ASSUME NEW h, PoolSound(h), NEW p \in DOMAIN h.blocks, p # Null,
         NEW new \in Nat, new > h.blocks[p].size
  PROVE  LET m == Realloc(h, p, h.blocks[p].size, new)
         IN /\ PoolSound(m.pool)
            /\ m.at \in DOMAIN m.pool.blocks
            /\ m.pool.blocks[m.at] = [size |-> new, items |-> h.blocks[p].items]
            /\ \A q \in DOMAIN h.blocks \ {p} :
                 q # m.at /\ q \in DOMAIN m.pool.blocks /\ m.pool.blocks[q] = h.blocks[q]
<1> DEFINE old == h.blocks[p].size
           m == Realloc(h, p, old, new)
<1>1. old \in Nat \ {0} /\ p \in Nat \X Nat
  BY DEF PoolSound, PoolTypeOK
<1>2. Items(h, p) = h.blocks[p].items
  BY DEF Items
<1>3. CASE GrowsInPlace(h, p, old, new)
  <2> DEFINE size == Aligned(new - old)
             g == WithBlock(Grown(h, size), p, new, Items(h, p))
  <2>1. m.at = p /\ m.pool = g
    BY <1>1, <1>3 DEF Realloc
  <2>2. new - old \in Nat
    BY <1>1
  <2>3. size \in Nat /\ new - old <= size /\ size % 4 = 0
    BY <2>2, AlignedBounds
  <2>4. p[1] = Len(h.chunks) /\ p[2] + old = Newest(h).size /\ HasRoom(h, size)
    BY <1>3 DEF GrowsInPlace
  <2> HIDE DEF size, m
  <2>5. p[2] \in Nat /\ p[2] % 4 = 0
    BY <1>1 DEF PoolSound, BlocksInside
  <2>6. p[2] + new <= Newest(h).size + size
    <3>1. p[2] + new <= (p[2] + old) + size
      <4> HIDE DEF old
      <4> QED
        BY <1>1, <2>3, <2>5, GrownFits
    <3> QED
      BY <2>4, <3>1
  <2>7. ASSUME NEW q \in DOMAIN h.blocks \ {p}, q[1] = p[1]
        PROVE  q[2] + h.blocks[q].size <= p[2]
    <3>1. q[2] + h.blocks[q].size <= p[2] \/ p[2] + old <= q[2]
      BY <2>7 DEF PoolSound, BlocksApart
    <3>2. q[2] + h.blocks[q].size <= Newest(h).size
      BY <2>4, <2>7 DEF PoolSound, BlocksInside, Newest
    <3>3. q[2] \in Nat /\ h.blocks[q].size \in Nat \ {0}
      BY DEF PoolSound, PoolTypeOK
    <3>4. q[2] + h.blocks[q].size <= p[2] + old
      BY <2>4, <3>2
    <3> HIDE DEF old
    <3> QED
      BY <1>1, <2>5, <3>1, <3>3, <3>4, NothingBehind
  <2>8. new \in Nat \ {0}
    BY <1>1
  <2>9. CanTake(h, size, p, new)
    BY <1>1, <2>3, <2>4, <2>5, <2>6, <2>7, <2>8 DEF CanTake
  <2>10. PoolSound(m.pool) /\ Changed(h, m.pool, p, new, Items(h, p))
    BY <2>1, <2>9, TakeSound
  <2> QED
    BY <1>2, <2>1, <2>10 DEF Changed, m
<1>4. CASE ~GrowsInPlace(h, p, old, new)
  <2>1. m = Malloc(h, new, Items(h, p))
    BY <1>1, <1>4 DEF Realloc
  <2>2. new > 0
    BY <1>1
  <2> HIDE DEF m
  <2> QED
    BY <1>2, <2>1, <2>2, MallocSound DEF m
<1> QED
  BY <1>3, <1>4
-----------------------------------------------------------------------------
(* Every block of h is in g as it is in h. *)
Kept(h, g) == \A q \in DOMAIN h.blocks : q \in DOMAIN g.blocks /\ g.blocks[q] = h.blocks[q]

(* A block is in a chunk, and Null and Literal are not. *)
LEMMA BlockPlaces ==
  ASSUME NEW h, PoolSound(h), NEW p \in DOMAIN h.blocks
  PROVE  /\ p # Null /\ p # Literal /\ p \in Nat \X Nat
         /\ h.blocks[p] = [size |-> h.blocks[p].size, items |-> h.blocks[p].items]
         /\ h.blocks[p].size \in Nat \ {0}
<1>1. p[1] \in DOMAIN h.chunks /\ h.chunks \in Seq(Chunk)
  BY DEF PoolSound, BlocksInside, PoolTypeOK
<1>2. p[1] \in 1..Len(h.chunks)
  BY <1>1
<1>3. p[1] # 0
  BY <1>2
<1>4. Null[1] = 0 /\ Literal[1] = 0
  BY DEF Null, Literal
<1> QED
  BY <1>3, <1>4 DEF PoolSound, PoolTypeOK

(* Nothing but the items of one block changes when they are written.        *)
LEMMA StoreSound ==
  ASSUME NEW h, PoolSound(h), NEW p \in DOMAIN h.blocks, NEW items
  PROVE  LET g == Store(h, p, items)
         IN  /\ PoolSound(g)
             /\ DOMAIN g.blocks = DOMAIN h.blocks
             /\ g.blocks[p] = [size |-> h.blocks[p].size, items |-> items]
             /\ \A q \in DOMAIN h.blocks \ {p} : g.blocks[q] = h.blocks[q]
<1> DEFINE b == [h.blocks EXCEPT ![p].items = items]
           g == Store(h, p, items)
<1>1. h = [chunks |-> h.chunks, blocks |-> h.blocks] /\ h.blocks = [q \in DOMAIN h.blocks |-> h.blocks[q]]
  BY DEF PoolSound, PoolTypeOK
<1>2. h.blocks[p] = [size |-> h.blocks[p].size, items |-> h.blocks[p].items]
  BY BlockPlaces
<1>3. [h.blocks[p] EXCEPT !.items = items] = [size |-> h.blocks[p].size, items |-> items]
  BY <1>2
<1>4. /\ DOMAIN b = DOMAIN h.blocks
      /\ b[p] = [size |-> h.blocks[p].size, items |-> items]
      /\ \A q \in DOMAIN h.blocks \ {p} : b[q] = h.blocks[q]
      /\ b = [q \in DOMAIN b |-> b[q]]
  BY <1>1, <1>3
<1>5. g = [h EXCEPT !.blocks = b]
  BY DEF Store
<1> HIDE DEF b, g
<1>6. g = [chunks |-> h.chunks, blocks |-> b]
  BY <1>1, <1>5
<1>7. /\ g.chunks = h.chunks /\ g.blocks = b
      /\ \A q \in DOMAIN h.blocks : b[q].size = h.blocks[q].size
  BY <1>4, <1>6
<1>8. PoolTypeOK(g)
  <2>1. \A q \in DOMAIN b : b[q] = [size |-> b[q].size, items |-> b[q].items] /\ b[q].size \in Nat \ {0}
    <3> SUFFICES ASSUME NEW q \in DOMAIN b
                 PROVE  b[q] = [size |-> b[q].size, items |-> b[q].items] /\ b[q].size \in Nat \ {0}
      OBVIOUS
    <3>1. CASE q = p
      <4>1. b[q] = [size |-> h.blocks[p].size, items |-> items]
        BY <1>4, <3>1
      <4>2. h.blocks[p].size \in Nat \ {0}
        BY BlockPlaces
      <4> QED
        BY <4>1, <4>2
    <3>2. CASE q # p
      <4>1. q \in DOMAIN h.blocks /\ b[q] = h.blocks[q]
        BY <1>4, <3>2
      <4>2. h.blocks[q] = [size |-> h.blocks[q].size, items |-> h.blocks[q].items] /\ h.blocks[q].size \in Nat \ {0}
        BY <4>1, BlockPlaces
      <4> HIDE DEF b
      <4> QED
        BY <4>1, <4>2
    <3> QED
      BY <3>1, <3>2
  <2> QED
    BY <1>4, <1>6, <1>7, <2>1 DEF PoolSound, PoolTypeOK
<1>9. ChunksHold(g) /\ BlocksInside(g) /\ BlocksApart(g)
  BY <1>4, <1>7 DEF PoolSound, ChunksHold, BlocksInside, BlocksApart
<1> QED
  BY <1>4, <1>7, <1>8, <1>9 DEF PoolSound, g

(* A new pool has nothing in it. *)
LEMMA NewPoolSound == PoolSound(NewPool) /\ DOMAIN NewPool.blocks = {}
<1> DEFINE c == [capacity |-> ChunkCapacity, size |-> 0]
<1>1. NewPool = [chunks |-> <<c>>, blocks |-> <<>>]
  BY DEF NewPool
<1>2. c \in Chunk /\ c.size = 0 /\ c.capacity \in Nat
  BY ChunkCapacityAssumption DEF Chunk
<1> HIDE DEF c
<1>3. /\ <<c>> \in Seq(Chunk) /\ DOMAIN <<c>> = {1} /\ <<c>>[1] = c /\ <<c>> # <<>>
      /\ DOMAIN <<>> = {} /\ <<>> = [p \in DOMAIN <<>> |-> <<>>[p]]
  BY <1>2
<1>4. NewPool.chunks = <<c>> /\ NewPool.blocks = <<>>
  BY <1>1
<1>5. DOMAIN NewPool.blocks = {}
  BY <1>3, <1>4
<1>6. PoolTypeOK(NewPool)
  BY <1>1, <1>3, <1>4, <1>5 DEF PoolTypeOK
<1>7. ChunksHold(NewPool)
  <2>1. \A i \in DOMAIN <<c>> : <<c>>[i] = c
    BY <1>3
  <2>2. c.size <= c.capacity /\ c.size % 4 = 0
    BY <1>2
  <2> QED
    BY <1>4, <2>1, <2>2 DEF ChunksHold
<1> QED
  BY <1>5, <1>6, <1>7 DEF PoolSound, BlocksInside, BlocksApart
-----------------------------------------------------------------------------
(* A document: its stack is within a block of its pool. *)
DocumentOK(d) ==
  /\ d = [pool |-> d.pool, stack |-> d.stack, root |-> d.root]
  /\ d.stack = [at |-> d.stack.at, size |-> d.stack.size, capacity |-> d.stack.capacity]
  /\ PoolSound(d.pool)
  /\ d.stack.at \in DOMAIN d.pool.blocks
  /\ d.pool.blocks[d.stack.at].size = d.stack.capacity
  /\ d.stack.size \in Nat
  /\ d.stack.size * ValueSize <= d.stack.capacity

(* A new one. *)
LEMMA NewDocumentOK == DocumentOK(NewDocument)
<1> DEFINE m == Malloc(NewPool, StackCapacity, <<>>)
           d == NewDocument
<1>1. StackCapacity \in Nat \ {0} /\ StackCapacity > 0
  BY SizesAssumption
<1>2. PoolSound(m.pool) /\ m.at \in DOMAIN m.pool.blocks /\ m.pool.blocks[m.at] = [size |-> StackCapacity, items |-> <<>>]
  BY <1>1, NewPoolSound, MallocSound
<1>3. d = [pool |-> m.pool, stack |-> [at |-> m.at, size |-> 0, capacity |-> StackCapacity], root |-> NullValue]
  BY DEF NewDocument
<1> HIDE DEF m, d
<1>4. d.pool = m.pool /\ d.stack = [at |-> m.at, size |-> 0, capacity |-> StackCapacity] /\ d.root = NullValue
  BY <1>3
<1>5. d.stack.at = m.at /\ d.stack.size = 0 /\ d.stack.capacity = StackCapacity
  BY <1>4
<1>6. m.pool.blocks[m.at].size = StackCapacity
  BY <1>2
<1>7. 0 * ValueSize = 0 /\ 0 <= StackCapacity
  BY <1>1, SizesAssumption
<1> QED
  BY <1>2, <1>3, <1>4, <1>5, <1>6, <1>7 DEF DocumentOK, d

(* Other parts of a document. *)
LEMMA ReplaceParts ==
  ASSUME NEW d, d = [pool |-> d.pool, stack |-> d.stack, root |-> d.root], NEW h, NEW r
  PROVE  /\ [d EXCEPT !.pool = h] = [pool |-> h, stack |-> d.stack, root |-> d.root]
         /\ [d EXCEPT !.pool = h, !.root = r] = [pool |-> h, stack |-> d.stack, root |-> r]
<1>1. [d EXCEPT !.pool = h] = [pool |-> h, stack |-> d.stack, root |-> d.root]
  OBVIOUS
<1>2. [d EXCEPT !.pool = h, !.root = r] = [[d EXCEPT !.pool = h] EXCEPT !.root = r]
  OBVIOUS
<1> DEFINE g == [d EXCEPT !.pool = h]
<1> HIDE DEF g
<1>3. [g EXCEPT !.root = r] = [pool |-> h, stack |-> d.stack, root |-> r]
  <2>1. g = [pool |-> h, stack |-> d.stack, root |-> d.root]
    BY <1>1 DEF g
  <2> QED
    BY <2>1
<1> QED
  BY <1>1, <1>2, <1>3 DEF g

(* Another pool with the same stack in it, and another root. *)
LEMMA DocumentPool ==
  ASSUME NEW d, DocumentOK(d), NEW h, PoolSound(h),
         d.stack.at \in DOMAIN h.blocks, h.blocks[d.stack.at] = d.pool.blocks[d.stack.at], NEW r
  PROVE  /\ DocumentOK([pool |-> h, stack |-> d.stack, root |-> r])
         /\ [d EXCEPT !.pool = h] = [pool |-> h, stack |-> d.stack, root |-> d.root]
         /\ [d EXCEPT !.pool = h, !.root = r] = [pool |-> h, stack |-> d.stack, root |-> r]
<1> DEFINE g == [pool |-> h, stack |-> d.stack, root |-> r]
<1>1. d = [pool |-> d.pool, stack |-> d.stack, root |-> d.root]
  BY DEF DocumentOK
<1>2. g.pool = h /\ g.stack = d.stack /\ g.root = r /\ g = [pool |-> g.pool, stack |-> g.stack, root |-> g.root]
  OBVIOUS
<1> HIDE DEF g
<1>3. DocumentOK(g)
  BY <1>2 DEF DocumentOK
<1>4. /\ [d EXCEPT !.pool = h] = [pool |-> h, stack |-> d.stack, root |-> d.root]
      /\ [d EXCEPT !.pool = h, !.root = r] = [pool |-> h, stack |-> d.stack, root |-> r]
  BY <1>1, ReplaceParts
<1> QED
  BY <1>3, <1>4 DEF g

(* Another root. *)
LEMMA DocumentRoot ==
  ASSUME NEW d, DocumentOK(d), NEW r
  PROVE  DocumentOK([d EXCEPT !.root = r])
<1> DEFINE g == [d EXCEPT !.root = r]
<1>1. g = [pool |-> d.pool, stack |-> d.stack, root |-> r]
  BY DEF DocumentOK
<1> HIDE DEF g
<1>2. g.pool = d.pool /\ g.stack = d.stack /\ g.root = r
  BY <1>1
<1>3. DocumentOK(g)
  BY <1>1, <1>2 DEF DocumentOK
<1> QED
  BY <1>3 DEF g


(* What is less takes less room. *)
LEMMA LessRoom ==
  ASSUME NEW m \in Nat, NEW n \in Nat, m <= n
  PROVE  m * ValueSize \in Nat /\ m * ValueSize <= n * ValueSize
<1>1. ValueSize \in Nat
  BY SizesAssumption
<1>2. PICK k \in Nat : n = m + k
  <2>1. n - m \in Nat /\ n = m + (n - m)
    OBVIOUS
  <2> QED
    BY <2>1
<1>3. n * ValueSize = m * ValueSize + k * ValueSize
  BY <1>1, <1>2
<1>4. m * ValueSize \in Nat /\ k * ValueSize \in Nat
  BY <1>1
<1> QED
  BY <1>3, <1>4

(* A document whose stack has got its block from Realloc, larger or not.    *)
LEMMA StackGrows ==
  ASSUME NEW d, DocumentOK(d), NEW capacity \in Nat, capacity >= d.stack.capacity
  PROVE  LET m == Realloc(d.pool, d.stack.at, d.stack.capacity, capacity)
         IN  PoolSound(m.pool) /\ m.at \in DOMAIN m.pool.blocks /\ m.pool.blocks[m.at].size = capacity
<1>1. /\ PoolSound(d.pool) /\ d.stack.at \in DOMAIN d.pool.blocks
      /\ d.pool.blocks[d.stack.at].size = d.stack.capacity
  BY DEF DocumentOK
<1>2. d.stack.at # Null /\ d.stack.capacity \in Nat
  BY <1>1, BlockPlaces
<1>3. CASE capacity > d.stack.capacity
  <2> DEFINE m == Realloc(d.pool, d.stack.at, d.stack.capacity, capacity)
             h == d.pool
             p == d.stack.at
  <2>1. /\ PoolSound(m.pool) /\ m.at \in DOMAIN m.pool.blocks
        /\ m.pool.blocks[m.at] = [size |-> capacity, items |-> d.pool.blocks[d.stack.at].items]
    <3>1. PoolSound(h) /\ p \in DOMAIN h.blocks /\ p # Null /\ capacity > h.blocks[p].size
      BY <1>1, <1>2, <1>3
    <3>2. m = Realloc(h, p, h.blocks[p].size, capacity) /\ d.pool.blocks[d.stack.at].items = h.blocks[p].items
      BY <1>1
    <3> HIDE DEF h, p, m
    <3>3. LET x == Realloc(h, p, h.blocks[p].size, capacity)
          IN  /\ PoolSound(x.pool) /\ x.at \in DOMAIN x.pool.blocks
              /\ x.pool.blocks[x.at] = [size |-> capacity, items |-> h.blocks[p].items]
      BY <3>1, ReallocSound
    <3> QED
      BY <3>2, <3>3
  <2> HIDE DEF m
  <2>2. m.pool.blocks[m.at].size = capacity
    BY <2>1
  <2> QED
    BY <2>1, <2>2 DEF m
<1>4. CASE capacity = d.stack.capacity
  <2>1. Realloc(d.pool, d.stack.at, d.stack.capacity, capacity) = [at |-> d.stack.at, pool |-> d.pool]
    BY <1>2, <1>4 DEF Realloc
  <2> QED
    BY <1>1, <1>4, <2>1
<1>5. capacity > d.stack.capacity \/ capacity = d.stack.capacity
  BY <1>2
<1> QED
  BY <1>3, <1>4, <1>5

(* Push keeps the stack within its block, which grows in time.              *)
LEMMA PushOK ==
  ASSUME NEW d, DocumentOK(d), NEW v
  PROVE  DocumentOK(Push(d, v)) /\ Push(d, v).stack.size = d.stack.size + 1
<1> DEFINE needed == (d.stack.size + 1) * ValueSize
           capacity == IF needed < d.stack.capacity THEN d.stack.capacity
                       ELSE IF needed > 2 * d.stack.capacity THEN needed ELSE 2 * d.stack.capacity
           m == Realloc(d.pool, d.stack.at, d.stack.capacity, capacity)
           items == Append(StackItems(d), v)
           s == Store(m.pool, m.at, items)
           stack == [at |-> m.at, size |-> d.stack.size + 1, capacity |-> capacity]
           g == Push(d, v)
<1>1. /\ PoolSound(d.pool) /\ d.stack.at \in DOMAIN d.pool.blocks
      /\ d.pool.blocks[d.stack.at].size = d.stack.capacity /\ d.stack.size \in Nat
  BY DEF DocumentOK
<1>2. d.stack.capacity \in Nat \ {0} /\ needed \in Nat
  <2>1. d.stack.size + 1 \in Nat /\ d.stack.size + 1 <= d.stack.size + 1
    BY <1>1
  <2>2. needed \in Nat
    BY <2>1, LessRoom
  <2>3. d.pool.blocks[d.stack.at].size \in Nat \ {0}
    BY <1>1, BlockPlaces
  <2> QED
    BY <1>1, <2>2, <2>3
<1> HIDE DEF needed
<1>3. capacity \in Nat /\ capacity >= d.stack.capacity /\ needed <= capacity
  BY <1>2
<1> HIDE DEF capacity
<1>4. PoolSound(m.pool) /\ m.at \in DOMAIN m.pool.blocks /\ m.pool.blocks[m.at].size = capacity
  BY <1>3, StackGrows
<1> HIDE DEF m, items
<1>5. PoolSound(s) /\ m.at \in DOMAIN s.blocks /\ s.blocks[m.at] = [size |-> m.pool.blocks[m.at].size, items |-> items]
  BY <1>4, StoreSound
<1>6. g = [d EXCEPT !.pool = s, !.stack = stack]
  BY DEF Push, needed, capacity, m, items
<1> HIDE DEF s, g
<1>7. g = [pool |-> s, stack |-> stack, root |-> d.root]
  <2>1. d = [pool |-> d.pool, stack |-> d.stack, root |-> d.root]
    BY DEF DocumentOK
  <2> HIDE DEF stack
  <2> QED
    BY <1>6, <2>1
<1>8. stack.at = m.at /\ stack.size = d.stack.size + 1 /\ stack.capacity = capacity
  OBVIOUS
<1>9. s.blocks[m.at].size = capacity
  BY <1>4, <1>5
<1>10. stack = [at |-> stack.at, size |-> stack.size, capacity |-> stack.capacity]
  OBVIOUS
<1> HIDE DEF stack
<1>11. g.pool = s /\ g.stack = stack /\ g.root = d.root
  BY <1>7
<1>12. stack.size \in Nat /\ stack.size * ValueSize = needed
  BY <1>1, <1>8 DEF needed
<1>13. DocumentOK(g)
  BY <1>3, <1>5, <1>7, <1>8, <1>9, <1>10, <1>11, <1>12 DEF DocumentOK
<1> QED
  BY <1>8, <1>11, <1>13 DEF g

(* PopInto leaves a shorter stack. *)
LEMMA PopIntoOK ==
  ASSUME NEW d, DocumentOK(d), NEW n \in Nat, n <= d.stack.size, NEW v
  PROVE  DocumentOK(PopInto(d, n, v)) /\ PopInto(d, n, v).stack.size = d.stack.size - n
<1> DEFINE items == Append(SubSeq(StackItems(d), 1, d.stack.size - n - 1), v)
           s == Store(d.pool, d.stack.at, items)
           stack == [d.stack EXCEPT !.size = @ - n]
           g == PopInto(d, n, v)
<1>1. /\ PoolSound(d.pool) /\ d.stack.at \in DOMAIN d.pool.blocks
      /\ d.pool.blocks[d.stack.at].size = d.stack.capacity /\ d.stack.size \in Nat
      /\ d.stack.size * ValueSize <= d.stack.capacity
  BY DEF DocumentOK
<1> HIDE DEF items
<1>2. PoolSound(s) /\ d.stack.at \in DOMAIN s.blocks
      /\ s.blocks[d.stack.at] = [size |-> d.pool.blocks[d.stack.at].size, items |-> items]
  BY <1>1, StoreSound
<1>3. s.blocks[d.stack.at].size = d.stack.capacity
  BY <1>1, <1>2
<1>4. stack = [at |-> d.stack.at, size |-> d.stack.size - n, capacity |-> d.stack.capacity]
  BY DEF DocumentOK
<1>5. g = [d EXCEPT !.pool = s, !.stack.size = @ - n]
  BY DEF PopInto, items
<1> HIDE DEF s, g
<1>6. g = [pool |-> s, stack |-> stack, root |-> d.root]
  <2>1. d = [pool |-> d.pool, stack |-> d.stack, root |-> d.root]
    BY DEF DocumentOK
  <2> QED
    BY <1>5, <2>1
<1> HIDE DEF stack
<1>7. stack.at = d.stack.at /\ stack.size = d.stack.size - n /\ stack.capacity = d.stack.capacity
      /\ stack = [at |-> stack.at, size |-> stack.size, capacity |-> stack.capacity]
  BY <1>4
<1>8. g.pool = s /\ g.stack = stack /\ g.root = d.root
  BY <1>6
<1>9. d.stack.size - n \in Nat /\ d.stack.size - n <= d.stack.size
  BY <1>1
<1>10. (d.stack.size - n) * ValueSize <= d.stack.capacity
  <2>1. (d.stack.size - n) * ValueSize <= d.stack.size * ValueSize /\ (d.stack.size - n) * ValueSize \in Nat
        /\ d.stack.size * ValueSize \in Nat
    BY <1>1, <1>9, LessRoom
  <2>2. d.stack.capacity \in Nat
    BY <1>1, BlockPlaces
  <2> QED
    BY <1>1, <2>1, <2>2
<1>11. DocumentOK(g)
  BY <1>2, <1>3, <1>6, <1>7, <1>8, <1>9, <1>10 DEF DocumentOK
<1> QED
  BY <1>7, <1>8, <1>11 DEF g

(* A copied string is in a block of its own. *)
LEMMA NewStringKept ==
  ASSUME NEW h, PoolSound(h), NEW s \in Seq(Byte)
  PROVE  LET n == NewString(h, s)
         IN  /\ PoolSound(n.pool) /\ Kept(h, n.pool)
             /\ n.value = [type |-> "string", at |-> n.value.at, length |-> Len(s)]
             /\ n.value.at \in DOMAIN n.pool.blocks \ DOMAIN h.blocks
             /\ n.pool.blocks[n.value.at].items = Append(s, 0)
<1> DEFINE m == Malloc(h, Len(s) + 1, Append(s, 0))
           n == NewString(h, s)
<1>1. Len(s) + 1 \in Nat /\ Len(s) + 1 > 0
  OBVIOUS
<1>2. /\ PoolSound(m.pool) /\ Kept(h, m.pool)
      /\ m.at \in DOMAIN m.pool.blocks \ DOMAIN h.blocks
      /\ m.pool.blocks[m.at] = [size |-> Len(s) + 1, items |-> Append(s, 0)]
  <2> DEFINE items == Append(s, 0)
             l == Len(s) + 1
  <2> HIDE DEF items, l
  <2>1. LET x == Malloc(h, l, items)
        IN  /\ PoolSound(x.pool)
            /\ \A q \in DOMAIN h.blocks : q \in DOMAIN x.pool.blocks /\ x.pool.blocks[q] = h.blocks[q]
            /\ l > 0 => /\ x.at \in DOMAIN x.pool.blocks \ DOMAIN h.blocks
                        /\ x.pool.blocks[x.at] = [size |-> l, items |-> items]
    BY <1>1, MallocSound DEF l
  <2> QED
    BY <1>1, <2>1 DEF Kept, items, l
<1>3. n = [pool |-> m.pool, value |-> [type |-> "string", at |-> m.at, length |-> Len(s)]]
  BY DEF NewString
<1> HIDE DEF m, n
<1>4. n.pool = m.pool /\ n.value = [type |-> "string", at |-> m.at, length |-> Len(s)] /\ n.value.at = m.at
  BY <1>3
<1>5. m.pool.blocks[m.at].items = Append(s, 0)
  BY <1>2
<1> QED
  BY <1>2, <1>4, <1>5 DEF n

(* Whatever event the document handles. *)
LEMMA HandleOK ==
  ASSUME NEW d, DocumentOK(d), NEW e \in Event, CanHandle(d, e)
  PROVE  DocumentOK(Handle(d, e))
<1>1. PoolSound(d.pool) /\ d.stack.size \in Nat
  BY DEF DocumentOK
<1>2. CASE e \in [type : {"string"}, chars : Seq(Byte)]
  <2> DEFINE p == Push(d, NullValue)
             s == NewString(p.pool, e.chars)
             q == [p EXCEPT !.pool = s.pool]
  <2>1. DocumentOK(p) /\ PoolSound(p.pool) /\ p.stack.size = d.stack.size + 1
    BY PushOK DEF DocumentOK
  <2> HIDE DEF p
  <2>2. PoolSound(s.pool) /\ Kept(p.pool, s.pool)
    BY <1>2, <2>1, NewStringKept
  <2>3. DocumentOK(q) /\ q = [pool |-> s.pool, stack |-> p.stack, root |-> p.root]
    <3>1. p.stack.at \in DOMAIN s.pool.blocks /\ s.pool.blocks[p.stack.at] = p.pool.blocks[p.stack.at]
      BY <2>1, <2>2 DEF DocumentOK, Kept
    <3>2. DocumentOK([pool |-> s.pool, stack |-> p.stack, root |-> p.root])
          /\ [p EXCEPT !.pool = s.pool] = [pool |-> s.pool, stack |-> p.stack, root |-> p.root]
      BY <2>1, <2>2, <3>1, DocumentPool
    <3> QED
      BY <3>2
  <2>4. 0 <= q.stack.size
    BY <1>1, <2>1, <2>3
  <2>5. DocumentOK(PopInto(q, 0, s.value))
    BY <2>3, <2>4, PopIntoOK
  <2>6. Handle(d, e) = HandleString(d, e)
    BY <1>2 DEF Handle
  <2> QED
    BY <2>5, <2>6 DEF HandleString, p
<1>3. CASE e \in [type : {"start"}, kind : Kinds]
  <2>1. Handle(d, e) = Push(d, EmptyValue(e.kind))
    BY <1>3 DEF Handle
  <2> QED
    BY <2>1, PushOK
<1>4. CASE e \in [type : {"end"}, kind : Kinds, count : Nat]
  <2> DEFINE n == Held(e.kind, e.count)
             items == SubSeq(StackItems(d), d.stack.size - n + 1, d.stack.size)
             m == Malloc(d.pool, n * ValueSize, items)
             q == [d EXCEPT !.pool = m.pool]
             v == [type |-> e.kind, at |-> m.at, size |-> e.count, capacity |-> e.count]
  <2>1. n \in Nat /\ n < d.stack.size
    <3>1. e.type = "end" /\ e.count \in Nat
      BY <1>4
    <3>2. n \in Nat
      BY <3>1 DEF Held
    <3>3. d.stack.size > n
      BY <3>1 DEF CanHandle
    <3> QED
      BY <1>1, <3>2, <3>3
  <2> HIDE DEF n, items
  <2>2. n * ValueSize \in Nat
    BY <2>1, LessRoom
  <2>3. PoolSound(m.pool) /\ Kept(d.pool, m.pool)
    BY <1>1, <2>2, MallocSound DEF Kept
  <2> HIDE DEF m
  <2>4. DocumentOK(q) /\ q = [pool |-> m.pool, stack |-> d.stack, root |-> d.root]
    <3>1. d.stack.at \in DOMAIN m.pool.blocks /\ m.pool.blocks[d.stack.at] = d.pool.blocks[d.stack.at]
      BY <2>3 DEF DocumentOK, Kept
    <3>2. DocumentOK([pool |-> m.pool, stack |-> d.stack, root |-> d.root])
          /\ [d EXCEPT !.pool = m.pool] = [pool |-> m.pool, stack |-> d.stack, root |-> d.root]
      BY <2>3, <3>1, DocumentPool
    <3> QED
      BY <3>2
  <2>5. n <= q.stack.size
    BY <1>1, <2>1, <2>4
  <2> HIDE DEF q, v
  <2>6. DocumentOK(PopInto(q, n, v))
    BY <2>1, <2>4, <2>5, PopIntoOK
  <2>7. Handle(d, e) = HandleEnd(d, e)
    BY <1>4 DEF Handle
  <2> QED
    BY <2>6, <2>7 DEF HandleEnd, n, items, m, q, v
<1> QED
  BY <1>2, <1>3, <1>4 DEF Event

(* The stack is emptied. *)
LEMMA ClearStackOK ==
  ASSUME NEW d, DocumentOK(d)
  PROVE  DocumentOK(ClearStack(d))
<1> DEFINE g == ClearStack(d)
           stack == [d.stack EXCEPT !.size = 0]
<1>1. stack = [at |-> d.stack.at, size |-> 0, capacity |-> d.stack.capacity]
  BY DEF DocumentOK
<1>2. g = [d EXCEPT !.stack.size = 0]
  BY DEF ClearStack
<1> HIDE DEF g
<1>3. g = [pool |-> d.pool, stack |-> stack, root |-> d.root]
  <2>1. d = [pool |-> d.pool, stack |-> d.stack, root |-> d.root]
    BY DEF DocumentOK
  <2> QED
    BY <1>2, <2>1
<1> HIDE DEF stack
<1>4. g.pool = d.pool /\ g.stack = stack /\ g.root = d.root
  BY <1>3
<1>5. stack.at = d.stack.at /\ stack.size = 0 /\ stack.capacity = d.stack.capacity
      /\ stack = [at |-> stack.at, size |-> stack.size, capacity |-> stack.capacity]
  BY <1>1
<1>6. 0 * ValueSize <= d.stack.capacity
  <2>1. d.stack.capacity \in Nat
    BY BlockPlaces DEF DocumentOK
  <2> QED
    BY <2>1, SizesAssumption
<1>7. DocumentOK(g)
  BY <1>3, <1>4, <1>5, <1>6 DEF DocumentOK
<1> QED
  BY <1>7 DEF g

-----------------------------------------------------------------------------
(* A growing array: its elements are in a block of its capacity. *)
ArrayIn(h, a) ==
  /\ a = [type |-> "array", at |-> a.at, size |-> a.size, capacity |-> a.capacity]
  /\ a.size \in Nat /\ a.capacity \in Nat /\ a.size <= a.capacity
  /\ a.capacity = 0 => a.at = Null
  /\ a.capacity > 0 => a.at \in DOMAIN h.blocks /\ h.blocks[a.at].size = a.capacity * ValueSize

(* Other places for the same elements. *)
LEMMA ReplacePlace ==
  ASSUME NEW a, a = [type |-> "array", at |-> a.at, size |-> a.size, capacity |-> a.capacity],
         NEW at, NEW capacity
  PROVE  [a EXCEPT !.at = at, !.capacity = capacity]
           = [type |-> "array", at |-> at, size |-> a.size, capacity |-> capacity]
<1>1. [a EXCEPT !.at = at, !.capacity = capacity] = [[a EXCEPT !.at = at] EXCEPT !.capacity = capacity]
  OBVIOUS
<1> DEFINE b == [a EXCEPT !.at = at]
<1>2. b = [type |-> "array", at |-> at, size |-> a.size, capacity |-> a.capacity]
  OBVIOUS
<1> HIDE DEF b
<1>3. [b EXCEPT !.capacity = capacity] = [type |-> "array", at |-> at, size |-> a.size, capacity |-> capacity]
  BY <1>2
<1> QED
  BY <1>1, <1>3 DEF b

(* Reserve: an array that is full gets a larger block with its elements;    *)
(* the other blocks stay.                                                   *)
LEMMA ReserveKept ==
  ASSUME NEW h, PoolSound(h), NEW a, ArrayIn(h, a)
  PROVE  LET r == Reserve(h, a)
         IN  /\ PoolSound(r.pool) /\ ArrayIn(r.pool, r.array)
             /\ r.array.size = a.size /\ r.array.size < r.array.capacity
             /\ Items(r.pool, r.array.at) = Items(h, a.at)
             /\ \A q \in DOMAIN h.blocks \ {a.at} :
                  q # r.array.at /\ q \in DOMAIN r.pool.blocks /\ r.pool.blocks[q] = h.blocks[q]
<1> DEFINE capacity == IF a.capacity = 0 THEN DefaultArrayCapacity ELSE 2 * a.capacity
           old == a.capacity * ValueSize
           new == capacity * ValueSize
           m == Realloc(h, a.at, old, new)
           r == Reserve(h, a)
<1>1. /\ a = [type |-> "array", at |-> a.at, size |-> a.size, capacity |-> a.capacity]
      /\ a.size \in Nat /\ a.capacity \in Nat /\ a.size <= a.capacity
  BY DEF ArrayIn
<1>2. CASE ~Full(a)
  <2>1. r = [pool |-> h, array |-> a]
    BY <1>2 DEF Reserve
  <2>2. a.size < a.capacity
    BY <1>1, <1>2 DEF Full
  <2> HIDE DEF r
  <2>3. r.pool = h /\ r.array = a
    BY <2>1
  <2>4. a.capacity > 0
    BY <1>1, <2>2
  <2> QED
    BY <1>1, <2>2, <2>3, <2>4 DEF r
<1>3. CASE Full(a)
  <2>1. a.size = a.capacity
    BY <1>1, <1>3 DEF Full
  <2>2. capacity \in Nat /\ capacity > a.capacity
    BY <1>1, SizesAssumption
  <2>3. new \in Nat /\ old \in Nat /\ new > old
    <3>1. a.capacity + 1 <= capacity /\ a.capacity + 1 \in Nat /\ capacity <= capacity
      BY <1>1, <2>2
    <3>2. (a.capacity + 1) * ValueSize <= new /\ new \in Nat
      BY <2>2, <3>1, LessRoom
    <3>3. (a.capacity + 1) * ValueSize = old + ValueSize /\ old \in Nat /\ ValueSize \in Nat \ {0}
      BY <1>1, SizesAssumption
    <3> QED
      BY <3>2, <3>3
  <2> HIDE DEF capacity, old, new
  <2>4. /\ PoolSound(m.pool) /\ m.at \in DOMAIN m.pool.blocks
        /\ m.pool.blocks[m.at] = [size |-> new, items |-> Items(h, a.at)]
        /\ \A q \in DOMAIN h.blocks \ {a.at} :
             q # m.at /\ q \in DOMAIN m.pool.blocks /\ m.pool.blocks[q] = h.blocks[q]
    <3>1. CASE a.capacity = 0
      <4>1. a.at = Null
        BY <3>1 DEF ArrayIn
      <4>2. a.at \notin DOMAIN h.blocks
        BY <4>1, BlockPlaces
      <4>3. m = Malloc(h, new, <<>>) /\ Items(h, a.at) = <<>>
        BY <4>1, <4>2 DEF Realloc, Items
      <4>4. new > 0
        BY <2>3
      <4> HIDE DEF m
      <4>5. LET x == Malloc(h, new, <<>>)
            IN  /\ PoolSound(x.pool)
                /\ \A q \in DOMAIN h.blocks : q \in DOMAIN x.pool.blocks /\ x.pool.blocks[q] = h.blocks[q]
                /\ x.at \in DOMAIN x.pool.blocks \ DOMAIN h.blocks
                /\ x.pool.blocks[x.at] = [size |-> new, items |-> <<>>]
        BY <2>3, <4>4, MallocSound
      <4> QED
        BY <4>3, <4>5
    <3>2. CASE a.capacity > 0
      <4>1. a.at \in DOMAIN h.blocks /\ h.blocks[a.at].size = old
        BY <3>2 DEF ArrayIn, old
      <4>2. a.at # Null
        BY <4>1, BlockPlaces
      <4>3. m = Realloc(h, a.at, h.blocks[a.at].size, new) /\ Items(h, a.at) = h.blocks[a.at].items
        BY <4>1 DEF Items
      <4>4. new > h.blocks[a.at].size
        BY <2>3, <4>1
      <4> DEFINE p == a.at
      <4>5. p \in DOMAIN h.blocks /\ p # Null /\ new > h.blocks[p].size
        BY <4>1, <4>2, <4>4
      <4>6. m = Realloc(h, p, h.blocks[p].size, new) /\ Items(h, a.at) = h.blocks[p].items
        BY <4>3
      <4> HIDE DEF m, p
      <4>7. LET x == Realloc(h, p, h.blocks[p].size, new)
            IN  /\ PoolSound(x.pool) /\ x.at \in DOMAIN x.pool.blocks
                /\ x.pool.blocks[x.at] = [size |-> new, items |-> h.blocks[p].items]
                /\ \A q \in DOMAIN h.blocks \ {p} :
                     q # x.at /\ q \in DOMAIN x.pool.blocks /\ x.pool.blocks[q] = h.blocks[q]
        BY <2>3, <4>5, ReallocSound
      <4> QED
        BY <4>6, <4>7 DEF p
    <3> QED
      BY <1>1, <3>1, <3>2
  <2>5. r = [pool |-> m.pool, array |-> [a EXCEPT !.at = m.at, !.capacity = capacity]]
    BY <1>3 DEF Reserve, capacity, old, new
  <2> HIDE DEF m, r
  <2>6. r.pool = m.pool /\ r.array = [type |-> "array", at |-> m.at, size |-> a.size, capacity |-> capacity]
    <3>1. [a EXCEPT !.at = m.at, !.capacity = capacity]
            = [type |-> "array", at |-> m.at, size |-> a.size, capacity |-> capacity]
      BY <1>1, ReplacePlace
    <3> QED
      BY <2>5, <3>1
  <2>7. r.array.at = m.at /\ r.array.size = a.size /\ r.array.capacity = capacity
        /\ r.array = [type |-> "array", at |-> r.array.at, size |-> r.array.size, capacity |-> r.array.capacity]
    BY <2>6
  <2>8. m.pool.blocks[m.at].size = new /\ Items(m.pool, m.at) = Items(h, a.at)
    BY <2>4 DEF Items
  <2>9. capacity # 0 /\ a.size < capacity
    BY <1>1, <2>1, <2>2
  <2>10. ArrayIn(r.pool, r.array)
    <3>1. new = capacity * ValueSize
      BY DEF new
    <3> QED
      BY <1>1, <2>2, <2>4, <2>6, <2>7, <2>8, <2>9, <3>1 DEF ArrayIn
  <2> QED
    BY <2>4, <2>6, <2>7, <2>8, <2>9, <2>10 DEF r
<1> QED
  BY <1>2, <1>3

(* The first n elements of s with one more behind them. *)
With(s, n, v) == Append(SubSeq(s, 1, n), v)

(* PushBack: one element more, behind those the array had. *)
LEMMA PushBackKept ==
  ASSUME NEW h, PoolSound(h), NEW a, ArrayIn(h, a), NEW v
  PROVE  LET p == PushBack(h, a, v)
         IN  /\ PoolSound(p.pool) /\ ArrayIn(p.pool, p.array)
             /\ p.array.size = a.size + 1
             /\ Items(p.pool, p.array.at) = With(Items(h, a.at), a.size, v)
             /\ \A q \in DOMAIN h.blocks \ {a.at} :
                  q # p.array.at /\ q \in DOMAIN p.pool.blocks /\ p.pool.blocks[q] = h.blocks[q]
<1> DEFINE r == Reserve(h, a)
           items == Append(SubSeq(Items(r.pool, r.array.at), 1, a.size), v)
           s == Store(r.pool, r.array.at, items)
           b == [r.array EXCEPT !.size = @ + 1]
           p == PushBack(h, a, v)
<1>1. /\ PoolSound(r.pool) /\ ArrayIn(r.pool, r.array)
      /\ r.array.size = a.size /\ r.array.size < r.array.capacity
      /\ Items(r.pool, r.array.at) = Items(h, a.at)
      /\ \A q \in DOMAIN h.blocks \ {a.at} :
           q # r.array.at /\ q \in DOMAIN r.pool.blocks /\ r.pool.blocks[q] = h.blocks[q]
  BY ReserveKept
<1>2. p = [pool |-> s, array |-> b]
  BY DEF PushBack
<1> HIDE DEF r, items, p
<1>3. /\ r.array = [type |-> "array", at |-> r.array.at, size |-> r.array.size, capacity |-> r.array.capacity]
      /\ r.array.size \in Nat /\ r.array.capacity \in Nat
  BY <1>1 DEF ArrayIn
<1>4. r.array.capacity > 0
  BY <1>1, <1>3
<1>5. r.array.at \in DOMAIN r.pool.blocks /\ r.pool.blocks[r.array.at].size = r.array.capacity * ValueSize
  BY <1>1, <1>4 DEF ArrayIn
<1>6. /\ PoolSound(s) /\ DOMAIN s.blocks = DOMAIN r.pool.blocks
      /\ s.blocks[r.array.at] = [size |-> r.pool.blocks[r.array.at].size, items |-> items]
      /\ \A q \in DOMAIN r.pool.blocks \ {r.array.at} : s.blocks[q] = r.pool.blocks[q]
  BY <1>1, <1>5, StoreSound
<1> HIDE DEF s
<1>7. b = [type |-> "array", at |-> r.array.at, size |-> r.array.size + 1, capacity |-> r.array.capacity]
  BY <1>3
<1> HIDE DEF b
<1>8. b.at = r.array.at /\ b.size = r.array.size + 1 /\ b.capacity = r.array.capacity
      /\ b = [type |-> "array", at |-> b.at, size |-> b.size, capacity |-> b.capacity]
  BY <1>7
<1>9. s.blocks[b.at].size = b.capacity * ValueSize /\ s.blocks[b.at].items = items
  BY <1>5, <1>6, <1>8
<1>10. b.size \in Nat /\ b.size <= b.capacity /\ b.capacity \in Nat /\ b.capacity # 0
  BY <1>1, <1>3, <1>8
<1>11. ArrayIn(s, b)
  BY <1>5, <1>6, <1>8, <1>9, <1>10 DEF ArrayIn
<1>12. Items(s, b.at) = items
  BY <1>5, <1>6, <1>8, <1>9 DEF Items
<1>13. items = With(Items(h, a.at), a.size, v)
  BY <1>1 DEF items, With
<1>14. p.pool = s /\ p.array = b
  BY <1>2
<1>15. \A q \in DOMAIN h.blocks \ {a.at} : q # b.at /\ q \in DOMAIN s.blocks /\ s.blocks[q] = h.blocks[q]
  BY <1>1, <1>6, <1>8
<1> QED
  BY <1>1, <1>6, <1>8, <1>11, <1>12, <1>13, <1>14, <1>15 DEF p

-----------------------------------------------------------------------------
Strings == [type : {"string"}, at : Nat \X Nat, length : Nat]

(* The elements of the array are the records so far, copied to blocks that  *)
(* hold them still.                                                         *)
ElementsKept(h, a) ==
  /\ Items(h, a.at) \in Seq(Strings)
  /\ Len(Items(h, a.at)) = a.size
  /\ \A i \in 1..a.size :
       /\ Items(h, a.at)[i].length = Len(records[i])
       /\ Items(h, a.at)[i].at \in DOMAIN h.blocks \ {a.at}
       /\ h.blocks[Items(h, a.at)[i].at].items = Append(records[i], 0)

(* The inductive invariant: the documents keep their stacks, and the array  *)
(* that is being filled keeps its elements, each in blocks of their own.    *)
BodyInv ==
  /\ DocumentOK(server) /\ DocumentOK(client)
  /\ ArrayIn(server.pool, array) /\ ElementsKept(server.pool, array)
  /\ array.at # server.stack.at
  /\ phase = "built" => Holds(server, records)

TypeInv ==
  /\ handler \in Handlers
  /\ records \in Replies
  /\ phase \in {"building", "built", "sent", "parsing", "accepted", "refused", "aborted"}
  /\ array.size \in 0..Len(records)
  /\ reads \in 0..MaxReads

(* The array stays as it is while other blocks are added to the pool. *)
LEMMA ArrayKept ==
  ASSUME NEW h, PoolSound(h), NEW g, PoolSound(g), Kept(h, g), NEW a, ArrayIn(h, a), ElementsKept(h, a)
  PROVE  ArrayIn(g, a) /\ ElementsKept(g, a) /\ Items(g, a.at) = Items(h, a.at)
<1>1. Items(g, a.at) = Items(h, a.at)
  <2>1. CASE a.capacity = 0
    <3>1. a.at = Null
      BY <2>1 DEF ArrayIn
    <3>2. a.at \notin DOMAIN h.blocks /\ a.at \notin DOMAIN g.blocks
      BY <3>1, BlockPlaces
    <3> QED
      BY <3>2 DEF Items
  <2>2. CASE a.capacity # 0
    <3>1. a.at \in DOMAIN h.blocks
      BY <2>2 DEF ArrayIn
    <3> QED
      BY <3>1 DEF Items, Kept
  <2> QED
    BY <2>1, <2>2
<1>2. ArrayIn(g, a)
  BY DEF ArrayIn, Kept
<1>3. ElementsKept(g, a)
  <2>1. ASSUME NEW i \in 1..a.size
        PROVE  /\ Items(g, a.at)[i].length = Len(records[i])
               /\ Items(g, a.at)[i].at \in DOMAIN g.blocks \ {a.at}
               /\ g.blocks[Items(g, a.at)[i].at].items = Append(records[i], 0)
    BY <1>1, <2>1 DEF ElementsKept, Kept
  <2> QED
    BY <1>1, <2>1 DEF ElementsKept
<1> QED
  BY <1>1, <1>2, <1>3

(* One round of the loop: the array has the next record as well. *)
LEMMA RecordAdded ==
  ASSUME NEW h, PoolSound(h), NEW a, ArrayIn(h, a), ElementsKept(h, a),
         records \in Seq(Seq(Byte)), a.size < Len(records)
  PROVE  LET s == NewString(h, records[a.size + 1])
             p == PushBack(s.pool, a, s.value)
         IN  /\ PoolSound(p.pool) /\ ArrayIn(p.pool, p.array) /\ ElementsKept(p.pool, p.array)
             /\ p.array.size = a.size + 1
             /\ \A q \in DOMAIN h.blocks \ {a.at} :
                  q # p.array.at /\ q \in DOMAIN p.pool.blocks /\ p.pool.blocks[q] = h.blocks[q]
<1> DEFINE next == records[a.size + 1]
           s == NewString(h, next)
           p == PushBack(s.pool, a, s.value)
           items == Items(h, a.at)
           new == Items(p.pool, p.array.at)
<1>1. a.size \in Nat /\ next \in Seq(Byte) /\ Len(next) \in Nat
  BY DEF ArrayIn
<1> HIDE DEF next
<1>2. /\ PoolSound(s.pool) /\ Kept(h, s.pool)
      /\ s.value = [type |-> "string", at |-> s.value.at, length |-> Len(next)]
      /\ s.value.at \in DOMAIN s.pool.blocks \ DOMAIN h.blocks
      /\ s.pool.blocks[s.value.at].items = Append(next, 0)
  BY <1>1, NewStringKept
<1> HIDE DEF s
<1>3. ArrayIn(s.pool, a) /\ Items(s.pool, a.at) = items
  BY <1>2, ArrayKept
<1>4. /\ PoolSound(p.pool) /\ ArrayIn(p.pool, p.array) /\ p.array.size = a.size + 1
      /\ new = With(items, a.size, s.value)
      /\ \A q \in DOMAIN s.pool.blocks \ {a.at} :
           q # p.array.at /\ q \in DOMAIN p.pool.blocks /\ p.pool.blocks[q] = s.pool.blocks[q]
  <2>1. PoolSound(s.pool)
    BY <1>2
  <2>2. p = PushBack(s.pool, a, s.value)
    OBVIOUS
  <2> HIDE DEF p
  <2>3. /\ PoolSound(p.pool) /\ ArrayIn(p.pool, p.array) /\ p.array.size = a.size + 1
        /\ Items(p.pool, p.array.at) = With(Items(s.pool, a.at), a.size, s.value)
        /\ \A q \in DOMAIN s.pool.blocks \ {a.at} :
             q # p.array.at /\ q \in DOMAIN p.pool.blocks /\ p.pool.blocks[q] = s.pool.blocks[q]
    BY <1>3, <2>1, <2>2, PushBackKept
  <2> QED
    BY <1>3, <2>3
<1>5. \A q \in DOMAIN h.blocks \ {a.at} :
        q # p.array.at /\ q \in DOMAIN p.pool.blocks /\ p.pool.blocks[q] = h.blocks[q]
  BY <1>2, <1>4 DEF Kept
<1>6. s.value.at # a.at /\ s.value \in Strings
  <2>1. s.value.at # Null /\ s.value.at \in Nat \X Nat
    BY <1>2, BlockPlaces
  <2>2. a.at = Null \/ a.at \in DOMAIN h.blocks
    BY DEF ArrayIn
  <2>3. s.value.at # a.at
    BY <1>2, <2>1, <2>2
  <2>4. s.value \in Strings
    <3>1. \A x \in Nat \X Nat : \A l \in Nat : [type |-> "string", at |-> x, length |-> l] \in Strings
      BY DEF Strings
    <3> QED
      BY <1>1, <1>2, <2>1, <3>1
  <2> QED
    BY <2>3, <2>4
<1>7. items \in Seq(Strings) /\ Len(items) = a.size
  BY DEF ElementsKept
<1> HIDE DEF p, items, new
<1>8. new = Append(items, s.value)
  BY <1>4, <1>7, SubSeqFull DEF With
<1>9. /\ new \in Seq(Strings) /\ Len(new) = a.size + 1
      /\ \A i \in 1..a.size : new[i] = items[i]
      /\ new[a.size + 1] = s.value
  BY <1>6, <1>7, <1>8, AppendProperties
<1>10. ASSUME NEW i \in 1..(a.size + 1)
       PROVE  /\ new[i].length = Len(records[i])
              /\ new[i].at \in DOMAIN p.pool.blocks \ {p.array.at}
              /\ p.pool.blocks[new[i].at].items = Append(records[i], 0)
  <2>1. CASE i = a.size + 1
    <3>1. new[i] = s.value /\ records[i] = next
      BY <1>9, <2>1 DEF next
    <3>2. s.value.length = Len(next) /\ s.value.at \in DOMAIN s.pool.blocks \ {a.at}
      BY <1>2, <1>6
    <3>3. s.value.at # p.array.at /\ s.value.at \in DOMAIN p.pool.blocks
          /\ p.pool.blocks[s.value.at] = s.pool.blocks[s.value.at]
      BY <1>4, <3>2
    <3> QED
      BY <1>2, <3>1, <3>2, <3>3
  <2>2. CASE i # a.size + 1
    <3>1. i \in 1..a.size /\ new[i] = items[i]
      BY <1>1, <1>9, <2>2
    <3>2. /\ items[i].length = Len(records[i])
          /\ items[i].at \in DOMAIN h.blocks \ {a.at}
          /\ h.blocks[items[i].at].items = Append(records[i], 0)
      BY <3>1 DEF ElementsKept, items
    <3>3. items[i].at # p.array.at /\ items[i].at \in DOMAIN p.pool.blocks
          /\ p.pool.blocks[items[i].at] = h.blocks[items[i].at]
      BY <1>5, <3>2
    <3> QED
      BY <3>1, <3>2, <3>3
  <2> QED
    BY <2>1, <2>2
<1>11. ElementsKept(p.pool, p.array)
  BY <1>4, <1>9, <1>10 DEF ElementsKept, new
<1> QED
  BY <1>4, <1>5, <1>11 DEF p, s, next

(* A reply starts with two empty documents and an empty array. *)
LEMMA InitBody == Init => TypeInv /\ BodyInv
<1> SUFFICES ASSUME Init PROVE TypeInv /\ BodyInv
  OBVIOUS
<1>1. DocumentOK(server) /\ DocumentOK(client)
  BY NewDocumentOK DEF Init
<1>2. records \in Seq(Seq(Byte)) /\ MaxReads \in Nat
  BY RepliesAssumption DEF Init
<1>3. /\ array = [type |-> "array", at |-> Null, size |-> 0, capacity |-> 0]
      /\ array.at = Null /\ array.size = 0 /\ array.capacity = 0
  BY DEF Init, EmptyValue
<1>4. Null \notin DOMAIN server.pool.blocks /\ server.stack.at # Null
  BY <1>1, BlockPlaces DEF DocumentOK
<1>5. Items(server.pool, array.at) = <<>>
  BY <1>3, <1>4 DEF Items
<1>6. ArrayIn(server.pool, array)
  BY <1>3 DEF ArrayIn
<1>7. ElementsKept(server.pool, array)
  <2>1. <<>> \in Seq(Strings) /\ Len(<<>>) = 0 /\ 1..0 = {}
    OBVIOUS
  <2> QED
    BY <1>3, <1>5, <2>1 DEF ElementsKept
<1>8. TypeInv
  <2>1. 0 \in 0..Len(records) /\ 0 \in 0..MaxReads
    BY <1>2
  <2> QED
    BY <1>3, <2>1 DEF TypeInv, Init
<1> QED
  BY <1>1, <1>3, <1>4, <1>6, <1>7, <1>8 DEF BodyInv, Init


(* What is read back from the array is the records so far. *)
LEMMA ElementsRead ==
  ASSUME NEW h, PoolSound(h), NEW a, ArrayIn(h, a), ElementsKept(h, a),
         records \in Seq(Seq(Byte)), a.size <= Len(records)
  PROVE  ReadBack(h, a) = SubSeq(records, 1, a.size)
<1> DEFINE n == a.size
           items == Items(h, a.at)
<1>1. n \in Nat /\ n <= Len(records) /\ a.type = "array"
  BY DEF ArrayIn
<1>2. /\ items \in Seq(Strings) /\ Len(items) = n
      /\ \A i \in 1..n : /\ items[i].length = Len(records[i])
                         /\ items[i].at \in DOMAIN h.blocks
                         /\ h.blocks[items[i].at].items = Append(records[i], 0)
  BY <1>1 DEF ElementsKept
<1>3. Values(h, a) = items
  <2>1. Held(a.type, a.size) = n
    BY <1>1 DEF Held
  <2>2. SubSeq(items, 1, n) = items
    BY <1>2, SubSeqFull
  <2> QED
    BY <2>1, <2>2 DEF Values
<1> HIDE DEF items
<1>4. ASSUME NEW i \in 1..n
      PROVE  Chars(h, items[i]) = records[i]
  <2> DEFINE v == items[i]
             r == records[i]
  <2>1. r \in Seq(Byte) /\ Len(r) \in Nat
    BY <1>1
  <2>2. v.at # Literal /\ Items(h, v.at) = Append(r, 0) /\ v.length = Len(r)
    BY <1>1, <1>2, BlockPlaces DEF Items
  <2> HIDE DEF v, r
  <2>3. SubSeq(Append(r, 0), 1, Len(r)) = r
    BY <2>1, AppendProperties, SubSeqProperties, SeqEqual
  <2>4. Chars(h, v) = r
    BY <2>2, <2>3 DEF Chars
  <2> QED
    BY <2>4 DEF v, r
<1> DEFINE read == [i \in 1..n |-> Chars(h, items[i])]
           s == SubSeq(records, 1, n)
<1>5. ReadBack(h, a) = read
  BY <1>3 DEF ReadBack
<1>6. read = s
  <2>1. s \in Seq(Seq(Byte)) /\ Len(s) = n /\ \A i \in 1..n : s[i] = records[i]
    BY <1>1, SubSeqProperties
  <2>2. s = [i \in 1..n |-> s[i]]
    BY <1>1, <2>1
  <2> HIDE DEF s
  <2> QED
    BY <1>4, <2>1, <2>2
<1> QED
  BY <1>5, <1>6

(* One round of the loop over the records.                                  *)
LEMMA AddRecordKeeps ==
  ASSUME TypeInv, BodyInv, AddRecord
  PROVE  TypeInv' /\ BodyInv'
<1> DEFINE h == server.pool
           s == NewString(h, records[array.size + 1])
           p == PushBack(s.pool, array, s.value)
<1>1. records \in Seq(Seq(Byte)) /\ array.size < Len(records) /\ array.size \in Nat
  BY RepliesAssumption DEF TypeInv, AddRecord, BodyInv, ArrayIn
<1>2. /\ DocumentOK(server) /\ PoolSound(h) /\ server.stack.at \in DOMAIN h.blocks \ {array.at}
      /\ ArrayIn(h, array) /\ ElementsKept(h, array)
  BY DEF BodyInv, DocumentOK
<1>3. server' = [server EXCEPT !.pool = p.pool] /\ array' = p.array
      /\ UNCHANGED <<handler, records, phase, client, reads>>
  BY DEF AddRecord
<1>4. /\ PoolSound(p.pool) /\ ArrayIn(p.pool, p.array) /\ ElementsKept(p.pool, p.array)
      /\ p.array.size = array.size + 1
      /\ \A q \in DOMAIN h.blocks \ {array.at} :
           q # p.array.at /\ q \in DOMAIN p.pool.blocks /\ p.pool.blocks[q] = h.blocks[q]
  BY <1>1, <1>2, RecordAdded
<1> HIDE DEF h, p
<1>5. /\ server.stack.at # p.array.at /\ server.stack.at \in DOMAIN p.pool.blocks
      /\ p.pool.blocks[server.stack.at] = server.pool.blocks[server.stack.at]
  BY <1>2, <1>4 DEF h
<1>6. DocumentOK([pool |-> p.pool, stack |-> server.stack, root |-> server.root])
      /\ [server EXCEPT !.pool = p.pool] = [pool |-> p.pool, stack |-> server.stack, root |-> server.root]
  BY <1>2, <1>4, <1>5, DocumentPool
<1>7. DocumentOK(server') /\ server'.pool = p.pool /\ server'.stack = server.stack
  BY <1>3, <1>6
<1>8. DocumentOK(client')
  BY <1>3 DEF BodyInv
<1>9. ElementsKept(server.pool, array)'
  <2>1. server'.pool = p.pool /\ array' = p.array /\ records' = records
    BY <1>3, <1>7
  <2> QED
    BY <1>4, <2>1 DEF ElementsKept
<1>10. TypeInv'
  <2>1. array'.size \in 0..Len(records)
    BY <1>1, <1>3, <1>4
  <2> QED
    BY <1>3, <2>1 DEF TypeInv
<1> QED
  BY <1>3, <1>4, <1>5, <1>7, <1>8, <1>9, <1>10 DEF BodyInv, ArrayIn, AddRecord

(* Two are all of a pair. *)
LEMMA PairFull ==
  ASSUME NEW x, NEW y
  PROVE  SubSeq(<<x, y>>, 1, 2) = <<x, y>>
<1>1. <<x, y>> \in Seq({x, y}) /\ Len(<<x, y>>) = 2
  OBVIOUS
<1> DEFINE s == <<x, y>>
<1> HIDE DEF s
<1>2. SubSeq(s, 1, Len(s)) = s
  BY <1>1, SubSeqFull DEF s
<1> QED
  BY <1>1, <1>2 DEF s

(* The array becomes the member of the root, in a block of its own.         *)
LEMMA AddMemberKeeps ==
  ASSUME TypeInv, BodyInv, AddMember
  PROVE  TypeInv' /\ BodyInv'
<1> DEFINE h == server.pool
           n == DefaultObjectCapacity * 2 * ValueSize
           items == <<[type |-> "string", at |-> Literal, length |-> Len(Name)], array>>
           m == Malloc(h, n, items)
           root == [type |-> "object", at |-> m.at, size |-> 1, capacity |-> DefaultObjectCapacity]
<1>1. /\ DocumentOK(server) /\ PoolSound(h) /\ server.stack.at \in DOMAIN h.blocks
      /\ ArrayIn(h, array) /\ ElementsKept(h, array)
  BY DEF BodyInv, DocumentOK
<1>2. n \in Nat /\ n > 0
  <2>1. DefaultObjectCapacity * 2 \in Nat \ {0}
    BY SizesAssumption
  <2> QED
    BY <2>1, SizesAssumption
<1>3. /\ server' = [server EXCEPT !.pool = m.pool, !.root = root] /\ phase' = "built"
      /\ UNCHANGED <<handler, records, array, client, reads>>
  BY DEF AddMember
<1> HIDE DEF n, items, root
<1>4. /\ PoolSound(m.pool) /\ Kept(h, m.pool)
      /\ m.at \in DOMAIN m.pool.blocks /\ m.pool.blocks[m.at] = [size |-> n, items |-> items]
  BY <1>1, <1>2, MallocSound DEF Kept
<1> HIDE DEF h, m
<1>5. DocumentOK([pool |-> m.pool, stack |-> server.stack, root |-> root])
      /\ [server EXCEPT !.pool = m.pool, !.root = root] = [pool |-> m.pool, stack |-> server.stack, root |-> root]
  <2>1. server.stack.at \in DOMAIN m.pool.blocks /\ m.pool.blocks[server.stack.at] = server.pool.blocks[server.stack.at]
    BY <1>1, <1>4 DEF Kept, h
  <2> QED
    BY <1>1, <1>4, <2>1, DocumentPool
<1>6. DocumentOK(server') /\ server'.pool = m.pool /\ server'.stack = server.stack /\ server'.root = root
  BY <1>3, <1>5
<1>7. ArrayIn(m.pool, array) /\ ElementsKept(m.pool, array)
  BY <1>1, <1>4, ArrayKept
<1>8. ArrayIn(server.pool, array)'
  BY <1>3, <1>6, <1>7 DEF ArrayIn
<1>9. ElementsKept(server.pool, array)'
  BY <1>3, <1>6, <1>7 DEF ElementsKept
<1>10. TypeInv'
  BY <1>3 DEF TypeInv
<1>11. Holds(server', records')
  <2>1. root.type = "object" /\ root.size = 1 /\ root.at = m.at
    BY DEF root
  <2>2. Items(m.pool, m.at) = items
    BY <1>4 DEF Items
  <2>3. Values(m.pool, root) = items
    <3>1. Held(root.type, root.size) = 2
      BY <2>1 DEF Held
    <3>2. SubSeq(items, 1, 2) = items
      BY PairFull DEF items
    <3> QED
      BY <2>1, <2>2, <3>1, <3>2 DEF Values
  <2>4. items[1].at = Literal /\ items[2] = array /\ array.type = "array"
    BY <1>1 DEF items, ArrayIn
  <2>5. ReadBack(m.pool, array) = records
    <3>1. records \in Seq(Seq(Byte)) /\ array.size = Len(records)
      BY RepliesAssumption DEF TypeInv, AddMember
    <3>2. array.size <= Len(records) /\ SubSeq(records, 1, array.size) = records
      BY <3>1, SubSeqFull
    <3> QED
      BY <1>4, <1>7, <3>1, <3>2, ElementsRead
  <2>6. Chars(m.pool, items[1]) = Name
    BY <2>4 DEF Chars
  <2> QED
    BY <1>3, <1>6, <2>1, <2>3, <2>4, <2>5, <2>6 DEF Holds
<1> QED
  BY <1>3, <1>6, <1>8, <1>9, <1>10, <1>11 DEF BodyInv

(* What is done to the client's document alone. *)
LEMMA ClientKeeps ==
  ASSUME BodyInv, DocumentOK(client'), UNCHANGED <<records, server, array>>,
         phase' \in {phase, "sent", "parsing", "accepted", "refused", "aborted"}
  PROVE  BodyInv'
BY DEF BodyInv, ArrayIn, ElementsKept, Holds

(* A step of the reply, of the connection or of the client.                 *)
LEMMA StepBody ==
  ASSUME TypeInv, BodyInv, StreamsOK, [Next]_vars
  PROVE  TypeInv' /\ BodyInv'
<1>1. DocumentOK(client) /\ MaxReads \in Nat
  BY RepliesAssumption DEF BodyInv
<1>2. CASE AddRecord
  BY <1>2, AddRecordKeeps
<1>3. CASE AddMember
  BY <1>3, AddMemberKeeps
<1>4. CASE Reply
  <2>1. UNCHANGED <<handler, records, server, array, client, reads>> /\ phase' \in {"sent", "aborted"}
    BY <1>4 DEF Reply
  <2> QED
    BY <1>1, <2>1, ClientKeeps DEF TypeInv
<1>5. CASE ReplyNothing
  <2>1. UNCHANGED <<handler, records, server, array, client, reads>> /\ phase' = "sent"
    BY <1>5 DEF ReplyNothing, serverVars
  <2> QED
    BY <1>1, <2>1, ClientKeeps DEF TypeInv
<1>6. CASE \E n \in 0..Len(sent) : Receive(n)
  <2>1. /\ UNCHANGED <<handler, records, server, array>> /\ phase' = "parsing"
        /\ client' = [client EXCEPT !.root = NullValue] /\ reads < MaxReads /\ reads' = reads + 1
    BY <1>6 DEF Receive, serverVars
  <2>2. DocumentOK(client')
    BY <1>1, <2>1, DocumentRoot
  <2>3. reads' \in 0..MaxReads
    BY <1>1, <2>1 DEF TypeInv
  <2> QED
    BY <2>1, <2>2, <2>3, ClientKeeps DEF TypeInv
<1>7. CASE HandleEvent
  <2>1. /\ UNCHANGED <<handler, records, server, array, reads>> /\ events # <<>>
        /\ \/ CanHandle(client, Head(events)) /\ client' = Handle(client, Head(events)) /\ phase' = phase
           \/ client' = client /\ phase' = "aborted"
    BY <1>7 DEF HandleEvent, serverVars
  <2>2. Head(events) \in Event
    BY <2>1 DEF StreamsOK
  <2>3. DocumentOK(client')
    BY <1>1, <2>1, <2>2, HandleOK
  <2> QED
    BY <2>1, <2>3, ClientKeeps DEF TypeInv
<1>8. CASE ParseEnds
  <2>1. /\ UNCHANGED <<handler, records, server, array, reads>>
        /\ \/ client' = [ClearStack(client) EXCEPT !.root = StackItems(client)[1]] /\ phase' = "accepted"
           \/ client' = client /\ phase' = "aborted"
    BY <1>8 DEF ParseEnds, serverVars
  <2>2. DocumentOK(client')
    <3>1. DocumentOK(ClearStack(client))
      BY <1>1, ClearStackOK
    <3>2. DocumentOK([ClearStack(client) EXCEPT !.root = StackItems(client)[1]])
      BY <3>1, DocumentRoot
    <3> QED
      BY <1>1, <2>1, <3>2
  <2> QED
    BY <2>1, <2>2, ClientKeeps DEF TypeInv
<1>9. CASE ParseFails
  <2>1. /\ UNCHANGED <<handler, records, server, array, reads>>
        /\ client' = ClearStack(client) /\ phase' = "refused"
    BY <1>9 DEF ParseFails, serverVars
  <2>2. DocumentOK(client')
    BY <1>1, <2>1, ClearStackOK
  <2> QED
    BY <2>1, <2>2, ClientKeeps DEF TypeInv
<1>10. CASE UNCHANGED vars
  BY <1>1, <1>10, ClientKeeps DEF vars, TypeInv
<1> QED
  BY <1>2, <1>3, <1>4, <1>5, <1>6, <1>7, <1>8, <1>9, <1>10 DEF Next, Quiescent

(* What both documents look like in every reply and in every attempt.       *)
LEMMA BodyKept == Spec /\ []StreamsOK => [](TypeInv /\ BodyInv)
<1>1. Init => TypeInv /\ BodyInv
  BY InitBody
<1>2. (TypeInv /\ BodyInv) /\ StreamsOK /\ [Next]_vars => (TypeInv /\ BodyInv)'
  BY StepBody
<1> QED
  BY <1>1, <1>2, PTL DEF Spec

(* The stacks and the array are never longer than what they have room for,  *)
(* whatever the records, the capacities, the writer and the reader are.     *)
THEOREM BodyTypes == Spec /\ []StreamsOK => []TypeOK
<1>1. TypeInv /\ BodyInv /\ StreamsOK => TypeOK
  BY DEF TypeInv, BodyInv, DocumentOK, ArrayIn, TypeOK
<1> QED
  BY <1>1, BodyKept, PTL

(* The memory of both documents stays sound: no value, string, stack or     *)
(* array is ever written over another.                                      *)
THEOREM MemoryKept == Spec /\ []StreamsOK => []MemorySound
<1>1. BodyInv => MemorySound
  BY DEF BodyInv, DocumentOK, ArrayIn, MemorySound
<1> QED
  BY <1>1, BodyKept, PTL

(* The document that is built holds the records so far, in order, and the   *)
(* writer gets all of them.                                                 *)
THEOREM DocumentHoldsRecords == Spec /\ []StreamsOK => []DocumentKept
<1>1. ASSUME TypeInv, BodyInv PROVE DocumentKept
  <2>1. /\ PoolSound(server.pool) /\ ArrayIn(server.pool, array) /\ ElementsKept(server.pool, array)
        /\ records \in Seq(Seq(Byte)) /\ array.size <= Len(records)
    BY <1>1, RepliesAssumption DEF TypeInv, BodyInv, DocumentOK
  <2>2. ReadBack(server.pool, array) = SubSeq(records, 1, array.size)
    BY <2>1, ElementsRead
  <2> QED
    BY <1>1, <2>2 DEF DocumentKept, BodyInv
<1> QED
  BY <1>1, BodyKept, PTL
=============================================================================
