------------------------- MODULE CombineToolProofs --------------------------
(***************************************************************************)
(* For any users, keys, selections and batch size: whatever hdb_tool.py's  *)
(* runs lose, repeat or leave undone, the records that clients have added  *)
(* stay in their logs in their order, a run without a failure puts         *)
(* everyone it was to process into the index of the new key, and no run    *)
(* more than doubles a log.                                                *)
(***************************************************************************)
EXTENDS CombineTool, FiniteSetTheorems, SequenceTheorems, TLAPS

(* The parts of TypeOK. *)
StoreTypes ==
  /\ files \in [Files -> Seq(Nat)]
  /\ \A f \in Files : files[f] \in Seq(1..added[f])
  /\ index \in [Keys -> SUBSET Users]
  /\ added \in [Files -> Nat]

RunTypes ==
  /\ selected \in Selections
  /\ runs \in Nat /\ runs <= MaxRuns
  /\ initial \in [Keys -> SUBSET Users]
  /\ pc \in {"stopped", "find", "batches", "read", "wait", "finished"}
  /\ pc # "stopped" => runs > 0
  /\ at \in 1..Len(KEYS)
  /\ users \subseteq Users
  /\ failed \in BOOLEAN

BatchTypes ==
  /\ reads \in [Users -> {"none", "pending", "found", "failed", "written"}]
  /\ data \in [Users -> Seq(Nat)]
  /\ \A u \in Users : pc # "read" => reads[u] \in {"none", "failed", "written"}
  /\ Cardinality({u \in Users : reads[u] # "none"}) <= BatchSize

RequestTypes ==
  /\ writes \subseteq (1..runs) \X Users \X Keys \X Seq(Nat)
  /\ updates \subseteq (1..runs) \X Users \X Keys
  /\ \A w \in waiting : w[1] = runs

(* What was read, or is on its way to be written back, are records of the   *)
(* log it goes to.                                                          *)
OwnRecords ==
  /\ \A u \in Users : reads[u] = "found" => data[u] \in Seq(1..added[<<u, key>>])
  /\ \A w \in writes : w[4] \in Seq(1..added[<<w[2], w[3]>>])

(* Updates are for users to be processed, and no one leaves an index. *)
Updates ==
  /\ \A p \in updates : Processed(p[2])
  /\ \A k \in Keys : initial[k] \subseteq index[k]

(* A run without a failure waits for every update it has sent. *)
WaitedFor ==
  /\ pc \notin {"read", "wait"} => waiting = {}
  /\ ~failed => \A p \in updates : p[1] = runs => p \in waiting

(* Who was active under the i-th key when the run began is in the new index.*)
Done(i) == \A u \in initial[KEYS[i]] : Processed(u) => u \in index[NEW_KEY]

(* Who was active under the key being processed is in the new index, in a   *)
(* batch to come, or an update for them is on its way.                      *)
InHand ==
  \A u \in initial[key] : Processed(u) =>
    u \in users \/ u \in index[NEW_KEY] \/ <<runs, u, key>> \in updates

Progress ==
  ~failed =>
    /\ \A i \in 1..Len(KEYS) : i < at \/ pc = "finished" => Done(i)
    /\ pc \in {"batches", "read", "wait"} => InHand

OnlyProcessed == \A u \in index[NEW_KEY] : Processed(u) \/ added[<<u, NEW_KEY>>] > 0

IInv ==
  /\ StoreTypes
  /\ RunTypes
  /\ BatchTypes
  /\ RequestTypes
  /\ RecordsKept
  /\ OwnRecords
  /\ Updates
  /\ WaitedFor
  /\ Progress
  /\ OnlyProcessed
-----------------------------------------------------------------------------
(* TypeOK is its parts. *)
LEMMA TypeParts == TypeOK <=> StoreTypes /\ RunTypes /\ BatchTypes /\ RequestTypes
  BY DEF TypeOK, StoreTypes, RunTypes, BatchTypes, RequestTypes

(* The records 1..n are in s, first of all in the order they were added. *)
Kept(s, n) ==
  /\ s \in Seq(1..n)
  /\ \A m \in 1..n : \E i \in DOMAIN s : s[i] = m /\ \A j \in 1..(i - 1) : s[j] < m

(* A client's record goes behind the others. *)
LEMMA AppendKept ==
  ASSUME NEW n \in Nat, NEW s, Kept(s, n)
  PROVE  Kept(Append(s, n + 1), n + 1)
<1> DEFINE t == Append(s, n + 1)
<1>1. s \in Seq(1..n) /\ s \in Seq(1..(n + 1)) /\ n + 1 \in 1..(n + 1)
  <2>1. s \in Seq(1..n) /\ 1..n \subseteq 1..(n + 1) /\ n + 1 \in 1..(n + 1)
    BY DEF Kept
  <2> QED
    BY <2>1
<1>2. /\ t \in Seq(1..(n + 1)) /\ Len(t) = Len(s) + 1 /\ Len(s) \in Nat
      /\ DOMAIN s = 1..Len(s) /\ DOMAIN t = 1..Len(t)
      /\ t[Len(t)] = n + 1 /\ \A i \in 1..Len(s) : t[i] = s[i] /\ s[i] \in 1..n
  BY <1>1
<1> HIDE DEF t
<1>3. ASSUME NEW m \in 1..(n + 1)
      PROVE  \E i \in DOMAIN t : t[i] = m /\ \A j \in 1..(i - 1) : t[j] < m
  <2>1. CASE m = n + 1
    <3>1. \A j \in 1..(Len(t) - 1) : t[j] < m
      BY <1>2, <2>1
    <3>2. Len(t) \in DOMAIN t /\ t[Len(t)] = m
      BY <1>2, <2>1
    <3> QED
      BY <3>1, <3>2
  <2>2. CASE m # n + 1
    <3>1. m \in 1..n
      BY <2>2
    <3>2. PICK i \in DOMAIN s : s[i] = m /\ \A j \in 1..(i - 1) : s[j] < m
      BY <3>1 DEF Kept
    <3>3. i \in DOMAIN t /\ t[i] = m /\ \A j \in 1..(i - 1) : t[j] < m
      BY <1>2, <3>2
    <3> QED
      BY <3>3
  <2> QED
    BY <2>1, <2>2
<1> QED
  BY <1>2, <1>3 DEF Kept, t

(* What was read goes behind what is there, appended as it is. *)
LEMMA ConcatKept ==
  ASSUME NEW n \in Nat, NEW s, Kept(s, n), NEW d \in Seq(1..n)
  PROVE  Kept(s \o d, n)
<1> DEFINE t == s \o d
<1>1. s \in Seq(1..n)
  BY DEF Kept
<1>2. t \in Seq(1..n) /\ Len(t) = Len(s) + Len(d) /\ Len(s) \in Nat /\ Len(d) \in Nat
  BY <1>1
<1>3. /\ DOMAIN s = 1..Len(s) /\ DOMAIN t = 1..Len(t)
      /\ \A i \in 1..Len(s) : t[i] = s[i]
  BY <1>1, <1>2
<1> HIDE DEF t
<1>4. ASSUME NEW m \in 1..n
      PROVE  \E i \in DOMAIN t : t[i] = m /\ \A j \in 1..(i - 1) : t[j] < m
  <2>1. PICK i \in DOMAIN s : s[i] = m /\ \A j \in 1..(i - 1) : s[j] < m
    BY DEF Kept
  <2>2. i \in DOMAIN t /\ t[i] = m /\ \A j \in 1..(i - 1) : t[j] < m
    BY <1>2, <1>3, <2>1
  <2> QED
    BY <2>2
<1> QED
  BY <1>2, <1>4 DEF Kept, t

(* Records read earlier are records of the log later. *)
LEMMA SeqOfMore ==
  ASSUME NEW m \in Nat, NEW n \in Nat, m <= n, NEW d \in Seq(1..m)
  PROVE  d \in Seq(1..n)
<1>1. 1..m \subseteq 1..n
  OBVIOUS
<1> QED
  BY <1>1

(* The keys that are gone through are among those of the indexes. *)
LEMMA KeysOf ==
  /\ Len(KEYS) \in Nat \ {0}
  /\ \A i \in 1..Len(KEYS) : KEYS[i] \in ToSet(KEYS)
  /\ \A k \in ToSet(KEYS) : \E i \in 1..Len(KEYS) : KEYS[i] = k
  /\ \A k \in ToSet(KEYS) : k \in Keys
  /\ NEW_KEY \in Keys
<1>1. DOMAIN KEYS = 1..Len(KEYS) /\ Len(KEYS) \in Nat \ {0}
  BY KeysAssumption, EmptySeq
<1> QED
  BY <1>1 DEF ToSet, Keys

(* RecordsKept, with the type of the logs, in terms of Kept. *)
LEMMA KeptOf ==
  (\A f \in Files : files[f] \in Seq(1..added[f])) /\ RecordsKept
    <=> \A f \in Files : Kept(files[f], added[f])
  BY DEF RecordsKept, Kept

(* A batch, and those of it who are chosen, are users left, not too many. *)
LEMMA BatchSizes ==
  ASSUME NEW us, us \subseteq Users, NEW b \in Batches(us)
  PROVE  /\ b \subseteq us
         /\ Chosen(b) \subseteq b
         /\ Cardinality(Chosen(b)) <= BatchSize
         /\ \A u \in Chosen(b) : Processed(u)
         /\ \A u \in b : Processed(u) => u \in Chosen(b)
<1>1. IsFiniteSet(us) /\ Cardinality(us) \in Nat
  BY UsersAssumption, FS_Subset, FS_CardinalityType
<1>2. b \subseteq us /\ Cardinality(b) <= BatchSize
  BY <1>1, BatchSizeAssumption DEF Batches
<1>3. IsFiniteSet(b) /\ Cardinality(b) \in Nat
  BY <1>1, <1>2, FS_Subset, FS_CardinalityType
<1>4. Chosen(b) \subseteq b /\ Cardinality(Chosen(b)) <= Cardinality(b)
      /\ Cardinality(Chosen(b)) \in Nat
  <2>1. Chosen(b) \subseteq b
    BY DEF Chosen
  <2> QED
    BY <1>3, <2>1, FS_Subset, FS_CardinalityType
<1>5. Cardinality(Chosen(b)) <= BatchSize
  BY <1>2, <1>3, <1>4, BatchSizeAssumption
<1> QED
  BY <1>2, <1>4, <1>5 DEF Chosen, Processed

(* Before the first run there are no records and no requests. *)
LEMMA InitInv == Init => IInv
<1> SUFFICES ASSUME Init PROVE IInv
  OBVIOUS
<1>1. \A f \in Files : files[f] = <<>> /\ added[f] = 0
  BY DEF Init
<1>2. /\ {u \in Users : reads[u] # "none"} = {}
      /\ Cardinality({u \in Users : reads[u] # "none"}) = 0
  <2>1. {u \in Users : reads[u] # "none"} = {}
    BY DEF Init
  <2> QED
    BY <2>1, FS_EmptySet
<1>3. StoreTypes
  <2>1. index \in [Keys -> SUBSET Users] /\ added \in [Files -> Nat]
    BY DEF Init
  <2>2. ASSUME NEW f \in Files PROVE files[f] \in Seq(1..added[f])
    BY <1>1, <<>> \in Seq(1..added[f]), EmptySeq
  <2>3. files \in [Files -> Seq(Nat)]
    BY DEF Init
  <2> QED
    BY <2>1, <2>2, <2>3 DEF StoreTypes
<1>7. RunTypes
  <2>1. initial \in [Keys -> SUBSET Users]
    BY DEF Init
  <2>2. at \in 1..Len(KEYS) /\ runs \in Nat /\ runs <= MaxRuns
    BY KeysOf, BoundsAssumption DEF Init
  <2>3. selected \in Selections /\ pc = "stopped" /\ users \subseteq Users /\ failed \in BOOLEAN
    BY DEF Init
  <2> QED
    BY <2>1, <2>2, <2>3 DEF RunTypes
<1>8. BatchTypes
  <2>1. data \in [Users -> Seq(Nat)]
    BY DEF Init
  <2> QED
    BY <1>2, <2>1, BatchSizeAssumption DEF Init, BatchTypes
<1>9. RequestTypes
  BY DEF Init, RequestTypes
<1>4. RecordsKept /\ OwnRecords
  BY <1>1 DEF Init, RecordsKept, OwnRecords
<1>5. Updates /\ WaitedFor /\ OnlyProcessed
  BY KeysOf DEF Init, Updates, WaitedFor, OnlyProcessed
<1>6. Progress
  <2>1. \A i \in 1..Len(KEYS) : ~(i < at \/ pc = "finished")
    BY DEF Init
  <2> QED
    BY <2>1 DEF Init, Progress
<1> QED
  BY <1>3, <1>4, <1>5, <1>6, <1>7, <1>8, <1>9 DEF IInv

(* What is said of the logs and indexes alone is kept by whom they do not   *)
(* concern.                                                                 *)
LEMMA StoreKept ==
  ASSUME IInv, UNCHANGED <<selected, store>>
  PROVE  (StoreTypes /\ RecordsKept /\ OnlyProcessed)'
BY DEF IInv, store, StoreTypes, RecordsKept, OnlyProcessed, Processed

(* A client's record comes behind the others, and nobody leaves an index. *)
LEMMA AddLogStep ==
  ASSUME IInv, NEW u \in Users, NEW k \in Keys, AddLog(u, k)
  PROVE  IInv'
<1> DEFINE f == <<u, k>>
<1>1. /\ added' = [added EXCEPT ![f] = @ + 1]
      /\ files' = [files EXCEPT ![f] = Append(@, added'[f])]
      /\ index' = [index EXCEPT ![k] = @ \cup {u}]
      /\ UNCHANGED <<selected, runs, initial, pc, at, users, reads, data, writes, updates, waiting, failed>>
  BY DEF AddLog, batch, requests
<1>2. /\ added \in [Files -> Nat] /\ index \in [Keys -> SUBSET Users]
      /\ f \in Files /\ f[1] = u /\ f[2] = k /\ at \in 1..Len(KEYS)
  BY DEF IInv, StoreTypes, RunTypes, Files
<1> HIDE DEF f
<1>3. /\ added' \in [Files -> Nat]
      /\ added'[f] = added[f] + 1
      /\ \A g \in Files : added[g] <= added'[g] /\ (g # f => added'[g] = added[g])
  BY <1>1, <1>2
<1>4. /\ index' \in [Keys -> SUBSET Users]
      /\ \A l \in Keys : index[l] \subseteq index'[l]
      /\ \A l \in Keys : \A v \in index'[l] : v \in index[l] \/ (l = k /\ v = u)
  BY <1>1, <1>2
<1>5. /\ DOMAIN files = Files
      /\ files'[f] = Append(files[f], added[f] + 1)
      /\ \A g \in Files : g # f => files'[g] = files[g]
  BY <1>1, <1>2, <1>3 DEF IInv, StoreTypes
<1>6. files' \in [Files -> Seq(Nat)]
  <2>1. Append(files[f], added'[f]) \in Seq(Nat)
    BY <1>2, <1>3 DEF IInv, StoreTypes
  <2> QED
    BY <1>1, <2>1 DEF IInv, StoreTypes
<1>7. \A g \in Files : Kept(files'[g], added'[g])
  <2>1. \A g \in Files : Kept(files[g], added[g])
    BY KeptOf DEF IInv, StoreTypes
  <2>2. Kept(files'[f], added'[f])
    BY <1>2, <1>3, <1>5, <2>1, AppendKept
  <2>3. \A g \in Files : g # f => Kept(files'[g], added'[g])
    BY <1>3, <1>5, <2>1
  <2> QED
    BY <2>2, <2>3
<1>8. StoreTypes' /\ RecordsKept'
  BY <1>3, <1>4, <1>6, <1>7 DEF StoreTypes, Kept, RecordsKept
<1>9. RunTypes' /\ BatchTypes' /\ RequestTypes'
  BY <1>1 DEF IInv, RunTypes, BatchTypes, RequestTypes
<1>10. OwnRecords'
  <2>1. key \in Keys /\ key' = key
    BY <1>1, <1>2, KeysOf DEF key
  <2>2. ASSUME NEW v \in Users, reads[v] = "found" PROVE data[v] \in Seq(1..added'[<<v, key>>])
    <3>1. <<v, key>> \in Files /\ data[v] \in Seq(1..added[<<v, key>>])
      BY <2>1, <2>2 DEF IInv, OwnRecords, Files
    <3> QED
      BY <1>2, <1>3, <3>1, SeqOfMore
  <2>3. ASSUME NEW w \in writes PROVE w[4] \in Seq(1..added'[<<w[2], w[3]>>])
    <3>1. <<w[2], w[3]>> \in Files /\ w[4] \in Seq(1..added[<<w[2], w[3]>>])
      BY DEF IInv, OwnRecords, RequestTypes, Files
    <3> QED
      BY <1>2, <1>3, <3>1, SeqOfMore
  <2> QED
    BY <1>1, <2>1, <2>2, <2>3 DEF OwnRecords
<1>11. Updates' /\ WaitedFor'
  BY <1>1, <1>4 DEF IInv, Updates, WaitedFor, Processed
<1>12. Progress'
  <2>1. index[NEW_KEY] \subseteq index'[NEW_KEY]
    BY <1>4, KeysOf
  <2>2. \A i \in 1..Len(KEYS) : Done(i) => Done(i)'
    BY <1>1, <2>1 DEF Done, Processed
  <2>3. InHand => InHand'
    BY <1>1, <2>1 DEF InHand, Processed, key
  <2> QED
    BY <1>1, <2>2, <2>3 DEF IInv, Progress
<1>13. OnlyProcessed'
  <2>1. ASSUME NEW v \in index'[NEW_KEY], ~(Processed(v)) PROVE added'[<<v, NEW_KEY>>] > 0
    <3>1. v \in Users /\ <<v, NEW_KEY>> \in Files
      BY <1>4, <2>1, KeysOf DEF Files
    <3>2. CASE v \in index[NEW_KEY]
      <4>1. added[<<v, NEW_KEY>>] > 0 /\ added[<<v, NEW_KEY>>] \in Nat
        BY <1>2, <2>1, <3>1, <3>2 DEF IInv, OnlyProcessed
      <4> QED
        BY <1>3, <3>1, <4>1
    <3>3. CASE NEW_KEY = k /\ v = u
      <4>1. f = <<v, NEW_KEY>>
        BY <3>3 DEF f
      <4> QED
        BY <1>2, <1>3, <4>1
    <3> QED
      BY <1>4, <2>1, <3>2, <3>3, KeysOf
  <2> QED
    BY <1>1, <2>1 DEF OnlyProcessed, Processed
<1> QED
  BY <1>8, <1>9, <1>10, <1>11, <1>12, <1>13 DEF IInv

(* A process that begins, or goes on to the next batch, has read nothing. *)
LEMMA NothingRead ==
  ASSUME reads' = [u \in Users |-> "none"], data' = [u \in Users |-> <<>>]
  PROVE  BatchTypes'
<1>1. {u \in Users : reads'[u] # "none"} = {}
  OBVIOUS
<1>2. data' \in [Users -> Seq(Nat)]
  OBVIOUS
<1>3. Cardinality({u \in Users : reads'[u] # "none"}) = 0
  BY <1>1, FS_EmptySet
<1> QED
  BY <1>2, <1>3, BatchSizeAssumption DEF BatchTypes

(* A run begins with nothing found, read or waited for. *)
LEMMA StartStep ==
  ASSUME IInv, Start
  PROVE  IInv'
<1>1. /\ runs < MaxRuns /\ runs' = runs + 1 /\ initial' = index /\ pc' = "find"
      /\ at' = 1 /\ users' = {} /\ waiting' = {} /\ failed' = FALSE
      /\ reads' = [u \in Users |-> "none"] /\ data' = [u \in Users |-> <<>>]
      /\ UNCHANGED <<selected, store, files, index, added, writes, updates>>
  BY DEF Start, store
<1>2. StoreTypes' /\ RecordsKept' /\ OnlyProcessed'
  BY <1>1, StoreKept
<1>3. RunTypes'
  <2>1. initial' \in [Keys -> SUBSET Users]
    BY <1>1 DEF IInv, StoreTypes
  <2>2. at' \in 1..Len(KEYS) /\ runs' \in Nat /\ runs' <= MaxRuns /\ runs' > 0
    BY <1>1, KeysOf, BoundsAssumption DEF IInv, RunTypes
  <2> QED
    BY <1>1, <2>1, <2>2 DEF IInv, RunTypes
<1>4. BatchTypes'
  BY <1>1, NothingRead
<1>5. 1..runs \subseteq 1..runs' /\ runs' \notin 1..runs
  BY <1>1 DEF IInv, RunTypes
<1>6. RequestTypes'
  BY <1>1, <1>5 DEF IInv, RequestTypes
<1>7. OwnRecords'
  BY <1>1 DEF IInv, OwnRecords
<1>8. Updates'
  BY <1>1 DEF IInv, Updates, Processed
<1>9. WaitedFor'
  BY <1>1, <1>5 DEF IInv, WaitedFor, RequestTypes
<1>10. Progress'
  <2>1. \A i \in 1..Len(KEYS) : ~(i < at' \/ pc' = "finished")
    BY <1>1
  <2> QED
    BY <1>1, <2>1 DEF Progress
<1> QED
  BY <1>2, <1>3, <1>4, <1>6, <1>7, <1>8, <1>9, <1>10 DEF IInv

(* Steps that leave the requests and what is being read alone. *)
LEMMA BatchKept ==
  ASSUME IInv, UNCHANGED <<added, runs, reads, data, writes, updates, waiting>>,
         pc \notin {"read", "wait"}, pc' \notin {"read", "wait"}, failed => failed'
  PROVE  (BatchTypes /\ RequestTypes /\ OwnRecords /\ WaitedFor)'
<1>1. BatchTypes' /\ RequestTypes' /\ WaitedFor'
  BY DEF IInv, BatchTypes, RequestTypes, WaitedFor
<1>2. \A u \in Users : reads[u] # "found"
  BY DEF IInv, BatchTypes
<1> QED
  BY <1>1, <1>2 DEF IInv, OwnRecords

(* The loop goes on with the next key, or ends with the last. *)
LEMMA NextKeyStep ==
  ASSUME RunTypes, NextKey
  PROVE  /\ at' \in 1..Len(KEYS) /\ pc' \in {"find", "finished"}
         /\ \A i \in 1..Len(KEYS) : i < at' \/ pc' = "finished" => i <= at
         /\ UNCHANGED <<selected, runs, initial>>
BY KeysOf DEF RunTypes, NextKey

(* Those in the index, and so those in it when the run began, are found. *)
LEMMA FindUsersStep ==
  ASSUME IInv, FindUsers
  PROVE  IInv'
<1>1. /\ users' = index[key] /\ pc = "find" /\ pc' = "batches"
      /\ UNCHANGED <<selected, store, files, index, added, runs, initial, at, reads, data, writes, updates, waiting, failed>>
  BY DEF FindUsers, store, batch, requests
<1>2. StoreTypes' /\ RecordsKept' /\ OnlyProcessed'
  BY <1>1, StoreKept
<1>3. key \in Keys /\ key' = key
  BY <1>1, KeysOf DEF IInv, RunTypes, key
<1>4. RunTypes' /\ Updates'
  BY <1>1, <1>3 DEF IInv, RunTypes, StoreTypes, Updates, Processed
<1>5. BatchTypes' /\ RequestTypes' /\ OwnRecords' /\ WaitedFor'
  BY <1>1, BatchKept
<1>6. Progress'
  <2>1. InHand'
    BY <1>1, <1>3 DEF IInv, Updates, InHand
  <2> QED
    BY <1>1, <2>1 DEF IInv, Progress, Done, Processed
<1> QED
  BY <1>2, <1>4, <1>5, <1>6 DEF IInv

(* Only for users to be processed an update may have been sent. *)
LEMMA BegunUsers ==
  ASSUME IInv, NEW us \in Begun
  PROVE  us \subseteq Users /\ \A u \in us : Processed(u)
<1>1. users \subseteq Users
  BY DEF IInv, RunTypes
<1>2. CASE pc = "batches" /\ users # {}
  <2>1. PICK b \in Batches(users) : us \subseteq Chosen(b)
    BY <1>2 DEF Begun
  <2> QED
    BY <1>1, <2>1, BatchSizes
<1>3. CASE ~(pc = "batches" /\ users # {})
  <2>1. us = {}
    BY <1>3 DEF Begun
  <2> QED
    BY <2>1
<1> QED
  BY <1>2, <1>3

(* A key that is given up makes the run a failed one, which waits for none  *)
(* of what was sent.                                                        *)
LEMMA KeyFailsStep ==
  ASSUME IInv, KeyFails
  PROVE  IInv'
<1>1. PICK us \in Begun : updates' = updates \cup {<<runs, u, key>> : u \in us}
  BY DEF KeyFails
<1>2. /\ pc # "stopped" /\ failed' = TRUE /\ users' = {} /\ waiting' = {} /\ NextKey
      /\ reads' = [u \in Users |-> "none"] /\ data' = [u \in Users |-> <<>>]
      /\ UNCHANGED <<store, files, index, added, writes>>
  BY DEF KeyFails, store
<1>3. /\ at' \in 1..Len(KEYS) /\ pc' \in {"find", "finished"}
      /\ UNCHANGED <<selected, runs, initial>>
  BY <1>2, NextKeyStep DEF IInv
<1>4. StoreTypes' /\ RecordsKept' /\ OnlyProcessed'
  BY <1>2, <1>3, StoreKept
<1>5. RunTypes' /\ WaitedFor' /\ Progress'
  BY <1>2, <1>3 DEF IInv, RunTypes, WaitedFor, Progress
<1>6. BatchTypes' /\ OwnRecords'
  BY <1>2, NothingRead DEF IInv, OwnRecords
<1>7. \A u \in us : <<runs, u, key>> \in (1..runs) \X Users \X Keys
  <2>1. runs \in 1..runs /\ key \in Keys
    BY <1>2, KeysOf DEF IInv, RunTypes, key
  <2> QED
    BY <2>1, BegunUsers
<1>8. RequestTypes'
  BY <1>1, <1>2, <1>3, <1>7 DEF IInv, RequestTypes
<1>9. Updates'
  <2>1. \A u \in us : Processed(u)
    BY BegunUsers
  <2>2. \A p \in updates' : Processed(p[2])
    BY <1>1, <2>1 DEF IInv, Updates
  <2> QED
    BY <1>2, <1>3, <2>2 DEF IInv, Updates, Processed
<1> QED
  BY <1>4, <1>5, <1>6, <1>8, <1>9 DEF IInv

(* When no users are left, all the updates have been waited for: everyone   *)
(* to be processed under the key is in the index of the new one.            *)
LEMMA LastBatchDoneStep ==
  ASSUME IInv, LastBatchDone
  PROVE  IInv'
<1>1. /\ pc = "batches" /\ users = {} /\ NextKey
      /\ UNCHANGED <<store, files, index, added, users, reads, data, writes, updates, waiting, failed>>
  BY DEF LastBatchDone, store, batch, requests
<1>2. /\ at' \in 1..Len(KEYS) /\ pc' \in {"find", "finished"}
      /\ \A i \in 1..Len(KEYS) : i < at' \/ pc' = "finished" => i <= at
      /\ UNCHANGED <<selected, runs, initial>>
  BY <1>1, NextKeyStep DEF IInv
<1>3. StoreTypes' /\ RecordsKept' /\ OnlyProcessed'
  BY <1>1, <1>2, StoreKept
<1>4. RunTypes' /\ Updates'
  BY <1>1, <1>2 DEF IInv, RunTypes, Updates, Processed
<1>5. BatchTypes' /\ RequestTypes' /\ OwnRecords' /\ WaitedFor'
  BY <1>1, <1>2, BatchKept
<1>6. Progress'
  <2> SUFFICES ASSUME ~failed PROVE \A i \in 1..Len(KEYS) : i <= at => Done(i)
    BY <1>1, <1>2 DEF Progress, Done, Processed
  <2>1. \A u : <<runs, u, key>> \notin updates
    BY <1>1 DEF IInv, WaitedFor
  <2>2. Done(at)
    BY <1>1, <2>1 DEF IInv, Progress, InHand, Done, key
  <2>3. at \in Nat /\ \A i \in 1..Len(KEYS) : i < at => Done(i)
    BY DEF IInv, Progress, RunTypes
  <2> QED
    BY <2>2, <2>3
<1> QED
  BY <1>3, <1>4, <1>5, <1>6 DEF IInv

(* The users of a batch to be processed get their updates and reads; those  *)
(* of earlier batches have been waited for.                                 *)
LEMMA NextBatchStep ==
  ASSUME IInv, NextBatch
  PROVE  IInv'
<1>1. PICK b \in Batches(users) :
        /\ users' = Left(users, b)
        /\ updates' = updates \cup {<<runs, u, key>> : u \in Chosen(b)}
        /\ waiting' = {<<runs, u, key>> : u \in Chosen(b)}
        /\ reads' = [u \in Users |-> IF u \in Chosen(b) THEN "pending" ELSE "none"]
        /\ pc' = IF Chosen(b) = {} THEN "batches" ELSE "read"
  BY DEF NextBatch
<1> DEFINE new == {<<runs, u, key>> : u \in Chosen(b)}
<1>2. /\ pc = "batches"
      /\ UNCHANGED <<selected, store, files, index, added, runs, initial, at, data, writes, failed>>
  BY DEF NextBatch, store
<1>3. /\ b \subseteq users /\ Chosen(b) \subseteq b /\ Chosen(b) \subseteq Users
      /\ Cardinality(Chosen(b)) <= BatchSize
      /\ \A u \in Chosen(b) : Processed(u)
      /\ \A u \in b : Processed(u) => u \in Chosen(b)
  <2>1. users \subseteq Users
    BY DEF IInv, RunTypes
  <2> QED
    BY <2>1, BatchSizes
<1>4. StoreTypes' /\ RecordsKept' /\ OnlyProcessed'
  BY <1>2, StoreKept
<1>5. key \in Keys /\ key' = key
  BY <1>2, KeysOf DEF IInv, RunTypes, key
<1>6. RunTypes'
  BY <1>1, <1>2, <1>3 DEF IInv, RunTypes, Left
<1>7. BatchTypes'
  <2>1. {u \in Users : reads'[u] # "none"} = Chosen(b)
    BY <1>1, <1>3
  <2>2. pc' # "read" => \A u \in Users : reads'[u] = "none"
    BY <1>1
  <2>3. reads' \in [Users -> {"none", "pending", "found", "failed", "written"}]
    BY <1>1
  <2> QED
    BY <1>2, <1>3, <2>1, <2>2, <2>3 DEF IInv, BatchTypes
<1>8. runs \in 1..runs
  BY <1>2 DEF IInv, RunTypes
<1>9. /\ \A p \in new : p \in (1..runs) \X Users \X Keys /\ p[1] = runs /\ p[2] \in Chosen(b)
      /\ \A u \in Chosen(b) : <<runs, u, key>> \in new
  BY <1>3, <1>5, <1>8
<1> HIDE DEF new
<1>10. RequestTypes'
  BY <1>1, <1>2, <1>9 DEF IInv, RequestTypes, new
<1>11. OwnRecords'
  BY <1>1, <1>2 DEF IInv, OwnRecords
<1>12. Updates'
  BY <1>1, <1>2, <1>3, <1>9 DEF IInv, Updates, Processed, new
<1>13. WaitedFor'
  <2>1. ~failed => \A p \in updates : p[1] # runs
    BY <1>2 DEF IInv, WaitedFor
  <2>2. pc' \notin {"read", "wait"} => waiting' = {}
    BY <1>1
  <2>3. updates' = updates \cup new /\ waiting' = new
    BY <1>1 DEF new
  <2> QED
    BY <1>2, <2>1, <2>2, <2>3 DEF WaitedFor
<1>14. Progress'
  <2>1. ASSUME ~failed, NEW u \in initial[key], Processed(u)
        PROVE  u \in users' \/ u \in index[NEW_KEY] \/ <<runs, u, key>> \in updates'
    <3>1. u \in users \/ u \in index[NEW_KEY] \/ <<runs, u, key>> \in updates
      BY <1>2, <2>1 DEF IInv, Progress, InHand
    <3>2. u \in users => u \in users' \/ u \in b
      BY <1>1 DEF Left
    <3>3. u \in b => <<runs, u, key>> \in updates'
      BY <1>1, <1>3, <1>9, <2>1 DEF new
    <3> QED
      BY <1>1, <3>1, <3>2, <3>3
  <2>2. ~failed => InHand'
    BY <1>2, <1>5, <2>1 DEF InHand, Processed
  <2>3. pc' # "finished"
    BY <1>1
  <2> QED
    BY <1>2, <2>2, <2>3 DEF IInv, Progress, Done, Processed
<1> QED
  BY <1>4, <1>6, <1>7, <1>10, <1>11, <1>12, <1>13, <1>14 DEF IInv

(* Steps of the reads and writes of a batch leave the rest of the run alone.*)
LEMMA ReadsStep ==
  ASSUME IInv, pc = "read", failed => failed',
         UNCHANGED <<selected, files, index, added, runs, initial, pc, at, users, updates>>,
         reads' \in [Users -> {"none", "pending", "found", "failed", "written"}],
         \A u \in Users : reads'[u] = "none" <=> reads[u] = "none",
         failed' \in BOOLEAN, waiting \subseteq waiting'
  PROVE  /\ StoreTypes' /\ RecordsKept' /\ OnlyProcessed'
         /\ RunTypes' /\ Updates' /\ Progress' /\ WaitedFor'
         /\ Cardinality({u \in Users : reads'[u] # "none"}) <= BatchSize
<1>1. StoreTypes' /\ RecordsKept' /\ OnlyProcessed'
  BY StoreKept DEF store
<1>2. RunTypes' /\ Updates'
  BY DEF IInv, RunTypes, Updates, Processed
<1>3. Progress'
  BY DEF IInv, Progress, Done, InHand, Processed, key
<1>4. WaitedFor'
  BY DEF IInv, WaitedFor
<1>5. Cardinality({u \in Users : reads'[u] # "none"}) <= BatchSize
  <2>1. {u \in Users : reads'[u] # "none"} = {u \in Users : reads[u] # "none"}
    OBVIOUS
  <2> QED
    BY <2>1 DEF IInv, BatchTypes
<1> QED
  BY <1>1, <1>2, <1>3, <1>4, <1>5

(* What is read of a log are records of it. *)
LEMMA ReadLogStep ==
  ASSUME IInv, NEW u \in Users, ReadLog(u)
  PROVE  IInv'
<1>1. /\ reads[u] = "pending"
      /\ reads' = [reads EXCEPT ![u] = "found"]
      /\ data' = [data EXCEPT ![u] = files[<<u, key>>]]
      /\ UNCHANGED <<selected, files, index, added, runs, initial, pc, at, users, writes, updates, waiting, failed>>
  BY DEF ReadLog, store, requests
<1>2. /\ pc = "read" /\ failed \in BOOLEAN /\ at \in 1..Len(KEYS)
      /\ reads \in [Users -> {"none", "pending", "found", "failed", "written"}]
      /\ data \in [Users -> Seq(Nat)]
  BY <1>1 DEF IInv, RunTypes, BatchTypes
<1>3. /\ reads' \in [Users -> {"none", "pending", "found", "failed", "written"}]
      /\ \A v \in Users : reads'[v] = "none" <=> reads[v] = "none"
      /\ \A v \in Users : v # u => reads'[v] = reads[v] /\ data'[v] = data[v]
  BY <1>1, <1>2
<1>4. /\ StoreTypes' /\ RecordsKept' /\ OnlyProcessed'
      /\ RunTypes' /\ Updates' /\ Progress' /\ WaitedFor'
      /\ Cardinality({v \in Users : reads'[v] # "none"}) <= BatchSize
  BY <1>1, <1>2, <1>3, ReadsStep
<1>5. /\ <<u, key>> \in Files /\ key' = key
      /\ files[<<u, key>>] \in Seq(Nat)
      /\ files[<<u, key>>] \in Seq(1..added[<<u, key>>])
  <2>1. key \in Keys /\ key' = key
    BY <1>1, <1>2, KeysOf DEF key
  <2> QED
    BY <2>1 DEF IInv, StoreTypes, Files
<1>6. data' \in [Users -> Seq(Nat)] /\ data'[u] = files[<<u, key>>]
  BY <1>1, <1>2, <1>5
<1>7. BatchTypes'
  BY <1>1, <1>2, <1>3, <1>4, <1>6 DEF BatchTypes
<1>8. RequestTypes'
  BY <1>1 DEF IInv, RequestTypes
<1>9. OwnRecords'
  BY <1>1, <1>3, <1>5, <1>6 DEF IInv, OwnRecords
<1> QED
  BY <1>4, <1>7, <1>8, <1>9 DEF IInv

(* A read that fails makes the run a failed one. *)
LEMMA ReadFailsStep ==
  ASSUME IInv, NEW u \in Users, ReadFails(u)
  PROVE  IInv'
<1>1. /\ reads[u] = "pending" /\ failed' = TRUE
      /\ reads' = [reads EXCEPT ![u] = "failed"]
      /\ UNCHANGED <<selected, files, index, added, runs, initial, pc, at, users, data, writes, updates, waiting>>
  BY DEF ReadFails, store, requests
<1>2. /\ pc = "read"
      /\ reads \in [Users -> {"none", "pending", "found", "failed", "written"}]
  BY <1>1 DEF IInv, BatchTypes
<1>3. /\ reads' \in [Users -> {"none", "pending", "found", "failed", "written"}]
      /\ \A v \in Users : reads'[v] = "none" <=> reads[v] = "none"
      /\ \A v \in Users : reads'[v] = "found" => reads[v] = "found"
  BY <1>1, <1>2
<1>4. /\ StoreTypes' /\ RecordsKept' /\ OnlyProcessed'
      /\ RunTypes' /\ Updates' /\ Progress' /\ WaitedFor'
      /\ Cardinality({v \in Users : reads'[v] # "none"}) <= BatchSize
  BY <1>1, <1>2, <1>3, ReadsStep
<1>5. BatchTypes'
  BY <1>1, <1>2, <1>3, <1>4 DEF IInv, BatchTypes
<1>6. RequestTypes'
  BY <1>1 DEF IInv, RequestTypes
<1>7. OwnRecords'
  BY <1>1, <1>3 DEF IInv, OwnRecords, key
<1> QED
  BY <1>4, <1>5, <1>6, <1>7 DEF IInv

(* A log is written back as it was read. *)
LEMMA WriteLogStep ==
  ASSUME IInv, NEW u \in Users, WriteLog(u)
  PROVE  IInv'
<1> DEFINE w == <<runs, u, key, data[u]>>
<1>1. /\ pc = "read" /\ reads[u] = "found"
      /\ reads' = [reads EXCEPT ![u] = "written"]
      /\ writes' = writes \cup {w} /\ waiting' = waiting \cup {w}
      /\ UNCHANGED <<selected, files, index, added, runs, initial, pc, at, users, data, updates, failed>>
  BY DEF WriteLog, store
<1>2. /\ failed \in BOOLEAN /\ at \in 1..Len(KEYS) /\ runs \in 1..runs
      /\ reads \in [Users -> {"none", "pending", "found", "failed", "written"}]
      /\ data \in [Users -> Seq(Nat)]
  BY <1>1 DEF IInv, RunTypes, BatchTypes
<1>3. /\ reads' \in [Users -> {"none", "pending", "found", "failed", "written"}]
      /\ \A v \in Users : reads'[v] = "none" <=> reads[v] = "none"
      /\ \A v \in Users : reads'[v] = "found" => reads[v] = "found"
  BY <1>1, <1>2
<1>4. key \in Keys /\ key' = key
  BY <1>1, <1>2, KeysOf DEF key
<1>5. /\ w \in (1..runs) \X Users \X Keys \X Seq(Nat)
      /\ w[1] = runs /\ w[2] = u /\ w[3] = key /\ w[4] = data[u]
      /\ data[u] \in Seq(1..added[<<u, key>>])
  BY <1>1, <1>2, <1>4 DEF IInv, OwnRecords
<1> HIDE DEF w
<1>6. /\ StoreTypes' /\ RecordsKept' /\ OnlyProcessed'
      /\ RunTypes' /\ Updates' /\ Progress' /\ WaitedFor'
      /\ Cardinality({v \in Users : reads'[v] # "none"}) <= BatchSize
  BY <1>1, <1>2, <1>3, ReadsStep
<1>7. BatchTypes'
  BY <1>1, <1>2, <1>3, <1>6 DEF IInv, BatchTypes
<1>8. RequestTypes'
  BY <1>1, <1>5 DEF IInv, RequestTypes
<1>9. OwnRecords'
  BY <1>1, <1>3, <1>4, <1>5 DEF IInv, OwnRecords
<1> QED
  BY <1>6, <1>7, <1>8, <1>9 DEF IInv

(* The results have all been gone through. *)
LEMMA ReadDoneStep ==
  ASSUME IInv, ReadDone
  PROVE  IInv'
<1>1. /\ pc = "read" /\ pc' = "wait"
      /\ \A u \in Users : reads[u] \in {"none", "failed", "written"}
      /\ UNCHANGED <<selected, store, files, index, added, runs, initial, at, users, reads, data, writes, updates, waiting, failed>>
  BY DEF ReadDone, store, batch, requests
<1>2. StoreTypes' /\ RecordsKept' /\ OnlyProcessed'
  BY <1>1, StoreKept
<1>3. RunTypes' /\ BatchTypes' /\ RequestTypes' /\ Updates' /\ WaitedFor'
  BY <1>1 DEF IInv, RunTypes, BatchTypes, RequestTypes, Updates, WaitedFor, Processed
<1>4. OwnRecords'
  BY <1>1 DEF IInv, OwnRecords
<1>5. Progress'
  BY <1>1 DEF IInv, Progress, Done, InHand, Processed, key
<1> QED
  BY <1>2, <1>3, <1>4, <1>5 DEF IInv

(* After a batch there is nothing that is being read or waited for. *)
LEMMA WaitedStep ==
  ASSUME IInv, Waited
  PROVE  IInv'
<1>1. /\ pc = "wait" /\ pc' = "batches" /\ waiting = {}
      /\ reads' = [u \in Users |-> "none"] /\ data' = [u \in Users |-> <<>>]
      /\ UNCHANGED <<selected, store, files, index, added, runs, initial, at, users, writes, updates, waiting, failed>>
  BY DEF Waited, AllEnded, AfterBatch, store, requests
<1>2. StoreTypes' /\ RecordsKept' /\ OnlyProcessed'
  BY <1>1, StoreKept
<1>3. RunTypes' /\ RequestTypes' /\ Updates' /\ WaitedFor'
  BY <1>1 DEF IInv, RunTypes, RequestTypes, Updates, WaitedFor, Processed
<1>4. BatchTypes' /\ OwnRecords'
  BY <1>1, NothingRead DEF IInv, OwnRecords
<1>5. Progress'
  BY <1>1 DEF IInv, Progress, Done, InHand, Processed, key
<1> QED
  BY <1>2, <1>3, <1>4, <1>5 DEF IInv

(* A run that was killed has failed; it waits for nothing. *)
LEMMA CrashStep ==
  ASSUME IInv, Crash
  PROVE  IInv'
<1>1. /\ pc' = "stopped" /\ at' = 1 /\ users' = {} /\ waiting' = {} /\ failed' = TRUE
      /\ reads' = [u \in Users |-> "none"] /\ data' = [u \in Users |-> <<>>]
      /\ UNCHANGED <<selected, store, files, index, added, runs, initial, writes, updates>>
  BY DEF Crash, store
<1>2. StoreTypes' /\ RecordsKept' /\ OnlyProcessed'
  BY <1>1, StoreKept
<1>3. RunTypes'
  BY <1>1, KeysOf DEF IInv, RunTypes
<1>4. BatchTypes' /\ OwnRecords'
  BY <1>1, NothingRead DEF IInv, OwnRecords
<1>5. RequestTypes' /\ Updates' /\ WaitedFor' /\ Progress'
  BY <1>1 DEF IInv, RequestTypes, Updates, WaitedFor, Progress, Processed
<1> QED
  BY <1>2, <1>3, <1>4, <1>5 DEF IInv

(* A write is no update. *)
LEMMA WritesAreNoUpdates ==
  ASSUME RequestTypes, NEW w \in writes
  PROVE  w \notin updates
<1>1. DOMAIN w = 1..4
  BY DEF RequestTypes
<1>2. \A p \in updates : DOMAIN p = 1..3
  BY DEF RequestTypes
<1>3. 4 \in 1..4 /\ 4 \notin 1..3
  OBVIOUS
<1> QED
  BY <1>1, <1>2, <1>3

(* Whatever run a write is of, it appends what was once read of the log. *)
LEMMA ExecuteWriteStep ==
  ASSUME IInv, NEW w \in writes, ExecuteWrite(w)
  PROVE  IInv'
<1> DEFINE f == <<w[2], w[3]>>
<1>1. /\ writes' = writes \ {w} /\ waiting' = waiting \ {w}
      /\ files' = [files EXCEPT ![f] = @ \o w[4]]
      /\ UNCHANGED <<selected, index, added, runs, initial, pc, at, users, reads, data, updates, failed>>
  BY DEF ExecuteWrite, batch, ioflags
<1>2. /\ f \in Files /\ w[4] \in Seq(Nat) /\ w[4] \in Seq(1..added[f])
      /\ files \in [Files -> Seq(Nat)] /\ added \in [Files -> Nat]
  BY DEF IInv, RequestTypes, OwnRecords, StoreTypes, Files
<1> HIDE DEF f
<1>3. /\ files' \in [Files -> Seq(Nat)] /\ files'[f] = files[f] \o w[4]
      /\ \A g \in Files : g # f => files'[g] = files[g]
  <2>1. files[f] \o w[4] \in Seq(Nat)
    BY <1>2
  <2> QED
    BY <1>1, <1>2, <2>1
<1>4. \A g \in Files : Kept(files'[g], added[g])
  <2>1. \A g \in Files : Kept(files[g], added[g])
    BY KeptOf DEF IInv, StoreTypes
  <2>2. Kept(files'[f], added[f])
    BY <1>2, <1>3, <2>1, ConcatKept
  <2> QED
    BY <1>3, <2>1, <2>2
<1>5. StoreTypes' /\ RecordsKept'
  BY <1>1, <1>3, <1>4 DEF IInv, StoreTypes, Kept, RecordsKept
<1>6. RunTypes' /\ BatchTypes' /\ RequestTypes'
  BY <1>1 DEF IInv, RunTypes, BatchTypes, RequestTypes
<1>7. OwnRecords' /\ Updates' /\ OnlyProcessed'
  BY <1>1 DEF IInv, OwnRecords, Updates, OnlyProcessed, Processed, key
<1>8. WaitedFor'
  <2>1. w \notin updates
    BY WritesAreNoUpdates DEF IInv
  <2> QED
    BY <1>1, <2>1 DEF IInv, WaitedFor
<1>9. Progress'
  BY <1>1 DEF IInv, Progress, Done, InHand, Processed, key
<1> QED
  BY <1>5, <1>6, <1>7, <1>8, <1>9 DEF IInv

(* An update puts its user into the new index. *)
LEMMA ExecuteUpdateStep ==
  ASSUME IInv, NEW p \in updates, ExecuteUpdate(p)
  PROVE  IInv'
<1>1. /\ updates' = updates \ {p} /\ waiting' = waiting \ {p}
      /\ index' = [index EXCEPT ![NEW_KEY] = @ \cup {p[2]}]
      /\ UNCHANGED <<selected, files, added, runs, initial, pc, at, users, reads, data, writes, failed>>
  BY DEF ExecuteUpdate, batch
<1>2. /\ p[2] \in Users /\ Processed(p[2]) /\ NEW_KEY \in Keys
      /\ index \in [Keys -> SUBSET Users]
  BY KeysOf DEF IInv, RequestTypes, Updates, StoreTypes
<1>3. /\ index' \in [Keys -> SUBSET Users]
      /\ \A k \in Keys : index[k] \subseteq index'[k]
      /\ index'[NEW_KEY] = index[NEW_KEY] \cup {p[2]}
  BY <1>1, <1>2
<1>4. StoreTypes' /\ RecordsKept'
  BY <1>1, <1>3 DEF IInv, StoreTypes, RecordsKept
<1>5. OnlyProcessed'
  BY <1>1, <1>2, <1>3 DEF IInv, OnlyProcessed, Processed
<1>6. RunTypes' /\ BatchTypes' /\ RequestTypes' /\ OwnRecords'
  BY <1>1 DEF IInv, RunTypes, BatchTypes, RequestTypes, OwnRecords, key
<1>7. Updates' /\ WaitedFor'
  BY <1>1, <1>3 DEF IInv, Updates, WaitedFor, Processed
<1>8. Progress'
  <2>1. \A i \in 1..Len(KEYS) : Done(i) => Done(i)'
    BY <1>1, <1>3 DEF Done, Processed
  <2>2. InHand => InHand'
    <3>1. ASSUME NEW u, <<runs, u, key>> \in updates
          PROVE  <<runs, u, key>> \in updates' \/ u \in index'[NEW_KEY]
      BY <1>1, <1>3, <3>1
    <3> QED
      BY <1>1, <1>3, <3>1 DEF InHand, Processed, key
  <2> QED
    BY <1>1, <2>1, <2>2 DEF IInv, Progress
<1> QED
  BY <1>4, <1>5, <1>6, <1>7, <1>8 DEF IInv

(* A request that ends with an error makes the run a failed one. *)
LEMMA RequestFailsStep ==
  ASSUME IInv, NEW w \in waiting, RequestFails(w)
  PROVE  IInv'
<1>1. /\ waiting' = waiting \ {w} /\ failed' = TRUE
      /\ UNCHANGED <<selected, store, files, index, added, runs, initial, pc, at, users, reads, data, writes, updates>>
  BY DEF RequestFails, store, batch
<1>2. StoreTypes' /\ RecordsKept' /\ OnlyProcessed'
  BY <1>1, StoreKept
<1>3. RunTypes' /\ BatchTypes' /\ RequestTypes' /\ OwnRecords' /\ Updates' /\ WaitedFor'
  BY <1>1 DEF IInv, RunTypes, BatchTypes, RequestTypes, OwnRecords, Updates, WaitedFor, Processed, key
<1>4. Progress'
  BY <1>1 DEF Progress
<1> QED
  BY <1>2, <1>3, <1>4 DEF IInv

(* A request that the tool still waits for is not lost, unless it has       *)
(* failed for the tool before.                                              *)
LEMMA LoseStep ==
  ASSUME IInv, Lose
  PROVE  IInv'
<1>1. /\ writes' \subseteq writes /\ updates' \subseteq updates
      /\ \A p \in updates : p \in waiting => p \in updates'
      /\ UNCHANGED <<selected, store, files, index, added, runs, initial, pc, at, users, reads, data, waiting, failed>>
  BY DEF Lose, store, batch
<1>2. StoreTypes' /\ RecordsKept' /\ OnlyProcessed'
  BY <1>1, StoreKept
<1>3. RunTypes' /\ BatchTypes' /\ RequestTypes' /\ OwnRecords' /\ Updates' /\ WaitedFor'
  BY <1>1 DEF IInv, RunTypes, BatchTypes, RequestTypes, OwnRecords, Updates, WaitedFor, Processed, key
<1>4. Progress'
  <2>1. ASSUME ~failed, NEW u, <<runs, u, key>> \in updates
        PROVE  <<runs, u, key>> \in updates'
    BY <1>1, <2>1 DEF IInv, WaitedFor
  <2>2. ~failed /\ InHand => InHand'
    BY <1>1, <2>1 DEF InHand, Processed, key
  <2> QED
    BY <1>1, <2>2 DEF IInv, Progress, Done, Processed
<1> QED
  BY <1>2, <1>3, <1>4 DEF IInv

(* Every step keeps the invariant. *)
LEMMA InvStep == IInv /\ [Next]_vars => IInv'
<1> SUFFICES ASSUME IInv, [Next]_vars PROVE IInv'
  OBVIOUS
<1>1. CASE \E f \in Files : AddLog(f[1], f[2])
  <2>1. PICK f \in Files : AddLog(f[1], f[2])
    BY <1>1
  <2>2. f[1] \in Users /\ f[2] \in Keys
    BY DEF Files
  <2> QED
    BY <2>1, <2>2, AddLogStep
<1>2. CASE Start
  BY <1>2, StartStep
<1>3. CASE Process
  BY <1>3, FindUsersStep, NextBatchStep, LastBatchDoneStep, WriteLogStep, ReadDoneStep, WaitedStep
     DEF Process
<1>4. CASE Read
  BY <1>4, ReadLogStep, ReadFailsStep DEF Read
<1>5. CASE \E w \in writes : ExecuteWrite(w)
  BY <1>5, ExecuteWriteStep
<1>6. CASE \E p \in updates : ExecuteUpdate(p)
  BY <1>6, ExecuteUpdateStep
<1>7. CASE \E w \in waiting : RequestFails(w)
  BY <1>7, RequestFailsStep
<1>8. CASE Lose
  BY <1>8, LoseStep
<1>9. CASE Crash
  BY <1>9, CrashStep
<1>11. CASE KeyFails
  BY <1>11, KeyFailsStep
<1>10. CASE Quiescent \/ UNCHANGED vars
  <2>1. UNCHANGED <<selected, store, files, index, added, runs, initial, pc, at, users, reads, data, writes, updates, waiting, failed>>
    BY <1>10 DEF Quiescent, vars, store, batch, requests
  <2>2. StoreTypes' /\ RecordsKept' /\ OnlyProcessed'
    BY <2>1, StoreKept
  <2>3. RunTypes' /\ BatchTypes' /\ RequestTypes' /\ OwnRecords' /\ Updates' /\ WaitedFor'
    BY <2>1 DEF IInv, RunTypes, BatchTypes, RequestTypes, OwnRecords, Updates, WaitedFor, Processed, key
  <2>4. Progress'
    BY <2>1 DEF IInv, Progress, Done, InHand, Processed, key
  <2> QED
    BY <2>2, <2>3, <2>4 DEF IInv
<1> QED
  BY <1>1, <1>2, <1>3, <1>4, <1>5, <1>6, <1>7, <1>8, <1>9, <1>10, <1>11 DEF Next

(* The inductive invariant holds however often the tool is run and killed.  *)
THEOREM Invariance == Spec => []IInv
  BY InitInv, InvStep, PTL DEF Spec

(* What the tool keeps of a run, and its requests, have their types, and a  *)
(* batch is never larger than --batch-size.                                 *)
THEOREM TypeCorrect == Spec => []TypeOK
<1>1. IInv => TypeOK
  BY TypeParts DEF IInv
<1> QED
  BY <1>1, Invariance, PTL

(* The tool loses no record and changes the order of none: the records of a *)
(* log come first in the order in which clients added them.                 *)
THEOREM NothingLost == Spec => []RecordsKept
<1>1. IInv => RecordsKept
  BY DEF IInv
<1> QED
  BY <1>1, Invariance, PTL

(* A run without a failure puts everyone it was to process into the index   *)
(* of the new key, and no run puts anyone else there.                       *)
THEOREM Indexed == Spec => []ActiveUnderNewKey
<1>1. IInv => ActiveUnderNewKey
  <2> SUFFICES ASSUME IInv PROVE ActiveUnderNewKey
    OBVIOUS
  <2>1. ASSUME pc = "finished", ~failed, NEW k \in ToSet(KEYS), NEW u \in initial[k], Processed(u)
        PROVE  u \in index[NEW_KEY]
    <3>1. PICK i \in 1..Len(KEYS) : KEYS[i] = k
      BY KeysOf
    <3>2. Done(i)
      BY <2>1 DEF IInv, Progress
    <3> QED
      BY <2>1, <3>1, <3>2 DEF Done
  <2> QED
    BY <2>1 DEF IInv, OnlyProcessed, ActiveUnderNewKey
<1> QED
  BY <1>1, Invariance, PTL
-----------------------------------------------------------------------------
(* How often a record may be in a log.  A write that is on its way puts     *)
(* into its log what its run has read there, so the argument keeps account  *)
(* of the copies that are on their way: at most 2^(r - 1) of any record in  *)
(* a write of run r.                                                        *)
Copies(s, n) == Cardinality({i \in DOMAIN s : s[i] = n})

WritesTo(f) == {w \in writes : w[2] = f[1] /\ w[3] = f[2]}
Pending(f) == {w[1] : w \in WritesTo(f)}

(* The run may still send a write to f: the turn of its key has yet to come,*)
(* its user is in no batch yet, or is being read.                           *)
ToWrite(f) ==
  /\ pc \in {"find", "batches", "read", "wait"}
  /\ \/ \E i \in (at + 1)..Len(KEYS) : KEYS[i] = f[2]
     \/ f[2] = key /\ (pc = "find" \/ f[1] \in users \/ reads[f[1]] \in {"pending", "found"})

(* The copies that f may come to hold without what the run has yet to send. *)
Budget(f) == IF ToWrite(f) THEN 2^(runs - 1) ELSE 2^runs

(* The sum of 2^(p - 1) over the runs p of P, all of 1..r, is at most x:    *)
(* there are partial sums s.                                                *)
SumAtMost(P, r, x) ==
  \E s \in [0..r -> Nat] :
    /\ \A i, j \in 0..r : i <= j => s[i] <= s[j]
    /\ \A p \in P : s[p - 1] + 2^(p - 1) <= s[p]
    /\ s[r] <= x

(* What is on its way to f, with what is there, keeps within the budget; so *)
(* does it with a record that is yet to be added.                           *)
Bounded(f) ==
  \E x \in Nat :
    /\ SumAtMost(Pending(f), runs, x)
    /\ 1 + x <= Budget(f)
    /\ \A n \in Nat : Copies(files[f], n) + x <= Budget(f)

(* No write, and nothing that was read, holds more than half of what the    *)
(* log may hold after its run.                                              *)
HalfCopies ==
  /\ \A w \in writes : \A n \in Nat : Copies(w[4], n) <= 2^(w[1] - 1)
  /\ \A u \in Users : reads[u] = "found" => \A n \in Nat : Copies(data[u], n) <= 2^(runs - 1)

(* A run sends one write to a log, and none after which it may send another.*)
OneWrite ==
  /\ \A w, v \in writes : w[1] = v[1] /\ w[2] = v[2] /\ w[3] = v[3] => w = v
  /\ \A w \in writes : w[1] = runs => ~ToWrite(<<w[2], w[3]>>)

(* The users who are in no batch yet are not being read. *)
ReadsInBatch ==
  /\ \A u \in users : reads[u] = "none"
  /\ pc \notin {"read", "wait"} => \A u \in Users : reads[u] = "none"

(* Whom the tool is not to process it neither reads nor writes. *)
OthersAlone ==
  \A u \in Users : ~Processed(u) =>
    /\ reads[u] = "none"
    /\ \A w \in writes : w[2] # u
    /\ \A k \in Keys : \A n \in Nat : Copies(files[<<u, k>>], n) <= 1

CopyInv ==
  /\ \A f \in Files : Bounded(f)
  /\ HalfCopies
  /\ OneWrite
  /\ ReadsInBatch
-----------------------------------------------------------------------------
(* With one element more a set has twice as many subsets. *)
LEMMA Subsets ==
  ASSUME NEW R, NEW x, x \notin R, IsFiniteSet(SUBSET R)
  PROVE  Cardinality(SUBSET (R \cup {x})) = Cardinality(SUBSET R) + Cardinality(SUBSET R)
<1> DEFINE U == {T \cup {x} : T \in SUBSET R}
           f == [T \in SUBSET R |-> T \cup {x}]
<1>1. f \in [SUBSET R -> U] /\ \A T \in SUBSET R : f[T] = T \cup {x}
  OBVIOUS
<1>2. \A u \in U : \E T \in SUBSET R : f[T] = u
  OBVIOUS
<1>3. \A T, V \in SUBSET R : f[T] = f[V] => T = V
  OBVIOUS
<1>4. (SUBSET R) \cap U = {}
  OBVIOUS
<1>5. SUBSET (R \cup {x}) = (SUBSET R) \cup U
  <2>1. ASSUME NEW T \in SUBSET (R \cup {x}) PROVE T \in (SUBSET R) \cup U
    <3>1. T \ {x} \in SUBSET R /\ (x \in T => T = (T \ {x}) \cup {x})
      OBVIOUS
    <3>2. CASE x \in T
      BY <3>1, <3>2
    <3>3. CASE x \notin T
      BY <3>3
    <3> QED
      BY <3>2, <3>3
  <2>2. ASSUME NEW T \in (SUBSET R) \cup U PROVE T \in SUBSET (R \cup {x})
    OBVIOUS
  <2> QED
    BY <2>1, <2>2
<1> HIDE DEF f, U
<1>6. DOMAIN f = SUBSET R
  BY <1>1
<1>7. f \in Bijection(SUBSET R, U)
  BY <1>1, <1>2, <1>3, <1>6 DEF Bijection, Injection, Surjection, IsInjective
<1>8. IsFiniteSet(U) /\ Cardinality(U) = Cardinality(SUBSET R)
  BY <1>7, FS_Bijection DEF ExistsBijection
<1>9. Cardinality((SUBSET R) \cup U) = Cardinality(SUBSET R) + Cardinality(U) - Cardinality((SUBSET R) \cap U)
  BY <1>8, FS_Union
<1>10. Cardinality((SUBSET R) \cap U) = 0
  BY <1>4, FS_EmptySet
<1>11. Cardinality(SUBSET R) \in Nat
  BY FS_CardinalityType
<1>12. Cardinality((SUBSET R) \cup U) = Cardinality(SUBSET R) + Cardinality(SUBSET R)
  BY <1>8, <1>9, <1>10, <1>11, SMT
<1> QED
  BY <1>5, <1>12

(* A power of two, as the number of subsets, and the next one. *)
LEMMA Powers ==
  ASSUME NEW n \in Nat
  PROVE  2^n \in Nat \ {0} /\ 2^(n + 1) = 2^n + 2^n
<1>1. IsFiniteSet(1..n) /\ Cardinality(1..n) = n /\ IsFiniteSet(1..(n+1)) /\ Cardinality(1..(n+1)) = n + 1
  BY FS_Interval
<1>2. IsFiniteSet(SUBSET (1..n)) /\ Cardinality(SUBSET (1..n)) = 2^n /\ Cardinality(SUBSET (1..(n+1))) = 2^(n + 1)
  BY <1>1, FS_SUBSET
<1>3. Cardinality(SUBSET (1..n)) \in Nat \ {0}
  <2>1. SUBSET (1..n) # {}
    OBVIOUS
  <2> QED
    BY <1>2, <2>1, FS_CardinalityType, FS_EmptySet
<1>4. 1..(n + 1) = (1..n) \cup {n + 1} /\ n + 1 \notin 1..n
  OBVIOUS
<1>5. Cardinality(SUBSET (1..(n + 1))) = Cardinality(SUBSET (1..n)) + Cardinality(SUBSET (1..n))
  BY <1>2, <1>4, Subsets
<1> QED
  BY <1>2, <1>3, <1>5

(* The powers of a run and the one before it. *)
LEMMA HalfPower ==
  ASSUME NEW r \in Nat \ {0}
  PROVE  2^(r - 1) \in Nat \ {0} /\ 2^r = 2^(r - 1) + 2^(r - 1) /\ 2^r \in Nat
<1>1. r - 1 \in Nat /\ (r - 1) + 1 = r
  OBVIOUS
<1> QED
  BY <1>1, Powers

(* Fewer writes on their way. *)
LEMMA SumOfFewer ==
  ASSUME NEW r \in Nat, NEW x, NEW P, NEW Q, Q \subseteq P, SumAtMost(P, r, x)
  PROVE  SumAtMost(Q, r, x)
BY DEF SumAtMost

(* A run without writes so far. *)
LEMMA SumOfMoreRuns ==
  ASSUME NEW r \in Nat, NEW x \in Nat, NEW P, P \subseteq 1..r, SumAtMost(P, r, x)
  PROVE  SumAtMost(P, r + 1, x)
<1>1. PICK s \in [0..r -> Nat] :
        /\ \A i, j \in 0..r : i <= j => s[i] <= s[j]
        /\ \A p \in P : s[p - 1] + 2^(p - 1) <= s[p]
        /\ s[r] <= x
  BY DEF SumAtMost
<1> DEFINE t == [i \in 0..(r + 1) |-> IF i = r + 1 THEN s[r] ELSE s[i]]
<1>2. t \in [0..(r + 1) -> Nat] /\ t[r + 1] = s[r] /\ \A i \in 0..r : t[i] = s[i]
  OBVIOUS
<1> HIDE DEF t
<1>3. ASSUME NEW i \in 0..(r + 1), NEW j \in 0..(r + 1), i <= j PROVE t[i] <= t[j]
  <2>1. CASE j = r + 1
    <3>1. CASE i = r + 1
      BY <1>2, <2>1, <3>1
    <3>2. CASE i # r + 1
      BY <1>1, <1>2, <2>1, <3>2
    <3> QED
      BY <3>1, <3>2
  <2>2. CASE j # r + 1
    BY <1>1, <1>2, <1>3, <2>2
  <2> QED
    BY <2>1, <2>2
<1>4. ASSUME NEW p \in P PROVE t[p - 1] + 2^(p - 1) <= t[p]
  <2>1. p \in 0..r /\ p - 1 \in 0..r
    OBVIOUS
  <2> QED
    BY <1>1, <1>2, <2>1
<1>5. t[r + 1] <= x
  BY <1>1, <1>2
<1> QED
  BY <1>2, <1>3, <1>4, <1>5 DEF SumAtMost

(* A write of the last run on its way. *)
LEMMA SumWithLast ==
  ASSUME NEW r \in Nat \ {0}, NEW x \in Nat, NEW P, P \subseteq 1..r, r \notin P, SumAtMost(P, r, x)
  PROVE  SumAtMost(P \cup {r}, r, x + 2^(r - 1))
<1>1. PICK s \in [0..r -> Nat] :
        /\ \A i, j \in 0..r : i <= j => s[i] <= s[j]
        /\ \A p \in P : s[p - 1] + 2^(p - 1) <= s[p]
        /\ s[r] <= x
  BY DEF SumAtMost
<1> DEFINE t == [s EXCEPT ![r] = s[r] + 2^(r - 1)]
<1>2. 2^(r - 1) \in Nat
  BY HalfPower
<1>3. t \in [0..r -> Nat] /\ t[r] = s[r] + 2^(r - 1) /\ \A i \in 0..(r - 1) : t[i] = s[i]
  BY <1>2
<1> HIDE DEF t
<1>4. ASSUME NEW i \in 0..r, NEW j \in 0..r, i <= j PROVE t[i] <= t[j]
  <2>1. CASE j = r
    <3>1. s[i] <= s[r] /\ s[i] \in Nat /\ s[r] \in Nat
      BY <1>1
    <3> QED
      BY <1>2, <1>3, <2>1, <3>1
  <2>2. CASE j # r
    BY <1>1, <1>3, <1>4, <2>2
  <2> QED
    BY <2>1, <2>2
<1>5. ASSUME NEW p \in P PROVE t[p - 1] + 2^(p - 1) <= t[p]
  <2>1. p \in 0..(r - 1) /\ p - 1 \in 0..(r - 1)
    OBVIOUS
  <2> QED
    BY <1>1, <1>3, <2>1
<1>6. t[r - 1] + 2^(r - 1) <= t[r]
  <2>1. s[r - 1] <= s[r] /\ s[r - 1] \in Nat /\ s[r] \in Nat
    BY <1>1
  <2> QED
    BY <1>2, <1>3, <2>1
<1>7. t[r] <= x + 2^(r - 1)
  BY <1>1, <1>2, <1>3
<1> QED
  BY <1>3, <1>4, <1>5, <1>6, <1>7 DEF SumAtMost

(* One write less on its way. *)
LEMMA SumWithout ==
  ASSUME NEW r \in Nat, NEW x \in Nat, NEW P, P \subseteq 1..r, NEW q \in P, SumAtMost(P, r, x)
  PROVE  x - 2^(q - 1) \in Nat /\ SumAtMost(P \ {q}, r, x - 2^(q - 1))
<1>1. PICK s \in [0..r -> Nat] :
        /\ \A i, j \in 0..r : i <= j => s[i] <= s[j]
        /\ \A p \in P : s[p - 1] + 2^(p - 1) <= s[p]
        /\ s[r] <= x
  BY DEF SumAtMost
<1> DEFINE h == 2^(q - 1)
           t == [i \in 0..r |-> IF i < q THEN s[i] ELSE s[i] - h]
<1>2. q \in 1..r /\ q - 1 \in 0..r /\ h \in Nat
  BY HalfPower
<1>3. s[q - 1] + h <= s[q] /\ s[q - 1] \in Nat /\ s[q] \in Nat
  BY <1>1, <1>2
<1> HIDE DEF h
<1>4. \A i \in q..r : s[i] \in Nat /\ s[q - 1] + h <= s[i] /\ s[i] - h \in Nat
  BY <1>1, <1>2, <1>3
<1>5. /\ t \in [0..r -> Nat]
      /\ \A i \in 0..r : i < q => t[i] = s[i]
      /\ \A i \in 0..r : ~(i < q) => t[i] = s[i] - h
  <2>1. ASSUME NEW i \in 0..r PROVE (IF i < q THEN s[i] ELSE s[i] - h) \in Nat
    <3>1. CASE i < q
      BY <1>1, <3>1
    <3>2. CASE ~(i < q)
      <4>1. i \in q..r
        BY <1>2, <3>2
      <4> QED
        BY <1>4, <3>2, <4>1
    <3> QED
      BY <3>1, <3>2
  <2> QED
    BY <2>1
<1> HIDE DEF t
<1>6. ASSUME NEW i \in 0..r, NEW j \in 0..r, i <= j PROVE t[i] <= t[j]
  <2>1. s[i] <= s[j] /\ s[i] \in Nat /\ s[j] \in Nat
    BY <1>1, <1>6
  <2>2. CASE j < q
    <3>1. i < q
      BY <1>2, <1>6, <2>2
    <3> QED
      BY <1>5, <2>1, <2>2, <3>1
  <2>3. CASE ~(j < q) /\ i < q
    <3>1. i <= q - 1 /\ j \in q..r
      BY <1>2, <2>3
    <3>2. s[i] <= s[q - 1]
      BY <1>1, <1>2, <3>1
    <3>3. s[q - 1] + h <= s[j] /\ s[j] - h \in Nat
      BY <1>4, <3>1
    <3>4. s[i] <= s[j] - h
      BY <1>2, <1>3, <2>1, <3>2, <3>3
    <3> QED
      BY <1>5, <2>3, <3>4
  <2>4. CASE ~(i < q)
    <3>1. ~(j < q)
      BY <1>2, <1>6, <2>4
    <3>2. t[i] = s[i] - h /\ t[j] = s[j] - h
      BY <1>5, <2>4, <3>1
    <3>3. s[i] - h <= s[j] - h
      BY <1>2, <2>1
    <3> QED
      BY <3>2, <3>3
  <2>5. j < q \/ (~(j < q) /\ i < q) \/ ~(i < q)
    OBVIOUS
  <2> QED
    BY <2>2, <2>3, <2>4, <2>5
<1>7. ASSUME NEW p \in P \ {q} PROVE t[p - 1] + 2^(p - 1) <= t[p]
  <2>1. p \in 1..r /\ p - 1 \in 0..r /\ p \in Nat \ {0} /\ p \in 0..r
    BY <1>2
  <2>5. s[p - 1] + 2^(p - 1) <= s[p] /\ s[p - 1] \in Nat /\ s[p] \in Nat
    BY <1>1, <2>1
  <2>6. 2^(p - 1) \in Nat
    BY <2>1, HalfPower
  <2>2. CASE p < q
    <3>1. p - 1 < q
      BY <1>2, <2>1, <2>2
    <3>2. t[p - 1] = s[p - 1] /\ t[p] = s[p]
      BY <1>5, <2>1, <2>2, <3>1
    <3> QED
      BY <2>5, <3>2
  <2>3. CASE p > q
    <3>1. ~(p - 1 < q) /\ ~(p < q)
      BY <1>2, <2>1, <2>3
    <3>2. t[p - 1] = s[p - 1] - h /\ t[p] = s[p] - h
      BY <1>5, <2>1, <3>1
    <3> QED
      BY <1>2, <2>5, <2>6, <3>2
  <2> QED
    BY <1>2, <2>1, <2>2, <2>3
<1>8. t[r] = s[r] - h /\ s[r] \in Nat /\ s[r] - h \in Nat
  BY <1>1, <1>2, <1>4, <1>5
<1>9. t[r] <= x - h /\ x - h \in Nat
  BY <1>1, <1>2, <1>8
<1> QED
  BY <1>5, <1>6, <1>7, <1>9 DEF SumAtMost, h
-----------------------------------------------------------------------------
(* The number of copies, none of a record that is not there. *)
LEMMA CopiesType ==
  ASSUME NEW s, s \in Seq(Nat), NEW n
  PROVE  /\ IsFiniteSet({i \in DOMAIN s : s[i] = n}) /\ Copies(s, n) \in Nat
         /\ \A m \in Nat : s \in Seq(1..m) /\ n \notin 1..m => Copies(s, n) = 0
<1>1. DOMAIN s = 1..Len(s) /\ Len(s) \in Nat
  OBVIOUS
<1>2. IsFiniteSet(DOMAIN s)
  BY <1>1, FS_Interval
<1>3. IsFiniteSet({i \in DOMAIN s : s[i] = n})
  BY <1>2, FS_Subset
<1>4. ASSUME NEW m \in Nat, s \in Seq(1..m), n \notin 1..m PROVE Copies(s, n) = 0
  <2>1. \A i \in DOMAIN s : s[i] \in 1..m
    BY <1>4
  <2>2. {i \in DOMAIN s : s[i] = n} = {}
    BY <1>4, <2>1
  <2> QED
    BY <2>2, FS_EmptySet DEF Copies
<1> QED
  BY <1>3, <1>4, FS_CardinalityType DEF Copies

(* One record more. *)
LEMMA CopiesAppend ==
  ASSUME NEW s, s \in Seq(Nat), NEW e \in Nat, NEW n
  PROVE  Copies(Append(s, e), n) = Copies(s, n) + IF e = n THEN 1 ELSE 0
<1> DEFINE t == Append(s, e)
           S == {i \in DOMAIN s : s[i] = n}
           T == {i \in DOMAIN t : t[i] = n}
<1>1. /\ DOMAIN s = 1..Len(s) /\ Len(s) \in Nat /\ DOMAIN t = 1..(Len(s) + 1)
      /\ t[Len(s) + 1] = e /\ \A i \in 1..Len(s) : t[i] = s[i]
  OBVIOUS
<1> HIDE DEF t
<1>2. IsFiniteSet(S) /\ Copies(s, n) = Cardinality(S) /\ Cardinality(S) \in Nat
  BY CopiesType DEF Copies
<1>5. Copies(t, n) = Cardinality(T)
  BY DEF Copies
<1> HIDE DEF S, T
<1>3. CASE e = n
  <2>1. T = S \cup {Len(s) + 1} /\ Len(s) + 1 \notin S
    BY <1>1, <1>3 DEF S, T
  <2>2. Cardinality(T) = Cardinality(S) + 1
    BY <1>2, <2>1, FS_AddElement
  <2>3. Copies(t, n) = Copies(s, n) + 1
    BY <1>2, <1>5, <2>2
  <2> QED
    BY <1>3, <2>3 DEF t
<1>4. CASE e # n
  <2>1. T = S
    BY <1>1, <1>4 DEF S, T
  <2>2. Copies(t, n) = Copies(s, n) + 0
    BY <1>2, <1>5, <2>1
  <2> QED
    BY <1>4, <2>2 DEF t
<1> QED
  BY <1>3, <1>4

(* Two logs, one behind the other. *)
LEMMA CopiesConcat ==
  ASSUME NEW s, s \in Seq(Nat), NEW d, d \in Seq(Nat), NEW n
  PROVE  Copies(s \o d, n) = Copies(s, n) + Copies(d, n)
<1> DEFINE t == s \o d
           S == {i \in DOMAIN s : s[i] = n}
           D == {i \in DOMAIN d : d[i] = n}
           T == {i \in DOMAIN t : t[i] = n}
           E == {i \in T : i > Len(s)}
           g == [i \in D |-> i + Len(s)]
<1>1. /\ DOMAIN s = 1..Len(s) /\ Len(s) \in Nat /\ DOMAIN d = 1..Len(d) /\ Len(d) \in Nat
      /\ DOMAIN t = 1..(Len(s) + Len(d))
  OBVIOUS
<1>2. /\ \A i \in 1..Len(s) : t[i] = s[i]
      /\ \A i \in 1..Len(d) : t[i + Len(s)] = d[i]
      /\ \A i \in 1..(Len(s) + Len(d)) : i > Len(s) => t[i] = d[i - Len(s)]
  BY <1>1
<1> HIDE DEF t
<1>3. T = S \cup E /\ S \cap E = {}
  BY <1>1, <1>2
<1>4. IsFiniteSet(S) /\ Copies(s, n) = Cardinality(S) /\ Cardinality(S) \in Nat
      /\ IsFiniteSet(D) /\ Copies(d, n) = Cardinality(D) /\ Cardinality(D) \in Nat
  BY CopiesType DEF Copies
<1>5. g \in [D -> E] /\ \A i \in D : g[i] = i + Len(s)
  BY <1>1, <1>2
<1>6. \A j \in E : \E i \in D : g[i] = j
  <2>1. ASSUME NEW j \in E PROVE \E i \in D : g[i] = j
    <3>1. j - Len(s) \in D /\ (j - Len(s)) + Len(s) = j
      BY <1>1, <1>2
    <3> QED
      BY <1>5, <3>1
  <2> QED
    BY <2>1
<1>7. \A i, j \in D : g[i] = g[j] => i = j
  BY <1>1, <1>5
<1>8. DOMAIN g = D
  BY <1>5
<1> HIDE DEF g, S, D, E, T
<1>9. g \in Bijection(D, E)
  BY <1>5, <1>6, <1>7, <1>8 DEF Bijection, Injection, Surjection, IsInjective
<1>10. IsFiniteSet(E) /\ Cardinality(E) = Cardinality(D)
  BY <1>4, <1>9, FS_Bijection DEF ExistsBijection
<1>11. Cardinality(S \cap E) = 0
  BY <1>3, FS_EmptySet
<1>12. Cardinality(T) = Cardinality(S) + Cardinality(E) - Cardinality(S \cap E)
  BY <1>3, <1>4, <1>10, FS_Union
<1>13. Cardinality(T) = Cardinality(S) + Cardinality(D)
  BY <1>4, <1>10, <1>11, <1>12, SMT
<1>14. Copies(s \o d, n) = Cardinality(T)
  BY DEF Copies, T, t
<1> QED
  BY <1>4, <1>13, <1>14
-----------------------------------------------------------------------------
(* The budget is 2^runs, or half of it if the run may still write. *)
LEMMA Budgets ==
  ASSUME IInv, NEW f
  PROVE  /\ Budget(f) \in Nat /\ 2^runs \in Nat /\ Budget(f) <= 2^runs
         /\ ToWrite(f) => runs \in Nat \ {0} /\ Budget(f) = 2^(runs - 1) /\ 2^runs = 2^(runs - 1) + 2^(runs - 1)
         /\ ~ToWrite(f) => Budget(f) = 2^runs
<1>1. runs \in Nat /\ (ToWrite(f) => runs \in Nat \ {0})
  BY DEF IInv, RunTypes, ToWrite
<1>2. 2^runs \in Nat
  BY <1>1, Powers
<1>3. CASE ToWrite(f)
  <2>1. 2^(runs - 1) \in Nat /\ 2^runs = 2^(runs - 1) + 2^(runs - 1) /\ runs \in Nat \ {0}
    BY <1>1, <1>3, HalfPower
  <2>2. Budget(f) = 2^(runs - 1)
    BY <1>3 DEF Budget
  <2> QED
    BY <1>2, <1>3, <2>1, <2>2
<1>4. CASE ~ToWrite(f)
  BY <1>2, <1>4 DEF Budget
<1> QED
  BY <1>3, <1>4

(* The runs whose writes are on their way. *)
LEMMA PendingRuns ==
  ASSUME IInv, NEW f
  PROVE  runs \in Nat /\ Pending(f) \subseteq 1..runs
BY DEF IInv, RunTypes, RequestTypes, Pending, WritesTo

(* A log that a step leaves as it is, with no more writes on their way.     *)
LEMMA LogStill ==
  ASSUME IInv, NEW f \in Files, Bounded(f), UNCHANGED runs, files'[f] = files[f],
         WritesTo(f)' \subseteq WritesTo(f), ToWrite(f)' => ToWrite(f)
  PROVE  Bounded(f)'
<1>1. PICK x \in Nat : /\ SumAtMost(Pending(f), runs, x)
                       /\ 1 + x <= Budget(f)
                       /\ \A n \in Nat : Copies(files[f], n) + x <= Budget(f)
  BY DEF Bounded
<1>2. SumAtMost(Pending(f)', runs', x)
  <2>1. Pending(f)' \subseteq Pending(f)
    BY DEF Pending
  <2> QED
    BY <1>1, <2>1, PendingRuns, SumOfFewer
<1>3. Budget(f)' = Budget(f) \/ Budget(f)' = 2^runs
  BY DEF Budget
<1>4. Budget(f) <= Budget(f)' /\ Budget(f) \in Nat /\ Budget(f)' \in Nat
  BY <1>3, Budgets
<1>5. 1 + x <= Budget(f)'
  BY <1>1, <1>4
<1>6. ASSUME NEW n \in Nat PROVE Copies(files'[f], n) + x <= Budget(f)'
  <2>1. Copies(files[f], n) \in Nat
    BY CopiesType DEF IInv, StoreTypes
  <2> QED
    BY <1>1, <1>4, <2>1
<1> QED
  BY <1>2, <1>5, <1>6 DEF Bounded

(* The logs, and what was read of them, are left as they are, and nothing   *)
(* is sent.                                                                 *)
LEMMA LogsStill ==
  ASSUME IInv, CopyInv, UNCHANGED <<files, runs>>, writes' \subseteq writes,
         \A f \in Files : ToWrite(f)' => ToWrite(f),
         \A u \in Users : reads'[u] = "found" => reads[u] = "found" /\ data'[u] = data[u],
         ReadsInBatch'
  PROVE  CopyInv'
<1>1. ASSUME NEW f \in Files PROVE Bounded(f)'
  <2>1. WritesTo(f)' \subseteq WritesTo(f)
    BY DEF WritesTo
  <2> QED
    BY <2>1, LogStill DEF CopyInv
<1>2. HalfCopies'
  BY DEF CopyInv, HalfCopies
<1>3. OneWrite'
  <2>1. \A w \in writes : <<w[2], w[3]>> \in Files
    BY DEF IInv, RequestTypes, Files
  <2> QED
    BY <2>1 DEF CopyInv, OneWrite
<1> QED
  BY <1>1, <1>2, <1>3 DEF CopyInv

(* What the tool's process does between its requests. *)
LEMMA CopiesInLoops ==
  ASSUME IInv, CopyInv, FindUsers \/ KeyFails \/ NextBatch \/ LastBatchDone \/ ReadDone \/ Waited \/ Crash
  PROVE  CopyInv'
<1>1. CASE FindUsers
  <2>1. UNCHANGED <<files, runs, writes, reads, data, at>> /\ pc = "find" /\ pc' = "batches"
    BY <1>1 DEF FindUsers, store, batch, requests
  <2>2. \A f \in Files : ToWrite(f)' => ToWrite(f)
    BY <2>1 DEF ToWrite, key
  <2>3. ReadsInBatch'
    <3>1. users' \subseteq Users
      BY <1>1, KeysOf DEF FindUsers, IInv, StoreTypes, RunTypes, key
    <3> QED
      BY <2>1, <3>1 DEF CopyInv, ReadsInBatch
  <2> QED
    BY <2>1, <2>2, <2>3, LogsStill
<1>2. CASE KeyFails \/ LastBatchDone
  <2>1. /\ UNCHANGED <<files, runs, writes>> /\ pc \in {"find", "batches", "read", "wait"} /\ users' = {}
        /\ (pc = "batches" /\ UNCHANGED <<reads, data>>) \/ reads' = [u \in Users |-> "none"]
        /\ \/ at < Len(KEYS) /\ at' = at + 1 /\ pc' = "find"
           \/ pc' = "finished"
    BY <1>2 DEF KeyFails, LastBatchDone, NextKey, store, batch, requests
  <2>2. at \in 1..Len(KEYS) /\ Len(KEYS) \in Nat
    BY KeysOf DEF IInv, RunTypes
  <2>3. ASSUME NEW f \in Files, ToWrite(f)' PROVE ToWrite(f)
    <3>1. at' = at + 1 /\ at + 1 \in (at + 1)..Len(KEYS)
      BY <2>1, <2>2, <2>3 DEF ToWrite
    <3>2. CASE \E i \in (at' + 1)..Len(KEYS) : KEYS[i] = f[2]
      <4>1. \E i \in (at + 1)..Len(KEYS) : KEYS[i] = f[2]
        BY <2>2, <3>1, <3>2
      <4> QED
        BY <2>1, <4>1 DEF ToWrite
    <3>3. CASE f[2] = key'
      <4>1. \E i \in (at + 1)..Len(KEYS) : KEYS[i] = f[2]
        BY <3>1, <3>3 DEF key
      <4> QED
        BY <2>1, <4>1 DEF ToWrite
    <3> QED
      BY <2>3, <3>2, <3>3 DEF ToWrite
  <2>4. ReadsInBatch'
    <3>1. CASE pc = "batches" /\ UNCHANGED <<reads, data>>
      BY <2>1, <3>1 DEF CopyInv, ReadsInBatch
    <3>2. CASE reads' = [u \in Users |-> "none"]
      BY <2>1, <3>2 DEF ReadsInBatch
    <3> QED
      BY <2>1, <3>1, <3>2
  <2>5. \A u \in Users : reads'[u] = "found" => reads[u] = "found" /\ data'[u] = data[u]
    BY <2>1
  <2> QED
    BY <2>1, <2>3, <2>4, <2>5, LogsStill
<1>3. CASE NextBatch
  <2>1. PICK b \in Batches(users) :
          /\ users' = users \ b
          /\ reads' = [u \in Users |-> IF u \in Chosen(b) THEN "pending" ELSE "none"]
          /\ pc' = IF Chosen(b) = {} THEN "batches" ELSE "read"
    BY <1>3 DEF NextBatch, Left
  <2>2. UNCHANGED <<files, runs, writes, data, at>> /\ pc = "batches"
    BY <1>3 DEF NextBatch, store
  <2>3. users \subseteq Users /\ b \subseteq users /\ Chosen(b) \subseteq b
    <3>1. users \subseteq Users
      BY DEF IInv, RunTypes
    <3> QED
      BY <3>1, BatchSizes
  <2>4. ASSUME NEW f \in Files, ToWrite(f)' PROVE ToWrite(f)
    <3>1. f[1] \in Users
      BY DEF Files
    <3>2. f[1] \in users' \/ reads'[f[1]] \in {"pending", "found"} => f[1] \in users
      BY <2>1, <2>3, <3>1
    <3> QED
      BY <2>1, <2>2, <2>4, <3>2 DEF ToWrite, key
  <2>5. ReadsInBatch'
    BY <2>1, <2>3 DEF ReadsInBatch
  <2>6. \A u \in Users : reads'[u] # "found"
    BY <2>1
  <2> QED
    BY <2>2, <2>4, <2>5, <2>6, LogsStill
<1>4. CASE ReadDone
  <2>1. UNCHANGED <<files, runs, writes, data, reads, at, users>> /\ pc = "read" /\ pc' = "wait"
    BY <1>4 DEF ReadDone, store, batch, requests
  <2>2. \A f \in Files : ToWrite(f)' => ToWrite(f)
    BY <2>1 DEF ToWrite, key
  <2>3. ReadsInBatch'
    BY <2>1 DEF CopyInv, ReadsInBatch
  <2> QED
    BY <2>1, <2>2, <2>3, LogsStill
<1>5. CASE Waited
  <2>1. /\ UNCHANGED <<files, runs, writes, at, users>> /\ pc = "wait" /\ pc' = "batches"
        /\ reads' = [u \in Users |-> "none"]
    BY <1>5 DEF Waited, AfterBatch, store, requests
  <2>2. ASSUME NEW f \in Files, ToWrite(f)' PROVE ToWrite(f)
    <3>1. f[1] \in Users
      BY DEF Files
    <3> QED
      BY <2>1, <2>2, <3>1 DEF ToWrite, key
  <2>3. users \subseteq Users
    BY DEF IInv, RunTypes
  <2>4. ReadsInBatch'
    BY <2>1, <2>3 DEF ReadsInBatch
  <2> QED
    BY <2>1, <2>2, <2>4, LogsStill
<1>6. CASE Crash
  <2>1. /\ UNCHANGED <<files, runs, writes>> /\ pc' = "stopped" /\ users' = {}
        /\ reads' = [u \in Users |-> "none"]
    BY <1>6 DEF Crash, store
  <2>2. ReadsInBatch'
    BY <2>1 DEF ReadsInBatch
  <2> QED
    BY <2>1, <2>2, LogsStill DEF ToWrite
<1> QED
  BY <1>1, <1>2, <1>3, <1>4, <1>5, <1>6

(* What becomes of a request that has no effect on a log, and a read that   *)
(* fails.                                                                   *)
LEMMA CopiesInRequests ==
  ASSUME IInv, CopyInv,
         \/ \E u \in Users : ReadFails(u)
         \/ \E p \in updates : ExecuteUpdate(p)
         \/ \E w \in waiting : RequestFails(w)
         \/ Lose
         \/ UNCHANGED vars
  PROVE  CopyInv'
<1>1. CASE \E u \in Users : ReadFails(u)
  <2>1. PICK u \in Users : ReadFails(u)
    BY <1>1
  <2>2. /\ UNCHANGED <<files, runs, pc, at, users, data, writes>>
        /\ reads' = [reads EXCEPT ![u] = "failed"] /\ reads[u] = "pending"
    BY <2>1 DEF ReadFails, store, requests
  <2>3. \A v \in Users : reads'[v] = IF v = u THEN "failed" ELSE reads[v]
    BY <2>2 DEF IInv, BatchTypes
  <2>4. users \subseteq Users
    BY DEF IInv, RunTypes
  <2>5. ASSUME NEW f \in Files, ToWrite(f)' PROVE ToWrite(f)
    <3>1. f[1] \in Users
      BY DEF Files
    <3> QED
      BY <2>2, <2>3, <2>5, <3>1 DEF ToWrite, key
  <2>6. ReadsInBatch'
    BY <2>2, <2>3, <2>4 DEF CopyInv, ReadsInBatch
  <2> QED
    BY <2>2, <2>3, <2>5, <2>6, LogsStill
<1>2. ASSUME UNCHANGED <<files, runs, pc, at, users, reads, data>>, writes' \subseteq writes
      PROVE  CopyInv'
  <2>1. \A f \in Files : ToWrite(f)' => ToWrite(f)
    BY <1>2 DEF ToWrite, key
  <2>2. ReadsInBatch'
    BY <1>2 DEF CopyInv, ReadsInBatch
  <2> QED
    BY <1>2, <2>1, <2>2, LogsStill
<1>3. CASE \E p \in updates : ExecuteUpdate(p)
  BY <1>2, <1>3 DEF ExecuteUpdate, batch
<1>4. CASE \E w \in waiting : RequestFails(w)
  BY <1>2, <1>4 DEF RequestFails, batch, store
<1>5. CASE Lose
  BY <1>2, <1>5 DEF Lose, batch, store
<1>6. CASE UNCHANGED vars
  BY <1>2, <1>6 DEF vars, batch, store, requests
<1> QED
  BY <1>1, <1>3, <1>4, <1>5, <1>6

(* A log that is read has no write of this run on its way: what is there    *)
(* now is at most half of what may be there after the run.                  *)
LEMMA CopiesRead ==
  ASSUME IInv, CopyInv, NEW u \in Users, ReadLog(u)
  PROVE  CopyInv'
<1> DEFINE f == <<u, key>>
<1>1. /\ UNCHANGED <<files, runs, pc, at, users, writes>>
      /\ reads' = [reads EXCEPT ![u] = "found"] /\ reads[u] = "pending"
      /\ data' = [data EXCEPT ![u] = files[f]]
  BY DEF ReadLog, store, requests
<1>2. /\ \A v \in Users : reads'[v] = IF v = u THEN "found" ELSE reads[v]
      /\ \A v \in Users : data'[v] = IF v = u THEN files[f] ELSE data[v]
  BY <1>1 DEF IInv, BatchTypes
<1>3. users \subseteq Users /\ pc = "read"
  BY <1>1 DEF IInv, RunTypes, BatchTypes
<1>4. ASSUME NEW g \in Files PROVE Bounded(g)'
  <2>1. g[1] \in Users
    BY DEF Files
  <2>2. ToWrite(g)' => ToWrite(g)
    BY <1>1, <1>2, <2>1 DEF ToWrite, key
  <2>3. WritesTo(g)' \subseteq WritesTo(g)
    BY <1>1 DEF WritesTo
  <2> QED
    BY <1>1, <2>2, <2>3, LogStill DEF CopyInv
<1>5. \A w \in writes : ToWrite(<<w[2], w[3]>>)' => ToWrite(<<w[2], w[3]>>)
  BY <1>1, <1>2 DEF ToWrite, key, IInv, RequestTypes
<1>6. OneWrite'
  BY <1>1, <1>5 DEF CopyInv, OneWrite
<1>7. ReadsInBatch'
  BY <1>1, <1>2, <1>3 DEF CopyInv, ReadsInBatch
<1>8. HalfCopies'
  <2>1. f \in Files /\ ToWrite(f)
    BY <1>1, <1>3, KeysOf DEF Files, ToWrite, key, IInv, RunTypes
  <2>2. PICK x \in Nat : \A n \in Nat : Copies(files[f], n) + x <= Budget(f)
    BY <2>1 DEF CopyInv, Bounded
  <2>3. Budget(f) = 2^(runs - 1) /\ Budget(f) \in Nat
    BY <2>1, Budgets
  <2>4. ASSUME NEW n \in Nat PROVE Copies(files[f], n) <= 2^(runs - 1)
    <3>1. Copies(files[f], n) \in Nat
      BY <2>1, CopiesType DEF IInv, StoreTypes
    <3>2. Copies(files[f], n) + x <= Budget(f)
      BY <2>2
    <3> QED
      BY <2>3, <3>1, <3>2
  <2>5. ASSUME NEW v \in Users, reads'[v] = "found", NEW n \in Nat PROVE Copies(data'[v], n) <= 2^(runs - 1)
    <3>1. CASE v = u
      BY <1>2, <2>4, <3>1
    <3>2. CASE v # u
      BY <1>2, <2>5, <3>2 DEF CopyInv, HalfCopies
    <3> QED
      BY <3>1, <3>2
  <2> QED
    BY <1>1, <2>5 DEF CopyInv, HalfCopies
<1> QED
  BY <1>4, <1>6, <1>7, <1>8 DEF CopyInv

(* A run that is not given a key twice does not come back to the log it     *)
(* writes to.                                                               *)
LEMMA CopiesWrite ==
  ASSUME IInv, CopyInv, IsInjective(KEYS), NEW u \in Users, WriteLog(u)
  PROVE  CopyInv'
<1>0. PICK f, m : f = <<u, key>> /\ m = <<runs, u, key, data[u]>>
  OBVIOUS
<1>1. /\ UNCHANGED <<files, runs, pc, at, users, data>>
      /\ reads' = [reads EXCEPT ![u] = "written"] /\ reads[u] = "found"
      /\ writes' = writes \cup {m} /\ pc = "read"
  BY <1>0 DEF WriteLog, store
<1>2. \A v \in Users : reads'[v] = IF v = u THEN "written" ELSE reads[v]
  BY <1>1 DEF IInv, BatchTypes
<1>3. users \subseteq Users /\ u \notin users /\ at \in 1..Len(KEYS) /\ f \in Files
  BY <1>0, <1>1, KeysOf DEF Files, key, CopyInv, ReadsInBatch, IInv, RunTypes
<1>4. ToWrite(f) /\ ~ToWrite(f)'
  <2>1. ToWrite(f)
    BY <1>0, <1>1 DEF ToWrite
  <2>2. \A i \in (at + 1)..Len(KEYS) : KEYS[i] # key
    <3>1. DOMAIN KEYS = 1..Len(KEYS) /\ Len(KEYS) \in Nat
      BY KeysAssumption
    <3>2. \A i \in (at + 1)..Len(KEYS) : i \in DOMAIN KEYS /\ at \in DOMAIN KEYS /\ i # at
      BY <1>3, <3>1
    <3> QED
      BY <3>2 DEF IsInjective, key
  <2>3. ~ToWrite(f)'
    BY <1>0, <1>1, <1>2, <1>3, <2>2 DEF ToWrite, key
  <2> QED
    BY <2>1, <2>3
<1>5. runs \in Nat \ {0} /\ Budget(f) = 2^(runs - 1) /\ 2^runs = 2^(runs - 1) + 2^(runs - 1)
      /\ 2^(runs - 1) \in Nat /\ Budget(f)' = 2^runs
  <2>1. runs \in Nat \ {0} /\ Budget(f) = 2^(runs - 1) /\ 2^runs = 2^(runs - 1) + 2^(runs - 1)
        /\ Budget(f) \in Nat
    BY <1>4, Budgets
  <2>2. Budget(f)' = 2^runs
    BY <1>1, <1>4 DEF Budget
  <2> QED
    BY <2>1, <2>2
<1>6. Bounded(f)'
  <2>1. PICK x \in Nat : /\ SumAtMost(Pending(f), runs, x)
                         /\ 1 + x <= Budget(f)
                         /\ \A n \in Nat : Copies(files[f], n) + x <= Budget(f)
    BY <1>3 DEF CopyInv, Bounded
  <2>2. runs \notin Pending(f)
    BY <1>4, <1>0 DEF CopyInv, OneWrite, Pending, WritesTo
  <2>3. Pending(f)' \subseteq Pending(f) \cup {runs}
    <3>1. ASSUME NEW p \in Pending(f)' PROVE p \in Pending(f) \cup {runs}
      <4>1. PICK w \in writes' : w[2] = f[1] /\ w[3] = f[2] /\ p = w[1]
        BY DEF Pending, WritesTo
      <4>2. CASE w \in writes
        BY <4>1, <4>2 DEF Pending, WritesTo
      <4>3. CASE w = m
        BY <1>0, <4>1, <4>3
      <4> QED
        BY <1>1, <4>2, <4>3
    <3> QED
      BY <3>1
  <2>4. SumAtMost(Pending(f) \cup {runs}, runs, x + 2^(runs - 1))
    BY <1>5, <2>1, <2>2, PendingRuns, SumWithLast
  <2>5. SumAtMost(Pending(f)', runs', x + 2^(runs - 1))
    <3>1. SumAtMost(Pending(f)', runs, x + 2^(runs - 1))
      BY <1>5, <2>3, <2>4, SumOfFewer
    <3> QED
      BY <1>1, <3>1
  <2>6. 1 + (x + 2^(runs - 1)) <= Budget(f)' /\ x + 2^(runs - 1) \in Nat
    BY <1>5, <2>1
  <2>7. ASSUME NEW n \in Nat PROVE Copies(files'[f], n) + (x + 2^(runs - 1)) <= Budget(f)'
    <3>1. Copies(files[f], n) \in Nat /\ Copies(files[f], n) + x <= Budget(f)
      BY <1>3, <2>1, CopiesType DEF IInv, StoreTypes
    <3> QED
      BY <1>1, <1>5, <3>1
  <2> QED
    BY <2>5, <2>6, <2>7 DEF Bounded
<1>7. ASSUME NEW g \in Files, g # f PROVE Bounded(g)'
  <2>1. g[1] \in Users /\ ~(m[2] = g[1] /\ m[3] = g[2])
    BY <1>0, <1>7 DEF Files
  <2>2. ToWrite(g)' => ToWrite(g)
    BY <1>0, <1>1, <1>2, <2>1 DEF ToWrite, key
  <2>3. WritesTo(g)' \subseteq WritesTo(g)
    BY <1>1, <2>1 DEF WritesTo
  <2> QED
    BY <1>1, <2>2, <2>3, LogStill DEF CopyInv
<1>8. \A w \in writes : w[2] \in Users /\ (ToWrite(<<w[2], w[3]>>)' => ToWrite(<<w[2], w[3]>>))
  BY <1>1, <1>2 DEF ToWrite, key, IInv, RequestTypes
<1>9. OneWrite'
  <2>1. m[1] = runs /\ m[2] = u /\ m[3] = key /\ <<m[2], m[3]>> = f
    BY <1>0
  <2>2. \A w \in writes : ~(w[1] = runs /\ w[2] = u /\ w[3] = key)
    BY <1>0, <1>4 DEF CopyInv, OneWrite
  <2>3. ASSUME NEW w \in writes', NEW v \in writes', w[1] = v[1], w[2] = v[2], w[3] = v[3] PROVE w = v
    <3>1. CASE w = m \/ v = m
      BY <1>1, <2>1, <2>2, <2>3, <3>1
    <3>2. CASE w \in writes /\ v \in writes
      BY <2>3, <3>2 DEF CopyInv, OneWrite
    <3> QED
      BY <1>1, <3>1, <3>2
  <2>4. ASSUME NEW w \in writes', w[1] = runs PROVE ~ToWrite(<<w[2], w[3]>>)'
    <3>1. CASE w = m
      BY <1>4, <2>1, <3>1
    <3>2. CASE w \in writes
      BY <1>8, <2>4, <3>2 DEF CopyInv, OneWrite
    <3> QED
      BY <1>1, <3>1, <3>2
  <2> QED
    BY <1>1, <2>3, <2>4 DEF OneWrite
<1>10. ReadsInBatch'
  BY <1>1, <1>2, <1>3 DEF CopyInv, ReadsInBatch
<1>11. HalfCopies'
  <2>1. m[1] = runs /\ m[4] = data[u] /\ \A n \in Nat : Copies(data[u], n) <= 2^(runs - 1)
    BY <1>0, <1>1 DEF CopyInv, HalfCopies
  <2>2. \A v \in Users : reads'[v] = "found" => reads[v] = "found"
    BY <1>2
  <2> QED
    BY <1>1, <2>1, <2>2 DEF CopyInv, HalfCopies
<1> QED
  BY <1>6, <1>7, <1>9, <1>10, <1>11 DEF CopyInv

(* What a write brings into its log is no more than its share. *)
LEMMA CopiesExecuted ==
  ASSUME IInv, CopyInv, NEW w \in writes, ExecuteWrite(w)
  PROVE  CopyInv'
<1> DEFINE f == <<w[2], w[3]>>
<1>1. /\ writes' = writes \ {w} /\ files' = [files EXCEPT ![f] = @ \o w[4]]
      /\ UNCHANGED <<runs, pc, at, users, reads, data>>
  BY DEF ExecuteWrite, batch, ioflags
<1>2. /\ f \in Files /\ w[4] \in Seq(Nat) /\ f[1] = w[2] /\ f[2] = w[3] /\ w[1] \in 1..runs
      /\ files[f] \in Seq(Nat) /\ DOMAIN files = Files
  BY DEF IInv, RequestTypes, StoreTypes, Files
<1> HIDE DEF f
<1>3. files'[f] = files[f] \o w[4] /\ \A g \in Files : g # f => files'[g] = files[g]
  BY <1>1, <1>2
<1>4. \A g \in Files : ToWrite(g)' <=> ToWrite(g)
  BY <1>1 DEF ToWrite, key
<1>5. Bounded(f)'
  <2> DEFINE h == 2^(w[1] - 1)
  <2>1. PICK x \in Nat : /\ SumAtMost(Pending(f), runs, x)
                         /\ 1 + x <= Budget(f)
                         /\ \A n \in Nat : Copies(files[f], n) + x <= Budget(f)
    BY <1>2 DEF CopyInv, Bounded
  <2>2. w[1] \in Pending(f)
    BY <1>2 DEF Pending, WritesTo
  <2>3. Pending(f)' \subseteq Pending(f) \ {w[1]}
    <3>1. ASSUME NEW p \in Pending(f)' PROVE p \in Pending(f) \ {w[1]}
      <4>1. PICK v \in writes \ {w} : v[2] = f[1] /\ v[3] = f[2] /\ p = v[1]
        BY <1>1 DEF Pending, WritesTo
      <4>2. v[1] # w[1]
        BY <1>2, <4>1 DEF CopyInv, OneWrite
      <4> QED
        BY <4>1, <4>2 DEF Pending, WritesTo
    <3> QED
      BY <3>1
  <2>4. x - h \in Nat /\ SumAtMost(Pending(f) \ {w[1]}, runs, x - h) /\ runs \in Nat
    BY <2>1, <2>2, PendingRuns, SumWithout
  <2>5. SumAtMost(Pending(f)', runs', x - h)
    <3>1. SumAtMost(Pending(f)', runs, x - h)
      BY <2>3, <2>4, SumOfFewer
    <3> QED
      BY <1>1, <3>1
  <2>6. Budget(f)' = Budget(f) /\ Budget(f) \in Nat
    BY <1>1, <1>2, <1>4, Budgets DEF Budget
  <2>7. h \in Nat
    <3>1. w[1] \in Nat \ {0}
      BY <1>2, <2>4
    <3> QED
      BY <3>1, HalfPower
  <2> HIDE DEF h
  <2>8. 1 + (x - h) <= Budget(f)'
    BY <2>1, <2>4, <2>6, <2>7
  <2>9. ASSUME NEW n \in Nat PROVE Copies(files'[f], n) + (x - h) <= Budget(f)'
    <3>1. Copies(files'[f], n) = Copies(files[f], n) + Copies(w[4], n)
      BY <1>2, <1>3, CopiesConcat
    <3>2. Copies(w[4], n) <= h
      BY DEF CopyInv, HalfCopies, h
    <3>3. Copies(files[f], n) \in Nat /\ Copies(w[4], n) \in Nat
      BY <1>2, CopiesType
    <3>4. Copies(files[f], n) + x <= Budget(f)
      BY <2>1
    <3> HIDE DEF Copies
    <3> QED
      BY <2>4, <2>6, <2>7, <3>1, <3>2, <3>3, <3>4
  <2> QED
    BY <2>4, <2>5, <2>8, <2>9 DEF Bounded
<1>6. ASSUME NEW g \in Files, g # f PROVE Bounded(g)'
  <2>1. WritesTo(g)' \subseteq WritesTo(g)
    BY <1>1 DEF WritesTo
  <2> QED
    BY <1>1, <1>3, <1>4, <1>6, <2>1, LogStill DEF CopyInv
<1>7. OneWrite'
  <2>1. \A v \in writes : <<v[2], v[3]>> \in Files
    BY DEF IInv, RequestTypes, Files
  <2> QED
    BY <1>1, <1>4, <2>1 DEF CopyInv, OneWrite
<1>8. HalfCopies' /\ ReadsInBatch'
  BY <1>1 DEF CopyInv, HalfCopies, ReadsInBatch
<1> QED
  BY <1>5, <1>6, <1>7, <1>8 DEF CopyInv

(* A client's record is the only one of its name in its log. *)
LEMMA CopiesAdded ==
  ASSUME IInv, CopyInv, NEW u \in Users, NEW k \in Keys, AddLog(u, k)
  PROVE  CopyInv'
<1> DEFINE f == <<u, k>>
<1>1. /\ added' = [added EXCEPT ![f] = @ + 1]
      /\ files' = [files EXCEPT ![f] = Append(@, added'[f])]
      /\ UNCHANGED <<runs, pc, at, users, reads, data, writes>>
  BY DEF AddLog, batch, requests
<1>2. f \in Files /\ files \in [Files -> Seq(Nat)] /\ added \in [Files -> Nat] /\ files[f] \in Seq(1..added[f])
  BY DEF IInv, StoreTypes, Files
<1> HIDE DEF f
<1>3. files'[f] = Append(files[f], added[f] + 1) /\ \A g \in Files : g # f => files'[g] = files[g]
  BY <1>1, <1>2
<1>4. \A g \in Files : ToWrite(g)' <=> ToWrite(g)
  BY <1>1 DEF ToWrite, key
<1>5. Bounded(f)'
  <2>1. PICK x \in Nat : /\ SumAtMost(Pending(f), runs, x)
                         /\ 1 + x <= Budget(f)
                         /\ \A n \in Nat : Copies(files[f], n) + x <= Budget(f)
    BY <1>2 DEF CopyInv, Bounded
  <2>2. SumAtMost(Pending(f)', runs', x)
    BY <1>1, <2>1 DEF Pending, WritesTo
  <2>3. Budget(f)' = Budget(f) /\ Budget(f) \in Nat
    BY <1>1, <1>2, <1>4, Budgets DEF Budget
  <2>4. ASSUME NEW n \in Nat PROVE Copies(files'[f], n) + x <= Budget(f)'
    <3>4. files[f] \in Seq(Nat) /\ added[f] \in Nat /\ added[f] + 1 \in Nat
      BY <1>2
    <3>5. Copies(Append(files[f], added[f] + 1), n) = Copies(files[f], n) + IF added[f] + 1 = n THEN 1 ELSE 0
      BY <3>4, CopiesAppend
    <3>1. /\ Copies(files'[f], n) = Copies(files[f], n) + IF added[f] + 1 = n THEN 1 ELSE 0
          /\ Copies(files[f], n) \in Nat
      BY <1>3, <3>4, <3>5, CopiesType
    <3>2. CASE added[f] + 1 = n
      <4>1. Copies(files[f], n) = 0
        <5>1. n \notin 1..added[f]
          BY <3>2, <3>4
        <5> QED
          BY <1>2, <3>4, <5>1, CopiesType
      <4> QED
        BY <2>1, <2>3, <3>1, <3>2, <4>1
    <3>3. CASE added[f] + 1 # n
      BY <2>1, <2>3, <3>1, <3>3
    <3> QED
      BY <3>2, <3>3
  <2> QED
    BY <2>1, <2>2, <2>3, <2>4 DEF Bounded
<1>6. ASSUME NEW g \in Files, g # f PROVE Bounded(g)'
  <2>1. WritesTo(g)' \subseteq WritesTo(g)
    BY <1>1 DEF WritesTo
  <2> QED
    BY <1>1, <1>3, <1>4, <1>6, <2>1, LogStill DEF CopyInv
<1>7. OneWrite'
  <2>1. \A v \in writes : <<v[2], v[3]>> \in Files
    BY DEF IInv, RequestTypes, Files
  <2> QED
    BY <1>1, <1>4, <2>1 DEF CopyInv, OneWrite
<1>8. HalfCopies' /\ ReadsInBatch'
  BY <1>1 DEF CopyInv, HalfCopies, ReadsInBatch
<1> QED
  BY <1>5, <1>6, <1>7, <1>8 DEF CopyInv

(* A new run has sent nothing yet; what the runs before it have sent is     *)
(* within what they were allowed.                                           *)
LEMMA CopiesStarted ==
  ASSUME IInv, CopyInv, Start
  PROVE  CopyInv'
<1>1. /\ runs' = runs + 1 /\ pc \in {"stopped", "finished"} /\ pc' = "find" /\ users' = {}
      /\ reads' = [u \in Users |-> "none"] /\ UNCHANGED <<files, writes>>
  BY DEF Start, store
<1>2. runs \in Nat /\ (runs + 1) - 1 = runs /\ 2^runs \in Nat \ {0} /\ 2^(runs + 1) = 2^runs + 2^runs
  BY Powers DEF IInv, RunTypes
<1>3. ASSUME NEW f \in Files PROVE Bounded(f)'
  <2>1. ~ToWrite(f) /\ Budget(f) = 2^runs
    BY <1>1 DEF ToWrite, Budget
  <2>2. PICK x \in Nat : /\ SumAtMost(Pending(f), runs, x)
                         /\ 1 + x <= Budget(f)
                         /\ \A n \in Nat : Copies(files[f], n) + x <= Budget(f)
    BY DEF CopyInv, Bounded
  <2>3. SumAtMost(Pending(f)', runs', x)
    <3>1. Pending(f)' = Pending(f)
      BY <1>1 DEF Pending, WritesTo
    <3> QED
      BY <1>1, <2>2, <3>1, PendingRuns, SumOfMoreRuns
  <2>4. Budget(f)' \in Nat /\ Budget(f) <= Budget(f)'
    <3>1. Budget(f)' = 2^runs \/ Budget(f)' = 2^(runs + 1)
      BY <1>1, <1>2 DEF Budget
    <3> QED
      BY <1>2, <2>1, <3>1
  <2>5. 1 + x <= Budget(f)'
    BY <1>2, <2>1, <2>2, <2>4
  <2>6. ASSUME NEW n \in Nat PROVE Copies(files'[f], n) + x <= Budget(f)'
    <3>1. Copies(files[f], n) \in Nat
      BY CopiesType DEF IInv, StoreTypes
    <3> QED
      BY <1>1, <1>2, <2>1, <2>2, <2>4, <3>1
  <2> QED
    BY <2>3, <2>5, <2>6 DEF Bounded
<1>4. OneWrite'
  <2>1. \A w \in writes : w[1] \in 1..runs
    BY DEF IInv, RequestTypes
  <2>2. \A w \in writes : w[1] # runs'
    BY <1>1, <1>2, <2>1
  <2> QED
    BY <1>1, <2>2 DEF CopyInv, OneWrite
<1>5. HalfCopies' /\ ReadsInBatch'
  BY <1>1 DEF CopyInv, HalfCopies, ReadsInBatch
<1> QED
  BY <1>3, <1>4, <1>5 DEF CopyInv

(* Before the first run a record may be added to each log. *)
LEMMA CopiesInit == Init => CopyInv
<1> SUFFICES ASSUME Init PROVE CopyInv
  OBVIOUS
<1>1. 2^0 \in Nat \ {0}
  BY Powers
<1>2. ASSUME NEW f \in Files PROVE Bounded(f)
  <2>1. Budget(f) \in Nat \ {0}
    BY <1>1 DEF Init, Budget, ToWrite
  <2>2. Pending(f) = {} /\ runs = 0
    BY DEF Init, Pending, WritesTo
  <2>3. SumAtMost(Pending(f), runs, 0)
    <3> DEFINE s == [i \in 0..0 |-> 0]
    <3>1. s \in [0..0 -> Nat] /\ s[0] = 0 /\ \A i, j \in 0..0 : i <= j => s[i] <= s[j]
      OBVIOUS
    <3> HIDE DEF s
    <3> QED
      BY <2>2, <3>1 DEF SumAtMost
  <2>4. ASSUME NEW n \in Nat PROVE Copies(files[f], n) = 0
    <3>1. files[f] = <<>>
      BY DEF Init
    <3>2. files[f] \in Seq(Nat) /\ files[f] \in Seq(1..0) /\ n \notin 1..0
      BY <3>1
    <3> QED
      BY <3>2, CopiesType
  <2> QED
    BY <2>1, <2>3, <2>4 DEF Bounded
<1>3. HalfCopies /\ OneWrite /\ ReadsInBatch
  BY DEF Init, HalfCopies, OneWrite, ReadsInBatch
<1> QED
  BY <1>2, <1>3 DEF CopyInv

(* Every step of a run that is not given a key twice, and of the others. *)
LEMMA CopiesStep == IInv /\ IsInjective(KEYS) /\ CopyInv /\ [Next]_vars => CopyInv'
<1> SUFFICES ASSUME IInv, IsInjective(KEYS), CopyInv, [Next]_vars PROVE CopyInv'
  OBVIOUS
<1>1. CASE \E f \in Files : AddLog(f[1], f[2])
  <2>1. PICK f \in Files : AddLog(f[1], f[2])
    BY <1>1
  <2>2. f[1] \in Users /\ f[2] \in Keys
    BY DEF Files
  <2> QED
    BY <2>1, <2>2, CopiesAdded
<1>2. CASE Start
  BY <1>2, CopiesStarted
<1>3. CASE Process
  BY <1>3, CopiesInLoops, CopiesWrite DEF Process
<1>4. CASE Read
  BY <1>4, CopiesRead, CopiesInRequests DEF Read
<1>5. CASE \E w \in writes : ExecuteWrite(w)
  BY <1>5, CopiesExecuted
<1>6. CASE Crash \/ KeyFails
  BY <1>6, CopiesInLoops
<1>7. CASE \/ \E p \in updates : ExecuteUpdate(p)
           \/ \E w \in waiting : RequestFails(w)
           \/ Lose
           \/ Quiescent
           \/ UNCHANGED vars
  BY <1>7, CopiesInRequests DEF Quiescent
<1> QED
  BY <1>1, <1>2, <1>3, <1>4, <1>5, <1>6, <1>7 DEF Next

(* A step that brings at most one copy into the logs of the others, and     *)
(* neither reads nor writes them.                                           *)
LEMMA OthersStill ==
  ASSUME IInv, OthersAlone, UNCHANGED <<selected, files>>, writes' \subseteq writes,
         \A u \in Users : reads'[u] = "none" \/ reads[u] # "none" \/ Processed(u)
  PROVE  OthersAlone'
BY DEF OthersAlone, Processed

(* With --user no run touches the logs of the other users. *)
LEMMA OthersStep == IInv /\ OthersAlone /\ [Next]_vars => OthersAlone'
<1> SUFFICES ASSUME IInv, OthersAlone, [Next]_vars PROVE OthersAlone'
  OBVIOUS
<1> USE DEF IInv, StoreTypes, BatchTypes, RequestTypes
<1>1. ASSUME NEW f \in Files, AddLog(f[1], f[2]) PROVE OthersAlone'
  <2>3. f = <<f[1], f[2]>>
    BY DEF Files
  <2>4. /\ added' = [added EXCEPT ![f] = @ + 1]
        /\ files' = [files EXCEPT ![f] = Append(@, added'[f])]
        /\ UNCHANGED <<selected, reads, writes>>
    BY <1>1, <2>3 DEF AddLog, batch, requests
  <2>1. /\ files'[f] = Append(files[f], added[f] + 1)
        /\ \A g \in Files : g # f => files'[g] = files[g]
        /\ UNCHANGED <<selected, reads, writes>>
    BY <2>4
  <2>2. ASSUME NEW u \in Users, ~Processed(u), NEW k \in Keys, NEW n \in Nat
        PROVE  Copies(files'[<<u, k>>], n) <= 1
    <3>4. PICK g : g = <<u, k>>
      OBVIOUS
    <3>1. g \in Files /\ files[g] \in Seq(Nat) /\ files[g] \in Seq(1..added[g]) /\ added[g] \in Nat
          /\ Copies(files[g], n) <= 1 /\ Copies(files[g], n) \in Nat
      BY <2>2, <3>4, CopiesType DEF OthersAlone, Files
    <3>2. CASE g # f
      BY <2>1, <3>1, <3>2, <3>4
    <3>3. CASE g = f
      <4>1. files'[g] = Append(files[g], added[g] + 1) /\ added[g] + 1 \in Nat
        BY <2>1, <3>1, <3>3
      <4>2. Copies(files'[g], n) = Copies(files[g], n) + IF added[g] + 1 = n THEN 1 ELSE 0
        BY <3>1, <4>1, CopiesAppend
      <4>3. added[g] + 1 = n => Copies(files[g], n) = 0
        <5>1. added[g] + 1 = n => n \notin 1..added[g]
          BY <3>1
        <5> QED
          BY <3>1, <5>1, CopiesType
      <4>4. Copies(files'[g], n) <= 1
        BY <3>1, <4>2, <4>3
      <4> QED
        BY <3>4, <4>4
    <3> QED
      BY <3>2, <3>3
  <2> QED
    BY <2>1, <2>2 DEF OthersAlone, Processed
<1>2. CASE Start
  BY <1>2, OthersStill DEF Start, store
<1>3. CASE FindUsers \/ LastBatchDone \/ ReadDone \/ Lose \/ UNCHANGED vars
  BY <1>3, OthersStill DEF FindUsers, LastBatchDone, NextKey, ReadDone, Lose, store, batch, requests, vars
<1>4. CASE NextBatch
  <2>1. PICK b \in Batches(users) : reads' = [u \in Users |-> IF u \in Chosen(b) THEN "pending" ELSE "none"]
    BY <1>4 DEF NextBatch
  <2>2. \A u \in Chosen(b) : Processed(u)
    <3>1. users \subseteq Users
      BY DEF RunTypes
    <3> QED
      BY <3>1, BatchSizes
  <2> QED
    BY <1>4, <2>1, <2>2, OthersStill DEF NextBatch, store
<1>5. CASE Waited \/ Crash \/ KeyFails
  BY <1>5, OthersStill DEF Waited, AfterBatch, Crash, KeyFails, NextKey, store, requests
<1>6. ASSUME NEW u \in Users, ReadLog(u) \/ ReadFails(u) PROVE OthersAlone'
  BY <1>6, OthersStill DEF ReadLog, ReadFails, store, requests
<1>7. ASSUME NEW u \in Users, WriteLog(u) PROVE OthersAlone'
  <2>3. PICK m : m = <<runs, u, key, data[u]>>
    OBVIOUS
  <2>1. writes' = writes \cup {m} /\ m[2] = u
    BY <1>7, <2>3 DEF WriteLog
  <2>2. Processed(u)
    BY <1>7 DEF WriteLog, OthersAlone
  <2> QED
    BY <1>7, <2>1, <2>2 DEF WriteLog, OthersAlone, Processed, store
<1>8. ASSUME NEW w \in writes, ExecuteWrite(w) PROVE OthersAlone'
  <2>1. /\ files' = [files EXCEPT ![<<w[2], w[3]>>] = @ \o w[4]]
        /\ writes' = writes \ {w} /\ UNCHANGED <<selected, reads>>
    BY <1>8 DEF ExecuteWrite, batch, ioflags
  <2>2. \A u \in Users : ~Processed(u) => w[2] # u
    BY DEF OthersAlone
  <2>3. ASSUME NEW u \in Users, ~Processed(u), NEW k \in Keys PROVE files'[<<u, k>>] = files[<<u, k>>]
    BY <2>1, <2>2, <2>3 DEF Files
  <2> QED
    BY <2>1, <2>3 DEF OthersAlone, Processed
<1>9. ASSUME NEW p \in updates, ExecuteUpdate(p) PROVE OthersAlone'
  BY <1>9, OthersStill DEF ExecuteUpdate, batch
<1>10. ASSUME NEW w \in waiting, RequestFails(w) PROVE OthersAlone'
  BY <1>10, OthersStill DEF RequestFails, batch, store
<1> QED
  BY <1>1, <1>2, <1>3, <1>4, <1>5, <1>6, <1>7, <1>8, <1>9, <1>10 DEF Next, Process, Read, Quiescent

(* Before the first run nothing is there to be touched. *)
LEMMA OthersInit == Init => OthersAlone
<1> SUFFICES ASSUME Init PROVE OthersAlone
  OBVIOUS
<1>1. ASSUME NEW u \in Users, NEW k \in Keys, NEW n \in Nat PROVE Copies(files[<<u, k>>], n) <= 1
  <2>1. files[<<u, k>>] = <<>>
    BY DEF Init, Files
  <2>2. files[<<u, k>>] \in Seq(Nat) /\ files[<<u, k>>] \in Seq(1..0) /\ n \notin 1..0
    BY <2>1
  <2>3. Copies(files[<<u, k>>], n) = 0
    BY <2>2, CopiesType
  <2> QED
    BY <2>3
<1> QED
  BY <1>1 DEF Init, OthersAlone

(* However many writes of however many runs are executed late: after n runs *)
(* that are given no key twice a record is in its log at most 2^n times,    *)
(* and just once if its user is not one of those given with --user.         *)
THEOREM CopiesBounded == Spec => []CopiesPerRun
<1> DEFINE CInv == (IsInjective(KEYS) => CopyInv) /\ OthersAlone
<1>1. Init => CInv
  BY CopiesInit, OthersInit
<1>2. IInv /\ CInv /\ [Next]_vars => CInv'
  <2>1. IInv /\ (IsInjective(KEYS) => CopyInv) /\ [Next]_vars => (IsInjective(KEYS) => CopyInv')
    BY CopiesStep
  <2>2. IInv /\ OthersAlone /\ [Next]_vars => OthersAlone'
    BY OthersStep
  <2>3. (IsInjective(KEYS) => CopyInv)' <=> (IsInjective(KEYS) => CopyInv')
    BY DEF IsInjective
  <2> QED
    BY <2>1, <2>2, <2>3
<1>3. IInv /\ CInv => CopiesPerRun
  <2> SUFFICES ASSUME IInv, CInv, NEW f \in Files, NEW n \in 1..added[f]
               PROVE  IF Processed(f[1]) THEN IsInjective(KEYS) => Count(f, n) <= 2^runs
                      ELSE Count(f, n) <= 1
    BY DEF CopiesPerRun
  <2>1. Count(f, n) = Copies(files[f], n) /\ n \in Nat /\ f = <<f[1], f[2]>> /\ f[1] \in Users /\ f[2] \in Keys
    BY DEF Count, Copies, Files
  <2>2. CASE Processed(f[1])
    <3> SUFFICES ASSUME IsInjective(KEYS) PROVE Copies(files[f], n) <= 2^runs
      BY <2>1, <2>2
    <3>1. PICK x \in Nat : Copies(files[f], n) + x <= Budget(f)
      BY <2>1 DEF CopyInv, Bounded
    <3>2. Budget(f) \in Nat /\ 2^runs \in Nat /\ Budget(f) <= 2^runs
      BY Budgets
    <3>3. Copies(files[f], n) \in Nat
      BY CopiesType DEF IInv, StoreTypes
    <3> QED
      BY <3>1, <3>2, <3>3
  <2>3. CASE ~Processed(f[1])
    BY <2>1, <2>3 DEF OthersAlone
  <2> QED
    BY <2>2, <2>3
<1> QED
  BY <1>1, <1>2, <1>3, Invariance, PTL DEF Spec
=============================================================================
