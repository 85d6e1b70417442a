---------------------------- MODULE CombineTool ----------------------------
(***************************************************************************)
(* tools/hdb_tool.py, which goes through the users who were active under   *)
(* some keys, adds them to the index of a new key and aggregates their     *)
(* logs, while clients of the library go on adding records and the tool    *)
(* may be killed and started again.                                        *)
(*                                                                         *)
(* The logs are written back under r.id, the id they were read from.  A    *)
(* record is named by its place among the records that clients have added  *)
(* to its file.                                                            *)
(***************************************************************************)
EXTENDS Integers, FiniteSets, SequencesExt

CONSTANTS
  Users,
  KEYS,         \* the first argument: the keys whose logs are aggregated
  NEW_KEY,      \* the second one
  Selections,   \* the sets of users that may be given with --user; the empty
                \* one stands for all
  BatchSize,    \* --batch-size
  MaxRecords,   \* bound: records that clients add, to any file
  MaxRuns       \* bound: runs of the tool

ASSUME KeysAssumption == KEYS \in Seq(ToSet(KEYS)) /\ KEYS # <<>>
ASSUME UsersAssumption == IsFiniteSet(Users)
ASSUME BatchSizeAssumption == BatchSize \in Nat \ {0}
ASSUME BoundsAssumption == MaxRecords \in Nat /\ MaxRuns \in Nat

VARIABLES
  files,      \* files[<<u, k>>]: the records in the log file u.k
  index,      \* index[k]: users in the activity index of k
  added,      \* history: added[<<u, k>>], number of records added by clients
  selected,   \* the users given with --user
  runs,       \* number of runs begun
  initial,    \* history: the index when the last run began
  pc,         \* "stopped", "find", "batches", "read", "wait", "finished"
  at,         \* the place in KEYS of the key being processed
  users,      \* users found under that key and not yet in a batch
  reads,      \* reads[u]: for the users of the batch "pending", "found",
              \* "failed" or "written"; "none" for the others
  data,       \* data[u]: what was read
  writes,     \* writes sent and not yet executed, as <<run, user, key, data>>
  updates,    \* index updates for NEW_KEY sent and not yet executed, as
              \* <<run, user, key>>
  waiting,    \* the writes and updates the tool waits for
  failed      \* whether anything in this run has failed

store == <<files, index, added>>
batch == <<reads, data>>
requests == <<writes, updates, waiting>>
vars == <<selected, store, runs, initial, pc, at, users, batch, requests, failed>>

Keys == ToSet(KEYS) \cup {NEW_KEY}
Files == Users \X Keys
key == KEYS[at]

(* Mutant: append is forgotten. *)
MutantIoflags == {}

(* The flags of log_session. *)
ioflags == {"append"}

TypeOK ==
  /\ files \in [Files -> Seq(Nat)]
  /\ \A f \in Files : files[f] \in Seq(1..added[f])
  /\ index \in [Keys -> SUBSET Users]
  /\ added \in [Files -> Nat]
  /\ selected \in Selections
  /\ runs \in Nat /\ runs <= MaxRuns
  /\ initial \in [Keys -> SUBSET Users]
  /\ pc \in {"stopped", "find", "batches", "read", "wait", "finished"}
  /\ pc # "stopped" => runs > 0
  /\ at \in 1..Len(KEYS)
  /\ users \subseteq Users
  /\ reads \in [Users -> {"none", "pending", "found", "failed", "written"}]
  /\ data \in [Users -> Seq(Nat)]
  /\ \A u \in Users : pc # "read" => reads[u] \in {"none", "failed", "written"}
  /\ Cardinality({u \in Users : reads[u] # "none"}) <= BatchSize
  /\ writes \subseteq (1..runs) \X Users \X Keys \X Seq(Nat)
  /\ updates \subseteq (1..runs) \X Users \X Keys
  /\ \A w \in waiting : w[1] = runs
  /\ failed \in BOOLEAN

Init ==
  /\ files = [f \in Files |-> <<>>]
  /\ index = [k \in Keys |-> {}]
  /\ added = [f \in Files |-> 0]
  /\ selected \in Selections
  /\ runs = 0
  /\ initial = index
  /\ pc = "stopped"
  /\ at = 1
  /\ users = {}
  /\ reads = [u \in Users |-> "none"]
  /\ data = [u \in Users |-> <<>>]
  /\ writes = {}
  /\ updates = {}
  /\ waiting = {}
  /\ failed = FALSE

(* External: a client's add_log_with_activity for one of the KEYS. *)
AddLog(u, k) ==
  LET f == <<u, k>>
  IN /\ k \in ToSet(KEYS)
     /\ SumFunction(added) < MaxRecords
     /\ added' = [added EXCEPT ![f] = @ + 1]
     /\ files' = [files EXCEPT ![f] = Append(@, added'[f])]
     /\ index' = [index EXCEPT ![k] = @ \cup {u}]
     /\ UNCHANGED <<selected, runs, initial, pc, at, users, batch, requests, failed>>

(* The tool is started: combine_logs begins with the first key. *)
Start ==
  /\ pc \in {"stopped", "finished"}
  /\ runs < MaxRuns
  /\ runs' = runs + 1
  /\ initial' = index
  /\ pc' = "find"
  /\ at' = 1
  /\ users' = {}
  /\ reads' = [u \in Users |-> "none"]
  /\ data' = [u \in Users |-> <<>>]
  /\ waiting' = {}
  /\ failed' = FALSE
  /\ UNCHANGED <<selected, store, writes, updates>>

(* The next round of combine_logs' loop over the keys. *)
NextKey ==
  /\ IF at < Len(KEYS) THEN at' = at + 1 /\ pc' = "find"
                       ELSE at' = at /\ pc' = "finished"
  /\ UNCHANGED <<selected, runs, initial>>

(* process_key: find_any_indexes. *)
FindUsers ==
  /\ pc = "find"
  /\ users' = index[key]
  /\ pc' = "batches"
  /\ UNCHANGED <<selected, store, runs, initial, at, batch, requests, failed>>

(* The users of a batch who are to be processed. *)
Chosen(b) == IF selected = {} THEN b ELSE selected \cap b

(* Mutant: a batch may be larger by one. *)
MutantBatches(us) ==
  LET n == Cardinality(us)
  IN {b \in SUBSET us : Cardinality(b) = IF n <= BatchSize THEN n ELSE BatchSize + 1}

(* groupby: the next BatchSize users in the order of the results, or as     *)
(* many as there are left.                                                  *)
Batches(us) ==
  LET n == Cardinality(us)
  IN {b \in SUBSET us : Cardinality(b) = IF n < BatchSize THEN n ELSE BatchSize}

(* The users left after a batch.  Mutant: the loop ends with the first one. *)
MutantLeft(us, b) == {}
Left(us, b) == us \ b

(* The next round of process_key's loop over the batches: process_users     *)
(* sends the index updates and the reads of the batch's chosen users, and   *)
(* skips a batch without any.                                               *)
NextBatch ==
  /\ pc = "batches"
  /\ users # {}
  /\ \E b \in Batches(users) :
       /\ users' = Left(users, b)
       /\ updates' = updates \cup {<<runs, u, key>> : u \in Chosen(b)}
       /\ waiting' = {<<runs, u, key>> : u \in Chosen(b)}
       /\ reads' = [u \in Users |-> IF u \in Chosen(b) THEN "pending" ELSE "none"]
       /\ pc' = IF Chosen(b) = {} THEN "batches" ELSE "read"
  /\ UNCHANGED <<selected, store, runs, initial, at, data, writes, failed>>

LastBatchDone ==
  /\ pc = "batches"
  /\ users = {}
  /\ NextKey
  /\ UNCHANGED <<store, users, batch, requests, failed>>

(* External: the bulk read finds the log of one user, or does not. *)
ReadLog(u) ==
  /\ reads[u] = "pending"
  /\ files[<<u, key>>] # <<>>
  /\ reads' = [reads EXCEPT ![u] = "found"]
  /\ data' = [data EXCEPT ![u] = files[<<u, key>>]]
  /\ UNCHANGED <<selected, store, runs, initial, pc, at, users, requests, failed>>

ReadFails(u) ==
  /\ reads[u] = "pending"
  /\ reads' = [reads EXCEPT ![u] = "failed"]
  /\ failed' = TRUE
  /\ UNCHANGED <<selected, store, runs, initial, pc, at, users, data, requests>>

(* The loop over the results: a log that was read is written to its r.id.   *)
WriteLog(u) ==
  /\ pc = "read"
  /\ reads[u] = "found"
  /\ reads' = [reads EXCEPT ![u] = "written"]
  /\ writes' = writes \cup {<<runs, u, key, data[u]>>}
  /\ waiting' = waiting \cup {<<runs, u, key, data[u]>>}
  /\ UNCHANGED <<selected, store, runs, initial, pc, at, users, data, updates, failed>>

ReadDone ==
  /\ pc = "read"
  /\ \A u \in Users : reads[u] \in {"none", "failed", "written"}
  /\ pc' = "wait"
  /\ UNCHANGED <<selected, store, runs, initial, at, users, batch, requests, failed>>

(* External: a request is executed; the tool may have been told that it     *)
(* failed, or may have been killed, before that.                            *)
ExecuteWrite(w) ==
  LET f == <<w[2], w[3]>>
  IN /\ w \in writes
     /\ writes' = writes \ {w}
     /\ files' = [files EXCEPT ![f] = IF "append" \in ioflags THEN @ \o w[4] ELSE w[4]]
     /\ waiting' = waiting \ {w}
     /\ UNCHANGED <<selected, index, added, runs, initial, pc, at, users, batch, updates, failed>>

ExecuteUpdate(p) ==
  /\ p \in updates
  /\ updates' = updates \ {p}
  /\ index' = [index EXCEPT ![NEW_KEY] = @ \cup {p[2]}]
  /\ waiting' = waiting \ {p}
  /\ UNCHANGED <<selected, files, added, runs, initial, pc, at, users, batch, writes, failed>>

(* External: the tool's request ends with an error or a timeout. *)
RequestFails(w) ==
  /\ w \in waiting
  /\ waiting' = waiting \ {w}
  /\ failed' = TRUE
  /\ UNCHANGED <<selected, store, runs, initial, pc, at, users, batch, writes, updates>>

(* External: a request is lost. *)
Lose ==
  /\ \/ \E w \in writes \ waiting : writes' = writes \ {w} /\ UNCHANGED updates
     \/ \E p \in updates \ waiting : updates' = updates \ {p} /\ UNCHANGED writes
  /\ UNCHANGED <<selected, store, runs, initial, pc, at, users, batch, waiting, failed>>

(* The loops over the results are at their end.  Mutant: they wait for the  *)
(* execution of a write, in spite of its error.                             *)
MutantAllEnded == waiting = {} /\ \A w \in writes : w[1] # runs
AllEnded == waiting = {}

(* What is done after a batch.  Mutant: its writes are sent again if        *)
(* something has failed.                                                    *)
MutantAfterBatch ==
  /\ pc' = IF failed THEN "read" ELSE "batches"
  /\ reads' = [u \in Users |-> IF failed /\ reads[u] = "written" THEN "found" ELSE "none"]
  /\ data' = data
AfterBatch ==
  /\ pc' = "batches"
  /\ reads' = [u \in Users |-> "none"]
  /\ data' = [u \in Users |-> <<>>]

(* Every write and update of the batch has been waited for. *)
Waited ==
  /\ pc = "wait"
  /\ AllEnded
  /\ AfterBatch
  /\ UNCHANGED <<selected, store, runs, initial, at, users, requests, failed>>

(* The users whose updates process_users has sent when it raises before it  *)
(* reads: some of the next batch, or all of them.                           *)
Begun ==
  IF pc = "batches" /\ users # {} THEN UNION {SUBSET Chosen(b) : b \in Batches(users)} ELSE {{}}

(* process_key's except: find_any_indexes, its lazy results or anything in  *)
(* process_users has raised.  The key is given up with the batches that are *)
(* left, and what was sent for it is no longer waited for.                  *)
KeyFails ==
  /\ pc \in {"find", "read", "wait"} \/ (pc = "batches" /\ users # {})
  /\ \E us \in Begun : updates' = updates \cup {<<runs, u, key>> : u \in us}
  /\ failed' = TRUE
  /\ users' = {}
  /\ reads' = [u \in Users |-> "none"]
  /\ data' = [u \in Users |-> <<>>]
  /\ waiting' = {}
  /\ NextKey
  /\ UNCHANGED <<store, writes>>

(* The tool is killed.  Its requests may still be executed. *)
Crash ==
  /\ pc \notin {"stopped", "finished"}
  /\ pc' = "stopped"
  /\ at' = 1
  /\ users' = {}
  /\ reads' = [u \in Users |-> "none"]
  /\ data' = [u \in Users |-> <<>>]
  /\ waiting' = {}
  /\ failed' = TRUE
  /\ UNCHANGED <<selected, store, runs, initial, writes, updates>>

(* The tool has been run for the last time. *)
Quiescent ==
  /\ pc \in {"stopped", "finished"}
  /\ runs = MaxRuns
  /\ UNCHANGED vars

Process ==
  \/ FindUsers
  \/ NextBatch
  \/ LastBatchDone
  \/ \E u \in Users : WriteLog(u)
  \/ ReadDone
  \/ Waited

Read == \E u \in Users : ReadLog(u) \/ ReadFails(u)

Next ==
  \/ \E f \in Files : AddLog(f[1], f[2])
  \/ Start
  \/ Process
  \/ KeyFails
  \/ Read
  \/ \E w \in writes : ExecuteWrite(w)
  \/ \E p \in updates : ExecuteUpdate(p)
  \/ \E w \in waiting : RequestFails(w)
  \/ Lose
  \/ Crash
  \/ Quiescent

(* As long as the tool has something to do or to wait for, some of it       *)
(* happens: its process runs until it is killed, and each of its requests   *)
(* ends, if only with a timeout.                                            *)
Fairness == WF_vars(Process \/ Read \/ \E w \in waiting : RequestFails(w))

Spec == Init /\ [][Next]_vars /\ Fairness
-----------------------------------------------------------------------------
Processed(u) == selected = {} \/ u \in selected
Count(f, n) == Cardinality({i \in DOMAIN files[f] : files[f][i] = n})

(* The tool loses nothing, however often it is killed and run again and     *)
(* whatever clients append between its reads and its writes: the records of *)
(* a file are still there, first of all in the order they were added.       *)
RecordsKept ==
  \A f \in Files : \A n \in 1..added[f] :
    \E i \in DOMAIN files[f] :
      files[f][i] = n /\ \A j \in 1..(i - 1) : files[f][j] < n

(* A run that finished without a failure has put everyone it was to         *)
(* process, and who was active under one of the keys when it began, into    *)
(* the index of the new key, in whatever batches they came, and with --user *)
(* no run puts anyone else there: they have added a record of their own.    *)
ActiveUnderNewKey ==
  /\ pc = "finished" /\ ~failed =>
       \A k \in ToSet(KEYS) : \A u \in initial[k] :
         Processed(u) => u \in index[NEW_KEY]
  /\ \A u \in index[NEW_KEY] : Processed(u) \/ added[<<u, NEW_KEY>>] > 0

(* A run that is not given a key twice writes a log back at most once, so   *)
(* that after n runs, killed or not, a record is in its file at most 2^n    *)
(* times; with --user the logs of other users are as they were.             *)
CopiesPerRun ==
  \A f \in Files : \A n \in 1..added[f] :
    IF Processed(f[1]) THEN IsInjective(KEYS) => Count(f, n) <= 2^runs
    ELSE Count(f, n) <= 1

(* A run ends, whatever fails. *)
RunEnds == pc \notin {"stopped", "finished"} ~> pc \in {"stopped", "finished"}

(* "aggregates logs for each active users and saves it in specified new     *)
(* subkeys" (README.md): after a run in which nothing failed the new key's  *)
(* log of a user holds as many records as the logs that were read, at least *)
(* one if the user was active under one of the keys.                        *)
SavedInNewKey ==
  pc = "finished" /\ ~failed =>
    \A k \in ToSet(KEYS) : \A u \in initial[k] :
      Processed(u) => files[<<u, NEW_KEY>>] # <<>>
=============================================================================
