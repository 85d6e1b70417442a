# historydb in TLA+

HistoryDB keeps, for every user and day, a log file to which records are
appended, and for every day an index of the users who were active.  Both live in
elliptics, a replicated key-value store: every write goes to a set of *groups*
(replicas).  The program is a library (`src/lib`, class `history::provider`),
two HTTP front ends on top of it (`src/thevoid`, `src/fastcgi`) with a copy of
rapidjson, and a few Python tools.  This directory models the library, the
request handling, configuration and JSON bodies of both front ends, and the tool
that aggregates logs, checks them with TLC and proves the safety of all of them
but the parsing of JSON texts with TLAPS.  Paths below are relative to the
repository's root.

## Inventory

| part | state | operations | interacts with |
|---|---|---|---|
| `struct waiter` (`src/lib/provider_impl.cpp` 37-93) | two completion flags, a verdict, a mutex, the caller's callback | `on_log`, `on_activity`, `handle` | created by the asynchronous adds; its handlers run on elliptics' threads |
| write path of `provider::impl` (261-365, 551-595) | none of its own: requests in flight in every group | `add_log`, `add_activity`, `add_log_with_activity`, each blocking and with a callback | elliptics sessions; `waiter` |
| session parameters (183-259) | `groups_`, `min_writes_`, the node's timeouts | constructors, `create_config`, `set_session_parameters` | read by every operation, without a lock |
| reading logs (366-453, 508-537) | list of pending reads, data gathered | `get_user_logs` blocking and with a callback (`on_user_log`), `for_user_logs` | elliptics `read_latest` |
| active users (455-506, 539-549) | set of users gathered | `get_active_users` blocking and with a callback, `for_active_users` | elliptics `find_any_indexes` |
| subkeys (`src/lib/provider.cpp` 24-48) | none | `time_to_subkey`, `time_period_to_subkeys` | the wrappers of class `provider` (50-222) |
| HTTP front end (`src/thevoid`) | one handler object per request | `on_request`, `on_finish` / `on_finished`, `on_send_finished` | asynchronous operations of `provider` |
| FastCGI front end (`src/fastcgi`) | a pool of threads | `handleRequest` and a handler per URI | blocking operations of `provider` |
| `tools/hdb_tool.py` | progress of a run over users | read the days' logs, append them, update the index | elliptics' Python binding |
| `src/tools/historydb_tool.py`, `tools/shooting_check.py`, `src/app`, `test` | none kept | scripts, samples, tests | |
| rapidjson (`src/fastcgi/rapidjson`) | a memory pool per document, arrays, a stack, a text buffer | `PushBack`, `AddMember`, `Accept` with a `Writer`, `Parse`, `GetInt` | the front ends write their replies with it; no code of this repository parses a reply |
| configuration (`webserver.cpp` 35-77, `historydb-fastcgi.cpp` 63-113) | none kept | `webserver::initialize`, `handler::onLoad` | the constructors of `provider` |

What is hard here, and the properties that make each part correct:

* **waiter** - two handlers on two threads, in any order, one possibly before
  the other's request is even sent.  The callback must be called exactly once,
  after both results, with the verdict on both.
* **write path** - every reply can be lost or late, and a request whose reply is
  lost may have been executed, or may be executed later.  "Added" must mean that
  every part is in at least `min_writes` groups; a part that fails must not be
  covered up by the other; records added one after the other should be in that
  order; a provider must not be configured so that it can never succeed.
* **session parameters** - replaced statement by statement while other threads
  judge their calls by them.  A call should be judged by the setting it was made
  under, or at least by one that was asked for.
* **reading logs** - replies in any order, days that fail or are empty, records
  appended meanwhile, a chain of callbacks that must not break.  The answer must
  be in the order of the days, miss no record that was there before the call,
  and always arrive.
* **subkeys** - day boundaries: the last day of a period, no wrap-around.
* **active users** - activity is added while the days' indexes are read one by
  one, and `for_active_users` asks for a day only after its callback for the day
  before has returned.  Nobody who was active before may be missed, nobody be
  reported for a day on which they were not.
* **front ends** - the same interface twice, once with callbacks and once
  blocking, with the choice of operation and key repeated in ten handlers.  One
  reply per request, a status that tells the truth about what was written, and
  no difference between the two.
* **JSON bodies** - log records are arbitrary bytes.  Arrays grow by copying,
  blocks of the pool grow in place when they are the last, chunks end in the
  middle of it: no record may be lost, moved under a reference or overwritten.
  The length in the header must be the body's.  rapidjson is also a reader: of a
  body that it wrote, it should accept all or refuse it when it was cut, and a
  document should be usable again after a failed parse.  No code of this
  repository relies on that (see JsonBody below).
* **configuration** - a numeral passes through several integer types of either
  sign before it is a number of groups.  What the file says must be what is
  demanded of a write.
* **tools/hdb_tool.py** - batches of users, failures of single reads and writes,
  clients that append between its read and its write, runs that are killed and
  repeated.  No record may be lost, no user skipped, and a run must end.

## Modules

```
AddParts ---------- Completion            abstract: what an add promises
   |                  ^      ^
   |                  |      |  (refinement)
   +-- Waiter --------+      |            struct waiter, statement by statement
   |     WaiterProofs        |
   +-- AddOps ---------------+            the write path with all its requests
         AddOpsProofs
SessionParameters -- Configuration        parameters replaced in flight; where
   SessionParametersProofs  |             they come from
JsonNumbers ----------------+             integers of the JSON library
DayKeys -- UserLogs                       subkeys; reading a period
   |         UserLogsProofs
   +------ ActiveUsers                    who was active in a period
             ActiveUsersProofs
Completion -- FrontEnds                   both front ends over two providers
                FrontEndsProofs
CombineTool                               tools/hdb_tool.py beside clients
   CombineToolProofs
JsonPool -- JsonBody -- JsonDocument      a reply's document and its body, and
   JsonBodyProofs        JsonText         the client that parses it
```

The `MC*` modules only hold the values of the constants of the runs.
Definitions whose names start with `Mutant` are wrong versions of the
definition that follows them; they show that the properties can fail.

**AddParts, Completion.**  An operation consists of *parts*: the append to the
log file and the update of the index.  `Completion` is the contract of an add
operation, free of threads, groups and messages: `Call`, then a `Finish` for
each part with its number of successful groups, then one `Answer` that says
whether all parts reached `MinWrites` (which may differ from call to call, as
calls are made by different providers or after a replacement of the parameters).

**Waiter.**  One waiter per call.  `pc[c][p]` is the next statement of the
handler of part `p`: `Lock` (the `scoped_lock`), `Check` (`res.size() <
min_writes_`), `Mark` (the flag), `Handle` (`handle()`, which calls the callback
while the mutex is held), `Unlock`.  `Create` stands for the three operations
that make a waiter, with the flags their constructor calls pass; `Deliver` is
elliptics entering a handler, at any moment and with any number of successes.

**AddOps.**  `Start` is the entry of an operation, `Send` one request to every
group (the log's before the activity's), `Apply` the execution of a request by a
group, `Ack` its success reaching the client, `Fail` the client giving the group
up; a request that was given up may still be applied.  elliptics completes a
part when every group is in `acked` or `failed`.  `Take` is the body of `on_log`
or `on_activity`, or the comparison after `get()`: for the asynchronous
overloads as soon as the part is complete, for the blocking ones after both
parts are sent and the log's result first (`InTurn`).  It is one step, which is
what Waiter justifies.  The answer `FALSE` of a blocking call is the exception
`EREMOTEIO`.  The store is `files[g][<<user, subkey>>]`, a sequence of calls, and
`index[g][subkey]`, a set of users.  The session parameters do not change during
a call here, but each call has its own `MinWritesArg`, which the constructor
clamps to the number of groups (`min_writes`).

**SessionParameters.**  `SetGroups`, `SetMinWrites` and `Clamp` are the
statements of `set_session_parameters`.  A call is reduced to one part.  After
`Begin`, `CopyGroups` (`create_session`) and, with a callback, `CopyMinWrites`
(the waiter's constructor) are steps of their own, in either order: `add_log`
and `add_activity` copy the groups first, `add_log_with_activity` the threshold.
Each may come between any two statements of `set_session_parameters`, so a call can
have groups and a threshold that no setting has together; `disturbed` keeps the
calls to which that can have happened.  `Finish` fixes the number of successes;
`Judge` compares with the copy, or in a blocking call with `min_writes_` at that
moment.  `timeouts` are the node's, which a call's session takes with the groups;
`create_config` stores the two exchanged, `set_timeouts` does not.  Only one thing
is left out: copying the vector `groups_` in the very moment in which it is
assigned is undefined, and here each is one step.

**Configuration, JsonNumbers.**  `config` is either a setting passed by a client
of the library or a front end's configuration: which members are there and the
numerals of its numbers.  `InitializeSetting` and `OnLoadSetting` are the
arguments that `webserver::initialize` and `handler::onLoad` create the provider
with, defaults and conversions included; a configuration with which the server
does not start (`Starts`) has no states.  `ServedNext` is SessionParameters'
`Next` as far as that server goes: a front end never replaces the parameters,
and calls only with callbacks (thevoid) or only without (FastCGI).  `asserts`
says whether the build evaluates RAPIDJSON_ASSERT; `debian/rules` builds
RelWithDebInfo, which defines NDEBUG.  `JsonNumbers` has `ParseNumber` with its
checks before the last digit, the flags of `GenericValue`'s constructors,
`GetInt` in Configuration, and the way back in `WriteNumber`.  `IntBits` is the
width of an int, 64-bit types are twice as wide.

**DayKeys, UserLogs.**  `time_period_to_subkeys` with its unsigned arithmetic; a
subkey is the number of its day.  `UserLogs` has the three reading operations:
`Call` computes the subkeys and sends all reads, `Reply` completes one of them,
with the file or an error, in any order while `Add` goes on appending, `Take` is
one `on_user_log` or one round of the loops, `TakeLast` a callback of
`for_user_logs` that returns false.  (A callback that throws an elliptics error
is caught by the loop and counts as one that returns true.)  The contents of a
file are its number of records.

**ActiveUsers.**  The state of a query is one reply per day.  `Call` sends
`find_any_indexes` for all days, or for the first one (`for_active_users`);
`Reply` completes the days at different moments, each with its index or an
error, while `Activity` goes on; `Answer` is the blocking return or
`on_active_users`, `Round` one iteration of the loop of `for_active_users`,
whose callback may stop it.  `since` records the index at the moments at which
the caller was in control.

**FrontEnds.**  One request is given to both servers.  `thevoid` and `fastcgi`
translate the handlers: which operation of the provider they call with which
kind of key, or that they refuse.  An operator per handler keeps the ten of them
comparable with the code line by line.  `Handle` is `on_request` or
`handleRequest`; `AddDone` and `ReadDone` are `on_finish` and `on_finished`, or
the end of the blocking handler with or without an exception.  The adds are those of
`Completion`, of which `Provider` is an instance with one call for each server:
what AddOps and Waiter are shown to implement is all that the front ends rely
on.  An operation makes its sessions and gives elliptics its requests one by one
(`Send`), and until it has given it the last one it may throw (`Throw`), be it
between the two requests of `add_log_with_activity`; `Caught` is the reply of the
`catch` clauses of either front end.  Later nothing is thrown, because the
sessions have `no_exceptions` (`provider_impl.cpp` 558).  A reply has a status
and a body, of which only is kept whether it is empty, an empty list or a list.

**JsonPool, JsonBody, JsonText, JsonDocument.**  `JsonPool` is
`MemoryPoolAllocator`: chunks with a fill level, blocks at an address (chunk and
offset) with their size and contents.  `Malloc` and `Realloc` are the functions
of the code; the block at the end of the newest chunk grows in place, any other
is copied.  `JsonText` is `Writer` (a string becomes a sequence of characters
with its escapes) and `GenericReader`, which turns the text back into the calls
of its handler and stops at the first error or at the terminating zero.  The two
are parameters of `JsonBody` (`Accept`, `Read`), so that it can be reasoned
about without them; `JsonDocument` supplies those of the code, and the run
checks that.  `JsonBody` puts them to work: `AddRecord`, `AddMember` and `Reply`
are the loop and the rest of `handle_get_user_logs`, of
`on_get_user_logs::on_finished` or of the handlers of active users.  No code of
this repository parses a reply (`src/test/test.py` 62-83 compares it with a
string), and nothing in it parses into a `Document` twice.  The client here is
hypothetical: it does with a reply what this rapidjson offers.  `Receive` is
this client getting the body, or only its beginning, and parsing it with the
same library into the same `Document`, a second time after a failure;
`HandleEvent` is one call of the document's handler, so that the stack of the
document is seen between any two.  `AcceptedWhole`, `RefusedCut` and
`NoAssertFails` are thus about the reader that comes with the front ends, not
about a use of it that exists.

**CombineTool.**  `NextKey`, `FindUsers`, `NextBatch`, `ReadLog`, `WriteLog` and
`Waited` follow `combine_logs`, `process_key` and `process_users`: for each key
the users of its index, in batches of `BatchSize`; for each batch the updates of
the new key's index, a bulk read, a write for each log that was read, and the
wait for all of them.  `KeyFails` is the `except` of `process_key` (71-74),
which catches whatever is raised under it, when the index is read (65) or while
a batch is processed (88, 91, 109, 121): the rest of the key's users is given
up, the requests that are out remain so, and the run goes on with the next key.
`AddLog` is a client of the library.  `Crash` kills the tool, whose requests may
be executed or lost afterwards; `Start` runs it again.  A record is its number
among those that were added to its file, so that copies and losses can be told.

## Runs

| run | instance | what it shows |
|---|---|---|
| `waiter` | 2 calls, 2 groups, a threshold of 1 for one call and 2 for the other | every interleaving of the statements of the handlers: types, `AnsweredOnceInFull`, refinement of `Completion`, every call answered |
| `add_ops` | 2 calls on one key, the first of any operation, the second a log; 2 groups; the first call's provider asks for 1 of them, the second's for 3, which is clamped to 2 | `AddedMeansStored`, `AllAckedMeansAdded`, `AddedInOrder`, refinement of `Completion`, every call answered, with any reply lost or late |
| `session_parameters` | 2 calls; the library with 1 or 2 groups, `min_writes` 1 or 3 and 2 replacements, statement by statement; either front end with 2 groups and any of 77 numerals, or any set of members | `AsyncJudgedAsMade`, `SyncJudgedUndisturbed`, `ConfiguredWrites`, `NumbersKept` |
| `session_parameters_sync` | same | **violated**: `SyncJudgedAsMade` |
| `session_parameters_timeouts` | same | **violated**: `WaitsAsNamed` |
| `user_logs` | 1 read by any operation of any period within 3 days, first or last second of each; files of up to 2 records | `SeesEarlierRecords`, `DaysInOrder`, `GathersTheResults`, `EveryReadAnswered` |
| `user_logs_empty_period` | periods that may end before they begin | **violated**: `CallbackForAnyPeriod` |
| `active_users` | 1 query by any operation of any period within 2 days, 2 users | `NoActiveUserMissed`, `OnlyActiveUsers`, `EveryQueryAnswered` |
| `combine_tool` | 2 users in batches of 1, for all or with `--user` for one of them, 2 keys, 2 records, 2 runs, a key given up at any moment | `RecordsKept`, `CopiesPerRun` (at most 2^n copies after n runs that are given no key twice), `ActiveUnderNewKey`, `RunEnds` |
| `combine_new_key` | the same with 1 run | **violated**: `SavedInNewKey` |
| `front_ends` | every URI and method with every combination of its arguments; 2 groups, thevoid's provider asks for both, FastCGI's for one; reads that find something or nothing, exceptions before an operation has sent everything | `StatusTellsWrites`, `FrontEndsAgree`, `EveryRequestAnswered` |
| `json_body` | replies of three handlers with one record of up to 2 bytes of 7 kinds or up to 4 records of 0 or 5 bytes, the body cut anywhere, 2 attempts to parse | `MemorySound`, `DocumentKept`, `AcceptedWhole`, `RefusedCut`, `NoAssertFails` |

Why the bounds are enough.  Calls do not share anything but the store (and the
parameters in SessionParameters), so one call shows what its threads do to each
other and two what one call does to another.  With two groups and a threshold of
one, a group can fail in a call that succeeds, either of them, and a call that
follows can succeed in the other only; with a threshold of three, the clamp
decides.  In `add_ops` both calls write to the same key, because different keys
share nothing, and the second call is a log, because only logs have an order
that a second one could disturb.  The session parameters have one and two
groups and the front ends two, for the same reason; the two calls of `session_parameters`
are alike, and `SYMMETRY` exchanges them: every property of those runs, the
action property among them, says the same of each call, and none is about
liveness.  Three days have a first, a middle and a last one, and the times are
those at which a day's number changes.  `Modulus` is 2^18 in the runs (TLC's
integers have 32 bits), three days of seconds; the theorems of UserLogsProofs
hold for every larger one.  For ActiveUsers it is two days.  The tool's instance
has two of everything that it goes through one after the other: keys, batches,
runs, and records, which may be in one file or in two; a record that is copied
in both runs is there four times.  A request has no history, so FrontEnds needs
one at a time, but each of all of them; its two providers have different
thresholds so that the same writes can end differently.  `IntBits` is 8 in the
runs: -128, 127, 255, -32768, 32767 and 65535 are the edges of the types, and
every number up to two away from each is tried.  For JsonBody the capacities are
scaled down (a chunk of 20 units, a stack of 8, arrays that start with one
element) so that four records make the array grow twice, chunks end inside the
growth and the stack is reallocated; the strings have every class of bytes the
writer tells apart, in every pair.  The bounds are `MaxGroups` (number of
groups), `MaxRecords` (records of a file, in CombineTool of all files),
`MaxSettings` (replacements of the parameters) and `MaxRuns` (runs of the tool),
`MaxReads` (attempts to parse a body).

### The four disagreements

* `session_parameters_sync`: a blocking call compares with `min_writes_` after
  it has waited (`provider_impl.cpp` 269, 297, 330, 335).  If the parameters are
  replaced meanwhile, from one group to two, say, a write that succeeded in all
  of its groups is reported as failed; the asynchronous overloads take the
  threshold when they begin.  README.md 130-131 states the rule for an attempt
  with the number of groups it was made with.
* `user_logs_empty_period`: `get_user_logs` with a callback calls
  `results->front()` on an empty list (446) when the period contains no day; the
  blocking overload returns an empty vector, and provider.h 183 announces a
  callback without a condition.
* `combine_new_key`: the tool writes every log to `r.id`, the id it was read from
  (`tools/hdb_tool.py` 100), and only the index of the new key is filled.
  README.md 136 says that it saves the logs in the new subkeys.  The log that was
  read is doubled instead, with every run (`CopiesPerRun`).
* `session_parameters_timeouts`: `create_config` (`provider_impl.cpp` 191-192)
  stores its argument `wait_timeout` as the configuration's `check_timeout`, and
  the other way round.  The constructors (`provider.h` 45-46, 52-53) and their
  callers (`webserver.cpp` 55-59) name them in the order in which
  `set_session_parameters` (258) passes them on, unexchanged.  So a provider
  waits for its groups as long as its `check_timeout` says until its parameters
  are set again.  With the defaults, 60 seconds for both, nobody notices.

`FrontEndsAgree` names the requests that the two front ends treat differently
(`Differs`): the method, which FastCGI does not look at; an empty key or list of
keys, which only FastCGI's handlers of the activity ignore; and `/get_user_logs`
for a period that ends before it begins, which FastCGI answers with an empty
list and which is undefined in thevoid (`user_logs_empty_period`).  Where the
two do the same, their replies have the same status and the same body, with one
exception, which the property states: when there are no logs thevoid's body is
empty (`on_get_user_logs.cpp` 89) and FastCGI's is `{"logs":[]}`.

Both refuse `/get_active_users` with the parameters that README.md 100-104 of
the repository documents, `time` or `key`: they look for `keys`, or for
`begin_time` and `end_time` (`historydb-fastcgi.cpp` 266-283).  That is read off
the handlers and needs no run.

## Fairness

Safety needs none.  The liveness properties assume weak fairness of the
handlers and of the calling thread once it is inside an operation (the threads
of the process run), and of the completion of every request.  The latter is
elliptics' `wait_timeout`: in every group a request ends with a reply or with an
error.  Nothing is assumed of the groups: `Apply` is not fair, and a caller need
not make a call.  FrontEnds assumes that a request that has arrived is handled
and that the provider's operations end, which is what `EveryCallAnswered` and
`EveryReadAnswered` say of them.  CombineTool assumes that the tool's process
runs until it is killed, and its requests end with the timeout; nobody need start
it.

## Proofs

Every safety property of the runs is a theorem but for three of JsonBody (at the
end of this section).  The theorems hold for every value of the constants under
the named ASSUMEs of the modules: finite sets of groups and of users, natural
numbers for thresholds, capacities and bounds, calls of known operations,
periods of known times, a type of times in which a day fits, at least one key
for the tool, configurations of known members and numerals
(`ConfigsAssumption`), no more groups than there are non-negative ints
(`GroupsFit`; a group's number is one), replies of byte strings
(`RepliesAssumption`).  The bounds of the runs are arbitrary numbers there.

Each proof has the same shape.  The property is not inductive, because it does
not say why it holds; `IInv` adds what the code relies on.  One lemma for each
action shows that the action keeps `IInv` (`...Step`, `...Inv`), `InvStep` or
`StepInv` puts them together, `Invariance` is `Spec => []IInv`, and each
property follows from `IInv`.  TLC has checked every such invariant on the
instance of the component's run.

* **WaiterProofs.**  `IInv` says for each waiter: the mutex is held exactly by
  the handler that is inside (`MutexInv`); a flag is set exactly when its
  handler has passed that statement or the part does not exist (`FlagInv`); the
  verdict is that of the handlers that have counted, and it has been handed out
  exactly when all are past `handle()` (`ResultInv`).  The last part is what
  makes it inductive: at `Handle`, the mutex excludes that the other handler has
  set its flag but not yet been through `handle()`.  From it follow `TypeOK`,
  `AnsweredOnceInFull` and that every step is a step of `Completion` or changes
  nothing the caller sees.
* **AddOpsProofs.**  `IInv` adds to the types that an acknowledged request has
  been executed and an executed one is in the store (`RequestInv`), and that
  `result` is the verdict on the parts taken, each of which is complete
  (`VerdictInv`).  `AddedMeansStored` follows because the acknowledging groups
  are a subset of those that store the part, `AllAckedMeansAdded` from the clamp of
  the constructors (without which the second call of `add_ops` could never succeed),
  and the refinement because a complete part gets no more replies.  For
  `AddedInOrder` the files are needed as well: they hold executed appends only
  (`FilesInv`), and a call that was answered TRUE before another was made has its
  record in front in every group that acknowledged it (`OrderInv`).
* **SessionParametersProofs.**  `ParamInv` says how far the three assignments
  have come: between two runs of `set_session_parameters` the parameters are
  those that were asked for, clamped.  `CallInv` says that a call holds what the
  setting said that was in force when it was made, as far as it has copied it,
  unless `set_session_parameters` ran while the call was copying (`disturbed`).
  `AsyncJudgedAsMade` follows, and the action property `SyncJudgedUndisturbed`:
  the threshold a blocking call finds after its wait is its own setting's if no
  other was asked for.  What is required of a call (`Required`) is stated
  without the code's clamp.  They are stated for `Spec`; the runs' `ServedSpec`,
  in which a front end's configuration comes first, implements it
  (`ServedImplements`: the initial setting is one the constructors can get,
  every step is one of `Spec`), so that they hold of it as well.

`ConfiguredWrites` (`ServedAsConfigured`) and `NumbersKept`
(`NumbersWrittenBack`) are about numbers.  `ParseNumber` is a fold over the
digits of a numeral and `Digits` a recursive function.  What they compute is
proved from the well-founded order of the naturals: a set of naturals with 0 and
with the successor of each member is all of them (`Induction`), so the fold over
the first k digits is the number they denote for every k.  As long as no check
before the last digit fires, the reader's value is that number (`Holds`); the
width it ends with is the least that holds it, so that `GetInt` and `GetUint`
succeed exactly for what an int holds, and `Digits` of the value are the digits
that were read, because a `Numeral` has no leading zeros.  All of this is for
ints of any width of at least 5 bits.
* **UserLogsProofs.**  First the arithmetic: the increment in
  `time_period_to_subkeys` cannot wrap around (`NoOverflow`), the subkeys of a
  period are its days in order (`PeriodSubkeys`), and every time of the period
  is on one of them (`PeriodCovered`).  `IInv` then says of each call that files
  only grow and a reply is at least the file that was there when the call was
  made, and that what is gathered are the non-empty files of the results taken
  so far, one for each, in their order.  `DaysInOrder` and `GathersTheResults`
  follow with `PeriodSubkeys`; `SeesEarlierRecords` needs `PeriodCovered`: the
  day of the time in question was among those read.
* **ActiveUsersProofs.**  What was read of an index was in it (`Genuine`), and a
  day read since the caller was last in control has everyone who was active then
  (`Current`); both rest on indexes that only grow.  `OnlyActiveUsers` follows
  from the first, and the action property `NoActiveUserMissed` from the second
  at the moment at which a set is handed out.
* **FrontEndsProofs.**  `HandlerDecides` goes through the ten handlers: whatever
  a request contains, a handler refuses it or calls an operation that writes
  exactly the parts its URI promises.  `IInv` ties the operation that was called
  to the provider's call and the reply to the provider's answer, from which
  `StatusTellsWrites` follows for any number of groups: an exception comes
  before the last request was sent, so that neither 400 nor 500 can be a lie.
  `FrontEndsAgree` comes from `SameDecision`, a comparison of the handlers URI
  by URI outside of `Differs`, and from the one reply that each outcome of a
  call can have (`OnlyReply`, `Alike`).
* **CombineToolProofs.**  For `RecordsKept`: what the tool holds or has sent of
  a log are records of it (`OwnRecords`), so that whatever is appended, whenever
  and however often, comes behind the first copies (`ConcatKept`), as does a
  client's record (`AppendKept`).  For `ActiveUnderNewKey`: a run without a
  failure waits for each update it has sent (`WaitedFor`), and whoever was
  active under the current key is in a batch to come, in the new index, or has
  an update on its way (`InHand`); keys already passed are done (`Progress`).  A
  key that was given up (`KeyFails`) is a failure of the run.  An update of an
  earlier run that comes late does no harm: it is for a user who was to be
  processed, and it is not this run's.  For `CopiesPerRun` (`CopiesBounded`): a
  write of run r holds at most 2^(r-1) copies of a record (`HalfCopies`), and a
  run sends one write to a log (`OneWrite`).  What makes it inductive is an
  account (`Bounded`): the copies that are in the log and those that writes of
  earlier runs may still bring add up to at most 2^`runs`, and to half of that
  as long as the run has yet to write (`ToWrite`).  A run that is given a key
  twice may write twice; the property is about runs that are not
  (`IsInjective(KEYS)`).  Users that `--user` leaves out have one copy
  (`OthersAlone`).
* **JsonBodyProofs.**  `PoolSound` - the blocks of a pool lie in the used part
  of their chunks and share no byte - is kept by `Malloc` and `Realloc` for any
  size and any capacity of a chunk, and neither changes another block's contents
  (`MallocSound`, `ReallocSound`).  The growth in place is the interesting case:
  the block must end where its chunk does.  On top of these, `BodyInv` says that
  each document has its stack within a block of its pool (`DocumentOK`), that
  the array has a block of its capacity (`ArrayIn`), and that the records so far
  are in blocks of their own to which its elements point (`ElementsKept`).  The
  stack and the array are not the same block, and neither is an element's, which
  is what keeps an element when either of them is moved.  From it follow
  `TypeOK` (`BodyTypes`), `MemorySound` (`MemoryKept`) and `DocumentKept`
  (`DocumentHoldsRecords`), for any replies, sizes and capacities, however a
  body is cut, and through all attempts to parse it.  The theorems are about any
  writer and reader: their hypothesis `[]StreamsOK` says only that the reader
  calls the three kinds of handler functions, with strings of bytes and counts,
  as the C++ types have it, and that the length of a text is a number.
  `StreamsOK` is a conjunct of `TypeOK`, which the run checks with those of
  `JsonText`.

Only model-checked are:

* the liveness properties (`EveryCallAnswered`, `EveryReadAnswered`,
  `EveryQueryAnswered`, `EveryRequestAnswered`, `RunEnds`): fairness and ENABLED
  are beyond the prover;
* `AcceptedWhole`, `RefusedCut` and `NoAssertFails`: they are about what the
  reader makes of a text and of its beginnings, and texts are written and parsed
  by recursive operators; a module that reaches one is closed to the prover's
  SMT backend.

## Abstractions

* elliptics is external: append, index update, replies, timeouts and
  `read_latest` are modelled as the library uses them.  That `res.size()` counts
  the groups that succeeded is its sessions' default filter.
* `combine_key(user, subkey)` is the pair of both.  The string `user.subkey` is
  the same for different pairs if names contain dots.
* A read of UserLogs sees the file as it is at one moment of the call.  With
  `min_writes` below the number of groups the replicas may differ, and
  `read_latest` picks one by rules of elliptics.
* `find_any_indexes` of several days is one reply per day.  The sessions of the
  reads do not throw (`no_exceptions`): a read that fails has no entries, and so
  the front ends reply 200 to it.
* FrontEnds compares kinds of bodies; their text is left to JsonBody, the
  configuration to Configuration.  It takes 404 for what the servers do with a
  request that no handler is registered for.  The value of an argument is its
  kind: absent, empty, a text, or one of two numbers.
* CombineTool has one store instead of groups.  A crash between two sends is
  covered by a crash after both and the loss of the second request.
* Groups are a set: a group named twice in a configuration counts once here and
  twice in `groups.size()`.
* Of a value that became a double only that is kept.  Without assertions
  `GetInt` of a double returns half of its representation; such a configuration
  is left out.  thevoid parses its configuration with a copy of rapidjson of its
  own, which is taken to be this one; `asInt` of the FastCGI daemon is taken to
  throw unless the item is an int.
* JsonBody has one reply at a time, `Document` and `Value` with strings, arrays
  and objects; no booleans, nulls, doubles, surrogate pairs or in-situ parsing,
  which the replies never contain or use.  What the network does to a body is to
  cut it.  Addresses are pairs of chunk and offset, and malloc of a chunk does
  not fail.  A request without logs gets an empty body from thevoid, which a
  client that parses would refuse; `RefusedCut` leaves it out, and
  `src/test/test.py` 62-83 accepts it.
* Logging, formatting and connection set-up are left out.

## Plan

Done: all modules listed above, and the proofs of every safety property of the
write path, the session parameters, the configuration, the reads, the active
users, the front ends, the tool and the documents of the replies.  What is left:

1. **Texts**: the writer and the reader of JsonText as recursive functions over
   positions instead of RECURSIVE operators.  Then `StreamsOK` could be proved
   of the code's reader, and that it reads back what the writer wrote, as
   NumbersKept does for numbers; from that, `AcceptedWhole`.
2. **Asserts**: `NoAssertFails` for any reader whose events are nested, with the
   size of the stack as the depth of nesting.

## Not modelled

A failed call that the caller repeats (the library does not retry), which
replica `read_latest` picks, and the lifetime of a body after `send_headers`
returned are decided outside this repository.  The sample programs and test
scripts keep no state, `src/tools/historydb_tool.py` is for the index layout of
an earlier version, `tools/shooting_check.py` is pure input and output, and
rapidjson's `prettywriter.h`, `filestream.h`, `pow10.h` and `strfunc.h` are not
used by the front ends or are tables and string lengths.
