---------------------------- MODULE Configuration ---------------------------
(***************************************************************************)
(* Where the parameters of a session come from: webserver::initialize of   *)
(* src/thevoid/webserver.cpp reads a JSON object, handler::onLoad of       *)
(* src/fastcgi/historydb-fastcgi.cpp a configuration of the FastCGI        *)
(* daemon, and a client of the library passes them itself.  A front end    *)
(* never calls set_session_parameters; thevoid's makes every call with a   *)
(* callback, FastCGI's every call without.                                 *)
(*                                                                         *)
(* The JSON numbers are those of JsonNumbers.  A configuration that stops  *)
(* the server from starting is not a state of these modules.               *)
(***************************************************************************)
EXTENDS SessionParameters, JsonNumbers

CONSTANT
  Configs   \* configurations a server is started with

(* What the configuration of a front end consists of; see Library. *)
ASSUME ConfigsAssumption ==
  \A c \in Configs :
    \/ c.server = "library"
    \/ /\ c.server \in {"thevoid", "fastcgi"}
       /\ c.groups \subseteq Groups
       /\ {c.min_writes, c.wait_timeout, c.check_timeout} \subseteq Numerals

(* groups_ is a vector of as many ints as there are groups: they do not     *)
(* outnumber the ints from 0 on.                                            *)
ASSUME GroupsFit == Cardinality(Groups) <= 2^(IntBits - 1)

VARIABLE config   \* the one of this server

(* [server |-> "library", setting |-> ...] or, for a front end,             *)
(* [server, members, groups, min_writes, wait_timeout, check_timeout, asserts]: *)
(* the members that are present, the numerals of the numbers, and whether   *)
(* the build evaluates RAPIDJSON_ASSERT (debian/rules builds with NDEBUG).   *)
Library == config.server = "library"
-----------------------------------------------------------------------------
DefaultTimeout == 60
GroupsOf(c) == IF "groups" \in c.members THEN c.groups ELSE {}
NumGroups(c) == Cardinality(GroupsOf(c))

(* GetInt, GetUint: the low half of the value.  Without the assertion       *)
(* nothing looks at the flag; what is left of a double is not modelled.     *)
GetInt(v) == Signed(v.value, IntBits)
GetUint(v) == v.value % 2^IntBits
Readable(c, v, held) == IF c.asserts THEN held ELSE v # OfDouble

(* An int passed as the uint32_t min_writes.  Mutant: it cannot be          *)
(* negative.                                                                *)
MutantUnsigned(i) == IF i < 0 THEN 0 ELSE i
Unsigned(i) == i % 2^IntBits

(* webserver::initialize returns false, or an assertion fails, unless (the  *)
(* numbers of the groups and the log level are ints here):                  *)
InitializeSucceeds(c) ==
  /\ {"remotes", "groups"} \subseteq c.members
  /\ "wait_timeout" \in c.members => LET v == ParseNumber(c.wait_timeout) IN Readable(c, v, IsUint(v))
  /\ "check_timeout" \in c.members => LET v == ParseNumber(c.check_timeout) IN Readable(c, v, IsUint(v))
  /\ "min_writes" \in c.members => LET v == ParseNumber(c.min_writes) IN Readable(c, v, IsInt(v))

(* What it then creates the provider with. *)
InitializeSetting(c) ==
  [groups |-> GroupsOf(c),
   min_writes |-> IF "min_writes" \in c.members THEN Unsigned(GetInt(ParseNumber(c.min_writes)))
                  ELSE NumGroups(c),
   wait_timeout |-> IF "wait_timeout" \in c.members THEN GetUint(ParseNumber(c.wait_timeout))
                    ELSE DefaultTimeout,
   check_timeout |-> IF "check_timeout" \in c.members THEN GetUint(ParseNumber(c.check_timeout))
                     ELSE DefaultTimeout]

(* External: asInt of the FastCGI daemon's configuration throws unless the  *)
(* item is there and an int.                                                *)
AsInt(n) == Meaning(n)
AsIntSucceeds(n) == ~n.fraction /\ Meaning(n) \in -(2^(IntBits - 1))..(2^(IntBits - 1) - 1)

(* handler::onLoad: min_writes is required, no group is not an error, and   *)
(* the timeouts are the constructor's defaults.                             *)
OnLoadSucceeds(c) == "min_writes" \in c.members /\ AsIntSucceeds(c.min_writes)
OnLoadSetting(c) ==
  [groups |-> GroupsOf(c),
   min_writes |-> Unsigned(AsInt(c.min_writes)),
   wait_timeout |-> DefaultTimeout, check_timeout |-> DefaultTimeout]

Starts(c) ==
  \/ c.server = "library"
  \/ c.server = "thevoid" /\ InitializeSucceeds(c)
  \/ c.server = "fastcgi" /\ OnLoadSucceeds(c)

(* The arguments of the constructor of provider, which hands them on. *)
ProviderSetting(c) ==
  CASE c.server = "library" -> c.setting
    [] c.server = "thevoid" -> InitializeSetting(c)
    [] c.server = "fastcgi" -> OnLoadSetting(c)

CallsOf(server) == CASE server = "library" -> {"sync", "async"}
                     [] server = "thevoid" -> {"async"}
                     [] server = "fastcgi" -> {"sync"}
-----------------------------------------------------------------------------
ServedInit ==
  /\ config \in Configs
  /\ Starts(config)
  /\ asked = ProviderSetting(config)
  /\ Init

ServedNext ==
  /\ Next
  /\ UNCHANGED config
  /\ Library \/ settings' = settings
  /\ \A c \in Calls : mode'[c] = mode[c] \/ mode'[c] \in CallsOf(config.server)

ServedSpec == ServedInit /\ [][ServedNext]_<<vars, config>>
-----------------------------------------------------------------------------
(* The groups that must succeed for a server whose configuration says       *)
(* min_writes in a number that an int holds: that many, and all of them     *)
(* when it says nothing, more than there are, or a negative number.         *)
Demanded ==
  LET stated == IF "min_writes" \in config.members THEN Meaning(config.min_writes) ELSE -1
  IN  IF stated < 0 \/ stated > NumGroups(config) THEN NumGroups(config) ELSE stated

(* A server reports a write as done exactly when as many groups as its      *)
(* configuration demands took it: the number passes through the JSON        *)
(* reader, an int, a uint32_t, the clamp of the constructor and the copy of *)
(* the waiter, and is missing from some configurations.                     *)
ConfiguredWrites ==
  ~Library /\ ("min_writes" \in config.members => AsIntSucceeds(config.min_writes)) =>
  \A c \in Calls : answer[c] # "none" => (answer[c] = "added" <=> acked[c] >= Demanded)

(* The numeral -0. *)
MinusZero == Numeral(TRUE, <<0>>, FALSE)

(* A number without a fraction that 64 bits hold is written as it was read, *)
(* at the edges of every width too; but for -0, which loses its sign.       *)
NumbersKept ==
  ~Library =>
  \A n \in {config.min_writes, config.wait_timeout, config.check_timeout} :
    LET v == ParseNumber(n)
    IN  v # OfDouble /\ n # MinusZero => WriteNumber(v) = n
=============================================================================
