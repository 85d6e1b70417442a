---------------------------- MODULE MCFrontEnds ----------------------------
(* Model values for checking FrontEnds: every URI and method, with every    *)
(* combination of the arguments that are used or documented for the URI.    *)
EXTENDS FrontEnds

Some(a) ==
  CASE a \in {"user", "data"} -> {"absent", "text"}
    [] a \in {"key", "keys"} -> {"absent", "empty", "text"}
    [] a = "time" -> {"absent", "text", "early"}
    [] OTHER -> {"absent", "text", "early", "late"}

Used(uri) ==
  CASE uri \in {"/add_log", "/add_log_with_activity"} -> {"user", "data", "key", "time"}
    [] uri = "/add_activity" -> {"user", "key", "time"}
    [] uri = "/get_active_users" -> {"key", "time", "keys", "begin_time", "end_time"}
    [] uri = "/get_user_logs" -> {"user", "keys", "begin_time", "end_time"}
    [] OTHER -> {}

URIs == {"/", "/add_log", "/add_activity", "/add_log_with_activity",
         "/get_active_users", "/get_user_logs", "/other"}

Arguments(uri) ==
  {[a \in Args |-> IF a \in Used(uri) THEN f[a] ELSE "absent"] :
     f \in {g \in [Used(uri) -> Values] : \A a \in Used(uri) : g[a] \in Some(a)}}

AllQueries ==
  UNION {[uri : {uri}, method : {"GET", "POST"}, args : Arguments(uri)] : uri \in URIs}

(* src/thevoid's provider writes to both groups, the other to one of them. *)
TwoAndOne == [s \in FrontEnd |-> IF s = "thevoid" THEN 2 ELSE 1]
=============================================================================
