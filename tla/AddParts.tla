------------------------------ MODULE AddParts ------------------------------
(***************************************************************************)
(* The vocabulary of the provider's add operations, shared by the modules  *)
(* that model them: which writes an operation consists of.                 *)
(***************************************************************************)
Parts == {"log", "activity"}            \* append to the log file, index update
Kinds == {"log", "activity", "both"}    \* add_log, add_activity, add_log_with_activity

(* The parts an operation writes. *)
PartsOf(k) == IF k = "both" THEN Parts ELSE {k} \cap Parts
=============================================================================
