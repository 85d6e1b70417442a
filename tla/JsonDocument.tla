---------------------------- MODULE JsonDocument -----------------------------
(***************************************************************************)
(* JsonBody with the writer and the reader of JsonText: a value of a       *)
(* document is put in the writer's events.                                 *)
(***************************************************************************)
EXTENDS JsonBody, JsonText

RECURSIVE Events(_, _)
Events(h, v) ==
  IF v.type = "string" THEN <<String(Chars(h, v))>>
  ELSE <<Start(v.type)>> \o FlattenSeq([i \in 1..Held(v.type, v.size) |-> Events(h, Values(h, v)[i])])
         \o <<End(v.type, v.size)>>

DocumentText(h, v) == Written(Events(h, v))
=============================================================================
