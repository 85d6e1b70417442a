---------------------------- MODULE MCJsonBody ------------------------------
(* Values for checking JsonBody: every string of up to two bytes of every   *)
(* class that the writer and the reader tell apart - plain, quote,          *)
(* backslash, a control character with a letter, one without, zero, and     *)
(* above 0x7F - and up to four short records, with the capacities scaled    *)
(* down so that the arrays, the stack and the chunks overflow.              *)
EXTENDS JsonDocument
OneName == <<97>>
Bytes == {97, 34, 92, 10, 27, 0, 233}
SomeReplies ==
  {<<s>> : s \in SeqOf(Bytes, 2)} \cup SeqOf({<<>>, <<97, 97, 34, 97, 97>>}, 4)
=============================================================================
