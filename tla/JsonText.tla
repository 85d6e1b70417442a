------------------------------ MODULE JsonText -------------------------------
(***************************************************************************)
(* Writer of rapidjson/writer.h and GenericReader of rapidjson/reader.h:   *)
(* a document's events (String, Start and End of an object or an array) to *)
(* text and back.  Text is a sequence of bytes.                            *)
(*                                                                         *)
(* The replies of the front ends hold strings, arrays and objects only, so *)
(* numbers, booleans, null, and escaped characters above 0x7F, are left    *)
(* out; the reader refuses them here.                                      *)
(***************************************************************************)
EXTENDS Naturals, SequencesExt, TLC

Quote == 34
Backslash == 92
Comma == 44
Colon == 58
Open == [object |-> 123, array |-> 91]
Close == [object |-> 125, array |-> 93]
Space == {9, 10, 13, 32}

String(s) == [type |-> "string", chars |-> s]
Start(kind) == [type |-> "start", kind |-> kind]
End(kind, n) == [type |-> "end", kind |-> kind, count |-> n]
-----------------------------------------------------------------------------
(* The characters that have a letter of their own after a backslash. *)
Letter == 8 :> 98 @@ 9 :> 116 @@ 10 :> 110 @@ 12 :> 102 @@ 13 :> 114 @@ 34 :> 34 @@ 92 :> 92
HexDigit(d) == IF d < 10 THEN 48 + d ELSE 55 + d

(* How WriteString puts one character.  Mutant: a backslash is put as it    *)
(* is.                                                                      *)
MutantEscapedPlain(c) == IF c < 32 THEN <<Backslash, 117, 48, 48, HexDigit(c \div 16), HexDigit(c % 16)>>
                         ELSE IF c = Quote THEN <<Backslash, c>> ELSE <<c>>
Escaped(c) ==
  IF c \in DOMAIN Letter THEN <<Backslash, Letter[c]>>
  ELSE IF c < 32 THEN <<Backslash, 117, 48, 48, HexDigit(c \div 16), HexDigit(c % 16)>>
  ELSE <<c>>

Quoted(s) == <<Quote>> \o FlattenSeq([i \in DOMAIN s |-> Escaped(s[i])]) \o <<Quote>>

(* The writer: its output, and the levels of nesting with the values so far *)
(* in each; "aborted" stands for a failed RAPIDJSON_ASSERT.                 *)
NewWriter == [out |-> <<>>, levels |-> <<>>, aborted |-> FALSE]
Put(w, text) == [w EXCEPT !.out = @ \o text]

Separator(l) ==
  IF l.count = 0 THEN <<>>
  ELSE IF l.kind = "array" \/ l.count % 2 = 0 THEN <<Comma>>
  ELSE <<Colon>>

(* In an object every other value is a name; a root is not a string. *)
Prefix(w, kind) ==
  IF w.levels = <<>> THEN [w EXCEPT !.aborted = @ \/ kind = "string"]
  ELSE LET l == Last(w.levels)
       IN  [out |-> w.out \o Separator(l),
            levels |-> Append(Front(w.levels), [l EXCEPT !.count = @ + 1]),
            aborted |-> w.aborted \/ (l.kind = "object" /\ l.count % 2 = 0 /\ kind # "string")]

WriteString(w, e) == Put(Prefix(w, "string"), Quoted(e.chars))
WriteStart(w, e) ==
  LET p == Prefix(w, e.kind)
  IN  Put([p EXCEPT !.levels = Append(@, [kind |-> e.kind, count |-> 0])], <<Open[e.kind]>>)
WriteEnd(w, e) ==
  IF w.levels = <<>> \/ Last(w.levels).kind # e.kind THEN [w EXCEPT !.aborted = TRUE]
  ELSE Put([w EXCEPT !.levels = Front(@)], <<Close[e.kind]>>)

Write(w, e) ==
  CASE e.type = "string" -> WriteString(w, e)
    [] e.type = "start" -> WriteStart(w, e)
    [] e.type = "end" -> WriteEnd(w, e)

Written(events) == FoldLeft(Write, NewWriter, events)
-----------------------------------------------------------------------------
(* A text as the reader sees it: a C string. *)
CString(text) == Append(text, 0)

(* The characters a letter stands for after a backslash.                    *)
Unescape == 98 :> 8 @@ 116 :> 9 @@ 110 :> 10 @@ 102 :> 12 @@ 114 :> 13 @@ 34 :> 34 @@ 92 :> 92 @@ 47 :> 47
(* Mutant: the capital ones are forgotten. *)
MutantHexDigits == 48..57 \cup 97..102
HexDigits == 48..57 \cup 65..70 \cup 97..102
HexValue(c) == CASE c <= 57 -> c - 48 [] c \in 65..70 -> c - 55 [] OTHER -> c - 87
Hex4(t, i) == HexValue(t[i]) * 4096 + HexValue(t[i + 1]) * 256 + HexValue(t[i + 2]) * 16 + HexValue(t[i + 3])
IsHex4(t, i) == i + 3 <= Len(t) /\ \A k \in 0..3 : t[i + k] \in HexDigits

(* The reader: where it is in the text, the events it has passed to its     *)
(* handler, and whether it still goes on (after an error it does not).      *)
NewReader == [at |-> 1, events |-> <<>>, ok |-> TRUE]
Refuse(r) == [r EXCEPT !.ok = FALSE]
Emit(r, e) == [r EXCEPT !.at = @ + 1, !.events = Append(@, e)]
Skip(t, r) ==
  [r EXCEPT !.at = CHOOSE j \in r.at..Len(t) : t[j] \notin Space /\ \A k \in r.at..(j - 1) : t[k] \in Space]
Next1(t, r) == Skip(t, [r EXCEPT !.at = @ + 1])

(* The rest of a string, from i; s is what it has so far. *)
RECURSIVE ParseChars(_, _, _, _)
ParseChars(t, r, i, s) ==
  CASE t[i] = Quote -> Emit([r EXCEPT !.at = i], String(s))
    [] t[i] = Backslash /\ t[i + 1] \in DOMAIN Unescape ->
         ParseChars(t, r, i + 2, Append(s, Unescape[t[i + 1]]))
    [] t[i] = Backslash /\ t[i + 1] = 117 /\ IsHex4(t, i + 2) /\ Hex4(t, i + 2) < 128 ->
         ParseChars(t, r, i + 6, Append(s, Hex4(t, i + 2)))
    [] t[i] >= 32 /\ t[i] \notin {Quote, Backslash} -> ParseChars(t, r, i + 1, Append(s, t[i]))
    [] OTHER -> Refuse(r)

ParseString(t, r) == IF t[r.at] = Quote THEN ParseChars(t, r, r.at + 1, <<>>) ELSE Refuse(r)

(* After a member's name: the colon. *)
ParseColon(t, r) == IF r.ok /\ t[r.at] = Colon THEN Next1(t, r) ELSE Refuse(r)

RECURSIVE ParseValue(_, _), ParseItems(_, _, _, _)

(* The n-th and later members of an object or elements of an array. *)
ParseItems(t, r, kind, n) ==
  LET name == IF kind = "object" THEN ParseColon(t, Skip(t, ParseString(t, r))) ELSE r
      v == IF name.ok THEN Skip(t, ParseValue(t, name)) ELSE name
  IN  CASE v.ok /\ t[v.at] = Comma -> ParseItems(t, Next1(t, v), kind, n + 1)
        [] v.ok /\ t[v.at] = Close[kind] -> Emit(v, End(kind, n))
        [] OTHER -> Refuse(v)

ParseNested(t, r, kind) ==
  LET s == Skip(t, Emit(r, Start(kind)))
  IN  IF t[s.at] = Close[kind] THEN Emit(s, End(kind, 0)) ELSE ParseItems(t, s, kind, 1)

ParseValue(t, r) ==
  CASE t[r.at] = Quote -> ParseString(t, r)
    [] t[r.at] = Open.object -> ParseNested(t, r, "object")
    [] t[r.at] = Open.array -> ParseNested(t, r, "array")
    [] OTHER -> Refuse(r)

(* One object or array and nothing after it. *)
Parse(text) ==
  LET t == CString(text)
      r == Skip(t, NewReader)
      v == IF t[r.at] \in {Open.object, Open.array} THEN Skip(t, ParseValue(t, r)) ELSE Refuse(r)
  IN  IF v.ok /\ t[v.at] # 0 THEN Refuse(v) ELSE v
=============================================================================
