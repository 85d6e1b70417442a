---------------------------- MODULE JsonNumbers -----------------------------
(***************************************************************************)
(* Numbers of rapidjson: the numeral of a text becomes a value in the      *)
(* narrowest type that ParseNumber of reader.h finds room in, GenericValue *)
(* of document.h notes the types that can hold it, and Writer of writer.h  *)
(* writes it.  What becomes a double keeps no value here.                  *)
(***************************************************************************)
EXTENDS Integers, SequencesExt

CONSTANT
  IntBits   \* width of int (32); an int64_t is twice as wide

(* A digit always fits. *)
ASSUME IntBitsAssumption == IntBits \in Nat /\ IntBits >= 5

(* A numeral: its sign, its digits, and whether a fraction or an exponent   *)
(* follows them.                                                            *)
Numeral(minus, digits, fraction) == [minus |-> minus, digits |-> digits, fraction |-> fraction]

(* There is a digit, and no other one follows a zero at the beginning.      *)
Numerals ==
  {n \in [minus : BOOLEAN, digits : Seq(0..9), fraction : BOOLEAN] :
     n.digits # <<>> /\ (n.digits[1] # 0 \/ Len(n.digits) = 1)}

Wide == 2 * IntBits
DoubleWidth == 3 * IntBits

(* The largest absolute value that is not too large: of the signed type for *)
(* a negative numeral, of the unsigned type for another.                    *)
Limit(minus, bits) == IF minus THEN 2^(bits - 1) ELSE 2^bits - 1

(* There is room for another digit d behind v.  Mutant: the last digit is   *)
(* not looked at.                                                           *)
MutantFits(v, d, limit) == v <= limit \div 10
Fits(v, d, limit) == v < limit \div 10 \/ (v = limit \div 10 /\ d <= limit % 10)

(* One digit more; where there is no room for it, the type gets wider.      *)
TakeDigit(minus, r, d) ==
  LET widths == {w \in {IntBits, Wide} : w >= r.width /\ Fits(r.value, d, Limit(minus, w))}
      width == IF widths = {} THEN DoubleWidth ELSE CHOOSE w \in widths : \A x \in widths : w <= x
  IN  [width |-> width, value |-> IF widths = {} THEN 0 ELSE (10 * r.value + d) % 2^width]

Signed(x, bits) == ((x + 2^(bits - 1)) % 2^bits) - 2^(bits - 1)
-----------------------------------------------------------------------------
(* The constructors of GenericValue: kIntFlag, kUintFlag and so on.         *)
Value(v, flags) == [value |-> v, flags |-> flags]
If(condition, flags) == IF condition THEN flags ELSE {}

OfInt(i) == Value(i, {"int", "int64"} \cup If(i >= 0, {"uint", "uint64"}))
OfUint(u) == Value(u, {"uint", "uint64", "int64"} \cup If(u < 2^(IntBits - 1), {"int", "int64"}))
OfInt64(i) == Value(i, {"int64"} \cup If(i >= 0, {"uint64"}) \cup If(i >= 0 /\ i < 2^IntBits, {"uint"})
                         \cup If(i < 2^(IntBits - 1) /\ i >= -(2^(IntBits - 1)), {"int"}))
OfUint64(u) == Value(u, {"uint64"} \cup If(u < 2^(Wide - 1), {"int64"}) \cup If(u < 2^IntBits, {"uint"})
                          \cup If(u < 2^(IntBits - 1), {"int"}))
OfDouble == Value(0, {"double"})

ParseNumber(n) ==
  LET r == FoldLeft(LAMBDA q, d : TakeDigit(n.minus, q, d), [width |-> IntBits, value |-> 0], n.digits)
  IN  IF n.fraction \/ r.width = DoubleWidth THEN OfDouble
      ELSE IF n.minus THEN IF r.width = Wide THEN OfInt64(Signed(-r.value, Wide))
                           ELSE OfInt(Signed(-r.value, IntBits))
      ELSE IF r.width = Wide THEN OfUint64(r.value) ELSE OfUint(r.value)

(* GetInt and GetUint assert the flag; what they would return without it is *)
(* not looked at.                                                           *)
IsInt(v) == "int" \in v.flags
IsUint(v) == "uint" \in v.flags
-----------------------------------------------------------------------------
(* WriteUint, WriteUint64: the digits from the last to the first, then      *)
(* turned round.                                                            *)
Digits[u \in Nat] == IF u < 10 THEN <<u>> ELSE Append(Digits[u \div 10], u % 10)

(* WriteInt, WriteInt64: i = -i is taken as unsigned.  It overflows for the  *)
(* least number; compilers negate it in two's complement, where it stays    *)
(* itself, and as unsigned it is the digits of the number again.            *)
WriteInt(i, bits) == Numeral(i < 0, Digits[IF i < 0 THEN (-i) % 2^bits ELSE i], FALSE)

(* Accept: the number goes out in the first of the types that holds it.     *)
WriteNumber(v) ==
  CASE "int" \in v.flags -> WriteInt(Signed(v.value, IntBits), IntBits)
    [] "int" \notin v.flags /\ "uint" \in v.flags -> Numeral(FALSE, Digits[v.value % 2^IntBits], FALSE)
    [] v.flags \cap {"int", "uint"} = {} /\ "int64" \in v.flags -> WriteInt(Signed(v.value, Wide), Wide)
    [] v.flags = {"uint64"} -> Numeral(FALSE, Digits[v.value], FALSE)
    [] OTHER -> Numeral(FALSE, <<>>, TRUE)

(* The number that a numeral without a fraction denotes. *)
Meaning(n) == LET v == FoldLeft(LAMBDA a, d : 10 * a + d, 0, n.digits) IN IF n.minus THEN -v ELSE v
=============================================================================
