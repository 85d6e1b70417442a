------------------------------ MODULE DayKeys -------------------------------
(***************************************************************************)
(* src/lib/provider.cpp: the keys under which a day's records are kept.    *)
(* A subkey is the decimal numeral of the day since the epoch; numerals of *)
(* different days differ, so a day's subkey is modelled by its number.     *)
(***************************************************************************)
EXTENDS Integers, Sequences

CONSTANT Modulus    \* times and days are computed modulo this: 2^64

SECONDS_IN_DAY == 24 * 60 * 60

(* A type of times in which a day fits; uint64_t is far larger.             *)
ASSUME ModulusAssumption == Modulus \in Nat /\ Modulus > SECONDS_IN_DAY

AllTimes == 0..(Modulus - 1)

time_to_subkey(time) == time \div SECONDS_IN_DAY

(* Mutant: the last day of the period is forgotten. *)
Mutant_time_period_to_subkeys(begin_time, end_time) ==
  LET begin == begin_time \div SECONDS_IN_DAY
      end == (end_time \div SECONDS_IN_DAY) % Modulus
  IN [i \in 1..(end - begin) |-> begin + i - 1]

(* The days from begin_time's to end_time's, in order; none when the period *)
(* ends on a day before the one it begins on.                               *)
time_period_to_subkeys(begin_time, end_time) ==
  LET begin == begin_time \div SECONDS_IN_DAY
      end == ((end_time \div SECONDS_IN_DAY) + 1) % Modulus
  IN [i \in 1..(end - begin) |-> begin + i - 1]
=============================================================================
