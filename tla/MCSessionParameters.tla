------------------------ MODULE MCSessionParameters -------------------------
(* Model values for checking SessionParameters: one or two groups, a          *)
(* min_writes at, below and above their number, and unequal timeouts; the     *)
(* calls may be exchanged.  The configurations of the servers: every number   *)
(* around the edges of an int of 8 bits and of the 16 bits that stand for     *)
(* 64, and every set of members with one number.                              *)
EXTENDS Configuration, TLC
CONSTANTS c1, c2, g1, g2
TwoCalls == {c1, c2}
CallsExchanged == Permutations(TwoCalls)
TwoGroups == {g1, g2}
SomeSettings ==
  {[groups |-> g, min_writes |-> m, wait_timeout |-> 30 + m, check_timeout |-> 60] :
     g \in {{g1}, {g1, g2}}, m \in {1, 3}}
SomeTimeouts == {7, 31, 33, 44, 60}

Around(edges) == UNION {(e - 2)..(e + 2) : e \in edges}
SomeNumbers == (-12)..12 \cup Around({-99, 99, -128, 127, 255, -999, 999, -32768, 32767, 65535})
NumeralOf(x) == Numeral(x < 0, Digits[IF x < 0 THEN -x ELSE x], FALSE)
Half == Numeral(FALSE, <<0>>, TRUE)

Served(server, members, asserts, n) ==
  [server |-> server, members |-> members, asserts |-> asserts, groups |-> TwoGroups,
   min_writes |-> n, wait_timeout |-> NumeralOf(7), check_timeout |-> NumeralOf(300)]
AllMembers == {"remotes", "groups", "min_writes", "wait_timeout"}
SomeConfigs ==
  {[server |-> "library", setting |-> s] : s \in SomeSettings}
  \cup {Served(server, AllMembers, a, n) : server \in {"thevoid", "fastcgi"}, a \in BOOLEAN,
          n \in {NumeralOf(x) : x \in SomeNumbers} \cup {MinusZero, Half}}
  \cup {Served(server, m, a, NumeralOf(1)) : server \in {"thevoid", "fastcgi"}, a \in BOOLEAN,
          m \in SUBSET (AllMembers \cup {"check_timeout"})}
SomeCreated == [groups : SUBSET TwoGroups, min_writes : 0..255,
                wait_timeout : SomeTimeouts, check_timeout : SomeTimeouts]
=============================================================================
