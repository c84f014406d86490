----------------------------- MODULE MCAccelScan -----------------------------
(***************************************************************************)
(* Vectors of four bytes of two 2-bit nibbles, in words of two.  The       *)
(* buffers: long ones over a byte or two that every kernel tells apart, a  *)
(* vector with every two neighbours, and short ones.                       *)
(***************************************************************************)
EXTENDS AccelScan

CONSTANT MaxLen

Table(a, b, c, e) == [n \in 0..3 |-> <<a, b, c, e>>[n + 1]]

\* Each class has one of the bytes 1 and 6 and others, so that masks overlap.
OneByte ==
    { [op |-> "shufti", lo |-> Table({}, {1}, {0}, {0}), hi |-> Table({}, {0}, {1}, {})],
      [op |-> "truffle", clear |-> Table({}, {1}, {1}, {0}), set |-> Table({1}, {0}, {1}, {})],
      [op |-> "verm", c |-> 6, nocase |-> FALSE],
      [op |-> "verm", c |-> 6, nocase |-> TRUE],
      [op |-> "nverm", c |-> 1, nocase |-> TRUE] }

Directed(k, dir) == [f \in DOMAIN k \cup {"dir"} |-> IF f = "dir" THEN dir ELSE k[f]]

\* Bucket k: the byte first[k], then second[k].
Inverted(first, second) ==
    [op |-> "double", dir |-> "fwd",
     lo1 |-> [n \in 0..3 |-> {k \in BITS : first[k + 1] % 4 # n}],
     hi1 |-> [n \in 0..3 |-> {k \in BITS : first[k + 1] \div 4 # n}],
     lo2 |-> [n \in 0..3 |-> {k \in BITS : second[k + 1] % 4 # n}],
     hi2 |-> [n \in 0..3 |-> {k \in BITS : second[k + 1] \div 4 # n}]]

\* Whatever follows, as for a class that one byte may end.
AnySecond(k) == [k EXCEPT !.lo2 = [n \in 0..3 |-> @[n] \ {1}], !.hi2 = [n \in 0..3 |-> @[n] \ {1}]]

MCKernels ==
    {Directed(k, dir) : k \in OneByte, dir \in {"fwd", "rev"}}
    \cup { Inverted(<<6, 9>>, <<1, 9>>), Inverted(<<1, 6>>, <<6, 6>>), Inverted(<<6, 1>>, <<0, 0>>),
           AnySecond(Inverted(<<6, 9>>, <<1, 9>>)) }

MCBuffers ==
    UNION {[1..n -> {1, 6}] : n \in 0..MaxLen}
    \cup {<<a, b, 1, 1>> : a \in Bytes, b \in Bytes}
=============================================================================
