---------------------------- MODULE EngineTables ----------------------------
(***************************************************************************)
(* Engine tables and buffers on which TLC runs the literal engines.        *)
(***************************************************************************)
EXTENDS Integers, Sequences

Bytes(byte, n) == [k \in 1..n |-> byte]

Lit(id, bytes) == [id |-> id, lit |-> bytes, norepeat |-> FALSE, grouped |-> TRUE]
Once(id, bytes) == [Lit(id, bytes) EXCEPT !.norepeat = TRUE]
Ungrouped(id, bytes) == [Lit(id, bytes) EXCEPT !.grouped = FALSE]

\* The chains of the buckets 0, 1, ... and the literals that consist of one
\* byte only, 0, 1 or 2; with the stride of an FDR table and the number of
\* masks of a Teddy table.
Table(chains, ids, suffix) ==
    [chains |-> [b \in 0..Len(chains)-1 |-> chains[b + 1]],
     floods |-> [c \in 0..2 |-> [ids |-> ids[c + 1], suffix |-> suffix]],
     stride |-> 1, masks |-> 3]

(***************************************************************************)
(* Literals that begin with zeros, the byte that stands for the history    *)
(* before the buffer: 3 fills the window of a confirm, and 4 is longer.    *)
(* Literal 2 ends where 1, 3 and 4 end.                                    *)
(***************************************************************************)
EdgeTable ==
    Table(<< << Lit(1, << 0, 1, 2 >>) >>,
             << Lit(2, << 2 >>), Ungrouped(5, << 1, 2 >>) >>,
             << Lit(3, Bytes(0, 6) \o << 1, 2 >>), Lit(4, Bytes(0, 7) \o << 1, 2 >>) >> >>,
          << <<>>, <<>>, << <<1, 1>> >> >>, 9)

\* A literal that is left out while it repeats, and one that interrupts it.
RepeatTable ==
    [Table(<< << Once(1, << 2 >>) >>, << Lit(2, << 1, 0 >>) >> >>,
           << <<>>, <<>>, << <<0, 1>> >> >>, 9)
        EXCEPT !.stride = 2, !.masks = 1]

\* Zeros but for the bytes 1, 2 at some places, of which the 1 may be cut off
\* at the beginning and the 2 at the end.
Pairs(n, places) ==
    [k \in 1..n |-> IF k \in places THEN 1 ELSE IF k - 1 \in places THEN 2 ELSE 0]

EdgeBuffers(lens) == UNION {{Pairs(n, {p}) : p \in 0..n} : n \in lens}

\* Two pairs, distance d apart, and a byte 2 in each of three blocks.
TwoBuffers(n, ps, ds) == {Pairs(n, {p, p + d}) : p \in ps, d \in ds}
ThreeBlocks(n, p) == [k \in 1..n |-> IF k \in {p, p + 16, p + 32} THEN 2 ELSE 0]
=============================================================================
