---------------------------- MODULE MCNoodleScan ----------------------------
(***************************************************************************)
(* Tables and buffers on which TLC runs NoodleScan: the letter 0, 1 and    *)
(* two other bytes, 2 and 3, that differ in the same bit.                  *)
(***************************************************************************)
EXTENDS NoodleScan

CONSTANT MaxLen    \* the length of the longest buffers

Bytes == 0..3
AllBuffers == UNION {[1..n -> Bytes] : n \in 1..MaxLen}

Compiled(s, offset, nocase) ==
    [lit |-> [k \in DOMAIN s |-> AnyCase(s[k], nocase)], key_offset |-> offset,
     nocase |-> nocase, single |-> offset = 1,
     key0 |-> s[Len(s) - offset + 1],
     key1 |-> IF offset = 1 THEN 0 ELSE s[Len(s) - offset + 2]]

Literals == {<< 1 >>, << 2 >>, << 0, 2 >>, << 2, 1 >>, << 0, 0 >>, << 2, 2, 0 >>, << 1, 3, 1 >>}

\* Every place of the keys in a literal.
NoodleTables ==
    UNION {{Compiled(s, offset, nocase) : offset \in 1..Len(s), nocase \in BOOLEAN} : s \in Literals}
=============================================================================
