---------------------------- MODULE MCTeddyScan -----------------------------
(***************************************************************************)
(* Tables and buffers on which TLC runs TeddyScan.                         *)
(***************************************************************************)
EXTENDS TeddyScan, EngineTables

TeddyTables == {EdgeTable, RepeatTable}

\* Buffers without a tail, with tails of 1, 2 and 15 bytes, and shorter ones
\* than a block; two occurrences in one block and in neighbouring ones.
TeddyBuffers ==
    EdgeBuffers({1, 2, 8, 15, 16, 17, 18, 31, 32, 33}) \cup TwoBuffers(52, 1..34, {2, 16})
=============================================================================
