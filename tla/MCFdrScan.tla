----------------------------- MODULE MCFdrScan ------------------------------
(***************************************************************************)
(* Tables and buffers on which TLC runs FdrScan.                           *)
(***************************************************************************)
EXTENDS FdrScan, EngineTables

\* Lengths around every case of prepare_zones: one zone, no main zone with a
\* one- and a two-block tail, and main zones with every length of the tail.
EdgeLengths == {1, 2, 7, 8, 9, 15, 16, 17, 18, 19, 31, 32, 33, 34, 35, 36, 37, 50, 51}

\* A literal that a flood of 1 reports, and one that ends a run.
RunTable ==
    Table(<< << Once(1, << 1 >>) >>, << Lit(2, << 1, 2 >>) >> >>,
          << <<>>, << <<0, 1>> >>, <<>> >>, 9)

\* Runs that are too short for a flood, or flood one or two blocks.
RunBuffers == {Bytes(0, a) \o Bytes(1, n) \o << 2, 0 >> : a \in {1, 30}, n \in {200, 290, 300}}

ZoneTables == {EdgeTable, RepeatTable, RunTable}
ZoneBuffers ==
    EdgeBuffers(EdgeLengths)
    \cup TwoBuffers(70, {1, 8} \cup 14..18 \cup 31..34 \cup 50..53, {2, 16})
    \cup {ThreeBlocks(70, 20)} \cup RunBuffers
=============================================================================
