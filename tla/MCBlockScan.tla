----------------------------- MODULE MCBlockScan -----------------------------
(***************************************************************************)
(* Tables, the programs of their literals and buffers on which TLC runs    *)
(* BlockScan.                                                              *)
(***************************************************************************)
EXTENDS BlockScan, EngineTables

P == INSTANCE ProgramCells

(***************************************************************************)
(* A table and programs that interact:                                     *)
(*   1 is 2 1 and includes 2, whose bucket it squashes;                    *)
(*   2 is 1 and pushes the delayed literal 4, two bytes on;                *)
(*   3 is 1 1, deduplicated, and pushes itself one byte on.                *)
(* A flood of 1 reports 2 and 3.  In the other two databases the replay of *)
(* 3 fails, by its program or as it has none.                              *)
(***************************************************************************)
MCTable ==
    Table(<< << Lit(1, << 2, 1 >>) >>, << Lit(2, << 1 >>) >>, << Lit(3, << 1, 1 >>) >> >>,
          << <<>>, << <<2, 1>>, <<1, 1>> >>, <<>> >>, 3)

MCDb(delayed) ==
    P!Compiled(<< P!Rep(1, 0), P!Incl({1}, 3), P!Stop,          \* 0
                  P!Rep(2, 0), P!Push(2, 1), P!Stop,            \* 3
                  P!Push(1, 2), P!Dedup(1, 3, 0, 1), P!Stop,    \* 6
                  P!Rep(4, 0), P!Stop,                          \* 9: delay 1
                  P!Dedup(1, 3, 0, 1), P!Stop,                  \* 11: delay 2
                  P!Rep(3, 0), P!Plain("OTHER") >>,             \* 13
               << P!Lit(0, 0), P!RunLit(3, 1), P!RunLit(6, 2) >>, delayed)

\* A few bytes, two runs of 1 and an end, around the lengths of the zones.
Runs(as, bs, cs, ds, es) ==
    {Bytes(0, a) \o Bytes(2, b) \o Bytes(1, c) \o Bytes(2, d) \o Bytes(1, e) :
        a \in as, b \in bs, c \in cs, d \in ds, e \in es}

ShortBuffers ==
    {s \in Runs({0, 3}, {1}, {1, 2, 9, 13}, 0..2, {0, 1, 2, 8}) :
        Len(s) \in {4, 5, 6, 9, 12, 21, 22, 25}}

(***************************************************************************)
(* Floods: runs of 1 behind a few bytes, then bytes that end the run, and  *)
(* maybe a second run.  A flood reports the literals that consist of 1     *)
(* only; 2 reaches into a run, 5 and 6 out of it.  Every program is a      *)
(* final report.                                                           *)
(***************************************************************************)
FloodTable(ids) ==
    Table(<< << Lit(1, << 1 >>), Lit(2, << 2, 1 >>) >>,
             << Ungrouped(3, << 1, 1 >>), Lit(4, << 1, 1 >>) >>,
             << Lit(5, << 1, 1, 2 >>) >>,
             << Lit(6, << 1, 2 >>) >> >>,
          << <<>>, ids, <<>> >>, 3)

\* The second table has more flood literals than a flood reports.
FloodTables ==
    {FloodTable(<< <<0, 1>>, <<1, 1>>, <<1, 2>> >>),
     FloodTable(<< <<0, 1>>, <<1, 1>>, <<1, 2>>, <<0, 1>> >>)}

FloodDb ==
    P!Compiled([c \in 1..6 |-> P!Final(c)],
               << P!RunLit(0, 0), P!Lit(1, 0), P!RunLit(2, 1), P!RunLit(3, 1),
                  P!Lit(4, 2), P!Lit(5, 3) >>, <<>>)

\* Probes that all fail behind one that did not: no byte repeats.
NoRuns(n) == [k \in 1..n |-> IF k > 4 /\ k % 2 = 0 THEN 2 ELSE 0]

FloodBuffers ==
    {NoRuns(n) : n \in {40, 60, 61, 90}} \cup
    {s \in Runs({0, 3}, {0, 1}, 9..18, 0..2, {0, 1, 8}) : Len(s) \in {21, 22, 25, 26, 27}}

MCTables == {MCTable} \cup FloodTables
MCLoaded ==
    {<<MCTable, MCDb(delayed)>> : delayed \in {<< 9, 11 >>, << 9, 13 >>, << 9 >>}}
    \cup {<<t, FloodDb>> : t \in FloodTables}
MCBuffers == ShortBuffers \cup FloodBuffers

-----------------------------------------------------------------------------
\* Literals of no group are not reported, here.
HitAt(id, end) ==
    /\ end \in 0..Len0-1
    /\ \E b \in DOMAIN table.chains : \E n \in DOMAIN table.chains[b] :
          LET lit == table.chains[b][n]
          IN  lit.id = id /\ lit.grouped /\ Occurs(lit, end)

ReplayAt(id, to) ==
    /\ table = MCTable /\ to <= Len0
    /\ \/ id = 4 /\ HitAt(2, to - 3)
       \/ id = 3 /\ HitAt(3, to - 2)

Expected(id, to) == HitAt(id, to - 1) \/ ReplayAt(id, to)

\* A scan reports the occurrences of every literal, direct, included or
\* delayed, and nothing else; none is reported twice, and what ends before the
\* callback said Terminate is not lost in a scan without an error.
EveryMatchOnce ==
    LET reported == {<<out[i].id, out[i].to>> : i \in DOMAIN out}
    IN  /\ \A m \in reported : Expected(m[1], m[2])
        /\ Cardinality(reported) = Len(out)
        /\ dat = "done" /\ err = "None" =>
              \A id \in 1..6, to \in 1..Len0 :
                  Expected(id, to) /\ <<id, to>> \notin reported =>
                      \E i \in DOMAIN out : out[i].reply = "Terminate" /\ out[i].end <= to
=============================================================================
