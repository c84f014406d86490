---------------------------- MODULE MCLoadedTable ----------------------------
(***************************************************************************)
(* The files and tables on which TLC runs LoadedTable: one bucket in use,  *)
(* with a header, an index of two entries and a chain of one literal or    *)
(* two, and tables that end at and around each of them.                    *)
(***************************************************************************)
EXTENDS MCLoadDb, LoadedTable

\* The distances of the header and of the chain, the width of the index and
\* the mark of the first literal; the next one ends the chain.
Layouts ==
    {l \in [bucket: {0, 31, 32}, width: {0, 1}, chain: {0, 40}, mark: {0, 1}] :
        l.width = 0 \/ l.bucket = 0 => l.chain = 0 /\ l.mark = 0}
LongLayouts == {l \in Layouts : l.bucket = 32 /\ l.width = 1 /\ l.chain = 40}

Memory(conf, bound, l) ==
    [p \in conf-4..bound |->
       LET head == conf + l.bucket
           lit  == head + l.chain
       IN  IF p = conf THEN l.bucket
           ELSE IF l.bucket = 0 THEN 0
           ELSE IF p = head + N_BITS THEN l.width
           ELSE IF p = head + HEADER THEN l.chain
           ELSE IF p = lit + MARK THEN l.mark ELSE 0]

\* A Teddy table of one mask, by its size, and the bytes missing behind it.
TeddyFile(size, missing, conf, ok) ==
    [Sized(Loadable, TableAt + size - missing) EXCEPT
        !.engine = 11, !.size = size, !.conf = conf, !.confirm = ok]

TeddySizes == Around(96 + 32) \cup Around(96 + 64) \cup {96 + 72} \cup Around(96 + 104) \cup Around(96 + 136)

SmallTeddyFiles ==
    {TeddyFile(n, missing, conf, ok) :
        n \in TeddySizes, missing \in {-1, 0, 1}, conf \in {95, 96}, ok \in BOOLEAN}

\* An FDR table: the bucket lies between the offsets and the flood area.
FdrFile(room, missing, ok) ==
    [Sized(Loadable, TableAt + FdrSize + room - missing) EXCEPT
        !.size = FdrSize + room, !.flood = Loadable.flood + room, !.confirm = ok]

SmallFdrFiles == {FdrFile(room, missing, ok) : room \in {-1, 0, 104}, missing \in {0, 1}, ok \in BOOLEAN}

LoadedFiles == SmallFiles \cup SmallTeddyFiles \cup SmallFdrFiles

\* The table of a file, as far as its engine is known, with what it holds.
LowOf(f) ==
    IF f.engine = 0 THEN FT_OFFSET + (f.mask + 1) * 8
    ELSE MASK_BASE_OFF + 32 * (IF f.engine < 13 THEN 1 ELSE (f.engine - 9) \div 2)

TableOf(f, mem) ==
    LET bytes == f.length - (f.fmatcher + HWLM_DATA_OFFSET) IN
    [len |-> IF bytes < 0 THEN 0 ELSE bytes, size |-> f.size, conf |-> f.conf,
     low |-> LowOf(f), high |-> IF f.engine = 0 THEN f.flood ELSE f.size, mem |-> mem]

\* Without buckets, or with one whose header lies behind every table.
Bare(f) ==
    LET first == IF LowOf(f) < f.conf THEN LowOf(f) ELSE f.conf IN
    TableOf(f, [p \in first..f.size |-> IF p = f.conf /\ ~f.confirm THEN 2 * FdrSize ELSE 0])

LoadedTables ==
    {Bare(f) : f \in SmallFiles}
    \cup {TableOf(f, Memory(f.conf, f.size + LIT_INFO, l)) : f \in SmallTeddyFiles, l \in Layouts}
    \cup {TableOf(f, Memory(f.conf, f.size + LIT_INFO, l)) : f \in SmallFdrFiles, l \in LongLayouts}
=============================================================================
