------------------------------ MODULE MCLoadDb ------------------------------
(***************************************************************************)
(* The files on which TLC runs LoadDb, around the borders of each stage.   *)
(***************************************************************************)
EXTENDS LoadDb

Around(n) == {n - 1, n, n + 1}

\* A database that loads, with an FDR table of the smallest domain.
FtSize == 512 * 8
FdrSize == FT_OFFSET + FtSize + 4 * NUM_CONF_BUCKETS + FLOOD_AREA
TableAt == OUTFIX_END_QUEUE + 4 + HWLM_DATA_OFFSET

Loadable ==
    [len |-> DB_STRUCT_SIZE + TableAt + FdrSize, length |-> TableAt + FdrSize,
     magic |-> TRUE, version |-> TRUE, crc |-> TRUE,
     block |-> TRUE, runtime |-> 0, machinery |-> FALSE, fmatcher |-> OUTFIX_END_QUEUE + 4,
     engine |-> 0, size |-> FdrSize, conf |-> FT_OFFSET + FtSize,
     flood |-> FT_OFFSET + FtSize + 4 * NUM_CONF_BUCKETS,
     stride |-> 1, domain |-> 9, mask |-> 511, confirm |-> TRUE]

\* A bytecode of n bytes.
Sized(f, n) == [f EXCEPT !.len = DB_STRUCT_SIZE + n, !.length = n]

CutFiles ==
    {[Loadable EXCEPT !.len = n, !.length = m,
                       !.magic = ok[1], !.version = ok[2], !.crc = ok[3]] :
        n \in {0} \cup Around(BYTECODE_OFFSET) \cup Around(DB_STRUCT_SIZE) \cup Around(Loadable.len),
        m \in {0, 1} \cup Around(Loadable.length), ok \in BOOLEAN \X BOOLEAN \X BOOLEAN}

RoseFiles ==
    {[Sized(Loadable, n) EXCEPT !.block = b, !.runtime = r, !.machinery = m] :
        n \in {0} \cup Around(TOTAL_NUM_LITERALS + 4) \cup Around(OUTFIX_END_QUEUE + 4),
        b \in BOOLEAN, r \in 0..2, m \in BOOLEAN}

MatcherFiles ==
    {[Sized(Loadable, TableAt + n) EXCEPT !.fmatcher = fm, !.engine = e] :
        n \in {0, 3, 4}, e \in {0, 11},
        fm \in {0, 1} \cup Around(OUTFIX_END_QUEUE + 4) \cup Around(TableAt)}

\* Sizes around what is read of the header; then, with a size that fits, the
\* fields that divide the table.
FdrFiles ==
    {[Sized(Loadable, TableAt + n) EXCEPT !.size = s] :
        n \in Around(FT_OFFSET) \cup Around(FdrSize),
        s \in {0} \cup Around(20) \cup Around(24) \cup Around(FDR_FIELDS) \cup Around(FdrSize)}
    \cup {[Loadable EXCEPT !.size = s, !.conf = c, !.flood = f, !.confirm = ok] :
             s \in {FdrSize - 1, FdrSize}, ok \in BOOLEAN,
             c \in Around(Loadable.conf), f \in Around(Loadable.flood)}
    \cup {[Loadable EXCEPT !.stride = s, !.domain = d, !.mask = m] :
             s \in 0..5, d \in {8, 9, 10}, m \in Around(511) \cup {1023}}

\* The same for Teddy: the masks of engines 11, 14 and 18 end at 96, 128, 192.
TeddyFiles ==
    {[Sized(Loadable, TableAt + n) EXCEPT !.engine = e, !.size = s, !.conf = 96] :
        n \in {3, 4, 7, 8, 19, 20, 128}, e \in {3, 10, 11, 12, 14, 18, 19}, s \in Around(20)}
    \cup UNION {{[Sized(Loadable, TableAt + s - missing) EXCEPT
                    !.engine = m[1], !.size = s, !.conf = c, !.confirm = ok] :
                    s \in Around(m[2]) \cup Around(m[2] + 4 * NUM_CONF_BUCKETS),
                    missing \in {-1, 0, 1}, c \in Around(m[2]), ok \in BOOLEAN} :
                 m \in {<<11, 96>>, <<14, 128>>, <<18, 192>>}}

SmallFiles == CutFiles \cup RoseFiles \cup MatcherFiles \cup FdrFiles \cup TeddyFiles
=============================================================================
