---------------------------- MODULE TableProofs ----------------------------
(***************************************************************************)
(* What is checked once, when a file is loaded, is what the unchecked      *)
(* reads of a scan rely on: ConfirmTable, LoadDb and both together.        *)
(***************************************************************************)
EXTENDS LoadedTable, TLAPS

(***************************************************************************)
(* The reads of a confirm stay inside the table, for every memory and all  *)
(* widths of the fields: what validate_confirm checks once is exactly what *)
(* each step of the walk hands on to the next one.                         *)
(***************************************************************************)

USE DEF IsTable

\* What is known at each point of the walk.
WalkInv ==
    /\ table \in Tables /\ Accepted(table)
    /\ at \in {"idle", "header", "index", "chain"}
    /\ at # "idle" => pos \in Nat /\ table.low <= pos
    /\ at \in {"header", "index"} =>
          pos + HEADER <= table.size /\ IndexFits(table, pos)
    /\ at = "index" =>
          /\ ~NoIndex(table.mem[pos + N_BITS])
          /\ entry \in 0..2^table.mem[pos + N_BITS] - 1
    /\ at = "chain" => ChainFits(table, pos)
    /\ read.to \in Nat /\ ReadsInside

\* The first literal of a chain that fits lies inside the table.
LEMMA FirstFits ==
    ASSUME NEW t \in Tables, NEW li \in Nat, ChainFits(t, li)
    PROVE  li + LIT_INFO <= t.size
<1>1. PICK k \in 0..t.size : \A j \in 0..k : li + j * LIT_INFO + LIT_INFO <= t.size
      BY DEF ChainFits
<1>2. 0 \in 0..k /\ 0 * LIT_INFO = 0
      BY TableAssumption
<1>3. QED  BY <1>1, <1>2, TableAssumption

\* A literal without the mark hands the walk on to the rest of the chain.
LEMMA RestFits ==
    ASSUME NEW t \in Tables, NEW li \in Nat, ChainFits(t, li), t.mem[li + MARK] # 0
    PROVE  ChainFits(t, li + LIT_INFO)
<1>1. PICK k \in 0..t.size :
          /\ \A j \in 0..k : li + j * LIT_INFO + LIT_INFO <= t.size
          /\ t.mem[li + k * LIT_INFO + MARK] = 0
      BY DEF ChainFits
<1>2. LIT_INFO \in Nat /\ MARK \in Nat /\ t.size \in Nat
      BY TableAssumption
<1>3. k # 0
      BY <1>1, <1>2
<1>4. \A j \in 0..k-1 : li + LIT_INFO + j * LIT_INFO = li + (j + 1) * LIT_INFO
      BY <1>2
<1>5. k - 1 \in 0..t.size
      BY <1>2, <1>3
<1>6. \A j \in 0..k-1 : li + LIT_INFO + j * LIT_INFO + LIT_INFO <= t.size
      BY <1>1, <1>2, <1>4
<1>7. t.mem[li + LIT_INFO + (k - 1) * LIT_INFO + MARK] = 0
      BY <1>1, <1>2, <1>3, <1>4
<1>8. QED  BY <1>5, <1>6, <1>7 DEF ChainFits

\* What IndexFits says of one entry: its field lies inside the table, and it
\* has no chain or one that fits.
LEMMA EntryFits ==
    ASSUME NEW t \in Tables, NEW fdrc \in Nat, t.low <= fdrc,
           fdrc + HEADER <= t.size, IndexFits(t, fdrc),
           ~NoIndex(t.mem[fdrc + N_BITS]),
           NEW c \in 0..2^t.mem[fdrc + N_BITS] - 1
    PROVE  LET p == fdrc + HEADER + INDEX * c
           IN  /\ p \in Nat /\ p + INDEX <= t.size
               /\ t.mem[p] \in Nat
               /\ t.mem[p] = 0 \/ ChainFits(t, fdrc + t.mem[p])
<1> DEFINE n == t.mem[fdrc + N_BITS]
           p == fdrc + HEADER + INDEX * c
<1>1. /\ t.size \in Nat /\ t.low \in Nat /\ INDEX \in Nat \ {0} /\ HEADER \in Nat
      /\ N_BITS \in 0..HEADER-1 /\ HASH_BITS \in Nat
      BY TableAssumption
<1>2. n \in Nat
      <2>1. fdrc + N_BITS \in t.low..t.size-1
            BY <1>1
      <2>2. QED  BY <2>1, TableAssumption
<1>3. n \in 1..HASH_BITS-1
      BY <1>1, <1>2 DEF NoIndex
<1>4. 2^n \in Nat
      BY <1>3, TableAssumption
<1>5. fdrc + HEADER + INDEX * 2^n <= t.size /\ (t.mem[p] = 0 \/ ChainFits(t, fdrc + t.mem[p]))
      BY DEF IndexFits
<1> HIDE DEF n
<1>6. c \in Nat /\ c + 1 <= 2^n
      BY <1>4 DEF n
<1>7. INDEX * c + INDEX <= INDEX * 2^n /\ INDEX * c \in Nat
      <2>1. \A e \in Nat : c + 1 <= e => INDEX * c + INDEX <= INDEX * e
            BY <1>1, <1>6
      <2>2. QED  BY <2>1, <1>1, <1>4, <1>6
<1>8. p \in Nat /\ p + INDEX <= t.size /\ p \in t.low..t.size-1
      BY <1>1, <1>4, <1>5, <1>7
<1>9. t.mem[p] \in Nat
      BY <1>8, TableAssumption
<1>10. QED  BY <1>5, <1>8, <1>9

LEMMA WalkInit == Init => WalkInv
BY DEF Init, WalkInv, ReadsInside

LEMMA WalkStep == WalkInv /\ [Next]_vars => WalkInv'
<1> SUFFICES ASSUME WalkInv, [Next]_vars PROVE WalkInv'
    OBVIOUS
<1> USE DEF WalkInv
<1>0. /\ table.size \in Nat /\ table.low \in Nat /\ table.conf \in Nat /\ table.high \in Nat
      /\ \A p \in table.low..table.size-1 : table.mem[p] \in Nat
      /\ INDEX \in Nat \ {0} /\ HEADER \in Nat /\ N_BITS \in 0..HEADER-1
      /\ LIT_INFO \in Nat \ {0} /\ MARK \in 0..LIT_INFO-1 /\ BUCKETS \in Nat \ {0}
      BY TableAssumption
<1>1. CASE ReadBucket
      <2>1. PICK idx \in 0..BUCKETS-1 :
                LET p == table.conf + INDEX * idx IN
                /\ Read(p, INDEX)
                /\ IF table.mem[p] = 0 THEN UNCHANGED <<at, pos>>
                   ELSE at' = "header" /\ pos' = table.conf + table.mem[p]
            BY <1>1 DEF ReadBucket
      <2> DEFINE p == table.conf + INDEX * idx
      <2>2. UNCHANGED <<table, entry>> /\ at = "idle"
            BY <1>1 DEF ReadBucket
      <2>3. INDEX * idx + INDEX <= INDEX * BUCKETS /\ INDEX * idx \in Nat
            BY <1>0
      <2>4. /\ table.low <= table.conf /\ table.conf + INDEX * BUCKETS <= table.size
            /\ BucketFits(table, idx)
            BY <1>0 DEF Accepted
      <2>5. p \in Nat /\ table.low <= p /\ p + INDEX <= table.size
            BY <1>0, <2>3, <2>4
      <2>6. ReadsInside' /\ read'.to \in Nat
            BY <1>0, <2>1, <2>2, <2>5 DEF Read, ReadsInside
      <2>7. CASE table.mem[p] = 0
            BY <2>1, <2>2, <2>6, <2>7
      <2>8. CASE table.mem[p] # 0
            <3>1. p \in table.low..table.size-1
                  BY <1>0, <2>5
            <3>2. table.mem[p] \in Nat
                  BY <1>0, <3>1
            <3>3. table.conf + table.mem[p] + HEADER <= table.size
                  /\ IndexFits(table, table.conf + table.mem[p])
                  BY <2>4, <2>8 DEF BucketFits
            <3>4. at' = "header" /\ pos' = table.conf + table.mem[p]
                  BY <2>1, <2>8
            <3>5. pos' \in Nat /\ table.low <= pos'
                  BY <1>0, <2>4, <3>2, <3>4
            <3>6. QED  BY <2>2, <2>6, <3>3, <3>4, <3>5
      <2>9. QED  BY <2>7, <2>8
<1>2. CASE ReadHeader
      <2>1. /\ at = "header" /\ UNCHANGED <<table, pos>>
            /\ Read(pos, HEADER)
            BY <1>2 DEF ReadHeader
      <2>2. ReadsInside' /\ read'.to \in Nat
            BY <1>0, <2>1 DEF Read, ReadsInside
      <2>3. \/ at' = "idle"
            \/ /\ ~NoIndex(table.mem[pos + N_BITS]) /\ at' = "index"
               /\ entry' \in 0..2^table.mem[pos + N_BITS] - 1
            BY <1>2 DEF ReadHeader
      <2>4. QED  BY <2>1, <2>2, <2>3
<1>3. CASE ReadIndex
      <2> DEFINE p == pos + HEADER + INDEX * entry
      <2>1. at = "index" /\ UNCHANGED <<table, entry>> /\ Read(p, INDEX)
            BY <1>3 DEF ReadIndex
      <2>2. /\ p \in Nat /\ p + INDEX <= table.size /\ table.mem[p] \in Nat
            /\ table.mem[p] = 0 \/ ChainFits(table, pos + table.mem[p])
            BY <2>1, EntryFits
      <2>3. INDEX * entry \in Nat
            <3>1. pos + N_BITS \in table.low..table.size-1
                  BY <1>0, <2>1
            <3>2. table.mem[pos + N_BITS] \in 1..HASH_BITS-1
                  BY <1>0, <2>1, <3>1, TableAssumption DEF NoIndex
            <3>3. 2^table.mem[pos + N_BITS] \in Nat
                  BY <3>2, TableAssumption
            <3>4. entry \in Nat
                  BY <2>1, <3>3
            <3>5. QED  BY <1>0, <3>4
      <2>4. table.low <= p
            BY <1>0, <2>1, <2>3
      <2>5. ReadsInside' /\ read'.to \in Nat
            BY <1>0, <2>1, <2>2, <2>4 DEF Read, ReadsInside
      <2>6. CASE table.mem[p] = 0
            <3>1. at' = "idle"
                  BY <1>3, <2>6 DEF ReadIndex
            <3>2. QED  BY <2>1, <2>5, <3>1
      <2>7. CASE table.mem[p] # 0
            <3>1. at' = "chain" /\ pos' = pos + table.mem[p]
                  BY <1>3, <2>7 DEF ReadIndex
            <3>2. pos' \in Nat /\ table.low <= pos'
                  BY <1>0, <2>1, <2>2, <3>1
            <3>3. QED  BY <2>1, <2>2, <2>5, <2>7, <3>1, <3>2
      <2>8. QED  BY <2>6, <2>7
<1>4. CASE ReadLit
      <2>1. at = "chain" /\ UNCHANGED <<table, entry>> /\ Read(pos, LIT_INFO)
            BY <1>4 DEF ReadLit
      <2>2. pos + LIT_INFO <= table.size
            BY <2>1, FirstFits
      <2>3. ReadsInside' /\ read'.to \in Nat
            BY <1>0, <2>1, <2>2 DEF Read, ReadsInside
      <2>4. CASE table.mem[pos + MARK] = 0
            <3>1. at' = "idle"
                  BY <1>4, <2>4 DEF ReadLit
            <3>2. QED  BY <2>1, <2>3, <3>1
      <2>5. CASE table.mem[pos + MARK] # 0
            <3>1. at' = "chain" /\ pos' = pos + LIT_INFO
                  BY <1>4, <2>1, <2>5 DEF ReadLit, FollowingLit
            <3>2. ChainFits(table, pos + LIT_INFO)
                  BY <2>1, <2>5, RestFits
            <3>3. pos' \in Nat /\ table.low <= pos'
                  BY <1>0, <2>1, <3>1
            <3>4. QED  BY <2>1, <2>3, <3>1, <3>2, <3>3
      <2>6. QED  BY <2>4, <2>5
<1>5. CASE UNCHANGED vars
      BY <1>5 DEF vars, ReadsInside
<1>6. QED  BY <1>1, <1>2, <1>3, <1>4, <1>5 DEF Next

\* Every read of do_confirm and conf_with_bit on an accepted table, for any
\* candidate, hash and groups, lies inside the table and above its scan
\* tables: the reads without a bounds check are covered by validate_confirm.
THEOREM ReadsStayInside == Spec => []ReadsInside
<1>1. Spec => []WalkInv
      BY WalkInit, WalkStep, PTL DEF Spec
<1>2. WalkInv => ReadsInside
      BY DEF WalkInv
<1>3. QED  BY <1>1, <1>2, PTL

-----------------------------------------------------------------------------
(***************************************************************************)
(* What a stage of Database::load checked is what the next one, and at the *)
(* end the scan, relies on: for every file, whatever its length and        *)
(* fields.                                                                 *)
(***************************************************************************)
\* What is known at each stage: the slice lies in the file and behind the
\* verdicts of the stages before it.
LoadInv ==
    /\ file \in Files
    /\ stage \in {"header", "rose", "matcher", "fdr", "teddy", "scan"}
    /\ slice.from \in Nat /\ slice.to \in Nat /\ slice.from <= slice.to
    /\ stage = "header" => slice.from = 0 /\ slice.to = file.len
    /\ SlicesNest
    /\ tableRead.to \in Nat
    /\ stage # "scan" => tableRead = NoRead
    /\ stage = "fdr" => file.engine = 0
    /\ stage \in {"rose", "matcher"} => Here = file.length
    /\ stage \in {"fdr", "teddy"} => Here = file.length - (file.fmatcher + HWLM_DATA_OFFSET)
    /\ stage = "scan" =>
          /\ file.size <= file.length - (file.fmatcher + HWLM_DATA_OFFSET) /\ file.confirm
          /\ file.engine = 0 => file.conf + 4 * NUM_CONF_BUCKETS <= file.flood /\ file.flood <= file.size
          /\ Here = file.size
          /\ file.engine = 0 => FtEnd <= file.conf
          /\ file.engine # 0 => file.engine \in 11..18 /\ MaskEnd <= file.conf
          /\ file.conf + 4 * NUM_CONF_BUCKETS <= file.size
    /\ LoadedReadsInside
    /\ OnlyFdrPanics
    /\ stage = "scan" => result = "loaded"

LEMMA FileTypes ==
    ASSUME LoadInv
    PROVE  file \in File
BY FileAssumption DEF LoadInv

LEMMA LoadStarts == LoadInit => LoadInv
<1> SUFFICES ASSUME LoadInit PROVE LoadInv
    OBVIOUS
<1>1. file \in File
      BY FileAssumption DEF LoadInit
<1>2. QED  BY <1>1 DEF LoadInit, NoRead, File, LoadInv, SlicesNest, LoadedReadsInside, OnlyFdrPanics

LEMMA LoadStep == LoadInv /\ [LoadNext]_loadVars => LoadInv'
<1> SUFFICES ASSUME LoadInv, [LoadNext]_loadVars PROVE LoadInv'
    OBVIOUS
<1> USE DEF LoadInv, SlicesNest, LoadedReadsInside, OnlyFdrPanics, Here, BYTECODE_OFFSET, NoRead
<1>0. file \in File
      BY FileTypes
<1>1. CASE ParseHeader
      <2>1. HeaderVerdict # "panic" /\ (HeaderVerdict = "ok" => file.len = DB_STRUCT_SIZE + file.length)
            BY DEF HeaderVerdict
      <2>2. QED  BY <1>0, <1>1, <2>1 DEF ParseHeader, Proceed, File, DB_STRUCT_SIZE
<1>2. CASE ParseRose
      <2>1. RoseVerdict # "panic"
            BY <1>0 DEF RoseVerdict, RoseNeeds, OUTFIX_END_QUEUE
      <2>2. QED  BY <1>0, <1>2, <2>1 DEF ParseRose, Proceed, File
<1>3. CASE FindMatcher
      <2>1. MatcherVerdict # "panic"
            BY DEF MatcherVerdict
      <2>2. MatcherVerdict = "ok" => file.fmatcher + HWLM_DATA_OFFSET <= Here
            BY <1>0 DEF MatcherVerdict, File, HWLM_DATA_OFFSET
      <2>3. QED  BY <1>0, <1>3, <2>1, <2>2 DEF FindMatcher, Proceed, File, IsFdr, HWLM_DATA_OFFSET
<1>4. CASE ParseFdr
      <2>1. FdrVerdict = "panic" => file.size < FDR_FIELDS
            BY DEF FdrVerdict
      <2>2. FdrVerdict = "ok" =>
                /\ file.size <= Here /\ FtEnd <= file.conf
                /\ file.conf + 4 * NUM_CONF_BUCKETS <= file.flood /\ file.flood + FLOOD_AREA <= file.size
                /\ file.confirm
            BY <1>0 DEF FdrVerdict, FtFits, File, FtEnd, NUM_CONF_BUCKETS, FLOOD_AREA, FT_OFFSET
      <2>3. file.engine = 0 /\ tableRead = NoRead /\ tableRead.to = 0
            BY <1>4 DEF ParseFdr
      <2>4. UNCHANGED <<file, tableRead>>
            BY <1>4 DEF ParseFdr, Proceed
      <2>5. CASE FdrVerdict = "ok"
            <3>1. /\ stage' = "scan" /\ result' = "loaded"
                  /\ slice' = [from |-> slice.from, to |-> slice.from + file.size]
                  BY <1>0, <1>4, <2>5 DEF ParseFdr, Proceed, File
            <3>2. file.conf + 4 * NUM_CONF_BUCKETS <= file.size
                  BY <1>0, <2>2, <2>5 DEF File, NUM_CONF_BUCKETS, FLOOD_AREA
            <3>3. /\ file.size \in Nat /\ file.conf \in Nat /\ file.len \in Nat /\ file.length \in Nat
                  /\ FtEnd' = FtEnd /\ MaskEnd' = MaskEnd /\ file' = file
                  /\ file.flood \in Nat /\ FLOOD_AREA \in Nat
                  BY <1>0, <2>4 DEF File, FtEnd, MaskEnd, NumMasks, FLOOD_AREA
            <3>4. Here' = file.size /\ slice'.to <= slice.to /\ slice'.from = slice.from
                  /\ slice'.to = slice.from + file.size
                  BY <2>2, <2>5, <3>1, <3>3
            <3>5. SlicesNest'
                  BY <1>4, <2>2, <2>4, <2>5, <3>1, <3>3, <3>4 DEF ParseFdr
            <3>6. LoadedReadsInside' /\ OnlyFdrPanics'
                  BY <2>3, <2>4, <3>1, <3>3, <3>4
            <3>7. /\ file.size <= file.length - (file.fmatcher + HWLM_DATA_OFFSET)
                  /\ file.flood <= file.size /\ file.confirm
                  BY <1>4, <2>2, <2>5, <3>3 DEF ParseFdr
            <3>8. file \in Files
                  OBVIOUS
            <3> HIDE DEF SlicesNest, LoadedReadsInside, OnlyFdrPanics, Here
            <3>9. QED  BY <2>2, <2>3, <2>5, <2>4, <3>1, <3>2, <3>3, <3>4, <3>5, <3>6, <3>7, <3>8
      <2>6. CASE FdrVerdict # "ok"
            <3>1. stage' = stage /\ slice' = slice /\ result' = FdrVerdict
                  BY <1>4, <2>6 DEF ParseFdr, Proceed
            <3>2. QED  BY <1>0, <1>4, <2>1, <2>3, <2>4, <3>1 DEF ParseFdr
      <2>7. QED  BY <2>5, <2>6
<1>5. CASE ParseTeddy
      <2>1. TeddyVerdict # "panic"
            BY DEF TeddyVerdict
      <2>2. TeddyVerdict = "ok" =>
                /\ file.engine \in 11..18 /\ file.size <= Here
                /\ file.conf + 4 * NUM_CONF_BUCKETS <= file.size /\ MaskEnd <= file.conf
                /\ file.confirm
            BY <1>0 DEF TeddyVerdict, File, MaskEnd, NumMasks, MASK_BASE_OFF, NUM_CONF_BUCKETS
      <2>3. QED  BY <1>0, <1>5, <2>1, <2>2 DEF ParseTeddy, Proceed, File, MaskEnd, NumMasks
<1>6. CASE ReadFt
      BY <1>0, <1>6 DEF ReadFt, ReadTable, FtEnd, FT_OFFSET, NUM_CONF_BUCKETS, File
<1>7. CASE ReadMasks
      <2>1. file.engine \in 11..18 /\ file.conf \in Nat /\ file.size \in Nat
            BY <1>0, <1>7 DEF ReadMasks, File
      <2>2. NumMasks \in Nat
            BY <2>1 DEF NumMasks
      <2>3. PICK m \in 0..2 * NumMasks - 1 : ReadTable(MASK_BASE_OFF + m * 16, 16)
            BY <1>7 DEF ReadMasks
      <2>4. /\ tableRead' = [from |-> MASK_BASE_OFF + m * 16, to |-> MASK_BASE_OFF + m * 16 + 16]
            /\ UNCHANGED <<file, stage, slice, result>>
            BY <2>3 DEF ReadTable
      <2>5. MASK_BASE_OFF + m * 16 + 16 <= file.conf
            BY <1>7, <2>1, <2>2 DEF ReadMasks, MaskEnd, MASK_BASE_OFF
      <2>6. file.conf <= file.size /\ stage = "scan"
            BY <1>7, <2>1 DEF ReadMasks, NUM_CONF_BUCKETS
      <2>7. FtEnd' = FtEnd /\ MaskEnd' = MaskEnd /\ Here' = Here
            BY <2>4 DEF FtEnd, MaskEnd, NumMasks
      <2>8. tableRead'.to \in Nat /\ tableRead'.to <= file.conf /\ slice.from + tableRead'.to <= slice.to
            <3>1. m \in Nat /\ MASK_BASE_OFF \in Nat
                  BY <2>2 DEF MASK_BASE_OFF
            <3>2. slice.from + (MASK_BASE_OFF + m * 16 + 16) <= slice.to
                  BY <2>1, <2>5, <2>6, <3>1
            <3>3. QED  BY <2>4, <2>5, <3>1, <3>2
      <2>9. QED  BY <1>7, <2>1, <2>4, <2>7, <2>8 DEF ReadMasks
<1>8. CASE Finished \/ UNCHANGED loadVars
      BY <1>8 DEF Finished, loadVars, FtEnd, MaskEnd, NumMasks
<1>9. QED
      BY <1>1, <1>2, <1>3, <1>4, <1>5, <1>6, <1>7, <1>8 DEF LoadNext

-----------------------------------------------------------------------------
(***************************************************************************)
(* Load and walk together: the stages establish what the walk assumes of   *)
(* its table, and the walk keeps it.                                       *)
(***************************************************************************)
LoadedInv ==
    /\ LoadInv /\ table \in Tables /\ Describes
    /\ stage # "scan" => at = "idle" /\ read = NoRead
    /\ stage = "scan" => WalkInv

\* A file that loads has a table that is fit for a scan.
LEMMA LoadedAccepted ==
    LoadInv /\ table \in Tables /\ Describes /\ stage = "scan" => Accepted(table)
<1> SUFFICES ASSUME LoadInv, table \in Tables, Describes, stage = "scan" PROVE Accepted(table)
    OBVIOUS
<1>1. file \in File
      BY FileTypes
<1>2. /\ file.size <= TableBytes /\ file.confirm
      /\ file.engine = 0 => /\ file.conf + 4 * NUM_CONF_BUCKETS <= file.flood /\ file.flood <= file.size
                            /\ FtEnd <= file.conf
      /\ file.engine # 0 => MaskEnd <= file.conf
      /\ file.conf + 4 * NUM_CONF_BUCKETS <= file.size
      BY DEF LoadInv, TableBytes
<1>3. /\ file.size \in Nat /\ file.conf \in Nat /\ file.flood \in Nat /\ TableBytes \in Int
      BY <1>1 DEF File, TableBytes, HWLM_DATA_OFFSET
<1>4. table.len = TableBytes
      BY <1>2, <1>3 DEF Describes
<1>5. table.size = file.size /\ table.conf = file.conf /\ table.low = ScanEnd /\ table.high = OffsetEnd
      BY DEF Describes, LoadInv
<1>6. INDEX * BUCKETS = 4 * NUM_CONF_BUCKETS
      BY LayoutAssumption
<1>7. \A idx \in 0..BUCKETS-1 : BucketFits(table, idx)
      BY <1>2, <1>6 DEF Describes
<1>8. CASE file.engine = 0
      BY <1>2, <1>3, <1>4, <1>5, <1>6, <1>7, <1>8 DEF Accepted, ScanEnd, OffsetEnd
<1>9. CASE file.engine # 0
      BY <1>2, <1>3, <1>4, <1>5, <1>6, <1>7, <1>9 DEF Accepted, ScanEnd, OffsetEnd
<1>10. QED  BY <1>8, <1>9

LEMMA LoadedStarts == LoadedInit => LoadedInv
<1> SUFFICES ASSUME LoadedInit PROVE LoadedInv
    OBVIOUS
<1>1. LoadInv /\ stage = "header"
      BY LoadStarts DEF LoadedInit, LoadInit
<1>2. QED  BY <1>1 DEF LoadedInit, LoadedInv

LEMMA LoadedStep == LoadedInv /\ [Load \/ Walk]_loadedVars => LoadedInv'
<1> SUFFICES ASSUME LoadedInv, [Load \/ Walk]_loadedVars PROVE LoadedInv'
    OBVIOUS
<1>1. CASE Load
      <2>1. LoadInv' /\ at' = "idle" /\ read' = NoRead /\ UNCHANGED <<table, at, pos, entry>>
            BY <1>1, LoadStep DEF LoadedInv, Load
      <2>2. file' = file
            BY <1>1 DEF Load, LoadNext, ParseHeader, ParseRose, FindMatcher, ParseFdr, ParseTeddy,
                        Proceed, ReadFt, ReadMasks, ReadTable, Finished, loadVars
      <2>3. table' \in Tables /\ Describes'
            BY <2>1, <2>2 DEF LoadedInv, Describes, TableBytes, ScanEnd, OffsetEnd, FtEnd, MaskEnd,
                              NumMasks
      <2>4. ASSUME stage' = "scan" PROVE WalkInv'
            <3>1. Accepted(table)'
                  <4>1. (LoadInv /\ table \in Tables /\ Describes /\ stage = "scan" => Accepted(table))'
                        BY LoadedAccepted, PTL
                  <4>2. QED  BY <2>1, <2>3, <2>4, <4>1
            <3>2. QED  BY <2>1, <2>3, <3>1 DEF WalkInv, ReadsInside, NoRead
      <2>5. QED  BY <2>1, <2>3, <2>4 DEF LoadedInv
<1>2. CASE Walk
      <2>1. WalkInv' /\ table' = table
            BY <1>2, WalkStep DEF LoadedInv, Walk, Next, ReadBucket, ReadHeader, ReadIndex, ReadLit
      <2>2. UNCHANGED <<file, stage, slice, result>> /\ tableRead' = NoRead /\ stage = "scan"
            BY <1>2 DEF Walk
      <2>3. LoadInv'
            <3>1. LoadedReadsInside'
                  <4>1. file \in File /\ slice.from \in Nat /\ slice.from <= slice.to /\ slice.to \in Nat
                        BY FileTypes DEF LoadedInv, LoadInv
                  <4>2. QED  BY <2>2, <4>1 DEF LoadedReadsInside, NoRead, File
            <3>2. QED  BY <2>2, <3>1 DEF LoadedInv, LoadInv, SlicesNest, OnlyFdrPanics, Here, FtEnd,
                                         MaskEnd, NumMasks, NoRead
      <2>4. Describes'
            BY <2>1, <2>2 DEF LoadedInv, Describes, TableBytes, ScanEnd, OffsetEnd, FtEnd, MaskEnd,
                              NumMasks
      <2>5. QED  BY <2>1, <2>2, <2>3, <2>4 DEF LoadedInv, WalkInv
<1>3. CASE UNCHANGED loadedVars
      <2>1. UNCHANGED vars /\ UNCHANGED loadVars
            BY <1>3 DEF loadedVars
      <2>2. LoadInv'
            BY <2>1, LoadStep DEF LoadedInv
      <2>3. stage = "scan" => WalkInv'
            BY <2>1, WalkStep DEF LoadedInv
      <2>4. UNCHANGED <<table, at, pos, entry, read, file, stage, slice, result, tableRead>>
            BY <2>1 DEF vars, loadVars
      <2>5. Describes'
            BY <2>4 DEF LoadedInv, Describes, TableBytes, ScanEnd, OffsetEnd, FtEnd, MaskEnd, NumMasks
      <2>6. QED  BY <2>2, <2>3, <2>4, <2>5 DEF LoadedInv
<1>4. QED  BY <1>1, <1>2, <1>3

LEMMA LoadedAlways == LoadedSpec => []LoadedInv
BY LoadedStarts, LoadedStep, PTL DEF LoadedSpec

\* Whatever the file, the table of a database that loads is one that the
\* unchecked reads of a confirm may walk: what the parse of FDR (fdr.rs:138) and
\* of Teddy (teddy.rs:96) checks is all that they assume.
THEOREM LoadIsEnough == LoadedSpec => []LoadAccepts
<1>1. LoadedInv => LoadAccepts
      BY DEF LoadedInv, LoadAccepts, WalkInv
<1>2. QED  BY <1>1, LoadedAlways, PTL

\* Every stage of a load sees a part of the bytecode, inside the file, as long
\* as the load lasts and while its tables are scanned.
THEOREM StagesNest == (LoadSpec => []SlicesNest) /\ (LoadedSpec => []SlicesNest)
<1>1. LoadInv => SlicesNest
      BY DEF LoadInv
<1>2. LoadSpec => []SlicesNest
      BY <1>1, LoadStarts, LoadStep, PTL DEF LoadSpec
<1>3. LoadedInv => SlicesNest
      BY <1>1 DEF LoadedInv
<1>4. QED  BY <1>2, <1>3, LoadedAlways, PTL

\* No stage but the parse of an FDR header panics, and that only for a size
\* that is smaller than the header.
THEOREM PanicOnlyInFdr == (LoadSpec => []OnlyFdrPanics) /\ (LoadedSpec => []OnlyFdrPanics)
<1>1. LoadInv => OnlyFdrPanics
      BY DEF LoadInv
<1>2. LoadSpec => []OnlyFdrPanics
      BY <1>1, LoadStarts, LoadStep, PTL DEF LoadSpec
<1>3. LoadedInv => OnlyFdrPanics
      BY <1>1 DEF LoadedInv
<1>4. QED  BY <1>2, <1>3, LoadedAlways, PTL

\* From the load to the last read of a chain: what is read without a check are
\* bytes of the bytecode, the scan tables by the scan of the blocks and
\* what lies behind them by a confirm.
THEOREM ReadsBehindLoad == LoadedSpec => []UncheckedReadsInside
<1>1. ASSUME LoadedInv PROVE WalkInBytecode
      <2>1. CASE stage # "scan"
            BY <1>1, <2>1 DEF LoadedInv, WalkInBytecode, NoRead
      <2>2. CASE stage = "scan"
            <3>1. WalkInv /\ LoadInv /\ Describes
                  BY <1>1, <2>2 DEF LoadedInv
            <3>2. /\ read.to > 0 => ScanEnd <= read.from /\ read.to <= file.size
                  /\ result = "loaded"
                  <4>1. table.low = ScanEnd /\ table.size = file.size
                        BY <2>2, <3>1 DEF Describes, LoadInv
                  <4>2. read.to > 0 => table.low <= read.from /\ read.to <= table.size
                        BY <3>1 DEF WalkInv, ReadsInside
                  <4>3. result = "loaded"
                        BY <2>2, <3>1 DEF LoadInv
                  <4>4. QED  BY <4>1, <4>2, <4>3
            <3>3. /\ slice.from \in Nat /\ slice.to \in Nat /\ slice.to = slice.from + file.size
                  /\ slice.to <= BYTECODE_OFFSET + file.length /\ slice.to <= file.len
                  /\ file.size \in Nat /\ file.len \in Nat /\ BYTECODE_OFFSET + file.length \in Nat
                  <4>1. file \in File
                        BY <3>1, FileTypes
                  <4>2. QED  BY <2>2, <3>1, <4>1 DEF LoadInv, SlicesNest, Here, File, BYTECODE_OFFSET
            <3>4. read.to \in Nat
                  BY <3>1 DEF WalkInv
            <3>5. QED  BY <3>2, <3>3, <3>4 DEF WalkInBytecode
      <2>3. QED  BY <2>1, <2>2
<1>2. LoadedInv => UncheckedReadsInside
      BY <1>1 DEF UncheckedReadsInside, LoadedInv, LoadInv
<1>3. QED  BY <1>2, LoadedAlways, PTL
=============================================================================
