---------------------------- MODULE ConfirmTable ----------------------------
(***************************************************************************)
(* The confirm region of an engine table (russcan-hwlm, fdr.rs, teddy.rs): *)
(* what parse checks of it once, and the reads that do_confirm and         *)
(* conf_with_bit then do in it without a check.                            *)
(*                                                                         *)
(* The region is a memory: mem[p] stands for whatever field is read at the *)
(* position p.  For every bucket it has the distance of a header; behind   *)
(* the header an index of 2^n distances of chains; a chain is an array of  *)
(* literals of which the last one is marked.                               *)
(***************************************************************************)
EXTENDS Integers

CONSTANTS
    Tables,      \* the serialized tables: see Table
    BUCKETS,     \* NUM_CONF_BUCKETS (8)
    INDEX,       \* the bytes of a distance (4)
    HEADER,      \* the bytes of a FDRConfirm (32) ...
    N_BITS,      \* ... and where its n_bits are (16)
    LIT_INFO,    \* LIT_INFO_SIZE (32) ...
    MARK,        \* ... and where its mark is (30)
    HASH_BITS    \* the width of the hash (64)

\* len: the bytes behind the beginning of the table; size: what its header
\* says; low: the end of the scan tables; high: the end that the offsets leave
\* to the confirm offsets (flood_offset of FDR, size of Teddy).
IsTable(t) ==
    /\ {t.len, t.size, t.low, t.high, t.conf} \subseteq Nat
    /\ \A p \in t.low..t.size-1 : t.mem[p] \in Nat

ASSUME TableAssumption ==
    /\ \A t \in Tables : IsTable(t)
    /\ {BUCKETS, INDEX, LIT_INFO, HASH_BITS} \subseteq Nat \ {0}
    /\ HEADER \in Nat /\ N_BITS \in 0..HEADER-1 /\ MARK \in 0..LIT_INFO-1
    /\ \A n \in 1..HASH_BITS-1 : 2^n \in Nat

-----------------------------------------------------------------------------
(***************************************************************************)
(* parse and validate_confirm.                                             *)
(***************************************************************************)
ChainFitsItsMark(t, li) ==                     \* mutant: only the mark is inside
    \E k \in 0..t.size :
        /\ \A j \in 0..k : li + j * LIT_INFO + MARK < t.size
        /\ t.mem[li + k * LIT_INFO + MARK] = 0
\* The walk from li meets its mark before the end of the table.
ChainFits(t, li) ==
    \E k \in 0..t.size :
        /\ \A j \in 0..k : li + j * LIT_INFO + LIT_INFO <= t.size
        /\ t.mem[li + k * LIT_INFO + MARK] = 0

\* n_bits that the hot path takes for no index at all.
NoIndex(n) == n = 0 \/ n >= HASH_BITS

IndexFits(t, fdrc) ==
    LET n == t.mem[fdrc + N_BITS] IN
    \/ NoIndex(n)
    \/ /\ fdrc + HEADER + INDEX * 2^n <= t.size
       /\ \A c \in 0..2^n-1 :
             LET s == t.mem[fdrc + HEADER + INDEX * c]
             IN  s = 0 \/ ChainFits(t, fdrc + s)

BucketFits(t, idx) ==
    LET cf == t.mem[t.conf + INDEX * idx]
    IN  cf = 0 \/ (t.conf + cf + HEADER <= t.size /\ IndexFits(t, t.conf + cf))

Accepted(t) ==
    /\ t.size <= t.len
    /\ t.low <= t.conf
    /\ t.conf + INDEX * BUCKETS <= t.high /\ t.high <= t.size
    /\ \A idx \in 0..BUCKETS-1 : BucketFits(t, idx)

-----------------------------------------------------------------------------
(***************************************************************************)
(* The reads of a confirm, for any candidate, any hash and any groups.     *)
(***************************************************************************)
VARIABLES
    table,    \* an accepted table, chosen by Init
    at,       \* "idle", "header", "index", "chain"
    pos,      \* fdrc of the bucket, or the literal that the walk is at
    entry,    \* the entry of the index that the hash chose
    read      \* history: the bytes of the last read, from ... to - 1

vars == <<table, at, pos, entry, read>>

Read(from, width) == read' = [from |-> from, to |-> from + width]

Init ==
    /\ table \in Tables /\ Accepted(table)
    /\ at = "idle" /\ pos = 0 /\ entry = 0
    /\ read = [from |-> 0, to |-> 0]

\* A candidate bit of some bucket.
ReadBucket ==
    /\ at = "idle"
    /\ \E idx \in 0..BUCKETS-1 :
          LET p == table.conf + INDEX * idx IN
          /\ Read(p, INDEX)
          /\ IF table.mem[p] = 0 THEN UNCHANGED <<at, pos>>
             ELSE at' = "header" /\ pos' = table.conf + table.mem[p]
    /\ UNCHANGED <<table, entry>>

\* The groups may be off; then the hash chooses an entry of the index.
ReadHeader ==
    /\ at = "header"
    /\ Read(pos, HEADER)
    /\ LET n == table.mem[pos + N_BITS] IN
       \/ at' = "idle" /\ UNCHANGED entry
       \/ /\ ~NoIndex(n)
          /\ at' = "index" /\ entry' \in 0..2^n-1
    /\ UNCHANGED <<table, pos>>

ReadIndex ==
    /\ at = "index"
    /\ LET p == pos + HEADER + INDEX * entry IN
       /\ Read(p, INDEX)
       /\ IF table.mem[p] = 0 THEN at' = "idle" /\ UNCHANGED pos
          ELSE at' = "chain" /\ pos' = pos + table.mem[p]
    /\ UNCHANGED <<table, entry>>

StayingPut == pos                              \* mutant: the walk does not move
FollowingLit == pos + LIT_INFO

ReadLit ==
    /\ at = "chain"
    /\ Read(pos, LIT_INFO)
    /\ IF table.mem[pos + MARK] = 0 THEN at' = "idle" /\ UNCHANGED pos
       ELSE pos' = FollowingLit /\ UNCHANGED at
    /\ UNCHANGED <<table, entry>>

Next == ReadBucket \/ ReadHeader \/ ReadIndex \/ ReadLit

Spec == Init /\ [][Next]_vars

\* A confirm runs on until it returns.
FairSpec == Spec /\ WF_vars(ReadHeader \/ ReadIndex \/ ReadLit)

-----------------------------------------------------------------------------
\* The reads of a confirm, which nothing checks (fdr.rs:176-182), lie inside
\* the table, and those of a bucket's offset above the scan tables.
ReadsInside == read.to > 0 => table.low <= read.from /\ read.to <= table.size

\* The walk of a confirm ends: every chain that can be reached has its mark.
WalkEnds == []<>(at = "idle")
=============================================================================
