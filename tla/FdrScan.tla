------------------------------- MODULE FdrScan ------------------------------
(***************************************************************************)
(* The FDR engine (russcan-hwlm, fdr.rs): exec_squash cuts the buffer into *)
(* zones, run_simd walks them block by block, collects candidate blocks    *)
(* and confirms them when the queue is full, before a flood and at the end *)
(* of a zone; flood_detect jumps over runs of one byte.                    *)
(*                                                                         *)
(* The hash of ft is abstracted to the pair of a byte and the next one.    *)
(***************************************************************************)
EXTENDS Confirm

CONSTANTS
    Aligns,      \* buf.as_ptr() modulo WORD
    LOOKAHEAD,   \* the bytes that the main zone leaves behind it (3)
    WORD,        \* the width of a flood probe (8)
    FLOOD_MIN,   \* FLOOD_MINIMUM_SIZE (256)
    FLOOD_TAIL,  \* no probes in the last bytes of the main loop (128)
    BACKOFF,     \* FLOOD_BACKOFF_START (32)
    MAX_IDS      \* FDR_FLOOD_MAX_IDS (16)

\* floods[c], for every byte c of the buffers: the literals <<bucket, n>> to
\* report at every byte of a run of c, and how far before a flood its run
\* must begin.
ASSUME FdrAssumption ==
    /\ \A t \in Tables : \A c \in DOMAIN t.floods : t.floods[c].suffix \in Nat
    /\ \A t \in Tables, s \in Buffers : \A x \in DOMAIN s : s[x] \in DOMAIN t.floods
    /\ Aligns \subseteq 0..WORD-1 /\ WORD \in Nat \ {0}
    /\ {LOOKAHEAD, FLOOD_MIN, FLOOD_TAIL, BACKOFF, MAX_IDS} \subseteq Nat
    /\ CONF_BYTES <= ITER_BYTES /\ LOOKAHEAD <= ITER_BYTES

VARIABLES
    start,       \* the start offset, chosen by Init
    align,       \* the alignment of the buffer, chosen by Init
    zones,       \* the zones, cut once
    zone,        \* number of the current zone
    it,          \* the next block, in the coordinates of the zone
    state,       \* the buckets excluded at the bytes of the next block
    tryFlood,    \* try_flood
    backoff,     \* flood_backoff
    flood,       \* the run being reported: its byte, first end, length,
                 \* end and id to report next, and the next probe
    ret          \* where the engine goes when the queue is confirmed

fdrVars == <<start, align, zones, zone, it, state, tryFlood, backoff, flood, ret>>
vars == <<table, buf, at, confirmVars, fdrVars>>

Larger(m, n) == IF m > n THEN m ELSE n

-----------------------------------------------------------------------------
(***************************************************************************)
(* prepare_zones.  from, to: the bytes of the zone in its own coordinates; *)
(* skip: the leading bytes of its first block that are masked out; adjust: *)
(* what leads from zone coordinates to the buffer; low: the first byte of  *)
(* a copy, zeros below; pad: the byte behind a copy; floodFrom: where flood *)
(* probes begin, which in a copy is past its end.                          *)
(***************************************************************************)
Copy(low, len, blocks, skip, end, pad) ==
    [copied |-> TRUE, low |-> low, from |-> low + len - blocks * ITER_BYTES, to |-> low + len,
     skip |-> skip, adjust |-> end - (low + len), pad |-> pad, floodFrom |-> 4 * ITER_BYTES]

\* Up to ITER_BYTES bytes in all, behind ITER_BYTES bytes of history.
ShortZone(begin, end) ==
    Copy(ITER_BYTES, Smaller(end, ITER_BYTES + CONF_BYTES), 1, ITER_BYTES - (end - begin), end, 0)

StartZoneZeroPad(begin) ==                     \* mutant: padded like the others
    LET end == begin + ITER_BYTES
    IN  Copy(CONF_BYTES, Smaller(end, ITER_BYTES + CONF_BYTES), 1, 0, end, 0)
\* Its pad is the byte that follows in the buffer.
StartZone(begin) ==
    LET end == begin + ITER_BYTES
    IN  Copy(CONF_BYTES, Smaller(end, ITER_BYTES + CONF_BYTES), 1, 0, end, buf[end + 1])

EndZoneNoSkip(begin, end) ==                   \* mutant: scans bytes twice
    Copy(0, Smaller(end, ITER_BYTES + CONF_BYTES), 1, 0, end, 0)
EndZoneNoHistory(begin, end) ==                \* mutant: copies only the tail
    [Copy(0, Smaller(end, ITER_BYTES + CONF_BYTES), 1, ITER_BYTES - Smaller(ITER_BYTES, end - begin), end, 0)
        EXCEPT !.low = @ + Smaller(end, ITER_BYTES + CONF_BYTES) - (end - begin)]
\* The tail behind the main zone; a second block when more than one is left.
EndZone(begin, end) ==
    LET second == IF end - begin > ITER_BYTES THEN ITER_BYTES ELSE 0
    IN  Copy(0, Smaller(end - second, ITER_BYTES + CONF_BYTES) + second,
             IF second = 0 THEN 1 ELSE 2, ITER_BYTES - (end - begin - second), end, 0)

MainZone(begin, end, floodFrom) ==
    [copied |-> FALSE, low |-> 0, from |-> begin, to |-> end,
     skip |-> 0, adjust |-> 0, pad |-> 0, floodFrom |-> floodFrom]

MainEndToEnd == start + ((Len0 - start) \div ITER_BYTES) * ITER_BYTES   \* mutant: no room to read ahead
MainEnd == start + ((Len0 - start - LOOKAHEAD) \div ITER_BYTES) * ITER_BYTES

Zones(floodFrom) ==
    IF Len0 - start <= ITER_BYTES THEN << ShortZone(start, Len0) >>
    ELSE LET begin == start + ITER_BYTES IN
         IF MainEnd > begin
         THEN << StartZone(start), MainZone(begin, MainEnd, floodFrom), EndZone(MainEnd, Len0) >>
         ELSE << StartZone(start), EndZone(begin, Len0) >>

\* The byte at an offset of a zone.
ZoneByte(z, x) ==
    IF ~z.copied THEN buf[x + 1]
    ELSE IF x \in z.low..z.to - 1 THEN buf[x + z.adjust + 1]
    ELSE IF x = z.to THEN z.pad ELSE 0

-----------------------------------------------------------------------------
(***************************************************************************)
(* get_conf_stride.  The bytes at every stride-th place exclude buckets at *)
(* their own place and at the HALF - 1 behind it; what lies behind the     *)
(* block is carried over.                                                  *)
(***************************************************************************)
HALF == ITER_BYTES \div 2

(***************************************************************************)
(* What flood_detect relies on: the suffix of a byte covers the bytes that *)
(* the state is made of (in the databases of tests/fixtures it is 9, HALF  *)
(* + 1), a flood reports the literals that consist of its byte only, each  *)
(* once, and every other literal differs from the byte within the suffix   *)
(* and the window.                                                         *)
(***************************************************************************)
FloodFits(t, c) ==
    LET fl == t.floods[c]
        lits == {fl.ids[k] : k \in DOMAIN fl.ids}
    IN  /\ \A x \in lits : \A k \in DOMAIN t.chains[x[1]][x[2]].lit : t.chains[x[1]][x[2]].lit[k] = c
        /\ \A x \in lits : Len(t.chains[x[1]][x[2]].lit) <= fl.suffix
        /\ \A j, k \in DOMAIN fl.ids : fl.ids[j] = fl.ids[k] => j = k
        /\ \A b \in DOMAIN t.chains : \A n \in DOMAIN t.chains[b] :
              LET l == t.chains[b][n].lit IN
              \/ <<b, n>> \in lits
              \/ \E k \in 0..Smaller(fl.suffix, Smaller(Len(l), CONF_BYTES) - 1) : l[Len(l) - k] # c

ASSUME FloodAssumption ==
    /\ HALF <= CONF_BYTES
    /\ \A t \in Tables : \A c \in DOMAIN t.floods :
          /\ t.floods[c].suffix >= HALF
          /\ t.floods[c].ids \in Seq(Nat \X (Nat \ {0}))
          /\ \A k \in DOMAIN t.floods[c].ids :
                LET x == t.floods[c].ids[k] IN x[1] \in DOMAIN t.chains /\ x[2] \in DOMAIN t.chains[x[1]]
          /\ Len(t.floods[c].ids) < MAX_IDS => FloodFits(t, c)

\* ft: the buckets without a literal that has the two bytes j bytes before
\* its end.
Excluded(byte, next, j) ==
    {b \in DOMAIN table.chains :
        \A n \in DOMAIN table.chains[b] :
            LET l == table.chains[b][n]
            IN  ~(MayHave(l, byte, j) /\ (j = 0 \/ MayHave(l, next, j - 1)))}

\* start_state: a literal does not end before its last byte.
StartState ==
    [x \in 0..ITER_BYTES-1 |->
        {b \in DOMAIN table.chains :
            \A n \in DOMAIN table.chains[b] : x + 1 < Smaller(Len(table.chains[b][n].lit), HALF)}]

\* A new zone: the state moves to its first unmasked byte.
ShiftInPlace(s, skip) ==                       \* mutant: the state stays
    [x \in 0..ITER_BYTES-1 |-> IF x < skip THEN DOMAIN table.chains ELSE s[x]]
ShiftIn(s, skip) ==
    [x \in 0..ITER_BYTES-1 |-> IF x < skip THEN DOMAIN table.chains ELSE s[x - skip]]

(***************************************************************************)
(* Flood probes read words at addresses that are multiples of WORD; a word *)
(* that reaches over the end reads as zero.                                *)
(***************************************************************************)
RoundUp(i) == i + ((WORD - ((align + i) % WORD)) % WORD)
RoundDown(i) == i - ((align + i) % WORD)

WordAt(i) == IF i + WORD <= Len0 THEN SubSeq(buf, i + 1, i + WORD) ELSE [k \in 1..WORD |-> 0]

\* next_flood_detect: three probes decide whether floods are looked for.
FirstFlood ==
    IF /\ Len0 >= FLOOD_MIN
       /\ \E i \in {0, Len0 \div 2, Len0 - 3 * WORD} :
             WordAt(RoundUp(i)) = WordAt(RoundUp(i + WORD))
    THEN BACKOFF ELSE Len0

MainLoopLenShort == Smaller(Len0, Len0 - ITER_BYTES)   \* mutant: one block behind
MainLoopLen == IF Len0 > 2 * ITER_BYTES THEN Len0 - 2 * ITER_BYTES ELSE 0

\* The end of the run of c that starts at j, inside the main loop.
RunEnd(j, c) ==
    IF j >= MainLoopLen THEN j
    ELSE CHOOSE e \in j..MainLoopLen :
            /\ \A x \in j..e-1 : buf[x + 1] = c
            /\ e = MainLoopLen \/ buf[e + 1] # c

NoFlood == [byte |-> 0, first |-> 0, size |-> 0, t |-> 0, k |-> 1, next |-> 0]

Flood == table.floods[flood.byte]
FloodLit == table.chains[Flood.ids[flood.k][1]][Flood.ids[flood.k][2]]

-----------------------------------------------------------------------------
Init ==
    /\ ConfirmInit
    /\ start \in Starts /\ start < Len0
    /\ align \in Aligns
    /\ at = "scan"
    /\ zones = Zones(FirstFlood)
    /\ zone = 1
    /\ it = zones[1].from
    /\ state = ShiftIn(StartState, zones[1].skip)
    /\ tryFlood = zones[1].floodFrom
    /\ backoff = BACKOFF
    /\ flood = NoFlood
    /\ ret = "scan"

Z == zones[zone]

ExcludedAt(x) ==
    (IF x < ITER_BYTES THEN state[x] ELSE {}) \cup
    UNION {Excluded(ZoneByte(Z, it + k), ZoneByte(Z, it + k + 1), x - k) :
              k \in {k \in 0..ITER_BYTES-1 : k % table.stride = 0 /\ x - k \in 0..HALF-1}}

BlockBits ==
    UNION {{x} \X (DOMAIN table.chains \ ExcludedAt(x)) : x \in 0..ITER_BYTES-1}

NextState ==
    [x \in 0..ITER_BYTES-1 |-> IF x < HALF THEN ExcludedAt(x + ITER_BYTES) ELSE {}]

BlockFits == it + ITER_BYTES <= Z.to

ConfirmFirst(then) ==
    /\ at' = "flush" /\ ret' = then
    /\ UNCHANGED <<table, buf, confirmVars, start, align, zones, zone, it, state, tryFlood, backoff, flood>>

ProbeInPlace ==                                \* mutant: floods before candidates
    /\ at = "scan" /\ BlockFits /\ it > tryFlood
    /\ at' = "flood"
    /\ UNCHANGED <<table, buf, confirmVars, fdrVars>>
\* Candidates lie before the run that a flood probe may find.
Probe ==
    /\ at = "scan" /\ BlockFits /\ it > tryFlood
    /\ ConfirmFirst("flood")

OverfullAt == CAP + 1                          \* mutant: the flush one block late
FullAt == CAP

ScanBlock ==
    /\ \/ at = "scan" /\ BlockFits /\ it <= tryFlood
       \/ at = "block"
    /\ Stage(it, BlockBits)
    /\ it' = it + ITER_BYTES
    /\ state' = NextState
    /\ at' = IF Len(cands') >= FullAt THEN "flush" ELSE "scan"
    /\ ret' = "scan"
    /\ UNCHANGED <<table, buf, word, chain, control, lastMatch, hits,
                   start, align, zones, zone, tryFlood, backoff, flood>>

EndOfZone ==
    /\ at = "scan" /\ ~BlockFits
    /\ ConfirmFirst("zone")

NextZone ==
    /\ at = "zone"
    /\ IF zone < Len(zones)
       THEN /\ at' = "scan" /\ zone' = zone + 1
            /\ it' = zones[zone + 1].from
            /\ state' = ShiftIn(state, zones[zone + 1].skip)
            /\ tryFlood' = zones[zone + 1].floodFrom
       ELSE at' = "completed" /\ UNCHANGED <<zone, it, state, tryFlood>>
    /\ UNCHANGED <<table, buf, confirmVars, start, align, zones, backoff, flood, ret>>

-----------------------------------------------------------------------------
(***************************************************************************)
(* flush_candidates, do_confirm, conf_with_bit.                            *)
(***************************************************************************)
FlushNext ==
    /\ at = "flush"
    /\ IF ~control THEN at' = "terminated" /\ UNCHANGED <<word, cands>>
       ELSE IF cands = <<>> THEN at' = ret /\ UNCHANGED <<word, cands>>
       ELSE at' = "bits" /\ TakeCandidate
    /\ UNCHANGED <<table, buf, chain, control, lastMatch, hits, fdrVars>>

BitsDone ==
    /\ at = "bits" /\ word.bits = {}
    /\ at' = "flush"
    /\ UNCHANGED <<table, buf, confirmVars, fdrVars>>

\* A bucket without a chain, or without a group that is on, is passed over.
BucketOn(bucket) ==
    control /\ \E n \in DOMAIN table.chains[bucket] : table.chains[bucket][n].grouped

NextBit ==
    /\ at = "bits"
    /\ \E b \in word.bits :
          /\ IsLowestBit(b)
          /\ word' = [word EXCEPT !.bits = @ \ {b}]
          /\ IF BucketOn(b[2])
             THEN LET x == word.base + b[1] IN
                  /\ at' = "chain"
                  /\ StartChain(b, x + Z.adjust,
                                [k \in 0..CONF_BYTES-1 |-> ZoneByte(Z, x - k)])
             ELSE UNCHANGED <<at, chain>>
    /\ UNCHANGED <<table, buf, cands, control, lastMatch, hits, fdrVars>>

PassLiteral ==
    /\ at = "chain" /\ chain.n <= Len(Chain) /\ ~Confirmed(Literal)
    /\ chain' = [chain EXCEPT !.n = @ + 1]
    /\ UNCHANGED <<table, buf, at, cands, word, control, lastMatch, hits, fdrVars>>

ReportLiteral ==
    /\ at = "chain" /\ chain.n <= Len(Chain) /\ Confirmed(Literal)
    /\ CallBack(Literal)
    /\ at' = "callback"
    /\ UNCHANGED <<table, buf, cands, word, chain, control, fdrVars>>

\* After Terminate the walk goes on with no group on.
AnswerLiteral ==
    /\ at = "callback"
    /\ \E reply \in Replies, squash \in Squashes :
          /\ Answered(reply, squash)
          /\ control' = (reply = "Continue")
          /\ chain' = [chain EXCEPT !.n = @ + 1, !.squash = @ \cup squash]
    /\ at' = "chain"
    /\ UNCHANGED <<table, buf, cands, word, lastMatch, fdrVars>>

ChainDone ==
    /\ at = "chain" /\ chain.n > Len(Chain)
    /\ word' = [word EXCEPT !.bits = SquashedBits]
    /\ at' = "bits"
    /\ UNCHANGED <<table, buf, cands, chain, control, lastMatch, hits, fdrVars>>

-----------------------------------------------------------------------------
(***************************************************************************)
(* flood_detect.                                                           *)
(***************************************************************************)
NextProbeSteady(j, wait) ==                    \* mutant: the next probe in the next block
    IF MainLoopLen >= FLOOD_TAIL /\ j + BACKOFF < MainLoopLen - FLOOD_TAIL
    THEN Larger(it, j) + BACKOFF
    ELSE MainLoopLen
\* The next probe, from the end j of the run.
NextProbe(j, wait) ==
    IF MainLoopLen >= FLOOD_TAIL /\ j + wait < MainLoopLen - FLOOD_TAIL
    THEN Larger(it, j) + wait
    ELSE MainLoopLen

NoRun ==
    LET c == buf[it + 1] IN
    \/ WordAt(RoundUp(it)) # [k \in 1..WORD |-> c]
    \/ Len(table.floods[c].ids) >= MAX_IDS
    \/ it < table.floods[c].suffix + WORD - 1

RunStartAt == it                               \* mutant: looks only ahead
\* The run must begin early enough for every literal that ends in it.
RunStart == RoundDown(it - table.floods[buf[it + 1]].suffix)

FloodDetect ==
    /\ at = "flood"
    /\ IF NoRun
       THEN /\ backoff' = 2 * backoff
            /\ tryFlood' = NextProbe(it, 2 * backoff)
            /\ at' = "block" /\ UNCHANGED flood
       ELSE LET c == buf[it + 1]
                j == RunEnd(RunStart, c)
            IN  IF j > it
                THEN /\ flood' = [byte |-> c, first |-> it, t |-> 0, k |-> 1,
                                  size |-> ((j - 1 - it) \div ITER_BYTES) * ITER_BYTES,
                                  next |-> NextProbe(j - 1, backoff)]
                     /\ at' = "run" /\ UNCHANGED <<backoff, tryFlood>>
                ELSE /\ backoff' = 2 * backoff
                     /\ tryFlood' = NextProbe(j, 2 * backoff)
                     /\ at' = "block" /\ UNCHANGED flood
    /\ UNCHANGED <<table, buf, confirmVars, start, align, zones, zone, it, state, ret>>

FloodOver == Flood.ids = <<>> \/ flood.t = flood.size \/ ~control

\* One literal after the other at one end, then the next end.
StepFlood ==
    flood' = IF flood.k < Len(Flood.ids) THEN [flood EXCEPT !.k = @ + 1]
             ELSE [flood EXCEPT !.k = 1, !.t = @ + 1]

\* Flood reports do not touch last_match.
ReportFlood ==
    /\ at = "run" /\ ~FloodOver
    /\ IF FloodLit.grouped
       THEN /\ hits' = Append(hits, Hit(FloodLit.id, Flood.ids[flood.k][1], Flood.ids[flood.k][2],
                                        flood.first + flood.t, TRUE))
            /\ at' = "floodcallback" /\ UNCHANGED flood
       ELSE StepFlood /\ UNCHANGED <<at, hits>>
    /\ UNCHANGED <<table, buf, cands, word, chain, control, lastMatch,
                   start, align, zones, zone, it, state, tryFlood, backoff, ret>>

AnswerFlood ==
    /\ at = "floodcallback"
    /\ \E reply \in Replies : Answered(reply, {}) /\ control' = (reply = "Continue")
    /\ StepFlood
    /\ at' = "run"
    /\ UNCHANGED <<table, buf, cands, word, chain, lastMatch,
                   start, align, zones, zone, it, state, tryFlood, backoff, ret>>

\* The scan goes on behind the run, without a second look at its zone.
FloodDone ==
    /\ at = "run" /\ FloodOver
    /\ it' = it + flood.size
    /\ tryFlood' = flood.next
    /\ at' = IF control THEN "block" ELSE "terminated"
    /\ UNCHANGED <<table, buf, confirmVars, start, align, zones, zone, state, backoff, flood, ret>>

Finished == at \in {"completed", "terminated"} /\ UNCHANGED vars

Next ==
    \/ Probe \/ ScanBlock \/ EndOfZone \/ NextZone
    \/ FlushNext \/ BitsDone \/ NextBit
    \/ PassLiteral \/ ReportLiteral \/ AnswerLiteral \/ ChainDone
    \/ FloodDetect \/ ReportFlood \/ AnswerFlood \/ FloodDone
    \/ Finished

Spec == Init /\ [][Next]_vars

-----------------------------------------------------------------------------
(***************************************************************************)
(* Properties.                                                             *)
(***************************************************************************)
ControlPoints == {"scan", "block", "flush", "bits", "chain", "callback", "flood",
                  "run", "floodcallback", "zone", "completed", "terminated"}

\* The queue of candidate blocks, an array of CAP entries, never overflows.
QueueFits == Len(cands) <= CAP

\* A block lies inside its zone, also the one behind a flood, which is not
\* checked again (the zone invariant of fdr.rs:449), and what is read behind
\* the block (fdr.rs:499) lies inside the buffer.
BlockInZone ==
    at = "block" \/ (at = "scan" /\ BlockFits) =>
        /\ BlockFits
        /\ ~Z.copied => it + ITER_BYTES + LOOKAHEAD <= Len0

\* The window of a confirm shows the bytes before the candidate as they are
\* in the buffer, and zeros before the buffer, whichever zone it is read in.
WindowShowsBuffer ==
    at = "chain" =>
        /\ chain.end \in start..Len0 - 1
        /\ \A k \in 0..CONF_BYTES-1 :
              chain.window[k] = IF k <= chain.end THEN buf[chain.end - k + 1] ELSE 0

\* flood_backoff is a u32 that doubles at every failed probe and never falls
\* (fdr.rs:806): the distance it puts before the next probe keeps it within
\* four times the length of the buffer.
BackoffBounded == backoff <= 4 * Larger(BACKOFF, Len0)

Found == OnlyOccurrences /\ FoundAll(start, at = "completed")

\* The engine is a stream of hits in order, for callbacks that squash nothing
\* in a flood.
Stream == INSTANCE HitStream WITH
    phase    <- IF at \in {"callback", "floodcallback"} THEN "callback"
                ELSE IF at \in {"completed", "terminated"} THEN "closed"
                ELSE IF control THEN "searching" ELSE "stopped",
    end <- StreamEnd, lit <- StreamLit, bucket <- StreamBucket,
    used <- StreamUsed, squashed <- StreamSquashed

StreamSpec == Stream!StreamSpec
=============================================================================
