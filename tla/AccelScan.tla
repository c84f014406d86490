------------------------------ MODULE AccelScan ------------------------------
(***************************************************************************)
(* The acceleration kernels (russcan-simd, accel): the first or the last   *)
(* byte of a class, and the first pair of a set of pairs, searched a       *)
(* vector at a time.  A search reads its unaligned end first, then the     *)
(* aligned vectors, then once more a vector that overlaps what it has      *)
(* read; buffers shorter than a vector go to the scalar reference, and a   *)
(* search for pairs pads them with zeros.                                  *)
(***************************************************************************)
EXTENDS LaneVectors, Sequences

CONSTANTS
    Kernels,     \* the kernels with their tables
    Buffers,     \* the buffers to search
    Strides,     \* STRIDE of the back ends
    CASE_BIT     \* the bit of a byte that is the case of a letter (0x20)

\* A kernel: its op, its direction, and its tables or its byte; the tables of
\* a search for pairs are inverted.
TableFields == {"lo", "hi", "clear", "set", "lo1", "hi1", "lo2", "hi2"}
KernelsOf(op, fields) == {k \in Kernels : k.op = op /\ fields \subseteq DOMAIN k}
ASSUME AccelAssumption ==
    /\ Kernels = KernelsOf("shufti", {"lo", "hi"}) \cup KernelsOf("truffle", {"clear", "set"})
                 \cup KernelsOf("verm", {"c", "nocase"}) \cup KernelsOf("nverm", {"c", "nocase"})
                 \cup KernelsOf("double", {"lo1", "hi1", "lo2", "hi2"})
    /\ \A k \in Kernels :
          /\ k.dir \in {"fwd", "rev"} /\ (k.op = "double" => k.dir = "fwd")
          /\ \A f \in DOMAIN k \cap TableFields : k[f] \in TableOf(SUBSET BITS)
    /\ Buffers \subseteq Seq(Bytes)
    /\ Strides \subseteq Nat \ {0} /\ CASE_BIT \in Nat \ {0}

VARIABLES
    kernel, stride, buf,
    align,       \* start.align_offset(16): the bytes before the first boundary
    at,          \* where the search is
    d,           \* the next vector, or the end of the bytes left (backwards)
    state,       \* the first-byte vector that a search for pairs carries on
    load,        \* the offset of the last vector read, or NoLoad
    result       \* the position answered, or NoMatch

inputs == <<kernel, stride, buf, align>>
vars == <<inputs, at, d, state, load, result>>

NoLoad  == -1
NoMatch == -1
BufLen  == Len(buf)
Pairs   == kernel.op = "double"
Forward == kernel.dir = "fwd"

Init ==
    /\ kernel \in Kernels /\ stride \in Strides /\ buf \in Buffers
    /\ align \in Lanes
    /\ at = "start" /\ d = 0 /\ state = Ones
    /\ load = NoLoad /\ result = NoMatch

-----------------------------------------------------------------------------
(***************************************************************************)
(* The predicates of a vector.                                             *)
(***************************************************************************)
BlockShufti(chars) ==
    NonzeroMask(VecAnd(Pshufb(kernel.lo, Low4(chars)), Pshufb(kernel.hi, Low4(ShrByNibble(chars)))), stride)

\* The high nibble, without its top bit, is a bit of the entry of the low one.
BlockTruffle(chars) ==
    LET shuf1 == Pshufb(kernel.clear, chars)
        shuf2 == Pshufb(kernel.set, XorTop(chars))
        shuf3 == Pshufb([n \in 0..NIB-1 |-> {n % (NIB \div 2)}], AndNotTop(ShrByNibble(chars)))
    IN  NonzeroMask(VecAnd(VecOr(shuf1, shuf2), shuf3), stride)

ClearCase(b) == IF kernel.nocase /\ (b \div CASE_BIT) % 2 = 1 THEN b - CASE_BIT ELSE b
CaseCleared(chars) == [i \in Lanes |-> ClearCase(chars[i])]
Splat == [i \in Lanes |-> ClearCase(kernel.c)]

Block(chars) ==
    CASE kernel.op = "shufti"  -> BlockShufti(chars)
      [] kernel.op = "truffle" -> BlockTruffle(chars)
      [] kernel.op = "verm"    -> EqMask(CaseCleared(chars), Splat, stride)
      [] kernel.op = "nverm"   -> NeqMask(CaseCleared(chars), Splat, stride)

\* c1 and c2: the buckets that a byte cannot begin, or end, a pair of.
Nibbles(lo, hi, chars) ==
    VecOr(Pshufb(lo, Low4(chars)), Pshufb(hi, Low4(ShrByNibble(chars))))
FirstOf(chars) == Nibbles(kernel.lo1, kernel.hi1, chars)

BlockShuftiDouble(carried, chars) ==
    LET c2 == Nibbles(kernel.lo2, kernel.hi2, chars)
    IN  NeqMask(VecOr(Alignr15(FirstOf(chars), carried), c2), Ones, stride)

-----------------------------------------------------------------------------
(***************************************************************************)
(* The reference: what a byte or a pair is, and the search one by one.     *)
(***************************************************************************)
InClass(b) ==
    CASE kernel.op = "shufti"  -> kernel.lo[b % NIB] \cap kernel.hi[b \div NIB] # {}
      [] kernel.op = "truffle" -> (b \div NIB) % (NIB \div 2)
                                    \in (IF b < TOP THEN kernel.clear ELSE kernel.set)[b % NIB]
      [] kernel.op = "verm"    -> ClearCase(b) = ClearCase(kernel.c)
      [] kernel.op = "nverm"   -> ClearCase(b) # ClearCase(kernel.c)

Matches == {p \in 0..BufLen-1 : InClass(buf[p + 1])}
Position  == IF Matches = {} THEN NoMatch ELSE Min(Matches)
RPosition == IF Matches = {} THEN NoMatch ELSE Max(Matches)

\* The buckets of which a byte begins, or ends, a pair.
Begins(b) == BITS \ (kernel.lo1[b % NIB] \cup kernel.hi1[b \div NIB])
Ends(b)   == BITS \ (kernel.lo2[b % NIB] \cup kernel.hi2[b \div NIB])

\* shufti_double_naive: the first pair, or else the last byte, if it begins one.
DoubleNaive ==
    LET pairs == {p \in 0..BufLen-2 : Begins(buf[p + 1]) \cap Ends(buf[p + 2]) # {}}
    IN  IF pairs # {} THEN Min(pairs)
        ELSE IF BufLen > 0 /\ Begins(buf[BufLen]) # {} THEN BufLen - 1
        ELSE NoMatch

-----------------------------------------------------------------------------
(***************************************************************************)
(* The search.                                                             *)
(***************************************************************************)
\* loadu at p; what lies outside the buffer is read as zeros, and LoadsInside
\* says that none of it is.
Chars(p) == [i \in Lanes |-> IF p + i \in 0..BufLen-1 THEN buf[p + i + 1] ELSE 0]

Answer(p) == at' = "done" /\ result' = p
GoOn(where) == at' = where /\ result' = result

\* The empty buffer is answered by the dispatcher, a short one one by one.
Short ==
    /\ at = "start"
    /\ BufLen = 0 \/ (BufLen < LANES /\ ~Pairs)
    /\ Answer(IF BufLen = 0 THEN NoMatch ELSE IF Forward THEN Position ELSE RPosition)
    /\ UNCHANGED <<inputs, d, state, load>>

Start ==
    /\ at = "start"
    /\ BufLen > 0 /\ (BufLen >= LANES \/ Pairs)
    /\ GoOn(IF BufLen < LANES THEN "tail" ELSE "head")
    /\ d' = IF Forward THEN 0 ELSE BufLen
    /\ UNCHANGED <<inputs, state, load>>

\* (start.add(len) as usize) & 15
EndAlign == (BufLen + LANES - align) % LANES

\* The unaligned vector at the end where the search begins.
HeadVector ==
    /\ at = "head" /\ ~Pairs
    /\ IF (IF Forward THEN align ELSE EndAlign) = 0
       THEN GoOn("blocks") /\ UNCHANGED <<d, load>>
       ELSE LET p == IF Forward THEN 0 ELSE BufLen - LANES
                m == Block(Chars(p))
            IN  /\ load' = p
                /\ IF m # {}
                   THEN Answer(p + IF Forward THEN First(m, stride) ELSE Last(m, stride)) /\ d' = d
                   ELSE GoOn("blocks") /\ d' = IF Forward THEN align ELSE BufLen - EndAlign
    /\ UNCHANGED <<inputs, state>>

BlockFwd ==
    /\ at = "blocks" /\ ~Pairs /\ Forward
    /\ IF d + LANES <= BufLen
       THEN LET m == Block(Chars(d))
            IN  /\ load' = d
                /\ IF m # {} THEN Answer(d + First(m, stride)) /\ d' = d
                   ELSE GoOn("blocks") /\ d' = d + LANES
       ELSE GoOn("tail") /\ UNCHANGED <<d, load>>
    /\ UNCHANGED <<inputs, state>>

BlockRev ==
    /\ at = "blocks" /\ ~Forward
    /\ IF d >= LANES
       THEN LET p == d - LANES
                m == Block(Chars(p))
            IN  /\ load' = p /\ d' = p
                /\ IF m # {} THEN Answer(p + Last(m, stride)) ELSE GoOn("blocks")
       ELSE GoOn("tail") /\ UNCHANGED <<d, load>>
    /\ UNCHANGED <<inputs, state>>

TailFromD == d                                 \* mutant: the tail is not read back
TailFrom == IF Forward THEN BufLen - LANES ELSE 0
NoTail == d = IF Forward THEN BufLen ELSE 0

\* What is left is shorter than a vector: the vector that ends (begins) with
\* it also shows bytes that are known not to match.
TailVector ==
    /\ at = "tail" /\ ~Pairs
    /\ IF NoTail
       THEN Answer(NoMatch) /\ UNCHANGED load
       ELSE LET m == Block(Chars(TailFrom))
            IN  /\ load' = TailFrom
                /\ Answer(IF m = {} THEN NoMatch
                          ELSE TailFrom + IF Forward THEN First(m, stride) ELSE Last(m, stride))
    /\ UNCHANGED <<inputs, d, state>>

-----------------------------------------------------------------------------
(***************************************************************************)
(* shufti_double_exec.                                                     *)
(***************************************************************************)
ShiftHeadNot(carried) == carried               \* mutant: the state is not shifted
\* The last lane becomes the byte before the first boundary.
ShiftHead(carried) == ShlBytes(carried, LANES - align)

HeadDouble ==
    /\ at = "head" /\ Pairs
    /\ IF align = 0
       THEN GoOn("blocks") /\ UNCHANGED <<d, state, load>>
       ELSE LET m == BlockShuftiDouble(state, Chars(0))
            IN  /\ load' = 0
                /\ IF m # {}
                   THEN Answer(First(m, stride) - 1) /\ d' = d /\ state' = FirstOf(Chars(0))
                   ELSE /\ GoOn("blocks") /\ d' = align
                        /\ state' = ShiftHead(FirstOf(Chars(0)))
    /\ UNCHANGED inputs

BlockDouble ==
    /\ at = "blocks" /\ Pairs
    /\ IF d + LANES <= BufLen
       THEN LET m == BlockShuftiDouble(state, Chars(d))
            IN  /\ load' = d
                /\ state' = FirstOf(Chars(d))
                /\ IF m # {} /\ d + First(m, stride) - 1 < BufLen - 1
                   THEN Answer(d + First(m, stride) - 1) /\ d' = d
                   ELSE GoOn("blocks") /\ d' = d + LANES
       ELSE GoOn("tail") /\ UNCHANGED <<d, state, load>>
    /\ UNCHANGED inputs

Padded == Chars(0)

TailStateKept == state                         \* mutant: the carried state stays
\* The last vector shows the byte before the pairs that are left.
TailState == Ones

TailDouble ==
    /\ at = "tail" /\ Pairs
    /\ IF d = BufLen
       THEN GoOn("last") /\ UNCHANGED <<state, load>>
       ELSE LET base  == IF BufLen < LANES THEN 0 ELSE BufLen - LANES
                chars == IF BufLen < LANES THEN Padded ELSE Chars(base)
                m     == BlockShuftiDouble(TailState, chars)
            IN  /\ load' = IF BufLen < LANES THEN load ELSE base
                /\ state' = FirstOf(chars)
                /\ IF m # {} /\ First(m, stride) >= 1 /\ base + First(m, stride) - 1 < BufLen - 1
                   THEN Answer(base + First(m, stride) - 1)
                   ELSE GoOn("last")
    /\ UNCHANGED <<inputs, d>>

\* check_last_byte: the search is taken up at the last byte if it may begin a
\* pair that ends in the next piece.  reduce: the buckets that no byte ends.
LastByte ==
    /\ at = "last"
    /\ LET lastElem == state[(IF BufLen < LANES THEN BufLen ELSE LANES) - 1]
           reduce == UNION {kernel.lo2[n] \cup kernel.hi2[n] : n \in 0..NIB-1}
       IN  Answer(IF reduce \cup lastElem # BITS \/ lastElem # BITS THEN BufLen - 1 ELSE NoMatch)
    /\ UNCHANGED <<inputs, d, state, load>>

Finished == at = "done" /\ UNCHANGED vars

Next ==
    \/ Short \/ Start \/ HeadVector \/ BlockFwd \/ BlockRev \/ TailVector
    \/ HeadDouble \/ BlockDouble \/ TailDouble \/ LastByte
    \/ Finished

Spec == Init /\ [][Next]_vars

-----------------------------------------------------------------------------
(***************************************************************************)
(* Properties.                                                             *)
(***************************************************************************)
\* The position answered is the one the scalar reference of the kernel finds:
\* re-reading the tail, padding, the carried vector and the shifts of whole
\* words change nothing (accel/mod.rs:3-10, masks.rs:57-76).
SameAsReference ==
    at = "done" => result = IF Pairs THEN DoubleNaive ELSE IF Forward THEN Position ELSE RPosition

\* loadu: its caller vouches for LANES readable bytes.
LoadsInside == load = NoLoad \/ load \in 0..BufLen - LANES

\* Bytes that a search has left behind hold no match, and no pair ends in
\* them: what the tail and a resume rely on when they read some of them again.
LeftBehind ==
    at \in {"blocks", "tail", "last"} =>
        IF Pairs
        THEN \A p \in 0..d-2 : Begins(buf[p + 1]) \cap Ends(buf[p + 2]) = {}
        ELSE \A p \in IF Forward THEN 0..d-1 ELSE d..BufLen-1 : ~InClass(buf[p + 1])
=============================================================================
