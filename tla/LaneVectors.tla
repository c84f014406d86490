----------------------------- MODULE LaneVectors -----------------------------
(***************************************************************************)
(* The vectors of the acceleration kernels (russcan-simd): LANES bytes in  *)
(* registers whose shifts work on words of WORD lanes.  A byte is a number *)
(* of two nibbles, a byte of a table or of a carried vector the set of its *)
(* one bits.  A comparison leaves STRIDE mask bits for each lane: one in   *)
(* the scalar and SSE back ends, four in the NEON one.                     *)
(***************************************************************************)
EXTENDS Integers, FiniteSetsExt

CONSTANTS
    LANES,       \* bytes of a vector (16)
    WORD,        \* bytes of a word of shr64_by4 (8)
    NIB,         \* values of a nibble (16), half of them for each top bit
    BITS         \* the bits of a table byte (0..7)

ASSUME VectorAssumption ==
    /\ LANES \in Nat \ {0, 1} /\ WORD \in Nat \ {0} /\ NIB \in Nat \ {0} /\ NIB % 2 = 0
    /\ BITS \subseteq Nat

Lanes == 0..LANES-1
Bytes == 0..NIB * NIB - 1
TOP == (NIB * NIB) \div 2        \* the highest bit of a byte (0x80)
TableOf(S) == [0..NIB-1 -> S]

-----------------------------------------------------------------------------
Low4(v) == [i \in Lanes |-> v[i] % NIB]

\* A shift by a nibble pulls the low nibble of the next byte of the word in.
ShrByNibble(v) ==
    [i \in Lanes |-> v[i] \div NIB
                     + IF (i + 1) % WORD = 0 \/ i = LANES - 1 THEN 0 ELSE (v[i + 1] % NIB) * NIB]

XorTop(v) == [i \in Lanes |-> IF v[i] >= TOP THEN v[i] - TOP ELSE v[i] + TOP]
AndNotTop(v) == [i \in Lanes |-> v[i] % TOP]

ShuffleSigned(table, idx) ==                   \* mutant: the top bit indexes as well
    [i \in Lanes |-> table[idx[i] % NIB]]
\* pshufb: the top bit of an index clears its lane, the bits below it are not looked at.
Pshufb(table, idx) ==
    [i \in Lanes |-> IF idx[i] >= TOP THEN {} ELSE table[idx[i] % NIB]]

VecAnd(v, w) == [i \in Lanes |-> v[i] \cap w[i]]
VecOr(v, w)  == [i \in Lanes |-> v[i] \cup w[i]]
Ones == [i \in Lanes |-> BITS]

AlignrRotated(v, low) ==                       \* mutant: the carried vector is not seen
    [i \in Lanes |-> IF i = 0 THEN v[LANES - 1] ELSE v[i - 1]]
\* alignr_15: every lane sees the byte before it, lane 0 the last one of low.
Alignr15(v, low) == [i \in Lanes |-> IF i = 0 THEN low[LANES - 1] ELSE v[i - 1]]
ShlBytes(v, n) == [i \in Lanes |-> IF i < n THEN {} ELSE v[i - n]]

-----------------------------------------------------------------------------
\* LaneMask<STRIDE>: the set of its one bits.
MaskOf(lanes, stride) == {b \in 0..stride * LANES - 1 : b \div stride \in lanes}
InvertWithin(mask, stride) == (0..stride * LANES - 1) \ mask
First(mask, stride) == Min(mask) \div stride
LastBit(mask, stride) == Max(mask)             \* mutant: a bit for a lane
Last(mask, stride) == Max(mask) \div stride

EqMask(v, w, stride) == MaskOf({i \in Lanes : v[i] = w[i]}, stride)
NeqMask(v, w, stride) == InvertWithin(EqMask(v, w, stride), stride)
NonzeroMask(v, stride) == InvertWithin(MaskOf({i \in Lanes : v[i] = {}}, stride), stride)
=============================================================================
