---------------------------- MODULE WindowChecks ----------------------------
(***************************************************************************)
(* The checks of literal programs that look at the bytes around the end of *)
(* a match (russcan-rose, literal.rs:664-1079), which LitProgram abstracts *)
(* to the ends at which they pass.  A check reads a window of the buffer   *)
(* that may begin before it (there is no history in block mode) or reach   *)
(* beyond its end.                                                         *)
(***************************************************************************)
EXTENDS Integers, Sequences

CONSTANTS
    Buffers,     \* the buffers: non-empty sequences of bytes
    Checks,      \* the checks, records with a field kind
    BITS,        \* the bits of a byte (8)
    WORD         \* the bytes of the word that CHECK_MASK compares (8)

ASSUME WidthAssumption == BITS \in Nat \ {0} /\ WORD \in Nat \ {0}

-----------------------------------------------------------------------------
(***************************************************************************)
(* Words: numbers of N bits, and the operators &, |, ^ and ! of the code,  *)
(* bit by bit.  A byte is a word whose other bytes are zero.               *)
(***************************************************************************)
N == BITS * WORD

\* 2^n, of which the proofs need the recursion.
Pow[n \in 0..N] == IF n = 0 THEN 1 ELSE 2 * Pow[n - 1]

Bytes == 0..Pow[BITS] - 1
Words == 0..Pow[N] - 1

\* The number with these k digits of so many bits, the lowest one first.
Number(width, digits, k) ==
    LET sum[i \in 0..k] ==
          IF i = 0 THEN 0 ELSE sum[i - 1] + digits[i - 1] * Pow[width * (i - 1)]
    IN  sum[k]

Digit(x, width, i) == (x \div Pow[width * i]) % Pow[width]
ByteOf(x, i) == Digit(x, BITS, i)

Bits(x)   == {q \in 0..N-1 : Digit(x, 1, q) = 1}
OfBits(S) == Number(1, [q \in 0..N-1 |-> IF q \in S THEN 1 ELSE 0], N)

And(x, y) == OfBits(Bits(x) \cap Bits(y))
Or(x, y)  == OfBits(Bits(x) \cup Bits(y))
Xor(x, y) == OfBits((Bits(x) \ Bits(y)) \cup (Bits(y) \ Bits(x)))
Flip(x)   == OfBits((0..N-1) \ Bits(x))
ShiftLeft(x, n)  == OfBits({q \in 0..N-1 : q - n \in Bits(x)})
ShiftRight(x, n) == OfBits({q \in 0..N-1 : q + n \in Bits(x)})

ALL == Flip(0)

-----------------------------------------------------------------------------
\* class[i]: the bytes that match at place i of a window, by the tables of the
\* SHUFTI checks or the masks of CHECK_MASK_32; reach: the bytes whose bit is
\* set, in what the bytecode has of the vector; room: the entries for which it
\* has room.  The compiler negates whole bytes and sorts looks.
IsCheck(c) ==
    \/ c.kind = "byte" /\ {c.and, c.cmp} \subseteq Bytes /\ c.neg \in BOOLEAN /\ c.off \in Int
    \/ /\ c.kind = "mask" /\ {c.and, c.cmp, c.neg} \subseteq Words /\ c.off \in Int
       /\ \A i \in 0..WORD-1 : ByteOf(c.neg, i) \in {0, Pow[BITS] - 1}
    \/ c.kind = "class" /\ c.class \in Seq(SUBSET Bytes) /\ c.neg \subseteq Nat /\ c.off \in Int
    \/ c.kind = "single" /\ c.reach \subseteq Bytes /\ c.off \in Int
    \/ /\ c.kind = "look" /\ c.looks \in Seq(Int) /\ c.room \in Nat
       /\ c.reach \in Seq(SUBSET Bytes) /\ Len(c.reach) >= Len(c.looks)
       /\ \A j, k \in DOMAIN c.looks : j < k => c.looks[j] <= c.looks[k]
    \/ c.kind = "lit" /\ c.lit \in Seq(Bytes) /\ c.nocase \in BOOLEAN /\ c.room \in Nat

ASSUME WindowAssumption ==
    /\ \A s \in Buffers : s \in Seq(Bytes) /\ s # <<>>
    /\ \A c \in Checks : IsCheck(c)

VARIABLES
    buf,        \* the buffer, chosen by Init
    end,        \* the end of the match, chosen by Init
    check,      \* the check, chosen by Init
    verdict     \* "none", "pass", "fail" or "ProgramOverrun"

vars == <<buf, end, check, verdict>>

Init ==
    /\ buf \in Buffers /\ end \in 1..Len(buf)
    /\ check \in Checks
    /\ verdict = "none"

Verdict(passes) == verdict' = IF passes THEN "pass" ELSE "fail"

TooEarly(off) == off < 0 /\ -off > end

\* The byte at an offset, which is inside of the buffer.
At(o) == buf[o + 1]

-----------------------------------------------------------------------------
CheckByte ==
    /\ check.kind = "byte" /\ verdict = "none"
    /\ LET o == end + check.off IN
       Verdict(/\ ~TooEarly(check.off)
               /\ \/ o < 0 \/ o >= Len(buf)
                  \/ (And(At(o), check.and) = check.cmp) = ~check.neg)
    /\ UNCHANGED <<buf, end, check>>

WindowAtPadded(o, width) ==                     \* mutant: the zeros behind count
    [data |-> [i \in 0..width-1 |-> IF o >= 0 /\ o + i < Len(buf) THEN At(o + i) ELSE 0],
     valid |-> IF o >= 0 /\ o < Len(buf) THEN 0..width-1 ELSE {}]
\* get_data128, get_data256: the window, zeros behind the buffer, and its
\* places inside the buffer; no window begins before the buffer.
WindowAt(o, width) ==
    LET inside == {i \in 0..width-1 : o >= 0 /\ o + i < Len(buf)}
    IN  [data |-> [i \in 0..width-1 |-> IF i \in inside THEN At(o + i) ELSE 0],
         valid |-> inside]

\* check_shufti_* and check_mask32: the places that do not match must be the
\* negated ones.
CheckClass ==
    /\ check.kind = "class" /\ verdict = "none"
    /\ LET width == Len(check.class)
           w == WindowAt(end + check.off, width)
           nres == {i \in 0..width-1 : w.data[i] \notin check.class[i + 1]}
       IN  Verdict(/\ ~TooEarly(check.off)
                   /\ \A i \in w.valid : i \in nres <=> i \in check.neg)
    /\ UNCHANGED <<buf, end, check>>

-----------------------------------------------------------------------------
(***************************************************************************)
(* check_mask: all bytes of a little-endian word at once.                  *)
(***************************************************************************)
LoadWord(o, k) == Number(BITS, [i \in 0..k-1 |-> At(o + i)], k)

Plus(x, y) == (x + y) % Pow[N]

\* All bits of every byte but the highest.
COUNT == Number(BITS, [i \in 0..WORD-1 |-> Pow[BITS - 1] - 1], WORD)

\* The highest bit of every byte of x that is zero.
ZeroBytesByCarry(x) == Flip(Or(Or(Plus(x, COUNT), x), COUNT))   \* mutant: carries leak
ZeroBytes(x) == Flip(Or(Or(Plus(And(x, COUNT), COUNT), x), COUNT))

ValidateMask(data, valid, and, cmp, neg) ==
    LET differs == Xor(And(data, And(and, valid)), And(cmp, valid))
    IN  /\ And(differs, Flip(And(neg, valid))) = 0
        /\ And(ZeroBytes(differs), And(neg, valid)) = 0

ValidBytes(o) ==
    IF o + WORD > Len(buf)
    THEN LET shift == (WORD - (Len(buf) - o)) * BITS IN ShiftRight(ShiftLeft(ALL, shift), shift)
    ELSE ALL

CheckMask ==
    /\ check.kind = "mask" /\ verdict = "none"
    /\ LET o == end + check.off
           room == Len(buf) - o
       IN  Verdict(/\ ~TooEarly(check.off)
                   /\ \/ o >= Len(buf)
                      \/ ValidateMask(LoadWord(o, IF room < WORD THEN room ELSE WORD),
                                      ValidBytes(o), check.and, check.cmp, check.neg))
    /\ UNCHANGED <<buf, end, check>>

-----------------------------------------------------------------------------
\* A vector that is cut short has no bits behind the cut.
CheckSingleLookaround ==
    /\ check.kind = "single" /\ verdict = "none"
    /\ LET o == end + check.off IN
       Verdict(~TooEarly(check.off) /\ (o < 0 \/ o >= Len(buf) \/ At(o) \in check.reach))
    /\ UNCHANGED <<buf, end, check>>

ReachedShort(k) ==                             \* mutant: the last byte is not looked at
    \A j \in 1..k : end + check.looks[j] < Len(buf) - 1
\* The list is ascending: the first entry beyond the buffer ends the walk.
Reached(k) == \A j \in 1..k : end + check.looks[j] < Len(buf)

CheckLookaround ==
    /\ check.kind = "look" /\ verdict = "none"
    /\ IF check.looks = <<>> THEN verdict' = "pass"
       ELSE IF check.room < Len(check.looks) THEN verdict' = "ProgramOverrun"
       ELSE Verdict(/\ ~TooEarly(check.looks[1])
                    /\ \A k \in DOMAIN check.looks :
                          LET o == end + check.looks[k] IN
                          (Reached(k) /\ o >= 0) => At(o) \in check.reach[k])
    /\ UNCHANGED <<buf, end, check>>

\* eq_ignore_ascii_case: 3 stands for the other case of the letter 1.
Fold(b) == IF b = 3 THEN 1 ELSE b

CheckMedLit ==
    /\ check.kind = "lit" /\ verdict = "none"
    /\ LET n == Len(check.lit) IN
       Verdict(/\ n <= end /\ n <= check.room /\ end <= Len(buf)
               /\ \A k \in 1..n :
                     IF check.nocase THEN Fold(buf[end - n + k]) = Fold(check.lit[k])
                                     ELSE buf[end - n + k] = check.lit[k])
    /\ UNCHANGED <<buf, end, check>>

Done == verdict # "none" /\ UNCHANGED vars

Next ==
    \/ CheckByte \/ CheckClass \/ CheckMask
    \/ CheckSingleLookaround \/ CheckLookaround \/ CheckMedLit \/ Done

Spec == Init /\ [][Next]_vars

-----------------------------------------------------------------------------
(***************************************************************************)
(* Properties: every check is what its bytes say one by one.               *)
(***************************************************************************)
\* A window that begins before the buffer fails, whether or not it reaches into
\* the buffer; places behind the buffer pass; at all others Matches decides.
WindowPasses(off, width, Matches(_, _)) ==
    /\ end + off >= 0
    /\ \A i \in 0..width-1 :
          end + off + i < Len(buf) => Matches(i, buf[end + off + i + 1])

Says(passes) == verdict \in {"pass", "fail"} => (verdict = "pass") = passes

\* The word arithmetic of CHECK_MASK decides place by place, for tails of the
\* buffer and negated bytes, too: no byte's carry reaches its neighbour.
MaskBytewise ==
    check.kind = "mask" =>
        Says(WindowPasses(check.off, WORD,
               LAMBDA i, b : (And(b, ByteOf(check.and, i)) = ByteOf(check.cmp, i))
                             = (ByteOf(check.neg, i) = 0)))

\* CHECK_BYTE and the 16- and 32-byte checks treat the borders of the buffer
\* as CHECK_MASK does: they all fail in front of it (literal.rs:666, 738, 993,
\* 1037) and look at no byte behind it.  The comments on the same case at
\* literal.rs:676 and 984 say that it passes: see OutsidePasses.
BordersAgree ==
    /\ check.kind = "byte" =>
          Says(WindowPasses(check.off, 1,
                 LAMBDA i, b : (And(b, check.and) = check.cmp) = ~check.neg))
    /\ check.kind = "class" =>
          Says(WindowPasses(check.off, Len(check.class),
                 LAMBDA i, b : (b \in check.class[i + 1]) = (i \notin check.neg)))

\* A lookaround is the conjunction of its entries, though its walk looks for
\* a missing history at the first one only (literal.rs:810) and stops at the
\* first one behind the buffer (819).  An entry in front of the buffer fails
\* the list, against the comment at 817 that such an entry is skipped.
LookaroundAllEntries ==
    /\ check.kind = "single" =>
          Says(WindowPasses(check.off, 1, LAMBDA i, b : b \in check.reach))
    /\ check.kind = "look" =>
          Says(\A k \in DOMAIN check.looks :
                  WindowPasses(check.looks[k], 1, LAMBDA i, b : b \in check.reach[k]))

\* What the comments say of a check of single bytes none of which lies inside
\* of the buffer, in front of it or behind it: it passes (literal.rs:776, and
\* 676 and 817 at branches that only the early return at 666 and 810 leaves).
Outside(o) == o < 0 \/ o >= Len(buf)

OutsidePasses ==
    /\ check.kind \in {"byte", "single"} /\ Outside(end + check.off) => verdict # "fail"
    /\ check.kind = "look" /\ (\A k \in DOMAIN check.looks : Outside(end + check.looks[k])) =>
          verdict # "fail"
=============================================================================
