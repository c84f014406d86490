----------------------------- MODULE NoodleScan -----------------------------
(***************************************************************************)
(* The engine for a single literal (russcan-hwlm, noodle.rs): a scan for   *)
(* one or two key bytes, a confirm of the bytes before the end, a report.  *)
(*                                                                         *)
(* A byte is a number whose lowest bit is the one that 0xdf masks out: the *)
(* case of a letter, and nothing but a bit of any other byte.              *)
(***************************************************************************)
EXTENDS Integers, Sequences

CONSTANTS
    Tables,      \* the tables
    Buffers,     \* the buffers: sequences of bytes
    Starts,      \* the offsets at which exec may start
    Replies,     \* the answers of the callback
    Letters      \* the bytes that are letters

\* lit: the bytes that msk and cmp let match at each of the msk_len places;
\* key_offset: the distance of the first key to the end.
TableInfo == [lit: Seq(SUBSET Nat), key_offset: Nat, nocase: BOOLEAN,
              single: BOOLEAN, key0: Nat, key1: Nat]

ASSUME NoodleAssumption ==
    /\ Tables \subseteq TableInfo
    /\ \A s \in Buffers : s \in Seq(Nat)
    /\ Starts \subseteq Nat /\ Letters \subseteq Nat
    /\ Replies \subseteq {"Continue", "Terminate"}

\* The bytes that a byte of a literal matches.
AnyCase(byte, nocase) ==
    IF nocase /\ byte \in Letters THEN {byte - (byte % 2), byte - (byte % 2) + 1} ELSE {byte}

\* The keys are bytes of the literal, and decide alone only where it has no
\* other byte; that is the compiler's part.
ASSUME KeyAssumption ==
    \A t \in Tables :
        LET k == Len(t.lit) - t.key_offset + 1
        IN  /\ t.key_offset <= Len(t.lit)
            /\ t.lit[k] \subseteq AnyCase(t.key0, t.nocase)
            /\ Len(t.lit) = 1 => t.lit[k] = AnyCase(t.key0, t.nocase)
            /\ ~t.single => t.lit[k + 1] \subseteq AnyCase(t.key1, t.nocase)

VARIABLES
    table, buf, start,   \* chosen by Init
    at,         \* "scan", "callback", "completed", "terminated"
    p,          \* the place that is looked at next
    hits        \* history: the ends reported, with their answers

vars == <<table, buf, start, at, p, hits>>

MskLen == Len(table.lit)

\* a - b, but not below zero.
Saturating(a, b) == IF a < b THEN 0 ELSE a - b

(***************************************************************************)
(* parse.  The width of the mask, a word of 8 bytes, bounds msk_len.       *)
(***************************************************************************)
Parsed(t) ==
    /\ Len(t.lit) \in 1..8
    /\ IF t.single THEN t.key_offset = 1 ELSE t.key_offset >= 2
    /\ t.key_offset <= Len(t.lit) + 1

-----------------------------------------------------------------------------
FoldAlways == TRUE                             \* mutant: folds what is no letter
\* Without a confirm, the key alone decides: it folds if it is a letter.
FoldSingle == table.key0 \in Letters
Folds == table.nocase /\ (~table.single \/ FoldSingle)

CaseMask(byte) == IF Folds THEN byte - (byte % 2) ELSE byte

FirstPlaceAtStart == start                     \* mutant: looks before the literal fits
FirstPlace == Saturating(start + MskLen, table.key_offset)

Init ==
    /\ table \in Tables /\ Parsed(table)
    /\ buf \in Buffers /\ start \in Starts
    /\ p = FirstPlace
    /\ at = IF Saturating(Len(buf), start) < MskLen THEN "completed" ELSE "scan"
    /\ hits = <<>>

LastPlaceAtEnd == Len(buf)                     \* mutant: the whole buffer
LastPlace == Saturating(Len(buf) + 1, table.key_offset)

KeyAt(place) ==
    /\ CaseMask(buf[place + 1]) = CaseMask(table.key0)
    /\ IF table.single THEN TRUE ELSE CaseMask(buf[place + 2]) = CaseMask(table.key1)

\* The window [p + key_offset - msk_len, p + key_offset).
ConfirmedAt(place) ==
    LET to == place + table.key_offset IN
    IF table.single /\ MskLen = 1 THEN TRUE
    ELSE /\ to >= MskLen /\ to <= Len(buf)
         /\ \A k \in 1..MskLen : buf[to - MskLen + k] \in table.lit[k]

Pass ==
    /\ at = "scan" /\ p < LastPlace
    /\ ~(KeyAt(p) /\ ConfirmedAt(p))
    /\ p' = p + 1
    /\ UNCHANGED <<table, buf, start, at, hits>>

Report ==
    /\ at = "scan" /\ p < LastPlace
    /\ KeyAt(p) /\ ConfirmedAt(p)
    /\ hits' = Append(hits, [end |-> p + table.key_offset - 1, reply |-> "none"])
    /\ at' = "callback"
    /\ UNCHANGED <<table, buf, start, p>>

Answer ==
    /\ at = "callback"
    /\ \E reply \in Replies :
          /\ hits' = [hits EXCEPT ![Len(hits)].reply = reply]
          /\ at' = IF reply = "Terminate" THEN "terminated" ELSE "scan"
    /\ p' = p + 1
    /\ UNCHANGED <<table, buf, start>>

Complete ==
    /\ at = "scan" /\ p >= LastPlace
    /\ at' = "completed"
    /\ UNCHANGED <<table, buf, start, p, hits>>

Finished == at \in {"completed", "terminated"} /\ UNCHANGED vars

Next == Pass \/ Report \/ Answer \/ Complete \/ Finished

Spec == Init /\ [][Next]_vars

-----------------------------------------------------------------------------
(***************************************************************************)
(* Properties.                                                             *)
(***************************************************************************)
\* What is looked at lies inside the buffer, the second key and the window of
\* the confirm included (the assertion of noodle.rs:155).
LooksInside ==
    at = "scan" /\ p < LastPlace =>
        /\ p + (IF table.single THEN 1 ELSE 2) <= Len(buf)
        /\ p + table.key_offset \in MskLen..Len(buf)

Occurs(end) ==
    /\ end + 1 >= start + MskLen
    /\ \A k \in 1..MskLen : buf[end + 1 - MskLen + k] \in table.lit[k]

\* Noodle reports the ends of the literal's occurrences behind start, in
\* order, and all of them unless it is stopped.
FoundInOrder ==
    /\ \A i \in DOMAIN hits : Occurs(hits[i].end)
    /\ \A i, j \in DOMAIN hits : i < j => hits[i].end < hits[j].end
    /\ at = "completed" =>
          \A end \in 0..Len(buf)-1 : Occurs(end) => \E i \in DOMAIN hits : hits[i].end = end
=============================================================================
