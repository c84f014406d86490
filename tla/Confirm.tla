------------------------------ MODULE Confirm -------------------------------
(***************************************************************************)
(* The confirm step of the literal engines FDR and Teddy (russcan-hwlm):   *)
(* candidate blocks collected by the scan loop, their candidate bits       *)
(* (do_confirm, confirm_chunk) and the chain of literals behind a bit      *)
(* (conf_with_bit), up to the call of on_hit and its answer.               *)
(*                                                                         *)
(* Bytes are small numbers.  A chain holds all literals of a bucket: the   *)
(* hash table in front of it only leaves out literals that cannot match.   *)
(***************************************************************************)
EXTENDS Integers, Sequences, FiniteSets

CONSTANTS
    Tables,      \* the engine tables a scan may run on
    Buffers,     \* the buffers: non-empty sequences of bytes
    Starts,      \* the offsets at which exec_squash may start
    Replies,     \* the answers the callback may give ...
    Squashes,    \* ... and the buckets it may squash
    CONF_BYTES,  \* the width of the window that a confirm compares (8)
    ITER_BYTES,  \* the width of a block (16)
    CAP          \* the candidate blocks that wait for their confirm (64)

\* lit: the bytes of the literal; grouped: its groups are not empty.
LitInfo == [id: Nat, lit: Seq(Nat), norepeat: BOOLEAN, grouped: BOOLEAN]

ScanCtl == {"Continue", "Terminate"}

ASSUME ConfirmAssumption ==
    /\ \A t \in Tables : \A b \in DOMAIN t.chains : b \in Nat /\ t.chains[b] \in Seq(LitInfo)
    /\ \A s \in Buffers : s \in Seq(Nat) /\ s # <<>>
    /\ Starts \subseteq Nat /\ Replies \subseteq ScanCtl
    /\ CONF_BYTES \in Nat \ {0} /\ ITER_BYTES \in Nat \ {0} /\ CAP \in Nat \ {0}

VARIABLES
    table,      \* the engine's table, chosen by Init
    buf,        \* the buffer, chosen by Init
    at,         \* where the engine is
    cands,      \* cbuf[..n]: blocks with candidates, not yet confirmed
    word,       \* the block in confirm: its offset and the bits left
    chain,      \* the walk of conf_with_bit: bucket, end, window, next
                \* literal, and the buckets squashed so far
    control,    \* whether any group is on (ALL_GROUPS or 0)
    lastMatch,  \* last_match, or NoMatch
    hits        \* history: every call of on_hit, with its answer

confirmVars == <<cands, word, chain, control, lastMatch, hits>>

NoMatch == -1
NoWord == [base |-> 0, bits |-> {}]
NoChain == [byte |-> 0, bucket |-> 0, end |-> 0, window |-> <<>>, n |-> 1, squash |-> {}]

ConfirmInit ==
    /\ table \in Tables /\ buf \in Buffers
    /\ cands = <<>> /\ word = NoWord /\ chain = NoChain
    /\ control = TRUE /\ lastMatch = NoMatch
    /\ hits = <<>>

Len0 == Len(buf)
Smaller(m, n) == IF m < n THEN m ELSE n

-----------------------------------------------------------------------------
(***************************************************************************)
(* Collecting candidates.  A bit is a pair <<byte, bucket>>; the two       *)
(* halves of a block are one set, confirmed in ascending order.            *)
(***************************************************************************)
Stage(it, bits) ==
    cands' = IF bits = {} THEN cands ELSE Append(cands, [base |-> it, bits |-> bits])

\* What the tables of the scan loops know of a literal: whether it may have
\* that byte j bytes before its last one.
MayHave(l, byte, j) == j >= Len(l.lit) \/ l.lit[Len(l.lit) - j] = byte

\* The next candidate block goes into confirm.
TakeCandidate ==
    /\ word' = Head(cands)
    /\ cands' = Tail(cands)

IsLowestBit(b) ==
    \A c \in word.bits : b[1] < c[1] \/ (b[1] = c[1] /\ b[2] <= c[2])

StartChain(b, end, window) ==
    chain' = [NoChain EXCEPT !.byte = b[1], !.bucket = b[2], !.end = end, !.window = window]

-----------------------------------------------------------------------------
(***************************************************************************)
(* conf_with_bit.  A window is a function from the distance to the         *)
(* candidate's byte to the byte there.                                     *)
(***************************************************************************)
Chain == table.chains[chain.bucket]
Literal == Chain[chain.n]

WindowMatches(l) ==
    \A k \in 0..Smaller(Len(l.lit), CONF_BYTES) - 1 : chain.window[k] = l.lit[Len(l.lit) - k]

Repeated(l) == l.norepeat /\ lastMatch = l.id

FitsAnywhere(l) == TRUE                        \* mutant: no size check
\* In block mode nothing precedes the buffer.
Fits(l) == Len(l.lit) <= chain.end + 1

Confirmed(l) ==
    /\ WindowMatches(l)
    /\ ~Repeated(l)
    /\ Fits(l)
    /\ l.grouped /\ control

Hit(id, bucket, n, end, flood) ==
    [id |-> id, bucket |-> bucket, n |-> n, end |-> end, flood |-> flood,
     reply |-> "none", squash |-> {}]

CallBack(l) ==
    /\ lastMatch' = l.id
    /\ hits' = Append(hits, Hit(l.id, chain.bucket, chain.n, chain.end, FALSE))

Answered(reply, squash) ==
    hits' = [hits EXCEPT ![Len(hits)].reply = reply, ![Len(hits)].squash = squash]

SquashedNone == word.bits                      \* mutant: the squash is dropped
\* conf &= !(squash << (bit & !7)): only the rest of this byte's buckets.
SquashedBits ==
    {b \in word.bits : ~(b[1] = chain.byte /\ b[2] \in chain.squash)}

-----------------------------------------------------------------------------
(***************************************************************************)
(* Properties of the hits of an engine, against a naive search.            *)
(***************************************************************************)
\* The window of a confirm looks at CONF_BYTES bytes: the rest of a longer
\* literal is left to its program.
Occurs(l, end) ==
    /\ Len(l.lit) <= end + 1 /\ end < Len0
    /\ \A k \in 0..Smaller(Len(l.lit), CONF_BYTES) - 1 : buf[end + 1 - k] = l.lit[Len(l.lit) - k]

\* A reported literal ends where it is reported.
OnlyOccurrences ==
    \A i \in DOMAIN hits :
        LET l == table.chains[hits[i].bucket][hits[i].n]
        IN  l.id = hits[i].id /\ Occurs(l, hits[i].end)

Before(h, end, bucket, n) ==
    \/ h.end < end
    \/ h.end = end /\ (h.bucket < bucket \/ (h.bucket = bucket /\ h.n < n))

\* A NOREPEAT literal is left out while it is the last one confirmed.
LeftOutAsRepeat(l, end, bucket, n) ==
    /\ l.norepeat
    /\ \E i \in DOMAIN hits :
          /\ ~hits[i].flood /\ hits[i].id = l.id /\ Before(hits[i], end, bucket, n)
          /\ \A j \in i+1..Len(hits) : Before(hits[j], end, bucket, n) => hits[j].flood

LeftOutBySquash(end, bucket) ==
    \E i \in DOMAIN hits :
        ~hits[i].flood /\ hits[i].end = end /\ hits[i].bucket < bucket /\ bucket \in hits[i].squash

\* Nothing is lost: a scan that was not stopped reports every occurrence
\* behind start, but for repeats of NOREPEAT literals and squashed buckets.
FoundAll(start, completed) ==
    completed =>
        \A b \in DOMAIN table.chains : \A n \in DOMAIN table.chains[b] :
        \A end \in start..Len0 - 1 :
            LET l == table.chains[b][n] IN
            (l.grouped /\ Occurs(l, end) /\ Len(l.lit) <= end - start + 1) =>
                \/ \E i \in DOMAIN hits : hits[i].id = l.id /\ hits[i].end = end
                \/ LeftOutAsRepeat(l, end, b, n)
                \/ LeftOutBySquash(end, b)

\* The view of the hits that HitStream has.  A literal is its place in a chain.
LastHit == hits[Len(hits)]
HitsAtEnd == IF hits = <<>> THEN {} ELSE {i \in DOMAIN hits : hits[i].end = LastHit.end}

StreamEnd == IF hits = <<>> THEN 0 ELSE LastHit.end
StreamLit == IF hits = <<>> THEN <<0, 0>> ELSE <<LastHit.bucket, LastHit.n>>
StreamBucket == IF hits = <<>> THEN 0 ELSE LastHit.bucket
StreamUsed == {<<hits[i].bucket, hits[i].n>> : i \in HitsAtEnd}
StreamSquashed == UNION {hits[i].squash : i \in HitsAtEnd}
=============================================================================
