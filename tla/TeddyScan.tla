------------------------------ MODULE TeddyScan -----------------------------
(***************************************************************************)
(* The Teddy engine (russcan-hwlm, teddy.rs): blocks of the buffer itself, *)
(* one zero-padded copy of the tail, and the same two phases as FDR.       *)
(***************************************************************************)
EXTENDS Confirm

\* A table has up to four masks, no more than a confirm compares.
ASSUME TeddyAssumption == \A t \in Tables : t.masks \in 1..CONF_BYTES

VARIABLES
    start,      \* the start offset, chosen by Init
    p,          \* the next block
    ended       \* whether the scan loop is over

vars == <<table, buf, at, confirmVars, start, p, ended>>

Init ==
    /\ ConfirmInit
    /\ start \in Starts /\ start < Len0
    /\ at = "scan"
    /\ p = start
    /\ ended = FALSE

-----------------------------------------------------------------------------
(***************************************************************************)
(* The scan loop: full blocks, and a tail whose missing bytes propose      *)
(* nothing.                                                                *)
(***************************************************************************)
\* prep_conf: mask m looks at the byte m places back; the bytes before the
\* block, which are shifted in as zeros, exclude nothing.
BlockBits(bytes) ==
    {b \in (0..bytes-1) \X DOMAIN table.chains :
        \A m \in 0..Smaller(table.masks - 1, b[1]) :
            \E n \in DOMAIN table.chains[b[2]] :
                MayHave(table.chains[b[2]][n], buf[p + b[1] - m + 1], m)}

OverfullAt == CAP + 1                          \* mutant: the flush one block late
FullAt == CAP

ScanBlock ==
    /\ at = "scan" /\ p + ITER_BYTES <= Len0
    /\ Stage(p, BlockBits(ITER_BYTES))
    /\ p' = p + ITER_BYTES
    /\ at' = IF Len(cands') >= FullAt THEN "flush" ELSE "scan"
    /\ UNCHANGED <<table, buf, word, chain, control, lastMatch, hits, start, ended>>

TailDropped == 0                               \* mutant: only full blocks
TailBytes == Len0 - p

ScanTail ==
    /\ at = "scan" /\ p + ITER_BYTES > Len0
    /\ Stage(p, BlockBits(TailBytes))
    /\ at' = "flush" /\ ended' = TRUE
    /\ UNCHANGED <<table, buf, word, chain, control, lastMatch, hits, start, p>>

-----------------------------------------------------------------------------
(***************************************************************************)
(* flush_candidates, confirm_chunk, conf_with_bit.                         *)
(***************************************************************************)
FlushNext ==
    /\ at = "flush"
    /\ IF cands # <<>> THEN at' = "bits" /\ TakeCandidate
       ELSE /\ at' = IF ended THEN "completed" ELSE "scan"
            /\ UNCHANGED <<word, cands>>
    /\ UNCHANGED <<table, buf, chain, control, lastMatch, hits, start, p, ended>>

BitsDone ==
    /\ at = "bits" /\ word.bits = {}
    /\ at' = "flush"
    /\ UNCHANGED <<table, buf, confirmVars, start, p, ended>>

\* conf_val: zeros before the buffer.
WindowOf(pos) == [k \in 0..CONF_BYTES-1 |-> IF k <= pos THEN buf[pos - k + 1] ELSE 0]

NextBit ==
    /\ at = "bits"
    /\ \E b \in word.bits :
          /\ IsLowestBit(b)
          /\ word' = [word EXCEPT !.bits = @ \ {b}]
          /\ StartChain(b, word.base + b[1], WindowOf(word.base + b[1]))
    /\ at' = "chain"
    /\ UNCHANGED <<table, buf, cands, control, lastMatch, hits, start, p, ended>>

PassLiteral ==
    /\ at = "chain" /\ chain.n <= Len(Chain) /\ ~Confirmed(Literal)
    /\ chain' = [chain EXCEPT !.n = @ + 1]
    /\ UNCHANGED <<table, buf, at, cands, word, control, lastMatch, hits, start, p, ended>>

ReportLiteral ==
    /\ at = "chain" /\ chain.n <= Len(Chain) /\ Confirmed(Literal)
    /\ CallBack(Literal)
    /\ at' = "callback"
    /\ UNCHANGED <<table, buf, cands, word, chain, control, start, p, ended>>

\* Terminate leaves all loops at once.
AnswerLiteral ==
    /\ at = "callback"
    /\ \E reply \in Replies, squash \in Squashes :
          /\ Answered(reply, squash)
          /\ control' = (reply = "Continue")
          /\ chain' = [chain EXCEPT !.n = @ + 1, !.squash = @ \cup squash]
          /\ at' = IF reply = "Terminate" THEN "terminated" ELSE "chain"
    /\ UNCHANGED <<table, buf, cands, word, lastMatch, start, p, ended>>

ChainDone ==
    /\ at = "chain" /\ chain.n > Len(Chain)
    /\ word' = [word EXCEPT !.bits = SquashedBits]
    /\ at' = "bits"
    /\ UNCHANGED <<table, buf, cands, chain, control, lastMatch, hits, start, p, ended>>

Finished == at \in {"completed", "terminated"} /\ UNCHANGED vars

Next ==
    \/ ScanBlock \/ ScanTail
    \/ FlushNext \/ BitsDone \/ NextBit
    \/ PassLiteral \/ ReportLiteral \/ AnswerLiteral \/ ChainDone
    \/ Finished

Spec == Init /\ [][Next]_vars

-----------------------------------------------------------------------------
(***************************************************************************)
(* Properties.                                                             *)
(***************************************************************************)
\* The queue of candidate blocks, an array of CAP entries, never overflows:
\* the tail's block is added without a check (teddy.rs:273).
QueueFits == Len(cands) <= CAP

\* Teddy finds what a naive search finds, across block borders, too.
Found == OnlyOccurrences /\ FoundAll(start, at = "completed")

\* The engine is a stream of hits in order.
Stream == INSTANCE HitStream WITH
    phase    <- IF at = "callback" THEN "callback"
                ELSE IF at = "completed" THEN "closed"
                ELSE IF control THEN "searching" ELSE "stopped",
    end <- StreamEnd, lit <- StreamLit, bucket <- StreamBucket,
    used <- StreamUsed, squashed <- StreamSquashed

StreamSpec == Stream!StreamSpec
=============================================================================
