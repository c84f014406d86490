----------------------------- MODULE HitStream ------------------------------
(***************************************************************************)
(* What a literal engine promises its caller and what DelayScan relies on: *)
(* hits come in the order of the buffer, a literal at most once per end    *)
(* offset, none from a bucket that an answer squashed at that offset, and  *)
(* none after Terminate.  FdrScan and TeddyScan implement it, and the      *)
(* engine that DelayScan assumes is one, too.                              *)
(***************************************************************************)
EXTENDS Integers

VARIABLES
    phase,      \* "searching", "callback", "stopped" by Terminate, "closed"
    end,        \* the last hit: its end offset, ...
    lit,        \* ... its literal ...
    bucket,     \* ... and the bucket of its literal
    used,       \* the literals that cannot be hit at that end any more
    squashed    \* the buckets that the answers squashed at that end

streamVars == <<phase, end, lit, bucket, used, squashed>>

Init ==
    /\ phase = "searching" /\ end = 0
    /\ used = {} /\ squashed = {}

\* Candidate bits are squashed, not literals: the rest of the chain of the
\* bucket that is being confirmed is still reported.
Hit ==
    /\ phase = "searching" /\ phase' = "callback"
    /\ end' >= end
    /\ IF end' = end
       THEN /\ lit' \notin used
            /\ bucket' \in squashed => bucket' = bucket
            /\ used \cup {lit'} \subseteq used'
            /\ squashed' = squashed
       ELSE lit' \in used' /\ squashed' = {}

Answer ==
    /\ phase = "callback" /\ phase' \in {"searching", "stopped"}
    /\ squashed \subseteq squashed'
    /\ UNCHANGED <<end, lit, bucket, used>>

Close ==
    /\ phase \in {"searching", "stopped"} /\ phase' = "closed"
    /\ UNCHANGED <<end, lit, bucket, used, squashed>>

StreamSpec == Init /\ [][Hit \/ Answer \/ Close]_streamVars
=============================================================================
