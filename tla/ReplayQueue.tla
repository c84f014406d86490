---------------------------- MODULE ReplayQueue -----------------------------
(***************************************************************************)
(* What DelayScan promises about delayed literals, without programs, slots *)
(* or flush calls: a queue of replays <<offset, index>> and one job at a   *)
(* time, a replay or the program of a direct hit.                          *)
(*                                                                         *)
(* Time never goes back.  A direct hit at an offset waits for all replays  *)
(* due at or before it; replays start in the order of their offset and, at *)
(* one offset, of their index; a job schedules replays after its own       *)
(* offset only.  Every replay up to the end of the buffer is started once, *)
(* unless the callback said Terminate (which drops the rest of the current *)
(* offset and ends the direct hits) or the scan failed.                    *)
(***************************************************************************)
EXTENDS Integers

VARIABLES
    buflen,    \* length of the buffer, never changes
    pending,   \* the replays not started yet
    now,       \* offset of the last job
    job,       \* "none", "direct", "delayed", or "stopping" after Terminate
    status     \* "open", "terminated", "failed" or "closed"

queueVars == <<buflen, pending, now, job, status>>

Earlier(s, t) == s[1] < t[1] \/ (s[1] = t[1] /\ s[2] < t[2])

QueueInit ==
    /\ buflen \in Nat
    /\ pending = {} /\ now = 0 /\ job = "none" /\ status = "open"

StartDirect ==
    /\ job = "none" /\ status = "open"
    /\ now' \in now..buflen
    /\ \A s \in pending : s[1] > now'
    /\ job' = "direct"
    /\ UNCHANGED <<buflen, pending, status>>

StartReplay ==
    /\ job = "none" /\ status \in {"open", "terminated"}
    /\ \E s \in pending :
          /\ s[1] <= buflen
          /\ \A t \in pending : t = s \/ Earlier(s, t)
          /\ pending' = pending \ {s}
          /\ now' = s[1]
    /\ job' = "delayed"
    /\ UNCHANGED <<buflen, status>>

\* The new replays all lie ahead.
Schedules(kept) ==
    /\ kept \subseteq pending'
    /\ \A s \in pending' \ kept : s[1] > now

Finish ==
    /\ job \in {"direct", "delayed"}
    /\ Schedules(pending)
    /\ job' = "none"
    /\ UNCHANGED <<buflen, now, status>>

Terminate ==
    /\ job \in {"direct", "delayed"}
    /\ job' = "stopping" /\ status' = "terminated"
    /\ UNCHANGED <<buflen, pending, now>>

FinishStopped ==
    /\ job = "stopping"
    /\ Schedules({s \in pending : s[1] > now})
    /\ \A s \in pending' : s[1] > now
    /\ job' = "none"
    /\ status' \in {"terminated", "closed"}
    /\ UNCHANGED <<buflen, now>>

Fail ==
    /\ job \in {"none", "direct", "delayed"} /\ status \in {"open", "terminated"}
    /\ pending' \subseteq pending
    /\ job' = "none" /\ status' = "failed"
    /\ UNCHANGED <<buflen, now>>

Close ==
    /\ job = "none" /\ status \in {"open", "terminated"}
    /\ \A s \in pending : s[1] > buflen
    /\ status' = "closed"
    /\ UNCHANGED <<buflen, pending, now, job>>

QueueNext ==
    \/ StartDirect \/ StartReplay
    \/ Finish \/ Terminate \/ FinishStopped \/ Fail \/ Close

QueueSpec == QueueInit /\ [][QueueNext]_queueVars
=============================================================================
