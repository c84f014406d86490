------------------------------ MODULE BlockScan ------------------------------
(***************************************************************************)
(* Database::scan_block with its real engine: FdrScan calls on_hit, and    *)
(* DelayScan answers it.  A call and its answer are one step of both: the  *)
(* engine stands in its callback while DelayScan plays what is due and     *)
(* runs the program of the literal, and DelayScan stands in "engine" while *)
(* the engine searches.                                                    *)
(***************************************************************************)
EXTENDS FdrScan

CONSTANTS
    Loaded,      \* the loaded databases: an engine table and what DelayScan reads
    U64          \* the modulus of a reported offset (2^64 in the code)

VARIABLES
    dat,         \* where DelayScan is: its variable at
    db, groups, dedupe, vm, out, engine, flush, slots, dle, err

replayVars == <<db, groups, dedupe, vm, out, slots, dle, err>>
delayVars == <<replayVars, dat, engine, flush>>
scanVars == <<vars, delayVars>>

D == INSTANCE DelayScan WITH
         at <- dat, buflen <- Len(buf),
         Databases <- {l[2] : l \in Loaded}, BufLens <- {Len(s) : s \in Buffers}

\* The id of a literal in the table is its place in db.lits, whose order is
\* that of the buckets and of their chains; a flood reports literals that
\* db.lits says it may.
LiteralsFit(t, d) ==
    \A b \in DOMAIN t.chains : \A n \in DOMAIN t.chains[b] :
        LET id == t.chains[b][n].id
        IN  /\ id \in DOMAIN d.lits /\ d.lits[id].bucket = b
            /\ \A c \in DOMAIN t.chains : \A m \in DOMAIN t.chains[c] :
                  b < c \/ (b = c /\ n < m) => id < t.chains[c][m].id

FloodsFit(t, d) ==
    \A c \in DOMAIN t.floods : \A k \in DOMAIN t.floods[c].ids :
        LET x == t.floods[c].ids[k] IN d.lits[t.chains[x[1]][x[2]].id].flood

ASSUME BlockAssumption ==
    /\ U64 \in Nat \ {0}
    /\ \A l \in Loaded :
          /\ l[1] \in Tables /\ l[2] \in D!Database
          /\ LiteralsFit(l[1], l[2]) /\ FloodsFit(l[1], l[2])

ScanInit == Init /\ D!Init /\ <<table, db>> \in Loaded

-----------------------------------------------------------------------------
Searching == at \notin {"callback", "floodcallback", "completed", "terminated"}

\* What run_simd does between two calls of on_hit.
Search ==
    /\ Searching
    /\ \/ Probe \/ ScanBlock \/ EndOfZone \/ NextZone
       \/ FlushNext \/ BitsDone \/ NextBit \/ PassLiteral \/ ChainDone
       \/ FloodDetect \/ FloodDone
    /\ UNCHANGED delayVars

\* on_hit(end_last_byte, prog_off): real_end is one more.
OnHit ==
    /\ ReportLiteral \/ ReportFlood
    /\ IF hits' = hits THEN UNCHANGED delayVars
       ELSE LET h == LastHit'
                realEnd == h.end + 1
            IN  /\ dat' = "flush"
                /\ flush' = [limit |-> realEnd, final |-> FALSE, offset |-> 0, todo |-> {}]
                /\ engine' = D!EngineHit(realEnd, h.id, h.flood)
                /\ UNCHANGED replayVars

\* The answer (ctl, squash): a flush that was told to stop, or a program that
\* failed, squashes nothing.
Reply == IF engine'.stopped THEN "Terminate" ELSE "Continue"
SquashGiven == IF dat = "direct" /\ vm.status \in D!ScanCtl THEN vm.squash ELSE {}

\* A flood takes the answer without its squash.
TakeAnswer ==
    \/ AnswerLiteral /\ LastHit'.reply = Reply /\ LastHit'.squash = SquashGiven
    \/ AnswerFlood   /\ LastHit'.reply = Reply

Replay ==
    /\ UNCHANGED <<table, buf>>
    /\ \/ D!OpenSlot \/ D!ReplayNext \/ D!ReplayBadIndex \/ D!SlotDone \/ D!FlushDone
       \/ D!Interpret \/ D!ReturnContinue \/ D!ReturnTerminate \/ D!ReturnErr
    /\ IF dat' = "engine" THEN TakeAnswer ELSE UNCHANGED vars

\* exec_squash has returned.
EngineDone ==
    /\ at \in {"completed", "terminated"}
    /\ UNCHANGED vars
    /\ D!EngineDone

ScanFinished == dat = "done" /\ UNCHANGED scanVars

ScanNext == Search \/ OnHit \/ Replay \/ EngineDone \/ ScanFinished

ScanSpec == ScanInit /\ [][ScanNext]_scanVars

-----------------------------------------------------------------------------
(***************************************************************************)
(* Properties.                                                             *)
(***************************************************************************)
\* The whole scan is a scan of DelayScan: what FDR reports, out of blocks,
\* copied zones and floods, is what DelayScan assumes of an engine, and the
\* replays, programs and answers in between are its own (lib.rs:89-127).
ImplementsDelayScan == D!Spec
=============================================================================
