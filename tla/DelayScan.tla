----------------------------- MODULE DelayScan ------------------------------
(***************************************************************************)
(* Database::scan_block and DelayScan (crates/russcan/src/lib.rs): the     *)
(* literal engine calls on_hit, on_hit replays the delayed literals that   *)
(* are due and runs the literal's program, and scan_block replays the rest *)
(* once the engine is done.                                                *)
(*                                                                         *)
(* The floating engine (FDR or Teddy) is abstract here: it reports any     *)
(* literals in the order of their end offset, and stops after Terminate.   *)
(* At one offset a confirm reports in the order of db.lits (bucket by      *)
(* bucket) and skips the buckets that were squashed; a flood reports its   *)
(* literals in any order and ignores what their programs squash.  FdrScan  *)
(* and TeddyScan have the engines.                                         *)
(***************************************************************************)
EXTENDS LitProgram, ProgramFlow

VARIABLES
    at,        \* where scan_block is: see ControlPoints
    engine,    \* the engine: end and position in db.lits of its last hit,
               \* whether that was a flood's, the literals that are not hit
               \* again and the buckets squashed at that end, and whether
               \* the engine stopped
    flush,     \* the flush call in progress, or the last one: curr_end,
               \* whether it is scan_block's final one, the offset of the
               \* open slot, and its indices still to replay
    slots,     \* DelayScan.slots, as a set of <<replay offset, delay index>>
    dle,       \* DelayScan.delay_last_end
    err        \* DelayScan.err

scanVars == <<at, engine, flush, slots, dle, err>>
vars == <<db, buflen, progVars, scanVars>>

\* "engine": in exec_squash; "flush": head of the loop of flush; "replay": in
\* the loop over the indices of a slot; "direct", "delayed": in run_prog.
ControlPoints == {"engine", "flush", "replay", "direct", "delayed", "done"}

Init ==
    /\ db \in Databases /\ buflen \in BufLens
    /\ groups = db.groups
    /\ dedupe = EmptyDedupe
    /\ vm = IdleVm
    /\ out = <<>>
    /\ at = "engine"
    /\ engine = [end |-> 1, lit |-> 0, flood |-> FALSE, used |-> {}, squashed |-> {}, stopped |-> FALSE]
    /\ flush = [limit |-> 0, final |-> FALSE, offset |-> 0, todo |-> {}]
    /\ slots = {}
    /\ dle = 0
    /\ err = "None"

-----------------------------------------------------------------------------
(***************************************************************************)
(* The engine reports a literal: on_hit starts flush(real_end).            *)
(***************************************************************************)
\* A squash takes candidate bits away: the chain of literals that the confirm
\* step is walking, of one bucket, is walked to its end.
SkippedNever(lit) == FALSE                     \* mutant: the squash is ignored
Skipped(lit) ==
    /\ db.lits[lit].bucket \in engine.squashed
    /\ db.lits[lit].bucket # db.lits[engine.lit].bucket

\* The engine once it reported: the literals of a confirm come in order.
EngineHit(end, lit, flood) ==
    LET again == end = engine.end
    IN  [engine EXCEPT !.end = end, !.lit = lit, !.flood = flood,
            !.used = (IF again THEN @ ELSE {}) \cup (IF flood THEN {lit} ELSE 1..lit),
            !.squashed = IF again THEN @ ELSE {}]

OnHit ==
    /\ at = "engine" /\ ~engine.stopped
    /\ \E end \in engine.end..buflen, lit \in DOMAIN db.lits, flood \in BOOLEAN :
          /\ flood => db.lits[lit].flood
          /\ end = engine.end =>
                /\ lit \notin engine.used /\ ~Skipped(lit)
                /\ engine.used # {} => flood = engine.flood
          /\ engine' = EngineHit(end, lit, flood)
          /\ flush' = [limit |-> end, final |-> FALSE, offset |-> 0, todo |-> {}]
    /\ at' = "flush"
    /\ UNCHANGED <<db, buflen, progVars, slots, dle, err>>

EngineDoneAlways ==                            \* mutant: flushes after an error
    /\ at = "engine"
    /\ at' = "flush"
    /\ flush' = [limit |-> buflen, final |-> TRUE, offset |-> 0, todo |-> {}]
    /\ UNCHANGED <<db, buflen, progVars, engine, slots, dle, err>>

(***************************************************************************)
(* The engine is through with the buffer, or stopped by Terminate: without *)
(* an error scan_block flushes up to the end of the buffer.                *)
(***************************************************************************)
EngineDone ==
    /\ at = "engine"
    /\ IF err = "None"
       THEN /\ at' = "flush"
            /\ flush' = [limit |-> buflen, final |-> TRUE, offset |-> 0, todo |-> {}]
       ELSE /\ at' = "done"
            /\ UNCHANGED flush
    /\ UNCHANGED <<db, buflen, progVars, engine, slots, dle, err>>

-----------------------------------------------------------------------------
(***************************************************************************)
(* flush: the due slots in ascending order, those included that a replay   *)
(* adds.                                                                   *)
(***************************************************************************)
DueBefore == {s \in slots : s[1] < flush.limit}   \* mutant: the end excluded
Due == {s \in slots : s[1] <= flush.limit}

Larger(m, n) == IF m > n THEN m ELSE n

DleAtReplayLate(o) == dle                      \* mutant: moved after the replay
\* Without this step a replay that pushes itself with delay 0 never ends.
DleAtReplay(o) == Larger(dle, o)

IsFirst(s) == \A t \in Due : s[1] <= t[1]

OpenSlot ==
    /\ at = "flush"
    /\ \E s \in Due :
          /\ IsFirst(s)
          /\ flush' = [flush EXCEPT !.offset = s[1],
                          !.todo = {t[2] : t \in {u \in slots : u[1] = s[1]}}]
          /\ slots' = {t \in slots : t[1] # s[1]}
          /\ dle' = DleAtReplay(s[1])
    /\ at' = "replay"
    /\ UNCHANGED <<db, buflen, progVars, engine, err>>

IsLowestAny(i) == TRUE                         \* mutant: an unordered set
\* BTreeSet order: the lowest delay index first.
IsLowest(i) == \A j \in flush.todo : i <= j

StopScanInFlush ==                             \* mutant: the engine goes on
    /\ flush' = [flush EXCEPT !.todo = {}]
    /\ at' = IF flush.final THEN "done" ELSE "engine"
    /\ UNCHANGED engine

\* Where a Terminate takes the scan: the final flush returns to scan_block,
\* any other call returns Terminate to the engine.  The indices not yet
\* replayed are lost with the flush call.
StopScan ==
    /\ flush' = [flush EXCEPT !.todo = {}]
    /\ IF flush.final
       THEN at' = "done" /\ UNCHANGED engine
       ELSE at' = "engine" /\ engine' = [engine EXCEPT !.stopped = TRUE]

ReplayNext ==
    /\ at = "replay"
    /\ \E i \in flush.todo :
          /\ IsLowest(i)
          /\ i \in DOMAIN db.delayed
          /\ vm' = StartVm(db.delayed[i], flush.offset, FALSE, i)
          /\ flush' = [flush EXCEPT !.todo = @ \ {i}]
    /\ at' = "delayed"
    /\ UNCHANGED <<db, buflen, groups, dedupe, out, engine, slots, dle, err>>

\* delay_program fails: the entry lies outside the bytecode.
ReplayBadIndex ==
    /\ at = "replay"
    /\ \E i \in flush.todo : IsLowest(i) /\ i \notin DOMAIN db.delayed
    /\ err' = "Rose"
    /\ StopScan
    /\ UNCHANGED <<db, buflen, progVars, slots, dle>>

SlotDone ==
    /\ at = "replay" /\ flush.todo = {}
    /\ at' = "flush"
    /\ UNCHANGED <<db, buflen, progVars, engine, flush, slots, dle, err>>

\* Nothing is due any more: scan_block returns, or on_hit runs the program of
\* the literal that was hit.
FlushDone ==
    /\ at = "flush" /\ Due = {}
    /\ dle' = Larger(flush.limit, dle)
    /\ IF flush.final
       THEN at' = "done" /\ UNCHANGED vm
       ELSE /\ at' = "direct"
            /\ vm' = StartVm(db.lits[engine.lit].prog, flush.limit, TRUE, 0)
    /\ UNCHANGED <<db, buflen, groups, dedupe, out, engine, flush, slots, err>>

-----------------------------------------------------------------------------
(***************************************************************************)
(* The rest of run_prog once run_program has returned, and its caller.     *)
(***************************************************************************)
Interpret ==
    /\ at \in {"direct", "delayed"}
    /\ RunProgram
    /\ UNCHANGED <<db, buflen, scanVars>>

SkipNothing(replay) == FALSE                   \* mutant: no skip-check
SkipPush(replay) == replay <= dle

\* A set, so a push of a pair that is pending already changes nothing.
Pushed == {<<vm.end + p[1], p[2]>> : p \in vm.delayed}
WithPushed == slots \cup {s \in Pushed : ~SkipPush(s[1])}

\* A flood drops the squash of an answer.
SquashTaken == IF engine.flood THEN {} ELSE vm.squash

ReturnContinue ==
    /\ at \in {"direct", "delayed"} /\ vm.status = "Continue"
    /\ slots' = WithPushed
    /\ IF at = "delayed"
       THEN at' = "replay" /\ UNCHANGED engine
       ELSE /\ at' = "engine"
            /\ engine' = [engine EXCEPT !.squashed = @ \cup SquashTaken]
    /\ UNCHANGED <<db, buflen, progVars, flush, dle, err>>

\* What the program pushed before it was told to stop is kept.
ReturnTerminate ==
    /\ at \in {"direct", "delayed"} /\ vm.status = "Terminate"
    /\ slots' = WithPushed
    /\ StopScan
    /\ UNCHANGED <<db, buflen, progVars, dle, err>>

\* A failing program loses its pushes.
ReturnErr ==
    /\ at \in {"direct", "delayed"} /\ vm.status \in InterpErrors
    /\ err' = vm.status
    /\ StopScan
    /\ UNCHANGED <<db, buflen, progVars, slots, dle>>

Finished == at = "done" /\ UNCHANGED vars

Next ==
    \/ OnHit \/ EngineDone
    \/ OpenSlot \/ ReplayNext \/ ReplayBadIndex \/ SlotDone \/ FlushDone
    \/ Interpret \/ ReturnContinue \/ ReturnTerminate \/ ReturnErr
    \/ Finished

Spec == Init /\ [][Next]_vars

\* One thread runs the scan, and the callback returns: a step that can be
\* taken is taken.
FairSpec == Spec /\ WF_vars(Next)

-----------------------------------------------------------------------------
(***************************************************************************)
(* Properties.                                                             *)
(***************************************************************************)
OutEntry == [id: Nat, to: 0..U64-1, dkey: Nat \cup {NoDkey}, reply: ScanCtl,
             end: Nat, confirm: BOOLEAN, index: Nat]

DedupeState == [seen: SUBSET (Nat \X (0..U64-1)), handled: SUBSET Nat,
                roles: SUBSET Nat, suffix: SUBSET (Nat \X Nat \X Nat),
                infix: SUBSET (Nat \X Nat)]

VmState == [status: {"idle", "running"} \cup ScanCtl \cup InterpErrors,
            pc: Nat, steps: Nat, end: Nat, index: Nat, confirm: BOOLEAN,
            work: BOOLEAN, squash: SUBSET Nat, delayed: SUBSET (Nat \X Nat)]

EngineState == [end: Nat, lit: Nat, flood: BOOLEAN, used: SUBSET Nat,
                squashed: SUBSET Nat, stopped: BOOLEAN]

\* Every variable of the scan keeps its type.
TypeOK ==
    /\ db \in Databases /\ buflen \in BufLens
    /\ groups \in SUBSET Nat
    /\ dedupe \in DedupeState
    /\ vm \in VmState
    /\ out \in Seq(OutEntry)
    /\ at \in ControlPoints
    /\ engine \in EngineState
    /\ flush \in [limit: Nat, final: BOOLEAN, offset: Nat, todo: SUBSET Nat]
    /\ slots \in SUBSET (Nat \X Nat)
    /\ dle \in Nat
    /\ err \in {"None"} \cup InterpErrors

\* Every pending replay lies ahead of the offset up to which replays were
\* played (lib.rs:164): none is ever due in the past.
SlotsAhead == \A s \in slots : s[1] > dle

\* The callback sees the matches in the order of the buffer: by end offset
\* and, at one offset, the delayed ones by delay index before the direct ones.
Precedes(a, b) ==
    \/ a.end < b.end
    \/ a.end = b.end /\ (b.confirm \/ (~a.confirm /\ a.index <= b.index))

MatchesInOrder == \A i, j \in DOMAIN out : i < j => Precedes(out[i], out[j])

\* A deduplicated match is reported once per scan, whether it comes from a
\* direct hit or from a replay (literal.rs:552).
DedupedOnce ==
    \A i, j \in DOMAIN out :
        (i # j /\ out[i].dkey # NoDkey) =>
            <<out[i].dkey, out[i].to>> # <<out[j].dkey, out[j].to>>

\* After an error the callback is not called again: neither the rest of the
\* slot nor the final flush is played (lib.rs:117).
ErrStopsMatches == [][err # "None" => UNCHANGED out]_vars

\* After Terminate no literal is confirmed any more, the rest of the offset
\* is not played, and a second Terminate, in the final flush, is the last.
TerminateWindsDown ==
    \A i, j \in DOMAIN out :
        (i < j /\ out[i].reply = "Terminate") =>
            /\ ~out[j].confirm
            /\ out[i].end < out[j].end
            /\ out[j].reply = "Terminate" => j = Len(out)

\* "Terminate stops the scan" (lib.rs:91): the callback is not called again.
TerminateStops ==
    \A i \in DOMAIN out : out[i].reply = "Terminate" => i = Len(out)

\* A match behind the check of a role state or of a group follows a match
\* whose program switches it on (SET_STATE, SET_GROUPS).
FollowsSwitch ==
    \A j \in DOMAIN out :
        \A m \in CellsOf(db) :
            (CellAt(db, m).op \in Matching /\ SwitchedBy(db, out[j].id, CellAt(db, m).id)) =>
                \E i \in 1..j-1 : out[i].id = CellAt(db, m).id

\* A role behind CHECK_NOT_HANDLED matches once per scan, whichever literals
\* and replays lead to it.
HandledOnce ==
    \A i, j \in DOMAIN out : (i # j /\ out[i].id = out[j].id) => ~Handled(db, out[i].id)

\* An exclusive group is squashed by its match and by nothing else: a run
\* whose checks fail leaves it on, and a second match takes a Terminate after
\* the first, before the squash, and a replay in the final flush.
ExclusiveOnce ==
    /\ \A i, j \in DOMAIN out :
          (i < j /\ out[i].id = out[j].id /\ \E g \in db.groups : Exclusive(db, out[i].id, g)) =>
              out[i].reply = "Terminate" /\ ~out[j].confirm
    /\ \A g \in db.groups \ groups : \A m \in CellsOf(db) :
          (CellAt(db, m).op \in Matching /\ Exclusive(db, CellAt(db, m).id, g)) =>
              \E i \in DOMAIN out : out[i].id = CellAt(db, m).id

\* An included literal is reported once per end, by its own confirm or by the
\* jump from the literal that includes it (fdr.rs:692-697).
IncludedOnce ==
    \A i, j \in DOMAIN out :
        (i # j /\ out[i].id = out[j].id /\ out[i].end = out[j].end) => ~Included(db, out[i].id)

\* A database whose cells are known and ask for no engine, whose jumps, lists
\* and programs exist, and whose programs do not come back to a cell.
ValidCell(d, n) ==
    LET i == CellAt(d, n) IN
    /\ i.op \notin {"OTHER", "CHECK_PREFIX", "CHECK_INFIX"}
    /\ FlowsTo(d, n) \subseteq CellsOf(d)
    /\ i.op = "CHECK_MED_LIT" => i.lit <= Len(d.code)
    /\ i.op = "CHECK_SINGLE_LOOKAROUND" => i.reach <= Len(d.code)
    /\ i.op = "CHECK_LOOKAROUND" => i.look <= Len(d.code) /\ i.reach <= Len(d.code) /\ ~i.short
    /\ i.op = "PUSH_DELAYED" => i.index \in DOMAIN d.delayed

Valid(d) ==
    /\ \A n \in CellsOf(d) : ValidCell(d, n)
    /\ \A l \in DOMAIN d.lits : d.lits[l].prog < Len(d.code)
    /\ \A i \in DOMAIN d.delayed : d.delayed[i] < Len(d.code)
    /\ Acyclic(d)

\* The instruction budget stops cycles only (literal.rs:242-246), whichever way
\* the jumps of a program lead: a scan fails on databases that are not valid.
ValidNeverErrs == err # "None" => ~Valid(db)

\* Every scan ends, on broken databases too: cycles of jumps run into the
\* budget, and a replay never schedules itself again at its own offset.
ScanEnds == <>(at = "done")

\* The slots and flush calls implement the queue of replays.
Queue == INSTANCE ReplayQueue WITH
    pending <- slots \cup {<<flush.offset, i>> : i \in flush.todo},
    now     <- vm.end,
    job     <- IF at \notin {"direct", "delayed"} THEN "none"
               ELSE IF vm.status = "Terminate" THEN "stopping" ELSE at,
    status  <- IF err # "None" THEN "failed"
               ELSE IF at = "done" THEN "closed"
               ELSE IF engine.stopped \/ vm.status = "Terminate" THEN "terminated"
               ELSE "open"

QueueSpec == Queue!QueueSpec

\* The engine that OnHit assumes is the stream of hits that FdrScan and
\* TeddyScan implement: the two sides of the callback fit together.
Engine == INSTANCE HitStream WITH
    phase    <- IF at = "done" \/ flush.final THEN "closed"
                ELSE IF at # "engine" THEN "callback"
                ELSE IF engine.stopped THEN "stopped" ELSE "searching",
    end      <- engine.end - 1,
    lit      <- engine.lit,
    bucket   <- IF engine.lit = 0 THEN 0 ELSE db.lits[engine.lit].bucket,
    used     <- engine.used,
    squashed <- engine.squashed

EngineSpec == Engine!StreamSpec
=============================================================================
