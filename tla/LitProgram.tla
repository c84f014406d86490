----------------------------- MODULE LitProgram -----------------------------
(***************************************************************************)
(* The interpreter of literal programs (russcan-rose, literal.rs): one     *)
(* action per opcode of run_program, over the state that outlives a run    *)
(* (the groups and the Dedupe scratch) and the record vm of the run in     *)
(* progress.                                                               *)
(*                                                                         *)
(* A program is a sequence of instruction cells: every jump of the code is *)
(* a distance in bytes, here a distance in cells.  The checks that only    *)
(* look at the bytes around the match are abstracted to the set of end     *)
(* offsets at which they pass (field pass).                                *)
(***************************************************************************)
EXTENDS Integers, Sequences, FiniteSets

CONSTANTS
    Databases,    \* the compiled databases a scan may run on
    BufLens,      \* the lengths of the scanned buffer
    Replies,      \* the answers the match callback may give
    U64           \* the modulus of a reported offset (2^64 in the code)

(***************************************************************************)
(* Instructions.  OTHER stands for every opcode byte that run_program does *)
(* not know, CHECK_MASK for itself and CHECK_SHUFTI_16X8, CHECK_MASK_32    *)
(* for itself and the wider shufti checks (literal.rs:297-327, 388-449).   *)
(* lit, look and reach are places in the bytecode, as prog and child are;  *)
(* short: the lists of a lookaround run past the bytecode.                 *)
(***************************************************************************)
Instruction ==
         [op: {"END", "CATCH_UP", "OTHER"}]
    \cup [op: {"CHECK_GROUPS", "SET_GROUPS", "SQUASH_GROUPS"}, mask: SUBSET Nat]
    \cup [op: {"CHECK_BYTE", "CHECK_MASK", "CHECK_MASK_32"}, pass: SUBSET Nat, fail: Nat]
    \cup [op: {"CHECK_SINGLE_LOOKAROUND"}, reach: Nat, pass: SUBSET Nat, fail: Nat]
    \cup [op: {"CHECK_LOOKAROUND"}, look: Nat, reach: Nat, short: BOOLEAN, pass: SUBSET Nat, fail: Nat]
    \cup [op: {"CHECK_MED_LIT"}, lit: Nat, pass: SUBSET Nat, fail: Nat]
    \cup [op: {"CHECK_BOUNDS"}, min: Nat, max: Nat, fail: Nat]
    \cup [op: {"CHECK_LIT_EARLY"}, min: Nat, fail: Nat]
    \cup [op: {"CHECK_NOT_HANDLED", "CHECK_STATE"}, key: Nat, fail: Nat]
    \cup [op: {"CHECK_PREFIX", "CHECK_INFIX"}, queue: Nat, lag: Nat, fail: Nat]
    \cup [op: {"REPORT", "FINAL_REPORT"}, id: Nat, adj: Int]
    \cup [op: {"DEDUPE_AND_REPORT"}, dkey: Nat, id: Nat, adj: Int, fail: Nat]
    \cup [op: {"INCLUDED_JUMP"}, squash: SUBSET Nat, child: Nat]
    \cup [op: {"PUSH_DELAYED"}, delay: Nat, index: Nat]
    \cup [op: {"TRIGGER_SUFFIX"}, queue: Nat, event: Nat]
    \cup [op: {"TRIGGER_INFIX"}, queue: Nat, cancel: BOOLEAN]
    \cup [op: {"SET_STATE"}, key: Nat]

(***************************************************************************)
(* What the scan reads of a RoseEngine: the program cells, the literals in *)
(* the order in which the confirm step reports them at one position, and   *)
(* whether a flood may report them, the table of delay programs, the       *)
(* initial groups, and the queues whose engine nfa_by_queue finds.         *)
(***************************************************************************)
Database == [code: Seq(Instruction), lits: Seq([prog: Nat, bucket: Nat, flood: BOOLEAN]),
             delayed: Seq(Nat), groups: SUBSET Nat, queues: SUBSET Nat]

InterpErrors == {"ProgramOverrun", "UnsupportedOpcode", "Rose", "Nfa"}
ScanCtl == {"Continue", "Terminate"}

ASSUME LitAssumption ==
    /\ \A d \in Databases : d \in Database
    /\ BufLens \subseteq Nat \ {0}
    /\ Replies \subseteq ScanCtl
    /\ U64 \in Nat \ {0}

VARIABLES
    db,        \* the loaded database, chosen by Init
    buflen,    \* the length of the buffer, chosen by Init
    groups,    \* DelayScan.groups
    dedupe,    \* DelayScan.dedupe
    vm,        \* the run of run_program in progress, or the last one
    out        \* history: every call of the match callback, with its answer

progVars == <<groups, dedupe, vm, out>>

NoDkey == -1     \* dkey of a report that is not deduplicated

EmptyDedupe == [seen |-> {}, handled |-> {}, roles |-> {}, suffix |-> {}, infix |-> {}]

IdleVm == [status |-> "idle", pc |-> 0, steps |-> 0, end |-> 0, index |-> 0,
           confirm |-> FALSE, work |-> FALSE, squash |-> {}, delayed |-> {}]

-----------------------------------------------------------------------------
(***************************************************************************)
(* The start of a run: by_offset refuses an offset past the bytecode.      *)
(* index is the delay index that is replayed (history; 0 in a confirm).    *)
(***************************************************************************)
StartVm(prog, end, confirm, index) ==
    [IdleVm EXCEPT !.status  = IF prog <= Len(db.code) THEN "running" ELSE "Rose",
                   !.pc      = prog,
                   !.end     = end,
                   !.confirm = confirm,
                   !.index   = index]

Instr == db.code[vm.pc + 1]

MaxStepsTooFew == Len(db.code) \div 2           \* mutant: counted in wider units
\* One step for every place in the bytecode, and MIN_ALIGN more: the code
\* counts the bytes of the bytecode, of which an instruction takes MIN_ALIGN.
MaxSteps == Len(db.code) + 1

OverrunUnbudgeted == vm.pc >= Len(db.code)      \* mutant: no instruction budget
Overrun == vm.steps >= MaxSteps \/ vm.pc >= Len(db.code)

Fetch(op) == vm.status = "running" /\ ~Overrun /\ Instr.op = op

Tick(n) == IF n < MaxSteps THEN n + 1 ELSE n

Goto(v, pc) == [v EXCEPT !.pc = pc, !.steps = Tick(@)]

Next1(v) == Goto(v, v.pc + 1)

Branch(ok) == IF ok THEN Next1(vm) ELSE Goto(vm, vm.pc + Instr.fail)

Halt(v, status) == [v EXCEPT !.status = status]

ToUnwrapped == vm.end + Instr.adj               \* mutant: no conversion to u64
\* (end as i64 + off_adj as i64) as u64
To == (vm.end + Instr.adj) % U64

\* What the callback sees, and (history) in which run it is called.
Match(dkey, reply) ==
    [id |-> Instr.id, to |-> To, dkey |-> dkey, reply |-> reply,
     end |-> vm.end, confirm |-> vm.confirm, index |-> vm.index]

Worked == [vm EXCEPT !.work = TRUE]

AfterReport(v, reply) ==
    IF reply = "Terminate" THEN Halt(v, "Terminate") ELSE Next1(v)

-----------------------------------------------------------------------------
(***************************************************************************)
(* The opcodes.                                                            *)
(***************************************************************************)
OutOfProgram ==
    /\ vm.status = "running" /\ Overrun
    /\ vm' = Halt(vm, "ProgramOverrun")
    /\ UNCHANGED <<groups, dedupe, out>>

End ==
    /\ Fetch("END")
    /\ vm' = Halt(vm, "Continue")
    /\ UNCHANGED <<groups, dedupe, out>>

UnknownOpcode ==
    /\ Fetch("OTHER")
    /\ vm' = Halt(vm, "UnsupportedOpcode")
    /\ UNCHANGED <<groups, dedupe, out>>

CatchUp ==
    /\ Fetch("CATCH_UP")
    /\ vm' = Next1(vm)
    /\ UNCHANGED <<groups, dedupe, out>>

CheckGroups ==
    /\ Fetch("CHECK_GROUPS")
    /\ vm' = IF Instr.mask \cap groups = {} THEN Halt(vm, "Continue") ELSE Next1(vm)
    /\ UNCHANGED <<groups, dedupe, out>>

Check(op) ==
    /\ Fetch(op)
    /\ vm' = Branch(vm.end \in Instr.pass)
    /\ UNCHANGED <<groups, dedupe, out>>

CheckByte == Check("CHECK_BYTE")
CheckMask == Check("CHECK_MASK")
CheckMask32 == Check("CHECK_MASK_32")

CheckMedLit ==
    /\ Fetch("CHECK_MED_LIT")
    /\ vm' = IF Instr.lit > Len(db.code) THEN Halt(vm, "Rose")
                                         ELSE Branch(vm.end \in Instr.pass)
    /\ UNCHANGED <<groups, dedupe, out>>

CheckSingleLookaround ==
    /\ Fetch("CHECK_SINGLE_LOOKAROUND")
    /\ vm' = IF Instr.reach > Len(db.code) THEN Halt(vm, "Rose")
                                           ELSE Branch(vm.end \in Instr.pass)
    /\ UNCHANGED <<groups, dedupe, out>>

CheckLookaround ==
    /\ Fetch("CHECK_LOOKAROUND")
    /\ vm' = IF Instr.look > Len(db.code) \/ Instr.reach > Len(db.code) THEN Halt(vm, "Rose")
             ELSE IF Instr.short THEN Halt(vm, "ProgramOverrun")
             ELSE Branch(vm.end \in Instr.pass)
    /\ UNCHANGED <<groups, dedupe, out>>

CheckBounds ==
    /\ Fetch("CHECK_BOUNDS")
    /\ vm' = Branch(Instr.min <= vm.end /\ vm.end <= Instr.max)
    /\ UNCHANGED <<groups, dedupe, out>>

CheckLitEarly ==
    /\ Fetch("CHECK_LIT_EARLY")
    /\ vm' = Branch(Instr.min <= vm.end)
    /\ UNCHANGED <<groups, dedupe, out>>

CheckNotHandledNoSet ==                        \* mutant: tests without setting
    /\ Fetch("CHECK_NOT_HANDLED")
    /\ vm' = Branch(Instr.key \notin dedupe.handled)
    /\ UNCHANGED <<groups, dedupe, out>>
\* Test-and-set: the key is handled from the first visit on.
CheckNotHandled ==
    /\ Fetch("CHECK_NOT_HANDLED")
    /\ vm' = Branch(Instr.key \notin dedupe.handled)
    /\ dedupe' = [dedupe EXCEPT !.handled = @ \cup {Instr.key}]
    /\ UNCHANGED <<groups, out>>

CheckStateOfHandled ==                         \* mutant: looks into the wrong set
    /\ Fetch("CHECK_STATE")
    /\ vm' = Branch(Instr.key \in dedupe.handled)
    /\ UNCHANGED <<groups, dedupe, out>>
CheckState ==
    /\ Fetch("CHECK_STATE")
    /\ vm' = Branch(Instr.key \in dedupe.roles)
    /\ UNCHANGED <<groups, dedupe, out>>

\* nfa_by_queue may miss the engine, and Nfa::from_bytes refuses every one.
NfaError == IF Instr.queue \in db.queues THEN "Nfa" ELSE "Rose"

\* A prefix check that asks for its engine fails the program.
CheckPrefix ==
    /\ Fetch("CHECK_PREFIX")
    /\ vm' = IF vm.end < Instr.lag THEN Branch(FALSE)
             ELSE IF vm.end - Instr.lag > buflen THEN Halt(vm, "ProgramOverrun")
             ELSE Halt(vm, NfaError)
    /\ UNCHANGED <<groups, dedupe, out>>

\* An infix check asks the engine only when its queue has a trigger.
CheckInfix ==
    /\ Fetch("CHECK_INFIX")
    /\ vm' = IF /\ Instr.lag <= vm.end /\ vm.end - Instr.lag <= buflen
                /\ \E t \in dedupe.infix : t[1] = Instr.queue
             THEN Halt(vm, NfaError)
             ELSE Branch(FALSE)
    /\ UNCHANGED <<groups, dedupe, out>>

Report ==
    /\ Fetch("REPORT")
    /\ \E reply \in Replies :
          /\ out' = Append(out, Match(NoDkey, reply))
          /\ vm' = AfterReport(Worked, reply)
    /\ UNCHANGED <<groups, dedupe>>

\* One-shot: the program ends whatever the callback answers.
FinalReport ==
    /\ Fetch("FINAL_REPORT")
    /\ \E reply \in Replies :
          /\ out' = Append(out, Match(NoDkey, reply))
          /\ vm' = Halt(vm, reply)
    /\ UNCHANGED <<groups, dedupe>>

FreshPerEnd == <<Instr.dkey, vm.end>> \notin dedupe.seen   \* mutant: before the adjustment
Fresh == <<Instr.dkey, To>> \notin dedupe.seen

DedupeAndReport ==
    /\ Fetch("DEDUPE_AND_REPORT")
    /\ Fresh
    /\ dedupe' = [dedupe EXCEPT !.seen = @ \cup {<<Instr.dkey, To>>}]
    /\ \E reply \in Replies :
          /\ out' = Append(out, Match(Instr.dkey, reply))
          /\ vm' = AfterReport(Worked, reply)
    /\ UNCHANGED groups

DedupeSkip ==
    /\ Fetch("DEDUPE_AND_REPORT")
    /\ ~Fresh
    /\ vm' = Goto(Worked, vm.pc + Instr.fail)
    /\ UNCHANGED <<groups, dedupe, out>>

IncludedJumpNoSquash ==                        \* mutant: the jump without the squash
    /\ Fetch("INCLUDED_JUMP")
    /\ vm' = IF vm.confirm THEN Goto(vm, Instr.child) ELSE Next1(vm)
    /\ UNCHANGED <<groups, dedupe, out>>
IncludedJumpNoJump ==                          \* mutant: the squash without the jump
    /\ Fetch("INCLUDED_JUMP")
    /\ vm' = Next1(IF vm.confirm THEN [vm EXCEPT !.squash = @ \cup Instr.squash] ELSE vm)
    /\ UNCHANGED <<groups, dedupe, out>>
\* In a confirm the included literal's program takes over and its bucket is
\* squashed; a replay falls through.
IncludedJump ==
    /\ Fetch("INCLUDED_JUMP")
    /\ LET squashed == [vm EXCEPT !.squash = @ \cup Instr.squash]
       IN  vm' = IF ~vm.confirm THEN Next1(vm)
                 ELSE IF Instr.child > Len(db.code) THEN Halt(squashed, "Rose")
                 ELSE Goto(squashed, Instr.child)
    /\ UNCHANGED <<groups, dedupe, out>>

PushDelayed ==
    /\ Fetch("PUSH_DELAYED")
    /\ vm' = Next1([vm EXCEPT !.delayed = @ \cup {<<Instr.delay, Instr.index>>}])
    /\ UNCHANGED <<groups, dedupe, out>>

TriggerSuffix ==
    /\ Fetch("TRIGGER_SUFFIX")
    /\ dedupe' = [dedupe EXCEPT !.suffix = @ \cup {<<Instr.queue, Instr.event, vm.end>>}]
    /\ vm' = Next1(Worked)
    /\ UNCHANGED <<groups, out>>

\* A cancelling trigger forgets the earlier triggers of its queue.
TriggerInfix ==
    /\ Fetch("TRIGGER_INFIX")
    /\ LET kept == IF Instr.cancel THEN {t \in dedupe.infix : t[1] # Instr.queue}
                                   ELSE dedupe.infix
       IN  dedupe' = [dedupe EXCEPT !.infix = kept \cup {<<Instr.queue, vm.end>>}]
    /\ vm' = Next1(Worked)
    /\ UNCHANGED <<groups, out>>

SetState ==
    /\ Fetch("SET_STATE")
    /\ dedupe' = [dedupe EXCEPT !.roles = @ \cup {Instr.key}]
    /\ vm' = Next1(Worked)
    /\ UNCHANGED <<groups, out>>

SetGroups ==
    /\ Fetch("SET_GROUPS")
    /\ groups' = groups \cup Instr.mask
    /\ vm' = Next1(vm)
    /\ UNCHANGED <<dedupe, out>>

\* A program that did no work leaves the groups alone.
SquashedAlways == groups \cap Instr.mask       \* mutant: without the work_done test
Squashed == IF vm.work THEN groups \cap Instr.mask ELSE groups

SquashGroups ==
    /\ Fetch("SQUASH_GROUPS")
    /\ groups' = Squashed
    /\ vm' = Next1(vm)
    /\ UNCHANGED <<dedupe, out>>

RunProgram ==
    \/ OutOfProgram \/ End \/ UnknownOpcode \/ CatchUp
    \/ CheckGroups \/ CheckByte \/ CheckMask \/ CheckMask32
    \/ CheckSingleLookaround \/ CheckLookaround \/ CheckMedLit \/ CheckBounds \/ CheckLitEarly
    \/ CheckNotHandled \/ CheckState \/ CheckPrefix \/ CheckInfix
    \/ Report \/ FinalReport \/ DedupeAndReport \/ DedupeSkip
    \/ IncludedJump \/ PushDelayed \/ TriggerSuffix \/ TriggerInfix
    \/ SetState \/ SetGroups \/ SquashGroups
=============================================================================
