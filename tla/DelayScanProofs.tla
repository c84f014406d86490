-------------------------- MODULE DelayScanProofs ---------------------------
(***************************************************************************)
(* Theorems about DelayScan, for all databases, buffers and answers of the *)
(* callback.                                                               *)
(***************************************************************************)
EXTENDS DelayScan, TLAPS

\* The opcodes that jump when they fail.
FailOps == {"CHECK_BYTE", "CHECK_MASK", "CHECK_MASK_32", "CHECK_SINGLE_LOOKAROUND",
            "CHECK_LOOKAROUND", "CHECK_MED_LIT", "CHECK_BOUNDS", "CHECK_LIT_EARLY",
            "CHECK_NOT_HANDLED", "CHECK_STATE", "CHECK_PREFIX", "CHECK_INFIX",
            "DEDUPE_AND_REPORT"}

LEMMA InstrType ==
    ASSUME NEW i \in Instruction
    PROVE  /\ i.op \in {"CHECK_GROUPS", "SET_GROUPS", "SQUASH_GROUPS"} => i.mask \in SUBSET Nat
           /\ i.op \in FailOps => i.fail \in Nat
           /\ i.op \in {"REPORT", "FINAL_REPORT", "DEDUPE_AND_REPORT"} =>
                  i.id \in Nat /\ i.adj \in Int
           /\ i.op = "DEDUPE_AND_REPORT" => i.dkey \in Nat
           /\ i.op \in {"CHECK_NOT_HANDLED", "CHECK_STATE", "SET_STATE"} => i.key \in Nat
           /\ i.op = "INCLUDED_JUMP" => i.squash \in SUBSET Nat /\ i.child \in Nat
           /\ i.op = "PUSH_DELAYED" => i.delay \in Nat /\ i.index \in Nat
           /\ i.op = "TRIGGER_SUFFIX" => i.queue \in Nat /\ i.event \in Nat
           /\ i.op = "TRIGGER_INFIX" => i.queue \in Nat
<1>1. i.op \in {"CHECK_GROUPS", "SET_GROUPS", "SQUASH_GROUPS"} => i.mask \in SUBSET Nat
  BY DEF Instruction
<1>2. i.op \in FailOps => i.fail \in Nat
  BY DEF Instruction, FailOps
<1>3. i.op \in {"REPORT", "FINAL_REPORT", "DEDUPE_AND_REPORT"} => i.id \in Nat /\ i.adj \in Int
  BY DEF Instruction
<1>4. /\ i.op = "DEDUPE_AND_REPORT" => i.dkey \in Nat
      /\ i.op \in {"CHECK_NOT_HANDLED", "CHECK_STATE", "SET_STATE"} => i.key \in Nat
  BY DEF Instruction
<1>5. /\ i.op = "INCLUDED_JUMP" => i.squash \in SUBSET Nat /\ i.child \in Nat
      /\ i.op = "PUSH_DELAYED" => i.delay \in Nat /\ i.index \in Nat
  BY DEF Instruction
<1>6. /\ i.op = "TRIGGER_SUFFIX" => i.queue \in Nat /\ i.event \in Nat
      /\ i.op = "TRIGGER_INFIX" => i.queue \in Nat
  BY DEF Instruction
<1> QED BY <1>1, <1>2, <1>3, <1>4, <1>5, <1>6

LEMMA InstrFetched ==
    ASSUME TypeOK, NEW op, Fetch(op)
    PROVE  Instr \in Instruction /\ Instr.op = op
<1>1. db \in Database
  BY LitAssumption DEF TypeOK
<1>2. db.code \in Seq(Instruction)
  BY <1>1 DEF Database
<1>3. vm.pc + 1 \in 1..Len(db.code)
  BY <1>2 DEF TypeOK, VmState, Fetch, Overrun
<1> QED BY <1>2, <1>3 DEF Fetch, Instr

LEMMA DbType ==
    ASSUME TypeOK
    PROVE  /\ Len(db.code) \in Nat /\ Len(db.lits) \in Nat
           /\ db.code \in Seq(Instruction)
           /\ DOMAIN db.lits \subseteq Nat \ {0}
           /\ \A l \in DOMAIN db.lits : db.lits[l].prog \in Nat
           /\ DOMAIN db.delayed \subseteq Nat
           /\ \A i \in DOMAIN db.delayed : db.delayed[i] \in Nat
           /\ db.groups \in SUBSET Nat
           /\ buflen \in Nat
<1>1. db \in Database
  BY LitAssumption DEF TypeOK
<1>2. /\ db.code \in Seq(Instruction) /\ db.delayed \in Seq(Nat)
      /\ db.lits \in Seq([prog: Nat, bucket: Nat, flood: BOOLEAN]) /\ db.groups \in SUBSET Nat
  BY <1>1 DEF Database
<1>3. buflen \in Nat
  BY LitAssumption DEF TypeOK
<1>4. ASSUME NEW l \in DOMAIN db.lits PROVE db.lits[l].prog \in Nat
  <2> DEFINE L == [prog: Nat, bucket: Nat, flood: BOOLEAN]
  <2>0. db.lits \in Seq(L)
    BY <1>2
  <2>1. db.lits[l] \in L
    <3> HIDE DEF L
    <3> QED BY <2>0, <1>4
  <2> QED BY <2>1
<1>5. DOMAIN db.delayed \subseteq Nat /\ \A i \in DOMAIN db.delayed : db.delayed[i] \in Nat
  BY <1>2
<1> QED BY <1>2, <1>3, <1>4, <1>5

LEMMA GotoType ==
    ASSUME NEW v \in VmState, NEW pc \in Nat, Len(db.code) \in Nat
    PROVE  /\ Goto(v, pc) \in VmState
           /\ Next1(v) \in VmState
<1>1. ASSUME NEW p \in Nat PROVE Goto(v, p) \in VmState
  <2>1. Tick(v.steps) \in Nat
    BY DEF VmState, Tick, MaxSteps
  <2> QED BY <2>1, <1>1 DEF VmState, Goto
<1>2. v.pc + 1 \in Nat
  BY DEF VmState
<1> QED BY <1>1, <1>2 DEF Next1

LEMMA StartVmType ==
    ASSUME NEW prog \in Nat, NEW end \in Nat, NEW confirm \in BOOLEAN, NEW index \in Nat
    PROVE  StartVm(prog, end, confirm, index) \in VmState
BY DEF VmState, StartVm, IdleVm, InterpErrors

LEMMA HaltType ==
    ASSUME NEW v \in VmState, NEW status \in ScanCtl \cup InterpErrors
    PROVE  Halt(v, status) \in VmState
BY DEF VmState, Halt

LEMMA WorkedType ==
    ASSUME vm \in VmState
    PROVE  Worked \in VmState
BY DEF VmState, Worked

\* The part of TypeOK that a step of the interpreter changes.
ProgTypeOK == groups \in SUBSET Nat /\ dedupe \in DedupeState /\ vm \in VmState
              /\ out \in Seq(OutEntry)

LEMMA InterpretType ==
    ASSUME TypeOK, RunProgram
    PROVE  ProgTypeOK'
<1> DEFINE n == Len(db.code)
<1>db. n \in Nat
  BY DbType
<1>ty. groups \in SUBSET Nat /\ dedupe \in DedupeState /\ vm \in VmState /\ out \in Seq(OutEntry)
  BY DEF TypeOK
<1>vm. vm.pc \in Nat /\ vm.end \in Nat /\ vm.index \in Nat /\ vm.confirm \in BOOLEAN
       /\ vm.squash \in SUBSET Nat /\ vm.delayed \in SUBSET (Nat \X Nat)
  BY <1>ty DEF VmState
<1>dd. /\ dedupe.seen \in SUBSET (Nat \X (0..U64-1)) /\ dedupe.handled \in SUBSET Nat
       /\ dedupe.roles \in SUBSET Nat /\ dedupe.suffix \in SUBSET (Nat \X Nat \X Nat)
       /\ dedupe.infix \in SUBSET (Nat \X Nat)
  BY <1>ty DEF DedupeState
<1>next. Next1(vm) \in VmState /\ Next1(Worked) \in VmState
  BY <1>db, <1>ty, <1>vm, GotoType, WorkedType
<1>halt. \A status \in ScanCtl \cup InterpErrors :
            Halt(vm, status) \in VmState /\ Halt(Worked, status) \in VmState
  BY <1>ty, HaltType, WorkedType
<1>branch. ASSUME NEW op \in FailOps, Fetch(op)
           PROVE  Goto(vm, vm.pc + Instr.fail) \in VmState
  <2>1. Instr.fail \in Nat
    BY <1>branch, InstrFetched, InstrType
  <2>2. vm.pc + Instr.fail \in Nat
    BY <2>1, <1>vm
  <2> QED BY <2>2, <1>db, <1>ty, GotoType
<1>report. ASSUME NEW op \in {"REPORT", "FINAL_REPORT", "DEDUPE_AND_REPORT"}, Fetch(op),
                  NEW dkey \in Nat \cup {NoDkey}, NEW reply \in Replies
           PROVE  /\ Append(out, Match(dkey, reply)) \in Seq(OutEntry)
                  /\ AfterReport(Worked, reply) \in VmState
                  /\ Halt(vm, reply) \in VmState
                  /\ To \in 0..U64-1
  <2>1. Instr.id \in Nat /\ Instr.adj \in Int
    BY <1>report, InstrFetched, InstrType
  <2>2. To \in 0..U64-1
    BY <2>1, <1>vm, LitAssumption DEF To
  <2>3. reply \in ScanCtl
    BY <1>report, LitAssumption
  <2>4. Match(dkey, reply) \in OutEntry
    BY <2>1, <2>2, <2>3, <1>vm DEF Match, OutEntry
  <2>5. AfterReport(Worked, reply) \in VmState
    BY <1>next, <1>halt, <2>3 DEF AfterReport, ScanCtl
  <2> QED BY <2>2, <2>3, <2>4, <2>5, <1>halt, <1>ty
<1>1. CASE \/ OutOfProgram \/ End \/ UnknownOpcode \/ CatchUp \/ CheckGroups
  BY <1>1, <1>ty, <1>halt, <1>next DEF ProgTypeOK, OutOfProgram, End, UnknownOpcode, CatchUp,
     CheckGroups, ScanCtl, InterpErrors
<1>2. CASE CheckByte \/ CheckMask \/ CheckMask32
  BY <1>2, <1>ty, <1>branch, <1>next
  DEF ProgTypeOK, CheckByte, CheckMask, CheckMask32, Check, Branch, FailOps
<1>3. CASE CheckMedLit \/ CheckSingleLookaround \/ CheckLookaround
  BY <1>3, <1>ty, <1>branch, <1>next, <1>halt
  DEF ProgTypeOK, CheckMedLit, CheckSingleLookaround, CheckLookaround, InterpErrors,
      Branch, FailOps
<1>4. CASE CheckBounds \/ CheckLitEarly \/ CheckState
  BY <1>4, <1>ty, <1>branch, <1>next
  DEF ProgTypeOK, CheckBounds, CheckLitEarly, CheckState, Branch, FailOps
<1>5. CASE CheckNotHandled
  <2>1. Instr.key \in Nat
    BY <1>5, InstrFetched, InstrType DEF CheckNotHandled
  <2>2. dedupe' \in DedupeState
    BY <2>1, <1>5, <1>ty DEF CheckNotHandled, DedupeState
  <2> QED BY <2>2, <1>5, <1>ty, <1>branch, <1>next
  DEF ProgTypeOK, CheckNotHandled, Branch, FailOps
<1>6. CASE CheckPrefix \/ CheckInfix
  BY <1>6, <1>ty, <1>branch, <1>next, <1>halt
  DEF ProgTypeOK, CheckPrefix, CheckInfix, NfaError, InterpErrors, Branch, FailOps
<1>7. CASE Report
  BY <1>7, <1>ty, <1>report DEF ProgTypeOK, Report
<1>8. CASE FinalReport
  BY <1>8, <1>ty, <1>report DEF ProgTypeOK, FinalReport
<1>9. CASE DedupeAndReport
  <2>1. Instr.dkey \in Nat
    BY <1>9, InstrFetched, InstrType DEF DedupeAndReport
  <2>2. To \in 0..U64-1
    BY <1>9, <2>1, <1>report DEF DedupeAndReport
  <2>a. dedupe.seen \cup {<<Instr.dkey, To>>} \in SUBSET (Nat \X (0..U64-1))
    BY <2>1, <2>2, <1>dd
  <2>3. dedupe' \in DedupeState
    BY <2>a, <1>9, <1>ty DEF DedupeAndReport, DedupeState
  <2> QED BY <2>1, <2>3, <1>9, <1>ty, <1>report DEF ProgTypeOK, DedupeAndReport
<1>10. CASE DedupeSkip
  <2>1. vm.pc + Instr.fail \in Nat
    BY <1>10, <1>vm, InstrFetched, InstrType DEF DedupeSkip, FailOps
  <2> QED BY <2>1, <1>10, <1>ty, <1>db, GotoType, WorkedType DEF ProgTypeOK, DedupeSkip
<1>11. CASE IncludedJump
  <2> DEFINE squashed == [vm EXCEPT !.squash = @ \cup Instr.squash]
  <2>1. Instr.squash \in SUBSET Nat /\ Instr.child \in Nat
    BY <1>11, InstrFetched, InstrType DEF IncludedJump
  <2>2. squashed \in VmState
    BY <2>1, <1>ty DEF VmState
  <2>3. Goto(squashed, Instr.child) \in VmState /\ Halt(squashed, "Rose") \in VmState
    BY <2>1, <2>2, <1>db, GotoType, HaltType DEF InterpErrors
  <2> QED BY <2>3, <1>11, <1>ty, <1>next DEF ProgTypeOK, IncludedJump
<1>12. CASE PushDelayed
  <2> DEFINE pushed == [vm EXCEPT !.delayed = @ \cup {<<Instr.delay, Instr.index>>}]
  <2>1. Instr.delay \in Nat /\ Instr.index \in Nat
    BY <1>12, InstrFetched, InstrType DEF PushDelayed
  <2>a. vm.delayed \cup {<<Instr.delay, Instr.index>>} \in SUBSET (Nat \X Nat)
    BY <2>1, <1>vm
  <2>2. pushed \in VmState
    BY <2>a, <1>ty DEF VmState
  <2>3. pushed.pc = vm.pc
    BY <1>ty DEF VmState
  <2>4. Next1(pushed) \in VmState
    BY <2>2, <2>3, <1>vm, <1>db, GotoType
  <2> QED BY <2>4, <1>12, <1>ty DEF ProgTypeOK, PushDelayed
<1>13. CASE TriggerSuffix
  <2>1. Instr.queue \in Nat /\ Instr.event \in Nat
    BY <1>13, InstrFetched, InstrType DEF TriggerSuffix
  <2>a. <<Instr.queue, Instr.event, vm.end>> \in Nat \X Nat \X Nat
    BY <2>1, <1>vm
  <2>b. dedupe.suffix \cup {<<Instr.queue, Instr.event, vm.end>>} \in SUBSET (Nat \X Nat \X Nat)
    BY <2>a, <1>dd
  <2>2. dedupe' \in DedupeState
    BY <2>b, <1>13, <1>ty DEF TriggerSuffix, DedupeState
  <2> QED BY <2>2, <1>13, <1>ty, <1>next DEF ProgTypeOK, TriggerSuffix
<1>14. CASE TriggerInfix
  <2>1. Instr.queue \in Nat
    BY <1>14, InstrFetched, InstrType DEF TriggerInfix
  <2> DEFINE kept == IF Instr.cancel THEN {t \in dedupe.infix : t[1] # Instr.queue}
                                     ELSE dedupe.infix
             all  == kept \cup {<<Instr.queue, vm.end>>}
  <2>a. kept \in SUBSET (Nat \X Nat)
    BY <1>dd
  <2>b. <<Instr.queue, vm.end>> \in Nat \X Nat
    BY <2>1, <1>vm
  <2>c. all \in SUBSET (Nat \X Nat)
    BY <2>a, <2>b
  <2>d. dedupe' = [dedupe EXCEPT !.infix = all]
    BY <1>14 DEF TriggerInfix
  <2> HIDE DEF all
  <2>2. dedupe' \in DedupeState
    BY <2>c, <2>d, <1>ty DEF DedupeState
  <2> QED BY <2>2, <1>14, <1>ty, <1>next DEF ProgTypeOK, TriggerInfix
<1>15. CASE SetState
  <2>1. Instr.key \in Nat
    BY <1>15, InstrFetched, InstrType DEF SetState
  <2>2. dedupe' \in DedupeState
    BY <2>1, <1>15, <1>ty DEF SetState, DedupeState
  <2> QED BY <2>2, <1>15, <1>ty, <1>next DEF ProgTypeOK, SetState
<1>16. CASE SetGroups \/ SquashGroups
  <2>1. Instr.mask \in SUBSET Nat
    BY <1>16, InstrFetched, InstrType DEF SetGroups, SquashGroups
  <2> QED BY <2>1, <1>16, <1>ty, <1>next DEF ProgTypeOK, SetGroups, SquashGroups, Squashed
<1> QED BY <1>1, <1>2, <1>3, <1>4, <1>5, <1>6, <1>7, <1>8, <1>9, <1>10, <1>11, <1>12,
           <1>13, <1>14, <1>15, <1>16 DEF RunProgram

LEMMA InitType == Init => TypeOK
<1> SUFFICES ASSUME Init PROVE TypeOK
  OBVIOUS
<1>1. db \in Database
  BY LitAssumption DEF Init
<1>2. groups \in SUBSET Nat
  BY <1>1 DEF Init, Database
<1>3. dedupe \in DedupeState /\ vm \in VmState
  BY DEF Init, EmptyDedupe, DedupeState, IdleVm, VmState
<1>4. flush \in [limit: Nat, final: BOOLEAN, offset: Nat, todo: SUBSET Nat]
  BY DEF Init
<1> QED BY <1>2, <1>3, <1>4 DEF Init, TypeOK, ControlPoints, EngineState

LEMMA PushedType ==
    ASSUME TypeOK
    PROVE  Pushed \in SUBSET (Nat \X Nat) /\ WithPushed \in SUBSET (Nat \X Nat)
<1>1. vm.end \in Nat /\ vm.delayed \in SUBSET (Nat \X Nat)
  BY DEF TypeOK, VmState
<1>2. ASSUME NEW p \in vm.delayed PROVE <<vm.end + p[1], p[2]>> \in Nat \X Nat
  <2>1. p[1] \in Nat /\ p[2] \in Nat
    BY <1>1, <1>2
  <2> QED BY <2>1, <1>1
<1>3. Pushed \in SUBSET (Nat \X Nat)
  BY <1>2 DEF Pushed
<1> QED BY <1>3 DEF WithPushed, TypeOK

LEMMA StopScanType ==
    ASSUME TypeOK, StopScan
    PROVE  /\ at' \in ControlPoints
           /\ engine' \in EngineState
           /\ flush' \in [limit: Nat, final: BOOLEAN, offset: Nat, todo: SUBSET Nat]
BY DEF TypeOK, StopScan, ControlPoints, EngineState

\* The engine behind a hit.
LEMMA HitType ==
    ASSUME engine \in EngineState, NEW end \in Nat, NEW lit \in Nat \ {0}, NEW flood \in BOOLEAN
    PROVE  LET hit == EngineHit(end, lit, flood) IN
           /\ hit \in EngineState
           /\ hit.end = end /\ hit.lit = lit /\ hit.stopped = engine.stopped
           /\ lit \in hit.used
           /\ end = engine.end => engine.used \subseteq hit.used
           /\ hit.squashed = IF end = engine.end THEN engine.squashed ELSE {}
<1> DEFINE used == (IF end = engine.end THEN engine.used ELSE {}) \cup (IF flood THEN {lit} ELSE 1..lit)
           squashed == IF end = engine.end THEN engine.squashed ELSE {}
<1>1. used \in SUBSET Nat /\ squashed \in SUBSET Nat
  BY DEF EngineState
<1>2. lit \in used
  OBVIOUS
<1>3. EngineHit(end, lit, flood) =
        [engine EXCEPT !.end = end, !.lit = lit, !.flood = flood, !.used = used, !.squashed = squashed]
  BY DEF EngineHit, EngineState
<1>4. end = engine.end => engine.used \subseteq used
  OBVIOUS
<1> HIDE DEF used
<1> QED BY <1>1, <1>2, <1>3, <1>4 DEF EngineState

LEMMA HitFields ==
    ASSUME TypeOK, OnHit
    PROVE  /\ engine' \in EngineState /\ engine.end <= engine'.end /\ engine'.end <= buflen
           /\ engine'.lit \in DOMAIN db.lits /\ engine'.stopped = engine.stopped
           /\ flush' = [limit |-> engine'.end, final |-> FALSE, offset |-> 0, todo |-> {}]
           /\ UNCHANGED <<db, vm, out, slots, dle, err, buflen>>
           /\ at = "engine" /\ at' = "flush"
<1>1. PICK end \in engine.end..buflen, lit \in DOMAIN db.lits, flood \in BOOLEAN :
         /\ engine' = EngineHit(end, lit, flood)
         /\ flush' = [limit |-> end, final |-> FALSE, offset |-> 0, todo |-> {}]
  BY DEF OnHit
<1>2. engine \in EngineState /\ end \in Nat /\ lit \in Nat \ {0} /\ buflen \in Nat
  BY <1>1, DbType DEF TypeOK, EngineState
<1>3. /\ engine' \in EngineState /\ engine'.end = end /\ engine'.lit = lit
      /\ engine'.stopped = engine.stopped
  BY <1>1, <1>2, HitType
<1>4. engine.end <= engine'.end /\ engine'.end <= buflen
  BY <1>1, <1>2, <1>3 DEF EngineState
<1> QED BY <1>1, <1>3, <1>4 DEF OnHit, progVars

\* on_hit was called for a literal and has not returned.
InHit == ~flush.final /\ at \in {"flush", "replay", "direct", "delayed"}
HitHasLiteral == InHit => engine.lit \in DOMAIN db.lits

LEMMA NextHit == TypeOK /\ HitHasLiteral /\ [Next]_vars => HitHasLiteral'
<1> SUFFICES ASSUME TypeOK, HitHasLiteral, [Next]_vars PROVE HitHasLiteral'
  OBVIOUS
<1> USE DEF HitHasLiteral, InHit, TypeOK
<1>1. CASE OnHit
  BY <1>1, HitFields
<1>2. CASE EngineDone
  BY <1>2 DEF EngineDone
<1>2c. CASE SlotDone \/ FlushDone
  BY <1>2c DEF SlotDone, FlushDone
<1>2a. CASE OpenSlot
  BY <1>2a DEF OpenSlot
<1>2b. CASE ReplayNext
  BY <1>2b DEF ReplayNext
<1>3. CASE ReplayBadIndex \/ ReturnContinue \/ ReturnTerminate \/ ReturnErr
  BY <1>3 DEF ReplayBadIndex, ReturnContinue, ReturnTerminate, ReturnErr, StopScan
<1>4. CASE Interpret \/ Finished \/ UNCHANGED vars
  BY <1>4 DEF Interpret, Finished, vars, scanVars
<1> QED BY <1>1, <1>2, <1>2a, <1>2b, <1>2c, <1>3, <1>4 DEF Next

LEMMA NextType == TypeOK /\ HitHasLiteral /\ [Next]_vars => TypeOK'
<1> SUFFICES ASSUME TypeOK, HitHasLiteral, [Next]_vars PROVE TypeOK'
  OBVIOUS
<1> DEFINE FlushType == [limit: Nat, final: BOOLEAN, offset: Nat, todo: SUBSET Nat]
<1>db. /\ db \in Databases /\ buflen \in BufLens /\ buflen \in Nat
       /\ DOMAIN db.lits \subseteq Nat \ {0}
       /\ \A l \in DOMAIN db.lits : db.lits[l].prog \in Nat
       /\ \A i \in DOMAIN db.delayed : db.delayed[i] \in Nat
  BY DbType DEF TypeOK
<1>ty. /\ groups \in SUBSET Nat /\ dedupe \in DedupeState /\ vm \in VmState
       /\ out \in Seq(OutEntry) /\ at \in ControlPoints
       /\ engine \in EngineState /\ flush \in FlushType
       /\ slots \in SUBSET (Nat \X Nat) /\ dle \in Nat
       /\ err \in {"None"} \cup InterpErrors
  BY DEF TypeOK
<1>1. CASE OnHit
  <2>1. PICK end \in engine.end..buflen, lit \in DOMAIN db.lits, flood \in BOOLEAN :
           /\ engine' = EngineHit(end, lit, flood)
           /\ flush' = [limit |-> end, final |-> FALSE, offset |-> 0, todo |-> {}]
    BY <1>1 DEF OnHit
  <2>2. end \in Nat /\ lit \in Nat \ {0}
    BY <1>ty, <1>db DEF EngineState
  <2>b. engine' \in EngineState
    BY <2>1, <2>2, <1>ty, HitType
  <2>c. flush' \in FlushType
    BY <2>1, <2>2
  <2>3. engine' \in EngineState /\ flush' \in FlushType
    BY <2>b, <2>c
  <2> QED BY <2>3, <1>1, <1>db, <1>ty DEF OnHit, TypeOK, progVars, ControlPoints
<1>2. CASE EngineDone
  <2>a. at' \in ControlPoints
    BY <1>2 DEF EngineDone, ControlPoints
  <2>b. \/ flush' = flush
        \/ flush' = [limit |-> buflen, final |-> TRUE, offset |-> 0, todo |-> {}]
    BY <1>2 DEF EngineDone
  <2>1. flush' \in FlushType /\ at' \in ControlPoints
    <3>1. [limit |-> buflen, final |-> TRUE, offset |-> 0, todo |-> {}] \in FlushType
      BY <1>db
    <3> HIDE DEF FlushType
    <3> QED BY <2>a, <2>b, <3>1, <1>ty
  <2> QED BY <2>1, <1>2, <1>ty, <1>db DEF EngineDone, TypeOK, progVars
<1>3. CASE OpenSlot
  <2>1. PICK s \in Due :
           /\ flush' = [flush EXCEPT !.offset = s[1],
                           !.todo = {t[2] : t \in {u \in slots : u[1] = s[1]}}]
           /\ slots' = {t \in slots : t[1] # s[1]}
           /\ dle' = DleAtReplay(s[1])
    BY <1>3 DEF OpenSlot
  <2>2. s[1] \in Nat /\ \A t \in slots : t[2] \in Nat
    BY <1>ty DEF Due
  <2>3. flush' \in FlushType /\ dle' \in Nat /\ slots' \in SUBSET (Nat \X Nat)
    BY <2>1, <2>2, <1>ty DEF DleAtReplay, Larger
  <2> QED BY <2>3, <1>3, <1>ty, <1>db DEF OpenSlot, TypeOK, progVars, ControlPoints
<1>4. CASE ReplayNext
  <2>1. PICK i \in flush.todo :
           /\ i \in DOMAIN db.delayed
           /\ vm' = StartVm(db.delayed[i], flush.offset, FALSE, i)
           /\ flush' = [flush EXCEPT !.todo = @ \ {i}]
    BY <1>4 DEF ReplayNext
  <2>2. i \in Nat /\ flush.offset \in Nat
    BY <1>ty
  <2>3. vm' \in VmState
    BY <2>1, <2>2, <1>db, StartVmType
  <2>4. flush' \in FlushType
    BY <2>1, <1>ty
  <2> QED BY <2>3, <2>4, <1>4, <1>ty, <1>db DEF ReplayNext, TypeOK, ControlPoints
<1>5. CASE ReplayBadIndex
  <2>1. at' \in ControlPoints /\ engine' \in EngineState /\ flush' \in FlushType
    BY <1>5, StopScanType DEF ReplayBadIndex
  <2> QED BY <2>1, <1>5, <1>ty, <1>db DEF ReplayBadIndex, TypeOK, progVars, InterpErrors
<1>6. CASE SlotDone
  BY <1>6, <1>ty, <1>db DEF SlotDone, TypeOK, progVars, ControlPoints
<1>7. CASE FlushDone
  <2>1. dle' \in Nat
    BY <1>7, <1>ty DEF FlushDone, Larger
  <2>2. CASE flush.final
    BY <2>1, <2>2, <1>7, <1>ty, <1>db DEF FlushDone, TypeOK, ControlPoints
  <2>3. CASE ~flush.final
    <3> DEFINE prog == db.lits[engine.lit].prog
    <3>1. prog \in Nat
      BY <2>3, <1>7, <1>db DEF FlushDone, HitHasLiteral, InHit
    <3>a. vm' = StartVm(prog, flush.limit, TRUE, 0)
      BY <2>3, <1>7 DEF FlushDone
    <3>b. flush.limit \in Nat
      BY <1>ty
    <3>2. vm' \in VmState
      <4> HIDE DEF prog
      <4> QED BY <3>1, <3>a, <3>b, StartVmType
    <3> QED BY <2>1, <2>3, <3>2, <1>7, <1>ty, <1>db DEF FlushDone, TypeOK, ControlPoints
  <2> QED BY <2>2, <2>3
<1>8. CASE Interpret
  BY <1>8, <1>ty, <1>db, InterpretType DEF Interpret, TypeOK, ProgTypeOK, scanVars
<1>9. CASE ReturnContinue
  <2>1. vm.squash \in SUBSET Nat
    BY <1>ty DEF VmState
  <2>2. engine' \in EngineState /\ at' \in ControlPoints
    BY <2>1, <1>9, <1>ty DEF ReturnContinue, SquashTaken, ControlPoints, EngineState
  <2> QED BY <2>2, <1>9, <1>ty, <1>db, PushedType DEF ReturnContinue, TypeOK, progVars
<1>10. CASE ReturnTerminate
  <2>1. at' \in ControlPoints /\ engine' \in EngineState /\ flush' \in FlushType
    BY <1>10, StopScanType DEF ReturnTerminate
  <2> QED BY <2>1, <1>10, <1>ty, <1>db, PushedType DEF ReturnTerminate, TypeOK, progVars
<1>11. CASE ReturnErr
  <2>1. at' \in ControlPoints /\ engine' \in EngineState /\ flush' \in FlushType
    BY <1>11, StopScanType DEF ReturnErr
  <2> QED BY <2>1, <1>11, <1>ty, <1>db DEF ReturnErr, TypeOK, progVars
<1>12. CASE Finished \/ UNCHANGED vars
  BY <1>12, <1>ty, <1>db DEF Finished, vars, progVars, scanVars, TypeOK
<1> QED BY <1>1, <1>2, <1>3, <1>4, <1>5, <1>6, <1>7, <1>8, <1>9, <1>10, <1>11, <1>12 DEF Next

\* The variables of a scan keep their types, on every database.
THEOREM TypeCorrect == Spec => []TypeOK
<1>1. Init => TypeOK /\ HitHasLiteral
  BY InitType DEF Init, HitHasLiteral, InHit
<1>2. TypeOK /\ HitHasLiteral /\ [Next]_vars => (TypeOK /\ HitHasLiteral)'
  BY NextType, NextHit
<1> QED BY <1>1, <1>2, PTL DEF Spec

-----------------------------------------------------------------------------
(***************************************************************************)
(* The order of replays and matches.  The run in progress (or the last one)*)
(* is never behind delay_last_end, and what comes next is not before it.   *)
(***************************************************************************)
Running == at \in {"direct", "delayed"}
InFlush == at \in {"flush", "replay", "direct", "delayed"}

\* Every match so far belongs to the last run or to one before it.
OutBeforeVm == \A j \in DOMAIN out : Precedes(out[j], vm)

OrderInv ==
    /\ SlotsAhead
    /\ MatchesInOrder
    /\ OutBeforeVm
    /\ vm.end <= dle
    /\ Running => vm.end = dle
    /\ at \in {"replay", "delayed"} =>
          /\ flush.offset = dle
          /\ \/ vm.end < dle
             \/ vm.end = dle /\ ~vm.confirm /\ \A i \in flush.todo : vm.index < i
    /\ dle <= engine.end \/ flush.final
    /\ InHit => flush.limit = engine.end
    /\ InFlush => dle <= flush.limit
    /\ engine.end <= buflen
    /\ at \in {"engine", "direct"} => ~flush.final

SameRun(a, b) == a.end = b.end /\ a.confirm = b.confirm /\ a.index = b.index

LEMMA SameRunVm ==
    ASSUME NEW v \in VmState
    PROVE  /\ \A pc : SameRun(Goto(v, pc), v)
           /\ SameRun(Next1(v), v)
           /\ \A status : SameRun(Halt(v, status), v)
           /\ \A reply : SameRun(AfterReport(v, reply), v)
<1>1. \A pc : SameRun(Goto(v, pc), v)
  BY DEF SameRun, Goto, VmState
<1>2. SameRun(Next1(v), v)
  BY <1>1 DEF Next1
<1>3. \A status : SameRun(Halt(v, status), v)
  BY DEF SameRun, Halt, VmState
<1> QED BY <1>1, <1>2, <1>3 DEF AfterReport

\* A step of a program stays in its run, and reports one match at most.
LEMMA InterpretRun ==
    ASSUME TypeOK, RunProgram
    PROVE  /\ SameRun(vm', vm)
           /\ \/ out' = out
              \/ \E dkey, reply : out' = Append(out, Match(dkey, reply))
<1>ty. vm \in VmState /\ Worked \in VmState /\ SameRun(Worked, vm)
  BY WorkedType DEF TypeOK, SameRun, Worked, VmState
<1>vm. /\ \A pc : SameRun(Goto(vm, pc), vm) /\ SameRun(Goto(Worked, pc), vm)
       /\ SameRun(Next1(vm), vm) /\ SameRun(Next1(Worked), vm)
       /\ \A status : SameRun(Halt(vm, status), vm)
       /\ \A reply : SameRun(AfterReport(Worked, reply), vm)
  BY <1>ty, SameRunVm DEF SameRun
<1>1. CASE OutOfProgram \/ End \/ UnknownOpcode \/ CatchUp \/ CheckGroups
  BY <1>1, <1>vm DEF OutOfProgram, End, UnknownOpcode, CatchUp, CheckGroups
<1>2. CASE CheckByte \/ CheckMask \/ CheckMask32
  BY <1>2, <1>vm DEF CheckByte, CheckMask, CheckMask32, Check, Branch
<1>3. CASE \/ CheckMedLit \/ CheckSingleLookaround \/ CheckLookaround \/ CheckBounds
           \/ CheckLitEarly \/ CheckState \/ CheckNotHandled
  BY <1>3, <1>vm
  DEF CheckMedLit, CheckSingleLookaround, CheckLookaround, CheckBounds, CheckLitEarly,
      CheckState, CheckNotHandled, Branch
<1>4. CASE CheckPrefix \/ CheckInfix
  BY <1>4, <1>vm DEF CheckPrefix, CheckInfix, NfaError, Branch
<1>5. CASE Report \/ FinalReport \/ DedupeAndReport
  BY <1>5, <1>vm DEF Report, FinalReport, DedupeAndReport
<1>6. CASE DedupeSkip
  BY <1>6, <1>vm DEF DedupeSkip
<1>7. CASE IncludedJump
  <2> DEFINE squashed == [vm EXCEPT !.squash = @ \cup Instr.squash]
  <2>1. Instr.squash \in SUBSET Nat
    BY <1>7, InstrFetched, InstrType DEF IncludedJump
  <2>2. squashed \in VmState /\ SameRun(squashed, vm)
    BY <2>1, <1>ty DEF VmState, SameRun
  <2>3. \A pc : SameRun(Goto(squashed, pc), vm)
    BY <2>2, SameRunVm DEF SameRun
  <2>4. \A status : SameRun(Halt(squashed, status), vm)
    BY <2>2, SameRunVm DEF SameRun
  <2> QED BY <1>7, <1>vm, <2>3, <2>4 DEF IncludedJump
<1>8. CASE PushDelayed
  <2> DEFINE pushed == [vm EXCEPT !.delayed = @ \cup {<<Instr.delay, Instr.index>>}]
  <2>1. Instr.delay \in Nat /\ Instr.index \in Nat
    BY <1>8, InstrFetched, InstrType DEF PushDelayed
  <2>2. vm.delayed \cup {<<Instr.delay, Instr.index>>} \in SUBSET (Nat \X Nat)
    BY <2>1, <1>ty DEF VmState
  <2>3. pushed \in VmState /\ SameRun(pushed, vm)
    BY <2>2, <1>ty DEF VmState, SameRun
  <2>4. SameRun(Next1(pushed), vm)
    BY <2>3, SameRunVm DEF SameRun
  <2> QED BY <1>8, <2>4 DEF PushDelayed
<1>9. CASE TriggerSuffix \/ TriggerInfix \/ SetState \/ SetGroups \/ SquashGroups
  BY <1>9, <1>vm DEF TriggerSuffix, TriggerInfix, SetState, SetGroups, SquashGroups
<1> QED BY <1>1, <1>2, <1>3, <1>4, <1>5, <1>6, <1>7, <1>8, <1>9 DEF RunProgram

\* Starting a run at or after the last one keeps the matches behind it.
LEMMA StartKeepsOrder ==
    ASSUME TypeOK, OrderInv, NEW end \in Nat, NEW confirm \in BOOLEAN, NEW index \in Nat, NEW prog,
           \/ confirm /\ vm.end <= end
           \/ vm.end < end
           \/ vm.end = end /\ ~vm.confirm /\ vm.index < index
    PROVE  \A j \in DOMAIN out : Precedes(out[j], StartVm(prog, end, confirm, index))
<1> DEFINE new == StartVm(prog, end, confirm, index)
<1>1. new.end = end /\ new.confirm = confirm /\ new.index = index
  BY DEF StartVm, IdleVm
<1> HIDE DEF new
<1> SUFFICES ASSUME NEW j \in DOMAIN out PROVE Precedes(out[j], new)
  BY DEF new
<1>2. out[j] \in OutEntry
  BY DEF TypeOK
<1>3. out[j].end \in Nat /\ out[j].index \in Nat /\ out[j].confirm \in BOOLEAN
  BY <1>2 DEF OutEntry
<1>4. vm.end \in Nat /\ vm.index \in Nat
  BY DEF TypeOK, VmState
<1>5. Precedes(out[j], vm)
  BY DEF OrderInv, OutBeforeVm
<1> QED BY <1>1, <1>3, <1>4, <1>5 DEF Precedes

LEMMA OutKeptOrder ==
    ASSUME OrderInv, UNCHANGED out,
           \A j \in DOMAIN out : Precedes(out[j], vm')
    PROVE  MatchesInOrder' /\ OutBeforeVm'
BY DEF OrderInv, MatchesInOrder, OutBeforeVm, Precedes

LEMMA InitOrder == Init => OrderInv
<1> SUFFICES ASSUME Init PROVE OrderInv
  OBVIOUS
<1>1. buflen \in Nat \ {0}
  BY LitAssumption DEF Init
<1> QED BY <1>1 DEF Init, OrderInv, SlotsAhead, MatchesInOrder, OutBeforeVm, IdleVm, Running,
           InHit, InFlush

LEMMA NextOrder == TypeOK /\ OrderInv /\ [Next]_vars => OrderInv'
<1> SUFFICES ASSUME TypeOK, OrderInv, [Next]_vars PROVE OrderInv'
  OBVIOUS
<1> USE DEF Running, InHit, InFlush
<1>ty. /\ vm \in VmState /\ vm.end \in Nat /\ dle \in Nat /\ buflen \in Nat
       /\ engine \in EngineState
       /\ flush \in [limit: Nat, final: BOOLEAN, offset: Nat, todo: SUBSET Nat]
       /\ slots \in SUBSET (Nat \X Nat)
  BY DbType DEF TypeOK, VmState
<1>stop. ASSUME StopScan
         PROVE  /\ flush'.final = flush.final /\ flush'.limit = flush.limit
                /\ at' = IF flush.final THEN "done" ELSE "engine"
                /\ engine'.end = engine.end
  BY <1>stop, <1>ty DEF StopScan, EngineState
<1>push. \A s \in WithPushed : s[1] > dle
  <2>1. \A p \in vm.delayed : p[1] \in Nat
    BY DEF TypeOK, VmState
  <2>2. \A s \in Pushed : s[1] \in Nat
    BY <1>ty, <2>1 DEF Pushed
  <2> QED BY <1>ty, <2>2 DEF WithPushed, SkipPush, OrderInv, SlotsAhead
<1>1. CASE OnHit
  <2>1. UNCHANGED <<vm, out, slots, dle, buflen>> /\ at = "engine" /\ at' = "flush"
    BY <1>1 DEF OnHit, progVars
  <2>2. /\ engine'.end \in Nat /\ engine.end <= engine'.end /\ engine'.end <= buflen
        /\ flush'.limit = engine'.end /\ flush'.final = FALSE
    BY <1>1, HitFields DEF EngineState
  <2>3. MatchesInOrder' /\ OutBeforeVm'
    BY <2>1, OutKeptOrder DEF OrderInv, OutBeforeVm
  <2> QED BY <2>1, <2>2, <2>3, <1>ty DEF OrderInv, SlotsAhead, EngineState
<1>2. CASE EngineDone
  <2>1. UNCHANGED <<vm, out, slots, dle, buflen, engine>> /\ at = "engine"
    BY <1>2 DEF EngineDone, progVars
  <2>2. MatchesInOrder' /\ OutBeforeVm'
    BY <2>1, OutKeptOrder DEF OrderInv, OutBeforeVm
  <2>3. CASE err = "None"
    <3>1. at' = "flush" /\ flush'.limit = buflen /\ flush'.final = TRUE
      BY <1>2, <2>3 DEF EngineDone
    <3> QED BY <2>1, <2>2, <3>1, <1>ty DEF OrderInv, SlotsAhead, EngineState
  <2>4. CASE err # "None"
    <3>1. at' = "done" /\ flush' = flush
      BY <1>2, <2>4 DEF EngineDone
    <3> QED BY <2>1, <2>2, <3>1, <1>ty DEF OrderInv, SlotsAhead
  <2> QED BY <2>3, <2>4
<1>3. CASE OpenSlot
  <2>1. PICK s \in Due :
           /\ IsFirst(s)
           /\ flush' = [flush EXCEPT !.offset = s[1],
                           !.todo = {t[2] : t \in {u \in slots : u[1] = s[1]}}]
           /\ slots' = {t \in slots : t[1] # s[1]}
           /\ dle' = DleAtReplay(s[1])
    BY <1>3 DEF OpenSlot
  <2>2. UNCHANGED <<vm, out, buflen, engine>> /\ at = "flush" /\ at' = "replay"
    BY <1>3 DEF OpenSlot, progVars
  <2>3. s \in slots /\ s[1] \in Nat /\ s[1] <= flush.limit /\ dle < s[1]
    BY <1>ty DEF Due, OrderInv, SlotsAhead
  <2>4. dle' = s[1]
    BY <2>1, <2>3, <1>ty DEF DleAtReplay, Larger
  <2>5. \A t \in slots' : t[1] > dle'
    <3> SUFFICES ASSUME NEW t \in slots' PROVE t[1] > s[1]
      BY <2>4
    <3>1. t \in slots /\ t[1] # s[1] /\ t[1] \in Nat
      BY <2>1, <1>ty
    <3>2. t[1] <= flush.limit => s[1] <= t[1]
      BY <2>1, <3>1 DEF IsFirst, Due
    <3> QED BY <3>1, <3>2, <2>3, <1>ty
  <2>6. flush'.offset = s[1] /\ flush'.limit = flush.limit /\ flush'.final = flush.final
    BY <2>1, <1>ty
  <2>7. vm.end < dle'
    BY <2>3, <2>4, <1>ty DEF OrderInv
  <2>8. MatchesInOrder' /\ OutBeforeVm'
    BY <2>2, OutKeptOrder DEF OrderInv, OutBeforeVm
  <2>9. dle' <= flush'.limit
    BY <2>3, <2>4, <2>6
  <2>10. dle' <= engine'.end \/ flush'.final
    BY <2>2, <2>6, <2>9, <1>ty DEF OrderInv
  <2>11. /\ vm'.end <= dle'
         /\ InHit' => flush'.limit = engine'.end
         /\ engine'.end <= buflen'
    BY <2>2, <2>6, <2>7, <2>4, <2>3, <1>ty DEF OrderInv
  <2> QED BY <2>2, <2>4, <2>5, <2>6, <2>7, <2>8, <2>9, <2>10, <2>11, <1>ty
  DEF OrderInv, SlotsAhead
<1>4. CASE ReplayNext
  <2>1. PICK i \in flush.todo :
           /\ IsLowest(i)
           /\ vm' = StartVm(db.delayed[i], flush.offset, FALSE, i)
           /\ flush' = [flush EXCEPT !.todo = @ \ {i}]
    BY <1>4 DEF ReplayNext
  <2>2. UNCHANGED <<out, buflen, engine, slots, dle>> /\ at = "replay" /\ at' = "delayed"
    BY <1>4 DEF ReplayNext
  <2>3. /\ flush.offset = dle /\ i \in Nat
        /\ \/ vm.end < dle
           \/ vm.end = dle /\ ~vm.confirm /\ vm.index < i
    BY <2>2, <1>ty DEF OrderInv
  <2>4. vm'.end = dle /\ vm'.confirm = FALSE /\ vm'.index = i
    BY <2>1, <2>3 DEF StartVm, IdleVm
  <2>5. \A j \in DOMAIN out : Precedes(out[j], vm')
    BY <2>1, <2>3, <1>ty, StartKeepsOrder
  <2>6. MatchesInOrder' /\ OutBeforeVm'
    BY <2>2, <2>5, OutKeptOrder
  <2>7. \A k \in flush'.todo : i < k
    BY <2>1, <1>ty DEF IsLowest
  <2>8. flush'.offset = dle /\ flush'.limit = flush.limit /\ flush'.final = flush.final
    BY <2>1, <2>3, <1>ty
  <2> QED BY <2>2, <2>4, <2>6, <2>7, <2>8, <1>ty DEF OrderInv, SlotsAhead
<1>5. CASE ReplayBadIndex
  <2>1. UNCHANGED <<vm, out, buflen, slots, dle>> /\ at = "replay" /\ StopScan
    BY <1>5 DEF ReplayBadIndex, progVars
  <2>2. MatchesInOrder' /\ OutBeforeVm'
    BY <2>1, OutKeptOrder DEF OrderInv, OutBeforeVm
  <2> QED BY <2>1, <2>2, <1>stop, <1>ty DEF OrderInv, SlotsAhead
<1>6. CASE SlotDone
  <2>1. UNCHANGED <<vm, out, buflen, slots, dle, flush, engine>> /\ at = "replay" /\ at' = "flush"
    BY <1>6 DEF SlotDone, progVars
  <2>2. MatchesInOrder' /\ OutBeforeVm'
    BY <2>1, OutKeptOrder DEF OrderInv, OutBeforeVm
  <2> QED BY <2>1, <2>2, <1>ty DEF OrderInv, SlotsAhead
<1>7. CASE FlushDone
  <2>1. UNCHANGED <<out, buflen, slots, flush, engine>> /\ at = "flush" /\ Due = {}
    BY <1>7 DEF FlushDone
  <2>2. dle' = flush.limit /\ dle <= flush.limit
    BY <1>7, <2>1, <1>ty DEF FlushDone, Larger, OrderInv
  <2>3. \A s \in slots : s[1] > flush.limit
    BY <2>1, <1>ty DEF Due
  <2>4. CASE flush.final
    <3>1. at' = "done" /\ vm' = vm
      BY <1>7, <2>4 DEF FlushDone
    <3>2. MatchesInOrder' /\ OutBeforeVm'
      BY <2>1, <3>1, OutKeptOrder DEF OrderInv, OutBeforeVm
    <3> QED BY <2>1, <2>2, <2>3, <2>4, <3>1, <3>2, <1>ty DEF OrderInv, SlotsAhead
  <2>5. CASE ~flush.final
    <3>1. /\ at' = "direct"
          /\ vm' = StartVm(db.lits[engine.lit].prog, flush.limit, TRUE, 0)
      BY <1>7, <2>5 DEF FlushDone
    <3>2. vm.end <= flush.limit
      BY <2>2, <1>ty DEF OrderInv
    <3>3. \A j \in DOMAIN out : Precedes(out[j], vm')
      BY <3>1, <3>2, <1>ty, StartKeepsOrder
    <3>4. MatchesInOrder' /\ OutBeforeVm'
      BY <2>1, <3>3, OutKeptOrder
    <3>5. vm'.end = flush.limit /\ vm'.confirm = TRUE
      BY <3>1 DEF StartVm, IdleVm
    <3>6. SlotsAhead'
      BY <2>1, <2>2, <2>3 DEF SlotsAhead
    <3>7. flush.limit = engine.end
      BY <2>1, <2>5 DEF OrderInv
    <3>8. vm'.end <= dle' /\ vm'.end = dle' /\ dle' <= engine'.end /\ dle' <= flush'.limit
      BY <2>1, <2>2, <3>5, <3>7, <1>ty
    <3>9. flush'.limit = engine'.end /\ engine'.end <= buflen' /\ ~flush'.final
      BY <2>1, <2>5, <3>7 DEF OrderInv
    <3> QED BY <3>1, <3>4, <3>6, <3>8, <3>9 DEF OrderInv
  <2> QED BY <2>4, <2>5
<1>8. CASE Interpret
  <2>1. UNCHANGED <<db, buflen, at, engine, flush, slots, dle, err>> /\ Running
    BY <1>8 DEF Interpret, scanVars
  <2>2. SameRun(vm', vm)
    BY <1>8, InterpretRun DEF Interpret
  <2>3. MatchesInOrder' /\ OutBeforeVm'
    <3>1. CASE out' = out
      BY <3>1, <2>2, OutKeptOrder DEF OrderInv, OutBeforeVm, Precedes, SameRun
    <3>2. CASE \E dkey, reply : out' = Append(out, Match(dkey, reply))
      <4>1. PICK dkey, reply : out' = Append(out, Match(dkey, reply))
        BY <3>2
      <4> DEFINE e == Match(dkey, reply)
      <4>2. e.end = vm.end /\ e.confirm = vm.confirm /\ e.index = vm.index
        BY DEF Match
      <4> HIDE DEF e
      <4>3. out \in Seq(OutEntry) /\ out' = Append(out, e)
        BY <4>1 DEF TypeOK, e
      <4>4. Precedes(e, vm) /\ Precedes(e, vm') /\ \A j \in DOMAIN out : Precedes(out[j], vm')
        BY <4>2, <2>2, <1>ty DEF OrderInv, OutBeforeVm, Precedes, SameRun, VmState
      <4>5. \A j \in DOMAIN out : Precedes(out[j], e)
        BY <4>2 DEF OrderInv, OutBeforeVm, Precedes
      <4>6. \A j \in DOMAIN out' : out'[j] = IF j \in DOMAIN out THEN out[j] ELSE e
        BY <4>3
      <4>7. \A i, j \in DOMAIN out' : i < j => i \in DOMAIN out
        BY <4>3
      <4>8. MatchesInOrder'
        BY <4>5, <4>6, <4>7 DEF OrderInv, MatchesInOrder, Precedes
      <4>9. OutBeforeVm'
        BY <4>4, <4>6 DEF OutBeforeVm, Precedes
      <4> QED BY <4>8, <4>9
    <3> QED BY <3>1, <3>2, <1>8, InterpretRun DEF Interpret
  <2> QED BY <2>1, <2>2, <2>3, <1>ty DEF OrderInv, SlotsAhead, SameRun
<1>9. CASE ReturnContinue
  <2>1. UNCHANGED <<vm, out, buflen, flush, dle>> /\ Running /\ slots' = WithPushed
    BY <1>9 DEF ReturnContinue, progVars
  <2>2. MatchesInOrder' /\ OutBeforeVm'
    BY <2>1, OutKeptOrder DEF OrderInv, OutBeforeVm
  <2>3. CASE at = "delayed"
    <3>1. at' = "replay" /\ engine' = engine
      BY <1>9, <2>3 DEF ReturnContinue
    <3> QED BY <2>1, <2>2, <2>3, <3>1, <1>push, <1>ty DEF OrderInv, SlotsAhead
  <2>4. CASE at = "direct"
    <3>1. at' = "engine" /\ engine'.end = engine.end
      BY <1>9, <2>4, <1>ty DEF ReturnContinue, EngineState
    <3>2. ~flush.final
      BY <2>4 DEF OrderInv
    <3> QED BY <2>1, <2>2, <2>4, <3>1, <3>2, <1>push, <1>ty DEF OrderInv, SlotsAhead
  <2> QED BY <2>1, <2>3, <2>4
<1>10. CASE ReturnTerminate
  <2>1. UNCHANGED <<vm, out, buflen, dle>> /\ Running /\ slots' = WithPushed /\ StopScan
    BY <1>10 DEF ReturnTerminate, progVars
  <2>2. MatchesInOrder' /\ OutBeforeVm'
    BY <2>1, OutKeptOrder DEF OrderInv, OutBeforeVm
  <2> QED BY <2>1, <2>2, <1>stop, <1>push, <1>ty DEF OrderInv, SlotsAhead
<1>11. CASE ReturnErr
  <2>1. UNCHANGED <<vm, out, buflen, slots, dle>> /\ Running /\ StopScan
    BY <1>11 DEF ReturnErr, progVars
  <2>2. MatchesInOrder' /\ OutBeforeVm'
    BY <2>1, OutKeptOrder DEF OrderInv, OutBeforeVm
  <2> QED BY <2>1, <2>2, <1>stop, <1>ty DEF OrderInv, SlotsAhead
<1>12. CASE Finished \/ UNCHANGED vars
  BY <1>12 DEF Finished, vars, progVars, scanVars, OrderInv, SlotsAhead, MatchesInOrder,
     OutBeforeVm, Precedes
<1> QED BY <1>1, <1>2, <1>3, <1>4, <1>5, <1>6, <1>7, <1>8, <1>9, <1>10, <1>11, <1>12 DEF Next

\* Replays are never due in the past, and the callback sees the matches in
\* order: by end offset, delayed before direct, by delay index.
THEOREM ReplaysAhead == Spec => []SlotsAhead
<1>1. OrderInv => SlotsAhead
  BY DEF OrderInv
<1> QED BY <1>1, InitOrder, NextOrder, TypeCorrect, PTL DEF Spec

THEOREM InOrder == Spec => []MatchesInOrder
<1>1. OrderInv => MatchesInOrder
  BY DEF OrderInv
<1> QED BY <1>1, InitOrder, NextOrder, TypeCorrect, PTL DEF Spec

-----------------------------------------------------------------------------
(***************************************************************************)
(* Deduplication: every deduplicated match so far is in dedupe.seen.       *)
(***************************************************************************)
Key(m) == <<m.dkey, m.to>>

DedupeInv ==
    /\ DedupedOnce
    /\ \A j \in DOMAIN out : out[j].dkey # NoDkey => Key(out[j]) \in dedupe.seen

\* What a step of a program does to the matches and the keys seen.
LEMMA InterpretSeen ==
    ASSUME TypeOK, RunProgram
    PROVE  \/ out' = out /\ dedupe'.seen = dedupe.seen
           \/ \E reply : out' = Append(out, Match(NoDkey, reply)) /\ dedupe'.seen = dedupe.seen
           \/ \E reply : /\ out' = Append(out, Match(Instr.dkey, reply))
                         /\ <<Instr.dkey, To>> \notin dedupe.seen
                         /\ dedupe'.seen = dedupe.seen \cup {<<Instr.dkey, To>>}
<1>ty. dedupe \in DedupeState
  BY DEF TypeOK
<1>1. CASE \/ OutOfProgram \/ End \/ UnknownOpcode \/ CatchUp \/ CheckGroups
           \/ CheckByte \/ CheckMask \/ CheckMask32
  BY <1>1 DEF OutOfProgram, End, UnknownOpcode, CatchUp, CheckGroups, CheckByte, CheckMask,
     CheckMask32, Check
<1>2. CASE \/ CheckMedLit \/ CheckSingleLookaround \/ CheckLookaround \/ CheckBounds
           \/ CheckLitEarly \/ CheckState \/ CheckPrefix
           \/ CheckInfix
  BY <1>2
  DEF CheckMedLit, CheckSingleLookaround, CheckLookaround, CheckBounds, CheckLitEarly,
      CheckState, CheckPrefix, CheckInfix, NfaError
<1>3. CASE CheckNotHandled
  BY <1>3, <1>ty DEF CheckNotHandled, DedupeState
<1>4. CASE Report \/ FinalReport
  BY <1>4 DEF Report, FinalReport
<1>5. CASE DedupeAndReport
  BY <1>5, <1>ty DEF DedupeAndReport, DedupeState, Fresh
<1>6. CASE DedupeSkip \/ IncludedJump \/ PushDelayed \/ SetGroups \/ SquashGroups
  BY <1>6 DEF DedupeSkip, IncludedJump, PushDelayed, SetGroups, SquashGroups
<1>7. CASE TriggerSuffix \/ TriggerInfix \/ SetState
  BY <1>7, <1>ty DEF TriggerSuffix, TriggerInfix, SetState, DedupeState
<1> QED BY <1>1, <1>2, <1>3, <1>4, <1>5, <1>6, <1>7 DEF RunProgram

LEMMA InitDedupe == Init => DedupeInv
BY DEF Init, DedupeInv, DedupedOnce

LEMMA NextDedupe == TypeOK /\ DedupeInv /\ [Next]_vars => DedupeInv'
<1> SUFFICES ASSUME TypeOK, DedupeInv, [Next]_vars PROVE DedupeInv'
  OBVIOUS
<1>1. CASE Interpret
  <2>ty. out \in Seq(OutEntry)
    BY DEF TypeOK
  <2>1. CASE out' = out /\ dedupe'.seen = dedupe.seen
    BY <2>1 DEF DedupeInv, DedupedOnce, Key
  <2>2. CASE \E dkey, reply :
                /\ out' = Append(out, Match(dkey, reply))
                /\ \/ dkey = NoDkey /\ dedupe'.seen = dedupe.seen
                   \/ /\ <<dkey, To>> \notin dedupe.seen
                      /\ dedupe'.seen = dedupe.seen \cup {<<dkey, To>>}
    <3>1. PICK dkey, reply :
             /\ out' = Append(out, Match(dkey, reply))
             /\ \/ dkey = NoDkey /\ dedupe'.seen = dedupe.seen
                \/ /\ <<dkey, To>> \notin dedupe.seen
                   /\ dedupe'.seen = dedupe.seen \cup {<<dkey, To>>}
      BY <2>2
    <3> DEFINE e == Match(dkey, reply)
    <3>2. e.dkey = dkey /\ e.to = To
      BY DEF Match
    <3>3. out' = Append(out, e)
      BY <3>1
    <3> HIDE DEF e
    <3>4. \A j \in DOMAIN out' : out'[j] = IF j \in DOMAIN out THEN out[j] ELSE e
      BY <3>3, <2>ty
    <3>5. \A i, j \in DOMAIN out' : i \notin DOMAIN out /\ j \notin DOMAIN out => i = j
      BY <3>3, <2>ty
    <3>6. \A j \in DOMAIN out : out[j].dkey # NoDkey => Key(out[j]) \in dedupe.seen
      BY DEF DedupeInv
    <3>7. e.dkey # NoDkey => Key(e) \notin dedupe.seen /\ Key(e) \in dedupe'.seen
      BY <3>1, <3>2 DEF Key
    <3>8. \A j \in DOMAIN out' : out'[j].dkey # NoDkey => Key(out'[j]) \in dedupe'.seen
      BY <3>1, <3>4, <3>6, <3>7
    <3>9. DedupedOnce'
      <4> SUFFICES ASSUME NEW i \in DOMAIN out', NEW j \in DOMAIN out', i # j,
                          out'[i].dkey # NoDkey
                   PROVE  Key(out'[i]) # Key(out'[j])
        BY DEF DedupedOnce, Key
      <4>1. CASE i \in DOMAIN out /\ j \in DOMAIN out
        BY <4>1, <3>4 DEF DedupeInv, DedupedOnce, Key
      <4>2. CASE i \in DOMAIN out /\ j \notin DOMAIN out
        <5>1. out'[i] = out[i] /\ out'[j] = e
          BY <4>2, <3>4
        <5>2. Key(out[i]) \in dedupe.seen
          BY <4>2, <5>1, <3>6
        <5>3. Key(out[i]) = Key(e) => e.dkey # NoDkey
          BY <5>1 DEF Key
        <5> QED BY <5>1, <5>2, <5>3, <3>7
      <4>3. CASE i \notin DOMAIN out /\ j \in DOMAIN out
        <5>1. out'[i] = e /\ out'[j] = out[j]
          BY <4>3, <3>4
        <5>2. Key(out[j]) = Key(e) => out[j].dkey # NoDkey
          BY <5>1 DEF Key
        <5> QED BY <4>3, <5>1, <5>2, <3>6, <3>7
      <4>4. CASE i \notin DOMAIN out /\ j \notin DOMAIN out
        BY <4>4, <3>5
      <4> QED BY <4>1, <4>2, <4>3, <4>4
    <3> QED BY <3>8, <3>9 DEF DedupeInv, Key
  <2>3. CASE \E reply : out' = Append(out, Match(NoDkey, reply)) /\ dedupe'.seen = dedupe.seen
    BY <2>3, <2>2
  <2>4. CASE \E reply : /\ out' = Append(out, Match(Instr.dkey, reply))
                        /\ <<Instr.dkey, To>> \notin dedupe.seen
                        /\ dedupe'.seen = dedupe.seen \cup {<<Instr.dkey, To>>}
    BY <2>4, <2>2
  <2> QED BY <1>1, <2>1, <2>3, <2>4, InterpretSeen DEF Interpret
<1>2. CASE UNCHANGED <<out, dedupe>>
  BY <1>2 DEF DedupeInv, DedupedOnce, Key
<1>3. CASE \/ OnHit \/ EngineDone \/ OpenSlot \/ ReplayNext \/ ReplayBadIndex \/ SlotDone
           \/ FlushDone \/ ReturnContinue \/ ReturnTerminate \/ ReturnErr \/ Finished
           \/ UNCHANGED vars
  BY <1>2, <1>3
  DEF OnHit, EngineDone, OpenSlot, ReplayNext, ReplayBadIndex, SlotDone, FlushDone,
      ReturnContinue, ReturnTerminate, ReturnErr, Finished, vars, progVars
<1> QED BY <1>1, <1>3 DEF Next

\* No deduplicated match is reported twice in a scan, directly or replayed.
THEOREM NoDuplicates == Spec => []DedupedOnce
<1>1. DedupeInv => DedupedOnce
  BY DEF DedupeInv
<1> QED BY <1>1, InitDedupe, NextDedupe, TypeCorrect, PTL DEF Spec

-----------------------------------------------------------------------------
(***************************************************************************)
(* The scan implements the queue of replays.                               *)
(***************************************************************************)
StatusInv ==
    /\ at \in {"engine", "flush", "direct", "done"} => flush.todo = {}
    /\ at \in {"engine", "flush", "replay"} /\ vm.status = "Terminate" => engine.stopped
    /\ err # "None" => at = "done" \/ (at = "engine" /\ engine.stopped)
    /\ InHit => ~engine.stopped
    /\ flush.final => flush.limit = buflen

LEMMA StatusIsRunning == ASSUME RunProgram PROVE vm.status = "running"
BY DEF RunProgram, OutOfProgram, End, UnknownOpcode, CatchUp, CheckGroups, CheckByte,
    CheckMask, CheckMask32, Check, CheckMedLit, CheckSingleLookaround, CheckLookaround,
    CheckBounds, CheckLitEarly, CheckNotHandled, CheckState, CheckPrefix, CheckInfix,
    NfaError, Report, FinalReport, DedupeAndReport, DedupeSkip, IncludedJump, PushDelayed,
    TriggerSuffix, TriggerInfix, SetState, SetGroups, SquashGroups, Fetch

LEMMA InitStatus == Init => StatusInv
BY DEF Init, StatusInv, InHit, IdleVm

LEMMA NextStatus == TypeOK /\ StatusInv /\ [Next]_vars => StatusInv'
<1> SUFFICES ASSUME TypeOK, StatusInv, [Next]_vars PROVE StatusInv'
  OBVIOUS
<1> USE DEF InHit, StatusInv
<1>ty. /\ flush \in [limit: Nat, final: BOOLEAN, offset: Nat, todo: SUBSET Nat]
       /\ engine \in EngineState
  BY DEF TypeOK
<1>1. CASE OnHit
  <2>1. ~engine.stopped
    BY <1>1 DEF OnHit
  <2>2. /\ flush'.todo = {} /\ flush'.final = FALSE /\ engine'.stopped = engine.stopped
        /\ at = "engine" /\ at' = "flush" /\ UNCHANGED <<vm, err>>
    BY <1>1, HitFields
  <2> QED BY <2>1, <2>2
<1>2. CASE EngineDone
  BY <1>2, <1>ty DEF EngineDone, progVars
<1>3. CASE OpenSlot
  <2>1. /\ flush'.final = flush.final /\ flush'.limit = flush.limit
        /\ at = "flush" /\ at' = "replay" /\ UNCHANGED <<vm, err, engine, buflen>>
    BY <1>3, <1>ty DEF OpenSlot, progVars
  <2> QED BY <2>1
<1>4. CASE ReplayNext
  <2>1. /\ flush'.final = flush.final /\ flush'.limit = flush.limit
        /\ at = "replay" /\ at' = "delayed" /\ UNCHANGED <<err, engine, buflen>>
    BY <1>4, <1>ty DEF ReplayNext
  <2> QED BY <2>1
<1>5. CASE ReplayBadIndex
  BY <1>5, <1>ty DEF ReplayBadIndex, StopScan, progVars, EngineState
<1>6. CASE SlotDone
  BY <1>6 DEF SlotDone, progVars
<1>7. CASE FlushDone
  BY <1>7 DEF FlushDone
<1>8. CASE Interpret
  BY <1>8 DEF Interpret, scanVars
<1>9. CASE ReturnContinue
  BY <1>9, <1>ty DEF ReturnContinue, progVars
<1>10. CASE ReturnTerminate
  BY <1>10, <1>ty DEF ReturnTerminate, StopScan, progVars, EngineState
<1>11. CASE ReturnErr
  BY <1>11, <1>ty DEF ReturnErr, StopScan, progVars, EngineState
<1>12. CASE Finished \/ UNCHANGED vars
  BY <1>12 DEF Finished, vars, progVars, scanVars
<1> QED BY <1>1, <1>2, <1>3, <1>4, <1>5, <1>6, <1>7, <1>8, <1>9, <1>10, <1>11, <1>12 DEF Next

\* The abstract values, named.
Pending == slots \cup {<<flush.offset, i>> : i \in flush.todo}
Job == IF at \notin {"direct", "delayed"} THEN "none"
       ELSE IF vm.status = "Terminate" THEN "stopping" ELSE at
Status == IF err # "None" THEN "failed"
          ELSE IF at = "done" THEN "closed"
          ELSE IF engine.stopped \/ vm.status = "Terminate" THEN "terminated"
          ELSE "open"

LEMMA InitQueue == Init => Queue!QueueInit
<1> SUFFICES ASSUME Init PROVE Queue!QueueInit
  OBVIOUS
<1>1. buflen \in Nat
  BY LitAssumption DEF Init
<1> QED BY <1>1 DEF Init, IdleVm, Queue!QueueInit

LEMMA NextQueue ==
    TypeOK /\ OrderInv /\ StatusInv /\ StatusInv' /\ [Next]_vars =>
        [Queue!QueueNext]_(Queue!queueVars)
<1> SUFFICES ASSUME TypeOK, OrderInv, StatusInv, StatusInv', [Next]_vars
             PROVE  Queue!QueueNext \/ UNCHANGED Queue!queueVars
  OBVIOUS
<1> USE DEF InHit
<1>same. UNCHANGED <<buflen, Pending, vm, Job, Status>> => UNCHANGED Queue!queueVars
  BY DEF Queue!queueVars, Pending, Job, Status
<1>same2. UNCHANGED <<buflen, Pending, Job, Status>> /\ vm'.end = vm.end => UNCHANGED Queue!queueVars
  BY DEF Queue!queueVars, Pending, Job, Status
<1>ty. /\ vm \in VmState /\ vm.end \in Nat /\ dle \in Nat /\ buflen \in Nat
       /\ engine \in EngineState
       /\ flush \in [limit: Nat, final: BOOLEAN, offset: Nat, todo: SUBSET Nat]
       /\ slots \in SUBSET (Nat \X Nat)
  BY DbType DEF TypeOK, VmState
<1>empty. flush.todo = {} => Pending = slots
  BY DEF Pending
<1>limit. at \in {"flush", "replay", "direct", "delayed"} => flush.limit <= buflen
  BY <1>ty DEF OrderInv, StatusInv
<1>push. \A s \in WithPushed : s[1] > dle
  <2>1. \A p \in vm.delayed : p[1] \in Nat
    BY DEF TypeOK, VmState
  <2>2. \A s \in Pushed : s[1] \in Nat
    BY <1>ty, <2>1 DEF Pushed
  <2> QED BY <1>ty, <2>2 DEF WithPushed, SkipPush, OrderInv, SlotsAhead
<1>kept. slots \subseteq WithPushed
  BY DEF WithPushed
<1>1. CASE OnHit
  <2>1. UNCHANGED <<buflen, vm, slots, err>> /\ at = "engine" /\ at' = "flush"
        /\ engine'.stopped = engine.stopped
    BY <1>1, HitFields
  <2>2. flush.todo = {} /\ flush'.todo = {}
    BY <2>1 DEF StatusInv
  <2>3. UNCHANGED <<Pending, Job, Status>>
    BY <2>1, <2>2 DEF Pending, Job, Status
  <2> QED BY <2>1, <2>3, <1>same
<1>2. CASE EngineDone
  <2>1. UNCHANGED <<buflen, vm, slots, err, engine>> /\ at = "engine"
        /\ at' = IF err = "None" THEN "flush" ELSE "done"
    BY <1>2 DEF EngineDone, progVars
  <2>2. flush.todo = {} /\ flush'.todo = {}
    BY <2>1 DEF StatusInv
  <2>3. UNCHANGED <<Pending, Job, Status>>
    BY <2>1, <2>2 DEF Pending, Job, Status
  <2> QED BY <2>1, <2>3, <1>same
<1>3. CASE OpenSlot
  <2>1. PICK s \in Due :
           /\ flush' = [flush EXCEPT !.offset = s[1],
                           !.todo = {t[2] : t \in {u \in slots : u[1] = s[1]}}]
           /\ slots' = {t \in slots : t[1] # s[1]}
    BY <1>3 DEF OpenSlot
  <2>2. UNCHANGED <<buflen, vm, err, engine>> /\ at = "flush" /\ at' = "replay"
    BY <1>3 DEF OpenSlot, progVars
  <2>3. flush'.offset = s[1] /\ flush'.todo = {t[2] : t \in {u \in slots : u[1] = s[1]}}
    BY <2>1, <1>ty
  <2>4. Pending = slots
    BY <2>2, <1>empty DEF StatusInv
  <2>5. \A t \in slots : t = <<t[1], t[2]>>
    BY <1>ty
  <2>6. Pending' = slots
    BY <2>1, <2>3, <2>5 DEF Pending
  <2>7. UNCHANGED <<Job, Status>>
    BY <2>2 DEF Job, Status
  <2> QED BY <2>2, <2>4, <2>6, <2>7, <1>same
<1>4. CASE ReplayNext
  <2>1. PICK i \in flush.todo :
           /\ IsLowest(i)
           /\ vm' = StartVm(db.delayed[i], flush.offset, FALSE, i)
           /\ flush' = [flush EXCEPT !.todo = @ \ {i}]
    BY <1>4 DEF ReplayNext
  <2>2. /\ UNCHANGED <<buflen, err, engine, slots>> /\ at = "replay" /\ at' = "delayed"
        /\ flush'.todo = flush.todo \ {i} /\ flush'.offset = flush.offset
    BY <1>4, <2>1, <1>ty DEF ReplayNext
  <2>3. flush.offset = dle /\ i \in Nat
    BY <2>2, <1>ty DEF OrderInv
  <2>4. vm'.end = dle /\ vm'.status \in {"running", "Rose"}
    BY <2>1, <2>3 DEF StartVm, IdleVm
  <2> DEFINE s == <<dle, i>>
  <2>5. s \in Pending /\ s[1] <= buflen
    BY <2>2, <2>3, <1>ty, <1>limit DEF Pending, OrderInv, InFlush
  <2>6. \A t \in Pending : t = s \/ Queue!Earlier(s, t)
    <3> SUFFICES ASSUME NEW t \in Pending, t # s PROVE Queue!Earlier(s, t)
      OBVIOUS
    <3>1. CASE t \in slots
      BY <3>1, <1>ty DEF Queue!Earlier, OrderInv, SlotsAhead
    <3>2. CASE t \notin slots
      <4>1. PICK k \in flush.todo : t = <<dle, k>>
        BY <3>2, <2>3 DEF Pending
      <4>2. i <= k /\ i # k /\ k \in Nat
        BY <4>1, <2>1, <1>ty DEF IsLowest
      <4> QED BY <4>1, <4>2, <2>3 DEF Queue!Earlier
    <3> QED BY <3>1, <3>2
  <2>7. s \notin slots
    BY <1>ty DEF OrderInv, SlotsAhead
  <2>8. Pending' = Pending \ {s}
    BY <2>2, <2>3, <2>7 DEF Pending
  <2>9. err = "None"
    BY <2>2 DEF StatusInv
  <2>10. Job = "none" /\ Job' = "delayed" /\ Status \in {"open", "terminated"} /\ Status' = Status
    BY <2>2, <2>4, <2>9 DEF Job, Status, StatusInv
  <2>11. Queue!StartReplay
    BY <2>2, <2>4, <2>5, <2>6, <2>8, <2>10 DEF Queue!StartReplay, Pending, Job, Status
  <2> QED BY <2>11 DEF Queue!QueueNext
<1>5. CASE ReplayBadIndex
  <2>1. /\ UNCHANGED <<buflen, vm, slots>> /\ at = "replay" /\ err' = "Rose" /\ StopScan
    BY <1>5 DEF ReplayBadIndex, progVars
  <2>2. flush'.todo = {} /\ at' \in {"engine", "done"}
    BY <2>1, <1>ty DEF StopScan
  <2>3. Pending' = slots /\ slots \subseteq Pending
    BY <2>1, <2>2 DEF Pending
  <2>4. /\ Job = "none" /\ Job' = "none"
        /\ Status \in {"open", "terminated"} /\ Status' = "failed"
    BY <2>1, <2>2 DEF Job, Status, StatusInv
  <2>5. Queue!Fail
    BY <2>1, <2>3, <2>4 DEF Queue!Fail, Pending, Job, Status
  <2> QED BY <2>5 DEF Queue!QueueNext
<1>6. CASE SlotDone
  <2>1. UNCHANGED <<buflen, vm, slots, err, engine, flush>> /\ at = "replay" /\ at' = "flush"
    BY <1>6 DEF SlotDone, progVars
  <2>2. UNCHANGED <<Pending, Job, Status>>
    BY <2>1 DEF Pending, Job, Status
  <2> QED BY <2>1, <2>2, <1>same
<1>7. CASE FlushDone
  <2>1. /\ UNCHANGED <<buflen, slots, flush, engine, err>> /\ at = "flush" /\ Due = {}
    BY <1>7 DEF FlushDone
  <2>2. Pending = slots /\ Pending' = slots /\ \A s \in slots : s[1] > flush.limit
    BY <2>1, <1>empty, <1>ty DEF StatusInv, Due, Pending
  <2>3. err = "None"
    BY <2>1 DEF StatusInv
  <2>4. CASE flush.final
    <3>1. at' = "done" /\ vm' = vm /\ flush.limit = buflen
      BY <1>7, <2>4 DEF FlushDone, StatusInv
    <3>2. /\ Job = "none" /\ Job' = "none"
          /\ Status \in {"open", "terminated"} /\ Status' = "closed"
      BY <2>1, <2>3, <3>1 DEF Job, Status
    <3>3. Queue!Close
      BY <2>1, <2>2, <3>1, <3>2 DEF Queue!Close, Pending, Job, Status
    <3> QED BY <3>3 DEF Queue!QueueNext
  <2>5. CASE ~flush.final
    <3>1. /\ at' = "direct"
          /\ vm' = StartVm(db.lits[engine.lit].prog, flush.limit, TRUE, 0)
      BY <1>7, <2>5 DEF FlushDone
    <3>2. vm'.end = flush.limit /\ vm'.status \in {"running", "Rose"}
      BY <3>1 DEF StartVm, IdleVm
    <3>3. ~engine.stopped /\ vm.status # "Terminate"
      BY <2>1, <2>5 DEF StatusInv
    <3>4. Job = "none" /\ Job' = "direct" /\ Status = "open" /\ Status' = "open"
      BY <2>1, <2>3, <3>1, <3>2, <3>3 DEF Job, Status
    <3>5. flush.limit \in vm.end..buflen
      BY <2>1, <1>ty, <1>limit DEF OrderInv, InFlush
    <3>6. Queue!StartDirect
      BY <2>1, <2>2, <3>2, <3>4, <3>5 DEF Queue!StartDirect, Pending, Job, Status
    <3> QED BY <3>6 DEF Queue!QueueNext
  <2> QED BY <2>4, <2>5
<1>8. CASE Interpret
  <2>1. /\ UNCHANGED <<db, buflen, at, engine, flush, slots, dle, err>>
        /\ at \in {"direct", "delayed"} /\ RunProgram
    BY <1>8 DEF Interpret, scanVars
  <2>2. vm'.end = vm.end /\ vm.status = "running"
    BY <2>1, InterpretRun, StatusIsRunning DEF SameRun
  <2>3. Pending' = Pending
    BY <2>1 DEF Pending
  <2>4. CASE vm'.status = "Terminate"
    <3>1. /\ Job \in {"direct", "delayed"} /\ Job' = "stopping" /\ Status' = "terminated"
      BY <2>1, <2>2, <2>4 DEF Job, Status, StatusInv
    <3>2. Queue!Terminate
      BY <2>1, <2>2, <2>3, <3>1 DEF Queue!Terminate, Pending, Job, Status
    <3> QED BY <3>2 DEF Queue!QueueNext
  <2>5. CASE vm'.status # "Terminate"
    <3>1. UNCHANGED <<Job, Status>>
      BY <2>1, <2>2, <2>5 DEF Job, Status
    <3> QED BY <2>1, <2>2, <2>3, <3>1, <1>same2
  <2> QED BY <2>4, <2>5
<1>9. CASE ReturnContinue
  <2>1. /\ UNCHANGED <<buflen, vm, flush, dle, err>> /\ at \in {"direct", "delayed"}
        /\ vm.status = "Continue" /\ slots' = WithPushed
        /\ at' \in {"replay", "engine"} /\ engine'.stopped = engine.stopped
    BY <1>9, <1>ty DEF ReturnContinue, progVars, EngineState
  <2>2. vm.end = dle /\ err = "None"
    BY <2>1 DEF OrderInv, Running, StatusInv
  <2>3. Pending \subseteq Pending' /\ \A s \in Pending' \ Pending : s[1] > vm.end
    BY <2>1, <2>2, <1>push, <1>kept DEF Pending
  <2>4. Job \in {"direct", "delayed"} /\ Job' = "none" /\ Status' = Status
    BY <2>1, <2>2 DEF Job, Status
  <2>5. Queue!Finish
    BY <2>1, <2>3, <2>4 DEF Queue!Finish, Queue!Schedules, Pending, Job, Status
  <2> QED BY <2>5 DEF Queue!QueueNext
<1>10. CASE ReturnTerminate
  <2>1. /\ UNCHANGED <<buflen, vm, dle, err>> /\ at \in {"direct", "delayed"}
        /\ vm.status = "Terminate" /\ slots' = WithPushed /\ StopScan
    BY <1>10 DEF ReturnTerminate, progVars
  <2>2. flush'.todo = {} /\ (at' = "done" \/ (at' = "engine" /\ engine'.stopped))
    BY <2>1, <1>ty DEF StopScan, EngineState
  <2>3. vm.end = dle /\ err = "None"
    BY <2>1 DEF OrderInv, Running, StatusInv
  <2>4. Pending' = WithPushed
    BY <2>1, <2>2 DEF Pending
  <2>5. {s \in Pending : s[1] > vm.end} \subseteq Pending'
    <3> SUFFICES ASSUME NEW s \in Pending, s[1] > vm.end PROVE s \in slots
      BY <2>4, <1>kept
    <3>1. at = "direct" => flush.todo = {}
      BY DEF StatusInv
    <3>2. at = "delayed" => flush.offset = dle
      BY DEF OrderInv
    <3> QED BY <2>1, <2>3, <3>1, <3>2, <1>ty DEF Pending
  <2>6. \A s \in Pending' : s[1] > vm.end
    BY <2>3, <2>4, <1>push
  <2>7. Job = "stopping" /\ Job' = "none" /\ Status' \in {"terminated", "closed"}
    BY <2>1, <2>2, <2>3 DEF Job, Status
  <2>8. Queue!FinishStopped
    BY <2>1, <2>5, <2>6, <2>7 DEF Queue!FinishStopped, Queue!Schedules, Pending, Job, Status
  <2> QED BY <2>8 DEF Queue!QueueNext
<1>11. CASE ReturnErr
  <2>1. /\ UNCHANGED <<buflen, vm, slots>> /\ at \in {"direct", "delayed"}
        /\ vm.status \in InterpErrors /\ err' = vm.status /\ StopScan
    BY <1>11 DEF ReturnErr, progVars
  <2>2. flush'.todo = {} /\ at' \in {"engine", "done"}
    BY <2>1, <1>ty DEF StopScan
  <2>3. Pending' = slots /\ slots \subseteq Pending
    BY <2>1, <2>2 DEF Pending
  <2>4. /\ Job \in {"direct", "delayed"} /\ Job' = "none"
        /\ Status \in {"open", "terminated"} /\ Status' = "failed"
    BY <2>1, <2>2 DEF Job, Status, StatusInv, InterpErrors
  <2>5. Queue!Fail
    BY <2>1, <2>3, <2>4 DEF Queue!Fail, Pending, Job, Status
  <2> QED BY <2>5 DEF Queue!QueueNext
<1>12. CASE Finished \/ UNCHANGED vars
  <2>1. UNCHANGED vars
    BY <1>12 DEF Finished
  <2>2. UNCHANGED <<buflen, Pending, vm, Job, Status>>
    BY <2>1 DEF vars, progVars, scanVars, Pending, Job, Status
  <2> QED BY <2>2, <1>same
<1> QED BY <1>1, <1>2, <1>3, <1>4, <1>5, <1>6, <1>7, <1>8, <1>9, <1>10, <1>11, <1>12 DEF Next

\* The slots, flush calls and control of a scan implement ReplayQueue: every
\* replay that comes due is started once, in order, and a job schedules
\* replays after its own offset only.
THEOREM ImplementsQueue == Spec => QueueSpec
<1>1. Init /\ [][Next]_vars /\ []TypeOK => [](OrderInv /\ StatusInv)
  BY InitOrder, NextOrder, InitStatus, NextStatus, PTL
<1>2. Init /\ [][Next]_vars /\ []TypeOK /\ [](OrderInv /\ StatusInv) => Queue!QueueSpec
  BY InitQueue, NextQueue, PTL DEF Queue!QueueSpec
<1> QED BY <1>1, <1>2, TypeCorrect, PTL DEF Spec, QueueSpec

-----------------------------------------------------------------------------
\* After an error the callback is not called again.
THEOREM ErrorStopsMatches == Spec => ErrStopsMatches
<1>1. StatusInv /\ [Next]_vars => [err # "None" => UNCHANGED out]_vars
  <2> SUFFICES ASSUME StatusInv, Next, err # "None" PROVE UNCHANGED out
    BY DEF vars
  <2>1. at \in {"engine", "done"}
    BY DEF StatusInv
  <2> QED BY <2>1 DEF Next, OnHit, EngineDone, OpenSlot, ReplayNext, ReplayBadIndex, SlotDone,
             FlushDone, Interpret, ReturnContinue, ReturnTerminate, ReturnErr, Finished,
             vars, progVars
<1>2. Init /\ [][Next]_vars /\ []TypeOK => []StatusInv
  BY InitStatus, NextStatus, PTL
<1> QED BY <1>1, <1>2, TypeCorrect, PTL DEF Spec, ErrStopsMatches
-----------------------------------------------------------------------------
(***************************************************************************)
(* What follows a Terminate.  Outside the run that was just answered with  *)
(* one, a Terminate has stopped the engine and lies before the slot that   *)
(* is replayed, and there is one of them at most until the scan is over.   *)
(***************************************************************************)
Terminated(i) == out[i].reply = "Terminate"
Stopping == Running /\ vm.status = "Terminate"

WindInv ==
    /\ TerminateWindsDown
    /\ at # "done" =>
          \A i \in DOMAIN out : Terminated(i) =>
              \/ Stopping /\ i = Len(out)
              \/ engine.stopped /\ (at \in {"replay", "delayed"} => out[i].end < dle)
    /\ at # "done" /\ ~Stopping =>
          \A i, j \in DOMAIN out : Terminated(i) /\ Terminated(j) => i = j

\* A program whose match is answered with Terminate stops.
LEMMA InterpretReply ==
    ASSUME TypeOK, RunProgram
    PROVE  \/ out' = out
           \/ \E dkey, reply : /\ out' = Append(out, Match(dkey, reply))
                               /\ reply = "Terminate" => vm'.status = "Terminate"
<1>ty. vm \in VmState /\ Worked \in VmState
  BY WorkedType DEF TypeOK
<1>halt. \A status : Halt(vm, status).status = status /\ Halt(Worked, status).status = status
  BY <1>ty DEF Halt, VmState
<1>1. CASE Report
  BY <1>1, <1>halt DEF Report, AfterReport
<1>2. CASE FinalReport
  BY <1>2, <1>halt DEF FinalReport
<1>3. CASE DedupeAndReport
  BY <1>3, <1>halt DEF DedupeAndReport, AfterReport
<1>4. CASE ~(Report \/ FinalReport \/ DedupeAndReport)
  BY <1>4
  DEF RunProgram, OutOfProgram, End, UnknownOpcode, CatchUp, CheckGroups, CheckByte,
      CheckMask, CheckMask32, Check, CheckMedLit, CheckSingleLookaround, CheckLookaround,
      CheckBounds, CheckLitEarly, CheckNotHandled, CheckState, CheckPrefix, CheckInfix,
      NfaError, DedupeSkip, IncludedJump, PushDelayed, TriggerSuffix, TriggerInfix,
      SetState, SetGroups, SquashGroups
<1> QED BY <1>1, <1>2, <1>3, <1>4

LEMMA InitWind == Init => WindInv
BY DEF Init, WindInv, TerminateWindsDown

LEMMA NextWind ==
    TypeOK /\ OrderInv /\ StatusInv /\ WindInv /\ [Next]_vars => WindInv'
<1> SUFFICES ASSUME TypeOK, OrderInv, StatusInv, WindInv, [Next]_vars PROVE WindInv'
  OBVIOUS
<1> USE DEF Running, InHit, InFlush, Terminated, Stopping
<1>ty. /\ vm \in VmState /\ vm.end \in Nat /\ dle \in Nat
       /\ engine \in EngineState
       /\ flush \in [limit: Nat, final: BOOLEAN, offset: Nat, todo: SUBSET Nat]
       /\ slots \in SUBSET (Nat \X Nat) /\ out \in Seq(OutEntry)
  BY DEF TypeOK, VmState
<1>end. \A i \in DOMAIN out : out[i].end \in Nat /\ out[i].end <= vm.end
  <2> SUFFICES ASSUME NEW i \in DOMAIN out PROVE out[i].end \in Nat /\ out[i].end <= vm.end
    OBVIOUS
  <2>1. out[i] \in OutEntry
    BY <1>ty
  <2>2. out[i].end \in Nat
    BY <2>1 DEF OutEntry
  <2>3. Precedes(out[i], vm)
    BY DEF OrderInv, OutBeforeVm
  <2> QED BY <2>2, <2>3, <1>ty DEF Precedes
<1>same. UNCHANGED out => TerminateWindsDown'
  BY DEF WindInv, TerminateWindsDown
\* The end of a run or a flush that stops the scan.
<1>stop. ASSUME StopScan, UNCHANGED out, at \in {"replay", "direct", "delayed"}
         PROVE  WindInv'
  <2>1. CASE flush.final
    BY <2>1, <1>stop, <1>same DEF StopScan, WindInv
  <2>2. CASE ~flush.final
    <3>1. at' = "engine" /\ engine'.stopped
      BY <2>2, <1>stop, <1>ty DEF StopScan, EngineState
    <3>2. ~engine.stopped
      BY <2>2, <1>stop DEF StatusInv
    <3>3. \A i \in DOMAIN out : Terminated(i) => i = Len(out)
      BY <1>stop, <3>2 DEF WindInv
    <3> QED BY <1>stop, <1>same, <3>1, <3>3 DEF WindInv
  <2> QED BY <2>1, <2>2
<1>1. CASE OnHit
  <2>1. UNCHANGED <<out, vm>> /\ at = "engine" /\ at' = "flush" /\ ~engine.stopped
    BY <1>1 DEF OnHit, progVars
  <2>2. \A i \in DOMAIN out : ~Terminated(i)
    BY <2>1 DEF WindInv
  <2> QED BY <2>1, <2>2, <1>same DEF WindInv
<1>2. CASE EngineDone
  <2>1. UNCHANGED <<out, vm, engine>> /\ at = "engine" /\ at' \in {"flush", "done"}
    BY <1>2 DEF EngineDone, progVars
  <2> QED BY <2>1, <1>same DEF WindInv
<1>3. CASE OpenSlot
  <2>1. PICK s \in Due : dle' = DleAtReplay(s[1])
    BY <1>3 DEF OpenSlot
  <2>2. UNCHANGED <<out, vm, engine>> /\ at = "flush" /\ at' = "replay"
    BY <1>3 DEF OpenSlot, progVars
  <2>3. vm.end < dle' /\ dle' \in Nat
    BY <2>1, <1>ty DEF Due, OrderInv, SlotsAhead, DleAtReplay, Larger
  <2>4. \A i \in DOMAIN out : out[i].end < dle'
    BY <2>3, <1>end, <1>ty
  <2> QED BY <2>2, <2>4, <1>same DEF WindInv
<1>4. CASE ReplayNext
  <2>1. UNCHANGED <<out, engine, dle>> /\ at = "replay" /\ at' = "delayed"
    BY <1>4 DEF ReplayNext
  <2>2. vm'.status \in {"running", "Rose"}
    BY <1>4 DEF ReplayNext, StartVm, IdleVm
  <2> QED BY <2>1, <2>2, <1>same DEF WindInv
<1>5. CASE ReplayBadIndex
  BY <1>5, <1>stop DEF ReplayBadIndex, progVars
<1>6. CASE SlotDone
  <2>1. UNCHANGED <<out, vm, engine>> /\ at = "replay" /\ at' = "flush"
    BY <1>6 DEF SlotDone, progVars
  <2> QED BY <2>1, <1>same DEF WindInv
<1>7. CASE FlushDone
  <2>1. UNCHANGED <<out, engine>> /\ at = "flush"
    BY <1>7 DEF FlushDone
  <2>2. CASE flush.final
    BY <1>7, <2>1, <2>2, <1>same DEF FlushDone, WindInv
  <2>3. CASE ~flush.final
    <3>1. ~engine.stopped /\ at' = "direct"
      BY <1>7, <2>1, <2>3 DEF StatusInv, FlushDone
    <3>2. \A i \in DOMAIN out : ~Terminated(i)
      BY <2>1, <3>1 DEF WindInv
    <3> QED BY <2>1, <3>1, <3>2, <1>same DEF WindInv
  <2> QED BY <2>2, <2>3
<1>8. CASE Interpret
  <2>1. UNCHANGED <<at, engine, flush, dle>> /\ Running /\ RunProgram
    BY <1>8 DEF Interpret, scanVars
  <2>2. vm.status = "running" /\ vm.end = dle
    BY <2>1, StatusIsRunning DEF OrderInv
  <2>3. \A i \in DOMAIN out : Terminated(i) =>
            engine.stopped /\ at = "delayed" /\ out[i].end < dle
    BY <2>1, <2>2 DEF WindInv, StatusInv, OrderInv
  <2>4. \A i, j \in DOMAIN out : Terminated(i) /\ Terminated(j) => i = j
    BY <2>1, <2>2 DEF WindInv
  <2>5. CASE out' = out
    BY <2>1, <2>3, <2>4, <2>5, <1>same DEF WindInv
  <2>6. CASE \E dkey, reply : /\ out' = Append(out, Match(dkey, reply))
                              /\ reply = "Terminate" => vm'.status = "Terminate"
    <3>1. PICK dkey, reply : /\ out' = Append(out, Match(dkey, reply))
                             /\ reply = "Terminate" => vm'.status = "Terminate"
      BY <2>6
    <3> DEFINE e == Match(dkey, reply)
    <3>2. e.end = vm.end /\ e.confirm = vm.confirm /\ e.reply = reply
      BY DEF Match
    <3>3. out' = Append(out, e)
      BY <3>1
    <3> HIDE DEF e
    <3>4. /\ \A j \in DOMAIN out' : out'[j] = IF j \in DOMAIN out THEN out[j] ELSE e
          /\ \A j \in DOMAIN out' : j \in DOMAIN out \/ j = Len(out')
          /\ \A i, j \in DOMAIN out' : i < j => i \in DOMAIN out /\ i # j
      BY <3>3, <1>ty
    <3>5. at = "delayed" => ~vm.confirm
      BY <2>2, <1>ty DEF OrderInv
    <3>6. TerminateWindsDown'
      <4> SUFFICES ASSUME NEW i \in DOMAIN out', NEW j \in DOMAIN out', i < j,
                          out'[i].reply = "Terminate"
                   PROVE  /\ ~out'[j].confirm
                          /\ out'[i].end < out'[j].end
                          /\ out'[j].reply = "Terminate" => j = Len(out')
        BY DEF TerminateWindsDown
      <4>1. i \in DOMAIN out /\ i # j /\ out'[i] = out[i] /\ Terminated(i)
        BY <3>4
      <4>2. CASE j \in DOMAIN out
        <5>1. out'[j] = out[j] /\ ~Terminated(j)
          BY <4>1, <4>2, <3>4, <2>4
        <5> QED BY <4>1, <4>2, <5>1 DEF WindInv, TerminateWindsDown
      <4>3. CASE j \notin DOMAIN out
        BY <4>1, <4>3, <3>2, <3>4, <3>5, <2>2, <2>3
      <4> QED BY <4>2, <4>3
    <3>7. \A i \in DOMAIN out' : Terminated(i)' =>
              \/ Stopping' /\ i = Len(out')
              \/ engine'.stopped /\ (at' \in {"replay", "delayed"} => out'[i].end < dle')
      BY <2>1, <2>3, <3>1, <3>2, <3>4
    <3>8. ~Stopping' => \A i, j \in DOMAIN out' : Terminated(i)' /\ Terminated(j)' => i = j
      BY <2>1, <2>4, <3>1, <3>2, <3>4
    <3> QED BY <3>6, <3>7, <3>8 DEF WindInv
  <2> QED BY <2>1, <2>5, <2>6, InterpretReply
<1>9. CASE ReturnContinue
  <2>1. UNCHANGED <<out, vm, dle>> /\ Running /\ vm.status = "Continue"
    BY <1>9 DEF ReturnContinue, progVars
  <2>2. CASE at = "delayed"
    <3>1. at' = "replay" /\ engine' = engine
      BY <1>9, <2>2 DEF ReturnContinue
    <3> QED BY <2>1, <2>2, <3>1, <1>same DEF WindInv
  <2>3. CASE at = "direct"
    <3>1. at' = "engine" /\ ~engine.stopped
      BY <1>9, <2>3 DEF ReturnContinue, StatusInv, OrderInv
    <3>2. \A i \in DOMAIN out : ~Terminated(i)
      BY <2>1, <2>3, <3>1 DEF WindInv
    <3> QED BY <2>1, <3>1, <3>2, <1>same DEF WindInv
  <2> QED BY <2>1, <2>2, <2>3
<1>10. CASE ReturnTerminate
  BY <1>10, <1>stop DEF ReturnTerminate, progVars
<1>11. CASE ReturnErr
  BY <1>11, <1>stop DEF ReturnErr, progVars
<1>12. CASE Finished \/ UNCHANGED vars
  BY <1>12 DEF Finished, vars, progVars, scanVars, WindInv, TerminateWindsDown
<1> QED BY <1>1, <1>2, <1>3, <1>4, <1>5, <1>6, <1>7, <1>8, <1>9, <1>10, <1>11, <1>12 DEF Next

\* After a Terminate no literal is confirmed any more, only later offsets are
\* replayed, and a second Terminate is the last call of the callback.
THEOREM WindsDown == Spec => []TerminateWindsDown
<1>1. Init /\ [][Next]_vars /\ []TypeOK => [](OrderInv /\ StatusInv)
  BY InitOrder, NextOrder, InitStatus, NextStatus, PTL
<1>2. Init /\ [][Next]_vars /\ []TypeOK /\ [](OrderInv /\ StatusInv) => []WindInv
  BY InitWind, NextWind, PTL
<1>3. WindInv => TerminateWindsDown
  BY DEF WindInv
<1> QED BY <1>1, <1>2, <1>3, TypeCorrect, PTL DEF Spec
-----------------------------------------------------------------------------
(***************************************************************************)
(* The engine that OnHit assumes is a stream of hits, as seen by on_hit.   *)
(***************************************************************************)
Phase == IF at = "done" \/ flush.final THEN "closed"
         ELSE IF at # "engine" THEN "callback"
         ELSE IF engine.stopped THEN "stopped" ELSE "searching"

Bucket == IF engine.lit = 0 THEN 0 ELSE db.lits[engine.lit].bucket

\* Only a literal's answer squashes.
SquashInv == engine.lit = 0 => engine.squashed = {}

LEMMA NextSquash == TypeOK /\ HitHasLiteral /\ OrderInv /\ SquashInv /\ [Next]_vars => SquashInv'
<1> SUFFICES ASSUME TypeOK, HitHasLiteral, OrderInv, SquashInv, [Next]_vars PROVE SquashInv'
  OBVIOUS
<1>ty. engine \in EngineState
       /\ DOMAIN db.lits = 1..Len(db.lits) /\ Len(db.lits) \in Nat
  <2>1. db.lits \in Seq([prog: Nat, bucket: Nat, flood: BOOLEAN])
    BY LitAssumption DEF TypeOK, Database
  <2> QED BY <2>1 DEF TypeOK
<1>1. CASE OnHit
  <2>1. PICK lit \in DOMAIN db.lits : engine'.lit = lit
    BY <1>1, HitFields
  <2> QED BY <2>1, <1>ty DEF SquashInv
<1>2. CASE ReturnContinue
  <2>1. CASE at = "delayed"
    BY <1>2, <2>1 DEF ReturnContinue, SquashInv
  <2>2. CASE at = "direct"
    <3>1. engine'.lit = engine.lit /\ engine.lit \in DOMAIN db.lits
      BY <1>2, <2>2, <1>ty DEF ReturnContinue, OrderInv, HitHasLiteral, InHit, EngineState
    <3> QED BY <3>1, <1>ty DEF SquashInv
  <2> QED BY <1>2, <2>1, <2>2 DEF ReturnContinue
<1>3. CASE ReplayBadIndex \/ ReturnTerminate \/ ReturnErr
  BY <1>3, <1>ty
  DEF ReplayBadIndex, ReturnTerminate, ReturnErr, StopScan, SquashInv, EngineState
<1>4. CASE \/ EngineDone \/ OpenSlot \/ ReplayNext \/ SlotDone \/ FlushDone \/ Interpret
           \/ Finished \/ UNCHANGED vars
  BY <1>4 DEF EngineDone, OpenSlot, ReplayNext, SlotDone, FlushDone, Interpret, Finished,
     vars, scanVars, SquashInv
<1> QED BY <1>1, <1>2, <1>3, <1>4 DEF Next

LEMMA InitEngine == Init => Engine!Init /\ SquashInv
BY DEF Init, SquashInv, Engine!Init

LEMMA NextEngine ==
    TypeOK /\ HitHasLiteral /\ OrderInv /\ SquashInv /\ [Next]_vars =>
        [Engine!Hit \/ Engine!Answer \/ Engine!Close]_(Engine!streamVars)
<1> SUFFICES ASSUME TypeOK, HitHasLiteral, OrderInv, SquashInv, [Next]_vars
             PROVE  \/ Engine!Hit \/ Engine!Answer \/ Engine!Close
                    \/ UNCHANGED Engine!streamVars
  OBVIOUS
<1> USE DEF InHit, InFlush, Running
<1>same. UNCHANGED <<Phase, Bucket, engine>> => UNCHANGED Engine!streamVars
  BY DEF Engine!streamVars, Phase, Bucket
<1>db. UNCHANGED <<db, engine>> => UNCHANGED Bucket
  BY DEF Bucket
<1>ty. /\ engine \in EngineState
       /\ flush \in [limit: Nat, final: BOOLEAN, offset: Nat, todo: SUBSET Nat]
       /\ DOMAIN db.lits = 1..Len(db.lits) /\ Len(db.lits) \in Nat /\ buflen \in Nat
  <2>1. db.lits \in Seq([prog: Nat, bucket: Nat, flood: BOOLEAN])
    BY LitAssumption DEF TypeOK, Database
  <2> QED BY <2>1, DbType DEF TypeOK
\* on_hit, or the final flush, ends and stops the engine.
<1>stop. ASSUME StopScan, db' = db, at \in {"replay", "direct", "delayed"}
         PROVE  Engine!Answer \/ UNCHANGED Engine!streamVars
  <2>1. CASE flush.final
    <3>1. UNCHANGED <<Phase, Bucket, engine>>
      BY <1>stop, <2>1 DEF StopScan, Phase, Bucket
    <3> QED BY <3>1, <1>same
  <2>2. CASE ~flush.final
    <3>1. /\ engine'.end = engine.end /\ engine'.lit = engine.lit
          /\ engine'.squashed = engine.squashed /\ engine'.used = engine.used
          /\ Phase = "callback" /\ Phase' = "stopped" /\ Bucket' = Bucket
      BY <1>stop, <2>2, <1>ty DEF StopScan, Phase, Bucket, EngineState
    <3> QED BY <3>1 DEF Engine!Answer, Phase, Bucket
  <2> QED BY <2>1, <2>2
<1>1. CASE OnHit
  <2>1. PICK end \in engine.end..buflen, lit \in DOMAIN db.lits, flood \in BOOLEAN :
           /\ end = engine.end => lit \notin engine.used /\ ~Skipped(lit)
           /\ engine' = EngineHit(end, lit, flood)
           /\ flush' = [limit |-> end, final |-> FALSE, offset |-> 0, todo |-> {}]
    BY <1>1 DEF OnHit
  <2>2. end \in Nat /\ lit \in Nat \ {0} /\ engine.end <= end
    BY <2>1, <1>ty DEF EngineState
  <2>a. /\ engine'.end = end /\ engine'.lit = lit /\ lit \in engine'.used
        /\ end = engine.end => engine.used \subseteq engine'.used
        /\ engine'.squashed = IF end = engine.end THEN engine.squashed ELSE {}
    BY <2>1, <2>2, <1>ty, HitType
  <2>3. Phase = "searching" /\ Phase' = "callback"
    BY <1>1, <2>1 DEF OnHit, Phase, OrderInv
  <2>4. Bucket' = db.lits[lit].bucket
    BY <1>1, <2>2, <2>a DEF OnHit, Bucket
  <2>5. end = engine.end /\ Bucket' \in engine.squashed => Bucket' = Bucket
    BY <2>1, <2>4 DEF Skipped, Bucket, SquashInv
  <2> QED BY <2>1, <2>2, <2>a, <2>3, <2>5, <1>ty DEF Engine!Hit, Phase, Bucket, EngineState
<1>2. CASE EngineDone
  <2>1. /\ at = "engine" /\ ~flush.final /\ UNCHANGED <<db, engine>>
        /\ at' = "done" \/ flush'.final
    BY <1>2 DEF EngineDone, OrderInv
  <2>2. Phase \in {"searching", "stopped"} /\ Phase' = "closed"
    BY <2>1 DEF Phase
  <2> QED BY <2>1, <2>2, <1>db DEF Engine!Close, Phase, Bucket
<1>3. CASE OpenSlot \/ ReplayNext \/ SlotDone
  <2>1. /\ at \in {"flush", "replay"} /\ at' \in {"flush", "replay", "delayed"}
        /\ flush'.final = flush.final /\ UNCHANGED <<db, engine>>
    BY <1>3, <1>ty DEF OpenSlot, ReplayNext, SlotDone
  <2> QED BY <2>1, <1>same, <1>db DEF Phase
<1>4. CASE FlushDone
  <2>1. /\ at = "flush" /\ at' = IF flush.final THEN "done" ELSE "direct"
        /\ UNCHANGED <<db, engine, flush>>
    BY <1>4 DEF FlushDone
  <2> QED BY <2>1, <1>same, <1>db DEF Phase
<1>5. CASE Interpret \/ Finished \/ UNCHANGED vars
  <2>1. UNCHANGED <<db, at, engine, flush>>
    BY <1>5 DEF Interpret, Finished, vars, scanVars
  <2> QED BY <2>1, <1>same, <1>db DEF Phase
<1>6. CASE ReturnContinue
  <2>1. UNCHANGED <<db, flush>> /\ at \in {"direct", "delayed"}
    BY <1>6 DEF ReturnContinue
  <2>2. CASE at = "delayed"
    <3>1. at' = "replay" /\ engine' = engine
      BY <1>6, <2>2 DEF ReturnContinue
    <3> QED BY <2>1, <2>2, <3>1, <1>same, <1>db DEF Phase
  <2>3. CASE at = "direct"
    <3>1. /\ engine'.end = engine.end /\ engine'.lit = engine.lit /\ engine'.used = engine.used
          /\ engine.squashed \subseteq engine'.squashed /\ at' = "engine"
      BY <1>6, <2>3, <1>ty DEF ReturnContinue, EngineState
    <3>2. Phase = "callback" /\ Phase' \in {"searching", "stopped"} /\ Bucket' = Bucket
      BY <2>1, <2>3, <3>1 DEF Phase, Bucket, OrderInv
    <3> QED BY <3>1, <3>2 DEF Engine!Answer, Phase, Bucket
  <2> QED BY <2>1, <2>2, <2>3
<1>7. CASE ReplayBadIndex \/ ReturnTerminate \/ ReturnErr
  BY <1>7, <1>stop DEF ReplayBadIndex, ReturnTerminate, ReturnErr
<1> QED BY <1>1, <1>2, <1>3, <1>4, <1>5, <1>6, <1>7 DEF Next

\* The engine that a scan assumes reports hits in order, each literal once per
\* end, nothing that was squashed, and nothing after Terminate.
THEOREM ImplementsStream == Spec => EngineSpec
<1>1. Init => HitHasLiteral
  BY DEF Init, HitHasLiteral, InHit
<1>2. Init /\ [][Next]_vars /\ []TypeOK => [](HitHasLiteral /\ OrderInv)
  BY <1>1, NextHit, InitOrder, NextOrder, PTL
<1>3. Init /\ [][Next]_vars /\ []TypeOK /\ [](HitHasLiteral /\ OrderInv) => []SquashInv
  BY InitEngine, NextSquash, PTL
<1>4. /\ Init /\ [][Next]_vars /\ []TypeOK /\ [](HitHasLiteral /\ OrderInv) /\ []SquashInv
      => Engine!StreamSpec
  BY InitEngine, NextEngine, PTL DEF Engine!StreamSpec
<1> QED BY <1>2, <1>3, <1>4, TypeCorrect, PTL DEF Spec, EngineSpec
-----------------------------------------------------------------------------
(***************************************************************************)
(* The flow of control.  A step of a program goes on to the next cell or   *)
(* jumps, so a run enters guarded cells by passing their guard only.       *)
(***************************************************************************)
LEMMA GotoFields ==
    ASSUME NEW v \in VmState
    PROVE  /\ \A pc : Goto(v, pc).pc = pc /\ Goto(v, pc).status = v.status /\ Goto(v, pc).work = v.work
           /\ Next1(v).pc = v.pc + 1 /\ Next1(v).status = v.status /\ Next1(v).work = v.work
           /\ \A status : Halt(v, status).status = status
<1>1. \A pc : Goto(v, pc).pc = pc /\ Goto(v, pc).status = v.status /\ Goto(v, pc).work = v.work
  BY DEF VmState, Goto
<1>2. \A status : Halt(v, status).status = status
  BY DEF VmState, Halt
<1> QED BY <1>1, <1>2 DEF Next1

\* The instruction that a step executes, and its place.
LEMMA AtInstr ==
    ASSUME TypeOK, NEW op, Fetch(op)
    PROVE  /\ vm.pc \in CellsOf(db) /\ Instr = CellAt(db, vm.pc)
           /\ Instr \in Instruction /\ Instr.op = op /\ vm.status = "running"
<1>1. vm.pc \in Nat /\ Len(db.code) \in Nat
  BY DbType DEF TypeOK, VmState
<1>2. vm.pc \in CellsOf(db)
  BY <1>1 DEF Fetch, Overrun, CellsOf
<1>3. Instr \in Instruction /\ Instr.op = op
  BY InstrFetched
<1> QED BY <1>2, <1>3 DEF Fetch, CellAt, Instr

LEMMA InstrFail ==
    ASSUME NEW i \in Instruction, i.op \in FailOps
    PROVE  "fail" \in DOMAIN i
BY DEF Instruction, FailOps

LEMMA JumpOf ==
    ASSUME TypeOK, NEW op, Fetch(op)
    PROVE  /\ op \in FailOps => vm.pc + Instr.fail \in JumpsOf(db, vm.pc)
           /\ op = "INCLUDED_JUMP" => Instr.child \in JumpsOf(db, vm.pc)
<1>1. Instr \in Instruction /\ Instr.op = op /\ Instr = CellAt(db, vm.pc)
  BY AtInstr
<1>2. ASSUME op \in FailOps PROVE "fail" \in DOMAIN Instr
  BY <1>1, <1>2, InstrFail DEF FailOps
<1>3. ASSUME op = "INCLUDED_JUMP" PROVE "child" \in DOMAIN Instr
  BY <1>1, <1>3 DEF Instruction
<1> HIDE DEF Instr
<1> QED BY <1>1, <1>2, <1>3 DEF JumpsOf

\* A branch goes on, or jumps.
LEMMA BranchFlow ==
    ASSUME TypeOK, NEW op \in FailOps, Fetch(op), NEW ok
    PROVE  /\ IF ok THEN Branch(ok).pc = vm.pc + 1 ELSE Branch(ok).pc \in JumpsOf(db, vm.pc)
           /\ Branch(ok).work = vm.work
<1>1. vm \in VmState
  BY DEF TypeOK
<1>2. vm.pc + Instr.fail \in JumpsOf(db, vm.pc)
  BY JumpOf
<1> QED BY <1>1, <1>2, GotoFields DEF Branch

\* Where a step goes.
FlowsOn == vm'.pc = vm.pc + 1
Jumps == vm'.pc \in JumpsOf(db, vm.pc)

\* A step executes the cell at pc.  If the run goes on, it goes on to the next
\* cell or jumps, and only working cells set work_done.
LEMMA InterpretFlow ==
    ASSUME TypeOK, RunProgram, vm'.status = "running"
    PROVE  /\ Fetch(CellAt(db, vm.pc).op)
           /\ CellAt(db, vm.pc).op \notin Halting
           /\ FlowsOn \/ Jumps
           /\ vm'.work # vm.work => CellAt(db, vm.pc).op \in Working
<1>ty. vm \in VmState /\ Worked \in VmState /\ Worked.pc = vm.pc /\ Worked.status = vm.status
  BY WorkedType DEF TypeOK, VmState, Worked
<1>at. ASSUME NEW op, Fetch(op), op \notin Halting, FlowsOn \/ Jumps,
              vm'.work # vm.work => op \in Working
       PROVE  /\ Fetch(CellAt(db, vm.pc).op)
              /\ CellAt(db, vm.pc).op \notin Halting
              /\ FlowsOn \/ Jumps
              /\ vm'.work # vm.work => CellAt(db, vm.pc).op \in Working
  BY <1>at, AtInstr
<1>goto. /\ \A pc : /\ Goto(vm, pc).pc = pc /\ Goto(vm, pc).work = vm.work
                    /\ Goto(Worked, pc).pc = pc
         /\ Next1(vm).pc = vm.pc + 1 /\ Next1(vm).work = vm.work
         /\ Next1(Worked).pc = vm.pc + 1
         /\ \A status : Halt(vm, status).status = status /\ Halt(Worked, status).status = status
  BY <1>ty, GotoFields
<1>halt. OutOfProgram \/ End \/ UnknownOpcode \/ FinalReport => FALSE
  BY <1>goto, LitAssumption
  DEF OutOfProgram, End, UnknownOpcode, FinalReport, ScanCtl
<1>1. CASE CatchUp \/ CheckGroups
  BY <1>1, <1>goto, <1>at DEF CatchUp, CheckGroups, FlowsOn, Halting
<1>2. CASE CheckByte \/ CheckMask \/ CheckMask32
  BY <1>2, <1>at, BranchFlow
  DEF CheckByte, CheckMask, CheckMask32, Check, FlowsOn, Jumps, FailOps, Halting
<1>3. CASE CheckMedLit \/ CheckSingleLookaround \/ CheckLookaround
  BY <1>3, <1>at, <1>goto, BranchFlow
  DEF CheckMedLit, CheckSingleLookaround, CheckLookaround, FlowsOn, Jumps, FailOps,
      Halting
<1>4. CASE CheckBounds \/ CheckLitEarly
  BY <1>4, <1>at, BranchFlow DEF CheckBounds, CheckLitEarly, FlowsOn, Jumps, FailOps, Halting
<1>5. CASE CheckState \/ CheckNotHandled
  BY <1>5, <1>at, BranchFlow DEF CheckState, CheckNotHandled, FlowsOn, Jumps, FailOps, Halting
<1>6. CASE CheckPrefix \/ CheckInfix
  <2>1. PICK op \in {"CHECK_PREFIX", "CHECK_INFIX"} :
            Fetch(op) /\ (vm' = Branch(FALSE) \/ \E status \in InterpErrors : vm' = Halt(vm, status))
    BY <1>6 DEF CheckPrefix, CheckInfix, NfaError, InterpErrors
  <2>2. vm' = Branch(FALSE)
    BY <2>1, <1>goto DEF InterpErrors
  <2> QED BY <2>1, <2>2, <1>at, BranchFlow DEF FlowsOn, Jumps, FailOps, Halting
<1>7. CASE Report \/ DedupeAndReport
  BY <1>7, <1>at, <1>goto
  DEF Report, DedupeAndReport, AfterReport, FlowsOn, Working, Halting
<1>8. CASE DedupeSkip
  BY <1>8, <1>at, <1>goto, JumpOf DEF DedupeSkip, Jumps, FailOps, Working, Halting
<1>9. CASE IncludedJump
  <2> DEFINE squashed == [vm EXCEPT !.squash = @ \cup Instr.squash]
  <2>1. Fetch("INCLUDED_JUMP") /\ Instr.squash \in SUBSET Nat
    BY <1>9, InstrFetched, InstrType DEF IncludedJump
  <2>2. squashed \in VmState /\ squashed.work = vm.work
    BY <2>1, <1>ty DEF VmState
  <2> HIDE DEF squashed
  <2>3. \A pc : Goto(squashed, pc).pc = pc /\ Goto(squashed, pc).work = vm.work
    BY <2>2, GotoFields
  <2>4. \A status : Halt(squashed, status).status = status
    BY <2>2, GotoFields
  <2>5. vm' = Next1(vm) \/ vm' = Halt(squashed, "Rose") \/ vm' = Goto(squashed, Instr.child)
    BY <1>9 DEF IncludedJump, squashed
  <2> QED BY <2>1, <2>3, <2>4, <2>5, <1>at, <1>goto, JumpOf DEF FlowsOn, Jumps, Halting
<1>10. CASE PushDelayed
  <2> DEFINE pushed == [vm EXCEPT !.delayed = @ \cup {<<Instr.delay, Instr.index>>}]
  <2>1. Fetch("PUSH_DELAYED") /\ Instr.delay \in Nat /\ Instr.index \in Nat
    BY <1>10, InstrFetched, InstrType DEF PushDelayed
  <2>2. pushed \in VmState /\ pushed.pc = vm.pc /\ pushed.work = vm.work
    BY <2>1, <1>ty DEF VmState
  <2> HIDE DEF pushed
  <2>3. Next1(pushed).pc = vm.pc + 1 /\ Next1(pushed).work = vm.work
    BY <2>2, GotoFields
  <2>4. vm' = Next1(pushed)
    BY <1>10 DEF PushDelayed, pushed
  <2> QED BY <2>1, <2>3, <2>4, <1>at DEF FlowsOn, Halting
<1>11. CASE TriggerSuffix \/ TriggerInfix \/ SetState
  BY <1>11, <1>at, <1>goto DEF TriggerSuffix, TriggerInfix, SetState, FlowsOn, Working, Halting
<1>12. CASE SetGroups \/ SquashGroups
  BY <1>12, <1>at, <1>goto DEF SetGroups, SquashGroups, FlowsOn, Halting
<1> QED
  BY <1>halt, <1>1, <1>2, <1>3, <1>4, <1>5, <1>6, <1>7, <1>8, <1>9, <1>10, <1>11, <1>12
  DEF RunProgram

\* A step adds a match only in a matching cell, with its id, and goes on only
\* if the answer was Continue.
Matched(m) ==
    /\ out' = Append(out, m)
    /\ m \in OutEntry
    /\ vm.pc \in MatchCells(db, m.id) /\ m.end = vm.end
    /\ vm'.status = "running" => FlowsOn /\ m.reply = "Continue" /\ vm'.work
    /\ m.reply = "Continue" /\ CellAt(db, vm.pc).op = "REPORT" => vm'.status = "running"

LEMMA MatchStep ==
    ASSUME TypeOK, RunProgram
    PROVE  out' = out \/ \E m : Matched(m)
<1>ty. /\ vm \in VmState /\ Worked \in VmState /\ Worked.pc = vm.pc /\ Worked.work = TRUE
       /\ Worked.status = vm.status
       /\ out \in Seq(OutEntry) /\ Replies \subseteq ScanCtl
  BY WorkedType, LitAssumption DEF TypeOK, VmState, Worked
<1>goto. /\ Next1(Worked).pc = vm.pc + 1 /\ Next1(Worked).work = TRUE
         /\ Next1(Worked).status = vm.status
         /\ \A status : Halt(vm, status).status = status /\ Halt(Worked, status).status = status
  BY <1>ty, GotoFields
<1>entry. ASSUME NEW op, Fetch(op), NEW dkey, NEW reply, out' = Append(out, Match(dkey, reply))
          PROVE  /\ Match(dkey, reply) \in OutEntry
                 /\ Match(dkey, reply).reply = reply
                 /\ Match(dkey, reply).id = CellAt(db, vm.pc).id /\ Match(dkey, reply).end = vm.end
  <2>1. out' \in Seq(OutEntry)
    BY InterpretType DEF ProgTypeOK
  <2>2. Len(out') = Len(out) + 1 /\ out'[Len(out) + 1] = Match(dkey, reply) /\ Len(out) \in Nat
    BY <1>entry, <1>ty
  <2>3. Len(out) + 1 \in 1..Len(out')
    BY <2>2
  <2>4. out'[Len(out) + 1] \in OutEntry
    BY <2>1, <2>3
  <2> QED BY <2>2, <2>4, <1>entry, AtInstr DEF Match
<1>cell. ASSUME NEW op \in Matching, Fetch(op)
         PROVE  vm.pc \in MatchCells(db, CellAt(db, vm.pc).id)
  BY <1>cell, AtInstr DEF MatchCells
<1>1. CASE Report
  <2>1. PICK reply \in Replies :
           out' = Append(out, Match(NoDkey, reply)) /\ vm' = AfterReport(Worked, reply)
    BY <1>1 DEF Report
  <2>2. Fetch("REPORT") /\ "REPORT" \in Matching
    BY <1>1 DEF Report, Matching
  <2>3. /\ vm'.status = "running" => FlowsOn /\ reply = "Continue" /\ vm'.work
        /\ reply = "Continue" => vm'.status = "running"
    BY <2>1, <2>2, <1>ty, <1>goto DEF AfterReport, FlowsOn, ScanCtl, Fetch
  <2> QED BY <2>1, <2>2, <2>3, <1>entry, <1>cell DEF Matched
<1>2. CASE FinalReport
  <2>1. PICK reply \in Replies : out' = Append(out, Match(NoDkey, reply)) /\ vm' = Halt(vm, reply)
    BY <1>2 DEF FinalReport
  <2>2. Fetch("FINAL_REPORT") /\ "FINAL_REPORT" \in Matching
    BY <1>2 DEF FinalReport, Matching
  <2>3. vm'.status # "running" /\ CellAt(db, vm.pc).op # "REPORT"
    BY <2>1, <2>2, <1>ty, <1>goto, AtInstr DEF ScanCtl
  <2> QED BY <2>1, <2>2, <2>3, <1>entry, <1>cell DEF Matched
<1>3. CASE DedupeAndReport
  <2>1. PICK reply \in Replies :
           out' = Append(out, Match(Instr.dkey, reply)) /\ vm' = AfterReport(Worked, reply)
    BY <1>3 DEF DedupeAndReport
  <2>2. Fetch("DEDUPE_AND_REPORT") /\ "DEDUPE_AND_REPORT" \in Matching
    BY <1>3 DEF DedupeAndReport, Matching
  <2>3. vm'.status = "running" => FlowsOn /\ reply = "Continue" /\ vm'.work
    BY <2>1, <1>ty, <1>goto DEF AfterReport, FlowsOn, ScanCtl
  <2>4. CellAt(db, vm.pc).op # "REPORT"
    BY <2>2, AtInstr
  <2> QED BY <2>1, <2>2, <2>3, <2>4, <1>entry, <1>cell DEF Matched
<1>4. CASE ~(Report \/ FinalReport \/ DedupeAndReport)
  BY <1>4
  DEF RunProgram, OutOfProgram, End, UnknownOpcode, CatchUp, CheckGroups, CheckByte,
      CheckMask, CheckMask32, Check, CheckMedLit, CheckSingleLookaround, CheckLookaround,
      CheckBounds, CheckLitEarly, CheckNotHandled, CheckState, CheckPrefix, CheckInfix,
      NfaError, DedupeSkip, IncludedJump, PushDelayed, TriggerSuffix, TriggerInfix,
      SetState, SetGroups, SquashGroups
<1> QED BY <1>1, <1>2, <1>3, <1>4

\* A matching cell that is passed without a jump has matched.
LEMMA MatchPassed ==
    ASSUME TypeOK, RunProgram, vm'.status = "running",
           CellAt(db, vm.pc).op \in Matching, ~Jumps
    PROVE  out' # out
<1>1. Fetch(CellAt(db, vm.pc).op) /\ CellAt(db, vm.pc).op \notin Halting
  BY InterpretFlow
<1>2. out \in Seq(OutEntry)
  BY DEF TypeOK
<1>3. Instr.op \in Matching
  BY <1>1, AtInstr
<1>4. CASE Report \/ DedupeAndReport \/ FinalReport
  BY <1>4, <1>2 DEF Report, DedupeAndReport, FinalReport
<1>5. CASE DedupeSkip
  <2>1. Fetch("DEDUPE_AND_REPORT") /\ vm' = Goto(Worked, vm.pc + Instr.fail)
    BY <1>5 DEF DedupeSkip
  <2>2. vm'.pc = vm.pc + Instr.fail
    BY <2>1, WorkedType, GotoFields DEF TypeOK
  <2> QED BY <2>1, <2>2, JumpOf DEF Jumps, FailOps
<1>6. CASE ~(Report \/ DedupeAndReport \/ FinalReport \/ DedupeSkip)
  BY <1>6, <1>1, <1>3
  DEF Fetch, Matching, RunProgram, OutOfProgram, End, UnknownOpcode, CatchUp, CheckGroups,
      CheckByte, CheckMask, CheckMask32, Check, CheckMedLit, CheckSingleLookaround,
      CheckLookaround, CheckBounds, CheckLitEarly, CheckNotHandled, CheckState,
      CheckPrefix, CheckInfix, NfaError, IncludedJump, PushDelayed, TriggerSuffix,
      TriggerInfix, SetState, SetGroups, SquashGroups
<1> QED BY <1>4, <1>5, <1>6

\* What a step does to the groups and to the keys, and where.
LEMMA StateStep ==
    ASSUME TypeOK, RunProgram
    PROVE  /\ \A k \in dedupe'.roles \ dedupe.roles : vm.pc \in KeyCells(db, "SET_STATE", k)
           /\ dedupe.handled \subseteq dedupe'.handled
           /\ \A k \in dedupe'.handled \ dedupe.handled : vm.pc \in KeyCells(db, "CHECK_NOT_HANDLED", k)
           /\ \A g \in groups' \ groups : vm.pc \in SetCells(db, {g})
           /\ \A g \in groups \ groups' :
                 vm.pc \in CellsOf(db) /\ SquashesGroup(db, vm.pc, g) /\ vm.work
<1>ty. dedupe \in DedupeState
  BY DEF TypeOK
<1>1. CASE SetState
  <2>1. Fetch("SET_STATE") /\ groups' = groups
        /\ dedupe'.roles = dedupe.roles \cup {Instr.key} /\ dedupe'.handled = dedupe.handled
    BY <1>1, <1>ty DEF SetState, DedupeState
  <2> QED BY <2>1, AtInstr DEF KeyCells
<1>2. CASE CheckNotHandled
  <2>1. Fetch("CHECK_NOT_HANDLED") /\ groups' = groups
        /\ dedupe'.handled = dedupe.handled \cup {Instr.key} /\ dedupe'.roles = dedupe.roles
    BY <1>2, <1>ty DEF CheckNotHandled, DedupeState
  <2> QED BY <2>1, AtInstr DEF KeyCells
<1>3. CASE SetGroups
  <2>1. Fetch("SET_GROUPS") /\ groups' = groups \cup Instr.mask /\ dedupe' = dedupe
    BY <1>3 DEF SetGroups
  <2>2. vm.pc \in CellsOf(db) /\ CellAt(db, vm.pc).op = "SET_GROUPS" /\ Instr = CellAt(db, vm.pc)
    BY <2>1, AtInstr
  <2>3. ASSUME NEW g \in groups' \ groups PROVE vm.pc \in SetCells(db, {g})
    BY <2>1, <2>2, <2>3 DEF SetCells
  <2> QED BY <2>1, <2>3
<1>4. CASE SquashGroups
  <2>1. Fetch("SQUASH_GROUPS") /\ groups' = Squashed /\ dedupe' = dedupe
    BY <1>4 DEF SquashGroups
  <2> QED BY <2>1, AtInstr DEF SquashesGroup, Squashed
<1>5. CASE DedupeAndReport \/ TriggerSuffix \/ TriggerInfix
  BY <1>5, <1>ty DEF DedupeAndReport, TriggerSuffix, TriggerInfix, DedupeState
<1>6. CASE \/ OutOfProgram \/ End \/ UnknownOpcode \/ CatchUp \/ CheckGroups
           \/ CheckByte \/ CheckMask \/ CheckMask32
  BY <1>6 DEF OutOfProgram, End, UnknownOpcode, CatchUp, CheckGroups, CheckByte, CheckMask,
     CheckMask32, Check
<1>7. CASE \/ CheckMedLit \/ CheckSingleLookaround \/ CheckLookaround \/ CheckBounds
           \/ CheckLitEarly \/ CheckState \/ CheckPrefix
           \/ CheckInfix \/ Report \/ FinalReport \/ DedupeSkip \/ IncludedJump \/ PushDelayed
  BY <1>7
  DEF CheckMedLit, CheckSingleLookaround, CheckLookaround, CheckBounds, CheckLitEarly,
      CheckState, CheckPrefix, CheckInfix, NfaError, Report, FinalReport, DedupeSkip,
      IncludedJump, PushDelayed
<1> QED BY <1>1, <1>2, <1>3, <1>4, <1>5, <1>6, <1>7 DEF RunProgram

\* What is known of the state when a check of it was passed, and when a squash
\* was executed.
LEMMA StatePassed ==
    ASSUME TypeOK, RunProgram, vm'.status = "running"
    PROVE  /\ \A k : vm.pc \in KeyCells(db, "CHECK_STATE", k) => k \in dedupe.roles \/ Jumps
           /\ \A k : vm.pc \in KeyCells(db, "CHECK_NOT_HANDLED", k) =>
                        k \in dedupe'.handled /\ (k \notin dedupe.handled \/ Jumps)
           /\ \A mask : vm.pc \in GroupCells(db, mask) => mask \cap groups # {}
<1> DEFINE op == CellAt(db, vm.pc).op
<1>1. Fetch(op) /\ Instr = CellAt(db, vm.pc) /\ Instr.op = op
  BY InterpretFlow, AtInstr
<1>ty. dedupe \in DedupeState
  BY DEF TypeOK
<1>2. CASE op = "CHECK_STATE"
  <2>1. CheckState
    BY <1>1, <1>2
    DEF Fetch, RunProgram, OutOfProgram, End, UnknownOpcode, CatchUp, CheckGroups,
        CheckByte, CheckMask, CheckMask32, Check, CheckMedLit, CheckSingleLookaround,
        CheckLookaround, CheckBounds, CheckLitEarly, CheckNotHandled, CheckPrefix,
        CheckInfix, NfaError, Report, FinalReport, DedupeAndReport, DedupeSkip,
        IncludedJump, PushDelayed, TriggerSuffix, TriggerInfix, SetState, SetGroups,
        SquashGroups
  <2>2. vm' = Branch(Instr.key \in dedupe.roles)
    BY <2>1 DEF CheckState
  <2>3. Instr.key \in dedupe.roles \/ Jumps
    BY <1>1, <1>2, <2>2, BranchFlow DEF FailOps, Jumps
  <2> QED BY <1>1, <1>2, <2>3 DEF KeyCells, GroupCells
<1>3. CASE op = "CHECK_NOT_HANDLED"
  <2>1. CheckNotHandled
    BY <1>1, <1>3
    DEF Fetch, RunProgram, OutOfProgram, End, UnknownOpcode, CatchUp, CheckGroups,
        CheckByte, CheckMask, CheckMask32, Check, CheckMedLit, CheckSingleLookaround,
        CheckLookaround, CheckBounds, CheckLitEarly, CheckState, CheckPrefix, CheckInfix,
        NfaError, Report, FinalReport, DedupeAndReport, DedupeSkip, IncludedJump,
        PushDelayed, TriggerSuffix, TriggerInfix, SetState, SetGroups, SquashGroups
  <2>2. vm' = Branch(Instr.key \notin dedupe.handled) /\ Instr.key \in dedupe'.handled
    BY <2>1, <1>ty DEF CheckNotHandled, DedupeState
  <2>3. Instr.key \notin dedupe.handled \/ Jumps
    BY <1>1, <1>3, <2>2, BranchFlow DEF FailOps, Jumps
  <2> QED BY <1>1, <1>3, <2>2, <2>3 DEF KeyCells, GroupCells
<1>4. CASE op = "CHECK_GROUPS"
  <2>1. CheckGroups
    BY <1>1, <1>4
    DEF Fetch, RunProgram, OutOfProgram, End, UnknownOpcode, CatchUp, CheckByte,
        CheckMask, CheckMask32, Check, CheckMedLit, CheckSingleLookaround,
        CheckLookaround, CheckBounds, CheckLitEarly, CheckNotHandled, CheckState,
        CheckPrefix, CheckInfix, NfaError, Report, FinalReport, DedupeAndReport,
        DedupeSkip, IncludedJump, PushDelayed, TriggerSuffix, TriggerInfix, SetState,
        SetGroups, SquashGroups
  <2>2. Halt(vm, "Continue").status = "Continue"
    BY GotoFields DEF TypeOK
  <2>3. Instr.mask \cap groups # {}
    BY <2>1, <2>2 DEF CheckGroups
  <2> QED BY <1>1, <1>4, <2>3 DEF KeyCells, GroupCells
<1>5. CASE op \notin {"CHECK_STATE", "CHECK_NOT_HANDLED", "CHECK_GROUPS"}
  BY <1>5 DEF KeyCells, GroupCells
<1> QED BY <1>2, <1>3, <1>4, <1>5

\* A squash takes a group away from a run that did work, or the run fails.
LEMMA SquashRuns ==
    ASSUME TypeOK, RunProgram, NEW g, SquashesGroup(db, vm.pc, g), vm.work
    PROVE  g \notin groups' \/ vm'.status \in InterpErrors
<1>1. CASE Overrun
  <2>1. OutOfProgram
    BY <1>1
    DEF Fetch, RunProgram, End, UnknownOpcode, CatchUp, CheckGroups, CheckByte, CheckMask,
        CheckMask32, Check, CheckMedLit, CheckSingleLookaround, CheckLookaround,
        CheckBounds, CheckLitEarly, CheckNotHandled, CheckState, CheckPrefix, CheckInfix,
        NfaError, Report, FinalReport, DedupeAndReport, DedupeSkip, IncludedJump,
        PushDelayed, TriggerSuffix, TriggerInfix, SetState, SetGroups, SquashGroups
  <2> QED BY <2>1, GotoFields DEF OutOfProgram, InterpErrors, TypeOK
<1>2. CASE ~Overrun
  <2>1. Fetch(Instr.op)
    BY <1>2, StatusIsRunning DEF Fetch
  <2>2. Instr = CellAt(db, vm.pc) /\ Instr.op = "SQUASH_GROUPS" /\ g \notin Instr.mask
    BY <2>1, AtInstr DEF SquashesGroup
  <2>3. SquashGroups
    BY <1>2, <2>2
    DEF Fetch, RunProgram, OutOfProgram, End, UnknownOpcode, CatchUp, CheckGroups,
        CheckByte, CheckMask, CheckMask32, Check, CheckMedLit, CheckSingleLookaround,
        CheckLookaround, CheckBounds, CheckLitEarly, CheckNotHandled, CheckState,
        CheckPrefix, CheckInfix, NfaError, Report, FinalReport, DedupeAndReport,
        DedupeSkip, IncludedJump, PushDelayed, TriggerSuffix, TriggerInfix, SetState,
        SetGroups
  <2> QED BY <2>2, <2>3 DEF SquashGroups, Squashed
<1> QED BY <1>1, <1>2

\* Guarded cells are entered from their guard.
LEMMA Entered ==
    ASSUME TypeOK, RunProgram, vm'.status = "running",
           NEW n \in Int, NEW m \in Int, Guards(db, n, m), vm'.pc \in n+1..m
    PROVE  vm.pc \in n+1..m \/ (vm.pc = n /\ ~Jumps)
<1>1. vm.pc \in CellsOf(db) /\ vm.pc \in Int
  <2>1. Fetch(CellAt(db, vm.pc).op)
    BY InterpretFlow
  <2> QED BY <2>1, AtInstr DEF TypeOK, VmState
<1>2. CASE vm.pc \notin n+1..m
  <2>1. ~Jumps
    BY <1>1, <1>2 DEF Guards, Jumps
  <2>2. vm'.pc = vm.pc + 1
    BY <2>1, InterpretFlow DEF FlowsOn
  <2> QED BY <1>1, <1>2, <2>1, <2>2
<1> QED BY <1>2

\* The steps of the scan around the programs start runs, or leave the state of
\* the programs and the matches alone; a failure stays one.
Failed == err # "None" \/ (Running /\ vm.status \in InterpErrors)

StartsRun ==
    /\ ~Running /\ Running' /\ err = "None"
    /\ vm'.pc \in StartsOf(db) /\ ~vm'.work
    /\ UNCHANGED <<groups, dedupe, out, err>>

RestsRun ==
    /\ vm.status = "running" /\ Running => Running'
    /\ Failed => Failed'
    /\ UNCHANGED <<groups, dedupe, out, vm>>

LEMMA StepKinds ==
    ASSUME TypeOK, StatusInv, HitHasLiteral, [Next]_vars
    PROVE  /\ db' = db
           /\ \/ RunProgram /\ Running /\ UNCHANGED <<at, err>>
              \/ StartsRun
              \/ RestsRun
<1>1. CASE OnHit \/ EngineDone \/ OpenSlot \/ ReplayBadIndex \/ SlotDone
  BY <1>1
  DEF OnHit, EngineDone, OpenSlot, ReplayBadIndex, SlotDone, StopScan, progVars, scanVars,
      RestsRun, Running, Failed
<1>2. CASE ReplayNext
  <2>1. PICK i \in DOMAIN db.delayed : vm' = StartVm(db.delayed[i], flush.offset, FALSE, i)
    BY <1>2 DEF ReplayNext
  <2>2. db.delayed[i] \in StartsOf(db)
    BY DEF StartsOf
  <2>3. err = "None"
    BY <1>2 DEF StatusInv, ReplayNext
  <2>4. vm'.pc \in StartsOf(db) /\ ~vm'.work
    BY <2>1, <2>2 DEF StartVm, IdleVm
  <2> QED BY <1>2, <2>3, <2>4 DEF ReplayNext, StartsRun, Running
<1>3. CASE FlushDone
  <2>1. CASE flush.final
    BY <1>3, <2>1 DEF FlushDone, RestsRun, Running, Failed
  <2>2. CASE ~flush.final
    <3>1. engine.lit \in DOMAIN db.lits /\ err = "None" /\ at = "flush"
      BY <1>3, <2>2 DEF HitHasLiteral, InHit, FlushDone, StatusInv
    <3>2. db.lits[engine.lit].prog \in StartsOf(db)
      BY <3>1 DEF StartsOf
    <3>3. vm' = StartVm(db.lits[engine.lit].prog, flush.limit, TRUE, 0)
      BY <1>3, <2>2 DEF FlushDone
    <3>4. vm'.pc \in StartsOf(db) /\ ~vm'.work
      BY <3>2, <3>3 DEF StartVm, IdleVm
    <3> QED BY <1>3, <2>2, <3>1, <3>4 DEF FlushDone, StartsRun, Running
  <2> QED BY <2>1, <2>2
<1>4. CASE Interpret
  BY <1>4 DEF Interpret, scanVars, Running
<1>5. CASE ReturnContinue \/ ReturnTerminate
  <2>1. vm.status \notin InterpErrors /\ vm.status # "running" /\ err' = err /\ db' = db
        /\ UNCHANGED <<groups, dedupe, out, vm>>
    BY <1>5 DEF ReturnContinue, ReturnTerminate, InterpErrors, progVars
  <2> QED BY <2>1 DEF RestsRun, Failed
<1>6. CASE ReturnErr
  <2>1. vm.status \in InterpErrors /\ err' = vm.status /\ db' = db
        /\ UNCHANGED <<groups, dedupe, out, vm>>
    BY <1>6 DEF ReturnErr, progVars
  <2>2. vm.status # "running" /\ vm.status # "None"
    BY <2>1 DEF InterpErrors
  <2> QED BY <2>1, <2>2 DEF RestsRun, Failed
<1>7. CASE Finished \/ UNCHANGED vars
  BY <1>7 DEF Finished, vars, progVars, scanVars, RestsRun, Running, Failed
<1> QED BY <1>1, <1>2, <1>3, <1>4, <1>5, <1>6, <1>7 DEF Next

\* A run is in progress only where scan_block waits for one.
LiveInv == vm.status = "running" => Running

LEMMA InitLive == Init => LiveInv
BY DEF Init, LiveInv, IdleVm

LEMMA NextLive == TypeOK /\ StatusInv /\ HitHasLiteral /\ LiveInv /\ [Next]_vars => LiveInv'
BY StepKinds DEF LiveInv, Running, StartsRun, RestsRun

-----------------------------------------------------------------------------
(***************************************************************************)
(* A valid database never fails.  Its cells are numbered so that control   *)
(* goes up, wherever a jump leads: a run has taken no more steps than the  *)
(* number of its cell and reaches an end before the budget does; what it   *)
(* pushes names a delay program.                                           *)
(***************************************************************************)
Numbering(d) == CHOOSE number \in [CellsOf(d) -> CellsOf(d)] : Ascends(d, number)

\* A check that reads a list of the bytecode comes to pass or fail.
Branches ==
    /\ Instr.op = "CHECK_MED_LIT" => ~(Instr.lit > Len(db.code))
    /\ Instr.op = "CHECK_SINGLE_LOOKAROUND" => ~(Instr.reach > Len(db.code))
    /\ Instr.op = "CHECK_LOOKAROUND" =>
          ~(Instr.look > Len(db.code)) /\ ~(Instr.reach > Len(db.code)) /\ ~Instr.short

VmFits(v) ==
    /\ v.status \notin InterpErrors
    /\ v.status = "running" => v.pc \in CellsOf(db) /\ v.steps <= Numbering(db)[v.pc]
    /\ \A p \in v.delayed : p[2] \in DOMAIN db.delayed

ErrInv ==
    Valid(db) =>
        /\ err = "None"
        /\ VmFits(vm)
        /\ \A s \in slots : s[2] \in DOMAIN db.delayed
        /\ flush.todo \subseteq DOMAIN db.delayed

LEMMA NumberingAscends ==
    ASSUME NEW d, Valid(d)
    PROVE  Numbering(d) \in [CellsOf(d) -> CellsOf(d)] /\ Ascends(d, Numbering(d))
BY DEF Valid, Acyclic, Numbering

\* What Valid says of the cell that is executed.
LEMMA CellFits ==
    ASSUME TypeOK, Valid(db), NEW op, Fetch(op)
    PROVE  /\ op \notin {"OTHER", "CHECK_PREFIX", "CHECK_INFIX"}
           /\ op \notin {"END", "FINAL_REPORT"} => vm.pc + 1 \in FlowsTo(db, vm.pc)
           /\ op \in FailOps => vm.pc + Instr.fail \in FlowsTo(db, vm.pc)
           /\ op \in {"CHECK_MED_LIT", "CHECK_SINGLE_LOOKAROUND", "CHECK_LOOKAROUND"} =>
                  Branches
           /\ op = "INCLUDED_JUMP" =>
                  Instr.child \in FlowsTo(db, vm.pc) /\ ~(Instr.child > Len(db.code))
           /\ op = "PUSH_DELAYED" => Instr.index \in DOMAIN db.delayed
           /\ FlowsTo(db, vm.pc) \subseteq CellsOf(db)
<1>1. /\ vm.pc \in CellsOf(db) /\ Instr = CellAt(db, vm.pc)
      /\ Instr \in Instruction /\ Instr.op = op /\ Len(db.code) \in Nat
  BY AtInstr, DbType
<1>2. ValidCell(db, vm.pc)
  BY <1>1 DEF Valid
<1>3. op \notin {"OTHER", "CHECK_PREFIX", "CHECK_INFIX"} /\ FlowsTo(db, vm.pc) \subseteq CellsOf(db)
  BY <1>1, <1>2 DEF ValidCell
<1>4. op \notin {"END", "FINAL_REPORT"} => vm.pc + 1 \in FlowsTo(db, vm.pc)
  BY <1>1, <1>3 DEF FlowsTo, Halting
<1>5. op \in FailOps => vm.pc + Instr.fail \in FlowsTo(db, vm.pc)
  BY JumpOf DEF FlowsTo
<1>6. op = "INCLUDED_JUMP" => Instr.child \in FlowsTo(db, vm.pc)
  BY JumpOf DEF FlowsTo
<1>7. op = "INCLUDED_JUMP" => ~(Instr.child > Len(db.code))
  BY <1>1, <1>3, <1>6 DEF CellsOf
<1>8. ASSUME op \in {"CHECK_MED_LIT", "CHECK_SINGLE_LOOKAROUND", "CHECK_LOOKAROUND"}
      PROVE  Branches
  <2>1. CASE op = "CHECK_MED_LIT"
    <3>1. Instr.lit \in Nat /\ Instr.lit <= Len(db.code)
      BY <1>1, <1>2, <2>1 DEF ValidCell, Instruction
    <3> QED BY <3>1, <2>1, <1>1 DEF Branches
  <2>2. CASE op = "CHECK_SINGLE_LOOKAROUND"
    <3>1. Instr.reach \in Nat /\ Instr.reach <= Len(db.code)
      BY <1>1, <1>2, <2>2 DEF ValidCell, Instruction
    <3> QED BY <3>1, <2>2, <1>1 DEF Branches
  <2>3. CASE op = "CHECK_LOOKAROUND"
    <3>1. /\ Instr.look \in Nat /\ Instr.look <= Len(db.code)
          /\ Instr.reach \in Nat /\ Instr.reach <= Len(db.code) /\ ~Instr.short
      BY <1>1, <1>2, <2>3 DEF ValidCell, Instruction
    <3> QED BY <3>1, <2>3, <1>1 DEF Branches
  <2> QED BY <1>8, <2>1, <2>2, <2>3
<1>9. op = "PUSH_DELAYED" => Instr.index \in DOMAIN db.delayed
  BY <1>1, <1>2 DEF ValidCell
<1> QED BY <1>3, <1>4, <1>5, <1>6, <1>7, <1>8, <1>9

\* A step to where control may go takes the number of a cell that is larger.
LEMMA GotoFits ==
    ASSUME Valid(db), Len(db.code) \in Nat,
           NEW v \in VmState, VmFits(v), v.status = "running",
           NEW pc \in FlowsTo(db, v.pc), FlowsTo(db, v.pc) \subseteq CellsOf(db)
    PROVE  VmFits(Goto(v, pc))
<1> DEFINE number == Numbering(db)
<1>1. v.steps \in Nat /\ v.pc \in CellsOf(db) /\ v.steps <= number[v.pc]
  BY DEF VmState, VmFits
<1>2. number \in [CellsOf(db) -> CellsOf(db)] /\ number[v.pc] < number[pc]
  BY <1>1, NumberingAscends DEF Ascends
<1>3. number[v.pc] \in CellsOf(db) /\ number[pc] \in CellsOf(db)
  BY <1>1, <1>2
<1> HIDE DEF number
<1>4. Tick(v.steps) <= number[pc]
  BY <1>1, <1>2, <1>3 DEF Tick, MaxSteps, CellsOf
<1>5. /\ Goto(v, pc).status = "running" /\ Goto(v, pc).pc = pc
      /\ Goto(v, pc).steps = Tick(v.steps) /\ Goto(v, pc).delayed = v.delayed
  BY DEF Goto, VmState
<1> QED BY <1>4, <1>5 DEF VmFits, InterpErrors, number

LEMMA HaltFits ==
    ASSUME NEW v \in VmState, VmFits(v), NEW status \in ScanCtl
    PROVE  VmFits(Halt(v, status))
<1>1. Halt(v, status).status = status /\ Halt(v, status).delayed = v.delayed
  BY DEF Halt, VmState
<1> QED BY <1>1 DEF VmFits, ScanCtl, InterpErrors

\* A step of a run of a valid database does not fail.
LEMMA InterpretFits ==
    ASSUME TypeOK, Valid(db), VmFits(vm), RunProgram
    PROVE  VmFits(vm')
<1>n. Len(db.code) \in Nat
  BY DbType
<1>ty. vm \in VmState /\ Worked \in VmState /\ vm.pc \in Nat /\ vm.steps \in Nat
  BY WorkedType DEF TypeOK, VmState
<1>run. /\ vm.status = "running" /\ vm.pc \in CellsOf(db)
        /\ Numbering(db)[vm.pc] \in CellsOf(db) /\ vm.steps <= Numbering(db)[vm.pc]
  BY StatusIsRunning, NumberingAscends DEF VmFits
<1>worked. /\ Worked.status = "running" /\ Worked.pc = vm.pc /\ VmFits(Worked)
  BY <1>ty, <1>run DEF Worked, VmFits, VmState
<1>goto. ASSUME NEW op, Fetch(op), NEW pc \in FlowsTo(db, vm.pc)
         PROVE  VmFits(Goto(vm, pc)) /\ VmFits(Goto(Worked, pc))
  BY <1>goto, <1>n, <1>ty, <1>run, <1>worked, CellFits, GotoFits
<1>next. ASSUME NEW op, Fetch(op), op \notin {"END", "FINAL_REPORT"}
         PROVE  VmFits(Next1(vm)) /\ VmFits(Next1(Worked))
  BY <1>next, <1>goto, <1>worked, CellFits DEF Next1
<1>fail. ASSUME NEW op \in FailOps, Fetch(op)
         PROVE  /\ VmFits(Goto(vm, vm.pc + Instr.fail))
                /\ VmFits(Goto(Worked, vm.pc + Instr.fail))
                /\ \A ok : VmFits(Branch(ok))
  <2>1. vm.pc + Instr.fail \in FlowsTo(db, vm.pc)
    BY <1>fail, CellFits
  <2>2. VmFits(Goto(vm, vm.pc + Instr.fail)) /\ VmFits(Goto(Worked, vm.pc + Instr.fail))
    BY <2>1, <1>fail, <1>goto
  <2> QED BY <2>2, <1>fail, <1>next DEF Branch, FailOps
<1>halt. \A status \in ScanCtl : VmFits(Halt(vm, status)) /\ VmFits(Halt(Worked, status))
  BY <1>ty, <1>worked, HaltFits
<1>after. ASSUME NEW op, Fetch(op), op \in {"REPORT", "DEDUPE_AND_REPORT"}, NEW reply
          PROVE  VmFits(AfterReport(Worked, reply))
  BY <1>after, <1>next, <1>halt DEF AfterReport, ScanCtl
<1>1. CASE OutOfProgram
  BY <1>1, <1>n, <1>ty, <1>run DEF OutOfProgram, Overrun, MaxSteps, CellsOf
<1>2. CASE UnknownOpcode \/ CheckPrefix \/ CheckInfix
  BY <1>2, CellFits DEF UnknownOpcode, CheckPrefix, CheckInfix, NfaError
<1>3. CASE End \/ CatchUp \/ CheckGroups
  BY <1>3, <1>next, <1>halt DEF End, CatchUp, CheckGroups, ScanCtl
<1>4. CASE CheckByte \/ CheckMask \/ CheckMask32
  BY <1>4, <1>fail DEF CheckByte, CheckMask, CheckMask32, Check, FailOps
<1>5. CASE CheckMedLit \/ CheckSingleLookaround \/ CheckLookaround
  <2>1. PICK op \in {"CHECK_MED_LIT", "CHECK_SINGLE_LOOKAROUND", "CHECK_LOOKAROUND"} : Fetch(op)
    BY <1>5 DEF CheckMedLit, CheckSingleLookaround, CheckLookaround
  <2>2. Branches /\ Instr.op = op
    BY <2>1, CellFits, AtInstr
  <2>3. \A ok : VmFits(Branch(ok))
    BY <2>1, <1>fail DEF FailOps
  <2> QED BY <1>5, <2>2, <2>3
  DEF CheckMedLit, CheckSingleLookaround, CheckLookaround, Branches, Fetch
<1>6. CASE CheckBounds \/ CheckLitEarly \/ CheckState \/ CheckNotHandled
  BY <1>6, <1>fail DEF CheckBounds, CheckLitEarly, CheckState, CheckNotHandled, FailOps
<1>7. CASE Report \/ DedupeAndReport
  BY <1>7, <1>after DEF Report, DedupeAndReport
<1>8. CASE FinalReport
  BY <1>8, <1>halt, LitAssumption DEF FinalReport
<1>9. CASE DedupeSkip
  BY <1>9, <1>fail DEF DedupeSkip, FailOps
<1>10. CASE IncludedJump
  <2> DEFINE squashed == [vm EXCEPT !.squash = @ \cup Instr.squash]
  <2>1. Instr.squash \in SUBSET Nat
    BY <1>10, InstrFetched, InstrType DEF IncludedJump
  <2>2. /\ squashed \in VmState /\ squashed.status = "running" /\ squashed.pc = vm.pc
        /\ squashed.steps = vm.steps /\ squashed.delayed = vm.delayed
    BY <2>1, <1>ty, <1>run DEF VmState
  <2>3. /\ Instr.child \in FlowsTo(db, vm.pc) /\ FlowsTo(db, vm.pc) \subseteq CellsOf(db)
        /\ ~(Instr.child > Len(db.code)) /\ VmFits(Next1(vm))
    BY <1>10, <1>next, CellFits DEF IncludedJump
  <2> HIDE DEF squashed
  <2>4. VmFits(squashed)
    BY <2>2, <1>run DEF VmFits
  <2>5. VmFits(Goto(squashed, Instr.child))
    BY <2>2, <2>3, <2>4, <1>n, GotoFits
  <2> QED BY <1>10, <2>3, <2>5 DEF IncludedJump, squashed
<1>11. CASE PushDelayed
  <2> DEFINE pushed == [vm EXCEPT !.delayed = @ \cup {<<Instr.delay, Instr.index>>}]
  <2>1. /\ Instr.delay \in Nat /\ Instr.index \in Nat
        /\ Instr.index \in DOMAIN db.delayed
        /\ vm.pc + 1 \in FlowsTo(db, vm.pc) /\ FlowsTo(db, vm.pc) \subseteq CellsOf(db)
    BY <1>11, InstrFetched, InstrType, CellFits DEF PushDelayed
  <2>2. vm.delayed \cup {<<Instr.delay, Instr.index>>} \in SUBSET (Nat \X Nat)
    BY <2>1, <1>ty DEF VmState
  <2>3. /\ pushed \in VmState /\ pushed.status = "running" /\ pushed.pc = vm.pc
        /\ pushed.steps = vm.steps
        /\ pushed.delayed = vm.delayed \cup {<<Instr.delay, Instr.index>>}
    BY <2>2, <1>ty, <1>run DEF VmState
  <2> HIDE DEF pushed
  <2>4. VmFits(pushed)
    BY <2>1, <2>3, <1>run DEF VmFits
  <2>5. VmFits(Goto(pushed, pushed.pc + 1))
    BY <2>1, <2>3, <2>4, <1>n, <1>ty, GotoFits
  <2> QED BY <1>11, <2>5 DEF PushDelayed, Next1, pushed
<1>12. CASE TriggerSuffix \/ TriggerInfix \/ SetState \/ SetGroups \/ SquashGroups
  BY <1>12, <1>next DEF TriggerSuffix, TriggerInfix, SetState, SetGroups, SquashGroups
<1> QED BY <1>1, <1>2, <1>3, <1>4, <1>5, <1>6, <1>7, <1>8, <1>9, <1>10, <1>11, <1>12
        DEF RunProgram

LEMMA StartFits ==
    ASSUME Valid(db), NEW prog \in CellsOf(db), Len(db.code) \in Nat,
           NEW end, NEW confirm, NEW index
    PROVE  VmFits(StartVm(prog, end, confirm, index))
<1>1. Numbering(db)[prog] \in CellsOf(db)
  BY NumberingAscends
<1> QED BY <1>1 DEF VmFits, StartVm, IdleVm, InterpErrors, CellsOf

LEMMA InitErr == Init => ErrInv
BY DEF Init, ErrInv, VmFits, IdleVm, InterpErrors

LEMMA NextErr == TypeOK /\ HitHasLiteral /\ ErrInv /\ [Next]_vars => ErrInv'
<1>0. [Next]_vars => db' = db
  BY DEF Next, OnHit, EngineDone, OpenSlot, ReplayNext, ReplayBadIndex, SlotDone, FlushDone,
     Interpret, ReturnContinue, ReturnTerminate, ReturnErr, Finished, vars
<1> SUFFICES ASSUME TypeOK, HitHasLiteral, ErrInv, [Next]_vars, Valid(db), db' = db
             PROVE  /\ err' = "None"
                    /\ VmFits(vm')
                    /\ \A s \in slots' : s[2] \in DOMAIN db.delayed
                    /\ flush'.todo \subseteq DOMAIN db.delayed
  BY <1>0 DEF ErrInv, VmFits
<1>ty. /\ vm \in VmState /\ Len(db.code) \in Nat
       /\ flush \in [limit: Nat, final: BOOLEAN, offset: Nat, todo: SUBSET Nat]
       /\ \A i \in DOMAIN db.delayed : db.delayed[i] \in CellsOf(db)
       /\ \A l \in DOMAIN db.lits : db.lits[l].prog \in CellsOf(db)
  BY DbType DEF TypeOK, Valid, CellsOf
<1>inv. /\ err = "None" /\ VmFits(vm)
        /\ \A s \in slots : s[2] \in DOMAIN db.delayed
        /\ flush.todo \subseteq DOMAIN db.delayed
  BY DEF ErrInv
<1>push. \A s \in WithPushed : s[2] \in DOMAIN db.delayed
  BY <1>inv DEF WithPushed, Pushed, VmFits
<1>1. CASE OnHit \/ EngineDone
  <2>1. UNCHANGED <<vm, slots, err>>
    BY <1>1 DEF OnHit, EngineDone, progVars
  <2>2. flush' = flush \/ flush'.todo = {}
    <3>1. CASE OnHit
      <4>1. PICK end : flush' = [limit |-> end, final |-> FALSE, offset |-> 0, todo |-> {}]
        BY <3>1 DEF OnHit
      <4> QED BY <4>1
    <3>2. CASE EngineDone
      BY <3>2 DEF EngineDone
    <3> QED BY <1>1, <3>1, <3>2
  <2> QED BY <2>1, <2>2, <1>inv
<1>2. CASE OpenSlot
  BY <1>2, <1>inv, <1>ty DEF OpenSlot, progVars
<1>3. CASE ReplayNext
  <2>1. PICK i \in flush.todo :
           /\ i \in DOMAIN db.delayed
           /\ vm' = StartVm(db.delayed[i], flush.offset, FALSE, i)
           /\ flush' = [flush EXCEPT !.todo = @ \ {i}]
    BY <1>3 DEF ReplayNext
  <2>2. VmFits(vm')
    BY <2>1, <1>ty, StartFits
  <2> QED BY <1>3, <2>1, <2>2, <1>inv, <1>ty DEF ReplayNext
<1>4. CASE ReplayBadIndex
  BY <1>4, <1>inv DEF ReplayBadIndex
<1>5. CASE SlotDone
  BY <1>5, <1>inv DEF SlotDone, progVars
<1>6. CASE FlushDone
  <2>1. UNCHANGED <<slots, flush, err>> /\ at = "flush"
    BY <1>6 DEF FlushDone
  <2>2. VmFits(vm')
    <3>1. CASE flush.final
      BY <1>6, <3>1, <1>inv DEF FlushDone
    <3>2. CASE ~flush.final
      <4>1. engine.lit \in DOMAIN db.lits
        BY <3>2, <2>1 DEF HitHasLiteral, InHit
      <4> DEFINE prog == db.lits[engine.lit].prog
      <4>2. vm' = StartVm(prog, flush.limit, TRUE, 0)
        BY <1>6, <3>2 DEF FlushDone
      <4>3. prog \in CellsOf(db)
        BY <4>1, <1>ty
      <4> HIDE DEF prog
      <4> QED BY <4>2, <4>3, <1>ty, StartFits
    <3> QED BY <3>1, <3>2
  <2> QED BY <2>1, <2>2, <1>inv
<1>7. CASE Interpret
  BY <1>7, <1>inv, InterpretFits DEF Interpret, scanVars
<1>8. CASE ReturnContinue
  BY <1>8, <1>inv, <1>push DEF ReturnContinue, progVars
<1>9. CASE ReturnTerminate
  BY <1>9, <1>inv, <1>push, <1>ty DEF ReturnTerminate, StopScan, progVars
<1>10. CASE ReturnErr
  BY <1>10, <1>inv DEF ReturnErr, VmFits
<1>11. CASE Finished \/ UNCHANGED vars
  BY <1>11, <1>inv DEF Finished, vars, progVars, scanVars
<1> QED BY <1>1, <1>2, <1>3, <1>4, <1>5, <1>6, <1>7, <1>8, <1>9, <1>10, <1>11 DEF Next

\* A scan of a database whose offsets exist, whose cells are known and ask for
\* no engine, and whose programs do not come back to a cell, never fails: the
\* instruction budget of a run (literal.rs:242-246) and the checks of its
\* offsets stop no such program, whichever way its jumps lead.
THEOREM ValidScans == Spec => []ValidNeverErrs
<1>1. ErrInv => ValidNeverErrs
  BY DEF ErrInv, ValidNeverErrs
<1>2. Init => HitHasLiteral
  BY DEF Init, HitHasLiteral, InHit
<1>3. Init /\ [][Next]_vars /\ []TypeOK => []HitHasLiteral
  BY <1>2, NextHit, PTL
<1>4. Init /\ [][Next]_vars /\ []TypeOK /\ []HitHasLiteral => []ErrInv
  BY InitErr, NextErr, PTL
<1> QED BY <1>1, <1>3, <1>4, TypeCorrect, PTL DEF Spec
-----------------------------------------------------------------------------
(***************************************************************************)
(* Matches follow the matches that switch them on.  While a switch is on,  *)
(* and while a run is behind the check of it, the match that it lies       *)
(* behind was made; so it was behind the cell of that match.               *)
(***************************************************************************)
Seen(x) == \E i \in DOMAIN out : out[i].id = x
Follows(x, y) == \A j \in DOMAIN out : out[j].id = x => \E i \in 1..j-1 : out[i].id = y

InRun(n, m) == vm.status = "running" /\ Guards(db, n, m) /\ vm.pc \in n+1..m

LEMMA Appended ==
    ASSUME TypeOK, NEW m, Matched(m)
    PROVE  /\ Len(out) \in Nat /\ DOMAIN out = 1..Len(out)
           /\ DOMAIN out' = 1..Len(out)+1
           /\ \A i \in DOMAIN out : out'[i] = out[i]
           /\ out'[Len(out) + 1] = m
<1>1. out \in Seq(OutEntry) /\ out' = Append(out, m) /\ m \in OutEntry
  BY DEF TypeOK, Matched
<1> QED BY <1>1

LEMMA SeenGrows ==
    ASSUME TypeOK, RunProgram
    PROVE  /\ \A y : Seen(y) => Seen(y)'
           /\ \A m : Matched(m) => Seen(m.id)'
           /\ \A y : Seen(y)' /\ ~Seen(y) => vm.pc \in MatchCells(db, y)
<1>1. CASE out' = out
  <2>1. \A m : ~Matched(m)
    <3> SUFFICES ASSUME NEW m, Matched(m) PROVE FALSE
      OBVIOUS
    <3>1. Len(out) \in Nat /\ DOMAIN out = 1..Len(out) /\ DOMAIN out' = 1..Len(out)+1
      BY Appended
    <3>2. Len(out) + 1 \in DOMAIN out' /\ Len(out) + 1 \notin DOMAIN out
      BY <3>1
    <3> QED BY <1>1, <3>2
  <2> QED BY <1>1, <2>1 DEF Seen
<1>2. ASSUME NEW m, Matched(m)
      PROVE  /\ \A y : Seen(y) => Seen(y)'
             /\ Seen(m.id)'
             /\ \A y : Seen(y)' /\ ~Seen(y) => vm.pc \in MatchCells(db, y)
  <2>1. /\ Len(out) \in Nat /\ DOMAIN out = 1..Len(out) /\ DOMAIN out' = 1..Len(out)+1
        /\ \A i \in DOMAIN out : out'[i] = out[i]
        /\ out'[Len(out) + 1] = m
    BY <1>2, Appended
  <2>2. DOMAIN out \subseteq DOMAIN out' /\ Len(out) + 1 \in DOMAIN out'
        /\ \A i \in DOMAIN out' : i \in DOMAIN out \/ i = Len(out) + 1
    BY <2>1
  <2>3. vm.pc \in MatchCells(db, m.id)
    BY <1>2 DEF Matched
  <2> QED BY <2>1, <2>2, <2>3 DEF Seen
<1> QED BY <1>1, <1>2, MatchStep

LEMMA FollowsGrows ==
    ASSUME TypeOK, RunProgram, NEW x, NEW y, Follows(x, y), vm.pc \in MatchCells(db, x) => Seen(y)
    PROVE  Follows(x, y)'
<1>1. CASE out' = out
  BY <1>1 DEF Follows
<1>2. ASSUME NEW m, Matched(m) PROVE Follows(x, y)'
  <2>1. /\ Len(out) \in Nat /\ DOMAIN out = 1..Len(out) /\ DOMAIN out' = 1..Len(out)+1
        /\ \A i \in DOMAIN out : out'[i] = out[i]
        /\ out'[Len(out) + 1] = m
    BY <1>2, Appended
  <2> SUFFICES ASSUME NEW j \in DOMAIN out', out'[j].id = x
               PROVE  \E i \in 1..j-1 : out'[i].id = y
    BY DEF Follows
  <2>2. CASE j \in DOMAIN out
    <3>1. PICK i \in 1..j-1 : out[i].id = y
      BY <2>1, <2>2 DEF Follows
    <3>2. i \in DOMAIN out
      BY <2>1, <2>2
    <3> QED BY <2>1, <3>1, <3>2
  <2>3. CASE j = Len(out) + 1
    <3>1. vm.pc \in MatchCells(db, x)
      BY <1>2, <2>1, <2>3 DEF Matched
    <3>2. PICK i \in DOMAIN out : out[i].id = y
      BY <3>1 DEF Seen
    <3>3. i \in 1..j-1 /\ out'[i].id = y
      BY <2>1, <2>3, <3>2
    <3> QED BY <3>3
  <2> QED BY <2>1, <2>2, <2>3
<1> QED BY <1>1, <1>2, MatchStep

\* Behind the cell of a match, the match was made.
PastInv ==
    \A r, s \in CellsOf(db) :
        CellAt(db, r).op \in Matching /\ InRun(r, s) => Seen(CellAt(db, r).id)

LEMMA InitPast == Init => PastInv
BY DEF Init, PastInv, InRun, IdleVm

LEMMA StartOutside ==
    ASSUME StartsRun, db' = db, NEW n, NEW m
    PROVE  ~InRun(n, m)'
BY DEF StartsRun, InRun, Guards

LEMMA CellsInt == ASSUME TypeOK PROVE CellsOf(db) \subseteq Int
BY DbType DEF CellsOf

LEMMA NextPast ==
    TypeOK /\ StatusInv /\ HitHasLiteral /\ PastInv /\ [Next]_vars => PastInv'
<1> SUFFICES ASSUME TypeOK, StatusInv, HitHasLiteral, PastInv, [Next]_vars PROVE PastInv'
  OBVIOUS
<1>db. db' = db
  BY StepKinds
<1> SUFFICES ASSUME NEW r \in CellsOf(db), NEW s \in CellsOf(db),
                    CellAt(db, r).op \in Matching, InRun(r, s)', NEW x, x = CellAt(db, r).id
             PROVE  Seen(x)'
  BY <1>db DEF PastInv
<1>1. CASE RunProgram
  <2>1. vm'.status = "running" /\ Guards(db, r, s) /\ vm'.pc \in r+1..s /\ r \in Int /\ s \in Int
    BY <1>db, CellsInt DEF InRun
  <2>2. vm.status = "running"
    BY <1>1, StatusIsRunning
  <2>3. CASE vm.pc \in r+1..s
    <3>1. Seen(x)
      BY <2>1, <2>2, <2>3 DEF PastInv, InRun
    <3> QED BY <1>1, <3>1, SeenGrows
  <2>4. CASE vm.pc = r /\ ~Jumps
    <3>1. PICK m : Matched(m)
      BY <1>1, <2>1, <2>4, MatchPassed, MatchStep
    <3>2. m.id = x
      BY <2>4, <3>1 DEF Matched, MatchCells
    <3> QED BY <1>1, <3>1, <3>2, SeenGrows
  <2> QED BY <1>1, <2>1, <2>3, <2>4, Entered
<1>2. CASE StartsRun
  BY <1>2, <1>db, StartOutside
<1>3. CASE RestsRun
  BY <1>3, <1>db DEF RestsRun, PastInv, InRun, Seen
<1> QED BY <1>1, <1>2, <1>3, StepKinds

\* What lies behind matches y is executed after a match y.
LEMMA BehindMatch ==
    ASSUME TypeOK, PastInv, vm.status = "running", vm.pc \in CellsOf(db),
           NEW y, NEW r \in MatchCells(db, y), Guards(db, r, vm.pc)
    PROVE  Seen(y)
<1>1. r \in CellsOf(db) /\ CellAt(db, r).op \in Matching /\ CellAt(db, r).id = y
  BY DEF MatchCells
<1>2. vm.pc \in r+1..vm.pc
  BY <1>1, CellsInt DEF Guards
<1> QED BY <1>1, <1>2 DEF PastInv, InRun

RoleInv(x, y, key) ==
    SwitchedByRole(db, x, y, key) =>
        /\ key \in dedupe.roles => Seen(y)
        /\ \A n \in KeyCells(db, "CHECK_STATE", key), m \in CellsOf(db) : InRun(n, m) => Seen(y)
        /\ Follows(x, y)

GroupInv(x, y, mask) ==
    SwitchedByGroups(db, x, y, mask) =>
        /\ mask \cap groups # {} => Seen(y)
        /\ \A n \in GroupCells(db, mask), m \in CellsOf(db) : InRun(n, m) => Seen(y)
        /\ Follows(x, y)

SwitchInv == \A x, y, s : RoleInv(x, y, s) /\ GroupInv(x, y, s)

LEMMA InitSwitch == Init => SwitchInv
<1> SUFFICES ASSUME Init PROVE SwitchInv
  OBVIOUS
<1>1. /\ dedupe.roles = {} /\ groups = db.groups
      /\ \A n, m : ~InRun(n, m)
      /\ \A x, y : Follows(x, y)
  BY DEF Init, EmptyDedupe, InRun, IdleVm, Follows
<1> HIDE DEF Init
<1> QED BY <1>1 DEF SwitchInv, RoleInv, GroupInv, SwitchedByGroups

\* A run behind a check of a switch, or in it with the switch on, comes after y.
LEMMA InRunStep ==
    ASSUME TypeOK, RunProgram, db' = db, NEW y, NEW n \in CellsOf(db), NEW m \in CellsOf(db),
           InRun(n, m) => Seen(y), vm.pc = n /\ ~Jumps /\ vm'.status = "running" => Seen(y)
    PROVE  InRun(n, m)' => Seen(y)'
<1> SUFFICES ASSUME InRun(n, m)' PROVE Seen(y)'
  OBVIOUS
<1>1. vm'.status = "running" /\ Guards(db, n, m) /\ vm'.pc \in n+1..m /\ n \in Int /\ m \in Int
  BY CellsInt DEF InRun
<1>2. vm.status = "running"
  BY StatusIsRunning
<1>3. vm.pc \in n+1..m \/ (vm.pc = n /\ ~Jumps)
  BY <1>1, Entered
<1>4. Seen(y)
  BY <1>1, <1>2, <1>3 DEF InRun
<1> QED BY <1>4, SeenGrows

LEMMA RoleStep ==
    ASSUME TypeOK, PastInv, RunProgram, db' = db, NEW x, NEW y, NEW key, RoleInv(x, y, key)
    PROVE  RoleInv(x, y, key)'
<1> SUFFICES ASSUME SwitchedByRole(db, x, y, key)
             PROVE  /\ key \in dedupe'.roles => Seen(y)'
                    /\ \A n \in KeyCells(db, "CHECK_STATE", key), m \in CellsOf(db) :
                          InRun(n, m)' => Seen(y)'
                    /\ Follows(x, y)'
  BY DEF RoleInv
<1>0. /\ key \in dedupe.roles => Seen(y)
      /\ \A n \in KeyCells(db, "CHECK_STATE", key), m \in CellsOf(db) : InRun(n, m) => Seen(y)
      /\ Follows(x, y)
      /\ vm.status = "running"
  BY StatusIsRunning DEF RoleInv
<1>1. ASSUME key \in dedupe'.roles PROVE Seen(y)'
  <2>1. CASE key \in dedupe.roles
    BY <1>0, <2>1, SeenGrows
  <2>2. CASE key \notin dedupe.roles
    <3>1. vm.pc \in KeyCells(db, "SET_STATE", key)
      BY <1>1, <2>2, StateStep
    <3>2. PICK r \in MatchCells(db, y) : Guards(db, r, vm.pc)
      BY <3>1 DEF SwitchedByRole
    <3>3. vm.pc \in CellsOf(db)
      BY <3>1 DEF KeyCells
    <3>4. Seen(y)
      BY <1>0, <3>2, <3>3, BehindMatch
    <3> QED BY <3>4, SeenGrows
  <2> QED BY <2>1, <2>2
<1>2. ASSUME NEW n \in KeyCells(db, "CHECK_STATE", key), NEW m \in CellsOf(db)
      PROVE  InRun(n, m)' => Seen(y)'
  <2>1. n \in CellsOf(db)
    BY DEF KeyCells
  <2>2. vm.pc = n /\ ~Jumps /\ vm'.status = "running" => Seen(y)
    BY <1>0, StatePassed
  <2> QED BY <1>0, <2>1, <2>2, InRunStep
<1>3. Follows(x, y)'
  <2>1. ASSUME vm.pc \in MatchCells(db, x) PROVE Seen(y)
    <3>1. vm.pc \in CellsOf(db) /\ vm.pc \in Int
      BY <2>1, CellsInt DEF MatchCells
    <3>2. PICK n \in KeyCells(db, "CHECK_STATE", key) : Guards(db, n, vm.pc)
      BY <2>1 DEF SwitchedByRole
    <3>3. n \in Int /\ vm.pc \in n+1..vm.pc
      BY <3>1, <3>2, CellsInt DEF Guards, KeyCells
    <3> QED BY <1>0, <3>1, <3>2, <3>3 DEF InRun
  <2> QED BY <1>0, <2>1, FollowsGrows
<1> QED BY <1>1, <1>2, <1>3

LEMMA GroupStep ==
    ASSUME TypeOK, PastInv, RunProgram, db' = db, NEW x, NEW y, NEW mask, GroupInv(x, y, mask)
    PROVE  GroupInv(x, y, mask)'
<1> SUFFICES ASSUME SwitchedByGroups(db, x, y, mask)
             PROVE  /\ mask \cap groups' # {} => Seen(y)'
                    /\ \A n \in GroupCells(db, mask), m \in CellsOf(db) : InRun(n, m)' => Seen(y)'
                    /\ Follows(x, y)'
  BY DEF GroupInv
<1>0. /\ mask \cap groups # {} => Seen(y)
      /\ \A n \in GroupCells(db, mask), m \in CellsOf(db) : InRun(n, m) => Seen(y)
      /\ Follows(x, y)
      /\ vm.status = "running"
  BY StatusIsRunning DEF GroupInv
<1>1. ASSUME NEW g \in mask \cap groups' PROVE Seen(y)'
  <2>1. CASE g \in groups
    BY <1>0, <2>1, SeenGrows
  <2>2. CASE g \notin groups
    <3>1. vm.pc \in SetCells(db, {g})
      BY <2>2, StateStep
    <3>2. vm.pc \in SetCells(db, mask) /\ vm.pc \in CellsOf(db)
      BY <3>1 DEF SetCells
    <3>3. PICK r \in MatchCells(db, y) : Guards(db, r, vm.pc)
      BY <3>2 DEF SwitchedByGroups
    <3>4. Seen(y)
      BY <1>0, <3>2, <3>3, BehindMatch
    <3> QED BY <3>4, SeenGrows
  <2> QED BY <2>1, <2>2
<1>2. ASSUME NEW n \in GroupCells(db, mask), NEW m \in CellsOf(db)
      PROVE  InRun(n, m)' => Seen(y)'
  <2>1. n \in CellsOf(db)
    BY DEF GroupCells
  <2>2. vm.pc = n /\ ~Jumps /\ vm'.status = "running" => Seen(y)
    BY <1>0, StatePassed
  <2> QED BY <1>0, <2>1, <2>2, InRunStep
<1>3. Follows(x, y)'
  <2>1. ASSUME vm.pc \in MatchCells(db, x) PROVE Seen(y)
    <3>1. vm.pc \in CellsOf(db) /\ vm.pc \in Int
      BY <2>1, CellsInt DEF MatchCells
    <3>2. PICK n \in GroupCells(db, mask) : Guards(db, n, vm.pc)
      BY <2>1 DEF SwitchedByGroups
    <3>3. n \in Int /\ vm.pc \in n+1..vm.pc
      BY <3>1, <3>2, CellsInt DEF Guards, GroupCells
    <3> QED BY <1>0, <3>1, <3>2, <3>3 DEF InRun
  <2> QED BY <1>0, <2>1, FollowsGrows
<1> QED BY <1>1, <1>2, <1>3

LEMMA NextSwitch ==
    TypeOK /\ StatusInv /\ HitHasLiteral /\ PastInv /\ SwitchInv /\ [Next]_vars => SwitchInv'
<1> SUFFICES ASSUME TypeOK, StatusInv, HitHasLiteral, PastInv, SwitchInv, [Next]_vars,
                    NEW x, NEW y, NEW s
             PROVE  RoleInv(x, y, s)' /\ GroupInv(x, y, s)'
  BY DEF SwitchInv
<1>0. db' = db /\ RoleInv(x, y, s) /\ GroupInv(x, y, s)
  BY StepKinds DEF SwitchInv
<1>1. CASE RunProgram
  BY <1>0, <1>1, RoleStep, GroupStep
<1>2. CASE StartsRun
  <2>1. \A n, m : ~InRun(n, m)'
    BY <1>0, <1>2, StartOutside
  <2>2. UNCHANGED <<groups, dedupe, out>>
    BY <1>2 DEF StartsRun
  <2> QED BY <1>0, <2>1, <2>2 DEF RoleInv, GroupInv, Seen, Follows
<1>3. CASE RestsRun
  <2>1. UNCHANGED <<groups, dedupe, out, vm>>
    BY <1>3 DEF RestsRun
  <2> QED BY <1>0, <2>1 DEF RoleInv, GroupInv, Seen, Follows, InRun
<1> QED BY <1>1, <1>2, <1>3, StepKinds

LEMMA SpecStatus == Spec => [](TypeOK /\ StatusInv /\ HitHasLiteral)
<1>1. Init => HitHasLiteral
  BY DEF Init, HitHasLiteral, InHit
<1> QED BY <1>1, NextHit, InitStatus, NextStatus, TypeCorrect, PTL DEF Spec

\* A match behind the check of a role state, or of groups that are off at
\* first, comes after a match whose program switches it on.
THEOREM SwitchedFollow == Spec => []FollowsSwitch
<1>1. Init /\ [][Next]_vars /\ [](TypeOK /\ StatusInv /\ HitHasLiteral) => []PastInv
  BY InitPast, NextPast, PTL
<1>2. Init /\ [][Next]_vars /\ [](TypeOK /\ StatusInv /\ HitHasLiteral) /\ []PastInv => []SwitchInv
  BY InitSwitch, NextSwitch, PTL
<1>3. SwitchInv => FollowsSwitch
  <2> SUFFICES ASSUME SwitchInv, NEW j \in DOMAIN out, NEW m \in CellsOf(db),
                      CellAt(db, m).op \in Matching, SwitchedBy(db, out[j].id, CellAt(db, m).id)
               PROVE  \E i \in 1..j-1 : out[i].id = CellAt(db, m).id
    BY DEF FollowsSwitch
  <2> DEFINE x == out[j].id
             y == CellAt(db, m).id
  <2>1. PICK s : SwitchedByRole(db, x, y, s) \/ SwitchedByGroups(db, x, y, s)
    BY DEF SwitchedBy
  <2>2. Follows(x, y)
    BY <2>1 DEF SwitchInv, RoleInv, GroupInv
  <2> QED BY <2>2 DEF Follows
<1> QED BY <1>1, <1>2, <1>3, SpecStatus, PTL DEF Spec

-----------------------------------------------------------------------------
(***************************************************************************)
(* A match behind a test-and-set of its own is made once: once it is made  *)
(* its key is handled, and a run between the two has handled the key and   *)
(* comes before the match.                                                 *)
(***************************************************************************)
Once(x) == \A i, j \in DOMAIN out : out[i].id = x /\ out[j].id = x => i = j

HandledInv(x, key) ==
    HandledBy(db, x, key) =>
        /\ Once(x)
        /\ Seen(x) => key \in dedupe.handled
        /\ \A m \in MatchCells(db, x), n \in CellsOf(db) :
              HandledGuard(db, x, key, n, m) /\ InRun(n, m) => key \in dedupe.handled /\ ~Seen(x)

LEMMA OnceGrows ==
    ASSUME TypeOK, RunProgram, NEW x, Once(x), vm.pc \in MatchCells(db, x) => ~Seen(x)
    PROVE  Once(x)'
<1>1. CASE out' = out
  BY <1>1 DEF Once
<1>2. ASSUME NEW m, Matched(m) PROVE Once(x)'
  <2>1. /\ Len(out) \in Nat /\ DOMAIN out = 1..Len(out) /\ DOMAIN out' = 1..Len(out)+1
        /\ \A i \in DOMAIN out : out'[i] = out[i]
        /\ out'[Len(out) + 1] = m
    BY <1>2, Appended
  <2>2. \A i \in DOMAIN out' : i \in DOMAIN out \/ i = Len(out) + 1
    BY <2>1
  <2>3. m.id = x => \A i \in DOMAIN out : out[i].id # x
    BY <1>2 DEF Matched, Seen
  <2> QED BY <2>1, <2>2, <2>3 DEF Once
<1> QED BY <1>1, <1>2, MatchStep

LEMMA HandledStep ==
    ASSUME TypeOK, RunProgram, db' = db, NEW x, NEW key, HandledInv(x, key)
    PROVE  HandledInv(x, key)'
<1> SUFFICES ASSUME HandledBy(db, x, key)
             PROVE  /\ Once(x)'
                    /\ Seen(x)' => key \in dedupe'.handled
                    /\ \A m \in MatchCells(db, x), n \in CellsOf(db) :
                          HandledGuard(db, x, key, n, m) /\ InRun(n, m)' =>
                              key \in dedupe'.handled /\ ~Seen(x)'
  BY DEF HandledInv
<1>0. /\ Once(x)
      /\ Seen(x) => key \in dedupe.handled
      /\ \A m \in MatchCells(db, x), n \in CellsOf(db) :
            HandledGuard(db, x, key, n, m) /\ InRun(n, m) => key \in dedupe.handled /\ ~Seen(x)
      /\ vm.status = "running"
      /\ dedupe.handled \subseteq dedupe'.handled
  BY StatusIsRunning, StateStep DEF HandledInv
<1>1. ASSUME vm.pc \in MatchCells(db, x) PROVE key \in dedupe.handled /\ ~Seen(x)
  <2>1. PICK n \in CellsOf(db) : HandledGuard(db, x, key, n, vm.pc)
    BY <1>1 DEF HandledBy
  <2>2. n \in Int /\ vm.pc \in Int
    BY <1>1, CellsInt DEF MatchCells
  <2>3. InRun(n, vm.pc)
    BY <1>0, <2>1, <2>2 DEF InRun, HandledGuard, Guards
  <2> QED BY <1>0, <1>1, <2>1, <2>3
<1>2. Once(x)'
  BY <1>0, <1>1, OnceGrows
<1>3. Seen(x)' => key \in dedupe'.handled
  BY <1>0, <1>1, SeenGrows
<1>4. ASSUME NEW m \in MatchCells(db, x), NEW n \in CellsOf(db),
             HandledGuard(db, x, key, n, m), InRun(n, m)'
      PROVE  key \in dedupe'.handled /\ ~Seen(x)'
  <2>1. /\ vm'.status = "running" /\ Guards(db, n, m) /\ vm'.pc \in n+1..m
        /\ n \in Int /\ m \in Int
        /\ n \in KeyCells(db, "CHECK_NOT_HANDLED", key)
        /\ (n+1..m-1) \cap MatchCells(db, x) = {}
    BY <1>4, CellsInt DEF InRun, HandledGuard, MatchCells
  <2>2. vm.pc \in CellsOf(db) /\ vm.pc \in Int
    <3>1. Fetch(CellAt(db, vm.pc).op)
      BY <2>1, InterpretFlow
    <3> QED BY <3>1, AtInstr, CellsInt
  <2>3. CASE vm.pc \in n+1..m
    <3>1. key \in dedupe.handled /\ ~Seen(x)
      BY <1>0, <1>4, <2>1, <2>3 DEF InRun
    <3>2. ASSUME Seen(x)' PROVE FALSE
      <4>1. vm.pc \in MatchCells(db, x) /\ out' # out
        BY <3>1, <3>2, SeenGrows DEF Seen
      <4>2. FlowsOn
        BY <2>1, <4>1, MatchStep DEF Matched
      <4>3. vm.pc = m
        BY <2>1, <2>3, <4>1
      <4> QED BY <2>1, <4>2, <4>3 DEF FlowsOn
    <3> QED BY <1>0, <3>1, <3>2
  <2>4. CASE vm.pc = n /\ ~Jumps
    <3>1. key \in dedupe'.handled /\ key \notin dedupe.handled
      BY <2>1, <2>4, StatePassed
    <3>2. vm.pc \notin MatchCells(db, x)
      BY <2>1, <2>4 DEF KeyCells, MatchCells, Matching
    <3>3. ~Seen(x)
      BY <1>0, <3>1
    <3> QED BY <3>1, <3>2, <3>3, SeenGrows
  <2> QED BY <2>1, <2>3, <2>4, Entered
<1> QED BY <1>2, <1>3, <1>4

LEMMA InitHandled == Init => \A x, key : HandledInv(x, key)
<1> SUFFICES ASSUME Init PROVE \A x, key : HandledInv(x, key)
  OBVIOUS
<1>1. (\A n, m : ~InRun(n, m)) /\ out = <<>>
  BY DEF Init, InRun, IdleVm
<1> HIDE DEF Init
<1> QED BY <1>1 DEF HandledInv, Once, Seen

AllHandledInv == \A x, key : HandledInv(x, key)

LEMMA NextHandled ==
    TypeOK /\ StatusInv /\ HitHasLiteral /\ AllHandledInv /\ [Next]_vars => AllHandledInv'
<1> SUFFICES ASSUME TypeOK, StatusInv, HitHasLiteral, AllHandledInv, [Next]_vars, NEW x, NEW key
             PROVE  HandledInv(x, key)'
  BY DEF AllHandledInv
<1>0. db' = db /\ HandledInv(x, key)
  BY StepKinds DEF AllHandledInv
<1>1. CASE RunProgram
  BY <1>0, <1>1, HandledStep
<1>2. CASE StartsRun
  <2>1. \A n, m : ~InRun(n, m)'
    BY <1>0, <1>2, StartOutside
  <2>2. UNCHANGED <<dedupe, out>>
    BY <1>2 DEF StartsRun
  <2> QED BY <1>0, <2>1, <2>2 DEF HandledInv, Seen, Once
<1>3. CASE RestsRun
  <2>1. UNCHANGED <<dedupe, out, vm>>
    BY <1>3 DEF RestsRun
  <2> QED BY <1>0, <2>1 DEF HandledInv, Seen, Once, InRun
<1> QED BY <1>1, <1>2, <1>3, StepKinds

\* A role behind CHECK_NOT_HANDLED matches once per scan, whichever literals
\* and replays lead to it.
THEOREM HandledMatchOnce == Spec => []HandledOnce
<1>1. Init => AllHandledInv
  BY InitHandled DEF AllHandledInv
<1>2. AllHandledInv => HandledOnce
  <2> SUFFICES ASSUME AllHandledInv, NEW i \in DOMAIN out, NEW j \in DOMAIN out, i # j,
                      out[i].id = out[j].id, Handled(db, out[i].id)
               PROVE  FALSE
    BY DEF HandledOnce
  <2>1. PICK key : HandledBy(db, out[i].id, key)
    BY DEF Handled
  <2>2. Once(out[i].id)
    BY <2>1 DEF AllHandledInv, HandledInv
  <2> QED BY <2>2 DEF Once
<1> QED BY <1>1, <1>2, NextHandled, SpecStatus, PTL DEF Spec

-----------------------------------------------------------------------------
(***************************************************************************)
(* Exclusive matches.  The check of the group starts a run's work, so the  *)
(* squash is reached with work done only behind the match; and a match     *)
(* that was answered with Continue has squashed the group, is about to, or *)
(* its run fails before it does and ends the scan.                         *)
(***************************************************************************)
Continued(x) == \E i \in DOMAIN out : out[i].id = x /\ out[i].reply = "Continue"

Squashing(x) == vm.status = "running" /\ vm.work /\ vm.pc - 1 \in MatchCells(db, x)

MatchesExclude(x) ==
    \A i, j \in DOMAIN out : i < j /\ out[i].id = x /\ out[j].id = x => out[i].reply = "Terminate"

ExclusiveInv(x, g) ==
    Exclusive(db, x, g) =>
        /\ MatchesExclude(x)
        /\ g \notin groups => Seen(x)
        /\ Continued(x) => g \notin groups \/ Squashing(x) \/ Failed
        /\ \A n, m \in CellsOf(db) : ExclusiveRole(db, x, g, n, m) /\ vm.status = "running" =>
              /\ vm.work /\ vm.pc \in n..m+1 => Seen(x)
              /\ vm.pc \in n+1..m => ~Continued(x)

\* An exclusive match is made by a REPORT, and squashed by the next cell.
LEMMA ExclusiveMatch ==
    ASSUME NEW x, NEW g, Exclusive(db, x, g), NEW m \in MatchCells(db, x)
    PROVE  \E n \in CellsOf(db) : ExclusiveRole(db, x, g, n, m)
BY DEF Exclusive

LEMMA ContinuedGrows ==
    ASSUME TypeOK, RunProgram, NEW x
    PROVE  /\ Continued(x) => Continued(x)'
           /\ Continued(x)' /\ ~Continued(x) =>
                 /\ vm.pc \in MatchCells(db, x) /\ out' # out
                 /\ \E m : Matched(m) /\ m.id = x /\ m.reply = "Continue"
<1>1. CASE out' = out
  BY <1>1 DEF Continued
<1>2. ASSUME NEW m, Matched(m)
      PROVE  /\ Continued(x) => Continued(x)'
             /\ Continued(x)' /\ ~Continued(x) =>
                   vm.pc \in MatchCells(db, x) /\ out' # out /\ m.id = x /\ m.reply = "Continue"
  <2>1. /\ Len(out) \in Nat /\ DOMAIN out = 1..Len(out) /\ DOMAIN out' = 1..Len(out)+1
        /\ \A i \in DOMAIN out : out'[i] = out[i]
        /\ out'[Len(out) + 1] = m
    BY <1>2, Appended
  <2>2. /\ DOMAIN out \subseteq DOMAIN out' /\ out' # out
        /\ \A i \in DOMAIN out' : i \in DOMAIN out \/ i = Len(out) + 1
    <3>1. Len(out) + 1 \in DOMAIN out' /\ Len(out) + 1 \notin DOMAIN out
      BY <2>1
    <3> QED BY <2>1, <3>1
  <2>3. vm.pc \in MatchCells(db, m.id)
    BY <1>2 DEF Matched
  <2> QED BY <2>1, <2>2, <2>3 DEF Continued
<1> QED BY <1>1, <1>2, MatchStep

LEMMA ExcludeGrows ==
    ASSUME TypeOK, RunProgram, NEW x, MatchesExclude(x),
           vm.pc \in MatchCells(db, x) => ~Continued(x)
    PROVE  MatchesExclude(x)'
<1>1. CASE out' = out
  BY <1>1 DEF MatchesExclude
<1>2. ASSUME NEW m, Matched(m) PROVE MatchesExclude(x)'
  <2>1. /\ Len(out) \in Nat /\ DOMAIN out = 1..Len(out) /\ DOMAIN out' = 1..Len(out)+1
        /\ \A i \in DOMAIN out : out'[i] = out[i]
        /\ out'[Len(out) + 1] = m
    BY <1>2, Appended
  <2> SUFFICES ASSUME NEW i \in DOMAIN out', NEW j \in DOMAIN out', i < j,
                      out'[i].id = x, out'[j].id = x
               PROVE  out'[i].reply = "Terminate"
    BY DEF MatchesExclude
  <2>2. i \in DOMAIN out /\ (j \in DOMAIN out \/ j = Len(out) + 1)
    BY <2>1
  <2>3. CASE j \in DOMAIN out
    BY <2>1, <2>2, <2>3 DEF MatchesExclude
  <2>4. CASE j = Len(out) + 1
    <3>1. vm.pc \in MatchCells(db, x)
      BY <1>2, <2>1, <2>4 DEF Matched
    <3>2. out[i] \in OutEntry
      BY <2>2 DEF TypeOK
    <3>3. out[i].id = x /\ out[i].reply \in ScanCtl
      BY <2>1, <2>2, <3>2 DEF OutEntry
    <3> QED BY <2>1, <2>2, <3>1, <3>3 DEF Continued, ScanCtl
  <2> QED BY <2>2, <2>3, <2>4
<1> QED BY <1>1, <1>2, MatchStep

\* The step of a run that enters, or stays in, the cells of an exclusive role.
LEMMA RoleFlow ==
    ASSUME TypeOK, RunProgram, vm'.status = "running", NEW x, NEW g,
           NEW n \in CellsOf(db), NEW m \in CellsOf(db), ExclusiveRole(db, x, g, n, m)
    PROVE  /\ n \in Int /\ m \in Int /\ n < m /\ vm.pc \in Int /\ vm'.pc \in Int
           /\ vm.pc \in CellsOf(db)
           /\ vm'.pc # n
           /\ vm'.pc \in n+1..m+1 => vm.pc \in n..m
           /\ vm'.pc \in n+1..m => vm.pc \in n..m-1
           /\ vm.pc \in n..m-1 => CellAt(db, vm.pc).op \notin Working
           /\ vm.pc = n => vm.pc \in GroupCells(db, {g})
           /\ vm.pc = m => vm'.pc = m + 1
<1>1. vm.pc \in CellsOf(db) /\ CellAt(db, vm.pc).op \notin Halting /\ (FlowsOn \/ Jumps)
  BY InterpretFlow, AtInstr
<1>2. n \in Int /\ m \in Int /\ m + 1 \in Int /\ vm.pc \in Int /\ vm'.pc \in Int
  BY <1>1, CellsInt, InterpretType DEF ProgTypeOK, VmState
<1>ex. /\ CellAt(db, n).op = "CHECK_GROUPS" /\ CellAt(db, n).mask = {g}
       /\ \A c \in CellsOf(db) : n \notin JumpsOf(db, c)
       /\ n = 0 \/ CellAt(db, n - 1).op \in Halting
       /\ Guards(db, n, m + 1)
       /\ \A c \in n+1..m-1 : CellAt(db, c).op \notin Working
       /\ CellAt(db, m).op = "REPORT"
       /\ CellAt(db, m + 1).op = "SQUASH_GROUPS"
  BY DEF ExclusiveRole, SquashesGroup
<1>3. n # m /\ n < m + 1
  BY <1>ex DEF Guards
<1>4. n < m
  BY <1>2, <1>3
<1>5. vm.pc = m \/ vm.pc = m + 1 => FlowsOn
  <2>1. ASSUME CellAt(db, vm.pc).op = "REPORT" \/ CellAt(db, vm.pc).op = "SQUASH_GROUPS"
        PROVE  FlowsOn
    <3>1. Fetch(CellAt(db, vm.pc).op)
      BY InterpretFlow
    <3>2. Instr \in Instruction /\ Instr = CellAt(db, vm.pc) /\ Instr.op \in {"REPORT", "SQUASH_GROUPS"}
      BY <2>1, <3>1, AtInstr
    <3>3. DOMAIN Instr \cap {"fail"} = {} /\ DOMAIN Instr \cap {"child"} = {}
      BY <3>2 DEF Instruction
    <3>4. JumpsOf(db, vm.pc) = {}
      BY <3>2, <3>3 DEF JumpsOf
    <3> QED BY <1>1, <3>4 DEF Jumps
  <2> QED BY <1>ex, <2>1
<1>6. vm'.pc # n
  <2> SUFFICES ASSUME vm'.pc = n PROVE FALSE
    OBVIOUS
  <2>1. vm'.pc = vm.pc + 1
    BY <1>1, <1>ex DEF FlowsOn, Jumps
  <2>2. vm.pc = n - 1 /\ n # 0
    BY <1>1, <1>2, <2>1 DEF CellsOf
  <2> QED BY <1>1, <1>ex, <2>2
<1>7. ASSUME vm'.pc \in n+1..m+1 PROVE vm.pc \in n..m
  <2>1. vm.pc \in n+1..m+1 \/ vm.pc = n
    BY <1>2, <1>7, <1>ex, Entered
  <2>2. vm.pc # m + 1
    BY <1>2, <1>5, <1>7 DEF FlowsOn
  <2> QED BY <1>2, <1>4, <2>1, <2>2
<1>8. vm.pc = m => vm'.pc = m + 1
  BY <1>5 DEF FlowsOn
<1>9. ASSUME vm.pc \in n..m-1 PROVE CellAt(db, vm.pc).op \notin Working
  BY <1>2, <1>9, <1>ex DEF Working
<1>10. vm.pc = n => vm.pc \in GroupCells(db, {g})
  BY <1>1, <1>ex DEF GroupCells
<1>11. ASSUME vm'.pc \in n+1..m PROVE vm.pc \in n..m-1
  <2>1. vm.pc \in n..m
    BY <1>2, <1>7, <1>11
  <2>2. vm.pc # m
    BY <1>2, <1>8, <1>11
  <2> QED BY <1>2, <2>1, <2>2
<1> QED BY <1>1, <1>2, <1>4, <1>6, <1>7, <1>8, <1>9, <1>10, <1>11

LEMMA ExclusiveStep ==
    ASSUME TypeOK, StatusInv, RunProgram, Running, db' = db, at' = at, err' = err,
           NEW x, NEW g, ExclusiveInv(x, g)
    PROVE  ExclusiveInv(x, g)'
<1> SUFFICES ASSUME Exclusive(db, x, g)
             PROVE  /\ MatchesExclude(x)'
                    /\ g \notin groups' => Seen(x)'
                    /\ Continued(x)' => g \notin groups' \/ Squashing(x)' \/ Failed'
                    /\ \A n, m \in CellsOf(db) :
                          ExclusiveRole(db, x, g, n, m) /\ vm'.status = "running" =>
                              /\ vm'.work /\ vm'.pc \in n..m+1 => Seen(x)'
                              /\ vm'.pc \in n+1..m => ~Continued(x)'
  BY DEF ExclusiveInv
<1>0. /\ MatchesExclude(x)
      /\ g \notin groups => Seen(x)
      /\ Continued(x) => g \notin groups \/ Squashing(x) \/ Failed
      /\ \A n, m \in CellsOf(db) : ExclusiveRole(db, x, g, n, m) =>
            /\ vm.work /\ vm.pc \in n..m+1 => Seen(x)
            /\ vm.pc \in n+1..m => ~Continued(x)
      /\ vm.status = "running" /\ ~Failed
  <2>1. vm.status = "running"
    BY StatusIsRunning
  <2>2. err = "None"
    BY DEF StatusInv, Running
  <2> QED BY <2>1, <2>2 DEF ExclusiveInv, Failed, InterpErrors
<1>ints. CellsOf(db) \subseteq Int
  BY CellsInt
<1>1. ASSUME vm.pc \in MatchCells(db, x) PROVE ~Continued(x)
  <2>1. vm.pc \in CellsOf(db)
    BY <1>1 DEF MatchCells
  <2>2. PICK n \in CellsOf(db) : ExclusiveRole(db, x, g, n, vm.pc)
    BY <1>1, ExclusiveMatch
  <2>3. n # vm.pc /\ n < vm.pc + 1
    BY <2>2 DEF ExclusiveRole, Guards
  <2>4. vm.pc \in n+1..vm.pc
    BY <1>ints, <2>1, <2>3
  <2> QED BY <1>0, <2>1, <2>2, <2>4
<1>2. MatchesExclude(x)'
  BY <1>0, <1>1, ExcludeGrows
<1>3. g \notin groups' => Seen(x)'
  <2>1. CASE g \notin groups
    BY <1>0, <2>1, SeenGrows
  <2>2. ASSUME g \in groups, g \notin groups' PROVE Seen(x)
    <3>1. vm.pc \in CellsOf(db) /\ SquashesGroup(db, vm.pc, g) /\ vm.work
      BY <2>2, StateStep
    <3>2. PICK n \in CellsOf(db) : ExclusiveRole(db, x, g, n, vm.pc - 1)
      BY <3>1 DEF Exclusive
    <3>3. vm.pc - 1 \in CellsOf(db) /\ n < vm.pc - 1 + 1
      BY <3>2 DEF ExclusiveRole, Guards
    <3>4. vm.pc \in n..vm.pc-1+1
      BY <1>ints, <3>1, <3>3
    <3> QED BY <1>0, <3>1, <3>2, <3>3, <3>4
  <2> QED BY <2>1, <2>2, SeenGrows
<1>4. ASSUME Continued(x)' PROVE g \notin groups' \/ Squashing(x)' \/ Failed'
  <2>1. CASE Continued(x) /\ g \notin groups
    <3>1. vm.pc \notin SetCells(db, {g})
      BY DEF Exclusive
    <3> QED BY <2>1, <3>1, StateStep
  <2>2. CASE Continued(x) /\ g \in groups
    <3>1. vm.work /\ vm.pc - 1 \in MatchCells(db, x)
      BY <1>0, <2>2 DEF Squashing
    <3>2. PICK n \in CellsOf(db) : ExclusiveRole(db, x, g, n, vm.pc - 1)
      BY <3>1, ExclusiveMatch
    <3>3. vm.pc \in Int
      BY DEF TypeOK, VmState
    <3>4. SquashesGroup(db, vm.pc, g)
      <4>1. vm.pc - 1 + 1 = vm.pc
        BY <3>3
      <4> QED BY <3>2, <4>1 DEF ExclusiveRole
    <3>5. g \notin groups' \/ vm'.status \in InterpErrors
      BY <3>1, <3>4, SquashRuns
    <3> QED BY <3>5 DEF Failed, Running
  <2>3. CASE ~Continued(x)
    <3>1. PICK m : Matched(m) /\ m.id = x /\ m.reply = "Continue"
      BY <1>4, <2>3, ContinuedGrows
    <3>2. vm.pc \in MatchCells(db, x)
      BY <3>1 DEF Matched
    <3>3. PICK n \in CellsOf(db) : ExclusiveRole(db, x, g, n, vm.pc)
      BY <3>2, ExclusiveMatch
    <3>4. CellAt(db, vm.pc).op = "REPORT"
      BY <3>3 DEF ExclusiveRole
    <3>5. vm'.status = "running"
      BY <3>1, <3>4 DEF Matched
    <3>6. vm'.work /\ vm'.pc = vm.pc + 1
      BY <3>1, <3>5 DEF Matched, FlowsOn
    <3>7. vm'.pc - 1 = vm.pc
      BY <3>6 DEF TypeOK, VmState
    <3> QED BY <3>2, <3>5, <3>6, <3>7 DEF Squashing
  <2> QED BY <2>1, <2>2, <2>3
<1>5. ASSUME NEW n \in CellsOf(db), NEW m \in CellsOf(db), ExclusiveRole(db, x, g, n, m),
             vm'.status = "running"
      PROVE  /\ vm'.work /\ vm'.pc \in n..m+1 => Seen(x)'
             /\ vm'.pc \in n+1..m => ~Continued(x)'
  <2>1. /\ n \in Int /\ m \in Int /\ n < m /\ vm.pc \in Int /\ vm'.pc \in Int
        /\ vm.pc \in CellsOf(db)
        /\ vm'.pc # n
        /\ vm'.pc \in n+1..m+1 => vm.pc \in n..m
        /\ vm'.pc \in n+1..m => vm.pc \in n..m-1
        /\ vm.pc \in n..m-1 => CellAt(db, vm.pc).op \notin Working
        /\ vm.pc = n => vm.pc \in GroupCells(db, {g})
    BY <1>5, RoleFlow
  <2>2. ASSUME vm'.work, vm'.pc \in n..m+1 PROVE Seen(x)'
    <3>1. vm.pc \in n..m
      BY <2>1, <2>2
    <3>2. CASE vm.work
      <4>1. vm.pc \in n..m+1
        BY <2>1, <3>1
      <4> QED BY <1>0, <1>5, <3>2, <4>1, SeenGrows
    <3>3. CASE ~vm.work
      <4>1. vm.pc = m
        <5>1. CellAt(db, vm.pc).op \in Working
          BY <1>5, <2>2, <3>3, InterpretFlow
        <5> QED BY <2>1, <3>1, <5>1
      <4>2. CellAt(db, vm.pc).op = "REPORT" /\ CellAt(db, vm.pc).id = x
        BY <1>5, <4>1 DEF ExclusiveRole
      <4>3. ~Jumps
        <5>1. Fetch(CellAt(db, vm.pc).op)
          BY <1>5, InterpretFlow
        <5>2. Instr \in Instruction /\ Instr = CellAt(db, vm.pc) /\ Instr.op = "REPORT"
          BY <4>2, <5>1, AtInstr
        <5>3. DOMAIN Instr \cap {"fail"} = {} /\ DOMAIN Instr \cap {"child"} = {}
          BY <5>2 DEF Instruction
        <5> QED BY <5>2, <5>3 DEF Jumps, JumpsOf
      <4>4. PICK e : Matched(e)
        BY <1>5, <4>2, <4>3, MatchPassed, MatchStep DEF Matching
      <4>5. e.id = x
        BY <4>2, <4>4 DEF Matched, MatchCells
      <4> QED BY <4>4, <4>5, SeenGrows
    <3> QED BY <3>2, <3>3
  <2>3. ASSUME vm'.pc \in n+1..m PROVE ~Continued(x)'
    <3>1. vm.pc \in n..m-1 /\ CellAt(db, vm.pc).op \notin Working
      BY <2>1, <2>3
    <3>2. vm.pc \notin MatchCells(db, x)
      <4> SUFFICES ASSUME vm.pc \in MatchCells(db, x) PROVE FALSE
        OBVIOUS
      <4>1. PICK k \in CellsOf(db) : ExclusiveRole(db, x, g, k, vm.pc)
        BY ExclusiveMatch
      <4>2. CellAt(db, vm.pc).op = "REPORT"
        BY <4>1 DEF ExclusiveRole
      <4> QED BY <3>1, <4>2 DEF Working
    <3>3. ~Continued(x)
      <4>1. CASE vm.pc \in n+1..m
        BY <1>0, <1>5, <4>1
      <4>2. CASE vm.pc = n
        <5>1. g \in groups
          BY <1>5, <2>1, <4>2, StatePassed
        <5>2. ~Squashing(x)
          <6> SUFFICES ASSUME n - 1 \in MatchCells(db, x) PROVE FALSE
            BY <4>2 DEF Squashing
          <6>1. n - 1 \in CellsOf(db) /\ n # 0
            BY <2>1 DEF MatchCells, CellsOf
          <6>2. CellAt(db, n - 1).op \in Halting
            BY <1>5, <6>1 DEF ExclusiveRole
          <6>3. PICK k \in CellsOf(db) : ExclusiveRole(db, x, g, k, n - 1)
            BY ExclusiveMatch
          <6>4. CellAt(db, n - 1).op = "REPORT"
            BY <6>3 DEF ExclusiveRole
          <6> QED BY <6>2, <6>4 DEF Halting
        <5> QED BY <1>0, <5>1, <5>2
      <4> QED BY <2>1, <3>1, <4>1, <4>2
    <3> QED BY <3>2, <3>3, ContinuedGrows
  <2> QED BY <2>2, <2>3
<1> QED BY <1>2, <1>3, <1>4, <1>5

AllExclusiveInv == \A x, g : ExclusiveInv(x, g)

LEMMA InitExclusive == Init => AllExclusiveInv
<1> SUFFICES ASSUME Init PROVE AllExclusiveInv
  OBVIOUS
<1>1. groups = db.groups /\ out = <<>> /\ vm.status # "running"
  BY DEF Init, IdleVm
<1> HIDE DEF Init
<1> QED BY <1>1 DEF AllExclusiveInv, ExclusiveInv, Exclusive, MatchesExclude, Continued

LEMMA NextExclusive ==
    TypeOK /\ StatusInv /\ HitHasLiteral /\ LiveInv /\ AllExclusiveInv /\ [Next]_vars =>
        AllExclusiveInv'
<1> SUFFICES ASSUME TypeOK, StatusInv, HitHasLiteral, LiveInv, AllExclusiveInv, [Next]_vars,
                    NEW x, NEW g
             PROVE  ExclusiveInv(x, g)'
  BY DEF AllExclusiveInv
<1>0. db' = db /\ ExclusiveInv(x, g)
  BY StepKinds DEF AllExclusiveInv
<1>1. CASE RunProgram /\ Running /\ UNCHANGED <<at, err>>
  BY <1>0, <1>1, ExclusiveStep
<1>2. CASE StartsRun
  <2>1. UNCHANGED <<groups, out>> /\ vm.status # "running" /\ ~Failed /\ ~vm'.work
        /\ vm'.pc \in StartsOf(db)
    BY <1>2 DEF StartsRun, LiveInv, Failed
  <2>2. ASSUME NEW n \in CellsOf(db), NEW m \in CellsOf(db), ExclusiveRole(db, x, g, n, m)
        PROVE  vm'.pc \notin n+1..m
    <3>1. Guards(db, n, m + 1) /\ n \in Int /\ m \in Int
      BY <2>2, CellsInt DEF ExclusiveRole
    <3>2. vm'.pc \notin n+1..m+1
      BY <2>1, <3>1 DEF Guards
    <3> QED BY <3>1, <3>2
  <2> QED BY <1>0, <2>1, <2>2 DEF ExclusiveInv, MatchesExclude, Continued, Seen, Squashing
<1>3. CASE RestsRun
  <2>1. UNCHANGED <<groups, out, vm>> /\ (Failed => Failed')
    BY <1>3 DEF RestsRun
  <2> QED BY <1>0, <2>1 DEF ExclusiveInv, MatchesExclude, Continued, Seen, Squashing
<1> QED BY <1>1, <1>2, <1>3, StepKinds

\* An exclusive match squashes its group and nothing else does; a second one
\* takes a Terminate after the first, and is made by a replay.
THEOREM ExclusiveMatchOnce == Spec => []ExclusiveOnce
<1>1. Init /\ [][Next]_vars /\ [](TypeOK /\ StatusInv /\ HitHasLiteral) => []LiveInv
  BY InitLive, NextLive, PTL
<1>2. Init /\ [][Next]_vars /\ [](TypeOK /\ StatusInv /\ HitHasLiteral) /\ []LiveInv =>
          []AllExclusiveInv
  BY InitExclusive, NextExclusive, PTL
<1>3. AllExclusiveInv /\ TerminateWindsDown => ExclusiveOnce
  <2> SUFFICES ASSUME AllExclusiveInv, TerminateWindsDown PROVE ExclusiveOnce
    OBVIOUS
  <2>1. ASSUME NEW i \in DOMAIN out, NEW j \in DOMAIN out, i < j, out[i].id = out[j].id,
               NEW g, Exclusive(db, out[i].id, g)
        PROVE  out[i].reply = "Terminate" /\ ~out[j].confirm
    <3>1. MatchesExclude(out[i].id)
      BY <2>1 DEF AllExclusiveInv, ExclusiveInv
    <3>2. out[i].reply = "Terminate"
      BY <2>1, <3>1 DEF MatchesExclude
    <3> QED BY <2>1, <3>2 DEF TerminateWindsDown
  <2>2. ASSUME NEW g \in db.groups \ groups, NEW m \in CellsOf(db), Exclusive(db, CellAt(db, m).id, g)
        PROVE  \E i \in DOMAIN out : out[i].id = CellAt(db, m).id
    <3>1. Seen(CellAt(db, m).id)
      BY <2>2 DEF AllExclusiveInv, ExclusiveInv
    <3> QED BY <3>1 DEF Seen
  <2> QED BY <2>1, <2>2 DEF ExclusiveOnce
<1> QED BY <1>1, <1>2, <1>3, SpecStatus, WindsDown, PTL DEF Spec

-----------------------------------------------------------------------------
(***************************************************************************)
(* Included literals are reported once per end.  A run that gets to the    *)
(* program of a literal of the chain was started by it or by an earlier    *)
(* one, and has squashed the buckets of the ones in between; the match was *)
(* not made at this end.  Once it is made, no literal of the chain is      *)
(* reported at this end any more: it was reported itself, or its bucket is *)
(* squashed, or the engine is in a flood.                                  *)
(***************************************************************************)
\* What a step does to the record of its run, and an included jump to control.
LEMMA SquashGrows ==
    ASSUME TypeOK, RunProgram
    PROVE  /\ vm.squash \subseteq vm'.squash
           /\ vm'.confirm = vm.confirm /\ vm'.end = vm.end
<1>ty. /\ vm \in VmState /\ Worked \in VmState /\ Worked.squash = vm.squash
  BY WorkedType DEF TypeOK, VmState, Worked
<1>keep. ASSUME NEW v \in VmState
         PROVE  /\ \A pc : Goto(v, pc).squash = v.squash
                /\ Next1(v).squash = v.squash
                /\ \A status : Halt(v, status).squash = v.squash
  <2>1. \A pc : Goto(v, pc).squash = v.squash
    BY DEF Goto, VmState
  <2>2. \A status : Halt(v, status).squash = v.squash
    BY DEF Halt, VmState
  <2> QED BY <2>1, <2>2 DEF Next1
<1>vm. /\ \A pc : Goto(vm, pc).squash = vm.squash /\ Goto(Worked, pc).squash = vm.squash
       /\ Next1(vm).squash = vm.squash /\ Next1(Worked).squash = vm.squash
       /\ \A status : Halt(vm, status).squash = vm.squash /\ Halt(Worked, status).squash = vm.squash
  BY <1>ty, <1>keep
<1>run. vm'.confirm = vm.confirm /\ vm'.end = vm.end
  BY InterpretRun DEF SameRun
<1>1. CASE IncludedJump
  <2> DEFINE squashed == [vm EXCEPT !.squash = @ \cup Instr.squash]
  <2>1. Instr.squash \in SUBSET Nat
    BY <1>1, InstrFetched, InstrType DEF IncludedJump
  <2>2. squashed \in VmState /\ squashed.squash = vm.squash \cup Instr.squash
    BY <2>1, <1>ty DEF VmState
  <2> HIDE DEF squashed
  <2>3. /\ \A pc : Goto(squashed, pc).squash = vm.squash \cup Instr.squash
        /\ \A status : Halt(squashed, status).squash = vm.squash \cup Instr.squash
    BY <2>2, <1>keep
  <2>4. vm' = Next1(vm) \/ vm' = Halt(squashed, "Rose") \/ vm' = Goto(squashed, Instr.child)
    BY <1>1 DEF IncludedJump, squashed
  <2> QED BY <2>3, <2>4, <1>vm, <1>run
<1>2. CASE PushDelayed
  <2> DEFINE pushed == [vm EXCEPT !.delayed = @ \cup {<<Instr.delay, Instr.index>>}]
  <2>1. Instr.delay \in Nat /\ Instr.index \in Nat
    BY <1>2, InstrFetched, InstrType DEF PushDelayed
  <2>2. pushed \in VmState /\ pushed.squash = vm.squash
    BY <2>1, <1>ty DEF VmState
  <2> HIDE DEF pushed
  <2>3. vm' = Next1(pushed)
    BY <1>2 DEF PushDelayed, pushed
  <2> QED BY <2>2, <2>3, <1>keep, <1>run
<1>3. CASE \/ OutOfProgram \/ End \/ UnknownOpcode \/ CatchUp \/ CheckGroups
           \/ CheckByte \/ CheckMask \/ CheckMask32
  BY <1>3, <1>vm, <1>run DEF OutOfProgram, End, UnknownOpcode, CatchUp, CheckGroups, CheckByte,
     CheckMask, CheckMask32, Check, Branch
<1>4. CASE \/ CheckMedLit \/ CheckSingleLookaround \/ CheckLookaround \/ CheckBounds
           \/ CheckLitEarly \/ CheckState \/ CheckNotHandled
  BY <1>4, <1>vm, <1>run
  DEF CheckMedLit, CheckSingleLookaround, CheckLookaround, CheckBounds, CheckLitEarly,
      CheckState, CheckNotHandled, Branch
<1>5. CASE CheckPrefix \/ CheckInfix
  BY <1>5, <1>vm, <1>run DEF CheckPrefix, CheckInfix, NfaError, Branch
<1>6. CASE Report \/ FinalReport \/ DedupeAndReport \/ DedupeSkip
  BY <1>6, <1>vm, <1>run DEF Report, FinalReport, DedupeAndReport, DedupeSkip, AfterReport
<1>7. CASE TriggerSuffix \/ TriggerInfix \/ SetState \/ SetGroups \/ SquashGroups
  BY <1>7, <1>vm, <1>run DEF TriggerSuffix, TriggerInfix, SetState, SetGroups, SquashGroups
<1> QED BY <1>1, <1>2, <1>3, <1>4, <1>5, <1>6, <1>7 DEF RunProgram

LEMMA IncludedStep ==
    ASSUME TypeOK, RunProgram, vm'.status = "running", CellAt(db, vm.pc).op = "INCLUDED_JUMP"
    PROVE  IF vm.confirm
           THEN vm'.pc = CellAt(db, vm.pc).child /\ CellAt(db, vm.pc).squash \subseteq vm'.squash
           ELSE vm'.pc = vm.pc + 1
<1>1. Fetch("INCLUDED_JUMP") /\ Instr = CellAt(db, vm.pc) /\ Instr.op = "INCLUDED_JUMP"
  BY InterpretFlow, AtInstr
<1>2. IncludedJump
  BY <1>1
  DEF Fetch, RunProgram, OutOfProgram, End, UnknownOpcode, CatchUp, CheckGroups,
      CheckByte, CheckMask, CheckMask32, Check, CheckMedLit, CheckSingleLookaround,
      CheckLookaround, CheckBounds, CheckLitEarly, CheckState, CheckNotHandled,
      CheckPrefix, CheckInfix, NfaError, Report, FinalReport, DedupeAndReport, DedupeSkip,
      PushDelayed, TriggerSuffix, TriggerInfix, SetState, SetGroups, SquashGroups
<1> DEFINE squashed == [vm EXCEPT !.squash = @ \cup Instr.squash]
<1>3. vm \in VmState /\ Instr.squash \in SUBSET Nat
  BY <1>1, InstrFetched, InstrType DEF TypeOK
<1>4. squashed \in VmState /\ squashed.squash = vm.squash \cup Instr.squash
  BY <1>3 DEF VmState
<1> HIDE DEF squashed
<1>5. vm' = IF ~vm.confirm THEN Next1(vm)
            ELSE IF Instr.child > Len(db.code) THEN Halt(squashed, "Rose")
            ELSE Goto(squashed, Instr.child)
  BY <1>2 DEF IncludedJump, squashed
<1>6. CASE ~vm.confirm
  BY <1>3, <1>5, <1>6, GotoFields
<1>7. CASE vm.confirm
  <2>1. vm' = Goto(squashed, Instr.child)
    BY <1>4, <1>5, <1>7, GotoFields
  <2>2. Goto(squashed, Instr.child).squash = squashed.squash
    BY <1>4 DEF Goto, VmState
  <2> QED BY <1>1, <1>4, <1>7, <2>1, <2>2, GotoFields
<1> QED BY <1>6, <1>7

InSegment(p, e) == vm.status = "running" /\ vm.pc \in p..e

\* How a step gets to the cells p..e.
LEMMA SegmentFlow ==
    ASSUME TypeOK, RunProgram, NEW p \in Int, NEW e \in CellsOf(db), Segment(db, p, e),
           NEW from, Entry(db, p, from), InSegment(p, e)', db' = db
    PROVE  /\ vm'.status = "running" /\ vm.status = "running" /\ vm.pc \in CellsOf(db)
           /\ InSegment(p, e) \/ (vm'.pc = p /\ vm.pc \in from /\ ~FlowsOn)
<1>1. vm'.status = "running" /\ vm.status = "running" /\ vm'.pc \in p..e
  BY StatusIsRunning DEF InSegment
<1>2. /\ vm.pc \in CellsOf(db) /\ CellAt(db, vm.pc).op \notin Halting /\ (FlowsOn \/ Jumps)
      /\ vm.pc \in Int /\ e \in Int
  BY <1>1, InterpretFlow, AtInstr, CellsInt
<1>3. CASE vm.pc \in p..e
  BY <1>1, <1>2, <1>3 DEF InSegment
<1>4. CASE vm.pc \notin p..e
  <2>1. vm'.pc = p
    <3> SUFFICES ASSUME vm'.pc # p PROVE FALSE
      OBVIOUS
    <3>1. vm'.pc \in p+1..e /\ Guards(db, p, e)
      BY <1>1, <1>2 DEF Segment
    <3>2. vm.pc \in p+1..e \/ vm.pc = p
      BY <1>1, <1>2, <3>1, Entered
    <3> QED BY <1>1, <1>2, <1>4, <3>1, <3>2
  <2>2. ~FlowsOn
    <3> SUFFICES ASSUME vm'.pc = vm.pc + 1 PROVE FALSE
      BY DEF FlowsOn
    <3>1. vm.pc = p - 1 /\ p # 0
      BY <1>2, <2>1 DEF CellsOf
    <3> QED BY <1>2, <3>1 DEF Entry
  <2>3. vm.pc \in from
    BY <1>2, <2>1, <2>2 DEF Entry, Jumps
  <2> QED BY <1>1, <1>2, <2>1, <2>2, <2>3
<1> QED BY <1>3, <1>4

\* Only replays are in the programs of delayed literals.
ReplayInv ==
    \A i \in DOMAIN db.delayed, c \in CellsOf(db) :
        ReplayCell(db, i, c) /\ InSegment(db.delayed[i], c) => ~vm.confirm

\* Where a start leads: into the programs that start there.
LEMMA StartSegment ==
    ASSUME NEW p, NEW e, Segment(db, p, e), NEW q \in StartsOf(db), q \in p..e, p \in Int, e \in Int
    PROVE  q = p
BY DEF Segment, Guards

LEMMA NextReplay ==
    TypeOK /\ StatusInv /\ HitHasLiteral /\ ReplayInv /\ [Next]_vars => ReplayInv'
<1> SUFFICES ASSUME TypeOK, StatusInv, HitHasLiteral, ReplayInv, [Next]_vars PROVE ReplayInv'
  OBVIOUS
<1>db. db' = db
  BY StepKinds
<1> SUFFICES ASSUME NEW i \in DOMAIN db.delayed, NEW c \in CellsOf(db), NEW p, p = db.delayed[i],
                    ReplayCell(db, i, c), InSegment(p, c)'
             PROVE  ~vm'.confirm
  BY <1>db DEF ReplayInv
<1>0. p \in Int /\ c \in Int /\ Segment(db, p, c) /\ Entry(db, p, {})
      /\ \A l \in DOMAIN db.lits : db.lits[l].prog # p
  BY CellsInt DEF ReplayCell, Entry
<1>1. CASE RunProgram
  <2>1. InSegment(p, c)
    BY <1>db, <1>0, <1>1, SegmentFlow
  <2> QED BY <1>1, <2>1, SquashGrows DEF ReplayInv
<1>2. CASE ReplayNext
  BY <1>2 DEF ReplayNext, StartVm, IdleVm
<1>3. CASE FlushDone /\ ~flush.final
  <2>1. vm'.pc = db.lits[engine.lit].prog /\ engine.lit \in DOMAIN db.lits
    BY <1>3 DEF FlushDone, StartVm, IdleVm, HitHasLiteral, InHit
  <2>2. vm'.pc \in StartsOf(db) /\ vm'.pc \in p..c
    BY <2>1 DEF StartsOf, InSegment
  <2> QED BY <1>0, <2>1, <2>2, StartSegment
<1>4. CASE UNCHANGED vm
  BY <1>4 DEF ReplayInv, InSegment
<1> QED
  BY <1>1, <1>2, <1>3, <1>4
  DEF Next, vars, progVars, scanVars, OnHit, EngineDone, OpenSlot, ReplayBadIndex, SlotDone,
      FlushDone, Interpret, ReturnContinue, ReturnTerminate, ReturnErr, Finished
-----------------------------------------------------------------------------
\* The first cell of a literal's program.
Begin(k) == db.lits[k].prog
BucketOf(k) == db.lits[k].bucket

\* Cell e is where the program of literal k leads to the next literal of the
\* chain, or to match x.
Exit(x, ch, k, e) ==
    /\ Segment(db, Begin(k), e)
    /\ \/ \E l \in ch : Follower(ch, k, l) /\ Includes(db, k, l, e)
       \/ (\A j \in ch : j <= k) /\ MatchCells(db, x) = {e}

\* Match x was made at the end that the engine is at.
Made(x) == \E i \in DOMAIN out : out[i].id = x /\ out[i].end = engine.end
OnceAtEnd(x) ==
    \A i, j \in DOMAIN out :
        out[i].id = x /\ out[j].id = x /\ out[i].end = out[j].end => i = j

\* The engine does not report literal k at this end any more.
RunSquash == IF at = "direct" /\ ~engine.flood THEN vm.squash ELSE {}
Shut(k) ==
    \/ k \in engine.used
    \/ engine.flood /\ ~db.lits[k].flood
    \/ BucketOf(k) \in engine.squashed \cup RunSquash /\ BucketOf(k) # BucketOf(engine.lit)

\* The run was started by a literal of the chain that is not behind k, and has
\* squashed the ones up to k.
OnWay(x, ch, k) ==
    /\ at = "direct" /\ vm.confirm /\ engine.lit \in ch /\ engine.lit <= k /\ ~Made(x)
    /\ \A j \in ch : engine.lit < j /\ j <= k => BucketOf(j) \in vm.squash

ChainInv(x, ch) ==
    /\ OnceAtEnd(x)
    /\ Made(x) /\ ~engine.stopped => engine.used # {} /\ \A k \in ch : Shut(k)
    /\ InHit /\ at # "direct" /\ engine.lit \in ch => ~Made(x)
    /\ \A k \in ch, e \in CellsOf(db) : Exit(x, ch, k, e) /\ InSegment(Begin(k), e) => OnWay(x, ch, k)

\* What the engine used at this end, and where the run of a hit is.
HitInv ==
    /\ at = "direct" => vm.end = engine.end
    /\ InHit => engine.used # {}
    /\ engine.used # {} =>
          /\ engine.lit \in DOMAIN db.lits /\ engine.lit \in engine.used
          /\ IF engine.flood THEN db.lits[engine.lit].flood ELSE 1..engine.lit \subseteq engine.used

\* What a chain says of the programs of its literals.
LEMMA ChainPrograms ==
    ASSUME TypeOK, NEW x, NEW ch \in SUBSET (DOMAIN db.lits), IncludedChain(db, x, ch), NEW k \in ch
    PROVE  /\ Begin(k) \in Int /\ Begin(k) \in StartsOf(db) /\ k \in Nat
           /\ \A l \in DOMAIN db.lits : Begin(l) = Begin(k) => l = k
           /\ \A i \in DOMAIN db.delayed : db.delayed[i] # Begin(k)
           /\ \E from :
                 /\ Entry(db, Begin(k), from \cup ReplayJumps(db))
                 /\ \A c \in from : \E j \in ch :
                       Follower(ch, j, k) /\ Includes(db, j, k, c) /\ Exit(x, ch, j, c)
<1> DEFINE LedBy(from) == /\ OwnProgram(db, k, from)
                          /\ \A c \in from : \E j \in ch : Follower(ch, j, k) /\ Includes(db, j, k, c)
<1>1. \E from : LedBy(from)
  <2>1. \/ OwnProgram(db, k, {})
        \/ \E j \in ch, c \in CellsOf(db) :
              Follower(ch, j, k) /\ Includes(db, j, k, c) /\ OwnProgram(db, k, {c})
    BY DEF IncludedChain
  <2>2. CASE LedBy({})
    BY <2>2
  <2>3. ASSUME NEW c, LedBy({c}) PROVE \E from : LedBy(from)
    BY <2>3
  <2> QED BY <2>1, <2>2, <2>3
<1>2. PICK from : LedBy(from)
  BY <1>1
<1>3. \A c \in from : \E j \in ch :
          Follower(ch, j, k) /\ Includes(db, j, k, c) /\ Exit(x, ch, j, c)
  BY <1>2 DEF Exit, Includes, Begin
<1>4. Begin(k) \in StartsOf(db) /\ k \in Nat
  BY DbType DEF StartsOf, Begin
<1>5. Entry(db, Begin(k), from \cup ReplayJumps(db)) /\ Begin(k) \in Int
  BY <1>2, CellsInt DEF OwnProgram, Entry, Begin
<1> QED BY <1>2, <1>3, <1>4, <1>5 DEF OwnProgram, Begin

\* Programs of different literals share no cells.
LEMMA SegmentsApart ==
    ASSUME NEW p \in StartsOf(db), NEW q \in StartsOf(db), p \in Int, q \in Int,
           NEW e \in Int, NEW f \in Int, Segment(db, p, e), Segment(db, q, f),
           NEW c \in Int, c \in p..e, c \in q..f
    PROVE  p = q
<1>1. CASE p <= q
  BY <1>1, StartSegment
<1>2. CASE q <= p
  BY <1>2, StartSegment
<1> QED BY <1>1, <1>2

\* The match of a chain is made on the way through its last literal.
LEMMA ChainMatch ==
    ASSUME TypeOK, NEW x, NEW ch \in SUBSET (DOMAIN db.lits), IncludedChain(db, x, ch), ChainInv(x, ch),
           vm.status = "running", vm.pc \in MatchCells(db, x)
    PROVE  \E k \in ch : /\ \A j \in ch : j <= k
                         /\ Exit(x, ch, k, vm.pc) /\ vm.pc \in Begin(k)..vm.pc /\ OnWay(x, ch, k)
<1>1. PICK k \in ch : /\ \A j \in ch : j <= k
                      /\ \E m \in CellsOf(db) : MatchCells(db, x) = {m} /\ Segment(db, Begin(k), m)
  BY DEF IncludedChain, Begin
<1>2. MatchCells(db, x) = {vm.pc} /\ Segment(db, Begin(k), vm.pc) /\ vm.pc \in CellsOf(db)
  BY <1>1
<1>3. Begin(k) \in Int /\ vm.pc \in Int
  BY <1>2, ChainPrograms, CellsInt
<1>4. InSegment(Begin(k), vm.pc) /\ vm.pc \in Begin(k)..vm.pc
  BY <1>2, <1>3 DEF InSegment, Segment, Guards
<1>5. Exit(x, ch, k, vm.pc)
  BY <1>1, <1>2 DEF Exit
<1> QED BY <1>1, <1>2, <1>4, <1>5 DEF ChainInv

LEMMA MadeGrows ==
    ASSUME TypeOK, RunProgram, engine' = engine, NEW x
    PROVE  /\ Made(x) => Made(x)'
           /\ Made(x)' /\ ~Made(x) => vm.pc \in MatchCells(db, x) /\ \E m : Matched(m)
<1>1. CASE out' = out
  BY <1>1 DEF Made
<1>2. ASSUME NEW m, Matched(m)
      PROVE  /\ Made(x) => Made(x)'
             /\ Made(x)' /\ ~Made(x) => vm.pc \in MatchCells(db, x)
  <2>1. /\ Len(out) \in Nat /\ DOMAIN out = 1..Len(out) /\ DOMAIN out' = 1..Len(out)+1
        /\ \A i \in DOMAIN out : out'[i] = out[i]
        /\ out'[Len(out) + 1] = m
    BY <1>2, Appended
  <2>2. DOMAIN out \subseteq DOMAIN out' /\ \A i \in DOMAIN out' : i \in DOMAIN out \/ i = Len(out) + 1
    BY <2>1
  <2>3. vm.pc \in MatchCells(db, m.id)
    BY <1>2 DEF Matched
  <2> QED BY <2>1, <2>2, <2>3 DEF Made
<1> QED BY <1>1, <1>2, MatchStep

LEMMA OnceAtEndGrows ==
    ASSUME TypeOK, RunProgram, engine' = engine, NEW x, OnceAtEnd(x),
           vm.pc \in MatchCells(db, x) => ~Made(x) /\ vm.end = engine.end
    PROVE  OnceAtEnd(x)'
<1>1. CASE out' = out
  BY <1>1 DEF OnceAtEnd
<1>2. ASSUME NEW m, Matched(m) PROVE OnceAtEnd(x)'
  <2>1. /\ Len(out) \in Nat /\ DOMAIN out = 1..Len(out) /\ DOMAIN out' = 1..Len(out)+1
        /\ \A i \in DOMAIN out : out'[i] = out[i]
        /\ out'[Len(out) + 1] = m
    BY <1>2, Appended
  <2>2. \A i \in DOMAIN out' : i \in DOMAIN out \/ i = Len(out) + 1
    BY <2>1
  <2>3. m.id = x => \A i \in DOMAIN out : ~(out[i].id = x /\ out[i].end = m.end)
    BY <1>2 DEF Matched, Made
  <2> QED BY <2>1, <2>2, <2>3 DEF OnceAtEnd
<1> QED BY <1>1, <1>2, MatchStep

\* A run that is on its way through the chain stays so: it gets into the next
\* program by the jump that squashes its bucket.
LEMMA ChainWay ==
    ASSUME TypeOK, ReplayInv, RunProgram, UNCHANGED <<db, at, engine>>,
           NEW x, NEW ch \in SUBSET (DOMAIN db.lits), IncludedChain(db, x, ch), ChainInv(x, ch),
           NEW k \in ch, NEW e \in CellsOf(db), Exit(x, ch, k, e), InSegment(Begin(k), e)'
    PROVE  OnWay(x, ch, k)'
<1>0. /\ Segment(db, Begin(k), e) /\ e \in Int /\ ch' = ch
      /\ vm.status = "running" /\ vm'.status = "running" /\ vm'.pc \in Begin(k)..e
      /\ vm.squash \subseteq vm'.squash /\ vm'.confirm = vm.confirm
  BY StatusIsRunning, SquashGrows, CellsInt DEF Exit, InSegment, Begin
<1>1. /\ Begin(k) \in Int /\ Begin(k) \in StartsOf(db) /\ k \in Nat
      /\ \A l \in DOMAIN db.lits : Begin(l) = Begin(k) => l = k
  BY ChainPrograms
<1>2. PICK from :
         /\ Entry(db, Begin(k), from \cup ReplayJumps(db))
         /\ \A c \in from : \E j \in ch :
               Follower(ch, j, k) /\ Includes(db, j, k, c) /\ Exit(x, ch, j, c)
  BY ChainPrograms
<1>3. /\ vm.pc \in CellsOf(db) /\ vm.pc \in Int
      /\ \/ InSegment(Begin(k), e)
         \/ vm'.pc = Begin(k) /\ vm.pc \in from \cup ReplayJumps(db) /\ ~FlowsOn
  <2>1. PICK p \in Int : p = Begin(k)
    BY <1>1
  <2>2. PICK cells : cells = from \cup ReplayJumps(db)
    OBVIOUS
  <2>3. Segment(db, p, e) /\ Entry(db, p, cells) /\ InSegment(p, e)'
    BY <1>0, <1>2, <2>1, <2>2 DEF InSegment
  <2>4. /\ vm.pc \in CellsOf(db)
        /\ InSegment(p, e) \/ (vm'.pc = p /\ vm.pc \in cells /\ ~FlowsOn)
    BY <2>3, SegmentFlow
  <2> QED BY <2>1, <2>2, <2>4, CellsInt
<1>4. CASE InSegment(Begin(k), e)
  <2>1. OnWay(x, ch, k)
    BY <1>4 DEF ChainInv
  <2>2. ~Made(x)'
    <3> SUFFICES ASSUME Made(x)' PROVE FALSE
      OBVIOUS
    <3>1. vm.pc \in MatchCells(db, x) /\ \E m : Matched(m)
      BY <2>1, MadeGrows DEF OnWay
    <3>2. vm'.pc = vm.pc + 1
      BY <1>0, <3>1 DEF Matched, FlowsOn
    <3>3. PICK l \in ch : /\ \A j \in ch : j <= l
                          /\ Exit(x, ch, l, vm.pc) /\ vm.pc \in Begin(l)..vm.pc
      BY <1>0, <3>1, ChainMatch
    <3>4. Begin(l) \in Int /\ Begin(l) \in StartsOf(db) /\ l \in DOMAIN db.lits /\ l \in Nat
      BY ChainPrograms
    <3>5. l = k
      BY <1>0, <1>1, <1>3, <1>4, <3>3, <3>4, SegmentsApart DEF Exit, InSegment
    <3>6. MatchCells(db, x) = {e}
      <4>1. ASSUME NEW j \in ch, Follower(ch, k, j) PROVE FALSE
        BY <3>3, <3>5, <4>1, ChainPrograms DEF Follower
      <4> QED BY <4>1 DEF Exit
    <3>7. vm.pc = e
      BY <3>1, <3>6
    <3> QED BY <1>0, <1>1, <3>2, <3>7
  <2> QED BY <1>0, <2>1, <2>2 DEF OnWay, BucketOf
<1>5. CASE vm'.pc = Begin(k) /\ vm.pc \in ReplayJumps(db) /\ ~FlowsOn
  <2>1. CellAt(db, vm.pc).op = "INCLUDED_JUMP"
    BY <1>5 DEF ReplayJumps
  <2>2. PICK i \in DOMAIN db.delayed : ReplayCell(db, i, vm.pc)
    BY <1>5 DEF ReplayJumps
  <2>3. InSegment(db.delayed[i], vm.pc)
    <3>1. db.delayed[i] \in Int /\ Segment(db, db.delayed[i], vm.pc)
      BY <2>2, CellsInt DEF ReplayCell, Entry
    <3> QED BY <1>0, <1>3, <3>1 DEF InSegment, Segment, Guards
  <2>4. ~vm.confirm
    BY <1>3, <2>2, <2>3 DEF ReplayInv
  <2> QED BY <1>0, <1>5, <2>1, <2>4, IncludedStep DEF FlowsOn
<1>6. CASE vm'.pc = Begin(k) /\ vm.pc \in from
  <2>1. PICK j \in ch : Follower(ch, j, k) /\ Includes(db, j, k, vm.pc) /\ Exit(x, ch, j, vm.pc)
    BY <1>2, <1>6
  <2>2. Begin(j) \in Int /\ j \in Nat
    BY ChainPrograms
  <2>3. InSegment(Begin(j), vm.pc)
    BY <1>0, <1>3, <2>1, <2>2 DEF InSegment, Exit, Segment, Guards
  <2>4. OnWay(x, ch, j)
    BY <1>3, <2>1, <2>3 DEF ChainInv
  <2>5. CellAt(db, vm.pc).op = "INCLUDED_JUMP" /\ BucketOf(k) \in CellAt(db, vm.pc).squash
    BY <2>1 DEF Includes, BucketOf
  <2>6. BucketOf(k) \in vm'.squash
    BY <1>0, <2>4, <2>5, IncludedStep DEF OnWay
  <2>7. ~Made(x)'
    BY <2>4, <2>5, MadeGrows DEF OnWay, MatchCells, Matching
  <2>8. engine.lit \in Nat /\ engine.lit <= j /\ j < k
    BY <2>1, <2>4 DEF OnWay, Follower, TypeOK, EngineState
  <2>9. ASSUME NEW h \in ch, engine.lit < h, h <= k PROVE BucketOf(h) \in vm'.squash
    <3>1. h \in Nat
      BY ChainPrograms
    <3>2. h <= j \/ h = k
      BY <2>1, <2>2, <2>9, <3>1, <1>1 DEF Follower
    <3> QED BY <1>0, <2>4, <2>6, <2>9, <3>2 DEF OnWay
  <2> QED BY <1>0, <1>1, <2>2, <2>4, <2>7, <2>8, <2>9 DEF OnWay, BucketOf
<1> QED BY <1>3, <1>4, <1>5, <1>6

LEMMA ChainStep ==
    ASSUME TypeOK, OrderInv, HitInv, ReplayInv, RunProgram, Running,
           UNCHANGED <<db, at, engine, flush>>,
           NEW x, NEW ch \in SUBSET (DOMAIN db.lits), IncludedChain(db, x, ch), ChainInv(x, ch)
    PROVE  ChainInv(x, ch)'
<1>0. vm.status = "running" /\ vm.squash \subseteq vm'.squash
  BY StatusIsRunning, SquashGrows
<1>1. ASSUME vm.pc \in MatchCells(db, x)
      PROVE  /\ at = "direct" /\ ~Made(x) /\ vm.end = engine.end
             /\ engine.used # {} /\ \A k \in ch : Shut(k)
  <2>1. PICK l \in ch : (\A j \in ch : j <= l) /\ OnWay(x, ch, l)
    BY <1>0, <1>1, ChainMatch
  <2>2. at = "direct" /\ engine.lit \in ch /\ ~Made(x)
    BY <2>1 DEF OnWay
  <2>3. ~flush.final /\ InHit /\ engine.used # {}
    BY <2>2 DEF OrderInv, InHit, HitInv
  <2>4. vm.end = engine.end
    BY <2>2 DEF HitInv
  <2>5. ASSUME NEW k \in ch PROVE Shut(k)
    <3>1. k \in Nat \ {0} /\ engine.lit \in Nat
      BY DbType DEF TypeOK, EngineState
    <3>2. /\ engine.lit \in engine.used
          /\ IF engine.flood THEN db.lits[engine.lit].flood ELSE 1..engine.lit \subseteq engine.used
      BY <2>3 DEF HitInv
    <3>3. CASE k = engine.lit
      BY <3>2, <3>3 DEF Shut
    <3>4. CASE k < engine.lit
      <4>1. ~db.lits[k].flood
        BY <2>2, <3>4 DEF IncludedChain
      <4>2. ~engine.flood => k \in 1..engine.lit
        BY <3>1, <3>4
      <4> QED BY <3>2, <4>1, <4>2 DEF Shut
    <3>5. CASE engine.lit < k
      <4>1. ~db.lits[engine.lit].flood /\ BucketOf(k) # BucketOf(engine.lit)
        BY <2>2, <3>5 DEF IncludedChain, BucketOf
      <4>2. BucketOf(k) \in vm.squash
        BY <2>1, <3>5 DEF OnWay
      <4> QED BY <2>2, <3>2, <4>1, <4>2 DEF Shut, RunSquash
    <3> QED BY <3>1, <3>3, <3>4, <3>5
  <2> QED BY <2>2, <2>3, <2>4, <2>5
<1>2. OnceAtEnd(x)'
  BY <1>1, OnceAtEndGrows DEF ChainInv
<1>3. ASSUME NEW k \in ch, Shut(k) PROVE Shut(k)'
  BY <1>0, <1>3 DEF Shut, RunSquash, BucketOf
<1>4. Made(x)' /\ ~engine'.stopped => engine'.used # {} /\ \A k \in ch : Shut(k)'
  BY <1>1, <1>3, MadeGrows DEF ChainInv
<1>5. InHit' /\ at' # "direct" /\ engine'.lit \in ch => ~Made(x)'
  BY <1>1, MadeGrows DEF ChainInv, InHit
<1>6. \A k \in ch, e \in CellsOf(db) : Exit(x, ch, k, e)' /\ InSegment(Begin(k), e)' => OnWay(x, ch, k)'
  BY ChainWay DEF Exit, Begin
<1> QED BY <1>2, <1>4, <1>5, <1>6 DEF ChainInv, Begin

\* What a hit uses, and what was shut before.
LEMMA HitUse ==
    ASSUME TypeOK, OnHit
    PROVE  /\ engine'.lit \in engine'.used
           /\ IF engine'.flood THEN db.lits[engine'.lit].flood ELSE 1..engine'.lit \subseteq engine'.used
           /\ engine'.end = engine.end =>
                 /\ engine.used \subseteq engine'.used /\ engine'.squashed = engine.squashed
                 /\ engine'.lit \notin engine.used /\ ~Skipped(engine'.lit)
                 /\ engine.used # {} => engine'.flood = engine.flood
<1>1. PICK end \in engine.end..buflen, lit \in DOMAIN db.lits, flood \in BOOLEAN :
         /\ flood => db.lits[lit].flood
         /\ end = engine.end =>
               /\ lit \notin engine.used /\ ~Skipped(lit)
               /\ engine.used # {} => flood = engine.flood
         /\ engine' = EngineHit(end, lit, flood)
  BY DEF OnHit
<1> DEFINE used == (IF end = engine.end THEN engine.used ELSE {}) \cup (IF flood THEN {lit} ELSE 1..lit)
           squashed == IF end = engine.end THEN engine.squashed ELSE {}
<1>2. engine \in EngineState /\ lit \in Nat \ {0}
  BY DbType DEF TypeOK
<1>3. engine' = [engine EXCEPT !.end = end, !.lit = lit, !.flood = flood, !.used = used,
                               !.squashed = squashed]
  BY <1>1, <1>2 DEF EngineHit, EngineState
<1>4. /\ lit \in used /\ (~flood => 1..lit \subseteq used)
      /\ end = engine.end => engine.used \subseteq used
  BY <1>2
<1>5. end = engine.end => squashed = engine.squashed
  OBVIOUS
<1> HIDE DEF used, squashed
<1>6. /\ engine'.end = end /\ engine'.lit = lit /\ engine'.flood = flood
      /\ engine'.used = used /\ engine'.squashed = squashed
  BY <1>2, <1>3 DEF EngineState
<1> QED BY <1>1, <1>4, <1>5, <1>6

LEMMA InitHit == Init => HitInv
BY DEF Init, HitInv, InHit

LEMMA NextHitInv == TypeOK /\ HitHasLiteral /\ OrderInv /\ HitInv /\ [Next]_vars => HitInv'
<1> SUFFICES ASSUME TypeOK, HitHasLiteral, OrderInv, HitInv, [Next]_vars PROVE HitInv'
  OBVIOUS
<1>1. CASE OnHit
  BY <1>1, HitUse, HitFields DEF HitInv
<1>2. CASE FlushDone
  <2>1. UNCHANGED <<db, engine, flush>> /\ at = "flush" /\ (at' = "direct" => ~flush.final)
    BY <1>2 DEF FlushDone
  <2>2. at' = "direct" => vm'.end = flush.limit
    BY <1>2 DEF FlushDone, StartVm, IdleVm
  <2> QED BY <2>1, <2>2 DEF HitInv, InHit, OrderInv
<1>3. CASE Interpret
  <2>1. vm'.end = vm.end
    BY <1>3, SquashGrows DEF Interpret
  <2> QED BY <1>3, <2>1 DEF HitInv, InHit, Interpret, scanVars
<1>4. CASE ReturnContinue
  <2>1. /\ engine'.used = engine.used /\ engine'.lit = engine.lit /\ engine'.flood = engine.flood
        /\ UNCHANGED <<db, flush>> /\ at' # "direct"
    BY <1>4 DEF ReturnContinue, TypeOK, EngineState
  <2> QED BY <1>4, <2>1 DEF HitInv, InHit, ReturnContinue
<1>5. CASE ReplayBadIndex \/ ReturnTerminate \/ ReturnErr
  <2>1. /\ engine'.used = engine.used /\ engine'.lit = engine.lit /\ engine'.flood = engine.flood
        /\ UNCHANGED db /\ at' \in {"engine", "done"}
    BY <1>5 DEF ReplayBadIndex, ReturnTerminate, ReturnErr, StopScan, TypeOK, EngineState
  <2> QED BY <2>1 DEF HitInv, InHit
<1>6. CASE OpenSlot \/ ReplayNext
  <2>1. /\ UNCHANGED <<db, engine>> /\ at \in {"flush", "replay"} /\ at' # "direct"
        /\ flush'.final = flush.final
    BY <1>6 DEF OpenSlot, ReplayNext, TypeOK
  <2> QED BY <2>1 DEF HitInv, InHit
<1>7. CASE EngineDone \/ SlotDone \/ Finished \/ UNCHANGED vars
  BY <1>7 DEF EngineDone, SlotDone, Finished, vars, progVars, scanVars, HitInv, InHit
<1> QED BY <1>1, <1>2, <1>3, <1>4, <1>5, <1>6, <1>7 DEF Next

-----------------------------------------------------------------------------
\* The engine reports a literal of the chain only if the match was not made.
LEMMA ChainHit ==
    ASSUME TypeOK, OrderInv, LiveInv, HitInv, OnHit,
           NEW x, NEW ch \in SUBSET (DOMAIN db.lits), ChainInv(x, ch)
    PROVE  ChainInv(x, ch)'
<1>0. /\ at = "engine" /\ at' = "flush" /\ UNCHANGED <<db, out, vm>> /\ ~engine.stopped
      /\ engine.end <= engine'.end /\ engine'.stopped = engine.stopped /\ ~flush'.final
      /\ vm.status # "running"
  <2>1. ~engine.stopped
    BY DEF OnHit
  <2> QED BY <2>1, HitFields DEF LiveInv, Running
<1>1. CASE engine'.end # engine.end
  <2>1. ASSUME NEW i \in DOMAIN out PROVE out[i].end # engine'.end
    <3>1. /\ out[i].end \in Nat /\ vm.end \in Nat /\ dle \in Nat
          /\ engine.end \in Nat /\ engine'.end \in Nat
      <4>1. out[i] \in OutEntry /\ vm \in VmState /\ dle \in Nat
            /\ engine \in EngineState /\ engine' \in EngineState
        BY HitFields DEF TypeOK
      <4> QED BY <4>1 DEF OutEntry, VmState, EngineState
    <3>2. out[i].end <= vm.end
      BY <3>1 DEF OrderInv, OutBeforeVm, Precedes
    <3>3. vm.end <= dle /\ dle <= engine.end
      BY <1>0 DEF OrderInv
    <3> QED BY <1>0, <1>1, <3>1, <3>2, <3>3
  <2>2. ~Made(x)'
    BY <1>0, <2>1 DEF Made
  <2> QED BY <1>0, <2>2 DEF ChainInv, OnceAtEnd, InSegment
<1>2. CASE engine'.end = engine.end
  <2>1. /\ engine.used \subseteq engine'.used /\ engine'.squashed = engine.squashed
        /\ engine'.lit \notin engine.used /\ ~Skipped(engine'.lit)
        /\ engine.used # {} => engine'.flood = engine.flood
        /\ engine'.flood => db.lits[engine'.lit].flood
    BY <1>2, HitUse
  <2>2. Made(x)' <=> Made(x)
    BY <1>0, <1>2 DEF Made
  <2>3. RunSquash = {}
    BY <1>0 DEF RunSquash
  <2>4. Made(x) => engine.used # {} /\ \A k \in ch : Shut(k)
    BY <1>0 DEF ChainInv
  <2>5. ASSUME NEW k \in ch, Shut(k), engine.used # {} PROVE Shut(k)' /\ k # engine'.lit
    <3>1. CASE k \in engine.used
      BY <2>1, <3>1 DEF Shut
    <3>2. CASE engine.flood /\ ~db.lits[k].flood
      BY <1>0, <2>1, <2>5, <3>2 DEF Shut
    <3>3. CASE BucketOf(k) \in engine.squashed /\ BucketOf(k) # BucketOf(engine.lit)
      <4>1. BucketOf(engine'.lit) # BucketOf(k)
        BY <2>1, <3>3 DEF Skipped, BucketOf
      <4> QED BY <1>0, <2>1, <3>3, <4>1 DEF Shut, BucketOf
    <3> QED BY <2>3, <2>5, <3>1, <3>2, <3>3 DEF Shut
  <2>6. Made(x)' => engine'.used # {} /\ \A k \in ch : Shut(k)'
    BY <2>1, <2>2, <2>4, <2>5
  <2>7. engine'.lit \in ch => ~Made(x)'
    BY <2>2, <2>4, <2>5
  <2> QED BY <1>0, <2>6, <2>7 DEF ChainInv, OnceAtEnd, InSegment
<1> QED BY <1>1, <1>2

\* A run starts in the program of the chain that the literal hit has.
LEMMA ChainStart ==
    ASSUME TypeOK, HitHasLiteral, FlushDone \/ ReplayNext, Running', vm'.pc \in StartsOf(db),
           NEW x, NEW ch \in SUBSET (DOMAIN db.lits), IncludedChain(db, x, ch), ChainInv(x, ch)
    PROVE  ChainInv(x, ch)'
<1>0. UNCHANGED <<db, out, engine>> /\ at # "direct" /\ at \in {"flush", "replay"}
  BY DEF FlushDone, ReplayNext
<1>1. RunSquash = {} /\ RunSquash' = {}
  <2>1. vm'.squash = {}
    BY DEF FlushDone, ReplayNext, StartVm, IdleVm, Running
  <2> QED BY <1>0, <2>1 DEF RunSquash
<1>2. InHit' => InHit
  BY <1>0 DEF FlushDone, ReplayNext, InHit, TypeOK
<1>3. (Made(x)' <=> Made(x)) /\ (\A k \in ch : Shut(k)' <=> Shut(k)) /\ (OnceAtEnd(x)' <=> OnceAtEnd(x))
  BY <1>0, <1>1 DEF Made, Shut, BucketOf, OnceAtEnd
<1>4. ASSUME NEW k \in ch, NEW e \in CellsOf(db), Exit(x, ch, k, e), InSegment(Begin(k), e)'
      PROVE  OnWay(x, ch, k)'
  <2>1. /\ Begin(k) \in Int /\ Begin(k) \in StartsOf(db) /\ k \in Nat
        /\ \A l \in DOMAIN db.lits : Begin(l) = Begin(k) => l = k
        /\ \A i \in DOMAIN db.delayed : db.delayed[i] # Begin(k)
    BY ChainPrograms
  <2>2. vm'.pc = Begin(k)
    BY <1>0, <1>4, <2>1, StartSegment, CellsInt DEF Exit, InSegment, Begin
  <2>3. CASE ReplayNext
    BY <2>1, <2>2, <2>3 DEF ReplayNext, StartVm, IdleVm
  <2>4. CASE FlushDone
    <3>1. /\ ~flush.final /\ at = "flush" /\ at' = "direct"
          /\ vm' = StartVm(db.lits[engine.lit].prog, flush.limit, TRUE, 0)
      BY <2>4 DEF FlushDone, Running
    <3>2. vm'.pc = Begin(engine.lit) /\ vm'.confirm
      BY <3>1 DEF StartVm, IdleVm, Begin
    <3>3. engine.lit = k
      BY <2>1, <2>2, <3>1, <3>2 DEF HitHasLiteral, InHit
    <3>4. ~Made(x)'
      BY <1>3, <3>1, <3>3 DEF ChainInv, InHit
    <3>5. \A j \in ch : ~(k < j /\ j <= k)
      BY <2>1, ChainPrograms
    <3>6. engine'.lit = k /\ k <= k
      BY <1>0, <2>1, <3>3
    <3> QED BY <3>1, <3>2, <3>4, <3>5, <3>6 DEF OnWay
  <2> QED BY <2>3, <2>4
<1> QED BY <1>0, <1>2, <1>3, <1>4 DEF ChainInv, Exit, Begin

\* No run is in progress, and the engine stays as it is or stops.
LEMMA ChainRest ==
    ASSUME NEW x, NEW ch, ChainInv(x, ch), UNCHANGED <<db, out, vm>>, vm.status # "running",
           \/ UNCHANGED engine /\ at # "direct" /\ at' # "direct" /\ (InHit' => InHit)
           \/ engine'.stopped /\ at' = "engine"
    PROVE  ChainInv(x, ch)'
<1>1. CASE UNCHANGED engine /\ at # "direct" /\ at' # "direct" /\ (InHit' => InHit)
  <2>1. RunSquash = {} /\ RunSquash' = {}
    BY <1>1 DEF RunSquash
  <2>2. (Made(x)' <=> Made(x)) /\ (\A k \in ch : Shut(k)' <=> Shut(k))
    BY <1>1, <2>1 DEF Made, Shut, BucketOf
  <2> QED BY <1>1, <2>2 DEF ChainInv, OnceAtEnd, InSegment
<1>2. CASE engine'.stopped /\ at' = "engine"
  BY <1>2 DEF ChainInv, OnceAtEnd, InSegment, InHit
<1> QED BY <1>1, <1>2

\* The answer to the hit leaves the engine with what the run squashed.
LEMMA ChainAnswer ==
    ASSUME TypeOK, ReturnContinue, at = "direct", NEW x, NEW ch, ChainInv(x, ch)
    PROVE  ChainInv(x, ch)'
<1>0. /\ at' = "engine" /\ UNCHANGED <<db, out, vm>> /\ vm.status # "running"
      /\ engine'.squashed = engine.squashed \cup RunSquash
      /\ engine'.end = engine.end /\ engine'.used = engine.used /\ engine'.lit = engine.lit
      /\ engine'.flood = engine.flood /\ engine'.stopped = engine.stopped
  <2>1. engine' = [engine EXCEPT !.squashed = @ \cup SquashTaken] /\ SquashTaken = RunSquash
    BY DEF ReturnContinue, SquashTaken, RunSquash
  <2> QED BY <2>1 DEF ReturnContinue, progVars, TypeOK, EngineState
<1>1. (Made(x)' <=> Made(x)) /\ (\A k \in ch : Shut(k)' <=> Shut(k))
  BY <1>0 DEF Made, Shut, RunSquash, BucketOf
<1> QED BY <1>0, <1>1 DEF ChainInv, OnceAtEnd, InSegment, InHit

AllChainInv == \A x : \A ch \in SUBSET (DOMAIN db.lits) : IncludedChain(db, x, ch) => ChainInv(x, ch)

LEMMA InitChain == Init => AllChainInv
<1> SUFFICES ASSUME Init PROVE AllChainInv
  OBVIOUS
<1>1. out = <<>> /\ vm.status # "running" /\ at = "engine"
  BY DEF Init, IdleVm
<1> HIDE DEF Init
<1> QED BY <1>1 DEF AllChainInv, ChainInv, OnceAtEnd, Made, InSegment

ScanInv == TypeOK /\ StatusInv /\ HitHasLiteral /\ OrderInv /\ LiveInv /\ HitInv /\ ReplayInv

LEMMA NextChain == ScanInv /\ AllChainInv /\ [Next]_vars => AllChainInv'
<1> SUFFICES ASSUME ScanInv, AllChainInv, [Next]_vars, NEW x,
                    NEW ch \in SUBSET (DOMAIN db.lits), IncludedChain(db, x, ch)
             PROVE  ChainInv(x, ch)'
  BY StepKinds DEF AllChainInv, ScanInv
<1>0. /\ TypeOK /\ StatusInv /\ HitHasLiteral /\ OrderInv /\ LiveInv /\ HitInv /\ ReplayInv
      /\ db' = db /\ ChainInv(x, ch)
  BY StepKinds DEF ScanInv, AllChainInv
<1>1. CASE Interpret
  BY <1>0, <1>1, ChainStep DEF Interpret, scanVars, Running
<1>2. CASE OnHit
  BY <1>0, <1>2, ChainHit
<1>3. CASE (FlushDone /\ ~flush.final) \/ ReplayNext
  <2>1. CASE FlushDone /\ ~flush.final
    <3>1. engine.lit \in DOMAIN db.lits
      BY <1>0, <2>1 DEF FlushDone, HitHasLiteral, InHit
    <3>2. vm'.pc = db.lits[engine.lit].prog /\ Running'
      BY <2>1 DEF FlushDone, StartVm, IdleVm, Running
    <3> QED BY <1>0, <2>1, <3>1, <3>2, ChainStart DEF StartsOf
  <2>2. CASE ReplayNext
    <3>1. vm'.pc \in StartsOf(db) /\ Running'
      BY <2>2 DEF ReplayNext, StartVm, IdleVm, Running, StartsOf
    <3> QED BY <1>0, <2>2, <3>1, ChainStart
  <2> QED BY <1>3, <2>1, <2>2
<1>4. CASE FlushDone /\ flush.final
  BY <1>0, <1>4, ChainRest DEF FlushDone, LiveInv, Running, InHit
<1>5. CASE EngineDone
  BY <1>0, <1>5, ChainRest DEF EngineDone, progVars, LiveInv, Running, InHit
<1>6. CASE OpenSlot \/ SlotDone
  <2>1. /\ UNCHANGED <<db, engine, out, vm>> /\ at \in {"flush", "replay"} /\ at' # "direct"
        /\ flush'.final = flush.final
    BY <1>0, <1>6 DEF OpenSlot, SlotDone, progVars, TypeOK
  <2>2. vm.status # "running" /\ at # "direct" /\ (InHit' => InHit)
    BY <1>0, <2>1 DEF LiveInv, Running, InHit
  <2> QED BY <1>0, <2>1, <2>2, ChainRest
<1>7. CASE ReturnContinue
  <2>1. CASE at = "direct"
    BY <1>0, <1>7, <2>1, ChainAnswer
  <2>2. CASE at = "delayed"
    BY <1>0, <1>7, <2>2, ChainRest DEF ReturnContinue, progVars, InHit
  <2> QED BY <1>7, <2>1, <2>2 DEF ReturnContinue
<1>8. CASE ReplayBadIndex \/ ReturnTerminate \/ ReturnErr
  <2>1. vm.status # "running" /\ UNCHANGED <<out, vm>> /\ StopScan /\ (at = "direct" => ~flush.final)
    BY <1>0, <1>8
    DEF ReplayBadIndex, ReturnTerminate, ReturnErr, InterpErrors, progVars, LiveInv,
        Running, OrderInv
  <2>2. CASE flush.final
    BY <1>0, <2>1, <2>2, ChainRest DEF StopScan, InHit
  <2>3. CASE ~flush.final
    <3>1. at' = "engine" /\ engine'.stopped
      BY <1>0, <2>1, <2>3 DEF StopScan, TypeOK, EngineState
    <3> QED BY <1>0, <2>1, <3>1, ChainRest
  <2> QED BY <2>2, <2>3
<1>9. CASE Finished \/ UNCHANGED vars
  BY <1>0, <1>9
  DEF Finished, vars, progVars, scanVars, ChainInv, OnceAtEnd, Made, Shut, RunSquash,
      BucketOf, InHit, Exit, Begin, InSegment, OnWay
<1> QED BY <1>1, <1>2, <1>3, <1>4, <1>5, <1>6, <1>7, <1>8, <1>9 DEF Next

\* An included literal is reported once per end, by its own confirm or by the
\* jumps of the literals that include it.
THEOREM IncludedMatchOnce == Spec => []IncludedOnce
<1>1. AllChainInv => IncludedOnce
  <2> SUFFICES ASSUME AllChainInv, NEW i \in DOMAIN out, NEW j \in DOMAIN out, i # j,
                      out[i].id = out[j].id, out[i].end = out[j].end, Included(db, out[i].id)
               PROVE  FALSE
    BY DEF IncludedOnce
  <2>1. PICK ch \in SUBSET (DOMAIN db.lits) : IncludedChain(db, out[i].id, ch)
    BY DEF Included
  <2>2. OnceAtEnd(out[i].id)
    BY <2>1 DEF AllChainInv, ChainInv
  <2> QED BY <2>2 DEF OnceAtEnd
<1>2. Init => ReplayInv
  BY DEF Init, IdleVm, ReplayInv, InSegment
<1>3. Init /\ [][Next]_vars /\ [](TypeOK /\ StatusInv /\ HitHasLiteral) => []LiveInv
  BY InitLive, NextLive, PTL
<1>4. Init /\ [][Next]_vars /\ [](TypeOK /\ StatusInv /\ HitHasLiteral) => []OrderInv
  BY InitOrder, NextOrder, PTL
<1>5. Init /\ [][Next]_vars /\ [](TypeOK /\ StatusInv /\ HitHasLiteral) => []ReplayInv
  BY <1>2, NextReplay, PTL
<1>6. Init /\ [][Next]_vars /\ [](TypeOK /\ StatusInv /\ HitHasLiteral) /\ []OrderInv => []HitInv
  BY InitHit, NextHitInv, PTL
<1>7. Spec => []ScanInv
  BY <1>3, <1>4, <1>5, <1>6, SpecStatus, PTL DEF Spec, ScanInv
<1> QED BY <1>1, <1>7, InitChain, NextChain, PTL DEF Spec
=============================================================================
