---------------------------- MODULE MCDelayScan -----------------------------
(***************************************************************************)
(* The databases on which TLC runs DelayScan.                              *)
(***************************************************************************)
EXTENDS DelayScan, ProgramCells

-----------------------------------------------------------------------------
(***************************************************************************)
(* Delayed literals: pushes at distance 0, 1 and 2, two indices in a slot, *)
(* replays that push again, themselves included.                           *)
(***************************************************************************)
DelayDbs ==
    { Compiled(<< Rep(1, 0), Push(1, 2), Push(1, 1), Push(far, 3), Stop,   \* 0: direct
                  Rep(2, 0), Push(0, 1), Push(1, 3), Stop,                 \* 5: delay 1
                  Rep(3, 0), Push(0, 1), Stop,                             \* 9: delay 2
                  Rep(4, 0), Push(chain, 2), Stop >>,                      \* 12: delay 3
               << RunLit(0, 0), RunLit(12, 1) >>, << 5, 9, 12 >>) :
      far \in {0, 2}, chain \in {0, 1} }

(***************************************************************************)
(* Deduplication: two literals and a delayed one share the key 1, and      *)
(* adjustments make matches at different ends report the same offset, at   *)
(* offset 0 and below it, too.                                             *)
(***************************************************************************)
DedupeDbs ==
    { Compiled(<< Dedup(1, 1, 0, 1), Push(1, 1), Stop,           \* 0
                  Dedup(1, 2, back, 1), Push(1, 2), Stop,        \* 3
                  Dedup(1, 3, -1, 2), Rep(4, 0), Stop,           \* 6: delay 1
                  Dedup(2, 5, 0, 1), Stop >>,                    \* 9: delay 2
               << Lit(0, 0), Lit(3, 1) >>, << 6, 9 >>) :
      back \in {-2, -1} }

(***************************************************************************)
(* Every program of MaxCells cells over these: cycles by a jump of 0, by   *)
(* an included literal and by a replay that pushes itself, runs off the    *)
(* end, and offsets that do not exist.                                     *)
(***************************************************************************)
CONSTANT MaxCells

Cells == { Stop, Push(0, 1), Push(1, 1), Push(1, 2), SetRole(1),
           Keyed("CHECK_STATE", 1, 0), Keyed("CHECK_STATE", 1, 2),
           Keyed("CHECK_NOT_HANDLED", 1, 0), Incl({}, 0), Incl({}, 2) }

AllPrograms ==
    [code: [1..MaxCells -> Cells], lits: {<< Lit(0, 0) >>}, delayed: {<< 1 >>}, groups: {{1}}, queues: {{}}]

(***************************************************************************)
(* Every way in which a scan fails, in a literal's program and in a        *)
(* replay, with reports and pending replays before and after the failure.  *)
(***************************************************************************)
Failures ==
    { << Plain("OTHER") >>, << MedLit(99, {}, 1) >>, << Incl({}, 99) >>,
      << Reach(99, {}, 1) >>, << Look(99, 0, FALSE, {}, 1) >>, << Look(0, 99, FALSE, {}, 1) >>,
      << Look(0, 0, TRUE, {}, 1) >>,
      << Leftfix("CHECK_PREFIX", 1, 1, 1) >>, << Leftfix("CHECK_PREFIX", 2, 1, 1) >>,
      << Infix(1, TRUE), Infix(2, FALSE), Leftfix("CHECK_INFIX", 1, 1, 1) >>,
      << Infix(2, FALSE), Leftfix("CHECK_INFIX", 2, 1, 1) >>,
      << Leftfix("CHECK_PREFIX", 1, 9, 99) >>, << Leftfix("CHECK_INFIX", 1, 9, 0) >>,
      << Push(1, 9), Stop >> }

FailingDbs ==
    { Compiled(<< Rep(1, 0), Push(1, 1), Push(1, 2), Push(2, 2), Stop,   \* 0
                  Rep(2, 0), Stop >> \o failure,                         \* 5, 7
               << Lit(0, 0), Lit(lit, 1) >>, << delay, 5 >>) :
      failure \in Failures, lit \in {7, 99}, delay \in {5, 7} }

ReplayDbs == DelayDbs \cup DedupeDbs \cup FailingDbs

-----------------------------------------------------------------------------
(***************************************************************************)
(* State that a literal's program leaves to the following ones: role       *)
(* states, handled keys and groups.                                        *)
(*   1 switches role 1 on, behind a window check;                          *)
(*   2 is guarded by the role state;                                       *)
(*   3 is a role handled once, by two literals;                            *)
(*   4 is exclusive: its group 1 is squashed once it was reported, where   *)
(*     the check of its window comes after the groups check;               *)
(*   5 is behind group 2, which 1 switches on.                             *)
(***************************************************************************)
RoleDbs ==
    { Compiled(<< Window("CHECK_BYTE", {1, 3}, 4), Rep(21, 0), SetRole(1), Mask("SET_GROUPS", {2}), Stop,
                  Keyed("CHECK_STATE", 1, 2), Rep(22, 0),                       \* 5
                  Keyed("CHECK_NOT_HANDLED", 1, 2), Final(23), Stop,            \* 7
                  Mask("CHECK_GROUPS", {1}), checked,                          \* 10
                  Rep(24, 0), Mask("SQUASH_GROUPS", {2}), Plain("CATCH_UP"),    \* 12
                  Mask("CHECK_GROUPS", {2}), Rep(25, 0), Stop >>,              \* 15
               << Lit(0, 0), Lit(5, 1), Lit(7, 2), Lit(10, 3) >>, << >>) :
      checked \in { Window("CHECK_MASK", {2, 3}, 2), Window("CHECK_MASK_32", {2, 3}, 2),
                  Reach(18, {2, 3}, 2), Look(0, 18, FALSE, {2, 3}, 2), MedLit(0, {2, 3}, 2),
                  Bounds(2, 3, 2), Early(2, 2) } }

-----------------------------------------------------------------------------
(***************************************************************************)
(* Included literals: the program of the longer literal 11 jumps to that   *)
(* of its suffix 12, which jumps to 13; the replay of 11 only reports.     *)
(* The second layout has them the other way round: all jumps lead back.    *)
(***************************************************************************)
IncludedDbs ==
    { Compiled(<< Rep(11, 0), Push(1, 1), Incl({2}, 4), Stop,    \* 0
                  Rep(12, 0), Incl({3}, 7), Stop,                \* 4
                  Rep(13, 0), Suffix, Stop,                      \* 7
                  Rep(14, 0), Incl({3}, 7), Stop >>,             \* 10: delay 1
               << Lit(0, 1), Lit(4, 2), RunLit(7, 3) >>, << 10 >>),
      Compiled(<< Rep(13, 0), Suffix, Stop,                      \* 0
                  Rep(14, 0), Incl({3}, 0), Stop,                \* 3: delay 1
                  Rep(12, 0), Incl({3}, 0), Stop,                \* 6
                  Rep(11, 0), Push(1, 1), Incl({2}, 6), Stop >>, \* 9
               << Lit(9, 1), Lit(6, 2), RunLit(0, 3) >>, << 3 >>) }

ScanDbs == ReplayDbs \cup RoleDbs \cup IncludedDbs \cup AllPrograms
=============================================================================
