---------------------------- MODULE ProgramFlow -----------------------------
(***************************************************************************)
(* How control reaches the cells of a database's programs, and the shapes  *)
(* in which a program guards a match by the state that outlives a run.     *)
(* Cells are numbered from 0, as in prog, child and fail.                  *)
(***************************************************************************)
EXTENDS Integers, Sequences

Halting == {"END", "FINAL_REPORT", "OTHER"}

CellsOf(d) == 0..Len(d.code)-1
CellAt(d, n) == d.code[n + 1]

\* Where programs start, and where an instruction jumps to.
StartsOf(d) == {d.lits[l].prog : l \in DOMAIN d.lits} \cup {d.delayed[i] : i \in DOMAIN d.delayed}

JumpsOf(d, n) ==
    LET i == CellAt(d, n) IN
    {n + i.fail : f \in DOMAIN i \cap {"fail"}} \cup {i.child : f \in DOMAIN i \cap {"child"}}

\* Where control may go from a cell, in a confirm or in a replay.
FlowsTo(d, n) == JumpsOf(d, n) \cup (IF CellAt(d, n).op \in Halting THEN {} ELSE {n + 1})

\* No run of a program comes back to a cell: the cells can be numbered so that
\* control only goes up, whichever way the jumps lead.
Ascends(d, number) == \A n \in CellsOf(d) : \A m \in FlowsTo(d, n) : number[n] < number[m]
Acyclic(d) == \E number \in [CellsOf(d) -> CellsOf(d)] : Ascends(d, number)

\* The cells n+1..m are reached only by passing cell n.
Guards(d, n, m) ==
    /\ n < m
    /\ (n+1..m) \cap StartsOf(d) = {}
    /\ \A c \in CellsOf(d) \ (n+1..m) : JumpsOf(d, c) \cap (n+1..m) = {}

Matching == {"REPORT", "FINAL_REPORT", "DEDUPE_AND_REPORT"}
\* The opcodes that set work_done and go on.
Working == {"REPORT", "DEDUPE_AND_REPORT", "TRIGGER_SUFFIX", "TRIGGER_INFIX", "SET_STATE"}
MatchCells(d, x) == {n \in CellsOf(d) : CellAt(d, n).op \in Matching /\ CellAt(d, n).id = x}
KeyCells(d, op, key) == {n \in CellsOf(d) : CellAt(d, n).op = op /\ CellAt(d, n).key = key}

-----------------------------------------------------------------------------
(***************************************************************************)
(* Matches x are switched on by matches y: they lie behind the check of a  *)
(* role state, or of groups that are off at first, which programs only     *)
(* switch on behind a match y.                                             *)
(***************************************************************************)
SwitchedByRole(d, x, y, key) ==
    /\ \A m \in MatchCells(d, x) : \E n \in KeyCells(d, "CHECK_STATE", key) : Guards(d, n, m)
    /\ \A s \in KeyCells(d, "SET_STATE", key) : \E r \in MatchCells(d, y) : Guards(d, r, s)

GroupCells(d, mask) == {n \in CellsOf(d) : CellAt(d, n).op = "CHECK_GROUPS" /\ CellAt(d, n).mask = mask}
SetCells(d, mask) ==
    {n \in CellsOf(d) : CellAt(d, n).op = "SET_GROUPS" /\ CellAt(d, n).mask \cap mask # {}}

SwitchedByGroups(d, x, y, mask) ==
    /\ mask \cap d.groups = {}
    /\ \A m \in MatchCells(d, x) : \E n \in GroupCells(d, mask) : Guards(d, n, m)
    /\ \A s \in SetCells(d, mask) : \E r \in MatchCells(d, y) : Guards(d, r, s)

SwitchedBy(d, x, y) ==
    \E c \in CellsOf(d) :
        \/ CellAt(d, c).op = "CHECK_STATE" /\ SwitchedByRole(d, x, y, CellAt(d, c).key)
        \/ CellAt(d, c).op = "CHECK_GROUPS" /\ SwitchedByGroups(d, x, y, CellAt(d, c).mask)

\* Each match x has a test-and-set of the same key of its own before it.
HandledGuard(d, x, key, n, m) ==
    /\ n \in KeyCells(d, "CHECK_NOT_HANDLED", key)
    /\ Guards(d, n, m)
    /\ (n+1..m-1) \cap MatchCells(d, x) = {}

HandledBy(d, x, key) ==
    \A m \in MatchCells(d, x) : \E n \in CellsOf(d) : HandledGuard(d, x, key, n, m)

Handled(d, x) ==
    \E c \in CellsOf(d) : CellAt(d, c).op = "CHECK_NOT_HANDLED" /\ HandledBy(d, x, CellAt(d, c).key)

-----------------------------------------------------------------------------
(***************************************************************************)
(* Matches x are exclusive by group g, which is on at first: a program     *)
(* starts with the check of g and, behind further checks that do no work,  *)
(* reports x and squashes g.  Nothing else changes g.                      *)
(***************************************************************************)
SquashesGroup(d, s, g) == CellAt(d, s).op = "SQUASH_GROUPS" /\ g \notin CellAt(d, s).mask

ExclusiveRole(d, x, g, n, m) ==
    /\ {n, m, m + 1} \subseteq CellsOf(d)
    /\ CellAt(d, n).op = "CHECK_GROUPS" /\ CellAt(d, n).mask = {g}
    /\ \A c \in CellsOf(d) : n \notin JumpsOf(d, c)
    /\ n = 0 \/ CellAt(d, n - 1).op \in Halting
    /\ Guards(d, n, m + 1)
    /\ \A c \in n+1..m-1 : CellAt(d, c).op \notin Working
    /\ CellAt(d, m).op = "REPORT" /\ CellAt(d, m).id = x
    /\ SquashesGroup(d, m + 1, g)

Exclusive(d, x, g) ==
    /\ g \in d.groups
    /\ SetCells(d, {g}) = {}
    /\ \A m \in MatchCells(d, x) : \E n \in CellsOf(d) : ExclusiveRole(d, x, g, n, m)
    /\ \A s \in CellsOf(d) : SquashesGroup(d, s, g) =>
          \E n \in CellsOf(d) : ExclusiveRole(d, x, g, n, s - 1)
-----------------------------------------------------------------------------
(***************************************************************************)
(* Included literals.  Match x lies in the program of the last literal of  *)
(* a chain; each program of the chain jumps to the next one, squashes the  *)
(* next literal's bucket, and is entered in no other way, except by what a *)
(* replay passes over.  Only the last one is reported by a flood.          *)
(***************************************************************************)
\* Cells p..e are reached from cell p only.
Segment(d, p, e) == p = e \/ Guards(d, p, e)

\* Cell p is reached by a start or by a jump in one of the cells from.
Entry(d, p, from) ==
    /\ p \in CellsOf(d)
    /\ p = 0 \/ CellAt(d, p - 1).op \in Halting
    /\ \A c \in CellsOf(d) : p \in JumpsOf(d, c) => c \in from

\* Cell c of the program of the delayed literal i, which only replays run.
ReplayCell(d, i, c) ==
    /\ Entry(d, d.delayed[i], {})
    /\ Segment(d, d.delayed[i], c)
    /\ \A l \in DOMAIN d.lits : d.lits[l].prog # d.delayed[i]

\* The included jumps at which only replays arrive: they fall through.
ReplayJumps(d) ==
    {c \in CellsOf(d) : CellAt(d, c).op = "INCLUDED_JUMP" /\ \E i \in DOMAIN d.delayed : ReplayCell(d, i, c)}

\* The program of literal k, which from the cells from may jump to.
OwnProgram(d, k, from) ==
    /\ Entry(d, d.lits[k].prog, from \cup ReplayJumps(d))
    /\ \A l \in DOMAIN d.lits \ {k} : d.lits[l].prog # d.lits[k].prog
    /\ \A i \in DOMAIN d.delayed : d.delayed[i] # d.lits[k].prog

Includes(d, k, l, c) ==
    /\ c \in CellsOf(d) /\ CellAt(d, c).op = "INCLUDED_JUMP"
    /\ CellAt(d, c).child = d.lits[l].prog /\ d.lits[l].bucket \in CellAt(d, c).squash
    /\ Segment(d, d.lits[k].prog, c)

Follower(chain, k, l) == k < l /\ \A j \in chain : ~(k < j /\ j < l)

IncludedChain(d, x, chain) ==
    /\ \A k, l \in chain : k < l => d.lits[k].bucket # d.lits[l].bucket /\ ~d.lits[k].flood
    /\ \A l \in chain :
          \/ (\A k \in chain : l <= k) /\ OwnProgram(d, l, {})
          \/ \E k \in chain, c \in CellsOf(d) :
                Follower(chain, k, l) /\ Includes(d, k, l, c) /\ OwnProgram(d, l, {c})
    /\ \E l \in chain :
          /\ \A k \in chain : k <= l
          /\ \E m \in CellsOf(d) : MatchCells(d, x) = {m} /\ Segment(d, d.lits[l].prog, m)

Included(d, x) == \E chain \in SUBSET (DOMAIN d.lits) : IncludedChain(d, x, chain)
=============================================================================
