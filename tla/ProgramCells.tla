---------------------------- MODULE ProgramCells ----------------------------
(***************************************************************************)
(* The cells of literal programs and the databases made of them, as the    *)
(* model-checking modules write them.  A program is a sequence of cells;   *)
(* cell numbers in prog, child and fail count from 0.                      *)
(***************************************************************************)
Plain(op)          == [op |-> op]
Mask(op, mask)     == [op |-> op, mask |-> mask]
Keyed(op, key, f)  == [op |-> op, key |-> key, fail |-> f]
Rep(id, adj)       == [op |-> "REPORT", id |-> id, adj |-> adj]
Final(id)          == [op |-> "FINAL_REPORT", id |-> id, adj |-> 0]
Dedup(k, id, a, f) == [op |-> "DEDUPE_AND_REPORT", dkey |-> k, id |-> id, adj |-> a, fail |-> f]
Incl(squash, c)    == [op |-> "INCLUDED_JUMP", squash |-> squash, child |-> c]
Push(d, i)         == [op |-> "PUSH_DELAYED", delay |-> d, index |-> i]
Window(op, pass, f) == [op |-> op, pass |-> pass, fail |-> f]
MedLit(lit, p, f)  == [op |-> "CHECK_MED_LIT", lit |-> lit, pass |-> p, fail |-> f]
Reach(reach, p, f) == [op |-> "CHECK_SINGLE_LOOKAROUND", reach |-> reach, pass |-> p, fail |-> f]
Look(look, reach, short, p, f) ==
    [op |-> "CHECK_LOOKAROUND", look |-> look, reach |-> reach, short |-> short, pass |-> p, fail |-> f]
Bounds(lo, hi, f)  == [op |-> "CHECK_BOUNDS", min |-> lo, max |-> hi, fail |-> f]
Early(min, f)      == [op |-> "CHECK_LIT_EARLY", min |-> min, fail |-> f]
Leftfix(op, queue, lag, f) == [op |-> op, queue |-> queue, lag |-> lag, fail |-> f]
Suffix             == [op |-> "TRIGGER_SUFFIX", queue |-> 1, event |-> 0]
Infix(q, cancel)   == [op |-> "TRIGGER_INFIX", queue |-> q, cancel |-> cancel]
SetRole(key)       == [op |-> "SET_STATE", key |-> key]
Stop               == Plain("END")

Lit(prog, bucket)  == [prog |-> prog, bucket |-> bucket, flood |-> FALSE]
RunLit(prog, bucket) == [prog |-> prog, bucket |-> bucket, flood |-> TRUE]

Compiled(code, lits, delayed) ==
    [code |-> code, lits |-> lits, delayed |-> delayed, groups |-> {1}, queues |-> {1}]
=============================================================================
