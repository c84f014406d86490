----------------------------- MODULE LoadedTable -----------------------------
(***************************************************************************)
(* A file and the confirm region of its engine table together: LoadDb      *)
(* takes the verdict of validate_confirm from the table of ConfirmTable,   *)
(* and the walks of ConfirmTable start behind the load, on a table that    *)
(* nothing but the load has accepted.                                      *)
(***************************************************************************)
EXTENDS ConfirmTable, LoadDb

ASSUME LayoutAssumption == BUCKETS = NUM_CONF_BUCKETS /\ INDEX = 4

loadedVars == <<vars, loadVars>>

\* The bytes of the bytecode behind the header of the floating matcher.
TableBytes == file.length - (file.fmatcher + HWLM_DATA_OFFSET)

\* The first byte behind the scan tables, and the end that parse leaves to the
\* offsets of the buckets.
ScanEnd   == IF file.engine = 0 THEN FtEnd ELSE MaskEnd
OffsetEnd == IF file.engine = 0 THEN file.flood ELSE file.size

\* The fields of the file are those of the table, and the verdict on its
\* confirm region, where parse comes to ask for it, is that of validate_confirm.
Describes ==
    /\ table.len = IF TableBytes < 0 THEN 0 ELSE TableBytes
    /\ table.size = file.size /\ table.conf = file.conf
    /\ file.engine \in {0} \cup 11..18 => table.low = ScanEnd /\ table.high = OffsetEnd
    /\ file.conf + INDEX * BUCKETS <= file.size =>
          (file.confirm <=> \A idx \in 0..BUCKETS-1 : BucketFits(table, idx))

\* Of the two histories, only the last read of all is kept.
NoRead == [from |-> 0, to |-> 0]

LoadedInit ==
    /\ table \in Tables /\ LoadInit /\ Describes
    /\ at = "idle" /\ pos = 0 /\ entry = 0
    /\ read = NoRead

\* The stages of the load, and behind them the reads of the scan tables, which
\* no confirm is interrupted for.
Load ==
    /\ at = "idle" /\ LoadNext
    /\ read' = NoRead /\ UNCHANGED <<table, at, pos, entry>>
Walk ==
    /\ stage = "scan" /\ Next
    /\ tableRead' = NoRead /\ UNCHANGED <<file, stage, slice, result>>

LoadedSpec == LoadedInit /\ [][Load \/ Walk]_loadedVars

-----------------------------------------------------------------------------
\* What the walks of a confirm rely on is what the stages of the load checked,
\* for FDR and Teddy alike.
LoadAccepts == stage = "scan" => Accepted(table)

\* The reads of a confirm (fdr.rs:672), which nothing checks, lie in the
\* bytecode of the file and behind the scan tables of its engine.
WalkInBytecode ==
    read.to > 0 =>
        /\ result = "loaded" /\ ScanEnd <= read.from
        /\ slice.from + read.to <= BYTECODE_OFFSET + file.length
        /\ slice.from + read.to <= file.len

\* Every read that nothing checks, of the scan tables and of the confirm region
\* behind them.
UncheckedReadsInside == LoadedReadsInside /\ WalkInBytecode
=============================================================================
