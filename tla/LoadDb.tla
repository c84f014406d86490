------------------------------- MODULE LoadDb -------------------------------
(***************************************************************************)
(* Database::load: from the bytes of a file to the tables of an engine.    *)
(* Each stage reads fields of the slice that the stage before it cut:      *)
(* SerializedDb::parse (russcan-bytecode, lib.rs), RoseEngine::parse and   *)
(* floating_matcher_table (rose.rs), the choice of the engine, and the     *)
(* parse of FDR or Teddy (russcan-hwlm).  A read behind a slice panics,    *)
(* where the code indexes or unwraps, and is an error where it asks.       *)
(*                                                                         *)
(* Behind the load, the reads of the loaded tables that the scan does      *)
(* without a check.                                                        *)
(***************************************************************************)
EXTENDS Integers

BYTECODE_OFFSET == 32
DB_STRUCT_SIZE == 104
TOTAL_NUM_LITERALS == 388
OUTFIX_END_QUEUE == 400
HWLM_DATA_OFFSET == 256
FT_OFFSET == 64
FDR_FIELDS == 48              \* start_state, the last field, is at 32..48
FLOOD_AREA == 256 * 4 + 208   \* the index and one FDRFlood
MASK_BASE_OFF == 64
NUM_CONF_BUCKETS == 8

(***************************************************************************)
(* A file: its length in bytes and the fields that the stages read, where  *)
(* there are so many bytes.  magic, version, crc: whether they are the     *)
(* right ones; block, machinery: the mode and whether one of the guarded   *)
(* fields is not 0; confirm: the verdict of validate_confirm               *)
(* (ConfirmTable).                                                         *)
(***************************************************************************)
CONSTANT Files

File == [len: Nat, length: Nat, magic: BOOLEAN, version: BOOLEAN, crc: BOOLEAN,
         block: BOOLEAN, runtime: Nat, machinery: BOOLEAN, fmatcher: Nat,
         engine: Nat, size: Nat, conf: Nat, flood: Nat, stride: Nat,
         domain: Nat, mask: Nat, confirm: BOOLEAN]

ASSUME FileAssumption == Files \subseteq File

VARIABLES
    file,      \* the file, chosen by LoadInit
    stage,     \* what the load does next, or "scan" behind it
    slice,     \* the bytes of the file that the stage sees: from ... to - 1
    result,    \* "pending", "loaded", "panic" or the error
    tableRead  \* history: a read of a scan table, relative to the slice

loadVars == <<file, stage, slice, result, tableRead>>

Here == slice.to - slice.from

LoadInit ==
    /\ file \in Files
    /\ stage = "header" /\ result = "pending"
    /\ slice = [from |-> 0, to |-> file.len]
    /\ tableRead = [from |-> 0, to |-> 0]

\* The end of a stage: on to the next one with a part of the slice, or out.
Proceed(verdict, next, from, to) ==
    /\ IF verdict = "ok"
       THEN /\ stage' = next
            /\ slice' = [from |-> slice.from + from, to |-> slice.from + to]
            /\ result' = IF next = "scan" THEN "loaded" ELSE "pending"
       ELSE /\ result' = verdict
            /\ UNCHANGED <<stage, slice>>
    /\ UNCHANGED <<file, tableRead>>

-----------------------------------------------------------------------------
HeaderVerdictShort ==                          \* mutant: a file may be cut off
    IF file.len < BYTECODE_OFFSET THEN "TooShort"
    ELSE IF ~file.magic THEN "BadMagic"
    ELSE IF ~file.version THEN "BadVersion"
    ELSE IF file.len < file.length THEN "LengthMismatch"
    ELSE IF ~file.crc THEN "CrcMismatch" ELSE "ok"
HeaderVerdict ==
    IF file.len < BYTECODE_OFFSET THEN "TooShort"
    ELSE IF ~file.magic THEN "BadMagic"
    ELSE IF ~file.version THEN "BadVersion"
    ELSE IF file.len # DB_STRUCT_SIZE + file.length THEN "LengthMismatch"
    ELSE IF ~file.crc THEN "CrcMismatch" ELSE "ok"

\* What is serialized behind the bytecode is not looked at.
ParseHeader ==
    /\ stage = "header" /\ result = "pending"
    /\ Proceed(HeaderVerdict, "rose", BYTECODE_OFFSET, BYTECODE_OFFSET + file.length)

RoseNeedsShort == TOTAL_NUM_LITERALS + 4       \* mutant: not the last field
RoseNeeds == OUTFIX_END_QUEUE + 4

RoseVerdict ==
    IF Here < RoseNeeds THEN "Truncated"
    ELSE IF Here < OUTFIX_END_QUEUE + 4 THEN "panic"
    ELSE IF ~file.block THEN "NotBlockMode"
    ELSE IF file.runtime \notin {0, 1} THEN "UnsupportedRuntime"
    ELSE IF file.machinery THEN "NeedsFullRose" ELSE "ok"

ParseRose ==
    /\ stage = "rose" /\ result = "pending"
    /\ Proceed(RoseVerdict, "matcher", 0, Here)

\* The engine behind the header is known by its first word; its type, which
\* the header has, too, is not looked at.
IsFdr(bytes) == bytes >= 4 /\ file.engine = 0

MatcherVerdict ==
    IF file.fmatcher = 0 THEN "NoFloatingMatcher"
    ELSE IF file.fmatcher >= Here \/ file.fmatcher + HWLM_DATA_OFFSET > Here
    THEN "OffsetOutOfRange" ELSE "ok"

FindMatcher ==
    /\ stage = "matcher" /\ result = "pending"
    /\ LET start == file.fmatcher + HWLM_DATA_OFFSET
       IN  Proceed(MatcherVerdict, IF IsFdr(Here - start) THEN "fdr" ELSE "teddy", start, Here)

-----------------------------------------------------------------------------
FtEnd == FT_OFFSET + (file.mask + 1) * 8

FtFitsOneShort == FtEnd - 8 <= file.conf       \* mutant: the mask is the number
FtFits == FtEnd <= file.conf

\* The table is cut to its size before the other fields are read from it.
FdrVerdict ==
    IF Here < FT_OFFSET \/ file.size > Here THEN "Truncated"
    ELSE IF file.size < FDR_FIELDS THEN "panic"
    ELSE IF \/ file.stride \notin {1, 2, 4}
            \/ file.domain \notin 9..15 \/ file.mask # 2^file.domain - 1
            \/ ~FtFits \/ file.conf + 4 * NUM_CONF_BUCKETS > file.flood
            \/ file.flood + FLOOD_AREA > file.size
            \/ ~file.confirm
    THEN "BadTable" ELSE "ok"

ParseFdr ==
    /\ stage = "fdr" /\ result = "pending"
    /\ Proceed(FdrVerdict, "scan", 0, file.size)

NumMasks == (file.engine - 11) \div 2 + 1
MaskEnd == MASK_BASE_OFF + 2 * NumMasks * 16

TeddyVerdictUnordered ==                       \* mutant: offsets among the masks
    IF Here < 4 THEN "Truncated"
    ELSE IF file.engine \notin 11..18 THEN "BadTable"
    ELSE IF Here < 8 \/ file.size > Here \/ file.size < 20 THEN "Truncated"
    ELSE IF \/ MaskEnd > file.size
            \/ file.conf + 4 * NUM_CONF_BUCKETS > file.size
            \/ ~file.confirm
    THEN "BadTable" ELSE "ok"
TeddyVerdict ==
    IF Here < 4 THEN "Truncated"
    ELSE IF file.engine \notin 11..18 THEN "BadTable"
    ELSE IF Here < 8 \/ file.size > Here \/ file.size < 20 THEN "Truncated"
    ELSE IF \/ MaskEnd > file.size
            \/ file.conf + 4 * NUM_CONF_BUCKETS > file.size
            \/ file.conf < MaskEnd
            \/ ~file.confirm
    THEN "BadTable" ELSE "ok"

ParseTeddy ==
    /\ stage = "teddy" /\ result = "pending"
    /\ Proceed(TeddyVerdict, "scan", 0, file.size)

-----------------------------------------------------------------------------
(***************************************************************************)
(* The reads of the scan tables, whatever the buffer; those of the confirm *)
(* region are in LoadedTable.  No read depends on the one before it, so    *)
(* one is enough.                                                          *)
(***************************************************************************)
ReadTable(from, width) ==
    /\ tableRead.to = 0
    /\ tableRead' = [from |-> from, to |-> from + width]
    /\ UNCHANGED <<file, stage, slice, result>>

\* The mask of the domain is laid over a word of the buffer.
ReadFt ==
    /\ stage = "scan" /\ file.engine = 0
    /\ \E reach \in 0..file.mask : ReadTable(FT_OFFSET + reach * 8, 8)

ReadMasks ==
    /\ stage = "scan" /\ file.engine # 0
    /\ \E m \in 0..2 * NumMasks - 1 : ReadTable(MASK_BASE_OFF + m * 16, 16)

Finished == result # "pending" /\ UNCHANGED loadVars

LoadNext ==
    \/ ParseHeader \/ ParseRose \/ FindMatcher \/ ParseFdr \/ ParseTeddy
    \/ ReadFt \/ ReadMasks
    \/ Finished

LoadSpec == LoadInit /\ [][LoadNext]_loadVars

-----------------------------------------------------------------------------
\* Every stage sees a part of the bytecode, never what is serialized behind
\* it, and never bytes that the file does not have (lib.rs:134).
SlicesNest ==
    stage # "header" =>
        /\ BYTECODE_OFFSET <= slice.from /\ slice.from <= slice.to
        /\ slice.to <= BYTECODE_OFFSET + file.length
        /\ slice.to <= file.len

\* The reads of the scan tables, which nothing checks (fdr.rs:433,
\* teddy.rs:176), lie inside the table and below its confirm region.
LoadedReadsInside ==
    slice.from + tableRead.to <= slice.to /\ (stage = "scan" => tableRead.to <= file.conf)

\* The guards in front of the header fields cover the fields (rose.rs:134);
\* the one place where they do not is the header of FDR.
OnlyFdrPanics == result = "panic" => stage = "fdr" /\ file.size < FDR_FIELDS

\* "A malformed DB must fail gracefully, never panic" (fuzz_load.rs:11).
LoadNeverPanics == result # "panic"
=============================================================================
