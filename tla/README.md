# russcan-lite in TLA+

russcan-lite loads a database of literals that the C++ compiler of Vectorscan
made, scans one buffer, and calls the caller back for every match. The modules
here model the scan: the literal engines that find candidates, the confirm step
that checks them, the interpreter that runs a literal's program, and the replay
of delayed literals. TLC checks the models on small instances, TLAPS proves the
central properties for every value of the constants.

## 1. The system

| Component | Source | State | Operations |
|---|---|---|---|
| Scan and replay | `russcan/src/lib.rs` | `groups`, `dedupe`, `slots`, `delay_last_end`, `err` | `load`, `scan_block`, `on_hit`, `flush`, `run_prog` |
| Literal programs | `russcan-rose/src/literal.rs` | `Dedupe`: seen, handled, roles, suffixes, infixes; per run `pc`, `steps`, `work_done`, squash | `run_program` (its opcodes), the window checks |
| FDR | `russcan-hwlm/src/fdr.rs` | zones, `state`, `cbuf`, `control`, `last_match`, `try_flood`, `flood_backoff` | `exec_squash`, `run_simd`, `flush_candidates`, `do_confirm`, `conf_with_bit`, `flood_detect` |
| Teddy | `russcan-hwlm/src/teddy.rs` | `cbuf`, `control`, `last_match` | `exec_squash`, `flush_candidates`, `confirm_chunk` |
| Engine tables | `fdr.rs`, `teddy.rs` (`parse`, `validate_confirm`) | none: slices of the database | parsing, validation at load time |
| Noodle | `russcan-hwlm/src/noodle.rs` | none | `parse`, `scan_single`, `scan_double`, `confirm_and_report` |
| Rose header | `russcan-bytecode/src/rose.rs` | none | `parse`, accessors |
| Serialized database | `russcan-bytecode/src/lib.rs`, `crc32c.rs` | none | `parse` |
| NFA stub | `russcan-nfa/src/lib.rs` | none | refuses everything |
| SIMD | `russcan-simd/src/{lib,scalar,x86,aarch64}.rs` | none | lane operations, lane masks |
| Acceleration | `russcan-simd/src/accel` | the carried vector of a pair search | searches for bytes and pairs, each with a scalar reference |
| Tools | `src/bin`, `fuzz/` | none | drivers |

**How they interact.** `scan_block` hands one of the engines a closure. The
engine walks the buffer in blocks of 16 bytes, queues the blocks that may hold
matches, and confirms them later: the chain of literals of a bucket is walked,
every literal that matches is passed to `on_hit`. `on_hit` first plays the
delayed literals that are due (`flush`), then runs the literal's program. A
program reports matches to the caller's callback, pushes delayed literals, sets
roles and groups, and may return a *squash*: buckets whose candidates at this
byte the engine must drop, because the program has already jumped through the
included literals. Both directions answer `Continue` or `Terminate`.

**What is hard.** There is one thread, and nothing is persisted, so neither
interleavings of threads nor crashes exist. What is hard is order and state
across calls: three layers call each other back, each with its own way to stop;
candidates are confirmed later than they are found; a program changes what
later programs do; replays create replays; the buffer is cut into zones and
windows with a case for each border; tables from a file are checked once and
then read without checks. `PROJECT.json` lists these hazards at their lines.

**What makes each component correct.**

- Replay: no replay is lost, repeated or late; matches come in order; an error
  or `Terminate` ends the scan the way the code says.
- Programs: a deduplicated match once; roles and groups guard what they should;
  every program ends; only broken ones fail.
- Engines: they find exactly what a naive search finds, in the order of the
  buffer, each literal once per end, nothing that was squashed, nothing after
  `Terminate`; no read outside the zone, no queue overflow.
- Tables: after validation, no read of a confirm leaves the table and every
  walk ends.
- Loading: every stage stays inside the slice it was given; what the scan reads
  without a check lies inside the tables of a file that loads.
- Window checks, noodle and the acceleration kernels: the same verdict as byte
  by byte.

## 2. Modules

| Module | Models | Depends on |
|---|---|---|
| `LitProgram` | `run_program`, one action per opcode, over `vm` (the run), `dedupe`, `groups` and the history `out` of the callback | – |
| `ProgramFlow` | how control reaches the cells of a database's programs, and the shapes in which programs guard a match: what the properties about roles, groups and included literals assume of a database | – |
| `DelayScan` | `scan_block`, `on_hit`, `flush`, `run_prog` around a run of `LitProgram`, and an assumed engine (`OnHit`, `EngineDone`) | `LitProgram`, `ProgramFlow` |
| `ReplayQueue` | abstract: a queue of replays, one job at a time | – |
| `HitStream` | abstract: what an engine promises its caller | – |
| `Confirm` | the confirm step shared by FDR and Teddy | – |
| `FdrScan` | `exec_squash` of FDR: zones, blocks, floods | `Confirm` |
| `TeddyScan` | `exec_squash` of Teddy | `Confirm` |
| `ConfirmTable` | validation of the confirm area, and the reads of a confirm | – |
| `WindowChecks` | the checks of programs that look at bytes around the match, with the operators of words bit by bit | – |
| `NoodleScan` | noodle | – |
| `LoadDb` | `Database::load`: header, Rose engine, choice of the engine, tables of FDR and Teddy; the unchecked reads behind it | – |
| `LoadedTable` | a file and the confirm region of its table together: the load, and behind it the walks of a confirm on a table that nothing but the load has accepted | `LoadDb`, `ConfirmTable` |
| `LaneVectors` | the vectors and lane masks the kernels use | – |
| `AccelScan` | the acceleration kernels, with `reference.rs` as their definition | `LaneVectors` |
| `BlockScan` | `scan_block` with its real engine: FDR calls `on_hit`, `DelayScan` answers | `FdrScan`, `DelayScan` |
| `EngineTables`, `ProgramCells`, `MC*` | tables, programs and databases, buffers for TLC | – |
| `ConfirmProofs` | lemmas: what a confirm keeps, for both engines | `Confirm`, TLAPS |
| `DelayScanProofs`, `TableProofs`, `WindowChecksProofs`, `FdrScanProofs`, `TeddyScanProofs`, `NoodleScanProofs`, `AccelScanProofs` | theorems | TLAPS |

**Composition.** `DelayScan` extends `LitProgram` and runs its actions under its
own control points. The border between engine and scan is `HitStream`: the
engine that `DelayScan` assumes implements it (`EngineSpec`), and `FdrScan` and
`TeddyScan` implement it (`StreamSpec`). Neither side needs the state of the
other to be checked. `BlockScan` puts them together all the same: it instantiates
`DelayScan` beside `FdrScan`, a call of `on_hit` and its answer are one step of
both, and the whole is proved to be a scan of `DelayScan` (`ImplementsDelayScan`,
section 5), so that whatever is proved of `DelayScan` with its assumed engine holds
with the real one. There the squash that an included jump returns reaches the
candidates of the real engine, and a flood reports with replays pending.
`LoadedTable` puts the load and the walks of a confirm together: the verdict of
`validate_confirm` is computed from the memory of the table.

**Correspondence.** State variables carry the names of the fields (`groups`,
`dedupe`, `slots`, `delay_last_end` is `dle`, `cands` is `cbuf[..n]`,
`lastMatch`, `tryFlood`, `backoff`). `at` names the place in the code that is
executed next. `out` and `hits` are histories: no guard depends on them. Every
definition that stands for code is in `map` of `PROJECT.json` with its lines.

**Abstractions.**

- A program is a sequence of cells; jumps count cells instead of bytes. In
  `LitProgram` a check of the bytes around the match is the set of end offsets
  where it passes; `WindowChecks` computes these checks from the bytes. That a
  mask or list lies behind the bytecode (a Rose error) or runs past its end
  (`ProgramOverrun`) is part of the cell.
- `slots` is a set of pairs ⟨offset, index⟩. The B-tree of the code iterates it
  in order; `OpenSlot` and `ReplayNext` take the least.
- In FDR and Teddy the shift-or search over hashed characters is abstracted to
  bytes and pairs of bytes. Its false candidates come with the literals that share a
  bucket and are settled by the confirm step, as in the code. The hash in
  front of a chain is left out, since it only passes over literals that cannot
  match.
- In `ConfirmTable` the table is an array of cells; widths (`HEADER`, `INDEX`,
  `LIT_INFO`) are constants.
- Offsets reported below zero wrap modulo `U64`, as in the code.
- `LoadDb` keeps of a file its length and the fields that the stages read; the
  checksum, the magic and the verdict of `validate_confirm` are Booleans. A read
  behind a slice is a panic where the code indexes or unwraps and an error where
  it asks. Of the reads of the scan tables a behaviour makes one, at any place
  that a scan may read. `LoadedTable` takes the verdict from the table instead
  and adds the reads of a confirm.
- In `AccelScan` a byte is two nibbles of `NIB` values, a vector has `LANES`
  lanes, a mask `STRIDE` bits for a lane. The mask tables are constants: what a
  class is is defined by the scalar reference on the same tables.
- The hit engine of `DelayScan` calls back in the order of ends. At one end a
  confirm reports in the order of `db.lits` (bucket by bucket, chain by chain)
  and skips what was squashed; a flood reports the literals it may, `flood` in
  `db.lits`, in any order, each once, and drops the squash of an answer
  (`fdr.rs:852`). An end is the confirm's or the flood's, not both's.

## 3. Runs

All runs use breadth-first search without symmetry. Deadlock checking is on;
`Finished` is the step of a scan that is over.

| Run | Module | Question | Bounds, and why they are enough |
|---|---|---|---|
| `scan` | `MCDelayScan` | order, place and fate of replays; deduplication; nothing after an error; state handed from program to program; jump and squash together; every scan ends, only broken programs fail; `DelayScan` implements `ReplayQueue`, its assumed engine `HitStream` | buffer of 3, distances 0 to 2, chains and self-pushes: replays before, at and behind the end, two indices in a slot; adjustments that let different ends meet and go below zero (`U64 = 16`); every `InterpError` with replays pending; programs with jumps back that end; five roles with each kind of guard; three nested literals; all programs of four cells over ten instructions |
| `zones` | `MCFdrScan` | FDR finds what a naive search finds | the real widths 8 and 16; lengths on both sides of every border of `prepare_zones`; one pair at every place, two at all distances that matter; a callback that squashes or stops; runs of one byte around the length of a flood (256); `CAP = 2` so that the queue fills |
| `teddy` | `MCTeddyScan` | the same for Teddy | the real widths; no tail, tails of 1, 2 and 15 bytes, buffers shorter than a block |
| `confirm` | `MCConfirmTable` | reads stay inside, walks end | every accepted table of seven and eight words over four values, where one word may be header, index and literal at once |
| `windows` | `MCWindowChecks` | checks equal their bytewise definition | every place around both ends of short buffers, for every kind of check, the single lookaround among them; every pair of masks at reduced width |
| `outside` | `MCWindowChecks` | violated: does a check pass when its place lies outside the buffer? | finding 3 |
| `noodle` | `MCNoodleScan` | noodle finds what a naive search finds | all buffers up to 5 bytes, letters and bytes that only look like them; the keys at every place of seven literals |
| `load` | `MCLoadedTable` | a stage sees a part of the one before; unchecked reads of the scan tables and of a confirm lie inside; where a load panics | the real offsets; every length and field one below, at and above each border it is compared with, in every combination within a stage; FDR and Teddy tables with one bucket in use, with and without an index, that end at and around its header, index, first and second literal |
| `accel` | `MCAccelScan` | a kernel answers what its reference answers | vectors of four lanes, words of two, all four alignments, buffers up to ten bytes: a head, up to two aligned vectors and a tail of every length; masks of one and four bits for a lane |
| `compose` | `MCBlockScan` | every occurrence is reported once, end to end; the flood path reports what the skipped blocks would have; the distance of failing probes stays bounded; the whole is a `DelayScan` | FDR with blocks of 4, words of 2 and floods of 16; literals that include another across buckets, push delayed ones and share a dedupe key; floods of two, not in the order of their buckets; replays that fail; runs that begin and end at every place in a block, two runs, too many ids; buffers without runs, long enough for four doublings |
| `terminate` | `MCDelayScan` | violated: is the callback left alone after `Terminate`? | finding 1 |
| `panic` | `MCLoadDb` | violated: does a malformed file never panic the load? | finding 2 |

The properties:

- `SlotsAhead`, `MatchesInOrder`, `QueueSpec`: replays are ahead of
  `delay_last_end`; matches come by end offset, delayed ones first and by
  index; the whole is a queue that starts each replay once.
- `TerminateWindsDown`: what the code really does after `Terminate`: no more
  direct hits, nothing more at this offset, at most one more round of replays,
  which a second `Terminate` ends.
- `ErrStopsMatches`, `DedupedOnce`, `ValidNeverErrs`, `ScanEnds`: nothing is
  reported after an error; no deduplicated match twice; a scan that fails has a
  database that is not valid; every scan ends. A database is `Valid` when the
  offsets in its programs exist (jumps, programs, masks and lists), their
  instructions are known and ask for no engine, and no program comes back to an
  instruction (`Acyclic`). Jumps and included literals may lead in any direction, as
  the code takes any offset inside the bytecode (`literal.rs:568-570`). The
  instruction budget, one step for every byte of the bytecode and `MIN_ALIGN` more
  (`literal.rs:242-246`), must then be for programs with cycles only. The model
  counts cells instead of bytes, so its budget is the smaller one.
- `FollowsSwitch`, `HandledOnce`, `ExclusiveOnce`, `IncludedOnce`: what programs
  promise each other by the state they leave. Each holds for every database that
  has the shape it speaks of, whatever its other programs do; the shapes are
  defined in `ProgramFlow` by the ways in which control reaches a cell. A match
  may lie behind the check of a role or of groups that are set only behind
  another match (`SwitchedBy`), behind a test-and-set of its own (`Handled`), behind a
  group that its own program squashes (`Exclusive`), or at the end of a chain of
  literals whose programs jump to the next and squash its bucket
  (`IncludedChain`). `ExclusiveOnce` leaves one way to a second match: the
  callback answered the first with `Terminate`, so that the squash behind it was not
  reached, and a replay of the final flush gets there. `IncludedOnce` is about one
  end: at another end the chain is reported again.
- `Found`: at the end, all confirmed occurrences were hit and nothing else
  (`OnlyOccurrences`, `FoundAll`), up to NOREPEAT and squash. `WindowShowsBuffer`,
  `BlockInZone`, `QueueFits`: the reasons it holds in FDR.
- `ReadsInside`, `WalkEnds`: the contract between validation and reads.
- `MaskBytewise`, `BordersAgree`, `LookaroundAllEntries`, `LooksInside`,
  `FoundInOrder`: word and window arithmetic against bytes. At the borders of the
  buffer they state what the code does: what would lie in front of the buffer
  fails the check, what would lie behind it is not looked at. Most comments say
  otherwise of the front (finding 3); `OutsidePasses` is what they say.
- `BackoffBounded`: `flood_backoff` doubles at every failed probe and never
  falls, but the distance it puts before the next probe keeps it within four
  times the length of the buffer. Its 32 bits overflow only for buffers of
  1 GiB and more.
- `SlicesNest`, `UncheckedReadsInside`, `OnlyFdrPanics`: the chain of slices of a
  load, from the file to the tables, and the reads of a scan behind it: of the
  scan tables, and behind them of a confirm.
- `SameAsReference`, `LoadsInside`, `LeftBehind`: a kernel against its scalar
  reference; the last one says why the tail may be read twice.
- `EveryMatchOnce`: of the whole scan; what was not reported ended after the
  callback had said `Terminate`, or the scan failed.

Each has a mutant in `PROJECT.json` that breaks it: the operators marked
`\* mutant` in the modules.

**Fairness.** Only `scan` and `confirm` check liveness. `FairSpec` of
`DelayScan` has weak fairness of `Next`: one thread runs the scan, does not
wait for anything, and the callback returns. `FairSpec` of `ConfirmTable` has
weak fairness of the steps inside a confirm but not of its beginning: a started
confirm runs on, the next one may never come.

## 4. Findings

1. `scan_block` says that `Terminate` stops the scan (`lib.rs:91`,
   `README.md:112`). Its final flush is guarded by `err` only (`lib.rs:118`), so
   pending replays are still played and reported. Run `terminate`;
   `TerminateWindsDown` states what holds instead.
2. `fuzz_load.rs:11` says of `Database::load` that a malformed database must
   fail with a clean error and never panic. `FdrTable::parse` cuts the table to
   the size that its header gives (`fdr.rs:153`) before it reads the other header
   fields by index and `unwrap` (`fdr.rs:154-159`). A size below the header's 48
   bytes passes the check before it. Run `panic`; `OnlyFdrPanics` states that no
   other stage panics.

3. The comments on the window checks say that a place outside the buffer passes,
   before its start as behind its end: `literal.rs:776` (`check_single_lookaround`),
   676 (`check_byte`), 817 (`check_lookaround`), 983-984 (`check_mask32`). The code
   fails a check whose place lies before the start (`literal.rs:779-781`, 666,
   810-812, 993-995), and the branches at 676 and 817 cannot be reached behind these
   returns. The comment at 737 (`check_shufti_16x8`) says what all of them do. Run
   `outside`; `BordersAgree` and `LookaroundAllEntries` state what holds instead.

Two remarks without a run:

- `literal.rs:586-588` says that the caller plays the suffix triggers the
  interpreter collects; the only caller drops them. Headers that count queues are
  refused at load time (`rose.rs:154`), so only a program that contradicts its
  header gets there.
- `rose.rs:307-308` says that the dispatcher chooses the engine by the type in
  the HWLM header. `Database::load` (`lib.rs:77-85`) asks the first word behind
  it alone, so a noodle table is refused, or read as FDR, by what its first word
  is. `load` shows that the reads stay inside even so.

## 5. Proofs

`DelayScanProofs` assumes what `LitAssumption` says of the constants:
databases are well-typed (not: valid), buffers are not empty, answers are
`Continue` or `Terminate`, `U64` is positive. For all such constants it proves:

| Theorem | Argument |
|---|---|
| `TypeCorrect` | `TypeOK` alone is inductive, one lemma per family of opcodes |
| `ReplaysAhead` | `OrderInv`: besides `SlotsAhead`, the offset of the slot being played is not behind `dle`, and a direct run ends where its flush ended. Without it a push after a run could not be placed relative to `dle` |
| `InOrder` | `OrderInv` again: the last match is not later than the run in progress, which is not later than any pending replay, and what is left of a slot has greater indices than the one that runs |
| `NoDuplicates` | `DedupeInv`: everything reported with a key is in `dedupe.seen` |
| `ImplementsQueue` | every action is a step of `ReplayQueue` or a stutter under the mapping in `DelayScan`; `OrderInv` and `StatusInv` give the guards |
| `ErrorStopsMatches` | `StatusInv`: once `err` is set, no program runs |
| `WindsDown` | `WindInv`: after a `Terminate` the engine is stopped and what runs is a replay behind the end it was answered at, or the run that got it is about to return; while nothing stops there was at most one |
| `ValidScans` | `ErrInv`: the cells of an acyclic database are numbered so that control goes up, wherever its jumps lead; a run has taken no more steps than the number of its cell, so that the budget is never the reason it ends; the offsets it reads and the delayed literals it pushes exist |
| `SwitchedFollow` | `PastInv`: a run behind the cell of a match has made it. `SwitchInv`: while a switch is on, or a run is behind the check of it, the match that sets it was made |
| `HandledMatchOnce` | `HandledInv`: once the match is made its key is handled, and a run between the test-and-set and the match has handled the key and has not matched yet |
| `ExclusiveMatchOnce` | `ExclusiveInv`: a run behind the check of the group has done no work before the match; the squash does something only behind the match, and after an answer `Continue` it is the next cell |
| `IncludedMatchOnce` | `ChainInv`, see below |
| `ImplementsStream` | every action is a step of `HitStream` or a stutter; `SquashInv`: what is squashed was squashed by the answer to a hit |

Each invariant is proved with one step per action of `Next`; the opcodes of the
interpreter are handled by lemmas, for all but a few leave the parts an
invariant speaks of alone.

**Flow of control.** Databases are arbitrary, so nothing is known of a program but
its cells. `InterpretFlow` says where a step leads, to the next cell or to one of
`JumpsOf`, and `Entered` concludes that cells which only their guard leads to
(`Guards`) are entered by passing it. `MatchStep` and `MatchPassed` say that
passing a matching cell without a jump makes the match, `StateStep` and
`StatePassed` the same of roles, keys and groups.

**Included literals.** `IncludedOnce` needs the interpreter, the replays and the
engine at once: it holds because what a jump squashes is what the engine skips. `ChainInv`
says of a run inside a program of the chain (`OnWay`) that it is the run of a hit,
started by this literal or one before it, that the buckets of those in between are
squashed, and that the match was not made at this end. It says of the engine that once
the match is made it reports no literal of the chain at this end any more
(`Shut`): each was reported before, or its bucket is squashed and is not the one
that is walked, or a flood has begun, which reports the last one only, and once.
`ChainWay` is the step that matters: a run gets into the next program by the jump
that squashes its bucket, or out of a replay, where the jump falls through
(`ReplayInv`). `HitInv` says what the engine holds for used.

`TableProofs` has the load and the walk of a confirm. `ReadsStayInside` holds for
every table of every size and layout that satisfies the module's assumption.
`WalkInv` says where a walk is: in a header that `BucketFits` has checked, at an
entry of its index, or at a literal of a chain that `ChainFits` has followed.
`FirstFits`, `RestFits` and `EntryFits` take the checks of the validation to the
place of the reads. `LoadInv` says of each stage of a load what those before it
leave behind: the slice of a loaded table has the size of its header, and the scan
tables end before the confirm region. `LoadedAccepted` joins the two: what the
parses of FDR and Teddy check is what the walk assumes of its table
(`LoadIsEnough`), so that no read behind a load leaves the bytecode
(`ReadsBehindLoad`).

`WindowChecksProofs` goes from bits to bytes. A word is a sum of powers of two
(`NumberSums`), its bytes and bits are digits of that sum (`NumberDigit`,
`NumberOfDigits`, `SameBits`), and numbers whose digits do not overflow are added
digit by digit (`NumberAdds`). So the addition that looks for zero bytes carries
nothing into a neighbour (`ZeroBytesSays`), and `ValidateMaskSays` concludes for the
bytes of a window that are valid. The recursion of a power and of a sum is not given
to the prover; `Recursion` and `RecursionOnce` prove that such a function exists
and is the only one, from the least element of a set (`LeastExists`).

The other proof modules each have one invariant, one step per action:

| Theorem | Assumes | Argument |
|---|---|---|
| `TableProofs`: `LoadIsEnough`, `ReadsBehindLoad` | files have natural fields; tables as in `ConfirmTable`, with the number of buckets and the width of an offset that the code has (`LayoutAssumption`) | `LoadedInv`: `LoadInv`, with the table that `Describes` the file, and `WalkInv` behind the load |
| `TableProofs`: `StagesNest`, `PanicOnlyInFdr` | files have natural fields | `LoadInv`; both with and without the walks |
| `WindowChecksProofs`: `MaskIsBytewise`, `WindowsAgreeAtBorders`, `LookaroundIsConjunction` | buffers of bytes, not empty; checks are well-typed, a negation covers whole bytes and the entries of a lookaround ascend, the compiler's part; bytes of any number of bits, words of any number of bytes | `Inv`: a step decides one check, by `MaskSays`, `ByteSays`, `ClassSays`, `SingleSays` and `LookSays` |
| `AccelScanProofs`: `VectorsInside` | at least two lanes; pair searches go forward | `LoadInv`: the next vector or the bytes left lie in the buffer, and vectors are loaded only from buffers with room for one |
| `AccelScanProofs`: `SameAnswers`, `NothingLeftBehind` | a nibble has an even number of values, half of them for each top bit; tables have an entry for every nibble | `ByteInv`, `PairInv`, see below |
| `TeddyScanProofs`, `FdrScanProofs`: `QueueNeverOverflows` | `CAP` is positive | `RoomInv`: where a block may be queued, there is room for one more; a block adds one entry, and a full queue is flushed before the next, also before the tail |
| `FdrScanProofs`: `BlocksInZones` | the compiler's flood table has an entry for every byte; a confirm reads no more than a block, and a block reads ahead no more than a block | `PlaceInv`, see below |
| `FdrScanProofs`: `BackoffStaysBounded` | as above | `BackoffInv`: a failing probe waits for less than the buffer, or the next one lies behind the main loop, where one block at most is left |
| `NoodleScanProofs`: `LooksStayInside`, `FindsAllInOrder` | `KeyAssumption`: the keys are bytes of the literal, the compiler's part | `ScanInv`: the ends reported are the occurrences whose keys lie before `p`; `KeyOfOccurrence` and `ReportedOccurs` say that the key test loses nothing and the confirm lets nothing else pass |

`PlaceInv` is needed because the block that follows a flood is read without a
look at the end of the zone. It is inside because the run ends before the last
`FLOOD_TAIL` bytes are looked at, blocks lie on a grid of `ITER_BYTES` from the
start, and the end of the main zone lies on the same grid: a place on the grid
before that end has room for a block. Copied zones, which are not on the
grid, are shorter than the place at which their flood probes begin.

**What the engines find.** `FoundAll` and `StreamSpec` speak of the whole scan, the
code of one candidate at a time. `ConfirmInv` (`ConfirmProofs`) is what lies
between, in terms of three places in the buffer: every occurrence between the
start of the scan and the frontier, the first byte the engine has not looked at,
waits in `cbuf` or in the chain that is walked, was told, or was left out by a
squash or a repeat (`FoundInv`); what waits is ordered and lies behind what
was told (`OrderInv`, `WalkInv`); what an answer squashed waits no more but in
the bucket that is walked (`SquashInv`); `lastMatch` is the last hit that is no flood
(`LastInv`); the window shows the buffer (`WindowInv`). Each step of a
confirm keeps it (`ConfirmInv` has one lemma for each of them), and both engines
use these lemmas: what is left to an engine is that its blocks propose
every literal that ends in them.

For Teddy this is `BlockProposes`: a mask of up to four bytes leaves out no
literal, and the padding of the tail proposes nothing.

For FDR it takes more. `CutInv`: the zones follow each other from the start to
the end of the buffer, and what a copy shows, history and pad included, is the
buffer (`ZoneShows`). `StateInv`: a bucket that the carried state excludes at a
byte is excluded there by a byte before the block, or its literals would begin
before the scan; so no bucket of an ending literal is excluded, also when the
state is carried over into the coordinates of the next zone. `NearInv`: what waits was
found in the zone the engine is in. A flood is the one place where the frontier moves without
a look at the bytes. `RunInv` says that they, and those `suffix` bytes before them,
are the byte of the run; `FloodFits` then says that only the ids of the flood end
there, which `ToldInv` counts. The state that is taken over to the block behind
the flood was made from bytes before it, but those are the same byte: this is
why the suffix must cover the bytes the state is made of.

| Theorem | Assumes | Says |
|---|---|---|
| `TeddyScanProofs`: `TeddyFinds`, `TeddyIsAStream` | `TeddyAssumption`: a table has one to as many masks as a confirm compares | at the end all occurrences were hit and nothing else; the hits are a `HitStream` |
| `FdrScanProofs`: `WindowsShowBuffer`, `FdrFinds`, `FdrIsAStream` | `FloodAssumption`, the compiler's part: a flood whose ids fit in its entry lists the literals that consist of its byte, each once and no longer than the suffix; every other literal has another byte within the suffix and the window; the suffix covers half a block (9 in the databases of `tests/fixtures`, where `HALF` is 8) | the same for FDR, and that every window that is compared shows the buffer |

`FloodAssumption` is stated in `FdrScan`, so TLC evaluates it on every table of
the runs. The literals are arbitrary sequences of bytes, so also longer than the
window; `Occurs` compares what a confirm compares.

**The whole scan.** `WholeIsADelayScan` (`FdrScanProofs`) says that `BlockScan`, the
real FDR with `DelayScan` in its callback, implements `DelayScan`, for all tables,
databases and buffers. It assumes `BlockAssumption`, the compiler's part again: a
literal of the table names its place in `db.lits`, in the order of buckets and
chains, and what a flood of the table reports `db.lits` allows a flood to report.
The invariant is `LinkInv`. `PhaseInv` says which of the two runs: `DelayScan`
plays inside of a call of the engine, or behind its end. `EchoInv` says that what
`DelayScan` remembers of its engine is the engine's: its end and literal are
those of the last hit, it holds no more literals for used up and no more buckets for
squashed than the hits at that end and their answers account for. A new hit is
then one that `OnHit` allows (`HitLinks`): `ConfirmInv` puts it behind the hits of a
confirm, `HereInv` among the ids a flood has not told, and `HitStep` outside of what
was squashed. An answer leaves the two with the same squash (`AnswerLinks`).
Since a step of the whole is a step of FDR or leaves it alone
(`WholeSearches`), `Found` holds of the whole, too (`WholeFinds`): the answers that
literal programs give are among those that the proof about FDR allows.

The engine of `DelayScan` must know floods for this: one that always reports in the
order of `db.lits` and takes every squash is not FDR. `WholeAssumes` gives what
`DelayScanProofs` assumes of the constants.

`SameAnswers` goes from the lane to the buffer. `LowLane`, `HighTableLane` and
`TopLane` say what a shuffle leaves of a byte in a lane: a shift of whole words
pulls in the neighbour's nibble, and the mask or the modulus drops it again.
`BlockMask` and `DoubleMask` conclude that the mask of a vector names just the
lanes that the reference accepts; `FirstLane` and `LastLane` that its ends do so
for every stride. `ByteInv` and `PairInv` then say what a search has left
behind: no byte of the class, and a tail shorter than a vector, so that what the
tail reads again cannot match; for pairs also which byte the carried vector
shows in its last lane.

**Only model-checked.** Liveness (`ScanEnds`, `WalkEnds`), which is out of the
prover's reach. `EveryMatchOnce`, which names the matches that one database has to
report: its parts are proved for all databases (`WholeFinds`, `WholeIsADelayScan`,
`ImplementsQueue`, `NoDuplicates`, `IncludedMatchOnce`), but what a
database means as a whole is the compiler's to say.

## 6. Not modelled

- The arithmetic of CRC-32C (`crc32c.rs`): a Boolean of the file. That damaged
  bytecode fails it is a matter of probability.
- `parse_allow_nfa` and `outfix_nfas` of `rose.rs`: nothing on the way of a load or
  a scan calls them. Of `nfa_by_queue`, which the interpreter calls
  (`literal.rs:467`, 502), the outcome is modelled: a queue that is not found is a
  Rose error, and behind one that is found the NFA stub's `Unsupported` fails the
  program (`queues`, `NfaError`).
- `keep_lanes_below`, `keep_lanes_from` and `LaneIter` of `russcan-simd`: no kernel or
  engine here uses them. What the back ends do in single instructions is
  modelled once, as the scalar back end does it, apart from the mask bits per
  lane.
- Fat Teddy, which the source refuses.
- Liveness of the engines: each is a loop over the buffer whose progress `TLC`
  shows by running out of states without a deadlock.
- The tools, fuzz targets and tests.
- The diagnostic feature `confirm_replay`, and the feature `fused_confirm`,
  which confirms a block at once instead of queueing it.
- That the compiler's tables are what the engines need: flood suffixes that
  cover their literals, flood ids that do not include one another
  (`fdr.rs:852`), chains in bucket order. The runs use tables that satisfy it.

## 7. Plan

Done, in this order: `LitProgram` and `DelayScan` with `ReplayQueue`; the
proofs about them; `Confirm`, `FdrScan`, `TeddyScan` with `HitStream`;
`ConfirmTable` and its proof; `WindowChecks`; `NoodleScan`; `LoadDb`;
`LaneVectors` and `AccelScan`; `BlockScan`; the proofs about places, queues, the
load, noodle and the kernels; the proofs about what Teddy and FDR find, and that
`BlockScan` is a `DelayScan`; the window checks bit by bit with their proofs;
`LoadedTable` and the proof that a load is enough for the walks behind it;
`ProgramFlow`, and the proofs about roles, keys, groups and included literals.

Next:

1. `BlockScan` with `TeddyScan` in the place of `FdrScan`.
2. A specification of what a whole database reports, for programs of the
   shapes in `ProgramFlow`, with `EveryMatchOnce` as its instance.
