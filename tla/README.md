# A TLA+ model of the time series database engine

This directory holds TLA+ modules for the storage engine in `src/` and `include/`,
the TLC configurations that check them on small instances, and proofs for TLAPS.
`PROJECT.json` lists the runs, the source lines each definition models, the hazards
the properties are aimed at and what the checks found.

To check one run: `tlc -config engine_crash.cfg MCEngine`. To check the proofs:
`tlapm EngineProofs.tla`, and so on for each module whose name ends in `Proofs`; the
longest take some minutes.

## The system

A TCP server keeps, per metric, a *head block* in memory and *chunk files* on disk.

| component | state | operations | correct when |
|---|---|---|---|
| head block (`head.c`) | two arrays, `size`, `lastTimestamp`, a mutex | `PUT_value`, `GET_value` | sorted, never more than 50000 points |
| registry (`registry.c`) | hash table of metrics; per metric the chunk list | `Head_PUT`, `headflush`, `Head_GET`, `Head_AGG`, `Head_STATS`, `cleanupRegistry` | an acknowledged point is found, once, by every query |
| write-ahead log (`wal.c`) | `wal.log`, one record per point of the block | `wal_append`, `wal_replay`, `wal_truncate` | log and block hold the same points |
| chunk files (`flush.c`, `chunk.c`) | header and compressed payload | `flushtochunk`, `chunkwrite`, `chunkread` | a registered chunk is readable |
| codes (`timestamp.c`, `value.c`, `bit_io.c`) | encoder and decoder structs, a bit buffer | write, read | decoding inverts encoding |
| server (`server.c`, `request.c`, `parsor.c`) | a detached thread per connection, a line buffer | accept, parse, dispatch, start, shut down | every request is answered, data survives a restart |
| retention (`retention.c`) | rules, a thread | `run_expiry` | expired chunks go, the others stay |
| downsampling (`downsample.c`) | coarse `*_1m` chunks, `.done` markers, a thread | `downsample_metric`, dispatch in `Head_AGG` | coarse data stands for all raw data |

How they interact: client threads call the registry. The hash table is guarded by
`registry_lock`, a head block by its own `lock`; the chunk list is changed under
`head->lock` by `headflush`, under `registry_lock` by retention, and is read under
no lock at all. A PUT goes to the block first, then to the log, and is
acknowledged. A flush writes the chunk file, registers it, empties the block and
removes the log, in this order. At start `loadRegistry` reads the headers of the
chunk files and replays the log into a new block.

What is hard: a flush has five externally visible steps and the process can die
between any two; a later flush may rewrite the file of an earlier one; a PUT
releases its lock to flush and tries again; readers run concurrently with the move
of points from the block to the chunk list; most I/O failures are not reported;
clients outlive the shutdown; the retention thread and a flush change one list
under different locks; the downsampling thread lets go of its lock in the middle of
a pass; all client threads share the static position of `strtok`. `PROJECT.json` lists these as hazards, line by line.

## Modules

* `HeadBlock` - the block as a pair of a sequence of points and `lastTimestamp`;
  `PUT_accepts` and `PUT_value` split the C function into its condition and effect.
* `Series` - the abstract specification: a set of durable points that only grows, and
  a set of points that a query can find.
* `Engine` - write path, flush, log, start, shutdown and crashes for one metric.
  An action is named after the function whose step it is (`headflush_open`,
  `headflush_register`, ...). A step ends where another thread or a crash could
  tell the difference: at a lock operation, a change of a file, or a change of the
  chunk list. What is done under a lock and seen by nobody else is one step.
* `Query` - extends `Engine` by readers: the scan of the chunk list takes a step per
  chunk, then comes the block. GET keeps apart the points it counts and the points
  whose text survives in the reply.
* `Aggregate` - extends `Query`: what AGG computes from the points a reader has collected,
  and the reference it is compared with.
* `TimestampCodec` - the delta-of-delta code; widths are constants, given as numbers of
  values (2^7, 2^9, ...).
* `BitIO`, `ValueCodec` - bit writer and reader, and the XOR code of values, as operators.
* `ChunkStream` - extends `TimestampCodec` and `ValueCodec`: the steps of the former with
  both codes in the bytes of one `BitIO` buffer.
* `WalFile` - the log as a file of 8-byte words, on top of `HeadBlock`.
* `Retention` - one chunk list under headflush, the retention thread and a query.  A step
  ends at every access to `chunkCount`, to the pointer `entry->chunks` and to the array,
  because the three have no lock in common; `chunkCount++` and `chunkCount--` are a load
  and a store, each field of a new entry is stored by a step that reads `chunkCount`
  again (registry.c:526-528), and the memmove of `expire_chunk` works on the pointer and
  the count that earlier steps have loaded (retention.c:72-75).
* `Downsample` - the downsampling thread, coarse files and markers, failing calls, restarts,
  and what `Head_AGG` reads of them. A file keeps the points that were encoded; a reader
  gets what the decoder makes of their timestamps (`Decoded`).
* `Server` - connections: receive buffer, lines, `strtok`, replies.
* `EngineInv` - the inductive invariants of `Engine`.
* `EngineProofs`, `RecoveryProofs`, `QueryProofs`, `CodecProofs`, `WalProofs`,
  `RetentionProofs`, `DownsampleProofs`, `ServerProofs` - the theorems, each module with the
  inductive invariants that only it needs.
* `MCEngine`, `MCQuery`, `MCChunkStream`, `MCWalFile`, `MCRetention`,
  `MCDownsample`, `MCServer` - instances for TLC.

Definitions whose name is that of another definition with a suffix
(`ReplaySkips_wide`, `Stats_swapped`) are mutants: plausible mistakes that the
properties must, and do, notice. No specification uses them.

### How code and model correspond

A point is a timestamp and the number of the PUT that sent it. The value is not
looked at by any condition of the engine. A chunk file is `none`, `torn` (fopen with
`"wb"` has truncated it, or it is short) or `whole` (`chunkread` accepts it).
`fopen`, `fwrite` and `fclose` of a chunk fail or succeed on their own, as far as
the constant `Failures` allows. `lastTimestamp` of a new block is any member of
`Garbage`, in `Engine` and in `WalFile`: the code does not initialise it. A chunk id is the first timestamp modulo
`ChunkIdMod` (2^32 in the code), which is also the name of the file.

`accepted`, `used` and the counters are history: they record which PUTs returned
true and bound the model. So are `known` and `moved` in a reader.

Abstractions and assumptions, in the direction that hides nothing for the property
they serve:

* One metric. The code shares nothing between metrics but the hash table.
* In `Engine` the log is a sequence of whole records, and a failure to open or flush it
  loses the record; records cut in half are the subject of `WalFile`, which leaves
  out chunk files.
* A power loss keeps the log (it is fsynced) and its removal, and may cut every chunk
  file that was not written back. Loss of a whole directory entry is not modelled.
* Chunks decode to the points they were built from. `EncodableAssumption` limits the
  timestamps of `Engine` to those for which `TimestampCodec` shows it.
* The freeing of memory at shutdown and the end of the process are one step.
* An aborted FLUSH of an unknown metric is the end of the process.
* Retention and downsampling do not run next to `Engine` and `Query`. `Retention` and
  `Downsample` have flushes of their own, without the steps of `Engine` that do not
  touch the chunk list.
* Memory that was freed: the old array in `Retention` is read as what was there or as any
  other slot, a store to it is kept or lost, or the access ends the process (`proc =
  "fault"`); the copy of a line in `Server` is read as what was there or as nothing. Overlapping calls of `strtok` cut the
  same copy, so that one of them may meet the end of the string early.
* `Retention`: a chunk is a number with bounds; the file name depends on `start_ts` alone.
  The history variables `raced` and `disturbed` say that headflush and the retention
  thread, or a walk and a deletion, have overlapped in the list. headflush looks up the
  metric and writes the chunk file in one step: neither touches the list.
* `Downsample`: a point is a timestamp and the set of client points that it averages, so
  "counted" and "counted twice" can be told without values. Level 0 is the metric,
  level 1 its `_1m` directory, level 2 what becomes of that after a restart. The loop of
  `write_coarse_chunk` takes a step per point (`average`), with the open bucket and the
  arrays in `ds.b`; it touches nothing that others see, but its invariant is what the
  proofs rest on. A client point carries the first timestamp of its block (`of`): history,
  for the proofs. Blocks are sorted (`DownsampleAssumption`): `PUT_value` refuses
  a point older than the last one (head.c:25). Timestamps are below `Horizon` (2^31 - 60
  in the code): no delta of deltas needs more than the 32 bits of its class. A first delta
  of `W14 / 2` or more (8192 s) is cut and sign-extended, and every later timestamp is
  read `(k - 1) * Shift` too early: that holds for raw chunks and for chunks of averages.
  `max_buckets` is computed from what was read, with C's division and the cut to an `int`.
  A negative one makes malloc fail; for zero malloc returns a pointer and the loop goes on.
  What the stores behind the array then damage is not modelled beyond that: `BucketsBounded`
  says that they happen.
* `Server`: the unit of buffers is a word or a newline. What a request does is left to
  the other modules; it returns in one step. A send to a client that has gone is
  taken, fails, or raises SIGPIPE: no code ignores that signal.
* `Aggregate`: results are exact fractions; the doubles' rounding and `%.6f` are left out.
* `ValueCodec`: a double is its bits; the low nibble is cleared on both sides, so that
  "the value" is its high bits. That the low bits are lost is a finding.

## Runs

Bounds of the `Engine` runs: two clients (one in `loss_equal_timestamps`), a block of
two points, three PUTs, one or two FLUSHes and up to two kills or shutdowns. A
block of two is the smallest that is full, partly full and empty; three points make
one full block and the start of the next; two stops are what it takes to rewrite a
file after a crash and crash again. `Timestamps` 7, 8, 9 with `ChunkIdMod` 8 make
one id differ from its timestamp. PUTs come in any order of timestamps.

| run | shows |
|---|---|
| `engine_crash` | `NoAckedLoss`, `WalMirrorsHead`, `OverwriteProtected`, `ImplementsSeries` and the inductive invariant `IInv` through kills and shutdowns at any step, and failures that headflush notices; `RequestsFinish`, `ShutdownFinishes`, `LoadFinishes` under `FairSpec` |
| `engine_torn` | `IInv` and `LossOnlyInTornChunk`: with kills, power losses and unnoticed fclose failures, what is lost was in a chunk file left short |
| `query_once` | `ExactlyOnce` (as long as nothing is restarted), `NoDoubleRead`, `ReadsCommitted` with one reader, two writers, flushes and failures of the log, without crashes; `AggMatches`: AGG against a reference definition for buckets of two and three seconds and all functions |
| `query_crash` | `CompleteUnlessMoved`, `StatsSeesData`, `QueriesFinish`, also after a crash that makes a registered file be rewritten under a reader |
| `stream` | `RoundTrip`, `Drift` (timestamps), `StreamInSync`, `PayloadExact`, `SizeExact` (both codes in one bit stream) for all chunks of up to four points |
| `wal` | `PrefixRecovered`, `NoPhantom` with records of which none, one or both words are written, and a new block whose `lastTimestamp` is older or younger than a record |
| `retention` | `RetentionTypeOK`, `IndexExact`, `FreshKept`, `ExpiredGo`, `StopJoins`: what the chunk list keeps in spite of the races of headflush and the retention thread |
| `retention_scan` | `CapacitySafe`, `ScanComplete`: the same list with a query, and a capacity that overflows |
| `downsample` | `CoarseAggExact`, `CountedOnce`, `BucketsFit`, `OldGetsMarked` with a restart, a failing malloc or fopen, retention, and chunks that decode shifted |
| `server` | `LinesInOrder`, `OverflowContained`, `OwnWords`, `Served` with an overflowing line and a client that leaves |

A reader serves one request, for the whole series or for a range that begins and
ends inside a chunk.

Bounds of the other runs. `stream`: timestamp fields of 2, 3, 4, 5 and 6 bits for 7, 9,
12, 14 and 32; sixteen timestamps, from which deltas of deltas on both sides of the bounds
of every class and first deltas on both sides of half a field and of a field can be
made; words of eight bits, of which two are cleared, and bytes of three, so that fields
begin and end at every position of a byte and take up to four bytes. The fourth point
is there for what a third leaves behind in encoder and decoder. `wal`: a value may have
the bits of a timestamp, so that a log read out of step gives plausible points; a block
of three and four PUTs make a log that is longer than a block, once an unset
`lastTimestamp` has made a replay skip records. `retention`: the array starts with two
slots, so that three flushes double it once; the clock jumps once, past the period of one
of two blocks, and there are two periods to choose from. `retention_scan`: one slot and a
capacity of three bits, which three flushes double once and overflow; one period.
`downsample`: minutes of two seconds and first deltas of three bits; of six
blocks five begin in the same minute, some have one name, one decodes to itself and its
averages do not, two decode to decreasing timestamps; two flushes, one restart and
one failing call, which reach a list that retention shifts under the thread, a coarse file
that is rewritten, a marker that is missing, and the level above. `server`: a recv of two units, a buffer of five and lines of three keep the
order of the real sizes except that a line array holds more than one recv (1023 and
1024 bytes in the code); of three kinds of line one always fits, one may and one
cannot.

Two runs check what the documents or a comment say of the program and find a
behaviour of the code that contradicts it; `findings` quotes the lines.

| run | counterexample |
|---|---|
| `loss_equal_timestamps` | two points with one timestamp: replay skips records with `ts <= lastTimestamp` |
| `coarse_agg` | once the `_1m` directory exists, AGG over a long range leaves out raw chunks that are not downsampled yet |

Three more findings are about properties of `stream` that pass: they say exactly what the
code does, and that is not what a document or a test says. `Drift`: a first delta that uses
the 14th bit is read as negative and moves every later point to the past, while
design.pdf 7.2 calls the field unsigned. `StreamInSync`: a value comes back without its low
four bits, while tests/test_value.c:69 compares whole doubles (design.pdf 8.2 has it as the code
does). `SizeExact`: every changed value costs a word and two bits, because the window
starts as the whole word (value.c:34) and the branch for a new window is never taken,
while README.md:96 and :312 speak of zero elimination and one to eight bytes, and design.pdf
8.5 has "No previous block" lead to that branch. `AggMatches` states Dcount as the code has
it: it runs on over the buckets.

More disagreements can be reproduced by putting a property in the place of those of a
run. With `MCEngine`, start from `loss_equal_timestamps.cfg` with
`UniqueTimestamps = TRUE`, `Timestamps = {7, 8, 9}`, `MaxFlushes = 1` and change:

| change | property | what happens |
|---|---|---|
| `Timestamps = {0}` | `NoAckedLoss` | a point with timestamp 0 is never replayed |
| `Garbage = {0, 8}` | `NoAckedLoss` | replay compares with the unset `lastTimestamp` |
| `Failures = {"power"}` | `NoAckedLoss` | the chunk was not fsynced, the log is gone |
| `Failures = {"fopen_wal"}` | `NoAckedLoss` | a PUT is acknowledged without a record |
| - | `NoDuplicates` | a crash between chunk and log removal: replay compares with the new block, not with the chunk, and points are there twice, which wal.h:12-13 says replay prevents |
| - | `RequestsDoNotKill` | FLUSH of an unknown metric dereferences NULL (registry.c:70); its caller expects NULL (registry.c:474) |
| `UniqueTimestamps = FALSE`, `Timestamps = {1}`, `MaxFlushes = 2` | `ChunksImmutable` | two blocks that start at one timestamp share a file; README.md:88 calls chunks immutable |
| - | `OutOfOrderRejected` | a flush resets the order check; design.pdf 1.2 says out-of-order PUTs are rejected |
| two clients | `ShutdownFlushes` | a PUT between the last flush and the free of `cleanupRegistry`; design.pdf 3.1 says all dirty blocks are flushed (the log saves the point) |
| `FairSpec` | `PeriodicFlush` | no timer flushes a block; README.md:84 says it happens periodically |

With the other modules, under the specification without fairness:

| run | property | what happens |
|---|---|---|
| `query_crash` | `QueryComplete` | a flush between the scan of the chunks and the block hides points; README.md:103 promises "Thread-safe registry access with mutex locks" |
| `query_crash` | `BodyMatchesCount` | GET's footer overwrites the lines of the block and counts them; design.pdf 4.5.1 says they are merged |
| `retention` with `InitialCapacity = 4` | `OnlyOldRemoved` | a deletion lowers `chunkCount` between two stores of headflush: the name of a fresh file lands beside an old `end_ts`, and the file is removed; retention.h:11 has a rule delete chunks whose end_ts < now - max_age |
| `downsample` | `BucketsBounded` | a chunk whose first two points are 8192 s or more apart decodes to decreasing timestamps: `max_buckets` is zero and the average is stored behind an array of no bytes; downsample.c:131 calls it an upper bound |
| `stream` | `FirstDeltaUnsigned`, `ValuesExact`, `FirstChangeSmall` | what the findings about `stream` quote, as properties |
| `server` | `WordsNeverMix` | two parses overlap and one request gets words of the other line |
| `server` | `ClientCannotKill` | a reply to a client that has gone raises SIGPIPE, which ends the server |

### Fairness

`FairSpec` assumes weak fairness of each client thread's steps inside a request, of
the main thread's steps inside shutdown and of the steps of a start: the operating
system runs every thread that can run. Pthread mutexes promise no more (a thread
that waits for the lock may be overtaken), and no more is needed because PUTs and
FLUSHes are finitely many. Requests, signals, kills and the removal of failures are
not assumed. `FairQuerySpec` adds weak fairness of the readers.

`FairRetentionSpec` and the `FairSpec` of `Downsample` assume weak fairness of each
thread's steps and of the wake-up of the background thread, which sleeps for a bounded
time and looks at `g_stop` in between; the clock and requests are not assumed.
`FairSpec` of `Server` assumes that the main loop accepts, and that a handler runs
whenever it has something to receive, parse or send.

## Proofs

The theorems hold for every value of the constants that satisfies the named
assumptions of the modules: any number of clients, readers or connections, any
capacity, any bounds. What a theorem assumes of its environment beyond that is named in
it. TLC checks `IInv` too, in `engine_crash` and `engine_torn`.

### Environments

* `LogWorks`: clients never repeat a timestamp, distinct timestamps have distinct chunk
  ids, what malloc leaves in `lastTimestamp` is older than every timestamp, and only
  chunk files fail (noticed or not) or are cut by a power loss; the log does not fail.
* `Benign`: `LogWorks`, and the only failures are those headflush notices (fopen and fwrite
  of a chunk).
* `NoRestart`: `MaxStops = 0`, no repeated timestamp, distinct chunk ids and no failing
  fclose. The log may fail: nobody reads it.

The conjuncts are needed: without unique timestamps `loss_equal_timestamps` and the
counterexample to `ChunksImmutable` are possible, without the others the rows of the
first table of disagreements; with restarts `ExactlyOnce` is false, by the
counterexample to `NoDuplicates`.

### Engine

* `TypeCorrect`, `TypeSafe` (`EngineProofs`): `TypeInv` is inductive whatever fails. It adds
  to the types that a thread holds the lock exactly when it is in a critical section,
  that a block being flushed is not empty and its file exists, and that replay stays
  within the log.
* `Recovery` (`RecoveryProofs`): `IInv` is inductive under `LogWorks`. `LossSafe` and `LogIsHead`
  conclude `LossOnlyInTornChunk` and `WalMirrorsHead`, and `NoLoss`, under `Benign`,
  `NoAckedLoss`.
* `Refinement`, `Overwrite` (`RecoveryProofs`), under `Benign`: `ImplementsSeries` and the
  action property `OverwriteProtected`.

Why the invariant is stronger than the property: "every acknowledged point is
visible" says nothing about a stopped process, nor about a file that is about to be
truncated. `IInv` says, for each location of the lock's owner, how far block and log
are apart (`HeadInv`); that block and log are sorted, so that replay skips nothing
and refuses nothing (`SortedInv`, `LoadInv`); that a file which the
next flush truncates holds nothing but logged points (`FlushInv`); that every kept
file is sorted, and a readable one registered with its bounds or about to be (`FileInv`);
that a metric without a directory has no data (`DirInv`); that the timestamps of points
not yet logged are new (`FreshInv`); and that an accepted point is in
the log or in a kept file (`AckedInv`). `NoAckedLoss` follows because what is in
the log is in the block and what is in a readable file is registered. A file is
*kept* (`Kept`) if it is whole or, where files may be cut unnoticed, torn: then the
invariant still says what was written to it, and all that `LossOnlyInTornChunk` allows
to be lost is there. Without such failures kept means whole (lemma `BenignKept`).

### Queries (`QueryProofs`)

* `ReadsCommittedSafe`, whatever fails: the block holds accepted points and at most the
  point of the thread that has the lock, chunk files only accepted points.
* `CompleteSafe`, under `Benign`: a point that a reader is asked for and has not got is ahead
  of it, in a chunk it has not passed or in the block (`SearchInv`). The lemmas `Grow...` show
  that no step of the engine takes a point from ahead of any reader (`Grows`), also when it
  truncates a file that a reader has still to read. At the end of the scan the claim
  is about the block alone, as long as the list has not grown: `moved`.
* `StatsSafe`, under `Benign` and for clients that do not send the timestamp -1, which the
  code takes for "none": a reader of STATS that met an empty block will find chunks.
* `OnceSafe`, under `NoRestart`: `OnceInv` says that the chunk list describes its files
  (`ListedInv`), that no timestamp is in two of the block, the listed chunks and the PUTs on
  their way (`ApartInv`), and that an accepted point is in the block or in a listed chunk
  (`PlacedInv`).
* `NoDoubleReadSafe`, under `NoRestart`: what a reader has comes from chunks that it has passed,
  and a point only moves to the end of the list.

### The other components

* `RoundTripSafe`, `DriftSafe` (`CodecProofs`): one invariant, with the shift of the decoder as a
  parameter: 0 for a first delta in signed range, `W14` for one beyond it. It says which
  prefix of the chunk encoder and decoder have processed and that their `prevtimestamp`
  and `prevdelta` are the residues of the same numbers. `CodecAssumption` asks that the
  32-bit class is at most half of the 64-bit range, as it is in the code.
* `NoPhantomSafe`, `PrefixRecoveredSafe` (`WalProofs`): as long as no record lies behind half a
  record, words 2j-1 and 2j are a record. The file always begins with the intact
  records, in order (`PrefixInv`), and a replay is at a place up to which it has taken
  each of them that is in `Taken` (`FoundInv`). `WalFileAssumption` asks no more of `Garbage`
  than that it consists of numbers: what malloc left in `lastTimestamp` may be younger than
  every record. `Taken` names what then comes back: the records younger than that, as
  far as the log up to them fits a block.
* `RetentionTypeCorrect`, `CapacityTheorem`, `FreshKeptSafe`, `IndexExactSafe`, `ScanCompleteSafe`
  (`RetentionProofs`): `BaseInv` relates, for every pair of locations of headflush and the
  retention thread, the count in memory to the one each has loaded, and shows that each
  store of headflush, whose index is the count at that moment, is inside the array. On it
  rest the invariants of the other three: as long as the two have not met (`raced`), the
  list is what was registered less what was removed, and the pointer, the count and the
  tail that one of them has loaded are still those in memory (`ExactInv`); what
  the walk may delete has outlived a rule (`FreshInv`); what the query has passed it has
  got (`ScanInv`). Without `raced` the first two are false: see the
  counterexample to `OnlyOldRemoved`.
* `OwnWordsSafe`, `LinesInOrderSafe` (`ServerProofs`): a parse that no other overlaps has
  strtok's position to itself (`ParseInv`); the buffer holds the units that follow the
  lines taken, without a gap (`StreamInv`).
* `OverflowContainedSafe` (`ServerProofs`): an overflow needs a client that sends `INBUF -
  BUFFER_SIZE` units without a newline, and makes the handler answer at most one piece of a
  line. The invariant counts: the pieces answered are at most the overflow answers, and
  fewer while a piece is in the handler's hands or will be the next thing it takes (`DebtInv`);
  the buffer holds the last units received, without a gap (`BufferInv`).
  `ScriptAssumption` says only that a client sends a finite sequence of units.
* `BucketsFitSafe`, `CountedOnceSafe`, `CoarseAggExactSafe` (`DownsampleProofs`), from one inductive
  invariant, `DownsampleInv` (`Invariance`). It has two layers. What holds of every
  chunk, also of one that decodes shifted: a readable file is in order as it was encoded, is
  named after its first point, and its client points come from blocks that begin in its
  minute (`FilesInv`); the buckets closed so far have different client points and,
  together with the open one, all points behind the loop (`LoopInv`); the chunk in
  the thread's hands is not marked, whatever flushes and retention do while the lock is
  dropped (`ThreadInv`); what was read from a raw chunk is what is averaged (`ReadInv`), and the
  coarse file of a marked chunk still holds it (`CoverInv`). And what holds, in `LoopInv`,
  `ReadInv` and `CoverInv`, of a chunk whose first delta fits (`Fits14`), because it decodes to
  itself (lemma `DecodedChunk`): every client point is in the minute of its average
  (`LoopExact`, `AllExact`). `CoverInv` is not inductive
  alone: between the truncation of a coarse file and its marker nothing covers the
  chunk, and only `ThreadInv` and `ReadInv` tell that the file which is truncated belongs to
  no other chunk that the property speaks of. `BucketsFit` counts: closed buckets are in
  different minutes between the first timestamp and the latest, and `AsIntSame` shows, from
  the bound `Horizon`, that the cut to an `int` changes nothing. `Align` is a product of a
  quotient; all that is used of it are the lemmas `AlignFacts`, `AlignIdempotent`,
  `AlignApart`, `AlignMonotone`, so the theorems hold for minutes of any length.

### Only model-checked

* Liveness and `Served`, `ExpiredGo`, `StopJoins`, `OldGetsMarked`, `QueriesFinish`: out of the
  provers' reach.
* `StreamInSync`, `PayloadExact`, `SizeExact`: bits are taken apart by RECURSIVE operators.
* `AggMatches`: AGG is compared with a reference over all points of a reader; both are folds
  over sequences, and the library's facts about folds and recursive functions take an
  operator as a parameter. The averages of `Downsample` could be proved because their loop
  is made of steps; AGG runs in one step of the reader, under no lock that others wait
  for, and splitting it would multiply the states of the `query` runs. Where a proof
  needs induction over a set of numbers it takes a least element (`ServerProofs`,
  `RetentionProofs`).

## State of the project

All modules of the plan are written, and every safety property of the runs that the
provers can reach is a theorem. What could follow: AGG in steps of its own, in a module
apart from `Query`, so that `AggMatches` can be proved like the averages of `Downsample`.

## Not modelled

* The command line client and the benchmark: terminal and socket I/O without state.
* `uthash.h`: third party; a metric has an entry or not.
* `Head_AGG_EVAL`: a copy of `Head_AGG` that nothing calls.
* Memory that `cleanupRegistry` frees while detached handlers still use it: every
  outcome is possible, and the process ends a moment later.
* The text of requests and arguments: `strtol`, `strtod`, names longer than their arrays.
* A capacity beyond `realloc`, failing `malloc`s other than those of `decompress_all` and
  `write_coarse_chunk`, and failing `pthread_create` of the background threads.
* What a store behind the arrays of `write_coarse_chunk` damages.
