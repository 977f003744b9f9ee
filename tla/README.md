# A verification project for libmseed

libmseed is a C library that reads, holds and writes miniSEED, the record
format of seismological time series. This directory holds TLA+ modules that
model the library, both the parts that keep state and the conversions between
formats, TLC configurations that check them on small instances, and proofs that
TLAPS checks. Line numbers are those
of the sources beside this directory, under `src/`.

## The system

libmseed is a library: one thread of the caller drives it, and its hard
behaviour comes from long sequences of calls on the same object, from calls
that stop half way, and from state kept between calls.

| Part | State | Operations | What makes it correct |
|---|---|---|---|
| Trace list, `tracelist.c` | a skip list of `MS3TraceID`, each with a sorted, doubly linked list of `MS3TraceSeg`; per ID its version, extent and number of segments | `mstl3_addmsr`, `mstl3_addmsr_recordptr`, `mstl3_readbuffer`, `mstl3_convertsamples`, `mstl3_unpack_recordlist` | no sample lost or doubled, segments are continuous series in time order, autohealing leaves nothing to merge, cached extent and counts agree with the list |
| Trace list packing, `tracelist.c` | `MS3TraceListPacker`: a position in the list, a record packer for one segment, totals | generator `mstl3_pack_init/next/free`, callback `mstl3_pack`, `mstl3_pack_ppupdate_flushidle`, `mstl3_pack_segment` | a rolling buffer that is filled and packed in turns streams every sample once, at its own time, and empties when nobody adds to it |
| Record packing, `pack.c`, `packdata.c` | `MS3RecordPacker`: samples packed so far, next start time, finished | `msr3_pack_init/next/free`, `msr3_pack`, `msr3_repack_mseed2/3` | only complete records until a flush, exact start times, errors are reported |
| File and stream reading, `fileutils.c`, `msio.c` | `MS3FileParam`: a buffer, how much of it is read, the position in the stream | `ms3_readmsr_r`, `ms3_readtracelist`, `msr3_writemseed` | every record of a stream is returned once, whatever the chunks it arrives in |
| Detection, parsing, decoding, `parseutils.c`, `unpack.c`, `unpackdata.c` | none between calls | `ms3_detect`, `msr3_parse`, `msr3_unpack_data`, `ms_parse_raw2/3` | what was packed is read back, in either byte order and format version; damage that changes the reading is noticed |
| Selections, `selection.c` | linked list of patterns with time windows | `ms3_addselect`, `ms3_matchselect`, `ms3_readselectionsfile` | a list selects the union of what was added to it; a pattern matches what it means |
| Logging, `logging.c` | a bounded registry of messages | `ms_rlog`, `ms_rlog_emit`, `ms_rlog_pop`, `ms_rlog_free` | the newest messages are kept, in order, each delivered once, also while the print function calls back |
| Times and identifiers, `genutils.c`, `gmtime64.c` | none (a leap second table) | conversions of strings, dates and nanoseconds, of codes and identifiers | conversions agree with the calendar and are inverse to each other |
| Extra headers, `extraheaders.c` | a parsed JSON document beside the serialised one | `mseh_get_ptr_r`, `mseh_set_ptr_r`, `mseh_serialize` | a read sees what was set before it; the text of the record has what callers were told is in it |
| `yyjson.c`, `crc32c.c`, `lookup.c` | none | third-party JSON, checksum, tables | modelled where the parts above depend on them |

The parts meet in these places. A reader, or `mstl3_readbuffer()`, hands each
record to `mstl3_addmsr()`, which extends segments. A packer takes samples out
of the same segments between additions. A record list lets the samples of a
segment be decoded later. Packing and parsing of version 2 turn extra headers
into blockettes and back. All report through the logging registry.

Behaviour that is hard to test, and that the properties are aimed at:

- records added in any order, with gaps, overlaps and repeats: the segment that
  grows must be found, merged and moved to its place by a search with several
  early exits;
- steps of several that fail: a merge whose second half is refused, an encoder
  that stops in the middle of a segment, a packer freed before its end;
- state kept between calls and used later: the extent of a trace ID, the
  position and the record packer of a generator, the read buffer and its three
  counters;
- input that arrives in pieces cutting through headers and records, ends inside
  one, or is no miniSEED;
- calls in any order on one object: setting, reading and serializing headers,
  logging from the function that prints messages, converting, extending and
  trimming a buffer of samples;
- two representations of the same thing: blockettes and JSON, tenths of
  milliseconds and nanoseconds, factor and multiplier and a rate, the byte orders of
  header, payload and host;
- what must happen in the end: the end of a stream is reached, an idle segment
  is flushed, a message list is emitted.

`PROJECT.json` lists these hazards at the lines where they bite.

## Modules

| Module | Models |
|---|---|
| `TraceList` | `mstl3_init()`, `mstl3_addmsr()`, `mstl3_addmsr_recordptr()` with all they call |
| `TraceList_proofs` | types, counts, order of starts, the first segment, the records in a segment with their rates and versions |
| `TraceListSeries_proofs` | extends it: the full order of segments, the extent of an ID, segments as time series, and autohealing |
| `TraceListSamples_proofs` | extends it too: finite sums and folds, the samples of a list, and the record lists of segments |
| `TracePacker` | extends `TraceList`: the generator, the callback interface and `mstl3_pack_segment()` over `msr3_pack_init/next/free` |
| `TracePacker_proofs` | the theorems about `TracePacker`, on top of those about `TraceList` |
| `SkipList` | the levels under the trace IDs: `mstl3_findID()`, `mstl3_addID()`, the removal of an ID |
| `SampleBuffer` | the samples of one segment: `lm_msr2seg()`, `lm_addmsrtoseg()`, `mstl3_unpack_recordlist()`, `mstl3_convertsamples()`, `mstl3_resize_buffers()`, pre-allocation |
| `TraceParts_proofs` | chains, the search, and the theorem about `SkipList`; rounding to a float, joined records, and the theorem about `SampleBuffer` |
| `RecordFormat` | `ms3_detect()` and `msr3_parse()` as operators on the start of a buffer |
| `RecordStream` | abstract: what reading a stream promises, without a buffer |
| `StreamReader` | extends `RecordFormat`: the loop of `_ms3_readmsr_impl()` over `msio_fread()` and `msio_feof()` |
| `ListReader` | extends `StreamReader`: `ms3_readtracelist_selection()`, and `mstl3_readbuffer_selection()` on the same bytes |
| `ListReader_proofs` | the theorems about `StreamReader` with the refinement, and about `ListReader`: what is listed, and that both ways of reading list the same |
| `RecordTime` | times in headers: seconds with nanoseconds, or with tenths of milliseconds and an offset of microseconds |
| `RateConversion`, `RateCalls` | `ms_genfactmult()`, `ms_nomsamprate()` and what they rest on |
| `RecordExtras` | extra headers and the blockettes 200, 201, 300 to 395, 500 and 1001 they become, both ways |
| `RecordHeader2` | `msr3_pack_header2()` and the header part of `msr3_unpack_mseed2()`: fixed header, blockette chain |
| `RecordData` | version 3 headers, payload, checksum, `msr3_unpack_mseed2/3()`, `msr3_unpack_data()`, repacking |
| `RecordPacker` | `msr3_pack_init/next/free` and `msr3_pack()` |
| `RawParse` | `ms_parse_raw2()` and `ms_parse_raw3()`, the diagnostic parsers |
| `RecordUse` | extends `RecordPacker` and `RawParse`: packed records are repacked, damaged, or decoded later from a record list |
| `SampleCodec`, `CodecCalls` | the encoders of `packdata.c` and decoders of `unpackdata.c` |
| `TimeConversion` | dates and `nstime_t`, over the calendar of `gmtime64.c` |
| `TimeConversion_proofs` | the calendar, the divisions and the borrowing, and the theorem about dates |
| `TimeString` | time strings in both directions |
| `SourceId`, `SourceIdCalls` | source identifiers, channel codes, strings in fixed fields |
| `GlobPattern`, `GlobCalls` | `ms_globmatch()` |
| `Selection` | `selection.c`: adding, reading a file, matching |
| `LogRegistry` | `logging.c`: the bounded registry |
| `ExtraHeaders` | `extraheaders.c`: the parse state of a record's JSON |
| `CallerState_proofs` | what a caller keeps between calls: the theorems about `LogRegistry`, `ExtraHeaders`, `GlobPattern` and `Selection` |
| `LibraryCall` | a caller of pure functions, one call at a time |
| `MCTraceList`, `MCTracePacker`, `MCStreamReader`, `MCRecords`, `MCLibrary` | the instances for TLC |

Definitions whose names start with `Bad` (or `Greedy`, `Stuck`, `Dull`) are
faulty variants, written before the definition they vary. Each property has one
that it is known to notice.

### TraceList

A time is an integer number of ticks, a sample rate a divisor of the ticks in a
second, 0 for records without a rate. A data sample *is* the time it was taken
at. This keeps what the properties compare, where a sample belongs and where its
segment puts it, and nothing else. The doubly linked list of segments is a
sequence, so `id->first` and `id->last` are its ends; the one place where the
code could get them wrong, unlinking the first segment, is a property of its own
(`FirstNeverMerged`). `ids` maps a source identifier and version to its trace ID;
an ID without segments is not in the list. Which of several IDs a search without
version finds depends on the random heights in the skip list, and is a
nondeterministic choice.

`AddMsr` is one call of `_mstl3_addmsr_impl()`. `Placement` is its decision, the
simple scenarios of lines 397-490 and then the search of lines 489-536. The
disjuncts are its outcomes: `AddID` (332-367), `AddToSegment` (408-487),
`AddSegment` (595-645), `MergeSegments` (537-577, which also fails half way) and
`RejectMsr` (`lm_addmsrtoseg()` refuses another sample type). Each ends with the
sorting of lines 647-696 (`SortInPlace`), the extent and version (`Tracked`) and
the update time (`Stamp`) exactly where the code does, and without them where it
returns early.

### TracePacker

`sp` is the record packer with its template, `gen` the `MS3TraceListPacker`,
`call` a call of the callback interface in progress, `stream` the records
produced. How many samples fit into a record depends on the values and the
encoding: the encoder takes any number from `MinSamples` to `MaxSamples`, and
refuses those in `Unencodable`. A call of the generator is one step, since
nothing runs beside it. A call of the callback interface is one step per record,
since the caller's handler runs in between. The caller (`Add`) adds to the list only
while no record packer is active: a packer's template points into the segment's
sample buffer, and adding to it then is undefined behaviour of the program. A generator
that maintains the list may also keep its place when it says there is nothing to pack
for now, in `current_id` and `current_seg`. The model's place is a rank in the list, the code's
is a pointer, which a merge started by `mstl3_addmsr()` can free. `KeptPlaceStays` lets such a caller
add records to the other trace IDs only, where rank and pointer are the same place.

### RecordFormat, RecordStream, StreamReader

A byte stream is a sequence of cells. The cell where a header starts carries
what parsing depends on: the format version, the length it states (0 for a 2.x
record without blockette 1000), whether header and samples can be decoded, and
whether the record matches the caller's selections. `Detect`, `RecordLengths`
and `ParseAs` give the result of parsing for the cells in the buffer, including
the search for the next header and the rule for the last record of a file.
When a blockette is only partly in the buffer the code reads an offset from
bytes that have not been read; both outcomes are allowed.

`StreamReader` splits a turn of the loop at its branches: `EndOfRange`,
`Fill`/`NoFill`, the outcomes of parsing, `CheckEnd`. `rd.more` is `parseval > 0`,
which survives into the next turn. A file is read to the last byte that fits, and its end is
known only after a short read. libcurl delivers chunks, a chunk that does not
fit stays outside, and the end may be noticed with the last chunk or after it.
The call that reports anything but a record is the last: what a caller who goes
on after an error may expect is not documented.

`RecordStream` says the same without buffer or chunks: at the read position
look at up to `MaxRecLen` bytes, deliver, pass over, skip or stop. The
refinement mapping takes the read position to `streampos` and hides the buffer.
Buffering shows in two cases, and the promise says so (`torn`, `Torn`). When the
buffer ends inside the header of a 2.x record, `ms3_detect()` reads the link to
the next blockette behind the bytes it was given (`parseutils.c:237-262`) and can
take it for an invalid one: the record is then no record, although all of it
arrives later. And behind a 2.x header that states no length the buffer can be so
full that no `MINRECLEN` bytes fit any more, although the next header would follow in
what is left to read. Both came out of the proof of the refinement: without them the
promise is false, for buffers a few bytes from full.

`ListReader` runs the caller's loop over the reader: after each record the
adjacent duplicate test, adding it (which may fail), and the file offset of its
record pointer. Then it reads the same bytes with the loop of
`mstl3_readbuffer_selection()`, which parses the memory itself, so that the two
lists of records can be compared. Adding a record is reduced to its position
here; what `mstl3_addmsr()` does with it is `TraceList`.

### SkipList, SampleBuffer

`SkipList` keeps the pointers that `TraceList` leaves out: for each ID its height
and the next one in each level. A random height is any height. Searching is a
walk, adding links behind the IDs the walk passed, removing looks for the ID
before in every level. `LevelsAgree` and `FindsWhatIsListed` are what makes the
function from identifiers to IDs in `TraceList` right; where several versions are
listed, a search without a version finds any of them in both modules.

`SampleBuffer` keeps what `TraceList` leaves out of a segment's samples: the
type in whose representation the bytes are, their values and the size of the
buffer. Values are multiples of a quarter, so rounding and loss of precision
happen. A float has `FloatBits` bits and its unit doubles `FloatRange` times; the values
of the records are in its range.

### Records

A record in memory is a record of its fields: fixed header, blockettes at their
offsets, payload. Offsets and lengths are the real ones, values are abstracted.
A calendar date is the second it names. The payload is what `SampleCodec` makes of
the samples, and carries the byte order it was written in, so that reading it with
the wrong flag gives other samples. `host` is the byte order of the machine, chosen at
the start. The checksum of a record is its content: two contents with one
checksum are not considered.

`RecordExtras` has one table for each blockette: which extra header goes to which
field, how it is rounded or limited, and when a field becomes a header again.
`HeaderStable` compares the second trip with the first, because the first may
round.

`RecordPacker` has one action for each call: `PackInit`, `PackNext`, `PackFree`.
`UseNext` then takes a record and repacks it with a buffer of some
length, or damages one link, count or type in a version 2 header.

### Conversions

Pure functions are operators. A caller (`LibraryCall`) makes one call with an argument
from a small set and the invariants compare the result with a reference
definition: the calendar counted year by year (`RefDays`), the meaning of a pattern
by its structure (`Means`), the difference of samples without packing, the rate as
a fraction. TLC's integers have 32 bits, so a day has few seconds and a second few
nanoseconds in `TimeConversion`; the calendar is the real one and the range of years
the real one.

### Selection, LogRegistry, ExtraHeaders

`LogRegistry` splits `ms_rlog_emit()` at every call of the application's print function,
which may log, pop messages, set the limit or emit in its turn: `emit` is the stack of the
calls that have not returned, each with its own list and its own count of what it has printed.
What it may not do is clear the registry. `Selection` has the list as the code
keeps it, newest first with windows merged into an earlier entry, and history of
what was added. Codes are cut to 19 bytes and patterns to 99 without an error, and a
pattern is looked up before it is cut, so that an overlong one is listed anew each
time; what data are selected by is what is kept of it (`CutPattern`). `ExtraHeaders` has the two documents of a parse state and the text
of the record; every function that may be given a parse state or none is an action
for both. Setting and merging follow `yyjson_mut_ptr_set()` and
`yyjson_mut_merge_patch()`.

## Runs

Passing runs:

| Run | Shows |
|---|---|
| `trace_heal` | one channel, autohealing, all arrival orders of four records out of 22: segments sorted and counted, the cached extent exact, no sample lost or doubled, every segment a continuous series, nothing left to merge |
| `trace_mixed` | no autohealing; two channels, two versions, two rates, records without a rate and header-only ones: an ID's version is the largest of its records that an `int8_t` holds, the rates in a segment are equal |
| `trace_kinds` | five records of two sample types, two rates, two versions and undecoded ones, splitversion, a tolerance of two periods: refused additions and half-failed merges keep the order and the record list in step with the samples; versions stay apart; the first segment is never unlinked |
| `pack_rolling` | a rolling buffer packed through all three interfaces in any order, records added between calls: each sample streamed once, at its own time, only complete records before a flush, and a generator that says it is finished has left nothing it could pack |
| `pack_errors` | encoding errors, retries and packers freed early lose nothing, and with `MSF_MAINTAINMSTL` and `MSF_FLUSHDATA` a packer goes through the list once, also when records arrive for another trace ID while it keeps its place |
| `pack_idle` | `IdleFlushed`: what nobody adds to leaves the buffer although no call asks for a flush |
| `stream_reader` | the buffer stays a window on the stream (`BufferAligned`), the reader implements `RecordStream` (`ReadsTheStream`), a trace list gets every record once with its position (`ListedOnce`), reading from memory lists the same records (`SameRecordsListed`), and both end (`ListingEnds`) |
| `records` | a packed record is well formed, read on hosts of both byte orders, and decoded alike later from a record list (`RecordsReadAlike`: `PackedRecordsReadable`, `RecordsWellFormed`, `UnpackedLater`); each sample is in one record (`SamplesPackedAsAsked`: `SamplesPackedOnce`, `PackedAsAsked`); header and start time are read back and settle (`HeadersReadBack`: `HeaderKept`, `StartTimesKept`, `HeaderStable`); the diagnostic parser agrees with the parser (`RawCheckAgrees`), repacking keeps the record (`RepackKeepsRecord`) |
| `library` | conversions agree with the calendar and are inverse to each other (`CalendarExact`, `TimeStringsReadBack`, `IdentifiersKept`), a pattern matches what it means (`GlobMatchesMeaning`), samples and rates come back from their encodings (`EncodingsExact`: `CodecRoundTrip`, `EncodesWhatFits`, `GainRangedExact`, `RateRoundTrip`); messages are counted, delivered once and dropped from the oldest (`MessagesKept`), and emitting them ends (`EmitReturns`); selections select the union of what was added (`SelectsAsAsked`); extra headers are read and published as set (`HeadersKept`); the buffer of a segment keeps its samples (`SegmentSamplesKept`); the levels of the list of IDs agree (`SkipListSound`) |

A property that is named for a component is the conjunction of the ones in its module, each with its own comment.

Runs that show a disagreement between the code and what is said of it:

| Run | Disagreement |
|---|---|
| `vio_rate_tol` | `IS_SAMPRATE_SIMILAR` (`tracelist.c:46`) has its comparison turned round when a tolerance is given: rates are joined when they differ by more than the tolerance |
| `vio_second_carry` | the start time of a later version 2 record is put together from a rounded fraction and a second that was not rounded (`pack.c:521`): just before a full second it is a second early |
| `vio_unpack_list` | `mstl3_unpack_recordlist()` swaps a payload if the header was swapped (`tracelist.c:1853`), `msr3_unpack_data()` only if the payload has to be |

### Bounds and why they are enough

- `MaxAdds`, 3 to 5 records. The longest decision of `mstl3_addmsr()` looks at
  three things: the record, a segment it extends, and a segment merged into it. A further
  record makes a list in which these are not neighbours; after it the outcome
  is a state of the same kind.
- Rates of 6 and 3 Hz with 12 ticks in a second: a period of 2 or 4 ticks and a
  tolerance of 1 or 2. Starts at every tick give gaps and overlaps below, at and
  above the tolerance.
- `MaxSamples` 3 and `MinSamples` 2, segments of up to 7 samples: a record too
  short, exactly full, and full with a rest. `MaxStream` only bounds the start of
  further packers.
- `MaxNow`, `AddUntil`: the last record is added two ticks before the clock stops, so a
  segment can become idle (`FlushIdle` is 1).
- `MinRecLen` 2, `MaxRecLen` 12, `FixedLen` 3, `BlktLen` 1, `ScanStep` 4 keep the
  order of 40, 10485760, 48, 8 and 64 bytes and the fact that the largest power of
  two leaves room for a header behind it. Streams of up to three pieces of up to
  13 cells exceed the buffer, so refills, shifts and full buffers occur.

- Records of 128 to 512 bytes with up to 200 samples of every encoding: one,
  two and more records, a rest that does not fill one, samples that the encoding
  cannot hold. Frames have their 16 words. Times of two nanoseconds to
  the microsecond, four to a tenth of a millisecond and three of these to a second meet every
  rounding within a few records. Extra headers: each blockette alone and the
  combinations that share a field or fill a header.
- Steim frames of 5 words in `library`: widths change within and across
  frames; differences at both edges of every width.
- `MaxLogged` 5 messages, which also bound how deep calls of `ms_rlog_emit()` are in each other, with limits of 0 to 3, one of which may be lowered below
  the number of messages; `MaxAdded` 3 selections, the third of which is merged with one of two,
  one pattern a character longer than its buffer;
  `MaxExtra` 3 changes of a header of two or three members; `MaxSegRecords` 3 records
  of a segment: put in front, behind, and once more after a conversion; `FloatBits` 6 and
  `FloatRange` 15, so values up to 64 quarters are exact and larger ones are rounded.
- `MaxIds` 3 IDs in 3 levels: one removed or added between two others, two
  versions of one identifier.

No symmetry is used: times are ordered, and the order of trace IDs matters.

Deadlock checking is off where behaviours end at a bound or because the
reader is done; `library` and `records` never stop.

### Fairness

Three runs check liveness. In `stream_reader` weak fairness of `ListNext`
says that the thread which called the library keeps running: the loops of
`ms3_readtracelist_selection()` and `mstl3_readbuffer_selection()` go on until they return.
In `library` weak fairness of `EmitPrint` and `EmitEnd` says the same of
`ms_rlog_emit()`: its latest call goes on whatever the print function does in between.
`EmitReturns` then has all calls return, the inner ones first; a call carries at least one message, so
as long as the messages logged are finitely many (`MaxLogged`) the calls are too. A print function
that logs and emits for every message it is given would never return.
In `pack_idle` the clock advances and the callers keep calling: weak fairness of `Tick`, of the
generator loop and of the calls of `mstl3_pack_ppupdate_flushidle()`. Nothing
is assumed about which segment a call looks at, and no call flushes.

## Proofs

The theorems hold for all values of the constants: record sets, tolerances,
flags, streams, chunkings, limits. The only assumptions without a name in a
theorem are `ConstantsAssumption`, `PackingAssumption`, `FormatAssumption`,
`ReaderAssumption`, `SkipAssumption`, `BufferAssumption`, `ExtraAssumption`,
`UnitsAssumption`, `CalendarAssumption`, `CharOrderAssumption`, `GlobAssumption` and
`SelectionAssumption`, which say what a record, a stream, an identifier,
a sample, an option, a header value, a unit, a date, a character, a string and a selection are; TLC evaluates them in the runs. A theorem that needs more says so in its statement.

### Trace list

| Theorem | Shows | Assumes |
|---|---|---|
| `TypeCorrect`, `SegmentsAreCounted` | types; `numsegments` is the length of the list | |
| `SegmentsStartInOrder` | segments are in the order of their starts, also after a merge that failed half way | |
| `FirstSegmentKept` | a merge never unlinks the first segment, so leaving `id->first` alone at lines 563-571 is safe | |
| `VersionsKeptApart` | with `splitversion` an ID holds records of its version or of version 0 | |
| `RatesAgree` | the records in a segment have its rate | `UserRateTol = 0` |
| `VersionIsLargest` | an ID has the largest version of its records that an `int8_t` holds | `WholeMerges` |
| `SegmentsStaySorted` | the full order: start, then longest first | `WholeMerges` |
| `ExtentStaysExact` | `earliest` and `latest` are the extent of the segments | `WholeMerges`, `FineTolerance` |
| `SamplesAreConserved` | a sample is in the segments of its source as often as records brought it | `IsFiniteSet(Records)` |
| `RecordListsMatch` | the record list of a segment, decoded in its order, gives the samples of the segment | `KeepRecordPtrs` |
| `SegmentsAreSeries` | a segment's samples are in strict order, at its ends where it says, and drift by half a period for each record boundary at most | `UserRateTol = 0`, `HalfTolerance`, `RegularRecords`, `KeepRecordPtrs` |
| `AlwaysHealed` | no two segments are left that continue each other | `WholeMerges`, default tolerances, `SteadyRates` |

Each assumption is where the code has its limits, not the proof:

- `WholeMerges`: no autohealing, or all decoded records have one sample type. A merge
  whose second half is refused returns without sorting, extent and version
  (`tracelist.c:557`), and what it skipped is then wrong.
- `UserRateTol = 0`: with a tolerance the comparison is turned round (`vio_rate_tol`).
- `FineTolerance`, `HalfTolerance`: a time tolerance of at most a period, or half
  of one as the default is. With more, a continuing record can begin before
  the end of its segment and move that end backwards.
- `RegularRecords`: a record with a rate has samples, at most one in a tick, and its
  data is what its header says, or not decoded. `KeepRecordPtrs` is there because the
  bound counts records by the record list.
- `SteadyRates`: one rate for each source. With two, the search stops at a segment
  of the same start and end although the record continues another (`tracelist.c:500`).

All of them hold in `trace_heal`.

The inductive invariant is `IInv == TypeOK /\ SegmentsCounted`; the starts are kept in
order step by step beside it, because packing will break them and keep the rest. That moving only the
changed segment restores the order (`SortInPlaceOrders`, from `MoveDownOrders` and
`MoveUpOrders`) holds only if the others were in order before. `FirstNeverMerged`
needs no step of its own: a record that fits before the first segment is
prepended by an earlier scenario, so the search does not see it (`SearchSparesFirst`).

Properties of single segments (`RatesAgree`, `VersionsKeptApart`, `SegmentsAreSeries`)
share one argument. `Closed` names what a set of segments has to be closed under, the
operations of `mstl3_addmsr()` on segments with the conditions of `Placement`, and
`ClosedStep` shows once that a closed set holds every segment of every reachable
list. A property is then a closed set: `SameRate`, `SameVersion`, `SeriesSegs`. For
the series the set says more than the property: the drift of every sample is
bounded from both ends, as a merge puts the later segment's first sample where
the earlier one's end is. Properties of the whole list of an ID
(`SegmentsStaySorted`, `ExtentStaysExact`, `AlwaysHealed`) rest on `AddToSegmentLeaves`,
`AddSegmentLeaves` and `MergeLeaves`, which say what the list is after a step in terms of the one before, up to
the place of the changed segment. `AlwaysHealed` shows that whatever could continue the
changed segment was either merged or not there: the shortcuts at
lines 408-487 need the extent to be exact, and the early end of the search needs all
segments to have one rate.

`SamplesConserved` compares two sums, over segments and over records. A sum is
`SumFunction` of the community modules, a fold, so what it does to one more summand has to be
shown first: `FoldExists` shows that the function a fold is defined by exists, by
induction over the sizes of sets as a set of numbers (`AllNat`), and `SumOnOut`, that any summand can be taken
out, is what everything else rests on. A weight is `Additive` if a segment weighs
what the parts weigh that it is made of. `AdditionBrings` says of every additive weight, once for all branches
of `mstl3_addmsr()`, that storing a record adds the record's weight to one trace ID of
its source and changes nothing else - also when the merge fails half way, and when the new segment
is sorted to another place (`WeighSorted`). How often a sample occurs is one
such weight (`HoldsAdditive`), the number of samples is another (`SizeAdditive`). `IsFiniteSet(Records)` is there because a sum
over an infinite set is none. `RecordListsMatch` is a closed set again, `Decoded`, once
`DataOfConcat` has shown that decoding two record lists one after the other gives
the samples of both.

### Trace list packing

| Theorem | Shows | Assumes |
|---|---|---|
| `PackInvariance` | an active record packer works on a segment of the list, with its samples, start and rate | `SamplesCounted` |
| `PackedSegmentsCounted` | `TypeOK` and `numsegments` also while packing trims and removes | `SamplesCounted` |
| `DoneMeansDrained` | a generator that says it is finished left no segment it could pack | `SamplesCounted` |
| `CompleteRecords` | only complete records before a flush | `SamplesCounted` |
| `StreamedAtTheirTimes` | each record is streamed at its own time, samples one period apart | `AlignedRecords`, `UserRateTol = 0` |
| `NothingIsLost` | a stored sample is in the list or in the stream, whatever fails | `IsFiniteSet(Records)`, `SamplesCounted` |
| `EachSampleOnce` | and in an unmaintained rolling buffer it is there once | as above, `Unencodable = {}`, `~FreeEarly` |
| `StreamIsFaithful` | `StreamFaithful`, its three parts together | `IsFiniteSet(Records)`, `AlignedRecords`, `UserRateTol = 0`, `Unencodable = {}`, `~FreeEarly` |
| `PackedOnce` | a generator that maintains the list and flushes packs no segment twice | `IsFiniteSet(Records)`, `SamplesCounted` |

`SamplesCounted` says that no record has more data than its count. `AlignedRecords` says that
records are decoded, that the starts of a source's records are a number
of periods apart and the tolerance is below a period; a sample time of a segment is computed from its
start, so with a drift in it a trimmed segment cannot have exact times. After an encoding error, and when a packer
is freed before its end, records already given are produced again by the next packer
(`tracelist.c:2316`), so `EachSampleOnce` leaves both out and `NothingIsLost` does not.
All these assumptions hold in `pack_rolling`; those of `NothingIsLost` and `PackedOnce` also
in `pack_errors`, with its errors.

`PackInv` is `IInv`, the same bound for segments, and `Packing`: packer, generator
and call agree on the position they are at, and the packer's template is the segment
there. Trimming and removing steps are summed up in `Thins` (every segment is a rest
of one that was there), adding in `AddMsrKeeps` and `ClosedStep` of the trace list.
For the times the closed set is `SpacedSegs`, segments whose samples are
exactly one period apart from `start` to `end`.

Samples are counted by `Balance`: how often a sample is in the list, plus how often it was streamed,
less what an active packer has taken from a segment that still holds it. `StepPays`
shows that no step makes the balance grow less than the records stored, and that it
grows exactly as much unless the list is maintained or a packer at work is freed.
The two theorems are what that says of a whole behaviour; for the second the invariant
`Careful` says that without errors and early freeing no packer is at work when
it is freed.

How far a maintaining packer has come is `Passed`, the number of samples in the segments before its place. `Once`
says that it has streamed no more than that and what its record packer has packed of the segment
it is at. When it moves on, that segment is before the new place (`PassedGrows`). When
records are added in between, what is before the place only grows (`AddOnce`),
for which the place must be where it was: that is where `KeptPlaceStays` is needed.

### Skip list

`LevelsLeadRight`, `SkipSpec => []SkipListSound`: for any identifiers, versions, heights, number of
IDs and of levels, each level leads through exactly the IDs high enough for it, in order and to
the end, and `mstl3_findID()` finds an ID exactly if one is listed.

A level is a `Chain`: every node of a set leads to the least one after it. `ChainInsert`
and `ChainRemove` are about chains alone, any strict order and any set of nodes. The inductive `SkipInv`
adds to the chains that the head is in all levels, that what is not in a level has no next
there, so that a search that leaves the list would end, and that IDs are `Distinct`:
by identifier and version with `splitversion`, by identifier without. That is why raising a version
moves no ID (`RaiseLinked`): without `splitversion` the identifiers alone order
the list, and with it the ID was found by the version it has.

The search is a recursive function, so it has to be shown first that there is one:
`SearchExists` is about any recursion that gets closer to its end, and `SearchCloser`
says that moving along a level leaves fewer IDs behind and dropping to the next
one counts more than all of them. `SearchFinds`, by the same measure, says what each place
of the search returns: an equal ID, or for every level below the ID before the
place of what is looked for. The place in the lowest level shows that there is no equal ID
(`PlaceIsFree`), and the places in all of them are where `AddLinked` links a new one.

### Samples of a segment

`SamplesStayKept`, `BufferSpec => []SegmentSamplesKept`: however the samples of a segment are
added, decoded or not, unpacked later, converted and trimmed, its buffer has room for them in the
type it says, and they are those of the records in their order, exact but for the rounding that
callers asked for and that a float is bound to. It assumes that a float tells quarters
apart (`FloatBits >= 2`; it has 24 bits in the code) and that the values of the records are in its range.

What a test would hardly reach is several conversions after each other: a value
rounded to a float, then to an integer, then to a float again could drift. So the
inductive `BufferInv` does not bound the error, which every conversion would widen, but names
the values a sample can have by now (`Reached`): the original, its float, its integer, the
integer of the one and the float of the other. The lemmas about the conversions show that this set is
closed: a float is its own float (`FloatProperties`), an integer its own integer, the integer of a
float is a float and the float of an integer an integer (`ConversionsOf`), and what `mstl3_convertsamples()` lets pass as no loss was none (`NothingLost`). That the
nearest float is within a unit, and that a unit below it divides it, comes from
`PowersDouble`, `PowersDivide` and `ExponentIsLeast`, by induction on the exponent. `ReachedClose`
then gives the bound of `ValuesKept`.

The other half of the invariant relates the samples to the record list: decoded at the time they
were added or all at once later, they are the values of the records behind each other.
`ValuesJoin` says what a record put in front or behind does to those.

### Reading

| Theorem | Shows |
|---|---|
| `ReaderTypeCorrect` | types of the file parameters and of the call |
| `BufferIsWindow` | the unread bytes in the buffer are those of the stream from `streampos` to the input, never more than `MaxRecLen` |
| `ReaderKeepsPromise` | `ReaderSpec => ReadsTheStream`, the reader implements `RecordStream` |
| `RecordsListedOnce` | every record returned is listed once, in order, at its position |
| `ListKeepsPromise` | `ListSpec => ReadsTheStream`, under the caller that fills a trace list |
| `SameRecordsAreListed` | reading the bytes from memory lists the records that reading them from a file lists, but for the very last one |

`BufferAligned` compares sequences; the inductive `ReaderInv` says it byte by byte
(`Window`) and adds that the counters agree on the number of unread bytes and that
those bytes exist in the stream. A step that moves the read position
(`AdvanceKeeps`) needs to know it moves within the buffer: a parsed record does
because `msr3_parse()` returns one only when it is all there (`RecordInBuffer`), and
skipping a byte does because parsing needs `MinRecLen` of them, which is positive.

The refinement compares parsing of what is buffered with parsing of up to
`MaxRecLen` bytes of the stream. A record found in the shorter one is found in the
longer, an error is an error in both, and where the shorter one asks for more the
loop goes on, except in the cases of `Torn`. `Steady` is the part of the invariant that relates
reading to the end of the input: what the reader takes for the end of the stream
is the end. `FormatAssumption` asks for room for a header behind the place where the
search for the next one is, `ScanStep + MinRecLen <= MaxRecLen`; it is 64 + 40
against 10485760 in the code.

`SameRecordsListed` compares two readings from beginning to end that share no state:
the file reader sees a buffer that grows in pieces, `mstl3_readbuffer_selection()` all that is left.
What they have in common is a function of the stream alone, the `Chain`: position 0, and
behind each record of the chain the next position. It is the least such set, since a
definition by recursion would be out of the provers' reach; that nothing lies between
a record and the next position (`ChainGap`) follows from its being least. The inductive
`SameInv` says of each reader that it is in the chain, has passed records only, and has listed
exactly the positions that are asked for up to where it is (`UpTo`). Two such lists are one a
prefix of the other (`OneIsPrefix`), and equal if both readers are at the same place (`UpToSame`).

- *Parsing a part.* A record found in the buffer is the one found in all that is left
  (`PartRecord`), unless the end of the file told its length. So the file reader is either
  in the chain (`Straight`) or at the end of the stream with one record more than
  the chain has, of a length nothing behind it tells (`AtTail`).
- *At the end.* The memory reader stops where the chain stops or at `MinRecLen` bytes. If neither failed,
  the lists are equal or the file's has the one last record the property allows.
- *An assumption.* Proving it asked for one more part of `FormatAssumption`: no power of two from
  `MinRecLen + 1` to `FixedLen + BlktLen - 1`, which is 41 to 55 in the code. A file that ended
  after such a number of bytes of a 2.x header would give a record to the file reader whose
  length the header does state, behind what was read of it.

### Logging

`MessagesAreKept`, `LogSpec => []MessagesKept`: the registry's count is exact, every
message is in one place (listed, waiting to be printed, delivered, popped or
dropped) and only the oldest are dropped, whatever the print function calls in the
middle of `ms_rlog_emit()`, further calls of it included. The inductive `LogInv` adds that
the messages of the registry are in the order they were logged, that no message waits twice,
that two calls carry none in common, and that what a call has done is printed: then each
call, when it returns, takes from the count what it has carried itself.

### Extra headers

`HeadersStayKept`, `ExtraSpec => []HeadersKept`: whatever sequence of calls is made, with a parse
state or without, for any headers, pointers, values, merge patches and limit of the text. What
is read is what was set last; once it is serialized or the parse state is gone the record has
what callers were told, and its text fits.

`ExtraInv` says it of every copy that is there: the text when there is no
parse state, else the document to read, the document to change, and both are equal when
both are there. "Is what was said" is `Same`, the same paths with values that are written alike, because
a document that went through the text has other types of numbers and less
precision than the one the caller set. So every operation has to be shown to keep `Same`:
`SetAlike`, `AppendAlike` and `MergeAlike` say that documents that are written alike are
refused alike and changed alike. That holds because whether a change is possible depends on
which values are objects and arrays, and writing tells these from the rest
(`WrittenFacts`). A parse state without a document stands for a record without
headers (`Working`). That writing is idempotent (`WrittenDocument`) is needed where a call without a parse
state serializes at once, also after a change that was refused.

### Patterns and selections

`PatternsAreMatched`, `GlobSpec => []GlobMatchesMeaning`: for every string and every pattern
`ms_globmatch()` ends and decides as trying every way to match does, although it goes back to
the last star only and skips ahead to the literal after it.

The loop and the reference are both defined by recursion, so first it is shown that there are such functions
(`Recursion`: if each value depends on one of a lower rank, by induction over the ranks as a set of
numbers). The reference has a row for each place in the pattern, the positions in the string from which
the rest matches (`MatchingIs`, `StarsMean`). The loop has an invariant about those rows:

- `CanMatch`: the rest matches from here, or the last star can take more. A turn keeps it or
  returns what it says (`TurnDecides`).
- `Aligned`: the pattern between the last star and here takes as many characters anywhere, so wherever
  it matches further on, the place reached is as far from there. That is why earlier stars need not
  be tried again: what they could reach is covered when the next star is met.
- `StarAtSafe`: the literal that is skipped to is not passed over by any match.
- `Rank` bounds the turns that are left: a turn returns, or goes on behind a later star, with more for the last
  star, or further on in the string, in this order (`TurnGoesOn`, `RankFalls`).

`SelectionsAreUnions`, `SelSpec => []SelectionIsUnion`: however a list was built, from patterns, codes and
files, also files that end in an error, data are selected exactly if an entry that was added covers
them, and the entry returned is one of those. `SelectionInv` says that the list holds the entries added and no others
(`Held`), each with the pattern that fits into the buffer (`Patterns`, `CutPatternIs`), which `AddSelectAdds` shows for both cases, a new window of a listed pattern and a new pattern, and
`FileAdds` for a file, line by line; the order of the list does not matter to it. `OverlapIs` shows that a window is passed over exactly
if no time is in both, for which `SelectionAssumption` has data end at or after their start; a match is what the pattern
means by `PatternsAreMatched`. The theorem is the first part of `SelectsAsAsked`.

`SelectionsAreAsAsked`, `PlainCodes => (SelSpec => []SelectsAsAsked)`, adds the second part: data that are
not selected have codes that match none of the selections by codes. `ms3_addselect_comp()` joins the codes
to one pattern (`PatternIs`, whether or not it converts the channel before `ms_nslc2sid()` does), and strings
that match patterns, joined, match the patterns joined (`JoinMeans`, by induction over the places in the second pattern, then
in the first); so an identifier matches if each of its codes does (`CodesMeet`).
This does not hold for all codes: one that ends in a backslash takes the separator behind it for a literal,
one with an open `[` what comes after it, blanks are left out and what is beyond 19 characters is cut. So the theorem has
a hypothesis, `PlainCodes`: codes without these, with or without the wildcards `?` and `*`, and identifiers that are
made of their codes. `MCLibrary` states it as an assumption, so TLC evaluates it on the instance of the run.

### Dates

`CalendarStaysExact`, `CalendarSpec => []CalendarExact`, for any units below the day and the calendar
of the code: `ms_time2nstime()` gives for every valid date in the range of an `nstime_t` the
instant a count of days, leap year by leap year, gives; `ms_nstime2time()` names a valid date
of exactly the given instant; `ms_md2doy()` and `ms_doy2md()` are inverse to each other.
`CalendarSpec` is the calendar's part of the calls of the `library` run. `CalendarAssumption` has times
begin with 1678, since dates do (`VALIDYEAR`; the last weeks of 1677 are in the range of an
`int64_t`, but no date), and end where the `int64_t` does.

- *Days into years.* `YearTypes` and `LeapsStep` show that the count of days before a year grows by the
  length of the year, `YearsBounded` that n years have 365 to 366 days each. So there is exactly one year
  a day is in (`YearOfDay`), and the loops of `ms_gmtime64_r()` find it, forward and back
  (`YearsForwardIs`, `YearsBackIs`). Cycles of 400 years taken off first change nothing (`CyclesAlike`),
  and a start in 2008 does not either (`DayOfIs`).
- *Years into days.* The reference counts a set of leap years; `LeapYearsCounted`
  shows by induction what its cardinality is. `EpochDaysIs` shows that the shifts and divisions
  of `ms_time2nstime_int()`, with their corrections, come to the same, and `FitsInt64` that the
  result is not cut.
- *Below the day.* Division truncates, so before 1970 each part may be negative and borrows from the
  next (`Truncated`, `Borrows`); with the split of the nanoseconds (`SplitTimeIs`) the parts are those
  of the floor (`GmtimeIs`).
- *Months.* `DaysBeforeIs` and `MonthsFollow`: the days before a month grow by its length.

### Only model-checked

- Liveness (`IdleFlushed`, `ListingEnds`, `EmitReturns`): fairness and `ENABLED` are out
  of the prover's reach.
- `TimeStringsReadBack`, `IdentifiersKept`, `EncodingsExact`, `RecordsReadAlike`,
  `SamplesPackedAsAsked`, `HeadersReadBack`, `RawCheckAgrees` and `RepackKeepsRecord`: what they compare
  is computed by recursion over strings, frames, blockettes and samples.

## Observed and not part of a run

Reading the code for the models brought up the following. No property states
it, or a property leaves it out and says so.

Trace lists:

- versions of 128 and more are negative as `int8_t` (`tracelist.c:327`) and do
  not raise the version of an ID, which `PubVersionLargest` allows;
- with `splitversion` a record of version 0 matches any ID (`tracelist.c:330`), which
  `VersionsSeparate` allows;
- the version of an ID is raised in place (`tracelist.c:636`): in a list filled
  with `splitversion` at one time and without it at another the IDs of a source can get
  out of order and a version is then not found;
- `mstl3_addID()` without previous pointers looks for them without the version
  (`tracelist.c:249`): another version of a listed identifier is put before it, or
  linked in its upper levels only before the call fails;
- the search for a segment stops at one with the same start and end whatever its
  rate (`tracelist.c:500`; the comment above it says the record fits nowhere else);
- a merge refused in its second half returns NULL although the record is in
  the list (`tracelist.c:557`);
- a time tolerance of more than a period can move a segment's end backwards
  and leave `latest` too late, so `ExtentExact` is checked with the default
  tolerance only;
- `mstl3_convertsamples()` to integers fails at the first fraction with the samples
  before it converted in place under the old type (`tracelist.c:1430`); a negative
  fraction is not taken for a loss;
- `mstl3_unpack_recordlist()` into the caller's buffer sets the type of the
  segment although its own samples may have been converted (`tracelist.c:1896`); it refuses
  a record without an encoding, which `msr3_unpack_data()` takes for Steim-1.

Packing a trace list:

- packing moves starts without restoring the order of segments or the extent of
  the ID (`tracelist.c:2240`);
- `mstl3_pack_segment()` leaves an emptied segment in the list;
- the total of `mstl3_pack_free()` leaves out the active segment;
- after an encoding error the records already returned for the segment are
  produced again by the next packer (`tracelist.c:2316`);
- with `MSF_MAINTAINMSTL` and without `MSF_FLUSHDATA` the generator can start
  over on what it has packed;
- with `MSF_MAINTAINMSTL` the generator can return 0 with its place kept, when only segments
  without samples are left, and invites the caller to add data (`tracelist.c:2472`); if that
  merges the segment it points at into another one, the pointer is to freed memory. `KeptPlaceStays` leaves such
  additions out.

Reading:

- with selections, decoding is deferred and `MSF_SKIPNOTDATA` does not skip a
  record that cannot be decoded (`fileutils.c:424`);
- when no record matches the selections the end of a stream of valid records is
  reported as `MS_NOTSEED` (`fileutils.c:524`);
- a reader made by `ms3_msfp_init()` for a descriptor ignores its start offset
  (`fileutils.c:109`);
- `mstl3_readbuffer()` passes over a last record of exactly `MINRECLEN` bytes
  (`tracelist.c:921`) and one whose length only the end of the data tells.

Records:

- `msr3_repack_mseed2/3()` copy a payload of fixed width as it is (`pack.c:676`,
  `906`), although version 2 is written big-endian and version 3 little-endian;
  `msr3_repack_mseed2()` compares with the buffer, not with the record length;
- `msr3_data_bounds()` looks for empty frames at the end of the data without
  adding their offset (`unpack.c:1136`);
- the wave flag of a Murdock detection is inverted by a round trip
  (`unpack.c:499`, `pack.c:1437`), a blockette 395 is read as a type that packing refuses
  (`pack.c:1550`), a negative time correction loses a tenth of a millisecond;
- the sample count of a version 2 record is cast to 16 bits (`pack.c:511`);
- `ms_parse_raw2()` does not look at a chain whose first link is below 48 or past
  the record (`parseutils.c:803`), and loops on an unknown blockette that is linked to
  itself (`parseutils.c:836`).

Conversions, headers, selections, messages:

- an epoch string of a time within a second before 1970 has no sign; `NSTERROR`
  and `NSTUNSET` are valid times in 1902; day 0 of a month is accepted (`genutils.c:180`);
- a selection by codes is one pattern (`selection.c:378`): a star in a code may take in separators
  and codes behind it, and a channel of three characters has one for each part, so `*Z*` does not
  select `BHZ`;
- `ms3_readselectionsfile()` compares a time with `NSTUNSET` where the conversion
  returns `NSTERROR` (`selection.c:554`), so a wrong time is taken;
- without a parse state `mseh_set_ptr_r()` does not look at the result of
  `mseh_serialize()` (`extraheaders.c:612`); the type of a header that is only in the
  parse state is not found when the record has no text (`extraheaders.c:159`);
- patterns of 100 bytes and more and codes of 20 and more are cut without an error
  (`selection.c:258`, `324`);
- 24-bit GEOSCOPE samples in little-endian order come out wrong
  (`unpackdata.c:661`): their three bytes are put one place too high in the integer;
- `ms_rlog_free()` from the print function during `ms_rlog_emit()` makes the count
  negative;
- `ms_sampletime()` adjusts for the first leap second of a span only
  (`genutils.c:1785`), and a leap second file with an error leaves a partial list.

## Not modelled

Leap seconds; sockets, libcurl, opening, closing and writing of files; printing and
the wording of messages; allocation, duplication and exhaustion of memory; the
arithmetic of the checksum and of doubles; parsing and writing of JSON text in `yyjson.c`
(third-party code); the tables of `lookup.c` that hold texts.

## Plan

Done: all parts are modelled; the trace list, its packer, its skip list and segment buffers, the reader with its refinement, the
filling of a trace list from a file and from memory, the samples of a segment, the calendar, patterns and selections, extra headers
and the log registry have proofs. Left, in this order:

1. `TimeString` and `SourceIdCalls`: that times and identifiers read back. Both are
   recursions over the characters of a string and need a lemma for each place in it.
2. `RecordPacker` and `RecordUse`: that a record reads back as it was packed, frame by frame.
