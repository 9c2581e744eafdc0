# Specifications of HdrHistogram_c

TLA+ models of HdrHistogram_c, TLC runs that check them on small instances, and
TLAPS proofs of the properties that matter most for every instance. Paths below
are relative to the repository.

## The system

HdrHistogram_c counts 64 bit values in an array whose cells cover ranges of
values of a bounded relative width. The library has a histogram with plain and
with atomic recording, a recorder that lets threads record while others take
samples of an interval, and a log format to store histograms in.

| Component | State | Operations |
|---|---|---|
| Writer-reader phaser (`hdr_writer_reader_phaser.c`) | `start_epoch`, `even_end_epoch`, `odd_end_epoch`, `reader_mutex` | `writer_enter`, `writer_exit`, `reader_lock`, `reader_unlock`, `flip_phase` |
| Interval recorder (`hdr_interval_recorder.c`) | `active`, `inactive`, a phaser | eight record calls, `sample_and_recycle`, `sample`, `init_all`, `destroy` |
| Concurrent recording (`hdr_histogram.c`, `hdr_atomic.h`) | `counts`, `total_count`, `min_value`, `max_value` | `hdr_record_values_atomic`, `hdr_record_corrected_values_atomic` |
| Histogram layout (`hdr_histogram.c`) | the bucket configuration, constant once computed | value to index, index to value, equivalent ranges, `hdr_calculate_bucket_config` |
| Sequential histogram (`hdr_histogram.c`) | the fields above | `hdr_init`, `hdr_close`, `hdr_reset`, `hdr_record_*`, `hdr_add*`, `hdr_reset_internal_counters` |
| Iterators, percentiles (`hdr_histogram.c`) | position, cumulative count, reporting level | five iterators, `hdr_value_at_percentile(s)` |
| Binary encoding (`hdr_encoding.c`) | none | ZigZag LEB128, base64 |
| Codec (`hdr_histogram_log.c`) | buffers, a zlib stream | `hdr_encode_compressed`, decoders of V0, V1, V2 |
| Log reader and writer (`hdr_histogram_log.c`) | the parse state, a `FILE` | header, `hdr_log_write*`, `hdr_log_read*` |
| Threads, time, byte order, allocator names, the log stub, examples, tests | | wrappers and programs around the above |

How they interact. A record call of the recorder enters the phaser, loads the
active histogram, records into it with a function of `hdr_histogram.c`, and
leaves the phaser. A sampler resets or allocates a histogram, takes the mutex of
the phaser, exchanges the active pointer, flips the phase, which waits for every
writer that may still hold the old pointer, releases the mutex and returns the
old histogram. The log writer encodes a histogram (counts to LEB128, zlib,
base64) and the reader does the reverse, merging into a histogram of its caller
with `hdr_add`. There are no callbacks except the function pointer of an
iterator, and nothing is persisted except by the log writer.

What is hard, and what makes each component correct:

* Phaser: the order of its four memory operations against the single atomic
  additions of any number of writers. Correct when a flip waits for exactly the
  writers of the phase it ends, and ends although others keep entering.
* Recorder: who owns a histogram at each moment, and that a sampled histogram
  is finished. Correct when recording and sampling look atomic, no histogram is
  lost, duplicated, written to by a writer that is late, or leaked.
* Concurrent recording: four separate updates per value and two
  compare-and-exchange loops. Correct when no update is lost, the extremes
  cover what is counted, and the fields agree again when all calls have
  returned.
* Layout: boundaries of buckets, powers of two, the limits of 64 bits. Correct
  when every trackable value has an index in range and the ranges of the
  indexes partition the values.
* Sequential histogram, iterators: boundary cases, and agreement of
  `total_count`, `min_value` and `max_value` with the counts.
* Encoding, codec, log: inverse functions, refusal of malformed input, release
  of memory on every path.

`PROJECT.json` lists these hazards at their lines, with the properties that
cover them, or the reason why none does.

## Plan

The order puts what tests reach least first.

1. `WriterReaderPhaser` over `PhaserContract`, with proofs. *Done.*
2. `IntervalRecorder`, composed with the phaser, over `IntervalContract`, with proofs.
   *Done.*
3. `AtomicHistogram`, with proofs. *Done.*
4. `HistogramLayout`: the index arithmetic as operators with a configuration as
   parameter, and `LayoutWalk`, which checks them for every value, with proofs. *Done.*
5. `Histogram` over `HistogramContract`: one action per operation of the
   sequential histogram, with the layout; a histogram is a bag of rounded
   values, with proofs. *Done*, but for failing allocations and `hdr_close`.
6. `Iterators`: each iterator as a state machine over a histogram that may be
   recorded in meanwhile, and the lookups by percentile, with proofs. *Done*, but for the
   floating point over them (mean, standard deviation, printing).
7. `Encoding` and `Codec`: ZigZag LEB128 over a narrow word, base64 over small
   sequences, the encoder and the decoders of all three versions. *Checked*.
8. `LogFormat`: writer and reader over a file of characters, with torn writes,
   crashes and failures of memory. *Checked*.
9. More proofs: the iterators, the encoding of numbers and bytes, the refinement
   `ImplementsBag`. *Done*. Left: the codec and the log.

Recursion in the modules to be proved about is written as recursive functions or
folds.

## Modules

### WriterReaderPhaser

State: `start_epoch`, `end_epoch` (both fields of the struct, indexed by the
phase they count), `reader_mutex`, and the locals of each thread:
`critical_value` of a writer, `next_phase` and `start_value_at_flip` of a flip.
`wpc` and `rpc` say where each thread is. Actions, one per memory operation:

| Action | Code |
|---|---|
| `WriterEnter`, `WriterExit` | lines 71-82 |
| `ReaderLock`, `ReaderUnlock` | lines 84-92 |
| `FlipReadStart` | line 102, the phase from the sign |
| `FlipClearEnd` | lines 106-117 |
| `FlipExchange` | line 120 |
| `FlipPoll` | lines 122-142, a poll that finds the epochs equal; one that does not changes nothing |

A word of 64 bits is a word of `2 * HalfRange` values: the even phase starts at 0
and the odd one at `-HalfRange`, and `AddFetch` wraps as the machine does.
`MaxEnters < HalfRange` bounds the writers that enter in one phase: in the code
2^63 of them would have to, at one per nanosecond in 292 years.

`PhaserContract` is what a user relies on: writers inside, one flip at a time,
and a flip that returns only when everybody who was inside when it switched
phases has left. `ImplementsContract` is the refinement.

* `NoStragglers`: when no flip is between its exchange and its end, every writer
  inside entered in the current phase.
* `EpochAccounting`: the distance between a phase's epochs is the number of its
  writers inside, so a poll can neither pass too early nor starve.
* `FlipTerminates`: a flip that has begun completes.

### IntervalRecorder

Extends the phaser and conjoins its actions: `RecordEnter` is `WriterEnter` and
the bookkeeping of the call, `Flip` is one step of the flip. State: `active`,
`inactive`, the contents `cells` of every histogram, the set `live` of those
allocated, and the locals of every call. A histogram has a cell for each value
and one for `total_count`; a record call is the sequence of cells it updates,
atomically (`RecordAdd`) or by a read and a later write (`RecordRead`,
`RecordWrite`) as in the calls that are not atomic, which the header leaves to a
single writer. `SampleNull`, `InitNew`, `Reset`, `SampleLock`, `LoadActive`,
`StoreActive`, `Flip`, `SampleUnlock` and `SampleReturn` are the lines of
`hdr_interval_recorder_sample_and_recycle` in order; `SampleInactive` and the
`via_sample` branch of `SampleReturn` are `hdr_interval_recorder_sample`;
`Destroy` and `CallerClose` end the life of histograms.

* `SoleOwner`: every allocated histogram has exactly one claim on it - it is
  active, waits in `r->inactive`, is held by a call, or belongs to a caller - and after
  `destroy` only what callers hold is allocated.
* `WritersStayOut`: a writer only updates the active histogram or one whose
  sampler is still flipping.
* `HandedComplete`: a histogram that a caller reads has a `total_count` equal to
  the sum of its counts.
* `ImplementsInterval`: `IntervalContract` has atomic `Record` and `Sample`
  operations. A record takes effect when it loads `active`; a sample when it
  stores the new pointer, from when on the sample is what the old histogram will
  hold once its writers have left.
* `SampleCompletes`: a sampler with the lock returns, and when some sampler
  waits some sampler gets on.

### AtomicHistogram

One histogram, any number of threads in the two `_atomic` calls. Each atomic
instruction is an action: `AddCount`, `AddTotal`, `LoadMin`, `CasMin`, `LoadMax`,
`CasMax`; a corrected call goes round again from the last one (`NextValue`).
Each value has a count of its own, since which values share one is the business
of the layout. `issued` is a history variable: what the calls so far are to
count, by the definition `Recorded` and not by the loop.

* `QuietExtremes`: when no call is under way the extremes are exact. Its proof rests on
  `ExtremesCover` (what is counted is between the extremes, or a thread is on its way to
  make it so) and `ExtremesRecorded` (an extreme is a value that has been counted).
* `ExtremesWiden`: no step narrows them.
* `QuietCounts`: when no call is under way the counts are what was asked for, missing
  values included; at any time `total_count` trails them by exactly what is under way.
* `CallsReturn`: every call returns.

### HistogramLayout, LayoutWalk

`HistogramLayout` has an operator for each function of lines 187-305 and 361-430,
named like it, over a configuration record `c` with the fields of
`hdr_histogram_bucket_config`. Shifts are products and quotients of powers of 2,
and what may leave the word is wrapped to `WordBits` bits: `lowest * 2`, the mask,
and the upper bound of the last range. `Pow2` and `Pow10` are recursive functions and
not `2^n`, of which the provers know nothing. `BitLength` is the complement of
`count_leading_zeros_64`, so the bit length of a disjunction is a maximum. The
loop of `buckets_needed_to_cover_value` doubles the same number in each round, so
`BucketsNeeded` says which round is the last: the first one that covers the value, or
that returns early because doubling would leave the word; a loop that would not end
yields more buckets than there are bits. `UnitMagnitude` rounds up where `log()` on doubles
does (`LogBits`).

`LayoutWalk` picks a configuration out of those that are not rejected and walks
through the values from 0 to the highest trackable one. `WalkAssumption` has the words
wide enough for the figures asked for (`2 * power(10, f)` is computed in one), as those
of 64 bits are for all five.

* `ConfigTypeOK`: no field leaves its type, and the loop has ended.
* `IndexInRange`: the array is large enough for every trackable value, and no bucket
  larger.
* `RangesAreExact`: value to index and index to value are inverse up to
  equivalence, and the lowest and highest equivalent values are where the index
  changes, by one.
* `Precision`: what the header promises of `significant_figures` and of
  `lowest_discernible_value`.

`LayoutWalk` also sends each value, and its negative, through `Encoding`:

* `NumbersSurvive`: a number comes out as it went in, whichever bytes follow it, and
  the decoder reads the bytes that the encoder wrote.
* `BytesSurvive`: so do bytes through base64, for every length modulo 3.

### Recording, Histogram

`Recording` has what the code does to the fields of one histogram as operators, for
`Histogram`, `Iterators`, `Codec` and `LogFormat`: the recording calls, `hdr_add`,
`hdr_reset_internal_counters`, `hdr_min`, `hdr_max`.

`Histogram` makes actions of them. `hist[h]` has the fields `counts`, `total_count`, `min_value`,
`max_value` and `normalizing_index_offset` of the struct, `config[h]` those that
never change; `counts` is a bag of indexes, an index without a count not being in
it. `returned` is what the last call returned, and the history variable `call`
which one it was.

| Action | Code |
|---|---|
| `Record` | `hdr_record_value(s)`, and with an interval the corrected calls, which record the missing values until one is refused |
| `Add` | `hdr_add`, and with an interval its correcting variant: a walk of the recorded iterator over `from`, whose counts are read while those of `h` change |
| `ResetInternalCounters` | `hdr_reset_internal_counters`, which reads counts without the offset |
| `Reset` | `hdr_reset` |

An interval of 0 is a call without correction: `hdr_record_corrected_values` then
does what `hdr_record_values` does. The offset is 0 or one that a decoder left in
an empty histogram, and is within the array: the decoders do not check that, but no
encoder has written another one. The missing values are the multiples of the interval
below the value, which the loop goes through in this order.

`HistogramContract` has a bag of values for each histogram and no indexes. It
rounds a value by division and not by buckets: `Steps` are the resolutions of a
histogram, and each is used for the values below `SubBuckets` times it. It states the
values a corrected call stands for as a set and not by a loop (`Filled`), and what a
whole bag of calls stands for at once (`RoundAll`). Since `call` is part of it, an
operation must do and return what the same operation of the contract does.

* `ImplementsBag`: that refinement. The contract says what the code does, also where the
  header says otherwise: `hdr_add` drops what is above the range of its target and nothing
  below it.
* `AddDropsOutside`: what the header says of the values that an addition drops. It does
  not hold, see Disagreements.
* `TotalIsSum`: `total_count`, which ends the walks of all iterators, is the sum of
  the counts.
* `ExtremesAgree`: `hdr_min` and `hdr_max` report the ranges of the lowest and
  highest count, after recording, adding and a recount in any order; for offset
  0, since a recount ignores the offset.

### Iterators

One histogram `c`, `s`, one iterator `it` with the fields of `struct hdr_iter`, and
`kind`, which iterator it is and with which arguments. `NextAll`, `NextRecorded`,
`NextLinear`, `NextLog` and `NextPercentileReport` are one call of `hdr_iter_next`
each, `RecordMeanwhile` a recording between two calls, and `Lookup` asks
`hdr_value_at_percentile`, with the scalar and with the AVX2 scan, and
`hdr_value_at_percentiles` for the same list. The linear and the logarithmic iterator
differ in how the level is raised only and share `LevelIterNext`; the loops over
`basic_iter_next` have the shape of `MovedUntil`. Percentiles are exact fractions.

* `EveryCountOnce`: what the steps report adds up to what was walked past, also when
  values are recorded meanwhile; at the end that is everything.
* `StepsCountTheirRange`: a step counts the values between its two bounds.
* `PercentileIsLeast`, `PercentilesRise`: a percentile is reported with the least value
  that is not below it, and each level once.
* `LookupsAgree`: the three lookups agree with each other and with the definition.
* `EndsUnlessWrapped`: every iteration ends whose reporting level stays in the word; for
  the others see Disagreements.

The number of counts is a multiple of 16 for every configuration, so that the AVX2 scan
never reaches its tail (lines 748 to 757); what it has to get right is where it stops inside four
counts.

### Encoding

`hdr_encoding.c` without state: groups of `GroupBits` bits of a word of `WordBits`, the
last byte holding one bit more (`WordBits = GroupBits * MaxBytes + 1`, as
64 = 7 * 9 + 1), and base64 with three bytes for four characters of any alphabet of the
right size. A character that is not in the alphabet is the digit `EINVAL`, as in the
code.

### Codec

A histogram is a record of its configuration and its fields. The text that goes into
zlib is a record of the fields of the flyweight, and the counts as bytes (version 2) or
words (versions 0 and 1). zlib is external: it gives each text a stream, inflates a
buffer that begins with one, and fails otherwise. A buffer is a cookie, a length and a
stream, all bytes. `EncodedText` is `hdr_encode_compressed` with its runs of zeros;
`DecodeV0`, `DecodeV1`, `DecodeV2` have the checks of the code in their order, and
return the result, the histogram, and the blocks that are allocated when the cleanup
begins. `LeftBy` is what the cleanup neither frees nor hands over, and `Merged` the
caller's histogram afterwards. `EncodeHeld`, `EncodeFreed` and `EncodeLeft` say the same of
the encoder. Words of one byte are numbers as in version 2, of which versions 0 and 1 ignore
whether they could be applied.

### LogFormat

The file is a sequence of characters, and `position` the next one to read, so that a
call that gives up leaves the next one where the code leaves it. A name that is printed
whole and scanned whole (a version, "StartTime", the names of the columns) is one
character.

| Action | Code |
|---|---|
| `WriteHeader`, `ReadHeader` | `hdr_log_write_header`, `hdr_log_read_header` with its buffer of limited length |
| `WriteEntry`, `EncodeFails` | `hdr_log_write_entry`; `hdr_log_write` is the same without a tag |
| `ReadEntry`, `ReadNoEntry` | `hdr_log_read_entry`, with an entry and without; `hdr_log_read` is the same without a buffer for the tag |
| `LogEncode`, `LogDecode` | `hdr_log_encode`, `hdr_log_decode`, each with what may fail in it |
| `WriteForeign` | another program that writes the log, in any version of the encoding, or a malformed one |
| `Crash`, `Open` | the writing program dies and loses any part of the end of the file, or ends |

`Printf` may fail after any part of the text, after which the caller goes on. A caller
takes each histogram it reads, or keeps one to merge them all into.

* `ReadsInOrder`: whatever was cut off, every histogram that is returned is that of a
  line, and in the order of the lines; up to the damage with its tag and times.
  `hdr_log_decode` inverts `hdr_log_encode`.
* `AllReadAtEnd`: a reader that is told EOF has got every line in front of the damage.
* `HeaderReadable`: the reader accepts the header of the writer and its time.
* `TargetIsSum`: the target of merging is what it held and what was read, and nothing
  of what was refused.
* `ErrorsLeaveNothing`: of the calls that fail, of reading, writing, encoding and decoding,
  two leave something allocated, and that is the buffer for base64: a read without an
  entry, and one whose `realloc` fails. All others have freed what they allocated, wherever
  they gave up.
* `ReadingEnds`: whoever reads on until EOF gets there.

## Runs

| Run | Instance | Shows |
|---|---|---|
| `phaser` | 3 writers, 2 readers, `HalfRange` 5, `MaxEnters` 4 | all properties of the phaser and its contract |
| `recorder_plain` | 1 writer with plain updates of a corrected pair or a value out of range, 2 samplers, 3 histograms | whole samples, the interval contract, completion |
| `recorder_atomic` | 2 writers with atomic updates, a thread in `sample` and one in `sample_and_recycle` that closes what it gets, 3 histograms, failing allocations, `destroy` | writers stay out, ownership, no leak |
| `recorder_closed` | 2 samplers that pass NULL and close | *violated*: the configuration of a closed histogram is read |
| `recorder_enomem` | `hdr_init` may fail | *violated*: a call returns NULL |
| `atomic` | 2 threads, 4 calls, 7 different calls | all properties of concurrent recording |
| `layout` | 198 configurations in 13 bits, every value | all properties of the layout and of the encoding |
| `histogram` | a fine and a coarse histogram of 9 bits, 5 values, up to 3 counts each | all properties of the sequential histogram and its contract |
| `histogram_lowest` | the same | *violated*: an addition takes in what is below the range of its target |
| `iterators` | 30 histograms of 10 bits, 12 iterators and lookups, one recording meanwhile | all properties of the iterators |
| `log` | logs of 2 lines out of 11 after 3 headers, 3 readers, 1 fault | all properties of the codec and the log |
| `log_leak` | logs of 1 line | *violated*: merging leaves memory allocated |

Why the bounds are enough. Of the writers one is caught by a flip and one enters
after it; a third only adds to one of the two groups. Two readers compete for the mutex and
flip in turn. Plain updates allow one writer, so in `recorder_plain` a late writer and one
of the new phase are different calls of one thread; `recorder_atomic` has both at once, and
the refinement is proved for any number.
`MaxEnters` bounds one phase and not the run: a run has any number of phases, so
both phases come round, and epochs start again, without end. Three histograms
let two samplers work beside the active one; a fourth would only wait. Two
threads make an exchange fail, and four calls make it fail again on the retry.
Values are chosen so that they pass each other on the way up and down, zero
included, and intervals so that they divide the value, do not, exceed it and are
negative. Symmetry is used in safety runs only.

A word of 13 bits has what one of 64 has: the arithmetic of the layout depends on
the distance between bit lengths and on the ends of the word, and the lowest and
highest values of the run are 1, powers of 2 and their neighbours, values between
them, and the largest of the word, where the loop of the buckets returns early and
the bound of the last range wraps. One or two significant figures are what fits
13 bits; 0 is rejected. Thirteen bits are four groups of 3 and one more, so that numbers
have every length, and bytes of 4 bits make base64 digits of 3. In `histogram` the fine histogram tracks the whole word of
9 bits in four buckets, the coarse one up to 150 with a unit of 4. So adding
rounds, drops, and takes in 151, which the coarse one refuses to record, as the
144 it is kept as in the fine one; 3 is not 0 but counted at index 0 there. The
interval of 85 divides 255, so that the last missing value is the interval itself.
The run has a `VIEW` without `call`, which no step reads.

The histograms of `iterators` are empty, have counts at their first and last index, in
one bucket and in several, with a unit of 1 and of 4, with and without an offset, and at
the end of the word, where levels wrap; steps divide the ranges, do not, and exceed the
values. One recording meanwhile, ahead of the iterator or behind it, is what the next
`has_next` sees; a second one adds nothing that it compares.

In `log` a line is followed by another one, which is where a reader that gave up goes
on; a third line would find it in the same position. The one fault falls on every
character of every line and header, and on every allocation; a tear needs no second
one to be followed by whole lines. Characters are few: times have one decimal
(`Second` 100, `Shown` 10, so that they are rounded both ways and up to the next second),
`HeaderLineLength` is 10 and `Capacity` 6, so that headers fit and do not, and base64
makes the buffer grow. Letters of "Tag=" and digits are in the alphabet of base64, so
that what is left of a torn line may look like the beginning of another. The lines of
other programs cover versions 0 and 1, words, an offset, counts that end with the array,
and each way to be malformed that the decoder looks for behind the cookies.

`CHECK_DEADLOCK FALSE` is set where the system may stop: after `destroy`, after
a writer or a sampler has dereferenced a NULL histogram, when all calls of `atomic` have
been made, at the end of a walk, of an iteration and of a log.

### Disagreements

* `recorder_closed`: the header says of `sample_and_recycle` that "it is safe
  when used from callers in multiple threads". With a NULL argument it reads
  `r->active->...` before it takes the lock (`hdr_interval_recorder.c:58`), and
  another sampler can meanwhile be handed that histogram and close it.
* `recorder_enomem`: the result of `hdr_init` is ignored at line 61. NULL becomes
  the active histogram and a later call returns it, though the header promises
  "the histogram that was previous being recorded to".
* `log_leak`: "the histogram should be released with hdr_close" (`hdr_histogram.h:46`),
  but the decoders release their temporary histogram with `hdr_free` after merging it
  (lines 454, 559, 661), which leaves its counts allocated.
* `histogram_lowest`: the header says of `hdr_add` and of its correcting variant "Values
  will be dropped if they around outside of h.lowest_discernible_value and
  h.highest_trackable_value" (`hdr_histogram.h:228` and `240`), and both return the number
  dropped. The code drops what `hdr_record_values` refuses, which has no lower bound
  (lines 653 and 544): 3 is added to a histogram with a lowest value of 4, where it is
  equivalent to 0, and nothing is reported. `AddDropsOutside` leaves out the value 0, so
  that it fails only for what the header can mean. `HistogramContract`, and `TargetIsSum`
  for the merging of logs, follow the code.

Seen while modelling, without a run of their own:

* `hdr_histogram.h:48` calls `lowest_discernible_value` "the smallest possible value that
  is distinguishable from 0", which "may be internally rounded down". The unit is taken
  from `log((double) lowest) / log(2)`, which for a value just below 2^k is k from k = 48
  on: 2^48 - 1 gets a unit of 2^48 and is equivalent to 0. In the run `layout` the
  logarithm is exact for all bits of the word (`LogBits`); with 6 in place of 13 the second
  part of `Precision` is violated there, by the lowest value 63 with a unit of 64.
* The header says of `hdr_iter_next` "'false' if there are no values remaining"
  (`hdr_histogram.h:449`). The next reporting level is computed without a check for the end
  of the word (lines 1145 and 1202); with a value recorded less than one step below the
  end it wraps, every range is above it, and the call returns true for ever. This is what
  `EndsUnlessWrapped` excludes: without `wrapped` the run `iterators` finds it violated.
* `hdr_log_read_entry` allocates its buffer for base64 (line 1082) before it looks at its
  arguments, and a call without an entry returns past the cleanup (lines 1089-1092): the
  buffer leaks. So it does when `realloc` fails (line 1191), whose result has replaced
  the only pointer to it. No line of the repository promises otherwise, so they are
  the two exceptions that `ErrorsLeaveNothing` names instead of findings.
* `hdr_decode_compressed_v1` takes the number of words from the text and does not compare
  it with `counts_len` (lines 508-538): more words than counts are written behind the array.
  Version 0 inflates into an array of the right size, and version 2 compares.
* With a NULL `histogram_to_recycle` and a NULL active histogram, which
  `recorder_enomem` leads to, `sample_and_recycle` dereferences NULL (lines 58-60). A sampler
  that gets there goes no further in the model.
* `hdr_value_at_percentiles` and `hdr_value_at_percentile` differ for an empty histogram
  (1 and 0), for the percentile 0 (the highest and the lowest equivalent value) and for
  a histogram with an offset. The header promises ENOMEM for a NULL array
  (`hdr_histogram.h:283`), and the code returns EINVAL.
* "Clear currently used phase end epoch" (line 106 of the phaser); the code clears the
  one of the next phase, as it must.

## Fairness

A thread inside a call is scheduled again: weak fairness of its steps. Nobody has
to begin a call. The mutex is not assumed to be fair: only that somebody gets it
when it is free and somebody waits (`WF` of "some reader locks"). POSIX mutexes
promise no more. A writer leaves its critical section because its steps are fair
and finitely many; this is the code's own condition, since a flip polls forever
otherwise.

In `iterators` and `log` the caller goes on: it calls `hdr_iter_next` until that returns
false, and reads until EOF, as the loops in the documentation do. Nobody has to write.
`ReadFairness` is weak fairness of `ReadStep`, written out: a read is possible exactly in
the modes it names, no other step changes `reads`, and `reads` makes each read a step, also
one that goes over the same characters again, which TLC would otherwise have to find by
evaluating `ENABLED`.

## Proofs

`WriterReaderPhaser_proofs`, for any sets of writers and readers and any
`HalfRange` and `MaxEnters` as assumed in `PhaserAssumption`:

* `PhaserInvariant` - the inductive invariant. `NoStragglers` alone is not
  inductive: it depends on what the epochs count. The invariant adds that the
  lock is held exactly by the reader that flips, what the flipping reader has
  seen so far (`next_phase` is the other phase, the end epoch of the next one is
  cleared, `start_value_at_flip` is the final count of the old one), and that
  the differences of the epochs are the cardinalities of the sets of writers
  inside, phase by phase.
* `TypeCorrect`, `NoStragglersCorrect` and `AccountingCorrect` follow from it.
* `PhaserRefinesContract`: the initial states and every step map to those of
  `PhaserContract`. The step that needs the invariant is `FlipPoll`: equal epochs
  mean that the set of old writers is empty.

`AtomicHistogram_proofs`, for any threads, calls and values as assumed in
`AtomicAssumption`:

* `AtomicInvariant`: the type invariant, `ExtremesCover`,
  `ExtremesRecorded`, and what each thread knows at its position: a value on its
  way to an extreme has been counted, what a thread loaded before an exchange does
  not beat its value. From it `AtomicTypeCorrect`, `ExtremesCorrect`,
  `QuietExtremesCorrect` and `ExtremesWidenCorrect`.
* `QuietCountsCorrect`, by a second invariant: `Debts`, that the count of a value
  and what threads still owe it add up to what was issued, and `TotalLags`, that
  `total_count` and what threads owe it add up to the sum of the counts. The
  loop over the missing values of a corrected call pays what `Recorded` issued
  because the missing values below a value are the next one and those below that
  one (`MissingValues`, with `Remainder` for the division).

`IntervalRecorder_proofs`, for any writers, samplers, histograms, values and calls as
assumed in `RecorderAssumption`, with and without failing allocations, callers
that close what they hold, `destroy`, and updates that are atomic or not:

* `RecorderImplementsPhaser`: each step of the recorder is a step of the phaser or
  leaves it alone, so the phaser's invariant holds of the recorder.
* `RecorderInvariant`, the inductive invariant. `WritersStayOut` alone says nothing of
  why the writer that loaded a pointer long ago is waited for; `Targets` does: the
  histogram of a late writer is the old one of a sampler that flips, and once the
  phase has switched the writer is one that `FlipPoll` still counts. `Pairing` ties the
  positions of a sampler to those of its flip, `SamplerLocals` and `WriterLocals`
  say which pointers a call holds at each position. `SoleOwner` counts claims;
  `Ownership` says the same without counting, that there is a claim on each live
  histogram, that there are not two, and none on others, and is what steps preserve
  (`ClaimsMove`, `ClaimsGrow`, `ClaimsShrink`). `HandedComplete` is about histograms
  nobody writes to; `Tally` says of every histogram that `total_count` trails the sum of
  the counts by the writers between their two updates.
* `RecorderTypeCorrect`, `WritersStayOutCorrect`, `HandedCompleteCorrect` and
  `SoleOwnerCorrect` follow from it.

The refinement, in the same module:

* `RefinementInvariant` adds what the refinement needs: a histogram about to
  become active is empty (`Cleared`), no pointer in use is NULL when allocations
  succeed (`Present`), and what a destroyed recorder points at is closed.
* `RecorderImplementsInterval`: while allocations succeed, the recorder implements
  `IntervalContract`. A record call takes effect at its load of `active`
  (`RecordAbstract`: what is awaited grows by the call, and by `OccurringUpdates`
  each value is counted as often as the call says), a sample at its store
  (`CutAbstract`: the new histogram is empty and nobody writes to it); later
  updates move a value from what is awaited to what is counted, which the contract
  does not see, and at the end of the flip nothing is awaited (`NoWriterOfSettled`).
  The hypothesis `~AllocMayFail` is needed: `recorder_enomem` is the run where
  allocation fails, `active` becomes NULL, and calls are lost.
* `ReturnsHistogramCorrect` and `ConfigReadSafeCorrect` are the counterpart of the runs
  `recorder_enomem` and `recorder_closed`, which violate these two properties: they hold
  when allocations succeed and, for the second, when callers close nothing.

`SumLemmas` has the laws of `SumFunctionOnSet` that these proofs share: the sum is an
integer, changes with one term by the difference, is 0 when all terms are, and splits
into those of a subset and of the rest. The
community modules define it by a fold, which is a recursive function; the laws
are proved by induction in the form of a minimal counterexample
(`MinimalSubset`, from the well-foundedness of strict inclusion on finite sets), since
the induction theorems of the library take an operator as parameter.

`Recording_proofs`, for words of any width from 8 bits on and any `LogBits`:

* The laws of `Pow2` first: it exists, doubles, grows, turns sums into products and
  exceeds its argument (`Pow2Recursion` to `Pow2Above`). A recursive function is a
  `CHOOSE`, so `PowersExist` shows that there is one, and since the induction theorems
  cannot be used, each law is proved from the least number that violates it
  (`LeastNatural`).
* `Place(c, v, b, s)` says by inequalities only that `v` is in sub-bucket `s` of bucket
  `b`. `PlaceExists` and `PlaceIs`: each value of the word has such a place, and it is the
  one that the bit arithmetic of `get_bucket_index` and `get_sub_bucket_index` computes.
  What the other functions return follows from the place (`EquivalentRange`,
  `ValueAtIndexIs`), and the places on both sides of a range are known (`PlaceBefore`,
  `PlaceAfter`): the half of a bucket that is not used is what makes the indexes go on
  without a gap where buckets meet.
* `BucketsNeededIs`: the loop counts the buckets up to that of the value, its early
  return included. `BucketConfigFacts`: whatever `hdr_calculate_bucket_config` does not
  reject satisfies `IsConfig`, which is what the lemmas above assume.
* What is recorded: `CountsFit` says that each index in use is that of a tracked value
  once the offset is taken into account, and that `total_count` is the sum of the counts.
  One recorded value keeps it, and what is `Unseen` from an index on, the part of the
  counts that an iterator has still to walk, shrinks by one index at a time. The proofs about
  the histogram and about the iterators share these.

`LayoutWalk_proofs`, with `WalkAssumption`:

* `WalkInvariant`: the configuration is one that was computed from accepted arguments,
  and the value is tracked. From it and the lemmas above `ConfigTypeCorrect`,
  `IndexInRangeCorrect` and `RangesAreExactCorrect`.
* `PrecisionCorrect` has a hypothesis, that the lowest value is less than
  `2^LogBits - 1`. Above it `log()` may take the value for the next power of 2 and the
  unit is too large, see Disagreements. In the run `layout` every lowest value is below.
* `NumbersSurviveCorrect`: the groups of a number are its quotients by growing powers of 2
  (`ShiftedFacts`); what has been read and what is left of the number add up to it at each
  group (`PartialSums`), and the decoder stops at the byte that the encoder wrote last, in
  a buffer that begins with these bytes (`StopsAtLast`): a shorter number ends in a byte
  without the highest bit, a longest one at `MaxBytes`, where `EncodingAssumption` says that
  what is left fits a byte.
* `BytesSurviveCorrect`: three bytes and four digits are powers of one number
  (`DigitFacts`), so a block of characters has the bits of a block of bytes
  (`BlockSurvives`), and the digits that padding stands for are zeros because the bytes that
  are missing are (`ZeroLast`, `ZerosLast`).

`Histogram_proofs`, with `HistogramAssumption`: any histograms with accepted
configurations, offsets within the array, any integers as values and intervals.

* `Sound(c, s)` says how the fields of one histogram agree: `CountsFit` and
  `ExtremesFit`: without an offset `min_value` and `max_value`
  have the first and the last index in use, except that 0 is never the minimum. It is
  the invariant of all calls, since each is made of recorded values or replaces all fields.
* `RecordKeeps`: one value, recorded or refused, keeps it. That the indexes in use have
  tracked values, and not only places in the array, is what an addition to itself needs:
  everything it finds is accepted (`CountedIsTracked`).
* `CorrectedKeeps` and `AddKeeps` carry it through the two loops, by the least round
  that would break it; `FoldsExist` and `WalkExists` show that the recursive definitions
  have a value, and `AddFieldsIs` that the tuples in which `AddFields` keeps what it has so
  far, for TLC not to nest the visits of all indexes, say the same. `Walked` bounds what `hdr_add` drops: what it has counted and what it has
  not seen (`Unseen`) add up to no more than `total_count`, though `from` may change
  when it is the same histogram; then nothing is dropped.
* `RecountKeeps`: a recount derives the extremes from the indexes in use, and finds the
  same `total_count`. `HistogramInv` collects this for all histograms, and gives
  `HistogramTypeCorrect`, `TotalIsSumCorrect` and, with `RangeOfValue`,
  `ExtremesAgreeCorrect`.
* `HistogramImplementsBag`, the refinement. `RoundIs`: dividing by the finest step that
  suffices gives the lowest value of the range that the index arithmetic finds.
  `Enumerates` says that the loop for coordinated omission goes through the values of
  `Filled`, each once (`RowIsFilled`), so one call adds at each index as many `Times` as
  values are filled in there, and all calls that a bag stands for add its `Share`, which
  is what the contract rounds the bag to (`RoundAllIs`).
* `Adds`, what `hdr_add` keeps from one index of the source to the next: the target has grown by
  the share of what was seen of the source. When both are the same histogram what was
  added since lies below the index that is read next (`ReadIsOld`): a value stands for itself
  and for lower ones only. So the addition of a histogram to itself is that of what was in it
  before (`AddBag`), which the contract says without mentioning the case.
* Each call is then the step of the contract of the same name (`RecordRefines`,
  `AddRefines`, `RecountRefines`, `ResetRefines`), under `BagInv`: `HistogramInv` and that
  no call changes a configuration.

`Iterators_proofs`, with `IteratorsAssumption`: any histograms with accepted
configurations whose counts agree with `total_count` (`CountsFit`, which
`Histogram_proofs` shows of every histogram that calls leave behind), any iterators with
positive steps, any values recorded meanwhile, as often as `MaxMeanwhile` says.

* `IteratorsInv`, the inductive invariant. What is not walked past yet is `Rest`, the sum
  of the counts that are unseen; `Total(i)`, the cumulative count and the rest, is
  `total_count` as long as nothing is recorded meanwhile, and no less otherwise. So an
  iterator that stops because its cumulative count is `total_count` has left nothing out.
  `Accounted` says this and that what was reported is the cumulative count, which a
  linear or logarithmic step only reports because a step that is begun again does not
  count its first range twice.
* For the iterator by percentile the invariant says where it stands (`Exact`: its value and
  count are those of its index; `Reported`: the level it reported last is reached there
  and not before) and that each level is a number of ticks of which a power of 2 divides the
  whole (`AtLevel`, `IsLevel`): so `NextPercentile` adds without rounding and stays below 1
  until the last step (`PercentileStep`).
* The loops are recursive functions on iterators. `LoopExists` shows that they have a
  value, by the number of buckets left, and `LoopKeeps` that what each round keeps holds
  where the loop ends: at a place that stops it, or after the last bucket.
* `IteratorsTypeCorrect`, `EveryCountOnceCorrect`, `PercentileIsLeastCorrect` and the
  action property `PercentilesRiseCorrect`. For the third, `Below` ties the sum over the
  values below the reported one, which the property speaks of, to the rest at an index.
* `StepsCountTheirRangeCorrect`, from `Aligned`: the iterator stands at the range of the
  level that it reported last, so what the next step adds is what lies between the two.
* `LookupsAgreeCorrect`. The lookups are loops of another kind, tail-recursive functions:
  `Loops`, `LoopsExist` and `LoopsKeep` are the laws of those. Each of the three stops at an
  index that `Brings` the cumulative count to the level asked for, and there is only one
  (`BringsOne`); four steps of the unrolled loop are one of the plain one as long as none
  of them brings it (`ScanByFourFinds`).

The invariants were checked by TLC on the instances of the runs before they were proved.

The assumptions on the constants are what the proofs use and the code has: sets of
threads and values are finite (`IsFiniteSet(Threads)`, `IsFiniteSet(Values)`),
and a record call is a sequence of values.

Only model-checked: liveness, which the prover does not handle under fairness; and the
codec and the log, whose operators are recursive functions over sequences, so that
what they compute for every input is an induction over data.

## Not modelled

* Memory orders weaker than sequential consistency. The GCC builtins in
  `hdr_atomic.h` are sequentially consistent; the plain stores of other
  compilers are not looked at.
* Flips without the lock, failures of `init_all`, two threads in the deprecated
  `sample`.
* Floating point, except where `log()` rounds up to a power of 2 in
  `hdr_calculate_bucket_config` and where times are rounded: percentiles are exact
  fractions, and mean, standard deviation and printing are left out.
* Counts below 1 in the sequential calls: 0 moves the extremes and counts nothing,
  and a negative one takes away; the header calls them a number of instances.
* In the codec: lengths that announce more or less than the data has, more words than
  counts in version 1, the conversion ratio, and the inside of zlib.
* In the log: allocations that are not checked, tags that contain a comma
  or the end of a line, which the writer does not look for, and the buffer of a tag that
  its caller did not clear.
* Encoding or iterating over a histogram that another thread is recording in; a
  recording between two steps of an iterator is modelled.
* `hdr_strerror`, access to the clock, the wrappers of mutex and sleep, byte order, the
  stub for builds without zlib, and the examples, which keep no state of their own.
