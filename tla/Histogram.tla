------------------------------ MODULE Histogram ------------------------------
(***************************************************************************)
(* The sequential histogram of src/hdr_histogram.c: recording, adding one  *)
(* histogram to another, resetting, and recomputing the counters.  A call  *)
(* is one step, since none of these functions may run beside another one   *)
(* on the same histogram.  The calls of the _atomic family are in          *)
(* AtomicHistogram.  The array of counts is a bag of its indexes.          *)
(***************************************************************************)
EXTENDS Recording

CONSTANTS
    Histograms,
    Arguments,      \* What hdr_init was called with: [Histograms -> <<lowest, highest, figures>>].
    Offsets,        \* A set of [Histograms -> Int], of which one is normalizing_index_offset:
                    \* 0, or what a decoder took from a log.
    Values, Counts, Intervals,      \* The arguments of calls.
    MaxTotal        \* Bounds total_count; in the code it is 2^63 - 1.

\* Words are wide enough for the figures, as those of 64 bits are for all five.  An
\* offset is within the array, as in every histogram that was ever encoded.
ASSUME HistogramAssumption ==
    /\ \A h \in Histograms :
          LET lowest == Arguments[h][1]
              highest == Arguments[h][2]
              figures == Arguments[h][3]
          IN  /\ {lowest, highest} \subseteq -MaxWord - 1 .. MaxWord /\ figures \in Int
              /\ figures \in 1 .. 5 => 2 * Pow10[figures] <= MaxWord
              /\ ~Rejected(lowest, highest, figures)
              /\ LET length == BucketConfig(lowest, highest, figures).counts_len
                 IN  \A offset \in Offsets : offset[h] \in -length .. length
    /\ Values \union Intervals \subseteq Int
    /\ Counts \subseteq Nat \ {0}
    /\ MaxTotal \in Nat

VARIABLES
    config,         \* The fields of each histogram that hdr_init sets for good.
    hist,           \* The other fields.
    returned,       \* What the last call returned, 0 from a function without result.
    call            \* A history variable: the last call, with its arguments.

histogram_vars == <<config, hist, returned, call>>

-----------------------------------------------------------------------------
(***************************************************************************)
(* The operations.                                                         *)
(***************************************************************************)

\* An offset other than 0 is that of an empty histogram which was decoded.
HistogramInit ==
    /\ config = [h \in Histograms |->
                    BucketConfig(Arguments[h][1], Arguments[h][2], Arguments[h][3])]
    /\ \E offset \in Offsets : hist = [h \in Histograms |-> EmptyFields(offset[h])]
    /\ returned = 0
    /\ call = <<>>

Bounded == \A h \in Histograms : hist'[h].total_count <= MaxTotal

\* hdr_record_value(s), and with an interval hdr_record_corrected_value(s).
Record(h, value, count, expected_interval) ==
    LET done == RecordCorrectedValues(config[h], hist[h], value, count, expected_interval)
    IN  /\ call' = <<"record", h, value, count, expected_interval>>
        /\ hist' = [hist EXCEPT ![h] = done.fields]
        /\ returned' = IF done.accepted THEN 1 ELSE 0
        /\ UNCHANGED config
        /\ Bounded

\* hdr_add, and with an interval hdr_add_while_correcting_for_coordinated_omission.
Add(h, from, expected_interval) ==
    LET walk == AddFields(config[h], hist[h], config[from], hist[from], h = from, expected_interval)
    IN  /\ call' = <<"add", h, from, expected_interval>>
        /\ hist' = [hist EXCEPT ![h] = walk.fields]
        /\ returned' = walk.dropped
        /\ UNCHANGED config
        /\ Bounded

ResetInternalCounters(h) ==
    /\ call' = <<"recount", h>>
    /\ hist' = [hist EXCEPT ![h] = RecountFields(config[h], @)]
    /\ returned' = 0
    /\ UNCHANGED config

Reset_KeepTotal(h) ==       \* A mutant: the counts only.
    /\ call' = <<"reset", h>>
    /\ hist' = [hist EXCEPT ![h].counts = EmptyBag]
    /\ returned' = 0
    /\ UNCHANGED config

\* hdr_reset leaves the offset as it is.
Reset(h) ==
    /\ call' = <<"reset", h>>
    /\ hist' = [hist EXCEPT ![h] = EmptyFields(@.normalizing_index_offset)]
    /\ returned' = 0
    /\ UNCHANGED config

HistogramNext ==
    \E h \in Histograms :
        \/ \E v \in Values, n \in Counts, i \in Intervals : Record(h, v, n, i)
        \/ \E from \in Histograms, i \in Intervals : Add(h, from, i)
        \/ ResetInternalCounters(h)
        \/ Reset(h)

HistogramSpec == HistogramInit /\ [][HistogramNext]_histogram_vars

-----------------------------------------------------------------------------
(***************************************************************************)
(* Properties.                                                             *)
(***************************************************************************)

\* The type invariant.  The minimum is never 0: that is how hdr_min tells a
\* histogram with only zeros from one with a smallest value.
HistogramTypeOK ==
    /\ \A h \in Histograms :
          /\ BagToSet(hist[h].counts) \subseteq Indexes(config[h])
          /\ hist[h].total_count \in 0 .. MaxTotal
          /\ hist[h].min_value \in 1 .. MaxWord
          /\ hist[h].max_value \in 0 .. MaxWord
    /\ returned \in 0 .. MaxTotal \union {1}

\* total_count, by which the iterators know when to stop, is the sum of the
\* counts after every call, refused and partly dropped ones included.
TotalIsSum ==
    \A h \in Histograms : hist[h].total_count = SumFunction(hist[h].counts)

\* hdr_min and hdr_max report the lowest and the highest range that has a
\* count, whether the extremes come from recording, from adding or from a
\* recount; an empty histogram reports 2^63 - 1 and 0.  A recount of a
\* histogram with an offset is wrong about them, so this is for offset 0.
ExtremesAgree ==
    \A h \in Histograms :
        LET s == hist[h]
            used == BagToSet(s.counts)
        IN  s.normalizing_index_offset = 0 =>
                IF used = {} THEN HdrMin(config[h], s) = MaxWord /\ HdrMax(config[h], s) = 0
                ELSE /\ CountsIndexFor(config[h], HdrMin(config[h], s)) = Min(used)
                     /\ CountsIndexFor(config[h], HdrMax(config[h], s)) = Max(used)

\* What is counted: the lowest value of each range that has a count, as often as that.
Bag(c, s) ==
    LET used == BagToSet(s.counts)
        value(i) == ValueAtIndex(c, (i + s.normalizing_index_offset) % c.counts_len)
    IN  [v \in {value(i) : i \in used} |->
            s.counts[CHOOSE i \in used : value(i) = v]]

Resolutions ==
    [h \in Histograms |-> {Pow2[k] : k \in UnitMagnitude(Arguments[h][1]) .. WordBits}]

SubBucketCounts ==
    [h \in Histograms |-> 2 * Pow2[SubBucketHalfCountMagnitude(Arguments[h][3])]]

\* A histogram is the bag of the rounded values that were recorded in it: each
\* call does to the bag, and returns, what HistogramContract says, with
\* whatever offset, and also when a histogram is added to itself.  The contract has the
\* lower bound of the code, which is 0, and not that of the header: see AddDropsOutside.
Contract == INSTANCE HistogramContract WITH
    Highest <- [h \in Histograms |-> Arguments[h][2]],
    Steps <- Resolutions,
    SubBuckets <- SubBucketCounts,
    bag <- [h \in Histograms |-> Bag(config[h], hist[h])]

ImplementsBag == Contract!ContractSpec

\* "Values will be dropped if they [are] outside of h.lowest_discernible_value and
\* h.highest_trackable_value": an addition returns how many of those there were in the
\* other histogram, zeros aside, which every histogram tracks.  The code refuses no value
\* below the lowest one but negative ones, and violates this.
AddDropsOutside ==
    [][\A h, from \in Histograms, i \in Intervals :
          call' = <<"add", h, from, i>> =>
              LET source == Bag(config[from], hist[from])
                  outside == {v \in BagToSet(source) \ {0} :
                                 v \notin Arguments[h][1] .. Arguments[h][2]}
              IN  returned' = SumFunctionOnSet(source, outside)]_histogram_vars
=============================================================================
