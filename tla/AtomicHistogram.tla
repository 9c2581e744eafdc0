-------------------------- MODULE AtomicHistogram --------------------------
(***************************************************************************)
(* Threads that record into one histogram with hdr_record_values_atomic    *)
(* and hdr_record_corrected_values_atomic (src/hdr_histogram.c).           *)
(*                                                                         *)
(* A value is recorded by four independent updates of shared fields, each  *)
(* atomic: its count, total_count, and min_value and max_value, the last   *)
(* two by loops around a compare-and-exchange.  A corrected call records   *)
(* the values it is missing in the same way, one after the other, and each *)
(* value has a count of its own: how values share counts is abstracted.    *)
(***************************************************************************)
EXTENDS Integers, FiniteSets, Functions

CONSTANTS
    Threads,
    Highest,     \* highest_trackable_value; larger values are refused.
    NoMin,       \* The initial min_value, INT64_MAX in the code.
    Inputs,      \* The calls: records of a value, a count and an expected_interval,
                 \* which is 0 in the calls that do not correct.
    MaxCalls     \* Bound: calls in all.

Trackable == 0 .. Highest

ASSUME AtomicAssumption ==
    /\ IsFiniteSet(Threads)
    /\ Highest \in Nat
    /\ NoMin \in Nat /\ NoMin > Highest
    /\ Inputs \subseteq [value : Trackable, count : Nat \ {0}, interval : Int]
    /\ MaxCalls \in Nat

VARIABLES
    counts,      \* counts[v]: the count of value v.
    total_count,
    min_value,
    max_value,
    pc,          \* pc[t]: where t is in its call, "out" between calls.
    call,        \* call[t]: the arguments of t's call; its value is the one being
                 \* recorded, which a corrected call steps down.
    seen,        \* seen[t]: min_value or max_value as t loaded it.
    issued,      \* History: issued[v] is what all calls so far have to count for v.
    calls        \* The number of calls so far.

shared_vars == <<counts, total_count, min_value, max_value>>
thread_vars == <<pc, call, seen>>
history_vars == <<issued, calls>>
atomic_vars == <<shared_vars, thread_vars, history_vars>>

NoCall == [value |-> 0, count |-> 0, interval |-> 0]

AtomicInit ==
    /\ counts = [v \in Trackable |-> 0]
    /\ total_count = 0
    /\ min_value = NoMin
    /\ max_value = 0
    /\ pc = [t \in Threads |-> "out"]
    /\ call = [t \in Threads |-> NoCall]
    /\ seen = [t \in Threads |-> 0]
    /\ issued = [v \in Trackable |-> 0]
    /\ calls = 0

\* What a call records, by definition: its value, and below it every value at
\* a multiple of the expected interval that is not less than the interval.
Recorded(in) ==
    {in.value} \union
    {v \in Trackable : /\ in.interval > 0
                       /\ v >= in.interval /\ v < in.value
                       /\ (in.value - v) % in.interval = 0}

\* A call with a value in range.  One out of range returns false at once and
\* changes nothing.
Begin(t, in) ==
    /\ pc[t] = "out"
    /\ calls < MaxCalls
    /\ call' = [call EXCEPT ![t] = in]
    /\ pc' = [pc EXCEPT ![t] = "count"]
    /\ issued' = [v \in Trackable |->
                     issued[v] + IF v \in Recorded(in) THEN in.count ELSE 0]
    /\ calls' = calls + 1
    /\ UNCHANGED <<shared_vars, seen>>

\* counts_inc_normalised_atomic: two additions, the count first.
AddCount(t) ==
    /\ pc[t] = "count"
    /\ counts' = [counts EXCEPT ![call[t].value] = @ + call[t].count]
    /\ pc' = [pc EXCEPT ![t] = "total"]
    /\ UNCHANGED <<total_count, min_value, max_value, call, seen, history_vars>>

AddTotal(t) ==
    /\ pc[t] = "total"
    /\ total_count' = total_count + call[t].count
    /\ pc' = [pc EXCEPT ![t] = "load_min"]
    /\ UNCHANGED <<counts, min_value, max_value, call, seen, history_vars>>

LoadMin_Zero(t) ==              \* A mutant: zero is taken for a minimum.
    /\ pc[t] = "load_min"
    /\ seen' = [seen EXCEPT ![t] = min_value]
    /\ pc' = [pc EXCEPT ![t] = IF min_value <= call[t].value THEN "load_max" ELSE "cas_min"]
    /\ UNCHANGED <<shared_vars, call, history_vars>>

\* update_min_max_atomic, the loop on min_value.  Zero never becomes the minimum:
\* hdr_min looks for it in the counts.
LoadMin(t) ==
    /\ pc[t] = "load_min"
    /\ seen' = [seen EXCEPT ![t] = min_value]
    /\ pc' = [pc EXCEPT ![t] = IF call[t].value = 0 \/ min_value <= call[t].value
                               THEN "load_max" ELSE "cas_min"]
    /\ UNCHANGED <<shared_vars, call, history_vars>>

CasMin_GiveUp(t) ==             \* A mutant: a failed exchange is not retried.
    /\ pc[t] = "cas_min"
    /\ min_value' = IF min_value = seen[t] THEN call[t].value ELSE min_value
    /\ pc' = [pc EXCEPT ![t] = "load_max"]
    /\ UNCHANGED <<counts, total_count, max_value, call, seen, history_vars>>

CasMin(t) ==
    /\ pc[t] = "cas_min"
    /\ min_value' = IF min_value = seen[t] THEN call[t].value ELSE min_value
    /\ pc' = [pc EXCEPT ![t] = IF min_value = seen[t] THEN "load_max" ELSE "load_min"]
    /\ UNCHANGED <<counts, total_count, max_value, call, seen, history_vars>>

NextValue_Strict(t) ==          \* A mutant: ">" for ">=" in the loop's condition.
    LET missing == call[t].value - call[t].interval
        more == call[t].interval > 0 /\ missing > call[t].interval
    IN  /\ call' = [call EXCEPT ![t] = IF more THEN [@ EXCEPT !.value = missing] ELSE NoCall]
        /\ pc' = [pc EXCEPT ![t] = IF more THEN "count" ELSE "out"]
        /\ seen' = [seen EXCEPT ![t] = 0]

\* One value is recorded: go on to the next missing value, or return.
NextValue(t) ==
    LET missing == call[t].value - call[t].interval
        more == call[t].interval > 0 /\ missing >= call[t].interval
    IN  /\ call' = [call EXCEPT ![t] = IF more THEN [@ EXCEPT !.value = missing] ELSE NoCall]
        /\ pc' = [pc EXCEPT ![t] = IF more THEN "count" ELSE "out"]
        /\ seen' = [seen EXCEPT ![t] = 0]

\* The loop on max_value: it is left at once, or an exchange is tried.
LoadMax(t) ==
    /\ pc[t] = "load_max"
    /\ IF call[t].value <= max_value
       THEN NextValue(t)
       ELSE /\ seen' = [seen EXCEPT ![t] = max_value]
            /\ pc' = [pc EXCEPT ![t] = "cas_max"]
            /\ UNCHANGED call
    /\ UNCHANGED <<shared_vars, history_vars>>

CasMax_Store(t) ==              \* A mutant: a store for the compare-and-exchange.
    /\ pc[t] = "cas_max"
    /\ max_value' = call[t].value /\ NextValue(t)
    /\ UNCHANGED <<counts, total_count, min_value, history_vars>>

CasMax_Spin(t) ==               \* A mutant: the loaded value is never refreshed.
    /\ pc[t] = "cas_max"
    /\ IF max_value = seen[t]
       THEN max_value' = call[t].value /\ NextValue(t)
       ELSE UNCHANGED <<max_value, thread_vars>>
    /\ UNCHANGED <<counts, total_count, min_value, history_vars>>

CasMax(t) ==
    /\ pc[t] = "cas_max"
    /\ IF max_value = seen[t]
       THEN max_value' = call[t].value /\ NextValue(t)
       ELSE pc' = [pc EXCEPT ![t] = "load_max"] /\ UNCHANGED <<max_value, call, seen>>
    /\ UNCHANGED <<counts, total_count, min_value, history_vars>>

RecordStep(t) ==
    \/ AddCount(t) \/ AddTotal(t)
    \/ LoadMin(t) \/ CasMin(t) \/ LoadMax(t) \/ CasMax(t)

AtomicNext == \E t \in Threads : (\E in \in Inputs : Begin(t, in)) \/ RecordStep(t)

AtomicSpec == AtomicInit /\ [][AtomicNext]_atomic_vars

\* A thread that has begun a call keeps being scheduled.
AtomicFairSpec == AtomicSpec /\ \A t \in Threads : WF_atomic_vars(RecordStep(t))

-----------------------------------------------------------------------------
(***************************************************************************)
(* Properties.                                                             *)
(***************************************************************************)

\* The type invariant.  max_value never leaves the trackable range, and
\* min_value leaves it only for its initial value and never is zero.
AtomicTypeOK ==
    /\ counts \in [Trackable -> Nat]
    /\ total_count \in Nat
    /\ min_value \in (Trackable \ {0}) \union {NoMin}
    /\ max_value \in Trackable
    /\ pc \in [Threads -> {"out", "count", "total", "load_min", "cas_min",
                           "load_max", "cas_max"}]
    /\ call \in [Threads -> [value : Trackable, count : Nat, interval : Int]]
    /\ seen \in [Threads -> Trackable \union {NoMin}]
    /\ issued \in [Trackable -> Nat]
    /\ calls \in 0 .. MaxCalls

\* The threads that have counted v and not yet compared it with an extreme.
CountedBy(v, at) == {t \in Threads : call[t].value = v /\ pc[t] \in at}
BeforeMin == {"total", "load_min", "cas_min"}
BeforeMax == BeforeMin \union {"load_max", "cas_max"}

\* A value that has been counted lies between min_value and max_value, unless
\* a thread is still on its way to say so: no update of an extreme is lost to
\* a concurrent one.
ExtremesCover ==
    \A v \in Trackable : counts[v] > 0 =>
        /\ v <= max_value \/ CountedBy(v, BeforeMax) # {}
        /\ v = 0 \/ min_value <= v \/ CountedBy(v, BeforeMin) # {}

\* Each extreme is a value that has been counted, never one that only was on
\* its way: a histogram in use never reports a value it does not hold.
ExtremesRecorded ==
    /\ max_value # 0 => counts[max_value] > 0
    /\ min_value # NoMin => counts[min_value] > 0

Quiet == \A t \in Threads : pc[t] = "out"

\* When no call is under way the extremes are exact.
QuietExtremes == Quiet =>
    /\ \A v \in Trackable : counts[v] > 0 => v <= max_value /\ (v # 0 => min_value <= v)
    /\ ExtremesRecorded

\* When no call is under way the counts are exactly what the calls so far were for,
\* missing values included.  At any time total_count lags behind the counts by what
\* threads have still to add, and is never ahead of them.
QuietCounts ==
    /\ Quiet => counts = issued
    /\ total_count + SumFunctionOnSet([t \in Threads |-> call[t].count],
                                      {t \in Threads : pc[t] = "total"})
          = SumFunctionOnSet(counts, Trackable)

\* The extremes only ever widen.
ExtremesWiden == [][min_value' <= min_value /\ max_value' >= max_value]_atomic_vars

\* Every call returns: an exchange fails only because another thread moved the
\* extreme, and an extreme moves finitely often.
CallsReturn == \A t \in Threads : pc[t] # "out" ~> pc[t] = "out"
=============================================================================
