------------------------- MODULE HistogramContract -------------------------
(***************************************************************************)
(* What a user of a histogram relies on: it is a bag of values, each       *)
(* rounded down to the resolution it is kept at.  There are no indexes, no *)
(* cells and no counters here.                                             *)
(***************************************************************************)
EXTENDS Integers, Bags, FiniteSets, FiniteSetsExt

CONSTANTS
    Histograms,
    Highest,        \* [Histograms -> Nat], the highest trackable values.
    Steps,          \* [Histograms -> SUBSET Nat], the resolutions, from the finest on.
    SubBuckets,     \* [Histograms -> Nat], how many steps a resolution is used for.
    Values, Counts, Intervals       \* The arguments of calls.

VARIABLES
    bag,            \* bag[h]: how often each rounded value was recorded.
    returned,       \* What the last call returned; 0 for a call without result.
    call            \* The last call, with its arguments.

contract_vars == <<bag, returned, call>>

\* A value is rounded to the finest step of which SubBuckets exceed it.
Step(h, value) == Min({step \in Steps[h] : value < SubBuckets[h] * step})

Round(h, value) == value - (value % Step(h, value))

\* The values that a call with an expected interval stands for.
Filled(value, interval) ==
    {value} \union
    IF interval <= 0 THEN {}
    ELSE {v \in interval .. value - interval : (value - v) % interval = 0}

\* What the values in B stand for, rounded: each as often as B has what it is for.
RoundAll(h, B, interval) ==
    LET Parts(value, r) == {v \in Filled(value, interval) : Round(h, v) = r}
    IN  [r \in {Round(h, v) : v \in UNION {Filled(value, interval) : value \in BagToSet(B)}} |->
            SumFunction([value \in BagToSet(B) |-> B[value] * Cardinality(Parts(value, r))])]

Recorded(h, B, interval) == bag' = [bag EXCEPT ![h] = @ (+) RoundAll(h, B, interval)]

-----------------------------------------------------------------------------
ContractInit ==
    /\ bag = [h \in Histograms |-> EmptyBag]
    /\ returned = 0
    /\ call = <<>>

\* An interval of 0 is a call without correction.
Record(h, value, count, interval) ==
    /\ call' = <<"record", h, value, count, interval>>
    /\ IF value \in 0 .. Highest[h]
       THEN /\ returned' = 1
            /\ Recorded(h, [v \in {value} |-> count], interval)
       ELSE returned' = 0 /\ UNCHANGED bag

\* What the target cannot track is dropped, and the caller is told how much.  There is no
\* lower bound: a value below the lowest discernible one is rounded, to 0 or to one unit.
Add(h, from, interval) ==
    LET source == bag[from]
        fits == {v \in BagToSet(source) : v <= Highest[h]}
    IN  /\ call' = <<"add", h, from, interval>>
        /\ returned' = SumFunctionOnSet(source, BagToSet(source) \ fits)
        /\ Recorded(h, [v \in fits |-> source[v]], interval)

\* Recomputing the counters of a histogram is not seen.
Recount(h) ==
    /\ call' = <<"recount", h>>
    /\ returned' = 0
    /\ UNCHANGED bag

Reset(h) ==
    /\ call' = <<"reset", h>>
    /\ returned' = 0
    /\ bag' = [bag EXCEPT ![h] = EmptyBag]

ContractNext ==
    \E h \in Histograms :
        \/ \E v \in Values, n \in Counts, i \in Intervals : Record(h, v, n, i)
        \/ \E from \in Histograms, i \in Intervals : Add(h, from, i)
        \/ Recount(h)
        \/ Reset(h)

ContractSpec == ContractInit /\ [][ContractNext]_contract_vars
=============================================================================
