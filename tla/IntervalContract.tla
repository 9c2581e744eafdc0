-------------------------- MODULE IntervalContract --------------------------
(***************************************************************************)
(* What an interval recorder promises: recording and sampling are atomic.  *)
(*                                                                         *)
(* A call that records adds all its values to the current interval at one  *)
(* instant.  A sample cuts the current interval off at one instant: what   *)
(* was recorded before is in the sample, what is recorded after is in a    *)
(* later one, and the sample never changes once it is cut.                 *)
(*                                                                         *)
(* IntervalRecorder implements this module.                                *)
(***************************************************************************)
EXTENDS Naturals, FiniteSets

CONSTANTS
    Values,      \* What can be recorded.
    Calls,       \* The sequences of values that one call may record.
    Samples,     \* Names of samples.
    NoSample     \* This name has no sample.

VARIABLES
    current,     \* current[v]: times v was recorded in the current interval.
    sample       \* sample[s]: the interval that s holds, or NoSample.

vars == <<current, sample>>

Occurrences(v, call) == Cardinality({i \in DOMAIN call : call[i] = v})

Init ==
    /\ current = [v \in Values |-> 0]
    /\ sample = [s \in Samples |-> NoSample]

Record(call) ==
    /\ current' = [v \in Values |-> current[v] + Occurrences(v, call)]
    /\ UNCHANGED sample

Cut(s) ==
    /\ sample[s] = NoSample
    /\ sample' = [sample EXCEPT ![s] = current]
    /\ current' = [v \in Values |-> 0]

Discard(s) ==
    /\ sample' = [sample EXCEPT ![s] = NoSample]
    /\ UNCHANGED current

Next ==
    \/ \E call \in Calls : Record(call)
    \/ \E s \in Samples : Cut(s) \/ Discard(s)

Spec == Init /\ [][Next]_vars
=============================================================================
