------------------------- MODULE MCAtomicHistogram -------------------------
(* AtomicHistogram for TLC: the calls. *)
EXTENDS AtomicHistogram, TLC

Plain(value, count) == [value |-> value, count |-> count, interval |-> 0]
Corrected(value, interval) == [value |-> value, count |-> 2, interval |-> interval]

\* Zero, small values that pass each other on the way down and up, and corrected
\* calls: the interval divides the value, does not, or has no effect.
MCInputs ==
    {Plain(0, 1), Plain(1, 2), Plain(3, 1),
     Corrected(6, 2), Corrected(5, 2), Corrected(2, 3), Corrected(4, -1)}
=============================================================================
