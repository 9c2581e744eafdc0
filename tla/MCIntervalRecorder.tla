------------------------- MODULE MCIntervalRecorder -------------------------
(* IntervalRecorder for TLC: the calls, and the symmetry of its writers and histograms. *)
EXTENDS IntervalRecorder, TLC

CONSTANTS v1, v2

\* One value; one with a second that corrects for it, or a value out of range.
OneValue == {<<v1>>}
CorrectedOrNone == {<<>>, <<v1, v2>>}

Symmetry == Permutations(Writers) \union Permutations(Histograms)
=============================================================================
