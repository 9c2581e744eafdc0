---------------------------- MODULE MCHistogram ----------------------------
(* Histogram for TLC: one that tells all values, and a coarser, narrower one. *)
EXTENDS Histogram

CONSTANTS fine, coarse

MCArguments == fine :> <<1, MaxWord, 1>> @@ coarse :> <<4, 150, 1>>

MCOffsets == {fine :> 0 @@ coarse :> offset : offset \in {0, 5}}

MCValues == {-1, 0, 3, 151, MaxWord}

\* The last call is of no influence on what comes next.
WithoutCall == <<config, hist, returned>>
=============================================================================
