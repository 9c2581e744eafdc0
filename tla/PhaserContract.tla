--------------------------- MODULE PhaserContract ---------------------------
(***************************************************************************)
(* What a writer-reader phaser promises its clients, without epochs.       *)
(*                                                                         *)
(* Writers enter and leave critical sections and never wait.  A reader     *)
(* that holds the lock may flip the phase: the flip takes note of the      *)
(* writers inside at that instant and may complete only once every one of  *)
(* them has left.  Writers that enter later are not waited for.            *)
(*                                                                         *)
(* WriterReaderPhaser implements this module.                              *)
(***************************************************************************)
CONSTANTS
    Writers,     \* Threads that call hdr_phaser_writer_enter / _exit.
    Readers,     \* Threads that lock the phaser and flip its phase.
    NoReader     \* The mutex is free.

VARIABLES
    inside,      \* The writers in a critical section.
    owner,       \* The reader that holds the lock, or NoReader.
    flipping,    \* A flip is in progress.
    waiting      \* The writers that flip still has to wait for.

vars == <<inside, owner, flipping, waiting>>

Init ==
    /\ inside = {}
    /\ owner = NoReader
    /\ flipping = FALSE
    /\ waiting = {}

Enter(w) ==
    /\ w \notin inside
    /\ inside' = inside \union {w}
    /\ UNCHANGED <<owner, flipping, waiting>>

Exit(w) ==
    /\ w \in inside
    /\ inside' = inside \ {w}
    /\ waiting' = waiting \ {w}
    /\ UNCHANGED <<owner, flipping>>

Acquire(r) ==
    /\ owner = NoReader
    /\ owner' = r
    /\ UNCHANGED <<inside, flipping, waiting>>

Release(r) ==
    /\ owner = r
    /\ ~flipping
    /\ owner' = NoReader
    /\ UNCHANGED <<inside, flipping, waiting>>

BeginFlip ==
    /\ owner # NoReader
    /\ ~flipping
    /\ flipping' = TRUE
    /\ waiting' = inside
    /\ UNCHANGED <<inside, owner>>

EndFlip ==
    /\ flipping
    /\ waiting = {}
    /\ flipping' = FALSE
    /\ UNCHANGED <<inside, owner, waiting>>

Next ==
    \/ \E w \in Writers : Enter(w) \/ Exit(w)
    \/ \E r \in Readers : Acquire(r) \/ Release(r)
    \/ BeginFlip
    \/ EndFlip

Spec == Init /\ [][Next]_vars
=============================================================================
