------------------------- MODULE WriterReaderPhaser -------------------------
(***************************************************************************)
(* The writer-reader phaser of src/hdr_writer_reader_phaser.c.             *)
(*                                                                         *)
(* Writers bracket a critical section with two wait-free increments: of    *)
(* start_epoch on the way in, and of one of two end epochs on the way out. *)
(* The sign of start_epoch names the phase: an even phase counts up from   *)
(* 0, an odd one from INT64_MIN.  A reader that holds reader_mutex flips   *)
(* the phase and then polls the end epoch of the phase it closed until     *)
(* every writer that entered in that phase has left.                       *)
(*                                                                         *)
(* Every access to an epoch is one of the atomic operations of             *)
(* hdr_atomic.h, all sequentially consistent, so each of them is a step of *)
(* its own and nothing coarser is assumed.                                 *)
(***************************************************************************)
EXTENDS Integers, FiniteSets

CONSTANTS
    Writers,     \* Threads that call hdr_phaser_writer_enter / _exit.
    Readers,     \* Threads that lock the phaser and flip its phase.
    NoReader,    \* The mutex is free.
    HalfRange,   \* Epochs are in -HalfRange .. HalfRange-1 (2^63 in the code).
    MaxEnters    \* Bound: enters within one phase.

ASSUME PhaserAssumption ==
    /\ IsFiniteSet(Writers)
    /\ NoReader \notin Readers
    /\ HalfRange \in Nat
    /\ MaxEnters \in Nat
    /\ MaxEnters < HalfRange    \* A phase never exhausts its half of the range.

VARIABLES
    start_epoch,
    end_epoch,             \* end_epoch["even"] and ["odd"]: the code's
                           \* even_end_epoch and odd_end_epoch.
    reader_mutex,          \* The reader that holds the mutex, or NoReader.
    wpc,                   \* wpc[w]: "outside" or "inside" a critical section.
    wval,                  \* wval[w]: the value writer_enter returned to w.
    rpc,                   \* rpc[r]: where r is in lock / flip_phase / unlock.
    next_phase,            \* Locals of r's call of flip_phase, reset when it
    start_value_at_flip    \* returns; next_phase is next_phase_is_even.

epoch_vars == <<start_epoch, end_epoch>>
writer_vars == <<wpc, wval>>
flip_vars == <<next_phase, start_value_at_flip>>
reader_vars == <<reader_mutex, rpc, flip_vars>>
phaser_vars == <<epoch_vars, writer_vars, reader_vars>>

Epochs == -HalfRange .. (HalfRange - 1)
Phases == {"even", "odd"}

\* The phase an epoch value belongs to, and the other one.
PhaseOf(epoch) == IF epoch < 0 THEN "odd" ELSE "even"
Other(phase) == IF phase = "even" THEN "odd" ELSE "even"

InitialStartValue_Max(phase) == \* A mutant: INT64_MAX for INT64_MIN.
    IF phase = "even" THEN 0 ELSE HalfRange - 1

\* The value the epochs of a phase start from.
InitialStartValue(phase) == IF phase = "even" THEN 0 ELSE -HalfRange

\* hdr_atomic_add_fetch_64(x, 1): the sum wraps around.
AddFetch(x) == IF x = HalfRange - 1 THEN -HalfRange ELSE x + 1

PhaserInit ==
    /\ start_epoch = InitialStartValue("even")
    /\ end_epoch = [phase \in Phases |-> InitialStartValue(phase)]
    /\ reader_mutex = NoReader
    /\ wpc = [w \in Writers |-> "outside"]
    /\ wval = [w \in Writers |-> 0]
    /\ rpc = [r \in Readers |-> "idle"]
    /\ next_phase = [r \in Readers |-> "even"]
    /\ start_value_at_flip = [r \in Readers |-> 0]

-----------------------------------------------------------------------------
(***************************************************************************)
(* Writers.                                                                *)
(***************************************************************************)

CurrentPhase == PhaseOf(start_epoch)

\* Enters so far in the current phase: the quantity MaxEnters bounds.
PhaseEnters == start_epoch - InitialStartValue(CurrentPhase)

WriterEnter(w) ==
    /\ wpc[w] = "outside"
    /\ PhaseEnters < MaxEnters
    /\ start_epoch' = AddFetch(start_epoch)
    /\ wval' = [wval EXCEPT ![w] = AddFetch(start_epoch)]
    /\ wpc' = [wpc EXCEPT ![w] = "inside"]
    /\ UNCHANGED <<end_epoch, reader_vars>>

WriterExit_CurrentPhase(w) ==   \* A mutant: the exit looks the phase up again.
    /\ wpc[w] = "inside"
    /\ end_epoch' = [end_epoch EXCEPT ![CurrentPhase] = AddFetch(@)]
    /\ wval' = [wval EXCEPT ![w] = 0]
    /\ wpc' = [wpc EXCEPT ![w] = "outside"]
    /\ UNCHANGED <<start_epoch, reader_vars>>

\* The caller hands back the value writer_enter returned; its sign selects
\* the end epoch, whatever phase is current by now.
WriterExit(w) ==
    /\ wpc[w] = "inside"
    /\ end_epoch' = [end_epoch EXCEPT ![PhaseOf(wval[w])] = AddFetch(@)]
    /\ wval' = [wval EXCEPT ![w] = 0]
    /\ wpc' = [wpc EXCEPT ![w] = "outside"]
    /\ UNCHANGED <<start_epoch, reader_vars>>

-----------------------------------------------------------------------------
(***************************************************************************)
(* Readers.  flip_phase does not check that its caller holds the mutex     *)
(* ("TODO: is_held_by_current_thread"); its one caller does, and so do     *)
(* the readers here.  A reader may flip more than once before it unlocks.  *)
(***************************************************************************)
ReaderLock_NotExclusive(r) ==   \* A mutant: a lock that does not exclude.
    /\ rpc[r] = "idle"
    /\ reader_mutex' = r
    /\ rpc' = [rpc EXCEPT ![r] = "locked"]
    /\ UNCHANGED <<epoch_vars, writer_vars, flip_vars>>

ReaderLock(r) ==
    /\ rpc[r] = "idle"
    /\ reader_mutex = NoReader
    /\ reader_mutex' = r
    /\ rpc' = [rpc EXCEPT ![r] = "locked"]
    /\ UNCHANGED <<epoch_vars, writer_vars, flip_vars>>

ReaderUnlock(r) ==
    /\ rpc[r] \in {"locked", "flipped"}
    /\ reader_mutex' = NoReader
    /\ rpc' = [rpc EXCEPT ![r] = "idle"]
    /\ UNCHANGED <<epoch_vars, writer_vars, flip_vars>>

\* Load start_epoch to learn the current phase, hence the next one.
FlipReadStart(r) ==
    /\ rpc[r] \in {"locked", "flipped"}
    /\ next_phase' = [next_phase EXCEPT ![r] = Other(CurrentPhase)]
    /\ rpc' = [rpc EXCEPT ![r] = "loaded"]
    /\ UNCHANGED <<epoch_vars, writer_vars, reader_mutex, start_value_at_flip>>

FlipClearEnd_Skipped(r) ==      \* A mutant: the stale end epoch is reused.
    /\ rpc[r] = "loaded"
    /\ rpc' = [rpc EXCEPT ![r] = "cleared"]
    /\ UNCHANGED <<epoch_vars, writer_vars, reader_mutex, flip_vars>>

FlipClearEnd_CurrentPhase(r) == \* A mutant: the end epoch in use is cleared.
    /\ rpc[r] = "loaded"
    /\ end_epoch' = [end_epoch EXCEPT ![Other(next_phase[r])] = InitialStartValue(Other(next_phase[r]))]
    /\ rpc' = [rpc EXCEPT ![r] = "cleared"]
    /\ UNCHANGED <<start_epoch, writer_vars, reader_mutex, flip_vars>>

\* Store the initial value into the end epoch of the phase about to begin.
FlipClearEnd(r) ==
    /\ rpc[r] = "loaded"
    /\ end_epoch' = [end_epoch EXCEPT ![next_phase[r]] = InitialStartValue(next_phase[r])]
    /\ rpc' = [rpc EXCEPT ![r] = "cleared"]
    /\ UNCHANGED <<start_epoch, writer_vars, reader_mutex, flip_vars>>

\* Exchange start_epoch: the phase changes, and the value read tells how many
\* writers entered in the phase just closed.
FlipExchange(r) ==
    /\ rpc[r] = "cleared"
    /\ start_value_at_flip' = [start_value_at_flip EXCEPT ![r] = start_epoch]
    /\ start_epoch' = InitialStartValue(next_phase[r])
    /\ rpc' = [rpc EXCEPT ![r] = "spinning"]
    /\ UNCHANGED <<end_epoch, writer_vars, reader_mutex, next_phase>>

FlipPoll_OffByOne(r) ==         \* A mutant: one writer is not waited for.
    /\ rpc[r] = "spinning"
    /\ end_epoch[Other(next_phase[r])] >= start_value_at_flip[r] - 1
    /\ next_phase' = [next_phase EXCEPT ![r] = "even"]
    /\ start_value_at_flip' = [start_value_at_flip EXCEPT ![r] = 0]
    /\ rpc' = [rpc EXCEPT ![r] = "flipped"]
    /\ UNCHANGED <<epoch_vars, writer_vars, reader_mutex>>

\* One iteration of the polling loop that finds the closed phase caught up.
\* An iteration that does not only yields the processor: a stuttering step.
FlipPoll(r) ==
    /\ rpc[r] = "spinning"
    /\ end_epoch[Other(next_phase[r])] = start_value_at_flip[r]
    /\ next_phase' = [next_phase EXCEPT ![r] = "even"]
    /\ start_value_at_flip' = [start_value_at_flip EXCEPT ![r] = 0]
    /\ rpc' = [rpc EXCEPT ![r] = "flipped"]
    /\ UNCHANGED <<epoch_vars, writer_vars, reader_mutex>>

-----------------------------------------------------------------------------
FlipStep(r) ==
    FlipReadStart(r) \/ FlipClearEnd(r) \/ FlipExchange(r) \/ FlipPoll(r)

PhaserNext ==
    \/ \E w \in Writers : WriterEnter(w) \/ WriterExit(w)
    \/ \E r \in Readers : ReaderLock(r) \/ ReaderUnlock(r) \/ FlipStep(r)

PhaserSpec == PhaserInit /\ [][PhaserNext]_phaser_vars

(***************************************************************************)
(* A writer inside its critical section leaves it (the code between enter  *)
(* and exit does not block), and a reader that has begun a flip keeps      *)
(* being scheduled: the loop yields or sleeps between polls.  Nothing      *)
(* makes a writer enter, a reader lock, or one reader win the mutex: a     *)
(* pthread mutex is not fair.                                              *)
(***************************************************************************)
PhaserFairness ==
    /\ \A w \in Writers : WF_phaser_vars(WriterExit(w))
    /\ \A r \in Readers :
          WF_phaser_vars(FlipClearEnd(r) \/ FlipExchange(r) \/ FlipPoll(r))

PhaserFairSpec == PhaserSpec /\ PhaserFairness

-----------------------------------------------------------------------------
(***************************************************************************)
(* Properties.                                                             *)
(***************************************************************************)

\* The type invariant.  An end epoch stays in the half of the range that its
\* phase counts in: exits of one phase are never booked on the other.
PhaserTypeOK ==
    /\ start_epoch \in Epochs
    /\ end_epoch \in [Phases -> Epochs]
    /\ \A phase \in Phases : PhaseOf(end_epoch[phase]) = phase
    /\ reader_mutex \in Readers \union {NoReader}
    /\ wpc \in [Writers -> {"outside", "inside"}]
    /\ wval \in [Writers -> Epochs]
    /\ rpc \in [Readers -> {"idle", "locked", "loaded", "cleared", "spinning", "flipped"}]
    /\ next_phase \in [Readers -> Phases]
    /\ start_value_at_flip \in [Readers -> Epochs]

Inside == {w \in Writers : wpc[w] = "inside"}
InsideOf(phase) == {w \in Inside : PhaseOf(wval[w]) = phase}
Spinning == {r \in Readers : rpc[r] = "spinning"}

\* Whenever no flip is waiting, every writer inside a critical section entered
\* it in the current phase.  This is what a flip is for: once
\* hdr_phaser_flip_phase returns, no writer from before it is still inside,
\* however many flips, enters and exits came before.
NoStragglers == Spinning = {} => InsideOf(Other(CurrentPhase)) = {}

\* The epochs count the writers: the current phase has as many writers inside
\* as start_epoch is ahead of its end epoch, and, while a flip waits, the
\* closed phase has as many as start_value_at_flip is ahead of its own.  The
\* polling loop tests the second difference for zero.
EpochAccounting ==
    /\ start_epoch - end_epoch[CurrentPhase] = Cardinality(InsideOf(CurrentPhase))
    /\ \A r \in Spinning :
          start_value_at_flip[r] - end_epoch[Other(CurrentPhase)]
             = Cardinality(InsideOf(Other(CurrentPhase)))

\* The phaser keeps its contract.  A flip that waits waits for the writers of
\* the phase it closed, and those are all the writers that were inside when it
\* exchanged start_epoch.
Contract == INSTANCE PhaserContract WITH
    inside <- Inside,
    owner <- reader_mutex,
    flipping <- Spinning # {},
    waiting <- IF Spinning # {} THEN InsideOf(Other(CurrentPhase)) ELSE {}

ImplementsContract == Contract!Spec

\* A flip that has begun completes, even though writers keep entering: it waits
\* only for exits that are certain to come.
FlipTerminates ==
    \A r \in Readers : rpc[r] \in {"loaded", "cleared", "spinning"} ~> rpc[r] = "flipped"
=============================================================================
