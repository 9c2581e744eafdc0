-------------------------- MODULE IntervalRecorder --------------------------
(***************************************************************************)
(* The interval recorder of src/hdr_interval_recorder.c: writers record    *)
(* into the active histogram inside a critical section of the phaser;      *)
(* a sampler makes another histogram active, flips the phase, and only     *)
(* then hands the old one to its caller.                                   *)
(*                                                                         *)
(* The phaser is not abstracted: every step here that calls it is one of   *)
(* its actions, conjoined.  A histogram is a function from cells to        *)
(* counts: a cell for each value that is ever recorded, and Total for its  *)
(* total_count.  The recording functions of hdr_histogram.c are sequences  *)
(* of updates of single cells, atomic or not.                              *)
(***************************************************************************)
EXTENDS WriterReaderPhaser, Sequences, Functions

CONSTANTS
    Histograms,      \* The histograms that can be allocated.
    NULL,            \* No histogram.
    Values,          \* The values that are recorded, each in its own cell.
    Total,           \* The cell of total_count.
    Calls,           \* The sequences of values one call records: <<>> for a value
                     \* out of range, longer than 1 for a corrected value.
    AtomicUpdates,   \* The _atomic calls: each cell is updated by one atomic step.
    InactiveUsers,   \* The readers that call the deprecated _sample.
    CallersClose,    \* Callers may hdr_close a histogram they were handed.
    AllocMayFail,    \* hdr_init may return ENOMEM.
    MayDestroy       \* The recorder may be destroyed once nobody uses it.

ASSUME RecorderAssumption ==
    /\ NULL \notin Histograms
    /\ Total \notin Values
    /\ Histograms # {}
    /\ IsFiniteSet(Values)                             \* Words of 64 bits.
    /\ Calls \subseteq Seq(Values)
    /\ InactiveUsers \subseteq Readers
    /\ {AtomicUpdates, CallersClose, AllocMayFail, MayDestroy} \subseteq BOOLEAN
    /\ ~AtomicUpdates => \A w, v \in Writers : w = v   \* One writer only.
    /\ \A r, q \in InactiveUsers : r = q               \* r->inactive is not shared.

VARIABLES
    active,          \* r->active.
    inactive,        \* r->inactive.
    cells,           \* cells[h][c]: the counts and total_count of h.
    live,            \* The histograms allocated and not closed.
    destroyed,       \* hdr_interval_recorder_destroy has returned.
    wpos,            \* wpos[w]: where w is in hdr_interval_recorder_update.
    target,          \* target[w]: the histogram that w loaded from active.
    todo,            \* todo[w]: the cells w has still to update.
    reg,             \* reg[w]: a count that w has read and not yet written back.
    spos,            \* spos[r]: where r is in ..._sample_and_recycle.
    via_sample,      \* via_sample[r]: r is called from hdr_interval_recorder_sample.
    config_of,       \* config_of[r]: the histogram whose configuration r copies.
    histogram_to_recycle,
    old_active,
    held             \* held[r]: the histograms that the caller of r owns.

record_vars == <<wpos, target, todo, reg>>
local_vars == <<via_sample, config_of, histogram_to_recycle, old_active>>
sample_vars == <<spos, local_vars, held>>
memory_vars == <<cells, live>>
pointer_vars == <<active, inactive, destroyed>>
recorder_vars == <<record_vars, sample_vars, memory_vars, pointer_vars>>
all_vars == <<phaser_vars, recorder_vars>>

Cells == Values \union {Total}
Empty == [c \in Cells |-> 0]

\* counts_inc_normalised updates the count of the value, then total_count.
Updates(call) ==
    [i \in 1 .. 2 * Len(call) |-> IF i % 2 = 1 THEN call[(i + 1) \div 2] ELSE Total]

\* hdr_interval_recorder_init_all has succeeded.
RecorderInit ==
    /\ PhaserInit
    /\ active \in Histograms
    /\ inactive = NULL
    /\ live = {active}
    /\ cells = [h \in Histograms |-> Empty]
    /\ destroyed = FALSE
    /\ wpos = [w \in Writers |-> "out"]
    /\ target = [w \in Writers |-> NULL]
    /\ todo = [w \in Writers |-> <<>>]
    /\ reg = [w \in Writers |-> 0]
    /\ spos = [r \in Readers |-> "out"]
    /\ via_sample = [r \in Readers |-> FALSE]
    /\ config_of = [r \in Readers |-> NULL]
    /\ histogram_to_recycle = [r \in Readers |-> NULL]
    /\ old_active = [r \in Readers |-> NULL]
    /\ held = [r \in Readers |-> {}]

-----------------------------------------------------------------------------
(***************************************************************************)
(* Writers: hdr_interval_recorder_update with one of its update actions.   *)
(***************************************************************************)
RecordEnter(w, call) ==
    /\ wpos[w] = "out"
    /\ ~destroyed
    /\ WriterEnter(w)
    /\ todo' = [todo EXCEPT ![w] = Updates(call)]
    /\ wpos' = [wpos EXCEPT ![w] = "entered"]
    /\ UNCHANGED <<target, reg, sample_vars, memory_vars, pointer_vars>>

RecordLoad(w) ==
    /\ wpos[w] = "entered"
    /\ target' = [target EXCEPT ![w] = active]
    /\ wpos' = [wpos EXCEPT ![w] = "update"]
    /\ UNCHANGED <<todo, reg, sample_vars, memory_vars, pointer_vars, phaser_vars>>

\* hdr_atomic_add_fetch_64 of the next cell.  A writer whose target is NULL
\* has crashed: no step of its call is enabled any more.
RecordAdd(w) ==
    /\ AtomicUpdates
    /\ wpos[w] = "update" /\ target[w] # NULL /\ todo[w] # <<>>
    /\ cells' = [cells EXCEPT ![target[w]][Head(todo[w])] = @ + 1]
    /\ todo' = [todo EXCEPT ![w] = Tail(@)]
    /\ UNCHANGED <<wpos, target, reg, live, sample_vars, pointer_vars, phaser_vars>>

\* The plain "+=" of the calls that are not atomic: a read, and later a write.
RecordRead(w) ==
    /\ ~AtomicUpdates
    /\ wpos[w] = "update" /\ target[w] # NULL /\ todo[w] # <<>>
    /\ reg' = [reg EXCEPT ![w] = cells[target[w]][Head(todo[w])]]
    /\ wpos' = [wpos EXCEPT ![w] = "write"]
    /\ UNCHANGED <<target, todo, sample_vars, memory_vars, pointer_vars, phaser_vars>>

RecordWrite(w) ==
    /\ wpos[w] = "write"
    /\ cells' = [cells EXCEPT ![target[w]][Head(todo[w])] = reg[w] + 1]
    /\ todo' = [todo EXCEPT ![w] = Tail(@)]
    /\ reg' = [reg EXCEPT ![w] = 0]
    /\ wpos' = [wpos EXCEPT ![w] = "update"]
    /\ UNCHANGED <<target, live, sample_vars, pointer_vars, phaser_vars>>

RecordExit(w) ==
    /\ wpos[w] = "update" /\ target[w] # NULL /\ todo[w] = <<>>
    /\ WriterExit(w)
    /\ target' = [target EXCEPT ![w] = NULL]
    /\ wpos' = [wpos EXCEPT ![w] = "out"]
    /\ UNCHANGED <<todo, reg, sample_vars, memory_vars, pointer_vars>>

-----------------------------------------------------------------------------
(***************************************************************************)
(* Samplers: hdr_interval_recorder_sample_and_recycle.                     *)
(***************************************************************************)

\* Bound: Histograms is large enough for the allocations under way.
MayAllocate ==
    Cardinality(live) + Cardinality({r \in Readers : spos[r] = "config"})
        < Cardinality(Histograms)

\* The call starts with a NULL histogram: r->active is read, by plain loads
\* and without the lock.
SampleNull(r) ==
    /\ spos[r] = "out"
    /\ ~destroyed
    /\ r \in InactiveUsers => inactive = NULL
    /\ MayAllocate
    /\ via_sample' = [via_sample EXCEPT ![r] = r \in InactiveUsers]
    /\ config_of' = [config_of EXCEPT ![r] = active]
    /\ spos' = [spos EXCEPT ![r] = "config"]
    /\ UNCHANGED <<histogram_to_recycle, old_active, held, record_vars, memory_vars,
                   pointer_vars, phaser_vars>>

\* Read the configuration through the pointer and hdr_init a new histogram.
\* The result of hdr_init is not looked at.  A sampler whose pointer is NULL has crashed,
\* as a writer with such a target.
InitNew(r) ==
    /\ spos[r] = "config" /\ config_of[r] # NULL
    /\ \/ \E h \in Histograms \ live :
             /\ live' = live \union {h}
             /\ cells' = [cells EXCEPT ![h] = Empty]
             /\ histogram_to_recycle' = [histogram_to_recycle EXCEPT ![r] = h]
       \/ /\ AllocMayFail
          /\ UNCHANGED <<memory_vars, histogram_to_recycle>>
    /\ config_of' = [config_of EXCEPT ![r] = NULL]
    /\ spos' = [spos EXCEPT ![r] = "lock"]
    /\ UNCHANGED <<via_sample, old_active, held, record_vars, pointer_vars, phaser_vars>>

\* The call starts with a histogram that its caller owns.
SampleRecycle(r, h) ==
    /\ spos[r] = "out"
    /\ ~destroyed
    /\ r \notin InactiveUsers
    /\ h \in held[r]
    /\ held' = [held EXCEPT ![r] = @ \ {h}]
    /\ histogram_to_recycle' = [histogram_to_recycle EXCEPT ![r] = h]
    /\ spos' = [spos EXCEPT ![r] = "reset"]
    /\ UNCHANGED <<via_sample, config_of, old_active, record_vars, memory_vars,
                   pointer_vars, phaser_vars>>

\* hdr_interval_recorder_sample passes r->inactive.
SampleInactive(r) ==
    /\ spos[r] = "out"
    /\ ~destroyed
    /\ r \in InactiveUsers
    /\ inactive # NULL
    /\ via_sample' = [via_sample EXCEPT ![r] = TRUE]
    /\ histogram_to_recycle' = [histogram_to_recycle EXCEPT ![r] = inactive]
    /\ spos' = [spos EXCEPT ![r] = "reset"]
    /\ UNCHANGED <<config_of, old_active, held, record_vars, memory_vars,
                   pointer_vars, phaser_vars>>

Reset_TotalOnly(r) ==           \* A mutant: the counts are not cleared.
    /\ spos[r] = "reset"
    /\ cells' = [cells EXCEPT ![histogram_to_recycle[r]][Total] = 0]
    /\ spos' = [spos EXCEPT ![r] = "lock"]
    /\ UNCHANGED <<local_vars, held, live, record_vars, pointer_vars, phaser_vars>>

\* hdr_reset.
Reset(r) ==
    /\ spos[r] = "reset"
    /\ cells' = [cells EXCEPT ![histogram_to_recycle[r]] = Empty]
    /\ spos' = [spos EXCEPT ![r] = "lock"]
    /\ UNCHANGED <<local_vars, held, live, record_vars, pointer_vars, phaser_vars>>

SampleLock(r) ==
    /\ spos[r] = "lock"
    /\ ReaderLock(r)
    /\ spos' = [spos EXCEPT ![r] = "load"]
    /\ UNCHANGED <<local_vars, held, record_vars, memory_vars, pointer_vars>>

LoadActive(r) ==
    /\ spos[r] = "load"
    /\ old_active' = [old_active EXCEPT ![r] = active]
    /\ spos' = [spos EXCEPT ![r] = "store"]
    /\ UNCHANGED <<via_sample, config_of, histogram_to_recycle, held, record_vars,
                   memory_vars, pointer_vars, phaser_vars>>

StoreActive_Skipped(r) ==       \* A mutant: the old histogram stays active.
    /\ spos[r] = "store"
    /\ histogram_to_recycle' = [histogram_to_recycle EXCEPT ![r] = NULL]
    /\ spos' = [spos EXCEPT ![r] = "flip"]
    /\ UNCHANGED <<via_sample, config_of, old_active, held, record_vars, memory_vars,
                   pointer_vars, phaser_vars>>

StoreActive(r) ==
    /\ spos[r] = "store"
    /\ active' = histogram_to_recycle[r]
    /\ histogram_to_recycle' = [histogram_to_recycle EXCEPT ![r] = NULL]
    /\ spos' = [spos EXCEPT ![r] = "flip"]
    /\ UNCHANGED <<via_sample, config_of, old_active, held, record_vars, memory_vars,
                   inactive, destroyed, phaser_vars>>

\* The steps of hdr_phaser_flip_phase; one call of it.
Flip(r) ==
    /\ spos[r] = "flip"
    /\ rpc[r] # "flipped"
    /\ FlipStep(r)
    /\ UNCHANGED recorder_vars

SampleUnlock_NoFlip(r) ==       \* A mutant: the lock is released without a flip.
    /\ spos[r] = "flip"
    /\ ReaderUnlock(r)
    /\ spos' = [spos EXCEPT ![r] = "return"]
    /\ UNCHANGED <<local_vars, held, record_vars, memory_vars, pointer_vars>>

SampleUnlock(r) ==
    /\ spos[r] = "flip"
    /\ rpc[r] = "flipped"
    /\ ReaderUnlock(r)
    /\ spos' = [spos EXCEPT ![r] = "return"]
    /\ UNCHANGED <<local_vars, held, record_vars, memory_vars, pointer_vars>>

\* The old histogram is handed to the caller, or becomes r->inactive.
SampleReturn(r) ==
    /\ spos[r] = "return"
    /\ IF via_sample[r]
       THEN inactive' = old_active[r] /\ UNCHANGED held
       ELSE /\ held' = [held EXCEPT ![r] = @ \union ({old_active[r]} \ {NULL})]
            /\ UNCHANGED inactive
    /\ old_active' = [old_active EXCEPT ![r] = NULL]
    /\ via_sample' = [via_sample EXCEPT ![r] = FALSE]
    /\ spos' = [spos EXCEPT ![r] = "out"]
    /\ UNCHANGED <<config_of, histogram_to_recycle, record_vars, memory_vars,
                   active, destroyed, phaser_vars>>

-----------------------------------------------------------------------------
\* A caller closes a histogram it was handed; freed memory holds no counts.
CallerClose(r, h) ==
    /\ CallersClose
    /\ spos[r] = "out"
    /\ h \in held[r]
    /\ held' = [held EXCEPT ![r] = @ \ {h}]
    /\ live' = live \ {h}
    /\ cells' = [cells EXCEPT ![h] = Empty]
    /\ UNCHANGED <<spos, local_vars, record_vars, pointer_vars, phaser_vars>>

\* hdr_interval_recorder_destroy, called when nobody uses the recorder.
Destroy ==
    /\ MayDestroy /\ ~destroyed
    /\ \A w \in Writers : wpos[w] = "out"
    /\ \A r \in Readers : spos[r] = "out"
    /\ live' = live \ {active, inactive}
    /\ destroyed' = TRUE
    /\ UNCHANGED <<active, inactive, cells, record_vars, sample_vars, phaser_vars>>

-----------------------------------------------------------------------------
RecordStep(w) ==
    RecordLoad(w) \/ RecordAdd(w) \/ RecordRead(w) \/ RecordWrite(w) \/ RecordExit(w)

SampleStep(r) ==
    \/ InitNew(r) \/ Reset(r)
    \/ LoadActive(r) \/ StoreActive(r) \/ Flip(r) \/ SampleUnlock(r) \/ SampleReturn(r)

RecorderNext ==
    \/ \E w \in Writers : (\E call \in Calls : RecordEnter(w, call)) \/ RecordStep(w)
    \/ \E r \in Readers :
          \/ SampleNull(r) \/ SampleInactive(r)
          \/ \E h \in Histograms : SampleRecycle(r, h) \/ CallerClose(r, h)
          \/ SampleLock(r) \/ SampleStep(r)
    \/ Destroy

RecorderSpec == RecorderInit /\ [][RecorderNext]_all_vars

(***************************************************************************)
(* A call of record or sample that has begun keeps being scheduled.  Only  *)
(* the mutex may keep a sampler waiting: it is not fair, but it does not   *)
(* stay free while somebody waits for it.                                  *)
(***************************************************************************)
RecorderFairness ==
    /\ \A w \in Writers : WF_all_vars(RecordStep(w))
    /\ \A r \in Readers : WF_all_vars(SampleStep(r))
    /\ WF_all_vars(\E r \in Readers : SampleLock(r))

RecorderFairSpec == RecorderSpec /\ RecorderFairness

-----------------------------------------------------------------------------
(***************************************************************************)
(* Properties.                                                             *)
(***************************************************************************)

\* The type invariant.  The calls of the phaser are paired: the critical
\* section and the lock span exactly the steps between them.
RecorderTypeOK ==
    /\ active \in Histograms \union {NULL}
    /\ inactive \in Histograms \union {NULL}
    /\ cells \in [Histograms -> [Cells -> Nat]]
    /\ live \subseteq Histograms
    /\ destroyed \in BOOLEAN
    /\ wpos \in [Writers -> {"out", "entered", "update", "write"}]
    /\ target \in [Writers -> Histograms \union {NULL}]
    /\ todo \in [Writers -> Seq(Cells)]
    /\ reg \in [Writers -> Nat]
    /\ spos \in [Readers -> {"out", "config", "reset", "lock", "load", "store", "flip",
                             "return"}]
    /\ via_sample \in [Readers -> BOOLEAN]
    /\ {config_of, histogram_to_recycle, old_active}
          \subseteq [Readers -> Histograms \union {NULL}]
    /\ held \in [Readers -> SUBSET Histograms]
    /\ \A w \in Writers : wpos[w] # "out" <=> wpc[w] = "inside"
    /\ \A r \in Readers : spos[r] \in {"load", "store", "flip"} <=> reader_mutex = r

\* Who may touch a histogram besides writers, one claim for each reason: it is
\* the active one, it waits in r->inactive, a call is about to install it or to
\* return it, or a caller was handed it.  While hdr_interval_recorder_sample
\* runs, r->inactive is a stale copy of a pointer that the call took over.
Claims ==
    {<<"active", NULL, active>>}
      \union {<<"inactive", r, inactive>> : r \in {u \in InactiveUsers : spos[u] = "out"}}
      \union {<<"recycled", r, histogram_to_recycle[r]>> : r \in Readers}
      \union {<<"returned", r, old_active[r]>> :
                 r \in {q \in Readers : spos[q] \in {"flip", "return"}}}
      \union UNION {{<<"held", r, h>> : h \in held[r]} : r \in Readers}

\* Every allocated histogram has exactly one claim, and a closed one has none:
\* however samplers interleave, hdr_interval_recorder_sample_and_recycle neither
\* duplicates, nor loses, nor resurrects a histogram.  hdr_interval_recorder_destroy
\* frees whatever no caller owns.
SoleOwner ==
    LET taken == {claim \in Claims : claim[3] # NULL}
    IN  /\ ~destroyed => /\ {claim[3] : claim \in taken} = live
                         /\ Cardinality(taken) = Cardinality(live)
        /\ destroyed => live = UNION {held[r] : r \in Readers}

\* The histograms whose counts a writer may still change.
Writable == {active} \union {old_active[r] : r \in {q \in Readers : spos[q] = "flip"}}

\* A writer only ever updates the active histogram, or one whose sampler is
\* still flipping: never a histogram that is being reset, that was handed to a
\* caller, or that a caller has closed.
WritersStayOut == \A w \in Writers : target[w] # NULL => target[w] \in Writable \intersect live

\* The histograms that a caller may read.
Handed == (UNION {held[r] : r \in Readers})
            \union ({inactive : r \in {u \in InactiveUsers : spos[u] = "out"}} \ {NULL})

\* A histogram that a caller reads is not torn: its total_count is the sum of
\* its counts, although the two are updated one after the other.
HandedComplete ==
    ~destroyed => \A h \in Handed :
        cells[h][Total] = SumFunctionOnSet(cells[h], Values)

\* The header's "safe when used from callers in multiple threads": the histogram
\* whose configuration a call copies has not been closed.
ConfigReadSafe == \A r \in Readers : spos[r] = "config" => config_of[r] \in live

\* The header's "@return the histogram that was previous being recorded to": a
\* call returns a histogram.
ReturnsHistogram == \A r \in Readers : spos[r] = "return" => old_active[r] # NULL

\* Times v is counted in h, with the updates still to come of writers that
\* have loaded h.
Counted(h, v) == cells[h][v]
Awaited(h, v) ==
    Counted(h, v) +
    SumFunctionOnSet([w \in Writers |-> Cardinality({i \in DOMAIN todo[w] : todo[w][i] = v})],
                     {w \in Writers : target[w] = h})

\* Recording is atomic at the load of r->active, and sampling at its store.  From
\* then on the sample is what the old histogram will hold once its writers have
\* left, and from the return of the call on it is what the histogram does hold.
Interval == INSTANCE IntervalContract WITH
    Samples <- Histograms,
    NoSample <- NULL,
    current <- [v \in Values |-> Awaited(active, v)],
    sample <- [h \in Histograms |->
        IF h \in Handed \union {old_active[r] : r \in {q \in Readers : spos[q] = "return"}}
        THEN [v \in Values |-> Counted(h, v)]
        ELSE IF h \in {old_active[r] : r \in {q \in Readers : spos[q] = "flip"}}
        THEN [v \in Values |-> Awaited(h, v)]
        ELSE NULL]

ImplementsInterval == Interval!Spec

\* A sampler that has the lock returns, although writers keep recording, and
\* when some sampler waits for the lock some sampler gets on.
SampleCompletes ==
    /\ \A r \in Readers : spos[r] \in {"load", "store", "flip", "return"} ~> spos[r] = "out"
    /\ (\E r \in Readers : spos[r] = "lock") ~> (\E r \in Readers : spos[r] = "return")
=============================================================================
