---------------------- MODULE IntervalRecorder_proofs ----------------------
(***************************************************************************)
(* Proofs about IntervalRecorder, for any threads, any calls, and each way *)
(* of recording and sampling that RecorderAssumption allows.               *)
(***************************************************************************)
EXTENDS IntervalRecorder, WriterReaderPhaser_proofs, SumLemmas, SequenceTheorems

\* Where a sampler is in its call and where it is in the phaser.
Pairing ==
    \A r \in Readers :
        /\ spos[r] \in {"out", "config", "reset", "lock", "return"} => rpc[r] = "idle"
        /\ spos[r] \in {"load", "store"} => rpc[r] = "locked"
        /\ spos[r] = "flip" => rpc[r] # "idle"

\* What the locals of a sampler are at each point of its call, and that r->inactive
\* is for hdr_interval_recorder_sample only.
SamplerLocals ==
    /\ InactiveUsers = {} => inactive = NULL
    /\ \A r \in Readers :
          /\ via_sample[r] <=> (spos[r] # "out" /\ r \in InactiveUsers)
          /\ spos[r] \notin {"reset", "lock", "load", "store"} => histogram_to_recycle[r] = NULL
          /\ spos[r] = "reset" => histogram_to_recycle[r] # NULL
          /\ spos[r] = "store" => old_active[r] = active

\* Updates of a value and of Total alternate, and one of Total is the last.
Alternating(updates) ==
    \A i \in 1 .. Len(updates) : updates[i] = Total <=> (Len(updates) - i) % 2 = 0

\* What the locals of a writer are: a plain update has read what is still there.
WriterLocals ==
    \A w \in Writers :
        /\ wpos[w] \in {"out", "entered"} => target[w] = NULL
        /\ wpos[w] = "entered" => \E call \in Calls : todo[w] = Updates(call)
        /\ Alternating(todo[w])
        /\ wpos[w] = "write" =>
              /\ ~AtomicUpdates
              /\ target[w] # NULL /\ todo[w] # <<>>
              /\ reg[w] = cells[target[w]][Head(todo[w])]

\* A writer updates the active histogram, or one that was until a sampler replaced
\* it whose flip still has to wait for that writer.
Targets ==
    \A w \in Writers : target[w] \notin {NULL, active} =>
        \E r \in Readers :
            /\ spos[r] = "flip" /\ rpc[r] # "flipped"
            /\ target[w] = old_active[r]
            /\ rpc[r] = "spinning" => w \in InsideOf(Other(CurrentPhase))

\* Nobody uses a recorder that has been destroyed.
Unused ==
    destroyed => (\A w \in Writers : wpos[w] = "out") /\ (\A r \in Readers : spos[r] = "out")

\* The claims of SoleOwner, one by one, of which only those of callers survive the
\* recorder.
Kinds == {"active", "inactive", "recycled", "returned", "held"}
Claimed(kind, r, h) ==
    \/ kind = "active" /\ r = NULL /\ h = active /\ ~destroyed
    \/ /\ kind = "inactive" /\ r \in InactiveUsers /\ spos[r] = "out" /\ h = inactive
       /\ ~destroyed
    \/ kind = "recycled" /\ r \in Readers /\ h = histogram_to_recycle[r]
    \/ kind = "returned" /\ r \in Readers /\ spos[r] \in {"flip", "return"} /\ h = old_active[r]
    \/ kind = "held" /\ r \in Readers /\ h \in held[r]

\* Claims are made on allocated histograms, on each of them, and only once.
Ownership ==
    /\ \A kind \in Kinds, r \in Readers \union {NULL}, h \in Histograms :
          Claimed(kind, r, h) => h \in live
    /\ \A h \in live : \E kind \in Kinds, r \in Readers \union {NULL} : Claimed(kind, r, h)
    /\ \A h \in live, k, l \in Kinds, r, q \in Readers \union {NULL} :
          Claimed(k, r, h) /\ Claimed(l, q, h) => k = l /\ r = q

\* In each histogram total_count trails the counts by one for every writer that has
\* updated a count and not yet total_count.
Tally ==
    \A h \in Histograms :
        SumFunctionOnSet(cells[h], Values) = cells[h][Total]
            + Cardinality({w \in Writers : target[w] = h /\ Len(todo[w]) % 2 = 1})

\* The inductive invariant.
RecorderInv ==
    /\ IInv
    /\ RecorderTypeOK
    /\ Pairing
    /\ SamplerLocals
    /\ WriterLocals
    /\ Targets
    /\ Unused
    /\ Ownership /\ IsFiniteSet(live)
    /\ Tally

-----------------------------------------------------------------------------
(***************************************************************************)
(* The recorder uses the phaser as it is meant to be used.                 *)
(***************************************************************************)

\* Every step of the recorder is a step of the phaser or leaves it alone.
LEMMA PhaserStep == [RecorderNext]_all_vars => [PhaserNext]_phaser_vars
<1> SUFFICES ASSUME [RecorderNext]_all_vars PROVE PhaserNext \/ UNCHANGED phaser_vars
  OBVIOUS
<1>1. ASSUME NEW w \in Writers, NEW call \in Calls, RecordEnter(w, call)
      PROVE  PhaserNext
  BY <1>1 DEF RecordEnter, PhaserNext
<1>2. ASSUME NEW w \in Writers, RecordStep(w)
      PROVE  PhaserNext \/ UNCHANGED phaser_vars
  BY <1>2 DEF RecordStep, RecordLoad, RecordAdd, RecordRead, RecordWrite, RecordExit, PhaserNext
<1>3. ASSUME NEW r \in Readers,
             \/ SampleNull(r) \/ SampleInactive(r)
             \/ \E h \in Histograms : SampleRecycle(r, h) \/ CallerClose(r, h)
      PROVE  UNCHANGED phaser_vars
  BY <1>3 DEF SampleNull, SampleInactive, SampleRecycle, CallerClose
<1>4. ASSUME NEW r \in Readers, SampleLock(r) \/ SampleStep(r)
      PROVE  PhaserNext \/ UNCHANGED phaser_vars
  BY <1>4 DEF SampleLock, SampleStep, InitNew, Reset, LoadActive, StoreActive, Flip,
              SampleUnlock, SampleReturn, PhaserNext
<1>5. ASSUME Destroy PROVE UNCHANGED phaser_vars
  BY <1>5 DEF Destroy
<1>6. CASE UNCHANGED all_vars
  BY <1>6 DEF all_vars
<1> QED
  BY <1>1, <1>2, <1>3, <1>4, <1>5, <1>6 DEF RecorderNext

\* The recorder drives the phaser by its protocol, so that all that is proved of
\* the phaser holds in it.
THEOREM RecorderImplementsPhaser == RecorderSpec => PhaserSpec
<1>1. RecorderInit => PhaserInit
  BY DEF RecorderInit
<1> QED
  BY <1>1, PhaserStep, PTL DEF RecorderSpec, PhaserSpec

-----------------------------------------------------------------------------
(***************************************************************************)
(* The updates of a call.                                                  *)
(***************************************************************************)
LEMMA UpdatesFacts ==
    ASSUME NEW call \in Calls
    PROVE  /\ Updates(call) \in Seq(Cells)
           /\ Len(Updates(call)) = 2 * Len(call)
           /\ Alternating(Updates(call))
<1>1. call \in Seq(Values) /\ Total \notin Values
  BY RecorderAssumption
<1>2. ASSUME NEW i \in 1 .. 2 * Len(call)
      PROVE  /\ i % 2 = 1 => (i + 1) \div 2 \in 1 .. Len(call)
             /\ i % 2 = 0 <=> (2 * Len(call) - i) % 2 = 0
  BY <1>1
<1>3. ASSUME NEW i \in 1 .. 2 * Len(call)
      PROVE  /\ Updates(call)[i] \in Cells
             /\ Updates(call)[i] = Total <=> (2 * Len(call) - i) % 2 = 0
  BY <1>1, <1>2 DEF Updates, Cells
<1>4. Updates(call) \in Seq(Cells) /\ Len(Updates(call)) = 2 * Len(call)
  BY <1>1, <1>3 DEF Updates
<1> QED
  BY <1>3, <1>4 DEF Alternating

LEMMA TailFacts ==
    ASSUME NEW s \in Seq(Cells), s # <<>>, Alternating(s)
    PROVE  /\ Head(s) \in Cells /\ Tail(s) \in Seq(Cells)
           /\ Len(s) \in Nat /\ Len(Tail(s)) = Len(s) - 1
           /\ Alternating(Tail(s))
           /\ Head(s) = Total <=> Len(s) % 2 = 1
           /\ Head(s) = Total <=> Len(Tail(s)) % 2 # 1
<1>1. /\ Head(s) \in Cells /\ Tail(s) \in Seq(Cells)
      /\ Len(s) \in Nat \ {0} /\ Len(Tail(s)) = Len(s) - 1 /\ Head(s) = s[1]
      /\ \A i \in 1 .. Len(Tail(s)) : Tail(s)[i] = s[i + 1]
  BY HeadTailProperties, EmptySeq
<1>2. Alternating(Tail(s))
  BY <1>1 DEF Alternating
<1>3. s[1] = Total <=> (Len(s) - 1) % 2 = 0
  BY <1>1 DEF Alternating
<1>4. /\ (Len(s) - 1) % 2 = 0 <=> Len(s) % 2 = 1
      /\ (Len(s) - 1) % 2 = 0 <=> (Len(s) - 1) % 2 # 1
  BY <1>1
<1> QED
  BY <1>1, <1>2, <1>3, <1>4

-----------------------------------------------------------------------------
(***************************************************************************)
(* Types.                                                                  *)
(***************************************************************************)

\* A record call keeps the types.
LEMMA RecordTypes ==
    ASSUME IInv, RecorderTypeOK, WriterLocals, NEW w \in Writers,
           (\E call \in Calls : RecordEnter(w, call)) \/ RecordStep(w)
    PROVE  RecorderTypeOK'
<1> USE DEF RecorderTypeOK
<1>1. wpc \in [Writers -> {"outside", "inside"}]
  BY DEF IInv, PhaserTypeOK
<1>2. CASE \E call \in Calls : RecordEnter(w, call)
  <2>1. PICK call \in Calls : RecordEnter(w, call)
    BY <1>2
  <2>2. UNCHANGED <<active, inactive, cells, live, destroyed, target, reg, spos, via_sample,
                    config_of, histogram_to_recycle, old_active, held, reader_mutex>>
    BY <2>1 DEF RecordEnter, WriterEnter, sample_vars, local_vars, memory_vars, pointer_vars,
                reader_vars
  <2>3. /\ wpos' = [wpos EXCEPT ![w] = "entered"] /\ wpc' = [wpc EXCEPT ![w] = "inside"]
        /\ todo' = [todo EXCEPT ![w] = Updates(call)]
    BY <2>1 DEF RecordEnter, WriterEnter
  <2> QED
    BY <1>1, <2>2, <2>3, UpdatesFacts
<1>3. CASE RecordLoad(w)
  <2>1. UNCHANGED <<active, inactive, cells, live, destroyed, todo, reg, spos, via_sample,
                    config_of, histogram_to_recycle, old_active, held, reader_mutex, wpc>>
    BY <1>3 DEF RecordLoad, sample_vars, local_vars, memory_vars, pointer_vars,
                phaser_vars, reader_vars, writer_vars
  <2> QED
    BY <1>1, <1>3, <2>1 DEF RecordLoad
<1>4. CASE RecordAdd(w)
  <2>1. UNCHANGED <<active, inactive, live, destroyed, wpos, target, reg, spos, via_sample,
                    config_of, histogram_to_recycle, old_active, held, reader_mutex, wpc>>
    BY <1>4 DEF RecordAdd, sample_vars, local_vars, pointer_vars,
                phaser_vars, reader_vars, writer_vars
  <2>2. target[w] \in Histograms /\ Head(todo[w]) \in Cells /\ Tail(todo[w]) \in Seq(Cells)
    BY <1>4, TailFacts DEF RecordAdd, WriterLocals
  <2> QED
    BY <1>1, <1>4, <2>1, <2>2 DEF RecordAdd
<1>5. CASE RecordRead(w)
  <2>1. UNCHANGED <<active, inactive, cells, live, destroyed, target, todo, spos, via_sample,
                    config_of, histogram_to_recycle, old_active, held, reader_mutex, wpc>>
    BY <1>5 DEF RecordRead, sample_vars, local_vars, memory_vars, pointer_vars,
                phaser_vars, reader_vars, writer_vars
  <2>2. target[w] \in Histograms /\ Head(todo[w]) \in Cells
    BY <1>5, TailFacts DEF RecordRead, WriterLocals
  <2>3. /\ wpos' = [wpos EXCEPT ![w] = "write"] /\ wpos[w] = "update"
        /\ reg' \in [Writers -> Nat]
    BY <1>5, <2>2 DEF RecordRead
  <2> QED
    BY <1>1, <2>1, <2>3
<1>6. CASE RecordWrite(w)
  <2>1. UNCHANGED <<active, inactive, live, destroyed, target, spos, via_sample,
                    config_of, histogram_to_recycle, old_active, held, reader_mutex, wpc>>
    BY <1>6 DEF RecordWrite, sample_vars, local_vars, pointer_vars,
                phaser_vars, reader_vars, writer_vars
  <2>2. target[w] \in Histograms /\ Head(todo[w]) \in Cells /\ Tail(todo[w]) \in Seq(Cells)
    BY <1>6, TailFacts DEF RecordWrite, WriterLocals
  <2>3. /\ wpos' = [wpos EXCEPT ![w] = "update"] /\ wpos[w] = "write"
        /\ reg' = [reg EXCEPT ![w] = 0] /\ todo' = [todo EXCEPT ![w] = Tail(todo[w])]
    BY <1>6 DEF RecordWrite
  <2>4. cells' \in [Histograms -> [Cells -> Nat]]
    BY <1>6, <2>2 DEF RecordWrite
  <2> QED
    BY <1>1, <2>1, <2>2, <2>3, <2>4
<1>7. CASE RecordExit(w)
  <2>1. UNCHANGED <<active, inactive, cells, live, destroyed, todo, reg, spos, via_sample,
                    config_of, histogram_to_recycle, old_active, held, reader_mutex>>
    BY <1>7 DEF RecordExit, WriterExit, sample_vars, local_vars, memory_vars, pointer_vars,
                reader_vars
  <2>2. /\ wpos' = [wpos EXCEPT ![w] = "out"] /\ wpc' = [wpc EXCEPT ![w] = "outside"]
        /\ target' = [target EXCEPT ![w] = NULL]
    BY <1>7 DEF RecordExit, WriterExit
  <2> QED
    BY <1>1, <2>1, <2>2
<1> QED
  BY <1>2, <1>3, <1>4, <1>5, <1>6, <1>7 DEF RecordStep

\* So does a sample call.
LEMMA SampleTypes ==
    ASSUME IInv, RecorderTypeOK, NEW r \in Readers,
           \/ SampleNull(r) \/ SampleInactive(r)
           \/ \E h \in Histograms : SampleRecycle(r, h) \/ CallerClose(r, h)
           \/ SampleLock(r) \/ SampleStep(r)
    PROVE  RecorderTypeOK'
<1> USE DEF RecorderTypeOK, local_vars, memory_vars, pointer_vars
<1>1. NULL \notin Histograms /\ NoReader \notin Readers /\ Empty \in [Cells -> Nat]
  BY RecorderAssumption, PhaserAssumption DEF Empty
<1>2. CASE SampleNull(r) \/ SampleInactive(r)
  <2>1. UNCHANGED <<active, inactive, destroyed, cells, live, wpos, target, todo, reg,
                    old_active, held, reader_mutex, wpc>>
    BY <1>2 DEF SampleNull, SampleInactive, phaser_vars, writer_vars, reader_vars, record_vars
  <2>2. via_sample' \in [Readers -> BOOLEAN]
    <3>1. (r \in InactiveUsers) \in BOOLEAN /\ TRUE \in BOOLEAN
      OBVIOUS
    <3>2. \E b \in BOOLEAN : via_sample' = [via_sample EXCEPT ![r] = b]
      BY <1>2, <3>1, Zenon DEF SampleNull, SampleInactive
    <3> QED
      BY <3>2
  <2>4. /\ config_of' \in [Readers -> Histograms \union {NULL}]
        /\ histogram_to_recycle' \in [Readers -> Histograms \union {NULL}]
    <3>1. \/ /\ config_of' = [config_of EXCEPT ![r] = active]
             /\ UNCHANGED histogram_to_recycle
          \/ /\ histogram_to_recycle' = [histogram_to_recycle EXCEPT ![r] = inactive]
             /\ UNCHANGED config_of
      BY <1>2, Zenon DEF SampleNull, SampleInactive
    <3> QED
      BY <3>1
  <2>3. /\ spos' \in [Readers -> {"out", "config", "reset", "lock", "load", "store", "flip",
                                 "return"}]
        /\ \A q \in Readers : spos'[q] \in {"load", "store", "flip"}
                             <=> spos[q] \in {"load", "store", "flip"}
    BY <1>2 DEF SampleNull, SampleInactive
  <2> QED
    BY <2>1, <2>2, <2>3, <2>4
<1>3. CASE \E h \in Histograms : SampleRecycle(r, h)
  <2>1. PICK h \in Histograms : SampleRecycle(r, h)
    BY <1>3
  <2>2. UNCHANGED <<active, inactive, destroyed, cells, live, wpos, target, todo, reg,
                    via_sample, config_of, old_active, reader_mutex, wpc>>
    BY <2>1 DEF SampleRecycle, phaser_vars, writer_vars, reader_vars, record_vars
  <2>3. /\ held' \in [Readers -> SUBSET Histograms]
        /\ histogram_to_recycle' \in [Readers -> Histograms \union {NULL}]
    BY <2>1 DEF SampleRecycle
  <2>4. spos' = [spos EXCEPT ![r] = "reset"] /\ spos[r] = "out"
    BY <2>1 DEF SampleRecycle
  <2>5. \A q \in Readers : spos'[q] \in {"load", "store", "flip"} <=> reader_mutex' = q
    BY <2>2, <2>4
  <2>6. spos' \in [Readers -> {"out", "config", "reset", "lock", "load", "store", "flip",
                              "return"}]
    BY <2>4
  <2> QED
    BY <2>2, <2>3, <2>5, <2>6
<1>4. CASE \E h \in Histograms : CallerClose(r, h)
  BY <1>1, <1>4 DEF CallerClose, phaser_vars, writer_vars, reader_vars, record_vars
<1>5. CASE SampleLock(r)
  BY <1>1, <1>5 DEF SampleLock, ReaderLock, writer_vars, record_vars
<1>6. CASE InitNew(r)
  <2>1. UNCHANGED <<active, inactive, destroyed, wpos, target, todo, reg, via_sample,
                    old_active, held, reader_mutex, wpc>>
    BY <1>6 DEF InitNew, phaser_vars, writer_vars, reader_vars, record_vars
  <2>2. /\ live' \subseteq Histograms /\ cells' \in [Histograms -> [Cells -> Nat]]
        /\ histogram_to_recycle' \in [Readers -> Histograms \union {NULL}]
    <3>1. CASE UNCHANGED <<cells, live, histogram_to_recycle>>
      BY <3>1
    <3>2. CASE \E h \in Histograms \ live :
                 /\ live' = live \union {h}
                 /\ cells' = [cells EXCEPT ![h] = Empty]
                 /\ histogram_to_recycle' = [histogram_to_recycle EXCEPT ![r] = h]
      BY <1>1, <3>2
    <3> QED
      BY <1>6, <3>1, <3>2 DEF InitNew
  <2>3. /\ config_of' \in [Readers -> Histograms \union {NULL}]
        /\ spos' = [spos EXCEPT ![r] = "lock"] /\ spos[r] = "config"
    BY <1>6 DEF InitNew
  <2> QED
    BY <2>1, <2>2, <2>3
<1>7. CASE Reset(r)
  BY <1>1, <1>7 DEF Reset, phaser_vars, writer_vars, reader_vars, record_vars
<1>8. CASE LoadActive(r)
  BY <1>8 DEF LoadActive, phaser_vars, writer_vars, reader_vars, record_vars
<1>9. CASE StoreActive(r)
  BY <1>9 DEF StoreActive, phaser_vars, writer_vars, reader_vars, record_vars
<1>10. CASE Flip(r)
  <2>1. UNCHANGED <<reader_mutex, wpc>>
    BY <1>10 DEF Flip, FlipStep, FlipReadStart, FlipClearEnd, FlipExchange, FlipPoll, writer_vars
  <2> QED
    BY <1>10, <2>1 DEF Flip, recorder_vars, sample_vars, record_vars
<1>11. CASE SampleUnlock(r)
  BY <1>1, <1>11 DEF SampleUnlock, ReaderUnlock, writer_vars, record_vars
<1>12. CASE SampleReturn(r)
  <2>1. UNCHANGED <<active, destroyed, cells, live, wpos, target, todo, reg, config_of,
                    histogram_to_recycle, reader_mutex, wpc>>
    BY <1>12 DEF SampleReturn, phaser_vars, writer_vars, reader_vars, record_vars
  <2>2. inactive' \in Histograms \union {NULL} /\ held' \in [Readers -> SUBSET Histograms]
    BY <1>12 DEF SampleReturn
  <2>3. /\ old_active' \in [Readers -> Histograms \union {NULL}]
        /\ via_sample' \in [Readers -> BOOLEAN]
        /\ spos' = [spos EXCEPT ![r] = "out"] /\ spos[r] = "return"
    BY <1>12 DEF SampleReturn
  <2> QED
    BY <2>1, <2>2, <2>3
<1> QED
  BY <1>2, <1>3, <1>4, <1>5, <1>6, <1>7, <1>8, <1>9, <1>10, <1>11, <1>12 DEF SampleStep

-----------------------------------------------------------------------------
(***************************************************************************)
(* What a step leaves alone.                                               *)
(***************************************************************************)

\* A record call moves no pointer, no sampler and no other writer.
LEMMA RecordFrame ==
    ASSUME RecorderTypeOK, PhaserTypeOK, NEW w \in Writers,
           (\E call \in Calls : RecordEnter(w, call)) \/ RecordStep(w)
    PROVE  /\ UNCHANGED <<active, inactive, destroyed, live, spos, via_sample, config_of,
                          histogram_to_recycle, old_active, held, reader_mutex, rpc>>
           /\ \A v \in Writers \ {w} :
                 /\ wpos'[v] = wpos[v] /\ target'[v] = target[v]
                 /\ todo'[v] = todo[v] /\ reg'[v] = reg[v]
                 /\ wpc'[v] = wpc[v] /\ wval'[v] = wval[v]
<1> USE DEF sample_vars, local_vars, memory_vars, pointer_vars, reader_vars
<1>1. CASE \E call \in Calls : RecordEnter(w, call)
  <2>1. PICK call \in Calls : RecordEnter(w, call)
    BY <1>1
  <2>2. UNCHANGED <<active, inactive, destroyed, live, spos, via_sample, config_of,
                    histogram_to_recycle, old_active, held, reader_mutex, rpc, target, reg>>
    BY <2>1 DEF RecordEnter, WriterEnter
  <2> QED
    BY <2>1, <2>2 DEF RecordEnter, WriterEnter, RecorderTypeOK, PhaserTypeOK
<1>2. CASE RecordExit(w)
  <2>1. UNCHANGED <<active, inactive, destroyed, live, spos, via_sample, config_of,
                    histogram_to_recycle, old_active, held, reader_mutex, rpc, todo, reg>>
    BY <1>2 DEF RecordExit, WriterExit
  <2> QED
    BY <1>2, <2>1 DEF RecordExit, WriterExit, RecorderTypeOK, PhaserTypeOK
<1>3. CASE RecordLoad(w) \/ RecordAdd(w) \/ RecordRead(w) \/ RecordWrite(w)
  <2>1. UNCHANGED <<active, inactive, destroyed, live, spos, via_sample, config_of,
                    histogram_to_recycle, old_active, held, reader_mutex, rpc, wpc, wval>>
    BY <1>3 DEF RecordLoad, RecordAdd, RecordRead, RecordWrite, phaser_vars, writer_vars
  <2> QED
    BY <1>3, <2>1 DEF RecordLoad, RecordAdd, RecordRead, RecordWrite, RecorderTypeOK
<1> QED
  BY <1>1, <1>2, <1>3 DEF RecordStep

\* A sample call moves no writer and no other sampler.
LEMMA SampleFrame ==
    ASSUME RecorderTypeOK, PhaserTypeOK, NEW r \in Readers,
           \/ SampleNull(r) \/ SampleInactive(r)
           \/ \E h \in Histograms : SampleRecycle(r, h) \/ CallerClose(r, h)
           \/ SampleLock(r) \/ SampleStep(r)
    PROVE  /\ UNCHANGED <<wpos, target, todo, reg, wpc, wval, destroyed>>
           /\ \A q \in Readers \ {r} :
                 /\ spos'[q] = spos[q] /\ via_sample'[q] = via_sample[q]
                 /\ histogram_to_recycle'[q] = histogram_to_recycle[q]
                 /\ old_active'[q] = old_active[q] /\ held'[q] = held[q]
                 /\ rpc'[q] = rpc[q]
<1> USE DEF sample_vars, local_vars, record_vars, memory_vars, pointer_vars, phaser_vars,
            writer_vars, reader_vars
<1>1. CASE SampleNull(r) \/ SampleInactive(r)
  <2>1. UNCHANGED <<wpos, target, todo, reg, wpc, wval, destroyed, rpc, old_active, held>>
    BY <1>1 DEF SampleNull, SampleInactive
  <2>2. \E b \in BOOLEAN : via_sample' = [via_sample EXCEPT ![r] = b]
    <3>1. (r \in InactiveUsers) \in BOOLEAN /\ TRUE \in BOOLEAN
      OBVIOUS
    <3> QED
      BY <1>1, <3>1, Zenon DEF SampleNull, SampleInactive
  <2>3. /\ \E p : spos' = [spos EXCEPT ![r] = p]
        /\ \/ UNCHANGED histogram_to_recycle
           \/ histogram_to_recycle' = [histogram_to_recycle EXCEPT ![r] = inactive]
    BY <1>1, Zenon DEF SampleNull, SampleInactive
  <2> QED
    BY <2>1, <2>2, <2>3 DEF RecorderTypeOK
<1>2. CASE \E h \in Histograms : SampleRecycle(r, h) \/ CallerClose(r, h)
  <2>1. PICK h \in Histograms : SampleRecycle(r, h) \/ CallerClose(r, h)
    BY <1>2
  <2>2. UNCHANGED <<wpos, target, todo, reg, wpc, wval, destroyed, rpc, old_active, via_sample>>
    BY <2>1 DEF SampleRecycle, CallerClose
  <2> QED
    BY <2>1, <2>2 DEF SampleRecycle, CallerClose, RecorderTypeOK
<1>3. CASE SampleLock(r) \/ SampleUnlock(r)
  <2>1. UNCHANGED <<wpos, target, todo, reg, wpc, wval, destroyed, via_sample,
                    histogram_to_recycle, old_active, held>>
    BY <1>3 DEF SampleLock, SampleUnlock, ReaderLock, ReaderUnlock
  <2> QED
    BY <1>3, <2>1 DEF SampleLock, SampleUnlock, ReaderLock, ReaderUnlock, RecorderTypeOK,
                      PhaserTypeOK
<1>4. CASE Flip(r)
  <2>1. UNCHANGED <<wpos, target, todo, reg, destroyed, spos, via_sample,
                    histogram_to_recycle, old_active, held>>
    BY <1>4 DEF Flip, recorder_vars
  <2>2. UNCHANGED <<wpc, wval>> /\ \E p : rpc' = [rpc EXCEPT ![r] = p]
    BY <1>4 DEF Flip, FlipStep, FlipReadStart, FlipClearEnd, FlipExchange, FlipPoll
  <2> QED
    BY <2>1, <2>2 DEF PhaserTypeOK
<1>5. CASE InitNew(r)
  <2>1. UNCHANGED <<wpos, target, todo, reg, wpc, wval, destroyed, rpc, via_sample, old_active,
                    held>>
    BY <1>5 DEF InitNew
  <2>2. /\ \E p : spos' = [spos EXCEPT ![r] = p]
        /\ \/ UNCHANGED histogram_to_recycle
           \/ \E h : histogram_to_recycle' = [histogram_to_recycle EXCEPT ![r] = h]
    BY <1>5 DEF InitNew
  <2> QED
    BY <2>1, <2>2 DEF RecorderTypeOK
<1>6. CASE Reset(r) \/ LoadActive(r) \/ StoreActive(r)
  <2>1. UNCHANGED <<wpos, target, todo, reg, wpc, wval, destroyed, rpc, via_sample, held>>
    BY <1>6 DEF Reset, LoadActive, StoreActive
  <2> QED
    BY <1>6, <2>1 DEF Reset, LoadActive, StoreActive, RecorderTypeOK
<1>7. CASE SampleReturn(r)
  <2>1. UNCHANGED <<wpos, target, todo, reg, wpc, wval, destroyed, rpc, histogram_to_recycle>>
    BY <1>7 DEF SampleReturn
  <2>2. /\ old_active' = [old_active EXCEPT ![r] = NULL]
        /\ via_sample' = [via_sample EXCEPT ![r] = FALSE]
        /\ spos' = [spos EXCEPT ![r] = "out"]
        /\ \E own : held' = [held EXCEPT ![r] = own] \/ UNCHANGED held
    BY <1>7 DEF SampleReturn
  <2> QED
    BY <2>1, <2>2 DEF RecorderTypeOK
<1> QED
  BY <1>1, <1>2, <1>3, <1>4, <1>5, <1>6, <1>7 DEF SampleStep

\* Only one sampler at a time is between locking and unlocking.
LEMMA OneSampler ==
    ASSUME RecorderTypeOK, NEW r \in Readers, NEW q \in Readers,
           spos[r] \in {"load", "store", "flip"}, spos[q] \in {"load", "store", "flip"}
    PROVE  q = r
BY DEF RecorderTypeOK

\* A sample call keeps its place in step with the phaser, and its locals.
LEMMA SampleLocalSteps ==
    ASSUME IInv, RecorderTypeOK, Pairing, SamplerLocals, Unused, NEW r \in Readers,
           \/ SampleNull(r) \/ SampleInactive(r)
           \/ \E h \in Histograms : SampleRecycle(r, h) \/ CallerClose(r, h)
           \/ SampleLock(r) \/ SampleStep(r)
    PROVE  Pairing' /\ SamplerLocals' /\ Unused'
<1>1. PhaserTypeOK
  BY DEF IInv
<1>2. /\ UNCHANGED <<wpos, destroyed>>
      /\ \A q \in Readers \ {r} :
            /\ spos'[q] = spos[q] /\ via_sample'[q] = via_sample[q]
            /\ histogram_to_recycle'[q] = histogram_to_recycle[q]
            /\ old_active'[q] = old_active[q] /\ rpc'[q] = rpc[q]
  BY <1>1, SampleFrame
<1>3. /\ \A q \in Readers \ {r} : spos[q] = "store" => active' = active
      /\ destroyed => spos'[r] = "out"
      /\ spos'[r] \in {"out", "config", "reset", "lock", "return"} => rpc'[r] = "idle"
      /\ spos'[r] \in {"load", "store"} => rpc'[r] = "locked"
      /\ spos'[r] = "flip" => rpc'[r] # "idle"
      /\ via_sample'[r] <=> (spos'[r] # "out" /\ r \in InactiveUsers)
      /\ spos'[r] \notin {"reset", "lock", "load", "store"} => histogram_to_recycle'[r] = NULL
      /\ spos'[r] = "reset" => histogram_to_recycle'[r] # NULL
      /\ spos'[r] = "store" => old_active'[r] = active'
  <2> USE DEF sample_vars, local_vars, record_vars, memory_vars, pointer_vars, phaser_vars,
              reader_vars
  <2>0. NULL \notin Histograms
    BY RecorderAssumption
  <2>1. CASE SampleNull(r)
    <3>1. UNCHANGED <<active, rpc, histogram_to_recycle>> /\ spos[r] = "out" /\ ~destroyed
      BY <2>1 DEF SampleNull
    <3>2. spos'[r] = "config"
      BY <2>1 DEF SampleNull, RecorderTypeOK
    <3>3. via_sample'[r] <=> r \in InactiveUsers
      BY <2>1, Zenon DEF SampleNull, RecorderTypeOK
    <3> QED
      BY <3>1, <3>2, <3>3 DEF Pairing, SamplerLocals
  <2>2. CASE SampleInactive(r)
    <3>1. UNCHANGED <<active, rpc>> /\ spos[r] = "out" /\ ~destroyed
      BY <2>2 DEF SampleInactive
    <3>2. spos'[r] = "reset" /\ histogram_to_recycle'[r] = inactive /\ inactive # NULL
      BY <2>2 DEF SampleInactive, RecorderTypeOK
    <3>3. via_sample'[r] /\ r \in InactiveUsers
      BY <2>2, Zenon DEF SampleInactive, RecorderTypeOK
    <3> QED
      BY <3>1, <3>2, <3>3 DEF Pairing
  <2>3. CASE \E h \in Histograms : SampleRecycle(r, h) \/ CallerClose(r, h)
    <3>1. PICK h \in Histograms : SampleRecycle(r, h) \/ CallerClose(r, h)
      BY <2>3
    <3>2. UNCHANGED <<active, rpc, via_sample>> /\ spos[r] = "out"
      BY <3>1 DEF SampleRecycle, CallerClose
    <3>3. CASE SampleRecycle(r, h)
      <4>1. spos'[r] = "reset" /\ histogram_to_recycle'[r] = h /\ ~destroyed
        BY <3>3 DEF SampleRecycle, RecorderTypeOK
      <4>2. ~via_sample'[r] /\ r \notin InactiveUsers
        BY <3>2, <3>3 DEF SampleRecycle, SamplerLocals
      <4> QED
        BY <2>0, <3>2, <4>1, <4>2 DEF Pairing
    <3>4. CASE CallerClose(r, h)
      BY <3>2, <3>4 DEF CallerClose, Pairing, SamplerLocals
    <3> QED
      BY <3>1, <3>3, <3>4
  <2>4. CASE SampleLock(r)
    <3>1. UNCHANGED <<active, via_sample, histogram_to_recycle>> /\ spos[r] = "lock"
      BY <2>4 DEF SampleLock
    <3>2. spos'[r] = "load" /\ rpc'[r] = "locked"
      BY <1>1, <2>4 DEF SampleLock, ReaderLock, RecorderTypeOK, PhaserTypeOK
    <3> QED
      BY <3>1, <3>2 DEF SamplerLocals, Unused
  <2>5. CASE InitNew(r)
    <3>1. UNCHANGED <<active, via_sample, rpc>> /\ spos[r] = "config"
      BY <2>5 DEF InitNew
    <3>2. spos'[r] = "lock"
      BY <2>5 DEF InitNew, RecorderTypeOK
    <3> QED
      BY <3>1, <3>2 DEF Pairing, SamplerLocals, Unused
  <2>6. CASE Reset(r)
    <3>1. UNCHANGED <<active, via_sample, rpc, histogram_to_recycle>> /\ spos[r] = "reset"
      BY <2>6 DEF Reset
    <3>2. spos'[r] = "lock"
      BY <2>6 DEF Reset, RecorderTypeOK
    <3> QED
      BY <3>1, <3>2 DEF Pairing, SamplerLocals, Unused
  <2>7. CASE LoadActive(r)
    <3>1. UNCHANGED <<active, via_sample, rpc, histogram_to_recycle>> /\ spos[r] = "load"
      BY <2>7 DEF LoadActive
    <3>2. spos'[r] = "store" /\ old_active'[r] = active
      BY <2>7 DEF LoadActive, RecorderTypeOK
    <3> QED
      BY <3>1, <3>2 DEF Pairing, SamplerLocals, Unused
  <2>8. CASE StoreActive(r)
    <3>1. UNCHANGED <<via_sample, rpc>> /\ spos[r] = "store"
      BY <2>8 DEF StoreActive
    <3>2. spos'[r] = "flip" /\ histogram_to_recycle'[r] = NULL
      BY <2>8 DEF StoreActive, RecorderTypeOK
    <3>3. \A q \in Readers \ {r} : spos[q] # "store"
      BY <3>1, OneSampler
    <3> QED
      BY <3>1, <3>2, <3>3 DEF Pairing, SamplerLocals, Unused
  <2>9. CASE Flip(r)
    <3>1. UNCHANGED <<active, via_sample, spos, histogram_to_recycle>> /\ spos[r] = "flip"
      BY <2>9 DEF Flip, recorder_vars
    <3>2. rpc'[r] # "idle"
      BY <1>1, <2>9 DEF Flip, FlipStep, FlipReadStart, FlipClearEnd, FlipExchange, FlipPoll,
                        PhaserTypeOK
    <3> QED
      BY <3>1, <3>2 DEF SamplerLocals, Unused
  <2>10. CASE SampleUnlock(r)
    <3>1. UNCHANGED <<active, via_sample, histogram_to_recycle>> /\ spos[r] = "flip"
      BY <2>10 DEF SampleUnlock
    <3>2. spos'[r] = "return" /\ rpc'[r] = "idle"
      BY <1>1, <2>10 DEF SampleUnlock, ReaderUnlock, RecorderTypeOK, PhaserTypeOK
    <3> QED
      BY <3>1, <3>2 DEF SamplerLocals, Unused
  <2>11. CASE SampleReturn(r)
    <3>1. UNCHANGED <<active, rpc, histogram_to_recycle>> /\ spos[r] = "return"
      BY <2>11 DEF SampleReturn
    <3>2. spos'[r] = "out" /\ ~via_sample'[r]
      BY <2>11 DEF SampleReturn, RecorderTypeOK
    <3> QED
      BY <3>1, <3>2 DEF Pairing, SamplerLocals, Unused
  <2> QED
    BY <2>1, <2>2, <2>3, <2>4, <2>5, <2>6, <2>7, <2>8, <2>9, <2>10, <2>11 DEF SampleStep
<1>4. InactiveUsers = {} => inactive' = NULL
  <2>1. inactive' = inactive \/ via_sample[r]
    BY DEF SampleNull, SampleInactive, SampleRecycle, CallerClose, SampleLock, SampleStep,
           InitNew, Reset, LoadActive, StoreActive, Flip, SampleUnlock, SampleReturn,
           pointer_vars, recorder_vars
  <2> QED
    BY <2>1 DEF SamplerLocals
<1> QED
  BY <1>2, <1>3, <1>4 DEF Pairing, SamplerLocals, Unused

-----------------------------------------------------------------------------
(***************************************************************************)
(* Who owns which histogram.                                               *)
(***************************************************************************)

\* Claims may move between histograms of which each keeps exactly one.
LEMMA ClaimsMove ==
    ASSUME Ownership, UNCHANGED live,
           \A h \in Histograms :
              \/ \A k \in Kinds, q \in Readers \union {NULL} :
                    Claimed(k, q, h)' <=> Claimed(k, q, h)
              \/ h \in live /\ \E l \in Kinds, p \in Readers \union {NULL} :
                    \A k \in Kinds, q \in Readers \union {NULL} :
                       Claimed(k, q, h)' <=> k = l /\ q = p,
           live \subseteq Histograms
    PROVE  Ownership'
<1>1. ASSUME NEW h \in Histograms, NEW k \in Kinds, NEW q \in Readers \union {NULL},
             Claimed(k, q, h)'
      PROVE  h \in live'
  BY <1>1 DEF Ownership
<1>2. ASSUME NEW h \in live'
      PROVE  \E k \in Kinds, q \in Readers \union {NULL} : Claimed(k, q, h)'
  BY <1>2 DEF Ownership
<1>3. ASSUME NEW h \in live', NEW k \in Kinds, NEW l \in Kinds,
             NEW r \in Readers \union {NULL}, NEW q \in Readers \union {NULL},
             Claimed(k, r, h)', Claimed(l, q, h)'
      PROVE  k = l /\ r = q
  BY <1>3 DEF Ownership
<1> QED
  BY <1>1, <1>2, <1>3 DEF Ownership

\* A histogram that is allocated starts with one claim.
LEMMA ClaimsGrow ==
    ASSUME Ownership, live \subseteq Histograms, NEW g \in Histograms \ live,
           NEW l \in Kinds, NEW p \in Readers \union {NULL},
           live' = live \union {g},
           \A h \in Histograms \ {g}, k \in Kinds, q \in Readers \union {NULL} :
              Claimed(k, q, h)' <=> Claimed(k, q, h),
           \A k \in Kinds, q \in Readers \union {NULL} : Claimed(k, q, g)' <=> k = l /\ q = p
    PROVE  Ownership'
<1>1. ASSUME NEW h \in Histograms, NEW k \in Kinds, NEW q \in Readers \union {NULL},
             Claimed(k, q, h)'
      PROVE  h \in live'
  BY <1>1 DEF Ownership
<1>2. ASSUME NEW h \in live'
      PROVE  \E k \in Kinds, q \in Readers \union {NULL} : Claimed(k, q, h)'
  BY <1>2 DEF Ownership
<1>3. ASSUME NEW h \in live', NEW k \in Kinds, NEW m \in Kinds,
             NEW r \in Readers \union {NULL}, NEW q \in Readers \union {NULL},
             Claimed(k, r, h)', Claimed(m, q, h)'
      PROVE  k = m /\ r = q
  BY <1>3 DEF Ownership
<1> QED
  BY <1>1, <1>2, <1>3 DEF Ownership

\* The histograms that are closed lose all their claims.
LEMMA ClaimsShrink ==
    ASSUME Ownership, live \subseteq Histograms, NEW G, live' = live \ G,
           \A h \in Histograms, k \in Kinds, q \in Readers \union {NULL} :
              Claimed(k, q, h)' <=> Claimed(k, q, h) /\ h \notin G
    PROVE  Ownership'
<1>1. ASSUME NEW h \in Histograms, NEW k \in Kinds, NEW q \in Readers \union {NULL},
             Claimed(k, q, h)'
      PROVE  h \in live'
  BY <1>1 DEF Ownership
<1>2. ASSUME NEW h \in live'
      PROVE  \E k \in Kinds, q \in Readers \union {NULL} : Claimed(k, q, h)'
  BY <1>2 DEF Ownership
<1>3. ASSUME NEW h \in live', NEW k \in Kinds, NEW l \in Kinds,
             NEW r \in Readers \union {NULL}, NEW q \in Readers \union {NULL},
             Claimed(k, r, h)', Claimed(l, q, h)'
      PROVE  k = l /\ r = q
  BY <1>3 DEF Ownership
<1> QED
  BY <1>1, <1>2, <1>3 DEF Ownership

\* A histogram that is claimed in one way is claimed in no other.
LEMMA OneClaim ==
    ASSUME Ownership, NEW h \in Histograms, NEW l \in Kinds, NEW p \in Readers \union {NULL},
           Claimed(l, p, h)
    PROVE  /\ h \in live
           /\ \A k \in Kinds, q \in Readers \union {NULL} : Claimed(k, q, h) <=> k = l /\ q = p
BY DEF Ownership

\* A claim depends on the place of a sampler only as far as it decides whether
\* r->inactive is in use and whether old_active is.
LEMMA ClaimsStay ==
    ASSUME UNCHANGED <<active, inactive, destroyed, histogram_to_recycle, held>>,
           \A q \in Readers :
              /\ spos'[q] = "out" <=> spos[q] = "out"
              /\ spos'[q] \in {"flip", "return"} <=> spos[q] \in {"flip", "return"}
              /\ spos[q] \in {"flip", "return"} => old_active'[q] = old_active[q]
    PROVE  \A h \in Histograms, k \in Kinds, q \in Readers \union {NULL} :
              Claimed(k, q, h)' <=> Claimed(k, q, h)
<1>1. InactiveUsers \subseteq Readers
  BY RecorderAssumption
<1> QED
  BY <1>1 DEF Claimed

\* A record call makes and drops no claim.
LEMMA RecordOwnership ==
    ASSUME RecorderTypeOK, PhaserTypeOK, Ownership, IsFiniteSet(live), NEW w \in Writers,
           (\E call \in Calls : RecordEnter(w, call)) \/ RecordStep(w)
    PROVE  Ownership' /\ IsFiniteSet(live)'
<1>1. UNCHANGED <<active, inactive, destroyed, live, spos, histogram_to_recycle, old_active,
                  held>>
  BY RecordFrame
<1>2. \A h \in Histograms, k \in Kinds, q \in Readers \union {NULL} :
         Claimed(k, q, h)' <=> Claimed(k, q, h)
  BY <1>1 DEF Claimed
<1> QED
  BY <1>1, <1>2, ClaimsMove DEF RecorderTypeOK

\* A sample call makes a claim on what it allocates, and passes it on from one
\* place to the next; a caller that closes a histogram drops its claim.
LEMMA SampleOwnership ==
    ASSUME RecorderTypeOK, PhaserTypeOK, SamplerLocals, Unused, Ownership, IsFiniteSet(live),
           NEW r \in Readers,
           \/ SampleNull(r) \/ SampleInactive(r)
           \/ \E h \in Histograms : SampleRecycle(r, h) \/ CallerClose(r, h)
           \/ SampleLock(r) \/ SampleStep(r)
    PROVE  Ownership' /\ IsFiniteSet(live)'
<1> USE DEF sample_vars, local_vars, record_vars, memory_vars, pointer_vars, Kinds
<1>1. /\ NULL \notin Histograms /\ live \subseteq Histograms
      /\ InactiveUsers \subseteq Readers
      /\ \A u, v \in InactiveUsers : u = v
  BY RecorderAssumption DEF RecorderTypeOK
<1>2. /\ destroyed' = destroyed
      /\ \A q \in Readers \ {r} :
            /\ spos'[q] = spos[q]
            /\ histogram_to_recycle'[q] = histogram_to_recycle[q]
            /\ old_active'[q] = old_active[q] /\ held'[q] = held[q]
  BY SampleFrame
<1>3. CASE SampleNull(r)
  <2>1. /\ UNCHANGED <<active, inactive, live, histogram_to_recycle, old_active, held>>
        /\ spos[r] = "out" /\ (r \in InactiveUsers => inactive = NULL)
    BY <1>3 DEF SampleNull
  <2>2. spos'[r] = "config"
    BY <1>3 DEF SampleNull, RecorderTypeOK
  <2>3. \A h \in Histograms, k \in Kinds, q \in Readers \union {NULL} :
           Claimed(k, q, h)' <=> Claimed(k, q, h)
    BY <1>1, <1>2, <2>1, <2>2 DEF Claimed
  <2> QED
    BY <1>1, <2>1, <2>3, ClaimsMove
<1>4. CASE SampleInactive(r)
  <2>1. /\ UNCHANGED <<active, inactive, live, old_active, held>>
        /\ spos[r] = "out" /\ ~destroyed /\ r \in InactiveUsers /\ inactive \in Histograms
    BY <1>4 DEF SampleInactive, RecorderTypeOK
  <2>2. spos'[r] = "reset" /\ histogram_to_recycle'[r] = inactive
    BY <1>4 DEF SampleInactive, RecorderTypeOK
  <2>3. histogram_to_recycle[r] = NULL
    BY <2>1 DEF SamplerLocals
  <2>4. Claimed("inactive", r, inactive)
    BY <2>1 DEF Claimed
  <2>5. \A h \in Histograms \ {inactive}, k \in Kinds, q \in Readers \union {NULL} :
           Claimed(k, q, h)' <=> Claimed(k, q, h)
    BY <1>1, <1>2, <2>1, <2>2, <2>3 DEF Claimed
  <2>6. inactive \in live /\ \A k \in Kinds, q \in Readers \union {NULL} :
                                Claimed(k, q, inactive) <=> k = "inactive" /\ q = r
    BY <2>1, <2>4, OneClaim
  <2>7. \A k \in Kinds, q \in Readers \union {NULL} :
           Claimed(k, q, inactive)' <=> k = "recycled" /\ q = r
    BY <1>1, <1>2, <2>1, <2>2, <2>6 DEF Claimed
  <2> QED
    BY <1>1, <2>1, <2>5, <2>6, <2>7, ClaimsMove
<1>5. ASSUME NEW g \in Histograms, SampleRecycle(r, g) PROVE Ownership' /\ IsFiniteSet(live)'
  <2>1. /\ UNCHANGED <<active, inactive, live, old_active>>
        /\ spos[r] = "out" /\ ~destroyed /\ r \notin InactiveUsers /\ g \in held[r]
    BY <1>5 DEF SampleRecycle
  <2>2. spos'[r] = "reset" /\ histogram_to_recycle'[r] = g /\ held'[r] = held[r] \ {g}
    BY <1>5 DEF SampleRecycle, RecorderTypeOK
  <2>3. histogram_to_recycle[r] = NULL
    BY <2>1 DEF SamplerLocals
  <2>4. Claimed("held", r, g)
    BY <2>1 DEF Claimed
  <2>5. \A h \in Histograms \ {g}, k \in Kinds, q \in Readers \union {NULL} :
           Claimed(k, q, h)' <=> Claimed(k, q, h)
    BY <1>1, <1>2, <2>1, <2>2, <2>3 DEF Claimed
  <2>6. g \in live /\ \A k \in Kinds, q \in Readers \union {NULL} :
                         Claimed(k, q, g) <=> k = "held" /\ q = r
    BY <2>4, OneClaim
  <2>7. \A k \in Kinds, q \in Readers \union {NULL} :
           Claimed(k, q, g)' <=> k = "recycled" /\ q = r
    BY <1>1, <1>2, <2>1, <2>2, <2>6 DEF Claimed
  <2> QED
    BY <1>1, <2>1, <2>5, <2>6, <2>7, ClaimsMove
<1>6. ASSUME NEW g \in Histograms, CallerClose(r, g) PROVE Ownership' /\ IsFiniteSet(live)'
  <2>1. /\ UNCHANGED <<active, inactive, spos, histogram_to_recycle, old_active>>
        /\ live' = live \ {g} /\ g \in held[r]
    BY <1>6 DEF CallerClose
  <2>2. held'[r] = held[r] \ {g}
    BY <1>6 DEF CallerClose, RecorderTypeOK
  <2>3. Claimed("held", r, g)
    BY <2>1 DEF Claimed
  <2>4. \A h \in Histograms \ {g}, k \in Kinds, q \in Readers \union {NULL} :
           Claimed(k, q, h)' <=> Claimed(k, q, h)
    BY <1>2, <2>1, <2>2 DEF Claimed
  <2>5. \A k \in Kinds, q \in Readers \union {NULL} : Claimed(k, q, g) <=> k = "held" /\ q = r
    BY <2>3, OneClaim
  <2>6. \A k \in Kinds, q \in Readers \union {NULL} : ~Claimed(k, q, g)'
    BY <1>2, <2>1, <2>2, <2>5 DEF Claimed
  <2>7. \A h \in Histograms, k \in Kinds, q \in Readers \union {NULL} :
           Claimed(k, q, h)' <=> Claimed(k, q, h) /\ h \notin {g}
    BY <2>4, <2>6
  <2> QED
    BY <1>1, <2>1, <2>7, ClaimsShrink, FS_Subset
<1>7. CASE InitNew(r)
  <2>1. /\ UNCHANGED <<active, inactive, old_active, held>> /\ spos[r] = "config"
    BY <1>7 DEF InitNew
  <2>2. spos'[r] = "lock" /\ histogram_to_recycle[r] = NULL
    BY <1>7, <2>1 DEF InitNew, RecorderTypeOK, SamplerLocals
  <2>3. CASE UNCHANGED <<live, histogram_to_recycle>>
    <3>1. \A h \in Histograms, k \in Kinds, q \in Readers \union {NULL} :
             Claimed(k, q, h)' <=> Claimed(k, q, h)
      BY <1>2, <2>1, <2>2, <2>3, ClaimsStay
    <3> QED
      BY <1>1, <2>3, <3>1, ClaimsMove
  <2>5. spos'[r] \notin {"out", "flip", "return"} /\ spos[r] \notin {"out", "flip", "return"}
    BY <2>1, <2>2
  <2>4. ASSUME NEW g \in Histograms \ live, live' = live \union {g},
               histogram_to_recycle' = [histogram_to_recycle EXCEPT ![r] = g]
        PROVE  Ownership' /\ IsFiniteSet(live)'
    <3>1. histogram_to_recycle'[r] = g
      BY <2>4 DEF RecorderTypeOK
    <3>2. \A h \in Histograms \ {g}, k \in Kinds, q \in Readers \union {NULL} :
             Claimed(k, q, h)' <=> Claimed(k, q, h)
      BY <1>1, <1>2, <2>1, <2>2, <2>5, <3>1 DEF Claimed
    <3>3. \A k \in Kinds, q \in Readers \union {NULL} : ~Claimed(k, q, g)
      BY <2>4 DEF Ownership
    <3>4. \A k \in Kinds, q \in Readers \union {NULL} :
             Claimed(k, q, g)' <=> k = "recycled" /\ q = r
      BY <1>1, <1>2, <2>1, <2>2, <2>5, <3>1, <3>3 DEF Claimed
    <3>5. "recycled" \in Kinds
      OBVIOUS
    <3> QED
      BY <1>1, <2>4, <3>2, <3>4, <3>5, ClaimsGrow, FS_AddElement
  <2> QED
    BY <1>7, <2>3, <2>4 DEF InitNew
<1>8. CASE Reset(r) \/ SampleLock(r) \/ LoadActive(r)
  <2>1. /\ UNCHANGED <<active, inactive, live, histogram_to_recycle, held>>
        /\ spos[r] \in {"reset", "lock", "load"}
    BY <1>8 DEF Reset, SampleLock, LoadActive
  <2>2. spos'[r] \in {"lock", "load", "store"}
    BY <1>8 DEF Reset, SampleLock, LoadActive, RecorderTypeOK
  <2>3. \A h \in Histograms, k \in Kinds, q \in Readers \union {NULL} :
           Claimed(k, q, h)' <=> Claimed(k, q, h)
    BY <1>2, <2>1, <2>2, ClaimsStay
  <2> QED
    BY <1>1, <2>1, <2>3, ClaimsMove
<1>9. CASE Flip(r) \/ SampleUnlock(r)
  <2>1. /\ UNCHANGED <<active, inactive, live, histogram_to_recycle, old_active, held>>
        /\ spos[r] = "flip"
    BY <1>9 DEF Flip, SampleUnlock, recorder_vars
  <2>2. spos'[r] \in {"flip", "return"}
    BY <1>9 DEF Flip, SampleUnlock, RecorderTypeOK, recorder_vars
  <2>3. \A h \in Histograms, k \in Kinds, q \in Readers \union {NULL} :
           Claimed(k, q, h)' <=> Claimed(k, q, h)
    BY <1>2, <2>1, <2>2, ClaimsStay
  <2> QED
    BY <1>1, <2>1, <2>3, ClaimsMove
<1>10. CASE StoreActive(r)
  <2>0. PICK new, last : new = histogram_to_recycle[r] /\ last = active
    OBVIOUS
  <2>1. /\ UNCHANGED <<inactive, live, old_active, held>>
        /\ spos[r] = "store" /\ active' = new /\ ~destroyed
    BY <1>10, <2>0 DEF StoreActive, Unused
  <2>2. spos'[r] = "flip" /\ histogram_to_recycle'[r] = NULL /\ old_active[r] = last
    BY <1>10, <2>0, <2>1 DEF StoreActive, RecorderTypeOK, SamplerLocals
  <2>3. /\ "active" \in Kinds /\ "recycled" \in Kinds /\ "returned" \in Kinds
        /\ r \in Readers \union {NULL} /\ NULL \in Readers \union {NULL}
    OBVIOUS
  <2>4. ASSUME new \in Histograms
        PROVE  /\ new \in live /\ new # last
               /\ \A k \in Kinds, q \in Readers \union {NULL} :
                     Claimed(k, q, new) <=> k = "recycled" /\ q = r
    <3>1. Claimed("recycled", r, new) /\ Claimed("active", NULL, last)
      BY <2>0, <2>1 DEF Claimed
    <3> QED
      BY <2>3, <2>4, <3>1, OneClaim
  <2>5. ASSUME last \in Histograms
        PROVE  /\ last \in live
               /\ \A k \in Kinds, q \in Readers \union {NULL} :
                     Claimed(k, q, last) <=> k = "active" /\ q = NULL
    <3>1. Claimed("active", NULL, last)
      BY <2>0, <2>1 DEF Claimed
    <3> QED
      BY <2>3, <2>5, <3>1, OneClaim
  <2>6. \A h \in Histograms \ {last, new}, k \in Kinds, q \in Readers \union {NULL} :
           Claimed(k, q, h)' <=> Claimed(k, q, h)
    BY <1>1, <1>2, <2>0, <2>1, <2>2 DEF Claimed
  <2>7. ASSUME new \in Histograms, NEW k \in Kinds, NEW q \in Readers \union {NULL}
        PROVE  Claimed(k, q, new)' <=> k = "active" /\ q = NULL
    BY <1>1, <1>2, <2>0, <2>1, <2>2, <2>4, <2>7 DEF Claimed
  <2>8. ASSUME last \in Histograms, NEW k \in Kinds, NEW q \in Readers \union {NULL}
        PROVE  Claimed(k, q, last)' <=> k = "returned" /\ q = r
    BY <1>1, <1>2, <2>0, <2>1, <2>2, <2>4, <2>5, <2>8 DEF Claimed
  <2> QED
    BY <1>1, <2>1, <2>3, <2>4, <2>5, <2>6, <2>7, <2>8, ClaimsMove
<1>11. CASE SampleReturn(r)
  <2>0. PICK old : old = old_active[r]
    OBVIOUS
  <2>1. /\ UNCHANGED <<active, live, histogram_to_recycle>>
        /\ spos[r] = "return" /\ ~destroyed
    BY <1>11 DEF SampleReturn, Unused
  <2>2. spos'[r] = "out" /\ old \in Histograms \union {NULL}
    BY <1>11, <2>0 DEF SampleReturn, RecorderTypeOK
  <2>3. \/ r \in InactiveUsers /\ inactive' = old /\ UNCHANGED held
        \/ /\ r \notin InactiveUsers /\ UNCHANGED inactive
           /\ held'[r] = held[r] \union ({old} \ {NULL})
    BY <1>11, <2>0, <2>1 DEF SampleReturn, RecorderTypeOK, SamplerLocals
  <2>4. \A h \in Histograms \ {old}, k \in Kinds, q \in Readers \union {NULL} :
           Claimed(k, q, h)' <=> Claimed(k, q, h)
    <3>1. CASE r \in InactiveUsers
      BY <1>1, <1>2, <2>0, <2>1, <2>2, <2>3, <3>1 DEF Claimed
    <3>2. CASE r \notin InactiveUsers
      BY <1>1, <1>2, <2>0, <2>1, <2>2, <2>3, <3>2 DEF Claimed
    <3> QED
      BY <3>1, <3>2
  <2>5. ASSUME old \in Histograms
        PROVE  /\ old \in live
               /\ \E l \in Kinds, p \in Readers \union {NULL} :
                     \A k \in Kinds, q \in Readers \union {NULL} :
                        Claimed(k, q, old)' <=> k = l /\ q = p
    <3>1. Claimed("returned", r, old) /\ "returned" \in Kinds
      BY <2>0, <2>1 DEF Claimed
    <3>2. /\ old \in live
          /\ \A k \in Kinds, q \in Readers \union {NULL} :
                Claimed(k, q, old) <=> k = "returned" /\ q = r
      BY <2>5, <3>1, OneClaim
    <3>3. CASE r \in InactiveUsers
      <4>1. \A k \in Kinds, q \in Readers \union {NULL} :
               Claimed(k, q, old)' <=> k = "inactive" /\ q = r
        BY <1>1, <1>2, <2>0, <2>1, <2>2, <2>3, <3>2, <3>3 DEF Claimed
      <4> QED
        BY <3>2, <4>1
    <3>4. CASE r \notin InactiveUsers
      <4>1. \A k \in Kinds, q \in Readers \union {NULL} :
               Claimed(k, q, old)' <=> k = "held" /\ q = r
        BY <1>1, <1>2, <2>0, <2>1, <2>2, <2>3, <2>5, <3>2, <3>4 DEF Claimed
      <4> QED
        BY <3>2, <4>1
    <3> QED
      BY <3>3, <3>4
  <2> QED
    BY <1>1, <2>1, <2>4, <2>5, ClaimsMove
<1> QED
  BY <1>3, <1>4, <1>5, <1>6, <1>7, <1>8, <1>9, <1>10, <1>11 DEF SampleStep

-----------------------------------------------------------------------------
(***************************************************************************)
(* Which histograms writers update.                                        *)
(***************************************************************************)

\* A writer that has a target is inside its critical section.
LEMMA TargetFacts ==
    ASSUME RecorderTypeOK, PhaserTypeOK, WriterLocals, Unused, NEW w \in Writers,
           target[w] # NULL
    PROVE  /\ target[w] \in Histograms
           /\ wpos[w] \in {"update", "write"}
           /\ w \in Inside
           /\ ~destroyed
BY DEF RecorderTypeOK, WriterLocals, Unused, Inside

\* The target of a writer is claimed as the active histogram, or as one that a
\* sampler will return when its flip is over.
LEMMA TargetClaimed ==
    ASSUME RecorderTypeOK, PhaserTypeOK, WriterLocals, Unused, Targets, NEW w \in Writers,
           target[w] # NULL
    PROVE  \/ Claimed("active", NULL, target[w])
           \/ \E r \in Readers : Claimed("returned", r, target[w])
BY TargetFacts DEF Targets, Claimed

\* So no writer is about to update a histogram that is claimed in another way, or
\* not at all.
LEMMA NoWriterOf ==
    ASSUME RecorderTypeOK, PhaserTypeOK, WriterLocals, Unused, Targets, Ownership,
           NEW h \in Histograms,
           \/ h \notin live
           \/ \E k \in {"inactive", "recycled", "held"}, q \in Readers : Claimed(k, q, h)
    PROVE  \A w \in Writers : target[w] # h
<1>1. SUFFICES ASSUME NEW w \in Writers, target[w] = h PROVE FALSE
  OBVIOUS
<1>2. NULL \notin Histograms
  BY RecorderAssumption
<1>3. PICK l \in {"active", "returned"}, p \in Readers \union {NULL} : Claimed(l, p, h)
  <2>1. \/ Claimed("active", NULL, h) \/ \E r \in Readers : Claimed("returned", r, h)
    BY <1>1, <1>2, TargetClaimed
  <2> QED
    BY <2>1
<1>4. {"active", "returned", "inactive", "recycled", "held"} \subseteq Kinds
  BY DEF Kinds
<1>5. h \in live /\ \A k \in Kinds, q \in Readers \union {NULL} : Claimed(k, q, h) <=> k = l /\ q = p
  BY <1>3, <1>4, OneClaim
<1> QED
  BY <1>3, <1>4, <1>5

\* A record call loads the active histogram, while it is inside.
LEMMA RecordTargets ==
    ASSUME IInv, RecorderTypeOK, WriterLocals, Unused, Targets, NEW w \in Writers,
           (\E call \in Calls : RecordEnter(w, call)) \/ RecordStep(w)
    PROVE  Targets'
<1>1. PhaserTypeOK
  BY DEF IInv
<1>2. /\ UNCHANGED <<active, spos, old_active, rpc>>
      /\ \A v \in Writers \ {w} : target'[v] = target[v] /\ wpc'[v] = wpc[v] /\ wval'[v] = wval[v]
  BY <1>1, RecordFrame
<1>3. target'[w] \in {NULL, active, target[w]}
  BY DEF RecordStep, RecordEnter, RecordLoad, RecordAdd, RecordRead, RecordWrite, RecordExit,
         RecorderTypeOK
<1>4. CurrentPhase' = CurrentPhase
  <2>1. CASE \E call \in Calls : RecordEnter(w, call)
    BY <2>1, EnterStep DEF RecordEnter
  <2>2. CASE RecordStep(w)
    BY <2>2 DEF RecordStep, RecordLoad, RecordAdd, RecordRead, RecordWrite, RecordExit,
                WriterExit, phaser_vars, epoch_vars, CurrentPhase
  <2> QED
    BY <2>1, <2>2
<1>5. target'[w] \notin {NULL, active} => target'[w] = target[w] /\ UNCHANGED <<wpc, wval>>
  <2>1. CASE \E call \in Calls : RecordEnter(w, call)
    BY <2>1 DEF RecordEnter, WriterLocals
  <2>2. CASE RecordExit(w) \/ RecordLoad(w)
    BY <2>2 DEF RecordExit, RecordLoad, RecorderTypeOK
  <2>3. CASE RecordAdd(w) \/ RecordRead(w) \/ RecordWrite(w)
    BY <2>3 DEF RecordAdd, RecordRead, RecordWrite, phaser_vars, writer_vars
  <2> QED
    BY <2>1, <2>2, <2>3 DEF RecordStep
<1>6. ASSUME NEW v \in Writers, target'[v] \notin {NULL, active}
      PROVE  /\ target'[v] = target[v]
             /\ wpc'[v] = wpc[v] /\ wval'[v] = wval[v]
  BY <1>2, <1>5, <1>6
<1>7. ASSUME NEW v \in Writers, target'[v] \notin {NULL, active'}
      PROVE  \E r \in Readers :
                /\ spos'[r] = "flip" /\ rpc'[r] # "flipped"
                /\ target'[v] = old_active'[r]
                /\ rpc'[r] = "spinning" => v \in InsideOf(Other(CurrentPhase))'
  <2>1. PICK r \in Readers :
            /\ spos[r] = "flip" /\ rpc[r] # "flipped"
            /\ target[v] = old_active[r]
            /\ rpc[r] = "spinning" => v \in InsideOf(Other(CurrentPhase))
    BY <1>2, <1>6, <1>7 DEF Targets
  <2>2. v \in InsideOf(Other(CurrentPhase)) => v \in InsideOf(Other(CurrentPhase))'
    BY <1>2, <1>4, <1>6, <1>7 DEF InsideOf, Inside
  <2> QED
    BY <1>2, <1>6, <1>7, <2>1, <2>2
<1> QED
  BY <1>7 DEF Targets

\* A sampler whose flip returns has no writer left on the histogram it replaced.
LEMMA SampleTargets ==
    ASSUME IInv, RecorderTypeOK, Pairing, SamplerLocals, WriterLocals, Unused, Targets,
           NEW r \in Readers,
           \/ SampleNull(r) \/ SampleInactive(r)
           \/ \E h \in Histograms : SampleRecycle(r, h) \/ CallerClose(r, h)
           \/ SampleLock(r) \/ SampleStep(r)
    PROVE  Targets'
<1>1. PhaserTypeOK
  BY DEF IInv
<1>2. /\ UNCHANGED <<target, wpc, wval>>
      /\ \A q \in Readers \ {r} :
            spos'[q] = spos[q] /\ old_active'[q] = old_active[q] /\ rpc'[q] = rpc[q]
  BY <1>1, SampleFrame
<1>3. \A p : InsideOf(p)' = InsideOf(p)
  BY <1>2 DEF InsideOf, Inside
<1>4. CASE ~(StoreActive(r) \/ Flip(r) \/ SampleUnlock(r))
  <2>1. UNCHANGED <<active, start_epoch>> /\ spos[r] # "flip"
    BY <1>4 DEF SampleNull, SampleInactive, SampleRecycle, CallerClose, SampleLock, SampleStep,
                InitNew, Reset, LoadActive, SampleReturn, ReaderLock, pointer_vars, phaser_vars,
                epoch_vars
  <2>2. CurrentPhase' = CurrentPhase
    BY <2>1 DEF CurrentPhase
  <2> QED
    BY <1>2, <1>3, <2>1, <2>2 DEF Targets
<1>5. CASE StoreActive(r)
  <2>1. /\ UNCHANGED <<old_active, rpc>> /\ spos[r] = "store"
    BY <1>5 DEF StoreActive, phaser_vars, reader_vars
  <2>2. spos'[r] = "flip" /\ old_active[r] = active /\ rpc[r] = "locked"
    BY <1>5, <2>1 DEF StoreActive, RecorderTypeOK, SamplerLocals, Pairing
  <2>3. \A q \in Readers \ {r} : spos[q] # "flip"
    BY <2>1, OneSampler
  <2>4. \A w \in Writers : target[w] \in {NULL, active}
    BY <2>1, <2>3 DEF Targets
  <2> QED
    BY <1>2, <2>1, <2>2, <2>4 DEF Targets
<1>6. CASE Flip(r) \/ SampleUnlock(r)
  <2>1. spos[r] = "flip" /\ UNCHANGED <<active, old_active>>
    BY <1>6 DEF Flip, SampleUnlock, recorder_vars, sample_vars, local_vars, pointer_vars
  <2>2. \A w \in Writers : target[w] \notin {NULL, active} =>
              /\ rpc[r] # "flipped" /\ target[w] = old_active[r]
              /\ rpc[r] = "spinning" => w \in InsideOf(Other(CurrentPhase))
    BY <2>1, OneSampler DEF Targets
  <2>3. ASSUME NEW w \in Writers, target[w] \notin {NULL, active}
        PROVE  /\ spos'[r] = "flip" /\ rpc'[r] # "flipped"
               /\ rpc'[r] = "spinning" => w \in InsideOf(Other(CurrentPhase))'
    <3>1. Flip(r) /\ spos'[r] = "flip"
      BY <1>6, <2>1, <2>2, <2>3 DEF Flip, SampleUnlock, recorder_vars, sample_vars
    <3>2. CASE FlipReadStart(r) \/ FlipClearEnd(r)
      BY <1>1, <3>1, <3>2 DEF FlipReadStart, FlipClearEnd, PhaserTypeOK
    <3>3. CASE FlipExchange(r)
      <4>1. CurrentPhase' = Other(CurrentPhase) /\ Other(Other(CurrentPhase)) = CurrentPhase
        BY <3>3, ExchangeStep, PhaseFacts DEF CurrentPhase
      <4>2. Spinning = {}
        BY <3>3, OthersIdle DEF FlipExchange, IInv, Spinning
      <4>3. w \in Inside /\ InsideOf(Other(CurrentPhase)) = {}
        BY <1>1, <2>3, <4>2, TargetFacts DEF IInv, NoStragglers
      <4>4. w \in InsideOf(CurrentPhase)
        BY <1>1, <4>3, InsideSplit
      <4>5. w \in InsideOf(Other(CurrentPhase))'
        BY <1>2, <4>1, <4>4 DEF InsideOf, Inside
      <4> QED
        BY <1>1, <3>1, <3>3, <4>5 DEF FlipExchange, PhaserTypeOK
    <3>4. CASE FlipPoll(r)
      BY <2>2, <2>3, <3>4, PollStep DEF FlipPoll
    <3> QED
      BY <3>1, <3>2, <3>3, <3>4 DEF Flip, FlipStep
  <2> QED
    BY <1>2, <2>1, <2>2, <2>3 DEF Targets
<1> QED
  BY <1>4, <1>5, <1>6

-----------------------------------------------------------------------------
(***************************************************************************)
(* Counts.                                                                 *)
(***************************************************************************)

\* The writers that have updated a count of h and not yet its total_count.
Lagging(h) == {w \in Writers : target[w] = h /\ Len(todo[w]) % 2 = 1}

\* The sums that Tally is about.
LEMMA CellFacts ==
    ASSUME RecorderTypeOK, NEW h \in Histograms
    PROVE  /\ IsFiniteSet(Values) /\ Total \notin Values
           /\ \A c \in Cells : cells[h][c] \in Int
           /\ \A v \in Values : v \in Cells /\ cells[h][v] \in Int
           /\ Total \in Cells
           /\ SumFunctionOnSet(cells[h], Values) \in Int
           /\ IsFiniteSet(Lagging(h)) /\ Cardinality(Lagging(h)) \in Nat
<1>1. IsFiniteSet(Values) /\ Total \notin Values
  BY RecorderAssumption
<1>2. /\ \A c \in Cells : cells[h][c] \in Int
      /\ \A v \in Values : v \in Cells /\ cells[h][v] \in Int
      /\ Total \in Cells
  BY DEF RecorderTypeOK, Cells
<1>3. SumFunctionOnSet(cells[h], Values) \in Int
  BY <1>1, <1>2, SumInt
<1>4. IsFiniteSet(Lagging(h))
  BY PhaserAssumption, FS_Subset DEF Lagging
<1> QED
  BY <1>1, <1>2, <1>3, <1>4, FS_CardinalityType

\* A cell of the target of a writer is counted up: the next one of its call.
LEMMA TallyUpdate ==
    ASSUME RecorderTypeOK, WriterLocals, Tally, NEW w \in Writers,
           target[w] # NULL, todo[w] # <<>>,
           cells' = [cells EXCEPT ![target[w]][Head(todo[w])] = @ + 1],
           todo' = [todo EXCEPT ![w] = Tail(@)],
           UNCHANGED target
    PROVE  Tally'
<1>1. PICK g \in Histograms : g = target[w]
  BY DEF RecorderTypeOK
<1>2. PICK c \in Cells : c = Head(todo[w])
  BY TailFacts DEF RecorderTypeOK, WriterLocals
<1>3. /\ c = Total <=> Len(todo[w]) % 2 = 1
      /\ c = Total <=> Len(todo'[w]) % 2 # 1
  BY <1>2, TailFacts DEF RecorderTypeOK, WriterLocals
<1>4. \A v \in Writers \ {w} : todo'[v] = todo[v]
  BY DEF RecorderTypeOK
<1>5. ASSUME NEW h \in Histograms \ {g}
      PROVE  cells'[h] = cells[h] /\ Lagging(h)' = Lagging(h)
  <2>1. cells'[h] = cells[h]
    BY <1>1, <1>2 DEF RecorderTypeOK
  <2>2. target[w] # h /\ UNCHANGED target
    BY <1>1
  <2>3. Lagging(h)' = Lagging(h)
    BY <1>4, <2>2 DEF Lagging
  <2> QED
    BY <2>1, <2>3
<1>6. /\ cells'[g][c] = cells[g][c] + 1
      /\ \A d \in Cells \ {c} : cells'[g][d] = cells[g][d]
  BY <1>1, <1>2 DEF RecorderTypeOK
<1>8. SumFunctionOnSet(cells'[g], Values) = cells'[g][Total] + Cardinality(Lagging(g)')
  <2>1. SumFunctionOnSet(cells[g], Values) = cells[g][Total] + Cardinality(Lagging(g))
    BY DEF Tally, Lagging
  <2>2. CASE c = Total
    <3>1. w \in Lagging(g) /\ Lagging(g)' = Lagging(g) \ {w}
      BY <1>1, <1>3, <1>4, <2>2 DEF Lagging
    <3>2. Cardinality(Lagging(g)') = Cardinality(Lagging(g)) - 1
      <4>1. IsFiniteSet(Lagging(g))
        BY CellFacts
      <4> HIDE DEF Lagging
      <4> QED
        BY <3>1, <4>1, FS_RemoveElement
    <3>3. SumFunctionOnSet(cells'[g], Values) = SumFunctionOnSet(cells[g], Values)
      <4>1. \A v \in Values : cells'[g][v] = cells[g][v] /\ cells[g][v] \in Int
        BY <1>6, <2>2, CellFacts
      <4>2. IsFiniteSet(Values)
        BY CellFacts
      <4> QED
        BY <4>1, <4>2, SumSame
    <3> QED
      BY <1>6, <2>1, <2>2, <3>2, <3>3, CellFacts
  <2>3. CASE c # Total
    <3>1. c \in Values
      BY <2>3 DEF Cells
    <3>2. w \notin Lagging(g) /\ Lagging(g)' = Lagging(g) \union {w}
      BY <1>1, <1>3, <1>4, <2>3 DEF Lagging
    <3>3. Cardinality(Lagging(g)') = Cardinality(Lagging(g)) + 1
      BY <3>2, CellFacts, FS_AddElement
    <3>4. SumFunctionOnSet(cells'[g], Values)
             = SumFunctionOnSet(cells[g], Values) + cells'[g][c] - cells[g][c]
      <4>1. /\ IsFiniteSet(Values) /\ \A v \in Values : cells[g][v] \in Int
            /\ cells[g][c] \in Int
        BY <3>1, CellFacts
      <4>2. cells'[g][c] \in Int /\ \A v \in Values \ {c} : cells'[g][v] = cells[g][v]
        BY <1>6, <4>1 DEF Cells
      <4> DEFINE f == cells[g]
                 k == cells'[g]
      <4>3. /\ \A v \in Values : f[v] \in Int
            /\ k[c] \in Int /\ \A v \in Values \ {c} : k[v] = f[v]
        BY <4>1, <4>2
      <4>4. SumFunctionOnSet(k, Values) = SumFunctionOnSet(f, Values) + k[c] - f[c]
        <5> HIDE DEF f, k
        <5> QED
          BY <3>1, <4>1, <4>3, SumChange
      <4> QED
        BY <4>4
    <3> QED
      BY <1>6, <2>1, <2>3, <3>3, <3>4, CellFacts
  <2> QED
    BY <2>2, <2>3
<1> QED
  BY <1>5, <1>8 DEF Tally, Lagging

\* A record call counts a value and then counts it in total_count.
LEMMA RecordTally ==
    ASSUME RecorderTypeOK, WriterLocals, Tally, NEW w \in Writers,
           (\E call \in Calls : RecordEnter(w, call)) \/ RecordStep(w)
    PROVE  Tally'
<1> USE DEF memory_vars
<1>1. ASSUME UNCHANGED cells,
             \A v \in Writers : \/ target'[v] = target[v] /\ todo'[v] = todo[v]
                                \/ Len(todo'[v]) % 2 # 1 /\ Len(todo[v]) % 2 # 1
                                \/ target[v] = NULL /\ target'[v] = NULL
      PROVE  Tally'
  <2>1. NULL \notin Histograms
    BY RecorderAssumption
  <2>2. \A h \in Histograms : Lagging(h)' = Lagging(h)
    BY <1>1, <2>1 DEF Lagging
  <2> QED
    BY <1>1, <2>2 DEF Tally, Lagging
<1>2. CASE \E call \in Calls : RecordEnter(w, call)
  <2>1. UNCHANGED <<cells, target>> /\ target[w] = NULL
        /\ \A v \in Writers \ {w} : todo'[v] = todo[v]
    BY <1>2 DEF RecordEnter, WriterLocals, RecorderTypeOK
  <2> QED
    BY <1>1, <2>1
<1>3. CASE RecordLoad(w)
  <2>1. UNCHANGED <<cells, todo>> /\ \A v \in Writers \ {w} : target'[v] = target[v]
    BY <1>3 DEF RecordLoad, RecorderTypeOK
  <2>2. PICK call \in Calls : todo[w] = Updates(call)
    BY <1>3 DEF RecordLoad, WriterLocals
  <2>3. Len(todo[w]) = 2 * Len(call) /\ Len(call) \in Nat
    BY <2>2, UpdatesFacts, RecorderAssumption
  <2>4. Len(todo[w]) % 2 # 1
    BY <2>3
  <2> QED
    BY <1>1, <2>1, <2>4
<1>4. CASE RecordAdd(w)
  BY <1>4, TallyUpdate DEF RecordAdd
<1>5. CASE RecordRead(w)
  BY <1>1, <1>5 DEF RecordRead
<1>6. CASE RecordWrite(w)
  <2>1. /\ target[w] # NULL /\ todo[w] # <<>> /\ reg[w] = cells[target[w]][Head(todo[w])]
    BY <1>6 DEF RecordWrite, WriterLocals
  <2> QED
    BY <1>6, <2>1, TallyUpdate DEF RecordWrite
<1>7. CASE RecordExit(w)
  <2>1. UNCHANGED <<cells, todo>> /\ \A v \in Writers \ {w} : target'[v] = target[v]
    BY <1>7 DEF RecordExit, RecorderTypeOK
  <2>2. Len(todo[w]) % 2 # 1
    BY <1>7, EmptySeq DEF RecordExit
  <2> QED
    BY <1>1, <2>1, <2>2
<1> QED
  BY <1>2, <1>3, <1>4, <1>5, <1>6, <1>7 DEF RecordStep

\* A record call keeps its locals, and those of writers that are about to write.
LEMMA RecordWriterLocals ==
    ASSUME RecorderTypeOK, PhaserTypeOK, WriterLocals, NEW w \in Writers,
           (\E call \in Calls : RecordEnter(w, call)) \/ RecordStep(w)
    PROVE  WriterLocals'
<1> USE DEF memory_vars
<1>1. \A v \in Writers \ {w} :
         /\ wpos'[v] = wpos[v] /\ target'[v] = target[v]
         /\ todo'[v] = todo[v] /\ reg'[v] = reg[v]
  BY RecordFrame
<1>2. ASSUME NEW v \in Writers \ {w}, wpos[v] = "write"
      PROVE  cells' = cells
  <2>1. ~AtomicUpdates /\ FALSE
    BY <1>2, RecorderAssumption DEF WriterLocals
  <2> QED
    BY <2>1
<1>3. CASE \E call \in Calls : RecordEnter(w, call)
  <2>1. PICK call \in Calls : RecordEnter(w, call)
    BY <1>3
  <2>2. /\ UNCHANGED <<cells, target>> /\ target[w] = NULL
        /\ wpos'[w] = "entered" /\ todo'[w] = Updates(call)
    BY <2>1 DEF RecordEnter, WriterLocals, RecorderTypeOK
  <2> QED
    BY <1>1, <2>2, UpdatesFacts DEF WriterLocals
<1>4. CASE RecordLoad(w)
  <2>1. UNCHANGED <<cells, todo>> /\ wpos'[w] = "update"
    BY <1>4 DEF RecordLoad, RecorderTypeOK
  <2> QED
    BY <1>1, <2>1 DEF WriterLocals
<1>5. CASE RecordAdd(w)
  <2>1. /\ AtomicUpdates /\ todo[w] # <<>> /\ wpos'[w] = "update"
        /\ todo'[w] = Tail(todo[w])
    BY <1>5 DEF RecordAdd, RecorderTypeOK
  <2>2. \A v \in Writers : wpos[v] # "write"
    BY <2>1 DEF WriterLocals
  <2>3. Alternating(todo'[w])
    BY <2>1, TailFacts DEF WriterLocals, RecorderTypeOK
  <2> QED
    BY <1>1, <2>1, <2>2, <2>3 DEF WriterLocals
<1>6. CASE RecordRead(w)
  <2>1. /\ UNCHANGED <<cells, todo, target>> /\ wpos'[w] = "write" /\ ~AtomicUpdates
        /\ target[w] # NULL /\ todo[w] # <<>>
        /\ reg'[w] = cells[target[w]][Head(todo[w])]
    BY <1>6 DEF RecordRead, RecorderTypeOK
  <2> QED
    BY <1>1, <2>1 DEF WriterLocals
<1>7. CASE RecordWrite(w)
  <2>1. /\ wpos[w] = "write" /\ wpos'[w] = "update" /\ todo'[w] = Tail(todo[w])
        /\ UNCHANGED target
    BY <1>7 DEF RecordWrite, RecorderTypeOK
  <2>2. \A v \in Writers : v = w
    BY <2>1, RecorderAssumption DEF WriterLocals
  <2>3. Alternating(todo'[w])
    BY <2>1, TailFacts DEF WriterLocals, RecorderTypeOK
  <2> QED
    BY <2>1, <2>2, <2>3 DEF WriterLocals
<1>8. CASE RecordExit(w)
  <2>1. UNCHANGED <<cells, todo>> /\ wpos'[w] = "out" /\ target'[w] = NULL
    BY <1>8 DEF RecordExit, RecorderTypeOK
  <2> QED
    BY <1>1, <2>1 DEF WriterLocals
<1> QED
  BY <1>3, <1>4, <1>5, <1>6, <1>7, <1>8 DEF RecordStep

\* A histogram is only cleared when no writer is on it.
LEMMA SampleCells ==
    ASSUME RecorderTypeOK, PhaserTypeOK, WriterLocals, SamplerLocals, Unused, Targets, Ownership,
           NEW r \in Readers,
           \/ SampleNull(r) \/ SampleInactive(r)
           \/ \E h \in Histograms : SampleRecycle(r, h) \/ CallerClose(r, h)
           \/ SampleLock(r) \/ SampleStep(r)
    PROVE  \/ UNCHANGED cells
           \/ \E h \in Histograms : /\ cells' = [cells EXCEPT ![h] = Empty]
                                    /\ \A w \in Writers : target[w] # h
<1>1. CASE InitNew(r)
  <2>1. ASSUME NEW h \in Histograms \ live PROVE \A w \in Writers : target[w] # h
    BY NoWriterOf
  <2> QED
    BY <1>1, <2>1 DEF InitNew, memory_vars
<1>2. CASE Reset(r)
  <2>1. PICK h \in Histograms : h = histogram_to_recycle[r]
    BY <1>2 DEF Reset, SamplerLocals, RecorderTypeOK
  <2>2. Claimed("recycled", r, h)
    BY <2>1 DEF Claimed
  <2>3. \A w \in Writers : target[w] # h
    BY <2>2, NoWriterOf
  <2> QED
    BY <1>2, <2>1, <2>3 DEF Reset
<1>3. ASSUME NEW h \in Histograms, CallerClose(r, h)
      PROVE  cells' = [cells EXCEPT ![h] = Empty] /\ \A w \in Writers : target[w] # h
  <2>1. Claimed("held", r, h)
    BY <1>3 DEF CallerClose, Claimed
  <2>2. \A w \in Writers : target[w] # h
    BY <2>1, NoWriterOf
  <2> QED
    BY <1>3, <2>2 DEF CallerClose
<1>4. CASE SampleNull(r) \/ SampleInactive(r) \/ \E h \in Histograms : SampleRecycle(r, h)
  BY <1>4 DEF SampleNull, SampleInactive, SampleRecycle, memory_vars
<1>5. CASE SampleLock(r) \/ LoadActive(r) \/ StoreActive(r) \/ Flip(r) \/ SampleUnlock(r)
             \/ SampleReturn(r)
  BY <1>5 DEF SampleLock, LoadActive, StoreActive, Flip, SampleUnlock, SampleReturn,
              memory_vars, recorder_vars
<1> QED
  BY <1>1, <1>2, <1>3, <1>4, <1>5 DEF SampleStep

\* So a sample call leaves the tally and the locals of writers as they are.
LEMMA SampleTally ==
    ASSUME RecorderTypeOK, PhaserTypeOK, WriterLocals, SamplerLocals, Unused, Targets, Ownership,
           Tally, NEW r \in Readers,
           \/ SampleNull(r) \/ SampleInactive(r)
           \/ \E h \in Histograms : SampleRecycle(r, h) \/ CallerClose(r, h)
           \/ SampleLock(r) \/ SampleStep(r)
    PROVE  WriterLocals' /\ Tally'
<1>1. UNCHANGED <<wpos, target, todo, reg>>
  BY SampleFrame
<1>2. CASE UNCHANGED cells
  BY <1>1, <1>2 DEF WriterLocals, Tally
<1>3. ASSUME NEW g \in Histograms, cells' = [cells EXCEPT ![g] = Empty],
             \A w \in Writers : target[w] # g
      PROVE  WriterLocals' /\ Tally'
  <2>1. cells'[g] = Empty /\ \A h \in Histograms \ {g} : cells'[h] = cells[h]
    BY <1>3 DEF RecorderTypeOK
  <2>2. WriterLocals'
    BY <1>1, <1>3, <2>1 DEF WriterLocals, RecorderTypeOK
  <2>3. SumFunctionOnSet(cells'[g], Values) = 0 /\ cells'[g][Total] = 0
    <3>1. \A v \in Values : cells'[g][v] = 0
      BY <2>1 DEF Empty, Cells
    <3>2. cells'[g][Total] = 0
      BY <2>1 DEF Empty, Cells
    <3> QED
      BY <3>1, <3>2, SumZeros, RecorderAssumption
  <2>4. Cardinality({w \in Writers : target'[w] = g /\ Len(todo'[w]) % 2 = 1}) = 0
    <3>1. {w \in Writers : target'[w] = g /\ Len(todo'[w]) % 2 = 1} = {}
      BY <1>1, <1>3
    <3> QED
      BY <3>1, FS_EmptySet
  <2>5. \A h \in Histograms \ {g} :
           SumFunctionOnSet(cells'[h], Values) = cells'[h][Total]
              + Cardinality({w \in Writers : target'[w] = h /\ Len(todo'[w]) % 2 = 1})
    BY <1>1, <2>1 DEF Tally
  <2>6. SumFunctionOnSet(cells'[g], Values) = cells'[g][Total]
           + Cardinality({w \in Writers : target'[w] = g /\ Len(todo'[w]) % 2 = 1})
    BY <2>3, <2>4
  <2>7. \A h \in Histograms :
           SumFunctionOnSet(cells'[h], Values) = cells'[h][Total]
              + Cardinality({w \in Writers : target'[w] = h /\ Len(todo'[w]) % 2 = 1})
    BY <2>5, <2>6
  <2> QED
    BY <2>2, <2>7 DEF Tally
<1> QED
  BY <1>2, <1>3, SampleCells

-----------------------------------------------------------------------------
(***************************************************************************)
(* The inductive invariant.                                                *)
(***************************************************************************)

\* The recorder that hdr_interval_recorder_init_all has set up.
LEMMA InitRecorderInv == RecorderInit => RecorderInv
<1> SUFFICES ASSUME RecorderInit PROVE RecorderInv
  OBVIOUS
<1> USE DEF RecorderInit
<1>1. IInv /\ PhaserTypeOK
  BY InitIInv DEF IInv
<1>2. NULL \notin Histograms /\ NoReader \notin Readers /\ Empty \in [Cells -> Nat]
  BY RecorderAssumption, PhaserAssumption DEF Empty
<1>3. RecorderTypeOK
  <2>1. <<>> \in Seq(Cells)
    BY EmptySeq
  <2>2. todo \in [Writers -> Seq(Cells)]
    BY <2>1
  <2>3. \A w \in Writers : wpos[w] = "out" /\ wpc[w] = "outside"
    BY DEF PhaserInit
  <2>4. \A r \in Readers : spos[r] = "out" /\ reader_mutex # r
    BY <1>2 DEF PhaserInit
  <2> QED
    BY <1>2, <2>2, <2>3, <2>4 DEF RecorderTypeOK
<1>4. Pairing /\ SamplerLocals
  BY DEF Pairing, SamplerLocals, PhaserInit
<1>5. WriterLocals
  BY EmptySeq DEF WriterLocals, Alternating
<1>6. Targets /\ Unused
  BY DEF Targets, Unused
<1>7. Ownership /\ IsFiniteSet(live)
  <2>1. \A h \in Histograms, k \in Kinds, q \in Readers \union {NULL} :
           Claimed(k, q, h) <=> k = "active" /\ q = NULL /\ h = active
    BY <1>2, RecorderAssumption DEF Claimed, Kinds
  <2>2. "active" \in Kinds /\ NULL \in Readers \union {NULL}
    BY DEF Kinds
  <2>3. live = {active} /\ active \in Histograms
    BY DEF RecorderInit
  <2>4. Ownership
    BY <2>1, <2>2, <2>3 DEF Ownership
  <2> QED
    BY <2>3, <2>4, FS_Singleton
<1>8. Tally
  <2>1. SUFFICES ASSUME NEW h \in Histograms
                 PROVE  SumFunctionOnSet(cells[h], Values) = cells[h][Total]
                   + Cardinality({w \in Writers : target[w] = h /\ Len(todo[w]) % 2 = 1})
    BY DEF Tally
  <2>2. \A v \in Values : cells[h][v] = 0
    BY DEF Empty, Cells
  <2>3. cells[h][Total] = 0
    BY DEF Empty, Cells
  <2>4. SumFunctionOnSet(cells[h], Values) = 0
    BY <2>2, SumZeros, RecorderAssumption
  <2>5. {w \in Writers : target[w] = h /\ Len(todo[w]) % 2 = 1} = {}
    BY <1>2
  <2>6. Cardinality({w \in Writers : target[w] = h /\ Len(todo[w]) % 2 = 1}) = 0
    BY <2>5, FS_EmptySet
  <2> QED
    BY <2>3, <2>4, <2>6
<1> QED
  BY <1>1, <1>3, <1>4, <1>5, <1>6, <1>7, <1>8 DEF RecorderInv

\* Destroying the recorder closes what it owns, when nobody uses it.
LEMMA DestroyStep ==
    ASSUME RecorderInv, Destroy
    PROVE  RecorderTypeOK' /\ Pairing' /\ SamplerLocals' /\ WriterLocals' /\ Targets' /\ Unused'
           /\ Ownership' /\ IsFiniteSet(live)' /\ Tally'
<1> USE DEF RecorderInv
<1>1. /\ UNCHANGED <<active, inactive, cells, wpos, target, todo, reg, spos, via_sample,
                     config_of, histogram_to_recycle, old_active, held>>
      /\ UNCHANGED <<start_epoch, reader_mutex, wpc, wval, rpc>>
      /\ ~destroyed /\ destroyed'
      /\ live' = live \ {active, inactive}
      /\ \A w \in Writers : wpos[w] = "out"
      /\ \A r \in Readers : spos[r] = "out"
  BY DEF Destroy, record_vars, sample_vars, local_vars, phaser_vars, epoch_vars, writer_vars,
         reader_vars
<1>2. RecorderTypeOK'
  <2>1. destroyed' \in BOOLEAN /\ live' \subseteq Histograms
    BY <1>1, Zenon DEF Destroy, RecorderTypeOK
  <2> QED
    BY <1>1, <2>1 DEF RecorderTypeOK
<1>3. Pairing' /\ SamplerLocals' /\ WriterLocals' /\ Unused' /\ Tally'
  BY <1>1 DEF Pairing, SamplerLocals, WriterLocals, Unused, Tally
<1>4. Targets'
  BY <1>1 DEF Targets, WriterLocals
<1>5. Ownership' /\ IsFiniteSet(live)'
  <2>1. live \subseteq Histograms /\ InactiveUsers \subseteq Readers
    BY RecorderAssumption DEF RecorderTypeOK
  <2>2. PICK act, inact : act = active /\ inact = inactive
    OBVIOUS
  <2>3. ASSUME NEW h \in Histograms, NEW k \in Kinds, NEW q \in Readers \union {NULL}
        PROVE  Claimed(k, q, h)' <=> Claimed(k, q, h) /\ k \notin {"active", "inactive"}
    BY <1>1, <2>3 DEF Claimed
  <2>4. ASSUME NEW h \in Histograms, NEW k \in Kinds, NEW q \in Readers \union {NULL},
               Claimed(k, q, h)
        PROVE  k \in {"active", "inactive"} <=> h \in {act, inact}
    <3>1. CASE k \in {"active", "inactive"}
      BY <2>2, <2>4, <3>1 DEF Claimed
    <3>2. CASE k \notin {"active", "inactive"} /\ h = act
      <4>1. Claimed("active", NULL, h) /\ "active" \in Kinds
        BY <1>1, <2>2, <3>2 DEF Claimed, Kinds
      <4> QED
        BY <2>4, <3>2, <4>1, OneClaim
    <3>3. CASE k \notin {"active", "inactive"} /\ h = inact
      <4>1. PICK u \in InactiveUsers : TRUE
        BY <2>2, <3>3, RecorderAssumption DEF SamplerLocals
      <4>2. Claimed("inactive", u, h) /\ "inactive" \in Kinds /\ u \in Readers
        BY <1>1, <2>1, <2>2, <3>3 DEF Claimed, Kinds
      <4> QED
        BY <2>4, <3>3, <4>2, OneClaim
    <3> QED
      BY <3>1, <3>2, <3>3
  <2>5. \A h \in Histograms, k \in Kinds, q \in Readers \union {NULL} :
           Claimed(k, q, h)' <=> Claimed(k, q, h) /\ h \notin {act, inact}
    BY <2>3, <2>4
  <2>6. live' = live \ {act, inact}
    BY <1>1, <2>2
  <2>7. Ownership'
    BY <2>1, <2>5, <2>6, ClaimsShrink
  <2> QED
    BY <2>6, <2>7, FS_Subset
<1> QED
  BY <1>2, <1>3, <1>4, <1>5

\* The inductive invariant holds in every reachable state.
LEMMA NextRecorderInv == RecorderInv /\ [RecorderNext]_all_vars => RecorderInv'
<1> SUFFICES ASSUME RecorderInv, [RecorderNext]_all_vars PROVE RecorderInv'
  OBVIOUS
<1> USE DEF RecorderInv
<1>1. PhaserTypeOK /\ IInv'
  BY PhaserStep, NextIInv DEF IInv
<1>2. ASSUME NEW w \in Writers,
             (\E call \in Calls : RecordEnter(w, call)) \/ RecordStep(w)
      PROVE  RecorderInv'
  <2>1. RecorderTypeOK' /\ WriterLocals' /\ Targets' /\ Tally'
    BY <1>1, <1>2, RecordTypes, RecordWriterLocals, RecordTargets, RecordTally
  <2>2. Ownership' /\ IsFiniteSet(live)'
    BY <1>1, <1>2, RecordOwnership
  <2>3. UNCHANGED <<active, inactive, destroyed, spos, via_sample, histogram_to_recycle,
                    old_active, rpc>>
    BY <1>1, <1>2, RecordFrame
  <2>4. Pairing' /\ SamplerLocals'
    BY <2>3 DEF Pairing, SamplerLocals
  <2>5. ~destroyed
    BY <1>2 DEF Unused, RecordEnter, RecordStep, RecordLoad, RecordAdd, RecordRead, RecordWrite,
                RecordExit
  <2>6. Unused'
    BY <2>3, <2>5 DEF Unused
  <2> QED
    BY <1>1, <2>1, <2>2, <2>4, <2>6
<1>3. ASSUME NEW r \in Readers,
             \/ SampleNull(r) \/ SampleInactive(r)
             \/ \E h \in Histograms : SampleRecycle(r, h) \/ CallerClose(r, h)
             \/ SampleLock(r) \/ SampleStep(r)
      PROVE  RecorderInv'
  <2>1. RecorderTypeOK'
    BY <1>3, SampleTypes
  <2>2. Pairing' /\ SamplerLocals' /\ Unused'
    BY <1>3, SampleLocalSteps
  <2>3. Targets'
    BY <1>3, SampleTargets
  <2>4. Ownership' /\ IsFiniteSet(live)'
    BY <1>1, <1>3, SampleOwnership
  <2>5. WriterLocals' /\ Tally'
    BY <1>1, <1>3, SampleTally
  <2> QED
    BY <1>1, <2>1, <2>2, <2>3, <2>4, <2>5
<1>4. CASE Destroy
  BY <1>1, <1>4, DestroyStep
<1>5. CASE UNCHANGED all_vars
  <2>1. UNCHANGED <<active, inactive, cells, live, destroyed, wpos, target, todo, reg, spos,
                    via_sample, config_of, histogram_to_recycle, old_active, held>>
    BY <1>5 DEF all_vars, recorder_vars, record_vars, sample_vars, local_vars, memory_vars,
                pointer_vars
  <2>2. UNCHANGED <<start_epoch, reader_mutex, wpc, wval, rpc>>
    BY <1>5 DEF all_vars, phaser_vars, epoch_vars, writer_vars, reader_vars
  <2>3. /\ RecorderTypeOK' /\ WriterLocals'
        /\ Tally' /\ Pairing'
        /\ SamplerLocals' /\ Unused'
    <3>1. RecorderTypeOK'
      BY <2>1, <2>2 DEF RecorderTypeOK
    <3>2. WriterLocals'
      BY <2>1 DEF WriterLocals
    <3>3. Tally' /\ Pairing' /\ SamplerLocals' /\ Unused'
      BY <2>1, <2>2 DEF Tally, Pairing, SamplerLocals, Unused
    <3> QED
      BY <3>1, <3>2, <3>3
  <2>4. Targets'
    BY <2>1, <2>2 DEF Targets, InsideOf, Inside, CurrentPhase
  <2>5. \A h \in Histograms, k \in Kinds, q \in Readers \union {NULL} :
           Claimed(k, q, h)' <=> Claimed(k, q, h)
    BY <2>1 DEF Claimed
  <2>6. Ownership' /\ IsFiniteSet(live)'
    BY <2>1, <2>5, ClaimsMove DEF RecorderTypeOK
  <2> QED
    BY <1>1, <2>3, <2>4, <2>6
<1> QED
  BY <1>2, <1>3, <1>4, <1>5 DEF RecorderNext

THEOREM RecorderInvariant == RecorderSpec => []RecorderInv
<1> QED
  BY InitRecorderInv, NextRecorderInv, PTL DEF RecorderSpec

-----------------------------------------------------------------------------
(***************************************************************************)
(* What the invariant says of the recorder.                                *)
(***************************************************************************)

\* Every variable keeps its type, and the calls of the phaser are paired.
THEOREM RecorderTypeCorrect == RecorderSpec => []RecorderTypeOK
<1>1. RecorderInv => RecorderTypeOK
  BY DEF RecorderInv
<1> QED
  BY <1>1, RecorderInvariant, PTL

\* No writer updates a histogram that is being reset, or that was handed to a caller,
\* or closed.
THEOREM WritersStayOutCorrect == RecorderSpec => []WritersStayOut
<1>1. RecorderInv => WritersStayOut
  <2> SUFFICES ASSUME RecorderInv, NEW w \in Writers, target[w] # NULL
               PROVE  target[w] \in Writable \intersect live
    BY DEF WritersStayOut
  <2> USE DEF RecorderInv
  <2>1. PhaserTypeOK
    BY DEF IInv
  <2>2. target[w] \in Writable
    BY DEF Targets, Writable
  <2>3. target[w] \in live
    <3>1. target[w] \in Histograms
      BY <2>1, TargetFacts
    <3>2. PICK k \in {"active", "returned"}, q \in Readers \union {NULL} :
             Claimed(k, q, target[w])
      BY <2>1, TargetClaimed
    <3> QED
      BY <3>1, <3>2 DEF Ownership, Kinds
  <2> QED
    BY <2>2, <2>3
<1> QED
  BY <1>1, RecorderInvariant, PTL

\* The sum of the counts of a histogram that a caller reads is its total_count.
THEOREM HandedCompleteCorrect == RecorderSpec => []HandedComplete
<1>1. RecorderInv => HandedComplete
  <2> SUFFICES ASSUME RecorderInv, ~destroyed, NEW h \in Handed
               PROVE  cells[h][Total] = SumFunctionOnSet(cells[h], Values)
    BY DEF HandedComplete
  <2> USE DEF RecorderInv
  <2>1. PhaserTypeOK /\ InactiveUsers \subseteq Readers
    BY RecorderAssumption DEF IInv
  <2>2. h \in Histograms /\ \E k \in {"inactive", "held"}, q \in Readers : Claimed(k, q, h)
    <3>1. CASE h \in UNION {held[r] : r \in Readers}
      BY <3>1 DEF RecorderTypeOK, Claimed
    <3>2. CASE h \notin UNION {held[r] : r \in Readers}
      <4>1. PICK u \in InactiveUsers : spos[u] = "out" /\ h = inactive /\ h # NULL
        BY <3>2 DEF Handed
      <4>2. Claimed("inactive", u, h) /\ h \in Histograms /\ u \in Readers
        BY <2>1, <4>1 DEF RecorderTypeOK, Claimed
      <4> QED
        BY <4>2
    <3> QED
      BY <3>1, <3>2
  <2>3. \A w \in Writers : target[w] # h
    BY <2>1, <2>2, NoWriterOf
  <2>4. Cardinality({w \in Writers : target[w] = h /\ Len(todo[w]) % 2 = 1}) = 0
    <3>1. {w \in Writers : target[w] = h /\ Len(todo[w]) % 2 = 1} = {}
      BY <2>3
    <3> QED
      BY <3>1, FS_EmptySet
  <2>5. cells[h][Total] \in Int
    BY <2>2, CellFacts
  <2>6. SumFunctionOnSet(cells[h], Values) = cells[h][Total]
           + Cardinality({w \in Writers : target[w] = h /\ Len(todo[w]) % 2 = 1})
    BY <2>2 DEF Tally
  <2> QED
    BY <2>4, <2>5, <2>6
<1> QED
  BY <1>1, RecorderInvariant, PTL

\* Each allocated histogram has exactly one owner.
THEOREM SoleOwnerCorrect == RecorderSpec => []SoleOwner
<1>1. RecorderInv => SoleOwner
  <2> SUFFICES ASSUME RecorderInv PROVE SoleOwner
    OBVIOUS
  <2> USE DEF RecorderInv
  <2>1. NULL \notin Histograms /\ live \subseteq Histograms /\ InactiveUsers \subseteq Readers
    BY RecorderAssumption DEF RecorderTypeOK
  <2> DEFINE taken == {claim \in Claims : claim[3] # NULL}
  <2>2. ASSUME ~destroyed
        PROVE  {claim[3] : claim \in taken} = live /\ Cardinality(taken) = Cardinality(live)
    <3>1. ASSUME NEW claim \in taken
          PROVE  \E k \in Kinds, q \in Readers \union {NULL}, h \in Histograms :
                    claim = <<k, q, h>> /\ Claimed(k, q, h)
      BY <2>1, <2>2, <3>1 DEF Claims, Claimed, Kinds, RecorderTypeOK
    <3>2. ASSUME NEW k \in Kinds, NEW q \in Readers \union {NULL}, NEW h \in Histograms,
                 Claimed(k, q, h)
          PROVE  <<k, q, h>> \in taken
      BY <2>1, <3>2 DEF Claims, Claimed, Kinds
    <3> DEFINE owned == [claim \in taken |-> claim[3]]
    <3>3. owned \in [taken -> live]
      BY <3>1 DEF Ownership
    <3>4. ASSUME NEW a \in taken, NEW b \in taken, owned[a] = owned[b] PROVE a = b
      BY <3>1, <3>4 DEF Ownership
    <3>5. ASSUME NEW h \in live PROVE \E claim \in taken : owned[claim] = h
      <4>1. PICK k \in Kinds, q \in Readers \union {NULL} : Claimed(k, q, h)
        BY DEF Ownership
      <4>2. <<k, q, h>> \in taken
        BY <2>1, <3>2, <4>1
      <4> QED
        BY <4>2
    <3>6. {claim[3] : claim \in taken} = live
      BY <3>3, <3>5
    <3>7. Cardinality(taken) = Cardinality(live)
      <4> HIDE DEF taken, owned
      <4> QED
        BY <3>3, <3>4, <3>5, SameSize
    <3> QED
      BY <3>6, <3>7
  <2>3. ASSUME destroyed PROVE live = UNION {held[r] : r \in Readers}
    <3>1. \A r \in Readers : spos[r] = "out" /\ histogram_to_recycle[r] = NULL
      BY <2>3 DEF Unused, SamplerLocals
    <3>2. \A h \in Histograms, k \in Kinds, q \in Readers \union {NULL} :
             Claimed(k, q, h) <=> k = "held" /\ q \in Readers /\ h \in held[q]
      BY <2>1, <2>3, <3>1 DEF Claimed, Kinds
    <3>3. \A h \in live : \E r \in Readers : h \in held[r]
      BY <2>1, <3>2 DEF Ownership
    <3>4. \A r \in Readers : \A h \in held[r] : h \in live
      <4>1. "held" \in Kinds /\ \A r \in Readers : held[r] \subseteq Histograms
        BY DEF Kinds, RecorderTypeOK
      <4> QED
        BY <3>2, <4>1 DEF Ownership
    <3> QED
      BY <3>3, <3>4
  <2> QED
    BY <2>2, <2>3 DEF SoleOwner
<1> QED
  BY <1>1, RecorderInvariant, PTL

-----------------------------------------------------------------------------
(***************************************************************************)
(* IntervalRecorder implements IntervalContract: recording and sampling    *)
(* are atomic.  It holds for recorders whose allocations succeed; a        *)
(* sampler that makes NULL the active histogram loses what is recorded     *)
(* next.                                                                   *)
(***************************************************************************)

\* The histogram that is about to become active is empty.
Cleared ==
    \A r \in Readers :
        spos[r] \in {"lock", "load", "store"} /\ histogram_to_recycle[r] # NULL =>
            cells[histogram_to_recycle[r]] = Empty

\* No pointer in use is NULL, when allocations succeed.
Present ==
    ~AllocMayFail =>
        /\ active # NULL
        /\ \A r \in Readers :
              /\ spos[r] \in {"lock", "load", "store"} => histogram_to_recycle[r] # NULL
              /\ spos[r] \in {"store", "flip", "return"} => old_active[r] # NULL

\* The pointers that a destroyed recorder keeps point at closed histograms.
Departed == destroyed => active \notin live /\ inactive \notin live

\* The invariant that the refinement rests on.
RefinementInv == RecorderInv /\ Cleared /\ Present /\ Departed

-----------------------------------------------------------------------------
(***************************************************************************)
(* How often a cell is among the updates of a call.                        *)
(***************************************************************************)
Occurring(s, c) == {i \in DOMAIN s : s[i] = c}

LEMMA OccurringFinite ==
    ASSUME NEW T, NEW s \in Seq(T), NEW c
    PROVE  IsFiniteSet(Occurring(s, c)) /\ Cardinality(Occurring(s, c)) \in Nat
<1>1. Occurring(s, c) \subseteq 1 .. Len(s) /\ Len(s) \in Nat
  BY DEF Occurring
<1>2. IsFiniteSet(1 .. Len(s))
  BY <1>1, FS_Interval
<1> QED
  BY <1>1, <1>2, FS_Subset, FS_CardinalityType

\* An update that has been made is not awaited any more.
LEMMA OccurringTail ==
    ASSUME NEW s \in Seq(Cells), s # <<>>, NEW c
    PROVE  Cardinality(Occurring(s, c))
              = Cardinality(Occurring(Tail(s), c)) + IF Head(s) = c THEN 1 ELSE 0
<1> DEFINE later == {i \in 2 .. Len(s) : s[i] = c}
           shift == [i \in Occurring(Tail(s), c) |-> i + 1]
<1>1. /\ Tail(s) \in Seq(Cells) /\ Len(s) \in Nat \ {0} /\ Head(s) = s[1]
      /\ DOMAIN s = 1 .. Len(s) /\ DOMAIN Tail(s) = 1 .. (Len(s) - 1)
      /\ \A i \in 1 .. (Len(s) - 1) : Tail(s)[i] = s[i + 1]
  BY HeadTailProperties, EmptySeq
<1>2. /\ \A i \in Occurring(Tail(s), c) : shift[i] = i + 1 /\ i \in Nat /\ shift[i] \in later
      /\ \A t \in later : t - 1 \in Occurring(Tail(s), c) /\ (t - 1) + 1 = t /\ t \in Int
  BY <1>1 DEF Occurring
<1>3. later \subseteq Occurring(s, c) /\ IsFiniteSet(later)
  <2>1. later \subseteq Occurring(s, c)
    BY <1>1 DEF Occurring
  <2> QED
    BY <2>1, OccurringFinite, FS_Subset
<1>4. Cardinality(Occurring(Tail(s), c)) = Cardinality(later)
  <2>1. shift \in [Occurring(Tail(s), c) -> later]
    <3>1. \A i \in Occurring(Tail(s), c) : shift[i] \in later
      BY <1>2
    <3> HIDE DEF later
    <3> QED
      BY <3>1
  <2>2. \A a, b \in Occurring(Tail(s), c) : shift[a] = shift[b] => a = b
    BY <1>2
  <2>3. \A t \in later : \E i \in Occurring(Tail(s), c) : shift[i] = t
    BY <1>2
  <2> HIDE DEF later, shift
  <2> QED
    BY <1>3, <2>1, <2>2, <2>3, SameSize
<1>5. CASE Head(s) = c
  <2>1. Occurring(s, c) = later \union {1} /\ 1 \notin later
    BY <1>1, <1>5 DEF Occurring
  <2>2. Cardinality(Occurring(s, c)) = Cardinality(later) + 1
    BY <1>3, <2>1, FS_AddElement
  <2> QED
    BY <1>4, <1>5, <2>2
<1>6. CASE Head(s) # c
  <2>1. Occurring(s, c) = later
    BY <1>1, <1>6 DEF Occurring
  <2>2. Cardinality(later) \in Nat
    BY <1>3, FS_CardinalityType
  <2> QED
    BY <1>4, <1>6, <2>1, <2>2
<1> QED
  BY <1>5, <1>6

\* A call updates the count of a value as often as it records the value.
LEMMA OccurringUpdates ==
    ASSUME NEW call \in Calls, NEW v \in Values
    PROVE  Cardinality(Occurring(Updates(call), v)) = Cardinality(Occurring(call, v))
<1> DEFINE odd == [j \in Occurring(call, v) |-> 2 * j - 1]
<1>1. call \in Seq(Values) /\ Total \notin Values /\ Len(call) \in Nat
  BY RecorderAssumption
<1>2. Updates(call) \in Seq(Cells) /\ DOMAIN Updates(call) = 1 .. 2 * Len(call)
  BY <1>1, UpdatesFacts DEF Updates
<1>3. ASSUME NEW j \in Occurring(call, v)
      PROVE  odd[j] \in Occurring(Updates(call), v) /\ odd[j] = 2 * j - 1 /\ j \in Int
  <2>1. j \in 1 .. Len(call) /\ call[j] = v
    BY <1>1 DEF Occurring
  <2>2. 2 * j - 1 \in 1 .. 2 * Len(call) /\ (2 * j - 1) % 2 = 1 /\ ((2 * j - 1) + 1) \div 2 = j
    BY <1>1, <2>1
  <2>3. Updates(call)[2 * j - 1] = call[j]
    BY <1>1, <2>2 DEF Updates
  <2> QED
    BY <1>2, <2>1, <2>2, <2>3 DEF Occurring
<1>4. ASSUME NEW i \in Occurring(Updates(call), v)
      PROVE  \E j \in Occurring(call, v) : odd[j] = i
  <2>1. i \in 1 .. 2 * Len(call) /\ Updates(call)[i] = v
    BY <1>2 DEF Occurring
  <2>2. i % 2 = 1 /\ call[(i + 1) \div 2] = v
    BY <1>1, <2>1 DEF Updates
  <2>3. (i + 1) \div 2 \in 1 .. Len(call) /\ 2 * ((i + 1) \div 2) - 1 = i
    BY <1>1, <2>1, <2>2
  <2> QED
    BY <1>1, <2>2, <2>3 DEF Occurring
<1>5. odd \in [Occurring(call, v) -> Occurring(Updates(call), v)]
  BY <1>3
<1>6. \A a, b \in Occurring(call, v) : odd[a] = odd[b] => a = b
  BY <1>3
<1>7. IsFiniteSet(Occurring(Updates(call), v))
  BY <1>2, OccurringFinite
<1> HIDE DEF odd
<1> QED
  BY <1>4, <1>5, <1>6, <1>7, SameSize

-----------------------------------------------------------------------------
(***************************************************************************)
(* The invariant.                                                          *)
(***************************************************************************)

\* A record call changes at most one cell, of its target.
LEMMA RecordCells ==
    ASSUME WriterLocals, NEW w \in Writers,
           (\E call \in Calls : RecordEnter(w, call)) \/ RecordStep(w)
    PROVE  \/ UNCHANGED cells
           \/ /\ target[w] # NULL
              /\ \E c, n : cells' = [cells EXCEPT ![target[w]][c] = n]
BY DEF RecordEnter, RecordStep, RecordLoad, RecordAdd, RecordRead, RecordWrite, RecordExit,
       memory_vars, WriterLocals

\* Writers keep off a histogram that a sampler has emptied.
LEMMA RecordRefinementInv ==
    ASSUME RecorderInv, Cleared, Present, Departed, NEW w \in Writers,
           (\E call \in Calls : RecordEnter(w, call)) \/ RecordStep(w)
    PROVE  Cleared' /\ Present' /\ Departed'
<1> USE DEF RecorderInv
<1>1. PhaserTypeOK
  BY DEF IInv
<1>2. UNCHANGED <<active, inactive, destroyed, live, spos, histogram_to_recycle, old_active>>
  BY <1>1, RecordFrame
<1>3. ASSUME NEW r \in Readers, histogram_to_recycle[r] # NULL
      PROVE  cells'[histogram_to_recycle[r]] = cells[histogram_to_recycle[r]]
  <2>1. PICK h \in Histograms : h = histogram_to_recycle[r]
    BY <1>3 DEF RecorderTypeOK
  <2>2. Claimed("recycled", r, h)
    BY <2>1 DEF Claimed
  <2>3. target[w] # h
    BY <1>1, <2>2, NoWriterOf
  <2> QED
    BY <2>1, <2>3, RecordCells DEF RecorderTypeOK
<1>4. Cleared'
  BY <1>2, <1>3 DEF Cleared
<1> QED
  BY <1>2, <1>4 DEF Present, Departed

\* A sampler empties a histogram before it installs it.
LEMMA SampleRefinementInv ==
    ASSUME RecorderInv, Cleared, Present, Departed, NEW r \in Readers,
           \/ SampleNull(r) \/ SampleInactive(r)
           \/ \E h \in Histograms : SampleRecycle(r, h) \/ CallerClose(r, h)
           \/ SampleLock(r) \/ SampleStep(r)
    PROVE  Cleared' /\ Present' /\ Departed'
<1> USE DEF sample_vars, local_vars, memory_vars, pointer_vars
<1>1. PhaserTypeOK /\ NULL \notin Histograms
  BY RecorderAssumption DEF RecorderInv, IInv
<1>2. /\ destroyed' = destroyed
      /\ \A q \in Readers \ {r} :
            /\ spos'[q] = spos[q] /\ old_active'[q] = old_active[q]
            /\ histogram_to_recycle'[q] = histogram_to_recycle[q]
  BY <1>1, SampleFrame DEF RecorderInv
<1>3. \A h \in Histograms : cells'[h] = cells[h] \/ cells'[h] = Empty
  BY <1>1, SampleCells DEF RecorderInv, RecorderTypeOK
<1>4. /\ spos'[r] \in {"lock", "load", "store"} =>
            /\ histogram_to_recycle'[r] # NULL => cells'[histogram_to_recycle'[r]] = Empty
            /\ ~AllocMayFail => histogram_to_recycle'[r] # NULL
      /\ ~AllocMayFail => /\ active' # NULL
                          /\ spos'[r] \in {"store", "flip", "return"} => old_active'[r] # NULL
  <2>1. CASE SampleNull(r) \/ SampleInactive(r) \/ \E h \in Histograms : SampleRecycle(r, h)
    <3>1. spos'[r] \in {"config", "reset"} /\ active' = active
      BY <2>1 DEF SampleNull, SampleInactive, SampleRecycle, RecorderInv, RecorderTypeOK
    <3> QED
      BY <3>1 DEF Present
  <2>2. CASE \E h \in Histograms : CallerClose(r, h)
    <3>1. spos'[r] = "out" /\ active' = active
      BY <2>2 DEF CallerClose
    <3> QED
      BY <3>1 DEF Present
  <2>3. CASE SampleLock(r) \/ LoadActive(r)
    <3>1. /\ spos[r] \in {"lock", "load"} /\ UNCHANGED <<active, cells, histogram_to_recycle>>
          /\ spos'[r] = "store" => old_active'[r] = active
          /\ spos'[r] \in {"load", "store"}
      BY <2>3 DEF SampleLock, LoadActive, RecorderInv, RecorderTypeOK
    <3> QED
      BY <3>1 DEF Present, Cleared
  <2>4. CASE InitNew(r)
    <3>1. /\ spos[r] = "config" /\ spos'[r] = "lock" /\ active' = active
          /\ histogram_to_recycle[r] = NULL
      BY <2>4 DEF InitNew, RecorderInv, RecorderTypeOK, SamplerLocals
    <3>2. CASE AllocMayFail /\ UNCHANGED histogram_to_recycle
      BY <3>1, <3>2
    <3>3. ASSUME NEW h \in Histograms, cells' = [cells EXCEPT ![h] = Empty],
                 histogram_to_recycle' = [histogram_to_recycle EXCEPT ![r] = h]
          PROVE  histogram_to_recycle'[r] # NULL /\ cells'[histogram_to_recycle'[r]] = Empty
      BY <1>1, <3>3 DEF RecorderInv, RecorderTypeOK
    <3>4. histogram_to_recycle'[r] # NULL => cells'[histogram_to_recycle'[r]] = Empty
      BY <2>4, <3>1, <3>2, <3>3 DEF InitNew
    <3>5. ~AllocMayFail => histogram_to_recycle'[r] # NULL
      BY <2>4, <3>3 DEF InitNew
    <3> QED
      BY <3>1, <3>4, <3>5 DEF Present
  <2>5. CASE Reset(r)
    <3>1. /\ spos'[r] = "lock" /\ UNCHANGED <<active, histogram_to_recycle>>
          /\ histogram_to_recycle[r] \in Histograms
      BY <2>5 DEF Reset, RecorderInv, RecorderTypeOK, SamplerLocals
    <3>2. cells'[histogram_to_recycle[r]] = Empty
      BY <2>5, <3>1 DEF Reset, RecorderInv, RecorderTypeOK
    <3> QED
      BY <1>1, <3>1, <3>2 DEF Present
  <2>6. CASE StoreActive(r)
    <3>1. /\ spos[r] = "store" /\ spos'[r] = "flip" /\ UNCHANGED old_active
          /\ active' = histogram_to_recycle[r]
      BY <2>6 DEF StoreActive, RecorderInv, RecorderTypeOK
    <3> QED
      BY <3>1 DEF Present
  <2>7. CASE Flip(r) \/ SampleUnlock(r)
    <3>1. spos[r] = "flip" /\ spos'[r] \in {"flip", "return"} /\ UNCHANGED <<active, old_active>>
      BY <2>7 DEF Flip, SampleUnlock, RecorderInv, RecorderTypeOK, recorder_vars
    <3> QED
      BY <3>1 DEF Present
  <2>8. CASE SampleReturn(r)
    <3>1. spos'[r] = "out" /\ UNCHANGED active
      BY <2>8 DEF SampleReturn, RecorderInv, RecorderTypeOK
    <3> QED
      BY <3>1 DEF Present
  <2> QED
    BY <2>1, <2>2, <2>3, <2>4, <2>5, <2>6, <2>7, <2>8 DEF SampleStep
<1>5. Cleared'
  <2>1. ASSUME NEW q \in Readers \ {r}, spos'[q] \in {"lock", "load", "store"},
               histogram_to_recycle'[q] # NULL
        PROVE  cells'[histogram_to_recycle'[q]] = Empty
    BY <1>2, <1>3, <2>1 DEF Cleared, RecorderInv, RecorderTypeOK
  <2> QED
    BY <1>4, <2>1 DEF Cleared
<1>6. Present'
  BY <1>2, <1>4 DEF Present
<1>7. Departed'
  <2>1. SUFFICES ASSUME destroyed
                 PROVE  live' \subseteq live /\ UNCHANGED <<active, inactive>>
    BY <1>2 DEF Departed
  <2>2. spos[r] = "out"
    BY <2>1 DEF RecorderInv, Unused
  <2>3. \E h \in Histograms : CallerClose(r, h)
    BY <2>1, <2>2 DEF SampleNull, SampleInactive, SampleRecycle, SampleLock, SampleStep, InitNew,
                      Reset, LoadActive, StoreActive, Flip, SampleUnlock, SampleReturn
  <2> QED
    BY <2>3 DEF CallerClose
<1> QED
  BY <1>5, <1>6, <1>7

LEMMA InitRefinementInv == RecorderInit => RefinementInv
<1>1. ASSUME RecorderInit PROVE Cleared /\ Present /\ Departed
  BY <1>1, RecorderAssumption DEF RecorderInit, Cleared, Present, Departed
<1> QED
  BY <1>1, InitRecorderInv DEF RefinementInv

LEMMA NextRefinementInv == RefinementInv /\ [RecorderNext]_all_vars => RefinementInv'
<1> SUFFICES ASSUME RefinementInv, [RecorderNext]_all_vars PROVE RefinementInv'
  OBVIOUS
<1> USE DEF RefinementInv
<1>1. RecorderInv'
  BY NextRecorderInv
<1>2. CASE Destroy
  <2>1. /\ UNCHANGED <<active, inactive, cells, spos, histogram_to_recycle, old_active>>
        /\ live' = live \ {active, inactive}
    BY <1>2 DEF Destroy, sample_vars, local_vars
  <2> QED
    BY <1>1, <2>1 DEF Cleared, Present, Departed
<1>3. CASE UNCHANGED all_vars
  <2>1. UNCHANGED <<active, inactive, destroyed, live, cells, spos, histogram_to_recycle,
                    old_active>>
    BY <1>3 DEF all_vars, recorder_vars, sample_vars, local_vars, memory_vars, pointer_vars
  <2> QED
    BY <1>1, <2>1 DEF Cleared, Present, Departed
<1> QED
  BY <1>1, <1>2, <1>3, RecordRefinementInv, SampleRefinementInv DEF RecorderNext

THEOREM RefinementInvariant == RecorderSpec => []RefinementInv
<1> QED
  BY InitRefinementInv, NextRefinementInv, PTL DEF RecorderSpec

-----------------------------------------------------------------------------
(***************************************************************************)
(* The abstract state.                                                     *)
(***************************************************************************)

\* The histograms that hold a sample: handed out, or about to be.
Taken(h) ==
    \/ \E r \in Readers : h \in held[r]
    \/ \E r \in Readers : spos[r] \in {"flip", "return"} /\ h = old_active[r]
    \/ \E r \in InactiveUsers : spos[r] = "out" /\ h = inactive

\* What a histogram will hold when the writers that have loaded it are done.
Holding(h) == [v \in Values |-> Awaited(h, v)]

\* The state functions that Interval substitutes for current and sample.
CurrentBar == [v \in Values |-> Awaited(active, v)]
SampleBar ==
    [h \in Histograms |->
        IF h \in Handed \union {old_active[r] : r \in {q \in Readers : spos[q] = "return"}}
        THEN [v \in Values |-> Counted(h, v)]
        ELSE IF h \in {old_active[r] : r \in {q \in Readers : spos[q] = "flip"}}
        THEN [v \in Values |-> Awaited(h, v)]
        ELSE NULL]

\* The updates of v that writers have still to make, and the writers on h.
Left(v) == [w \in Writers |-> Cardinality(Occurring(todo[w], v))]
On(h) == {w \in Writers : target[w] = h}

LEMMA AwaitedIs ==
    ASSUME RecorderTypeOK, NEW h \in Histograms, NEW v \in Values
    PROVE  /\ Awaited(h, v) = cells[h][v] + SumFunctionOnSet(Left(v), On(h))
           /\ cells[h][v] \in Int
           /\ IsFiniteSet(On(h))
           /\ \A w \in Writers : Left(v)[w] \in Int /\ Left(v)[w] = Cardinality(Occurring(todo[w], v))
           /\ SumFunctionOnSet(Left(v), On(h)) \in Int
<1>1. Awaited(h, v) = cells[h][v] + SumFunctionOnSet(Left(v), On(h))
  BY DEF Awaited, Counted, Left, On, Occurring
<1>2. cells[h][v] \in Int
  BY DEF RecorderTypeOK, Cells
<1>3. IsFiniteSet(On(h)) /\ On(h) \subseteq Writers
  BY PhaserAssumption, FS_Subset DEF On
<1>4. ASSUME NEW w \in Writers
      PROVE  Left(v)[w] \in Int /\ Left(v)[w] = Cardinality(Occurring(todo[w], v))
  <2>1. todo[w] \in Seq(Cells)
    BY DEF RecorderTypeOK
  <2> QED
    BY <2>1, OccurringFinite DEF Left
<1>5. SumFunctionOnSet(Left(v), On(h)) \in Int
  <2>1. \A w \in On(h) : Left(v)[w] \in Int
    BY <1>3, <1>4
  <2> QED
    BY <1>3, <2>1, SumInt
<1> QED
  BY <1>1, <1>2, <1>3, <1>4, <1>5

\* A writer on another histogram makes no difference.
LEMMA AwaitedSame ==
    ASSUME RecorderTypeOK, RecorderTypeOK', NEW h \in Histograms, NEW v \in Values,
           cells'[h][v] = cells[h][v],
           \A w \in Writers : target'[w] = h <=> target[w] = h,
           \A w \in Writers : target[w] = h => todo'[w] = todo[w]
    PROVE  Awaited(h, v)' = Awaited(h, v)
<1> DEFINE left == Left(v)
           left2 == Left(v)'
           on == On(h)
<1>1. On(h)' = on
  BY DEF On
<1>2. \A w \in on : left2[w] = left[w]
  BY DEF On, Left
<1>3. IsFiniteSet(on)
  BY AwaitedIs
<1>4. SumFunctionOnSet(left2, on) = SumFunctionOnSet(left, on)
  <2> HIDE DEF left, left2, on
  <2> QED
    BY <1>2, <1>3, SumSame
<1>5. Awaited(h, v) = cells[h][v] + SumFunctionOnSet(left, on)
  BY AwaitedIs
<1>6. Awaited(h, v)' = cells'[h][v] + SumFunctionOnSet(left2, On(h)')
  BY DEF Awaited, Counted, Left, On, Occurring
<1> QED
  BY <1>1, <1>4, <1>5, <1>6

\* A histogram that no writer is on holds what is counted in it.
LEMMA AwaitedNone ==
    ASSUME RecorderTypeOK, NEW h \in Histograms, NEW v \in Values,
           \A w \in Writers : target[w] # h
    PROVE  Awaited(h, v) = cells[h][v]
<1>1. On(h) = {}
  BY DEF On
<1>2. SumFunctionOnSet(Left(v), On(h)) = 0
  BY <1>1, SumEmpty
<1>3. Awaited(h, v) = cells[h][v] + SumFunctionOnSet(Left(v), On(h)) /\ cells[h][v] \in Int
  BY AwaitedIs
<1> QED
  BY <1>2, <1>3

\* No writer is on a histogram that a caller may read, or that a call that has
\* waited out its flip is about to return.
LEMMA NoWriterOfSettled ==
    RecorderInv => \A h \in Histograms :
        h \in Handed \union {old_active[r] : r \in {q \in Readers : spos[q] = "return"}} =>
            \A w \in Writers : target[w] # h
<1> SUFFICES ASSUME RecorderInv, NEW h \in Histograms,
                    h \in Handed \union {old_active[r] : r \in {q \in Readers : spos[q] = "return"}},
                    NEW w \in Writers, target[w] = h
             PROVE  FALSE
  OBVIOUS
<1> USE DEF RecorderInv
<1>1. PhaserTypeOK /\ InactiveUsers \subseteq Readers /\ NULL \notin Histograms
  BY RecorderAssumption DEF IInv
<1>2. ~destroyed
  BY <1>1, TargetFacts
<1>3. CASE \E r \in Readers : h \in held[r]
  <2>1. \E r \in Readers : Claimed("held", r, h)
    BY <1>3 DEF Claimed
  <2> QED
    BY <1>1, <2>1, NoWriterOf
<1>4. CASE \E u \in InactiveUsers : spos[u] = "out" /\ h = inactive
  <2>1. \E u \in Readers : Claimed("inactive", u, h)
    BY <1>1, <1>2, <1>4 DEF Claimed
  <2> QED
    BY <1>1, <2>1, NoWriterOf
<1>5. CASE \E r \in Readers : spos[r] = "return" /\ h = old_active[r]
  <2>1. PICK r \in Readers : spos[r] = "return" /\ h = old_active[r]
    BY <1>5
  <2>2. Claimed("returned", r, h) /\ {"returned", "active"} \subseteq Kinds
    BY <2>1 DEF Claimed, Kinds
  <2>3. \A k \in Kinds, q \in Readers \union {NULL} : Claimed(k, q, h) <=> k = "returned" /\ q = r
    BY <2>2, OneClaim
  <2>4. h # active
    BY <1>2, <2>2, <2>3 DEF Claimed
  <2>5. PICK q \in Readers : spos[q] = "flip" /\ h = old_active[q]
    BY <1>1, <2>4 DEF Targets
  <2>6. Claimed("returned", q, h)
    BY <2>5 DEF Claimed
  <2> QED
    BY <2>1, <2>2, <2>3, <2>5, <2>6
<1> QED
  BY <1>3, <1>4, <1>5 DEF Handed

\* The samples are what the histograms that are taken will hold.
LEMMA SampleIs ==
    RecorderInv => SampleBar = [h \in Histograms |-> IF Taken(h) THEN Holding(h) ELSE NULL]
<1> SUFFICES ASSUME RecorderInv, NEW h \in Histograms
             PROVE  SampleBar[h] = IF Taken(h) THEN Holding(h) ELSE NULL
  BY DEF SampleBar
<1> DEFINE settled == Handed \union {old_active[r] : r \in {q \in Readers : spos[q] = "return"}}
           settling == {old_active[r] : r \in {q \in Readers : spos[q] = "flip"}}
<1>1. RecorderTypeOK /\ NULL \notin Histograms
  BY RecorderAssumption DEF RecorderInv
<1>2. Taken(h) <=> h \in settled \union settling
  BY <1>1 DEF Taken, Handed
<1>3. SampleBar[h] = IF h \in settled THEN [v \in Values |-> Counted(h, v)]
                     ELSE IF h \in settling THEN Holding(h) ELSE NULL
  BY DEF SampleBar, Holding
<1>4. h \in settled => Holding(h) = [v \in Values |-> Counted(h, v)]
  <2> SUFFICES ASSUME h \in settled, NEW v \in Values PROVE Awaited(h, v) = Counted(h, v)
    BY DEF Holding
  <2>1. \A w \in Writers : target[w] # h
    BY NoWriterOfSettled
  <2> QED
    BY <1>1, <2>1, AwaitedNone DEF Counted
<1> HIDE DEF settled, settling
<1> QED
  BY <1>2, <1>3, <1>4

LEMMA SampleWillBe ==
    RecorderInv' => SampleBar' = [h \in Histograms |-> IF Taken(h)' THEN Holding(h)' ELSE NULL]
<1>1. RecorderInv' => (SampleBar = [h \in Histograms |-> IF Taken(h) THEN Holding(h) ELSE NULL])'
  BY SampleIs, PTL
<1> QED
  BY <1>1

-----------------------------------------------------------------------------
(***************************************************************************)
(* What a record call makes of the histograms.                             *)
(***************************************************************************)

\* An update that is made is counted and no longer awaited.
LEMMA AwaitedUpdate ==
    ASSUME RecorderTypeOK, RecorderTypeOK', NEW w \in Writers,
           target[w] # NULL, todo[w] # <<>>, Head(todo[w]) \in Cells,
           cells' = [cells EXCEPT ![target[w]][Head(todo[w])] = @ + 1],
           todo' = [todo EXCEPT ![w] = Tail(@)],
           UNCHANGED target,
           NEW h \in Histograms, NEW v \in Values
    PROVE  Awaited(h, v)' = Awaited(h, v)
<1>1. PICK g \in Histograms : g = target[w]
  BY DEF RecorderTypeOK
<1>2. PICK c \in Cells : c = Head(todo[w])
  OBVIOUS
<1>3. /\ \A u \in Writers \ {w} : todo'[u] = todo[u]
      /\ todo[w] \in Seq(Cells) /\ todo'[w] = Tail(todo[w])
      /\ cells'[h][v] = IF h = g /\ v = c THEN cells[h][v] + 1 ELSE cells[h][v]
  <2>1. /\ \A u \in Writers \ {w} : todo'[u] = todo[u]
        /\ todo[w] \in Seq(Cells) /\ todo'[w] = Tail(todo[w])
    BY DEF RecorderTypeOK
  <2>2. cells'[h][v] = IF h = g /\ v = c THEN cells[h][v] + 1 ELSE cells[h][v]
    <3>1. cells'[h] = IF h = g THEN [cells[g] EXCEPT ![c] = cells[g][c] + 1] ELSE cells[h]
      BY <1>1, <1>2 DEF RecorderTypeOK
    <3>2. cells[g] \in [Cells -> Nat] /\ v \in Cells
      BY DEF RecorderTypeOK, Cells
    <3> QED
      BY <3>1, <3>2
  <2> QED
    BY <2>1, <2>2
<1>4. CASE h # g
  BY <1>1, <1>3, <1>4, AwaitedSame
<1>5. CASE h = g
  <2> DEFINE left == Left(v)
             left2 == Left(v)'
             on == On(h)
  <2>1. /\ Awaited(h, v) = cells[h][v] + SumFunctionOnSet(left, on)
        /\ cells[h][v] \in Int /\ IsFiniteSet(on)
        /\ \A u \in on : left[u] \in Int
        /\ SumFunctionOnSet(left, on) \in Int
    BY AwaitedIs DEF On
  <2>2. /\ Awaited(h, v)' = cells'[h][v] + SumFunctionOnSet(left2, On(h)')
        /\ On(h)' = on
    BY DEF Awaited, Counted, Left, On, Occurring
  <2>3. w \in on /\ \A u \in on \ {w} : left2[u] = left[u]
    BY <1>1, <1>3, <1>5 DEF On, Left
  <2>4. left[w] = Cardinality(Occurring(todo[w], v))
        /\ left2[w] = Cardinality(Occurring(todo'[w], v))
    BY DEF Left
  <2>5. left[w] = left2[w] + (IF c = v THEN 1 ELSE 0)
    BY <1>2, <1>3, <2>4, OccurringTail
  <2>6. left2[w] \in Int
    <3>1. todo'[w] \in Seq(Cells)
      BY DEF RecorderTypeOK
    <3>2. Cardinality(Occurring(todo'[w], v)) \in Nat
      BY <3>1, OccurringFinite
    <3> HIDE DEF left2
    <3> QED
      BY <2>4, <3>2
  <2>7. SumFunctionOnSet(left2, on) = SumFunctionOnSet(left, on) + left2[w] - left[w]
    <3> HIDE DEF left, left2, on
    <3> QED
      BY <2>1, <2>3, <2>6, SumChange
  <2>8. left[w] \in Int
    BY <2>1, <2>3
  <2> HIDE DEF left, left2, on
  <2> QED
    BY <1>3, <1>5, <2>1, <2>2, <2>5, <2>6, <2>7, <2>8
<1> QED
  BY <1>4, <1>5

\* A writer that leaves has made all its updates.
LEMMA AwaitedExit ==
    ASSUME RecorderTypeOK, RecorderTypeOK', NEW w \in Writers, RecordExit(w),
           NEW h \in Histograms, NEW v \in Values
    PROVE  Awaited(h, v)' = Awaited(h, v)
<1>1. /\ UNCHANGED <<cells, todo>> /\ target' = [target EXCEPT ![w] = NULL]
      /\ todo[w] = <<>> /\ NULL \notin Histograms
  BY RecorderAssumption DEF RecordExit, memory_vars
<1>2. CASE target[w] # h
  <2>1. \A u \in Writers : target'[u] = h <=> target[u] = h
    BY <1>1, <1>2 DEF RecorderTypeOK
  <2>2. cells'[h][v] = cells[h][v] /\ \A u \in Writers : todo'[u] = todo[u]
    BY <1>1
  <2> QED
    BY <2>1, <2>2, AwaitedSame
<1>3. CASE target[w] = h
  <2> DEFINE left == Left(v)
             on == On(h)
  <2>1. /\ Awaited(h, v) = cells[h][v] + SumFunctionOnSet(left, on)
        /\ cells[h][v] \in Int /\ IsFiniteSet(on)
        /\ \A u \in on : left[u] \in Int
        /\ left[w] = Cardinality(Occurring(todo[w], v))
    BY AwaitedIs DEF On
  <2>2. /\ Awaited(h, v)' = cells'[h][v] + SumFunctionOnSet(Left(v)', On(h)')
        /\ On(h)' = on \ {w} /\ w \in on /\ Left(v)' = left
    <3>1. On(h)' = on \ {w} /\ w \in on
      BY <1>1, <1>3 DEF On, RecorderTypeOK
    <3> QED
      BY <1>1, <3>1 DEF Awaited, Counted, Left, On, Occurring
  <2>3. left[w] = 0
    <3>1. Occurring(<<>>, v) = {}
      BY DEF Occurring
    <3> QED
      BY <1>1, <2>1, <3>1, FS_EmptySet
  <2>4. SumFunctionOnSet(left, on \ {w}) \in Int
    <3>1. IsFiniteSet(on \ {w}) /\ \A u \in on \ {w} : left[u] \in Int
      BY <2>1, FS_RemoveElement
    <3> HIDE DEF left, on
    <3> QED
      BY <3>1, SumInt
  <2>5. SumFunctionOnSet(left, on) = left[w] + SumFunctionOnSet(left, on \ {w})
    <3> HIDE DEF left, on
    <3> QED
      BY <2>1, <2>2, SumRemove
  <2> HIDE DEF left, on
  <2> QED
    BY <1>1, <2>1, <2>2, <2>3, <2>4, <2>5
<1> QED
  BY <1>2, <1>3

\* All updates of a call are awaited from the moment at which it loads r->active.
LEMMA AwaitedLoad ==
    ASSUME RecorderTypeOK, RecorderTypeOK', NEW w \in Writers, RecordLoad(w),
           target[w] = NULL, NEW call \in Calls, todo[w] = Updates(call),
           NEW h \in Histograms, NEW v \in Values
    PROVE  Awaited(h, v)' = Awaited(h, v)
                               + IF h = active THEN Cardinality(Occurring(call, v)) ELSE 0
<1>1. /\ UNCHANGED <<cells, todo, active>> /\ target' = [target EXCEPT ![w] = active]
      /\ NULL \notin Histograms
  BY RecorderAssumption DEF RecordLoad, memory_vars, pointer_vars
<1>2. /\ Awaited(h, v) = cells[h][v] + SumFunctionOnSet(Left(v), On(h))
      /\ cells[h][v] \in Int /\ IsFiniteSet(On(h))
      /\ \A u \in Writers : Left(v)[u] \in Int
      /\ Left(v)[w] = Cardinality(Occurring(todo[w], v))
      /\ SumFunctionOnSet(Left(v), On(h)) \in Int
  BY AwaitedIs
<1>3. CASE h # active
  <2>1. Awaited(h, v)' = Awaited(h, v)
    <3>1. /\ cells'[h][v] = cells[h][v] /\ \A u \in Writers : todo'[u] = todo[u]
          /\ \A u \in Writers : target'[u] = h <=> target[u] = h
      BY <1>1, <1>3 DEF RecorderTypeOK
    <3> QED
      BY <3>1, AwaitedSame
  <2> QED
    BY <1>2, <1>3, <2>1
<1>4. CASE h = active
  <2> DEFINE left == Left(v)
             on == On(h)
  <2>1. /\ Awaited(h, v)' = cells'[h][v] + SumFunctionOnSet(Left(v)', On(h)')
        /\ On(h)' = on \union {w} /\ w \notin on /\ Left(v)' = left
    <3>1. On(h)' = on \union {w} /\ w \notin on
      BY <1>1, <1>4 DEF On, RecorderTypeOK
    <3> QED
      BY <1>1, <3>1 DEF Awaited, Counted, Left, On, Occurring
  <2>2. SumFunctionOnSet(left, on \union {w}) = left[w] + SumFunctionOnSet(left, on)
    <3>1. IsFiniteSet(on) /\ \A u \in on \union {w} : left[u] \in Int
      BY <1>2 DEF On
    <3> HIDE DEF left, on
    <3> QED
      BY <2>1, <3>1, SumAdd
  <2>3. left[w] = Cardinality(Occurring(call, v)) /\ left[w] \in Int
    BY <1>2, OccurringUpdates
  <2> QED
    BY <1>1, <1>2, <1>4, <2>1, <2>2, <2>3
<1> QED
  BY <1>3, <1>4

\* The other steps of a record call change nothing that is awaited or counted.
LEMMA AwaitedRecord ==
    ASSUME RecorderInv, RecorderTypeOK', NEW w \in Writers,
           (\E call \in Calls : RecordEnter(w, call)) \/ RecordStep(w), ~RecordLoad(w),
           NEW h \in Histograms, NEW v \in Values
    PROVE  Awaited(h, v)' = Awaited(h, v)
<1> USE DEF memory_vars
<1>1. RecorderTypeOK /\ WriterLocals
  BY DEF RecorderInv
<1>2. NULL \notin Histograms
  BY RecorderAssumption
<1>3. CASE \E call \in Calls : RecordEnter(w, call)
  <2>1. /\ UNCHANGED <<cells, target>> /\ target[w] = NULL
        /\ \A u \in Writers \ {w} : todo'[u] = todo[u]
    BY <1>1, <1>3 DEF RecordEnter, WriterLocals, RecorderTypeOK
  <2>2. cells'[h][v] = cells[h][v] /\ \A u \in Writers : target'[u] = h <=> target[u] = h
    BY <2>1
  <2>3. \A u \in Writers : target[u] = h => todo'[u] = todo[u]
    BY <1>2, <2>1
  <2> QED
    BY <1>1, <2>2, <2>3, AwaitedSame
<1>4. ASSUME todo[w] # <<>> PROVE Head(todo[w]) \in Cells
  BY <1>1, <1>4, TailFacts DEF RecorderTypeOK, WriterLocals
<1>5. CASE RecordAdd(w)
  BY <1>1, <1>4, <1>5, AwaitedUpdate DEF RecordAdd
<1>6. CASE RecordRead(w)
  BY <1>1, <1>6, AwaitedSame DEF RecordRead
<1>7. CASE RecordWrite(w)
  <2>1. target[w] # NULL /\ todo[w] # <<>> /\ reg[w] = cells[target[w]][Head(todo[w])]
    BY <1>1, <1>7 DEF RecordWrite, WriterLocals
  <2>2. cells' = [cells EXCEPT ![target[w]][Head(todo[w])] = @ + 1]
    BY <1>7, <2>1 DEF RecordWrite
  <2> QED
    BY <1>1, <1>4, <1>7, <2>1, <2>2, AwaitedUpdate DEF RecordWrite
<1>8. CASE RecordExit(w)
  BY <1>1, <1>8, AwaitedExit
<1> QED
  BY <1>3, <1>5, <1>6, <1>7, <1>8 DEF RecordStep

-----------------------------------------------------------------------------
(***************************************************************************)
(* The abstract steps.                                                     *)
(***************************************************************************)
LEMMA CurrentWillBe ==
    ASSUME NEW a, active' = a
    PROVE  CurrentBar' = Holding(a)'
BY DEF CurrentBar, Holding, Awaited, Counted

\* The current interval and the samples stay what they are as long as the same
\* histograms hold them and as much is counted or awaited in each.
LEMMA StutterStep ==
    ASSUME RecorderInv, RecorderInv', active \in Histograms, active' = active,
           \A h \in Histograms : Taken(h)' <=> Taken(h),
           \A h \in Histograms, v \in Values :
              Taken(h) \/ h = active => Awaited(h, v)' = Awaited(h, v)
    PROVE  CurrentBar' = CurrentBar /\ SampleBar' = SampleBar
<1>1. PICK a \in Histograms : a = active
  OBVIOUS
<1>2. \A h \in Histograms : Taken(h) \/ h = a => Holding(h)' = Holding(h)
  BY <1>1 DEF Holding
<1>3. CurrentBar' = Holding(a)' /\ CurrentBar = Holding(a)
  <2>1. CurrentBar = Holding(a)
    BY <1>1 DEF CurrentBar, Holding
  <2> QED
    BY <1>1, <2>1, CurrentWillBe
<1>4. [h \in Histograms |-> IF Taken(h)' THEN Holding(h)' ELSE NULL]
         = [h \in Histograms |-> IF Taken(h) THEN Holding(h) ELSE NULL]
  BY <1>2
<1> QED
  BY <1>2, <1>3, <1>4, SampleIs, SampleWillBe

\* A call is recorded at once.
LEMMA RecordAbstract ==
    ASSUME RecorderInv, RecorderInv', active \in Histograms, active' = active, ~Taken(active),
           NEW call \in Calls,
           \A h \in Histograms : Taken(h)' <=> Taken(h),
           \A h \in Histograms, v \in Values :
              Awaited(h, v)' = Awaited(h, v)
                                  + IF h = active THEN Cardinality(Occurring(call, v)) ELSE 0
    PROVE  Interval!Record(call)
<1>1. PICK a \in Histograms : a = active
  OBVIOUS
<1>2. RecorderTypeOK
  BY DEF RecorderInv
<1>3. ASSUME NEW h \in Histograms, h # a PROVE Holding(h)' = Holding(h)
  <2>1. \A v \in Values : Awaited(h, v) \in Int
    BY <1>2, AwaitedIs
  <2> QED
    BY <1>1, <1>3, <2>1 DEF Holding
<1>4. SampleBar' = SampleBar
  <2>1. [h \in Histograms |-> IF Taken(h)' THEN Holding(h)' ELSE NULL]
           = [h \in Histograms |-> IF Taken(h) THEN Holding(h) ELSE NULL]
    BY <1>1, <1>3
  <2> QED
    BY <2>1, SampleIs, SampleWillBe
<1>5. CurrentBar' = [v \in Values |-> CurrentBar[v] + Cardinality(Occurring(call, v))]
  <2>1. CurrentBar = Holding(a) /\ CurrentBar' = Holding(a)'
    <3>1. CurrentBar = Holding(a)
      BY <1>1 DEF CurrentBar, Holding
    <3> QED
      BY <1>1, <3>1, CurrentWillBe
  <2>2. \A v \in Values : Holding(a)[v] = Awaited(a, v)
    BY DEF Holding
  <2>3. Holding(a)' = [v \in Values |-> Awaited(a, v)']
    BY DEF Holding
  <2>4. \A v \in Values : Awaited(a, v)' = Awaited(a, v) + Cardinality(Occurring(call, v))
    BY <1>1
  <2> QED
    BY <2>1, <2>2, <2>3, <2>4
<1>6. CurrentBar' = [v \in Values |->
          [u \in Values |-> Awaited(active, u)][v] + Cardinality({i \in DOMAIN call : call[i] = v})]
  <2>1. \A v \in Values : Occurring(call, v) = {i \in DOMAIN call : call[i] = v}
    BY DEF Occurring
  <2>2. CurrentBar = [u \in Values |-> Awaited(active, u)]
    BY DEF CurrentBar
  <2> QED
    BY <1>5, <2>1, <2>2
<1> QED
  BY <1>4, <1>6 DEF Interval!Record, Interval!Occurrences, Interval!Cardinality, Cardinality,
                    CurrentBar, SampleBar

\* The current interval becomes the sample of the histogram that was active.
LEMMA CutAbstract ==
    ASSUME RecorderInv, RecorderInv', NEW a \in Histograms, active = a, ~Taken(a),
           NEW b \in Histograms, active' = b,
           \A h \in Histograms : Taken(h)' <=> Taken(h) \/ h = a,
           \A h \in Histograms, v \in Values : Awaited(h, v)' = Awaited(h, v),
           \A v \in Values : Awaited(b, v) = 0
    PROVE  Interval!Cut(a)
<1>1. \A h \in Histograms : Holding(h)' = Holding(h)
  BY DEF Holding
<1>2. CurrentBar = Holding(a) /\ CurrentBar' = [v \in Values |-> 0]
  <2>1. CurrentBar = Holding(a)
    BY DEF CurrentBar, Holding
  <2>2. CurrentBar' = Holding(b)'
    BY CurrentWillBe
  <2>3. Holding(b) = [v \in Values |-> 0]
    BY DEF Holding
  <2> QED
    BY <1>1, <2>1, <2>2, <2>3
<1>3. SampleBar = [h \in Histograms |-> IF Taken(h) THEN Holding(h) ELSE NULL]
  BY SampleIs
<1>4. SampleBar' = [h \in Histograms |-> IF Taken(h)' THEN Holding(h)' ELSE NULL]
  BY SampleWillBe
<1>5. SampleBar[a] = NULL /\ SampleBar' = [SampleBar EXCEPT ![a] = CurrentBar]
  BY <1>1, <1>2, <1>3, <1>4
<1> QED
  BY <1>2, <1>5 DEF Interval!Cut, CurrentBar, SampleBar

\* The sample of a histogram is given up.
LEMMA DiscardAbstract ==
    ASSUME RecorderInv, RecorderInv', active \in Histograms, active' = active,
           NEW g \in Histograms,
           \A h \in Histograms : Taken(h)' <=> Taken(h) /\ h # g,
           \A h \in Histograms, v \in Values :
              (Taken(h) /\ h # g) \/ h = active => Awaited(h, v)' = Awaited(h, v)
    PROVE  Interval!Discard(g)
<1>1. PICK a \in Histograms : a = active
  OBVIOUS
<1>2. \A h \in Histograms : (Taken(h) /\ h # g) \/ h = a => Holding(h)' = Holding(h)
  BY <1>1 DEF Holding
<1>3. CurrentBar' = CurrentBar
  <2>1. CurrentBar = Holding(a)
    BY <1>1 DEF CurrentBar, Holding
  <2> QED
    BY <1>1, <1>2, <2>1, CurrentWillBe
<1>4. SampleBar = [h \in Histograms |-> IF Taken(h) THEN Holding(h) ELSE NULL]
  BY SampleIs
<1>5. SampleBar' = [h \in Histograms |-> IF Taken(h)' THEN Holding(h)' ELSE NULL]
  BY SampleWillBe
<1>6. SampleBar' = [SampleBar EXCEPT ![g] = NULL]
  BY <1>2, <1>4, <1>5
<1> QED
  BY <1>3, <1>6 DEF Interval!Discard, CurrentBar, SampleBar

-----------------------------------------------------------------------------
(***************************************************************************)
(* The steps of the recorder.                                              *)
(***************************************************************************)

\* Which claims make a sample.
LEMMA TakenIsClaimed ==
    ASSUME RecorderInv, ~destroyed, NEW h \in Histograms
    PROVE  Taken(h) <=> \E k \in {"inactive", "held", "returned"}, q \in Readers : Claimed(k, q, h)
<1>1. InactiveUsers \subseteq Readers
  BY RecorderAssumption
<1> QED
  BY <1>1 DEF Taken, Claimed

\* So a histogram with another claim, or with none, holds no sample.
LEMMA NotTaken ==
    ASSUME RecorderInv, ~destroyed, NEW h \in Histograms,
           h \notin live \/ h = active \/ \E q \in Readers : h = histogram_to_recycle[q]
    PROVE  /\ ~Taken(h)
           /\ h = active => \A q \in Readers : h # histogram_to_recycle[q]
           /\ h \notin live => h # active
<1>1. /\ NULL \notin Histograms
      /\ {"active", "inactive", "recycled", "held", "returned"} \subseteq Kinds
  BY RecorderAssumption DEF Kinds
<1>2. /\ h = active => Claimed("active", NULL, h)
      /\ \A q \in Readers : h = histogram_to_recycle[q] => Claimed("recycled", q, h)
  BY DEF Claimed
<1>3. CASE h \notin live
  <2>1. \A k \in Kinds, q \in Readers \union {NULL} : ~Claimed(k, q, h)
    BY <1>3 DEF RecorderInv, Ownership
  <2> QED
    BY <1>1, <1>2, <1>3, <2>1, TakenIsClaimed
<1>4. ASSUME NEW l \in {"active", "recycled"}, NEW p \in Readers \union {NULL}, Claimed(l, p, h)
      PROVE  ~Taken(h) /\ h \in live
  <2>1. /\ h \in live
        /\ \A k \in Kinds, q \in Readers \union {NULL} : Claimed(k, q, h) <=> k = l /\ q = p
    BY <1>1, <1>4, OneClaim DEF RecorderInv
  <2> QED
    BY <1>1, <2>1, TakenIsClaimed
<1>5. h = active => \A q \in Readers : h # histogram_to_recycle[q]
  <2> SUFFICES ASSUME h = active, NEW q \in Readers, h = histogram_to_recycle[q] PROVE FALSE
    OBVIOUS
  <2>1. Claimed("active", NULL, h) /\ Claimed("recycled", q, h) /\ h \in live
    BY <1>2, <1>4
  <2> QED
    BY <1>1, <2>1 DEF RecorderInv, Ownership
<1> QED
  BY <1>2, <1>3, <1>4, <1>5

\* A record call is recorded when it loads r->active; its other steps do not show.
LEMMA RecordRefines ==
    ASSUME RefinementInv, RecorderInv', ~AllocMayFail, NEW w \in Writers,
           (\E call \in Calls : RecordEnter(w, call)) \/ RecordStep(w)
    PROVE  Interval!Next \/ UNCHANGED <<CurrentBar, SampleBar>>
<1>1. /\ RecorderInv /\ RecorderTypeOK /\ RecorderTypeOK' /\ PhaserTypeOK
      /\ active \in Histograms
  BY DEF RefinementInv, RecorderInv, IInv, Present, RecorderTypeOK
<1>2. UNCHANGED <<active, inactive, destroyed, live, spos, old_active, held>>
  BY <1>1, RecordFrame
<1>3. \A h \in Histograms : Taken(h)' <=> Taken(h)
  BY <1>2 DEF Taken
<1>4. ~destroyed
  BY <1>1 DEF RecorderInv, Unused, RecordEnter, RecordStep, RecordLoad, RecordAdd, RecordRead,
              RecordWrite, RecordExit
<1>5. CASE RecordLoad(w)
  <2>1. PICK call \in Calls : todo[w] = Updates(call)
    BY <1>1, <1>5 DEF RecordLoad, RecorderInv, WriterLocals
  <2>2. target[w] = NULL
    BY <1>1, <1>5 DEF RecordLoad, RecorderInv, WriterLocals
  <2>3. ~Taken(active)
    BY <1>1, <1>4, NotTaken
  <2>4. \A h \in Histograms, v \in Values :
           Awaited(h, v)' = Awaited(h, v)
                               + IF h = active THEN Cardinality(Occurring(call, v)) ELSE 0
    BY <1>1, <1>5, <2>1, <2>2, AwaitedLoad
  <2>5. Interval!Record(call)
    BY <1>1, <1>2, <1>3, <2>3, <2>4, RecordAbstract
  <2> QED
    BY <2>5 DEF Interval!Next
<1>6. CASE ~RecordLoad(w)
  <2>1. \A h \in Histograms, v \in Values : Awaited(h, v)' = Awaited(h, v)
    BY <1>1, <1>6, AwaitedRecord
  <2> QED
    BY <1>1, <1>2, <1>3, <2>1, StutterStep
<1> QED
  BY <1>5, <1>6

\* A histogram whose cells a sample call leaves alone holds as much as before.
LEMMA SampleAwaits ==
    ASSUME RefinementInv, RecorderInv', NEW r \in Readers,
           \/ SampleNull(r) \/ SampleInactive(r)
           \/ \E h \in Histograms : SampleRecycle(r, h) \/ CallerClose(r, h)
           \/ SampleLock(r) \/ SampleStep(r)
    PROVE  \A h \in Histograms, v \in Values : cells'[h] = cells[h] => Awaited(h, v)' = Awaited(h, v)
<1>1. RecorderTypeOK /\ RecorderTypeOK' /\ PhaserTypeOK
  BY DEF RefinementInv, RecorderInv, IInv
<1>2. UNCHANGED <<target, todo>>
  BY <1>1, SampleFrame
<1> QED
  BY <1>1, <1>2, AwaitedSame

\* Up to the store of r->active a call of sample does not show.
LEMMA PrepareRefines ==
    ASSUME RefinementInv, RecorderInv', ~AllocMayFail, NEW r \in Readers,
           SampleNull(r) \/ InitNew(r) \/ Reset(r) \/ SampleLock(r) \/ LoadActive(r)
    PROVE  UNCHANGED <<CurrentBar, SampleBar>>
<1> USE DEF sample_vars, local_vars, memory_vars, pointer_vars
<1>1. /\ RecorderInv /\ RecorderTypeOK /\ PhaserTypeOK /\ active \in Histograms
      /\ NULL \notin Histograms
      /\ SampleStep(r) \/ SampleNull(r) \/ SampleLock(r)
  BY RecorderAssumption
     DEF RefinementInv, RecorderInv, IInv, Present, RecorderTypeOK, SampleStep
<1>2. UNCHANGED <<active, inactive, held>>
  BY DEF SampleNull, InitNew, Reset, SampleLock, LoadActive
<1>3. \A q \in Readers \ {r} : spos'[q] = spos[q] /\ old_active'[q] = old_active[q]
  BY <1>1, SampleFrame
<1>4. ~destroyed
  BY <1>1 DEF RecorderInv, Unused, SampleNull, InitNew, Reset, SampleLock, LoadActive
<1>5. \A h \in Histograms : Taken(h)' <=> Taken(h)
  <2>1. CASE SampleNull(r)
    <3>1. spos[r] = "out" /\ spos'[r] = "config" /\ (r \in InactiveUsers => inactive = NULL)
      BY <1>1, <2>1 DEF SampleNull, RecorderTypeOK
    <3> QED
      BY <1>1, <1>2, <1>3, <3>1, RecorderAssumption DEF Taken
  <2>2. CASE InitNew(r) \/ Reset(r) \/ SampleLock(r) \/ LoadActive(r)
    <3>1. /\ spos[r] \in {"config", "reset", "lock", "load"}
          /\ spos'[r] \in {"lock", "load", "store"}
      BY <1>1, <2>2 DEF InitNew, Reset, SampleLock, LoadActive, RecorderTypeOK
    <3> QED
      BY <1>2, <1>3, <3>1, RecorderAssumption DEF Taken
  <2> QED
    BY <2>1, <2>2
<1>6. ASSUME NEW h \in Histograms, Taken(h) \/ h = active PROVE cells'[h] = cells[h]
  <2>1. CASE InitNew(r)
    <3>1. h \in live
      BY <1>1, <1>4, <1>6, NotTaken
    <3> QED
      BY <1>1, <2>1, <3>1 DEF InitNew, RecorderTypeOK
  <2>2. CASE Reset(r)
    <3>1. h # histogram_to_recycle[r]
      BY <1>1, <1>4, <1>6, NotTaken
    <3> QED
      BY <1>1, <2>2, <3>1 DEF Reset, RecorderTypeOK
  <2>3. CASE SampleNull(r) \/ SampleLock(r) \/ LoadActive(r)
    BY <2>3 DEF SampleNull, SampleLock, LoadActive
  <2> QED
    BY <2>1, <2>2, <2>3
<1>7. \A h \in Histograms, v \in Values :
         Taken(h) \/ h = active => Awaited(h, v)' = Awaited(h, v)
  BY <1>1, <1>6, SampleAwaits
<1> QED
  BY <1>1, <1>2, <1>5, <1>7, StutterStep

\* The store of r->active cuts the interval off.
LEMMA StoreRefines ==
    ASSUME RefinementInv, RecorderInv', ~AllocMayFail, NEW r \in Readers, StoreActive(r)
    PROVE  Interval!Next
<1>1. /\ RecorderInv /\ RecorderTypeOK /\ RecorderTypeOK' /\ PhaserTypeOK
      /\ active \in Histograms
      /\ WriterLocals /\ Unused /\ Targets /\ Ownership
  BY DEF RefinementInv, RecorderInv, IInv, Present, RecorderTypeOK
<1>2. /\ spos[r] = "store" /\ UNCHANGED <<inactive, cells, old_active, held>>
      /\ active' = histogram_to_recycle[r] /\ spos' = [spos EXCEPT ![r] = "flip"]
  BY DEF StoreActive, memory_vars
<1>3. old_active[r] = active /\ ~destroyed
  BY <1>1, <1>2 DEF RecorderInv, SamplerLocals, Unused
<1>4. PICK a \in Histograms : a = active
  BY <1>1
<1>5. PICK b \in Histograms : b = histogram_to_recycle[r]
  <2>1. histogram_to_recycle[r] # NULL
    BY <1>2 DEF RefinementInv, Present
  <2> QED
    BY <1>1, <2>1 DEF RecorderTypeOK
<1>6. cells[b] = Empty
  BY <1>1, <1>2, <1>5, RecorderAssumption DEF RefinementInv, Cleared
<1>7. ~Taken(a)
  BY <1>1, <1>3, <1>4, NotTaken
<1>8. \A h \in Histograms : Taken(h)' <=> Taken(h) \/ h = a
  <2>1. spos'[r] = "flip" /\ \A q \in Readers \ {r} : spos'[q] = spos[q]
    BY <1>1, <1>2 DEF RecorderTypeOK
  <2> QED
    BY <1>2, <1>3, <1>4, <2>1, RecorderAssumption DEF Taken
<1>9. \A h \in Histograms, v \in Values : Awaited(h, v)' = Awaited(h, v)
  BY <1>2, SampleAwaits DEF SampleStep
<1>10. \A v \in Values : Awaited(b, v) = 0
  <2>1. Claimed("recycled", r, b)
    BY <1>5 DEF Claimed
  <2>2. \A w \in Writers : target[w] # b
    BY <1>1, <2>1, NoWriterOf
  <2>3. \A v \in Values : cells[b][v] = 0
    BY <1>6 DEF Empty, Cells
  <2> QED
    BY <1>1, <2>2, <2>3, AwaitedNone
<1>11. active = a /\ active' = b
  BY <1>2, <1>4, <1>5
<1>12. Interval!Cut(a)
  BY <1>1, <1>7, <1>8, <1>9, <1>10, <1>11, CutAbstract
<1> QED
  BY <1>12 DEF Interval!Next

\* After it, the call passes on a sample that does not change any more.
LEMMA ReturnRefines ==
    ASSUME RefinementInv, RecorderInv', ~AllocMayFail, NEW r \in Readers,
           Flip(r) \/ SampleUnlock(r) \/ SampleReturn(r)
    PROVE  UNCHANGED <<CurrentBar, SampleBar>>
<1> USE DEF sample_vars, local_vars, memory_vars, pointer_vars, recorder_vars
<1>1. /\ RecorderInv /\ RecorderTypeOK /\ PhaserTypeOK /\ active \in Histograms
      /\ NULL \notin Histograms /\ InactiveUsers \subseteq Readers
      /\ \A u, v \in InactiveUsers : u = v
      /\ SampleStep(r)
  BY RecorderAssumption
     DEF RefinementInv, RecorderInv, IInv, Present, RecorderTypeOK, SampleStep
<1>2. UNCHANGED <<active, cells>>
  BY DEF Flip, SampleUnlock, SampleReturn
<1>3. \A q \in Readers \ {r} :
         spos'[q] = spos[q] /\ old_active'[q] = old_active[q] /\ held'[q] = held[q]
  BY <1>1, SampleFrame
<1>4. \A h \in Histograms : Taken(h)' <=> Taken(h)
  <2>1. CASE Flip(r) \/ SampleUnlock(r)
    <3>1. /\ spos[r] = "flip" /\ spos'[r] \in {"flip", "return"}
          /\ UNCHANGED <<inactive, held, old_active>>
      BY <1>1, <2>1 DEF Flip, SampleUnlock, RecorderTypeOK
    <3> QED
      BY <1>1, <1>3, <3>1 DEF Taken
  <2>2. CASE SampleReturn(r)
    <3>0. PICK old : old = old_active[r]
      OBVIOUS
    <3>1. spos[r] = "return" /\ spos'[r] = "out"
      BY <1>1, <2>2 DEF SampleReturn, RecorderTypeOK
    <3>2. CASE r \in InactiveUsers
      <4>1. inactive' = old /\ UNCHANGED held
        BY <1>1, <2>2, <3>0, <3>1, <3>2 DEF SampleReturn, RecorderInv, SamplerLocals
      <4> QED
        BY <1>1, <1>3, <3>0, <3>1, <3>2, <4>1 DEF Taken
    <3>3. CASE r \notin InactiveUsers
      <4>1. UNCHANGED inactive /\ held'[r] = held[r] \union ({old} \ {NULL})
        BY <1>1, <2>2, <3>0, <3>1, <3>3 DEF SampleReturn, RecorderInv, SamplerLocals,
                                            RecorderTypeOK
      <4> QED
        BY <1>1, <1>3, <3>0, <3>1, <3>3, <4>1 DEF Taken
    <3> QED
      BY <3>2, <3>3
  <2> QED
    BY <2>1, <2>2
<1>5. \A h \in Histograms, v \in Values : Awaited(h, v)' = Awaited(h, v)
  BY <1>1, <1>2, SampleAwaits
<1> QED
  BY <1>1, <1>2, <1>4, <1>5, StutterStep

\* A caller that recycles a histogram, or closes it, gives its sample up.
LEMMA DiscardRefines ==
    ASSUME RefinementInv, RecorderInv', ~AllocMayFail, NEW r \in Readers,
           SampleInactive(r) \/ \E h \in Histograms : SampleRecycle(r, h) \/ CallerClose(r, h)
    PROVE  Interval!Next
<1> USE DEF sample_vars, local_vars, memory_vars, pointer_vars
<1>1. /\ RecorderInv /\ RecorderTypeOK /\ PhaserTypeOK /\ active \in Histograms
      /\ NULL \notin Histograms /\ InactiveUsers \subseteq Readers
      /\ \A u, v \in InactiveUsers : u = v
      /\ {"active", "inactive", "held", "returned"} \subseteq Kinds
      /\ Ownership
  BY RecorderAssumption
     DEF RefinementInv, RecorderInv, IInv, Present, RecorderTypeOK, Kinds
<1>2. UNCHANGED <<active, inactive, old_active>> /\ spos[r] = "out"
  BY DEF SampleInactive, SampleRecycle, CallerClose
<1>3. \A q \in Readers \ {r} : spos'[q] = spos[q] /\ held'[q] = held[q]
  BY <1>1, SampleFrame
<1>4. CASE SampleInactive(r)
  <2>1. /\ r \in InactiveUsers /\ ~destroyed /\ UNCHANGED <<held, cells>> /\ spos'[r] = "reset"
        /\ inactive \in Histograms
    BY <1>1, <1>4 DEF SampleInactive, RecorderTypeOK
  <2>2. PICK g \in Histograms : g = inactive
    BY <2>1
  <2>3. Claimed("inactive", r, g)
    BY <1>2, <2>1, <2>2 DEF Claimed
  <2>4. \A k \in Kinds, q \in Readers \union {NULL} : Claimed(k, q, g) <=> k = "inactive" /\ q = r
    BY <1>1, <2>3, OneClaim
  <2>5. \A q \in Readers : /\ g \notin held[q]
                           /\ spos[q] \in {"flip", "return"} => g # old_active[q]
    BY <1>1, <2>4 DEF Claimed
  <2>6. \A h \in Histograms : Taken(h)' <=> Taken(h) /\ h # g
    BY <1>1, <1>2, <1>3, <2>1, <2>2, <2>5 DEF Taken
  <2>7. \A h \in Histograms, v \in Values : Awaited(h, v)' = Awaited(h, v)
    BY <2>1, SampleAwaits
  <2>8. Interval!Discard(g)
    BY <1>1, <1>2, <2>6, <2>7, DiscardAbstract
  <2> QED
    BY <2>8 DEF Interval!Next
<1>5. ASSUME NEW g \in Histograms, SampleRecycle(r, g) \/ CallerClose(r, g)
      PROVE  Interval!Next
  <2>1. /\ held' = [held EXCEPT ![r] = @ \ {g}] /\ g \in held[r]
        /\ \/ spos'[r] = "reset" /\ UNCHANGED cells /\ r \notin InactiveUsers /\ ~destroyed
           \/ UNCHANGED spos /\ cells' = [cells EXCEPT ![g] = Empty]
    BY <1>1, <1>5 DEF SampleRecycle, CallerClose, RecorderTypeOK
  <2>2. held'[r] = held[r] \ {g}
    BY <1>1, <2>1 DEF RecorderTypeOK
  <2>3. Claimed("held", r, g)
    BY <2>1 DEF Claimed
  <2>4. /\ g \in live
        /\ \A k \in Kinds, q \in Readers \union {NULL} : Claimed(k, q, g) <=> k = "held" /\ q = r
    BY <1>1, <2>3, OneClaim
  <2>5. \A q \in Readers : /\ g \in held[q] => q = r
                           /\ spos[q] \in {"flip", "return"} => g # old_active[q]
    BY <1>1, <2>4 DEF Claimed
  <2>6. g # active /\ \A u \in InactiveUsers : spos[u] = "out" => g # inactive
    <3>1. CASE ~destroyed
      BY <1>1, <2>4, <3>1 DEF Claimed
    <3>2. CASE destroyed
      BY <2>4, <3>2 DEF RefinementInv, Departed
    <3> QED
      BY <3>1, <3>2
  <2>7. \A u \in InactiveUsers : spos'[u] = spos[u]
    BY <1>1, <1>3, <2>1
  <2>8. \A q \in Readers : spos'[q] \in {"flip", "return"} <=> spos[q] \in {"flip", "return"}
    BY <1>2, <1>3, <2>1
  <2>9. \A h \in Histograms : Taken(h)' <=> Taken(h) /\ h # g
    BY <1>1, <1>2, <1>3, <2>2, <2>5, <2>6, <2>7, <2>8 DEF Taken
  <2>10. \A h \in Histograms : h # g => cells'[h] = cells[h]
    BY <1>1, <2>1 DEF RecorderTypeOK
  <2>11. \A h \in Histograms, v \in Values :
            (Taken(h) /\ h # g) \/ h = active => Awaited(h, v)' = Awaited(h, v)
    BY <1>5, <2>6, <2>10, SampleAwaits
  <2>12. Interval!Discard(g)
    BY <1>1, <1>2, <2>9, <2>11, DiscardAbstract
  <2> QED
    BY <2>12 DEF Interval!Next
<1> QED
  BY <1>4, <1>5

\* What callers hold outlives the recorder.
LEMMA IdleRefines ==
    ASSUME RefinementInv, RecorderInv', ~AllocMayFail, Destroy \/ UNCHANGED all_vars
    PROVE  UNCHANGED <<CurrentBar, SampleBar>>
<1>1. RecorderInv /\ active \in Histograms /\ RecorderTypeOK /\ RecorderTypeOK'
  BY DEF RefinementInv, RecorderInv, Present, RecorderTypeOK
<1>2. UNCHANGED <<active, inactive, cells, target, todo, spos, old_active, held>>
  BY DEF Destroy, all_vars, recorder_vars, record_vars, sample_vars, local_vars, memory_vars,
         pointer_vars
<1>3. \A h \in Histograms : Taken(h)' <=> Taken(h)
  BY <1>2 DEF Taken
<1>4. \A h \in Histograms, v \in Values : Awaited(h, v)' = Awaited(h, v)
  BY <1>1, <1>2, AwaitedSame
<1> QED
  BY <1>1, <1>2, <1>3, <1>4, StutterStep

\* Nothing has been recorded, and nothing sampled.
LEMMA InitRefines ==
    ASSUME RecorderInit
    PROVE  Interval!Init
<1>1. RecorderInv /\ RecorderTypeOK
  BY InitRecorderInv DEF RecorderInv
<1>2. PICK a \in Histograms : a = active
  BY DEF RecorderInit
<1>3. /\ NULL \notin Histograms
      /\ \A w \in Writers : target[w] = NULL
      /\ \A v \in Values : cells[a][v] = 0
      /\ inactive = NULL /\ \A r \in Readers : spos[r] = "out" /\ held[r] = {}
  BY RecorderAssumption DEF RecorderInit, Empty, Cells
<1>4. CurrentBar = [v \in Values |-> 0]
  <2>1. \A v \in Values : Awaited(active, v) = 0
    BY <1>1, <1>2, <1>3, AwaitedNone
  <2> QED
    BY <2>1 DEF CurrentBar
<1>5. SampleBar = [h \in Histograms |-> NULL]
  <2>1. \A h \in Histograms : ~Taken(h)
    BY <1>3 DEF Taken
  <2> QED
    BY <1>1, <2>1, SampleIs
<1> QED
  BY <1>4, <1>5 DEF Interval!Init, CurrentBar, SampleBar

\* Recording and sampling are atomic, when allocations succeed: whatever threads
\* record and sample at once, each call of record is in exactly one sample, the
\* one that is cut next, and a sample that was returned does not change.
THEOREM RecorderImplementsInterval ==
    ~AllocMayFail => (RecorderSpec => ImplementsInterval)
<1> SUFFICES ASSUME ~AllocMayFail PROVE RecorderSpec => ImplementsInterval
  OBVIOUS
<1>1. RecorderInit => Interval!Init
  BY InitRefines
<1>2. RefinementInv /\ RefinementInv' /\ [RecorderNext]_all_vars => [Interval!Next]_(Interval!vars)
  <2> SUFFICES ASSUME RefinementInv, RefinementInv', [RecorderNext]_all_vars
               PROVE  Interval!Next \/ UNCHANGED Interval!vars
    OBVIOUS
  <2>1. RecorderInv'
    BY DEF RefinementInv
  <2>2. Interval!Next \/ UNCHANGED <<CurrentBar, SampleBar>>
    <3>1. ASSUME NEW w \in Writers, (\E call \in Calls : RecordEnter(w, call)) \/ RecordStep(w)
          PROVE  Interval!Next \/ UNCHANGED <<CurrentBar, SampleBar>>
      BY <2>1, <3>1, RecordRefines
    <3>2. ASSUME NEW r \in Readers,
                 \/ SampleNull(r) \/ SampleInactive(r)
                 \/ \E h \in Histograms : SampleRecycle(r, h) \/ CallerClose(r, h)
                 \/ SampleLock(r) \/ SampleStep(r)
          PROVE  Interval!Next \/ UNCHANGED <<CurrentBar, SampleBar>>
      BY <2>1, <3>2, PrepareRefines, StoreRefines, ReturnRefines, DiscardRefines DEF SampleStep
    <3>3. CASE Destroy \/ UNCHANGED all_vars
      BY <2>1, <3>3, IdleRefines
    <3> QED
      BY <3>1, <3>2, <3>3 DEF RecorderNext
  <2> QED
    BY <2>2 DEF Interval!vars, CurrentBar, SampleBar
<1> QED
  BY <1>1, <1>2, RefinementInvariant, PTL DEF RecorderSpec, ImplementsInterval, Interval!Spec

\* A call of sample returns a histogram, when allocations succeed.
THEOREM ReturnsHistogramCorrect ==
    ~AllocMayFail => (RecorderSpec => []ReturnsHistogram)
<1> SUFFICES ASSUME ~AllocMayFail PROVE RecorderSpec => []ReturnsHistogram
  OBVIOUS
<1>1. RefinementInv => ReturnsHistogram
  BY DEF RefinementInv, Present, ReturnsHistogram
<1> QED
  BY <1>1, RefinementInvariant, PTL

\* The configuration that a call of sample copies is that of an allocated histogram,
\* when callers close no histogram and allocations succeed: only then may threads
\* sample at once.
THEOREM ConfigReadSafeCorrect ==
    ~AllocMayFail /\ ~CallersClose => (RecorderSpec => []ConfigReadSafe)
<1> SUFFICES ASSUME ~AllocMayFail, ~CallersClose PROVE RecorderSpec => []ConfigReadSafe
  OBVIOUS
<1>1. RecorderInit => ConfigReadSafe
  BY DEF RecorderInit, ConfigReadSafe
<1>2. RefinementInv /\ ConfigReadSafe /\ [RecorderNext]_all_vars => ConfigReadSafe'
  <2> SUFFICES ASSUME RefinementInv, ConfigReadSafe, [RecorderNext]_all_vars
               PROVE  ConfigReadSafe'
    OBVIOUS
  <2> USE DEF sample_vars, local_vars, memory_vars, pointer_vars
  <2>1. RecorderTypeOK /\ PhaserTypeOK
    BY DEF RefinementInv, RecorderInv, IInv
  <2>2. ASSUME NEW w \in Writers, (\E call \in Calls : RecordEnter(w, call)) \/ RecordStep(w)
        PROVE  ConfigReadSafe'
    <3>1. UNCHANGED <<live, spos, config_of>>
      BY <2>1, <2>2, RecordFrame
    <3> QED
      BY <3>1 DEF ConfigReadSafe
  <2>3. ASSUME NEW r \in Readers, SampleNull(r)
        PROVE  ConfigReadSafe'
    <3>1. /\ UNCHANGED live /\ ~destroyed
          /\ spos' = [spos EXCEPT ![r] = "config"]
          /\ config_of' = [config_of EXCEPT ![r] = active]
      BY <2>3 DEF SampleNull
    <3>2. active \in live
      <4>1. Claimed("active", NULL, active) /\ active \in Histograms /\ "active" \in Kinds
        BY <2>1, <3>1 DEF Claimed, Kinds, RefinementInv, Present, RecorderTypeOK
      <4> QED
        BY <4>1 DEF RefinementInv, RecorderInv, Ownership
    <3> QED
      BY <2>1, <3>1, <3>2 DEF ConfigReadSafe, RecorderTypeOK
  <2>4. ASSUME NEW r \in Readers,
               \/ SampleInactive(r) \/ SampleLock(r) \/ SampleStep(r)
               \/ \E h \in Histograms : SampleRecycle(r, h)
        PROVE  ConfigReadSafe'
    <3>1. live \subseteq live'
      BY <2>4 DEF SampleInactive, SampleLock, SampleRecycle, SampleStep, InitNew, Reset,
                  LoadActive, StoreActive, Flip, SampleUnlock, SampleReturn, recorder_vars
    <3>2. /\ spos'[r] # "config" \/ UNCHANGED <<spos, config_of>>
          /\ \A q \in Readers \ {r} : config_of'[q] = config_of[q]
      <4>1. CASE InitNew(r)
        BY <2>1, <4>1 DEF InitNew, RecorderTypeOK
      <4>2. CASE ~InitNew(r)
        BY <2>1, <2>4, <4>2
           DEF SampleInactive, SampleLock, SampleRecycle, SampleStep, Reset, LoadActive,
               StoreActive, Flip, SampleUnlock, SampleReturn, recorder_vars, RecorderTypeOK
      <4> QED
        BY <4>1, <4>2
    <3>3. \A q \in Readers \ {r} : spos'[q] = spos[q]
      BY <2>1, <2>4, SampleFrame
    <3> QED
      BY <3>1, <3>2, <3>3 DEF ConfigReadSafe
  <2>5. ASSUME NEW r \in Readers, NEW h \in Histograms, CallerClose(r, h)
        PROVE  ConfigReadSafe'
    BY <2>5 DEF CallerClose
  <2>6. CASE Destroy
    BY <2>6 DEF Destroy, ConfigReadSafe
  <2>7. CASE UNCHANGED all_vars
    BY <2>7 DEF all_vars, recorder_vars, ConfigReadSafe
  <2> QED
    BY <2>2, <2>3, <2>4, <2>5, <2>6, <2>7 DEF RecorderNext
<1> QED
  BY <1>1, <1>2, RefinementInvariant, PTL DEF RecorderSpec
=============================================================================
