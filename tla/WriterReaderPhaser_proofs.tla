---------------------- MODULE WriterReaderPhaser_proofs ----------------------
(***************************************************************************)
(* Proofs about WriterReaderPhaser, for any finite set of writers, any set *)
(* of readers and any width of the epochs.                                 *)
(***************************************************************************)
EXTENDS WriterReaderPhaser, FiniteSetTheorems, TLAPS

\* A reader past the lock is the one that holds the mutex.
Locking == \A r \in Readers : rpc[r] # "idle" <=> reader_mutex = r

\* Values that start_epoch takes in an even and in an odd phase.
PhaseValues(phase) ==
    IF phase = "even" THEN 0 .. MaxEnters ELSE -HalfRange .. (MaxEnters - HalfRange)

\* Where a flip is, seen from the phase that start_epoch is in.
FlipProgress ==
    \A r \in Readers :
        /\ rpc[r] \in {"loaded", "cleared"} => next_phase[r] = Other(CurrentPhase)
        /\ rpc[r] = "cleared" =>
              end_epoch[Other(CurrentPhase)] = InitialStartValue(Other(CurrentPhase))
        /\ rpc[r] = "spinning" =>
              /\ next_phase[r] = CurrentPhase
              /\ start_value_at_flip[r] \in PhaseValues(Other(CurrentPhase))

\* The inductive invariant.
IInv ==
    /\ PhaserTypeOK
    /\ Locking
    /\ start_epoch \in PhaseValues(CurrentPhase)
    /\ FlipProgress
    /\ EpochAccounting
    /\ NoStragglers

USE PhaserAssumption

-----------------------------------------------------------------------------
(***************************************************************************)
(* Facts about the sets of writers inside.                                 *)
(***************************************************************************)

\* The writers inside are finitely many, so they can be counted.
LEMMA InsideOfFinite ==
    ASSUME NEW phase
    PROVE  /\ IsFiniteSet(InsideOf(phase))
           /\ Cardinality(InsideOf(phase)) \in Nat
           /\ Cardinality(InsideOf(phase)) = 0 <=> InsideOf(phase) = {}
<1>1. InsideOf(phase) \subseteq Writers
  BY DEF InsideOf, Inside
<1>2. IsFiniteSet(InsideOf(phase))
  BY <1>1, FS_Subset
<1> QED
  BY <1>2, FS_CardinalityType, FS_EmptySet

\* Initially nobody is inside and the epochs agree.
LEMMA InitIInv == PhaserInit => IInv
<1> SUFFICES ASSUME PhaserInit PROVE IInv
  OBVIOUS
<1> USE DEF PhaserInit
<1>1. PhaserTypeOK
  BY DEF PhaserTypeOK, Epochs, Phases, PhaseOf, InitialStartValue
<1>2. CurrentPhase = "even" /\ start_epoch = 0 /\ end_epoch["even"] = 0
  BY DEF CurrentPhase, PhaseOf, Phases, InitialStartValue
<1>3. \A phase : InsideOf(phase) = {}
  BY DEF InsideOf, Inside
<1>4. Locking /\ FlipProgress
  BY DEF Locking, FlipProgress
<1>5. start_epoch \in PhaseValues(CurrentPhase)
  BY <1>2 DEF PhaseValues
<1>6. EpochAccounting
  BY <1>2, <1>3, FS_EmptySet DEF EpochAccounting, Spinning
<1>7. NoStragglers
  BY <1>3 DEF NoStragglers
<1> QED
  BY <1>1, <1>4, <1>5, <1>6, <1>7 DEF IInv

\* The two phases, and the values of each, do not meet.
LEMMA PhaseFacts ==
    /\ \A x : PhaseOf(x) \in Phases
    /\ \A phase \in Phases : Other(phase) \in Phases /\ Other(phase) # phase
                              /\ Other(Other(phase)) = phase
    /\ \A phase \in Phases : \A x \in PhaseValues(phase) :
          PhaseOf(x) = phase /\ x \in Int /\ x \in Epochs
BY DEF PhaseOf, Phases, Other, PhaseValues, Epochs

\* A writer that enters is counted in the current phase, and nothing wraps.
LEMMA EnterStep ==
    ASSUME IInv, NEW w \in Writers, WriterEnter(w)
    PROVE  IInv' /\ CurrentPhase' = CurrentPhase
<1> USE DEF IInv
<1>0. PICK cur \in Phases : cur = CurrentPhase
  BY PhaseFacts DEF CurrentPhase
<1>1. PICK old \in Phases : old = Other(cur) /\ old # cur
  BY PhaseFacts
<1>2. /\ start_epoch' = start_epoch + 1
      /\ start_epoch' \in PhaseValues(cur)
      /\ start_epoch' \in Epochs
  BY <1>0 DEF WriterEnter, PhaseEnters, InitialStartValue, PhaseValues, AddFetch, Epochs
<1>3. CurrentPhase' = cur
  BY <1>2, PhaseFacts DEF CurrentPhase
<1>4. /\ w \notin InsideOf(cur)
      /\ InsideOf(cur)' = InsideOf(cur) \union {w}
      /\ InsideOf(old)' = InsideOf(old)
  <2>1. wval'[w] = start_epoch' /\ PhaseOf(wval'[w]) = cur
    BY <1>2, <1>3 DEF WriterEnter, PhaserTypeOK, CurrentPhase
  <2>2. \A v \in Writers \ {w} : wval'[v] = wval[v] /\ wpc'[v] = wpc[v]
    BY DEF WriterEnter, PhaserTypeOK
  <2>3. wpc'[w] = "inside" /\ wpc[w] # "inside"
    BY DEF WriterEnter, PhaserTypeOK
  <2> QED
    BY <1>1, <2>1, <2>2, <2>3 DEF InsideOf, Inside
<1>5. Cardinality(InsideOf(cur)') = Cardinality(InsideOf(cur)) + 1
  BY <1>4, InsideOfFinite, FS_AddElement
<1>6. PhaserTypeOK'
  BY <1>2 DEF WriterEnter, PhaserTypeOK, reader_vars, flip_vars, Epochs
<1>7. UNCHANGED <<end_epoch, reader_mutex, rpc, next_phase, start_value_at_flip>>
  BY DEF WriterEnter, reader_vars, flip_vars
<1>8. Locking' /\ FlipProgress'
  BY <1>0, <1>3, <1>7 DEF Locking, FlipProgress
<1>9. EpochAccounting'
  <2>1. start_epoch \in Int /\ end_epoch[cur] \in Int
    BY <1>1 DEF PhaserTypeOK, Epochs
  <2> QED
    BY <1>0, <1>1, <1>2, <1>3, <1>4, <1>5, <1>7, <2>1, InsideOfFinite DEF EpochAccounting, Spinning
<1>10. NoStragglers'
  BY <1>0, <1>1, <1>3, <1>4, <1>7 DEF NoStragglers, Spinning
<1> QED
  BY <1>0, <1>2, <1>3, <1>6, <1>8, <1>9, <1>10

\* A writer that exits is subtracted from the phase it entered in.
LEMMA ExitStep ==
    ASSUME IInv, NEW w \in Writers, WriterExit(w)
    PROVE  IInv'
<1> USE DEF IInv
<1>1. PICK cur \in Phases, old \in Phases, p \in Phases :
        /\ cur = CurrentPhase
        /\ old = Other(cur) /\ old # cur /\ Phases = {cur, old}
        /\ p = PhaseOf(wval[w])
  BY PhaseFacts DEF CurrentPhase, Phases, Other
<1>2. UNCHANGED <<start_epoch, reader_mutex, rpc, next_phase, start_value_at_flip>>
  BY DEF WriterExit, reader_vars, flip_vars
<1>3. CurrentPhase' = cur
  BY <1>1, <1>2 DEF CurrentPhase
<1>4. /\ w \in InsideOf(p)
      /\ InsideOf(p)' = InsideOf(p) \ {w}
      /\ \A q \in Phases \ {p} : InsideOf(q)' = InsideOf(q)
  BY <1>1 DEF WriterExit, PhaserTypeOK, InsideOf, Inside
<1>5. /\ Cardinality(InsideOf(p)') = Cardinality(InsideOf(p)) - 1
      /\ Cardinality(InsideOf(p)) >= 1
  <2>1. IsFiniteSet(InsideOf(p)) /\ Cardinality(InsideOf(p)) \in Nat
        /\ Cardinality(InsideOf(p)) # 0
    BY <1>4, InsideOfFinite
  <2>2. Cardinality(InsideOf(p) \ {w}) = Cardinality(InsideOf(p)) - 1
    BY <1>4, <2>1, FS_RemoveElement
  <2> QED
    BY <1>4, <2>1, <2>2
<1>6. ASSUME p # cur PROVE Spinning # {}
  BY <1>1, <1>4, <1>6 DEF NoStragglers
<1>7. end_epoch[p] + 1 \in PhaseValues(p) /\ end_epoch[p] \in Int
  <2>1. end_epoch[p] \in Epochs /\ PhaseOf(end_epoch[p]) = p
    BY <1>1 DEF PhaserTypeOK
  <2>2. PICK s \in PhaseValues(p) : s - end_epoch[p] >= 1
    <3>1. CASE p = cur
      BY <1>1, <1>5, <3>1, InsideOfFinite DEF EpochAccounting
    <3>2. CASE p # cur
      <4>1. p = old
        BY <1>1, <3>2
      <4>2. PICK r \in Spinning : TRUE
        BY <1>6, <3>2
      <4> QED
        BY <1>1, <1>5, <4>1, <4>2, InsideOfFinite DEF EpochAccounting, FlipProgress, Spinning
    <3> QED
      BY <3>1, <3>2
  <2> QED
    BY <1>1, <2>1, <2>2 DEF PhaseValues, Epochs, PhaseOf, Phases
<1>8. end_epoch' = [end_epoch EXCEPT ![p] = end_epoch[p] + 1]
  <2>1. AddFetch(end_epoch[p]) = end_epoch[p] + 1
    BY <1>1, <1>7 DEF AddFetch, PhaseValues, Phases
  <2> QED
    BY <1>1, <2>1 DEF WriterExit
<1>9. PhaserTypeOK'
  <2>1. end_epoch' \in [Phases -> Epochs] /\ \A q \in Phases : PhaseOf(end_epoch'[q]) = q
    BY <1>1, <1>7, <1>8, PhaseFacts DEF PhaserTypeOK
  <2> QED
    BY <1>2, <2>1 DEF WriterExit, PhaserTypeOK, Epochs
<1>10. FlipProgress'
  <2>1. SUFFICES ASSUME NEW r \in Readers, rpc[r] = "cleared"
                 PROVE  end_epoch'[old] = end_epoch[old]
    BY <1>1, <1>2, <1>3, <2>1 DEF FlipProgress
  <2>2. Spinning = {}
    BY <2>1 DEF Spinning, Locking
  <2>3. p = cur
    BY <1>6, <2>2
  <2> QED
    BY <1>1, <1>8, <2>3 DEF PhaserTypeOK
<1>11. EpochAccounting'
  <2>1. \A q \in Phases : end_epoch[q] \in Int /\ Cardinality(InsideOf(q)) \in Nat
    BY InsideOfFinite DEF PhaserTypeOK, Epochs
  <2>2. \A q \in Phases : end_epoch'[q] + Cardinality(InsideOf(q)')
                             = end_epoch[q] + Cardinality(InsideOf(q))
    <3>1. end_epoch'[p] = end_epoch[p] + 1
          /\ \A q \in Phases \ {p} : end_epoch'[q] = end_epoch[q]
      BY <1>8 DEF PhaserTypeOK
    <3>2. \A q \in Phases \ {p} : Cardinality(InsideOf(q)') = Cardinality(InsideOf(q))
      BY <1>4
    <3> QED
      BY <1>5, <2>1, <3>1, <3>2
  <2>3. \A q \in Phases : end_epoch'[q] \in Int /\ Cardinality(InsideOf(q)') \in Nat
    BY <1>1, <1>4, <1>5, <1>7, <1>8, <2>1 DEF PhaserTypeOK
  <2>4. start_epoch \in Int /\ \A r \in Readers : start_value_at_flip[r] \in Int
    BY DEF PhaserTypeOK, Epochs
  <2>5. start_epoch' - end_epoch'[cur] = Cardinality(InsideOf(cur)')
    BY <1>1, <1>2, <2>1, <2>2, <2>3, <2>4 DEF EpochAccounting
  <2>6. \A r \in Spinning :
          start_value_at_flip[r] - end_epoch'[old] = Cardinality(InsideOf(old)')
    BY <1>1, <2>1, <2>2, <2>3, <2>4 DEF EpochAccounting, Spinning
  <2> QED
    BY <1>1, <1>2, <1>3, <2>5, <2>6 DEF EpochAccounting, Spinning
<1>12. NoStragglers'
  BY <1>1, <1>2, <1>3, <1>4, <1>6 DEF NoStragglers, Spinning
<1> QED
  BY <1>1, <1>2, <1>3, <1>9, <1>10, <1>11, <1>12 DEF Locking

-----------------------------------------------------------------------------
(***************************************************************************)
(* Steps of readers: none moves a writer.                                  *)
(***************************************************************************)

\* The sets of writers inside depend on the writers' own variables only.
LEMMA WritersUntouched ==
    ASSUME UNCHANGED writer_vars
    PROVE  /\ Inside' = Inside
           /\ \A phase : InsideOf(phase)' = InsideOf(phase)
BY DEF writer_vars, Inside, InsideOf

\* The reader that runs excludes every other one.
LEMMA OthersIdle ==
    ASSUME Locking, NEW r \in Readers, rpc[r] # "idle" \/ reader_mutex = NoReader
    PROVE  \A s \in Readers \ {r} : rpc[s] = "idle"
BY DEF Locking

\* Locking, unlocking and the first load of a flip change no epoch.
LEMMA QuietReaderStep ==
    ASSUME IInv, NEW r \in Readers,
           ReaderLock(r) \/ ReaderUnlock(r) \/ FlipReadStart(r)
    PROVE  IInv'
<1> USE DEF IInv
<1>1. UNCHANGED <<start_epoch, end_epoch, wpc, wval, start_value_at_flip, writer_vars>>
  BY DEF ReaderLock, ReaderUnlock, FlipReadStart, epoch_vars, writer_vars, flip_vars
<1>2. CurrentPhase' = CurrentPhase
  BY <1>1 DEF CurrentPhase
<1>3. Other(CurrentPhase) \in Phases
  BY PhaseFacts DEF CurrentPhase
<1>4. PhaserTypeOK'
  BY <1>1, <1>3 DEF PhaserTypeOK, ReaderLock, ReaderUnlock, FlipReadStart, flip_vars
<1>5. \A s \in Readers \ {r} : rpc[s] = "idle" /\ rpc'[s] = "idle"
  BY OthersIdle DEF PhaserTypeOK, ReaderLock, ReaderUnlock, FlipReadStart
<1>6. Locking'
  BY <1>5 DEF PhaserTypeOK, Locking, ReaderLock, ReaderUnlock, FlipReadStart
<1>7. FlipProgress'
  <2>1. /\ rpc'[r] \notin {"cleared", "spinning"}
        /\ rpc'[r] = "loaded" => next_phase'[r] = Other(CurrentPhase)
    BY DEF PhaserTypeOK, ReaderLock, ReaderUnlock, FlipReadStart
  <2> QED
    BY <1>2, <1>5, <2>1 DEF FlipProgress
<1>8. Spinning' = Spinning
  BY <1>5 DEF Spinning, PhaserTypeOK, ReaderLock, ReaderUnlock, FlipReadStart
<1>9. EpochAccounting' /\ NoStragglers'
  BY <1>1, <1>2, <1>8, WritersUntouched DEF EpochAccounting, NoStragglers
<1> QED
  BY <1>1, <1>2, <1>4, <1>6, <1>7, <1>9

\* Clearing touches the end epoch of the other phase, which has nobody inside.
LEMMA ClearStep ==
    ASSUME IInv, NEW r \in Readers, FlipClearEnd(r)
    PROVE  IInv'
<1> USE DEF IInv
<1>1. PICK cur \in Phases, old \in Phases :
        cur = CurrentPhase /\ old = Other(cur) /\ old # cur
  BY PhaseFacts DEF CurrentPhase
<1>2. UNCHANGED <<start_epoch, reader_mutex, next_phase, start_value_at_flip, writer_vars>>
  BY DEF FlipClearEnd, flip_vars
<1>3. CurrentPhase' = cur
  BY <1>1, <1>2 DEF CurrentPhase
<1>4. end_epoch' = [end_epoch EXCEPT ![old] = InitialStartValue(old)]
  BY <1>1 DEF FlipClearEnd, FlipProgress
<1>5. \A s \in Readers \ {r} : rpc[s] = "idle" /\ rpc'[s] = "idle"
  BY OthersIdle DEF PhaserTypeOK, FlipClearEnd
<1>6. rpc[r] = "loaded" /\ rpc'[r] = "cleared"
  BY DEF PhaserTypeOK, FlipClearEnd
<1>7. PhaserTypeOK'
  <2>1. InitialStartValue(old) \in Epochs /\ PhaseOf(InitialStartValue(old)) = old
    BY <1>1 DEF InitialStartValue, Epochs, PhaseOf, Phases
  <2>2. rpc' \in [Readers -> {"idle", "locked", "loaded", "cleared", "spinning", "flipped"}]
    BY DEF PhaserTypeOK, FlipClearEnd
  <2> QED
    BY <1>2, <1>4, <2>1, <2>2 DEF PhaserTypeOK, writer_vars
<1>8. Spinning = {} /\ Spinning' = {}
  BY <1>5, <1>6 DEF Spinning
<1>9. Locking'
  BY <1>2, <1>5, <1>6 DEF Locking
<1>10. FlipProgress'
  BY <1>1, <1>2, <1>3, <1>4, <1>5, <1>6 DEF FlipProgress, PhaserTypeOK
<1>11. EpochAccounting' /\ NoStragglers'
  <2>1. end_epoch'[cur] = end_epoch[cur]
    BY <1>1, <1>4 DEF PhaserTypeOK
  <2> QED
    BY <1>1, <1>2, <1>3, <1>8, <2>1, WritersUntouched DEF EpochAccounting, NoStragglers
<1> QED
  BY <1>1, <1>2, <1>3, <1>7, <1>9, <1>10, <1>11

\* The exchange swaps the two phases: the one in use becomes the closed one.
LEMMA ExchangeStep ==
    ASSUME IInv, NEW r \in Readers, FlipExchange(r)
    PROVE  IInv' /\ CurrentPhase' = Other(CurrentPhase)
<1> USE DEF IInv
<1>1. PICK cur \in Phases, old \in Phases :
        /\ cur = CurrentPhase
        /\ old = Other(cur) /\ old # cur /\ cur = Other(old)
  BY PhaseFacts DEF CurrentPhase
<1>2. UNCHANGED <<end_epoch, reader_mutex, next_phase, writer_vars>>
  BY DEF FlipExchange
<1>3. next_phase[r] = old /\ start_epoch' = InitialStartValue(old)
      /\ end_epoch[old] = InitialStartValue(old)
  BY <1>1 DEF FlipExchange, FlipProgress
<1>4. InitialStartValue(old) \in PhaseValues(old) /\ InitialStartValue(old) \in Int
  <2>1. CASE old = "even"
    BY <2>1 DEF InitialStartValue, PhaseValues
  <2>2. CASE old = "odd"
    BY <2>2 DEF InitialStartValue, PhaseValues
  <2> QED
    BY <2>1, <2>2 DEF Phases
<1>5. CurrentPhase' = old
  BY <1>3, <1>4, PhaseFacts DEF CurrentPhase
<1>6. \A s \in Readers \ {r} : rpc[s] = "idle" /\ rpc'[s] = "idle"
  BY OthersIdle DEF PhaserTypeOK, FlipExchange
<1>7. /\ rpc[r] = "cleared" /\ rpc'[r] = "spinning"
      /\ start_value_at_flip'[r] = start_epoch
  BY DEF PhaserTypeOK, FlipExchange
<1>8. PhaserTypeOK'
  <2>1. start_epoch' \in Epochs
    BY <1>3, <1>4, PhaseFacts
  <2> QED
    BY <1>2, <2>1 DEF FlipExchange, PhaserTypeOK, writer_vars
<1>9. Spinning = {} /\ Spinning' = {r}
  BY <1>6, <1>7 DEF Spinning
<1>10. Locking'
  BY <1>2, <1>6, <1>7 DEF Locking
<1>11. FlipProgress'
  BY <1>1, <1>2, <1>3, <1>5, <1>6, <1>7 DEF FlipProgress
<1>12. EpochAccounting' /\ NoStragglers'
  <2>1. InsideOf(old) = {} /\ Cardinality(InsideOf(old)) = 0
    BY <1>1, <1>9, InsideOfFinite DEF NoStragglers
  <2>2. InsideOf(old)' = InsideOf(old) /\ InsideOf(cur)' = InsideOf(cur)
    BY <1>2, WritersUntouched
  <2>3. start_epoch' - end_epoch'[old] = Cardinality(InsideOf(old)')
    BY <1>2, <1>3, <1>4, <2>1, <2>2
  <2>4. start_value_at_flip'[r] - end_epoch'[cur] = Cardinality(InsideOf(cur)')
    BY <1>1, <1>2, <1>7, <2>2 DEF EpochAccounting
  <2> QED
    BY <1>1, <1>5, <1>9, <2>3, <2>4 DEF EpochAccounting, NoStragglers
<1> QED
  BY <1>1, <1>3, <1>4, <1>5, <1>8, <1>10, <1>11, <1>12

\* The loop stops only when the closed phase has nobody inside.
LEMMA PollStep ==
    ASSUME IInv, NEW r \in Readers, FlipPoll(r)
    PROVE  IInv' /\ InsideOf(Other(CurrentPhase)) = {}
<1> USE DEF IInv
<1>1. PICK cur \in Phases, old \in Phases :
        cur = CurrentPhase /\ old = Other(cur) /\ old # cur
  BY PhaseFacts DEF CurrentPhase
<1>2. UNCHANGED <<start_epoch, end_epoch, reader_mutex, wpc, wval, writer_vars>>
  BY DEF FlipPoll, epoch_vars, writer_vars
<1>3. CurrentPhase' = cur
  BY <1>1, <1>2 DEF CurrentPhase
<1>4. \A s \in Readers \ {r} : rpc[s] = "idle" /\ rpc'[s] = "idle"
  BY OthersIdle DEF PhaserTypeOK, FlipPoll
<1>5. rpc[r] = "spinning" /\ rpc'[r] = "flipped" /\ end_epoch[old] = start_value_at_flip[r]
  BY <1>1 DEF PhaserTypeOK, FlipPoll, FlipProgress
<1>6. InsideOf(old) = {}
  <2>1. end_epoch[old] \in Int
    BY DEF PhaserTypeOK, Epochs
  <2>2. start_value_at_flip[r] - end_epoch[old] = Cardinality(InsideOf(old))
    BY <1>1, <1>5 DEF EpochAccounting, Spinning
  <2> QED
    BY <1>5, <2>1, <2>2, InsideOfFinite
<1>7. PhaserTypeOK'
  BY <1>2 DEF FlipPoll, PhaserTypeOK, Phases, Epochs
<1>8. Spinning' = {}
  BY <1>4, <1>5 DEF Spinning
<1>9. Locking' /\ FlipProgress'
  BY <1>2, <1>4, <1>5 DEF Locking, FlipProgress
<1>10. EpochAccounting' /\ NoStragglers'
  BY <1>1, <1>2, <1>3, <1>6, <1>8, WritersUntouched DEF EpochAccounting, NoStragglers
<1> QED
  BY <1>1, <1>2, <1>3, <1>6, <1>7, <1>9, <1>10

-----------------------------------------------------------------------------
(***************************************************************************)
(* The invariants.                                                         *)
(***************************************************************************)

\* Every step of the phaser preserves the inductive invariant.
LEMMA NextIInv == IInv /\ [PhaserNext]_phaser_vars => IInv'
<1> SUFFICES ASSUME IInv, [PhaserNext]_phaser_vars PROVE IInv'
  OBVIOUS
<1>1. CASE \E w \in Writers : WriterEnter(w) \/ WriterExit(w)
  BY <1>1, EnterStep, ExitStep
<1>2. CASE \E r \in Readers : ReaderLock(r) \/ ReaderUnlock(r) \/ FlipStep(r)
  BY <1>2, QuietReaderStep, ClearStep, ExchangeStep, PollStep DEF FlipStep
<1>3. CASE UNCHANGED phaser_vars
  <2>1. UNCHANGED <<start_epoch, end_epoch, reader_mutex, wpc, wval, rpc,
                    next_phase, start_value_at_flip>>
    BY <1>3 DEF phaser_vars, epoch_vars, writer_vars, reader_vars, flip_vars
  <2> QED
    BY <2>1 DEF IInv, PhaserTypeOK, Locking, FlipProgress, EpochAccounting, NoStragglers,
                CurrentPhase, InsideOf, Inside, Spinning
<1> QED
  BY <1>1, <1>2, <1>3 DEF PhaserNext

\* The inductive invariant holds in every reachable state.
THEOREM PhaserInvariant == PhaserSpec => []IInv
<1> QED
  BY InitIInv, NextIInv, PTL DEF PhaserSpec

\* Every variable of the phaser keeps its type, and each end epoch its half of
\* the range, as long as no phase sees more than MaxEnters enters.
THEOREM TypeCorrect == PhaserSpec => []PhaserTypeOK
<1>1. IInv => PhaserTypeOK
  BY DEF IInv
<1> QED
  BY <1>1, PhaserInvariant, PTL

\* A completed flip leaves no writer of an earlier phase inside.
THEOREM NoStragglersCorrect == PhaserSpec => []NoStragglers
<1>1. IInv => NoStragglers
  BY DEF IInv
<1> QED
  BY <1>1, PhaserInvariant, PTL

\* The differences of the epochs are the numbers of writers inside.
THEOREM AccountingCorrect == PhaserSpec => []EpochAccounting
<1>1. IInv => EpochAccounting
  BY DEF IInv
<1> QED
  BY <1>1, PhaserInvariant, PTL

-----------------------------------------------------------------------------
(***************************************************************************)
(* The contract.                                                           *)
(***************************************************************************)

\* Outside a flip every writer inside is of the current phase.
LEMMA InsideSplit ==
    ASSUME PhaserTypeOK
    PROVE  Inside = InsideOf(CurrentPhase) \union InsideOf(Other(CurrentPhase))
BY PhaseFacts DEF Inside, InsideOf, Phases, PhaserTypeOK, CurrentPhase, Other

\* A step that changes no writer, no mutex and nobody's spinning is invisible.
LEMMA Invisible ==
    ASSUME UNCHANGED <<start_epoch, reader_mutex, writer_vars>>, Spinning' = Spinning
    PROVE  UNCHANGED Contract!vars
<1>1. CurrentPhase' = CurrentPhase
  BY DEF CurrentPhase
<1>2. Inside' = Inside /\ InsideOf(Other(CurrentPhase))' = InsideOf(Other(CurrentPhase))
  BY <1>1, WritersUntouched
<1> QED
  BY <1>2 DEF Contract!vars

\* A writer step is the same step of the contract.
LEMMA WriterRefines ==
    ASSUME IInv, IInv', NEW w \in Writers, WriterEnter(w) \/ WriterExit(w)
    PROVE  Contract!Enter(w) \/ Contract!Exit(w)
<1> USE DEF IInv
<1>1. PICK cur \in Phases, old \in Phases :
        cur = CurrentPhase /\ old = Other(cur) /\ old # cur
  BY PhaseFacts DEF CurrentPhase
<1>2. reader_mutex' = reader_mutex /\ Spinning' = Spinning
  BY DEF WriterEnter, WriterExit, reader_vars, Spinning
<1>3. CASE WriterEnter(w)
  <2>1. w \notin Inside /\ Inside' = Inside \union {w}
    BY <1>3 DEF WriterEnter, PhaserTypeOK, Inside
  <2>2. /\ start_epoch' = AddFetch(start_epoch)
        /\ wval' = [wval EXCEPT ![w] = start_epoch'] /\ wpc' = [wpc EXCEPT ![w] = "inside"]
        /\ wpc[w] = "outside"
    BY <1>3 DEF WriterEnter
  <2>3. CurrentPhase' = cur
    BY <1>1, <1>3, EnterStep
  <2>4. InsideOf(old)' = InsideOf(old)
    BY <1>1, <2>2, <2>3 DEF InsideOf, Inside, PhaserTypeOK, CurrentPhase
  <2> QED
    BY <1>1, <1>2, <2>1, <2>3, <2>4 DEF Contract!Enter
<1>4. CASE WriterExit(w)
  <2>1. w \in Inside /\ Inside' = Inside \ {w}
    BY <1>4 DEF WriterExit, PhaserTypeOK, Inside
  <2>2. CurrentPhase' = cur
    BY <1>1, <1>4 DEF WriterExit, CurrentPhase
  <2>3. InsideOf(old)' = InsideOf(old) \ {w}
    BY <1>4 DEF WriterExit, PhaserTypeOK, InsideOf, Inside
  <2> QED
    BY <1>1, <1>2, <2>1, <2>2, <2>3 DEF Contract!Exit
<1> QED
  BY <1>3, <1>4

\* Taking and giving back the mutex are the contract's.
LEMMA MutexRefines ==
    ASSUME IInv, NEW r \in Readers, ReaderLock(r) \/ ReaderUnlock(r)
    PROVE  Contract!Acquire(r) \/ Contract!Release(r)
<1> USE DEF IInv
<1>1. /\ UNCHANGED <<start_epoch, writer_vars>>
      /\ Spinning' = Spinning
  BY DEF ReaderLock, ReaderUnlock, epoch_vars, Spinning, PhaserTypeOK
<1>2. CurrentPhase' = CurrentPhase
  BY <1>1 DEF CurrentPhase
<1>3. Inside' = Inside /\ InsideOf(Other(CurrentPhase))' = InsideOf(Other(CurrentPhase))
  BY <1>1, <1>2, WritersUntouched
<1>4. CASE ReaderLock(r)
  BY <1>1, <1>3, <1>4 DEF ReaderLock, Contract!Acquire
<1>5. CASE ReaderUnlock(r)
  <2>1. Spinning = {}
    BY <1>5, OthersIdle DEF ReaderUnlock, Spinning
  <2>2. reader_mutex = r
    BY <1>5 DEF ReaderUnlock, Locking
  <2> QED
    BY <1>1, <1>3, <1>5, <2>1, <2>2 DEF ReaderUnlock, Contract!Release
<1> QED
  BY <1>4, <1>5

\* The exchange begins the flip; it waits for everyone inside.
LEMMA ExchangeRefines ==
    ASSUME IInv, NEW r \in Readers, FlipExchange(r)
    PROVE  Contract!BeginFlip
<1> USE DEF IInv
<1>1. PICK cur \in Phases, old \in Phases :
        cur = CurrentPhase /\ old = Other(cur) /\ cur = Other(old)
  BY PhaseFacts DEF CurrentPhase
<1>2. CurrentPhase' = old
  BY <1>1, ExchangeStep
<1>3. reader_mutex = r /\ reader_mutex' = r /\ r # NoReader
  BY DEF FlipExchange, Locking
<1>4. Spinning = {} /\ Spinning' # {}
  BY OthersIdle DEF FlipExchange, Spinning, PhaserTypeOK
<1>5. Inside' = Inside /\ InsideOf(cur)' = InsideOf(cur)
  BY WritersUntouched DEF FlipExchange
<1>6. Inside = InsideOf(cur)
  BY <1>1, <1>4, InsideSplit DEF NoStragglers
<1> QED
  BY <1>1, <1>2, <1>3, <1>4, <1>5, <1>6 DEF Contract!BeginFlip

\* The poll that finds the phase caught up ends the flip.
LEMMA PollRefines ==
    ASSUME IInv, NEW r \in Readers, FlipPoll(r)
    PROVE  Contract!EndFlip
<1> USE DEF IInv
<1>1. InsideOf(Other(CurrentPhase)) = {}
  BY PollStep
<1>2. Spinning # {} /\ Spinning' = {}
  BY OthersIdle DEF FlipPoll, Spinning, PhaserTypeOK
<1>3. Inside' = Inside /\ reader_mutex' = reader_mutex
  BY WritersUntouched DEF FlipPoll
<1> QED
  BY <1>1, <1>2, <1>3 DEF Contract!EndFlip

\* The phaser implements its contract: a flip returns only when every writer
\* that was inside when it began has left, for any number of threads.
THEOREM PhaserRefinesContract == PhaserSpec => ImplementsContract
<1>1. PhaserInit => Contract!Init
  BY DEF PhaserInit, Contract!Init, Inside, Spinning
<1>2. IInv /\ IInv' /\ [PhaserNext]_phaser_vars => [Contract!Next]_(Contract!vars)
  <2> SUFFICES ASSUME IInv, IInv', [PhaserNext]_phaser_vars
               PROVE  Contract!Next \/ UNCHANGED Contract!vars
    OBVIOUS
  <2>1. CASE \E w \in Writers : WriterEnter(w) \/ WriterExit(w)
    BY <2>1, WriterRefines DEF Contract!Next
  <2>2. ASSUME NEW r \in Readers, ReaderLock(r) \/ ReaderUnlock(r)
        PROVE  Contract!Next
    BY <2>2, MutexRefines DEF Contract!Next
  <2>3. ASSUME NEW r \in Readers, FlipReadStart(r) \/ FlipClearEnd(r)
        PROVE  UNCHANGED Contract!vars
    <3>1. UNCHANGED <<start_epoch, reader_mutex, writer_vars>>
      BY <2>3 DEF FlipReadStart, FlipClearEnd, epoch_vars
    <3>2. Spinning' = Spinning
      BY <2>3 DEF FlipReadStart, FlipClearEnd, Spinning, IInv, PhaserTypeOK
    <3> QED
      BY <3>1, <3>2, Invisible
  <2>4. ASSUME NEW r \in Readers, FlipExchange(r) \/ FlipPoll(r)
        PROVE  Contract!Next
    BY <2>4, ExchangeRefines, PollRefines DEF Contract!Next
  <2>5. CASE UNCHANGED phaser_vars
    BY <2>5, Invisible DEF phaser_vars, epoch_vars, reader_vars, Spinning
  <2> QED
    BY <2>1, <2>2, <2>3, <2>4, <2>5 DEF PhaserNext, FlipStep
<1> QED
  BY <1>1, <1>2, PhaserInvariant, PTL DEF PhaserSpec, ImplementsContract, Contract!Spec
=============================================================================
