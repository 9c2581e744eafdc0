----------------------- MODULE AtomicHistogram_proofs -----------------------
(***************************************************************************)
(* Proofs about AtomicHistogram, for any set of threads, any range of      *)
(* values and any calls.                                                   *)
(***************************************************************************)
EXTENDS AtomicHistogram, SumLemmas

\* What a thread knows at each point of its call.
InCall ==
    \A t \in Threads :
        /\ pc[t] # "out" => call[t].count > 0
        /\ pc[t] \in BeforeMax => counts[call[t].value] > 0
        /\ pc[t] = "cas_min" => call[t].value # 0 /\ call[t].value < seen[t]
        /\ pc[t] = "cas_max" => seen[t] < call[t].value

\* The inductive invariant.
IInv ==
    /\ AtomicTypeOK
    /\ InCall
    /\ ExtremesCover
    /\ ExtremesRecorded

USE AtomicAssumption

\* Nothing is counted at first.
LEMMA InitIInv == AtomicInit => IInv
<1> SUFFICES ASSUME AtomicInit PROVE IInv
  OBVIOUS
<1>1. AtomicTypeOK
  BY DEF AtomicInit, AtomicTypeOK, Trackable, NoCall
<1>2. InCall /\ ExtremesCover /\ ExtremesRecorded
  BY DEF AtomicInit, InCall, ExtremesCover, ExtremesRecorded, BeforeMax, BeforeMin
<1> QED
  BY <1>1, <1>2 DEF IInv

\* The beginning of a call touches nothing shared.
LEMMA BeginStep ==
    ASSUME IInv, NEW t \in Threads, NEW in \in Inputs, Begin(t, in)
    PROVE  IInv'
<1> USE DEF IInv
<1>1. in \in [value : Trackable, count : Nat \ {0}, interval : Int]
  OBVIOUS
<1>2. UNCHANGED <<counts, total_count, min_value, max_value, seen>>
  BY DEF Begin, shared_vars
<1>3. /\ pc[t] = "out" /\ pc' = [pc EXCEPT ![t] = "count"]
      /\ call' = [call EXCEPT ![t] = in]
  BY DEF Begin
<1>4. AtomicTypeOK'
  <2>1. issued' \in [Trackable -> Nat]
    BY <1>1 DEF Begin, AtomicTypeOK
  <2>2. calls' \in 0 .. MaxCalls
    BY DEF Begin, AtomicTypeOK
  <2> QED
    BY <1>1, <1>2, <1>3, <2>1, <2>2 DEF AtomicTypeOK
<1>5. InCall'
  BY <1>1, <1>2, <1>3 DEF InCall, AtomicTypeOK, BeforeMax, BeforeMin
<1>6. \A s \in Threads \ {t} : pc'[s] = pc[s] /\ call'[s] = call[s]
  BY <1>3 DEF AtomicTypeOK
<1>7. ExtremesCover'
  <2>1. \A v \in Trackable :
          /\ CountedBy(v, BeforeMax) \subseteq CountedBy(v, BeforeMax)'
          /\ CountedBy(v, BeforeMin) \subseteq CountedBy(v, BeforeMin)'
    BY <1>3, <1>6 DEF CountedBy, BeforeMax, BeforeMin
  <2> QED
    BY <1>2, <2>1 DEF ExtremesCover
<1>8. ExtremesRecorded'
  BY <1>2 DEF ExtremesRecorded
<1> QED
  BY <1>4, <1>5, <1>7, <1>8

\* A thread that counts its value is on its way to both extremes.
LEMMA AddCountStep ==
    ASSUME IInv, NEW t \in Threads, AddCount(t)
    PROVE  IInv'
<1> USE DEF IInv
<1>1. UNCHANGED <<total_count, min_value, max_value, call, seen, issued, calls>>
  BY DEF AddCount, history_vars
<1>2. pc[t] = "count" /\ pc' = [pc EXCEPT ![t] = "total"]
  BY DEF AddCount
<1>3. PICK x \in Trackable, n \in Nat : call[t].value = x /\ call[t].count = n /\ n > 0
  BY <1>2 DEF AtomicTypeOK, InCall
<1>4. counts' = [counts EXCEPT ![x] = counts[x] + n]
  BY <1>3 DEF AddCount
<1>5. /\ \A v \in Trackable : counts'[v] \in Nat /\ (counts[v] > 0 => counts'[v] > 0)
      /\ counts'[x] > 0
      /\ \A v \in Trackable \ {x} : counts'[v] = counts[v]
  BY <1>3, <1>4 DEF AtomicTypeOK
<1>6. AtomicTypeOK'
  BY <1>1, <1>2, <1>4, <1>5 DEF AtomicTypeOK
<1>7. \A s \in Threads \ {t} : pc'[s] = pc[s]
  BY <1>2 DEF AtomicTypeOK
<1>8. pc'[t] = "total"
  BY <1>2 DEF AtomicTypeOK
<1>9. InCall'
  <2>1. \A s \in Threads : call[s].value \in Trackable
    BY DEF AtomicTypeOK
  <2> QED
    BY <1>1, <1>3, <1>5, <1>7, <1>8, <2>1 DEF InCall, BeforeMax, BeforeMin
<1>10. ExtremesCover'
  <2>1. SUFFICES ASSUME NEW v \in Trackable, counts'[v] > 0
                 PROVE  /\ v <= max_value \/ CountedBy(v, BeforeMax)' # {}
                        /\ v = 0 \/ min_value <= v \/ CountedBy(v, BeforeMin)' # {}
    BY <1>1, <2>1 DEF ExtremesCover
  <2>2. CASE v = x
    <3>1. t \in CountedBy(v, BeforeMax)' /\ t \in CountedBy(v, BeforeMin)'
      BY <1>1, <1>3, <1>8, <2>2 DEF CountedBy, BeforeMax, BeforeMin
    <3> QED
      BY <3>1
  <2>3. CASE v # x
    <3>1. counts[v] > 0
      BY <1>5, <2>1, <2>3
    <3>2. /\ CountedBy(v, BeforeMax) \subseteq CountedBy(v, BeforeMax)'
          /\ CountedBy(v, BeforeMin) \subseteq CountedBy(v, BeforeMin)'
      BY <1>1, <1>2, <1>7 DEF CountedBy, BeforeMax, BeforeMin
    <3> QED
      BY <3>1, <3>2 DEF ExtremesCover
  <2> QED
    BY <2>2, <2>3
<1>11. ExtremesRecorded'
  BY <1>1, <1>5 DEF ExtremesRecorded, AtomicTypeOK
<1> QED
  BY <1>6, <1>9, <1>10, <1>11

\* The total is not looked at by the extremes.
LEMMA AddTotalStep ==
    ASSUME IInv, NEW t \in Threads, AddTotal(t)
    PROVE  IInv'
<1> USE DEF IInv
<1>1. UNCHANGED <<counts, min_value, max_value, call, seen, issued, calls>>
  BY DEF AddTotal, history_vars
<1>2. pc[t] = "total" /\ pc' = [pc EXCEPT ![t] = "load_min"]
  BY DEF AddTotal
<1>3. AtomicTypeOK'
  <2>1. total_count' \in Nat
    BY DEF AddTotal, AtomicTypeOK
  <2> QED
    BY <1>1, <1>2, <2>1 DEF AtomicTypeOK
<1>4. InCall'
  BY <1>1, <1>2 DEF InCall, BeforeMax, BeforeMin, AtomicTypeOK
<1>5. \A v : /\ CountedBy(v, BeforeMax)' = CountedBy(v, BeforeMax)
            /\ CountedBy(v, BeforeMin)' = CountedBy(v, BeforeMin)
  BY <1>1, <1>2 DEF CountedBy, BeforeMax, BeforeMin, AtomicTypeOK
<1>6. ExtremesCover' /\ ExtremesRecorded'
  BY <1>1, <1>5 DEF ExtremesCover, ExtremesRecorded
<1> QED
  BY <1>3, <1>4, <1>6

\* The minimum is left alone only by a value that it covers.
LEMMA LoadMinStep ==
    ASSUME IInv, NEW t \in Threads, LoadMin(t)
    PROVE  IInv'
<1> USE DEF IInv
<1>1. UNCHANGED <<counts, total_count, min_value, max_value, call, issued, calls>>
  BY DEF LoadMin, shared_vars, history_vars
<1>2. /\ pc[t] = "load_min" /\ seen' = [seen EXCEPT ![t] = min_value]
      /\ pc' = [pc EXCEPT ![t] = IF call[t].value = 0 \/ min_value <= call[t].value
                                 THEN "load_max" ELSE "cas_min"]
  BY DEF LoadMin
<1>3. call[t].value \in Int /\ min_value \in Int
  BY DEF AtomicTypeOK, Trackable
<1>4. AtomicTypeOK'
  BY <1>1, <1>2 DEF AtomicTypeOK
<1>5. \A s \in Threads \ {t} : pc'[s] = pc[s] /\ seen'[s] = seen[s]
  BY <1>2 DEF AtomicTypeOK
<1>6. \/ pc'[t] = "load_max" /\ (call[t].value = 0 \/ min_value <= call[t].value)
      \/ pc'[t] = "cas_min" /\ call[t].value # 0 /\ call[t].value < seen'[t]
  BY <1>2, <1>3 DEF AtomicTypeOK
<1>7. InCall'
  BY <1>1, <1>2, <1>5, <1>6 DEF InCall, BeforeMax, BeforeMin
<1>8. ASSUME NEW v \in Trackable
      PROVE  /\ CountedBy(v, BeforeMax) \subseteq CountedBy(v, BeforeMax)'
             /\ \/ CountedBy(v, BeforeMin) \subseteq CountedBy(v, BeforeMin)'
                \/ v = 0 \/ min_value <= v
  BY <1>1, <1>2, <1>5, <1>6 DEF CountedBy, BeforeMax, BeforeMin
<1>9. ExtremesCover'
  <2>1. SUFFICES ASSUME NEW v \in Trackable, counts[v] > 0
                 PROVE  /\ v <= max_value \/ CountedBy(v, BeforeMax)' # {}
                        /\ v = 0 \/ min_value <= v \/ CountedBy(v, BeforeMin)' # {}
    BY <1>1, <2>1 DEF ExtremesCover
  <2>2. /\ v <= max_value \/ CountedBy(v, BeforeMax) # {}
        /\ v = 0 \/ min_value <= v \/ CountedBy(v, BeforeMin) # {}
    BY <2>1 DEF ExtremesCover
  <2>3. CountedBy(v, BeforeMax) # {} => CountedBy(v, BeforeMax)' # {}
    BY <1>8
  <2> QED
    BY <1>8, <2>2, <2>3
<1>10. ExtremesRecorded'
  BY <1>1 DEF ExtremesRecorded
<1> QED
  BY <1>4, <1>7, <1>9, <1>10

\* An exchange of the minimum lowers it; a failed one is tried again.
LEMMA CasMinStep ==
    ASSUME IInv, NEW t \in Threads, CasMin(t)
    PROVE  IInv' /\ min_value' <= min_value
<1> USE DEF IInv
<1>1. UNCHANGED <<counts, total_count, max_value, call, seen, issued, calls>>
  BY DEF CasMin, history_vars
<1>2. PICK x \in Trackable : call[t].value = x /\ x # 0 /\ x < seen[t] /\ counts[x] > 0
  BY DEF CasMin, AtomicTypeOK, InCall, BeforeMax, BeforeMin
<1>3. \/ min_value' = x /\ x < min_value /\ pc' = [pc EXCEPT ![t] = "load_max"]
      \/ min_value' = min_value /\ pc' = [pc EXCEPT ![t] = "load_min"]
  BY <1>2 DEF CasMin
<1>4. x \in Int /\ min_value \in Int
  BY DEF AtomicTypeOK, Trackable
<1>5. min_value' <= min_value /\ min_value' \in Int
  BY <1>3, <1>4
<1>6. AtomicTypeOK'
  BY <1>1, <1>2, <1>3 DEF AtomicTypeOK
<1>7. pc[t] = "cas_min" /\ \A s \in Threads \ {t} : pc'[s] = pc[s]
  BY DEF CasMin, AtomicTypeOK
<1>8. \/ pc'[t] = "load_max" /\ min_value' = x
      \/ pc'[t] = "load_min"
  BY <1>3 DEF AtomicTypeOK
<1>9. InCall'
  BY <1>1, <1>7, <1>8 DEF InCall, BeforeMax, BeforeMin
<1>10. ASSUME NEW v \in Trackable
       PROVE  /\ CountedBy(v, BeforeMax) \subseteq CountedBy(v, BeforeMax)'
              /\ \/ CountedBy(v, BeforeMin) \subseteq CountedBy(v, BeforeMin)'
                 \/ v = x /\ min_value' = x
  <2>1. CountedBy(v, BeforeMax) \subseteq CountedBy(v, BeforeMax)'
    BY <1>1, <1>7, <1>8 DEF CountedBy, BeforeMax, BeforeMin
  <2>2. CASE v # x \/ pc'[t] = "load_min"
    BY <1>1, <1>2, <1>7, <2>1, <2>2 DEF CountedBy, BeforeMin
  <2> QED
    BY <1>8, <2>1, <2>2
<1>11. ExtremesCover'
  <2>1. SUFFICES ASSUME NEW v \in Trackable, counts[v] > 0
                 PROVE  /\ v <= max_value \/ CountedBy(v, BeforeMax)' # {}
                        /\ v = 0 \/ min_value' <= v \/ CountedBy(v, BeforeMin)' # {}
    BY <1>1, <2>1 DEF ExtremesCover
  <2>2. /\ v <= max_value \/ CountedBy(v, BeforeMax) # {}
        /\ v = 0 \/ min_value <= v \/ CountedBy(v, BeforeMin) # {}
    BY <2>1 DEF ExtremesCover
  <2>3. v \in Int /\ (min_value <= v => min_value' <= v)
    BY <1>4, <1>5 DEF Trackable
  <2>4. CountedBy(v, BeforeMax) # {} => CountedBy(v, BeforeMax)' # {}
    BY <1>10
  <2>5. CountedBy(v, BeforeMin) # {} => CountedBy(v, BeforeMin)' # {} \/ min_value' <= v
    BY <1>4, <1>10
  <2> QED
    BY <2>2, <2>3, <2>4, <2>5
<1>12. ExtremesRecorded'
  BY <1>1, <1>2, <1>3 DEF ExtremesRecorded
<1> QED
  BY <1>5, <1>6, <1>9, <1>11, <1>12

\* Between two values of a call the thread forgets the one it has recorded.
LEMMA NextValueStep ==
    ASSUME IInv, NEW t \in Threads, pc[t] # "out", NextValue(t)
    PROVE  /\ pc' \in [Threads -> {"out", "count", "total", "load_min", "cas_min",
                                    "load_max", "cas_max"}]
           /\ call' \in [Threads -> [value : Trackable, count : Nat, interval : Int]]
           /\ seen' \in [Threads -> Trackable \union {NoMin}]
           /\ pc'[t] \in {"out", "count"}
           /\ pc'[t] # "out" => call'[t].count > 0
           /\ \A s \in Threads \ {t} :
                 pc'[s] = pc[s] /\ call'[s] = call[s] /\ seen'[s] = seen[s]
<1> USE DEF IInv
<1> DEFINE missing == call[t].value - call[t].interval
           more == call[t].interval > 0 /\ missing >= call[t].interval
<1>1. PICK x \in Trackable, n \in Nat, i \in Int :
        call[t] = [value |-> x, count |-> n, interval |-> i] /\ n > 0
  BY DEF AtomicTypeOK, InCall
<1>2. NoCall \in [value : Trackable, count : Nat, interval : Int]
  BY DEF NoCall, Trackable
<1>3. 0 \in Trackable
  BY DEF Trackable
<1>4. CASE more
  <2>1. missing \in Trackable
    BY <1>1, <1>4 DEF Trackable
  <2>2. /\ call' = [call EXCEPT ![t] = [value |-> missing, count |-> n, interval |-> i]]
        /\ pc' = [pc EXCEPT ![t] = "count"]
        /\ seen' = [seen EXCEPT ![t] = 0]
    <3>1. [call[t] EXCEPT !.value = missing]
            = [value |-> missing, count |-> n, interval |-> i]
      BY <1>1
    <3> QED
      BY <1>4, <3>1 DEF NextValue
  <2> QED
    BY <1>1, <1>3, <2>1, <2>2 DEF AtomicTypeOK
<1>5. CASE ~more
  <2>1. /\ call' = [call EXCEPT ![t] = NoCall]
        /\ pc' = [pc EXCEPT ![t] = "out"]
        /\ seen' = [seen EXCEPT ![t] = 0]
    BY <1>5 DEF NextValue
  <2> QED
    BY <1>2, <1>3, <2>1 DEF AtomicTypeOK
<1> QED
  BY <1>4, <1>5

\* The maximum is left alone only by a value that it covers.
LEMMA LoadMaxStep ==
    ASSUME IInv, NEW t \in Threads, LoadMax(t)
    PROVE  IInv'
<1> USE DEF IInv
<1>1. UNCHANGED <<counts, total_count, min_value, max_value, issued, calls>>
  BY DEF LoadMax, shared_vars, history_vars
<1>2. pc[t] = "load_max"
  BY DEF LoadMax
<1>3. call[t].value \in Int /\ max_value \in Int
  BY DEF AtomicTypeOK, Trackable
<1>4. CASE call[t].value <= max_value
  <2>1. NextValue(t)
    BY <1>4 DEF LoadMax
  <2>2. AtomicTypeOK'
    BY <1>1, <1>2, <2>1, NextValueStep DEF AtomicTypeOK
  <2>3. /\ pc'[t] \in {"out", "count"}
        /\ pc'[t] # "out" => call'[t].count > 0
        /\ \A s \in Threads \ {t} :
              pc'[s] = pc[s] /\ call'[s] = call[s] /\ seen'[s] = seen[s]
    BY <1>2, <2>1, NextValueStep
  <2>4. InCall'
    BY <1>1, <2>3 DEF InCall, BeforeMax, BeforeMin
  <2>5. ASSUME NEW v \in Trackable
        PROVE  /\ CountedBy(v, BeforeMin) \subseteq CountedBy(v, BeforeMin)'
               /\ CountedBy(v, BeforeMax) \subseteq CountedBy(v, BeforeMax)' \/ v <= max_value
    <3>1. CountedBy(v, BeforeMin) \subseteq CountedBy(v, BeforeMin)'
      BY <1>2, <2>3 DEF CountedBy, BeforeMin
    <3>2. CASE v # call[t].value
      BY <2>3, <3>1, <3>2 DEF CountedBy
    <3> QED
      BY <1>4, <3>1, <3>2
  <2>6. ExtremesCover'
    <3>1. SUFFICES ASSUME NEW v \in Trackable, counts[v] > 0
                   PROVE  /\ v <= max_value \/ CountedBy(v, BeforeMax)' # {}
                          /\ v = 0 \/ min_value <= v \/ CountedBy(v, BeforeMin)' # {}
      BY <1>1, <3>1 DEF ExtremesCover
    <3>2. /\ v <= max_value \/ CountedBy(v, BeforeMax) # {}
          /\ v = 0 \/ min_value <= v \/ CountedBy(v, BeforeMin) # {}
      BY <3>1 DEF ExtremesCover
    <3>3. CountedBy(v, BeforeMin) # {} => CountedBy(v, BeforeMin)' # {}
      BY <2>5
    <3>4. CountedBy(v, BeforeMax) # {} => CountedBy(v, BeforeMax)' # {} \/ v <= max_value
      BY <2>5
    <3> QED
      BY <3>2, <3>3, <3>4
  <2> QED
    BY <1>1, <2>2, <2>4, <2>6 DEF ExtremesRecorded
<1>5. CASE ~(call[t].value <= max_value)
  <2>1. /\ seen' = [seen EXCEPT ![t] = max_value]
        /\ pc' = [pc EXCEPT ![t] = "cas_max"]
        /\ call' = call
    BY <1>5 DEF LoadMax
  <2>2. AtomicTypeOK'
    BY <1>1, <2>1 DEF AtomicTypeOK
  <2>3. max_value < call[t].value
    BY <1>3, <1>5
  <2>4. InCall'
    BY <1>1, <1>2, <2>1, <2>3 DEF InCall, BeforeMax, BeforeMin, AtomicTypeOK
  <2>5. \A v : /\ CountedBy(v, BeforeMax)' = CountedBy(v, BeforeMax)
              /\ CountedBy(v, BeforeMin)' = CountedBy(v, BeforeMin)
    BY <1>2, <2>1 DEF CountedBy, BeforeMax, BeforeMin, AtomicTypeOK
  <2> QED
    BY <1>1, <2>2, <2>4, <2>5 DEF ExtremesCover, ExtremesRecorded
<1> QED
  BY <1>4, <1>5

\* An exchange of the maximum raises it; a failed one is tried again.
LEMMA CasMaxStep ==
    ASSUME IInv, NEW t \in Threads, CasMax(t)
    PROVE  IInv' /\ max_value' >= max_value
<1> USE DEF IInv
<1>1. UNCHANGED <<counts, total_count, min_value, issued, calls>>
  BY DEF CasMax, history_vars
<1>2. pc[t] = "cas_max"
  BY DEF CasMax
<1>3. PICK x \in Trackable : call[t].value = x /\ seen[t] < x /\ counts[x] > 0
  BY <1>2 DEF AtomicTypeOK, InCall, BeforeMax, BeforeMin
<1>4. x \in Int /\ max_value \in Int
  BY DEF AtomicTypeOK, Trackable
<1>5. CASE max_value = seen[t]
  <2>1. NextValue(t) /\ max_value' = x /\ max_value' >= max_value
    BY <1>3, <1>4, <1>5 DEF CasMax
  <2>2. AtomicTypeOK'
    BY <1>1, <1>2, <2>1, NextValueStep DEF AtomicTypeOK
  <2>3. /\ pc'[t] \in {"out", "count"}
        /\ pc'[t] # "out" => call'[t].count > 0
        /\ \A s \in Threads \ {t} :
              pc'[s] = pc[s] /\ call'[s] = call[s] /\ seen'[s] = seen[s]
    BY <1>2, <2>1, NextValueStep
  <2>4. InCall'
    BY <1>1, <2>3 DEF InCall, BeforeMax, BeforeMin
  <2>5. ASSUME NEW v \in Trackable
        PROVE  /\ CountedBy(v, BeforeMin) \subseteq CountedBy(v, BeforeMin)'
               /\ CountedBy(v, BeforeMax) \subseteq CountedBy(v, BeforeMax)' \/ v = x
    <3>1. CountedBy(v, BeforeMin) \subseteq CountedBy(v, BeforeMin)'
      BY <1>2, <2>3 DEF CountedBy, BeforeMin
    <3>2. CASE v # x
      BY <1>3, <2>3, <3>1, <3>2 DEF CountedBy
    <3> QED
      BY <3>1, <3>2
  <2>6. ExtremesCover'
    <3>1. SUFFICES ASSUME NEW v \in Trackable, counts[v] > 0
                   PROVE  /\ v <= x \/ CountedBy(v, BeforeMax)' # {}
                          /\ v = 0 \/ min_value <= v \/ CountedBy(v, BeforeMin)' # {}
      BY <1>1, <2>1, <3>1 DEF ExtremesCover
    <3>2. /\ v <= max_value \/ CountedBy(v, BeforeMax) # {}
          /\ v = 0 \/ min_value <= v \/ CountedBy(v, BeforeMin) # {}
      BY <3>1 DEF ExtremesCover
    <3>3. CountedBy(v, BeforeMin) # {} => CountedBy(v, BeforeMin)' # {}
      BY <2>5
    <3>4. CountedBy(v, BeforeMax) # {} => CountedBy(v, BeforeMax)' # {} \/ v <= x
      BY <1>4, <2>5
    <3>5. v <= max_value => v <= x
      BY <1>4, <2>1 DEF Trackable
    <3> QED
      BY <3>2, <3>3, <3>4, <3>5
  <2>7. ExtremesRecorded'
    BY <1>1, <1>3, <2>1 DEF ExtremesRecorded
  <2> QED
    BY <2>1, <2>2, <2>4, <2>6, <2>7
<1>6. CASE max_value # seen[t]
  <2>1. pc' = [pc EXCEPT ![t] = "load_max"] /\ UNCHANGED <<max_value, call, seen>>
    BY <1>6 DEF CasMax
  <2>2. AtomicTypeOK'
    BY <1>1, <2>1 DEF AtomicTypeOK
  <2>3. InCall'
    BY <1>1, <1>2, <2>1 DEF InCall, BeforeMax, BeforeMin, AtomicTypeOK
  <2>4. \A v : /\ CountedBy(v, BeforeMax)' = CountedBy(v, BeforeMax)
              /\ CountedBy(v, BeforeMin)' = CountedBy(v, BeforeMin)
    BY <1>2, <2>1 DEF CountedBy, BeforeMax, BeforeMin, AtomicTypeOK
  <2> QED
    BY <1>1, <1>4, <2>1, <2>2, <2>3, <2>4 DEF ExtremesCover, ExtremesRecorded
<1> QED
  BY <1>5, <1>6

-----------------------------------------------------------------------------
\* Every step preserves the inductive invariant.
LEMMA NextIInv == IInv /\ [AtomicNext]_atomic_vars => IInv'
<1> SUFFICES ASSUME IInv, [AtomicNext]_atomic_vars PROVE IInv'
  OBVIOUS
<1>1. ASSUME NEW t \in Threads, NEW in \in Inputs, Begin(t, in) PROVE IInv'
  BY <1>1, BeginStep
<1>2. ASSUME NEW t \in Threads, RecordStep(t) PROVE IInv'
  BY <1>2, AddCountStep, AddTotalStep, LoadMinStep, CasMinStep, LoadMaxStep, CasMaxStep
     DEF RecordStep
<1>3. CASE UNCHANGED atomic_vars
  BY <1>3 DEF atomic_vars, shared_vars, thread_vars, history_vars, IInv, AtomicTypeOK,
              InCall, ExtremesCover, ExtremesRecorded, CountedBy
<1> QED
  BY <1>1, <1>2, <1>3 DEF AtomicNext

\* The inductive invariant holds in every reachable state.
THEOREM AtomicInvariant == AtomicSpec => []IInv
<1> QED
  BY InitIInv, NextIInv, PTL DEF AtomicSpec

\* Every variable keeps its type: above all, zero never becomes the minimum.
THEOREM AtomicTypeCorrect == AtomicSpec => []AtomicTypeOK
<1>1. IInv => AtomicTypeOK
  BY DEF IInv
<1> QED
  BY <1>1, AtomicInvariant, PTL

\* No update of an extreme is lost, and each extreme was counted.
THEOREM ExtremesCorrect == AtomicSpec => [](ExtremesCover /\ ExtremesRecorded)
<1>1. IInv => ExtremesCover /\ ExtremesRecorded
  BY DEF IInv
<1> QED
  BY <1>1, AtomicInvariant, PTL

\* When no call is under way, min_value and max_value are exact, however many
\* threads recorded at the same time.
THEOREM QuietExtremesCorrect == AtomicSpec => []QuietExtremes
<1>1. IInv => QuietExtremes
  BY DEF IInv, QuietExtremes, Quiet, ExtremesCover, CountedBy, BeforeMax, BeforeMin
<1> QED
  BY <1>1, AtomicInvariant, PTL

\* The extremes only widen.
THEOREM ExtremesWidenCorrect == AtomicSpec => ExtremesWiden
<1>1. IInv /\ [AtomicNext]_atomic_vars => min_value' <= min_value /\ max_value' >= max_value
  <2> SUFFICES ASSUME IInv, [AtomicNext]_atomic_vars
               PROVE  min_value' <= min_value /\ max_value' >= max_value
    OBVIOUS
  <2>1. min_value \in Int /\ max_value \in Int
    BY DEF IInv, AtomicTypeOK, Trackable
  <2>2. ASSUME NEW t \in Threads, CasMin(t)
        PROVE  min_value' <= min_value /\ max_value' >= max_value
    <3>1. min_value' <= min_value
      BY <2>2, CasMinStep
    <3>2. max_value' = max_value
      BY <2>2 DEF CasMin
    <3> QED
      BY <2>1, <3>1, <3>2
  <2>3. ASSUME NEW t \in Threads, CasMax(t)
        PROVE  min_value' <= min_value /\ max_value' >= max_value
    <3>1. max_value' >= max_value
      BY <2>3, CasMaxStep
    <3>2. min_value' = min_value
      BY <2>3 DEF CasMax
    <3> QED
      BY <2>1, <3>1, <3>2
  <2>4. CASE UNCHANGED <<min_value, max_value>>
    BY <2>1, <2>4
  <2>5. ASSUME NEW t \in Threads,
               AddCount(t) \/ AddTotal(t) \/ LoadMin(t) \/ LoadMax(t)
                 \/ \E in \in Inputs : Begin(t, in)
        PROVE  min_value' <= min_value /\ max_value' >= max_value
    <3>1. UNCHANGED <<min_value, max_value>>
      BY <2>5 DEF Begin, AddCount, AddTotal, LoadMin, LoadMax, shared_vars
    <3> QED
      BY <2>4, <3>1
  <2>6. CASE UNCHANGED atomic_vars
    BY <2>4, <2>6 DEF shared_vars, atomic_vars
  <2> QED
    BY <2>2, <2>3, <2>4, <2>5, <2>6 DEF AtomicNext, RecordStep
<1> QED
  BY <1>1, AtomicInvariant, PTL DEF AtomicSpec, ExtremesWiden

-----------------------------------------------------------------------------
(***************************************************************************)
(* The counts.                                                             *)
(***************************************************************************)

\* The values of its call that a thread has still to count.
Unrecorded(t) ==
    IF pc[t] = "out" THEN {}
    ELSE IF pc[t] = "count" THEN Recorded(call[t])
    ELSE Recorded(call[t]) \ {call[t].value}

\* What each thread has still to add to the count of v, and to total_count.
Owed(v) == [t \in Threads |-> IF v \in Unrecorded(t) THEN call[t].count ELSE 0]
Owing == {t \in Threads : pc[t] = "total"}
Shares == [t \in Threads |-> call[t].count]

\* The counts fall short of what the calls are for by what threads owe them.
Debts ==
    \A v \in Trackable : issued[v] = counts[v] + SumFunctionOnSet(Owed(v), Threads)

\* total_count falls short of the sum of the counts in the same way.
TotalLags ==
    total_count + SumFunctionOnSet(Shares, Owing) = SumFunctionOnSet(counts, Trackable)

\* Division with a remainder, for any divisor.
LEMMA Remainder ==
    ASSUME NEW d \in Nat \ {0}, NEW x \in Int
    PROVE  \E q \in Int : x = d * q + (x % d) /\ 0 <= x % d /\ x % d < d /\ x % d \in Int
<1>1. /\ x = d * (x \div d) + (x % d)
      /\ 0 <= x % d /\ x % d < d /\ x \div d \in Int /\ x % d \in Int
  BY Z3
<1> DEFINE q == x \div d
           r == x % d
<1>2. q \in Int /\ x = d * q + r /\ 0 <= r /\ r < d /\ r \in Int
  BY <1>1
<1> HIDE DEF q, r
<1>3. \E p \in Int : x = d * p + r /\ 0 <= r /\ r < d /\ r \in Int
  BY <1>2
<1> QED
  BY <1>3 DEF r

\* Remainders repeat, and are what is left below the divisor.
LEMMA RemainderFacts ==
    ASSUME NEW d \in Nat \ {0}, NEW x \in Int
    PROVE  /\ (x - d) % d = x % d
           /\ 0 <= x /\ x < d => x % d = x
<1>1. ASSUME NEW q \in Int, NEW r \in Int, 0 <= r, r < d PROVE (d * q + r) % d = r
  BY <1>1, Z3
<1> DEFINE r == x % d
<1>2. PICK q \in Int : x = d * q + r /\ 0 <= r /\ r < d /\ r \in Int
  BY Remainder
<1>3. (x - d) % d = x % d
  <2> HIDE DEF r
  <2>1. q - 1 \in Int /\ x - d = d * (q - 1) + r
    BY <1>2
  <2>2. (x - d) % d = r
    BY <1>1, <1>2, <2>1
  <2> QED
    BY <2>2 DEF r
<1>4. 0 <= x /\ x < d => x % d = x
  BY Z3
<1> QED
  BY <1>3, <1>4

\* What is missing below a value is the next missing value and what is missing
\* below that one, if there is one.
LEMMA MissingValues ==
    ASSUME NEW in \in [value : Trackable, count : Nat, interval : Int],
           NEW missing, missing = in.value - in.interval
    PROVE  /\ in.value \in Recorded(in)
           /\ in.interval > 0 /\ missing >= in.interval =>
                 /\ missing \in Trackable
                 /\ Recorded([in EXCEPT !.value = missing]) = Recorded(in) \ {in.value}
           /\ ~(in.interval > 0 /\ missing >= in.interval) => Recorded(in) \ {in.value} = {}
<1>1. in.value \in 0 .. Highest /\ in.interval \in Int
  BY DEF Trackable
<1> DEFINE Below == {v \in Trackable : /\ in.interval > 0
                                       /\ v >= in.interval /\ v < in.value
                                       /\ (in.value - v) % in.interval = 0}
<1>2. in.value \in Recorded(in) /\ Recorded(in) \ {in.value} = Below
  BY <1>1 DEF Recorded
<1>3. ASSUME NEW v \in Below PROVE v <= missing
  <2>1. in.interval \in Nat \ {0} /\ in.value - v \in Int /\ v \in Int /\ 0 < in.value - v
    BY <1>1 DEF Trackable
  <2>2. ~(in.value - v < in.interval)
    BY <2>1, RemainderFacts
  <2> QED
    BY <1>1, <2>1, <2>2
<1>4. ASSUME in.interval > 0, missing >= in.interval
      PROVE  /\ missing \in Trackable
             /\ Recorded([in EXCEPT !.value = missing]) = Below
  <2>1. in.interval \in Nat \ {0} /\ missing \in Int /\ missing < in.value
    BY <1>1, <1>4
  <2>2. missing \in Trackable
    BY <1>1, <1>4, <2>1 DEF Trackable
  <2>3. ASSUME NEW v \in Trackable PROVE (missing - v) % in.interval = (in.value - v) % in.interval
    <3>1. in.value - v \in Int /\ missing - v = (in.value - v) - in.interval
      BY <1>1 DEF Trackable
    <3> QED
      BY <2>1, <3>1, RemainderFacts
  <2>4. missing \in Below
    <3>1. missing - missing = 0 /\ 0 \in Int /\ 0 < in.interval
      BY <2>1
    <3>2. 0 % in.interval = 0
      BY <2>1, <3>1, RemainderFacts
    <3> QED
      BY <1>4, <2>1, <2>2, <2>3, <3>1, <3>2
  <2>5. Below = {missing} \union {v \in Trackable : /\ v >= in.interval /\ v < missing
                                                    /\ (missing - v) % in.interval = 0}
    <3>1. \A v \in Trackable : v \in Int
      BY DEF Trackable
    <3>2. ASSUME NEW v \in Trackable, v # missing
          PROVE  v \in Below <=> /\ v >= in.interval /\ v < missing
                                /\ (missing - v) % in.interval = 0
      <4>1. v \in Below => v < missing
        BY <1>3, <2>1, <3>1, <3>2
      <4> QED
        BY <1>1, <1>4, <2>1, <2>3, <3>1, <4>1
    <3>3. ~(missing < missing)
      BY <2>1
    <3> QED
      BY <2>2, <2>4, <3>2, <3>3
  <2>6. LET next == [in EXCEPT !.value = missing]
        IN  next.value = missing /\ next.interval = in.interval
    OBVIOUS
  <2> HIDE DEF Below
  <2> QED
    BY <1>4, <2>2, <2>5, <2>6 DEF Recorded
<1>5. ASSUME ~(in.interval > 0 /\ missing >= in.interval) PROVE Below = {}
  <2>1. \A v \in Below : v \in Int /\ v >= in.interval /\ in.interval > 0
    BY DEF Trackable
  <2> QED
    BY <1>1, <1>3, <1>5, <2>1
<1> QED
  BY <1>2, <1>4, <1>5

\* A step of one thread keeps the debts, when it adds to the counts what it owes less,
\* and owes more what it adds to what is issued.
LEMMA DebtStep ==
    ASSUME AtomicTypeOK, AtomicTypeOK', Debts, NEW t \in Threads,
           \A s \in Threads \ {t} : pc'[s] = pc[s] /\ call'[s] = call[s],
           \A v \in Trackable :
              issued'[v] - issued[v] = (counts'[v] - counts[v]) + (Owed(v)'[t] - Owed(v)[t])
    PROVE  Debts'
<1>1. SUFFICES ASSUME NEW v \in Trackable
               PROVE  issued'[v] = counts'[v] + SumFunctionOnSet(Owed(v)', Threads)
  BY DEF Debts
<1> DEFINE f == Owed(v)
           g == Owed(v)'
<1>2. \A s \in Threads : f[s] \in Int /\ g[s] \in Int
  <2>1. \A s \in Threads : call[s].count \in Int /\ call'[s].count \in Int
    BY DEF AtomicTypeOK
  <2> QED
    BY <2>1 DEF Owed
<1>3. \A s \in Threads \ {t} : g[s] = f[s]
  BY DEF Owed, Unrecorded
<1>4. /\ issued[v] \in Int /\ issued'[v] \in Int /\ counts[v] \in Int /\ counts'[v] \in Int
      /\ issued[v] = counts[v] + SumFunctionOnSet(f, Threads)
      /\ issued'[v] - issued[v] = (counts'[v] - counts[v]) + (g[t] - f[t])
  BY DEF AtomicTypeOK, Debts
<1> HIDE DEF f, g
<1>5. SumFunctionOnSet(g, Threads) = SumFunctionOnSet(f, Threads) + g[t] - f[t]
  BY <1>2, <1>3, SumChange
<1>6. SumFunctionOnSet(f, Threads) \in Int
  BY <1>2, SumInt
<1>7. issued'[v] = counts'[v] + SumFunctionOnSet(g, Threads)
  BY <1>2, <1>4, <1>5, <1>6
<1> QED
  BY <1>7 DEF g

\* A step that neither counts nor changes what is owed of total_count.
LEMMA LagStays ==
    ASSUME AtomicTypeOK, TotalLags, UNCHANGED <<counts, total_count>>,
           \A s \in Threads : /\ pc'[s] = "total" <=> pc[s] = "total"
                              /\ pc[s] = "total" => call'[s] = call[s]
    PROVE  TotalLags'
<1>1. Owing' = Owing /\ IsFiniteSet(Owing)
  BY FS_Subset DEF Owing
<1>2. \A s \in Owing : Shares[s] = Shares'[s]
  BY DEF Owing, Shares
<1>3. SumFunctionOnSet(Shares, Owing) = SumFunctionOnSet(Shares', Owing)
  BY <1>1, <1>2, SumSame
<1> QED
  BY <1>1, <1>3 DEF TotalLags

\* The sums of TotalLags are integers.
LEMMA LagFacts ==
    ASSUME AtomicTypeOK
    PROVE  /\ IsFiniteSet(Trackable) /\ \A v \in Trackable : counts[v] \in Int
           /\ SumFunctionOnSet(counts, Trackable) \in Int
           /\ IsFiniteSet(Owing) /\ \A t \in Threads : Shares[t] \in Int
           /\ SumFunctionOnSet(Shares, Owing) \in Int
           /\ total_count \in Int
<1>1. IsFiniteSet(Trackable)
  BY FS_Interval DEF Trackable
<1>2. \A v \in Trackable : counts[v] \in Int
  BY DEF AtomicTypeOK
<1>3. IsFiniteSet(Owing)
  BY FS_Subset DEF Owing
<1>4. \A t \in Threads : Shares[t] \in Int
  BY DEF Shares, AtomicTypeOK
<1>5. SumFunctionOnSet(Shares, Owing) \in Int
  BY <1>3, <1>4, SumInt DEF Owing
<1> QED
  BY <1>1, <1>2, <1>3, <1>4, <1>5, SumInt DEF AtomicTypeOK

\* A call owes what it was issued for.
LEMMA BeginCounts ==
    ASSUME AtomicTypeOK, AtomicTypeOK', Debts, TotalLags, NEW t \in Threads, NEW in \in Inputs,
           Begin(t, in)
    PROVE  Debts' /\ TotalLags'
<1>1. /\ UNCHANGED <<counts, total_count>>
      /\ pc[t] = "out" /\ pc'[t] = "count" /\ call'[t] = in
      /\ \A s \in Threads \ {t} : pc'[s] = pc[s] /\ call'[s] = call[s]
      /\ in.count \in Int
  BY DEF Begin, shared_vars, AtomicTypeOK
<1>2. ASSUME NEW v \in Trackable
      PROVE  issued'[v] - issued[v] = (counts'[v] - counts[v]) + (Owed(v)'[t] - Owed(v)[t])
  <2>1. Owed(v)[t] = 0
    BY <1>1 DEF Owed, Unrecorded
  <2>2. Owed(v)'[t] = IF v \in Recorded(in) THEN in.count ELSE 0
    BY <1>1 DEF Owed, Unrecorded
  <2>3. issued'[v] = issued[v] + IF v \in Recorded(in) THEN in.count ELSE 0
    BY DEF Begin
  <2>4. issued[v] \in Int /\ counts[v] \in Int /\ counts'[v] = counts[v]
    BY <1>1 DEF AtomicTypeOK
  <2> QED
    BY <1>1, <2>1, <2>2, <2>3, <2>4
<1>3. Debts'
  BY <1>1, <1>2, DebtStep
<1>4. TotalLags'
  BY <1>1, LagStays
<1> QED
  BY <1>3, <1>4

\* A count that is added is owed no longer; total_count owes it from now on.
LEMMA AddCountCounts ==
    ASSUME AtomicTypeOK, AtomicTypeOK', Debts, TotalLags, NEW t \in Threads, AddCount(t)
    PROVE  Debts' /\ TotalLags'
<1>1. /\ UNCHANGED <<total_count, call, issued>>
      /\ pc[t] = "count" /\ pc'[t] = "total"
      /\ \A s \in Threads \ {t} : pc'[s] = pc[s]
  BY DEF AddCount, history_vars, AtomicTypeOK
<1>2. PICK u \in Trackable, n \in Nat : u = call[t].value /\ n = call[t].count
  BY DEF AtomicTypeOK
<1>3. /\ counts'[u] = counts[u] + n /\ \A v \in Trackable \ {u} : counts'[v] = counts[v]
      /\ \A v \in Trackable : counts[v] \in Int /\ issued[v] \in Int
  BY <1>2 DEF AddCount, AtomicTypeOK
<1>4. u \in Recorded(call[t])
  BY <1>2 DEF Recorded
<1>5. ASSUME NEW v \in Trackable
      PROVE  issued'[v] - issued[v] = (counts'[v] - counts[v]) + (Owed(v)'[t] - Owed(v)[t])
  <2>1. Owed(v)[t] = IF v \in Recorded(call[t]) THEN n ELSE 0
    BY <1>1, <1>2 DEF Owed, Unrecorded
  <2>2. Owed(v)'[t] = IF v \in Recorded(call[t]) \ {u} THEN n ELSE 0
    BY <1>1, <1>2 DEF Owed, Unrecorded
  <2> QED
    BY <1>1, <1>3, <1>4, <2>1, <2>2
<1>6. Debts'
  BY <1>1, <1>5, DebtStep
<1>7. TotalLags'
  <2>1. SumFunctionOnSet(counts', Trackable) = SumFunctionOnSet(counts, Trackable) + n
    <3>1. counts'[u] \in Int /\ counts'[u] - counts[u] = n
      BY <1>3
    <3>2. SumFunctionOnSet(counts', Trackable)
             = SumFunctionOnSet(counts, Trackable) + counts'[u] - counts[u]
      BY <1>3, <3>1, LagFacts, SumChange
    <3> QED
      BY <1>3, <3>1, <3>2, LagFacts
  <2>2. Owing' = Owing \union {t} /\ t \notin Owing /\ Shares' = Shares /\ Shares[t] = n
    BY <1>1, <1>2 DEF Owing, Shares
  <2>3. SumFunctionOnSet(Shares, Owing \union {t}) = n + SumFunctionOnSet(Shares, Owing)
    <3>1. \A s \in Owing \union {t} : Shares[s] \in Int
      BY LagFacts DEF Owing
    <3> QED
      BY <2>2, <3>1, LagFacts, SumAdd
  <2> QED
    BY <1>1, <2>1, <2>2, <2>3, LagFacts DEF TotalLags
<1> QED
  BY <1>6, <1>7

\* total_count catches up.
LEMMA AddTotalCounts ==
    ASSUME AtomicTypeOK, AtomicTypeOK', Debts, TotalLags, NEW t \in Threads, AddTotal(t)
    PROVE  Debts' /\ TotalLags'
<1>1. /\ UNCHANGED <<counts, call, issued>>
      /\ pc[t] = "total" /\ pc'[t] = "load_min"
      /\ \A s \in Threads \ {t} : pc'[s] = pc[s]
      /\ total_count' = total_count + call[t].count
  BY DEF AddTotal, history_vars, AtomicTypeOK
<1>2. Debts'
  <2>1. \A v \in Trackable : Owed(v)'[t] = Owed(v)[t] /\ Owed(v)[t] \in Int
    BY <1>1 DEF Owed, Unrecorded, AtomicTypeOK
  <2>2. \A v \in Trackable : counts[v] \in Int /\ issued[v] \in Int
    BY DEF AtomicTypeOK
  <2> QED
    BY <1>1, <2>1, <2>2, DebtStep
<1>3. TotalLags'
  <2>1. Owing' = Owing \ {t} /\ t \in Owing /\ Shares' = Shares /\ Shares[t] = call[t].count
    BY <1>1 DEF Owing, Shares
  <2>2. SumFunctionOnSet(Shares, Owing) = Shares[t] + SumFunctionOnSet(Shares, Owing \ {t})
    BY <2>1, LagFacts, SumRemove DEF Owing
  <2>3. SumFunctionOnSet(Shares, Owing \ {t}) \in Int
    <3>1. IsFiniteSet(Owing \ {t}) /\ \A s \in Owing \ {t} : Shares[s] \in Int
      BY LagFacts, FS_Subset DEF Owing
    <3> QED
      BY <3>1, SumInt
  <2> QED
    BY <1>1, <2>1, <2>2, <2>3, LagFacts DEF TotalLags
<1> QED
  BY <1>2, <1>3

\* The loops on the extremes count nothing.  The next value of a call is owed already.
LEMMA ExtremeCounts ==
    ASSUME AtomicTypeOK, AtomicTypeOK', Debts, TotalLags, NEW t \in Threads,
           LoadMin(t) \/ CasMin(t) \/ LoadMax(t) \/ CasMax(t)
    PROVE  Debts' /\ TotalLags'
<1>1. UNCHANGED <<counts, total_count, issued>>
  BY DEF LoadMin, CasMin, LoadMax, CasMax, NextValue, shared_vars, history_vars
<1>2. pc[t] \in {"load_min", "cas_min", "load_max", "cas_max"}
  BY DEF LoadMin, CasMin, LoadMax, CasMax
<1>3. /\ \A s \in Threads \ {t} : pc'[s] = pc[s] /\ call'[s] = call[s]
      /\ \/ NextValue(t)
         \/ pc'[t] \in {"load_min", "cas_min", "load_max", "cas_max"} /\ call'[t] = call[t]
  BY DEF LoadMin, CasMin, LoadMax, CasMax, NextValue, AtomicTypeOK
<1>4. /\ pc'[t] # "total"
      /\ \A v \in Trackable : Owed(v)'[t] = Owed(v)[t]
  <2>1. CASE pc'[t] \in {"load_min", "cas_min", "load_max", "cas_max"} /\ call'[t] = call[t]
    BY <1>2, <2>1 DEF Owed, Unrecorded
  <2>2. CASE NextValue(t)
    <3> DEFINE in == call[t]
               missing == in.value - in.interval
               more == in.interval > 0 /\ missing >= in.interval
    <3>1. in \in [value : Trackable, count : Nat, interval : Int]
      BY DEF AtomicTypeOK
    <3>2. /\ call'[t] = IF more THEN [in EXCEPT !.value = missing] ELSE NoCall
          /\ pc'[t] = IF more THEN "count" ELSE "out"
      BY <2>2 DEF NextValue, AtomicTypeOK
    <3>3. Unrecorded(t) = Recorded(in) \ {in.value}
      BY <1>2 DEF Unrecorded
    <3>4. CASE more
      <4>1. Unrecorded(t)' = Unrecorded(t)
        BY <3>1, <3>2, <3>3, <3>4, MissingValues DEF Unrecorded
      <4>2. call'[t].count = call[t].count
        BY <3>1, <3>2, <3>4
      <4> QED
        BY <3>2, <3>4, <4>1, <4>2 DEF Owed
    <3>5. CASE ~more
      <4>1. Unrecorded(t)' = {} /\ Unrecorded(t) = {}
        BY <3>1, <3>2, <3>3, <3>5, MissingValues DEF Unrecorded
      <4> QED
        BY <3>2, <3>5, <4>1 DEF Owed
    <3> QED
      BY <3>4, <3>5
  <2> QED
    BY <1>3, <2>1, <2>2
<1>5. \A v \in Trackable : Owed(v)[t] \in Int /\ counts[v] \in Int /\ issued[v] \in Int
  BY DEF Owed, AtomicTypeOK
<1>6. Debts'
  BY <1>1, <1>3, <1>4, <1>5, DebtStep
<1>7. TotalLags'
  BY <1>1, <1>2, <1>3, <1>4, LagStays
<1> QED
  BY <1>6, <1>7

\* The counts are right in every reachable state.
THEOREM QuietCountsCorrect == AtomicSpec => []QuietCounts
<1> DEFINE CInv == AtomicTypeOK /\ Debts /\ TotalLags
<1>1. AtomicInit => CInv
  <2> SUFFICES ASSUME AtomicInit PROVE CInv
    OBVIOUS
  <2>1. AtomicTypeOK
    BY InitIInv DEF IInv
  <2>2. Debts
    <3>1. ASSUME NEW v \in Trackable PROVE SumFunctionOnSet(Owed(v), Threads) = 0
      <4>1. \A t \in Threads : Owed(v)[t] = 0
        BY DEF AtomicInit, Owed, Unrecorded
      <4> QED
        BY <4>1, SumZeros
    <3> QED
      BY <3>1 DEF Debts, AtomicInit
  <2>3. TotalLags
    <3>1. Owing = {} /\ \A v \in Trackable : counts[v] = 0
      BY DEF AtomicInit, Owing
    <3>2. SumFunctionOnSet(Shares, Owing) = 0
      BY <3>1, SumEmpty
    <3>3. SumFunctionOnSet(counts, Trackable) = 0
      BY <2>1, <3>1, LagFacts, SumZeros
    <3> QED
      BY <3>2, <3>3 DEF TotalLags, AtomicInit
  <2> QED
    BY <2>1, <2>2, <2>3
<1>2. CInv /\ AtomicTypeOK' /\ [AtomicNext]_atomic_vars => CInv'
  <2> SUFFICES ASSUME CInv, AtomicTypeOK', [AtomicNext]_atomic_vars PROVE Debts' /\ TotalLags'
    OBVIOUS
  <2>1. ASSUME NEW t \in Threads, NEW in \in Inputs, Begin(t, in) PROVE Debts' /\ TotalLags'
    BY <2>1, BeginCounts
  <2>2. ASSUME NEW t \in Threads, RecordStep(t) PROVE Debts' /\ TotalLags'
    BY <2>2, AddCountCounts, AddTotalCounts, ExtremeCounts DEF RecordStep
  <2>3. CASE UNCHANGED atomic_vars
    BY <2>3 DEF atomic_vars, shared_vars, thread_vars, history_vars, Debts, TotalLags, Owed,
                Unrecorded, Owing, Shares
  <2> QED
    BY <2>1, <2>2, <2>3 DEF AtomicNext
<1>3. CInv => QuietCounts
  <2> SUFFICES ASSUME CInv PROVE QuietCounts
    OBVIOUS
  <2>1. ASSUME Quiet PROVE counts = issued
    <3>1. ASSUME NEW v \in Trackable PROVE counts[v] = issued[v]
      <4>1. \A t \in Threads : Owed(v)[t] = 0
        BY <2>1 DEF Quiet, Owed, Unrecorded
      <4>2. SumFunctionOnSet(Owed(v), Threads) = 0
        BY <4>1, SumZeros
      <4> QED
        BY <4>2 DEF Debts, AtomicTypeOK
    <3> QED
      BY <3>1 DEF AtomicTypeOK
  <2> QED
    BY <2>1 DEF QuietCounts, TotalLags, Owing, Shares
<1> HIDE DEF CInv
<1> QED
  BY <1>1, <1>2, <1>3, AtomicTypeCorrect, PTL DEF AtomicSpec
=============================================================================
