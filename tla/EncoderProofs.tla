--------------------------- MODULE EncoderProofs ----------------------------
(***************************************************************************)
(* What encoder_th accepts is true, for every reload value, threshold and  *)
(* number of pulses that leaves a gap between them (EncoderAssumption).    *)
(***************************************************************************)
EXTENDS Encoder, TLAPS

(* What CNT is after a displacement m, and what a right count of it is.    *)
CntOf(m) == IF m < 0 THEN m + Reload + 1 ELSE m
CountOf(m) == m + IF m < 0 THEN 1 ELSE 0

(* The pulses bound the displacement, and CNT is the displacement.         *)
Tracks == /\ -moves <= moved /\ moved <= moves
          /\ tim.cnt = CntOf(moved)

(* What is loaded, then counted, belongs to the displacement it is         *)
(* compared with, up to some number of wraps.                              *)
Counts == /\ loaded.cnt \subseteq {CntOf(truth.moved)}
          /\ pc \in {"clear", "zero", "judge"} =>
               \E f \in Int : count = CntOf(truth.moved) + f * Reload

IInv == TypeOK /\ Tracks /\ Counts /\ AcceptedIsTrue

Moves == -MaxMoves..MaxMoves

(* The displacement of a type-correct state is a value of the counter.     *)
LEMMA CntOfType ==
  ASSUME NEW m \in Moves
  PROVE  CntOf(m) \in 0..Reload
<1>1. Reload \in Nat /\ MaxMoves \in Nat /\ MaxMoves < Reload
  BY EncoderAssumption
<1>2. m \in Int /\ -MaxMoves <= m /\ m <= MaxMoves
  BY <1>1 DEF Moves
<1>3. CASE m < 0
  BY <1>1, <1>2, <1>3 DEF CntOf
<1>4. CASE m >= 0
  BY <1>1, <1>2, <1>4 DEF CntOf
<1>5. QED
  BY <1>2, <1>3, <1>4

(* A multiple of Reload is 0 or at least Reload away from it.              *)
LEMMA Multiple ==
  ASSUME NEW f \in Int
  PROVE  /\ f * Reload \in Int
         /\ f >= 1 => f * Reload >= Reload
         /\ f = -1 => f * Reload = -Reload
         /\ f <= -2 => f * Reload <= -Reload - Reload
         /\ f = 0 => f * Reload = 0
<1>1. Reload \in Nat
  BY EncoderAssumption
<1>2. f * Reload \in Int
  BY <1>1
<1>3. f >= 1 => f * Reload >= Reload
  BY <1>1
<1>4. f <= -2 => f * Reload <= -Reload - Reload
  BY <1>1
<1>5. QED
  BY <1>1, <1>2, <1>3, <1>4

(* The gap: a count within the threshold has the right number of wraps.    *)
LEMMA Gap ==
  ASSUME NEW m \in Moves, NEW f \in Int,
         ~(CntOf(m) + f * Reload <= -Threshold \/ CntOf(m) + f * Reload >= Threshold)
  PROVE  CntOf(m) + f * Reload = CountOf(m)
<1> DEFINE fr == f * Reload
<1>1. /\ Reload \in Nat /\ Threshold \in Nat \ {0} /\ MaxMoves \in Nat
      /\ MaxMoves + Threshold < Reload
  BY EncoderAssumption
<1>2. /\ fr \in Int
      /\ f >= 1 => fr >= Reload
      /\ f = -1 => fr = -Reload
      /\ f <= -2 => fr <= -Reload - Reload
      /\ f = 0 => fr = 0
  BY Multiple
<1>3. m \in Int /\ -MaxMoves <= m /\ m <= MaxMoves
  BY <1>1 DEF Moves
<1> HIDE DEF fr
<1>4. CntOf(m) + fr > -Threshold /\ CntOf(m) + fr < Threshold
  BY <1>1, <1>2, <1>3 DEF fr, CntOf
<1>5. CASE m < 0
  <2>1. CntOf(m) = m + Reload + 1 /\ CountOf(m) = m + 1
    BY <1>3, <1>5 DEF CntOf, CountOf
  <2>2. f = -1
    BY <1>1, <1>2, <1>3, <1>4, <2>1
  <2>3. QED
    BY <1>1, <1>2, <1>3, <2>1, <2>2 DEF fr
<1>6. CASE m >= 0
  <2>1. CntOf(m) = m /\ CountOf(m) = m
    BY <1>3, <1>6 DEF CntOf, CountOf
  <2>2. f = 0
    BY <1>1, <1>2, <1>3, <1>4, <1>6, <2>1
  <2>3. QED
    BY <1>1, <1>2, <1>3, <2>1, <2>2 DEF fr
<1>7. QED
  BY <1>3, <1>5, <1>6

(* A pulse moves CNT as it moves the wheel.                                *)
LEMMA CountedIsNext ==
  ASSUME NEW m \in Moves, NEW d \in {1, -1}, m + d \in Moves
  PROVE  Counted(CntOf(m), d) = CntOf(m + d)
<1>1. /\ Reload \in Nat /\ MaxMoves \in Nat /\ MaxMoves < Reload
  BY EncoderAssumption
<1>2. m \in Int /\ -MaxMoves <= m /\ m <= MaxMoves
  BY <1>1 DEF Moves
<1>3. CASE d = 1
  BY <1>1, <1>2, <1>3 DEF Counted, Wraps, CntOf
<1>4. CASE d = -1
  BY <1>1, <1>2, <1>4 DEF Counted, Wraps, CntOf
<1>5. QED
  BY <1>3, <1>4

(* The invariant holds when encoder_th starts.                              *)
LEMMA InitIInv == Init => IInv
<1> SUFFICES ASSUME Init PROVE IInv
  OBVIOUS
<1>1. Reload \in Nat /\ Threshold \in Nat \ {0} /\ MaxMoves \in Nat
  BY EncoderAssumption
<1>2. TypeOK
  <2>1. tim \in [cnt : 0..Reload, up : BOOLEAN, uif : BOOLEAN, cc : BOOLEAN]
    BY <1>1 DEF Init
  <2>2. loaded \in [cnt : SUBSET (0..Reload), flow : SUBSET Int]
    BY DEF Init, Empty
  <2>3. truth \in [moved : -MaxMoves..MaxMoves, crossed : BOOLEAN, other : BOOLEAN]
    BY <1>1 DEF Init
  <2>4. moved \in -MaxMoves..MaxMoves /\ moves \in 0..MaxMoves
    BY <1>1 DEF Init
  <2>5. discarded \in BOOLEAN /\ crossed \in BOOLEAN
    BY Zenon DEF Init
  <2>6. phase \in 0..3 /\ flow \in Int /\ count \in Int
    BY DEF Init
  <2>7. isr \in {"off", "update", "captures"} /\ pc = "delay"
    BY DEF Init
  <2>8. QED
    BY <2>1, <2>2, <2>3, <2>4, <2>5, <2>6, <2>7 DEF TypeOK
<1>3. Tracks /\ Counts
  BY <1>1 DEF Init, Tracks, Counts, CntOf, Empty
<1>4. AcceptedIsTrue
  BY DEF Init, AcceptedIsTrue
<1>5. QED
  BY <1>2, <1>3, <1>4 DEF IInv

(* Every pulse, handler step and thread step keeps it.                     *)
LEMMA StepIInv == IInv /\ [Next]_vars => IInv'
<1> SUFFICES ASSUME IInv, [Next]_vars PROVE IInv'
  OBVIOUS
<1>0. /\ Reload \in Nat /\ Threshold \in Nat \ {0} /\ MaxMoves \in Nat
      /\ TypeOK /\ Tracks /\ Counts /\ AcceptedIsTrue
  BY EncoderAssumption DEF IInv
<1>1. ASSUME NEW d \in {1, -1}, Pulse(d)
      PROVE  IInv'
  <2>1. /\ moved \in Moves /\ moves \in 0..MaxMoves
        /\ -moves <= moved /\ moved <= moves /\ tim.cnt = CntOf(moved)
    BY <1>0 DEF TypeOK, Tracks, Moves
  <2>2. moved' = moved + d /\ moves' = moves + 1 /\ moves < MaxMoves
    BY <1>1 DEF Pulse
  <2>3. /\ moves' \in 0..MaxMoves /\ moved' \in Moves
        /\ -moves' <= moved' /\ moved' <= moves'
    BY <1>0, <2>1, <2>2 DEF Moves
  <2>4. tim'.cnt = CntOf(moved')
    BY <1>1, <2>1, <2>2, <2>3, CountedIsNext DEF Pulse
  <2>5. tim'.cnt \in 0..Reload
    BY <1>0, <2>3, <2>4, CntOfType
  <2>6. TypeOK'
    <3>1. tim' \in [cnt : 0..Reload, up : BOOLEAN, uif : BOOLEAN, cc : BOOLEAN]
      <4>1. tim' = [cnt |-> tim'.cnt, up |-> tim'.up, uif |-> tim'.uif, cc |-> tim'.cc]
        BY <1>1 DEF Pulse
      <4>2. tim'.up \in BOOLEAN /\ tim'.uif \in BOOLEAN /\ tim'.cc \in BOOLEAN
        BY <1>1 DEF Pulse
      <4>3. QED
        BY <2>5, <4>1, <4>2
    <3>2. phase' \in 0..3
      BY <1>0, <1>1 DEF TypeOK, Pulse
    <3>3. crossed' \in BOOLEAN
      BY <1>1 DEF Pulse
    <3>4. QED
      BY <1>0, <1>1, <2>3, <3>1, <3>2, <3>3 DEF TypeOK, Pulse, thread, Moves
  <2>7. Tracks' /\ Counts' /\ AcceptedIsTrue'
    BY <1>0, <1>1, <2>3, <2>4 DEF Tracks, Counts, AcceptedIsTrue, Pulse, thread
  <2>8. QED
    BY <2>6, <2>7 DEF IInv
<1>2. CASE Isr
  <2>1. /\ tim'.cnt = tim.cnt
        /\ tim' \in [cnt : 0..Reload, up : BOOLEAN, uif : BOOLEAN, cc : BOOLEAN]
    BY <1>0, <1>2 DEF Isr, IsrEnter, IsrUpdate, IsrCaptures, TypeOK
  <2>2. flow' \in Int /\ isr' \in {"off", "update", "captures"}
    BY <1>0, <1>2 DEF Isr, IsrEnter, IsrUpdate, IsrCaptures, TypeOK
  <2>3. UNCHANGED <<phase, thread, history>>
    BY <1>2 DEF Isr, IsrEnter, IsrUpdate, IsrCaptures
  <2>4. TypeOK'
    BY <1>0, <2>1, <2>2, <2>3 DEF TypeOK, thread, history
  <2>5. Tracks' /\ Counts' /\ AcceptedIsTrue'
    BY <1>0, <2>1, <2>3 DEF Tracks, Counts, AcceptedIsTrue, thread, history
  <2>6. QED
    BY <2>4, <2>5 DEF IInv
<1>3. CASE Wake
  BY <1>0, <1>3 DEF IInv, Wake, From, TypeOK, Tracks, Counts, AcceptedIsTrue, history
<1>4. CASE LoadCounter
  <2>1. loaded' \in [cnt : SUBSET (0..Reload), flow : SUBSET Int]
    BY <1>0, <1>4 DEF LoadCounter, TypeOK
  <2>2. /\ truth'.moved = moved /\ loaded'.cnt = {tim.cnt}
        /\ truth' \in [moved : -MaxMoves..MaxMoves, crossed : BOOLEAN, other : BOOLEAN]
    BY <1>0, <1>4 DEF LoadCounter, TypeOK
  <2>3. TypeOK' /\ Tracks'
    BY <1>0, <1>4, <2>1, <2>2 DEF LoadCounter, From, TypeOK, Tracks
  <2>4. Counts' /\ AcceptedIsTrue'
    BY <1>0, <1>4, <2>2 DEF LoadCounter, From, Counts, Tracks, AcceptedIsTrue
  <2>5. QED
    BY <2>3, <2>4 DEF IInv
<1>5. CASE LoadFlow
  <2>1. /\ loaded' \in [cnt : SUBSET (0..Reload), flow : SUBSET Int]
        /\ loaded'.cnt = loaded.cnt
    BY <1>0, <1>5 DEF LoadFlow, TypeOK
  <2>2. QED
    BY <1>0, <1>5, <2>1
    DEF IInv, LoadFlow, From, TypeOK, Tracks, Counts, AcceptedIsTrue, history
<1>6. CASE Read
  <2>1. PICK c \in loaded.cnt, f \in loaded.flow : count' = c + f * Reload
    BY <1>6 DEF Read
  <2>2. /\ c = CntOf(truth.moved) /\ c \in Int /\ f \in Int
    BY <1>0, <2>1 DEF Counts, TypeOK
  <2>3. /\ truth'.moved = truth.moved
        /\ truth' \in [moved : -MaxMoves..MaxMoves, crossed : BOOLEAN, other : BOOLEAN]
    BY <1>0, <1>6 DEF Read, TypeOK
  <2>4. loaded'.cnt = {} /\ loaded' \in [cnt : SUBSET (0..Reload), flow : SUBSET Int]
    BY <1>6 DEF Read, Empty
  <2>5. count' \in Int
    BY <1>0, <2>1, <2>2, Multiple
  <2>6. pc' = "clear" /\ UNCHANGED <<tim, phase, flow, isr, discarded, moved, moves, crossed>>
    BY <1>6 DEF Read, From
  <2>7. TypeOK' /\ Tracks' /\ AcceptedIsTrue'
    BY <1>0, <2>3, <2>4, <2>5, <2>6 DEF TypeOK, Tracks, AcceptedIsTrue
  <2>8. Counts'
    BY <2>1, <2>2, <2>3, <2>4 DEF Counts
  <2>9. QED
    BY <2>7, <2>8 DEF IInv
<1>7. CASE ClearFlow
  <2>1. tim.uif \in BOOLEAN
    BY <1>0 DEF TypeOK
  <2>2. QED
    BY <1>0, <1>7, <2>1 DEF IInv, ClearFlow, From, TypeOK, Tracks, Counts, AcceptedIsTrue
<1>8. CASE ClearCounter
  <2>1. /\ tim'.cnt = 0
        /\ tim' \in [cnt : 0..Reload, up : BOOLEAN, uif : BOOLEAN, cc : BOOLEAN]
    BY <1>0, <1>8 DEF ClearCounter, TypeOK
  <2>2. TypeOK' /\ Counts' /\ AcceptedIsTrue'
    BY <1>0, <1>8, <2>1 DEF ClearCounter, From, TypeOK, Counts, AcceptedIsTrue
  <2>3. Tracks'
    BY <1>8, <2>1 DEF ClearCounter, Tracks, CntOf
  <2>4. QED
    BY <2>2, <2>3 DEF IInv
<1>9. CASE Judge
  <2>1. pc = "judge" /\ pc' = "delay" /\ discarded' = (Abnormal \/ ~truth.other)
    BY <1>9 DEF Judge, From
  <2>2. PICK f \in Int : count = CntOf(truth.moved) + f * Reload
    BY <1>0, <2>1 DEF Counts
  <2>3. truth.moved \in Moves
    BY <1>0 DEF TypeOK, Moves
  <2>4. ~Abnormal => count = CountOf(truth.moved)
    BY <2>2, <2>3, Gap DEF Abnormal
  <2>5. UNCHANGED <<tim, phase, flow, isr, loaded, count, history>>
    BY <1>9 DEF Judge
  <2>6. AcceptedIsTrue'
    BY <2>1, <2>4, <2>5 DEF AcceptedIsTrue, CountOf, history
  <2>7. discarded' \in BOOLEAN
    BY <2>1
  <2>8. TypeOK' /\ Tracks' /\ Counts'
    BY <1>0, <2>1, <2>5, <2>7 DEF TypeOK, Tracks, Counts, history
  <2>9. QED
    BY <2>6, <2>8 DEF IInv
<1>10. CASE UNCHANGED vars
  BY <1>0, <1>10 DEF vars, thread, history, IInv, TypeOK, Tracks, Counts, AcceptedIsTrue
<1>11. QED
  BY <1>1, <1>2, <1>3, <1>4, <1>5, <1>6, <1>7, <1>8, <1>9, <1>10 DEF Next, EncoderTh

(* The invariant of the wheel, the handler and encoder_th.                 *)
THEOREM Invariant == Spec => []IInv
  BY InitIInv, StepIInv, PTL DEF Spec

(* What encoder_th prints is where the wheel went, whatever the handler    *)
(* made of the wraps and whenever it came.                                 *)
THEOREM CountsAreTrue == Spec => []AcceptedIsTrue
  BY Invariant, PTL DEF IInv
-----------------------------------------------------------------------------
(* While CNT has not wrapped since over_under_flowcount was cleared, there *)
(* is nothing for the handler to count, and the wheel has not gone below   *)
(* the zero it was cleared at.                                             *)
Uncrossed ==
  ~crossed => /\ flow = 0 /\ ~tim.uif /\ isr # "update"
              /\ pc # "zero" => moved >= 0

(* What encoder_th holds of a wheel that has not wrapped.                  *)
ReadUncrossed ==
  /\ pc # "read" => loaded = Empty
  /\ ~crossed => /\ loaded.flow \subseteq {0}
                 /\ loaded.cnt # {} => truth.moved >= 0
  /\ pc \in {"clear", "zero", "judge"} /\ ~truth.crossed =>
       truth.moved >= 0 /\ count = truth.moved

CInv == Uncrossed /\ ReadUncrossed /\ DiscardsHaveCause

(* A fresh counter has not wrapped.                                        *)
LEMMA InitCInv == Init => CInv
  BY DEF Init, CInv, Uncrossed, ReadUncrossed, DiscardsHaveCause, Empty

(* Every step keeps the cause of a discarded round.                        *)
LEMMA StepCInv == IInv /\ CInv /\ [Next]_vars => CInv'
<1> SUFFICES ASSUME IInv, CInv, [Next]_vars PROVE CInv'
  OBVIOUS
<1> USE DEF Uncrossed, ReadUncrossed, DiscardsHaveCause
<1>0. TypeOK /\ Tracks /\ Counts /\ Uncrossed /\ ReadUncrossed /\ DiscardsHaveCause
  BY DEF IInv, CInv
<1>1. ASSUME NEW d \in {1, -1}, Pulse(d) PROVE CInv'
  <2>1. /\ crossed' = (crossed \/ Wraps(tim.cnt, d))
        /\ moved' = moved + d /\ tim'.uif = (tim.uif \/ Wraps(tim.cnt, d))
        /\ UNCHANGED <<flow, isr, thread, truth>>
    BY <1>1 DEF Pulse
  <2>2. moved >= 0 /\ moved + d < 0 => Wraps(tim.cnt, d)
    <3>1. Reload \in Nat /\ MaxMoves \in Nat /\ moved \in -MaxMoves..MaxMoves
      BY <1>0, EncoderAssumption DEF TypeOK
    <3>2. QED
      BY <1>0, <3>1 DEF Tracks, CntOf, Wraps
  <2>3. moved \in Int /\ moved' \in Int
    BY <1>0, <2>1, EncoderAssumption DEF TypeOK
  <2>4. Uncrossed'
    <3>1. CASE ~Wraps(tim.cnt, d)
      <4>1. /\ crossed' = crossed /\ tim'.uif = tim.uif
            /\ UNCHANGED <<flow, isr, pc>>
        BY Zenon, <1>0, <2>1, <3>1 DEF TypeOK, thread
      <4>2. ~crossed /\ pc # "zero" => moved' >= 0
        BY <1>0, <2>1, <2>2, <2>3, <3>1
      <4>3. QED
        BY <1>0, <4>1, <4>2
    <3>2. CASE Wraps(tim.cnt, d)
      BY <2>1, <3>2
    <3>3. QED
      BY <3>1, <3>2
  <2>5. (ReadUncrossed /\ DiscardsHaveCause)'
    BY <1>0, <2>1 DEF thread
  <2>6. QED
    BY <2>4, <2>5 DEF CInv
<1>2. CASE Isr
  <2>1. CASE IsrEnter
    BY <1>0, <2>1 DEF IsrEnter, CInv, thread, history
  <2>2. CASE IsrUpdate
    BY <1>0, <2>2 DEF IsrUpdate, CInv, thread, history
  <2>3. CASE IsrCaptures
    BY <1>0, <2>3 DEF IsrCaptures, CInv, thread, history
  <2>4. QED
    BY <1>2, <2>1, <2>2, <2>3 DEF Isr
<1>3. CASE Wake
  BY <1>0, <1>3 DEF Wake, From, CInv, history
<1>4. CASE LoadCounter
  <2>1. /\ loaded'.flow = loaded.flow /\ truth'.moved = moved
        /\ truth'.crossed = truth.crossed /\ truth'.other = truth.other
        /\ pc = "read" /\ pc' = "read"
        /\ UNCHANGED <<tim, phase, flow, isr, count, discarded, moved, moves, crossed>>
    BY <1>0, <1>4 DEF LoadCounter, From, TypeOK
  <2>2. QED
    BY <1>0, <2>1 DEF CInv
<1>5. CASE LoadFlow
  <2>1. /\ loaded'.flow = {flow} /\ loaded'.cnt = loaded.cnt
        /\ pc = "read" /\ pc' = "read"
        /\ UNCHANGED <<tim, phase, flow, isr, count, discarded, history>>
    BY <1>0, <1>5 DEF LoadFlow, From, TypeOK
  <2>2. QED
    BY <1>0, <2>1 DEF CInv, history
<1>6. CASE Read
  <2>1. PICK c \in loaded.cnt, f \in loaded.flow : count' = c + f * Reload
    BY <1>6 DEF Read
  <2>2. /\ c = CntOf(truth.moved) /\ f \in Int /\ truth.moved \in Int
    BY <1>0, <2>1, EncoderAssumption DEF Counts, TypeOK
  <2>3. /\ truth'.moved = truth.moved /\ truth'.crossed = crossed
        /\ loaded' = Empty /\ pc' = "clear"
        /\ UNCHANGED <<tim, phase, flow, isr, discarded, moved, moves, crossed>>
        /\ pc = "read"
    BY <1>0, <1>6 DEF Read, From, TypeOK
  <2>4. ~crossed => truth.moved >= 0 /\ count' = truth.moved
    BY <1>0, <2>1, <2>2, Multiple DEF CntOf
  <2>5. QED
    BY <1>0, <2>3, <2>4 DEF CInv, Empty
<1>7. CASE ClearFlow
  BY <1>0, <1>7 DEF ClearFlow, From, CInv, Empty
<1>8. CASE ClearCounter
  <2>1. tim'.uif = tim.uif /\ moved' = 0
    BY <1>0, <1>8 DEF ClearCounter, TypeOK
  <2>2. QED
    BY <1>0, <1>8, <2>1 DEF ClearCounter, From, CInv
<1>9. CASE Judge
  <2>1. pc = "judge" /\ pc' = "delay" /\ discarded' = (Abnormal \/ ~truth.other)
    BY <1>9 DEF Judge, From
  <2>2. UNCHANGED <<tim, phase, flow, isr, loaded, count, history>>
    BY <1>9 DEF Judge
  <2>3. Threshold \in Nat \ {0} /\ truth.moved \in Int
    BY <1>0, EncoderAssumption DEF TypeOK
  <2>4. ~truth.crossed /\ Abnormal => truth.moved >= Threshold
    BY <1>0, <2>1, <2>3 DEF Abnormal
  <2>5. DiscardsHaveCause'
    BY <2>1, <2>2, <2>4 DEF history
  <2>6. QED
    BY <1>0, <2>1, <2>2, <2>5 DEF CInv, history
<1>10. CASE UNCHANGED vars
  BY <1>0, <1>10 DEF vars, thread, history, CInv
<1>11. QED
  BY <1>1, <1>2, <1>3, <1>4, <1>5, <1>6, <1>7, <1>8, <1>9, <1>10 DEF Next, EncoderTh

(* A round is discarded for a reason: a wheel was too fast, has gone       *)
(* through zero, or the other wheel has.                                   *)
THEOREM DiscardsCaused == Spec => []DiscardsHaveCause
<1>1. Spec => []CInv
  BY InitCInv, Invariant, StepCInv, PTL DEF Spec
<1>2. QED
  BY <1>1, PTL DEF CInv
=============================================================================
