-------------------------- MODULE CommuLinkProofs ---------------------------
(***************************************************************************)
(* Proofs about CommuLink for every set of packets, buffer size, semaphore *)
(* limit and number of losses.                                             *)
(***************************************************************************)
EXTENDS CommuLink, SequenceTheorems, TLAPS

(* The pulse width of two bytes is a natural number: the float product     *)
(* falls short by one only when it is not zero.                            *)
LEMMA PulseNat ==
  ASSUME NEW w \in Byte, NEW h \in Byte
  PROVE  PulseNs(w, h) \in Nat
<1> DEFINE v == 100*w + h
<1>1. v \in Nat
  BY DEF Byte
<1>2. FallsShort(v) => v > 0
  BY DEF FallsShort
<1> HIDE DEF v
<1>3. (IF FallsShort(v) THEN 100*v - 1 ELSE 100*v) \in Nat
  BY <1>1, <1>2
<1> QED
  BY <1>3 DEF PulseNs, v

(* No speed is no pulse.                                                   *)
LEMMA PulseZero == PulseNs(0, 0) = 0
<1>1. ~FallsShort(100*0 + 0)
  BY DEF FallsShort
<1> QED
  BY <1>1 DEF PulseNs

(* Products of naturals are naturals.                                      *)
LEMMA NatProduct ==
  ASSUME NEW x \in Nat, NEW y \in Nat
  PROVE  x * y \in Nat
OBVIOUS

(* The timer arithmetic stays within the integers.                         *)
LEMMA TicksNat ==
  /\ Prescale \in Nat \ {0}
  /\ PeriodTicks \in Nat \ {0}
<1>0. PeriodNs \in Nat /\ TimClockMHz \in Nat
  BY CodecAssumption
<1>1. PeriodNs * TimClockMHz \in Nat
  BY <1>0, NatProduct
<1> DEFINE base == (PeriodNs * TimClockMHz) \div 1000
<1>2. base \in Nat
  BY <1>1, SMT
<1>3. Prescale = base \div MAX_PERIOD + 1
  BY DEF Prescale
<1>4. MAX_PERIOD \in Nat \ {0} /\ MIN_PERIOD \in Nat \ {0}
  BY SMT DEF MAX_PERIOD, MIN_PERIOD
<1>5. PeriodTicks = IF base \div Prescale < MIN_PERIOD THEN MIN_PERIOD
                                                      ELSE base \div Prescale
  BY DEF PeriodTicks
<1> HIDE DEF base
<1>6. base \div MAX_PERIOD \in Nat
  BY <1>2, <1>4, SMT
<1>7. Prescale \in Nat \ {0}
  BY <1>3, <1>6, SMT
<1>8. base \div Prescale \in Nat
  BY <1>2, <1>7, SMT
<1>9. PeriodTicks \in Nat \ {0}
  BY <1>4, <1>5, <1>8, SMT
<1> QED
  BY <1>7, <1>9

(* The compare register holds a natural number.                            *)
LEMMA CompareInt ==
  ASSUME NEW ns \in Nat
  PROVE  Compare(ns) \in Nat
<1>0. TimClockMHz \in Nat
  BY CodecAssumption
<1>1. ns * TimClockMHz \in Nat
  BY <1>0, NatProduct
<1> DEFINE scaled == (ns * TimClockMHz) \div Prescale
<1>2. scaled \in Nat
  BY <1>1, TicksNat, SMT
<1> HIDE DEF scaled
<1>3. scaled \div 1000 \in Nat
  BY <1>2, SMT
<1>4. MIN_PULSE \in Nat \ {0}
  BY SMT DEF MIN_PULSE
<1>5. PulseTicks(ns) \in Nat \ {0}
  BY <1>3, <1>4, TicksNat, SMT DEF PulseTicks, scaled
<1> QED
  BY <1>5, SMT DEF Compare

(* The camera sends bytes.                                                 *)
LEMMA FrameBytes ==
  /\ \A c \in Cmds : SpeedFrame(c) \in Seq(Byte)
  /\ GateFrame \in Seq(Byte)
<1>1. ASSUME NEW c \in Cmds
      PROVE  SpeedFrame(c) \in Seq(Byte)
  <2>1. c \in [1..4 -> Byte]
    BY LinkAssumption DEF Byte
  <2>2. c \in Seq(Byte)
    <3>1. [1..4 -> Byte] \in {[1..n -> Byte] : n \in Nat}
      OBVIOUS
    <3>2. Seq(Byte) = UNION {[1..n -> Byte] : n \in Nat}
      BY SeqDef
    <3> QED
      BY <2>1, <3>1, <3>2
  <2>3. <<Header, SpeedTag>> \in Seq(Byte)
    BY DEF Header, SpeedTag, Byte
  <2> QED
    BY <2>2, <2>3 DEF SpeedFrame
<1> QED
  BY <1>1 DEF GateFrame, Header, GateTag, Byte

(* A receive buffer of bytes that gets a byte remains one, full or not.    *)
LEMMA PutBytes ==
  ASSUME NEW q \in Seq(Byte), NEW b \in Byte
  PROVE  Put(q, b, RxCap) \in Seq(Byte)
<1>1. CASE Len(q) < RxCap
  BY <1>1 DEF Put
<1>2. CASE ~(Len(q) < RxCap)
  <2>1. q # << >>
    BY <1>2, LinkAssumption
  <2>2. Tail(q) \in Seq(Byte)
    BY <2>1
  <2> QED
    BY <1>2, <2>2 DEF Put
<1> QED
  BY <1>1, <1>2

(* A released semaphore stays within its limit and is not zero.            *)
LEMMA ReleasedType ==
  ASSUME NEW n \in 0..SemMax
  PROVE  Released(n) \in 0..SemMax /\ Released(n) > 0
BY LinkAssumption DEF Released

-----------------------------------------------------------------------------
(* Every variable keeps its type, one group of variables at a time.        *)
LEMMA InitTypes == Init => TypeOK
<1> SUFFICES ASSUME Init PROVE TypeOK
  OBVIOUS
<1> USE LinkAssumption DEF Init
<1>1. LinkTypes
  BY DEF LinkTypes
<1>2. DecoderTypes
  BY DEF DecoderTypes
<1>3. MotorTypes
  BY DEF MotorTypes, Zero4, Byte
<1>4. HistoryTypes
  BY DEF HistoryTypes, Zero4
<1> QED
  BY <1>1, <1>2, <1>3, <1>4 DEF TypeOK

(* Every step keeps the types of what is on its way.                       *)
LEMMA LinkStep == TypeOK /\ Next => LinkTypes'
<1> SUFFICES ASSUME TypeOK, Next PROVE LinkTypes'
  OBVIOUS
<1> USE DEF LinkTypes
<1>t. LinkTypes
  BY DEF TypeOK
<1>1. ASSUME NEW c \in Cmds, SendSp(c) PROVE LinkTypes'
  BY <1>t, <1>1, FrameBytes DEF SendSp
<1>2. CASE SendGate
  BY <1>t, <1>2, FrameBytes DEF SendGate
<1>3. CASE LoseByte
  BY <1>t, <1>3 DEF LoseByte
<1>4. CASE RxIsr
  <2>1. Head(wire) \in Byte /\ Tail(wire) \in Seq(Byte)
    BY <1>t, <1>4 DEF RxIsr
  <2> DEFINE n == IF Indicate THEN Released(sem.decoder) ELSE sem.decoder
  <2>2. n \in 0..SemMax
    BY <1>t, ReleasedType
  <2>3. sem' = [sem EXCEPT !.decoder = n]
    BY <1>4 DEF RxIsr
  <2> HIDE DEF n
  <2> QED
    BY <1>t, <1>4, <2>1, <2>2, <2>3, PutBytes DEF RxIsr
<1>5. CASE DecoderRead
  BY <1>t, <1>5 DEF DecoderRead
<1>6. CASE DecoderTake
  <2>1. sem.decoder \in 0..SemMax /\ sem.decoder > 0
    BY <1>t, <1>6 DEF DecoderTake
  <2>2. sem.decoder - 1 \in 0..SemMax
    BY <2>1, LinkAssumption
  <2> QED
    BY <1>t, <1>6, <2>2 DEF DecoderTake
<1>7. CASE DecoderRelease
  <2>1. Released(sem.motor) \in 0..SemMax
    BY <1>t, ReleasedType
  <2> QED
    BY <1>t, <1>7, <2>1 DEF DecoderRelease, Restarted
<1>8. CASE DecoderSignal
  <2>1. Released(sem.infrared) \in 0..SemMax
    BY <1>t, ReleasedType
  <2> QED
    BY <1>t, <1>8, <2>1 DEF DecoderSignal
<1>9. CASE MotorTake
  <2>1. sem.motor \in 0..SemMax /\ sem.motor > 0
    BY <1>t, <1>9 DEF MotorTake
  <2>2. sem.motor - 1 \in 0..SemMax
    BY <2>1, LinkAssumption
  <2> QED
    BY <1>t, <1>9, <2>2 DEF MotorTake
<1>10. CASE UNCHANGED <<wire, ring, sem>>
  BY <1>t, <1>10
<1> QED
  BY <1>1, <1>2, <1>3, <1>4, <1>5, <1>6, <1>7, <1>8, <1>9, <1>10
     DEF Next, Camera, Decoder, Motor, DecoderEmpty, DecoderCopy, DecoderFlag,
         GateOpened, MotorSet, MotorLoad, MotorConvert

(* Every step keeps the types of the decoder.                              *)
LEMMA DecoderStep == TypeOK /\ Next => DecoderTypes'
<1> SUFFICES ASSUME TypeOK, Next PROVE DecoderTypes'
  OBVIOUS
<1> USE DEF DecoderTypes
<1>t. DecoderTypes
  BY DEF TypeOK
<1>1. CASE DecoderRead
  <2>1. Head(ring) \in Byte
    BY <1>1 DEF TypeOK, LinkTypes, DecoderRead
  <2> DEFINE b == Head(ring)
  <2>2. DecoderParse(b) /\ stopFlag' = stopFlag /\ dec.pc = "read"
    BY <1>1 DEF DecoderRead
  <2> HIDE DEF b
  <2>3. CASE dec.step = 0
    BY <1>t, <2>2, <2>3 DEF DecoderParse, NextStep, Completes
  <2>4. CASE dec.step = 1
    BY <1>t, <2>2, <2>4 DEF DecoderParse, NextStep, Completes
  <2>5. CASE dec.step = 2
    <3>1. dec' = [pc   |-> IF Len(dec.buf) = 3 THEN "copy" ELSE "read",
                  step |-> 2,
                  buf  |-> Append(dec.buf, b)]
      BY <2>2, <2>5 DEF DecoderParse, NextStep, Completes
    <3>2. /\ Append(dec.buf, b) \in Seq(Byte)
          /\ Len(Append(dec.buf, b)) = Len(dec.buf) + 1
          /\ Len(dec.buf) \in Nat /\ Len(dec.buf) <= 3
      BY <1>t, <2>1, <2>2 DEF b
    <3>3. dec' \in [pc : {"read", "copy"}, step : 0..2, buf : Seq(Byte)]
      BY <3>1, <3>2
    <3>4. dec'.buf = Append(dec.buf, b)
      BY <3>1
    <3>5. dec'.pc \in {"copy", "release"} <=> Len(dec.buf) = 3
      BY <3>1
    <3>6. Len(dec'.buf) = Len(dec.buf) + 1
      BY <3>2, <3>4
    <3>7. /\ Len(dec.buf) = 3 => Len(dec'.buf) = 4
          /\ Len(dec.buf) # 3 => Len(dec'.buf) < 4
      <4>1. ASSUME NEW n \in Nat, n <= 3, n # 3 PROVE n + 1 < 4
        BY <4>1
      <4>2. Len(dec.buf) = 3 => Len(dec'.buf) = 4
        BY <3>6
      <4>3. Len(dec.buf) # 3 => Len(dec.buf) + 1 < 4
        BY <3>2, <4>1
      <4> QED
        BY <3>6, <4>2, <4>3
    <3> QED
      BY <1>t, <2>2, <3>3, <3>5, <3>7
  <2> QED
    BY <1>t, <2>3, <2>4, <2>5
<1>2. CASE DecoderEmpty
  BY <1>t, <1>2 DEF DecoderEmpty
<1>3. CASE DecoderTake
  BY <1>t, <1>3 DEF DecoderTake
<1>4. CASE DecoderCopy
  BY <1>t, <1>4 DEF DecoderCopy
<1>5. CASE DecoderRelease
  BY <1>t, <1>5 DEF DecoderRelease, Restarted
<1>6. CASE DecoderSignal
  BY <1>t, <1>6 DEF DecoderSignal
<1>7. CASE DecoderFlag
  BY <1>t, <1>7 DEF DecoderFlag
<1>8. CASE GateOpened
  BY <1>t, <1>8 DEF GateOpened
<1>9. CASE UNCHANGED <<dec, stopFlag>>
  BY <1>t, <1>9
<1> QED
  BY <1>1, <1>2, <1>3, <1>4, <1>5, <1>6, <1>7, <1>8, <1>9
     DEF Next, Camera, Decoder, Motor, SendSp, SendGate, LoseByte, RxIsr,
         MotorSet, MotorTake, MotorLoad, MotorConvert

(* Every step keeps the types of the motor thread.                         *)
LEMMA MotorStep == TypeOK /\ Next => MotorTypes'
<1> SUFFICES ASSUME TypeOK, Next PROVE MotorTypes'
  OBVIOUS
<1> USE DEF MotorTypes
<1>t. MotorTypes
  BY DEF TypeOK
<1>1. CASE DecoderCopy
  <2>1. dec.buf \in Seq(Byte) /\ Len(dec.buf) = 4
    BY <1>1 DEF TypeOK, DecoderTypes, DecoderCopy
  <2>2. dec.buf \in [1..4 -> Byte]
    BY <2>1, LenProperties
  <2> QED
    BY <1>t, <1>1, <2>2 DEF DecoderCopy
<1>2. CASE MotorSet
  <2>1. mot.pulse[1] \in Nat /\ mot.pulse[2] \in Nat
    BY <1>t
  <2>2. Compare(mot.pulse[1]) \in Nat /\ Compare(mot.pulse[2]) \in Nat
    BY <2>1, CompareInt
  <2>3. pwm' \in Nat \X Nat /\ spData' = spData
    BY <1>2, <2>2 DEF MotorSet
  <2>4. mot' = [pc |-> "take", got |-> << >>, pulse |-> mot.pulse]
    BY <1>2 DEF MotorSet
  <2> QED
    BY <1>t, <2>3, <2>4
<1>3. CASE MotorTake
  BY <1>t, <1>3 DEF MotorTake
<1>4. CASE MotorLoad
  <2>1. mot.got \in Seq(Byte) /\ Len(mot.got) \in Nat /\ Len(mot.got) < 4
    BY <1>t, <1>4, LenProperties DEF MotorLoad
  <2>2. Len(mot.got) + 1 \in 1..4
    BY <2>1
  <2>3. spData[Len(mot.got) + 1] \in Byte
    BY <1>t, <2>2
  <2> DEFINE g == Append(mot.got, spData[Len(mot.got) + 1])
  <2>4. g \in Seq(Byte)
    BY <2>1, <2>3
  <2>5. Len(g) = Len(mot.got) + 1
    BY <2>1, <2>3
  <2>6. Len(g) <= 4
    BY <2>1, <2>5
  <2>7. mot' = [mot EXCEPT !.got = g] /\ UNCHANGED <<spData, pwm>>
    BY <1>4 DEF MotorLoad
  <2> HIDE DEF g
  <2> QED
    BY <1>t, <2>4, <2>6, <2>7
<1>5. CASE MotorConvert
  <2>1. \A k \in 1..4 : mot.got[k] \in Byte
    BY <1>t, <1>5 DEF MotorConvert
  <2>2. /\ PulseNs(mot.got[3], mot.got[4]) \in Nat
        /\ PulseNs(mot.got[1], mot.got[2]) \in Nat
    BY <2>1, PulseNat
  <2> QED
    BY <1>t, <1>5, <2>2 DEF MotorConvert
<1>6. CASE UNCHANGED <<spData, mot, pwm>>
  BY <1>t, <1>6
<1> QED
  BY <1>1, <1>2, <1>3, <1>4, <1>5, <1>6
     DEF Next, Camera, Decoder, Motor, SendSp, SendGate, LoseByte, RxIsr,
         DecoderRead, DecoderEmpty, DecoderTake, DecoderRelease,
         DecoderSignal, DecoderFlag, GateOpened, progVars, histVars

(* Every step keeps the types of the history.                              *)
LEMMA HistoryStep == TypeOK /\ Next => HistoryTypes'
<1> SUFFICES ASSUME TypeOK, Next PROVE HistoryTypes'
  OBVIOUS
<1> USE DEF HistoryTypes
<1>t. HistoryTypes
  BY DEF TypeOK
<1>1. ASSUME NEW c \in Cmds, SendSp(c) PROVE HistoryTypes'
  BY <1>t, <1>1 DEF SendSp
<1>2. CASE SendGate
  BY <1>t, <1>2 DEF SendGate
<1>3. CASE LoseByte
  BY <1>t, <1>3 DEF LoseByte
<1>4. CASE RxIsr
  BY <1>t, <1>4 DEF RxIsr
<1>5. CASE DecoderCopy
  BY <1>t, <1>5 DEF DecoderCopy
<1>6. CASE MotorSet
  BY <1>t, <1>6 DEF MotorSet
<1>7. CASE MotorLoad
  <2>1. Append(versions.got, copies) \in Seq(Nat)
    BY <1>t
  <2> QED
    BY <1>t, <1>7, <2>1 DEF MotorLoad
<1>8. CASE UNCHANGED histVars
  BY <1>t, <1>8 DEF histVars
<1> QED
  BY <1>1, <1>2, <1>3, <1>4, <1>5, <1>6, <1>7, <1>8
     DEF Next, Camera, Decoder, Motor, DecoderRead, DecoderEmpty, DecoderTake,
         DecoderRelease, DecoderSignal, DecoderFlag, GateOpened, MotorTake,
         MotorConvert

(* So every step keeps all types.                                          *)
LEMMA TypeStep == TypeOK /\ [Next]_vars => TypeOK'
<1>1. TypeOK /\ Next => TypeOK'
  BY LinkStep, DecoderStep, MotorStep, HistoryStep DEF TypeOK
<1>2. TypeOK /\ UNCHANGED vars => TypeOK'
  BY DEF TypeOK, LinkTypes, DecoderTypes, MotorTypes, HistoryTypes, vars,
         progVars, histVars
<1> QED
  BY <1>1, <1>2

(* Whatever the packets, the buffer size, the semaphore limit and the bytes*)
(* lost, every variable of the link keeps its type: the decoder's index    *)
(* never leaves Rx_buffer[4], the semaphores stay within their limit, and  *)
(* what is copied into sp_data is always four bytes.                       *)
THEOREM LinkTypeOK == Spec => []TypeOK
<1> QED
  BY InitTypes, TypeStep, PTL DEF Spec
-----------------------------------------------------------------------------
(* A release of sem_decoder that is refused because the semaphore is full  *)
(* loses nothing: there is a token already.                                *)
LEMMA WakeupStep == TypeOK /\ NoLostWakeup /\ [Next]_vars => NoLostWakeup'
<1> SUFFICES ASSUME TypeOK, NoLostWakeup, [Next]_vars PROVE NoLostWakeup'
  OBVIOUS
<1> USE DEF NoLostWakeup
<1>t. /\ sem \in [decoder : 0..SemMax, motor : 0..SemMax, infrared : 0..SemMax]
      /\ dec \in [pc : {"read", "take", "copy", "release", "signal", "flag"},
                  step : 0..2, buf : Seq(Byte)]
  BY DEF TypeOK, LinkTypes, DecoderTypes
<1>1. CASE RxIsr
  <2>1. ring' \in Seq(Byte)
    BY <1>1, LinkStep DEF Next, LinkTypes
  <2>2. ring' # << >> => Indicate
    BY <2>1, EmptySeq DEF Indicate
  <2>3. Released(sem.decoder) > 0
    BY <1>t, ReleasedType
  <2>4. sem' = [sem EXCEPT !.decoder = IF Indicate THEN Released(@) ELSE @]
    BY <1>1 DEF RxIsr
  <2>5. Indicate => sem'.decoder > 0
    BY <1>t, <2>3, <2>4
  <2> QED
    BY <2>2, <2>5
<1>2. CASE DecoderRead
  <2>1. dec.pc = "read" /\ DecoderParse(Head(ring))
    BY <1>2 DEF DecoderRead
  <2>2. dec'.pc # "take"
    BY <1>t, <2>1 DEF DecoderParse, NextStep, Completes
  <2> QED
    BY <2>2
<1>3. CASE DecoderEmpty
  BY <1>3 DEF DecoderEmpty
<1>4. CASE DecoderTake
  BY <1>t, <1>4 DEF DecoderTake
<1>5. CASE DecoderCopy
  BY <1>t, <1>5 DEF DecoderCopy
<1>6. CASE DecoderRelease
  BY <1>t, <1>6 DEF DecoderRelease, Restarted
<1>7. CASE DecoderSignal
  BY <1>t, <1>7 DEF DecoderSignal
<1>8. CASE DecoderFlag
  BY <1>t, <1>8 DEF DecoderFlag
<1>9. CASE MotorTake
  BY <1>t, <1>9 DEF MotorTake
<1>10. CASE UNCHANGED <<ring, sem, dec>>
  BY <1>10
<1> QED
  BY <1>1, <1>2, <1>3, <1>4, <1>5, <1>6, <1>7, <1>8, <1>9, <1>10
     DEF Next, Camera, Decoder, Motor, SendSp, SendGate, LoseByte, GateOpened,
         MotorSet, MotorLoad, MotorConvert, vars, progVars

(* The decoder thread never sleeps with an unread byte and no token, for   *)
(* every receive buffer and every semaphore limit.                         *)
THEOREM LinkNoLostWakeup == Spec => []NoLostWakeup
<1>1. Init => NoLostWakeup
  BY DEF Init, NoLostWakeup
<1> QED
  BY <1>1, InitTypes, TypeStep, WakeupStep, PTL DEF Spec
-----------------------------------------------------------------------------
(* Settled speaks of motor_ctrl_th at rest.  What makes it true is what the*)
(* thread holds on its way there: unless a token is pending, or about to   *)
(* be released, what it has read and computed so far is from the packet    *)
(* that is in sp_data now.                                                 *)
Pending == sem.motor > 0 \/ dec.pc = "release"

HoldsCurrent ==
  /\ mot.pc = "load" => \A k \in 1..Len(mot.got) : mot.got[k] = spData[k]
  /\ mot.pc = "set" => mot.pulse = << PulseNs(spData[3], spData[4]),
                                      PulseNs(spData[1], spData[2]) >>
  /\ mot.pc = "take" => pwm = Duty(spData)

InHand ==
  /\ mot.pc = "take" => mot.got = << >>
  /\ ~Pending => HoldsCurrent

(* At first both wheels stand, as sp_data says.                            *)
LEMMA InitInHand == Init => InHand
<1> SUFFICES ASSUME Init PROVE InHand
  OBVIOUS
<1>1. mot.pc = "set" /\ mot.pulse = <<0, 0>> /\ \A k \in 1..4 : spData[k] = 0
  BY DEF Init, Zero4
<1> QED
  BY <1>1, PulseZero DEF InHand, HoldsCurrent

(* Every step keeps what the thread has in hand from the present packet.   *)
LEMMA InHandStep == TypeOK /\ InHand /\ [Next]_vars => InHand'
<1> SUFFICES ASSUME TypeOK, InHand, [Next]_vars PROVE InHand'
  OBVIOUS
<1> USE DEF InHand, HoldsCurrent, Pending
<1>t. /\ sem \in [decoder : 0..SemMax, motor : 0..SemMax, infrared : 0..SemMax]
      /\ dec \in [pc : {"read", "take", "copy", "release", "signal", "flag"},
                  step : 0..2, buf : Seq(Byte)]
      /\ mot \in [pc : {"set", "take", "load"}, got : Seq(Byte),
                  pulse : Nat \X Nat]
  BY DEF TypeOK, LinkTypes, DecoderTypes, MotorTypes
<1>1. CASE UNCHANGED <<spData, mot, pwm>> /\ (Pending => Pending')
  BY <1>1
<1>2. CASE RxIsr
  BY <1>t, <1>1, <1>2 DEF RxIsr
<1>3. CASE DecoderRead
  BY <1>1, <1>3 DEF DecoderRead
<1>4. CASE DecoderEmpty
  BY <1>1, <1>4 DEF DecoderEmpty
<1>5. CASE DecoderTake
  BY <1>t, <1>1, <1>5 DEF DecoderTake
<1>6. CASE DecoderCopy
  <2>1. Pending'
    BY <1>t, <1>6 DEF DecoderCopy
  <2> QED
    BY <1>6, <2>1 DEF DecoderCopy
<1>7. CASE DecoderRelease
  <2>1. Released(sem.motor) > 0
    BY <1>t, ReleasedType
  <2>2. Pending'
    BY <1>t, <1>7, <2>1 DEF DecoderRelease, Restarted
  <2> QED
    BY <1>7, <2>2 DEF DecoderRelease, Restarted
<1>8. CASE DecoderSignal
  BY <1>t, <1>1, <1>8 DEF DecoderSignal
<1>9. CASE DecoderFlag
  BY <1>1, <1>9 DEF DecoderFlag
<1>10. CASE MotorSet
  <2>1. /\ mot.pc = "set"
        /\ pwm' = << Compare(mot.pulse[1]), Compare(mot.pulse[2]) >>
        /\ mot' = [pc |-> "take", got |-> << >>, pulse |-> mot.pulse]
        /\ UNCHANGED <<sem, dec, spData>>
    BY <1>10 DEF MotorSet
  <2>2. ASSUME ~Pending PROVE pwm' = Duty(spData)
    BY <2>1, <2>2 DEF Duty
  <2> QED
    BY <2>1, <2>2
<1>11. CASE MotorTake
  <2>1. mot.pc = "take" /\ mot' = [mot EXCEPT !.pc = "load"]
    BY <1>11 DEF MotorTake
  <2>2. mot'.pc = "load" /\ mot'.got = << >>
    BY <1>t, <2>1
  <2> QED
    BY <2>2
<1>12. CASE MotorLoad
  <2> DEFINE n == Len(mot.got) + 1
  <2>1. /\ mot.pc = "load" /\ Len(mot.got) < 4
        /\ mot' = [mot EXCEPT !.got = Append(mot.got, spData[n])]
        /\ UNCHANGED <<sem, dec, spData, pwm>>
    BY <1>12 DEF MotorLoad
  <2>2. mot'.pc = "load" /\ mot'.got = Append(mot.got, spData[n])
    BY <1>t, <2>1
  <2>3. ASSUME ~Pending
        PROVE  \A k \in 1..Len(mot'.got) : mot'.got[k] = spData[k]
    <3>1. \A k \in 1..Len(mot.got) : mot.got[k] = spData[k]
      BY <2>1, <2>3
    <3>2. mot.got \in Seq(Byte) /\ Len(mot.got) \in Nat
      BY <1>t, LenProperties
    <3>3. Len(mot'.got) = n /\ mot'.got[n] = spData[n]
      BY <2>2, <3>2
    <3>4. \A k \in 1..Len(mot.got) : mot'.got[k] = mot.got[k]
      BY <2>2, <3>2
    <3>5. \A k \in 1..n : k = n \/ k \in 1..Len(mot.got)
      BY <3>2
    <3> QED
      BY <3>1, <3>3, <3>4, <3>5
  <2> QED
    BY <2>1, <2>2, <2>3
<1>13. CASE MotorConvert
  <2>1. /\ mot.pc = "load" /\ Len(mot.got) = 4
        /\ mot' = [pc    |-> "set",
                   got   |-> mot.got,
                   pulse |-> << PulseNs(mot.got[3], mot.got[4]),
                                PulseNs(mot.got[1], mot.got[2]) >>]
        /\ UNCHANGED <<sem, dec, spData, pwm>>
    BY <1>13 DEF MotorConvert
  <2>2. ASSUME ~Pending PROVE \A k \in 1..4 : mot.got[k] = spData[k]
    BY <2>1, <2>2
  <2>3. ~Pending => mot'.pulse = << PulseNs(spData[3], spData[4]),
                                    PulseNs(spData[1], spData[2]) >>
    BY <2>1, <2>2
  <2> QED
    BY <2>1, <2>3
<1> QED
  BY <1>1, <1>2, <1>3, <1>4, <1>5, <1>6, <1>7, <1>8, <1>9, <1>10, <1>11,
     <1>12, <1>13
     DEF Next, Camera, Decoder, Motor, SendSp, SendGate, LoseByte, GateOpened,
         vars, progVars

(* A torn read of sp_data never outlives the token of the packet that tore *)
(* it: at rest, the wheels run at the speeds in sp_data, for every set of  *)
(* packets and whatever is lost on the way.                                *)
THEOREM LinkSettled == Spec => []Settled
<1>1. TypeOK /\ InHand => Settled
  BY DEF TypeOK, LinkTypes, InHand, HoldsCurrent, Pending, Settled
<1> QED
  BY <1>1, InitTypes, TypeStep, InitInHand, InHandStep, PTL DEF Spec
=============================================================================
