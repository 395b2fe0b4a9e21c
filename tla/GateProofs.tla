------------------------------ MODULE GateProofs -----------------------------
(***************************************************************************)
(* The gate protocol for every buffer size, every set of distances and any *)
(* number of losses, late interrupts and failures: stop_flag is lowered    *)
(* only by the answer of an opened gate, and if no distance is sent as     *)
(* zero the rover passes only an opened gate.                              *)
(***************************************************************************)
EXTENDS Gate, SequenceTheorems, TLAPS

(* A distance is sent as a byte.                                           *)
LEMMA DistanceIsByte ==
  ASSUME NEW cm \in Distances
  PROVE  DistanceByte(cm) \in 0..255
  BY GateAssumption DEF DistanceByte

(* A byte at the end of a buffer.                                          *)
LEMMA Appended ==
  ASSUME NEW S, NEW q \in Seq(S), NEW b \in S
  PROVE  /\ Append(q, b) \in Seq(S) /\ Append(q, b) # << >>
         /\ Head(Append(q, b)) \in S /\ Tail(Append(q, b)) \in Seq(S)
<1>1. Append(q, b) \in Seq(S) /\ Len(Append(q, b)) = Len(q) + 1
  OBVIOUS
<1>2. Len(q) \in Nat /\ Len(<< >>) = 0
  OBVIOUS
<1>3. Append(q, b) # << >>
  BY <1>1, <1>2
<1>4. QED
  BY <1>1, <1>3, HeadTailProperties

(* Storing into and reading from the receive buffer of uart2.              *)
LEMMA StoreThenRead ==
  ASSUME NEW S, NEW q \in Seq(S), NEW b \in S, NEW cap \in Nat \ {0}
  PROVE  /\ Put(q, b, cap) \in Seq(S) /\ Put(q, b, cap) # << >>
         /\ Head(Put(q, b, cap)) \in S /\ Tail(Put(q, b, cap)) \in Seq(S)
<1>1. CASE Len(q) < cap
  BY <1>1, Appended DEF Put
<1>2. CASE ~(Len(q) < cap)
  <2>1. q # << >>
    BY <1>2, EmptySeq
  <2>2. Tail(q) \in Seq(S)
    BY <2>1, HeadTailProperties
  <2>3. QED
    BY <1>2, <2>2, Appended DEF Put
<1>3. QED
  BY <1>1, <1>2

(* The interrupt of uart2, whatever bytes it finds: what it reads and what *)
(* it leaves are bytes that were in the air or in the buffer.              *)
LEMMA ReceiveWithin ==
  ASSUME NEW S, toRover \in Seq(S), irRing \in Seq(S), IrReceive
  PROVE  /\ toRover' \in Seq(S) /\ irRing' \in Seq(S)
         /\ Code[1] \notin S => stopFlag' = stopFlag
         /\ stopFlag' \in {0, stopFlag}
<1>0. IrCap \in Nat \ {0}
  BY GateAssumption
<1>1. PICK n \in {1, 2} :
        /\ Len(toRover) >= n
        /\ toRover' = SubSeq(toRover, n + 1, Len(toRover))
        /\ LET one  == Put(irRing, toRover[1], IrCap)
               ring == IF n = 1 THEN one ELSE Put(one, toRover[2], IrCap)
           IN  /\ irRing' = Tail(ring)
               /\ stopFlag' = IF Head(ring) = Code[1] THEN 0 ELSE stopFlag
  BY DEF IrReceive
<1> DEFINE one  == Put(irRing, toRover[1], IrCap)
           ring == IF n = 1 THEN one ELSE Put(one, toRover[2], IrCap)
<1>2. toRover' \in Seq(S)
  BY <1>1
<1>3. toRover[1] \in S /\ (n = 2 => toRover[2] \in S)
  BY <1>1
<1>4. one \in Seq(S) /\ Head(one) \in S /\ Tail(one) \in Seq(S)
  BY <1>0, <1>3, StoreThenRead
<1>5. Head(ring) \in S /\ Tail(ring) \in Seq(S)
  <2>1. CASE n = 1
    BY <1>4, <2>1
  <2>2. CASE n = 2
    <3>1. /\ Head(Put(one, toRover[2], IrCap)) \in S
          /\ Tail(Put(one, toRover[2], IrCap)) \in Seq(S)
      BY <1>0, <1>3, <1>4, <2>2, StoreThenRead
    <3>2. ring = Put(one, toRover[2], IrCap)
      BY <2>2
    <3>3. QED
      BY <3>1, <3>2
  <2>3. QED
    BY <2>1, <2>2
<1>6. irRing' = Tail(ring) /\ stopFlag' = IF Head(ring) = Code[1] THEN 0 ELSE stopFlag
  BY <1>1
<1>7. QED
  BY <1>2, <1>5, <1>6
-----------------------------------------------------------------------------
(* The types hold when state_5 is entered.                                 *)
LEMMA InitType == Init => TypeOK
<1> SUFFICES ASSUME Init PROVE TypeOK
  OBVIOUS
<1>1. up \in Seq(0..255)
  <2>1. PICK n \in 0..2 : up \in [1..n -> {DistanceByte(cm) : cm \in Distances}]
    BY DEF Init
  <2>2. \A i \in 1..n : up[i] \in 0..255
    <3>1. ASSUME NEW i \in 1..n PROVE up[i] \in 0..255
      <4>1. PICK cm \in Distances : up[i] = DistanceByte(cm)
        BY <2>1
      <4>2. QED
        BY <4>1, DistanceIsByte
    <3>2. QED
      BY <3>1
  <2>3. up \in [1..n -> 0..255]
    BY <2>1, <2>2
  <2>4. QED
    BY <2>3
<1>2. sr04 \in [pc : {"sleep", "test", "write", "exited"}, cm : Nat, byte : 0..255]
  BY DEF Init
<1>3. request \in BOOLEAN /\ sendFlag \in BOOLEAN /\ opened \in BOOLEAN
  BY Zenon DEF Init
<1>4. QED
  BY <1>1, <1>2, <1>3 DEF Init, TypeOK

(* Every step keeps them.                                                  *)
LEMMA StepType == TypeOK /\ [Next]_vars => TypeOK'
<1> SUFFICES ASSUME TypeOK, [Next]_vars PROVE TypeOK'
  OBVIOUS
<1> USE DEF TypeOK, camVars, mcuVars, gateVars, counters
<1>1. CASE CamRequest
  BY <1>1 DEF CamRequest
<1>2. CASE LoseRequest
  <2>1. request' \in BOOLEAN
    BY Zenon, <1>2 DEF TypeOK, LoseRequest
  <2>2. QED
    BY <1>2, <2>1 DEF LoseRequest
<1>3. CASE CamAwait
  BY <1>3, HeadTailProperties DEF CamAwait
<1>4. CASE CamPoll
  BY <1>4, HeadTailProperties DEF CamPoll
<1>5. CASE CamPass
  BY <1>5 DEF CamPass
<1>6. CASE DecSignal
  <2>1. request' \in BOOLEAN
    BY Zenon, <1>6 DEF TypeOK, DecSignal
  <2>2. QED
    BY <1>6, <2>1 DEF DecSignal
<1>7. CASE DecFlag
  BY <1>7 DEF DecFlag
<1>8. CASE IrTake
  BY <1>8 DEF IrTake
<1>9. CASE IrTest
  BY <1>9 DEF IrTest
<1>10. CASE IrWrite
  <2>1. Code \in Seq(0..255) /\ Echo \in 0..255
    BY DEF Code, Echo
  <2>2. toGate' \in Seq(0..255) /\ toRover' \in Seq(0..255)
    BY <1>10, <2>1, ConcatProperties, Appended DEF IrWrite
  <2>3. QED
    BY <1>10, <2>2 DEF IrWrite
<1>11. CASE IrDelay
  BY <1>11 DEF IrDelay
<1>12. CASE IrReceive
  <2>1. /\ toRover' \in Seq(0..255) /\ irRing' \in Seq(0..255)
        /\ stopFlag' \in {0, 1}
    BY <1>12, ReceiveWithin
  <2>2. late' \in Nat
    BY <1>12 DEF IrReceive
  <2>3. QED
    BY <1>12, <2>1, <2>2 DEF IrReceive
<1>13. ASSUME NEW cm \in Distances, Sr04Measure(cm) PROVE TypeOK'
  <2>1. DistanceByte(cm) \in 0..255
    BY DistanceIsByte
  <2>2. cm \in Nat
    <3>1. cm \in 0..6553
      BY <1>13, GateAssumption
    <3>2. QED
      BY <3>1
  <2>3. QED
    BY <1>13, <2>1, <2>2 DEF Sr04Measure
<1>14. CASE Sr04Test
  <2>1. sr04' \in [pc : {"sleep", "test", "write", "exited"}, cm : Nat, byte : 0..255]
    <3>1. CASE stopFlag = 1
      <4>1. /\ sr04.cm \in Nat
            /\ sr04' = [pc |-> "write", cm |-> sr04.cm, byte |-> 0]
        BY <1>14, <3>1 DEF Sr04Test
      <4>2. QED
        BY <4>1
    <3>2. CASE stopFlag # 1
      <4>1. /\ sr04.byte \in 0..255 /\ sr04.cm \in Nat
            /\ sr04' = [pc |-> "write", cm |-> sr04.cm, byte |-> sr04.byte]
        BY <1>14, <3>2 DEF Sr04Test
      <4>2. QED
        BY <4>1
    <3>3. QED
      BY <3>1, <3>2
  <2>2. QED
    BY <1>14, <2>1 DEF Sr04Test
<1>15. CASE Sr04Write
  <2>1. up' \in Seq(0..255)
    BY <1>15, Appended DEF Sr04Write
  <2>2. QED
    BY <1>15, <2>1 DEF Sr04Write
<1>16. CASE Sr04Fail
  <2>1. sr04' \in [pc : {"sleep", "test", "write", "exited"}, cm : Nat, byte : 0..255]
    BY <1>16 DEF Sr04Fail
  <2>2. QED
    BY <1>16, <2>1 DEF Sr04Fail
<1>17. CASE LoseIr
  <2>1. toGate' \in Seq(0..255) /\ toRover' \in Seq(0..255)
    <3>1. toGate # << >> => Tail(toGate) \in Seq(0..255)
      BY HeadTailProperties
    <3>2. toRover # << >> => Tail(toRover) \in Seq(0..255)
      BY HeadTailProperties
    <3>3. QED
      BY <1>17, <3>1, <3>2 DEF LoseIr
  <2>2. QED
    BY <1>17, <2>1 DEF LoseIr
<1>18. CASE GateReceive
  <2>1. toGate' \in Seq(0..255)
    BY <1>18, HeadTailProperties DEF GateReceive
  <2>2. sendFlag' \in BOOLEAN
    BY <1>18 DEF GateReceive
  <2>3. QED
    BY <1>18, <2>1, <2>2 DEF GateReceive
<1>19. CASE GateOpen
  <2>1. opened' \in BOOLEAN
    BY Zenon, <1>19 DEF TypeOK, GateOpen
  <2>2. QED
    BY <1>19, <2>1 DEF GateOpen
<1>20. CASE GateGo
  <2>1. Code \in Seq(0..255)
    BY DEF Code
  <2>2. toRover' \in Seq(0..255)
    BY <1>20, <2>1, ConcatProperties DEF GateGo
  <2>3. QED
    BY <1>20, <2>2 DEF GateGo
<1>21. CASE GateClear
  <2>1. sendFlag' \in BOOLEAN
    BY Zenon, <1>21 DEF TypeOK, GateClear
  <2>2. QED
    BY <1>21, <2>1 DEF GateClear
<1>22. CASE GateClose
  BY <1>22 DEF GateClose
<1>23. CASE UNCHANGED vars
  BY <1>23 DEF vars
<1>24. QED
  BY <1>1, <1>2, <1>3, <1>4, <1>5, <1>6, <1>7, <1>8, <1>9, <1>10, <1>11, <1>12,
     <1>13, <1>14, <1>15, <1>16, <1>17, <1>18, <1>19, <1>20, <1>21, <1>22, <1>23
  DEF Next, Camera, Decoder, Infrared, Sensor, GateMain

(* Every variable of the gate protocol keeps its type, for all buffers,    *)
(* distances, losses and failures.                                         *)
THEOREM GateTypeOK == Spec => []TypeOK
  BY InitType, StepType, PTL DEF Spec
-----------------------------------------------------------------------------
(* Before the gate opens for the first time there is no answer anywhere:   *)
(* all that the rover can receive are the echoes of its own module.        *)
NoAnswer == ~opened => /\ main \in {"loop", "spins"}
                       /\ toRover \in Seq({Echo}) /\ irRing \in Seq({Echo})

(* There is none at the start.                                             *)
LEMMA InitNoAnswer == Init => NoAnswer
  BY EmptySeq DEF Init, NoAnswer

(* No step makes one but those of an opened gate.                          *)
LEMMA StepNoAnswer == NoAnswer /\ [Next]_vars => NoAnswer'
<1> SUFFICES ASSUME NoAnswer, [Next]_vars, ~opened' PROVE NoAnswer'
  BY DEF NoAnswer
<1>0. ~opened
  BY DEF Next, vars, Camera, Decoder, Infrared, Sensor, GateMain, camVars,
         mcuVars, gateVars, counters, CamRequest, LoseRequest, CamAwait,
         CamPoll, CamPass, DecSignal, DecFlag, IrTake, IrTest, IrWrite,
         IrDelay, IrReceive, Sr04Measure, Sr04Test, Sr04Write, Sr04Fail,
         LoseIr, GateReceive, GateOpen, GateGo, GateClear, GateClose
<1>1. main \in {"loop", "spins"} /\ toRover \in Seq({Echo}) /\ irRing \in Seq({Echo})
  BY <1>0 DEF NoAnswer
<1>2. CASE IrReceive
  BY <1>1, <1>2, ReceiveWithin DEF NoAnswer, IrReceive, gateVars
<1>3. CASE IrWrite
  <2>1. toRover' \in Seq({Echo})
    BY <1>1, <1>3, Appended DEF IrWrite
  <2>2. QED
    BY <1>1, <1>3, <2>1 DEF NoAnswer, IrWrite, gateVars
<1>4. CASE LoseIr
  <2>1. toRover # << >> => Tail(toRover) \in Seq({Echo})
    BY <1>1, HeadTailProperties
  <2>2. QED
    BY <1>1, <1>4, <2>1 DEF NoAnswer, LoseIr, mcuVars, gateVars
<1>5. CASE GateMain
  BY <1>1, <1>5
  DEF NoAnswer, GateMain, GateOpen, GateGo, GateClear, GateClose, camVars, mcuVars, gateVars
<1>6. CASE UNCHANGED <<main, toRover, irRing>>
  BY <1>1, <1>6 DEF NoAnswer
<1>7. QED
  BY <1>2, <1>3, <1>4, <1>5, <1>6
  DEF Next, vars, Camera, Decoder, Infrared, Sensor, camVars, mcuVars,
      gateVars, CamRequest, LoseRequest, CamAwait, CamPoll, CamPass,
      DecSignal, DecFlag, IrTake, IrTest, IrDelay, Sr04Measure, Sr04Test,
      Sr04Write, Sr04Fail, GateReceive

(* stop_flag is lowered only by the interrupt of uart2, and only by the    *)
(* answer.                                                                 *)
LEMMA StepLowered ==
  TypeOK /\ NoAnswer /\ [Next]_vars => (stopFlag = 1 /\ stopFlag' = 0 => opened)
<1> SUFFICES ASSUME TypeOK, NoAnswer, [Next]_vars,
                    ~opened, stopFlag = 1, stopFlag' = 0
             PROVE  FALSE
  BY DEF TypeOK
<1>1. CASE IrReceive
  <2>1. toRover \in Seq({Echo}) /\ irRing \in Seq({Echo})
    BY DEF NoAnswer
  <2>2. Code[1] \notin {Echo}
    BY DEF Code, Echo
  <2>3. stopFlag' = stopFlag
    BY <1>1, <2>1, <2>2, ReceiveWithin
  <2>4. QED
    BY <2>3
<1>2. QED
  BY <1>1
  DEF Next, vars, Camera, Decoder, Infrared, Sensor, GateMain, camVars,
      mcuVars, gateVars, CamRequest, LoseRequest, CamAwait, CamPoll, CamPass,
      DecSignal, DecFlag, IrTake, IrTest, IrWrite, IrDelay, Sr04Measure,
      Sr04Test, Sr04Write, Sr04Fail, LoseIr, GateReceive, GateOpen, GateGo,
      GateClear, GateClose

(* Only the answer of a gate that has been opened lowers stop_flag, with   *)
(* late interrupts, lost bytes and echoes too.                             *)
THEOREM GateLowers == Spec => LoweredByGate
<1>1. TypeOK /\ NoAnswer /\ [Next]_vars => [stopFlag = 1 /\ stopFlag' = 0 => opened]_vars
  BY StepLowered
<1>2. QED
  BY <1>1, InitType, StepType, InitNoAnswer, StepNoAnswer, PTL DEF Spec, LoweredByGate
-----------------------------------------------------------------------------
(* The sensor sees nothing at a multiple of 256 cm.                        *)
NoZero == \A cm \in Distances : DistanceByte(cm) # 0

(* The byte sr04_th is about to write is zero.                             *)
ZeroNext == sr04.pc = "write" => sr04.byte = 0

ZerosFrom(i) == \A j \in i..Len(up) : up[j] = 0

(* Before the gate opens a zero stands for a raised stop_flag, and after a *)
(* zero nothing but zeros reaches the camera.                              *)
Zeros ==
  ~opened =>
    /\ sr04.pc = "test" => sr04.byte # 0
    /\ sr04.pc = "write" /\ sr04.byte = 0 => stopFlag = 1
    /\ \A i \in 1..Len(up) : up[i] = 0 => stopFlag = 1 /\ ZeroNext /\ ZerosFrom(i)
    /\ cam = "stopped" => stopFlag = 1 /\ ZeroNext /\ ZerosFrom(1)
    /\ cam \notin {"pass", "finished"}

(* The distances that piled up before state_5 are no zeros.                *)
LEMMA InitZeros == ASSUME NoZero PROVE Init => Zeros
<1> SUFFICES ASSUME Init PROVE Zeros
  OBVIOUS
<1>1. \A i \in 1..Len(up) : up[i] # 0
  <2>1. PICK n \in 0..2 : up \in [1..n -> {DistanceByte(cm) : cm \in Distances}]
    BY DEF Init
  <2>2. up \in Seq({DistanceByte(cm) : cm \in Distances})
    BY <2>1
  <2>3. ASSUME NEW i \in 1..Len(up) PROVE up[i] # 0
    <3>1. up[i] \in {DistanceByte(cm) : cm \in Distances}
      BY <2>2, <2>3
    <3>2. QED
      BY <3>1 DEF NoZero
  <2>4. QED
    BY <2>3
<1>2. sr04.pc = "sleep" /\ cam = "approach"
  BY DEF Init
<1>3. QED
  BY <1>1, <1>2 DEF Zeros

(* Reading a byte keeps the zeros at the end of the buffer.                *)
LEMMA ZerosRead ==
  ASSUME NEW S, up \in Seq(S), up # << >>, up' = Tail(up)
  PROVE  /\ \A i \in 1..Len(up') : up'[i] = up[i+1]
         /\ Len(up) \in Nat \ {0} /\ Len(up') = Len(up) - 1
         /\ Head(up) = up[1]
         /\ \A i \in 1..Len(up) : ZerosFrom(i) => \A j \in i..Len(up') : up'[j] = 0
<1>1. /\ Len(up') = Len(up) - 1 /\ Head(up) = up[1]
      /\ \A i \in 1..Len(up') : up'[i] = up[i+1]
  BY HeadTailProperties
<1>2. Len(up) \in Nat \ {0}
  BY EmptySeq
<1>3. QED
  BY <1>1, <1>2 DEF ZerosFrom

(* A step that leaves the flag, the sensor and its bytes alone.            *)
LEMMA ZerosSame ==
  ASSUME Zeros, ~opened, UNCHANGED <<up, sr04, stopFlag>>,
         cam' = "stopped" => cam = "stopped", cam' \notin {"pass", "finished"}
  PROVE  Zeros'
  BY DEF Zeros, ZeroNext, ZerosFrom

(* Every step keeps the meaning of the zeros.                              *)
LEMMA StepZeros ==
  ASSUME NoZero
  PROVE  TypeOK /\ NoAnswer /\ Zeros /\ [Next]_vars => Zeros'
<1> SUFFICES ASSUME TypeOK, NoAnswer, Zeros, [Next]_vars, ~opened' PROVE Zeros'
  BY DEF Zeros
<1>0. ~opened
  BY DEF Next, vars, Camera, Decoder, Infrared, Sensor, GateMain, camVars,
         mcuVars, gateVars, counters, CamRequest, LoseRequest, CamAwait,
         CamPoll, CamPass, DecSignal, DecFlag, IrTake, IrTest, IrWrite,
         IrDelay, IrReceive, Sr04Measure, Sr04Test, Sr04Write, Sr04Fail,
         LoseIr, GateReceive, GateOpen, GateGo, GateClear, GateClose
<1>1. /\ cam \notin {"pass", "finished"} /\ up \in Seq(0..255)
      /\ sr04 \in [pc : {"sleep", "test", "write", "exited"}, cm : Nat, byte : 0..255]
      /\ stopFlag \in {0, 1}
  BY <1>0 DEF Zeros, TypeOK
<1>2. CASE CamAwait
  <2>1. up # << >> /\ up' = Tail(up) /\ UNCHANGED <<sr04, stopFlag>>
        /\ cam' = IF Head(up) = 0 THEN "stopped" ELSE "await"
    BY <1>2 DEF CamAwait, mcuVars
  <2>2. /\ \A i \in 1..Len(up') : up'[i] = up[i+1]
        /\ Len(up) \in Nat \ {0} /\ Len(up') = Len(up) - 1
        /\ Head(up) = up[1]
    BY <1>1, <2>1, ZerosRead
  <2>3. ASSUME NEW i \in 1..Len(up'), up'[i] = 0
        PROVE  stopFlag' = 1 /\ ZeroNext' /\ ZerosFrom(i)'
    BY <1>0, <2>1, <2>2, <2>3 DEF Zeros, ZeroNext, ZerosFrom
  <2>4. ASSUME cam' = "stopped"
        PROVE  stopFlag' = 1 /\ ZeroNext' /\ ZerosFrom(1)'
    BY <1>0, <2>1, <2>2, <2>4 DEF Zeros, ZeroNext, ZerosFrom
  <2>5. QED
    BY <1>0, <2>1, <2>3, <2>4 DEF Zeros
<1>3. CASE CamPoll
  <2>1. /\ up # << >> /\ up' = Tail(up) /\ UNCHANGED <<sr04, stopFlag>>
        /\ cam = "stopped"
        /\ cam' = IF Head(up) < DIS_CONST THEN "stopped" ELSE "pass"
    BY <1>3 DEF CamPoll, mcuVars
  <2>2. /\ \A i \in 1..Len(up') : up'[i] = up[i+1]
        /\ Len(up) \in Nat \ {0} /\ Len(up') = Len(up) - 1
        /\ Head(up) = up[1]
    BY <1>1, <2>1, ZerosRead
  <2>3. stopFlag = 1 /\ ZeroNext /\ ZerosFrom(1)
    BY <1>0, <2>1 DEF Zeros
  <2>4. cam' = "stopped"
    BY <2>1, <2>2, <2>3 DEF ZerosFrom, DIS_CONST
  <2>5. \A i \in 1..Len(up') : up'[i] = 0
    BY <2>2, <2>3 DEF ZerosFrom
  <2>6. stopFlag' = 1 /\ ZeroNext' /\ \A i \in 1..Len(up') : ZerosFrom(i)'
    BY <2>1, <2>2, <2>3, <2>5 DEF ZeroNext, ZerosFrom
  <2>7. ZerosFrom(1)'
    BY <2>5 DEF ZerosFrom
  <2>8. QED
    BY <1>0, <2>1, <2>4, <2>6, <2>7 DEF Zeros
<1>4. CASE DecFlag
  <2>1. stopFlag' = 1 /\ UNCHANGED <<cam, up, sr04>>
    BY <1>4 DEF DecFlag, camVars
  <2>2. QED
    BY <1>0, <2>1 DEF Zeros, ZeroNext, ZerosFrom
<1>5. CASE IrReceive
  <2>1. Code[1] \notin {Echo} /\ toRover \in Seq({Echo}) /\ irRing \in Seq({Echo})
    BY <1>0 DEF Code, Echo, NoAnswer
  <2>2. stopFlag' = stopFlag
    BY <1>5, <2>1, ReceiveWithin
  <2>3. UNCHANGED <<cam, up, sr04>>
    BY <1>5 DEF IrReceive, camVars
  <2>4. QED
    BY <1>0, <1>1, <2>2, <2>3, ZerosSame
<1>6. ASSUME NEW cm \in Distances, Sr04Measure(cm) PROVE Zeros'
  <2>1. /\ sr04'.pc = "test" /\ sr04'.byte = DistanceByte(cm)
        /\ UNCHANGED <<cam, up, stopFlag>>
    BY <1>6 DEF Sr04Measure, camVars
  <2>2. DistanceByte(cm) # 0
    BY <1>6 DEF NoZero
  <2>3. QED
    BY <1>0, <2>1, <2>2 DEF Zeros, ZeroNext, ZerosFrom
<1>7. CASE Sr04Fail
  <2>1. sr04'.pc = "exited" /\ UNCHANGED <<cam, up, stopFlag>>
    BY <1>1, <1>7 DEF Sr04Fail, camVars
  <2>2. QED
    BY <1>0, <2>1 DEF Zeros, ZeroNext, ZerosFrom
<1>8. CASE Sr04Test
  <2>1. /\ sr04.pc = "test" /\ sr04'.pc = "write"
        /\ sr04'.byte = IF stopFlag = 1 THEN 0 ELSE sr04.byte
        /\ UNCHANGED <<cam, up, stopFlag>>
    BY <1>1, <1>8 DEF Sr04Test, camVars
  <2>2. QED
    BY <1>0, <2>1 DEF Zeros, ZeroNext, ZerosFrom
<1>9. CASE Sr04Write
  <2>1. /\ sr04.pc = "write" /\ sr04'.pc = "sleep" /\ UNCHANGED <<cam, stopFlag>>
        /\ up' = IF Len(up) < UpCap THEN Append(up, sr04.byte) ELSE up
    BY <1>9 DEF Sr04Write
  <2>2. CASE up' = up
    BY <1>0, <2>1, <2>2 DEF Zeros, ZeroNext, ZerosFrom
  <2>3. CASE up' = Append(up, sr04.byte)
    <3>1. /\ Len(up) \in Nat /\ Len(up') = Len(up) + 1
          /\ up'[Len(up) + 1] = sr04.byte
          /\ \A i \in 1..Len(up) : up'[i] = up[i]
      BY <1>1, <2>3
    <3>2. ASSUME NEW i \in 1..Len(up'), up'[i] = 0
          PROVE  stopFlag' = 1 /\ ZeroNext' /\ ZerosFrom(i)'
      BY <1>0, <2>1, <3>1, <3>2 DEF Zeros, ZeroNext, ZerosFrom
    <3>3. ASSUME cam' = "stopped"
          PROVE  stopFlag' = 1 /\ ZeroNext' /\ ZerosFrom(1)'
      BY <1>0, <2>1, <3>1, <3>3 DEF Zeros, ZeroNext, ZerosFrom
    <3>4. QED
      BY <1>0, <2>1, <3>2, <3>3 DEF Zeros
  <2>4. QED
    BY <2>1, <2>2, <2>3
<1>10. CASE CamRequest \/ CamPass
  BY <1>0, <1>1, <1>10, ZerosSame DEF CamRequest, CamPass, mcuVars
<1>11. CASE UNCHANGED <<cam, up, sr04, stopFlag>>
  BY <1>0, <1>1, <1>11, ZerosSame
<1>12. QED
  BY <1>2, <1>3, <1>4, <1>5, <1>6, <1>7, <1>8, <1>9, <1>10, <1>11
  DEF Next, vars, Camera, Decoder, Infrared, Sensor, GateMain, camVars,
      mcuVars, LoseRequest, DecSignal, IrTake, IrTest, IrWrite, IrDelay,
      LoseIr, GateReceive, GateOpen, GateGo, GateClear, GateClose

(* If no distance is sent as zero, the rover passes only a gate that has   *)
(* been opened, whatever is lost or late and whenever the sensor dies.     *)
THEOREM GatePasses == ASSUME NoZero PROVE Spec => []PassAfterOpen
<1>1. Init => Zeros
  BY InitZeros
<1>2. TypeOK /\ NoAnswer /\ Zeros /\ [Next]_vars => Zeros'
  BY StepZeros
<1>3. Zeros => PassAfterOpen
  BY DEF Zeros, PassAfterOpen
<1>4. QED
  BY <1>1, <1>2, <1>3, InitType, StepType, InitNoAnswer, StepNoAnswer, PTL DEF Spec
=============================================================================
