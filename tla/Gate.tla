-------------------------------- MODULE Gate --------------------------------
(***************************************************************************)
(* The gate protocol.  In state_5 the OpenMV camera (main.py) asks the     *)
(* STM32 for the gate and waits until the stream of distance bytes turns   *)
(* to zero, stops, and goes on when the stream shows a distance again.     *)
(* On the STM32 commu_decoder_th raises stop_flag, infrared_th repeats the *)
(* infrared request while it is up, the infrared receive callback lowers   *)
(* it at the answer 0x22, and sr04_th sends zero instead of the distance   *)
(* while it is up.  The gate (mbed/main.cpp) opens at the last byte of a   *)
(* request, answers, and closes again.                                     *)
(*                                                                         *)
(* Sleeping (pyb.delay, rt_thread_mdelay, thread_sleep_for) is a step that *)
(* takes any time, unless Timed says that the sleeps keep the order their  *)
(* lengths impose: 100 ms of sr04_th, 2 s of the gate before it answers,   *)
(* 4 s of its whole cycle, 5 s between two infrared requests.              *)
(* The infrared modules turn FA F1 x y z into the three bytes x y z at the *)
(* other side and an F1 at their own.                                      *)
(***************************************************************************)
EXTENDS ByteFifo

CONSTANTS
  Distances,    \* distances in cm the HC-SR04 may report
  UpCap,        \* unread bytes the UART of the OpenMV can hold
  IrCap,        \* bytes the receive buffer of uart2 can hold
  Timed,        \* the sleeps take the time they say
  Cached,       \* programs whose build keeps their plain flag in a register
  MaxReqLost,   \* bound: gate requests lost between OpenMV and decoder
  MaxIrLost,    \* bound: infrared bytes lost
  MaxLate,      \* bound: late interrupts of uart2
  MaxFail       \* bound: failed reads of the distance sensor

DIS_CONST == 35
Code == <<34, 51, 68>>          \* 0x22 0x33 0x44
Echo == 241                     \* 0xF1

ASSUME GateAssumption ==
  /\ Distances \subseteq 0..6553 /\ Distances # {}
  /\ UpCap \in Nat \ {0} /\ IrCap \in Nat \ {0}
  /\ Timed \in BOOLEAN
  /\ Cached \subseteq {"rover", "gate"}
  /\ MaxReqLost \in Nat /\ MaxIrLost \in Nat /\ MaxLate \in Nat /\ MaxFail \in Nat

VARIABLES
  cam,        \* where state_5, state_6 and state_7 are
  request,    \* a gate request is on its way to the decoder
  up,         \* distance bytes the OpenMV has not read
  decoder,    \* "idle" or "flag": semaphore released, stop_flag not yet up
  semIr,      \* sem_infrared
  stopFlag,   \* stop_flag
  irThread,   \* infrared_th
  irRing,     \* receive buffer of uart2
  sr04,       \* sr04_th: [pc, cm, byte]
  periods,    \* bytes sr04_th has written in the gate's sleep, up to 2
  toGate, toRover,   \* infrared bytes in flight
  servo,      \* "open" or "closed"
  sendFlag,   \* send_flag of the gate
  main        \* where the loop of the gate is

VARIABLES
  opened,     \* the gate has been opened
  reqLost, irLost, late, fails

counters == <<reqLost, irLost, late, fails>>
camVars  == <<cam, request, up>>
mcuVars  == <<decoder, semIr, stopFlag, irThread, irRing, sr04, periods>>
gateVars == <<servo, sendFlag, main, opened>>
vars == <<camVars, mcuVars, toGate, toRover, gateVars, counters>>

DistanceByte(cm) == cm % 256    \* send_data = (uint8_t)(distance / 10)

(* state_5 is entered with whatever distance bytes piled up before.        *)
Init ==
  /\ cam = "approach" /\ request = FALSE
  /\ up \in UNION { [1..n -> {DistanceByte(cm) : cm \in Distances}] : n \in 0..2 }
  /\ decoder = "idle" /\ semIr = 0 /\ stopFlag = 0 /\ irThread = "take"
  /\ irRing = << >> /\ sr04 = [pc |-> "sleep", cm |-> 0, byte |-> 0]
  /\ periods = 0 /\ toGate = << >> /\ toRover = << >>
  /\ servo = "closed" /\ sendFlag = FALSE /\ main = "loop" /\ opened = FALSE
  /\ reqLost = 0 /\ irLost = 0 /\ late = 0 /\ fails = 0
-----------------------------------------------------------------------------
(* The camera.  send_sp, the two seconds' drive and send_gate.             *)
CamRequest ==
  /\ cam = "approach"
  /\ cam' = "await"
  /\ request' = TRUE
  /\ UNCHANGED <<up, mcuVars, toGate, toRover, gateVars, counters>>

LoseRequest ==
  /\ request /\ reqLost < MaxReqLost
  /\ request' = FALSE
  /\ reqLost' = reqLost + 1
  /\ UNCHANGED <<cam, up, mcuVars, toGate, toRover, gateVars, irLost, late, fails>>

(* The loop that ends at a zero byte; the wheels are still driven.         *)
CamAwait ==
  /\ cam = "await" /\ up # << >>
  /\ up' = Tail(up)
  /\ cam' = IF Head(up) = 0 THEN "stopped" ELSE "await"
  /\ UNCHANGED <<request, mcuVars, toGate, toRover, gateVars, counters>>

(* One byte per frame.                                                     *)
CamPoll ==
  /\ cam = "stopped" /\ up # << >>
  /\ up' = Tail(up)
  /\ cam' = IF Head(up) < DIS_CONST THEN "stopped" ELSE "pass"
  /\ UNCHANGED <<request, mcuVars, toGate, toRover, gateVars, counters>>

(* state_6 drives for five seconds, state_7 stops for good.                *)
CamPass ==
  /\ cam = "pass"
  /\ cam' = "finished"
  /\ UNCHANGED <<request, up, mcuVars, toGate, toRover, gateVars, counters>>
-----------------------------------------------------------------------------
(* The decoder, case 1 with 0x01.                                          *)
DecSignal ==
  /\ request /\ decoder = "idle"
  /\ request' = FALSE
  /\ semIr' = semIr + 1
  /\ decoder' = "flag"
  /\ UNCHANGED <<cam, up, stopFlag, irThread, irRing, sr04, periods, toGate, toRover,
                 gateVars, counters>>

DecFlag ==
  /\ decoder = "flag"
  /\ stopFlag' = 1
  /\ decoder' = "idle"
  /\ UNCHANGED <<camVars, semIr, irThread, irRing, sr04, periods, toGate, toRover,
                 gateVars, counters>>

(* infrared_th has the lowest priority of the applications: it runs only   *)
(* when the decoder and the sensor thread do not.                          *)
Idle20 == decoder = "idle" /\ sr04.pc \in {"sleep", "exited"}

(* Slip: sem_infrared is taken without waiting.                            *)
TakeWithoutWaiting ==
  /\ Idle20 /\ irThread = "take"
  /\ semIr' = semIr - 1
  /\ irThread' = "test"
  /\ UNCHANGED <<camVars, decoder, stopFlag, irRing, sr04, periods, toGate, toRover,
                 gateVars, counters>>

IrTake ==
  /\ Idle20 /\ irThread = "take" /\ semIr > 0
  /\ semIr' = semIr - 1
  /\ irThread' = "test"
  /\ UNCHANGED <<camVars, decoder, stopFlag, irRing, sr04, periods, toGate, toRover,
                 gateVars, counters>>

(* if (stop_flag): the flag is not volatile, so a build may load it once.  *)
IrTest ==
  /\ Idle20 /\ irThread = "test"
  /\ irThread' = IF stopFlag = 1 THEN "write"
                 ELSE IF "rover" \in Cached THEN "spins" ELSE "test"
  /\ UNCHANGED <<camVars, decoder, semIr, stopFlag, irRing, sr04, periods,
                 toGate, toRover, gateVars, counters>>

IrWrite ==
  /\ Idle20 /\ irThread = "write"
  /\ toGate' = toGate \o Code
  /\ toRover' = Append(toRover, Echo)
  /\ irThread' = "delay"
  /\ UNCHANGED <<camVars, decoder, semIr, stopFlag, irRing, sr04, periods,
                 gateVars, counters>>

(* Slip: one request per token, no repetition.                             *)
DelayThenTake ==
  /\ irThread = "delay" /\ toGate = << >> /\ toRover = << >>
  /\ Timed => main \in {"loop", "spins"} /\ ~sendFlag
  /\ irThread' = "take"
  /\ UNCHANGED <<camVars, decoder, semIr, stopFlag, irRing, sr04, periods,
                 toGate, toRover, gateVars, counters>>

(* Five seconds later everything sent before has been received or lost.    *)
IrDelay ==
  /\ irThread = "delay" /\ toGate = << >> /\ toRover = << >>
  /\ Timed => main \in {"loop", "spins"} /\ ~sendFlag
  /\ irThread' = "test"
  /\ UNCHANGED <<camVars, decoder, semIr, stopFlag, irRing, sr04, periods,
                 toGate, toRover, gateVars, counters>>

(* Slip: any byte counts as the answer, the module's echo too.             *)
ReceiveAny ==
  /\ toRover # << >>
  /\ toRover' = Tail(toRover)
  /\ stopFlag' = 0
  /\ UNCHANGED <<camVars, decoder, semIr, irThread, irRing, sr04, periods, toGate,
                 gateVars, counters>>

(* The interrupt of uart2 stores one byte, or two if it was late, and calls*)
(* infrared_rx_callback once, which reads one byte.                        *)
IrReceive ==
  \E n \in {1, 2} :
    /\ Len(toRover) >= n /\ late + n - 1 <= MaxLate
    /\ late' = late + n - 1
    /\ toRover' = SubSeq(toRover, n + 1, Len(toRover))
    /\ LET one  == Put(irRing, toRover[1], IrCap)
           ring == IF n = 1 THEN one ELSE Put(one, toRover[2], IrCap)
       IN  /\ irRing' = Tail(ring)
           /\ stopFlag' = IF Head(ring) = Code[1] THEN 0 ELSE stopFlag
    /\ UNCHANGED <<camVars, decoder, semIr, irThread, sr04, periods, toGate,
                   gateVars, reqLost, irLost, fails>>
-----------------------------------------------------------------------------
(* sr04_th: measure, look at stop_flag, write one byte, sleep 100 ms.  The *)
(* loop of state_5 has read every byte by then.                            *)
Sr04Measure(cm) ==
  /\ sr04.pc = "sleep"
  /\ Timed /\ cam = "await" => up = << >>
  /\ sr04' = [pc |-> "test", cm |-> cm, byte |-> DistanceByte(cm)]
  /\ UNCHANGED <<camVars, decoder, semIr, stopFlag, irThread, irRing, periods,
                 toGate, toRover, gateVars, counters>>

(* A failed read ends the thread.                                          *)
Sr04Fail ==
  /\ sr04.pc = "sleep" /\ fails < MaxFail
  /\ fails' = fails + 1
  /\ sr04' = [sr04 EXCEPT !.pc = "exited"]
  /\ UNCHANGED <<camVars, decoder, semIr, stopFlag, irThread, irRing, periods,
                 toGate, toRover, gateVars, reqLost, irLost, late>>

Sr04Test ==
  /\ sr04.pc = "test"
  /\ sr04' = [sr04 EXCEPT !.pc = "write",
                          !.byte = IF stopFlag = 1 THEN 0 ELSE @]
  /\ UNCHANGED <<camVars, decoder, semIr, stopFlag, irThread, irRing, periods,
                 toGate, toRover, gateVars, counters>>

(* The camera's UART discards a byte that finds its buffer full.           *)
Sr04Write ==
  /\ sr04.pc = "write"
  /\ up' = IF Len(up) < UpCap THEN Append(up, sr04.byte) ELSE up
  /\ sr04' = [pc |-> "sleep", cm |-> 0, byte |-> 0]
  /\ periods' = IF periods < 2 THEN periods + 1 ELSE 2
  /\ UNCHANGED <<cam, request, decoder, semIr, stopFlag, irThread, irRing,
                 toGate, toRover, gateVars, counters>>
-----------------------------------------------------------------------------
(* The air.                                                                *)
LoseIr ==
  /\ irLost < MaxIrLost
  /\ irLost' = irLost + 1
  /\ \/ toGate # << >> /\ toGate' = Tail(toGate) /\ UNCHANGED toRover
     \/ toRover # << >> /\ toRover' = Tail(toRover) /\ UNCHANGED toGate
  /\ UNCHANGED <<camVars, mcuVars, gateVars, reqLost, late, fails>>

(* The gate: rx_irp2.                                                      *)
GateReceive ==
  /\ toGate # << >>
  /\ toGate' = Tail(toGate)
  /\ sendFlag' = (sendFlag \/ Head(toGate) = Code[3])
  /\ UNCHANGED <<camVars, mcuVars, toRover, servo, main, opened, counters>>

(* The loop of main: open, sleep 2 s, send_go, lower the flag, sleep 2 s,  *)
(* close.  An interrupt may come between any two of these.                 *)
GateOpen ==
  /\ main = "loop"
  /\ IF sendFlag
     THEN main' = "go" /\ servo' = "open" /\ opened' = TRUE /\ periods' = 0
     ELSE /\ main' = IF "gate" \in Cached THEN "spins" ELSE "loop"
          /\ UNCHANGED <<servo, opened, periods>>
  /\ UNCHANGED <<camVars, decoder, semIr, stopFlag, irThread, irRing, sr04,
                 toGate, toRover, sendFlag, counters>>

GateGo ==
  /\ main = "go"
  /\ Timed => periods = 2 \/ sr04.pc = "exited"
  /\ main' = "clear"
  /\ toRover' = toRover \o Code
  /\ UNCHANGED <<camVars, mcuVars, toGate, servo, sendFlag, opened, counters>>

GateClear ==
  /\ main = "clear"
  /\ main' = "close"
  /\ sendFlag' = FALSE
  /\ UNCHANGED <<camVars, mcuVars, toGate, toRover, servo, opened, counters>>

GateClose ==
  /\ main = "close"
  /\ main' = "loop"
  /\ servo' = "closed"
  /\ UNCHANGED <<camVars, mcuVars, toGate, toRover, sendFlag, opened, counters>>
-----------------------------------------------------------------------------
Camera   == CamRequest \/ CamAwait \/ CamPoll \/ CamPass
Decoder  == DecSignal \/ DecFlag
Infrared == IrTake \/ IrTest \/ IrWrite \/ IrDelay
Sensor   == (\E cm \in Distances : Sr04Measure(cm)) \/ Sr04Test \/ Sr04Write
GateMain == GateOpen \/ GateGo \/ GateClear \/ GateClose

Next ==
  \/ Camera \/ LoseRequest \/ Decoder \/ Infrared \/ IrReceive
  \/ Sensor \/ Sr04Fail \/ LoseIr \/ GateReceive \/ GateMain

Spec == Init /\ [][Next]_vars

(* Every program keeps running, and infrared_th gets the processor whenever*)
(* the other threads sleep, which they do again and again.                 *)
Fairness ==
  /\ WF_vars(Camera) /\ WF_vars(Decoder) /\ WF_vars(Sensor)
  /\ SF_vars(Infrared) /\ WF_vars(IrReceive)
  /\ WF_vars(GateReceive) /\ WF_vars(GateMain)

Near == \E cm \in Distances : DistanceByte(cm) < DIS_CONST /\ Sr04Measure(cm)

(* The way is not blocked for ever.                                        *)
WayClears == <>[][~Near]_vars

FairSpec == Spec /\ Fairness /\ WayClears
-----------------------------------------------------------------------------
TypeOK ==
  /\ cam \in {"approach", "await", "stopped", "pass", "finished"}
  /\ request \in BOOLEAN
  /\ up \in Seq(0..255) /\ irRing \in Seq(0..255)
  /\ decoder \in {"idle", "flag"} /\ semIr \in Nat /\ stopFlag \in {0, 1}
  /\ irThread \in {"take", "test", "write", "delay", "spins"}
  /\ sr04 \in [pc : {"sleep", "test", "write", "exited"}, cm : Nat, byte : 0..255]
  /\ periods \in 0..2
  /\ toGate \in Seq(0..255) /\ toRover \in Seq(0..255)
  /\ servo \in {"open", "closed"} /\ sendFlag \in BOOLEAN
  /\ main \in {"loop", "go", "clear", "close", "spins"} /\ opened \in BOOLEAN
  /\ reqLost \in Nat /\ irLost \in Nat /\ late \in Nat /\ fails \in Nat

(* The rover goes through the gate only after the gate was opened, whatever*)
(* is lost, however late the bytes the camera reads are and whenever the   *)
(* sensor dies: nothing but the answer of the gate turns the zeros back    *)
(* into distances.                                                         *)
PassAfterOpen == cam \in {"pass", "finished"} => opened

(* The servo opens before the answer is in the air, and the answer before  *)
(* stop_flag falls: stop_flag is lowered only by an open gate's answer.    *)
LoweredByGate == [][stopFlag = 1 /\ stopFlag' = 0 => opened]_vars

(* The rover gets through the gate although infrared bytes are lost: the   *)
(* request is repeated until an answer arrives.                            *)
RoverPasses == <>(cam = "finished")
=============================================================================
