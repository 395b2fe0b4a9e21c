----------------------------- MODULE CommuLink ------------------------------
(***************************************************************************)
(* The command path of the rover: the OpenMV camera writes speed packets   *)
(* and gate requests to the UART (send_sp, send_gate in main.py); the      *)
(* uart3 interrupt puts each byte in the receive buffer and releases       *)
(* sem_decoder (serial.c, rx_callback in commu.c); commu_decoder_th parses *)
(* the bytes and releases sem_motorctrl or sem_infrared; motor_ctrl_th     *)
(* reads sp_data and sets the two PWM channels of the wheels (motor.c).    *)
(*                                                                         *)
(* The decoder and motor threads have the same priority and are            *)
(* time-sliced, so they interleave between any two accesses to sp_data.    *)
(***************************************************************************)
EXTENDS ByteFifo, SpeedCodec, FiniteSets

CONSTANTS
  Cmds,       \* the packets <<l, l/100, r, r/100>> that send_sp writes
  RxCap,      \* bytes the receive buffer of uart3 can hold
  SemMax,     \* RT_SEM_VALUE_MAX: a release beyond it is refused and ignored
  MaxCmds,    \* bound: speed packets sent in a behaviour
  MaxGates,   \* bound: gate requests sent in a behaviour
  MaxLost     \* bound: bytes lost on the wire in a behaviour

ASSUME LinkAssumption ==
  /\ Cmds \subseteq [1..4 -> 0..100]
  /\ RxCap \in Nat \ {0}
  /\ SemMax \in Nat \ {0}
  /\ MaxCmds \in Nat /\ MaxGates \in Nat /\ MaxLost \in Nat

VARIABLES
  wire,       \* bytes written by the OpenMV, not yet received
  ring,       \* unread content of the receive buffer of uart3
  sem,        \* values of sem_decoder, sem_motorctrl and sem_infrared
  dec,        \* decoder thread: [pc, step, buf]: buf is Rx_buffer[0..index-1]
  spData,     \* the shared sp_data
  stopFlag,   \* the shared stop_flag
  mot,        \* motor thread: [pc, got, pulse]: got is what it read of sp_data
  pwm         \* compare registers of channels 2 (right) and 3 (left)

(* History of a behaviour, written by the actions and never read by them.  *)
VARIABLES
  sent,       \* the packets sent, in order
  gates,      \* gate requests sent
  lost,       \* bytes lost, on the wire or pushed out of the ring
  pristine,   \* packets sent since the last loss
  copies,     \* packets copied into sp_data
  versions    \* [got, pwm]: which copy each byte read, and applied, is from

progVars == <<wire, ring, sem, dec, spData, stopFlag, mot, pwm>>
histVars == <<sent, gates, lost, pristine, copies, versions>>
vars == <<progVars, histVars>>

Header == 170
SpeedTag == 85
GateTag == 1

SpeedFrame(c) == <<Header, SpeedTag>> \o c
GateFrame == <<Header, GateTag>>

Zero4 == <<0, 0, 0, 0>>

(* rt_sem_release on a semaphore nobody waits for; a waiter that is resumed*)
(* directly is the release followed by its take.                           *)
Released(value) == IF value < SemMax THEN value + 1 ELSE value

Init ==
  /\ wire = << >> /\ ring = << >>
  /\ sem = [decoder |-> 0, motor |-> 0, infrared |-> 0]
  /\ dec = [pc |-> "read", step |-> 0, buf |-> << >>]
  /\ spData = Zero4
  /\ stopFlag = 0
  /\ mot = [pc |-> "set", got |-> << >>, pulse |-> <<0, 0>>]
  /\ pwm = <<0, 0>>
  /\ sent = << >> /\ gates = 0 /\ lost = 0 /\ pristine = 2 /\ copies = 0
  /\ versions = [got |-> << >>, pwm |-> Zero4]
-----------------------------------------------------------------------------
(* The OpenMV.  One thread writes and writechar blocks until its byte is   *)
(* out, so frames do not overlap on the wire.                              *)
SendSp(c) ==
  /\ Len(sent) < MaxCmds /\ wire = << >>
  /\ wire' = SpeedFrame(c)
  /\ sent' = Append(sent, c)
  /\ pristine' = IF pristine < 2 THEN pristine + 1 ELSE 2
  /\ UNCHANGED <<ring, sem, dec, spData, stopFlag, mot, pwm,
                 gates, lost, copies, versions>>

SendGate ==
  /\ gates < MaxGates /\ wire = << >>
  /\ wire' = GateFrame
  /\ gates' = gates + 1
  /\ UNCHANGED <<ring, sem, dec, spData, stopFlag, mot, pwm,
                 sent, lost, pristine, copies, versions>>

(* An overrun of the one-byte UART data register: uart_isr clears ORE and  *)
(* the byte is gone.                                                       *)
LoseByte ==
  /\ wire # << >> /\ lost < MaxLost
  /\ wire' = Tail(wire)
  /\ lost' = lost + 1
  /\ pristine' = 0
  /\ UNCHANGED <<ring, sem, dec, spData, stopFlag, mot, pwm,
                 sent, gates, copies, versions>>

(* rt_hw_serial_isr calls rx_indicate when the buffer holds something after*)
(* the byte is stored.  (IndicateStale, a slip: before it is stored.)      *)
IndicateStale == ring # << >>
Indicate == Len(ring') # 0

(* The receive interrupt: rt_hw_serial_isr stores the byte and calls       *)
(* rx_callback.                                                            *)
RxIsr ==
  /\ wire # << >>
  /\ wire' = Tail(wire)
  /\ ring' = Put(ring, Head(wire), RxCap)
  /\ sem' = [sem EXCEPT !.decoder = IF Indicate THEN Released(@) ELSE @]
  /\ IF Len(ring) < RxCap
     THEN UNCHANGED <<lost, pristine>>
     ELSE lost' = lost + 1 /\ pristine' = 0
  /\ UNCHANGED <<dec, spData, stopFlag, mot, pwm, sent, gates, copies, versions>>
-----------------------------------------------------------------------------
(* commu_decoder_th: the switch on RecCmd_Step.  NextStep is RecCmd_Step   *)
(* after a header or a tag byte that completes nothing, and Completes says *)
(* that the byte at hand fills Rx_buffer.  (NextStepKeeps, a slip: an      *)
(* unknown tag leaves RecCmd_Step alone; CompletesEarly: index == 3.)      *)
NextStepKeeps(step, b) == IF step = 0 THEN IF b = Header THEN 1 ELSE 0
                                      ELSE IF b = SpeedTag THEN 2 ELSE step

NextStep(step, b) == IF step = 0 THEN IF b = Header THEN 1 ELSE 0
                                 ELSE IF b = SpeedTag THEN 2 ELSE 0

CompletesEarly(buf) == Len(buf) = 2
Completes(buf) == Len(buf) = 3

DecoderParse(b) ==
  \/ /\ dec.step < 2 /\ ~(dec.step = 1 /\ b = GateTag)
     /\ dec' = [dec EXCEPT !.step = NextStep(dec.step, b)]
  \/ /\ dec.step = 1 /\ b = GateTag
     /\ dec' = [dec EXCEPT !.pc = "signal"]
  \/ /\ dec.step = 2
     /\ dec' = [pc   |-> IF Completes(dec.buf) THEN "copy" ELSE "read",
                step |-> 2,
                buf  |-> Append(dec.buf, b)]

(* Reading a byte and the switch are one step up to the first access to    *)
(* something shared.                                                       *)
DecoderRead ==
  /\ dec.pc = "read" /\ ring # << >>
  /\ ring' = Tail(ring)
  /\ DecoderParse(Head(ring))
  /\ UNCHANGED <<wire, sem, spData, stopFlag, mot, pwm, histVars>>

DecoderEmpty ==
  /\ dec.pc = "read" /\ ring = << >>
  /\ dec' = [dec EXCEPT !.pc = "take"]
  /\ UNCHANGED <<wire, ring, sem, spData, stopFlag, mot, pwm, histVars>>

DecoderTake ==
  /\ dec.pc = "take" /\ sem.decoder > 0
  /\ sem' = [sem EXCEPT !.decoder = @ - 1]
  /\ dec' = [dec EXCEPT !.pc = "read"]
  /\ UNCHANGED <<wire, ring, spData, stopFlag, mot, pwm, histVars>>

(* memcpy(sp_data, Rx_buffer, 4): one word copy on the Cortex-M3.          *)
DecoderCopy ==
  /\ dec.pc = "copy"
  /\ spData' = dec.buf
  /\ copies' = copies + 1
  /\ dec' = [dec EXCEPT !.pc = "release"]
  /\ UNCHANGED <<wire, ring, sem, stopFlag, mot, pwm,
                 sent, gates, lost, pristine, versions>>

(* RecCmd_Step = index = 0.  (IndexKept, a slip: index is not reset.)      *)
IndexKept == [pc |-> "read", step |-> 0, buf |-> dec.buf]
Restarted == [pc |-> "read", step |-> 0, buf |-> << >>]

DecoderRelease ==
  /\ dec.pc = "release"
  /\ sem' = [sem EXCEPT !.motor = Released(@)]
  /\ dec' = Restarted
  /\ UNCHANGED <<wire, ring, spData, stopFlag, mot, pwm, histVars>>

(* The gate request: release sem_infrared, then raise stop_flag.           *)
DecoderSignal ==
  /\ dec.pc = "signal"
  /\ sem' = [sem EXCEPT !.infrared = Released(@)]
  /\ dec' = [dec EXCEPT !.pc = "flag"]
  /\ UNCHANGED <<wire, ring, spData, stopFlag, mot, pwm, histVars>>

(* Slip: the request is signalled but stop_flag stays down.                *)
FlagForgotten ==
  /\ dec.pc = "flag"
  /\ dec' = [pc |-> "read", step |-> 0, buf |-> dec.buf]
  /\ UNCHANGED <<wire, ring, sem, spData, stopFlag, mot, pwm, histVars>>

DecoderFlag ==
  /\ dec.pc = "flag"
  /\ stopFlag' = 1
  /\ dec' = [pc |-> "read", step |-> 0, buf |-> dec.buf]
  /\ UNCHANGED <<wire, ring, sem, spData, mot, pwm, histVars>>

(* infrared_rx_callback, here only as the writer that lowers stop_flag.    *)
GateOpened ==
  /\ stopFlag = 1
  /\ stopFlag' = 0
  /\ UNCHANGED <<wire, ring, sem, dec, spData, mot, pwm, histVars>>
-----------------------------------------------------------------------------
(* motor_ctrl_th.  Each element of sp_data is a load of its own.           *)
MotorSet ==
  /\ mot.pc = "set"
  /\ pwm' = << Compare(mot.pulse[1]), Compare(mot.pulse[2]) >>
  /\ mot' = [pc |-> "take", got |-> << >>, pulse |-> mot.pulse]
  /\ versions' = [got |-> << >>,
                  pwm |-> IF versions.got = << >> THEN versions.pwm
                                                  ELSE versions.got]
  /\ UNCHANGED <<wire, ring, sem, dec, spData, stopFlag,
                 sent, gates, lost, pristine, copies>>

MotorTake ==
  /\ mot.pc = "take" /\ sem.motor > 0
  /\ sem' = [sem EXCEPT !.motor = @ - 1]
  /\ mot' = [mot EXCEPT !.pc = "load"]
  /\ UNCHANGED <<wire, ring, dec, spData, stopFlag, pwm, histVars>>

(* Slip: sp_data is read from its end.                                     *)
LoadBackwards ==
  /\ mot.pc = "load" /\ Len(mot.got) < 4
  /\ mot' = [mot EXCEPT !.got = <<spData[4 - Len(@)]>> \o @]
  /\ versions' = [versions EXCEPT !.got = <<copies>> \o @]
  /\ UNCHANGED <<wire, ring, sem, dec, spData, stopFlag, pwm,
                 sent, gates, lost, pristine, copies>>

MotorLoad ==
  /\ mot.pc = "load" /\ Len(mot.got) < 4
  /\ mot' = [mot EXCEPT !.got = Append(@, spData[Len(@) + 1])]
  /\ versions' = [versions EXCEPT !.got = Append(@, copies)]
  /\ UNCHANGED <<wire, ring, sem, dec, spData, stopFlag, pwm,
                 sent, gates, lost, pristine, copies>>

(* Slip: the tokens of packets that came meanwhile are thrown away.        *)
ConvertDrains ==
  /\ mot.pc = "load" /\ Len(mot.got) = 4
  /\ mot' = [pc    |-> "set",
             got   |-> mot.got,
             pulse |-> << PulseNs(mot.got[3], mot.got[4]),
                          PulseNs(mot.got[1], mot.got[2]) >>]
  /\ sem' = [sem EXCEPT !.motor = 0]
  /\ UNCHANGED <<wire, ring, dec, spData, stopFlag, pwm, histVars>>

MotorConvert ==
  /\ mot.pc = "load" /\ Len(mot.got) = 4
  /\ mot' = [pc    |-> "set",
             got   |-> mot.got,
             pulse |-> << PulseNs(mot.got[3], mot.got[4]),
                          PulseNs(mot.got[1], mot.got[2]) >>]
  /\ UNCHANGED <<wire, ring, sem, dec, spData, stopFlag, pwm, histVars>>
-----------------------------------------------------------------------------
Camera  == (\E c \in Cmds : SendSp(c)) \/ SendGate
Decoder == \/ DecoderRead \/ DecoderEmpty \/ DecoderTake \/ DecoderCopy
           \/ DecoderRelease \/ DecoderSignal \/ DecoderFlag
Motor   == MotorSet \/ MotorTake \/ MotorLoad \/ MotorConvert

Next == Camera \/ LoseByte \/ RxIsr \/ Decoder \/ GateOpened \/ Motor

(* The interrupt is taken when its byte is there, and the two threads share*)
(* the highest ready priority by time slices.                              *)
Fairness == WF_vars(RxIsr) /\ WF_vars(Decoder) /\ WF_vars(Motor)

Spec == Init /\ [][Next]_vars
FairSpec == Spec /\ Fairness
-----------------------------------------------------------------------------
LinkTypes ==
  /\ wire \in Seq(Byte) /\ ring \in Seq(Byte)
  /\ sem \in [decoder : 0..SemMax, motor : 0..SemMax, infrared : 0..SemMax]

DecoderTypes ==
  /\ dec \in [pc : {"read", "take", "copy", "release", "signal", "flag"},
             step : 0..2, buf : Seq(Byte)]
  /\ dec.pc \in {"copy", "release"} => Len(dec.buf) = 4
  /\ dec.pc \notin {"copy", "release"} => Len(dec.buf) < 4
  /\ stopFlag \in {0, 1}

MotorTypes ==
  /\ spData \in [1..4 -> Byte]
  /\ mot \in [pc : {"set", "take", "load"}, got : Seq(Byte), pulse : Nat \X Nat]
  /\ Len(mot.got) <= 4
  /\ pwm \in Nat \X Nat

HistoryTypes ==
  /\ sent \in Seq(Cmds) /\ gates \in Nat /\ lost \in Nat
  /\ pristine \in 0..2 /\ copies \in Nat
  /\ versions \in [got : Seq(Nat), pwm : Seq(Nat)]

TypeOK == LinkTypes /\ DecoderTypes /\ MotorTypes /\ HistoryTypes

(* The decoder never sleeps on an unread byte: whenever it is blocked in   *)
(* rt_sem_take(sem_decoder) with bytes in the receive buffer, a token of   *)
(* rx_callback is waiting for it, even after releases were refused because *)
(* the semaphore was at its maximum.                                       *)
NoLostWakeup == dec.pc = "take" /\ ring # << >> => sem.decoder > 0

(* A torn read of sp_data is always repaired: whenever motor_ctrl_th waits *)
(* for sem_motorctrl, no token is pending and the decoder is not between   *)
(* its memcpy and its release, the wheels run at the speeds of the packet  *)
(* that is in sp_data.                                                     *)
Settled ==
  mot.pc = "take" /\ sem.motor = 0 /\ dec.pc # "release" => pwm = Duty(spData)

(* One lost byte never makes the decoder see a gate request that was not   *)
(* sent, although hundredths bytes may equal the gate tag: sem_infrared is *)
(* released and stop_flag raised at most once per request.                 *)
NoForgedGate ==
  lost <= 1 => /\ sem.infrared + (IF dec.pc = "signal" THEN 1 ELSE 0) <= gates
               /\ stopFlag = 1 \/ dec.pc = "flag" => gates > 0

AllConsumed == wire = << >> /\ ring = << >> /\ dec.pc = "take"

(* The decoder resynchronises: once two packets have been sent after the   *)
(* last loss and everything is consumed, sp_data holds the last packet.    *)
(* (One packet is not enough: its header may complete the damaged one.)    *)
Resync ==
  AllConsumed /\ pristine >= 2 /\ sent # << >> => spData = sent[Len(sent)]

(* Commands are neither reordered nor invented while nothing is lost: the  *)
(* n-th copy into sp_data is the n-th packet sent.                         *)
InOrder ==
  lost = 0 => spData = IF copies = 0 THEN Zero4 ELSE sent[copies]

(* The wheels end up at the last speed sent, whatever the interleaving of  *)
(* the interrupt and the two threads, if the last two packets were sent    *)
(* after the last loss: the stop packets of state 7 do stop the rover.     *)
LastCommandWins ==
  <>[](pristine >= 2 /\ sent # << >> => pwm = Duty(sent[Len(sent)]))

(* A gate request that loses no byte raises stop_flag.                     *)
GateRequestArrives ==
  (gates > 0 /\ sem.infrared = 0) ~> (stopFlag = 1 \/ lost > 0)

(* The link implements the register of the newest command, for as long as  *)
(* no byte is lost.                                                        *)
Register == INSTANCE CommandRegister
              WITH history <- sent, version <- versions.pwm, out <- pwm
RegisterSpec ==
  Register!Init /\ [][lost' = 0 => [Register!Next]_(Register!cvars)]_vars
=============================================================================
