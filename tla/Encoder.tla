------------------------------ MODULE Encoder -------------------------------
(***************************************************************************)
(* A wheel encoder: encoder_th (applications/encoder.c), the driver        *)
(* (drivers/drv_pulse_encoder.c) and the timer that counts the pulses of   *)
(* the wheel.  The timer counts modulo Reload + 1 and notes a wrap in its  *)
(* update flag, which has no interrupt of its own: the handler finds it    *)
(* when a capture, the rising edge of one of the two signals, calls it.    *)
(* The wheel turns at any moment, and the handler interrupts encoder_th.   *)
(* The thread treats its two wheels alike, one after the other; this is    *)
(* one of them, and the count of the other is normal or not.               *)
(***************************************************************************)
EXTENDS Integers

CONSTANTS
  Reload,       \* AUTO_RELOAD_VALUE
  Threshold,    \* PULSE_COUNT_THRESHOLD
  MaxMoves      \* bound: the pulses from one clearing to the next

(* A wheel is far too slow to go once around the counter in 100 ms.        *)
ASSUME EncoderAssumption ==
  /\ Reload \in Nat /\ Threshold \in Nat \ {0} /\ MaxMoves \in Nat
  /\ MaxMoves + Threshold < Reload

VARIABLES
  tim,        \* the timer: [cnt, up (DIR), uif, cc (a capture is pending)]
  phase,      \* of the two signals of the encoder, modulo 4
  flow,       \* over_under_flowcount
  isr,        \* where pulse_encoder_update_isr is: "off" outside
  pc,         \* where encoder_th is
  loaded,     \* what pulse_encoder_get_count has loaded of CNT and of flow
  count,      \* count_l or count_r
  discarded,  \* whether the last round printed nothing
  moved, moves, crossed,  \* history: the displacement and the pulses since
              \* CNT was cleared; whether CNT wrapped since flow was
  truth       \* history: moved and crossed when the wheel was read, and
              \* whether the count of the other wheel was normal

thread == <<pc, loaded, count, discarded>>
history == <<moved, moves, crossed, truth>>
vars == <<tim, phase, flow, isr, thread, history>>

Empty == [cnt |-> {}, flow |-> {}]       \* nothing, or the value loaded

Init ==
  /\ tim = [cnt |-> 0, up |-> TRUE, uif |-> FALSE, cc |-> FALSE]
  /\ phase \in 0..3
  /\ flow = 0 /\ isr = "off"
  /\ pc = "delay" /\ loaded = Empty /\ count = 0 /\ discarded = FALSE
  /\ moved = 0 /\ moves = 0 /\ crossed = FALSE
  /\ truth = [moved |-> 0, crossed |-> FALSE, other |-> TRUE]
-----------------------------------------------------------------------------
(* One pulse of the wheel: of the four in a turn of the phase two are      *)
(* rising edges, and backwards they are the other two.                     *)
Rises(p, d) == IF d = 1 THEN p \in {0, 1} ELSE p \in {3, 0}

Wraps(cnt, d) == cnt + d \notin 0..Reload

(* Up from Reload to 0, down from 0 to Reload.                             *)
Counted(cnt, d) == IF ~Wraps(cnt, d) THEN cnt + d ELSE IF d = 1 THEN 0 ELSE Reload

Pulse(d) ==
  /\ moves < MaxMoves
  /\ tim' = [cnt |-> Counted(tim.cnt, d), up |-> d = 1,
             uif |-> tim.uif \/ Wraps(tim.cnt, d),
             cc  |-> tim.cc \/ Rises(phase, d)]
  /\ crossed' = (crossed \/ Wraps(tim.cnt, d))
  /\ phase' = (phase + d) % 4
  /\ moved' = moved + d /\ moves' = moves + 1
  /\ UNCHANGED <<flow, isr, thread, truth>>
-----------------------------------------------------------------------------
(* pulse_encoder_update_isr: the update flag, cleared before the direction *)
(* is read; then the capture flags.                                        *)
IsrEnter ==
  /\ isr = "off" /\ tim.cc
  /\ tim' = [tim EXCEPT !.uif = FALSE]
  /\ isr' = IF tim.uif THEN "update" ELSE "captures"
  /\ UNCHANGED <<phase, flow, thread, history>>

IsrUpdate ==
  /\ isr = "update"
  /\ flow' = flow + IF tim.up THEN 1 ELSE -1
  /\ isr' = "captures"
  /\ UNCHANGED <<tim, phase, thread, history>>

IsrCaptures ==
  /\ isr = "captures"
  /\ tim' = [tim EXCEPT !.cc = FALSE]
  /\ isr' = "off"
  /\ UNCHANGED <<phase, flow, thread, history>>
-----------------------------------------------------------------------------
(* encoder_th: it runs when no interrupt does.                             *)
From(here, there) == pc = here /\ isr = "off" /\ pc' = there

(* rt_thread_mdelay(100) is over.                                          *)
Wake ==
  /\ From("delay", "read")
  /\ UNCHANGED <<tim, phase, flow, isr, loaded, count, discarded, history>>

(* pulse_encoder_get_count: C does not say which of the two is loaded first.*)
LoadCounter ==
  /\ From("read", "read") /\ loaded.cnt = {}
  /\ loaded' = [loaded EXCEPT !.cnt = {tim.cnt}]
  /\ truth' = [truth EXCEPT !.moved = moved]
  /\ UNCHANGED <<tim, phase, flow, isr, count, discarded, moved, moves, crossed>>

LoadFlow ==
  /\ From("read", "read") /\ loaded.flow = {}
  /\ loaded' = [loaded EXCEPT !.flow = {flow}]
  /\ UNCHANGED <<tim, phase, flow, isr, count, discarded, history>>

(* The sum of the two; the other wheel is read before or after.            *)
Read ==
  /\ From("read", "clear")
  /\ \E c \in loaded.cnt, f \in loaded.flow : count' = c + f * Reload
  /\ loaded' = Empty
  /\ \E normal \in BOOLEAN :
       truth' = [truth EXCEPT !.crossed = crossed, !.other = normal]
  /\ UNCHANGED <<tim, phase, flow, isr, discarded, moved, moves, crossed>>

(* Slip: the count of the wraps is kept.                                   *)
FlowKept ==
  /\ From("clear", "zero")
  /\ crossed' = tim.uif
  /\ UNCHANGED <<tim, phase, flow, isr, loaded, count, discarded, moved, moves, truth>>

(* pulse_encoder_clear_count.                                              *)
ClearFlow ==
  /\ From("clear", "zero")
  /\ flow' = 0
  /\ crossed' = tim.uif
  /\ UNCHANGED <<tim, phase, isr, loaded, count, discarded, moved, moves, truth>>

(* Slip: the counter itself is kept.                                       *)
CounterKept ==
  /\ From("zero", "judge")
  /\ moved' = 0 /\ moves' = 0
  /\ UNCHANGED <<tim, phase, flow, isr, loaded, count, discarded, crossed, truth>>

ClearCounter ==
  /\ From("zero", "judge")
  /\ tim' = [tim EXCEPT !.cnt = 0]
  /\ moved' = 0 /\ moves' = 0
  /\ UNCHANGED <<phase, flow, isr, loaded, count, discarded, crossed, truth>>

(* Slip: a count that is too low passes.                                   *)
TooHigh == count >= Threshold

Abnormal == count <= -Threshold \/ count >= Threshold

Judge ==
  /\ From("judge", "delay")
  /\ discarded' = (Abnormal \/ ~truth.other)
  /\ UNCHANGED <<tim, phase, flow, isr, loaded, count, history>>
-----------------------------------------------------------------------------
Isr == IsrEnter \/ IsrUpdate \/ IsrCaptures

EncoderTh == Wake \/ LoadCounter \/ LoadFlow \/ Read \/ ClearFlow \/ ClearCounter \/ Judge

Next == (\E d \in {1, -1} : Pulse(d)) \/ Isr \/ EncoderTh

(* Handlers end, and nothing keeps encoder_th, whose priority is 9, away.  *)
Spec == Init /\ [][Next]_vars
FairSpec == Spec /\ WF_vars(Isr) /\ WF_vars(EncoderTh)
-----------------------------------------------------------------------------
TypeOK ==
  /\ tim \in [cnt : 0..Reload, up : BOOLEAN, uif : BOOLEAN, cc : BOOLEAN]
  /\ phase \in 0..3 /\ flow \in Int /\ isr \in {"off", "update", "captures"}
  /\ pc \in {"delay", "read", "clear", "zero", "judge"}
  /\ loaded \in [cnt : SUBSET (0..Reload), flow : SUBSET Int]
  /\ count \in Int /\ discarded \in BOOLEAN
  /\ moved \in -MaxMoves..MaxMoves /\ moves \in 0..MaxMoves
  /\ crossed \in BOOLEAN
  /\ truth \in [moved : -MaxMoves..MaxMoves, crossed : BOOLEAN, other : BOOLEAN]

(* What is printed is where the wheel went, whichever wraps the handler    *)
(* took twice, not at all or in the wrong direction: exactly when forward, *)
(* one pulse short when backward, where a wrap counts Reload.              *)
AcceptedIsTrue ==
  pc = "delay" /\ ~discarded =>
    count = truth.moved + IF truth.moved < 0 THEN 1 ELSE 0

(* A round is discarded for a reason: a wheel was too fast, or has gone    *)
(* through zero since its count was cleared.                               *)
DiscardsHaveCause ==
  pc = "delay" /\ discarded =>
    truth.crossed \/ truth.moved >= Threshold \/ ~truth.other

(* When the wheel stands still it is soon read as standing still, whatever *)
(* flags and counts it left.                                               *)
StandsStill == <>[][UNCHANGED phase]_vars => <>[](count = 0)
=============================================================================
