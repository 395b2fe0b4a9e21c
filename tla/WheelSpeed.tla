----------------------------- MODULE WheelSpeed -----------------------------
(***************************************************************************)
(* One wheel speed on its way from send_sp to the compare register: the    *)
(* camera splits it into two bytes, motor_ctrl_th joins what it received,  *)
(* drv_pwm_set programs the timer.                                         *)
(***************************************************************************)
EXTENDS SpeedCodec, Sequences

CONSTANT Speeds     \* requested speeds, in thousandths of a percent

Full == 100000

ASSUME SpeedsAssumption == Speeds \subseteq 0..Full

VARIABLES
  speed,      \* the speed requested
  bytes,      \* the two bytes of the wheel
  pulse,      \* the pulse width in ns
  compare,    \* the compare register
  stage       \* "camera", "link", "motor", "timer"

vars == <<speed, bytes, pulse, compare, stage>>

Init == /\ speed \in Speeds
        /\ bytes = <<0, 0>> /\ pulse = 0 /\ compare = 0 /\ stage = "camera"

SendSpeed ==
  /\ stage = "camera"
  /\ bytes' = << WholeByte(speed), HundredthsByte(speed) >>
  /\ stage' = "link"
  /\ UNCHANGED <<speed, pulse, compare>>

MotorConvert ==
  /\ stage = "link"
  /\ pulse' = PulseNs(bytes[1], bytes[2])
  /\ stage' = "motor"
  /\ UNCHANGED <<speed, bytes, compare>>

SetPwm ==
  /\ stage = "motor"
  /\ compare' = Compare(pulse)
  /\ stage' = "timer"
  /\ UNCHANGED <<speed, bytes, pulse>>

Next == SendSpeed \/ MotorConvert \/ SetPwm

Spec == Init /\ [][Next]_vars
-----------------------------------------------------------------------------
(* No byte of a speed can be taken for the header 0xAA, so the decoder     *)
(* finds the start of a packet again after a loss.                         *)
NeverHeader == stage = "link" => bytes[1] <= 100 /\ bytes[2] <= 100

(* The pulse width is within half a hundredth of a percent (50 ns) and one *)
(* ns of the speed asked for: neither the split into two rounded bytes,    *)
(* whose second may be 100, nor the floats of motor_ctrl_th lose more.     *)
PulseIsSpeed ==
  stage = "motor" => pulse - 10*speed <= 50 /\ 10*speed - pulse <= 51

(* From end to end: the time the timer drives the motor in each millisecond*)
(* is that of the percentage asked for, but for the 51 ns above and two    *)
(* ticks, less than a hundredth of a percent at 64 MHz: through rounding,  *)
(* floats, prescaler and whole ticks, also where drv_pwm_set raises a stop *)
(* to its two ticks, and its cut at the period never takes from full power.*)
Apart(a, b) == IF a > b THEN a - b ELSE b - a

DutyIsSpeed ==
  stage = "timer" =>
    Apart(1000 * Prescale * (compare + 1), 10 * speed * TimClockMHz)
      <= 51 * TimClockMHz + 2000 * Prescale
=============================================================================
