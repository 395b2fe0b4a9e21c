----------------------------- MODULE SpeedCodec -----------------------------
(***************************************************************************)
(* The arithmetic a wheel speed goes through on its way from the OpenMV    *)
(* camera to a motor: send_sp (openmv_disk/main.py) splits a percentage    *)
(* into a whole and a hundredths byte, motor_ctrl_th (motor.c) joins them  *)
(* in single-precision floats into a pulse width, and drv_pwm_set          *)
(* (drv_pwm.c) turns that into the compare register of TIM4.               *)
(*                                                                         *)
(* A requested speed is an integer number of thousandths of a percent.     *)
(***************************************************************************)
EXTENDS Integers

CONSTANTS
  TimClockMHz,   \* clock of TIM4: 2 * PCLK1 = 64 MHz (HSI/2 * 16)
  PeriodNs       \* the constant period of motor_ctrl_th

ASSUME CodecAssumption ==
  /\ TimClockMHz \in Nat /\ 0 < TimClockMHz /\ TimClockMHz <= 200
  /\ PeriodNs \in Nat /\ 0 < PeriodNs /\ PeriodNs <= 1000000

Byte == 0..255

(* The two bytes send_sp writes for one wheel: int(sp), cut at 100, and    *)
(* round((sp - int(sp)) * 100), which rounds halves to even and may be 100.*)
WholeByte(sp) == IF sp \div 1000 > 100 THEN 100 ELSE sp \div 1000

(* Slips: the hundredths are cut off; three decimals are sent.             *)
HundredthsCut(sp) == (sp % 1000) \div 10

ThreeDecimals(sp) == (sp % 1000) % 256

HundredthsByte(sp) ==
  LET t == sp % 1000
      q == t \div 10
      r == t % 10
  IN  IF r > 5 \/ (r = 5 /\ q % 2 = 1) THEN q + 1 ELSE q

-----------------------------------------------------------------------------
(* The pulse width (int)(sp * 10000), where sp is the float nearest to     *)
(* whole + hundredths/100.  The exact product is 100 * v for               *)
(* v = 100*whole + hundredths.  With 2^e <= v/100 < 2^(e+1), the float sp  *)
(* is v/100 - rem / (100 * 2^(23-e)), and the product is rounded to a grid *)
(* of 2^(x-23) where 2^x <= 100*v < 2^(x+1): it lands on 100*v or one grid *)
(* step beside it, so the cast yields 100*v or 100*v - 1.                  *)
Scaled(v, e) == IF e < 0 THEN v * 2^(-e) ELSE v \div 2^e

SpeedExponent(v) == CHOOSE e \in -7..8 : Scaled(v, e) \in 100..199

ProductExponent(v) == CHOOSE x \in 0..22 : 2^x <= 100*v /\ 100*v < 2^(x+1)

Remainder(v, e) ==
  LET r == (v * (2^(23-e) % 100)) % 100 IN IF r > 50 THEN r - 100 ELSE r

FallsShort(v) ==
  /\ v > 0
  /\ LET e == SpeedExponent(v)
     IN  200 * Remainder(v, e) > 2^(ProductExponent(v) - e)

PulseNs(whole, hundredths) ==
  LET v == 100*whole + hundredths
  IN  IF FallsShort(v) THEN 100*v - 1 ELSE 100*v

-----------------------------------------------------------------------------
(* drv_pwm_set: period and pulse in timer ticks under the prescaler that   *)
(* keeps the period within 16 bits; the pulse is at least MIN_PULSE and at *)
(* most the period, and the registers hold the values minus one.           *)
MAX_PERIOD == 65535
MIN_PERIOD == 3
MIN_PULSE  == 2

Prescale == ((PeriodNs * TimClockMHz) \div 1000) \div MAX_PERIOD + 1

PeriodTicks ==
  LET p == ((PeriodNs * TimClockMHz) \div 1000) \div Prescale
  IN  IF p < MIN_PERIOD THEN MIN_PERIOD ELSE p

(* Slip: drv_pwm_set divides before it multiplies.                         *)
TicksOfMicros(ns) ==
  LET p == ((ns \div 1000) * TimClockMHz) \div Prescale
  IN  IF p < MIN_PULSE THEN MIN_PULSE
      ELSE IF p > PeriodTicks THEN PeriodTicks ELSE p

PulseTicks(ns) ==
  LET p == ((ns * TimClockMHz) \div Prescale) \div 1000
  IN  IF p < MIN_PULSE THEN MIN_PULSE
      ELSE IF p > PeriodTicks THEN PeriodTicks ELSE p

Compare(ns) == PulseTicks(ns) - 1

(* The compare registers of channels 2 (right wheel) and 3 (left wheel)    *)
(* that a packet <<left whole, left hundredths, right whole, right         *)
(* hundredths>> leads to.                                                  *)
Duty(packet) == << Compare(PulseNs(packet[3], packet[4])),
                   Compare(PulseNs(packet[1], packet[2])) >>
=============================================================================
