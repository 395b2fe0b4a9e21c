-------------------------- MODULE WheelSpeedProofs ---------------------------
(***************************************************************************)
(* The arithmetic of a wheel speed for every speed and every clock of the  *)
(* timer; what drv_pwm_set does holds for the period motor_ctrl_th asks    *)
(* for, a millisecond.                                                     *)
(***************************************************************************)
EXTENDS WheelSpeed, TLAPS

(* The period of motor_ctrl_th, in ns.                                     *)
Millisecond == 1000000

(* The two bytes of a speed: how far they are from it, and how large.      *)
LEMMA TwoBytes ==
  ASSUME NEW sp \in Nat, sp \div 1000 <= 100
  PROVE  /\ WholeByte(sp) \in 0..100 /\ HundredthsByte(sp) \in 0..100
         /\ 10 * (100 * WholeByte(sp) + HundredthsByte(sp)) - sp <= 5
         /\ sp - 10 * (100 * WholeByte(sp) + HundredthsByte(sp)) <= 5
<1> DEFINE w == sp \div 1000
           t == sp % 1000
<1>1. w \in 0..100 /\ t \in 0..999 /\ sp = 1000 * w + t
  BY SMT
<1>2. WholeByte(sp) = w
  BY SMT DEF WholeByte
<1> DEFINE q == t \div 10
           r == t % 10
<1>3. HundredthsByte(sp) = IF r > 5 \/ (r = 5 /\ q % 2 = 1) THEN q + 1 ELSE q
  BY Zenon DEF HundredthsByte
<1> HIDE DEF w, t
<1>4. q \in 0..99 /\ r \in 0..9 /\ t = 10 * q + r
  BY <1>1, SMT
<1> HIDE DEF q, r
<1>5. \/ HundredthsByte(sp) = q /\ r <= 5
      \/ HundredthsByte(sp) = q + 1 /\ r >= 5
  BY <1>3, <1>4, SMT
<1>6. QED
  BY <1>1, <1>2, <1>4, <1>5, SMT

(* The pulse is a hundredth of a microsecond times the two bytes, or one   *)
(* nanosecond less.                                                        *)
LEMMA PulseOfBytes ==
  ASSUME NEW w \in Byte, NEW h \in Byte
  PROVE  /\ PulseNs(w, h) \in Nat
         /\ PulseNs(w, h) \in {100 * (100*w + h), 100 * (100*w + h) - 1}
<1> DEFINE v == 100*w + h
<1>1. v \in Nat
  BY DEF Byte
<1>2. FallsShort(v) => v > 0
  BY DEF FallsShort
<1>3. PulseNs(w, h) = IF FallsShort(v) THEN 100*v - 1 ELSE 100*v
  BY DEF PulseNs
<1> HIDE DEF v
<1>4. PulseNs(w, h) \in Nat /\ PulseNs(w, h) \in {100 * v, 100 * v - 1}
  BY <1>1, <1>2, <1>3
<1>5. QED
  BY <1>4 DEF v

(* What integer division leaves is less than the divisor.                  *)
LEMMA Division ==
  ASSUME NEW x \in Nat, NEW y \in Nat \ {0}
  PROVE  /\ x \div y \in Nat
         /\ y * (x \div y) <= x /\ x < y * (x \div y) + y
  OBVIOUS

(* A product of natural numbers is one, and grows with its factors.        *)
LEMMA Product ==
  ASSUME NEW x \in Nat, NEW y \in Nat, NEW z \in Nat, x <= y
  PROVE  x * z \in Nat /\ x * z <= y * z
  OBVIOUS

(* drv_pwm_set: the pulse in ticks of 1000 * Prescale / TimClockMHz ns is  *)
(* the one in ns to two ticks, and no pulse of up to the period is cut.    *)
LEMMA PulseInTicks ==
  ASSUME PeriodNs = Millisecond, NEW ns \in Nat, ns <= PeriodNs
  PROVE  /\ Prescale \in Nat /\ Compare(ns) \in Nat
         /\ Apart(1000 * Prescale * (Compare(ns) + 1), ns * TimClockMHz)
              <= 2000 * Prescale
<1> DEFINE clock == TimClockMHz
           psc == Prescale
           base == (PeriodNs * TimClockMHz) \div 1000
           long == ns * TimClockMHz
           x == long \div psc
           p == x \div 1000
<1>1. clock \in Nat
  BY CodecAssumption
<1>2. base \in Nat /\ base = 1000 * clock
  BY <1>1, SMT DEF Millisecond
<1>3. long \in Nat /\ long <= 1000 * base
  <2>1. long \in Nat /\ ns * clock <= Millisecond * clock
    BY <1>1, Product, SMT DEF Millisecond
  <2> QED
    BY <1>1, <1>2, <2>1, SMT DEF Millisecond
<1>4. psc \in Nat \ {0}
  <2>1. psc = base \div MAX_PERIOD + 1
    BY DEF Prescale
  <2> HIDE DEF base, psc
  <2>2. base \div 65535 \in Nat
    BY <1>2
  <2> QED
    BY <2>1, <2>2 DEF MAX_PERIOD
<1>5. PeriodTicks = IF base \div psc < 3 THEN 3 ELSE base \div psc
  BY DEF PeriodTicks, MIN_PERIOD
<1>6. PulseTicks(ns) = IF p < 2 THEN 2 ELSE IF p > PeriodTicks THEN PeriodTicks ELSE p
  BY DEF PulseTicks, MIN_PULSE
<1> DEFINE whole == base \div psc
<1> HIDE DEF clock, base, long, psc
<1>7. whole \in Nat /\ psc * whole <= base /\ base < psc * whole + psc
  BY <1>2, <1>4, Division
<1>8. x \in Nat /\ psc * x <= long /\ long < psc * x + psc
  BY <1>3, <1>4, Division
<1> HIDE DEF whole, x
<1>9. p \in Nat /\ 1000 * p <= x /\ x <= 1000 * p + 999
  BY <1>8
<1> HIDE DEF p
<1>10. 1000 * (psc * p) <= long /\ long < 1000 * (psc * p) + 1000 * psc
  <2>1. psc * (1000 * p) <= psc * x /\ psc * x <= psc * (1000 * p + 999)
    BY <1>4, <1>8, <1>9, Product
  <2>2. psc * (1000 * p) = 1000 * (psc * p) /\ psc * (1000 * p + 999) = 1000 * (psc * p) + 999 * psc
    BY <1>4, <1>9
  <2>3. psc * p \in Nat /\ psc * x \in Nat
    BY <1>4, <1>8, <1>9
  <2> QED
    BY <1>3, <1>4, <1>8, <2>1, <2>2, <2>3
<1>11. p <= whole
  <2>1. psc * p <= base
    BY <1>2, <1>3, <1>4, <1>9, <1>10
  <2>2. psc * p < psc * (whole + 1)
    BY <1>2, <1>4, <1>7, <1>9, <2>1
  <2> QED
    BY <1>4, <1>7, <1>9, <2>2
<1>12. PulseTicks(ns) = IF p < 2 THEN 2 ELSE p
  BY <1>5, <1>6, <1>7, <1>9, <1>11 DEF whole
<1>13. Compare(ns) \in Nat /\ 1000 * psc * (Compare(ns) + 1)
                                 = 1000 * (psc * (IF p < 2 THEN 2 ELSE p))
  BY <1>4, <1>9, <1>12 DEF Compare
<1>14. Apart(1000 * psc * (Compare(ns) + 1), long) <= 2000 * psc
  <2>1. CASE p < 2
    <3>1. psc * p >= 0 /\ psc * p <= psc /\ psc * p \in Nat
      BY <1>4, <1>9, <2>1
    <3> QED
      BY <1>3, <1>4, <1>10, <1>13, <2>1, <3>1 DEF Apart
  <2>2. CASE ~(p < 2)
    <3>1. psc * p \in Nat
      BY <1>4, <1>9
    <3> QED
      BY <1>3, <1>4, <1>10, <1>13, <2>2, <3>1 DEF Apart
  <2> QED
    BY <2>1, <2>2
<1> QED
  BY <1>4, <1>13, <1>14 DEF psc, long
-----------------------------------------------------------------------------
(* What is on its way is the speed asked for.                              *)
OnItsWay ==
  /\ speed \in 0..Full
  /\ bytes \in Byte \X Byte
  /\ stage \in {"link", "motor", "timer"}
       => bytes = <<WholeByte(speed), HundredthsByte(speed)>>
  /\ stage \in {"motor", "timer"} => pulse = PulseNs(bytes[1], bytes[2])
  /\ stage = "timer" => compare = Compare(pulse)

(* The camera starts with a speed.                                         *)
LEMMA InitOnItsWay == Init => OnItsWay
BY SpeedsAssumption DEF Init, OnItsWay, Byte

(* Each step computes from what the one before left.                       *)
LEMMA StepOnItsWay == OnItsWay /\ [Next]_vars => OnItsWay'
<1> SUFFICES ASSUME OnItsWay, [Next]_vars PROVE OnItsWay'
  OBVIOUS
<1> USE DEF OnItsWay
<1>1. CASE SendSpeed
  <2>1. speed \in Nat /\ speed \div 1000 <= 100
    BY SMT DEF Full
  <2>2. WholeByte(speed) \in Byte /\ HundredthsByte(speed) \in Byte
    BY <2>1, TwoBytes DEF Byte
  <2>3. QED
    BY <1>1, <2>2 DEF SendSpeed
<1>2. CASE MotorConvert
  BY <1>2 DEF MotorConvert
<1>3. CASE SetPwm
  BY <1>3 DEF SetPwm
<1>4. CASE UNCHANGED vars
  BY <1>4 DEF vars
<1>5. QED
  BY <1>1, <1>2, <1>3, <1>4 DEF Next

(* The two bytes of a speed that is on its way, and the pulse they make.   *)
LEMMA PulseOfSpeed ==
  ASSUME OnItsWay
  PROVE  LET w == WholeByte(speed)
             h == HundredthsByte(speed)
         IN  /\ w \in 0..100 /\ h \in 0..100
             /\ PulseNs(w, h) \in Nat /\ PulseNs(w, h) <= Millisecond
             /\ PulseNs(w, h) - 10*speed <= 50 /\ 10*speed - PulseNs(w, h) <= 51
<1> DEFINE w == WholeByte(speed)
           h == HundredthsByte(speed)
           ns == PulseNs(w, h)
<1>1. speed \in Nat /\ speed <= Full /\ speed \div 1000 <= 100
  <2>1. speed \in 0..Full
    BY DEF OnItsWay
  <2> QED
    BY <2>1, SMT DEF Full
<1>2. /\ w \in 0..100 /\ h \in 0..100
      /\ 10 * (100 * w + h) - speed <= 5 /\ speed - 10 * (100 * w + h) <= 5
  BY <1>1, TwoBytes
<1> HIDE DEF w, h
<1>3. ns \in Nat /\ ns \in {100 * (100*w + h), 100 * (100*w + h) - 1}
  <2>1. w \in Byte /\ h \in Byte
    BY <1>2, SMT DEF Byte
  <2> QED
    BY <2>1, PulseOfBytes
<1> HIDE DEF ns
<1>4. ns \in Nat /\ ns <= Millisecond /\ ns - 10*speed <= 50 /\ 10*speed - ns <= 51
  BY <1>1, <1>2, <1>3, SMT DEF Full, Millisecond
<1> QED
  BY <1>2, <1>4 DEF w, h, ns

(* No byte of a speed is the header: the parser can tell a packet's start. *)
THEOREM SpeedsHideNoHeader == Spec => []NeverHeader
<1>1. OnItsWay => NeverHeader
  <2> SUFFICES ASSUME OnItsWay, stage = "link" PROVE bytes[1] <= 100 /\ bytes[2] <= 100
    BY DEF NeverHeader
  <2>1. bytes = <<WholeByte(speed), HundredthsByte(speed)>>
    BY DEF OnItsWay
  <2>2. WholeByte(speed) \in 0..100 /\ HundredthsByte(speed) \in 0..100
    BY PulseOfSpeed
  <2> QED
    BY <2>1, <2>2, SMT
<1> QED
  BY <1>1, InitOnItsWay, StepOnItsWay, PTL DEF Spec

(* The pulse is the speed asked for, but for half a hundredth of a percent *)
(* and one nanosecond.                                                     *)
THEOREM PulsesAreSpeeds == Spec => []PulseIsSpeed
<1>1. OnItsWay => PulseIsSpeed
  <2> SUFFICES ASSUME OnItsWay, stage = "motor"
               PROVE  pulse - 10*speed <= 50 /\ 10*speed - pulse <= 51
    BY DEF PulseIsSpeed
  <2>1. pulse = PulseNs(WholeByte(speed), HundredthsByte(speed))
    BY DEF OnItsWay
  <2> QED
    BY <2>1, PulseOfSpeed
<1> QED
  BY <1>1, InitOnItsWay, StepOnItsWay, PTL DEF Spec

(* Each wheel is driven for the percentage asked for, to 51 ns and two     *)
(* ticks of each millisecond, whatever the clock of the timer.             *)
THEOREM DutiesAreSpeeds ==
  ASSUME PeriodNs = Millisecond
  PROVE  Spec => []DutyIsSpeed
<1>1. OnItsWay => DutyIsSpeed
  <2> SUFFICES ASSUME OnItsWay, stage = "timer"
               PROVE  Apart(1000 * Prescale * (compare + 1), 10 * speed * TimClockMHz)
                        <= 51 * TimClockMHz + 2000 * Prescale
    BY DEF DutyIsSpeed
  <2> DEFINE ns == PulseNs(WholeByte(speed), HundredthsByte(speed))
             clock == TimClockMHz
             driven == 1000 * Prescale * (compare + 1)
  <2>1. compare = Compare(ns) /\ speed \in Nat
    <3>1. compare = Compare(ns) /\ speed \in 0..Full
      BY DEF OnItsWay
    <3> QED
      BY <3>1, SMT DEF Full
  <2>2. ns \in Nat /\ ns <= Millisecond /\ ns - 10*speed <= 50 /\ 10*speed - ns <= 51
    BY PulseOfSpeed
  <2> HIDE DEF ns
  <2>3. /\ Prescale \in Nat /\ compare \in Nat
        /\ Apart(driven, ns * clock) <= 2000 * Prescale
    BY <2>1, <2>2, PulseInTicks
  <2>4. clock \in Nat /\ driven \in Nat
    BY <2>3, CodecAssumption
  <2> HIDE DEF clock, driven
  <2>5. /\ ns * clock \in Nat /\ 10 * speed * clock \in Nat
        /\ ns * clock <= 10 * speed * clock + 50 * clock
        /\ 10 * speed * clock <= ns * clock + 51 * clock
    <3>1. ns * clock <= (10 * speed + 50) * clock /\ (10 * speed) * clock <= (ns + 51) * clock
      BY <2>1, <2>2, <2>4, Product
    <3>2. /\ (10 * speed + 50) * clock = 10 * speed * clock + 50 * clock
          /\ (ns + 51) * clock = ns * clock + 51 * clock
      BY <2>1, <2>2, <2>4
    <3> QED
      BY <2>1, <2>2, <2>4, <3>1, <3>2
  <2>6. Apart(driven, 10 * speed * clock) <= 51 * clock + 2000 * Prescale
    BY <2>3, <2>4, <2>5 DEF Apart
  <2> QED
    BY <2>6 DEF driven, clock
<1> QED
  BY <1>1, InitOnItsWay, StepOnItsWay, PTL DEF Spec
=============================================================================
