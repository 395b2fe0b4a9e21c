---------------------------- MODULE MCWheelSpeed ----------------------------
(* WheelSpeed for TLC: every thousandth of the speeds the camera can ask   *)
(* for, 65 percent at most, and those up to full power.                    *)
EXTENDS WheelSpeed

MCSpeeds == 0..66999 \cup 99000..Full
=============================================================================
