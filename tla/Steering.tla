------------------------------ MODULE Steering ------------------------------
(***************************************************************************)
(* The line follower's arithmetic: from the column of the line's edge to   *)
(* the speeds of the two wheels (get_error_filtered, low_pass_filter and   *)
(* limit_error of openmv_disk/main.py, get_pid of PID.py with p = 0.4 and  *)
(* i = d = 0, where it has no memory).                                     *)
(*                                                                         *)
(* An error is an integer number of fifteenths, a speed an integer number  *)
(* of 75ths of a percent: with the gains 40/50, 40/30 and 0.4 all of them  *)
(* are exact.                                                              *)
(***************************************************************************)
EXTENDS Integers

Columns == 80
width_const == 50
MAX_ERROR == 40 * 15
SP_L == 2310            \* 30.8 percent
SP_R == 2625            \* 35 percent
Percent == 75

Straight == <<SP_L, SP_R>>
Stop == <<0, 0>>

(* The error of an edge in column index; the gains map both sides of       *)
(* width_const to 40.                                                      *)
WideGain   == (40 * 15) \div width_const
NarrowGain == (40 * 15) \div (Columns - width_const)

EdgeError(direction, index) ==
  LET e == width_const - index
  IN  IF (direction = 3) = (e < 0) THEN e * WideGain ELSE e * NarrowGain

(* alpha = 0.2; exact when both are equal.                                 *)
low_pass_filter(input, old) == (input + 4 * old) \div 5

(* Slip: only negative errors are limited.                                 *)
LimitBelow(error) == IF error < -MAX_ERROR THEN -MAX_ERROR ELSE error

limit_error(error) == IF error > MAX_ERROR THEN MAX_ERROR
                      ELSE IF error < -MAX_ERROR THEN -MAX_ERROR ELSE error

(* What track puts in old_output when the direction has changed.           *)
Hint(direction) == (IF direction = 1 THEN 30 ELSE -20) * 15

(* get_pid(error, 1) is 0.4 * error.                                       *)
get_pid(error) == 2 * error

Steer(error) == <<SP_L - get_pid(error), SP_R + get_pid(error)>>
=============================================================================
