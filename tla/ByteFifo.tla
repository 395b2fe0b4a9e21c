------------------------------ MODULE ByteFifo ------------------------------
(***************************************************************************)
(* What the receive buffer of an RT-Thread serial device promises its      *)
(* reader: the last cap bytes that arrived, oldest first; a byte that      *)
(* finds the buffer full pushes the oldest one out.  SerialRx is the ring  *)
(* buffer that implements it, with cap = bufsz - 1.                        *)
(***************************************************************************)
EXTENDS Integers, Sequences

Put(q, b, cap) == IF Len(q) < cap THEN Append(q, b) ELSE Append(Tail(q), b)
=============================================================================
