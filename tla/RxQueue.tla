------------------------------ MODULE RxQueue -------------------------------
(***************************************************************************)
(* The promise of an interrupt-driven serial device to the thread that     *)
(* reads it: a queue of at most Cap bytes that loses its oldest byte when  *)
(* it is full, and hands out the others in the order of their arrival.     *)
(***************************************************************************)
EXTENDS ByteFifo

CONSTANTS Data, Cap, None

VARIABLES
  queue,      \* unread bytes, oldest first
  got         \* what the last read returned: a byte, or None

qvars == <<queue, got>>

Init == queue = << >> /\ got = None

Arrive == \E b \in Data : queue' = Put(queue, b, Cap) /\ UNCHANGED got

Read == /\ queue # << >>
        /\ got' = Head(queue) /\ queue' = Tail(queue)

ReadNothing == queue = << >> /\ got' = None /\ UNCHANGED queue

Next == Arrive \/ Read \/ ReadNothing

Spec == Init /\ [][Next]_qvars
=============================================================================
