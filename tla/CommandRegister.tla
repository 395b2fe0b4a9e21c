-------------------------- MODULE CommandRegister ---------------------------
(***************************************************************************)
(* What the command path promises the camera: a register of speed commands *)
(* whose reader always moves forward.  Applying a command may mix bytes of *)
(* several packets, because motor_ctrl_th reads sp_data byte by byte while *)
(* the decoder may replace it, but each byte comes from a packet at least  *)
(* as new as the byte before it and as everything applied earlier.         *)
(***************************************************************************)
EXTENDS SpeedCodec, Sequences

CONSTANT Cmds

VARIABLES
  history,    \* the packets issued
  version,    \* for each byte applied, the index of its packet (0: none)
  out         \* the compare registers of the wheels

cvars == <<history, version, out>>

Mixed(v) == [k \in 1..4 |-> IF v[k] = 0 THEN 0 ELSE history[v[k]][k]]

Forward(v) == /\ version[4] <= v[1]
              /\ \A k \in 1..3 : v[k] <= v[k+1]

Init == history = << >> /\ version = <<0, 0, 0, 0>> /\ out = <<0, 0>>

Issue(c) == history' = Append(history, c) /\ UNCHANGED <<version, out>>

Apply == \E v \in [1..4 -> 0..Len(history)] :
           /\ Forward(v)
           /\ version' = v
           /\ out' = Duty(Mixed(v))
           /\ UNCHANGED history

Next == (\E c \in Cmds : Issue(c)) \/ Apply

Spec == Init /\ [][Next]_cvars
=============================================================================
