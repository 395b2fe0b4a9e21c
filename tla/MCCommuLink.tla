---------------------------- MODULE MCCommuLink -----------------------------
(* Small instances of CommuLink for TLC.                                   *)
EXTENDS CommuLink

(* Packets whose bytes are easy to mistake for the gate tag or for the     *)
(* speed tag.                                                              *)
Tricky == { <<30, 1, 35, 85>>, <<0, 0, 0, 0>> }
Torn   == { <<30, 80, 35, 0>>, <<0, 0, 0, 0>> }
=============================================================================
