----------------------------- MODULE MCRtKernel -----------------------------
(* A small instance of RtKernel for TLC.                                   *)
EXTENDS RtKernel, TLC

CONSTANTS main, a, b, idle

(* main above two threads of equal priority, as the board's 10, 20 and 31. *)
Three == main :> 1 @@ a :> 2 @@ b :> 2 @@ idle :> 3

Slices == main :> 1 @@ a :> 2 @@ b :> 1 @@ idle :> 1

Roles == main :> {"startup", "sleep", "exit"}
      @@ a :> {"take", "timed", "release"}
      @@ b :> {"timed", "sleep"}
      @@ idle :> {}
=============================================================================
