------------------------- MODULE CountingSemaphore --------------------------
(***************************************************************************)
(* What a semaphore of RT-Thread promises its users, and what CommuLink    *)
(* and Gate assume of it: a token that is released goes to one thread that *)
(* waits, or is kept if nobody does; a thread that gave up waiting gets    *)
(* none; a release beyond the limit is refused.                            *)
(***************************************************************************)
EXTENDS Naturals

CONSTANTS
  Users,      \* the threads
  Limit       \* RT_SEM_VALUE_MAX

VARIABLES
  tokens,     \* the tokens kept
  user        \* what each thread does: "away", "waits", "holds", "gaveUp"

semVars == <<tokens, user>>

Set(u, what) == user' = [user EXCEPT ![u] = what]

Init == tokens = 0 /\ user = [u \in Users |-> "away"]

Take(u) == /\ user[u] = "away" /\ tokens > 0
           /\ tokens' = tokens - 1 /\ UNCHANGED user

Wait(u) == /\ user[u] = "away" /\ tokens = 0
           /\ Set(u, "waits") /\ UNCHANGED tokens

GiveUp(u) == user[u] = "waits" /\ Set(u, "gaveUp") /\ UNCHANGED tokens

Grant(u) == user[u] = "waits" /\ Set(u, "holds") /\ UNCHANGED tokens

Keep == /\ \A u \in Users : user[u] # "waits"
        /\ tokens < Limit
        /\ tokens' = tokens + 1 /\ UNCHANGED user

Return(u) == user[u] \in {"holds", "gaveUp"} /\ Set(u, "away") /\ UNCHANGED tokens

Next == \/ \E u \in Users : \/ Take(u) \/ Wait(u) \/ GiveUp(u)
                            \/ Grant(u) \/ Return(u)
        \/ Keep

Spec == Init /\ [][Next]_semVars
=============================================================================
