------------------------------ MODULE Startup -------------------------------
(***************************************************************************)
(* How the board starts, and how uart3 comes to be read: main (main.c)     *)
(* calls the init functions of the applications, each of which creates a   *)
(* semaphore and a thread or fails to; the decoder thread opens the port,  *)
(* then has its bytes announced, then reads them and waits on sem_decoder. *)
(* main has priority 10, the threads 20: they run when it has finished, in *)
(* turn, one time slice after the other (RtKernel).  infrared_th (21) and  *)
(* the shell are left out.                                                 *)
(***************************************************************************)
EXTENDS SerialRx

Threads == {"motor", "decoder", "sr04"}
Handles == {"sem_motorctrl", "sem_decoder", "sem_infrared", "commu_uart"}

VARIABLES
  inits,      \* the init functions main has called
  made,       \* the handles that are not RT_NULL
  failed,     \* history: a semaphore or a thread could not be created
  ready,      \* the ready threads; the first one runs
  fresh,      \* it has not done a step since it got the processor
  pc,         \* where each thread is
  opened,     \* the port is open: its interrupt is enabled
  announced,  \* rx_indicate is set
  tokens,     \* the value of sem_decoder
  crashed     \* a handle that is RT_NULL was used

started == <<inits, made, failed>>
sched == <<ready, fresh, pc>>
port == <<opened, announced, tokens>>
vars == <<rxVars, started, sched, port, crashed>>

Init ==
  /\ RxInit
  /\ inits = 0 /\ made = {} /\ failed = FALSE
  /\ ready = << >> /\ fresh = TRUE /\ pc = [t \in Threads |-> "off"]
  /\ opened = FALSE /\ announced = FALSE /\ tokens = 0
  /\ crashed = FALSE
-----------------------------------------------------------------------------
(* Slip: the sensor thread is started before the decoder.                  *)
InitsSwapped == << [sem |-> {"sem_motorctrl"}, thread |-> "motor"],
                   [sem |-> {}, thread |-> "sr04"],
                   [sem |-> {"sem_decoder"}, thread |-> "decoder"],
                   [sem |-> {"sem_infrared"}, thread |-> "infrared"] >>

(* The init functions in the order of main.                                *)
Inits == << [sem |-> {"sem_motorctrl"}, thread |-> "motor"],
            [sem |-> {"sem_decoder"}, thread |-> "decoder"],
            [sem |-> {}, thread |-> "sr04"],
            [sem |-> {"sem_infrared"}, thread |-> "infrared"] >>

Start(t) == /\ ready' = IF t \in Threads THEN Append(ready, t) ELSE ready
            /\ pc' = [u \in Threads |-> IF u = t THEN "start" ELSE pc[u]]

(* One of them: main goes on whatever it returns.                          *)
CallInit ==
  /\ inits < Len(Inits)
  /\ inits' = inits + 1
  /\ LET it == Inits[inits + 1]
     IN  \/ made' = made \cup it.sem /\ Start(it.thread) /\ UNCHANGED failed
         \/ \E created \in {{}, it.sem} : made' = made \cup created
            /\ failed' = TRUE /\ UNCHANGED <<ready, pc>>
  /\ UNCHANGED <<rxVars, fresh, port, crashed>>
-----------------------------------------------------------------------------
(* Thread t runs, from one place to another.                               *)
Runs(t, place) ==
  /\ inits = Len(Inits) /\ isr = "idle" /\ ~crashed
  /\ ready # << >> /\ Head(ready) = t
  /\ pc[t] = place

GoesOn(t, place) ==
  pc' = [pc EXCEPT ![t] = place] /\ fresh' = FALSE /\ UNCHANGED ready

Blocks(t, place) ==
  pc' = [pc EXCEPT ![t] = place] /\ fresh' = TRUE /\ ready' = Tail(ready)

Wakes(t, place) ==
  pc' = [pc EXCEPT ![t] = place] /\ ready' = Append(ready, t) /\ UNCHANGED fresh

Use(h) == crashed' = (h \notin made)

(* The slice of the thread that runs is used up.  A slice, 5 ms, is enough *)
(* for a step.                                                             *)
TimeSlice ==
  /\ isr = "idle" /\ ~fresh /\ Len(ready) > 1
  /\ ready' = Append(Tail(ready), Head(ready))
  /\ fresh' = TRUE
  /\ UNCHANGED <<rxVars, started, pc, port, crashed>>

(* motor_ctrl_th: it runs for some time, then waits on its semaphore.      *)
Motor ==
  /\ Runs("motor", "start")
  /\ GoesOn("motor", "start") \/ Blocks("motor", "wait")
  /\ Use("sem_motorctrl")
  /\ UNCHANGED <<rxVars, started, port>>

(* sr04_th: without its sensor it ends; it writes each distance to uart3.  *)
Sr04Starts ==
  /\ Runs("sr04", "start")
  /\ GoesOn("sr04", "write") \/ Blocks("sr04", "off")
  /\ UNCHANGED <<rxVars, started, port, crashed>>

Sr04Writes ==
  /\ Runs("sr04", "write")
  /\ Use("commu_uart")
  /\ Blocks("sr04", "sleep")
  /\ UNCHANGED <<rxVars, started, port>>

Sr04Wakes ==
  /\ isr = "idle" /\ pc["sr04"] = "sleep"
  /\ Wakes("sr04", "write")
  /\ UNCHANGED <<rxVars, started, port, crashed>>
-----------------------------------------------------------------------------
(* commu_decoder_th: rt_device_find, then rt_device_open.                  *)
DecoderFinds ==
  /\ Runs("decoder", "start")
  /\ made' = made \cup {"commu_uart"}
  /\ GoesOn("decoder", "open")
  /\ UNCHANGED <<rxVars, inits, failed, port, crashed>>

DecoderOpens ==
  /\ Runs("decoder", "open")
  /\ opened' = TRUE
  /\ GoesOn("decoder", "listen")
  /\ UNCHANGED <<rxVars, started, announced, tokens, crashed>>

(* Slip: it waits for an announcement before the first read.               *)
ListensThenTakes ==
  /\ Runs("decoder", "listen")
  /\ announced' = TRUE
  /\ GoesOn("decoder", "take")
  /\ UNCHANGED <<rxVars, started, opened, tokens, crashed>>

(* rt_device_set_rx_indicate.                                              *)
DecoderListens ==
  /\ Runs("decoder", "listen")
  /\ announced' = TRUE
  /\ GoesOn("decoder", "read")
  /\ UNCHANGED <<rxVars, started, opened, tokens, crashed>>

(* A byte: it completes nothing, a gate request or a speed command.        *)
DecoderReads ==
  /\ Runs("decoder", "read") /\ ReadByte
  /\ \/ UNCHANGED crashed /\ GoesOn("decoder", "read")
     \/ Use("sem_infrared") /\ GoesOn("decoder", "read")
     \/ /\ Use("sem_motorctrl")
        /\ IF pc["motor"] = "wait"
           THEN /\ pc' = [pc EXCEPT !["motor"] = "start"]
                /\ ready' = Append(ready, "motor") /\ fresh' = FALSE
           ELSE GoesOn("decoder", "read")
  /\ UNCHANGED <<started, port>>

DecoderFindsNothing ==
  /\ Runs("decoder", "read") /\ ReadNothing
  /\ GoesOn("decoder", "take")
  /\ UNCHANGED <<started, port, crashed>>

(* rt_sem_take(sem_decoder, RT_WAITING_FOREVER).                           *)
DecoderTakes ==
  /\ Runs("decoder", "take")
  /\ Use("sem_decoder")
  /\ IF tokens > 0 THEN tokens' = tokens - 1 /\ GoesOn("decoder", "read")
                   ELSE Blocks("decoder", "wait") /\ UNCHANGED tokens
  /\ UNCHANGED <<rxVars, started, opened, announced>>

(* Slip: an announcement that finds nobody waiting is forgotten.           *)
IsrSignals ==
  /\ IsrIndicate
  /\ IF ~announced \/ Length = 0 \/ pc["decoder"] # "wait"
     THEN UNCHANGED <<sched, tokens, crashed>>
     ELSE Use("sem_decoder") /\ Wakes("decoder", "read") /\ UNCHANGED tokens
  /\ UNCHANGED <<started, opened, announced>>

(* The end of the handler: rx_callback, if it is set and there are bytes.  *)
IsrEnds ==
  /\ IsrIndicate
  /\ IF ~announced \/ Length = 0 THEN UNCHANGED <<sched, tokens, crashed>>
     ELSE /\ Use("sem_decoder")
          /\ IF pc["decoder"] = "wait"
             THEN Wakes("decoder", "read") /\ UNCHANGED tokens
             ELSE tokens' = tokens + 1 /\ UNCHANGED sched
  /\ UNCHANGED <<started, opened, announced>>
-----------------------------------------------------------------------------
Line == /\ \E b \in Data : Arrive(b)
        /\ UNCHANGED <<started, sched, port, crashed>>

IsrStores == opened /\ IsrStore /\ UNCHANGED <<started, sched, port, crashed>>

ThreadStep == \/ Motor \/ Sr04Starts \/ Sr04Writes
              \/ DecoderFinds \/ DecoderOpens \/ DecoderListens
              \/ DecoderReads \/ DecoderFindsNothing \/ DecoderTakes

Next == CallInit \/ ThreadStep \/ TimeSlice \/ Sr04Wakes \/ Line \/ IsrStores \/ IsrEnds

(* main does its part, interrupts are served, the threads have the         *)
(* processor in turn.                                                      *)
Spec == Init /\ [][Next]_vars
FairSpec == Spec /\ WF_vars(CallInit) /\ WF_vars(IsrStores) /\ WF_vars(IsrEnds)
                 /\ WF_vars(ThreadStep) /\ WF_vars(TimeSlice)
-----------------------------------------------------------------------------
TypeOK ==
  /\ RxTypeOK
  /\ inits \in 0..Len(Inits) /\ made \subseteq Handles /\ failed \in BOOLEAN
  /\ ready \in Seq(Threads) /\ fresh \in BOOLEAN
  /\ pc \in [Threads -> {"off", "start", "open", "listen", "read", "take", "wait",
                         "write", "sleep"}]
  /\ opened \in BOOLEAN /\ announced \in BOOLEAN /\ tokens \in Nat
  /\ crashed \in BOOLEAN

(* When everything could be created nobody uses a handle before it exists, *)
(* though the threads use each other's: sr04_th the port the decoder finds,*)
(* the decoder the semaphores of the other two, the interrupt sem_decoder. *)
NoNullUse == crashed => failed

(* No byte is stuck: while the decoder waits for an announcement there is  *)
(* nothing to read, also when bytes came before anybody listened, or more  *)
(* than the buffer holds.                                                  *)
NoByteStuck == isr = "idle" /\ pc["decoder"] = "wait" => Length = 0

(* Each byte in the buffer is read (or lost to a full buffer), whatever    *)
(* else the board does.                                                    *)
EveryByteRead == (Length > 0) ~> (Length = 0 \/ crashed)
=============================================================================
