------------------------------ MODULE RtKernel ------------------------------
(***************************************************************************)
(* The kernel of RT-Thread under the applications, on its one processor:   *)
(* the scheduler (scheduler.c), threads (thread.c), the timers and the     *)
(* tick (timer.c, clock.c) and one semaphore (ipc.c).  A stretch of code   *)
(* that runs with interrupts disabled is one action.  Between two of them  *)
(* the uart interrupt may release the semaphore, and SysTick, which has    *)
(* the highest priority, may interrupt that too.                           *)
(***************************************************************************)
EXTENDS Integers, SequencesExt

CONSTANTS
  Thread,
  Main, Idle,     \* the threads that are there when the scheduler starts
  Prio,           \* current_priority: a smaller number is a higher priority
  Slice,          \* init_tick of each thread
  Calls,          \* what each thread calls: "take", "timed", "release",
                  \* "sleep", "startup", "exit"
  Times,          \* the waiting times and sleeps the threads ask for
  TickMod,        \* ticks are counted modulo 2^32
  SemMax          \* RT_SEM_VALUE_MAX

Half == (TickMod - 1) \div 2      \* RT_TICK_MAX / 2

ASSUME KernelAssumption ==
  /\ Main \in Thread /\ Idle \in Thread /\ Main # Idle
  /\ Prio \in [Thread -> Nat]
  /\ \A t \in Thread \ {Idle} : Prio[t] < Prio[Idle]
  /\ Slice \in [Thread -> Nat \ {0}] /\ Calls[Idle] = {}
  /\ SemMax \in Nat \ {0}
  /\ TickMod \in Nat \ {0}
  /\ Times \subseteq 1..Half-1

VARIABLES
  k,          \* the scheduler: [cur, stat, yield, queue]: rt_current_thread,
              \* the state of a thread and its RT_THREAD_STAT_YIELD, and
              \* rt_thread_priority_table
  left,       \* remaining_tick
  value, waiters,     \* the semaphore and its suspend_thread list
  tick,       \* rt_tick
  timers,     \* _timer_list: the threads whose thread_timer is active, each
              \* with its timeout_tick, as [thread, at]
  err,        \* thread->error: "OK" or "ETIMEOUT"
  pc,         \* "run", or "sched": about to call rt_schedule; in rt_sem_take
              \* "take" before and "took" after it
  uart,       \* the uart interrupt: "off", or "sched": about to rt_schedule
  sys         \* SysTick: "off", or "check": in rt_timer_check

vars == <<k, left, value, waiters, tick, timers, err, pc, uart, sys>>

Prios == {Prio[t] : t \in Thread}
Before(t, u) == Prio[t] < Prio[u]

(* rt_list_remove of the node at one of the places at: it may be in no     *)
(* list at all.                                                            *)
Unlinked(list, at) == IF at = {} THEN list
                                 ELSE RemoveAt(list, CHOOSE i \in at : TRUE)
-----------------------------------------------------------------------------
(* The scheduler: what its functions make of k.                            *)

(* rt_schedule_insert_thread.                                              *)
Inserted(s, t) ==
  IF t = s.cur THEN [s EXCEPT !.stat[t] = "running"]
               ELSE [s EXCEPT !.stat[t] = "ready",
                              !.queue[Prio[t]] = Append(@, t)]

(* _scheduler_get_highest_priority_thread.                                 *)
Highest(s) == Head(s.queue[CHOOSE p \in Prios :
                             /\ s.queue[p] # << >>
                             /\ \A q \in Prios : s.queue[q] # << >> => p <= q])

(* Slip: the present thread stays whenever it is among the highest.        *)
StaysOnTop(s) == /\ s.stat[s.cur] = "running"
                 /\ ~Before(Highest(s), s.cur)

(* rt_schedule, as the present thread or an interrupt calls it.            *)
Stays(s) == LET to == Highest(s)
            IN  /\ s.stat[s.cur] = "running"
                /\ \/ Before(s.cur, to)
                   \/ Prio[s.cur] = Prio[to] /\ ~s.yield[s.cur]

Scheduled(s) ==
  IF \A p \in Prios : s.queue[p] = << >> THEN s
  ELSE LET from == s.cur
           to   == Highest(s)
           runs == s.stat[from] = "running"
           unyielded == IF runs THEN [s EXCEPT !.yield[from] = FALSE] ELSE s
           moved == [unyielded EXCEPT !.cur = to]
           back  == IF runs THEN Inserted(moved, from) ELSE moved
       IN  IF Stays(s) THEN unyielded
           ELSE [back EXCEPT !.queue[Prio[to]] = Tail(@),
                             !.stat[to] = "running"]
-----------------------------------------------------------------------------
Init ==
  /\ k = [cur   |-> Main,
          stat  |-> [t \in Thread |-> IF t = Main THEN "running"
                                 ELSE IF t = Idle THEN "ready" ELSE "init"],
          yield |-> [t \in Thread |-> FALSE],
          queue |-> [p \in Prios |-> IF p = Prio[Idle] THEN <<Idle>> ELSE << >>]]
  /\ left = Slice
  /\ value = 0 /\ waiters = << >>
  /\ tick \in 0..TickMod-1
  /\ timers = << >>
  /\ err = [t \in Thread |-> "OK"]
  /\ pc = [t \in Thread |-> "run"]
  /\ uart = "off" /\ sys = "off"

(* Thread t is what the processor executes, at a place of its own code.    *)
Runs(t, place) == k.cur = t /\ pc[t] = place /\ uart = "off" /\ sys = "off"

Goes(t, place) == pc' = [pc EXCEPT ![t] = place]

(* rt_thread_suspend of the running thread, which is in no queue, and the  *)
(* error reset before it; rt_timer_start for a limited time.               *)
Suspended(t) == [k EXCEPT !.stat[t] = "suspend"]

(* Slip: the timer of a thread that is resumed runs on.                    *)
RunsOn(list, t) == list

(* rt_timer_stop.                                                          *)
Stopped(list, t) == Unlinked(list, {i \in DOMAIN list : list[i].thread = t})

(* rt_timer_start: behind all that are due no later, the first of later.   *)
Linked(list, x, later) ==
  LET Place == CHOOSE n \in later \cup {Len(list) + 1} : \A i \in later : n <= i
  IN  InsertAt(list, Place, x)

(* Slip: the deadlines are compared as if the tick never wrapped.          *)
StartUnwrapped(t, time) ==
  LET list == Stopped(timers, t)
      at   == (tick + time) % TickMod
  IN  timers' = Linked(list, [thread |-> t, at |-> at],
                       {i \in DOMAIN list : list[i].at > at})

StartTimer(t, time) ==
  LET list == Stopped(timers, t)
      at   == (tick + time) % TickMod
  IN  timers' = Linked(list, [thread |-> t, at |-> at],
                       {i \in DOMAIN list : (list[i].at - at) % TickMod \in 1..Half-1})
-----------------------------------------------------------------------------
(* rt_sem_take.                                                            *)
TakeToken(t) ==
  /\ Runs(t, "run") /\ Calls[t] \cap {"take", "timed"} # {}
  /\ value > 0
  /\ value' = value - 1
  /\ UNCHANGED <<k, left, waiters, tick, timers, err, pc, uart, sys>>

(* Slip: the list is kept as a stack.                                      *)
QueuedFirst(t) == <<t>> \o waiters

(* _ipc_list_suspend of a semaphore made with RT_IPC_FLAG_FIFO, as all are.*)
Queued(t) == Append(waiters, t)

Wait(t) ==
  /\ Runs(t, "run")
  /\ value = 0
  /\ k' = Suspended(t)
  /\ err' = [err EXCEPT ![t] = "OK"]
  /\ waiters' = Queued(t)
  /\ Goes(t, "take")
  /\ UNCHANGED <<left, value, tick, uart, sys>>

TakeForever(t) == "take" \in Calls[t] /\ Wait(t) /\ UNCHANGED timers

TakeTimed(t, time) == "timed" \in Calls[t] /\ Wait(t) /\ StartTimer(t, time)

(* The rest of rt_sem_take, when the thread runs again: the caller gets    *)
(* thread->error, which nothing reads before it is reset.                  *)
TakeReturns(t) ==
  /\ Runs(t, "took")
  /\ Goes(t, "run")
  /\ err' = [err EXCEPT ![t] = "OK"]
  /\ UNCHANGED <<k, left, value, waiters, tick, timers, uart, sys>>

(* rt_sem_release and the rt_thread_resume in it: whoever wakes somebody    *)
(* still has to call rt_schedule.                                          *)
Wakes == waiters # << >>

Release ==
  /\ IF Wakes
     THEN /\ k' = Inserted(k, Head(waiters))
          /\ waiters' = Tail(waiters)
          /\ timers' = Stopped(timers, Head(waiters))
          /\ UNCHANGED value
     ELSE /\ value' = IF value < SemMax THEN value + 1 ELSE value
          /\ UNCHANGED <<k, waiters, timers>>
  /\ UNCHANGED <<left, tick, err, sys>>

ThreadReleases(t) ==
  /\ Runs(t, "run") /\ "release" \in Calls[t]
  /\ Release
  /\ pc' = IF Wakes THEN [pc EXCEPT ![t] = "sched"] ELSE pc
  /\ UNCHANGED uart

UartReleases ==
  /\ uart = "off" /\ sys = "off"
  /\ Release
  /\ uart' = IF Wakes THEN "sched" ELSE "off"
  /\ UNCHANGED pc

(* Slip: the interrupt wakes a thread but does not reschedule.             *)
UartLeavesIt ==
  /\ uart = "sched" /\ sys = "off"
  /\ uart' = "off"
  /\ UNCHANGED <<k, left, value, waiters, tick, timers, err, pc, sys>>

UartSchedules ==
  /\ uart = "sched" /\ sys = "off"
  /\ k' = Scheduled(k)
  /\ uart' = "off"
  /\ UNCHANGED <<left, value, waiters, tick, timers, err, pc, sys>>
-----------------------------------------------------------------------------
(* rt_thread_sleep, up to rt_schedule.                                     *)
Sleep(t, time) ==
  /\ Runs(t, "run") /\ "sleep" \in Calls[t]
  /\ k' = Suspended(t)
  /\ err' = [err EXCEPT ![t] = "OK"]
  /\ StartTimer(t, time)
  /\ Goes(t, "sched")
  /\ UNCHANGED <<left, value, waiters, tick, uart, sys>>

(* rt_thread_startup by the running thread: suspended, then resumed.       *)
Startup(t, u) ==
  /\ Runs(t, "run") /\ "startup" \in Calls[t]
  /\ k.stat[u] = "init"
  /\ k' = Inserted(k, u)
  /\ Goes(t, "sched")
  /\ UNCHANGED <<left, value, waiters, tick, timers, err, uart, sys>>

(* _thread_exit, when the function of the thread returns.                  *)
Exit(t) ==
  /\ Runs(t, "run") /\ "exit" \in Calls[t]
  /\ k' = [k EXCEPT !.stat[t] = "close"]
  /\ Goes(t, "sched")
  /\ UNCHANGED <<left, value, waiters, tick, timers, err, uart, sys>>

(* The call of rt_schedule that ends the functions above; rt_thread_sleep  *)
(* clears the error when it comes back, before anything can read it.       *)
CallsSchedule(t) ==
  /\ \E place \in {"sched", "take"} : Runs(t, place)
  /\ k' = Scheduled(k)
  /\ Goes(t, IF pc[t] = "take" THEN "took" ELSE "run")
  /\ UNCHANGED <<left, value, waiters, tick, timers, err, uart, sys>>
-----------------------------------------------------------------------------
(* SysTick: rt_tick_increase, then rt_timer_check, which handles one due   *)
(* timer after the other with interrupts disabled.                         *)
UsedUp(t) == left[t] = 1

(* Slip: the time slice is not reloaded.                                   *)
TickNoReload ==
  /\ sys = "off"
  /\ tick' = (tick + 1) % TickMod
  /\ left' = [left EXCEPT ![k.cur] = @ - 1]
  /\ k' = IF UsedUp(k.cur) THEN Scheduled([k EXCEPT !.yield[k.cur] = TRUE]) ELSE k
  /\ sys' = "check"
  /\ UNCHANGED <<value, waiters, timers, err, pc, uart>>

Tick ==
  /\ sys = "off"
  /\ tick' = (tick + 1) % TickMod
  /\ left' = [left EXCEPT ![k.cur] = IF UsedUp(k.cur) THEN Slice[k.cur] ELSE @ - 1]
  /\ k' = IF UsedUp(k.cur) THEN Scheduled([k EXCEPT !.yield[k.cur] = TRUE]) ELSE k
  /\ sys' = "check"
  /\ UNCHANGED <<value, waiters, timers, err, pc, uart>>

Expired == timers # << >> /\ (tick - Head(timers).at) % TickMod < Half

(* Slip: the thread stays in the list of those that wait.                  *)
TimeoutStaysListed ==
  /\ sys = "check" /\ Expired
  /\ LET t == Head(timers).thread
     IN  /\ err' = [err EXCEPT ![t] = "ETIMEOUT"]
         /\ k' = Scheduled(Inserted(k, t))
  /\ timers' = Tail(timers)
  /\ UNCHANGED <<left, value, waiters, tick, pc, uart, sys>>

(* _thread_timeout.                                                        *)
Timeout ==
  /\ sys = "check" /\ Expired
  /\ LET t == Head(timers).thread
     IN  /\ err' = [err EXCEPT ![t] = "ETIMEOUT"]
         /\ waiters' = Unlinked(waiters, {i \in DOMAIN waiters : waiters[i] = t})
         /\ k' = Scheduled(Inserted(k, t))
  /\ timers' = Tail(timers)
  /\ UNCHANGED <<left, value, tick, pc, uart, sys>>

CheckDone ==
  /\ sys = "check" /\ ~Expired
  /\ sys' = "off"
  /\ UNCHANGED <<k, left, value, waiters, tick, timers, err, pc, uart>>
-----------------------------------------------------------------------------
Application(t) ==
  \/ TakeToken(t) \/ TakeForever(t) \/ TakeReturns(t) \/ ThreadReleases(t)
  \/ \E time \in Times : TakeTimed(t, time) \/ Sleep(t, time)
  \/ \E u \in Thread : Startup(t, u)
  \/ Exit(t) \/ CallsSchedule(t)

SysTick == Tick \/ Timeout \/ CheckDone

Next == (\E t \in Thread : Application(t)) \/ UartReleases \/ UartSchedules \/ SysTick

(* The clock goes on, interrupts come to their end, and a thread that has  *)
(* the processor gets through the kernel's own code.                       *)
Spec == Init /\ [][Next]_vars
FairSpec == Spec /\ WF_vars(SysTick) /\ WF_vars(UartSchedules)
                 /\ WF_vars(\E t \in Thread : CallsSchedule(t))
-----------------------------------------------------------------------------
Stats == {"init", "ready", "running", "suspend", "close"}

TypeOK ==
  /\ k \in [cur : Thread, stat : [Thread -> Stats], yield : [Thread -> BOOLEAN],
            queue : [Prios -> Seq(Thread)]]
  /\ left \in [Thread -> Nat \ {0}] /\ \A t \in Thread : left[t] <= Slice[t]
  /\ value \in 0..SemMax /\ waiters \in Seq(Thread)
  /\ tick \in 0..TickMod-1
  /\ timers \in Seq([thread : Thread, at : 0..TickMod-1])
  /\ err \in [Thread -> {"OK", "ETIMEOUT"}]
  /\ pc \in [Thread -> {"run", "sched", "take", "took"}]
  /\ uart \in {"off", "sched"} /\ sys \in {"off", "check"}

(* No thread gets lost: it is in the queue of its priority when it is      *)
(* ready, and nowhere else; when it is suspended something will wake it,   *)
(* a release or its timer; nobody waits who is not suspended.              *)
NoThreadLost ==
  /\ \A p \in Prios : /\ IsInjective(k.queue[p])
                      /\ Range(k.queue[p]) =
                           {t \in Thread : k.stat[t] = "ready" /\ Prio[t] = p}
  /\ IsInjective(waiters)
  /\ \A i, j \in DOMAIN timers : timers[i].thread = timers[j].thread => i = j
  /\ Range(waiters) \cup {x.thread : x \in Range(timers)} =
       {t \in Thread : k.stat[t] = "suspend"}

(* While a thread executes its own code, no thread of higher priority is   *)
(* ready: what keeps infrared_th (21) away while one of the others (20)    *)
(* can run, and what main (10) relies on while it creates them.            *)
HighestRuns ==
  \A t \in Thread :
    k.cur = t /\ pc[t] \in {"run", "took"} /\ uart = "off" /\ sys = "off"
      => \A u \in Thread : k.stat[u] = "ready" => ~Before(u, t)

(* No timer is overlooked, across the wrap of the tick too: outside        *)
(* rt_timer_check every active timer is still ahead, nearest first.        *)
Ahead(x) == (x.at - tick) % TickMod

TimersAhead ==
  sys = "off" =>
    /\ \A i \in DOMAIN timers : Ahead(timers[i]) \in 1..Half-1
    /\ \A i, j \in DOMAIN timers : i < j => Ahead(timers[i]) <= Ahead(timers[j])

(* The semaphore is a counting semaphore, whatever comes between its parts:*)
(* each token goes to one taker, also when a timeout meets a release.      *)
Doing(t) == IF t \in Range(waiters) THEN "waits"
            ELSE IF pc[t] \notin {"take", "took"} THEN "away"
            ELSE IF err[t] = "OK" THEN "holds" ELSE "gaveUp"

Semaphore == INSTANCE CountingSemaphore
               WITH Users <- Thread, Limit <- SemMax, tokens <- value,
                    user <- [t \in Thread |-> Doing(t)]
SemaphoreSpec == Semaphore!Spec

(* Threads of equal priority are served in turn: none stays ready for ever *)
(* while no thread of higher priority wants to run, even if the others     *)
(* never give up the processor.                                            *)
Overtaken(t) == \E u \in Thread : Before(u, t) /\ k.stat[u] \in {"ready", "running"}
Served == \A t \in Thread : []<>(k.stat[t] # "ready" \/ Overtaken(t))

(* Nobody is passed over for ever: while one thread keeps waiting for the  *)
(* semaphore, the others do not go on getting it.                          *)
NobodyGetsIt == \A u \in Thread : Doing(u) = "waits" => Doing(u)' # "holds"

NotPassedOver ==
  \A t \in Thread : []<>(Doing(t) # "waits") \/ <>[][NobodyGetsIt]_vars
=============================================================================
