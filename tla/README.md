# TDPS rover: specifications and proofs

TDPS is a competition rover. An OpenMV camera (MicroPython) follows a line,
recognises arrows, traffic lights and obstacles and decides what to do; an STM32
under RT-Thread drives the wheels, reads the ultrasonic sensor and talks over
infrared to a gate; an mbed board opens the gate. This directory holds TLA+
modules of the rover's own programs and of the parts of RT-Thread they stand on,
TLC configurations that check them on small instances, and theorems proved with
TLAPS for all instances.

Source paths below are relative to the repository root (`src/` in
`PROJECT.json`). `MAIN` stands for `openmv_disk/main.py`, `APP` for
`RT-Thread/applications`.

## 1. Inventory

### Components, their state and their operations

| component | source | state | operations |
|---|---|---|---|
| camera: mission | `MAIN` 184-443 | `current_state` 1..7, `direction`, `old_direction`, `state_cnt`, `get_around_flag`, `delay_flag` | `track`, one handler per state, the loop that turns `direction` into a speed |
| camera: line tracking | `MAIN` 86-207, `openmv_disk/PID.py` | `old_output`, `old_direction` (`old_error` is written only; the I and D terms of the PID are off) | `get_error_filtered`, `low_pass_filter`, `get_pid` |
| camera: packets | `MAIN` 68-84 | the UART | `send_sp`: AA 55 and four bytes; `send_gate`: AA 01 |
| STM32: serial reception | `RT-Thread/drivers/drv_usart.c` 669-757, `.../serial/serial.c` 267-313, 1284-1342 | data register, ring buffer (`put_index`, `get_index`, `is_full`) | receive interrupt, `rx_indicate`, `rt_device_read` |
| STM32: decoder | `APP/commu.c` | `RecCmd_Step`, `index`, `Rx_buffer`, `sem_decoder` | `rx_callback` (interrupt), `commu_decoder_th` (priority 20) |
| STM32: motors | `APP/motor.c`, `RT-Thread/drivers/drv_pwm.c` 229-286 | `sp_data[4]` (written by the decoder), `sem_motorctrl`, TIM4 | `motor_ctrl_th` (priority 20), `drv_pwm_set` |
| STM32: infrared | `APP/infrared.c` | `stop_flag`, `sem_infrared` | `infrared_rx_callback` (interrupt), `infrared_th` (priority 21) |
| STM32: ultrasonic sensor | `APP/sr04.c` | none of its own; reads `stop_flag` | `sr04_th` (priority 20): one byte every 100 ms |
| STM32: encoders | `APP/encoder.c`, `RT-Thread/drivers/drv_pulse_encoder.c` | timer counter with its update and capture flags, `over_under_flowcount` | `encoder_th` (priority 9): read and clear every 100 ms; `pulse_encoder_update_isr`; its start is commented out in `APP/main.c` 12 |
| STM32: start-up | `APP/main.c` and the init functions | the handles of semaphores and port, `RT_NULL` until they are made | init functions in the order motor, commu, sr04, infrared, called by `main` (priority 10) |
| gate | `mbed/main.cpp` | `send_flag`, the servo | `rx_irp2` (interrupt), `send_go`, the loop of `main` |
| kernel: scheduler, threads | `RT-Thread/rt-thread/src/scheduler.c`, `thread.c` | `rt_current_thread`, state of each thread, `rt_thread_priority_table`, `remaining_tick` | `rt_schedule`, `rt_thread_startup`, `rt_thread_suspend`, `rt_thread_resume`, `rt_thread_sleep`, `_thread_exit`, `_thread_timeout` |
| kernel: clock, timers | `.../timer.c`, `clock.c` | `rt_tick`, `_timer_list` | `rt_tick_increase`, `rt_timer_check`, `rt_timer_start`, `rt_timer_stop` |
| kernel: semaphores | `.../ipc.c` 121-203, 479-649 | value, list of suspended threads | `rt_sem_take` with and without a limit, `rt_sem_release` |
| older camera programs | `openmv/*.py` | superseded by `MAIN` | |
| image tools | `tool/*.py` | none | |

The rest of the repository (about 2500 files) is vendored: STM32 HAL, CMSIS and
RT-Thread with its file systems, network stack and tools.

### How they interact

    main.py --AA 55 l l r r--> uart3 isr -> ring -> commu_decoder_th --sp_data--> motor_ctrl_th -> TIM4
            --AA 01----------->                          | sem_infrared, stop_flag
            <--distance or 0-- sr04_th <--- stop_flag ---+--> infrared_th --22 33 44--> gate
                                              ^---- uart2 isr <-------------22 33 44---- gate

* Camera to STM32: bytes, no length and no checksum.
* Interrupt to decoder: a ring buffer and a counting semaphore, one token per
  call of `rx_indicate`.
* Decoder to motors: the four bytes `sp_data`, without a lock, and a semaphore.
* Decoder, infrared interrupt, `infrared_th`, `sr04_th`: the plain global
  `stop_flag`.
* STM32 to camera: a stream of distance bytes in which zero means `stop_flag` is
  up.
* Rover to gate and back: infrared bytes, any of which may be lost.
* Applications to kernel: calls that end in `rt_schedule`; interrupts release
  semaphores and reschedule; SysTick wakes those whose time is over and takes the
  processor from a thread whose slice is used up.
* Threads to each other at start-up: `sr04_th` writes to the port the decoder finds,
  the decoder releases the semaphores of the other two.

### What is hard

Threads of equal priority share the processor by time slices, so they interleave
between any two accesses of shared data; interrupts come between any two
instructions. Bytes are lost by overruns and on the air. The applications have no
timeouts except the five-second repetition of the infrared request; in the kernel a
timeout may meet a release of the same thread, before that thread has left the
processor. The tick wraps. Messages are bytes whose meaning depends on the bytes
before them and on when they are read. A wheel may turn between reading, summing and
clearing its two counters. All hazards are listed in `PROJECT.json` with their lines and with the properties
that would catch them.

### What makes each component correct

* command path: commands are applied in order, the last one wins, a torn read is
  repaired, a lost byte is survived and never becomes a gate request;
* serial reception: a queue with a stated loss policy, and no byte that nobody is
  told of, from power on;
* start-up: nothing is used before it exists;
* kernel: no thread gets lost, the highest priority runs, equal ones take turns, no
  timer is overlooked, a semaphore is a counting semaphore;
* encoders: a count that is printed is where the wheel went;
* speed arithmetic: the part of the period a wheel is driven is the percentage asked
  for;
* gate protocol: no passing before the gate was opened, passing in the end;
* steering: the wheels are asked for speeds `send_sp` can send, also after stops,
  crossings, lost lines and on the way round an obstacle;
* mission: it stops for obstacles, waits at the gate, rests at the end.

## 2. Modules

| module | what it models |
|---|---|
| `SpeedCodec` | `send_sp`'s split of a speed into two bytes, the floats of `motor_ctrl_th`, the prescaler, limits and register of `drv_pwm_set` |
| `WheelSpeed` (`MCWheelSpeed`) | one speed on its way through `SpeedCodec` |
| `ByteFifo` | a bounded queue of bytes that gives up its oldest one |
| `CommuLink` (`MCCommuLink`) | the command path: camera, wire, receive interrupt, decoder thread, motor thread, semaphores |
| `CommandRegister` | abstract: a register of commands whose reader only moves forward; `CommuLink` implements it |
| `SerialRx` | the receive interrupt and the read function at the level of ring-buffer indices |
| `RxQueue` | abstract: the queue `SerialRx` implements, the one `CommuLink` and `Gate` use |
| `Startup` | extends `SerialRx`: `main`, its init functions, and the threads until uart3 is read |
| `RtKernel` (`MCRtKernel`) | scheduler, threads, timers, tick and one semaphore of RT-Thread |
| `CountingSemaphore` | abstract: the semaphore `RtKernel` implements, the one `CommuLink` and `Gate` use |
| `Encoder` | a wheel's timer, its interrupt and `encoder_th` |
| `Gate` | `state_5` to `state_7`, decoder, `infrared_th`, its interrupt, `sr04_th`, the air, the gate |
| `Steering` | operators: from the column of the line's edge to the speeds of the wheels |
| `Mission` | the state machine of `MAIN` with its steering and its loop |
| `CommuLinkProofs` | theorems: types, wake-ups and torn reads of `CommuLink` |
| `CommuStreamProofs` | extends it: what the parser makes of the stream of bytes, and the register |
| `StartupProofs`, `RtKernelProofs`, `EncoderProofs`, `GateProofs`, `MissionProofs`, `WheelSpeedProofs` | theorems and proofs about the module each is named after |

What one module assumes of another part another module shows: `CommuLink` and `Gate`
use a queue of bytes and counting semaphores; `Startup` shows that the ring buffer is
the queue (`RxQueue`), `RtKernel` that `ipc.c` makes the semaphore
(`CountingSemaphore`) and serves threads as the fairness of the others says
(`HighestRuns`, `Served`, `NotPassedOver`).

### CommuLink

`wire` and `ring` hold bytes. One action stands for one stretch of code between
two points where another thread or an interrupt can be seen to have run:

* `SendSp`, `SendGate`: `send_sp`, `send_gate`. `writechar` blocks, so frames do
  not overlap.
* `LoseByte`: an overrun of the UART; `uart_isr` clears the flag and the byte.
* `RxIsr`: `rt_hw_serial_isr` with `rx_callback`: store, drop the oldest when
  full, release `sem_decoder`.
* `DecoderRead`, `DecoderEmpty`, `DecoderTake`: `commu_decoder_th` reads until
  the buffer is empty and then waits. The read and the decision to wait are
  different steps from the take, which is where a wake-up could be lost.
* `DecoderCopy`, `DecoderRelease`: `memcpy` into `sp_data` (four aligned bytes, one
  word store), then the release of `sem_motorctrl`.
* `DecoderSignal`, `DecoderFlag`: `sem_infrared` first, `stop_flag` second.
* `MotorSet`, `MotorTake`, `MotorLoad` (one byte of `sp_data` each),
  `MotorConvert`: `motor_ctrl_th`.
* `GateOpened`: the infrared interrupt lowers `stop_flag`.

A release of a full semaphore is refused and ignored, as both callers ignore the
result of `rt_sem_release`.

### SerialRx and Startup

`Arrive` fills the data register or is an overrun; `IsrStore` is one turn of the
loop in `rt_hw_serial_isr`, `IsrIndicate` its end; `ReadByte` and `ReadNothing`
are `_serial_int_rx` with length 1, which disables interrupts. Bytes can arrive
while the handler loops, so one call of `rx_indicate` may stand for several bytes.

`Startup` puts these in the board. `CallInit` is one init function, which makes its
semaphore and its thread or fails after any part of that; `main` goes on in either
case. `DecoderFinds`, `DecoderOpens` and `DecoderListens` are the three calls of
`commu_decoder_th` before its loop: between the last two bytes are stored that nobody
is told of. `Use(h)` is a use of a handle, and `crashed` says that it was `RT_NULL`.
`ready` is the queue of priority 20; `TimeSlice` moves its first thread to the end,
unless the thread has only just got the processor.

### RtKernel

`k` is what the scheduler owns: the present thread, the state of each thread and its
`RT_THREAD_STAT_YIELD`, and the queue of ready threads of each priority. `Scheduled(k)` is
`rt_schedule`: `Highest`, whether the present thread `Stays`, the insertion of the one
that goes at the tail of its queue and the removal of the one that comes. A stretch of
code with interrupts disabled is one action; between two of them the uart interrupt
(`UartReleases`, `UartSchedules`) and SysTick (`Tick`, then one `Timeout` for each due
timer, then `CheckDone`) may come, SysTick into the uart interrupt too. So a thread
that has put itself to sleep and not yet called `rt_schedule` (`pc` is `"sched"` or
`"take"`) can be woken while it is still the present one: `rt_schedule_insert_thread`
then makes it run on, which is the case most of the invariants are about.

`timers` is `_timer_list`, which has one level on this board
(`RT_TIMER_SKIP_LIST_LEVEL` is 1): entries in the order of their timeouts,
compared modulo the width of the tick. `Calls` gives each thread the calls it may
make, in any order and for any of the `Times`.

### Encoder

The timer counts modulo `Reload + 1`, in both directions, and sets its update flag at a
wrap; the interrupt comes with a capture (`cc`), not with the wrap, so the handler
may find the flag late, and reads the direction after clearing it. `encoder_th` loads
`CNT` and `over_under_flowcount` in any order (`LoadCounter`, `LoadFlow`), sums them (`Read`),
clears one after the other (`ClearFlow`, `ClearCounter`) and judges (`Judge`). `truth`
records where the wheel was when it was read.

### Gate

`IrReceive` models that `infrared_rx_callback` reads one byte however many its
interrupt has stored, so a late interrupt leaves it one byte behind for ever.
`Cached` says which programs' builds keep `stop_flag` or `send_flag` in a register:
neither is volatile and both are read in an empty loop, so a compiler may do so.
`Timed` says that sleeps keep the order their lengths impose: `sr04_th` writes two
bytes in the two seconds before the gate answers, the gate's cycle ends before the
next request, and the camera's reading loop is faster than 100 ms. With
`Timed = FALSE` a sleep takes any time. The infrared modules are external:
FA F1 22 33 44 becomes 22 33 44 at the other side and an F1 at their own.

### Mission

One frame is `Track(edge)`, the handler of the current state, `Output`. `Track`
computes the speeds `sp` for the direction it finds, the handler may change the
direction, and `Output` sends `sp` or zeros (`Command`): speeds are computed before the
decision and sent after it. `edge` is the column of the first or last white entry
of the histogram, `NoEdge` without one. Errors are exact integers in fifteenths,
speeds in 75ths of a percent. What the camera
sees (arrow, colours, blobs) is nondeterminate. `Pedestrian` enters the loop that
reads all bytes (`DrainNear`, `DrainFar`, `DrainDone`), `AskForGate` the loop that
waits for a zero byte (`AwaitZero`); bytes keep arriving in both. `GoAround` enters
the blind way round an obstacle, six speeds with a sleep after each (`MAIN` 327-342): each
`DetourLeg` sends the next one of `Detour`, the last sets `get_around_flag`, and no byte
that arrives meanwhile is read. The deployed
program starts in state 3 (`MAIN` 417), so states 1 and 2 are reached only in the
behaviours that start in state 1, as `openmv/car2.py` does; `leftover` records what
`check_arrow` leaves in the shared `state_cnt`.

### SpeedCodec and WheelSpeed

Speeds are integers in thousandths of a percent. The two roundings of the
single-precision computation `(int)((a + b / 100.0f) * 10000)` are computed from
the exact value: the result is the exact product or one nanosecond less, and
`FallsShort` says when.

### Slips

Some modules define, next to an action, a variant a programmer could have written
by mistake (`FlagForgotten`, `StoreKeepsOldest`, `FarKeepsCount`, ...). They are
marked as slips, are not part of any specification, and are used as mutants:
putting one in the place of its action must violate the property `PROJECT.json`
names for it.

## 3. Runs

| run | properties | question |
|---|---|---|
| `link` | `TypeOK`, `InOrder`, `NoForgedGate`, `RegisterSpec`, `GateRequestArrives`, `LastCommandWins` | two packets, full of the tags 01 and 55, and a gate request in any order, one byte lost anywhere, every interleaving of interrupt, decoder and motors |
| `link_overflow` | `NoLostWakeup`, `Settled`, `Resync` | three packets, a buffer shorter than a packet, semaphores that saturate at 1 |
| `startup` | `TypeOK`, `NoNullUse`, `NoByteStuck`, `QueueSpec`, `EveryByteRead` | bytes before, while and after the port is opened; init functions that fail |
| `kernel` | `TypeOK`, `NoThreadLost`, `HighestRuns`, `TimersAhead`, `SemaphoreSpec`, `Served`, `NotPassedOver` | releases, timeouts, sleeps, starts and ends of threads in every interleaving |
| `encoder` | `AcceptedIsTrue`, `DiscardsHaveCause`, `StandsStill` | a wheel that turns at any moment and through zero |
| `gate_safe` | `TypeOK`, `PassAfterOpen`, `LoweredByGate` | no assumption on time, losses, late interrupts, a dying sensor, cached flags |
| `gate_live` | `RoverPasses` | up to four lost infrared bytes and three late interrupts |
| `mission` | `ObstaclePersists`, `NearStops`, `StandsAtGate`, `InReach`, `DetourFromRest`, `GreenAfterStop`, `RestartsStraight`, `GoesAround`, `EndsAtRest` | the mission from state 3 and from state 1 |
| `wheel_speed` | `NeverHeader`, `PulseIsSpeed`, `DutyIsSpeed` | every speed, from `send_sp` to the compare register |
| `gate_far` | `PassAfterOpen` violated | a distance of 256 cm |
| `mission_smooth` | `Smoothed` violated | does the low-pass filter smooth the steering |
| `gate_request_lost` | `RoverPasses` violated | a gate request lost before the decoder |

What each property says stands above its definition, with the code it is about.

### Bounds

* `MaxCmds`, `MaxGates`, `MaxLost` bound what a behaviour of `CommuLink` sends and
  loses. Two packets are enough to tear a read and to reorder; one lost byte shifts
  all that follow, and the bytes of `Tricky` contain the tags where a shift makes
  them count. `link_overflow` has three packets, to overflow a buffer of four
  bytes twice; those of `Torn` differ in every byte the properties look at. `RxCap`
  is 20 where the buffer shall not overflow (three frames have 18 bytes) and 4 where
  it shall; the board's is 64 and the proofs hold for any. `SemMax` 1 or 2 stands for
  65535.
* `Startup`: four bytes (`MaxBytes`) into a buffer of three (`BufSz`) wrap and
  overflow it, before and after the port is listened to.
* `RtKernel`: four threads are the least in which one (`main`, as on the board) is
  above two equal ones above the idle thread; one of the equal ones takes the
  semaphore with and without a limit and releases it, the other takes it with a
  limit and sleeps, so that both wait in its list and in the list of timers. `Times` 1
  and 2 make timers due together and one after the other; with `TickMod` 8 the tick
  wraps all the time; `SemMax` 1 makes releases be refused. The theorems hold for any.
* `Encoder`: three pulses between two clearings are enough to go forth and back
  through zero; `Reload` 7 and `Threshold` 3 stand for 32767 and 520, with the
  same gap between them (`EncoderAssumption`).
* `Gate`: one request per mission, as in the code; `Distances` has one near and one
  far value, and 256 in `gate_far`; `IrCap` 2 or 6 against 64; `MaxLate` lets
  the callback fall behind far enough for an answer to be seen in a later exchange.
* `Mission`: the limits 500 and 160 become 5 and 3; the theorems hold for any.
  `Bytes` has the zero, a near and a far value; `Edges` both ends of the picture and
  both sides of `width_const`.
* `WheelSpeed`: all thousandths of a percent from 0 to 66.999, beyond what the
  camera can ask for: base speed 35, correction at most 16 (`limit_error` cuts the
  error at 40 and the factor is 0.4), way round an obstacle +30; and from 99 to 100,
  where the pulse reaches the period.

### Fairness

* `CommuLink`: weak fairness of the interrupt, the decoder and the motor thread. An
  interrupt is taken when its byte is there; threads of equal and highest ready
  priority are served in turn. The camera need not send anything.
* `Startup`: `main` calls its functions, a pending interrupt is served and ends, the
  thread that has the processor goes on, and its slice ends. That no thread of
  higher priority keeps them from it for ever is in the model: `main` is done and
  `infrared_th` is lower.
* `RtKernel`: the clock ticks, the uart interrupt ends, and a thread that has the
  processor gets out of the kernel. Nothing is assumed of application code: `Served`
  holds although threads may run on and on, because SysTick takes the processor from
  them.
* `Encoder`: the handler ends, and `encoder_th`, whose priority is 9, gets to run.
* `Gate`: weak fairness of every program; strong fairness of `infrared_th`, which
  has the lowest priority and is ready again and again while the others sleep; and
  `WayClears`: nothing stands before the rover for ever. Losses are bounded, so a
  request is repeated more often than bytes can be lost.
* `Mission`: the loop of the camera goes on and `sr04_th` sends bytes.

### What the runs found

* `gate_far`: `send_data = (uint8_t)(distance / 10)` (`APP/sr04.c` 72) wraps, so
  256 cm arrive as zero. `state_5` takes this zero for the acknowledgement of its
  request, stops, takes the next distance for the open gate and drives into the
  closed one. `README.md` 18 says that the rover signals a gate to open and goes on
  once the gate is clear.
* `gate_request_lost`: `state_5` sends its request once and waits for a zero byte
  without limit (`MAIN` 369), the wheels driven and no picture taken. If the request
  is damaged the mission never goes on.

* `mission_smooth`: `get_error_filtered` stores the new error in `old_output`
  (`MAIN` 126, 136) before `low_pass_filter` reads it as the old one; the filter
  returns its input, and `alpha_value` has no effect.

Not properties but worth knowing: with an answer of the gate before the first zero
byte `sr04_th` sends, the camera would wait for ever; only the gate's two seconds of
sleep prevent it. `current_state` is 3 at power on, so the arrow and the traffic
light `README.md` 18 mentions are never handled. `MAIN` 436 sets `old_error` after a
crossing, which nothing reads: the steering from before the crossing stays in
`old_output`. `rt_schedule` leaves `RT_THREAD_STAT_YIELD` set in a thread that blocks
before its slice is served (`scheduler.c` 458): the mark survives the wait and
makes the thread give way to its equals once more than it need. A thread that is
preempted goes to the tail of its queue, so a higher priority that comes often
reorders those below it. `infrared_th` waits for `stop_flag` in an empty loop, so while
it does the idle thread, below it, gets no time. Backward counts of an encoder are
one short after each wrap, because a wrap counts `Reload` and not `Reload + 1`;
pulses between reading and clearing are lost; a wheel that trembles about zero
may have every round discarded. `sr04_th` ends for good at its first failed read
(`APP/sr04.c` 65), and then no distance and no zero ever reaches the camera:
`gate_safe` lets it happen, no liveness property can hold with it. `main` ignores what the init functions return, so
`NoNullUse` can only say that a crash follows a failed creation.

## 4. Proofs

All theorems hold for every value of the constants that meets the named
assumptions (`CodecAssumption`, `LinkAssumption`, `SerialAssumption`,
`KernelAssumption`, `EncoderAssumption`, `GateAssumption`, `MissionAssumption`,
`SpeedsAssumption`), which TLC evaluates in the runs.

| theorem | establishes | argument |
|---|---|---|
| `LinkTypeOK` | `TypeOK` of `CommuLink` | inductive as it stands, because it says how long `Rx_buffer` is in each place of the decoder; one lemma per group of actions |
| `LinkNoLostWakeup` | `NoLostWakeup` | inductive together with `TypeOK`: the decoder gets to the take only from an empty buffer, and whatever the interrupt stores after that leaves the semaphore above zero, since a refused release means it is full |
| `LinkSettled` | `Settled` | needs the strengthening `InHand` |
| `LinkNoForgedGate` | `NoForgedGate`, if no packet drives the left wheel at one percent (`LeftNeverOne`) | `GateInv`, see below |
| `LinkInOrder`, `LinkResync` | `InOrder`, `Resync` | `StreamInv`, see below |
| `LinkRegister` | `CommuLink` implements `CommandRegister` until a byte is lost (`RegisterSpec`) | `VersionInv` on top of `StreamInv`: the bytes in the hands of `motor_ctrl_th` come from copies that follow each other, and each copy is the packet of its number |
| `MissionTypeOK` | `TypeOK` of `Mission` | together with `LegsLeft`: the flag of `get_around` is set with the sixth leg, so no seventh is sent |
| `MissionNearStops`, `MissionStandsAtGate` | the same properties | strengthening `Places` (where the loop can be in which state), `StopDue`, `StopSent` |
| `MissionObstaclePersists` | the same property | strengthening `Counted` |
| `MissionAsDeployed` | more than `NearLimit` near bytes in a row, when the mission starts in state 3 | `Counted` and `NothingLeft` |
| `MissionInReach` | `InReach` for every column of the edge | strengthenings `Computed` and `Sent`, which lists the legs of the way round; lemmas about the operators of `Steering` |
| `MissionLeftByte` | the left wheel's byte of whole percents is 0, 60 or in 14..46 | from `Sent`; it is what makes `LeftNeverOne` true of the camera |
| `MissionRestartsStraight`, `MissionGreenAfterStop` | the same action properties | strengthening `Standing`, on top of the others |
| `MissionDetourFromRest` | `DetourFromRest` | `StopSent`: the stop that `pedestrian` has ordered is on the wheels when the next frame is handled; `Standing`: then `sp` is straight on |
| `StartupTypeOK` | `TypeOK` of `Startup` | `RingInv` and `BoardTypes` with the counts (`Counted`) and the flags (`Flags`) |
| `RingIsQueue` | `Startup` implements `RxQueue`, for every `BufSz` | `RingInv` ties `putIndex`, `getIndex` and `isFull` to the length; the content as a sequence is shown to gain its last and lose its first entry |
| `NothingStuck` | `NoByteStuck` | `Woken`: a decoder on its way to waiting with bytes in the buffer finds a token |
| `HandlesExist` | `NoNullUse` | `Made`: unless one failed, the init functions called so far have made their handles; `DecoderFirst`: the decoder is ahead of `sr04_th` in the queue of ready threads until it has found the port both use |
| `KernelTypeOK`, `KernelNoThreadLost`, `KernelHighestRuns` | the same invariants | one inductive invariant, see below |
| `KernelSemaphore` | `RtKernel` implements `CountingSemaphore` | with the same invariant every action is one of the semaphore's or changes nothing it sees |
| `KernelTimersAhead` | `TimersAhead` | strengthening `TimersInv`, see below |
| `KernelTimeoutsOnTime` | a timeout comes at the very tick its time is over (an action property) | the same invariant and `DueIs` |
| `CountsAreTrue` | `AcceptedIsTrue` | the counter is the displacement (`Tracks`), a count is it plus some number of wraps (`Counts`), and only the right number passes the threshold |
| `DiscardsCaused` | `DiscardsHaveCause` | `CInv`: without a wrap since the clearing there is no count and no flag of one |
| `GateTypeOK`, `GateLowers` | the same properties | `NoAnswer`: until the gate has opened there is nothing on the air to the rover and in its buffer but echoes, and an echo is not what the interrupt compares with |
| `GatePasses` | `PassAfterOpen`, if no distance is sent as zero (`NoZero`) | `Zeros`: until the gate has opened a zero byte on its way to the camera means that `stop_flag` is up, and only zeros follow it. `gate_far` shows that `NoZero` is needed |
| `SpeedsHideNoHeader`, `PulsesAreSpeeds` | `NeverHeader`, `PulseIsSpeed` | arithmetic, for all speeds up to 100 percent |
| `DutiesAreSpeeds` | `DutyIsSpeed`, for the period of `motor_ctrl_th` and any clock | `PulseInTicks`: two divisions one after the other lose less than a tick, and no pulse of up to a millisecond is above the period, which was rounded on its own |

The invariant of the kernel says three things at once, and none of them is
inductive alone. `SchedOK`: each ready thread is once in the queue of its priority,
nobody else is in one, only the present thread is running and the idle thread never
blocks. `Waits`: those that wait for the semaphore and those with an active timer
are exactly the suspended ones, each once. `Places`: a thread in its own code runs
and nobody ready is above it, unless the uart interrupt is about to reschedule; one
that waits is in `rt_sem_take` without an error, one that sleeps is not. The last part
decides what a timeout means: it takes a waiter out of both lists, and finds a
sleeper in one. `ScheduledOK` is the lemma about `rt_schedule`: from any state of
`SchedOK`, also one whose present thread has just been suspended, it ends with a
running thread that nobody ready is above, and wakes nobody and stops nobody.

`TimersAhead` says nothing of the moments inside `rt_timer_check`, where a timer may be
due. `TimersInv` covers them: each deadline is at least one tick ahead outside the
check and at least none inside it, at most `Half - 1` ahead, and the list is sorted by what is
left. A tick takes one from each (`TickNearest`), and only outside the check, so
nothing is ever overtaken by the tick. `StartsAhead` shows that the comparison modulo the
width of the tick in `rt_timer_start` puts a new timer exactly behind those with no
more left than it; `DueIs` that the one in `rt_timer_check` finds due what has nothing
left, and nothing else. Both rest on `Times \subseteq 1..Half-1`
(`KernelAssumption`), the assertion `time < RT_TICK_MAX / 2` of `timer.c` 273.

The parser has no length and no checksum, so what it does with a byte depends on all
bytes before. `CommuStreamProofs` gives each byte between camera and decoder a *label*:
which byte of which frame it is and how many packets and requests were written before
it. `Writes` says that the camera writes this byte at this label and which
label comes next; the place of the decoder (`Stage`, `Filled`) is related to the label
of the byte it reads next.

* `GateInv`. One lost byte leaves one *gap* in the labels (`Gapped`). Before it
  the decoder is `OnTrack`, it expects the byte that comes. Behind the gap it is on track or
  `OneShort`: having missed one byte it waits for a header, holds a header whose tag it
  has missed, or has one byte too few of its packet. A decoder that is one short and sees 01 as
  a tag would forge a request; that takes a packet whose speed tag is lost and whose next
  byte, the left wheel's percents, is 01. `LeftNeverOne` excludes it, and the property is
  false without it. `MissionLeftByte` proves that the mission sends no such packet:
  the byte of the left wheel is 0, from 14 to 46, or 60, the last on the way round an
  obstacle.
* `StreamInv`. Each unread byte also gets a *level*: what a decoder in any state
  must have come to when it has read up to there. Level 1: it waits for a header, or is in
  a packet and has at least the bytes of the one it reads (`NoLessThan`); 2: it is on
  track; 3: and the last packet is in `sp_data`. A frame
  raises the level (`SpeedGains`, `GateGains`): after one packet without a loss it is 2, after two it
  is 3, whatever the bytes are, because no payload byte is a header
  (`PacketBytes`: bytes up to 100). Before any loss all levels are 3 and the number
  of copies is the number of packets read, which is `InOrder`.

`Settled` is not inductive: it speaks of the moment the motor thread is back at
`rt_sem_take`, and says nothing of what it carries there. `InHand` adds, for each
place of `motor_ctrl_th`, that unless a token of `sem_motorctrl` is pending or the
decoder is about to release one, the bytes read so far, or the pulse widths computed,
or the compare registers, are those of the present `sp_data`. Every copy makes a
release pending, so a torn read always comes with a token that repeats it.

`NearStops`, `StandsAtGate` and `DetourFromRest` rest on a stop that is due (`StopDue`):
`StopSent` says that `direction` is already 0 when the loop gets to `Output`, and that
`wheels` has followed it when the next frame is tracked and handled.
`ObstaclePersists` counts bytes in history (`nearRun`, `leftover`) and `Counted` ties
these to `state_cnt`: `check_arrow` counts frames in the same variable and does not
reset it when it sees an arrow, so after an arrow the rover may go around an obstacle
earlier. `Standing` ties the last command to the direction `track` has seen: `wheels` is
zero exactly when that was stop, and then `sp` is straight on. `Computed` makes that
work, because a speed within reach is never zero.

### Only model-checked

* all liveness (`LastCommandWins`, `GateRequestArrives`, `EveryByteRead`, `Served`,
  `NotPassedOver`, `StandsStill`, `RoverPasses`, `GoesAround`, `EndsAtRest`):
  fairness is out of the prover's reach;

Every invariant, every action property and every refinement that a passing run checks
is also stated by a theorem.

## 5. Not modelled

* The picture: colours, circles, templates and blobs are nondeterminate results;
  the rounding of the camera's floats in the steering is ignored.
* The shell commands, among them the init functions called a second time
  (`APP/commu.c` 106) and `encoder_init`: nobody types while the rover drives.
  `Encoder` starts where `encoder_init` has opened the devices.
* Of the kernel: SMP, signals, changes of priority, periodic and soft timers,
  `rt_thread_yield`, deletion of objects, mailboxes, queues, mutexes and events,
  the locks of the scheduler. The applications use none of them.
* The arithmetic of a damaged packet, which may ask for up to 255 percent; `drv_pwm_set`
  cuts it at the period. `CommuLink` shows that such a speed does not last.
* Physics: position, speed and distance of the rover. In particular the gate closes
  two seconds after its answer, while the rover first reads it and drives five
  seconds; nothing in the code relates the two.
* DMA, polling and transmission of the serial framework, the other commands of the
  PWM driver, image tools, older camera programs.
* The rest of the repository: RT-Thread's components (file systems, network stack,
  shell, tools), the STM32 HAL and CMSIS. They are most of its lines; the rover's
  programs do not call them, or only to reach the hardware.

## 6. Plan

Done, in this order: `SpeedCodec`, `CommuLink` with `CommandRegister`, `SerialRx` with
`RxQueue`, `Gate`, `Mission` with `Steering`, `WheelSpeed`, `Startup`, `RtKernel` with
`CountingSemaphore`, `Encoder`, and the proofs above. To do:

1. A composition of `Mission` and `Gate`, so that the gate sees the distance
   bytes and the frames of one camera.
