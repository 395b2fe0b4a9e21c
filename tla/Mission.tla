------------------------------ MODULE Mission -------------------------------
(***************************************************************************)
(* The mission of the rover: the state machine of openmv_disk/main.py and  *)
(* the loop that runs it once per camera frame.  track steers along the    *)
(* line, the handler of the current state looks at the picture or at the   *)
(* distance bytes of the UART and sets direction, and the loop turns       *)
(* direction into a speed command.  What the camera sees is nondeterminate;*)
(* bytes of the STM32 arrive at any time.                                  *)
(***************************************************************************)
EXTENDS Steering, Sequences

CONSTANTS
  StartStates,  \* current_state at power on: 3 as deployed, 1 in car2.py
  ArrowLimit,   \* frames without an arrow before check_arrow gives up: 500
  NearLimit,    \* near bytes in a row before pedestrian gives up: 160
  DisConst,     \* DIS_CONST
  Bytes,        \* values of the distance byte
  UartCap,      \* bytes the UART of the OpenMV can hold
  Edges         \* columns in which the edge of the line may be seen

Byte == 0..255
NoEdge == -1

ASSUME MissionAssumption ==
  /\ StartStates \subseteq 1..3
  /\ ArrowLimit \in Nat /\ NearLimit \in Nat
  /\ DisConst \in 1..255
  /\ Bytes \subseteq Byte
  /\ UartCap \in Nat \ {0}
  /\ Edges \subseteq 0..Columns-1

VARIABLES
  state,          \* current_state
  direction,      \* 0 stop, 1 left, 2 forward, 3 right
  oldDirection,   \* old_direction
  oldOutput,      \* old_output
  sp,             \* sp_l and sp_r, the speeds track has computed
  stateCnt,       \* state_cnt, shared by check_arrow and pedestrian
  getAroundFlag, delayFlag,
  uart,           \* unread distance bytes
  leg,            \* the speeds of the way round that get_around has sent
  phase,          \* "track", "handle", "drain", "around", "await", "output"
  wheels          \* the last speed command: << >> or its two speeds

(* History: the last byte pedestrian or state_5 read, how many near bytes  *)
(* pedestrian has read in a row, and what check_arrow left in state_cnt    *)
(* until a far byte cleared it.                                            *)
VARIABLES lastByte, nearRun, leftover

steering == <<oldDirection, oldOutput, sp>>
history  == <<lastByte, nearRun, leftover>>
detour   == <<getAroundFlag, leg>>
vars == <<state, direction, steering, stateCnt, detour, delayFlag, uart, phase,
          wheels, history>>

Near(b) == b < DisConst

Init ==
  /\ state \in StartStates
  /\ direction = 3 /\ oldDirection = 3
  /\ oldOutput = 0 /\ sp = <<0, 0>>
  /\ stateCnt = 0
  /\ getAroundFlag = FALSE /\ leg = 0 /\ delayFlag = FALSE
  /\ uart = << >>
  /\ phase = "track" /\ wheels = << >>
  /\ lastByte = 255 /\ nearRun = 0 /\ leftover = 0

(* A distance byte of sr04_th; a full buffer discards it.                  *)
Arrive(b) ==
  /\ Len(uart) < UartCap
  /\ uart' = Append(uart, b)
  /\ UNCHANGED <<state, direction, steering, stateCnt, detour,
                 delayFlag, phase, wheels, history>>

(* Slip: without a line to follow the rover steers by its last error, even *)
(* when it stands.                                                         *)
SteersStanding(edge) ==
  /\ phase = "track"
  /\ LET remembered == IF oldDirection # direction /\ direction \in {1, 3}
                       THEN Hint(direction) ELSE oldOutput
         e == EdgeError(direction, edge)
         output == IF edge = NoEdge THEN remembered ELSE low_pass_filter(e, e)
     IN  /\ oldOutput' = output
         /\ sp' = Steer(limit_error(output))
  /\ oldDirection' = direction
  /\ phase' = "handle"
  /\ UNCHANGED <<state, direction, stateCnt, detour, delayFlag, uart,
                 wheels, history>>

(* track: steer to the edge of the line or, without one, by old_output,    *)
(* which a new direction has set to its hint; straight on for stop and     *)
(* forward.  get_error_filtered has put the error in old_output by the time*)
(* low_pass_filter reads it.                                               *)
Track(edge) ==
  /\ phase = "track"
  /\ IF direction \in {1, 3}
     THEN LET remembered == IF oldDirection # direction THEN Hint(direction)
                                                        ELSE oldOutput
              e == EdgeError(direction, edge)
              output == IF edge = NoEdge THEN remembered
                                         ELSE low_pass_filter(e, e)
          IN  oldOutput' = output /\ sp' = Steer(limit_error(output))
     ELSE sp' = Steer(0) /\ UNCHANGED oldOutput
  /\ oldDirection' = direction
  /\ phase' = "handle"
  /\ UNCHANGED <<state, direction, stateCnt, detour, delayFlag, uart,
                 wheels, history>>
-----------------------------------------------------------------------------
Handling(s) == phase = "handle" /\ state = s

(* 1: an arrow ends the state; so does looking for one for too long.       *)
ArrowSeen(d) ==
  /\ Handling(1)
  /\ direction' = d
  /\ state' = 2
  /\ phase' = "output"
  /\ UNCHANGED <<steering, stateCnt, detour, delayFlag, uart, wheels,
                 history>>

NoArrow ==
  /\ Handling(1)
  /\ IF stateCnt + 1 > ArrowLimit
     THEN stateCnt' = 0 /\ state' = 2
     ELSE stateCnt' = stateCnt + 1 /\ state' = 1
  /\ leftover' = stateCnt'
  /\ phase' = "output"
  /\ UNCHANGED <<direction, steering, detour, delayFlag, uart, wheels,
                 lastByte, nearRun>>

(* Slip: green goes on whether or not the rover has stopped before.        *)
GreenAlways(red, green) ==
  /\ Handling(2)
  /\ direction' = IF green THEN 3 ELSE IF red THEN 0 ELSE direction
  /\ state' = IF green THEN 3 ELSE 2
  /\ phase' = "output"
  /\ UNCHANGED <<steering, stateCnt, detour, delayFlag, uart, wheels,
                 history>>

(* 2: red stops; green goes on only from a stop that track has seen.       *)
TrafficLight(red, green) ==
  /\ Handling(2)
  /\ LET leave == green /\ oldDirection = 0
     IN  /\ direction' = IF leave THEN 3 ELSE IF red THEN 0 ELSE direction
         /\ state' = IF leave THEN 3 ELSE 2
  /\ phase' = "output"
  /\ UNCHANGED <<steering, stateCnt, detour, delayFlag, uart, wheels,
                 history>>

(* 3: read every byte there is; too many near ones in a row and the rover  *)
(* goes around, leaving the rest unread.                                   *)
Pedestrian ==
  /\ Handling(3)
  /\ phase' = "drain"
  /\ UNCHANGED <<state, direction, steering, stateCnt, detour,
                 delayFlag, uart, wheels, history>>

(* Slips: near bytes are counted without stopping; the rover stops without *)
(* counting them.                                                          *)
NearOnlyCounted ==
  /\ phase = "drain" /\ uart # << >> /\ Near(Head(uart))
  /\ uart' = Tail(uart)
  /\ lastByte' = Head(uart) /\ nearRun' = nearRun + 1
  /\ IF stateCnt + 1 > NearLimit
     THEN stateCnt' = 0 /\ state' = 4 /\ phase' = "output"
     ELSE stateCnt' = stateCnt + 1 /\ UNCHANGED <<state, phase>>
  /\ UNCHANGED <<direction, steering, detour, delayFlag, wheels, leftover>>

NearOnlyStops ==
  /\ phase = "drain" /\ uart # << >> /\ Near(Head(uart))
  /\ uart' = Tail(uart)
  /\ lastByte' = Head(uart) /\ nearRun' = IF nearRun > NearLimit THEN nearRun
                                                                ELSE nearRun + 1
  /\ direction' = 0
  /\ UNCHANGED <<state, steering, stateCnt, detour, delayFlag, phase,
                 wheels, leftover>>

(* Slip: pedestrian gives up before it has ordered the stop.               *)
GivesUpFirst ==
  /\ phase = "drain" /\ uart # << >> /\ Near(Head(uart))
  /\ uart' = Tail(uart)
  /\ lastByte' = Head(uart) /\ nearRun' = nearRun + 1
  /\ IF stateCnt + 1 > NearLimit
     THEN stateCnt' = 0 /\ state' = 4 /\ phase' = "output" /\ UNCHANGED direction
     ELSE stateCnt' = stateCnt + 1 /\ direction' = 0 /\ UNCHANGED <<state, phase>>
  /\ UNCHANGED <<steering, detour, delayFlag, wheels, leftover>>

DrainNear ==
  /\ phase = "drain" /\ uart # << >> /\ Near(Head(uart))
  /\ uart' = Tail(uart)
  /\ lastByte' = Head(uart) /\ nearRun' = nearRun + 1
  /\ direction' = 0
  /\ IF stateCnt + 1 > NearLimit
     THEN stateCnt' = 0 /\ state' = 4 /\ phase' = "output"
     ELSE stateCnt' = stateCnt + 1 /\ UNCHANGED <<state, phase>>
  /\ UNCHANGED <<steering, detour, delayFlag, wheels, leftover>>

(* Slip: a far byte does not restart the count.                            *)
FarKeepsCount ==
  /\ phase = "drain" /\ uart # << >> /\ ~Near(Head(uart))
  /\ uart' = Tail(uart)
  /\ lastByte' = Head(uart) /\ nearRun' = 0 /\ leftover' = 0
  /\ direction' = 3
  /\ UNCHANGED <<state, steering, stateCnt, detour, delayFlag, phase,
                 wheels>>

DrainFar ==
  /\ phase = "drain" /\ uart # << >> /\ ~Near(Head(uart))
  /\ uart' = Tail(uart)
  /\ lastByte' = Head(uart) /\ nearRun' = 0 /\ leftover' = 0
  /\ direction' = 3
  /\ stateCnt' = 0
  /\ UNCHANGED <<state, steering, detour, delayFlag, phase, wheels>>

DrainDone ==
  /\ phase = "drain" /\ uart = << >>
  /\ phase' = "output"
  /\ UNCHANGED <<state, direction, steering, stateCnt, detour,
                 delayFlag, uart, wheels, history>>

(* 4: drive around once, blindly, along six legs of a fixed time each; then*)
(* look for the green area.                                                *)
GoAround ==
  /\ Handling(4) /\ ~getAroundFlag
  /\ phase' = "around"
  /\ UNCHANGED <<state, direction, steering, stateCnt, detour, delayFlag,
                 uart, wheels, history>>

Detour == << <<0, SP_R + 30 * Percent>>, Straight,
             <<SP_L + 30 * Percent, 0>>, Straight,
             <<SP_L + 10 * Percent, 0>>, Straight >>

DetourLeg ==
  /\ phase = "around"
  /\ leg' = leg + 1
  /\ wheels' = Detour[leg']
  /\ IF leg' = Len(Detour)
     THEN getAroundFlag' = TRUE /\ direction' = 3 /\ phase' = "output"
     ELSE UNCHANGED <<getAroundFlag, direction, phase>>
  /\ UNCHANGED <<state, steering, stateCnt, delayFlag, uart, history>>

LookForGreen(blob) ==
  /\ Handling(4) /\ getAroundFlag
  /\ state' = IF blob THEN 5 ELSE 4
  /\ phase' = "output"
  /\ UNCHANGED <<direction, steering, stateCnt, detour, delayFlag,
                 uart, wheels, history>>

(* 5: drive on, ask for the gate, wait for a zero byte, stop; then one byte*)
(* per frame until one shows a distance.                                   *)
AskForGate ==
  /\ Handling(5) /\ ~delayFlag
  /\ wheels' = <<SP_L, SP_R + 10 * Percent>>
  /\ delayFlag' = TRUE
  /\ phase' = "await"
  /\ UNCHANGED <<state, direction, steering, stateCnt, detour, uart,
                 history>>

(* Slip: the acknowledgement ends the wait and does not stop the rover.    *)
AwaitOnly ==
  /\ phase = "await" /\ uart # << >>
  /\ uart' = Tail(uart)
  /\ lastByte' = Head(uart)
  /\ phase' = IF Head(uart) = 0 THEN "output" ELSE phase
  /\ UNCHANGED <<state, direction, steering, stateCnt, detour,
                 delayFlag, wheels, nearRun, leftover>>

AwaitZero ==
  /\ phase = "await" /\ uart # << >>
  /\ uart' = Tail(uart)
  /\ lastByte' = Head(uart)
  /\ IF Head(uart) = 0 THEN direction' = 0 /\ phase' = "output"
                       ELSE UNCHANGED <<direction, phase>>
  /\ UNCHANGED <<state, steering, stateCnt, detour, delayFlag, wheels,
                 nearRun, leftover>>

PollGate ==
  /\ Handling(5) /\ delayFlag
  /\ IF uart = << >>
     THEN UNCHANGED <<state, direction, uart, lastByte>>
     ELSE /\ uart' = Tail(uart)
          /\ lastByte' = Head(uart)
          /\ direction' = IF Near(Head(uart)) THEN 0 ELSE 3
          /\ state' = IF Near(Head(uart)) THEN 5 ELSE 6
  /\ phase' = "output"
  /\ UNCHANGED <<steering, stateCnt, detour, delayFlag, wheels,
                 nearRun, leftover>>

(* 6: five seconds straight on.  7: stop.                                  *)
DriveThrough ==
  /\ Handling(6)
  /\ wheels' = <<SP_L, SP_R + 10 * Percent>>
  /\ state' = 7
  /\ phase' = "output"
  /\ UNCHANGED <<direction, steering, stateCnt, detour, delayFlag,
                 uart, history>>

(* Slip: state_7 drives on.                                                *)
FinishDrives ==
  /\ Handling(7)
  /\ phase' = "output"
  /\ UNCHANGED <<state, direction, steering, stateCnt, detour,
                 delayFlag, uart, wheels, history>>

Finish ==
  /\ Handling(7)
  /\ direction' = 0
  /\ phase' = "output"
  /\ UNCHANGED <<state, steering, stateCnt, detour, delayFlag, uart,
                 wheels, history>>
-----------------------------------------------------------------------------
(* The speeds the end of the loop sends: zeros for stop, 30.8 and 35 for   *)
(* forward, what track has computed for left and right.                    *)
Command == IF direction = 0 THEN Stop ELSE IF direction = 2 THEN Straight ELSE sp

(* The end of the loop: forward drives straight for FOR_DELAY and turns    *)
(* into right.                                                             *)
Output ==
  /\ phase = "output"
  /\ wheels' = Command
  /\ direction' = IF direction = 2 THEN 3 ELSE direction
  /\ phase' = "track"
  /\ UNCHANGED <<state, steering, stateCnt, detour, delayFlag, uart,
                 history>>

Handler ==
  \/ \E d \in {1, 2} : ArrowSeen(d)
  \/ NoArrow
  \/ \E red, green \in BOOLEAN : TrafficLight(red, green)
  \/ Pedestrian \/ DrainNear \/ DrainFar \/ DrainDone
  \/ GoAround \/ DetourLeg \/ \E blob \in BOOLEAN : LookForGreen(blob)
  \/ AskForGate \/ AwaitZero \/ PollGate
  \/ DriveThrough \/ Finish

Loop == (\E edge \in Edges \cup {NoEdge} : Track(edge)) \/ Handler \/ Output

Next == Loop \/ \E b \in Bytes : Arrive(b)

Spec == Init /\ [][Next]_vars

(* The loop never ends, and sr04_th sends ten bytes a second.              *)
FairSpec == Spec /\ WF_vars(Loop) /\ WF_vars(\E b \in Bytes : Arrive(b))
-----------------------------------------------------------------------------
TypeOK ==
  /\ state \in 1..7 /\ direction \in 0..3 /\ oldDirection \in 0..3
  /\ stateCnt \in Nat
  /\ getAroundFlag \in BOOLEAN /\ delayFlag \in BOOLEAN
  /\ leg \in 0..Len(Detour)
  /\ uart \in Seq(Bytes)
  /\ phase \in {"track", "handle", "drain", "around", "await", "output"}
  /\ oldOutput \in Int /\ sp \in Int \X Int
  /\ wheels = << >> \/ wheels \in Int \X Int
  /\ lastByte \in Byte /\ nearRun \in Nat /\ leftover \in Nat

(* The rover leaves the lane to drive around an obstacle only when more    *)
(* than NearLimit distance bytes in a row were near, less the frames that  *)
(* check_arrow has counted in the same state_cnt, which an arrow does not  *)
(* clear: none when the mission starts in state 3.                         *)
ObstaclePersists ==
  state = 4 /\ ~getAroundFlag => nearRun + leftover > NearLimit

(* In state 3 the newest byte decides: at the end of a frame whose last    *)
(* byte was near the rover has been told to stop, however many bytes the   *)
(* frame read before, and the stop lasts until a far byte is read.         *)
NearStops ==
  state = 3 /\ phase = "track" /\ nearRun > 0 => wheels = Stop

(* Between the acknowledgement of the gate request and the first far byte  *)
(* the rover stands, in every frame.                                       *)
StandsAtGate == state = 5 /\ delayFlag /\ phase = "track" => wheels = Stop

(* However pedestrian comes to give up, after the near bytes of many frames*)
(* or at the first one because of what check_arrow left in state_cnt, the  *)
(* blind way round starts from a standstill; and the speeds that the end of*)
(* the loop sends after it, computed before it, are those for straight on. *)
DetourFromRest ==
  [][phase # "around" /\ phase' = "around"
       => wheels = Stop /\ sp = Straight]_vars

(* The rover leaves the traffic light only from a standstill: the frame    *)
(* that sees green was preceded by one that sent the stop, so red and green*)
(* in the same frame do not let it drive on.                               *)
GreenAfterStop == [][state = 2 /\ state' = 3 => wheels = Stop]_vars

(* send_sp can split every speed it is asked for: none is negative or above*)
(* 100 percent.  And what the end of the loop sends is zero or within 16   *)
(* percent of straight on, wherever the edge of the line jumps and whatever*)
(* old_output has kept from before a crossing, a lost line or the way round*)
(* an obstacle.                                                            *)
Splits(s) == \A i \in 1..2 : 0 <= s[i] /\ s[i] <= 100 * Percent

InRange(s) ==
  /\ SP_L - get_pid(MAX_ERROR) <= s[1] /\ s[1] <= SP_L + get_pid(MAX_ERROR)
  /\ SP_R - get_pid(MAX_ERROR) <= s[2] /\ s[2] <= SP_R + get_pid(MAX_ERROR)

InReach ==
  wheels # << >> =>
    /\ Splits(wheels)
    /\ phase \in {"track", "handle"} => wheels = Stop \/ InRange(wheels)

(* The frame that ends a stop goes straight on: the speeds it sends were   *)
(* computed before the handler changed the direction, when track did not   *)
(* look at the line, and no older steering may come back.                  *)
RestartsStraight ==
  [][phase = "output" /\ wheels = Stop /\ wheels' # Stop
       => wheels' = Straight]_vars

(* "Smooth the output with a low-pass filter", alpha 0.2 (main.py:56, 115):*)
(* while the direction stays, old_output moves a fifth of the way to the   *)
(* error of the edge in view at most.                                      *)
Distance(a, b) == IF a > b THEN a - b ELSE b - a

Smoothed ==
  [][\A edge \in Edges :
       Track(edge) /\ direction \in {1, 3} /\ oldDirection = direction
         => 5 * Distance(oldOutput', oldOutput)
              <= Distance(EdgeError(direction, edge), oldOutput)]_vars

(* An obstacle that stays is driven around, to the last leg: the rover does*)
(* not read near bytes in state 3 for ever.                                *)
GoesAround == (state = 3 /\ nearRun > 0) ~> (getAroundFlag \/ nearRun = 0)

(* The mission ends at rest.                                               *)
EndsAtRest == (state = 7) ~> [](state = 7 /\ wheels = Stop)
=============================================================================
