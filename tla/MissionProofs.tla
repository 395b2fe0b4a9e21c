--------------------------- MODULE MissionProofs ----------------------------
(***************************************************************************)
(* Proofs about Mission for every distance threshold, every limit, every   *)
(* set of distance bytes and every size of the camera's receive buffer.    *)
(***************************************************************************)
EXTENDS Mission, TLAPS

(* Steering: every error is an integer, and the speeds track computes lie  *)
(* within the reach of the limited error.                                  *)
LEMMA EdgeErrorInt ==
  ASSUME NEW d \in Int, NEW index \in Int PROVE EdgeError(d, index) \in Int
BY DEF EdgeError, width_const, WideGain, NarrowGain, Columns

(* The filter of the errors keeps them integers.                           *)
LEMMA FilterInt ==
  ASSUME NEW e \in Int PROVE low_pass_filter(e, e) \in Int
BY DEF low_pass_filter

(* A limited error leads to a speed within its reach.                      *)
LEMMA LimitedInRange ==
  ASSUME NEW e \in Int
  PROVE  Steer(limit_error(e)) \in Int \X Int /\ InRange(Steer(limit_error(e)))
BY DEF limit_error, MAX_ERROR, Steer, get_pid, InRange, SP_L, SP_R

(* So does no error at all.                                                *)
LEMMA StraightInRange == Steer(0) \in Int \X Int /\ InRange(Steer(0))
BY DEF MAX_ERROR, Steer, get_pid, InRange, SP_L, SP_R

(* The speeds that are not computed are integers too.                      *)
LEMMA SpeedsInt == /\ Stop \in Int \X Int /\ Straight \in Int \X Int
                   /\ <<SP_L, SP_R + 10 * Percent>> \in Int \X Int
BY DEF Stop, Straight, SP_L, SP_R, Percent

(* The six speeds of the way round an obstacle, of which 4875, 4560 and    *)
(* 3060 stand for 65, 60.8 and 40.8 percent of one wheel; none is a stop.  *)
LEMMA DetourSpeeds ==
  /\ Len(Detour) = 6
  /\ \A n \in 1..6 : /\ Detour[n] \in {Straight, <<0, 4875>>, <<4560, 0>>, <<3060, 0>>}
                     /\ Detour[n] \in Int \X Int /\ Detour[n] # Stop
BY DEF Detour, Straight, Stop, SP_L, SP_R, Percent

(* Whatever edge track sees, its speeds are within reach.                  *)
LEMMA TrackInRange ==
  ASSUME TypeOK, NEW edge \in Edges \cup {NoEdge}, Track(edge)
  PROVE  oldOutput' \in Int /\ sp' \in Int \X Int /\ InRange(sp')
<1>1. edge \in Int /\ direction \in Int /\ oldOutput \in Int
  BY MissionAssumption DEF NoEdge, TypeOK
<1>2. Hint(direction) \in Int
  BY DEF Hint
<1>3. low_pass_filter(EdgeError(direction, edge), EdgeError(direction, edge)) \in Int
  BY <1>1, EdgeErrorInt, FilterInt
<1>4. CASE direction \in {1, 3}
  <2>1. oldOutput' \in Int /\ sp' = Steer(limit_error(oldOutput'))
    BY <1>1, <1>2, <1>3, <1>4 DEF Track
  <2> QED
    BY <2>1, LimitedInRange
<1>5. CASE direction \notin {1, 3}
  BY <1>1, <1>5, StraightInRange DEF Track
<1> QED
  BY <1>4, <1>5

(* The types hold at first.                                                *)
LEMMA InitTypes == ASSUME Init PROVE TypeOK
<1> USE DEF Init
<1>1. state \in 1..7 /\ uart \in Seq(Bytes)
  BY MissionAssumption
<1>2. leg \in 0..Len(Detour)
  BY DetourSpeeds
<1>3. /\ direction \in 0..3 /\ oldDirection \in 0..3 /\ stateCnt \in Nat
      /\ lastByte \in Byte /\ nearRun \in Nat /\ leftover \in Nat
      /\ oldOutput \in Int /\ sp \in Int \X Int
  BY DEF Byte
<1>4. getAroundFlag \in BOOLEAN /\ delayFlag \in BOOLEAN
  OBVIOUS
<1> QED
  BY <1>1, <1>2, <1>3, <1>4 DEF TypeOK

(* get_around_flag is set with the last of the six legs.                   *)
LegsLeft == /\ phase = "around" => ~getAroundFlag
            /\ getAroundFlag <=> leg = Len(Detour)

(* So a leg is never sent that is not there.                               *)
LEMMA NextLeg ==
  ASSUME TypeOK, LegsLeft, DetourLeg
  PROVE  /\ leg' \in 1..6 /\ leg' = leg + 1
         /\ wheels' \in {Straight, <<0, 4875>>, <<4560, 0>>, <<3060, 0>>}
         /\ wheels' \in Int \X Int /\ wheels' # Stop
<1>1. leg' \in 1..6 /\ leg' = leg + 1 /\ wheels' = Detour[leg']
  BY DetourSpeeds DEF TypeOK, LegsLeft, DetourLeg
<1> QED
  BY <1>1, DetourSpeeds

(* No leg is driven at first.                                              *)
LEMMA InitLegs == Init => LegsLeft
BY DetourSpeeds DEF Init, LegsLeft

(* Every step keeps the legs and the flag together.                        *)
LEMMA LegsStep == TypeOK /\ LegsLeft /\ [Next]_vars => LegsLeft'
<1> SUFFICES ASSUME TypeOK, LegsLeft, [Next]_vars PROVE LegsLeft'
  OBVIOUS
<1>1. CASE DetourLeg
  <2>1. ~getAroundFlag
    BY <1>1 DEF LegsLeft, DetourLeg
  <2>2. CASE leg' = Len(Detour)
    BY <1>1, <2>2 DEF DetourLeg, LegsLeft
  <2>3. CASE leg' # Len(Detour)
    BY <1>1, <2>1, <2>3 DEF DetourLeg, LegsLeft
  <2> QED
    BY <2>2, <2>3
<1>2. CASE GoAround
  BY <1>2 DEF GoAround, LegsLeft, detour
<1>3. CASE UNCHANGED detour /\ phase' # "around"
  BY <1>3 DEF LegsLeft, detour
<1>4. CASE UNCHANGED <<detour, phase>>
  BY <1>4 DEF LegsLeft, detour
<1> QED
  BY <1>1, <1>2, <1>3, <1>4
     DEF Next, Loop, Handler, Arrive, Track, ArrowSeen, NoArrow, TrafficLight,
         Pedestrian, DrainNear, DrainFar, DrainDone, LookForGreen, AskForGate,
         AwaitZero, PollGate, DriveThrough, Finish, Output, vars

(* Every step keeps the types.                                             *)
LEMMA TypeStep == TypeOK /\ LegsLeft /\ [Next]_vars => TypeOK'
<1> SUFFICES ASSUME TypeOK, LegsLeft, [Next]_vars PROVE TypeOK'
  OBVIOUS
<1> USE DEF TypeOK, steering, detour, history
<1>1. ASSUME NEW b \in Bytes, Arrive(b) PROVE TypeOK'
  BY <1>1 DEF Arrive
<1>2. ASSUME NEW edge \in Edges \cup {NoEdge}, Track(edge) PROVE TypeOK'
  <2>1. oldOutput' \in Int /\ sp' \in Int \X Int
    BY <1>2, TrackInRange
  <2> QED
    BY <1>2, <2>1 DEF Track
<1>3. ASSUME NEW d \in {1, 2}, ArrowSeen(d) PROVE TypeOK'
  BY <1>3 DEF ArrowSeen
<1>4. CASE NoArrow
  BY <1>4 DEF NoArrow
<1>5. ASSUME NEW red \in BOOLEAN, NEW green \in BOOLEAN,
             TrafficLight(red, green)
      PROVE  TypeOK'
  BY <1>5 DEF TrafficLight
<1>6. CASE Pedestrian
  BY <1>6 DEF Pedestrian
<1>7. CASE DrainNear
  <2>1. Head(uart) \in Byte /\ Tail(uart) \in Seq(Bytes)
    BY <1>7, MissionAssumption DEF DrainNear
  <2> QED
    BY <1>7, <2>1 DEF DrainNear
<1>8. CASE DrainFar
  <2>1. Head(uart) \in Byte /\ Tail(uart) \in Seq(Bytes)
    BY <1>8, MissionAssumption DEF DrainFar
  <2> QED
    BY <1>8, <2>1 DEF DrainFar
<1>9. CASE DrainDone
  BY <1>9 DEF DrainDone
<1>10. CASE GoAround
  BY <1>10 DEF GoAround
<1>a. CASE DetourLeg
  <2>1. leg' \in 1..6 /\ wheels' \in Int \X Int
    BY <1>a, NextLeg
  <2>2. leg' \in 0..Len(Detour)
    BY <2>1, DetourSpeeds
  <2>3. getAroundFlag' \in BOOLEAN /\ direction' \in 0..3
    <3>1. \/ getAroundFlag' = TRUE /\ direction' = 3
          \/ getAroundFlag' = getAroundFlag /\ direction' = direction
      BY <1>a, Zenon DEF DetourLeg
    <3>2. getAroundFlag' \in BOOLEAN
      BY <3>1, Zenon
    <3>3. direction' \in 0..3
      BY <3>1, SMT
    <3> QED
      BY <3>2, <3>3
  <2>4. phase' \in {"around", "output"}
    BY <1>a DEF DetourLeg
  <2> QED
    BY <1>a, <2>1, <2>2, <2>3, <2>4 DEF DetourLeg
<1>11. ASSUME NEW blob \in BOOLEAN, LookForGreen(blob) PROVE TypeOK'
  BY <1>11 DEF LookForGreen
<1>12. CASE AskForGate
  BY <1>12, SpeedsInt DEF AskForGate
<1>13. CASE AwaitZero
  <2>1. Head(uart) \in Byte /\ Tail(uart) \in Seq(Bytes)
    BY <1>13, MissionAssumption DEF AwaitZero
  <2> QED
    BY <1>13, <2>1 DEF AwaitZero
<1>14. CASE PollGate
  <2>1. uart # << >> => Head(uart) \in Byte /\ Tail(uart) \in Seq(Bytes)
    BY MissionAssumption
  <2>2. CASE uart = << >>
    BY <1>14, <2>2 DEF PollGate
  <2>3. CASE uart # << >>
    <3>1. state' \in 1..7 /\ direction' \in 0..3
      BY <1>14, <2>3 DEF PollGate
    <3> QED
      BY <1>14, <2>1, <2>3, <3>1 DEF PollGate
  <2> QED
    BY <2>2, <2>3
<1>15. CASE DriveThrough
  BY <1>15, SpeedsInt DEF DriveThrough
<1>16. CASE Finish
  BY <1>16 DEF Finish
<1>17. CASE Output
  <2>1. Command \in Int \X Int
    BY SpeedsInt DEF Command
  <2>2. direction' \in 0..3 /\ wheels' \in Int \X Int
    BY <1>17, <2>1 DEF Output
  <2> QED
    BY <1>17, <2>2 DEF Output
<1>18. CASE UNCHANGED vars
  BY <1>18 DEF vars
<1> QED
  BY <1>1, <1>2, <1>3, <1>4, <1>5, <1>6, <1>7, <1>8, <1>9, <1>10, <1>11,
     <1>12, <1>13, <1>14, <1>15, <1>16, <1>17, <1>18, <1>a
     DEF Next, Loop, Handler

(* The types hold for every start, limit, threshold and byte stream; in    *)
(* particular current_state stays a key of state_functions.                *)
THEOREM MissionTypeOK == Spec => []TypeOK
BY InitTypes, TypeStep, InitLegs, LegsStep, PTL DEF Spec

(* Nor is there ever a leg too many.                                       *)
LEMMA MissionLegs == Spec => []LegsLeft
BY MissionTypeOK, InitLegs, LegsStep, PTL DEF Spec
-----------------------------------------------------------------------------
(* Where a state of the mission can be in the loop, and what the loop will *)
(* send.  drain belongs to pedestrian, await to state_5 and follows the    *)
(* request, around to get_around before its flag is set; near bytes are    *)
(* counted from state 3 on; and a stop that is due is in direction until   *)
(* Output has sent it, and then on the wheels when the next frame is       *)
(* handled.                                                                *)
Places ==
  /\ phase = "drain" => state = 3
  /\ phase = "await" => state = 5 /\ delayFlag
  /\ phase = "around" => state = 4 /\ ~getAroundFlag
  /\ delayFlag => state >= 5
  /\ nearRun > 0 => state >= 3

StopDue == \/ state = 3 /\ nearRun > 0
           \/ state = 4 /\ ~getAroundFlag
           \/ state = 5 /\ delayFlag /\ phase # "await"

StopSent == StopDue => /\ direction = 0
                       /\ phase \in {"track", "handle"} => wheels = Stop

(* No stop is due at first.                                                *)
LEMMA InitStops == Init => Places /\ StopSent
BY MissionAssumption DEF Init, Places, StopSent, StopDue

(* Every step keeps a stop that is due ordered, and orders one that becomes*)
(* due before the loop looks at the next frame.                            *)
LEMMA StopsStep ==
  TypeOK /\ Places /\ StopSent /\ [Next]_vars => Places' /\ StopSent'
<1> SUFFICES ASSUME TypeOK, Places, StopSent, [Next]_vars
             PROVE  Places' /\ StopSent'
  OBVIOUS
<1> USE DEF TypeOK, Places, StopSent, StopDue, Handling, steering, detour, history
<1>1. ASSUME NEW b \in Bytes, Arrive(b) PROVE Places' /\ StopSent'
  BY <1>1 DEF Arrive
<1>2. ASSUME NEW edge \in Edges \cup {NoEdge}, Track(edge)
      PROVE  Places' /\ StopSent'
  BY <1>2 DEF Track
<1>3. ASSUME NEW d \in {1, 2}, ArrowSeen(d) PROVE Places' /\ StopSent'
  BY <1>3 DEF ArrowSeen
<1>4. CASE NoArrow
  BY <1>4 DEF NoArrow
<1>5. ASSUME NEW red \in BOOLEAN, NEW green \in BOOLEAN,
             TrafficLight(red, green)
      PROVE  Places' /\ StopSent'
  BY <1>5 DEF TrafficLight
<1>6. CASE Pedestrian
  BY <1>6 DEF Pedestrian
<1>7. CASE DrainNear
  BY <1>7 DEF DrainNear
<1>8. CASE DrainFar
  BY <1>8 DEF DrainFar
<1>9. CASE DrainDone
  BY <1>9 DEF DrainDone
<1>10. CASE GoAround
  BY <1>10 DEF GoAround
<1>a. CASE DetourLeg
  BY <1>a DEF DetourLeg
<1>11. ASSUME NEW blob \in BOOLEAN, LookForGreen(blob)
       PROVE  Places' /\ StopSent'
  BY <1>11 DEF LookForGreen
<1>12. CASE AskForGate
  BY <1>12 DEF AskForGate
<1>13. CASE AwaitZero
  BY <1>13 DEF AwaitZero
<1>14. CASE PollGate
  BY <1>14 DEF PollGate
<1>15. CASE DriveThrough
  BY <1>15 DEF DriveThrough
<1>16. CASE Finish
  BY <1>16 DEF Finish
<1>17. CASE Output
  <2>1. direction = 0 => direction' = 0 /\ wheels' = Stop
    BY <1>17 DEF Output, Command
  <2> QED
    BY <1>17, <2>1 DEF Output
<1>18. CASE UNCHANGED vars
  BY <1>18 DEF vars
<1> QED
  BY <1>1, <1>2, <1>3, <1>4, <1>5, <1>6, <1>7, <1>8, <1>9, <1>10, <1>11,
     <1>12, <1>13, <1>14, <1>15, <1>16, <1>17, <1>18, <1>a
     DEF Next, Loop, Handler

(* However many bytes a frame reads, however they are mixed and wherever   *)
(* the buffer cuts them: a frame of pedestrian whose last byte was near has*)
(* stopped the rover.                                                      *)
THEOREM MissionNearStops == Spec => []NearStops
<1>1. Places /\ StopSent => NearStops
  BY DEF StopSent, StopDue, NearStops
<1> QED
  BY <1>1, MissionTypeOK, InitStops, StopsStep, PTL DEF Spec

(* From the zero that acknowledges the gate request to the first far byte  *)
(* the rover stands in every frame, for every threshold and byte stream.   *)
THEOREM MissionStandsAtGate == Spec => []StandsAtGate
<1>1. Places /\ StopSent => StandsAtGate
  BY DEF StopSent, StopDue, StandsAtGate
<1> QED
  BY <1>1, MissionTypeOK, InitStops, StopsStep, PTL DEF Spec
-----------------------------------------------------------------------------
(* state_cnt is shared by check_arrow and pedestrian and never runs ahead  *)
(* of the near bytes read in a row and what check_arrow has left in it.    *)
Counted ==
  /\ state <= 2 => stateCnt = leftover
  /\ state = 3 => stateCnt <= nearRun + leftover
  /\ ObstaclePersists

(* Nothing is counted at first.                                            *)
LEMMA InitCounted == Init => Counted
BY MissionAssumption DEF Init, Counted, ObstaclePersists

(* Every step keeps what the count of near bytes rests on.                 *)
LEMMA CountedStep == TypeOK /\ Places /\ Counted /\ [Next]_vars => Counted'
<1> SUFFICES ASSUME TypeOK, Places, Counted, [Next]_vars PROVE Counted'
  OBVIOUS
<1> USE DEF TypeOK, Counted, ObstaclePersists, Handling, steering, detour, history
<1>m. NearLimit \in Nat
  BY MissionAssumption
<1>1. CASE DrainNear
  <2>1. state = 3 /\ stateCnt <= nearRun + leftover
    BY <1>1 DEF DrainNear, Places
  <2>2. nearRun' = nearRun + 1 /\ leftover' = leftover
    BY <1>1 DEF DrainNear
  <2>3. CASE stateCnt + 1 > NearLimit
    <3>1. state' = 4 /\ nearRun' + leftover' > NearLimit
      BY <1>m, <1>1, <2>1, <2>2, <2>3 DEF DrainNear
    <3> QED
      BY <3>1
  <2>4. CASE ~(stateCnt + 1 > NearLimit)
    <3>1. state' = 3 /\ stateCnt' <= nearRun' + leftover'
      BY <1>1, <2>1, <2>2, <2>4 DEF DrainNear
    <3> QED
      BY <3>1
  <2> QED
    BY <2>3, <2>4
<1>2. CASE DrainFar
  BY <1>2 DEF DrainFar, Places
<1>3. ASSUME NEW red \in BOOLEAN, NEW green \in BOOLEAN,
             TrafficLight(red, green)
      PROVE  Counted'
  BY <1>3 DEF TrafficLight
<1>4. CASE NoArrow
  BY <1>4 DEF NoArrow
<1>5. ASSUME NEW d \in {1, 2}, ArrowSeen(d) PROVE Counted'
  BY <1>5 DEF ArrowSeen
<1>6. CASE DetourLeg
  BY <1>6 DEF DetourLeg
<1>7. ASSUME NEW blob \in BOOLEAN, LookForGreen(blob) PROVE Counted'
  BY <1>7 DEF LookForGreen
<1>8. CASE PollGate
  BY <1>8 DEF PollGate
<1>9. CASE DriveThrough
  BY <1>9 DEF DriveThrough
<1>10. CASE UNCHANGED <<state, stateCnt, nearRun, leftover, getAroundFlag>>
  BY <1>10
<1> QED
  BY <1>1, <1>2, <1>3, <1>4, <1>5, <1>6, <1>7, <1>8, <1>9, <1>10
     DEF Next, Loop, Handler, Arrive, Track, Pedestrian, DrainDone, GoAround,
         AskForGate, AwaitZero, Finish, Output, vars

(* The rover goes around an obstacle only after more than NearLimit near   *)
(* bytes in a row, less what check_arrow left, for every limit.            *)
THEOREM MissionObstaclePersists == Spec => []ObstaclePersists
<1>1. Counted => ObstaclePersists
  BY DEF Counted
<1> QED
  BY <1>1, MissionTypeOK, InitStops, StopsStep, InitCounted,
     CountedStep, PTL DEF Spec

(* As deployed, from state 3, check_arrow leaves nothing: NearLimit near   *)
(* bytes in a row never suffice.                                           *)
NothingLeft == state >= 3 /\ leftover = 0

(* Nothing comes back into the count once state 3 is reached.              *)
LEMMA NothingLeftStep == TypeOK /\ Places /\ NothingLeft /\ [Next]_vars => NothingLeft'
<1> SUFFICES ASSUME TypeOK, Places, NothingLeft, [Next]_vars PROVE NothingLeft'
  OBVIOUS
<1> USE DEF TypeOK, Places, NothingLeft, Handling, steering, detour, history
<1>1. CASE Handler
  BY <1>1 DEF Handler, ArrowSeen, NoArrow, TrafficLight, Pedestrian, DrainNear,
              DrainFar, DrainDone, GoAround, DetourLeg, LookForGreen, AskForGate,
              AwaitZero, PollGate, DriveThrough, Finish
<1> QED
  BY <1>1 DEF Next, Loop, Arrive, Track, Output, vars

(* As deployed, from state 3, the rover leaves the lane only after more    *)
(* than NearLimit near bytes in a row.                                     *)
THEOREM MissionAsDeployed ==
  ASSUME StartStates = {3}
  PROVE  Spec => [](state = 4 /\ ~getAroundFlag => nearRun > NearLimit)
<1>1. Init => NothingLeft
  BY DEF Init, NothingLeft
<1>2. TypeOK /\ Counted /\ NothingLeft
        => (state = 4 /\ ~getAroundFlag => nearRun > NearLimit)
  BY DEF TypeOK, Counted, NothingLeft, ObstaclePersists
<1> QED
  BY <1>1, <1>2, MissionTypeOK, InitStops, StopsStep, InitCounted,
     CountedStep, NothingLeftStep, PTL DEF Spec
-----------------------------------------------------------------------------
(* The speeds: what track has computed is within reach whenever the loop   *)
(* is past it, so what the loop sends is; what is sent besides are six     *)
(* speeds of the way round, three of them for one wheel alone.             *)
Computed == phase # "track" => InRange(sp)

Sent ==
  /\ \/ wheels \in {<< >>, Stop, <<0, 4875>>, <<4560, 0>>, <<3060, 0>>}
     \/ InRange(wheels)
  /\ phase \in {"track", "handle"} => wheels \in {<< >>, Stop} \/ InRange(wheels)

(* Nothing is computed or sent at first.                                   *)
LEMMA InitSent == Init => Computed /\ Sent
BY DEF Init, Computed, Sent

(* Every step computes speeds within reach, and sends them or a leg of the *)
(* way round.                                                              *)
LEMMA SentStep ==
  TypeOK /\ LegsLeft /\ Computed /\ Sent /\ [Next]_vars => Computed' /\ Sent'
<1> SUFFICES ASSUME TypeOK, LegsLeft, Computed, Sent, [Next]_vars
             PROVE  Computed' /\ Sent'
  OBVIOUS
<1>r. InRange(Straight) /\ InRange(<<SP_L, SP_R + 10 * Percent>>)
  BY DEF InRange, Straight, SP_L, SP_R, Percent, get_pid, MAX_ERROR
<1>1. ASSUME NEW edge \in Edges \cup {NoEdge}, Track(edge)
      PROVE  Computed' /\ Sent'
  <2>1. InRange(sp') /\ wheels' = wheels /\ phase = "track"
    BY <1>1, TrackInRange DEF Track
  <2> QED
    BY <2>1 DEF Computed, Sent, InRange
<1>2. CASE Output
  <2>1. phase # "track" /\ phase' = "track" /\ wheels' = Command
    BY <1>2 DEF Output
  <2>2. Command \in {<< >>, Stop} \/ InRange(Command)
    BY <1>r, <2>1 DEF Command, Computed
  <2> QED
    BY <2>1, <2>2 DEF Computed, Sent, InRange, Stop
<1>3. CASE DetourLeg
  <2>1. /\ phase = "around" /\ phase' \in {"around", "output"} /\ sp' = sp
    BY <1>3 DEF DetourLeg, steering
  <2>2. wheels' \in {Straight, <<0, 4875>>, <<4560, 0>>, <<3060, 0>>}
    BY <1>3, NextLeg
  <2> QED
    BY <1>r, <2>1, <2>2 DEF Computed, Sent, InRange
<1>4. CASE AskForGate \/ DriveThrough
  <2>1. phase # "track" /\ sp' = sp /\ InRange(wheels')
    BY <1>4, <1>r DEF AskForGate, DriveThrough, Handling, steering, InRange
  <2> QED
    BY <2>1 DEF Computed, Sent, InRange
<1>5. CASE UNCHANGED <<sp, wheels, phase>>
  BY <1>5 DEF Computed, Sent, InRange
<1>6. CASE /\ UNCHANGED <<sp, wheels>>
           /\ phase # "track" /\ phase' \notin {"track", "handle"}
  BY <1>6 DEF Computed, Sent, InRange
<1> QED
  BY <1>1, <1>2, <1>3, <1>4, <1>5, <1>6
     DEF Next, Loop, Handler, Arrive, ArrowSeen, NoArrow, TrafficLight,
         Pedestrian, DrainNear, DrainFar, DrainDone, GoAround, LookForGreen,
         AwaitZero, PollGate, Finish, Handling, steering, vars

(* Whatever the camera sees and whichever directions follow one another,   *)
(* send_sp can split every speed it is asked for, those of the way round   *)
(* an obstacle included, and the loop itself steers within 16 percent of   *)
(* straight on.                                                            *)
THEOREM MissionInReach == Spec => []InReach
<1>1. TypeOK /\ Sent => InReach
  <2> SUFFICES ASSUME TypeOK, Sent, wheels # << >>
               PROVE  /\ Splits(wheels)
                      /\ phase \in {"track", "handle"} => wheels = Stop \/ InRange(wheels)
    BY DEF InReach
  <2>1. CASE InRange(wheels)
    <3> DEFINE left == wheels[1]
               right == wheels[2]
    <3>1. left \in Int /\ right \in Int
      BY DEF TypeOK
    <3>2. 1110 <= left /\ left <= 3510 /\ 1425 <= right /\ right <= 3825
      BY <2>1 DEF InRange, SP_L, SP_R, get_pid, MAX_ERROR
    <3> HIDE DEF left, right
    <3>3. 0 <= left /\ left <= 100 * 75 /\ 0 <= right /\ right <= 100 * 75
      BY <3>1, <3>2
    <3> QED
      BY <2>1, <3>3 DEF Splits, Percent, left, right
  <2>2. CASE wheels \in {Stop, <<0, 4875>>, <<4560, 0>>, <<3060, 0>>}
    <3>1. Splits(wheels)
      BY <2>2 DEF Splits, Percent, Stop
    <3> QED
      BY <3>1 DEF Sent
  <2> QED
    BY <2>1, <2>2 DEF Sent
<1> QED
  BY <1>1, MissionTypeOK, MissionLegs, InitSent, SentStep, PTL DEF Spec

(* The byte of whole percents that send_sp writes for the left wheel.      *)
LeftByte == wheels[1] \div Percent

(* It is 0 for a stop and for the first leg of the way round, 60 for the   *)
(* third, and in 14..46 for everything else that is ever sent: never 1, the*)
(* tag of a gate request, so a decoder that has lost the tag of a speed    *)
(* packet takes no packet of the mission for a request, which is what      *)
(* LinkNoForgedGate supposes of the commands.                              *)
THEOREM MissionLeftByte ==
  Spec => [](wheels # << >> => LeftByte \in {0, 60} \cup 14..46)
<1>1. TypeOK /\ Sent => (wheels # << >> => LeftByte \in {0, 60} \cup 14..46)
  <2> SUFFICES ASSUME TypeOK, Sent, wheels # << >>
               PROVE  LeftByte \in {0, 60} \cup 14..46
    OBVIOUS
  <2>1. CASE wheels \in {Stop, <<0, 4875>>, <<4560, 0>>, <<3060, 0>>}
    <3>1. wheels[1] \in {0, 4560, 3060}
      BY <2>1 DEF Stop
    <3>2. 0 \div 75 = 0 /\ 4560 \div 75 = 60 /\ 3060 \div 75 = 40
      OBVIOUS
    <3>3. LeftByte \in {0, 60, 40}
      BY <3>1, <3>2 DEF LeftByte, Percent
    <3> QED
      BY <3>3
  <2>2. CASE InRange(wheels)
    <3> DEFINE left == wheels[1]
    <3>1. left \in Int
      BY DEF TypeOK
    <3>2. 1110 <= left /\ left <= 3510
      BY <2>2 DEF InRange, SP_L, get_pid, MAX_ERROR
    <3>3. LeftByte = left \div 75
      BY DEF LeftByte, Percent
    <3> HIDE DEF left
    <3>4. left \div 75 \in 14..46
      BY <3>1, <3>2
    <3> QED
      BY <3>3, <3>4
  <2> QED
    BY <2>1, <2>2 DEF Sent
<1> QED
  BY <1>1, MissionTypeOK, MissionLegs, InitSent, SentStep, PTL DEF Spec
-----------------------------------------------------------------------------
(* A standing rover: wheels says so exactly when the direction track sees  *)
(* is stop, and then what track computes is straight on.                   *)
Standing ==
  /\ phase = "track" => (wheels = Stop <=> direction = 0)
  /\ phase = "handle" => (wheels = Stop <=> oldDirection = 0)
  /\ wheels = Stop /\ phase # "track" => oldDirection = 0
  /\ oldDirection = 0 /\ phase # "track" => sp = Straight

(* No speed within reach is a stop.                                        *)
LEMMA RangeMoves == ASSUME NEW s, InRange(s) PROVE s # Stop
BY DEF InRange, Stop, SP_L, SP_R, get_pid, MAX_ERROR

(* The rover has not been stopped at first.                                *)
LEMMA InitStanding == Init => Standing
BY DEF Init, Standing, Stop

(* Every step keeps the rover standing exactly while it sees the stop.     *)
LEMMA StandingStep ==
  TypeOK /\ LegsLeft /\ Computed /\ Standing /\ [Next]_vars => Standing'
<1> SUFFICES ASSUME TypeOK, LegsLeft, Computed, Standing, [Next]_vars
             PROVE  Standing'
  OBVIOUS
<1>r. Straight # Stop /\ <<SP_L, SP_R + 10 * Percent>> # Stop
  BY DEF Straight, Stop, SP_L, SP_R, Percent
<1>1. ASSUME NEW edge \in Edges \cup {NoEdge}, Track(edge) PROVE Standing'
  <2>1. direction = 0 => sp' = Straight
    BY <1>1 DEF Track, Steer, get_pid, Straight, SP_L, SP_R
  <2> QED
    BY <1>1, <2>1 DEF Track, Standing
<1>2. CASE Output
  <2>1. phase # "track" /\ phase' = "track" /\ wheels' = Command
    BY <1>2 DEF Output
  <2>2. direction' = 0 <=> direction = 0
    BY <1>2 DEF Output
  <2>3. Command = Stop <=> direction = 0
    BY <1>r, <2>1, RangeMoves DEF Command, Computed
  <2> QED
    BY <2>1, <2>2, <2>3 DEF Standing
<1>3. CASE DetourLeg
  <2>1. wheels' # Stop
    BY <1>3, NextLeg
  <2>2. phase # "track" /\ phase' \notin {"track", "handle"} /\ UNCHANGED <<sp, oldDirection>>
    BY <1>3 DEF DetourLeg, steering
  <2> QED
    BY <2>1, <2>2 DEF Standing
<1>6. CASE AskForGate \/ DriveThrough
  BY <1>6, <1>r DEF AskForGate, DriveThrough, Handling, steering, Standing
<1>4. CASE /\ UNCHANGED <<sp, oldDirection, wheels>>
           /\ phase # "track" /\ phase' \notin {"track", "handle"}
  BY <1>4 DEF Standing
<1>5. CASE UNCHANGED <<sp, oldDirection, wheels, direction, phase>>
  BY <1>5 DEF Standing
<1> QED
  BY <1>1, <1>2, <1>3, <1>4, <1>5, <1>6
     DEF Next, Loop, Handler, Arrive, ArrowSeen, NoArrow, TrafficLight,
         Pedestrian, DrainNear, DrainFar, DrainDone, GoAround, LookForGreen,
         AwaitZero, PollGate, Finish, Handling, steering, vars

(* Only Output ends a frame, and what it sends after a stop is zero again  *)
(* or straight on.                                                         *)
THEOREM MissionRestartsStraight == Spec => RestartsStraight
<1>1. Standing /\ [Next]_vars
        => [phase = "output" /\ wheels = Stop /\ wheels' # Stop
              => wheels' = Straight]_vars
  <2> SUFFICES ASSUME Standing, [Next]_vars, phase = "output",
                      wheels = Stop, wheels' # Stop
               PROVE  wheels' = Straight
    OBVIOUS
  <2>1. sp = Straight
    BY DEF Standing
  <2>2. Output
    BY DEF Next, Loop, Handler, Arrive, Track, ArrowSeen, NoArrow, TrafficLight,
           Pedestrian, DrainNear, DrainFar, DrainDone, GoAround, DetourLeg,
           LookForGreen, AskForGate, AwaitZero, PollGate, DriveThrough, Finish, Handling, vars
  <2> QED
    BY <2>1, <2>2 DEF Output, Command
<1> QED
  BY <1>1, MissionTypeOK, MissionLegs, InitSent, SentStep, InitStanding,
     StandingStep, PTL DEF Spec, RestartsStraight

(* Green is honoured in the handler of a frame whose track saw a stop, and *)
(* the wheels still stand then.                                            *)
THEOREM MissionGreenAfterStop == Spec => GreenAfterStop
<1>1. TypeOK /\ Places /\ Standing /\ [Next]_vars
        => [state = 2 /\ state' = 3 => wheels = Stop]_vars
  <2> SUFFICES ASSUME TypeOK, Places, Standing, [Next]_vars,
                      state = 2, state' = 3
               PROVE  wheels = Stop
    OBVIOUS
  <2>1. \E red, green \in BOOLEAN : TrafficLight(red, green)
    BY DEF Next, Loop, Handler, Arrive, Track, ArrowSeen, NoArrow, Pedestrian,
           DrainNear, DrainFar, DrainDone, GoAround, DetourLeg, LookForGreen, AskForGate,
           AwaitZero, PollGate, DriveThrough, Finish, Handling, Output, vars,
           Places
  <2>2. phase = "handle" /\ oldDirection = 0
    BY <2>1 DEF TrafficLight, Handling
  <2> QED
    BY <2>2 DEF Standing
<1> QED
  BY <1>1, MissionTypeOK, InitStops, StopsStep, MissionLegs, InitSent, SentStep,
     InitStanding, StandingStep, PTL DEF Spec, GreenAfterStop

(* The blind way round an obstacle starts from a standstill, and what the  *)
(* loop has still to send after it is straight on: however many near bytes *)
(* it took, also when check_arrow has left the count above its limit.      *)
THEOREM MissionDetourFromRest == Spec => DetourFromRest
<1>1. TypeOK /\ Places /\ StopSent /\ Standing /\ [Next]_vars
        => [phase # "around" /\ phase' = "around"
              => wheels = Stop /\ sp = Straight]_vars
  <2> SUFFICES ASSUME TypeOK, Places, StopSent, Standing, [Next]_vars,
                      phase # "around", phase' = "around"
               PROVE  wheels = Stop /\ sp = Straight
    OBVIOUS
  <2>1. GoAround
    BY DEF Next, Loop, Handler, Arrive, Track, ArrowSeen, NoArrow, TrafficLight,
           Pedestrian, DrainNear, DrainFar, DrainDone, DetourLeg, LookForGreen,
           AskForGate, AwaitZero, PollGate, DriveThrough, Finish, Output, vars
  <2>2. phase = "handle" /\ wheels = Stop
    BY <2>1 DEF GoAround, Handling, StopSent, StopDue
  <2> QED
    BY <2>2 DEF Standing
<1> QED
  BY <1>1, MissionTypeOK, InitStops, StopsStep, MissionLegs, InitSent,
     SentStep, InitStanding, StandingStep, PTL DEF Spec, DetourFromRest
=============================================================================
