------------------------------ MODULE DragRace ------------------------------
(***************************************************************************)
(* drag_race_iarrc/DragRaceNode: the car waits for the green light, drives *)
(* along the cones and stops for good at the wall that ends the course.    *)
(* What the lidar geometry makes of a scan is carried by the scan: whether *)
(* a collision is detected, and the Twist DragRaceController would choose. *)
(***************************************************************************)
EXTENDS RosTopic, Integers

CONSTANTS Desired,   \* the Twists DragRaceController may choose
          minimum_green_recognised_count,
          obstacle_ticks_threshold,
          QueueSize  \* of the subscriptions to scans, lights and commands

Twist == [lin : Int, ang : Int]
Zero == [lin |-> 0, ang |-> 0]

ASSUME RaceAssumption ==
    /\ Desired \subseteq Twist
    /\ minimum_green_recognised_count \in Int
    /\ obstacle_ticks_threshold \in Nat
    /\ QueueSize \in Nat \ {0}

VARIABLES
    light, wall,             \* the light is green, the wall is ahead
    lights, scans,           \* messages waiting for their callbacks
    green_count_recognised, incoming_obstacle_ticks, end_of_course,
    cmd_vel, driven,         \* commands waiting, and the one SteeringDriver obeys
    greens,                  \* history: green frames sent
    row, rowLongest,         \* history: scans sent that detect a collision, in a row
                             \* up to now and in a row at most
    missed,                  \* history: a queue has dropped a scan without a collision
    seen, seenLongest        \* history: scans handled that detected a collision, in a
                             \* row up to now and in a row at most

outside == <<light, wall>>
counters == <<green_count_recognised, incoming_obstacle_ticks, end_of_course>>
alarms == <<row, rowLongest, missed>>
history == <<greens, alarms, seen, seenLongest>>
vars == <<outside, lights, scans, counters, cmd_vel, driven, history>>

\* The node only compares its counters with a threshold, so they need not be told
\* apart one above it; the histories are counted no further either.
Count(n, threshold) == IF n > threshold THEN n ELSE n + 1
Longer(n, m) == IF n > m THEN n ELSE m

Init ==
    /\ light = FALSE /\ wall \in BOOLEAN
    /\ lights = <<>> /\ scans = <<>>
    /\ green_count_recognised = 0 /\ incoming_obstacle_ticks = 0
    /\ end_of_course = FALSE
    /\ cmd_vel = <<>> /\ driven = Zero
    /\ greens = 0 /\ row = 0 /\ rowLongest = 0 /\ missed = FALSE
    /\ seen = 0 /\ seenLongest = 0

LightChanges ==
    /\ light' = ~light
    /\ UNCHANGED <<wall, lights, scans, counters, cmd_vel, driven, history>>

WallChanges ==
    /\ wall' = ~wall
    /\ UNCHANGED <<light, lights, scans, counters, cmd_vel, driven, history>>

\* The light detector says whether the frame it looked at contains a green light.
Frame ==
    /\ lights' = Deliver(lights, light, QueueSize)
    /\ greens' = IF light THEN Count(greens, minimum_green_recognised_count) ELSE greens
    /\ UNCHANGED <<outside, scans, counters, cmd_vel, driven, alarms, seen, seenLongest>>

Scan(t) ==
    /\ scans' = Deliver(scans, [collision |-> wall, desired |-> t], QueueSize)
    /\ row' = IF wall THEN Count(row, obstacle_ticks_threshold) ELSE 0
    /\ rowLongest' = Longer(row', rowLongest)
    /\ missed' = (missed \/ (Len(scans) = QueueSize /\ ~Head(scans).collision))
    /\ UNCHANGED <<outside, lights, counters, cmd_vel, driven, greens, seen, seenLongest>>

GreenLightCallBack ==
    /\ lights # <<>>
    /\ lights' = Tail(lights)
    /\ green_count_recognised' =
         IF Head(lights) THEN Count(green_count_recognised, minimum_green_recognised_count)
         ELSE green_count_recognised
    /\ UNCHANGED <<outside, scans, incoming_obstacle_ticks, end_of_course,
                   cmd_vel, driven, history>>

\* scanCallBack().
TicksNotReset(collision) ==
    IF collision THEN Count(incoming_obstacle_ticks, obstacle_ticks_threshold)
    ELSE incoming_obstacle_ticks
Ticks(collision) ==
    IF collision THEN Count(incoming_obstacle_ticks, obstacle_ticks_threshold) ELSE 0

EndNotLatched == incoming_obstacle_ticks' > obstacle_ticks_threshold
EndOfCourse == end_of_course \/ incoming_obstacle_ticks' > obstacle_ticks_threshold

CommandStopsOnce(desired) ==
    IF green_count_recognised < minimum_green_recognised_count
         \/ (end_of_course' /\ ~end_of_course)
    THEN Zero ELSE desired
Command(desired) ==
    IF green_count_recognised < minimum_green_recognised_count \/ end_of_course'
    THEN Zero ELSE desired

ScanCallBack ==
    /\ scans # <<>>
    /\ scans' = Tail(scans)
    /\ incoming_obstacle_ticks' = Ticks(Head(scans).collision)
    /\ end_of_course' = EndOfCourse
    /\ cmd_vel' = Deliver(cmd_vel, Command(Head(scans).desired), QueueSize)
    /\ seen' = IF Head(scans).collision THEN Count(seen, obstacle_ticks_threshold) ELSE 0
    /\ seenLongest' = Longer(seen', seenLongest)
    /\ UNCHANGED <<outside, lights, green_count_recognised, driven, greens, alarms>>

\* SteeringDriver takes the next command.
TwistCallback ==
    /\ cmd_vel # <<>>
    /\ driven' = Head(cmd_vel)
    /\ cmd_vel' = Tail(cmd_vel)
    /\ UNCHANGED <<outside, lights, scans, counters, history>>

Next ==
    \/ LightChanges
    \/ WallChanges
    \/ Frame
    \/ \E t \in Desired : Scan(t)
    \/ GreenLightCallBack
    \/ ScanCallBack
    \/ TwistCallback

\* Camera and lidar keep publishing and the nodes spin.
Fairness ==
    /\ WF_vars(Frame) /\ WF_vars(\E t \in Desired : Scan(t))
    /\ WF_vars(GreenLightCallBack) /\ WF_vars(ScanCallBack) /\ WF_vars(TwistCallback)

Spec == Init /\ [][Next]_vars
FairSpec == Spec /\ Fairness

-----------------------------------------------------------------------------
\* TicksNotReset, EndNotLatched and CommandStopsOnce are the definitions that follow them
\* with the mistake of their names, to be put in their place to see which property
\* notices.

TypeOK ==
    /\ light \in BOOLEAN /\ wall \in BOOLEAN /\ end_of_course \in BOOLEAN
    /\ lights \in Seq(BOOLEAN) /\ Len(lights) <= QueueSize
    /\ scans \in Seq([collision : BOOLEAN, desired : Desired]) /\ Len(scans) <= QueueSize
    /\ cmd_vel \in Seq(Twist) /\ Len(cmd_vel) <= QueueSize
    /\ driven \in Twist
    /\ \A n \in {green_count_recognised, greens} :
         n \in 0..Longer(minimum_green_recognised_count + 1, 0)
    /\ \A n \in {incoming_obstacle_ticks, row, rowLongest, seen, seenLongest} :
         n \in 0..obstacle_ticks_threshold + 1
    /\ missed \in BOOLEAN

\* What the node counts has happened.  The wheels get no command before as many green
\* frames have been sent as are asked for, in a row or not, whichever of them the queue
\* dropped (greenLightCallBack).  The course is over only after more than
\* obstacle_ticks_threshold scans that detect a collision were sent in a row ("False
\* alarm", scanCallBack), unless the queue dropped one between them that detects none:
\* then the alarms before it and after it pass for a row.
NoFalseAlarm ==
    /\ driven # Zero => greens >= minimum_green_recognised_count
    /\ end_of_course /\ ~missed => rowLongest > obstacle_ticks_threshold

\* Once enough scans in a row have detected a collision, the newest command, waiting
\* or obeyed, is to stop: no command of before can follow it, nor any later one, not
\* even when the wall goes out of sight and the light is green (scanCallBack).
EndIsStop == seenLongest > obstacle_ticks_threshold => Newest(cmd_vel, driven) = Zero

\* A wall that stays ahead stops the car for good, and a light that stays green gets it
\* going for as long as no wall is found.
StartsAndStops ==
    /\ <>[]wall => <>[](driven = Zero)
    /\ <>[](light /\ ~end_of_course) => <>[](driven # Zero)
=============================================================================
