---------------------------- MODULE MCRaceFrames ----------------------------
(***************************************************************************)
(* The start of the race, with the green frames counted as                 *)
(* drag_race.launch says they are: in a row.                               *)
(***************************************************************************)
EXTENDS MCDragRace

VARIABLES greenRow, greenLongest \* history: green frames sent, in a row up to now and
                                 \* in a row at most

FramesInit == Init /\ greenRow = 0 /\ greenLongest = 0

FrameInRow ==
    /\ Frame
    /\ greenRow' = IF light THEN Count(greenRow, minimum_green_recognised_count) ELSE 0
    /\ greenLongest' = Longer(greenRow', greenLongest)
Otherwise ==
    /\ \/ LightChanges \/ GreenLightCallBack \/ ScanCallBack \/ TwistCallback
       \/ \E t \in Desired : Scan(t)
    /\ UNCHANGED <<greenRow, greenLongest>>

FramesSpec ==
    FramesInit /\ [][FrameInRow \/ Otherwise]_<<vars, greenRow, greenLongest>>

\* "The number of consecutive frames that must contain a green light before we start
\* sending commands to the wheels" (drag_race.launch:18-19); greenLightCallBack counts
\* the green frames of all times.
ConsecutiveFrames == driven # Zero => greenLongest >= minimum_green_recognised_count
=============================================================================
