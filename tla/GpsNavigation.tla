--------------------------- MODULE GpsNavigation ---------------------------
(***************************************************************************)
(* Waypoint navigation as a closed loop: GpsManager publishes the current  *)
(* waypoint, GpsDecision turns it into a Twist towards it, the robot moves *)
(* and localisation reports the new position on /tf, where GpsManager and  *)
(* GpsDecision read it.                                                    *)
(*                                                                         *)
(* Where the robot goes is left open: other sources than GpsDecision steer *)
(* it as well, and GpsMover, which is checked on its own, may turn it away *)
(* from a waypoint.  A property that needs it to arrive says so.           *)
(***************************************************************************)
EXTENDS GpsManager

CONSTANT Grid \* the points the robot may be at

ASSUME GridAssumption == Grid \subseteq Point

VARIABLES
    pos,     \* where the robot is
    located, \* localisation is publishing the robot's transform
    alive,   \* the GpsDecision process is running
    goal,    \* <<w>> while the last Twist of GpsDecision leads to w, <<>> for zero
    touched  \* history: the waypoints the robot has been near

vars == <<managerVars, pos, located, alive, goal, touched>>

NearPoints(p) == {w \in {route[i] : i \in DOMAIN route} : Near(p, w)}

Init ==
    /\ ManagerInit
    /\ pos \in Grid
    /\ located \in BOOLEAN
    /\ alive = TRUE
    /\ goal = <<>>
    /\ touched = NearPoints(pos)

Manager == TfCallBack /\ UNCHANGED <<pos, located, alive, goal, touched>>

\* waypointCallback: the transform is found; or LookupException is caught and a
\* zero Twist published; or another tf2 exception ends the process.
WaypointCallback ==
    /\ alive
    /\ current # <<>>
    /\ current' = Tail(current)
    /\ \/ located /\ goal' = <<Head(current)>> /\ UNCHANGED alive
       \/ ~located /\ goal' = <<>> /\ UNCHANGED alive
       \/ ~located /\ alive' = FALSE /\ UNCHANGED goal
    /\ UNCHANGED <<ok, waypoint_stack, tf, route, visited, pos, located, touched>>

\* Localisation reports the position; GpsManager hears it while it is running.
Localise ==
    /\ located
    /\ ok
    /\ tf' = Deliver(tf, <<pos>>, QueueSize)
    /\ UNCHANGED <<ok, waypoint_stack, current, route, visited,
                   pos, located, alive, goal, touched>>

\* Some other node's transforms come in on /tf.
OtherTransform ==
    /\ ok
    /\ tf' = Deliver(tf, <<>>, QueueSize)
    /\ UNCHANGED <<ok, waypoint_stack, current, route, visited,
                   pos, located, alive, goal, touched>>

LocalisationChanges ==
    /\ located' = ~located
    /\ UNCHANGED <<managerVars, pos, alive, goal, touched>>

\* The robot drives, is pushed or is carried somewhere.
Move ==
    /\ pos' \in Grid \ {pos}
    /\ touched' = touched \cup NearPoints(pos')
    /\ UNCHANGED <<managerVars, located, alive, goal>>

Next ==
    \/ Manager
    \/ WaypointCallback
    \/ Localise
    \/ OtherTransform
    \/ LocalisationChanges
    \/ Move

\* The two nodes spin for ever.  Nothing is assumed of the robot, of localisation
\* or of which messages survive in the queue of /tf.
Fairness == WF_vars(WaypointCallback) /\ WF_vars(Manager)

Spec == Init /\ [][Next]_vars
FairSpec == Spec /\ Fairness

-----------------------------------------------------------------------------
TypeOK ==
    /\ ManagerTypeOK
    /\ pos \in Point
    /\ located \in BOOLEAN
    /\ alive \in BOOLEAN
    /\ goal \in Seq(Point) /\ Len(goal) <= 1
    /\ touched \subseteq Point

\* Waypoints are ticked off in the order of the parameter, each exactly once: what
\* has been popped and what will be, from the top down, make up the parameter ("with
\* the 0'th element from waypoint_list at the top", GpsManager.h).
InOrder == visited \o Reverse(waypoint_stack) = route

\* No waypoint is ticked off that the robot has not been at, though positions are
\* read from a queue and may be out of date (tfCallBack).
TickedOnlyIfTouched == \A i \in DOMAIN visited : visited[i] \in touched

\* GpsDecision is never sent to a waypoint before its turn: what it steers to or
\* is about to read is the current waypoint or one already ticked off.
NeverAhead ==
    \A i \in 1..Len(current) + Len(goal) :
       LET w == (current \o goal)[i]
       IN  (waypoint_stack # <<>> /\ w = Last(waypoint_stack))
             \/ \E j \in DOMAIN visited : visited[j] = w

\* A waypoint that was published in vain, because it was pushed out of the queue or
\* handled while there was no transform, is published again until the robot is sent
\* there, and the mission ends (tfCallBack) - if localisation comes back for good and
\* GpsDecision survives; if the robot gets to the waypoint it is sent to and stays;
\* and if messages with its position are read again and again.  Nothing in the code
\* assures these: they are premises, not fairness.
PositionHeard == Manager /\ Head(tf) # <<>>
AtItsGoal == goal # <<>> => Near(pos, goal[1])
MissionEnds ==
    <>[](located /\ alive /\ AtItsGoal) /\ []<><<PositionHeard>>_vars => <>~ok
=============================================================================
