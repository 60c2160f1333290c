----------------------------- MODULE GpsManager -----------------------------
(***************************************************************************)
(* decision_igvc/GpsManager: keeps the waypoints still to be visited on a  *)
(* stack and, at every message on /tf, publishes the one on top and ticks  *)
(* it off when the transform in the message puts the robot near it.        *)
(***************************************************************************)
EXTENDS RosTopic, Integers, SequencesExt

CONSTANTS RawLists,  \* values the parameter "waypoints" may have: lists of numbers
          Scale,     \* metres per degree, for LLtoUTM
          Tolerance, \* at_goal_tolerance
          QueueSize  \* of /tf and of current_waypoint

ASSUME ManagerAssumption ==
    /\ RawLists \subseteq Seq(Int)
    /\ Scale \in Nat \ {0}
    /\ Tolerance \in Nat \ {0}
    /\ QueueSize \in Nat \ {0}

Point == [x : Int, y : Int]

\* Operators named after a mistake (PopulateFirstToLast, VisitNextAnywhere...) are
\* the definition that follows them with that mistake made, to be put in its place
\* to see which property notices.
VARIABLES
    ok,             \* ros::ok(): the node has not shut down
    waypoint_stack, \* std::stack of the waypoints to visit, the top last
    tf,             \* messages waiting on /tf: each <<p>>, where the robot was, or
                    \* <<>> if the message holds none of the transforms looked for
    current,        \* waypoints published and waiting for GpsDecision
    route,          \* history: the waypoints of the parameter, in its order
    visited         \* history: the waypoints ticked off, in order

managerVars == <<ok, waypoint_stack, tf, current, route, visited>>

\* gps_common::LLtoUTM: latitude becomes northing (y), longitude easting (x).
LLtoUTM(lat, lon) == [x |-> Scale * lon, y |-> Scale * lat]

\* parseWaypoints() on a list of even length.
ParseWaypoints(raw) ==
    [i \in 1..(Len(raw) \div 2) |-> [lat |-> raw[2 * i - 1], lon |-> raw[2 * i]]]

\* populateWaypointStack(): pushed[k] is the stack after k turns of the loop, which
\* goes from the last waypoint of the list to the first.
PopulateFirstToLast(list) ==
    LET pushed[k \in 0..Len(list)] ==
          IF k = 0 THEN <<>>
          ELSE Append(pushed[k - 1], LLtoUTM(list[k].lat, list[k].lon))
    IN  pushed[Len(list)]
PopulateWaypointStack(list) ==
    LET pushed[k \in 0..Len(list)] ==
          IF k = 0 THEN <<>>
          ELSE LET i == Len(list) + 1 - k
               IN  Append(pushed[k - 1], LLtoUTM(list[i].lat, list[i].lon))
    IN  pushed[Len(list)]

Near(p, w) == (p.x - w.x) * (p.x - w.x) + (p.y - w.y) * (p.y - w.y)
                 < Tolerance * Tolerance

\* The constructor: an odd list shuts the node down with nothing to visit.
ManagerInit ==
    /\ \E raw \in RawLists :
         IF Len(raw) % 2 = 0
         THEN /\ ok = TRUE
              /\ waypoint_stack = PopulateWaypointStack(ParseWaypoints(raw))
              /\ route = [i \in 1..(Len(raw) \div 2) |-> LLtoUTM(raw[2 * i - 1], raw[2 * i])]
         ELSE ok = FALSE /\ route = <<>> /\ waypoint_stack = <<>>
    /\ tf = <<>> /\ current = <<>> /\ visited = <<>>

\* tfCallBack with nothing left to visit: celebrate and shut down.
AllVisited ==
    /\ waypoint_stack = <<>>
    /\ ok' = FALSE
    /\ UNCHANGED <<waypoint_stack, current, visited>>

\* tfCallBack otherwise: the top is published before the position is looked at.
Publish(waypoint) == current' = Deliver(current, waypoint, QueueSize)
Pop == /\ waypoint_stack' = Front(waypoint_stack)
       /\ visited' = Append(visited, Last(waypoint_stack))
AtGoal == Head(tf) # <<>> /\ Near(Head(tf)[1], Last(waypoint_stack))

VisitNextAnywhere ==
    /\ waypoint_stack # <<>>
    /\ Publish(Last(waypoint_stack))
    /\ IF Head(tf) # <<>> THEN Pop ELSE UNCHANGED <<waypoint_stack, visited>>
    /\ UNCHANGED ok
VisitNextPublishesFirst ==
    /\ waypoint_stack # <<>>
    /\ Publish(Head(waypoint_stack))
    /\ IF AtGoal THEN Pop ELSE UNCHANGED <<waypoint_stack, visited>>
    /\ UNCHANGED ok
VisitNextToldOnce ==
    /\ waypoint_stack # <<>>
    /\ IF visited = <<>> \/ AtGoal THEN Publish(Last(waypoint_stack)) ELSE UNCHANGED current
    /\ IF AtGoal THEN Pop ELSE UNCHANGED <<waypoint_stack, visited>>
    /\ UNCHANGED ok
VisitNext ==
    /\ waypoint_stack # <<>>
    /\ Publish(Last(waypoint_stack))
    /\ IF AtGoal THEN Pop ELSE UNCHANGED <<waypoint_stack, visited>>
    /\ UNCHANGED ok

TfCallBack ==
    /\ ok
    /\ tf # <<>>
    /\ tf' = Tail(tf)
    /\ UNCHANGED route
    /\ AllVisited \/ VisitNext

ManagerTypeOK ==
    /\ ok \in BOOLEAN
    /\ waypoint_stack \in Seq(Point)
    /\ route \in Seq(Point)
    /\ visited \in Seq(Point)
    /\ current \in Seq(Point) /\ Len(current) <= QueueSize
    /\ tf \in Seq(Seq(Point)) /\ Len(tf) <= QueueSize
=============================================================================
