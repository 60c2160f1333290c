------------------------------ MODULE GpsMover ------------------------------
(***************************************************************************)
(* decision_igvc/GpsMover: the Twist that leads from a position and a      *)
(* heading to a waypoint.  Speeds are reduced to what the code can go      *)
(* wrong about: their sign, and whether they are numbers at all.           *)
(***************************************************************************)
EXTENDS Angles

CONSTANTS Coordinates, \* positions and waypoints have these coordinates
          Headings     \* headings of the robot

ASSUME MoverAssumption == Coordinates \subseteq Int /\ Headings \subseteq Int

Point == [x : Coordinates, y : Coordinates]

VARIABLES location, heading, waypoint, \* the arguments of createTwistMessage
          bearing,                     \* angle_to_waypoint
          turning,                     \* min_turning_angle
          linear, angular              \* linear.x and angular.z of the command

mover_vars == <<location, heading, waypoint, bearing, turning, linear, angular>>

\* angleBetweenPoints(); 0 / 0 when the points coincide.
AngleWithoutQuadrant(x, y) == IF x = 0 /\ y = 0 THEN NaN ELSE Atan(y, x)
AngleBetweenPoints(x, y) ==
    CASE x = 0 /\ y = 0 -> NaN
      [] x < 0 /\ y > 0 -> Atan(y, x) + Half
      [] x < 0 /\ y < 0 -> Atan(y, x) - Half
      [] OTHER -> Atan(y, x)

\* minAngularChange().
ChangeNotFolded(from, to) == IF to = NaN THEN NaN ELSE Fmod(to - from, Turn)
MinAngularChange(from, to) ==
    LET diff == Fmod(to - from, Turn)
    IN  IF to = NaN THEN NaN
        ELSE IF Abs(diff) > Half
        THEN (Turn - Abs(diff)) * (IF diff > 0 THEN -1 ELSE 1)
        ELSE diff

\* magicFunction(x, y) adds a multiple of 1 / |x| to one of sqrt(|y|); capValue()
\* scales by cap * val / |val|, which makes infinity not a number.
Magic(x, y) == CASE x = NaN \/ y = NaN -> "nan"
                 [] x = 0 -> "infinite"
                 [] OTHER -> "finite"
CapValue(v) == IF v = "infinite" THEN "nan" ELSE v

\* createTwistMessage(): its command as a function of the arguments.
Distance(p, w) == (w.x - p.x) * (w.x - p.x) + (w.y - p.y) * (w.y - p.y)
Bearing(p, w) == AngleBetweenPoints(w.x - p.x, w.y - p.y)
Angular(min, p, w) == [speed |-> CapValue(Magic(Distance(p, w), min)),
                       direction |-> IF min # NaN /\ min > 0 THEN 1 ELSE -1]
Linear(min, p, w) == CapValue(Magic(min, Distance(p, w)))

MoverInit ==
    /\ location \in Point /\ waypoint \in Point /\ heading \in Headings
    /\ bearing = Bearing(location, waypoint)
    /\ turning = MinAngularChange(heading, bearing)
    /\ angular = Angular(turning, location, waypoint)
    /\ linear = Linear(turning, location, waypoint)

CreateTwistMessage(p, h, w) ==
    /\ location' = p /\ heading' = h /\ waypoint' = w
    /\ bearing' = Bearing(p, w)
    /\ turning' = MinAngularChange(h, bearing')
    /\ angular' = Angular(turning', p, w)
    /\ linear' = Linear(turning', p, w)

MoverNext == \E p, w \in Point : \E h \in Headings : CreateTwistMessage(p, h, w)

MoverSpec == MoverInit /\ [][MoverNext]_mover_vars

-----------------------------------------------------------------------------
\* The direction of the waypoint.
TrueBearing == Direction(waypoint.x - location.x, waypoint.y - location.y)

DueWest == waypoint.x < location.x /\ waypoint.y = location.y

\* The turn is a shortest one that brings the robot from its heading to the angle
\* computed, whatever the two angles are (minAngularChange).
ShortestTurn ==
    bearing # NaN =>
      /\ turning \in -Half..Half
      /\ (heading + turning - bearing) % Turn = 0

\* The angle turned to the left of the heading the waypoint is nearest to; 0 when
\* it is ahead, Half when behind.
Off == (TrueBearing - heading) % Turn
TurnsToward ==
    location # waypoint =>
      /\ Off \in 1..Half - 1 => angular.direction = 1
      /\ Off \in Half + 1..Turn - 1 => angular.direction = -1

\* The command turns the robot to the side the waypoint is on, unless that is due
\* west, at speeds that are numbers and so within their caps, unless the robot heads
\* straight at the angle computed (createTwistMessage).
TowardUnlessWest ==
    /\ ~DueWest => TurnsToward
    /\ location # waypoint /\ turning # 0 => linear = "finite" /\ angular.speed = "finite"
=============================================================================
