---------------------------- MODULE LidarDecision ----------------------------
(***************************************************************************)
(* decision_igvc/LidarDecision with LidarObstacle: the hits of a scan are  *)
(* merged into obstacles, and the Twist turns away from the obstacle with  *)
(* the highest danger score.  Angles are in degrees, distances in          *)
(* centimetres, scores in thousandths.                                     *)
(***************************************************************************)
EXTENDS Integers, Sequences, SequencesExt, FiniteSetsExt

CONSTANTS Sweeps,       \* angle_min and angle_increment of the scans
          ScanLength,   \* how many readings a scan has
          Ranges,       \* what the laser may measure
          RangeMin, RangeMax,
          max_obstacle_angle_diff,
          GarbageDiffs, \* max_obstacle_distance_diff, which nothing initialises
          max_obstacle_danger_distance, obstacle_danger_angle

\* The angle of the j-th reading, to the left or to the right of the one before it.
AngleOf(sweep, j) == sweep.angle_min + (j - 1) * sweep.angle_increment

ASSUME LidarAssumption ==
    /\ Sweeps \subseteq [angle_min : Int, angle_increment : Int \ {0}]
    /\ ScanLength \in Nat /\ Ranges \subseteq Nat \ {0}
    /\ \A sweep \in Sweeps, j \in 1..ScanLength : AngleOf(sweep, j) \in -90..90
    /\ {RangeMin, RangeMax, max_obstacle_angle_diff} \subseteq Nat
    /\ GarbageDiffs \subseteq Int
    /\ {max_obstacle_danger_distance, obstacle_danger_angle} \subseteq Nat

VARIABLES
    max_obstacle_distance_diff,
    abs_is_integer, \* the unqualified abs() of the build is the one of integers
    hits,      \* the readings within range, in the order of the sweep
    obstacles, \* each the sequence of its readings
    at,        \* index of the merge loop
    twist      \* the sign of angular.z, and whether the robot drives; <<>> before that

build == <<max_obstacle_distance_diff, abs_is_integer>>
lidar_vars == <<build, hits, obstacles, at, twist>>

Size(n) == IF n < 0 THEN -n ELSE n

\* LidarObstacle: its readings are in the order of their angles.
AvgAngle(obs) ==
    LET sum[j \in 0..Len(obs)] == IF j = 0 THEN 0 ELSE sum[j - 1] + obs[j].angle
    IN  sum[Len(obs)] \div Len(obs)
MinDistance(obs) == Min({r.range : r \in ToSet(obs)})
FirstDistance(obs) == Head(obs).range
\* cos() in thousandths, by an approximation good to two of them.
Cos(d) == (1000 * (32400 - 4 * d * d)) \div (32400 + d * d)
DangerScoreByFirst(obs) == Cos(AvgAngle(obs)) + 100000 \div FirstDistance(obs)
DangerScore(obs) == Cos(AvgAngle(obs)) + 100000 \div MinDistance(obs)

\* findObstacles(): readings out of range are passed over.
InRange(r) == RangeMin < r.range /\ r.range < RangeMax
Hits(sweep, scan) ==
    LET reading(j) == [angle |-> AngleOf(sweep, j), range |-> scan[j]]
        found[j \in 0..ScanLength] ==
            IF j = 0 THEN <<>>
            ELSE IF InRange(reading(j)) THEN Append(found[j - 1], reading(j))
            ELSE found[j - 1]
    IN  found[ScanLength]

\* mergeSimilarObstacles() first sorts the obstacles, of one reading each, by angle: a
\* sweep that goes down has them the other way round.
Sorted(sweep, s) == IF sweep.angle_increment > 0 THEN s ELSE Reverse(s)

\* mergeSimilarObstacles(): one round of its loop.
Similar(left, right) ==
    /\ Size(right.angle - left.angle) < max_obstacle_angle_diff
    /\ Size(right.range - left.range) < max_obstacle_distance_diff
MergeAndGoOn ==
    /\ twist = <<>> /\ at < Len(obstacles)
    /\ at' = at + 1
    /\ obstacles' = IF Similar(Last(obstacles[at]), Head(obstacles[at + 1]))
                    THEN RemoveAt([obstacles EXCEPT ![at] = @ \o obstacles[at + 1]], at + 1)
                    ELSE obstacles
    /\ UNCHANGED <<build, hits, twist>>
MergeSimilarObstacles ==
    /\ twist = <<>> /\ at < Len(obstacles)
    /\ IF Similar(Last(obstacles[at]), Head(obstacles[at + 1]))
       THEN /\ obstacles' = RemoveAt([obstacles EXCEPT ![at] = @ \o obstacles[at + 1]], at + 1)
            /\ UNCHANGED at
       ELSE at' = at + 1 /\ UNCHANGED obstacles
    /\ UNCHANGED <<build, hits, twist>>

\* The first of those with the greatest score.
MostDangerous ==
    LET score(j) == DangerScore(obstacles[j])
        best == {j \in DOMAIN obstacles : \A l \in DOMAIN obstacles : score(l) <= score(j)}
    IN  obstacles[Min(best)]

\* abs() of an angle, which is in radians: exact, or cut to whole radians first if the
\* only abs() in scope is the one of integers.  A radian has 57.296 degrees.
WithinDangerAngle(angle) ==
    \/ abs_is_integer /\ 57296 * ((1000 * Size(angle)) \div 57296) <= 1000 * obstacle_danger_angle
    \/ ~abs_is_integer /\ Size(angle) <= obstacle_danger_angle

\* twist_message_from_obstacle(): away from it, to the left if it is straight ahead.
Endangers(obs) == /\ MinDistance(obs) <= max_obstacle_danger_distance
                  /\ WithinDangerAngle(AvgAngle(obs))
NoTwist == [drives |-> FALSE, turn |-> 0]
TwistMessage(obs) == IF Endangers(obs)
                     THEN [drives |-> TRUE, turn |-> IF AvgAngle(obs) > 0 THEN -1 ELSE 1]
                     ELSE NoTwist

\* generate_twist_message() after the merge.
GenerateTwistMessage ==
    /\ twist = <<>> /\ at >= Len(obstacles)
    /\ twist' = <<IF obstacles = <<>> THEN NoTwist ELSE TwistMessage(MostDangerous)>>
    /\ UNCHANGED <<build, hits, obstacles, at>>

\* scanCallBack() is called with a scan.
ScanCallBack(sweep, scan) ==
    /\ max_obstacle_distance_diff \in GarbageDiffs /\ abs_is_integer \in BOOLEAN
    /\ hits = Hits(sweep, scan)
    /\ obstacles = [j \in DOMAIN hits |-> <<Sorted(sweep, hits)[j]>>]
    /\ at = 1 /\ twist = <<>>

LidarInit == \E sweep \in Sweeps, scan \in [1..ScanLength -> Ranges] : ScanCallBack(sweep, scan)
LidarNext == MergeSimilarObstacles \/ GenerateTwistMessage
LidarSpec == LidarInit /\ [][LidarNext]_lidar_vars

-----------------------------------------------------------------------------
\* MergeAndGoOn and DangerScoreByFirst are MergeSimilarObstacles and DangerScore with
\* the mistake of their names, to be put in their places.

\* Whatever the distance is that nothing initialises, and whichever way the laser
\* sweeps: the merged obstacles hold the hits, from right to left, cut exactly between
\* the neighbours that are not similar (mergeSimilarObstacles).
Ascending(s) == \A j, k \in 1..Len(s) : j < k => s[j].angle < s[k].angle
MergesExactly ==
    twist # <<>> =>
      /\ Ascending(FlattenSeq(obstacles)) /\ ToSet(FlattenSeq(obstacles)) = ToSet(hits)
      /\ \A obs \in ToSet(obstacles) : \A j \in 1..Len(obs) - 1 : Similar(obs[j], obs[j + 1])
      /\ \A m \in 1..Len(obstacles) - 1 : ~Similar(Last(obstacles[m]), Head(obstacles[m + 1]))

\* If the nearest obstacle of all is in danger and nearer than a metre and three
\* quarters, the robot turns away from it or from one in danger that is at least as
\* straight ahead, however many others there are (mostDangerousObstacle,
\* twist_message_from_obstacle).  In the second case it may turn towards the nearest.
Nearest(obs) == \A other \in ToSet(obstacles) : MinDistance(obs) <= MinDistance(other)
Away(turn, angle) == IF angle = 0 THEN turn # 0 ELSE turn * angle < 0
NearestOrStraighter ==
    twist # <<>> =>
      \A obs \in ToSet(obstacles) :
        Nearest(obs) /\ Endangers(obs) /\ MinDistance(obs) < 175 =>
          \E m \in ToSet(obstacles) : /\ Endangers(m) /\ Away(twist[1].turn, AvgAngle(m))
                                     /\ Cos(AvgAngle(m)) >= Cos(AvgAngle(obs))
=============================================================================
