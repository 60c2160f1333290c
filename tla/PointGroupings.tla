--------------------------- MODULE PointGroupings ---------------------------
(***************************************************************************)
(* drag_race_iarrc/LidarObstacleManager::getPointGroupings: the cones are  *)
(* split into groups, to each of which, if it has two cones, a line is     *)
(* then fitted (getConeLines).  Cones are known by their rank in the       *)
(* argument.                                                               *)
(***************************************************************************)
EXTENDS Integers, Sequences, SequencesExt

CONSTANTS Positions, \* where cones may stand: records [x, y]
          Tolerance,
          MaxPoints  \* bound on the number of cones

ASSUME GroupingsAssumption ==
    /\ Positions \subseteq [x : Int, y : Int]
    /\ Tolerance \in Nat /\ MaxPoints \in Nat

VARIABLES
    cones,    \* the argument: the position of every cone
    points,   \* cones not yet reached
    to_visit, \* stack, its top first
    curr_point,
    i,        \* index of the for loop, 0 when it is not running
    group, groups,
    closed    \* no group is under construction

grouping_vars == <<cones, points, to_visit, curr_point, i, group, groups, closed>>

\* distanceBetweenPoints() below the tolerance.
Near(p, q) ==
    LET dx == cones[p].x - cones[q].x
        dy == cones[p].y - cones[q].y
    IN  dx * dx + dy * dy < Tolerance * Tolerance

GroupingsInit ==
    /\ \E n \in 0..MaxPoints : cones \in {f \in [1..n -> Positions] : IsInjective(f)}
    /\ points = [k \in DOMAIN cones |-> k]
    /\ to_visit = <<>> /\ curr_point = 0 /\ i = 0
    /\ group = <<>> /\ groups = <<>> /\ closed = TRUE

\* The group starts off with the last point.
Start ==
    /\ closed /\ points # <<>>
    /\ closed' = FALSE
    /\ group' = <<>>
    /\ to_visit' = <<Last(points)>>
    /\ points' = Front(points)
    /\ UNCHANGED <<cones, curr_point, i, groups>>

Visit ==
    /\ ~closed /\ i = 0 /\ to_visit # <<>>
    /\ curr_point' = Head(to_visit)
    /\ to_visit' = Tail(to_visit)
    /\ i' = 1
    /\ UNCHANGED <<cones, points, group, groups, closed>>

\* One iteration of the for loop.  Erasing a point moves the next one to its index,
\* and the loop goes on to the index after.
CompareKeepsPoint ==
    /\ i \in 1..Len(points)
    /\ i' = i + 1
    /\ IF Near(curr_point, points[i]) THEN to_visit' = <<points[i]>> \o to_visit
       ELSE UNCHANGED to_visit
    /\ UNCHANGED <<cones, points, curr_point, group, groups, closed>>
CompareNextOnly ==
    /\ i \in 1..Len(points)
    /\ IF Near(curr_point, points[i])
       THEN /\ to_visit' = <<points[i]>> \o to_visit
            /\ points' = RemoveAt(points, i)
       ELSE UNCHANGED <<points, to_visit>>
    /\ i' = i + 2
    /\ UNCHANGED <<cones, curr_point, group, groups, closed>>
CompareBacksUp ==
    /\ i \in 1..Len(points)
    /\ IF Near(curr_point, points[i])
       THEN /\ to_visit' = <<points[i]>> \o to_visit
            /\ points' = RemoveAt(points, i)
            /\ i' = i + 1
       ELSE UNCHANGED <<points, to_visit, i>>
    /\ UNCHANGED <<cones, curr_point, group, groups, closed>>
Compare ==
    /\ i \in 1..Len(points)
    /\ i' = i + 1
    /\ IF Near(curr_point, points[i])
       THEN /\ to_visit' = <<points[i]>> \o to_visit
            /\ points' = RemoveAt(points, i)
       ELSE UNCHANGED <<points, to_visit>>
    /\ UNCHANGED <<cones, curr_point, group, groups, closed>>

Visited ==
    /\ i > Len(points)
    /\ i' = 0
    /\ group' = Append(group, curr_point)
    /\ UNCHANGED <<cones, points, to_visit, curr_point, groups, closed>>

Close ==
    /\ ~closed /\ i = 0 /\ to_visit = <<>>
    /\ closed' = TRUE
    /\ groups' = Append(groups, group)
    /\ UNCHANGED <<cones, points, to_visit, curr_point, i, group>>

GroupingsNext == Start \/ Visit \/ Compare \/ Visited \/ Close

GroupingsSpec == GroupingsInit /\ [][GroupingsNext]_grouping_vars

-----------------------------------------------------------------------------
\* CompareKeepsPoint, CompareNextOnly and CompareBacksUp are Compare with the mistake of
\* their names, to be put in its place to see which property notices.

Done == closed /\ points = <<>>

Cones == DOMAIN cones
GroupingsTypeOK ==
    /\ cones \in Seq(Positions)
    /\ \A s \in {points, to_visit, group} : s \in Seq(Cones)
    /\ groups \in Seq(Seq(Cones))
    /\ curr_point \in Cones \cup {0}
    /\ i \in Nat
    /\ closed \in BOOLEAN

\* The groups are a partition of the cones, though the vector is erased from while it
\* is iterated over, and what is in a group belongs together: it cannot be cut in two
\* with every cone of one part farther than the tolerance from all of the other.
Everywhere ==
    points \o to_visit \o (IF i > 0 THEN <<curr_point>> ELSE <<>>)
           \o (IF closed THEN <<>> ELSE group) \o FlattenSeq(groups)
Connected(g) == \A part \in (SUBSET ToSet(g)) \ {{}, ToSet(g)} :
                   \E p \in part, q \in ToSet(g) \ part : Near(p, q)
ConnectedPartition ==
    /\ IsInjective(Everywhere) /\ ToSet(Everywhere) = Cones
    /\ \A k \in DOMAIN groups : Connected(groups[k])

\* The loop may pass over cones next to those it erases, but never so that two
\* cones within tolerance both end up alone and no line is fitted to either.
Alone(p) == \E k \in DOMAIN groups : groups[k] = <<p>>
NoPairAlone == Done => \A p, q \in Cones : p # q /\ Near(p, q) => ~Alone(p) \/ ~Alone(q)
=============================================================================
