--------------------------- MODULE PathNavigation ---------------------------
(***************************************************************************)
(* pathfinding_igvc: PathFinderNode, which calls PathFinder whenever it    *)
(* receives a grid or a goal and has both, and PathFinding, which turns    *)
(* each path into a Twist with the robot's pose it last heard of.  The     *)
(* mapper, whoever chooses goals, the robot and /tf are external; so is    *)
(* the remapping of the topic /path_finder/path to /path.                  *)
(***************************************************************************)
EXTENDS PathFinder, RosTopic, Angles

CONSTANTS Grids,     \* the maps the mapper publishes,
          Goals,     \* the goals chosen,
          Places,    \* and where the robot may be, meanwhile
          Headings,
          QueueSize, \* of the subscriptions to grids and goals
          num_poses

ASSUME NavigationAssumption ==
    /\ Grids \subseteq Maps /\ Goals \subseteq Points /\ Places \subseteq Points
    /\ QueueSize \in Nat \ {0} /\ num_poses \in Nat \ {0}
    /\ Headings \subseteq Int
    /\ \A g \in Grids, p \in Places : Covers(g, p)

VARIABLES
    place,                \* where the robot is
    wanted,               \* the goal last chosen, << >> before
    grids, goals,         \* messages waiting for PathFinderNode
    last_grid, last_goal, \* _grid and _goal once received, << >> before
    paths,                \* message waiting for PathFinding
    pose,                 \* where it believes the robot is, << >> before it was told
    alive,                \* its process runs
    twist,                \* the last one it published
    followed              \* the path that was for, and the pose it was given with

nodeVars == <<grids, goals, last_grid, last_goal>>
followerVars == <<pose, alive, twist, followed>>
world == <<place, wanted>>
navVars == <<vars, world, nodeVars, paths, followerVars>>

Still == [turn |-> 0, forward |-> FALSE]
AnyTwist == [turn |-> 2000, forward |-> TRUE] \* whatever was found past the end

NodesInit ==
    /\ grids = <<>> /\ goals = <<>> /\ last_grid = <<>> /\ last_goal = <<>>
    /\ wanted = <<>> /\ paths = <<>>
    /\ pose = <<>> /\ alive = TRUE /\ twist = Still /\ followed = <<>>

\* PathFinder has not been called yet.
NoMap == [rows |-> 0, cols |-> 0, x |-> 0, y |-> 0, data |-> <<>>]
NoCall ==
    /\ place \in Places
    /\ map = NoMap /\ robot = place /\ target = place
    /\ grid = NoMap /\ start = <<0, 0>> /\ goal = start
    /\ open = {} /\ closed = {} /\ cost = <<>> /\ parent = <<>>
    /\ phase = "published" /\ at = start /\ path = <<>> /\ poses = <<>>

Idle == phase = "published"

-----------------------------------------------------------------------------
Localise(p) ==
    /\ place' = p
    /\ UNCHANGED <<vars, wanted, nodeVars, paths, followerVars>>

SendGrid(g) ==
    /\ grids' = Deliver(grids, g, QueueSize)
    /\ UNCHANGED <<vars, world, goals, last_grid, last_goal, paths, followerVars>>

SendGoal(p) ==
    /\ wanted' = <<p>>
    /\ goals' = Deliver(goals, p, QueueSize)
    /\ UNCHANGED <<vars, place, grids, last_grid, last_goal, paths, followerVars>>

\* The call of calculatePath(), whose first part is done at once.
CalculatePath(g, r, t) ==
    /\ phase' = "search" /\ map' = g /\ robot' = r /\ target' = t
    /\ \E processed \in {ProcessGrid(g, t)} :
         \E from \in {ConvertFromMapToGridPoint(processed, r)},
            to \in {FitPointInsideGrid(processed, ConvertFromMapToGridPoint(processed, t))} :
           /\ grid' = processed /\ start' = from /\ goal' = to /\ at' = to
           /\ open' = {[g |-> 0, h2 |-> 0, cell |-> from]} /\ closed' = {}
           /\ cost' = [c \in {from} |-> 0] /\ parent' = [c \in {from} |-> from]
    /\ path' = <<>> /\ poses' = <<>>

\* publishPath(): there may be no transform for the time of the call.
PublishPath(g, t) == UNCHANGED vars \/ CalculatePath(g, place, t)

OccupancyGridCallback ==
    /\ Idle /\ grids # <<>>
    /\ grids' = Tail(grids) /\ last_grid' = <<Head(grids)>>
    /\ IF last_goal = <<>> THEN UNCHANGED vars
       ELSE PublishPath(Head(grids), last_goal[1])
    /\ UNCHANGED <<world, goals, last_goal, paths, followerVars>>

GoalCallbackOnOldGoal ==
    /\ Idle /\ goals # <<>>
    /\ goals' = Tail(goals)
    /\ last_goal' = IF last_goal = <<>> THEN <<Head(goals)>> ELSE last_goal
    /\ IF last_grid = <<>> THEN UNCHANGED vars
       ELSE PublishPath(last_grid[1], last_goal'[1])
    /\ UNCHANGED <<world, grids, last_grid, paths, followerVars>>
GoalCallback ==
    /\ Idle /\ goals # <<>>
    /\ goals' = Tail(goals) /\ last_goal' = <<Head(goals)>>
    /\ IF last_grid = <<>> THEN UNCHANGED vars
       ELSE PublishPath(last_grid[1], Head(goals))
    /\ UNCHANGED <<world, grids, last_grid, paths, followerVars>>

\* The node is busy until the path is found and published.
Compute ==
    /\ Search /\ UNCHANGED <<map, robot, target, poses>>
    /\ UNCHANGED <<world, nodeVars, paths, followerVars>>

Apart(c, d) == IF Abs(c[1] - d[1]) > Abs(c[2] - d[2]) THEN Abs(c[1] - d[1])
               ELSE Abs(c[2] - d[2])
Publish ==
    /\ ConstructPath
    /\ paths' = <<[poses |-> poses', target |-> target, apart |-> Apart(start, goal)]>>
    /\ UNCHANGED <<world, nodeVars, followerVars>>

-----------------------------------------------------------------------------
\* tfCallBack() of PathFinding.
TfCallBack(h) ==
    /\ alive
    /\ pose' = <<[at |-> place, heading |-> h]>>
    /\ UNCHANGED <<vars, world, nodeVars, paths, alive, twist, followed>>

\* calcVectors(), for one coordinate of the poses and of the robot.
CalcVectors(p, from) == [i \in 1..num_poses |-> p[i] - (IF i = 1 THEN from ELSE p[i - 1])]

\* weightedSum() of all vectors but the last, times a common multiple of its divisors.
Common == LET product[i \in 0..num_poses] == IF i = 0 THEN 1 ELSE i * product[i - 1]
          IN  product[num_poses]
WeightedSum(v) ==
    LET sum[i \in 0..num_poses - 1] ==
            IF i = 0 THEN 0 ELSE sum[i - 1] + v[i] * (Common \div i)
    IN  sum[num_poses - 1]

TurnNotFolded(desired, heading) == Fmod(desired - heading, Turn)
TurnRate(desired, heading) ==
    LET rate == Fmod(desired - heading, Turn)
    IN  IF rate > Half THEN rate - Turn ELSE IF rate < -Half THEN rate + Turn ELSE rate

\* pathToTwist(), of a path long enough: atan() of the sums' quotient.
PathToTwist(p, from) ==
    LET x == WeightedSum(CalcVectors([i \in DOMAIN p |-> p[i].x], from.at.x))
        y == WeightedSum(CalcVectors([i \in DOMAIN p |-> p[i].y], from.at.y))
    IN  [turn |-> IF x = 0 /\ y = 0 THEN NaN ELSE TurnRate(Atan(y, x), from.heading),
         forward |-> TRUE]

\* pathCallBack(): num_poses points are read, whether or not the path has them.
PathCallBack ==
    /\ alive /\ paths # <<>>
    /\ paths' = <<>>
    /\ followed' = <<paths[1], pose>>
    /\ LET p == paths[1].poses
       IN  IF pose = <<>> THEN twist' = Still /\ UNCHANGED alive
           ELSE IF Len(p) < num_poses
           THEN (twist' = AnyTwist /\ UNCHANGED alive) \/ (alive' = FALSE /\ UNCHANGED twist)
           ELSE twist' = PathToTwist(p, pose[1]) /\ UNCHANGED alive
    /\ UNCHANGED <<vars, world, nodeVars, pose>>

-----------------------------------------------------------------------------
\* TfCallBack needs no queue: a pose that has waited is a pose read earlier.
World == \/ \E p \in Places : Localise(p)
         \/ \E g \in Grids : SendGrid(g)
         \/ \E p \in Goals : SendGoal(p)
Node == OccupancyGridCallback \/ GoalCallback \/ Compute \/ Publish
Follower == (\E h \in Headings : TfCallBack(h)) \/ PathCallBack
NavNext == World \/ Node \/ Follower

\* The nodes spin, which serves callbacks in the order their messages came, and the
\* mapper goes on publishing; the transform is not missing each time a grid comes.
NodeFairness ==
    /\ WF_navVars(Compute \/ Publish)
    /\ SF_navVars(GoalCallback)
    /\ SF_navVars(phase' = "search" /\ OccupancyGridCallback)
NavFairness ==
    /\ NodeFairness
    /\ WF_navVars(\E h \in Headings : TfCallBack(h)) /\ WF_navVars(PathCallBack)
    /\ WF_navVars(\E g \in Grids : SendGrid(g))

NavSpec == NodesInit /\ NoCall /\ [][NavNext]_navVars /\ NavFairness

-----------------------------------------------------------------------------
\* GoalCallbackOnOldGoal and TurnNotFolded are the definitions that follow them with
\* the mistake of their names.

\* A Twist turns the robot, by half a turn at most, into the weighted direction of the
\* path it is for, or into the opposite one if that has a negative x: atan() loses the
\* quadrant.  Only a path of a goal less than num_poses - 1 cells away, or the empty
\* one, is read past its end (pathToTwist).
SteersAlongPath ==
    followed # <<>> /\ followed[2] # <<>> =>
      LET p == followed[1].poses
          x == WeightedSum(CalcVectors([i \in DOMAIN p |-> p[i].x], followed[2][1].at.x))
          y == WeightedSum(CalcVectors([i \in DOMAIN p |-> p[i].y], followed[2][1].at.y))
      IN  IF twist = AnyTwist \/ ~alive
          THEN p = <<>> \/ followed[1].apart < num_poses - 1
          ELSE \/ x = 0 /\ y = 0
               \/ /\ twist.turn \in -Half..Half
                  /\ (followed[2][1].heading + twist.turn - Direction(x, y)) % Turn
                       = IF x < 0 THEN Half ELSE 0

\* A goal that is not changed again is in the end the one steered to, whatever was
\* dropped, came while the node was busy or had no transform; unless the follower has
\* died of a path too short or a call never returns (publishPath).
FollowsNewest ==
    \A g \in Goals :
      <>[](wanted = <<g>>) /\ <>[](alive /\ start # goal)
        => <>[](followed # <<>> /\ followed[1].target = g /\ followed[2] # <<>>)
=============================================================================
