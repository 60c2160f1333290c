----------------------------- MODULE PathFinder -----------------------------
(***************************************************************************)
(* pathfinding_igvc/PathFinder: a path on the map from the robot to a      *)
(* target, given an occupancy grid.  The grid is surrounded by free cells  *)
(* if the target is off it, both ends are turned into cells, AStar finds a *)
(* path and its cells are turned into points again.                        *)
(*                                                                         *)
(* Points have integer coordinates and cells are Resolution wide; the grid *)
(* may be anywhere but is not rotated.                                     *)
(***************************************************************************)
EXTENDS AStar, SequencesExt

CONSTANTS Maps,      \* occupancy grids: [rows, cols, data, x, y], (x, y) the origin
          Points,    \* where the robot and the target may be: [x, y]
          Resolution

ASSUME PathAssumption ==
    /\ Resolution \in Nat \ {0}
    /\ Points \subseteq [x : Int, y : Int]
    /\ Maps \subseteq [rows : Nat \ {0}, cols : Nat \ {0}, x : Int, y : Int,
                      data : Seq(-1..100)]
    /\ \A m \in Maps : Len(m.data) = m.rows * m.cols

VARIABLES
    map, robot, target, \* the arguments of calculatePath()
    poses               \* the positions of the path it returns

vars == <<searchVars, map, robot, target, poses>>

\* convertFromMapToGridPoint(): the quotients are truncated to an int, then the
\* negative ones lowered.
Lowered(n) == IF n < 0 THEN n - 1 ELSE n
Truncated(n) == IF n < 0 THEN -((-n) \div Resolution) ELSE n \div Resolution
ConvertFromMapToGridPoint(info, p) ==
    <<Lowered(Truncated(p.y - info.y)), Lowered(Truncated(p.x - info.x))>>

ConvertFromGridToMapPoint(info, c) ==
    [x |-> c[2] * Resolution + info.x, y |-> c[1] * Resolution + info.y]

\* addSpaceLeft() and addSpaceRight(): a free cell is inserted in every row, at the
\* index (from 0) that the iterator has come to.
InsertColumn(g, first) ==
    LET data[rows \in 0..g.rows] ==
            IF rows = 0 THEN g.data
            ELSE InsertAt(data[rows - 1], first + (rows - 1) * (g.cols + 1) + 1, GRID_FREE)
    IN  [g EXCEPT !.cols = @ + 1, !.data = data[g.rows]]
AddSpaceLeft(g) == InsertColumn(g, 0)
AddSpaceRight(g) == InsertColumn(g, g.cols)

FreeRow(g) == [k \in 1..g.cols |-> GRID_FREE]
AddSpaceUp(g) == [g EXCEPT !.data = @ \o FreeRow(g), !.rows = @ + 1]
AddSpaceDown(g) == [g EXCEPT !.data = FreeRow(g) \o @, !.rows = @ + 1]

UpdateOrigin(g) ==
    LET o == ConvertFromGridToMapPoint(g, <<-1, -1>>)
    IN  [g EXCEPT !.x = o.x, !.y = o.y]

AddSpaceKeepsOrigin(g) == AddSpaceDown(AddSpaceUp(AddSpaceRight(AddSpaceLeft(g))))
AddSpaceAroundGrid(g) ==
    UpdateOrigin(AddSpaceDown(AddSpaceUp(AddSpaceRight(AddSpaceLeft(g)))))

IsPointInsideGrid(g, c) == c[1] \in 0..g.rows - 1 /\ c[2] \in 0..g.cols - 1

Fit(n, size) == IF n < 0 THEN 0 ELSE IF n >= size THEN size - 1 ELSE n
FitPointInsideGrid(g, c) == <<Fit(c[1], g.rows), Fit(c[2], g.cols)>>

\* processGridAndGetStartAndGoalOnGrid().
ProcessGrid(m, p) ==
    IF IsPointInsideGrid(m, ConvertFromMapToGridPoint(m, p)) THEN m
    ELSE AddSpaceAroundGrid(m)

\* The map contains the robot: the code does not check that its cell is inside the grid.
Covers(m, p) ==
    /\ p.x \in m.x..m.x + m.cols * Resolution - 1
    /\ p.y \in m.y..m.y + m.rows * Resolution - 1

\* A call of calculatePath().
Init ==
    /\ map \in Maps /\ robot \in Points /\ target \in Points
    /\ Covers(map, robot)
    /\ grid = ProcessGrid(map, target)
    /\ start = ConvertFromMapToGridPoint(grid, robot)
    /\ goal = FitPointInsideGrid(grid, ConvertFromMapToGridPoint(grid, target))
    /\ SearchInit
    /\ poses = <<>>

\* constructPath(); the headings of the poses are left out.
ConstructPath ==
    /\ phase = "done"
    /\ phase' = "published"
    /\ poses' = [i \in DOMAIN path |-> ConvertFromGridToMapPoint(grid, path[i])]
    /\ UNCHANGED <<inputs, open, closed, cost, parent, at, path, map, robot, target>>

Next == (Search /\ UNCHANGED <<map, robot, target, poses>>) \/ ConstructPath

Spec == Init /\ [][Next]_vars
FairSpec == Spec /\ WF_vars(Next)

-----------------------------------------------------------------------------
\* AddSpaceKeepsOrigin is the definition that follows it with the mistake of its name.

TypeOK ==
    /\ SearchTypeOK
    /\ map \in Maps /\ robot \in Points /\ target \in Points
    /\ Len(grid.data) = grid.rows * grid.cols
    /\ poses \in Seq([x : Int, y : Int])

\* The cell of the map received that has p as its corner is blocked.
Blocked(p) ==
    LET row == (p.y - map.y) \div Resolution
        col == (p.x - map.x) \div Resolution
    IN  /\ row \in 0..map.rows - 1 /\ col \in 0..map.cols - 1
        /\ map.data[row * map.cols + col + 1] # GRID_FREE

\* How far p is from the square cell with corner c, in either direction.
Gap(n, low) == IF n < low THEN low - n ELSE IF n >= low + Resolution THEN n - low - Resolution + 1 ELSE 0
GapTo(p, c) == Gap(p.x, c.x) + Gap(p.y, c.y)

\* The path goes from cell to neighbouring cell and, between its ends, over cells
\* that are free in the map as it was received, whether or not the grid was enlarged
\* and its origin moved.  It starts in the cell the robot is in and ends as near to the
\* target as any cell of the map ("the closest cell to the goal that is still in the
\* grid").
PathLeads ==
    /\ \A i \in 2..Len(poses) :
         /\ poses[i] # poses[i - 1]
         /\ poses[i].x - poses[i - 1].x \in {-Resolution, 0, Resolution}
         /\ poses[i].y - poses[i - 1].y \in {-Resolution, 0, Resolution}
    /\ \A i \in 2..Len(poses) - 1 : ~Blocked(poses[i])
    /\ poses # <<>> =>
         /\ GapTo(robot, poses[1]) = 0
         /\ \A row \in 0..map.rows - 1, col \in 0..map.cols - 1 :
              GapTo(target, poses[Len(poses)])
                <= GapTo(target, ConvertFromGridToMapPoint(map, <<row, col>>))

\* The search and the tracing of the path end, unless the robot is already in the
\* cell of the target.
EndsUnlessThere == (phase = "search" /\ start # goal) ~> (phase = "published")

\* They always end.
Ends == <>(phase = "published")
=============================================================================
