------------------------------- MODULE AStar -------------------------------
(***************************************************************************)
(* pathfinding_igvc/AStar: the search for a path between two cells of an   *)
(* occupancy grid.  Every step costs 1, diagonal ones too, and the         *)
(* heuristic is the Euclidean distance, whose square is what is kept here. *)
(* Cells are <<row, col>>.                                                 *)
(***************************************************************************)
EXTENDS Integers, Sequences

\* Operators named after a mistake (IsValidOneShort, ExpandKeepsEntry) are
\* the definition that follows them with that mistake made, to be put in its place
\* to see which property notices.
VARIABLES
    grid,        \* [rows, cols, data]: the occupancy grid, data row by row
    start, goal, \* cells
    open,        \* _open_list: entries [g, h2, cell]
    closed,      \* _closed_list
    cost,        \* g in _cell_details, of the cells that have got one
    parent,      \* parent in _cell_details, of those cells and of a goal reached
    phase,       \* "search", "trace" while tracePath() runs, "done"
    at,          \* the cell tracePath() is at
    path         \* the stack tracePath() fills, its top first

inputs == <<grid, start, goal>>
searchVars == <<inputs, open, closed, cost, parent, phase, at, path>>

GRID_FREE == 0

\* isUnBlocked().
IsUnBlocked(c) == grid.data[c[1] * grid.cols + c[2] + 1] = GRID_FREE

IsValidOneShort(c) == c[1] \in 0..grid.rows - 2 /\ c[2] \in 0..grid.cols - 1
IsValid(c) == c[1] \in 0..grid.rows - 1 /\ c[2] \in 0..grid.cols - 1

\* The square of calculateHValue().
H2(c) == (c[1] - goal[1]) * (c[1] - goal[1]) + (c[2] - goal[2]) * (c[2] - goal[2])

\* sqrt(a) < sqrt(b) + k, and from it the order of two scores f = g + h.
RootLess(a, b, k) ==
    LET rest == a - b - k * k
    IN  IF k >= 0 THEN rest < 0 \/ rest * rest < 4 * k * k * b
        ELSE rest < -2 * k * k /\ 4 * k * k * a < (b - a - k * k) * (b - a - k * k)
Less(e, f) == RootLess(e.h2, f.h2, f.g - e.g)

\* The set is ordered by score, then by row, then by column.
Before(e, f) ==
    \/ Less(e, f)
    \/ /\ ~Less(f, e)
       /\ \/ e.cell[1] < f.cell[1]
          \/ e.cell[1] = f.cell[1] /\ e.cell[2] < f.cell[2]
IsFirst(e) == \A f \in open \ {e} : Before(e, f)

\* north, south, east, west, north-east, north-west, south-east, south-west
Offsets == << <<-1, 0>>, <<1, 0>>, <<0, 1>>, <<0, -1>>,
              <<-1, 1>>, <<-1, -1>>, <<1, 1>>, <<1, -1>> >>
Successor(p, k) == <<p[1] + Offsets[k][1], p[2] + Offsets[k][2]>>

\* processSuccessor() returns true for one of them; the goal is inside the grid.
Finds(p) == \E k \in DOMAIN Offsets : Successor(p, k) = goal

\* The successors of p that processSuccessor() enters: it is not called again once
\* it has met the goal.
Entered(p) ==
    {Successor(p, k) : k \in {k \in DOMAIN Offsets :
        LET c == Successor(p, k)
            entry(g) == [g |-> g, h2 |-> H2(c)]
        IN  /\ \A j \in 1..k : Successor(p, j) # goal
            /\ IsValid(c)
            /\ c \notin closed
            /\ IsUnBlocked(c)
            /\ c \notin DOMAIN cost \/ Less(entry(cost[p] + 1), entry(cost[c]))}}

Update(f, S, v) == [c \in DOMAIN f \cup S |-> IF c \in S THEN v ELSE f[c]]

SearchInit ==
    /\ open = {[g |-> 0, h2 |-> 0, cell |-> start]}
    /\ closed = {}
    /\ cost = [c \in {start} |-> 0]
    /\ parent = [c \in {start} |-> start]
    /\ phase = "search" /\ at = goal /\ path = <<>>

\* One round of the loop in search().
ExpandKeepsEntry ==
    /\ phase = "search"
    /\ \E e \in {e \in open : IsFirst(e)} : \E new \in {Entered(e.cell)} :
         LET p == e.cell
         IN  /\ closed' = closed \cup {p}
             /\ open' = open
                          \cup {[g |-> cost[p] + 1, h2 |-> H2(c), cell |-> c] : c \in new}
             /\ cost' = Update(cost, new, cost[p] + 1)
             /\ parent' = Update(parent, new \cup (IF Finds(p) THEN {goal} ELSE {}), p)
             /\ phase' = IF Finds(p) THEN "trace" ELSE "search"
    /\ UNCHANGED <<inputs, at, path>>
Expand ==
    /\ phase = "search"
    /\ \E e \in {e \in open : IsFirst(e)} : \E new \in {Entered(e.cell)} :
         LET p == e.cell
         IN  /\ closed' = closed \cup {p}
             /\ open' = (open \ {e})
                          \cup {[g |-> cost[p] + 1, h2 |-> H2(c), cell |-> c] : c \in new}
             /\ cost' = Update(cost, new, cost[p] + 1)
             /\ parent' = Update(parent, new \cup (IF Finds(p) THEN {goal} ELSE {}), p)
             /\ phase' = IF Finds(p) THEN "trace" ELSE "search"
    /\ UNCHANGED <<inputs, at, path>>

\* There is no path: the stack stays empty.
GiveUp ==
    /\ phase = "search" /\ open = {}
    /\ phase' = "done"
    /\ UNCHANGED <<inputs, open, closed, cost, parent, at, path>>

\* One round of the loop in tracePath(), or its end.  PathBound caps the stack, which
\* grows no further for a path that goes round in circles.
PathBound == grid.rows * grid.cols
TracePath ==
    /\ phase = "trace"
    /\ path' = IF Len(path) < PathBound THEN <<at>> \o path ELSE path
    /\ at' = parent[at]
    /\ phase' = IF parent[at] = at THEN "done" ELSE "trace"
    /\ UNCHANGED <<inputs, open, closed, cost, parent>>

Search == Expand \/ GiveUp \/ TracePath

-----------------------------------------------------------------------------
Cells == (0..grid.rows - 1) \X (0..grid.cols - 1)
Free(c) == grid.data[c[1] * grid.cols + c[2] + 1] = GRID_FREE
Touch(c, d) == c # d /\ c[1] - d[1] \in -1..1 /\ c[2] - d[2] \in -1..1

SearchTypeOK ==
    /\ start \in Cells /\ goal \in Cells /\ at \in Cells
    /\ open \subseteq [g : Nat, h2 : Nat, cell : Cells]
    /\ closed \subseteq Cells
    /\ DOMAIN cost \subseteq Cells /\ \A c \in DOMAIN cost : cost[c] \in Nat
    /\ DOMAIN parent \subseteq Cells /\ \A c \in DOMAIN parent : parent[c] \in Cells
    /\ phase \in {"search", "trace", "done", "published"}
    /\ path \in Seq(Cells)

\* The search gives up only when there is no path: what it has closed holds the
\* start, is as large as free cells allow, and touches the goal nowhere (search).
WalledIn ==
    phase = "done" /\ path = <<>> =>
      /\ start \in closed
      /\ \A c \in closed, d \in Cells : Touch(c, d) => d # goal /\ (Free(d) => d \in closed)
=============================================================================
