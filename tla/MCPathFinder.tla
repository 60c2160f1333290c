---------------------------- MODULE MCPathFinder ----------------------------
(***************************************************************************)
(* One call of PathFinder, and PathFinding following its path, for every   *)
(* pattern of obstacles on a small map and targets on the map, just off it *)
(* and far away; and the two nodes going on for ever on a map of three     *)
(* cells.                                                                  *)
(***************************************************************************)
EXTENDS PathNavigation

MapsOf(rows, cols, x, y) ==
    {[rows |-> rows, cols |-> cols, x |-> x, y |-> y, data |-> d]
       : d \in [1..rows * cols -> {GRID_FREE, 100}]}
SmallMaps == MapsOf(3, 3, 1, 1)

Point(x, y) == [x |-> x, y |-> y]
Around == {Point(4, 1), Point(6, 2), Point(-1, 4), Point(0, 0),
           Point(9, 2), Point(3, 10)}

\* Cells at (4, 1), (6, 1) and (8, 1).
Strip == [rows |-> 1, cols |-> 3, x |-> 4, y |-> 1, data |-> <<0, 0, 0>>]
OneStrip == {Strip}
AllMaps == SmallMaps \cup OneStrip
TwoGoals == {Point(9, 2), Point(4, 1)}
TwoPlaces == {Point(4, 1), Point(6, 2)}
TwoHeadings == {0, 12}

Once == map \notin Grids \cup {NoMap}

CallsInit == NodesInit /\ (NoCall \/ (Init /\ Once /\ place = robot))

\* Pose and path reach PathFinding after the one call, or at any time and then with
\* one heading.
Hear(h) == (IF Once THEN Idle /\ pose = <<>> /\ h # 0 ELSE h = 0) /\ TfCallBack(h)
Follow == (Once => Idle) /\ PathCallBack

CallsNext == (~Once /\ World) \/ Node \/ (\E h \in Headings : Hear(h)) \/ Follow
CallsSpec ==
    /\ CallsInit /\ [][CallsNext]_navVars
    /\ NodeFairness
    /\ WF_navVars(~Once /\ \E g \in Grids : SendGrid(g))
    /\ WF_navVars(~Once /\ \E h \in Headings : Hear(h)) /\ WF_navVars(Follow)
=============================================================================
