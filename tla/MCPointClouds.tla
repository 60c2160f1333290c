---------------------------- MODULE MCPointClouds ----------------------------
(***************************************************************************)
(* The two ways the robot groups points, PointGroupings and DBSCAN, one    *)
(* after the other on the same points.  With a tolerance of 2, points of   *)
(* the grid are near when they are neighbours, straight or diagonally;     *)
(* with a radius of 1, when they are straight neighbours.                  *)
(***************************************************************************)
EXTENDS PointGroupings, DBSCAN

Track == [x : 0..3, y : 0..1]

\* Two clusters need six points: two corners, for two neighbours, or two crosses that
\* share (2, 0) and (1, 1), for three.
Corners == {<<0, 0>>, <<0, 1>>, <<1, 0>>, <<3, 0>>, <<3, 1>>, <<2, 1>>}
Crosses == {<<0, 0>>, <<1, 0>>, <<1, 1>>, <<2, 0>>, <<2, 1>>, <<3, 1>>}
TwoClusters ==
    \E shape \in {Corners, Crosses} :
       \E order \in {f \in [1..6 -> shape] : IsInjective(f)} :
          FindClustersInit([k \in 1..6 |-> [x |-> order[k][1], y |-> order[k][2]]])

CloudsInit == /\ GroupingsInit
              /\ FindClustersInit(cones) \/ (cones = <<>> /\ TwoClusters)
CloudsNext == \/ GroupingsNext /\ UNCHANGED dbscan_vars
              \/ Done /\ FindClusters /\ UNCHANGED grouping_vars
CloudsSpec == /\ CloudsInit /\ [][CloudsNext]_<<grouping_vars, dbscan_vars>>
              /\ WF_<<grouping_vars, dbscan_vars>>(CloudsNext)

\* The loops end, although getPointGroupings() erases from the vector it runs over and
\* expand() calls itself.
Terminates == <>(Done /\ Found)
=============================================================================
