-------------------------- MODULE MCGpsNavigation --------------------------
(***************************************************************************)
(* Instances of GpsNavigation on a small grid: a route that comes back on  *)
(* itself, one whose waypoints lie within tolerance of each other, an      *)
(* empty one and one of odd length.                                        *)
(***************************************************************************)
EXTENDS GpsNavigation

Routes == {<<0, 1, 1, 0, 0, 1>>, <<0, 0, 0, 1>>, <<>>, <<0, 1, 1>>}
SmallGrid == [x : 0..2, y : 0..2]
Corner == {[x |-> 0, y |-> 0], [x |-> 2, y |-> 2]}
=============================================================================
