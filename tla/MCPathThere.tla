---------------------------- MODULE MCPathThere ----------------------------
(***************************************************************************)
(* PathFinder on a map of four free cells: the target may be in the cell   *)
(* the robot is in.                                                        *)
(***************************************************************************)
EXTENDS PathFinder

OneMap == {[rows |-> 2, cols |-> 2, x |-> 0, y |-> 0, data |-> <<0, 0, 0, 0>>]}
OnOne == {[x |-> 0, y |-> 1], [x |-> 1, y |-> 1], [x |-> 3, y |-> 0]}
=============================================================================
