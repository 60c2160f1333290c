------------------------------ MODULE MCTeleop ------------------------------
(***************************************************************************)
(* Instances of Teleop: positions in the dead zone, on its edge, at the    *)
(* ends, and to the side by so little that the wheels go straight.         *)
(***************************************************************************)
EXTENDS Teleop

FewPositions == {[X |-> 128, Y |-> 121], [X |-> 255, Y |-> 128], [X |-> 135, Y |-> 255]}
=============================================================================
