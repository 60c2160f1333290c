----------------------------- MODULE MCDragRace -----------------------------
(***************************************************************************)
(* Instances of DragRace: the controller steers along the cones.           *)
(***************************************************************************)
EXTENDS DragRace

Along == [lin |-> 1, ang |-> 0]
OneTwist == {Along}
=============================================================================
