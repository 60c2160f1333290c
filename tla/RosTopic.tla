------------------------------ MODULE RosTopic ------------------------------
(***************************************************************************)
(* A ROS subscription as the nodes use it: messages wait in a queue of     *)
(* bounded size for the node's single spinning thread, and when the queue  *)
(* is full the OLDEST waiting message is discarded.                        *)
(***************************************************************************)
EXTENDS Naturals, Sequences

\* What the queue holds after a message m has come in.
Deliver(queue, m, size) ==
    IF Len(queue) < size THEN Append(queue, m) ELSE Append(Tail(queue), m)

\* The newest message known: the last one waiting, or the last one handled.
Newest(queue, handled) == IF queue = <<>> THEN handled ELSE queue[Len(queue)]
=============================================================================
