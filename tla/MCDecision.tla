----------------------------- MODULE MCDecision -----------------------------
(***************************************************************************)
(* The nodes of decision_igvc that compute Twists, and the one that        *)
(* arbitrates between them.  What GpsMover and LidarDecision compute in a  *)
(* call has nothing in common, and FinalDecision takes a Twist as it       *)
(* comes: each is explored with the others at rest.                        *)
(***************************************************************************)
EXTENDS FinalDecision, GpsMover, LidarDecision

\* Each source may turn one way or the other, or go straight, so that every branch of
\* the arbitration competes.
Forward == [lin |-> 1, ang |-> 0]
Left == [lin |-> 1, ang |-> 1]
Right == [lin |-> 1, ang |-> -1]
ZeroOrLeft == {Zero, Left}
ZeroOrRight == {Zero, Right}
ForwardOrZero == {Forward, Zero}

\* Displacements in all sixteen directions, headings of more than one turn.
FewCoordinates == 0..2
ManyHeadings == -10..10

\* Five readings, swept from right to left and from left to right.  Obstacles at 48
\* degrees are outside the danger angle of 45, but less than a radian off; 2000 is
\* beyond range.
BothWays == {[angle_min |-> -48, angle_increment |-> 24],
             [angle_min |-> 48, angle_increment |-> -24]}
FewRanges == {30, 150, 900, 1100, 2000}
FewDiffs == {-1, 250, 100000}

NothingSeen == hits = <<>> /\ twist = <<>> /\ build = <<-1, FALSE>>
AtRest == location = [x |-> 0, y |-> 0] /\ waypoint = location /\ heading = 0

DecisionInit ==
    /\ Init
    /\ \/ MoverInit /\ \E sweep \in BothWays : ScanCallBack(sweep, [j \in 1..ScanLength |-> RangeMax])
       \/ AtRest /\ MoverInit /\ LidarInit
DecisionNext ==
    \/ Init /\ NothingSeen /\ MoverNext /\ UNCHANGED <<vars, lidar_vars>>
    \/ LidarNext /\ UNCHANGED <<vars, mover_vars>>
    \/ NothingSeen /\ AtRest /\ Next /\ UNCHANGED <<mover_vars, lidar_vars>>
DecisionSpec ==
    DecisionInit /\ [][DecisionNext]_<<vars, mover_vars, lidar_vars>> /\ Fairness
=============================================================================
