--------------------------- MODULE IntegrationNode ---------------------------
(***************************************************************************)
(* wheel_integration_package/IntegrationNode: the speeds of the wheels for *)
(* a Twist, doubled so that half the distance of the wheels is an integer. *)
(***************************************************************************)
EXTENDS Integers

CONSTANTS maximum_speed, distBetweenWheels

ASSUME IntegrationAssumption == maximum_speed \in Nat /\ distBetweenWheels \in Nat

\* abs(angular_vel) < 0.01, in the unit of ProController.
AlmostStraight(ang) == -128 < ang /\ ang < 128

\* angular * (linear / angular -+ distance / 2).
Wheel(msg, side) ==
    2 * maximum_speed * msg.lin + (IF AlmostStraight(msg.ang) THEN 0
                                   ELSE side * msg.ang * distBetweenWheels)
LeftWheel(msg) == Wheel(msg, -1)
RightWheel(msg) == Wheel(msg, 1)
=============================================================================
