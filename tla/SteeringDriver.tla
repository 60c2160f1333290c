--------------------------- MODULE SteeringDriver ---------------------------
(***************************************************************************)
(* drivers/SteeringDriver: how a Twist received on /cmd_vel becomes the    *)
(* seven bytes of a serial message.  Speeds are integers in the unit of    *)
(* the caller; the doubles of the code are truncated to a char only at the *)
(* end, so one integer division models the whole conversion.               *)
(***************************************************************************)
EXTENDS Integers, Sequences

CONSTANTS MaxLinear,  \* max_abs_linear_speed
          MaxAngular  \* max_abs_angular_speed

ASSUME SteeringAssumption ==
    /\ MaxLinear \in Nat \ {0}
    /\ MaxAngular \in Nat \ {0}

Twist == [lin : Int, ang : Int]

\* Serial bytes carry, besides their value, the field they were written for.
\* The firmware sees val only; field lets a property tell a speed from an angle.
FieldOrder == <<"B", "x", "y", "z", "ax", "ay", "az">>
Fields == {"B", "x", "y", "z", "ax", "ay", "az"}
Byte == [val : 0..255, field : Fields]

HeadByte == 66 \* 'B'

\* map(): clamp to [-max, max], then scale to [lo, hi] and truncate.
MapInput(v, max, lo, hi) ==
    LET c == IF v < -max THEN -max ELSE IF v > max THEN max ELSE v
    IN  ((c + max) * (hi - lo)) \div (2 * max) + lo

LinearByte(v) == MapInput(v, MaxLinear, 1, 255)
AngularByte(v) == MapInput(v, MaxAngular, 0, 180)

\* The message twistCallback writes.  The four unused components are zero in
\* every Twist the robot's own nodes publish.
Frame(t) == << [val |-> HeadByte, field |-> "B"],
               [val |-> LinearByte(t.lin), field |-> "x"],
               [val |-> LinearByte(0), field |-> "y"],
               [val |-> LinearByte(0), field |-> "z"],
               [val |-> AngularByte(0), field |-> "ax"],
               [val |-> AngularByte(0), field |-> "ay"],
               [val |-> AngularByte(t.ang), field |-> "az"] >>
=============================================================================
