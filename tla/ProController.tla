---------------------------- MODULE ProController ----------------------------
(***************************************************************************)
(* procontroller_snowbots/ProController: what an event of the game         *)
(* controller does to the node.  Speeds count 1 / 12800, so that a         *)
(* sensitivity in percent times a step of the joystick is a speed.         *)
(***************************************************************************)
EXTENDS Integers

CONSTANTS XSensitivity, ZSensitivity \* in percent

ASSUME SensitivityAssumption == XSensitivity \in Nat /\ ZSensitivity \in Nat

\* The node: the joystick as it knows it, what it last published, its mode.
Still == [x |-> 0, z |-> 0, x_old |-> 0, z_old |-> 0, state |-> "wheels"]

\* leftJoystickX() and leftJoystickY(): 128 is the centre.
DeadZone == 121..134
LeftJoystickX(value) == IF value \in DeadZone THEN 0 ELSE -(value - 128) * ZSensitivity
LeftJoystickY(value) == IF value \in DeadZone THEN 0 ELSE (value - 128) * XSensitivity

Other(state) == IF state = "wheels" THEN "arm" ELSE "wheels"

\* The switch of readInputs().  The inputs left out change nothing.
HandledOnPress(pad, ev) ==
    CASE ev.code = "ABS_X" -> [pad EXCEPT !.z = LeftJoystickX(ev.value)]
      [] ev.code = "ABS_Y" -> [pad EXCEPT !.x = LeftJoystickY(ev.value)]
      [] ev.code = "BTN_MODE" -> [pad EXCEPT !.state = Other(@)]
HandledInWheels(pad, ev) ==
    CASE ev.code = "ABS_X" /\ pad.state = "wheels" -> [pad EXCEPT !.z = LeftJoystickX(ev.value)]
      [] ev.code = "ABS_Y" /\ pad.state = "wheels" -> [pad EXCEPT !.x = LeftJoystickY(ev.value)]
      [] ev.code = "BTN_MODE" /\ ev.value = 0 -> [pad EXCEPT !.state = Other(@)]
      [] OTHER -> pad
Handled(pad, ev) ==
    CASE ev.code = "ABS_X" -> [pad EXCEPT !.z = LeftJoystickX(ev.value)]
      [] ev.code = "ABS_Y" -> [pad EXCEPT !.x = LeftJoystickY(ev.value)]
      [] ev.code = "BTN_MODE" /\ ev.value = 0 -> [pad EXCEPT !.state = Other(@)]
      [] ev.code = "BTN_MODE" /\ ev.value = 1 -> pad

\* publishMoveXZ() publishes when a speed has changed by more than 0.0001; in arm mode
\* publishArmXZ() does nothing.
Changed(v, old) == v - old > 1 \/ old - v > 1
PublishesForward(pad) == pad.state = "wheels" /\ Changed(pad.x, pad.x_old)
Publishes(pad) ==
    /\ pad.state = "wheels"
    /\ Changed(pad.x, pad.x_old) \/ Changed(pad.z, pad.z_old)
Published(pad) == [pad EXCEPT !.x_old = pad.x, !.z_old = pad.z]
Msg(pad) == [lin |-> pad.x, ang |-> pad.z]
=============================================================================
