------------------------------- MODULE Teleop -------------------------------
(***************************************************************************)
(* Driving by hand: a person moves the joystick and the Home button, the   *)
(* kernel queues what changes, ProController turns it into Twists, and     *)
(* IntegrationNode those into the speeds of the wheels, each side of which *)
(* has a topic of its own.                                                 *)
(***************************************************************************)
EXTENDS ProController, IntegrationNode, RosTopic, SequencesExt, TLC

CONSTANTS Positions,   \* of the joystick: records [X, Y]
          EventBuffer, \* capacity of the kernel's event queue
          CmdQueue,    \* queue size of the subscription to cmd_vel
          MaxReports,  \* bound on the moves of the joystick
          MaxHome      \* bound on the times Home is pressed

ASSUME TeleopAssumption ==
    /\ Positions \subseteq [X : 0..255, Y : 0..255] /\ Positions # {}
    /\ EventBuffer \in Nat \ {0, 1} /\ CmdQueue \in Nat \ {0}
    /\ MaxReports \in Nat /\ MaxHome \in Nat

VARIABLES
    path,       \* the positions the joystick has had, the present one last
    home,       \* how often Home was pressed, and whether it is down
    plugged,    \* the controller is connected
    events,     \* the kernel's queue
    unknown,    \* axes whose last change ProController will not hear of
    overflowed, \* the kernel's queue has been full once
    running,    \* ProController is in readInputs()
    pad,        \* its variables
    held,       \* what was on the pad when the wheels last obeyed it
    cmd_vel,    \* messages waiting for IntegrationNode
    topic,      \* per side: the speed waiting for the wheels
    wheel       \* per side: the speed of the wheels

person == <<path, home, plugged>>
kernel == <<events, unknown, overflowed>>
node == <<running, pad, held>>
vars == <<person, kernel, node, cmd_vel, topic, wheel>>

Sides == {"left", "right"}
Stick == Last(path)
Event(code, value) == [code |-> code, value |-> value]
Dropped == Event("SYN_DROPPED", 0)
Axis(code) == CASE code = "ABS_X" -> {"X"} [] code = "ABS_Y" -> {"Y"} [] OTHER -> {}

\* A full queue is emptied but for the newest event, after a note of that.
Queued(queue, ev) == IF Len(queue) < EventBuffer THEN Append(queue, ev) ELSE <<Dropped, ev>>
LostBy(queue, ev) == IF Len(queue) < EventBuffer THEN {}
                     ELSE UNION {Axis(e.code) : e \in ToSet(queue)}

\* The kernel is given one event, or two in a row.
Push(evs) ==
    LET q1 == Queued(events, evs[1])
        u1 == (unknown \cup LostBy(events, evs[1])) \ Axis(evs[1].code)
    IN  /\ events' = IF Len(evs) = 1 THEN q1 ELSE Queued(q1, evs[2])
        /\ unknown' = IF Len(evs) = 1 THEN u1
                      ELSE (u1 \cup LostBy(q1, evs[2])) \ Axis(evs[2].code)
        /\ overflowed' = (overflowed \/ Len(events) + Len(evs) > EventBuffer)

\* The joystick reports the axes that have changed.
Move ==
    /\ plugged /\ Len(path) <= MaxReports
    /\ \E p \in Positions \ {Stick} :
          /\ path' = Append(path, p)
          /\ Push((IF p.X # Stick.X THEN <<Event("ABS_X", p.X)>> ELSE <<>>)
                  \o (IF p.Y # Stick.Y THEN <<Event("ABS_Y", p.Y)>> ELSE <<>>))
    /\ UNCHANGED <<home, plugged, node, cmd_vel, topic, wheel>>

Home ==
    /\ plugged
    /\ \/ ~home.down /\ home.times < MaxHome
          /\ home' = [times |-> home.times + 1, down |-> TRUE]
          /\ Push(<<Event("BTN_MODE", 1)>>)
       \/ home.down
          /\ home' = [home EXCEPT !.down = FALSE]
          /\ Push(<<Event("BTN_MODE", 0)>>)
    /\ UNCHANGED <<path, plugged, node, cmd_vel, topic, wheel>>

\* The controller is unplugged or out of range.
Unplug ==
    /\ plugged /\ plugged' = FALSE
    /\ UNCHANGED <<path, home, kernel, node, cmd_vel, topic, wheel>>

\* One round of the loop of readInputs(): rc is 0, 1 after an overflow, and -ENODEV,
\* which ends the loop and the node, when the device is gone.
ReadInputs ==
    /\ running /\ events # <<>>
    /\ events' = Tail(events)
    /\ IF Head(events) = Dropped THEN UNCHANGED <<pad, held, cmd_vel>>
       ELSE LET new == Handled(pad, Head(events))
            IN  /\ pad' = IF Publishes(new) THEN Published(new) ELSE new
                /\ cmd_vel' = IF Publishes(new) THEN Deliver(cmd_vel, Msg(new), CmdQueue)
                              ELSE cmd_vel
                /\ held' = IF new.state = "wheels" THEN Msg(new) ELSE held
    /\ UNCHANGED <<person, unknown, overflowed, running, topic, wheel>>
ReadInputsFails ==
    /\ running /\ ~plugged /\ running' = FALSE
    /\ events' = <<>>
    /\ UNCHANGED <<person, unknown, overflowed, pad, held, cmd_vel, topic, wheel>>

\* IntegrationNode::subscriberCallBack().
SubscriberCallBack ==
    /\ cmd_vel # <<>>
    /\ cmd_vel' = Tail(cmd_vel)
    /\ topic' = [left |-> <<LeftWheel(Head(cmd_vel))>>, right |-> <<RightWheel(Head(cmd_vel))>>]
    /\ UNCHANGED <<person, kernel, node, wheel>>

\* The wheels of a side take up the speed published for them.
Turn(side) ==
    /\ topic[side] # <<>>
    /\ wheel' = [wheel EXCEPT ![side] = Head(topic[side])]
    /\ topic' = [topic EXCEPT ![side] = <<>>]
    /\ UNCHANGED <<person, kernel, node, cmd_vel>>

Init ==
    /\ \E p \in Positions : path = <<p>>
    /\ home = [times |-> 0, down |-> FALSE] /\ plugged = TRUE
    /\ events = <<>> /\ unknown = {"X", "Y"} /\ overflowed = FALSE
    /\ running = TRUE /\ pad = Still /\ held = Msg(Still)
    /\ cmd_vel = <<>>
    /\ topic = [s \in Sides |-> <<>>] /\ wheel = [s \in Sides |-> 0]

Next == \/ Move \/ Home \/ Unplug
        \/ ReadInputs \/ ReadInputsFails
        \/ SubscriberCallBack \/ \E s \in Sides : Turn(s)

Spec == Init /\ [][Next]_vars
FairSpec == /\ Spec
            /\ WF_vars(ReadInputs) /\ WF_vars(SubscriberCallBack)
            /\ \A s \in Sides : WF_vars(Turn(s))

-----------------------------------------------------------------------------
\* HandledOnPress, HandledInWheels, PublishesForward are the definitions they begin like
\* with the mistake of their names, to be put in their places.

OnWheels(msg) == [left |-> LeftWheel(msg), right |-> RightWheel(msg)]
Settled == events = <<>> /\ cmd_vel = <<>> /\ \A s \in Sides : topic[s] = <<>>

\* Home has been released an even number of times: the person means to drive.
Driving == (IF home.down THEN home.times - 1 ELSE home.times) % 2 = 0

\* When all messages have arrived, the wheels do what the joystick says while the
\* person means to drive, and keep doing what it said last in arm mode and after the
\* controller is gone.  An axis not heard of is taken to be where it was, at first in
\* the centre; when events have been lost, the mode may be the other one.
WheelsObey ==
    Settled =>
      /\ wheel = OnWheels(held)
      /\ running /\ pad.state = "wheels" =>
            /\ "X" \notin unknown => held.ang = LeftJoystickX(Stick.X)
            /\ "Y" \notin unknown => held.lin = LeftJoystickY(Stick.Y)
            /\ ~overflowed /\ "X" \in unknown => held.ang = 0
            /\ ~overflowed /\ "Y" \in unknown => held.lin = 0
      /\ running /\ ~overflowed => (pad.state = "wheels" <=> Driving)

\* No Twist mixes positions the joystick had at different times, but for the one that
\* tells a move of one axis before that of the other in the same report; this needs the
\* joystick in the centre at first and no event lost.
Says(msg, p, q) == msg.ang = LeftJoystickX(p.X) /\ msg.lin = LeftJoystickY(q.Y)
NoOldMixture ==
    ~overflowed /\ path[1].X \in DeadZone /\ path[1].Y \in DeadZone =>
      \A j \in DOMAIN cmd_vel : \E k \in DOMAIN path :
         \/ Says(cmd_vel[j], path[k], path[k])
         \/ k > 1 /\ Says(cmd_vel[j], path[k], path[k - 1])

\* When the person stays still, the wheels come to do what the joystick says, provided
\* that the last change of either axis got into the queue.
WheelsFollow ==
    <>[](running /\ pad.state = "wheels" /\ unknown = {} =>
           wheel = OnWheels([lin |-> LeftJoystickY(Stick.Y), ang |-> LeftJoystickX(Stick.X)]))
=============================================================================
