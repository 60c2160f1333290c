---------------------------- MODULE CommandPipe ----------------------------
(***************************************************************************)
(* What the serial drive link promises: commands are obeyed whole, once    *)
(* and in the order they were given, and in between the car may only be    *)
(* stopped, with its steering left as it is.                               *)
(***************************************************************************)
EXTENDS Integers, Sequences

CONSTANTS Commands,      \* records [speed, angle], as the bytes on the wire
          StopByte,      \* the speed that stands for stop
          StraightByte   \* the angle that stands for straight ahead

VARIABLES pending, \* commands given and not yet obeyed, oldest first
          speed,   \* the speed in force
          angle    \* the angle in force

pipeVars == <<pending, speed, angle>>

Init == pending = <<>> /\ speed = StopByte /\ angle = StraightByte

Give(c) ==
    /\ pending' = Append(pending, c)
    /\ UNCHANGED <<speed, angle>>

Obey ==
    /\ pending # <<>>
    /\ speed' = Head(pending).speed
    /\ angle' = Head(pending).angle
    /\ pending' = Tail(pending)

Halt ==
    /\ speed' = StopByte
    /\ UNCHANGED <<pending, angle>>

Next == Obey \/ Halt \/ \E c \in Commands : Give(c)

Spec == Init /\ [][Next]_pipeVars
=============================================================================
