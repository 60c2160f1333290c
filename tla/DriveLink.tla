----------------------------- MODULE DriveLink -----------------------------
(***************************************************************************)
(* The drive link: SteeringDriver on the host writes messages to a serial  *)
(* line, OlafControl on the Arduino reads them.  Faults, at most MaxFaults *)
(* of them: a byte is lost, the Arduino restarts, the host process dies    *)
(* (possibly in the middle of a message) and may be started again.         *)
(***************************************************************************)
EXTENDS OlafControl

CONSTANTS Twists,    \* the Twists the rest of the robot may publish
          LineCap,   \* bytes the line and its buffers hold; a writer waits
          MaxFaults  \* bound on the number of faults

ASSUME LinkAssumption ==
    /\ Twists \subseteq Twist
    /\ LineCap \in Nat
    /\ MaxFaults \in Nat

VARIABLES up,     \* the SteeringDriver process is running
          faults  \* faults so far

vars == <<olafVars, up, faults>>

Init == OlafInit /\ up = TRUE /\ faults = 0

\* twistCallback: one message, written in one go.
TwistCallback(t) ==
    /\ up
    /\ Len(line) + BUFFER_SIZE <= LineCap
    /\ line' = line \o Frame(t)
    /\ UNCHANGED <<avail, firmware, clock, looped, arrived, silent, up, faults>>

Send == \E t \in Twists : TwistCallback(t)

Fault == faults < MaxFaults /\ faults' = faults + 1

\* A byte on the wire is corrupted beyond recognition or never arrives.
LoseByte ==
    /\ Fault
    /\ avail < Len(line)
    /\ line' = SubSeq(line, 1, avail) \o SubSeq(line, avail + 2, Len(line))
    /\ UNCHANGED <<avail, firmware, clock, looped, arrived, silent, up>>

FirmwareRestart == Fault /\ Restart /\ UNCHANGED up

\* The process dies: what it had written, up to some byte, still arrives.
HostCrash ==
    /\ Fault
    /\ up
    /\ up' = FALSE
    /\ \E n \in avail..Len(line) : line' = SubSeq(line, 1, n)
    /\ UNCHANGED <<avail, firmware, clock, looped, arrived, silent>>

HostStart ==
    /\ ~up
    /\ up' = TRUE
    /\ UNCHANGED <<olafVars, faults>>

Next ==
    \/ Send
    \/ (Loop \/ Arrive \/ Tick) /\ UNCHANGED <<up, faults>>
    \/ LoseByte
    \/ FirmwareRestart
    \/ HostCrash
    \/ HostStart

\* loop() is called forever by the Arduino core, time passes and the line
\* delivers; nothing obliges the host to send or to come back.
Fairness ==
    /\ WF_vars(Loop /\ UNCHANGED <<up, faults>>)
    /\ WF_vars(Tick /\ UNCHANGED <<up, faults>>)
    /\ WF_vars(Arrive /\ UNCHANGED <<up, faults>>)

Spec == Init /\ [][Next]_vars
FairSpec == Spec /\ Fairness

-----------------------------------------------------------------------------
TypeOK ==
    /\ OlafTypeOK
    /\ up \in BOOLEAN
    /\ faults \in 0..MaxFaults

\* The speed in force was sent as a speed and the angle as an angle.
InSync ==
    /\ linear_x.field \in {"x", "stop"}
    /\ angular_z.field \in {"az", "straight"}

\* As long as nothing was lost, the firmware never takes one field of a message
\* for another, though it finds messages by their first byte alone and the same
\* value may occur inside them (serial_read).
FaultFreeSync == faults = 0 => InSync

\* The strengthening that makes FaultFreeSync inductive: the unread bytes are whole
\* messages, laid out as FieldOrder says.
Framed ==
    /\ Len(line) % 7 = 0
    /\ \A i \in 1..Len(line) :
         /\ i % 7 = 1 => line[i].val = HeadByte
         /\ i % 7 = 2 => line[i].field = "x"
         /\ i % 7 = 0 => line[i].field = "az"

\* The firmware keeps up, even while it skips bytes one pass at a time to find a
\* head: no more than the bytes of two ticks come on top of an unfinished message,
\* far from the 63 the Arduino core buffers (serial_read).
RxBounded == avail < BUFFER_SIZE + 2 * BytesPerTick

\* The watchdog is never late: after a pass of loop() that finds the last message
\* older than the time-out, the motor is stopped, whatever happened to the line,
\* and however often millis() has wrapped (serial_read).
WatchdogStops == looped /\ silent > SAFETY_TIMEOUT => motor = STOP_PWM

\* The watchdog is never early by more than the tick by which the stored time may
\* lag: a pass of loop() replaces a speed by stop only when the message it came
\* from is at least SAFETY_TIMEOUT old (previousMillis = currentMillis).
WatchdogPatient ==
    [][linear_x # StopSpeed /\ linear_x' = StopSpeed /\ faults' = faults
         => silent >= SAFETY_TIMEOUT]_vars

\* When the host has died for good the car stops and stays stopped, whatever
\* bytes it left on the line.
SilentHostStops == <>[]~up => <>[](motor = STOP_PWM)

\* After the last fault the firmware finds the start of a message again, provided
\* messages keep coming ("BUFFER_HEAD identifies the start of the buffer").
EventuallyInSync == <>[]up /\ []<><<Send>>_vars => <>[]InSync

\* The link implements the command pipe: see CommandPipe.
Command(i) == [speed |-> line[7 * i - 5].val, angle |-> line[7 * i].val]
Pipe == INSTANCE CommandPipe WITH
            Commands <- {[speed |-> LinearByte(t.lin), angle |-> AngularByte(t.ang)]
                           : t \in Twists},
            StopByte <- UNMAPPED_STOP_SPEED,
            StraightByte <- MAPPED_STRAIGHT_ANGLE,
            pending <- [i \in 1..(Len(line) \div 7) |-> Command(i)],
            speed <- linear_x.val,
            angle <- angular_z.val
ImplementsPipe == Pipe!Spec
=============================================================================
