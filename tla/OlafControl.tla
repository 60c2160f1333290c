---------------------------- MODULE OlafControl ----------------------------
(***************************************************************************)
(* firmware/olaf_control: the Arduino that reads the serial messages of    *)
(* SteeringDriver and drives the motor and the steering servo.  One pass   *)
(* of loop() is one action.  Time is a counter that wraps, as millis()     *)
(* does; a tick may pass only after loop() has run since the last one, and *)
(* at most BytesPerTick bytes arrive within a tick, as the baud rate       *)
(* dictates.                                                               *)
(***************************************************************************)
EXTENDS SteeringDriver

CONSTANTS SAFETY_TIMEOUT, \* ticks without a message before the motor stops
          ClockSize,      \* millis() counts modulo ClockSize
          BytesPerTick    \* speed of the serial line

ASSUME OlafAssumption ==
    /\ SAFETY_TIMEOUT \in Nat \ {0}
    /\ ClockSize \in Nat /\ ClockSize > SAFETY_TIMEOUT + 2
    /\ BytesPerTick \in Nat \ {0}

BUFFER_SIZE == 7
UNMAPPED_STOP_SPEED == 128
MAPPED_STRAIGHT_ANGLE == 90
LINEAR_MAX == 256
LINEAR_MIN == 0
ANGULAR_MAX == 180
ANGULAR_MIN == 0
MIN_PWM == 1000
MAX_PWM == 2000
MIN_MOTOR_PWM_CUTOFF == 1300
MAX_MOTOR_PWM_CUTOFF == 1700
STOP_PWM == 1500

\* Operators named after a mistake (ClampUpperOnly, BufferedOneMore...) are the
\* definition that follows them with that mistake made; nothing uses them, they
\* are there to be put in its place to see which property notices.
VARIABLES
    line,           \* bytes written by the host and not yet read, oldest first
    avail,          \* how many of them are in the Arduino's receive buffer
    linear_x,       \* last speed byte, with the field it came from
    angular_z,      \* last angle byte, with the field it came from
    previousMillis, \* time stamp of the last message
    currentMillis,  \* time read by the last pass that had no message
    motor,          \* pulse width last written to the motor
    servo,          \* pulse width last written to the steering servo
    clock,          \* millis()
    looped,         \* loop() has run in this tick
    arrived,        \* bytes that arrived in this tick
    silent          \* ticks since a message was applied, up to SAFETY_TIMEOUT + 2

firmware == <<linear_x, angular_z, previousMillis, currentMillis, motor, servo>>
olafVars == <<line, avail, firmware, clock, looped, arrived, silent>>

StopSpeed == [val |-> UNMAPPED_STOP_SPEED, field |-> "stop"]
Straight == [val |-> MAPPED_STRAIGHT_ANGLE, field |-> "straight"]
NoByte == [val |-> -1, field |-> "none"]
Origin == Fields \cup {"stop", "straight", "none"}

ClampUpperOnly(v, lo, hi) == IF v > hi THEN hi ELSE v
Clamp(v, lo, hi) == IF v > hi THEN hi ELSE IF v < lo THEN lo ELSE v

\* Arduino's integer map(), onto the pulse width range.
Pwm(v, lo, hi) == ((v - lo) * (MAX_PWM - MIN_PWM)) \div (hi - lo) + MIN_PWM

\* Serial.read() for the i-th time in a pass: -1 once the buffer is empty.
Read(i) == IF i <= avail THEN line[i] ELSE NoByte

Consume(n) ==
    LET k == IF n <= avail THEN n ELSE avail
    IN  /\ line' = SubSeq(line, k + 1, Len(line))
        /\ avail' = avail - k

BufferedOneMore == avail > BUFFER_SIZE
FrameBuffered == avail >= BUFFER_SIZE
HeadMatches == Read(1).val = HeadByte

ElapsedNoWrap(now, since) == now - since
Elapsed(now, since) == (now - since) % ClockSize

\* convert(), then drive(), on the values serial_read() left behind.
Convert(speed, angle) ==
    /\ linear_x' = [speed EXCEPT !.val = Clamp(@, LINEAR_MIN, LINEAR_MAX)]
    /\ angular_z' = [angle EXCEPT !.val = Clamp(@, ANGULAR_MIN, ANGULAR_MAX)]

Drive ==
    /\ motor' = Clamp(Pwm(linear_x'.val, LINEAR_MIN, LINEAR_MAX),
                      MIN_MOTOR_PWM_CUTOFF, MAX_MOTOR_PWM_CUTOFF)
    /\ servo' = Pwm(angular_z'.val, ANGULAR_MIN, ANGULAR_MAX)

\* The speed after the time-out check of a pass without a message.
Watched == IF Elapsed(clock, previousMillis) > SAFETY_TIMEOUT
           THEN StopSpeed ELSE linear_x

LoopMessageNoStamp ==
    /\ FrameBuffered
    /\ HeadMatches
    /\ Convert(Read(2), Read(7))
    /\ Consume(BUFFER_SIZE)
    /\ silent' = 0
    /\ UNCHANGED <<previousMillis, currentMillis>>
    /\ Drive

LoopMessageWrongField ==
    /\ FrameBuffered
    /\ HeadMatches
    /\ Convert(Read(2), Read(6))
    /\ Consume(BUFFER_SIZE)
    /\ previousMillis' = currentMillis
    /\ silent' = 0
    /\ UNCHANGED currentMillis
    /\ Drive

LoopMessageOneByteLeft ==
    /\ FrameBuffered
    /\ HeadMatches
    /\ Convert(Read(2), Read(7))
    /\ Consume(BUFFER_SIZE - 1)
    /\ previousMillis' = currentMillis
    /\ silent' = 0
    /\ UNCHANGED currentMillis
    /\ Drive

\* A pass that finds a whole message.  Note that the time stamp is the time
\* some earlier pass read, not the present one.
LoopMessage ==
    /\ FrameBuffered
    /\ HeadMatches
    /\ Convert(Read(2), Read(7))
    /\ Consume(BUFFER_SIZE)
    /\ previousMillis' = currentMillis
    /\ silent' = 0
    /\ UNCHANGED currentMillis
    /\ Drive

LoopSkipsWholeBuffer ==
    /\ \/ ~FrameBuffered /\ UNCHANGED <<line, avail>>
       \/ FrameBuffered /\ ~HeadMatches /\ Consume(BUFFER_SIZE)
    /\ currentMillis' = clock
    /\ Convert(Watched, angular_z)
    /\ UNCHANGED <<previousMillis, silent>>
    /\ Drive

\* A pass that finds too few bytes (none is read) or a wrong head (it is lost).
LoopNoMessage ==
    /\ \/ ~FrameBuffered /\ UNCHANGED <<line, avail>>
       \/ FrameBuffered /\ ~HeadMatches /\ Consume(1)
    /\ currentMillis' = clock
    /\ Convert(Watched, angular_z)
    /\ UNCHANGED <<previousMillis, silent>>
    /\ Drive

Loop ==
    /\ LoopMessage \/ LoopNoMessage
    /\ looped' = TRUE
    /\ UNCHANGED <<clock, arrived>>

\* The interrupt that puts the next byte of the line in the receive buffer.
Arrive ==
    /\ avail < Len(line)
    /\ arrived < BytesPerTick
    /\ avail' = avail + 1
    /\ arrived' = arrived + 1
    /\ UNCHANGED <<line, firmware, clock, looped, silent>>

Tick ==
    /\ looped
    /\ clock' = (clock + 1) % ClockSize
    /\ looped' = FALSE
    /\ arrived' = 0
    /\ silent' = IF silent < SAFETY_TIMEOUT + 2 THEN silent + 1 ELSE silent
    /\ UNCHANGED <<line, avail, firmware>>

Boot ==
    /\ linear_x = StopSpeed /\ angular_z = Straight
    /\ previousMillis = 0 /\ currentMillis = 0 /\ clock = 0
    /\ motor = STOP_PWM /\ servo = STOP_PWM
    /\ looped = FALSE /\ arrived = 0 /\ silent = SAFETY_TIMEOUT + 2

OlafInit == line = <<>> /\ avail = 0 /\ Boot

\* Power loss or a reset of the board: the receive buffer and RAM start afresh
\* while bytes still on the line keep coming.
Restart ==
    /\ line' = SubSeq(line, avail + 1, Len(line)) /\ avail' = 0
    /\ linear_x' = StopSpeed /\ angular_z' = Straight
    /\ previousMillis' = 0 /\ currentMillis' = 0 /\ clock' = 0
    /\ motor' = STOP_PWM /\ servo' = STOP_PWM
    /\ looped' = FALSE /\ arrived' = 0 /\ silent' = SAFETY_TIMEOUT + 2

OlafTypeOK ==
    /\ line \in Seq(Byte)
    /\ avail \in 0..Len(line)
    /\ linear_x \in [val : LINEAR_MIN..LINEAR_MAX, field : Origin]
    /\ angular_z \in [val : ANGULAR_MIN..ANGULAR_MAX, field : Origin]
    /\ previousMillis \in 0..ClockSize - 1
    /\ currentMillis \in 0..ClockSize - 1
    /\ clock \in 0..ClockSize - 1
    /\ motor \in MIN_MOTOR_PWM_CUTOFF..MAX_MOTOR_PWM_CUTOFF
    /\ servo \in MIN_PWM..MAX_PWM
    /\ looped \in BOOLEAN
    /\ arrived \in 0..BytesPerTick
    /\ silent \in 0..SAFETY_TIMEOUT + 2
=============================================================================
