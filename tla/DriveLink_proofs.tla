-------------------------- MODULE DriveLink_proofs --------------------------
(***************************************************************************)
(* Proofs about the drive link, for every set of Twists, line capacity,    *)
(* time-out, clock width and number of faults.                             *)
(***************************************************************************)
EXTENDS DriveLink, SequenceTheorems, TLAPS

\* A quotient of a number that is at most k times the divisor is at most k.
LEMMA DivBounds ==
    ASSUME NEW n \in Nat, NEW d \in Nat \ {0}, NEW k \in Nat, n <= k * d
    PROVE  n \div d \in 0..k
<1> DEFINE q == n \div d
<1>1. q \in Int /\ n = d * q + (n % d) /\ n % d \in 0..d - 1
  BY SMT
<1>2. q >= 0
  <2> SUFFICES ASSUME q <= -1 PROVE FALSE
    BY <1>1
  <2>1. d * q <= -d
    BY <1>1, SMT
  <2> QED BY <1>1, <2>1, SMT
<1>3. q <= k
  <2> SUFFICES ASSUME q >= k + 1 PROVE FALSE
    BY <1>1
  <2>1. d * q >= d * k + d
    BY <1>1, SMT
  <2>2. k * d = d * k
    BY SMT
  <2> QED BY <1>1, <2>1, <2>2, SMT
<1> QED BY <1>1, <1>2, <1>3

\* map() never leaves its output range, whatever the input (SteeringDriver).
LEMMA MapRange ==
    ASSUME NEW v \in Int, NEW max \in Nat \ {0},
           NEW lo \in Nat, NEW hi \in Nat, lo <= hi
    PROVE  MapInput(v, max, lo, hi) \in lo..hi
<1> DEFINE c == IF v < -max THEN -max ELSE IF v > max THEN max ELSE v
           span == hi - lo
           n == (c + max) * span
           d == 2 * max
<1>1. c \in Int /\ -max <= c /\ c <= max
  OBVIOUS
<1>2. d \in Nat \ {0} /\ c + max \in Nat /\ c + max <= d /\ span \in Nat
  BY <1>1
<1>3. n \in Nat /\ n <= span * d
  <2> HIDE DEF c, d, span
  <2>1. n \in Nat
    BY <1>2
  <2>2. (c + max) * span <= d * span
    BY <1>2, SMT
  <2>3. d * span = span * d
    BY <1>2, SMT
  <2> QED BY <2>1, <2>2, <2>3
<1>4. n \div d \in 0..span
  <2> HIDE DEF n, d, span
  <2> QED BY <1>2, <1>3, DivBounds
<1>5. MapInput(v, max, lo, hi) = n \div d + lo
  BY DEF MapInput
<1> HIDE DEF n, d
<1> QED BY <1>4, <1>5

LEMMA FrameType ==
    ASSUME NEW t \in Twist
    PROVE  /\ Frame(t) \in Seq(Byte) /\ Len(Frame(t)) = 7
           /\ Frame(t)[1].val = HeadByte
           /\ Frame(t)[2].field = "x"
           /\ Frame(t)[7].field = "az"
<1>1. \A v \in Int : LinearByte(v) \in 0..255
  <2> TAKE v \in Int
  <2>1. 1 \in Nat /\ 255 \in Nat /\ 1 <= 255
    OBVIOUS
  <2>2. MapInput(v, MaxLinear, 1, 255) \in 1..255
    BY <2>1, SteeringAssumption, MapRange, Zenon
  <2> QED BY <2>2 DEF LinearByte
<1>2. \A v \in Int : AngularByte(v) \in 0..255
  <2> TAKE v \in Int
  <2>1. 0 \in Nat /\ 180 \in Nat /\ 0 <= 180
    OBVIOUS
  <2>2. MapInput(v, MaxAngular, 0, 180) \in 0..180
    BY <2>1, SteeringAssumption, MapRange, Zenon
  <2> QED BY <2>2 DEF AngularByte
<1>3. t.lin \in Int /\ t.ang \in Int
  BY DEF Twist
<1>4. /\ LinearByte(t.lin) \in 0..255 /\ LinearByte(0) \in 0..255
      /\ AngularByte(t.ang) \in 0..255 /\ AngularByte(0) \in 0..255
  BY <1>1, <1>2, <1>3
<1> QED BY <1>4 DEF Frame, Byte, Fields, HeadByte

\* convert() and drive() bring any reading into the ranges of TypeOK.
LEMMA ConvertDriveType ==
    ASSUME NEW s, NEW a,
           s \in [val : -1..256, field : Origin],
           a \in [val : -1..256, field : Origin],
           Convert(s, a), Drive
    PROVE  /\ linear_x' \in [val : LINEAR_MIN..LINEAR_MAX, field : Origin]
           /\ angular_z' \in [val : ANGULAR_MIN..ANGULAR_MAX, field : Origin]
           /\ motor' \in MIN_MOTOR_PWM_CUTOFF..MAX_MOTOR_PWM_CUTOFF
           /\ servo' \in MIN_PWM..MAX_PWM
           /\ linear_x'.field = s.field
           /\ angular_z'.field = a.field
<1> USE DEF LINEAR_MIN, LINEAR_MAX, ANGULAR_MIN, ANGULAR_MAX, MIN_PWM, MAX_PWM,
            MIN_MOTOR_PWM_CUTOFF, MAX_MOTOR_PWM_CUTOFF, Clamp, Pwm
<1>1. /\ linear_x' \in [val : 0..256, field : Origin]
      /\ angular_z' \in [val : 0..180, field : Origin]
      /\ linear_x'.field = s.field
      /\ angular_z'.field = a.field
  BY DEF Convert
<1>2. linear_x'.val \in 0..256 /\ angular_z'.val \in 0..180
  BY <1>1
<1>3. motor' \in 1300..1700 /\ servo' \in 1000..2000
  BY <1>2 DEF Drive
<1> QED BY <1>1, <1>3

LEMMA Suffix ==
    ASSUME NEW S, NEW s \in Seq(S), NEW k \in 0..Len(s)
    PROVE  /\ SubSeq(s, k + 1, Len(s)) \in Seq(S)
           /\ Len(SubSeq(s, k + 1, Len(s))) = Len(s) - k
           /\ \A i \in 1..Len(s) - k : SubSeq(s, k + 1, Len(s))[i] = s[i + k]
OBVIOUS

LEMMA Prefix ==
    ASSUME NEW S, NEW s \in Seq(S), NEW k \in 0..Len(s)
    PROVE  /\ SubSeq(s, 1, k) \in Seq(S)
           /\ Len(SubSeq(s, 1, k)) = k
OBVIOUS

LEMMA Joined ==
    ASSUME NEW S, NEW s \in Seq(S), NEW u \in Seq(S)
    PROVE  /\ s \o u \in Seq(S)
           /\ Len(s \o u) = Len(s) + Len(u)
           /\ \A i \in 1..Len(s) : (s \o u)[i] = s[i]
           /\ \A i \in 1..Len(u) : (s \o u)[i + Len(s)] = u[i]
OBVIOUS

-----------------------------------------------------------------------------
LEMMA ConsumeType ==
    ASSUME OlafTypeOK, NEW n \in Nat, Consume(n)
    PROVE  line' \in Seq(Byte) /\ avail' \in 0..Len(line')
<1> DEFINE k == IF n <= avail THEN n ELSE avail
<1>1. k \in 0..Len(line) /\ k <= avail /\ line \in Seq(Byte) /\ avail \in 0..Len(line)
  BY DEF OlafTypeOK
<1>2. line' = SubSeq(line, k + 1, Len(line)) /\ avail' = avail - k
  BY DEF Consume
<1> HIDE DEF k
<1> QED BY <1>1, <1>2, Suffix

LEMMA ReadType ==
    ASSUME OlafTypeOK, NEW i \in Nat \ {0}
    PROVE  Read(i) \in [val : -1..256, field : Origin]
<1>1. CASE i <= avail
  <2>1. i \in 1..Len(line) /\ line \in Seq(Byte)
    BY <1>1 DEF OlafTypeOK
  <2>2. line[i] \in Byte
    BY <2>1
  <2> QED BY <1>1, <2>2 DEF Read, Byte, Origin
<1>2. CASE ~(i <= avail)
  BY <1>2 DEF Read, NoByte, Origin
<1> QED BY <1>1, <1>2

LEMMA LoopType ==
    ASSUME TypeOK, Loop
    PROVE  OlafTypeOK'
<1> USE DEF TypeOK
<1>1. /\ line' \in Seq(Byte)
      /\ avail' \in 0..Len(line')
      /\ previousMillis' \in 0..ClockSize - 1
      /\ currentMillis' \in 0..ClockSize - 1
      /\ silent' \in 0..SAFETY_TIMEOUT + 2
  <2>1. CASE LoopMessage
    <3>1. line' \in Seq(Byte) /\ avail' \in 0..Len(line')
      BY <2>1, ConsumeType DEF LoopMessage, BUFFER_SIZE
    <3> QED BY <2>1, <3>1, OlafAssumption DEF LoopMessage, OlafTypeOK
  <2>2. CASE LoopNoMessage
    <3>1. line' \in Seq(Byte) /\ avail' \in 0..Len(line')
      BY <2>2, ConsumeType DEF LoopNoMessage, OlafTypeOK
    <3> QED BY <2>2, <3>1 DEF LoopNoMessage, OlafTypeOK
  <2> QED BY <2>1, <2>2 DEF Loop
<1>2. PICK s \in [val : -1..256, field : Origin],
           a \in [val : -1..256, field : Origin] : Convert(s, a) /\ Drive
  <2>1. CASE LoopMessage
    BY <2>1, ReadType DEF LoopMessage
  <2>2. CASE LoopNoMessage
    <3>1. Watched \in [val : -1..256, field : Origin]
      BY DEF Watched, StopSpeed, UNMAPPED_STOP_SPEED, OlafTypeOK, Origin,
             LINEAR_MIN, LINEAR_MAX
    <3>2. angular_z \in [val : -1..256, field : Origin]
      BY DEF OlafTypeOK, ANGULAR_MIN, ANGULAR_MAX
    <3> QED BY <2>2, <3>1, <3>2 DEF LoopNoMessage
  <2> QED BY <2>1, <2>2 DEF Loop
<1>3. /\ linear_x' \in [val : LINEAR_MIN..LINEAR_MAX, field : Origin]
      /\ angular_z' \in [val : ANGULAR_MIN..ANGULAR_MAX, field : Origin]
      /\ motor' \in MIN_MOTOR_PWM_CUTOFF..MAX_MOTOR_PWM_CUTOFF
      /\ servo' \in MIN_PWM..MAX_PWM
  BY <1>2, ConvertDriveType
<1>4. looped' \in BOOLEAN /\ clock' \in 0..ClockSize - 1 /\ arrived' \in 0..BytesPerTick
  BY DEF Loop, OlafTypeOK
<1> QED BY <1>1, <1>3, <1>4 DEF OlafTypeOK

LEMMA FaultType ==
    ASSUME faults \in 0..MaxFaults, Fault
    PROVE  faults' \in 0..MaxFaults
BY LinkAssumption DEF Fault

\* The reset state of the board is well-typed.
LEMMA BootType ==
    /\ StopSpeed \in [val : LINEAR_MIN..LINEAR_MAX, field : Origin]
    /\ Straight \in [val : ANGULAR_MIN..ANGULAR_MAX, field : Origin]
    /\ STOP_PWM \in MIN_MOTOR_PWM_CUTOFF..MAX_MOTOR_PWM_CUTOFF
    /\ STOP_PWM \in MIN_PWM..MAX_PWM
    /\ 0 \in 0..ClockSize - 1
    /\ 0 \in 0..BytesPerTick
    /\ 0 \in 0..SAFETY_TIMEOUT + 2
    /\ SAFETY_TIMEOUT + 2 \in 0..SAFETY_TIMEOUT + 2
BY OlafAssumption
   DEF StopSpeed, Straight, STOP_PWM, UNMAPPED_STOP_SPEED, MAPPED_STRAIGHT_ANGLE,
       LINEAR_MIN, LINEAR_MAX, ANGULAR_MIN, ANGULAR_MAX, MIN_PWM, MAX_PWM,
       MIN_MOTOR_PWM_CUTOFF, MAX_MOTOR_PWM_CUTOFF, Origin

LEMMA InitType == Init => TypeOK
<1> SUFFICES ASSUME Init PROVE TypeOK
  OBVIOUS
<1>1. OlafTypeOK
  <2>1. line \in Seq(Byte) /\ avail \in 0..Len(line)
    BY DEF Init, OlafInit
  <2>2. looped \in BOOLEAN
    BY DEF Init, OlafInit, Boot
  <2> QED BY <2>1, <2>2, BootType DEF Init, OlafInit, Boot, OlafTypeOK
<1> QED BY <1>1, LinkAssumption DEF Init, TypeOK

LEMMA StepType == TypeOK /\ [Next]_vars => TypeOK'
<1> SUFFICES ASSUME TypeOK, [Next]_vars PROVE TypeOK'
  OBVIOUS
<1> USE DEF TypeOK
<1>1. ASSUME NEW t \in Twists, TwistCallback(t) PROVE TypeOK'
  <2>1. Frame(t) \in Seq(Byte)
    BY FrameType, LinkAssumption
  <2>2. line' \in Seq(Byte) /\ avail' \in 0..Len(line')
    BY <1>1, <2>1, Joined DEF TwistCallback, OlafTypeOK
  <2> QED BY <1>1, <2>2 DEF TwistCallback, OlafTypeOK, firmware
<1>2. CASE Loop /\ UNCHANGED <<up, faults>>
  BY <1>2, LoopType
<1>3. CASE Arrive /\ UNCHANGED <<up, faults>>
  BY <1>3, OlafAssumption DEF Arrive, OlafTypeOK, firmware
<1>4. CASE Tick /\ UNCHANGED <<up, faults>>
  <2>1. clock' \in 0..ClockSize - 1
    BY <1>4, OlafAssumption DEF Tick, OlafTypeOK
  <2>2. silent' \in 0..SAFETY_TIMEOUT + 2
    BY <1>4, OlafAssumption DEF Tick, OlafTypeOK
  <2>3. looped' \in BOOLEAN
    BY <1>4 DEF Tick
  <2>4. arrived' \in 0..BytesPerTick
    BY <1>4, BootType DEF Tick
  <2> QED BY <1>4, <2>1, <2>2, <2>3, <2>4 DEF Tick, OlafTypeOK, firmware
<1>5. CASE LoseByte
  <2>1. /\ SubSeq(line, 1, avail) \in Seq(Byte)
        /\ Len(SubSeq(line, 1, avail)) = avail
    BY Prefix DEF OlafTypeOK
  <2>2. SubSeq(line, avail + 2, Len(line)) \in Seq(Byte)
    <3>1. avail + 1 \in 0..Len(line) /\ avail + 1 + 1 = avail + 2
      BY <1>5 DEF LoseByte, OlafTypeOK
    <3>2. SubSeq(line, avail + 1 + 1, Len(line)) \in Seq(Byte)
      BY <3>1, Suffix DEF OlafTypeOK
    <3> QED BY <3>1, <3>2
  <2> DEFINE before == SubSeq(line, 1, avail)
             after == SubSeq(line, avail + 2, Len(line))
  <2>3. line' = before \o after /\ avail' = avail
    BY <1>5 DEF LoseByte
  <2>4. line' \in Seq(Byte) /\ avail' \in 0..Len(line')
    <3> HIDE DEF before, after
    <3>1. Len(after) \in Nat /\ Len(before \o after) = Len(before) + Len(after)
      BY <2>1, <2>2 DEF before, after
    <3>2. before \o after \in Seq(Byte)
      BY <2>1, <2>2 DEF before, after
    <3>3. avail \in Nat
      BY DEF OlafTypeOK
    <3> QED BY <2>1, <2>3, <3>1, <3>2, <3>3 DEF before
  <2>5. faults' \in 0..MaxFaults
    BY <1>5, FaultType DEF LoseByte
  <2> QED BY <1>5, <2>4, <2>5 DEF LoseByte, OlafTypeOK, firmware
<1>6. CASE FirmwareRestart
  <2>1. line' \in Seq(Byte) /\ avail' \in 0..Len(line')
    BY <1>6, Suffix DEF FirmwareRestart, Restart, OlafTypeOK
  <2>2. faults' \in 0..MaxFaults
    BY <1>6, FaultType DEF FirmwareRestart
  <2>3. looped' \in BOOLEAN /\ up' \in BOOLEAN
    BY <1>6 DEF FirmwareRestart, Restart
  <2> QED BY <1>6, <2>1, <2>2, <2>3, BootType DEF FirmwareRestart, Restart, OlafTypeOK
<1>7. CASE HostCrash
  <2>1. PICK n \in avail..Len(line) : line' = SubSeq(line, 1, n)
    BY <1>7 DEF HostCrash
  <2>2. line' \in Seq(Byte) /\ avail' \in 0..Len(line')
    BY <1>7, <2>1, Prefix DEF HostCrash, OlafTypeOK
  <2>3. faults' \in 0..MaxFaults
    BY <1>7, FaultType DEF HostCrash
  <2>4. up' \in BOOLEAN
    BY <1>7 DEF HostCrash
  <2> QED BY <1>7, <2>2, <2>3, <2>4 DEF HostCrash, OlafTypeOK, firmware
<1>8. CASE HostStart
  BY <1>8 DEF HostStart, OlafTypeOK, olafVars, firmware
<1>9. CASE UNCHANGED vars
  BY <1>9 DEF vars, OlafTypeOK, olafVars, firmware
<1> QED BY <1>1, <1>2, <1>3, <1>4, <1>5, <1>6, <1>7, <1>8, <1>9 DEF Next, Send

\* Every variable of the link stays in its range, through faults and restarts.
THEOREM Typing == Spec => []TypeOK
BY InitType, StepType, PTL DEF Spec

-----------------------------------------------------------------------------
\* Framing.  FaultFreeSync alone is not inductive: it says nothing of the bytes
\* still on the line.  IInv adds that they are whole messages.
IInv == TypeOK /\ (faults = 0 => Framed /\ InSync)

\* A new message keeps whole messages whole.
LEMMA FramedSend ==
    ASSUME TypeOK, Framed, NEW t \in Twists, TwistCallback(t)
    PROVE  Framed'
<1> DEFINE f == Frame(t)
<1>1. /\ f \in Seq(Byte) /\ Len(f) = 7
      /\ f[1].val = HeadByte /\ f[2].field = "x" /\ f[7].field = "az"
  BY FrameType, LinkAssumption
<1>2. line \in Seq(Byte) /\ line' = line \o f
  BY DEF TypeOK, OlafTypeOK, TwistCallback
<1> HIDE DEF f
<1>3. /\ Len(line') = Len(line) + 7
      /\ \A i \in 1..Len(line) : line'[i] = line[i]
      /\ \A i \in 1..7 : line'[i + Len(line)] = f[i]
  <2>1. line \in Seq(Byte) /\ f \in Seq(Byte)
    BY <1>1, <1>2
  <2>2. /\ Len(line \o f) = Len(line) + Len(f)
        /\ \A i \in 1..Len(line) : (line \o f)[i] = line[i]
        /\ \A i \in 1..Len(f) : (line \o f)[i + Len(line)] = f[i]
    BY <2>1
  <2> QED BY <1>1, <1>2, <2>2, Zenon
<1>4. Len(line) \in Nat /\ Len(line) % 7 = 0
  <2>1. line \in Seq(Byte)
    BY <1>2
  <2>2. Len(line) \in Nat
    BY <2>1
  <2> QED BY <2>2 DEF Framed
<1>5. Len(line') % 7 = 0
  BY <1>3, <1>4
<1>6. ASSUME NEW i \in 1..Len(line')
      PROVE  /\ i % 7 = 1 => line'[i].val = HeadByte
             /\ i % 7 = 2 => line'[i].field = "x"
             /\ i % 7 = 0 => line'[i].field = "az"
  <2>0. i \in Nat /\ 1 <= i /\ i <= Len(line) + 7
    BY <1>3, <1>4
  <2>1. CASE i <= Len(line)
    <3>1. i \in 1..Len(line)
      BY <2>0, <2>1, <1>4
    <3>2. line'[i] = line[i]
      BY <3>1, <1>3
    <3> QED BY <3>1, <3>2 DEF Framed
  <2>2. CASE i > Len(line)
    <3> DEFINE j == i - Len(line)
    <3>1. j \in 1..7 /\ i = j + Len(line) /\ i % 7 = j % 7
      BY <2>0, <2>2, <1>4
    <3>2. line'[i] = f[j]
      BY <3>1, <1>3
    <3>3. /\ j % 7 = 1 => j = 1
          /\ j % 7 = 2 => j = 2
          /\ j % 7 = 0 => j = 7
      BY <3>1
    <3> HIDE DEF j
    <3> QED BY <1>1, <3>1, <3>2, <3>3
  <2> QED BY <2>0, <2>1, <2>2, <1>4
<1> QED BY <1>5, <1>6 DEF Framed

\* A message taken from the front leaves whole messages, and its speed and angle
\* are the ones it was sent with.
LEMMA FramedMessage ==
    ASSUME TypeOK, Framed, LoopMessage
    PROVE  Framed' /\ InSync'
<1>1. line \in Seq(Byte) /\ avail \in 0..Len(line) /\ avail >= 7 /\ Len(line) \in Nat
  BY DEF TypeOK, OlafTypeOK, LoopMessage, FrameBuffered, BUFFER_SIZE
<1>2. line' = SubSeq(line, 8, Len(line))
  BY <1>1 DEF LoopMessage, Consume, BUFFER_SIZE
<1>3. 7 \in 0..Len(line) /\ 7 + 1 = 8
  BY <1>1
<1>4. /\ Len(line') = Len(line) - 7
      /\ \A i \in 1..Len(line) - 7 : line'[i] = line[i + 7]
  BY <1>1, <1>2, <1>3, Suffix
<1>5. Framed'
  <2>1. Len(line') % 7 = 0
    BY <1>1, <1>4 DEF Framed
  <2>2. ASSUME NEW i \in 1..Len(line')
        PROVE  /\ i % 7 = 1 => line'[i].val = HeadByte
               /\ i % 7 = 2 => line'[i].field = "x"
               /\ i % 7 = 0 => line'[i].field = "az"
    <3>1. i + 7 \in 1..Len(line) /\ (i + 7) % 7 = i % 7 /\ line'[i] = line[i + 7]
      BY <1>1, <1>4
    <3> QED BY <3>1 DEF Framed
  <2> QED BY <2>1, <2>2 DEF Framed
<1>6. Read(2) = line[2] /\ Read(7) = line[7]
  BY <1>1 DEF Read
<1>7. line[2].field = "x" /\ line[7].field = "az"
  <2>1. 2 \in 1..Len(line) /\ 7 \in 1..Len(line) /\ 2 % 7 = 2 /\ 7 % 7 = 0
    BY <1>1
  <2> QED BY <2>1 DEF Framed
<1>8. linear_x'.field = Read(2).field /\ angular_z'.field = Read(7).field
  <2>1. Convert(Read(2), Read(7)) /\ Drive
    BY DEF LoopMessage
  <2>2. /\ Read(2) \in [val : -1..256, field : Origin]
        /\ Read(7) \in [val : -1..256, field : Origin]
    BY ReadType DEF TypeOK
  <2> QED BY <2>1, <2>2, ConvertDriveType
<1> QED BY <1>5, <1>6, <1>7, <1>8 DEF InSync

\* With whole messages on the line a pass never finds a wrong head, so one that
\* finds no message takes nothing, and stops the car or leaves it as it is.
LEMMA FramedNoMessage ==
    ASSUME TypeOK, Framed, InSync, LoopNoMessage
    PROVE  Framed' /\ InSync'
<1>1. FrameBuffered => HeadMatches
  <2> SUFFICES ASSUME FrameBuffered PROVE HeadMatches
    OBVIOUS
  <2>1. 1 <= avail /\ 1 \in 1..Len(line) /\ 1 % 7 = 1
    BY DEF FrameBuffered, BUFFER_SIZE, TypeOK, OlafTypeOK
  <2>2. line[1].val = HeadByte
    BY <2>1 DEF Framed
  <2> QED BY <2>1, <2>2 DEF HeadMatches, Read
<1>2. line' = line
  BY <1>1 DEF LoopNoMessage
<1>3. linear_x'.field = Watched.field /\ angular_z'.field = angular_z.field
  <2>1. Convert(Watched, angular_z)
    BY DEF LoopNoMessage
  <2>2. Watched \in [val : -1..256, field : Origin]
    BY DEF Watched, StopSpeed, UNMAPPED_STOP_SPEED, TypeOK, OlafTypeOK, Origin,
           LINEAR_MIN, LINEAR_MAX
  <2>3. angular_z \in [val : -1..256, field : Origin]
    BY DEF TypeOK, OlafTypeOK, ANGULAR_MIN, ANGULAR_MAX
  <2>4. Drive
    BY DEF LoopNoMessage
  <2> QED BY <2>1, <2>2, <2>3, <2>4, ConvertDriveType
<1>4. Watched.field \in {"x", "stop"}
  BY DEF Watched, StopSpeed, InSync
<1>5. Framed'
  BY <1>2 DEF Framed
<1> QED BY <1>3, <1>4, <1>5 DEF InSync

\* As long as nothing was lost, the speed in force was sent as a speed and the
\* angle as an angle (serial_read, twistCallback).
THEOREM SyncWithoutFaults == Spec => []FaultFreeSync
<1>1. Init => IInv
  <2> SUFFICES ASSUME Init PROVE Framed /\ InSync
    BY InitType DEF IInv
  <2>1. Len(line) = 0
    BY DEF Init, OlafInit
  <2>2. Framed
    BY <2>1 DEF Framed
  <2> QED BY <2>2 DEF Init, OlafInit, Boot, InSync, StopSpeed, Straight
<1>2. IInv /\ [Next]_vars => IInv'
  <2> SUFFICES ASSUME IInv, [Next]_vars, faults' = 0 PROVE Framed' /\ InSync'
    BY StepType DEF IInv
  <2>1. TypeOK /\ faults \in Nat
    BY LinkAssumption DEF IInv, TypeOK
  <2>2. ~Fault
    BY <2>1 DEF Fault
  <2>3. faults = 0 /\ Framed /\ InSync
    BY <2>2 DEF IInv, Next, Send, TwistCallback, LoseByte, FirmwareRestart, HostCrash,
                HostStart, vars
  <2>4. ASSUME NEW t \in Twists, TwistCallback(t) PROVE Framed' /\ InSync'
    <3>1. Framed'
      BY <2>1, <2>3, <2>4, FramedSend
    <3> QED BY <2>3, <2>4, <3>1 DEF TwistCallback, firmware, InSync
  <2>5. CASE Loop
    BY <2>1, <2>3, <2>5, FramedMessage, FramedNoMessage DEF Loop
  <2>6. CASE Arrive \/ Tick
    BY <2>3, <2>6 DEF Arrive, Tick, firmware, Framed, InSync
  <2>7. CASE HostStart \/ UNCHANGED vars
    BY <2>3, <2>7 DEF HostStart, vars, olafVars, firmware, Framed, InSync
  <2> QED BY <2>2, <2>4, <2>5, <2>6, <2>7
          DEF Next, Send, LoseByte, FirmwareRestart, HostCrash
<1>3. IInv => FaultFreeSync
  BY DEF IInv, FaultFreeSync
<1> QED BY <1>1, <1>2, <1>3, PTL DEF Spec

-----------------------------------------------------------------------------
\* The watchdog, on a line that brings at most one byte a tick (9600 baud and a clock of
\* milliseconds).  Neither RxBounded nor WatchdogStops is inductive.  The first needs to
\* know whether the pass of this tick has run.  The second needs the age of the stored
\* time: a message is stamped with the time an EARLIER pass read, and if messages came
\* in pass after pass that stamp could be so old that millis() wraps round to it.
\* Fresh says that the time is one tick old at most while a message may be complete.
KeepsUp == avail <= (IF looped THEN 6 ELSE 7) + arrived
Fresh == \/ Elapsed(clock, currentMillis) <= (IF looped THEN 0 ELSE 1)
         \/ avail <= (IF looped THEN 1 ELSE 2) + arrived
Dated == silent <= SAFETY_TIMEOUT + 1
           => Elapsed(clock, previousMillis) \in {silent, silent + 1}
Expired == silent > SAFETY_TIMEOUT /\ (looped \/ silent > SAFETY_TIMEOUT + 1)
             => linear_x = StopSpeed
MotorObeys == motor = Clamp(Pwm(linear_x.val, LINEAR_MIN, LINEAR_MAX),
                            MIN_MOTOR_PWM_CUTOFF, MAX_MOTOR_PWM_CUTOFF)
TimeInv == /\ TypeOK
           /\ BytesPerTick = 1
           /\ KeepsUp /\ Fresh /\ Dated /\ Expired /\ MotorObeys

Time == 0..ClockSize - 1

LEMMA ElapsedIs ==
    ASSUME NEW now \in Time, NEW since \in Time
    PROVE  Elapsed(now, since)
             = (IF now >= since THEN now - since ELSE now - since + ClockSize)
<1> DEFINE d == now - since
           q == d \div ClockSize
           r == d % ClockSize
<1>1. /\ ClockSize \in Nat /\ ClockSize > 0 /\ now \in Nat /\ since \in Nat
      /\ now < ClockSize /\ since < ClockSize
  BY OlafAssumption DEF Time
<1>2. d \in Int /\ -ClockSize < d /\ d < ClockSize
  BY <1>1
<1> HIDE DEF d
<1>3. q \in Int /\ r \in 0..ClockSize - 1 /\ d = ClockSize * q + r
  BY <1>1, <1>2, SMT
<1> HIDE DEF q, r
<1>4. q > -2
  <2> SUFFICES ASSUME q <= -2 PROVE FALSE
    BY <1>3
  <2>1. ClockSize * q <= -2 * ClockSize
    BY <1>1, <1>3, SMT
  <2> QED BY <1>1, <1>2, <1>3, <2>1
<1>5. q < 1
  <2> SUFFICES ASSUME q >= 1 PROVE FALSE
    BY <1>3
  <2>1. ClockSize * q >= ClockSize
    BY <1>1, <1>3, SMT
  <2> QED BY <1>1, <1>2, <1>3, <2>1
<1>6. q = 0 \/ q = -1
  BY <1>3, <1>4, <1>5
<1>7. r = d \/ r = d + ClockSize
  BY <1>1, <1>2, <1>3, <1>6
<1>8. r = (IF d >= 0 THEN d ELSE d + ClockSize)
  BY <1>1, <1>2, <1>3, <1>7
<1> QED BY <1>1, <1>8 DEF d, r, Elapsed

LEMMA ElapsedTick ==
    ASSUME NEW now \in Time, NEW since \in Time
    PROVE  LET next == (now + 1) % ClockSize IN
           /\ next \in Time
           /\ Elapsed(now, now) = 0
           /\ Elapsed(now, since) \in Time
           /\ Elapsed(now, since) + 1 < ClockSize
                => Elapsed(next, since) = Elapsed(now, since) + 1
<1>1. ClockSize \in Nat /\ ClockSize > 2 /\ now \in Nat /\ now < ClockSize
  BY OlafAssumption DEF Time
<1> DEFINE next == (now + 1) % ClockSize
<1>2. next = IF now = ClockSize - 1 THEN 0 ELSE now + 1
  <2>1. CASE now = ClockSize - 1
    BY <1>1, <2>1, SMT
  <2>2. CASE now # ClockSize - 1
    <3>1. now + 1 \in Time
      BY <1>1, <2>2 DEF Time
    <3>2. 0 \in Time
      BY <1>1 DEF Time
    <3>3. Elapsed(now + 1, 0) = now + 1
      BY <1>1, <3>1, <3>2, ElapsedIs
    <3> QED BY <1>1, <2>2, <3>3 DEF Elapsed
  <2> QED BY <2>1, <2>2
<1> HIDE DEF next
<1>3. next \in Time
  BY <1>1, <1>2 DEF Time
<1>4. /\ Elapsed(now, now) = 0
      /\ Elapsed(now, since) = IF now >= since THEN now - since ELSE now - since + ClockSize
      /\ Elapsed(next, since) = IF next >= since THEN next - since
                                ELSE next - since + ClockSize
  BY <1>1, <1>3, ElapsedIs
<1>5. since \in Nat /\ since < ClockSize
  BY <1>1 DEF Time
<1> QED BY <1>1, <1>2, <1>3, <1>4, <1>5 DEF Time, next

\* A pass with a message: it can only come while the time read last is fresh.
LEMMA MessageInTime ==
    ASSUME TimeInv, Loop, LoopMessage
    PROVE  KeepsUp' /\ Fresh' /\ Dated' /\ Expired'
<1>1. /\ avail \in Nat /\ arrived \in 0..1 /\ looped \in BOOLEAN
      /\ clock \in Time /\ currentMillis \in Time
      /\ SAFETY_TIMEOUT \in Nat \ {0} /\ ClockSize \in Nat
  BY OlafAssumption DEF TimeInv, TypeOK, OlafTypeOK, Time
<1>2. avail >= 7 /\ avail' = avail - 7
  BY <1>1 DEF LoopMessage, FrameBuffered, Consume, BUFFER_SIZE
<1>3. /\ looped' = TRUE /\ arrived' = arrived /\ clock' = clock
      /\ previousMillis' = currentMillis /\ silent' = 0
  BY DEF Loop, LoopMessage
<1>4. avail <= 7 + arrived
  BY <1>1 DEF TimeInv, KeepsUp
<1>5. Elapsed(clock, currentMillis) \in {0, 1}
  <2>1. Elapsed(clock, currentMillis) \in Nat
    BY <1>1, ElapsedTick DEF Time
  <2> DEFINE e == Elapsed(clock, currentMillis)
  <2> HIDE DEF e
  <2>2. e <= (IF looped THEN 0 ELSE 1) \/ avail <= (IF looped THEN 1 ELSE 2) + arrived
    BY DEF TimeInv, Fresh, e
  <2> QED BY <1>1, <1>2, <2>1, <2>2 DEF e
<1>6. KeepsUp' /\ Fresh'
  BY <1>1, <1>2, <1>3, <1>4 DEF KeepsUp, Fresh
<1>7. Dated'
  <2>1. Elapsed(clock', previousMillis') = Elapsed(clock, currentMillis)
    BY <1>3
  <2> QED BY <1>3, <1>5, <2>1 DEF Dated
<1>8. Expired'
  BY <1>1, <1>3 DEF Expired
<1> QED BY <1>6, <1>7, <1>8

\* What the stop and the other speeds are after the clamping of convert().
LEMMA WatchedClamped ==
    ASSUME TypeOK, LoopNoMessage
    PROVE  linear_x' = Watched
<1>1. Watched \in [val : 0..256, field : Origin]
  BY DEF Watched, StopSpeed, UNMAPPED_STOP_SPEED, TypeOK, OlafTypeOK, Origin,
         LINEAR_MIN, LINEAR_MAX
<1>2. linear_x' = [Watched EXCEPT !.val = Clamp(@, 0, 256)]
  BY DEF LoopNoMessage, Convert, LINEAR_MIN, LINEAR_MAX
<1> DEFINE w == Watched
<1> HIDE DEF w
<1>3. w \in [val : 0..256, field : Origin] /\ linear_x' = [w EXCEPT !.val = Clamp(w.val, 0, 256)]
  BY <1>1, <1>2 DEF w
<1>4. Clamp(w.val, 0, 256) = w.val
  BY <1>3 DEF Clamp
<1> QED BY <1>3, <1>4 DEF w

\* A pass without one reads the clock, and stops the motor when time is up.
LEMMA NoMessageInTime ==
    ASSUME TimeInv, Loop, LoopNoMessage
    PROVE  KeepsUp' /\ Fresh' /\ Dated' /\ Expired'
<1>1. /\ avail \in Nat /\ arrived \in 0..1 /\ looped \in BOOLEAN
      /\ clock \in Time /\ previousMillis \in Time /\ silent \in 0..SAFETY_TIMEOUT + 2
      /\ SAFETY_TIMEOUT \in Nat \ {0} /\ ClockSize \in Nat
  BY OlafAssumption DEF TimeInv, TypeOK, OlafTypeOK, Time
<1>2. /\ looped' = TRUE /\ arrived' = arrived /\ clock' = clock
      /\ currentMillis' = clock /\ UNCHANGED <<previousMillis, silent>>
  BY DEF Loop, LoopNoMessage
<1>3. avail' <= 6 + arrived
  <2>1. avail <= 7 + arrived
    BY <1>1 DEF TimeInv, KeepsUp
  <2>2. CASE ~FrameBuffered
    BY <1>1, <2>2 DEF LoopNoMessage, FrameBuffered, BUFFER_SIZE
  <2>3. CASE FrameBuffered
    BY <1>1, <2>1, <2>3 DEF LoopNoMessage, FrameBuffered, Consume, BUFFER_SIZE
  <2> QED BY <2>2, <2>3
<1>4. Elapsed(clock', currentMillis') = 0
  BY <1>1, <1>2, ElapsedTick
<1>5. KeepsUp' /\ Fresh'
  <2>1. KeepsUp'
    BY <1>2, <1>3 DEF KeepsUp
  <2>2. Fresh'
    BY <1>2, <1>4 DEF Fresh
  <2> QED BY <2>1, <2>2
<1>6. Dated'
  <2>1. Elapsed(clock', previousMillis') = Elapsed(clock, previousMillis)
    BY <1>2
  <2> QED BY <1>2, <2>1 DEF TimeInv, Dated
<1>7. Expired'
  <2>1. SUFFICES ASSUME silent > SAFETY_TIMEOUT PROVE linear_x' = StopSpeed
    BY <1>2 DEF Expired
  <2>2. CASE silent > SAFETY_TIMEOUT + 1
    <3>1. linear_x = StopSpeed
      BY <2>1, <2>2 DEF TimeInv, Expired
    <3>2. Watched = StopSpeed
      BY <3>1 DEF Watched
    <3> QED BY <3>2, WatchedClamped DEF TimeInv
  <2>3. CASE silent <= SAFETY_TIMEOUT + 1
    <3>1. Elapsed(clock, previousMillis) \in {silent, silent + 1}
      BY <2>3 DEF TimeInv, Dated
    <3>2. Elapsed(clock, previousMillis) > SAFETY_TIMEOUT
      BY <1>1, <2>1, <3>1
    <3>3. Watched = StopSpeed
      BY <3>2 DEF Watched
    <3> QED BY <3>3, WatchedClamped DEF TimeInv
  <2> QED BY <1>1, <2>2, <2>3
<1> QED BY <1>5, <1>6, <1>7

LEMMA TickInTime ==
    ASSUME TimeInv, Tick
    PROVE  KeepsUp' /\ Fresh' /\ Dated' /\ Expired'
<1>1. /\ avail \in Nat /\ arrived \in 0..1 /\ looped = TRUE
      /\ clock \in Time /\ previousMillis \in Time /\ currentMillis \in Time
      /\ silent \in 0..SAFETY_TIMEOUT + 2
      /\ SAFETY_TIMEOUT \in Nat \ {0} /\ ClockSize \in Nat
      /\ ClockSize > SAFETY_TIMEOUT + 2
  BY OlafAssumption DEF TimeInv, TypeOK, OlafTypeOK, Time, Tick
<1>2. /\ looped' = FALSE /\ arrived' = 0 /\ clock' = (clock + 1) % ClockSize
      /\ silent' = IF silent < SAFETY_TIMEOUT + 2 THEN silent + 1 ELSE silent
      /\ UNCHANGED <<avail, currentMillis, previousMillis, linear_x>>
  BY DEF Tick, firmware
<1>3. KeepsUp'
  <2>1. avail <= 6 + arrived
    BY <1>1 DEF TimeInv, KeepsUp
  <2> QED BY <1>1, <1>2, <2>1 DEF KeepsUp
<1>4. Fresh'
  <2>1. CASE avail <= 1 + arrived
    BY <1>1, <1>2, <2>1 DEF Fresh
  <2>2. CASE Elapsed(clock, currentMillis) <= 0
    <3>1. Elapsed(clock, currentMillis) \in Time
      BY <1>1, ElapsedTick
    <3>2. Elapsed(clock, currentMillis) = 0
      BY <2>2, <3>1 DEF Time
    <3>3. Elapsed(clock', currentMillis') = 1
      BY <1>1, <1>2, <3>2, ElapsedTick
    <3> QED BY <1>2, <3>3 DEF Fresh
  <2> QED BY <1>1, <2>1, <2>2 DEF TimeInv, Fresh
<1>5. Dated'
  <2>1. SUFFICES ASSUME silent' <= SAFETY_TIMEOUT + 1
                 PROVE  Elapsed(clock', previousMillis') \in {silent', silent' + 1}
    BY DEF Dated
  <2>2. silent' = silent + 1 /\ silent <= SAFETY_TIMEOUT
    BY <1>1, <1>2, <2>1
  <2>3. Elapsed(clock, previousMillis) \in {silent, silent + 1}
    BY <1>1, <2>2 DEF TimeInv, Dated
  <2>4. Elapsed(clock, previousMillis) + 1 < ClockSize
    BY <1>1, <2>2, <2>3
  <2>5. Elapsed(clock', previousMillis') = Elapsed(clock, previousMillis) + 1
    BY <1>1, <1>2, <2>4, ElapsedTick
  <2> QED BY <1>1, <2>2, <2>3, <2>5
<1>6. Expired'
  <2>1. SUFFICES ASSUME silent' > SAFETY_TIMEOUT + 1 PROVE linear_x' = StopSpeed
    BY <1>1, <1>2 DEF Expired
  <2>2. silent > SAFETY_TIMEOUT
    BY <1>1, <1>2, <2>1
  <2> QED BY <1>1, <1>2, <2>2 DEF TimeInv, Expired
<1> QED BY <1>3, <1>4, <1>5, <1>6

LEMMA ArriveInTime ==
    ASSUME TimeInv, Arrive
    PROVE  KeepsUp' /\ Fresh'
<1>1. avail \in Nat /\ arrived \in Nat /\ looped \in BOOLEAN
  BY DEF TimeInv, TypeOK, OlafTypeOK
<1>2. /\ avail' = avail + 1 /\ arrived' = arrived + 1
      /\ UNCHANGED <<looped, clock, currentMillis>>
  BY DEF Arrive, firmware
<1>3. KeepsUp'
  BY <1>1, <1>2 DEF TimeInv, KeepsUp
<1>4. Fresh'
  <2>1. CASE Elapsed(clock, currentMillis) <= (IF looped THEN 0 ELSE 1)
    BY <1>2, <2>1 DEF Fresh
  <2>2. CASE avail <= (IF looped THEN 1 ELSE 2) + arrived
    BY <1>1, <1>2, <2>2 DEF Fresh
  <2> QED BY <2>1, <2>2 DEF TimeInv, Fresh
<1> QED BY <1>3, <1>4

\* The pulse width always belongs to the speed in force.
LEMMA StopPulse ==
    Clamp(Pwm(StopSpeed.val, LINEAR_MIN, LINEAR_MAX),
          MIN_MOTOR_PWM_CUTOFF, MAX_MOTOR_PWM_CUTOFF) = STOP_PWM
BY DEF Clamp, Pwm, StopSpeed, UNMAPPED_STOP_SPEED, LINEAR_MIN, LINEAR_MAX, MIN_PWM,
       MAX_PWM, MIN_MOTOR_PWM_CUTOFF, MAX_MOTOR_PWM_CUTOFF, STOP_PWM

\* After a reset everything starts from stop.
LEMMA BootInTime ==
    ASSUME TypeOK', BytesPerTick = 1, avail' = 0, arrived' = 0, looped' = FALSE,
           clock' = 0, currentMillis' = 0, previousMillis' = 0,
           silent' = SAFETY_TIMEOUT + 2, linear_x' = StopSpeed, motor' = STOP_PWM
    PROVE  TimeInv'
<1>1. KeepsUp' /\ Fresh'
  BY DEF KeepsUp, Fresh
<1>2. Dated'
  BY OlafAssumption DEF Dated
<1>3. Expired' /\ MotorObeys'
  BY StopPulse DEF Expired, MotorObeys
<1> QED BY <1>1, <1>2, <1>3 DEF TimeInv

LEMMA TimeStep == TimeInv /\ [Next]_vars => TimeInv'
<1> SUFFICES ASSUME TimeInv, [Next]_vars PROVE TimeInv'
  OBVIOUS
<1>0. TypeOK' /\ BytesPerTick = 1
  BY StepType DEF TimeInv
<1>1. ASSUME UNCHANGED <<avail, firmware, clock, looped, arrived, silent>>
      PROVE  TimeInv'
  BY <1>0, <1>1 DEF TimeInv, KeepsUp, Fresh, Dated, Expired, MotorObeys, firmware
<1>2. CASE Loop
  <2>1. MotorObeys'
    BY <1>2 DEF Loop, LoopMessage, LoopNoMessage, Drive, MotorObeys
  <2> QED BY <1>0, <1>2, <2>1, MessageInTime, NoMessageInTime DEF Loop, TimeInv
<1>3. CASE Arrive
  <2>1. Dated' /\ Expired' /\ MotorObeys'
    BY <1>3 DEF Arrive, firmware, TimeInv, Dated, Expired, MotorObeys
  <2> QED BY <1>0, <1>3, <2>1, ArriveInTime DEF TimeInv
<1>4. CASE Tick
  <2>1. MotorObeys'
    BY <1>4 DEF Tick, firmware, TimeInv, MotorObeys
  <2> QED BY <1>0, <1>4, <2>1, TickInTime DEF TimeInv
<1>5. CASE FirmwareRestart
  BY <1>0, <1>5, BootInTime DEF FirmwareRestart, Restart
<1>6. CASE Send \/ LoseByte \/ HostCrash \/ HostStart \/ UNCHANGED vars
  BY <1>1, <1>6 DEF Send, TwistCallback, LoseByte, HostCrash, HostStart, vars, olafVars
<1> QED BY <1>2, <1>3, <1>4, <1>5, <1>6 DEF Next

LEMMA TimeInit == Init /\ BytesPerTick = 1 => TimeInv
<1> SUFFICES ASSUME Init, BytesPerTick = 1 PROVE TimeInv
  OBVIOUS
<1>1. TypeOK
  BY InitType
<1> USE DEF Init, OlafInit, Boot
<1>2. KeepsUp /\ Fresh
  BY DEF KeepsUp, Fresh
<1>3. Dated
  BY OlafAssumption DEF Dated
<1>4. Expired /\ MotorObeys
  BY StopPulse DEF Expired, MotorObeys
<1> QED BY <1>1, <1>2, <1>3, <1>4 DEF TimeInv

\* While bytes come no faster than one a tick, the receive buffer never holds more than
\* a message and the bytes of two ticks, far from the 63 of the Arduino core, though
\* bytes may be lost and each pass skips only one (serial_read).
THEOREM BufferKeepsUp == Spec /\ BytesPerTick = 1 => []RxBounded
<1>1. TimeInv => RxBounded
  <2> SUFFICES ASSUME TimeInv PROVE RxBounded
    OBVIOUS
  <2>1. avail \in Nat /\ arrived \in 0..1 /\ BytesPerTick = 1 /\ looped \in BOOLEAN
    BY DEF TimeInv, TypeOK, OlafTypeOK
  <2> QED BY <2>1 DEF TimeInv, KeepsUp, RxBounded, BUFFER_SIZE
<1> QED BY <1>1, TimeInit, TimeStep, PTL DEF Spec

\* The watchdog is never late, for every time-out, every width of the clock above it and
\* any number of faults and wraps (serial_read).
THEOREM WatchdogOnTime == Spec /\ BytesPerTick = 1 => []WatchdogStops
<1>1. TimeInv => WatchdogStops
  BY StopPulse DEF TimeInv, Expired, MotorObeys, WatchdogStops
<1> QED BY <1>1, TimeInit, TimeStep, PTL DEF Spec

\* The watchdog is never early by more than the tick by which the stored time may lag
\* (serial_read).
THEOREM WatchdogNotEarly == Spec /\ BytesPerTick = 1 => WatchdogPatient
<1> DEFINE Patient == linear_x # StopSpeed /\ linear_x' = StopSpeed /\ faults' = faults
                        => silent >= SAFETY_TIMEOUT
<1>1. TimeInv /\ TimeInv' /\ [Next]_vars => [Patient]_vars
  <2> SUFFICES ASSUME TimeInv, Next, linear_x # StopSpeed, linear_x' = StopSpeed,
                      faults' = faults
               PROVE  silent >= SAFETY_TIMEOUT
    OBVIOUS
  <2>0. faults \in Nat /\ silent \in Nat /\ SAFETY_TIMEOUT \in Nat
    BY LinkAssumption, OlafAssumption DEF TimeInv, TypeOK, OlafTypeOK
  <2>1. ~Fault
    BY <2>0 DEF Fault
  <2>2. Loop
    BY <2>1 DEF Next, Send, TwistCallback, Arrive, Tick, LoseByte, FirmwareRestart,
                HostCrash, HostStart, olafVars, firmware
  <2>3. ~LoopMessage
    <3> SUFFICES ASSUME LoopMessage PROVE FALSE
      OBVIOUS
    <3>1. avail >= 7 /\ line \in Seq(Byte) /\ avail \in 0..Len(line)
      BY DEF LoopMessage, FrameBuffered, BUFFER_SIZE, TimeInv, TypeOK, OlafTypeOK
    <3>2. Read(2) = line[2] /\ line[2] \in Byte
      BY <3>1 DEF Read
    <3>3. linear_x' = [Read(2) EXCEPT !.val = Clamp(@, LINEAR_MIN, LINEAR_MAX)]
      BY DEF LoopMessage, Convert
    <3>4. linear_x'.field = line[2].field
      BY <3>2, <3>3 DEF Byte
    <3> QED BY <3>2, <3>4 DEF StopSpeed, Byte, Fields
  <2>4. LoopNoMessage
    BY <2>2, <2>3 DEF Loop
  <2>5. Watched = StopSpeed
    BY <2>4, WatchedClamped DEF TimeInv
  <2>6. Elapsed(clock, previousMillis) > SAFETY_TIMEOUT
    BY <2>5 DEF Watched
  <2>7. silent <= SAFETY_TIMEOUT + 1
          => Elapsed(clock, previousMillis) \in {silent, silent + 1}
    BY DEF TimeInv, Dated
  <2> QED BY <2>0, <2>6, <2>7
<1> QED BY <1>1, TimeInit, TimeStep, PTL DEF Spec, WatchdogPatient
-----------------------------------------------------------------------------
\* The command pipe.  For the refinement the unread bytes must be whole messages, and
\* the angles among them such that convert() leaves them as they are.
Angled == \A i \in 1..Len(line) : i % 7 = 0 => line[i].val \in ANGULAR_MIN..ANGULAR_MAX
PipeInv == MaxFaults = 0 /\ TypeOK /\ Framed /\ InSync /\ Angled

\* The messages in a sequence of bytes.
Message(s, i) == [speed |-> s[7 * i - 5].val, angle |-> s[7 * i].val]
Messages(s) == [i \in 1..(Len(s) \div 7) |-> Message(s, i)]
Value == [speed : 0..255, angle : 0..255]

LEMMA MessagesType ==
    ASSUME NEW s \in Seq(Byte)
    PROVE  /\ Messages(s) \in Seq(Value)
           /\ Len(s) \div 7 \in Nat
           /\ Len(Messages(s)) = Len(s) \div 7
           /\ \A i \in 1..(Len(s) \div 7) : Messages(s)[i] = Message(s, i)
<1> DEFINE n == Len(s) \div 7
<1>1. Len(s) \in Nat /\ n \in Nat /\ 7 * n <= Len(s)
  BY SMT
<1>2. ASSUME NEW i \in 1..n PROVE Message(s, i) \in Value
  <2>1. 7 * i - 5 \in 1..Len(s) /\ 7 * i \in 1..Len(s)
    BY <1>1, <1>2
  <2>2. s[7 * i - 5] \in Byte /\ s[7 * i] \in Byte
    BY <2>1
  <2> QED BY <2>2 DEF Message, Value, Byte
<1> HIDE DEF n
<1>3. Messages(s) = [i \in 1..n |-> Message(s, i)]
  BY DEF Messages, n
<1>4. Messages(s) \in [1..n -> Value]
  BY <1>2, <1>3
<1> QED BY <1>1, <1>3, <1>4 DEF n

LEMMA JoinedBytes ==
    \A s, u \in Seq(Byte) : /\ s \o u \in Seq(Byte)
                            /\ Len(s \o u) = Len(s) + Len(u)
                            /\ \A i \in 1..Len(s) : (s \o u)[i] = s[i]
                            /\ \A i \in 1..Len(u) : (s \o u)[i + Len(s)] = u[i]
BY Joined

LEMMA MessagesSend ==
    ASSUME NEW s \in Seq(Byte), Len(s) % 7 = 0, NEW f \in Seq(Byte), Len(f) = 7
    PROVE  Messages(s \o f) = Append(Messages(s), Message(f, 1))
<1> DEFINE n == Len(s) \div 7
           u == s \o f
<1>1. Len(s) \in Nat /\ n \in Nat /\ Len(s) = 7 * n
  BY SMT
<1>2. /\ s \o f \in Seq(Byte)
      /\ Len(s \o f) = Len(s) + Len(f)
      /\ \A j \in 1..Len(s) : (s \o f)[j] = s[j]
      /\ \A j \in 1..Len(f) : (s \o f)[j + Len(s)] = f[j]
  BY JoinedBytes, Zenon
<1>3. /\ u \in Seq(Byte) /\ Len(u) = Len(s) + 7
      /\ \A j \in 1..Len(s) : u[j] = s[j]
      /\ \A j \in 1..7 : u[j + Len(s)] = f[j]
  BY <1>2, Zenon
<1> HIDE DEF n, u
<1>0. Len(u) \div 7 = n + 1
  BY <1>1, <1>3
<1>4. /\ Messages(u) \in Seq(Value) /\ Len(Messages(u)) = n + 1
      /\ \A i \in 1..n + 1 : Messages(u)[i] = Message(u, i)
  BY <1>0, <1>3, MessagesType
<1>5. /\ Messages(s) \in Seq(Value) /\ Len(Messages(s)) = n
      /\ \A i \in 1..n : Messages(s)[i] = Message(s, i)
  BY MessagesType DEF n
<1>6. Message(f, 1) \in Value
  <2>1. 2 \in 1..Len(f) /\ 7 \in 1..Len(f) /\ 7 * 1 - 5 = 2 /\ 7 * 1 = 7
    OBVIOUS
  <2>2. f[2] \in Byte /\ f[7] \in Byte
    BY <2>1, ElementOfSeq
  <2> QED BY <2>1, <2>2 DEF Message, Value, Byte
<1> DEFINE m == Append(Messages(s), Message(f, 1))
<1>7. /\ m \in Seq(Value) /\ Len(m) = n + 1
      /\ \A i \in 1..n : m[i] = Messages(s)[i]
      /\ m[n + 1] = Message(f, 1)
  BY <1>1, <1>5, <1>6, AppendProperties
<1> HIDE DEF m
<1>8. ASSUME NEW i \in 1..n + 1 PROVE Messages(u)[i] = m[i]
  <2>1. CASE i \in 1..n
    <3>1. 7 * i - 5 \in 1..Len(s) /\ 7 * i \in 1..Len(s)
      BY <1>1, <2>1
    <3>2. Message(u, i) = Message(s, i)
      BY <1>3, <3>1 DEF Message
    <3> QED BY <1>4, <1>5, <1>7, <2>1, <3>2
  <2>2. CASE i = n + 1
    <3>1. 7 * i - 5 = 2 + Len(s) /\ 7 * i = 7 + Len(s) /\ 7 * 1 - 5 = 2 /\ 7 * 1 = 7
      BY <1>1, <2>2
    <3>2. Message(u, i) = Message(f, 1)
      BY <1>3, <3>1 DEF Message
    <3> QED BY <1>4, <1>7, <2>2, <3>2
  <2> QED BY <1>1, <2>1, <2>2
<1>9. Messages(u) = m
  BY <1>4, <1>7, <1>8, SeqEqual
<1> QED BY <1>9 DEF u, m

LEMMA MessagesTake ==
    ASSUME NEW s \in Seq(Byte), Len(s) % 7 = 0, Len(s) >= 7
    PROVE  /\ Messages(s) # <<>>
           /\ Head(Messages(s)) = [speed |-> s[2].val, angle |-> s[7].val]
           /\ Messages(SubSeq(s, 8, Len(s))) = Tail(Messages(s))
<1> DEFINE n == Len(s) \div 7
           u == SubSeq(s, 8, Len(s))
<1>1. Len(s) \in Nat /\ n \in Nat /\ Len(s) = 7 * n /\ n >= 1
  BY SMT
<1>2. u \in Seq(Byte) /\ Len(u) = Len(s) - 7 /\ \A j \in 1..Len(s) - 7 : u[j] = s[j + 7]
  <2>1. 7 \in 0..Len(s) /\ 7 + 1 = 8
    BY <1>1
  <2>2. /\ SubSeq(s, 7 + 1, Len(s)) \in Seq(Byte)
        /\ Len(SubSeq(s, 7 + 1, Len(s))) = Len(s) - 7
        /\ \A j \in 1..Len(s) - 7 : SubSeq(s, 7 + 1, Len(s))[j] = s[j + 7]
    BY <2>1, Suffix, Zenon
  <2> QED BY <2>1, <2>2, Zenon
<1> HIDE DEF n, u
<1>3. Len(u) \div 7 = n - 1
  BY <1>1, <1>2, SMT
<1>4. /\ Messages(u) \in Seq(Value) /\ Len(Messages(u)) = n - 1
      /\ \A i \in 1..n - 1 : Messages(u)[i] = Message(u, i)
  BY <1>2, <1>3, MessagesType
<1>5. /\ Messages(s) \in Seq(Value) /\ Len(Messages(s)) = n
      /\ \A i \in 1..n : Messages(s)[i] = Message(s, i)
  BY MessagesType DEF n
<1>6. Messages(s) # <<>>
  BY <1>1, <1>5
<1>7. Head(Messages(s)) = Message(s, 1)
  BY <1>1, <1>5, <1>6
<1>8. Message(s, 1) = [speed |-> s[2].val, angle |-> s[7].val]
  BY DEF Message
<1> DEFINE t == Tail(Messages(s))
<1>9. /\ t \in Seq(Value) /\ Len(t) = n - 1
      /\ \A i \in 1..n - 1 : t[i] = Messages(s)[i + 1]
  BY <1>1, <1>5, <1>6, HeadTailProperties
<1> HIDE DEF t
<1>10. ASSUME NEW i \in 1..n - 1 PROVE Messages(u)[i] = t[i]
  <2>1. /\ 7 * i - 5 \in 1..Len(s) - 7 /\ 7 * i \in 1..Len(s) - 7
        /\ 7 * (i + 1) - 5 = 7 * i - 5 + 7 /\ 7 * (i + 1) = 7 * i + 7
        /\ i + 1 \in 1..n
    BY <1>1
  <2>2. Message(u, i) = Message(s, i + 1)
    BY <1>2, <2>1 DEF Message
  <2> QED BY <1>4, <1>5, <1>9, <2>1, <2>2
<1>11. Messages(u) = t
  BY <1>4, <1>9, <1>10, SeqEqual
<1> QED BY <1>6, <1>7, <1>8, <1>11 DEF u, t

LEMMA AngledSend ==
    ASSUME PipeInv, NEW t \in Twists, TwistCallback(t)
    PROVE  /\ Angled'
           /\ Messages(line') = Append(Messages(line), [speed |-> LinearByte(t.lin),
                                                        angle |-> AngularByte(t.ang)])
<1> DEFINE f == Frame(t)
<1>1. f \in Seq(Byte) /\ Len(f) = 7 /\ line \in Seq(Byte) /\ line' = line \o f
  BY FrameType, LinkAssumption DEF PipeInv, TypeOK, OlafTypeOK, TwistCallback
<1>2. f[2].val = LinearByte(t.lin) /\ f[7].val = AngularByte(t.ang)
  BY DEF Frame
<1>3. f[7].val \in 0..180
  <2>1. 0 \in Nat /\ 180 \in Nat /\ 0 <= 180 /\ t.ang \in Int
    BY LinkAssumption DEF Twist
  <2>2. MapInput(t.ang, MaxAngular, 0, 180) \in 0..180
    BY <2>1, SteeringAssumption, MapRange, Zenon
  <2> QED BY <1>2, <2>2 DEF AngularByte
<1> HIDE DEF f
<1>4. Len(line) % 7 = 0 /\ Len(line) \in Nat
  BY <1>1 DEF PipeInv, Framed
<1>5. /\ Len(line') = Len(line) + 7
      /\ \A i \in 1..Len(line) : line'[i] = line[i]
      /\ \A i \in 1..7 : line'[i + Len(line)] = f[i]
  <2>1. /\ Len(line \o f) = Len(line) + Len(f)
        /\ \A i \in 1..Len(line) : (line \o f)[i] = line[i]
        /\ \A i \in 1..Len(f) : (line \o f)[i + Len(line)] = f[i]
    BY <1>1, JoinedBytes, Zenon
  <2> QED BY <1>1, <2>1, Zenon
<1>6. ASSUME NEW i \in 1..Len(line'), i % 7 = 0 PROVE line'[i].val \in 0..180
  <2>0. i \in Nat /\ 1 <= i /\ i <= Len(line) + 7
    BY <1>4, <1>5
  <2>1. CASE i <= Len(line)
    <3>1. i \in 1..Len(line)
      BY <1>4, <2>0, <2>1
    <3>2. line'[i] = line[i] /\ line[i].val \in 0..180
      BY <1>5, <1>6, <3>1 DEF PipeInv, Angled, ANGULAR_MIN, ANGULAR_MAX
    <3> QED BY <3>2, Zenon
  <2>2. CASE i > Len(line)
    <3>1. i = 7 + Len(line)
      BY <1>4, <1>6, <2>0, <2>2
    <3>2. line'[i] = f[7]
      BY <1>5, <3>1
    <3> QED BY <1>3, <3>2, Zenon
  <2>3. i <= Len(line) \/ i > Len(line)
    BY <1>4, <2>0
  <2> QED BY <2>1, <2>2, <2>3, Zenon
<1>7. Angled'
  BY <1>6 DEF Angled, ANGULAR_MIN, ANGULAR_MAX
<1>8. Message(f, 1) = [speed |-> LinearByte(t.lin), angle |-> AngularByte(t.ang)]
  BY <1>2 DEF Message
<1> QED BY <1>1, <1>4, <1>7, <1>8, MessagesSend

\* A pass that finds a message puts in force just what the message says.
LEMMA AngledMessage ==
    ASSUME PipeInv, LoopMessage
    PROVE  /\ Angled'
           /\ Messages(line) # <<>>
           /\ linear_x'.val = Head(Messages(line)).speed
           /\ angular_z'.val = Head(Messages(line)).angle
           /\ Messages(line') = Tail(Messages(line))
<1>1. /\ line \in Seq(Byte) /\ avail \in 0..Len(line) /\ avail >= 7 /\ Len(line) \in Nat
      /\ Len(line) % 7 = 0
  <2>1. Len(line) % 7 = 0
    BY DEF PipeInv, Framed
  <2>2. line \in Seq(Byte) /\ avail \in 0..Len(line)
    BY DEF PipeInv, TypeOK, OlafTypeOK
  <2>3. avail >= 7
    BY DEF LoopMessage, FrameBuffered, BUFFER_SIZE
  <2> QED BY <2>1, <2>2, <2>3
<1>2. line' = SubSeq(line, 8, Len(line))
  BY <1>1 DEF LoopMessage, Consume, BUFFER_SIZE
<1>3. /\ Len(line') = Len(line) - 7
      /\ \A i \in 1..Len(line) - 7 : line'[i] = line[i + 7]
  <2>1. 7 \in 0..Len(line) /\ 7 + 1 = 8
    BY <1>1
  <2> QED BY <1>1, <1>2, <2>1, Suffix
<1>4. Angled'
  <2>1. ASSUME NEW i \in 1..Len(line'), i % 7 = 0
        PROVE  line'[i].val \in ANGULAR_MIN..ANGULAR_MAX
    <3>1. i + 7 \in 1..Len(line) /\ (i + 7) % 7 = 0 /\ line'[i] = line[i + 7]
      BY <1>1, <1>3, <2>1
    <3> QED BY <3>1 DEF PipeInv, Angled
  <2> QED BY <2>1 DEF Angled
<1>5. /\ Messages(line) # <<>>
      /\ Head(Messages(line)) = [speed |-> line[2].val, angle |-> line[7].val]
      /\ Messages(line') = Tail(Messages(line))
  BY <1>1, <1>2, MessagesTake
<1>6. Read(2) = line[2] /\ Read(7) = line[7] /\ line[2] \in Byte /\ line[7] \in Byte
  BY <1>1 DEF Read
<1>7. line[7].val \in 0..180
  <2>1. 7 \in 1..Len(line) /\ 7 % 7 = 0
    BY <1>1
  <2> QED BY <2>1 DEF PipeInv, Angled, ANGULAR_MIN, ANGULAR_MAX
<1>8. /\ linear_x' = [line[2] EXCEPT !.val = Clamp(line[2].val, 0, 256)]
      /\ angular_z' = [line[7] EXCEPT !.val = Clamp(line[7].val, 0, 180)]
  BY <1>6 DEF LoopMessage, Convert, LINEAR_MIN, LINEAR_MAX, ANGULAR_MIN, ANGULAR_MAX
<1>9. Clamp(line[2].val, 0, 256) = line[2].val /\ Clamp(line[7].val, 0, 180) = line[7].val
  BY <1>6, <1>7 DEF Clamp, Byte
<1>10. linear_x'.val = line[2].val /\ angular_z'.val = line[7].val
  BY <1>6, <1>8, <1>9 DEF Byte
<1> QED BY <1>4, <1>5, <1>10

\* A pass without one takes nothing, and stops the car or leaves all as it is.
LEMMA AngledNoMessage ==
    ASSUME PipeInv, LoopNoMessage
    PROVE  /\ line' = line /\ Angled'
           /\ linear_x'.val \in {linear_x.val, UNMAPPED_STOP_SPEED}
           /\ angular_z'.val = angular_z.val
<1>1. FrameBuffered => HeadMatches
  <2> SUFFICES ASSUME FrameBuffered PROVE HeadMatches
    OBVIOUS
  <2>1. 1 <= avail /\ 1 \in 1..Len(line) /\ 1 % 7 = 1
    BY DEF FrameBuffered, BUFFER_SIZE, PipeInv, TypeOK, OlafTypeOK
  <2>2. line[1].val = HeadByte
    BY <2>1 DEF PipeInv, Framed
  <2> QED BY <2>1, <2>2 DEF HeadMatches, Read
<1>2. line' = line
  BY <1>1 DEF LoopNoMessage
<1>3. linear_x'.val \in {linear_x.val, UNMAPPED_STOP_SPEED}
  BY WatchedClamped DEF PipeInv, Watched, StopSpeed
<1>4. angular_z'.val = angular_z.val
  <2>1. angular_z \in [val : 0..180, field : Origin]
    BY DEF PipeInv, TypeOK, OlafTypeOK, ANGULAR_MIN, ANGULAR_MAX
  <2>2. angular_z' = [angular_z EXCEPT !.val = Clamp(angular_z.val, 0, 180)]
    BY DEF LoopNoMessage, Convert, ANGULAR_MIN, ANGULAR_MAX
  <2>3. Clamp(angular_z.val, 0, 180) = angular_z.val
    BY <2>1 DEF Clamp
  <2> QED BY <2>1, <2>2, <2>3
<1> QED BY <1>2, <1>3, <1>4 DEF PipeInv, Angled

\* What a step does to the pipe: it gives a command, obeys one, halts, or nothing.
PipeStep(s, s2, v, v2, a, a2) ==
    \/ /\ \E t \in Twists : s2 = Append(s, [speed |-> LinearByte(t.lin),
                                            angle |-> AngularByte(t.ang)])
       /\ v2 = v /\ a2 = a
    \/ s # <<>> /\ v2 = Head(s).speed /\ a2 = Head(s).angle /\ s2 = Tail(s)
    \/ s2 = s /\ a2 = a /\ v2 \in {v, UNMAPPED_STOP_SPEED}

LEMMA LinkStep ==
    ASSUME PipeInv, [Next]_vars
    PROVE  /\ PipeInv'
           /\ PipeStep(Messages(line), Messages(line'), linear_x.val, linear_x'.val,
                       angular_z.val, angular_z'.val)
<1>1. TypeOK' /\ TypeOK /\ Framed /\ InSync /\ Angled /\ MaxFaults = 0
  BY StepType DEF PipeInv
<1>2. ~Fault
  BY <1>1 DEF Fault, TypeOK
<1>3. ASSUME NEW t \in Twists, TwistCallback(t)
      PROVE  /\ Framed' /\ InSync' /\ Angled'
             /\ PipeStep(Messages(line), Messages(line'), linear_x.val, linear_x'.val,
                         angular_z.val, angular_z'.val)
  <2>1. linear_x' = linear_x /\ angular_z' = angular_z
    BY <1>3 DEF TwistCallback, firmware
  <2>2. InSync'
    BY <1>1, <2>1 DEF InSync
  <2> QED BY <1>1, <1>3, <2>1, <2>2, FramedSend, AngledSend DEF PipeStep
<1>4. ASSUME Loop
      PROVE  /\ Framed' /\ InSync' /\ Angled'
             /\ PipeStep(Messages(line), Messages(line'), linear_x.val, linear_x'.val,
                         angular_z.val, angular_z'.val)
  <2>1. CASE LoopMessage
    BY <1>1, <2>1, FramedMessage, AngledMessage DEF PipeStep
  <2>2. CASE LoopNoMessage
    BY <1>1, <2>2, FramedNoMessage, AngledNoMessage DEF PipeStep
  <2> QED BY <1>4, <2>1, <2>2 DEF Loop
<1>5. ASSUME UNCHANGED <<line, linear_x, angular_z>>
      PROVE  /\ Framed' /\ InSync' /\ Angled'
             /\ PipeStep(Messages(line), Messages(line'), linear_x.val, linear_x'.val,
                         angular_z.val, angular_z'.val)
  BY <1>1, <1>5 DEF Framed, InSync, Angled, PipeStep
<1>6. CASE Arrive \/ Tick \/ HostStart \/ UNCHANGED vars
  BY <1>1, <1>5, <1>6 DEF Arrive, Tick, HostStart, vars, olafVars, firmware, PipeInv
<1> QED BY <1>1, <1>2, <1>3, <1>4, <1>6
        DEF Next, Send, LoseByte, FirmwareRestart, HostCrash, PipeInv

\* As long as nothing is lost, the link implements the command pipe: commands are obeyed
\* whole, once and in the order they were given, and in between the car may only be
\* stopped (twistCallback, serial_read).
THEOREM LinkIsPipe == Spec /\ MaxFaults = 0 => ImplementsPipe
<1>1. Init /\ MaxFaults = 0 => PipeInv /\ Pipe!Init
  <2> SUFFICES ASSUME Init, MaxFaults = 0 PROVE PipeInv /\ Pipe!Init
    OBVIOUS
  <2>1. line = <<>> /\ linear_x = StopSpeed /\ angular_z = Straight
    BY DEF Init, OlafInit, Boot
  <2>2. Len(line) = 0
    BY <2>1
  <2>3. Framed /\ Angled /\ InSync
    BY <2>1, <2>2 DEF Framed, Angled, InSync, StopSpeed, Straight
  <2>4. [i \in 1..(Len(line) \div 7) |-> Command(i)] = <<>>
    <3>1. Len(line) \div 7 = 0
      BY <2>2
    <3> QED BY <3>1
  <2> QED BY <2>1, <2>3, <2>4, InitType DEF Pipe!Init, PipeInv, StopSpeed, Straight
<1>2. PipeInv /\ [Next]_vars => PipeInv' /\ [Pipe!Next]_(Pipe!pipeVars)
  <2> SUFFICES ASSUME PipeInv, [Next]_vars PROVE PipeInv' /\ [Pipe!Next]_(Pipe!pipeVars)
    OBVIOUS
  <2>1. /\ Messages(line) = [i \in 1..(Len(line) \div 7) |-> Command(i)]
        /\ Messages(line)' = [i \in 1..(Len(line) \div 7) |-> Command(i)]'
    BY DEF Messages, Message, Command
  <2>2. Messages(line') = [i \in 1..(Len(line) \div 7) |-> Command(i)]'
    BY <2>1
  <2>3. /\ PipeInv'
        /\ PipeStep(Messages(line), Messages(line'), linear_x.val, linear_x'.val,
                    angular_z.val, angular_z'.val)
    BY LinkStep
  <2> QED BY <2>1, <2>2, <2>3
          DEF PipeStep, Pipe!Next, Pipe!Give, Pipe!Obey, Pipe!Halt, Pipe!pipeVars
<1> QED BY <1>1, <1>2, PTL DEF Spec, ImplementsPipe, Pipe!Spec
=============================================================================
