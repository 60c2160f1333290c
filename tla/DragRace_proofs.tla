--------------------------- MODULE DragRace_proofs ---------------------------
(***************************************************************************)
(* Proofs about drag_race_iarrc, and about the two ways the robot groups   *)
(* points.  DragRace, for every set of Twists, every threshold and every   *)
(* size of the queues: the car does not start on, or stop for, a false     *)
(* alarm, and the stop at the end of the course is the last command.       *)
(* PointGroupings, for all cones and every tolerance: the groups are a     *)
(* partition into linked parts, and no two near cones end up alone.        *)
(* DBSCAN, for every cloud, radius and number of neighbours: its clusters  *)
(* are those of DensityClusters.                                           *)
(***************************************************************************)
EXTENDS DragRace, PointGroupings, DBSCAN, Shared_proofs, FiniteSetTheorems, FunctionTheorems

\* The green frames among the messages of a queue.
Green(q) == {j \in 1..Len(q) : q[j] = TRUE}
HowMany(q) == Cardinality(Green(q))

LEMMA GreenFinite ==
    ASSUME NEW q \in Seq(BOOLEAN)
    PROVE  IsFiniteSet(Green(q)) /\ HowMany(q) \in Nat
<1>1. Len(q) \in Nat
  OBVIOUS
<1>2. IsFiniteSet(1..Len(q))
  BY <1>1, FS_Interval
<1>3. Green(q) \in SUBSET (1..Len(q))
  BY DEF Green
<1> QED BY <1>2, <1>3, FS_Subset, FS_CardinalityType DEF HowMany

LEMMA GreenAppend ==
    ASSUME NEW q \in Seq(BOOLEAN), NEW b \in BOOLEAN
    PROVE  HowMany(Append(q, b)) = (IF b = TRUE THEN HowMany(q) + 1 ELSE HowMany(q))
<1>1. /\ Len(q) \in Nat /\ Len(Append(q, b)) = Len(q) + 1
      /\ Append(q, b)[Len(q) + 1] = b
      /\ \A j \in 1..Len(q) : Append(q, b)[j] = q[j]
      /\ 1..Len(q) + 1 = (1..Len(q)) \cup {Len(q) + 1}
  OBVIOUS
<1>2. Len(q) + 1 \notin Green(q)
  BY <1>1 DEF Green
<1>3. CASE b = TRUE
  <2>1. Green(Append(q, b)) = Green(q) \cup {Len(q) + 1}
    BY <1>1, <1>3 DEF Green
  <2> QED BY <1>2, <1>3, <2>1, GreenFinite, FS_AddElement DEF HowMany
<1>4. CASE b # TRUE
  <2>1. Green(Append(q, b)) = Green(q)
    BY <1>1, <1>4 DEF Green
  <2> QED BY <1>4, <2>1 DEF HowMany
<1> QED BY <1>3, <1>4

LEMMA GreenTail ==
    ASSUME NEW q \in Seq(BOOLEAN), q # <<>>
    PROVE  /\ HowMany(Tail(q)) <= HowMany(q)
           /\ Head(q) = TRUE => HowMany(Tail(q)) + 1 <= HowMany(q)
<1> DEFINE t == Tail(q)
           f == [j \in Green(t) |-> j + 1]
<1>1. /\ Len(q) \in Nat /\ 1 \in 1..Len(q) /\ Head(q) = q[1]
      /\ t \in Seq(BOOLEAN) /\ Len(t) = Len(q) - 1
      /\ \A j \in 1..Len(t) : t[j] = q[j + 1]
  OBVIOUS
<1> HIDE DEF t
<1>2. Green(t) \subseteq Nat /\ \A j \in Green(t) : j + 1 \in Green(q) \ {1}
  BY <1>1 DEF Green
<1>3. f \in Injection(Green(t), Green(q) \ {1})
  BY <1>2, Fun_IsInj
<1>4. /\ IsFiniteSet(Green(q) \ {1})
      /\ Cardinality(Green(q) \ {1}) = IF 1 \in Green(q) THEN HowMany(q) - 1 ELSE HowMany(q)
  BY GreenFinite, FS_RemoveElement DEF HowMany
<1>5. HowMany(t) <= Cardinality(Green(q) \ {1})
  BY <1>3, <1>4, FS_Injection DEF HowMany
<1>6. 1 \in Green(q) <=> Head(q) = TRUE
  BY <1>1 DEF Green
<1>7. HowMany(t) \in Nat /\ HowMany(q) \in Nat
  BY <1>1, GreenFinite
<1>8. CASE 1 \in Green(q)
  <2>1. HowMany(t) <= HowMany(q) - 1
    BY <1>4, <1>5, <1>8
  <2>2. HowMany(t) <= HowMany(q) /\ HowMany(t) + 1 <= HowMany(q)
    BY <1>7, <2>1
  <2> QED BY <2>2, Zenon DEF t
<1>9. CASE 1 \notin Green(q)
  <2>1. HowMany(t) <= HowMany(q)
    BY <1>4, <1>5, <1>9
  <2> QED BY <1>6, <1>9, <2>1, Zenon DEF t
<1> QED BY <1>8, <1>9

\* A frame that comes in makes at most one more green frame wait.
LEMMA GreenDeliver ==
    ASSUME NEW q \in Seq(BOOLEAN), NEW b \in BOOLEAN
    PROVE  HowMany(Deliver(q, b, QueueSize))
             <= (IF b = TRUE THEN HowMany(q) + 1 ELSE HowMany(q))
<1> DEFINE r == Deliver(q, b, QueueSize)
           m == IF b = TRUE THEN HowMany(q) + 1 ELSE HowMany(q)
<1>0. HowMany(q) \in Nat
  BY GreenFinite
<1>1. CASE Len(q) < QueueSize
  <2>1. r = Append(q, b)
    BY <1>1 DEF Deliver
  <2>2. HowMany(Append(q, b)) = m
    BY GreenAppend
  <2> QED BY <1>0, <2>1, <2>2
<1>2. CASE ~(Len(q) < QueueSize)
  <2> DEFINE t == Tail(q)
  <2>1. r = Append(t, b)
    BY <1>2 DEF Deliver
  <2>2. q # <<>> /\ t \in Seq(BOOLEAN)
    BY <1>2, RaceAssumption
  <2> HIDE DEF t
  <2>3. HowMany(t) \in Nat
    BY <2>2, GreenFinite
  <2>4. HowMany(Append(t, b)) = (IF b = TRUE THEN HowMany(t) + 1 ELSE HowMany(t))
    BY <2>2, GreenAppend
  <2>5. HowMany(t) <= HowMany(q)
    BY <2>2, GreenTail DEF t
  <2> QED BY <1>0, <2>1, <2>3, <2>4, <2>5
<1> QED BY <1>1, <1>2

-----------------------------------------------------------------------------
LEMMA ZeroTwist == Zero \in Twist /\ Desired \subseteq Twist
BY RaceAssumption DEF Zero, Twist

LEMMA CountType ==
    ASSUME NEW t \in Nat, NEW n \in 0..t + 1
    PROVE  Count(n, t) \in 0..t + 1 /\ Count(n, t) >= n
BY DEF Count

\* The bound of a counter of green frames, also if none are asked for.
Most == Longer(minimum_green_recognised_count + 1, 0)

LEMMA CountGreen ==
    ASSUME NEW n \in 0..Most
    PROVE  /\ Count(n, minimum_green_recognised_count) \in 0..Most
           /\ Count(n, minimum_green_recognised_count) >= n
BY RaceAssumption DEF Count, Most, Longer

LEMMA LongerType ==
    ASSUME NEW t \in Nat, NEW n \in 0..t + 1, NEW m \in 0..t + 1
    PROVE  Longer(n, m) \in 0..t + 1 /\ Longer(n, m) >= n /\ Longer(n, m) >= m
BY DEF Longer

LEMMA TypeStep == TypeOK /\ [Next]_vars => TypeOK'
<1> SUFFICES ASSUME TypeOK, [Next]_vars PROVE TypeOK'
  OBVIOUS
<1> USE DEF TypeOK
<1>1. CASE LightChanges
  BY <1>1 DEF LightChanges, counters, history, alarms
<1>2. CASE WallChanges
  BY <1>2 DEF WallChanges, counters, history, alarms
<1>3. CASE Frame
  <2>1. lights' \in Seq(BOOLEAN) /\ Len(lights') <= QueueSize
    BY <1>3, DeliverFacts, RaceAssumption DEF Frame
  <2>2. greens' \in 0..Most
    <3>1. greens \in 0..Most
      BY DEF Most
    <3> QED BY <1>3, <3>1, CountGreen DEF Frame
  <2> QED BY <1>3, <2>1, <2>2 DEF Frame, outside, counters, alarms, Most
<1>4. ASSUME NEW t \in Desired, Scan(t) PROVE TypeOK'
  <2> DEFINE S == [collision : BOOLEAN, desired : Desired]
  <2>1. [collision |-> wall, desired |-> t] \in S
    OBVIOUS
  <2>2. scans \in Seq(S) /\ Len(scans) <= QueueSize
    OBVIOUS
  <2> HIDE DEF S
  <2>3. scans' \in Seq(S) /\ Len(scans') <= QueueSize
    BY <1>4, <2>1, <2>2, DeliverFacts, RaceAssumption DEF Scan
  <2> DEFINE thr == obstacle_ticks_threshold
  <2>4. thr \in Nat /\ row \in 0..thr + 1 /\ rowLongest \in 0..thr + 1
    BY RaceAssumption
  <2>5. row' \in {Count(row, thr), 0} /\ rowLongest' = Longer(row', rowLongest)
    BY <1>4, Zenon DEF Scan
  <2>6. row' \in 0..thr + 1
    <3> HIDE DEF thr, TypeOK
    <3>1. Count(row, thr) \in 0..thr + 1
      BY <2>4, CountType
    <3>2. 0 \in 0..thr + 1
      BY <2>4
    <3> QED BY <2>5, <3>1, <3>2
  <2>7. rowLongest' \in 0..thr + 1
    BY <2>4, <2>5, <2>6, LongerType
  <2>8. missed' \in BOOLEAN
    BY <1>4, Zenon DEF Scan
  <2> QED BY <1>4, <2>3, <2>6, <2>7, <2>8 DEF Scan, outside, counters, S
<1>5. CASE GreenLightCallBack
  <2>a. Tail(lights) \in Seq(BOOLEAN) /\ Len(Tail(lights)) = Len(lights) - 1
    BY <1>5, HandleFacts DEF GreenLightCallBack
  <2>1. lights' \in Seq(BOOLEAN) /\ Len(lights') <= QueueSize
    <3>1. lights' = Tail(lights)
      BY <1>5, Zenon DEF GreenLightCallBack
    <3> QED BY <2>a, <3>1, RaceAssumption
  <2>2. green_count_recognised' \in 0..Most
    <3>1. green_count_recognised \in 0..Most
      BY DEF Most
    <3> QED BY <1>5, <3>1, CountGreen DEF GreenLightCallBack
  <2> QED BY <1>5, <2>1, <2>2 DEF GreenLightCallBack, outside, history, alarms, Most
<1>6. CASE ScanCallBack
  <2> DEFINE S == [collision : BOOLEAN, desired : Desired]
  <2>1. scans \in Seq(S) /\ scans # <<>>
    BY <1>6 DEF ScanCallBack
  <2>2. Head(scans) \in S /\ Tail(scans) \in Seq(S) /\ Len(Tail(scans)) = Len(scans) - 1
    <3> HIDE DEF S
    <3> QED BY <2>1, HandleFacts
  <2>3. Head(scans).collision \in BOOLEAN /\ Head(scans).desired \in Twist
    BY <2>2, ZeroTwist
  <2>4. Len(scans') <= QueueSize
    BY <1>6, <2>1, <2>2, RaceAssumption DEF ScanCallBack
  <2> DEFINE thr == obstacle_ticks_threshold
  <2>a. /\ incoming_obstacle_ticks' \in {Count(incoming_obstacle_ticks, thr), 0}
        /\ seen' \in {Count(seen, thr), 0}
    BY <1>6, Zenon DEF ScanCallBack, Ticks
  <2>b. thr \in Nat /\ incoming_obstacle_ticks \in 0..thr + 1 /\ seen \in 0..thr + 1
    BY RaceAssumption
  <2>c. /\ Count(incoming_obstacle_ticks, thr) \in 0..thr + 1
        /\ Count(seen, thr) \in 0..thr + 1
    BY <2>b, CountType
  <2>5. incoming_obstacle_ticks' \in 0..thr + 1
    BY <2>a, <2>b, <2>c
  <2>6. seen' \in 0..thr + 1
    BY <2>a, <2>b, <2>c
  <2>7. seenLongest' \in 0..obstacle_ticks_threshold + 1
    BY <1>6, <2>6 DEF ScanCallBack, Longer
  <2>8. end_of_course' \in BOOLEAN
    BY <1>6, <2>5, RaceAssumption DEF ScanCallBack, EndOfCourse
  <2>9. Command(Head(scans).desired) \in Twist
    BY <2>3, ZeroTwist DEF Command
  <2>10. cmd_vel' \in Seq(Twist) /\ Len(cmd_vel') <= QueueSize
    BY <1>6, <2>9, DeliverFacts, RaceAssumption DEF ScanCallBack
  <2> QED BY <1>6, <2>2, <2>4, <2>5, <2>6, <2>7, <2>8, <2>10 DEF ScanCallBack, outside, alarms
<1>7. CASE TwistCallback
  <2>1. driven' \in Twist /\ cmd_vel' \in Seq(Twist) /\ Len(cmd_vel') <= QueueSize
    BY <1>7, HandleFacts, RaceAssumption DEF TwistCallback
  <2> QED BY <1>7, <2>1 DEF TwistCallback, outside, counters, history, alarms
<1>8. CASE UNCHANGED vars
  BY <1>8 DEF vars, outside, counters, history, alarms
<1> QED BY <1>1, <1>2, <1>3, <1>4, <1>5, <1>6, <1>7, <1>8 DEF Next

-----------------------------------------------------------------------------
\* The commands the car may be given: none but to stop before enough green frames.
Allowed == IF greens >= minimum_green_recognised_count THEN Twist ELSE {Zero}

\* What the node knows of the light: it has not counted, and will not count, more green
\* frames than were sent.
Counted == \/ greens > minimum_green_recognised_count
           \/ green_count_recognised + HowMany(lights) <= greens
Permitted == driven \in Allowed /\ cmd_vel \in Seq(Allowed)

\* What it knows, and will know, of the wall: unless a scan without a collision has been
\* dropped, its counter will have run up to no more than r[j] when it has handled the
\* j-th of the scans that wait, and all that is no more than what was sent.
Foretells(r, q, ticks) ==
    /\ ticks <= r[0]
    /\ \A j \in 1..Len(q) : q[j].collision => Count(r[j - 1], obstacle_ticks_threshold) <= r[j]
Foreseen ==
    ~missed => \E r \in [0..Len(scans) -> 0..obstacle_ticks_threshold + 1] :
                 /\ Foretells(r, scans, incoming_obstacle_ticks)
                 /\ r[Len(scans)] <= row /\ \A j \in 0..Len(scans) : r[j] <= rowLongest
SentEnough == end_of_course /\ ~missed => rowLongest > obstacle_ticks_threshold

\* Its counter is the history of what it handled, and its latch remembers it.
Latched == /\ incoming_obstacle_ticks = seen
           /\ end_of_course <=> seenLongest > obstacle_ticks_threshold
Stopped == end_of_course => Newest(cmd_vel, driven) = Zero

IInv == TypeOK /\ Counted /\ Permitted /\ Foreseen /\ SentEnough /\ Latched /\ Stopped

LEMMA InitInv == Init => IInv
<1> SUFFICES ASSUME Init PROVE IInv
  OBVIOUS
<1> USE DEF Init
<1>1. TypeOK
  <2>1. light \in BOOLEAN /\ wall \in BOOLEAN /\ end_of_course \in BOOLEAN
    BY Zenon
  <2>2. /\ lights \in Seq(BOOLEAN) /\ Len(lights) <= QueueSize
        /\ scans \in Seq([collision : BOOLEAN, desired : Desired])
        /\ Len(scans) <= QueueSize
    <3> DEFINE S == [collision : BOOLEAN, desired : Desired]
    <3> HIDE DEF S
    <3>1. lights = <<>> /\ scans = <<>>
      BY Zenon
    <3>2. <<>> \in Seq(BOOLEAN) /\ <<>> \in Seq(S) /\ Len(<<>>) = 0
      OBVIOUS
    <3>3. QueueSize \in Nat \ {0}
      BY RaceAssumption
    <3> QED BY <3>1, <3>2, <3>3 DEF S
  <2>3. cmd_vel \in Seq(Twist) /\ Len(cmd_vel) <= QueueSize /\ driven \in Twist
    BY ZeroTwist, RaceAssumption
  <2>4. /\ \A n \in {green_count_recognised, greens} :
             n \in 0..Longer(minimum_green_recognised_count + 1, 0)
        /\ \A n \in {incoming_obstacle_ticks, row, rowLongest, seen, seenLongest} :
             n \in 0..obstacle_ticks_threshold + 1
        /\ missed \in BOOLEAN
    <3>1. obstacle_ticks_threshold \in Nat /\ Longer(minimum_green_recognised_count + 1, 0) \in Nat
      BY RaceAssumption DEF Longer
    <3>2. /\ {green_count_recognised, greens} = {0} /\ missed \in BOOLEAN
          /\ {incoming_obstacle_ticks, row, rowLongest, seen, seenLongest} = {0}
      OBVIOUS
    <3> QED BY <3>1, <3>2
  <2> QED BY <2>1, <2>2, <2>3, <2>4 DEF TypeOK
<1>2. HowMany(lights) = 0
  <2>1. Green(lights) = {}
    BY DEF Green
  <2> QED BY <2>1, FS_EmptySet DEF HowMany
<1>3. Counted
  BY <1>2 DEF Counted
<1>4. Permitted
  BY ZeroTwist DEF Permitted, Allowed
<1>5. Latched
  BY RaceAssumption DEF Latched
<1>6. Stopped /\ SentEnough
  BY DEF Stopped, SentEnough
<1>7. Foreseen
  <2> DEFINE r == [j \in 0..0 |-> 0]
  <2>1. scans = <<>> /\ Len(scans) = 0 /\ incoming_obstacle_ticks = 0 /\ row = 0 /\ rowLongest = 0
    OBVIOUS
  <2>2. 0 \in 0..obstacle_ticks_threshold + 1
    BY RaceAssumption
  <2>3. r \in [0..0 -> 0..obstacle_ticks_threshold + 1] /\ r[0] = 0 /\ \A j \in 0..0 : r[j] = 0
    BY <2>2
  <2>4. Foretells(r, scans, incoming_obstacle_ticks)
    BY <2>1, <2>3 DEF Foretells
  <2> HIDE DEF r
  <2> QED BY <2>1, <2>3, <2>4 DEF Foreseen
<1> QED BY <1>1, <1>3, <1>4, <1>5, <1>6, <1>7 DEF IInv

\* While green frames come in, commands once permitted stay so.
LEMMA AllowedGrows ==
    ASSUME TypeOK, TypeOK', greens' >= greens
    PROVE  Allowed \subseteq Allowed' /\ Seq(Allowed) \subseteq Seq(Allowed')
<1>1. Allowed \subseteq Allowed'
  <2>1. greens \in Nat /\ greens' \in Nat /\ minimum_green_recognised_count \in Int
    BY RaceAssumption DEF TypeOK
  <2>2. greens >= minimum_green_recognised_count
          => greens' >= minimum_green_recognised_count
    BY <2>1
  <2> QED BY <2>2, ZeroTwist DEF Allowed
<1> DEFINE A == Allowed
           B == Allowed'
<1>2. \A q \in Seq(A) : q \in Seq(B)
  <2> HIDE DEF A, B
  <2>1. A \subseteq B
    BY <1>1 DEF A, B
  <2> QED BY <2>1
<1> QED BY <1>1, <1>2

LEMMA FrameStep == IInv /\ TypeOK' /\ Frame => IInv'
<1> SUFFICES ASSUME IInv, TypeOK', Frame PROVE IInv'
  OBVIOUS
<1>1. /\ lights \in Seq(BOOLEAN) /\ light \in BOOLEAN
      /\ greens \in Nat /\ green_count_recognised \in Nat /\ greens' \in Nat
      /\ minimum_green_recognised_count \in Int
  BY RaceAssumption DEF IInv, TypeOK
<1>2. greens' >= greens
  BY <1>1 DEF Frame, Count
<1>3. Counted'
  <2>1. /\ lights' = Deliver(lights, light, QueueSize)
        /\ UNCHANGED green_count_recognised
    BY DEF Frame, counters
  <2> DEFINE more == HowMany(lights')
  <2>2. /\ HowMany(lights) \in Nat /\ more \in Nat
        /\ more <= (IF light = TRUE THEN HowMany(lights) + 1 ELSE HowMany(lights))
    BY <1>1, <2>1, GreenDeliver, GreenFinite DEF TypeOK
  <2> HIDE DEF more
  <2>3. CASE light = TRUE
    <3>1. more <= HowMany(lights) + 1
      BY <2>2, <2>3
    <3>2. greens' = Count(greens, minimum_green_recognised_count)
      BY <2>3, Zenon DEF Frame
    <3> QED BY <1>1, <2>1, <2>2, <3>1, <3>2 DEF IInv, Counted, Count, more
  <2>4. CASE light = FALSE
    <3>1. more <= HowMany(lights)
      BY <2>2, <2>4
    <3>2. greens' = greens
      BY <2>4, Zenon DEF Frame
    <3> QED BY <1>1, <2>1, <2>2, <3>1, <3>2 DEF IInv, Counted, more
  <2> QED BY <1>1, <2>3, <2>4
<1>4. Permitted'
  BY <1>2, AllowedGrows DEF IInv, Permitted, Frame
<1>5. Latched' /\ Stopped' /\ Foreseen' /\ SentEnough'
  BY DEF IInv, Latched, Stopped, Foreseen, SentEnough, Foretells, Frame, counters, alarms
<1> QED BY <1>3, <1>4, <1>5 DEF IInv

LEMMA GreenLightStep == IInv /\ TypeOK' /\ GreenLightCallBack => IInv'
<1> SUFFICES ASSUME IInv, TypeOK', GreenLightCallBack PROVE IInv'
  OBVIOUS
<1>1. /\ lights \in Seq(BOOLEAN) /\ lights # <<>> /\ Head(lights) \in BOOLEAN
      /\ greens \in Nat /\ green_count_recognised \in Nat
      /\ minimum_green_recognised_count \in Int
  <2>1. lights \in Seq(BOOLEAN) /\ lights # <<>>
    BY Zenon DEF IInv, TypeOK, GreenLightCallBack
  <2>2. Head(lights) \in BOOLEAN
    BY <2>1, HandleFacts
  <2>3. /\ greens \in Nat /\ green_count_recognised \in Nat
        /\ minimum_green_recognised_count \in Int
    BY RaceAssumption DEF IInv, TypeOK
  <2> QED BY <2>1, <2>2, <2>3
<1>2. lights' = Tail(lights) /\ greens' = greens
  BY DEF GreenLightCallBack, history
<1>3. /\ HowMany(lights) \in Nat /\ HowMany(lights') \in Nat
      /\ HowMany(lights') <= HowMany(lights)
      /\ Head(lights) = TRUE => HowMany(lights') + 1 <= HowMany(lights)
  <2>1. lights' \in Seq(BOOLEAN)
    BY DEF TypeOK
  <2> QED BY <1>1, <1>2, <2>1, GreenTail, GreenFinite
<1>a. Counted
  BY DEF IInv
<1>b. /\ greens \in Nat /\ green_count_recognised \in Nat
      /\ minimum_green_recognised_count \in Int
      /\ HowMany(lights) \in Nat /\ HowMany(lights') \in Nat
      /\ HowMany(lights') <= HowMany(lights)
  BY <1>1, <1>3
<1>4. Counted'
  <2>1. CASE Head(lights) = TRUE
    <3>1. green_count_recognised'
            = Count(green_count_recognised, minimum_green_recognised_count)
      BY <2>1, Zenon DEF GreenLightCallBack
    <3>2. HowMany(lights') + 1 <= HowMany(lights)
      BY <1>3, <2>1
    <3> QED BY <1>a, <1>b, <1>2, <3>1, <3>2 DEF Counted, Count
  <2>2. CASE Head(lights) = FALSE
    <3>1. green_count_recognised' = green_count_recognised
      BY <2>2, Zenon DEF GreenLightCallBack
    <3> QED BY <1>a, <1>b, <1>2, <3>1 DEF Counted
  <2> QED BY <1>1, <2>1, <2>2
<1>5. Permitted'
  BY <1>2 DEF IInv, Permitted, Allowed, GreenLightCallBack
<1>6. Latched' /\ Stopped' /\ Foreseen' /\ SentEnough'
  BY DEF IInv, Latched, Stopped, Foreseen, SentEnough, Foretells, GreenLightCallBack, history, alarms
<1> QED BY <1>4, <1>5, <1>6 DEF IInv

LEMMA ScanStep == IInv /\ TypeOK' /\ ScanCallBack => IInv'
<1> SUFFICES ASSUME IInv, TypeOK', ScanCallBack PROVE IInv'
  OBVIOUS
<1> DEFINE c == Command(Head(scans).desired)
           thr == obstacle_ticks_threshold
<1>1. /\ scans' = Tail(scans) /\ cmd_vel' = Deliver(cmd_vel, c, QueueSize)
      /\ UNCHANGED <<lights, green_count_recognised, driven, greens>>
  BY DEF ScanCallBack
<1>2. /\ greens \in Nat /\ green_count_recognised \in Nat /\ HowMany(lights) \in Nat
      /\ minimum_green_recognised_count \in Int /\ thr \in Nat
      /\ {seen, seenLongest, seen', seenLongest', incoming_obstacle_ticks'} \subseteq Nat
      /\ end_of_course \in BOOLEAN /\ end_of_course' \in BOOLEAN
  BY RaceAssumption, GreenFinite DEF IInv, TypeOK
<1>3. Counted'
  BY <1>1 DEF IInv, Counted
<1>4. Latched'
  <2>1. incoming_obstacle_ticks' = seen'
    BY Zenon DEF ScanCallBack, Ticks, IInv, Latched
  <2>2. /\ end_of_course' <=> end_of_course \/ incoming_obstacle_ticks' > thr
        /\ end_of_course <=> seenLongest > thr
        /\ seenLongest' = Longer(seen', seenLongest)
    BY DEF ScanCallBack, EndOfCourse, IInv, Latched
  <2> QED BY <1>2, <2>1, <2>2 DEF Latched, Longer
<1>5. c \in Allowed /\ (end_of_course' => c = Zero)
  <2>1. Head(scans).desired \in Twist
    <3>1. scans \in Seq([collision : BOOLEAN, desired : Desired]) /\ scans # <<>>
      BY DEF IInv, TypeOK, ScanCallBack
    <3> DEFINE S == [collision : BOOLEAN, desired : Desired]
    <3>2. Head(scans) \in S
      <4> HIDE DEF S
      <4> QED BY <3>1, HandleFacts DEF S
    <3> QED BY <3>2, ZeroTwist
  <2>2. green_count_recognised >= minimum_green_recognised_count
          => greens >= minimum_green_recognised_count
    BY <1>2 DEF IInv, Counted
  <2> QED BY <1>2, <2>1, <2>2, ZeroTwist DEF Command, Allowed
<1>6. /\ cmd_vel \in Seq(Allowed) /\ Len(cmd_vel) <= QueueSize
      /\ QueueSize \in Nat \ {0}
  BY RaceAssumption DEF IInv, Permitted, TypeOK
<1>7. /\ cmd_vel' \in Seq(Allowed) /\ cmd_vel' # <<>>
      /\ cmd_vel'[Len(cmd_vel')] = c
  <2> DEFINE S == Allowed
             q == Deliver(cmd_vel, c, QueueSize)
  <2>1. c \in S /\ cmd_vel \in Seq(S) /\ Len(cmd_vel) <= QueueSize /\ QueueSize \in Nat \ {0}
    BY <1>5, <1>6
  <2>2. cmd_vel' = q
    BY <1>1
  <2> HIDE DEF S, c
  <2>3. q \in Seq(S) /\ q # <<>> /\ q[Len(q)] = c
    BY <2>1, DeliverFacts
  <2> HIDE DEF q
  <2> QED BY <2>2, <2>3 DEF S
<1>8. Permitted'
  BY <1>1, <1>7 DEF IInv, Permitted, Allowed
<1>9. Stopped'
  BY <1>5, <1>7 DEF Stopped, Newest
<1>10. Foreseen' /\ SentEnough'
  <2>1. UNCHANGED <<missed, row, rowLongest>>
    BY DEF ScanCallBack, alarms
  <2> SUFFICES ASSUME ~missed PROVE Foreseen' /\ (end_of_course' => rowLongest > thr)
    BY <2>1 DEF Foreseen, SentEnough
  <2>2. PICK r \in [0..Len(scans) -> 0..thr + 1] :
          /\ Foretells(r, scans, incoming_obstacle_ticks)
          /\ r[Len(scans)] <= row /\ \A j \in 0..Len(scans) : r[j] <= rowLongest
    BY DEF IInv, Foreseen
  <2> DEFINE S == [collision : BOOLEAN, desired : Desired]
             n == Len(scans) - 1
             s == [j \in 0..n |-> r[j + 1]]
  <2>3. scans \in Seq(S) /\ scans # <<>>
    BY DEF IInv, TypeOK, ScanCallBack
  <2> HIDE DEF S
  <2>4. /\ n \in Nat /\ Len(scans) = n + 1 /\ Len(scans') = n
        /\ Head(scans) = scans[1] /\ \A j \in 1..n : scans'[j] = scans[j + 1]
    BY <1>1, <2>3, EmptySeq
  <2> HIDE DEF n
  <2>5. \A j \in 0..n : s[j] = r[j + 1] /\ j + 1 \in 0..n + 1
    BY <2>4
  <2>6. s \in [0..n -> 0..thr + 1]
    BY <2>2, <2>4
  <2> HIDE DEF s
  <2>7. /\ incoming_obstacle_ticks <= r[0] /\ r[0] \in Nat /\ r[1] \in Nat
        /\ incoming_obstacle_ticks \in Nat
        /\ Head(scans).collision => Count(r[0], thr) <= r[1]
    <3>1. 1 \in 1..n + 1 /\ 1 - 1 = 0 /\ 0 \in 0..n + 1 /\ 1 \in 0..n + 1
      BY <2>4
    <3>2. scans[1].collision => Count(r[1 - 1], thr) <= r[1]
      BY <2>2, <2>4, <3>1 DEF Foretells
    <3>3. r[0] \in 0..thr + 1 /\ r[1] \in 0..thr + 1
      BY <2>2, <2>4, <3>1
    <3> QED BY <1>2, <2>2, <2>4, <3>1, <3>2, <3>3 DEF Foretells, IInv, TypeOK
  <2>8. incoming_obstacle_ticks' <= s[0]
    <3>1. s[0] = r[1]
      BY <2>4, <2>5
    <3>2. incoming_obstacle_ticks' = IF Head(scans).collision THEN Count(incoming_obstacle_ticks, thr) ELSE 0
      BY Zenon DEF ScanCallBack, Ticks
    <3>3. CASE Head(scans).collision
      <4>1. incoming_obstacle_ticks' = Count(incoming_obstacle_ticks, thr)
        BY <3>2, <3>3, Zenon
      <4>2. Count(r[0], thr) <= r[1]
        BY <2>7, <3>3, Zenon
      <4> QED BY <1>2, <2>7, <3>1, <4>1, <4>2 DEF Count
    <3>4. CASE ~Head(scans).collision
      <4>1. incoming_obstacle_ticks' = 0
        BY <3>2, <3>4, Zenon
      <4> QED BY <2>7, <3>1, <4>1
    <3> QED BY <3>3, <3>4
  <2>9. ASSUME NEW j \in 1..n, scans'[j].collision PROVE Count(s[j - 1], thr) <= s[j]
    <3>1. j + 1 \in 1..n + 1 /\ j - 1 \in 0..n /\ j \in 0..n /\ (j + 1) - 1 = j /\ (j - 1) + 1 = j
      BY <2>4
    <3>2. scans[j + 1].collision
      BY <2>4, <2>9
    <3>3. Count(r[(j + 1) - 1], thr) <= r[j + 1]
      BY <2>2, <2>4, <3>1, <3>2 DEF Foretells
    <3>4. s[j - 1] = r[j] /\ s[j] = r[j + 1]
      BY <2>5, <3>1
    <3> QED BY <3>1, <3>3, <3>4
  <2>10. Foretells(s, scans', incoming_obstacle_ticks')
    BY <2>4, <2>8, <2>9 DEF Foretells
  <2>11. s[n] <= row' /\ \A j \in 0..n : s[j] <= rowLongest'
    BY <2>1, <2>2, <2>4, <2>5
  <2>12. Foreseen'
    BY <2>4, <2>6, <2>10, <2>11 DEF Foreseen
  <2>13. end_of_course' => rowLongest > thr
    <3>1. end_of_course' <=> end_of_course \/ incoming_obstacle_ticks' > thr
      BY DEF ScanCallBack, EndOfCourse
    <3>2. end_of_course => rowLongest > thr
      BY DEF IInv, SentEnough
    <3>3. s[0] \in 0..thr + 1 /\ s[0] <= rowLongest /\ rowLongest \in Nat
      <4>1. 0 \in 0..n
        BY <2>4
      <4>2. rowLongest \in Nat
        BY <1>2 DEF IInv, TypeOK
      <4> QED BY <2>1, <2>6, <2>11, <4>1, <4>2
    <3> QED BY <1>2, <2>8, <3>1, <3>2, <3>3
  <2> QED BY <2>12, <2>13
<1> QED BY <1>3, <1>4, <1>8, <1>9, <1>10 DEF IInv

\* A scan is sent, and perhaps the oldest that waits is dropped for it.
LEMMA SendStep ==
    ASSUME IInv, TypeOK', NEW t \in Desired, Scan(t)
    PROVE  IInv'
<1> DEFINE thr == obstacle_ticks_threshold
           S == [collision : BOOLEAN, desired : Desired]
           e == [collision |-> wall, desired |-> t]
<1>1. /\ UNCHANGED <<lights, green_count_recognised, incoming_obstacle_ticks, end_of_course,
                     cmd_vel, driven, greens, seen, seenLongest>>
      /\ scans' = Deliver(scans, e, QueueSize)
      /\ row' = (IF wall THEN Count(row, thr) ELSE 0) /\ rowLongest' = Longer(row', rowLongest)
      /\ missed' <=> missed \/ (Len(scans) = QueueSize /\ ~Head(scans).collision)
  BY DEF Scan, counters
<1>2. /\ scans \in Seq(S) /\ Len(scans) <= QueueSize /\ e \in S /\ wall \in BOOLEAN
      /\ QueueSize \in Nat \ {0} /\ thr \in Nat /\ incoming_obstacle_ticks \in Nat
      /\ {row, row', rowLongest, rowLongest'} \subseteq 0..thr + 1
  BY RaceAssumption DEF IInv, TypeOK
<1>3. Counted' /\ Permitted' /\ Latched' /\ Stopped'
  BY <1>1 DEF IInv, Counted, Permitted, Allowed, Latched, Stopped
<1>4. e.collision = wall
  OBVIOUS
<1> HIDE DEF S, e
<1>5. /\ rowLongest' >= rowLongest /\ rowLongest' >= row'
  BY <1>1, <1>2, LongerType
<1>6. SentEnough'
  <2> SUFFICES ASSUME end_of_course, ~missed PROVE rowLongest' > thr
    BY <1>1 DEF SentEnough
  <2>1. rowLongest > thr
    BY DEF IInv, SentEnough
  <2> QED BY <1>2, <1>5, <2>1
<1>7. ASSUME NEW q \in Seq(S), NEW r \in [0..Len(q) -> 0..thr + 1],
             Foretells(r, q, incoming_obstacle_ticks),
             r[Len(q)] <= row, \A j \in 0..Len(q) : r[j] <= rowLongest,
             scans' = Append(q, e)
      PROVE  Foreseen'
  <2> DEFINE n == Len(q)
             s == [j \in 0..n + 1 |-> IF j <= n THEN r[j] ELSE row']
  <2>1. /\ n \in Nat /\ Len(scans') = n + 1 /\ scans'[n + 1] = e
        /\ \A j \in 1..n : scans'[j] = q[j]
    BY <1>2, <1>7, AppendProperties
  <2> HIDE DEF n
  <2>2. /\ s \in [0..n + 1 -> 0..thr + 1] /\ s[n + 1] = row' /\ \A j \in 0..n : s[j] = r[j]
    <3>1. \A j \in 0..n : r[j] \in 0..thr + 1
      BY <1>7 DEF n
    <3>2. row' \in 0..thr + 1
      BY <1>2
    <3> QED BY <2>1, <3>1, <3>2
  <2> HIDE DEF s
  <2>3. incoming_obstacle_ticks <= s[0]
    BY <1>7, <2>1, <2>2 DEF Foretells
  <2>4. ASSUME NEW j \in 1..n + 1, scans'[j].collision PROVE Count(s[j - 1], thr) <= s[j]
    <3>1. CASE j <= n
      <4>1. j \in 1..n /\ j \in 0..n /\ j - 1 \in 0..n
        BY <2>1, <3>1
      <4>2. q[j].collision
        BY <2>1, <2>4, <4>1
      <4>3. Count(r[j - 1], thr) <= r[j]
        BY <1>7, <4>1, <4>2 DEF Foretells, n
      <4> QED BY <2>2, <4>1, <4>3
    <3>2. CASE j = n + 1
      <4>1. n \in 0..n /\ j - 1 = n
        BY <2>1, <3>2
      <4>2. wall
        BY <1>4, <2>1, <2>4, <3>2
      <4>3. s[j - 1] = r[n] /\ s[j] = row' /\ row' = Count(row, thr)
        BY <1>1, <2>2, <3>2, <4>1, <4>2
      <4>4. r[n] \in 0..thr + 1 /\ r[n] <= row
        BY <1>7, <4>1 DEF n
      <4> QED BY <1>2, <4>3, <4>4 DEF Count
    <3> QED BY <2>1, <3>1, <3>2
  <2>5. Foretells(s, scans', incoming_obstacle_ticks)
    BY <2>1, <2>3, <2>4 DEF Foretells
  <2>6. ASSUME NEW j \in 0..n + 1 PROVE s[j] <= rowLongest'
    <3>1. CASE j = n + 1
      BY <1>2, <1>5, <2>2, <3>1
    <3>2. CASE j # n + 1
      <4>1. j \in 0..n
        BY <2>1, <3>2
      <4>2. r[j] \in 0..thr + 1 /\ r[j] <= rowLongest
        BY <1>7, <4>1 DEF n
      <4> QED BY <1>2, <1>5, <2>2, <4>1, <4>2
    <3> QED BY <3>1, <3>2
  <2>7. s[n + 1] <= row'
    BY <1>2, <2>2
  <2> QED BY <1>1, <2>1, <2>2, <2>5, <2>6, <2>7 DEF Foreseen
<1>8. Foreseen'
  <2> SUFFICES ASSUME ~missed' PROVE Foreseen'
    BY DEF Foreseen
  <2>1. PICK r \in [0..Len(scans) -> 0..thr + 1] :
          /\ Foretells(r, scans, incoming_obstacle_ticks)
          /\ r[Len(scans)] <= row /\ \A j \in 0..Len(scans) : r[j] <= rowLongest
    BY <1>1 DEF IInv, Foreseen
  <2>2. CASE Len(scans) < QueueSize
    <3>1. scans' = Append(scans, e)
      BY <1>1, <2>2 DEF Deliver
    <3> QED BY <1>2, <1>7, <2>1, <3>1
  <2>3. CASE ~(Len(scans) < QueueSize)
    <3> DEFINE q == Tail(scans)
               n == Len(scans) - 1
               s == [j \in 0..n |-> r[j + 1]]
    <3>1. scans' = Append(q, e) /\ scans # <<>> /\ Len(scans) = QueueSize
      BY <1>1, <1>2, <2>3 DEF Deliver
    <3>2. Head(scans).collision
      BY <1>1, <3>1
    <3>3. /\ n \in Nat /\ Len(scans) = n + 1 /\ q \in Seq(S) /\ Len(q) = n
          /\ Head(scans) = scans[1] /\ \A j \in 1..n : q[j] = scans[j + 1]
      BY <1>2, <3>1, EmptySeq
    <3> HIDE DEF n, q
    <3>4. s \in [0..n -> 0..thr + 1] /\ \A j \in 0..n : s[j] = r[j + 1] /\ j + 1 \in 0..n + 1
      BY <2>1, <3>3
    <3> HIDE DEF s
    <3>5. incoming_obstacle_ticks <= s[0]
      <4>1. 1 \in 1..n + 1 /\ 1 - 1 = 0 /\ 0 \in 0..n + 1 /\ 1 \in 0..n + 1 /\ 0 \in 0..n
        BY <3>3
      <4>2. scans[1].collision
        BY <3>2, <3>3
      <4>3. Count(r[1 - 1], thr) <= r[1]
        BY <2>1, <3>3, <4>1, <4>2 DEF Foretells
      <4>4. r[0] \in 0..thr + 1 /\ r[1] \in 0..thr + 1
        BY <2>1, <3>3, <4>1
      <4>5. incoming_obstacle_ticks <= r[0] /\ s[0] = r[1]
        BY <2>1, <3>4, <4>1 DEF Foretells
      <4> QED BY <1>2, <4>1, <4>3, <4>4, <4>5 DEF Count
    <3>6. ASSUME NEW j \in 1..n, q[j].collision PROVE Count(s[j - 1], thr) <= s[j]
      <4>1. j + 1 \in 1..n + 1 /\ j - 1 \in 0..n /\ j \in 0..n /\ (j + 1) - 1 = j /\ (j - 1) + 1 = j
        BY <3>3
      <4>2. scans[j + 1].collision
        BY <3>3, <3>6
      <4>3. Count(r[(j + 1) - 1], thr) <= r[j + 1]
        BY <2>1, <3>3, <4>1, <4>2 DEF Foretells
      <4>4. s[j - 1] = r[j] /\ s[j] = r[j + 1]
        BY <3>4, <4>1
      <4> QED BY <4>1, <4>3, <4>4
    <3>7. Foretells(s, q, incoming_obstacle_ticks)
      BY <3>3, <3>5, <3>6 DEF Foretells
    <3>8. s[n] <= row /\ \A j \in 0..n : s[j] <= rowLongest
      BY <2>1, <3>3, <3>4
    <3> QED BY <1>7, <3>1, <3>3, <3>4, <3>7, <3>8
  <2> QED BY <2>2, <2>3
<1> QED BY <1>3, <1>6, <1>8 DEF IInv

LEMMA TwistStep == IInv /\ TypeOK' /\ TwistCallback => IInv'
<1> SUFFICES ASSUME IInv, TypeOK', TwistCallback PROVE IInv'
  OBVIOUS
<1>1. cmd_vel \in Seq(Allowed) /\ cmd_vel # <<>>
  BY DEF IInv, Permitted, TwistCallback
<1>2. /\ Head(cmd_vel) \in Allowed /\ Tail(cmd_vel) \in Seq(Allowed)
      /\ Newest(Tail(cmd_vel), Head(cmd_vel)) = Newest(cmd_vel, driven)
  BY <1>1, HandleFacts
<1>3. Permitted'
  BY <1>2 DEF Permitted, Allowed, TwistCallback, history
<1>4. Counted' /\ Latched' /\ Stopped' /\ Foreseen' /\ SentEnough'
  BY <1>2 DEF IInv, Counted, Latched, Stopped, Foreseen, SentEnough, Foretells, TwistCallback,
              counters, history, alarms
<1> QED BY <1>3, <1>4 DEF IInv

LEMMA StepInv == IInv /\ [Next]_vars => IInv'
<1> SUFFICES ASSUME IInv, [Next]_vars PROVE IInv'
  OBVIOUS
<1>0. TypeOK'
  BY TypeStep DEF IInv
<1> USE DEF Counted, Permitted, Allowed, Latched, Stopped, Foreseen, SentEnough, Foretells
<1>1. CASE LightChanges
  BY <1>0, <1>1 DEF IInv, LightChanges, counters, history, alarms
<1>2. CASE WallChanges
  BY <1>0, <1>2 DEF IInv, WallChanges, counters, history, alarms
<1>3. ASSUME NEW t \in Desired, Scan(t) PROVE IInv'
  BY <1>0, <1>3, SendStep
<1>4. CASE UNCHANGED vars
  BY <1>0, <1>4 DEF IInv, vars, counters, history, alarms
<1> QED
  BY <1>0, <1>1, <1>2, <1>3, <1>4, FrameStep, GreenLightStep, ScanStep, TwistStep DEF Next

\* Every variable keeps its type and its bound, for every threshold and queue size.
THEOREM Typing == Spec => []TypeOK
<1>1. Init => TypeOK
  BY InitInv DEF IInv
<1> QED BY <1>1, TypeStep, PTL DEF Spec

\* What the node counts was sent: the car moves only after enough green frames in all,
\* and the course is over only after enough collisions sent in a row, unless the queue
\* dropped a scan between them; and this for every queue size and every threshold, the -1
\* of drag_race.launch, which asks for no green frame, included (greenLightCallBack,
\* scanCallBack).
THEOREM AlarmsAreReal == Spec => []NoFalseAlarm
<1>1. IInv => NoFalseAlarm
  <2> SUFFICES ASSUME IInv PROVE NoFalseAlarm
    OBVIOUS
  <2>1. driven # Zero => greens >= minimum_green_recognised_count
    BY DEF IInv, Permitted, Allowed
  <2>2. end_of_course /\ ~missed => rowLongest > obstacle_ticks_threshold
    BY DEF IInv, SentEnough
  <2> QED BY <2>1, <2>2 DEF NoFalseAlarm
<1> QED BY <1>1, InitInv, StepInv, PTL DEF Spec

\* From the scan that ends the course on, the newest command is to stop, so that no
\* other can come after it (scanCallBack).
THEOREM EndStaysStop == Spec => []EndIsStop
<1>1. IInv => EndIsStop
  BY DEF IInv, Latched, Stopped, EndIsStop
<1> QED BY <1>1, InitInv, StepInv, PTL DEF Spec

-----------------------------------------------------------------------------
(***************************************************************************)
(* The cones that PointGroupings splits into groups.                       *)
(***************************************************************************)

\* A sequence that lists a set, with every element once.
Lists(s, A) == IsInjective(s) /\ ToSet(s) = A

LEMMA ListsFew ==
    ASSUME NEW x
    PROVE  Lists(<<>>, {}) /\ Lists(<<x>>, {x})
<1>1. Lists(<<>>, {})
  BY DEF Lists, IsInjective, ToSet
<1>2. DOMAIN <<x>> = {1} /\ <<x>>[1] = x
  OBVIOUS
<1>3. Lists(<<x>>, {x})
  <2> DEFINE s == <<x>>
  <2>1. DOMAIN s = {1} /\ s[1] = x
    BY <1>2
  <2> HIDE DEF s
  <2>2. Lists(s, {x})
    BY <2>1 DEF Lists, IsInjective, ToSet
  <2> QED BY <2>2 DEF s
<1> QED BY <1>1, <1>3

LEMMA ListsConcat ==
    ASSUME NEW S, NEW s \in Seq(S), NEW t \in Seq(S), NEW A, NEW B,
           Lists(s, A), Lists(t, B), A \cap B = {}
    PROVE  Lists(s \o t, A \cup B)
<1> DEFINE r == s \o t
           m == Len(s)
           n == Len(t)
<1>1. /\ m \in Nat /\ n \in Nat /\ DOMAIN r = 1..m + n /\ DOMAIN s = 1..m /\ DOMAIN t = 1..n
      /\ \A k \in 1..m + n : r[k] = IF k <= m THEN s[k] ELSE t[k - m]
  BY ConcatProperties
<1>2. (\A k \in 1..m : s[k] \in A) /\ (\A k \in 1..n : t[k] \in B)
  BY <1>1 DEF Lists, ToSet
<1>3. /\ \A x \in A : \E k \in 1..m : s[k] = x
      /\ \A x \in B : \E k \in 1..n : t[k] = x
  BY <1>1 DEF Lists, ToSet
<1>4. (\A j, k \in 1..m : s[j] = s[k] => j = k) /\ (\A j, k \in 1..n : t[j] = t[k] => j = k)
  BY <1>1 DEF Lists, IsInjective
<1> HIDE DEF r, m, n
<1>5. \A k \in 1..m + n : (k \in 1..m /\ r[k] = s[k]) \/ (k - m \in 1..n /\ r[k] = t[k - m])
  BY <1>1
<1>6. ASSUME NEW j \in 1..m + n, NEW k \in 1..m + n, r[j] = r[k] PROVE j = k
  <2>1. CASE j \in 1..m /\ k \in 1..m
    <3>1. r[j] = s[j] /\ r[k] = s[k]
      BY <1>1, <2>1
    <3> QED BY <1>4, <1>6, <2>1, <3>1
  <2>2. CASE j \notin 1..m /\ k \notin 1..m
    <3>1. /\ j - m \in 1..n /\ k - m \in 1..n /\ r[j] = t[j - m] /\ r[k] = t[k - m]
          /\ j \in Int /\ k \in Int /\ m \in Int
      BY <1>1, <1>5, <2>2
    <3>2. j - m = k - m
      BY <1>4, <1>6, <3>1
    <3> QED BY <3>1, <3>2
  <2>3. CASE j \in 1..m /\ k \notin 1..m
    <3>1. r[j] = s[j] /\ k - m \in 1..n /\ r[k] = t[k - m]
      BY <1>1, <1>5, <2>3
    <3> QED BY <1>2, <1>6, <2>3, <3>1
  <2>4. CASE j \notin 1..m /\ k \in 1..m
    <3>1. r[k] = s[k] /\ j - m \in 1..n /\ r[j] = t[j - m]
      BY <1>1, <1>5, <2>4
    <3> QED BY <1>2, <1>6, <2>4, <3>1
  <2> QED BY <2>1, <2>2, <2>3, <2>4
<1>7. \A k \in 1..m + n : r[k] \in A \cup B
  BY <1>2, <1>5
<1>8. ASSUME NEW x \in A PROVE \E k \in 1..m + n : r[k] = x
  <2>1. PICK k \in 1..m : s[k] = x
    BY <1>3
  <2>2. k \in 1..m + n /\ r[k] = s[k]
    BY <1>1
  <2> QED BY <2>1, <2>2
<1>9. ASSUME NEW x \in B PROVE \E k \in 1..m + n : r[k] = x
  <2>1. PICK k \in 1..n : t[k] = x
    BY <1>3
  <2>2. k + m \in 1..m + n /\ ~(k + m <= m) /\ k + m - m = k
    BY <1>1
  <2>3. r[k + m] = t[k + m - m]
    BY <1>1, <2>2
  <2> QED BY <2>1, <2>2, <2>3
<1>10. IsInjective(r)
  BY <1>1, <1>6 DEF IsInjective
<1>11. ToSet(r) = A \cup B
  <2>1. ToSet(r) = {r[k] : k \in 1..m + n}
    BY <1>1 DEF ToSet
  <2>2. A \cup B \subseteq {r[k] : k \in 1..m + n}
    BY <1>8, <1>9
  <2>3. {r[k] : k \in 1..m + n} \subseteq A \cup B
    BY <1>7
  <2> QED BY <2>1, <2>2, <2>3
<1> QED BY <1>10, <1>11 DEF Lists, r

\* What is left of a list when one place is taken out of it.
LEMMA ListsOut ==
    ASSUME NEW S, NEW s \in Seq(S), NEW t \in Seq(S), NEW A, Lists(s, A),
           NEW k \in 1..Len(s), Len(t) = Len(s) - 1,
           \A j \in 1..Len(t) : t[j] = IF j < k THEN s[j] ELSE s[j + 1]
    PROVE  Lists(t, A \ {s[k]}) /\ s[k] \in A
<1> DEFINE m == Len(s)
           n == Len(t)
<1>1. /\ m \in Nat /\ n \in Nat /\ n = m - 1 /\ DOMAIN s = 1..m /\ DOMAIN t = 1..n
      /\ k \in 1..m /\ \A j \in 1..n : t[j] = IF j < k THEN s[j] ELSE s[j + 1]
  OBVIOUS
<1>2. /\ \A j \in 1..m : s[j] \in A
      /\ \A x \in A : \E j \in 1..m : s[j] = x
      /\ \A j, l \in 1..m : s[j] = s[l] => j = l
  BY <1>1 DEF Lists, ToSet, IsInjective
<1> DEFINE at(j) == IF j < k THEN j ELSE j + 1
<1>3. ASSUME NEW j \in 1..n PROVE at(j) \in 1..m /\ at(j) # k /\ t[j] = s[at(j)]
  BY <1>1
<1>4. ASSUME NEW j \in 1..n, NEW l \in 1..n, at(j) = at(l) PROVE j = l
  BY <1>1, <1>4
<1> HIDE DEF m, n
<1>5. ASSUME NEW x \in A, x # s[k] PROVE \E j \in 1..n : t[j] = x
  <2>1. PICK l \in 1..m : s[l] = x
    BY <1>2
  <2>2. CASE l < k
    <3>1. l \in 1..n /\ t[l] = s[l]
      BY <1>1, <2>2
    <3> QED BY <2>1, <3>1
  <2>3. CASE l > k
    <3>1. l - 1 \in 1..n /\ ~(l - 1 < k) /\ l - 1 + 1 = l
      BY <1>1, <2>3
    <3>2. t[l - 1] = s[l - 1 + 1]
      BY <1>1, <3>1
    <3> QED BY <2>1, <3>1, <3>2
  <2>4. l # k
    BY <1>5, <2>1
  <2> QED BY <1>1, <2>2, <2>3, <2>4
<1> HIDE DEF at
<1>6. \A j \in 1..n : t[j] \in A \ {s[k]}
  BY <1>1, <1>2, <1>3
<1>7. IsInjective(t)
  <2> SUFFICES ASSUME NEW j \in 1..n, NEW l \in 1..n, t[j] = t[l] PROVE j = l
    BY <1>1 DEF IsInjective
  <2>1. s[at(j)] = s[at(l)]
    BY <1>3
  <2>2. at(j) = at(l)
    BY <1>2, <1>3, <2>1
  <2> QED BY <1>4, <2>2
<1>8. ToSet(t) = A \ {s[k]}
  BY <1>1, <1>5, <1>6 DEF ToSet
<1> QED BY <1>1, <1>2, <1>7, <1>8 DEF Lists

LEMMA ListsTail ==
    ASSUME NEW S, NEW s \in Seq(S), s # <<>>, NEW A, Lists(s, A)
    PROVE  /\ Head(s) \in A /\ Head(s) \in S /\ Tail(s) \in Seq(S)
           /\ Lists(Tail(s), A \ {Head(s)})
<1> DEFINE t == Tail(s)
<1>1. /\ t \in Seq(S) /\ Len(s) \in Nat /\ Len(t) = Len(s) - 1 /\ Head(s) = s[1]
      /\ \A j \in 1..Len(t) : t[j] = s[j + 1]
  BY HeadTailProperties
<1>2. 1 \in 1..Len(s) /\ Head(s) \in S
  OBVIOUS
<1> HIDE DEF t
<1>3. \A j \in 1..Len(t) : t[j] = IF j < 1 THEN s[j] ELSE s[j + 1]
  BY <1>1
<1>4. Lists(t, A \ {s[1]}) /\ s[1] \in A
  BY <1>1, <1>2, <1>3, ListsOut
<1> QED BY <1>1, <1>2, <1>4 DEF t

LEMMA ListsFront ==
    ASSUME NEW S, NEW s \in Seq(S), s # <<>>, NEW A, Lists(s, A)
    PROVE  /\ Last(s) \in A /\ Last(s) \in S /\ Front(s) \in Seq(S)
           /\ Lists(Front(s), A \ {Last(s)})
<1> DEFINE t == SubSeq(s, 1, Len(s) - 1)
<1>1. Len(s) \in Nat /\ Len(s) \in 1..Len(s) /\ s[Len(s)] \in S
  OBVIOUS
<1>2. t \in Seq(S) /\ Len(t) = Len(s) - 1 /\ \A j \in 1..Len(t) : t[j] = s[j]
  <2>1. t \in Seq(S) /\ Len(t) = Len(s) - 1
    <3> DEFINE m == Len(s) - 1
    <3>1. m \in Nat /\ 1 \in 1..Len(s) + 1 /\ m \in 0..Len(s) /\ m - 1 + 1 = m
      BY <1>1
    <3> HIDE DEF m
    <3>2. SubSeq(s, 1, m) \in Seq(S) /\ Len(SubSeq(s, 1, m)) = m
      BY <3>1
    <3> QED BY <3>2 DEF m
  <2>2. ASSUME NEW j \in 1..Len(s) - 1 PROVE t[j] = s[j]
    <3>1. t[j] = s[1 + j - 1] /\ 1 + j - 1 = j
      BY <1>1
    <3> QED BY <3>1
  <2> QED BY <2>1, <2>2
<1> HIDE DEF t
<1>3. \A j \in 1..Len(t) : t[j] = IF j < Len(s) THEN s[j] ELSE s[j + 1]
  BY <1>1, <1>2
<1>4. Lists(t, A \ {s[Len(s)]}) /\ s[Len(s)] \in A
  BY <1>1, <1>2, <1>3, ListsOut
<1> QED BY <1>1, <1>2, <1>4 DEF t, Front, Last

LEMMA ListsRemove ==
    ASSUME NEW S, NEW s \in Seq(S), NEW k \in 1..Len(s), NEW A, Lists(s, A)
    PROVE  /\ s[k] \in A /\ s[k] \in S /\ RemoveAt(s, k) \in Seq(S)
           /\ Lists(RemoveAt(s, k), A \ {s[k]})
<1> DEFINE t == RemoveAt(s, k)
<1>1. /\ t \in Seq(S) /\ Len(t) = Len(s) - 1 /\ s[k] \in S
      /\ \A j \in 1..Len(t) : t[j] = IF j < k THEN s[j] ELSE s[j + 1]
  <2>1. /\ t \in Seq(S) /\ Len(t) = Len(s) - 1
        /\ \A j \in 1..Len(s) - 1 : t[j] = IF j < k THEN s[j] ELSE s[j + 1]
    BY RemoveAtIs
  <2>2. s[k] \in S
    BY ElementOfSeq
  <2> HIDE DEF t
  <2> QED BY <2>1, <2>2
<1> HIDE DEF t
<1>2. Lists(t, A \ {s[k]}) /\ s[k] \in A
  BY <1>1, ListsOut
<1> QED BY <1>1, <1>2 DEF t

\* What is near what, and the sets of cones that nothing cuts in two.
Nearby == {e \in Cones \X Cones : Near(e[1], e[2])}
Linked(near, A) == \A part \in (SUBSET A) \ {{}, A} : \E p \in part, q \in A \ part : <<p, q>> \in near

Current == IF i > 0 THEN {curr_point} ELSE {}
Grouping == IF closed THEN <<>> ELSE group
Filed == FlattenSeq(groups)

\* Every cone is in one place: not yet reached, on the stack, being visited, in the group
\* under construction or in a finished one.
Apart(P, V, C, G, F) ==
    /\ P \cap V = {} /\ P \cap C = {} /\ P \cap G = {} /\ P \cap F = {}
    /\ V \cap C = {} /\ V \cap G = {} /\ V \cap F = {}
    /\ C \cap G = {} /\ C \cap F = {} /\ G \cap F = {}
Places ==
    /\ Flat(Cones, groups, Filed)
    /\ IsInjective(points) /\ IsInjective(to_visit) /\ IsInjective(Grouping) /\ IsInjective(Filed)
    /\ Apart(ToSet(points), ToSet(to_visit), Current, ToSet(Grouping), ToSet(Filed))
    /\ ToSet(points) \cup ToSet(to_visit) \cup Current \cup ToSet(Grouping) \cup ToSet(Filed) = Cones
    /\ closed => to_visit = <<>> /\ i = 0
    /\ i > 0 => curr_point \in Cones

\* Whatever is reached of a group hangs together.
Reached == ToSet(to_visit) \cup Current \cup ToSet(Grouping)
Together ==
    /\ Linked(Nearby, Reached)
    /\ \A k \in DOMAIN groups : Linked(Nearby, ToSet(groups[k]))

\* Nothing is near the only cone of a group but the cones of earlier groups.
FarFrom(p, A) == \A q \in A : <<p, q>> \notin Nearby
FirstVisit == ~closed /\ i > 0 /\ to_visit = <<>> /\ group = <<>> =>
    \A j \in DOMAIN points : j < i => <<curr_point, points[j]>> \notin Nearby
OnlyOne == ~closed /\ i = 0 /\ to_visit = <<>> =>
    \A p \in Cones : group = <<p>> => FarFrom(p, ToSet(points))
SoloAhead == \A k \in DOMAIN groups : \A p \in Cones : groups[k] = <<p>> =>
    FarFrom(p, ToSet(points) \cup Reached)
SoloBetween == \A k, l \in DOMAIN groups : k < l => \A p \in Cones : groups[k] = <<p>> =>
    FarFrom(p, ToSet(groups[l]))
Solitude == FirstVisit /\ OnlyOne /\ SoloAhead /\ SoloBetween

GroupingsInv == GroupingsTypeOK /\ Places /\ Together /\ Solitude

LEMMA NearbySame == cones' = cones => Cones' = Cones /\ Nearby' = Nearby
BY DEF Cones, Nearby, Near

LEMMA NearbySymmetric ==
    ASSUME GroupingsTypeOK, NEW p, NEW q, <<p, q>> \in Nearby
    PROVE  p \in Cones /\ q \in Cones /\ <<q, p>> \in Nearby
<1>1. p \in Cones /\ q \in Cones /\ Near(p, q)
  BY DEF Nearby
<1>2. cones[p] \in Positions /\ cones[q] \in Positions
  BY <1>1 DEF GroupingsTypeOK, Cones
<1> DEFINE a == cones[p].x
           b == cones[q].x
           c == cones[p].y
           d == cones[q].y
<1>3. a \in Int /\ b \in Int /\ c \in Int /\ d \in Int
  BY <1>2, GroupingsAssumption
<1>4. (a - b) * (a - b) + (c - d) * (c - d) < Tolerance * Tolerance
  BY <1>1 DEF Near
<1> HIDE DEF a, b, c, d
<1>5. (b - a) * (b - a) + (d - c) * (d - c) < Tolerance * Tolerance
  <2>1. (b - a) * (b - a) = (a - b) * (a - b)
    BY <1>3
  <2>2. (d - c) * (d - c) = (c - d) * (c - d)
    BY <1>3
  <2> QED BY <1>4, <2>1, <2>2
<1>6. Near(q, p)
  BY <1>5 DEF Near, a, b, c, d
<1> QED BY <1>1, <1>6 DEF Nearby

\* What is near something in it can join a linked set.
LEMMA LinkedJoin ==
    ASSUME NEW near, NEW A, Linked(near, A), NEW c \in A, NEW x,
           <<c, x>> \in near, <<x, c>> \in near
    PROVE  Linked(near, A \cup {x})
<1> DEFINE B == A \cup {x}
<1>1. SUFFICES ASSUME NEW part \in SUBSET B, part # {}, part # B
               PROVE  \E p \in part, q \in B \ part : <<p, q>> \in near
  BY DEF Linked
<1> DEFINE rest == part \cap A
<1>2. CASE rest = {}
  <2>1. x \in part /\ c \in B \ part
    BY <1>1, <1>2
  <2> QED BY <2>1
<1>3. CASE rest = A
  <2>1. c \in part /\ x \in B \ part
    BY <1>1, <1>3
  <2> QED BY <2>1
<1>4. CASE rest # {} /\ rest # A
  <2>1. rest \in (SUBSET A) \ {{}, A}
    BY <1>4
  <2>2. PICK p \in rest, q \in A \ rest : <<p, q>> \in near
    BY <2>1 DEF Linked
  <2>3. p \in part /\ q \in B \ part
    BY <2>2
  <2> QED BY <2>2, <2>3
<1> QED BY <1>2, <1>3, <1>4

LEMMA LinkedOne == \A near, x : Linked(near, {x}) /\ Linked(near, {})
<1> SUFFICES ASSUME NEW near, NEW x PROVE Linked(near, {x}) /\ Linked(near, {})
  OBVIOUS
<1>1. (SUBSET {x}) \ {{}, {x}} = {}
  OBVIOUS
<1>2. (SUBSET {}) \ {{}, {}} = {}
  OBVIOUS
<1> QED BY <1>1, <1>2 DEF Linked

LEMMA GroupingsInitInv == GroupingsInit => GroupingsInv
<1> SUFFICES ASSUME GroupingsInit PROVE GroupingsInv
  OBVIOUS
<1>1. PICK n \in 0..MaxPoints : cones \in {f \in [1..n -> Positions] : IsInjective(f)}
  BY DEF GroupingsInit
<1>2. n \in Nat /\ cones \in Seq(Positions) /\ Cones = 1..n
  BY <1>1, GroupingsAssumption DEF Cones
<1>3. points = [k \in 1..n |-> k] /\ points \in Seq(Cones)
  BY <1>2 DEF GroupingsInit, Cones
<1>4. /\ to_visit = <<>> /\ curr_point = 0 /\ i = 0 /\ group = <<>> /\ groups = <<>>
      /\ closed = TRUE /\ to_visit \in Seq(Cones) /\ group \in Seq(Cones)
      /\ groups \in Seq(Seq(Cones)) /\ DOMAIN groups = {}
  BY DEF GroupingsInit
<1>5. GroupingsTypeOK
  BY <1>2, <1>3, <1>4 DEF GroupingsTypeOK
<1>6. Lists(<<>>, {})
  BY ListsFew
<1>7. Lists(points, Cones)
  BY <1>2, <1>3 DEF Lists, IsInjective, ToSet
<1>8. Flat(Cones, groups, <<>>)
  BY <1>4, FlatEmpty
<1>9. Filed = <<>>
  BY <1>4, <1>8, FlatIs DEF Filed
<1>10. Grouping = <<>> /\ Current = {}
  BY <1>4 DEF Grouping, Current
<1>11. Places
  BY <1>4, <1>6, <1>7, <1>8, <1>9, <1>10 DEF Places, Apart, Lists
<1>12. Reached = {}
  BY <1>4, <1>6, <1>10 DEF Reached, Lists
<1>13. Together
  BY <1>4, <1>12, LinkedOne DEF Together
<1>14. Solitude
  BY <1>4 DEF Solitude, FirstVisit, OnlyOne, SoloAhead, SoloBetween
<1> QED BY <1>5, <1>11, <1>13, <1>14 DEF GroupingsInv

LEMMA StartStep == GroupingsInv /\ Start => GroupingsInv'
<1> SUFFICES ASSUME GroupingsInv, Start PROVE GroupingsInv'
  OBVIOUS
<1> DEFINE x == Last(points)
           P == ToSet(points)
<1>1. GroupingsTypeOK /\ Places /\ Together /\ Solitude
  BY DEF GroupingsInv
<1>2. /\ closed /\ points # <<>> /\ closed' = FALSE /\ group' = <<>> /\ to_visit' = <<x>>
      /\ points' = Front(points) /\ cones' = cones /\ curr_point' = curr_point /\ i' = i
      /\ groups' = groups
  BY DEF Start
<1>3. Cones' = Cones /\ Nearby' = Nearby
  BY <1>2, NearbySame
<1>4. points \in Seq(Cones) /\ Lists(points, P)
  BY <1>1 DEF GroupingsTypeOK, Places, Lists
<1>5. x \in P /\ x \in Cones /\ points' \in Seq(Cones) /\ Lists(points', P \ {x})
  BY <1>2, <1>4, ListsFront
<1>6. /\ i = 0 /\ to_visit = <<>> /\ Lists(to_visit, {}) /\ Lists(to_visit', {x})
      /\ Lists(Grouping, {}) /\ Lists(Grouping', {}) /\ Current = {} /\ Current' = {}
      /\ Filed' = Filed
  BY <1>1, <1>2, ListsFew DEF Places, Grouping, Current, Filed
<1> HIDE DEF x, P
<1>7. GroupingsTypeOK'
  <2>1. to_visit' \in Seq(Cones) /\ group' \in Seq(Cones)
    BY <1>2, <1>5
  <2> QED BY <1>1, <1>2, <1>3, <1>5, <2>1 DEF GroupingsTypeOK
<1>8. Places'
  <2>1. /\ ToSet(points)' = P \ {x} /\ ToSet(to_visit)' = {x} /\ ToSet(to_visit) = {}
        /\ ToSet(Grouping) = {} /\ ToSet(Grouping)' = {} /\ P = ToSet(points)
        /\ IsInjective(points)' /\ IsInjective(to_visit)' /\ IsInjective(Grouping)'
    BY <1>5, <1>6 DEF Lists, P
  <2>2. Flat(Cones, groups, Filed)' /\ IsInjective(Filed)' /\ ToSet(Filed)' = ToSet(Filed)
    BY <1>1, <1>2, <1>3, <1>6 DEF Places
  <2>3. Apart(ToSet(points), ToSet(to_visit), Current, ToSet(Grouping), ToSet(Filed))'
    BY <1>1, <1>5, <1>6, <2>1, <2>2 DEF Places, Apart
  <2>4. (ToSet(points) \cup ToSet(to_visit) \cup Current \cup ToSet(Grouping) \cup ToSet(Filed) = Cones)'
    BY <1>1, <1>3, <1>5, <1>6, <2>1, <2>2 DEF Places
  <2>5. ~closed' /\ ~(i' > 0)
    BY <1>2, <1>6
  <2> QED BY <2>1, <2>2, <2>3, <2>4, <2>5 DEF Places
<1>9. Reached = {} /\ Reached' = {x}
  BY <1>6 DEF Reached, Lists
<1>10. Together'
  <2>1. Linked(Nearby, Reached)'
    BY <1>3, <1>9, LinkedOne
  <2> QED BY <1>1, <1>2, <1>3, <2>1 DEF Together
<1>11. Solitude'
  <2>1. ToSet(points)' \cup Reached' = ToSet(points) \cup Reached
    BY <1>5, <1>9 DEF Lists, P
  <2>2. SoloAhead'
    BY <1>1, <1>2, <1>3, <2>1 DEF Solitude, SoloAhead, FarFrom
  <2>3. SoloBetween'
    BY <1>1, <1>2, <1>3 DEF Solitude, SoloBetween, FarFrom
  <2>4. FirstVisit' /\ OnlyOne'
    <3>1. to_visit' # <<>>
      BY <1>2
    <3> QED BY <3>1 DEF FirstVisit, OnlyOne
  <2> QED BY <2>2, <2>3, <2>4 DEF Solitude
<1> QED BY <1>7, <1>8, <1>10, <1>11 DEF GroupingsInv

LEMMA VisitStep == GroupingsInv /\ Visit => GroupingsInv'
<1> SUFFICES ASSUME GroupingsInv, Visit PROVE GroupingsInv'
  OBVIOUS
<1> DEFINE x == Head(to_visit)
           V == ToSet(to_visit)
<1>1. GroupingsTypeOK /\ Places /\ Together /\ Solitude
  BY DEF GroupingsInv
<1>2. /\ ~closed /\ i = 0 /\ to_visit # <<>> /\ curr_point' = x /\ to_visit' = Tail(to_visit)
      /\ i' = 1 /\ cones' = cones /\ points' = points /\ group' = group /\ groups' = groups
      /\ closed' = closed
  BY DEF Visit
<1>3. Cones' = Cones /\ Nearby' = Nearby
  BY <1>2, NearbySame
<1>4. to_visit \in Seq(Cones) /\ Lists(to_visit, V)
  BY <1>1 DEF GroupingsTypeOK, Places, Lists
<1>5. x \in V /\ x \in Cones /\ to_visit' \in Seq(Cones) /\ Lists(to_visit', V \ {x})
  BY <1>2, <1>4, ListsTail
<1>6. /\ Grouping' = Grouping /\ Current = {} /\ Current' = {x} /\ Filed' = Filed
      /\ ToSet(points)' = ToSet(points)
  BY <1>2 DEF Grouping, Current, Filed
<1> HIDE DEF x
<1>7. GroupingsTypeOK'
  BY <1>1, <1>2, <1>3, <1>5 DEF GroupingsTypeOK
<1>8. ToSet(to_visit)' = V \ {x} /\ IsInjective(to_visit)'
  BY <1>5 DEF Lists
<1> HIDE DEF V
<1>9. V = ToSet(to_visit)
  BY DEF V
<1>10. Places'
  <2>1. Flat(Cones, groups, Filed)' /\ IsInjective(Filed)' /\ ToSet(Filed)' = ToSet(Filed)
    BY <1>1, <1>2, <1>3, <1>6 DEF Places
  <2>2. ToSet(Grouping)' = ToSet(Grouping) /\ IsInjective(Grouping)' /\ IsInjective(points)'
    BY <1>1, <1>2, <1>6 DEF Places
  <2>3. Apart(ToSet(points), ToSet(to_visit), Current, ToSet(Grouping), ToSet(Filed))'
    BY <1>1, <1>5, <1>6, <1>8, <1>9, <2>1, <2>2 DEF Places, Apart
  <2>4. (ToSet(points) \cup ToSet(to_visit) \cup Current \cup ToSet(Grouping) \cup ToSet(Filed) = Cones)'
    BY <1>1, <1>3, <1>5, <1>6, <1>8, <1>9, <2>1, <2>2 DEF Places
  <2> QED BY <1>2, <1>3, <1>5, <1>8, <2>1, <2>2, <2>3, <2>4 DEF Places
<1>11. Reached' = Reached
  BY <1>5, <1>6, <1>8, <1>9 DEF Reached
<1>12. Together'
  BY <1>1, <1>2, <1>3, <1>11 DEF Together
<1>13. Solitude'
  <2>1. SoloAhead'
    BY <1>1, <1>2, <1>3, <1>11 DEF Solitude, SoloAhead, FarFrom
  <2>2. SoloBetween'
    BY <1>1, <1>2, <1>3 DEF Solitude, SoloBetween, FarFrom
  <2>3. OnlyOne'
    BY <1>2 DEF OnlyOne
  <2>4. FirstVisit'
    <3>1. \A j \in DOMAIN points' : ~(j < i')
      BY <1>1, <1>2 DEF GroupingsTypeOK
    <3> QED BY <3>1 DEF FirstVisit
  <2> QED BY <2>1, <2>2, <2>3, <2>4 DEF Solitude
<1> QED BY <1>7, <1>10, <1>12, <1>13 DEF GroupingsInv

LEMMA CompareStep == GroupingsInv /\ Compare => GroupingsInv'
<1> SUFFICES ASSUME GroupingsInv, Compare PROVE GroupingsInv'
  OBVIOUS
<1>1. GroupingsTypeOK /\ Places /\ Together /\ Solitude
  BY DEF GroupingsInv
<1>2. /\ i \in 1..Len(points) /\ i' = i + 1 /\ cones' = cones /\ curr_point' = curr_point
      /\ group' = group /\ groups' = groups /\ closed' = closed
  BY DEF Compare
<1>3. Cones' = Cones /\ Nearby' = Nearby
  BY <1>2, NearbySame
<1> DEFINE x == points[i]
           P == ToSet(points)
           V == ToSet(to_visit)
<1>4. points \in Seq(Cones) /\ Lists(points, P) /\ to_visit \in Seq(Cones) /\ Lists(to_visit, V)
  BY <1>1 DEF GroupingsTypeOK, Places, Lists
<1>5. /\ x \in P /\ x \in Cones /\ RemoveAt(points, i) \in Seq(Cones)
      /\ Lists(RemoveAt(points, i), P \ {x})
  BY <1>2, <1>4, ListsRemove
<1>6. i > 0 /\ i' > 0 /\ ~closed /\ curr_point \in Cones /\ i \in Int
  BY <1>1, <1>2 DEF Places
<1>7. /\ Grouping' = Grouping /\ Current = {curr_point} /\ Current' = Current /\ Filed' = Filed
  BY <1>2, <1>6 DEF Grouping, Current, Filed
<1>8. x \notin V
  BY <1>1, <1>5 DEF Places, Apart
<1>9. Flat(Cones, groups, Filed)' /\ IsInjective(Filed)' /\ ToSet(Filed)' = ToSet(Filed)
  BY <1>1, <1>2, <1>3, <1>7 DEF Places
<1>10. ToSet(Grouping)' = ToSet(Grouping) /\ IsInjective(Grouping)'
  BY <1>1, <1>2, <1>7 DEF Places
<1>11. SoloBetween' /\ OnlyOne'
  BY <1>1, <1>2, <1>3, <1>6 DEF Solitude, SoloBetween, FarFrom, OnlyOne
<1> HIDE DEF x, P, V
<1>12. P = ToSet(points) /\ V = ToSet(to_visit)
  BY DEF P, V
<1>13. CASE Near(curr_point, x)
  <2>1. to_visit' = <<x>> \o to_visit /\ points' = RemoveAt(points, i)
    BY <1>13 DEF Compare, x
  <2>2. <<x>> \in Seq(Cones)
    BY <1>5
  <2>3. Lists(to_visit', {x} \cup V) /\ to_visit' \in Seq(Cones) /\ to_visit' # <<>>
    <3>1. Lists(to_visit', {x} \cup V) /\ to_visit' \in Seq(Cones)
      BY <1>4, <1>8, <2>1, <2>2, ListsFew, ListsConcat, ConcatProperties
    <3>2. to_visit' # <<>>
      BY <3>1, ListsFew DEF Lists
    <3> QED BY <3>1, <3>2
  <2>4. points' \in Seq(Cones) /\ Lists(points', P \ {x})
    BY <1>5, <2>1
  <2>5. <<curr_point, x>> \in Nearby /\ <<x, curr_point>> \in Nearby
    BY <1>1, <1>5, <1>6, <1>13, NearbySymmetric DEF Nearby
  <2>6. /\ ToSet(points)' = P \ {x} /\ ToSet(to_visit)' = {x} \cup V
        /\ IsInjective(points)' /\ IsInjective(to_visit)'
    BY <2>3, <2>4 DEF Lists
  <2>7. GroupingsTypeOK'
    BY <1>1, <1>2, <1>3, <2>3, <2>4 DEF GroupingsTypeOK
  <2>8. Places'
    <3>1. Apart(ToSet(points), ToSet(to_visit), Current, ToSet(Grouping), ToSet(Filed))'
      BY <1>1, <1>5, <1>7, <1>9, <1>10, <1>12, <2>6 DEF Places, Apart
    <3>2. (ToSet(points) \cup ToSet(to_visit) \cup Current \cup ToSet(Grouping) \cup ToSet(Filed) = Cones)'
      BY <1>1, <1>3, <1>5, <1>7, <1>9, <1>10, <1>12, <2>6 DEF Places
    <3> QED BY <1>2, <1>3, <1>6, <1>9, <1>10, <2>6, <3>1, <3>2 DEF Places
  <2>9. Reached' = Reached \cup {x} /\ curr_point \in Reached
    BY <1>7, <1>10, <1>12, <2>6 DEF Reached
  <2>10. Together'
    <3>1. Linked(Nearby, Reached \cup {x})
      BY <1>1, <2>5, <2>9, LinkedJoin DEF Together
    <3>2. Linked(Nearby, Reached)'
      BY <1>3, <2>9, <3>1
    <3> QED BY <1>1, <1>2, <1>3, <3>2 DEF Together
  <2>11. Solitude'
    <3>1. ToSet(points)' \cup Reached' = ToSet(points) \cup Reached
      BY <1>5, <1>12, <2>6, <2>9
    <3>2. SoloAhead'
      BY <1>1, <1>2, <1>3, <3>1 DEF Solitude, SoloAhead, FarFrom
    <3>3. FirstVisit'
      BY <2>3 DEF FirstVisit
    <3> QED BY <1>11, <3>2, <3>3 DEF Solitude
  <2> QED BY <2>7, <2>8, <2>10, <2>11 DEF GroupingsInv
<1>14. CASE ~Near(curr_point, x)
  <2>1. to_visit' = to_visit /\ points' = points
    BY <1>14 DEF Compare, x
  <2>2. GroupingsTypeOK'
    BY <1>1, <1>2, <1>3, <2>1 DEF GroupingsTypeOK
  <2>3. Places'
    BY <1>1, <1>2, <1>3, <1>6, <1>7, <1>9, <1>10, <2>1 DEF Places, Apart
  <2>4. Reached' = Reached
    BY <1>7, <2>1 DEF Reached
  <2>5. Together'
    BY <1>1, <1>2, <1>3, <2>4 DEF Together
  <2>6. Solitude'
    <3>1. SoloAhead'
      BY <1>1, <1>2, <1>3, <2>1, <2>4 DEF Solitude, SoloAhead, FarFrom
    <3>2. FirstVisit'
      <4> SUFFICES ASSUME to_visit = <<>>, group = <<>>, NEW j \in DOMAIN points, j < i + 1
                   PROVE  <<curr_point, points[j]>> \notin Nearby
        BY <1>2, <1>3, <2>1 DEF FirstVisit
      <4>1. CASE j = i
        BY <1>14, <4>1 DEF Nearby, x
      <4>2. CASE j # i
        <5>1. j < i
          BY <1>4, <1>6, <4>2
        <5> QED BY <1>1, <1>6, <5>1 DEF Solitude, FirstVisit
      <4> QED BY <4>1, <4>2
    <3> QED BY <1>11, <3>1, <3>2 DEF Solitude
  <2> QED BY <2>2, <2>3, <2>5, <2>6 DEF GroupingsInv
<1> QED BY <1>13, <1>14

LEMMA VisitedStep == GroupingsInv /\ Visited => GroupingsInv'
<1> SUFFICES ASSUME GroupingsInv, Visited PROVE GroupingsInv'
  OBVIOUS
<1> DEFINE c == curr_point
           G == ToSet(group)
<1>1. GroupingsTypeOK /\ Places /\ Together /\ Solitude
  BY DEF GroupingsInv
<1>2. /\ i > Len(points) /\ i' = 0 /\ group' = Append(group, c) /\ cones' = cones
      /\ points' = points /\ to_visit' = to_visit /\ groups' = groups /\ closed' = closed
      /\ curr_point' = c
  BY DEF Visited
<1>3. Cones' = Cones /\ Nearby' = Nearby
  BY <1>2, NearbySame
<1>4. i > 0 /\ ~closed /\ c \in Cones /\ group \in Seq(Cones) /\ points \in Seq(Cones)
  <2>1. i \in Nat /\ points \in Seq(Cones) /\ group \in Seq(Cones)
    BY <1>1 DEF GroupingsTypeOK
  <2>2. Len(points) \in Nat
    BY <2>1
  <2>3. i > 0
    BY <1>2, <2>1, <2>2
  <2> QED BY <1>1, <2>1, <2>3 DEF Places
<1>5. /\ Grouping = group /\ Grouping' = group' /\ Current = {c} /\ Current' = {}
      /\ Filed' = Filed /\ ToSet(points)' = ToSet(points) /\ ToSet(to_visit)' = ToSet(to_visit)
  BY <1>2, <1>4 DEF Grouping, Current, Filed
<1>6. Lists(group, G) /\ G \cap {c} = {}
  BY <1>1, <1>5 DEF Places, Apart, Lists
<1>7. group' = group \o <<c>> /\ group' \in Seq(Cones) /\ <<c>> \in Seq(Cones)
  BY <1>2, <1>4, AppendIsConcat, AppendProperties
<1>8. Lists(group', G \cup {c})
  BY <1>4, <1>6, <1>7, ListsFew, ListsConcat
<1>9. ToSet(Grouping)' = ToSet(Grouping) \cup {c} /\ IsInjective(Grouping)'
  BY <1>5, <1>8 DEF Lists
<1>10. GroupingsTypeOK'
  BY <1>1, <1>2, <1>3, <1>4, <1>7 DEF GroupingsTypeOK
<1>11. Places'
  <2>1. Flat(Cones, groups, Filed)' /\ IsInjective(Filed)' /\ ToSet(Filed)' = ToSet(Filed)
    BY <1>1, <1>2, <1>3, <1>5 DEF Places
  <2>2. Apart(ToSet(points), ToSet(to_visit), Current, ToSet(Grouping), ToSet(Filed))'
    BY <1>1, <1>5, <1>9, <2>1 DEF Places, Apart
  <2>3. (ToSet(points) \cup ToSet(to_visit) \cup Current \cup ToSet(Grouping) \cup ToSet(Filed) = Cones)'
    BY <1>1, <1>3, <1>5, <1>9, <2>1 DEF Places
  <2>4. IsInjective(points)' /\ IsInjective(to_visit)' /\ ~closed' /\ ~(i' > 0)
    BY <1>1, <1>2, <1>4 DEF Places
  <2> QED BY <1>9, <2>1, <2>2, <2>3, <2>4 DEF Places
<1>12. Reached' = Reached
  BY <1>5, <1>9 DEF Reached
<1>13. Together'
  BY <1>1, <1>2, <1>3, <1>12 DEF Together
<1>14. Solitude'
  <2>1. SoloAhead'
    BY <1>1, <1>2, <1>3, <1>12 DEF Solitude, SoloAhead, FarFrom
  <2>2. SoloBetween'
    BY <1>1, <1>2, <1>3 DEF Solitude, SoloBetween, FarFrom
  <2>3. FirstVisit'
    BY <1>2 DEF FirstVisit
  <2>4. OnlyOne'
    <3> SUFFICES ASSUME to_visit = <<>>, NEW p \in Cones, group' = <<p>>, NEW q \in ToSet(points)
                 PROVE  <<p, q>> \notin Nearby
      BY <1>2, <1>3, <1>5 DEF OnlyOne, FarFrom
    <3>1. group = <<>> /\ p = c
      <4>1. Len(group') = 1 /\ group'[1] = p
        OBVIOUS
      <4>2. Len(group') = Len(group) + 1 /\ group'[Len(group) + 1] = c /\ Len(group) \in Nat
        BY <1>2, <1>4, AppendProperties
      <4>3. Len(group) = 0
        BY <4>1, <4>2
      <4> QED BY <1>4, <4>1, <4>2, <4>3, EmptySeq
    <3>2. PICK j \in DOMAIN points : q = points[j]
      BY DEF ToSet
    <3>3. j < i
      <4>1. j \in 1..Len(points) /\ Len(points) \in Nat /\ i \in Int
        BY <1>1, <1>4 DEF GroupingsTypeOK
      <4> QED BY <1>2, <4>1
    <3> QED BY <1>1, <1>4, <3>1, <3>2, <3>3 DEF Solitude, FirstVisit
  <2> QED BY <2>1, <2>2, <2>3, <2>4 DEF Solitude
<1> QED BY <1>10, <1>11, <1>13, <1>14 DEF GroupingsInv

LEMMA CloseStep == GroupingsInv /\ Close => GroupingsInv'
<1> SUFFICES ASSUME GroupingsInv, Close PROVE GroupingsInv'
  OBVIOUS
<1> DEFINE G == ToSet(group)
           n == Len(groups)
<1>1. GroupingsTypeOK /\ Places /\ Together /\ Solitude
  BY DEF GroupingsInv
<1>2. /\ ~closed /\ i = 0 /\ to_visit = <<>> /\ closed' = TRUE /\ groups' = Append(groups, group)
      /\ cones' = cones /\ points' = points /\ to_visit' = to_visit /\ group' = group
      /\ curr_point' = curr_point /\ i' = i
  BY DEF Close
<1>3. Cones' = Cones /\ Nearby' = Nearby
  BY <1>2, NearbySame
<1>4. group \in Seq(Cones) /\ groups \in Seq(Seq(Cones))
  BY <1>1 DEF GroupingsTypeOK
<1>5. /\ Grouping = group /\ Grouping' = <<>> /\ Current = {} /\ Current' = {}
      /\ ToSet(points)' = ToSet(points) /\ ToSet(to_visit) = {} /\ ToSet(to_visit)' = {}
      /\ ToSet(Grouping)' = {} /\ IsInjective(Grouping)'
  <2>1. Lists(<<>>, {})
    BY ListsFew
  <2>2. Grouping = group /\ Grouping' = <<>> /\ Current = {} /\ Current' = {}
    BY <1>2 DEF Grouping, Current
  <2> QED BY <1>2, <2>1, <2>2 DEF Lists
<1>6. Flat(Cones, groups, Filed) /\ Filed \in Seq(Cones)
  BY <1>1, <1>4, FlatIs DEF Places
<1>7. groups' \in Seq(Seq(Cones)) /\ Flat(Cones, groups', Filed \o group)
  BY <1>2, <1>4, <1>6, FlatAppend, AppendProperties
<1>8. Filed' = Filed \o group
  BY <1>7, FlatIs DEF Filed
<1>9. Lists(Filed', ToSet(Filed) \cup G)
  <2>1. Lists(Filed, ToSet(Filed)) /\ Lists(group, G) /\ ToSet(Filed) \cap G = {}
    BY <1>1, <1>5 DEF Places, Apart, Lists
  <2> QED BY <1>4, <1>6, <1>8, <2>1, ListsConcat
<1>10. GroupingsTypeOK'
  BY <1>1, <1>2, <1>3, <1>7 DEF GroupingsTypeOK
<1>11. Places'
  <2>1. Flat(Cones, groups, Filed)'
    BY <1>3, <1>7, <1>8
  <2>2. ToSet(Filed)' = ToSet(Filed) \cup ToSet(Grouping) /\ IsInjective(Filed)'
    BY <1>5, <1>9 DEF Lists
  <2>3. Apart(ToSet(points), ToSet(to_visit), Current, ToSet(Grouping), ToSet(Filed))'
    BY <1>1, <1>5, <2>2 DEF Places, Apart
  <2>4. (ToSet(points) \cup ToSet(to_visit) \cup Current \cup ToSet(Grouping) \cup ToSet(Filed) = Cones)'
    BY <1>1, <1>3, <1>5, <2>2 DEF Places
  <2>5. IsInjective(points)' /\ IsInjective(to_visit)' /\ to_visit' = <<>> /\ i' = 0
    BY <1>1, <1>2 DEF Places
  <2> QED BY <1>5, <2>1, <2>2, <2>3, <2>4, <2>5 DEF Places
<1>12. Reached = G /\ Reached' = {}
  BY <1>5 DEF Reached
<1>13. /\ n \in Nat /\ DOMAIN groups = 1..n /\ DOMAIN groups' = 1..n + 1
       /\ groups'[n + 1] = group /\ \A k \in 1..n : groups'[k] = groups[k]
  BY <1>2, <1>4, AppendProperties
<1> HIDE DEF n
<1>14. Together'
  <2>1. Linked(Nearby, Reached)'
    BY <1>12, LinkedOne
  <2>2. ASSUME NEW k \in 1..n + 1 PROVE Linked(Nearby, ToSet(groups'[k]))
    <3>1. CASE k = n + 1
      BY <1>1, <1>12, <1>13, <3>1 DEF Together
    <3>2. CASE k # n + 1
      <4>1. k \in 1..n
        BY <1>13, <3>2
      <4> QED BY <1>1, <1>13, <4>1 DEF Together
    <3> QED BY <3>1, <3>2
  <2> QED BY <1>3, <1>13, <2>1, <2>2 DEF Together
<1>15. Solitude'
  <2>1. FirstVisit' /\ OnlyOne'
    BY <1>2 DEF FirstVisit, OnlyOne
  <2>2. SoloAhead'
    <3> SUFFICES ASSUME NEW k \in 1..n + 1, NEW p \in Cones, groups'[k] = <<p>>,
                        NEW q \in ToSet(points)
                 PROVE  <<p, q>> \notin Nearby
      BY <1>3, <1>5, <1>12, <1>13 DEF SoloAhead, FarFrom
    <3>1. CASE k = n + 1
      BY <1>1, <1>2, <1>13, <3>1 DEF Solitude, OnlyOne, FarFrom
    <3>2. CASE k # n + 1
      <4>1. k \in 1..n
        BY <1>13, <3>2
      <4> QED BY <1>1, <1>13, <4>1 DEF Solitude, SoloAhead, FarFrom
    <3> QED BY <3>1, <3>2
  <2>3. SoloBetween'
    <3> SUFFICES ASSUME NEW k \in 1..n + 1, NEW l \in 1..n + 1, k < l, NEW p \in Cones,
                        groups'[k] = <<p>>, NEW q \in ToSet(groups'[l])
                 PROVE  <<p, q>> \notin Nearby
      BY <1>3, <1>13 DEF SoloBetween, FarFrom
    <3>1. k \in 1..n /\ groups[k] = <<p>>
      BY <1>13
    <3>2. CASE l = n + 1
      <4>1. q \in Reached
        BY <1>12, <1>13, <3>2
      <4> QED BY <1>1, <1>13, <3>1, <4>1 DEF Solitude, SoloAhead, FarFrom
    <3>3. CASE l # n + 1
      <4>1. l \in 1..n /\ q \in ToSet(groups[l])
        BY <1>13, <3>3
      <4> QED BY <1>1, <1>13, <3>1, <4>1 DEF Solitude, SoloBetween, FarFrom
    <3> QED BY <3>2, <3>3
  <2> QED BY <2>1, <2>2, <2>3 DEF Solitude
<1> QED BY <1>10, <1>11, <1>14, <1>15 DEF GroupingsInv

LEMMA GroupingsStep == GroupingsInv /\ [GroupingsNext]_grouping_vars => GroupingsInv'
<1> SUFFICES ASSUME GroupingsInv, [GroupingsNext]_grouping_vars PROVE GroupingsInv'
  OBVIOUS
<1>1. CASE UNCHANGED grouping_vars
  <2>1. /\ cones' = cones /\ points' = points /\ to_visit' = to_visit /\ curr_point' = curr_point
        /\ i' = i /\ group' = group /\ groups' = groups /\ closed' = closed
    BY <1>1 DEF grouping_vars
  <2>2. /\ Cones' = Cones /\ Nearby' = Nearby /\ Grouping' = Grouping /\ Current' = Current
        /\ Filed' = Filed /\ Reached' = Reached
    BY <2>1, NearbySame DEF Grouping, Current, Filed, Reached
  <2>3. GroupingsTypeOK'
    BY <2>1, <2>2 DEF GroupingsInv, GroupingsTypeOK
  <2>4. Places'
    BY <2>1, <2>2 DEF GroupingsInv, Places, Apart
  <2>5. Together' /\ Solitude'
    BY <2>1, <2>2 DEF GroupingsInv, Together, Solitude, FirstVisit, OnlyOne, SoloAhead,
       SoloBetween, FarFrom
  <2> QED BY <2>3, <2>4, <2>5 DEF GroupingsInv
<1> QED BY <1>1, StartStep, VisitStep, CompareStep, VisitedStep, CloseStep DEF GroupingsNext

LEMMA EverywhereIs == GroupingsInv => Lists(Everywhere, Cones)
<1> SUFFICES ASSUME GroupingsInv PROVE Lists(Everywhere, Cones)
  OBVIOUS
<1> DEFINE visited == IF i > 0 THEN <<curr_point>> ELSE <<>>
           a == points \o to_visit
           b == a \o visited
           c == b \o Grouping
<1>1. GroupingsTypeOK /\ Places
  BY DEF GroupingsInv
<1>2. /\ points \in Seq(Cones) /\ to_visit \in Seq(Cones) /\ Grouping \in Seq(Cones)
      /\ visited \in Seq(Cones) /\ Filed \in Seq(Cones)
  <2>1. points \in Seq(Cones) /\ to_visit \in Seq(Cones) /\ Grouping \in Seq(Cones)
    BY <1>1 DEF GroupingsTypeOK, Grouping
  <2>2. visited \in Seq(Cones)
    BY <1>1 DEF Places
  <2>3. Filed \in Seq(Cones)
    BY <1>1, FlatIs DEF GroupingsTypeOK, Places
  <2> QED BY <2>1, <2>2, <2>3
<1>3. /\ Lists(points, ToSet(points)) /\ Lists(to_visit, ToSet(to_visit))
      /\ Lists(Grouping, ToSet(Grouping)) /\ Lists(Filed, ToSet(Filed))
  BY <1>1 DEF Places, Lists
<1>4. Lists(visited, Current)
  BY ListsFew DEF Current
<1>5. Everywhere = c \o Filed
  BY DEF Everywhere, Grouping, Filed
<1> HIDE DEF visited
<1>6. Apart(ToSet(points), ToSet(to_visit), Current, ToSet(Grouping), ToSet(Filed))
  BY <1>1 DEF Places
<1>7. a \in Seq(Cones) /\ Lists(a, ToSet(points) \cup ToSet(to_visit))
  <2>1. ToSet(points) \cap ToSet(to_visit) = {}
    BY <1>6 DEF Apart
  <2> QED BY <1>2, <1>3, <2>1, ListsConcat, ConcatProperties
<1> HIDE DEF a
<1>8. b \in Seq(Cones) /\ Lists(b, ToSet(points) \cup ToSet(to_visit) \cup Current)
  <2>1. (ToSet(points) \cup ToSet(to_visit)) \cap Current = {}
    BY <1>6 DEF Apart
  <2> QED BY <1>2, <1>4, <1>7, <2>1, ListsConcat, ConcatProperties
<1> HIDE DEF b
<1>9. /\ c \in Seq(Cones)
      /\ Lists(c, ToSet(points) \cup ToSet(to_visit) \cup Current \cup ToSet(Grouping))
  <2>1. (ToSet(points) \cup ToSet(to_visit) \cup Current) \cap ToSet(Grouping) = {}
    BY <1>6 DEF Apart
  <2> QED BY <1>2, <1>3, <1>8, <2>1, ListsConcat, ConcatProperties
<1> HIDE DEF c
<1>10. (ToSet(points) \cup ToSet(to_visit) \cup Current \cup ToSet(Grouping)) \cap ToSet(Filed) = {}
  BY <1>6 DEF Apart
<1>11. Lists(c \o Filed, ToSet(points) \cup ToSet(to_visit) \cup Current \cup ToSet(Grouping)
                             \cup ToSet(Filed))
  BY <1>2, <1>3, <1>9, <1>10, ListsConcat
<1> QED BY <1>1, <1>5, <1>11 DEF Places

\* Groups are made of cones, each in exactly one place at every moment, and none of them can be
\* cut in two farther apart than the tolerance (getPointGroupings), for every tolerance, every
\* number of cones and wherever they stand.
THEOREM GroupsPartition == GroupingsSpec => []ConnectedPartition
<1>1. GroupingsInv => ConnectedPartition
  <2> SUFFICES ASSUME GroupingsInv PROVE ConnectedPartition
    OBVIOUS
  <2>1. IsInjective(Everywhere) /\ ToSet(Everywhere) = Cones
    BY EverywhereIs DEF Lists
  <2>2. ASSUME NEW k \in DOMAIN groups PROVE Connected(groups[k])
    <3>1. Linked(Nearby, ToSet(groups[k]))
      BY DEF GroupingsInv, Together
    <3> QED BY <3>1 DEF Linked, Connected, Nearby
  <2> QED BY <2>1, <2>2 DEF ConnectedPartition
<1> QED BY <1>1, GroupingsInitInv, GroupingsStep, PTL DEF GroupingsSpec

\* Two cones within the tolerance are never both the only cone of their group
\* (getPointGroupings), so that a line is fitted to one of them at least.
THEOREM PairsMeet == GroupingsSpec => []NoPairAlone
<1>1. GroupingsInv => NoPairAlone
  <2> SUFFICES ASSUME GroupingsInv, NEW p \in Cones, NEW q \in Cones, p # q, Near(p, q),
                      Alone(p), Alone(q)
               PROVE  FALSE
    BY DEF NoPairAlone
  <2>1. PICK k \in DOMAIN groups : groups[k] = <<p>>
    BY DEF Alone
  <2>2. PICK l \in DOMAIN groups : groups[l] = <<q>>
    BY DEF Alone
  <2>3. p \in ToSet(groups[k]) /\ q \in ToSet(groups[l])
    BY <2>1, <2>2, ListsFew DEF Lists
  <2>4. GroupingsTypeOK /\ SoloBetween
    BY DEF GroupingsInv, Solitude
  <2>5. <<p, q>> \in Nearby /\ <<q, p>> \in Nearby
    BY <2>4, NearbySymmetric DEF Nearby
  <2>6. ~(k < l) /\ ~(l < k)
    BY <2>1, <2>2, <2>3, <2>4, <2>5 DEF SoloBetween, FarFrom
  <2>7. k = l
    <3>1. k \in Int /\ l \in Int
      BY <2>4 DEF GroupingsTypeOK
    <3> QED BY <2>6, <3>1
  <2>8. <<p>>[1] = <<q>>[1]
    BY <2>1, <2>2, <2>7
  <2> QED BY <2>8
<1> QED BY <1>1, GroupingsInitInv, GroupingsStep, PTL DEF GroupingsSpec

-----------------------------------------------------------------------------
\* The clusters of line points.
Point == [x : Int, y : Int]
InSight(p) == {q \in DOMAIN pcl : q # p /\ Within(p, q)}

\* The loop of findNeighbors() collects the points within the radius.
LEMMA NeighborsIs ==
    ASSUME pcl \in Seq(Point), NEW p \in DOMAIN pcl
    PROVE  NeighborsOf(p) \in Seq(DOMAIN pcl) /\ Lists(NeighborsOf(p), InSight(p))
<1> DEFINE n == Len(pcl)
           S == Seq(1..n)
           Sees(q) == q # p /\ Within(p, q)
           step == [x \in (1..n) \X S |-> IF Sees(x[1]) THEN Append(x[2], x[1]) ELSE x[2]]
           Def(g) == [j \in 0..n |-> IF j = 0 THEN <<>>
                                     ELSE IF Sees(j) THEN Append(g[j - 1], j) ELSE g[j - 1]]
           found == CHOOSE g : g = Def(g)
<1>1. n \in Nat /\ DOMAIN pcl = 1..n /\ <<>> \in S
  OBVIOUS
<1>2. step \in [(1..n) \X S -> S]
  <2>1. ASSUME NEW x \in (1..n) \X S
        PROVE  (IF Sees(x[1]) THEN Append(x[2], x[1]) ELSE x[2]) \in S
    <3>1. x[1] \in 1..n /\ x[2] \in Seq(1..n)
      OBVIOUS
    <3>2. Append(x[2], x[1]) \in Seq(1..n)
      <4> HIDE DEF n
      <4> QED BY <3>1
    <3> HIDE DEF Sees, n
    <3> QED BY <3>1, <3>2
  <2> HIDE DEF Sees, S
  <2> QED BY <2>1
<1>3. PICK f \in [0..n -> S] : Unrolls(f, n, <<>>, step)
  <2> HIDE DEF step, S, n
  <2> QED BY <1>1, <1>2, Recursion
<1>4. f = Def(f)
  <2>1. ASSUME NEW j \in 0..n PROVE f[j] = Def(f)[j]
    <3>1. CASE j = 0
      BY <1>3, <3>1 DEF Unrolls
    <3>2. CASE j # 0
      <4>1. j \in 1..n /\ j - 1 \in 0..n /\ f[j - 1] \in S
        <5>1. j \in 1..n /\ j - 1 \in 0..n
          BY <1>1, <3>2
        <5> HIDE DEF n, S
        <5> QED BY <1>3, <5>1
      <4>2. f[j] = step[<<j, f[j - 1]>>]
        BY <1>3, <4>1 DEF Unrolls
      <4>3. step[<<j, f[j - 1]>>] = IF Sees(j) THEN Append(f[j - 1], j) ELSE f[j - 1]
        <5> HIDE DEF S, Sees, n
        <5> QED BY <4>1
      <4> HIDE DEF step, S, n, Sees
      <4> QED BY <3>2, <4>1, <4>2, <4>3
    <3> QED BY <3>1, <3>2
  <2>2. f = [j \in 0..n |-> f[j]] /\ Def(f) = [j \in 0..n |-> Def(f)[j]]
    BY <1>3
  <2> HIDE DEF Def
  <2> QED BY <2>1, <2>2
<1>5. found = Def(found)
  <2> HIDE DEF Def
  <2> QED BY <1>4, Zenon
<1>6. NeighborsOf(p) = found[n]
  BY DEF NeighborsOf
<1> HIDE DEF found
<1>7. /\ found[0] = <<>>
      /\ \A j \in 1..n : found[j] = IF Sees(j) THEN Append(found[j - 1], j) ELSE found[j - 1]
  <2>1. ASSUME NEW g, g = Def(g)
        PROVE  /\ g[0] = <<>>
               /\ \A j \in 1..n : g[j] = IF Sees(j) THEN Append(g[j - 1], j) ELSE g[j - 1]
    <3>1. 0 \in 0..n /\ \A j \in 1..n : j \in 0..n /\ j # 0
      BY <1>1
    <3>2. \A j \in 0..n : Def(g)[j] = IF j = 0 THEN <<>>
                                     ELSE IF Sees(j) THEN Append(g[j - 1], j) ELSE g[j - 1]
      OBVIOUS
    <3> HIDE DEF Def, Sees, n
    <3> QED BY <2>1, <3>1, <3>2
  <2> HIDE DEF Def, Sees
  <2> QED BY <1>5, <2>1
<1> DEFINE Fits(k) == found[k] \in S /\ Lists(found[k], {q \in 1..k : Sees(q)})
           T == {k \in Nat : k <= n => Fits(k)}
<1>8. 0 \in T
  <2>1. {q \in 1..0 : Sees(q)} = {}
    OBVIOUS
  <2> QED BY <1>1, <1>7, <2>1, ListsFew
<1>9. ASSUME NEW k \in Nat, k \in T PROVE k + 1 \in T
  <2> SUFFICES ASSUME k + 1 <= n PROVE Fits(k + 1)
    OBVIOUS
  <2> DEFINE A == {q \in 1..k : Sees(q)}
  <2>1. k + 1 \in 1..n /\ (k + 1) - 1 = k /\ k <= n
    BY <1>1
  <2>2. found[k] \in S /\ Lists(found[k], A)
    BY <1>9, <2>1
  <2>3. found[k + 1] = IF Sees(k + 1) THEN Append(found[k], k + 1) ELSE found[k]
    <3> HIDE DEF Sees
    <3> QED BY <1>7, <2>1
  <2>4. {q \in 1..k + 1 : Sees(q)} = IF Sees(k + 1) THEN A \cup {k + 1} ELSE A
    <3>1. \A q : q \in 1..k + 1 <=> q \in 1..k \/ q = k + 1
      OBVIOUS
    <3> HIDE DEF Sees
    <3> QED BY <3>1
  <2>5. A \cap {k + 1} = {}
    OBVIOUS
  <2>6. CASE Sees(k + 1)
    <3>1. <<k + 1>> \in S /\ Append(found[k], k + 1) = found[k] \o <<k + 1>>
      <4> HIDE DEF n, Sees
      <4> QED BY <2>1, <2>2
    <3>2. Lists(<<k + 1>>, {k + 1})
      BY ListsFew
    <3>3. Lists(found[k] \o <<k + 1>>, A \cup {k + 1})
      <4> HIDE DEF A, Sees
      <4> QED BY <2>2, <2>5, <3>1, <3>2, ListsConcat
    <3>4. found[k] \o <<k + 1>> \in S
      <4> HIDE DEF n
      <4> QED BY <2>2, <3>1
    <3> HIDE DEF A, Sees, S
    <3> QED BY <2>3, <2>4, <2>6, <3>1, <3>3, <3>4
  <2>7. CASE ~Sees(k + 1)
    <3> HIDE DEF A, Sees, S
    <3> QED BY <2>2, <2>3, <2>4, <2>7
  <2> QED BY <2>6, <2>7
<1>10. Fits(n)
  <2>1. n \in T
    <3> HIDE DEF T, n
    <3> QED BY <1>1, <1>8, <1>9, NatSet
  <2> QED BY <1>1, <2>1
<1> QED BY <1>1, <1>6, <1>10 DEF InSight

LEMMA Squares == \A a, b \in Int : (a - b) * (a - b) = (b - a) * (b - a)
OBVIOUS

\* Two points see each other or not.
LEMMA SeesBack ==
    ASSUME pcl \in Seq(Point), NEW p \in DOMAIN pcl, NEW q \in DOMAIN pcl
    PROVE  Within(p, q) <=> Within(q, p)
<1>1. pcl[p].x \in Int /\ pcl[p].y \in Int /\ pcl[q].x \in Int /\ pcl[q].y \in Int
  <2>1. pcl[p] \in Point /\ pcl[q] \in Point
    OBVIOUS
  <2> QED BY <2>1 DEF Point
<1>2. /\ (pcl[p].x - pcl[q].x) * (pcl[p].x - pcl[q].x) = (pcl[q].x - pcl[p].x) * (pcl[q].x - pcl[p].x)
      /\ (pcl[p].y - pcl[q].y) * (pcl[p].y - pcl[q].y) = (pcl[q].y - pcl[p].y) * (pcl[q].y - pcl[p].y)
  BY <1>1, Squares
<1> QED BY <1>2, Zenon DEF Within

-----------------------------------------------------------------------------
Cores == {p \in DOMAIN pcl : IsCore(p)}
Before == UNION {ToSet(_clusters[j]) : j \in DOMAIN _clusters}
Calls == [center : DOMAIN pcl, i : Nat \ {0}]

ClustersTypeOK ==
    /\ pcl \in Seq(Point) /\ scan \in Nat /\ _min_neighbors \in Nat
    /\ neighbors \in [DOMAIN pcl -> Seq(DOMAIN pcl)]
    /\ frames \in Seq(Calls)
    /\ cluster \in Seq(DOMAIN pcl) /\ _clusters \in Seq(Seq(DOMAIN pcl))
    /\ clustered \subseteq DOMAIN pcl

Unstarted == scan = 0 => frames = <<>> /\ cluster = <<>> /\ _clusters = <<>> /\ clustered = {}

\* Points are neighbours of each other, and listed once.
Mutual ==
    /\ \A p, q \in DOMAIN pcl : q \in ToSet(neighbors[p]) => p \in ToSet(neighbors[q])
    /\ \A p \in DOMAIN pcl : IsInjective(neighbors[p])

\* A point in a cluster is in one only, listed once, and expanded if it is a core point.
Membership ==
    /\ IsInjective(cluster)
    /\ clustered = Before \cup ToSet(cluster) /\ Before \cap ToSet(cluster) = {}
    /\ expanded = clustered \cap Cores

\* What is next to an expanded point is in a cluster, or a call has yet to come to it;
\* nothing remains to be done about the clusters before.
Attended ==
    /\ \A r \in expanded : \A k \in DOMAIN neighbors[r] :
         \/ neighbors[r][k] \in clustered
         \/ \E j \in DOMAIN frames : frames[j].center = r /\ frames[j].i <= k
    /\ \A j \in DOMAIN frames : frames[j].center \in ToSet(cluster) \cap Cores
    /\ \A r \in Before \cap Cores : ToSet(neighbors[r]) \subseteq Before

\* The cluster is within reach of the point it began with.
Closes(S) == \A r \in S : \A q \in ToSet(neighbors[r]) : IsCore(q) => q \in S
Growth ==
    cluster # <<>> =>
      /\ scan \in ToSet(cluster) \cap Cores
      /\ \A q \in ToSet(cluster) :
           q \in Cores \/ \E r \in ToSet(cluster) \cap Cores : q \in ToSet(neighbors[r])
      /\ \A S \in SUBSET Cores : scan \in S /\ Closes(S) => ToSet(cluster) \cap Cores \subseteq S

Passed == \A p \in Cores : p < scan => p \in clustered

ClustersInv == ClustersTypeOK /\ Unstarted /\ Mutual /\ Membership /\ Attended /\ Growth /\ Passed

LEMMA ToSetFew == \A x : ToSet(<<>>) = {} /\ ToSet(<<x>>) = {x}
BY ListsFew DEF Lists

LEMMA ToSetAppend ==
    ASSUME NEW S, NEW s \in Seq(S), NEW x \in S
    PROVE  ToSet(Append(s, x)) = ToSet(s) \cup {x}
<1>1. /\ Len(s) \in Nat /\ DOMAIN s = 1..Len(s) /\ DOMAIN Append(s, x) = 1..Len(s) + 1
      /\ Append(s, x)[Len(s) + 1] = x
      /\ \A j \in 1..Len(s) : Append(s, x)[j] = s[j]
  OBVIOUS
<1>2. \A j : j \in 1..Len(s) + 1 <=> j \in 1..Len(s) \/ j = Len(s) + 1
  BY <1>1
<1> QED BY <1>1, <1>2 DEF ToSet

LEMMA InjectiveAppend ==
    ASSUME NEW S, NEW s \in Seq(S), NEW x \in S, IsInjective(s), x \notin ToSet(s)
    PROVE  IsInjective(Append(s, x))
<1>1. /\ Len(s) \in Nat /\ DOMAIN s = 1..Len(s) /\ DOMAIN Append(s, x) = 1..Len(s) + 1
      /\ Append(s, x)[Len(s) + 1] = x
      /\ \A j \in 1..Len(s) : Append(s, x)[j] = s[j]
  OBVIOUS
<1>2. \A j : j \in 1..Len(s) + 1 <=> j \in 1..Len(s) \/ j = Len(s) + 1
  BY <1>1
<1>3. \A j \in 1..Len(s) : s[j] # x
  BY <1>1 DEF ToSet
<1> QED BY <1>1, <1>2, <1>3 DEF IsInjective

LEMMA ClustersInitInv ==
    ASSUME NEW cloud \in Seq(Point), FindClustersInit(cloud)
    PROVE  ClustersInv
<1>1. /\ pcl = cloud /\ scan = 0 /\ _min_neighbors = 0 /\ neighbors = [p \in DOMAIN pcl |-> <<>>]
      /\ frames = <<>> /\ cluster = <<>> /\ clustered = {} /\ expanded = {} /\ _clusters = <<>>
  BY DEF FindClustersInit
<1>2. ToSet(<<>>) = {} /\ DOMAIN <<>> = {} /\ IsInjective(<<>>) /\ \A S : <<>> \in Seq(S)
  BY ToSetFew DEF IsInjective
<1>3. ClustersTypeOK
  <2>1. neighbors \in [DOMAIN pcl -> Seq(DOMAIN pcl)]
    BY <1>1, <1>2
  <2> QED BY <1>1, <1>2, <2>1 DEF ClustersTypeOK
<1>4. Before = {}
  BY <1>1, <1>2 DEF Before
<1>5. Unstarted /\ Membership /\ Attended /\ Growth
  BY <1>1, <1>2, <1>4 DEF Unstarted, Membership, Attended, Growth
<1>6. Mutual
  BY <1>1, <1>2 DEF Mutual
<1>7. Passed
  <2>1. DOMAIN pcl = 1..Len(pcl) /\ Len(pcl) \in Nat
    BY <1>1
  <2> QED BY <1>1, <2>1 DEF Passed, Cores
<1> QED BY <1>3, <1>5, <1>6, <1>7 DEF ClustersInv

LEMMA FindNeighborsStep == ClustersInv /\ FindNeighbors => ClustersInv'
<1> SUFFICES ASSUME ClustersInv, FindNeighbors PROVE ClustersInv'
  OBVIOUS
<1>1. /\ frames' = <<>> /\ cluster' = <<>> /\ clustered' = {} /\ expanded' = {} /\ _clusters' = <<>>
      /\ scan' = 1 /\ _min_neighbors' \in Nat /\ pcl' = pcl
      /\ neighbors' = [p \in DOMAIN pcl |-> NeighborsOf(p)]
  BY DBSCANAssumption DEF FindNeighbors, ClustersInv, Unstarted, Membership
<1>2. ToSet(<<>>) = {} /\ DOMAIN <<>> = {} /\ IsInjective(<<>>) /\ \A S : <<>> \in Seq(S)
  BY ToSetFew DEF IsInjective
<1>3. pcl \in Seq(Point) /\ DOMAIN pcl = 1..Len(pcl) /\ Len(pcl) \in Nat
  BY DEF ClustersInv, ClustersTypeOK
<1>4. \A p \in DOMAIN pcl : /\ neighbors'[p] \in Seq(DOMAIN pcl)
                            /\ IsInjective(neighbors'[p]) /\ ToSet(neighbors'[p]) = InSight(p)
  BY <1>1, <1>3, NeighborsIs DEF Lists
<1>5. ClustersTypeOK'
  <2>1. neighbors' \in [DOMAIN pcl -> Seq(DOMAIN pcl)]
    BY <1>1, <1>4
  <2> QED BY <1>1, <1>2, <1>3, <2>1 DEF ClustersTypeOK
<1>6. Before' = {}
  BY <1>1, <1>2 DEF Before
<1>7. Unstarted' /\ Membership' /\ Attended' /\ Growth'
  BY <1>1, <1>2, <1>6 DEF Unstarted, Membership, Attended, Growth
<1>8. Mutual'
  <2>1. \A p, q \in DOMAIN pcl : q \in InSight(p) => p \in InSight(q)
    BY <1>3, SeesBack DEF InSight
  <2> QED BY <1>1, <1>4, <2>1 DEF Mutual
<1>9. Passed'
  BY <1>1, <1>3 DEF Passed, Cores
<1> QED BY <1>5, <1>7, <1>8, <1>9 DEF ClustersInv

\* What all the other steps leave alone.
LEMMA CloudSame ==
    ASSUME ClustersInv, UNCHANGED <<pcl, _min_neighbors, neighbors>>
    PROVE  /\ Cores' = Cores /\ Mutual' /\ DOMAIN pcl = 1..Len(pcl) /\ Len(pcl) \in Nat
           /\ \A p : IsCore(p)' <=> IsCore(p)
           /\ \A S : Closes(S)' <=> Closes(S)
           /\ Cores \subseteq DOMAIN pcl
<1>1. \A p : IsCore(p)' <=> IsCore(p)
  BY DEF IsCore
<1>2. Cores' = Cores /\ \A S : Closes(S)' <=> Closes(S)
  BY <1>1 DEF Cores, Closes
<1>3. Mutual'
  BY DEF ClustersInv, Mutual
<1> QED BY <1>1, <1>2, <1>3 DEF Cores, ClustersInv, ClustersTypeOK

LEMMA PassOverStep == ClustersInv /\ PassOver => ClustersInv'
<1> SUFFICES ASSUME ClustersInv, PassOver PROVE ClustersInv'
  OBVIOUS
<1>1. /\ UNCHANGED <<pcl, _min_neighbors, neighbors, frames, cluster, clustered, expanded, _clusters>>
      /\ frames = <<>> /\ cluster = <<>> /\ scan \in DOMAIN pcl /\ scan' = scan + 1
      /\ scan \in clustered \/ ~IsCore(scan)
  BY DEF PassOver, StartsCluster
<1>2. /\ Cores' = Cores /\ Mutual' /\ DOMAIN pcl = 1..Len(pcl) /\ Len(pcl) \in Nat
  BY <1>1, CloudSame
<1>3. Before' = Before
  BY <1>1 DEF Before
<1>4. ClustersTypeOK' /\ Unstarted'
  BY <1>1, <1>2 DEF ClustersInv, ClustersTypeOK, Unstarted, Calls
<1>5. Membership' /\ Attended' /\ Growth'
  BY <1>1, <1>2, <1>3 DEF ClustersInv, Membership, Attended, Growth
<1>6. Passed'
  <2> SUFFICES ASSUME NEW p \in Cores, p < scan + 1 PROVE p \in clustered
    BY <1>1, <1>2 DEF Passed
  <2>1. p \in 1..Len(pcl) /\ IsCore(p)
    BY <1>2 DEF Cores
  <2>2. p < scan \/ p = scan
    BY <1>1, <1>2, <2>1
  <2> QED BY <1>1, <2>1, <2>2 DEF ClustersInv, Passed
<1> QED BY <1>2, <1>4, <1>5, <1>6 DEF ClustersInv

LEMMA StartClusterStep == ClustersInv /\ StartCluster => ClustersInv'
<1> SUFFICES ASSUME ClustersInv, StartCluster PROVE ClustersInv'
  OBVIOUS
<1>1. /\ UNCHANGED <<pcl, _min_neighbors, neighbors, scan, _clusters>>
      /\ frames = <<>> /\ cluster = <<>> /\ scan \in DOMAIN pcl
      /\ scan \notin clustered /\ IsCore(scan)
      /\ cluster' = <<scan>> /\ clustered' = clustered \cup {scan}
      /\ expanded' = expanded \cup {scan} /\ frames' = <<[center |-> scan, i |-> 1]>>
  BY DEF StartCluster, StartsCluster
<1>2. /\ Cores' = Cores /\ Mutual' /\ DOMAIN pcl = 1..Len(pcl) /\ Len(pcl) \in Nat
      /\ \A S : Closes(S)' <=> Closes(S)
      /\ scan \in Cores
  BY <1>1, CloudSame DEF Cores
<1>3. Before' = Before
  BY <1>1 DEF Before
<1>4. ToSet(cluster') = {scan} /\ IsInjective(cluster') /\ ToSet(cluster) = {}
  BY <1>1, ListsFew DEF Lists
<1>5. /\ frames' \in Seq(Calls) /\ DOMAIN frames' = {1} /\ frames'[1] = [center |-> scan, i |-> 1]
  <2>1. [center |-> scan, i |-> 1] \in Calls
    BY <1>1 DEF Calls
  <2> QED BY <1>1, <2>1
<1>6. ClustersTypeOK'
  <2>1. cluster' \in Seq(DOMAIN pcl) /\ clustered' \subseteq DOMAIN pcl
    BY <1>1 DEF ClustersInv, ClustersTypeOK
  <2> QED BY <1>1, <1>5, <2>1 DEF ClustersInv, ClustersTypeOK, Calls
<1>7. Unstarted' /\ Passed'
  <2>1. scan # 0
    BY <1>1, <1>2
  <2> QED BY <1>1, <1>2, <2>1 DEF ClustersInv, Unstarted, Passed
<1>8. Membership'
  BY <1>1, <1>2, <1>3, <1>4 DEF ClustersInv, Membership
<1>9. Attended'
  <2>1. ASSUME NEW r \in expanded', NEW k \in DOMAIN neighbors[r]
        PROVE  \/ neighbors[r][k] \in clustered'
               \/ \E j \in DOMAIN frames' : frames'[j].center = r /\ frames'[j].i <= k
    <3>1. CASE r = scan
      <4>1. neighbors[r] \in Seq(DOMAIN pcl)
        BY <1>1, <3>1 DEF ClustersInv, ClustersTypeOK
      <4>2. 1 <= k
        BY <4>1
      <4> QED BY <1>5, <3>1, <4>2
    <3>2. CASE r # scan
      <4>1. r \in expanded /\ DOMAIN frames = {}
        BY <1>1, <3>2
      <4> QED BY <1>1, <4>1 DEF ClustersInv, Attended
    <3> QED BY <3>1, <3>2
  <2>2. \A j \in DOMAIN frames' : frames'[j].center \in ToSet(cluster') \cap Cores'
    BY <1>2, <1>4, <1>5
  <2>3. \A r \in Before' \cap Cores' : ToSet(neighbors'[r]) \subseteq Before'
    BY <1>1, <1>2, <1>3 DEF ClustersInv, Attended
  <2> QED BY <1>1, <2>1, <2>2, <2>3 DEF Attended
<1>10. Growth'
  BY <1>1, <1>2, <1>4 DEF Growth
<1> QED BY <1>2, <1>6, <1>7, <1>8, <1>9, <1>10 DEF ClustersInv

\* One neighbour more has been dealt with.
LEMMA ExpandStep == ClustersInv /\ Expand => ClustersInv'
<1> SUFFICES ASSUME ClustersInv, Expand PROVE ClustersInv'
  OBVIOUS
<1> DEFINE c == frames[1].center
           m == frames[1].i
           q == neighbors[c][m]
           deeper == q \notin expanded /\ IsCore(q)
<1>1. /\ UNCHANGED <<pcl, _min_neighbors, neighbors, scan, _clusters>>
      /\ frames # <<>> /\ m <= Len(neighbors[c])
      /\ cluster' = IF q \in clustered THEN cluster ELSE Append(cluster, q)
      /\ clustered' = clustered \cup {q}
      /\ expanded' = IF deeper THEN expanded \cup {q} ELSE expanded
      /\ frames' = IF deeper THEN <<[center |-> q, i |-> 1]>> \o Advanced ELSE Advanced
  BY DEF Expand, Going, Joins
<1>2. /\ Cores' = Cores /\ Mutual' /\ DOMAIN pcl = 1..Len(pcl) /\ Len(pcl) \in Nat
      /\ \A S : Closes(S)' <=> Closes(S)
      /\ \A p : IsCore(p)' <=> IsCore(p)
  BY <1>1, CloudSame
<1>3. Before' = Before
  BY <1>1 DEF Before
<1>4. frames \in Seq(Calls) /\ 1 \in DOMAIN frames /\ cluster \in Seq(DOMAIN pcl)
  BY <1>1 DEF ClustersInv, ClustersTypeOK
<1>5. c \in DOMAIN pcl /\ m \in Nat \ {0} /\ c \in ToSet(cluster) \cap Cores
  <2>1. frames[1] \in Calls
    BY <1>4
  <2> QED BY <1>4, <2>1 DEF Calls, ClustersInv, Attended
<1>6. q \in ToSet(neighbors[c]) /\ q \in DOMAIN pcl
  <2>1. neighbors[c] \in Seq(DOMAIN pcl)
    BY <1>5 DEF ClustersInv, ClustersTypeOK
  <2>2. m \in DOMAIN neighbors[c]
    BY <1>1, <1>5, <2>1
  <2> QED BY <2>1, <2>2 DEF ToSet
<1> HIDE DEF c, m, q
<1>7. ToSet(cluster') = ToSet(cluster) \cup (IF q \in clustered THEN {} ELSE {q})
      /\ cluster' \in Seq(DOMAIN pcl)
  <2>1. CASE q \in clustered
    BY <1>1, <1>4, <2>1
  <2>2. CASE q \notin clustered
    BY <1>1, <1>4, <1>6, <2>2, ToSetAppend
  <2> QED BY <2>1, <2>2
<1>8. /\ clustered = Before \cup ToSet(cluster) /\ Before \cap ToSet(cluster) = {}
      /\ expanded = clustered \cap Cores
      /\ IsCore(q) <=> q \in Cores
  BY <1>6 DEF ClustersInv, Membership, Cores
<1>9. Membership'
  <2>1. expanded' = clustered' \cap Cores
    BY <1>1, <1>8
  <2>2. IsInjective(cluster')
    <3>1. IsInjective(cluster)
      BY DEF ClustersInv, Membership
    <3>2. CASE q \in clustered
      BY <1>1, <3>1, <3>2
    <3>3. CASE q \notin clustered
      <4>1. q \notin ToSet(cluster) /\ cluster' = Append(cluster, q)
        BY <1>1, <1>8, <3>3
      <4> QED BY <1>4, <1>6, <3>1, <4>1, InjectiveAppend
    <3> QED BY <3>2, <3>3
  <2> QED BY <1>1, <1>2, <1>3, <1>7, <1>8, <2>1, <2>2 DEF Membership
<1>10. /\ Advanced \in Seq(Calls) /\ DOMAIN Advanced = DOMAIN frames
       /\ Advanced[1].center = c /\ Advanced[1].i = m + 1
       /\ \A j \in DOMAIN frames : j # 1 => Advanced[j] = frames[j]
  <2>1. frames[1] \in Calls /\ frames[1].i = m /\ frames[1].center = c
    BY <1>4 DEF c, m
  <2>2. Advanced = [frames EXCEPT ![1] = [frames[1] EXCEPT !.i = m + 1]]
    BY <2>1 DEF Advanced
  <2>3. [frames[1] EXCEPT !.i = m + 1] \in Calls
    BY <1>5, <2>1 DEF Calls
  <2>4. [frames[1] EXCEPT !.i = m + 1].center = c /\ [frames[1] EXCEPT !.i = m + 1].i = m + 1
    BY <2>1 DEF Calls
  <2> DEFINE z == [frames[1] EXCEPT !.i = m + 1]
  <2> HIDE DEF z
  <2>5. Advanced = [frames EXCEPT ![1] = z] /\ z \in Calls /\ z.center = c /\ z.i = m + 1
    BY <2>2, <2>3, <2>4 DEF z
  <2> QED BY <1>4, <2>5
<1> DEFINE new == [center |-> q, i |-> 1]
           o == IF deeper THEN 1 ELSE 0
<1>11. /\ frames' \in Seq(Calls)
       /\ \A j \in DOMAIN Advanced : j + o \in DOMAIN frames' /\ frames'[j + o] = Advanced[j]
       /\ deeper => 1 \in DOMAIN frames' /\ frames'[1] = new
       /\ \A j \in DOMAIN frames' : \/ deeper /\ frames'[j] = new
                                    \/ \E l \in DOMAIN Advanced : frames'[j] = Advanced[l]
  <2> HIDE DEF deeper
  <2>1. CASE deeper
    <3>1. new \in Calls
      BY <1>6 DEF Calls
    <3> HIDE DEF new
    <3>2. frames' = <<new>> \o Advanced /\ <<new>> \in Seq(Calls) /\ Len(<<new>>) = 1 /\ <<new>>[1] = new
      BY <1>1, <2>1, <3>1 DEF new
    <3>3. /\ frames' \in Seq(Calls) /\ Len(frames') = 1 + Len(Advanced)
          /\ \A j \in 1..1 + Len(Advanced) : frames'[j] = IF j <= 1 THEN new ELSE Advanced[j - 1]
      BY <1>10, <3>2, ConcatProperties
    <3>4. DOMAIN frames' = 1..1 + Len(Advanced) /\ DOMAIN Advanced = 1..Len(Advanced) /\ Len(Advanced) \in Nat
      BY <1>10, <3>3
    <3>5. 1 \in DOMAIN frames' /\ frames'[1] = new
      BY <3>3, <3>4
    <3>6. ASSUME NEW j \in DOMAIN Advanced PROVE j + 1 \in DOMAIN frames' /\ frames'[j + 1] = Advanced[j]
      <4>1. j + 1 \in 1..1 + Len(Advanced) /\ ~(j + 1 <= 1) /\ (j + 1) - 1 = j
        BY <3>4
      <4> QED BY <3>3, <3>4, <4>1
    <3>7. ASSUME NEW j \in DOMAIN frames'
          PROVE  frames'[j] = new \/ \E l \in DOMAIN Advanced : frames'[j] = Advanced[l]
      <4>1. j = 1 \/ (~(j <= 1) /\ j - 1 \in DOMAIN Advanced)
        BY <3>4
      <4> QED BY <3>3, <3>4, <4>1
    <3> QED BY <2>1, <3>3, <3>5, <3>6, <3>7
  <2>2. CASE ~deeper
    BY <1>1, <1>10, <2>2
  <2> QED BY <2>1, <2>2
<1>12. ClustersTypeOK' /\ Unstarted'
  <2>1. scan # 0
    BY <1>1 DEF ClustersInv, Unstarted
  <2>2. clustered' \subseteq DOMAIN pcl
    BY <1>1, <1>6 DEF ClustersInv, ClustersTypeOK
  <2> QED BY <1>1, <1>7, <1>11, <2>1, <2>2 DEF ClustersInv, ClustersTypeOK, Unstarted, Calls
<1>13. deeper => q \in ToSet(cluster') \cap Cores
  BY <1>7, <1>8
<1>14. ASSUME NEW r \in expanded', NEW k \in DOMAIN neighbors[r]
       PROVE  \/ neighbors[r][k] \in clustered'
              \/ \E j \in DOMAIN frames' : frames'[j].center = r /\ frames'[j].i <= k
  <2>1. neighbors[r] \in Seq(DOMAIN pcl) /\ k \in Nat /\ 1 <= k
    <3>1. r \in DOMAIN pcl
      BY <1>1, <1>6, <1>8, <1>14 DEF ClustersInv, ClustersTypeOK
    <3>2. neighbors[r] \in Seq(DOMAIN pcl)
      BY <3>1 DEF ClustersInv, ClustersTypeOK
    <3> QED BY <3>2
  <2>2. CASE r \in expanded
    <3>1. CASE neighbors[r][k] \in clustered
      BY <1>1, <3>1
    <3>2. CASE \E j \in DOMAIN frames : frames[j].center = r /\ frames[j].i <= k
      <4>1. PICK j \in DOMAIN frames : frames[j].center = r /\ frames[j].i <= k
        BY <3>2
      <4>2. j + o \in DOMAIN frames' /\ frames'[j + o] = Advanced[j]
        BY <1>10, <1>11
      <4>3. CASE j # 1
        <5>1. frames'[j + o].center = r /\ frames'[j + o].i <= k
          BY <1>10, <4>1, <4>2, <4>3
        <5> QED BY <4>2, <5>1
      <4>4. CASE j = 1
        <5>1. c = r /\ m <= k
          BY <4>1, <4>4 DEF c, m
        <5>2. CASE k = m
          BY <1>1, <5>1, <5>2 DEF q
        <5>3. CASE k # m
          <6>1. m + 1 <= k
            BY <1>5, <2>1, <5>1, <5>3
          <6>2. frames'[j + o].center = r /\ frames'[j + o].i <= k
            BY <1>10, <4>2, <4>4, <5>1, <6>1
          <6> QED BY <4>2, <6>2
        <5> QED BY <5>2, <5>3
      <4> QED BY <4>3, <4>4
    <3> QED BY <2>2, <3>1, <3>2 DEF ClustersInv, Attended
  <2>3. CASE r \notin expanded
    <3>1. deeper /\ r = q
      BY <1>1, <1>14, <2>3
    <3>2. 1 \in DOMAIN frames' /\ frames'[1].center = r /\ frames'[1].i <= k
      BY <1>11, <2>1, <3>1
    <3> QED BY <3>2
  <2> QED BY <2>2, <2>3
<1>15. ASSUME NEW j \in DOMAIN frames' PROVE frames'[j].center \in ToSet(cluster') \cap Cores
  <2>1. CASE deeper /\ frames'[j] = new
    BY <1>13, <2>1
  <2>2. CASE \E l \in DOMAIN Advanced : frames'[j] = Advanced[l]
    <3>1. PICK l \in DOMAIN Advanced : frames'[j] = Advanced[l]
      BY <2>2
    <3>2. frames[l].center \in ToSet(cluster) \cap Cores
      BY <1>10 DEF ClustersInv, Attended
    <3>3. frames'[j].center \in ToSet(cluster) \cap Cores
      <4>1. CASE l = 1
        BY <1>5, <1>10, <3>1, <4>1
      <4>2. CASE l # 1
        BY <1>10, <3>1, <3>2, <4>2
      <4> QED BY <4>1, <4>2
    <3> QED BY <1>7, <3>3
  <2> QED BY <1>11, <2>1, <2>2
<1>16. Attended'
  <2>1. \A r \in Before' \cap Cores' : ToSet(neighbors'[r]) \subseteq Before'
    BY <1>1, <1>2, <1>3 DEF ClustersInv, Attended
  <2> QED BY <1>1, <1>2, <1>14, <1>15, <2>1 DEF Attended
<1>17. Growth'
  <2>1. ToSet(cluster) \subseteq ToSet(cluster') /\ cluster # <<>>
    <3>1. cluster # <<>>
      BY <1>5, ToSetFew
    <3> QED BY <1>7, <3>1
  <2>2. scan \in ToSet(cluster') \cap Cores
    BY <2>1 DEF ClustersInv, Growth
  <2>3. ASSUME NEW p \in ToSet(cluster')
        PROVE  p \in Cores \/ \E r \in ToSet(cluster') \cap Cores : p \in ToSet(neighbors[r])
    <3>1. CASE p \in ToSet(cluster)
      BY <2>1, <3>1 DEF ClustersInv, Growth
    <3>2. CASE p \notin ToSet(cluster)
      <4>1. p = q
        BY <1>7, <2>3, <3>2
      <4> QED BY <1>5, <1>6, <2>1, <4>1
    <3> QED BY <3>1, <3>2
  <2>4. ASSUME NEW S \in SUBSET Cores, scan \in S, Closes(S)
        PROVE  ToSet(cluster') \cap Cores \subseteq S
    <3>1. ToSet(cluster) \cap Cores \subseteq S
      BY <2>1, <2>4 DEF ClustersInv, Growth
    <3>2. IsCore(q) => q \in S
      BY <1>5, <1>6, <2>4, <3>1 DEF Closes
    <3> QED BY <1>7, <1>8, <3>1, <3>2
  <2> QED BY <1>1, <1>2, <2>2, <2>3, <2>4 DEF Growth
<1>18. Passed'
  BY <1>1, <1>2 DEF ClustersInv, Passed
<1> QED BY <1>2, <1>9, <1>12, <1>16, <1>17, <1>18 DEF ClustersInv

LEMMA ReturnStep == ClustersInv /\ Return => ClustersInv'
<1> SUFFICES ASSUME ClustersInv, Return PROVE ClustersInv'
  OBVIOUS
<1>1. /\ UNCHANGED <<pcl, _min_neighbors, neighbors, scan, cluster, clustered, expanded, _clusters>>
      /\ frames # <<>> /\ frames' = Tail(frames)
      /\ ~(frames[1].i <= Len(neighbors[frames[1].center]))
  BY DEF Return, Going
<1>2. /\ Cores' = Cores /\ Mutual' /\ \A S : Closes(S)' <=> Closes(S)
      /\ Before' = Before
  BY <1>1, CloudSame DEF Before
<1>3. frames \in Seq(Calls) /\ frames[1] \in Calls
  BY <1>1 DEF ClustersInv, ClustersTypeOK
<1>4. /\ frames' \in Seq(Calls)
      /\ \A j \in DOMAIN frames : j # 1 => j - 1 \in DOMAIN frames' /\ frames'[j - 1] = frames[j]
      /\ \A j \in DOMAIN frames' : j + 1 \in DOMAIN frames /\ frames'[j] = frames[j + 1]
  BY <1>1, <1>3
<1>5. ClustersTypeOK' /\ Unstarted'
  BY <1>1, <1>4 DEF ClustersInv, ClustersTypeOK, Unstarted, Calls
<1>6. Membership' /\ Growth' /\ Passed'
  BY <1>1, <1>2 DEF ClustersInv, Membership, Growth, Passed
<1>7. Attended'
  <2>1. ASSUME NEW r \in expanded, NEW k \in DOMAIN neighbors[r], neighbors[r][k] \notin clustered
        PROVE  \E j \in DOMAIN frames' : frames'[j].center = r /\ frames'[j].i <= k
    <3>1. PICK j \in DOMAIN frames : frames[j].center = r /\ frames[j].i <= k
      BY <2>1 DEF ClustersInv, Attended
    <3>2. j # 1
      <4> SUFFICES ASSUME j = 1 PROVE FALSE
        OBVIOUS
      <4>1. r \in DOMAIN pcl
        BY <1>3, <3>1 DEF Calls
      <4>2. neighbors[r] \in Seq(DOMAIN pcl)
        BY <4>1 DEF ClustersInv, ClustersTypeOK
      <4>3. frames[1].i \in Nat /\ k \in Nat /\ k <= Len(neighbors[r]) /\ Len(neighbors[r]) \in Nat
        BY <1>3, <4>2 DEF Calls
      <4> QED BY <1>1, <3>1, <4>3
    <3> QED BY <1>4, <3>1, <3>2
  <2>2. \A j \in DOMAIN frames' : frames'[j].center \in ToSet(cluster) \cap Cores
    BY <1>4 DEF ClustersInv, Attended
  <2>3. \A r \in Before' \cap Cores' : ToSet(neighbors'[r]) \subseteq Before'
    BY <1>1, <1>2 DEF ClustersInv, Attended
  <2> QED BY <1>1, <1>2, <2>1, <2>2, <2>3 DEF Attended
<1> QED BY <1>2, <1>5, <1>6, <1>7 DEF ClustersInv

\* When no call is in progress, everything next to a point in a cluster is in one.
LEMMA AllAttended ==
    ASSUME ClustersInv, frames = <<>>
    PROVE  \A r \in clustered \cap Cores : ToSet(neighbors[r]) \subseteq clustered
<1> SUFFICES ASSUME NEW r \in clustered \cap Cores, NEW q \in ToSet(neighbors[r])
             PROVE  q \in clustered
  OBVIOUS
<1>1. r \in expanded
  BY DEF ClustersInv, Membership
<1>2. PICK k \in DOMAIN neighbors[r] : q = neighbors[r][k]
  BY DEF ToSet
<1> QED BY <1>1, <1>2 DEF ClustersInv, Attended

LEMMA AddClusterStep == ClustersInv /\ AddCluster => ClustersInv'
<1> SUFFICES ASSUME ClustersInv, AddCluster PROVE ClustersInv'
  OBVIOUS
<1>1. /\ UNCHANGED <<pcl, _min_neighbors, neighbors, frames, clustered, expanded>>
      /\ frames = <<>> /\ cluster # <<>> /\ scan' = scan + 1
      /\ _clusters' = Append(_clusters, cluster) /\ cluster' = <<>>
  BY DEF AddCluster
<1>2. /\ Cores' = Cores /\ Mutual' /\ DOMAIN pcl = 1..Len(pcl) /\ Len(pcl) \in Nat
      /\ Cores \subseteq DOMAIN pcl
  BY <1>1, CloudSame
<1>3. /\ clustered = Before \cup ToSet(cluster) /\ expanded = clustered \cap Cores
      /\ ToSet(cluster') = {} /\ IsInjective(cluster')
  BY <1>1, ListsFew DEF Lists, ClustersInv, Membership
<1>4. Before' = clustered
  <2>1. /\ _clusters \in Seq(Seq(DOMAIN pcl)) /\ cluster \in Seq(DOMAIN pcl)
    BY DEF ClustersInv, ClustersTypeOK
  <2> DEFINE n == Len(_clusters)
  <2>2. /\ DOMAIN _clusters' = 1..n + 1 /\ DOMAIN _clusters = 1..n /\ n \in Nat
        /\ _clusters'[n + 1] = cluster
        /\ \A j \in 1..n : _clusters'[j] = _clusters[j]
    BY <1>1, <2>1
  <2>3. \A j : j \in 1..n + 1 <=> j \in 1..n \/ j = n + 1
    BY <2>2
  <2> HIDE DEF n
  <2>4. Before' = UNION {ToSet(_clusters'[j]) : j \in DOMAIN _clusters'}
    BY DEF Before
  <2>5. Before' = Before \cup ToSet(cluster)
    BY <2>2, <2>3, <2>4 DEF Before
  <2> QED BY <1>3, <2>5
<1>5. ClustersTypeOK' /\ Unstarted'
  <2>1. _clusters' \in Seq(Seq(DOMAIN pcl)) /\ cluster' \in Seq(DOMAIN pcl)
    BY <1>1 DEF ClustersInv, ClustersTypeOK
  <2>2. scan' \in Nat /\ scan' # 0
    BY <1>1 DEF ClustersInv, ClustersTypeOK
  <2> QED BY <1>1, <2>1, <2>2 DEF ClustersInv, ClustersTypeOK, Unstarted, Calls
<1>6. Membership' /\ Growth'
  BY <1>1, <1>2, <1>3, <1>4 DEF Membership, Growth
<1>7. Attended'
  <2>1. \A r \in expanded : \A k \in DOMAIN neighbors[r] : neighbors[r][k] \in clustered
    BY <1>1, <1>3, AllAttended DEF ToSet
  <2>2. DOMAIN frames' = {}
    BY <1>1
  <2>3. \A r \in Before' \cap Cores' : ToSet(neighbors'[r]) \subseteq Before'
    BY <1>1, <1>2, <1>4, AllAttended
  <2> QED BY <1>1, <2>1, <2>2, <2>3 DEF Attended
<1>8. Passed'
  <2> SUFFICES ASSUME NEW p \in Cores, p < scan + 1 PROVE p \in clustered
    BY <1>1, <1>2 DEF Passed
  <2>1. scan \in clustered /\ scan \in Nat
    BY <1>1, <1>3 DEF ClustersInv, Growth, ClustersTypeOK
  <2>2. p \in 1..Len(pcl)
    BY <1>2
  <2>3. p < scan \/ p = scan
    BY <1>2, <2>1, <2>2
  <2> QED BY <2>1, <2>3 DEF ClustersInv, Passed
<1> QED BY <1>2, <1>5, <1>6, <1>7, <1>8 DEF ClustersInv

-----------------------------------------------------------------------------
\* DensityClusters counts the neighbours, the code the entries of their list.
LEMMA ListCount ==
    ASSUME NEW S, NEW s \in Seq(S), IsInjective(s)
    PROVE  Cardinality(ToSet(s)) = Len(s)
<1>1. Len(s) \in Nat /\ DOMAIN s = 1..Len(s)
  OBVIOUS
<1>2. s \in [1..Len(s) -> ToSet(s)]
  BY <1>1 DEF ToSet
<1>3. s \in Bijection(1..Len(s), ToSet(s))
  BY <1>1, <1>2 DEF ToSet, Bijection, Injection, Surjection, IsInjective
<1>4. ExistsBijection(1..Len(s), ToSet(s))
  BY <1>3 DEF ExistsBijection
<1>5. IsFiniteSet(1..Len(s)) /\ Cardinality(1..Len(s)) = Len(s)
  <2>1. Cardinality(1..Len(s)) = IF 1 > Len(s) THEN 0 ELSE Len(s) - 1 + 1
    BY <1>1, FS_Interval
  <2> QED BY <1>1, <2>1, FS_Interval
<1> QED BY <1>4, <1>5, FS_Bijection

LEMMA CoreSame ==
    ASSUME ClustersInv, NEW p \in DOMAIN pcl
    PROVE  Density!Core(p) <=> p \in Cores
<1>1. neighbors[p] \in Seq(DOMAIN pcl) /\ IsInjective(neighbors[p])
  BY DEF ClustersInv, ClustersTypeOK, Mutual
<1>2. Cardinality(ToSet(neighbors[p])) = Len(neighbors[p])
  BY <1>1, ListCount
<1>3. Density!Core(p) <=> Cardinality(ToSet(neighbors[p])) >= _min_neighbors
  BY Zenon DEF Density!Core, Density!Cardinality, Cardinality
<1> QED BY <1>2, <1>3 DEF Cores, IsCore

LEMMA NeighborsArePoints ==
    ASSUME ClustersInv, NEW p \in DOMAIN pcl
    PROVE  ToSet(neighbors[p]) \subseteq DOMAIN pcl
<1>1. neighbors[p] \in Seq(DOMAIN pcl)
  BY DEF ClustersInv, ClustersTypeOK
<1> QED BY <1>1 DEF ToSet

LEMMA ClosedSame ==
    ASSUME ClustersInv, NEW S \in SUBSET Cores
    PROVE  Density!Closed(S) <=> Closes(S)
<1>1. \A r \in S : r \in DOMAIN pcl /\ ToSet(neighbors[r]) \subseteq DOMAIN pcl
  BY NeighborsArePoints DEF Cores
<1>2. \A r \in S : \A q \in ToSet(neighbors[r]) : Density!Core(q) <=> IsCore(q)
  BY <1>1, CoreSame DEF Cores
<1> QED BY <1>1, <1>2 DEF Density!Closed, Closes

LEMMA ClusteredIs == ClustersInv => Density!Clustered = Before
BY DEF Density!Clustered, Density!ToSet, Before, ToSet

\* A cluster that no call of expand() has left unfinished is all that can be reached from
\* the point it began with, but for what is in a cluster before it.
LEMMA ReachedIs ==
    ASSUME ClustersInv, frames = <<>>, cluster # <<>>
    PROVE  Density!Reached(scan) \ Before = ToSet(cluster)
<1> DEFINE C == ToSet(cluster) \cap Cores
           around == {S \in SUBSET Cores : scan \in S /\ Density!Closed(S)}
           component == {q \in Cores : \A S \in around : q \in S}
<1>1. /\ clustered = Before \cup ToSet(cluster) /\ Before \cap ToSet(cluster) = {}
      /\ scan \in C /\ Cores \subseteq DOMAIN pcl
  BY DEF ClustersInv, Membership, Growth, Cores
<1>2. \A r \in C : ToSet(neighbors[r]) \subseteq clustered /\ ToSet(neighbors[r]) \subseteq DOMAIN pcl
  BY <1>1, AllAttended, NeighborsArePoints
<1>3. Closes(C)
  <2> SUFFICES ASSUME NEW r \in C, NEW q \in ToSet(neighbors[r]), IsCore(q)
               PROVE  q \in C
    BY DEF Closes
  <2>1. q \in clustered /\ q \in Cores /\ r \in DOMAIN pcl
    BY <1>1, <1>2 DEF Cores
  <2>2. r \in ToSet(neighbors[q])
    BY <1>1, <2>1 DEF ClustersInv, Mutual
  <2>3. q \notin Before
    BY <1>1, <2>1, <2>2 DEF ClustersInv, Attended
  <2> QED BY <1>1, <2>1, <2>3
<1>4. component = C
  <2>1. C \in around
    BY <1>1, <1>3, ClosedSame
  <2>2. \A S \in around : C \subseteq S
    BY ClosedSame DEF ClustersInv, Growth
  <2> HIDE DEF around
  <2> QED BY <2>1, <2>2
<1>5. Density!Reached(scan) = component \cup UNION {ToSet(neighbors[q]) : q \in component}
  <2> DEFINE cores == {q \in DOMAIN pcl : Density!Core(q)}
  <2>1. cores = Cores
    BY <1>1, CoreSame
  <2>2. component \subseteq DOMAIN pcl
    BY <1>1
  <2>3. UNION {[p \in DOMAIN pcl |-> ToSet(neighbors[p])][q] : q \in component}
          = UNION {ToSet(neighbors[q]) : q \in component}
    <3> HIDE DEF component
    <3> QED BY <2>2
  <2> QED BY <2>1, <2>3 DEF Density!Reached
<1> HIDE DEF component
<1>6. ToSet(cluster) \subseteq C \cup UNION {ToSet(neighbors[q]) : q \in C}
  BY DEF ClustersInv, Growth
<1> QED BY <1>1, <1>2, <1>4, <1>5, <1>6

\* Every core point is in a cluster when the loop of findClusters() is over.
LEMMA FoundComplete == ClustersInv => (Found => Density!Complete)
<1> SUFFICES ASSUME ClustersInv, Found, NEW p \in DOMAIN pcl, Density!Core(p)
             PROVE  p \in Before
  BY ClusteredIs DEF Density!Complete
<1>1. DOMAIN pcl = 1..Len(pcl) /\ Len(pcl) \in Nat /\ scan \in Nat /\ scan > Len(pcl)
  BY DEF ClustersInv, ClustersTypeOK, Found
<1>2. cluster = <<>>
  BY <1>1 DEF ClustersInv, Growth, Cores
<1>3. p < scan /\ p \in Cores
  BY <1>1, CoreSame
<1>4. p \in clustered
  BY <1>3 DEF ClustersInv, Passed
<1> QED BY <1>2, <1>4, ToSetFew DEF ClustersInv, Membership

LEMMA AddClusterFinds == ClustersInv /\ AddCluster => Density!FindCluster
<1> SUFFICES ASSUME ClustersInv, AddCluster PROVE Density!FindCluster
  OBVIOUS
<1>1. frames = <<>> /\ cluster # <<>> /\ _clusters' = Append(_clusters, cluster)
  BY DEF AddCluster
<1>2. scan \in ToSet(cluster) /\ scan \in Cores /\ scan \in DOMAIN pcl /\ scan \notin Before
  BY <1>1 DEF ClustersInv, Growth, Membership, Cores
<1>3. scan \in DOMAIN pcl \ Density!Clustered /\ Density!Core(scan)
  BY <1>2, ClusteredIs, CoreSame
<1>4. _clusters' # <<>> /\ Density!Last(_clusters') = cluster
  <2>1. _clusters \in Seq(Seq(DOMAIN pcl)) /\ cluster \in Seq(DOMAIN pcl)
    BY DEF ClustersInv, ClustersTypeOK
  <2>2. Len(_clusters') = Len(_clusters) + 1 /\ _clusters'[Len(_clusters')] = cluster /\ _clusters' # <<>>
    BY <1>1, <2>1
  <2> QED BY <2>2 DEF Density!Last
<1>5. Density!Reached(scan) \ Density!Clustered = ToSet(cluster)
  BY <1>1, ReachedIs, ClusteredIs
<1>6. Density!ToSet(cluster) = ToSet(cluster) /\ Density!IsInjective(cluster)
  BY DEF Density!ToSet, ToSet, Density!IsInjective, IsInjective, ClustersInv, Membership
<1> QED BY <1>1, <1>3, <1>4, <1>5, <1>6 DEF Density!FindCluster

LEMMA ClustersNext == ClustersInv /\ [FindClusters]_dbscan_vars => ClustersInv'
<1> SUFFICES ASSUME ClustersInv, [FindClusters]_dbscan_vars PROVE ClustersInv'
  OBVIOUS
<1>1. CASE FindNeighbors BY <1>1, FindNeighborsStep
<1>2. CASE PassOver BY <1>2, PassOverStep
<1>3. CASE StartCluster BY <1>3, StartClusterStep
<1>4. CASE Expand BY <1>4, ExpandStep
<1>5. CASE Return BY <1>5, ReturnStep
<1>6. CASE AddCluster BY <1>6, AddClusterStep
<1>7. CASE UNCHANGED dbscan_vars
  <2>1. UNCHANGED <<pcl, _min_neighbors, neighbors, scan, frames, cluster, clustered, expanded, _clusters>>
    BY <1>7 DEF dbscan_vars
  <2>2. Cores' = Cores /\ Mutual' /\ Before' = Before /\ \A S : Closes(S)' <=> Closes(S)
    BY <2>1, CloudSame DEF Before
  <2>3. ClustersTypeOK' /\ Unstarted'
    BY <2>1 DEF ClustersInv, ClustersTypeOK, Unstarted, Calls
  <2>4. Membership' /\ Attended' /\ Growth' /\ Passed'
    BY <2>1, <2>2 DEF ClustersInv, Membership, Attended, Growth, Passed
  <2> QED BY <2>2, <2>3, <2>4 DEF ClustersInv
<1> QED BY <1>1, <1>2, <1>3, <1>4, <1>5, <1>6, <1>7 DEF FindClusters

LEMMA ClustersStep ==
    ClustersInv /\ [FindClusters]_dbscan_vars => [Density!FindCluster]__clusters
<1> SUFFICES ASSUME ClustersInv, [FindClusters]_dbscan_vars
             PROVE  Density!FindCluster \/ UNCHANGED _clusters
  OBVIOUS
<1>1. AddCluster \/ _clusters' = _clusters
  BY DEF FindClusters, FindNeighbors, PassOver, StartCluster, Expand, Return, dbscan_vars
<1> QED BY <1>1, AddClusterFinds

\* What DBSCAN.cpp finds, point by point, is the clusters of DensityClusters: a cluster
\* holds all that can be reached from a core point but for what is in one before it, and
\* each of its points once, and none is missing at the end; whatever the cloud, the
\* radius and the number of neighbours.
THEOREM ClustersAreDense == FindClustersSpec => ImplementsDensity
<1>1. (\E cloud \in Seq([x : Int, y : Int]) : FindClustersInit(cloud)) => ClustersInv
  BY ClustersInitInv DEF Point
<1>2. (\E cloud \in Seq([x : Int, y : Int]) : FindClustersInit(cloud)) => Density!Init
  BY DEF FindClustersInit, Density!Init
<1> QED BY <1>1, <1>2, ClustersNext, ClustersStep, FoundComplete, PTL
        DEF FindClustersSpec, ImplementsDensity, Density!Spec
==============================================================================
