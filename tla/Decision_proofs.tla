--------------------------- MODULE Decision_proofs ---------------------------
(***************************************************************************)
(* Proofs about decision_igvc: the arbitration of FinalDecision, for every *)
(* set of Twists and every size of the queues, and two of the sources it   *)
(* arbitrates between.                                                     *)
(***************************************************************************)
EXTENDS FinalDecision, GpsMover, LidarDecision, Shared_proofs

LEMMA TwistsOfType == \A d \in Source : TwistsOf(d) \subseteq Twist
BY DecisionAssumption DEF TwistsOf, Source

LEMMA ArbitratorType ==
    ASSUME NEW r \in [Source -> Twist]
    PROVE  Arbitrator(r) \in Twist
BY DEF Arbitrator, Source

-----------------------------------------------------------------------------
LEMMA TypeStep == TypeOK /\ [Next]_vars => TypeOK'
<1> SUFFICES ASSUME TypeOK, [Next]_vars PROVE TypeOK'
  OBVIOUS
<1>1. ASSUME NEW d \in Source, NEW t \in TwistsOf(d), Decide(d, t) PROVE TypeOK'
  <2> DEFINE q == Deliver(inbox[d], t, QueueSize)
  <2>1. t \in Twist
    BY TwistsOfType
  <2>2. q \in Seq(Twist) /\ Len(q) <= QueueSize
    BY <2>1, DeliverFacts, DecisionAssumption DEF TypeOK
  <2> HIDE DEF q
  <2>3. inbox' = [inbox EXCEPT ![d] = q]
    BY <1>1 DEF Decide, q
  <2>4. inbox' \in [Source -> Seq(Twist)] /\ \A e \in Source : Len(inbox'[e]) <= QueueSize
    BY <2>2, <2>3 DEF TypeOK
  <2> QED BY <1>1, <2>1, <2>4 DEF Decide, TypeOK
<1>2. ASSUME NEW d \in Source, CallBack(d) PROVE TypeOK'
  <2>1. /\ Head(inbox[d]) \in Twist /\ Tail(inbox[d]) \in Seq(Twist)
        /\ Len(Tail(inbox[d])) = Len(inbox[d]) - 1
    BY <1>2 DEF TypeOK, CallBack
  <2>2. Len(Tail(inbox[d])) <= QueueSize
    BY <2>1, DecisionAssumption DEF TypeOK
  <2>3. inbox' \in [Source -> Seq(Twist)] /\ \A e \in Source : Len(inbox'[e]) <= QueueSize
    BY <1>2, <2>1, <2>2 DEF TypeOK, CallBack
  <2>4. recent' \in [Source -> Twist]
    BY <1>2, <2>1 DEF TypeOK, CallBack
  <2>5. cmd_vel' \in Seq(Twist) /\ Len(cmd_vel') <= CmdQueueSize
    BY <1>2, <2>4, ArbitratorType, DeliverFacts, DecisionAssumption DEF TypeOK, CallBack
  <2> QED BY <1>2, <2>3, <2>4, <2>5 DEF TypeOK, CallBack
<1>3. CASE TwistCallback
  <2>1. Head(cmd_vel) \in Twist /\ Tail(cmd_vel) \in Seq(Twist)
        /\ Len(Tail(cmd_vel)) = Len(cmd_vel) - 1
    BY <1>3 DEF TypeOK, TwistCallback
  <2>2. Len(cmd_vel') <= CmdQueueSize
    BY <1>3, <2>1, DecisionAssumption DEF TypeOK, TwistCallback
  <2> QED BY <1>3, <2>1, <2>2 DEF TypeOK, TwistCallback
<1>4. CASE UNCHANGED vars
  BY <1>4 DEF vars, TypeOK
<1> QED BY <1>1, <1>2, <1>3, <1>4 DEF Next

\* Settled is about a moment with empty queues; what makes it inductive is what
\* the queues hold on the way there.
IInv == TypeOK /\ NewestDecision /\ NewestCommand

LEMMA InitInv == Init => IInv
<1> SUFFICES ASSUME Init PROVE IInv
  OBVIOUS
<1>1. Zero \in Twist
  BY DEF Zero, Twist
<1>2. TypeOK
  BY <1>1, DecisionAssumption DEF Init, TypeOK
<1>3. NewestDecision
  BY DEF Init, NewestDecision, Newest
<1>4. NewestCommand
  BY DEF Init, NewestCommand, Newest, Arbitrator, Source
<1> QED BY <1>2, <1>3, <1>4 DEF IInv

LEMMA StepInv == IInv /\ [Next]_vars => IInv'
<1> SUFFICES ASSUME IInv, [Next]_vars PROVE NewestDecision' /\ NewestCommand'
  BY TypeStep DEF IInv
<1> USE DEF IInv
<1>1. ASSUME NEW d \in Source, NEW t \in TwistsOf(d), Decide(d, t)
      PROVE  NewestDecision' /\ NewestCommand'
  <2> DEFINE q == Deliver(inbox[d], t, QueueSize)
  <2>1. t \in Twist
    BY TwistsOfType
  <2>2. q # <<>> /\ q[Len(q)] = t
    BY <2>1, DeliverFacts, DecisionAssumption DEF TypeOK
  <2>3. inbox' = [inbox EXCEPT ![d] = q]
    BY <1>1 DEF Decide
  <2> HIDE DEF q
  <2>4. ASSUME NEW e \in Source PROVE Newest(inbox'[e], recent'[e]) = sent'[e]
    <3>1. CASE e = d
      BY <1>1, <2>2, <2>3, <3>1 DEF Decide, TypeOK, Newest
    <3>2. CASE e # d
      BY <1>1, <2>3, <3>2 DEF Decide, TypeOK, NewestDecision
    <3> QED BY <3>1, <3>2
  <2> QED BY <1>1, <2>4 DEF Decide, NewestDecision, NewestCommand
<1>2. ASSUME NEW d \in Source, CallBack(d) PROVE NewestDecision' /\ NewestCommand'
  <2>1. inbox[d] \in Seq(Twist) /\ inbox[d] # <<>>
    BY <1>2 DEF TypeOK, CallBack
  <2>2. Newest(Tail(inbox[d]), Head(inbox[d])) = Newest(inbox[d], recent[d])
    BY <2>1, HandleFacts
  <2>3. ASSUME NEW e \in Source PROVE Newest(inbox'[e], recent'[e]) = sent'[e]
    <3>1. CASE e = d
      BY <1>2, <2>2, <3>1 DEF CallBack, TypeOK, NewestDecision
    <3>2. CASE e # d
      BY <1>2, <3>2 DEF CallBack, TypeOK, NewestDecision
    <3> QED BY <3>1, <3>2
  <2>4. recent' \in [Source -> Twist]
    BY TypeStep DEF TypeOK
  <2> DEFINE q == Deliver(cmd_vel, Arbitrator(recent'), CmdQueueSize)
  <2>5. q # <<>> /\ q[Len(q)] = Arbitrator(recent')
    BY <2>4, ArbitratorType, DeliverFacts, DecisionAssumption DEF TypeOK
  <2>6. cmd_vel' = q
    BY <1>2 DEF CallBack
  <2> HIDE DEF q
  <2>7. NewestCommand'
    BY <2>5, <2>6 DEF NewestCommand, Newest
  <2> QED BY <2>3, <2>7 DEF NewestDecision
<1>3. CASE TwistCallback
  <2>1. cmd_vel \in Seq(Twist) /\ cmd_vel # <<>>
    BY <1>3 DEF TypeOK, TwistCallback
  <2>2. Newest(Tail(cmd_vel), Head(cmd_vel)) = Newest(cmd_vel, driven)
    BY <2>1, HandleFacts
  <2> QED BY <1>3, <2>2 DEF TwistCallback, NewestDecision, NewestCommand
<1>4. CASE UNCHANGED vars
  BY <1>4 DEF vars, NewestDecision, NewestCommand
<1> QED BY <1>1, <1>2, <1>3, <1>4 DEF Next

\* At any moment the newest command, waiting or driven, arbitrates what the
\* callbacks have seen (publishTwist after every assignment to recent_*).
THEOREM CommandCurrent == Spec => []NewestCommand
<1>1. IInv => NewestCommand
  BY DEF IInv
<1> QED BY InitInv, StepInv, <1>1, PTL DEF Spec

\* When nothing is waiting, the robot does what arbitration of the latest word of
\* each source says, whatever was discarded on the way.
THEOREM SettledArbitration == Spec => []Settled
<1>1. IInv => Settled
  <2> SUFFICES ASSUME IInv, cmd_vel = <<>>, \A d \in Source : inbox[d] = <<>>
               PROVE  driven = Arbitrator(sent)
    BY DEF Settled
  <2>1. driven = Arbitrator(recent)
    BY DEF IInv, NewestCommand, Newest
  <2>2. recent \in [Source -> Twist] /\ sent \in [Source -> Twist]
    BY DEF IInv, TypeOK
  <2>3. \A d \in Source : recent[d] = sent[d]
    BY DEF IInv, NewestDecision, Newest
  <2>4. recent = sent
    BY <2>2, <2>3
  <2> QED BY <2>1, <2>4
<1> QED BY InitInv, StepInv, <1>1, PTL DEF Spec

-----------------------------------------------------------------------------
\* The turning angle of GpsMover, for every heading and every pair of points.
\* Folding a difference of angles loses nothing but whole turns, and leaves at
\* most half a turn either way.
LEMMA FoldCorrect ==
    ASSUME NEW from \in Int, NEW to \in Int, to # NaN
    PROVE  /\ MinAngularChange(from, to) \in -Half..Half
           /\ (from + MinAngularChange(from, to) - to) % Turn = 0
<1> DEFINE diff == Fmod(to - from, Turn)
<1>1. diff \in -15..15 /\ (from + diff - to) % 16 = 0
  <2>1. CASE to - from >= 0
    <3>1. diff = (to - from) % 16
      BY <2>1 DEF Fmod, Turn
    <3> QED BY <3>1
  <2>2. CASE ~(to - from >= 0)
    <3>1. diff = -((-(to - from)) % 16)
      BY <2>2 DEF Fmod, Turn
    <3> QED BY <3>1
  <2> QED BY <2>1, <2>2
<1>2. MinAngularChange(from, to) = IF Abs(diff) > 8
        THEN (16 - Abs(diff)) * (IF diff > 0 THEN -1 ELSE 1) ELSE diff
  BY DEF MinAngularChange, Half, Turn
<1> HIDE DEF diff
<1>3. /\ MinAngularChange(from, to) \in {diff, diff - 16, diff + 16}
      /\ MinAngularChange(from, to) \in -8..8
  <2>0. diff \in -15..15
    BY <1>1
  <2>1. CASE diff > 8
    <3>1. Abs(diff) = diff
      BY <2>0, <2>1 DEF Abs
    <3>2. MinAngularChange(from, to) = (16 - diff) * (-1)
      <4>1. diff > 0 /\ Abs(diff) > 8
        BY <2>0, <2>1, <3>1
      <4> QED BY <1>2, <3>1, <4>1
    <3> QED BY <2>0, <2>1, <3>2
  <2>2. CASE diff < -8
    <3>1. Abs(diff) = -diff
      BY <2>0, <2>2 DEF Abs
    <3>2. MinAngularChange(from, to) = (16 + diff) * 1
      BY <1>2, <2>0, <2>2, <3>1
    <3> QED BY <2>0, <2>2, <3>2
  <2>3. CASE diff \in -8..8
    <3>1. Abs(diff) \in 0..8
      BY <2>3 DEF Abs
    <3>2. MinAngularChange(from, to) = diff
      BY <1>2, <3>1
    <3> QED BY <2>3, <3>2
  <2> QED BY <2>0, <2>1, <2>2, <2>3
<1>4. ASSUME NEW m \in {diff, diff - 16, diff + 16} PROVE (from + m - to) % 16 = 0
  BY <1>1
<1> QED BY <1>3, <1>4 DEF Half, Turn

LEMMA AtanType ==
    ASSUME NEW rise \in Int, NEW run \in Int
    PROVE  Atan(rise, run) \in -4..4
<1>1. Sign(rise) \in {-1, 0, 1} /\ Sign(run) \in {-1, 0, 1}
  BY DEF Sign
<1>2. Abs(rise) \in Nat /\ Abs(run) \in Nat
  BY DEF Abs
<1>3. Sign(Abs(rise)) \in {0, 1}
  BY <1>2 DEF Sign
<1>4. Sign(rise) * Sign(run) \in {-1, 0, 1}
  BY <1>1
<1> DEFINE st == IF Abs(rise) > Abs(run) THEN 3
                 ELSE IF Abs(rise) = Abs(run) THEN 2 ELSE Sign(Abs(rise))
<1>5. st \in 0..3
  BY <1>3
<1>6. Atan(rise, run) = IF run = 0 THEN 4 * Sign(rise) ELSE Sign(rise) * Sign(run) * st
  BY DEF Atan
<1> HIDE DEF st
<1> QED BY <1>1, <1>4, <1>5, <1>6

LEMMA BearingType ==
    ASSUME NEW x \in Int, NEW y \in Int
    PROVE  AngleBetweenPoints(x, y) \in Int
<1>1. Atan(y, x) \in Int
  BY AtanType
<1> QED BY <1>1 DEF AngleBetweenPoints, NaN, Half

\* What one call of createTwistMessage computes satisfies ShortestTurn.
LEMMA CallCorrect ==
    ASSUME NEW p \in Point, NEW w \in Point, NEW h \in Headings,
           Bearing(p, w) # NaN
    PROVE  /\ MinAngularChange(h, Bearing(p, w)) \in -Half..Half
           /\ (h + MinAngularChange(h, Bearing(p, w)) - Bearing(p, w)) % Turn = 0
<1>0. /\ w.x \in Coordinates /\ w.y \in Coordinates
      /\ p.x \in Coordinates /\ p.y \in Coordinates
  BY DEF Point
<1>1. w.x - p.x \in Int /\ w.y - p.y \in Int /\ h \in Int
  <2>1. w.x \in Int /\ w.y \in Int /\ p.x \in Int /\ p.y \in Int /\ h \in Int
    BY <1>0, MoverAssumption
  <2> QED BY <2>1
<1>2. Bearing(p, w) \in Int
  BY <1>1, BearingType DEF Bearing
<1> QED BY <1>1, <1>2, FoldCorrect

\* From any heading, the turn is a shortest one to the angle computed
\* (minAngularChange).
THEOREM TurnIsShortest == MoverSpec => []ShortestTurn
<1>1. MoverInit => ShortestTurn
  BY CallCorrect DEF MoverInit, ShortestTurn
<1>2. ShortestTurn /\ [MoverNext]_mover_vars => ShortestTurn'
  <2> SUFFICES ASSUME ShortestTurn, [MoverNext]_mover_vars PROVE ShortestTurn'
    OBVIOUS
  <2>1. ASSUME NEW p \in Point, NEW w \in Point, NEW h \in Headings,
               CreateTwistMessage(p, h, w)
        PROVE  ShortestTurn'
    BY <2>1, CallCorrect DEF CreateTwistMessage, ShortestTurn
  <2>2. CASE UNCHANGED mover_vars
    BY <2>2 DEF mover_vars, ShortestTurn
  <2> QED BY <2>1, <2>2 DEF MoverNext
<1> QED BY <1>1, <1>2, PTL DEF MoverSpec

\* Unless the waypoint is due west, the angle computed is its direction.
LEMMA BearingTrue ==
    ASSUME NEW x \in Int, NEW y \in Int, x # 0 \/ y # 0, ~(x < 0 /\ y = 0)
    PROVE  AngleBetweenPoints(x, y) = Direction(x, y)
<1> DEFINE a == Atan(y, x)
<1>1. AngleBetweenPoints(x, y) = IF x < 0 /\ y > 0 THEN a + Half
                                 ELSE IF x < 0 /\ y < 0 THEN a - Half ELSE a
  BY DEF AngleBetweenPoints
<1>2. Direction(x, y) = IF x >= 0 THEN a ELSE IF y >= 0 THEN a + Half ELSE a - Half
  BY DEF Direction
<1> HIDE DEF a
<1> QED BY <1>1, <1>2

LEMMA DirectionType ==
    ASSUME NEW x \in Int, NEW y \in Int
    PROVE  Direction(x, y) \in Int
<1>1. Atan(y, x) \in Int
  BY AtanType
<1> QED BY <1>1 DEF Direction, Half

\* A shortest turn goes to the side the angle is on.
LEMMA FoldSide ==
    ASSUME NEW from \in Int, NEW to \in Int, NEW min \in -Half..Half,
           (from + min - to) % Turn = 0
    PROVE  /\ (to - from) % Turn \in 1..Half - 1 => min > 0
           /\ (to - from) % Turn \in Half + 1..Turn - 1 => min < 0
<1> DEFINE d == to - from
<1>1. d \in Int /\ (min - d) % 16 = 0 /\ min \in -8..8
  BY DEF Half, Turn
<1> HIDE DEF d
<1>2. min >= 0 => d % 16 = min % 16 /\ min % 16 \in {0, 1, 2, 3, 4, 5, 6, 7, 8}
  BY <1>1
<1>3. min < 0 => d % 16 = min + 16
  BY <1>1
<1>4. d % 16 \in 1..7 => min > 0
  BY <1>1, <1>3, <1>2
<1>5. d % 16 \in 9..15 => min < 0
  BY <1>1, <1>2
<1> QED BY <1>4, <1>5 DEF d, Half, Turn

LEMMA DistanceFacts ==
    ASSUME NEW p \in Point, NEW w \in Point
    PROVE  /\ p.x \in Int /\ p.y \in Int /\ w.x \in Int /\ w.y \in Int
           /\ Distance(p, w) \in Nat
           /\ p # w => Distance(p, w) # 0 /\ (w.x - p.x # 0 \/ w.y - p.y # 0)
<1>1. p.x \in Int /\ p.y \in Int /\ w.x \in Int /\ w.y \in Int
  <2>1. p.x \in Coordinates /\ p.y \in Coordinates /\ w.x \in Coordinates /\ w.y \in Coordinates
    BY DEF Point
  <2> QED BY <2>1, MoverAssumption
<1>2. p # w => p.x # w.x \/ p.y # w.y
  BY DEF Point
<1> DEFINE dx == w.x - p.x
           dy == w.y - p.y
<1>3. dx \in Int /\ dy \in Int /\ (p # w => dx # 0 \/ dy # 0)
  BY <1>1, <1>2
<1>4. Distance(p, w) = dx * dx + dy * dy
  BY DEF Distance
<1> HIDE DEF dx, dy
<1>5. dx * dx \in Nat /\ dy * dy \in Nat /\ (dx # 0 => dx * dx # 0) /\ (dy # 0 => dy * dy # 0)
  <2>1. \A n \in Int : n * n >= 0 /\ (n # 0 => n * n # 0) /\ n * n \in Int
    OBVIOUS
  <2> QED BY <1>3, <2>1
<1> QED BY <1>1, <1>3, <1>4, <1>5 DEF dx, dy

\* What one call computes satisfies TowardUnlessWest.
LEMMA CallToward ==
    ASSUME NEW p \in Point, NEW w \in Point, NEW h \in Headings, p # w,
           NEW min, min = MinAngularChange(h, Bearing(p, w))
    PROVE  /\ ~(w.x < p.x /\ w.y = p.y) =>
                LET off == (Direction(w.x - p.x, w.y - p.y) - h) % Turn
                IN  /\ off \in 1..Half - 1 => Angular(min, p, w).direction = 1
                    /\ off \in Half + 1..Turn - 1 => Angular(min, p, w).direction = -1
           /\ min # 0 => Linear(min, p, w) = "finite" /\ Angular(min, p, w).speed = "finite"
<1> DEFINE x == w.x - p.x
           y == w.y - p.y
<1>1. x \in Int /\ y \in Int /\ (x # 0 \/ y # 0) /\ h \in Int
  BY DistanceFacts, MoverAssumption
<1>2. Distance(p, w) \in Nat \ {0}
  BY DistanceFacts
<1>3. Bearing(p, w) \in Int /\ Bearing(p, w) # NaN
  <2>1. Atan(y, x) \in -4..4
    BY <1>1, AtanType
  <2> QED BY <1>1, <2>1 DEF Bearing, AngleBetweenPoints, NaN, Half
<1>4. min \in -Half..Half /\ (h + min - Bearing(p, w)) % Turn = 0 /\ min # NaN
  BY <1>1, <1>3, FoldCorrect DEF NaN, Half
<1>5. Angular(min, p, w).direction = IF min > 0 THEN 1 ELSE -1
  BY <1>4 DEF Angular
<1>6. ASSUME min # 0
      PROVE  Linear(min, p, w) = "finite" /\ Angular(min, p, w).speed = "finite"
  <2>1. Distance(p, w) # NaN /\ Distance(p, w) # 0
    BY <1>2 DEF NaN
  <2> QED BY <1>4, <1>6, <2>1 DEF Linear, Angular, CapValue, Magic
<1>7. ASSUME ~(w.x < p.x /\ w.y = p.y)
      PROVE  /\ (Direction(x, y) - h) % Turn \in 1..Half - 1 => min > 0
             /\ (Direction(x, y) - h) % Turn \in Half + 1..Turn - 1 => min < 0
  <2>1. ~(x < 0 /\ y = 0)
    <3>1. p.x \in Int /\ p.y \in Int /\ w.x \in Int /\ w.y \in Int
      BY DistanceFacts
    <3> QED BY <1>7, <3>1
  <2>2. Bearing(p, w) = Direction(x, y)
    BY <1>1, <2>1, BearingTrue DEF Bearing
  <2> QED BY <1>1, <1>3, <1>4, <2>2, FoldSide
<1>8. (min > 0 => Angular(min, p, w).direction = 1) /\ (min < 0 => Angular(min, p, w).direction = -1)
  BY <1>4, <1>5 DEF Half
<1> QED BY <1>6, <1>7, <1>8

\* createTwistMessage turns the robot to the side the waypoint is on, unless that is due
\* west, at speeds that are numbers, unless the robot heads straight at the angle computed.
THEOREM TurnIsToward == MoverSpec => []TowardUnlessWest
<1> DEFINE Inv == location \in Point /\ waypoint \in Point /\ TowardUnlessWest
<1>1. ASSUME NEW p \in Point, NEW w \in Point, NEW h \in Headings
      PROVE  /\ location = p /\ waypoint = w /\ heading = h /\ bearing = Bearing(p, w)
                /\ turning = MinAngularChange(h, Bearing(p, w))
                /\ angular = Angular(turning, p, w) /\ linear = Linear(turning, p, w) => TowardUnlessWest
  <2> SUFFICES ASSUME location = p, waypoint = w, heading = h,
                      turning = MinAngularChange(h, Bearing(p, w)),
                      angular = Angular(turning, p, w), linear = Linear(turning, p, w)
               PROVE  TowardUnlessWest
    OBVIOUS
  <2>1. CASE p = w
    BY <2>1 DEF TowardUnlessWest, TurnsToward
  <2>2. CASE p # w
    BY <2>2, CallToward DEF TowardUnlessWest, TurnsToward, DueWest, Off, TrueBearing
  <2> QED BY <2>1, <2>2
<1>2. MoverInit => Inv
  BY <1>1 DEF MoverInit
<1>3. Inv /\ [MoverNext]_mover_vars => Inv'
  <2> SUFFICES ASSUME Inv, [MoverNext]_mover_vars PROVE Inv'
    OBVIOUS
  <2>1. ASSUME NEW p \in Point, NEW w \in Point, NEW h \in Headings,
               CreateTwistMessage(p, h, w)
        PROVE  Inv'
    <3>1. /\ location' = p /\ waypoint' = w /\ heading' = h /\ bearing' = Bearing(p, w)
          /\ turning' = MinAngularChange(h, Bearing(p, w))
          /\ angular' = Angular(turning', p, w) /\ linear' = Linear(turning', p, w)
      BY <2>1 DEF CreateTwistMessage
    <3>2. TowardUnlessWest'
      <4>1. CASE p = w
        BY <3>1, <4>1 DEF TowardUnlessWest, TurnsToward
      <4>2. CASE p # w
        BY <3>1, <4>2, CallToward DEF TowardUnlessWest, TurnsToward, DueWest, Off, TrueBearing
      <4> QED BY <4>1, <4>2
    <3> QED BY <3>1, <3>2
  <2>2. CASE UNCHANGED mover_vars
    BY <2>2 DEF mover_vars, TowardUnlessWest, TurnsToward, DueWest, Off, TrueBearing
  <2> QED BY <2>1, <2>2 DEF MoverNext
<1>4. Inv => TowardUnlessWest
  OBVIOUS
<1> HIDE DEF Inv
<1> QED BY <1>2, <1>3, <1>4, PTL DEF MoverSpec
-----------------------------------------------------------------------------
\* The obstacles of LidarDecision, for every scan and every distance that nothing initialises.
Reading == [angle : Int, range : Nat \ {0}]

\* The order of the readings in a sweep, and hits in that order.
Before(inc, a, b) == IF inc > 0 THEN a < b ELSE b < a
InOrderOf(inc, s) == \A j, k \in 1..Len(s) : j < k => Before(inc, s[j].angle, s[k].angle)

LEMMA SweepOrder ==
    ASSUME NEW sweep \in Sweeps, NEW j \in Nat, NEW k \in Nat, j < k
    PROVE  Before(sweep.angle_increment, AngleOf(sweep, j), AngleOf(sweep, k))
<1> DEFINE inc == sweep.angle_increment
           a == sweep.angle_min
           d == k - j
           x == (j - 1) * inc
           y == (k - 1) * inc
<1>1. inc \in Int \ {0} /\ a \in Int /\ d \in Nat \ {0} /\ x \in Int /\ y \in Int
  BY LidarAssumption
<1>2. y - x = d * inc
  <2>1. k - 1 = (j - 1) + d
    OBVIOUS
  <2> HIDE DEF d, inc
  <2>2. y = (j - 1) * inc + d * inc
    BY <1>1, <2>1
  <2> QED BY <1>1, <2>2
<1>3. CASE inc > 0
  <2>1. d * inc > 0
    <3> HIDE DEF d, inc
    <3> QED BY <1>1, <1>3
  <2> DEFINE z == d * inc
  <2>2. y - x = z /\ z > 0
    BY <1>2, <2>1
  <2> HIDE DEF x, y, z, inc, a
  <2>3. a + x < a + y
    BY <1>1, <2>2
  <2> QED BY <1>3, <2>3 DEF Before, AngleOf, x, y, inc, a
<1>4. CASE inc < 0
  <2>1. d * inc < 0
    <3> HIDE DEF d, inc
    <3>1. d * (-inc) > 0 /\ d * (-inc) = -(d * inc) /\ d * inc \in Int
      BY <1>1, <1>4
    <3> DEFINE u == d * inc
               v == d * (-inc)
    <3>2. v > 0 /\ v = -u /\ u \in Int
      BY <3>1
    <3> HIDE DEF u, v
    <3>3. u < 0
      BY <3>2
    <3> QED BY <3>3 DEF u
  <2> DEFINE z == d * inc
  <2>2. y - x = z /\ z < 0
    BY <1>2, <2>1
  <2> HIDE DEF x, y, z, inc, a
  <2>3. a + y < a + x /\ ~(inc > 0)
    BY <1>1, <1>4, <2>2
  <2> QED BY <2>3 DEF Before, AngleOf, x, y, inc, a
<1> QED BY <1>1, <1>3, <1>4

LEMMA HitsAre ==
    ASSUME NEW sweep \in Sweeps, NEW scan \in [1..ScanLength -> Ranges]
    PROVE  /\ Hits(sweep, scan) \in Seq(Reading)
           /\ InOrderOf(sweep.angle_increment, Hits(sweep, scan))
<1> DEFINE n == ScanLength
           inc == sweep.angle_increment
           R(j) == [angle |-> AngleOf(sweep, j), range |-> scan[j]]
           Next1(j, s) == IF InRange(R(j)) THEN Append(s, R(j)) ELSE s
           Def(g) == [j \in 0..n |-> IF j = 0 THEN <<>>
                         ELSE IF InRange(R(j)) THEN Append(g[j - 1], R(j)) ELSE g[j - 1]]
           found == CHOOSE g : g = Def(g)
           step == [e \in (1..n) \X Seq(Reading) |-> Next1(e[1], e[2])]
           UpTo(s, k) == /\ InOrderOf(inc, s)
                         /\ \A i \in 1..Len(s) : \E j \in 1..k : s[i].angle = AngleOf(sweep, j)
<1>1. n \in Nat
  BY LidarAssumption
<1>2. \A j \in 1..n : R(j) \in Reading
  <2> SUFFICES ASSUME NEW j \in 1..n PROVE R(j) \in Reading
    OBVIOUS
  <2>1. AngleOf(sweep, j) \in Int
    <3> DEFINE a == AngleOf(sweep, j)
    <3>1. a \in -90..90
      BY LidarAssumption, Zenon
    <3> HIDE DEF a
    <3>2. a \in Int
      BY <3>1
    <3> QED BY <3>2 DEF a
  <2>2. scan[j] \in Nat \ {0}
    BY LidarAssumption
  <2> QED BY <2>1, <2>2 DEF Reading
<1>3. Hits(sweep, scan) = found[n]
  BY DEF Hits
<1>4. \A j \in 1..n : R(j).angle = AngleOf(sweep, j)
  OBVIOUS
<1> HIDE DEF n, R, found
<1>5. step \in [(1..n) \X Seq(Reading) -> Seq(Reading)]
  <2> SUFFICES ASSUME NEW j \in 1..n, NEW s \in Seq(Reading)
               PROVE  Next1(j, s) \in Seq(Reading)
    OBVIOUS
  <2> QED BY <1>2
<1>6. \A j \in 1..n, s \in Seq(Reading) : step[<<j, s>>] = Next1(j, s)
  OBVIOUS
<1> HIDE DEF step
<1>7. <<>> \in Seq(Reading)
  OBVIOUS
<1>8. PICK f \in [0..n -> Seq(Reading)] : Unrolls(f, n, <<>>, step)
  BY <1>1, <1>5, <1>7, Recursion
<1>9. f = Def(f)
  <2>1. ASSUME NEW j \in 0..n PROVE f[j] = Def(f)[j]
    <3>1. CASE j = 0
      BY <1>8, <3>1 DEF Unrolls
    <3>2. CASE j # 0
      <4>1. j \in 1..n /\ f[j - 1] \in Seq(Reading)
        BY <1>1, <3>2
      <4>2. f[j] = IF InRange(R(j)) THEN Append(f[j - 1], R(j)) ELSE f[j - 1]
        BY <1>6, <1>8, <4>1 DEF Unrolls
      <4> QED BY <3>2, <4>2
    <3> QED BY <3>1, <3>2
  <2>2. f = [j \in 0..n |-> f[j]] /\ Def(f) = [j \in 0..n |-> Def(f)[j]]
    OBVIOUS
  <2> HIDE DEF Def
  <2> QED BY <2>1, <2>2
<1>10. found = Def(found)
  <2> HIDE DEF Def
  <2> QED BY <1>9, Zenon DEF found
<1>11. ASSUME NEW j \in 0..n
       PROVE  found[j] = IF j = 0 THEN <<>> ELSE IF InRange(R(j)) THEN Append(found[j - 1], R(j))
                         ELSE found[j - 1]
  <2>1. ASSUME NEW g, g = Def(g)
        PROVE  g[j] = IF j = 0 THEN <<>> ELSE IF InRange(R(j)) THEN Append(g[j - 1], R(j))
                      ELSE g[j - 1]
    <3>1. Def(g)[j] = IF j = 0 THEN <<>> ELSE IF InRange(R(j)) THEN Append(g[j - 1], R(j))
                      ELSE g[j - 1]
      OBVIOUS
    <3> HIDE DEF Def
    <3> QED BY <2>1, <3>1
  <2> HIDE DEF Def
  <2> QED BY <1>10, <2>1
<1> HIDE DEF Def
<1> DEFINE T == {j \in Nat : j <= n => found[j] \in Seq(Reading) /\ UpTo(found[j], j)}
<1>12. 0 \in T
  <2>1. 0 \in 0..n
    BY <1>1
  <2>2. found[0] = <<>>
    BY <1>11, <2>1, Zenon
  <2>3. UpTo(<<>>, 0)
    BY DEF InOrderOf
  <2> HIDE DEF UpTo
  <2> QED BY <1>7, <2>2, <2>3
<1>13. ASSUME NEW j \in Nat, j \in T PROVE j + 1 \in T
  <2> SUFFICES ASSUME j + 1 <= n
               PROVE  found[j + 1] \in Seq(Reading) /\ UpTo(found[j + 1], j + 1)
    OBVIOUS
  <2>1. j + 1 \in 0..n /\ j + 1 \in 1..n /\ (j + 1) - 1 = j /\ j + 1 # 0
    BY <1>1
  <2> DEFINE s == found[j]
             t == found[j + 1]
             e == R(j + 1)
  <2>2. s \in Seq(Reading) /\ UpTo(s, j) /\ e \in Reading /\ e.angle = AngleOf(sweep, j + 1)
    <3>1. j <= n
      BY <1>1, <2>1
    <3>2. s \in Seq(Reading) /\ UpTo(s, j)
      BY <1>13, <3>1, Zenon
    <3>3. e \in Reading /\ e.angle = AngleOf(sweep, j + 1)
      BY <1>2, <1>4, <2>1, Zenon
    <3> QED BY <3>2, <3>3, Zenon
  <2>3. t = IF InRange(R(j + 1)) THEN Append(found[(j + 1) - 1], R(j + 1))
            ELSE found[(j + 1) - 1]
    BY <1>11, <2>1, Zenon
  <2>4. t = Append(s, e) \/ t = s
    BY <2>1, <2>3
  <2> HIDE DEF s, t, e, inc
  <2>5. CASE t = s
    BY <2>2, <2>5 DEF s, t
  <2>6. CASE t = Append(s, e)
    <3>1. /\ t \in Seq(Reading) /\ Len(t) = Len(s) + 1 /\ Len(s) \in Nat
          /\ t[Len(s) + 1] = e /\ \A i \in 1..Len(s) : t[i] = s[i]
      BY <2>2, <2>6, AppendProperties
    <3>2. \A i \in 1..Len(t) : i \in 1..Len(s) \/ i = Len(s) + 1
      BY <3>1
    <3>3. ASSUME NEW i \in 1..Len(s) PROVE Before(inc, s[i].angle, e.angle)
      <4>1. PICK k \in 1..j : s[i].angle = AngleOf(sweep, k)
        BY <2>2
      <4>2. k \in Nat /\ j + 1 \in Nat /\ k < j + 1
        OBVIOUS
      <4>3. Before(inc, AngleOf(sweep, k), AngleOf(sweep, j + 1))
        BY <4>2, SweepOrder DEF inc
      <4> QED BY <2>2, <4>1, <4>3
    <3>4. InOrderOf(inc, t)
      <4> SUFFICES ASSUME NEW i \in 1..Len(t), NEW k \in 1..Len(t), i < k
                   PROVE  Before(inc, t[i].angle, t[k].angle)
        BY DEF InOrderOf
      <4>1. i \in 1..Len(s) /\ t[i] = s[i]
        BY <3>1, <3>2
      <4>2. CASE k \in 1..Len(s)
        BY <2>2, <3>1, <4>1, <4>2 DEF InOrderOf
      <4>3. CASE k = Len(s) + 1
        BY <3>1, <3>3, <4>1, <4>3
      <4> QED BY <3>2, <4>2, <4>3
    <3>5. ASSUME NEW i \in 1..Len(t) PROVE \E k \in 1..j + 1 : t[i].angle = AngleOf(sweep, k)
      <4>1. CASE i \in 1..Len(s)
        <5>1. PICK k \in 1..j : s[i].angle = AngleOf(sweep, k)
          BY <2>2, <4>1
        <5>2. k \in 1..j + 1
          OBVIOUS
        <5> QED BY <3>1, <4>1, <5>1, <5>2
      <4>2. CASE i = Len(s) + 1
        <5>1. j + 1 \in 1..j + 1
          OBVIOUS
        <5> QED BY <2>2, <3>1, <4>2, <5>1
      <4> QED BY <3>2, <4>1, <4>2
    <3> QED BY <3>1, <3>4, <3>5 DEF t
  <2> QED BY <2>4, <2>5, <2>6
<1>14. n \in T
  <2> HIDE DEF T
  <2> QED BY <1>1, <1>12, <1>13, NatSet
<1> QED BY <1>1, <1>3, <1>14

\* Sorting puts the hits in ascending order.
LEMMA SortedIs ==
    ASSUME NEW sweep \in Sweeps, NEW s \in Seq(Reading),
           InOrderOf(sweep.angle_increment, s)
    PROVE  /\ Sorted(sweep, s) \in Seq(Reading) /\ Len(Sorted(sweep, s)) = Len(s)
           /\ Ascending(Sorted(sweep, s)) /\ ToSet(Sorted(sweep, s)) = ToSet(s)
<1> DEFINE inc == sweep.angle_increment
           n == Len(s)
           t == Reverse(s)
<1>1. CASE inc > 0
  BY <1>1 DEF Sorted, Ascending, InOrderOf, Before
<1>2. CASE ~(inc > 0)
  <2>1. Sorted(sweep, s) = t
    BY <1>2 DEF Sorted
  <2>2. t \in Seq(Reading) /\ Len(t) = n /\ t = [i \in 1..n |-> s[n + 1 - i]] /\ n \in Nat
    BY ReverseIs
  <2> HIDE DEF t
  <2>3. \A j, k \in 1..n : j < k => s[k].angle < s[j].angle
    BY <1>2 DEF InOrderOf, Before
  <2> HIDE DEF n
  <2>4. \A i \in 1..n : n + 1 - i \in 1..n /\ t[i] = s[n + 1 - i]
    BY <2>2
  <2>5. Ascending(t)
    <3> SUFFICES ASSUME NEW j \in 1..n, NEW k \in 1..n, j < k PROVE t[j].angle < t[k].angle
      BY <2>2 DEF Ascending
    <3>1. n + 1 - k < n + 1 - j /\ n + 1 - k \in 1..n /\ n + 1 - j \in 1..n
      BY <2>2
    <3>2. s[n + 1 - j].angle < s[n + 1 - k].angle
      BY <2>3, <3>1
    <3> QED BY <2>4, <3>2
  <2>6. ToSet(t) = ToSet(s)
    <3>1. ToSet(t) = {t[i] : i \in 1..n} /\ ToSet(s) = {s[i] : i \in 1..n}
      <4>1. DOMAIN t = 1..n /\ DOMAIN s = 1..n
        BY <2>2 DEF n
      <4> QED BY <4>1, Zenon DEF ToSet
    <3>2. ASSUME NEW i \in 1..n PROVE s[i] = t[n + 1 - i] /\ n + 1 - i \in 1..n
      <4> DEFINE k == n + 1 - i
      <4>1. k \in 1..n /\ n + 1 - k = i
        BY <2>2
      <4> HIDE DEF k
      <4>2. t[k] = s[i]
        BY <2>4, <4>1
      <4> QED BY <4>1, <4>2 DEF k
    <3> QED BY <2>4, <3>1, <3>2
  <2> QED BY <2>1, <2>2, <2>5, <2>6 DEF n
<1> QED BY <1>1, <1>2

LEMMA AvgType ==
    ASSUME NEW obs \in Seq(Reading), obs # <<>>
    PROVE  AvgAngle(obs) \in Int
<1> DEFINE n == Len(obs)
           Def(g) == [j \in 0..n |-> IF j = 0 THEN 0 ELSE g[j - 1] + obs[j].angle]
           sum == CHOOSE g : g = Def(g)
           step == [e \in (1..n) \X Int |-> e[2] + obs[e[1]].angle]
<1>1. n \in Nat \ {0} /\ \A j \in 1..n : obs[j].angle \in Int
  <2>1. n \in Nat /\ n # 0
    BY EmptySeq
  <2>2. \A j \in 1..n : obs[j] \in Reading
    OBVIOUS
  <2> QED BY <2>1, <2>2 DEF Reading
<1>2. AvgAngle(obs) = sum[n] \div n
  BY DEF AvgAngle
<1> HIDE DEF n, sum
<1>3. step \in [(1..n) \X Int -> Int]
  BY <1>1
<1>4. \A j \in 1..n, s \in Int : step[<<j, s>>] = s + obs[j].angle
  OBVIOUS
<1> HIDE DEF step
<1>5. PICK f \in [0..n -> Int] : Unrolls(f, n, 0, step)
  <2>1. n \in Nat /\ 0 \in Int
    BY <1>1
  <2> QED BY <1>3, <2>1, Recursion
<1>6. f = Def(f)
  <2>1. ASSUME NEW j \in 0..n PROVE f[j] = Def(f)[j]
    <3>1. CASE j = 0
      BY <1>5, <3>1 DEF Unrolls
    <3>2. CASE j # 0
      <4>1. j \in 1..n /\ f[j - 1] \in Int
        BY <1>1, <3>2
      <4>2. f[j] = f[j - 1] + obs[j].angle
        BY <1>4, <1>5, <4>1 DEF Unrolls
      <4> QED BY <3>2, <4>2
    <3> QED BY <3>1, <3>2
  <2>2. f = [j \in 0..n |-> f[j]] /\ Def(f) = [j \in 0..n |-> Def(f)[j]]
    OBVIOUS
  <2> HIDE DEF Def
  <2> QED BY <2>1, <2>2
<1>7. sum = Def(sum)
  <2> HIDE DEF Def
  <2> QED BY <1>6, Zenon DEF sum
<1>8. ASSUME NEW j \in 0..n PROVE sum[j] = IF j = 0 THEN 0 ELSE sum[j - 1] + obs[j].angle
  <2>1. ASSUME NEW g, g = Def(g) PROVE g[j] = IF j = 0 THEN 0 ELSE g[j - 1] + obs[j].angle
    <3>1. Def(g)[j] = IF j = 0 THEN 0 ELSE g[j - 1] + obs[j].angle
      OBVIOUS
    <3> HIDE DEF Def
    <3> QED BY <2>1, <3>1
  <2> HIDE DEF Def
  <2> QED BY <1>7, <2>1
<1> HIDE DEF Def
<1> DEFINE T == {j \in Nat : j <= n => sum[j] \in Int}
<1>9. 0 \in T
  BY <1>1, <1>8
<1>10. ASSUME NEW j \in Nat, j \in T PROVE j + 1 \in T
  <2> SUFFICES ASSUME j + 1 <= n PROVE sum[j + 1] \in Int
    OBVIOUS
  <2>1. j + 1 \in 0..n /\ j + 1 \in 1..n /\ (j + 1) - 1 = j /\ j + 1 # 0
    BY <1>1
  <2>2. sum[j] \in Int /\ obs[j + 1].angle \in Int
    BY <1>1, <1>10, <2>1
  <2>3. sum[j + 1] = sum[(j + 1) - 1] + obs[j + 1].angle
    BY <1>8, <2>1, Zenon
  <2> QED BY <2>1, <2>2, <2>3
<1>11. n \in T
  <2> HIDE DEF T
  <2> QED BY <1>1, <1>9, <1>10, NatSet
<1>12. sum[n] \in Int
  BY <1>1, <1>11
<1> QED BY <1>1, <1>2, <1>12

LEMMA MinDistanceIs ==
    ASSUME NEW obs \in Seq(Reading), obs # <<>>
    PROVE  MinDistance(obs) \in Nat \ {0}
<1> DEFINE Q == {r.range : r \in ToSet(obs)}
<1>1. ToSet(obs) \subseteq Reading /\ obs[1] \in ToSet(obs)
  BY DEF ToSet
<1>2. Q \subseteq Nat \ {0} /\ obs[1].range \in Q
  BY <1>1 DEF Reading
<1> HIDE DEF Q
<1>3. \E t \in Q : \A u \in Q : t <= u
  BY <1>2, LeastNat
<1>4. Min(Q) \in Q
  BY <1>3 DEF Min
<1> QED BY <1>2, <1>4 DEF MinDistance, Q

\* What may be merged; an obstacle of which each reading may be with the next; and
\* obstacles of which none before the k-th may be with the next.
Likeness == {e \in Reading \X Reading : Similar(e[1], e[2])}
Alike(like, obs) == \A j \in 1..Len(obs) - 1 : <<obs[j], obs[j + 1]>> \in like
CutBefore(like, os, k) ==
    \A m \in 1..Len(os) - 1 : m < k => <<Last(os[m]), Head(os[m + 1])>> \notin like
Obstacles(like, os) ==
    /\ os \in Seq(Seq(Reading))
    /\ \A m \in 1..Len(os) : os[m] # <<>> /\ Alike(like, os[m])

LidarInv ==
    /\ hits \in Seq(Reading) /\ at \in Nat \ {0}
    /\ Obstacles(Likeness, obstacles) /\ CutBefore(Likeness, obstacles, at)
    /\ \E all \in Seq(Reading) : /\ Flat(Reading, obstacles, all)
                                 /\ Ascending(all) /\ ToSet(all) = ToSet(hits)
    /\ twist # <<>> => at >= Len(obstacles)

LEMMA LikenessIs ==
    ASSUME NEW l \in Reading, NEW r \in Reading
    PROVE  <<l, r>> \in Likeness <=> Similar(l, r)
BY DEF Likeness

\* Two obstacles in one.
LEMMA Joined ==
    ASSUME NEW like, NEW a \in Seq(Reading), NEW b \in Seq(Reading), a # <<>>, b # <<>>,
           Alike(like, a), Alike(like, b), <<Last(a), Head(b)>> \in like
    PROVE  /\ a \o b \in Seq(Reading) /\ a \o b # <<>> /\ Alike(like, a \o b)
           /\ Last(a \o b) = Last(b) /\ Head(a \o b) = Head(a)
<1> DEFINE c == a \o b
           m == Len(a)
           n == Len(b)
<1>1. /\ m \in Nat \ {0} /\ n \in Nat \ {0} /\ Len(c) = m + n /\ c \in Seq(Reading)
      /\ \A j \in 1..m + n : c[j] = IF j <= m THEN a[j] ELSE b[j - m]
  <2>1. m \in Nat /\ n \in Nat /\ m # 0 /\ n # 0
    BY EmptySeq
  <2> QED BY <2>1, ConcatProperties
<1>2. Last(a) = a[m] /\ Head(a) = a[1] /\ Last(b) = b[n] /\ Head(b) = b[1]
  BY DEF Last
<1> HIDE DEF c
<1>3. c # <<>> /\ Last(c) = c[m + n] /\ Head(c) = c[1]
  BY <1>1 DEF Last
<1>4. (\A j \in 1..m - 1 : <<a[j], a[j + 1]>> \in like)
      /\ (\A j \in 1..n - 1 : <<b[j], b[j + 1]>> \in like)
  BY DEF Alike
<1> HIDE DEF m, n
<1>5. c[m + n] = b[n] /\ c[1] = a[1]
  <2>1. m + n \in 1..m + n /\ ~(m + n <= m) /\ m + n - m = n /\ 1 \in 1..m + n /\ 1 <= m
    BY <1>1
  <2>2. c[m + n] = b[m + n - m] /\ c[1] = a[1]
    BY <1>1, <2>1
  <2>3. (m + n) - m = n
    BY <1>1
  <2>4. c[m + n] = b[(m + n) - m]
    BY <1>1, <2>1
  <2> QED BY <2>2, <2>3, <2>4
<1>6. ASSUME NEW j \in 1..(m + n) - 1 PROVE <<c[j], c[j + 1]>> \in like
  <2>1. j \in 1..m + n /\ j + 1 \in 1..m + n
    BY <1>1
  <2>2. CASE j < m
    <3>1. j \in 1..m - 1 /\ c[j] = a[j] /\ c[j + 1] = a[j + 1]
      BY <1>1, <2>1, <2>2
    <3> QED BY <1>4, <3>1
  <2>3. CASE j = m
    <3>1. c[j] = a[m] /\ (j + 1) - m = 1 /\ ~(j + 1 <= m)
      BY <1>1, <2>1, <2>3
    <3>2. c[j + 1] = b[(j + 1) - m]
      BY <1>1, <2>1, <3>1
    <3> QED BY <1>2, <3>1, <3>2
  <2>4. CASE j > m
    <3>1. /\ j - m \in 1..n - 1 /\ ~(j <= m) /\ ~(j + 1 <= m) /\ (j + 1) - m = (j - m) + 1
      BY <1>1, <2>1, <2>4
    <3>2. c[j] = b[j - m] /\ c[j + 1] = b[(j + 1) - m]
      BY <1>1, <2>1, <3>1
    <3>3. <<b[j - m], b[(j - m) + 1]>> \in like
      BY <1>4, <3>1
    <3> QED BY <3>1, <3>2, <3>3
  <2> QED BY <1>1, <2>2, <2>3, <2>4
<1>7. Alike(like, c)
  BY <1>1, <1>6 DEF Alike
<1> QED BY <1>1, <1>2, <1>3, <1>5, <1>7 DEF c

LEMMA MergeTwo ==
    ASSUME NEW like, NEW os, Obstacles(like, os), NEW k \in 1..Len(os) - 1,
           NEW h, Flat(Reading, os, h), CutBefore(like, os, k),
           <<Last(os[k]), Head(os[k + 1])>> \in like,
           NEW ms, ms = RemoveAt([os EXCEPT ![k] = @ \o os[k + 1]], k + 1)
    PROVE  /\ Obstacles(like, ms) /\ Flat(Reading, ms, h) /\ CutBefore(like, ms, k)
           /\ Len(ms) = Len(os) - 1
<1> DEFINE n == Len(os) - 1
           joined == os[k] \o os[k + 1]
           es == [os EXCEPT ![k] = joined]
<1>1. os \in Seq(Seq(Reading)) /\ n \in Nat /\ Len(os) = n + 1 /\ k \in 1..n /\ k + 1 \in 1..n + 1
  BY DEF Obstacles
<1>2. \A m \in 1..n + 1 : os[m] \in Seq(Reading) /\ os[m] # <<>> /\ Alike(like, os[m])
  BY <1>1 DEF Obstacles
<1>3. k \in 1..n + 1
  BY <1>1
<1>4. /\ joined \in Seq(Reading) /\ joined # <<>> /\ Alike(like, joined)
      /\ Last(joined) = Last(os[k + 1]) /\ Head(joined) = Head(os[k])
  BY <1>1, <1>2, <1>3, Joined
<1>5. es \in Seq(Seq(Reading)) /\ Len(es) = n + 1
      /\ \A m \in 1..n + 1 : es[m] = IF m = k THEN joined ELSE os[m]
  <2> HIDE DEF n, joined
  <2> QED BY <1>1, <1>3, <1>4
<1> HIDE DEF n, joined, es
<1>6. ms = RemoveAt(es, k + 1)
  BY DEF es, joined
<1>7. /\ ms \in Seq(Seq(Reading)) /\ Len(ms) = (n + 1) - 1
      /\ \A m \in 1..(n + 1) - 1 : ms[m] = IF m < k + 1 THEN es[m] ELSE es[m + 1]
  <2>1. k + 1 \in 1..Len(es) /\ es \in Seq(Seq(Reading))
    BY <1>1, <1>5
  <2>2. /\ RemoveAt(es, k + 1) \in Seq(Seq(Reading)) /\ Len(RemoveAt(es, k + 1)) = Len(es) - 1
        /\ \A m \in 1..Len(es) - 1 : RemoveAt(es, k + 1)[m] = IF m < k + 1 THEN es[m] ELSE es[m + 1]
    BY <2>1, RemoveAtIs
  <2>3. Len(es) = n + 1
    BY <1>5
  <2> QED BY <1>6, <2>2, <2>3, Zenon
<1>8. Len(ms) = n
  BY <1>1, <1>7
<1>9. ASSUME NEW m \in 1..n
      PROVE  ms[m] = IF m < k THEN os[m] ELSE IF m = k THEN joined ELSE os[m + 1]
  <2>1. m \in 1..n + 1 /\ m + 1 \in 1..n + 1 /\ m \in 1..(n + 1) - 1
    BY <1>1
  <2>2. CASE m < k
    <3>1. m < k + 1 /\ m # k
      BY <1>1, <2>2
    <3> QED BY <1>5, <1>7, <2>1, <2>2, <3>1
  <2>3. CASE m = k
    <3>1. m < k + 1 /\ ~(m < k)
      BY <1>1, <2>3
    <3> QED BY <1>5, <1>7, <2>1, <2>3, <3>1
  <2>4. CASE m > k
    <3>1. ~(m < k + 1) /\ ~(m < k) /\ m # k /\ m + 1 # k
      BY <1>1, <2>4
    <3> QED BY <1>5, <1>7, <2>1, <3>1
  <2> QED BY <1>1, <2>2, <2>3, <2>4
<1>10. Merged(os, ms, k, n)
  BY <1>9 DEF Merged, joined
<1>11. Flat(Reading, ms, h)
  <2>1. k \in 1..Len(os) - 1 /\ Len(ms) = Len(os) - 1
    BY <1>1, <1>8
  <2> QED BY <1>1, <1>7, <1>8, <1>10, <2>1, FlatMerge
<1>12. ASSUME NEW m \in 1..n PROVE ms[m] # <<>> /\ Alike(like, ms[m])
  <2>1. m \in 1..n + 1 /\ m + 1 \in 1..n + 1
    BY <1>1
  <2> QED BY <1>2, <1>4, <1>9, <2>1
<1>13. ASSUME NEW m \in 1..n - 1, m < k PROVE <<Last(ms[m]), Head(ms[m + 1])>> \notin like
  <2>1. m \in 1..n /\ m + 1 \in 1..n /\ m \in 1..Len(os) - 1
    BY <1>1
  <2>2. <<Last(os[m]), Head(os[m + 1])>> \notin like
    BY <1>13, <2>1 DEF CutBefore
  <2>3. ms[m] = os[m]
    BY <1>9, <1>13, <2>1
  <2>4. Head(ms[m + 1]) = Head(os[m + 1])
    <3>1. CASE m + 1 = k
      <4>1. ~(m + 1 < k)
        BY <3>1
      <4>2. ms[m + 1] = joined
        BY <1>9, <2>1, <3>1, <4>1
      <4> QED BY <1>4, <3>1, <4>2
    <3>2. CASE m + 1 # k
      <4>1. m + 1 < k
        BY <1>1, <1>13, <3>2
      <4> QED BY <1>9, <2>1, <4>1
    <3> QED BY <3>1, <3>2
  <2> QED BY <2>2, <2>3, <2>4
<1> QED BY <1>1, <1>7, <1>8, <1>11, <1>12, <1>13 DEF Obstacles, CutBefore

LEMMA LidarInitInv == LidarInit => LidarInv
<1> SUFFICES ASSUME NEW sweep \in Sweeps, NEW scan \in [1..ScanLength -> Ranges],
                    ScanCallBack(sweep, scan)
             PROVE  LidarInv
  BY DEF LidarInit
<1> DEFINE all == Sorted(sweep, hits)
<1>0. hits \in Seq(Reading) /\ InOrderOf(sweep.angle_increment, hits)
  BY HitsAre DEF ScanCallBack
<1>1. all \in Seq(Reading) /\ Len(all) = Len(hits) /\ Ascending(all) /\ ToSet(all) = ToSet(hits)
  BY <1>0, SortedIs
<1>2. obstacles = [j \in DOMAIN all |-> <<all[j]>>] /\ at = 1 /\ twist = <<>>
  <2>1. DOMAIN all = DOMAIN hits
    <3>1. DOMAIN all = 1..Len(all) /\ DOMAIN hits = 1..Len(hits)
      BY <1>0, <1>1
    <3> QED BY <1>1, <3>1
  <2> QED BY <2>1 DEF ScanCallBack
<1> HIDE DEF all
<1>3. /\ Flat(Reading, obstacles, all) /\ obstacles \in Seq(Seq(Reading))
      /\ Len(obstacles) = Len(all)
  BY <1>1, <1>2, FlatOnes
<1>4. ASSUME NEW m \in 1..Len(obstacles) PROVE obstacles[m] # <<>> /\ Alike(Likeness, obstacles[m])
  <2>1. m \in DOMAIN all
    BY <1>1, <1>3
  <2>2. obstacles[m] = <<all[m]>>
    BY <1>2, <2>1
  <2>3. Len(obstacles[m]) = 1
    BY <2>2
  <2> QED BY <2>2, <2>3 DEF Alike
<1>5. Obstacles(Likeness, obstacles)
  BY <1>3, <1>4 DEF Obstacles
<1>6. CutBefore(Likeness, obstacles, at)
  BY <1>2, <1>3 DEF CutBefore
<1> QED BY <1>0, <1>1, <1>2, <1>3, <1>5, <1>6 DEF LidarInv

LEMMA LidarStep == LidarInv /\ [LidarNext]_lidar_vars => LidarInv'
<1> SUFFICES ASSUME LidarInv, [LidarNext]_lidar_vars PROVE LidarInv'
  OBVIOUS
<1>1. CASE MergeSimilarObstacles
  <2>1. /\ hits' = hits /\ twist' = twist /\ twist = <<>> /\ at < Len(obstacles)
        /\ max_obstacle_distance_diff' = max_obstacle_distance_diff
    BY <1>1 DEF MergeSimilarObstacles, build
  <2>2. Likeness' = Likeness
    BY <2>1 DEF Likeness, Similar
  <2>3. /\ hits \in Seq(Reading) /\ at \in Nat \ {0} /\ Obstacles(Likeness, obstacles)
        /\ CutBefore(Likeness, obstacles, at)
    BY DEF LidarInv
  <2> PICK all \in Seq(Reading) : /\ Flat(Reading, obstacles, all)
                                  /\ Ascending(all) /\ ToSet(all) = ToSet(hits)
    BY DEF LidarInv
  <2>4. obstacles \in Seq(Seq(Reading)) /\ at \in 1..Len(obstacles) - 1
    <3>1. obstacles \in Seq(Seq(Reading))
      BY <2>3 DEF Obstacles
    <3>2. Len(obstacles) \in Nat
      BY <3>1
    <3> QED BY <2>1, <2>3, <3>1, <3>2
  <2>5. Last(obstacles[at]) \in Reading /\ Head(obstacles[at + 1]) \in Reading
    <3>1. at \in 1..Len(obstacles) /\ at + 1 \in 1..Len(obstacles)
      BY <2>4
    <3>2. /\ obstacles[at] \in Seq(Reading) /\ obstacles[at] # <<>>
          /\ obstacles[at + 1] \in Seq(Reading) /\ obstacles[at + 1] # <<>>
      BY <2>3, <2>4, <3>1 DEF Obstacles
    <3> QED BY <3>2 DEF Last
  <2> DEFINE merged == RemoveAt([obstacles EXCEPT ![at] = @ \o obstacles[at + 1]], at + 1)
  <2>6. CASE Similar(Last(obstacles[at]), Head(obstacles[at + 1]))
    <3>1. obstacles' = merged /\ at' = at
      BY <1>1, <2>6 DEF MergeSimilarObstacles
    <3> HIDE DEF merged
    <3>2. <<Last(obstacles[at]), Head(obstacles[at + 1])>> \in Likeness
      BY <2>5, <2>6, LikenessIs
    <3>3. /\ Obstacles(Likeness, merged) /\ Flat(Reading, merged, all)
          /\ CutBefore(Likeness, merged, at)
      BY <2>3, <2>4, <3>2, MergeTwo DEF merged
    <3> QED BY <2>1, <2>2, <2>3, <3>1, <3>3 DEF LidarInv
  <2>7. CASE ~Similar(Last(obstacles[at]), Head(obstacles[at + 1]))
    <3>1. obstacles' = obstacles /\ at' = at + 1
      BY <1>1, <2>7 DEF MergeSimilarObstacles
    <3>2. <<Last(obstacles[at]), Head(obstacles[at + 1])>> \notin Likeness
      BY <2>5, <2>7, LikenessIs
    <3>3. CutBefore(Likeness, obstacles, at + 1)
      <4> SUFFICES ASSUME NEW m \in 1..Len(obstacles) - 1, m < at + 1
                   PROVE  <<Last(obstacles[m]), Head(obstacles[m + 1])>> \notin Likeness
        BY DEF CutBefore
      <4>1. m < at \/ m = at
        BY <2>3
      <4> QED BY <2>3, <3>2, <4>1 DEF CutBefore
    <3>4. at + 1 \in Nat \ {0}
      BY <2>3
    <3> QED BY <2>1, <2>2, <2>3, <3>1, <3>3, <3>4 DEF LidarInv
  <2> QED BY <2>6, <2>7
<1>2. CASE GenerateTwistMessage
  <2>1. /\ hits' = hits /\ obstacles' = obstacles /\ at' = at /\ at >= Len(obstacles)
        /\ max_obstacle_distance_diff' = max_obstacle_distance_diff
    BY <1>2 DEF GenerateTwistMessage, build
  <2>2. Likeness' = Likeness
    BY <2>1 DEF Likeness, Similar
  <2> QED BY <2>1, <2>2 DEF LidarInv
<1>3. CASE UNCHANGED lidar_vars
  <2>1. /\ hits' = hits /\ obstacles' = obstacles /\ at' = at /\ twist' = twist
        /\ max_obstacle_distance_diff' = max_obstacle_distance_diff
    BY <1>3 DEF lidar_vars, build
  <2>2. Likeness' = Likeness
    BY <2>1 DEF Likeness, Similar
  <2> QED BY <2>1, <2>2 DEF LidarInv
<1> QED BY <1>1, <1>2, <1>3 DEF LidarNext

\* The hits of a scan end up from right to left, merged exactly as far as their
\* neighbours are similar (mergeSimilarObstacles), for every scan, whichever way it
\* sweeps and whatever max_obstacle_distance_diff holds.
THEOREM MergedExactly == LidarSpec => []MergesExactly
<1>1. LidarInv => MergesExactly
  <2> SUFFICES ASSUME LidarInv, twist # <<>> PROVE MergesExactly
    BY DEF MergesExactly
  <2>1. /\ Obstacles(Likeness, obstacles)
        /\ CutBefore(Likeness, obstacles, at) /\ at >= Len(obstacles) /\ at \in Nat
    BY DEF LidarInv
  <2>2. obstacles \in Seq(Seq(Reading)) /\ Len(obstacles) \in Nat
    BY <2>1 DEF Obstacles
  <2>3. Ascending(FlattenSeq(obstacles)) /\ ToSet(FlattenSeq(obstacles)) = ToSet(hits)
    <3>1. PICK all \in Seq(Reading) : /\ Flat(Reading, obstacles, all)
                                      /\ Ascending(all) /\ ToSet(all) = ToSet(hits)
      BY DEF LidarInv
    <3>2. FlattenSeq(obstacles) = all
      BY <2>2, <3>1, FlatIs
    <3> QED BY <3>1, <3>2
  <2>4. ASSUME NEW m \in 1..Len(obstacles), NEW j \in 1..Len(obstacles[m]) - 1
        PROVE  Similar(obstacles[m][j], obstacles[m][j + 1])
    <3>1. <<obstacles[m][j], obstacles[m][j + 1]>> \in Likeness
      BY <2>1 DEF Obstacles, Alike
    <3> QED BY <3>1 DEF Likeness
  <2>5. \A obs \in ToSet(obstacles) : \A j \in 1..Len(obs) - 1 : Similar(obs[j], obs[j + 1])
    <3> SUFFICES ASSUME NEW obs \in ToSet(obstacles), NEW j \in 1..Len(obs) - 1
                 PROVE  Similar(obs[j], obs[j + 1])
      OBVIOUS
    <3>1. PICK m \in 1..Len(obstacles) : obs = obstacles[m]
      BY <2>2 DEF ToSet
    <3> QED BY <2>4, <3>1
  <2>6. ASSUME NEW m \in 1..Len(obstacles) - 1
        PROVE  ~Similar(Last(obstacles[m]), Head(obstacles[m + 1]))
    <3>1. m \in 1..Len(obstacles) /\ m + 1 \in 1..Len(obstacles) /\ m < at
      BY <2>1, <2>2
    <3>2. /\ obstacles[m] \in Seq(Reading) /\ obstacles[m] # <<>>
          /\ obstacles[m + 1] \in Seq(Reading) /\ obstacles[m + 1] # <<>>
      BY <2>1, <2>2, <3>1 DEF Obstacles
    <3>3. Last(obstacles[m]) \in Reading /\ Head(obstacles[m + 1]) \in Reading
      BY <3>2 DEF Last
    <3>4. <<Last(obstacles[m]), Head(obstacles[m + 1])>> \notin Likeness
      BY <2>1, <3>1 DEF CutBefore
    <3> QED BY <3>3, <3>4, LikenessIs
  <2> QED BY <2>3, <2>5, <2>6 DEF MergesExactly
<1> QED BY <1>1, LidarInitInv, LidarStep, PTL DEF LidarSpec

-----------------------------------------------------------------------------
\* Its Twist.
\* What the dividing and the cosine of a danger score amount to.
LEMMA DivLow ==
    ASSUME NEW a \in Int, NEW b \in Nat \ {0}, NEW c \in Int, b * c <= a PROVE c <= a \div b
OBVIOUS

LEMMA DivHigh ==
    ASSUME NEW a \in Int, NEW b \in Nat \ {0}, NEW c \in Int, a < b * c PROVE a \div b < c
OBVIOUS

LEMMA CosIs ==
    ASSUME NEW d \in Int
    PROVE  /\ Cos(d) \in Int /\ Cos(d) <= 1000
           /\ Size(d) <= 45 => Cos(d) >= 705
           /\ ~(Size(d) <= 45) => Cos(d) <= 693
           /\ Size(d) <= 57 => Cos(d) >= 544
           /\ ~(Size(d) <= 57) => Cos(d) <= 529
<1> DEFINE e == d * d
           a == 1000 * (32400 - 4 * e)
           b == 32400 + e
<1>1. e \in Nat
  <2>1. CASE d >= 0
    BY <2>1
  <2>2. CASE d < 0
    <3>1. e = (-d) * (-d) /\ -d \in Nat
      BY <2>2
    <3> QED BY <3>1
  <2> QED BY <2>1, <2>2
<1>2. Cos(d) = a \div b
  <2>1. 4 * d * d = 4 * e
    OBVIOUS
  <2> QED BY <2>1 DEF Cos
<1>3. ASSUME NEW k \in Nat, Size(d) <= k PROVE e <= k * k
  <2>1. 0 <= k + d /\ 0 <= k - d
    BY <1>3 DEF Size
  <2>2. (k - d) * (k + d) >= 0
    BY <2>1
  <2>3. (k - d) * (k + d) = k * k - e
    OBVIOUS
  <2>4. k * k \in Int
    OBVIOUS
  <2> HIDE DEF e
  <2> QED BY <1>1, <2>2, <2>3, <2>4
<1>4. ASSUME NEW k \in Nat, ~(Size(d) <= k) PROVE e >= (k + 1) * (k + 1)
  <2> DEFINE l == k + 1
  <2>1. l \in Nat /\ l <= Size(d)
    BY <1>4 DEF Size
  <2> HIDE DEF l
  <2>2. l * l \in Int
    BY <2>1
  <2>3. CASE d >= 0
    <3>1. d - l >= 0 /\ d + l >= 0
      BY <2>1, <2>3 DEF Size
    <3>2. (d - l) * (d + l) >= 0 /\ (d - l) * (d + l) = e - l * l
      BY <2>1, <3>1
    <3> HIDE DEF e
    <3> QED BY <1>1, <2>2, <3>2 DEF l
  <2>4. CASE d < 0
    <3>1. -d - l >= 0 /\ -d + l >= 0
      BY <2>1, <2>4 DEF Size
    <3>2. (-d - l) * (-d + l) >= 0 /\ (-d - l) * (-d + l) = e - l * l
      BY <2>1, <3>1
    <3> HIDE DEF e
    <3> QED BY <1>1, <2>2, <3>2 DEF l
  <2> QED BY <2>3, <2>4
<1> HIDE DEF e
<1>5. a \in Int /\ b \in Nat \ {0}
  BY <1>1
<1>6. a \div b \in Int
  <2> HIDE DEF a, b
  <2> QED BY <1>5, DivFacts
<1>7. a \div b < 1001
  <2>1. a < b * 1001
    BY <1>1
  <2> HIDE DEF a, b
  <2> QED BY <1>5, <2>1, DivHigh
<1>8. Size(d) <= 45 => 705 <= a \div b
  <2> SUFFICES ASSUME Size(d) <= 45 PROVE 705 <= a \div b
    OBVIOUS
  <2>1. e <= 45 * 45
    BY <1>3
  <2>2. b * 705 <= a
    BY <1>1, <2>1
  <2> HIDE DEF a, b
  <2> QED BY <1>5, <2>2, DivLow
<1>9. ~(Size(d) <= 45) => a \div b < 694
  <2> SUFFICES ASSUME ~(Size(d) <= 45) PROVE a \div b < 694
    OBVIOUS
  <2>1. e >= 46 * 46
    BY <1>4
  <2>2. a < b * 694
    BY <1>1, <2>1
  <2> HIDE DEF a, b
  <2> QED BY <1>5, <2>2, DivHigh
<1>10. Size(d) <= 57 => 544 <= a \div b
  <2> SUFFICES ASSUME Size(d) <= 57 PROVE 544 <= a \div b
    OBVIOUS
  <2>1. e <= 57 * 57
    BY <1>3
  <2>2. b * 544 <= a
    BY <1>1, <2>1
  <2> HIDE DEF a, b
  <2> QED BY <1>5, <2>2, DivLow
<1>11. ~(Size(d) <= 57) => a \div b < 530
  <2> SUFFICES ASSUME ~(Size(d) <= 57) PROVE a \div b < 530
    OBVIOUS
  <2>1. e >= 58 * 58
    BY <1>4
  <2>2. a < b * 530
    BY <1>1, <2>1
  <2> HIDE DEF a, b
  <2> QED BY <1>5, <2>2, DivHigh
<1> HIDE DEF a, b
<1> QED BY <1>2, <1>6, <1>7, <1>8, <1>9, <1>10, <1>11

\* How close an obstacle is, as far as its danger score goes.
Close(r) == 100000 \div r

LEMMA CloseIs ==
    ASSUME NEW r \in Nat \ {0}
    PROVE  /\ Close(r) \in Int
           /\ r < 175 => Close(r) >= 571
           /\ r > 1000 => Close(r) <= 99
           /\ \A s \in Nat : s >= r => Close(s) <= Close(r)
<1>1. 100000 \in Int
  OBVIOUS
<1>2. 100000 \div r \in Int
  BY <1>1, DivFacts
<1>3. r < 175 => 571 <= 100000 \div r
  <2> SUFFICES ASSUME r < 175 PROVE 571 <= 100000 \div r
    OBVIOUS
  <2>1. r * 571 <= 100000
    OBVIOUS
  <2> QED BY <2>1, DivLow
<1>4. r > 1000 => 100000 \div r < 100
  <2> SUFFICES ASSUME r > 1000 PROVE 100000 \div r < 100
    OBVIOUS
  <2>1. 100000 < r * 100
    OBVIOUS
  <2> QED BY <2>1, DivHigh
<1>5. ASSUME NEW s \in Nat, s >= r PROVE 100000 \div s <= 100000 \div r
  <2> DEFINE p == 100000 \div s
             q == 100000 \div r
  <2>1. s \in Nat \ {0} /\ s - r \in Nat
    BY <1>5
  <2>2. p \in Int /\ s * p <= 100000 /\ 100000 < s * p + s
    BY <1>1, <2>1, DivFacts
  <2>3. p >= 0
    <3> DEFINE z == s * (p + 1)
    <3>1. z = s * p + s
      BY <2>1, <2>2
    <3> HIDE DEF p
    <3>2. CASE p < 0
      <4>1. -(p + 1) \in Nat
        BY <2>2, <3>2
      <4>2. s * (-(p + 1)) >= 0
        BY <2>1, <4>1
      <4>3. s * (-(p + 1)) = -z
        BY <2>1, <2>2
      <4> QED BY <2>1, <2>2, <3>1, <4>2, <4>3
    <3> QED BY <2>2, <3>2
  <2> HIDE DEF p
  <2>4. r * p <= 100000
    <3>1. (s - r) * p >= 0
      BY <2>1, <2>2, <2>3
    <3>2. (s - r) * p = s * p - r * p
      BY <2>1, <2>2
    <3>3. s * p \in Int /\ r * p \in Int
      BY <2>1, <2>2
    <3> QED BY <2>2, <3>1, <3>2, <3>3
  <2>5. p <= 100000 \div r
    BY <1>1, <2>2, <2>4, DivLow
  <2> QED BY <2>5 DEF p
<1>6. Close(r) = 100000 \div r /\ \A s \in Nat : Close(s) = 100000 \div s
  BY DEF Close
<1>7. Close(r) \in Int /\ (r < 175 => Close(r) >= 571) /\ (r > 1000 => Close(r) <= 99)
  BY <1>2, <1>3, <1>4, <1>6
<1>8. ASSUME NEW s \in Nat, s >= r PROVE Close(s) <= Close(r)
  <2>1. Close(s) = 100000 \div s
    BY <1>6
  <2> QED BY <1>5, <1>6, <1>8, <2>1
<1> QED BY <1>7, <1>8

LEMMA ScoreIs ==
    ASSUME NEW obs \in Seq(Reading), obs # <<>>
    PROVE  /\ AvgAngle(obs) \in Int /\ MinDistance(obs) \in Nat \ {0} /\ DangerScore(obs) \in Int
           /\ DangerScore(obs) = Cos(AvgAngle(obs)) + Close(MinDistance(obs))
<1>1. AvgAngle(obs) \in Int /\ MinDistance(obs) \in Nat \ {0}
  BY AvgType, MinDistanceIs
<1> DEFINE c == AvgAngle(obs)
           r == MinDistance(obs)
<1>2. DangerScore(obs) = Cos(c) + Close(r)
  BY DEF DangerScore, Close
<1>3. c \in Int /\ r \in Nat \ {0}
  BY <1>1
<1> HIDE DEF c, r
<1>4. Cos(c) \in Int
  BY <1>3, CosIs
<1>5. Close(r) \in Int
  BY <1>3, CloseIs
<1>6. DangerScore(obs) \in Int
  BY <1>2, <1>4, <1>5
<1> QED BY <1>2, <1>3, <1>6 DEF c, r

\* One of finitely many numbers is the greatest.
LEMMA MaxAt ==
    ASSUME NEW n \in Nat \ {0}, NEW s \in [1..n -> Int]
    PROVE  \E j \in 1..n : \A l \in 1..n : s[l] <= s[j]
<1> DEFINE T == {k \in Nat : k + 1 <= n => \E j \in 1..k + 1 : \A l \in 1..k + 1 : s[l] <= s[j]}
<1>1. 0 \in T
  OBVIOUS
<1>2. ASSUME NEW k \in Nat, k \in T PROVE k + 1 \in T
  <2> SUFFICES ASSUME k + 2 <= n
               PROVE  \E j \in 1..k + 2 : \A l \in 1..k + 2 : s[l] <= s[j]
    OBVIOUS
  <2>1. PICK j \in 1..k + 1 : \A l \in 1..k + 1 : s[l] <= s[j]
    BY <1>2
  <2>2. s[j] \in Int /\ s[k + 2] \in Int /\ j \in 1..k + 2 /\ k + 2 \in 1..k + 2
    OBVIOUS
  <2>3. \A l \in 1..k + 2 : l \in 1..k + 1 \/ l = k + 2
    OBVIOUS
  <2>4. \A l \in 1..k + 2 : s[l] \in Int
    OBVIOUS
  <2>5. CASE s[k + 2] <= s[j]
    BY <2>1, <2>2, <2>3, <2>5
  <2>6. CASE s[j] <= s[k + 2]
    BY <2>1, <2>2, <2>3, <2>4, <2>6
  <2> QED BY <2>2, <2>5, <2>6
<1>3. n - 1 \in T
  <2> HIDE DEF T
  <2>1. n - 1 \in Nat
    OBVIOUS
  <2> QED BY <1>1, <1>2, <2>1, NatSet
<1>4. (n - 1) + 1 = n
  OBVIOUS
<1> QED BY <1>3, <1>4

LEMMA MostDangerousIs ==
    ASSUME LidarInv, obstacles # <<>>
    PROVE  /\ MostDangerous \in ToSet(obstacles)
           /\ \A obs \in ToSet(obstacles) : DangerScore(obs) <= DangerScore(MostDangerous)
<1> DEFINE n == Len(obstacles)
           s == [j \in 1..n |-> DangerScore(obstacles[j])]
           best == {j \in 1..n : \A l \in 1..n : s[l] <= s[j]}
<1>1. obstacles \in Seq(Seq(Reading)) /\ \A m \in 1..n : obstacles[m] # <<>>
  BY DEF LidarInv, Obstacles
<1>2. n \in Nat \ {0} /\ DOMAIN obstacles = 1..n
  BY <1>1, EmptySeq
<1>3. ToSet(obstacles) = {obstacles[j] : j \in 1..n}
  BY <1>2 DEF ToSet
<1>4. s \in [1..n -> Int]
  BY <1>1, <1>2, ScoreIs
<1>5. \A j \in 1..n : s[j] = DangerScore(obstacles[j])
  OBVIOUS
<1>6. MostDangerous = obstacles[Min(best)]
  BY <1>2, <1>5 DEF MostDangerous
<1> HIDE DEF n, s
<1>7. best # {} /\ best \subseteq Nat
  <2>1. \E j \in 1..n : \A l \in 1..n : s[l] <= s[j]
    BY <1>2, <1>4, MaxAt
  <2> QED BY <1>2, <2>1
<1> HIDE DEF best
<1>8. Min(best) \in best
  BY <1>7, LeastNat DEF Min
<1>9. PICK b \in 1..n : MostDangerous = obstacles[b] /\ \A l \in 1..n : s[l] <= s[b]
  BY <1>6, <1>8 DEF best
<1> QED BY <1>3, <1>5, <1>9

\* The parameters as lidar_decision.launch sets them, or farther-sighted.
AsLaunched == max_obstacle_danger_distance >= 1000 /\ obstacle_danger_angle = 45

\* What counts as straight ahead: 45 degrees, or with the abs() of integers less than a
\* radian.
LEMMA StraightIs ==
    ASSUME AsLaunched, NEW c \in Int
    PROVE  /\ abs_is_integer => (WithinDangerAngle(c) <=> Size(c) <= 57)
           /\ ~abs_is_integer => (WithinDangerAngle(c) <=> Size(c) <= 45)
<1> DEFINE s == 1000 * Size(c)
           k == s \div 57296
<1>1. s \in Nat /\ Size(c) \in Nat
  BY DEF Size
<1>2. k \in Int /\ 57296 * k <= s /\ s < 57296 * k + 57296
  <2> HIDE DEF s
  <2> QED BY <1>1, DivFacts
<1>3. 57296 * k <= 1000 * obstacle_danger_angle <=> Size(c) <= 57
  <2>1. 1000 * obstacle_danger_angle = 45000
    BY DEF AsLaunched
  <2> HIDE DEF k
  <2> QED BY <1>1, <1>2, <2>1
<1>4. Size(c) <= obstacle_danger_angle <=> Size(c) <= 45
  BY DEF AsLaunched
<1> QED BY <1>3, <1>4 DEF WithinDangerAngle

\* What has the greatest score is straight ahead and close if the nearest of all is, and
\* at least as straight ahead.
LEMMA WorstIs ==
    ASSUME AsLaunched, NEW w \in Seq(Reading), w # <<>>, NEW obs \in Seq(Reading), obs # <<>>,
           DangerScore(obs) <= DangerScore(w), MinDistance(obs) <= MinDistance(w),
           Endangers(obs), MinDistance(obs) < 175
    PROVE  Endangers(w) /\ Cos(AvgAngle(w)) >= Cos(AvgAngle(obs))
<1> DEFINE r == MinDistance(obs)
           q == MinDistance(w)
           c == AvgAngle(obs)
           d == AvgAngle(w)
<1>1. /\ r \in Nat \ {0} /\ c \in Int /\ q \in Nat \ {0} /\ d \in Int
      /\ Cos(c) + Close(r) <= Cos(d) + Close(q)
  BY ScoreIs
<1>2. r <= q /\ r < 175 /\ WithinDangerAngle(c)
  BY Zenon DEF Endangers
<1> HIDE DEF r, q, c, d
<1>3. PICK most \in {45, 57} : /\ WithinDangerAngle(c) <=> Size(c) <= most
                               /\ WithinDangerAngle(d) <=> Size(d) <= most
  <2>1. CASE abs_is_integer
    <3>1. WithinDangerAngle(c) <=> Size(c) <= 57
      BY <1>1, <2>1, StraightIs, Zenon
    <3>2. WithinDangerAngle(d) <=> Size(d) <= 57
      BY <1>1, <2>1, StraightIs, Zenon
    <3>3. 57 \in {45, 57}
      OBVIOUS
    <3> QED BY <3>1, <3>2, <3>3, Zenon
  <2>2. CASE ~abs_is_integer
    <3>1. WithinDangerAngle(c) <=> Size(c) <= 45
      BY <1>1, <2>2, StraightIs, Zenon
    <3>2. WithinDangerAngle(d) <=> Size(d) <= 45
      BY <1>1, <2>2, StraightIs, Zenon
    <3>3. 45 \in {45, 57}
      OBVIOUS
    <3> QED BY <3>1, <3>2, <3>3, Zenon
  <2> QED BY <2>1, <2>2, Zenon
<1> DEFINE a == Close(r)
           b == Close(q)
           x == Cos(c)
           y == Cos(d)
<1>4. a \in Int /\ a >= 571 /\ b <= a
  <2>1. a \in Int /\ (r < 175 => a >= 571)
    BY <1>1, CloseIs, Zenon
  <2>2. q \in Nat /\ q >= r
    BY <1>1, <1>2
  <2>3. b <= a
    BY <1>1, <2>2, CloseIs, Zenon
  <2> QED BY <1>2, <2>1, <2>3, Zenon
<1>5. b \in Int /\ (q > 1000 => b <= 99)
  BY <1>1, CloseIs, Zenon
<1>6. /\ x \in Int
      /\ Size(c) <= 45 => x >= 705
      /\ Size(c) <= 57 => x >= 544
  <2>1. c \in Int
    BY <1>1
  <2> HIDE <1>1
  <2> QED BY <2>1, CosIs
<1>7. /\ y \in Int /\ y <= 1000
      /\ ~(Size(d) <= 45) => y <= 693
      /\ ~(Size(d) <= 57) => y <= 529
  <2>1. d \in Int
    BY <1>1
  <2> HIDE <1>1
  <2> QED BY <2>1, CosIs
<1>8. x + a <= y + b
  BY <1>1, Zenon
<1> HIDE DEF a, b, x, y
<1>9. y >= x
  BY <1>4, <1>5, <1>6, <1>7, <1>8
<1>10. x >= 544 /\ Size(d) <= most
  <2>1. CASE most = 45
    <3>1. x >= 705
      BY <1>2, <1>3, <1>6, <2>1, Zenon
    <3>2. ~(y <= 693) /\ x >= 544
      BY <1>6, <1>7, <1>9, <3>1
    <3> QED BY <1>7, <2>1, <3>2, Zenon
  <2>2. CASE most = 57
    <3>1. x >= 544
      BY <1>2, <1>3, <1>6, <2>2, Zenon
    <3>2. ~(y <= 529)
      BY <1>6, <1>7, <1>9, <3>1
    <3> QED BY <1>7, <2>2, <3>1, <3>2, Zenon
  <2> QED BY <1>3, <2>1, <2>2
<1>11. ~(q > 1000)
  <2> SUFFICES ASSUME q > 1000 PROVE FALSE
    OBVIOUS
  <2>1. b <= 99
    BY <1>5, Zenon
  <2> QED BY <1>4, <1>5, <1>6, <1>7, <1>8, <1>10, <2>1
<1>12. q <= max_obstacle_danger_distance
  BY <1>1, <1>11, LidarAssumption DEF AsLaunched
<1>13. WithinDangerAngle(d)
  BY <1>3, <1>10, Zenon
<1> QED BY <1>9, <1>12, <1>13, Zenon DEF Endangers, q, c, d, x, y

LEMMA TwistAvoids ==
    ASSUME LidarInv, AsLaunched, GenerateTwistMessage
    PROVE  NearestOrStraighter'
<1>1. /\ obstacles' = obstacles /\ abs_is_integer' = abs_is_integer
      /\ twist' = <<IF obstacles = <<>> THEN NoTwist ELSE TwistMessage(MostDangerous)>>
  BY DEF GenerateTwistMessage, build
<1>2. obstacles \in Seq(Seq(Reading)) /\ \A m \in 1..Len(obstacles) : obstacles[m] # <<>>
  BY DEF LidarInv, Obstacles
<1>3. ASSUME NEW obs \in ToSet(obstacles) PROVE obs \in Seq(Reading) /\ obs # <<>>
  BY <1>2 DEF ToSet
<1>4. CASE obstacles = <<>>
  <2>1. ToSet(obstacles) = {}
    BY <1>4 DEF ToSet
  <2> QED BY <1>1, <2>1 DEF NearestOrStraighter
<1>5. CASE obstacles # <<>>
  <2> DEFINE w == MostDangerous
  <2>1. w \in ToSet(obstacles) /\ \A obs \in ToSet(obstacles) : DangerScore(obs) <= DangerScore(w)
    BY <1>5, MostDangerousIs
  <2>2. twist'[1] = TwistMessage(w)
    BY <1>1, <1>5
  <2> HIDE DEF w
  <2>3. w \in Seq(Reading) /\ w # <<>> /\ AvgAngle(w) \in Int
    BY <1>3, <2>1, ScoreIs
  <2>4. ASSUME NEW obs \in ToSet(obstacles), Nearest(obs), Endangers(obs), MinDistance(obs) < 175
        PROVE  /\ Endangers(w) /\ Away(twist'[1].turn, AvgAngle(w))
               /\ Cos(AvgAngle(w)) >= Cos(AvgAngle(obs))
    <3>1. /\ obs \in Seq(Reading) /\ obs # <<>>
          /\ DangerScore(obs) <= DangerScore(w) /\ MinDistance(obs) <= MinDistance(w)
      BY <1>3, <2>1, <2>4 DEF Nearest
    <3>2. Endangers(w) /\ Cos(AvgAngle(w)) >= Cos(AvgAngle(obs))
      BY <2>3, <2>4, <3>1, WorstIs
    <3>3. TwistMessage(w).turn = IF AvgAngle(w) > 0 THEN -1 ELSE 1
      BY <3>2 DEF TwistMessage
    <3> DEFINE d == AvgAngle(w)
    <3>4. d \in Int /\ Away(IF d > 0 THEN -1 ELSE 1, d)
      <4>1. d \in Int
        BY <2>3
      <4> HIDE DEF d
      <4> QED BY <4>1 DEF Away
    <3> QED BY <2>2, <3>2, <3>3, <3>4
  <2>5. \A obs \in ToSet(obstacles) : (Nearest(obs) <=> Nearest(obs)') /\ (Endangers(obs) <=> Endangers(obs)')
    BY <1>1 DEF Nearest, Endangers, WithinDangerAngle
  <2> QED BY <1>1, <2>1, <2>4, <2>5 DEF NearestOrStraighter
<1> QED BY <1>4, <1>5

\* With the danger angle of lidar_decision.launch, and its danger distance or a longer
\* one: if the nearest obstacle is in danger and nearer than a metre and three quarters,
\* the turn is away from an obstacle in danger that is at least as straight ahead, be it
\* the nearest or not (mostDangerousObstacle and twist_message_from_obstacle), for every
\* scan and with either abs().
THEOREM NearestOrStraighterAvoided == LidarSpec /\ AsLaunched => []NearestOrStraighter
<1> DEFINE Inv == LidarInv /\ NearestOrStraighter /\ AsLaunched
<1>1. LidarInit /\ AsLaunched => Inv
  BY LidarInitInv DEF LidarInit, ScanCallBack, NearestOrStraighter
<1>2. Inv /\ [LidarNext]_lidar_vars => Inv'
  <2> SUFFICES ASSUME Inv, [LidarNext]_lidar_vars PROVE Inv'
    OBVIOUS
  <2>1. LidarInv'
    BY LidarStep
  <2>2. AsLaunched'
    BY DEF AsLaunched
  <2>3. NearestOrStraighter'
    <3>1. CASE MergeSimilarObstacles
      BY <3>1 DEF MergeSimilarObstacles, NearestOrStraighter
    <3>2. CASE GenerateTwistMessage
      BY <3>2, TwistAvoids
    <3>3. CASE UNCHANGED lidar_vars
      BY <3>3 DEF lidar_vars, build, NearestOrStraighter, Nearest, Endangers, WithinDangerAngle
    <3> QED BY <3>1, <3>2, <3>3 DEF LidarNext
  <2> QED BY <2>1, <2>2, <2>3
<1>3. Inv => NearestOrStraighter
  OBVIOUS
<1> HIDE DEF Inv
<1> QED BY <1>1, <1>2, <1>3, PTL DEF LidarSpec
=============================================================================
