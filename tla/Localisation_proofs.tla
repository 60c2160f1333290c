------------------------ MODULE Localisation_proofs ------------------------
(***************************************************************************)
(* Proofs about what tells the robot where it is.                          *)
(*                                                                         *)
(* The encoder odometry, for every queue size, every form of message, and  *)
(* every number of moves, resets and incomplete messages.                  *)
(*                                                                         *)
(* The GPS firmware, for every number of sentences, of damaged characters  *)
(* and of commands, and every line buffer longer than a sentence.  The     *)
(* argument: whatever the interrupt does, the line being filled begins     *)
(* with the whole of one sentence s, newer than everything read or told;   *)
(* the last line begins with an earlier one; and a parse that has begun    *)
(* finds its line whole until it ends, since at most its first piece is    *)
(* overwritten, by a line feed, while it lasts.                            *)
(***************************************************************************)
EXTENDS EncoderOdometry, GpsFirmware, Shared_proofs

-----------------------------------------------------------------------------
\* The encoder odometry.

\* A bounded set of naturals that is not empty has a greatest element.
LEMMA MaxExists ==
    ASSUME NEW n \in Nat, NEW S, S \subseteq 1..n, S # {}
    PROVE  Max(S) \in S
<1> DEFINE T == {n - i : i \in S}
<1>1. T \subseteq Nat /\ T # {}
  <2>1. ASSUME NEW i \in S PROVE n - i \in Nat
    OBVIOUS
  <2>2. PICK i \in S : TRUE
    OBVIOUS
  <2> QED BY <2>1, <2>2
<1>2. PICK t \in T : \A u \in T : t <= u
  <2> HIDE DEF T
  <2> QED BY <1>1, LeastNat
<1>3. PICK m \in S : t = n - m
  BY <1>2
<1>4. ASSUME NEW i \in S PROVE m >= i
  <2>1. n - i \in T /\ n - i \in Nat /\ n - m \in Nat /\ m \in Int /\ i \in Int
    BY <1>3
  <2> QED BY <1>2, <1>3, <2>1
<1> QED BY <1>4 DEF Max

JointState == [name : Seq(Side), position : Seq(Int)]

\* Whatever a message names and holds, what is read from it is a count, or what
\* was known before.
LEMMA ReadType ==
    ASSUME NEW msg \in JointState, NEW s \in Side, NEW old \in Int \cup {None}
    PROVE  Read(msg, s, old) \in Int \cup {None}
<1> DEFINE found == {i \in DOMAIN msg.name : msg.name[i] = s /\ i <= Len(msg.position)}
<1>1. msg.position \in Seq(Int) /\ Len(msg.position) \in Nat /\ msg.name \in Seq(Side)
  BY DEF JointState
<1>2. found \subseteq 1..Len(msg.position)
  BY <1>1
<1>3. Read(msg, s, old) = IF found = {} THEN old
        ELSE IF Reversed[s] THEN -msg.position[Max(found)] ELSE msg.position[Max(found)]
  BY DEF Read
<1> HIDE DEF found
<1>4. CASE found # {}
  <2>1. Max(found) \in 1..Len(msg.position)
    BY <1>1, <1>2, <1>4, MaxExists
  <2>2. msg.position[Max(found)] \in Int
    BY <1>1, <2>1
  <2> QED BY <1>3, <1>4, <2>2
<1> QED BY <1>3, <1>4

LEMMA MessageType ==
    ASSUME TypeOK, NEW l \in Layouts
    PROVE  Message(l) \in JointState
<1>1. l.name \in Seq(Side) /\ l.count \in 0..Len(l.name)
  BY OdometryAssumption
<1>2. l.count \in Nat /\ \A i \in 1..l.count : wheels[l.name[i]] \in Int
  BY <1>1 DEF TypeOK
<1> DEFINE p == [i \in 1..l.count |-> wheels[l.name[i]]]
<1>3. p \in Seq(Int)
  BY <1>2
<1> HIDE DEF p
<1> QED BY <1>1, <1>3 DEF Message, JointState, p

-----------------------------------------------------------------------------
\* A total is the distance from the first reading only if there has been one, and
\* an interval known only if the stamp is that of an earlier run of the timer.
IInv ==
    /\ TypeOK
    /\ NoTickLost
    /\ IntervalKnown
    /\ Unread(prev) <=> Unread(base)
    /\ ~Unread(prev) => estimate.stamp # "epoch"
    /\ due => estimate.stamp # "now"

LEMMA InitInv == Init => IInv
<1> SUFFICES ASSUME Init PROVE IInv
  OBVIOUS
<1>1. TypeOK
  <2>1. Still \in [Side -> Int] /\ Nothing \in Ticks
    BY DEF Still, Nothing, Ticks
  <2>2. estimate \in [travel : [Side -> Int], stamp : {"epoch", "past", "now"}]
    BY <2>1 DEF Init, AllZero
  <2>3. jointStates \in Seq([name : Seq(Side), position : Seq(Int)])
        /\ Len(jointStates) <= QueueSize
    BY OdometryAssumption DEF Init
  <2>4. moves \in 0..MaxMoves /\ resetsSent \in 0..MaxResets /\ incomplete \in 0..MaxIncomplete
    BY OdometryAssumption DEF Init
  <2> QED BY <2>1, <2>2, <2>3, <2>4 DEF Init, TypeOK
<1>2. Unread(prev) /\ Unread(base)
  BY DEF Init, Nothing, Unread, Side
<1>3. NoTickLost
  BY <1>2 DEF Init, NoTickLost, AllZero, Still
<1> QED BY <1>1, <1>2, <1>3 DEF Init, IInv, IntervalKnown, AllZero

\* The steps of the wheels, the driver, the timer and of requests.
LEMMA EnvironmentStep ==
    ASSUME IInv,
           \/ \E s \in Side : \E ticks \in {-1, 1} : Move(s, ticks)
           \/ \E l \in Layouts : Publish(l)
           \/ RequestReset
           \/ Elapse
    PROVE  IInv'
<1> USE DEF IInv
<1>1. ASSUME NEW s \in Side, NEW ticks \in {-1, 1}, Move(s, ticks) PROVE IInv'
  <2>1. TypeOK'
    BY <1>1, OdometryAssumption DEF Move, TypeOK, node
  <2> QED BY <1>1, <2>1 DEF Move, node, NoTickLost, IntervalKnown, Unread
<1>2. ASSUME NEW l \in Layouts, Publish(l) PROVE IInv'
  <2> DEFINE q == Deliver(jointStates, Message(l), QueueSize)
  <2>1. jointStates \in Seq(JointState) /\ Len(jointStates) <= QueueSize
    BY DEF TypeOK, JointState
  <2>2. q \in Seq(JointState) /\ Len(q) <= QueueSize
    BY <2>1, MessageType, DeliverFacts, OdometryAssumption
  <2>3. jointStates' = q
    BY <1>2 DEF Publish
  <2> HIDE DEF q
  <2>4. incomplete' \in 0..MaxIncomplete
    BY <1>2, OdometryAssumption DEF Publish, TypeOK
  <2>5. TypeOK'
    BY <1>2, <2>2, <2>3, <2>4 DEF Publish, TypeOK, node, JointState
  <2> QED BY <1>2, <2>5 DEF Publish, node, NoTickLost, IntervalKnown, Unread
<1>3. CASE RequestReset
  <2>1. TypeOK'
    BY <1>3, OdometryAssumption DEF RequestReset, TypeOK, node
  <2> QED BY <1>3, <2>1 DEF RequestReset, node, NoTickLost, IntervalKnown, Unread
<1>4. CASE Elapse
  <2>1. TypeOK' /\ estimate'.travel = estimate.travel
        /\ estimate'.stamp = IF estimate.stamp = "epoch" THEN "epoch" ELSE "past"
    BY <1>4 DEF Elapse, TypeOK, spent
  <2> QED BY <1>4, <2>1 DEF Elapse, NoTickLost, IntervalKnown, Unread
<1> QED BY <1>1, <1>2, <1>3, <1>4

\* The steps of the node itself.
LEMMA NodeStep ==
    ASSUME IInv, EncoderJointStateCallback \/ ResetCallback \/ PublishEstimatedOdomMsg
    PROVE  IInv'
<1> USE DEF IInv
<1>1. CASE EncoderJointStateCallback
  <2>1. jointStates \in Seq(JointState) /\ jointStates # <<>>
    BY <1>1 DEF EncoderJointStateCallback, TypeOK, JointState
  <2>2. /\ Head(jointStates) \in JointState /\ Tail(jointStates) \in Seq(JointState)
        /\ Len(Tail(jointStates)) = Len(jointStates) - 1
    BY <2>1, HandleFacts
  <2>3. curr' \in Ticks
    BY <1>1, <2>2, ReadType DEF EncoderJointStateCallback, TypeOK, Ticks
  <2>4. Len(jointStates') <= QueueSize
    BY <1>1, <2>1, <2>2, OdometryAssumption DEF EncoderJointStateCallback, TypeOK
  <2>5. TypeOK'
    BY <1>1, <2>2, <2>3, <2>4 DEF EncoderJointStateCallback, TypeOK, spent, JointState
  <2> QED BY <1>1, <2>5 DEF EncoderJointStateCallback, NoTickLost, IntervalKnown, Unread
<1>2. CASE ResetCallback
  <2>1. Unread(prev') /\ Unread(base') /\ estimate' = AllZero
    BY <1>2 DEF ResetCallback, Unread, Nothing, Side
  <2>2. TypeOK'
    <3>1. Still \in [Side -> Int] /\ Nothing \in Ticks
      BY DEF Still, Nothing, Ticks
    <3>2. estimate' \in [travel : [Side -> Int], stamp : {"epoch", "past", "now"}]
      BY <2>1, <3>1 DEF AllZero
    <3> QED BY <1>2, <3>1, <3>2 DEF ResetCallback, TypeOK, spent
  <2>3. NoTickLost'
    BY <2>1 DEF NoTickLost, AllZero, Still
  <2> QED BY <1>2, <2>1, <2>2, <2>3
        DEF ResetCallback, IntervalKnown, AllZero, Unread
<1>3. ASSUME PublishEstimatedOdomMsg, Wait PROVE IInv'
  <2>1. TypeOK'
    BY <1>3 DEF PublishEstimatedOdomMsg, Wait, TypeOK, node, spent
  <2> QED BY <1>3, <2>1
        DEF PublishEstimatedOdomMsg, Wait, node, NoTickLost, IntervalKnown, Unread
<1>4. ASSUME PublishEstimatedOdomMsg, FirstTicks PROVE IInv'
  <2>1. TypeOK' /\ estimate'.travel = estimate.travel /\ estimate'.stamp = "now"
    BY <1>4 DEF PublishEstimatedOdomMsg, FirstTicks, TypeOK, spent
  <2>2. \A s \in Side : curr[s] \in Int
    BY <1>4 DEF FirstTicks, Unread, TypeOK, Ticks
  <2>3. ~Unread(prev') /\ ~Unread(base') /\ \A s \in Side : prev'[s] - base'[s] = 0
    BY <1>4, <2>2 DEF FirstTicks, Unread
  <2>4. NoTickLost'
    BY <1>4, <2>1, <2>3 DEF FirstTicks, NoTickLost
  <2> QED BY <1>4, <2>1, <2>3, <2>4
        DEF PublishEstimatedOdomMsg, FirstTicks, IntervalKnown
<1>5. ASSUME PublishEstimatedOdomMsg, Estimate PROVE IInv'
  <2>1. \A s \in Side : /\ curr[s] \in Int /\ prev[s] \in Int /\ base[s] \in Int
                        /\ estimate.travel[s] \in Int
    BY <1>5 DEF Estimate, Unread, TypeOK, Ticks
  <2>2. /\ estimate'.travel = [s \in Side |-> estimate.travel[s] + curr[s] - prev[s]]
        /\ estimate'.stamp = "now"
        /\ DOMAIN estimate' = DOMAIN estimate
    BY <1>5 DEF Estimate, TypeOK
  <2>3. estimate.stamp = "past"
    BY <1>5 DEF PublishEstimatedOdomMsg, Estimate, TypeOK
  <2>4. estimate'.travel \in [Side -> Int]
    BY <2>1, <2>2
  <2>5. TypeOK'
    BY <1>5, <2>3, <2>4 DEF PublishEstimatedOdomMsg, Estimate, TypeOK, spent
  <2>6. ~Unread(prev') /\ ~Unread(base') /\ prev' = curr /\ base' = base
    BY <1>5 DEF Estimate, Unread
  <2>7. NoTickLost'
    <3> SUFFICES ASSUME NEW s \in Side
                 PROVE  estimate'.travel[s] = prev'[s] - base'[s]
      BY <2>6 DEF NoTickLost
    <3>1. estimate.travel[s] = prev[s] - base[s]
      BY <1>5 DEF Estimate, NoTickLost
    <3> QED BY <2>1, <2>2, <2>6, <3>1
  <2>8. IntervalKnown'
    BY <1>5, <2>3 DEF Estimate, IntervalKnown
  <2> QED BY <1>5, <2>2, <2>5, <2>6, <2>7, <2>8 DEF PublishEstimatedOdomMsg
<1> QED BY <1>1, <1>2, <1>3, <1>4, <1>5 DEF PublishEstimatedOdomMsg

LEMMA StepInv == IInv /\ [Next]_vars => IInv'
<1>1. ASSUME IInv, UNCHANGED vars PROVE IInv'
  BY <1>1 DEF IInv, vars, node, spent, TypeOK, NoTickLost, IntervalKnown, Unread
<1> QED BY <1>1, EnvironmentStep, NodeStep DEF Next

\* No tick is lost or counted twice, whatever messages were dropped or incomplete
\* and whenever resets came (publishEstimatedOdomMsg, resetCallback).
THEOREM TicksTelescope == Spec => []NoTickLost
<1>1. IInv => NoTickLost
  BY DEF IInv
<1> QED BY InitInv, StepInv, <1>1, PTL DEF Spec

\* A velocity is never a division by zero or by the time since the epoch.
THEOREM IntervalAlwaysKnown == Spec => []IntervalKnown
<1>1. IInv => IntervalKnown
  BY DEF IInv
<1> QED BY InitInv, StepInv, <1>1, PTL DEF Spec

-----------------------------------------------------------------------------
\* The GPS firmware.

\* The fields of a sentence, of a piece as it may come in, and of what is told.
Sound == {"head", "status", "lat", "lon", "rest", "sum"}
Name == Sound \cup {"badlat", "badhem", "badsum", "feed"}
APiece == [of : Nat, field : Name]
Positions == [lat : Nat, lon : Nat, fix : [of : Nat, value : BOOLEAN]]

\* The sentences, as the constant they are while the firmware runs.
Table == [s \in 1..Sentences |-> Fields(s)]
Located(f, s) == \E j \in 1..Len(f[s]) : f[s][j] = "lat"

\* What the sentences have in common: a head at the beginning and nowhere else, a
\* checksum at the end, and a longitude if there is a latitude.
Legible(f) ==
    \A s \in 1..Sentences :
      /\ f[s] \in Seq(Sound) /\ Len(f[s]) >= 3 /\ Len(f[s]) <= 6
      /\ \A j \in 1..Len(f[s]) : f[s][j] = "head" <=> j = 1
      /\ f[s][Len(f[s])] = "sum"
      /\ (\E j \in 1..Len(f[s]) : f[s][j] = "lon") <=> Located(f, s)

\* The types of the variables; the two lines are always different ones.
FirmwareTypeOK ==
    /\ sky \in [1..(Sentences + 1) \div 2 -> BOOLEAN]
    /\ sentence \in 1..Sentences + 1 /\ coming \in Nat \ {0}
    /\ sentence <= Sentences => coming <= Len(Fields(sentence)) + 1
    /\ line \in [1..2 -> Seq(APiece)]
    /\ currentline \in 1..2 /\ lastline = 3 - currentline
    /\ lineidx \in 0..MAXLINELENGTH - 1 /\ recvdflag \in BOOLEAN
    /\ pc \in {"check", "last", "checksum", "latitude", "longitude", "debug", "serial"}
    /\ nmea \in 1..2 /\ during \in Nat
    /\ latitude \in Nat /\ longitude \in Nat
    /\ fix \in [of : Nat, value : BOOLEAN] /\ told \in Positions

\* The piece at the j-th place of sentence s, as it may have come in.
Sent(f, d, s, j) ==
    {Piece(s, f[s][j])} \cup
    (IF f[s][j] \in Damageable /\ <<s, f[s][j]>> \in d THEN {Piece(s, x) : x \in Damaged(f[s][j])} ELSE {})
\* Every sentence but the first follows a line feed.
Lead(s) == IF s = 1 THEN 0 ELSE 1

\* The first len pieces of line b are m of sentence s and, if its line feed was lost,
\* some of later ones.  The first of all may have been made a line feed.
Holds(f, d, b, len, s, m) ==
    /\ m + Lead(s) <= len /\ len <= Len(b)
    /\ len >= 1 => \/ b[1] = LineFeed
                   \/ s = 1 /\ b[1] \in Sent(f, d, 1, 1)
    /\ \A j \in 1..m : j + Lead(s) > 1 => b[j + Lead(s)] \in Sent(f, d, s, j)
    /\ len > m + Lead(s) => <<s, "feed">> \in d
    /\ \A i \in m + Lead(s) + 1..len : b[i].of \in s + 1..Sentences
Whole(f, d, b, s) == s \in 1..Sentences /\ Holds(f, d, b, Len(b), s, Len(f[s])) /\ First(b) = s

LEMMA TableIs ==
    ASSUME sky \in [1..(Sentences + 1) \div 2 -> BOOLEAN]
    PROVE  /\ Legible(Table)
           /\ \A s \in 1..Sentences : /\ Table[s] = Fields(s) /\ HasFix(s) \in BOOLEAN
                                      /\ HasFix(s) <=> Located(Table, s)
<1> SUFFICES ASSUME NEW s \in 1..Sentences
             PROVE  /\ Fields(s) \in Seq(Sound) /\ Len(Fields(s)) >= 3 /\ Len(Fields(s)) <= 6
                    /\ \A j \in 1..Len(Fields(s)) : Fields(s)[j] = "head" <=> j = 1
                    /\ Fields(s)[Len(Fields(s))] = "sum"
                    /\ (\E j \in 1..Len(Fields(s)) : Fields(s)[j] = "lon")
                         <=> (\E j \in 1..Len(Fields(s)) : Fields(s)[j] = "lat")
                    /\ HasFix(s) \in BOOLEAN
                    /\ HasFix(s) <=> (\E j \in 1..Len(Fields(s)) : Fields(s)[j] = "lat")
  BY DEF Table, Legible, Located
<1>1. HasFix(s) \in BOOLEAN
  <2>1. (s + 1) \div 2 \in 1..(Sentences + 1) \div 2
    BY FirmwareAssumption
  <2> QED BY <2>1 DEF HasFix
<1> DEFINE rp == <<"head", "status", "lat", "lon", "rest", "sum">>
           rn == <<"head", "status", "rest", "sum">>
           gp == <<"head", "lat", "lon", "rest", "rest", "sum">>
           gn == <<"head", "rest", "sum">>
<1>2. Fields(s) = IF Kind(s) = "RMC" THEN IF HasFix(s) THEN rp ELSE rn
                                     ELSE IF HasFix(s) THEN gp ELSE gn
  BY DEF Fields
<1> DEFINE Fit(t) == /\ t \in Seq(Sound) /\ Len(t) >= 3 /\ Len(t) <= 6
                     /\ \A j \in 1..Len(t) : t[j] = "head" <=> j = 1
                     /\ t[Len(t)] = "sum"
<1>3. Fit(rp) /\ Len(rp) = 6 /\ rp[3] = "lat" /\ rp[4] = "lon"
  <2>1. rp \in Seq(Sound) /\ Len(rp) = 6
    BY DEF Sound
  <2> QED BY <2>1
<1>4. Fit(rn) /\ \A j \in 1..Len(rn) : rn[j] \notin {"lat", "lon"}
  <2>1. rn \in Seq(Sound) /\ Len(rn) = 4
    BY DEF Sound
  <2> QED BY <2>1
<1>5. Fit(gp) /\ Len(gp) = 6 /\ gp[2] = "lat" /\ gp[3] = "lon"
  <2>1. gp \in Seq(Sound) /\ Len(gp) = 6
    BY DEF Sound
  <2> QED BY <2>1
<1>6. Fit(gn) /\ \A j \in 1..Len(gn) : gn[j] \notin {"lat", "lon"}
  <2>1. gn \in Seq(Sound) /\ Len(gn) = 3
    BY DEF Sound
  <2> QED BY <2>1
<1>7. Fit(Fields(s))
  <2> HIDE DEF rp, rn, gp, gn, Fit
  <2> QED BY <1>1, <1>2, <1>3, <1>4, <1>5, <1>6
<1>8. HasFix(s) => \E i, j \in 1..Len(Fields(s)) : Fields(s)[i] = "lat" /\ Fields(s)[j] = "lon"
  <2> HIDE DEF rp, rn, gp, gn, Fit
  <2>1. 2 \in 1..6 /\ 3 \in 1..6 /\ 4 \in 1..6
    OBVIOUS
  <2> QED BY <1>2, <1>3, <1>5, <2>1
<1>9. ~HasFix(s) => \A j \in 1..Len(Fields(s)) : Fields(s)[j] \notin {"lat", "lon"}
  <2> HIDE DEF rp, rn, gp, gn, Fit
  <2> QED BY <1>2, <1>4, <1>6
<1> HIDE DEF rp, rn, gp, gn
<1> QED BY <1>1, <1>7, <1>8, <1>9

\* What a piece of a line says.
Says(f, d, s, j, p) ==
    /\ p \in APiece /\ p.of = s
    /\ (p.field = "head") <=> (j = 1)
    /\ (p.field \in {"lat"} \cup Damaged("lat")) <=> (f[s][j] = "lat")
    /\ p.field \in Damaged("lat") => <<s, "lat">> \in d
    /\ (p.field = "lon") <=> (f[s][j] = "lon")
    /\ p # LineFeed

LEMMA SentSays ==
    ASSUME NEW f, Legible(f), NEW d, NEW s \in 1..Sentences, NEW j \in 1..Len(f[s]), NEW p,
           p \in Sent(f, d, s, j)
    PROVE  Says(f, d, s, j, p)
<1> USE DEF Says
<1>1. f[s][j] \in Sound /\ (f[s][j] = "head" <=> j = 1)
  BY DEF Legible
<1>2. Damaged("lat") = {"badlat", "badhem"}
  BY DEF Damaged
<1>3. CASE p = Piece(s, f[s][j])
  BY <1>1, <1>2, <1>3 DEF Piece, APiece, Name, Sound, LineFeed
<1>4. ASSUME NEW x \in Damaged(f[s][j]), p = Piece(s, x),
             f[s][j] \in Damageable, <<s, f[s][j]>> \in d
      PROVE  Says(f, d, s, j, p)
  <2>1. f[s][j] \in {"lat", "sum"}
    BY <1>1, <1>4 DEF Sound, Damageable
  <2>2. p.of = s /\ p.field = x
    BY <1>4 DEF Piece
  <2>3. x \in IF f[s][j] = "lat" THEN {"badlat", "badhem"} ELSE {"badsum"}
    BY <1>4 DEF Damaged
  <2>4. p \in APiece /\ p # LineFeed
    BY <2>3, <1>4 DEF APiece, Name, LineFeed, Piece
  <2>5. f[s][j] # "head" /\ p.field # "head" /\ f[s][j] # "lon" /\ p.field # "lon"
    BY <2>1, <2>2, <2>3
  <2> QED BY <1>1, <1>2, <1>4, <2>1, <2>2, <2>3, <2>4, <2>5
<1> QED BY <1>3, <1>4 DEF Sent

LEMMA HoldsFirst ==
    ASSUME NEW f, Legible(f), NEW d, NEW b \in Seq(APiece), NEW s \in 1..Sentences,
           Holds(f, d, b, Len(b), s, Len(f[s]))
    PROVE  Whole(f, d, b, s)
<1>1. Len(f[s]) \in Nat /\ Len(f[s]) >= 3 /\ Len(f[s]) <= 6 /\ Len(b) \in Nat /\ s \in Nat
  BY FirmwareAssumption DEF Legible
<1>2. Len(b) >= 3
  <2>1. Lead(s) \in 0..1
    BY DEF Lead
  <2>2. Len(f[s]) + Lead(s) <= Len(b)
    BY Zenon DEF Holds
  <2> QED BY <1>1, <2>1, <2>2
<1>3. Head(b) = b[1]
  BY <1>2
<1>4. CASE b[1] = LineFeed
  <2>1. b[2] \in Sent(f, d, s, IF s = 1 THEN 2 ELSE 1)
    <3>1. CASE s = 1
      <4>1. 2 \in 1..Len(f[s]) /\ 2 + Lead(s) = 2
        BY <1>1, <3>1 DEF Lead
      <4> QED BY <3>1, <4>1 DEF Holds
    <3>2. CASE s # 1
      <4>1. 1 \in 1..Len(f[s]) /\ 1 + Lead(s) = 2
        BY <1>1, <3>2 DEF Lead
      <4> QED BY <3>2, <4>1 DEF Holds
    <3> QED BY <3>1, <3>2
  <2>2. (IF s = 1 THEN 2 ELSE 1) \in 1..Len(f[s])
    BY <1>1
  <2>3. b[2].of = s
    <3>1. Says(f, d, s, IF s = 1 THEN 2 ELSE 1, b[2])
      BY <2>1, <2>2, SentSays, Zenon
    <3> QED BY <3>1 DEF Says
  <2> QED BY <1>3, <1>4, <2>3 DEF First, Whole
<1>5. CASE b[1] # LineFeed
  <2>1. s = 1 /\ b[1] \in Sent(f, d, 1, 1)
    BY <1>2, <1>5 DEF Holds
  <2>2. 1 \in 1..Len(f[s])
    BY <1>1
  <2>3. b[1].of = s
    <3>1. Says(f, d, s, 1, b[1])
      BY <2>1, <2>2, SentSays
    <3> QED BY <3>1 DEF Says
  <2> QED BY <1>3, <1>5, <2>3 DEF First, Whole
<1> QED BY <1>4, <1>5

\* A piece of a whole line is a line feed, of its sentence, or of a later one.
LEMMA PieceOf ==
    ASSUME NEW f, Legible(f), NEW d, NEW b \in Seq(APiece), NEW s, Whole(f, d, b, s),
           NEW p \in ToSet(b)
    PROVE  \/ p = LineFeed
           \/ \E j \in 1..Len(f[s]) : p \in Sent(f, d, s, j)
           \/ p.of \in s + 1..Sentences /\ <<s, "feed">> \in d
<1>1. /\ Len(f[s]) \in Nat /\ Len(f[s]) >= 3 /\ Len(f[s]) <= 6 /\ Len(b) \in Nat
      /\ s \in 1..Sentences /\ s \in Nat
  BY FirmwareAssumption DEF Legible, Whole
<1>2. PICK i \in 1..Len(b) : p = b[i]
  BY DEF ToSet
<1>3. Lead(s) \in 0..1
  BY DEF Lead
<1>4. CASE i = 1
  BY <1>1, <1>2, <1>4 DEF Holds, Whole
<1>5. CASE i > 1 /\ i <= Len(f[s]) + Lead(s)
  <2>1. i - Lead(s) \in 1..Len(f[s]) /\ i - Lead(s) + Lead(s) = i
    BY <1>1, <1>2, <1>3, <1>5
  <2> QED BY <1>2, <1>5, <2>1 DEF Holds, Whole
<1>6. CASE i > Len(f[s]) + Lead(s)
  <2>1. i \in Len(f[s]) + Lead(s) + 1..Len(b) /\ Len(b) > Len(f[s]) + Lead(s)
    BY <1>1, <1>2, <1>3, <1>6
  <2> QED BY <1>2, <2>1 DEF Holds, Whole
<1> QED BY <1>1, <1>2, <1>3, <1>4, <1>5, <1>6

\* Every place of the sentence is there.
LEMMA PlaceOf ==
    ASSUME NEW f, Legible(f), NEW d, NEW b \in Seq(APiece), NEW s, Whole(f, d, b, s),
           NEW j \in 1..Len(f[s]), j > 1
    PROVE  \E p \in ToSet(b) : p \in Sent(f, d, s, j)
<1>1. Len(f[s]) \in Nat /\ Len(f[s]) >= 3 /\ Len(f[s]) <= 6 /\ Len(b) \in Nat /\ s \in 1..Sentences
  BY DEF Legible, Whole
<1>2. Lead(s) \in 0..1
  BY DEF Lead
<1>3. j + Lead(s) \in 1..Len(b) /\ j + Lead(s) > 1
  BY <1>1, <1>2 DEF Holds, Whole
<1>4. b[j + Lead(s)] \in Sent(f, d, s, j)
  BY <1>3 DEF Holds, Whole
<1> QED BY <1>3, <1>4 DEF ToSet

\* A whole line has a position if, and only if, its sentence does.
LEMMA PositionIn ==
    ASSUME NEW f, Legible(f), NEW d, NEW b \in Seq(APiece), NEW s, Whole(f, d, b, s)
    PROVE  /\ Located(f, s) => Latitude(b) # {} /\ Longitude(b) # {}
           /\ ~Located(f, s) => Latitude(b) = {} /\ Longitude(b) = {}
           /\ Latitude(b) \subseteq {Piece(s, x) : x \in {"lat"} \cup Damaged("lat")}
<1>1. s \in 1..Sentences /\ First(b) = s /\ s \in Nat /\ s # 0
  BY FirmwareAssumption DEF Whole
<1>2. Located(f, s) => Latitude(b) # {} /\ Longitude(b) # {}
  <2> SUFFICES ASSUME Located(f, s) PROVE Latitude(b) # {} /\ Longitude(b) # {}
    OBVIOUS
  <2>1. PICK i \in 1..Len(f[s]) : f[s][i] = "lat"
    BY DEF Located
  <2>2. PICK j \in 1..Len(f[s]) : f[s][j] = "lon"
    BY <1>1 DEF Legible
  <2>3. i > 1 /\ j > 1
    <3>1. f[s][i] # "head" /\ f[s][j] # "head"
      BY <2>1, <2>2
    <3>2. i # 1 /\ j # 1
      BY <1>1, <3>1 DEF Legible
    <3> QED BY <3>2, <1>1 DEF Legible
  <2>4. PICK p \in ToSet(b) : p \in Sent(f, d, s, i)
    BY <2>3, PlaceOf
  <2>5. PICK q \in ToSet(b) : q \in Sent(f, d, s, j)
    BY <2>3, PlaceOf
  <2>6. p.of = s /\ p.field \in {"lat"} \cup Damaged("lat")
    <3>1. Says(f, d, s, i, p)
      BY <1>1, <2>4, SentSays
    <3> QED BY <2>1, <3>1 DEF Says
  <2>7. q.of = s /\ q.field = "lon"
    <3>1. Says(f, d, s, j, q)
      BY <1>1, <2>5, SentSays
    <3> QED BY <2>2, <3>1 DEF Says
  <2> QED BY <1>1, <2>4, <2>5, <2>6, <2>7 DEF Latitude, Longitude
<1>3. ASSUME NEW p \in ToSet(b), p.of = s, p.field \in {"lat", "lon"} \cup Damaged("lat")
      PROVE  Located(f, s) /\ p \in APiece
  <2>1. p # LineFeed
    BY <1>1, <1>3 DEF LineFeed, Piece
  <2>2. p.of \notin s + 1..Sentences
    BY <1>1, <1>3
  <2>3. PICK j \in 1..Len(f[s]) : p \in Sent(f, d, s, j)
    BY <2>1, <2>2, PieceOf
  <2>4. Says(f, d, s, j, p)
    BY <1>1, <2>3, SentSays
  <2>5. f[s][j] = "lat" \/ f[s][j] = "lon"
    BY <1>3, <2>4 DEF Says
  <2>6. Located(f, s)
    BY <1>1, <2>5 DEF Located, Legible
  <2> QED BY <2>4, <2>6 DEF Says
<1>4. ~Located(f, s) => Latitude(b) = {} /\ Longitude(b) = {}
  BY <1>1, <1>3 DEF Latitude, Longitude
<1>5. Latitude(b) \subseteq {Piece(s, x) : x \in {"lat"} \cup Damaged("lat")}
  <2> SUFFICES ASSUME NEW p \in Latitude(b)
               PROVE  \E x \in {"lat"} \cup Damaged("lat") : p = Piece(s, x)
    OBVIOUS
  <2>1. p \in ToSet(b) /\ p.of = s /\ p.field \in {"lat"} \cup Damaged("lat")
    BY <1>1 DEF Latitude
  <2>2. p \in APiece
    BY <1>3, <2>1
  <2> QED BY <2>1, <2>2 DEF APiece, Piece
<1> QED BY <1>2, <1>4, <1>5

\* A line feed put over its first piece leaves a whole line whole.
LEMMA Spoiled ==
    ASSUME NEW f, Legible(f), NEW d, NEW b \in Seq(APiece), NEW s, Whole(f, d, b, s)
    PROVE  /\ Whole(f, d, Put(b, 1, LineFeed), s)
           /\ ToSet(Put(b, 1, LineFeed)) \subseteq ToSet(b) \cup {LineFeed}
<1> DEFINE c == Put(b, 1, LineFeed)
<1>1. /\ Len(f[s]) \in Nat /\ Len(f[s]) >= 3 /\ Len(f[s]) <= 6 /\ Len(b) \in Nat
      /\ s \in 1..Sentences /\ Lead(s) \in 0..1
  BY DEF Legible, Whole, Lead
<1>2. 1 <= Len(b)
  BY <1>1 DEF Holds, Whole
<1>3. c = [b EXCEPT ![1] = LineFeed]
  BY <1>2 DEF Put
<1>4. LineFeed \in APiece
  BY DEF LineFeed, Piece, APiece, Name
<1>5. c \in Seq(APiece) /\ Len(c) = Len(b) /\ c[1] = LineFeed
      /\ \A i \in 1..Len(b) : i # 1 => c[i] = b[i]
  <2> HIDE DEF c
  <2> QED BY <1>2, <1>3, <1>4
<1> HIDE DEF c
<1>6. Holds(f, d, c, Len(c), s, Len(f[s]))
  <2>1. \A j \in 1..Len(f[s]) : j + Lead(s) > 1 => c[j + Lead(s)] \in Sent(f, d, s, j)
    <3> SUFFICES ASSUME NEW j \in 1..Len(f[s]), j + Lead(s) > 1
                 PROVE  c[j + Lead(s)] \in Sent(f, d, s, j)
      OBVIOUS
    <3>1. j + Lead(s) \in 1..Len(b) /\ j + Lead(s) # 1
      BY <1>1 DEF Holds, Whole
    <3>2. b[j + Lead(s)] \in Sent(f, d, s, j)
      BY DEF Holds, Whole
    <3> QED BY <1>5, <3>1, <3>2
  <2>2. \A i \in Len(f[s]) + Lead(s) + 1..Len(c) : c[i].of \in s + 1..Sentences
    <3> SUFFICES ASSUME NEW i \in Len(f[s]) + Lead(s) + 1..Len(c)
                 PROVE  c[i].of \in s + 1..Sentences
      OBVIOUS
    <3>1. i \in 1..Len(b) /\ i # 1 /\ i \in Len(f[s]) + Lead(s) + 1..Len(b)
      BY <1>1, <1>5
    <3> QED BY <1>5, <3>1 DEF Holds, Whole
  <2> QED BY <1>5, <2>1, <2>2 DEF Holds, Whole
<1>7. Whole(f, d, c, s)
  BY <1>1, <1>5, <1>6, HoldsFirst
<1>8. ToSet(c) \subseteq ToSet(b) \cup {LineFeed}
  BY <1>5 DEF ToSet
<1> QED BY <1>7, <1>8 DEF c

\* More damage changes nothing about what is there.
LEMMA HoldsMore ==
    ASSUME NEW f, NEW d, NEW e, d \subseteq e, NEW b, NEW len, NEW s, NEW m,
           Holds(f, d, b, len, s, m)
    PROVE  Holds(f, e, b, len, s, m)
<1>1. \A t, j : Sent(f, d, t, j) \subseteq Sent(f, e, t, j)
  BY DEF Sent
<1> QED BY <1>1 DEF Holds

LEMMA WholeMore ==
    ASSUME NEW f, NEW d, NEW e, d \subseteq e, NEW b, NEW s, Whole(f, d, b, s)
    PROVE  Whole(f, e, b, s)
BY HoldsMore DEF Whole

LEMMA PutIs ==
    ASSUME NEW b \in Seq(APiece), NEW len \in Nat, len <= Len(b), NEW p \in APiece
    PROVE  /\ Put(b, len + 1, p) \in Seq(APiece) /\ Len(Put(b, len + 1, p)) >= len + 1
           /\ Put(b, len + 1, p)[len + 1] = p
           /\ \A i \in 1..len : Put(b, len + 1, p)[i] = b[i]
<1>1. CASE len + 1 <= Len(b)
  <2>1. Put(b, len + 1, p) = [b EXCEPT ![len + 1] = p]
    BY <1>1 DEF Put
  <2> QED BY <1>1, <2>1
<1>2. CASE len = Len(b)
  <2>1. Put(b, len + 1, p) = Append(b, p)
    BY <1>2 DEF Put
  <2> QED BY <1>2, <2>1
<1> QED BY <1>1, <1>2

\* One more piece of the sentence.
LEMMA HoldsNext ==
    ASSUME NEW f, NEW d, NEW b \in Seq(APiece), NEW len \in Nat, NEW s \in 1..Sentences,
           NEW m \in Nat, Holds(f, d, b, len, s, m), len = m + Lead(s),
           NEW p \in APiece, p \in Sent(f, d, s, m + 1)
    PROVE  Holds(f, d, Put(b, len + 1, p), len + 1, s, m + 1)
<1> DEFINE c == Put(b, len + 1, p)
<1>1. len <= Len(b) /\ Lead(s) \in 0..1
  BY DEF Holds, Lead
<1>2. /\ c \in Seq(APiece) /\ Len(c) >= len + 1 /\ c[len + 1] = p
      /\ \A i \in 1..len : c[i] = b[i]
  BY <1>1, PutIs
<1> HIDE DEF c
<1>3. \/ c[1] = LineFeed
      \/ s = 1 /\ c[1] \in Sent(f, d, 1, 1)
  <2>1. CASE len >= 1
    <3>1. c[1] = b[1]
      BY <1>2, <2>1
    <3> QED BY <2>1, <3>1 DEF Holds
  <2>2. CASE len = 0
    <3>1. s = 1 /\ m = 0
      BY <2>2, <1>1 DEF Lead
    <3> QED BY <1>2, <2>2, <3>1
  <2> QED BY <2>1, <2>2
<1>4. ASSUME NEW j \in 1..m + 1, j + Lead(s) > 1 PROVE c[j + Lead(s)] \in Sent(f, d, s, j)
  <2>1. CASE j = m + 1
    <3>1. j + Lead(s) = len + 1
      BY <1>1, <2>1
    <3> QED BY <1>2, <2>1, <3>1
  <2>2. CASE j # m + 1
    <3>1. j \in 1..m /\ j + Lead(s) \in 1..len
      BY <1>1, <2>2
    <3> QED BY <1>2, <1>4, <3>1 DEF Holds
  <2> QED BY <2>1, <2>2
<1>5. m + 1 + Lead(s) = len + 1
  BY <1>1
<1> QED BY <1>1, <1>2, <1>3, <1>4, <1>5 DEF Holds, c

\* A piece of a later sentence, kept or not.
Later(s) == {p \in APiece : p.of \in s + 1..Sentences}
LEMMA HoldsOther ==
    ASSUME NEW f, NEW d, NEW b \in Seq(APiece), NEW len \in Nat, NEW s \in 1..Sentences,
           NEW m \in Nat \ {0}, Holds(f, d, b, len, s, m), <<s, "feed">> \in d,
           NEW p \in Later(s), NEW l, l = len \/ l = len + 1
    PROVE  Holds(f, d, Put(b, len + 1, p), l, s, m)
<1> DEFINE c == Put(b, len + 1, p)
<1>1. len <= Len(b) /\ Lead(s) \in 0..1 /\ m + Lead(s) <= len
  BY DEF Holds, Lead
<1>2. /\ c \in Seq(APiece) /\ Len(c) >= len + 1 /\ c[len + 1] = p
      /\ \A i \in 1..len : c[i] = b[i]
  BY <1>1, PutIs DEF Later
<1> HIDE DEF c
<1>3. 1 \in 1..len
  BY <1>1
<1>4. \/ c[1] = LineFeed
      \/ s = 1 /\ c[1] \in Sent(f, d, 1, 1)
  BY <1>2, <1>3 DEF Holds
<1>5. ASSUME NEW j \in 1..m, j + Lead(s) > 1 PROVE c[j + Lead(s)] \in Sent(f, d, s, j)
  <2>1. j + Lead(s) \in 1..len
    BY <1>1
  <2> QED BY <1>2, <1>5, <2>1 DEF Holds
<1>6. ASSUME NEW i \in m + Lead(s) + 1..l PROVE c[i].of \in s + 1..Sentences
  <2>1. CASE i = len + 1
    BY <1>2, <2>1 DEF Later
  <2>2. CASE i # len + 1
    <3>1. i \in 1..len /\ i \in m + Lead(s) + 1..len
      BY <1>1, <2>2
    <3> QED BY <1>2, <3>1 DEF Holds
  <2> QED BY <2>1, <2>2
<1>7. m + Lead(s) <= l /\ l <= Len(c)
  BY <1>1, <1>2
<1> QED BY <1>4, <1>5, <1>6, <1>7 DEF Holds, c

\* What EndLine() cuts off.
LEMMA CutWhole ==
    ASSUME NEW f, Legible(f), NEW d, NEW b \in Seq(APiece), NEW len \in Nat, NEW s \in 1..Sentences,
           Holds(f, d, b, len, s, Len(f[s]))
    PROVE  SubSeq(b, 1, len) \in Seq(APiece) /\ Whole(f, d, SubSeq(b, 1, len), s)
<1> DEFINE c == SubSeq(b, 1, len)
           m == Len(f[s])
<1>1. len <= Len(b) /\ Lead(s) \in 0..1 /\ m \in Nat /\ m >= 3 /\ m + Lead(s) <= len
  <2>1. Lead(s) \in 0..1 /\ m \in Nat /\ m >= 3
    BY DEF Lead, Legible
  <2>2. len <= Len(b) /\ m + Lead(s) <= len
    BY Zenon DEF Holds
  <2> QED BY <2>1, <2>2
<1>2. c \in Seq(APiece) /\ Len(c) = len /\ \A i \in 1..len : c[i] = b[i]
  BY <1>1
<1> HIDE DEF c
<1>3. Holds(f, d, c, len, s, m)
  <2> HIDE DEF m
  <2>1. 1 \in 1..len
    BY <1>1
  <2>2. \/ c[1] = LineFeed
        \/ s = 1 /\ c[1] \in Sent(f, d, 1, 1)
    BY <1>2, <2>1 DEF Holds
  <2>3. ASSUME NEW j \in 1..m, j + Lead(s) > 1 PROVE c[j + Lead(s)] \in Sent(f, d, s, j)
    <3>1. j + Lead(s) \in 1..len
      BY <1>1
    <3> QED BY <1>2, <2>3, <3>1 DEF Holds, m
  <2>4. ASSUME NEW i \in m + Lead(s) + 1..len PROVE c[i].of \in s + 1..Sentences
    <3>1. i \in 1..len
      BY <1>1
    <3> QED BY <1>2, <3>1 DEF Holds, m
  <2> QED BY <1>1, <1>2, <2>2, <2>3, <2>4 DEF Holds, m
<1> QED BY <1>2, <1>3, HoldsFirst DEF c

\* The line being filled begins with sentence s.
Fills(f, d, b, len, s, n, k) ==
    /\ Holds(f, d, b, len, s, IF s = n THEN k - 1 ELSE Len(f[s]))
    /\ s = n => len = k - 1 + Lead(s)
    /\ s # n => <<s, "feed">> \in d

\* A line is being parsed; one is waiting to be.
Parsing == pc \in {"checksum", "latitude", "longitude"}
Waiting == recvdflag \/ pc = "last"

\* The sentences of which something is kept.
Remembered == {longitude, fix.of, told.lon, told.fix.of}

\* The last line begins with the whole of a sentence before s, no older than what is kept.
Completed(s) ==
    \E l \in 1..Sentences :
      /\ Whole(Table, damage, line[lastline], l)
      /\ l < s /\ \A x \in Remembered : x <= l
      /\ Parsing => First(Content) <= l

\* The line being filled begins with a sentence newer than what is kept or being read.
InLines ==
    \E s \in 1..sentence :
      /\ Fills(Table, damage, line[currentline], lineidx, s, sentence, coming)
      /\ \A x \in Remembered : x < s
      /\ Waiting => Completed(s)
      /\ Parsing => First(Content) < s

\* A line being parsed is whole, and it is the last one unless a piece has come in since.
InParse ==
    Parsing =>
      /\ Whole(Table, damage, Content, First(Content))
      /\ during = 0 => nmea = lastline
      /\ \A x \in Remembered : x <= First(Content)

\* What the properties except.
Excused ==
    \E s \in 1..Sentences : Unnoticed(s) \/ (Kind(s) = "RMC" /\ Hit(s, "feed"))

\* A damaged latitude is accepted only if the checksum does not tell.
Told(b, s) ==
    \A x \in Damaged("lat") : Piece(s, x) \in ToSet(b) => Unnoticed(s)

\* What the checksum and the search for the layout have made sure of.
Understood ==
    pc \in {"latitude", "longitude"} =>
      /\ layout \in {"GGA", "RMC"}
      /\ layout = "RMC" => Kind(First(Content)) = "RMC"
      /\ ~Excused => layout = Kind(First(Content))
      /\ Told(Content, First(Content))

\* Latitude and longitude are of one sentence, but between the two steps of a parse.
Agreed ==
    ~Excused =>
      /\ told.lat = told.lon
      /\ latitude = IF pc = "longitude" /\ HasFix(First(Content)) THEN First(Content) ELSE longitude

\* A fix newer than the position is in the sentence being parsed, or in one that was not
\* parsed to the end.
FixKnown ==
    /\ FixHasPosition
    /\ fix.value /\ longitude < fix.of =>
         \/ pc = "longitude" /\ fix.of = First(Content) /\ HasFix(fix.of)
         \/ Unnoticed(fix.of)
    /\ told.lon <= longitude /\ told.fix.of <= fix.of
FirmwareInv == FirmwareTypeOK /\ InLines /\ InParse /\ Understood /\ Agreed /\ FixKnown

LEMMA TableSame == ASSUME sky' = sky PROVE Table' = Table /\ \A s : HasFix(s)' = HasFix(s)
BY DEF Table, Fields, HasFix

LEMMA ContentType == ASSUME FirmwareTypeOK PROVE Content \in Seq(APiece)
BY DEF FirmwareTypeOK, Content

LEMMA FirmwareInitInv == FirmwareInit => FirmwareInv
<1> SUFFICES ASSUME FirmwareInit PROVE FirmwareInv
  OBVIOUS
<1>1. FirmwareTypeOK
  <2>1. <<>> \in Seq(APiece)
    OBVIOUS
  <2>2. line \in [1..2 -> Seq(APiece)]
    <3>1. line \in Seq(Seq(APiece)) /\ Len(line) = 2
      BY <2>1 DEF FirmwareInit
    <3> QED BY <3>1, LenProperties
  <2>3. told \in Positions /\ fix \in [of : Nat, value : BOOLEAN]
    BY DEF FirmwareInit, Positions
  <2>4. sentence <= Sentences => coming <= Len(Fields(sentence)) + 1
    <3> SUFFICES ASSUME 1 <= Sentences PROVE 1 <= Len(Fields(1)) + 1
      BY DEF FirmwareInit
    <3>1. 1 \in 1..Sentences
      BY FirmwareAssumption
    <3>2. Table[1] = Fields(1) /\ Table[1] \in Seq(Sound)
      BY <3>1, TableIs DEF FirmwareInit, Legible
    <3> QED BY <3>2
  <2>5. sky \in [1..(Sentences + 1) \div 2 -> BOOLEAN]
    BY DEF FirmwareInit
  <2>6. sentence \in 1..Sentences + 1 /\ coming \in Nat \ {0} /\ lineidx \in 0..MAXLINELENGTH - 1
    BY FirmwareAssumption DEF FirmwareInit
  <2>7. currentline \in 1..2 /\ lastline = 3 - currentline
    BY DEF FirmwareInit
  <2>8. recvdflag \in BOOLEAN
    BY Zenon DEF FirmwareInit
  <2>9. /\ pc \in {"check", "last", "checksum", "latitude", "longitude", "debug", "serial"}
        /\ nmea \in 1..2 /\ during \in Nat
        /\ latitude \in Nat /\ longitude \in Nat
    BY DEF FirmwareInit
  <2> QED BY <2>2, <2>3, <2>4, <2>5, <2>6, <2>7, <2>8, <2>9 DEF FirmwareTypeOK
<1>2. Fills(Table, damage, line[currentline], lineidx, 1, sentence, coming)
  <2>1. line[currentline] = <<>> /\ lineidx = 0 /\ sentence = 1 /\ coming = 1 /\ Lead(1) = 0
    BY DEF FirmwareInit, Lead
  <2>2. Holds(Table, damage, <<>>, 0, 1, 0)
    BY <2>1 DEF Holds
  <2> QED BY <2>1, <2>2 DEF Fills
<1>3. Remembered = {0} /\ ~Waiting /\ ~Parsing /\ 1 \in 1..sentence
  BY DEF FirmwareInit, Remembered, Parsing, Waiting
<1>4. InLines
  BY <1>2, <1>3 DEF InLines
<1>5. InParse /\ Understood
  BY <1>3 DEF InParse, Understood, Parsing
<1>6. Agreed /\ FixKnown
  BY DEF FirmwareInit, Agreed, FixKnown, FixHasPosition
<1> QED BY <1>1, <1>4, <1>5, <1>6 DEF FirmwareInv

\* What the interrupt does to the line being filled.
LEMMA StoreType ==
    ASSUME FirmwareTypeOK, NEW p \in APiece, Store(p), lineidx <= Len(line[currentline])
    PROVE  /\ line' \in [1..2 -> Seq(APiece)] /\ lineidx' \in 0..MAXLINELENGTH - 1
           /\ line' = [line EXCEPT ![currentline] = Put(@, lineidx + 1, p)]
           /\ lineidx' \in {lineidx, lineidx + 1}
           /\ lineidx + 1 < MAXLINELENGTH => lineidx' = lineidx + 1
<1>1. lineidx \in Nat /\ lineidx <= MAXLINELENGTH - 1 /\ MAXLINELENGTH \in Nat
      /\ line[currentline] \in Seq(APiece)
  BY FirmwareAssumption DEF FirmwareTypeOK
<1>2. Put(line[currentline], lineidx + 1, p) \in Seq(APiece)
  BY <1>1, PutIs
<1>3. line' = [line EXCEPT ![currentline] = Put(@, lineidx + 1, p)]
  BY DEF Store
<1>4. line' \in [1..2 -> Seq(APiece)]
  BY <1>2, <1>3 DEF FirmwareTypeOK
<1>5. lineidx' = IF lineidx + 1 >= MAXLINELENGTH THEN MAXLINELENGTH - 1 ELSE lineidx + 1
  BY DEF Store, Capped
<1> QED BY <1>1, <1>3, <1>4, <1>5, FirmwareAssumption

\* Fills survives the next piece.
LEMMA StoreFills ==
    ASSUME FirmwareTypeOK, NEW s \in 1..sentence,
           Fills(Table, damage, line[currentline], lineidx, s, sentence, coming),
           sentence <= Sentences, coming <= Len(Fields(sentence)), damage \subseteq damage',
           NEW p \in APiece, p \in Sent(Table, damage', sentence, coming), p.of = sentence, Store(p)
    PROVE  /\ Fills(Table, damage', line'[currentline], lineidx', s, sentence, coming + 1)
           /\ line' \in [1..2 -> Seq(APiece)] /\ lineidx' \in 0..MAXLINELENGTH - 1
           /\ line'[3 - currentline] = line[3 - currentline]
<1> DEFINE b == line[currentline]
           m == IF s = sentence THEN coming - 1 ELSE Len(Table[s])
<1>1. /\ b \in Seq(APiece) /\ lineidx \in Nat /\ currentline \in 1..2 /\ 3 - currentline \in 1..2
      /\ 3 - currentline # currentline /\ sentence \in 1..Sentences /\ coming \in Nat \ {0}
      /\ s \in 1..Sentences /\ s \in Nat /\ lineidx <= MAXLINELENGTH - 1
  BY FirmwareAssumption DEF FirmwareTypeOK
<1>2. Legible(Table) /\ Table[sentence] = Fields(sentence)
  BY <1>1, TableIs DEF FirmwareTypeOK
<1>3. Holds(Table, damage', b, lineidx, s, m)
  BY HoldsMore DEF Fills
<1>4. lineidx <= Len(b)
  BY <1>3 DEF Holds
<1>5. /\ line' \in [1..2 -> Seq(APiece)] /\ lineidx' \in 0..MAXLINELENGTH - 1
      /\ line' = [line EXCEPT ![currentline] = Put(@, lineidx + 1, p)]
      /\ lineidx' \in {lineidx, lineidx + 1}
      /\ lineidx + 1 < MAXLINELENGTH => lineidx' = lineidx + 1
  BY <1>4, StoreType
<1>6. line'[currentline] = Put(b, lineidx + 1, p) /\ line'[3 - currentline] = line[3 - currentline]
  BY <1>1, <1>5 DEF FirmwareTypeOK
<1>7. Fills(Table, damage', line'[currentline], lineidx', s, sentence, coming + 1)
  <2>1. CASE s = sentence
    <3>1. m = coming - 1 /\ m \in Nat /\ m + 1 = coming /\ lineidx = m + Lead(s)
      BY <1>1, <2>1 DEF Fills
    <3>2. Lead(s) \in 0..1 /\ Len(Table[sentence]) <= 6 /\ Len(Table[sentence]) \in Nat
      BY <1>1, <1>2 DEF Lead, Legible
    <3>3. lineidx' = lineidx + 1
      <4>1. lineidx + 1 < MAXLINELENGTH
        BY <1>1, <1>2, <3>1, <3>2, FirmwareAssumption
      <4> QED BY <1>5, <4>1
    <3> HIDE DEF m, b
    <3>4. p \in Sent(Table, damage', s, m + 1)
      BY <2>1, <3>1
    <3>5. Holds(Table, damage', Put(b, lineidx + 1, p), lineidx + 1, s, m + 1)
      BY <1>1, <1>3, <3>1, <3>4, HoldsNext
    <3>6. /\ m + 1 = IF s = sentence THEN (coming + 1) - 1 ELSE Len(Table[s])
          /\ lineidx + 1 = (coming + 1) - 1 + Lead(s)
      BY <1>1, <2>1, <3>1, <3>2
    <3>7. Holds(Table, damage', line'[currentline], lineidx', s, m + 1)
      BY <1>6, <3>3, <3>5
    <3>8. lineidx' = (coming + 1) - 1 + Lead(s)
      BY <3>3, <3>6
    <3> QED BY <2>1, <3>6, <3>7, <3>8, Zenon DEF Fills
  <2>2. CASE s # sentence
    <3>1. m = Len(Table[s]) /\ m \in Nat \ {0} /\ <<s, "feed">> \in damage'
      BY <1>1, <1>2, <2>2 DEF Fills, Legible
    <3>2. p \in Later(s)
      BY <1>1, <2>2 DEF Later
    <3> HIDE DEF m, b
    <3>3. lineidx' = lineidx \/ lineidx' = lineidx + 1
      BY <1>5
    <3>4. Holds(Table, damage', line'[currentline], lineidx', s, m)
      BY <1>1, <1>3, <1>6, <3>1, <3>2, <3>3, HoldsOther
    <3>5. m = IF s = sentence THEN (coming + 1) - 1 ELSE Len(Table[s])
      BY <2>2, <3>1
    <3> QED BY <2>2, <3>1, <3>4, <3>5, Zenon DEF Fills
  <2> QED BY <2>1, <2>2
<1> QED BY <1>5, <1>6, <1>7

\* A finished line becomes the last, and the other one begins with its line feed.
LEMMA EndLineFills ==
    ASSUME FirmwareTypeOK, NEW s \in 1..sentence,
           Fills(Table, damage, line[currentline], lineidx, s, sentence, coming),
           sentence <= Sentences, coming = Len(Fields(sentence)) + 1, EndLine
    PROVE  /\ line' \in [1..2 -> Seq(APiece)]
           /\ Whole(Table, damage, line'[currentline], s)
           /\ line'[3 - currentline] = Put(line[3 - currentline], 1, LineFeed)
           /\ Fills(Table, damage, line'[3 - currentline], 1, sentence + 1, sentence + 1, 1)
<1> DEFINE b == line[currentline]
           c == line[3 - currentline]
<1>1. /\ b \in Seq(APiece) /\ c \in Seq(APiece) /\ lineidx \in Nat
      /\ currentline \in 1..2 /\ 3 - currentline \in 1..2 /\ 3 - currentline # currentline
      /\ sentence \in 1..Sentences /\ s \in 1..Sentences /\ sentence \in Nat
  BY FirmwareAssumption DEF FirmwareTypeOK
<1>2. Legible(Table) /\ Table[sentence] = Fields(sentence) /\ Len(Table[sentence]) \in Nat
  BY <1>1, TableIs DEF FirmwareTypeOK, Legible
<1>3. Holds(Table, damage, b, lineidx, s, Len(Table[s]))
  <2>1. s = sentence => coming - 1 = Len(Table[s])
    BY <1>2
  <2> QED BY <2>1 DEF Fills
<1>4. SubSeq(b, 1, lineidx) \in Seq(APiece) /\ Whole(Table, damage, SubSeq(b, 1, lineidx), s)
  BY <1>1, <1>2, <1>3, CutWhole
<1>5. LineFeed \in APiece
  BY DEF LineFeed, Piece, APiece, Name
<1> DEFINE e == Put(c, 1, LineFeed)
<1>6. e \in Seq(APiece) /\ Len(e) >= 1 /\ e[1] = LineFeed
  <2>1. 0 \in Nat /\ 0 <= Len(c) /\ 0 + 1 = 1
    BY <1>1
  <2> HIDE DEF c
  <2>2. /\ Put(c, 0 + 1, LineFeed) \in Seq(APiece) /\ Len(Put(c, 0 + 1, LineFeed)) >= 0 + 1
        /\ Put(c, 0 + 1, LineFeed)[0 + 1] = LineFeed
    BY <1>1, <1>5, <2>1, PutIs, Zenon
  <2> QED BY <2>1, <2>2, Zenon
<1>7. line' = [line EXCEPT ![currentline] = SubSeq(b, 1, lineidx), ![3 - currentline] = e]
  BY DEF EndLine
<1>8. line'[currentline] = SubSeq(b, 1, lineidx) /\ line'[3 - currentline] = e
  <2> HIDE DEF b, c, e
  <2> QED BY <1>1, <1>7 DEF FirmwareTypeOK
<1>9. line' \in [1..2 -> Seq(APiece)]
  <2> HIDE DEF b, c, e
  <2> QED BY <1>1, <1>4, <1>6, <1>7 DEF FirmwareTypeOK
<1>10. Fills(Table, damage, e, 1, sentence + 1, sentence + 1, 1)
  <2>1. Lead(sentence + 1) = 1
    BY <1>1 DEF Lead
  <2>2. Holds(Table, damage, e, 1, sentence + 1, 0)
    <3> HIDE DEF e
    <3> QED BY <1>1, <1>6, <2>1 DEF Holds
  <2> HIDE DEF e
  <2> QED BY <2>1, <2>2 DEF Fills
<1> QED BY <1>4, <1>8, <1>9, <1>10

LEMMA ExcusedMore == ASSUME damage \subseteq damage', Excused PROVE Excused'
BY DEF Excused, Unnoticed, Hit
LEMMA UnnoticedMore ==
    ASSUME damage \subseteq damage', NEW s, Unnoticed(s) PROVE Unnoticed(s)'
BY DEF Unnoticed, Hit

\* While the line being parsed is left alone but for a line feed over its first piece,
\* what has been found out about it holds.
LEMMA ReadKept ==
    ASSUME FirmwareInv, UNCHANGED <<sky, pc, parse, position, told>>, damage \subseteq damage',
           Parsing => /\ Content' = Content \/ Content' = Put(Content, 1, LineFeed)
                      /\ during' # 0 \/ nmea' = lastline'
    PROVE  /\ InParse' /\ Understood' /\ Agreed' /\ FixKnown'
           /\ Parsing => First(Content)' = First(Content)
<1>1. /\ pc' = pc /\ nmea' = nmea /\ layout' = layout /\ told' = told /\ sky' = sky
      /\ latitude' = latitude /\ longitude' = longitude /\ fix' = fix
  BY DEF parse, position
<1>2. Table' = Table /\ (\A s : HasFix(s)' = HasFix(s)) /\ Legible(Table) /\ Content \in Seq(APiece)
  BY <1>1, TableSame, TableIs, ContentType DEF FirmwareInv, FirmwareTypeOK
<1>3. Parsing' <=> Parsing
  BY <1>1 DEF Parsing
<1>4. Remembered' = Remembered
  BY <1>1 DEF Remembered
<1>5. ASSUME Parsing
      PROVE  /\ Whole(Table, damage', Content', First(Content)) /\ First(Content') = First(Content)
             /\ ToSet(Content') \subseteq ToSet(Content) \cup {LineFeed}
  <2>1. Whole(Table, damage, Content, First(Content))
    BY <1>5 DEF FirmwareInv, InParse
  <2>2. /\ Whole(Table, damage, Content', First(Content))
        /\ ToSet(Content') \subseteq ToSet(Content) \cup {LineFeed}
    <3>1. CASE Content' = Content
      BY <2>1, <3>1
    <3>2. CASE Content' = Put(Content, 1, LineFeed)
      BY <1>2, <2>1, <3>2, Spoiled
    <3> QED BY <1>5, <3>1, <3>2
  <2>3. Whole(Table, damage', Content', First(Content))
    BY <2>2, WholeMore
  <2> QED BY <2>2, <2>3 DEF Whole
<1>6. First(Content)' = First(Content')
  BY DEF First
<1>7. Parsing => First(Content)' = First(Content)
  BY <1>5, <1>6
<1>8. InParse'
  <2> SUFFICES ASSUME Parsing
               PROVE  /\ Whole(Table, damage, Content, First(Content))'
                      /\ during' = 0 => nmea' = lastline'
                      /\ \A x \in Remembered' : x <= First(Content)'
    BY <1>3 DEF InParse
  <2>1. Whole(Table, damage, Content, First(Content))'
    BY <1>2, <1>5, <1>7
  <2>2. \A x \in Remembered' : x <= First(Content)'
    BY <1>4, <1>7 DEF FirmwareInv, InParse
  <2> QED BY <2>1, <2>2
<1>9. (~Excused' => ~Excused) /\ \A s : Unnoticed(s) => Unnoticed(s)'
  BY ExcusedMore, UnnoticedMore
<1>10. Understood'
  <2> SUFFICES ASSUME pc \in {"latitude", "longitude"}
               PROVE  /\ layout \in {"GGA", "RMC"}
                      /\ layout = "RMC" => Kind(First(Content)') = "RMC"
                      /\ ~Excused' => layout = Kind(First(Content)')
                      /\ \A x \in Damaged("lat") :
                           Piece(First(Content)', x) \in ToSet(Content')
                             => \E t : t = First(Content)' /\ Unnoticed(t)'
    BY <1>1 DEF Understood, Told, Kind, ToSet, Piece, Damaged, Unnoticed, Hit
  <2>1. Parsing
    BY DEF Parsing
  <2>2. /\ layout \in {"GGA", "RMC"}
        /\ layout = "RMC" => Kind(First(Content)) = "RMC"
        /\ ~Excused => layout = Kind(First(Content))
        /\ \A x \in Damaged("lat") : Piece(First(Content), x) \in ToSet(Content)
                                        => Unnoticed(First(Content))
    BY DEF FirmwareInv, Understood, Told
  <2>3. \A x \in Damaged("lat") : Piece(First(Content), x) # LineFeed
    BY DEF Piece, LineFeed, Damaged
  <2> QED BY <1>5, <1>7, <1>9, <2>1, <2>2, <2>3
<1>11. pc = "longitude" => First(Content)' = First(Content)
  BY <1>7 DEF Parsing
<1>12. Agreed'
  <2> SUFFICES ASSUME ~Excused'
               PROVE  /\ told'.lat = told'.lon
                      /\ latitude' = IF pc' = "longitude" /\ HasFix(First(Content))'
                                     THEN First(Content)' ELSE longitude'
    BY DEF Agreed
  <2>1. /\ told.lat = told.lon
        /\ latitude = IF pc = "longitude" /\ HasFix(First(Content)) THEN First(Content) ELSE longitude
    BY <1>9 DEF FirmwareInv, Agreed
  <2>2. HasFix(First(Content))' <=> HasFix(First(Content)')
    BY <1>1 DEF HasFix
  <2> QED BY <1>1, <1>11, <2>1, <2>2
<1>13. FixKnown'
  <2>1. FixHasPosition'
    BY <1>1, <1>9 DEF FirmwareInv, FixKnown, FixHasPosition, Unnoticed, Hit
  <2>2. HasFix(fix.of)' <=> HasFix(fix.of)
    BY <1>1 DEF HasFix
  <2>3. fix.value /\ longitude < fix.of =>
          \/ pc = "longitude" /\ fix.of = First(Content) /\ HasFix(fix.of)
          \/ Unnoticed(fix.of)
    BY DEF FirmwareInv, FixKnown
  <2>4. fix.value' /\ longitude' < fix.of' =>
          \/ pc' = "longitude" /\ fix.of' = First(Content)' /\ HasFix(fix.of)'
          \/ Unnoticed(fix.of)'
    <3>1. Unnoticed(fix.of) => Unnoticed(fix.of)'
      BY <1>1 DEF Unnoticed, Hit
    <3> QED BY <1>1, <1>11, <2>2, <2>3, <3>1
  <2>5. told'.lon <= longitude' /\ told'.fix.of <= fix'.of
    BY <1>1 DEF FirmwareInv, FixKnown
  <2> QED BY <2>1, <2>4, <2>5 DEF FirmwareInv, FixKnown
<1> QED BY <1>7, <1>8, <1>10, <1>12, <1>13

LEMMA InterruptStep == FirmwareInv /\ Interrupt => FirmwareInv'
<1> SUFFICES ASSUME FirmwareInv, Interrupt PROVE FirmwareInv'
  OBVIOUS
<1>1. /\ UNCHANGED <<sky, pc, parse, position, told>> /\ sentence <= Sentences
      /\ pc' = pc /\ told' = told /\ sky' = sky /\ nmea' = nmea /\ fix' = fix
      /\ latitude' = latitude /\ longitude' = longitude
      /\ Parsing => during = 0 /\ during' = during + 1
      /\ during' = during + 1 \/ during' = 0
  BY DEF Interrupt, Reading, Parsing, parse, position
<1>2. FirmwareTypeOK
  BY DEF FirmwareInv
<1>3. /\ sentence \in 1..Sentences /\ sentence \in Nat /\ coming \in Nat \ {0}
      /\ coming <= Len(Fields(sentence)) + 1 /\ during \in Nat /\ Sentences \in Nat
      /\ currentline \in 1..2 /\ lastline = 3 - currentline /\ nmea \in 1..2
      /\ 3 - currentline \in 1..2 /\ 3 - currentline # currentline
      /\ lineidx \in 0..MAXLINELENGTH - 1 /\ recvdflag \in BOOLEAN
  BY <1>1, <1>2, FirmwareAssumption DEF FirmwareTypeOK
<1>4. /\ Table' = Table /\ Legible(Table) /\ Table[sentence] = Fields(sentence)
      /\ \A s : Fields(s)' = Fields(s)
  <2>1. \A s : Fields(s)' = Fields(s)
    BY <1>1 DEF Fields, HasFix
  <2> QED BY <1>1, <1>2, <1>3, <2>1, TableSame, TableIs DEF FirmwareTypeOK
<1>5. Len(Fields(sentence)) \in Nat
  BY <1>3, <1>4 DEF Legible
<1>6. PICK s \in 1..sentence :
        /\ Fills(Table, damage, line[currentline], lineidx, s, sentence, coming)
        /\ \A x \in Remembered : x < s
        /\ Waiting => Completed(s)
        /\ Parsing => First(Content) < s
  BY DEF FirmwareInv, InLines
<1>7. /\ Parsing' <=> Parsing
      /\ Remembered' = Remembered
  BY <1>1 DEF Parsing, Remembered
<1>8. Parsing => /\ during' # 0 /\ nmea = lastline
                 /\ Whole(Table, damage, Content, First(Content))
  BY <1>1, <1>3 DEF FirmwareInv, InParse
<1>9. CASE /\ coming <= Len(Fields(sentence)) /\ coming' = coming + 1 /\ sentence' = sentence
           /\ damage \subseteq damage'
           /\ \E p \in APiece : /\ p \in Sent(Table, damage', sentence, coming)
                             /\ p.of = sentence /\ Store(p)
  <2>1. PICK p \in APiece : p \in Sent(Table, damage', sentence, coming) /\ p.of = sentence /\ Store(p)
    BY <1>9
  <2>2. /\ Fills(Table, damage', line'[currentline], lineidx', s, sentence, coming + 1)
        /\ line' \in [1..2 -> Seq(APiece)] /\ lineidx' \in 0..MAXLINELENGTH - 1
        /\ line'[3 - currentline] = line[3 - currentline]
    BY <1>1, <1>2, <1>6, <1>9, <2>1, StoreFills
  <2>3. currentline' = currentline /\ lastline' = lastline /\ recvdflag' = recvdflag
    BY <2>1 DEF Store
  <2>4. Parsing => Content' = Content
    BY <1>1, <1>3, <1>8, <2>2 DEF Content
  <2>5. /\ InParse' /\ Understood' /\ Agreed' /\ FixKnown'
        /\ Parsing => First(Content)' = First(Content)
    BY <1>1, <1>8, <1>9, <2>4, ReadKept
  <2>6. Completed(s) => Completed(s)'
    <3> SUFFICES ASSUME Completed(s) PROVE Completed(s)'
      OBVIOUS
    <3>1. PICK l \in 1..Sentences :
            /\ Whole(Table, damage, line[lastline], l)
            /\ l < s /\ \A x \in Remembered : x <= l
            /\ Parsing => First(Content) <= l
      BY DEF Completed
    <3>2. Whole(Table, damage', line'[lastline'], l)
      BY <1>3, <1>9, <2>2, <2>3, <3>1, WholeMore
    <3> QED BY <1>4, <1>7, <2>5, <3>1, <3>2 DEF Completed
  <2>7. InLines'
    <3>1. Fills(Table, damage, line[currentline], lineidx, s, sentence, coming)'
      BY <1>4, <1>9, <2>2, <2>3
    <3>2. Waiting' => Waiting
      BY <1>1, <2>3 DEF Waiting
    <3> QED BY <1>6, <1>7, <1>9, <2>3, <2>5, <2>6, <3>1, <3>2 DEF InLines
  <2>8. FirmwareTypeOK'
    <3>1. coming' \in Nat \ {0} /\ (sentence' <= Sentences => coming' <= Len(Fields(sentence)') + 1)
      BY <1>3, <1>4, <1>5, <1>9
    <3>2. during' \in Nat
      BY <1>1, <1>3
    <3>3. UNCHANGED <<sky, sentence, currentline, lastline, recvdflag, pc, nmea, latitude,
                      longitude, fix, told>>
      BY <1>1, <1>9, <2>3
    <3> QED BY <1>2, <2>2, <3>1, <3>2, <3>3 DEF FirmwareTypeOK
  <2> QED BY <2>5, <2>7, <2>8 DEF FirmwareInv
<1>10. CASE coming = Len(Fields(sentence)) + 1 /\ coming' = 1 /\ sentence' = sentence + 1
            /\ EndLine /\ damage' = damage
  <2>1. /\ line' \in [1..2 -> Seq(APiece)]
        /\ Whole(Table, damage, line'[currentline], s)
        /\ line'[3 - currentline] = Put(line[3 - currentline], 1, LineFeed)
        /\ Fills(Table, damage, line'[3 - currentline], 1, sentence + 1, sentence + 1, 1)
    BY <1>1, <1>2, <1>6, <1>10, EndLineFills
  <2>2. /\ currentline' = 3 - currentline /\ lastline' = currentline
        /\ lineidx' = 1 /\ recvdflag' = TRUE
    BY <1>10 DEF EndLine
  <2>3. Parsing => Content' = Put(Content, 1, LineFeed)
    BY <1>1, <1>3, <1>8, <2>1 DEF Content
  <2>4. /\ InParse' /\ Understood' /\ Agreed' /\ FixKnown'
        /\ Parsing => First(Content)' = First(Content)
    BY <1>1, <1>8, <1>10, <2>3, ReadKept
  <2>5. /\ s \in 1..Sentences /\ s < sentence + 1 /\ sentence + 1 \in 1..sentence + 1
        /\ \A x \in Remembered : x \in Nat
    BY <1>2, <1>3 DEF Remembered, FirmwareTypeOK, Positions
  <2>6. \A x \in Remembered : x <= s /\ x < sentence + 1
    BY <1>3, <1>6, <2>5
  <2>7. Parsing => First(Content) <= s /\ First(Content) < sentence + 1
    BY <1>3, <1>6, <1>8, <2>5 DEF Whole
  <2>8. PICK t \in 1..sentence' : t = sentence + 1
    BY <1>10, <2>5
  <2>9. InLines'
    <3>1. Fills(Table', damage', line'[currentline'], lineidx', t, sentence', coming')
      BY <1>4, <1>10, <2>1, <2>2, <2>8
    <3>2. /\ \A x \in Remembered' : x < t
          /\ Parsing' => First(Content)' < t
      BY <1>7, <2>4, <2>6, <2>7, <2>8
    <3>3. Completed(t)'
      <4>1. Whole(Table', damage', line'[lastline'], s)
        BY <1>4, <1>10, <2>1, <2>2
      <4>2. s < t /\ (\A x \in Remembered' : x <= s) /\ (Parsing' => First(Content)' <= s)
        BY <1>7, <2>4, <2>5, <2>6, <2>7, <2>8
      <4> QED BY <2>5, <4>1, <4>2 DEF Completed
    <3> QED BY <2>8, <3>1, <3>2, <3>3, Zenon DEF InLines
  <2>10. FirmwareTypeOK'
    <3>1. sentence' \in 1..Sentences + 1 /\ coming' \in Nat \ {0} /\ during' \in Nat
      BY <1>1, <1>3, <1>10
    <3>2. sentence' <= Sentences => coming' <= Len(Fields(sentence)') + 1
      <4> SUFFICES ASSUME sentence + 1 <= Sentences PROVE 1 <= Len(Fields(sentence + 1)) + 1
        BY <1>4, <1>10 DEF Fields, HasFix
      <4>1. sentence + 1 \in 1..Sentences
        BY <1>3
      <4>2. Table[sentence + 1] = Fields(sentence + 1) /\ Len(Table[sentence + 1]) \in Nat
        BY <1>2, <1>4, <4>1, TableIs DEF FirmwareTypeOK, Legible
      <4> QED BY <4>2
    <3>3. /\ currentline' \in 1..2 /\ lastline' = 3 - currentline'
          /\ lineidx' \in 0..MAXLINELENGTH - 1
      BY <1>3, <2>2, FirmwareAssumption
    <3>4. recvdflag' \in BOOLEAN
      BY <2>2
    <3>5. UNCHANGED <<sky, pc, nmea, latitude, longitude, fix, told>>
      BY <1>1
    <3> QED BY <1>2, <2>1, <3>1, <3>2, <3>3, <3>4, <3>5 DEF FirmwareTypeOK
  <2> QED BY <2>4, <2>9, <2>10 DEF FirmwareInv
<1>11. CASE coming = Len(Fields(sentence)) + 1 /\ coming' = 1 /\ sentence' = sentence + 1
            /\ UNCHANGED lines /\ damage' = damage \cup {<<sentence, "feed">>}
  <2>1. /\ line' = line /\ currentline' = currentline /\ lastline' = lastline
        /\ lineidx' = lineidx /\ recvdflag' = recvdflag /\ damage \subseteq damage'
    BY <1>11 DEF lines
  <2>2. Content' = Content
    BY <1>1, <2>1 DEF Content
  <2>3. /\ InParse' /\ Understood' /\ Agreed' /\ FixKnown'
        /\ Parsing => First(Content)' = First(Content)
    BY <1>1, <1>8, <2>1, <2>2, ReadKept
  <2>4. Fills(Table, damage', line[currentline], lineidx, s, sentence + 1, 1)
    <3>1. Holds(Table, damage', line[currentline], lineidx, s, Len(Table[s]))
      <4>1. Holds(Table, damage, line[currentline], lineidx, s,
                  IF s = sentence THEN coming - 1 ELSE Len(Table[s]))
        BY <1>6 DEF Fills
      <4>2. s = sentence => coming - 1 = Len(Table[s])
        BY <1>4, <1>5, <1>11
      <4> QED BY <2>1, <4>1, <4>2, HoldsMore
    <3>2. <<s, "feed">> \in damage'
      BY <1>6, <1>11 DEF Fills
    <3>3. s # sentence + 1
      BY <1>3
    <3> QED BY <3>1, <3>2, <3>3 DEF Fills
  <2>5. Completed(s) => Completed(s)'
    <3> SUFFICES ASSUME Completed(s) PROVE Completed(s)'
      OBVIOUS
    <3>1. PICK l \in 1..Sentences :
            /\ Whole(Table, damage, line[lastline], l)
            /\ l < s /\ \A x \in Remembered : x <= l
            /\ Parsing => First(Content) <= l
      BY DEF Completed
    <3>2. Whole(Table, damage', line'[lastline'], l)
      BY <2>1, <3>1, WholeMore
    <3> QED BY <1>4, <1>7, <2>3, <3>1, <3>2 DEF Completed
  <2>6. InLines'
    <3>1. Fills(Table', damage', line'[currentline'], lineidx', s, sentence', coming')
      BY <1>4, <1>11, <2>1, <2>4
    <3>2. s \in 1..sentence'
      BY <1>3, <1>11
    <3>3. Waiting' => Completed(s)'
      BY <1>1, <1>6, <2>1, <2>5 DEF Waiting
    <3> QED BY <1>6, <1>7, <2>3, <3>1, <3>2, <3>3 DEF InLines
  <2>7. FirmwareTypeOK'
    <3>1. sentence' \in 1..Sentences + 1 /\ coming' \in Nat \ {0} /\ during' \in Nat
      BY <1>1, <1>3, <1>11
    <3>2. sentence' <= Sentences => coming' <= Len(Fields(sentence)') + 1
      <4> SUFFICES ASSUME sentence + 1 <= Sentences PROVE 1 <= Len(Fields(sentence + 1)) + 1
        BY <1>1, <1>11 DEF Fields, HasFix
      <4>1. sentence + 1 \in 1..Sentences
        BY <1>3
      <4>2. Table[sentence + 1] = Fields(sentence + 1) /\ Len(Table[sentence + 1]) \in Nat
        BY <1>2, <1>4, <4>1, TableIs DEF FirmwareTypeOK, Legible
      <4> QED BY <4>2
    <3> QED BY <1>1, <1>2, <2>1, <3>1, <3>2 DEF FirmwareTypeOK
  <2> QED BY <2>3, <2>6, <2>7 DEF FirmwareInv
<1>12. \/ /\ coming <= Len(Fields(sentence)) /\ coming' = coming + 1 /\ sentence' = sentence
          /\ \/ Store(Piece(sentence, Fields(sentence)[coming])) /\ damage' = damage
             \/ /\ Fields(sentence)[coming] \in Damageable
                /\ damage' = damage \cup {<<sentence, Fields(sentence)[coming]>>}
                /\ \E x \in Damaged(Fields(sentence)[coming]) : Store(Piece(sentence, x))
       \/ /\ coming = Len(Fields(sentence)) + 1 /\ coming' = 1 /\ sentence' = sentence + 1
          /\ \/ EndLine /\ damage' = damage
             \/ UNCHANGED lines /\ damage' = damage \cup {<<sentence, "feed">>}
  BY DEF Interrupt
<1>13. ASSUME coming <= Len(Fields(sentence))
       PROVE  /\ coming \in 1..Len(Table[sentence])
              /\ \A d : Sent(Table, d, sentence, coming) \subseteq APiece
              /\ \A d : \A p \in Sent(Table, d, sentence, coming) : p.of = sentence
  <2>1. coming \in 1..Len(Table[sentence])
    BY <1>3, <1>4, <1>13
  <2>2. ASSUME NEW d, NEW p \in Sent(Table, d, sentence, coming)
        PROVE  p \in APiece /\ p.of = sentence
    <3>1. Says(Table, d, sentence, coming, p)
      BY <1>3, <1>4, <2>1, SentSays
    <3> QED BY <3>1 DEF Says
  <2> QED BY <2>1, <2>2
<1>14. CASE coming <= Len(Fields(sentence)) /\ coming' = coming + 1 /\ sentence' = sentence
            /\ Store(Piece(sentence, Fields(sentence)[coming])) /\ damage' = damage
  <2>1. Piece(sentence, Fields(sentence)[coming]) \in Sent(Table, damage', sentence, coming)
    BY <1>4 DEF Sent
  <2> QED BY <1>9, <1>13, <1>14, <2>1
<1>15. CASE /\ coming <= Len(Fields(sentence)) /\ coming' = coming + 1 /\ sentence' = sentence
            /\ Fields(sentence)[coming] \in Damageable
            /\ damage' = damage \cup {<<sentence, Fields(sentence)[coming]>>}
            /\ \E x \in Damaged(Fields(sentence)[coming]) : Store(Piece(sentence, x))
  <2>1. PICK x \in Damaged(Fields(sentence)[coming]) : Store(Piece(sentence, x))
    BY <1>15
  <2>2. Piece(sentence, x) \in Sent(Table, damage', sentence, coming)
    BY <1>4, <1>15 DEF Sent
  <2> QED BY <1>9, <1>13, <1>15, <2>1, <2>2
<1> QED BY <1>10, <1>11, <1>12, <1>14, <1>15

\* While the lines are left alone, the one being filled begins with a sentence newer
\* than anything read.
LEMMA LinesKept ==
    ASSUME FirmwareInv, UNCHANGED <<link, line, currentline, lastline, lineidx>>,
           Waiting' => Waiting,
           \A x \in Remembered' : x \in Remembered \/ (Parsing /\ x = First(Content)),
           Parsing' => Parsing /\ First(Content)' = First(Content)
    PROVE  InLines'
<1>1. /\ sky' = sky /\ sentence' = sentence /\ coming' = coming /\ damage' = damage
      /\ line' = line /\ currentline' = currentline /\ lastline' = lastline /\ lineidx' = lineidx
  BY DEF link
<1>2. Table' = Table
  BY <1>1, TableSame
<1>3. PICK s \in 1..sentence :
        /\ Fills(Table, damage, line[currentline], lineidx, s, sentence, coming)
        /\ \A x \in Remembered : x < s
        /\ Waiting => Completed(s)
        /\ Parsing => First(Content) < s
  BY DEF FirmwareInv, InLines
<1>4. \A x \in Remembered' : x < s
  BY <1>3
<1>5. Completed(s) => Completed(s)'
  <2> SUFFICES ASSUME Completed(s) PROVE Completed(s)'
    OBVIOUS
  <2>1. PICK l \in 1..Sentences :
          /\ Whole(Table, damage, line[lastline], l)
          /\ l < s /\ \A x \in Remembered : x <= l
          /\ Parsing => First(Content) <= l
    BY DEF Completed
  <2>2. \A x \in Remembered' : x <= l
    BY <2>1
  <2>3. Parsing' => First(Content)' <= l
    BY <2>1
  <2>4. Whole(Table', damage', line'[lastline'], l)
    BY <1>1, <1>2, <2>1
  <2> QED BY <2>1, <2>2, <2>3, <2>4 DEF Completed
<1>6. Fills(Table', damage', line'[currentline'], lineidx', s, sentence', coming')
  BY <1>1, <1>2, <1>3
<1>7. s \in 1..sentence' /\ (Waiting' => Completed(s)') /\ (Parsing' => First(Content)' < s)
  BY <1>1, <1>3, <1>5
<1> QED BY <1>4, <1>6, <1>7, Zenon DEF InLines

\* Between two parses nothing that the properties speak of changes.
LEMMA BetweenParses ==
    ASSUME FirmwareInv, UNCHANGED <<link, position, told>>,
           pc # "longitude", pc' # "longitude"
    PROVE  (pc' # "latitude" => Understood') /\ Agreed' /\ FixKnown'
<1>1. /\ damage' = damage /\ sky' = sky /\ latitude' = latitude /\ longitude' = longitude
      /\ fix' = fix /\ told' = told
  BY DEF link, position
<1>2. /\ Excused' <=> Excused
      /\ FixHasPosition' <=> FixHasPosition
      /\ Unnoticed(fix.of)' <=> Unnoticed(fix.of)
  BY <1>1 DEF Excused, FixHasPosition, Unnoticed, Hit
<1>3. Agreed'
  BY <1>1, <1>2 DEF FirmwareInv, Agreed
<1>4. FixKnown'
  BY <1>1, <1>2 DEF FirmwareInv, FixKnown
<1> QED BY <1>3, <1>4 DEF Understood

LEMMA TakeStep == FirmwareInv /\ Take => FirmwareInv'
<1> SUFFICES ASSUME FirmwareInv, Take PROVE FirmwareInv'
  OBVIOUS
<1>1. /\ pc = "check" /\ during' = 0 /\ UNCHANGED <<link, position, told>>
      /\ UNCHANGED <<link, line, currentline, lastline, lineidx>>
      /\ sky' = sky /\ sentence' = sentence /\ coming' = coming /\ damage' = damage
      /\ line' = line /\ currentline' = currentline /\ lastline' = lastline /\ lineidx' = lineidx
      /\ latitude' = latitude /\ longitude' = longitude /\ fix' = fix /\ told' = told
      /\ nmea' = nmea
      /\ \/ recvdflag /\ recvdflag' = FALSE /\ pc' = "last"
         \/ ~recvdflag /\ recvdflag' = recvdflag /\ pc' = "debug"
  BY DEF Take, link, position, parse
<1>2. FirmwareTypeOK
  BY DEF FirmwareInv
<1>3. /\ \A s : Fields(s)' = Fields(s)
      /\ Remembered' = Remembered /\ ~Parsing' /\ (Waiting' => Waiting)
  BY <1>1 DEF Remembered, Parsing, Waiting, Fields, HasFix
<1>4. FirmwareTypeOK'
  <2>1. pc' \in {"check", "last", "checksum", "latitude", "longitude", "debug", "serial"}
    BY <1>1
  <2>2. recvdflag' \in BOOLEAN
    BY <1>1, <1>2, Zenon DEF FirmwareTypeOK
  <2> QED BY <1>1, <1>2, <1>3, <2>1, <2>2 DEF FirmwareTypeOK
<1>5. Understood' /\ Agreed' /\ FixKnown'
  <2>1. pc # "longitude" /\ pc' # "longitude" /\ pc' # "latitude"
    BY <1>1
  <2> QED BY <1>1, <2>1, BetweenParses
<1>6. InLines'
  <2>1. \A x \in Remembered' : x \in Remembered
    BY <1>3
  <2> QED BY <1>1, <1>3, <2>1, LinesKept, Zenon
<1> QED BY <1>3, <1>4, <1>5, <1>6 DEF FirmwareInv, InParse

LEMMA LastNMEAStep == FirmwareInv /\ LastNMEA => FirmwareInv'
<1> SUFFICES ASSUME FirmwareInv, LastNMEA PROVE FirmwareInv'
  OBVIOUS
<1>1. /\ pc = "last" /\ UNCHANGED <<link, position, told>>
      /\ UNCHANGED <<link, line, currentline, lastline, lineidx>>
      /\ sky' = sky /\ sentence' = sentence /\ coming' = coming /\ damage' = damage
      /\ line' = line /\ currentline' = currentline /\ lastline' = lastline /\ lineidx' = lineidx
      /\ latitude' = latitude /\ longitude' = longitude /\ fix' = fix /\ told' = told
      /\ recvdflag' = recvdflag /\ during' = during
      /\ \/ nmea' = lastline /\ pc' = "checksum"
         \/ nmea' = nmea /\ pc' = "debug" /\ recvdflag
  BY DEF LastNMEA, link, position, lines
<1>2. FirmwareTypeOK
  BY DEF FirmwareInv
<1>3. /\ Table' = Table /\ \A s : Fields(s)' = Fields(s)
      /\ Remembered' = Remembered /\ Waiting
  BY <1>1, TableSame DEF Remembered, Waiting, Fields, HasFix
<1>4. FirmwareTypeOK'
  <2>1. nmea' \in 1..2
    <3>1. lastline \in 1..2
      BY <1>2 DEF FirmwareTypeOK
    <3> QED BY <1>1, <1>2, <3>1 DEF FirmwareTypeOK
  <2>2. pc' \in {"check", "last", "checksum", "latitude", "longitude", "debug", "serial"}
    BY <1>1
  <2> QED BY <1>1, <1>2, <1>3, <2>1, <2>2 DEF FirmwareTypeOK
<1>5. Understood' /\ Agreed' /\ FixKnown'
  <2>1. pc # "longitude" /\ pc' # "longitude" /\ pc' # "latitude"
    BY <1>1
  <2> QED BY <1>1, <2>1, BetweenParses
<1>6. CASE pc' = "debug"
  <2>1. ~Parsing'
    BY <1>6 DEF Parsing
  <2>2. InLines'
    <3>1. \A x \in Remembered' : x \in Remembered
      BY <1>3
    <3> QED BY <1>1, <1>3, <2>1, <3>1, LinesKept, Zenon
  <2> QED BY <1>4, <1>5, <2>1, <2>2 DEF FirmwareInv, InParse
<1>7. CASE nmea' = lastline /\ pc' = "checksum"
  <2>1. PICK s \in 1..sentence :
          /\ Fills(Table, damage, line[currentline], lineidx, s, sentence, coming)
          /\ \A x \in Remembered : x < s
          /\ Completed(s)
    BY <1>3 DEF FirmwareInv, InLines
  <2>2. PICK l \in 1..Sentences :
          /\ Whole(Table, damage, line[lastline], l)
          /\ l < s /\ \A x \in Remembered : x <= l
    BY <2>1 DEF Completed
  <2>3. Content' = line[lastline] /\ First(Content)' = First(Content')
    BY <1>1, <1>7 DEF Content, First
  <2>4. First(Content)' = l
    BY <2>2, <2>3 DEF Whole
  <2>5. InParse'
    <3>1. Whole(Table', damage', Content', First(Content)')
      BY <1>1, <1>3, <2>2, <2>3, <2>4
    <3>2. nmea' = lastline' /\ \A x \in Remembered' : x <= First(Content)'
      BY <1>1, <1>3, <1>7, <2>2, <2>4
    <3> QED BY <3>1, <3>2 DEF InParse
  <2>6. InLines'
    <3>1. Fills(Table', damage', line'[currentline'], lineidx', s, sentence', coming')
      BY <1>1, <1>3, <2>1
    <3>2. s \in 1..sentence' /\ \A x \in Remembered' : x < s
      BY <1>1, <1>3, <2>1
    <3>3. l <= l /\ First(Content)' < s
      BY <2>2, <2>4
    <3>4. Completed(s)'
      <4>1. Whole(Table', damage', line'[lastline'], l)
        BY <1>1, <1>3, <2>2
      <4>2. l < s /\ (\A x \in Remembered' : x <= l) /\ First(Content)' <= l
        BY <1>3, <2>2, <2>4, <3>3
      <4> QED BY <4>1, <4>2 DEF Completed
    <3> QED BY <3>1, <3>2, <3>3, <3>4, Zenon DEF InLines
  <2> QED BY <1>4, <1>5, <2>5, <2>6 DEF FirmwareInv
<1> QED BY <1>1, <1>6, <1>7

\* What a line that was accepted says about its sentence.
LEMMA ChecksumFinds ==
    ASSUME FirmwareTypeOK, NEW b \in Seq(APiece), NEW s, Whole(Table, damage, b, s),
           Layout(b) # "none"
    PROVE  /\ Layout(b) = "GGA" \/ Layout(b) = "RMC"
           /\ Layout(b) = "RMC" => Kind(s) = "RMC"
           /\ ~Excused => Layout(b) = Kind(s)
           /\ Accepted(b) => Told(b, s)
<1> DEFINE f == Table
<1>1. s \in 1..Sentences /\ First(b) = s /\ s \in Nat /\ s # 0
  BY FirmwareAssumption DEF Whole
<1>2. Legible(f) /\ f[s] = Fields(s)
  BY <1>1, TableIs DEF FirmwareTypeOK
<1>3. Layout(b) = "GGA" \/ Layout(b) = "RMC"
  BY DEF Layout
<1>4. Layout(b) = "RMC" => Kind(s) = "RMC"
  BY <1>1 DEF Layout
<1>5. ASSUME ~Excused, Layout(b) = "GGA" PROVE Kind(s) = "GGA"
  <2>1. PICK q \in ToSet(b) : q.field = "head" /\ Kind(q.of) = "GGA"
    BY <1>5 DEF Layout, Kinds
  <2>2. q # LineFeed
    BY <2>1 DEF LineFeed, Piece
  <2>3. CASE \E j \in 1..Len(f[s]) : q \in Sent(f, damage, s, j)
    <3>1. PICK j \in 1..Len(f[s]) : q \in Sent(f, damage, s, j)
      BY <2>3
    <3>2. Says(f, damage, s, j, q)
      BY <1>1, <1>2, <3>1, SentSays
    <3> QED BY <2>1, <3>2 DEF Says
  <2>4. CASE q.of \in s + 1..Sentences /\ <<s, "feed">> \in damage
    <3>1. Kind(s) # "RMC"
      BY <1>1, <1>5, <2>4 DEF Excused, Unnoticed, Hit
    <3> QED BY <3>1 DEF Kind
  <2> HIDE DEF f
  <2> QED BY <1>2, <2>2, <2>3, <2>4, PieceOf DEF f
<1>6. ASSUME Accepted(b), NEW x \in Damaged("lat"), Piece(s, x) \in ToSet(b), ~Unnoticed(s)
      PROVE  FALSE
  <2> DEFINE p == Piece(s, x)
             m == Len(f[s])
  <2>1. p.of = s /\ p.field = x /\ p # LineFeed
    BY <1>1 DEF Piece, LineFeed
  <2>2. p.of \notin s + 1..Sentences
    BY <1>1, <2>1
  <2>3. PICK j \in 1..Len(f[s]) : p \in Sent(f, damage, s, j)
    <3> HIDE DEF f, p
    <3> QED BY <1>2, <1>6, <2>1, <2>2, PieceOf DEF f, p
  <2>4. Says(f, damage, s, j, p)
    BY <1>1, <1>2, <2>3, SentSays
  <2>5. Hit(s, "lat")
    BY <1>6, <2>1, <2>4 DEF Says, Hit
  <2>6. ~Hit(s, "sum") /\ ~Hit(s, "feed")
    BY <1>6, <2>5 DEF Unnoticed
  <2>7. /\ m \in Nat /\ m >= 3 /\ m <= 6 /\ Len(b) \in Nat /\ Lead(s) \in 0..1 /\ f[s][m] = "sum"
        /\ f[s] \in Seq(Sound)
    BY <1>1, <1>2 DEF Legible, Lead
  <2>8. Len(b) = m + Lead(s)
    <3>1. m + Lead(s) <= Len(b) /\ ~(Len(b) > m + Lead(s))
      BY <2>6 DEF Whole, Holds, Hit
    <3> HIDE DEF m
    <3> QED BY <2>7, <3>1
  <2>9. Last(b) = Piece(s, "sum")
    <3>1. m \in 1..m /\ m + Lead(s) > 1
      BY <2>7
    <3>2. b[m + Lead(s)] \in Sent(f, damage, s, m)
      BY <3>1 DEF Whole, Holds
    <3>3. Sent(f, damage, s, m) = {Piece(s, "sum")}
      BY <2>6, <2>7 DEF Sent, Hit
    <3> QED BY <2>8, <3>2, <3>3 DEF Last
  <2>10. b # <<>> /\ Len(b) >= 3
    BY <2>7, <2>8
  <2>11. SumHolds(b)
    BY <1>6, <2>9, <2>10 DEF Accepted, HasSum, Piece
  <2>12. /\ Head(b) = LineFeed
         /\ Tail(b) = [i \in DOMAIN Fields(s) |-> Piece(s, Fields(s)[i])]
    BY <2>9, <2>11 DEF SumHolds, Piece
  <2>13. PICK i \in 1..Len(b) : b[i] = p
    BY <1>6 DEF ToSet
  <2>14. i # 1
    BY <2>1, <2>10, <2>12, <2>13
  <2>15. i - 1 \in 1..Len(b) - 1 /\ Tail(b)[i - 1] = p
    BY <2>10, <2>13, <2>14
  <2>16. i - 1 \in DOMAIN Fields(s)
    <3>1. Len(Tail(b)) = Len(b) - 1 /\ DOMAIN Tail(b) = 1..Len(b) - 1
      BY <2>10
    <3>2. DOMAIN Tail(b) = DOMAIN Fields(s)
      BY <2>12
    <3> QED BY <2>15, <3>1, <3>2
  <2>17. p = Piece(s, Fields(s)[i - 1])
    BY <2>12, <2>15, <2>16
  <2>18. Fields(s)[i - 1] = x /\ x \in {"badlat", "badhem"}
    BY <1>6, <2>17 DEF Piece, Damaged
  <2>19. Fields(s)[i - 1] \in Sound
    BY <1>2, <2>7, <2>16
  <2> QED BY <2>18, <2>19 DEF Sound
<1>7. ~Excused => Layout(b) = Kind(s)
  BY <1>3, <1>4, <1>5
<1>8. Accepted(b) => Told(b, s)
  BY <1>6 DEF Told
<1> QED BY <1>3, <1>4, <1>7, <1>8

LEMMA ChecksumStep == FirmwareInv /\ Checksum => FirmwareInv'
<1> SUFFICES ASSUME FirmwareInv, Checksum PROVE FirmwareInv'
  OBVIOUS
<1>1. /\ pc = "checksum"
      /\ layout' = IF Accepted(Content) THEN Layout(Content) ELSE "none"
      /\ pc' = IF layout' # "none" THEN "latitude" ELSE "debug"
      /\ UNCHANGED <<link, line, currentline, lastline, lineidx>>
      /\ sky' = sky /\ sentence' = sentence /\ coming' = coming /\ damage' = damage
      /\ line' = line /\ currentline' = currentline /\ lastline' = lastline /\ lineidx' = lineidx
      /\ recvdflag' = recvdflag /\ nmea' = nmea /\ during' = during
      /\ latitude' = latitude /\ longitude' = longitude /\ fix' = fix /\ told' = told
  BY DEF Checksum, link, lines, position
<1>2. FirmwareTypeOK /\ Content \in Seq(APiece) /\ Parsing /\ Content' = Content
  BY <1>1, ContentType DEF FirmwareInv, Parsing, Content
<1>3. /\ Table' = Table /\ (\A s : HasFix(s)' = HasFix(s)) /\ (\A s : Fields(s)' = Fields(s))
      /\ Remembered' = Remembered /\ First(Content)' = First(Content)
  BY <1>1, <1>2, TableSame DEF Remembered, Fields, HasFix, First
<1>4. /\ Whole(Table, damage, Content, First(Content))
      /\ during = 0 => nmea = lastline
      /\ \A x \in Remembered : x <= First(Content)
  BY <1>2 DEF FirmwareInv, InParse
<1>5. FirmwareTypeOK'
  <2>1. pc' \in {"check", "last", "checksum", "latitude", "longitude", "debug", "serial"}
    BY <1>1
  <2> QED BY <1>1, <1>2, <1>3, <2>1 DEF FirmwareTypeOK
<1>6. InLines'
  <2>1. (\A x \in Remembered' : x \in Remembered) /\ (Waiting' => Waiting)
    BY <1>1, <1>3 DEF Waiting
  <2> QED BY <1>1, <1>2, <1>3, <2>1, LinesKept, Zenon
<1>7. InParse'
  BY <1>1, <1>2, <1>3, <1>4 DEF InParse
<1>8. Excused' <=> Excused
  BY <1>1 DEF Excused, Unnoticed, Hit
<1>9. Understood'
  <2> SUFFICES ASSUME pc' \in {"latitude", "longitude"}
               PROVE  /\ layout' \in {"GGA", "RMC"}
                      /\ layout' = "RMC" => Kind(First(Content)) = "RMC"
                      /\ ~Excused => layout' = Kind(First(Content))
                      /\ Told(Content, First(Content))
    BY <1>1, <1>2, <1>3, <1>8 DEF Understood, Told, Kind, Piece, ToSet, Damaged, Unnoticed, Hit
  <2>1. layout' # "none" /\ Accepted(Content) /\ layout' = Layout(Content)
    BY <1>1
  <2> QED BY <1>2, <1>4, <2>1, ChecksumFinds
<1>10. Agreed' /\ FixKnown'
  <2>1. pc # "longitude" /\ pc' # "longitude" /\ UNCHANGED <<link, position, told>>
    BY <1>1 DEF Checksum
  <2> QED BY <2>1, BetweenParses
<1> QED BY <1>5, <1>6, <1>7, <1>9, <1>10 DEF FirmwareInv

LEMMA ParseLatitudeStep == FirmwareInv /\ ParseLatitude => FirmwareInv'
<1> SUFFICES ASSUME FirmwareInv, ParseLatitude PROVE FirmwareInv'
  OBVIOUS
<1> DEFINE s == First(Content)
<1>1. /\ pc = "latitude"
      /\ pc' = IF Piece(s, "badhem") \in Latitude(Content) THEN "debug" ELSE "longitude"
      /\ fix' = IF layout = "RMC" THEN [of |-> s, value |-> HasFix(s)] ELSE fix
      /\ latitude' = IF layout # Kind(s) THEN Garbled
                     ELSE IF Latitude(Content) = {} THEN latitude
                     ELSE IF Piece(s, "lat") \in Latitude(Content) THEN s ELSE Garbled
      /\ UNCHANGED <<link, line, currentline, lastline, lineidx>>
      /\ sky' = sky /\ sentence' = sentence /\ coming' = coming /\ damage' = damage
      /\ line' = line /\ currentline' = currentline /\ lastline' = lastline /\ lineidx' = lineidx
      /\ recvdflag' = recvdflag /\ nmea' = nmea /\ during' = during /\ layout' = layout
      /\ longitude' = longitude /\ told' = told
  BY DEF ParseLatitude, link, lines, parse
<1>2. FirmwareTypeOK /\ Content \in Seq(APiece) /\ Parsing /\ Content' = Content
  BY <1>1, ContentType DEF FirmwareInv, Parsing, Content
<1>3. /\ Table' = Table /\ (\A t : HasFix(t)' = HasFix(t)) /\ (\A t : Fields(t)' = Fields(t))
      /\ First(Content)' = s
  BY <1>1, <1>2, TableSame DEF Fields, HasFix, First
<1>4. /\ Whole(Table, damage, Content, s)
      /\ during = 0 => nmea = lastline
      /\ \A x \in Remembered : x <= s
  BY <1>2 DEF FirmwareInv, InParse
<1>5. /\ s \in 1..Sentences /\ s \in Nat /\ Garbled \in Nat /\ Legible(Table)
      /\ HasFix(s) \in BOOLEAN /\ (HasFix(s) <=> Located(Table, s))
  BY <1>2, <1>4, TableIs, FirmwareAssumption DEF Whole, FirmwareTypeOK, Garbled
<1> HIDE DEF s
<1>6. Remembered' \subseteq Remembered \cup {s} /\ fix' \in [of : Nat, value : BOOLEAN]
  <2>1. fix'.of = s \/ fix'.of = fix.of
    BY <1>1
  <2>2. fix' \in [of : Nat, value : BOOLEAN]
    BY <1>1, <1>2, <1>5 DEF FirmwareTypeOK
  <2> QED BY <1>1, <2>1, <2>2 DEF Remembered
<1>7. FirmwareTypeOK'
  <2>1. pc' \in {"check", "last", "checksum", "latitude", "longitude", "debug", "serial"}
    BY <1>1
  <2>2. latitude' \in Nat
    <3>1. latitude \in Nat
      BY <1>2 DEF FirmwareTypeOK
    <3> QED BY <1>1, <1>5, <3>1
  <2> QED BY <1>1, <1>2, <1>3, <1>6, <2>1, <2>2 DEF FirmwareTypeOK
<1>8. InLines'
  <2>1. \A x \in Remembered' : x \in Remembered \/ (Parsing /\ x = First(Content))
    BY <1>2, <1>6 DEF s
  <2>2. Parsing' => Parsing /\ First(Content)' = First(Content)
    BY <1>2, <1>3 DEF s
  <2>3. Waiting' => Waiting
    BY <1>1 DEF Waiting
  <2> QED BY <1>1, <2>1, <2>2, <2>3, LinesKept, Zenon
<1>9. InParse'
  <2>1. \A x \in Remembered' : x <= First(Content)'
    BY <1>3, <1>4, <1>5, <1>6
  <2> QED BY <1>1, <1>2, <1>3, <1>4, <2>1 DEF InParse
<1>10. (Excused' <=> Excused) /\ \A t : Unnoticed(t)' <=> Unnoticed(t)
  BY <1>1 DEF Excused, Unnoticed, Hit
<1>11. /\ layout \in {"GGA", "RMC"}
       /\ layout = "RMC" => Kind(s) = "RMC"
       /\ ~Excused => layout = Kind(s)
       /\ Told(Content, s)
  BY <1>1 DEF FirmwareInv, Understood, s
<1>12. Understood'
  <2>1. Told(Content, s)' <=> Told(Content, s)
    BY <1>1, <1>2, <1>3 DEF Told, Piece, ToSet, Damaged, Unnoticed, Hit, s
  <2>2. First(Content)' = s /\ (Told(Content, First(Content))' <=> Told(Content, s)')
    BY <1>3 DEF Told, s
  <2> QED BY <1>1, <1>10, <1>11, <2>1, <2>2 DEF Understood, Kind
<1>13. Latitude(Content) \subseteq ToSet(Content)
  BY DEF Latitude
<1>14. Piece(s, "badhem") \in Latitude(Content) => Unnoticed(s)
  BY <1>11, <1>13 DEF Told, Damaged
<1>15. Agreed'
  <2> SUFFICES ASSUME ~Excused
               PROVE  told.lat = told.lon /\ latitude' = IF pc' = "longitude" /\ HasFix(s) THEN s ELSE longitude
    BY <1>1, <1>3, <1>10 DEF Agreed
  <2>1. told.lat = told.lon /\ latitude = longitude
    BY <1>1 DEF FirmwareInv, Agreed
  <2>2. ~Unnoticed(s)
    BY <1>5 DEF Excused
  <2>3. pc' = "longitude"
    BY <1>1, <1>14, <2>2
  <2>4. CASE HasFix(s)
    <3>1. /\ Latitude(Content) # {}
          /\ Latitude(Content) \subseteq {Piece(s, x) : x \in {"lat"} \cup Damaged("lat")}
      BY <1>2, <1>4, <1>5, <2>4, PositionIn
    <3>2. Piece(s, "lat") \in Latitude(Content)
      BY <1>11, <1>13, <2>2, <3>1 DEF Told
    <3> QED BY <1>1, <1>11, <2>1, <2>3, <2>4, <3>1, <3>2
  <2>5. CASE ~HasFix(s)
    <3>1. Latitude(Content) = {}
      BY <1>2, <1>4, <1>5, <2>5, PositionIn
    <3> QED BY <1>1, <1>11, <2>1, <2>5, <3>1
  <2> QED BY <2>4, <2>5
<1>16. FixKnown'
  <2>1. /\ FixHasPosition /\ (fix.value /\ longitude < fix.of => Unnoticed(fix.of))
        /\ told.lon <= longitude /\ told.fix.of <= fix.of
    BY <1>1 DEF FirmwareInv, FixKnown
  <2>2. FixHasPosition'
    BY <1>1, <2>1 DEF FixHasPosition, Unnoticed, Hit
  <2>3. fix'.value /\ longitude < fix'.of =>
          (pc' = "longitude" /\ fix'.of = s /\ HasFix(s)) \/ Unnoticed(fix'.of)
    <3>1. CASE layout = "RMC"
      <4>1. fix'.of = s /\ fix'.value = HasFix(s)
        BY <1>1, <3>1
      <4> QED BY <1>1, <1>14, <4>1
    <3>2. CASE layout # "RMC"
      BY <1>1, <2>1, <3>2
    <3> QED BY <3>1, <3>2
  <2>4. told.fix.of <= fix'.of
    <3>1. told.fix.of <= s
      BY <1>4 DEF Remembered
    <3> QED BY <1>1, <2>1, <3>1
  <2>5. fix'.value /\ longitude' < fix'.of =>
          \/ pc' = "longitude" /\ fix'.of = First(Content)' /\ HasFix(fix.of)'
          \/ Unnoticed(fix.of)'
    <3>1. /\ HasFix(fix.of)' <=> HasFix(fix'.of)
          /\ Unnoticed(fix.of)' <=> Unnoticed(fix'.of)
      BY <1>1 DEF HasFix, Unnoticed, Hit
    <3> QED BY <1>1, <1>3, <2>3, <3>1
  <2> QED BY <1>1, <2>1, <2>2, <2>4, <2>5 DEF FixKnown
<1> QED BY <1>7, <1>8, <1>9, <1>12, <1>15, <1>16 DEF FirmwareInv

LEMMA ParseLongitudeStep == FirmwareInv /\ ParseLongitude => FirmwareInv'
<1> SUFFICES ASSUME FirmwareInv, ParseLongitude PROVE FirmwareInv'
  OBVIOUS
<1> DEFINE s == First(Content)
<1>1. /\ pc = "longitude" /\ pc' = "debug"
      /\ longitude' = IF Longitude(Content) = {} THEN longitude ELSE s
      /\ UNCHANGED <<link, line, currentline, lastline, lineidx>>
      /\ sky' = sky /\ sentence' = sentence /\ coming' = coming /\ damage' = damage
      /\ line' = line /\ currentline' = currentline /\ lastline' = lastline /\ lineidx' = lineidx
      /\ recvdflag' = recvdflag /\ nmea' = nmea /\ during' = during /\ layout' = layout
      /\ latitude' = latitude /\ fix' = fix /\ told' = told
  BY DEF ParseLongitude, ParsedLongitude, link, lines, parse
<1>2. FirmwareTypeOK /\ Content \in Seq(APiece) /\ Parsing /\ ~Parsing'
  BY <1>1, ContentType DEF FirmwareInv, Parsing
<1>3. (\A t : HasFix(t)' = HasFix(t)) /\ (\A t : Fields(t)' = Fields(t))
  BY <1>1 DEF Fields, HasFix
<1>4. Whole(Table, damage, Content, s) /\ \A x \in Remembered : x <= s
  BY <1>2 DEF FirmwareInv, InParse
<1>5. /\ s \in 1..Sentences /\ s \in Nat /\ Legible(Table)
      /\ HasFix(s) \in BOOLEAN /\ (HasFix(s) <=> Located(Table, s))
  BY <1>2, <1>4, TableIs, FirmwareAssumption DEF Whole, FirmwareTypeOK
<1> HIDE DEF s
<1>6. longitude' = IF HasFix(s) THEN s ELSE longitude
  BY <1>1, <1>2, <1>4, <1>5, PositionIn
<1>7. longitude \in Nat /\ longitude' \in Nat /\ longitude <= longitude'
  BY <1>2, <1>4, <1>5, <1>6 DEF Remembered, FirmwareTypeOK
<1>8. FirmwareTypeOK'
  <2>1. pc' \in {"check", "last", "checksum", "latitude", "longitude", "debug", "serial"}
    BY <1>1
  <2> QED BY <1>1, <1>2, <1>3, <1>7, <2>1 DEF FirmwareTypeOK
<1>9. Remembered' \subseteq Remembered \cup {s}
  BY <1>1 DEF Remembered
<1>10. InLines'
  <2>1. \A x \in Remembered' : x \in Remembered \/ (Parsing /\ x = First(Content))
    BY <1>2, <1>9 DEF s
  <2>2. Waiting' => Waiting
    BY <1>1 DEF Waiting
  <2> QED BY <1>1, <1>2, <2>1, <2>2, LinesKept, Zenon
<1>11. InParse' /\ Understood'
  BY <1>1, <1>2 DEF InParse, Understood
<1>12. Agreed'
  <2>1. Excused' <=> Excused
    BY <1>1 DEF Excused, Unnoticed, Hit
  <2>2. ~Excused => told.lat = told.lon /\ latitude = IF HasFix(s) THEN s ELSE longitude
    BY <1>1 DEF FirmwareInv, Agreed, s
  <2> QED BY <1>1, <1>6, <2>1, <2>2 DEF Agreed
<1>13. FixKnown'
  <2>1. /\ FixHasPosition
        /\ fix.value /\ longitude < fix.of => (fix.of = s /\ HasFix(fix.of)) \/ Unnoticed(fix.of)
        /\ told.lon <= longitude /\ told.fix.of <= fix.of
    BY DEF FirmwareInv, FixKnown, s
  <2>2. FixHasPosition' /\ (Unnoticed(fix.of) => Unnoticed(fix.of)')
    BY <1>1, <2>1 DEF FixHasPosition, Unnoticed, Hit
  <2>3. fix.of \in Nat /\ told.lon \in Nat
    BY <1>2 DEF FirmwareTypeOK, Positions
  <2>4. fix.value /\ longitude' < fix.of => Unnoticed(fix.of)
    <3>1. CASE longitude < fix.of
      <4>1. fix.value => longitude' = fix.of \/ Unnoticed(fix.of)
        BY <1>6, <2>1, <3>1
      <4> QED BY <2>3, <4>1
    <3>2. CASE ~(longitude < fix.of)
      BY <1>7, <2>3, <3>2
    <3> QED BY <3>1, <3>2
  <2>5. told.lon <= longitude'
    BY <1>7, <2>1, <2>3
  <2> QED BY <1>1, <2>1, <2>2, <2>4, <2>5 DEF FixKnown
<1> QED BY <1>8, <1>10, <1>11, <1>12, <1>13 DEF FirmwareInv

\* Between two parses the position is whole, and the computer may be told.
LEMMA SendStep ==
    ASSUME FirmwareInv, ~Parsing, ~Parsing', UNCHANGED <<link, lines, position, parse, during>>,
           pc' \in {"check", "debug", "serial"}, Send \/ told' = told
    PROVE  FirmwareInv' /\ told'.lon >= told.lon /\ told'.fix.of >= told.fix.of
<1>1. /\ UNCHANGED <<link, line, currentline, lastline, lineidx>>
      /\ sky' = sky /\ sentence' = sentence /\ coming' = coming /\ damage' = damage
      /\ line' = line /\ currentline' = currentline /\ lastline' = lastline /\ lineidx' = lineidx
      /\ recvdflag' = recvdflag /\ nmea' = nmea /\ during' = during /\ layout' = layout
      /\ latitude' = latitude /\ longitude' = longitude /\ fix' = fix
  BY DEF link, lines, position, parse
<1>2. told' = [lat |-> latitude, lon |-> longitude, fix |-> fix] \/ told' = told
  BY DEF Send
<1>3. FirmwareTypeOK
  BY DEF FirmwareInv
<1>4. \A t : Fields(t)' = Fields(t)
  BY <1>1 DEF Fields, HasFix
<1>5. FirmwareTypeOK'
  <2>1. pc' \in {"check", "last", "checksum", "latitude", "longitude", "debug", "serial"}
    OBVIOUS
  <2>2. told' \in Positions
    BY <1>2, <1>3 DEF FirmwareTypeOK, Positions
  <2> QED BY <1>1, <1>3, <1>4, <2>1, <2>2 DEF FirmwareTypeOK
<1>6. Remembered' \subseteq Remembered
  BY <1>1, <1>2 DEF Remembered
<1>7. InLines'
  <2>1. (\A x \in Remembered' : x \in Remembered) /\ (Waiting' => Waiting)
    BY <1>1, <1>6 DEF Waiting
  <2> QED BY <1>1, <2>1, LinesKept, Zenon
<1>8. InParse' /\ Understood'
  BY DEF InParse, Understood
<1>9. pc # "longitude" /\ pc' # "longitude"
  BY DEF Parsing
<1>10. Agreed'
  <2>1. Excused' <=> Excused
    BY <1>1 DEF Excused, Unnoticed, Hit
  <2>2. ~Excused => told.lat = told.lon /\ latitude = longitude
    BY <1>9 DEF FirmwareInv, Agreed
  <2> QED BY <1>1, <1>2, <1>9, <2>1, <2>2 DEF Agreed
<1>11. /\ told.fix.value => told.lon >= told.fix.of \/ Unnoticed(told.fix.of)
       /\ fix.value /\ longitude < fix.of => Unnoticed(fix.of)
       /\ told.lon <= longitude /\ told.fix.of <= fix.of
       /\ \A t : Unnoticed(t)' <=> Unnoticed(t)
  BY <1>1, <1>9 DEF FirmwareInv, FixKnown, FixHasPosition, Unnoticed, Hit
<1>12. /\ longitude \in Nat /\ fix.of \in Nat /\ told.lon \in Nat /\ told.fix.of \in Nat
  BY <1>3 DEF FirmwareTypeOK, Positions
<1>13. CASE told' = told
  <2>1. FixKnown'
    BY <1>1, <1>11, <1>13 DEF FixKnown, FixHasPosition, Unnoticed, Hit
  <2> QED BY <1>5, <1>7, <1>8, <1>10, <1>12, <1>13, <2>1 DEF FirmwareInv
<1>14. CASE told' = [lat |-> latitude, lon |-> longitude, fix |-> fix]
  <2>1. told'.lon = longitude /\ told'.fix = fix
    BY <1>14
  <2>2. fix.value => longitude >= fix.of \/ Unnoticed(fix.of)
    BY <1>11, <1>12
  <2>3. /\ told'.lon <= longitude' /\ told'.fix.of <= fix'.of
        /\ told'.fix.value => told'.lon >= told'.fix.of \/ Unnoticed(told'.fix.of)
    BY <1>1, <1>11, <1>12, <2>1, <2>2
  <2>4. FixKnown'
    BY <1>1, <1>11, <2>3 DEF FixKnown, FixHasPosition, Unnoticed, Hit
  <2>5. told'.lon >= told.lon /\ told'.fix.of >= told.fix.of
    BY <1>11, <1>12, <2>1
  <2> QED BY <1>5, <1>7, <1>8, <1>10, <2>4, <2>5 DEF FirmwareInv
<1> QED BY <1>2, <1>13, <1>14

\* What neither the lines nor the parse know of.
LEMMA IdleStep ==
    ASSUME FirmwareInv, UNCHANGED <<link, lines, position, pc, parse, during, told>>
    PROVE  FirmwareInv'
<1>1. /\ UNCHANGED <<link, line, currentline, lastline, lineidx>>
      /\ UNCHANGED <<sky, pc, parse, position, told>>
      /\ sky' = sky /\ sentence' = sentence /\ coming' = coming /\ damage' = damage
      /\ line' = line /\ currentline' = currentline /\ lastline' = lastline /\ lineidx' = lineidx
      /\ recvdflag' = recvdflag /\ nmea' = nmea /\ during' = during /\ layout' = layout
      /\ latitude' = latitude /\ longitude' = longitude /\ fix' = fix /\ pc' = pc /\ told' = told
  BY DEF link, lines, position, parse
<1>2. /\ \A t : Fields(t)' = Fields(t)
      /\ Content' = Content /\ Remembered' = Remembered
      /\ Parsing' <=> Parsing
  BY <1>1 DEF Fields, HasFix, Content, Remembered, Parsing
<1>3. FirmwareTypeOK'
  BY <1>1, <1>2 DEF FirmwareInv, FirmwareTypeOK
<1>4. First(Content)' = First(Content)
  BY <1>2 DEF First
<1>5. InLines'
  <2>1. (\A x \in Remembered' : x \in Remembered) /\ (Waiting' => Waiting)
    BY <1>1, <1>2 DEF Waiting
  <2> QED BY <1>1, <1>2, <1>4, <2>1, LinesKept, Zenon
<1>6. Parsing => during' # 0 \/ nmea' = lastline'
  BY <1>1 DEF FirmwareInv, InParse
<1>7. InParse' /\ Understood' /\ Agreed' /\ FixKnown'
  BY <1>1, <1>2, <1>6, ReadKept
<1> QED BY <1>3, <1>5, <1>7 DEF FirmwareInv

LEMMA FirmwareStep ==
    FirmwareInv /\ [FirmwareNext]_firmware_vars =>
      FirmwareInv' /\ ((told'.lon >= told.lon /\ told'.fix.of >= told.fix.of) \/ UNCHANGED firmware_vars)
<1> SUFFICES ASSUME FirmwareInv, [FirmwareNext]_firmware_vars
             PROVE  /\ FirmwareInv'
                    /\ \/ told'.lon >= told.lon /\ told'.fix.of >= told.fix.of
                       \/ UNCHANGED firmware_vars
  OBVIOUS
<1>1. told.lon \in Nat /\ told.fix.of \in Nat
  BY DEF FirmwareInv, FirmwareTypeOK, Positions
<1>2. told' = told => told'.lon >= told.lon /\ told'.fix.of >= told.fix.of
  BY <1>1
<1>3. CASE Interrupt
  BY <1>2, <1>3, InterruptStep DEF Interrupt
<1>4. CASE Take
  BY <1>2, <1>4, TakeStep DEF Take
<1>5. CASE Checksum
  BY <1>2, <1>5, ChecksumStep DEF Checksum
<1>6. CASE ParseLatitude
  BY <1>2, <1>6, ParseLatitudeStep DEF ParseLatitude
<1>7. CASE ParseLongitude
  BY <1>2, <1>7, ParseLongitudeStep DEF ParseLongitude
<1>8. CASE Debug
  <2>1. /\ ~Parsing /\ ~Parsing' /\ UNCHANGED <<link, lines, position, parse, during>>
        /\ pc' \in {"check", "debug", "serial"}
        /\ Send \/ told' = told
    BY <1>8 DEF Debug, Parsing
  <2> QED BY <2>1, SendStep
<1>9. CASE SerialEvent
  <2>1. /\ ~Parsing /\ ~Parsing' /\ UNCHANGED <<link, lines, position, parse, during>>
        /\ pc' \in {"check", "debug", "serial"}
        /\ Send \/ told' = told
    BY <1>9 DEF SerialEvent, Parsing
  <2> QED BY <2>1, SendStep
<1>10. CASE Command
  BY <1>2, <1>10, IdleStep DEF Command
<1>11. CASE UNCHANGED firmware_vars
  BY <1>11, IdleStep DEF firmware_vars
<1>12. CASE LastNMEA
  BY <1>2, <1>12, LastNMEAStep DEF LastNMEA
<1> QED BY <1>3, <1>4, <1>5, <1>6, <1>7, <1>8, <1>9, <1>10, <1>11, <1>12 DEF FirmwareNext, Loop

LEMMA FirmwareInvHolds == FirmwareSpec => []FirmwareInv
<1>1. FirmwareInv /\ [FirmwareNext]_firmware_vars => FirmwareInv'
  BY FirmwareStep
<1> QED BY <1>1, FirmwareInitInv, PTL DEF FirmwareSpec

\* The latitude and the longitude the computer is told come from one sentence, in
\* whatever order the timer interrupt, loop() and the computer take turns, unless two
\* characters of a sentence or the line feed of an RMC sentence were damaged, or one
\* character was made a line feed or a NUL, which the model leaves out
\* (read(), parse() and lastNMEA() of Adafruit_GPS, send_gps_over_serial()).
THEOREM WholePositions == FirmwareSpec => []WholePosition
<1>1. FirmwareInv => WholePosition
  BY Zenon DEF FirmwareInv, Agreed, WholePosition, Excused
<1> QED BY <1>1, FirmwareInvHolds, PTL

\* A fix is never told without a position at least as new as the sentence it came with,
\* though parse() stores the fix before the position and may return in between, unless
\* that sentence was damaged without the checksum telling.
THEOREM FixesHavePositions == FirmwareSpec => []FixHasPosition
<1>1. FirmwareInv => FixHasPosition
  BY DEF FirmwareInv, FixKnown
<1> QED BY <1>1, FirmwareInvHolds, PTL

\* The computer is never told a position or a fix older than the one it was told before.
THEOREM NeverGoesBack == FirmwareSpec => NeverBack
<1>1. FirmwareInv /\ [FirmwareNext]_firmware_vars =>
        [told'.lon >= told.lon /\ told'.fix.of >= told.fix.of]_firmware_vars
  BY FirmwareStep
<1> QED BY <1>1, FirmwareInvHolds, PTL DEF FirmwareSpec, NeverBack
=============================================================================
