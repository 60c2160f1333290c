--------------------------- MODULE FinalDecision ---------------------------
(***************************************************************************)
(* decision_igvc/FinalDecision: arbitrates between the Twists of the       *)
(* lidar, vision and GPS decision nodes and publishes the winner on        *)
(* /cmd_vel, from which SteeringDriver drives the robot.  Each callback    *)
(* remembers the newest Twist of its source and publishes at once; the     *)
(* other two sources are represented by what they said last, however long  *)
(* ago that was.                                                           *)
(***************************************************************************)
EXTENDS RosTopic, Integers

CONSTANTS LidarTwists,  \* what /lidar_decision/twist may carry
          VisionTwists, \* what /vision_decision/twist may carry
          GpsTwists,    \* what /gps_decision/twist may carry
          QueueSize,    \* of the three subscriptions
          CmdQueueSize  \* of SteeringDriver's subscription to /cmd_vel

Twist == [lin : Int, ang : Int]
Zero == [lin |-> 0, ang |-> 0]

ASSUME DecisionAssumption ==
    /\ LidarTwists \subseteq Twist
    /\ VisionTwists \subseteq Twist
    /\ GpsTwists \subseteq Twist
    /\ QueueSize \in Nat \ {0}
    /\ CmdQueueSize \in Nat \ {0}

Source == {"lidar", "vision", "gps"}
TwistsOf(d) == CASE d = "lidar" -> LidarTwists
                 [] d = "vision" -> VisionTwists
                 [] d = "gps" -> GpsTwists

VARIABLES
    inbox,   \* inbox[d]: Twists of source d waiting for their callback
    recent,  \* recent_lidar, recent_vision, recent_gps
    cmd_vel, \* Twists waiting for SteeringDriver
    driven,  \* the Twist SteeringDriver last passed to the robot
    sent     \* history: what each source published last

vars == <<inbox, recent, cmd_vel, driven, sent>>

\* arbitrator(): a lower source is heard only while all higher ones go straight.
VisionBeforeLidar(r) == IF r["vision"].ang # 0 THEN r["vision"]
                        ELSE IF r["lidar"].ang # 0 THEN r["lidar"]
                        ELSE r["gps"]
Arbitrator(r) == IF r["lidar"].ang # 0 THEN r["lidar"]
                 ELSE IF r["vision"].ang # 0 THEN r["vision"]
                 ELSE r["gps"]

Init ==
    /\ inbox = [d \in Source |-> <<>>]
    /\ recent = [d \in Source |-> Zero]
    /\ cmd_vel = <<>>
    /\ driven = Zero
    /\ sent = [d \in Source |-> Zero]

\* A decision node publishes.
Decide(d, t) ==
    /\ inbox' = [inbox EXCEPT ![d] = Deliver(@, t, QueueSize)]
    /\ sent' = [sent EXCEPT ![d] = t]
    /\ UNCHANGED <<recent, cmd_vel, driven>>

\* lidarCallBack, visionCallBack, gpsCallBack.
CallBackOnStaleRecent(d) ==
    /\ inbox[d] # <<>>
    /\ inbox' = [inbox EXCEPT ![d] = Tail(@)]
    /\ recent' = [recent EXCEPT ![d] = Head(inbox[d])]
    /\ cmd_vel' = Deliver(cmd_vel, Arbitrator(recent), CmdQueueSize)
    /\ UNCHANGED <<driven, sent>>
CallBack(d) ==
    /\ inbox[d] # <<>>
    /\ inbox' = [inbox EXCEPT ![d] = Tail(@)]
    /\ recent' = [recent EXCEPT ![d] = Head(inbox[d])]
    /\ cmd_vel' = Deliver(cmd_vel, Arbitrator(recent'), CmdQueueSize)
    /\ UNCHANGED <<driven, sent>>

\* SteeringDriver takes the next command.
TwistCallback ==
    /\ cmd_vel # <<>>
    /\ driven' = Head(cmd_vel)
    /\ cmd_vel' = Tail(cmd_vel)
    /\ UNCHANGED <<inbox, recent, sent>>

Next ==
    \/ \E d \in Source : \E t \in TwistsOf(d) : Decide(d, t)
    \/ \E d \in Source : CallBack(d)
    \/ TwistCallback

\* Both nodes spin for ever; no decision node is obliged to publish.
Fairness == WF_vars(TwistCallback) /\ \A d \in Source : WF_vars(CallBack(d))

Spec == Init /\ [][Next]_vars
FairSpec == Spec /\ Fairness

-----------------------------------------------------------------------------
\* VisionBeforeLidar and CallBackOnStaleRecent are the definitions that follow them
\* with the mistake of their names, to be put in their place to see which property
\* notices.

TypeOK ==
    /\ inbox \in [Source -> Seq(Twist)]
    /\ recent \in [Source -> Twist]
    /\ cmd_vel \in Seq(Twist)
    /\ driven \in Twist
    /\ sent \in [Source -> Twist]
    /\ \A d \in Source : Len(inbox[d]) <= QueueSize
    /\ Len(cmd_vel) <= CmdQueueSize

\* Dropping old messages never loses the newest word of a source.
NewestDecision == \A d \in Source : Newest(inbox[d], recent[d]) = sent[d]

\* The newest command, waiting or driven, arbitrates what the callbacks have seen.
NewestCommand == Newest(cmd_vel, driven) = Arbitrator(recent)

\* When nothing is waiting the robot does what arbitration of the latest word of
\* each source says, though queues overflowed, callbacks ran in any order and
\* every callback published a command of its own (lidarCallBack and the others).
Settled ==
    (cmd_vel = <<>> /\ \A d \in Source : inbox[d] = <<>>) => driven = Arbitrator(sent)

\* A source that keeps to one Twist is obeyed for good, if those above it go
\* straight and it turns or is the lowest, however insistent those below are ("order
\* of significance", FinalDecision.h).  A stop of the lowest is no exception.
Above(d) == CASE d = "lidar" -> {} [] d = "vision" -> {"lidar"} [] d = "gps" -> {"lidar", "vision"}
HighestTurnWins ==
    \A d \in Source : \A t \in TwistsOf(d) :
        (d = "gps" \/ t.ang # 0) /\ <>[](sent[d] = t /\ \A h \in Above(d) : sent[h].ang = 0)
          => <>[](driven = t)
=============================================================================
