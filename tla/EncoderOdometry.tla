--------------------------- MODULE EncoderOdometry ---------------------------
(***************************************************************************)
(* drivers/EncoderOdometryNode: sums the encoder ticks of the two wheels   *)
(* into a position estimate, published from a timer.  The estimate is kept *)
(* as the ticks integrated per wheel (the yaw is proportional to their     *)
(* difference) and the time of its stamp relative to now; the covariance   *)
(* is left out.                                                            *)
(***************************************************************************)
EXTENDS RosTopic, Integers, FiniteSetsExt

CONSTANTS None,       \* an empty optional
          Reversed,   \* reverse_left_encoder, reverse_right_encoder
          QueueSize,  \* of the subscription to /encoders/joint_states
          Layouts,    \* the forms of JointState the encoder driver sends
          MaxMoves, MaxResets, MaxIncomplete \* bounds of the environment

Side == {"left", "right"}
\* A JointState names joints and holds positions for the first few of them.
Complete(l) == Side = {l.name[i] : i \in 1..l.count}

ASSUME OdometryAssumption ==
    /\ None \notin Int
    /\ Reversed \in [Side -> BOOLEAN]
    /\ QueueSize \in Nat \ {0}
    /\ \A l \in Layouts : l.name \in Seq(Side) /\ l.count \in 0..Len(l.name)
    /\ MaxMoves \in Nat /\ MaxResets \in Nat /\ MaxIncomplete \in Nat

VARIABLES
    wheels,      \* ticks each encoder has counted
    jointStates, \* messages waiting for encoderJointStateCallback
    resets,      \* whether a message waits for resetCallback (its queue holds 1)
    curr, prev,  \* left/right_encoder_num_ticks_curr, ..._prev
    estimate,    \* last_estimate
    published,   \* the last message on /encoders/odom, with the dt it used
    due,         \* odom_estimate_timer has run out
    base,        \* history: the ticks at the first reading since the last reset
    moves, resetsSent, incomplete \* what the environment has spent of its bounds

node == <<curr, prev, estimate, published, base>>
spent == <<moves, resetsSent, incomplete>>
vars == <<wheels, jointStates, resets, due, node, spent>>

Nothing == [s \in Side |-> None]
Still == [s \in Side |-> 0]

\* generateAllZeroOdometryMessage().
AllZero == [travel |-> Still, stamp |-> "epoch"]

Init ==
    /\ wheels = Still /\ jointStates = <<>> /\ resets = FALSE
    /\ curr = Nothing /\ prev = Nothing
    /\ estimate = AllZero
    /\ published = None
    /\ due = FALSE
    /\ base = Nothing
    /\ moves = 0 /\ resetsSent = 0 /\ incomplete = 0

\* A wheel turns by one tick.
Move(s, ticks) ==
    /\ moves < MaxMoves
    /\ moves' = moves + 1
    /\ wheels' = [wheels EXCEPT ![s] = @ + ticks]
    /\ UNCHANGED <<jointStates, resets, due, node, resetsSent, incomplete>>

\* The encoder driver publishes the counts, perhaps not all of them.
Message(l) == [name |-> l.name, position |-> [i \in 1..l.count |-> wheels[l.name[i]]]]
Publish(l) ==
    /\ ~Complete(l) => incomplete < MaxIncomplete
    /\ incomplete' = IF Complete(l) THEN incomplete ELSE incomplete + 1
    /\ jointStates' = Deliver(jointStates, Message(l), QueueSize)
    /\ UNCHANGED <<wheels, resets, due, node, moves, resetsSent>>

RequestReset ==
    /\ resetsSent < MaxResets
    /\ resetsSent' = resetsSent + 1
    /\ resets' = TRUE
    /\ UNCHANGED <<wheels, jointStates, due, node, moves, incomplete>>

\* The period of the timer passes.
Elapse ==
    /\ ~due
    /\ due' = TRUE
    /\ estimate' = [estimate EXCEPT !.stamp = IF @ = "epoch" THEN @ ELSE "past"]
    /\ UNCHANGED <<wheels, jointStates, resets, curr, prev, published, base, spent>>

\* encoderJointStateCallback() keeps what it had of a joint the message does not
\* name, or names without a position; of several positions it takes the last.
ReadOneShort(msg, s, old) ==
    LET found == {i \in DOMAIN msg.name : msg.name[i] = s /\ i + 1 <= Len(msg.position)}
    IN  IF found = {} THEN old
        ELSE IF Reversed[s] THEN -msg.position[Max(found)] ELSE msg.position[Max(found)]
Read(msg, s, old) ==
    LET found == {i \in DOMAIN msg.name : msg.name[i] = s /\ i <= Len(msg.position)}
    IN  IF found = {} THEN old
        ELSE IF Reversed[s] THEN -msg.position[Max(found)] ELSE msg.position[Max(found)]
EncoderJointStateCallback ==
    /\ jointStates # <<>>
    /\ jointStates' = Tail(jointStates)
    /\ curr' = [s \in Side |-> Read(Head(jointStates), s, curr[s])]
    /\ UNCHANGED <<wheels, resets, due, prev, estimate, published, base, spent>>

ResetKeepsPrev ==
    /\ resets
    /\ resets' = FALSE
    /\ curr' = Nothing /\ base' = Nothing
    /\ estimate' = AllZero
    /\ UNCHANGED <<wheels, jointStates, due, prev, published, spent>>
ResetCallback ==
    /\ resets
    /\ resets' = FALSE
    /\ curr' = Nothing /\ prev' = Nothing /\ base' = Nothing
    /\ estimate' = AllZero
    /\ UNCHANGED <<wheels, jointStates, due, published, spent>>

\* publishEstimatedOdomMsg(), when the timer runs out.
Unread(ticks) == \E s \in Side : ticks[s] = None
Wait ==
    /\ Unread(curr)
    /\ UNCHANGED node
FirstTicksNoStamp ==
    /\ ~Unread(curr) /\ Unread(prev)
    /\ prev' = curr /\ base' = curr
    /\ UNCHANGED <<curr, published, estimate>>
FirstTicks ==
    /\ ~Unread(curr) /\ Unread(prev)
    /\ prev' = curr /\ base' = curr
    /\ estimate' = [estimate EXCEPT !.stamp = "now"]
    /\ UNCHANGED <<curr, published>>
Estimate ==
    /\ ~Unread(curr) /\ ~Unread(prev)
    /\ estimate' = [estimate EXCEPT
         !.travel = [s \in Side |-> @[s] + curr[s] - prev[s]], !.stamp = "now"]
    /\ prev' = curr
    /\ published' = [travel |-> estimate'.travel, since |-> estimate.stamp]
    /\ UNCHANGED <<curr, base>>
PublishEstimatedOdomMsg ==
    /\ due
    /\ due' = FALSE
    /\ Wait \/ FirstTicks \/ Estimate
    /\ UNCHANGED <<wheels, jointStates, resets, spent>>

Next ==
    \/ \E s \in Side : \E ticks \in {-1, 1} : Move(s, ticks)
    \/ \E l \in Layouts : Publish(l)
    \/ RequestReset
    \/ Elapse
    \/ EncoderJointStateCallback
    \/ ResetCallback
    \/ PublishEstimatedOdomMsg

\* The node spins, its timer runs, and the driver keeps publishing; the wheels
\* need not move and nobody need ask for a reset.
Fairness ==
    /\ WF_vars(Elapse) /\ WF_vars(PublishEstimatedOdomMsg)
    /\ WF_vars(EncoderJointStateCallback) /\ WF_vars(ResetCallback)
    /\ WF_vars(\E l \in Layouts : Complete(l) /\ Publish(l))

Spec == Init /\ [][Next]_vars
FairSpec == Spec /\ Fairness

-----------------------------------------------------------------------------
\* ReadOneShort, ResetKeepsPrev and FirstTicksNoStamp are the definitions that
\* follow them with the mistake of their names, to be put in their place to see
\* which property notices.

Ticks == [Side -> Int \cup {None}]
TypeOK ==
    /\ wheels \in [Side -> Int]
    /\ jointStates \in Seq([name : Seq(Side), position : Seq(Int)])
    /\ Len(jointStates) <= QueueSize
    /\ resets \in BOOLEAN /\ due \in BOOLEAN
    /\ curr \in Ticks /\ prev \in Ticks /\ base \in Ticks
    /\ estimate \in [travel : [Side -> Int], stamp : {"epoch", "past", "now"}]
    /\ published = None \/ published \in
         [travel : [Side -> Int], since : {"epoch", "past", "now"}]
    /\ moves \in 0..MaxMoves /\ resetsSent \in 0..MaxResets
    /\ incomplete \in 0..MaxIncomplete

\* No tick is lost or counted twice: the estimate is how far the readings are from
\* the first since the last reset, though messages were dropped or lacked one side
\* and resets came between callbacks (publishEstimatedOdomMsg, resetCallback).
NoTickLost ==
    \A s \in Side : estimate.travel[s] = IF Unread(base) THEN 0 ELSE prev[s] - base[s]

\* Velocities divide by the time since the readings they are the difference from:
\* never by zero, never by the time since the epoch (publishEstimatedOdomMsg).
IntervalKnown == published # None => published.since = "past"

\* Once the wheels rest, what is published is how far each has turned since the
\* first reading, whatever was dropped, incomplete or reset before.
Position(s) == IF Reversed[s] THEN -wheels[s] ELSE wheels[s]
CatchesUp ==
    <>[](/\ published # None /\ ~Unread(base)
         /\ \A s \in Side : published.travel[s] = Position(s) - base[s])
=============================================================================
