---------------------------- MODULE Teleop_proofs ----------------------------
(***************************************************************************)
(* Proofs about driving by hand, for every set of positions, every size of *)
(* the queues and any number of moves, for sensitivities other than one    *)
(* percent (with which a step of the joystick is too small to publish).    *)
(***************************************************************************)
EXTENDS Teleop, Shared_proofs

\* What waits in a queue leads from one state to another, by moves of R.
Trace(R, S, q, a, b) ==
    \E f \in [0..Len(q) -> S] : /\ f[0] = a /\ f[Len(q)] = b
                                /\ \A k \in 1..Len(q) : <<f[k - 1], q[k], f[k]>> \in R

LEMMA TraceEmpty ==
    ASSUME NEW R, NEW S, NEW a \in S
    PROVE  Trace(R, S, <<>>, a, a)
<1> DEFINE f == [k \in 0..0 |-> a]
<1>1. f \in [0..0 -> S] /\ f[0] = a /\ Len(<<>>) = 0
  OBVIOUS
<1> HIDE DEF f
<1> QED BY <1>1 DEF Trace

LEMMA TraceSame ==
    ASSUME NEW R, NEW S, NEW a, NEW b, Trace(R, S, <<>>, a, b)
    PROVE  a = b
BY DEF Trace

LEMMA TraceWiden ==
    ASSUME NEW R, NEW S, NEW q, NEW a, NEW b, Trace(R, S, q, a, b),
           NEW R2, NEW S2, R \subseteq R2, S \subseteq S2
    PROVE  Trace(R2, S2, q, a, b)
<1>1. PICK f \in [0..Len(q) -> S] :
         /\ f[0] = a /\ f[Len(q)] = b
         /\ \A k \in 1..Len(q) : <<f[k - 1], q[k], f[k]>> \in R
  BY DEF Trace
<1>2. f \in [0..Len(q) -> S2]
  OBVIOUS
<1>3. \A k \in 1..Len(q) : <<f[k - 1], q[k], f[k]>> \in R2
  BY <1>1
<1> QED BY <1>1, <1>2, <1>3 DEF Trace

LEMMA TraceAppend ==
    ASSUME NEW R, NEW S, NEW E, NEW q \in Seq(E), NEW a, NEW b, Trace(R, S, q, a, b),
           NEW e \in E, NEW c \in S, <<b, e, c>> \in R
    PROVE  Trace(R, S, Append(q, e), a, c)
<1> DEFINE n == Len(q)
           r == Append(q, e)
<1>1. PICK f \in [0..n -> S] :
         /\ f[0] = a /\ f[n] = b
         /\ \A k \in 1..n : <<f[k - 1], q[k], f[k]>> \in R
  BY DEF Trace
<1>2. n \in Nat /\ Len(r) = n + 1 /\ r[n + 1] = e /\ \A k \in 1..n : r[k] = q[k]
  BY AppendProperties
<1> DEFINE g == [k \in 0..n + 1 |-> IF k = n + 1 THEN c ELSE f[k]]
<1> HIDE DEF n, r
<1>3. g \in [0..n + 1 -> S]
  BY <1>1, <1>2
<1>4. g[0] = a /\ g[n + 1] = c
  BY <1>1, <1>2
<1>5. ASSUME NEW k \in 1..n + 1 PROVE <<g[k - 1], r[k], g[k]>> \in R
  <2>1. CASE k = n + 1
    <3>1. g[k - 1] = b /\ g[k] = c /\ r[k] = e
      BY <1>1, <1>2, <2>1
    <3> QED BY <3>1
  <2>2. CASE k # n + 1
    <3>1. k \in 1..n /\ g[k - 1] = f[k - 1] /\ g[k] = f[k] /\ r[k] = q[k]
      BY <1>2, <2>2
    <3> HIDE DEF g
    <3> QED BY <1>1, <3>1
  <2> QED BY <2>1, <2>2
<1> HIDE DEF g
<1> QED BY <1>2, <1>3, <1>4, <1>5 DEF Trace, r

LEMMA TraceTail ==
    ASSUME NEW R, NEW S, NEW E, NEW q \in Seq(E), q # <<>>, NEW a, NEW b,
           Trace(R, S, q, a, b)
    PROVE  \E c \in S : <<a, Head(q), c>> \in R /\ Trace(R, S, Tail(q), c, b)
<1> DEFINE n == Len(q)
           t == Tail(q)
<1>1. PICK f \in [0..n -> S] :
         /\ f[0] = a /\ f[n] = b
         /\ \A k \in 1..n : <<f[k - 1], q[k], f[k]>> \in R
  BY DEF Trace
<1>2. /\ n \in Nat /\ n >= 1 /\ Len(t) = n - 1 /\ Head(q) = q[1]
      /\ \A k \in 1..n - 1 : t[k] = q[k + 1]
  BY HeadTailProperties
<1> DEFINE g == [k \in 0..n - 1 |-> f[k + 1]]
<1> HIDE DEF n, t
<1>3. g \in [0..n - 1 -> S]
  BY <1>1, <1>2
<1>4. g[0] = f[1] /\ g[n - 1] = b
  BY <1>1, <1>2
<1>5. ASSUME NEW k \in 1..n - 1 PROVE <<g[k - 1], t[k], g[k]>> \in R
  <2>1. g[k - 1] = f[k + 1 - 1] /\ g[k] = f[k + 1] /\ t[k] = q[k + 1] /\ k + 1 \in 1..n
    BY <1>2
  <2> HIDE DEF g
  <2> QED BY <1>1, <2>1
<1> HIDE DEF g
<1>6. f[1] \in S /\ <<a, Head(q), f[1]>> \in R
  <2>1. 1 \in 1..n /\ 1 - 1 = 0 /\ 1 \in 0..n
    BY <1>2
  <2> QED BY <1>1, <1>2, <2>1
<1>7. Trace(R, S, t, f[1], b)
  BY <1>2, <1>3, <1>4, <1>5 DEF Trace
<1> QED BY <1>6, <1>7 DEF t

-----------------------------------------------------------------------------
\* The types of the variables.
EventType ==
    {e \in [code : {"ABS_X", "ABS_Y", "BTN_MODE", "SYN_DROPPED"}, value : 0..255] :
       /\ e.code = "BTN_MODE" => e.value \in {0, 1}
       /\ e.code = "SYN_DROPPED" => e.value = 0}
Modes == {"wheels", "arm"}
Pad == [x : Int, z : Int, x_old : Int, z_old : Int, state : Modes]
Message == [lin : Int, ang : Int]
TypeInv ==
    /\ path \in Seq(Positions) /\ Len(path) >= 1
    /\ home \in [times : Nat, down : BOOLEAN]
    /\ events \in Seq(EventType)
    /\ unknown \subseteq {"X", "Y"}
    /\ pad \in Pad
    /\ held \in Message
    /\ cmd_vel \in Seq(Message) /\ Len(cmd_vel) <= CmdQueue
    /\ DOMAIN topic = Sides /\ DOMAIN wheel = Sides
    /\ ~running => ~plugged

LEMMA JoystickType ==
    /\ \A v \in 0..255 : LeftJoystickX(v) \in Int /\ LeftJoystickY(v) \in Int
    /\ \A v \in DeadZone : LeftJoystickX(v) = 0 /\ LeftJoystickY(v) = 0
BY SensitivityAssumption DEF LeftJoystickX, LeftJoystickY, DeadZone

\* What an event does to the node.
LEMMA HandledFacts ==
    ASSUME NEW p \in Pad, NEW e \in EventType, e # Dropped
    PROVE  /\ Handled(p, e) \in Pad
           /\ Handled(p, e).x_old = p.x_old /\ Handled(p, e).z_old = p.z_old
           /\ Handled(p, e).z = IF e.code = "ABS_X" THEN LeftJoystickX(e.value) ELSE p.z
           /\ Handled(p, e).x = IF e.code = "ABS_Y" THEN LeftJoystickY(e.value) ELSE p.x
           /\ Handled(p, e).state = IF e.code = "BTN_MODE" /\ e.value = 0 THEN Other(p.state)
                                    ELSE p.state
<1>1. /\ e.value \in 0..255
      /\ e.code \in {"ABS_X", "ABS_Y", "BTN_MODE", "SYN_DROPPED"}
      /\ e.code = "BTN_MODE" => e.value \in {0, 1}
  BY DEF EventType
<1>2. e.code # "SYN_DROPPED"
  BY DEF EventType, Dropped, Event
<1>3. LeftJoystickX(e.value) \in Int /\ LeftJoystickY(e.value) \in Int
  BY <1>1, JoystickType
<1>4. Other(p.state) \in Modes
  BY DEF Other, Modes
<1> DEFINE lx == LeftJoystickX(e.value)
           ly == LeftJoystickY(e.value)
           other == Other(p.state)
<1> HIDE DEF lx, ly, other
<1>5. CASE e.code = "ABS_X"
  <2>1. Handled(p, e) = [p EXCEPT !.z = lx]
    BY <1>5 DEF Handled, lx
  <2> QED BY <1>3, <1>5, <2>1 DEF Pad, lx, ly
<1>6. CASE e.code = "ABS_Y"
  <2>1. Handled(p, e) = [p EXCEPT !.x = ly]
    BY <1>6 DEF Handled, ly
  <2> QED BY <1>3, <1>6, <2>1 DEF Pad, lx, ly
<1>7. CASE e.code = "BTN_MODE" /\ e.value = 0
  <2>1. Handled(p, e) = [p EXCEPT !.state = other]
    BY <1>7 DEF Handled, other
  <2> QED BY <1>4, <1>7, <2>1 DEF Pad, other
<1>8. CASE e.code = "BTN_MODE" /\ e.value = 1
  <2>1. Handled(p, e) = p
    BY <1>8 DEF Handled
  <2> QED BY <1>8, <2>1
<1> QED BY <1>1, <1>2, <1>5, <1>6, <1>7, <1>8

-----------------------------------------------------------------------------
\* What the kernel's queue knows of an axis: of one that is known, the last event that
\* waits says where the joystick is, or else the pad does; of one that is not, no event
\* waits.
About(q, code) == {k \in 1..Len(q) : q[k].code = code}
LastSays(q, code, value) ==
    \E k \in About(q, code) : q[k].value = value /\ \A j \in About(q, code) : j <= k
AxisTold(q, u, axis, code, value, have, want) ==
    /\ axis \in u => About(q, code) = {}
    /\ axis \notin u => \/ LastSays(q, code, value)
                        \/ About(q, code) = {} /\ have = want

Unread(q, u, ev) == (u \cup LostBy(q, ev)) \ Axis(ev.code)

LEMMA AxisIs ==
    /\ Axis("ABS_X") = {"X"} /\ Axis("ABS_Y") = {"Y"}
    /\ Axis("BTN_MODE") = {} /\ Axis("SYN_DROPPED") = {}
BY DEF Axis

LEMMA QueuedFacts ==
    ASSUME NEW q \in Seq(EventType), NEW ev \in EventType
    PROVE  /\ Queued(q, ev) \in Seq(EventType)
           /\ \/ /\ Queued(q, ev) = Append(q, ev)
                 /\ LostBy(q, ev) = {}
              \/ /\ Queued(q, ev) = <<Dropped, ev>>
                 /\ LostBy(q, ev) = UNION {Axis(e.code) : e \in ToSet(q)}
           /\ Len(q) < EventBuffer => Queued(q, ev) = Append(q, ev)
<1>1. Dropped \in EventType
  BY DEF Dropped, Event, EventType
<1>2. CASE Len(q) < EventBuffer
  <2>1. Append(q, ev) \in Seq(EventType)
    BY AppendProperties
  <2> QED BY <1>2, <2>1 DEF Queued, LostBy
<1>3. CASE ~(Len(q) < EventBuffer)
  <2>1. <<Dropped, ev>> \in Seq(EventType)
    BY <1>1
  <2> QED BY <1>3, <2>1 DEF Queued, LostBy
<1> QED BY <1>2, <1>3

\* An event about the axis tells where it is.
LEMMA QueuedTells ==
    ASSUME NEW q \in Seq(EventType), NEW ev \in EventType, NEW axis, NEW u,
           Axis(ev.code) = {axis}, NEW have, NEW want
    PROVE  AxisTold(Queued(q, ev), Unread(q, u, ev), axis, ev.code, ev.value, have, want)
<1> DEFINE r == Queued(q, ev)
<1>1. axis \notin Unread(q, u, ev)
  BY DEF Unread
<1>2. Len(r) \in Nat \ {0} /\ r[Len(r)] = ev
  <2>1. CASE r = Append(q, ev)
    BY <2>1, AppendProperties
  <2>2. CASE r = <<Dropped, ev>>
    BY <2>2
  <2> QED BY <2>1, <2>2, QueuedFacts
<1> HIDE DEF r
<1>3. Len(r) \in About(r, ev.code) /\ \A j \in About(r, ev.code) : j <= Len(r)
  BY <1>2 DEF About
<1>4. LastSays(r, ev.code, ev.value)
  BY <1>2, <1>3, Zenon DEF LastSays
<1> QED BY <1>1, <1>4, Zenon DEF AxisTold, r

\* One about something else leaves what is known, unless it makes the queue overflow.
LEMMA QueuedOther ==
    ASSUME NEW q \in Seq(EventType), NEW ev \in EventType, NEW axis, NEW u,
           NEW code, Axis(code) = {axis}, ev.code # code, axis \notin Axis(ev.code),
           code # "SYN_DROPPED", NEW value, NEW have, NEW want,
           AxisTold(q, u, axis, code, value, have, want)
    PROVE  AxisTold(Queued(q, ev), Unread(q, u, ev), axis, code, value, have, want)
<1> DEFINE r == Queued(q, ev)
<1>1. CASE r = Append(q, ev) /\ LostBy(q, ev) = {}
  <2>1. axis \in Unread(q, u, ev) <=> axis \in u
    BY <1>1 DEF Unread
  <2>2. Len(r) = Len(q) + 1 /\ Len(q) \in Nat /\ r[Len(q) + 1] = ev
        /\ \A k \in 1..Len(q) : r[k] = q[k]
    BY <1>1, AppendProperties
  <2> HIDE DEF r
  <2>3. About(r, code) = About(q, code)
    <3>1. ASSUME NEW k \in 1..Len(r), r[k].code = code PROVE k \in 1..Len(q)
      BY <2>2, <3>1
    <3>2. \A k \in 1..Len(q) : k \in 1..Len(r) /\ r[k] = q[k]
      BY <2>2
    <3> QED BY <3>1, <3>2 DEF About
  <2>4. \A k \in About(q, code) : r[k] = q[k]
    BY <2>2 DEF About
  <2>5. LastSays(r, code, value) <=> LastSays(q, code, value)
    BY <2>3, <2>4 DEF LastSays
  <2> QED BY <2>1, <2>3, <2>5, Zenon DEF AxisTold, r
<1>2. CASE r = <<Dropped, ev>> /\ LostBy(q, ev) = UNION {Axis(e.code) : e \in ToSet(q)}
  <2>1. About(r, code) = {}
    BY <1>2 DEF About, Dropped, Event
  <2>2. ASSUME axis \notin Unread(q, u, ev) PROVE axis \notin u /\ About(q, code) = {}
    <3>1. axis \notin u /\ axis \notin LostBy(q, ev)
      BY <2>2 DEF Unread
    <3>2. ASSUME NEW k \in About(q, code) PROVE FALSE
      <4>1. k \in DOMAIN q /\ q[k].code = code
        BY DEF About
      <4>2. q[k] \in ToSet(q)
        BY <4>1 DEF ToSet
      <4>3. axis \in Axis(q[k].code)
        BY <4>1
      <4> QED BY <1>2, <3>1, <4>2, <4>3
    <3> QED BY <3>1, <3>2
  <2>3. ASSUME axis \notin Unread(q, u, ev) PROVE have = want
    BY <2>2, <2>3 DEF AxisTold, LastSays
  <2> QED BY <2>1, <2>3, Zenon DEF AxisTold
<1> QED BY <1>1, <1>2, QueuedFacts

\* Reading the first event.
LEMMA AboutTail ==
    ASSUME NEW q \in Seq(EventType), q # <<>>, NEW code, NEW value
    PROVE  /\ Head(q).code # code =>
                /\ About(q, code) = {} <=> About(Tail(q), code) = {}
                /\ LastSays(q, code, value) <=> LastSays(Tail(q), code, value)
           /\ Head(q).code = code => About(q, code) # {}
           /\ About(q, code) = {} => About(Tail(q), code) = {}
           /\ LastSays(q, code, value) /\ ~LastSays(Tail(q), code, value) =>
                About(Tail(q), code) = {} /\ Head(q).value = value
<1> DEFINE t == Tail(q)
           n == Len(q)
<1>1. /\ n \in Nat /\ n >= 1 /\ Len(t) = n - 1 /\ Head(q) = q[1]
      /\ \A k \in 1..n - 1 : t[k] = q[k + 1]
  BY HeadTailProperties
<1> HIDE DEF t, n
<1>2. \A k \in 1..n - 1 : k \in About(t, code) <=> k + 1 \in About(q, code)
  BY <1>1 DEF About, n
<1>3. /\ About(t, code) \subseteq 1..n - 1 /\ About(q, code) \subseteq 1..n
      /\ 1 \in About(q, code) <=> Head(q).code = code
  BY <1>1 DEF About, n
<1>4. ASSUME NEW k \in About(q, code), k # 1 PROVE k - 1 \in About(t, code)
  <2>1. k - 1 \in 1..n - 1 /\ k - 1 + 1 = k
    BY <1>1, <1>3, <1>4
  <2> QED BY <1>2, <2>1
<1>5. LastSays(t, code, value) => LastSays(q, code, value)
  <2> SUFFICES ASSUME LastSays(t, code, value) PROVE LastSays(q, code, value)
    OBVIOUS
  <2>1. PICK k \in About(t, code) : t[k].value = value /\ \A j \in About(t, code) : j <= k
    BY DEF LastSays
  <2>2. k \in 1..n - 1 /\ k + 1 \in About(q, code) /\ q[k + 1].value = value
    BY <1>1, <1>2, <1>3, <2>1
  <2>3. ASSUME NEW j \in About(q, code) PROVE j <= k + 1
    <3>1. j \in 1..n
      BY <1>3
    <3>2. CASE j # 1
      <4>1. j - 1 \in About(t, code)
        BY <1>4, <3>2
      <4>2. j - 1 <= k
        BY <2>1, <4>1
      <4> QED BY <1>1, <2>2, <3>1, <4>2
    <3> QED BY <1>1, <2>2, <3>1, <3>2
  <2> QED BY <2>2, <2>3 DEF LastSays
<1>6. ASSUME LastSays(q, code, value)
      PROVE  LastSays(t, code, value) \/ (About(t, code) = {} /\ Head(q).value = value
                                           /\ Head(q).code = code)
  <2>1. PICK k \in About(q, code) : q[k].value = value /\ \A j \in About(q, code) : j <= k
    BY <1>6 DEF LastSays
  <2>2. CASE k = 1
    <3>1. ASSUME NEW j \in About(t, code) PROVE FALSE
      <4>1. j \in 1..n - 1 /\ j + 1 \in About(q, code)
        BY <1>2, <1>3
      <4>2. j + 1 <= 1
        BY <2>1, <2>2, <4>1
      <4> QED BY <1>1, <4>1, <4>2
    <3> QED BY <1>1, <1>3, <2>1, <2>2, <3>1
  <2>3. CASE k # 1
    <3>1. k - 1 \in About(t, code) /\ k - 1 \in 1..n - 1 /\ k - 1 + 1 = k
      BY <1>1, <1>3, <1>4, <2>3
    <3>2. t[k - 1].value = value
      BY <1>1, <2>1, <3>1
    <3>3. ASSUME NEW j \in About(t, code) PROVE j <= k - 1
      <4>1. j \in 1..n - 1 /\ j + 1 \in About(q, code)
        BY <1>2, <1>3
      <4>2. j + 1 <= k
        BY <2>1, <4>1
      <4> QED BY <1>1, <1>3, <4>1, <4>2
    <3> QED BY <3>1, <3>2, <3>3 DEF LastSays
  <2> QED BY <2>2, <2>3
<1>7. About(q, code) = {} => About(t, code) = {}
  BY <1>2, <1>3
<1>8. Head(q).code # code /\ About(t, code) = {} => About(q, code) = {}
  BY <1>3, <1>4
<1> QED BY <1>3, <1>5, <1>6, <1>7, <1>8 DEF t

-----------------------------------------------------------------------------
\* The invariant about the events that wait.  Unless some were lost they lead from the
\* mode of the node to the one the person means, and from positions of the path, the
\* joystick as the node knows it, to the present one: from each to the next, or by way of
\* the one in between when both axes have changed.
Released(e) == e.code = "BTN_MODE" /\ e.value = 0
ModeMoves == {s \in Modes \X EventType \X Modes :
                s[3] = IF Released(s[2]) THEN Other(s[1]) ELSE s[1]}

Spots(p) == {s \in (1..Len(p)) \X (1..Len(p)) : s[1] = s[2] \/ s[1] = s[2] + 1}
Leads(p, before, e, after) ==
    /\ e.code = "ABS_X" => /\ e.value = p[after[1]].X
                           /\ p[before[2]].Y = p[after[2]].Y
    /\ e.code = "ABS_Y" => /\ e.value = p[after[2]].Y
                           /\ p[before[1]].X = p[after[1]].X
    /\ e.code \notin {"ABS_X", "ABS_Y"} => before = after
PathMoves(p) == {s \in Spots(p) \X EventType \X Spots(p) : Leads(p, s[1], s[2], s[3])}

FromCentre == ~overflowed /\ path[1].X \in DeadZone /\ path[1].Y \in DeadZone
OnPad(s) == pad.z = LeftJoystickX(path[s[1]].X) /\ pad.x = LeftJoystickY(path[s[2]].Y)
Here == <<Len(path), Len(path)>>

AxesTold ==
    running =>
      /\ AxisTold(events, unknown, "X", "ABS_X", Stick.X, pad.z, LeftJoystickX(Stick.X))
      /\ AxisTold(events, unknown, "Y", "ABS_Y", Stick.Y, pad.x, LeftJoystickY(Stick.Y))
Zeros == ~overflowed => /\ "X" \in unknown => pad.z = 0
                        /\ "Y" \in unknown => pad.x = 0
ModeTold ==
    running /\ ~overflowed =>
      \E m \in Modes : /\ Trace(ModeMoves, Modes, events, pad.state, m)
                       /\ m = "wheels" <=> Driving
PathTold ==
    running /\ FromCentre =>
      \E s \in Spots(path) : /\ OnPad(s)
                             /\ Trace(PathMoves(path), Spots(path), events, s, Here)
EventInv == TypeInv /\ AxesTold /\ Zeros /\ ModeTold /\ PathTold /\ NoOldMixture

LEMMA PushOne ==
    ASSUME TypeInv, NEW e \in EventType, Push(<<e>>)
    PROVE  /\ events' = Queued(events, e)
           /\ unknown' = Unread(events, unknown, e)
           /\ overflowed' \in BOOLEAN
           /\ ~overflowed' => /\ ~overflowed /\ events' = Append(events, e)
                              /\ unknown' \subseteq unknown
<1>1. /\ events' = Queued(events, e) /\ unknown' = Unread(events, unknown, e)
      /\ overflowed' = (overflowed \/ Len(events) + 1 > EventBuffer)
  BY DEF Push, Unread
<1>2. Len(events) \in Nat /\ EventBuffer \in Nat
  BY TeleopAssumption DEF TypeInv
<1>3. ~(Len(events) + 1 > EventBuffer) => Len(events) < EventBuffer
  BY <1>2
<1>4. Len(events) < EventBuffer => Queued(events, e) = Append(events, e) /\ LostBy(events, e) = {}
  BY DEF Queued, LostBy
<1> QED BY <1>1, <1>3, <1>4 DEF TypeInv, Unread

LEMMA PushTwo ==
    ASSUME TypeInv, NEW e \in EventType, NEW f \in EventType, Push(<<e, f>>)
    PROVE  /\ events' = Queued(Queued(events, e), f)
           /\ unknown' = Unread(Queued(events, e), Unread(events, unknown, e), f)
           /\ overflowed' \in BOOLEAN
           /\ ~overflowed' => /\ ~overflowed /\ events' = Append(Append(events, e), f)
                              /\ unknown' \subseteq unknown
<1>1. /\ events' = Queued(Queued(events, e), f)
      /\ unknown' = Unread(Queued(events, e), Unread(events, unknown, e), f)
      /\ overflowed' = (overflowed \/ Len(events) + 2 > EventBuffer)
  BY DEF Push, Unread
<1>2. events \in Seq(EventType) /\ Len(events) \in Nat /\ EventBuffer \in Nat
  BY TeleopAssumption DEF TypeInv
<1>3. ASSUME ~(Len(events) + 2 > EventBuffer)
      PROVE  events' = Append(Append(events, e), f) /\ unknown' \subseteq unknown
  <2>1. Queued(events, e) = Append(events, e) /\ LostBy(events, e) = {}
    <3>1. Len(events) < EventBuffer
      BY <1>2, <1>3
    <3> QED BY <3>1 DEF Queued, LostBy
  <2> DEFINE q == Append(events, e)
  <2>2. q \in Seq(EventType) /\ Len(q) = Len(events) + 1
    BY <1>2, AppendProperties
  <2> HIDE DEF q
  <2>3. Queued(q, f) = Append(q, f) /\ LostBy(q, f) = {}
    <3>1. Len(q) < EventBuffer
      BY <1>2, <1>3, <2>2
    <3> QED BY <3>1 DEF Queued, LostBy
  <2> QED BY <1>1, <2>1, <2>3 DEF q, Unread
<1> QED BY <1>1, <1>3

\* A new position leaves the moves there were.
LEMMA LongerPath ==
    ASSUME TypeInv, NEW p \in Positions
    PROVE  LET longer == Append(path, p)
           IN  /\ longer \in Seq(Positions) /\ Len(longer) = Len(path) + 1
               /\ \A k \in 1..Len(path) : longer[k] = path[k]
               /\ longer[Len(path) + 1] = p /\ Last(longer) = p
               /\ Spots(path) \subseteq Spots(longer)
               /\ PathMoves(path) \subseteq PathMoves(longer)
<1> DEFINE longer == Append(path, p)
           n == Len(path)
<1>1. /\ longer \in Seq(Positions) /\ Len(longer) = n + 1 /\ n \in Nat
      /\ \A k \in 1..n : longer[k] = path[k]
      /\ longer[n + 1] = p
  BY AppendProperties DEF TypeInv
<1> HIDE DEF longer
<1>2. Spots(path) \subseteq Spots(longer)
  <2>1. 1..n \subseteq 1..Len(longer)
    BY <1>1
  <2> QED BY <2>1 DEF Spots
<1>3. ASSUME NEW s \in Spots(path)
      PROVE  longer[s[1]] = path[s[1]] /\ longer[s[2]] = path[s[2]]
  BY <1>1, <1>3 DEF Spots
<1>4. PathMoves(path) \subseteq PathMoves(longer)
  <2> SUFFICES ASSUME NEW s \in PathMoves(path) PROVE s \in PathMoves(longer)
    OBVIOUS
  <2>1. /\ s \in Spots(path) \X EventType \X Spots(path)
        /\ Leads(path, s[1], s[2], s[3])
    BY DEF PathMoves
  <2>2. s[1] \in Spots(path) /\ s[3] \in Spots(path)
    BY <2>1
  <2>3. Leads(longer, s[1], s[2], s[3])
    BY <1>3, <2>1, <2>2 DEF Leads
  <2>4. s \in Spots(longer) \X EventType \X Spots(longer)
    BY <1>2, <2>1
  <2> QED BY <2>3, <2>4 DEF PathMoves
<1>5. Last(longer) = p
  BY <1>1 DEF Last
<1> QED BY <1>1, <1>2, <1>4, <1>5 DEF longer

LEMMA PositionType ==
    ASSUME NEW p \in Positions
    PROVE  /\ p.X \in 0..255 /\ p.Y \in 0..255
           /\ Event("ABS_X", p.X) \in EventType /\ Event("ABS_Y", p.Y) \in EventType
           /\ \A q \in Positions : p # q => p.X # q.X \/ p.Y # q.Y
<1>1. p.X \in 0..255 /\ p.Y \in 0..255
  BY TeleopAssumption
<1>2. \A q \in Positions : p # q => p.X # q.X \/ p.Y # q.Y
  BY TeleopAssumption
<1> QED BY <1>1, <1>2 DEF Event, EventType

LEMMA PushType ==
    ASSUME TypeInv, NEW e \in EventType, NEW f \in EventType, Push(<<e>>) \/ Push(<<e, f>>)
    PROVE  events' \in Seq(EventType) /\ unknown' \subseteq {"X", "Y"}
<1>1. events \in Seq(EventType) /\ unknown \subseteq {"X", "Y"}
  BY DEF TypeInv
<1>2. ASSUME NEW q, NEW d PROVE LostBy(q, d) \subseteq {"X", "Y"}
  BY DEF LostBy, Axis
<1>3. ASSUME NEW q, NEW u, NEW d, u \subseteq {"X", "Y"} PROVE Unread(q, u, d) \subseteq {"X", "Y"}
  BY <1>2, <1>3 DEF Unread
<1>4. CASE Push(<<e>>)
  <2>1. events' = Queued(events, e) /\ unknown' = Unread(events, unknown, e)
    BY <1>4, PushOne
  <2>2. Queued(events, e) \in Seq(EventType)
    BY <1>1, QueuedFacts
  <2>3. Unread(events, unknown, e) \subseteq {"X", "Y"}
    BY <1>1, <1>3
  <2> QED BY <2>1, <2>2, <2>3
<1>5. CASE Push(<<e, f>>)
  <2> DEFINE q == Queued(events, e)
             u == Unread(events, unknown, e)
  <2>1. events' = Queued(q, f) /\ unknown' = Unread(q, u, f)
    BY <1>5, PushTwo
  <2>2. q \in Seq(EventType)
    BY <1>1, QueuedFacts
  <2>3. u \subseteq {"X", "Y"}
    BY <1>1, <1>3
  <2> HIDE DEF q, u
  <2>4. Queued(q, f) \in Seq(EventType)
    BY <2>2, QueuedFacts
  <2>5. Unread(q, u, f) \subseteq {"X", "Y"}
    BY <1>3, <2>3
  <2> QED BY <2>1, <2>4, <2>5
<1> QED BY <1>4, <1>5

\* A move of the joystick.  Each axis that has changed is told, X before Y.
LEMMA MovePushes ==
    ASSUME TypeInv, Move
    PROVE  \E p \in Positions :
             /\ path' = Append(path, p)
             /\ Stick \in Positions /\ Stick' = p
             /\ \/ Push(<<Event("ABS_X", p.X)>>) /\ p.Y = Stick.Y
                \/ Push(<<Event("ABS_Y", p.Y)>>) /\ p.X = Stick.X
                \/ Push(<<Event("ABS_X", p.X), Event("ABS_Y", p.Y)>>)
<1>1. PICK p \in Positions \ {Stick} :
         /\ path' = Append(path, p)
         /\ Push((IF p.X # Stick.X THEN <<Event("ABS_X", p.X)>> ELSE <<>>)
                 \o (IF p.Y # Stick.Y THEN <<Event("ABS_Y", p.Y)>> ELSE <<>>))
  BY DEF Move
<1>2. Stick' = p /\ Stick \in Positions
  <2>1. Len(path) \in 1..Len(path)
    BY DEF TypeInv
  <2> QED BY <1>1, <2>1, LongerPath DEF Stick, TypeInv, Last
<1>3. p.X # Stick.X \/ p.Y # Stick.Y
  BY <1>1, <1>2, PositionType
<1>4. ASSUME NEW a, NEW b
      PROVE <<a>> \o <<>> = <<a>> /\ <<>> \o <<b>> = <<b>> /\ <<a>> \o <<b>> = <<a, b>>
  <2>1. <<a>> \in Seq({a, b}) /\ <<b>> \in Seq({a, b}) /\ <<a, b>> \in Seq({a, b})
    OBVIOUS
  <2> DEFINE ab == <<a>> \o <<b>>
  <2>2. /\ Len(<<a>>) = 1 /\ Len(<<b>>) = 1 /\ Len(<<a, b>>) = 2
        /\ <<a>>[1] = a /\ <<b>>[1] = b /\ <<a, b>>[1] = a /\ <<a, b>>[2] = b
    OBVIOUS
  <2>3. /\ ab \in Seq({a, b}) /\ Len(ab) = 2 /\ ab[1] = a /\ ab[2] = b
    BY <2>1, <2>2, ConcatProperties
  <2> HIDE DEF ab
  <2>4. ab = <<a, b>>
    BY <2>1, <2>2, <2>3, SeqEqual
  <2> QED BY <2>1, <2>4, ConcatEmptySeq DEF ab
<1>5. CASE p.X # Stick.X /\ p.Y # Stick.Y
  <2>1. Push(<<Event("ABS_X", p.X)>> \o <<Event("ABS_Y", p.Y)>>)
    BY <1>1, <1>5
  <2>2. Push(<<Event("ABS_X", p.X), Event("ABS_Y", p.Y)>>)
    BY <1>4, <2>1, Zenon
  <2> QED BY <1>1, <1>2, <2>2
<1>6. CASE p.X # Stick.X /\ p.Y = Stick.Y
  <2>1. Push(<<Event("ABS_X", p.X)>> \o <<>>)
    BY <1>1, <1>6
  <2>2. Push(<<Event("ABS_X", p.X)>>)
    BY <1>4, <2>1, Zenon
  <2> QED BY <1>1, <1>2, <1>6, <2>2
<1>7. CASE p.X = Stick.X /\ p.Y # Stick.Y
  <2>1. Push(<<>> \o <<Event("ABS_Y", p.Y)>>)
    BY <1>1, <1>7
  <2>2. Push(<<Event("ABS_Y", p.Y)>>)
    BY <1>4, <2>1, Zenon
  <2> QED BY <1>1, <1>2, <1>7, <2>2
<1> QED BY <1>3, <1>5, <1>6, <1>7

LEMMA MoveAxes ==
    ASSUME TypeInv, AxesTold, Zeros, Move
    PROVE  AxesTold' /\ Zeros'
<1>1. PICK p \in Positions :
         /\ Stick \in Positions /\ Stick' = p
         /\ \/ Push(<<Event("ABS_X", p.X)>>) /\ p.Y = Stick.Y
            \/ Push(<<Event("ABS_Y", p.Y)>>) /\ p.X = Stick.X
            \/ Push(<<Event("ABS_X", p.X), Event("ABS_Y", p.Y)>>)
  BY MovePushes
<1> DEFINE ex == Event("ABS_X", p.X)
           ey == Event("ABS_Y", p.Y)
           ToldX(q, u, x) == AxisTold(q, u, "X", "ABS_X", x, pad.z, LeftJoystickX(x))
           ToldY(q, u, y) == AxisTold(q, u, "Y", "ABS_Y", y, pad.x, LeftJoystickY(y))
<1>2. /\ ex \in EventType /\ ey \in EventType
      /\ ex.code = "ABS_X" /\ ex.value = p.X /\ ey.code = "ABS_Y" /\ ey.value = p.Y
  BY PositionType DEF Event
<1>3. UNCHANGED <<running, pad>> /\ events \in Seq(EventType)
  BY DEF Move, node, TypeInv
<1>4. \/ Push(<<ex>>) /\ p.Y = Stick.Y
      \/ Push(<<ey>>) /\ p.X = Stick.X
      \/ Push(<<ex, ey>>)
  BY <1>1
<1> HIDE DEF ex, ey
<1>5. ASSUME NEW q \in Seq(EventType), NEW u
      PROVE  /\ ToldX(Queued(q, ex), Unread(q, u, ex), p.X)
             /\ \A y : ToldY(q, u, y) => ToldY(Queued(q, ex), Unread(q, u, ex), y)
             /\ ToldY(Queued(q, ey), Unread(q, u, ey), p.Y)
             /\ \A x : ToldX(q, u, x) => ToldX(Queued(q, ey), Unread(q, u, ey), x)
  <2>1. Axis(ex.code) = {"X"} /\ Axis(ey.code) = {"Y"}
    BY <1>2, AxisIs
  <2>2. ToldX(Queued(q, ex), Unread(q, u, ex), p.X)
    BY <1>2, <2>1, QueuedTells
  <2>3. ToldY(Queued(q, ey), Unread(q, u, ey), p.Y)
    BY <1>2, <2>1, QueuedTells
  <2>4. ASSUME NEW y, ToldY(q, u, y) PROVE ToldY(Queued(q, ex), Unread(q, u, ex), y)
    BY <1>2, <2>1, <2>4, AxisIs, QueuedOther
  <2>5. ASSUME NEW x, ToldX(q, u, x) PROVE ToldX(Queued(q, ey), Unread(q, u, ey), x)
    BY <1>2, <2>1, <2>5, AxisIs, QueuedOther
  <2> QED BY <2>2, <2>3, <2>4, <2>5
<1>6. Zeros'
  <2>1. ~overflowed' => ~overflowed /\ unknown' \subseteq unknown
    BY <1>2, <1>4, PushOne, PushTwo
  <2> QED BY <1>3, <2>1 DEF Zeros
<1>7. running => ToldX(events, unknown, Stick.X) /\ ToldY(events, unknown, Stick.Y)
  BY DEF AxesTold
<1> HIDE DEF ToldX, ToldY
<1>8. running => ToldX(events', unknown', p.X) /\ ToldY(events', unknown', p.Y)
  <2>1. CASE Push(<<ex>>) /\ p.Y = Stick.Y
    <3>1. events' = Queued(events, ex) /\ unknown' = Unread(events, unknown, ex)
      BY <1>2, <2>1, PushOne
    <3> QED BY <1>3, <1>5, <1>7, <2>1, <3>1
  <2>2. CASE Push(<<ey>>) /\ p.X = Stick.X
    <3>1. events' = Queued(events, ey) /\ unknown' = Unread(events, unknown, ey)
      BY <1>2, <2>2, PushOne
    <3> QED BY <1>3, <1>5, <1>7, <2>2, <3>1
  <2>3. CASE Push(<<ex, ey>>)
    <3>1. /\ events' = Queued(Queued(events, ex), ey)
          /\ unknown' = Unread(Queued(events, ex), Unread(events, unknown, ex), ey)
      BY <1>2, <2>3, PushTwo
    <3>2. Queued(events, ex) \in Seq(EventType)
      BY <1>2, <1>3, QueuedFacts
    <3> QED BY <1>3, <1>5, <3>1, <3>2
  <2> QED BY <1>4, <2>1, <2>2, <2>3
<1>9. AxesTold'
  BY <1>1, <1>3, <1>8 DEF AxesTold, ToldX, ToldY
<1> QED BY <1>6, <1>9

LEMMA ModeAppend ==
    ASSUME NEW q \in Seq(EventType), NEW a, NEW b \in Modes, Trace(ModeMoves, Modes, q, a, b),
           NEW e \in EventType, NEW c \in Modes,
           c = IF Released(e) THEN Other(b) ELSE b
    PROVE  Trace(ModeMoves, Modes, Append(q, e), a, c)
<1>1. <<b, e, c>> \in ModeMoves
  BY DEF ModeMoves
<1> QED BY <1>1, TraceAppend

LEMMA MoveMode ==
    ASSUME TypeInv, ModeTold, Move
    PROVE  ModeTold'
<1>1. PICK p \in Positions :
         \/ Push(<<Event("ABS_X", p.X)>>)
         \/ Push(<<Event("ABS_Y", p.Y)>>)
         \/ Push(<<Event("ABS_X", p.X), Event("ABS_Y", p.Y)>>)
  BY MovePushes
<1> DEFINE ex == Event("ABS_X", p.X)
           ey == Event("ABS_Y", p.Y)
<1>2. /\ ex \in EventType /\ ey \in EventType
      /\ ~Released(ex) /\ ~Released(ey)
  BY PositionType DEF Event, Released
<1>3. UNCHANGED <<running, pad, home>> /\ events \in Seq(EventType)
  BY DEF Move, node, TypeInv
<1>4. Push(<<ex>>) \/ Push(<<ey>>) \/ Push(<<ex, ey>>)
  BY <1>1
<1> HIDE DEF ex, ey
<1>5. ASSUME running, ~overflowed'
      PROVE  \E m \in Modes : /\ Trace(ModeMoves, Modes, events', pad.state, m)
                              /\ m = "wheels" <=> Driving
  <2>1. ~overflowed
    BY <1>2, <1>4, <1>5, PushOne, PushTwo
  <2>2. PICK m \in Modes : /\ Trace(ModeMoves, Modes, events, pad.state, m)
                           /\ m = "wheels" <=> Driving
    BY <1>5, <2>1 DEF ModeTold
  <2>3. ASSUME NEW q \in Seq(EventType), Trace(ModeMoves, Modes, q, pad.state, m)
        PROVE  /\ Trace(ModeMoves, Modes, Append(q, ex), pad.state, m)
               /\ Trace(ModeMoves, Modes, Append(q, ey), pad.state, m)
    BY <1>2, <2>3, ModeAppend
  <2>4. Append(events, ex) \in Seq(EventType)
    BY <1>2, <1>3
  <2>5. \/ events' = Append(events, ex)
        \/ events' = Append(events, ey)
        \/ events' = Append(Append(events, ex), ey)
    BY <1>2, <1>4, <1>5, PushOne, PushTwo
  <2>6. Trace(ModeMoves, Modes, events', pad.state, m)
    BY <1>3, <2>2, <2>3, <2>4, <2>5
  <2> QED BY <2>2, <2>6
<1>6. Driving' <=> Driving
  BY <1>3 DEF Driving
<1> QED BY <1>3, <1>5, <1>6 DEF ModeTold

\* The position told halfway is the old one but for the axis told first.
LEMMA MovePath ==
    ASSUME TypeInv, PathTold, Move
    PROVE  PathTold'
<1>1. PICK p \in Positions :
         /\ path' = Append(path, p)
         /\ Stick \in Positions
         /\ \/ Push(<<Event("ABS_X", p.X)>>) /\ p.Y = Stick.Y
            \/ Push(<<Event("ABS_Y", p.Y)>>) /\ p.X = Stick.X
            \/ Push(<<Event("ABS_X", p.X), Event("ABS_Y", p.Y)>>)
  BY MovePushes
<1> DEFINE ex == Event("ABS_X", p.X)
           ey == Event("ABS_Y", p.Y)
           n == Len(path)
           R == PathMoves(path')
           S == Spots(path')
<1>2. /\ ex \in EventType /\ ey \in EventType
      /\ ex.code = "ABS_X" /\ ex.value = p.X /\ ey.code = "ABS_Y" /\ ey.value = p.Y
  BY PositionType DEF Event
<1>3. UNCHANGED <<running, pad>> /\ events \in Seq(EventType)
  BY DEF Move, node, TypeInv
<1>4. \/ Push(<<ex>>) /\ p.Y = Stick.Y
      \/ Push(<<ey>>) /\ p.X = Stick.X
      \/ Push(<<ex, ey>>)
  BY <1>1
<1>5. /\ Len(path') = n + 1 /\ n \in Nat /\ n >= 1
      /\ \A k \in 1..n : path'[k] = path[k]
      /\ path'[n + 1] = p
      /\ Spots(path) \subseteq S /\ PathMoves(path) \subseteq R
  BY <1>1, LongerPath DEF TypeInv
<1>6. path'[n] = Stick
  BY <1>5 DEF Stick, Last
<1> HIDE DEF ex, ey
<1>7. ASSUME running, FromCentre'
      PROVE  \E s \in S : OnPad(s)' /\ Trace(R, S, events', s, <<n + 1, n + 1>>)
  <2>1. ~overflowed
    BY <1>2, <1>4, <1>7, PushOne, PushTwo DEF FromCentre
  <2>2. path'[1] = path[1]
    BY <1>5
  <2>3. PICK s \in Spots(path) : OnPad(s) /\ Trace(PathMoves(path), Spots(path), events, s, Here)
    BY <1>7, <2>1, <2>2 DEF FromCentre, PathTold
  <2>4. s \in S /\ OnPad(s)'
    <3>1. s[1] \in 1..n /\ s[2] \in 1..n
      BY DEF Spots
    <3>2. path'[s[1]] = path[s[1]] /\ path'[s[2]] = path[s[2]]
      BY <1>5, <3>1
    <3> QED BY <1>3, <1>5, <2>3, <3>2 DEF OnPad
  <2>5. Trace(R, S, events, s, <<n, n>>)
    <3>1. \A k \in {n} : Here = <<k, k>>
      BY DEF Here
    <3> QED BY <1>5, <2>3, <3>1, TraceWiden
  <2>6. <<n, n>> \in S /\ <<n + 1, n>> \in S /\ <<n + 1, n + 1>> \in S
    BY <1>5 DEF Spots
  <2>7. ASSUME NEW e \in EventType, NEW a \in S, NEW b \in S, Leads(path', a, e, b)
        PROVE  <<a, e, b>> \in R
    BY <2>7 DEF PathMoves
  <2> HIDE DEF R, S
  <2>8. CASE Push(<<ex>>) /\ p.Y = Stick.Y
    <3>1. Leads(path', <<n, n>>, ex, <<n + 1, n + 1>>)
      BY <1>2, <1>5, <1>6, <2>8 DEF Leads
    <3>2. events' = Append(events, ex)
      BY <1>2, <1>7, <2>8, PushOne DEF FromCentre
    <3>3. <<<<n, n>>, ex, <<n + 1, n + 1>>>> \in R
      BY <1>2, <2>6, <2>7, <3>1
    <3>4. Trace(R, S, Append(events, ex), s, <<n + 1, n + 1>>)
      BY <1>2, <1>3, <2>5, <2>6, <3>3, TraceAppend
    <3> QED BY <2>4, <3>2, <3>4
  <2>9. CASE Push(<<ey>>) /\ p.X = Stick.X
    <3>1. Leads(path', <<n, n>>, ey, <<n + 1, n + 1>>)
      BY <1>2, <1>5, <1>6, <2>9 DEF Leads
    <3>2. events' = Append(events, ey)
      BY <1>2, <1>7, <2>9, PushOne DEF FromCentre
    <3>3. <<<<n, n>>, ey, <<n + 1, n + 1>>>> \in R
      BY <1>2, <2>6, <2>7, <3>1
    <3>4. Trace(R, S, Append(events, ey), s, <<n + 1, n + 1>>)
      BY <1>2, <1>3, <2>5, <2>6, <3>3, TraceAppend
    <3> QED BY <2>4, <3>2, <3>4
  <2>10. CASE Push(<<ex, ey>>)
    <3>1. Leads(path', <<n, n>>, ex, <<n + 1, n>>)
      BY <1>2, <1>5 DEF Leads
    <3>2. Leads(path', <<n + 1, n>>, ey, <<n + 1, n + 1>>)
      BY <1>2, <1>5 DEF Leads
    <3>3. events' = Append(Append(events, ex), ey)
      BY <1>2, <1>7, <2>10, PushTwo DEF FromCentre
    <3>4. /\ <<<<n, n>>, ex, <<n + 1, n>>>> \in R
          /\ <<<<n + 1, n>>, ey, <<n + 1, n + 1>>>> \in R
      BY <1>2, <2>6, <2>7, <3>1, <3>2
    <3>5. Trace(R, S, Append(events, ex), s, <<n + 1, n>>)
      BY <1>2, <1>3, <2>5, <2>6, <3>4, TraceAppend
    <3>6. Append(events, ex) \in Seq(EventType)
      BY <1>2, <1>3
    <3>7. Trace(R, S, Append(Append(events, ex), ey), s, <<n + 1, n + 1>>)
      BY <1>2, <2>6, <3>4, <3>5, <3>6, TraceAppend
    <3> QED BY <2>4, <3>3, <3>7
  <2> QED BY <1>4, <2>8, <2>9, <2>10
<1>8. Here' = <<n + 1, n + 1>>
  BY <1>5 DEF Here
<1> QED BY <1>3, <1>7, <1>8 DEF PathTold

\* A longer path leaves no Twist that says less.
Unmixed(messages, p) ==
    \A j \in DOMAIN messages : \E k \in DOMAIN p :
       \/ Says(messages[j], p[k], p[k])
       \/ k > 1 /\ Says(messages[j], p[k], p[k - 1])

LEMMA MoveMixture ==
    ASSUME TypeInv, NoOldMixture, Move
    PROVE  NoOldMixture'
<1>1. PICK p \in Positions :
         /\ path' = Append(path, p)
         /\ \/ Push(<<Event("ABS_X", p.X)>>)
            \/ Push(<<Event("ABS_Y", p.Y)>>)
            \/ Push(<<Event("ABS_X", p.X), Event("ABS_Y", p.Y)>>)
  BY MovePushes
<1>2. ~overflowed' => ~overflowed
  BY <1>1, PositionType, PushOne, PushTwo
<1>3. /\ Len(path') = Len(path) + 1 /\ Len(path) \in Nat /\ Len(path) >= 1
      /\ path' \in Seq(Positions)
      /\ \A k \in 1..Len(path) : path'[k] = path[k]
  BY <1>1, LongerPath DEF TypeInv
<1>4. Unmixed(cmd_vel, path) => Unmixed(cmd_vel, path')
  <2> SUFFICES ASSUME Unmixed(cmd_vel, path), NEW j \in DOMAIN cmd_vel
               PROVE  \E k \in DOMAIN path' :
                         \/ Says(cmd_vel[j], path'[k], path'[k])
                         \/ k > 1 /\ Says(cmd_vel[j], path'[k], path'[k - 1])
    BY DEF Unmixed
  <2>1. PICK k \in DOMAIN path : \/ Says(cmd_vel[j], path[k], path[k])
                                 \/ k > 1 /\ Says(cmd_vel[j], path[k], path[k - 1])
    BY DEF Unmixed
  <2>2. k \in 1..Len(path) /\ k \in DOMAIN path'
    BY <1>3 DEF TypeInv
  <2>3. path'[k] = path[k] /\ (k > 1 => path'[k - 1] = path[k - 1])
    <3>1. k > 1 => k - 1 \in 1..Len(path)
      BY <1>3, <2>2
    <3> QED BY <1>3, <2>2, <3>1
  <2> QED BY <2>1, <2>2, <2>3
<1>5. path'[1] = path[1]
  BY <1>3
<1>6. cmd_vel' = cmd_vel
  BY DEF Move
<1> QED BY <1>2, <1>4, <1>5, <1>6 DEF NoOldMixture, Unmixed

LEMMA MoveType ==
    ASSUME TypeInv, Move
    PROVE  TypeInv'
<1>1. PICK p \in Positions :
         /\ path' = Append(path, p)
         /\ \/ Push(<<Event("ABS_X", p.X)>>)
            \/ Push(<<Event("ABS_Y", p.Y)>>)
            \/ Push(<<Event("ABS_X", p.X), Event("ABS_Y", p.Y)>>)
  BY MovePushes
<1>2. path' \in Seq(Positions) /\ Len(path') >= 1
  BY <1>1, LongerPath DEF TypeInv
<1>3. events' \in Seq(EventType) /\ unknown' \subseteq {"X", "Y"}
  BY <1>1, PositionType, PushType
<1>4. UNCHANGED <<home, plugged, running, pad, held, cmd_vel, topic, wheel>>
  BY DEF Move, node
<1> QED BY <1>2, <1>3, <1>4 DEF TypeInv

-----------------------------------------------------------------------------
\* The Home button.
LEMMA HomePushes ==
    ASSUME TypeInv, Home
    PROVE  /\ home' \in [times : Nat, down : BOOLEAN]
           /\ \/ Push(<<Event("BTN_MODE", 1)>>) /\ (Driving' <=> Driving)
              \/ Push(<<Event("BTN_MODE", 0)>>) /\ (Driving' <=> ~Driving)
           /\ UNCHANGED <<path, plugged, running, pad, held, cmd_vel, topic, wheel>>
<1>1. UNCHANGED <<path, plugged, running, pad, held, cmd_vel, topic, wheel>>
  BY DEF Home, node
<1>2. home \in [times : Nat, down : BOOLEAN]
  BY DEF TypeInv
<1>3. CASE ~home.down /\ home' = [times |-> home.times + 1, down |-> TRUE]
           /\ Push(<<Event("BTN_MODE", 1)>>)
  <2>1. home'.times = home.times + 1 /\ home'.down /\ home.times \in Nat
    BY <1>2, <1>3
  <2>2. Driving <=> home.times % 2 = 0
    BY <1>3 DEF Driving
  <2>3. Driving' <=> (home.times + 1 - 1) % 2 = 0
    BY <2>1 DEF Driving
  <2>4. home.times + 1 - 1 = home.times
    BY <2>1
  <2>5. home' \in [times : Nat, down : BOOLEAN]
    BY <1>3, <2>1
  <2> QED BY <1>1, <1>3, <2>2, <2>3, <2>4, <2>5
<1>4. CASE home.down /\ home' = [home EXCEPT !.down = FALSE]
           /\ Push(<<Event("BTN_MODE", 0)>>)
  <2>1. home'.times = home.times /\ home'.down = FALSE /\ home.times \in Nat
    BY <1>2, <1>4
  <2>2. Driving <=> (home.times - 1) % 2 = 0
    BY <1>4 DEF Driving
  <2>3. Driving' <=> home.times % 2 = 0
    BY <2>1 DEF Driving
  <2>4. (home.times - 1) % 2 = 0 <=> ~(home.times % 2 = 0)
    BY <2>1
  <2>5. home' \in [times : Nat, down : BOOLEAN]
    BY <1>2, <1>4
  <2> QED BY <1>1, <1>4, <2>2, <2>3, <2>4, <2>5
<1> QED BY <1>3, <1>4 DEF Home

LEMMA HomeStep ==
    ASSUME EventInv, Home
    PROVE  EventInv'
<1> DEFINE press == Event("BTN_MODE", 1)
           release == Event("BTN_MODE", 0)
<1>1. TypeInv /\ events \in Seq(EventType)
  BY DEF EventInv, TypeInv
<1>2. /\ press \in EventType /\ release \in EventType
      /\ press.code = "BTN_MODE" /\ release.code = "BTN_MODE"
      /\ ~Released(press) /\ Released(release)
  BY DEF Event, EventType, Released
<1>3. /\ home' \in [times : Nat, down : BOOLEAN]
      /\ \/ Push(<<press>>) /\ (Driving' <=> Driving)
         \/ Push(<<release>>) /\ (Driving' <=> ~Driving)
      /\ UNCHANGED <<path, plugged, running, pad, held, cmd_vel, topic, wheel>>
  BY <1>1, HomePushes
<1> HIDE DEF press, release
<1>4. PICK e \in {press, release} : /\ Push(<<e>>)
                                    /\ Driving' <=> (IF Released(e) THEN ~Driving ELSE Driving)
  BY <1>2, <1>3
<1>5. /\ e \in EventType /\ e.code = "BTN_MODE"
      /\ events' = Queued(events, e)
      /\ unknown' = Unread(events, unknown, e)
      /\ ~overflowed' => /\ ~overflowed /\ events' = Append(events, e)
                         /\ unknown' \subseteq unknown
  BY <1>1, <1>2, <1>4, PushOne
<1>6. TypeInv'
  <2>1. events' \in Seq(EventType) /\ unknown' \subseteq {"X", "Y"}
    BY <1>1, <1>4, <1>5, PushType
  <2> QED BY <1>1, <1>3, <2>1 DEF TypeInv
<1>7. Stick' = Stick /\ Here' = Here
  BY <1>3 DEF Stick, Last, Here
<1>8. AxesTold'
  <2>1. Axis(e.code) = {}
    BY <1>5, AxisIs
  <2>2. ASSUME NEW x, NEW v, AxisTold(events, unknown, "X", "ABS_X", x, v, LeftJoystickX(x))
        PROVE  AxisTold(events', unknown', "X", "ABS_X", x, v, LeftJoystickX(x))
    BY <1>1, <1>5, <2>1, <2>2, AxisIs, QueuedOther
  <2>3. ASSUME NEW y, NEW v, AxisTold(events, unknown, "Y", "ABS_Y", y, v, LeftJoystickY(y))
        PROVE  AxisTold(events', unknown', "Y", "ABS_Y", y, v, LeftJoystickY(y))
    BY <1>1, <1>5, <2>1, <2>3, AxisIs, QueuedOther
  <2>4. running => /\ AxisTold(events, unknown, "X", "ABS_X", Stick.X, pad.z, LeftJoystickX(Stick.X))
                   /\ AxisTold(events, unknown, "Y", "ABS_Y", Stick.Y, pad.x, LeftJoystickY(Stick.Y))
    BY DEF EventInv, AxesTold
  <2> QED BY <1>3, <1>7, <2>2, <2>3, <2>4 DEF AxesTold
<1>9. Zeros'
  BY <1>3, <1>5 DEF EventInv, Zeros
<1>10. ModeTold'
  <2>1. ASSUME running, ~overflowed'
        PROVE  \E m \in Modes : /\ Trace(ModeMoves, Modes, events', pad.state, m)
                                /\ m = "wheels" <=> Driving'
    <3>1. PICK m \in Modes : /\ Trace(ModeMoves, Modes, events, pad.state, m)
                             /\ m = "wheels" <=> Driving
      BY <1>5, <2>1 DEF EventInv, ModeTold
    <3> DEFINE c == IF Released(e) THEN Other(m) ELSE m
    <3>2. c \in Modes /\ (Released(e) => (c = "wheels" <=> m # "wheels"))
          /\ (~Released(e) => c = m)
      BY DEF Modes, Other
    <3>3. Trace(ModeMoves, Modes, Append(events, e), pad.state, c)
      BY <1>1, <1>5, <3>1, <3>2, ModeAppend
    <3> HIDE DEF c
    <3> QED BY <1>4, <1>5, <2>1, <3>1, <3>2, <3>3
  <2> QED BY <1>3, <2>1 DEF ModeTold
<1>11. PathTold'
  <2>1. ASSUME running, FromCentre'
        PROVE  \E s \in Spots(path) : OnPad(s) /\ Trace(PathMoves(path), Spots(path), events', s, Here)
    <3>1. ~overflowed' /\ FromCentre
      BY <1>3, <1>5, <2>1 DEF FromCentre
    <3>2. PICK s \in Spots(path) : OnPad(s) /\ Trace(PathMoves(path), Spots(path), events, s, Here)
      BY <2>1, <3>1 DEF EventInv, PathTold
    <3>3. Here \in Spots(path)
      BY <1>1 DEF Here, Spots, TypeInv
    <3>4. <<Here, e, Here>> \in PathMoves(path)
      BY <1>5, <3>3 DEF PathMoves, Leads
    <3>5. Trace(PathMoves(path), Spots(path), Append(events, e), s, Here)
      BY <1>1, <1>5, <3>2, <3>3, <3>4, TraceAppend
    <3> QED BY <1>5, <3>1, <3>2, <3>5
  <2>2. \A s : OnPad(s)' <=> OnPad(s)
    BY <1>3 DEF OnPad
  <2> QED BY <1>3, <1>7, <2>1, <2>2 DEF PathTold
<1>12. NoOldMixture'
  BY <1>3, <1>5 DEF EventInv, NoOldMixture
<1> QED BY <1>6, <1>8, <1>9, <1>10, <1>11, <1>12 DEF EventInv

-----------------------------------------------------------------------------
\* One round of readInputs().
LEMMA ReadFacts ==
    ASSUME TypeInv, ReadInputs
    PROVE  /\ running /\ events # <<>> /\ events \in Seq(EventType) /\ events' = Tail(events)
           /\ Head(events) \in EventType
           /\ pad' \in Pad /\ held' \in Message
           /\ pad'.z = IF Head(events).code = "ABS_X" THEN LeftJoystickX(Head(events).value)
                       ELSE pad.z
           /\ pad'.x = IF Head(events).code = "ABS_Y" THEN LeftJoystickY(Head(events).value)
                       ELSE pad.x
           /\ pad'.state = IF Released(Head(events)) THEN Other(pad.state) ELSE pad.state
           /\ \/ cmd_vel' = cmd_vel
              \/ cmd_vel' = Deliver(cmd_vel, Msg(pad'), CmdQueue)
           /\ UNCHANGED <<path, home, plugged, unknown, overflowed, running, topic, wheel>>
<1>1. /\ running /\ events # <<>> /\ events \in Seq(EventType) /\ events' = Tail(events)
      /\ UNCHANGED <<path, home, plugged, unknown, overflowed, running, topic, wheel>>
      /\ pad \in Pad /\ held \in Message
  BY DEF ReadInputs, TypeInv, person
<1> DEFINE e == Head(events)
           new == Handled(pad, e)
<1>2. e \in EventType
  BY <1>1
<1>3. /\ IF e = Dropped THEN UNCHANGED <<pad, held, cmd_vel>>
         ELSE /\ pad' = IF Publishes(new) THEN Published(new) ELSE new
              /\ cmd_vel' = IF Publishes(new) THEN Deliver(cmd_vel, Msg(new), CmdQueue)
                            ELSE cmd_vel
              /\ held' = IF new.state = "wheels" THEN Msg(new) ELSE held
  BY DEF ReadInputs
<1> HIDE DEF e
<1>4. CASE e = Dropped
  <2>1. e.code = "SYN_DROPPED" /\ ~Released(e)
    BY <1>4 DEF Dropped, Event, Released
  <2> QED BY <1>1, <1>2, <1>3, <1>4, <2>1 DEF e
<1>5. CASE e # Dropped
  <2>1. /\ new \in Pad
        /\ new.z = IF e.code = "ABS_X" THEN LeftJoystickX(e.value) ELSE pad.z
        /\ new.x = IF e.code = "ABS_Y" THEN LeftJoystickY(e.value) ELSE pad.x
        /\ new.state = IF Released(e) THEN Other(pad.state) ELSE pad.state
    BY <1>1, <1>2, <1>5, HandledFacts DEF Released
  <2> HIDE DEF new
  <2>2. /\ Published(new) \in Pad /\ Published(new).z = new.z /\ Published(new).x = new.x
        /\ Published(new).state = new.state /\ Msg(Published(new)) = Msg(new)
        /\ Msg(new) \in Message
    BY <2>1 DEF Published, Pad, Msg, Message
  <2>3. pad' \in Pad /\ pad'.z = new.z /\ pad'.x = new.x /\ pad'.state = new.state
        /\ Msg(pad') = Msg(new)
    <3>1. CASE Publishes(new)
      <4>1. pad' = Published(new)
        BY <1>3, <1>5, <3>1
      <4> QED BY <2>2, <4>1
    <3>2. CASE ~Publishes(new)
      <4>1. pad' = new
        BY <1>3, <1>5, <3>2
      <4> QED BY <2>1, <4>1
    <3> QED BY <3>1, <3>2
  <2>4. held' \in Message
    BY <1>1, <1>3, <1>5, <2>2
  <2>5. cmd_vel' = cmd_vel \/ cmd_vel' = Deliver(cmd_vel, Msg(new), CmdQueue)
    BY <1>3, <1>5
  <2> QED BY <1>1, <1>2, <2>1, <2>3, <2>4, <2>5 DEF e
<1> QED BY <1>4, <1>5

LEMMA ReadStep ==
    ASSUME EventInv, ReadInputs
    PROVE  EventInv'
<1> DEFINE e == Head(events)
<1>1. TypeInv
  BY DEF EventInv
<1>2. /\ running /\ events # <<>> /\ events \in Seq(EventType) /\ events' = Tail(events)
      /\ e \in EventType
      /\ pad' \in Pad /\ held' \in Message
      /\ pad'.z = IF e.code = "ABS_X" THEN LeftJoystickX(e.value) ELSE pad.z
      /\ pad'.x = IF e.code = "ABS_Y" THEN LeftJoystickY(e.value) ELSE pad.x
      /\ pad'.state = IF Released(e) THEN Other(pad.state) ELSE pad.state
      /\ \/ cmd_vel' = cmd_vel
         \/ cmd_vel' = Deliver(cmd_vel, Msg(pad'), CmdQueue)
      /\ UNCHANGED <<path, home, plugged, unknown, overflowed, running, topic, wheel>>
  BY <1>1, ReadFacts
<1> DEFINE t == Tail(events)
<1> HIDE DEF e
<1>3. Stick' = Stick /\ Here' = Here /\ (Driving' <=> Driving) /\ (FromCentre' <=> FromCentre)
  BY <1>2 DEF Stick, Last, Here, Driving, FromCentre
<1>4. TypeInv'
  <2>1. t \in Seq(EventType)
    BY <1>2, HeadTailProperties
  <2>2. cmd_vel' \in Seq(Message) /\ Len(cmd_vel') <= CmdQueue
    <3>1. Msg(pad') \in Message
      BY <1>2 DEF Msg, Message, Pad
    <3>2. cmd_vel \in Seq(Message) /\ Len(cmd_vel) <= CmdQueue /\ CmdQueue \in Nat \ {0}
      BY <1>1, TeleopAssumption DEF TypeInv
    <3>3. /\ Deliver(cmd_vel, Msg(pad'), CmdQueue) \in Seq(Message)
          /\ Len(Deliver(cmd_vel, Msg(pad'), CmdQueue)) <= CmdQueue
      BY <3>1, <3>2, DeliverFacts
    <3> QED BY <1>2, <3>2, <3>3
  <2> QED BY <1>1, <1>2, <2>1, <2>2 DEF TypeInv
<1>5. /\ AxisTold(events, unknown, "X", "ABS_X", Stick.X, pad.z, LeftJoystickX(Stick.X))
      /\ AxisTold(events, unknown, "Y", "ABS_Y", Stick.Y, pad.x, LeftJoystickY(Stick.Y))
  BY <1>2 DEF EventInv, AxesTold
<1>6. ASSUME NEW code, NEW value
      PROVE  /\ e.code # code =>
                  /\ About(events, code) = {} <=> About(t, code) = {}
                  /\ LastSays(events, code, value) <=> LastSays(t, code, value)
             /\ e.code = code => About(events, code) # {}
             /\ About(events, code) = {} => About(t, code) = {}
             /\ LastSays(events, code, value) /\ ~LastSays(t, code, value) =>
                  About(t, code) = {} /\ e.value = value
  BY <1>2, AboutTail DEF e
<1> HIDE DEF t
<1>7. AxesTold'
  <2>1. ASSUME NEW axis, NEW code, NEW value, NEW have, NEW have2, NEW want,
               AxisTold(events, unknown, axis, code, value, have, want),
               e.code = code /\ e.value = value => have2 = want,
               e.code # code => have2 = have
        PROVE  AxisTold(t, unknown, axis, code, value, have2, want)
    <3>1. CASE axis \in unknown
      BY <1>6, <2>1, <3>1, Zenon DEF AxisTold
    <3>2. CASE axis \notin unknown /\ e.code = code
      <4>1. LastSays(events, code, value)
        BY <1>6, <2>1, <3>2, Zenon DEF AxisTold
      <4>2. CASE LastSays(t, code, value)
        BY <3>2, <4>2, Zenon DEF AxisTold
      <4>3. CASE ~LastSays(t, code, value)
        <5>1. About(t, code) = {} /\ e.value = value
          BY <1>6, <4>1, <4>3, Zenon
        <5>2. have2 = want
          BY <2>1, <3>2, <5>1
        <5> QED BY <3>2, <5>1, <5>2, Zenon DEF AxisTold
      <4> QED BY <4>2, <4>3
    <3>3. CASE axis \notin unknown /\ e.code # code
      <4>1. have2 = have
        BY <2>1, <3>3
      <4> QED BY <1>6, <2>1, <3>3, <4>1, Zenon DEF AxisTold
    <3> QED BY <3>1, <3>2, <3>3
  <2>2. AxisTold(t, unknown, "X", "ABS_X", Stick.X, pad'.z, LeftJoystickX(Stick.X))
    BY <1>2, <1>5, <2>1
  <2>3. AxisTold(t, unknown, "Y", "ABS_Y", Stick.Y, pad'.x, LeftJoystickY(Stick.Y))
    BY <1>2, <1>5, <2>1
  <2> QED BY <1>2, <1>3, <2>2, <2>3 DEF AxesTold, t
<1>8. Zeros'
  <2>1. /\ "X" \in unknown => e.code # "ABS_X"
        /\ "Y" \in unknown => e.code # "ABS_Y"
    BY <1>5, <1>6, Zenon DEF AxisTold
  <2> QED BY <1>2, <2>1 DEF EventInv, Zeros
<1>9. ModeTold'
  <2>1. ASSUME ~overflowed
        PROVE  \E m \in Modes : Trace(ModeMoves, Modes, t, pad'.state, m) /\ (m = "wheels" <=> Driving)
    <3>1. PICK m \in Modes : /\ Trace(ModeMoves, Modes, events, pad.state, m)
                             /\ m = "wheels" <=> Driving
      BY <1>2, <2>1 DEF EventInv, ModeTold
    <3>2. PICK c \in Modes : /\ <<pad.state, e, c>> \in ModeMoves
                             /\ Trace(ModeMoves, Modes, t, c, m)
      BY <1>2, <3>1, TraceTail DEF e, t
    <3>3. c = pad'.state
      BY <1>2, <3>2 DEF ModeMoves
    <3> QED BY <3>1, <3>2, <3>3
  <2> QED BY <1>2, <1>3, <2>1 DEF ModeTold, t
<1>10. PathTold'
  <2>1. ASSUME FromCentre
        PROVE  \E s \in Spots(path) : OnPad(s)' /\ Trace(PathMoves(path), Spots(path), t, s, Here)
    <3>1. PICK s \in Spots(path) : OnPad(s) /\ Trace(PathMoves(path), Spots(path), events, s, Here)
      BY <1>2, <2>1 DEF EventInv, PathTold
    <3>2. PICK c \in Spots(path) : /\ <<s, e, c>> \in PathMoves(path)
                                   /\ Trace(PathMoves(path), Spots(path), t, c, Here)
      BY <1>2, <3>1, TraceTail DEF e, t
    <3>3. Leads(path, s, e, c)
      BY <3>2 DEF PathMoves
    <3>4. /\ pad.z = LeftJoystickX(path[s[1]].X)
          /\ pad.x = LeftJoystickY(path[s[2]].Y)
      BY <3>1 DEF OnPad
    <3>5. /\ pad'.z = LeftJoystickX(path[c[1]].X)
          /\ pad'.x = LeftJoystickY(path[c[2]].Y)
      <4>1. CASE e.code = "ABS_X"
        BY <1>2, <3>3, <3>4, <4>1 DEF Leads
      <4>2. CASE e.code = "ABS_Y"
        BY <1>2, <3>3, <3>4, <4>2 DEF Leads
      <4>3. CASE e.code \notin {"ABS_X", "ABS_Y"}
        BY <1>2, <3>3, <3>4, <4>3 DEF Leads
      <4> QED BY <4>1, <4>2, <4>3
    <3>6. OnPad(c)'
      BY <1>2, <3>5 DEF OnPad
    <3> QED BY <3>2, <3>6
  <2> QED BY <1>2, <1>3, <2>1 DEF PathTold, t
<1>11. NoOldMixture'
  <2>1. ASSUME FromCentre PROVE Unmixed(cmd_vel', path)
    <3>1. PICK s \in Spots(path) : OnPad(s)'
      BY <1>2, <1>3, <1>10, <2>1 DEF PathTold
    <3>2. /\ pad'.z = LeftJoystickX(path[s[1]].X)
          /\ pad'.x = LeftJoystickY(path[s[2]].Y)
      BY <1>2, <3>1 DEF OnPad
    <3>3. Says(Msg(pad'), path[s[1]], path[s[2]])
      BY <3>2 DEF Says, Msg
    <3>4. s[1] \in DOMAIN path /\ (s[1] = s[2] \/ (s[1] > 1 /\ s[2] = s[1] - 1))
      BY <1>1 DEF Spots, TypeInv
    <3>5. \E k \in DOMAIN path : \/ Says(Msg(pad'), path[k], path[k])
                                 \/ k > 1 /\ Says(Msg(pad'), path[k], path[k - 1])
      BY <3>3, <3>4, Zenon
    <3>6. Unmixed(cmd_vel, path)
      BY <2>1 DEF EventInv, NoOldMixture, FromCentre, Unmixed
    <3>7. ASSUME NEW j \in DOMAIN cmd_vel'
          PROVE  cmd_vel'[j] = Msg(pad') \/ \E i \in DOMAIN cmd_vel : cmd_vel'[j] = cmd_vel[i]
      <4>1. Msg(pad') \in Message
        BY <1>2 DEF Msg, Message, Pad
      <4>2. cmd_vel \in Seq(Message) /\ CmdQueue \in Nat \ {0}
        BY <1>1, TeleopAssumption DEF TypeInv
      <4> QED BY <1>2, <4>1, <4>2, DeliverRange
    <3> QED BY <3>5, <3>6, <3>7 DEF Unmixed
  <2> QED BY <1>2, <1>3, <2>1 DEF NoOldMixture, Unmixed, FromCentre
<1> QED BY <1>4, <1>7, <1>8, <1>9, <1>10, <1>11 DEF EventInv

\* The other steps put nothing into the kernel's queue and nothing onto cmd_vel.
LEMMA QuietStep ==
    ASSUME EventInv, Unplug \/ ReadInputsFails \/ SubscriberCallBack
                     \/ (\E s \in Sides : Turn(s)) \/ UNCHANGED vars
    PROVE  EventInv'
<1>1. CASE Unplug \/ (\E s \in Sides : Turn(s)) \/ UNCHANGED vars
  <2>1. /\ UNCHANGED <<path, home, events, unknown, overflowed, running, pad, held, cmd_vel>>
        /\ DOMAIN topic' = Sides /\ DOMAIN wheel' = Sides
        /\ plugged' = plugged \/ ~plugged'
    BY <1>1 DEF Unplug, Turn, vars, person, kernel, node, EventInv, TypeInv
  <2>2. TypeInv'
    BY <2>1 DEF EventInv, TypeInv
  <2>3. AxesTold' /\ Zeros' /\ ModeTold' /\ PathTold' /\ NoOldMixture'
    BY <2>1 DEF EventInv, AxesTold, Stick, Last, Zeros, ModeTold, Driving, PathTold, FromCentre,
                OnPad, Here, NoOldMixture
  <2> QED BY <2>2, <2>3 DEF EventInv
<1>2. CASE ReadInputsFails
  <2>1. /\ UNCHANGED <<path, home, unknown, overflowed, pad, held, cmd_vel, topic, wheel>>
        /\ plugged' = plugged /\ ~plugged /\ running' = FALSE /\ events' = <<>>
    BY <1>2 DEF ReadInputsFails, person
  <2>2. TypeInv'
    BY <2>1 DEF EventInv, TypeInv
  <2>3. AxesTold' /\ ModeTold' /\ PathTold'
    BY <2>1 DEF AxesTold, ModeTold, PathTold
  <2>4. Zeros' /\ NoOldMixture'
    BY <2>1 DEF EventInv, Zeros, NoOldMixture
  <2> QED BY <2>2, <2>3, <2>4 DEF EventInv
<1>3. CASE SubscriberCallBack
  <2>1. /\ UNCHANGED <<path, home, plugged, events, unknown, overflowed, running, pad, held, wheel>>
        /\ cmd_vel # <<>> /\ cmd_vel' = Tail(cmd_vel) /\ DOMAIN topic' = {"left", "right"}
    BY <1>3 DEF SubscriberCallBack, person, kernel, node
  <2> DEFINE t == Tail(cmd_vel)
  <2>2. /\ t \in Seq(Message) /\ Len(t) <= CmdQueue
        /\ \A j \in DOMAIN t : j + 1 \in DOMAIN cmd_vel /\ t[j] = cmd_vel[j + 1]
    <3>1. /\ cmd_vel \in Seq(Message) /\ Len(cmd_vel) <= CmdQueue /\ CmdQueue \in Nat
          /\ Len(cmd_vel) \in Nat
      BY TeleopAssumption DEF EventInv, TypeInv
    <3>2. t \in Seq(Message) /\ Len(t) = Len(cmd_vel) - 1
          /\ \A j \in 1..Len(cmd_vel) - 1 : t[j] = cmd_vel[j + 1]
      BY <2>1, <3>1, HeadTailProperties
    <3> HIDE DEF t
    <3>3. DOMAIN t = 1..Len(t) /\ DOMAIN cmd_vel = 1..Len(cmd_vel)
      BY <3>1, <3>2
    <3>4. Len(t) <= CmdQueue
      BY <3>1, <3>2
    <3> QED BY <3>1, <3>2, <3>3, <3>4
  <2> HIDE DEF t
  <2>3. TypeInv'
    BY <2>1, <2>2 DEF EventInv, TypeInv, Sides, t
  <2>4. AxesTold' /\ Zeros' /\ ModeTold' /\ PathTold'
    BY <2>1 DEF EventInv, AxesTold, Stick, Last, Zeros, ModeTold, Driving, PathTold, FromCentre,
                OnPad, Here
  <2>5. NoOldMixture'
    <3>1. FromCentre => Unmixed(cmd_vel, path)
      BY DEF EventInv, NoOldMixture, FromCentre, Unmixed
    <3>2. FromCentre => Unmixed(t, path)
      BY <2>2, <3>1 DEF Unmixed
    <3> QED BY <2>1, <3>2 DEF NoOldMixture, FromCentre, Unmixed, t
  <2> QED BY <2>3, <2>4, <2>5 DEF EventInv
<1> QED BY <1>1, <1>2, <1>3

LEMMA EventInit == Init => EventInv
<1> SUFFICES ASSUME Init PROVE EventInv
  OBVIOUS
<1>1. PICK p \in Positions : path = <<p>>
  BY DEF Init
<1>2. /\ home = [times |-> 0, down |-> FALSE] /\ plugged = TRUE
      /\ events = <<>> /\ unknown = {"X", "Y"} /\ overflowed = FALSE
      /\ running = TRUE /\ pad = Still /\ held = Msg(Still) /\ cmd_vel = <<>>
      /\ topic = [s \in Sides |-> <<>>] /\ wheel = [s \in Sides |-> 0]
  BY DEF Init
<1>3. /\ path \in Seq(Positions) /\ Len(path) = 1 /\ path[1] = p
  BY <1>1
<1>4. pad \in Pad /\ pad.z = 0 /\ pad.x = 0 /\ pad.state = "wheels"
  BY <1>2 DEF Still, Pad, Modes
<1>5. TypeInv
  <2>1. events \in Seq(EventType) /\ cmd_vel \in Seq(Message) /\ Len(cmd_vel) <= CmdQueue
    BY <1>2, TeleopAssumption
  <2>2. held \in Message
    BY <1>2 DEF Still, Msg, Message
  <2>3. home \in [times : Nat, down : BOOLEAN]
    BY <1>2
  <2>4. DOMAIN topic = Sides /\ DOMAIN wheel = Sides
    BY <1>2
  <2> QED BY <1>2, <1>3, <1>4, <2>1, <2>2, <2>3, <2>4 DEF TypeInv
<1>6. AxesTold
  <2>1. \A code : About(events, code) = {}
    BY <1>2 DEF About
  <2> QED BY <1>2, <2>1 DEF AxesTold, AxisTold
<1>7. Zeros
  BY <1>4 DEF Zeros
<1>8. ModeTold
  <2>1. "wheels" \in Modes
    BY DEF Modes
  <2>2. Trace(ModeMoves, Modes, events, "wheels", "wheels")
    BY <1>2, <2>1, TraceEmpty
  <2>3. Driving
    BY <1>2 DEF Driving
  <2> QED BY <1>4, <2>1, <2>2, <2>3 DEF ModeTold
<1>9. PathTold
  <2>1. Here \in Spots(path) /\ Here = <<1, 1>>
    BY <1>3 DEF Here, Spots
  <2>2. Trace(PathMoves(path), Spots(path), events, Here, Here)
    BY <1>2, <2>1, TraceEmpty
  <2>3. FromCentre => OnPad(Here)
    BY <1>4, <2>1, JoystickType DEF FromCentre, OnPad
  <2> QED BY <2>1, <2>2, <2>3 DEF PathTold
<1>10. NoOldMixture
  BY <1>2 DEF NoOldMixture
<1> QED BY <1>5, <1>6, <1>7, <1>8, <1>9, <1>10 DEF EventInv

LEMMA EventStep == EventInv /\ [Next]_vars => EventInv'
<1> SUFFICES ASSUME EventInv, [Next]_vars PROVE EventInv'
  OBVIOUS
<1>1. CASE Move
  <2>1. TypeInv /\ AxesTold /\ Zeros /\ ModeTold /\ PathTold /\ NoOldMixture
    BY DEF EventInv
  <2>2. TypeInv' /\ AxesTold' /\ Zeros' /\ ModeTold' /\ PathTold' /\ NoOldMixture'
    BY <1>1, <2>1, MoveType, MoveAxes, MoveMode, MovePath, MoveMixture
  <2> QED BY <2>2 DEF EventInv
<1>2. CASE Home
  BY <1>2, HomeStep
<1>3. CASE ReadInputs
  BY <1>3, ReadStep
<1>4. CASE Unplug \/ ReadInputsFails \/ SubscriberCallBack
           \/ (\E s \in Sides : Turn(s)) \/ UNCHANGED vars
  BY <1>4, QuietStep
<1> QED BY <1>1, <1>2, <1>3, <1>4 DEF Next

\* readInputs(), publishMoveXZ(): unless the kernel has lost events, every Twist that waits
\* for the wheels tells a position the joystick had, or one axis of a move before the other;
\* however many moves there were, whatever else was pressed in between.
THEOREM TwistsUnmixed == Spec => []NoOldMixture
<1>1. EventInv => NoOldMixture
  BY DEF EventInv
<1> QED BY <1>1, EventInit, EventStep, PTL DEF Spec

-----------------------------------------------------------------------------
\* What the wheels do.  A step of the joystick is one of the speed, too large for
\* publishMoveXZ() to overlook unless the sensitivity is one percent.
Coarse == XSensitivity # 1 /\ ZSensitivity # 1

\* The speeds are whole steps of the joystick.
Steps(v, sensitivity) == \E m \in -128..128 : v = m * sensitivity
Stepwise ==
    /\ Steps(pad.x, XSensitivity) /\ Steps(pad.x_old, XSensitivity)
    /\ Steps(pad.z, ZSensitivity) /\ Steps(pad.z_old, ZSensitivity)

\* In wheels mode the pad has been published; the last command is what was published.
InForce == running /\ pad.state = "wheels" => pad.x = pad.x_old /\ pad.z = pad.z_old
HeldPublished == held = [lin |-> pad.x_old, ang |-> pad.z_old]

\* The last command on its way is the last one given, and a side with nothing on its way
\* obeys that.
Pipeline ==
    /\ cmd_vel # <<>> => cmd_vel[Len(cmd_vel)] = held
    /\ cmd_vel = <<>> =>
         \A s \in Sides : IF topic[s] = <<>> THEN wheel[s] = OnWheels(held)[s]
                          ELSE topic[s] = <<OnWheels(held)[s]>>
    /\ wheel = [s \in Sides |-> wheel[s]]
WheelInv == EventInv /\ (Coarse => Stepwise /\ InForce /\ HeldPublished /\ Pipeline)

LEMMA JoystickSteps ==
    /\ \A v \in 0..255 : Steps(LeftJoystickX(v), ZSensitivity) /\ Steps(LeftJoystickY(v), XSensitivity)
    /\ \A s \in Nat : Steps(0, s)
<1>1. \A s \in Nat : Steps(0, s)
  <2> SUFFICES ASSUME NEW s \in Nat PROVE Steps(0, s)
    OBVIOUS
  <2>1. 0 = 0 * s /\ 0 \in -128..128
    OBVIOUS
  <2> QED BY <2>1 DEF Steps
<1>2. ASSUME NEW v \in 0..255, NEW s \in Nat
      PROVE  Steps(-(v - 128) * s, s) /\ Steps((v - 128) * s, s)
  <2>1. -(v - 128) \in -128..128 /\ v - 128 \in -128..128
    OBVIOUS
  <2> QED BY <2>1 DEF Steps
<1> QED BY <1>1, <1>2, SensitivityAssumption DEF LeftJoystickX, LeftJoystickY

LEMMA StepsApart ==
    ASSUME NEW s \in Nat, s # 1, NEW a, NEW b, Steps(a, s), Steps(b, s), ~Changed(a, b)
    PROVE  a = b
<1>1. PICK m \in -128..128 : a = m * s
  BY DEF Steps
<1>2. PICK n \in -128..128 : b = n * s
  BY DEF Steps
<1>3. s = 0 => a = b
  BY <1>1, <1>2
<1>4. ASSUME NEW i \in Int, NEW j \in Int, i > j, s >= 2 PROVE i * s - j * s > 1
  <2>1. i * s - j * s = (i - j) * s
    OBVIOUS
  <2>2. (i - j) * s >= 1 * s
    BY <1>4
  <2> QED BY <1>4, <2>1, <2>2
<1>5. s >= 2 /\ m > n => a - b > 1
  BY <1>1, <1>2, <1>4
<1>6. s >= 2 /\ n > m => b - a > 1
  BY <1>1, <1>2, <1>4
<1> QED BY <1>1, <1>2, <1>3, <1>5, <1>6 DEF Changed

\* What the round of readInputs() leaves on the pad and gives as command.
LEMMA ReadWheels ==
    ASSUME WheelInv, Coarse, ReadInputs
    PROVE  /\ Stepwise' /\ InForce' /\ HeldPublished'
           /\ \/ cmd_vel' = cmd_vel /\ held' = held
              \/ cmd_vel' = Deliver(cmd_vel, held', CmdQueue)
<1>1. /\ Stepwise /\ InForce /\ HeldPublished /\ TypeInv /\ running
  BY DEF WheelInv, EventInv, ReadInputs
<1>2. XSensitivity \in Nat /\ ZSensitivity \in Nat /\ XSensitivity # 1 /\ ZSensitivity # 1
  BY SensitivityAssumption DEF Coarse
<1> DEFINE e == Head(events)
           new == Handled(pad, e)
<1>3. /\ IF e = Dropped THEN UNCHANGED <<pad, held, cmd_vel>>
         ELSE /\ pad' = IF Publishes(new) THEN Published(new) ELSE new
              /\ cmd_vel' = IF Publishes(new) THEN Deliver(cmd_vel, Msg(new), CmdQueue)
                            ELSE cmd_vel
              /\ held' = IF new.state = "wheels" THEN Msg(new) ELSE held
      /\ running' = running
  BY DEF ReadInputs
<1>4. e \in EventType /\ pad \in Pad
  BY <1>1, ReadFacts DEF TypeInv
<1> HIDE DEF e
<1>5. CASE e = Dropped
  BY <1>1, <1>3, <1>5 DEF Stepwise, InForce, HeldPublished
<1>6. CASE e # Dropped
  <2>1. /\ new \in Pad
        /\ new.x_old = pad.x_old /\ new.z_old = pad.z_old
        /\ new.z = IF e.code = "ABS_X" THEN LeftJoystickX(e.value) ELSE pad.z
        /\ new.x = IF e.code = "ABS_Y" THEN LeftJoystickY(e.value) ELSE pad.x
    BY <1>4, <1>6, HandledFacts
  <2>2. /\ Steps(new.x, XSensitivity) /\ Steps(new.x_old, XSensitivity)
        /\ Steps(new.z, ZSensitivity) /\ Steps(new.z_old, ZSensitivity)
    BY <1>1, <1>4, <2>1, JoystickSteps DEF Stepwise, EventType
  <2> HIDE DEF new
  <2>3. CASE Publishes(new)
    <3>1. /\ pad' = Published(new) /\ held' = Msg(new) /\ new.state = "wheels"
          /\ cmd_vel' = Deliver(cmd_vel, Msg(new), CmdQueue)
      BY <1>3, <1>6, <2>3 DEF Publishes
    <3>2. /\ pad'.x = new.x /\ pad'.z = new.z /\ pad'.x_old = new.x /\ pad'.z_old = new.z
      BY <2>1, <3>1 DEF Published, Pad
    <3> QED BY <2>2, <3>1, <3>2 DEF Stepwise, InForce, HeldPublished, Msg
  <2>4. CASE ~Publishes(new)
    <3>1. /\ pad' = new /\ cmd_vel' = cmd_vel
          /\ held' = IF new.state = "wheels" THEN Msg(new) ELSE held
      BY <1>3, <1>6, <2>4
    <3>2. CASE new.state = "wheels"
      <4>1. ~Changed(new.x, new.x_old) /\ ~Changed(new.z, new.z_old)
        BY <2>4, <3>2 DEF Publishes
      <4>2. new.x = new.x_old /\ new.z = new.z_old
        BY <1>2, <2>2, <4>1, StepsApart
      <4>3. held' = held
        BY <1>1, <2>1, <3>1, <3>2, <4>2 DEF HeldPublished, Msg
      <4> QED BY <1>1, <2>1, <2>2, <3>1, <4>2, <4>3 DEF Stepwise, InForce, HeldPublished
    <3>3. CASE new.state # "wheels"
      BY <1>1, <2>1, <2>2, <3>1, <3>3 DEF Stepwise, InForce, HeldPublished
    <3> QED BY <3>2, <3>3
  <2> QED BY <2>3, <2>4
<1> QED BY <1>5, <1>6

LEMMA WheelStep == WheelInv /\ [Next]_vars => WheelInv'
<1> SUFFICES ASSUME WheelInv, [Next]_vars PROVE WheelInv'
  OBVIOUS
<1>1. EventInv /\ EventInv'
  BY EventStep DEF WheelInv
<1> SUFFICES ASSUME Coarse PROVE Stepwise' /\ InForce' /\ HeldPublished' /\ Pipeline'
  BY <1>1 DEF WheelInv
<1>2. Stepwise /\ InForce /\ HeldPublished /\ Pipeline /\ TypeInv
  BY <1>1 DEF WheelInv, EventInv
<1>3. cmd_vel \in Seq(Message) /\ Len(cmd_vel) <= CmdQueue /\ CmdQueue \in Nat \ {0}
  BY <1>2, TeleopAssumption DEF TypeInv
<1>4. CASE Move \/ Home \/ Unplug \/ UNCHANGED vars
  <2>1. UNCHANGED <<running, pad, held, cmd_vel, topic, wheel>>
    BY <1>4 DEF Move, Home, Unplug, vars, node
  <2> QED BY <1>2, <2>1 DEF Stepwise, InForce, HeldPublished, Pipeline
<1>5. CASE ReadInputs
  <2>1. /\ Stepwise' /\ InForce' /\ HeldPublished'
        /\ \/ cmd_vel' = cmd_vel /\ held' = held
           \/ cmd_vel' = Deliver(cmd_vel, held', CmdQueue)
        /\ UNCHANGED <<topic, wheel>>
    BY <1>5, ReadWheels DEF ReadInputs
  <2>2. CASE cmd_vel' = cmd_vel /\ held' = held
    BY <1>2, <2>1, <2>2 DEF Pipeline
  <2>3. CASE cmd_vel' = Deliver(cmd_vel, held', CmdQueue)
    <3>1. held' \in Message
      BY <1>1 DEF EventInv, TypeInv
    <3>2. cmd_vel' # <<>> /\ cmd_vel'[Len(cmd_vel')] = held'
      BY <1>3, <2>3, <3>1, DeliverFacts
    <3> QED BY <1>2, <2>1, <3>2 DEF Pipeline
  <2> QED BY <2>1, <2>2, <2>3
<1>6. CASE ReadInputsFails
  <2>1. UNCHANGED <<pad, held, cmd_vel, topic, wheel>> /\ ~running'
    BY <1>6 DEF ReadInputsFails
  <2> QED BY <1>2, <2>1 DEF Stepwise, InForce, HeldPublished, Pipeline
<1>7. CASE SubscriberCallBack
  <2>1. /\ cmd_vel # <<>> /\ cmd_vel' = Tail(cmd_vel)
        /\ topic' = [left |-> <<LeftWheel(Head(cmd_vel))>>,
                     right |-> <<RightWheel(Head(cmd_vel))>>]
        /\ UNCHANGED <<running, pad, held, wheel>>
    BY <1>7 DEF SubscriberCallBack, node
  <2>2. cmd_vel[Len(cmd_vel)] = held
    BY <1>2, <2>1 DEF Pipeline
  <2> DEFINE t == Tail(cmd_vel)
  <2>3. /\ Len(cmd_vel) \in Nat /\ Len(cmd_vel) >= 1 /\ Head(cmd_vel) = cmd_vel[1]
        /\ Len(t) = Len(cmd_vel) - 1
        /\ \A j \in 1..Len(cmd_vel) - 1 : t[j] = cmd_vel[j + 1]
    BY <1>3, <2>1, HeadTailProperties
  <2> HIDE DEF t
  <2>4. CASE Len(cmd_vel) = 1
    <3>1. Head(cmd_vel) = held
      BY <2>2, <2>3, <2>4
    <3>2. \A s \in Sides : topic'[s] # <<>> /\ topic'[s] = <<OnWheels(held)[s]>>
      BY <2>1, <3>1 DEF Sides, OnWheels
    <3>3. Len(t) = 0
      BY <2>3, <2>4
    <3>4. t = <<>>
      <4>1. t \in Seq(Message)
        BY <1>3, <2>1, HeadTailProperties DEF t
      <4> QED BY <3>3, <4>1, EmptySeq
    <3> QED BY <1>2, <2>1, <3>2, <3>4 DEF Stepwise, InForce, HeldPublished, Pipeline, t
  <2>5. CASE Len(cmd_vel) # 1
    <3>1. t[Len(t)] = held /\ t # <<>>
      <4>1. Len(t) \in 1..Len(cmd_vel) - 1 /\ Len(t) + 1 = Len(cmd_vel)
        BY <2>3, <2>5
      <4>2. t[Len(t)] = cmd_vel[Len(t) + 1]
        BY <2>3, <4>1
      <4>3. t # <<>>
        BY <4>1, EmptySeq
      <4> QED BY <2>2, <4>1, <4>2, <4>3
    <3> QED BY <1>2, <2>1, <3>1 DEF Stepwise, InForce, HeldPublished, Pipeline, t
  <2> QED BY <2>4, <2>5
<1>8. CASE \E s \in Sides : Turn(s)
  <2>1. PICK side \in Sides : Turn(side)
    BY <1>8
  <2>2. /\ topic[side] # <<>>
        /\ wheel' = [wheel EXCEPT ![side] = Head(topic[side])]
        /\ topic' = [topic EXCEPT ![side] = <<>>]
        /\ UNCHANGED <<running, pad, held, cmd_vel>>
    BY <2>1 DEF Turn, node
  <2>3. wheel' = [s \in Sides |-> wheel'[s]]
    BY <1>2, <2>2 DEF Pipeline
  <2>4. ASSUME cmd_vel = <<>>, NEW s \in Sides
        PROVE  IF topic'[s] = <<>> THEN wheel'[s] = OnWheels(held)[s]
               ELSE topic'[s] = <<OnWheels(held)[s]>>
    <3>1. IF topic[s] = <<>> THEN wheel[s] = OnWheels(held)[s]
          ELSE topic[s] = <<OnWheels(held)[s]>>
      BY <1>2, <2>4 DEF Pipeline
    <3>2. DOMAIN topic = Sides /\ DOMAIN wheel = Sides
      BY <1>2 DEF TypeInv
    <3>3. CASE s = side
      <4>1. topic'[s] = <<>> /\ wheel'[s] = Head(topic[s])
        BY <2>2, <3>2, <3>3
      <4>2. Head(topic[s]) = OnWheels(held)[s]
        BY <2>2, <3>1, <3>3
      <4> QED BY <4>1, <4>2
    <3>4. CASE s # side
      <4>1. topic'[s] = topic[s] /\ wheel'[s] = wheel[s]
        BY <2>2, <3>2, <3>4
      <4> QED BY <3>1, <4>1
    <3> QED BY <3>3, <3>4
  <2> QED BY <1>2, <2>2, <2>3, <2>4 DEF Stepwise, InForce, HeldPublished, Pipeline
<1> QED BY <1>4, <1>5, <1>6, <1>7, <1>8 DEF Next

LEMMA WheelInit == Init => WheelInv
<1> SUFFICES ASSUME Init PROVE Stepwise /\ InForce /\ HeldPublished /\ Pipeline
  BY EventInit DEF WheelInv
<1>1. /\ pad = Still /\ held = Msg(Still) /\ cmd_vel = <<>>
      /\ topic = [s \in Sides |-> <<>>] /\ wheel = [s \in Sides |-> 0]
  BY DEF Init
<1>2. pad.x = 0 /\ pad.x_old = 0 /\ pad.z = 0 /\ pad.z_old = 0 /\ held = [lin |-> 0, ang |-> 0]
  BY <1>1 DEF Still, Msg
<1>3. Stepwise
  BY <1>2, JoystickSteps, SensitivityAssumption DEF Stepwise
<1>4. \A s \in Sides : OnWheels(held)[s] = 0
  BY <1>2, IntegrationAssumption DEF OnWheels, LeftWheel, RightWheel, Wheel, AlmostStraight, Sides
<1>5. Pipeline
  BY <1>1, <1>4 DEF Pipeline
<1> QED BY <1>2, <1>3, <1>5 DEF InForce, HeldPublished

LEMMA WheelsDo == WheelInv /\ Coarse => WheelsObey
<1> SUFFICES ASSUME WheelInv, Coarse, Settled PROVE
      /\ wheel = OnWheels(held)
      /\ running /\ pad.state = "wheels" =>
            /\ "X" \notin unknown => held.ang = LeftJoystickX(Stick.X)
            /\ "Y" \notin unknown => held.lin = LeftJoystickY(Stick.Y)
            /\ ~overflowed /\ "X" \in unknown => held.ang = 0
            /\ ~overflowed /\ "Y" \in unknown => held.lin = 0
      /\ running /\ ~overflowed => (pad.state = "wheels" <=> Driving)
  BY DEF WheelsObey
<1>1. events = <<>> /\ cmd_vel = <<>> /\ \A s \in Sides : topic[s] = <<>>
  BY DEF Settled
<1>2. EventInv /\ InForce /\ HeldPublished /\ Pipeline
  BY DEF WheelInv
<1>3. wheel = OnWheels(held)
  <2>1. wheel = [s \in Sides |-> wheel[s]] /\ \A s \in Sides : wheel[s] = OnWheels(held)[s]
    BY <1>1, <1>2 DEF Pipeline
  <2>2. wheel = [s \in Sides |-> OnWheels(held)[s]]
    BY <2>1
  <2>3. OnWheels(held) = [s \in Sides |-> OnWheels(held)[s]]
    BY DEF OnWheels, Sides
  <2> QED BY <2>2, <2>3
<1>4. ASSUME running, pad.state = "wheels" PROVE
            /\ "X" \notin unknown => held.ang = LeftJoystickX(Stick.X)
            /\ "Y" \notin unknown => held.lin = LeftJoystickY(Stick.Y)
            /\ ~overflowed /\ "X" \in unknown => held.ang = 0
            /\ ~overflowed /\ "Y" \in unknown => held.lin = 0
  <2>1. held.ang = pad.z /\ held.lin = pad.x
    BY <1>2, <1>4 DEF InForce, HeldPublished
  <2>2. \A code, value : ~LastSays(events, code, value)
    BY <1>1 DEF LastSays, About
  <2>3. /\ "X" \notin unknown => pad.z = LeftJoystickX(Stick.X)
        /\ "Y" \notin unknown => pad.x = LeftJoystickY(Stick.Y)
    BY <1>2, <1>4, <2>2 DEF EventInv, AxesTold, AxisTold
  <2>4. Zeros
    BY <1>2 DEF EventInv
  <2> QED BY <2>1, <2>3, <2>4 DEF Zeros
<1>5. ASSUME running, ~overflowed PROVE pad.state = "wheels" <=> Driving
  <2>1. PICK m \in Modes : /\ Trace(ModeMoves, Modes, events, pad.state, m)
                           /\ m = "wheels" <=> Driving
    BY <1>2, <1>5 DEF EventInv, ModeTold
  <2>2. pad.state = m
    BY <1>1, <2>1, TraceSame
  <2> QED BY <2>1, <2>2
<1> QED BY <1>3, <1>4, <1>5

\* readInputs() to the wheels: when all messages have arrived the wheels do what the joystick
\* says, in the mode that the person means, for every sensitivity but one percent, with which
\* a step of the joystick is too small for publishMoveXZ().
THEOREM WheelsObeyThere == Spec /\ Coarse => []WheelsObey
<1> DEFINE Inv == WheelInv /\ Coarse
<1>1. Init /\ Coarse => Inv
  BY WheelInit
<1>2. Inv /\ [Next]_vars => Inv'
  BY WheelStep DEF Coarse
<1>3. Inv => WheelsObey
  BY WheelsDo
<1> HIDE DEF Inv
<1> QED BY <1>1, <1>2, <1>3, PTL DEF Spec
=============================================================================
