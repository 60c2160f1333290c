------------------------- MODULE GpsNavigation_proofs -------------------------
(***************************************************************************)
(* Proofs about GpsNavigation, for every list of waypoints, every scale,   *)
(* tolerance and grid, and every size of the queues: waypoints are ticked  *)
(* off in order, only where the robot has been, and none is steered to     *)
(* before its turn.                                                        *)
(***************************************************************************)
EXTENDS GpsNavigation, Shared_proofs

LatLon == [lat : Int, lon : Int]

\* The loop of populateWaypointStack() leaves the list on the stack back to front.
LEMMA PopulateIs ==
    ASSUME NEW list \in Seq(LatLon)
    PROVE  PopulateWaypointStack(list)
             = [k \in 1..Len(list) |-> LLtoUTM(list[Len(list) + 1 - k].lat,
                                              list[Len(list) + 1 - k].lon)]
<1> DEFINE n == Len(list)
           utm(i) == LLtoUTM(list[i].lat, list[i].lon)
           item(k) == utm(n + 1 - k)
           Def(g) == [k \in 0..n |-> IF k = 0 THEN <<>> ELSE Append(g[k - 1], item(k))]
           pushed == CHOOSE g : g = Def(g)
           upTo(k) == [j \in 1..k |-> item(j)]
           f == [k \in 0..n |-> upTo(k)]
<1>1. PopulateWaypointStack(list) = pushed[n]
  BY DEF PopulateWaypointStack
<1>2. n \in Nat
  OBVIOUS
<1> HIDE DEF item, n
<1>3. ASSUME NEW k \in 1..n PROVE upTo(k) = Append(upTo(k - 1), item(k))
  <2> DEFINE T == {item(j) : j \in 1..k}
             a == upTo(k - 1)
             b == Append(a, item(k))
  <2>1. k \in Nat /\ k - 1 \in Nat /\ (k - 1) + 1 = k
    BY <1>2
  <2>2. a \in Seq(T) /\ Len(a) = k - 1
    <3>1. \A j \in 1..k - 1 : item(j) \in T
      BY <2>1
    <3> HIDE DEF T
    <3> QED BY <2>1, <3>1
  <2>3. item(k) \in T
    BY <2>1
  <2>4. ASSUME NEW j \in 1..k - 1 PROVE a[j] = item(j)
    OBVIOUS
  <2> HIDE DEF a, T
  <2>5. b \in Seq(T) /\ Len(b) = k /\ b[k] = item(k) /\ \A j \in 1..k - 1 : b[j] = a[j]
    BY <2>1, <2>2, <2>3, AppendProperties
  <2>6. b = [j \in 1..k |-> b[j]]
    BY <2>5, SeqIsItems
  <2> HIDE DEF b
  <2>7. ASSUME NEW j \in 1..k PROVE b[j] = item(j)
    <3>1. j = k \/ j \in 1..k - 1
      BY <2>1
    <3> QED BY <2>4, <2>5, <3>1
  <2>8. b = upTo(k)
    BY <2>6, <2>7
  <2> QED BY <2>8 DEF a, b
<1>4. f = Def(f)
  <2>1. ASSUME NEW k \in 0..n PROVE f[k] = Def(f)[k]
    <3>1. CASE k = 0
      <4>1. upTo(0) = <<>>
        OBVIOUS
      <4> QED BY <3>1, <4>1
    <3>2. CASE k # 0
      <4>1. k \in 1..n /\ k - 1 \in 0..n
        BY <1>2, <3>2
      <4>2. f[k] = upTo(k) /\ f[k - 1] = upTo(k - 1)
        BY <4>1
      <4>3. Def(f)[k] = Append(f[k - 1], item(k))
        BY <3>2
      <4> HIDE DEF upTo, f
      <4> QED BY <1>3, <4>1, <4>2, <4>3
    <3> QED BY <3>1, <3>2
  <2>2. f = [k \in 0..n |-> f[k]] /\ Def(f) = [k \in 0..n |-> Def(f)[k]]
    OBVIOUS
  <2> HIDE DEF f, Def
  <2> QED BY <2>1, <2>2
<1>5. pushed = Def(pushed)
  <2> HIDE DEF Def, f
  <2> QED BY <1>4, Zenon
<1>6. pushed[0] = <<>> /\ \A k \in 1..n : pushed[k] = Append(pushed[k - 1], item(k))
  <2>1. ASSUME NEW g, g = Def(g)
        PROVE  g[0] = <<>> /\ \A k \in 1..n : g[k] = Append(g[k - 1], item(k))
    <3>1. ASSUME NEW k \in 0..n
          PROVE  g[k] = IF k = 0 THEN <<>> ELSE Append(g[k - 1], item(k))
      <4>1. Def(g)[k] = IF k = 0 THEN <<>> ELSE Append(g[k - 1], item(k))
        OBVIOUS
      <4> HIDE DEF Def
      <4> QED BY <2>1, <4>1
    <3>2. 0 \in 0..n /\ \A k \in 1..n : k \in 0..n /\ k # 0
      BY <1>2
    <3> HIDE DEF Def
    <3> QED BY <3>1, <3>2
  <2> HIDE DEF pushed, Def
  <2> QED BY <1>5, <2>1
<1> HIDE DEF pushed
<1> DEFINE Reached == {k \in Nat : k <= n => pushed[k] = upTo(k)}
<1>7. n \in Reached
  <2>1. 0 \in Reached
    <3>1. upTo(0) = <<>>
      OBVIOUS
    <3> HIDE DEF upTo
    <3> QED BY <1>6, <3>1
  <2>2. ASSUME NEW k \in Nat, k \in Reached PROVE k + 1 \in Reached
    <3> HIDE DEF upTo
    <3> SUFFICES ASSUME k + 1 <= n PROVE pushed[k + 1] = upTo(k + 1)
      OBVIOUS
    <3>1. k + 1 \in 1..n /\ (k + 1) - 1 = k /\ k <= n
      BY <1>2
    <3>2. pushed[k] = upTo(k)
      BY <2>2, <3>1
    <3>3. pushed[k + 1] = Append(pushed[(k + 1) - 1], item(k + 1))
      BY <1>6, <3>1
    <3>4. upTo(k + 1) = Append(upTo((k + 1) - 1), item(k + 1))
      BY <1>3, <3>1
    <3> QED BY <3>1, <3>2, <3>3, <3>4
  <2> HIDE DEF Reached
  <2> QED BY <1>2, <2>1, <2>2, NatSet
<1>8. pushed[n] = upTo(n)
  BY <1>2, <1>7
<1> QED BY <1>1, <1>8 DEF n, item

\* What a parameter of even length makes of the stack and of the route.
Converted(raw) == [i \in 1..(Len(raw) \div 2) |-> LLtoUTM(raw[2 * i - 1], raw[2 * i])]

LEMMA StackIsRoute ==
    ASSUME NEW raw \in Seq(Int)
    PROVE  LET stack == PopulateWaypointStack(ParseWaypoints(raw))
           IN  /\ stack \in Seq(Point)
               /\ Converted(raw) \in Seq(Point)
               /\ Reverse(stack) = Converted(raw)
<1> DEFINE n == Len(raw) \div 2
           list == ParseWaypoints(raw)
           stack == PopulateWaypointStack(list)
           utm(i) == LLtoUTM(raw[2 * i - 1], raw[2 * i])
<1>1. n \in Nat /\ 2 * n <= Len(raw) /\ Len(raw) \in Nat
  <2>1. Len(raw) \in Nat
    OBVIOUS
  <2> QED BY <2>1
<1>2. ASSUME NEW i \in 1..n
      PROVE  /\ [lat |-> raw[2 * i - 1], lon |-> raw[2 * i]] \in LatLon
             /\ utm(i) \in Point
  <2>1. 2 * i - 1 \in 1..Len(raw) /\ 2 * i \in 1..Len(raw)
    <3> HIDE DEF n
    <3> QED BY <1>1
  <2>2. raw[2 * i - 1] \in Int /\ raw[2 * i] \in Int
    BY <2>1
  <2> QED BY <2>2, ManagerAssumption DEF LLtoUTM, Point, LatLon
<1>3. list = [i \in 1..n |-> [lat |-> raw[2 * i - 1], lon |-> raw[2 * i]]]
  BY DEF ParseWaypoints
<1> HIDE DEF n, list
<1>4. list \in Seq(LatLon) /\ Len(list) = n
  BY <1>1, <1>2, <1>3
<1>5. ASSUME NEW k \in 1..n PROVE n + 1 - k \in 1..n /\ (n + 1) - (n + 1 - k) = k
  BY <1>1
<1>6. ASSUME NEW i \in 1..n PROVE LLtoUTM(list[i].lat, list[i].lon) = utm(i)
  BY <1>3
<1>7. stack = [k \in 1..n |-> utm(n + 1 - k)]
  <2>1. stack = [k \in 1..n |-> LLtoUTM(list[n + 1 - k].lat, list[n + 1 - k].lon)]
    BY <1>4, PopulateIs
  <2> HIDE DEF utm, stack
  <2> QED BY <1>5, <1>6, <2>1
<1> HIDE DEF stack, utm
<1>8. stack \in Seq(Point) /\ Len(stack) = n
  <2>1. \A k \in 1..n : utm(n + 1 - k) \in Point
    BY <1>2, <1>5
  <2> HIDE DEF utm
  <2> QED BY <1>1, <1>7, <2>1
<1>9. Reverse(stack) = [i \in 1..n |-> stack[n + 1 - i]]
  BY <1>8, ReverseIs
<1>10. ASSUME NEW i \in 1..n PROVE stack[n + 1 - i] = utm(i)
  <2>1. n + 1 - i \in 1..n /\ (n + 1) - (n + 1 - i) = i
    BY <1>5
  <2> DEFINE k == n + 1 - i
  <2>2. stack[k] = utm(n + 1 - k)
    <3>1. k \in 1..n
      BY <2>1
    <3> HIDE DEF k
    <3> QED BY <1>7, <3>1
  <2>3. n + 1 - k = i
    BY <1>1
  <2> HIDE DEF k
  <2>4. stack[k] = utm(i)
    BY <2>2, <2>3
  <2> QED BY <2>4 DEF k
<1>11. Reverse(stack) = [i \in 1..n |-> utm(i)]
  BY <1>9, <1>10
<1>12. Converted(raw) = [i \in 1..n |-> utm(i)]
  BY DEF Converted, n, utm
<1>13. Converted(raw) \in Seq(Point)
  <2>1. \A i \in 1..n : utm(i) \in Point
    BY <1>2
  <2> HIDE DEF utm
  <2> QED BY <1>1, <1>12, <2>1
<1> QED BY <1>8, <1>11, <1>12, <1>13 DEF stack, list

\* The top of a stack and the stack without it.
LEMMA StackFacts ==
    ASSUME NEW S, NEW s \in Seq(S), s # <<>>
    PROVE  /\ Last(s) \in S /\ Front(s) \in Seq(S)
           /\ Reverse(s) \in Seq(S) /\ Reverse(s) # <<>>
           /\ Head(Reverse(s)) = Last(s) /\ Tail(Reverse(s)) = Reverse(Front(s))
<1> DEFINE n == Len(s)
           f == Front(s)
           r == Reverse(s)
<1>1. n \in Nat /\ n >= 1 /\ Last(s) = s[n] /\ s[n] \in S
  BY DEF Last
<1>2. /\ f \in Seq(S) /\ Len(f) = n - 1 /\ \A i \in 1..n - 1 : f[i] = s[i]
  <2>1. f = SubSeq(s, 1, n - 1)
    BY DEF Front
  <2>2. 1 \in 1..n + 1 /\ n - 1 \in 1 - 1..n
    BY <1>1
  <2>3. /\ SubSeq(s, 1, n - 1) \in Seq(S)
        /\ Len(SubSeq(s, 1, n - 1)) = IF 1 <= n - 1 THEN n - 1 - 1 + 1 ELSE 0
        /\ \A i \in 1..n - 1 - 1 + 1 : SubSeq(s, 1, n - 1)[i] = s[1 + i - 1]
    BY <2>2, SubSeqProperties
  <2>4. /\ n - 1 - 1 + 1 = n - 1 /\ \A i \in 1..n - 1 : 1 + i - 1 = i
        /\ (IF 1 <= n - 1 THEN n - 1 - 1 + 1 ELSE 0) = n - 1
    <3>1. n \in Nat /\ n >= 1
      BY <1>1
    <3> HIDE DEF n
    <3> QED BY <3>1
  <2> HIDE DEF f, n
  <2> QED BY <2>1, <2>3, <2>4
<1>3. r \in Seq(S) /\ Len(r) = n /\ r = [i \in 1..n |-> s[n + 1 - i]]
  BY ReverseIs
<1> HIDE DEF f
<1>4. Reverse(f) = [i \in 1..n - 1 |-> f[n - i]]
  <2>1. Reverse(f) = [i \in 1..Len(f) |-> f[Len(f) + 1 - i]]
    BY <1>2, ReverseIs
  <2>2. \A i \in 1..n - 1 : (n - 1) + 1 - i = n - i
    BY <1>1
  <2> HIDE DEF n
  <2> QED BY <1>2, <2>1, <2>2
<1> HIDE DEF n, r
<1>5. r # <<>> /\ Head(r) = r[1] /\ r[1] = s[n]
  <2>1. r[1] = s[n]
    BY <1>1, <1>3
  <2> QED BY <1>1, <1>3, <2>1
<1>6. Tail(r) = Reverse(f)
  <2> DEFINE t == Tail(r)
  <2>1. t \in Seq(S) /\ Len(t) = n - 1 /\ \A i \in 1..n - 1 : t[i] = r[i + 1]
    <3>1. r \in Seq(S) /\ r # <<>> /\ Len(r) = n
      BY <1>3, <1>5
    <3>2. t \in Seq(S) /\ Len(t) = Len(r) - 1 /\ \A i \in 1..Len(r) - 1 : t[i] = r[i + 1]
      BY <3>1, HeadTailProperties
    <3> QED BY <3>1, <3>2
  <2>2. ASSUME NEW i \in 1..n - 1 PROVE r[i + 1] = f[n - i]
    <3>1. i + 1 \in 1..n /\ n + 1 - (i + 1) = n - i /\ n - i \in 1..n - 1
      BY <1>1
    <3>2. r[i + 1] = s[n - i]
      BY <1>3, <3>1
    <3> QED BY <1>2, <3>1, <3>2
  <2>3. t = [i \in 1..n - 1 |-> t[i]]
    <3> HIDE DEF t
    <3> QED BY <2>1, SeqIsItems
  <2> HIDE DEF t
  <2>4. t = [i \in 1..n - 1 |-> f[n - i]]
    BY <2>1, <2>2, <2>3
  <2> QED BY <1>4, <2>4 DEF t
<1> QED BY <1>1, <1>2, <1>3, <1>5, <1>6 DEF n, f, r

-----------------------------------------------------------------------------
\* The constructor leaves the route on the stack, its first waypoint on top.
LEMMA InitStack ==
    ASSUME ManagerInit
    PROVE  /\ ok \in BOOLEAN /\ waypoint_stack \in Seq(Point) /\ route \in Seq(Point)
           /\ Reverse(waypoint_stack) = route
<1>1. PICK raw \in RawLists :
        IF Len(raw) % 2 = 0
        THEN /\ ok = TRUE
             /\ waypoint_stack = PopulateWaypointStack(ParseWaypoints(raw))
             /\ route = Converted(raw)
        ELSE ok = FALSE /\ route = <<>> /\ waypoint_stack = <<>>
  BY DEF ManagerInit, Converted
<1>2. CASE Len(raw) % 2 = 0
  <2>1. raw \in Seq(Int)
    BY ManagerAssumption
  <2>2. /\ ok = TRUE /\ waypoint_stack = PopulateWaypointStack(ParseWaypoints(raw))
        /\ route = Converted(raw)
    BY <1>1, <1>2, Zenon
  <2> QED BY <2>1, <2>2, StackIsRoute
<1>3. CASE ~(Len(raw) % 2 = 0)
  <2>1. ok = FALSE /\ route = <<>> /\ waypoint_stack = <<>>
    BY <1>1, <1>3, Zenon
  <2>2. <<>> \in Seq(Point) /\ Reverse(<<>>) = <<>>
    <3>1. <<>> \in Seq(Point) /\ Len(<<>>) = 0
      OBVIOUS
    <3>2. Reverse(<<>>) \in Seq(Point) /\ Len(Reverse(<<>>)) = 0
      BY <3>1, ReverseIs
    <3> QED BY <3>1, <3>2
  <2> QED BY <2>1, <2>2, Zenon
<1> QED BY <1>2, <1>3

LEMMA InitType == Init => TypeOK
<1> SUFFICES ASSUME Init PROVE TypeOK
  OBVIOUS
<1>1. ok \in BOOLEAN /\ waypoint_stack \in Seq(Point) /\ route \in Seq(Point)
  BY InitStack DEF Init
<1>2. pos \in Point /\ touched \subseteq Point
  BY <1>1, GridAssumption DEF Init, NearPoints
<1> QED
  BY <1>1, <1>2, ManagerAssumption DEF Init, ManagerInit, TypeOK, ManagerTypeOK

\* What a tick of the manager does to its own variables.
LEMMA CallBackType ==
    ASSUME TypeOK, Manager
    PROVE  /\ TypeOK'
           /\ Head(tf) \in Seq(Point)
           /\ VisitNext => Last(waypoint_stack) \in Point
<1>1. tf \in Seq(Seq(Point)) /\ tf # <<>> /\ Len(tf) <= QueueSize /\ tf' = Tail(tf)
  BY DEF TypeOK, ManagerTypeOK, Manager, TfCallBack
<1>2. Head(tf) \in Seq(Point) /\ tf' \in Seq(Seq(Point)) /\ Len(tf') <= QueueSize
  <2> DEFINE S == Seq(Point)
  <2> HIDE DEF S
  <2>1. Len(tf) \in Nat /\ QueueSize \in Nat
    BY <1>1, ManagerAssumption DEF S
  <2> QED BY <1>1, <2>1, HandleFacts DEF S
<1>3. VisitNext => Last(waypoint_stack) \in Point
  BY StackFacts DEF VisitNext, TypeOK, ManagerTypeOK
<1>4. /\ ok' \in BOOLEAN /\ waypoint_stack' \in Seq(Point) /\ visited' \in Seq(Point)
      /\ current' \in Seq(Point) /\ Len(current') <= QueueSize
  <2>1. /\ ok \in BOOLEAN /\ waypoint_stack \in Seq(Point) /\ visited \in Seq(Point)
        /\ current \in Seq(Point) /\ Len(current) <= QueueSize
    BY DEF TypeOK, ManagerTypeOK
  <2>2. CASE AllVisited
    BY <2>1, <2>2, Zenon DEF AllVisited
  <2>3. CASE VisitNext
    <3> DEFINE top == Last(waypoint_stack)
    <3>1. top \in Point /\ Front(waypoint_stack) \in Seq(Point)
      BY <2>1, <2>3, StackFacts DEF VisitNext
    <3>2. Append(visited, top) \in Seq(Point)
      BY <2>1, <3>1
    <3>3. \/ waypoint_stack' = Front(waypoint_stack) /\ visited' = Append(visited, top)
          \/ UNCHANGED <<waypoint_stack, visited>>
      BY <2>3 DEF VisitNext, Pop
    <3>4. current' = Deliver(current, top, QueueSize) /\ ok' = ok
      BY <2>3 DEF VisitNext, Publish
    <3>5. current' \in Seq(Point) /\ Len(current') <= QueueSize
      BY <2>1, <3>1, <3>4, DeliverFacts, ManagerAssumption
    <3>6. waypoint_stack' \in Seq(Point) /\ visited' \in Seq(Point)
      BY <2>1, <3>1, <3>2, <3>3
    <3> QED BY <2>1, <3>4, <3>5, <3>6
  <2> QED BY <2>2, <2>3 DEF Manager, TfCallBack
<1>5. TypeOK'
  <2>1. UNCHANGED <<route, pos, located, alive, goal, touched>>
    BY DEF Manager, TfCallBack
  <2> QED BY <1>2, <1>4, <2>1 DEF TypeOK, ManagerTypeOK
<1> QED BY <1>2, <1>3, <1>5

LEMMA TypeStep == TypeOK /\ [Next]_vars => TypeOK'
<1> SUFFICES ASSUME TypeOK, [Next]_vars PROVE TypeOK'
  OBVIOUS
<1>1. CASE Manager
  BY <1>1, CallBackType
<1>2. CASE WaypointCallback
  <2>1. /\ Head(current) \in Point /\ current' \in Seq(Point)
        /\ Len(current') <= QueueSize
    <3>1. current \in Seq(Point) /\ current # <<>> /\ Len(current) <= QueueSize
      BY <1>2 DEF TypeOK, ManagerTypeOK, WaypointCallback
    <3>2. Len(current) \in Nat /\ QueueSize \in Nat
      BY <3>1, ManagerAssumption
    <3>3. current' = Tail(current)
      BY <1>2 DEF WaypointCallback
    <3> QED BY <3>1, <3>2, <3>3, HandleFacts
  <2>2. goal' \in Seq(Point) /\ Len(goal') <= 1
    <3>1. goal' \in {<<Head(current)>>, <<>>, goal}
      BY <1>2 DEF WaypointCallback
    <3>2. <<Head(current)>> \in Seq(Point) /\ Len(<<Head(current)>>) = 1
      BY <2>1
    <3>3. goal \in Seq(Point) /\ Len(goal) <= 1
      BY DEF TypeOK
    <3>4. <<>> \in Seq(Point) /\ Len(<<>>) <= 1
      OBVIOUS
    <3>5. CASE goal' = <<Head(current)>>
      BY <3>2, <3>5
    <3>6. CASE goal' = <<>>
      BY <3>4, <3>6
    <3>7. CASE goal' = goal
      BY <3>3, <3>7
    <3> QED BY <3>1, <3>5, <3>6, <3>7, Zenon
  <2>3. alive' \in BOOLEAN
    BY <1>2, Zenon DEF WaypointCallback, TypeOK
  <2>4. UNCHANGED <<ok, waypoint_stack, tf, route, visited, pos, located, touched>>
    BY <1>2 DEF WaypointCallback
  <2> QED BY <2>1, <2>2, <2>3, <2>4 DEF TypeOK, ManagerTypeOK
<1>3. ASSUME NEW q \in Seq(Point), tf' = Deliver(tf, q, QueueSize),
             UNCHANGED <<ok, waypoint_stack, current, route, visited,
                         pos, located, alive, goal, touched>>
      PROVE  TypeOK'
  <2> DEFINE S == Seq(Point)
  <2>1. tf \in Seq(S) /\ Len(tf) <= QueueSize
    BY DEF TypeOK, ManagerTypeOK
  <2>2. tf' \in Seq(S) /\ Len(tf') <= QueueSize
    <3>1. q \in S
      OBVIOUS
    <3> HIDE DEF S
    <3> QED BY <1>3, <2>1, <3>1, DeliverFacts, ManagerAssumption
  <2> QED BY <1>3, <2>2 DEF TypeOK, ManagerTypeOK
<1>4. CASE Localise
  <2>1. <<pos>> \in Seq(Point)
    BY DEF TypeOK
  <2> QED BY <1>3, <1>4, <2>1 DEF Localise
<1>5. CASE OtherTransform
  <2>1. <<>> \in Seq(Point)
    OBVIOUS
  <2> QED BY <1>3, <1>5, <2>1 DEF OtherTransform
<1>6. CASE LocalisationChanges
  <2>1. located' \in BOOLEAN
    BY <1>6, Zenon DEF LocalisationChanges
  <2> QED BY <1>6, <2>1
      DEF LocalisationChanges, managerVars, TypeOK, ManagerTypeOK
<1>7. CASE Move
  <2>2. pos' \in Point
    BY <1>7, GridAssumption DEF Move
  <2>3. touched' \subseteq Point
    BY <1>7 DEF Move, TypeOK, ManagerTypeOK, NearPoints
  <2>4. UNCHANGED <<managerVars, located, alive, goal>>
    BY <1>7 DEF Move
  <2> QED BY <2>2, <2>3, <2>4 DEF managerVars, TypeOK, ManagerTypeOK
<1>8. CASE UNCHANGED vars
  BY <1>8 DEF vars, managerVars, TypeOK, ManagerTypeOK
<1> QED
  BY <1>1, <1>2, <1>4, <1>5, <1>6, <1>7, <1>8 DEF Next

-----------------------------------------------------------------------------
\* The messages on /tf report only places whose waypoints count as touched.
Heard == {q \in Seq(Point) : q # <<>> => NearPoints(q[1]) \subseteq touched}
HeardIsTrue == NearPoints(pos) \subseteq touched /\ tf \in Seq(Heard)

\* The waypoints GpsDecision may know of: the current one and those ticked off.
Due == {w \in Point : \/ waypoint_stack # <<>> /\ w = Last(waypoint_stack)
                      \/ \E j \in DOMAIN visited : visited[j] = w}
OnlyDue == current \in Seq(Due) /\ goal \in Seq(Due)

IInv == TypeOK /\ InOrder /\ TickedOnlyIfTouched /\ HeardIsTrue /\ OnlyDue

LEMMA SeqGrows ==
    ASSUME NEW A, NEW B, A \subseteq B, NEW q \in Seq(A)
    PROVE  q \in Seq(B)
OBVIOUS

LEMMA InitInv == Init => IInv
<1> SUFFICES ASSUME Init PROVE IInv
  OBVIOUS
<1>1. TypeOK
  BY InitType
<1>2. InOrder
  <2>1. Reverse(waypoint_stack) = route /\ route \in Seq(Point) /\ visited = <<>>
    BY InitStack DEF Init, ManagerInit
  <2> QED BY <2>1 DEF InOrder
<1>3. TickedOnlyIfTouched
  BY DEF Init, ManagerInit, TickedOnlyIfTouched
<1>4. HeardIsTrue
  BY DEF Init, ManagerInit, HeardIsTrue
<1>5. OnlyDue
  BY DEF Init, ManagerInit, OnlyDue
<1> QED BY <1>1, <1>2, <1>3, <1>4, <1>5 DEF IInv

\* Popping a stack onto the end of a sequence keeps their concatenation.
LEMMA PopOntoEnd ==
    ASSUME NEW S, NEW a \in Seq(S), NEW b \in Seq(S), b # <<>>
    PROVE  /\ Append(a, Head(b)) \o Tail(b) = a \o b
           /\ (a \o b)[Len(a) + 1] = Head(b)
           /\ Len(a) + 1 \in DOMAIN (a \o b)
<1>1. /\ Len(a) \in Nat /\ Len(b) \in Nat /\ Len(b) >= 1
      /\ Head(b) = b[1] /\ Head(b) \in S /\ Tail(b) \in Seq(S)
  OBVIOUS
<1>2. <<Head(b)>> \in Seq(S)
  BY <1>1
<1>3. Append(a, Head(b)) = a \o <<Head(b)>>
  BY <1>1, AppendIsConcat
<1>4. <<Head(b)>> \o Tail(b) = b
  BY <1>1
<1>5. (a \o <<Head(b)>>) \o Tail(b) = a \o (<<Head(b)>> \o Tail(b))
  BY <1>1, <1>2, ConcatAssociative
<1>6. (a \o b)[Len(a) + 1] = Head(b) /\ Len(a) + 1 \in DOMAIN (a \o b)
  BY <1>1, ConcatProperties
<1> QED BY <1>3, <1>4, <1>5, <1>6

-----------------------------------------------------------------------------
LEMMA VisitStep == IInv /\ TypeOK' /\ Manager /\ VisitNext => IInv'
<1> SUFFICES ASSUME IInv, TypeOK', Manager, VisitNext PROVE IInv'
  OBVIOUS
<1> DEFINE top == Last(waypoint_stack)
           left == Reverse(waypoint_stack)
<1>1. /\ waypoint_stack \in Seq(Point) /\ waypoint_stack # <<>>
      /\ route \in Seq(Point) /\ visited \in Seq(Point) /\ top \in Point
  BY CallBackType DEF IInv, TypeOK, ManagerTypeOK, VisitNext
<1>2. /\ tf' = Tail(tf) /\ tf # <<>>
      /\ UNCHANGED <<route, pos, located, alive, goal, touched>>
  BY DEF Manager, TfCallBack
<1>3. current' = Deliver(current, top, QueueSize)
  BY DEF VisitNext, Publish
<1>4. \/ UNCHANGED <<waypoint_stack, visited>>
      \/ /\ waypoint_stack' = Front(waypoint_stack) /\ visited' = Append(visited, top)
         /\ Head(tf) # <<>> /\ Near(Head(tf)[1], top)
  BY DEF VisitNext, Pop, AtGoal
<1>5. tf \in Seq(Heard) /\ Head(tf) \in Heard /\ tf' \in Seq(Heard)
  BY <1>2, HandleFacts DEF IInv, HeardIsTrue
<1>6. /\ Append(visited, top) \o Reverse(Front(waypoint_stack)) = route
      /\ top \in {route[i] : i \in DOMAIN route}
  <2>1. /\ left \in Seq(Point) /\ left # <<>> /\ visited \o left = route
        /\ Head(left) = top /\ Tail(left) = Reverse(Front(waypoint_stack))
    BY <1>1, StackFacts DEF IInv, InOrder
  <2> HIDE DEF left, top
  <2> QED BY <1>1, <2>1, PopOntoEnd
<1>7. InOrder'
  <2>1. CASE UNCHANGED <<waypoint_stack, visited>>
    BY <1>2, <2>1 DEF IInv, InOrder
  <2>2. CASE waypoint_stack' = Front(waypoint_stack) /\ visited' = Append(visited, top)
    BY <1>2, <1>6, <2>2 DEF InOrder
  <2> QED BY <1>4, <2>1, <2>2
<1>8. TickedOnlyIfTouched'
  <2>1. CASE UNCHANGED <<waypoint_stack, visited>>
    BY <1>2, <2>1 DEF IInv, TickedOnlyIfTouched
  <2>2. CASE /\ visited' = Append(visited, top)
             /\ Head(tf) # <<>> /\ Near(Head(tf)[1], top)
    <3>1. top \in touched
      BY <1>5, <1>6, <2>2 DEF Heard, NearPoints
    <3>2. ASSUME NEW i \in DOMAIN visited' PROVE visited'[i] \in touched
      <4>1. i \in 1..Len(visited) + 1
        BY <1>1, <2>2, AppendProperties
      <4>2. CASE i = Len(visited) + 1
        BY <1>1, <2>2, <3>1, <4>2, AppendProperties
      <4>3. CASE i \in 1..Len(visited)
        BY <1>1, <2>2, <4>3, AppendProperties DEF IInv, TickedOnlyIfTouched
      <4> QED BY <1>1, <4>1, <4>2, <4>3
    <3> QED BY <1>2, <3>2 DEF TickedOnlyIfTouched
  <2> QED BY <1>4, <2>1, <2>2
<1>9. HeardIsTrue'
  BY <1>2, <1>5 DEF IInv, HeardIsTrue, Heard, NearPoints
<1>10. top \in Due /\ Due \subseteq Due'
  <2>1. top \in Due
    BY <1>1 DEF Due
  <2>2. CASE UNCHANGED <<waypoint_stack, visited>>
    BY <2>1, <2>2 DEF Due
  <2>3. CASE visited' = Append(visited, top)
    <3>1. ASSUME NEW j \in DOMAIN visited
          PROVE  j \in DOMAIN visited' /\ visited'[j] = visited[j]
      BY <1>1, <2>3, AppendProperties
    <3>2. Len(visited) + 1 \in DOMAIN visited' /\ visited'[Len(visited) + 1] = top
      BY <1>1, <2>3, AppendProperties
    <3>3. ASSUME NEW w \in Due PROVE w \in Due'
      <4>1. w \in Point /\ (w = top \/ \E j \in DOMAIN visited : visited[j] = w)
        BY DEF Due
      <4>2. \E j \in DOMAIN visited' : visited'[j] = w
        BY <3>1, <3>2, <4>1
      <4> QED BY <4>1, <4>2 DEF Due
    <3> QED BY <2>1, <3>3
  <2> QED BY <1>4, <2>1, <2>2, <2>3
<1>11. OnlyDue'
  <2> DEFINE D == Due
             E == Due'
  <2>1. /\ current \in Seq(D) /\ Len(current) <= QueueSize /\ goal \in Seq(D)
        /\ top \in D /\ D \subseteq E
    BY <1>10 DEF IInv, OnlyDue, TypeOK, ManagerTypeOK
  <2> HIDE DEF D, E
  <2>2. current' \in Seq(D)
    BY <1>3, <2>1, DeliverFacts, ManagerAssumption
  <2>3. current' \in Seq(E) /\ goal \in Seq(E)
    BY <2>1, <2>2, SeqGrows
  <2> QED BY <1>2, <2>3 DEF OnlyDue, E
<1> QED BY <1>7, <1>8, <1>9, <1>11 DEF IInv

LEMMA StepInv == IInv /\ [Next]_vars => IInv'
<1> SUFFICES ASSUME IInv, [Next]_vars PROVE IInv'
  OBVIOUS
<1>0. TypeOK'
  BY TypeStep DEF IInv
<1>1. ASSUME UNCHANGED <<waypoint_stack, visited, current, goal>> PROVE OnlyDue'
  BY <1>1 DEF IInv, OnlyDue, Due
<1>2. ASSUME UNCHANGED <<pos, tf, route, touched>> PROVE HeardIsTrue'
  BY <1>2 DEF IInv, HeardIsTrue, Heard, NearPoints
<1>3. ASSUME UNCHANGED <<waypoint_stack, visited, route>> PROVE InOrder'
  BY <1>3 DEF IInv, InOrder
<1>4. ASSUME UNCHANGED visited, touched \subseteq touched' PROVE TickedOnlyIfTouched'
  BY <1>4 DEF IInv, TickedOnlyIfTouched
<1>5. ASSUME NEW q \in Heard, tf' = Deliver(tf, q, QueueSize),
             UNCHANGED <<ok, waypoint_stack, current, route, visited,
                         pos, located, alive, goal, touched>>
      PROVE  IInv'
  <2> DEFINE H == Heard
  <2>1. tf \in Seq(H) /\ Len(tf) <= QueueSize /\ q \in H
    BY DEF IInv, HeardIsTrue, TypeOK, ManagerTypeOK
  <2>2. tf' \in Seq(H)
    <3> HIDE DEF H
    <3> QED BY <1>5, <2>1, DeliverFacts, ManagerAssumption
  <2>3. H' = H
    BY <1>5 DEF Heard, NearPoints
  <2>4. HeardIsTrue'
    BY <1>5, <2>2, <2>3 DEF IInv, HeardIsTrue, NearPoints
  <2> QED BY <1>0, <1>1, <1>3, <1>4, <1>5, <2>4 DEF IInv
<1>6. CASE Manager
  <2>1. CASE VisitNext
    BY <1>0, <1>6, <2>1, VisitStep
  <2>2. CASE AllVisited
    <3>1. /\ tf' = Tail(tf) /\ tf # <<>>
          /\ UNCHANGED <<waypoint_stack, current, visited, route,
                         pos, goal, touched>>
      BY <1>6, <2>2 DEF AllVisited, Manager, TfCallBack
    <3>2. tf' \in Seq(Heard)
      BY <3>1, HandleFacts DEF IInv, HeardIsTrue
    <3>3. HeardIsTrue'
      BY <3>1, <3>2 DEF IInv, HeardIsTrue, Heard, NearPoints
    <3> QED BY <1>0, <1>1, <1>3, <1>4, <3>1, <3>3 DEF IInv
  <2> QED BY <1>6, <2>1, <2>2 DEF Manager, TfCallBack
<1>7. CASE WaypointCallback
  <2>1. UNCHANGED <<waypoint_stack, tf, route, visited, pos, touched>>
    BY <1>7 DEF WaypointCallback
  <2> DEFINE D == Due
  <2>2. /\ current \in Seq(D) /\ current # <<>> /\ goal \in Seq(D)
        /\ current' = Tail(current) /\ goal' \in {<<Head(current)>>, <<>>, goal}
    BY <1>7 DEF IInv, OnlyDue, WaypointCallback
  <2>3. current' \in Seq(D) /\ goal' \in Seq(D)
    <3> HIDE DEF D
    <3>1. Head(current) \in D /\ current' \in Seq(D)
      BY <2>2, HandleFacts
    <3>2. <<Head(current)>> \in Seq(D) /\ <<>> \in Seq(D)
      BY <3>1
    <3>3. goal' = <<Head(current)>> \/ goal' = <<>> \/ goal' = goal
      BY <2>2
    <3> QED BY <2>2, <3>1, <3>2, <3>3, Zenon
  <2>4. D' = D
    BY <2>1 DEF Due
  <2>5. OnlyDue'
    BY <2>3, <2>4 DEF OnlyDue
  <2> QED BY <1>0, <1>2, <1>3, <1>4, <2>1, <2>5 DEF IInv
<1>8. CASE Localise
  <2>1. <<pos>> \in Heard
    BY DEF IInv, HeardIsTrue, Heard, TypeOK
  <2> QED BY <1>5, <1>8, <2>1 DEF Localise
<1>9. CASE OtherTransform
  <2>1. <<>> \in Heard
    BY DEF Heard
  <2> QED BY <1>5, <1>9, <2>1 DEF OtherTransform
<1>10. CASE LocalisationChanges
  BY <1>0, <1>1, <1>2, <1>3, <1>4, <1>10 DEF IInv, LocalisationChanges, managerVars
<1>11. CASE Move
  <2>1. /\ UNCHANGED <<waypoint_stack, visited, current, goal, route, tf>>
        /\ touched' = touched \cup NearPoints(pos')
    BY <1>11 DEF Move, managerVars
  <2>2. NearPoints(pos)' = NearPoints(pos')
    BY <2>1 DEF NearPoints
  <2> DEFINE H == Heard
             K == Heard'
  <2>3. H \subseteq K
    BY <2>1 DEF Heard, NearPoints
  <2>4. tf \in Seq(H)
    BY DEF IInv, HeardIsTrue
  <2>5. tf' \in Seq(K)
    <3> HIDE DEF H, K
    <3> QED BY <2>1, <2>3, <2>4, SeqGrows
  <2>6. HeardIsTrue'
    BY <2>1, <2>2, <2>5 DEF HeardIsTrue
  <2> QED BY <1>0, <1>1, <1>3, <1>4, <2>1, <2>6 DEF IInv
<1>12. CASE UNCHANGED vars
  BY <1>0, <1>1, <1>2, <1>3, <1>4, <1>12 DEF IInv, vars, managerVars
<1> QED
  BY <1>6, <1>7, <1>8, <1>9, <1>10, <1>11, <1>12 DEF Next

-----------------------------------------------------------------------------
\* Waypoints are ticked off in the order of the parameter and each exactly once, for
\* every list of waypoints (populateWaypointStack, tfCallBack).
THEOREM OrderKept == Spec => []InOrder
<1>1. IInv => InOrder
  BY DEF IInv
<1> QED BY <1>1, InitInv, StepInv, PTL DEF Spec

\* A waypoint is ticked off only if the robot has been near it, however old the position
\* read from the queue of /tf (tfCallBack).
THEOREM NoneSkipped == Spec => []TickedOnlyIfTouched
<1>1. IInv => TickedOnlyIfTouched
  BY DEF IInv
<1> QED BY <1>1, InitInv, StepInv, PTL DEF Spec

\* GpsDecision neither steers to a waypoint nor has one waiting before its turn, for
\* every size of the queue of current_waypoint (tfCallBack, waypointCallback).
THEOREM TurnKept == Spec => []NeverAhead
<1>1. IInv => NeverAhead
  <2> SUFFICES ASSUME IInv, NEW i \in 1..Len(current) + Len(goal)
               PROVE  (current \o goal)[i] \in Due
    BY DEF NeverAhead, Due
  <2>1. current \in Seq(Due) /\ goal \in Seq(Due)
    BY DEF IInv, OnlyDue
  <2> DEFINE D == Due
  <2> HIDE DEF D
  <2>2. current \o goal \in Seq(D) /\ i \in 1..Len(current \o goal)
    BY <2>1, ConcatProperties DEF D
  <2>3. (current \o goal)[i] \in D
    BY <2>2, ElementOfSeq
  <2> QED BY <2>3 DEF D
<1> QED BY <1>1, InitInv, StepInv, PTL DEF Spec
===============================================================================
