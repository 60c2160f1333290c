-------------------------- MODULE PathFinder_proofs --------------------------
(***************************************************************************)
(* Proofs about the search for a path and about following it, for every    *)
(* set of maps, points and places and every resolution: the search gives   *)
(* up only when there is no path, the path it finds leads over free cells  *)
(* of the map as it was received, and the robot is turned along it.        *)
(***************************************************************************)
EXTENDS PathNavigation, Shared_proofs, FiniteSetTheorems, FunctionTheorems

\* Cells of a grid, and their data.

\* Grids with as much data as they have cells, and the datum of one.
Grid == [rows : Nat \ {0}, cols : Nat \ {0}, x : Int, y : Int, data : Seq(Int)]
Full(g) == g \in Grid /\ Len(g.data) = g.rows * g.cols
Datum(g, r, c) == g.data[r * g.cols + c + 1]
\* h has the cells of g, those from column first on one further.
Widens(h, g, first) ==
    /\ h.rows = g.rows /\ h.cols = g.cols + 1 /\ h.x = g.x /\ h.y = g.y
    /\ \A r \in 0..g.rows - 1, c \in 0..g.cols - 1 :
         Datum(h, r, IF c < first THEN c ELSE c + 1) = Datum(g, r, c)

\* What the products of row numbers and widths amount to.
LEMMA RowsApart ==
    ASSUME NEW r \in Nat, NEW k \in Nat, NEW w \in Nat, r < k
    PROVE  r * w \in Nat /\ k * w \in Nat /\ r * w + w <= k * w
<1>1. k - r - 1 \in Nat
  OBVIOUS
<1>2. \A n \in Nat : n * w >= 0
  OBVIOUS
<1>3. (k - r - 1) * w >= 0
  BY <1>1, <1>2
<1>4. (k - r - 1) * w = k * w - r * w - w
  OBVIOUS
<1>5. r * w \in Nat /\ k * w \in Nat
  BY <1>2
<1> QED BY <1>3, <1>4, <1>5

\* Where the datum of a cell is once k rows have been widened at column first.
Now(k, r, c, w, first) ==
    r * w + c + 1 + (IF r >= k THEN k ELSE IF c < first THEN r ELSE r + 1)
At(k, w, first) == first + k * (w + 1) + 1

\* Widening one more row moves it on if it comes after.
LEMMA NowMoves ==
    ASSUME NEW n \in Nat, NEW w \in Nat \ {0}, NEW first \in 0..w, NEW k \in 0..n - 1,
           NEW r \in 0..n - 1, NEW c \in 0..w - 1
    PROVE  /\ Now(k, r, c, w, first) \in 1..n * w + k
           /\ At(k, w, first) \in 1..n * w + k + 1
           /\ Now(k + 1, r, c, w, first) = IF Now(k, r, c, w, first) < At(k, w, first)
                                           THEN Now(k, r, c, w, first)
                                           ELSE Now(k, r, c, w, first) + 1
<1> DEFINE rw == r * w
           kw == k * w
           nw == n * w
<1>1. k * (w + 1) = kw + k
  OBVIOUS
<1>2. rw \in Nat /\ kw \in Nat /\ nw \in Nat /\ rw + w <= nw /\ kw + w <= nw
  BY RowsApart
<1>3. (r < k => rw + w <= kw) /\ (k < r => kw + w <= rw)
  BY RowsApart
<1>4. r = k => rw = kw
  OBVIOUS
<1>5. At(k, w, first) = first + (kw + k) + 1
  BY <1>1 DEF At
<1>6. Now(k, r, c, w, first) = rw + c + 1 + (IF r >= k THEN k ELSE IF c < first THEN r ELSE r + 1)
  BY DEF Now
<1>7. Now(k + 1, r, c, w, first) =
        rw + c + 1 + (IF r >= k + 1 THEN k + 1 ELSE IF c < first THEN r ELSE r + 1)
  BY DEF Now
<1> HIDE DEF rw, kw
<1>8. CASE r < k
  BY <1>2, <1>3, <1>5, <1>6, <1>7, <1>8
<1>9. CASE r = k
  BY <1>2, <1>4, <1>5, <1>6, <1>7, <1>9
<1>10. CASE r > k
  BY <1>2, <1>3, <1>5, <1>6, <1>7, <1>10
<1> QED BY <1>8, <1>9, <1>10

\* Row by row: the data once k rows have been widened.
Moved(d, s, k, n, w, first) ==
    /\ d \in Seq(Int) /\ Len(d) = n * w + k
    /\ \A r \in 0..n - 1, c \in 0..w - 1 : d[Now(k, r, c, w, first)] = s[r * w + c + 1]

LEMMA MovedOn ==
    ASSUME NEW n \in Nat, NEW w \in Nat \ {0}, NEW first \in 0..w, NEW k \in 0..n - 1,
           NEW s, NEW d, Moved(d, s, k, n, w, first)
    PROVE  Moved(InsertAt(d, At(k, w, first), GRID_FREE), s, k + 1, n, w, first)
<1> DEFINE p == At(k, w, first)
           e == InsertAt(d, p, GRID_FREE)
<1>1. n * w \in Nat /\ p \in 1..n * w + k + 1
  <2>1. n * w \in Nat
    BY RowsApart
  <2>2. 0 \in 0..n - 1 /\ 0 \in 0..w - 1
    OBVIOUS
  <2> QED BY <2>1, <2>2, NowMoves
<1>2. d \in Seq(Int) /\ Len(d) = n * w + k /\ GRID_FREE \in Int
  BY DEF Moved, GRID_FREE
<1> HIDE DEF p
<1>3. p \in 1..Len(d) + 1
  BY <1>1, <1>2
<1>4. /\ e \in Seq(Int) /\ Len(e) = Len(d) + 1
      /\ \A j \in 1..Len(d) : e[IF j < p THEN j ELSE j + 1] = d[j]
  BY <1>2, <1>3, InsertAtIs
<1> HIDE DEF e
<1>5. ASSUME NEW r \in 0..n - 1, NEW c \in 0..w - 1
      PROVE  e[Now(k + 1, r, c, w, first)] = s[r * w + c + 1]
  <2> DEFINE j == Now(k, r, c, w, first)
  <2>1. j \in 1..n * w + k /\ Now(k + 1, r, c, w, first) = IF j < p THEN j ELSE j + 1
    <3>1. Now(k, r, c, w, first) \in 1..n * w + k
      BY NowMoves
    <3>2. Now(k + 1, r, c, w, first) = IF Now(k, r, c, w, first) < At(k, w, first)
                                       THEN Now(k, r, c, w, first)
                                       ELSE Now(k, r, c, w, first) + 1
      BY NowMoves
    <3> QED BY <3>1, <3>2, Zenon DEF p
  <2>2. d[j] = s[r * w + c + 1]
    BY DEF Moved
  <2> HIDE DEF j
  <2>3. j \in 1..Len(d)
    BY <1>2, <2>1
  <2> QED BY <1>4, <2>1, <2>2, <2>3
<1>6. Len(e) = n * w + (k + 1)
  BY <1>1, <1>2, <1>4
<1> QED BY <1>4, <1>5, <1>6 DEF Moved, e, p

LEMMA InsertColumnIs ==
    ASSUME NEW g, Full(g), NEW first \in 0..g.cols
    PROVE  Full(InsertColumn(g, first)) /\ Widens(InsertColumn(g, first), g, first)
<1> DEFINE n == g.rows
           w == g.cols
           s == g.data
           Def(h) == [rows \in 0..n |-> IF rows = 0 THEN s
                        ELSE InsertAt(h[rows - 1], first + (rows - 1) * (w + 1) + 1, GRID_FREE)]
           data == CHOOSE h : h = Def(h)
           p(k) == At(k - 1, w, first)
           step == [e \in (1..n) \X Seq(Int) |->
                       IF p(e[1]) \in 1..Len(e[2]) + 1
                       THEN InsertAt(e[2], p(e[1]), GRID_FREE) ELSE e[2]]
<1>1. n \in Nat \ {0} /\ w \in Nat \ {0} /\ s \in Seq(Int) /\ Len(s) = n * w /\ first \in 0..w
      /\ g \in Grid
  BY DEF Full, Grid
<1>2. InsertColumn(g, first) = [g EXCEPT !.cols = w + 1, !.data = data[n]]
  BY DEF InsertColumn
<1> HIDE DEF n, w, s, data, Def
<1>3. step \in [(1..n) \X Seq(Int) -> Seq(Int)]
  <2> SUFFICES ASSUME NEW k \in 1..n, NEW d \in Seq(Int), p(k) \in 1..Len(d) + 1
               PROVE  InsertAt(d, p(k), GRID_FREE) \in Seq(Int)
    OBVIOUS
  <2>1. GRID_FREE \in Int
    BY DEF GRID_FREE
  <2> HIDE DEF p
  <2> QED BY <2>1, InsertAtIs
<1>4. \A k \in 1..n, d \in Seq(Int) :
         step[<<k, d>>] = IF p(k) \in 1..Len(d) + 1 THEN InsertAt(d, p(k), GRID_FREE) ELSE d
  OBVIOUS
<1> HIDE DEF step
<1>5. PICK f \in [0..n -> Seq(Int)] : Unrolls(f, n, s, step)
  BY <1>1, <1>3, Recursion
<1>6. f[0] = s /\ \A k \in 1..n : f[k] = step[<<k, f[k - 1]>>]
  BY <1>5 DEF Unrolls
<1> DEFINE T == {k \in Nat : k <= n => Moved(f[k], s, k, n, w, first)}
<1>7. 0 \in T
  <2>1. ASSUME NEW r \in 0..n - 1, NEW c \in 0..w - 1
        PROVE  f[0][Now(0, r, c, w, first)] = s[r * w + c + 1]
    <3>1. r \in Int /\ r >= 0 /\ r * w \in Int /\ c \in Int
      BY <1>1
    <3>2. Now(0, r, c, w, first) = r * w + c + 1
      BY <3>1 DEF Now
    <3> QED BY <1>6, <3>2
  <2>2. Len(s) = n * w + 0
    BY <1>1
  <2> QED BY <1>1, <1>6, <2>1, <2>2 DEF Moved
<1>8. ASSUME NEW k \in Nat, k \in T, k + 1 <= n
      PROVE  /\ f[k + 1] = InsertAt(f[k], At(k, w, first), GRID_FREE)
             /\ Moved(f[k + 1], s, k + 1, n, w, first)
  <2>1. k + 1 \in 1..n /\ (k + 1) - 1 = k /\ k \in 0..n - 1 /\ k \in 0..n
    BY <1>1, <1>8
  <2>2. Moved(f[k], s, k, n, w, first)
    BY <1>8, <2>1
  <2>3. f[k] \in Seq(Int) /\ Len(f[k]) = n * w + k
    BY <2>2 DEF Moved
  <2>4. At(k, w, first) \in 1..Len(f[k]) + 1
    <3>1. 0 \in 0..n - 1 /\ 0 \in 0..w - 1
      BY <1>1
    <3>2. At(k, w, first) \in 1..n * w + k + 1
      BY <1>1, <2>1, <3>1, NowMoves
    <3> QED BY <2>3, <3>2
  <2>5. f[k + 1] = step[<<k + 1, f[k]>>] /\ p(k + 1) = At(k, w, first)
    BY <1>6, <2>1
  <2> HIDE DEF p
  <2>6. f[k + 1] = InsertAt(f[k], At(k, w, first), GRID_FREE)
    BY <1>4, <2>1, <2>3, <2>4, <2>5
  <2> QED BY <1>1, <2>1, <2>2, <2>6, MovedOn
<1>9. Nat \subseteq T
  <2>1. ASSUME NEW k \in Nat, k \in T PROVE k + 1 \in T
    BY <1>8, <2>1
  <2> HIDE DEF T
  <2> QED BY <1>7, <2>1, NatSet
<1>10. f = Def(f)
  <2>1. ASSUME NEW k \in 0..n PROVE f[k] = Def(f)[k]
    <3>1. CASE k = 0
      BY <1>6, <3>1 DEF Def
    <3>2. CASE k # 0
      <4>1. k - 1 \in Nat /\ (k - 1) + 1 = k /\ (k - 1) + 1 <= n /\ k - 1 \in T
        BY <1>1, <1>9, <3>2
      <4> HIDE DEF T
      <4>2. f[k] = InsertAt(f[k - 1], At(k - 1, w, first), GRID_FREE)
        BY <1>8, <4>1
      <4>3. Def(f)[k] = InsertAt(f[k - 1], At(k - 1, w, first), GRID_FREE)
        BY <3>2 DEF Def, At
      <4> QED BY <4>2, <4>3
    <3> QED BY <3>1, <3>2
  <2>2. f = [k \in 0..n |-> f[k]] /\ Def(f) = [k \in 0..n |-> Def(f)[k]]
    BY DEF Def
  <2> QED BY <2>1, <2>2
<1>11. data = Def(data)
  BY <1>10, Zenon DEF data
<1>12. \A k \in 0..n : data[k] = IF k = 0 THEN s
           ELSE InsertAt(data[k - 1], At(k - 1, w, first), GRID_FREE)
  <2>1. ASSUME NEW h, h = Def(h), NEW k \in 0..n
        PROVE  h[k] = IF k = 0 THEN s ELSE InsertAt(h[k - 1], At(k - 1, w, first), GRID_FREE)
    <3>1. Def(h)[k] = IF k = 0 THEN s ELSE InsertAt(h[k - 1], At(k - 1, w, first), GRID_FREE)
      BY DEF Def, At
    <3> QED BY <2>1, <3>1
  <2> QED BY <1>11, <2>1
<1> DEFINE U == {k \in Nat : k <= n => Moved(data[k], s, k, n, w, first)}
<1>13. 0 \in U
  <2>1. data[0] = f[0]
    BY <1>1, <1>6, <1>12
  <2>2. Moved(f[0], s, 0, n, w, first)
    BY <1>7, <1>1
  <2> QED BY <2>1, <2>2
<1>14. ASSUME NEW k \in Nat, k \in U PROVE k + 1 \in U
  <2> SUFFICES ASSUME k + 1 <= n PROVE Moved(data[k + 1], s, k + 1, n, w, first)
    OBVIOUS
  <2>1. k + 1 \in 0..n /\ k + 1 # 0 /\ (k + 1) - 1 = k /\ k \in 0..n - 1
    BY <1>1
  <2>2. data[k + 1] = InsertAt(data[k], At(k, w, first), GRID_FREE)
    BY <1>12, <2>1
  <2>3. Moved(data[k], s, k, n, w, first)
    <3>1. k <= n
      BY <1>1, <2>1
    <3> QED BY <1>14, <3>1, Zenon
  <2> QED BY <1>1, <2>1, <2>2, <2>3, MovedOn
<1>15. Moved(data[n], s, n, n, w, first)
  <2>1. n \in U
    <3> HIDE DEF U
    <3> QED BY <1>1, <1>13, <1>14, NatSet
  <2> QED BY <1>1, <2>1
<1> DEFINE h == InsertColumn(g, first)
<1>16. /\ h.rows = n /\ h.cols = w + 1 /\ h.x = g.x /\ h.y = g.y /\ h.data = data[n]
       /\ h \in Grid
  <2>1. data[n] \in Seq(Int)
    BY <1>15 DEF Moved
  <2> DEFINE e == data[n]
             v == w + 1
  <2>2. h = [g EXCEPT !.cols = v, !.data = e]
    BY <1>2
  <2>3. g \in Grid /\ v \in Nat \ {0} /\ e \in Seq(Int) /\ n = g.rows
    BY <1>1, <2>1 DEF n
  <2> HIDE DEF e, v, h
  <2>4. /\ h.rows = n /\ h.cols = v /\ h.x = g.x /\ h.y = g.y /\ h.data = e
        /\ h \in Grid
    BY <2>2, <2>3 DEF Grid
  <2> QED BY <2>4 DEF v, e
<1> HIDE DEF h
<1>17. Full(h)
  <2>1. Len(data[n]) = n * w + n
    BY <1>15 DEF Moved
  <2>2. n * (w + 1) = n * w + n
    BY <1>1
  <2> QED BY <1>16, <2>1, <2>2 DEF Full
<1>18. ASSUME NEW r \in 0..n - 1, NEW c \in 0..w - 1
       PROVE  Datum(h, r, IF c < first THEN c ELSE c + 1) = Datum(g, r, c)
  <2> DEFINE rw == r * w
  <2>1. Now(n, r, c, w, first) = rw + c + 1 + (IF c < first THEN r ELSE r + 1)
    BY <1>1 DEF Now
  <2>2. r * (w + 1) = rw + r /\ rw \in Int /\ r \in Int /\ c \in Int
    BY <1>1
  <2>3. Datum(h, r, IF c < first THEN c ELSE c + 1)
          = data[n][(rw + r) + (IF c < first THEN c ELSE c + 1) + 1]
    BY <1>16, <2>2 DEF Datum
  <2> HIDE DEF rw
  <2>4. (rw + r) + (IF c < first THEN c ELSE c + 1) + 1 = Now(n, r, c, w, first)
    BY <2>1, <2>2
  <2>5. data[n][Now(n, r, c, w, first)] = s[r * w + c + 1]
    BY <1>15 DEF Moved
  <2> QED BY <2>3, <2>4, <2>5 DEF Datum, s, w
<1> QED BY <1>16, <1>17, <1>18 DEF Widens, h, n, w

LEMMA FreeRowIs ==
    ASSUME NEW g, Full(g)
    PROVE  FreeRow(g) \in Seq(Int) /\ Len(FreeRow(g)) = g.cols
<1>1. g.cols \in Nat
  BY DEF Full, Grid
<1> QED BY <1>1 DEF FreeRow, GRID_FREE

LEMMA SpaceUp ==
    ASSUME NEW g, Full(g)
    PROVE  LET h == AddSpaceUp(g)
           IN  /\ Full(h) /\ h.rows = g.rows + 1 /\ h.cols = g.cols /\ h.x = g.x /\ h.y = g.y
               /\ \A r \in 0..g.rows - 1, c \in 0..g.cols - 1 : Datum(h, r, c) = Datum(g, r, c)
<1> DEFINE f == FreeRow(g)
           d == g.data \o f
           n == g.rows + 1
           h == AddSpaceUp(g)
<1>1. g \in Grid /\ g.rows \in Nat \ {0} /\ g.cols \in Nat \ {0} /\ g.data \in Seq(Int)
      /\ Len(g.data) = g.rows * g.cols
  BY DEF Full, Grid
<1>2. f \in Seq(Int) /\ Len(f) = g.cols
  BY FreeRowIs
<1>3. h = [g EXCEPT !.data = d, !.rows = n]
  BY DEF AddSpaceUp
<1> HIDE DEF f
<1>4. /\ d \in Seq(Int) /\ Len(d) = g.rows * g.cols + g.cols
      /\ \A j \in 1..g.rows * g.cols : d[j] = g.data[j]
  <2>1. /\ d \in Seq(Int) /\ Len(d) = Len(g.data) + Len(f)
        /\ \A j \in 1..Len(g.data) + Len(f) :
             d[j] = IF j <= Len(g.data) THEN g.data[j] ELSE f[j - Len(g.data)]
    BY <1>1, <1>2, ConcatProperties
  <2> DEFINE m == g.rows * g.cols
  <2>2. m \in Nat
    BY <1>1
  <2> HIDE DEF m
  <2>3. Len(g.data) = m
    BY <1>1 DEF m
  <2> HIDE DEF d
  <2>4. \A j \in 1..m : d[j] = g.data[j]
    BY <1>1, <1>2, <2>1, <2>2, <2>3
  <2> QED BY <1>2, <2>1, <2>3, <2>4 DEF m
<1>5. n \in Nat \ {0}
  BY <1>1
<1> HIDE DEF d, n, h
<1>6. h \in Grid /\ h.rows = n /\ h.cols = g.cols /\ h.x = g.x /\ h.y = g.y /\ h.data = d
  BY <1>1, <1>3, <1>4, <1>5 DEF Grid
<1>7. Full(h)
  <2>1. n * g.cols = g.rows * g.cols + g.cols
    BY <1>1 DEF n
  <2> QED BY <1>4, <1>6, <2>1 DEF Full
<1>8. ASSUME NEW r \in 0..g.rows - 1, NEW c \in 0..g.cols - 1 PROVE Datum(h, r, c) = Datum(g, r, c)
  <2> DEFINE rw == r * g.cols
             m == g.rows * g.cols
  <2>1. rw \in Nat /\ m \in Nat /\ rw + g.cols <= m
    <3> DEFINE w == g.cols
               k == g.rows
    <3>1. w \in Nat /\ k \in Nat /\ r \in Nat /\ r < k
      BY <1>1
    <3> HIDE DEF w, k
    <3>2. r * w \in Nat /\ k * w \in Nat /\ r * w + w <= k * w
      BY <3>1, RowsApart
    <3> QED BY <3>2 DEF w, k
  <2> HIDE DEF rw, m
  <2>2. rw + c + 1 \in 1..m
    BY <1>1, <2>1
  <2> QED BY <1>4, <1>6, <2>2 DEF Datum, rw, m
<1> QED BY <1>6, <1>7, <1>8 DEF h, n

LEMMA SpaceDown ==
    ASSUME NEW g, Full(g)
    PROVE  LET h == AddSpaceDown(g)
           IN  /\ Full(h) /\ h.rows = g.rows + 1 /\ h.cols = g.cols /\ h.x = g.x /\ h.y = g.y
               /\ \A r \in 0..g.rows - 1, c \in 0..g.cols - 1 : Datum(h, r + 1, c) = Datum(g, r, c)
<1> DEFINE f == FreeRow(g)
           d == f \o g.data
           n == g.rows + 1
           h == AddSpaceDown(g)
<1>1. g \in Grid /\ g.rows \in Nat \ {0} /\ g.cols \in Nat \ {0} /\ g.data \in Seq(Int)
      /\ Len(g.data) = g.rows * g.cols
  BY DEF Full, Grid
<1>2. f \in Seq(Int) /\ Len(f) = g.cols
  BY FreeRowIs
<1>3. h = [g EXCEPT !.data = d, !.rows = n]
  BY DEF AddSpaceDown
<1> HIDE DEF f
<1>4. /\ d \in Seq(Int) /\ Len(d) = g.rows * g.cols + g.cols
      /\ \A j \in 1..g.rows * g.cols : d[j + g.cols] = g.data[j]
  <2>1. /\ d \in Seq(Int) /\ Len(d) = Len(f) + Len(g.data)
        /\ \A j \in 1..Len(f) + Len(g.data) :
             d[j] = IF j <= Len(f) THEN f[j] ELSE g.data[j - Len(f)]
    BY <1>1, <1>2, ConcatProperties
  <2> DEFINE m == g.rows * g.cols
             w == g.cols
  <2>2. m \in Nat /\ w \in Nat
    BY <1>1
  <2> HIDE DEF m, w
  <2>3. Len(g.data) = m /\ Len(f) = w
    BY <1>1, <1>2 DEF m, w
  <2> HIDE DEF d
  <2>4. ASSUME NEW j \in 1..m PROVE d[j + w] = g.data[j]
    <3>1. j + w \in 1..Len(f) + Len(g.data) /\ ~(j + w <= Len(f)) /\ (j + w) - Len(f) = j
      BY <2>2, <2>3
    <3> QED BY <2>1, <3>1
  <2>5. Len(d) = m + w
    BY <2>1, <2>2, <2>3
  <2> QED BY <2>1, <2>4, <2>5 DEF m, w
<1>5. n \in Nat \ {0}
  BY <1>1
<1> HIDE DEF d, n, h
<1>6. h \in Grid /\ h.rows = n /\ h.cols = g.cols /\ h.x = g.x /\ h.y = g.y /\ h.data = d
  BY <1>1, <1>3, <1>4, <1>5 DEF Grid
<1>7. Full(h)
  <2>1. n * g.cols = g.rows * g.cols + g.cols
    BY <1>1 DEF n
  <2> QED BY <1>4, <1>6, <2>1 DEF Full
<1>8. ASSUME NEW r \in 0..g.rows - 1, NEW c \in 0..g.cols - 1
      PROVE  Datum(h, r + 1, c) = Datum(g, r, c)
  <2> DEFINE rw == r * g.cols
             m == g.rows * g.cols
  <2>1. rw \in Nat /\ m \in Nat /\ rw + g.cols <= m
    <3> DEFINE w == g.cols
               k == g.rows
    <3>1. w \in Nat /\ k \in Nat /\ r \in Nat /\ r < k
      BY <1>1
    <3> HIDE DEF w, k
    <3>2. r * w \in Nat /\ k * w \in Nat /\ r * w + w <= k * w
      BY <3>1, RowsApart
    <3> QED BY <3>2 DEF w, k
  <2>2. (r + 1) * g.cols = rw + g.cols
    <3>1. r \in Int /\ g.cols \in Int
      BY <1>1
    <3> QED BY <3>1
  <2> HIDE DEF rw, m
  <2>3. rw + c + 1 \in 1..m /\ (rw + g.cols) + c + 1 = (rw + c + 1) + g.cols
    BY <1>1, <2>1
  <2>4. d[(rw + c + 1) + g.cols] = g.data[rw + c + 1]
    BY <1>4, <2>3 DEF m
  <2>5. Datum(h, r + 1, c) = d[(rw + g.cols) + c + 1]
    BY <1>6, <2>2 DEF Datum
  <2> QED BY <2>3, <2>4, <2>5 DEF Datum, rw
<1> QED BY <1>6, <1>7, <1>8 DEF h, n

-----------------------------------------------------------------------------
\* h is g, or it is g with cells around it, of one row and one column all round.
Margin(h, g) == IF h.rows = g.rows THEN 0 ELSE 1
Surrounds(h, g) ==
    /\ Full(h)
    /\ h.rows = g.rows + 2 * Margin(h, g) /\ h.cols = g.cols + 2 * Margin(h, g)
    /\ h.x = g.x - Resolution * Margin(h, g) /\ h.y = g.y - Resolution * Margin(h, g)
    /\ \A r \in 0..g.rows - 1, c \in 0..g.cols - 1 :
         Datum(h, r + Margin(h, g), c + Margin(h, g)) = Datum(g, r, c)

LEMMA AroundIs ==
    ASSUME NEW g, Full(g)
    PROVE  Surrounds(AddSpaceAroundGrid(g), g) /\ Margin(AddSpaceAroundGrid(g), g) = 1
<1> DEFINE h1 == AddSpaceLeft(g)
           h2 == AddSpaceRight(h1)
           h3 == AddSpaceUp(h2)
           h4 == AddSpaceDown(h3)
           h5 == UpdateOrigin(h4)
<1>1. g.rows \in Nat \ {0} /\ g.cols \in Nat \ {0} /\ g.x \in Int /\ g.y \in Int
      /\ Resolution \in Nat \ {0}
  BY PathAssumption DEF Full, Grid
<1>2. Full(h1) /\ Widens(h1, g, 0)
  BY <1>1, InsertColumnIs DEF AddSpaceLeft
<1> HIDE DEF h1
<1>3. Full(h2) /\ Widens(h2, h1, h1.cols)
  <2>1. h1.cols \in 0..h1.cols
    BY <1>2 DEF Full, Grid
  <2> QED BY <1>2, <2>1, InsertColumnIs DEF AddSpaceRight
<1> HIDE DEF h2
<1>4. /\ Full(h3) /\ h3.rows = h2.rows + 1 /\ h3.cols = h2.cols /\ h3.x = h2.x /\ h3.y = h2.y
      /\ \A r \in 0..h2.rows - 1, c \in 0..h2.cols - 1 : Datum(h3, r, c) = Datum(h2, r, c)
  BY <1>3, SpaceUp
<1> HIDE DEF h3
<1>5. /\ Full(h4) /\ h4.rows = h3.rows + 1 /\ h4.cols = h3.cols /\ h4.x = h3.x /\ h4.y = h3.y
      /\ \A r \in 0..h3.rows - 1, c \in 0..h3.cols - 1 : Datum(h4, r + 1, c) = Datum(h3, r, c)
  BY <1>4, SpaceDown
<1> HIDE DEF h4
<1>6. /\ h4.rows = g.rows + 2 /\ h4.cols = g.cols + 2 /\ h4.x = g.x /\ h4.y = g.y
      /\ h1.rows = g.rows /\ h1.cols = g.cols + 1 /\ h2.rows = g.rows /\ h2.cols = g.cols + 2
      /\ h3.rows = g.rows + 1 /\ h3.cols = g.cols + 2
  BY <1>1, <1>2, <1>3, <1>4, <1>5 DEF Widens
<1>7. ASSUME NEW r \in 0..g.rows - 1, NEW c \in 0..g.cols - 1
      PROVE  Datum(h4, r + 1, c + 1) = Datum(g, r, c)
  <2>1. Datum(h1, r, c + 1) = Datum(g, r, c)
    <3>1. ~(c < 0)
      BY <1>1
    <3> QED BY <1>2, <3>1 DEF Widens
  <2>2. Datum(h2, r, c + 1) = Datum(h1, r, c + 1)
    <3>1. r \in 0..h1.rows - 1 /\ c + 1 \in 0..h1.cols - 1 /\ c + 1 < h1.cols
      BY <1>1, <1>6
    <3> QED BY <1>3, <3>1 DEF Widens
  <2>3. Datum(h3, r, c + 1) = Datum(h2, r, c + 1)
    <3>1. r \in 0..h2.rows - 1 /\ c + 1 \in 0..h2.cols - 1
      BY <1>1, <1>6
    <3> QED BY <1>4, <3>1
  <2>4. Datum(h4, r + 1, c + 1) = Datum(h3, r, c + 1)
    <3>1. r \in 0..h3.rows - 1 /\ c + 1 \in 0..h3.cols - 1
      BY <1>1, <1>6
    <3> QED BY <1>5, <3>1
  <2> QED BY <2>1, <2>2, <2>3, <2>4
<1>8. /\ h5.rows = h4.rows /\ h5.cols = h4.cols /\ h5.data = h4.data /\ h5 \in Grid
      /\ h5.x = g.x - Resolution /\ h5.y = g.y - Resolution
  <2> DEFINE o == ConvertFromGridToMapPoint(h4, <<-1, -1>>)
             a == g.x - Resolution
             b == g.y - Resolution
  <2>1. o.x = a /\ o.y = b
    BY <1>1, <1>6 DEF ConvertFromGridToMapPoint
  <2>2. a \in Int /\ b \in Int /\ h4 \in Grid
    BY <1>1, <1>5 DEF Full
  <2>3. h5 = [h4 EXCEPT !.x = a, !.y = b]
    BY <2>1 DEF UpdateOrigin
  <2> HIDE DEF a, b, h5
  <2>4. /\ h5.rows = h4.rows /\ h5.cols = h4.cols /\ h5.data = h4.data /\ h5 \in Grid
        /\ h5.x = a /\ h5.y = b
    BY <2>2, <2>3 DEF Grid
  <2> QED BY <2>4 DEF a, b
<1> HIDE DEF h5
<1>9. Full(h5)
  BY <1>5, <1>8 DEF Full
<1>10. Margin(h5, g) = 1
  BY <1>1, <1>6, <1>8 DEF Margin
<1>11. Surrounds(h5, g)
  <2>1. ASSUME NEW r \in 0..g.rows - 1, NEW c \in 0..g.cols - 1
        PROVE  Datum(h5, r + 1, c + 1) = Datum(g, r, c)
    BY <1>7, <1>8 DEF Datum
  <2>2. /\ h5.rows = g.rows + 2 * 1 /\ h5.cols = g.cols + 2 * 1
        /\ h5.x = g.x - Resolution * 1 /\ h5.y = g.y - Resolution * 1
    BY <1>1, <1>6, <1>8
  <2> QED BY <1>9, <1>10, <2>1, <2>2 DEF Surrounds
<1>12. AddSpaceAroundGrid(g) = h5
  BY DEF AddSpaceAroundGrid, h5, h4, h3, h2, h1
<1> QED BY <1>10, <1>11, <1>12

\* What processGridAndGetStartAndGoalOnGrid() makes of a map.
LEMMA ProcessedGrid ==
    ASSUME NEW m \in Maps, NEW p \in Points
    PROVE  LET g == ProcessGrid(m, p)
           IN  /\ Full(m) /\ Surrounds(g, m)
               /\ Margin(g, m) = 0 => IsPointInsideGrid(m, ConvertFromMapToGridPoint(m, p)) /\ g = m
<1>1. Full(m)
  <2> DEFINE D == -1..100
  <2>1. /\ m \in [rows : Nat \ {0}, cols : Nat \ {0}, x : Int, y : Int, data : Seq(D)]
        /\ Len(m.data) = m.rows * m.cols
    BY PathAssumption
  <2>2. D \subseteq Int
    OBVIOUS
  <2> HIDE DEF D
  <2>3. m.data \in Seq(Int)
    <3>1. m.data \in Seq(D)
      BY <2>1
    <3> QED BY <2>2, <3>1, SeqMonotonic
  <2> QED BY <2>1, <2>3 DEF Full, Grid
<1>2. CASE IsPointInsideGrid(m, ConvertFromMapToGridPoint(m, p))
  <2>1. ProcessGrid(m, p) = m /\ Margin(m, m) = 0
    BY <1>2 DEF ProcessGrid, Margin
  <2>2. m.rows \in Int /\ m.cols \in Int /\ m.x \in Int /\ m.y \in Int /\ Resolution \in Int
    BY <1>1, PathAssumption DEF Full, Grid
  <2>3. Surrounds(m, m)
    BY <1>1, <2>1, <2>2 DEF Surrounds
  <2> QED BY <1>1, <1>2, <2>1, <2>3
<1>3. CASE ~IsPointInsideGrid(m, ConvertFromMapToGridPoint(m, p))
  <2>1. ProcessGrid(m, p) = AddSpaceAroundGrid(m)
    BY <1>3 DEF ProcessGrid
  <2> QED BY <1>1, <2>1, AroundIs
<1> QED BY <1>2, <1>3

-----------------------------------------------------------------------------

\* The cell of a coordinate inside the grid is the one it is in.
LEMMA CellOf ==
    ASSUME NEW n \in Nat
    PROVE  LET c == Lowered(Truncated(n))
           IN  c \in Nat /\ c * Resolution <= n /\ n < c * Resolution + Resolution
<1> DEFINE q == n \div Resolution
           z == Resolution * q
<1>1. Resolution \in Nat \ {0}
  BY PathAssumption
<1>2. q \in Int /\ z <= n /\ n < z + Resolution
  BY <1>1, DivFacts
<1>3. Truncated(n) = q
  BY DEF Truncated
<1> HIDE DEF q
<1>4. z = q * Resolution /\ z \in Int
  BY <1>1, <1>2
<1>5. q \in Nat
  <2> SUFFICES ASSUME q < 0 PROVE FALSE
    BY <1>2
  <2>1. -(q + 1) \in Nat
    BY <1>2
  <2>2. (-(q + 1)) * Resolution >= 0
    BY <1>1, <2>1
  <2>3. (-(q + 1)) * Resolution = -z - Resolution
    BY <1>1, <1>2, <1>4
  <2> QED BY <1>1, <1>2, <1>4, <2>2, <2>3
<1>6. Lowered(Truncated(n)) = q
  BY <1>3, <1>5 DEF Lowered
<1> QED BY <1>2, <1>4, <1>5, <1>6

LEMMA LowIsNegative ==
    ASSUME NEW n \in Int, n < 0
    PROVE  Lowered(Truncated(n)) \in Int /\ Lowered(Truncated(n)) <= 0
<1> DEFINE q == (-n) \div Resolution
           z == Resolution * q
<1>1. Resolution \in Nat \ {0} /\ -n \in Int /\ -n > 0
  BY PathAssumption
<1>2. q \in Int /\ -n < z + Resolution
  BY <1>1, DivFacts
<1>3. Truncated(n) = -q
  BY DEF Truncated
<1> HIDE DEF q
<1>4. q >= 0
  <2> SUFFICES ASSUME q < 0 PROVE FALSE
    BY <1>2
  <2>1. -(q + 1) \in Nat
    BY <1>2
  <2>2. (-(q + 1)) * Resolution >= 0
    BY <1>1, <2>1
  <2>3. (-(q + 1)) * Resolution = -z - Resolution /\ z \in Int
    BY <1>1, <1>2
  <2> QED BY <1>1, <1>2, <2>2, <2>3
<1> QED BY <1>2, <1>3, <1>4 DEF Lowered

\* Of the cells of a row, the one fitted is the nearest.
LEMMA FitNearest ==
    ASSUME NEW low \in Int, NEW size \in Nat \ {0}, NEW p \in Int
    PROVE  LET c == Fit(Lowered(Truncated(p - low)), size)
           IN  /\ c \in 0..size - 1
               /\ \A k \in 0..size - 1 :
                    /\ Gap(p, c * Resolution + low) \in Nat
                    /\ Gap(p, k * Resolution + low) \in Nat
                    /\ Gap(p, c * Resolution + low) <= Gap(p, k * Resolution + low)
<1> DEFINE n == p - low
           q == Lowered(Truncated(n))
           c == Fit(q, size)
<1>1. Resolution \in Nat \ {0} /\ n \in Int
  BY PathAssumption
<1>2. q \in Int /\ (n < 0 => q <= 0)
      /\ (n >= 0 => q \in Nat /\ q * Resolution <= n /\ n < q * Resolution + Resolution)
  <2> HIDE DEF n
  <2>1. CASE n < 0
    BY <1>1, <2>1, LowIsNegative
  <2>2. CASE n >= 0
    BY <1>1, <2>2, CellOf
  <2> QED BY <1>1, <2>1, <2>2
<1> HIDE DEF q
<1>3. c = (IF q < 0 THEN 0 ELSE IF q >= size THEN size - 1 ELSE q) /\ c \in 0..size - 1
  BY <1>2 DEF Fit
<1> HIDE DEF c
<1>4. ASSUME NEW k \in 0..size - 1
      PROVE  /\ Gap(p, c * Resolution + low) \in Nat
             /\ Gap(p, k * Resolution + low) \in Nat
             /\ Gap(p, c * Resolution + low) <= Gap(p, k * Resolution + low)
  <2> DEFINE kr == k * Resolution
             cr == c * Resolution
             qr == q * Resolution
  <2>1. kr \in Nat /\ cr \in Nat /\ qr \in Int
    BY <1>1, <1>2, <1>3
  <2>2. q >= size => cr + Resolution <= qr /\ kr <= cr
    <3> SUFFICES ASSUME q >= size PROVE cr + Resolution <= qr /\ kr <= cr
      OBVIOUS
    <3>1. c = size - 1 /\ c < q /\ q \in Nat /\ c \in Nat /\ k \in Nat /\ k <= c
      BY <1>2, <1>3
    <3>2. cr + Resolution <= qr
      BY <1>1, <3>1, RowsApart
    <3>3. CASE k < c
      <4>1. kr + Resolution <= cr
        BY <1>1, <3>1, <3>3, RowsApart
      <4> QED BY <1>1, <2>1, <3>2, <4>1
    <3>4. CASE k = c
      BY <2>1, <3>2, <3>4
    <3> QED BY <3>1, <3>3, <3>4
  <2>3. c = 0 => cr = 0
    BY <1>1
  <2>4. c = q => cr = qr
    OBVIOUS
  <2>5. n < 0 => c = 0
    BY <1>2, <1>3
  <2>6. n >= 0 => (q < size => c = q) /\ q \in Nat /\ qr <= n /\ n < qr + Resolution
    BY <1>2, <1>3
  <2>7. /\ Gap(p, cr + low) = IF p < cr + low THEN (cr + low) - p
                              ELSE IF p >= (cr + low) + Resolution THEN p - (cr + low) - Resolution + 1 ELSE 0
        /\ Gap(p, kr + low) = IF p < kr + low THEN (kr + low) - p
                              ELSE IF p >= (kr + low) + Resolution THEN p - (kr + low) - Resolution + 1 ELSE 0
    BY DEF Gap
  <2> HIDE DEF kr, cr, qr
  <2>8. Gap(p, cr + low) \in Nat /\ Gap(p, kr + low) \in Nat /\ Gap(p, cr + low) <= Gap(p, kr + low)
    <3>1. CASE n < 0
      BY <1>1, <2>1, <2>3, <2>5, <2>7, <3>1
    <3>2. CASE n >= 0 /\ q < size
      BY <1>1, <2>1, <2>4, <2>6, <2>7, <3>2
    <3>3. CASE n >= 0 /\ q >= size
      BY <1>1, <2>1, <2>2, <2>6, <2>7, <3>3
    <3> QED BY <1>1, <1>2, <3>1, <3>2, <3>3
  <2> QED BY <2>8 DEF kr, cr
<1> QED BY <1>3, <1>4 DEF c, q, n

-----------------------------------------------------------------------------

\* The arguments of a call, the grid it searches and the cells it searches between.
Placed ==
    /\ map \in Maps /\ robot \in Points /\ target \in Points /\ Covers(map, robot)
    /\ grid = ProcessGrid(map, target)
    /\ start = ConvertFromMapToGridPoint(grid, robot)
    /\ goal = FitPointInsideGrid(grid, ConvertFromMapToGridPoint(grid, target))

LEMMA PlacedGrid ==
    ASSUME Placed
    PROVE  /\ Full(map) /\ Full(grid) /\ Surrounds(grid, map) /\ Margin(grid, map) \in {0, 1}
           /\ map.rows \in Nat \ {0} /\ map.cols \in Nat \ {0} /\ map.x \in Int /\ map.y \in Int
           /\ grid.rows \in Nat \ {0} /\ grid.cols \in Nat \ {0} /\ grid.x \in Int /\ grid.y \in Int
           /\ Resolution \in Nat \ {0}
           /\ robot.x \in Int /\ robot.y \in Int /\ target.x \in Int /\ target.y \in Int
<1>1. Full(map) /\ Surrounds(grid, map)
  BY ProcessedGrid DEF Placed
<1>2. Full(grid)
  BY <1>1 DEF Surrounds
<1>3. robot \in [x : Int, y : Int] /\ target \in [x : Int, y : Int]
  BY PathAssumption DEF Placed
<1> QED BY <1>1, <1>2, <1>3, PathAssumption DEF Full, Grid, Margin

\* One coordinate of the robot, on the map and on the grid around it.
LEMMA RobotCell ==
    ASSUME NEW low \in Int, NEW size \in Nat \ {0}, NEW mg \in {0, 1}, NEW p \in Int,
           p \in low..low + size * Resolution - 1
    PROVE  LET c == Lowered(Truncated(p - (low - Resolution * mg)))
           IN  /\ c \in 0..size + 2 * mg - 1
               /\ Gap(p, c * Resolution + (low - Resolution * mg)) = 0
<1> DEFINE n == p - (low - Resolution * mg)
           c == Lowered(Truncated(n))
           s == size * Resolution
           cr == c * Resolution
<1>1. Resolution \in Nat \ {0} /\ s \in Nat
  BY PathAssumption
<1>2. Resolution * mg = IF mg = 0 THEN 0 ELSE Resolution
  BY <1>1
<1>3. n \in Nat /\ n < s + Resolution * mg /\ n = p - (low - Resolution * mg)
  BY <1>1, <1>2
<1> HIDE DEF n
<1>4. c \in Nat /\ cr <= n /\ n < cr + Resolution
  BY <1>3, CellOf
<1> HIDE DEF c
<1>5. cr \in Nat
  BY <1>1, <1>4
<1>6. c < size + mg
  <2> SUFFICES ASSUME c >= size + mg PROVE FALSE
    BY <1>4
  <2> DEFINE m == size + mg
  <2>1. m \in Nat /\ m * Resolution = s + Resolution * mg
    BY <1>1
  <2>2. m * Resolution <= cr
    <3>1. CASE m = c
      BY <2>1, <1>5, <3>1
    <3>2. CASE m < c
      <4>1. m * Resolution \in Nat /\ m * Resolution + Resolution <= cr
        <5> HIDE DEF m
        <5> QED BY <1>1, <1>4, <2>1, <3>2, RowsApart
      <4> QED BY <1>1, <1>5, <4>1
    <3> QED BY <1>4, <2>1, <3>1, <3>2
  <2> QED BY <1>1, <1>2, <1>3, <1>4, <1>5, <2>1, <2>2
<1>7. c \in 0..size + 2 * mg - 1
  BY <1>4, <1>6
<1>8. Gap(p, cr + (low - Resolution * mg)) = 0
  <2>1. cr + (low - Resolution * mg) = p - (n - cr)
    BY <1>1, <1>2, <1>3, <1>5
  <2> DEFINE z == cr + (low - Resolution * mg)
  <2>2. z \in Int /\ ~(p < z) /\ ~(p >= z + Resolution)
    BY <1>1, <1>3, <1>4, <1>5, <2>1
  <2> QED BY <2>2 DEF Gap
<1> QED BY <1>7, <1>8 DEF n, c

LEMMA CallEnds ==
    ASSUME Placed
    PROVE  /\ start \in Cells /\ goal \in Cells
           /\ GapTo(robot, ConvertFromGridToMapPoint(grid, start)) = 0
           /\ \A row \in 0..map.rows - 1, col \in 0..map.cols - 1 :
                GapTo(target, ConvertFromGridToMapPoint(grid, goal))
                  <= GapTo(target, ConvertFromGridToMapPoint(map, <<row, col>>))
<1> DEFINE mg == Margin(grid, map)
<1>1. /\ mg \in {0, 1}
      /\ map.rows \in Nat \ {0} /\ map.cols \in Nat \ {0} /\ map.x \in Int /\ map.y \in Int
      /\ grid.rows \in Nat \ {0} /\ grid.cols \in Nat \ {0} /\ grid.x \in Int /\ grid.y \in Int
      /\ Resolution \in Nat \ {0}
      /\ robot.x \in Int /\ robot.y \in Int /\ target.x \in Int /\ target.y \in Int
  BY PlacedGrid
<1>2. /\ grid.rows = map.rows + 2 * mg /\ grid.cols = map.cols + 2 * mg
      /\ grid.x = map.x - Resolution * mg /\ grid.y = map.y - Resolution * mg
  BY PlacedGrid DEF Surrounds
<1> HIDE DEF mg
<1>3. start[1] = Lowered(Truncated(robot.y - grid.y)) /\ start[2] = Lowered(Truncated(robot.x - grid.x))
      /\ start = <<start[1], start[2]>>
  BY DEF Placed, ConvertFromMapToGridPoint
<1>4. start[2] \in 0..grid.cols - 1 /\ Gap(robot.x, start[2] * Resolution + grid.x) = 0
  <2>1. robot.x \in map.x..map.x + map.cols * Resolution - 1
    BY DEF Placed, Covers
  <2> QED BY <1>1, <1>2, <1>3, <2>1, RobotCell
<1>5. start[1] \in 0..grid.rows - 1 /\ Gap(robot.y, start[1] * Resolution + grid.y) = 0
  <2>1. robot.y \in map.y..map.y + map.rows * Resolution - 1
    BY DEF Placed, Covers
  <2> QED BY <1>1, <1>2, <1>3, <2>1, RobotCell
<1>6. start \in Cells
  BY <1>3, <1>4, <1>5 DEF Cells
<1>7. GapTo(robot, ConvertFromGridToMapPoint(grid, start)) = 0
  BY <1>4, <1>5 DEF GapTo, ConvertFromGridToMapPoint
<1>8. /\ goal[1] = Fit(Lowered(Truncated(target.y - grid.y)), grid.rows)
      /\ goal[2] = Fit(Lowered(Truncated(target.x - grid.x)), grid.cols)
      /\ goal = <<goal[1], goal[2]>>
  BY DEF Placed, FitPointInsideGrid, ConvertFromMapToGridPoint
<1>9. /\ goal[2] \in 0..grid.cols - 1
      /\ \A k \in 0..grid.cols - 1 :
           /\ Gap(target.x, goal[2] * Resolution + grid.x) \in Nat
           /\ Gap(target.x, k * Resolution + grid.x) \in Nat
           /\ Gap(target.x, goal[2] * Resolution + grid.x) <= Gap(target.x, k * Resolution + grid.x)
  <2> DEFINE low == grid.x
             size == grid.cols
             p == target.x
             c == Fit(Lowered(Truncated(p - low)), size)
  <2>1. low \in Int /\ size \in Nat \ {0} /\ p \in Int
    BY <1>1
  <2>2. goal[2] = c
    BY <1>8
  <2> HIDE DEF low, size, p
  <2>3. /\ c \in 0..size - 1
        /\ \A k \in 0..size - 1 :
             /\ Gap(p, c * Resolution + low) \in Nat
             /\ Gap(p, k * Resolution + low) \in Nat
             /\ Gap(p, c * Resolution + low) <= Gap(p, k * Resolution + low)
    BY <2>1, FitNearest
  <2> HIDE DEF c
  <2> QED BY <2>2, <2>3, Zenon DEF low, size, p
<1>10. /\ goal[1] \in 0..grid.rows - 1
       /\ \A k \in 0..grid.rows - 1 :
           /\ Gap(target.y, goal[1] * Resolution + grid.y) \in Nat
           /\ Gap(target.y, k * Resolution + grid.y) \in Nat
           /\ Gap(target.y, goal[1] * Resolution + grid.y) <= Gap(target.y, k * Resolution + grid.y)
  <2> DEFINE low == grid.y
             size == grid.rows
             p == target.y
             c == Fit(Lowered(Truncated(p - low)), size)
  <2>1. low \in Int /\ size \in Nat \ {0} /\ p \in Int
    BY <1>1
  <2>2. goal[1] = c
    BY <1>8
  <2> HIDE DEF low, size, p
  <2>3. /\ c \in 0..size - 1
        /\ \A k \in 0..size - 1 :
             /\ Gap(p, c * Resolution + low) \in Nat
             /\ Gap(p, k * Resolution + low) \in Nat
             /\ Gap(p, c * Resolution + low) <= Gap(p, k * Resolution + low)
    BY <2>1, FitNearest
  <2> HIDE DEF c
  <2> QED BY <2>2, <2>3, Zenon DEF low, size, p
<1>11. goal \in Cells
  BY <1>8, <1>9, <1>10 DEF Cells
<1>12. ASSUME NEW row \in 0..map.rows - 1, NEW col \in 0..map.cols - 1
       PROVE  GapTo(target, ConvertFromGridToMapPoint(grid, goal))
                <= GapTo(target, ConvertFromGridToMapPoint(map, <<row, col>>))
  <2> DEFINE a == Gap(target.x, goal[2] * Resolution + grid.x)
             b == Gap(target.y, goal[1] * Resolution + grid.y)
             c == Gap(target.x, (col + mg) * Resolution + grid.x)
             d == Gap(target.y, (row + mg) * Resolution + grid.y)
  <2>1. col + mg \in 0..grid.cols - 1 /\ row + mg \in 0..grid.rows - 1
    BY <1>1, <1>2
  <2>2. (col + mg) * Resolution + grid.x = col * Resolution + map.x
        /\ (row + mg) * Resolution + grid.y = row * Resolution + map.y
    BY <1>1, <1>2
  <2>3. a \in Nat /\ c \in Nat /\ a <= c
    BY <1>9, <2>1
  <2>4. b \in Nat /\ d \in Nat /\ b <= d
    BY <1>10, <2>1
  <2>5. GapTo(target, ConvertFromGridToMapPoint(grid, goal)) = a + b
    BY DEF GapTo, ConvertFromGridToMapPoint
  <2>6. GapTo(target, ConvertFromGridToMapPoint(map, <<row, col>>)) = c + d
    BY <2>2 DEF GapTo, ConvertFromGridToMapPoint
  <2> HIDE DEF a, b, c, d
  <2> QED BY <2>3, <2>4, <2>5, <2>6
<1>13. \A row \in 0..map.rows - 1, col \in 0..map.cols - 1 :
          GapTo(target, ConvertFromGridToMapPoint(grid, goal))
            <= GapTo(target, ConvertFromGridToMapPoint(map, <<row, col>>))
  BY <1>12
<1> QED BY <1>6, <1>7, <1>11, <1>13, Zenon

\* A free cell of the grid is free in the map, if it is on it.
LEMMA FreeOnMap ==
    ASSUME Placed, NEW c \in Cells, IsUnBlocked(c)
    PROVE  ~Blocked(ConvertFromGridToMapPoint(grid, c))
<1> DEFINE mg == Margin(grid, map)
           p == ConvertFromGridToMapPoint(grid, c)
           row == (p.y - map.y) \div Resolution
           col == (p.x - map.x) \div Resolution
<1>1. /\ mg \in {0, 1}
      /\ map.rows \in Nat \ {0} /\ map.cols \in Nat \ {0} /\ map.x \in Int /\ map.y \in Int
      /\ grid.rows \in Nat \ {0} /\ grid.cols \in Nat \ {0} /\ grid.x \in Int /\ grid.y \in Int
      /\ Resolution \in Nat \ {0}
  BY PlacedGrid
<1>2. /\ grid.x = map.x - Resolution * mg /\ grid.y = map.y - Resolution * mg
      /\ \A r \in 0..map.rows - 1, k \in 0..map.cols - 1 :
           Datum(grid, r + mg, k + mg) = Datum(map, r, k)
  BY PlacedGrid DEF Surrounds
<1>3. c[1] \in Nat /\ c[2] \in Nat
  BY <1>1 DEF Cells
<1> HIDE DEF mg
<1>4. p.x - map.x = Resolution * (c[2] - mg) /\ p.y - map.y = Resolution * (c[1] - mg)
  BY <1>1, <1>2, <1>3 DEF ConvertFromGridToMapPoint
<1>5. \A n \in Int : (Resolution * n) \div Resolution = n
  <2> SUFFICES ASSUME NEW n \in Int PROVE (Resolution * n) \div Resolution = n
    OBVIOUS
  <2> DEFINE z == Resolution * n
             q == z \div Resolution
  <2>1. z \in Int /\ q \in Int /\ Resolution * q <= z /\ z < Resolution * q + Resolution
    BY <1>1, DivFacts
  <2> HIDE DEF q
  <2>2. Resolution * (n - q) >= 0 /\ Resolution * (n - q) < Resolution
    BY <1>1, <2>1
  <2>3. n - q >= 0
    <3> SUFFICES ASSUME n - q < 0 PROVE FALSE
      BY <2>1
    <3>1. q - n - 1 \in Nat
      BY <2>1
    <3>2. Resolution * (q - n - 1) >= 0
      BY <1>1, <3>1
    <3> QED BY <1>1, <2>1, <2>2, <3>2
  <2>4. n - q < 1
    <3> SUFFICES ASSUME n - q >= 1 PROVE FALSE
      BY <2>1
    <3>1. n - q - 1 \in Nat
      BY <2>1
    <3>2. Resolution * (n - q - 1) >= 0
      BY <1>1, <3>1
    <3> QED BY <1>1, <2>1, <2>2, <3>2
  <2> QED BY <2>1, <2>3, <2>4 DEF q
<1>6. row = c[1] - mg /\ col = c[2] - mg
  <2> HIDE DEF p
  <2>1. c[1] - mg \in Int /\ c[2] - mg \in Int
    BY <1>1, <1>3
  <2>2. row = (Resolution * (c[1] - mg)) \div Resolution
    BY <1>4
  <2>3. col = (Resolution * (c[2] - mg)) \div Resolution
    BY <1>4
  <2> QED BY <1>5, <2>1, <2>2, <2>3
<1> HIDE DEF row, col
<1>7. Blocked(p) <=> /\ row \in 0..map.rows - 1 /\ col \in 0..map.cols - 1
                     /\ Datum(map, row, col) # GRID_FREE
  BY DEF Blocked, row, col, Datum
<1>8. Datum(grid, c[1], c[2]) = GRID_FREE
  BY DEF IsUnBlocked, Datum
<1> HIDE DEF p
<1> SUFFICES ASSUME Blocked(p) PROVE FALSE
  BY DEF p
<1>9. row \in 0..map.rows - 1 /\ col \in 0..map.cols - 1 /\ row + mg = c[1] /\ col + mg = c[2]
  BY <1>1, <1>3, <1>6, <1>7
<1>10. Datum(grid, row + mg, col + mg) = Datum(map, row, col)
  BY <1>2, <1>9
<1> QED BY <1>7, <1>8, <1>9, <1>10

-----------------------------------------------------------------------------

Pair == Int \X Int
LEMMA OffsetsDomain == DOMAIN Offsets = 1..8
BY DEF Offsets

LEMMA SuccessorPair ==
    ASSUME NEW c \in Pair, NEW k \in DOMAIN Offsets
    PROVE  Successor(c, k) \in Pair /\ Touch(Successor(c, k), c)
<1> DEFINE a == Offsets[k][1]
           b == Offsets[k][2]
<1>1. a \in -1..1 /\ b \in -1..1 /\ (a # 0 \/ b # 0)
  BY OffsetsDomain DEF Offsets
<1>2. c[1] \in Int /\ c[2] \in Int
  BY DEF Pair
<1>3. Successor(c, k) = <<c[1] + a, c[2] + b>>
  BY DEF Successor
<1> HIDE DEF a, b
<1>4. Successor(c, k)[1] - c[1] = a /\ Successor(c, k)[2] - c[2] = b /\ Successor(c, k) # c
  BY <1>1, <1>2, <1>3
<1> QED BY <1>1, <1>2, <1>3, <1>4 DEF Touch, Pair

\* Two cells touch when one is a successor of the other.
LEMMA TouchSuccessor ==
    ASSUME NEW c \in Pair, NEW d \in Pair, Touch(c, d)
    PROVE  \E k \in DOMAIN Offsets : d = Successor(c, k)
<1>1. PICK c1 \in Int, c2 \in Int, d1 \in Int, d2 \in Int : c = <<c1, c2>> /\ d = <<d1, d2>>
  BY DEF Pair
<1> DEFINE Step(k) == d1 = c1 + Offsets[k][1] /\ d2 = c2 + Offsets[k][2]
<1>2. Step(1) \/ Step(2) \/ Step(3) \/ Step(4) \/ Step(5) \/ Step(6) \/ Step(7) \/ Step(8)
  <2>1. (c1 # d1 \/ c2 # d2) /\ c1 - d1 \in -1..1 /\ c2 - d2 \in -1..1
    BY <1>1 DEF Touch
  <2> QED BY <2>1 DEF Offsets
<1>3. PICK k \in 1..8 : Step(k)
  BY <1>2
<1>4. d = Successor(c, k)
  BY <1>1, <1>3 DEF Successor
<1> QED BY <1>4, OffsetsDomain

-----------------------------------------------------------------------------

Sized == grid.rows \in Nat \ {0} /\ grid.cols \in Nat \ {0}

\* What the search knows of its cells: those with a cost are the closed ones and
\* those of the open list, and nothing free next to a closed one is without a cost.
Known ==
    /\ start \in DOMAIN cost
    /\ DOMAIN cost \subseteq Pair
    /\ closed \subseteq DOMAIN cost
    /\ \A e \in open : e.cell \in DOMAIN cost
    /\ \A c \in DOMAIN cost : c \in closed \/ \E e \in open : e.cell = c
Swept ==
    \A c \in closed, k \in DOMAIN Offsets :
      /\ Successor(c, k) # goal
      /\ IsValid(Successor(c, k)) /\ IsUnBlocked(Successor(c, k)) => Successor(c, k) \in DOMAIN cost

IInv ==
    /\ Sized
    /\ \E S : path \in Seq(S)
    /\ phase \in {"search", "trace", "done", "published"}
    /\ phase = "search" => Known /\ Swept /\ path = <<>>
    /\ WalledIn

LEMMA InitInv == Init => IInv
<1> SUFFICES ASSUME Init PROVE IInv
  OBVIOUS
<1>1. grid = ProcessGrid(map, target) /\ map \in Maps /\ target \in Points /\ robot \in Points
  BY DEF Init
<1>2. Sized /\ grid.x \in Int /\ grid.y \in Int
  BY <1>1, ProcessedGrid DEF Sized, Surrounds, Full, Grid
<1>3. \A n \in Int : Lowered(Truncated(n)) \in Int
  <2> SUFFICES ASSUME NEW n \in Int PROVE Lowered(Truncated(n)) \in Int
    OBVIOUS
  <2>1. Truncated(n) \in Int
    BY PathAssumption DEF Truncated
  <2> QED BY <2>1 DEF Lowered
<1>4. start \in Pair
  <2>1. robot.x - grid.x \in Int /\ robot.y - grid.y \in Int
    BY <1>1, <1>2, PathAssumption
  <2>2. start = <<Lowered(Truncated(robot.y - grid.y)), Lowered(Truncated(robot.x - grid.x))>>
    BY DEF Init, ConvertFromMapToGridPoint
  <2> QED BY <1>3, <2>1, <2>2 DEF Pair
<1>5. Known /\ Swept
  BY <1>4 DEF Init, SearchInit, Known, Swept
<1>6. phase = "search" /\ path = <<>> /\ path \in Seq({})
  BY DEF Init, SearchInit
<1> QED BY <1>2, <1>5, <1>6 DEF IInv, WalledIn

-----------------------------------------------------------------------------
\* A round that does not find the goal leaves the closed cells swept.
LEMMA ExpandStep ==
    ASSUME IInv, Expand
    PROVE  IInv'
<1> USE DEF IInv
<1>1. PICK e \in open : LET new == Entered(e.cell) IN
        /\ closed' = closed \cup {e.cell}
        /\ open' = (open \ {e})
             \cup {[g |-> cost[e.cell] + 1, h2 |-> H2(c), cell |-> c] : c \in new}
        /\ cost' = Update(cost, new, cost[e.cell] + 1)
        /\ phase' = IF Finds(e.cell) THEN "trace" ELSE "search"
        /\ phase = "search" /\ UNCHANGED <<inputs, at, path>>
  BY DEF Expand
<1> DEFINE p == e.cell
           new == Entered(p)
<1>2. Known /\ Swept /\ path = <<>>
  BY <1>1
<1>3. Sized' /\ (\E S : path' \in Seq(S)) /\ WalledIn'
  BY <1>1 DEF Sized, inputs, WalledIn
<1>4. CASE Finds(p)
  BY <1>1, <1>3, <1>4
<1>5. CASE ~Finds(p)
  <2>1. p \in Pair /\ p \in DOMAIN cost
    BY <1>2 DEF Known
  <2>2. \A c \in new : c \in Pair
    BY <2>1, SuccessorPair DEF Entered
  <2>3. DOMAIN cost' = DOMAIN cost \cup new
    BY <1>1 DEF Update
  <2>4. \A k \in DOMAIN Offsets :
          /\ Successor(p, k) # goal
          /\ IsValid(Successor(p, k)) /\ IsUnBlocked(Successor(p, k))
               => Successor(p, k) \in DOMAIN cost \cup new
    <3> SUFFICES ASSUME NEW k \in DOMAIN Offsets,
                        IsValid(Successor(p, k)), IsUnBlocked(Successor(p, k)),
                        Successor(p, k) \notin DOMAIN cost
                 PROVE  Successor(p, k) \in new
      BY <1>5 DEF Finds
    <3>1. \A j \in 1..k : Successor(p, j) # goal
      BY <1>5, OffsetsDomain DEF Finds
    <3>2. Successor(p, k) \notin closed
      BY <1>2 DEF Known
    <3> QED BY <3>1, <3>2 DEF Entered
  <2>5. Known'
    <3>1. start' \in DOMAIN cost' /\ DOMAIN cost' \subseteq Pair /\ closed' \subseteq DOMAIN cost'
      BY <1>1, <1>2, <2>1, <2>2, <2>3 DEF Known, inputs
    <3>2. \A f \in open' : f.cell \in DOMAIN cost'
      BY <1>1, <1>2, <2>3 DEF Known
    <3>3. \A c \in DOMAIN cost' : c \in closed' \/ \E f \in open' : f.cell = c
      <4> SUFFICES ASSUME NEW c \in DOMAIN cost', c # p, c \notin closed
                   PROVE  \E f \in open' : f.cell = c
        BY <1>1
      <4>1. CASE c \in new
        <5> DEFINE f == [g |-> cost[p] + 1, h2 |-> H2(c), cell |-> c]
        <5>1. f \in open' /\ f.cell = c
          BY <1>1, <4>1
        <5> QED BY <5>1
      <4>2. CASE c \in DOMAIN cost
        <5>1. PICK f \in open : f.cell = c
          BY <1>2, <4>2 DEF Known
        <5>2. f # e /\ f \in open'
          BY <1>1, <5>1
        <5> QED BY <5>1, <5>2
      <4> QED BY <2>3, <4>1, <4>2
    <3> QED BY <3>1, <3>2, <3>3 DEF Known
  <2>6. Swept'
    <3>1. grid' = grid /\ goal' = goal /\ closed' = closed \cup {p}
      BY <1>1 DEF inputs
    <3> QED BY <1>2, <2>3, <2>4, <3>1 DEF Swept, IsValid, IsUnBlocked, Successor
  <2> QED BY <1>1, <1>2, <1>3, <2>5, <2>6
<1> QED BY <1>4, <1>5

\* The open list is empty: every cell with a cost is closed.
LEMMA GiveUpStep ==
    ASSUME IInv, GiveUp
    PROVE  IInv'
<1> USE DEF IInv
<1>1. Known /\ Swept /\ path = <<>> /\ open = {} /\ phase' = "done"
      /\ grid' = grid /\ start' = start /\ goal' = goal /\ closed' = closed /\ path' = path
  BY DEF GiveUp, inputs
<1>2. DOMAIN cost \subseteq closed /\ start \in closed /\ closed \subseteq Pair
  BY <1>1 DEF Known
<1>3. ASSUME NEW c \in closed, NEW d \in Cells, Touch(c, d)
      PROVE  d # goal /\ (Free(d) => d \in closed)
  <2>1. d \in Pair /\ IsValid(d)
    BY DEF Cells, Pair, IsValid, Sized
  <2>2. PICK k \in DOMAIN Offsets : d = Successor(c, k)
    BY <1>2, <1>3, <2>1, TouchSuccessor
  <2> QED BY <1>1, <1>2, <2>1, <2>2 DEF Swept, Free, IsUnBlocked
<1>4. WalledIn'
  BY <1>1, <1>2, <1>3 DEF WalledIn, Cells, Free, Touch
<1> QED BY <1>1, <1>4 DEF Sized

\* A path traced is not empty.
LEMMA TraceStep ==
    ASSUME IInv, TracePath
    PROVE  IInv'
<1> USE DEF IInv
<1>1. PICK S : path \in Seq(S)
  OBVIOUS
<1>2. path \in Seq(S \cup {at}) /\ <<at>> \in Seq(S \cup {at})
  BY <1>1
<1>3. PathBound \in Nat \ {0}
  BY DEF PathBound, Sized
<1>4. path' \in Seq(S \cup {at}) /\ path' # <<>>
  <2>1. CASE Len(path) < PathBound
    <3>1. path' = <<at>> \o path
      BY <2>1 DEF TracePath
    <3>2. Len(path') = 1 + Len(path) /\ Len(path) \in Nat
      BY <1>2, <3>1
    <3>3. path' # <<>>
      BY <3>2
    <3> QED BY <1>2, <3>1, <3>3
  <2>2. CASE ~(Len(path) < PathBound)
    <3>1. path' = path /\ path # <<>>
      BY <1>2, <1>3, <2>2 DEF TracePath
    <3> QED BY <1>2, <3>1
  <2> QED BY <2>1, <2>2
<1>5. phase' \in {"trace", "done"} /\ grid' = grid
  BY DEF TracePath, inputs
<1> QED BY <1>4, <1>5 DEF WalledIn, Sized

LEMMA StepInv == IInv /\ [Next]_vars => IInv'
<1> SUFFICES ASSUME IInv, [Next]_vars PROVE IInv'
  OBVIOUS
<1>1. CASE Search
  BY <1>1, ExpandStep, GiveUpStep, TraceStep DEF Search
<1>2. CASE ConstructPath
  BY <1>2 DEF ConstructPath, IInv, WalledIn, Sized, inputs
<1>3. CASE UNCHANGED vars
  BY <1>3 DEF vars, searchVars, inputs, IInv, WalledIn, Sized, Known, Swept,
              IsValid, IsUnBlocked, Successor, Cells, Free, Touch
<1> QED BY <1>1, <1>2, <1>3 DEF Next

\* When the search gives up there is no path: the cells it has closed are walled in
\* and do not touch the goal (AStar::search).
THEOREM GivesUpOnlyWalledIn == Spec => []WalledIn
<1>1. IInv => WalledIn
  BY DEF IInv
<1> QED BY InitInv, StepInv, <1>1, PTL DEF Spec

-----------------------------------------------------------------------------

\* The cells that have a cost hang together by their parents, each one step dearer than
\* its own; what is closed stays as it is.
Tree ==
    /\ closed \subseteq DOMAIN cost /\ DOMAIN cost \subseteq Cells
    /\ DOMAIN cost \subseteq DOMAIN parent
    /\ start \in DOMAIN cost /\ cost[start] = 0
    /\ closed = {} => DOMAIN cost = {start}
    /\ closed # {} => start \in closed
    /\ start # goal => goal \notin DOMAIN cost
    /\ \A c \in DOMAIN cost : cost[c] \in Nat
    /\ \A c \in DOMAIN cost \ {start} :
         /\ parent[c] \in closed /\ Touch(c, parent[c]) /\ IsUnBlocked(c)
         /\ cost[c] = cost[parent[c]] + 1

LEMMA UpTo ==
    ASSUME NEW n \in Nat
    PROVE  IsFiniteSet(0..n - 1) /\ Cardinality(0..n - 1) = n
<1> DEFINE b == n - 1
<1>1. b \in Int /\ n = IF 0 > b THEN 0 ELSE b - 0 + 1
  OBVIOUS
<1> HIDE DEF b
<1>2. IsFiniteSet(0..b) /\ Cardinality(0..b) = IF 0 > b THEN 0 ELSE b - 0 + 1
  BY <1>1, FS_Interval
<1> QED BY <1>1, <1>2, Zenon DEF b

\* A cost is less than there are cells: each smaller one is that of another closed cell.
LEMMA CostBound ==
    ASSUME Tree, start # goal, goal \in Cells, NEW c \in closed,
           grid.rows \in Nat, grid.cols \in Nat
    PROVE  cost[c] + 2 <= grid.rows * grid.cols
<1> DEFINE T == {n \in Nat : \A d \in closed : cost[d] = n =>
                               \A m \in 0..n : \E e \in closed : cost[e] = m}
<1>1. 0 \in T
  OBVIOUS
<1>2. ASSUME NEW n \in Nat, n \in T PROVE n + 1 \in T
  <2> SUFFICES ASSUME NEW d \in closed, cost[d] = n + 1, NEW m \in 0..n + 1
               PROVE  \E e \in closed : cost[e] = m
    OBVIOUS
  <2>1. CASE m = n + 1
    BY <2>1
  <2>2. CASE m # n + 1
    <3>1. d \in DOMAIN cost \ {start}
      BY DEF Tree
    <3>2. parent[d] \in closed /\ cost[d] = cost[parent[d]] + 1 /\ cost[parent[d]] \in Nat
      BY <3>1 DEF Tree
    <3>3. cost[parent[d]] = n /\ m \in 0..n
      BY <2>2, <3>2
    <3> QED BY <1>2, <3>2, <3>3
  <2> QED BY <2>1, <2>2
<1>3. cost[c] \in T /\ cost[c] \in Nat
  <2>1. cost[c] \in Nat
    BY DEF Tree
  <2> HIDE DEF T
  <2> QED BY <1>1, <1>2, <2>1, NatSet
<1> DEFINE k == cost[c]
           f == [m \in 0..k + 1 |-> IF m = k + 1 THEN goal ELSE CHOOSE e \in closed : cost[e] = m]
<1>4. k \in Nat /\ \A m \in 0..k : \E e \in closed : cost[e] = m
  BY <1>3
<1> HIDE DEF k
<1>5. \A m \in 0..k : f[m] \in closed /\ cost[f[m]] = m
  BY <1>4
<1>6. f[k + 1] = goal /\ goal \notin closed
  BY <1>4 DEF Tree
<1>7. f \in [0..k + 1 -> Cells]
  <2>1. \A m \in 0..k + 1 : m \in 0..k \/ m = k + 1
    BY <1>4
  <2>2. closed \subseteq Cells
    BY DEF Tree
  <2>3. \A m \in 0..k + 1 : f[m] \in Cells
    BY <1>5, <1>6, <2>1, <2>2
  <2>4. f = [m \in 0..k + 1 |-> f[m]]
    OBVIOUS
  <2> HIDE DEF f
  <2> QED BY <2>3, <2>4
<1>8. ASSUME NEW m \in 0..k + 1, NEW n \in 0..k + 1, f[m] = f[n] PROVE m = n
  <2>1. (m \in 0..k \/ m = k + 1) /\ (n \in 0..k \/ n = k + 1)
    BY <1>4
  <2> HIDE DEF f
  <2> QED BY <1>5, <1>6, <1>8, <2>1
<1> HIDE DEF f
<1>9. f \in Injection(0..k + 1, Cells)
  BY <1>7, <1>8 DEF Injection, IsInjective
<1>10. IsFiniteSet(Cells) /\ Cardinality(Cells) = grid.rows * grid.cols
  <2> DEFINE r == grid.rows
             w == grid.cols
  <2>1. r \in Nat /\ w \in Nat
    OBVIOUS
  <2> HIDE DEF r, w
  <2>2. IsFiniteSet(0..r - 1) /\ Cardinality(0..r - 1) = r
    BY <2>1, UpTo
  <2>3. IsFiniteSet(0..w - 1) /\ Cardinality(0..w - 1) = w
    BY <2>1, UpTo
  <2> DEFINE A == 0..r - 1
             B == 0..w - 1
  <2>4. Cells = A \X B
    BY DEF Cells, r, w
  <2>5. IsFiniteSet(A) /\ IsFiniteSet(B) /\ Cardinality(A) = r /\ Cardinality(B) = w
    BY <2>2, <2>3
  <2> HIDE DEF A, B
  <2>6. IsFiniteSet(A \X B) /\ Cardinality(A \X B) = Cardinality(A) * Cardinality(B)
    BY <2>5, FS_Product
  <2> QED BY <2>4, <2>5, <2>6 DEF r, w
<1>11. Cardinality(0..k + 1) <= Cardinality(Cells)
  BY <1>9, <1>10, FS_Injection
<1>12. Cardinality(0..k + 1) = k + 2
  <2>1. k + 1 \in Int /\ ~(0 > k + 1) /\ (k + 1) - 0 + 1 = k + 2
    BY <1>4
  <2> QED BY <2>1, FS_Interval
<1> QED BY <1>10, <1>11, <1>12 DEF k

Chain(p) == \A j \in 1..Len(p) - 1 : Touch(p[j], p[j + 1])
Searching ==
    /\ path = <<>> /\ at = goal /\ parent[start] = start
    /\ \A e \in open : e.cell \in DOMAIN cost
Tracing ==
    /\ goal \in DOMAIN parent /\ parent[goal] \in closed /\ Touch(goal, parent[goal])
    /\ at \in closed \cup {goal}
    /\ start # goal =>
         /\ parent[start] = start
         /\ Chain(path) /\ \A j \in 1..Len(path) - 1 : IsUnBlocked(path[j])
         /\ path = <<>> => at = goal
         /\ path # <<>> => /\ path[Len(path)] = goal /\ at \in closed /\ Touch(at, path[1])
                           /\ Len(path) + cost[at] = cost[parent[goal]] + 1
Led == /\ Chain(path) /\ path[1] = start /\ path[Len(path)] = goal
       /\ \A j \in 2..Len(path) - 1 : IsUnBlocked(path[j])
CallInv ==
    /\ phase \in {"search", "trace", "done", "published"}
    /\ phase # "published" => Placed /\ path \in Seq(Cells)
    /\ phase \in {"search", "trace"} => Tree
    /\ phase = "search" => Searching
    /\ phase = "trace" => Tracing
    /\ phase = "done" /\ path # <<>> => Led

LEMMA TouchPair ==
    ASSUME NEW c \in Cells, NEW d \in Cells, Touch(c, d), Placed
    PROVE  Touch(d, c)
<1>1. c[1] \in Int /\ c[2] \in Int /\ d[1] \in Int /\ d[2] \in Int
  BY PlacedGrid DEF Cells
<1> QED BY <1>1 DEF Touch

\* A round of the search hangs new cells on the one it closes, and nothing else changes in
\* the tree.
LEMMA TreeStep ==
    ASSUME Placed, Tree, Searching, NEW e \in open,
           LET new == Entered(e.cell) IN
             /\ closed' = closed \cup {e.cell}
             /\ open' = (open \ {e})
                  \cup {[g |-> cost[e.cell] + 1, h2 |-> H2(c), cell |-> c] : c \in new}
             /\ cost' = Update(cost, new, cost[e.cell] + 1)
             /\ parent' = Update(parent, new \cup (IF Finds(e.cell) THEN {goal} ELSE {}), e.cell),
           UNCHANGED inputs
    PROVE  /\ Tree'
           /\ Finds(e.cell) => /\ goal \in DOMAIN parent' /\ parent'[goal] = e.cell
                               /\ Touch(goal, e.cell)
           /\ (~Finds(e.cell) \/ start # goal) => parent'[start] = start
           /\ \A f \in open' : f.cell \in DOMAIN cost'
<1> DEFINE p == e.cell
           new == Entered(p)
           found == IF Finds(p) THEN {goal} ELSE {}
<1>1. /\ grid.rows \in Nat \ {0} /\ grid.cols \in Nat \ {0} /\ start \in Cells /\ goal \in Cells
  BY PlacedGrid, CallEnds
<1>2. p \in DOMAIN cost /\ p \in Cells /\ p \in Pair /\ cost[p] \in Nat
  BY <1>1 DEF Searching, Tree, Cells, Pair
<1>3. ASSUME NEW c \in new
      PROVE  c \in Cells /\ c \notin closed /\ c # goal /\ IsUnBlocked(c) /\ Touch(c, p) /\ c # start /\ c # p
  <2>1. PICK k \in DOMAIN Offsets :
           /\ c = Successor(p, k) /\ \A j \in 1..k : Successor(p, j) # goal
           /\ IsValid(c) /\ c \notin closed /\ IsUnBlocked(c)
    BY DEF Entered
  <2>2. c \in Pair /\ Touch(c, p)
    BY <1>2, <2>1, SuccessorPair
  <2>3. c \in Cells
    BY <2>1, <2>2 DEF Cells, IsValid, Pair
  <2>4. c # goal
    <3>1. k \in 1..k
      BY OffsetsDomain
    <3> QED BY <2>1, <3>1
  <2>5. c # p
    BY <2>2 DEF Touch
  <2>6. c # start
    BY <1>2, <2>1, <2>5 DEF Tree
  <2> QED BY <2>1, <2>2, <2>3, <2>4, <2>5, <2>6
<1>4. /\ closed' = closed \cup {p} /\ cost' = Update(cost, new, cost[p] + 1)
      /\ parent' = Update(parent, new \cup found, p)
      /\ open' = (open \ {e}) \cup {[g |-> cost[p] + 1, h2 |-> H2(c), cell |-> c] : c \in new}
      /\ grid' = grid /\ start' = start /\ goal' = goal
  BY DEF inputs
<1> HIDE DEF new
<1>5. /\ DOMAIN cost' = DOMAIN cost \cup new /\ DOMAIN parent' = DOMAIN parent \cup new \cup found
      /\ \A c \in new : cost'[c] = cost[p] + 1 /\ parent'[c] = p
      /\ \A c \in DOMAIN cost \ new : cost'[c] = cost[c]
      /\ \A c \in found : parent'[c] = p
      /\ \A c \in DOMAIN parent \ (new \cup found) : parent'[c] = parent[c]
  BY <1>4 DEF Update
<1>6. p \notin new /\ start \notin new /\ goal \notin new /\ \A c \in closed : c \notin new
  BY <1>3
<1>7. closed' \subseteq DOMAIN cost' /\ DOMAIN cost' \subseteq Cells /\ DOMAIN cost' \subseteq DOMAIN parent'
  BY <1>2, <1>3, <1>4, <1>5 DEF Tree
<1>8. start \in DOMAIN cost' /\ cost'[start] = 0
  BY <1>5, <1>6 DEF Tree
<1>9. start \in closed' /\ closed' # {}
  BY <1>2, <1>4 DEF Tree
<1>10. start # goal => goal \notin DOMAIN cost'
  BY <1>5, <1>6 DEF Tree
<1>11. \A c \in DOMAIN cost' : cost'[c] \in Nat
  BY <1>2, <1>5 DEF Tree
<1>12. ASSUME NEW c \in DOMAIN cost' \ {start}
       PROVE  /\ parent'[c] \in closed' /\ Touch(c, parent'[c]) /\ IsUnBlocked(c)
              /\ cost'[c] = cost'[parent'[c]] + 1
  <2>1. CASE c \in new
    <3>1. parent'[c] = p /\ cost'[c] = cost[p] + 1 /\ cost'[p] = cost[p]
      BY <1>2, <1>5, <1>6, <2>1
    <3> QED BY <1>3, <1>4, <2>1, <3>1
  <2>2. CASE c \notin new
    <3>1. c \in DOMAIN cost \ {start} /\ c # goal
      BY <1>5, <2>2 DEF Tree
    <3>2. c \in DOMAIN parent \ (new \cup found)
      BY <2>2, <3>1 DEF Tree
    <3>3. parent'[c] = parent[c] /\ cost'[c] = cost[c]
      BY <1>5, <2>2, <3>1, <3>2
    <3>4. /\ parent[c] \in closed /\ Touch(c, parent[c]) /\ IsUnBlocked(c)
          /\ cost[c] = cost[parent[c]] + 1
      BY <3>1 DEF Tree
    <3>5. cost'[parent[c]] = cost[parent[c]]
      BY <1>5, <1>6, <3>4 DEF Tree
    <3> QED BY <1>4, <3>3, <3>4, <3>5
  <2> QED BY <2>1, <2>2
<1>13. Tree'
  <2>1. \A c \in DOMAIN cost' \ {start'} :
           /\ parent'[c] \in closed' /\ Touch(c, parent'[c]) /\ IsUnBlocked(c)'
           /\ cost'[c] = cost'[parent'[c]] + 1
    BY <1>4, <1>12 DEF IsUnBlocked
  <2>2. Cells' = Cells
    BY <1>4 DEF Cells
  <2> QED BY <1>4, <1>7, <1>8, <1>9, <1>10, <1>11, <2>1, <2>2 DEF Tree, Touch
<1>14. Finds(p) => goal \in DOMAIN parent' /\ parent'[goal] = p /\ Touch(goal, p)
  <2> SUFFICES ASSUME Finds(p) PROVE goal \in DOMAIN parent' /\ parent'[goal] = p /\ Touch(goal, p)
    OBVIOUS
  <2>1. found = {goal}
    OBVIOUS
  <2>2. PICK k \in DOMAIN Offsets : Successor(p, k) = goal
    BY DEF Finds
  <2> QED BY <1>2, <1>5, <2>1, <2>2, SuccessorPair
<1>15. (~Finds(p) \/ start # goal) => parent'[start] = start
  <2> SUFFICES ASSUME ~Finds(p) \/ start # goal PROVE parent'[start] = start
    OBVIOUS
  <2>1. start \notin found /\ start \in DOMAIN parent /\ parent[start] = start
    BY DEF Tree, Searching
  <2> QED BY <1>5, <1>6, <2>1
<1>16. \A f \in open' : f.cell \in DOMAIN cost'
  BY <1>4, <1>5 DEF Searching
<1> QED BY <1>13, <1>14, <1>15, <1>16

CallArgs == <<map, robot, target>>

LEMMA PlacedKept == ASSUME Placed, UNCHANGED inputs, UNCHANGED CallArgs PROVE Placed' /\ Cells' = Cells
<1>1. grid' = grid /\ start' = start /\ goal' = goal /\ map' = map /\ robot' = robot /\ target' = target
  BY DEF inputs, CallArgs
<1> QED BY <1>1 DEF Placed, Cells

LEMMA ExpandCall ==
    ASSUME CallInv, Expand, UNCHANGED CallArgs
    PROVE  CallInv'
<1>1. PICK e \in open : LET new == Entered(e.cell) IN
        /\ closed' = closed \cup {e.cell}
        /\ open' = (open \ {e})
             \cup {[g |-> cost[e.cell] + 1, h2 |-> H2(c), cell |-> c] : c \in new}
        /\ cost' = Update(cost, new, cost[e.cell] + 1)
        /\ parent' = Update(parent, new \cup (IF Finds(e.cell) THEN {goal} ELSE {}), e.cell)
        /\ phase' = IF Finds(e.cell) THEN "trace" ELSE "search"
        /\ phase = "search" /\ UNCHANGED inputs /\ at' = at /\ path' = path
  BY DEF Expand
<1>2. Placed /\ Tree /\ Searching /\ path \in Seq(Cells)
  BY <1>1 DEF CallInv
<1>3. Placed' /\ Cells' = Cells /\ start' = start /\ goal' = goal
  BY <1>1, <1>2, PlacedKept DEF inputs
<1>4. /\ Tree'
      /\ Finds(e.cell) => goal \in DOMAIN parent' /\ parent'[goal] = e.cell /\ Touch(goal, e.cell)
      /\ (~Finds(e.cell) \/ start # goal) => parent'[start] = start
      /\ \A f \in open' : f.cell \in DOMAIN cost'
  <2>1. UNCHANGED inputs
    BY <1>1
  <2>2. LET new == Entered(e.cell) IN
        /\ closed' = closed \cup {e.cell}
        /\ open' = (open \ {e})
             \cup {[g |-> cost[e.cell] + 1, h2 |-> H2(c), cell |-> c] : c \in new}
        /\ cost' = Update(cost, new, cost[e.cell] + 1)
        /\ parent' = Update(parent, new \cup (IF Finds(e.cell) THEN {goal} ELSE {}), e.cell)
    BY <1>1
  <2> HIDE DEF CallInv
  <2> QED BY ONLY <1>2, <2>1, <2>2, TreeStep
<1>5. path' = <<>> /\ at' = goal /\ e.cell \in closed'
  BY <1>1, <1>2 DEF Searching
<1>6. path' \in Seq(Cells)
  BY <1>1, <1>2
<1>7. CASE Finds(e.cell)
  <2>1. Tracing'
    BY <1>3, <1>4, <1>5, <1>7 DEF Tracing, Chain, Touch
  <2> QED BY <1>1, <1>3, <1>4, <1>6, <1>7, <2>1 DEF CallInv
<1>8. CASE ~Finds(e.cell)
  <2>1. Searching'
    BY <1>3, <1>4, <1>5, <1>8 DEF Searching
  <2> QED BY <1>1, <1>3, <1>4, <1>6, <1>8, <2>1 DEF CallInv
<1> QED BY <1>7, <1>8

LEMMA GiveUpCall ==
    ASSUME CallInv, GiveUp, UNCHANGED CallArgs
    PROVE  CallInv'
<1>1. phase = "search" /\ phase' = "done" /\ UNCHANGED inputs /\ path' = path
  BY DEF GiveUp
<1>2. Placed /\ path = <<>> /\ path \in Seq(Cells)
  BY <1>1 DEF CallInv, Searching
<1>3. Placed' /\ Cells' = Cells
  BY <1>1, <1>2, PlacedKept
<1> QED BY <1>1, <1>2, <1>3 DEF CallInv

\* The stack grows towards the start and its bound is never met.
LEMMA TraceCall ==
    ASSUME CallInv, TracePath, UNCHANGED CallArgs
    PROVE  CallInv'
<1>1. /\ phase = "trace" /\ path' = (IF Len(path) < PathBound THEN <<at>> \o path ELSE path)
      /\ at' = parent[at] /\ phase' = (IF parent[at] = at THEN "done" ELSE "trace")
      /\ UNCHANGED inputs /\ closed' = closed /\ cost' = cost /\ parent' = parent
  BY DEF TracePath
<1>2. Placed /\ Tree /\ Tracing /\ path \in Seq(Cells)
  BY <1>1 DEF CallInv
<1>3. Placed' /\ Cells' = Cells /\ grid' = grid /\ start' = start /\ goal' = goal
  BY <1>1, <1>2, PlacedKept DEF inputs
<1>4. /\ start \in Cells /\ goal \in Cells
      /\ grid.rows \in Nat \ {0} /\ grid.cols \in Nat \ {0}
  BY <1>2, CallEnds, PlacedGrid
<1>5. Tree'
  BY <1>1, <1>2, <1>3 DEF Tree, Touch, IsUnBlocked
<1>6. closed \subseteq Cells /\ start \in closed /\ at \in Cells
  BY <1>2, <1>4 DEF Tree, Tracing
<1>7. path' \in Seq(Cells)
  <2>1. <<at>> \in Seq(Cells)
    BY <1>6
  <2>2. <<at>> \o path \in Seq(Cells)
    BY <1>2, <2>1, ConcatProperties
  <2> QED BY <1>1, <1>2, <2>2
<1>8. at # start => parent[at] \in closed /\ Touch(at, parent[at]) /\ parent[at] # at
  <2> SUFFICES ASSUME at # start PROVE parent[at] \in closed /\ Touch(at, parent[at]) /\ parent[at] # at
    OBVIOUS
  <2>1. parent[at] \in closed /\ Touch(at, parent[at])
    <3>1. CASE at = goal
      BY <1>2, <3>1 DEF Tracing
    <3>2. CASE at # goal
      <4>1. at \in DOMAIN cost \ {start}
        BY <1>2, <3>2 DEF Tracing, Tree
      <4> QED BY <1>2, <4>1 DEF Tree
    <3> QED BY <3>1, <3>2
  <2> QED BY <2>1 DEF Touch
<1>9. CASE start = goal
  <2>1. parent[at] \in closed /\ parent[at] # at
    <3>1. CASE at = goal
      BY <1>2, <3>1 DEF Tracing, Touch
    <3>2. CASE at # goal
      BY <1>8, <1>9, <3>2
    <3> QED BY <3>1, <3>2
  <2>2. phase' = "trace" /\ Tracing'
    BY <1>1, <1>2, <1>3, <1>9, <2>1 DEF Tracing, Touch
  <2> QED BY <1>3, <1>5, <1>7, <2>2 DEF CallInv
<1>10. CASE start # goal
  <2> DEFINE n == Len(path)
             q == <<at>> \o path
  <2>1. /\ parent[start] = start /\ Chain(path) /\ \A j \in 1..n - 1 : IsUnBlocked(path[j])
        /\ path = <<>> => at = goal
        /\ path # <<>> => /\ path[n] = goal /\ at \in closed /\ Touch(at, path[1])
                          /\ n + cost[at] = cost[parent[goal]] + 1
        /\ goal \in DOMAIN parent /\ parent[goal] \in closed /\ Touch(goal, parent[goal])
    BY <1>2, <1>10 DEF Tracing
  <2>2. n \in Nat /\ (path = <<>> <=> n = 0)
    BY <1>2
  <2>3. cost[parent[goal]] \in Nat /\ cost[parent[goal]] + 2 <= grid.rows * grid.cols
    <3>1. cost[parent[goal]] \in Nat
      BY <1>2, <2>1 DEF Tree
    <3> QED BY <1>2, <1>4, <1>10, <2>1, <3>1, CostBound
  <2>4. n < PathBound
    <3> DEFINE m == grid.rows * grid.cols
    <3>1. m \in Nat /\ PathBound = m
      BY <1>4 DEF PathBound
    <3>2. path # <<>> => cost[at] \in Nat
      BY <1>2, <2>1 DEF Tree
    <3> HIDE DEF m, n
    <3>3. cost[parent[goal]] + 2 <= m
      BY <2>3 DEF m
    <3>4. CASE path = <<>>
      BY <2>2, <2>3, <3>1, <3>3, <3>4
    <3>5. CASE path # <<>>
      BY <2>1, <2>2, <2>3, <3>1, <3>2, <3>3, <3>5
    <3> QED BY <3>4, <3>5
  <2>5. /\ path' = q /\ q \in Seq(Cells) /\ Len(q) = n + 1
        /\ q[1] = at /\ \A j \in 1..n : q[j + 1] = path[j]
    <3>1. path' = q /\ q \in Seq(Cells)
      BY <1>1, <1>7, <2>4
    <3>2. <<at>> \in Seq(Cells) /\ Len(<<at>>) = 1
      BY <1>6
    <3>3. /\ Len(q) = Len(<<at>>) + Len(path)
          /\ \A j \in 1..Len(<<at>>) + Len(path) :
               q[j] = IF j <= Len(<<at>>) THEN <<at>>[j] ELSE path[j - Len(<<at>>)]
      BY <1>2, <3>2, ConcatProperties
    <3> HIDE DEF q, n
    <3>4. Len(path) = n
      BY DEF n
    <3>5. Len(q) = n + 1
      BY <2>2, <3>2, <3>3, <3>4
    <3>6. q[1] = at
      <4>1. 1 \in 1..Len(<<at>>) + Len(path) /\ 1 <= Len(<<at>>) /\ <<at>>[1] = at
        BY <2>2, <3>2, <3>4
      <4> QED BY <3>3, <4>1
    <3>7. ASSUME NEW j \in 1..n PROVE q[j + 1] = path[j]
      <4>1. j + 1 \in 1..Len(<<at>>) + Len(path) /\ ~(j + 1 <= Len(<<at>>)) /\ (j + 1) - Len(<<at>>) = j
        BY <2>2, <3>2, <3>4
      <4> QED BY <3>3, <4>1
    <3> QED BY <3>1, <3>5, <3>6, <3>7
  <2> HIDE DEF q
  <2>6. Chain(q)
    <3> SUFFICES ASSUME NEW j \in 1..Len(q) - 1 PROVE Touch(q[j], q[j + 1])
      BY DEF Chain
    <3>1. j \in 1..n
      BY <2>2, <2>5
    <3>2. CASE j = 1
      <4>1. q[1 + 1] = path[1] /\ Touch(at, path[1])
        BY <2>1, <2>2, <2>5, <3>1, <3>2
      <4> QED BY <2>5, <3>2, <4>1
    <3>3. CASE j # 1
      <4>1. j - 1 \in 1..n - 1 /\ j - 1 \in 1..n /\ (j - 1) + 1 = j
        BY <2>2, <3>1, <3>3
      <4>2. Touch(path[j - 1], path[(j - 1) + 1])
        BY <2>1, <4>1 DEF Chain
      <4>3. q[j] = path[j - 1] /\ q[j + 1] = path[j]
        <5>1. q[(j - 1) + 1] = path[j - 1]
          BY <2>5, <4>1
        <5> QED BY <2>5, <3>1, <4>1, <5>1
      <4> QED BY <4>1, <4>2, <4>3
    <3> QED BY <3>2, <3>3
  <2>7. q[n + 1] = goal
    <3>1. CASE path = <<>>
      BY <2>1, <2>2, <2>5, <3>1
    <3>2. CASE path # <<>>
      <4>1. n \in 1..n
        BY <2>2, <3>2
      <4> QED BY <2>1, <2>5, <3>2, <4>1
    <3> QED BY <3>1, <3>2
  <2>8. \A j \in 2..n : IsUnBlocked(q[j])
    <3> SUFFICES ASSUME NEW j \in 2..n PROVE IsUnBlocked(q[j])
      OBVIOUS
    <3>1. j - 1 \in 1..n - 1 /\ j - 1 \in 1..n /\ (j - 1) + 1 = j
      BY <2>2
    <3>2. q[(j - 1) + 1] = path[j - 1]
      BY <2>5, <3>1
    <3> QED BY <2>1, <3>1, <3>2
  <2>9. CASE at = start
    <3>1. phase' = "done"
      BY <1>1, <2>1, <2>9
    <3>2. Led'
      <4>1. Chain(q) /\ q[1] = start /\ q[Len(q)] = goal /\ \A j \in 2..Len(q) - 1 : IsUnBlocked(q[j])
        BY <2>2, <2>5, <2>6, <2>7, <2>8, <2>9
      <4> QED BY <1>3, <2>5, <4>1 DEF Led, Chain, Touch, IsUnBlocked
    <3> QED BY <1>3, <1>7, <3>1, <3>2 DEF CallInv
  <2>10. CASE at # start
    <3>1. parent[at] \in closed /\ Touch(at, parent[at]) /\ phase' = "trace"
      BY <1>1, <1>8, <2>10
    <3>2. Touch(parent[at], at)
      BY <1>2, <1>6, <3>1, TouchPair
    <3>3. Len(q) + cost[parent[at]] = cost[parent[goal]] + 1
      <4>1. CASE path = <<>>
        <5>1. at = goal /\ n = 0 /\ Len(q) = n + 1
          BY <2>1, <2>2, <2>5, <4>1
        <5> HIDE DEF n
        <5> QED BY <2>3, <5>1
      <4>2. CASE path # <<>>
        <5>1. at \in DOMAIN cost \ {start} /\ parent[at] \in DOMAIN cost
          BY <1>2, <2>1, <2>10, <3>1, <4>2 DEF Tree
        <5>2. cost[at] = cost[parent[at]] + 1 /\ cost[at] \in Nat /\ cost[parent[at]] \in Nat
          BY <1>2, <5>1 DEF Tree
        <5>3. n + cost[at] = cost[parent[goal]] + 1 /\ Len(q) = n + 1
          BY <2>1, <2>5, <4>2
        <5> DEFINE l == Len(q)
                   ca == cost[at]
                   cp == cost[parent[at]]
                   cg == cost[parent[goal]]
        <5>4. cg \in Nat
          BY <2>3
        <5> HIDE DEF n, l, ca, cp, cg
        <5>5. l + cp = cg + 1
          <6>1. n + ca = cg + 1 /\ l = n + 1 /\ ca = cp + 1 /\ ca \in Nat /\ cp \in Nat
            BY <5>2, <5>3 DEF l, ca, cp, cg
          <6> QED BY <2>2, <5>4, <6>1
        <5> QED BY <5>5 DEF l, cp, cg
      <4> QED BY <4>1, <4>2
    <3>4. \A j \in 1..Len(q) - 1 : IsUnBlocked(q[j])
      <4> SUFFICES ASSUME NEW j \in 1..Len(q) - 1 PROVE IsUnBlocked(q[j])
        OBVIOUS
      <4>1. j \in 1..n
        BY <2>2, <2>5
      <4>2. CASE j = 1
        <5>1. at \in DOMAIN cost \ {start}
          BY <1>2, <2>1, <2>2, <2>10, <4>1 DEF Tree
        <5> QED BY <1>2, <2>5, <4>2, <5>1 DEF Tree
      <4>3. CASE j # 1
        BY <2>8, <4>1, <4>3
      <4> QED BY <4>2, <4>3
    <3>5. q # <<>> /\ q[Len(q)] = goal
      BY <2>2, <2>5, <2>7
    <3>6. Tracing'
      <4>1. /\ goal \in DOMAIN parent /\ parent[goal] \in closed /\ Touch(goal, parent[goal])
            /\ parent[at] \in closed /\ parent[start] = start
            /\ Chain(q) /\ \A j \in 1..Len(q) - 1 : IsUnBlocked(q[j])
            /\ q # <<>> /\ q[Len(q)] = goal /\ Touch(parent[at], q[1])
            /\ Len(q) + cost[parent[at]] = cost[parent[goal]] + 1
        BY <2>1, <2>5, <2>6, <3>1, <3>2, <3>3, <3>4, <3>5
      <4> QED BY <1>1, <1>3, <2>5, <4>1 DEF Tracing, Chain, Touch, IsUnBlocked
    <3> QED BY <1>3, <1>5, <1>7, <3>1, <3>6 DEF CallInv
  <2> QED BY <2>9, <2>10
<1> QED BY <1>9, <1>10

\* A call begins with nothing but the start.
Begun == /\ phase = "search" /\ Placed
         /\ open = {[g |-> 0, h2 |-> 0, cell |-> start]} /\ closed = {}
         /\ cost = [c \in {start} |-> 0] /\ parent = [c \in {start} |-> start]
         /\ at = goal /\ path = <<>>
LEMMA BegunCall == Begun => CallInv
<1> SUFFICES ASSUME Begun PROVE CallInv
  OBVIOUS
<1>1. start \in Cells /\ goal \in Cells /\ Placed
  BY CallEnds DEF Begun
<1>2. Tree /\ Searching
  BY <1>1 DEF Begun, Tree, Searching
<1>3. path \in Seq(Cells) /\ phase = "search"
  BY DEF Begun
<1> QED BY <1>1, <1>2, <1>3 DEF CallInv

-----------------------------------------------------------------------------
\* The path of a call that is done, in the coordinates of the map.
LEMMA DoneLeads ==
    ASSUME CallInv, ConstructPath
    PROVE  PathLeads'
<1> DEFINE n == Len(path)
           P(i) == ConvertFromGridToMapPoint(grid, path[i])
<1>1. /\ phase = "done" /\ poses' = [i \in DOMAIN path |-> P(i)]
      /\ map' = map /\ robot' = robot /\ target' = target
  BY DEF ConstructPath
<1>2. Placed /\ path \in Seq(Cells) /\ (path # <<>> => Led)
  BY <1>1 DEF CallInv
<1>3. n \in Nat /\ DOMAIN path = 1..n /\ (path = <<>> <=> n = 0) /\ \A i \in 1..n : path[i] \in Cells
  BY <1>2
<1>4. Len(poses') = n /\ \A i \in 1..n : poses'[i] = P(i)
  BY <1>1, <1>3
<1>5. poses' = <<>> <=> n = 0
  BY <1>1, <1>3
<1>6. /\ grid.x \in Int /\ grid.y \in Int /\ Resolution \in Nat \ {0}
      /\ grid.rows \in Nat \ {0} /\ grid.cols \in Nat \ {0}
  BY <1>2, PlacedGrid
<1>7. ASSUME NEW i \in 2..n
      PROVE  /\ P(i) # P(i - 1)
             /\ P(i).x - P(i - 1).x \in {-Resolution, 0, Resolution}
             /\ P(i).y - P(i - 1).y \in {-Resolution, 0, Resolution}
  <2> DEFINE c == path[i - 1]
             d == path[i]
  <2>1. i - 1 \in 1..n - 1 /\ (i - 1) + 1 = i /\ i \in 1..n /\ i - 1 \in 1..n /\ path # <<>>
    BY <1>3
  <2>2. Touch(c, d)
    <3>1. Chain(path)
      BY <1>2, <2>1 DEF Led
    <3>2. Touch(path[i - 1], path[(i - 1) + 1])
      BY <2>1, <3>1 DEF Chain
    <3> QED BY <2>1, <3>2
  <2>3. c \in Cells /\ d \in Cells
    BY <1>3, <2>1
  <2> HIDE DEF c, d
  <2>4. /\ c[1] \in Int /\ c[2] \in Int /\ d[1] \in Int /\ d[2] \in Int
        /\ c = <<c[1], c[2]>> /\ d = <<d[1], d[2]>>
    BY <1>6, <2>3 DEF Cells
  <2>5. /\ c[1] - d[1] \in -1..1 /\ c[2] - d[2] \in -1..1 /\ (c[1] # d[1] \/ c[2] # d[2])
    BY <2>2, <2>4 DEF Touch
  <2>6. P(i) = [x |-> d[2] * Resolution + grid.x, y |-> d[1] * Resolution + grid.y]
        /\ P(i - 1) = [x |-> c[2] * Resolution + grid.x, y |-> c[1] * Resolution + grid.y]
    BY DEF ConvertFromGridToMapPoint, c, d
  <2>7. \A a, b \in Int : a - b \in -1..1 =>
          /\ (b * Resolution + grid.x) - (a * Resolution + grid.x) =
               (IF a - b = 1 THEN -Resolution ELSE IF a = b THEN 0 ELSE Resolution)
          /\ (b * Resolution + grid.y) - (a * Resolution + grid.y) =
               (IF a - b = 1 THEN -Resolution ELSE IF a = b THEN 0 ELSE Resolution)
    <3> SUFFICES ASSUME NEW a \in Int, NEW b \in Int, a - b \in -1..1
                 PROVE  /\ (b * Resolution + grid.x) - (a * Resolution + grid.x) =
                             (IF a - b = 1 THEN -Resolution ELSE IF a = b THEN 0 ELSE Resolution)
                        /\ (b * Resolution + grid.y) - (a * Resolution + grid.y) =
                             (IF a - b = 1 THEN -Resolution ELSE IF a = b THEN 0 ELSE Resolution)
      OBVIOUS
    <3>1. a = b + 1 \/ a = b \/ b = a + 1
      OBVIOUS
    <3> DEFINE k == Resolution
               ak == a * k
               bk == b * k
    <3>2. k \in Int /\ ak \in Int /\ bk \in Int
      BY <1>6
    <3>3. a = b + 1 => ak = bk + k
      BY <1>6
    <3>4. b = a + 1 => bk = ak + k
      BY <1>6
    <3>5. a = b => ak = bk
      OBVIOUS
    <3> HIDE DEF k, ak, bk
    <3>6. /\ (bk + grid.x) - (ak + grid.x) = (IF a - b = 1 THEN -k ELSE IF a = b THEN 0 ELSE k)
          /\ (bk + grid.y) - (ak + grid.y) = (IF a - b = 1 THEN -k ELSE IF a = b THEN 0 ELSE k)
      <4>0. grid.x \in Int /\ grid.y \in Int
        BY <1>6
      <4> DEFINE gx == grid.x
                 gy == grid.y
      <4> HIDE DEF gx, gy
      <4>4. gx \in Int /\ gy \in Int
        BY <4>0 DEF gx, gy
      <4>5. /\ (bk + gx) - (ak + gx) = (IF a - b = 1 THEN -k ELSE IF a = b THEN 0 ELSE k)
            /\ (bk + gy) - (ak + gy) = (IF a - b = 1 THEN -k ELSE IF a = b THEN 0 ELSE k)
        <5>1. CASE a = b + 1
          BY <3>2, <3>3, <4>4, <5>1
        <5>2. CASE a = b
          BY <3>2, <3>5, <4>4, <5>2
        <5>3. CASE b = a + 1
          BY <3>2, <3>4, <4>4, <5>3
        <5> QED BY <3>1, <5>1, <5>2, <5>3
      <4> QED BY <4>5 DEF gx, gy
    <3> QED BY <3>6 DEF k, ak, bk
  <2>8. P(i).x - P(i - 1).x = (IF c[2] - d[2] = 1 THEN -Resolution ELSE IF c[2] = d[2] THEN 0 ELSE Resolution)
    BY <2>4, <2>5, <2>6, <2>7
  <2>9. P(i).y - P(i - 1).y = (IF c[1] - d[1] = 1 THEN -Resolution ELSE IF c[1] = d[1] THEN 0 ELSE Resolution)
    BY <2>4, <2>5, <2>6, <2>7
  <2>10. P(i) # P(i - 1)
    <3> SUFFICES ASSUME P(i) = P(i - 1) PROVE FALSE
      OBVIOUS
    <3>1. P(i).x \in Int /\ P(i).y \in Int
      <4>1. d[2] * Resolution \in Int /\ d[1] * Resolution \in Int
        BY <1>6, <2>4
      <4>2. P(i).x = d[2] * Resolution + grid.x /\ P(i).y = d[1] * Resolution + grid.y
        BY <2>6
      <4> QED BY <1>6, <4>1, <4>2
    <3>2. P(i).x - P(i - 1).x = 0 /\ P(i).y - P(i - 1).y = 0
      BY <3>1
    <3> QED BY <1>6, <2>4, <2>5, <2>8, <2>9, <3>2
  <2> QED BY <2>8, <2>9, <2>10
<1>8. ASSUME NEW i \in 2..n - 1 PROVE ~Blocked(P(i))
  <2>1. i \in 1..n /\ path # <<>>
    BY <1>3
  <2>2. IsUnBlocked(path[i]) /\ path[i] \in Cells
    BY <1>2, <1>3, <2>1 DEF Led
  <2> QED BY <1>2, <2>2, FreeOnMap
<1>9. n # 0 => /\ GapTo(robot, P(1)) = 0
               /\ \A row \in 0..map.rows - 1, col \in 0..map.cols - 1 :
                    GapTo(target, P(n)) <= GapTo(target, ConvertFromGridToMapPoint(map, <<row, col>>))
  <2>1. n # 0 => path[1] = start /\ path[n] = goal
    BY <1>2, <1>3 DEF Led
  <2> QED BY <1>2, <2>1, CallEnds
<1>10. \A i \in 2..n : i \in 1..n /\ i - 1 \in 1..n
  BY <1>3
<1>11. \A i \in 2..n - 1 : i \in 1..n
  BY <1>3
<1>12. n # 0 => 1 \in 1..n /\ n \in 1..n
  BY <1>3
<1> HIDE DEF P, n
<1>13. \A i \in 2..Len(poses') :
         /\ poses'[i] # poses'[i - 1]
         /\ poses'[i].x - poses'[i - 1].x \in {-Resolution, 0, Resolution}
         /\ poses'[i].y - poses'[i - 1].y \in {-Resolution, 0, Resolution}
  BY <1>4, <1>7, <1>10
<1>14. \A i \in 2..Len(poses') - 1 : (~Blocked(poses[i]))'
  <2> SUFFICES ASSUME NEW i \in 2..n - 1 PROVE (~Blocked(poses[i]))'
    BY <1>4
  <2>1. ~Blocked(poses'[i])
    BY <1>4, <1>8, <1>11
  <2> QED BY <1>1, <2>1 DEF Blocked
<1>15. poses' # <<>> =>
         /\ GapTo(robot', poses'[1]) = 0
         /\ \A row \in 0..map'.rows - 1, col \in 0..map'.cols - 1 :
              GapTo(target', poses'[Len(poses')])
                <= GapTo(target', ConvertFromGridToMapPoint(map', <<row, col>>))
  BY <1>1, <1>4, <1>5, <1>9, <1>12
<1> QED BY <1>13, <1>14, <1>15, Zenon DEF PathLeads, GapTo, Gap, ConvertFromGridToMapPoint

-----------------------------------------------------------------------------

LEMMA AtanType ==
    ASSUME NEW rise \in Int, NEW run \in Int
    PROVE  Atan(rise, run) \in -4..4
<1>1. Sign(rise) \in {-1, 0, 1} /\ Sign(run) \in {-1, 0, 1}
  BY DEF Sign
<1>2. Abs(rise) \in Nat /\ Abs(run) \in Nat
  BY DEF Abs
<1>3. Sign(Abs(rise)) \in {0, 1}
  BY <1>2 DEF Sign
<1>4. Sign(rise) * Sign(run) \in {-1, 0, 1}
  BY <1>1
<1> DEFINE st == IF Abs(rise) > Abs(run) THEN 3
                 ELSE IF Abs(rise) = Abs(run) THEN 2 ELSE Sign(Abs(rise))
<1>5. st \in 0..3
  BY <1>3
<1>6. Atan(rise, run) = IF run = 0 THEN 4 * Sign(rise) ELSE Sign(rise) * Sign(run) * st
  BY DEF Atan
<1> HIDE DEF st
<1> QED BY <1>1, <1>4, <1>5, <1>6

\* A path of k + 1 cells leads no further than k cells away.
LEMMA ChainReach ==
    ASSUME NEW p \in Seq(Int \X Int), p # <<>>, Chain(p)
    PROVE  Apart(p[1], p[Len(p)]) \in Int /\ Apart(p[1], p[Len(p)]) + 1 <= Len(p)
<1> DEFINE n == Len(p)
           a(k) == p[1][1] - p[k + 1][1]
           b(k) == p[1][2] - p[k + 1][2]
           T == {k \in Nat : k + 1 <= n => a(k) \in -k..k /\ b(k) \in -k..k}
<1>1. n \in Nat \ {0} /\ \A k \in 1..n : p[k] \in Int \X Int
  <2>1. n \in Nat /\ n # 0
    BY EmptySeq
  <2> QED BY <2>1, ElementOfSeq
<1>2. \A k \in 1..n : p[k][1] \in Int /\ p[k][2] \in Int
  BY <1>1
<1>3. \A j \in 1..n - 1 : p[j][1] - p[j + 1][1] \in -1..1 /\ p[j][2] - p[j + 1][2] \in -1..1
  BY DEF Chain, Touch
<1> HIDE DEF n
<1>4. 0 \in T
  <2>1. p[1][1] - p[1][1] = 0 /\ p[1][2] - p[1][2] = 0
    BY <1>1, <1>2
  <2> QED BY <2>1
<1>5. ASSUME NEW k \in Nat, k \in T PROVE k + 1 \in T
  <2> SUFFICES ASSUME (k + 1) + 1 <= n
               PROVE  a(k + 1) \in -(k + 1)..(k + 1) /\ b(k + 1) \in -(k + 1)..(k + 1)
    OBVIOUS
  <2>1. k + 1 \in 1..n - 1 /\ k + 1 \in 1..n /\ (k + 1) + 1 \in 1..n /\ 1 \in 1..n
    BY <1>1
  <2>2. a(k) \in -k..k /\ b(k) \in -k..k
    BY <1>5, <2>1
  <2> DEFINE c == p[k + 1]
             d == p[(k + 1) + 1]
             f == p[1]
  <2>3. /\ c[1] \in Int /\ d[1] \in Int /\ f[1] \in Int /\ c[2] \in Int /\ d[2] \in Int /\ f[2] \in Int
        /\ c[1] - d[1] \in -1..1 /\ c[2] - d[2] \in -1..1
        /\ f[1] - c[1] \in -k..k /\ f[2] - c[2] \in -k..k
    BY <1>2, <1>3, <2>1, <2>2
  <2> HIDE DEF c, d, f
  <2>4. \A u, v, w \in Int : u - v \in -k..k /\ v - w \in -1..1 => u - w \in -(k + 1)..(k + 1)
    OBVIOUS
  <2>5. f[1] - d[1] \in -(k + 1)..(k + 1) /\ f[2] - d[2] \in -(k + 1)..(k + 1)
    BY <2>3, <2>4
  <2> QED BY <2>5 DEF d, f
<1>6. n - 1 \in T
  <2>1. n - 1 \in Nat
    BY <1>1
  <2> HIDE DEF T
  <2>2. Nat \subseteq T
    BY <1>4, <1>5, NatSet
  <2> QED BY <2>1, <2>2
<1>7. n - 1 \in Nat /\ (n - 1) + 1 = n /\ a(n - 1) \in -(n - 1)..(n - 1) /\ b(n - 1) \in -(n - 1)..(n - 1)
  BY <1>1, <1>6
<1>8. /\ p[1][1] - p[n][1] \in -(n - 1)..(n - 1) /\ p[1][2] - p[n][2] \in -(n - 1)..(n - 1)
  BY <1>7
<1> HIDE DEF a, b, T
<1>9. Abs(p[1][1] - p[n][1]) \in 0..n - 1 /\ Abs(p[1][2] - p[n][2]) \in 0..n - 1
  <2> DEFINE u == p[1][1] - p[n][1]
             v == p[1][2] - p[n][2]
  <2>1. u \in -(n - 1)..(n - 1) /\ v \in -(n - 1)..(n - 1)
    BY <1>8
  <2> HIDE DEF u, v
  <2>2. Abs(u) \in 0..n - 1 /\ Abs(v) \in 0..n - 1
    BY <1>1, <2>1 DEF Abs
  <2> QED BY <2>2 DEF u, v
<1> QED BY <1>1, <1>9 DEF Apart, n

-----------------------------------------------------------------------------
\* The sums of pathToTwist() are numbers.
LEMMA CommonType == Common \in Int
<1> DEFINE n == num_poses
           Def(g) == [i \in 0..n |-> IF i = 0 THEN 1 ELSE i * g[i - 1]]
           product == CHOOSE g : g = Def(g)
           step == [e \in (1..n) \X Int |-> e[1] * e[2]]
<1>1. n \in Nat \ {0}
  BY NavigationAssumption
<1>2. Common = product[n]
  BY DEF Common
<1> HIDE DEF n, product
<1>3. step \in [(1..n) \X Int -> Int]
  BY <1>1
<1>4. \A j \in 1..n, s \in Int : step[<<j, s>>] = j * s
  OBVIOUS
<1> HIDE DEF step
<1>5. PICK f \in [0..n -> Int] : Unrolls(f, n, 1, step)
  <2>1. n \in Nat /\ 1 \in Int
    BY <1>1
  <2> QED BY <1>3, <2>1, Recursion
<1>6. f = Def(f)
  <2>1. ASSUME NEW j \in 0..n PROVE f[j] = Def(f)[j]
    <3>1. CASE j = 0
      BY <1>5, <3>1 DEF Unrolls
    <3>2. CASE j # 0
      <4>1. j \in 1..n /\ f[j - 1] \in Int
        BY <1>1, <3>2
      <4>2. f[j] = j * f[j - 1]
        BY <1>4, <1>5, <4>1 DEF Unrolls
      <4> QED BY <3>2, <4>2
    <3> QED BY <3>1, <3>2
  <2>2. f = [j \in 0..n |-> f[j]] /\ Def(f) = [j \in 0..n |-> Def(f)[j]]
    OBVIOUS
  <2> HIDE DEF Def
  <2> QED BY <2>1, <2>2
<1>7. product = Def(product)
  <2> HIDE DEF Def
  <2> QED BY <1>6, Zenon DEF product
<1>8. ASSUME NEW j \in 0..n PROVE product[j] = IF j = 0 THEN 1 ELSE j * product[j - 1]
  <2>1. ASSUME NEW g, g = Def(g) PROVE g[j] = IF j = 0 THEN 1 ELSE j * g[j - 1]
    <3>1. Def(g)[j] = IF j = 0 THEN 1 ELSE j * g[j - 1]
      OBVIOUS
    <3> HIDE DEF Def
    <3> QED BY <2>1, <3>1
  <2> HIDE DEF Def
  <2> QED BY <1>7, <2>1
<1> HIDE DEF Def
<1> DEFINE T == {j \in Nat : j <= n => product[j] \in Int}
<1>9. 0 \in T
  BY <1>1, <1>8
<1>10. ASSUME NEW j \in Nat, j \in T PROVE j + 1 \in T
  <2> SUFFICES ASSUME j + 1 <= n PROVE product[j + 1] \in Int
    OBVIOUS
  <2>1. j + 1 \in 0..n /\ (j + 1) - 1 = j /\ j + 1 # 0 /\ product[j] \in Int
    BY <1>1, <1>10
  <2>2. product[j + 1] = (j + 1) * product[(j + 1) - 1]
    BY <1>8, <2>1, Zenon
  <2> QED BY <2>1, <2>2
<1>11. n \in T
  <2> HIDE DEF T
  <2> QED BY <1>1, <1>9, <1>10, NatSet
<1> QED BY <1>1, <1>2, <1>11

LEMMA SumType ==
    ASSUME NEW v \in [1..num_poses -> Int]
    PROVE  WeightedSum(v) \in Int
<1> DEFINE n == num_poses - 1
           term == [i \in 1..n |-> v[i] * (Common \div i)]
           Def(g) == [i \in 0..n |-> IF i = 0 THEN 0 ELSE g[i - 1] + v[i] * (Common \div i)]
           sum == CHOOSE g : g = Def(g)
           step == [e \in (1..n) \X Int |-> e[2] + term[e[1]]]
<1>1. n \in Nat /\ \A i \in 1..n : term[i] = v[i] * (Common \div i) /\ term[i] \in Int
  <2>1. num_poses \in Nat \ {0}
    BY NavigationAssumption
  <2>2. ASSUME NEW i \in 1..n PROVE term[i] = v[i] * (Common \div i) /\ term[i] \in Int
    <3>1. i \in 1..num_poses /\ i \in Nat \ {0} /\ v[i] \in Int
      BY <2>1
    <3>2. Common \div i \in Int
      BY <3>1, CommonType, DivFacts
    <3> QED BY <3>1, <3>2
  <2> QED BY <2>1, <2>2
<1>2. WeightedSum(v) = sum[n]
  BY DEF WeightedSum
<1> HIDE DEF n, sum, term
<1>3. step \in [(1..n) \X Int -> Int]
  BY <1>1
<1>4. \A j \in 1..n, s \in Int : step[<<j, s>>] = s + term[j]
  OBVIOUS
<1> HIDE DEF step
<1>5. PICK f \in [0..n -> Int] : Unrolls(f, n, 0, step)
  <2>1. n \in Nat /\ 0 \in Int
    BY <1>1
  <2> QED BY <1>3, <2>1, Recursion
<1>6. f = Def(f)
  <2>1. ASSUME NEW j \in 0..n PROVE f[j] = Def(f)[j]
    <3>1. CASE j = 0
      BY <1>5, <3>1 DEF Unrolls
    <3>2. CASE j # 0
      <4>1. j \in 1..n /\ f[j - 1] \in Int
        BY <1>1, <3>2
      <4>2. f[j] = f[j - 1] + term[j]
        BY <1>4, <1>5, <4>1 DEF Unrolls
      <4>3. Def(f)[j] = f[j - 1] + v[j] * (Common \div j)
        BY <3>2
      <4> HIDE DEF Def
      <4> QED BY <1>1, <4>1, <4>2, <4>3
    <3> QED BY <3>1, <3>2
  <2>2. f = [j \in 0..n |-> f[j]] /\ Def(f) = [j \in 0..n |-> Def(f)[j]]
    OBVIOUS
  <2> HIDE DEF Def
  <2> QED BY <2>1, <2>2
<1>7. sum = Def(sum)
  <2> HIDE DEF Def
  <2> QED BY <1>6, Zenon DEF sum
<1>8. ASSUME NEW j \in 0..n PROVE sum[j] = IF j = 0 THEN 0 ELSE sum[j - 1] + v[j] * (Common \div j)
  <2>1. ASSUME NEW g, g = Def(g)
        PROVE  g[j] = IF j = 0 THEN 0 ELSE g[j - 1] + v[j] * (Common \div j)
    <3>1. Def(g)[j] = IF j = 0 THEN 0 ELSE g[j - 1] + v[j] * (Common \div j)
      OBVIOUS
    <3> HIDE DEF Def
    <3> QED BY <2>1, <3>1
  <2> HIDE DEF Def
  <2> QED BY <1>7, <2>1
<1> HIDE DEF Def
<1> DEFINE T == {j \in Nat : j <= n => sum[j] \in Int}
<1>9. 0 \in T
  BY <1>1, <1>8
<1>10. ASSUME NEW j \in Nat, j \in T PROVE j + 1 \in T
  <2> SUFFICES ASSUME j + 1 <= n PROVE sum[j + 1] \in Int
    OBVIOUS
  <2>1. j + 1 \in 0..n /\ j + 1 \in 1..n /\ (j + 1) - 1 = j /\ j + 1 # 0
    BY <1>1
  <2>2. sum[j] \in Int /\ term[j + 1] \in Int /\ term[j + 1] = v[j + 1] * (Common \div (j + 1))
    BY <1>1, <1>10, <2>1
  <2>3. sum[j + 1] = sum[(j + 1) - 1] + v[j + 1] * (Common \div (j + 1))
    BY <1>8, <2>1, Zenon
  <2> QED BY <2>1, <2>2, <2>3
<1>11. n \in T
  <2> HIDE DEF T
  <2> QED BY <1>1, <1>9, <1>10, NatSet
<1> QED BY <1>1, <1>2, <1>11

\* The turn rate takes the heading to the angle wanted by at most half a turn.
LEMMA TurnRateIs ==
    ASSUME NEW to \in -4..4, NEW h \in Int
    PROVE  TurnRate(to, h) \in -Half..Half /\ (h + TurnRate(to, h) - to) % Turn = 0
<1> DEFINE rate == Fmod(to - h, Turn)
<1>1. rate \in -15..15 /\ (h + rate - to) % 16 = 0
  <2>1. CASE to - h >= 0
    <3>1. rate = (to - h) % 16
      BY <2>1 DEF Fmod, Turn
    <3> QED BY <3>1
  <2>2. CASE ~(to - h >= 0)
    <3>1. rate = -((-(to - h)) % 16)
      BY <2>2 DEF Fmod, Turn
    <3> QED BY <3>1
  <2> QED BY <2>1, <2>2
<1>2. TurnRate(to, h) = IF rate > 8 THEN rate - 16 ELSE IF rate < -8 THEN rate + 16 ELSE rate
  BY DEF TurnRate, Half, Turn
<1> HIDE DEF rate
<1>3. TurnRate(to, h) \in -8..8 /\ TurnRate(to, h) \in {rate, rate - 16, rate + 16}
  BY <1>1, <1>2
<1>4. ASSUME NEW m \in {rate, rate - 16, rate + 16} PROVE (h + m - to) % 16 = 0
  BY <1>1
<1> QED BY <1>3, <1>4 DEF Half, Turn

\* atan() gives the direction, or the opposite one on the left.
LEMMA TurnIs ==
    ASSUME NEW x \in Int, NEW y \in Int, NEW h \in Int
    PROVE  LET turn == TurnRate(Atan(y, x), h)
           IN  /\ turn \in -Half..Half
               /\ (h + turn - Direction(x, y)) % Turn = IF x < 0 THEN Half ELSE 0
<1> DEFINE a == Atan(y, x)
           turn == TurnRate(a, h)
<1>1. a \in -4..4
  BY AtanType
<1>2. Direction(x, y) = IF x >= 0 THEN a ELSE IF y >= 0 THEN a + 8 ELSE a - 8
  BY DEF Direction, Half
<1> HIDE DEF a
<1>3. turn \in -8..8 /\ (h + turn - a) % 16 = 0
  BY <1>1, TurnRateIs DEF Half, Turn
<1> HIDE DEF turn
<1>4. (h + turn - Direction(x, y)) % 16 = IF x < 0 THEN 8 ELSE 0
  <2>1. CASE x >= 0
    BY <1>1, <1>2, <1>3, <2>1
  <2>2. CASE x < 0 /\ y >= 0
    <3>1. Direction(x, y) = a + 8
      BY <1>2, <2>2
    <3>2. (h + turn - (a + 8)) % 16 = 8
      BY <1>1, <1>3
    <3> QED BY <2>2, <3>1, <3>2
  <2>3. CASE x < 0 /\ y < 0
    <3>1. Direction(x, y) = a - 8
      BY <1>2, <2>3
    <3>2. (h + turn - (a - 8)) % 16 = 8
      BY <1>1, <1>3
    <3> QED BY <2>3, <3>1, <3>2
  <2> QED BY <2>1, <2>2, <2>3
<1> QED BY <1>3, <1>4 DEF turn, a, Half, Turn

-----------------------------------------------------------------------------

LeadsInv ==
    /\ CallInv
    /\ phase # "published" => poses = <<>>
    /\ PathLeads

LEMMA NoPoses == poses = <<>> => PathLeads
BY DEF PathLeads

LEMMA SearchLeads ==
    ASSUME LeadsInv, Search, UNCHANGED <<map, robot, target, poses>>
    PROVE  LeadsInv'
<1>1. UNCHANGED CallArgs /\ poses' = poses
  BY DEF CallArgs
<1>2. phase # "published" /\ phase' # "published"
  BY DEF Search, Expand, GiveUp, TracePath
<1>3. CallInv'
  BY <1>1, ExpandCall, GiveUpCall, TraceCall DEF LeadsInv, Search
<1>4. poses' = <<>>
  BY <1>1, <1>2 DEF LeadsInv
<1>5. PathLeads'
  BY <1>4 DEF PathLeads
<1> QED BY <1>3, <1>4, <1>5 DEF LeadsInv

LEMMA ConstructLeads ==
    ASSUME LeadsInv, ConstructPath
    PROVE  LeadsInv'
<1>1. PathLeads'
  BY DoneLeads DEF LeadsInv
<1>2. phase' = "published"
  BY DEF ConstructPath
<1> QED BY <1>1, <1>2 DEF LeadsInv, CallInv

LEMMA StutterLeads ==
    ASSUME LeadsInv, UNCHANGED vars
    PROVE  LeadsInv'
<1>1. /\ grid' = grid /\ start' = start /\ goal' = goal /\ open' = open /\ closed' = closed
      /\ cost' = cost /\ parent' = parent /\ phase' = phase /\ at' = at /\ path' = path
      /\ map' = map /\ robot' = robot /\ target' = target /\ poses' = poses
  BY DEF vars, searchVars, inputs
<1>2. PathLeads'
  BY <1>1 DEF LeadsInv, PathLeads, Blocked, GapTo, Gap, ConvertFromGridToMapPoint
<1>3. Cells' = Cells
  BY <1>1 DEF Cells
<1>4. phase # "published" => Placed' /\ path' \in Seq(Cells')
  BY <1>1, <1>3 DEF LeadsInv, CallInv, Placed
<1>5. phase \in {"search", "trace"} => Tree'
  BY <1>1, <1>3 DEF LeadsInv, CallInv, Tree, Touch, IsUnBlocked
<1>6. phase = "search" => Searching'
  BY <1>1 DEF LeadsInv, CallInv, Searching
<1>7. phase = "trace" => Tracing'
  BY <1>1 DEF LeadsInv, CallInv, Tracing, Touch, IsUnBlocked, Chain
<1>8. phase = "done" /\ path # <<>> => Led'
  BY <1>1 DEF LeadsInv, CallInv, Led, Touch, IsUnBlocked, Chain
<1> QED BY <1>1, <1>2, <1>4, <1>5, <1>6, <1>7, <1>8 DEF LeadsInv, CallInv

\* The path found leads from the robot's cell, over cells free in the map received, to
\* the one nearest the target, however the grid was enlarged (calculatePath).
THEOREM PathsLead == Spec => []PathLeads
<1>1. Init => LeadsInv
  <2> SUFFICES ASSUME Init PROVE LeadsInv
    OBVIOUS
  <2>1. Begun /\ poses = <<>>
    BY DEF Init, SearchInit, Begun, Placed
  <2> QED BY <2>1, BegunCall, NoPoses DEF LeadsInv
<1>2. LeadsInv /\ [Next]_vars => LeadsInv'
  BY SearchLeads, ConstructLeads, StutterLeads DEF Next
<1>3. LeadsInv => PathLeads
  BY DEF LeadsInv
<1> QED BY <1>1, <1>2, <1>3, PTL DEF Spec

-----------------------------------------------------------------------------
\* A path waiting has a point for every cell between its ends, or none at all.
LongEnough(r) ==
    /\ r.poses \in Seq([x : Int, y : Int]) /\ r.apart \in Int
    /\ r.poses = <<>> \/ r.apart + 1 <= Len(r.poses)
NodeInv ==
    /\ place \in Places
    /\ grids \in Seq(Grids) /\ Len(grids) <= QueueSize
    /\ goals \in Seq(Goals) /\ Len(goals) <= QueueSize
    /\ last_grid # <<>> => last_grid[1] \in Grids
    /\ last_goal # <<>> => last_goal[1] \in Goals
FollowerInv ==
    /\ paths # <<>> => LongEnough(paths[1])
    /\ pose # <<>> => pose[1].at \in [x : Int, y : Int] /\ pose[1].heading \in Int

LEMMA CallBegins ==
    ASSUME NEW g \in Grids, NEW r \in Places, NEW t \in Goals, CalculatePath(g, r, t)
    PROVE  LeadsInv'
<1>1. Begun'
  <2>1. g \in Maps /\ r \in Points /\ t \in Points /\ Covers(g, r)
    BY NavigationAssumption
  <2> QED BY <2>1 DEF CalculatePath, Begun, Placed
<1>2. CallInv'
  BY <1>1, BegunCall, PTL
<1>3. poses' = <<>>
  BY DEF CalculatePath
<1>4. PathLeads'
  BY <1>3 DEF PathLeads
<1> QED BY <1>2, <1>3, <1>4 DEF LeadsInv

\* What the nodes publish to each other.
LEMMA PublishLong ==
    ASSUME LeadsInv, Publish
    PROVE  paths' # <<>> /\ LongEnough(paths'[1])
<1> DEFINE n == Len(path)
           r == [poses |-> poses', target |-> target, apart |-> Apart(start, goal)]
<1>1. /\ phase = "done" /\ paths' = <<r>>
      /\ poses' = [i \in DOMAIN path |-> ConvertFromGridToMapPoint(grid, path[i])]
  BY DEF Publish, ConstructPath
<1>2. Placed /\ path \in Seq(Cells) /\ (path # <<>> => Led)
  BY <1>1 DEF LeadsInv, CallInv
<1>3. /\ grid.x \in Int /\ grid.y \in Int /\ Resolution \in Nat \ {0}
      /\ start \in Cells /\ goal \in Cells /\ Cells \subseteq Int \X Int
  BY <1>2, PlacedGrid, CallEnds DEF Cells
<1>4. poses' \in Seq([x : Int, y : Int]) /\ Len(poses') = n
  <2>1. ASSUME NEW i \in 1..n PROVE ConvertFromGridToMapPoint(grid, path[i]) \in [x : Int, y : Int]
    <3>1. path[i] \in Cells
      BY <1>2, ElementOfSeq
    <3>2. path[i][1] \in Int /\ path[i][2] \in Int
      BY <1>3, <3>1
    <3> DEFINE c == path[i][1] * Resolution
               d == path[i][2] * Resolution
    <3>3. c \in Int /\ d \in Int
      BY <1>3, <3>2
    <3>4. ConvertFromGridToMapPoint(grid, path[i]) = [x |-> d + grid.x, y |-> c + grid.y]
      BY DEF ConvertFromGridToMapPoint
    <3> HIDE DEF c, d
    <3> QED BY <1>3, <3>3, <3>4
  <2>2. n \in Nat /\ DOMAIN path = 1..n
    BY <1>2
  <2> DEFINE S == [x : Int, y : Int]
             g == [i \in 1..n |-> ConvertFromGridToMapPoint(grid, path[i])]
  <2>3. poses' = g
    BY <1>1, <2>2
  <2> HIDE DEF n
  <2>4. g \in [1..n -> S]
    BY <2>1
  <2> HIDE DEF S, g
  <2>5. g \in Seq(S) /\ Len(g) = n
    BY <2>2, <2>4
  <2> QED BY <2>3, <2>5 DEF S
<1>5. Apart(start, goal) \in Int
  <2>1. start[1] \in Int /\ start[2] \in Int /\ goal[1] \in Int /\ goal[2] \in Int
    BY <1>3
  <2> QED BY <2>1 DEF Apart, Abs
<1>6. path # <<>> => Apart(start, goal) + 1 <= n
  <2> SUFFICES ASSUME path # <<>> PROVE Apart(start, goal) + 1 <= n
    OBVIOUS
  <2>1. path \in Seq(Int \X Int)
    BY <1>2, <1>3, SeqMonotonic
  <2>2. Chain(path) /\ path[1] = start /\ path[n] = goal
    BY <1>2 DEF Led
  <2> QED BY <2>1, <2>2, ChainReach
<1>7. path = <<>> => poses' = <<>>
  BY <1>1
<1>8. r.poses = poses' /\ r.apart = Apart(start, goal)
  OBVIOUS
<1> HIDE DEF r
<1>9. LongEnough(r)
  BY <1>4, <1>5, <1>6, <1>7, <1>8 DEF LongEnough
<1> QED BY <1>1, <1>9

\* The twist for a path and a pose.
LEMMA CallbackSteers ==
    ASSUME FollowerInv, PathCallBack
    PROVE  SteersAlongPath'
<1> DEFINE r == paths[1]
           p == r.poses
           f == pose[1]
           X == [i \in DOMAIN p |-> p[i].x]
           Y == [i \in DOMAIN p |-> p[i].y]
           x == WeightedSum(CalcVectors(X, f.at.x))
           y == WeightedSum(CalcVectors(Y, f.at.y))
<1>1. /\ alive /\ followed' = <<r, pose>> /\ LongEnough(r)
      /\ IF pose = <<>> THEN twist' = Still /\ UNCHANGED alive
         ELSE IF Len(p) < num_poses
         THEN (twist' = AnyTwist /\ UNCHANGED alive) \/ (alive' = FALSE /\ UNCHANGED twist)
         ELSE twist' = PathToTwist(p, f) /\ UNCHANGED alive
  BY DEF PathCallBack, FollowerInv
<1>2. p \in Seq([x : Int, y : Int]) /\ r.apart \in Int /\ (p = <<>> \/ r.apart + 1 <= Len(p))
      /\ Len(p) \in Nat /\ num_poses \in Nat \ {0}
  BY <1>1, NavigationAssumption DEF LongEnough
<1>3. followed'[1] = r /\ followed'[2] = pose
  BY <1>1
<1>4. SteersAlongPath' <=>
        (followed' # <<>> /\ pose # <<>> =>
           IF twist' = AnyTwist \/ ~alive'
           THEN p = <<>> \/ r.apart < num_poses - 1
           ELSE \/ x = 0 /\ y = 0
                \/ /\ twist'.turn \in -Half..Half
                   /\ (f.heading + twist'.turn - Direction(x, y)) % Turn = IF x < 0 THEN Half ELSE 0)
  BY <1>3, Zenon DEF SteersAlongPath
<1> SUFFICES ASSUME pose # <<>>
             PROVE  IF twist' = AnyTwist \/ ~alive'
                    THEN p = <<>> \/ r.apart < num_poses - 1
                    ELSE \/ x = 0 /\ y = 0
                         \/ /\ twist'.turn \in -Half..Half
                            /\ (f.heading + twist'.turn - Direction(x, y)) % Turn
                                 = IF x < 0 THEN Half ELSE 0
  BY <1>4
<1>5. CASE Len(p) < num_poses
  <2>1. twist' = AnyTwist \/ ~alive'
    BY <1>1, <1>5
  <2>2. p = <<>> \/ r.apart < num_poses - 1
    <3> HIDE DEF p
    <3> QED BY <1>2, <1>5
  <2> QED BY <2>1, <2>2
<1>6. CASE ~(Len(p) < num_poses)
  <2>1. twist' = PathToTwist(p, f) /\ alive'
    BY <1>1, <1>6
  <2>2. f.at.x \in Int /\ f.at.y \in Int /\ f.heading \in Int
    BY DEF FollowerInv
  <2>3. \A i \in 1..num_poses : i \in DOMAIN p /\ p[i] \in [x : Int, y : Int]
    <3> DEFINE S == [x : Int, y : Int]
    <3>1. p \in Seq(S)
      BY <1>2
    <3> HIDE DEF p, S
    <3>2. DOMAIN p = 1..Len(p) /\ \A i \in 1..num_poses : i \in 1..Len(p)
      BY <1>2, <1>6, <3>1
    <3>3. \A i \in 1..num_poses : p[i] \in S
      BY <3>1, <3>2, ElementOfSeq
    <3> QED BY <3>2, <3>3 DEF S
  <2>4. CalcVectors(X, f.at.x) \in [1..num_poses -> Int] /\ CalcVectors(Y, f.at.y) \in [1..num_poses -> Int]
    <3>1. \A i \in 1..num_poses : X[i] \in Int /\ Y[i] \in Int
      BY <2>3
    <3>2. \A i \in 1..num_poses : i # 1 => i - 1 \in 1..num_poses
      BY <1>2
    <3> HIDE DEF X, Y, f
    <3> QED BY <2>2, <3>1, <3>2 DEF CalcVectors
  <2>5. x \in Int /\ y \in Int
    BY <2>4, SumType
  <2>6. PathToTwist(p, f) = [turn |-> IF x = 0 /\ y = 0 THEN NaN ELSE TurnRate(Atan(y, x), f.heading),
                             forward |-> TRUE]
    BY DEF PathToTwist
  <2> HIDE DEF x, y, f
  <2>7. CASE x = 0 /\ y = 0
    <3>1. twist'.turn = NaN
      BY <2>1, <2>6, <2>7
    <3>2. twist' # AnyTwist
      BY <3>1 DEF NaN, AnyTwist
    <3> QED BY <2>1, <2>7, <3>2
  <2>8. CASE ~(x = 0 /\ y = 0)
    <3>1. twist'.turn = TurnRate(Atan(y, x), f.heading)
      BY <2>1, <2>6, <2>8
    <3>2. /\ twist'.turn \in -Half..Half
          /\ (f.heading + twist'.turn - Direction(x, y)) % Turn = IF x < 0 THEN Half ELSE 0
      BY <2>2, <2>5, <3>1, TurnIs
    <3>3. twist' # AnyTwist
      BY <3>2 DEF Half, AnyTwist
    <3> QED BY <2>1, <3>2, <3>3
  <2> QED BY <2>7, <2>8
<1> QED BY <1>5, <1>6

NavInv == LeadsInv /\ NodeInv /\ FollowerInv /\ SteersAlongPath

LEMMA NavInit == NodesInit /\ NoCall => NavInv
<1> SUFFICES ASSUME NodesInit, NoCall PROVE NavInv
  OBVIOUS
<1>1. phase = "published" /\ poses = <<>>
  BY DEF NoCall
<1>2. LeadsInv
  BY <1>1, NoPoses DEF LeadsInv, CallInv
<1>3. NodeInv
  <2>1. place \in Places /\ grids = <<>> /\ goals = <<>> /\ last_grid = <<>> /\ last_goal = <<>>
    BY DEF NoCall, NodesInit
  <2>2. <<>> \in Seq(Grids) /\ <<>> \in Seq(Goals) /\ Len(<<>>) <= QueueSize
    BY NavigationAssumption
  <2> QED BY <2>1, <2>2 DEF NodeInv
<1>4. FollowerInv /\ SteersAlongPath
  BY DEF NodesInit, FollowerInv, SteersAlongPath
<1> QED BY <1>2, <1>3, <1>4 DEF NavInv

Steers(f, t, a) ==
    f # <<>> /\ f[2] # <<>> =>
      LET p == f[1].poses
          x == WeightedSum(CalcVectors([i \in DOMAIN p |-> p[i].x], f[2][1].at.x))
          y == WeightedSum(CalcVectors([i \in DOMAIN p |-> p[i].y], f[2][1].at.y))
      IN  IF t = AnyTwist \/ ~a
          THEN p = <<>> \/ f[1].apart < num_poses - 1
          ELSE \/ x = 0 /\ y = 0
               \/ /\ t.turn \in -Half..Half
                  /\ (f[2][1].heading + t.turn - Direction(x, y)) % Turn
                       = IF x < 0 THEN Half ELSE 0

LEMMA SteersKept ==
    ASSUME SteersAlongPath, UNCHANGED <<twist, followed, alive>>
    PROVE  SteersAlongPath'
<1>1. twist' = twist /\ followed' = followed /\ alive' = alive
  OBVIOUS
<1>2. SteersAlongPath <=> Steers(followed, twist, alive)
  BY Zenon DEF SteersAlongPath, Steers
<1>3. SteersAlongPath' <=> Steers(followed', twist', alive')
  BY Zenon DEF SteersAlongPath, Steers
<1> QED BY <1>1, <1>2, <1>3

LEMMA NavStep == NavInv /\ [NavNext]_navVars => NavInv'
<1> SUFFICES ASSUME NavInv, [NavNext]_navVars PROVE NavInv'
  OBVIOUS
<1> USE DEF NavInv
<1>1. ASSUME NEW p \in Places, Localise(p) PROVE NavInv'
  <2>1. UNCHANGED vars /\ UNCHANGED <<nodeVars, paths, followerVars>> /\ place' = p
    BY <1>1 DEF Localise
  <2>2. UNCHANGED <<twist, followed, alive>> /\ UNCHANGED <<paths, pose>>
    BY <2>1 DEF followerVars
  <2>3. NodeInv' /\ FollowerInv'
    BY <2>1, <2>2 DEF NodeInv, FollowerInv, nodeVars
  <2> QED BY <2>1, <2>2, <2>3, StutterLeads, SteersKept
<1>2. ASSUME NEW g \in Grids, SendGrid(g) PROVE NavInv'
  <2>1. /\ UNCHANGED vars /\ UNCHANGED <<place, goals, last_grid, last_goal, paths, pose>>
        /\ UNCHANGED <<twist, followed, alive>> /\ grids' = Deliver(grids, g, QueueSize)
    BY <1>2 DEF SendGrid, world, followerVars
  <2>2. grids' \in Seq(Grids) /\ Len(grids') <= QueueSize
    BY <2>1, DeliverFacts, NavigationAssumption DEF NodeInv
  <2>3. NodeInv' /\ FollowerInv'
    BY <2>1, <2>2 DEF NodeInv, FollowerInv
  <2> QED BY <2>1, <2>3, StutterLeads, SteersKept
<1>3. ASSUME NEW p \in Goals, SendGoal(p) PROVE NavInv'
  <2>1. /\ UNCHANGED vars /\ UNCHANGED <<place, grids, last_grid, last_goal, paths, pose>>
        /\ UNCHANGED <<twist, followed, alive>> /\ goals' = Deliver(goals, p, QueueSize)
    BY <1>3 DEF SendGoal, followerVars
  <2>2. goals' \in Seq(Goals) /\ Len(goals') <= QueueSize
    BY <2>1, DeliverFacts, NavigationAssumption DEF NodeInv
  <2>3. NodeInv' /\ FollowerInv'
    BY <2>1, <2>2 DEF NodeInv, FollowerInv
  <2> QED BY <2>1, <2>3, StutterLeads, SteersKept
<1>4. CASE OccupancyGridCallback
  <2>1. /\ grids # <<>> /\ grids' = Tail(grids) /\ last_grid' = <<Head(grids)>>
        /\ IF last_goal = <<>> THEN UNCHANGED vars
           ELSE UNCHANGED vars \/ CalculatePath(Head(grids), place, last_goal[1])
        /\ UNCHANGED <<place, goals, last_goal, paths, pose>> /\ UNCHANGED <<twist, followed, alive>>
    BY <1>4 DEF OccupancyGridCallback, PublishPath, world, followerVars
  <2>2. Head(grids) \in Grids /\ Tail(grids) \in Seq(Grids) /\ Len(Tail(grids)) <= QueueSize
    <3>1. grids \in Seq(Grids) /\ Len(grids) <= QueueSize /\ QueueSize \in Nat
      BY NavigationAssumption DEF NodeInv
    <3>2. Head(grids) \in Grids /\ Tail(grids) \in Seq(Grids) /\ Len(Tail(grids)) = Len(grids) - 1
      BY <2>1, <3>1, HandleFacts
    <3> QED BY <3>1, <3>2
  <2>3. NodeInv' /\ FollowerInv'
    BY <2>1, <2>2 DEF NodeInv, FollowerInv
  <2>4. LeadsInv'
    <3>1. CASE UNCHANGED vars
      BY <3>1, StutterLeads
    <3>2. CASE last_goal # <<>> /\ CalculatePath(Head(grids), place, last_goal[1])
      <4>1. place \in Places /\ last_goal[1] \in Goals
        BY <3>2 DEF NodeInv
      <4> QED BY <2>2, <3>2, <4>1, CallBegins
    <3> QED BY <2>1, <3>1, <3>2
  <2> QED BY <2>1, <2>3, <2>4, SteersKept
<1>5. CASE GoalCallback
  <2>1. /\ goals # <<>> /\ goals' = Tail(goals) /\ last_goal' = <<Head(goals)>>
        /\ IF last_grid = <<>> THEN UNCHANGED vars
           ELSE UNCHANGED vars \/ CalculatePath(last_grid[1], place, Head(goals))
        /\ UNCHANGED <<place, grids, last_grid, paths, pose>> /\ UNCHANGED <<twist, followed, alive>>
    BY <1>5 DEF GoalCallback, PublishPath, world, followerVars
  <2>2. Head(goals) \in Goals /\ Tail(goals) \in Seq(Goals) /\ Len(Tail(goals)) <= QueueSize
    <3>1. goals \in Seq(Goals) /\ Len(goals) <= QueueSize /\ QueueSize \in Nat
      BY NavigationAssumption DEF NodeInv
    <3>2. Head(goals) \in Goals /\ Tail(goals) \in Seq(Goals) /\ Len(Tail(goals)) = Len(goals) - 1
      BY <2>1, <3>1, HandleFacts
    <3> QED BY <3>1, <3>2
  <2>3. NodeInv' /\ FollowerInv'
    BY <2>1, <2>2 DEF NodeInv, FollowerInv
  <2>4. LeadsInv'
    <3>1. CASE UNCHANGED vars
      BY <3>1, StutterLeads
    <3>2. CASE last_grid # <<>> /\ CalculatePath(last_grid[1], place, Head(goals))
      <4>1. place \in Places /\ last_grid[1] \in Grids
        BY <3>2 DEF NodeInv
      <4> QED BY <2>2, <3>2, <4>1, CallBegins
    <3> QED BY <2>1, <3>1, <3>2
  <2> QED BY <2>1, <2>3, <2>4, SteersKept
<1>6. CASE Compute
  <2>1. /\ Search /\ UNCHANGED <<map, robot, target, poses>>
        /\ UNCHANGED <<place, grids, goals, last_grid, last_goal, paths, pose>>
        /\ UNCHANGED <<twist, followed, alive>>
    BY <1>6 DEF Compute, world, nodeVars, followerVars
  <2>2. NodeInv' /\ FollowerInv'
    BY <2>1 DEF NodeInv, FollowerInv
  <2> QED BY <2>1, <2>2, SearchLeads, SteersKept
<1>7. CASE Publish
  <2>1. /\ ConstructPath
        /\ UNCHANGED <<place, grids, goals, last_grid, last_goal, pose>>
        /\ UNCHANGED <<twist, followed, alive>>
    BY <1>7 DEF Publish, world, nodeVars, followerVars
  <2>2. NodeInv'
    BY <2>1 DEF NodeInv
  <2>3. FollowerInv'
    BY <1>7, <2>1, PublishLong DEF FollowerInv
  <2> QED BY <2>1, <2>2, <2>3, ConstructLeads, SteersKept
<1>8. ASSUME NEW h \in Headings, TfCallBack(h) PROVE NavInv'
  <2>1. /\ UNCHANGED vars /\ pose' = <<[at |-> place, heading |-> h]>>
        /\ UNCHANGED <<place, grids, goals, last_grid, last_goal, paths>>
        /\ UNCHANGED <<twist, followed, alive>>
    BY <1>8 DEF TfCallBack, world, nodeVars
  <2>2. NodeInv'
    BY <2>1 DEF NodeInv
  <2>3. pose'[1].at \in [x : Int, y : Int] /\ pose'[1].heading \in Int
    <3>1. place \in [x : Int, y : Int] /\ h \in Int
      BY PathAssumption, NavigationAssumption DEF NodeInv
    <3> QED BY <2>1, <3>1
  <2>4. FollowerInv'
    BY <2>1, <2>3 DEF FollowerInv
  <2> QED BY <2>1, <2>2, <2>4, StutterLeads, SteersKept
<1>9. CASE PathCallBack
  <2>1. /\ UNCHANGED vars /\ UNCHANGED <<place, grids, goals, last_grid, last_goal, pose>>
        /\ paths' = <<>>
    BY <1>9 DEF PathCallBack, world, nodeVars
  <2>2. NodeInv' /\ FollowerInv'
    BY <2>1 DEF NodeInv, FollowerInv
  <2> QED BY <1>9, <2>1, <2>2, StutterLeads, CallbackSteers
<1>10. CASE UNCHANGED navVars
  <2>1. /\ UNCHANGED vars /\ UNCHANGED <<place, grids, goals, last_grid, last_goal, paths, pose>>
        /\ UNCHANGED <<twist, followed, alive>>
    BY <1>10 DEF navVars, world, nodeVars, followerVars
  <2>2. NodeInv' /\ FollowerInv'
    BY <2>1 DEF NodeInv, FollowerInv
  <2> QED BY <2>1, <2>2, StutterLeads, SteersKept
<1> QED BY <1>1, <1>2, <1>3, <1>4, <1>5, <1>6, <1>7, <1>8, <1>9, <1>10
     DEF NavNext, World, Node, Follower

\* Whatever the nodes, the robot and the mapper do meanwhile, a Twist turns the robot into
\* the direction of the path it is for, or the opposite one on its left, and only a path
\* of a goal too near is read past its end (pathToTwist).
THEOREM SteersAlong == NavSpec => []SteersAlongPath
<1>1. NavInv => SteersAlongPath
  BY DEF NavInv
<1> QED BY NavInit, NavStep, <1>1, PTL DEF NavSpec
=============================================================================
