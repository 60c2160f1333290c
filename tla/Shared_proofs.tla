---------------------------- MODULE Shared_proofs ----------------------------
(***************************************************************************)
(* Facts that the proofs about several components use: induction, the      *)
(* concatenation of a sequence of sequences, and what every subscription   *)
(* queue of the nodes guarantees, for every size and whatever it carries.  *)
(***************************************************************************)
EXTENDS RosTopic, Integers, SequencesExt, SequenceTheorems, WellFoundedInduction, TLAPS

\* Induction, over sets of numbers.
LEMMA NatSet ==
    ASSUME NEW T, 0 \in T, \A n \in Nat : n \in T => n + 1 \in T
    PROVE  Nat \subseteq T
<1> DEFINE R == OpToRel(<, Nat)
           U == Nat \ T
<1>1. IsWellFoundedOn(R, Nat)
  BY NatLessThanWellFounded, Zenon
<1>2. ASSUME NEW a \in Nat, NEW b \in Nat, a < b PROVE <<a, b>> \in R
  BY <1>2 DEF OpToRel
<1> HIDE DEF R
<1> SUFFICES ASSUME U # {} PROVE FALSE
  OBVIOUS
<1>3. PICK t \in U : \A u \in U : <<u, t>> \notin R
  BY <1>1, WFMin, Zenon
<1>4. t - 1 \in Nat /\ t - 1 < t /\ t - 1 + 1 = t
  BY <1>3
<1>5. t - 1 \notin U
  BY <1>2, <1>3, <1>4
<1> QED BY <1>3, <1>4, <1>5

LEMMA LeastNat ==
    ASSUME NEW T, T \subseteq Nat, T # {}
    PROVE  \E t \in T : \A u \in T : t <= u
<1> DEFINE Below == {n \in Nat : \A u \in T : n <= u}
<1>1. 0 \in Below
  OBVIOUS
<1>2. PICK t \in T : TRUE
  OBVIOUS
<1>3. t + 1 \notin Below
  BY <1>2
<1>4. PICK n \in Nat : n \in Below /\ n + 1 \notin Below
  <2>1. t + 1 \in Nat
    BY <1>2
  <2> HIDE DEF Below
  <2> QED BY <1>1, <1>3, <2>1, NatSet
<1>5. PICK u \in T : ~(n + 1 <= u)
  BY <1>4
<1> QED BY <1>4, <1>5

\* A recursive function exists.
Unrolls(f, n, base, step) == f[0] = base /\ \A k \in 1..n : f[k] = step[<<k, f[k - 1]>>]

LEMMA Recursion ==
    ASSUME NEW S, NEW n \in Nat, NEW base \in S, NEW step \in [(1..n) \X S -> S]
    PROVE  \E f \in [0..n -> S] : Unrolls(f, n, base, step)
<1> USE DEF Unrolls
<1> DEFINE Good(m, f) == Unrolls(f, m, base, step)
           T == {m \in Nat : m <= n => \E f \in [0..m -> S] : Good(m, f)}
<1>1. 0 \in T
  <2> DEFINE f == [k \in 0..0 |-> base]
  <2>1. f \in [0..0 -> S] /\ Good(0, f)
    OBVIOUS
  <2> QED BY <2>1
<1>2. ASSUME NEW m \in Nat, m \in T PROVE m + 1 \in T
  <2> SUFFICES ASSUME m + 1 <= n PROVE \E f \in [0..m + 1 -> S] : Good(m + 1, f)
    OBVIOUS
  <2>1. PICK f \in [0..m -> S] : Good(m, f)
    BY <1>2
  <2> DEFINE c == step[<<m + 1, f[m]>>]
             g == [k \in 0..m + 1 |-> IF k = m + 1 THEN c ELSE f[k]]
  <2>2. c \in S
    <3>1. <<m + 1, f[m]>> \in (1..n) \X S
      OBVIOUS
    <3> QED BY <3>1
  <2> HIDE DEF c
  <2>3. g \in [0..m + 1 -> S]
    BY <2>2
  <2>4. g[0] = base
    BY <2>1
  <2>5. ASSUME NEW k \in 1..m + 1 PROVE g[k] = step[<<k, g[k - 1]>>]
    <3>1. CASE k = m + 1
      <4>1. g[k] = c /\ g[k - 1] = f[m]
        BY <3>1
      <4> QED BY <3>1, <4>1 DEF c
    <3>2. CASE k # m + 1
      <4>1. k \in 1..m /\ g[k] = f[k] /\ g[k - 1] = f[k - 1]
        BY <3>2
      <4> HIDE DEF g
      <4> QED BY <2>1, <4>1
    <3> QED BY <3>1, <3>2
  <2> HIDE DEF g
  <2> QED BY <2>3, <2>4, <2>5
<1>3. n \in T
  <2> HIDE DEF T
  <2> QED BY <1>1, <1>2, NatSet
<1> QED BY <1>3

-----------------------------------------------------------------------------
LEMMA SeqIsItems ==
    ASSUME NEW S, NEW s \in Seq(S)
    PROVE  s = [j \in 1..Len(s) |-> s[j]]
OBVIOUS

\* A sequence back to front.
LEMMA ReverseIs ==
    ASSUME NEW S, NEW s \in Seq(S)
    PROVE  /\ Reverse(s) \in Seq(S) /\ Len(Reverse(s)) = Len(s)
           /\ Reverse(s) = [i \in 1..Len(s) |-> s[Len(s) + 1 - i]]
<1>1. Len(s) \in Nat /\ \A i \in 1..Len(s) :
         Len(s) + 1 - i \in 1..Len(s) /\ (Len(s) - i) + 1 = Len(s) + 1 - i
  OBVIOUS
<1> QED BY <1>1 DEF Reverse

\* A sequence without one of its elements.
LEMMA RemoveAtIs ==
    ASSUME NEW S, NEW s \in Seq(S), NEW k \in 1..Len(s)
    PROVE  /\ RemoveAt(s, k) \in Seq(S) /\ Len(RemoveAt(s, k)) = Len(s) - 1
           /\ \A j \in 1..Len(s) - 1 :
                 RemoveAt(s, k)[j] = IF j < k THEN s[j] ELSE s[j + 1]
<1> DEFINE a == SubSeq(s, 1, k - 1)
           b == SubSeq(s, k + 1, Len(s))
           t == a \o b
           n == Len(s)
<1>1. n \in Nat /\ k \in 1..n /\ s[k] \in S
  OBVIOUS
<1>2. a \in Seq(S) /\ Len(a) = k - 1 /\ \A j \in 1..k - 1 : a[j] = s[j]
  BY <1>1
<1>3. b \in Seq(S) /\ Len(b) = n - k /\ \A j \in 1..n - k : b[j] = s[j + k]
  <2>1. b \in Seq(S) /\ Len(b) = n - k
    BY <1>1
  <2>2. ASSUME NEW j \in 1..n - k PROVE b[j] = s[j + k]
    <3>1. b[j] = s[k + 1 + j - 1] /\ k + 1 + j - 1 = j + k
      BY <1>1
    <3> QED BY <3>1
  <2> QED BY <2>1, <2>2
<1> HIDE DEF a, b
<1>4. t \in Seq(S) /\ Len(t) = Len(a) + Len(b)
      /\ \A j \in 1..Len(a) + Len(b) : t[j] = IF j <= Len(a) THEN a[j] ELSE b[j - Len(a)]
  BY <1>2, <1>3, ConcatProperties
<1>5. Len(t) = n - 1
  BY <1>1, <1>2, <1>3, <1>4
<1> HIDE DEF t
<1>6. ASSUME NEW j \in 1..Len(t) PROVE t[j] = IF j < k THEN s[j] ELSE s[j + 1]
  <2>1. j \in 1..n - 1 /\ j \in 1..Len(a) + Len(b)
    BY <1>4, <1>5
  <2>2. CASE j < k
    <3>1. j \in 1..k - 1 /\ j <= Len(a)
      BY <1>1, <1>2, <2>1, <2>2
    <3> QED BY <1>2, <1>4, <2>1, <2>2, <3>1
  <2>3. CASE ~(j < k)
    <3>1. j - Len(a) \in 1..n - k /\ ~(j <= Len(a)) /\ j - Len(a) + k = j + 1
      BY <1>1, <1>2, <2>1, <2>3
    <3>2. t[j] = b[j - Len(a)]
      BY <1>4, <2>1, <3>1
    <3>3. b[j - Len(a)] = s[j - Len(a) + k]
      BY <1>3, <3>1
    <3> QED BY <2>3, <3>1, <3>2, <3>3
  <2> QED BY <2>2, <2>3
<1> QED BY <1>4, <1>5, <1>6 DEF t, a, b, RemoveAt, n

\* A sequence with one more element.
LEMMA InsertAtIs ==
    ASSUME NEW S, NEW s \in Seq(S), NEW k \in 1..Len(s) + 1, NEW e \in S
    PROVE  /\ InsertAt(s, k, e) \in Seq(S) /\ Len(InsertAt(s, k, e)) = Len(s) + 1
           /\ \A j \in 1..Len(s) : InsertAt(s, k, e)[IF j < k THEN j ELSE j + 1] = s[j]
<1> DEFINE a == SubSeq(s, 1, k - 1)
           b == SubSeq(s, k, Len(s))
           n == Len(s)
           u == a \o <<e>>
           t == u \o b
<1>1. n \in Nat /\ k \in 1..n + 1
  OBVIOUS
<1>2. a \in Seq(S) /\ Len(a) = k - 1 /\ \A j \in 1..k - 1 : a[j] = s[j]
  BY <1>1
<1>3. b \in Seq(S) /\ Len(b) = n - k + 1 /\ \A j \in 1..n - k + 1 : b[j] = s[k + j - 1]
  BY <1>1
<1>4. <<e>> \in Seq(S) /\ Len(<<e>>) = 1
  OBVIOUS
<1> HIDE DEF a, b
<1>5. u \in Seq(S) /\ Len(u) = k /\ \A j \in 1..k - 1 : u[j] = s[j]
  <2>1. u \in Seq(S) /\ Len(u) = Len(a) + Len(<<e>>)
        /\ \A j \in 1..Len(a) + Len(<<e>>) : u[j] = IF j <= Len(a) THEN a[j] ELSE <<e>>[j - Len(a)]
    BY <1>2, <1>4, ConcatProperties
  <2> HIDE DEF u
  <2>2. Len(u) = k /\ k \in Nat
    BY <1>1, <1>2, <1>4, <2>1
  <2>3. ASSUME NEW j \in 1..k - 1 PROVE u[j] = s[j]
    <3>1. j \in 1..Len(a) + Len(<<e>>) /\ j <= Len(a)
      BY <1>1, <1>2, <1>4
    <3> QED BY <1>2, <2>1, <3>1
  <2> QED BY <2>1, <2>2, <2>3
<1> HIDE DEF u
<1>6. t \in Seq(S) /\ Len(t) = Len(u) + Len(b)
      /\ \A j \in 1..Len(u) + Len(b) : t[j] = IF j <= Len(u) THEN u[j] ELSE b[j - Len(u)]
  BY <1>3, <1>5, ConcatProperties
<1>7. t = InsertAt(s, k, e)
  BY DEF t, u, a, b, InsertAt
<1> HIDE DEF t
<1>8. ASSUME NEW j \in 1..n PROVE t[IF j < k THEN j ELSE j + 1] = s[j]
  <2>1. CASE j < k
    <3>1. j \in 1..k - 1 /\ j \in 1..Len(u) + Len(b) /\ j <= Len(u)
      BY <1>1, <1>3, <1>5, <2>1
    <3> QED BY <1>5, <1>6, <2>1, <3>1
  <2>2. CASE ~(j < k)
    <3>1. /\ j + 1 \in 1..Len(u) + Len(b) /\ ~(j + 1 <= Len(u))
          /\ (j + 1) - Len(u) \in 1..n - k + 1 /\ k + ((j + 1) - Len(u)) - 1 = j
      BY <1>1, <1>3, <1>5, <2>2
    <3>2. t[j + 1] = b[(j + 1) - Len(u)]
      BY <1>6, <3>1
    <3>3. b[(j + 1) - Len(u)] = s[k + ((j + 1) - Len(u)) - 1]
      BY <1>3, <3>1
    <3> QED BY <2>2, <3>1, <3>2, <3>3
  <2> QED BY <2>1, <2>2
<1> QED BY <1>1, <1>3, <1>5, <1>6, <1>7, <1>8

\* The quotient of a division, whole.
LEMMA DivFacts ==
    ASSUME NEW a \in Int, NEW b \in Nat \ {0}
    PROVE  a \div b \in Int /\ b * (a \div b) <= a /\ a < b * (a \div b) + b
OBVIOUS

\* A sequence is the concatenation of others: f[k] is that of the first k.
Sums(f, ss, n) == \A k \in 1..n : f[k] = f[k - 1] \o ss[k]
SumIs(S, ss, n, h) ==
    \E f \in [0..n -> Seq(S)] : f[0] = <<>> /\ f[n] = h /\ Sums(f, ss, n)
Flat(S, ss, h) == SumIs(S, ss, Len(ss), h)

LEMMA FlatIs ==
    ASSUME NEW S, NEW ss \in Seq(Seq(S)), NEW h, Flat(S, ss, h)
    PROVE  FlattenSeq(ss) = h /\ h \in Seq(S)
<1> DEFINE n == Len(ss)
<1>1. PICK f \in [0..n -> Seq(S)] :
         f[0] = <<>> /\ f[n] = h /\ \A k \in 1..n : f[k] = f[k - 1] \o ss[k]
  BY DEF Flat, SumIs, Sums
<1>2. n \in Nat /\ \A k \in 1..n : ss[k] \in Seq(S)
  OBVIOUS
<1>3. h \in Seq(S)
  BY <1>1, <1>2
<1>4. n # 0 => f[1] = ss[1]
  <2> SUFFICES ASSUME n # 0 PROVE f[1] = ss[1]
    OBVIOUS
  <2> HIDE DEF n
  <2>1. 1 \in 1..n /\ 1 - 1 = 0
    BY <1>2
  <2>2. f[1] = f[0] \o ss[1]
    BY <1>1, <2>1
  <2>3. f[1] = <<>> \o ss[1] /\ ss[1] \in Seq(S)
    BY <1>1, <1>2, <2>1, <2>2
  <2> QED BY <2>3, ConcatEmptySeq
<1>5. CASE n = 0
  <2>1. ss = <<>>
    BY <1>5
  <2>2. FlattenSeq(ss) = <<>>
    BY <2>1 DEF FlattenSeq
  <2> HIDE DEF n
  <2> QED BY <1>1, <1>3, <1>5, <2>2
<1>6. CASE n # 0
  <2> DEFINE Def(g) == [i \in 1..n |-> IF i = 1 THEN ss[i] ELSE g[i - 1] \o ss[i]]
             flatten == CHOOSE g : g = Def(g)
             e == [i \in 1..n |-> f[i]]
  <2>1. FlattenSeq(ss) = flatten[n]
    BY <1>6 DEF FlattenSeq
  <2> HIDE DEF n
  <2>2. e = Def(e)
    <3>1. ASSUME NEW i \in 1..n PROVE e[i] = Def(e)[i]
      <4>1. CASE i = 1
        <5>1. e[i] = f[1] /\ Def(e)[i] = ss[1] /\ n # 0
          BY <1>2, <4>1
        <5> QED BY <1>4, <5>1
      <4>2. CASE i # 1
        <5>1. i - 1 \in 1..n /\ i \in Int
          BY <1>2, <4>2
        <5>2. e[i] = f[i] /\ Def(e)[i] = f[i - 1] \o ss[i]
          BY <4>2, <5>1
        <5> QED BY <1>1, <5>2
      <4> QED BY <4>1, <4>2
    <3>2. e = [i \in 1..n |-> e[i]] /\ Def(e) = [i \in 1..n |-> Def(e)[i]]
      OBVIOUS
    <3> HIDE DEF e, Def
    <3> QED BY <3>1, <3>2
  <2>3. flatten = Def(flatten)
    <3> HIDE DEF Def, e
    <3> QED BY <2>2, Zenon
  <2> HIDE DEF flatten, e
  <2>4. \A i \in 1..n : flatten[i] = (IF i = 1 THEN ss[i] ELSE flatten[i - 1] \o ss[i])
    <3>1. ASSUME NEW g, g = Def(g), NEW i \in 1..n
          PROVE  g[i] = (IF i = 1 THEN ss[i] ELSE g[i - 1] \o ss[i])
      <4>1. Def(g)[i] = (IF i = 1 THEN ss[i] ELSE g[i - 1] \o ss[i])
        OBVIOUS
      <4> HIDE DEF Def
      <4> QED BY <3>1, <4>1
    <3> HIDE DEF Def
    <3> QED BY <2>3, <3>1
  <2> HIDE DEF Def
  <2>5. ASSUME NEW i \in 1..n, i # 1, flatten[i - 1] = f[i - 1] PROVE flatten[i] = f[i]
    <3>1. flatten[i] = flatten[i - 1] \o ss[i]
      BY <2>4, <2>5
    <3>2. f[i] = f[i - 1] \o ss[i]
      BY <1>1
    <3> QED BY <2>5, <3>1, <3>2
  <2> DEFINE T == {k \in Nat : k \in 1..n => flatten[k] = f[k]}
  <2>6. 0 \in T
    BY <1>2
  <2>7. ASSUME NEW k \in Nat, k \in T PROVE k + 1 \in T
    <3> SUFFICES ASSUME k + 1 \in 1..n PROVE flatten[k + 1] = f[k + 1]
      OBVIOUS
    <3>1. CASE k = 0
      <4>1. k + 1 = 1
        BY <3>1
      <4>2. flatten[1] = ss[1]
        BY <2>4, <4>1
      <4> QED BY <1>4, <1>6, <4>1, <4>2
    <3>2. CASE k # 0
      <4>1. k + 1 - 1 = k /\ k + 1 # 1 /\ k \in 1..n
        BY <1>2, <3>2
      <4>2. flatten[k] = f[k]
        BY <2>7, <4>1
      <4>3. flatten[k + 1 - 1] = f[k + 1 - 1]
        BY <4>1, <4>2
      <4> QED BY <2>5, <4>1, <4>3
    <3> QED BY <3>1, <3>2
  <2>8. n \in T
    <3> HIDE DEF T
    <3> QED BY <1>2, <2>6, <2>7, NatSet
  <2>9. flatten[n] = f[n]
    BY <1>2, <1>6, <2>8
  <2> QED BY <1>1, <1>3, <2>1, <2>9
<1> QED BY <1>5, <1>6

LEMMA FlatEmpty == \A S : Flat(S, <<>>, <<>>)
<1> SUFFICES ASSUME NEW S PROVE Flat(S, <<>>, <<>>)
  OBVIOUS
<1> DEFINE f == [k \in 0..0 |-> <<>>]
<1>1. f \in [0..0 -> Seq(S)] /\ f[0] = <<>> /\ Len(<<>>) = 0
  OBVIOUS
<1> HIDE DEF f
<1> QED BY <1>1 DEF Flat, SumIs, Sums

LEMMA FlatAppend ==
    ASSUME NEW S, NEW ss \in Seq(Seq(S)), NEW h, Flat(S, ss, h), NEW s \in Seq(S)
    PROVE  Flat(S, Append(ss, s), h \o s)
<1> DEFINE n == Len(ss)
           tt == Append(ss, s)
<1>1. PICK f \in [0..n -> Seq(S)] :
         f[0] = <<>> /\ f[n] = h /\ \A k \in 1..n : f[k] = f[k - 1] \o ss[k]
  BY DEF Flat, SumIs, Sums
<1>2. n \in Nat /\ Len(tt) = n + 1 /\ tt[n + 1] = s /\ \A k \in 1..n : tt[k] = ss[k]
  BY AppendProperties
<1> DEFINE hs == h \o s
           g == [k \in 0..n + 1 |-> IF k = n + 1 THEN hs ELSE f[k]]
<1>3. hs \in Seq(S)
  <2>1. h \in Seq(S)
    BY <1>1, <1>2
  <2> QED BY <2>1, ConcatProperties
<1> HIDE DEF n, tt, hs
<1>4. g \in [0..n + 1 -> Seq(S)] /\ g[0] = <<>> /\ g[n + 1] = hs
  BY <1>1, <1>2, <1>3
<1>5. ASSUME NEW k \in 1..n + 1 PROVE g[k] = g[k - 1] \o tt[k]
  <2>1. CASE k = n + 1
    <3>1. g[k] = hs /\ g[k - 1] = h /\ tt[k] = s
      BY <1>1, <1>2, <2>1
    <3> HIDE DEF g
    <3> QED BY <3>1 DEF hs
  <2>2. CASE k # n + 1
    <3>1. k \in 1..n /\ g[k] = f[k] /\ g[k - 1] = f[k - 1] /\ tt[k] = ss[k]
      BY <1>2, <2>2
    <3> HIDE DEF g
    <3> QED BY <1>1, <3>1
  <2> QED BY <2>1, <2>2
<1> HIDE DEF g
<1> QED BY <1>2, <1>4, <1>5 DEF Flat, SumIs, Sums, hs, tt

Cat(a, b) == a \o b
LEMMA Regroup == \A S : \A a, b, c \in Seq(S) : Cat(Cat(a, b), c) = Cat(a, Cat(b, c))
BY ConcatAssociative DEF Cat

\* Two neighbours of the sequences become one.
Merged(ss, tt, k, n) == \A j \in 1..n :
    tt[j] = IF j < k THEN ss[j] ELSE IF j = k THEN ss[k] \o ss[k + 1] ELSE ss[j + 1]

LEMMA MergedSums ==
    ASSUME NEW S, NEW n \in Nat, NEW k \in 1..n, NEW h, NEW ss, NEW tt, SumIs(S, ss, n + 1, h),
           ss[k] \in Seq(S), ss[k + 1] \in Seq(S), Merged(ss, tt, k, n)
    PROVE  SumIs(S, tt, n, h)
<1>1. PICK f \in [0..n + 1 -> Seq(S)] : f[0] = <<>> /\ f[n + 1] = h /\ Sums(f, ss, n + 1)
  BY DEF SumIs
<1>2. ASSUME NEW j \in 0..n PROVE f[j + 1] = f[j] \o ss[j + 1]
  <2>1. j + 1 \in 1..n + 1 /\ (j + 1) - 1 = j
    OBVIOUS
  <2>2. f[j + 1] = f[(j + 1) - 1] \o ss[j + 1]
    BY <1>1, <2>1, Zenon DEF Sums
  <2> QED BY <2>1, <2>2, Zenon
<1> DEFINE g == [j \in 0..n |-> IF j < k THEN f[j] ELSE f[j + 1]]
<1>3. ASSUME NEW j \in 0..n PROVE g[j] = (IF j < k THEN f[j] ELSE f[j + 1]) /\ g[j] \in Seq(S)
  OBVIOUS
<1>4. g \in [0..n -> Seq(S)]
  BY <1>3
<1>5. g[0] = <<>> /\ g[n] = h
  BY <1>3, <1>1
<1> HIDE DEF g
<1>6. ASSUME NEW j \in 1..n PROVE g[j] = g[j - 1] \o tt[j]
  <2>1. j \in 0..n /\ j - 1 \in 0..n /\ j \in 1..n + 1 /\ j - 1 + 1 = j
    OBVIOUS
  <2>2. CASE j < k
    <3>1. g[j] = f[j] /\ g[j - 1] = f[j - 1]
      BY <1>3, <2>1, <2>2
    <3>2. tt[j] = ss[j]
      BY <2>2, Zenon DEF Merged
    <3>3. f[j] = f[j - 1] \o ss[j]
      BY <1>1, <2>1, Zenon DEF Sums
    <3> QED BY <3>1, <3>2, <3>3
  <2>3. CASE j = k
    <3>1. g[j] = f[j + 1] /\ g[j - 1] = f[j - 1]
      <4>1. ~(j < k) /\ j - 1 < k
        BY <2>3
      <4> QED BY <1>3, <2>1, <4>1, Zenon
    <3>6. tt[j] = ss[j] \o ss[j + 1]
      <4>1. ~(j < k)
        BY <2>3
      <4> QED BY <2>3, <4>1, Zenon DEF Merged
    <3>2. f[j + 1] = f[j] \o ss[j + 1]
      BY <1>2, <2>1
    <3>3. f[j] = f[j - 1] \o ss[j]
      BY <1>1, <2>1, Zenon DEF Sums
    <3>4. f[j - 1] \in Seq(S) /\ ss[j] \in Seq(S) /\ ss[j + 1] \in Seq(S)
      BY <2>1, <2>3
    <3>5. f[j + 1] = f[j - 1] \o (ss[j] \o ss[j + 1])
      <4>1. f[j + 1] = (f[j - 1] \o ss[j]) \o ss[j + 1]
        BY <3>2, <3>3, Zenon
      <4>2. (f[j - 1] \o ss[j]) \o ss[j + 1] = f[j - 1] \o (ss[j] \o ss[j + 1])
        <5>1. Cat(Cat(f[j - 1], ss[j]), ss[j + 1]) = Cat(f[j - 1], Cat(ss[j], ss[j + 1]))
          BY <3>4, Regroup
        <5> QED BY <5>1, Zenon DEF Cat
      <4> QED BY <4>1, <4>2, Zenon
    <3> QED BY <3>1, <3>5, <3>6, Zenon
  <2>4. CASE j > k
    <3>1. ~(j < k) /\ ~(j - 1 < k) /\ j # k
      BY <2>4
    <3>2. g[j] = f[j + 1] /\ g[j - 1] = f[j - 1 + 1] /\ tt[j] = ss[j + 1]
      BY <1>3, <2>1, <3>1, Zenon DEF Merged
    <3>3. f[j + 1] = f[j] \o ss[j + 1]
      BY <1>2, <2>1, Zenon
    <3> QED BY <2>1, <3>2, <3>3, Zenon
  <2>5. j < k \/ j = k \/ j > k
    OBVIOUS
  <2> QED BY <2>2, <2>3, <2>4, <2>5, Zenon
<1> QED BY <1>4, <1>5, <1>6 DEF Sums, SumIs

LEMMA FlatMerge ==
    ASSUME NEW S, NEW ss \in Seq(Seq(S)), NEW h, Flat(S, ss, h), NEW k \in 1..Len(ss) - 1,
           NEW tt \in Seq(Seq(S)), Len(tt) = Len(ss) - 1, Merged(ss, tt, k, Len(tt))
    PROVE  Flat(S, tt, h)
<1> DEFINE n == Len(tt)
<1>1. n \in Nat /\ Len(ss) = n + 1 /\ k \in 1..n /\ k + 1 \in 1..n + 1
  OBVIOUS
<1>2. SumIs(S, ss, n + 1, h)
  BY <1>1 DEF Flat
<1>3. ss[k] \in Seq(S) /\ ss[k + 1] \in Seq(S)
  BY <1>1
<1> HIDE DEF n
<1>4. Merged(ss, tt, k, n)
  BY DEF n
<1>5. SumIs(S, tt, n, h)
  BY <1>1, <1>2, <1>3, <1>4, MergedSums
<1> QED BY <1>5 DEF Flat, n

\* Sequences of one element each.
LEMMA FlatOnes ==
    ASSUME NEW S, NEW h \in Seq(S), NEW ss, ss = [j \in DOMAIN h |-> <<h[j]>>]
    PROVE  Flat(S, ss, h) /\ ss \in Seq(Seq(S)) /\ Len(ss) = Len(h)
<1> DEFINE n == Len(h)
<1>1. n \in Nat /\ DOMAIN h = 1..n /\ \A j \in 1..n : h[j] \in S
  OBVIOUS
<1>2. ss \in Seq(Seq(S)) /\ Len(ss) = n /\ \A j \in 1..n : ss[j] = <<h[j]>>
  <2>1. ss \in [1..n -> Seq(S)]
    BY <1>1
  <2>2. ss \in Seq(Seq(S))
    BY <1>1, <2>1, IsASeq
  <2>3. Len(ss) \in Nat /\ DOMAIN ss = 1..Len(ss)
    BY <2>2, LenProperties
  <2>4. Len(ss) = n
    BY <1>1, <2>1, <2>2
  <2> QED BY <1>1, <2>2, <2>4
<1> DEFINE g == [j \in 0..n |-> SubSeq(h, 1, j)]
<1>3. ASSUME NEW j \in 0..n PROVE SubSeq(h, 1, j) \in Seq(S)
  BY <1>1
<1>4. g \in [0..n -> Seq(S)] /\ g[0] = <<>> /\ g[n] = h
  <2>1. SubSeq(h, 1, 0) = <<>>
    BY SubSeqEmpty
  <2>2. SubSeq(h, 1, n) = h
    BY SubSeqFull
  <2> QED BY <1>1, <1>3, <2>1, <2>2
<1>5. ASSUME NEW j \in 1..n PROVE g[j] = g[j - 1] \o ss[j]
  <2>1. SubSeq(h, 1, j) = SubSeq(h, 1, j - 1) \o <<h[j]>>
    <3>1. 1 \in 1..Len(h) /\ j \in 1..Len(h)
      BY <1>1
    <3> QED BY <3>1, SubSeqRecursiveSecond
  <2>2. g[j] = SubSeq(h, 1, j) /\ g[j - 1] = SubSeq(h, 1, j - 1)
    BY <1>1
  <2> QED BY <1>2, <2>1, <2>2
<1> HIDE DEF g
<1> QED BY <1>2, <1>4, <1>5 DEF Flat, SumIs, Sums, n

-----------------------------------------------------------------------------
\* A subscription queue never grows past its size and ends in the new message.
LEMMA DeliverFacts ==
    ASSUME NEW S, NEW q \in Seq(S), NEW m \in S, NEW size \in Nat \ {0}, Len(q) <= size
    PROVE  /\ Deliver(q, m, size) \in Seq(S)
           /\ Len(Deliver(q, m, size)) <= size
           /\ Deliver(q, m, size) # <<>>
           /\ Deliver(q, m, size)[Len(Deliver(q, m, size))] = m
<1> DEFINE r == Deliver(q, m, size)
<1>1. CASE Len(q) < size
  <2>1. r = Append(q, m)
    BY <1>1 DEF Deliver
  <2> QED BY <1>1, <2>1
<1>2. CASE ~(Len(q) < size)
  <2>1. r = Append(Tail(q), m)
    BY <1>2 DEF Deliver
  <2> DEFINE t == Tail(q)
  <2>2. t \in Seq(S) /\ Len(t) = Len(q) - 1 /\ Len(q) \in Nat
    BY <1>2
  <2> HIDE DEF t
  <2>3. /\ Append(t, m) \in Seq(S) /\ Len(Append(t, m)) = Len(t) + 1
        /\ Append(t, m)[Len(t) + 1] = m
    BY <2>2
  <2>4. Append(t, m) # <<>>
    BY <2>2, <2>3, EmptySeq
  <2> QED BY <2>1, <2>2, <2>3, <2>4 DEF t
<1> QED BY <1>1, <1>2

\* What waits is the new message or waited before.
LEMMA DeliverRange ==
    ASSUME NEW S, NEW q \in Seq(S), NEW m \in S, NEW size \in Nat \ {0}
    PROVE  \A j \in DOMAIN Deliver(q, m, size) :
              \/ Deliver(q, m, size)[j] = m
              \/ \E i \in DOMAIN q : Deliver(q, m, size)[j] = q[i]
<1>1. ASSUME NEW r \in Seq(S), NEW j \in DOMAIN Append(r, m)
      PROVE  Append(r, m)[j] = m \/ (j \in DOMAIN r /\ Append(r, m)[j] = r[j])
  BY AppendProperties
<1>2. CASE Len(q) < size
  <2>1. Deliver(q, m, size) = Append(q, m)
    BY <1>2 DEF Deliver
  <2> QED BY <1>1, <2>1
<1>3. CASE ~(Len(q) < size)
  <2>1. Deliver(q, m, size) = Append(Tail(q), m)
    BY <1>3 DEF Deliver
  <2>2. q # <<>>
    BY <1>3
  <2> DEFINE t == Tail(q)
  <2>3. t \in Seq(S) /\ \A i \in DOMAIN t : i + 1 \in DOMAIN q /\ t[i] = q[i + 1]
    BY <2>2, HeadTailProperties
  <2> HIDE DEF t
  <2>4. \A j \in DOMAIN Append(t, m) :
           Append(t, m)[j] = m \/ (j \in DOMAIN t /\ Append(t, m)[j] = t[j])
    BY <1>1, <2>3
  <2>5. \A j \in DOMAIN Append(t, m) :
           Append(t, m)[j] = m \/ \E i \in DOMAIN q : Append(t, m)[j] = q[i]
    BY <2>3, <2>4
  <2> QED BY <2>1, <2>5 DEF t
<1> QED BY <1>2, <1>3

\* Handling the oldest message does not change the newest one known.
LEMMA HandleFacts ==
    ASSUME NEW S, NEW q \in Seq(S), q # <<>>, NEW old
    PROVE  /\ Head(q) \in S
           /\ Tail(q) \in Seq(S)
           /\ Len(Tail(q)) = Len(q) - 1
           /\ Newest(Tail(q), Head(q)) = Newest(q, old)
<1>1. Len(q) \in Nat /\ Len(q) >= 1 /\ Head(q) = q[1] /\ Head(q) \in S
  OBVIOUS
<1> DEFINE t == Tail(q)
<1>2. t \in Seq(S) /\ Len(t) = Len(q) - 1
  OBVIOUS
<1>3. CASE Len(q) = 1
  <2>1. t = <<>>
    <3> HIDE DEF t
    <3> QED BY <1>2, <1>3, EmptySeq
  <2> QED BY <1>1, <1>3, <2>1 DEF Newest
<1>4. CASE Len(q) > 1
  <2>1. Tail(q)[Len(q) - 1] = q[Len(q)]
    BY <1>1, <1>4
  <2>2. t # <<>>
    <3> HIDE DEF t
    <3> QED BY <1>2, <1>4, EmptySeq
  <2> QED BY <1>2, <2>1, <2>2 DEF Newest
<1> QED BY <1>1, <1>2, <1>3, <1>4
=============================================================================
