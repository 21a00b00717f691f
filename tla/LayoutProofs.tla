----------------------------- MODULE LayoutProofs -----------------------------
(***************************************************************************)
(* Theorems about SidebarLayout, for any files, terminals and sizes: nodes *)
(* keep distinct ids and named tabs stay in one place over every operation *)
(* of the layout, a narrow viewport hides no tab, an opened file is shown, *)
(* a reload restores what was open, the terminals' tabs follow the host's  *)
(* list, and no other operation loses a tab.                               *)
(*                                                                         *)
(* A tree is seen as its leaves by pane id (LeafAt) and the ids of its     *)
(* nodes; Yields says what an operation may do to a tree: which node ids   *)
(* it may mint and which tabs a pane may gain.                             *)
(***************************************************************************)
EXTENDS SidebarLayout, SequenceTheorems, FiniteSetTheorems, WellFoundedInduction, TLAPS

-------------------------------------------------------------------------------
(* Induction and recursion over an interval                                    *)

\* The order of the naturals is well founded.
LEMMA Below == IsWellFoundedOn({p \in Nat \X Nat : p[1] < p[2]}, Nat)
BY NatLessThanWellFounded, Zenon DEF OpToRel

\* A set of naturals has a least element.
LEMMA Least ==
  ASSUME NEW S \in SUBSET Nat, S # {}
  PROVE  \E n \in S : \A m \in S : n <= m
<1> DEFINE R == {p \in Nat \X Nat : p[1] < p[2]}
<1>1. IsWellFoundedOn(R, Nat)
  BY Below
<1>2. PICK n \in S : \A m \in S : ~(<<m, n>> \in R)
  <2> HIDE DEF R
  <2> QED BY <1>1, WFMin
<1>3. \A m \in S : ~(m < n)
  BY <1>2
<1> QED BY <1>2, <1>3

\* Induction over an interval, from the least index that fails.
LEMMA Inductive ==
  ASSUME NEW n \in Nat, NEW S, 0 \in S, \A i \in 0 .. n - 1 : i \in S => i + 1 \in S
  PROVE  \A i \in 0 .. n : i \in S
<1> DEFINE T == {i \in 0 .. n : i \notin S}
<1>1. SUFFICES ASSUME T # {} PROVE FALSE
  OBVIOUS
<1>2. T \in SUBSET Nat
  OBVIOUS
<1>3. PICK i \in T : \A j \in T : i <= j
  <2> HIDE DEF T
  <2> QED BY <1>1, <1>2, Least
<1>4. i # 0 /\ i - 1 \in 0 .. n - 1 /\ i - 1 \notin T /\ i = (i - 1) + 1
  BY <1>3
<1> QED BY <1>3, <1>4

\* g is computed from b by the steps F.
Computed(n, V, b, F, g) ==
  g \in [0 .. n -> V] /\ g[0] = b /\ \A i \in 1 .. n : g[i] = F[<<i, g[i - 1]>>]

\* A function defined by recursion over an interval exists, within any set that
\* its steps do not leave.
LEMMA Recursion ==
  ASSUME NEW n \in Nat, NEW V, NEW b \in V, NEW F \in [(1 .. n) \X V -> V]
  PROVE  \E g : Computed(n, V, b, F, g)
<1> DEFINE G(k, g) == /\ g \in [0 .. k -> V] /\ g[0] = b
                      /\ \A i \in 1 .. k : g[i] = F[<<i, g[i-1]>>]
           S == {k \in 0 .. n : \E g : G(k, g)}
<1>1. 0 \in S
  <2>1. G(0, [i \in 0 .. 0 |-> b]) OBVIOUS
  <2>2. \E g : G(0, g) BY <2>1
  <2> QED BY <2>2
<1>2. ASSUME NEW k \in 0 .. n - 1, k \in S PROVE k + 1 \in S
  <2>1. PICK g : G(k, g)
    BY <1>2
  <2> DEFINE h == [i \in 0 .. k + 1 |-> IF i <= k THEN g[i] ELSE F[<<k + 1, g[k]>>]]
  <2>2. F[<<k + 1, g[k]>>] \in V
    <3>1. k + 1 \in 1 .. n /\ g[k] \in V BY <2>1
    <3>2. <<k + 1, g[k]>> \in (1 .. n) \X V BY <3>1
    <3> QED BY <3>2
  <2>3. h \in [0 .. k + 1 -> V]
    BY <2>1, <2>2
  <2>4. h[0] = b
    BY <2>1
  <2>5. ASSUME NEW i \in 1 .. k + 1 PROVE h[i] = F[<<i, h[i-1]>>]
    <3>1. h[i - 1] = g[i - 1]
      OBVIOUS
    <3>2. CASE i <= k
      <4>1. h[i] = g[i] /\ i \in 1 .. k BY <3>2
      <4> QED BY <4>1, <3>1, <2>1
    <3>3. CASE i = k + 1
      <4>1. h[i] = F[<<k + 1, g[k]>>] BY <3>3
      <4>2. i - 1 = k BY <3>3
      <4>3. h[i - 1] = g[k] BY <3>1, <4>2
      <4> QED BY <4>1, <4>3, <3>3
    <3> QED BY <3>2, <3>3
  <2>6. G(k + 1, h)
    <3> HIDE DEF h
    <3> QED BY <2>3, <2>4, <2>5
  <2>7. \E g_1 : G(k + 1, g_1)
    <3> HIDE DEF h, G
    <3> QED BY <2>6
  <2> QED BY <2>7
<1>3. n \in S
  <2>1. \A i \in 0 .. n - 1 : i \in S => i + 1 \in S
    BY <1>2
  <2> HIDE DEF S
  <2>2. \A i \in 0 .. n : i \in S
    BY <1>1, <2>1, Inductive
  <2> QED BY <2>2
<1>4. PICK g : G(n, g)
  BY <1>3
<1> QED BY <1>4 DEF Computed


\* A function that satisfies a recursive equation stays in the set its steps do
\* not leave.
LEMMA RecursionStays ==
  ASSUME NEW n \in Nat, NEW V, NEW f, f[0] \in V,
         \A i \in 0 .. n - 1 : f[i] \in V => f[i + 1] \in V
  PROVE  \A i \in 0 .. n : f[i] \in V
<1> DEFINE T == {i \in 0 .. n : f[i] \in V}
<1>1. 0 \in T /\ \A i \in 0 .. n - 1 : i \in T => i + 1 \in T
  OBVIOUS
<1>2. \A i \in 0 .. n : i \in T
  <2> HIDE DEF T
  <2> QED BY <1>1, Inductive
<1> QED BY <1>2

\* What Only computes, step by step.
LEMMA OnlyUnfolds ==
  ASSUME NEW S, NEW s \in Seq(S), NEW I
  PROVE  \E f \in [0 .. Len(s) -> Seq(S)] :
           /\ Only(s, I) = f[Len(s)] /\ f[0] = <<>>
           /\ \A n \in 1 .. Len(s) : f[n] = IF n \in I THEN Append(f[n - 1], s[n]) ELSE f[n - 1]
<1> DEFINE N == Len(s)
           V == Seq(S)
           F == [p \in (1 .. N) \X V |-> IF p[1] \in I THEN Append(p[2], s[p[1]]) ELSE p[2]]
           P(f) == f = [n \in 0 .. Len(s) |-> IF n = 0 THEN <<>>
                                               ELSE IF n \in I THEN Append(f[n - 1], s[n]) ELSE f[n - 1]]
<1>0. N \in Nat /\ <<>> \in V
  OBVIOUS
<1>1. \A v \in V, n \in 1 .. N : Append(v, s[n]) \in V
  OBVIOUS
<1>2. F \in [(1 .. N) \X V -> V]
  <2> HIDE DEF V
  <2> QED BY <1>1
<1>3. PICK g : Computed(N, V, <<>>, F, g)
  <2> HIDE DEF F, V, N
  <2> QED BY <1>0, <1>2, Recursion
<1>4. \A i \in 1 .. N : F[<<i, g[i - 1]>>] = IF i \in I THEN Append(g[i - 1], s[i]) ELSE g[i - 1]
  <2>1. \A i \in 1 .. N : g[i - 1] \in V
    BY <1>0, <1>3 DEF Computed
  <2> HIDE DEF V
  <2> QED BY <2>1
<1>5. P(g)
  <2>1. g \in [0 .. N -> V] /\ g[0] = <<>> /\ \A n \in 1 .. N : g[n] = F[<<n, g[n - 1]>>]
    BY <1>3 DEF Computed
  <2> HIDE DEF F, V
  <2>2. ASSUME NEW n \in 0 .. Len(s)
        PROVE  g[n] = IF n = 0 THEN <<>> ELSE IF n \in I THEN Append(g[n - 1], s[n]) ELSE g[n - 1]
    <3>1. CASE n = 0 BY <2>1, <3>1
    <3>2. CASE n # 0
      <4>1. n \in 1 .. N BY <3>2, <1>0
      <4> QED BY <2>1, <1>4, <4>1, <3>2
    <3> QED BY <3>1, <3>2
  <2> DEFINE h == [n \in 0 .. Len(s) |-> IF n = 0 THEN <<>>
                                          ELSE IF n \in I THEN Append(g[n - 1], s[n]) ELSE g[n - 1]]
  <2>3. \A n \in 0 .. Len(s) : h[n] = g[n]
    BY <2>2, Zenon
  <2>4. DOMAIN h = 0 .. Len(s) /\ h = [n \in 0 .. Len(s) |-> h[n]]
    BY Zenon
  <2> HIDE DEF h
  <2>5. g = h
    BY <2>1, <2>3, <2>4, Zenon
  <2> QED BY <2>5, Zenon DEF h
<1>6. PICK f : P(f) /\ Only(s, I) = f[Len(s)]
  <2> DEFINE f == CHOOSE h : P(h)
  <2>1. P(f)
    <3> HIDE DEF P
    <3> QED BY <1>5
  <2>2. Only(s, I) = f[Len(s)]
    BY DEF Only
  <2> HIDE DEF P, f
  <2> QED BY <2>1, <2>2
<1>7. f[0] = <<>> /\ \A n \in 1 .. N : f[n] = IF n \in I THEN Append(f[n - 1], s[n]) ELSE f[n - 1]
  <2>1. \A n \in 0 .. Len(s) : f[n] = IF n = 0 THEN <<>>
                                       ELSE IF n \in I THEN Append(f[n - 1], s[n]) ELSE f[n - 1]
    BY <1>6, Zenon
  <2> HIDE DEF F, V
  <2> QED BY <2>1, <1>0
<1>8. \A i \in 0 .. N : f[i] \in V
  <2>1. ASSUME NEW n \in 0 .. N - 1, f[n] \in V PROVE f[n + 1] \in V
    <3>1. n + 1 \in 1 .. N /\ (n + 1) - 1 = n BY <1>0
    <3> HIDE DEF V
    <3> QED BY <3>1, <2>1, <1>7, <1>1
  <2> HIDE DEF V, N
  <2> QED BY <1>0, <1>7, <2>1, RecursionStays
<1> QED BY <1>6, <1>7, <1>8

\* e lists, in increasing order, the indexes in I among the first n, and r is
\* what s has there.
Lists(s, I, n, r, e) ==
  /\ e \in [1 .. Len(r) -> 1 .. n]
  /\ \A k \in 1 .. Len(r) : e[k] \in I /\ r[k] = s[e[k]]
  /\ \A k, l \in 1 .. Len(r) : k < l => e[k] < e[l]
  /\ \A i \in 1 .. n : i \in I => \E k \in 1 .. Len(r) : e[k] = i

\* Only picks the entries at the indexes it is given, in their order.
LEMMA OnlyLists ==
  ASSUME NEW S, NEW s \in Seq(S), NEW I
  PROVE  Only(s, I) \in Seq(S) /\ \E e : Lists(s, I, Len(s), Only(s, I), e)
<1>0. PICK f \in [0 .. Len(s) -> Seq(S)] :
           /\ Only(s, I) = f[Len(s)] /\ f[0] = <<>>
           /\ \A n \in 1 .. Len(s) : f[n] = IF n \in I THEN Append(f[n - 1], s[n]) ELSE f[n - 1]
  BY OnlyUnfolds
<1>1. Len(s) \in Nat
  OBVIOUS
<1> DEFINE T == {n \in 0 .. Len(s) : \E e : Lists(s, I, n, f[n], e)}
<1>2. 0 \in T
  <2>1. Lists(s, I, 0, f[0], <<>>)
    BY <1>0 DEF Lists
  <2>2. \E e : Lists(s, I, 0, f[0], e)
    BY <2>1
  <2> QED BY <2>2, <1>1
<1>3. ASSUME NEW n \in 0 .. Len(s) - 1, n \in T PROVE n + 1 \in T
  <2>1. PICK e : Lists(s, I, n, f[n], e)
    BY <1>3
  <2>2. n + 1 \in 1 .. Len(s) /\ (n + 1) - 1 = n /\ f[n] \in Seq(S)
    BY <1>1
  <2>3. CASE n + 1 \notin I
    <3>1. f[n + 1] = f[n]
      BY <2>2, <2>3, <1>0
    <3>2. Lists(s, I, n + 1, f[n + 1], e)
      BY <2>1, <3>1, <2>2, <2>3 DEF Lists
    <3>3. \E e_1 : Lists(s, I, n + 1, f[n + 1], e_1)
      BY <3>2
    <3> QED BY <3>3, <2>2
  <2>4. CASE n + 1 \in I
    <3>1. f[n + 1] = Append(f[n], s[n + 1])
      BY <2>2, <2>4, <1>0
    <3> DEFINE m == Len(f[n]) + 1
               g == [k \in 1 .. m |-> IF k = m THEN n + 1 ELSE e[k]]
    <3>2. /\ Len(f[n + 1]) = m /\ m \in Nat /\ f[n + 1][m] = s[n + 1]
          /\ \A k \in 1 .. m - 1 : f[n + 1][k] = f[n][k]
      BY <3>1, <2>2, <1>0
    <3>3. g \in [1 .. m -> 1 .. n + 1] /\ g[m] = n + 1 /\ \A k \in 1 .. m - 1 : g[k] = e[k]
      BY <2>1, <2>2, <3>2 DEF Lists
    <3> HIDE DEF g
    <3>4. \A k \in 1 .. m : g[k] \in I /\ f[n + 1][k] = s[g[k]]
      BY <2>1, <2>2, <2>4, <3>2, <3>3 DEF Lists
    <3>5. ASSUME NEW k \in 1 .. m, NEW l \in 1 .. m, k < l PROVE g[k] < g[l]
      <4>0. k \in 1 .. m - 1 /\ m - 1 = Len(f[n])
        BY <3>2, <3>5, <2>2
      <4>1. k \in 1 .. m - 1 /\ g[k] = e[k] /\ e[k] \in 1 .. n
        BY <2>1, <3>3, <4>0 DEF Lists
      <4>2. CASE l = m BY <4>1, <4>2, <3>3, <2>2
      <4>3. CASE l # m
        <5>1. l \in 1 .. m - 1 /\ g[l] = e[l] BY <4>3, <3>2, <3>3
        <5> QED BY <4>1, <5>1, <2>1, <3>5, <3>2 DEF Lists
      <4> QED BY <4>2, <4>3
    <3>6. ASSUME NEW i \in 1 .. n + 1, i \in I PROVE \E k \in 1 .. m : g[k] = i
      <4>1. CASE i = n + 1 BY <4>1, <3>2, <3>3
      <4>2. CASE i # n + 1
        <5>1. PICK k \in 1 .. Len(f[n]) : e[k] = i
          BY <4>2, <3>6, <2>1, <2>2 DEF Lists
        <5>2. k \in 1 .. m - 1 /\ g[k] = i
          BY <5>1, <3>2, <3>3
        <5> QED BY <5>2, <3>2
      <4> QED BY <4>1, <4>2
    <3>7. Lists(s, I, n + 1, f[n + 1], g)
      BY <3>2, <3>3, <3>4, <3>5, <3>6 DEF Lists
    <3>8. \E e_1 : Lists(s, I, n + 1, f[n + 1], e_1)
      BY <3>7
    <3> QED BY <3>8, <2>2
  <2> QED BY <2>3, <2>4
<1>4. Len(s) \in T
  <2>1. \A n \in 0 .. Len(s) - 1 : n \in T => n + 1 \in T
    BY <1>3
  <2> HIDE DEF T
  <2>2. \A n \in 0 .. Len(s) : n \in T
    BY <1>1, <1>2, <2>1, Inductive
  <2> QED BY <2>2, <1>1
<1>5. Only(s, I) \in Seq(S)
  BY <1>0, <1>1
<1> QED BY <1>0, <1>4, <1>5

-------------------------------------------------------------------------------
(* Sequences                                                                   *)

LEMMA ConcatIs ==
  ASSUME NEW S, NEW a \in Seq(S), NEW c \in Seq(S)
  PROVE  /\ a \o c \in Seq(S) /\ Len(a \o c) = Len(a) + Len(c) /\ Len(a) \in Nat /\ Len(c) \in Nat
         /\ \A k \in 1 .. Len(a) : (a \o c)[k] = a[k]
         /\ \A k \in 1 .. Len(c) : (a \o c)[Len(a) + k] = c[k]
OBVIOUS

\* Sequence r is s with x put in at place i.
WithAt(S, s, i, x, r) ==
  /\ r \in Seq(S) /\ Len(r) = Len(s) + 1
  /\ \A k \in 1 .. Len(s) + 1 : r[k] = IF k < i THEN s[k] ELSE IF k = i THEN x ELSE s[k - 1]

LEMMA InsertAtIs ==
  ASSUME NEW S, NEW s \in Seq(S), NEW x \in S, NEW i \in 1 .. Len(s) + 1
  PROVE  WithAt(S, s, i, x, InsertAt(s, i, x))
<1> DEFINE a == SubSeq(s, 1, i - 1)
           c == SubSeq(s, i, Len(s))
<1>0. i \in Int /\ Len(s) \in Nat
  OBVIOUS
<1>1. a \in Seq(S) /\ Len(a) = i - 1 /\ \A k \in 1 .. i - 1 : a[k] = s[k]
  BY <1>0
<1>2. c \in Seq(S) /\ Len(c) = Len(s) - i + 1 /\ \A k \in 1 .. Len(s) - i + 1 : c[k] = s[i + k - 1]
  BY <1>0
<1> HIDE DEF a, c
<1>3. /\ a \o <<x>> \in Seq(S) /\ Len(a \o <<x>>) = i
      /\ \A k \in 1 .. i : (a \o <<x>>)[k] = IF k < i THEN s[k] ELSE x
  BY <1>0, <1>1
<1>4. InsertAt(s, i, x) = (a \o <<x>>) \o c
  BY DEF InsertAt, a, c
<1> DEFINE b == a \o <<x>>
<1>5. b \in Seq(S) /\ Len(b) = i /\ \A k \in 1 .. i : b[k] = IF k < i THEN s[k] ELSE x
  BY <1>3
<1> HIDE DEF b
<1>6. /\ b \o c \in Seq(S) /\ Len(b \o c) = Len(s) + 1
      /\ \A k \in 1 .. i : (b \o c)[k] = b[k]
      /\ \A k \in 1 .. Len(s) - i + 1 : (b \o c)[i + k] = c[k]
  <2>1. /\ b \o c \in Seq(S) /\ Len(b \o c) = Len(b) + Len(c)
        /\ \A k \in 1 .. Len(b) : (b \o c)[k] = b[k]
        /\ \A k \in 1 .. Len(c) : (b \o c)[Len(b) + k] = c[k]
    <3>1. b \in Seq(S) /\ c \in Seq(S) BY <1>5, <1>2
    <3> QED BY <3>1
  <2>2. Len(b) = i /\ Len(c) = Len(s) - i + 1 BY <1>2, <1>5
  <2>3. i + (Len(s) - i + 1) = Len(s) + 1 BY <1>0
  <2> QED BY <2>1, <2>2, <2>3
<1> DEFINE r == b \o c
<1> HIDE DEF r
<1>7. ASSUME NEW k \in 1 .. Len(s) + 1
      PROVE  r[k] = IF k < i THEN s[k] ELSE IF k = i THEN x ELSE s[k - 1]
  <2>1. CASE k <= i
    <3>1. r[k] = b[k] BY <2>1, <1>0, <1>6 DEF r
    <3> QED BY <3>1, <1>5, <2>1, <1>0
  <2>2. CASE k > i
    <3>2. k - i \in 1 .. Len(s) - i + 1 /\ i + (k - i) - 1 = k - 1 /\ i + (k - i) = k BY <2>2, <1>0
    <3>1. r[k] = c[k - i] BY <3>2, <1>6 DEF r
    <3> QED BY <3>1, <3>2, <1>2, <2>2, <1>0
  <2> QED BY <2>1, <2>2, <1>0
<1>8. WithAt(S, s, i, x, r)
  BY <1>6, <1>7 DEF r, WithAt
<1> QED BY <1>4, <1>8 DEF b, r

LEMMA RemoveAtIs ==
  ASSUME NEW S, NEW s \in Seq(S), NEW i \in 1 .. Len(s)
  PROVE  /\ RemoveAt(s, i) \in Seq(S) /\ Len(RemoveAt(s, i)) = Len(s) - 1
         /\ \A k \in 1 .. Len(s) - 1 : RemoveAt(s, i)[k] = IF k < i THEN s[k] ELSE s[k + 1]
<1> DEFINE a == SubSeq(s, 1, i - 1)
           c == SubSeq(s, i + 1, Len(s))
<1>0. i \in Int /\ Len(s) \in Nat
  OBVIOUS
<1>1. a \in Seq(S) /\ Len(a) = i - 1 /\ \A k \in 1 .. i - 1 : a[k] = s[k]
  BY <1>0
<1>2. c \in Seq(S) /\ Len(c) = Len(s) - i /\ \A k \in 1 .. Len(s) - i : c[k] = s[i + k]
  BY <1>0
<1>3. RemoveAt(s, i) = a \o c
  BY DEF RemoveAt
<1> HIDE DEF a, c
<1>4. /\ a \o c \in Seq(S) /\ Len(a \o c) = Len(s) - 1
      /\ \A k \in 1 .. i - 1 : (a \o c)[k] = a[k]
      /\ \A k \in 1 .. Len(s) - i : (a \o c)[i - 1 + k] = c[k]
  <2>1. /\ a \o c \in Seq(S) /\ Len(a \o c) = Len(a) + Len(c)
        /\ \A k \in 1 .. Len(a) : (a \o c)[k] = a[k]
        /\ \A k \in 1 .. Len(c) : (a \o c)[Len(a) + k] = c[k]
    <3>1. a \in Seq(S) /\ c \in Seq(S) BY <1>1, <1>2
    <3> QED BY <3>1
  <2>2. Len(a) = i - 1 /\ Len(c) = Len(s) - i BY <1>1, <1>2
  <2>3. (i - 1) + (Len(s) - i) = Len(s) - 1 BY <1>0
  <2> QED BY <2>1, <2>2, <2>3
<1> DEFINE r == a \o c
<1> HIDE DEF r
<1>5. ASSUME NEW k \in 1 .. Len(s) - 1
      PROVE  r[k] = IF k < i THEN s[k] ELSE s[k + 1]
  <2>1. CASE k < i
    <3>1. r[k] = a[k] BY <2>1, <1>0, <1>4 DEF r
    <3> QED BY <3>1, <1>1, <2>1, <1>0
  <2>2. CASE k >= i
    <3>2. /\ k - (i - 1) \in 1 .. Len(s) - i /\ i + (k - (i - 1)) = k + 1
          /\ i - 1 + (k - (i - 1)) = k
      BY <2>2, <1>0
    <3>1. r[k] = c[k - (i - 1)] BY <3>2, <1>4 DEF r
    <3> QED BY <3>1, <3>2, <1>2, <2>2, <1>0
  <2> QED BY <2>1, <2>2, <1>0
<1> QED BY <1>3, <1>4, <1>5 DEF r

-------------------------------------------------------------------------------
(* The tabs of a pane                                                          *)

\* No two entries have the id x.
OnceIn(s, x) == \A i, j \in DOMAIN s : s[i].id = x /\ s[j].id = x => i = j

\* The entries that Only keeps.
LEMMA OnlyKeeps ==
  ASSUME NEW S, NEW s \in Seq(S), NEW I
  PROVE  /\ Only(s, I) \in Seq(S)
         /\ Ids(Only(s, I)) = {s[i].id : i \in I \cap DOMAIN s}
         /\ ToSet(Only(s, I)) = {s[i] : i \in I \cap DOMAIN s}
         /\ \A x : OnceIn(s, x) => OnceIn(Only(s, I), x)
<1> DEFINE r == Only(s, I)
<1>1. PICK e : r \in Seq(S) /\ Lists(s, I, Len(s), r, e)
  BY OnlyLists
<1> HIDE DEF r
<1>0. DOMAIN s = 1 .. Len(s) /\ DOMAIN r = 1 .. Len(r) /\ Len(r) \in Nat /\ Len(s) \in Nat
  BY <1>1
<1>2. \A k \in DOMAIN r : e[k] \in I \cap DOMAIN s /\ r[k] = s[e[k]]
  BY <1>0, <1>1 DEF Lists
<1>3. \A i \in I \cap DOMAIN s : \E k \in DOMAIN r : e[k] = i
  BY <1>0, <1>1 DEF Lists
<1>4. Ids(r) = {s[i].id : i \in I \cap DOMAIN s}
  BY <1>2, <1>3 DEF Ids
<1>5. ToSet(r) = {s[i] : i \in I \cap DOMAIN s}
  BY <1>2, <1>3 DEF ToSet
<1>6. ASSUME NEW x, OnceIn(s, x) PROVE OnceIn(r, x)
  <2> SUFFICES ASSUME NEW k \in DOMAIN r, NEW l \in DOMAIN r, r[k].id = x, r[l].id = x PROVE k = l
    BY DEF OnceIn
  <2>1. e[k] = e[l]
    BY <1>2, <1>6 DEF OnceIn
  <2>2. (k < l => e[k] < e[l]) /\ (l < k => e[l] < e[k]) /\ e[k] \in Int /\ e[l] \in Int
    BY <1>0, <1>1 DEF Lists
  <2> QED BY <2>1, <2>2, <1>0
<1> QED BY <1>1, <1>4, <1>5, <1>6 DEF r

-------------------------------------------------------------------------------
(* Trees                                                                       *)

TabId == ({"editor"} \X (File \cup {"home"})) \cup ({"tab"} \X Number) \cup {<<"git", 0>>}
         \cup ({"diff"} \X Diff) \cup ({"agent"} \X Agent)
SideTab == {TabOf(<<"editor", f>>, "editor", f) : f \in File \cup {"home"}}
           \cup {TabOf(<<"tab", n>>, "editor", f) : n \in Number, f \in File \cup {"home"}}
           \cup {GitTab} \cup {DiffTab(d) : d \in Diff} \cup {AgentTab(a) : a \in Agent}
PaneId == {"pane"} \X Number
SplitId == {"split"} \X Number
LeafSet == [id : PaneId, tabs : Seq(SideTab), active : TabId \cup {None}]
SplitSet == [id : SplitId, depth : Int]
TreeSet == {t \in [panes : Seq(LeafSet), splits : Seq(SplitSet)] :
              /\ t.panes # <<>> /\ Len(t.splits) = Len(t.panes) - 1
              /\ \A i \in DOMAIN t.panes : LeafOK(t.panes[i])}
SplitIds(t) == {t.splits[i].id : i \in DOMAIN t.splits}
NoTwins(nodes) == \A i, j \in DOMAIN nodes : nodes[i].id = nodes[j].id => i = j
Good(t) == t \in TreeSet /\ NoTwins(t.panes) /\ NoTwins(t.splits)

\* What a well-formed tree is made of.
LEMMA GoodHas ==
  ASSUME NEW t, Good(t)
  PROVE  /\ t = Tree(t.panes, t.splits)
         /\ t.panes \in Seq(LeafSet) /\ t.splits \in Seq(SplitSet)
         /\ DOMAIN t.panes = 1 .. Len(t.panes) /\ DOMAIN t.splits = 1 .. Len(t.splits)
         /\ Len(t.panes) \in Nat \ {0} /\ Len(t.splits) = Len(t.panes) - 1
         /\ \A i \in 1 .. Len(t.panes) : t.panes[i] \in LeafSet /\ LeafOK(t.panes[i])
         /\ \A i \in 1 .. Len(t.splits) : t.splits[i] \in SplitSet
<1>1. /\ t \in [panes : Seq(LeafSet), splits : Seq(SplitSet)]
      /\ t.panes # <<>> /\ Len(t.splits) = Len(t.panes) - 1
      /\ \A i \in DOMAIN t.panes : LeafOK(t.panes[i])
  BY DEF Good, TreeSet
<1>2. t.panes \in Seq(LeafSet) /\ t.splits \in Seq(SplitSet) /\ t = Tree(t.panes, t.splits)
  BY <1>1 DEF Tree
<1>3. /\ DOMAIN t.panes = 1 .. Len(t.panes) /\ DOMAIN t.splits = 1 .. Len(t.splits)
      /\ Len(t.panes) \in Nat \ {0}
      /\ \A i \in 1 .. Len(t.panes) : t.panes[i] \in LeafSet
      /\ \A i \in 1 .. Len(t.splits) : t.splits[i] \in SplitSet
  BY <1>1, <1>2
<1> QED BY <1>1, <1>2, <1>3

\* When leaves and splits make a well-formed tree.
LEMMA MakesGood ==
  ASSUME NEW p \in Seq(LeafSet), NEW s \in Seq(SplitSet), p # <<>>, Len(s) = Len(p) - 1,
         \A i \in 1 .. Len(p) : LeafOK(p[i]), NoTwins(p), NoTwins(s)
  PROVE  Good(Tree(p, s)) /\ Tree(p, s).panes = p /\ Tree(p, s).splits = s
<1>1. DOMAIN p = 1 .. Len(p)
  OBVIOUS
<1>2. Tree(p, s) \in [panes : Seq(LeafSet), splits : Seq(SplitSet)] /\ Tree(p, s).panes = p
      /\ Tree(p, s).splits = s
  BY DEF Tree
<1> QED BY <1>1, <1>2 DEF Good, TreeSet

LEMMA PanesAre ==
  ASSUME NEW t PROVE Panes(t) = {t.panes[i].id : i \in DOMAIN t.panes}
BY DEF Panes, IdsOf, ToSet

\* The leaf of a pane.
LEMMA LeafIs ==
  ASSUME NEW t, Good(t)
  PROVE  /\ \A p \in Panes(t) : /\ IndexOf(t, p) \in 1 .. Len(t.panes)
                                /\ t.panes[IndexOf(t, p)].id = p
                                /\ LeafAt(t, p) \in LeafSet /\ LeafAt(t, p).id = p
                                /\ LeafOK(LeafAt(t, p)) /\ p \in PaneId
         /\ \A i \in 1 .. Len(t.panes) : t.panes[i].id \in Panes(t)
                                         /\ IndexOf(t, t.panes[i].id) = i
                                         /\ LeafAt(t, t.panes[i].id) = t.panes[i]
<1>1. ASSUME NEW p \in Panes(t)
      PROVE  /\ IndexOf(t, p) \in 1 .. Len(t.panes) /\ t.panes[IndexOf(t, p)].id = p
             /\ LeafAt(t, p) \in LeafSet /\ LeafAt(t, p).id = p /\ LeafOK(LeafAt(t, p)) /\ p \in PaneId
  <2>1. \E i \in DOMAIN t.panes : t.panes[i].id = p
    BY PanesAre
  <2>2. IndexOf(t, p) \in DOMAIN t.panes /\ t.panes[IndexOf(t, p)].id = p
    BY <2>1 DEF IndexOf
  <2>3. LeafAt(t, p) \in LeafSet /\ LeafAt(t, p).id = p /\ LeafOK(LeafAt(t, p))
    BY <2>2, GoodHas DEF LeafAt
  <2>4. p \in PaneId
    BY <2>3 DEF LeafSet
  <2> QED BY <2>2, <2>3, <2>4, GoodHas
<1>2. ASSUME NEW i \in 1 .. Len(t.panes)
      PROVE  t.panes[i].id \in Panes(t) /\ IndexOf(t, t.panes[i].id) = i /\ LeafAt(t, t.panes[i].id) = t.panes[i]
  <2>1. i \in DOMAIN t.panes
    BY GoodHas
  <2>2. t.panes[i].id \in Panes(t)
    BY <2>1, PanesAre
  <2>3. IndexOf(t, t.panes[i].id) \in DOMAIN t.panes /\ t.panes[IndexOf(t, t.panes[i].id)].id = t.panes[i].id
    BY <2>2, <1>1, GoodHas
  <2>4. IndexOf(t, t.panes[i].id) = i
    BY <2>1, <2>3 DEF Good, NoTwins
  <2> QED BY <2>2, <2>4 DEF LeafAt
<1> QED BY <1>1, <1>2

LEMMA FirstLeafIs ==
  ASSUME NEW t, Good(t)
  PROVE  FirstLeaf(t).id \in Panes(t) /\ FirstLeaf(t) = LeafAt(t, FirstLeaf(t).id) /\ FirstLeaf(t) \in LeafSet
<1>1. 1 \in 1 .. Len(t.panes)
  BY GoodHas
<1> QED BY <1>1, LeafIs, GoodHas DEF FirstLeaf

\* A pane's leaf is replaced.
LEMMA MapLeafIs ==
  ASSUME NEW t, Good(t), NEW by \in LeafSet, LeafOK(by)
  PROVE  LET r == MapLeaf(t, by.id, by)
         IN /\ Good(r) /\ Panes(r) = Panes(t) /\ SplitIds(r) = SplitIds(t)
            /\ \A p \in Panes(t) : LeafAt(r, p) = IF p = by.id THEN by ELSE LeafAt(t, p)
<1> DEFINE r == MapLeaf(t, by.id, by)
           q == [i \in DOMAIN t.panes |-> IF t.panes[i].id = by.id THEN by ELSE t.panes[i]]
<1>1. r = Tree(q, t.splits)
  BY DEF MapLeaf
<1>2. /\ q \in Seq(LeafSet) /\ Len(q) = Len(t.panes) /\ DOMAIN q = DOMAIN t.panes /\ q # <<>>
      /\ \A i \in 1 .. Len(q) : LeafOK(q[i]) /\ q[i].id = t.panes[i].id
                                /\ q[i] = IF t.panes[i].id = by.id THEN by ELSE t.panes[i]
  <2>1. DOMAIN q = 1 .. Len(t.panes) /\ Len(t.panes) \in Nat \ {0}
        /\ \A i \in 1 .. Len(t.panes) : q[i] \in LeafSet
    BY GoodHas
  <2>2. q \in Seq(LeafSet) /\ Len(q) = Len(t.panes)
    <3>1. q \in [1 .. Len(t.panes) -> LeafSet] BY <2>1
    <3> QED BY <3>1, <2>1, IsASeq
  <2> QED BY <2>1, <2>2, GoodHas
<1> HIDE DEF q
<1>3. NoTwins(q) /\ NoTwins(t.splits)
  BY <1>2, GoodHas DEF Good, NoTwins
<1>4. Good(r) /\ r.panes = q /\ r.splits = t.splits
  BY <1>1, <1>2, <1>3, MakesGood, GoodHas
<1> HIDE DEF r
<1>5. Panes(r) = Panes(t) /\ SplitIds(r) = SplitIds(t)
  BY <1>2, <1>4, GoodHas, PanesAre DEF SplitIds
<1>6. ASSUME NEW p \in Panes(t) PROVE LeafAt(r, p) = IF p = by.id THEN by ELSE LeafAt(t, p)
  <2>1. PICK i \in 1 .. Len(t.panes) : t.panes[i].id = p /\ LeafAt(t, p) = t.panes[i]
    BY LeafIs DEF LeafAt
  <2>2. q[i].id = p /\ LeafAt(r, q[i].id) = q[i]
    BY <2>1, <1>2, <1>4, LeafIs
  <2> QED BY <2>1, <2>2, <1>2
<1> QED BY <1>4, <1>5, <1>6 DEF r

\* An inserted entry with an id of its own, and a removed one, make no twins.
LEMMA InsertKeepsApart ==
  ASSUME NEW S, NEW s \in Seq(S), NEW x \in S, NEW i \in 1 .. Len(s) + 1, NoTwins(s),
         \A k \in DOMAIN s : s[k].id # x.id
  PROVE  /\ NoTwins(InsertAt(s, i, x))
         /\ \A k \in 1 .. Len(s) : \E l \in 1 .. Len(s) + 1 : InsertAt(s, i, x)[l] = s[k]
         /\ \A l \in 1 .. Len(s) + 1 : InsertAt(s, i, x)[l] = x \/ \E k \in 1 .. Len(s) : InsertAt(s, i, x)[l] = s[k]
         /\ InsertAt(s, i, x)[i] = x
<1> DEFINE r == InsertAt(s, i, x)
<1>1. /\ r \in Seq(S) /\ Len(r) = Len(s) + 1
      /\ \A k \in 1 .. Len(s) + 1 : r[k] = IF k < i THEN s[k] ELSE IF k = i THEN x ELSE s[k - 1]
  <2>1. WithAt(S, s, i, x, r)
    BY InsertAtIs
  <2> HIDE DEF r
  <2> QED BY <2>1 DEF WithAt
<1>2. Len(s) \in Nat /\ DOMAIN s = 1 .. Len(s) /\ DOMAIN r = 1 .. Len(s) + 1 /\ i \in Int
  BY <1>1
<1> HIDE DEF r
<1>3. ASSUME NEW k \in 1 .. Len(s) + 1
      PROVE  (k = i /\ r[k] = x) \/ \E m \in 1 .. Len(s) : r[k] = s[m] /\ m = (IF k < i THEN k ELSE k - 1) /\ k # i
  <2>1. CASE k < i
    <3>1. k \in 1 .. Len(s) /\ r[k] = s[k] /\ k # i BY <1>1, <1>2, <2>1
    <3> QED BY <3>1, <2>1
  <2>2. CASE k = i BY <1>1, <1>2, <2>2
  <2>3. CASE k > i
    <3>1. k - 1 \in 1 .. Len(s) /\ r[k] = s[k - 1] /\ k # i /\ ~(k < i) BY <1>1, <1>2, <2>3
    <3> QED BY <3>1
  <2> QED BY <2>1, <2>2, <2>3, <1>2
<1>4. ASSUME NEW k \in 1 .. Len(s) + 1, NEW l \in 1 .. Len(s) + 1, r[k].id = r[l].id PROVE k = l
  <2>1. (k = i) = (l = i)
    BY <1>2, <1>3, <1>4
  <2>2. CASE k # i
    <3>1. PICK m \in 1 .. Len(s) : r[k] = s[m] /\ m = (IF k < i THEN k ELSE k - 1)
      BY <2>2, <1>3
    <3>2. PICK n \in 1 .. Len(s) : r[l] = s[n] /\ n = (IF l < i THEN l ELSE l - 1)
      BY <2>1, <2>2, <1>3
    <3>3. m = n
      BY <3>1, <3>2, <1>4, <1>2 DEF NoTwins
    <3> QED BY <3>1, <3>2, <3>3, <2>1, <2>2, <1>2
  <2> QED BY <2>1, <2>2
<1>5. NoTwins(r)
  BY <1>4, <1>2 DEF NoTwins
<1>6. ASSUME NEW k \in 1 .. Len(s) PROVE \E l \in 1 .. Len(s) + 1 : r[l] = s[k]
  <2>1. CASE k < i
    <3>1. k \in 1 .. Len(s) + 1 /\ r[k] = s[k] BY <1>1, <1>2, <2>1
    <3> QED BY <3>1
  <2>2. CASE k >= i
    <3>1. k + 1 \in 1 .. Len(s) + 1 /\ r[k + 1] = s[(k + 1) - 1] /\ (k + 1) - 1 = k BY <1>1, <1>2, <2>2
    <3> QED BY <3>1
  <2> QED BY <2>1, <2>2, <1>2
<1>7. \A l \in 1 .. Len(s) + 1 : r[l] = x \/ \E k \in 1 .. Len(s) : r[l] = s[k]
  BY <1>3
<1>8. r[i] = x
  BY <1>1, <1>2
<1> QED BY <1>5, <1>6, <1>7, <1>8 DEF r

LEMMA RemoveKeepsApart ==
  ASSUME NEW S, NEW s \in Seq(S), NEW i \in 1 .. Len(s), NoTwins(s)
  PROVE  /\ NoTwins(RemoveAt(s, i))
         /\ \A k \in 1 .. Len(s) : k # i => \E l \in 1 .. Len(s) - 1 : RemoveAt(s, i)[l] = s[k]
         /\ \A l \in 1 .. Len(s) - 1 : \E k \in 1 .. Len(s) : k # i /\ RemoveAt(s, i)[l] = s[k]
<1> DEFINE r == RemoveAt(s, i)
<1>1. /\ r \in Seq(S) /\ Len(r) = Len(s) - 1
      /\ \A k \in 1 .. Len(s) - 1 : r[k] = IF k < i THEN s[k] ELSE s[k + 1]
  BY RemoveAtIs
<1>2. Len(s) \in Nat /\ DOMAIN s = 1 .. Len(s) /\ DOMAIN r = 1 .. Len(s) - 1 /\ i \in Int
  BY <1>1
<1> HIDE DEF r
<1>3. ASSUME NEW k \in 1 .. Len(s) - 1
      PROVE  \E m \in 1 .. Len(s) : r[k] = s[m] /\ m = (IF k < i THEN k ELSE k + 1) /\ m # i
  <2>1. CASE k < i
    <3>1. k \in 1 .. Len(s) /\ r[k] = s[k] /\ k # i BY <1>1, <1>2, <2>1
    <3> QED BY <3>1, <2>1
  <2>2. CASE k >= i
    <3>1. k + 1 \in 1 .. Len(s) /\ r[k] = s[k + 1] /\ k + 1 # i /\ ~(k < i) BY <1>1, <1>2, <2>2
    <3> QED BY <3>1
  <2> QED BY <2>1, <2>2, <1>2
<1>4. ASSUME NEW k \in 1 .. Len(s) - 1, NEW l \in 1 .. Len(s) - 1, r[k].id = r[l].id PROVE k = l
  <2>1. PICK m \in 1 .. Len(s) : r[k] = s[m] /\ m = (IF k < i THEN k ELSE k + 1)
    BY <1>3
  <2>2. PICK n \in 1 .. Len(s) : r[l] = s[n] /\ n = (IF l < i THEN l ELSE l + 1)
    BY <1>3
  <2>3. m = n
    BY <2>1, <2>2, <1>4, <1>2 DEF NoTwins
  <2> QED BY <2>1, <2>2, <2>3, <1>2
<1>5. NoTwins(r)
  BY <1>4, <1>2 DEF NoTwins
<1>6. ASSUME NEW k \in 1 .. Len(s), k # i PROVE \E l \in 1 .. Len(s) - 1 : r[l] = s[k]
  <2>1. CASE k < i
    <3>1. k \in 1 .. Len(s) - 1 /\ r[k] = s[k] BY <1>1, <1>2, <2>1
    <3> QED BY <3>1
  <2>2. CASE k > i
    <3>1. k - 1 \in 1 .. Len(s) - 1 /\ r[k - 1] = s[(k - 1) + 1] /\ (k - 1) + 1 = k BY <1>1, <1>2, <2>2
    <3> QED BY <3>1
  <2> QED BY <2>1, <2>2, <1>2, <1>6
<1> QED BY <1>3, <1>5, <1>6 DEF r

\* The parent of a leaf is one of the splits beside it.
LEMMA ParentIs ==
  ASSUME NEW t, Good(t), NEW i \in 1 .. Len(t.panes), Len(t.panes) # 1
  PROVE  Parent(t, i) \in Beside(t, i) /\ Parent(t, i) \in 1 .. Len(t.splits)
<1> DEFINE d == [k \in DOMAIN t.splits |-> t.splits[k].depth]
           B == Beside(t, i)
<1>4. Len(t.panes) \in Nat \ {0} /\ Len(t.splits) = Len(t.panes) - 1
  BY GoodHas
<1>1. DOMAIN t.splits = 1 .. Len(t.splits) /\ \A j \in 1 .. Len(t.splits) : d[j] \in Int
  BY GoodHas DEF SplitSet
<1>2. B \subseteq {i - 1, i} /\ B \subseteq 1 .. Len(t.splits) /\ B # {}
  <2>1. i - 1 \in 1 .. Len(t.splits) \/ i \in 1 .. Len(t.splits)
    <3> DEFINE n == Len(t.panes)
               m == Len(t.splits)
    <3>1. n \in Nat \ {0} /\ m = n - 1 /\ i \in 1 .. n /\ n # 1
      BY <1>4
    <3> HIDE DEF n, m, d, B
    <3>2. i - 1 \in 1 .. m \/ i \in 1 .. m
      BY <3>1
    <3> QED BY <3>2 DEF n, m
  <2>2. B = {i - 1, i} \cap 1 .. Len(t.splits)
    BY <1>1, Zenon DEF Beside
  <2> QED BY <2>1, <2>2
<1>0. \A j \in B : d[j] \in Int
  BY <1>1, <1>2
<1>3. \E j \in B : \A k \in B : d[k] <= d[j]
  <2> HIDE DEF d, B
  <2>1. CASE i - 1 \in B /\ i \in B
    <3>1. d[i - 1] \in Int /\ d[i] \in Int BY <2>1, <1>0
    <3>2. CASE d[i - 1] <= d[i]
      <4>1. \A k \in B : d[k] <= d[i] BY <3>1, <3>2, <1>2
      <4> QED BY <4>1, <2>1
    <3>3. CASE d[i] <= d[i - 1]
      <4>1. \A k \in B : d[k] <= d[i - 1] BY <3>1, <3>3, <1>2
      <4> QED BY <4>1, <2>1
    <3> QED BY <3>1, <3>2, <3>3
  <2>2. CASE i - 1 \notin B
    <3>1. i \in B /\ d[i] \in Int BY <2>2, <1>0, <1>2
    <3>2. \A k \in B : k = i BY <2>2, <1>2
    <3> QED BY <3>1, <3>2
  <2>3. CASE i \notin B
    <3>1. i - 1 \in B /\ d[i - 1] \in Int BY <2>3, <1>0, <1>2
    <3>2. \A k \in B : k = i - 1 BY <2>3, <1>2
    <3> QED BY <3>1, <3>2
  <2> QED BY <2>1, <2>2, <2>3
<1>5. \E j \in B : \A k \in B : t.splits[k].depth <= t.splits[j].depth
  <2>1. \A j \in B : d[j] = t.splits[j].depth
    BY <1>1, <1>2
  <2> HIDE DEF d
  <2> QED BY <1>3, <2>1
<1>6. Parent(t, i) \in Beside(t, i)
  BY <1>5 DEF Parent
<1> QED BY <1>2, <1>6

\* A pane is removed.
LEMMA RemoveLeafIs ==
  ASSUME NEW t, Good(t), NEW pane \in Panes(t)
  PROVE  LET r == RemoveLeafAt(t, pane)
         IN /\ Good(r) /\ SplitIds(r) \subseteq SplitIds(t)
            /\ Panes(t) \ {pane} \subseteq Panes(r) /\ Panes(r) \subseteq Panes(t)
            /\ \A p \in Panes(r) \ {pane} : LeafAt(r, p) = LeafAt(t, p)
            /\ pane \in Panes(r) => LeafAt(r, pane) = Leaf(pane, <<>>, None)
            /\ IF Len(t.panes) = 1 THEN r.panes = <<Leaf(pane, <<>>, None)>>
               ELSE r.panes = RemoveAt(t.panes, IndexOf(t, pane))
<1> DEFINE r == RemoveLeafAt(t, pane)
           i == IndexOf(t, pane)
           j == Parent(t, i)
           q == RemoveAt(t.panes, i)
           lifted == [k \in DOMAIN t.splits |-> IF k \in Under(t, j) THEN [t.splits[k] EXCEPT !.depth = @ - 1]
                                                ELSE t.splits[k]]
           w == RemoveAt(lifted, j)
<1>1. i \in 1 .. Len(t.panes) /\ t.panes[i].id = pane /\ pane \in PaneId
  BY LeafIs
<1>2. CASE Len(t.panes) = 1
  <2> DEFINE empty == Leaf(pane, <<>>, None)
  <2>1. empty \in LeafSet /\ LeafOK(empty) /\ empty.id = pane
    BY <1>1 DEF LeafSet, Leaf, LeafOK
  <2>2. r = Tree(<<empty>>, <<>>)
    BY <1>2 DEF RemoveLeafAt, Single
  <2> HIDE DEF empty
  <2>3. /\ <<empty>> \in Seq(LeafSet) /\ <<>> \in Seq(SplitSet) /\ NoTwins(<<empty>>) /\ NoTwins(<<>>)
        /\ <<empty>> # <<>> /\ Len(<<empty>>) = 1 /\ <<empty>>[1] = empty /\ Len(<<>>) = 0
    BY <2>1 DEF NoTwins
  <2>4. Good(r) /\ r.panes = <<empty>> /\ r.splits = <<>>
    <3>1. \A k \in 1 .. Len(<<empty>>) : LeafOK(<<empty>>[k]) BY <2>1, <2>3
    <3> DEFINE s1 == <<empty>>
               s2 == <<>>
    <3>2. /\ s1 \in Seq(LeafSet) /\ s2 \in Seq(SplitSet) /\ s1 # <<>> /\ Len(s2) = Len(s1) - 1
          /\ NoTwins(s1) /\ NoTwins(s2) /\ \A k \in 1 .. Len(s1) : LeafOK(s1[k])
      BY <2>3, <3>1
    <3>3. r = Tree(s1, s2)
      BY <2>2
    <3> HIDE DEF s1, s2, r
    <3>4. Good(r) /\ r.panes = s1 /\ r.splits = s2
      BY <3>2, <3>3, MakesGood
    <3> QED BY <3>4 DEF s1, s2
  <2> HIDE DEF r
  <2>5. Panes(r) = {pane} /\ SplitIds(r) = {} /\ LeafAt(r, pane) = empty
    <3>1. Panes(r) = {pane} BY <2>1, <2>3, <2>4, PanesAre
    <3>2. SplitIds(r) = {} BY <2>4 DEF SplitIds
    <3>3. LeafAt(r, pane) = empty
      <4>1. 1 \in 1 .. Len(r.panes) /\ r.panes[1] = empty BY <2>3, <2>4
      <4> QED BY <4>1, <2>1, <2>4, LeafIs
    <3> QED BY <3>1, <3>2, <3>3
  <2>6. Panes(t) \subseteq {pane}
    BY <1>1, <1>2, PanesAre, GoodHas
  <2> QED BY <2>4, <2>5, <2>6, <1>2 DEF r, empty
<1>3. CASE Len(t.panes) # 1
  <2>1. j \in 1 .. Len(t.splits)
    BY <1>1, <1>3, ParentIs
  <2>2. r = Tree(q, w)
    BY <1>3 DEF RemoveLeafAt
  <2>3. /\ lifted \in Seq(SplitSet) /\ Len(lifted) = Len(t.splits) /\ NoTwins(lifted)
        /\ \A k \in 1 .. Len(t.splits) : lifted[k].id = t.splits[k].id
    <3>1. ASSUME NEW k \in 1 .. Len(t.splits) PROVE lifted[k] \in SplitSet /\ lifted[k].id = t.splits[k].id
      <4> DEFINE e == t.splits[k]
      <4>1. e \in SplitSet /\ k \in DOMAIN t.splits
        BY GoodHas
      <4>2. lifted[k] = IF k \in Under(t, j) THEN [e EXCEPT !.depth = @ - 1] ELSE e
        BY <4>1
      <4> HIDE DEF lifted, e, j
      <4>3. [e EXCEPT !.depth = @ - 1] \in SplitSet /\ [e EXCEPT !.depth = @ - 1].id = e.id
        BY <4>1 DEF SplitSet
      <4> QED BY <4>2, <4>3, <4>1 DEF e
    <3>2. lifted \in [1 .. Len(t.splits) -> SplitSet]
      BY <3>1, GoodHas
    <3>3. Len(t.splits) \in Nat /\ DOMAIN t.splits = 1 .. Len(t.splits) BY GoodHas
    <3> HIDE DEF lifted
    <3>4. lifted \in Seq(SplitSet) /\ Len(lifted) = Len(t.splits) /\ DOMAIN lifted = 1 .. Len(t.splits)
      BY <3>2, <3>3, IsASeq
    <3> QED BY <3>1, <3>3, <3>4 DEF Good, NoTwins
  <2> HIDE DEF lifted, j, i
  <2>4. /\ q \in Seq(LeafSet) /\ Len(q) = Len(t.panes) - 1 /\ NoTwins(q)
        /\ \A k \in 1 .. Len(t.panes) : k # i => \E l \in 1 .. Len(t.panes) - 1 : q[l] = t.panes[k]
        /\ \A l \in 1 .. Len(t.panes) - 1 : \E k \in 1 .. Len(t.panes) : k # i /\ q[l] = t.panes[k]
    <3>1. t.panes \in Seq(LeafSet) /\ NoTwins(t.panes) /\ i \in 1 .. Len(t.panes)
      BY <1>1, GoodHas DEF Good, i
    <3> DEFINE a == t.panes
    <3>2. q = RemoveAt(a, i) /\ a \in Seq(LeafSet) /\ NoTwins(a) /\ i \in 1 .. Len(a)
      BY <3>1
    <3> HIDE DEF a, q
    <3>3. /\ q \in Seq(LeafSet) /\ Len(q) = Len(a) - 1 /\ NoTwins(q)
          /\ \A k \in 1 .. Len(a) : k # i => \E l \in 1 .. Len(a) - 1 : q[l] = a[k]
          /\ \A l \in 1 .. Len(a) - 1 : \E k \in 1 .. Len(a) : k # i /\ q[l] = a[k]
      <4>1. q \in Seq(LeafSet) /\ Len(q) = Len(a) - 1 BY <3>2, RemoveAtIs
      <4>2. /\ NoTwins(q)
            /\ \A k \in 1 .. Len(a) : k # i => \E l \in 1 .. Len(a) - 1 : q[l] = a[k]
            /\ \A l \in 1 .. Len(a) - 1 : \E k \in 1 .. Len(a) : k # i /\ q[l] = a[k]
        BY <3>2, RemoveKeepsApart
      <4> QED BY <4>1, <4>2
    <3> QED BY <3>3 DEF a
  <2>5. /\ w \in Seq(SplitSet) /\ Len(w) = Len(t.splits) - 1 /\ NoTwins(w)
        /\ \A l \in 1 .. Len(t.splits) - 1 : \E k \in 1 .. Len(t.splits) : w[l] = lifted[k]
    <3>0. w = RemoveAt(lifted, j) /\ j \in 1 .. Len(lifted)
      BY <2>1, <2>3
    <3> HIDE DEF w
    <3>1. w \in Seq(SplitSet) /\ Len(w) = Len(lifted) - 1
      BY <3>0, <2>3, RemoveAtIs
    <3>2. NoTwins(w) /\ \A l \in 1 .. Len(lifted) - 1 : \E k \in 1 .. Len(lifted) : k # j /\ w[l] = lifted[k]
      BY <3>0, <2>3, RemoveKeepsApart
    <3> QED BY <3>1, <3>2, <2>3
  <2> HIDE DEF q, w
  <2>6. Good(r) /\ r.panes = q /\ r.splits = w
    <3>1. q # <<>> /\ Len(w) = Len(q) - 1
      <4>1. Len(t.panes) \in Nat \ {0} /\ Len(t.splits) = Len(t.panes) - 1 BY GoodHas
      <4>2. Len(q) # 0 BY <4>1, <1>3, <2>4
      <4>3. Len(<<>>) = 0 OBVIOUS
      <4> QED BY <4>1, <4>2, <4>3, <2>4, <2>5
    <3>2. \A k \in 1 .. Len(q) : LeafOK(q[k]) BY <2>4, GoodHas
    <3>3. q \in Seq(LeafSet) /\ NoTwins(q) /\ w \in Seq(SplitSet) /\ NoTwins(w)
      BY <2>4, <2>5
    <3> HIDE DEF r
    <3> QED BY <3>1, <3>2, <3>3, <2>2, MakesGood
  <2> HIDE DEF r
  <2>7. SplitIds(r) \subseteq SplitIds(t)
    <3>1. DOMAIN w = 1 .. Len(t.splits) - 1 /\ DOMAIN t.splits = 1 .. Len(t.splits)
      <4>1. w \in Seq(SplitSet) /\ Len(w) = Len(t.splits) - 1 BY <2>5
      <4>2. DOMAIN w = 1 .. Len(w) BY <4>1
      <4> QED BY <4>1, <4>2, GoodHas
    <3>2. \A l \in DOMAIN w : \E k \in DOMAIN t.splits : w[l].id = t.splits[k].id
      BY <3>1, <2>3, <2>5
    <3> QED BY <3>2, <2>6 DEF SplitIds
  <2>8. DOMAIN q = 1 .. Len(t.panes) - 1 /\ DOMAIN t.panes = 1 .. Len(t.panes)
    BY <2>4, GoodHas
  <2>9. Panes(r) = Panes(t) \ {pane}
    <3>1. ASSUME NEW p \in Panes(r) PROVE p \in Panes(t) \ {pane}
      <4>1. PICK l \in 1 .. Len(t.panes) - 1 : q[l].id = p BY <2>6, <2>8, PanesAre
      <4>2. PICK k \in 1 .. Len(t.panes) : k # i /\ q[l] = t.panes[k] BY <2>4
      <4>3. t.panes[k].id = p /\ p # pane BY <4>1, <4>2, <1>1, <2>8 DEF Good, NoTwins
      <4> QED BY <4>3, <2>8, PanesAre
    <3>2. ASSUME NEW p \in Panes(t) \ {pane} PROVE p \in Panes(r)
      <4>1. PICK k \in 1 .. Len(t.panes) : t.panes[k].id = p BY <2>8, PanesAre
      <4>2. k # i BY <4>1, <3>2, <1>1
      <4>3. PICK l \in 1 .. Len(t.panes) - 1 : q[l] = t.panes[k] BY <4>2, <2>4
      <4> QED BY <4>1, <4>3, <2>6, <2>8, PanesAre
    <3> QED BY <3>1, <3>2
  <2>10. ASSUME NEW p \in Panes(r) PROVE LeafAt(r, p) = LeafAt(t, p)
    <3>1. PICK l \in 1 .. Len(t.panes) - 1 : q[l].id = p /\ LeafAt(r, p) = q[l]
      BY <2>4, <2>6, LeafIs DEF LeafAt
    <3>2. PICK k \in 1 .. Len(t.panes) : q[l] = t.panes[k] BY <2>4
    <3> QED BY <3>1, <3>2, LeafIs
  <2> QED BY <2>6, <2>7, <2>9, <2>10, <1>3 DEF r, q, i
<1> QED BY <1>2, <1>3

LEMMA MaxOfThree ==
  ASSUME NEW a \in Int, NEW b \in Int, NEW c \in Int, NEW S \in SUBSET {a, b, c}, S # {}
  PROVE  Max(S) \in S
<1>1. \E x \in S : \A y \in S : x >= y
  <2>0. a \in S \/ b \in S \/ c \in S
    OBVIOUS
  <2>1. CASE a \in S /\ (b \in S => a >= b) /\ (c \in S => a >= c)
    BY <2>1
  <2>2. CASE b \in S /\ (a \in S => b >= a) /\ (c \in S => b >= c)
    BY <2>2
  <2>3. CASE c \in S /\ (b \in S => c >= b) /\ (a \in S => c >= a)
    BY <2>3
  <2> QED BY <2>0, <2>1, <2>2, <2>3
<1> QED BY <1>1, Zenon DEF Max

\* A pane is split: the fresh one joins, and the others stay as they are.
LEMMA SplitLeafIs ==
  ASSUME NEW t, Good(t), NEW pane \in Panes(t), NEW fresh \in LeafSet, LeafOK(fresh), fresh.id \notin Panes(t),
         NEW id \in SplitId, id \notin SplitIds(t), NEW front \in BOOLEAN
  PROVE  LET r == SplitLeafAt(t, pane, fresh, id, front)
         IN /\ Good(r) /\ Panes(r) = Panes(t) \cup {fresh.id} /\ SplitIds(r) = SplitIds(t) \cup {id}
            /\ LeafAt(r, fresh.id) = fresh
            /\ \A p \in Panes(t) : LeafAt(r, p) = LeafAt(t, p)
<1> DEFINE r == SplitLeafAt(t, pane, fresh, id, front)
           i == IndexOf(t, pane)
           at == IF front THEN i ELSE i + 1
           depths == {t.splits[j].depth + 1 : j \in Beside(t, i)}
           new == [id |-> id, depth |-> Max(depths \cup {0})]
           a == t.panes
           b == t.splits
           q == InsertAt(a, at, fresh)
           w == InsertAt(b, i, new)
<1>1. r = Tree(q, w)
  BY DEF SplitLeafAt
<1>2. /\ a \in Seq(LeafSet) /\ b \in Seq(SplitSet) /\ NoTwins(a) /\ NoTwins(b)
      /\ DOMAIN a = 1 .. Len(a) /\ DOMAIN b = 1 .. Len(b) /\ Len(a) \in Nat \ {0} /\ Len(b) = Len(a) - 1
      /\ \A k \in 1 .. Len(a) : LeafOK(a[k])
      /\ \A k \in 1 .. Len(b) : b[k] \in SplitSet
  BY GoodHas DEF Good
<1>3. i \in 1 .. Len(a)
  BY LeafIs
<1>4. new \in SplitSet
  <2> DEFINE x == IF i - 1 \in Beside(t, i) THEN t.splits[i - 1].depth + 1 ELSE 0
             y == IF i \in Beside(t, i) THEN t.splits[i].depth + 1 ELSE 0
  <2>1. \A j \in Beside(t, i) : j \in {i - 1, i} /\ t.splits[j].depth \in Int
    BY <1>2 DEF Beside, SplitSet
  <2>2. x \in Int /\ y \in Int
    BY <2>1
  <2>3. depths \cup {0} \in SUBSET {x, y, 0} /\ depths \cup {0} # {}
    BY <2>1
  <2>4. depths \cup {0} \in SUBSET Int
    BY <2>2, <2>3
  <2> DEFINE D == depths \cup {0}
  <2>5. x \in Int /\ y \in Int /\ 0 \in Int /\ D \in SUBSET {x, y, 0} /\ D # {} /\ D \in SUBSET Int
    BY <2>2, <2>3, <2>4
  <2>6. new = [id |-> id, depth |-> Max(D)]
    OBVIOUS
  <2> HIDE DEF x, y, depths, D, new
  <2>7. Max(D) \in D
    BY <2>5, MaxOfThree
  <2> QED BY <2>5, <2>6, <2>7 DEF SplitSet
<1>5. (\A k \in DOMAIN a : a[k].id # fresh.id) /\ (\A k \in DOMAIN b : b[k].id # new.id) /\ new.id = id
  BY PanesAre DEF SplitIds
<1>6. at \in 1 .. Len(a) + 1 /\ i \in 1 .. Len(b) + 1
  BY <1>2, <1>3
<1> HIDE DEF i, at, depths, new, a, b, q, w, r
<1>7. /\ q \in Seq(LeafSet) /\ Len(q) = Len(a) + 1 /\ NoTwins(q)
      /\ \A k \in 1 .. Len(a) : \E l \in 1 .. Len(a) + 1 : q[l] = a[k]
      /\ \A l \in 1 .. Len(a) + 1 : q[l] = fresh \/ \E k \in 1 .. Len(a) : q[l] = a[k]
      /\ q[at] = fresh
  <2>1. q \in Seq(LeafSet) /\ Len(q) = Len(a) + 1
    BY <1>2, <1>6, InsertAtIs DEF q, WithAt
  <2>2. /\ NoTwins(q) /\ q[at] = fresh
        /\ \A k \in 1 .. Len(a) : \E l \in 1 .. Len(a) + 1 : q[l] = a[k]
        /\ \A l \in 1 .. Len(a) + 1 : q[l] = fresh \/ \E k \in 1 .. Len(a) : q[l] = a[k]
    <3>1. /\ a \in Seq(LeafSet) /\ at \in 1 .. Len(a) + 1 /\ NoTwins(a)
          /\ \A k \in DOMAIN a : a[k].id # fresh.id
      BY <1>2, <1>5, <1>6
    <3> QED BY <3>1, InsertKeepsApart DEF q
  <2> QED BY <2>1, <2>2
<1>8. /\ w \in Seq(SplitSet) /\ Len(w) = Len(b) + 1 /\ NoTwins(w)
      /\ \A k \in 1 .. Len(b) : \E l \in 1 .. Len(b) + 1 : w[l] = b[k]
      /\ \A l \in 1 .. Len(b) + 1 : w[l] = new \/ \E k \in 1 .. Len(b) : w[l] = b[k]
      /\ w[i] = new
  <2>1. w \in Seq(SplitSet) /\ Len(w) = Len(b) + 1
    BY <1>2, <1>4, <1>6, InsertAtIs DEF w, WithAt
  <2>2. /\ NoTwins(w) /\ w[i] = new
        /\ \A k \in 1 .. Len(b) : \E l \in 1 .. Len(b) + 1 : w[l] = b[k]
        /\ \A l \in 1 .. Len(b) + 1 : w[l] = new \/ \E k \in 1 .. Len(b) : w[l] = b[k]
    <3>1. /\ b \in Seq(SplitSet) /\ i \in 1 .. Len(b) + 1 /\ NoTwins(b) /\ new \in SplitSet
          /\ \A k \in DOMAIN b : b[k].id # new.id
      BY <1>2, <1>4, <1>5, <1>6
    <3> QED BY <3>1, InsertKeepsApart DEF w
  <2> QED BY <2>1, <2>2
<1>9. DOMAIN q = 1 .. Len(a) + 1 /\ DOMAIN w = 1 .. Len(b) + 1 /\ Len(b) \in Nat
  <2>1. DOMAIN q = 1 .. Len(q) /\ DOMAIN w = 1 .. Len(w)
    BY <1>7, <1>8
  <2> QED BY <2>1, <1>2, <1>7, <1>8
<1>10. Good(r) /\ r.panes = q /\ r.splits = w
  <2>1. q # <<>> /\ Len(w) = Len(q) - 1
    <3>1. Len(q) # 0 BY <1>2, <1>7
    <3>2. Len(<<>>) = 0 OBVIOUS
    <3> QED BY <3>1, <3>2, <1>2, <1>7, <1>8
  <2>2. \A k \in 1 .. Len(q) : LeafOK(q[k])
    BY <1>2, <1>7
  <2>3. q \in Seq(LeafSet) /\ NoTwins(q) /\ w \in Seq(SplitSet) /\ NoTwins(w)
    BY <1>7, <1>8
  <2> QED BY <2>1, <2>2, <2>3, <1>1, MakesGood
<1>11. Panes(r) = Panes(t) \cup {fresh.id}
  <2>1. Panes(r) = {q[k].id : k \in 1 .. Len(a) + 1} /\ Panes(t) = {a[k].id : k \in 1 .. Len(a)}
    BY <1>2, <1>9, <1>10, PanesAre DEF a
  <2>2. \A k \in 1 .. Len(a) : \E l \in 1 .. Len(a) + 1 : q[l].id = a[k].id
    BY <1>7
  <2>3. \A l \in 1 .. Len(a) + 1 : q[l].id = fresh.id \/ \E k \in 1 .. Len(a) : q[l].id = a[k].id
    BY <1>7
  <2>4. at \in 1 .. Len(a) + 1 /\ q[at].id = fresh.id
    BY <1>6, <1>7
  <2>5. \A l \in 1 .. Len(a) + 1 : q[l].id \in Panes(t) \cup {fresh.id}
    BY <2>1, <2>3
  <2>6. (\A k \in 1 .. Len(a) : a[k].id \in Panes(r)) /\ fresh.id \in Panes(r)
    BY <2>1, <2>2, <2>4
  <2> QED BY <2>1, <2>5, <2>6
<1>12. SplitIds(r) = SplitIds(t) \cup {id}
  <2>1. SplitIds(r) = {w[k].id : k \in 1 .. Len(b) + 1} /\ SplitIds(t) = {b[k].id : k \in 1 .. Len(b)}
    BY <1>2, <1>9, <1>10 DEF SplitIds, b
  <2>2. \A k \in 1 .. Len(b) : \E l \in 1 .. Len(b) + 1 : w[l].id = b[k].id
    BY <1>8
  <2>3. \A l \in 1 .. Len(b) + 1 : w[l].id = id \/ \E k \in 1 .. Len(b) : w[l].id = b[k].id
    BY <1>5, <1>8
  <2>4. i \in 1 .. Len(b) + 1 /\ w[i].id = id
    BY <1>5, <1>6, <1>8
  <2>5. \A l \in 1 .. Len(b) + 1 : w[l].id \in SplitIds(t) \cup {id}
    BY <2>1, <2>3
  <2>6. (\A k \in 1 .. Len(b) : b[k].id \in SplitIds(r)) /\ id \in SplitIds(r)
    BY <2>1, <2>2, <2>4
  <2> QED BY <2>1, <2>5, <2>6
<1>13. \A l \in 1 .. Len(a) + 1 : LeafAt(r, q[l].id) = q[l]
  <2>1. Len(q) = Len(a) + 1 BY <1>7
  <2> QED BY <1>10, <2>1, LeafIs
<1>14. ASSUME NEW p \in Panes(t) PROVE LeafAt(r, p) = LeafAt(t, p)
  <2>1. PICK k \in 1 .. Len(a) : a[k].id = p /\ LeafAt(t, p) = a[k]
    BY LeafIs DEF LeafAt, a
  <2>2. PICK l \in 1 .. Len(a) + 1 : q[l] = a[k]
    BY <1>7
  <2> QED BY <2>1, <2>2, <1>13
<1> QED BY <1>6, <1>7, <1>10, <1>11, <1>12, <1>13, <1>14 DEF r

-------------------------------------------------------------------------------
(* The tabs of a tree                                                          *)

\* The tabs of a tree are those of its panes.
LEMMA TabIdsAre ==
  ASSUME NEW t, Good(t)
  PROVE  /\ TabIds(t) = UNION {Ids(LeafAt(t, p).tabs) : p \in Panes(t)}
         /\ TabIds(t) \subseteq TabId
<1>1. \A i \in DOMAIN t.panes : t.panes[i].id \in Panes(t) /\ LeafAt(t, t.panes[i].id) = t.panes[i]
  BY LeafIs, GoodHas
<1>2. \A p \in Panes(t) : IndexOf(t, p) \in DOMAIN t.panes /\ LeafAt(t, p) = t.panes[IndexOf(t, p)]
  BY LeafIs, GoodHas DEF LeafAt
<1>3. TabIds(t) = UNION {Ids(LeafAt(t, p).tabs) : p \in Panes(t)}
  BY <1>1, <1>2, Zenon DEF TabIds
<1>4. ASSUME NEW p \in Panes(t), NEW i \in DOMAIN LeafAt(t, p).tabs PROVE LeafAt(t, p).tabs[i].id \in TabId
  <2> DEFINE s == LeafAt(t, p).tabs
  <2>1. s \in Seq(SideTab)
    BY LeafIs DEF LeafSet
  <2> HIDE DEF s
  <2>2. \A k \in DOMAIN s : s[k] \in SideTab
    BY <2>1
  <2>3. \A x \in SideTab : x.id \in TabId
    BY DEF SideTab, TabId, TabOf, GitTab, DiffTab, AgentTab
  <2> QED BY <1>4, <2>2, <2>3 DEF s
<1> QED BY <1>3, <1>4 DEF Ids

Nodes(t) == Panes(t) \cup SplitIds(t)
Has(t, p) == Ids(LeafAt(t, p).tabs)

\* The id x is in one pane of the tree at most, and there once.
Once(t, x) ==
  /\ \A p \in Panes(t) : OnceIn(LeafAt(t, p).tabs, x)
  /\ \A p, q \in Panes(t) : x \in Has(t, p) /\ x \in Has(t, q) => p = q

\* u has the tabs of s but for some, and tabs of c.
Gains(s, u, c) ==
  /\ Ids(u) \subseteq Ids(s) \cup Ids(c)
  /\ \A x : OnceIn(s, x) /\ OnceIn(c, x) /\ ~(x \in Ids(s) /\ x \in Ids(c)) => OnceIn(u, x)

\* The tree t becomes r, with nodes numbered above lo up to hi and the tabs c.
Yields(t, r, lo, hi, c) ==
  /\ Good(r)
  /\ \A id \in Nodes(r) \ Nodes(t) : lo < id[2] /\ id[2] <= hi
  /\ TabIds(r) \subseteq TabIds(t) \cup Ids(c)
  /\ \A x : Once(t, x) /\ OnceIn(c, x) /\ ~(x \in TabIds(t) /\ x \in Ids(c)) => Once(r, x)

Before(t, p) == IF p \in Panes(t) THEN LeafAt(t, p).tabs ELSE <<>>

LEMMA NoTabs == Ids(<<>>) = {} /\ \A x : OnceIn(<<>>, x)
BY DEF Ids, OnceIn

LEMMA GainsNone ==
  ASSUME NEW s PROVE Gains(s, s, <<>>) /\ \A c : Gains(s, s, c)
BY NoTabs DEF Gains

LEMMA HasTabs ==
  ASSUME NEW t, Good(t), NEW p \in Panes(t)
  PROVE  /\ Has(t, p) \subseteq TabIds(t) /\ LeafAt(t, p).tabs \in Seq(SideTab)
         /\ DOMAIN LeafAt(t, p).tabs = 1 .. Len(LeafAt(t, p).tabs) /\ Len(LeafAt(t, p).tabs) \in Nat
<1>1. LeafAt(t, p).tabs \in Seq(SideTab)
  BY LeafIs DEF LeafSet
<1>2. Has(t, p) \subseteq TabIds(t)
  BY TabIdsAre DEF Has
<1> QED BY <1>1, <1>2

\* A tree becomes another one pane by pane; at most one pane gains tabs.
LEMMA LeafwiseBecomes ==
  ASSUME NEW t, NEW r, Good(t), Good(r), NEW p0, NEW c, NEW lo, NEW hi,
         \A id \in Nodes(r) \ Nodes(t) : lo < id[2] /\ id[2] <= hi,
         \A p \in Panes(r) \ {p0} : p \in Panes(t) /\ Gains(LeafAt(t, p).tabs, LeafAt(r, p).tabs, <<>>),
         p0 \in Panes(r) => Gains(Before(t, p0), LeafAt(r, p0).tabs, c)
  PROVE  Yields(t, r, lo, hi, c)
<1>1. ASSUME NEW p \in Panes(r), NEW x \in Has(r, p)
      PROVE  \/ p \in Panes(t) /\ x \in Has(t, p)
             \/ p = p0 /\ x \in Ids(c)
  <2>1. CASE p = p0
    <3>1. x \in Ids(Before(t, p0)) \cup Ids(c)
      BY <1>1, <2>1 DEF Has, Gains
    <3> QED BY <3>1, <2>1, NoTabs DEF Before, Has
  <2>2. CASE p # p0
    <3>1. p \in Panes(t) /\ Ids(LeafAt(r, p).tabs) \subseteq Ids(LeafAt(t, p).tabs) \cup {}
      BY <1>1, <2>2, NoTabs DEF Gains
    <3> QED BY <3>1 DEF Has
  <2> QED BY <2>1, <2>2
<1>2. TabIds(r) \subseteq TabIds(t) \cup Ids(c)
  <2>1. ASSUME NEW x \in TabIds(r) PROVE x \in TabIds(t) \cup Ids(c)
    <3>1. PICK p \in Panes(r) : x \in Has(r, p)
      BY TabIdsAre DEF Has
    <3> QED BY <3>1, <1>1, HasTabs
  <2> QED BY <2>1
<1>3. ASSUME NEW x, Once(t, x), OnceIn(c, x), ~(x \in TabIds(t) /\ x \in Ids(c)) PROVE Once(r, x)
  <2>1. ASSUME NEW p \in Panes(r) PROVE OnceIn(LeafAt(r, p).tabs, x)
    <3>1. CASE p = p0
      <4>1. OnceIn(Before(t, p0), x) /\ (x \in Ids(Before(t, p0)) => x \in TabIds(t))
        BY <1>3, NoTabs, HasTabs DEF Before, Once, Has
      <4>2. Gains(Before(t, p0), LeafAt(r, p0).tabs, c)
        BY <3>1
      <4> QED BY <4>1, <4>2, <3>1, <1>3 DEF Gains
    <3>2. CASE p # p0
      <4>1. p \in Panes(t) /\ Gains(LeafAt(t, p).tabs, LeafAt(r, p).tabs, <<>>)
        BY <3>2
      <4>2. OnceIn(LeafAt(t, p).tabs, x)
        BY <4>1, <1>3 DEF Once
      <4> QED BY <4>1, <4>2, NoTabs DEF Gains
    <3> QED BY <3>1, <3>2
  <2>2. ASSUME NEW p \in Panes(r), NEW q \in Panes(r), x \in Has(r, p), x \in Has(r, q) PROVE p = q
    <3>1. CASE x \in TabIds(t)
      <4>1. p \in Panes(t) /\ x \in Has(t, p) /\ q \in Panes(t) /\ x \in Has(t, q)
        BY <3>1, <2>2, <1>1, <1>3
      <4> QED BY <4>1, <1>3 DEF Once
    <3>2. CASE x \notin TabIds(t)
      BY <3>2, <2>2, <1>1, HasTabs
    <3> QED BY <3>1, <3>2
  <2> QED BY <2>1, <2>2 DEF Once
<1> QED BY <1>2, <1>3 DEF Yields

\* A tree that stays loses and gains nothing.
LEMMA BecomesItself ==
  ASSUME NEW t, Good(t), NEW lo, NEW hi, NEW c PROVE Yields(t, t, lo, hi, c)
BY DEF Yields

\* A tree changes step by step.
LEMMA BecomesAfter ==
  ASSUME NEW t, NEW m, NEW r, NEW lo, NEW hi, NEW c,
         Yields(t, m, lo, hi, <<>>), Yields(m, r, lo, hi, c)
  PROVE  Yields(t, r, lo, hi, c)
<1>1. TabIds(m) \subseteq TabIds(t) /\ \A x : Once(t, x) => Once(m, x)
  BY NoTabs DEF Yields
<1>2. Good(r) /\ TabIds(r) \subseteq TabIds(m) \cup Ids(c)
      /\ \A x : Once(m, x) /\ OnceIn(c, x) /\ ~(x \in TabIds(m) /\ x \in Ids(c)) => Once(r, x)
  BY DEF Yields
<1>3. \A id \in Nodes(r) \ Nodes(t) : lo < id[2] /\ id[2] <= hi
  BY DEF Yields
<1> QED BY <1>1, <1>2, <1>3 DEF Yields

\* What Only leaves of a pane's tabs.
LEMMA GainsOnly ==
  ASSUME NEW S, NEW s \in Seq(S), NEW I
  PROVE  Gains(s, Only(s, I), <<>>)
<1>1. /\ Ids(Only(s, I)) = {s[i].id : i \in I \cap DOMAIN s}
      /\ \A x : OnceIn(s, x) => OnceIn(Only(s, I), x)
  BY OnlyKeeps
<1>2. Ids(Only(s, I)) \subseteq Ids(s)
  BY <1>1 DEF Ids
<1> QED BY <1>1, <1>2 DEF Gains

\* A tab joins a pane's tabs.
LEMMA GainsTab ==
  ASSUME NEW S, NEW s \in Seq(S), NEW tab \in S, NEW i \in 1 .. Len(s) + 1
  PROVE  /\ InsertAt(s, i, tab) \in Seq(S)
         /\ Ids(InsertAt(s, i, tab)) = Ids(s) \cup {tab.id}
         /\ Gains(s, InsertAt(s, i, tab), <<tab>>)
<1> DEFINE r == InsertAt(s, i, tab)
<1>1. /\ r \in Seq(S) /\ Len(r) = Len(s) + 1
      /\ \A k \in 1 .. Len(s) + 1 : r[k] = IF k < i THEN s[k] ELSE IF k = i THEN tab ELSE s[k - 1]
  <2>1. WithAt(S, s, i, tab, r)
    BY InsertAtIs
  <2> HIDE DEF r
  <2> QED BY <2>1 DEF WithAt
<1> HIDE DEF r
<1>2. Len(s) \in Nat /\ DOMAIN s = 1 .. Len(s) /\ DOMAIN r = 1 .. Len(s) + 1 /\ i \in Int
  BY <1>1
<1>3. ASSUME NEW k \in DOMAIN r
      PROVE  \/ k = i /\ r[k] = tab
             \/ k < i /\ k \in DOMAIN s /\ r[k] = s[k]
             \/ k > i /\ k - 1 \in DOMAIN s /\ r[k] = s[k - 1]
  BY <1>1, <1>2
<1>4. ASSUME NEW k \in DOMAIN s PROVE \E l \in DOMAIN r : r[l] = s[k]
  <2>1. CASE k < i BY <2>1, <1>1, <1>2
  <2>2. CASE k >= i
    <3>1. k + 1 \in DOMAIN r /\ r[k + 1] = s[(k + 1) - 1] /\ (k + 1) - 1 = k BY <2>2, <1>1, <1>2
    <3> QED BY <3>1
  <2> QED BY <2>1, <2>2, <1>2
<1>5. i \in DOMAIN r /\ r[i] = tab
  BY <1>1, <1>2
<1>6. Ids(r) = Ids(s) \cup {tab.id}
  <2>1. ASSUME NEW x \in Ids(r) PROVE x \in Ids(s) \cup {tab.id}
    BY <1>3 DEF Ids
  <2>2. ASSUME NEW x \in Ids(s) \cup {tab.id} PROVE x \in Ids(r)
    BY <1>4, <1>5 DEF Ids
  <2> QED BY <2>1, <2>2
<1>7. Ids(<<tab>>) = {tab.id}
  BY DEF Ids
<1>8. ASSUME NEW x, OnceIn(s, x), ~(x \in Ids(s) /\ x = tab.id) PROVE OnceIn(r, x)
  <2> SUFFICES ASSUME NEW k \in DOMAIN r, NEW l \in DOMAIN r, r[k].id = x, r[l].id = x PROVE k = l
    BY DEF OnceIn
  <2>1. CASE x = tab.id
    <3>1. \A m \in DOMAIN s : s[m].id # x BY <2>1, <1>8 DEF Ids
    <3> QED BY <3>1, <1>3
  <2>2. CASE x # tab.id
    <3>1. /\ (k < i /\ k \in DOMAIN s /\ s[k].id = x) \/ (k > i /\ k - 1 \in DOMAIN s /\ s[k - 1].id = x)
          /\ (l < i /\ l \in DOMAIN s /\ s[l].id = x) \/ (l > i /\ l - 1 \in DOMAIN s /\ s[l - 1].id = x)
      BY <2>2, <1>3
    <3>2. \A m, n \in DOMAIN s : s[m].id = x /\ s[n].id = x => m = n
      BY <1>8 DEF OnceIn
    <3>3. k \in Int /\ l \in Int
      BY <1>2
    <3> QED BY <3>1, <3>2, <3>3, <1>2
  <2> QED BY <2>1, <2>2
<1> QED BY <1>1, <1>6, <1>7, <1>8 DEF Gains, r

\* Tabs join a pane's tabs at the end.
LEMMA GainsTabs ==
  ASSUME NEW S, NEW s \in Seq(S), NEW c \in Seq(S)
  PROVE  /\ s \o c \in Seq(S)
         /\ Ids(s \o c) = Ids(s) \cup Ids(c)
         /\ Gains(s, s \o c, c)
<1> DEFINE r == s \o c
<1>1. /\ r \in Seq(S) /\ Len(r) = Len(s) + Len(c) /\ Len(s) \in Nat /\ Len(c) \in Nat
      /\ \A k \in 1 .. Len(s) : r[k] = s[k]
      /\ \A k \in 1 .. Len(c) : r[Len(s) + k] = c[k]
  BY ConcatIs
<1>2. DOMAIN s = 1 .. Len(s) /\ DOMAIN c = 1 .. Len(c)
  OBVIOUS
<1> HIDE DEF r
<1>3. DOMAIN r = 1 .. Len(s) + Len(c)
  BY <1>1
<1>4. ASSUME NEW k \in DOMAIN r
      PROVE  \/ k <= Len(s) /\ k \in DOMAIN s /\ r[k] = s[k]
             \/ k > Len(s) /\ k - Len(s) \in DOMAIN c /\ r[k] = c[k - Len(s)]
  <2>1. CASE k <= Len(s) BY <2>1, <1>1, <1>2, <1>3
  <2>2. CASE k > Len(s)
    <3>1. k - Len(s) \in 1 .. Len(c) /\ Len(s) + (k - Len(s)) = k BY <2>2, <1>1, <1>3
    <3> QED BY <3>1, <2>2, <1>1, <1>2
  <2> QED BY <2>1, <2>2, <1>1, <1>3
<1>5. ASSUME NEW k \in DOMAIN s PROVE k \in DOMAIN r /\ r[k] = s[k]
  BY <1>1, <1>2, <1>3
<1>6. ASSUME NEW k \in DOMAIN c PROVE Len(s) + k \in DOMAIN r /\ r[Len(s) + k] = c[k]
  BY <1>1, <1>2, <1>3
<1>7. Ids(r) = Ids(s) \cup Ids(c)
  <2>1. ASSUME NEW x \in Ids(r) PROVE x \in Ids(s) \cup Ids(c)
    BY <1>4 DEF Ids
  <2>2. ASSUME NEW x \in Ids(s) \cup Ids(c) PROVE x \in Ids(r)
    BY <1>5, <1>6 DEF Ids
  <2> QED BY <2>1, <2>2
<1>8. ASSUME NEW x, OnceIn(s, x), OnceIn(c, x), ~(x \in Ids(s) /\ x \in Ids(c)) PROVE OnceIn(r, x)
  <2> SUFFICES ASSUME NEW k \in DOMAIN r, NEW l \in DOMAIN r, r[k].id = x, r[l].id = x PROVE k = l
    BY DEF OnceIn
  <2>1. CASE x \in Ids(c)
    <3>1. \A m \in DOMAIN s : s[m].id # x BY <2>1, <1>8 DEF Ids
    <3>2. k - Len(s) \in DOMAIN c /\ c[k - Len(s)].id = x /\ l - Len(s) \in DOMAIN c /\ c[l - Len(s)].id = x
      BY <3>1, <1>4
    <3>3. k - Len(s) = l - Len(s)
      BY <3>2, <1>8 DEF OnceIn
    <3> QED BY <3>3, <1>1, <1>3
  <2>2. CASE x \notin Ids(c)
    <3>1. \A m \in DOMAIN c : c[m].id # x BY <2>2 DEF Ids
    <3>2. k \in DOMAIN s /\ s[k].id = x /\ l \in DOMAIN s /\ s[l].id = x
      BY <3>1, <1>4
    <3> QED BY <3>2, <1>8 DEF OnceIn
  <2> QED BY <2>1, <2>2
<1> QED BY <1>1, <1>7, <1>8 DEF Gains, r

-------------------------------------------------------------------------------
(* What the operations do to a tree                                            *)

\* When an id, tabs and an active tab make a leaf.
LEMMA MakesLeaf ==
  ASSUME NEW pane \in PaneId, NEW tabs \in Seq(SideTab), NEW active, active = None \/ active \in Ids(tabs)
  PROVE  Leaf(pane, tabs, active) \in LeafSet /\ LeafOK(Leaf(pane, tabs, active))
         /\ Leaf(pane, tabs, active).id = pane /\ Leaf(pane, tabs, active).tabs = tabs
<1>1. Ids(tabs) \subseteq TabId
  <2>1. \A k \in DOMAIN tabs : tabs[k] \in SideTab
    OBVIOUS
  <2>2. \A x \in SideTab : x.id \in TabId
    BY DEF SideTab, TabId, TabOf, GitTab, DiffTab, AgentTab
  <2> QED BY <2>1, <2>2 DEF Ids
<1> QED BY <1>1 DEF Leaf, LeafSet, LeafOK

\* The leaf of a pane is replaced.
LEMMA MapLeafBecomes ==
  ASSUME NEW t, Good(t), NEW by \in LeafSet, LeafOK(by), NEW c, NEW lo, NEW hi,
         by.id \in Panes(t) => Gains(LeafAt(t, by.id).tabs, by.tabs, c)
  PROVE  LET r == MapLeaf(t, by.id, by)
         IN /\ Yields(t, r, lo, hi, c) /\ Panes(r) = Panes(t) /\ SplitIds(r) = SplitIds(t)
            /\ \A p \in Panes(t) : LeafAt(r, p) = IF p = by.id THEN by ELSE LeafAt(t, p)
<1> DEFINE r == MapLeaf(t, by.id, by)
<1>1. /\ Good(r) /\ Panes(r) = Panes(t) /\ SplitIds(r) = SplitIds(t)
      /\ \A p \in Panes(t) : LeafAt(r, p) = IF p = by.id THEN by ELSE LeafAt(t, p)
  BY MapLeafIs
<1> HIDE DEF r
<1>2. \A id \in Nodes(r) \ Nodes(t) : lo < id[2] /\ id[2] <= hi
  BY <1>1 DEF Nodes
<1>3. \A p \in Panes(r) \ {by.id} : p \in Panes(t) /\ Gains(LeafAt(t, p).tabs, LeafAt(r, p).tabs, <<>>)
  BY <1>1, GainsNone
<1>4. by.id \in Panes(r) => Gains(Before(t, by.id), LeafAt(r, by.id).tabs, c)
  BY <1>1 DEF Before
<1>5. Yields(t, r, lo, hi, c)
  BY <1>1, <1>2, <1>3, <1>4, LeafwiseBecomes
<1> QED BY <1>1, <1>5 DEF r

LEMMA WithoutIs ==
  ASSUME NEW S, NEW s \in Seq(S), NEW id
  PROVE  /\ Without(s, id) \in Seq(S) /\ Ids(Without(s, id)) = Ids(s) \ {id}
         /\ Gains(s, Without(s, id), <<>>)
         /\ Without(s, id) # <<>> => LastId(Without(s, id)) \in Ids(Without(s, id))
<1> DEFINE I == {i \in DOMAIN s : s[i].id # id}
           r == Without(s, id)
<1>1. r = Only(s, I)
  BY DEF Without
<1> HIDE DEF r
<1>2. r \in Seq(S) /\ Ids(r) = {s[i].id : i \in I \cap DOMAIN s}
  BY <1>1, OnlyKeeps
<1>3. Gains(s, r, <<>>)
  BY <1>1, GainsOnly
<1>4. Ids(r) = Ids(s) \ {id}
  BY <1>2 DEF Ids
<1>5. ASSUME r # <<>> PROVE LastId(r) \in Ids(r)
  <2>1. Len(r) \in DOMAIN r
    BY <1>2, <1>5
  <2> QED BY <2>1, <1>5 DEF LastId, Ids
<1> QED BY <1>2, <1>3, <1>4, <1>5 DEF r

\* A tab leaves a pane.
LEMMA TakeOutIs ==
  ASSUME NEW t, Good(t), NEW pane, NEW id, NEW lo, NEW hi
  PROVE  LET r == TakeOut(t, pane, id)
         IN /\ Yields(t, r, lo, hi, <<>>) /\ Panes(r) \subseteq Panes(t) /\ SplitIds(r) \subseteq SplitIds(t)
            /\ \A p \in Panes(t) \ {pane} : p \in Panes(r) /\ LeafAt(r, p) = LeafAt(t, p)
            /\ pane \in Panes(r) => LeafAt(r, pane).tabs = Without(LeafAt(t, pane).tabs, id)
            /\ pane \in Panes(t) \ Panes(r) => Without(LeafAt(t, pane).tabs, id) = <<>>
            /\ pane \in Panes(t) /\ Once(t, id) /\ id \in Has(t, pane) => id \notin TabIds(r)
<1> DEFINE r == TakeOut(t, pane, id)
           leaf == LeafAt(t, pane)
           rest == Without(leaf.tabs, id)
<1>1. CASE pane \notin Panes(t)
  <2>1. r = t
    BY <1>1 DEF TakeOut
  <2> HIDE DEF r
  <2> QED BY <2>1, <1>1, BecomesItself DEF r
<1>2. CASE pane \in Panes(t)
  <2>1. leaf \in LeafSet /\ leaf.id = pane /\ LeafOK(leaf) /\ pane \in PaneId /\ leaf.tabs \in Seq(SideTab)
    BY <1>2, LeafIs DEF LeafSet
  <2>2. /\ rest \in Seq(SideTab) /\ Ids(rest) = Ids(leaf.tabs) \ {id} /\ Gains(leaf.tabs, rest, <<>>)
        /\ rest # <<>> => LastId(rest) \in Ids(rest)
    BY <2>1, WithoutIs
  <2>3. /\ Good(r) /\ Panes(r) \subseteq Panes(t) /\ SplitIds(r) \subseteq SplitIds(t)
        /\ \A p \in Panes(t) \ {pane} : p \in Panes(r) /\ LeafAt(r, p) = LeafAt(t, p)
        /\ pane \in Panes(r) => LeafAt(r, pane).tabs = rest
        /\ pane \notin Panes(r) => rest = <<>>
    <3>1. CASE rest = <<>>
      <4>1. r = RemoveLeafAt(t, pane)
        BY <1>2, <3>1 DEF TakeOut
      <4> HIDE DEF r, rest, leaf
      <4>2. /\ Good(r) /\ SplitIds(r) \subseteq SplitIds(t)
            /\ Panes(t) \ {pane} \subseteq Panes(r) /\ Panes(r) \subseteq Panes(t)
            /\ \A p \in Panes(r) \ {pane} : LeafAt(r, p) = LeafAt(t, p)
            /\ pane \in Panes(r) => LeafAt(r, pane) = Leaf(pane, <<>>, None)
        BY <4>1, <1>2, RemoveLeafIs
      <4>3. Leaf(pane, <<>>, None).tabs = <<>>
        BY DEF Leaf
      <4> QED BY <4>2, <4>3, <3>1
    <3>2. CASE rest # <<>>
      <4> DEFINE by == Leaf(pane, rest, Refocus(leaf.active, id, rest))
      <4>1. r = MapLeaf(t, pane, by)
        BY <1>2, <3>2 DEF TakeOut
      <4>2. Refocus(leaf.active, id, rest) = None \/ Refocus(leaf.active, id, rest) \in Ids(rest)
        BY <2>1, <2>2, <3>2 DEF Refocus, LeafOK
      <4>3. by \in LeafSet /\ LeafOK(by) /\ by.id = pane /\ by.tabs = rest
        BY <2>1, <2>2, <4>2, MakesLeaf
      <4> HIDE DEF r, rest, leaf, by
      <4>4. /\ Good(r) /\ Panes(r) = Panes(t) /\ SplitIds(r) = SplitIds(t)
            /\ \A p \in Panes(t) : LeafAt(r, p) = IF p = pane THEN by ELSE LeafAt(t, p)
        BY <4>1, <4>3, MapLeafIs
      <4> QED BY <4>3, <4>4, <1>2
    <3> QED BY <3>1, <3>2
  <2> HIDE DEF r
  <2>4. \A x \in Nodes(r) \ Nodes(t) : lo < x[2] /\ x[2] <= hi
    BY <2>3 DEF Nodes
  <2>5. \A p \in Panes(r) \ {pane} : p \in Panes(t) /\ Gains(LeafAt(t, p).tabs, LeafAt(r, p).tabs, <<>>)
    BY <2>3, GainsNone
  <2>6. pane \in Panes(r) => Gains(Before(t, pane), LeafAt(r, pane).tabs, <<>>)
    BY <2>2, <2>3, <1>2 DEF Before
  <2>7. Yields(t, r, lo, hi, <<>>)
    BY <2>3, <2>4, <2>5, <2>6, LeafwiseBecomes
  <2>8. ASSUME Once(t, id), id \in Has(t, pane), id \in TabIds(r) PROVE FALSE
    <3>1. PICK p \in Panes(r) : id \in Ids(LeafAt(r, p).tabs)
      BY <2>3, <2>8, TabIdsAre
    <3>2. CASE p = pane
      BY <3>1, <3>2, <2>2, <2>3
    <3>3. CASE p # pane
      <4>1. p \in Panes(t) /\ id \in Has(t, p)
        BY <3>1, <3>3, <2>3 DEF Has
      <4> QED BY <4>1, <3>3, <1>2, <2>8 DEF Once
    <3> QED BY <3>2, <3>3
  <2> QED BY <2>3, <2>7, <2>8, <1>2 DEF r
<1> QED BY <1>1, <1>2

\* Tree r is t with a tab added to one of its leaves and shown there, if t has that leaf.
Joined(t, r, lo, hi, pane, tab) ==
  /\ Yields(t, r, lo, hi, <<tab>>) /\ Panes(r) = Panes(t) /\ SplitIds(r) = SplitIds(t)
  /\ \A p \in Panes(t) \ {pane} : LeafAt(r, p) = LeafAt(t, p)
  /\ pane \in Panes(t) => Has(r, pane) = Has(t, pane) \cup {tab.id}
                           /\ LeafAt(r, pane).active = tab.id

\* A tab joins a pane, if it is there.
LEMMA PutAtIs ==
  ASSUME NEW t, Good(t), NEW pane, NEW tab \in SideTab, NEW index, NEW lo, NEW hi
  PROVE  Joined(t, PutAt(t, pane, tab, index), lo, hi, pane, tab)
<1> DEFINE r == PutAt(t, pane, tab, index)
           leaf == LeafAt(t, pane)
           at == IF index \in 0..Len(leaf.tabs) THEN index ELSE Len(leaf.tabs)
           tabs == InsertAt(leaf.tabs, at + 1, tab)
           by == Leaf(pane, tabs, tab.id)
<1>1. CASE pane \notin Panes(t)
  <2>1. r = t
    BY <1>1 DEF PutAt
  <2> HIDE DEF r
  <2> QED BY <2>1, <1>1, BecomesItself DEF r, Joined
<1>2. CASE pane \in Panes(t)
  <2>1. r = MapLeaf(t, pane, by)
    BY <1>2 DEF PutAt
  <2>2. leaf.tabs \in Seq(SideTab) /\ pane \in PaneId /\ Len(leaf.tabs) \in Nat
    BY <1>2, LeafIs, HasTabs
  <2>3. at + 1 \in 1 .. Len(leaf.tabs) + 1
    BY <2>2
  <2> HIDE DEF at, leaf
  <2>4. tabs \in Seq(SideTab) /\ Ids(tabs) = Ids(leaf.tabs) \cup {tab.id} /\ Gains(leaf.tabs, tabs, <<tab>>)
    BY <2>2, <2>3, GainsTab
  <2> HIDE DEF tabs
  <2>5. by \in LeafSet /\ LeafOK(by) /\ by.id = pane /\ by.tabs = tabs
    BY <2>2, <2>4, MakesLeaf
  <2>6. by.active = tab.id
    BY DEF Leaf
  <2> HIDE DEF by, r
  <2>7. /\ Yields(t, r, lo, hi, <<tab>>) /\ Panes(r) = Panes(t) /\ SplitIds(r) = SplitIds(t)
        /\ \A p \in Panes(t) : LeafAt(r, p) = IF p = pane THEN by ELSE LeafAt(t, p)
    <3>1. pane \in Panes(t) => Gains(LeafAt(t, pane).tabs, by.tabs, <<tab>>)
      BY <2>4, <2>5 DEF leaf
    <3> QED BY <3>1, <2>1, <2>5, MapLeafBecomes
  <2> QED BY <2>4, <2>5, <2>6, <2>7, <1>2 DEF r, Has, leaf, Joined
<1> QED BY <1>1, <1>2

LEMMA Append1Is ==
  ASSUME NEW t, Good(t), NEW pane, NEW tab \in SideTab, NEW lo, NEW hi
  PROVE  LET r == Append1(t, pane, tab)
         IN /\ Yields(t, r, lo, hi, <<tab>>) /\ Panes(r) = Panes(t) /\ SplitIds(r) = SplitIds(t)
            /\ \A p \in Panes(t) \ {pane} : LeafAt(r, p) = LeafAt(t, p)
            /\ pane \in Panes(t) => Has(r, pane) = Has(t, pane) \cup {tab.id}
                                    /\ LeafAt(r, pane).active = tab.id
<1>1. Joined(t, PutAt(t, pane, tab, Len(OpenTabs) + 1), lo, hi, pane, tab)
  BY PutAtIs
<1> QED BY <1>1 DEF Append1, Joined

\* A leaf with one tab joins a tree.
LEMMA SplitBecomes ==
  ASSUME NEW t, Good(t), NEW pane \in Panes(t), NEW n \in Number, NEW k \in Number, NEW tab \in SideTab,
         NEW lo \in Nat, NEW hi \in Nat, \A x \in Nodes(t) : x[2] <= lo, lo < n, lo < k, n <= hi, k <= hi,
         NEW front \in BOOLEAN
  PROVE  LET r == SplitLeafAt(t, pane, Leaf(<<"pane", n>>, <<tab>>, tab.id), <<"split", k>>, front)
         IN /\ Yields(t, r, lo, hi, <<tab>>) /\ Panes(r) = Panes(t) \cup {<<"pane", n>>}
            /\ \A p \in Panes(t) : LeafAt(r, p) = LeafAt(t, p)
            /\ Has(r, <<"pane", n>>) = {tab.id} /\ LeafAt(r, <<"pane", n>>).active = tab.id
<1> DEFINE fresh == Leaf(<<"pane", n>>, <<tab>>, tab.id)
           id == <<"split", k>>
           r == SplitLeafAt(t, pane, fresh, id, front)
<1>1. <<tab>> \in Seq(SideTab) /\ Ids(<<tab>>) = {tab.id} /\ <<"pane", n>> \in PaneId /\ id \in SplitId
  BY DEF Ids, PaneId, SplitId
<1>2. fresh \in LeafSet /\ LeafOK(fresh) /\ fresh.id = <<"pane", n>> /\ fresh.tabs = <<tab>>
  <2> DEFINE p == <<"pane", n>>
             s == <<tab>>
             a == tab.id
  <2>1. fresh = Leaf(p, s, a) /\ p \in PaneId /\ s \in Seq(SideTab) /\ a \in Ids(s)
    BY <1>1
  <2> HIDE DEF p, s, a, fresh
  <2>2. fresh \in LeafSet /\ LeafOK(fresh) /\ fresh.id = p /\ fresh.tabs = s
    BY <2>1, MakesLeaf
  <2> QED BY <2>2 DEF p, s
<1>3. fresh.active = tab.id
  BY DEF Leaf
<1>4. fresh.id \notin Panes(t) /\ id \notin SplitIds(t)
  <2>1. fresh.id[2] = n /\ id[2] = k /\ n \in Nat /\ k \in Nat
    BY <1>2, LayoutAssumption DEF Number
  <2> HIDE DEF fresh, id
  <2>2. ~(n <= lo) /\ ~(k <= lo)
    BY <2>1
  <2> QED BY <2>1, <2>2 DEF Nodes
<1> HIDE DEF fresh, r
<1>5. /\ Good(r) /\ Panes(r) = Panes(t) \cup {<<"pane", n>>} /\ SplitIds(r) = SplitIds(t) \cup {id}
      /\ LeafAt(r, <<"pane", n>>) = fresh
      /\ \A p \in Panes(t) : LeafAt(r, p) = LeafAt(t, p)
  <2>1. r = SplitLeafAt(t, pane, fresh, id, front)
    BY DEF r
  <2> HIDE DEF id
  <2> QED BY <2>1, <1>1, <1>2, <1>4, SplitLeafIs
<1>6. \A x \in Nodes(r) \ Nodes(t) : lo < x[2] /\ x[2] <= hi
  BY <1>5 DEF Nodes
<1>7. \A p \in Panes(r) \ {<<"pane", n>>} : p \in Panes(t) /\ Gains(LeafAt(t, p).tabs, LeafAt(r, p).tabs, <<>>)
  BY <1>5, GainsNone
<1>8. Gains(Before(t, <<"pane", n>>), LeafAt(r, <<"pane", n>>).tabs, <<tab>>)
  <2>1. Before(t, <<"pane", n>>) = <<>> /\ LeafAt(r, <<"pane", n>>).tabs = <<tab>>
    BY <1>2, <1>4, <1>5 DEF Before
  <2> QED BY <2>1 DEF Gains
<1>9. Yields(t, r, lo, hi, <<tab>>)
  BY <1>5, <1>6, <1>7, <1>8, LeafwiseBecomes
<1> QED BY <1>1, <1>2, <1>3, <1>5, <1>9 DEF r, fresh, Has

-------------------------------------------------------------------------------
(* The tabs of a tree in a row                                                 *)

LEMMA MinIs ==
  ASSUME NEW S \in SUBSET Nat, S # {}
  PROVE  Min(S) \in S /\ \A m \in S : Min(S) <= m
<1>1. \E x \in S : \A y \in S : x <= y
  BY Least
<1> QED BY <1>1, Zenon DEF Min

LEMMA MaxIs ==
  ASSUME NEW n \in Nat, NEW S \in SUBSET (0 .. n), S # {}
  PROVE  Max(S) \in S /\ \A m \in S : m <= Max(S)
<1> DEFINE T == {n - m : m \in S}
<1>1. T \in SUBSET Nat /\ T # {}
  <2>1. \A m \in S : n - m \in Nat
    <3>1. \A m \in S : m \in 0 .. n
      OBVIOUS
    <3> QED BY <3>1
  <2> QED BY <2>1
<1>2. PICK k \in T : \A l \in T : k <= l
  <2> HIDE DEF T
  <2> QED BY <1>1, Least
<1>3. PICK x \in S : k = n - x
  BY <1>2
<1>4. \A y \in S : x >= y
  <2>1. \A y \in S : k <= n - y
    BY <1>2
  <2> HIDE DEF T
  <2> QED BY <1>3, <2>1
<1>5. Max(S) \in S /\ \A m \in S : Max(S) >= m
  BY <1>3, <1>4, Zenon DEF Max
<1> QED BY <1>5

\* What FlattenSeq computes, step by step.
LEMMA FlattenUnfolds ==
  ASSUME NEW S, NEW ss \in Seq(Seq(S)), ss # <<>>
  PROVE  \E f \in [1 .. Len(ss) -> Seq(S)] :
           /\ FlattenSeq(ss) = f[Len(ss)] /\ f[1] = ss[1]
           /\ \A n \in 2 .. Len(ss) : f[n] = f[n - 1] \o ss[n]
<1> DEFINE N == Len(ss)
           V == Seq(S)
           F == [p \in (1 .. N - 1) \X V |-> p[2] \o ss[p[1] + 1]]
           P(f) == f = [n \in 1 .. Len(ss) |-> IF n = 1 THEN ss[n] ELSE f[n - 1] \o ss[n]]
<1>0. N \in Nat \ {0} /\ DOMAIN ss = 1 .. N /\ \A n \in 1 .. N : ss[n] \in V
  OBVIOUS
<1>1. \A v \in V, n \in 1 .. N : v \o ss[n] \in V
  <2>1. \A v, w \in V : v \o w \in V
    OBVIOUS
  <2> HIDE DEF V
  <2> QED BY <2>1, <1>0
<1>2. F \in [(1 .. N - 1) \X V -> V]
  <2>1. ASSUME NEW p \in (1 .. N - 1) \X V PROVE p[2] \o ss[p[1] + 1] \in V
    <3>1. p[2] \in V /\ p[1] + 1 \in 1 .. N
      BY <1>0
    <3> HIDE DEF V, N
    <3> QED BY <3>1, <1>1
  <2> HIDE DEF V, N
  <2> QED BY <2>1
<1>3. PICK g : Computed(N - 1, V, ss[1], F, g)
  <2>1. N - 1 \in Nat /\ ss[1] \in V
    BY <1>0
  <2> HIDE DEF F, V, N
  <2> QED BY <2>1, <1>2, Recursion
<1> DEFINE h == [n \in 1 .. N |-> g[n - 1]]
<1>4. h[1] = ss[1] /\ \A n \in 2 .. N : h[n] = h[n - 1] \o ss[n]
  <2>1. g \in [0 .. N - 1 -> V] /\ g[0] = ss[1] /\ \A i \in 1 .. N - 1 : g[i] = F[<<i, g[i - 1]>>]
    BY <1>3 DEF Computed
  <2>2. h[1] = g[0]
    BY <1>0
  <2>3. ASSUME NEW n \in 2 .. N PROVE h[n] = h[n - 1] \o ss[n]
    <3>1. n - 1 \in 1 .. N - 1 /\ (n - 1) - 1 \in 0 .. N - 1 /\ (n - 1) + 1 = n /\ n \in 1 .. N /\ n - 1 \in 1 .. N
      BY <1>0
    <3>2. h[n] = g[n - 1] /\ h[n - 1] = g[(n - 1) - 1]
      BY <3>1
    <3>3. g[(n - 1) - 1] \in V
      BY <3>1, <2>1
    <3>4. F[<<n - 1, g[(n - 1) - 1]>>] = g[(n - 1) - 1] \o ss[(n - 1) + 1]
      <4> HIDE DEF V, N
      <4> QED BY <3>1, <3>3
    <3> HIDE DEF F, V, N, h
    <3> QED BY <2>1, <3>1, <3>2, <3>4
  <2> QED BY <2>1, <2>2, <2>3
<1>5. P(h)
  <2>1. DOMAIN h = 1 .. Len(ss) /\ h = [n \in 1 .. Len(ss) |-> h[n]]
    BY Zenon
  <2> HIDE DEF h
  <2>2. ASSUME NEW n \in 1 .. Len(ss) PROVE h[n] = IF n = 1 THEN ss[n] ELSE h[n - 1] \o ss[n]
    <3>1. CASE n = 1 BY <3>1, <1>4
    <3>2. CASE n # 1
      <4>1. n \in 2 .. N BY <3>2, <1>0
      <4> QED BY <4>1, <3>2, <1>4
    <3> QED BY <3>1, <3>2
  <2> DEFINE k == [n \in 1 .. Len(ss) |-> IF n = 1 THEN ss[n] ELSE h[n - 1] \o ss[n]]
  <2>3. \A n \in 1 .. Len(ss) : k[n] = h[n]
    BY <2>2, Zenon
  <2>4. DOMAIN k = 1 .. Len(ss) /\ k = [n \in 1 .. Len(ss) |-> k[n]]
    BY Zenon
  <2> HIDE DEF k
  <2>5. h = k
    BY <2>1, <2>3, <2>4, Zenon
  <2> QED BY <2>5, Zenon DEF k
<1>6. PICK f : P(f) /\ FlattenSeq(ss) = f[Len(ss)]
  <2> DEFINE f == CHOOSE k : P(k)
  <2>1. P(f)
    <3> HIDE DEF P, h
    <3> QED BY <1>5
  <2>2. FlattenSeq(ss) = f[Len(ss)]
    BY <1>0 DEF FlattenSeq
  <2> HIDE DEF P, f
  <2> QED BY <2>1, <2>2
<1>7. /\ DOMAIN f = 1 .. Len(ss) /\ f = [n \in 1 .. Len(ss) |-> f[n]]
      /\ \A n \in 1 .. Len(ss) : f[n] = IF n = 1 THEN ss[n] ELSE f[n - 1] \o ss[n]
  BY <1>6, Zenon
<1>8. f[1] = ss[1] /\ \A n \in 2 .. N : f[n] = f[n - 1] \o ss[n]
  <2>1. 1 \in 1 .. N /\ \A n \in 2 .. N : n \in 1 .. N /\ n # 1
    BY <1>0
  <2> QED BY <2>1, <1>7
<1>9. \A n \in 0 .. N - 1 : f[n + 1] \in V
  <2> DEFINE q == [n \in 0 .. N - 1 |-> f[n + 1]]
  <2>1. q[0] \in V
    BY <1>0, <1>8
  <2>2. ASSUME NEW n \in 0 .. (N - 1) - 1, q[n] \in V PROVE q[n + 1] \in V
    <3>1. n + 1 \in 1 .. N - 1 /\ n + 2 \in 2 .. N /\ (n + 2) - 1 = n + 1 /\ (n + 1) + 1 = n + 2 /\ n \in 0 .. N - 1
          /\ n + 1 \in 0 .. N - 1 /\ n + 2 \in 1 .. N
      BY <1>0
    <3>2. q[n] = f[n + 1] /\ q[n + 1] = f[n + 2]
      BY <3>1
    <3>3. f[n + 2] = f[n + 1] \o ss[n + 2]
      BY <3>1, <1>8
    <3> HIDE DEF V, N, q
    <3> QED BY <2>2, <3>1, <3>2, <3>3, <1>1
  <2>3. N - 1 \in Nat
    BY <1>0
  <2> HIDE DEF V, N, q
  <2>4. \A n \in 0 .. N - 1 : q[n] \in V
    BY <2>1, <2>2, <2>3, RecursionStays
  <2> QED BY <2>4 DEF q
<1>10. f \in [1 .. N -> V]
  <2>1. ASSUME NEW n \in 1 .. N PROVE f[n] \in V
    <3>1. n - 1 \in 0 .. N - 1 /\ (n - 1) + 1 = n BY <1>0
    <3> HIDE DEF V, N
    <3> QED BY <3>1, <1>9
  <2>2. f = [n \in 1 .. N |-> f[n]]
    BY <1>7
  <2> HIDE DEF V, N
  <2> QED BY <2>1, <2>2
<1> QED BY <1>6, <1>8, <1>10

\* The rows hold x once at most, all together.
OnceAmong(ss, x) ==
  /\ \A i \in DOMAIN ss : OnceIn(ss[i], x)
  /\ \A i, j \in DOMAIN ss : x \in Ids(ss[i]) /\ x \in Ids(ss[j]) => i = j

LEMMA FlattenIs ==
  ASSUME NEW S, NEW ss \in Seq(Seq(S)), ss # <<>>
  PROVE  /\ FlattenSeq(ss) \in Seq(S)
         /\ Ids(FlattenSeq(ss)) = UNION {Ids(ss[i]) : i \in DOMAIN ss}
         /\ \A x : OnceAmong(ss, x) => OnceIn(FlattenSeq(ss), x)
<1>1. PICK f \in [1 .. Len(ss) -> Seq(S)] :
           /\ FlattenSeq(ss) = f[Len(ss)] /\ f[1] = ss[1]
           /\ \A n \in 2 .. Len(ss) : f[n] = f[n - 1] \o ss[n]
  BY FlattenUnfolds
<1>2. Len(ss) \in Nat \ {0} /\ DOMAIN ss = 1 .. Len(ss) /\ \A n \in 1 .. Len(ss) : ss[n] \in Seq(S)
  OBVIOUS
<1> DEFINE N == Len(ss)
           U(n) == UNION {Ids(ss[i]) : i \in 1 .. n}
           T == {n \in 0 .. N - 1 : /\ Ids(f[n + 1]) = U(n + 1)
                                    /\ \A x : OnceAmong(ss, x) => OnceIn(f[n + 1], x)}
<1>3. 0 \in T
  <2>1. U(1) = Ids(ss[1]) /\ 1 \in DOMAIN ss
    BY <1>2
  <2>2. \A x : OnceAmong(ss, x) => OnceIn(ss[1], x)
    BY <2>1 DEF OnceAmong
  <2> HIDE DEF U
  <2>3. 0 + 1 = 1 /\ 0 \in 0 .. N - 1
    BY <1>2
  <2> QED BY <1>1, <2>1, <2>2, <2>3
<1>4. ASSUME NEW n \in 0 .. (N - 1) - 1, n \in T PROVE n + 1 \in T
  <2>1. /\ n + 1 \in 0 .. N - 1 /\ n + 1 \in 1 .. N /\ n + 2 \in 2 .. N /\ n + 2 \in 1 .. N
        /\ (n + 2) - 1 = n + 1 /\ (n + 1) + 1 = n + 2 /\ n \in Int
    BY <1>2
  <2> DEFINE a == f[n + 1]
             b == ss[n + 2]
  <2>2. f[n + 2] = a \o b /\ a \in Seq(S) /\ b \in Seq(S)
    BY <2>1, <1>1, <1>2
  <2>3. Ids(a) = U(n + 1) /\ \A x : OnceAmong(ss, x) => OnceIn(a, x)
    BY <1>4
  <2>4. U(n + 2) = U(n + 1) \cup Ids(b)
    <3>1. 1 .. n + 2 = (1 .. n + 1) \cup {n + 2}
      BY <2>1
    <3> QED BY <3>1
  <2>5. ASSUME NEW x, OnceAmong(ss, x) PROVE OnceIn(b, x) /\ ~(x \in U(n + 1) /\ x \in Ids(b))
    <3>1. n + 2 \in DOMAIN ss
      BY <2>1, <1>2
    <3>2. OnceIn(b, x)
      BY <2>5, <3>1 DEF OnceAmong
    <3>3. ASSUME x \in U(n + 1), x \in Ids(b) PROVE FALSE
      <4>1. PICK i \in 1 .. n + 1 : x \in Ids(ss[i])
        BY <3>3
      <4>2. i \in DOMAIN ss /\ i # n + 2
        BY <4>1, <2>1, <1>2
      <4> QED BY <4>1, <4>2, <3>1, <3>3, <2>5 DEF OnceAmong
    <3> QED BY <3>2, <3>3
  <2> HIDE DEF a, b, U
  <2>6. Ids(a \o b) = Ids(a) \cup Ids(b) /\ Gains(a, a \o b, b)
    BY <2>2, GainsTabs
  <2>7. \A x : OnceAmong(ss, x) => OnceIn(a \o b, x)
    BY <2>3, <2>5, <2>6 DEF Gains
  <2> QED BY <2>1, <2>2, <2>3, <2>4, <2>6, <2>7
<1>5. N - 1 \in T
  <2>1. N - 1 \in Nat
    BY <1>2
  <2> HIDE DEF T, N
  <2>2. \A n \in 0 .. N - 1 : n \in T
    BY <1>3, <1>4, <2>1, Inductive
  <2> QED BY <2>1, <2>2
<1>6. (N - 1) + 1 = Len(ss)
  BY <1>2
<1>7. f[Len(ss)] \in Seq(S)
  <2>1. Len(ss) \in 1 .. Len(ss)
    BY <1>2
  <2> HIDE DEF N
  <2> QED BY <2>1
<1>8. Ids(f[Len(ss)]) = U(Len(ss)) /\ \A x : OnceAmong(ss, x) => OnceIn(f[Len(ss)], x)
  <2> HIDE DEF U
  <2>1. /\ Ids(f[(N - 1) + 1]) = U((N - 1) + 1)
        /\ \A x : OnceAmong(ss, x) => OnceIn(f[(N - 1) + 1], x)
    <3> DEFINE n == N - 1
    <3>1. n \in T
      BY <1>5
    <3> HIDE DEF n
    <3>2. Ids(f[n + 1]) = U(n + 1) /\ \A x : OnceAmong(ss, x) => OnceIn(f[n + 1], x)
      BY <3>1
    <3> QED BY <3>2 DEF n
  <2> HIDE DEF N
  <2>2. (N - 1) + 1 = Len(ss)
    BY <1>6
  <2> QED BY <2>1, <2>2
<1> QED BY <1>1, <1>2, <1>7, <1>8

LEMMA EmptyOrNot ==
  ASSUME NEW S, NEW s \in Seq(S)
  PROVE  s = <<>> <=> Ids(s) = {}
<1>1. ASSUME s # <<>> PROVE Ids(s) # {}
  <2>1. 1 \in DOMAIN s
    BY <1>1
  <2> QED BY <2>1 DEF Ids
<1> QED BY <1>1, NoTabs

\* The tabs of a tree in a row.
LEMMA TabsInIs ==
  ASSUME NEW t, Good(t)
  PROVE  /\ TabsIn(t) \in Seq(SideTab) /\ Ids(TabsIn(t)) = TabIds(t)
         /\ \A x : Once(t, x) => OnceIn(TabsIn(t), x)
         /\ TabsIn(t) = <<>> <=> TabIds(t) = {}
<1> DEFINE ss == [i \in DOMAIN t.panes |-> t.panes[i].tabs]
<1>1. DOMAIN t.panes = 1 .. Len(t.panes) /\ Len(t.panes) \in Nat \ {0}
  BY GoodHas
<1>2. \A i \in DOMAIN t.panes : /\ t.panes[i].tabs \in Seq(SideTab) /\ t.panes[i].id \in Panes(t)
                                /\ LeafAt(t, t.panes[i].id) = t.panes[i]
                                /\ IndexOf(t, t.panes[i].id) = i
  BY <1>1, GoodHas, LeafIs DEF LeafSet
<1>3. ss \in Seq(Seq(SideTab)) /\ ss # <<>> /\ DOMAIN ss = DOMAIN t.panes
  <2>1. ss \in [1 .. Len(t.panes) -> Seq(SideTab)]
    BY <1>1, <1>2
  <2>2. ss \in Seq(Seq(SideTab)) /\ Len(ss) = Len(t.panes)
    BY <1>1, <2>1, IsASeq
  <2> QED BY <1>1, <2>2
<1>4. \A i \in DOMAIN ss : ss[i] = t.panes[i].tabs
  OBVIOUS
<1>5. TabsIn(t) = FlattenSeq(ss)
  BY DEF TabsIn
<1> HIDE DEF ss
<1>6. /\ TabsIn(t) \in Seq(SideTab) /\ Ids(TabsIn(t)) = UNION {Ids(ss[i]) : i \in DOMAIN ss}
      /\ \A x : OnceAmong(ss, x) => OnceIn(TabsIn(t), x)
  BY <1>3, <1>5, FlattenIs
<1>7. UNION {Ids(ss[i]) : i \in DOMAIN ss} = TabIds(t)
  BY <1>3, <1>4 DEF TabIds
<1>8. ASSUME NEW x, Once(t, x) PROVE OnceAmong(ss, x)
  <2>1. \A i \in DOMAIN ss : OnceIn(ss[i], x)
    BY <1>2, <1>3, <1>4, <1>8 DEF Once
  <2>2. ASSUME NEW i \in DOMAIN ss, NEW j \in DOMAIN ss, x \in Ids(ss[i]), x \in Ids(ss[j]) PROVE i = j
    <3>1. x \in Has(t, t.panes[i].id) /\ x \in Has(t, t.panes[j].id)
      BY <1>2, <1>3, <1>4, <2>2 DEF Has
    <3>2. t.panes[i].id = t.panes[j].id
      BY <3>1, <1>2, <1>3, <1>8 DEF Once
    <3>3. IndexOf(t, t.panes[i].id) = i /\ IndexOf(t, t.panes[j].id) = j
      BY <1>2, <1>3
    <3> QED BY <3>2, <3>3
  <2> QED BY <2>1, <2>2 DEF OnceAmong
<1>9. TabsIn(t) = <<>> <=> Ids(TabsIn(t)) = {}
  BY <1>6, EmptyOrNot
<1> QED BY <1>6, <1>7, <1>8, <1>9

-------------------------------------------------------------------------------
(* Free windows                                                                *)

FloatSet == [id : {"float"} \X Number, tab : SideTab]
WindowTabs(w) == [i \in DOMAIN w |-> w[i].tab]

LEMMA WindowTabsAre ==
  ASSUME NEW w \in Seq(FloatSet)
  PROVE  /\ WindowTabs(w) \in Seq(SideTab) /\ DOMAIN WindowTabs(w) = DOMAIN w
         /\ Ids(WindowTabs(w)) = {w[i].tab.id : i \in DOMAIN w}
         /\ \A x : OnceIn(WindowTabs(w), x) <=>
                     \A i, j \in DOMAIN w : w[i].tab.id = x /\ w[j].tab.id = x => i = j
<1>1. DOMAIN w = 1 .. Len(w) /\ Len(w) \in Nat /\ \A i \in DOMAIN w : w[i].tab \in SideTab
  <2>1. DOMAIN w = 1 .. Len(w) /\ Len(w) \in Nat /\ \A i \in DOMAIN w : w[i] \in FloatSet
    OBVIOUS
  <2>2. \A v \in FloatSet : v.tab \in SideTab
    BY DEF FloatSet
  <2> QED BY <2>1, <2>2
<1>2. WindowTabs(w) \in [1 .. Len(w) -> SideTab] /\ \A i \in DOMAIN w : WindowTabs(w)[i] = w[i].tab
  BY <1>1 DEF WindowTabs
<1>3. WindowTabs(w) \in Seq(SideTab) /\ DOMAIN WindowTabs(w) = DOMAIN w
  BY <1>1, <1>2, IsASeq
<1> QED BY <1>2, <1>3 DEF Ids, OnceIn

\* Some windows stay.
LEMMA OnlyWindows ==
  ASSUME NEW w \in Seq(FloatSet), NEW I
  PROVE  /\ Only(w, I) \in Seq(FloatSet)
         /\ Ids(WindowTabs(Only(w, I))) = {w[i].tab.id : i \in I \cap DOMAIN w}
         /\ Gains(WindowTabs(w), WindowTabs(Only(w, I)), <<>>)
<1> DEFINE r == Only(w, I)
<1>1. PICK e : r \in Seq(FloatSet) /\ Lists(w, I, Len(w), r, e)
  BY OnlyLists
<1> HIDE DEF r
<1>0. DOMAIN w = 1 .. Len(w) /\ DOMAIN r = 1 .. Len(r) /\ Len(r) \in Nat /\ Len(w) \in Nat
  BY <1>1
<1>2. \A k \in DOMAIN r : e[k] \in I \cap DOMAIN w /\ r[k] = w[e[k]]
  BY <1>0, <1>1 DEF Lists
<1>3. \A i \in I \cap DOMAIN w : \E k \in DOMAIN r : e[k] = i
  BY <1>0, <1>1 DEF Lists
<1>4. {r[k].tab.id : k \in DOMAIN r} = {w[i].tab.id : i \in I \cap DOMAIN w}
  <2>1. \A k \in DOMAIN r : r[k].tab.id = w[e[k]].tab.id
    BY <1>2
  <2> QED BY <2>1, <1>2, <1>3
<1>5. ASSUME NEW x, \A i, j \in DOMAIN w : w[i].tab.id = x /\ w[j].tab.id = x => i = j
      PROVE  \A k, l \in DOMAIN r : r[k].tab.id = x /\ r[l].tab.id = x => k = l
  <2> SUFFICES ASSUME NEW k \in DOMAIN r, NEW l \in DOMAIN r, r[k].tab.id = x, r[l].tab.id = x PROVE k = l
    OBVIOUS
  <2>1. e[k] = e[l]
    BY <1>2, <1>5
  <2>2. (k < l => e[k] < e[l]) /\ (l < k => e[l] < e[k]) /\ e[k] \in Int /\ e[l] \in Int
    BY <1>0, <1>1 DEF Lists
  <2> QED BY <2>1, <2>2, <1>0
<1>6. Ids(WindowTabs(r)) = {w[i].tab.id : i \in I \cap DOMAIN w}
  BY <1>1, <1>4, WindowTabsAre
<1>7. Ids(WindowTabs(r)) \subseteq Ids(WindowTabs(w))
  BY <1>6, WindowTabsAre
<1>8. \A x : OnceIn(WindowTabs(w), x) => OnceIn(WindowTabs(r), x)
  <2> SUFFICES ASSUME NEW x, OnceIn(WindowTabs(w), x) PROVE OnceIn(WindowTabs(r), x)
    OBVIOUS
  <2>1. \A i, j \in DOMAIN w : w[i].tab.id = x /\ w[j].tab.id = x => i = j
    BY WindowTabsAre
  <2>2. \A k, l \in DOMAIN r : r[k].tab.id = x /\ r[l].tab.id = x => k = l
    BY <2>1, <1>5
  <2> QED BY <2>2, <1>1, WindowTabsAre
<1> QED BY <1>1, <1>6, <1>7, <1>8 DEF Gains, r

LEMMA AppendIs ==
  ASSUME NEW S, NEW s \in Seq(S), NEW x \in S
  PROVE  /\ Append(s, x) \in Seq(S) /\ Len(Append(s, x)) = Len(s) + 1 /\ Len(s) \in Nat
         /\ DOMAIN s = 1 .. Len(s) /\ DOMAIN Append(s, x) = 1 .. Len(s) + 1
         /\ \A k \in 1 .. Len(s) : Append(s, x)[k] = s[k]
         /\ Append(s, x)[Len(s) + 1] = x
OBVIOUS

\* A window opens.
LEMMA AppendWindow ==
  ASSUME NEW w \in Seq(FloatSet), NEW v \in FloatSet
  PROVE  Append(w, v) \in Seq(FloatSet) /\ Gains(WindowTabs(w), WindowTabs(Append(w, v)), <<v.tab>>)
         /\ Ids(WindowTabs(Append(w, v))) = Ids(WindowTabs(w)) \cup {v.tab.id}
<1> DEFINE r == Append(w, v)
           n == Len(w) + 1
<1>1. /\ r \in Seq(FloatSet) /\ DOMAIN w = 1 .. Len(w) /\ DOMAIN r = 1 .. n /\ Len(w) \in Nat
      /\ \A k \in 1 .. Len(w) : r[k] = w[k]
      /\ r[n] = v
  BY AppendIs
<1> HIDE DEF r
<1>2. \A k \in DOMAIN r : (k = n /\ r[k] = v) \/ (k \in DOMAIN w /\ r[k] = w[k])
  <2>1. \A k \in 1 .. n : k = n \/ k \in 1 .. Len(w)
    BY <1>1
  <2>2. DOMAIN r = 1 .. n /\ DOMAIN w = 1 .. Len(w) /\ r[n] = v /\ \A k \in 1 .. Len(w) : r[k] = w[k]
    BY <1>1
  <2> HIDE DEF n
  <2>3. ASSUME NEW k \in DOMAIN r, k # n PROVE k \in DOMAIN w /\ r[k] = w[k]
    BY <2>1, <2>2, <2>3
  <2> QED BY <2>2, <2>3
<1>3. n \in DOMAIN r /\ \A k \in DOMAIN w : k \in DOMAIN r
  BY <1>1
<1> HIDE DEF n
<1>4. {r[k].tab.id : k \in DOMAIN r} = {w[i].tab.id : i \in DOMAIN w} \cup {v.tab.id}
  <2>1. \A k \in DOMAIN r : r[k].tab.id \in {w[i].tab.id : i \in DOMAIN w} \cup {v.tab.id}
    BY <1>2
  <2>2. \A k \in DOMAIN w : w[k].tab.id \in {r[l].tab.id : l \in DOMAIN r}
    BY <1>1, <1>3
  <2>3. v.tab.id \in {r[l].tab.id : l \in DOMAIN r}
    BY <1>1, <1>3
  <2> QED BY <2>1, <2>2, <2>3
<1>5. Ids(WindowTabs(r)) = Ids(WindowTabs(w)) \cup {v.tab.id}
  BY <1>1, <1>4, WindowTabsAre
<1>6. Ids(<<v.tab>>) = {v.tab.id}
  BY DEF Ids
<1>7. ASSUME NEW x, OnceIn(WindowTabs(w), x), ~(x \in Ids(WindowTabs(w)) /\ x = v.tab.id)
      PROVE  OnceIn(WindowTabs(r), x)
  <2> SUFFICES ASSUME NEW k \in DOMAIN r, NEW l \in DOMAIN r, r[k].tab.id = x, r[l].tab.id = x PROVE k = l
    BY <1>1, WindowTabsAre
  <2>1. CASE x = v.tab.id
    <3>1. \A i \in DOMAIN w : w[i].tab.id # x
      BY <2>1, <1>7, WindowTabsAre
    <3> QED BY <3>1, <1>2
  <2>2. CASE x # v.tab.id
    <3>1. k \in DOMAIN w /\ w[k].tab.id = x /\ l \in DOMAIN w /\ w[l].tab.id = x
      BY <2>2, <1>2
    <3> QED BY <3>1, <1>7, WindowTabsAre
  <2> QED BY <2>1, <2>2
<1> QED BY <1>1, <1>5, <1>6, <1>7 DEF Gains, r

\* A window comes to the top.
LEMMA RaisedIs ==
  ASSUME floats \in Seq(FloatSet), NEW window, \E i \in DOMAIN floats : floats[i].id = window
  PROVE  /\ Raised(window) \in Seq(FloatSet) /\ Gains(FloatTabs, WindowTabs(Raised(window)), <<>>)
         /\ Ids(WindowTabs(Raised(window))) = Ids(FloatTabs)
<1> DEFINE w == floats
           I == {k \in DOMAIN w : w[k].id = window}
           i == Min(I)
           q == RemoveAt(w, i)
           r == Append(q, w[i])
           n == Len(w)
<1>1. DOMAIN w = 1 .. n /\ n \in Nat
  OBVIOUS
<1>2. i \in DOMAIN w
  <2>1. I \in SUBSET Nat /\ I # {}
    BY <1>1
  <2>2. I \in SUBSET DOMAIN w
    OBVIOUS
  <2> HIDE DEF I
  <2> QED BY <2>1, <2>2, MinIs
<1>3. Raised(window) = r /\ FloatTabs = WindowTabs(w)
  BY DEF Raised, FloatTabs, WindowTabs
<1> HIDE DEF w, i, I, q, r, n
<1>4. w \in Seq(FloatSet) /\ w[i] \in FloatSet
  BY <1>1, <1>2 DEF w
<1>5. /\ q \in Seq(FloatSet) /\ Len(q) = n - 1
      /\ \A k \in 1 .. n - 1 : q[k] = IF k < i THEN w[k] ELSE w[k + 1]
  BY <1>1, <1>2, <1>4, RemoveAtIs DEF q, n
<1>6. /\ r \in Seq(FloatSet) /\ DOMAIN r = 1 .. n /\ r[n] = w[i] /\ \A k \in 1 .. n - 1 : r[k] = q[k]
  <2>1. /\ r \in Seq(FloatSet) /\ DOMAIN r = 1 .. Len(q) + 1 /\ r[Len(q) + 1] = w[i]
        /\ \A k \in 1 .. Len(q) : r[k] = q[k]
    BY <1>4, <1>5, AppendIs DEF r
  <2>2. Len(q) + 1 = n
    BY <1>1, <1>5
  <2> QED BY <2>1, <2>2, <1>5
<1> DEFINE e == [k \in 1 .. n |-> IF k = n THEN i ELSE IF k < i THEN k ELSE k + 1]
<1>7. \A k \in 1 .. n : r[k] = w[e[k]] /\ e[k] \in 1 .. n
  <2>1. ASSUME NEW k \in 1 .. n PROVE r[k] = w[e[k]] /\ e[k] \in 1 .. n
    <3>1. CASE k = n BY <3>1, <1>1, <1>2, <1>6
    <3>2. CASE k # n
      <4>1. k \in 1 .. n - 1 BY <3>2, <1>1
      <4>2. r[k] = IF k < i THEN w[k] ELSE w[k + 1] BY <4>1, <1>5, <1>6
      <4> QED BY <3>2, <4>1, <4>2, <1>1, <1>2
    <3> QED BY <3>1, <3>2
  <2> QED BY <2>1
<1>8. \A k, l \in 1 .. n : e[k] = e[l] => k = l
  BY <1>1, <1>2
<1>9. ASSUME NEW m \in 1 .. n PROVE \E k \in 1 .. n : e[k] = m
  <2>1. CASE m = i BY <2>1, <1>1, <1>2
  <2>2. CASE m < i
    <3>1. m \in 1 .. n /\ m # n BY <2>2, <1>1, <1>2
    <3> QED BY <3>1, <2>2
  <2>3. CASE m > i
    <3>1. m - 1 \in 1 .. n /\ m - 1 # n /\ ~(m - 1 < i) /\ (m - 1) + 1 = m BY <2>3, <1>1, <1>2
    <3>2. e[m - 1] = m BY <3>1
    <3> QED BY <3>1, <3>2
  <2> QED BY <2>1, <2>2, <2>3, <1>1, <1>2
<1> HIDE DEF e
<1>10. {r[k].tab.id : k \in DOMAIN r} = {w[k].tab.id : k \in DOMAIN w}
  <2>1. \A k \in DOMAIN r : e[k] \in DOMAIN w /\ r[k].tab.id = w[e[k]].tab.id
    BY <1>1, <1>6, <1>7
  <2>2. \A m \in DOMAIN w : \E k \in DOMAIN r : r[k].tab.id = w[m].tab.id
    <3>1. \A m \in DOMAIN w : \E k \in DOMAIN r : e[k] = m
      BY <1>1, <1>6, <1>9
    <3> QED BY <3>1, <2>1
  <2> QED BY <2>1, <2>2
<1>11. Ids(WindowTabs(r)) = Ids(WindowTabs(w))
  BY <1>4, <1>6, <1>10, WindowTabsAre
<1>12. ASSUME NEW x, OnceIn(WindowTabs(w), x) PROVE OnceIn(WindowTabs(r), x)
  <2> SUFFICES ASSUME NEW k \in DOMAIN r, NEW l \in DOMAIN r, r[k].tab.id = x, r[l].tab.id = x PROVE k = l
    BY <1>6, WindowTabsAre
  <2>1. e[k] \in DOMAIN w /\ e[l] \in DOMAIN w /\ w[e[k]].tab.id = x /\ w[e[l]].tab.id = x
    BY <1>1, <1>6, <1>7
  <2>2. e[k] = e[l]
    BY <2>1, <1>4, <1>12, WindowTabsAre
  <2> QED BY <2>2, <1>6, <1>8
<1> QED BY <1>3, <1>6, <1>11, <1>12 DEF Gains

-------------------------------------------------------------------------------
(* The invariant                                                               *)

Named == {<<"git", 0>>} \cup {<<"editor", f>> : f \in File} \cup {<<"agent", a>> : a \in Agent}

\* Two trees of distinct panes and splits, whose numbers the counter has passed.
LayoutShape ==
  /\ Good(right) /\ Good(bottom) /\ floats \in Seq(FloatSet)
  /\ activePane \in PaneId /\ counter \in Number /\ edits \in 0..MaxEdits
  /\ {gitChecked, panelOpen, bottomOpen, narrow, merged} \subseteq BOOLEAN
  /\ Nodes(right) \cap Nodes(bottom) = {}
  /\ \A id \in Nodes(right) \cup Nodes(bottom) : id[2] <= counter

\* The id x is in one place: a pane of the tree a, one of b, or a window.
Placed(a, b, windows, x) ==
  /\ Once(a, x) /\ Once(b, x) /\ OnceIn(windows, x)
  /\ ~(x \in TabIds(a) /\ x \in TabIds(b))
  /\ ~(x \in Ids(windows) /\ x \in TabIds(a) \cup TabIds(b))

NamedPlaced == \A x \in Named : Placed(right, bottom, FloatTabs, x)

\* A narrow viewport has taken everything out of the panel it does not show.
Narrowed == narrow /\ merged => TabIds(bottom) = {} /\ activePane \notin Panes(bottom)

LayoutInv == LayoutShape /\ NamedPlaced /\ Narrowed

\* A named tab is in no more places than before.
LEMMA PlacedFewer ==
  ASSUME NEW a, NEW b, NEW s, NEW a2, NEW b2, NEW s2, NEW x, NEW lo, NEW hi, Placed(a, b, s, x),
         Yields(a, a2, lo, hi, <<>>), Yields(b, b2, lo, hi, <<>>), Gains(s, s2, <<>>)
  PROVE  Placed(a2, b2, s2, x)
<1>1. TabIds(a2) \subseteq TabIds(a) /\ TabIds(b2) \subseteq TabIds(b) /\ Ids(s2) \subseteq Ids(s)
  BY NoTabs DEF Yields, Gains
<1>2. Once(a2, x) /\ Once(b2, x) /\ OnceIn(s2, x)
  BY NoTabs DEF Yields, Gains, Placed
<1> QED BY <1>1, <1>2 DEF Placed

\* A tree gains tabs that are nowhere, or is bereft of some.
LEMMA PlacedGain ==
  ASSUME NEW a, NEW b, NEW s, NEW r, NEW x, NEW lo, NEW hi, NEW c, Placed(a, b, s, x), OnceIn(c, x),
         x \in Ids(c) => x \notin TabIds(a) /\ x \notin TabIds(b) /\ x \notin Ids(s)
  PROVE  /\ Yields(a, r, lo, hi, c) => Placed(r, b, s, x)
         /\ Yields(b, r, lo, hi, c) => Placed(a, r, s, x)
         /\ Gains(s, r, c) => Placed(a, b, r, x)
<1>1. ASSUME Yields(a, r, lo, hi, c) PROVE Placed(r, b, s, x)
  <2>1. Once(r, x) /\ TabIds(r) \subseteq TabIds(a) \cup Ids(c)
    BY <1>1 DEF Yields, Placed
  <2> QED BY <2>1 DEF Placed
<1>2. ASSUME Yields(b, r, lo, hi, c) PROVE Placed(a, r, s, x)
  <2>1. Once(r, x) /\ TabIds(r) \subseteq TabIds(b) \cup Ids(c)
    BY <1>2 DEF Yields, Placed
  <2> QED BY <2>1 DEF Placed
<1>3. ASSUME Gains(s, r, c) PROVE Placed(a, b, r, x)
  <2>1. OnceIn(r, x) /\ Ids(r) \subseteq Ids(s) \cup Ids(c)
    BY <1>3 DEF Gains, Placed
  <2> QED BY <2>1 DEF Placed
<1> QED BY <1>1, <1>2, <1>3

\* What two sequences in a row hold.
LEMMA RowsJoin ==
  ASSUME NEW S, NEW a \in Seq(S), NEW b \in Seq(S)
  PROVE  /\ a \o b \in Seq(S) /\ ToSet(a \o b) = ToSet(a) \cup ToSet(b)
         /\ IsInjective(a) /\ IsInjective(b) /\ ToSet(a) \cap ToSet(b) = {} => IsInjective(a \o b)
<1> DEFINE r == a \o b
<1>1. /\ r \in Seq(S) /\ Len(r) = Len(a) + Len(b) /\ Len(a) \in Nat /\ Len(b) \in Nat
      /\ \A k \in 1 .. Len(a) : r[k] = a[k]
      /\ \A k \in 1 .. Len(b) : r[Len(a) + k] = b[k]
  BY ConcatIs
<1>2. DOMAIN r = 1 .. Len(a) + Len(b) /\ DOMAIN a = 1 .. Len(a) /\ DOMAIN b = 1 .. Len(b)
  BY <1>1
<1> HIDE DEF r
<1>3. ASSUME NEW k \in DOMAIN r
      PROVE  \/ k \in DOMAIN a /\ r[k] = a[k]
             \/ k - Len(a) \in DOMAIN b /\ r[k] = b[k - Len(a)] /\ k > Len(a)
  <2>1. CASE k <= Len(a)
    <3>1. k \in 1 .. Len(a) BY <2>1, <1>1, <1>2
    <3> QED BY <3>1, <1>1, <1>2
  <2>2. CASE k > Len(a)
    <3>1. k - Len(a) \in 1 .. Len(b) /\ Len(a) + (k - Len(a)) = k BY <2>2, <1>1, <1>2
    <3>2. r[Len(a) + (k - Len(a))] = b[k - Len(a)] BY <3>1, <1>1
    <3> QED BY <3>1, <3>2, <2>2, <1>2
  <2> QED BY <2>1, <2>2, <1>1, <1>2
<1>4. \A k \in DOMAIN a : k \in DOMAIN r /\ r[k] = a[k]
  BY <1>1, <1>2
<1>5. ASSUME NEW k \in DOMAIN b PROVE Len(a) + k \in DOMAIN r /\ r[Len(a) + k] = b[k]
  <2>1. k \in 1 .. Len(b)
    BY <1>2
  <2>2. Len(a) + k \in 1 .. Len(a) + Len(b)
    BY <1>1, <2>1
  <2> QED BY <2>1, <2>2, <1>1, <1>2
<1>6. ToSet(r) = ToSet(a) \cup ToSet(b)
  <2>1. ToSet(r) \subseteq ToSet(a) \cup ToSet(b) BY <1>3 DEF ToSet
  <2>2. ToSet(a) \subseteq ToSet(r) BY <1>4 DEF ToSet
  <2>3. ToSet(b) \subseteq ToSet(r) BY <1>5 DEF ToSet
  <2> QED BY <2>1, <2>2, <2>3
<1>7. ASSUME IsInjective(a), IsInjective(b), ToSet(a) \cap ToSet(b) = {} PROVE IsInjective(r)
  <2>0. /\ \A k, l \in DOMAIN a : a[k] = a[l] => k = l
        /\ \A k, l \in DOMAIN b : b[k] = b[l] => k = l
        /\ \A k \in DOMAIN a, l \in DOMAIN b : a[k] # b[l]
    BY <1>7 DEF IsInjective, ToSet
  <2>1. SUFFICES ASSUME NEW k \in DOMAIN r, NEW l \in DOMAIN r, r[k] = r[l] PROVE k = l
    BY DEF IsInjective
  <2>2. k \in Int /\ l \in Int /\ Len(a) \in Int
    BY <1>1, <1>2
  <2>3. CASE k \in DOMAIN a /\ r[k] = a[k]
    <3>1. CASE l \in DOMAIN a /\ r[l] = a[l]
      BY <2>0, <2>1, <2>3, <3>1
    <3>2. CASE l - Len(a) \in DOMAIN b /\ r[l] = b[l - Len(a)]
      BY <2>0, <2>1, <2>3, <3>2
    <3> QED BY <3>1, <3>2, <1>3
  <2>4. CASE k - Len(a) \in DOMAIN b /\ r[k] = b[k - Len(a)]
    <3>1. CASE l \in DOMAIN a /\ r[l] = a[l]
      BY <2>0, <2>1, <2>4, <3>1
    <3>2. CASE l - Len(a) \in DOMAIN b /\ r[l] = b[l - Len(a)]
      <4>1. k - Len(a) = l - Len(a)
        BY <2>0, <2>1, <2>4, <3>2
      <4> QED BY <4>1, <2>2
    <3> QED BY <3>1, <3>2, <1>3
  <2> QED BY <2>3, <2>4, <1>3
<1> QED BY <1>1, <1>6, <1>7 DEF r

\* The ids of a tree in a row.
LEMMA NodeRow ==
  ASSUME NEW t, Good(t)
  PROVE  NodeIds(t) \in Seq(PaneId \cup SplitId) /\ ToSet(NodeIds(t)) = Nodes(t) /\ IsInjective(NodeIds(t))
<1> DEFINE a == IdsOf(t.panes)
           b == IdsOf(t.splits)
<1>1. a \in Seq(PaneId) /\ b \in Seq(SplitId)
  <2>1. a \in [1 .. Len(t.panes) -> PaneId] /\ b \in [1 .. Len(t.splits) -> SplitId]
    BY GoodHas DEF IdsOf, LeafSet, SplitSet
  <2>2. Len(t.panes) \in Nat /\ Len(t.splits) \in Nat
    BY GoodHas
  <2> QED BY <2>1, <2>2, IsASeq
<1>2. IsInjective(a) /\ IsInjective(b)
  <2>1. NoTwins(t.panes) /\ NoTwins(t.splits)
    BY DEF Good
  <2> QED BY <2>1 DEF IdsOf, IsInjective, NoTwins
<1>3. Panes(t) = ToSet(a) /\ SplitIds(t) = ToSet(b)
  BY DEF Panes, SplitIds, IdsOf, ToSet
<1>4. NodeIds(t) = a \o b
  BY DEF NodeIds
<1> HIDE DEF a, b
<1>5. a \in Seq(PaneId \cup SplitId) /\ b \in Seq(PaneId \cup SplitId)
  BY <1>1
<1>6. ToSet(a) \subseteq PaneId /\ ToSet(b) \subseteq SplitId
  BY <1>1 DEF ToSet
<1>7. ToSet(a) \cap ToSet(b) = {}
  BY <1>6 DEF PaneId, SplitId
<1> DEFINE S == PaneId \cup SplitId
<1>8. a \in Seq(S) /\ b \in Seq(S)
  BY <1>5
<1> HIDE DEF S
<1>9. a \o b \in Seq(S) /\ ToSet(a \o b) = ToSet(a) \cup ToSet(b) /\ IsInjective(a \o b)
  BY <1>2, <1>7, <1>8, RowsJoin
<1> QED BY <1>3, <1>4, <1>9 DEF Nodes, S

\* The nodes of a tree.
LEMMA NodesAre ==
  ASSUME NEW t, Good(t)
  PROVE  /\ ToSet(NodeIds(t)) = Nodes(t)
         /\ Panes(t) \subseteq PaneId /\ SplitIds(t) \subseteq SplitId
         /\ \A x \in Nodes(t) : x[2] \in Nat
<1>1. Panes(t) \subseteq PaneId /\ SplitIds(t) \subseteq SplitId
  <2>1. (\A l \in LeafSet : l.id \in PaneId) /\ (\A j \in SplitSet : j.id \in SplitId)
    BY DEF LeafSet, SplitSet
  <2>2. /\ DOMAIN t.panes = 1 .. Len(t.panes) /\ \A i \in 1 .. Len(t.panes) : t.panes[i] \in LeafSet
        /\ DOMAIN t.splits = 1 .. Len(t.splits) /\ \A i \in 1 .. Len(t.splits) : t.splits[i] \in SplitSet
    BY GoodHas
  <2> QED BY <2>1, <2>2, PanesAre DEF SplitIds
<1>2. \A x \in PaneId \cup SplitId : x[2] \in Nat
  BY DEF PaneId, SplitId, Number
<1> QED BY <1>1, <1>2, NodeRow DEF Nodes

\* The tree a pane is in.
LEMMA TreeOfIs ==
  ASSUME LayoutShape
  PROVE  /\ Panes(right) \cap Panes(bottom) = {}
         /\ \A p \in PaneId : InBottom(p) <=> p \in Panes(bottom)
         /\ \A p \in Panes(right) \cup Panes(bottom) :
              p \in PaneId /\ p \in Panes(TreeOf(p)) /\ Good(TreeOf(p))
         /\ \A p \in Panes(right) : TreeOf(p) = right /\ ~InBottom(p)
         /\ \A p \in Panes(bottom) : TreeOf(p) = bottom /\ InBottom(p)
<1>1. ToSet(NodeIds(bottom)) = Nodes(bottom) /\ Good(right) /\ Good(bottom) /\ Nodes(right) \cap Nodes(bottom) = {}
  BY NodesAre DEF LayoutShape
<1>2. Panes(right) \subseteq PaneId /\ Panes(bottom) \subseteq PaneId /\ SplitIds(bottom) \subseteq SplitId
  BY <1>1, NodesAre
<1>3. PaneId \cap SplitId = {}
  BY DEF PaneId, SplitId
<1>4. Panes(right) \cap Panes(bottom) = {}
  BY <1>1 DEF Nodes
<1>5. \A p \in PaneId : InBottom(p) <=> p \in Panes(bottom)
  BY <1>1, <1>2, <1>3 DEF InBottom, Nodes
<1> QED BY <1>1, <1>2, <1>4, <1>5 DEF TreeOf

\* The tabs of the whole layout.
LEMMA OpenTabsAre ==
  ASSUME LayoutShape
  PROVE  /\ OpenTabs \in Seq(SideTab) /\ FloatTabs \in Seq(SideTab)
         /\ DOMAIN OpenTabs = 1 .. Len(OpenTabs) /\ Len(OpenTabs) \in Nat
         /\ Ids(OpenTabs) = TabIds(right) \cup TabIds(bottom) \cup Ids(FloatTabs)
         /\ \A x : Placed(right, bottom, FloatTabs, x) => OnceIn(OpenTabs, x)
<1> DEFINE a == TabsIn(right)
           b == TabsIn(bottom)
           f == FloatTabs
<1>1. a \in Seq(SideTab) /\ Ids(a) = TabIds(right) /\ \A x : Once(right, x) => OnceIn(a, x)
  BY TabsInIs DEF LayoutShape
<1>2. b \in Seq(SideTab) /\ Ids(b) = TabIds(bottom) /\ \A x : Once(bottom, x) => OnceIn(b, x)
  BY TabsInIs DEF LayoutShape
<1>3. f \in Seq(SideTab)
  BY WindowTabsAre DEF LayoutShape, WindowTabs, FloatTabs
<1>4. OpenTabs = (a \o b) \o f
  BY DEF OpenTabs
<1> HIDE DEF a, b, f
<1>5. a \o b \in Seq(SideTab) /\ Ids(a \o b) = Ids(a) \cup Ids(b) /\ Gains(a, a \o b, b)
  BY <1>1, <1>2, GainsTabs
<1> DEFINE m == a \o b
<1>6. m \in Seq(SideTab) /\ Ids(m) = TabIds(right) \cup TabIds(bottom) /\ Gains(a, m, b) /\ OpenTabs = m \o f
  BY <1>1, <1>2, <1>4, <1>5
<1> HIDE DEF m
<1>7. OpenTabs \in Seq(SideTab) /\ Ids(OpenTabs) = Ids(m) \cup Ids(f) /\ Gains(m, OpenTabs, f)
  BY <1>3, <1>6, GainsTabs
<1>8. ASSUME NEW x, Placed(right, bottom, FloatTabs, x) PROVE OnceIn(OpenTabs, x)
  <2>1. OnceIn(a, x) /\ OnceIn(b, x) /\ OnceIn(f, x)
    BY <1>1, <1>2, <1>8 DEF Placed, f
  <2>2. OnceIn(m, x)
    <3>1. ~(x \in Ids(a) /\ x \in Ids(b))
      BY <1>1, <1>2, <1>8 DEF Placed
    <3> QED BY <2>1, <3>1, <1>6 DEF Gains
  <2>3. ~(x \in Ids(m) /\ x \in Ids(f))
    BY <1>6, <1>8 DEF Placed, f
  <2> QED BY <2>1, <2>2, <2>3, <1>7 DEF Gains
<1>9. DOMAIN OpenTabs = 1 .. Len(OpenTabs) /\ Len(OpenTabs) \in Nat
  BY <1>7
<1> QED BY <1>3, <1>6, <1>7, <1>8, <1>9 DEF f

\* The first tab with an id.
LEMMA TabWithIs ==
  ASSUME NEW S, NEW s \in Seq(S), NEW id \in Ids(s)
  PROVE  TabWith(s, id) \in S /\ TabWith(s, id).id = id /\ TabWith(s, id) \in ToSet(s)
<1> DEFINE I == {i \in DOMAIN s : s[i].id = id}
<1>1. I # {} /\ I \in SUBSET Nat
  BY DEF Ids
<1>2. TabWith(s, id) = s[Min(I)]
  BY DEF TabWith
<1>3. \A i \in I : i \in DOMAIN s /\ s[i].id = id /\ s[i] \in S
  OBVIOUS
<1> HIDE DEF I
<1> QED BY <1>1, <1>2, <1>3, MinIs DEF ToSet

\* The pane of a docked tab.
LEMMA LeafWithTabIs ==
  ASSUME NEW t, Good(t), NEW id \in TabIds(t)
  PROVE  LET leaf == LeafWithTab(t, id)
         IN /\ leaf.id \in Panes(t) /\ leaf = LeafAt(t, leaf.id) /\ id \in Has(t, leaf.id)
            /\ leaf \in LeafSet /\ leaf.id \in PaneId
<1> DEFINE I == {i \in DOMAIN t.panes : id \in Ids(t.panes[i].tabs)}
           leaf == LeafWithTab(t, id)
<1>1. I # {} /\ I \in SUBSET Nat
  <2>1. I # {}
    BY DEF TabIds
  <2>2. DOMAIN t.panes = 1 .. Len(t.panes) /\ Len(t.panes) \in Nat
    BY GoodHas
  <2> QED BY <2>1, <2>2
<1>2. leaf = t.panes[Min(I)]
  BY DEF LeafWithTab
<1>3. \A i \in I : i \in 1 .. Len(t.panes) /\ id \in Ids(t.panes[i].tabs)
  BY GoodHas
<1> HIDE DEF I, leaf
<1>4. Min(I) \in 1 .. Len(t.panes) /\ id \in Ids(leaf.tabs)
  BY <1>1, <1>2, <1>3, MinIs
<1>5. leaf.id \in Panes(t) /\ leaf = LeafAt(t, leaf.id) /\ leaf \in LeafSet /\ leaf.id \in PaneId
  BY <1>2, <1>4, LeafIs
<1> QED BY <1>4, <1>5 DEF Has, leaf

\* The pane of a docked tab, in whichever tree it is.
LEMMA PaneOfTabIs ==
  ASSUME LayoutShape, NEW id, Docked(id)
  PROVE  LET leaf == PaneOfTab(id)
         IN /\ leaf.id \in Panes(right) \cup Panes(bottom) /\ leaf.id \in PaneId
            /\ leaf = LeafAt(TreeOf(leaf.id), leaf.id) /\ id \in Has(TreeOf(leaf.id), leaf.id)
            /\ leaf \in LeafSet /\ leaf.id \in Panes(TreeOf(leaf.id)) /\ Good(TreeOf(leaf.id))
            /\ id \in TabIds(right) => leaf.id \in Panes(right)
            /\ id \notin TabIds(right) => leaf.id \in Panes(bottom)
<1>1. CASE id \in TabIds(right)
  <2> DEFINE leaf == LeafWithTab(right, id)
  <2>1. PaneOfTab(id) = leaf
    BY <1>1 DEF PaneOfTab
  <2>2. /\ leaf.id \in Panes(right) /\ leaf = LeafAt(right, leaf.id) /\ id \in Has(right, leaf.id)
        /\ leaf \in LeafSet /\ leaf.id \in PaneId
    BY <1>1, LeafWithTabIs DEF LayoutShape
  <2> HIDE DEF leaf
  <2>3. TreeOf(leaf.id) = right /\ Good(right)
    BY <2>2, TreeOfIs DEF LayoutShape
  <2> QED BY <2>1, <2>2, <2>3, <1>1
<1>2. CASE id \notin TabIds(right)
  <2> DEFINE leaf == LeafWithTab(bottom, id)
  <2>1. PaneOfTab(id) = leaf /\ id \in TabIds(bottom)
    BY <1>2 DEF PaneOfTab, Docked
  <2>2. /\ leaf.id \in Panes(bottom) /\ leaf = LeafAt(bottom, leaf.id) /\ id \in Has(bottom, leaf.id)
        /\ leaf \in LeafSet /\ leaf.id \in PaneId
    BY <2>1, LeafWithTabIs DEF LayoutShape
  <2> HIDE DEF leaf
  <2>3. TreeOf(leaf.id) = bottom /\ Good(bottom)
    BY <2>2, TreeOfIs DEF LayoutShape
  <2> QED BY <2>1, <2>2, <2>3, <1>2
<1> QED BY <1>1, <1>2

\* An open lands in a pane that exists.
LEMMA LandingPaneIs ==
  ASSUME LayoutShape, NEW pane
  PROVE  /\ LandingPane(pane) \in Panes(right) \cup Panes(bottom) /\ LandingPane(pane) \in PaneId
         /\ pane \notin Panes(bottom) => LandingPane(pane) \in Panes(right)
<1>1. FirstLeaf(right).id \in Panes(right)
  BY FirstLeafIs DEF LayoutShape
<1>2. Panes(right) \subseteq PaneId /\ Panes(bottom) \subseteq PaneId
  BY NodesAre DEF LayoutShape
<1> QED BY <1>1, <1>2 DEF LandingPane

\* The window of a tab.
LEMMA WindowOfIs ==
  ASSUME floats \in Seq(FloatSet), NEW id, Floating(id)
  PROVE  \E i \in DOMAIN floats : floats[i].id = WindowOf(id) /\ floats[i].tab.id = id
<1> DEFINE I == {i \in DOMAIN floats : floats[i].tab.id = id}
<1>1. I # {} /\ I \in SUBSET Nat
  <2>1. Ids(FloatTabs) = {floats[i].tab.id : i \in DOMAIN floats}
    BY WindowTabsAre DEF FloatTabs, WindowTabs
  <2> QED BY <2>1 DEF Floating
<1>2. WindowOf(id) = floats[Min(I)].id
  BY DEF WindowOf
<1>3. \A i \in I : i \in DOMAIN floats /\ floats[i].tab.id = id
  OBVIOUS
<1> HIDE DEF I
<1> QED BY <1>1, <1>2, <1>3, MinIs

-------------------------------------------------------------------------------
(* The steps keep the invariant                                                *)

Flags == {gitChecked, panelOpen, bottomOpen, narrow, merged} \subseteq BOOLEAN

LEMMA WindowsNow == FloatTabs = WindowTabs(floats) /\ FloatTabs' = WindowTabs(floats')
BY DEF FloatTabs, WindowTabs

\* The node ids stay distinct when what a step mints is above the counter.
LEMMA ShapeStep ==
  ASSUME LayoutShape, counter' \in Number, counter <= counter', Good(right'), Good(bottom'),
         \A id \in Nodes(right') \ Nodes(right) : counter < id[2] /\ id[2] <= counter',
         \A id \in Nodes(bottom') \ Nodes(bottom) : counter < id[2] /\ id[2] <= counter',
         Nodes(right') \subseteq Nodes(right) \/ Nodes(bottom') \subseteq Nodes(bottom),
         floats' \in Seq(FloatSet), activePane' \in PaneId, edits' \in 0..MaxEdits, Flags'
  PROVE  LayoutShape'
<1>1. /\ Nodes(right) \cap Nodes(bottom) = {} /\ counter \in Nat /\ counter' \in Nat
      /\ \A id \in Nodes(right) \cup Nodes(bottom) : id[2] <= counter
  BY DEF LayoutShape, Number
<1>2. \A id \in Nodes(right') \cup Nodes(bottom') : id[2] \in Nat
  BY NodesAre
<1>3. ASSUME NEW id \in Nodes(right'), id \in Nodes(bottom') PROVE FALSE
  <2>1. CASE id \in Nodes(right)
    <3>1. id \in Nodes(bottom') \ Nodes(bottom)
      BY <2>1, <1>1, <1>3
    <3> QED BY <3>1, <2>1, <1>1, <1>2
  <2>2. CASE id \notin Nodes(right)
    <3>1. id \in Nodes(bottom) /\ counter < id[2]
      BY <2>2, <1>3
    <3> QED BY <3>1, <1>1, <1>2
  <2> QED BY <2>1, <2>2
<1>4. \A id \in Nodes(right') \cup Nodes(bottom') : id[2] <= counter'
  <2>1. ASSUME NEW id \in Nodes(right') \cup Nodes(bottom') PROVE id[2] <= counter'
    <3>1. CASE id \in Nodes(right) \cup Nodes(bottom)
      BY <3>1, <1>1, <1>2
    <3>2. CASE id \notin Nodes(right) \cup Nodes(bottom)
      BY <3>2
    <3> QED BY <3>1, <3>2
  <2> QED BY <2>1
<1>5. Nodes(right') \cap Nodes(bottom') = {}
  BY <1>3
<1> QED BY <1>4, <1>5 DEF LayoutShape, Flags

\* What the invariant says of the variables.
LEMMA Typed ==
  ASSUME LayoutInv
  PROVE  /\ LayoutShape /\ NamedPlaced /\ Narrowed /\ Good(right) /\ Good(bottom)
         /\ counter \in Number /\ counter \in Nat /\ Number \subseteq Nat /\ MaxId \in Nat
         /\ activePane \in PaneId /\ floats \in Seq(FloatSet) /\ Flags
BY LayoutAssumption DEF LayoutInv, LayoutShape, Number, Flags

\* The trees are a and b, perhaps bereft of panes and tabs, when the tabs c,
\* which are nowhere if they have a name, are to join one of them.
Bereft(a, b, windows, c) ==
  /\ Good(a) /\ Good(b) /\ Nodes(a) \subseteq Nodes(right) /\ Nodes(b) \subseteq Nodes(bottom)
  /\ TabIds(b) \subseteq TabIds(bottom)
  /\ \A x \in Named : /\ Placed(a, b, windows, x) /\ OnceIn(c, x)
                      /\ x \in Ids(c) => x \notin TabIds(a) /\ x \notin TabIds(b) /\ x \notin Ids(windows)

\* Tabs join one tree, and the other one keeps its panes or loses some.
LEMMA TreesStep ==
  ASSUME LayoutInv, NEW a, NEW b, NEW c, Bereft(a, b, FloatTabs', c), NEW inBottom \in BOOLEAN, NEW r,
         Yields(IF inBottom THEN b ELSE a, r, counter, counter', c),
         right' = IF inBottom THEN a ELSE r, bottom' = IF inBottom THEN r ELSE b,
         counter' \in Number, counter <= counter', floats' \in Seq(FloatSet),
         activePane' \in PaneId, edits' \in 0..MaxEdits, Flags', UNCHANGED <<narrow, merged>>,
         narrow /\ merged => ~inBottom /\ activePane' \notin Panes(bottom)
  PROVE  LayoutInv'
<1>1. LayoutShape /\ NamedPlaced /\ Narrowed
  BY Typed
<1>2. LayoutShape'
  <2>1. Good(r) /\ \A n \in Nodes(r) \ Nodes(IF inBottom THEN b ELSE a) : counter < n[2] /\ n[2] <= counter'
    BY DEF Yields
  <2>2. Good(right') /\ Good(bottom')
    BY <2>1 DEF Bereft
  <2>3. /\ \A n \in Nodes(right') \ Nodes(right) : counter < n[2] /\ n[2] <= counter'
        /\ \A n \in Nodes(bottom') \ Nodes(bottom) : counter < n[2] /\ n[2] <= counter'
        /\ Nodes(right') \subseteq Nodes(right) \/ Nodes(bottom') \subseteq Nodes(bottom)
    <3>1. Nodes(a) \subseteq Nodes(right) /\ Nodes(b) \subseteq Nodes(bottom)
      BY DEF Bereft
    <3>2. CASE inBottom
      <4>1. right' = a /\ bottom' = r /\ \A n \in Nodes(r) \ Nodes(b) : counter < n[2] /\ n[2] <= counter'
        BY <3>2, <2>1
      <4> QED BY <4>1, <3>1
    <3>3. CASE ~inBottom
      <4>1. right' = r /\ bottom' = b /\ \A n \in Nodes(r) \ Nodes(a) : counter < n[2] /\ n[2] <= counter'
        BY <3>3, <2>1
      <4> QED BY <4>1, <3>1
    <3> QED BY <3>2, <3>3
  <2> QED BY <1>1, <2>2, <2>3, ShapeStep
<1>3. NamedPlaced'
  <2>1. SUFFICES ASSUME NEW x \in Named PROVE Placed(right', bottom', FloatTabs', x)
    BY DEF NamedPlaced, Named
  <2>2. /\ Placed(a, b, FloatTabs', x) /\ OnceIn(c, x)
        /\ x \in Ids(c) => x \notin TabIds(a) /\ x \notin TabIds(b) /\ x \notin Ids(FloatTabs')
    BY DEF Bereft
  <2>4. CASE inBottom
    <3>1. right' = a /\ bottom' = r /\ Yields(b, r, counter, counter', c)
      BY <2>4
    <3> QED BY <3>1, <2>2, PlacedGain
  <2>5. CASE ~inBottom
    <3>1. right' = r /\ bottom' = b /\ Yields(a, r, counter, counter', c)
      BY <2>5
    <3> QED BY <3>1, <2>2, PlacedGain
  <2> QED BY <2>4, <2>5
<1>4. Narrowed'
  <2>1. SUFFICES ASSUME narrow, merged PROVE TabIds(bottom') = {} /\ activePane' \notin Panes(bottom')
    BY DEF Narrowed
  <2>2. TabIds(bottom) = {} /\ ~inBottom /\ bottom' = b /\ activePane' \notin Panes(bottom)
    BY <1>1, <2>1 DEF Narrowed
  <2>3. Good(b) /\ Good(bottom) /\ Nodes(b) \subseteq Nodes(bottom) /\ TabIds(b) \subseteq TabIds(bottom)
    BY <1>1, Typed DEF Bereft
  <2>4. Panes(b) \subseteq Panes(bottom)
    <3>1. Panes(b) \subseteq PaneId /\ SplitIds(bottom) \subseteq SplitId /\ PaneId \cap SplitId = {}
      BY <2>3, NodesAre DEF PaneId, SplitId
    <3> QED BY <3>1, <2>3 DEF Nodes
  <2> QED BY <2>2, <2>3, <2>4
<1> QED BY <1>2, <1>3, <1>4 DEF LayoutInv

\* One tree changes, with tabs that were nowhere.
LEMMA OneTree ==
  ASSUME LayoutInv, NEW inBottom \in BOOLEAN, NEW r, NEW c, SetTree(inBottom, r),
         Yields(IF inBottom THEN bottom ELSE right, r, counter, counter', c),
         counter' \in Number, counter <= counter',
         floats' \in Seq(FloatSet), Gains(FloatTabs, FloatTabs', <<>>),
         \A x \in Named : /\ OnceIn(c, x)
                          /\ x \in Ids(c) => /\ x \notin TabIds(right) /\ x \notin TabIds(bottom)
                                             /\ x \notin Ids(FloatTabs'),
         activePane' \in PaneId, edits' \in 0..MaxEdits, Flags', UNCHANGED <<narrow, merged>>,
         narrow /\ merged => ~inBottom /\ activePane' \notin Panes(bottom)
  PROVE  LayoutInv'
<1>1. LayoutShape /\ NamedPlaced /\ Good(right) /\ Good(bottom)
  BY Typed
<1>2. Bereft(right, bottom, FloatTabs', c)
  <2>1. ASSUME NEW x \in Named
        PROVE  /\ Placed(right, bottom, FloatTabs', x) /\ OnceIn(c, x)
               /\ x \in Ids(c) => x \notin TabIds(right) /\ x \notin TabIds(bottom) /\ x \notin Ids(FloatTabs')
    <3>1. Placed(right, bottom, FloatTabs', x)
      BY <1>1, BecomesItself, PlacedFewer DEF NamedPlaced
    <3> QED BY <3>1
  <2> QED BY <1>1, <2>1 DEF Bereft
<1>3. right' = (IF inBottom THEN right ELSE r) /\ bottom' = (IF inBottom THEN r ELSE bottom)
  BY DEF SetTree
<1> QED BY <1>2, <1>3, TreesStep

\* No tree changes.
LEMMA NoTree ==
  ASSUME LayoutInv, UNCHANGED <<right, bottom, counter>>, floats' \in Seq(FloatSet),
         Gains(FloatTabs, FloatTabs', <<>>), activePane' \in PaneId, edits' \in 0..MaxEdits, Flags',
         UNCHANGED <<narrow, merged>>, narrow /\ merged => activePane' \notin Panes(bottom)
  PROVE  LayoutInv'
<1>1. SetTree(FALSE, right) /\ Good(right) /\ counter \in Number /\ counter \in Nat
  BY DEF SetTree, LayoutInv, LayoutShape, Number
<1>2. Yields(IF FALSE THEN bottom ELSE right, right, counter, counter', <<>>)
  BY <1>1, BecomesItself
<1>3. counter' \in Number /\ counter <= counter'
  BY <1>1
<1>4. \A x \in Named : /\ OnceIn(<<>>, x)
                       /\ x \in Ids(<<>>) => /\ x \notin TabIds(right) /\ x \notin TabIds(bottom)
                                             /\ x \notin Ids(FloatTabs')
  BY NoTabs
<1> QED BY <1>1, <1>2, <1>3, <1>4, OneTree

LEMMA SameWindows ==
  ASSUME LayoutInv, floats' = floats
  PROVE  floats' \in Seq(FloatSet) /\ Gains(FloatTabs, FloatTabs', <<>>) /\ FloatTabs' = FloatTabs
<1>1. FloatTabs' = FloatTabs
  BY DEF FloatTabs
<1> QED BY <1>1, GainsNone DEF LayoutInv, LayoutShape

\* A docked tab becomes the one its pane shows.
LEMMA ActivateStep ==
  ASSUME LayoutInv, NEW id, Docked(id), Activate(id), UNCHANGED <<floats, counter, narrow, merged>>,
         edits' \in 0..MaxEdits, Flags'
  PROVE  LayoutInv'
<1> DEFINE leaf == PaneOfTab(id)
           t == TreeOf(leaf.id)
           by == [leaf EXCEPT !.active = id]
           r == MapLeaf(t, leaf.id, by)
<1>1. LayoutShape /\ Narrowed /\ counter \in Number /\ counter \in Nat
  BY DEF LayoutInv, LayoutShape, Number
<1>2. /\ leaf.id \in Panes(right) \cup Panes(bottom) /\ leaf.id \in PaneId
      /\ leaf = LeafAt(t, leaf.id) /\ id \in Has(t, leaf.id)
      /\ leaf \in LeafSet /\ leaf.id \in Panes(t) /\ Good(t)
      /\ id \in TabIds(right) => leaf.id \in Panes(right)
  BY <1>1, PaneOfTabIs
<1>3. SetTree(InBottom(leaf.id), r) /\ activePane' = leaf.id
  BY DEF Activate
<1> HIDE DEF leaf, t
<1>4. /\ t = IF InBottom(leaf.id) THEN bottom ELSE right
      /\ InBottom(leaf.id) \in BOOLEAN
      /\ leaf.id \in Panes(right) => ~InBottom(leaf.id) /\ leaf.id \notin Panes(bottom)
  BY <1>1, <1>2, TreeOfIs DEF t, TreeOf, InBottom
<1>5. by \in LeafSet /\ LeafOK(by) /\ by.id = leaf.id /\ by.tabs = leaf.tabs
  <2>1. by = Leaf(leaf.id, leaf.tabs, id) /\ leaf.tabs \in Seq(SideTab)
    BY <1>2 DEF LeafSet, Leaf
  <2>2. id \in Ids(leaf.tabs)
    BY <1>2 DEF Has
  <2> HIDE DEF by
  <2> QED BY <2>1, <2>2, <1>2, MakesLeaf
<1> HIDE DEF by
<1>6. Yields(t, r, counter, counter', <<>>)
  <2>1. Gains(LeafAt(t, by.id).tabs, by.tabs, <<>>)
    BY <1>2, <1>5, GainsNone
  <2>2. r = MapLeaf(t, by.id, by)
    BY <1>5
  <2> HIDE DEF r
  <2> QED BY <2>1, <2>2, <1>2, <1>5, MapLeafBecomes
<1>7. narrow /\ merged => ~InBottom(leaf.id) /\ activePane' \notin Panes(bottom)
  <2>1. ASSUME narrow, merged PROVE id \in TabIds(right)
    BY <2>1, <1>1 DEF Narrowed, Docked
  <2> QED BY <2>1, <1>2, <1>3, <1>4
<1> HIDE DEF r
<1>8. \A x \in Named : /\ OnceIn(<<>>, x)
                       /\ x \in Ids(<<>>) => /\ x \notin TabIds(right) /\ x \notin TabIds(bottom)
                                             /\ x \notin Ids(FloatTabs')
  BY NoTabs
<1>9. counter' \in Number /\ counter <= counter' /\ activePane' \in PaneId
  BY <1>1, <1>2, <1>3
<1>10. floats' \in Seq(FloatSet) /\ Gains(FloatTabs, FloatTabs', <<>>)
  BY SameWindows
<1> QED BY <1>3, <1>4, <1>6, <1>7, <1>8, <1>9, <1>10, OneTree

\* A tab lands in the pane in use, or the one that is open already comes up.
LEMMA LandStep ==
  ASSUME LayoutInv, NEW tab \in SideTab, Land(tab), UNCHANGED <<counter, narrow, merged>>,
         edits' \in 0..MaxEdits, Flags'
  PROVE  LayoutInv'
<1> DEFINE pane == LandingPane(activePane)
           same == SameAs(tab)
<1>1. LayoutShape /\ Narrowed /\ counter \in Number /\ counter \in Nat /\ activePane \in PaneId
      /\ floats \in Seq(FloatSet)
  BY DEF LayoutInv, LayoutShape, Number
<1>2. CASE Alike(tab) = {}
  <2>1. /\ SetTree(InBottom(pane), Append1(TreeOf(pane), pane, tab))
        /\ activePane' = pane /\ floats' = floats
    BY <1>2 DEF Land
  <2>2. tab.id \notin Ids(OpenTabs)
    BY <1>2 DEF Alike, Ids
  <2>3. /\ pane \in Panes(right) \cup Panes(bottom) /\ pane \in PaneId
        /\ activePane \notin Panes(bottom) => pane \in Panes(right)
    BY <1>1, LandingPaneIs
  <2> DEFINE t == TreeOf(pane)
             r == Append1(t, pane, tab)
  <2> HIDE DEF pane
  <2>4. /\ t = IF InBottom(pane) THEN bottom ELSE right
        /\ InBottom(pane) \in BOOLEAN /\ Good(t)
        /\ pane \in Panes(right) => ~InBottom(pane) /\ pane \notin Panes(bottom)
    BY <1>1, <2>3, TreeOfIs DEF TreeOf, InBottom
  <2> HIDE DEF t
  <2>5. Yields(t, r, counter, counter', <<tab>>)
    BY <2>4, Append1Is
  <2>6. SetTree(InBottom(pane), r)
    BY <2>1 DEF t
  <2> HIDE DEF r
  <2>7. floats' \in Seq(FloatSet) /\ Gains(FloatTabs, FloatTabs', <<>>) /\ FloatTabs' = FloatTabs
    BY <2>1, SameWindows
  <2>8. \A x \in Named : /\ OnceIn(<<tab>>, x)
                         /\ x \in Ids(<<tab>>) => /\ x \notin TabIds(right) /\ x \notin TabIds(bottom)
                                                  /\ x \notin Ids(FloatTabs')
    <3>1. Ids(OpenTabs) = TabIds(right) \cup TabIds(bottom) \cup Ids(FloatTabs)
      BY <1>1, OpenTabsAre
    <3>2. Ids(<<tab>>) = {tab.id} /\ \A x : OnceIn(<<tab>>, x)
      BY DEF Ids, OnceIn
    <3> QED BY <3>1, <3>2, <2>2, <2>7
  <2>9. narrow /\ merged => ~InBottom(pane) /\ activePane' \notin Panes(bottom)
    BY <1>1, <2>1, <2>3, <2>4 DEF Narrowed
  <2>10. counter' \in Number /\ counter <= counter' /\ activePane' \in PaneId
    BY <1>1, <2>1, <2>3
  <2> QED BY <2>4, <2>5, <2>6, <2>7, <2>8, <2>9, <2>10, OneTree
<1>3. CASE Alike(tab) # {} /\ Docked(same)
  <2>1. Activate(same) /\ floats' = floats
    BY <1>3 DEF Land
  <2> QED BY <2>1, <1>3, ActivateStep
<1>4. CASE Alike(tab) # {} /\ ~Docked(same)
  <2>1. floats' = Raised(WindowOf(same)) /\ UNCHANGED <<right, bottom, activePane>>
    BY <1>4 DEF Land
  <2>2. same \in Ids(OpenTabs)
    <3>1. Alike(tab) \in SUBSET Nat /\ Alike(tab) \in SUBSET DOMAIN OpenTabs
      BY <1>1, OpenTabsAre DEF Alike
    <3>2. Min(Alike(tab)) \in DOMAIN OpenTabs
      BY <3>1, <1>4, MinIs
    <3> QED BY <3>2 DEF SameAs, Ids
  <2>3. Floating(same)
    BY <2>2, <1>1, <1>4, OpenTabsAre DEF Floating, Docked
  <2> HIDE DEF same
  <2>4. floats' \in Seq(FloatSet) /\ Gains(FloatTabs, FloatTabs', <<>>)
    <3>1. \E i \in DOMAIN floats : floats[i].id = WindowOf(same)
      BY <2>3, <1>1, WindowOfIs
    <3> QED BY <3>1, <2>1, <1>1, RaisedIs, WindowsNow
  <2>5. narrow /\ merged => activePane' \notin Panes(bottom)
    BY <1>1, <2>1 DEF Narrowed
  <2> QED BY <2>1, <2>4, <2>5, <1>1, NoTree
<1> QED BY <1>2, <1>3, <1>4

LEMMA Lone ==
  ASSUME NEW tab
  PROVE  Ids(<<tab>>) = {tab.id} /\ \A x : OnceIn(<<tab>>, x)
BY DEF Ids, OnceIn

\* The ids that the counter mints, and those of diffs, are no names.
LEMMA NamedIds ==
  /\ \A d : DiffTab(d).id \notin Named
  /\ \A n, kind, of : TabOf(<<"tab", n>>, kind, of).id \notin Named
  /\ Home \notin Named
BY LayoutAssumption DEF Named, DiffTab, TabOf, Home

\* Every operation, one by one.
LEMMA OpenFileStep ==
  ASSUME LayoutInv, edits' \in 0..MaxEdits, NEW f \in File, OpenFile(f)
  PROVE  LayoutInv'
<1>1. FileTab(f) \in SideTab
  BY DEF FileTab, SideTab
<1>2. Land(FileTab(f)) /\ UNCHANGED <<counter, narrow, merged, gitChecked>>
  BY DEF OpenFile
<1>3. panelOpen' \in BOOLEAN /\ bottomOpen' \in BOOLEAN
  BY DEF OpenFile, InSight
<1>4. Flags'
  BY <1>2, <1>3, Typed DEF Flags
<1> QED BY <1>1, <1>2, <1>4, LandStep

LEMMA OpenTypeStep ==
  ASSUME LayoutInv, edits' \in 0..MaxEdits, NEW tab \in {HomeTab(Home), GitTab}, OpenType(tab)
  PROVE  LayoutInv'
<1>1. tab \in SideTab
  BY DEF HomeTab, Home, SideTab
<1>2. Land(tab) /\ UNCHANGED <<counter, narrow, merged, gitChecked, panelOpen, bottomOpen>>
  BY DEF OpenType
<1>3. Flags'
  BY <1>2, Typed DEF Flags
<1> QED BY <1>1, <1>2, <1>3, LandStep

\* A number the counter has not passed is no node's.
LEMMA FreshPane ==
  ASSUME LayoutInv, NEW n \in Number, counter < n
  PROVE  <<"pane", n>> \in PaneId /\ <<"pane", n>> \notin Panes(right) /\ <<"pane", n>> \notin Panes(bottom)
<1> DEFINE p == <<"pane", n>>
<1>1. p \in PaneId /\ p[2] = n
  BY DEF PaneId
<1>2. \A id \in Panes(right) \cup Panes(bottom) : id[2] <= counter
  BY DEF LayoutInv, LayoutShape, Nodes
<1>3. ~(n <= counter)
  BY Typed
<1> HIDE DEF p
<1>4. p \notin Panes(right) /\ p \notin Panes(bottom)
  BY <1>1, <1>2, <1>3
<1> QED BY <1>1, <1>4 DEF p

LEMMA OpenFileSideStep ==
  ASSUME LayoutInv, edits' \in 0..MaxEdits, NEW id, NEW f \in File, OpenFileSide(id, f)
  PROVE  LayoutInv'
<1> DEFINE pane == IF id \in TabIds(right) THEN LeafWithTab(right, id).id ELSE FirstLeaf(right).id
           tab == TabOf(<<"tab", counter + 1>>, "editor", f)
           n == counter + 2
           k == counter + 3
           r == SplitLeafAt(right, pane, Leaf(<<"pane", n>>, <<tab>>, tab.id), <<"split", k>>, FALSE)
<1>1. /\ right' = r /\ bottom' = bottom /\ counter' = k /\ activePane' = <<"pane", n>> /\ floats' = floats
      /\ UNCHANGED <<narrow, merged, gitChecked, panelOpen, bottomOpen>>
      /\ counter + 3 <= MaxId
  <2>1. Leaf(<<"pane", n>>, <<tab>>, tab.id).id = <<"pane", n>>
    BY DEF Leaf
  <2> QED BY <2>1 DEF OpenFileSide, RoomFor
<1>2. LayoutShape /\ Good(right) /\ counter \in Nat /\ counter + 1 \in Number /\ n \in Number /\ k \in Number
      /\ n \in Nat /\ k \in Nat /\ counter < n /\ counter < k /\ n <= k /\ counter <= k /\ k <= k
  BY <1>1, Typed DEF Number
<1>3. tab \in SideTab /\ tab.id \notin Named
  BY <1>2, NamedIds DEF SideTab
<1>4. pane \in Panes(right)
  BY <1>2, FirstLeafIs, LeafWithTabIs
<1>5. \A x \in Nodes(right) : x[2] <= counter
  BY <1>2 DEF LayoutShape
<1> HIDE DEF pane, tab, n, k
<1>6. Yields(right, r, counter, k, <<tab>>)
  BY <1>2, <1>3, <1>4, <1>5, SplitBecomes
<1> HIDE DEF r
<1>7. SetTree(FALSE, r)
  BY <1>1 DEF SetTree
<1>8. <<"pane", n>> \in PaneId /\ <<"pane", n>> \notin Panes(bottom)
  BY <1>2, FreshPane
<1>9. \A x \in Named : /\ OnceIn(<<tab>>, x)
                       /\ x \in Ids(<<tab>>) => /\ x \notin TabIds(right) /\ x \notin TabIds(bottom)
                                                /\ x \notin Ids(FloatTabs')
  BY <1>3, Lone
<1>10. Flags'
  BY <1>1, Typed DEF Flags
<1>11. counter' \in Number /\ counter <= counter' /\ Yields(IF FALSE THEN bottom ELSE right, r, counter, counter', <<tab>>)
  BY <1>1, <1>2, <1>6
<1>12. floats' \in Seq(FloatSet) /\ Gains(FloatTabs, FloatTabs', <<>>)
  BY <1>1, SameWindows
<1>13. activePane' \in PaneId /\ activePane' \notin Panes(bottom) /\ UNCHANGED <<narrow, merged>>
  BY <1>1, <1>8
<1> QED BY <1>7, <1>9, <1>10, <1>11, <1>12, <1>13, OneTree

LEMMA OpenDiffStep ==
  ASSUME LayoutInv, edits' \in 0..MaxEdits, NEW d \in Diff, OpenDiff(d)
  PROVE  LayoutInv'
<1> DEFINE tab == DiffTab(d)
           diffs == {i \in DOMAIN right.panes : \E t \in ToSet(right.panes[i].tabs) : t.kind = "diff"}
           pane == right.panes[Min(diffs)].id
           source == IF Docked(GitTab.id) THEN PaneOfTab(GitTab.id).id ELSE None
<1>0. UNCHANGED <<narrow, merged, gitChecked, panelOpen, bottomOpen>>
  BY DEF OpenDiff
<1>1. Flags'
  BY <1>0, Typed DEF Flags
<1>2. tab \in SideTab /\ tab.id \notin Named
  BY NamedIds DEF SideTab
<1>3. LayoutShape /\ Good(right) /\ counter \in Nat /\ counter \in Number
  BY Typed
<1>4. \A x \in Named : /\ OnceIn(<<tab>>, x)
                       /\ x \in Ids(<<tab>>) => /\ x \notin TabIds(right) /\ x \notin TabIds(bottom)
                                                /\ x \notin Ids(FloatTabs')
  BY <1>2, Lone
<1>5. CASE tab.id \in TabIds(right)
  <2>1. Activate(tab.id) /\ UNCHANGED <<floats, counter>>
    BY <1>5 DEF OpenDiff
  <2>2. Docked(tab.id)
    BY <1>5 DEF Docked
  <2> QED BY <2>1, <2>2, <1>0, <1>1, ActivateStep
<1>6. CASE tab.id \notin TabIds(right) /\ diffs # {}
  <2>1. /\ right' = Append1(right, pane, tab) /\ activePane' = pane
        /\ UNCHANGED <<bottom, floats, counter>>
    BY <1>6 DEF OpenDiff
  <2>2. pane \in Panes(right)
    <3>1. diffs \in SUBSET Nat /\ diffs \in SUBSET (1 .. Len(right.panes))
      BY <1>3, GoodHas
    <3> HIDE DEF diffs
    <3>2. Min(diffs) \in 1 .. Len(right.panes)
      BY <3>1, <1>6, MinIs
    <3> QED BY <3>2, <1>3, LeafIs
  <2> HIDE DEF pane, tab
  <2>3. Yields(right, right', counter, counter', <<tab>>) /\ SetTree(FALSE, right')
    BY <2>1, <1>2, <1>3, Append1Is DEF SetTree
  <2>4. pane \in PaneId /\ pane \notin Panes(bottom)
    BY <2>2, <1>3, TreeOfIs
  <2>5. Yields(IF FALSE THEN bottom ELSE right, right', counter, counter', <<tab>>)
    BY <2>3
  <2>6. floats' \in Seq(FloatSet) /\ Gains(FloatTabs, FloatTabs', <<>>)
    BY <2>1, SameWindows
  <2>7. counter' \in Number /\ counter <= counter' /\ activePane' \in PaneId /\ activePane' \notin Panes(bottom)
    BY <2>1, <2>4, <1>3
  <2> QED BY <2>3, <2>5, <2>6, <2>7, <1>0, <1>1, <1>4, OneTree
<1>7. CASE tab.id \notin TabIds(right) /\ diffs = {} /\ source \notin Panes(right)
  <2>1. Land(tab) /\ UNCHANGED counter
    BY <1>7 DEF OpenDiff
  <2> QED BY <2>1, <1>0, <1>1, <1>2, LandStep
<1>8. CASE tab.id \notin TabIds(right) /\ diffs = {} /\ source \in Panes(right)
  <2> DEFINE n == counter + 1
             k == counter + 2
             r == SplitLeafAt(right, source, Leaf(<<"pane", n>>, <<tab>>, tab.id), <<"split", k>>, FALSE)
  <2>1. /\ right' = r /\ activePane' = <<"pane", n>> /\ counter' = k
        /\ UNCHANGED <<bottom, floats>> /\ counter + 2 <= MaxId
    <3>1. /\ right' = InsertLeafAt(right, source, tab, FALSE) /\ activePane' = <<"pane", n>> /\ counter' = k
          /\ UNCHANGED <<bottom, floats>> /\ RoomFor(2)
      BY <1>8 DEF OpenDiff
    <3> QED BY <3>1, <1>8 DEF InsertLeafAt, RoomFor
  <2>2. n \in Number /\ k \in Number /\ n \in Nat /\ k \in Nat /\ counter < n /\ counter < k /\ n <= k /\ k <= k
        /\ counter <= k
    BY <2>1, <1>3, Typed DEF Number
  <2>3. \A x \in Nodes(right) : x[2] <= counter
    BY <1>3 DEF LayoutShape
  <2> HIDE DEF source, tab, n, k
  <2>4. Yields(right, r, counter, k, <<tab>>)
    BY <2>2, <2>3, <1>2, <1>3, <1>8, SplitBecomes
  <2> HIDE DEF r
  <2>5. SetTree(FALSE, r)
    BY <2>1 DEF SetTree
  <2>6. <<"pane", n>> \in PaneId /\ <<"pane", n>> \notin Panes(bottom)
    BY <2>2, FreshPane
  <2>7. Yields(IF FALSE THEN bottom ELSE right, r, counter, counter', <<tab>>)
    BY <2>1, <2>4
  <2>8. floats' \in Seq(FloatSet) /\ Gains(FloatTabs, FloatTabs', <<>>)
    BY <2>1, SameWindows
  <2>9. counter' \in Number /\ counter <= counter' /\ activePane' \in PaneId /\ activePane' \notin Panes(bottom)
    BY <2>1, <2>2, <2>6
  <2> QED BY <2>5, <2>7, <2>8, <2>9, <1>0, <1>1, <1>4, OneTree
<1> QED BY <1>5, <1>6, <1>7, <1>8

LEMMA CloseTabStep ==
  ASSUME LayoutInv, edits' \in 0..MaxEdits, NEW id, CloseTab(id)
  PROVE  LayoutInv'
<1>0. UNCHANGED <<narrow, merged, gitChecked, panelOpen, bottomOpen, activePane, counter>>
  BY DEF CloseTab, Same
<1>1. Flags'
  BY <1>0, Typed DEF Flags
<1>2. LayoutShape /\ Narrowed /\ activePane \in PaneId /\ floats \in Seq(FloatSet) /\ counter \in Number /\ counter \in Nat
  BY Typed
<1>3. CASE Floating(id)
  <2>1. floats' = Only(floats, {i \in DOMAIN floats : floats[i].tab.id # id}) /\ UNCHANGED <<right, bottom>>
    BY <1>3 DEF CloseTab
  <2>2. floats' \in Seq(FloatSet) /\ Gains(FloatTabs, FloatTabs', <<>>)
    BY <2>1, <1>2, OnlyWindows, WindowsNow
  <2>3. narrow /\ merged => activePane' \notin Panes(bottom)
    BY <1>0, <1>2 DEF Narrowed
  <2> QED BY <2>1, <2>2, <2>3, <1>0, <1>1, <1>2, NoTree
<1>4. CASE ~Floating(id)
  <2> DEFINE pane == PaneOfTab(id).id
             t == TreeOf(pane)
             r == TakeOut(t, pane, id)
  <2>1. SetTree(InBottom(pane), r) /\ floats' = floats /\ Docked(id)
    BY <1>4 DEF CloseTab, AtHand
  <2>2. /\ pane \in Panes(right) \cup Panes(bottom) /\ Good(t)
        /\ id \in TabIds(right) => pane \in Panes(right)
    BY <2>1, <1>2, PaneOfTabIs
  <2> HIDE DEF pane
  <2>3. /\ t = IF InBottom(pane) THEN bottom ELSE right
        /\ InBottom(pane) \in BOOLEAN
        /\ pane \in Panes(right) => ~InBottom(pane)
    BY <1>2, <2>2, TreeOfIs DEF TreeOf, InBottom
  <2> HIDE DEF t
  <2>4. Yields(t, r, counter, counter', <<>>)
    BY <2>2, TakeOutIs
  <2> HIDE DEF r
  <2>5. narrow /\ merged => ~InBottom(pane) /\ activePane' \notin Panes(bottom)
    BY <1>0, <1>2, <2>1, <2>2, <2>3 DEF Narrowed, Docked
  <2>6. floats' \in Seq(FloatSet) /\ Gains(FloatTabs, FloatTabs', <<>>)
    BY <2>1, SameWindows
  <2>7. counter' \in Number /\ counter <= counter' /\ activePane' \in PaneId
    BY <1>0, <1>2
  <2>8. \A x \in Named : /\ OnceIn(<<>>, x)
                         /\ x \in Ids(<<>>) => /\ x \notin TabIds(right) /\ x \notin TabIds(bottom)
                                               /\ x \notin Ids(FloatTabs')
    BY NoTabs
  <2> QED BY <2>1, <2>3, <2>4, <2>5, <2>6, <2>7, <2>8, <1>0, <1>1, OneTree
<1> QED BY <1>3, <1>4

LEMMA ActivateTabStep ==
  ASSUME LayoutInv, edits' \in 0..MaxEdits, NEW id, ActivateTab(id)
  PROVE  LayoutInv'
<1>1. Activate(id) /\ Docked(id) /\ UNCHANGED <<floats, counter, narrow, merged, gitChecked, panelOpen, bottomOpen>>
  BY DEF ActivateTab, AtHand, Same
<1>2. Flags'
  BY <1>1, Typed DEF Flags
<1> QED BY <1>1, <1>2, ActivateStep

LEMMA RaiseFloatStep ==
  ASSUME LayoutInv, edits' \in 0..MaxEdits, NEW id, RaiseFloat(id)
  PROVE  LayoutInv'
<1>1. /\ Floating(id) /\ floats' = Raised(WindowOf(id))
      /\ UNCHANGED <<right, bottom, activePane, counter, narrow, merged, gitChecked, panelOpen, bottomOpen>>
  BY DEF RaiseFloat, Same
<1>2. Flags' /\ Narrowed /\ activePane \in PaneId /\ floats \in Seq(FloatSet)
  BY <1>1, Typed DEF Flags
<1>3. floats' \in Seq(FloatSet) /\ Gains(FloatTabs, FloatTabs', <<>>)
  <2>1. \E i \in DOMAIN floats : floats[i].id = WindowOf(id)
    BY <1>1, <1>2, WindowOfIs
  <2> QED BY <2>1, <1>1, <1>2, RaisedIs, WindowsNow
<1>4. narrow /\ merged => activePane' \notin Panes(bottom)
  BY <1>1, <1>2 DEF Narrowed
<1> QED BY <1>1, <1>2, <1>3, <1>4, NoTree

LEMMA ShownIs ==
  ASSUME LayoutInv, NEW pane \in Shown
  PROVE  pane \in Panes(right) \cup Panes(bottom) /\ pane \in PaneId /\ (narrow => pane \in Panes(right) /\ pane \notin Panes(bottom))
<1>1. pane \in Panes(right) \cup Panes(bottom) /\ (narrow => pane \in Panes(right))
  BY DEF Shown
<1> QED BY <1>1, Typed, TreeOfIs

LEMMA FocusPaneStep ==
  ASSUME LayoutInv, edits' \in 0..MaxEdits, NEW pane \in Shown, FocusPane(pane)
  PROVE  LayoutInv'
<1>1. /\ activePane' = pane
      /\ UNCHANGED <<right, bottom, floats, counter, narrow, merged, gitChecked, panelOpen, bottomOpen>>
  BY DEF FocusPane, Same
<1>2. Flags'
  BY <1>1, Typed DEF Flags
<1>3. pane \in PaneId /\ (narrow => pane \notin Panes(bottom))
  BY ShownIs
<1>4. floats' \in Seq(FloatSet) /\ Gains(FloatTabs, FloatTabs', <<>>)
  BY <1>1, SameWindows
<1> QED BY <1>1, <1>2, <1>3, <1>4, NoTree

LEMMA ToggleStep ==
  ASSUME LayoutInv, edits' \in 0..MaxEdits, TogglePanel \/ ToggleBottom
  PROVE  LayoutInv'
<1>1. /\ UNCHANGED <<right, bottom, floats, activePane, counter, gitChecked, narrow, merged>>
      /\ panelOpen' \in BOOLEAN /\ bottomOpen' \in BOOLEAN
  BY Typed DEF TogglePanel, ToggleBottom, Flags
<1>2. Flags' /\ Narrowed /\ activePane \in PaneId
  BY <1>1, Typed DEF Flags
<1>3. floats' \in Seq(FloatSet) /\ Gains(FloatTabs, FloatTabs', <<>>)
  BY <1>1, SameWindows
<1>4. narrow /\ merged => activePane' \notin Panes(bottom)
  BY <1>2, <1>1 DEF Narrowed
<1> QED BY <1>1, <1>2, <1>3, <1>4, NoTree

LEMMA DockFloatStep ==
  ASSUME LayoutInv, edits' \in 0..MaxEdits, NEW i \in DOMAIN floats, NEW pane \in Shown \cup {activePane},
         DockFloat(floats[i].id, pane)
  PROVE  LayoutInv'
<1> DEFINE window == floats[i].id
           W == {k \in DOMAIN floats : floats[k].id = window}
           first == Min(W)
           to == LandingPane(pane)
           I == {k \in DOMAIN floats : floats[k].id # window}
           tab == floats[first].tab
           t == TreeOf(to)
           r == Append1(t, to, tab)
<1>0. /\ UNCHANGED <<narrow, merged, gitChecked, panelOpen, bottomOpen, counter>>
      /\ floats' = Only(floats, I) /\ SetTree(InBottom(to), r) /\ activePane' = to
  BY DEF DockFloat, Same
<1>1. Flags'
  BY <1>0, Typed DEF Flags
<1>2. LayoutShape /\ NamedPlaced /\ Narrowed /\ floats \in Seq(FloatSet) /\ counter \in Number /\ counter \in Nat
  BY Typed
<1>3. first \in DOMAIN floats /\ floats[first].id = window
  <2>1. W \in SUBSET Nat /\ W # {}
    BY <1>2
  <2> HIDE DEF W
  <2>2. first \in W
    BY <2>1, MinIs
  <2> QED BY <2>2 DEF W
<1> HIDE DEF first, W
<1>4. tab \in SideTab
  <2>1. floats[first] \in FloatSet
    BY <1>2, <1>3
  <2> QED BY <2>1 DEF FloatSet
<1>5. to \in Panes(right) \cup Panes(bottom) /\ to \in PaneId
      /\ (pane \notin Panes(bottom) => to \in Panes(right))
  BY <1>2, LandingPaneIs
<1>6. narrow /\ merged => pane \notin Panes(bottom)
  <2>1. CASE pane = activePane
    BY <2>1, <1>2 DEF Narrowed
  <2>2. CASE pane \in Shown
    BY <2>2, ShownIs
  <2> QED BY <2>1, <2>2
<1> HIDE DEF to
<1>7. /\ t = IF InBottom(to) THEN bottom ELSE right
      /\ InBottom(to) \in BOOLEAN /\ Good(t)
      /\ to \in Panes(right) => ~InBottom(to) /\ to \notin Panes(bottom)
  BY <1>2, <1>5, TreeOfIs DEF TreeOf, InBottom
<1> HIDE DEF t, tab
<1>8. Yields(t, r, counter, counter', <<tab>>)
  BY <1>4, <1>7, Append1Is
<1> HIDE DEF r
<1>9. floats' \in Seq(FloatSet) /\ Gains(FloatTabs, FloatTabs', <<>>)
      /\ Ids(FloatTabs') = {floats[k].tab.id : k \in I \cap DOMAIN floats}
  <2>1. floats' \in Seq(FloatSet) /\ Gains(WindowTabs(floats), WindowTabs(floats'), <<>>)
        /\ Ids(WindowTabs(floats')) = {floats[k].tab.id : k \in I \cap DOMAIN floats}
    BY <1>0, <1>2, OnlyWindows
  <2> QED BY <2>1, WindowsNow
<1>10. ASSUME NEW x \in Named
       PROVE  /\ OnceIn(<<tab>>, x)
              /\ x \in Ids(<<tab>>) => /\ x \notin TabIds(right) /\ x \notin TabIds(bottom)
                                       /\ x \notin Ids(FloatTabs')
  <2>1. SUFFICES ASSUME x = floats[first].tab.id
                 PROVE  /\ x \notin TabIds(right) /\ x \notin TabIds(bottom) /\ x \notin Ids(FloatTabs')
    BY Lone DEF tab
  <2>2. Placed(right, bottom, FloatTabs, x)
    BY <1>2 DEF NamedPlaced
  <2>3. Ids(FloatTabs) = {floats[k].tab.id : k \in DOMAIN floats}
        /\ \A k, l \in DOMAIN floats : floats[k].tab.id = x /\ floats[l].tab.id = x => k = l
    BY <2>2, <1>2, WindowTabsAre, WindowsNow DEF Placed
  <2>4. x \in Ids(FloatTabs)
    BY <2>1, <2>3, <1>3
  <2>5. x \notin TabIds(right) /\ x \notin TabIds(bottom)
    BY <2>2, <2>4 DEF Placed
  <2>6. x \notin Ids(FloatTabs')
    BY <1>9, <2>1, <2>3, <1>3
  <2> QED BY <2>5, <2>6
<1>11. narrow /\ merged => ~InBottom(to) /\ activePane' \notin Panes(bottom)
  BY <1>0, <1>5, <1>6, <1>7
<1>12. counter' \in Number /\ counter <= counter' /\ activePane' \in PaneId /\ UNCHANGED <<narrow, merged>>
  BY <1>0, <1>2, <1>5
<1>13. SetTree(InBottom(to), r) /\ InBottom(to) \in BOOLEAN
       /\ Yields(IF InBottom(to) THEN bottom ELSE right, r, counter, counter', <<tab>>)
  BY <1>0, <1>7, <1>8
<1> QED BY <1>1, <1>9, <1>10, <1>11, <1>12, <1>13, OneTree

\* The trees once a tab has been taken out of its pane.
LEMMA TakenOut ==
  ASSUME LayoutInv, NEW pane \in Panes(right) \cup Panes(bottom), NEW id \in Has(TreeOf(pane), pane)
  PROVE  LET taken == TakeOut(TreeOf(pane), pane, id)
             tab == TabWith(LeafAt(TreeOf(pane), pane).tabs, id)
         IN /\ Bereft(IF InBottom(pane) THEN right ELSE taken, IF InBottom(pane) THEN taken ELSE bottom,
                      FloatTabs, <<tab>>)
            /\ tab \in SideTab /\ tab.id = id
<1> DEFINE t == TreeOf(pane)
           taken == TakeOut(t, pane, id)
           a == IF InBottom(pane) THEN right ELSE taken
           b == IF InBottom(pane) THEN taken ELSE bottom
           tab == TabWith(LeafAt(TreeOf(pane), pane).tabs, id)
<1>1. LayoutShape /\ NamedPlaced /\ Good(right) /\ Good(bottom) /\ FloatTabs = FloatTabs
  BY Typed
<1>2. Good(t) /\ pane \in Panes(t) /\ t = (IF InBottom(pane) THEN bottom ELSE right) /\ InBottom(pane) \in BOOLEAN
  BY <1>1, TreeOfIs DEF TreeOf, InBottom
<1>3. tab \in SideTab /\ tab.id = id
  <2>1. LeafAt(t, pane).tabs \in Seq(SideTab) /\ id \in Ids(LeafAt(t, pane).tabs)
    BY <1>2, HasTabs DEF Has
  <2> QED BY <2>1, TabWithIs
<1>4. id \in Has(t, pane) /\ id \in TabIds(t)
  BY <1>2, HasTabs
<1> HIDE DEF t, tab
<1>5. /\ Yields(t, taken, 0, 0, <<>>) /\ Nodes(taken) \subseteq Nodes(t)
      /\ Once(t, id) => id \notin TabIds(taken)
  BY <1>2, <1>4, TakeOutIs DEF Nodes
<1>6. Good(taken) /\ TabIds(taken) \subseteq TabIds(t)
  BY <1>5, NoTabs DEF Yields
<1> HIDE DEF taken
<1>7. Yields(right, a, 0, 0, <<>>) /\ Yields(bottom, b, 0, 0, <<>>)
  <2>1. Yields(right, right, 0, 0, <<>>) /\ Yields(bottom, bottom, 0, 0, <<>>)
    BY <1>1, BecomesItself
  <2> QED BY <2>1, <1>5, <1>2
<1>8. /\ Good(a) /\ Good(b) /\ Nodes(a) \subseteq Nodes(right) /\ Nodes(b) \subseteq Nodes(bottom)
      /\ TabIds(b) \subseteq TabIds(bottom) /\ TabIds(a) \subseteq TabIds(right)
  BY <1>1, <1>2, <1>5, <1>6
<1>9. ASSUME NEW x \in Named PROVE Placed(right, bottom, FloatTabs, x) /\ Placed(a, b, FloatTabs, x)
  <2>1. Placed(right, bottom, FloatTabs, x)
    BY <1>1 DEF NamedPlaced
  <2>2. Gains(FloatTabs, FloatTabs, <<>>)
    BY GainsNone
  <2> HIDE DEF a, b
  <2> QED BY <2>1, <2>2, <1>7, PlacedFewer
<1>10. ASSUME id \in Named PROVE id \notin TabIds(a) /\ id \notin TabIds(b) /\ id \notin Ids(FloatTabs)
  <2>1. Placed(right, bottom, FloatTabs, id)
    BY <1>9, <1>10
  <2>2. Once(t, id)
    BY <2>1, <1>2 DEF Placed
  <2>3. id \notin TabIds(taken)
    BY <2>2, <1>5
  <2> QED BY <2>1, <2>3, <1>2, <1>4 DEF Placed
<1> HIDE DEF a, b
<1>11. Bereft(a, b, FloatTabs, <<tab>>)
  BY <1>3, <1>8, <1>9, <1>10, Lone DEF Bereft
<1> QED BY <1>11, <1>3 DEF t, tab, a, b, taken

LEMMA MoveTabStep ==
  ASSUME LayoutInv, edits' \in 0..MaxEdits, NEW from \in Shown, NEW to \in Shown,
         NEW id \in Has(TreeOf(from), from), NEW index, MoveTab(from, id, to, index)
  PROVE  LayoutInv'
<1> DEFINE taken == TakeOut(TreeOf(from), from, id)
           tab == TabWith(LeafAt(TreeOf(from), from).tabs, id)
           a == IF InBottom(from) THEN right ELSE taken
           b == IF InBottom(from) THEN taken ELSE bottom
           inBottom == InBottom(to)
           t == IF inBottom THEN b ELSE a
           r == PutAt(t, to, tab, index)
<1>0. /\ activePane' = to /\ floats' = floats /\ counter' = counter
      /\ UNCHANGED <<narrow, merged, gitChecked, panelOpen, bottomOpen>>
  BY DEF MoveTab, Same
<1>1. Flags'
  BY <1>0, Typed DEF Flags
<1>2. InBottom(from) \in BOOLEAN /\ inBottom \in BOOLEAN /\ LayoutShape
      /\ from \in Panes(right) \cup Panes(bottom)
  BY Typed, ShownIs DEF InBottom
<1>3. right' = (IF inBottom THEN a ELSE r) /\ bottom' = (IF inBottom THEN r ELSE b)
  <2>1. CASE InBottom(from) = InBottom(to)
    <3>1. t = taken
      BY <2>1, <1>2
    <3>2. SetTree(InBottom(to), PutAt(taken, to, tab, index))
      BY <2>1 DEF MoveTab, Moved
    <3> HIDE DEF tab, taken
    <3> QED BY <3>1, <3>2, <2>1 DEF SetTree
  <2>2. CASE InBottom(from) # InBottom(to)
    <3>1. /\ bottom' = IF InBottom(to) THEN PutAt(bottom, to, tab, index) ELSE taken
          /\ right' = IF InBottom(to) THEN taken ELSE PutAt(right, to, tab, index)
      BY <2>2 DEF MoveTab, Moved
    <3> HIDE DEF tab, taken
    <3> QED BY <3>1, <2>2, <1>2
  <2> QED BY <2>1, <2>2
<1>4. Bereft(a, b, FloatTabs', <<tab>>) /\ tab \in SideTab /\ floats' \in Seq(FloatSet)
  BY <1>0, <1>2, TakenOut, SameWindows
<1>5. Good(t)
  BY <1>4, <1>2 DEF Bereft
<1> HIDE DEF tab, t
<1>6. Yields(t, r, counter, counter', <<tab>>)
  <2>1. Joined(t, r, counter, counter', to, tab)
    BY <1>4, <1>5, PutAtIs
  <2> HIDE DEF r
  <2> QED BY <2>1 DEF Joined
<1>7. narrow => ~inBottom /\ activePane' \notin Panes(bottom)
  BY <1>0, <1>2, ShownIs, TreeOfIs
<1>8. counter' \in Number /\ counter <= counter' /\ activePane' \in PaneId
  BY <1>0, Typed, ShownIs
<1> HIDE DEF r, a, b, inBottom
<1>9. Yields(IF inBottom THEN b ELSE a, r, counter, counter', <<tab>>)
  BY <1>6 DEF t
<1> QED BY <1>0, <1>1, <1>2, <1>3, <1>4, <1>7, <1>8, <1>9, TreesStep

LEMMA DropOnEdgeStep ==
  ASSUME LayoutInv, edits' \in 0..MaxEdits, NEW from, NEW to,
         NEW id \in Has(TreeOf(from), from), NEW front \in BOOLEAN, DropOnEdge(from, id, to, front)
  PROVE  LayoutInv'
<1> DEFINE taken == TakeOut(TreeOf(from), from, id)
           tab == TabWith(LeafAt(TreeOf(from), from).tabs, id)
           a == IF InBottom(from) THEN right ELSE taken
           b == IF InBottom(from) THEN taken ELSE bottom
           inBottom == InBottom(to)
           t == IF inBottom THEN b ELSE a
           n == counter + 1
           k == counter + 2
           r == InsertLeafAt(t, to, tab, front)
<1>0. /\ activePane' = <<"pane", n>> /\ floats' = floats /\ counter + 2 <= MaxId
      /\ UNCHANGED <<narrow, merged, gitChecked, panelOpen, bottomOpen>>
      /\ from \in Shown /\ to \in Shown
  BY DEF DropOnEdge, Same, RoomFor
<1>1. Flags'
  BY <1>0, Typed DEF Flags
<1>2. InBottom(from) \in BOOLEAN /\ inBottom \in BOOLEAN /\ LayoutShape
      /\ from \in Panes(right) \cup Panes(bottom)
  BY <1>0, Typed, ShownIs DEF InBottom
<1>3. right' = (IF inBottom THEN a ELSE r) /\ bottom' = (IF inBottom THEN r ELSE b) /\ counter' = counter + Minted(t, to)
  <2>1. CASE InBottom(from) = InBottom(to)
    <3>1. t = taken
      BY <2>1, <1>2
    <3>2. SetTree(InBottom(to), InsertLeafAt(taken, to, tab, front)) /\ counter' = counter + Minted(taken, to)
      BY <2>1 DEF DropOnEdge, Moved
    <3> HIDE DEF tab, taken
    <3> QED BY <3>1, <3>2, <2>1 DEF SetTree
  <2>2. CASE InBottom(from) # InBottom(to)
    <3>1. /\ bottom' = IF InBottom(to) THEN InsertLeafAt(bottom, to, tab, front) ELSE taken
          /\ right' = IF InBottom(to) THEN taken ELSE InsertLeafAt(right, to, tab, front)
          /\ counter' = counter + Minted(TreeOf(to), to)
      BY <2>2 DEF DropOnEdge, Moved
    <3>2. t = TreeOf(to)
      BY <2>2, <1>2 DEF TreeOf
    <3> HIDE DEF tab, taken
    <3> QED BY <3>1, <3>2, <2>2, <1>2
  <2> QED BY <2>1, <2>2
<1>4. Bereft(a, b, FloatTabs', <<tab>>) /\ tab \in SideTab /\ floats' \in Seq(FloatSet)
  BY <1>0, <1>2, TakenOut, SameWindows
<1>5. Good(t) /\ \A x \in Nodes(t) : x[2] <= counter
  BY <1>4, <1>2 DEF Bereft, LayoutShape
<1>6. n \in Number /\ k \in Number /\ n \in Nat /\ k \in Nat /\ counter \in Nat
      /\ counter < n /\ counter < k /\ n <= k /\ k <= k /\ counter <= k
  BY <1>0, Typed DEF Number
<1> HIDE DEF tab, t, n, k
<1>7. Yields(t, r, counter, counter', <<tab>>) /\ counter' \in Number /\ counter <= counter'
  <2>1. CASE to \in Panes(t)
    <3>1. r = SplitLeafAt(t, to, Leaf(<<"pane", n>>, <<tab>>, tab.id), <<"split", k>>, front) /\ counter' = k
      BY <2>1, <1>3 DEF InsertLeafAt, Minted, n, k
    <3>2. Yields(t, SplitLeafAt(t, to, Leaf(<<"pane", n>>, <<tab>>, tab.id), <<"split", k>>, front), counter, k, <<tab>>)
      BY <2>1, <1>4, <1>5, <1>6, SplitBecomes
    <3> QED BY <3>1, <3>2, <1>6
  <2>2. CASE to \notin Panes(t)
    <3>1. r = t /\ counter' = n
      BY <2>2, <1>3 DEF InsertLeafAt, Minted, n
    <3> QED BY <3>1, <1>5, <1>6, BecomesItself
  <2> QED BY <2>1, <2>2
<1>8. /\ <<"pane", n>> \in PaneId /\ <<"pane", n>> \notin Panes(bottom)
      /\ narrow => ~inBottom
  BY <1>0, <1>2, <1>6, ShownIs, TreeOfIs, FreshPane
<1>9. activePane' \in PaneId /\ (narrow => ~inBottom /\ activePane' \notin Panes(bottom))
  BY <1>0, <1>8
<1> HIDE DEF r, a, b, inBottom
<1>10. Yields(IF inBottom THEN b ELSE a, r, counter, counter', <<tab>>)
  BY <1>7 DEF t
<1> QED BY <1>0, <1>1, <1>2, <1>3, <1>4, <1>7, <1>9, <1>10, TreesStep

LEMMA FloatTabStep ==
  ASSUME LayoutInv, edits' \in 0..MaxEdits, NEW id, FloatTab(id)
  PROVE  LayoutInv'
<1> DEFINE pane == PaneOfTab(id).id
           t == TreeOf(pane)
           taken == TakeOut(t, pane, id)
           a == IF InBottom(pane) THEN right ELSE taken
           b == IF InBottom(pane) THEN taken ELSE bottom
           tab == TabWith(PaneOfTab(id).tabs, id)
           n == counter + 1
           window == [id |-> <<"float", n>>, tab |-> tab]
<1>0. /\ Docked(id) /\ counter < MaxId /\ counter' = n
      /\ SetTree(InBottom(pane), taken) /\ floats' = Append(floats, window)
      /\ activePane' = activePane \/ activePane' = FirstLeaf(right').id
      /\ UNCHANGED <<narrow, merged, gitChecked, panelOpen, bottomOpen>>
  BY DEF FloatTab, Same
<1>1. Flags'
  BY <1>0, Typed DEF Flags
<1>2. LayoutShape /\ NamedPlaced /\ Narrowed /\ counter \in Nat /\ counter \in Number /\ activePane \in PaneId
      /\ floats \in Seq(FloatSet) /\ n \in Number /\ n \in Nat /\ counter <= n /\ Good(bottom)
  BY <1>0, Typed DEF Number
<1>3. /\ pane \in Panes(right) \cup Panes(bottom) /\ id \in Has(t, pane)
      /\ PaneOfTab(id) = LeafAt(t, pane)
      /\ id \in TabIds(right) => pane \in Panes(right)
      /\ InBottom(pane) \in BOOLEAN
  BY <1>0, <1>2, PaneOfTabIs DEF InBottom
<1>4. Bereft(a, b, FloatTabs, <<tab>>) /\ tab \in SideTab
  BY <1>3, TakenOut
<1>5. right' = a /\ bottom' = b
  BY <1>0, <1>3 DEF SetTree
<1> HIDE DEF a, b, tab, n
<1>6. window \in FloatSet
  BY <1>2, <1>4 DEF FloatSet
<1>7. floats' \in Seq(FloatSet) /\ Gains(FloatTabs, FloatTabs', <<tab>>)
  <2> HIDE DEF window
  <2>1. Append(floats, window) \in Seq(FloatSet)
        /\ Gains(WindowTabs(floats), WindowTabs(Append(floats, window)), <<window.tab>>)
    BY <1>2, <1>6, AppendWindow
  <2>2. window.tab = tab
    BY DEF window
  <2> QED BY <2>1, <2>2, <1>0, WindowsNow
<1>8. Good(right') /\ Good(bottom') /\ Nodes(right') \subseteq Nodes(right) /\ Nodes(bottom') \subseteq Nodes(bottom)
      /\ TabIds(bottom') \subseteq TabIds(bottom)
  BY <1>4, <1>5 DEF Bereft
<1>9. FirstLeaf(right').id \in Panes(right') /\ Panes(right') \subseteq PaneId
      /\ Panes(bottom') \subseteq PaneId /\ SplitIds(bottom) \subseteq SplitId
  BY <1>2, <1>8, FirstLeafIs, NodesAre
<1>10. LayoutShape'
  <2>1. counter' \in Number /\ counter <= counter' /\ activePane' \in PaneId
    BY <1>0, <1>2, <1>9
  <2>2. /\ \A x \in Nodes(right') \ Nodes(right) : counter < x[2] /\ x[2] <= counter'
        /\ \A x \in Nodes(bottom') \ Nodes(bottom) : counter < x[2] /\ x[2] <= counter'
        /\ Nodes(right') \subseteq Nodes(right) \/ Nodes(bottom') \subseteq Nodes(bottom)
    BY <1>8
  <2> QED BY <1>1, <1>2, <1>7, <1>8, <2>1, <2>2, ShapeStep
<1>11. NamedPlaced'
  <2>1. SUFFICES ASSUME NEW x \in Named PROVE Placed(right', bottom', FloatTabs', x)
    BY DEF NamedPlaced, Named
  <2>2. Placed(a, b, FloatTabs, x)
    BY <1>4 DEF Bereft
  <2>3. /\ OnceIn(<<tab>>, x)
        /\ x \in Ids(<<tab>>) => x \notin TabIds(a) /\ x \notin TabIds(b) /\ x \notin Ids(FloatTabs)
    BY <1>4 DEF Bereft
  <2>4. Placed(a, b, FloatTabs', x)
    BY <2>2, <2>3, <1>7, PlacedGain
  <2> QED BY <2>4, <1>5
<1>12. Narrowed'
  <2>1. SUFFICES ASSUME narrow, merged PROVE TabIds(bottom') = {} /\ activePane' \notin Panes(bottom')
    BY <1>0 DEF Narrowed
  <2>2. TabIds(bottom) = {} /\ activePane \notin Panes(bottom)
    BY <1>2, <2>1 DEF Narrowed
  <2>3. PaneId \cap SplitId = {}
    BY DEF PaneId, SplitId
  <2>4. Panes(bottom') \subseteq Panes(bottom)
    BY <2>3, <1>8, <1>9 DEF Nodes
  <2>5. FirstLeaf(right').id \notin Panes(bottom)
    <3>1. Nodes(right) \cap Nodes(bottom) = {}
      BY <1>2 DEF LayoutShape
    <3> QED BY <3>1, <1>8, <1>9 DEF Nodes
  <2> QED BY <2>2, <2>4, <2>5, <1>0, <1>8
<1> QED BY <1>10, <1>11, <1>12 DEF LayoutInv

\* The ids of both trees in a row.
LEMMA NodeRows ==
  ASSUME LayoutShape
  PROVE  /\ ToSet(NodeIds(right) \o NodeIds(bottom)) = Nodes(right) \cup Nodes(bottom)
         /\ IsInjective(NodeIds(right) \o NodeIds(bottom))
<1> DEFINE S == PaneId \cup SplitId
           a == NodeIds(right)
           b == NodeIds(bottom)
<1>1. a \in Seq(S) /\ b \in Seq(S) /\ IsInjective(a) /\ IsInjective(b) /\ ToSet(a) = Nodes(right) /\ ToSet(b) = Nodes(bottom)
  BY NodeRow DEF LayoutShape
<1>2. ToSet(a) \cap ToSet(b) = {}
  BY <1>1 DEF LayoutShape
<1> HIDE DEF S, a, b
<1>3. ToSet(a \o b) = ToSet(a) \cup ToSet(b) /\ IsInjective(a \o b)
  BY <1>1, <1>2, RowsJoin
<1> QED BY <1>1, <1>3 DEF a, b

\* The trees and the windows stay; the bottom panel is to be merged again.
LEMMA UnmergedStep ==
  ASSUME LayoutInv, UNCHANGED <<right, bottom, floats, activePane>>, merged' = FALSE, counter' \in Number,
         \A id \in Nodes(right) \cup Nodes(bottom) : id[2] <= counter',
         edits' \in 0..MaxEdits, Flags'
  PROVE  LayoutInv'
<1>1. LayoutShape /\ NamedPlaced /\ FloatTabs' = FloatTabs
  BY Typed, SameWindows
<1>2. LayoutShape'
  <2>1. LayoutShape
    BY <1>1
  <2> QED BY <2>1 DEF LayoutShape, Flags
<1>3. NamedPlaced'
  <2>1. SUFFICES ASSUME NEW x \in Named PROVE Placed(right', bottom', FloatTabs', x)
    BY DEF NamedPlaced, Named
  <2> QED BY <1>1 DEF NamedPlaced
<1>4. Narrowed'
  BY DEF Narrowed
<1> QED BY <1>2, <1>3, <1>4 DEF LayoutInv

LEMMA ResizeStep ==
  ASSUME LayoutInv, edits' \in 0..MaxEdits, Resize
  PROVE  LayoutInv'
<1>1. /\ UNCHANGED <<right, bottom, floats, activePane, counter, gitChecked, panelOpen, bottomOpen>>
      /\ merged' = FALSE /\ narrow' \in BOOLEAN
  BY DEF Resize
<1>2. Flags' /\ counter' \in Number /\ \A id \in Nodes(right) \cup Nodes(bottom) : id[2] <= counter'
  BY <1>1, Typed DEF Flags, LayoutShape
<1> QED BY <1>1, <1>2, UnmergedStep

\* The numbers that the counter is seeded from.
LEMMA MaxCounterIdIs ==
  ASSUME LayoutInv
  PROVE  MaxCounterId \in Number /\ \A id \in Nodes(right) \cup Nodes(bottom) : id[2] <= MaxCounterId
<1> DEFINE C == {i[2] : i \in Counted}
<1>1. LayoutShape /\ Good(right) /\ Good(bottom) /\ MaxId \in Nat
  BY Typed
<1>2. Counted = {i \in Nodes(right) \cup Nodes(bottom) \cup TabIds(right) \cup TabIds(bottom) : i[1] \in {"pane", "split", "tab"}}
  BY <1>1, NodeRows DEF Counted
<1>3. Nodes(right) \cup Nodes(bottom) \subseteq PaneId \cup SplitId
      /\ TabIds(right) \cup TabIds(bottom) \subseteq TabId
  BY <1>1, NodesAre, TabIdsAre DEF Nodes
<1>4. \A i \in PaneId \cup SplitId : i[1] \in {"pane", "split", "tab"} /\ i[2] \in 0 .. MaxId
  BY DEF PaneId, SplitId, Number
<1>5. \A i \in TabId : i[1] \in {"pane", "split", "tab"} => i[2] \in 0 .. MaxId
  BY DEF TabId, Number
<1>6. C \in SUBSET (0 .. MaxId)
  BY <1>2, <1>3, <1>4, <1>5
<1>7. \A i \in Nodes(right) \cup Nodes(bottom) : i[2] \in C
  BY <1>2, <1>3, <1>4
<1>8. C # {}
  <2>1. FirstLeaf(right).id \in Nodes(right)
    BY <1>1, FirstLeafIs DEF Nodes
  <2> QED BY <2>1, <1>7
<1> HIDE DEF C
<1>9. Max(C) \in C /\ \A m \in C : m <= Max(C)
  BY <1>1, <1>6, <1>8, MaxIs
<1>10. MaxCounterId = Max(C)
  BY DEF MaxCounterId, C
<1> QED BY <1>6, <1>7, <1>9, <1>10 DEF Number

LEMMA RevisitStep ==
  ASSUME LayoutInv, edits' \in 0..MaxEdits, Revisit
  PROVE  LayoutInv'
<1>1. /\ UNCHANGED <<right, bottom, floats, activePane, gitChecked, panelOpen, bottomOpen, narrow>>
      /\ merged' = FALSE /\ counter' = MaxCounterId
  BY DEF Revisit
<1>2. Flags'
  BY <1>1, Typed DEF Flags
<1> QED BY <1>1, <1>2, MaxCounterIdIs, UnmergedStep

\* Every pane gets other tabs, some of those it had.
LEMMA PaneByPane ==
  ASSUME NEW t, Good(t), NEW p \in Seq(LeafSet), Len(p) = Len(t.panes),
         \A i \in 1 .. Len(p) : LeafOK(p[i]) /\ p[i].id = t.panes[i].id,
         \A i \in 1 .. Len(p) : Gains(t.panes[i].tabs, p[i].tabs, <<>>), NEW lo, NEW hi
  PROVE  LET r == Tree(p, t.splits)
         IN /\ Yields(t, r, lo, hi, <<>>) /\ Panes(r) = Panes(t) /\ SplitIds(r) = SplitIds(t)
            /\ r.panes = p /\ r.splits = t.splits
<1> DEFINE r == Tree(p, t.splits)
<1>0. /\ Len(p) \in Nat \ {0} /\ DOMAIN p = 1 .. Len(p) /\ DOMAIN t.panes = 1 .. Len(p) /\ p # <<>>
      /\ t.splits \in Seq(SplitSet) /\ Len(t.splits) = Len(p) - 1 /\ NoTwins(t.panes) /\ NoTwins(t.splits)
  BY GoodHas DEF Good
<1>1. NoTwins(p)
  BY <1>0 DEF NoTwins
<1>2. Good(r) /\ r.panes = p /\ r.splits = t.splits
  BY <1>0, <1>1, MakesGood
<1> HIDE DEF r
<1>3. Panes(r) = Panes(t) /\ SplitIds(r) = SplitIds(t)
  <2>1. Panes(r) = {p[i].id : i \in 1 .. Len(p)} /\ Panes(t) = {t.panes[i].id : i \in 1 .. Len(p)}
    BY <1>0, <1>2, PanesAre
  <2> QED BY <2>1, <1>2 DEF SplitIds
<1>4. ASSUME NEW q \in Panes(r) PROVE q \in Panes(t) /\ Gains(LeafAt(t, q).tabs, LeafAt(r, q).tabs, <<>>)
  <2>1. PICK i \in 1 .. Len(p) : q = p[i].id /\ q = t.panes[i].id
    BY <1>0, <1>2, PanesAre
  <2>2. LeafAt(t, q) = t.panes[i]
    BY <2>1, <1>0, LeafIs
  <2>3. LeafAt(r, q) = p[i]
    BY <2>1, <1>0, <1>2, LeafIs
  <2> QED BY <2>2, <2>3, <1>3
<1>5. Nodes(r) = Nodes(t)
  BY <1>3 DEF Nodes
<1>6. Yields(t, r, lo, hi, <<>>)
  <2>1. None \notin Panes(r)
    BY <1>2, LeafIs DEF PaneId, None
  <2>2. /\ \A id \in Nodes(r) \ Nodes(t) : lo < id[2] /\ id[2] <= hi
        /\ \A q \in Panes(r) \ {None} : q \in Panes(t) /\ Gains(LeafAt(t, q).tabs, LeafAt(r, q).tabs, <<>>)
        /\ None \in Panes(r) => Gains(Before(t, None), LeafAt(r, None).tabs, <<>>)
    BY <1>4, <1>5, <2>1
  <2> QED BY <2>2, <1>2, LeafwiseBecomes
<1> QED BY <1>2, <1>3, <1>6 DEF r

LEMMA NothingKept ==
  ASSUME NEW s PROVE Gains(s, <<>>, <<>>)
BY NoTabs DEF Gains

\* Every pane is emptied.
LEMMA ClearAllTabsIs ==
  ASSUME NEW t, Good(t), NEW lo, NEW hi
  PROVE  LET r == ClearAllTabs(t)
         IN /\ Yields(t, r, lo, hi, <<>>) /\ Panes(r) = Panes(t) /\ SplitIds(r) = SplitIds(t)
            /\ TabIds(r) = {}
<1> DEFINE p == [i \in DOMAIN t.panes |-> Leaf(t.panes[i].id, <<>>, None)]
           r == Tree(p, t.splits)
<1>0. Len(t.panes) \in Nat /\ DOMAIN t.panes = 1 .. Len(t.panes) /\ \A i \in 1 .. Len(t.panes) : t.panes[i].id \in PaneId
  BY GoodHas DEF LeafSet
<1>1. \A i \in 1 .. Len(t.panes) : /\ p[i] \in LeafSet /\ LeafOK(p[i]) /\ p[i].id = t.panes[i].id /\ p[i].tabs = <<>>
  <2>1. ASSUME NEW i \in 1 .. Len(t.panes)
        PROVE  /\ p[i] \in LeafSet /\ LeafOK(p[i]) /\ p[i].id = t.panes[i].id /\ p[i].tabs = <<>>
    <3>1. p[i] = Leaf(t.panes[i].id, <<>>, None)
      BY <1>0
    <3>2. t.panes[i].id \in PaneId /\ <<>> \in Seq(SideTab)
      BY <1>0
    <3> DEFINE l == Leaf(t.panes[i].id, <<>>, None)
    <3>3. l \in LeafSet /\ LeafOK(l) /\ l.id = t.panes[i].id /\ l.tabs = <<>>
      BY <3>2 DEF Leaf, LeafSet, LeafOK
    <3> HIDE DEF p, l
    <3>4. p[i] = l
      BY <3>1 DEF l
    <3> QED BY <3>3, <3>4
  <2> HIDE DEF p
  <2> QED BY <2>1
<1>2. p \in Seq(LeafSet) /\ Len(p) = Len(t.panes)
  <2>1. p \in [1 .. Len(t.panes) -> LeafSet]
    BY <1>0, <1>1
  <2> HIDE DEF p
  <2> QED BY <2>1, <1>0, IsASeq
<1> HIDE DEF p
<1>3. \A i \in 1 .. Len(p) : Gains(t.panes[i].tabs, p[i].tabs, <<>>)
  BY <1>1, <1>2, NothingKept
<1>4. \A i \in 1 .. Len(p) : LeafOK(p[i]) /\ p[i].id = t.panes[i].id
  BY <1>1, <1>2
<1>5. /\ Yields(t, r, lo, hi, <<>>) /\ Panes(r) = Panes(t) /\ SplitIds(r) = SplitIds(t)
      /\ r.panes = p
  BY <1>2, <1>3, <1>4, PaneByPane
<1>6. r = ClearAllTabs(t)
  BY DEF ClearAllTabs, p
<1> HIDE DEF r
<1>7. TabIds(r) = {}
  <2>1. DOMAIN r.panes = 1 .. Len(t.panes) /\ \A i \in 1 .. Len(t.panes) : r.panes[i].tabs = <<>>
    BY <1>1, <1>2, <1>5
  <2> QED BY <2>1, NoTabs DEF TabIds
<1> QED BY <1>5, <1>6, <1>7

LEMMA MigrateStep ==
  ASSUME LayoutInv, edits' \in 0..MaxEdits, Migrate
  PROVE  LayoutInv'
<1> DEFINE target == FirstLeaf(right)
           row == TabsIn(bottom)
           by == [target EXCEPT !.tabs = @ \o row]
<1>0. /\ narrow /\ merged' = TRUE /\ UNCHANGED <<floats, counter, gitChecked, panelOpen, narrow>>
      /\ NeedsMerge =>
           /\ right' = MapLeaf(right, target.id, by)
           /\ bottom' = IF row = <<>> THEN bottom ELSE ClearAllTabs(bottom)
           /\ activePane' = target.id /\ bottomOpen' = FALSE
      /\ ~NeedsMerge => UNCHANGED <<right, bottom, activePane, bottomOpen>>
  BY DEF Migrate
<1>1. /\ LayoutShape /\ NamedPlaced /\ Good(right) /\ Good(bottom) /\ activePane \in PaneId
      /\ floats \in Seq(FloatSet) /\ counter \in Number /\ counter \in Nat
  BY Typed
<1>2. Flags'
  BY <1>0, Typed DEF Flags
<1>3. FloatTabs' = FloatTabs
  BY <1>0, SameWindows
<1>4. /\ row \in Seq(SideTab) /\ Ids(row) = TabIds(bottom) /\ \A x : Once(bottom, x) => OnceIn(row, x)
      /\ row = <<>> <=> TabIds(bottom) = {}
  BY <1>1, TabsInIs
<1>5. CASE ~NeedsMerge
  <2>1. TabIds(bottom) = {} /\ activePane \notin Panes(bottom)
    <3>1. row = <<>> /\ ~InBottom(activePane)
      BY <1>5 DEF NeedsMerge
    <3> HIDE DEF row
    <3> QED BY <3>1, <1>4, <1>1, TreeOfIs
  <2>2. UNCHANGED <<right, bottom, activePane, bottomOpen>>
    BY <1>0, <1>5
  <2>3. LayoutShape'
    BY <1>0, <1>1, <1>2, <2>2 DEF LayoutShape, Flags
  <2>4. NamedPlaced'
    <3>1. SUFFICES ASSUME NEW x \in Named PROVE Placed(right', bottom', FloatTabs', x)
      BY DEF NamedPlaced, Named
    <3> QED BY <1>1, <1>3, <2>2 DEF NamedPlaced
  <2>5. Narrowed'
    BY <2>1, <2>2 DEF Narrowed
  <2> QED BY <2>3, <2>4, <2>5 DEF LayoutInv
<1>6. CASE NeedsMerge
  <2>0. /\ right' = MapLeaf(right, target.id, by)
        /\ bottom' = IF row = <<>> THEN bottom ELSE ClearAllTabs(bottom)
        /\ activePane' = target.id
    BY <1>0, <1>6
  <2>1. target \in LeafSet /\ target.id \in Panes(right) /\ target = LeafAt(right, target.id) /\ LeafOK(target) /\ target.id \in PaneId
    BY <1>1, FirstLeafIs, LeafIs
  <2> HIDE DEF row, target
  <2>2. /\ target.tabs \o row \in Seq(SideTab) /\ Ids(target.tabs \o row) = Ids(target.tabs) \cup Ids(row)
        /\ Gains(target.tabs, target.tabs \o row, row)
    <3>1. target.tabs \in Seq(SideTab)
      BY <2>1 DEF LeafSet
    <3> QED BY <3>1, <1>4, GainsTabs
  <2>3. by \in LeafSet /\ by.id = target.id /\ by.tabs = target.tabs \o row /\ by.active = target.active
    BY <2>1, <2>2 DEF LeafSet
  <2>4. LeafOK(by)
    BY <2>1, <2>2, <2>3 DEF LeafOK
  <2> HIDE DEF by
  <2>5. Yields(right, right', 0, 0, row) /\ Panes(right') = Panes(right) /\ SplitIds(right') = SplitIds(right)
    <3>1. by.id \in Panes(right) => Gains(LeafAt(right, by.id).tabs, by.tabs, row)
      BY <2>1, <2>2, <2>3
    <3>2. right' = MapLeaf(right, by.id, by)
      BY <2>0, <2>3
    <3> QED BY <3>1, <3>2, <1>1, <2>3, <2>4, MapLeafBecomes
  <2>6. /\ Yields(bottom, bottom', 0, 0, <<>>) /\ Panes(bottom') = Panes(bottom) /\ SplitIds(bottom') = SplitIds(bottom)
        /\ TabIds(bottom') = {}
    <3>1. CASE row = <<>>
      BY <3>1, <2>0, <1>1, <1>4, BecomesItself
    <3>2. CASE row # <<>>
      <4>1. bottom' = ClearAllTabs(bottom)
        BY <3>2, <2>0
      <4> QED BY <4>1, <1>1, ClearAllTabsIs
    <3> QED BY <3>1, <3>2
  <2>7. Nodes(right') = Nodes(right) /\ Nodes(bottom') = Nodes(bottom) /\ Good(right') /\ Good(bottom')
    BY <2>5, <2>6 DEF Nodes, Yields
  <2>8. LayoutShape'
    <3>1. counter' \in Number /\ counter <= counter' /\ activePane' \in PaneId /\ floats' \in Seq(FloatSet)
      BY <1>0, <1>1, <2>0, <2>1
    <3>2. /\ \A x \in Nodes(right') \ Nodes(right) : counter < x[2] /\ x[2] <= counter'
          /\ \A x \in Nodes(bottom') \ Nodes(bottom) : counter < x[2] /\ x[2] <= counter'
          /\ Nodes(right') \subseteq Nodes(right) \/ Nodes(bottom') \subseteq Nodes(bottom)
      BY <2>7
    <3> QED BY <1>1, <1>2, <2>7, <3>1, <3>2, ShapeStep
  <2>9. NamedPlaced'
    <3>1. SUFFICES ASSUME NEW x \in Named PROVE Placed(right', bottom', FloatTabs', x)
      BY DEF NamedPlaced, Named
    <3>2. Placed(right, bottom, FloatTabs, x)
      BY <1>1 DEF NamedPlaced
    <3>3. Placed(right, bottom', FloatTabs, x)
      <4>1. Yields(right, right, 0, 0, <<>>) /\ Gains(FloatTabs, FloatTabs, <<>>)
        BY <1>1, BecomesItself, GainsNone
      <4> QED BY <4>1, <3>2, <2>6, PlacedFewer
    <3>4. /\ OnceIn(row, x)
          /\ x \in Ids(row) => x \notin TabIds(right) /\ x \notin TabIds(bottom') /\ x \notin Ids(FloatTabs)
      BY <3>2, <1>4, <2>6 DEF Placed
    <3>5. Placed(right', bottom', FloatTabs, x)
      BY <3>3, <3>4, <2>5, PlacedGain
    <3> QED BY <3>5, <1>3
  <2>10. Narrowed'
    <3>1. target.id \notin Panes(bottom)
      BY <1>1, <2>1, TreeOfIs
    <3> QED BY <3>1, <2>0, <2>6 DEF Narrowed
  <2> QED BY <2>8, <2>9, <2>10 DEF LayoutInv
<1> QED BY <1>5, <1>6

\* Tabs join in two goes.
LEMMA GainsTwice ==
  ASSUME NEW s, NEW m, NEW u, NEW a, NEW b, NEW c, Gains(s, m, a), Gains(m, u, b), Ids(c) = Ids(a) \cup Ids(b),
         \A x : OnceIn(a, x) /\ OnceIn(b, x), Ids(a) \cap Ids(b) = {}
  PROVE  Gains(s, u, c)
BY DEF Gains

\* The pane gains the default tabs c, of which the files window may be open already.
GitAdded(pane, c, by) ==
  /\ pane \in Panes(right) \cup Panes(bottom)
  /\ narrow /\ merged => pane \in Panes(right)
  /\ by \in LeafSet /\ LeafOK(by) /\ by.id = pane
  /\ Has(TreeOf(pane), pane) \subseteq Ids(by.tabs) /\ Gains(LeafAt(TreeOf(pane), pane).tabs, by.tabs, c)
  /\ \A x \in Named : /\ OnceIn(c, x)
                      /\ x \in Ids(c) => x \notin TabIds(right) /\ x \notin TabIds(bottom) /\ x \notin Ids(FloatTabs)
  /\ SetTree(InBottom(pane), MapLeaf(TreeOf(pane), pane, by)) /\ activePane' = pane

LEMMA GitDefaultsIs ==
  ASSUME LayoutInv, NEW hasGit \in BOOLEAN, GitDefaults(hasGit)
  PROVE  UNCHANGED <<right, bottom, activePane>> \/ \E pane, c, by : GitAdded(pane, c, by)
<1> DEFINE homes == {i \in DOMAIN OpenTabs : IsHome(OpenTabs[i])}
           files == OpenTabs[Min(homes)].id
           dockedHome == homes # {} /\ Docked(files)
           pane == IF dockedHome THEN PaneOfTab(files).id ELSE LandingPane(activePane)
           leaf == LeafAt(TreeOf(pane), pane)
           home == IF homes = {} THEN <<HomeTab(Home)>> ELSE <<>>
           editor == IF dockedHome THEN files ELSE LastId(home)
           git == IF GitTab.id \in Ids(OpenTabs) THEN <<>> ELSE <<GitTab>>
           grown == leaf.tabs \o home
           shown == {i \in DOMAIN grown : grown[i].id = editor}
           tabs == IF git = <<>> THEN grown
                   ELSE IF shown = {} THEN grown \o git ELSE InsertAt(grown, Min(shown) + 1, GitTab)
           active == IF shown # {} THEN editor
                     ELSE IF leaf.active = None /\ git # <<>> THEN GitTab.id ELSE leaf.active
           by == Leaf(pane, tabs, active)
           t == TreeOf(pane)
           r == MapLeaf(t, pane, by)
<1>0. \/ UNCHANGED <<right, bottom, activePane>>
      \/ SetTree(InBottom(pane), r) /\ activePane' = pane
  BY DEF GitDefaults
<1>2. LayoutShape /\ Narrowed
  BY Typed
<1>5. CASE SetTree(InBottom(pane), r) /\ activePane' = pane
  <2>1. /\ pane \in Panes(right) \cup Panes(bottom) /\ pane \in PaneId
        /\ narrow /\ merged => pane \in Panes(right)
    <3>1. CASE dockedHome
      <4> HIDE DEF files, homes
      <4>1. Docked(files) /\ pane = PaneOfTab(files).id
        BY <3>1
      <4>2. /\ PaneOfTab(files).id \in Panes(right) \cup Panes(bottom) /\ PaneOfTab(files).id \in PaneId
            /\ files \in TabIds(right) => PaneOfTab(files).id \in Panes(right)
        BY <4>1, <1>2, PaneOfTabIs
      <4>3. narrow /\ merged => files \in TabIds(right)
        BY <4>1, <1>2 DEF Docked, Narrowed
      <4> QED BY <4>1, <4>2, <4>3
    <3>2. CASE ~dockedHome
      <4> HIDE DEF files, homes
      <4>1. pane = LandingPane(activePane)
        BY <3>2
      <4>2. narrow /\ merged => activePane \notin Panes(bottom)
        BY <1>2 DEF Narrowed
      <4> QED BY <4>1, <4>2, <1>2, LandingPaneIs
    <3> QED BY <3>1, <3>2
  <2>2. (\A x : OnceIn(home, x)) /\ home \in Seq(SideTab) /\ Ids(home) \subseteq {Home}
    <3>1. HomeTab(Home) \in SideTab /\ HomeTab(Home).id = Home
      <4>1. "home" \in File \cup {"home"} OBVIOUS
      <4>2. TabOf(<<"editor", "home">>, "editor", "home") \in {TabOf(<<"editor", f>>, "editor", f) : f \in File \cup {"home"}}
        BY <4>1
      <4>3. HomeTab(Home) = TabOf(<<"editor", "home">>, "editor", "home")
        BY DEF HomeTab, Home
      <4>4. HomeTab(Home).id = Home
        BY DEF HomeTab, TabOf
      <4> QED BY <4>2, <4>3, <4>4 DEF SideTab
    <3>2. Ids(<<HomeTab(Home)>>) = {Home} /\ (\A x : OnceIn(<<HomeTab(Home)>>, x)) /\ <<HomeTab(Home)>> \in Seq(SideTab)
      BY <3>1, Lone
    <3> HIDE DEF homes
    <3> QED BY <3>2, NoTabs
  <2>3. (\A x : OnceIn(git, x)) /\ git \in Seq(SideTab) /\ Ids(git) \subseteq {GitTab.id}
        /\ (git = <<>> \/ git = <<GitTab>>) /\ (git # <<>> => GitTab.id \notin Ids(OpenTabs) /\ Ids(git) = {GitTab.id})
        /\ GitTab \in SideTab
    <3>1. GitTab \in SideTab
      BY DEF SideTab
    <3>2. Ids(<<GitTab>>) = {GitTab.id} /\ (\A x : OnceIn(<<GitTab>>, x)) /\ <<GitTab>> \in Seq(SideTab)
      BY <3>1, Lone
    <3> QED BY <3>1, <3>2, NoTabs
  <2> HIDE DEF pane, homes, home, git, files, editor
  <2>4. /\ pane \in Panes(t) /\ Good(t) /\ t = (IF InBottom(pane) THEN bottom ELSE right)
        /\ InBottom(pane) \in BOOLEAN
        /\ pane \in Panes(right) => ~InBottom(pane) /\ pane \notin Panes(bottom)
    BY <2>1, <1>2, TreeOfIs DEF TreeOf, InBottom
  <2>5. leaf = LeafAt(t, pane) /\ leaf \in LeafSet /\ LeafOK(leaf) /\ leaf.tabs \in Seq(SideTab)
    <3>1. leaf \in LeafSet /\ LeafOK(leaf)
      BY <2>4, LeafIs
    <3> QED BY <3>1 DEF LeafSet
  <2> HIDE DEF leaf, t
  <2>6. grown \in Seq(SideTab) /\ Ids(grown) = Ids(leaf.tabs) \cup Ids(home) /\ Gains(leaf.tabs, grown, home)
    BY <2>2, <2>5, GainsTabs
  <2> HIDE DEF grown
  <2>7. tabs \in Seq(SideTab) /\ Ids(tabs) = Ids(grown) \cup Ids(git) /\ Gains(grown, tabs, git)
    <3>1. CASE git = <<>>
      <4>1. tabs = grown BY <3>1
      <4> HIDE DEF tabs
      <4> QED BY <4>1, <3>1, <2>6, NoTabs, GainsNone
    <3>2. CASE git # <<>> /\ shown = {}
      <4>1. tabs = grown \o git BY <3>2
      <4> HIDE DEF tabs
      <4> QED BY <4>1, <2>3, <2>6, GainsTabs
    <3>3. CASE git # <<>> /\ shown # {}
      <4>1. tabs = InsertAt(grown, Min(shown) + 1, GitTab) BY <3>3
      <4>2. DOMAIN grown = 1 .. Len(grown) /\ Len(grown) \in Nat
        BY <2>6
      <4>3. shown \in SUBSET Nat /\ shown \subseteq 1 .. Len(grown)
        BY <4>2
      <4> HIDE DEF tabs, shown
      <4>4. Min(shown) \in 1 .. Len(grown)
        BY <4>3, <3>3, MinIs
      <4>5. Min(shown) + 1 \in 1 .. Len(grown) + 1
        BY <4>2, <4>4
      <4>6. git = <<GitTab>> /\ Ids(git) = {GitTab.id}
        BY <2>3, <3>3
      <4> QED BY <4>1, <4>5, <4>6, <2>3, <2>6, GainsTab
    <3> QED BY <3>1, <3>2, <3>3
  <2>8. active = None \/ active \in Ids(tabs)
    <3>1. CASE shown # {}
      <4>1. active = editor BY <3>1
      <4>2. editor \in Ids(grown) BY <3>1 DEF Ids
      <4> HIDE DEF active, tabs
      <4> QED BY <4>1, <4>2, <2>7
    <3>2. CASE shown = {} /\ leaf.active = None /\ git # <<>>
      <4>1. active = GitTab.id BY <3>2
      <4> HIDE DEF active, tabs
      <4> QED BY <4>1, <3>2, <2>3, <2>7
    <3>3. CASE shown = {} /\ ~(leaf.active = None /\ git # <<>>)
      <4>1. active = leaf.active BY <3>3
      <4> HIDE DEF active, tabs
      <4> QED BY <4>1, <2>5, <2>6, <2>7 DEF LeafOK
    <3> QED BY <3>1, <3>2, <3>3
  <2> DEFINE c == home \o git
  <2> HIDE DEF tabs, active
  <2>9. by \in LeafSet /\ LeafOK(by) /\ by.id = pane /\ by.tabs = tabs
    BY <2>1, <2>7, <2>8, MakesLeaf
  <2>10. Ids(home) \cap Ids(git) = {}
    BY <2>2, <2>3 DEF Home, GitTab, TabOf
  <2>11. Ids(c) = Ids(home) \cup Ids(git) /\ \A x : OnceIn(c, x)
    <3>1. Ids(c) = Ids(home) \cup Ids(git) /\ Gains(home, c, git)
      BY <2>2, <2>3, GainsTabs
    <3> HIDE DEF c
    <3> QED BY <3>1, <2>2, <2>3, <2>10 DEF Gains
  <2> HIDE DEF by, c
  <2>12. Gains(leaf.tabs, tabs, c)
    BY <2>2, <2>3, <2>6, <2>7, <2>10, <2>11, GainsTwice
  <2>13. r = MapLeaf(t, pane, by) /\ Ids(leaf.tabs) \subseteq Ids(by.tabs)
    BY <2>6, <2>7, <2>9
  <2>14. Ids(OpenTabs) = TabIds(right) \cup TabIds(bottom) \cup Ids(FloatTabs)
    BY <1>2, OpenTabsAre
  <2>15. \A x \in Named : /\ OnceIn(c, x)
                          /\ x \in Ids(c) => /\ x \notin TabIds(right) /\ x \notin TabIds(bottom)
                                             /\ x \notin Ids(FloatTabs)
    <3>1. \A x \in Named : x \in Ids(c) => x = GitTab.id /\ git # <<>>
      BY <2>2, <2>3, <2>11, NamedIds, NoTabs
    <3> QED BY <3>1, <2>3, <2>11, <2>14
  <2> HIDE DEF r
  <2>16. GitAdded(pane, c, by)
    BY <1>5, <2>1, <2>5, <2>9, <2>12, <2>13, <2>15 DEF GitAdded, Has, t
  <2> QED BY <2>16
<1> QED BY <1>0, <1>5

LEMMA GitDefaultsStep ==
  ASSUME LayoutInv, edits' \in 0..MaxEdits, NEW hasGit \in BOOLEAN, GitDefaults(hasGit)
  PROVE  LayoutInv'
<1>1. UNCHANGED <<floats, counter, panelOpen, bottomOpen, narrow, merged>> /\ gitChecked' = TRUE
  BY DEF GitDefaults
<1>2. LayoutShape /\ Narrowed /\ activePane \in PaneId /\ counter \in Number /\ counter \in Nat
  BY Typed
<1>3. Flags'
  BY <1>1, Typed DEF Flags
<1>4. floats' \in Seq(FloatSet) /\ Gains(FloatTabs, FloatTabs', <<>>) /\ FloatTabs' = FloatTabs
  BY <1>1, SameWindows
<1>5. CASE UNCHANGED <<right, bottom, activePane>>
  <2>1. narrow /\ merged => activePane' \notin Panes(bottom)
    BY <1>2, <1>5 DEF Narrowed
  <2> QED BY <2>1, <1>1, <1>2, <1>3, <1>4, <1>5, NoTree
<1>6. ASSUME NEW pane, NEW c, NEW by, GitAdded(pane, c, by) PROVE LayoutInv'
  <2> DEFINE t == TreeOf(pane)
             r == MapLeaf(t, by.id, by)
  <2>1. /\ pane \in Panes(right) \cup Panes(bottom) /\ (narrow /\ merged => pane \in Panes(right))
        /\ by \in LeafSet /\ LeafOK(by) /\ Gains(LeafAt(t, by.id).tabs, by.tabs, c)
        /\ SetTree(InBottom(pane), r) /\ activePane' = pane
    BY <1>6 DEF GitAdded
  <2>2. /\ Good(t) /\ t = (IF InBottom(pane) THEN bottom ELSE right) /\ pane \in PaneId
        /\ InBottom(pane) \in BOOLEAN
        /\ pane \in Panes(right) => ~InBottom(pane) /\ pane \notin Panes(bottom)
    BY <2>1, <1>2, TreeOfIs DEF TreeOf, InBottom
  <2> HIDE DEF t
  <2>3. Yields(t, r, counter, counter', c)
    BY <2>1, <2>2, MapLeafBecomes
  <2> HIDE DEF r
  <2>4. \A x \in Named : /\ OnceIn(c, x)
                         /\ x \in Ids(c) => /\ x \notin TabIds(right) /\ x \notin TabIds(bottom)
                                            /\ x \notin Ids(FloatTabs')
    BY <1>4, <1>6 DEF GitAdded
  <2>5. counter' \in Number /\ counter <= counter' /\ activePane' \in PaneId
        /\ (narrow /\ merged => ~InBottom(pane) /\ activePane' \notin Panes(bottom))
    BY <1>1, <1>2, <2>1, <2>2
  <2>6. Yields(IF InBottom(pane) THEN bottom ELSE right, r, counter, counter', c)
    BY <2>2, <2>3
  <2> QED BY <1>1, <1>3, <1>4, <2>1, <2>2, <2>4, <2>5, <2>6, OneTree
<1> QED BY <1>5, <1>6, GitDefaultsIs

\* What a tab's end makes of a tree.
Deprived(t, id) == IF id \in TabIds(t) THEN TakeOut(t, LeafWithTab(t, id).id, id) ELSE t

\* A terminal's end takes its tab from the tree and no other.
LEMMA DeprivedIs ==
  ASSUME NEW t, Good(t), NEW id
  PROVE  LET r == Deprived(t, id)
         IN /\ Yields(t, r, 0, 0, <<>>) /\ Nodes(r) \subseteq Nodes(t)
            /\ TabIds(t) \ {id} \subseteq TabIds(r)
            /\ Once(t, id) => id \notin TabIds(r)
<1> DEFINE pane == LeafWithTab(t, id).id
           r == TakeOut(t, pane, id)
<1>0. Good(t)
  OBVIOUS
<1>1. CASE id \notin TabIds(t)
  <2>1. Deprived(t, id) = t
    BY <1>1 DEF Deprived
  <2> QED BY <2>1, <1>1, BecomesItself
<1>2. CASE id \in TabIds(t)
  <2>1. Deprived(t, id) = r
    BY <1>2 DEF Deprived
  <2>2. pane \in Panes(t) /\ id \in Has(t, pane)
    BY <1>2, LeafWithTabIs
  <2> HIDE DEF pane
  <2>3. /\ Yields(t, r, 0, 0, <<>>) /\ Panes(r) \subseteq Panes(t) /\ SplitIds(r) \subseteq SplitIds(t)
        /\ \A p \in Panes(t) \ {pane} : p \in Panes(r) /\ LeafAt(r, p) = LeafAt(t, p)
        /\ pane \in Panes(r) => LeafAt(r, pane).tabs = Without(LeafAt(t, pane).tabs, id)
        /\ pane \in Panes(t) \ Panes(r) => Without(LeafAt(t, pane).tabs, id) = <<>>
        /\ pane \in Panes(t) /\ Once(t, id) /\ id \in Has(t, pane) => id \notin TabIds(r)
    BY <1>0, TakeOutIs, Zenon
  <2> HIDE DEF r
  <2>4. Good(r)
    BY <2>3 DEF Yields
  <2>5. Ids(Without(LeafAt(t, pane).tabs, id)) = Has(t, pane) \ {id}
    BY <2>2, HasTabs, WithoutIs DEF Has
  <2>6. ASSUME NEW p \in Panes(t), NEW x \in Has(t, p), x # id PROVE x \in TabIds(r)
    <3>1. CASE p # pane
      <4>1. p \in Panes(r) /\ Has(r, p) = Has(t, p)
        BY <3>1, <2>3 DEF Has
      <4> QED BY <4>1, <2>4, <2>6, HasTabs
    <3>2. CASE p = pane /\ pane \in Panes(r)
      <4>1. x \in Has(r, pane)
        BY <3>2, <2>3, <2>5, <2>6 DEF Has
      <4> QED BY <4>1, <3>2, <2>4, HasTabs
    <3>3. CASE p = pane /\ pane \notin Panes(r)
      <4>1. Ids(Without(LeafAt(t, pane).tabs, id)) = {}
        BY <3>3, <2>2, <2>3, NoTabs
      <4> QED BY <4>1, <3>3, <2>5, <2>6
    <3> QED BY <3>1, <3>2, <3>3
  <2>7. TabIds(t) \ {id} \subseteq TabIds(r)
    <3>1. TabIds(t) = UNION {Has(t, p) : p \in Panes(t)}
      BY TabIdsAre DEF Has
    <3> QED BY <3>1, <2>6
  <2> QED BY <2>1, <2>2, <2>3, <2>7 DEF Nodes
<1> QED BY <1>1, <1>2

\* What Dropped computes, step by step.
LEMMA DroppedUnfolds ==
  ASSUME NEW t, Good(t), NEW gone \in Seq(SideTab)
  PROVE  \E f : /\ \A n \in 0 .. Len(gone) : Yields(t, f[n], 0, 0, <<>>) /\ Nodes(f[n]) \subseteq Nodes(t)
                /\ Dropped(t, gone) = f[Len(gone)] /\ f[0] = t
                /\ \A n \in 1 .. Len(gone) : f[n] = Deprived(f[n - 1], gone[n].id)
<1> DEFINE N == Len(gone)
           V == {u \in TreeSet : Yields(t, u, 0, 0, <<>>) /\ Nodes(u) \subseteq Nodes(t)}
           F == [p \in (1 .. N) \X V |-> Deprived(p[2], gone[p[1]].id)]
           P(f) == f = [n \in 0 .. Len(gone) |->
                          IF n = 0 THEN t
                          ELSE IF gone[n].id \in TabIds(f[n - 1])
                            THEN TakeOut(f[n - 1], LeafWithTab(f[n - 1], gone[n].id).id, gone[n].id)
                          ELSE f[n - 1]]
<1>0. N \in Nat /\ t \in V
  BY BecomesItself DEF Good
<1>1. \A v \in V, n \in 1 .. N : Deprived(v, gone[n].id) \in V
  <2>1. SUFFICES ASSUME NEW v \in V, NEW x PROVE Deprived(v, x) \in V
    BY Zenon
  <2> DEFINE u == Deprived(v, x)
  <2>2. Good(v) /\ Yields(t, v, 0, 0, <<>>) /\ Nodes(v) \subseteq Nodes(t)
    BY DEF Yields
  <2>3. Yields(v, u, 0, 0, <<>>) /\ Nodes(u) \subseteq Nodes(v)
    BY <2>2, DeprivedIs
  <2> HIDE DEF u
  <2>4. Yields(t, u, 0, 0, <<>>)
    BY <2>2, <2>3, BecomesAfter
  <2>5. u \in TreeSet
    BY <2>4 DEF Yields, Good
  <2> QED BY <2>2, <2>3, <2>4, <2>5 DEF u
<1>2. F \in [(1 .. N) \X V -> V]
  <2> HIDE DEF V, N
  <2> QED BY <1>1
<1>3. PICK g : Computed(N, V, t, F, g)
  <2> HIDE DEF F, V, N
  <2> QED BY <1>0, <1>2, Recursion
<1>4. \A i \in 1 .. N : F[<<i, g[i - 1]>>] = Deprived(g[i - 1], gone[i].id)
  <2>1. \A i \in 1 .. N : g[i - 1] \in V
    BY <1>0, <1>3 DEF Computed
  <2> HIDE DEF V
  <2> QED BY <2>1
<1>5. P(g)
  <2>1. g \in [0 .. N -> V] /\ g[0] = t /\ \A n \in 1 .. N : g[n] = F[<<n, g[n - 1]>>]
    BY <1>3 DEF Computed
  <2> HIDE DEF F, V
  <2>2. ASSUME NEW n \in 0 .. Len(gone)
        PROVE  g[n] = IF n = 0 THEN t
                      ELSE IF gone[n].id \in TabIds(g[n - 1])
                        THEN TakeOut(g[n - 1], LeafWithTab(g[n - 1], gone[n].id).id, gone[n].id)
                      ELSE g[n - 1]
    <3>1. CASE n = 0 BY <2>1, <3>1
    <3>2. CASE n # 0
      <4>1. n \in 1 .. N BY <3>2, <1>0
      <4>2. g[n] = Deprived(g[n - 1], gone[n].id)
        BY <2>1, <1>4, <4>1
      <4> QED BY <4>2, <3>2 DEF Deprived
    <3> QED BY <3>1, <3>2
  <2> DEFINE h == [n \in 0 .. Len(gone) |->
                     IF n = 0 THEN t
                     ELSE IF gone[n].id \in TabIds(g[n - 1])
                       THEN TakeOut(g[n - 1], LeafWithTab(g[n - 1], gone[n].id).id, gone[n].id)
                     ELSE g[n - 1]]
  <2>3. \A n \in 0 .. Len(gone) : h[n] = g[n]
    BY <2>2, Zenon
  <2>4. DOMAIN h = 0 .. Len(gone) /\ h = [n \in 0 .. Len(gone) |-> h[n]]
    BY Zenon
  <2> HIDE DEF h
  <2>5. g = h
    BY <2>1, <2>3, <2>4, Zenon
  <2> QED BY <2>5, Zenon DEF h
<1>6. PICK f : P(f) /\ Dropped(t, gone) = f[Len(gone)]
  <2> DEFINE f == CHOOSE h : P(h)
  <2>1. P(f)
    <3> HIDE DEF P
    <3> QED BY <1>5
  <2>2. Dropped(t, gone) = f[Len(gone)]
    BY DEF Dropped
  <2> HIDE DEF P, f
  <2> QED BY <2>1, <2>2
<1>7. f[0] = t /\ \A n \in 1 .. N : f[n] = Deprived(f[n - 1], gone[n].id)
  <2>1. \A n \in 0 .. Len(gone) :
           f[n] = IF n = 0 THEN t
                  ELSE IF gone[n].id \in TabIds(f[n - 1])
                    THEN TakeOut(f[n - 1], LeafWithTab(f[n - 1], gone[n].id).id, gone[n].id)
                  ELSE f[n - 1]
    BY <1>6, Zenon
  <2> HIDE DEF F, V
  <2> QED BY <2>1, <1>0 DEF Deprived
<1>8. \A i \in 0 .. N : f[i] \in V
  <2>1. ASSUME NEW n \in 0 .. N - 1, f[n] \in V PROVE f[n + 1] \in V
    <3>1. n + 1 \in 1 .. N /\ (n + 1) - 1 = n BY <1>0
    <3> HIDE DEF V
    <3> QED BY <3>1, <2>1, <1>7, <1>1
  <2> HIDE DEF V, N
  <2> QED BY <1>0, <1>7, <2>1, RecursionStays
<1> QED BY <1>6, <1>7, <1>8

\* The tabs whose terminals are gone leave a tree, and nothing else does.
LEMMA DroppedIs ==
  ASSUME NEW t, Good(t), NEW gone \in Seq(SideTab)
  PROVE  LET r == Dropped(t, gone)
         IN /\ Yields(t, r, 0, 0, <<>>) /\ Nodes(r) \subseteq Nodes(t)
            /\ TabIds(t) \ Ids(gone) \subseteq TabIds(r)
            /\ \A x \in Ids(gone) : Once(t, x) => x \notin TabIds(r)
<1>1. PICK f : /\ \A n \in 0 .. Len(gone) : Yields(t, f[n], 0, 0, <<>>) /\ Nodes(f[n]) \subseteq Nodes(t)
               /\ Dropped(t, gone) = f[Len(gone)] /\ f[0] = t
               /\ \A n \in 1 .. Len(gone) : f[n] = Deprived(f[n - 1], gone[n].id)
  BY DroppedUnfolds
<1>2. Len(gone) \in Nat /\ DOMAIN gone = 1 .. Len(gone)
  OBVIOUS
<1> DEFINE S == {n \in 0 .. Len(gone) :
                   /\ TabIds(t) \ Ids(gone) \subseteq TabIds(f[n])
                   /\ \A m \in 1 .. n : Once(t, gone[m].id) => gone[m].id \notin TabIds(f[n])}
<1>3. 0 \in S
  BY <1>1, <1>2
<1>4. ASSUME NEW n \in 0 .. Len(gone) - 1, n \in S PROVE n + 1 \in S
  <2> DEFINE id == gone[n + 1].id
  <2>1. n + 1 \in 1 .. Len(gone) /\ (n + 1) - 1 = n /\ n \in 0 .. Len(gone)
    BY <1>2
  <2>2. f[n + 1] = Deprived(f[n], id) /\ Yields(t, f[n], 0, 0, <<>>)
    BY <2>1, <1>1
  <2>3. Good(f[n]) /\ (Once(t, id) => Once(f[n], id))
    BY <2>2, NoTabs DEF Yields
  <2>4. id \in Ids(gone)
    BY <2>1, <1>2 DEF Ids
  <2> HIDE DEF id
  <2>5. /\ Yields(f[n], f[n + 1], 0, 0, <<>>)
        /\ TabIds(f[n]) \ {id} \subseteq TabIds(f[n + 1])
        /\ Once(f[n], id) => id \notin TabIds(f[n + 1])
    BY <2>2, <2>3, DeprivedIs
  <2>6. TabIds(f[n + 1]) \subseteq TabIds(f[n])
    BY <2>5, NoTabs DEF Yields
  <2>7. ASSUME NEW m \in 1 .. n + 1, Once(t, gone[m].id) PROVE gone[m].id \notin TabIds(f[n + 1])
    <3>1. CASE m = n + 1
      BY <3>1, <2>3, <2>5, <2>7 DEF id
    <3>2. CASE m # n + 1
      <4>1. m \in 1 .. n
        BY <3>2, <2>1
      <4> QED BY <4>1, <2>6, <2>7, <1>4
    <3> QED BY <3>1, <3>2
  <2> QED BY <2>1, <2>4, <2>5, <2>7, <1>4
<1>5. Len(gone) \in S
  <2>1. \A n \in 0 .. Len(gone) - 1 : n \in S => n + 1 \in S
    BY <1>4
  <2> HIDE DEF S
  <2>2. \A n \in 0 .. Len(gone) : n \in S
    BY <1>2, <1>3, <2>1, Inductive
  <2> QED BY <2>2, <1>2
<1>6. Len(gone) \in 0 .. Len(gone)
  BY <1>2
<1>7. \A x \in Ids(gone) : \E m \in 1 .. Len(gone) : x = gone[m].id
  BY <1>2 DEF Ids
<1> QED BY <1>1, <1>5, <1>6, <1>7

\* A finite set in a row.
LEMMA SetToSeqIs ==
  ASSUME NEW S, IsFiniteSet(S)
  PROVE  LET s == SetToSeq(S) IN s \in Seq(S) /\ IsInjective(s) /\ \A x \in S : \E k \in DOMAIN s : s[k] = x
<1> DEFINE n == Cardinality(S)
           s == SetToSeq(S)
<1>1. n \in Nat /\ ExistsBijection(1 .. n, S)
  BY FS_CardinalityType
<1>2. \E f \in [1 .. n -> S] : IsInjective(f)
  BY <1>1 DEF ExistsBijection, Bijection, Injection
<1>3. s \in [1 .. n -> S] /\ IsInjective(s)
  BY <1>2, Zenon DEF SetToSeq
<1> HIDE DEF s
<1>4. s \in Injection(1 .. n, S)
  BY <1>3 DEF Injection
<1>5. Cardinality(1 .. n) = n
  <2> HIDE DEF n
  <2> QED BY <1>1, FS_Interval
<1> HIDE DEF n
<1>6. s \in Surjection(1 .. n, S)
  BY <1>4, <1>5, FS_Injection DEF n
<1>7. s \in Seq(S) /\ DOMAIN s = 1 .. n
  BY <1>1, <1>3, IsASeq
<1>8. \A x \in S : \E k \in DOMAIN s : s[k] = x
  BY <1>6, <1>7 DEF Surjection
<1> QED BY <1>3, <1>7, <1>8 DEF s

\* The tabs of a model's terminals are named after them.
LEMMA AgentTabIs ==
  ASSUME NEW tab \in SideTab
  PROVE  /\ tab.kind = "terminal" => tab.of \in Agent /\ tab = AgentTab(tab.of)
         /\ \A a : tab.id = <<"agent", a>> => tab = AgentTab(a) /\ a \in Agent
         /\ \A a : AgentTab(a).id = <<"agent", a>> /\ AgentTab(a).kind = "terminal" /\ AgentTab(a).of = a
BY DEF SideTab, TabOf, GitTab, DiffTab, AgentTab

LEMMA AgentTabsAre ==
  ASSUME NEW row \in Seq(SideTab)
  PROVE  AgentTabs(row) \in Seq(SideTab) /\ ToSet(AgentTabs(row)) = {t \in ToSet(row) : t.kind = "terminal"}
<1> DEFINE I == {i \in DOMAIN row : row[i].kind = "terminal"}
<1>1. Only(row, I) \in Seq(SideTab) /\ ToSet(Only(row, I)) = {row[i] : i \in I \cap DOMAIN row}
  BY OnlyKeeps
<1>2. AgentTabs(row) = Only(row, I)
  BY DEF AgentTabs
<1>3. {row[i] : i \in I \cap DOMAIN row} = {t \in ToSet(row) : t.kind = "terminal"}
  BY DEF ToSet
<1> QED BY <1>1, <1>2, <1>3

\* The tabs of the terminals that have vanished.
LEMMA VanishedIs ==
  ASSUME LayoutShape, NEW live
  PROVE  /\ Vanished(live) \in Seq(SideTab)
         /\ Ids(Vanished(live)) = {x \in Ids(OpenTabs) : \E a \in Agent \ live : x = <<"agent", a>>}
<1> DEFINE tabs == AgentTabs(OpenTabs)
           I == {i \in DOMAIN tabs : tabs[i].of \notin live}
           gone == Only(tabs, I)
<1>1. OpenTabs \in Seq(SideTab) /\ DOMAIN OpenTabs = 1 .. Len(OpenTabs)
  BY OpenTabsAre
<1>2. tabs \in Seq(SideTab) /\ ToSet(tabs) = {t \in ToSet(OpenTabs) : t.kind = "terminal"}
  BY <1>1, AgentTabsAre
<1>3. Vanished(live) = gone
  BY DEF Vanished
<1> HIDE DEF tabs
<1>4. gone \in Seq(SideTab) /\ Ids(gone) = {tabs[i].id : i \in I}
  <2>1. gone \in Seq(SideTab) /\ Ids(gone) = {tabs[i].id : i \in I \cap DOMAIN tabs}
    BY <1>2, OnlyKeeps
  <2> QED BY <2>1
<1> HIDE DEF gone
<1>5. \A i \in DOMAIN OpenTabs : OpenTabs[i] \in SideTab
  BY <1>1
<1>6. ASSUME NEW x \in Ids(gone) PROVE x \in Ids(OpenTabs) /\ \E a \in Agent \ live : x = <<"agent", a>>
  <2>1. PICK i \in DOMAIN tabs : x = tabs[i].id /\ tabs[i].of \notin live
    BY <1>4
  <2>2. tabs[i] \in ToSet(OpenTabs) /\ tabs[i].kind = "terminal"
    <3>1. tabs[i] \in ToSet(tabs)
      BY DEF ToSet
    <3> QED BY <3>1, <1>2
  <2>3. PICK j \in DOMAIN OpenTabs : tabs[i] = OpenTabs[j]
    BY <2>2 DEF ToSet
  <2>4. x \in Ids(OpenTabs)
    BY <2>1, <2>3 DEF Ids
  <2>5. tabs[i].of \in Agent /\ x = <<"agent", tabs[i].of>>
    <3>1. tabs[i].of \in Agent /\ tabs[i] = AgentTab(tabs[i].of)
      BY <2>2, <2>3, <1>5, AgentTabIs
    <3>2. tabs[i].id = <<"agent", tabs[i].of>>
      BY <3>1 DEF AgentTab, TabOf
    <3> QED BY <3>1, <3>2, <2>1
  <2> QED BY <2>1, <2>4, <2>5
<1>7. ASSUME NEW a \in Agent \ live, <<"agent", a>> \in Ids(OpenTabs) PROVE <<"agent", a>> \in Ids(gone)
  <2>1. PICK j \in DOMAIN OpenTabs : OpenTabs[j].id = <<"agent", a>>
    BY <1>7 DEF Ids
  <2>2. OpenTabs[j] = AgentTab(a)
    BY <2>1, <1>5, AgentTabIs
  <2>3. AgentTab(a) \in ToSet(tabs)
    <3>1. AgentTab(a).kind = "terminal"
      BY DEF AgentTab, TabOf
    <3>2. AgentTab(a) \in ToSet(OpenTabs)
      BY <2>2 DEF ToSet
    <3> QED BY <3>1, <3>2, <1>2
  <2>4. PICK i \in DOMAIN tabs : tabs[i] = AgentTab(a)
    BY <2>3 DEF ToSet
  <2>5. i \in I /\ tabs[i].id = <<"agent", a>>
    BY <2>4 DEF AgentTab, TabOf
  <2> QED BY <2>5, <1>4
<1> QED BY <1>3, <1>4, <1>6, <1>7

\* The tabs of the terminals that have none yet.
Missing(live) == {AgentTab(a) : a \in {b \in live : AgentTab(b).id \notin Ids(OpenTabs)}}

LEMMA FreshIs ==
  ASSUME NEW live \in SUBSET Agent
  PROVE  LET fresh == SetToSeq(Missing(live))
         IN /\ fresh \in Seq(SideTab)
            /\ Ids(fresh) = {x \in {<<"agent", a>> : a \in live} : x \notin Ids(OpenTabs)}
            /\ \A x : OnceIn(fresh, x)
            /\ fresh # <<>> => LastId(fresh) \in Ids(fresh)
<1> DEFINE S == Missing(live)
           T == {b \in live : AgentTab(b).id \notin Ids(OpenTabs)}
           fresh == SetToSeq(S)
           g == [a \in T |-> AgentTab(a)]
<1>1. IsFiniteSet(S)
  <2>1. IsFiniteSet(Agent) /\ T \subseteq Agent
    BY LayoutAssumption
  <2>2. IsFiniteSet(T)
    <3> HIDE DEF T
    <3> QED BY <2>1, FS_Subset
  <2>3. g \in Surjection(T, S)
    BY DEF Surjection, Missing
  <2> HIDE DEF T, S, g
  <2> QED BY <2>2, <2>3, FS_Surjection
<1>2. fresh \in Seq(S) /\ IsInjective(fresh) /\ \A x \in S : \E k \in DOMAIN fresh : fresh[k] = x
  <2> HIDE DEF S
  <2> QED BY <1>1, SetToSeqIs
<1>3. S \subseteq SideTab
  BY DEF SideTab, Missing
<1>4. \A x \in S : \E a \in T : x = AgentTab(a) /\ x.id = <<"agent", a>>
  BY DEF Missing, AgentTab, TabOf
<1>5. \A a \in T : AgentTab(a) \in S /\ AgentTab(a).id = <<"agent", a>>
  BY DEF Missing, AgentTab, TabOf
<1>6. \A a \in live : a \in T <=> <<"agent", a>> \notin Ids(OpenTabs)
  BY DEF AgentTab, TabOf
<1> HIDE DEF fresh, S
<1>7. fresh \in Seq(SideTab) /\ DOMAIN fresh = 1 .. Len(fresh) /\ Len(fresh) \in Nat /\ \A k \in DOMAIN fresh : fresh[k] \in S
  BY <1>2, <1>3
<1>8. Ids(fresh) = {x \in {<<"agent", a>> : a \in live} : x \notin Ids(OpenTabs)}
  <2> HIDE DEF T
  <2>1. ASSUME NEW k \in DOMAIN fresh PROVE fresh[k].id \in {x \in {<<"agent", a>> : a \in live} : x \notin Ids(OpenTabs)}
    <3>1. PICK a \in T : fresh[k].id = <<"agent", a>>
      BY <1>4, <1>7
    <3>2. a \in live
      BY DEF T
    <3> QED BY <3>1, <3>2, <1>6
  <2>2. ASSUME NEW a \in live, <<"agent", a>> \notin Ids(OpenTabs) PROVE \E k \in DOMAIN fresh : fresh[k].id = <<"agent", a>>
    <3>1. AgentTab(a) \in S /\ AgentTab(a).id = <<"agent", a>>
      BY <2>2, <1>5, <1>6
    <3> QED BY <3>1, <1>2
  <2> QED BY <2>1, <2>2 DEF Ids
<1>9. ASSUME NEW x PROVE OnceIn(fresh, x)
  <2>1. SUFFICES ASSUME NEW k \in DOMAIN fresh, NEW l \in DOMAIN fresh, fresh[k].id = x, fresh[l].id = x PROVE k = l
    BY DEF OnceIn
  <2> HIDE DEF T
  <2>2. PICK a \in T : fresh[k] = AgentTab(a) /\ fresh[k].id = <<"agent", a>>
    BY <1>4, <1>7
  <2>3. PICK c \in T : fresh[l] = AgentTab(c) /\ fresh[l].id = <<"agent", c>>
    BY <1>4, <1>7
  <2>4. a = c
    BY <2>1, <2>2, <2>3
  <2> QED BY <2>2, <2>3, <2>4, <1>2 DEF IsInjective
<1>10. fresh # <<>> => LastId(fresh) \in Ids(fresh)
  <2>1. SUFFICES ASSUME fresh # <<>> PROVE fresh[Len(fresh)].id \in Ids(fresh)
    BY DEF LastId
  <2>2. Len(fresh) \in DOMAIN fresh
    BY <1>7, <2>1
  <2> QED BY <2>2 DEF Ids
<1> QED BY <1>7, <1>8, <1>9, <1>10 DEF fresh, S

\* What a push of the host's list does: the tabs of the terminals that have
\* vanished leave the right tree, and the fresh ones make r of a tree.
Reconciled(live, tree, inBottom, r, fresh) ==
  /\ inBottom \in BOOLEAN /\ tree = Dropped(right, Vanished(live)) /\ fresh = SetToSeq(Missing(live))
  /\ Bereft(tree, bottom, FloatTabs', fresh)
  /\ Yields(IF inBottom THEN bottom ELSE tree, r, counter, counter', fresh)
  /\ TabIds(r) = TabIds(IF inBottom THEN bottom ELSE tree) \cup Ids(fresh)
  /\ right' = (IF inBottom THEN tree ELSE r) /\ bottom' = (IF inBottom THEN r ELSE bottom)
  /\ counter' = counter /\ floats' \in Seq(FloatSet)
  /\ Ids(FloatTabs') = Ids(FloatTabs) \ Ids(Vanished(live))
  /\ ToSet(FloatTabs') \subseteq ToSet(FloatTabs)
  /\ activePane' \in PaneId /\ Flags' /\ UNCHANGED <<narrow, merged>>
  /\ (narrow /\ merged => ~inBottom /\ activePane' \notin Panes(bottom))

\* A push of the host's list: the right tree without the tabs of the ended
\* terminals, then the new tabs in the pane in use.
LEMMA ReconcileIs ==
  ASSUME LayoutInv, NEW live \in SUBSET Agent, Reconcile(live)
  PROVE  \E tree, inBottom, r, fresh : Reconciled(live, tree, inBottom, r, fresh)
<1> DEFINE gone == Vanished(live)
           fresh == SetToSeq(Missing(live))
           tree == Dropped(right, gone)
           pane == IF activePane \in Panes(tree) \cup Panes(bottom) THEN activePane ELSE FirstLeaf(tree).id
           I == {i \in DOMAIN floats : floats[i].tab.id \notin Ids(gone)}
           adds == fresh # <<>>
           inBottom == pane \in Panes(bottom)
           t == IF inBottom THEN bottom ELSE tree
           by == Leaf(pane, LeafAt(t, pane).tabs \o fresh, LastId(fresh))
           r == IF adds THEN MapLeaf(t, pane, by) ELSE t
<1>1. /\ LayoutShape /\ NamedPlaced /\ Narrowed /\ Good(right) /\ Good(bottom) /\ counter \in Number /\ counter \in Nat
      /\ floats \in Seq(FloatSet) /\ activePane \in PaneId
  BY Typed
<1>2. /\ counter' = counter /\ floats' = Only(floats, I)
      /\ UNCHANGED <<gitChecked, panelOpen, bottomOpen, narrow, merged>>
      /\ right' = (IF adds /\ pane \in Panes(tree) THEN MapLeaf(tree, pane, Leaf(pane, LeafAt(tree, pane).tabs \o fresh, LastId(fresh))) ELSE tree)
      /\ bottom' = (IF adds /\ pane \in Panes(bottom) THEN MapLeaf(bottom, pane, Leaf(pane, LeafAt(bottom, pane).tabs \o fresh, LastId(fresh))) ELSE bottom)
      /\ activePane' = (IF adds THEN pane ELSE activePane)
  BY DEF Reconcile, Same, Missing
<1>3. gone \in Seq(SideTab)
  BY <1>1, VanishedIs
<1>4. /\ fresh \in Seq(SideTab) /\ \A x : OnceIn(fresh, x)
      /\ Ids(fresh) \cap Ids(OpenTabs) = {}
      /\ fresh # <<>> => LastId(fresh) \in Ids(fresh)
  BY FreshIs
<1> HIDE DEF gone, fresh
<1>5. Yields(right, tree, 0, 0, <<>>) /\ Nodes(tree) \subseteq Nodes(right) /\ Good(tree)
  BY <1>1, <1>3, DroppedIs DEF Yields
<1> HIDE DEF tree
<1>6. /\ floats' \in Seq(FloatSet) /\ Gains(FloatTabs, FloatTabs', <<>>)
      /\ Ids(FloatTabs') = {floats[i].tab.id : i \in I \cap DOMAIN floats}
  <2> HIDE DEF I
  <2>1. floats' \in Seq(FloatSet) /\ Gains(WindowTabs(floats), WindowTabs(floats'), <<>>)
        /\ Ids(WindowTabs(floats')) = {floats[i].tab.id : i \in I \cap DOMAIN floats}
    BY <1>1, <1>2, OnlyWindows
  <2> QED BY <2>1, WindowsNow
<1>7. Ids(FloatTabs') = Ids(FloatTabs) \ Ids(gone)
  <2>1. Ids(FloatTabs) = {floats[i].tab.id : i \in DOMAIN floats}
    BY <1>1, WindowTabsAre, WindowsNow
  <2> QED BY <1>6, <2>1
<1>8. ToSet(FloatTabs') \subseteq ToSet(FloatTabs)
  <2>1. ToSet(floats') = {floats[i] : i \in I \cap DOMAIN floats}
    <3> HIDE DEF I
    <3> QED BY <1>1, <1>2, OnlyKeeps
  <2>2. \A i \in DOMAIN floats' : \E k \in DOMAIN floats : floats'[i] = floats[k]
    BY <2>1 DEF ToSet
  <2> QED BY <2>2 DEF ToSet, FloatTabs
<1>9. Bereft(tree, bottom, FloatTabs', fresh)
  <2>1. ASSUME NEW x \in Named PROVE Placed(tree, bottom, FloatTabs', x)
    <3>1. Placed(right, bottom, FloatTabs, x) /\ Yields(bottom, bottom, 0, 0, <<>>)
      BY <1>1, BecomesItself DEF NamedPlaced
    <3> QED BY <3>1, <1>5, <1>6, PlacedFewer
  <2>2. Ids(OpenTabs) = TabIds(right) \cup TabIds(bottom) \cup Ids(FloatTabs)
    BY <1>1, OpenTabsAre
  <2>3. TabIds(tree) \subseteq TabIds(right)
    BY <1>5, NoTabs DEF Yields
  <2>4. \A x \in Ids(fresh) : x \notin TabIds(tree) /\ x \notin TabIds(bottom) /\ x \notin Ids(FloatTabs')
    BY <2>2, <2>3, <1>4, <1>7
  <2> QED BY <2>1, <2>4, <1>1, <1>4, <1>5 DEF Bereft
<1>10. Panes(tree) \cap Panes(bottom) = {} /\ FirstLeaf(tree).id \in Panes(tree) /\ Panes(tree) \subseteq PaneId
       /\ Panes(bottom) \subseteq PaneId
  <2>1. Nodes(right) \cap Nodes(bottom) = {}
    BY <1>1 DEF LayoutShape
  <2> QED BY <2>1, <1>1, <1>5, FirstLeafIs, NodesAre DEF Nodes
<1>11. /\ pane \in Panes(t) /\ pane \in PaneId /\ Good(t) /\ inBottom \in BOOLEAN
       /\ inBottom <=> pane \notin Panes(tree)
       /\ pane = activePane \/ ~inBottom
  BY <1>1, <1>5, <1>10
<1>12. narrow /\ merged => ~inBottom /\ activePane' \notin Panes(bottom)
  <2>1. narrow /\ merged => activePane \notin Panes(bottom)
    BY <1>1 DEF Narrowed
  <2>2. narrow /\ merged => ~inBottom
    BY <2>1, <1>11
  <2>3. activePane' = pane \/ activePane' = activePane
    BY <1>2
  <2> QED BY <2>1, <2>2, <2>3
<1>13. activePane' \in PaneId
  BY <1>1, <1>2, <1>11
<1>14. right' = (IF inBottom THEN tree ELSE r) /\ bottom' = (IF inBottom THEN r ELSE bottom)
  <2> HIDE DEF pane
  <2>1. CASE inBottom
    BY <2>1, <1>2, <1>11
  <2>2. CASE ~inBottom
    BY <2>2, <1>2, <1>11
  <2> QED BY <2>1, <2>2
<1> HIDE DEF pane, t
<1>15. Yields(t, r, counter, counter', fresh) /\ TabIds(r) = TabIds(t) \cup Ids(fresh)
  <2>1. CASE ~adds
    <3>1. r = t /\ Ids(fresh) = {}
      BY <2>1, NoTabs
    <3> QED BY <3>1, <1>11, BecomesItself
  <2>2. CASE adds
    <3>1. LeafAt(t, pane).tabs \in Seq(SideTab)
      BY <1>11, HasTabs
    <3> DEFINE grown == LeafAt(t, pane).tabs \o fresh
    <3>2. /\ grown \in Seq(SideTab) /\ Ids(grown) = Has(t, pane) \cup Ids(fresh)
          /\ Gains(LeafAt(t, pane).tabs, grown, fresh)
      BY <3>1, <1>4, GainsTabs DEF Has
    <3> HIDE DEF grown
    <3>3. by = Leaf(pane, grown, LastId(fresh)) /\ LastId(fresh) \in Ids(grown)
      BY <3>2, <2>2, <1>4 DEF grown
    <3>4. by \in LeafSet /\ LeafOK(by) /\ by.id = pane /\ by.tabs = grown
      BY <3>2, <3>3, <1>11, MakesLeaf
    <3> HIDE DEF by
    <3>5. r = MapLeaf(t, by.id, by) /\ (by.id \in Panes(t) => Gains(LeafAt(t, by.id).tabs, by.tabs, fresh))
      BY <2>2, <3>2, <3>4
    <3> HIDE DEF r
    <3>6. Yields(t, r, counter, counter', fresh) /\ Panes(r) = Panes(t)
          /\ \A p \in Panes(t) : LeafAt(r, p) = IF p = by.id THEN by ELSE LeafAt(t, p)
      BY <3>4, <3>5, <1>11, MapLeafBecomes
    <3>7. Good(r)
      BY <3>6 DEF Yields
    <3>8. TabIds(t) = UNION {Has(t, p) : p \in Panes(t)} /\ TabIds(r) = UNION {Has(r, p) : p \in Panes(t)}
      BY <3>6, <3>7, <1>11, TabIdsAre DEF Has
    <3>9. \A p \in Panes(t) : Has(r, p) = IF p = pane THEN Has(t, p) \cup Ids(fresh) ELSE Has(t, p)
      BY <3>2, <3>4, <3>6 DEF Has
    <3>10. TabIds(r) = TabIds(t) \cup Ids(fresh)
      BY <3>8, <3>9, <1>11
    <3> QED BY <3>6, <3>10
  <2> QED BY <2>1, <2>2
<1>16. Flags'
  BY <1>2, Typed DEF Flags
<1> HIDE DEF inBottom, r
<1>17. Reconciled(live, tree, inBottom, r, fresh)
  BY <1>2, <1>6, <1>7, <1>8, <1>9, <1>11, <1>12, <1>13, <1>14, <1>15, <1>16 DEF Reconciled, gone, fresh, tree, t
<1> QED BY <1>17

LEMMA ReconcileStep ==
  ASSUME LayoutInv, edits' \in 0..MaxEdits, NEW live \in SUBSET Agent, Reconcile(live)
  PROVE  LayoutInv'
<1>1. PICK tree, inBottom, r, fresh : Reconciled(live, tree, inBottom, r, fresh)
  BY ReconcileIs
<1>2. /\ inBottom \in BOOLEAN
      /\ Bereft(tree, bottom, FloatTabs', fresh)
      /\ Yields(IF inBottom THEN bottom ELSE tree, r, counter, counter', fresh)
      /\ right' = (IF inBottom THEN tree ELSE r) /\ bottom' = (IF inBottom THEN r ELSE bottom)
      /\ counter' = counter /\ floats' \in Seq(FloatSet)
      /\ activePane' \in PaneId /\ Flags' /\ UNCHANGED <<narrow, merged>>
      /\ (narrow /\ merged => ~inBottom /\ activePane' \notin Panes(bottom))
  BY <1>1 DEF Reconciled
<1>3. counter' \in Number /\ counter <= counter'
  BY <1>2, Typed
<1> QED BY <1>2, <1>3, TreesStep

\* A pane is removed, if it is there.
LEMMA RemovedIs ==
  ASSUME NEW t, Good(t), NEW pane
  PROVE  Yields(t, RemoveLeafAt(t, pane), 0, 0, <<>>) /\ Nodes(RemoveLeafAt(t, pane)) \subseteq Nodes(t)
<1> DEFINE r == RemoveLeafAt(t, pane)
<1>1. CASE pane \notin Panes(t)
  <2>1. r = t
    BY <1>1 DEF RemoveLeafAt
  <2> QED BY <2>1, BecomesItself
<1>2. CASE pane \in Panes(t)
  <2>1. /\ Good(r) /\ SplitIds(r) \subseteq SplitIds(t) /\ Panes(r) \subseteq Panes(t)
        /\ \A p \in Panes(r) \ {pane} : LeafAt(r, p) = LeafAt(t, p)
        /\ pane \in Panes(r) => LeafAt(r, pane) = Leaf(pane, <<>>, None)
    BY <1>2, RemoveLeafIs
  <2> HIDE DEF r
  <2>2. Nodes(r) \subseteq Nodes(t)
    BY <2>1 DEF Nodes
  <2>3. \A p \in Panes(r) \ {pane} : p \in Panes(t) /\ Gains(LeafAt(t, p).tabs, LeafAt(r, p).tabs, <<>>)
    BY <2>1, GainsNone
  <2>4. pane \in Panes(r) => Gains(Before(t, pane), LeafAt(r, pane).tabs, <<>>)
    <3>1. pane \in Panes(r) => LeafAt(r, pane).tabs = <<>>
      BY <2>1 DEF Leaf
    <3> QED BY <3>1, NothingKept
  <2>5. \A id \in Nodes(r) \ Nodes(t) : 0 < id[2] /\ id[2] <= 0
    BY <2>2
  <2>6. Yields(t, r, 0, 0, <<>>)
    BY <2>1, <2>3, <2>4, <2>5, LeafwiseBecomes
  <2> QED BY <2>2, <2>6 DEF r
<1> QED BY <1>1, <1>2

\* What RemoveLeaves computes, step by step.
LEMMA RemoveLeavesUnfolds ==
  ASSUME NEW t, Good(t), NEW unwanted
  PROVE  \E f : /\ \A n \in 0 .. Len(t.panes) : Yields(t, f[n], 0, 0, <<>>) /\ Nodes(f[n]) \subseteq Nodes(t)
                /\ RemoveLeaves(t, unwanted) = f[Len(t.panes)] /\ f[0] = t
                /\ \A n \in 1 .. Len(t.panes) :
                     f[n] = IF n \in unwanted THEN RemoveLeafAt(f[n - 1], t.panes[n].id) ELSE f[n - 1]
<1> DEFINE N == Len(t.panes)
           V == {u \in TreeSet : Yields(t, u, 0, 0, <<>>) /\ Nodes(u) \subseteq Nodes(t)}
           F == [p \in (1 .. N) \X V |-> IF p[1] \in unwanted THEN RemoveLeafAt(p[2], t.panes[p[1]].id) ELSE p[2]]
           P(f) == f = [n \in 0 .. Len(t.panes) |->
                          IF n = 0 THEN t
                          ELSE IF n \in unwanted THEN RemoveLeafAt(f[n - 1], t.panes[n].id)
                          ELSE f[n - 1]]
<1>0. N \in Nat /\ t \in V
  BY BecomesItself, GoodHas DEF Good
<1>1. \A v \in V, n \in 1 .. N : RemoveLeafAt(v, t.panes[n].id) \in V
  <2>1. SUFFICES ASSUME NEW v \in V, NEW x PROVE RemoveLeafAt(v, x) \in V
    BY Zenon
  <2> DEFINE u == RemoveLeafAt(v, x)
  <2>2. Good(v) /\ Yields(t, v, 0, 0, <<>>) /\ Nodes(v) \subseteq Nodes(t)
    BY DEF Yields
  <2>3. Yields(v, u, 0, 0, <<>>) /\ Nodes(u) \subseteq Nodes(v)
    BY <2>2, RemovedIs
  <2> HIDE DEF u
  <2>4. Yields(t, u, 0, 0, <<>>)
    BY <2>2, <2>3, BecomesAfter
  <2>5. u \in TreeSet
    BY <2>4 DEF Yields, Good
  <2> QED BY <2>2, <2>3, <2>4, <2>5 DEF u
<1>2. F \in [(1 .. N) \X V -> V]
  <2> HIDE DEF V, N
  <2> QED BY <1>1
<1>3. PICK g : Computed(N, V, t, F, g)
  <2> HIDE DEF F, V, N
  <2> QED BY <1>0, <1>2, Recursion
<1>4. \A i \in 1 .. N : F[<<i, g[i - 1]>>] = IF i \in unwanted THEN RemoveLeafAt(g[i - 1], t.panes[i].id) ELSE g[i - 1]
  <2>1. \A i \in 1 .. N : g[i - 1] \in V
    BY <1>0, <1>3 DEF Computed
  <2> HIDE DEF V
  <2> QED BY <2>1
<1>5. P(g)
  <2>1. g \in [0 .. N -> V] /\ g[0] = t /\ \A n \in 1 .. N : g[n] = F[<<n, g[n - 1]>>]
    BY <1>3 DEF Computed
  <2> HIDE DEF F, V
  <2>2. ASSUME NEW n \in 0 .. Len(t.panes)
        PROVE  g[n] = IF n = 0 THEN t
                      ELSE IF n \in unwanted THEN RemoveLeafAt(g[n - 1], t.panes[n].id)
                      ELSE g[n - 1]
    <3>1. CASE n = 0 BY <2>1, <3>1
    <3>2. CASE n # 0
      <4>1. n \in 1 .. N BY <3>2, <1>0
      <4> QED BY <2>1, <1>4, <4>1, <3>2
    <3> QED BY <3>1, <3>2
  <2> DEFINE h == [n \in 0 .. Len(t.panes) |->
                     IF n = 0 THEN t
                     ELSE IF n \in unwanted THEN RemoveLeafAt(g[n - 1], t.panes[n].id)
                     ELSE g[n - 1]]
  <2>3. \A n \in 0 .. Len(t.panes) : h[n] = g[n]
    BY <2>2, Zenon
  <2>4. DOMAIN h = 0 .. Len(t.panes) /\ h = [n \in 0 .. Len(t.panes) |-> h[n]]
    BY Zenon
  <2> HIDE DEF h
  <2>5. g = h
    BY <2>1, <2>3, <2>4, Zenon
  <2> QED BY <2>5, Zenon DEF h
<1>6. PICK f : P(f) /\ RemoveLeaves(t, unwanted) = f[Len(t.panes)]
  <2> DEFINE f == CHOOSE h : P(h)
  <2>1. P(f)
    <3> HIDE DEF P
    <3> QED BY <1>5
  <2>2. RemoveLeaves(t, unwanted) = f[Len(t.panes)]
    BY DEF RemoveLeaves
  <2> HIDE DEF P, f
  <2> QED BY <2>1, <2>2
<1>7. f[0] = t /\ \A n \in 1 .. N : f[n] = IF n \in unwanted THEN RemoveLeafAt(f[n - 1], t.panes[n].id) ELSE f[n - 1]
  <2>1. \A n \in 0 .. Len(t.panes) :
           f[n] = IF n = 0 THEN t
                  ELSE IF n \in unwanted THEN RemoveLeafAt(f[n - 1], t.panes[n].id)
                  ELSE f[n - 1]
    BY <1>6, Zenon
  <2> HIDE DEF F, V
  <2> QED BY <2>1, <1>0
<1>8. \A i \in 0 .. N : f[i] \in V
  <2>1. ASSUME NEW n \in 0 .. N - 1, f[n] \in V PROVE f[n + 1] \in V
    <3>1. n + 1 \in 1 .. N /\ (n + 1) - 1 = n BY <1>0
    <3> HIDE DEF V
    <3> QED BY <3>1, <2>1, <1>7, <1>1
  <2> HIDE DEF V, N
  <2> QED BY <1>0, <1>7, <2>1, RecursionStays
<1> QED BY <1>6, <1>7, <1>8

\* The empty panes of a tree collapse.
LEMMA PruneIs ==
  ASSUME NEW t, Good(t)
  PROVE  LET r == PruneEmptyPanes(t)
         IN Yields(t, r, 0, 0, <<>>) /\ Nodes(r) \subseteq Nodes(t)
<1> DEFINE unwanted == {i \in DOMAIN t.panes : t.panes[i].tabs = <<>>}
           r == RemoveLeaves(t, unwanted)
<1>1. Yields(t, r, 0, 0, <<>>) /\ Nodes(r) \subseteq Nodes(t)
  <2> HIDE DEF unwanted
  <2>1. PICK f : /\ \A n \in 0 .. Len(t.panes) : Yields(t, f[n], 0, 0, <<>>) /\ Nodes(f[n]) \subseteq Nodes(t)
                 /\ r = f[Len(t.panes)]
    BY RemoveLeavesUnfolds
  <2>2. Len(t.panes) \in 0 .. Len(t.panes)
    BY GoodHas
  <2> QED BY <2>1, <2>2
<1>2. CASE TabIds(t) = {}
  <2>1. PruneEmptyPanes(t) = t
    BY <1>2 DEF PruneEmptyPanes
  <2> QED BY <2>1, BecomesItself
<1>3. CASE TabIds(t) # {}
  <2>1. PruneEmptyPanes(t) = r
    BY <1>3 DEF PruneEmptyPanes
  <2> QED BY <1>1, <2>1
<1> QED BY <1>2, <1>3

\* The diffs leave a tree.
LEMMA SanitizedIs ==
  ASSUME NEW t, Good(t)
  PROVE  LET r == Sanitized(t)
         IN /\ Yields(t, r, 0, 0, <<>>) /\ Nodes(r) = Nodes(t)
            /\ Len(r.panes) = Len(t.panes) /\ r.splits = t.splits
            /\ \A i \in 1 .. Len(t.panes) : r.panes[i].tabs = Kept(t.panes[i].tabs)
<1> DEFINE Clean(l) == Leaf(l.id, Kept(l.tabs), IF l.active \in Ids(Kept(l.tabs)) THEN l.active ELSE None)
           p == [i \in DOMAIN t.panes |-> Clean(t.panes[i])]
           r == Tree(p, t.splits)
<1>0. Len(t.panes) \in Nat /\ DOMAIN t.panes = 1 .. Len(t.panes) /\ \A i \in 1 .. Len(t.panes) : t.panes[i] \in LeafSet
  BY GoodHas
<1>1. ASSUME NEW i \in 1 .. Len(t.panes)
      PROVE  /\ p[i] \in LeafSet /\ LeafOK(p[i]) /\ p[i].id = t.panes[i].id /\ p[i].tabs = Kept(t.panes[i].tabs)
             /\ Gains(t.panes[i].tabs, p[i].tabs, <<>>)
  <2> DEFINE l == t.panes[i]
             kept == Kept(l.tabs)
             active == IF l.active \in Ids(kept) THEN l.active ELSE None
  <2>1. l.id \in PaneId /\ l.tabs \in Seq(SideTab)
    BY <1>0 DEF LeafSet
  <2>2. p[i] = Leaf(l.id, kept, active)
    BY <1>0
  <2> HIDE DEF l, p
  <2>3. kept \in Seq(SideTab) /\ Gains(l.tabs, kept, <<>>)
    BY <2>1, OnlyKeeps, GainsOnly DEF Kept
  <2> HIDE DEF kept
  <2>4. active = None \/ active \in Ids(kept)
    OBVIOUS
  <2> HIDE DEF active
  <2>5. p[i] \in LeafSet /\ LeafOK(p[i]) /\ p[i].id = l.id /\ p[i].tabs = kept
    BY <2>1, <2>2, <2>3, <2>4, MakesLeaf
  <2> QED BY <2>3, <2>5 DEF l, kept
<1>2. p \in Seq(LeafSet) /\ Len(p) = Len(t.panes)
  <2>1. p \in [1 .. Len(t.panes) -> LeafSet]
    <3>1. DOMAIN p = 1 .. Len(t.panes) /\ p = [i \in 1 .. Len(t.panes) |-> p[i]]
      BY <1>0
    <3> HIDE DEF p
    <3> QED BY <1>1, <3>1
  <2> HIDE DEF p
  <2> QED BY <2>1, <1>0, IsASeq
<1> HIDE DEF p
<1>3. \A i \in 1 .. Len(p) : LeafOK(p[i]) /\ p[i].id = t.panes[i].id
  BY <1>1, <1>2
<1>4. \A i \in 1 .. Len(p) : Gains(t.panes[i].tabs, p[i].tabs, <<>>)
  BY <1>1, <1>2
<1>5. /\ Yields(t, r, 0, 0, <<>>) /\ Panes(r) = Panes(t) /\ SplitIds(r) = SplitIds(t)
      /\ r.panes = p /\ r.splits = t.splits
  BY <1>2, <1>3, <1>4, PaneByPane
<1>6. r = Sanitized(t)
  BY DEF Sanitized, p
<1> HIDE DEF r
<1> QED BY <1>1, <1>2, <1>5, <1>6 DEF Nodes

\* The tree that a reload brings back.
LEMMA RestoredIs ==
  ASSUME NEW t, Good(t)
  PROVE  LET r == PruneEmptyPanes(Sanitized(t))
         IN Good(r) /\ Yields(t, r, 0, 0, <<>>) /\ Nodes(r) \subseteq Nodes(t)
<1> DEFINE m == Sanitized(t)
           r == PruneEmptyPanes(m)
<1>1. Yields(t, m, 0, 0, <<>>) /\ Nodes(m) = Nodes(t)
  BY SanitizedIs
<1>2. Good(m)
  BY <1>1 DEF Yields
<1> HIDE DEF m
<1>3. Yields(m, r, 0, 0, <<>>) /\ Nodes(r) \subseteq Nodes(m)
  BY <1>2, PruneIs
<1> HIDE DEF r
<1>4. Yields(t, r, 0, 0, <<>>)
  BY <1>1, <1>3, BecomesAfter
<1>5. Good(r)
  BY <1>4 DEF Yields
<1> QED BY <1>1, <1>3, <1>4, <1>5 DEF m, r

\* No pane of a layout is corrupt: a reload never resets it.
LEMMA NeverReset ==
  ASSUME LayoutInv PROVE Restorable /\ RestorableBottom
<1>1. ASSUME NEW t, Good(t), NEW l \in ToSet(t.panes) PROVE SoundLeaf(l)
  <2>1. LeafOK(l)
    BY <1>1, GoodHas DEF ToSet
  <2> QED BY <2>1 DEF LeafOK, SoundLeaf
<1> QED BY <1>1, Typed DEF Restorable, RestorableBottom

LEMMA ReloadStep ==
  ASSUME LayoutInv, edits' \in 0..MaxEdits, Reload
  PROVE  LayoutInv'
<1> DEFINE n == MaxCounterId
           tree == PruneEmptyPanes(Sanitized(right))
           below == PruneEmptyPanes(Sanitized(bottom))
           I == {i \in DOMAIN floats :
                  /\ floats[i].tab.kind # "diff"
                  /\ \A j \in 1..(i - 1) : floats[j].tab.kind # "diff" => floats[j].id # floats[i].id}
<1>1. /\ right' = tree /\ bottom' = below /\ floats' = KeptFloats /\ counter' = n /\ merged' = FALSE
      /\ activePane' = activePane \/ activePane' = FirstLeaf(tree).id
      /\ UNCHANGED <<gitChecked, panelOpen, bottomOpen, narrow>>
  BY NeverReset DEF Reload
<1>2. /\ LayoutShape /\ NamedPlaced /\ Good(right) /\ Good(bottom) /\ floats \in Seq(FloatSet) /\ activePane \in PaneId
  BY Typed
<1>3. n \in Number /\ \A id \in Nodes(right) \cup Nodes(bottom) : id[2] <= n
  BY MaxCounterIdIs
<1>4. /\ Good(tree) /\ Yields(right, tree, 0, 0, <<>>) /\ Nodes(tree) \subseteq Nodes(right)
      /\ Good(below) /\ Yields(bottom, below, 0, 0, <<>>) /\ Nodes(below) \subseteq Nodes(bottom)
  BY <1>2, RestoredIs
<1> HIDE DEF tree, below, n
<1>5. floats' \in Seq(FloatSet) /\ Gains(FloatTabs, FloatTabs', <<>>)
  <2>1. floats' = Only(floats, I)
    BY <1>1 DEF KeptFloats
  <2> HIDE DEF I
  <2>2. floats' \in Seq(FloatSet) /\ Gains(WindowTabs(floats), WindowTabs(floats'), <<>>)
    BY <1>2, <2>1, OnlyWindows
  <2> QED BY <2>2, WindowsNow
<1>6. LayoutShape'
  <2>1. FirstLeaf(tree).id \in PaneId
    BY <1>4, FirstLeafIs, LeafIs
  <2>2. Flags'
    BY <1>1, Typed DEF Flags
  <2>3. Nodes(right) \cap Nodes(bottom) = {}
    BY <1>2 DEF LayoutShape
  <2> QED BY <1>1, <1>2, <1>3, <1>4, <1>5, <2>1, <2>2, <2>3 DEF LayoutShape, Flags
<1>7. NamedPlaced'
  <2>1. SUFFICES ASSUME NEW x \in Named PROVE Placed(right', bottom', FloatTabs', x)
    BY DEF NamedPlaced, Named
  <2>2. Placed(right, bottom, FloatTabs, x)
    BY <1>2 DEF NamedPlaced
  <2> QED BY <2>2, <1>1, <1>4, <1>5, PlacedFewer
<1>8. Narrowed'
  BY <1>1 DEF Narrowed
<1> QED BY <1>6, <1>7, <1>8 DEF LayoutInv

\* A tree of one pane.
LEMMA SingleIs ==
  ASSUME NEW leaf \in LeafSet, LeafOK(leaf)
  PROVE  LET r == Single(leaf)
         IN /\ Good(r) /\ Nodes(r) = {leaf.id} /\ TabIds(r) = Ids(leaf.tabs)
            /\ \A x : OnceIn(leaf.tabs, x) => Once(r, x)
<1>1. /\ <<leaf>> \in Seq(LeafSet) /\ <<>> \in Seq(SplitSet) /\ NoTwins(<<leaf>>) /\ NoTwins(<<>>)
      /\ <<leaf>> # <<>> /\ Len(<<leaf>>) = 1 /\ <<leaf>>[1] = leaf /\ Len(<<>>) = 0
  BY DEF NoTwins
<1>2. PICK p, s : p = <<leaf>> /\ s = <<>>
  OBVIOUS
<1>3. /\ p \in Seq(LeafSet) /\ s \in Seq(SplitSet) /\ p # <<>> /\ Len(s) = Len(p) - 1
      /\ (\A i \in 1 .. Len(p) : LeafOK(p[i])) /\ NoTwins(p) /\ NoTwins(s)
  BY <1>1, <1>2
<1>4. Good(Tree(p, s)) /\ Tree(p, s).panes = p /\ Tree(p, s).splits = s
  BY <1>3, MakesGood
<1> DEFINE r == Single(leaf)
<1>5. Good(r) /\ r.panes = <<leaf>> /\ r.splits = <<>>
  BY <1>2, <1>4 DEF Single
<1> HIDE DEF r
<1>6. DOMAIN r.panes = {1} /\ r.panes[1] = leaf /\ DOMAIN r.splits = {} /\ Len(r.panes) = 1
  BY <1>1, <1>5
<1>7. Panes(r) = {leaf.id} /\ SplitIds(r) = {}
  BY <1>6, PanesAre DEF SplitIds
<1>8. TabIds(r) = Ids(leaf.tabs)
  BY <1>6 DEF TabIds
<1>9. LeafAt(r, leaf.id) = leaf
  BY <1>5, <1>6, LeafIs
<1> QED BY <1>5, <1>7, <1>8, <1>9 DEF Nodes, Once, r

\* A new conversation's layout.
LEMMA InitHolds == LayoutInit => LayoutInv
<1> SUFFICES ASSUME LayoutInit PROVE LayoutInv
  OBVIOUS
<1> DEFINE tab == HomeTab(<<"tab", 2>>)
           first == Leaf(<<"pane", 1>>, <<tab>>, <<"tab", 2>>)
           empty == Leaf(<<"pane", 3>>, <<>>, None)
<1>1. /\ right = Single(first) /\ bottom = Single(empty) /\ floats = <<>> /\ activePane = <<"pane", 1>> /\ counter = 3
      /\ gitChecked = FALSE /\ narrow \in BOOLEAN /\ panelOpen = ~narrow /\ bottomOpen = FALSE /\ merged = FALSE /\ edits = 0
  BY DEF LayoutInit
<1>2. 0 \in 0 .. MaxEdits /\ 1 \in Number /\ 2 \in Number /\ 3 \in Number
  BY LayoutAssumption DEF Number
<1>3. tab \in SideTab /\ tab.id = <<"tab", 2>>
  <2>1. tab = TabOf(<<"tab", 2>>, "editor", "home") /\ "home" \in File \cup {"home"}
    BY DEF HomeTab
  <2>2. tab.id = <<"tab", 2>>
    BY DEF HomeTab, TabOf
  <2> HIDE DEF tab
  <2>3. tab \in {TabOf(<<"tab", n>>, "editor", f) : n \in Number, f \in File \cup {"home"}}
    BY <2>1, <1>2
  <2>4. tab \in SideTab
    BY <2>3 DEF SideTab
  <2> QED BY <2>2, <2>4
<1> HIDE DEF tab
<1>4. Ids(<<tab>>) = {<<"tab", 2>>} /\ \A x : OnceIn(<<tab>>, x)
  BY <1>3, Lone
<1>5. /\ first \in LeafSet /\ LeafOK(first) /\ first.id = <<"pane", 1>> /\ first.tabs = <<tab>>
      /\ empty \in LeafSet /\ LeafOK(empty) /\ empty.id = <<"pane", 3>> /\ empty.tabs = <<>>
  <2>1. <<"pane", 1>> \in PaneId /\ <<"pane", 3>> \in PaneId /\ <<tab>> \in Seq(SideTab) /\ <<"tab", 2>> \in TabId
    BY <1>2, <1>3 DEF PaneId, TabId
  <2>2. empty \in LeafSet /\ LeafOK(empty) /\ empty.id = <<"pane", 3>> /\ empty.tabs = <<>>
    BY <2>1 DEF Leaf, LeafSet, LeafOK
  <2>3. first \in LeafSet /\ LeafOK(first) /\ first.id = <<"pane", 1>> /\ first.tabs = <<tab>>
    BY <2>1, <1>4 DEF Leaf, LeafSet, LeafOK
  <2> QED BY <2>2, <2>3
<1> HIDE DEF first, empty
<1>6. /\ Good(right) /\ Nodes(right) = {<<"pane", 1>>} /\ TabIds(right) = {<<"tab", 2>>} /\ \A x : Once(right, x)
  BY <1>1, <1>4, <1>5, SingleIs
<1>7. /\ Good(bottom) /\ Nodes(bottom) = {<<"pane", 3>>} /\ TabIds(bottom) = {} /\ \A x : Once(bottom, x)
  BY <1>1, <1>5, SingleIs, NoTabs
<1>8. FloatTabs = <<>> /\ floats \in Seq(FloatSet)
  BY <1>1 DEF FloatTabs
<1>9. LayoutShape
  <2>1. activePane \in PaneId /\ counter \in Number /\ edits \in 0 .. MaxEdits
    BY <1>1, <1>2 DEF PaneId
  <2>2. Nodes(right) \cap Nodes(bottom) = {} /\ \A id \in Nodes(right) \cup Nodes(bottom) : id[2] <= counter
    BY <1>1, <1>6, <1>7
  <2> QED BY <1>1, <1>6, <1>7, <1>8, <2>1, <2>2 DEF LayoutShape
<1>10. NamedPlaced
  BY <1>6, <1>7, <1>8, NoTabs DEF NamedPlaced, Placed
<1>11. Narrowed
  BY <1>1 DEF Narrowed
<1> QED BY <1>9, <1>10, <1>11 DEF LayoutInv

LEMMA DropStep ==
  ASSUME LayoutInv, edits' \in 0..MaxEdits, Drop
  PROVE  LayoutInv'
<1>0. PICK from \in Panes(right) \cup Panes(bottom), to \in Panes(right) \cup Panes(bottom) :
        \E id \in Ids(LeafAt(TreeOf(from), from).tabs) :
          \/ DropOnCentre(from, id, to)
          \/ \E before \in Ids(LeafAt(TreeOf(to), to).tabs) : DropBefore(from, id, to, before)
          \/ \E front \in BOOLEAN : DropOnEdge(from, id, to, front)
  BY DEF Drop
<1>1. PICK id \in Ids(LeafAt(TreeOf(from), from).tabs) :
        \/ DropOnCentre(from, id, to)
        \/ \E before \in Ids(LeafAt(TreeOf(to), to).tabs) : DropBefore(from, id, to, before)
        \/ \E front \in BOOLEAN : DropOnEdge(from, id, to, front)
  BY <1>0
<1>2. id \in Has(TreeOf(from), from)
  BY DEF Has
<1>3. CASE DropOnCentre(from, id, to)
  <2>1. from \in Shown /\ to \in Shown /\ MoveTab(from, id, to, Len(OpenTabs) + 1)
    BY <1>3 DEF DropOnCentre
  <2> QED BY <2>1, <1>2, MoveTabStep
<1>4. ASSUME NEW before, DropBefore(from, id, to, before) PROVE LayoutInv'
  <2>1. from \in Shown /\ to \in Shown /\ \E index : MoveTab(from, id, to, index)
    BY <1>4 DEF DropBefore
  <2> QED BY <2>1, <1>2, MoveTabStep
<1>5. ASSUME NEW front \in BOOLEAN, DropOnEdge(from, id, to, front) PROVE LayoutInv'
  BY <1>2, <1>5, DropOnEdgeStep
<1> QED BY <1>1, <1>3, <1>4, <1>5

LEMMA EditStep ==
  ASSUME LayoutInv, edits' \in 0..MaxEdits, Edit
  PROVE  LayoutInv'
<1>1. CASE Open
  BY <1>1, OpenFileStep, OpenTypeStep, OpenDiffStep, OpenFileSideStep DEF Open
<1>2. CASE Touch
  BY <1>2, CloseTabStep, ActivateTabStep, RaiseFloatStep, FloatTabStep DEF Touch
<1>3. CASE Drop
  BY <1>3, DropStep
<1>4. CASE Dock
  BY <1>4, DockFloatStep DEF Dock
<1>5. CASE \E pane \in Shown : FocusPane(pane)
  BY <1>5, FocusPaneStep
<1>6. CASE TogglePanel \/ ToggleBottom
  BY <1>6, ToggleStep
<1>7. CASE Resize
  BY <1>7, ResizeStep
<1>8. CASE Migrate
  BY <1>8, MigrateStep
<1>9. CASE \E hasGit \in BOOLEAN : GitDefaults(hasGit)
  BY <1>9, GitDefaultsStep
<1>10. CASE \E live \in SUBSET Agent : Reconcile(live)
  BY <1>10, ReconcileStep
<1>11. CASE Revisit
  BY <1>11, RevisitStep
<1>12. CASE Reload
  BY <1>12, ReloadStep
<1> QED BY <1>1, <1>2, <1>3, <1>4, <1>5, <1>6, <1>7, <1>8, <1>9, <1>10, <1>11, <1>12 DEF Edit

LEMMA InvKept ==
  ASSUME LayoutInv, [LayoutNext]_layoutVars
  PROVE  LayoutInv'
<1>1. CASE LayoutNext
  <2>1. edits < MaxEdits /\ edits' = edits + 1 /\ Edit
    BY <1>1 DEF LayoutNext
  <2>2. edits \in 0 .. MaxEdits /\ MaxEdits \in Nat
    BY LayoutAssumption, Typed DEF LayoutShape
  <2>3. edits' \in 0 .. MaxEdits
    BY <2>1, <2>2
  <2> QED BY <2>1, <2>3, EditStep
<1>2. CASE UNCHANGED layoutVars
  <2>1. LayoutShape /\ NamedPlaced /\ Narrowed
    BY Typed
  <2>2. UNCHANGED <<right, bottom, floats, activePane, counter, gitChecked, panelOpen, bottomOpen, narrow, merged, edits>>
    BY <1>2 DEF layoutVars
  <2>3. FloatTabs' = FloatTabs
    BY <2>2 DEF FloatTabs
  <2>4. LayoutShape'
    BY <2>1, <2>2 DEF LayoutShape
  <2>5. NamedPlaced'
    BY <2>1, <2>2, <2>3 DEF NamedPlaced, Named
  <2>6. Narrowed'
    BY <2>1, <2>2 DEF Narrowed
  <2> QED BY <2>4, <2>5, <2>6 DEF LayoutInv
<1> QED BY <1>1, <1>2

-------------------------------------------------------------------------------
(* What the invariant says                                                     *)

LEMMA InvTypes == LayoutInv => LayoutTypeOK
<1> SUFFICES ASSUME LayoutInv PROVE LayoutTypeOK
  OBVIOUS
<1>1. /\ LayoutShape /\ Good(right) /\ Good(bottom) /\ activePane \in PaneId /\ counter \in Number
      /\ edits \in 0..MaxEdits /\ Flags
  BY Typed DEF LayoutShape
<1>2. ASSUME NEW id \in ToSet(NodeIds(right) \o NodeIds(bottom)) PROVE IdOK(id, {"pane", "split"})
  <2>1. id \in PaneId \cup SplitId
    BY <1>1, NodeRows, NodesAre DEF Nodes
  <2> QED BY <2>1 DEF IdOK, PaneId, SplitId
<1>3. ASSUME NEW l \in ToSet(right.panes \o bottom.panes) PROVE LeafOK(l)
  <2>1. right.panes \in Seq(LeafSet) /\ bottom.panes \in Seq(LeafSet)
    BY <1>1, GoodHas
  <2>2. l \in ToSet(right.panes) \cup ToSet(bottom.panes)
    BY <2>1, RowsJoin
  <2>3. PICK t \in {right, bottom} : l \in ToSet(t.panes)
    BY <2>2
  <2>4. Good(t)
    BY <1>1
  <2>5. PICK i \in DOMAIN t.panes : l = t.panes[i]
    BY <2>3 DEF ToSet
  <2> QED BY <2>4, <2>5, GoodHas
<1>4. IdOK(activePane, {"pane"})
  BY <1>1 DEF IdOK, PaneId
<1> QED BY <1>1, <1>2, <1>3, <1>4 DEF LayoutTypeOK, Flags

LEMMA InvDistinct == LayoutInv => NodesDistinct
BY Typed, NodeRows DEF NodesDistinct

LEMMA OneAtMost ==
  ASSUME NEW S, \A i, j \in S : i = j
  PROVE  Cardinality(S) <= 1
<1>1. CASE S = {}
  BY <1>1, FS_EmptySet
<1>2. CASE S # {}
  <2>1. PICK i : i \in S
    BY <1>2
  <2>2. S = {i}
    BY <2>1
  <2>3. Cardinality({i}) = 1
    BY FS_Singleton
  <2> QED BY <2>2, <2>3
<1> QED BY <1>1, <1>2

LEMMA InvNamed == LayoutInv => NamedTabsOnce
<1> SUFFICES ASSUME LayoutInv, NEW x \in Named PROVE Cardinality({i \in DOMAIN OpenTabs : OpenTabs[i].id = x}) <= 1
  BY DEF NamedTabsOnce, Named
<1>1. OnceIn(OpenTabs, x)
  BY Typed, OpenTabsAre DEF NamedPlaced
<1> DEFINE S == {i \in DOMAIN OpenTabs : OpenTabs[i].id = x}
<1>2. \A i, j \in S : i = j
  BY <1>1 DEF OnceIn
<1> HIDE DEF S
<1>3. Cardinality(S) <= 1
  BY <1>2, OneAtMost
<1> QED BY <1>3 DEF S

LEMMA InvNarrow == LayoutInv => NarrowShowsAll
<1> SUFFICES ASSUME LayoutInv, narrow, merged PROVE TabsIn(bottom) = <<>> /\ ~InBottom(activePane)
  BY DEF NarrowShowsAll
<1>1. TabIds(bottom) = {} /\ activePane \notin Panes(bottom)
  BY Typed DEF Narrowed
<1> QED BY <1>1, Typed, TabsInIs, TreeOfIs

\* The layout keeps its shape.
THEOREM LayoutKept == LayoutSpec => []LayoutInv
<1>1. LayoutInit => LayoutInv
  BY InitHolds
<1>2. LayoutInv /\ [LayoutNext]_layoutVars => LayoutInv'
  BY InvKept
<1> QED BY <1>1, <1>2, PTL DEF LayoutSpec

\* The layout has its types: minted ids, and panes that show one of their tabs.
THEOREM LayoutTypes == LayoutSpec => []LayoutTypeOK
BY LayoutKept, InvTypes, PTL

\* No two nodes of the trees have the same id.
THEOREM NodesStayDistinct == LayoutSpec => []NodesDistinct
BY LayoutKept, InvDistinct, PTL

\* A file, Source Control and a terminal are open once.
THEOREM NamedTabsStayOnce == LayoutSpec => []NamedTabsOnce
BY LayoutKept, InvNamed, PTL

\* A narrow viewport shows every tab.
THEOREM NarrowKeepsAll == LayoutSpec => []NarrowShowsAll
BY LayoutKept, InvNarrow, PTL

\* What the open tabs are, now and after the step.
OpenTabsSound ==
  /\ OpenTabs \in Seq(SideTab) /\ FloatTabs \in Seq(SideTab)
  /\ DOMAIN OpenTabs = 1 .. Len(OpenTabs) /\ Len(OpenTabs) \in Nat
  /\ Ids(OpenTabs) = TabIds(right) \cup TabIds(bottom) \cup Ids(FloatTabs)

\* The open tabs are those of the trees and the windows, before and after a step.
LEMMA OpenTabsNow == LayoutShape => OpenTabsSound
BY OpenTabsAre DEF OpenTabsSound

LEMMA OpenTabsThen == LayoutShape' => OpenTabsSound'
BY OpenTabsNow, PTL

\* What a push of the host's list leaves.
LEMMA FollowStep ==
  ASSUME LayoutInv, LayoutInv', NEW live \in SUBSET Agent, Reconcile(live)
  PROVE  /\ \A a \in live : <<"agent", a>> \in Ids(OpenTabs')
         /\ \A t \in ToSet(AgentTabs(TabsIn(right)' \o FloatTabs')) : t.of \in live
<1> DEFINE gone == Vanished(live)
<1>1. PICK tree, inBottom, r, fresh : Reconciled(live, tree, inBottom, r, fresh)
  BY ReconcileIs
<1>2. /\ LayoutShape /\ NamedPlaced /\ Good(right) /\ Good(bottom)
      /\ Good(right') /\ Good(bottom') /\ LayoutShape'
  BY Typed DEF LayoutInv, LayoutShape
<1>3. /\ Ids(OpenTabs) = TabIds(right) \cup TabIds(bottom) \cup Ids(FloatTabs)
      /\ Ids(OpenTabs') = TabIds(right') \cup TabIds(bottom') \cup Ids(FloatTabs')
      /\ FloatTabs' \in Seq(SideTab)
  BY <1>2, OpenTabsNow, OpenTabsThen DEF OpenTabsSound
<1>4. /\ gone \in Seq(SideTab)
      /\ Ids(gone) = {x \in Ids(OpenTabs) : \E a \in Agent \ live : x = <<"agent", a>>}
  BY <1>2, VanishedIs
<1>5. /\ fresh = SetToSeq(Missing(live)) /\ tree = Dropped(right, gone)
      /\ TabIds(r) = TabIds(IF inBottom THEN bottom ELSE tree) \cup Ids(fresh)
      /\ right' = (IF inBottom THEN tree ELSE r) /\ bottom' = (IF inBottom THEN r ELSE bottom)
      /\ Ids(FloatTabs') = Ids(FloatTabs) \ Ids(gone)
  BY <1>1 DEF Reconciled
<1>6. Ids(fresh) = {x \in {<<"agent", a>> : a \in live} : x \notin Ids(OpenTabs)}
  BY <1>5, FreshIs
<1> HIDE DEF gone
<1>7. /\ Yields(right, tree, 0, 0, <<>>) /\ TabIds(right) \ Ids(gone) \subseteq TabIds(tree)
      /\ \A x \in Ids(gone) : Once(right, x) => x \notin TabIds(tree)
  BY <1>2, <1>4, <1>5, DroppedIs
<1>8. TabIds(tree) \subseteq TabIds(right)
  BY <1>7, NoTabs DEF Yields
<1>9. ASSUME NEW a \in live PROVE <<"agent", a>> \in Ids(OpenTabs')
  <2>1. <<"agent", a>> \notin Ids(gone)
    BY <1>4
  <2>2. CASE <<"agent", a>> \in Ids(OpenTabs)
    BY <2>1, <2>2, <1>3, <1>5, <1>7
  <2>3. CASE <<"agent", a>> \notin Ids(OpenTabs)
    <3>1. <<"agent", a>> \in Ids(fresh)
      BY <2>3, <1>6
    <3> QED BY <3>1, <1>3, <1>5
  <2> QED BY <2>2, <2>3
<1>10. ASSUME NEW t \in ToSet(AgentTabs(TabsIn(right)' \o FloatTabs')) PROVE t.of \in live
  <2>1. TabsIn(right') \in Seq(SideTab) /\ Ids(TabsIn(right')) = TabIds(right')
    BY <1>2, TabsInIs
  <2>2. /\ TabsIn(right') \o FloatTabs' \in Seq(SideTab)
        /\ ToSet(TabsIn(right') \o FloatTabs') = ToSet(TabsIn(right')) \cup ToSet(FloatTabs')
    BY <2>1, <1>3, RowsJoin
  <2>3. t \in ToSet(TabsIn(right')) \cup ToSet(FloatTabs') /\ t.kind = "terminal" /\ t \in SideTab
    <3>1. ToSet(AgentTabs(TabsIn(right') \o FloatTabs')) = {u \in ToSet(TabsIn(right') \o FloatTabs') : u.kind = "terminal"}
      BY <2>2, AgentTabsAre
    <3>2. t \in ToSet(TabsIn(right')) \cup ToSet(FloatTabs') /\ t.kind = "terminal"
      BY <3>1, <2>2
    <3> QED BY <3>2, <2>1, <1>3 DEF ToSet
  <2>4. t.id \in TabIds(right') \cup Ids(FloatTabs')
    BY <2>1, <2>3 DEF Ids, ToSet
  <2>5. t.of \in Agent /\ t.id = <<"agent", t.of>>
    BY <2>3, AgentTabIs
  <2>6. SUFFICES ASSUME t.of \notin live PROVE FALSE
    OBVIOUS
  <2>7. t.id \notin Ids(fresh)
    BY <2>5, <2>6, <1>6
  <2>8. t.id \in TabIds(right) \cup Ids(FloatTabs) /\ t.id \in TabIds(tree) \cup Ids(FloatTabs')
    BY <2>4, <2>7, <1>5, <1>8
  <2>9. t.id \in Ids(gone)
    BY <2>5, <2>6, <2>8, <1>3, <1>4
  <2>10. Once(right, t.id)
    BY <2>5, <1>2 DEF NamedPlaced, Named, Placed
  <2> QED BY <2>8, <2>9, <2>10, <1>5, <1>7
<1> QED BY <1>9, <1>10

\* The tabs of the model's terminals follow the list that the host pushes.
THEOREM TabsFollow == LayoutSpec => TabsFollowTerminals
<1>1. LayoutInv /\ LayoutInv' /\ [LayoutNext]_layoutVars
      => [Edited => \A live \in SUBSET Agent : Reconcile(live) =>
            /\ \A a \in live : <<"agent", a>> \in Ids(OpenTabs')
            /\ \A t \in ToSet(AgentTabs(TabsIn(right)' \o FloatTabs')) : t.of \in live]_layoutVars
  BY FollowStep
<1> QED BY <1>1, LayoutKept, PTL DEF LayoutSpec, TabsFollowTerminals

-------------------------------------------------------------------------------
(* What a reload keeps                                                         *)

\* The tabs kept of a row, one by one.
LEMMA KeptUnfolds ==
  ASSUME NEW s \in Seq(SideTab)
  PROVE  \E f \in [0 .. Len(s) -> Seq(SideTab)] :
           /\ Kept(s) = f[Len(s)] /\ f[0] = <<>>
           /\ \A n \in 1 .. Len(s) : f[n] = IF s[n].kind # "diff" THEN Append(f[n - 1], s[n]) ELSE f[n - 1]
<1> DEFINE I == {i \in DOMAIN s : s[i].kind # "diff"}
<1>2. (\A n \in 1 .. Len(s) : n \in I <=> s[n].kind # "diff") /\ Kept(s) = Only(s, I)
  BY DEF Kept
<1> HIDE DEF I
<1>1. PICK f \in [0 .. Len(s) -> Seq(SideTab)] :
           /\ Only(s, I) = f[Len(s)] /\ f[0] = <<>>
           /\ \A n \in 1 .. Len(s) : f[n] = IF n \in I THEN Append(f[n - 1], s[n]) ELSE f[n - 1]
  BY OnlyUnfolds
<1>4. \A n \in 1 .. Len(s) : f[n] = IF s[n].kind # "diff" THEN Append(f[n - 1], s[n]) ELSE f[n - 1]
  BY <1>1, <1>2
<1> QED BY <1>1, <1>2, <1>4

LEMMA AppendLast ==
  ASSUME NEW S, NEW a \in Seq(S), NEW b \in Seq(S), NEW x \in S
  PROVE  a \o Append(b, x) = Append(a \o b, x)
<1>1. /\ Append(b, x) = b \o <<x>> /\ a \o b \in Seq(S) /\ <<x>> \in Seq(S)
      /\ Append(a \o b, x) = (a \o b) \o <<x>>
  BY AppendIsConcat, ConcatProperties
<1>2. (a \o b) \o <<x>> = a \o (b \o <<x>>)
  BY <1>1, ConcatAssociative
<1> QED BY <1>1, <1>2

\* The tabs kept of two rows.
LEMMA KeptJoin ==
  ASSUME NEW s \in Seq(SideTab), NEW u \in Seq(SideTab)
  PROVE  Kept(s \o u) = Kept(s) \o Kept(u)
<1> DEFINE c == s \o u
<1>1. /\ c \in Seq(SideTab) /\ Len(c) = Len(s) + Len(u) /\ Len(s) \in Nat /\ Len(u) \in Nat
      /\ \A k \in 1 .. Len(s) : c[k] = s[k]
      /\ \A k \in 1 .. Len(u) : c[Len(s) + k] = u[k]
  BY ConcatIs
<1> HIDE DEF c
<1>2. PICK f \in [0 .. Len(c) -> Seq(SideTab)] :
           /\ Kept(c) = f[Len(c)] /\ f[0] = <<>>
           /\ \A n \in 1 .. Len(c) : f[n] = IF c[n].kind # "diff" THEN Append(f[n - 1], c[n]) ELSE f[n - 1]
  BY <1>1, KeptUnfolds
<1>3. PICK g \in [0 .. Len(s) -> Seq(SideTab)] :
           /\ Kept(s) = g[Len(s)] /\ g[0] = <<>>
           /\ \A n \in 1 .. Len(s) : g[n] = IF s[n].kind # "diff" THEN Append(g[n - 1], s[n]) ELSE g[n - 1]
  BY KeptUnfolds
<1>4. PICK h \in [0 .. Len(u) -> Seq(SideTab)] :
           /\ Kept(u) = h[Len(u)] /\ h[0] = <<>>
           /\ \A n \in 1 .. Len(u) : h[n] = IF u[n].kind # "diff" THEN Append(h[n - 1], u[n]) ELSE h[n - 1]
  BY KeptUnfolds
<1> DEFINE T == {n \in 0 .. Len(s) : f[n] = g[n]}
<1>5. 0 \in T
  BY <1>1, <1>2, <1>3
<1>6. ASSUME NEW n \in 0 .. Len(s) - 1, n \in T PROVE n + 1 \in T
  <2>1. n + 1 \in 1 .. Len(s) /\ n + 1 \in 1 .. Len(c) /\ (n + 1) - 1 = n /\ n + 1 \in 0 .. Len(s)
    BY <1>1
  <2>2. f[n + 1] = IF c[n + 1].kind # "diff" THEN Append(f[n], c[n + 1]) ELSE f[n]
    BY <2>1, <1>2
  <2>3. g[n + 1] = IF s[n + 1].kind # "diff" THEN Append(g[n], s[n + 1]) ELSE g[n]
    BY <2>1, <1>3
  <2>4. c[n + 1] = s[n + 1] /\ f[n] = g[n]
    BY <2>1, <1>1, <1>6
  <2>5. f[n + 1] = g[n + 1]
    BY <2>2, <2>3, <2>4
  <2> QED BY <2>1, <2>5
<1>7. f[Len(s)] = Kept(s) /\ Kept(s) \in Seq(SideTab)
  <2>1. Len(s) \in T
    <3> HIDE DEF T
    <3>1. \A n \in 0 .. Len(s) : n \in T
      BY <1>1, <1>5, <1>6, Inductive
    <3> QED BY <3>1, <1>1
  <2> QED BY <2>1, <1>1, <1>3
<1> DEFINE a == Kept(s)
           U == {n \in 0 .. Len(u) : f[Len(s) + n] = a \o h[n]}
<1> HIDE DEF a
<1>8. a \in Seq(SideTab) /\ f[Len(s)] = a
  BY <1>7 DEF a
<1>9. 0 \in U
  <2>1. Len(s) + 0 = Len(s) /\ 0 \in 0 .. Len(u)
    BY <1>1
  <2>2. a \o h[0] = a
    BY <1>4, <1>8, ConcatEmptySeq
  <2> QED BY <2>1, <2>2, <1>8
<1>10. ASSUME NEW n \in 0 .. Len(u) - 1, n \in U PROVE n + 1 \in U
  <2>1. /\ n + 1 \in 1 .. Len(u) /\ n \in 0 .. Len(u) /\ n + 1 \in 0 .. Len(u) /\ (n + 1) - 1 = n
        /\ Len(s) + (n + 1) \in 1 .. Len(c) /\ (Len(s) + (n + 1)) - 1 = Len(s) + n
    BY <1>1
  <2>2. c[Len(s) + (n + 1)] = u[n + 1] /\ u[n + 1] \in SideTab /\ h[n] \in Seq(SideTab)
    BY <2>1, <1>1, <1>4
  <2>3. f[Len(s) + (n + 1)] = IF u[n + 1].kind # "diff" THEN Append(f[Len(s) + n], u[n + 1]) ELSE f[Len(s) + n]
    BY <2>1, <2>2, <1>2
  <2>4. h[n + 1] = IF u[n + 1].kind # "diff" THEN Append(h[n], u[n + 1]) ELSE h[n]
    BY <2>1, <1>4
  <2>5. f[Len(s) + n] = a \o h[n]
    BY <1>10
  <2>6. a \o Append(h[n], u[n + 1]) = Append(a \o h[n], u[n + 1])
    BY <2>2, <1>8, AppendLast
  <2>7. f[Len(s) + (n + 1)] = a \o h[n + 1]
    BY <2>3, <2>4, <2>5, <2>6
  <2> QED BY <2>1, <2>7
<1>11. f[Len(c)] = a \o Kept(u)
  <2>1. Len(u) \in U
    <3> HIDE DEF U
    <3>1. \A n \in 0 .. Len(u) : n \in U
      BY <1>1, <1>9, <1>10, Inductive
    <3>2. Len(u) \in 0 .. Len(u)
      BY <1>1
    <3> HIDE DEF T
    <3> QED BY <3>1, <3>2
  <2> QED BY <2>1, <1>1, <1>4
<1> QED BY <1>2, <1>11 DEF a, c

\* The rows of tabs of a tree.
Rows(t) == [i \in DOMAIN t.panes |-> t.panes[i].tabs]

LEMMA RowsAre ==
  ASSUME NEW t, Good(t)
  PROVE  /\ Rows(t) \in Seq(Seq(SideTab)) /\ Rows(t) # <<>> /\ Len(Rows(t)) = Len(t.panes)
         /\ TabsIn(t) = FlattenSeq(Rows(t)) /\ \A i \in 1 .. Len(t.panes) : Rows(t)[i] = t.panes[i].tabs
<1>1. /\ Len(t.panes) \in Nat \ {0} /\ DOMAIN t.panes = 1 .. Len(t.panes)
      /\ \A i \in 1 .. Len(t.panes) : t.panes[i].tabs \in Seq(SideTab)
  BY GoodHas DEF LeafSet
<1>2. Rows(t) \in [1 .. Len(t.panes) -> Seq(SideTab)]
  BY <1>1 DEF Rows
<1>3. Rows(t) \in Seq(Seq(SideTab)) /\ Len(Rows(t)) = Len(t.panes)
  BY <1>1, <1>2, IsASeq
<1>4. Rows(t) # <<>>
  BY <1>1, <1>3
<1> QED BY <1>1, <1>3, <1>4 DEF Rows, TabsIn

\* What is kept of a concatenation of rows.
LEMMA FlattenKept ==
  ASSUME NEW ss \in Seq(Seq(SideTab)), ss # <<>>, NEW kk \in Seq(Seq(SideTab)), Len(kk) = Len(ss),
         \A i \in 1 .. Len(ss) : kk[i] = Kept(ss[i])
  PROVE  FlattenSeq(kk) = Kept(FlattenSeq(ss))
<1> DEFINE N == Len(ss)
<1>0. N \in Nat \ {0} /\ kk # <<>> /\ \A i \in 1 .. N : ss[i] \in Seq(SideTab)
  OBVIOUS
<1>1. PICK f \in [1 .. N -> Seq(SideTab)] :
           /\ FlattenSeq(ss) = f[N] /\ f[1] = ss[1]
           /\ \A n \in 2 .. N : f[n] = f[n - 1] \o ss[n]
  BY <1>0, FlattenUnfolds
<1>2. PICK g \in [1 .. N -> Seq(SideTab)] :
           /\ FlattenSeq(kk) = g[N] /\ g[1] = kk[1]
           /\ \A n \in 2 .. N : g[n] = g[n - 1] \o kk[n]
  <2>1. \E g \in [1 .. Len(kk) -> Seq(SideTab)] :
           /\ FlattenSeq(kk) = g[Len(kk)] /\ g[1] = kk[1]
           /\ \A n \in 2 .. Len(kk) : g[n] = g[n - 1] \o kk[n]
    BY <1>0, FlattenUnfolds
  <2>2. Len(kk) = N
    OBVIOUS
  <2> HIDE DEF N
  <2> QED BY <2>1, <2>2
<1> DEFINE T == {n \in 0 .. N - 1 : g[n + 1] = Kept(f[n + 1])}
<1>3. 0 \in T
  <2>1. 0 + 1 = 1 /\ 0 \in 0 .. N - 1 /\ 1 \in 1 .. N
    BY <1>0
  <2> HIDE DEF N
  <2> QED BY <2>1, <1>1, <1>2
<1>4. ASSUME NEW n \in 0 .. (N - 1) - 1, n \in T PROVE n + 1 \in T
  <2>1. /\ n + 1 \in 0 .. N - 1 /\ n + 1 \in 1 .. N /\ n + 2 \in 2 .. N /\ n + 2 \in 1 .. N
        /\ (n + 2) - 1 = n + 1 /\ (n + 1) + 1 = n + 2
    BY <1>0
  <2>2. f[n + 2] = f[n + 1] \o ss[n + 2] /\ g[n + 2] = g[n + 1] \o kk[n + 2]
    BY <2>1, <1>1, <1>2
  <2>3. kk[n + 2] = Kept(ss[n + 2]) /\ g[n + 1] = Kept(f[n + 1]) /\ f[n + 1] \in Seq(SideTab) /\ ss[n + 2] \in Seq(SideTab)
    BY <2>1, <1>0, <1>1, <1>4
  <2>4. Kept(f[n + 1] \o ss[n + 2]) = Kept(f[n + 1]) \o Kept(ss[n + 2])
    BY <2>3, KeptJoin
  <2>5. g[n + 2] = Kept(f[n + 2])
    BY <2>2, <2>3, <2>4
  <2> QED BY <2>1, <2>5
<1>5. N - 1 \in T
  <2>1. N - 1 \in Nat /\ N - 1 \in 0 .. N - 1
    BY <1>0
  <2> HIDE DEF T, N
  <2>2. \A n \in 0 .. N - 1 : n \in T
    BY <1>3, <1>4, <2>1, Inductive
  <2> QED BY <2>1, <2>2
<1>6. g[(N - 1) + 1] = Kept(f[(N - 1) + 1])
  <2> HIDE DEF N
  <2> QED BY <1>5
<1>7. (N - 1) + 1 = N
  BY <1>0
<1> HIDE DEF N
<1> QED BY <1>1, <1>2, <1>6, <1>7

\* An empty row in a concatenation of rows makes no difference.
LEMMA FlattenWithout ==
  ASSUME NEW S, NEW ss \in Seq(Seq(S)), NEW i \in 1 .. Len(ss), ss[i] = <<>>, NEW kk \in Seq(Seq(S)), kk # <<>>,
         Len(kk) = Len(ss) - 1, \A k \in 1 .. Len(ss) - 1 : kk[k] = IF k < i THEN ss[k] ELSE ss[k + 1]
  PROVE  FlattenSeq(kk) = FlattenSeq(ss)
<1> DEFINE N == Len(kk)
<1>0. /\ N \in Nat \ {0} /\ Len(ss) = N + 1 /\ ss # <<>> /\ i \in Int /\ 1 <= i /\ i <= N + 1
      /\ \A n \in 1 .. N + 1 : ss[n] \in Seq(S)
      /\ \A k \in 1 .. N : kk[k] = IF k < i THEN ss[k] ELSE ss[k + 1]
  <2>1. N \in Nat \ {0} /\ Len(ss) \in Nat
    BY EmptySeq, LenProperties
  <2>2. Len(ss) = N + 1 /\ \A n \in 1 .. Len(ss) : ss[n] \in Seq(S)
    BY <2>1, ElementOfSeq
  <2>3. ss # <<>> /\ Len(ss) - 1 = N
    BY <2>1, <2>2
  <2> HIDE DEF N
  <2> QED BY <2>1, <2>2, <2>3
<1>1. PICK f \in [1 .. N + 1 -> Seq(S)] :
           /\ FlattenSeq(ss) = f[N + 1] /\ f[1] = ss[1]
           /\ \A n \in 2 .. N + 1 : f[n] = f[n - 1] \o ss[n]
  <2>1. ss # <<>> /\ Len(ss) = N + 1
    BY <1>0
  <2>2. \E f \in [1 .. Len(ss) -> Seq(S)] :
           /\ FlattenSeq(ss) = f[Len(ss)] /\ f[1] = ss[1]
           /\ \A n \in 2 .. Len(ss) : f[n] = f[n - 1] \o ss[n]
    BY <2>1, FlattenUnfolds
  <2> HIDE DEF N
  <2> QED BY <2>1, <2>2
<1>2. PICK g \in [1 .. N -> Seq(S)] :
           /\ FlattenSeq(kk) = g[N] /\ g[1] = kk[1]
           /\ \A n \in 2 .. N : g[n] = g[n - 1] \o kk[n]
  BY FlattenUnfolds
<1> HIDE DEF N
<1>3. ASSUME NEW k \in 1 .. N, k + 1 = i PROVE f[k + 1] = f[k]
  <2>1. k + 1 \in 2 .. N + 1 /\ (k + 1) - 1 = k /\ k \in 1 .. N + 1
    BY <1>0
  <2>2. f[k + 1] = f[k] \o ss[k + 1] /\ ss[k + 1] = <<>> /\ f[k] \in Seq(S)
    BY <2>1, <1>1, <1>3
  <2> QED BY <2>2, ConcatEmptySeq
<1> DEFINE T == {n \in 0 .. N - 1 : g[n + 1] = IF n + 1 < i THEN f[n + 1] ELSE f[n + 2]}
<1>4. 0 \in T
  <2>1. 0 + 1 = 1 /\ 0 + 2 = 2 /\ 0 \in 0 .. N - 1 /\ 1 \in 1 .. N /\ 2 \in 2 .. N + 1 /\ 2 - 1 = 1 /\ 1 + 1 = 2 /\ 1 \in 1 .. N + 1
    BY <1>0
  <2>2. CASE 1 < i
    BY <2>1, <2>2, <1>0, <1>1, <1>2
  <2>3. CASE ~(1 < i)
    <3>1. i = 1
      BY <2>3, <1>0
    <3>2. f[1] = <<>> /\ f[2] = f[1] \o ss[2] /\ ss[2] \in Seq(S)
      <4>1. ss[1] = <<>>
        BY <3>1
      <4>2. 2 \in 1 .. N + 1
        BY <1>0
      <4> QED BY <4>1, <4>2, <2>1, <1>0, <1>1
    <3>3. f[2] = ss[2]
      BY <3>2, ConcatEmptySeq
    <3>4. g[1] = ss[2]
      BY <2>1, <2>3, <1>0, <1>2
    <3> QED BY <3>3, <3>4, <2>1, <2>3
  <2> QED BY <2>2, <2>3
<1>5. ASSUME NEW n \in 0 .. (N - 1) - 1, n \in T PROVE n + 1 \in T
  <2>1. /\ n + 1 \in 0 .. N - 1 /\ n + 1 \in 1 .. N /\ n + 2 \in 2 .. N /\ n + 2 \in 1 .. N /\ n + 2 \in 2 .. N + 1
        /\ n + 3 \in 2 .. N + 1 /\ (n + 2) - 1 = n + 1 /\ (n + 3) - 1 = n + 2 /\ (n + 2) + 1 = n + 3
        /\ (n + 1) + 1 = n + 2 /\ (n + 1) + 2 = n + 3 /\ n \in Int
    BY <1>0
  <2>2. f[n + 2] = f[n + 1] \o ss[n + 2] /\ f[n + 3] = f[n + 2] \o ss[n + 3] /\ g[n + 2] = g[n + 1] \o kk[n + 2]
    BY <2>1, <1>1, <1>2
  <2>3. kk[n + 2] = (IF n + 2 < i THEN ss[n + 2] ELSE ss[n + 3]) /\ g[n + 1] = (IF n + 1 < i THEN f[n + 1] ELSE f[n + 2])
    BY <2>1, <1>0, <1>5
  <2>4. n + 2 = i => f[n + 2] = f[n + 1]
    BY <2>1, <1>3
  <2>5. CASE n + 2 < i
    <3>1. n + 1 < i
      BY <2>1, <2>5, <1>0
    <3> QED BY <3>1, <2>1, <2>2, <2>3, <2>5
  <2>6. CASE n + 2 = i
    <3>1. n + 1 < i /\ ~(n + 2 < i)
      BY <2>1, <2>6, <1>0
    <3>2. g[n + 2] = f[n + 1] \o ss[n + 3] /\ f[n + 2] = f[n + 1]
      BY <3>1, <2>2, <2>3, <2>4, <2>6
    <3> QED BY <3>1, <3>2, <2>1, <2>2
  <2>7. CASE i < n + 2
    <3>1. ~(n + 1 < i) /\ ~(n + 2 < i)
      BY <2>1, <2>7, <1>0
    <3> QED BY <3>1, <2>1, <2>2, <2>3
  <2> QED BY <2>1, <2>5, <2>6, <2>7, <1>0
<1>6. N - 1 \in T
  <2>1. N - 1 \in Nat /\ N - 1 \in 0 .. N - 1
    BY <1>0
  <2> HIDE DEF T
  <2>2. \A n \in 0 .. N - 1 : n \in T
    BY <1>4, <1>5, <2>1, Inductive
  <2> QED BY <2>1, <2>2
<1>7. (N - 1) + 1 = N /\ (N - 1) + 2 = N + 1 /\ N \in 1 .. N
  BY <1>0
<1>8. g[N] = IF N < i THEN f[N] ELSE f[N + 1]
  BY <1>6, <1>7
<1>9. N < i => N + 1 = i
  BY <1>0
<1> QED BY <1>1, <1>2, <1>3, <1>7, <1>8, <1>9

\* A leaf without tabs can go: the tabs stay in their order.
LEMMA EmptyLeafGoes ==
  ASSUME NEW t, Good(t), NEW pane, pane \in Panes(t) => LeafAt(t, pane).tabs = <<>>
  PROVE  LET r == RemoveLeafAt(t, pane)
         IN /\ Good(r) /\ TabsIn(r) = TabsIn(t)
            /\ \A p \in Panes(r) : p \in Panes(t) /\ LeafAt(r, p).tabs = LeafAt(t, p).tabs
<1> DEFINE r == RemoveLeafAt(t, pane)
<1>1. CASE pane \notin Panes(t)
  <2>1. r = t
    BY <1>1 DEF RemoveLeafAt
  <2> QED BY <2>1
<1>2. CASE pane \in Panes(t)
  <2> DEFINE i == IndexOf(t, pane)
  <2>1. /\ Good(r) /\ Panes(r) \subseteq Panes(t)
        /\ \A p \in Panes(r) \ {pane} : LeafAt(r, p) = LeafAt(t, p)
        /\ pane \in Panes(r) => LeafAt(r, pane) = Leaf(pane, <<>>, None)
        /\ IF Len(t.panes) = 1 THEN r.panes = <<Leaf(pane, <<>>, None)>> ELSE r.panes = RemoveAt(t.panes, i)
    BY <1>2, RemoveLeafIs
  <2>2. i \in 1 .. Len(t.panes) /\ t.panes[i].id = pane /\ t.panes[i].tabs = <<>>
    BY <1>2, LeafIs DEF LeafAt
  <2> HIDE DEF i, r
  <2>3. \A p \in Panes(r) : p \in Panes(t) /\ LeafAt(r, p).tabs = LeafAt(t, p).tabs
    <3>1. Leaf(pane, <<>>, None).tabs = <<>>
      BY DEF Leaf
    <3> QED BY <3>1, <2>1, <1>2
  <2>4. TabsIn(r) = TabsIn(t)
    <3>1. CASE Len(t.panes) = 1
      <4>1. \A p \in Panes(t) : p = pane
        <5>1. DOMAIN t.panes = 1 .. Len(t.panes) /\ Len(t.panes) \in Nat
          BY GoodHas
        <5>2. \A k \in DOMAIN t.panes : k = i
          BY <5>1, <3>1, <2>2
        <5> QED BY <5>2, <2>2, PanesAre
      <4>2. TabIds(t) = {} /\ TabIds(r) = {}
        BY <4>1, <2>1, <2>3, <1>2, TabIdsAre, NoTabs
      <4> QED BY <4>2, <2>1, TabsInIs, EmptyOrNot
    <3>2. CASE Len(t.panes) # 1
      <4>1. /\ Rows(t) \in Seq(Seq(SideTab)) /\ Len(Rows(t)) = Len(t.panes) /\ TabsIn(t) = FlattenSeq(Rows(t))
            /\ \A k \in 1 .. Len(t.panes) : Rows(t)[k] = t.panes[k].tabs
        BY RowsAre
      <4>2. /\ Rows(r) \in Seq(Seq(SideTab)) /\ Rows(r) # <<>> /\ Len(Rows(r)) = Len(r.panes)
            /\ TabsIn(r) = FlattenSeq(Rows(r)) /\ \A k \in 1 .. Len(r.panes) : Rows(r)[k] = r.panes[k].tabs
        BY <2>1, RowsAre
      <4>3. /\ Len(r.panes) = Len(t.panes) - 1 /\ Len(t.panes) \in Nat
            /\ \A k \in 1 .. Len(t.panes) - 1 : r.panes[k] = IF k < i THEN t.panes[k] ELSE t.panes[k + 1]
        <5>1. t.panes \in Seq(LeafSet) /\ Len(t.panes) \in Nat
          BY GoodHas
        <5>2. r.panes = RemoveAt(t.panes, i)
          BY <2>1, <3>2
        <5>3. PICK s : s = t.panes
          OBVIOUS
        <5>4. s \in Seq(LeafSet) /\ i \in 1 .. Len(s)
          BY <5>1, <5>3, <2>2
        <5>5. /\ Len(RemoveAt(s, i)) = Len(s) - 1
              /\ \A k \in 1 .. Len(s) - 1 : RemoveAt(s, i)[k] = IF k < i THEN s[k] ELSE s[k + 1]
          BY <5>4, RemoveAtIs
        <5> QED BY <5>1, <5>2, <5>3, <5>5
      <4>4. \A k \in 1 .. Len(t.panes) - 1 : Rows(r)[k] = IF k < i THEN Rows(t)[k] ELSE Rows(t)[k + 1]
        <5> TAKE k \in 1 .. Len(t.panes) - 1
        <5>1. k \in 1 .. Len(t.panes) /\ k + 1 \in 1 .. Len(t.panes) /\ k \in 1 .. Len(r.panes)
          BY <4>3
        <5> QED BY <5>1, <4>1, <4>2, <4>3
      <4>5. Rows(t)[i] = <<>> /\ i \in 1 .. Len(Rows(t))
        BY <4>1, <2>2
      <4>6. Len(Rows(r)) = Len(Rows(t)) - 1 /\ Len(Rows(t)) = Len(t.panes)
        BY <4>1, <4>2, <4>3
      <4>7. FlattenSeq(Rows(r)) = FlattenSeq(Rows(t))
        <5>1. \A k \in 1 .. Len(Rows(t)) - 1 : Rows(r)[k] = IF k < i THEN Rows(t)[k] ELSE Rows(t)[k + 1]
          BY <4>4, <4>6
        <5>2. PICK ss : ss = Rows(t)
          OBVIOUS
        <5>3. PICK kk : kk = Rows(r)
          OBVIOUS
        <5>4. /\ ss \in Seq(Seq(SideTab)) /\ i \in 1 .. Len(ss) /\ ss[i] = <<>> /\ kk \in Seq(Seq(SideTab)) /\ kk # <<>>
              /\ Len(kk) = Len(ss) - 1 /\ \A k \in 1 .. Len(ss) - 1 : kk[k] = IF k < i THEN ss[k] ELSE ss[k + 1]
          BY <5>1, <5>2, <5>3, <4>1, <4>2, <4>5, <4>6
        <5>5. FlattenSeq(kk) = FlattenSeq(ss)
          BY <5>4, FlattenWithout
        <5> QED BY <5>2, <5>3, <5>5
      <4> QED BY <4>1, <4>2, <4>7
    <3> QED BY <3>1, <3>2
  <2> QED BY <2>1, <2>3, <2>4 DEF r
<1> QED BY <1>1, <1>2

\* Pruning the empty panes keeps the tabs in their order.
LEMMA PruneKeepsTabs ==
  ASSUME NEW t, Good(t)
  PROVE  TabsIn(PruneEmptyPanes(t)) = TabsIn(t)
<1>1. CASE TabIds(t) = {}
  BY <1>1 DEF PruneEmptyPanes
<1>2. CASE TabIds(t) # {}
  <2> DEFINE N == Len(t.panes)
             U == {i \in DOMAIN t.panes : t.panes[i].tabs = <<>>}
  <2>1. PruneEmptyPanes(t) = RemoveLeaves(t, U)
    BY <1>2 DEF PruneEmptyPanes
  <2>2. \A n \in 1 .. N : n \in U => t.panes[n].tabs = <<>>
    OBVIOUS
  <2> HIDE DEF U
  <2>3. PICK f : /\ \A n \in 0 .. N : Yields(t, f[n], 0, 0, <<>>) /\ Nodes(f[n]) \subseteq Nodes(t)
                 /\ RemoveLeaves(t, U) = f[N] /\ f[0] = t
                 /\ \A n \in 1 .. N : f[n] = IF n \in U THEN RemoveLeafAt(f[n - 1], t.panes[n].id) ELSE f[n - 1]
    BY RemoveLeavesUnfolds
  <2>4. N \in Nat /\ \A n \in 1 .. N : t.panes[n].id \in Panes(t) /\ LeafAt(t, t.panes[n].id) = t.panes[n]
    BY GoodHas, LeafIs
  <2> HIDE DEF N
  <2> DEFINE T == {n \in 0 .. N : /\ TabsIn(f[n]) = TabsIn(t)
                                  /\ \A p \in Panes(f[n]) : p \in Panes(t) /\ LeafAt(f[n], p).tabs = LeafAt(t, p).tabs}
  <2>5. 0 \in T
    BY <2>3, <2>4
  <2>6. ASSUME NEW n \in 0 .. N - 1, n \in T PROVE n + 1 \in T
    <3>1. n + 1 \in 1 .. N /\ n + 1 \in 0 .. N /\ n \in 0 .. N /\ (n + 1) - 1 = n
      BY <2>4
    <3>2. /\ f[n + 1] = IF n + 1 \in U THEN RemoveLeafAt(f[n], t.panes[n + 1].id) ELSE f[n]
          /\ Good(f[n])
      BY <3>1, <2>3 DEF Yields
    <3>3. CASE n + 1 \notin U
      BY <3>1, <3>2, <3>3, <2>6
    <3>4. CASE n + 1 \in U
      <4> DEFINE pane == t.panes[n + 1].id
      <4>1. LeafAt(t, pane).tabs = <<>>
        BY <3>1, <3>4, <2>2, <2>4
      <4>2. pane \in Panes(f[n]) => LeafAt(f[n], pane).tabs = <<>>
        BY <4>1, <2>6
      <4>3. f[n + 1] = RemoveLeafAt(f[n], pane)
        BY <3>2, <3>4
      <4> HIDE DEF pane
      <4>4. PICK u : u = f[n]
        OBVIOUS
      <4>5. Good(u) /\ (pane \in Panes(u) => LeafAt(u, pane).tabs = <<>>)
        BY <4>2, <4>4, <3>2
      <4>6. /\ TabsIn(RemoveLeafAt(u, pane)) = TabsIn(u)
            /\ \A p \in Panes(RemoveLeafAt(u, pane)) :
                 p \in Panes(u) /\ LeafAt(RemoveLeafAt(u, pane), p).tabs = LeafAt(u, p).tabs
        BY <4>5, EmptyLeafGoes
      <4> QED BY <4>3, <4>4, <4>6, <3>1, <2>6
    <3> QED BY <3>3, <3>4
  <2>7. N \in T
    <3> HIDE DEF T
    <3>1. \A n \in 0 .. N : n \in T
      BY <2>4, <2>5, <2>6, Inductive
    <3> QED BY <3>1, <2>4
  <2> QED BY <2>1, <2>3, <2>7
<1> QED BY <1>1, <1>2

\* What a reload brings back of a tree: its tabs but for the diffs.
LEMMA RestoredTabs ==
  ASSUME NEW t, Good(t)
  PROVE  TabsIn(PruneEmptyPanes(Sanitized(t))) = Kept(TabsIn(t))
<1> DEFINE r == Sanitized(t)
<1>1. /\ Good(r) /\ Len(r.panes) = Len(t.panes)
      /\ \A i \in 1 .. Len(t.panes) : r.panes[i].tabs = Kept(t.panes[i].tabs)
  BY SanitizedIs DEF Yields
<1> HIDE DEF r
<1>2. TabsIn(PruneEmptyPanes(r)) = TabsIn(r)
  BY <1>1, PruneKeepsTabs
<1>3. PICK ss, kk : ss = Rows(t) /\ kk = Rows(r)
  OBVIOUS
<1>4. /\ ss \in Seq(Seq(SideTab)) /\ ss # <<>> /\ Len(ss) = Len(t.panes) /\ TabsIn(t) = FlattenSeq(ss)
      /\ \A k \in 1 .. Len(t.panes) : ss[k] = t.panes[k].tabs
  BY <1>3, RowsAre
<1>5. /\ kk \in Seq(Seq(SideTab)) /\ Len(kk) = Len(r.panes) /\ TabsIn(r) = FlattenSeq(kk)
      /\ \A k \in 1 .. Len(r.panes) : kk[k] = r.panes[k].tabs
  BY <1>1, <1>3, RowsAre
<1>6. Len(kk) = Len(ss) /\ \A i \in 1 .. Len(ss) : kk[i] = Kept(ss[i])
  BY <1>1, <1>4, <1>5
<1>7. FlattenSeq(kk) = Kept(FlattenSeq(ss))
  BY <1>4, <1>5, <1>6, FlattenKept
<1> QED BY <1>2, <1>4, <1>5, <1>7 DEF r

\* The windows that are kept show the tabs that are kept, in their order.
LEMMA WindowsKept ==
  ASSUME NEW w \in Seq(FloatSet), NEW I, \A i \in 1 .. Len(w) : i \in I <=> w[i].tab.kind # "diff"
  PROVE  WindowTabs(Only(w, I)) = Kept(WindowTabs(w))
<1> DEFINE s == WindowTabs(w)
<1>1. s \in Seq(SideTab) /\ Len(s) = Len(w) /\ Len(w) \in Nat /\ \A i \in 1 .. Len(w) : s[i] = w[i].tab /\ w[i] \in FloatSet
  <2>0. DOMAIN w = 1 .. Len(w) /\ Len(w) \in Nat /\ \A i \in 1 .. Len(w) : w[i] \in FloatSet
    BY LenProperties, ElementOfSeq
  <2>1. \A i \in 1 .. Len(w) : w[i].tab \in SideTab
    BY <2>0 DEF FloatSet
  <2>2. s \in [1 .. Len(w) -> SideTab] /\ \A i \in 1 .. Len(w) : s[i] = w[i].tab
    BY <2>0, <2>1 DEF WindowTabs
  <2> HIDE DEF s
  <2> QED BY <2>0, <2>2, IsASeq
<1> HIDE DEF s
<1>2. PICK f \in [0 .. Len(w) -> Seq(FloatSet)] :
           /\ Only(w, I) = f[Len(w)] /\ f[0] = <<>>
           /\ \A n \in 1 .. Len(w) : f[n] = IF n \in I THEN Append(f[n - 1], w[n]) ELSE f[n - 1]
  BY OnlyUnfolds
<1>3. PICK g \in [0 .. Len(s) -> Seq(SideTab)] :
           /\ Kept(s) = g[Len(s)] /\ g[0] = <<>>
           /\ \A n \in 1 .. Len(s) : g[n] = IF s[n].kind # "diff" THEN Append(g[n - 1], s[n]) ELSE g[n - 1]
  BY <1>1, KeptUnfolds
<1> DEFINE T == {n \in 0 .. Len(w) : WindowTabs(f[n]) = g[n]}
<1>4. 0 \in T
  <2>1. PICK e : e = f[0]
    OBVIOUS
  <2>2. e = <<>>
    BY <2>1, <1>2
  <2>3. WindowTabs(e) = <<>>
    BY <2>2 DEF WindowTabs
  <2> QED BY <2>1, <2>3, <1>1, <1>3
<1>5. ASSUME NEW n \in 0 .. Len(w) - 1, n \in T PROVE n + 1 \in T
  <2>1. n + 1 \in 1 .. Len(w) /\ n + 1 \in 0 .. Len(w) /\ n \in 0 .. Len(w) /\ (n + 1) - 1 = n /\ n + 1 \in 1 .. Len(s)
    BY <1>1
  <2>2. f[n + 1] = (IF n + 1 \in I THEN Append(f[n], w[n + 1]) ELSE f[n]) /\ f[n] \in Seq(FloatSet)
    BY <2>1, <1>2
  <2>3. g[n + 1] = IF s[n + 1].kind # "diff" THEN Append(g[n], s[n + 1]) ELSE g[n]
    BY <2>1, <1>3
  <2>4. s[n + 1] = w[n + 1].tab /\ w[n + 1] \in FloatSet /\ (n + 1 \in I <=> w[n + 1].tab.kind # "diff")
    BY <2>1, <1>1
  <2>5. WindowTabs(Append(f[n], w[n + 1])) = Append(WindowTabs(f[n]), w[n + 1].tab)
    <3>1. PICK v \in Seq(FloatSet) : v = f[n]
      BY <2>2
    <3>2. PICK x \in FloatSet : x = w[n + 1]
      BY <2>4
    <3>3. WindowTabs(Append(v, x)) = Append(WindowTabs(v), x.tab)
      BY DEF WindowTabs, FloatSet
    <3> QED BY <3>1, <3>2, <3>3
  <2>6. WindowTabs(f[n]) = g[n]
    BY <1>5
  <2>7. WindowTabs(f[n + 1]) = g[n + 1]
    BY <2>2, <2>3, <2>4, <2>5, <2>6
  <2> QED BY <2>1, <2>7
<1>6. Len(w) \in T
  <2> HIDE DEF T
  <2>1. \A n \in 0 .. Len(w) : n \in T
    BY <1>1, <1>4, <1>5, Inductive
  <2>2. Len(w) \in 0 .. Len(w)
    BY <1>1
  <2> QED BY <2>1, <2>2
<1> QED BY <1>1, <1>2, <1>3, <1>6 DEF s

LEMMA RestoreStep ==
  ASSUME LayoutInv, Reload
  PROVE  /\ TabsIn(right') = Kept(TabsIn(right))
         /\ TabsIn(bottom') = Kept(TabsIn(bottom))
         /\ FloatIdsNeverCollide => FloatTabs' = Kept(FloatTabs)
<1>1. Good(right) /\ Good(bottom) /\ floats \in Seq(FloatSet)
  BY Typed
<1>2. Restorable /\ RestorableBottom
  BY NeverReset
<1>3. right' = PruneEmptyPanes(Sanitized(right)) /\ bottom' = PruneEmptyPanes(Sanitized(bottom)) /\ floats' = KeptFloats
  BY <1>2 DEF Reload
<1>4. TabsIn(right') = Kept(TabsIn(right)) /\ TabsIn(bottom') = Kept(TabsIn(bottom))
  BY <1>1, <1>3, RestoredTabs
<1>5. ASSUME FloatIdsNeverCollide PROVE FloatTabs' = Kept(FloatTabs)
  <2> DEFINE I == {i \in DOMAIN floats :
                     /\ floats[i].tab.kind # "diff"
                     /\ \A j \in 1..(i - 1) : floats[j].tab.kind # "diff" => floats[j].id # floats[i].id}
  <2>1. KeptFloats = Only(floats, I)
    BY DEF KeptFloats
  <2>2. \A i \in 1 .. Len(floats) : i \in I <=> floats[i].tab.kind # "diff"
    <3>1. DOMAIN floats = 1 .. Len(floats) /\ Len(floats) \in Nat
      BY <1>1
    <3>2. \A i \in 1 .. Len(floats) : \A j \in 1 .. (i - 1) : j \in 1 .. Len(floats) /\ j # i
      BY <3>1
    <3>3. \A i \in 1 .. Len(floats) : \A j \in 1 .. (i - 1) : floats[j].id # floats[i].id
      BY <3>1, <3>2, <1>5 DEF FloatIdsNeverCollide
    <3> QED BY <3>1, <3>3
  <2> HIDE DEF I
  <2>3. WindowTabs(Only(floats, I)) = Kept(WindowTabs(floats))
    BY <1>1, <2>2, WindowsKept
  <2> QED BY <2>1, <2>3, <1>3, WindowsNow
<1> QED BY <1>4, <1>5

\* A reload brings back the tabs in their order, but for the diffs.
THEOREM ReloadKeepsTabs == LayoutSpec => ReloadRestores
<1>1. LayoutInv /\ [LayoutNext]_layoutVars
      => [Edited /\ Reload =>
            /\ TabsIn(right)' = Kept(TabsIn(right))
            /\ TabsIn(bottom)' = Kept(TabsIn(bottom))
            /\ FloatIdsNeverCollide => FloatTabs' = Kept(FloatTabs)]_layoutVars
  BY RestoreStep
<1> QED BY <1>1, LayoutKept, PTL DEF LayoutSpec, ReloadRestores

-------------------------------------------------------------------------------
(* The tabs of one layout, each with an id of its own                          *)

\* Every entry of a row is in the concatenation of the rows.
LEMMA FlattenHas ==
  ASSUME NEW S, NEW ss \in Seq(Seq(S)), ss # <<>>
  PROVE  \A i \in 1 .. Len(ss) : ToSet(ss[i]) \subseteq ToSet(FlattenSeq(ss))
<1> DEFINE N == Len(ss)
<1>1. N \in Nat \ {0} /\ \A i \in 1 .. N : ss[i] \in Seq(S)
  BY EmptySeq, LenProperties, ElementOfSeq
<1>2. PICK f \in [1 .. N -> Seq(S)] :
           /\ FlattenSeq(ss) = f[N] /\ f[1] = ss[1]
           /\ \A n \in 2 .. N : f[n] = f[n - 1] \o ss[n]
  BY FlattenUnfolds
<1> HIDE DEF N
<1> DEFINE T == {n \in 0 .. N - 1 : \A i \in 1 .. n + 1 : ToSet(ss[i]) \subseteq ToSet(f[n + 1])}
<1>3. 0 \in T
  <2>1. 0 + 1 = 1 /\ 0 \in 0 .. N - 1 /\ \A i \in 1 .. 1 : i = 1
    BY <1>1
  <2> QED BY <2>1, <1>2
<1>4. ASSUME NEW n \in 0 .. (N - 1) - 1, n \in T PROVE n + 1 \in T
  <2>1. /\ n + 1 \in 0 .. N - 1 /\ n + 1 \in 1 .. N /\ n + 2 \in 2 .. N /\ n + 2 \in 1 .. N
        /\ (n + 2) - 1 = n + 1 /\ (n + 1) + 1 = n + 2
        /\ \A i \in 1 .. n + 2 : i \in 1 .. n + 1 \/ i = n + 2
    BY <1>1
  <2>2. f[n + 2] = f[n + 1] \o ss[n + 2] /\ f[n + 1] \in Seq(S) /\ ss[n + 2] \in Seq(S)
    BY <2>1, <1>1, <1>2
  <2>3. ToSet(f[n + 2]) = ToSet(f[n + 1]) \cup ToSet(ss[n + 2])
    BY <2>2, RowsJoin
  <2>4. \A i \in 1 .. n + 2 : ToSet(ss[i]) \subseteq ToSet(f[n + 2])
    BY <2>1, <2>3, <1>4
  <2> QED BY <2>1, <2>4
<1>5. N - 1 \in T
  <2>1. N - 1 \in Nat /\ N - 1 \in 0 .. N - 1
    BY <1>1
  <2> HIDE DEF T
  <2>2. \A n \in 0 .. N - 1 : n \in T
    BY <1>3, <1>4, <2>1, Inductive
  <2> QED BY <2>1, <2>2
<1>6. (N - 1) + 1 = N
  BY <1>1
<1> QED BY <1>2, <1>5, <1>6 DEF N

LEMMA LeafTabsIn ==
  ASSUME NEW t, Good(t), NEW p \in Panes(t)
  PROVE  ToSet(LeafAt(t, p).tabs) \subseteq ToSet(TabsIn(t))
<1> DEFINE i == IndexOf(t, p)
<1>1. i \in 1 .. Len(t.panes) /\ LeafAt(t, p) = t.panes[i]
  BY LeafIs DEF LeafAt
<1> HIDE DEF i
<1>2. PICK ss : ss = Rows(t)
  OBVIOUS
<1>3. /\ ss \in Seq(Seq(SideTab)) /\ ss # <<>> /\ Len(ss) = Len(t.panes) /\ TabsIn(t) = FlattenSeq(ss)
      /\ \A k \in 1 .. Len(t.panes) : ss[k] = t.panes[k].tabs
  BY <1>2, RowsAre
<1>4. \A k \in 1 .. Len(ss) : ToSet(ss[k]) \subseteq ToSet(FlattenSeq(ss))
  BY <1>3, FlattenHas
<1> QED BY <1>1, <1>3, <1>4

LEMMA AllOpen ==
  ASSUME LayoutShape
  PROVE  /\ \A p \in Panes(right) \cup Panes(bottom) : ToSet(LeafAt(TreeOf(p), p).tabs) \subseteq ToSet(OpenTabs)
         /\ ToSet(FloatTabs) \subseteq ToSet(OpenTabs)
         /\ ToSet(OpenTabs) \subseteq SideTab
<1>1. /\ Good(right) /\ Good(bottom) /\ TabsIn(right) \in Seq(SideTab) /\ TabsIn(bottom) \in Seq(SideTab)
      /\ FloatTabs \in Seq(SideTab)
  BY TabsInIs, OpenTabsNow DEF LayoutShape, OpenTabsSound
<1>2. /\ TabsIn(right) \o TabsIn(bottom) \in Seq(SideTab)
      /\ ToSet(TabsIn(right) \o TabsIn(bottom)) = ToSet(TabsIn(right)) \cup ToSet(TabsIn(bottom))
  BY <1>1, RowsJoin
<1>3. /\ OpenTabs \in Seq(SideTab)
      /\ ToSet(OpenTabs) = ToSet(TabsIn(right)) \cup ToSet(TabsIn(bottom)) \cup ToSet(FloatTabs)
  <2>1. PICK a : a = TabsIn(right) \o TabsIn(bottom)
    OBVIOUS
  <2>2. OpenTabs = a \o FloatTabs
    BY <2>1 DEF OpenTabs
  <2>3. a \in Seq(SideTab) /\ FloatTabs \in Seq(SideTab)
    BY <1>1, <1>2, <2>1
  <2>4. a \o FloatTabs \in Seq(SideTab) /\ ToSet(a \o FloatTabs) = ToSet(a) \cup ToSet(FloatTabs)
    BY <2>3, RowsJoin
  <2> QED BY <1>2, <2>1, <2>2, <2>4
<1>4. ToSet(OpenTabs) \subseteq SideTab
  BY <1>3 DEF ToSet
<1>5. ASSUME NEW p \in Panes(right) \cup Panes(bottom)
      PROVE  ToSet(LeafAt(TreeOf(p), p).tabs) \subseteq ToSet(OpenTabs)
  <2>1. TreeOf(p) \in {right, bottom} /\ p \in Panes(TreeOf(p))
    BY TreeOfIs DEF TreeOf
  <2>2. ToSet(LeafAt(TreeOf(p), p).tabs) \subseteq ToSet(TabsIn(TreeOf(p)))
    BY <2>1, <1>1, LeafTabsIn
  <2> QED BY <2>1, <2>2, <1>3
<1> QED BY <1>3, <1>4, <1>5

\* With distinct ids, an id names one tab, docked or floating.
LEMMA DistinctTabs ==
  ASSUME LayoutShape, IdsDistinct
  PROVE  /\ \A t, u \in ToSet(OpenTabs) : t.id = u.id => t = u
         /\ \A id : Docked(id) => ~Floating(id)
<1>1. /\ OpenTabs \in Seq(SideTab) /\ DOMAIN OpenTabs = 1 .. Len(OpenTabs) /\ Len(OpenTabs) \in Nat
      /\ FloatTabs \in Seq(SideTab)
  BY OpenTabsNow DEF OpenTabsSound
<1>2. \A i, j \in DOMAIN OpenTabs : OpenTabs[i].id = OpenTabs[j].id => i = j
  BY DEF IdsDistinct, IsInjective
<1>3. \A t, u \in ToSet(OpenTabs) : t.id = u.id => t = u
  BY <1>2 DEF ToSet
<1>4. ASSUME NEW id, Docked(id), Floating(id) PROVE FALSE
  <2> DEFINE a == TabsIn(right) \o TabsIn(bottom)
  <2>1. /\ TabsIn(right) \in Seq(SideTab) /\ TabsIn(bottom) \in Seq(SideTab)
        /\ Ids(TabsIn(right)) = TabIds(right) /\ Ids(TabsIn(bottom)) = TabIds(bottom)
    BY TabsInIs DEF LayoutShape
  <2>2. a \in Seq(SideTab) /\ Ids(a) = TabIds(right) \cup TabIds(bottom)
    BY <2>1, GainsTabs
  <2>3. OpenTabs = a \o FloatTabs
    BY DEF OpenTabs
  <2> HIDE DEF a
  <2>4. /\ Len(OpenTabs) = Len(a) + Len(FloatTabs) /\ Len(a) \in Nat /\ Len(FloatTabs) \in Nat
        /\ \A k \in 1 .. Len(a) : OpenTabs[k] = a[k]
        /\ \A k \in 1 .. Len(FloatTabs) : OpenTabs[Len(a) + k] = FloatTabs[k]
    BY <2>2, <2>3, <1>1, ConcatIs
  <2>5. PICK i \in 1 .. Len(a) : a[i].id = id
    BY <1>4, <2>2 DEF Docked, Ids
  <2>6. PICK j \in 1 .. Len(FloatTabs) : FloatTabs[j].id = id
    BY <1>4, <1>1 DEF Floating, Ids
  <2>7. i \in DOMAIN OpenTabs /\ Len(a) + j \in DOMAIN OpenTabs /\ i # Len(a) + j
    BY <2>4, <1>1
  <2> QED BY <2>4, <2>5, <2>6, <2>7, <1>2
<1> QED BY <1>3, <1>4

-------------------------------------------------------------------------------
(* Where an opened file is                                                     *)

LEMMA EditorIs ==
  ASSUME NEW f \in File, NEW t \in SideTab, t.id = <<"editor", f>>
  PROVE  t.of = f
BY DEF SideTab, TabOf, GitTab, DiffTab, AgentTab

LEMMA AlikeIs ==
  ASSUME LayoutShape, NEW f \in File, Alike(FileTab(f)) # {}
  PROVE  \E u \in ToSet(OpenTabs) : u.id = SameAs(FileTab(f)) /\ u.of = f
<1> DEFINE i == Min(Alike(FileTab(f)))
<1>1. i \in Alike(FileTab(f)) /\ i \in DOMAIN OpenTabs /\ OpenTabs[i] \in SideTab
  <2>1. DOMAIN OpenTabs = 1 .. Len(OpenTabs) /\ Len(OpenTabs) \in Nat /\ OpenTabs \in Seq(SideTab)
    BY OpenTabsNow DEF OpenTabsSound
  <2>2. Alike(FileTab(f)) \in SUBSET Nat /\ Alike(FileTab(f)) \in SUBSET DOMAIN OpenTabs
    BY <2>1 DEF Alike
  <2>3. i \in Alike(FileTab(f))
    BY <2>2, MinIs
  <2> HIDE DEF i
  <2> QED BY <2>1, <2>2, <2>3
<1>2. OpenTabs[i].id = SameAs(FileTab(f))
  BY DEF SameAs
<1> HIDE DEF i
<1>3. FileTab(f).id = <<"editor", f>> /\ FileTab(f).of = f
  BY DEF FileTab, TabOf
<1>4. OpenTabs[i].of = f \/ OpenTabs[i].id = <<"editor", f>>
  BY <1>1, <1>3 DEF Alike
<1>5. OpenTabs[i].of = f
  BY <1>1, <1>4, EditorIs
<1> QED BY <1>1, <1>2, <1>5 DEF ToSet

\* The tree that gets a leaf is the one that shows the pane.
LEMMA ShowingIs ==
  ASSUME LayoutShape, NEW pane \in Panes(right) \cup Panes(bottom), NEW r, Panes(r) = Panes(TreeOf(pane)),
         SetTree(InBottom(pane), r)
  PROVE  /\ (IF pane \in Panes(bottom') THEN bottom' ELSE right') = r
         /\ pane \in Panes(right') \cup Panes(bottom') /\ pane \in Panes(r)
BY TreeOfIs DEF SetTree, TreeOf

\* What lands in a pane is in sight.
LEMMA SightIs ==
  ASSUME LayoutShape', NEW tab, InSight(tab), Alike(tab) = {} \/ ~Floating(SameAs(tab)), activePane' \in PaneId
  PROVE  IF activePane' \in Panes(bottom') /\ ~narrow THEN bottomOpen' ELSE panelOpen'
<1>1. activePane' \in ToSet(NodeIds(bottom')) <=> activePane' \in Panes(bottom')
  <2>1. Good(bottom')
    BY DEF LayoutShape
  <2>2. ToSet(NodeIds(bottom')) = Panes(bottom') \cup SplitIds(bottom') /\ SplitIds(bottom') \subseteq SplitId
    BY <2>1, NodesAre DEF Nodes
  <2> QED BY <2>2 DEF PaneId, SplitId
<1>2. /\ narrow \/ ~(activePane' \in ToSet(NodeIds(bottom'))) => panelOpen'
      /\ ~narrow /\ activePane' \in ToSet(NodeIds(bottom')) => bottomOpen'
  BY DEF InSight
<1> QED BY <1>1, <1>2

\* Wherever an open lands, the file is in sight.
LEMMA OpenedStep ==
  ASSUME LayoutInv, LayoutInv', NEW f \in File, IdsDistinct, OpenFile(f)
  PROVE  LET showing == LeafAt(IF activePane' \in Panes(bottom') THEN bottom' ELSE right', activePane')
         IN \/ /\ activePane' \in Panes(right') \cup Panes(bottom')
               /\ IF activePane' \in Panes(bottom') /\ ~narrow THEN bottomOpen' ELSE panelOpen'
               /\ \E t \in ToSet(showing.tabs) : t.id = showing.active /\ t.of = f
            \/ floats' # <<>> /\ floats'[Len(floats')].tab.of = f
<1> DEFINE tab == FileTab(f)
           pane == LandingPane(activePane)
           id == SameAs(tab)
           tree == IF activePane' \in Panes(bottom') THEN bottom' ELSE right'
<1>1. /\ LayoutShape /\ LayoutShape' /\ floats \in Seq(FloatSet) /\ Land(tab) /\ InSight(tab)
      /\ tab \in SideTab /\ tab.id = <<"editor", f>>
  BY Typed DEF LayoutInv, LayoutShape, OpenFile, FileTab, SideTab, TabOf
<1>2. ASSUME NEW r, NEW p \in Panes(right) \cup Panes(bottom), activePane' = p, SetTree(InBottom(p), r),
             Panes(r) = Panes(TreeOf(p)), Alike(tab) = {} \/ ~Floating(id),
             \E t \in ToSet(LeafAt(r, p).tabs) : t.id = LeafAt(r, p).active /\ t.of = f
      PROVE  /\ activePane' \in Panes(right') \cup Panes(bottom')
             /\ IF activePane' \in Panes(bottom') /\ ~narrow THEN bottomOpen' ELSE panelOpen'
             /\ \E t \in ToSet(LeafAt(tree, activePane').tabs) : t.id = LeafAt(tree, activePane').active /\ t.of = f
  <2>1. tree = r /\ p \in Panes(right') \cup Panes(bottom')
    BY <1>1, <1>2, ShowingIs
  <2>2. p \in PaneId
    BY <1>1, TreeOfIs
  <2>3. IF activePane' \in Panes(bottom') /\ ~narrow THEN bottomOpen' ELSE panelOpen'
    <3> HIDE DEF tab
    <3> QED BY <1>1, <1>2, <2>2, SightIs
  <2> HIDE DEF tree
  <2> QED BY <1>2, <2>1, <2>3
<1>3. CASE Alike(tab) = {}
  <2>1. SetTree(InBottom(pane), Append1(TreeOf(pane), pane, tab)) /\ activePane' = pane
    BY <1>1, <1>3 DEF Land
  <2>2. pane \in Panes(right) \cup Panes(bottom)
    BY <1>1, LandingPaneIs
  <2> HIDE DEF pane, tab, id
  <2>3. pane \in Panes(TreeOf(pane)) /\ Good(TreeOf(pane))
    BY <1>1, <2>2, TreeOfIs
  <2>4. PICK t : t = TreeOf(pane)
    OBVIOUS
  <2>5. PICK r : r = Append1(t, pane, tab)
    OBVIOUS
  <2>6. /\ Yields(t, r, 0, 0, <<tab>>) /\ Panes(r) = Panes(t)
        /\ Has(r, pane) = Has(t, pane) \cup {tab.id} /\ LeafAt(r, pane).active = tab.id
    <3>1. Good(t) /\ pane \in Panes(t) /\ tab \in SideTab
      BY <1>1, <2>3, <2>4
    <3>2. /\ Yields(t, Append1(t, pane, tab), 0, 0, <<tab>>) /\ Panes(Append1(t, pane, tab)) = Panes(t)
          /\ Has(Append1(t, pane, tab), pane) = Has(t, pane) \cup {tab.id}
          /\ LeafAt(Append1(t, pane, tab), pane).active = tab.id
      BY <3>1, Append1Is
    <3> QED BY <3>2, <2>5
  <2>7. Good(r) /\ pane \in Panes(r)
    BY <2>3, <2>4, <2>6 DEF Yields
  <2>8. PICK u \in ToSet(LeafAt(r, pane).tabs) : u.id = tab.id /\ u \in SideTab
    <3>1. LeafAt(r, pane).tabs \in Seq(SideTab)
      BY <2>7, HasTabs
    <3>2. PICK row \in Seq(SideTab) : row = LeafAt(r, pane).tabs
      BY <3>1
    <3>3. tab.id \in Ids(row)
      BY <3>2, <2>6 DEF Has
    <3>4. PICK k \in DOMAIN row : row[k].id = tab.id
      BY <3>3 DEF Ids
    <3>5. row[k] \in ToSet(row) /\ row[k] \in SideTab
      BY <3>4, ElementOfSeq DEF ToSet
    <3> QED BY <3>2, <3>4, <3>5
  <2>9. u.of = f
    BY <2>8, <1>1, EditorIs
  <2> HIDE DEF tree
  <2>10. /\ activePane' \in Panes(right') \cup Panes(bottom')
         /\ IF activePane' \in Panes(bottom') /\ ~narrow THEN bottomOpen' ELSE panelOpen'
         /\ \E t_1 \in ToSet(LeafAt(tree, activePane').tabs) : t_1.id = LeafAt(tree, activePane').active /\ t_1.of = f
    BY <1>2, <1>3, <2>1, <2>2, <2>4, <2>5, <2>6, <2>8, <2>9
  <2> QED BY <2>10 DEF tree
<1>4. CASE Alike(tab) # {}
  <2>1. PICK u \in ToSet(OpenTabs) : u.id = id /\ u.of = f
    BY <1>1, <1>4, AlikeIs
  <2> HIDE DEF tab
  <2>2. \A t \in ToSet(OpenTabs) : t.id = id => t.of = f
    BY <1>1, <2>1, DistinctTabs
  <2>3. CASE Docked(id)
    <3>1. Activate(id) /\ ~Floating(id)
      BY <1>1, <1>4, <2>3, DistinctTabs DEF Land
    <3> HIDE DEF id
    <3>2. PICK leaf : leaf = PaneOfTab(id)
      OBVIOUS
    <3>3. /\ leaf.id \in Panes(right) \cup Panes(bottom) /\ leaf.id \in PaneId
          /\ leaf = LeafAt(TreeOf(leaf.id), leaf.id) /\ id \in Has(TreeOf(leaf.id), leaf.id)
          /\ leaf \in LeafSet /\ leaf.id \in Panes(TreeOf(leaf.id)) /\ Good(TreeOf(leaf.id))
      BY <1>1, <2>3, <3>2, PaneOfTabIs
    <3>4. PICK by : by = [leaf EXCEPT !.active = id]
      OBVIOUS
    <3>5. PICK t : t = TreeOf(leaf.id)
      OBVIOUS
    <3>6. PICK r : r = MapLeaf(t, leaf.id, by)
      OBVIOUS
    <3>7. SetTree(InBottom(leaf.id), r) /\ activePane' = leaf.id
      BY <3>1, <3>2, <3>4, <3>5, <3>6 DEF Activate
    <3>8. by \in LeafSet /\ LeafOK(by) /\ by.id = leaf.id /\ by.tabs = leaf.tabs /\ by.active = id
      <4>1. by = Leaf(leaf.id, leaf.tabs, id) /\ leaf.tabs \in Seq(SideTab)
        BY <3>3, <3>4 DEF LeafSet, Leaf
      <4>2. id \in Ids(leaf.tabs)
        BY <3>3 DEF Has
      <4>3. Leaf(leaf.id, leaf.tabs, id).active = id
        BY DEF Leaf
      <4> QED BY <4>1, <4>2, <4>3, <3>3, MakesLeaf
    <3>9. Panes(r) = Panes(t) /\ LeafAt(r, leaf.id) = by
      BY <3>3, <3>5, <3>6, <3>8, MapLeafIs
    <3>10. PICK v \in ToSet(leaf.tabs) : v.id = id
      BY <3>3 DEF Has, Ids, ToSet
    <3>11. v.of = f
      BY <3>3, <3>10, <2>2, <1>1, AllOpen
    <3> HIDE DEF tree
    <3>12. /\ activePane' \in Panes(right') \cup Panes(bottom')
           /\ IF activePane' \in Panes(bottom') /\ ~narrow THEN bottomOpen' ELSE panelOpen'
           /\ \E t_1 \in ToSet(LeafAt(tree, activePane').tabs) : t_1.id = LeafAt(tree, activePane').active /\ t_1.of = f
      BY <1>2, <3>1, <3>3, <3>5, <3>7, <3>8, <3>9, <3>10, <3>11 DEF id
    <3> QED BY <3>12 DEF tree
  <2>4. CASE ~Docked(id)
    <3>1. floats' = Raised(WindowOf(id))
      BY <1>1, <1>4, <2>4 DEF Land
    <3>2. Floating(id)
      <4>1. id \in Ids(OpenTabs)
        BY <2>1 DEF Ids, ToSet
      <4> HIDE DEF id
      <4> QED BY <4>1, <2>4, <1>1, OpenTabsNow DEF OpenTabsSound, Floating, Docked
    <3> HIDE DEF id
    <3>3. PICK m \in DOMAIN floats : floats[m].id = WindowOf(id) /\ floats[m].tab.id = id
      BY <1>1, <3>2, WindowOfIs
    <3> DEFINE S == {k \in DOMAIN floats : floats[k].id = WindowOf(id)}
               i == Min(S)
    <3>4. DOMAIN floats = 1 .. Len(floats) /\ Len(floats) \in Nat /\ \A k \in 1 .. Len(floats) : floats[k] \in FloatSet
      BY <1>1, LenProperties, ElementOfSeq
    <3>5. i \in S
      <4>1. S \in SUBSET Nat /\ S # {}
        BY <3>3, <3>4
      <4> HIDE DEF S
      <4> QED BY <4>1, MinIs
    <3> HIDE DEF i
    <3>6. i = m
      BY <3>3, <3>5 DEF IdsDistinct, FloatIdsNeverCollide
    <3>7. floats' = Append(RemoveAt(floats, i), floats[i])
      BY <3>1 DEF Raised, i
    <3>8. RemoveAt(floats, i) \in Seq(FloatSet) /\ floats[i] \in FloatSet
      BY <1>1, <3>4, <3>5, RemoveAtIs
    <3>9. floats' # <<>> /\ floats'[Len(floats')] = floats[i]
      <4>1. PICK w : w = RemoveAt(floats, i)
        OBVIOUS
      <4>2. /\ Len(Append(w, floats[i])) = Len(w) + 1 /\ Len(w) \in Nat
            /\ Append(w, floats[i])[Len(w) + 1] = floats[i]
        BY <4>1, <3>8, AppendIs
      <4> QED BY <4>1, <4>2, <3>7
    <3>10. floats[i].tab \in ToSet(FloatTabs) /\ floats[i].tab.id = id
      BY <3>3, <3>6 DEF FloatTabs, ToSet
    <3>11. floats[i].tab.of = f
      BY <3>10, <2>2, <1>1, AllOpen
    <3> QED BY <3>9, <3>11
  <2> QED BY <2>3, <2>4
<1> QED BY <1>3, <1>4

\* An opened file is the tab in use of a pane in sight, or in the window on top.
THEOREM OpenShowsFile == LayoutSpec => OpenedFileIsShown
<1>1. LayoutInv /\ LayoutInv' /\ [LayoutNext]_layoutVars
      => [Edited => \A f \in File : IdsDistinct /\ OpenFile(f) =>
            LET showing == LeafAt(IF activePane' \in Panes(bottom') THEN bottom' ELSE right', activePane')
            IN \/ /\ activePane' \in Panes(right') \cup Panes(bottom')
                  /\ IF activePane' \in Panes(bottom') /\ ~narrow THEN bottomOpen' ELSE panelOpen'
                  /\ \E t \in ToSet(showing.tabs) : t.id = showing.active /\ t.of = f
               \/ floats' # <<>> /\ floats'[Len(floats')].tab.of = f]_layoutVars
  BY OpenedStep
<1> QED BY <1>1, LayoutKept, PTL DEF LayoutSpec, OpenedFileIsShown

-------------------------------------------------------------------------------
(* No tab is lost                                                              *)

OpenIds == TabIds(right) \cup TabIds(bottom) \cup Ids(FloatTabs)

\* Leaf by leaf, a tree loses no tab but some.
LEMMA LeafwiseKeeps ==
  ASSUME NEW t, NEW r, Good(t), NEW lost, \A p \in Panes(t) : Has(t, p) \ lost \subseteq TabIds(r)
  PROVE  TabIds(t) \ lost \subseteq TabIds(r)
BY TabIdsAre DEF Has

\* What each operation on a tree keeps.
LEMMA PutAtKeeps ==
  ASSUME NEW t, Good(t), NEW pane, NEW tab \in SideTab, NEW index
  PROVE  LET r == PutAt(t, pane, tab, index)
         IN Good(r) /\ TabIds(t) \subseteq TabIds(r) /\ (pane \in Panes(t) => tab.id \in TabIds(r))
<1> DEFINE r == PutAt(t, pane, tab, index)
<1>1. /\ Yields(t, r, 0, 0, <<tab>>) /\ Panes(r) = Panes(t)
      /\ \A p \in Panes(t) \ {pane} : LeafAt(r, p) = LeafAt(t, p)
      /\ pane \in Panes(t) => Has(r, pane) = Has(t, pane) \cup {tab.id}
  <2>1. Joined(t, r, 0, 0, pane, tab) BY PutAtIs
  <2> HIDE DEF r
  <2> QED BY <2>1 DEF Joined
<1> HIDE DEF r
<1>2. Good(r) /\ \A p \in Panes(r) : Has(r, p) \subseteq TabIds(r)
  BY <1>1, HasTabs DEF Yields
<1>3. \A p \in Panes(t) : Has(t, p) \subseteq Has(r, p)
  BY <1>1 DEF Has
<1>4. \A p \in Panes(t) : Has(t, p) \ {} \subseteq TabIds(r)
  BY <1>1, <1>2, <1>3
<1>5. TabIds(t) \ {} \subseteq TabIds(r)
  BY <1>4, LeafwiseKeeps
<1> QED BY <1>1, <1>2, <1>5 DEF r

LEMMA Append1Keeps ==
  ASSUME NEW t, Good(t), NEW pane, NEW tab \in SideTab
  PROVE  LET r == Append1(t, pane, tab)
         IN Good(r) /\ TabIds(t) \subseteq TabIds(r) /\ (pane \in Panes(t) => tab.id \in TabIds(r))
BY PutAtKeeps DEF Append1

LEMMA TakeOutKeeps ==
  ASSUME NEW t, Good(t), NEW pane, NEW id
  PROVE  LET r == TakeOut(t, pane, id)
         IN /\ Good(r) /\ TabIds(t) \ {id} \subseteq TabIds(r) /\ Nodes(r) \subseteq Nodes(t)
            /\ Panes(t) \ {pane} \subseteq Panes(r)
            /\ pane \in Panes(t) \ Panes(r) => Has(t, pane) \subseteq {id}
<1> DEFINE r == TakeOut(t, pane, id)
<1>1. /\ Yields(t, r, 0, 0, <<>>) /\ Panes(r) \subseteq Panes(t) /\ SplitIds(r) \subseteq SplitIds(t)
      /\ \A p \in Panes(t) \ {pane} : p \in Panes(r) /\ LeafAt(r, p) = LeafAt(t, p)
      /\ pane \in Panes(r) => LeafAt(r, pane).tabs = Without(LeafAt(t, pane).tabs, id)
      /\ pane \in Panes(t) \ Panes(r) => Without(LeafAt(t, pane).tabs, id) = <<>>
  <2>1. /\ Yields(t, TakeOut(t, pane, id), 0, 0, <<>>) /\ Panes(TakeOut(t, pane, id)) \subseteq Panes(t)
        /\ SplitIds(TakeOut(t, pane, id)) \subseteq SplitIds(t)
    BY TakeOutIs
  <2>2. \A p \in Panes(t) \ {pane} : p \in Panes(TakeOut(t, pane, id)) /\ LeafAt(TakeOut(t, pane, id), p) = LeafAt(t, p)
    BY TakeOutIs
  <2>3. /\ Yields(t, TakeOut(t, pane, id), 0, 0, <<>>)
        /\ pane \in Panes(TakeOut(t, pane, id)) => LeafAt(TakeOut(t, pane, id), pane).tabs = Without(LeafAt(t, pane).tabs, id)
    BY TakeOutIs
  <2>4. pane \in Panes(t) \ Panes(TakeOut(t, pane, id)) => Without(LeafAt(t, pane).tabs, id) = <<>>
    BY TakeOutIs
  <2> QED BY <2>1, <2>2, <2>3, <2>4
<1> HIDE DEF r
<1>2. Good(r) /\ \A p \in Panes(r) : Has(r, p) \subseteq TabIds(r)
  BY <1>1, HasTabs DEF Yields
<1>3. pane \in Panes(t) => Ids(Without(LeafAt(t, pane).tabs, id)) = Has(t, pane) \ {id}
  <2> SUFFICES ASSUME pane \in Panes(t) PROVE Ids(Without(LeafAt(t, pane).tabs, id)) = Has(t, pane) \ {id}
    OBVIOUS
  <2>1. PICK row : row = LeafAt(t, pane).tabs
    OBVIOUS
  <2>2. row \in Seq(SideTab)
    BY <2>1, HasTabs
  <2>3. Ids(Without(row, id)) = Ids(row) \ {id}
    BY <2>2, WithoutIs
  <2> QED BY <2>1, <2>3 DEF Has
<1>4. \A p \in Panes(t) : Has(t, p) \ {id} \subseteq TabIds(r)
  <2> TAKE p \in Panes(t)
  <2>1. CASE p # pane
    BY <2>1, <1>1, <1>2 DEF Has
  <2>2. CASE p = pane /\ pane \in Panes(r)
    BY <2>2, <1>1, <1>2, <1>3 DEF Has
  <2>3. CASE p = pane /\ pane \notin Panes(r)
    BY <2>3, <1>1, <1>3, NoTabs
  <2> QED BY <2>1, <2>2, <2>3
<1>5. TabIds(t) \ {id} \subseteq TabIds(r)
  BY <1>4, LeafwiseKeeps
<1>6. pane \in Panes(t) \ Panes(r) => Has(t, pane) \subseteq {id}
  BY <1>1, <1>3, NoTabs
<1> QED BY <1>1, <1>2, <1>5, <1>6 DEF r, Nodes

LEMMA MapLeafKeeps ==
  ASSUME NEW t, Good(t), NEW by \in LeafSet, LeafOK(by), by.id \in Panes(t),
         Has(t, by.id) \subseteq Ids(by.tabs)
  PROVE  LET r == MapLeaf(t, by.id, by)
         IN TabIds(t) \subseteq TabIds(r) /\ Ids(by.tabs) \subseteq TabIds(r)
<1> DEFINE r == MapLeaf(t, by.id, by)
<1>1. /\ Good(r) /\ Panes(r) = Panes(t)
      /\ \A p \in Panes(t) : LeafAt(r, p) = IF p = by.id THEN by ELSE LeafAt(t, p)
  BY MapLeafIs
<1> HIDE DEF r
<1>2. \A p \in Panes(r) : Has(r, p) \subseteq TabIds(r)
  BY <1>1, HasTabs
<1>3. Has(r, by.id) = Ids(by.tabs) /\ \A p \in Panes(t) : Has(t, p) \ {} \subseteq TabIds(r)
  BY <1>1, <1>2 DEF Has
<1>4. TabIds(t) \ {} \subseteq TabIds(r)
  BY <1>3, LeafwiseKeeps
<1> QED BY <1>1, <1>2, <1>3, <1>4 DEF r

LEMMA SplitKeeps ==
  ASSUME NEW t, Good(t), NEW pane \in Panes(t), NEW n \in Number, NEW k \in Number, NEW tab \in SideTab,
         NEW lo \in Nat, \A x \in Nodes(t) : x[2] <= lo, lo < n, lo < k, NEW front \in BOOLEAN
  PROVE  LET r == SplitLeafAt(t, pane, Leaf(<<"pane", n>>, <<tab>>, tab.id), <<"split", k>>, front)
         IN TabIds(t) \subseteq TabIds(r) /\ tab.id \in TabIds(r)
<1> DEFINE hi == n + k
           fresh == <<"pane", n>>
           r == SplitLeafAt(t, pane, Leaf(fresh, <<tab>>, tab.id), <<"split", k>>, front)
<1>1. hi \in Nat /\ n <= hi /\ k <= hi
  BY LayoutAssumption DEF Number
<1> HIDE DEF hi
<1>2. /\ Yields(t, r, lo, hi, <<tab>>) /\ Panes(r) = Panes(t) \cup {fresh}
      /\ \A p \in Panes(t) : LeafAt(r, p) = LeafAt(t, p)
      /\ Has(r, fresh) = {tab.id}
  <2> DEFINE p0 == <<"pane", n>>
  <2>1. Yields(t, SplitLeafAt(t, pane, Leaf(p0, <<tab>>, tab.id), <<"split", k>>, front), lo, hi, <<tab>>)
    BY <1>1, SplitBecomes
  <2>2. Panes(SplitLeafAt(t, pane, Leaf(p0, <<tab>>, tab.id), <<"split", k>>, front)) = Panes(t) \cup {p0}
    BY <1>1, SplitBecomes
  <2>3. \A p \in Panes(t) : LeafAt(SplitLeafAt(t, pane, Leaf(p0, <<tab>>, tab.id), <<"split", k>>, front), p) = LeafAt(t, p)
    BY <1>1, SplitBecomes
  <2>4. Has(SplitLeafAt(t, pane, Leaf(p0, <<tab>>, tab.id), <<"split", k>>, front), p0) = {tab.id}
    BY <1>1, SplitBecomes
  <2> QED BY <2>1, <2>2, <2>3, <2>4
<1> HIDE DEF r, fresh
<1>3. Good(r) /\ \A p \in Panes(r) : Has(r, p) \subseteq TabIds(r)
  BY <1>2, HasTabs DEF Yields
<1>4. \A p \in Panes(t) : Has(t, p) \ {} \subseteq TabIds(r)
  BY <1>2, <1>3 DEF Has
<1>5. TabIds(t) \ {} \subseteq TabIds(r)
  BY <1>4, LeafwiseKeeps
<1> QED BY <1>2, <1>3, <1>5 DEF r, fresh

\* One tree changes.
LEMMA OneTreeKeeps ==
  ASSUME NEW inBottom \in BOOLEAN, NEW r, SetTree(inBottom, r), NEW lost,
         TabIds(IF inBottom THEN bottom ELSE right) \ lost \subseteq TabIds(r),
         Ids(FloatTabs) \ lost \subseteq Ids(FloatTabs')
  PROVE  OpenIds \ lost \subseteq OpenIds' /\ TabIds(r) \subseteq OpenIds'
BY DEF SetTree, OpenIds

LEMMA NoTreeKeeps ==
  ASSUME UNCHANGED <<right, bottom>>, NEW lost, Ids(FloatTabs) \ lost \subseteq Ids(FloatTabs')
  PROVE  OpenIds \ lost \subseteq OpenIds'
BY DEF OpenIds

LEMMA ActivateKeeps ==
  ASSUME LayoutInv, NEW id, Docked(id), Activate(id), floats' = floats
  PROVE  OpenIds \subseteq OpenIds'
<1>1. LayoutShape /\ FloatTabs' = FloatTabs
  BY Typed, SameWindows
<1>2. PICK leaf : leaf = PaneOfTab(id)
  OBVIOUS
<1>3. /\ leaf.id \in Panes(right) \cup Panes(bottom) /\ leaf.id \in PaneId
      /\ leaf = LeafAt(TreeOf(leaf.id), leaf.id) /\ id \in Has(TreeOf(leaf.id), leaf.id)
      /\ leaf \in LeafSet /\ leaf.id \in Panes(TreeOf(leaf.id)) /\ Good(TreeOf(leaf.id))
  BY <1>1, <1>2, PaneOfTabIs
<1>4. PICK by : by = [leaf EXCEPT !.active = id]
  OBVIOUS
<1>5. SetTree(InBottom(leaf.id), MapLeaf(TreeOf(leaf.id), leaf.id, by))
  BY <1>2, <1>4 DEF Activate
<1>6. by \in LeafSet /\ LeafOK(by) /\ by.id = leaf.id /\ by.tabs = leaf.tabs
  <2>1. by = Leaf(leaf.id, leaf.tabs, id) /\ leaf.tabs \in Seq(SideTab)
    BY <1>3, <1>4 DEF LeafSet, Leaf
  <2>2. id \in Ids(leaf.tabs)
    BY <1>3 DEF Has
  <2> QED BY <2>1, <2>2, <1>3, MakesLeaf
<1>7. TreeOf(leaf.id) = (IF InBottom(leaf.id) THEN bottom ELSE right) /\ InBottom(leaf.id) \in BOOLEAN
  BY DEF TreeOf, InBottom
<1>8. TabIds(TreeOf(leaf.id)) \subseteq TabIds(MapLeaf(TreeOf(leaf.id), leaf.id, by))
  <2>1. by.id \in Panes(TreeOf(leaf.id)) /\ Has(TreeOf(leaf.id), by.id) \subseteq Ids(by.tabs)
    BY <1>3, <1>6 DEF Has
  <2> QED BY <2>1, <1>3, <1>6, MapLeafKeeps
<1>9. OpenIds \ {} \subseteq OpenIds'
  BY <1>1, <1>5, <1>7, <1>8, OneTreeKeeps
<1> QED BY <1>9

LEMMA RaiseKeeps ==
  ASSUME LayoutInv, NEW id, Floating(id), floats' = Raised(WindowOf(id)), UNCHANGED <<right, bottom>>
  PROVE  OpenIds \subseteq OpenIds'
<1>1. floats \in Seq(FloatSet)
  BY Typed
<1>2. \E i \in DOMAIN floats : floats[i].id = WindowOf(id)
  BY <1>1, WindowOfIs
<1>3. Ids(FloatTabs') = Ids(FloatTabs)
  BY <1>1, <1>2, RaisedIs, WindowsNow
<1>4. OpenIds \ {} \subseteq OpenIds'
  BY <1>3, NoTreeKeeps
<1> QED BY <1>4

LEMMA LandKeeps ==
  ASSUME LayoutInv, NEW tab \in SideTab, Land(tab)
  PROVE  OpenIds \subseteq OpenIds'
<1> DEFINE pane == LandingPane(activePane)
           same == SameAs(tab)
<1>1. LayoutShape /\ floats \in Seq(FloatSet)
  BY Typed
<1>2. CASE Alike(tab) = {}
  <2>1. SetTree(InBottom(pane), Append1(TreeOf(pane), pane, tab)) /\ floats' = floats
    BY <1>2 DEF Land
  <2>2. pane \in Panes(right) \cup Panes(bottom)
    BY <1>1, LandingPaneIs
  <2> HIDE DEF pane
  <2>3. /\ TreeOf(pane) = (IF InBottom(pane) THEN bottom ELSE right)
        /\ InBottom(pane) \in BOOLEAN /\ Good(TreeOf(pane))
    BY <1>1, <2>2, TreeOfIs DEF TreeOf, InBottom
  <2>4. TabIds(TreeOf(pane)) \subseteq TabIds(Append1(TreeOf(pane), pane, tab))
    BY <2>3, Append1Keeps
  <2>5. FloatTabs' = FloatTabs
    BY <2>1, SameWindows
  <2>6. OpenIds \ {} \subseteq OpenIds'
    BY <2>1, <2>3, <2>4, <2>5, OneTreeKeeps
  <2> QED BY <2>6
<1>3. CASE Alike(tab) # {} /\ Docked(same)
  <2>1. Activate(same) /\ floats' = floats
    BY <1>3 DEF Land
  <2> QED BY <2>1, <1>3, ActivateKeeps
<1>4. CASE Alike(tab) # {} /\ ~Docked(same)
  <2>1. floats' = Raised(WindowOf(same)) /\ UNCHANGED <<right, bottom>>
    BY <1>4 DEF Land
  <2>2. same \in Ids(OpenTabs)
    <3>1. Alike(tab) \in SUBSET Nat /\ Alike(tab) \in SUBSET DOMAIN OpenTabs
      BY <1>1, OpenTabsAre DEF Alike
    <3>2. Min(Alike(tab)) \in DOMAIN OpenTabs
      BY <3>1, <1>4, MinIs
    <3> QED BY <3>2 DEF SameAs, Ids
  <2>3. Floating(same)
    BY <2>2, <1>1, <1>4, OpenTabsAre DEF Floating, Docked
  <2> HIDE DEF same
  <2> QED BY <2>1, <2>3, RaiseKeeps
<1> QED BY <1>2, <1>3, <1>4

\* What each operation on the layout keeps.
LEMMA OpenFileKeeps ==
  ASSUME LayoutInv, NEW f \in File, OpenFile(f)
  PROVE  OpenIds \subseteq OpenIds'
<1>1. Land(FileTab(f)) /\ FileTab(f) \in SideTab
  BY DEF OpenFile, FileTab, SideTab
<1> QED BY <1>1, LandKeeps

LEMMA OpenTypeKeeps ==
  ASSUME LayoutInv, NEW tab \in {HomeTab(Home), GitTab}, OpenType(tab)
  PROVE  OpenIds \subseteq OpenIds'
<1>1. Land(tab) /\ tab \in SideTab
  BY DEF OpenType, HomeTab, Home, SideTab
<1> QED BY <1>1, LandKeeps

LEMMA OpenFileSideKeeps ==
  ASSUME LayoutInv, NEW id, NEW f \in File, OpenFileSide(id, f)
  PROVE  OpenIds \subseteq OpenIds'
<1> DEFINE pane == IF id \in TabIds(right) THEN LeafWithTab(right, id).id ELSE FirstLeaf(right).id
           tab == TabOf(<<"tab", counter + 1>>, "editor", f)
           n == counter + 2
           k == counter + 3
           r == SplitLeafAt(right, pane, Leaf(<<"pane", n>>, <<tab>>, tab.id), <<"split", k>>, FALSE)
<1>1. right' = r /\ bottom' = bottom /\ floats' = floats /\ counter + 3 <= MaxId
  <2>1. Leaf(<<"pane", n>>, <<tab>>, tab.id).id = <<"pane", n>>
    BY DEF Leaf
  <2> QED BY <2>1 DEF OpenFileSide, RoomFor
<1>2. LayoutShape /\ Good(right) /\ counter \in Nat /\ counter + 1 \in Number /\ n \in Number /\ k \in Number
      /\ counter < n /\ counter < k
  BY <1>1, Typed DEF Number
<1>3. tab \in SideTab
  BY <1>2, NamedIds DEF SideTab
<1>4. pane \in Panes(right)
  BY <1>2, FirstLeafIs, LeafWithTabIs
<1>5. \A x \in Nodes(right) : x[2] <= counter
  BY <1>2 DEF LayoutShape
<1> HIDE DEF pane, tab, n, k
<1>6. TabIds(right) \subseteq TabIds(r)
  BY <1>2, <1>3, <1>4, <1>5, SplitKeeps
<1> HIDE DEF r
<1>7. FloatTabs' = FloatTabs
  BY <1>1, SameWindows
<1> QED BY <1>1, <1>6, <1>7 DEF OpenIds

LEMMA OpenDiffKeeps ==
  ASSUME LayoutInv, NEW d \in Diff, OpenDiff(d)
  PROVE  OpenIds \subseteq OpenIds'
<1> DEFINE tab == DiffTab(d)
           diffs == {i \in DOMAIN right.panes : \E t \in ToSet(right.panes[i].tabs) : t.kind = "diff"}
           pane == right.panes[Min(diffs)].id
           source == IF Docked(GitTab.id) THEN PaneOfTab(GitTab.id).id ELSE None
<1>1. tab \in SideTab
  BY NamedIds DEF SideTab
<1>2. LayoutShape /\ Good(right) /\ counter \in Nat
  BY Typed
<1>3. CASE tab.id \in TabIds(right)
  <2>1. Activate(tab.id) /\ floats' = floats
    BY <1>3 DEF OpenDiff
  <2>2. Docked(tab.id)
    BY <1>3 DEF Docked
  <2> QED BY <2>1, <2>2, ActivateKeeps
<1>4. CASE tab.id \notin TabIds(right) /\ diffs # {}
  <2>1. right' = Append1(right, pane, tab) /\ UNCHANGED <<bottom, floats>>
    BY <1>4 DEF OpenDiff
  <2> HIDE DEF pane, tab
  <2>2. TabIds(right) \subseteq TabIds(right')
    BY <2>1, <1>1, <1>2, Append1Keeps
  <2>3. FloatTabs' = FloatTabs
    BY <2>1, SameWindows
  <2> QED BY <2>1, <2>2, <2>3 DEF OpenIds
<1>5. CASE tab.id \notin TabIds(right) /\ diffs = {} /\ source \notin Panes(right)
  <2>1. Land(tab)
    BY <1>5 DEF OpenDiff
  <2> QED BY <2>1, <1>1, LandKeeps
<1>6. CASE tab.id \notin TabIds(right) /\ diffs = {} /\ source \in Panes(right)
  <2> DEFINE n == counter + 1
             k == counter + 2
             r == SplitLeafAt(right, source, Leaf(<<"pane", n>>, <<tab>>, tab.id), <<"split", k>>, FALSE)
  <2>1. right' = r /\ UNCHANGED <<bottom, floats>> /\ counter + 2 <= MaxId
    <3>1. right' = InsertLeafAt(right, source, tab, FALSE) /\ UNCHANGED <<bottom, floats>> /\ RoomFor(2)
      BY <1>6 DEF OpenDiff
    <3> QED BY <3>1, <1>6 DEF InsertLeafAt, RoomFor
  <2>2. n \in Number /\ k \in Number /\ counter < n /\ counter < k
    BY <2>1, <1>2, Typed DEF Number
  <2>3. \A x \in Nodes(right) : x[2] <= counter
    BY <1>2 DEF LayoutShape
  <2> HIDE DEF source, tab, n, k
  <2>4. TabIds(right) \subseteq TabIds(r)
    BY <2>2, <2>3, <1>1, <1>2, <1>6, SplitKeeps
  <2> HIDE DEF r
  <2>5. FloatTabs' = FloatTabs
    BY <2>1, SameWindows
  <2> QED BY <2>1, <2>4, <2>5 DEF OpenIds
<1> QED BY <1>3, <1>4, <1>5, <1>6

\* Taking a tab out of its pane loses no other tab, and no other pane.
LEMMA TakenKeeps ==
  ASSUME LayoutInv, NEW pane \in Panes(right) \cup Panes(bottom), NEW id \in Has(TreeOf(pane), pane)
  PROVE  LET taken == TakeOut(TreeOf(pane), pane, id)
             a == IF InBottom(pane) THEN right ELSE taken
             b == IF InBottom(pane) THEN taken ELSE bottom
             tab == TabWith(LeafAt(TreeOf(pane), pane).tabs, id)
         IN /\ Good(a) /\ Good(b) /\ Nodes(a) \subseteq Nodes(right) /\ Nodes(b) \subseteq Nodes(bottom)
            /\ TabIds(right) \ {id} \subseteq TabIds(a) /\ TabIds(bottom) \ {id} \subseteq TabIds(b)
            /\ \A p \in Panes(right) \ Panes(a) : p = pane /\ Has(TreeOf(pane), pane) \subseteq {id}
            /\ \A p \in Panes(bottom) \ Panes(b) : p = pane /\ Has(TreeOf(pane), pane) \subseteq {id}
            /\ tab \in SideTab /\ tab.id = id /\ id \in OpenIds
<1> DEFINE t == TreeOf(pane)
           taken == TakeOut(t, pane, id)
           tab == TabWith(LeafAt(t, pane).tabs, id)
<1>1. LayoutShape /\ Good(right) /\ Good(bottom)
  BY Typed
<1>2. Good(t) /\ pane \in Panes(t) /\ t = (IF InBottom(pane) THEN bottom ELSE right) /\ InBottom(pane) \in BOOLEAN
  BY <1>1, TreeOfIs DEF TreeOf, InBottom
<1>3. tab \in SideTab /\ tab.id = id
  <2>1. LeafAt(t, pane).tabs \in Seq(SideTab) /\ id \in Ids(LeafAt(t, pane).tabs)
    BY <1>2, HasTabs DEF Has
  <2> QED BY <2>1, TabWithIs
<1>4. id \in TabIds(t)
  BY <1>2, HasTabs
<1> HIDE DEF t, tab
<1>5. /\ Good(taken) /\ TabIds(t) \ {id} \subseteq TabIds(taken) /\ Nodes(taken) \subseteq Nodes(t)
      /\ Panes(t) \ {pane} \subseteq Panes(taken)
      /\ pane \in Panes(t) \ Panes(taken) => Has(t, pane) \subseteq {id}
  BY <1>2, TakeOutKeeps
<1> HIDE DEF taken
<1>6. id \in OpenIds
  BY <1>2, <1>4 DEF OpenIds
<1>7. CASE InBottom(pane)
  <2>1. t = bottom
    BY <1>2, <1>7
  <2> QED BY <2>1, <1>1, <1>3, <1>5, <1>6, <1>7 DEF t, taken, tab
<1>8. CASE ~InBottom(pane)
  <2>1. t = right
    BY <1>2, <1>8
  <2> QED BY <2>1, <1>1, <1>3, <1>5, <1>6, <1>8 DEF t, taken, tab
<1> QED BY <1>2, <1>7, <1>8

\* The trees a and b are the two trees but for the tab taken out of `from`; the
\* one that has `to`, t, becomes r, where the tab is back if there is still a `to`.
MovedTo(from, to, id, a, b, t, r) ==
  /\ from \in Panes(right) \cup Panes(bottom) /\ to \in Panes(right) \cup Panes(bottom)
  /\ id \in Has(TreeOf(from), from)
  /\ TabIds(right) \ {id} \subseteq TabIds(a) /\ TabIds(bottom) \ {id} \subseteq TabIds(b)
  /\ \A p \in Panes(right) \ Panes(a) : p = from /\ Has(TreeOf(from), from) \subseteq {id}
  /\ \A p \in Panes(bottom) \ Panes(b) : p = from /\ Has(TreeOf(from), from) \subseteq {id}
  /\ t = IF InBottom(to) THEN b ELSE a
  /\ right' = (IF InBottom(to) THEN a ELSE r) /\ bottom' = (IF InBottom(to) THEN r ELSE b)
  /\ TabIds(t) \subseteq TabIds(r) /\ (to \in Panes(t) => id \in TabIds(r)) /\ floats' = floats

\* A tab moves to a pane, or beside it: only a pane that is gone by then cannot
\* take it.
LEMMA MovedKeeps ==
  ASSUME LayoutInv, NEW from, NEW to, NEW id, NEW a, NEW b, NEW t, NEW r, MovedTo(from, to, id, a, b, t, r)
  PROVE  OpenIds \subseteq OpenIds' \/ (from = to /\ Has(TreeOf(from), from) = {id})
<1> USE DEF MovedTo
<1>1. LayoutShape /\ FloatTabs' = FloatTabs
  BY Typed, SameWindows
<1>2. to \in Panes(IF InBottom(to) THEN bottom ELSE right)
  BY <1>1, TreeOfIs DEF TreeOf
<1>3. OpenIds \ {id} \subseteq OpenIds'
  <2>1. CASE InBottom(to)
    <3>1. right' = a /\ bottom' = r /\ TabIds(b) \subseteq TabIds(r)
      BY <2>1
    <3>2. TabIds(right) \ {id} \subseteq TabIds(right') /\ TabIds(bottom) \ {id} \subseteq TabIds(bottom')
      BY <3>1
    <3> QED BY <3>2, <1>1 DEF OpenIds
  <2>2. CASE ~InBottom(to)
    <3>1. right' = r /\ bottom' = b /\ TabIds(a) \subseteq TabIds(r)
      BY <2>2
    <3>2. TabIds(right) \ {id} \subseteq TabIds(right') /\ TabIds(bottom) \ {id} \subseteq TabIds(bottom')
      BY <3>1
    <3> QED BY <3>2, <1>1 DEF OpenIds
  <2> QED BY <2>1, <2>2
<1>4. CASE to \in Panes(t)
  <2>1. id \in TabIds(r)
    BY <1>4
  <2>2. id \in OpenIds'
    <3>1. CASE InBottom(to)
      BY <3>1, <2>1 DEF OpenIds
    <3>2. CASE ~InBottom(to)
      BY <3>2, <2>1 DEF OpenIds
    <3> QED BY <3>1, <3>2
  <2> QED BY <2>2, <1>3
<1>5. CASE to \notin Panes(t)
  <2>1. CASE InBottom(to)
    BY <2>1, <1>2, <1>5
  <2>2. CASE ~InBottom(to)
    BY <2>2, <1>2, <1>5
  <2> QED BY <2>1, <2>2
<1> QED BY <1>4, <1>5

LEMMA MoveTabKeeps ==
  ASSUME LayoutInv, NEW from \in Shown, NEW to \in Shown,
         NEW id \in Has(TreeOf(from), from), NEW index, MoveTab(from, id, to, index)
  PROVE  OpenIds \subseteq OpenIds' \/ (from = to /\ Has(TreeOf(from), from) = {id})
<1> DEFINE taken == TakeOut(TreeOf(from), from, id)
           tab == TabWith(LeafAt(TreeOf(from), from).tabs, id)
           a == IF InBottom(from) THEN right ELSE taken
           b == IF InBottom(from) THEN taken ELSE bottom
           t == IF InBottom(to) THEN b ELSE a
           r == PutAt(t, to, tab, index)
<1>1. from \in Panes(right) \cup Panes(bottom) /\ to \in Panes(right) \cup Panes(bottom)
      /\ InBottom(from) \in BOOLEAN /\ InBottom(to) \in BOOLEAN /\ floats' = floats
  BY ShownIs DEF InBottom, MoveTab
<1>2. right' = (IF InBottom(to) THEN a ELSE r) /\ bottom' = (IF InBottom(to) THEN r ELSE b)
  <2>1. CASE InBottom(from) = InBottom(to)
    <3>1. t = taken
      BY <2>1, <1>1
    <3>2. SetTree(InBottom(to), PutAt(taken, to, tab, index))
      BY <2>1 DEF MoveTab, Moved
    <3> HIDE DEF tab, taken
    <3> QED BY <3>1, <3>2, <2>1 DEF SetTree
  <2>2. CASE InBottom(from) # InBottom(to)
    <3>1. /\ bottom' = IF InBottom(to) THEN PutAt(bottom, to, tab, index) ELSE taken
          /\ right' = IF InBottom(to) THEN taken ELSE PutAt(right, to, tab, index)
      BY <2>2 DEF MoveTab, Moved
    <3> HIDE DEF tab, taken
    <3> QED BY <3>1, <2>2, <1>1
  <2> QED BY <2>1, <2>2
<1>3. /\ Good(a) /\ Good(b)
      /\ TabIds(right) \ {id} \subseteq TabIds(a) /\ TabIds(bottom) \ {id} \subseteq TabIds(b)
      /\ \A p \in Panes(right) \ Panes(a) : p = from /\ Has(TreeOf(from), from) \subseteq {id}
      /\ \A p \in Panes(bottom) \ Panes(b) : p = from /\ Has(TreeOf(from), from) \subseteq {id}
      /\ tab \in SideTab /\ tab.id = id
  BY <1>1, TakenKeeps
<1> HIDE DEF taken, tab, a, b
<1>4. Good(t) /\ t = (IF InBottom(to) THEN b ELSE a)
  BY <1>1, <1>3
<1> HIDE DEF t
<1>5. TabIds(t) \subseteq TabIds(r) /\ (to \in Panes(t) => id \in TabIds(r))
  BY <1>3, <1>4, PutAtKeeps
<1> HIDE DEF r
<1>6. MovedTo(from, to, id, a, b, t, r)
  BY <1>1, <1>2, <1>3, <1>4, <1>5 DEF MovedTo
<1> QED BY <1>6, MovedKeeps

LEMMA DropOnEdgeKeeps ==
  ASSUME LayoutInv, NEW from, NEW to,
         NEW id \in Has(TreeOf(from), from), NEW front \in BOOLEAN, DropOnEdge(from, id, to, front)
  PROVE  OpenIds \subseteq OpenIds' \/ (from = to /\ Has(TreeOf(from), from) = {id})
<1> DEFINE taken == TakeOut(TreeOf(from), from, id)
           tab == TabWith(LeafAt(TreeOf(from), from).tabs, id)
           a == IF InBottom(from) THEN right ELSE taken
           b == IF InBottom(from) THEN taken ELSE bottom
           t == IF InBottom(to) THEN b ELSE a
           n == counter + 1
           k == counter + 2
           r == InsertLeafAt(t, to, tab, front)
<1>1. from \in Panes(right) \cup Panes(bottom) /\ to \in Panes(right) \cup Panes(bottom)
      /\ InBottom(from) \in BOOLEAN /\ InBottom(to) \in BOOLEAN /\ floats' = floats /\ counter + 2 <= MaxId
  BY ShownIs DEF InBottom, DropOnEdge, RoomFor
<1>2. right' = (IF InBottom(to) THEN a ELSE r) /\ bottom' = (IF InBottom(to) THEN r ELSE b)
  <2>1. CASE InBottom(from) = InBottom(to)
    <3>1. t = taken
      BY <2>1, <1>1
    <3>2. SetTree(InBottom(to), InsertLeafAt(taken, to, tab, front))
      BY <2>1 DEF DropOnEdge, Moved
    <3> HIDE DEF tab, taken
    <3> QED BY <3>1, <3>2, <2>1 DEF SetTree
  <2>2. CASE InBottom(from) # InBottom(to)
    <3>1. /\ bottom' = IF InBottom(to) THEN InsertLeafAt(bottom, to, tab, front) ELSE taken
          /\ right' = IF InBottom(to) THEN taken ELSE InsertLeafAt(right, to, tab, front)
      BY <2>2 DEF DropOnEdge, Moved
    <3> HIDE DEF tab, taken
    <3> QED BY <3>1, <2>2, <1>1
  <2> QED BY <2>1, <2>2
<1>3. /\ Good(a) /\ Good(b) /\ Nodes(a) \subseteq Nodes(right) /\ Nodes(b) \subseteq Nodes(bottom)
      /\ TabIds(right) \ {id} \subseteq TabIds(a) /\ TabIds(bottom) \ {id} \subseteq TabIds(b)
      /\ \A p \in Panes(right) \ Panes(a) : p = from /\ Has(TreeOf(from), from) \subseteq {id}
      /\ \A p \in Panes(bottom) \ Panes(b) : p = from /\ Has(TreeOf(from), from) \subseteq {id}
      /\ tab \in SideTab /\ tab.id = id
  BY <1>1, TakenKeeps
<1> HIDE DEF taken, tab, a, b
<1>4. Good(t) /\ t = (IF InBottom(to) THEN b ELSE a) /\ \A x \in Nodes(t) : x[2] <= counter
  BY <1>1, <1>3, Typed DEF LayoutShape
<1>5. n \in Number /\ k \in Number /\ counter \in Nat /\ counter < n /\ counter < k
  BY <1>1, Typed DEF Number
<1> HIDE DEF t, n, k
<1>6. TabIds(t) \subseteq TabIds(r) /\ (to \in Panes(t) => id \in TabIds(r))
  <2>1. CASE to \in Panes(t)
    <3>1. r = SplitLeafAt(t, to, Leaf(<<"pane", n>>, <<tab>>, tab.id), <<"split", k>>, front)
      BY <2>1 DEF InsertLeafAt, n, k
    <3> HIDE DEF r
    <3>2. TabIds(t) \subseteq TabIds(SplitLeafAt(t, to, Leaf(<<"pane", n>>, <<tab>>, tab.id), <<"split", k>>, front))
          /\ tab.id \in TabIds(SplitLeafAt(t, to, Leaf(<<"pane", n>>, <<tab>>, tab.id), <<"split", k>>, front))
      BY <2>1, <1>3, <1>4, <1>5, SplitKeeps
    <3> QED BY <3>1, <3>2, <1>3
  <2>2. CASE to \notin Panes(t)
    BY <2>2 DEF InsertLeafAt
  <2> QED BY <2>1, <2>2
<1> HIDE DEF r
<1>7. MovedTo(from, to, id, a, b, t, r)
  BY <1>1, <1>2, <1>3, <1>4, <1>6 DEF MovedTo
<1> QED BY <1>7, MovedKeeps

LEMMA FloatTabKeeps ==
  ASSUME LayoutInv, NEW id, FloatTab(id)
  PROVE  OpenIds \subseteq OpenIds'
<1> DEFINE pane == PaneOfTab(id).id
           t == TreeOf(pane)
           taken == TakeOut(t, pane, id)
           a == IF InBottom(pane) THEN right ELSE taken
           b == IF InBottom(pane) THEN taken ELSE bottom
           tab == TabWith(LeafAt(t, pane).tabs, id)
           window == [id |-> <<"float", counter + 1>>, tab |-> tab]
<1>1. LayoutShape /\ floats \in Seq(FloatSet) /\ counter \in Nat
  BY Typed
<1>2. /\ Docked(id) /\ counter < MaxId /\ SetTree(InBottom(pane), taken)
      /\ floats' = Append(floats, [id |-> <<"float", counter + 1>>, tab |-> TabWith(PaneOfTab(id).tabs, id)])
  BY DEF FloatTab
<1>3. pane \in Panes(right) \cup Panes(bottom) /\ id \in Has(t, pane) /\ PaneOfTab(id) = LeafAt(t, pane)
      /\ InBottom(pane) \in BOOLEAN
  BY <1>1, <1>2, PaneOfTabIs DEF InBottom
<1>4. right' = a /\ bottom' = b /\ floats' = Append(floats, window)
  BY <1>2, <1>3 DEF SetTree
<1>5. /\ TabIds(right) \ {id} \subseteq TabIds(a) /\ TabIds(bottom) \ {id} \subseteq TabIds(b)
      /\ tab \in SideTab /\ tab.id = id
  BY <1>3, TakenKeeps
<1> HIDE DEF a, b, tab
<1>6. window \in FloatSet /\ window.tab.id = id
  BY <1>1, <1>2, <1>5, Typed DEF FloatSet, Number
<1> HIDE DEF window
<1>7. Ids(WindowTabs(Append(floats, window))) = Ids(WindowTabs(floats)) \cup {window.tab.id}
  BY <1>1, <1>6, AppendWindow
<1>8. Ids(FloatTabs') = Ids(FloatTabs) \cup {id}
  BY <1>4, <1>6, <1>7, WindowsNow
<1> QED BY <1>4, <1>5, <1>8 DEF OpenIds

LEMMA DockFloatKeeps ==
  ASSUME LayoutInv, FloatIdsNeverCollide, NEW i \in DOMAIN floats, NEW pane, DockFloat(floats[i].id, pane)
  PROVE  OpenIds \subseteq OpenIds'
<1> DEFINE window == floats[i].id
           W == {k \in DOMAIN floats : floats[k].id = window}
           first == Min(W)
           to == LandingPane(pane)
           I == {k \in DOMAIN floats : floats[k].id # window}
           tab == floats[first].tab
           t == TreeOf(to)
           r == Append1(t, to, tab)
<1>0. floats' = Only(floats, I) /\ SetTree(InBottom(to), r)
  BY DEF DockFloat
<1>1. LayoutShape /\ floats \in Seq(FloatSet)
  BY Typed
<1>2. first \in DOMAIN floats /\ floats[first].id = window
  <2>1. W \in SUBSET Nat /\ W # {}
    BY <1>1
  <2> HIDE DEF W
  <2>2. first \in W
    BY <2>1, MinIs
  <2> QED BY <2>2 DEF W
<1> HIDE DEF first, W
<1>3. tab \in SideTab
  <2>1. floats[first] \in FloatSet
    BY <1>1, <1>2
  <2> QED BY <2>1 DEF FloatSet
<1>4. to \in Panes(right) \cup Panes(bottom)
  BY <1>1, LandingPaneIs
<1> HIDE DEF to
<1>5. t = (IF InBottom(to) THEN bottom ELSE right) /\ InBottom(to) \in BOOLEAN /\ Good(t) /\ to \in Panes(t)
  BY <1>1, <1>4, TreeOfIs DEF TreeOf, InBottom
<1>6. Ids(FloatTabs) \ {tab.id} \subseteq Ids(FloatTabs')
  <2>1. Ids(FloatTabs') = {floats[k].tab.id : k \in I \cap DOMAIN floats}
    <3> HIDE DEF I
    <3> QED BY <1>0, <1>1, OnlyWindows, WindowsNow
  <2>2. Ids(FloatTabs) = {floats[k].tab.id : k \in DOMAIN floats}
    BY <1>1, WindowTabsAre, WindowsNow
  <2>3. \A k \in DOMAIN floats : k \in I \/ k = first
    BY <1>2 DEF FloatIdsNeverCollide
  <2> QED BY <2>1, <2>2, <2>3
<1> HIDE DEF t, tab, I
<1>7. TabIds(t) \subseteq TabIds(r) /\ tab.id \in TabIds(r)
  BY <1>3, <1>5, Append1Keeps
<1> HIDE DEF r
<1>8. OpenIds \ {tab.id} \subseteq OpenIds' /\ TabIds(r) \subseteq OpenIds'
  BY <1>0, <1>5, <1>6, <1>7, OneTreeKeeps
<1> QED BY <1>7, <1>8

LEMMA MigrateKeeps ==
  ASSUME LayoutInv, Migrate
  PROVE  OpenIds \subseteq OpenIds'
<1> DEFINE target == FirstLeaf(right)
           row == TabsIn(bottom)
           by == [target EXCEPT !.tabs = @ \o row]
<1>1. LayoutShape /\ Good(right) /\ Good(bottom)
  BY Typed
<1>2. FloatTabs' = FloatTabs
  <2>1. floats' = floats
    BY DEF Migrate
  <2> QED BY <2>1, SameWindows
<1>3. CASE ~NeedsMerge
  <2>1. UNCHANGED <<right, bottom>>
    BY <1>3 DEF Migrate
  <2> QED BY <2>1, <1>2 DEF OpenIds
<1>4. CASE NeedsMerge
  <2>1. right' = MapLeaf(right, target.id, by)
    BY <1>4 DEF Migrate
  <2>2. target \in LeafSet /\ target.id \in Panes(right) /\ target = LeafAt(right, target.id) /\ LeafOK(target)
    BY <1>1, FirstLeafIs, LeafIs
  <2>3. row \in Seq(SideTab) /\ Ids(row) = TabIds(bottom)
    BY <1>1, TabsInIs
  <2> HIDE DEF target, row
  <2>4. target.tabs \o row \in Seq(SideTab) /\ Ids(target.tabs \o row) = Ids(target.tabs) \cup Ids(row)
    <3>1. target.tabs \in Seq(SideTab)
      BY <2>2 DEF LeafSet
    <3> QED BY <3>1, <2>3, GainsTabs
  <2>5. by \in LeafSet /\ by.id = target.id /\ by.tabs = target.tabs \o row /\ by.active = target.active
    BY <2>2, <2>4 DEF LeafSet
  <2>6. LeafOK(by) /\ Ids(by.tabs) = Has(right, by.id) \cup TabIds(bottom)
    BY <2>2, <2>3, <2>4, <2>5 DEF LeafOK, Has
  <2> HIDE DEF by
  <2>7. TabIds(right) \subseteq TabIds(right') /\ Ids(by.tabs) \subseteq TabIds(right')
    <3>1. right' = MapLeaf(right, by.id, by) /\ by.id \in Panes(right) /\ Has(right, by.id) \subseteq Ids(by.tabs)
      BY <2>1, <2>2, <2>5, <2>6
    <3> QED BY <3>1, <1>1, <2>5, <2>6, MapLeafKeeps
  <2> QED BY <2>6, <2>7, <1>2 DEF OpenIds
<1> QED BY <1>3, <1>4

LEMMA GitDefaultsKeeps ==
  ASSUME LayoutInv, NEW hasGit \in BOOLEAN, GitDefaults(hasGit)
  PROVE  OpenIds \subseteq OpenIds'
<1>1. LayoutShape /\ FloatTabs' = FloatTabs
  <2>1. floats' = floats
    BY DEF GitDefaults
  <2> QED BY <2>1, Typed, SameWindows
<1>2. CASE UNCHANGED <<right, bottom, activePane>>
  BY <1>1, <1>2 DEF OpenIds
<1>3. ASSUME NEW pane, NEW c, NEW by, GitAdded(pane, c, by) PROVE OpenIds \subseteq OpenIds'
  <2> DEFINE t == TreeOf(pane)
             r == MapLeaf(t, by.id, by)
  <2>1. /\ pane \in Panes(right) \cup Panes(bottom) /\ by.id = pane
        /\ by \in LeafSet /\ LeafOK(by) /\ Has(t, by.id) \subseteq Ids(by.tabs)
        /\ SetTree(InBottom(pane), r)
    BY <1>3 DEF GitAdded
  <2>2. Good(t) /\ t = (IF InBottom(pane) THEN bottom ELSE right) /\ by.id \in Panes(t) /\ InBottom(pane) \in BOOLEAN
    BY <2>1, <1>1, TreeOfIs DEF TreeOf, InBottom
  <2> HIDE DEF t
  <2>3. TabIds(t) \subseteq TabIds(r)
    BY <2>1, <2>2, MapLeafKeeps
  <2> HIDE DEF r
  <2>4. OpenIds \ {} \subseteq OpenIds'
    BY <1>1, <2>1, <2>2, <2>3, OneTreeKeeps
  <2> QED BY <2>4
<1> QED BY <1>2, <1>3, GitDefaultsIs

\* Only a terminal that has ended loses its tab to the host's list.
LEMMA ReconcileKeeps ==
  ASSUME LayoutInv, NEW live \in SUBSET Agent, Reconcile(live), NEW id \in OpenIds \ OpenIds'
  PROVE  TabWith(OpenTabs, id).kind = "terminal" /\ TabWith(OpenTabs, id).of \notin live
<1> DEFINE gone == Vanished(live)
<1>1. PICK tree, inBottom, r, fresh : Reconciled(live, tree, inBottom, r, fresh)
  BY ReconcileIs
<1>2. LayoutShape /\ Good(right)
  BY Typed
<1>3. gone \in Seq(SideTab) /\ Ids(gone) = {x \in Ids(OpenTabs) : \E a \in Agent \ live : x = <<"agent", a>>}
  BY <1>2, VanishedIs
<1>4. /\ tree = Dropped(right, gone) /\ inBottom \in BOOLEAN
      /\ TabIds(r) = TabIds(IF inBottom THEN bottom ELSE tree) \cup Ids(fresh)
      /\ right' = (IF inBottom THEN tree ELSE r) /\ bottom' = (IF inBottom THEN r ELSE bottom)
      /\ Ids(FloatTabs') = Ids(FloatTabs) \ Ids(gone)
  BY <1>1 DEF Reconciled
<1> HIDE DEF gone
<1>5. TabIds(right) \ Ids(gone) \subseteq TabIds(tree)
  BY <1>2, <1>3, <1>4, DroppedIs
<1>6. OpenIds \ Ids(gone) \subseteq OpenIds'
  <2>1. CASE inBottom
    BY <2>1, <1>4, <1>5 DEF OpenIds
  <2>2. CASE ~inBottom
    BY <2>2, <1>4, <1>5 DEF OpenIds
  <2> QED BY <2>1, <2>2, <1>4
<1>7. id \in Ids(OpenTabs) /\ \E a \in Agent \ live : id = <<"agent", a>>
  BY <1>3, <1>6
<1>8. OpenTabs \in Seq(SideTab)
  BY <1>2, OpenTabsNow DEF OpenTabsSound
<1>9. TabWith(OpenTabs, id) \in SideTab /\ TabWith(OpenTabs, id).id = id
  BY <1>7, <1>8, TabWithIs
<1>10. PICK a \in Agent \ live : id = <<"agent", a>>
  BY <1>7
<1>11. TabWith(OpenTabs, id) = AgentTab(a)
  BY <1>9, <1>10, AgentTabIs
<1> QED BY <1>10, <1>11 DEF AgentTab, TabOf

\* Only diffs are lost by a reload.
LEMMA ReloadKeeps ==
  ASSUME LayoutInv, FloatIdsNeverCollide, Reload, NEW id \in Ids(OpenTabs) \ Ids(OpenTabs')
  PROVE  TabWith(OpenTabs, id).kind = "diff"
<1>1. LayoutShape /\ Good(right) /\ Good(bottom)
  BY Typed
<1>2. PICK a, b, f : a = TabsIn(right) /\ b = TabsIn(bottom) /\ f = FloatTabs
  OBVIOUS
<1>3. a \in Seq(SideTab) /\ b \in Seq(SideTab) /\ f \in Seq(SideTab)
  BY <1>1, <1>2, TabsInIs, OpenTabsNow DEF OpenTabsSound
<1>4. OpenTabs = (a \o b) \o f /\ OpenTabs' = (Kept(a) \o Kept(b)) \o Kept(f)
  <2>1. OpenTabs' = (TabsIn(right') \o TabsIn(bottom')) \o FloatTabs'
    BY DEF OpenTabs
  <2> QED BY <2>1, <1>2, RestoreStep DEF OpenTabs
<1>5. OpenTabs' = Kept(OpenTabs)
  <2>1. PICK m : m = a \o b
    OBVIOUS
  <2>2. m \in Seq(SideTab) /\ Kept(m) = Kept(a) \o Kept(b)
    BY <2>1, <1>3, KeptJoin, ConcatProperties
  <2>3. Kept(m \o f) = Kept(m) \o Kept(f)
    BY <2>2, <1>3, KeptJoin
  <2> QED BY <2>1, <2>2, <2>3, <1>4
<1>6. PICK o : o = OpenTabs
  OBVIOUS
<1>7. o \in Seq(SideTab)
  BY <1>1, <1>6, OpenTabsNow DEF OpenTabsSound
<1> DEFINE I == {i \in DOMAIN o : o[i].kind # "diff"}
<1>8. Kept(o) = Only(o, I) /\ \A i \in DOMAIN o : i \in I <=> o[i].kind # "diff"
  BY DEF Kept
<1> HIDE DEF I
<1>9. Ids(Kept(o)) = {o[i].id : i \in I \cap DOMAIN o}
  BY <1>7, <1>8, OnlyKeeps
<1>10. id \in Ids(o) /\ id \notin Ids(Kept(o))
  BY <1>5, <1>6
<1>11. TabWith(o, id) \in ToSet(o) /\ TabWith(o, id).id = id
  BY <1>7, <1>10, TabWithIs
<1>12. PICK i \in DOMAIN o : o[i] = TabWith(o, id)
  BY <1>11 DEF ToSet
<1>13. i \notin I
  BY <1>9, <1>10, <1>11, <1>12
<1> QED BY <1>6, <1>8, <1>12, <1>13

\* What may make a tab disappear.
Excused(id) ==
  \/ CloseTab(id) \/ OwnPaneDrop
  \/ TabWith(OpenTabs, id).kind = "diff" /\ Reload
  \/ TabWith(OpenTabs, id).kind = "terminal" /\ \E live \in SUBSET Agent :
       TabWith(OpenTabs, id).of \notin live /\ Reconcile(live)

LEMMA CloseTabKeeps ==
  ASSUME LayoutInv, NEW id, CloseTab(id)
  PROVE  OpenIds \ {id} \subseteq OpenIds'
<1>1. LayoutShape /\ floats \in Seq(FloatSet)
  BY Typed
<1>2. CASE Floating(id)
  <2> DEFINE I == {i \in DOMAIN floats : floats[i].tab.id # id}
  <2>1. floats' = Only(floats, I) /\ UNCHANGED <<right, bottom>>
    BY <1>2 DEF CloseTab
  <2>2. Ids(FloatTabs') = {floats[k].tab.id : k \in I \cap DOMAIN floats}
    <3> HIDE DEF I
    <3> QED BY <2>1, <1>1, OnlyWindows, WindowsNow
  <2>3. Ids(FloatTabs) = {floats[k].tab.id : k \in DOMAIN floats}
    BY <1>1, WindowTabsAre, WindowsNow
  <2>4. Ids(FloatTabs) \ {id} \subseteq Ids(FloatTabs')
    BY <2>2, <2>3
  <2> QED BY <2>1, <2>4 DEF OpenIds
<1>3. CASE ~Floating(id)
  <2> DEFINE pane == PaneOfTab(id).id
             t == TreeOf(pane)
             r == TakeOut(t, pane, id)
  <2>1. SetTree(InBottom(pane), r) /\ floats' = floats /\ Docked(id)
    BY <1>3 DEF CloseTab, AtHand
  <2>2. pane \in Panes(right) \cup Panes(bottom) /\ Good(t)
    BY <2>1, <1>1, PaneOfTabIs
  <2> HIDE DEF pane
  <2>3. t = (IF InBottom(pane) THEN bottom ELSE right) /\ InBottom(pane) \in BOOLEAN
    BY DEF TreeOf, InBottom
  <2> HIDE DEF t
  <2>4. TabIds(t) \ {id} \subseteq TabIds(r)
    BY <2>2, TakeOutKeeps
  <2> HIDE DEF r
  <2>5. FloatTabs' = FloatTabs
    BY <2>1, SameWindows
  <2> QED BY <2>1, <2>3, <2>4, <2>5, OneTreeKeeps
<1> QED BY <1>2, <1>3

\* A drop loses a tab only if it is alone in the pane it is dropped on.
LEMMA DropKeeps ==
  ASSUME LayoutInv, Drop
  PROVE  OpenIds \subseteq OpenIds' \/ OwnPaneDrop
<1>0. LayoutShape
  BY Typed
<1>1. PICK from \in Panes(right) \cup Panes(bottom), to \in Panes(right) \cup Panes(bottom) :
        \E id \in Ids(LeafAt(TreeOf(from), from).tabs) :
          \/ DropOnCentre(from, id, to)
          \/ \E before \in Ids(LeafAt(TreeOf(to), to).tabs) : DropBefore(from, id, to, before)
          \/ \E front \in BOOLEAN : DropOnEdge(from, id, to, front)
  BY DEF Drop
<1>2. PICK id \in Ids(LeafAt(TreeOf(from), from).tabs) :
        \/ DropOnCentre(from, id, to)
        \/ \E before \in Ids(LeafAt(TreeOf(to), to).tabs) : DropBefore(from, id, to, before)
        \/ \E front \in BOOLEAN : DropOnEdge(from, id, to, front)
  BY <1>1
<1>3. id \in Has(TreeOf(from), from)
  BY DEF Has
<1>4. id \in Ids(OpenTabs)
  <2>1. TreeOf(from) \in {right, bottom} /\ Good(TreeOf(from)) /\ from \in Panes(TreeOf(from))
    BY <1>0, TreeOfIs DEF TreeOf
  <2>2. id \in TabIds(TreeOf(from))
    BY <1>3, <2>1, HasTabs
  <2> QED BY <2>1, <2>2, <1>0, OpenTabsNow DEF OpenTabsSound
<1>5. CASE DropOnCentre(from, id, to)
  <2>1. from \in Shown /\ to \in Shown /\ MoveTab(from, id, to, Len(OpenTabs) + 1)
    BY <1>5 DEF DropOnCentre
  <2>2. OpenIds \subseteq OpenIds' \/ (from = to /\ Has(TreeOf(from), from) = {id})
    BY <2>1, <1>3, MoveTabKeeps
  <2> QED BY <2>2, <1>4, <1>5 DEF OwnPaneDrop, Has
<1>6. ASSUME NEW before \in Ids(LeafAt(TreeOf(to), to).tabs), DropBefore(from, id, to, before)
      PROVE  OpenIds \subseteq OpenIds' \/ OwnPaneDrop
  <2>1. from \in Shown /\ to \in Shown /\ \E index : MoveTab(from, id, to, index)
    BY <1>6 DEF DropBefore
  <2>2. OpenIds \subseteq OpenIds' \/ (from = to /\ Has(TreeOf(from), from) = {id})
    BY <2>1, <1>3, MoveTabKeeps
  <2>3. from = to /\ Has(TreeOf(from), from) = {id} => DropBefore(from, id, from, id)
    BY <1>6 DEF Has
  <2> QED BY <2>2, <2>3, <1>4 DEF OwnPaneDrop, Has
<1>7. ASSUME NEW front \in BOOLEAN, DropOnEdge(from, id, to, front)
      PROVE  OpenIds \subseteq OpenIds' \/ OwnPaneDrop
  <2>1. OpenIds \subseteq OpenIds' \/ (from = to /\ Has(TreeOf(from), from) = {id})
    BY <1>3, <1>7, DropOnEdgeKeeps
  <2> QED BY <2>1, <1>4, <1>7 DEF OwnPaneDrop, Has
<1> QED BY <1>2, <1>5, <1>6, <1>7

\* Every operation, by cases.
LEMMA EditKeeps ==
  ASSUME LayoutInv, LayoutInv', Edit, IdsDistinct, NEW id \in Ids(OpenTabs) \ Ids(OpenTabs')
  PROVE  Excused(id)
<1>1. id \in OpenIds /\ id \notin OpenIds'
  <2>1. LayoutShape /\ LayoutShape'
    BY DEF LayoutInv
  <2> QED BY <2>1, OpenTabsNow, OpenTabsThen DEF OpenTabsSound, OpenIds
<1>2. FloatIdsNeverCollide
  BY DEF IdsDistinct
<1>3. ~Open
  BY <1>1, OpenFileKeeps, OpenTypeKeeps, OpenDiffKeeps, OpenFileSideKeeps DEF Open
<1>4. CASE Touch
  <2>1. PICK k \in Ids(OpenTabs) : CloseTab(k) \/ ActivateTab(k) \/ RaiseFloat(k) \/ FloatTab(k)
    BY <1>4 DEF Touch
  <2>2. CASE CloseTab(k)
    <3>1. k = id
      BY <2>2, <1>1, CloseTabKeeps
    <3> QED BY <3>1, <2>2 DEF Excused
  <2>3. ~ActivateTab(k)
    <3>1. ActivateTab(k) => Docked(k) /\ Activate(k) /\ floats' = floats
      BY DEF ActivateTab, AtHand
    <3> QED BY <3>1, <1>1, ActivateKeeps
  <2>4. ~RaiseFloat(k)
    <3>1. RaiseFloat(k) => Floating(k) /\ floats' = Raised(WindowOf(k)) /\ UNCHANGED <<right, bottom>>
      BY DEF RaiseFloat
    <3> QED BY <3>1, <1>1, RaiseKeeps
  <2>5. ~FloatTab(k)
    BY <1>1, FloatTabKeeps
  <2> QED BY <2>1, <2>2, <2>3, <2>4, <2>5
<1>5. CASE Drop
  BY <1>1, <1>5, DropKeeps DEF Excused
<1>6. ~Dock
  BY <1>1, <1>2, DockFloatKeeps DEF Dock
<1>7. ~UNCHANGED <<right, bottom, floats>>
  <2>1. UNCHANGED <<right, bottom, floats>> => OpenIds' = OpenIds
    BY DEF OpenIds, FloatTabs
  <2> QED BY <2>1, <1>1
<1>8. /\ \A pane : ~FocusPane(pane)
      /\ ~TogglePanel /\ ~ToggleBottom /\ ~Resize /\ ~Revisit
  BY <1>7 DEF FocusPane, TogglePanel, ToggleBottom, Resize, Revisit
<1>9. ~Migrate
  BY <1>1, MigrateKeeps
<1>10. \A hasGit \in BOOLEAN : ~GitDefaults(hasGit)
  BY <1>1, GitDefaultsKeeps
<1>11. CASE \E live \in SUBSET Agent : Reconcile(live)
  <2>1. PICK live \in SUBSET Agent : Reconcile(live)
    BY <1>11
  <2>2. TabWith(OpenTabs, id).kind = "terminal" /\ TabWith(OpenTabs, id).of \notin live
    BY <2>1, <1>1, ReconcileKeeps
  <2> QED BY <2>1, <2>2 DEF Excused
<1>12. CASE Reload
  BY <1>2, <1>12, ReloadKeeps DEF Excused
<1> QED BY <1>3, <1>4, <1>5, <1>6, <1>8, <1>9, <1>10, <1>11, <1>12 DEF Edit

\* Moving, splitting, floating, docking and merging keep every tab.
THEOREM TabsAreKept == LayoutSpec => NoTabIsLost
<1>1. LayoutInv /\ LayoutInv' /\ [LayoutNext]_layoutVars
      => [Edited => \A id \in Ids(OpenTabs) \ Ids(OpenTabs') :
            \/ ~IdsDistinct
            \/ CloseTab(id) \/ OwnPaneDrop
            \/ TabWith(OpenTabs, id).kind = "diff" /\ Reload
            \/ TabWith(OpenTabs, id).kind = "terminal" /\ \E live \in SUBSET Agent :
                 TabWith(OpenTabs, id).of \notin live /\ Reconcile(live)]_layoutVars
  <2>1. SUFFICES ASSUME LayoutInv, LayoutInv', LayoutNext, IdsDistinct, NEW id \in Ids(OpenTabs) \ Ids(OpenTabs')
                 PROVE  Excused(id)
    BY DEF Excused, Edited, layoutVars
  <2>2. Edit
    BY <2>1 DEF LayoutNext
  <2> QED BY <2>1, <2>2, EditKeeps
<1> QED BY <1>1, LayoutKept, PTL DEF LayoutSpec, NoTabIsLost
===============================================================================
