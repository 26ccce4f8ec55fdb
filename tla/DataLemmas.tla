----------------------------- MODULE DataLemmas -----------------------------
(***************************************************************************)
(* Lemmas about the data of the models: induction over numbers and         *)
(* sequences, functions that are defined by recursion, what is kept of a   *)
(* sequence, histories, loops, and integers and their numerals.            *)
(*                                                                         *)
(* The induction theorems of the library take a property as an operator;   *)
(* here it is a set, the set of what has the property, so that a proof in  *)
(* first-order logic can cite them.  A recursive function is a CHOOSE of   *)
(* one that satisfies its equation: Recursion shows that one does.         *)
(***************************************************************************)
EXTENDS Ints, Subsequences, Functions, SequencesExt, SequenceTheorems,
        FiniteSetTheorems, WellFoundedInduction, TLAPS

-----------------------------------------------------------------------------
(* Numbers.                                                                *)

(* Every non-empty set of numbers has a least one.                         *)
LEMMA LeastNatural ==
  ASSUME NEW T \in SUBSET Nat, T # {}
  PROVE  \E n \in T : \A k \in T : n <= k
<1> DEFINE R == {ss \in Nat \X Nat : ss[1] < ss[2]}
<1>1. IsWellFoundedOn(R, Nat)
  BY NatLessThanWellFounded DEF OpToRel
<1>2. \E x \in T : \A y \in T : ~ (<<y, x>> \in R)
  <2> HIDE DEF R
  <2> QED
    BY <1>1, WFMin
<1>3. PICK n \in T : \A y \in T : ~ (<<y, n>> \in R)
  BY <1>2
<1>4. ASSUME NEW k \in T PROVE n <= k
  <2>1. <<k, n>> \notin R /\ <<k, n>> \in Nat \X Nat
    BY <1>3
  <2>2. ~ (k < n)
    BY <2>1
  <2> QED
    BY <2>2
<1> QED
  BY <1>4

(* And one that has no number above n has a greatest one.                  *)
LEMMA GreatestNatural ==
  ASSUME NEW n \in Nat, NEW T, T \subseteq 0 .. n, T # {}
  PROVE  \E x \in T : \A k \in T : k <= x
<1>1. \A k \in T : k \in Int /\ n - k \in Nat
  OBVIOUS
<1> DEFINE U == {n - k : k \in T}
<1>2. U \subseteq Nat /\ U # {}
  BY <1>1
<1>3. PICK m \in U : \A j \in U : m <= j
  <2> HIDE DEF U
  <2> QED
    BY <1>2, LeastNatural
<1>4. PICK x \in T : m = n - x
  OBVIOUS
<1>5. ASSUME NEW k \in T PROVE k <= x
  <2>1. n - k \in U
    OBVIOUS
  <2>2. n - x <= n - k
    BY <1>3, <1>4, <2>1
  <2> QED
    BY <1>1, <2>2
<1> QED
  BY <1>5

(* Induction over the numbers, for the set of those that have a property.  *)
LEMMA Induction ==
  ASSUME NEW S, 0 \in S, \A n \in Nat : n \in S => n + 1 \in S
  PROVE  Nat \subseteq S
<1> DEFINE T == Nat \ S
<1> SUFFICES ASSUME T # {} PROVE FALSE
  OBVIOUS
<1>1. PICK n \in T : \A k \in T : n <= k
  BY LeastNatural
<1>2. n # 0 /\ n - 1 \in Nat
  OBVIOUS
<1>3. n - 1 \in S
  BY <1>1, <1>2
<1>4. (n - 1) + 1 = n
  OBVIOUS
<1> QED
  BY <1>2, <1>3, <1>4

(* The same with all smaller numbers in the hypothesis.                    *)
LEMMA StrongInduction ==
  ASSUME NEW S, \A n \in Nat : (\A k \in Nat : k < n => k \in S) => n \in S
  PROVE  Nat \subseteq S
<1> DEFINE T == Nat \ S
<1> SUFFICES ASSUME T # {} PROVE FALSE
  OBVIOUS
<1>1. PICK n \in T : \A k \in T : n <= k
  BY LeastNatural
<1> QED
  BY <1>1

-----------------------------------------------------------------------------
(* Functions on the numbers, or on some of them, that are defined by       *)
(* recursion.                                                              *)

(* What a recursion may run over: the numbers, or those up to some number. *)
Initial(D) == D \subseteq Nat /\ 0 \in D /\ \A n \in D : 0 .. n \subseteq D

(* f is v at 0 and what G makes of n and of f at p[n] at every other n.    *)
Recurses(f, D, p, v, G) ==
  f = [n \in D |-> IF n = 0 THEN v ELSE G[<<n, f[p[n]]>>]]

(* p goes down, and G stays in V.                                          *)
Descends(D, p, V, v, G) ==
  /\ v \in V
  /\ \A n \in D \ {0} : p[n] \in Nat /\ p[n] < n
  /\ \A n \in D \ {0}, x \in V : G[<<n, x>>] \in V

(* A function that recurses so has its values in V.                        *)
LEMMA RecursionType ==
  ASSUME NEW D, NEW p, NEW V, NEW v, NEW G, Initial(D), Descends(D, p, V, v, G),
         NEW f, Recurses(f, D, p, v, G)
  PROVE  f \in [D -> V]
<1> DEFINE S == {n \in Nat : n \in D => f[n] \in V}
<1>1. ASSUME NEW n \in Nat, \A k \in Nat : k < n => k \in S, n \in D
      PROVE  f[n] \in V
  <2>1. CASE n = 0
    BY <1>1, <2>1 DEF Recurses, Descends
  <2>2. CASE n # 0
    <3>1. p[n] \in Nat /\ p[n] < n
      BY <1>1, <2>2 DEF Descends
    <3>2. p[n] \in D
      BY <1>1, <3>1 DEF Initial
    <3>3. f[p[n]] \in V
      BY <1>1, <3>1, <3>2
    <3>4. f[n] = G[<<n, f[p[n]]>>]
      BY <1>1, <2>2 DEF Recurses
    <3> QED
      BY <1>1, <2>2, <3>3, <3>4 DEF Descends
  <2> QED
    BY <2>1, <2>2
<1>2. \A n \in Nat : (\A k \in Nat : k < n => k \in S) => n \in S
  BY <1>1
<1>3. Nat \subseteq S
  <2> HIDE DEF S
  <2> QED
    BY <1>2, StrongInduction
<1>4. \A n \in D : f[n] \in V
  BY <1>3 DEF Initial
<1>5. f = [n \in D |-> f[n]]
  BY DEF Recurses
<1> QED
  BY <1>4, <1>5

(* Two functions that recurse alike agree where both are defined.          *)
LEMMA RecursionUnique ==
  ASSUME NEW D, NEW p, NEW V, NEW v, NEW G, Initial(D), Descends(D, p, V, v, G),
         NEW E, Initial(E), E \subseteq D,
         NEW f, Recurses(f, D, p, v, G), NEW g, Recurses(g, E, p, v, G)
  PROVE  \A n \in E : f[n] = g[n]
<1> DEFINE S == {n \in Nat : n \in E => f[n] = g[n]}
<1>1. ASSUME NEW n \in Nat, \A k \in Nat : k < n => k \in S, n \in E
      PROVE  f[n] = g[n]
  <2>1. CASE n = 0
    BY <1>1, <2>1 DEF Recurses
  <2>2. CASE n # 0
    <3>1. p[n] \in Nat /\ p[n] < n
      BY <1>1, <2>2 DEF Descends
    <3>2. p[n] \in E
      BY <1>1, <3>1 DEF Initial
    <3>3. f[p[n]] = g[p[n]]
      BY <1>1, <3>1, <3>2
    <3>4. f[n] = G[<<n, f[p[n]]>>] /\ g[n] = G[<<n, g[p[n]]>>]
      BY <1>1, <2>2 DEF Recurses
    <3> QED
      BY <3>3, <3>4
  <2> QED
    BY <2>1, <2>2
<1>2. \A n \in Nat : (\A k \in Nat : k < n => k \in S) => n \in S
  BY <1>1
<1>3. Nat \subseteq S
  <2> HIDE DEF S
  <2> QED
    BY <1>2, StrongInduction
<1> QED
  BY <1>3 DEF Initial

(* There is a function that recurses so.                                   *)
LEMMA Recursion ==
  ASSUME NEW D, NEW p, NEW V, NEW v, NEW G, Initial(D), Descends(D, p, V, v, G)
  PROVE  \E f : Recurses(f, D, p, v, G)
<1> DEFINE A(n, f) == Recurses(f, 0 .. n, p, v, G)
           S == {n \in Nat : n \in D => \E f : A(n, f)}
<1>0. \A n \in D : /\ n \in Nat /\ Initial(0 .. n) /\ 0 .. n \subseteq D
                   /\ Descends(0 .. n, p, V, v, G)
  BY DEF Initial, Descends
<1>1. 0 \in S
  <2> DEFINE f == [n \in 0 .. 0 |-> v]
  <2>1. f = [n \in 0 .. 0 |-> IF n = 0 THEN v ELSE G[<<n, f[p[n]]>>]]
    OBVIOUS
  <2>2. A(0, f)
    BY <2>1 DEF Recurses
  <2> HIDE DEF f
  <2> QED
    BY <2>2
<1>2. ASSUME NEW n \in Nat, n \in S, n + 1 \in D PROVE \E f : A(n + 1, f)
  <2>1. n \in D
    BY <1>2 DEF Initial
  <2>2. PICK f : A(n, f)
    BY <1>2, <2>1
  <2> DEFINE m == n + 1
             g == [k \in 0 .. m |-> IF k = m THEN G[<<m, f[p[m]]>>] ELSE f[k]]
  <2>3. p[m] \in 0 .. n
    BY <1>2 DEF Descends
  <2>4. ASSUME NEW k \in 0 .. m
        PROVE  g[k] = IF k = 0 THEN v ELSE G[<<k, g[p[k]]>>]
    <3>1. CASE k = 0
      <4>1. g[k] = f[k]
        BY <3>1
      <4>2. f[k] = v
        BY <2>2, <3>1 DEF Recurses
      <4> QED
        BY <3>1, <4>1, <4>2
    <3>2. CASE k = m
      BY <2>3, <3>2
    <3>3. CASE k # 0 /\ k # m
      <4>1. k \in 0 .. n /\ k \in D
        BY <3>3, <1>0, <2>1
      <4>2. p[k] \in 0 .. n
        BY <3>3, <4>1 DEF Descends
      <4>3. g[k] = f[k] /\ g[p[k]] = f[p[k]]
        BY <3>3, <4>2
      <4>4. f[k] = G[<<k, f[p[k]]>>]
        BY <2>2, <3>3, <4>1 DEF Recurses
      <4> QED
        BY <3>3, <4>3, <4>4
    <3> QED
      BY <3>1, <3>2, <3>3
  <2>5. g = [k \in 0 .. m |-> g[k]]
    OBVIOUS
  <2> HIDE DEF g
  <2>6. A(m, g)
    BY <2>4, <2>5 DEF Recurses
  <2> QED
    BY <2>6
<1>3. Nat \subseteq S
  <2>1. \A n \in Nat : n \in S => n + 1 \in S
    BY <1>2
  <2> HIDE DEF S
  <2> QED
    BY <1>1, <2>1, Induction
<1>4. \A n \in D : \E f : A(n, f)
  BY <1>0, <1>3
<1> DEFINE F == [n \in D |-> CHOOSE f : A(n, f)]
           h == [n \in D |-> F[n][n]]
<1>5. \A n \in D : Recurses(F[n], 0 .. n, p, v, G)
  <2>1. \A n \in D : A(n, F[n])
    <3> HIDE DEF A
    <3> QED
      BY <1>4
  <2> QED
    BY <2>1
<1> HIDE DEF F
<1>6. ASSUME NEW n \in D PROVE h[n] = IF n = 0 THEN v ELSE G[<<n, h[p[n]]>>]
  <2>1. CASE n = 0
    <3>1. PICK a : a = F[n] /\ Recurses(a, 0 .. n, p, v, G)
      BY <1>5
    <3>2. a[n] = v
      <4>1. n \in 0 .. n
        BY <1>0
      <4>2. Recurses(a, 0 .. n, p, v, G)
        BY <3>1
      <4> QED
        BY <4>1, <4>2, <2>1 DEF Recurses
    <3>3. h[n] = a[n]
      BY <3>1
    <3> HIDE DEF h
    <3> QED
      BY <3>2, <3>3, <2>1
  <2>2. CASE n # 0
    <3>1. p[n] \in 0 .. n /\ p[n] \in D
      <4>1. p[n] \in Nat /\ p[n] < n /\ n \in Nat
        BY <1>0, <2>2 DEF Descends
      <4>2. p[n] \in 0 .. n
        BY <4>1
      <4> QED
        BY <1>0, <4>2
    <3>2. Initial(0 .. p[n]) /\ Initial(0 .. n) /\ 0 .. p[n] \subseteq 0 .. n
      BY <1>0, <3>1
    <3>3. PICK a, b : /\ a = F[n] /\ Recurses(a, 0 .. n, p, v, G)
                      /\ b = F[p[n]] /\ Recurses(b, 0 .. p[n], p, v, G)
      BY <1>5, <3>1
    <3>4. Descends(0 .. n, p, V, v, G)
      BY <1>0
    <3>5. \A k \in 0 .. p[n] : a[k] = b[k]
      <4>1. Recurses(a, 0 .. n, p, v, G) /\ Recurses(b, 0 .. p[n], p, v, G)
        BY <3>3
      <4> DEFINE B == 0 .. p[n]
                 C == 0 .. n
      <4>2. Initial(B) /\ Initial(C) /\ B \subseteq C
        BY <3>2
      <4>3. Recurses(a, C, p, v, G) /\ Recurses(b, B, p, v, G) /\ Descends(C, p, V, v, G)
        BY <3>4, <4>1
      <4> HIDE DEF B, C
      <4>4. \A k \in B : a[k] = b[k]
        BY <4>2, <4>3, RecursionUnique
      <4> QED
        BY <4>4 DEF B
    <3>6. a[p[n]] = b[p[n]]
      BY <3>5, <3>1, <1>0
    <3>7. a[n] = G[<<n, a[p[n]]>>]
      <4>1. n \in 0 .. n
        BY <1>0
      <4>2. Recurses(a, 0 .. n, p, v, G)
        BY <3>3
      <4> QED
        BY <4>1, <4>2, <2>2 DEF Recurses
    <3>8. h[n] = a[n] /\ h[p[n]] = b[p[n]]
      BY <3>1, <3>3
    <3> HIDE DEF h
    <3> QED
      BY <2>2, <3>6, <3>7, <3>8
  <2> QED
    BY <2>1, <2>2
<1>7. h = [n \in D |-> h[n]]
  OBVIOUS
<1> HIDE DEF h
<1>8. Recurses(h, D, p, v, G)
  BY <1>6, <1>7 DEF Recurses
<1> QED
  BY <1>8

(* Functions that are defined by recursion over a rank: G takes an         *)
(* argument and a function that is right for all arguments of lower rank.  *)
Ranked(D, rank, V, G) ==
  /\ rank \in [D -> Nat]
  /\ \A x \in D, f \in [D -> V] : G[<<x, f>>] \in V
  /\ \A x \in D : \A f \in [D -> V], g \in [D -> V] :
       (\A y \in D : rank[y] < rank[x] => f[y] = g[y]) => G[<<x, f>>] = G[<<x, g>>]

LEMMA RankedRecursion ==
  ASSUME NEW D, NEW rank, NEW V, NEW v \in V, NEW G, Ranked(D, rank, V, G)
  PROVE  \E f \in [D -> V] : \A x \in D : f[x] = G[<<x, f>>]
<1> DEFINE Upto(n, f) == f \in [D -> V] /\ \A x \in D : rank[x] < n => f[x] = G[<<x, f>>]
           S == {n \in Nat : \E f : Upto(n, f)}
<1>0. rank \in [D -> Nat]
  BY DEF Ranked
<1>1. 0 \in S
  <2> DEFINE f == [x \in D |-> v]
  <2>1. f \in [D -> V] /\ \A x \in D : ~ (rank[x] < 0)
    BY <1>0
  <2> HIDE DEF f
  <2> QED
    BY <2>1
<1>2. ASSUME NEW n \in Nat, NEW f, Upto(n, f) PROVE \E g : Upto(n + 1, g)
  <2> DEFINE g == [x \in D |-> IF rank[x] < n THEN f[x] ELSE G[<<x, f>>]]
  <2>1. f \in [D -> V] /\ \A x \in D : rank[x] < n => f[x] = G[<<x, f>>]
    BY <1>2
  <2>2. g \in [D -> V]
    <3>1. \A x \in D : G[<<x, f>>] \in V
      BY <2>1 DEF Ranked
    <3> QED
      BY <2>1, <3>1
  <2>3. \A x \in D : g[x] = G[<<x, f>>]
    BY <2>1
  <2>4. \A y \in D : rank[y] < n => g[y] = f[y]
    BY <2>1
  <2> HIDE DEF g
  <2>5. ASSUME NEW x \in D, rank[x] < n + 1 PROVE g[x] = G[<<x, g>>]
    <3>1. \A y \in D : rank[y] < rank[x] => f[y] = g[y]
      <4> SUFFICES ASSUME NEW y \in D, rank[y] < rank[x] PROVE f[y] = g[y]
        OBVIOUS
      <4>1. rank[y] \in Nat /\ rank[x] \in Nat
        BY <1>0
      <4>2. rank[y] < n
        BY <2>5, <4>1
      <4> QED
        BY <2>4, <4>2
    <3>2. G[<<x, f>>] = G[<<x, g>>]
      BY <2>1, <2>2, <3>1 DEF Ranked
    <3> QED
      BY <2>3, <3>2
  <2> QED
    BY <2>2, <2>5
<1>3. Nat \subseteq S
  <2>1. \A n \in Nat : n \in S => n + 1 \in S
    BY <1>2
  <2> HIDE DEF S
  <2> QED
    BY <1>1, <2>1, Induction
<1> DEFINE F == [n \in Nat |-> CHOOSE f : Upto(n, f)]
           h == [x \in D |-> F[rank[x] + 1][x]]
<1>4. ASSUME NEW n \in Nat
      PROVE  F[n] \in [D -> V] /\ \A x \in D : rank[x] < n => F[n][x] = G[<<x, F[n]>>]
  <2>1. \E f : Upto(n, f)
    BY <1>3
  <2>2. Upto(n, CHOOSE f : Upto(n, f))
    <3> HIDE DEF Upto
    <3> QED
      BY <2>1
  <2>3. Upto(n, F[n])
    <3>1. F[n] = CHOOSE f : Upto(n, f)
      OBVIOUS
    <3> HIDE DEF F, Upto
    <3> QED
      BY <2>2, <3>1
  <2> HIDE DEF F
  <2> QED
    BY <2>3
<1> HIDE DEF F
(* The functions that are right for lower ranks agree there.               *)
<1>5. ASSUME NEW m \in Nat, NEW n \in Nat
      PROVE  \A x \in D : rank[x] < m /\ rank[x] < n => F[m][x] = F[n][x]
  <2> DEFINE T == {k \in Nat : \A x \in D : rank[x] = k /\ k < m /\ k < n => F[m][x] = F[n][x]}
  <2>1. ASSUME NEW k \in Nat, \A j \in Nat : j < k => j \in T PROVE k \in T
    <3> SUFFICES ASSUME NEW x \in D, rank[x] = k, k < m, k < n PROVE F[m][x] = F[n][x]
      OBVIOUS
    <3>1. \A y \in D : rank[y] < rank[x] => F[m][y] = F[n][y]
      <4> SUFFICES ASSUME NEW y \in D, rank[y] < rank[x] PROVE F[m][y] = F[n][y]
        OBVIOUS
      <4>1. rank[y] \in Nat /\ rank[y] < k
        BY <1>0
      <4>2. rank[y] \in T /\ rank[y] < m /\ rank[y] < n
        BY <2>1, <4>1
      <4> QED
        BY <4>2
    <3>2. G[<<x, F[m]>>] = G[<<x, F[n]>>]
      BY <1>4, <3>1 DEF Ranked
    <3> QED
      BY <1>4, <3>2
  <2>2. Nat \subseteq T
    <3> HIDE DEF T
    <3> QED
      BY <2>1, StrongInduction
  <2> QED
    BY <1>0, <2>2
<1>6. h \in [D -> V]
  <2> SUFFICES ASSUME NEW x \in D PROVE F[rank[x] + 1][x] \in V
    OBVIOUS
  <2>1. rank[x] + 1 \in Nat
    BY <1>0
  <2> QED
    BY <1>4, <2>1
<1>7. ASSUME NEW x \in D PROVE h[x] = G[<<x, h>>]
  <2>1. rank[x] \in Nat /\ rank[x] + 1 \in Nat /\ rank[x] < rank[x] + 1
    BY <1>0
  <2> DEFINE f == F[rank[x] + 1]
  <2>2. f \in [D -> V] /\ f[x] = G[<<x, f>>] /\ h[x] = f[x]
    BY <1>4, <2>1
  <2>3. \A y \in D : rank[y] < rank[x] => f[y] = h[y]
    <3> SUFFICES ASSUME NEW y \in D, rank[y] < rank[x] PROVE f[y] = h[y]
      OBVIOUS
    <3>1. rank[y] \in Nat /\ rank[y] + 1 \in Nat /\ rank[y] < rank[y] + 1 /\ rank[y] < rank[x] + 1
      BY <1>0, <2>1
    <3>2. F[rank[x] + 1][y] = F[rank[y] + 1][y]
      BY <1>5, <2>1, <3>1
    <3> QED
      BY <3>2
  <2> HIDE DEF f, h
  <2>4. G[<<x, f>>] = G[<<x, h>>]
    BY <1>6, <2>2, <2>3 DEF Ranked
  <2> QED
    BY <2>2, <2>4
<1> HIDE DEF h
<1> QED
  BY <1>6, <1>7

(* A function of this kind has the type that G has.                        *)
LEMMA RankedType ==
  ASSUME NEW D, NEW rank, NEW V, NEW v \in V, NEW G, Ranked(D, rank, V, G),
         NEW f, f = [x \in D |-> f[x]],
         \A x \in D : \A g \in [D -> V] :
           (\A y \in D : rank[y] < rank[x] => g[y] = f[y]) => f[x] = G[<<x, g>>]
  PROVE  f \in [D -> V]
<1>0. rank \in [D -> Nat]
  BY DEF Ranked
<1> DEFINE S == {n \in Nat : \A x \in D : rank[x] = n => f[x] \in V}
<1>1. ASSUME NEW n \in Nat, \A k \in Nat : k < n => k \in S PROVE n \in S
  <2> SUFFICES ASSUME NEW x \in D, rank[x] = n PROVE f[x] \in V
    OBVIOUS
  <2> DEFINE g == [y \in D |-> IF rank[y] < n THEN f[y] ELSE v]
  <2>1. \A y \in D : rank[y] < n => f[y] \in V
    <3> SUFFICES ASSUME NEW y \in D, rank[y] < n PROVE f[y] \in V
      OBVIOUS
    <3>1. rank[y] \in Nat
      BY <1>0
    <3> QED
      BY <1>1, <3>1
  <2>2. g \in [D -> V] /\ \A y \in D : rank[y] < rank[x] => g[y] = f[y]
    BY <2>1
  <2> HIDE DEF g
  <2>3. f[x] = G[<<x, g>>] /\ G[<<x, g>>] \in V
    BY <2>2 DEF Ranked
  <2> QED
    BY <2>3
<1>2. Nat \subseteq S
  <2> HIDE DEF S
  <2> QED
    BY <1>1, StrongInduction
<1>3. \A x \in D : f[x] \in V
  BY <1>0, <1>2
<1> QED
  BY <1>3

-----------------------------------------------------------------------------
(* Sequences, and what is kept of them (Subsequences).                     *)

(* Induction over sequences, for the set of those that have a property.    *)
LEMMA SequenceInduction ==
  ASSUME NEW A, NEW P, <<>> \in P,
         \A s \in Seq(A), e \in A : s \in P => Append(s, e) \in P
  PROVE  Seq(A) \subseteq P
<1> DEFINE S == {n \in Nat : \A s \in Seq(A) : Len(s) = n => s \in P}
<1>1. 0 \in S
  BY EmptySeq
<1>2. ASSUME NEW n \in Nat, n \in S PROVE n + 1 \in S
  <2> SUFFICES ASSUME NEW s \in Seq(A), Len(s) = n + 1 PROVE s \in P
    OBVIOUS
  <2>1. s # <<>>
    BY EmptySeq
  <2>2. PICK t \in Seq(A), e \in A : s = Append(t, e)
    BY <2>1, SequenceEmptyOrAppend
  <2>3. Len(t) \in Nat /\ Len(s) = Len(t) + 1
    BY <2>2, AppendProperties, LenProperties
  <2> QED
    BY <1>2, <2>2, <2>3
<1>3. Nat \subseteq S
  <2> HIDE DEF S
  <2> QED
    BY <1>1, <1>2, Induction
<1> QED
  BY <1>3, LenProperties

(* k[n] is what is kept of the first n elements of s.                      *)
Keeps(k, s, S) ==
  k = [n \in 0 .. Len(s) |->
         IF n = 0 THEN <<>> ELSE IF s[n] \in S THEN Append(k[n - 1], s[n]) ELSE k[n - 1]]

(* The recursion in Filtered defines a function.                           *)
LEMMA KeepsExists ==
  ASSUME NEW A, NEW s \in Seq(A), NEW S
  PROVE  \E k : Keeps(k, s, S)
<1> DEFINE D == 0 .. Len(s)
           p == [n \in D |-> n - 1]
           V == Seq(A)
           G == [x \in (D \ {0}) \X V |->
                  IF s[x[1]] \in S THEN Append(x[2], s[x[1]]) ELSE x[2]]
<1>1. Len(s) \in Nat /\ \A n \in 1 .. Len(s) : s[n] \in A
  BY LenProperties, ElementOfSeq
<1>2. Initial(D)
  BY <1>1 DEF Initial
<1>3. Descends(D, p, V, <<>>, G)
  <2>1. <<>> \in V
    BY EmptySeq
  <2>2. \A n \in D \ {0} : p[n] \in Nat /\ p[n] < n
    BY <1>1
  <2>3. ASSUME NEW n \in D \ {0}, NEW x \in V PROVE G[<<n, x>>] \in V
    <3>1. s[n] \in A
      BY <1>1
    <3>2. Append(x, s[n]) \in V
      BY <3>1, AppendProperties
    <3> QED
      BY <3>2
  <2> HIDE DEF D, p, V, G
  <2> QED
    BY <2>1, <2>2, <2>3 DEF Descends
<1>4. PICK k : Recurses(k, D, p, <<>>, G)
  <2> HIDE DEF D, p, V, G
  <2> QED
    BY <1>2, <1>3, Recursion
<1>5. k \in [D -> V]
  <2> HIDE DEF D, p, V, G
  <2> QED
    BY <1>2, <1>3, <1>4, RecursionType
<1>6. ASSUME NEW n \in D, n # 0
      PROVE  k[n] = IF s[n] \in S THEN Append(k[n - 1], s[n]) ELSE k[n - 1]
  <2>1. k[n] = G[<<n, k[p[n]]>>]
    <3> HIDE DEF D, p, V, G
    <3> QED
      BY <1>4, <1>6 DEF Recurses
  <2>2. p[n] = n - 1 /\ n - 1 \in D
    BY <1>1, <1>6
  <2>4. k[n - 1] \in V
    <3> HIDE DEF D, V
    <3> QED
      BY <1>5, <2>2
  <2>3. <<n, k[n - 1]>> \in (D \ {0}) \X V
    BY <2>2, <2>4, <1>6
  <2> QED
    BY <2>1, <2>2, <2>3
<1>7. k[0] = <<>> /\ k = [n \in D |-> k[n]]
  <2>1. 0 \in D
    BY <1>1
  <2> HIDE DEF D, p, V, G
  <2> QED
    BY <1>4, <2>1 DEF Recurses
<1> QED
  BY <1>6, <1>7 DEF Keeps

(* So Filtered is its last value.                                          *)
LEMMA FilteredKeeps ==
  ASSUME NEW A, NEW s \in Seq(A), NEW S
  PROVE  \E k : Keeps(k, s, S) /\ Filtered(s, S) = k[Len(s)]
<1> DEFINE k == CHOOSE k : Keeps(k, s, S)
<1>1. Keeps(k, s, S)
  BY KeepsExists
<1>2. Filtered(s, S) = k[Len(s)]
  BY DEF Filtered, Keeps
<1> QED
  BY <1>1, <1>2

(* Nothing is left of nothing.                                             *)
LEMMA FilteredEmpty ==
  ASSUME NEW S
  PROVE  Filtered(<<>>, S) = <<>>
<1>1. <<>> \in Seq({}) /\ Len(<<>>) = 0
  BY EmptySeq
<1>2. PICK k : Keeps(k, <<>>, S) /\ Filtered(<<>>, S) = k[Len(<<>>)]
  BY <1>1, FilteredKeeps
<1>3. k[0] = <<>>
  BY <1>1, <1>2 DEF Keeps
<1> QED
  BY <1>1, <1>2, <1>3

(* A last element is kept behind the others, or is left out.               *)
LEMMA FilteredAppend ==
  ASSUME NEW A, NEW s \in Seq(A), NEW e \in A, NEW S
  PROVE  Filtered(Append(s, e), S)
           = IF e \in S THEN Append(Filtered(s, S), e) ELSE Filtered(s, S)
<1> DEFINE t == Append(s, e)
           N == Len(s)
<1>1. /\ N \in Nat /\ t \in Seq(A) /\ Len(t) = N + 1
      /\ \A n \in 1 .. N : t[n] = s[n]
      /\ t[N + 1] = e
  BY AppendProperties, LenProperties
<1>2. PICK k : Keeps(k, t, S) /\ Filtered(t, S) = k[Len(t)]
  <2> HIDE DEF t
  <2> QED
    BY <1>1, FilteredKeeps
<1>3. PICK h : Keeps(h, s, S) /\ Filtered(s, S) = h[Len(s)]
  BY FilteredKeeps
<1> HIDE DEF t, N
<1>4. Len(s) = N
  BY DEF N
<1>5. \A n \in 0 .. N + 1 :
         k[n] = IF n = 0 THEN <<>> ELSE IF t[n] \in S THEN Append(k[n - 1], t[n]) ELSE k[n - 1]
  BY <1>1, <1>2 DEF Keeps
<1>6. \A n \in 0 .. N :
         h[n] = IF n = 0 THEN <<>> ELSE IF s[n] \in S THEN Append(h[n - 1], s[n]) ELSE h[n - 1]
  BY <1>3, <1>4 DEF Keeps
<1> DEFINE P == {n \in Nat : n <= N => k[n] = h[n]}
<1>7. 0 \in P
  BY <1>1, <1>5, <1>6
<1>8. ASSUME NEW n \in Nat, n \in P, n + 1 <= N PROVE k[n + 1] = h[n + 1]
  <2>1. k[n] = h[n] /\ n + 1 \in 0 .. N /\ n + 1 \in 0 .. N + 1 /\ n + 1 \in 1 .. N
    BY <1>1, <1>8
  <2>2. t[n + 1] = s[n + 1] /\ (n + 1) - 1 = n /\ n + 1 # 0
    BY <1>1, <2>1
  <2>3. k[n + 1] = IF t[n + 1] \in S THEN Append(k[n], t[n + 1]) ELSE k[n]
    BY <1>5, <2>1, <2>2
  <2>4. h[n + 1] = IF s[n + 1] \in S THEN Append(h[n], s[n + 1]) ELSE h[n]
    BY <1>6, <2>1, <2>2
  <2> QED
    BY <2>1, <2>2, <2>3, <2>4
<1>9. Nat \subseteq P
  <2>1. \A n \in Nat : n \in P => n + 1 \in P
    BY <1>8
  <2> HIDE DEF P
  <2> QED
    BY <1>7, <2>1, Induction
<1>10. k[N] = h[N]
  BY <1>1, <1>9
<1>11. k[N + 1] = IF e \in S THEN Append(k[N], e) ELSE k[N]
  <2>1. N + 1 \in 0 .. N + 1 /\ N + 1 # 0 /\ (N + 1) - 1 = N
    BY <1>1
  <2> QED
    BY <1>1, <1>5, <2>1
<1> QED
  BY <1>1, <1>2, <1>3, <1>4, <1>10, <1>11 DEF t

(* What is kept are elements of s that are in S.                           *)
LEMMA FilteredType ==
  ASSUME NEW A, NEW s \in Seq(A), NEW S
  PROVE  Filtered(s, S) \in Seq(A \cap S)
<1> DEFINE P == {t \in Seq(A) : Filtered(t, S) \in Seq(A \cap S)}
<1>1. <<>> \in P
  BY EmptySeq, FilteredEmpty
<1>2. ASSUME NEW t \in Seq(A), NEW e \in A, t \in P PROVE Append(t, e) \in P
  <2>1. Append(t, e) \in Seq(A)
    BY AppendProperties
  <2>2. Filtered(Append(t, e), S) = IF e \in S THEN Append(Filtered(t, S), e) ELSE Filtered(t, S)
    BY FilteredAppend
  <2>3. e \in S => Append(Filtered(t, S), e) \in Seq(A \cap S)
    <3> HIDE DEF P
    <3>1. Filtered(t, S) \in Seq(A \cap S)
      BY <1>2 DEF P
    <3> QED
      BY <3>1, AppendProperties
  <2> QED
    BY <1>2, <2>1, <2>2, <2>3
<1> HIDE DEF P
<1>3. Seq(A) \subseteq P
  BY <1>1, <1>2, SequenceInduction
<1> QED
  BY <1>3 DEF P

(* Two tests that agree on the elements keep the same.                     *)
LEMMA FilteredSame ==
  ASSUME NEW A, NEW s \in Seq(A), NEW S, NEW T, \A e \in A : e \in S <=> e \in T
  PROVE  Filtered(s, S) = Filtered(s, T)
<1> DEFINE P == {t \in Seq(A) : Filtered(t, S) = Filtered(t, T)}
<1>1. <<>> \in P
  BY EmptySeq, FilteredEmpty
<1>2. ASSUME NEW t \in Seq(A), NEW e \in A, t \in P PROVE Append(t, e) \in P
  <2>1. Append(t, e) \in Seq(A)
    BY AppendProperties
  <2>2. Filtered(Append(t, e), S) = IF e \in S THEN Append(Filtered(t, S), e) ELSE Filtered(t, S)
    BY FilteredAppend
  <2>3. Filtered(Append(t, e), T) = IF e \in T THEN Append(Filtered(t, T), e) ELSE Filtered(t, T)
    BY FilteredAppend
  <2>4. Filtered(t, S) = Filtered(t, T) /\ (e \in S <=> e \in T)
    BY <1>2
  <2> QED
    BY <2>1, <2>2, <2>3, <2>4
<1> HIDE DEF P
<1>3. Seq(A) \subseteq P
  BY <1>1, <1>2, SequenceInduction
<1> QED
  BY <1>3 DEF P

(* Filtering twice is filtering by both tests.                             *)
LEMMA FilteredTwice ==
  ASSUME NEW A, NEW s \in Seq(A), NEW S, NEW T
  PROVE  Filtered(Filtered(s, S), T) = Filtered(s, S \cap T)
<1> DEFINE P == {t \in Seq(A) : Filtered(Filtered(t, S), T) = Filtered(t, S \cap T)}
<1>1. <<>> \in P
  BY EmptySeq, FilteredEmpty
<1>2. ASSUME NEW t \in Seq(A), NEW e \in A, t \in P PROVE Append(t, e) \in P
  <2>1. Append(t, e) \in Seq(A)
    BY AppendProperties
  <2> DEFINE f == Filtered(t, S)
  <2>2. Filtered(Append(t, e), S) = IF e \in S THEN Append(f, e) ELSE f
    BY FilteredAppend
  <2>3. Filtered(Append(t, e), S \cap T)
          = IF e \in S \cap T THEN Append(Filtered(t, S \cap T), e) ELSE Filtered(t, S \cap T)
    BY FilteredAppend
  <2>4. Filtered(f, T) = Filtered(t, S \cap T)
    BY <1>2
  <2>5. f \in Seq(A \cap S)
    BY FilteredType
  <2> HIDE DEF f
  <2>6. ASSUME e \in S
        PROVE  Filtered(Append(f, e), T)
                 = IF e \in T THEN Append(Filtered(f, T), e) ELSE Filtered(f, T)
    <3> DEFINE B == A \cap S
    <3>1. e \in B /\ f \in Seq(B)
      BY <2>5, <2>6
    <3> HIDE DEF B
    <3> QED
      BY <3>1, FilteredAppend
  <2>7. Filtered(Filtered(Append(t, e), S), T) = Filtered(Append(t, e), S \cap T)
    <3>1. CASE e \in S
      <4>1. Filtered(Append(t, e), S) = Append(f, e) /\ (e \in S \cap T <=> e \in T)
        BY <2>2, <3>1
      <4> QED
        BY <2>3, <2>4, <2>6, <3>1, <4>1
    <3>2. CASE e \notin S
      <4>1. Filtered(Append(t, e), S) = f /\ e \notin S \cap T
        BY <2>2, <3>2
      <4> QED
        BY <2>3, <2>4, <4>1
    <3> QED
      BY <3>1, <3>2
  <2> QED
    BY <2>1, <2>7
<1> HIDE DEF P
<1>3. Seq(A) \subseteq P
  BY <1>1, <1>2, SequenceInduction
<1> QED
  BY <1>3 DEF P

(* A test that every element passes keeps all.                             *)
LEMMA FilteredAll ==
  ASSUME NEW A, NEW s \in Seq(A), NEW S, A \subseteq S
  PROVE  Filtered(s, S) = s
<1> DEFINE P == {t \in Seq(A) : Filtered(t, S) = t}
<1>1. <<>> \in P
  BY EmptySeq, FilteredEmpty
<1>2. ASSUME NEW t \in Seq(A), NEW e \in A, t \in P PROVE Append(t, e) \in P
  <2>1. Append(t, e) \in Seq(A)
    BY AppendProperties
  <2>2. Filtered(Append(t, e), S) = Append(Filtered(t, S), e)
    BY FilteredAppend
  <2>3. Filtered(t, S) = t
    BY <1>2
  <2> QED
    BY <2>1, <2>2, <2>3
<1> HIDE DEF P
<1>3. Seq(A) \subseteq P
  BY <1>1, <1>2, SequenceInduction
<1> QED
  BY <1>3 DEF P

(* A test that no element passes keeps none.                               *)
LEMMA FilteredNone ==
  ASSUME NEW A, NEW s \in Seq(A), NEW S, A \cap S = {}
  PROVE  Filtered(s, S) = <<>>
<1>1. Filtered(s, S) \in Seq({})
  BY FilteredType
<1> DEFINE f == Filtered(s, S)
<1>2. Len(f) \in Nat /\ \A i \in 1 .. Len(f) : f[i] \in {}
  <2> HIDE DEF f
  <2> QED
    BY <1>1, LenProperties, ElementOfSeq DEF f
<1> HIDE DEF f
<1>3. Len(f) = 0
  <2>1. Len(f) > 0 => 1 \in 1 .. Len(f)
    BY <1>2
  <2> QED
    BY <1>2, <2>1
<1> QED
  BY <1>1, <1>3, EmptySeq DEF f

(* What is kept of two sequences one behind the other.                     *)
LEMMA FilteredConcat ==
  ASSUME NEW A, NEW s \in Seq(A), NEW t \in Seq(A), NEW S
  PROVE  Filtered(s \o t, S) = Filtered(s, S) \o Filtered(t, S)
<1> DEFINE P == {u \in Seq(A) : Filtered(s \o u, S) = Filtered(s, S) \o Filtered(u, S)}
<1>0. Filtered(s, S) \in Seq(A \cap S)
  BY FilteredType
<1>1. <<>> \in P
  <2>1. s \o <<>> = s /\ Filtered(s, S) \o <<>> = Filtered(s, S) /\ Filtered(<<>>, S) = <<>>
    BY <1>0, ConcatEmptySeq, FilteredEmpty
  <2> QED
    BY <2>1, EmptySeq
<1>2. ASSUME NEW u \in Seq(A), NEW e \in A, u \in P PROVE Append(u, e) \in P
  <2>1. Append(u, e) \in Seq(A) /\ s \o u \in Seq(A) /\ Filtered(u, S) \in Seq(A \cap S)
    BY AppendProperties, ConcatProperties, FilteredType
  <2>2. s \o Append(u, e) = Append(s \o u, e)
    BY AppendIsConcat, ConcatAssociative, <2>1
  <2>3. Filtered(Append(u, e), S) = IF e \in S THEN Append(Filtered(u, S), e) ELSE Filtered(u, S)
    BY FilteredAppend
  <2>4. Filtered(Append(s \o u, e), S)
          = IF e \in S THEN Append(Filtered(s \o u, S), e) ELSE Filtered(s \o u, S)
    BY <2>1, FilteredAppend
  <2>5. Filtered(s \o u, S) = Filtered(s, S) \o Filtered(u, S)
    BY <1>2
  <2>6. e \in S => Filtered(s, S) \o Append(Filtered(u, S), e)
                     = Append(Filtered(s, S) \o Filtered(u, S), e)
    <3> SUFFICES ASSUME e \in S PROVE Filtered(s, S) \o Append(Filtered(u, S), e)
                     = Append(Filtered(s, S) \o Filtered(u, S), e)
      OBVIOUS
    <3>1. e \in A \cap S
      OBVIOUS
    <3> QED
      BY <1>0, <2>1, <3>1
  <2>7. Filtered(s \o Append(u, e), S) = Filtered(s, S) \o Filtered(Append(u, e), S)
    BY <2>2, <2>3, <2>4, <2>5, <2>6
  <2> QED
    BY <2>1, <2>7
<1> HIDE DEF P
<1>3. Seq(A) \subseteq P
  BY <1>1, <1>2, SequenceInduction
<1> QED
  BY <1>3 DEF P

(* A first element is kept before the others, or is left out.             *)
LEMMA FilteredHead ==
  ASSUME NEW A, NEW s \in Seq(A), s # <<>>, NEW S
  PROVE  /\ Head(s) \in A /\ Tail(s) \in Seq(A)
         /\ Filtered(s, S) = IF Head(s) \in S THEN <<Head(s)>> \o Filtered(Tail(s), S)
                                              ELSE Filtered(Tail(s), S)
<1> DEFINE h == Head(s)
           t == Tail(s)
<1>1. h \in A /\ t \in Seq(A) /\ s = <<h>> \o t
  BY HeadTailProperties
<1>2. <<>> \in Seq(A) /\ Append(<<>>, h) = <<h>> /\ Append(<<>>, h) \in Seq(A)
  BY <1>1, EmptySeq, AppendProperties
<1> HIDE DEF h, t
<1>3. Filtered(<<h>>, S) = IF h \in S THEN <<h>> ELSE <<>>
  <2>1. Filtered(Append(<<>>, h), S)
          = IF h \in S THEN Append(Filtered(<<>>, S), h) ELSE Filtered(<<>>, S)
    BY <1>1, <1>2, FilteredAppend
  <2> QED
    BY <1>2, <2>1, FilteredEmpty
<1>4. Filtered(s, S) = Filtered(<<h>>, S) \o Filtered(t, S)
  <2> DEFINE b == <<h>>
  <2>1. b \in Seq(A) /\ t \in Seq(A)
    BY <1>1, <1>2
  <2>2. s = b \o t
    BY <1>1
  <2> HIDE DEF b
  <2>3. Filtered(b \o t, S) = Filtered(b, S) \o Filtered(t, S)
    BY <2>1, FilteredConcat
  <2> QED
    BY <2>2, <2>3 DEF b
<1>5. <<>> \o Filtered(t, S) = Filtered(t, S)
  BY <1>1, FilteredType, ConcatEmptySeq
<1> QED
  BY <1>1, <1>3, <1>4, <1>5 DEF h, t

(* The sequence of what the function M makes of each element.              *)
Mapped(s, M) == [j \in DOMAIN s |-> M[s[j]]]

(* It is as long, and its elements are values of M.                        *)
LEMMA MappedType ==
  ASSUME NEW A, NEW s \in Seq(A), NEW M, NEW B, \A a \in A : M[a] \in B
  PROVE  Mapped(s, M) \in Seq(B) /\ Len(Mapped(s, M)) = Len(s)
<1>1. /\ Len(s) \in Nat /\ DOMAIN s = 1 .. Len(s) /\ \A j \in 1 .. Len(s) : s[j] \in A
  BY LenProperties, ElementOfSeq
<1>2. Mapped(s, M) \in [1 .. Len(s) -> B]
  BY <1>1 DEF Mapped
<1> QED
  BY <1>1, <1>2

(* A last element is mapped behind the others.                             *)
LEMMA MappedAppend ==
  ASSUME NEW A, NEW s \in Seq(A), NEW e \in A, NEW M
  PROVE  Mapped(Append(s, e), M) = Append(Mapped(s, M), M[e])
<1> DEFINE B == {M[a] : a \in A}
           t == Append(s, e)
           u == Mapped(s, M)
           v == Append(u, M[e])
<1>1. /\ Len(s) \in Nat /\ DOMAIN s = 1 .. Len(s)
      /\ t \in Seq(A) /\ Len(t) = Len(s) + 1
      /\ \A j \in 1 .. Len(s) : t[j] = s[j]
      /\ t[Len(s) + 1] = e
  BY LenProperties, AppendProperties
<1>2. DOMAIN t = 1 .. Len(s) + 1
  <2> HIDE DEF t
  <2> QED
    BY <1>1, LenProperties
<1>3. M[e] \in B /\ \A a \in A : M[a] \in B
  OBVIOUS
<1> HIDE DEF B, v
<1>4. u \in Seq(B) /\ Len(u) = Len(s)
  BY <1>3, MappedType
<1>5. \A j \in 1 .. Len(s) : u[j] = M[s[j]]
  BY <1>1 DEF Mapped
<1> HIDE DEF u, t
<1>6. /\ v \in Seq(B) /\ Len(v) = Len(s) + 1
      /\ \A j \in 1 .. Len(s) : v[j] = u[j]
      /\ v[Len(s) + 1] = M[e]
  BY <1>3, <1>4, AppendProperties DEF v
<1>7. DOMAIN v = 1 .. Len(s) + 1 /\ v = [j \in DOMAIN v |-> v[j]]
  BY <1>6, LenProperties
<1>8. Mapped(t, M) = [j \in 1 .. Len(s) + 1 |-> M[t[j]]]
  BY <1>2 DEF Mapped
<1>9. \A j \in 1 .. Len(s) + 1 : v[j] = M[t[j]]
  BY <1>1, <1>5, <1>6
<1>10. Mapped(t, M) = v
  BY <1>7, <1>8, <1>9
<1> QED
  BY <1>10 DEF t, u, v

(* Filtering what is mapped is mapping what is filtered.                   *)
LEMMA FilteredMapped ==
  ASSUME NEW A, NEW s \in Seq(A), NEW M, NEW T
  PROVE  Filtered(Mapped(s, M), T) = Mapped(Filtered(s, {e \in A : M[e] \in T}), M)
<1> DEFINE S == {e \in A : M[e] \in T}
<1>0. \A e \in A : e \in S <=> M[e] \in T
  OBVIOUS
<1> HIDE DEF S
<1> DEFINE P == {t \in Seq(A) : Filtered(Mapped(t, M), T) = Mapped(Filtered(t, S), M)}
<1>1. <<>> \in P
  <2>1. Mapped(<<>>, M) = <<>>
    BY DEF Mapped
  <2> QED
    BY <2>1, EmptySeq, FilteredEmpty
<1>2. ASSUME NEW t \in Seq(A), NEW e \in A, t \in P PROVE Append(t, e) \in P
  <2> DEFINE B == {M[a] : a \in A}
             f == Filtered(t, S)
             g == Mapped(t, M)
  <2>0. \A a \in A : M[a] \in B
    OBVIOUS
  <2> HIDE DEF B
  <2>1. Append(t, e) \in Seq(A) /\ Mapped(Append(t, e), M) = Append(g, M[e])
    BY AppendProperties, MappedAppend
  <2>8. g \in Seq(B)
    BY <2>0, MappedType
  <2>2. Filtered(Append(t, e), S) = IF e \in S THEN Append(f, e) ELSE f
    BY FilteredAppend
  <2>3. f \in Seq(A)
    <3>1. f \in Seq(A \cap S)
      BY FilteredType
    <3> QED
      BY <3>1, SeqMonotonic
  <2>4. Filtered(Append(g, M[e]), T) = IF M[e] \in T THEN Append(Filtered(g, T), M[e]) ELSE Filtered(g, T)
    <3> DEFINE x == M[e]
    <3>1. x \in B
      BY <2>0
    <3> HIDE DEF g, x
    <3>2. Filtered(Append(g, x), T) = IF x \in T THEN Append(Filtered(g, T), x) ELSE Filtered(g, T)
      BY <2>8, <3>1, FilteredAppend
    <3> QED
      BY <3>2 DEF x
  <2>5. Filtered(g, T) = Mapped(f, M)
    BY <1>2
  <2> HIDE DEF f, g
  <2>6. Mapped(Append(f, e), M) = Append(Mapped(f, M), M[e])
    BY <2>3, MappedAppend
  <2>7. Filtered(Mapped(Append(t, e), M), T) = Mapped(Filtered(Append(t, e), S), M)
    BY <1>0, <2>1, <2>2, <2>4, <2>5, <2>6
  <2> QED
    BY <2>1, <2>7
<1> HIDE DEF P
<1>3. Seq(A) \subseteq P
  BY <1>1, <1>2, SequenceInduction
<1> QED
  BY <1>3 DEF P, S

-----------------------------------------------------------------------------
(* A history that grows at its end, of elements of any kind.               *)

(* A history begins empty.                                                *)
LEMMA EmptyHistory == <<>> \in Seq(Range(<<>>)) /\ Len(<<>>) = 0
  BY EmptySeq

(* Appending keeps a history a history and what it held in its place.      *)
LEMMA HistoryAppend ==
  ASSUME NEW h, h \in Seq(Range(h)), NEW b
  PROVE  /\ Append(h, b) \in Seq(Range(Append(h, b)))
         /\ Len(h) \in Nat /\ Len(Append(h, b)) = Len(h) + 1
         /\ Len(h) + 1 \notin DOMAIN h
         /\ DOMAIN Append(h, b) = DOMAIN h \cup {Len(h) + 1}
         /\ \A j \in DOMAIN h : Append(h, b)[j] = h[j]
         /\ Append(h, b)[Len(h) + 1] = b
<1> DEFINE S == Range(h) \cup {b}
           g == Append(h, b)
<1>1. h \in Seq(S)
  <2>1. Len(h) \in Nat /\ h \in [1 .. Len(h) -> Range(h)]
    BY LenProperties
  <2>2. h \in [1 .. Len(h) -> S]
    BY <2>1
  <2> QED
    BY <2>1, <2>2
<1>2. b \in S
  OBVIOUS
<1>3. /\ g \in Seq(S) /\ Len(g) = Len(h) + 1
      /\ \A i \in 1 .. Len(h) : g[i] = h[i]
      /\ g[Len(h) + 1] = b
  <2> HIDE DEF S
  <2> QED
    BY <1>1, <1>2, AppendProperties
<1>4. /\ Len(h) \in Nat /\ DOMAIN h = 1 .. Len(h)
      /\ Len(g) \in Nat /\ DOMAIN g = 1 .. Len(g)
  BY <1>1, <1>3, LenProperties
<1>5. g \in Seq(Range(g))
  <2>1. g \in [1 .. Len(g) -> S]
    BY <1>3, LenProperties
  <2>2. g \in [1 .. Len(g) -> Range(g)]
    BY <2>1, <1>4 DEF Range
  <2> HIDE DEF g
  <2> QED
    BY <1>4, <2>2
<1> QED
  BY <1>3, <1>4, <1>5

-----------------------------------------------------------------------------
(* Loops over a sequence: k[n] is what a loop that starts from v has after *)
(* n elements of s, when G takes it over each of them.                     *)
Loops(k, s, v, G) ==
  k = [n \in 0 .. Len(s) |-> IF n = 0 THEN v ELSE G[<<k[n - 1], s[n]>>]]

LoopBody(G, V, A) == G \in [V \X A -> V]
LoopOf(s, v, G) == (CHOOSE k : Loops(k, s, v, G))[Len(s)]

LEMMA LoopExists ==
  ASSUME NEW A, NEW V, NEW v \in V, NEW G, LoopBody(G, V, A), NEW s \in Seq(A)
  PROVE  \E k \in [0 .. Len(s) -> V] : Loops(k, s, v, G)
<1> DEFINE D == 0 .. Len(s)
           p == [n \in D |-> n - 1]
           H == [x \in (D \ {0}) \X V |-> G[<<x[2], s[x[1]]>>]]
<1>1. Len(s) \in Nat /\ \A n \in 1 .. Len(s) : s[n] \in A
  BY LenProperties, ElementOfSeq
<1>2. Initial(D)
  BY <1>1 DEF Initial
<1>3. Descends(D, p, V, v, H)
  <2>1. \A n \in D \ {0} : p[n] \in Nat /\ p[n] < n
    BY <1>1
  <2>2. \A n \in D \ {0}, x \in V : H[<<n, x>>] \in V
    BY <1>1 DEF LoopBody
  <2> HIDE DEF D, p, H
  <2> QED
    BY <2>1, <2>2 DEF Descends
<1>4. PICK k : Recurses(k, D, p, v, H)
  <2> HIDE DEF D, p, H
  <2> QED
    BY <1>2, <1>3, Recursion
<1>5. k \in [D -> V]
  <2> HIDE DEF D, p, H
  <2> QED
    BY <1>2, <1>3, <1>4, RecursionType
<1>6. ASSUME NEW n \in D, n # 0 PROVE k[n] = G[<<k[n - 1], s[n]>>]
  <2>1. k[n] = H[<<n, k[p[n]]>>]
    <3> HIDE DEF D, p, H
    <3> QED
      BY <1>4, <1>6 DEF Recurses
  <2>2. p[n] = n - 1 /\ n - 1 \in D
    BY <1>1, <1>6
  <2>3. k[n - 1] \in V
    <3> HIDE DEF D
    <3> QED
      BY <1>5, <2>2
  <2> QED
    BY <1>6, <2>1, <2>2, <2>3
<1>7. k[0] = v /\ k = [n \in D |-> k[n]]
  <2>1. 0 \in D
    BY <1>1
  <2> HIDE DEF D, p, H
  <2> QED
    BY <1>4, <2>1 DEF Recurses
<1> QED
  BY <1>5, <1>6, <1>7 DEF Loops

LEMMA LoopSteps ==
  ASSUME NEW A, NEW V, NEW v \in V, NEW G, LoopBody(G, V, A), NEW s \in Seq(A)
  PROVE  \E k \in [0 .. Len(s) -> V] :
           /\ LoopOf(s, v, G) = k[Len(s)] /\ k[0] = v
           /\ \A n \in 1 .. Len(s) : k[n] = G[<<k[n - 1], s[n]>>]
<1> DEFINE k == CHOOSE k : Loops(k, s, v, G)
<1>1. PICK h \in [0 .. Len(s) -> V] : Loops(h, s, v, G)
  BY LoopExists
<1>2. Loops(k, s, v, G)
  BY <1>1
<1>3. LoopOf(s, v, G) = k[Len(s)]
  BY DEF LoopOf
<1> HIDE DEF k
<1>4. Len(s) \in Nat /\ \A n \in 1 .. Len(s) : s[n] \in A
  BY LenProperties, ElementOfSeq
<1>5. k[0] = v /\ \A n \in 1 .. Len(s) : k[n] = G[<<k[n - 1], s[n]>>]
  BY <1>2, <1>4 DEF Loops
<1> DEFINE S == {n \in Nat : n <= Len(s) => k[n] \in V}
<1>6. 0 \in S
  BY <1>5
<1>7. \A n \in Nat : n \in S => n + 1 \in S
  <2> SUFFICES ASSUME NEW n \in Nat, n \in S, n + 1 <= Len(s) PROVE k[n + 1] \in V
    OBVIOUS
  <2>1. n + 1 \in 1 .. Len(s) /\ (n + 1) - 1 = n /\ k[n] \in V
    BY <1>4
  <2>2. k[n + 1] = G[<<k[n], s[n + 1]>>]
    BY <1>5, <2>1
  <2> QED
    BY <1>4, <2>1, <2>2 DEF LoopBody
<1>8. Nat \subseteq S
  <2> HIDE DEF S
  <2> QED
    BY <1>6, <1>7, Induction
<1>9. \A n \in 0 .. Len(s) : k[n] \in V
  BY <1>8
<1>10. k \in [0 .. Len(s) -> V]
  BY <1>2, <1>9 DEF Loops
<1> QED
  BY <1>3, <1>5, <1>10

(* Whatever takes the same steps comes to the same.                        *)
LEMMA LoopResult ==
  ASSUME NEW A, NEW V, NEW v \in V, NEW G, LoopBody(G, V, A), NEW s \in Seq(A),
         NEW k, k[0] = v,
         \A n \in 1 .. Len(s) : k[n - 1] \in V => k[n] = G[<<k[n - 1], s[n]>>]
  PROVE  k[Len(s)] = LoopOf(s, v, G)
<1>1. PICK h \in [0 .. Len(s) -> V] :
        /\ LoopOf(s, v, G) = h[Len(s)] /\ h[0] = v
        /\ \A n \in 1 .. Len(s) : h[n] = G[<<h[n - 1], s[n]>>]
  BY LoopSteps
<1>2. Len(s) \in Nat
  BY LenProperties
<1> DEFINE S == {n \in Nat : n <= Len(s) => k[n] = h[n]}
<1>3. 0 \in S
  BY <1>1
<1>4. \A n \in Nat : n \in S => n + 1 \in S
  <2> SUFFICES ASSUME NEW n \in Nat, n \in S, n + 1 <= Len(s) PROVE k[n + 1] = h[n + 1]
    OBVIOUS
  <2>1. n + 1 \in 1 .. Len(s) /\ (n + 1) - 1 = n /\ k[n] = h[n] /\ h[n] \in V
    BY <1>1, <1>2
  <2> QED
    BY <1>1, <2>1
<1>5. Nat \subseteq S
  <2> HIDE DEF S
  <2> QED
    BY <1>3, <1>4, Induction
<1> QED
  BY <1>1, <1>2, <1>5

(* Over nothing a loop leaves what it starts from, ...                     *)
LEMMA LoopEmpty ==
  ASSUME NEW A, NEW V, NEW v \in V, NEW G, LoopBody(G, V, A)
  PROVE  LoopOf(<<>>, v, G) = v
<1>1. PICK e \in Seq(A) : e = <<>>
  BY EmptySeq
<1>2. PICK k \in [0 .. Len(e) -> V] :
        /\ LoopOf(e, v, G) = k[Len(e)] /\ k[0] = v
        /\ \A n \in 1 .. Len(e) : k[n] = G[<<k[n - 1], e[n]>>]
  <2> SUFFICES ASSUME NEW s \in Seq(A)
               PROVE  \E k \in [0 .. Len(s) -> V] :
                        /\ LoopOf(s, v, G) = k[Len(s)] /\ k[0] = v
                        /\ \A n \in 1 .. Len(s) : k[n] = G[<<k[n - 1], s[n]>>]
    OBVIOUS
  <2> QED
    BY LoopSteps
<1>3. Len(e) = 0
  BY <1>1, EmptySeq
<1> QED
  BY <1>1, <1>2, <1>3

(* it stays among the values it goes over, ...                             *)
LEMMA LoopType ==
  ASSUME NEW A, NEW V, NEW v \in V, NEW G, LoopBody(G, V, A), NEW s \in Seq(A)
  PROVE  LoopOf(s, v, G) \in V
<1>1. PICK k \in [0 .. Len(s) -> V] : LoopOf(s, v, G) = k[Len(s)]
  BY LoopSteps
<1>2. Len(s) \in 0 .. Len(s)
  BY LenProperties
<1> QED
  BY <1>1, <1>2

(* and a last element is one step more.                                    *)
LEMMA LoopAppend ==
  ASSUME NEW A, NEW V, NEW v \in V, NEW G, LoopBody(G, V, A), NEW s \in Seq(A), NEW e \in A
  PROVE  LoopOf(Append(s, e), v, G) = G[<<LoopOf(s, v, G), e>>]
<1> DEFINE t == Append(s, e)
           N == Len(s)
<1>1. /\ N \in Nat /\ t \in Seq(A) /\ Len(t) = N + 1
      /\ \A n \in 1 .. N : t[n] = s[n]
      /\ t[N + 1] = e
  BY AppendProperties, LenProperties
<1> HIDE DEF t
<1>2. PICK k \in [0 .. Len(t) -> V] :
        /\ LoopOf(t, v, G) = k[Len(t)] /\ k[0] = v
        /\ \A n \in 1 .. Len(t) : k[n] = G[<<k[n - 1], t[n]>>]
  BY <1>1, LoopSteps
<1>3. \A n \in 1 .. Len(s) : k[n - 1] \in V => k[n] = G[<<k[n - 1], s[n]>>]
  BY <1>1, <1>2
<1>4. k[N] = LoopOf(s, v, G)
  BY <1>2, <1>3, LoopResult
<1>5. k[N + 1] = G[<<k[N], e>>]
  <2>1. N + 1 \in 1 .. Len(t) /\ (N + 1) - 1 = N
    BY <1>1
  <2> QED
    BY <1>1, <1>2, <2>1
<1> QED
  BY <1>1, <1>2, <1>4, <1>5 DEF t
-----------------------------------------------------------------------------
(* Integers (Ints): what parseIntStrict reads is what fmt prints.          *)

LEMMA Tens ==
  ASSUME NEW n \in Nat
  PROVE  /\ n \div 10 \in Nat /\ n % 10 \in Digit /\ n = 10 * (n \div 10) + (n % 10)
         /\ n # 0 => n \div 10 < n
  BY DEF Digit

LEMMA TensUnique ==
  ASSUME NEW n \in Nat, NEW c \in Digit
  PROVE  (n * 10 + c) \div 10 = n /\ (n * 10 + c) % 10 = c
<1> DEFINE q == (n * 10 + c) \div 10
           r == (n * 10 + c) % 10
<1>1. n * 10 + c \in Nat /\ c \in 0 .. 9
  BY DEF Digit
<1>2. q \in Nat /\ r \in 0 .. 9 /\ n * 10 + c = 10 * q + r
  BY <1>1, Tens DEF Digit
<1> HIDE DEF q, r
<1>3. q = n /\ r = c
  BY <1>1, <1>2
<1> QED
  BY <1>3 DEF q, r

(* Powers of two.                                                          *)
LEMMA Powers ==
  ASSUME NEW n \in Nat
  PROVE  /\ PowerOfTwo[n] = IF n = 0 THEN 1 ELSE 2 * PowerOfTwo[n - 1]
         /\ PowerOfTwo[n] \in Nat \ {0}
<1> DEFINE p == [k \in Nat |-> k - 1]
           V == Nat \ {0}
           G == [x \in Nat \X V |-> 2 * x[2]]
           f == CHOOSE f : f = [k \in Nat |-> IF k = 0 THEN 1 ELSE 2 * f[k - 1]]
<1>1. Initial(Nat)
  BY DEF Initial
<1>2. Descends(Nat, p, V, 1, G)
  <2>1. /\ 1 \in V /\ \A k \in Nat \ {0} : p[k] \in Nat /\ p[k] < k
        /\ \A k \in Nat \ {0}, x \in V : G[<<k, x>>] \in V
    OBVIOUS
  <2> HIDE DEF p, V, G
  <2> QED
    BY <2>1 DEF Descends
<1>3. PICK h : Recurses(h, Nat, p, 1, G)
  <2> HIDE DEF p, V, G
  <2> QED
    BY <1>1, <1>2, Recursion
<1>4. h \in [Nat -> V]
  <2> HIDE DEF p, V, G
  <2> QED
    BY <1>1, <1>2, <1>3, RecursionType
<1>5. ASSUME NEW k \in Nat PROVE h[k] = IF k = 0 THEN 1 ELSE 2 * h[k - 1]
  <2>1. h[k] = IF k = 0 THEN 1 ELSE G[<<k, h[p[k]]>>]
    <3> HIDE DEF p, G
    <3> QED
      BY <1>3 DEF Recurses
  <2>2. k # 0 => p[k] = k - 1 /\ k - 1 \in Nat
    OBVIOUS
  <2> QED
    BY <1>4, <2>1, <2>2
<1>6. h = [k \in Nat |-> IF k = 0 THEN 1 ELSE 2 * h[k - 1]]
  BY <1>4, <1>5
<1>7. f = [k \in Nat |-> IF k = 0 THEN 1 ELSE 2 * f[k - 1]]
  BY <1>6
<1>8. PowerOfTwo = f
  BY DEF PowerOfTwo
<1> HIDE DEF f
<1> DEFINE S == {k \in Nat : f[k] \in Nat \ {0}}
<1>9. 0 \in S
  BY <1>7
<1>10. \A k \in Nat : k \in S => k + 1 \in S
  <2> SUFFICES ASSUME NEW k \in Nat, f[k] \in Nat \ {0} PROVE f[k + 1] \in Nat \ {0}
    OBVIOUS
  <2>1. f[k + 1] = 2 * f[k]
    <3>1. k + 1 \in Nat /\ k + 1 # 0 /\ (k + 1) - 1 = k
      OBVIOUS
    <3>2. f[k + 1] = IF k + 1 = 0 THEN 1 ELSE 2 * f[(k + 1) - 1]
      BY <1>7, <3>1
    <3> QED
      BY <3>1, <3>2
  <2> QED
    BY <2>1
<1>11. Nat \subseteq S
  <2> HIDE DEF S
  <2> QED
    BY <1>9, <1>10, Induction
<1> QED
  BY <1>7, <1>8, <1>11

(* An int keeps its value, and the number behind the greatest int becomes  *)
(* the least.                                                              *)
LEMMA WrappedInt ==
  ASSUME NEW H \in Nat \ {0}
  PROVE  /\ \A n \in Int : WrappedAt(H, n) \in Int
         /\ \A n \in -H .. H - 1 : WrappedAt(H, n) = n
         /\ WrappedAt(H, H) = -H /\ WrappedAt(H, -H) = -H
<1>1. H \in Nat \ {0}
  OBVIOUS
<1>2. \A n \in -H .. H - 1 : ((n + H) % (2 * H)) - H = n
  BY <1>1
<1>3. ((H + H) % (2 * H)) - H = -H
  <2>1. H + H = 2 * H * 1 /\ 2 * H \in Nat \ {0}
    BY <1>1
  <2>2. (2 * H) % (2 * H) = 0
    <3> DEFINE b == 2 * H
    <3>1. b \in Nat \ {0}
      BY <1>1
    <3> HIDE DEF b
    <3>2. b % b = 0
      BY <3>1
    <3> QED
      BY <3>2 DEF b
  <2> QED
    BY <1>1, <2>1, <2>2
<1>4. \A n \in Int : ((n + H) % (2 * H)) - H \in Int
  <2> SUFFICES ASSUME NEW n \in Int PROVE ((n + H) % (2 * H)) - H \in Int
    OBVIOUS
  <2> DEFINE a == n + H
             b == 2 * H
  <2>1. a \in Int /\ b \in Nat \ {0}
    BY <1>1
  <2> HIDE DEF a, b
  <2>2. a % b \in Int
    BY <2>1
  <2> QED
    BY <1>1, <2>2 DEF a, b
<1>5. -H \in -H .. H - 1
  BY <1>1
<1> QED
  BY <1>2, <1>3, <1>4, <1>5 DEF WrappedAt

-----------------------------------------------------------------------------
(* Numeral is defined for every number, and has at least one digit.        *)
LEMMA NumeralFacts ==
  ASSUME NEW n \in Nat
  PROVE  /\ Numeral[n] = IF n < 10 THEN <<n>> ELSE Append(Numeral[n \div 10], n % 10)
         /\ Numeral[n] \in Seq(Digit) /\ Numeral[n] # <<>>
<1> DEFINE p == [k \in Nat |-> k \div 10]
           V == Seq(Digit) \ {<<>>}
           v == <<0>>
           G == [x \in Nat \X V |-> IF x[1] < 10 THEN <<x[1]>> ELSE Append(x[2], x[1] % 10)]
           N(f) == f = [k \in Nat |-> IF k < 10 THEN <<k>> ELSE Append(f[k \div 10], k % 10)]
           f == CHOOSE f : N(f)
<1>1. Initial(Nat)
  BY DEF Initial
<1>2. \A k \in Nat : k < 10 => <<k>> \in V
  BY DEF Digit
<1>3. \A k \in Nat, x \in V : Append(x, k % 10) \in V
  <2> SUFFICES ASSUME NEW k \in Nat, NEW x \in V PROVE Append(x, k % 10) \in V
    OBVIOUS
  <2> DEFINE d == k % 10
  <2>1. d \in Digit /\ x \in Seq(Digit)
    BY Tens
  <2> HIDE DEF d
  <2>2. Append(x, d) \in Seq(Digit) /\ Append(x, d) # <<>>
    BY <2>1, AppendProperties
  <2> QED
    BY <2>2 DEF d
<1> HIDE DEF V
<1>4. \A k \in Nat, x \in V : G[<<k, x>>] = IF k < 10 THEN <<k>> ELSE Append(x, k % 10)
  OBVIOUS
<1>5. Descends(Nat, p, V, v, G)
  <2>1. v \in V
    BY <1>2
  <2>2. \A k \in Nat \ {0} : p[k] \in Nat /\ p[k] < k
    BY Tens
  <2>3. \A k \in Nat \ {0}, x \in V : G[<<k, x>>] \in V
    BY <1>2, <1>3, <1>4
  <2> HIDE DEF p, v, G
  <2> QED
    BY <2>1, <2>2, <2>3 DEF Descends
<1>6. PICK h : Recurses(h, Nat, p, v, G)
  <2> HIDE DEF p, v, G
  <2> QED
    BY <1>1, <1>5, Recursion
<1>7. h \in [Nat -> V]
  <2> HIDE DEF p, v, G
  <2> QED
    BY <1>1, <1>5, <1>6, RecursionType
<1>8. ASSUME NEW k \in Nat PROVE h[k] = IF k < 10 THEN <<k>> ELSE Append(h[k \div 10], k % 10)
  <2>1. h[k] = IF k = 0 THEN v ELSE G[<<k, h[p[k]]>>]
    <3> HIDE DEF p, G
    <3> QED
      BY <1>6 DEF Recurses
  <2>2. p[k] = k \div 10 /\ k \div 10 \in Nat
    BY Tens
  <2>3. h[k \div 10] \in V
    BY <1>7, <2>2
  <2>4. G[<<k, h[k \div 10]>>] = IF k < 10 THEN <<k>> ELSE Append(h[k \div 10], k % 10)
    <3> HIDE DEF G
    <3> QED
      BY <1>4, <2>3
  <2> HIDE DEF p, G
  <2> QED
    BY <2>1, <2>2, <2>4
<1>9. N(h)
  <2>1. h = [k \in Nat |-> h[k]]
    BY <1>7
  <2> QED
    BY <1>8, <2>1
<1>10. N(f)
  BY <1>9
<1>11. Numeral = f
  BY DEF Numeral
<1> HIDE DEF f
<1>12. \A k \in Nat : f[k] = IF k < 10 THEN <<k>> ELSE Append(f[k \div 10], k % 10)
  BY <1>10
<1> DEFINE S == {k \in Nat : f[k] \in V}
<1>13. ASSUME NEW k \in Nat, \A m \in Nat : m < k => m \in S PROVE k \in S
  <2>1. k < 10 => <<k>> \in V
    BY <1>2
  <2>2. k >= 10 => f[k \div 10] \in V
    BY <1>13, Tens
  <2>3. k >= 10 => Append(f[k \div 10], k % 10) \in V
    BY <2>2, <1>3
  <2>4. f[k] \in V
    BY <1>12, <2>1, <2>3
  <2> QED
    BY <2>4
<1>14. Nat \subseteq S
  <2> HIDE DEF S
  <2> QED
    BY <1>13, StrongInduction
<1>15. f[n] \in V
  BY <1>14
<1> QED
  BY <1>11, <1>12, <1>15 DEF V

-----------------------------------------------------------------------------
(* One turn of parseIntStrict's loop.                                      *)
DigitTurn(H) == [x \in Int \X Int |-> WrappedAt(H, x[1] * 10 + x[2])]

LEMMA DigitTurnBody ==
  ASSUME NEW H \in Nat \ {0}
  PROVE  LoopBody(DigitTurn(H), Int, Int)
<1>1. \A x \in Int \X Int : WrappedAt(H, x[1] * 10 + x[2]) \in Int
  <2> SUFFICES ASSUME NEW a \in Int, NEW b \in Int PROVE WrappedAt(H, a * 10 + b) \in Int
    OBVIOUS
  <2>1. a * 10 + b \in Int
    OBVIOUS
  <2> QED
    BY <2>1, WrappedInt
<1> QED
  BY <1>1 DEF DigitTurn, LoopBody

(* The loop in Magnitude is a loop of this kind.                           *)
LEMMA MagnitudeLoop ==
  ASSUME NEW H \in Nat \ {0}, NEW u \in Seq(Int)
  PROVE  MagnitudeAt(H, u) = LoopOf(u, 0, DigitTurn(H))
<1> DEFINE I == Int
           z == 0
           N(k) == k = [j \in 0 .. Len(u) |-> IF j = 0 THEN 0 ELSE WrappedAt(H, k[j - 1] * 10 + u[j])]
           f == CHOOSE k : N(k)
<1>1. u \in Seq(I) /\ z \in I /\ LoopBody(DigitTurn(H), I, I)
  BY DigitTurnBody
<1>2. PICK h \in [0 .. Len(u) -> I] :
        /\ LoopOf(u, z, DigitTurn(H)) = h[Len(u)] /\ h[0] = z
        /\ \A n \in 1 .. Len(u) : h[n] = DigitTurn(H)[<<h[n - 1], u[n]>>]
  <2> HIDE DEF I, z
  <2> QED
    BY <1>1, LoopSteps
<1>3. Len(u) \in Nat /\ \A j \in 1 .. Len(u) : u[j] \in Int
  BY LenProperties, ElementOfSeq
<1>4. \A j \in 1 .. Len(u), x \in Int : DigitTurn(H)[<<x, u[j]>>] = WrappedAt(H, x * 10 + u[j])
  BY <1>3 DEF DigitTurn
<1>5. N(h)
  <2>1. \A j \in 0 .. Len(u) : h[j] = IF j = 0 THEN 0 ELSE WrappedAt(H, h[j - 1] * 10 + u[j])
    <3> SUFFICES ASSUME NEW j \in 0 .. Len(u), j # 0 PROVE h[j] = WrappedAt(H, h[j - 1] * 10 + u[j])
      BY <1>2
    <3>1. j \in 1 .. Len(u) /\ j - 1 \in 0 .. Len(u)
      BY <1>3
    <3>2. h[j - 1] \in Int
      BY <3>1
    <3>3. h[j] = DigitTurn(H)[<<h[j - 1], u[j]>>]
      BY <1>2, <3>1
    <3>4. DigitTurn(H)[<<h[j - 1], u[j]>>] = WrappedAt(H, h[j - 1] * 10 + u[j])
      BY <1>4, <3>1, <3>2
    <3> QED
      BY <3>3, <3>4
  <2>2. h = [j \in 0 .. Len(u) |-> h[j]]
    OBVIOUS
  <2> QED
    BY <2>1, <2>2
<1>6. N(f)
  BY <1>5
<1>7. MagnitudeAt(H, u) = f[Len(u)]
  BY DEF MagnitudeAt
<1> HIDE DEF f
<1>8. \A j \in 0 .. Len(u) : f[j] = IF j = 0 THEN 0 ELSE WrappedAt(H, f[j - 1] * 10 + u[j])
  BY <1>6
<1>9. f[0] = z
  BY <1>3, <1>8
<1>10. \A n \in 1 .. Len(u) : f[n - 1] \in I => f[n] = DigitTurn(H)[<<f[n - 1], u[n]>>]
  <2> SUFFICES ASSUME NEW n \in 1 .. Len(u), f[n - 1] \in Int PROVE f[n] = DigitTurn(H)[<<f[n - 1], u[n]>>]
    OBVIOUS
  <2>1. n \in 0 .. Len(u) /\ n # 0
    BY <1>3
  <2>2. f[n] = WrappedAt(H, f[n - 1] * 10 + u[n])
    BY <1>8, <2>1
  <2>3. DigitTurn(H)[<<f[n - 1], u[n]>>] = WrappedAt(H, f[n - 1] * 10 + u[n])
    BY <1>4
  <2> QED
    BY <2>2, <2>3
<1>11. f[Len(u)] = LoopOf(u, z, DigitTurn(H))
  <2> HIDE DEF I, z, N
  <2> QED
    BY <1>1, <1>9, <1>10, LoopResult
<1> QED
  BY <1>7, <1>11

LEMMA MagnitudeSteps ==
  ASSUME NEW H \in Nat \ {0}
  PROVE  /\ MagnitudeAt(H, <<>>) = 0
         /\ \A u \in Seq(Int) : MagnitudeAt(H, u) \in Int
         /\ \A u \in Seq(Int), c \in Int : MagnitudeAt(H, Append(u, c)) = WrappedAt(H, MagnitudeAt(H, u) * 10 + c)
<1> DEFINE I == Int
           z == 0
<1>1. <<>> \in Seq(Int) /\ z \in I /\ LoopBody(DigitTurn(H), I, I)
  BY EmptySeq, DigitTurnBody
<1>2. /\ LoopOf(<<>>, z, DigitTurn(H)) = z
      /\ \A u \in Seq(I) : LoopOf(u, z, DigitTurn(H)) \in I
      /\ \A u \in Seq(I), c \in I : LoopOf(Append(u, c), z, DigitTurn(H)) = DigitTurn(H)[<<LoopOf(u, z, DigitTurn(H)), c>>]
  <2> HIDE DEF I, z
  <2> QED
    BY <1>1, LoopEmpty, LoopType, LoopAppend
<1>3. \A u \in Seq(Int), c \in Int : Append(u, c) \in Seq(Int)
  BY AppendProperties
<1>4. \A u \in Seq(Int) : MagnitudeAt(H, u) \in Int
  BY <1>2, MagnitudeLoop
<1>5. ASSUME NEW u \in Seq(Int), NEW c \in Int
      PROVE  MagnitudeAt(H, Append(u, c)) = WrappedAt(H, MagnitudeAt(H, u) * 10 + c)
  <2>1. MagnitudeAt(H, Append(u, c)) = LoopOf(Append(u, c), 0, DigitTurn(H)) /\ MagnitudeAt(H, u) = LoopOf(u, 0, DigitTurn(H))
    BY <1>3, MagnitudeLoop
  <2>2. LoopOf(Append(u, c), 0, DigitTurn(H)) = DigitTurn(H)[<<LoopOf(u, 0, DigitTurn(H)), c>>]
    BY <1>2
  <2>3. DigitTurn(H)[<<MagnitudeAt(H, u), c>>] = WrappedAt(H, MagnitudeAt(H, u) * 10 + c)
    BY <1>4 DEF DigitTurn
  <2> QED
    BY <2>1, <2>2, <2>3
<1> QED
  BY <1>1, <1>2, <1>4, <1>5, MagnitudeLoop

-----------------------------------------------------------------------------
(* What is printed for a number up to H is read as that number, or, for    *)
(* H itself, as the number it wraps around to.                             *)
LEMMA NumeralRead ==
  ASSUME NEW H \in Nat \ {0}, NEW n \in Nat, n <= H
  PROVE  MagnitudeAt(H, Numeral[n]) = WrappedAt(H, n)
<1> DEFINE S == {k \in Nat : k <= H => MagnitudeAt(H, Numeral[k]) = WrappedAt(H, k)}
<1>1. Digit \subseteq Int
  BY DEF Digit
<1>2. ASSUME NEW k \in Nat, \A m \in Nat : m < k => m \in S, k <= H
      PROVE  MagnitudeAt(H, Numeral[k]) = WrappedAt(H, k)
  <2>1. CASE k < 10
    <3>1. Numeral[k] = Append(<<>>, k)
      <4>1. Numeral[k] = <<k>>
        BY <2>1, NumeralFacts
      <4>2. Append(<<>>, k) = <<k>>
        OBVIOUS
      <4> QED
        BY <4>1, <4>2
    <3>2. MagnitudeAt(H, Append(<<>>, k)) = WrappedAt(H, MagnitudeAt(H, <<>>) * 10 + k)
      <4>1. <<>> \in Seq(Int) /\ k \in Int
        BY EmptySeq
      <4> QED
        BY <4>1, MagnitudeSteps
    <3>3. MagnitudeAt(H, <<>>) * 10 + k = k
      BY MagnitudeSteps
    <3> QED
      BY <3>1, <3>2, <3>3
  <2>2. CASE ~(k < 10)
    <3> DEFINE q == k \div 10
               r == k % 10
    <3>1. q \in Nat /\ r \in Digit /\ k = 10 * q + r /\ q < k
      BY <2>2, Tens
    <3> HIDE DEF q, r
    <3>2. Numeral[k] = Append(Numeral[q], r) /\ Numeral[q] \in Seq(Int) /\ r \in Int
      BY <1>1, <2>2, <3>1, NumeralFacts, SeqMonotonic DEF q, r
    <3>3. MagnitudeAt(H, Numeral[k]) = WrappedAt(H, MagnitudeAt(H, Numeral[q]) * 10 + r)
      BY <3>2, MagnitudeSteps
    <3>4. MagnitudeAt(H, Numeral[q]) = WrappedAt(H, q)
      BY <1>2, <3>1
    <3>5. WrappedAt(H, q) = q
      <4>1. q \in -H .. H - 1
        BY <1>2, <3>1 
      <4> QED
        BY <4>1, WrappedInt
    <3>6. q * 10 + r = k
      BY <3>1, <3>2
    <3> QED
      BY <3>3, <3>4, <3>5, <3>6
  <2> QED
    BY <2>1, <2>2
<1>3. \A k \in Nat : (\A m \in Nat : m < k => m \in S) => k \in S
  BY <1>2
<1> HIDE DEF S
<1>4. Nat \subseteq S
  BY <1>3, StrongInduction
<1> QED
  BY <1>4 DEF S

(* A numeral is not taken for a signed number.                             *)
LEMMA UnsignedNumeral ==
  ASSUME NEW u \in Seq(Digit), u # <<>>
  PROVE  ~ Negative(u) /\ Unsigned(u) = u
<1>1. u[1] \in Digit
  BY EmptySeq, LenProperties, ElementOfSeq
<1> QED
  BY <1>1 DEF Negative, Unsigned, Digit, Minus

(* The number behind a minus.                                              *)
LEMMA SignedNumeral ==
  ASSUME NEW u \in Seq(Digit)
  PROVE  LET s == <<Minus>> \o u IN s # <<>> /\ Negative(s) /\ Unsigned(s) = u
<1> DEFINE s == <<Minus>> \o u
           A == Nat
           b == <<Minus>>
<1>1. u \in Seq(A) /\ b \in Seq(A) /\ Len(b) = 1 /\ b[1] = Minus
  BY SeqMonotonic DEF Digit, Minus
<1>2. s # <<>> /\ s[1] = Minus /\ Tail(s) = u
  BY <1>1
<1> QED
  BY <1>2 DEF Negative, Unsigned

(* parseIntStrict reads back what is printed for an int, the least one     *)
(* included, whose digits and whose sign both wrap around.                 *)
LEMMA DecimalsReadBack ==
  ASSUME NEW H \in Nat \ {0}, NEW id \in -H .. H - 1
  PROVE  ParseIntAt(H, Decimal(id)) = [ok |-> TRUE, n |-> id]
<1> DEFINE m == IF id < 0 THEN -id ELSE id
           u == Numeral[m]
<1>1. id \in Int /\ m \in Nat /\ m <= H
  OBVIOUS 
<1> HIDE DEF m
<1>2. u \in Seq(Digit) /\ u # <<>>
  BY <1>1, NumeralFacts
<1>3. MagnitudeAt(H, u) = WrappedAt(H, m)
  BY <1>1, NumeralRead
<1> HIDE DEF u
<1>4. \A j \in DOMAIN u : u[j] \in Digit
  BY <1>2, LenProperties, ElementOfSeq
<1>5. CASE id < 0
  <2> DEFINE s == <<Minus>> \o u
  <2>1. Decimal(id) = s
    BY <1>5 DEF Decimal, m, u
  <2>2. s # <<>> /\ Negative(s) /\ Unsigned(s) = u
    BY <1>2, SignedNumeral
  <2> HIDE DEF s
  <2>3. ParseIntAt(H, s) = [ok |-> TRUE, n |-> WrappedAt(H, -MagnitudeAt(H, u))]
    BY <1>4, <2>2 DEF ParseIntAt
  <2>4. WrappedAt(H, -WrappedAt(H, m)) = id
    <3>1. m = -id
      BY <1>5 DEF m
    <3>2. CASE m = H
      <4>1. WrappedAt(H, m) = -H /\ -(-H) = H /\ id = -H
        BY <1>1, <3>1, <3>2, WrappedInt
      <4> QED
        BY <4>1, WrappedInt
    <3>3. CASE m # H
      <4>1. m \in -H .. H - 1 /\ -m = id
        BY <1>1, <3>1, <3>3 
      <4>2. WrappedAt(H, m) = m /\ WrappedAt(H, id) = id
        BY <4>1, WrappedInt
      <4> QED
        BY <4>1, <4>2
    <3> QED
      BY <3>2, <3>3
  <2> QED
    BY <1>3, <2>1, <2>3, <2>4
<1>6. CASE ~(id < 0)
  <2>1. Decimal(id) = u /\ m = id
    BY <1>6 DEF Decimal, m, u
  <2>2. ~ Negative(u) /\ Unsigned(u) = u
    BY <1>2, UnsignedNumeral
  <2>3. ParseIntAt(H, u) = [ok |-> TRUE, n |-> MagnitudeAt(H, u)]
    BY <1>2, <1>4, <2>2 DEF ParseIntAt
  <2>4. WrappedAt(H, id) = id
    BY WrappedInt
  <2> QED
    BY <1>3, <2>1, <2>3, <2>4
<1> QED
  BY <1>5, <1>6

-----------------------------------------------------------------------------
(* Digits that do not begin with a zero are the numeral of some number.    *)
LEMMA DigitsNumeral ==
  ASSUME NEW u \in Seq(Digit), u # <<>>, u[1] # 0
  PROVE  \E n \in Nat \ {0} : u = Numeral[n]
<1> DEFINE D == Digit
           P == {t \in Seq(D) : t # <<>> /\ t[1] # 0 => \E n \in Nat \ {0} : t = Numeral[n]}
<1>1. <<>> \in P
  BY EmptySeq
<1>2. ASSUME NEW t \in Seq(D), NEW c \in D, t \in P,
             Append(t, c)[1] # 0
      PROVE  \E n \in Nat \ {0} : Append(t, c) = Numeral[n]
  <2>1. CASE t = <<>>
    <3>1. Append(t, c) = <<c>>
      BY <2>1
    <3>2. c \in Nat /\ c < 10 /\ c # 0
      BY <1>2, <3>1 DEF Digit
    <3>3. Numeral[c] = <<c>>
      BY <3>2, NumeralFacts
    <3> QED
      BY <3>1, <3>2, <3>3
  <2>2. CASE t # <<>>
    <3>1. t[1] = Append(t, c)[1]
      <4>1. Len(t) \in Nat /\ Len(t) # 0
        BY <2>2, EmptySeq, LenProperties
      <4>2. 1 \in 1 .. Len(t)
        BY <4>1
      <4> QED
        BY <4>2, AppendProperties
    <3>2. PICK n \in Nat \ {0} : t = Numeral[n]
      BY <1>2, <2>2, <3>1
    <3> DEFINE k == n * 10 + c
    <3>3. k \in Nat \ {0} /\ ~(k < 10)
      BY DEF Digit
    <3>4. k \div 10 = n /\ k % 10 = c
      BY TensUnique
    <3> HIDE DEF k
    <3>5. Numeral[k] = Append(Numeral[n], c)
      BY <3>3, <3>4, NumeralFacts
    <3> QED
      BY <3>2, <3>3, <3>5
  <2> QED
    BY <2>1, <2>2
<1>3. \A t \in Seq(D), c \in D : t \in P => Append(t, c) \in P
  BY <1>2, AppendProperties
<1>4. Seq(D) \subseteq P
  <2> HIDE DEF D, P
  <2> QED
    BY <1>1, <1>3, SequenceInduction
<1> QED
  BY <1>4

(* A greater number has no fewer digits.                                   *)
LEMMA NumeralLonger ==
  ASSUME NEW n \in Nat, NEW m \in Nat, m <= n
  PROVE  Len(Numeral[m]) <= Len(Numeral[n])
<1> DEFINE L(k) == Len(Numeral[k])
           S == {k \in Nat : \A j \in Nat : j <= k => L(j) <= L(k)}
<1>1. ASSUME NEW k \in Nat
      PROVE  L(k) \in Nat \ {0} /\ L(k) = IF k < 10 THEN 1 ELSE L(k \div 10) + 1
  <2>1. Numeral[k] \in Seq(Digit) /\ Numeral[k] # <<>>
    BY NumeralFacts
  <2>2. L(k) \in Nat \ {0}
    BY <2>1, EmptySeq, LenProperties
  <2>3. k < 10 => L(k) = 1
    <3>1. k < 10 => Numeral[k] = <<k>>
      BY NumeralFacts
    <3> QED
      BY <3>1
  <2>4. ~(k < 10) => L(k) = L(k \div 10) + 1
    <3> DEFINE r == k % 10
               q == k \div 10
    <3>1. q \in Nat /\ r \in Digit
      BY Tens
    <3>2. ~(k < 10) => Numeral[k] = Append(Numeral[q], r)
      BY NumeralFacts
    <3>3. Numeral[q] \in Seq(Digit)
      BY <3>1, NumeralFacts
    <3> HIDE DEF q, r
    <3>4. Len(Append(Numeral[q], r)) = Len(Numeral[q]) + 1
      BY <3>1, <3>3, AppendProperties
    <3> QED
      BY <3>2, <3>4 DEF q
  <2> QED
    BY <2>2, <2>3, <2>4
<1> HIDE DEF L
<1>2. ASSUME NEW k \in Nat, \A i \in Nat : i < k => i \in S, NEW j \in Nat, j <= k
      PROVE  L(j) <= L(k)
  <2>1. CASE j < 10
    BY <1>1, <2>1
  <2>2. CASE ~(j < 10)
    <3> DEFINE q == j \div 10
               p == k \div 10
    <3>1. q \in Nat /\ p \in Nat /\ p < k /\ q <= p
      <4>1. q \in Nat /\ (j % 10) \in 0 .. 9 /\ j = 10 * q + (j % 10)
        BY Tens DEF Digit
      <4>2. p \in Nat /\ (k % 10) \in 0 .. 9 /\ k = 10 * p + (k % 10)
        BY Tens DEF Digit
      <4>3. p < k
        BY <1>2, <2>2, Tens
      <4> HIDE DEF q, p
      <4>4. q <= p
        BY <1>2, <4>1, <4>2
      <4> QED
        BY <4>1, <4>2, <4>3, <4>4
    <3>2. L(j) = L(q) + 1 /\ L(k) = L(p) + 1
      BY <1>1, <1>2, <2>2
    <3> HIDE DEF q, p
    <3>3. L(q) <= L(p)
      BY <1>2, <3>1
    <3> QED
      BY <1>1, <3>1, <3>2, <3>3
  <2> QED
    BY <2>1, <2>2
<1>3. \A k \in Nat : (\A i \in Nat : i < k => i \in S) => k \in S
  BY <1>2
<1> HIDE DEF S
<1>4. Nat \subseteq S
  BY <1>3, StrongInduction
<1> QED
  BY <1>4 DEF S, L

-----------------------------------------------------------------------------
(* Sequences, their parts, and several of them one after the other.        *)

(* Heads and tails.                                                        *)
LEMMA FirstOfSeq ==
  ASSUME NEW S, NEW s \in Seq(S), s # <<>>
  PROVE  /\ s[1] \in S /\ Tail(s) \in Seq(S) /\ Len(s) \in Nat \ {0}
         /\ Len(Tail(s)) \in Nat /\ Len(Tail(s)) = Len(s) - 1
         /\ \A i \in 1 .. Len(s) - 1 : Tail(s)[i] = s[i + 1]
<1>1. Len(s) \in Nat \ {0}
  BY EmptySeq
<1>2. s[1] \in S
  BY <1>1, ElementOfSeq
<1> QED
  BY <1>1, <1>2, HeadTailProperties

(* FlattenSeq one sequence after the other.                                *)
LEMMA Flattening ==
  ASSUME NEW A, NEW s \in Seq(Seq(A))
  PROVE  \E f \in [0 .. Len(s) -> Seq(A)] :
           /\ f[0] = <<>> /\ FlattenSeq(s) = f[Len(s)]
           /\ \A n \in 1 .. Len(s) : f[n] = f[n - 1] \o s[n]
<1> DEFINE N == Len(s)
<1>1. N \in Nat /\ \A n \in 1 .. N : s[n] \in Seq(A)
  BY LenProperties, ElementOfSeq
<1>2. <<>> \in Seq(A) /\ \A u \in Seq(A), w \in Seq(A) : u \o w \in Seq(A)
  BY EmptySeq, ConcatProperties
<1>3. CASE N = 0
  <2> DEFINE f == [n \in 0 .. N |-> <<>>]
  <2>1. s = <<>>
    BY <1>3, EmptySeq
  <2>2. FlattenSeq(s) = <<>>
    BY <1>3, <2>1 DEF FlattenSeq
  <2>3. f \in [0 .. N -> Seq(A)]
    BY <1>2
  <2>4. f[0] = <<>> /\ f[N] = <<>> /\ 1 .. N = {}
    BY <1>3
  <2> HIDE DEF f, N
  <2>5. f[0] = <<>> /\ FlattenSeq(s) = f[N] /\ \A n \in 1 .. N : f[n] = f[n - 1] \o s[n]
    BY <2>2, <2>4
  <2> QED
    BY <2>3, <2>5 DEF N
<1>4. CASE N # 0
  <2> DEFINE D == 0 .. N - 1
             V == Seq(A)
             p == [n \in D |-> n - 1]
             G == [x \in (D \ {0}) \X V |-> x[2] \o s[x[1] + 1]]
             F(g) == g = [i \in 1 .. N |-> IF i = 1 THEN s[i] ELSE g[i - 1] \o s[i]]
             g == CHOOSE g : F(g)
  <2>1. Initial(D)
    BY <1>1, <1>4 DEF Initial
  <2>2. s[1] \in V /\ \A n \in D \ {0} : s[n + 1] \in V
    BY <1>1, <1>4
  <2>3. Descends(D, p, V, s[1], G)
    <3>1. \A n \in D \ {0} : p[n] \in Nat /\ p[n] < n
      BY <1>1
    <3>2. \A n \in D \ {0}, x \in V : G[<<n, x>>] \in V
      BY <1>2, <2>2
    <3> HIDE DEF D, V, p, G
    <3> QED
      BY <2>2, <3>1, <3>2 DEF Descends
  <2>4. PICK h : Recurses(h, D, p, s[1], G)
    <3> HIDE DEF D, V, p, G
    <3> QED
      BY <2>1, <2>3, Recursion
  <2>5. h \in [D -> V]
    <3> HIDE DEF D, V, p, G
    <3> QED
      BY <2>1, <2>3, <2>4, RecursionType
  <2>6. ASSUME NEW n \in D PROVE h[n] = IF n = 0 THEN s[1] ELSE h[n - 1] \o s[n + 1]
    <3>1. h[n] = IF n = 0 THEN s[1] ELSE G[<<n, h[p[n]]>>]
      <4> HIDE DEF D, p, G
      <4> QED
        BY <2>4 DEF Recurses
    <3>2. n # 0 => p[n] = n - 1 /\ n - 1 \in D
      BY <1>1
    <3>3. n # 0 => h[n - 1] \in V
      <4> HIDE DEF D, V
      <4> QED
        BY <2>5, <3>2
    <3> QED
      BY <3>1, <3>2, <3>3
  <2> DEFINE k == [i \in 1 .. N |-> h[i - 1]]
  <2>7. F(k)
    <3>1. ASSUME NEW i \in 1 .. N PROVE k[i] = IF i = 1 THEN s[i] ELSE k[i - 1] \o s[i]
      <4>1. i - 1 \in D /\ (i - 1) + 1 = i /\ (i - 1 = 0 <=> i = 1)
        BY <1>1
      <4>2. k[i] = h[i - 1] /\ (i # 1 => k[i - 1] = h[(i - 1) - 1])
        BY <1>1
      <4>3. h[i - 1] = IF i - 1 = 0 THEN s[1] ELSE h[(i - 1) - 1] \o s[(i - 1) + 1]
        BY <2>6, <4>1
      <4> QED
        BY <4>1, <4>2, <4>3
    <3>2. k = [i \in 1 .. N |-> k[i]]
      OBVIOUS
    <3> HIDE DEF k
    <3> QED
      BY <3>1, <3>2
  <2>8. F(g)
    <3> HIDE DEF F
    <3> QED
      BY <2>7
  <2>9. FlattenSeq(s) = g[N]
    BY <1>4 DEF FlattenSeq
  <2> HIDE DEF g
  <2> DEFINE f == [n \in 0 .. N |-> IF n = 0 THEN <<>> ELSE g[n]]
  <2>10. f[0] = <<>> /\ f[N] = g[N]
    BY <1>1, <1>4
  <2>11. \A n \in 1 .. N : f[n] = f[n - 1] \o s[n]
    <3> SUFFICES ASSUME NEW n \in 1 .. N PROVE f[n] = f[n - 1] \o s[n]
      OBVIOUS
    <3>1. n # 1 => n - 1 \in 1 .. N
      BY <1>1
    <3>2. f[n] = g[n] /\ f[n - 1] = IF n = 1 THEN <<>> ELSE g[n - 1]
      BY <1>1
    <3>3. s[n] = <<>> \o s[n]
      BY <1>1, ConcatEmptySeq
    <3> HIDE DEF f
    <3> QED
      BY <2>8, <3>1, <3>2, <3>3
  <2>12. f \in [0 .. N -> Seq(A)]
    <3> DEFINE S == {n \in Nat : n <= N => f[n] \in Seq(A)}
    <3> HIDE DEF f
    <3>1. 0 \in S
      BY <1>2, <2>10
    <3>2. \A n \in Nat : n \in S => n + 1 \in S
      <4> SUFFICES ASSUME NEW n \in Nat, n \in S, n + 1 <= N PROVE f[n + 1] \in Seq(A)
        OBVIOUS
      <4>1. n + 1 \in 1 .. N /\ (n + 1) - 1 = n /\ f[n] \in Seq(A)
        BY <1>1
      <4> QED
        BY <1>1, <1>2, <2>11, <4>1
    <3>3. Nat \subseteq S
      <4> HIDE DEF S
      <4> QED
        BY <3>1, <3>2, Induction
    <3>4. \A n \in 0 .. N : f[n] \in Seq(A)
      BY <3>3
    <3> QED
      BY <3>4 DEF f
  <2> HIDE DEF f
  <2> QED
    BY <2>9, <2>10, <2>11, <2>12
<1> QED
  BY <1>3, <1>4

LEMMA FlattenType ==
  ASSUME NEW A, NEW s \in Seq(Seq(A))
  PROVE  FlattenSeq(s) \in Seq(A)
<1>1. Len(s) \in 0 .. Len(s)
  BY LenProperties
<1>2. PICK f \in [0 .. Len(s) -> Seq(A)] : FlattenSeq(s) = f[Len(s)]
  BY Flattening
<1> QED
  BY <1>1, <1>2

LEMMA FlattenEmpty == FlattenSeq(<<>>) = <<>>
  BY EmptySeq DEF FlattenSeq

LEMMA FlattenAppend ==
  ASSUME NEW A, NEW s \in Seq(Seq(A)), NEW e \in Seq(A)
  PROVE  FlattenSeq(Append(s, e)) = FlattenSeq(s) \o e
<1> DEFINE t == Append(s, e)
           N == Len(s)
<1>1. /\ N \in Nat /\ t \in Seq(Seq(A)) /\ Len(t) = N + 1
      /\ \A n \in 1 .. N : t[n] = s[n]
      /\ t[N + 1] = e
  BY AppendProperties, LenProperties
<1> HIDE DEF t
<1>2. PICK f \in [0 .. N -> Seq(A)] :
        /\ f[0] = <<>> /\ FlattenSeq(s) = f[N]
        /\ \A n \in 1 .. N : f[n] = f[n - 1] \o s[n]
  BY Flattening
<1>3. PICK g \in [0 .. Len(t) -> Seq(A)] :
        /\ g[0] = <<>> /\ FlattenSeq(t) = g[Len(t)]
        /\ \A n \in 1 .. Len(t) : g[n] = g[n - 1] \o t[n]
  BY <1>1, Flattening
<1> DEFINE S == {n \in Nat : n <= N => g[n] = f[n]}
<1>4. 0 \in S
  BY <1>2, <1>3
<1>5. \A n \in Nat : n \in S => n + 1 \in S
  <2> SUFFICES ASSUME NEW n \in Nat, n \in S, n + 1 <= N PROVE g[n + 1] = f[n + 1]
    OBVIOUS
  <2>1. n + 1 \in 1 .. N /\ n + 1 \in 1 .. N + 1 /\ (n + 1) - 1 = n /\ g[n] = f[n]
    BY <1>1
  <2> QED
    BY <1>1, <1>2, <1>3, <2>1
<1>6. Nat \subseteq S
  <2> HIDE DEF S
  <2> QED
    BY <1>4, <1>5, Induction
<1>7. g[N] = f[N]
  <2>1. N \in S
    <3> HIDE DEF S
    <3> QED
      BY <1>1, <1>6
  <2> QED
    BY <1>1, <2>1
<1>8. N + 1 \in 1 .. N + 1 /\ (N + 1) - 1 = N
  BY <1>1
<1>9. g[N + 1] = g[N] \o e
  BY <1>1, <1>3, <1>8
<1> QED
  BY <1>1, <1>2, <1>3, <1>7, <1>9 DEF t

(* What is left of a flattened sequence, and of t behind it, after so many *)
(* of its parts.                                                           *)
Rests(R, s, t) ==
  /\ R[0] = FlattenSeq(s) \o t /\ R[Len(s)] = t
  /\ \A k \in 1 .. Len(s) : R[k - 1] = s[k] \o R[k]

LEMMA FlattenRests ==
  ASSUME NEW A, NEW s \in Seq(Seq(A)), NEW t \in Seq(A)
  PROVE  \E R \in [0 .. Len(s) -> Seq(A)] : Rests(R, s, t)
<1> DEFINE P == {r \in Seq(Seq(A)) :
                   \A u \in Seq(A) : \E R \in [0 .. Len(r) -> Seq(A)] : Rests(R, r, u)}
<1>1. <<>> \in P
  <2> SUFFICES ASSUME NEW u \in Seq(A)
               PROVE  \E R \in [0 .. Len(<<>>) -> Seq(A)] : Rests(R, <<>>, u)
    BY EmptySeq
  <2> DEFINE R == [k \in 0 .. 0 |-> u]
  <2>1. R \in [0 .. 0 -> Seq(A)] /\ R[0] = u /\ 1 .. 0 = {}
    OBVIOUS
  <2>2. Len(<<>>) = 0 /\ u = <<>> \o u
    BY EmptySeq, ConcatEmptySeq
  <2> HIDE DEF R
  <2> QED
    BY <2>1, <2>2, FlattenEmpty DEF Rests
<1>2. ASSUME NEW r \in Seq(Seq(A)), NEW e \in Seq(A), r \in P PROVE Append(r, e) \in P
  <2> DEFINE q == Append(r, e)
             N == Len(r)
  <2>1. /\ N \in Nat /\ q \in Seq(Seq(A)) /\ Len(q) = N + 1
        /\ \A n \in 1 .. N : q[n] = r[n]
        /\ q[N + 1] = e
    BY AppendProperties, LenProperties
  <2>2. FlattenSeq(q) = FlattenSeq(r) \o e
    BY FlattenAppend
  <2> HIDE DEF q
  <2> SUFFICES ASSUME NEW u \in Seq(A)
               PROVE  \E R \in [0 .. Len(q) -> Seq(A)] : Rests(R, q, u)
    BY <2>1 DEF q
  <2>3. e \o u \in Seq(A)
    BY ConcatProperties
  <2>4. PICK O \in [0 .. N -> Seq(A)] : Rests(O, r, e \o u)
    BY <1>2, <2>3
  <2> DEFINE R == [k \in 0 .. N + 1 |-> IF k = N + 1 THEN u ELSE O[k]]
  <2>5. R \in [0 .. N + 1 -> Seq(A)]
    BY <2>1
  <2>6. R[0] = O[0] /\ R[N + 1] = u /\ R[N] = O[N]
    BY <2>1
  <2>7. R[0] = FlattenSeq(q) \o u
    <3>1. O[0] = FlattenSeq(r) \o (e \o u)
      BY <2>4 DEF Rests
    <3>2. FlattenSeq(r) \in Seq(A)
      BY FlattenType
    <3>3. (FlattenSeq(r) \o e) \o u = FlattenSeq(r) \o (e \o u)
      BY <3>2, ConcatAssociative
    <3> HIDE DEF R
    <3> QED
      BY <2>2, <2>6, <3>1, <3>3
  <2>8. ASSUME NEW k \in 1 .. N + 1 PROVE R[k - 1] = q[k] \o R[k]
    <3>1. CASE k = N + 1
      <4>1. O[N] = e \o u /\ (N + 1) - 1 = N
        BY <2>1, <2>4 DEF Rests
      <4> HIDE DEF R
      <4> QED
        BY <2>1, <2>6, <3>1, <4>1
    <3>2. CASE k # N + 1
      <4>1. k \in 1 .. N /\ R[k] = O[k] /\ R[k - 1] = O[k - 1]
        BY <2>1, <3>2
      <4>2. O[k - 1] = r[k] \o O[k]
        BY <2>4, <4>1 DEF Rests
      <4> HIDE DEF R
      <4> QED
        BY <2>1, <4>1, <4>2
    <3> QED
      BY <3>1, <3>2
  <2> HIDE DEF R
  <2> QED
    BY <2>1, <2>5, <2>6, <2>7, <2>8 DEF Rests
<1>3. Seq(Seq(A)) \subseteq P
  <2> HIDE DEF P
  <2> QED
    BY <1>1, <1>2, SequenceInduction
<1> QED
  BY <1>3

(* The elements of a finite set, one after the other.                      *)
LEMMA SetToSeqIs ==
  ASSUME NEW S, IsFiniteSet(S)
  PROVE  /\ SetToSeq(S) \in Seq(S) /\ Len(SetToSeq(S)) = Cardinality(S)
         /\ DOMAIN SetToSeq(S) = 1 .. Cardinality(S) /\ Cardinality(S) \in Nat
         /\ \A i, j \in 1 .. Cardinality(S) : SetToSeq(S)[i] = SetToSeq(S)[j] => i = j
         /\ \A x \in S : \E i \in 1 .. Cardinality(S) : SetToSeq(S)[i] = x
         /\ \A i \in 1 .. Cardinality(S) : SetToSeq(S)[i] \in S
<1> DEFINE n == Cardinality(S)
<1>1. n \in Nat /\ ExistsBijection(1 .. n, S)
  BY FS_CardinalityType
<1>2. PICK f \in Bijection(1 .. n, S) : TRUE
  BY <1>1 DEF ExistsBijection
<1>3. f \in [1 .. n -> S] /\ IsInjective(f)
  BY <1>2 DEF Bijection, Injection
<1>4. SetToSeq(S) \in [1 .. n -> S] /\ IsInjective(SetToSeq(S))
  BY <1>3 DEF SetToSeq
<1> DEFINE s == SetToSeq(S)
<1> HIDE DEF s
<1>5. s \in Injection(1 .. n, S)
  BY <1>4 DEF Injection, s
<1>6. IsFiniteSet(1 .. n) /\ Cardinality(1 .. n) = n
  BY <1>1, FS_Interval
<1>7. s \in Surjection(1 .. n, S)
  BY <1>5, <1>6, FS_Injection
<1>8. \A x \in S : \E i \in 1 .. n : s[i] = x
  BY <1>7 DEF Surjection
<1>9. \A i, j \in 1 .. n : s[i] = s[j] => i = j
  BY <1>4 DEF IsInjective, s
<1>10. s \in Seq(S) /\ Len(s) = n /\ DOMAIN s = 1 .. n
  BY <1>1, <1>4 DEF s
<1> QED
  BY <1>1, <1>4, <1>8, <1>9, <1>10 DEF s

(* What is made of the elements of a sequence.                             *)
LEMMA FromDomain ==
  ASSUME NEW W, NEW s \in Seq(W), NEW A, NEW f, f = [i \in DOMAIN s |-> f[i]],
         \A i \in DOMAIN s : f[i] \in A
  PROVE  f \in Seq(A) /\ Len(f) = Len(s) /\ DOMAIN f = 1 .. Len(s)
<1>1. Len(s) \in Nat /\ DOMAIN s = 1 .. Len(s)
  OBVIOUS
<1>2. f \in [1 .. Len(s) -> A]
  BY <1>1
<1> QED
  BY <1>1, <1>2

LEMMA SameSeq ==
  ASSUME NEW A, NEW s \in Seq(A), NEW t \in Seq(A), NEW n \in Nat, Len(s) = n, Len(t) = n,
         \A i \in 1 .. n : s[i] = t[i]
  PROVE  s = t
  OBVIOUS

LEMMA OneJoined ==
  ASSUME NEW A, NEW c \in A, NEW b \in Seq(A)
  PROVE  /\ <<c>> \o b \in Seq(A) /\ <<c>> \o b # <<>> /\ Len(<<c>> \o b) = Len(b) + 1
         /\ (<<c>> \o b)[1] = c /\ Tail(<<c>> \o b) = b
<1> DEFINE s == <<c>> \o b
<1>1. <<c>> \in Seq(A) /\ Len(<<c>>) = 1 /\ <<c>>[1] = c /\ Len(b) \in Nat
  OBVIOUS
<1>2. s \in Seq(A) /\ Len(s) = Len(b) + 1 /\ s[1] = c /\ \A i \in 1 .. Len(b) : s[i + 1] = b[i]
  BY <1>1
<1> HIDE DEF s
<1>3. s # <<>>
  BY <1>1, <1>2
<1>4. Tail(s) \in Seq(A) /\ Len(Tail(s)) = Len(b) /\ \A i \in 1 .. Len(b) : Tail(s)[i] = s[i + 1]
  BY <1>1, <1>2, <1>3, FirstOfSeq
<1>5. Tail(s) = b
  BY <1>2, <1>4
<1> QED
  BY <1>2, <1>3, <1>5 DEF s

(* Its elements are in S.                                                  *)
LEMMA ElementIn ==
  ASSUME NEW S, NEW s \in Seq(S), NEW k \in 1 .. Len(s)
  PROVE  s[k] \in S /\ DOMAIN s = 1 .. Len(s)
  OBVIOUS

LEMMA SequenceUpto ==
  ASSUME NEW A, NEW m \in Nat, NEW f, f = [i \in 1 .. m |-> f[i]],
         \A i \in 1 .. m : f[i] \in A
  PROVE  f \in Seq(A) /\ Len(f) = m
<1>1. f \in [1 .. m -> A]
  OBVIOUS
<1> QED
  BY <1>1

-----------------------------------------------------------------------------
(* Bits and bytes of numbers.                                              *)

(* Division by 128.                                                        *)
LEMMA Sevens ==
  ASSUME NEW n \in Nat
  PROVE  /\ n \div 128 \in Nat /\ n % 128 \in 0 .. 127 /\ n = 128 * (n \div 128) + (n % 128)
         /\ n >= 128 => n \div 128 < n
  OBVIOUS

(* Powers of two grow.                                                     *)
LEMMA PowersGrow ==
  ASSUME NEW m \in Nat, NEW n \in Nat, m <= n
  PROVE  PowerOfTwo[m] <= PowerOfTwo[n]
<1> DEFINE S == {k \in Nat : PowerOfTwo[m] <= PowerOfTwo[m + k]}
<1>1. 0 \in S
  BY Powers
<1>2. \A k \in Nat : k \in S => k + 1 \in S
  <2> SUFFICES ASSUME NEW k \in Nat, k \in S PROVE PowerOfTwo[m] <= PowerOfTwo[m + (k + 1)]
    OBVIOUS
  <2>1. m + (k + 1) \in Nat /\ m + (k + 1) # 0 /\ (m + (k + 1)) - 1 = m + k /\ m + k \in Nat
    OBVIOUS
  <2>2. PowerOfTwo[m + (k + 1)] = 2 * PowerOfTwo[m + k]
    BY <2>1, Powers
  <2>3. PowerOfTwo[m + k] \in Nat /\ PowerOfTwo[m] \in Nat
    BY <2>1, Powers
  <2> QED
    BY <2>2, <2>3
<1>3. Nat \subseteq S
  <2> HIDE DEF S
  <2> QED
    BY <1>1, <1>2, Induction
<1>4. n - m \in S /\ m + (n - m) = n
  <2>1. n - m \in Nat /\ m + (n - m) = n
    OBVIOUS
  <2> HIDE DEF S
  <2> QED
    BY <1>3, <2>1
<1> QED
  BY <1>4

LEMMA PowersOf7And16 ==
  /\ PowerOfTwo[7] = 128 /\ PowerOfTwo[8] = 256
  /\ PowerOfTwo[15] = 32768 /\ PowerOfTwo[16] = 65536
<1>1. \A n \in Nat : PowerOfTwo[n + 1] = 2 * PowerOfTwo[n]
  <2> SUFFICES ASSUME NEW n \in Nat PROVE PowerOfTwo[n + 1] = 2 * PowerOfTwo[n]
    OBVIOUS
  <2>1. n + 1 \in Nat /\ n + 1 # 0 /\ (n + 1) - 1 = n
    OBVIOUS
  <2> QED
    BY <2>1, Powers
<1>2. PowerOfTwo[0] = 1
  BY Powers
<1>3. /\ PowerOfTwo[0 + 1] = 2 * PowerOfTwo[0]
      /\ PowerOfTwo[1 + 1] = 2 * PowerOfTwo[1]
      /\ PowerOfTwo[2 + 1] = 2 * PowerOfTwo[2]
      /\ PowerOfTwo[3 + 1] = 2 * PowerOfTwo[3]
  BY <1>1
<1>4. PowerOfTwo[4] = 16
  BY <1>2, <1>3
<1>5. /\ PowerOfTwo[4 + 1] = 2 * PowerOfTwo[4]
      /\ PowerOfTwo[5 + 1] = 2 * PowerOfTwo[5]
      /\ PowerOfTwo[6 + 1] = 2 * PowerOfTwo[6]
      /\ PowerOfTwo[7 + 1] = 2 * PowerOfTwo[7]
  BY <1>1
<1>6. PowerOfTwo[7] = 128 /\ PowerOfTwo[8] = 256
  BY <1>4, <1>5
<1>7. /\ PowerOfTwo[8 + 1] = 2 * PowerOfTwo[8]
      /\ PowerOfTwo[9 + 1] = 2 * PowerOfTwo[9]
      /\ PowerOfTwo[10 + 1] = 2 * PowerOfTwo[10]
      /\ PowerOfTwo[11 + 1] = 2 * PowerOfTwo[11]
  BY <1>1
<1>8. PowerOfTwo[12] = 4096
  BY <1>6, <1>7
<1>9. /\ PowerOfTwo[12 + 1] = 2 * PowerOfTwo[12]
      /\ PowerOfTwo[13 + 1] = 2 * PowerOfTwo[13]
      /\ PowerOfTwo[14 + 1] = 2 * PowerOfTwo[14]
      /\ PowerOfTwo[15 + 1] = 2 * PowerOfTwo[15]
  BY <1>1
<1> QED
  BY <1>6, <1>8, <1>9

(* Numbers of so many groups of seven bits.                                *)
LEMMA PowersBySeven ==
  ASSUME NEW g \in Nat
  PROVE  PowerOfTwo[7 * (g + 1)] = 128 * PowerOfTwo[7 * g]
<1>1. \A n \in Nat : PowerOfTwo[n + 1] = 2 * PowerOfTwo[n] /\ PowerOfTwo[n] \in Nat
  <2> SUFFICES ASSUME NEW n \in Nat
               PROVE  PowerOfTwo[n + 1] = 2 * PowerOfTwo[n] /\ PowerOfTwo[n] \in Nat
    OBVIOUS
  <2>1. n + 1 \in Nat /\ n + 1 # 0 /\ (n + 1) - 1 = n
    OBVIOUS
  <2> QED
    BY <2>1, Powers
<1> DEFINE m == 7 * g
<1>2. m \in Nat /\ 7 * (g + 1) = m + 7
  OBVIOUS
<1> HIDE DEF m
<1>3. /\ PowerOfTwo[m + 1] = 2 * PowerOfTwo[m] /\ PowerOfTwo[m] \in Nat
      /\ PowerOfTwo[m + 2] = 4 * PowerOfTwo[m]
  <2>1. m + 1 \in Nat /\ (m + 1) + 1 = m + 2
    BY <1>2
  <2> QED
    BY <1>1, <1>2, <2>1
<1>4. PowerOfTwo[m + 4] = 16 * PowerOfTwo[m]
  <2>1. m + 2 \in Nat /\ m + 3 \in Nat /\ (m + 2) + 1 = m + 3 /\ (m + 3) + 1 = m + 4
    BY <1>2
  <2>2. PowerOfTwo[m + 3] = 2 * PowerOfTwo[m + 2] /\ PowerOfTwo[m + 4] = 2 * PowerOfTwo[m + 3]
    BY <1>1, <2>1
  <2> QED
    BY <1>3, <2>2
<1>5. PowerOfTwo[m + 7] = 128 * PowerOfTwo[m]
  <2>1. /\ m + 4 \in Nat /\ m + 5 \in Nat /\ m + 6 \in Nat
        /\ (m + 4) + 1 = m + 5 /\ (m + 5) + 1 = m + 6 /\ (m + 6) + 1 = m + 7
    BY <1>2
  <2>2. /\ PowerOfTwo[m + 5] = 2 * PowerOfTwo[m + 4] /\ PowerOfTwo[m + 6] = 2 * PowerOfTwo[m + 5]
        /\ PowerOfTwo[m + 7] = 2 * PowerOfTwo[m + 6]
    BY <1>1, <2>1
  <2> QED
    BY <1>3, <1>4, <2>2
<1> QED
  BY <1>2, <1>5 DEF m

LEMMA SmallQuotient ==
  ASSUME NEW z \in Nat, NEW P \in Nat, z < 128 * P
  PROVE  z \div 128 \in Nat /\ z \div 128 < P
<1> DEFINE q == z \div 128
           m == z % 128
<1>1. q \in Nat /\ m \in 0 .. 127 /\ z = 128 * q + m
  BY Sevens
<1> HIDE DEF q, m
<1>2. q < P
  BY <1>1
<1> QED
  BY <1>1, <1>2 DEF q

LEMMA TwoBytes ==
  ASSUME NEW n \in Int
  PROVE  /\ n % 256 \in 0 .. 255 /\ (n \div 256) % 256 \in 0 .. 255
         /\ (n % 256) + 256 * ((n \div 256) % 256) = n % 65536
<1> DEFINE q == n \div 256
           r == n % 256
           p == q \div 256
           s == q % 256
<1>1. q \in Int /\ r \in 0 .. 255 /\ n = 256 * q + r
  OBVIOUS
<1> HIDE DEF q, r
<1>2. p \in Int /\ s \in 0 .. 255 /\ q = 256 * p + s
  BY <1>1
<1> HIDE DEF p, s
<1>3. n = 65536 * p + (256 * s + r)
  BY <1>1, <1>2
<1>4. 256 * s + r \in Nat /\ 256 * s + r < 65536
  BY <1>1, <1>2
<1>5. n % 65536 = 256 * s + r
  BY <1>1, <1>2, <1>3, <1>4
<1> QED
  BY <1>1, <1>2, <1>5 DEF q, r, s

(* The bytes of so many parts of the same length.                          *)
LEMMA OneMoreTimes ==
  ASSUME NEW k \in Nat, NEW m \in Nat
  PROVE  (k + 1) * m = k * m + m /\ k * m \in Nat /\ 0 * m = 0
  OBVIOUS

LEMMA EnoughBytes ==
  ASSUME NEW n \in Nat, NEW k \in Nat, NEW m \in {1, 2, 4, 8}
  PROVE  n <= (n * m + k) \div m /\ (n * m + k) \div m \in Nat
<1>1. CASE m = 1
  BY <1>1
<1>2. CASE m = 2
  BY <1>2
<1>3. CASE m = 4
  BY <1>3
<1>4. CASE m = 8
  BY <1>4
<1> QED
  BY <1>1, <1>2, <1>3, <1>4

(* Eight bits in a byte.                                                   *)
LEMMA SmallPowers ==
  /\ PowerOfTwo[0] = 1 /\ PowerOfTwo[1] = 2 /\ PowerOfTwo[2] = 4 /\ PowerOfTwo[3] = 8
  /\ PowerOfTwo[4] = 16 /\ PowerOfTwo[5] = 32 /\ PowerOfTwo[6] = 64 /\ PowerOfTwo[7] = 128
<1>1. \A n \in Nat : PowerOfTwo[n + 1] = 2 * PowerOfTwo[n]
  <2> SUFFICES ASSUME NEW n \in Nat PROVE PowerOfTwo[n + 1] = 2 * PowerOfTwo[n]
    OBVIOUS
  <2>1. n + 1 \in Nat /\ n + 1 # 0 /\ (n + 1) - 1 = n
    OBVIOUS
  <2> QED
    BY <2>1, Powers
<1>2. PowerOfTwo[0] = 1
  BY Powers
<1>3. /\ PowerOfTwo[0 + 1] = 2 * PowerOfTwo[0]
      /\ PowerOfTwo[1 + 1] = 2 * PowerOfTwo[1]
      /\ PowerOfTwo[2 + 1] = 2 * PowerOfTwo[2]
      /\ PowerOfTwo[3 + 1] = 2 * PowerOfTwo[3]
  BY <1>1
<1>4. /\ PowerOfTwo[4 + 1] = 2 * PowerOfTwo[4]
      /\ PowerOfTwo[5 + 1] = 2 * PowerOfTwo[5]
      /\ PowerOfTwo[6 + 1] = 2 * PowerOfTwo[6]
  BY <1>1
<1>5. PowerOfTwo[1] = 2 /\ PowerOfTwo[2] = 4 /\ PowerOfTwo[3] = 8 /\ PowerOfTwo[4] = 16
  BY <1>2, <1>3
<1> QED
  BY <1>2, <1>4, <1>5

EightOf(b0, b1, b2, b3, b4, b5, b6, b7) ==
  b0 + 2 * b1 + 4 * b2 + 8 * b3 + 16 * b4 + 32 * b5 + 64 * b6 + 128 * b7

TakenFrom(z, b0, b1, b2, b3, b4, b5, b6, b7) ==
  /\ (z \div 1) % 2 = b0 /\ (z \div 2) % 2 = b1 /\ (z \div 4) % 2 = b2
  /\ (z \div 8) % 2 = b3 /\ (z \div 16) % 2 = b4 /\ (z \div 32) % 2 = b5
  /\ (z \div 64) % 2 = b6 /\ (z \div 128) % 2 = b7

LEMMA BitsTaken ==
  ASSUME NEW b0 \in 0 .. 1, NEW b1 \in 0 .. 1, NEW b2 \in 0 .. 1, NEW b3 \in 0 .. 1,
         NEW b4 \in 0 .. 1, NEW b5 \in 0 .. 1, NEW b6 \in 0 .. 1, NEW b7 \in 0 .. 1
  PROVE  TakenFrom(EightOf(b0, b1, b2, b3, b4, b5, b6, b7), b0, b1, b2, b3, b4, b5, b6, b7)
<1>0. PICK z : z = EightOf(b0, b1, b2, b3, b4, b5, b6, b7)
  OBVIOUS
<1>a. z = b0 + 2 * b1 + 4 * b2 + 8 * b3 + 16 * b4 + 32 * b5 + 64 * b6 + 128 * b7
  BY <1>0 DEF EightOf
<1>2. (z \div 1) % 2 = b0
  BY <1>a
<1>3. (z \div 2) % 2 = b1
  BY <1>a
<1>4. (z \div 4) % 2 = b2
  BY <1>a
<1>5. (z \div 8) % 2 = b3
  BY <1>a
<1>6. (z \div 16) % 2 = b4
  BY <1>a
<1>7. (z \div 32) % 2 = b5
  BY <1>a
<1>8. (z \div 64) % 2 = b6
  BY <1>a
<1>9. (z \div 128) % 2 = b7
  BY <1>a
<1> QED
  BY <1>0, <1>2, <1>3, <1>4, <1>5, <1>6, <1>7, <1>8, <1>9 DEF TakenFrom

Octet(on, k) ==
  EightOf(on[8 * k - 7], on[8 * k - 6], on[8 * k - 5], on[8 * k - 4],
          on[8 * k - 3], on[8 * k - 2], on[8 * k - 1], on[8 * k])

LEMMA PlaceOf ==
  ASSUME NEW i \in Nat \ {0}
  PROVE  /\ (i - 1) \div 8 \in Nat /\ (i - 1) % 8 \in 0 .. 7
         /\ (i - 1) % 8 = 0 => i = 8 * ((i - 1) \div 8 + 1) - 7
         /\ (i - 1) % 8 = 1 => i = 8 * ((i - 1) \div 8 + 1) - 6
         /\ (i - 1) % 8 = 2 => i = 8 * ((i - 1) \div 8 + 1) - 5
         /\ (i - 1) % 8 = 3 => i = 8 * ((i - 1) \div 8 + 1) - 4
         /\ (i - 1) % 8 = 4 => i = 8 * ((i - 1) \div 8 + 1) - 3
         /\ (i - 1) % 8 = 5 => i = 8 * ((i - 1) \div 8 + 1) - 2
         /\ (i - 1) % 8 = 6 => i = 8 * ((i - 1) \div 8 + 1) - 1
         /\ (i - 1) % 8 = 7 => i = 8 * ((i - 1) \div 8 + 1)
  OBVIOUS

LEMMA OctetBits ==
  ASSUME NEW on, \A i \in Int : on[i] \in 0 .. 1, NEW k \in Nat
  PROVE  /\ (Octet(on, k) \div 1) % 2 = on[8 * k - 7] /\ (Octet(on, k) \div 2) % 2 = on[8 * k - 6]
         /\ (Octet(on, k) \div 4) % 2 = on[8 * k - 5] /\ (Octet(on, k) \div 8) % 2 = on[8 * k - 4]
         /\ (Octet(on, k) \div 16) % 2 = on[8 * k - 3] /\ (Octet(on, k) \div 32) % 2 = on[8 * k - 2]
         /\ (Octet(on, k) \div 64) % 2 = on[8 * k - 1] /\ (Octet(on, k) \div 128) % 2 = on[8 * k]
<1>1. /\ on[8 * k - 7] \in 0 .. 1 /\ on[8 * k - 6] \in 0 .. 1 /\ on[8 * k - 5] \in 0 .. 1
      /\ on[8 * k - 4] \in 0 .. 1 /\ on[8 * k - 3] \in 0 .. 1 /\ on[8 * k - 2] \in 0 .. 1
      /\ on[8 * k - 1] \in 0 .. 1 /\ on[8 * k] \in 0 .. 1
  OBVIOUS
<1>2. TakenFrom(EightOf(on[8 * k - 7], on[8 * k - 6], on[8 * k - 5], on[8 * k - 4],
                        on[8 * k - 3], on[8 * k - 2], on[8 * k - 1], on[8 * k]),
                on[8 * k - 7], on[8 * k - 6], on[8 * k - 5], on[8 * k - 4],
                on[8 * k - 3], on[8 * k - 2], on[8 * k - 1], on[8 * k])
  BY <1>1, BitsTaken
<1> QED
  BY <1>2 DEF Octet, TakenFrom

LEMMA BitAt ==
  ASSUME NEW on, \A i \in Int : on[i] \in 0 .. 1, NEW i \in Nat \ {0}
  PROVE  (Octet(on, (i - 1) \div 8 + 1) \div PowerOfTwo[(i - 1) % 8]) % 2 = on[i]
<1>1. PICK k : k = (i - 1) \div 8 + 1
  OBVIOUS
<1>2. PICK j : j = (i - 1) % 8
  OBVIOUS
<1>3. k \in Nat /\ j \in 0 .. 7
  BY <1>1, <1>2, PlaceOf
<1>4. CASE j = 0
  <2>1. i = 8 * k - 7
    BY <1>1, <1>2, <1>4, PlaceOf
  <2>2. (Octet(on, k) \div 1) % 2 = on[8 * k - 7]
    BY <1>3, OctetBits
  <2> QED
    BY <1>1, <1>2, <1>4, <2>1, <2>2, SmallPowers
<1>5. CASE j = 1
  <2>1. i = 8 * k - 6
    BY <1>1, <1>2, <1>5, PlaceOf
  <2>2. (Octet(on, k) \div 2) % 2 = on[8 * k - 6]
    BY <1>3, OctetBits
  <2> QED
    BY <1>1, <1>2, <1>5, <2>1, <2>2, SmallPowers
<1>6. CASE j = 2
  <2>1. i = 8 * k - 5
    BY <1>1, <1>2, <1>6, PlaceOf
  <2>2. (Octet(on, k) \div 4) % 2 = on[8 * k - 5]
    BY <1>3, OctetBits
  <2> QED
    BY <1>1, <1>2, <1>6, <2>1, <2>2, SmallPowers
<1>7. CASE j = 3
  <2>1. i = 8 * k - 4
    BY <1>1, <1>2, <1>7, PlaceOf
  <2>2. (Octet(on, k) \div 8) % 2 = on[8 * k - 4]
    BY <1>3, OctetBits
  <2> QED
    BY <1>1, <1>2, <1>7, <2>1, <2>2, SmallPowers
<1>8. CASE j = 4
  <2>1. i = 8 * k - 3
    BY <1>1, <1>2, <1>8, PlaceOf
  <2>2. (Octet(on, k) \div 16) % 2 = on[8 * k - 3]
    BY <1>3, OctetBits
  <2> QED
    BY <1>1, <1>2, <1>8, <2>1, <2>2, SmallPowers
<1>9. CASE j = 5
  <2>1. i = 8 * k - 2
    BY <1>1, <1>2, <1>9, PlaceOf
  <2>2. (Octet(on, k) \div 32) % 2 = on[8 * k - 2]
    BY <1>3, OctetBits
  <2> QED
    BY <1>1, <1>2, <1>9, <2>1, <2>2, SmallPowers
<1>10. CASE j = 6
  <2>1. i = 8 * k - 1
    BY <1>1, <1>2, <1>10, PlaceOf
  <2>2. (Octet(on, k) \div 64) % 2 = on[8 * k - 1]
    BY <1>3, OctetBits
  <2> QED
    BY <1>1, <1>2, <1>10, <2>1, <2>2, SmallPowers
<1>11. CASE j = 7
  <2>1. i = 8 * k
    BY <1>1, <1>2, <1>11, PlaceOf
  <2>2. (Octet(on, k) \div 128) % 2 = on[8 * k]
    BY <1>3, OctetBits
  <2> QED
    BY <1>1, <1>2, <1>11, <2>1, <2>2, SmallPowers
<1> QED
  BY <1>3, <1>4, <1>5, <1>6, <1>7, <1>8, <1>9, <1>10, <1>11

LEMMA OneMoreLeast ==
  ASSUME NEW a \in Nat, NEW b \in Nat, NEW k \in Nat, NEW c, c = a + b, a >= k, b >= 1
  PROVE  c >= k + 1
  OBVIOUS

(* What is in a decimal.                                                   *)
LEMMA DecimalSigns ==
  ASSUME NEW n \in Int
  PROVE  Decimal(n) \in Seq(0 .. 10)
<1> DEFINE m == IF n < 0 THEN -n ELSE n
<1>1. m \in Nat
  OBVIOUS
<1>2. n < 0 => -n = m
  OBVIOUS
<1>3. ~ (n < 0) => n = m
  OBVIOUS
<1> HIDE DEF m
<1>4. PICK u : u = Numeral[m]
  OBVIOUS
<1>5. u \in Seq(0 .. 10)
  <2>1. u \in Seq(Digit)
    BY <1>1, <1>4, NumeralFacts
  <2>2. Digit \subseteq 0 .. 10
    BY DEF Digit
  <2> QED
    BY <2>1, <2>2, SeqMonotonic
<1>6. <<Minus>> \o u \in Seq(0 .. 10)
  <2>1. Minus \in 0 .. 10
    BY DEF Minus
  <2> QED
    BY <1>5, <2>1, OneJoined
<1>7. CASE n < 0
  <2>1. Decimal(n) = <<Minus>> \o u
    BY <1>2, <1>4, <1>7 DEF Decimal
  <2> QED
    BY <1>6, <2>1
<1>8. CASE ~ (n < 0)
  <2>1. Decimal(n) = u
    BY <1>3, <1>4, <1>8 DEF Decimal
  <2> QED
    BY <1>5, <2>1
<1> QED
  BY <1>7, <1>8
=============================================================================
