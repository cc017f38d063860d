--------------------------- MODULE Sublists_proofs ---------------------------
(***************************************************************************)
(* What the proofs of several modules rest on: least elements of sets of   *)
(* numbers, induction and definitions by recursion without an operator as  *)
(* a parameter, and what a sublist is made of.                             *)
(***************************************************************************)
EXTENDS Sublists, SequenceTheorems, FiniteSetTheorems, WellFoundedInduction, TLAPS

Below == {pair \in Nat \X Nat : pair[1] < pair[2]}

LEMMA BelowWellFounded == IsWellFoundedOn(Below, Nat)
  BY NatLessThanWellFounded DEF OpToRel, Below

(* A set of numbers that is not empty has a least one.                       *)
LEMMA LeastExists ==
  ASSUME NEW T \in SUBSET Nat, T # {}
  PROVE  \E x \in T : \A y \in T : x <= y
  <1>1. PICK x \in T : \A y \in T : ~ (<<y, x>> \in Below)
    BY BelowWellFounded, WFMin
  <1>2. \A y \in T : ~ (y < x)
    BY <1>1 DEF Below
  <1> QED BY <1>2

(* Induction: a set of numbers that holds 0 and the successor of each of its *)
(* members holds every number.                                               *)
LEMMA SetInduction ==
  ASSUME NEW T, 0 \in T, \A n \in Nat : n \in T => n + 1 \in T
  PROVE  Nat \subseteq T
  <1> DEFINE U == Nat \ T
  <1>1. SUFFICES ASSUME U # {} PROVE FALSE
    OBVIOUS
  <1>2. PICK x \in U : \A y \in U : x <= y
    BY <1>1, LeastExists
  <1>3. x # 0 /\ x - 1 \in Nat /\ (x - 1) + 1 = x /\ ~ (x <= x - 1)
    OBVIOUS
  <1>4. x - 1 \in T
    BY <1>2, <1>3
  <1> QED BY <1>3, <1>4

(* A definition by recursion: of[x] is given where x is in Z, and elsewhere  *)
(* made from of[q[x]], where q[x] has a smaller measure.  Then there is such *)
(* a function, and its values are of the type S.                             *)
Obeys(of, D, S, Z, z, q, step) ==
  /\ of \in [D -> S]
  /\ \A x \in D : of[x] = IF x \in Z THEN z[x] ELSE step[<<x, of[q[x]]>>]

LEMMA RecursionExists ==
  ASSUME NEW D, NEW S, NEW Z, NEW z \in [D -> S], NEW q \in [D -> D],
         NEW step \in [D \X S -> S], NEW mu \in [D -> Nat],
         \A x \in D : x \notin Z => mu[q[x]] < mu[x]
  PROVE  \E of : Obeys(of, D, S, Z, z, q, step)
  <1> DEFINE Dom(m) == {x \in D : mu[x] < m}
             next(x, f) == IF x \in Z THEN z[x] ELSE step[<<x, f[q[x]]>>]
             Sol(f, m) == f \in [Dom(m) -> S] /\ \A x \in Dom(m) : f[x] = next(x, f)
  <1>1. \A x \in D : mu[x] \in Nat /\ q[x] \in D
    OBVIOUS
  <1>2. ASSUME NEW m \in Nat, NEW x \in D, mu[x] < m + 1, x \notin Z
        PROVE  q[x] \in Dom(m)
    <2>1. mu[q[x]] \in Nat /\ mu[x] \in Nat /\ mu[q[x]] < mu[x]
      BY <1>1, <1>2
    <2> QED BY <1>1, <1>2, <2>1
  (* Two of them agree where both are defined.                               *)
  <1>3. ASSUME NEW m \in Nat, NEW n \in Nat, m <= n,
               NEW f, Sol(f, m), NEW g, Sol(g, n)
        PROVE  \A x \in Dom(m) : f[x] = g[x]
    <2> DEFINE T == {k \in Nat : \E x \in Dom(m) : mu[x] = k /\ f[x] # g[x]}
    <2>1. SUFFICES ASSUME T # {} PROVE FALSE
      BY <1>1
    <2>2. PICK k \in T : \A y \in T : k <= y
      BY <2>1, LeastExists
    <2>3. PICK x \in Dom(m) : mu[x] = k /\ f[x] # g[x]
      BY <2>2
    <2>4. x \in D /\ mu[x] \in Nat /\ mu[x] < m /\ x \in Dom(n)
      BY <1>1, <1>3
    <2>5. f[x] = next(x, f) /\ g[x] = next(x, g)
      BY <1>3, <2>4
    <2>6. x \notin Z
      BY <2>3, <2>5
    <2>7. mu[q[x]] \in Nat /\ mu[q[x]] < k
      BY <1>1, <2>3, <2>4, <2>6
    <2>8. q[x] \in Dom(m) /\ ~ (k <= mu[q[x]])
      BY <1>1, <2>2, <2>3, <2>4, <2>7
    <2>9. f[q[x]] = g[q[x]]
      BY <2>2, <2>7, <2>8
    <2> QED BY <2>3, <2>5, <2>9
  (* For every bound on the measure there is one.                            *)
  <1>4. \A m \in Nat : \E f : Sol(f, m)
    <2> DEFINE T == {m \in Nat : \E f : Sol(f, m)}
    <2>1. 0 \in T
      <3> DEFINE f == [x \in {} |-> 0]
      <3>1. Dom(0) = {}
        BY <1>1
      <3>2. Sol(f, 0)
        BY <3>1
      <3> HIDE DEF f, Sol
      <3> QED BY <3>2
    <2>2. ASSUME NEW m \in Nat, m \in T PROVE m + 1 \in T
      <3>1. PICK f : Sol(f, m)
        BY <2>2
      <3> DEFINE g == [x \in Dom(m + 1) |-> next(x, f)]
      <3>2. \A x \in Dom(m) : x \in D /\ x \in Dom(m + 1)
        BY <1>1
      <3>3. \A x \in Dom(m) : g[x] = f[x]
        BY <3>1, <3>2
      <3>4. ASSUME NEW x \in Dom(m + 1)
            PROVE  next(x, f) = next(x, g) /\ next(x, f) \in S
        <4>1. CASE x \in Z
          BY <4>1
        <4>2. CASE x \notin Z
          <5>1. q[x] \in Dom(m)
            BY <1>2, <4>2
          <5>2. f[q[x]] \in S /\ g[q[x]] = f[q[x]]
            BY <3>1, <3>3, <5>1
          <5> HIDE DEF g
          <5> QED BY <4>2, <5>2
        <4> QED BY <4>1, <4>2
      <3>5. g \in [Dom(m + 1) -> S] /\ \A x \in Dom(m + 1) : g[x] = next(x, f)
        BY <3>4
      <3> HIDE DEF g
      <3>6. Sol(g, m + 1)
        BY <3>4, <3>5
      <3> HIDE DEF Sol
      <3> QED BY <3>6
    <2> HIDE DEF T
    <2>3. Nat \subseteq T
      BY <2>1, <2>2, SetInduction
    <2> QED BY <2>3 DEF T
  <1> DEFINE sol(m) == CHOOSE f : Sol(f, m)
             of == [x \in D |-> sol(mu[x] + 1)[x]]
  <1>5. \A m \in Nat : Sol(sol(m), m)
    <2> HIDE DEF Sol
    <2> QED BY <1>4
  <1> HIDE DEF sol
  <1>6. ASSUME NEW x \in D
        PROVE  /\ mu[x] + 1 \in Nat /\ x \in Dom(mu[x] + 1)
               /\ Sol(sol(mu[x] + 1), mu[x] + 1)
               /\ of[x] = sol(mu[x] + 1)[x]
    <2>1. mu[x] + 1 \in Nat /\ x \in Dom(mu[x] + 1)
      BY <1>1
    <2>2. of[x] = sol(mu[x] + 1)[x]
      OBVIOUS
    <2> HIDE DEF Sol, Dom, of
    <2>3. Sol(sol(mu[x] + 1), mu[x] + 1)
      BY <1>5, <2>1
    <2> QED BY <2>1, <2>2, <2>3
  <1> HIDE DEF of
  <1>7. ASSUME NEW x \in D PROVE of[x] = next(x, of) /\ of[x] \in S
    <2> DEFINE f == sol(mu[x] + 1)
    <2>1. Sol(f, mu[x] + 1) /\ x \in Dom(mu[x] + 1) /\ of[x] = f[x]
      BY <1>6
    <2>2. of[x] = next(x, f) /\ of[x] \in S
      BY <2>1
    <2>3. CASE x \in Z
      BY <2>2, <2>3
    <2>4. CASE x \notin Z
      <3> DEFINE y == q[x]
                 g == sol(mu[y] + 1)
      <3>1. y \in D /\ mu[y] < mu[x] /\ mu[y] \in Nat /\ mu[x] \in Nat
        BY <1>1, <2>4
      <3>2. /\ Sol(g, mu[y] + 1) /\ y \in Dom(mu[y] + 1) /\ of[y] = g[y]
        BY <1>6, <3>1
      <3>3. mu[y] + 1 <= mu[x] + 1 /\ mu[y] + 1 \in Nat /\ mu[x] + 1 \in Nat
        BY <3>1
      <3> HIDE DEF f, g, y, Dom, Sol
      <3>4. g[y] = f[y]
        BY <1>3, <2>1, <3>2, <3>3
      <3> QED BY <2>2, <2>4, <3>2, <3>4 DEF y
    <2> QED BY <2>3, <2>4
  <1>8. of = [x \in D |-> of[x]]
    BY DEF of
  <1>9. of \in [D -> S]
    BY <1>7, <1>8
  <1>10. Obeys(of, D, S, Z, z, q, step)
    BY <1>7, <1>9 DEF Obeys
  <1> QED BY <1>10

(* The same, one number after the other.                                     *)
Steps(of, n, S, first, step) ==
  /\ of \in [0 .. n -> S]
  /\ of[0] = first
  /\ \A k \in 1 .. n : of[k] = step[<<k, of[k - 1]>>]

LEMMA StepsExist ==
  ASSUME NEW n \in Nat, NEW S, NEW first \in S, NEW step \in [(1 .. n) \X S -> S]
  PROVE  \E of : Steps(of, n, S, first, step)
  <1> DEFINE D == 0 .. n
             z == [x \in D |-> first]
             q == [x \in D |-> IF x = 0 THEN 0 ELSE x - 1]
             mu == [x \in D |-> x]
             full == [p \in D \X S |-> IF p[1] = 0 THEN first ELSE step[<<p[1], p[2]>>]]
  <1>1. z \in [D -> S] /\ q \in [D -> D] /\ mu \in [D -> Nat]
    OBVIOUS
  <1>2. full \in [D \X S -> S]
    <2>1. \A k \in D : k # 0 => k \in 1 .. n
      OBVIOUS
    <2>2. \A k \in D, s \in S : (IF k = 0 THEN first ELSE step[<<k, s>>]) \in S
      BY <2>1
    <2> QED BY <2>2
  <1>3. \A x \in D : x \notin {0} => mu[q[x]] < mu[x]
    OBVIOUS
  <1>4. \A k \in 1 .. n : k \in D /\ q[k] = k - 1 /\ k - 1 \in D /\ k # 0
    OBVIOUS
  <1>5. \A k \in 1 .. n, s \in S : full[<<k, s>>] = step[<<k, s>>]
    BY <1>4
  <1>6. z[0] = first /\ 0 \in D
    OBVIOUS
  <1> HIDE DEF D, z, q, mu, full
  <1>7. PICK of : Obeys(of, D, S, {0}, z, q, full)
    BY <1>1, <1>2, <1>3, RecursionExists
  <1>8. of \in [0 .. n -> S]
    BY <1>7 DEF Obeys, D
  <1>9. of[0] = first
    BY <1>6, <1>7 DEF Obeys
  <1>10. ASSUME NEW k \in 1 .. n PROVE of[k] = step[<<k, of[k - 1]>>]
    <2>1. of[k] = full[<<k, of[q[k]]>>]
      BY <1>4, <1>7 DEF Obeys
    <2>2. q[k] = k - 1 /\ of[k - 1] \in S
      BY <1>4, <1>7 DEF Obeys
    <2> QED BY <1>5, <2>1, <2>2
  <1> QED BY <1>8, <1>9, <1>10 DEF Steps

LEMMA PlacesFinite ==
  ASSUME NEW N \in Nat, NEW places \in SUBSET (1 .. N)
  PROVE  /\ IsFiniteSet(places) /\ Cardinality(places) \in Nat
         /\ \A k : Rank(places, k) \in Nat
  <1>1. IsFiniteSet(1 .. N)
    BY FS_Interval
  <1>2. IsFiniteSet(places)
    BY <1>1, FS_Subset
  <1>3. \A k : IsFiniteSet({j \in places : j <= k})
    BY <1>2, FS_Subset
  <1> QED BY <1>2, <1>3, FS_CardinalityType DEF Rank

(* What a function maps a finite set to is finite.                           *)
LEMMA ImageFinite ==
  ASSUME NEW D, IsFiniteSet(D), NEW g, D \subseteq DOMAIN g
  PROVE  IsFiniteSet({g[x] : x \in D})
  <1> DEFINE T == {g[x] : x \in D}
             h == [x \in D |-> g[x]]
  <1>1. h \in Surjection(D, T)
    BY DEF Surjection
  <1> QED BY <1>1, FS_Surjection

(* The n-th place exists: the least number with n places up to it.           *)
LEMMA RankTaken ==
  ASSUME NEW N \in Nat, NEW places \in SUBSET (1 .. N),
         NEW n \in 1 .. Cardinality(places)
  PROVE  \E k \in places : Rank(places, k) = n
  <1> DEFINE Upto(m) == {j \in places : j <= m}
             T == {m \in Nat : Cardinality(Upto(m)) >= n}
  <1>1. \A m : IsFiniteSet(Upto(m)) /\ Cardinality(Upto(m)) \in Nat
    BY PlacesFinite, FS_Subset, FS_CardinalityType
  <1>2. n \in Nat /\ n >= 1 /\ n <= Cardinality(places)
    BY PlacesFinite
  <1>3. \A j \in places : j \in Nat /\ 1 <= j /\ j <= N
    OBVIOUS
  <1>4. Upto(N) = places
    BY <1>3
  <1>5. N \in T
    BY <1>2, <1>4
  <1>6. PICK h \in T : \A y \in T : h <= y
    BY <1>5, LeastExists
  <1>7. h \in Nat /\ Cardinality(Upto(h)) >= n
    OBVIOUS
  <1>8. \A y \in Nat : Cardinality(Upto(y)) >= n => h <= y
    BY <1>6
  <1> HIDE DEF T
  <1>9. h # 0
    <2>1. \A j \in places : ~ (j <= 0)
      BY <1>3
    <2>2. Upto(0) = {}
      BY <2>1
    <2>3. Cardinality(Upto(0)) = 0
      BY <2>2, FS_EmptySet
    <2> QED BY <2>3, <1>2, <1>7
  <1>10. h - 1 \in Nat /\ ~ (h <= h - 1)
    BY <1>7, <1>9
  <1>11. Cardinality(Upto(h - 1)) < n
    <2>1. ~ (Cardinality(Upto(h - 1)) >= n)
      BY <1>10, <1>8
    <2>2. Cardinality(Upto(h - 1)) \in Nat
      BY <1>1
    <2> HIDE DEF Upto
    <2> QED BY <2>1, <2>2, <1>2
  <1>12. \A j \in places : j <= h <=> j <= h - 1 \/ j = h
    BY <1>7, <1>10
  <1>13. h \in places
    <2>1. SUFFICES ASSUME h \notin places PROVE FALSE
      OBVIOUS
    <2>2. Upto(h) = Upto(h - 1)
      BY <2>1, <1>12
    <2> QED BY <2>2, <1>7, <1>11, <1>1, <1>2
  <1>14. Upto(h) = Upto(h - 1) \cup {h} /\ h \notin Upto(h - 1)
    BY <1>12, <1>13, <1>10
  <1>15. Cardinality(Upto(h)) = Cardinality(Upto(h - 1)) + 1
    <2>1. IsFiniteSet(Upto(h - 1))
      BY <1>1
    <2> HIDE DEF Upto
    <2> QED BY <1>14, <2>1, FS_AddElement
  <1>16. Cardinality(Upto(h)) = n
    <2> HIDE DEF Upto
    <2> QED BY <1>7, <1>11, <1>15, <1>1, <1>2
  <1> QED BY <1>13, <1>16 DEF Rank

(* A sublist of a sequence is a sequence of its elements at those places.    *)
LEMMA SublistElements ==
  ASSUME NEW S, NEW s \in Seq(S), NEW places \in SUBSET DOMAIN s
  PROVE  /\ Sublist(s, places) \in Seq(S)
         /\ \A n \in DOMAIN Sublist(s, places) :
              \E k \in places : Sublist(s, places)[n] = s[k]
  <1>1. Len(s) \in Nat /\ DOMAIN s = 1 .. Len(s)
    BY LenProperties
  <1>2. Cardinality(places) \in Nat
    BY <1>1, PlacesFinite
  <1>3. \A n \in 1 .. Cardinality(places) :
          \E k \in places : Sublist(s, places)[n] = s[k]
    <2> SUFFICES ASSUME NEW n \in 1 .. Cardinality(places)
                 PROVE  \E k \in places : Sublist(s, places)[n] = s[k]
      OBVIOUS
    <2> DEFINE c == CHOOSE k \in places : Rank(places, k) = n
    <2>1. c \in places
      BY <1>1, RankTaken
    <2>2. Sublist(s, places)[n] = s[c]
      BY DEF Sublist
    <2> QED BY <2>1, <2>2
  <1>4. DOMAIN Sublist(s, places) = 1 .. Cardinality(places)
    BY DEF Sublist
  <1>5. \A k \in places : s[k] \in S
    BY <1>1, ElementOfSeq
  <1>6. Sublist(s, places) \in [1 .. Cardinality(places) -> S]
    BY <1>3, <1>4, <1>5 DEF Sublist
  <1> QED BY <1>2, <1>3, <1>4, <1>6, SeqDef

(* Later places have higher ranks.                                           *)
LEMMA RankGrows ==
  ASSUME NEW N \in Nat, NEW places \in SUBSET (1 .. N),
         NEW j \in places, NEW k \in places, j < k
  PROVE  Rank(places, j) < Rank(places, k)
  <1> DEFINE Upto(m) == {i \in places : i <= m}
  <1>1. \A m : IsFiniteSet(Upto(m)) /\ Cardinality(Upto(m)) \in Nat
    BY PlacesFinite, FS_Subset, FS_CardinalityType
  <1>2. \A i \in places : i \in Nat
    OBVIOUS
  <1>3. Upto(j) \subseteq Upto(k)
    <2>1. \A i \in places : i <= j => i <= k
      BY <1>2
    <2> QED BY <2>1
  <1>4. k \in Upto(k) /\ k \notin Upto(j)
    BY <1>2
  <1>5. Rank(places, j) = Cardinality(Upto(j)) /\ Rank(places, k) = Cardinality(Upto(k))
    BY DEF Rank
  <1> HIDE DEF Upto
  <1>6. /\ Cardinality(Upto(j)) <= Cardinality(Upto(k))
        /\ Cardinality(Upto(j)) # Cardinality(Upto(k))
    BY <1>1, <1>3, <1>4, FS_Subset
  <1> QED BY <1>1, <1>5, <1>6

(* Every place is taken once.                                                *)
LEMMA SublistPicks ==
  ASSUME NEW S, NEW s \in Seq(S), NEW places \in SUBSET DOMAIN s
  PROVE  /\ \A m, n \in DOMAIN Sublist(s, places) :
              m # n => \E i, j \in places :
                /\ i # j
                /\ Sublist(s, places)[m] = s[i] /\ Sublist(s, places)[n] = s[j]
         /\ \A k \in places : \E n \in DOMAIN Sublist(s, places) : Sublist(s, places)[n] = s[k]
  <1> DEFINE C == Cardinality(places)
             P(n) == CHOOSE k \in places : Rank(places, k) = n
  <1>1. Len(s) \in Nat /\ DOMAIN s = 1 .. Len(s)
    BY LenProperties
  <1>2. /\ IsFiniteSet(places) /\ C \in Nat /\ \A k : Rank(places, k) \in Nat
    BY <1>1, PlacesFinite
  <1>3. \A n \in 1 .. C : P(n) \in places /\ Rank(places, P(n)) = n
    <2> SUFFICES ASSUME NEW n \in 1 .. C PROVE P(n) \in places /\ Rank(places, P(n)) = n
      OBVIOUS
    <2>1. \E k \in places : Rank(places, k) = n
      BY <1>1, RankTaken
    <2> QED BY <2>1
  <1>4. /\ DOMAIN Sublist(s, places) = 1 .. C
        /\ \A n \in 1 .. C : Sublist(s, places)[n] = s[P(n)]
    BY DEF Sublist
  <1> HIDE DEF P
  <1>5. \A m, n \in 1 .. C : m # n => P(m) # P(n)
    BY <1>3
  <1>6. ASSUME NEW k \in places PROVE \E n \in 1 .. C : Sublist(s, places)[n] = s[k]
    <2> DEFINE n == Rank(places, k)
               U == {j \in places : j <= k}
    <2>1. n = Cardinality(U) /\ n \in Nat
      BY <1>2 DEF Rank
    <2>2. IsFiniteSet(U) /\ n <= C
      BY <1>2, <2>1, FS_Subset
    <2>3. n # 0
      <3>1. k \in U
        BY <1>1
      <3> QED BY <2>1, <2>2, <3>1, FS_EmptySet
    <2> HIDE DEF n, U, C
    <2>4. n \in 1 .. C
      BY <1>2, <2>1, <2>2, <2>3
    <2>5. P(n) \in places /\ Rank(places, P(n)) = Rank(places, k)
      BY <1>3, <2>4 DEF n
    <2>6. ~ (P(n) < k) /\ ~ (k < P(n))
      <3>1. ASSUME P(n) < k PROVE FALSE
        <4>1. Rank(places, P(n)) < Rank(places, k)
          BY <1>1, <2>5, <3>1, RankGrows
        <4> QED BY <1>2, <2>5, <4>1
      <3>2. ASSUME k < P(n) PROVE FALSE
        <4>1. Rank(places, k) < Rank(places, P(n))
          BY <1>1, <2>5, <3>2, RankGrows
        <4> QED BY <1>2, <2>5, <4>1
      <3> QED BY <3>1, <3>2
    <2>7. P(n) = k
      BY <1>1, <2>5, <2>6
    <2> QED BY <1>4, <2>4, <2>7
  <1>7. ASSUME NEW m \in 1 .. C, NEW n \in 1 .. C, m # n
        PROVE  \E i, j \in places :
                 /\ i # j
                 /\ Sublist(s, places)[m] = s[i] /\ Sublist(s, places)[n] = s[j]
    BY <1>3, <1>4, <1>5, <1>7
  <1>8. DOMAIN Sublist(s, places) = 1 .. C
    BY <1>4
  <1> DEFINE t == Sublist(s, places)
  <1>9. /\ \A m, n \in 1 .. C : m # n =>
             \E i, j \in places : i # j /\ t[m] = s[i] /\ t[n] = s[j]
        /\ \A k \in places : \E n \in 1 .. C : t[n] = s[k]
    BY <1>6, <1>7
  <1> HIDE DEF C, t
  <1> QED BY <1>8, <1>9 DEF t

=============================================================================
