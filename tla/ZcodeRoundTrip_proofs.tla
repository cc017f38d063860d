----------------------- MODULE ZcodeRoundTrip_proofs ------------------------
(***************************************************************************)
(* The proof that what is decoded from the text of a Zcode is what the     *)
(* text was computed from.                                                 *)
(***************************************************************************)
EXTENDS ZcodeEntry_proofs

-----------------------------------------------------------------------------
(* Beginnings and ends of bits.                                              *)

LEMMA Beginning ==
  ASSUME NEW S, NEW s \in Seq(S), NEW m \in Nat, m <= Len(s)
  PROVE  /\ SubSeq(s, 1, m) \in Seq(S) /\ Len(SubSeq(s, 1, m)) = m
         /\ \A k \in 1 .. m : SubSeq(s, 1, m)[k] = s[k]
  <1> DEFINE c == SubSeq(s, 1, m)
  <1>1. \A k \in 1 .. m : s[k] \in S
    <2>1. \A k \in 1 .. m : k \in 1 .. Len(s)
      BY Digits
    <2> QED BY <2>1, Digits
  <1>2. 1 \in Int /\ m \in Int /\ (1 <= m \/ m = 0)
    OBVIOUS
  <1>3. m - 1 + 1 = m /\ \A k \in 1 .. m : 1 + k - 1 = k
    OBVIOUS
  <1>4. /\ c \in Seq(S)
        /\ Len(c) = IF 1 <= m THEN m - 1 + 1 ELSE 0
        /\ \A k \in 1 .. m - 1 + 1 : c[k] = s[1 + k - 1]
    BY ONLY <1>1, <1>2, SubSeqProperties
  <1> HIDE DEF c
  <1>5. c \in Seq(S) /\ Len(c) = m /\ \A k \in 1 .. m : c[k] = s[k]
    BY <1>2, <1>3, <1>4
  <1> QED BY <1>5 DEF c

LEMMA Ending ==
  ASSUME NEW S, NEW s \in Seq(S), NEW m \in Nat, m <= Len(s)
  PROVE  /\ SubSeq(s, m + 1, Len(s)) \in Seq(S)
         /\ Len(SubSeq(s, m + 1, Len(s))) = Len(s) - m
         /\ \A k \in 1 .. Len(s) - m : SubSeq(s, m + 1, Len(s))[k] = s[m + k]
  <1> DEFINE n == Len(s)
             c == SubSeq(s, m + 1, n)
  <1>1. n \in Nat /\ \A k \in 1 .. n : s[k] \in S
    BY Digits
  <1> HIDE DEF n
  <1>2. \A k \in m + 1 .. n : k \in 1 .. n
    OBVIOUS
  <1>3. m + 1 \in Int /\ n \in Int /\ \A k \in m + 1 .. n : s[k] \in S
    BY <1>1, <1>2
  <1>4. /\ c \in Seq(S)
        /\ Len(c) = IF m + 1 <= n THEN n - (m + 1) + 1 ELSE 0
        /\ \A k \in 1 .. n - (m + 1) + 1 : c[k] = s[m + 1 + k - 1]
    BY ONLY <1>3, SubSeqProperties
  <1> HIDE DEF c
  <1>5. n - (m + 1) + 1 = n - m /\ (m + 1 <= n \/ n - m = 0)
        /\ \A k \in 1 .. n - m : m + 1 + k - 1 = m + k
    BY <1>1 DEF n
  <1>6. c \in Seq(S) /\ Len(c) = n - m /\ \A k \in 1 .. n - m : c[k] = s[m + k]
    BY <1>4, <1>5
  <1> QED BY <1>6 DEF c, n

LEMMA PrefixIs ==
  ASSUME NEW S, NEW a \in Seq(S), NEW b \in Seq(S)
  PROVE  IsPrefix(a, b) <=>
           Len(a) <= Len(b) /\ \A k \in 1 .. Len(a) : a[k] = b[k]
  <1> DEFINE m == Len(a)
             c == SubSeq(a, 1, m)
             d == SubSeq(b, 1, m)
  <1>1. m \in Nat /\ m <= Len(a)
    BY Digits
  <1>2. CASE m <= Len(b)
    <2>1. c \in Seq(S) /\ Len(c) = m /\ \A k \in 1 .. m : c[k] = a[k]
      BY <1>1, Beginning
    <2>2. d \in Seq(S) /\ Len(d) = m /\ \A k \in 1 .. m : d[k] = b[k]
      BY <1>1, <1>2, Beginning
    <2> HIDE DEF c, d
    <2>3. (c = d) <=> \A k \in 1 .. m : a[k] = b[k]
      BY <2>1, <2>2, SeqEqual
    <2> QED BY <1>2, <2>3 DEF IsPrefix, c, d
  <1>3. CASE ~ (m <= Len(b))
    BY <1>3 DEF IsPrefix
  <1> QED BY <1>2, <1>3

LEMMA SuffixIs ==
  ASSUME NEW S, NEW a \in Seq(S), NEW b \in Seq(S)
  PROVE  IsSuffix(a, b) <=>
           Len(a) <= Len(b) /\ \A k \in 1 .. Len(a) : a[k] = b[(Len(b) - Len(a)) + k]
  <1> DEFINE m == Len(a)
             n == Len(b)
             c == Reverse(a)
             d == Reverse(b)
  <1>1. m \in Nat /\ n \in Nat
    BY Digits
  <1>2. c \in Seq(S) /\ d \in Seq(S) /\ Len(c) = m /\ Len(d) = n
    BY ReverseType
  <1>3. c = [i \in 1 .. m |-> a[(m - i) + 1]] /\ d = [i \in 1 .. n |-> b[(n - i) + 1]]
    BY DEF Reverse
  <1>4. IsSuffix(a, b) <=> IsPrefix(c, d)
    BY DEF IsSuffix
  <1> HIDE DEF c, d, m, n
  <1>5. IsPrefix(c, d) <=> m <= n /\ \A k \in 1 .. m : c[k] = d[k]
    <2>1. IsPrefix(c, d) <=> Len(c) <= Len(d) /\ \A k \in 1 .. Len(c) : c[k] = d[k]
      <3>1. \A x, y \in Seq(S) :
              IsPrefix(x, y) <=> Len(x) <= Len(y) /\ \A k \in 1 .. Len(x) : x[k] = y[k]
        BY PrefixIs
      <3> QED BY <1>2, <3>1
    <2> QED BY <1>2, <2>1
  <1>6. ASSUME m <= n
        PROVE  (\A k \in 1 .. m : c[k] = d[k])
                 <=> \A k \in 1 .. m : a[k] = b[(n - m) + k]
    <2>1. \A k \in 1 .. m : /\ (m - k) + 1 \in 1 .. m
                            /\ (m - ((m - k) + 1)) + 1 = k
                            /\ k \in 1 .. n
                            /\ (n - ((m - k) + 1)) + 1 = (n - m) + k
                            /\ (n - k) + 1 = (n - m) + ((m - k) + 1)
                            /\ (m - k) + 1 \in 1 .. n
      BY <1>1, <1>6
    <2>2. \A k \in 1 .. m : /\ c[k] = a[(m - k) + 1]
                            /\ d[k] = b[(n - m) + ((m - k) + 1)]
      BY <1>3, <2>1
    <2>3. \A k \in 1 .. m : /\ c[(m - k) + 1] = a[k]
                            /\ d[(m - k) + 1] = b[(n - m) + k]
      BY <1>3, <2>1
    <2>4. ASSUME \A k \in 1 .. m : c[k] = d[k], NEW k \in 1 .. m
          PROVE  a[k] = b[(n - m) + k]
      <3>1. c[(m - k) + 1] = d[(m - k) + 1]
        BY <2>1, <2>4
      <3> QED BY <2>3, <3>1
    <2>5. ASSUME \A k \in 1 .. m : a[k] = b[(n - m) + k], NEW k \in 1 .. m
          PROVE  c[k] = d[k]
      <3>1. a[(m - k) + 1] = b[(n - m) + ((m - k) + 1)]
        BY <2>1, <2>5
      <3> QED BY <2>2, <3>1
    <2> QED BY <2>4, <2>5
  <1> QED BY <1>4, <1>5, <1>6 DEF m, n

LEMMA PartsOfConcat ==
  ASSUME NEW S, NEW a \in Seq(S), NEW b \in Seq(S)
  PROVE  /\ SubSeq(a \o b, 1, Len(a)) = a
         /\ SubSeq(a \o b, Len(a) + 1, Len(a \o b)) = b
         /\ SubSeq(a \o b, 1, Len(a \o b) - Len(b)) = a
         /\ IsPrefix(a, a \o b)
         /\ IsSuffix(b, a \o b)
  <1> DEFINE c == a \o b
             m == Len(a)
             n == Len(b)
  <1>1. c \in Seq(S) /\ Len(c) = m + n
        /\ \A k \in 1 .. m + n : c[k] = IF k <= m THEN a[k] ELSE b[k - m]
    BY ConcatProperties
  <1>2. m \in Nat /\ n \in Nat
    BY Digits
  <1> HIDE DEF c
  <1>3. m <= Len(c) /\ Len(c) - m = n /\ Len(c) - n = m /\ n <= Len(c)
    BY <1>1, <1>2
  <1> DEFINE d == SubSeq(c, 1, m)
             e == SubSeq(c, m + 1, Len(c))
  <1>4. d \in Seq(S) /\ Len(d) = m /\ \A k \in 1 .. m : d[k] = c[k]
    BY <1>1, <1>2, <1>3, Beginning
  <1>5. e \in Seq(S) /\ Len(e) = Len(c) - m
        /\ \A k \in 1 .. Len(c) - m : e[k] = c[m + k]
    BY <1>1, <1>2, <1>3, Ending
  <1>6. Len(e) = n /\ \A k \in 1 .. n : e[k] = c[m + k]
    BY <1>3, <1>5
  <1>7. \A k \in 1 .. m : c[k] = a[k]
    <2>1. \A k \in 1 .. m : k \in 1 .. m + n /\ k <= m
      BY <1>2
    <2> QED BY <1>1, <2>1
  <1>8. \A k \in 1 .. n : c[m + k] = b[k]
    <2>1. \A k \in 1 .. n : m + k \in 1 .. m + n /\ ~ (m + k <= m) /\ (m + k) - m = k
      BY <1>2
    <2> QED BY <1>1, <2>1
  <1> HIDE DEF d, e
  <1>9. d = a
    BY <1>4, <1>7, SeqEqual DEF m
  <1>10. e = b
    BY <1>5, <1>6, <1>8, SeqEqual DEF n
  <1>11. IsPrefix(a, c)
    BY <1>1, <1>3, <1>7, PrefixIs DEF m
  <1>12. IsSuffix(b, c)
    <2>1. \A k \in 1 .. Len(b) : b[k] = c[(Len(c) - Len(b)) + k]
      BY <1>3, <1>8 DEF n, m
    <2> QED BY <1>1, <1>3, <2>1, SuffixIs DEF n
  <1> QED BY <1>3, <1>9, <1>10, <1>11, <1>12 DEF c, d, e, m, n

-----------------------------------------------------------------------------
(* Flattening.                                                               *)

LEMMA Associative ==
  ASSUME NEW S, NEW a \in Seq(S), NEW b \in Seq(S), NEW c \in Seq(S)
  PROVE  (a \o b) \o c = a \o (b \o c) /\ a \o <<>> = a /\ <<>> \o a = a
         /\ a \o b \in Seq(S) /\ Len(a \o b) = Len(a) + Len(b)
  BY ConcatAssociative, ConcatEmptySeq, ConcatProperties

LEMMA OneElement ==
  ASSUME NEW S, NEW x \in S
  PROVE  <<x>> \in Seq(S) /\ Len(<<x>>) = 1 /\ <<x>>[1] = x
  OBVIOUS

LEMMA HeadAndTail ==
  ASSUME NEW S, NEW s \in Seq(S), s # <<>>
  PROVE  /\ Head(s) \in S /\ Tail(s) \in Seq(S) /\ Len(Tail(s)) = Len(s) - 1
         /\ s = <<Head(s)>> \o Tail(s)
  <1>1. Len(s) \in Nat /\ 1 \in 1 .. Len(s) /\ Len(s) \in 1 .. Len(s)
    BY EmptySeq
  <1>2. SubSeq(s, 1, Len(s)) = <<s[1]>> \o SubSeq(s, 1 + 1, Len(s))
    BY ONLY <1>1, s \in Seq(S), SubSeqRecursiveFirst
  <1>3. SubSeq(s, 1, Len(s)) = s /\ Tail(s) = SubSeq(s, 2, Len(s)) /\ Head(s) = s[1]
        /\ 1 + 1 = 2
    BY SubSeqFull, TailIsSubSeq
  <1> QED BY <1>2, <1>3, HeadTailProperties

LEMMA FrontAndLast ==
  ASSUME NEW S, NEW s \in Seq(S), s # <<>>
  PROVE  Front(s) \in Seq(S) /\ Last(s) \in S /\ s = Front(s) \o <<Last(s)>>
  <1>1. Len(s) \in Nat /\ 1 \in 1 .. Len(s) /\ Len(s) \in 1 .. Len(s)
        /\ Len(s) - 1 \in Nat /\ Len(s) - 1 <= Len(s)
    BY EmptySeq
  <1>2. SubSeq(s, 1, Len(s)) = SubSeq(s, 1, Len(s) - 1) \o <<s[Len(s)]>>
    BY ONLY <1>1, s \in Seq(S), SubSeqRecursiveSecond
  <1>3. SubSeq(s, 1, Len(s)) = s
    BY SubSeqFull
  <1>4. Front(s) \in Seq(S)
    BY <1>1, Beginning DEF Front
  <1>5. Last(s) \in S
    BY <1>1, Digits DEF Last
  <1> QED BY <1>2, <1>3, <1>4, <1>5 DEF Front, Last

LEMMA FlattenConcat ==
  ASSUME NEW S, NEW a \in Seq(Seq(S)), NEW b \in Seq(Seq(S))
  PROVE  FlattenSeq(a \o b) = FlattenSeq(a) \o FlattenSeq(b)
  <1> DEFINE c == a \o b
             m == Len(a)
             n == Len(b)
  <1>1. c \in Seq(Seq(S)) /\ Len(c) = m + n
        /\ \A k \in 1 .. Len(c) : c[k] = IF k <= m THEN a[k] ELSE b[k - m]
    BY ConcatProperties
  <1>2. m \in Nat /\ n \in Nat /\ (\A k \in 1 .. m : a[k] \in Seq(S))
        /\ (\A k \in 1 .. n : b[k] \in Seq(S))
    BY Digits
  <1> HIDE DEF c
  <1>3. PICK f : Flattens(f, a, S) /\ FlattenSeq(a) = f[m]
    BY FlattenSteps
  <1>4. PICK g : Flattens(g, b, S) /\ FlattenSeq(b) = g[n]
    BY FlattenSteps
  <1>5. PICK h : Flattens(h, c, S) /\ FlattenSeq(c) = h[m + n]
    BY <1>1, FlattenSteps
  <1> HIDE DEF m, n
  <1>6. /\ f \in [0 .. m -> Seq(S)] /\ f[0] = <<>>
        /\ \A k \in 1 .. m : f[k] = f[k - 1] \o a[k]
    BY <1>3 DEF Flattens, m
  <1>7. /\ g \in [0 .. n -> Seq(S)] /\ g[0] = <<>>
        /\ \A k \in 1 .. n : g[k] = g[k - 1] \o b[k]
    BY <1>4 DEF Flattens, n
  <1>8. h[0] = <<>> /\ \A k \in 1 .. m + n : h[k] = h[k - 1] \o c[k]
    BY <1>1, <1>5 DEF Flattens
  <1> DEFINE T == {k \in Nat : k <= m => h[k] = f[k]}
  <1>9. 0 \in T
    BY <1>6, <1>8
  <1>10. ASSUME NEW k \in Nat, k \in T PROVE k + 1 \in T
    <2>1. SUFFICES ASSUME k + 1 <= m PROVE h[k + 1] = f[k + 1]
      OBVIOUS
    <2>2. k + 1 \in 1 .. m /\ k + 1 \in 1 .. m + n /\ (k + 1) - 1 = k /\ k <= m
      BY <1>2, <2>1
    <2>3. h[k] = f[k] /\ c[k + 1] = a[k + 1]
      BY <1>1, <1>10, <2>2
    <2> QED BY <1>6, <1>8, <2>2, <2>3
  <1> HIDE DEF T
  <1>11. Nat \subseteq T
    BY <1>9, <1>10, SetInduction
  <1>12. h[m] = f[m]
    <2>1. m \in T /\ m <= m
      BY <1>2, <1>11
    <2> QED BY <2>1 DEF T
  <1>13. f[m] \in Seq(S) /\ f[m] \o <<>> = f[m]
    <2>1. m \in 0 .. m
      BY <1>2
    <2>2. f[m] \in Seq(S)
      BY <1>6, <2>1
    <2> QED BY <2>2, ConcatEmptySeq
  <1> DEFINE U == {k \in Nat : k <= n => h[m + k] = f[m] \o g[k]}
  <1>14. 0 \in U
    <2>1. m + 0 = m
      BY <1>2
    <2> QED BY <1>7, <1>12, <1>13, <2>1
  <1>15. ASSUME NEW k \in Nat, k \in U PROVE k + 1 \in U
    <2>1. SUFFICES ASSUME k + 1 <= n PROVE h[m + (k + 1)] = f[m] \o g[k + 1]
      <3>1. k + 1 \in Nat
        OBVIOUS
      <3> QED BY <3>1
    <2>2. /\ k + 1 \in 1 .. n /\ m + (k + 1) \in 1 .. m + n /\ (m + (k + 1)) - 1 = m + k
          /\ k <= n /\ (k + 1) - 1 = k /\ k \in 0 .. n /\ ~ (m + (k + 1) <= m)
          /\ (m + (k + 1)) - m = k + 1
      BY <1>2, <2>1
    <2>3. c[m + (k + 1)] = b[k + 1] /\ b[k + 1] \in Seq(S)
      BY <1>1, <1>2, <2>2
    <2>4. h[m + k] = f[m] \o g[k]
      BY <1>15, <2>2
    <2>5. h[m + (k + 1)] = (f[m] \o g[k]) \o b[k + 1]
      BY <1>8, <2>2, <2>3, <2>4
    <2>6. g[k + 1] = g[k] \o b[k + 1] /\ g[k] \in Seq(S)
      BY <1>7, <2>2
    <2>7. (f[m] \o g[k]) \o b[k + 1] = f[m] \o (g[k] \o b[k + 1])
      <3> DEFINE x == f[m]
                 y == g[k]
                 z == b[k + 1]
      <3>1. x \in Seq(S) /\ y \in Seq(S) /\ z \in Seq(S)
        BY <1>13, <2>3, <2>6
      <3> HIDE DEF x, y, z
      <3>2. (x \o y) \o z = x \o (y \o z)
        BY <3>1, Associative
      <3> QED BY <3>2 DEF x, y, z
    <2> QED BY <2>5, <2>6, <2>7
  <1> HIDE DEF U
  <1>16. Nat \subseteq U
    BY <1>14, <1>15, SetInduction
  <1>17. h[m + n] = f[m] \o g[n]
    <2>1. n \in U /\ n <= n
      BY <1>2, <1>16
    <2> QED BY <2>1 DEF U
  <1> QED BY <1>3, <1>4, <1>5, <1>17 DEF c

LEMMA FlattenShort ==
  ASSUME NEW S, NEW x \in Seq(S)
  PROVE  FlattenSeq(<<>>) = <<>> /\ FlattenSeq(<<x>>) = x
  <1>1. <<>> \in Seq(Seq(S)) /\ Len(<<>>) = 0
    OBVIOUS
  <1>2. FlattenSeq(<<>>) = <<>>
    <2>1. PICK f : Flattens(f, <<>>, S) /\ FlattenSeq(<<>>) = f[Len(<<>>)]
      BY <1>1, FlattenSteps
    <2> QED BY <1>1, <2>1 DEF Flattens
  <1>3. FlattenSeq(<<x>>) = x
    <2> DEFINE s == <<x>>
    <2>1. s \in Seq(Seq(S)) /\ Len(s) = 1 /\ s[1] = x
      OBVIOUS
    <2> HIDE DEF s
    <2>2. PICK f : Flattens(f, s, S) /\ FlattenSeq(s) = f[1]
      BY <2>1, FlattenSteps
    <2>3. 1 \in 1 .. Len(s) /\ 1 - 1 = 0
      BY <2>1
    <2>4. f[1] = f[0] \o s[1] /\ f[0] = <<>>
      BY <2>2, <2>3 DEF Flattens
    <2>5. f[1] = <<>> \o x
      BY <2>1, <2>4
    <2>6. FlattenSeq(s) = x
      BY <2>2, <2>5, ConcatEmptySeq
    <2> QED BY <2>6 DEF s
  <1> QED BY <1>2, <1>3

-----------------------------------------------------------------------------
(* Words that are written one after the other.                               *)

Written(words) == FlattenSeq([k \in DOMAIN words |-> codes[words[k]]])

LEMMA CodesOfWords ==
  ASSUME NEW words \in Seq(DOMAIN codes)
  PROVE  [k \in DOMAIN words |-> codes[words[k]]] \in Seq(Seq(Bit))
  <1> DEFINE s == [k \in DOMAIN words |-> codes[words[k]]]
  <1>1. Len(words) \in Nat /\ DOMAIN words = 1 .. Len(words)
        /\ \A k \in 1 .. Len(words) : words[k] \in DOMAIN codes
    BY Digits
  <1>2. \A k \in 1 .. Len(words) : codes[words[k]] \in Seq(Bit)
    BY <1>1, CodesAreBits
  <1>3. s \in [1 .. Len(words) -> Seq(Bit)]
    BY <1>1, <1>2
  <1> HIDE DEF s
  <1>4. s \in Seq(Seq(Bit))
    BY <1>1, <1>3
  <1> QED BY <1>4 DEF s

LEMMA WrittenType ==
  ASSUME NEW words \in Seq(DOMAIN codes)
  PROVE  Written(words) \in Seq(Bit)
  BY CodesOfWords, FlattenType DEF Written

LEMMA WrittenConcat ==
  ASSUME NEW a \in Seq(DOMAIN codes), NEW b \in Seq(DOMAIN codes)
  PROVE  Written(a \o b) = Written(a) \o Written(b)
  <1> DEFINE c == a \o b
             s == [k \in DOMAIN a |-> codes[a[k]]]
             t == [k \in DOMAIN b |-> codes[b[k]]]
             u == [k \in DOMAIN c |-> codes[c[k]]]
  <1>1. /\ c \in Seq(DOMAIN codes) /\ Len(c) = Len(a) + Len(b)
        /\ \A k \in 1 .. Len(c) : c[k] = IF k <= Len(a) THEN a[k] ELSE b[k - Len(a)]
    BY ConcatProperties
  <1> HIDE DEF c
  <1>2. /\ Len(a) \in Nat /\ DOMAIN a = 1 .. Len(a)
        /\ Len(b) \in Nat /\ DOMAIN b = 1 .. Len(b) /\ DOMAIN c = 1 .. Len(c)
    BY <1>1, Digits
  <1>3. s \in Seq(Seq(Bit)) /\ t \in Seq(Seq(Bit)) /\ u \in Seq(Seq(Bit))
    BY <1>1, CodesOfWords
  <1>4. Len(s) = Len(a) /\ Len(t) = Len(b) /\ Len(u) = Len(c)
    <2>1. DOMAIN s = 1 .. Len(a) /\ DOMAIN t = 1 .. Len(b) /\ DOMAIN u = 1 .. Len(c)
      BY <1>2
    <2>2. DOMAIN s = 1 .. Len(s) /\ DOMAIN t = 1 .. Len(t) /\ DOMAIN u = 1 .. Len(u)
          /\ Len(s) \in Nat /\ Len(t) \in Nat /\ Len(u) \in Nat
      BY <1>3, Digits
    <2> HIDE DEF s, t, u
    <2> QED BY <1>1, <1>2, <2>1, <2>2
  <1>5. /\ \A k \in 1 .. Len(a) : s[k] = codes[a[k]]
        /\ \A k \in 1 .. Len(b) : t[k] = codes[b[k]]
        /\ \A k \in 1 .. Len(c) : u[k] = codes[c[k]]
    BY <1>2
  <1> HIDE DEF s, t, u
  <1>6. /\ s \o t \in Seq(Seq(Bit)) /\ Len(s \o t) = Len(s) + Len(t)
        /\ \A k \in 1 .. Len(s) + Len(t) :
             (s \o t)[k] = IF k <= Len(s) THEN s[k] ELSE t[k - Len(s)]
    BY <1>3, ConcatProperties
  <1>7. \A k \in 1 .. Len(u) : u[k] = (s \o t)[k]
    <2> SUFFICES ASSUME NEW k \in 1 .. Len(u) PROVE u[k] = (s \o t)[k]
      OBVIOUS
    <2>1. CASE k <= Len(a)
      <3>1. k \in 1 .. Len(a) /\ k \in 1 .. Len(c) /\ k \in 1 .. Len(s) + Len(t)
        BY <1>1, <1>2, <1>4, <2>1
      <3>2. u[k] = codes[a[k]]
        BY <1>1, <1>5, <2>1, <3>1
      <3>3. (s \o t)[k] = codes[a[k]]
        BY <1>4, <1>5, <1>6, <2>1, <3>1
      <3> QED BY <3>2, <3>3
    <2>2. CASE ~ (k <= Len(a))
      <3>1. k - Len(a) \in 1 .. Len(b) /\ k \in 1 .. Len(c) /\ k \in 1 .. Len(s) + Len(t)
        BY <1>1, <1>2, <1>4, <2>2
      <3>2. u[k] = codes[b[k - Len(a)]]
        BY <1>1, <1>5, <2>2, <3>1
      <3>a. (s \o t)[k] = t[k - Len(a)]
        BY <1>4, <1>6, <2>2, <3>1
      <3>3. (s \o t)[k] = codes[b[k - Len(a)]]
        BY <1>5, <3>1, <3>a
      <3> QED BY <3>2, <3>3
    <2> QED BY <2>1, <2>2
  <1>8. u = s \o t
    <2>1. Len(u) = Len(s \o t)
      BY <1>1, <1>4, <1>6
    <2> QED BY <1>3, <1>6, <1>7, <2>1, SeqEqual
  <1>9. FlattenSeq(s \o t) = FlattenSeq(s) \o FlattenSeq(t)
    BY <1>3, FlattenConcat
  <1> QED BY <1>8, <1>9 DEF Written, c, s, t, u

LEMMA WrittenShort ==
  ASSUME NEW word \in DOMAIN codes
  PROVE  Written(<<>>) = <<>> /\ Written(<<word>>) = codes[word]
  <1>1. codes[word] \in Seq(Bit)
    BY CodesAreBits
  <1>2. FlattenSeq(<<>>) = <<>> /\ FlattenSeq(<<codes[word]>>) = codes[word]
    BY <1>1, FlattenShort
  <1>3. [k \in DOMAIN <<>> |-> codes[<<>>[k]]] = <<>>
    OBVIOUS
  <1>4. [k \in DOMAIN <<word>> |-> codes[<<word>>[k]]] = <<codes[word]>>
    OBVIOUS
  <1> QED BY <1>2, <1>3, <1>4 DEF Written

(* What is written of a string is what is coded of it.                       *)
LEMMA StringWritten ==
  ASSUME NEW C, C \cap Controls = {}, NEW data \in Seq(C)
  PROVE  /\ CodedString(data) \in Seq(Plain)
         /\ BitsForString(data) = Written(CodedString(data))
  <1> DEFINE list == trimmed(data)
             n == Len(list)
             coded(k) == IF list[k] \in DOMAIN codes THEN <<list[k]>> ELSE <<>>
             bits(k) == IF list[k] \in DOMAIN codes THEN codes[list[k]] ELSE <<>>
             s == [k \in DOMAIN list |-> coded(k)]
             t == [k \in DOMAIN list |-> bits(k)]
  <1>1. /\ n \in Nat /\ DOMAIN list = 1 .. n
        /\ \A k \in 1 .. n : list[k] \in C
    BY TrimmedType, Digits
  <1>2. CodedString(data) = FlattenSeq(s) /\ BitsForString(data) = FlattenSeq(t)
    BY DEF CodedString, BitsForString
  <1> HIDE DEF n, list
  <1>3. Plain \subseteq DOMAIN codes
    BY DEF Plain
  <1>4. \A k \in 1 .. n : coded(k) \in Seq(Plain) /\ bits(k) \in Seq(Bit)
    <2> SUFFICES ASSUME NEW k \in 1 .. n
                 PROVE coded(k) \in Seq(Plain) /\ bits(k) \in Seq(Bit)
      OBVIOUS
    <2>1. <<>> \in Seq(Plain) /\ <<>> \in Seq(Bit)
      OBVIOUS
    <2>2. ASSUME list[k] \in DOMAIN codes
          PROVE <<list[k]>> \in Seq(Plain) /\ codes[list[k]] \in Seq(Bit)
      <3>1. list[k] \in Plain
        BY <1>1, <2>2 DEF Plain
      <3>2. codes[list[k]] \in Seq(Bit)
        BY <2>2, CodesAreBits
      <3> QED BY <3>1, <3>2
    <2> QED BY <2>1, <2>2
  <1>5. \A k \in 1 .. n : bits(k) = Written(coded(k))
    <2> SUFFICES ASSUME NEW k \in 1 .. n PROVE bits(k) = Written(coded(k))
      OBVIOUS
    <2>1. "ss" \in DOMAIN codes
      BY MarksHaveCodes
    <2>2. Written(<<>>) = <<>>
      BY <2>1, WrittenShort
    <2>3. list[k] \in DOMAIN codes => Written(<<list[k]>>) = codes[list[k]]
      BY WrittenShort
    <2> QED BY <2>2, <2>3
  <1> DEFINE S == Seq(Plain)
             B == Seq(Bit)
  <1>6. s \in [1 .. n -> S] /\ t \in [1 .. n -> B]
    BY <1>1, <1>4
  <1>7. \A k \in 1 .. n : s[k] = coded(k) /\ t[k] = bits(k)
    BY <1>1
  <1> HIDE DEF s, t, coded, bits, S, B
  <1>8. s \in Seq(S) /\ t \in Seq(B) /\ Len(s) = n /\ Len(t) = n
    BY <1>1, <1>6
  <1>9. PICK f : Flattens(f, s, Plain) /\ FlattenSeq(s) = f[n]
    BY <1>8, FlattenSteps DEF S
  <1>10. PICK g : Flattens(g, t, Bit) /\ FlattenSeq(t) = g[n]
    BY <1>8, FlattenSteps DEF B
  <1>11. /\ f \in [0 .. n -> Seq(Plain)] /\ f[0] = <<>>
         /\ \A k \in 1 .. n : f[k] = f[k - 1] \o coded(k)
    BY <1>7, <1>8, <1>9 DEF Flattens
  <1>12. g[0] = <<>> /\ \A k \in 1 .. n : g[k] = g[k - 1] \o bits(k)
    BY <1>7, <1>8, <1>10 DEF Flattens
  <1> DEFINE T == {k \in Nat : k <= n => g[k] = Written(f[k])}
  <1>13. 0 \in T
    <2>1. "ss" \in DOMAIN codes
      BY MarksHaveCodes
    <2>2. Written(<<>>) = <<>>
      BY <2>1, WrittenShort
    <2> QED BY <1>11, <1>12, <2>2
  <1>14. ASSUME NEW k \in Nat, k \in T PROVE k + 1 \in T
    <2>1. SUFFICES ASSUME k + 1 <= n PROVE g[k + 1] = Written(f[k + 1])
      OBVIOUS
    <2>2. k + 1 \in 1 .. n /\ (k + 1) - 1 = k /\ k <= n /\ k \in 0 .. n
      BY <1>1, <2>1
    <2>3. f[k] \in Seq(DOMAIN codes) /\ coded(k + 1) \in Seq(DOMAIN codes)
      <3>1. f[k] \in Seq(Plain) /\ coded(k + 1) \in Seq(Plain)
        BY <1>4, <1>11, <2>2
      <3> QED BY <1>3, <3>1, SeqMonotonic
    <2>4. Written(f[k] \o coded(k + 1)) = Written(f[k]) \o Written(coded(k + 1))
      BY <2>3, WrittenConcat
    <2>5. g[k] = Written(f[k]) /\ bits(k + 1) = Written(coded(k + 1))
      BY <1>5, <1>14, <2>2
    <2>6. f[k + 1] = f[k] \o coded(k + 1) /\ g[k + 1] = g[k] \o bits(k + 1)
      BY <1>11, <1>12, <2>2
    <2> QED BY <2>4, <2>5, <2>6
  <1> HIDE DEF T
  <1>15. Nat \subseteq T
    BY <1>13, <1>14, SetInduction
  <1>16. g[n] = Written(f[n])
    <2>1. n \in T /\ n <= n
      BY <1>1, <1>15
    <2> QED BY <2>1 DEF T
  <1>17. f[n] \in Seq(Plain)
    BY <1>1, <1>11
  <1> QED BY <1>2, <1>9, <1>10, <1>16, <1>17

-----------------------------------------------------------------------------
(* No code is the beginning of another one.                                  *)

FirstSix(bits) ==
  32 * bits[1] + 16 * bits[2] + 8 * bits[3] + 4 * bits[4] + 2 * bits[5] + bits[6]

LEMMA BitsOfNumber ==
  /\ \A n \in 0 .. 63 :
       FirstSix(InBits(n, 6)) = n
  /\ \A n \in 64 .. 127 :
       2 * FirstSix(InBits(n, 7)) + InBits(n, 7)[7] = n
  <1>1. ASSUME NEW n \in 0 .. 63 PROVE FirstSix(InBits(n, 6)) = n
    <2> DEFINE c == InBits(n, 6)
    <2>1. c = [k \in 1 .. 6 |-> (n \div 2 ^ (6 - k)) % 2]
      BY DEF InBits
    <2>2. /\ 6 - 1 = 5 /\ 6 - 2 = 4 /\ 6 - 3 = 3 /\ 6 - 4 = 2 /\ 6 - 5 = 1 /\ 6 - 6 = 0
          /\ 1 \in 1 .. 6 /\ 2 \in 1 .. 6 /\ 3 \in 1 .. 6 /\ 4 \in 1 .. 6 /\ 5 \in 1 .. 6
          /\ 6 \in 1 .. 6
      OBVIOUS
    <2> HIDE DEF c
    <2>3. /\ c[1] = (n \div 2 ^ (6 - 1)) % 2 /\ c[2] = (n \div 2 ^ (6 - 2)) % 2
          /\ c[3] = (n \div 2 ^ (6 - 3)) % 2 /\ c[4] = (n \div 2 ^ (6 - 4)) % 2
          /\ c[5] = (n \div 2 ^ (6 - 5)) % 2 /\ c[6] = (n \div 2 ^ (6 - 6)) % 2
      BY <2>1, <2>2
    <2>4. /\ c[1] = (n \div 32) % 2 /\ c[2] = (n \div 16) % 2 /\ c[3] = (n \div 8) % 2
          /\ c[4] = (n \div 4) % 2 /\ c[5] = (n \div 2) % 2 /\ c[6] = (n \div 1) % 2
      BY <2>2, <2>3, Powers
    <2>5. \A v \in 0 .. 63 :
            32 * ((v \div 32) % 2) + 16 * ((v \div 16) % 2) + 8 * ((v \div 8) % 2)
              + 4 * ((v \div 4) % 2) + 2 * ((v \div 2) % 2) + ((v \div 1) % 2) = v
      OBVIOUS
    <2> QED BY <2>4, <2>5 DEF FirstSix, c
  <1>2. ASSUME NEW n \in 64 .. 127
        PROVE  2 * FirstSix(InBits(n, 7)) + InBits(n, 7)[7] = n
    <2> DEFINE c == InBits(n, 7)
    <2>1. c = [k \in 1 .. 7 |-> (n \div 2 ^ (7 - k)) % 2]
      BY DEF InBits
    <2>2. /\ 7 - 1 = 6 /\ 7 - 2 = 5 /\ 7 - 3 = 4 /\ 7 - 4 = 3 /\ 7 - 5 = 2 /\ 7 - 6 = 1
          /\ 7 - 7 = 0
          /\ 1 \in 1 .. 7 /\ 2 \in 1 .. 7 /\ 3 \in 1 .. 7 /\ 4 \in 1 .. 7 /\ 5 \in 1 .. 7
          /\ 6 \in 1 .. 7 /\ 7 \in 1 .. 7
      OBVIOUS
    <2> HIDE DEF c
    <2>3. /\ c[1] = (n \div 2 ^ (7 - 1)) % 2 /\ c[2] = (n \div 2 ^ (7 - 2)) % 2
          /\ c[3] = (n \div 2 ^ (7 - 3)) % 2 /\ c[4] = (n \div 2 ^ (7 - 4)) % 2
          /\ c[5] = (n \div 2 ^ (7 - 5)) % 2 /\ c[6] = (n \div 2 ^ (7 - 6)) % 2
          /\ c[7] = (n \div 2 ^ (7 - 7)) % 2
      BY <2>1, <2>2
    <2>4. /\ c[1] = (n \div 64) % 2 /\ c[2] = (n \div 32) % 2 /\ c[3] = (n \div 16) % 2
          /\ c[4] = (n \div 8) % 2 /\ c[5] = (n \div 4) % 2 /\ c[6] = (n \div 2) % 2
          /\ c[7] = (n \div 1) % 2
      BY <2>2, <2>3, Powers
    <2>5. \A v \in 64 .. 127 :
            2 * (32 * ((v \div 64) % 2) + 16 * ((v \div 32) % 2) + 8 * ((v \div 16) % 2)
                  + 4 * ((v \div 8) % 2) + 2 * ((v \div 4) % 2) + ((v \div 2) % 2))
              + ((v \div 1) % 2) = v
      OBVIOUS
    <2> QED BY <2>4, <2>5 DEF FirstSix, c
  <1> QED BY <1>1, <1>2

(* Which word a code is can be told from its first six bits, but for a last  *)
(* bit.                                                                      *)
LEMMA PlaceFromBits ==
  ASSUME NEW word \in DOMAIN codes
  PROVE  /\ Place(word) \in 1 .. 50 =>
              Len(codes[word]) = 6 /\ FirstSix(codes[word]) = Place(word) - 1
         /\ Place(word) \in 51 .. 78 =>
              /\ Len(codes[word]) = 7 /\ FirstSix(codes[word]) \in 50 .. 63
              /\ 2 * FirstSix(codes[word]) + codes[word][7] = Place(word) + 49
  <1> DEFINE p == Place(word)
             c == codes[word]
  <1>1. c = IF p <= 50 THEN InBits(p - 1, 6) ELSE InBits(p + 49, 7)
    BY CodeOfWord
  <1>2. c \in Seq(Bit)
    BY CodesAreBits
  <1> HIDE DEF p, c
  <1>3. ASSUME p \in 1 .. 50 PROVE Len(c) = 6 /\ FirstSix(c) = p - 1
    <2>1. c = InBits(p - 1, 6) /\ p - 1 \in 0 .. 63 /\ p - 1 \in Nat /\ 6 \in {6, 7}
      BY <1>1, <1>3
    <2>2. Len(InBits(p - 1, 6)) = 6
      BY ONLY <2>1, InBitsType
    <2>3. FirstSix(InBits(p - 1, 6)) = p - 1
      BY <2>1, BitsOfNumber
    <2> QED BY <2>1, <2>2, <2>3
  <1>4. ASSUME p \in 51 .. 78
        PROVE  Len(c) = 7 /\ FirstSix(c) \in 50 .. 63 /\ 2 * FirstSix(c) + c[7] = p + 49
    <2>1. c = InBits(p + 49, 7) /\ p + 49 \in 64 .. 127 /\ p + 49 \in Nat /\ 7 \in {6, 7}
          /\ p + 49 \in 100 .. 127
      BY <1>1, <1>4
    <2>2. Len(InBits(p + 49, 7)) = 7
      BY ONLY <2>1, InBitsType
    <2>3. 2 * FirstSix(InBits(p + 49, 7)) + InBits(p + 49, 7)[7] = p + 49
      BY ONLY <2>1, BitsOfNumber
    <2>4. Len(c) = 7 /\ 2 * FirstSix(c) + c[7] = p + 49
      BY <2>1, <2>2, <2>3
    <2>5. \A k \in 1 .. 7 : c[k] \in {0, 1}
      BY <1>2, <2>4, Digits DEF Bit
    <2>6. /\ 1 \in 1 .. 7 /\ 2 \in 1 .. 7 /\ 3 \in 1 .. 7 /\ 4 \in 1 .. 7 /\ 5 \in 1 .. 7
          /\ 6 \in 1 .. 7 /\ 7 \in 1 .. 7
      OBVIOUS
    <2>7. c[1] \in {0, 1} /\ c[2] \in {0, 1} /\ c[3] \in {0, 1} /\ c[4] \in {0, 1}
          /\ c[5] \in {0, 1} /\ c[6] \in {0, 1} /\ c[7] \in {0, 1}
      BY <2>5, <2>6
    <2>8. FirstSix(c) \in 0 .. 63
      BY <2>7 DEF FirstSix
    <2>9. \A x \in 0 .. 63, b \in {0, 1}, v \in 100 .. 127 :
            2 * x + b = v => x \in 50 .. 63
      OBVIOUS
    <2>10. FirstSix(c) \in 50 .. 63
      BY <2>1, <2>4, <2>7, <2>8, <2>9
    <2> QED BY <2>4, <2>10
  <1> QED BY <1>3, <1>4 DEF p, c

LEMMA PrefixFree ==
  ASSUME NEW v \in DOMAIN codes, NEW w \in DOMAIN codes, NEW after \in Seq(Bit),
         IsPrefix(codes[v], codes[w] \o after)
  PROVE  v = w
  <1> DEFINE a == codes[v]
             b == codes[w]
             p == Place(v)
             q == Place(w)
             bits == b \o after
  <1>1. /\ p \in 1 .. 78 /\ AllWords[p] = v
        /\ q \in 1 .. 78 /\ AllWords[q] = w
    BY PlaceOfWord
  <1>2. /\ a \in Seq(Bit) /\ Len(a) \in {6, 7}
        /\ b \in Seq(Bit) /\ Len(b) \in {6, 7}
    BY CodesAreBits
  <1>3. /\ p \in 1 .. 50 => Len(a) = 6 /\ FirstSix(a) = p - 1
        /\ p \in 51 .. 78 => /\ Len(a) = 7 /\ FirstSix(a) \in 50 .. 63
                             /\ 2 * FirstSix(a) + a[7] = p + 49
    BY PlaceFromBits
  <1>4. /\ q \in 1 .. 50 => Len(b) = 6 /\ FirstSix(b) = q - 1
        /\ q \in 51 .. 78 => /\ Len(b) = 7 /\ FirstSix(b) \in 50 .. 63
                             /\ 2 * FirstSix(b) + b[7] = q + 49
    BY PlaceFromBits
  <1>5. IsPrefix(a, bits)
    OBVIOUS
  <1> HIDE DEF a, b, p, q
  <1>6. /\ bits \in Seq(Bit)
        /\ \A k \in 1 .. Len(b) + Len(after) :
             bits[k] = IF k <= Len(b) THEN b[k] ELSE after[k - Len(b)]
    BY <1>2, ConcatProperties
  <1>7. Len(after) \in Nat
    BY Digits
  <1> HIDE DEF bits
  <1>8. \A k \in 1 .. Len(a) : a[k] = bits[k]
    BY <1>2, <1>5, <1>6, PrefixIs
  <1>9. \A k \in 1 .. 7 : k <= Len(a) /\ k <= Len(b) => a[k] = b[k]
    <2> SUFFICES ASSUME NEW k \in 1 .. 7, k <= Len(a), k <= Len(b) PROVE a[k] = b[k]
      OBVIOUS
    <2>1. k \in 1 .. Len(a) /\ k \in 1 .. Len(b) + Len(after)
      BY <1>2, <1>7
    <2> QED BY <1>6, <1>8, <2>1
  <1>10. FirstSix(a) = FirstSix(b)
    <2>1. \A k \in 1 .. 6 : k \in 1 .. 7 /\ k <= Len(a) /\ k <= Len(b)
      <3>1. \A l \in {6, 7} : \A k \in 1 .. 6 : k \in 1 .. 7 /\ k <= l
        OBVIOUS
      <3> QED BY <1>2, <3>1
    <2>2. \A k \in 1 .. 6 : a[k] = b[k]
      BY <1>9, <2>1
    <2>3. 1 \in 1 .. 6 /\ 2 \in 1 .. 6 /\ 3 \in 1 .. 6 /\ 4 \in 1 .. 6 /\ 5 \in 1 .. 6
          /\ 6 \in 1 .. 6
      OBVIOUS
    <2>4. a[1] = b[1] /\ a[2] = b[2] /\ a[3] = b[3] /\ a[4] = b[4] /\ a[5] = b[5]
          /\ a[6] = b[6]
      BY <2>2, <2>3
    <2> QED BY <2>4 DEF FirstSix
  <1>11. p = q
    <2>1. CASE p \in 1 .. 50
      <3>1. FirstSix(a) = p - 1 /\ p - 1 \notin 50 .. 63
        BY <1>3, <2>1
      <3>2. q \notin 51 .. 78
        BY <1>4, <1>10, <3>1
      <3>3. q \in 1 .. 50
        BY <1>1, <3>2
      <3>4. p - 1 = q - 1
        BY <1>4, <1>10, <3>1, <3>3
      <3> QED BY <2>1, <3>3, <3>4
    <2>2. CASE p \in 51 .. 78
      <3>1. FirstSix(a) \in 50 .. 63 /\ Len(a) = 7 /\ 2 * FirstSix(a) + a[7] = p + 49
        BY <1>3, <2>2
      <3>2. q \notin 1 .. 50
        <4>1. \A j \in 1 .. 50 : j - 1 \notin 50 .. 63
          OBVIOUS
        <4> QED BY <1>4, <1>10, <3>1, <4>1
      <3>3. q \in 51 .. 78
        BY <1>1, <3>2
      <3>4. Len(b) = 7 /\ 2 * FirstSix(b) + b[7] = q + 49
        BY <1>4, <3>3
      <3>5. a[7] = b[7]
        BY <1>9, <3>1, <3>4
      <3>6. p + 49 = q + 49
        BY <1>10, <3>1, <3>4, <3>5
      <3> QED BY <2>2, <3>3, <3>6
    <2> QED BY <1>1, <2>1, <2>2
  <1> QED BY <1>1, <1>11

(* What is read first of a code and more bits is its word.                   *)
LEMMA FirstWordRead ==
  ASSUME NEW word \in DOMAIN codes, NEW after \in Seq(Bit)
  PROVE  FirstWord(codes[word] \o after) = word /\ After(codes[word] \o after, word) = after
  <1> DEFINE bits == codes[word] \o after
             found == {v \in DOMAIN codes : IsPrefix(codes[v], bits)}
  <1>1. codes[word] \in Seq(Bit)
    BY CodesAreBits
  <1>2. IsPrefix(codes[word], bits) /\ After(bits, word) = after
    BY <1>1, PartsOfConcat DEF After
  <1>3. \A v \in DOMAIN codes : IsPrefix(codes[v], bits) => v = word
    BY PrefixFree
  <1>4. FirstWord(bits) = IF found = {} THEN "" ELSE CHOOSE v \in found : TRUE
    BY DEF FirstWord
  <1> HIDE DEF bits
  <1>5. found = {word}
    BY <1>2, <1>3
  <1>6. FirstWord(bits) = word
    BY <1>4, <1>5
  <1> QED BY <1>2, <1>6 DEF bits

-----------------------------------------------------------------------------
(* What was written is read.                                                 *)

LEMMA NoEmptyWord == "" \notin DOMAIN codes
  <1>1. \A k \in 1 .. 50 : Words6[k] # ""
    <2>1. \A k \in 1 .. 10 : Words6[k] # ""
      <3>1. /\ Words6[1] # "" /\ Words6[2] # "" /\ Words6[3] # "" /\ Words6[4] # "" /\ Words6[5] # ""
            /\ Words6[6] # "" /\ Words6[7] # "" /\ Words6[8] # "" /\ Words6[9] # "" /\ Words6[10] # ""
        BY DEF Words6
      <3>2. \A k \in 1 .. 10 :
              \/ k = 1 \/ k = 2 \/ k = 3 \/ k = 4 \/ k = 5
              \/ k = 6 \/ k = 7 \/ k = 8 \/ k = 9 \/ k = 10
        OBVIOUS
      <3> QED BY <3>1, <3>2
    <2>2. \A k \in 11 .. 20 : Words6[k] # ""
      <3>1. /\ Words6[11] # "" /\ Words6[12] # "" /\ Words6[13] # "" /\ Words6[14] # "" /\ Words6[15] # ""
            /\ Words6[16] # "" /\ Words6[17] # "" /\ Words6[18] # "" /\ Words6[19] # "" /\ Words6[20] # ""
        BY DEF Words6
      <3>2. \A k \in 11 .. 20 :
              \/ k = 11 \/ k = 12 \/ k = 13 \/ k = 14 \/ k = 15
              \/ k = 16 \/ k = 17 \/ k = 18 \/ k = 19 \/ k = 20
        OBVIOUS
      <3> QED BY <3>1, <3>2
    <2>3. \A k \in 21 .. 30 : Words6[k] # ""
      <3>1. /\ Words6[21] # "" /\ Words6[22] # "" /\ Words6[23] # "" /\ Words6[24] # "" /\ Words6[25] # ""
            /\ Words6[26] # "" /\ Words6[27] # "" /\ Words6[28] # "" /\ Words6[29] # "" /\ Words6[30] # ""
        BY DEF Words6
      <3>2. \A k \in 21 .. 30 :
              \/ k = 21 \/ k = 22 \/ k = 23 \/ k = 24 \/ k = 25
              \/ k = 26 \/ k = 27 \/ k = 28 \/ k = 29 \/ k = 30
        OBVIOUS
      <3> QED BY <3>1, <3>2
    <2>4. \A k \in 31 .. 40 : Words6[k] # ""
      <3>1. /\ Words6[31] # "" /\ Words6[32] # "" /\ Words6[33] # "" /\ Words6[34] # "" /\ Words6[35] # ""
            /\ Words6[36] # "" /\ Words6[37] # "" /\ Words6[38] # "" /\ Words6[39] # "" /\ Words6[40] # ""
        BY DEF Words6
      <3>2. \A k \in 31 .. 40 :
              \/ k = 31 \/ k = 32 \/ k = 33 \/ k = 34 \/ k = 35
              \/ k = 36 \/ k = 37 \/ k = 38 \/ k = 39 \/ k = 40
        OBVIOUS
      <3> QED BY <3>1, <3>2
    <2>5. \A k \in 41 .. 50 : Words6[k] # ""
      <3>1. /\ Words6[41] # "" /\ Words6[42] # "" /\ Words6[43] # "" /\ Words6[44] # "" /\ Words6[45] # ""
            /\ Words6[46] # "" /\ Words6[47] # "" /\ Words6[48] # "" /\ Words6[49] # "" /\ Words6[50] # ""
        BY DEF Words6
      <3>2. \A k \in 41 .. 50 :
              \/ k = 41 \/ k = 42 \/ k = 43 \/ k = 44 \/ k = 45
              \/ k = 46 \/ k = 47 \/ k = 48 \/ k = 49 \/ k = 50
        OBVIOUS
      <3> QED BY <3>1, <3>2
    <2>6. \A k \in 1 .. 50 :
            \/ k \in 1 .. 10 \/ k \in 11 .. 20 \/ k \in 21 .. 30 \/ k \in 31 .. 40
            \/ k \in 41 .. 50
      OBVIOUS
    <2> QED BY ONLY <2>1, <2>2, <2>3, <2>4, <2>5, <2>6
  <1>2. \A k \in 1 .. 28 : Words7[k] # ""
    <2>1. \A k \in 1 .. 14 : Words7[k] # ""
      <3>1. /\ Words7[1] # "" /\ Words7[2] # "" /\ Words7[3] # "" /\ Words7[4] # "" /\ Words7[5] # ""
            /\ Words7[6] # "" /\ Words7[7] # "" /\ Words7[8] # "" /\ Words7[9] # "" /\ Words7[10] # ""
            /\ Words7[11] # "" /\ Words7[12] # "" /\ Words7[13] # "" /\ Words7[14] # ""
        BY DEF Words7
      <3>2. \A k \in 1 .. 14 :
              \/ k = 1 \/ k = 2 \/ k = 3 \/ k = 4 \/ k = 5
              \/ k = 6 \/ k = 7 \/ k = 8 \/ k = 9 \/ k = 10
              \/ k = 11 \/ k = 12 \/ k = 13 \/ k = 14
        OBVIOUS
      <3> QED BY <3>1, <3>2
    <2>2. \A k \in 15 .. 28 : Words7[k] # ""
      <3>1. /\ Words7[15] # "" /\ Words7[16] # "" /\ Words7[17] # "" /\ Words7[18] # "" /\ Words7[19] # ""
            /\ Words7[20] # "" /\ Words7[21] # "" /\ Words7[22] # "" /\ Words7[23] # "" /\ Words7[24] # ""
            /\ Words7[25] # "" /\ Words7[26] # "" /\ Words7[27] # "" /\ Words7[28] # ""
        BY DEF Words7
      <3>2. \A k \in 15 .. 28 :
              \/ k = 15 \/ k = 16 \/ k = 17 \/ k = 18 \/ k = 19
              \/ k = 20 \/ k = 21 \/ k = 22 \/ k = 23 \/ k = 24
              \/ k = 25 \/ k = 26 \/ k = 27 \/ k = 28
        OBVIOUS
      <3> QED BY <3>1, <3>2
    <2>3. \A k \in 1 .. 28 : k \in 1 .. 14 \/ k \in 15 .. 28
      OBVIOUS
    <2> QED BY ONLY <2>1, <2>2, <2>3
  <1>3. ASSUME "" \in DOMAIN codes PROVE FALSE
    <2> DEFINE p == Place("")
    <2>1. p \in 1 .. 78 /\ AllWords[p] = ""
      BY <1>3, PlaceOfWord
    <2> HIDE DEF p
    <2>2. CASE p \in 1 .. 50
      <3>1. AllWords[p] = Words6[p]
        BY <2>2, WordsCounted
      <3> QED BY <1>1, <2>1, <2>2, <3>1
    <2>3. CASE p \in 51 .. 78
      <3>1. p - 50 \in 1 .. 28
        BY <2>3
      <3>2. AllWords[p] = Words7[p - 50]
        BY <2>3, WordsCounted
      <3> QED BY <1>2, <2>1, <3>1, <3>2
    <2>4. \A k \in 1 .. 78 : k \in 1 .. 50 \/ k \in 51 .. 78
      OBVIOUS
    <2> QED BY ONLY <2>1, <2>2, <2>3, <2>4
  <1> QED BY <1>3

LEMMA ReadWritten ==
  ASSUME NEW words \in Seq(CodeWords), NEW rest \in Seq(Bit)
  PROVE  ReadWords(Written(words) \o (codes["ss"] \o rest))
           = [words |-> words, rest |-> rest, complete |-> TRUE]
  <1> DEFINE end == codes["ss"] \o rest
             read(v) == ReadWords(Written(v) \o end)
             T == {n \in Nat : \A v \in Seq(CodeWords) : Len(v) = n =>
                     read(v) = [words |-> v, rest |-> rest, complete |-> TRUE]}
  <1>1. "ss" \in DOMAIN codes /\ CodeWords \subseteq DOMAIN codes
    BY MarksHaveCodes DEF CodeWords
  <1>2. end \in Seq(Bit)
    <2>1. codes["ss"] \in Seq(Bit)
      BY <1>1, CodesAreBits
    <2> QED BY <2>1, ConcatProperties
  <1>3. FirstWord(end) = "ss" /\ After(end, "ss") = rest
    BY <1>1, FirstWordRead
  <1> HIDE DEF end
  <1>4. 0 \in T
    <2> SUFFICES ASSUME NEW v \in Seq(CodeWords), Len(v) = 0
                 PROVE read(v) = [words |-> v, rest |-> rest, complete |-> TRUE]
      OBVIOUS
    <2>1. v = <<>>
      BY EmptySeq
    <2>2. Written(<<>>) = <<>>
      BY <1>1, WrittenShort
    <2>3. <<>> \o end = end
      BY <1>2, ConcatEmptySeq
    <2>4. ReadWords(end) = [words |-> <<>>, rest |-> rest, complete |-> TRUE]
      BY <1>2, <1>3, ReadStep
    <2> QED BY <2>1, <2>2, <2>3, <2>4
  <1>5. ASSUME NEW n \in Nat, n \in T PROVE n + 1 \in T
    <2>1. SUFFICES ASSUME NEW v \in Seq(CodeWords), Len(v) = n + 1
                   PROVE read(v) = [words |-> v, rest |-> rest, complete |-> TRUE]
      <3>1. n + 1 \in Nat
        OBVIOUS
      <3> QED BY <3>1
    <2> DEFINE w == Head(v)
               t == Tail(v)
    <2>2. v # <<>>
      <3>1. n + 1 # 0 /\ Len(<<>>) = 0
        OBVIOUS
      <3> QED BY <2>1, <3>1
    <2>3. w \in CodeWords /\ t \in Seq(CodeWords) /\ Len(t) = n
      <3>1. w \in CodeWords /\ t \in Seq(CodeWords) /\ Len(t) = Len(v) - 1
        BY <2>2, HeadAndTail
      <3> QED BY <2>1, <3>1
    <2>4. v = <<w>> \o t
      BY <2>2, HeadAndTail
    <2> HIDE DEF w, t
    <2>5. w \in DOMAIN codes /\ w \notin {"", "ss"} /\ t \in Seq(DOMAIN codes)
          /\ <<w>> \in Seq(DOMAIN codes)
      <3>1. w \in DOMAIN codes /\ w # "ss" /\ w # ""
        BY <2>3, NoEmptyWord DEF CodeWords
      <3>2. t \in Seq(DOMAIN codes)
        BY <1>1, <2>3, SeqMonotonic
      <3>3. <<w>> \in Seq(DOMAIN codes)
        BY <3>1, OneElement
      <3> QED BY ONLY <3>1, <3>2, <3>3
    <2>6. Written(v) = codes[w] \o Written(t)
      <3>1. Written(<<w>> \o t) = Written(<<w>>) \o Written(t)
        BY <2>5, WrittenConcat
      <3>2. Written(<<w>>) = codes[w]
        BY <2>5, WrittenShort
      <3> QED BY <2>4, <3>1, <3>2
    <2> DEFINE after == Written(t) \o end
    <2>7. codes[w] \in Seq(Bit) /\ Written(t) \in Seq(Bit)
      BY <2>5, CodesAreBits, WrittenType
    <2>8. after \in Seq(Bit) /\ Written(v) \o end = codes[w] \o after
      <3> DEFINE a == codes[w]
                 b == Written(t)
      <3>1. a \in Seq(Bit) /\ b \in Seq(Bit)
        BY <2>7
      <3> HIDE DEF a, b
      <3>2. b \o end \in Seq(Bit) /\ (a \o b) \o end = a \o (b \o end)
        BY <1>2, <3>1, ConcatAssociative, ConcatProperties
      <3> QED BY <2>6, <3>2 DEF a, b
    <2>9. ReadWords(after) = [words |-> t, rest |-> rest, complete |-> TRUE]
      BY <1>5, <2>3
    <2> HIDE DEF after
    <2> DEFINE bits == codes[w] \o after
    <2>10. FirstWord(bits) = w /\ After(bits, w) = after
      BY <2>5, <2>8, FirstWordRead
    <2>11. bits \in Seq(Bit)
      BY <2>7, <2>8, ConcatProperties
    <2> HIDE DEF bits
    <2>12. ReadWords(bits) =
             [words |-> <<w>> \o ReadWords(after).words,
              rest |-> ReadWords(after).rest, complete |-> ReadWords(after).complete]
      BY <2>5, <2>10, <2>11, ReadStep
    <2>13. ReadWords(bits) = [words |-> <<w>> \o t, rest |-> rest, complete |-> TRUE]
      BY <2>9, <2>12
    <2> QED BY <2>4, <2>8, <2>13 DEF bits
  <1> HIDE DEF T
  <1>6. Nat \subseteq T
    BY <1>4, <1>5, SetInduction
  <1>7. Len(words) \in T
    BY <1>6, Digits
  <1> QED BY <1>7 DEF T, end

-----------------------------------------------------------------------------
(* What the words say.                                                       *)

Said(s, words) == FoldLeft(DecodeWord, s, words)

LEMMA SaidConcat ==
  ASSUME NEW s \in Decoding, NEW a \in Seq(CodeWords), NEW b \in Seq(CodeWords)
  PROVE  Said(s, a) \in Decoding /\ Said(s, a \o b) = Said(Said(s, a), b)
  <1> DEFINE c == a \o b
             m == Len(a)
             n == Len(b)
  <1>1. c \in Seq(CodeWords) /\ Len(c) = m + n
        /\ \A k \in 1 .. m + n : c[k] = IF k <= m THEN a[k] ELSE b[k - m]
    BY ConcatProperties
  <1>2. m \in Nat /\ n \in Nat
    BY Digits
  <1> HIDE DEF c
  <1>3. PICK f : Decodes(f, s, a) /\ Said(s, a) = f[m]
    BY DecodeSteps DEF Said
  <1> HIDE DEF m, n
  <1>4. /\ f \in [0 .. m -> Decoding] /\ f[0] = s
        /\ \A k \in 1 .. m : f[k] = DecodeWord(f[k - 1], a[k])
    BY <1>3 DEF Decodes, m
  <1>5. f[m] \in Decoding
    <2>1. m \in 0 .. m
      BY <1>2
    <2> QED BY <1>4, <2>1
  <1>6. PICK g : Decodes(g, f[m], b) /\ Said(f[m], b) = g[n]
    BY <1>5, DecodeSteps DEF Said, n
  <1>7. /\ g[0] = f[m]
        /\ \A k \in 1 .. n : g[k] = DecodeWord(g[k - 1], b[k])
    BY <1>6 DEF Decodes, n
  <1>8. PICK h : Decodes(h, s, c) /\ Said(s, c) = h[m + n]
    BY <1>1, DecodeSteps DEF Said
  <1>9. h[0] = s /\ \A k \in 1 .. m + n : h[k] = DecodeWord(h[k - 1], c[k])
    BY <1>1, <1>8 DEF Decodes
  <1> DEFINE T == {k \in Nat : k <= m => h[k] = f[k]}
  <1>10. 0 \in T
    BY <1>4, <1>9
  <1>11. ASSUME NEW k \in Nat, k \in T PROVE k + 1 \in T
    <2>1. SUFFICES ASSUME k + 1 <= m PROVE h[k + 1] = f[k + 1]
      <3>1. k + 1 \in Nat
        OBVIOUS
      <3> QED BY <3>1
    <2>2. k + 1 \in 1 .. m /\ k + 1 \in 1 .. m + n /\ (k + 1) - 1 = k /\ k <= m
      BY <1>2, <2>1
    <2>3. h[k] = f[k] /\ c[k + 1] = a[k + 1]
      BY <1>1, <1>11, <2>2
    <2> QED BY <1>4, <1>9, <2>2, <2>3
  <1> HIDE DEF T
  <1>12. Nat \subseteq T
    BY <1>10, <1>11, SetInduction
  <1>13. h[m] = f[m]
    <2>1. m \in T /\ m <= m
      BY <1>2, <1>12
    <2> QED BY <2>1 DEF T
  <1> DEFINE U == {k \in Nat : k <= n => h[m + k] = g[k]}
  <1>14. 0 \in U
    <2>1. m + 0 = m
      BY <1>2
    <2> QED BY <1>7, <1>13, <2>1
  <1>15. ASSUME NEW k \in Nat, k \in U PROVE k + 1 \in U
    <2>1. SUFFICES ASSUME k + 1 <= n PROVE h[m + (k + 1)] = g[k + 1]
      <3>1. k + 1 \in Nat
        OBVIOUS
      <3> QED BY <3>1
    <2>2. /\ k + 1 \in 1 .. n /\ m + (k + 1) \in 1 .. m + n /\ (m + (k + 1)) - 1 = m + k
          /\ k <= n /\ (k + 1) - 1 = k /\ ~ (m + (k + 1) <= m)
          /\ (m + (k + 1)) - m = k + 1
      BY <1>2, <2>1
    <2>3. c[m + (k + 1)] = b[k + 1]
      BY <1>1, <2>2
    <2>4. h[m + k] = g[k]
      BY <1>15, <2>2
    <2>5. h[m + (k + 1)] = DecodeWord(h[m + k], c[m + (k + 1)])
      BY <1>9, <2>2
    <2>6. g[k + 1] = DecodeWord(g[k], b[k + 1])
      BY <1>7, <2>2
    <2> QED BY <2>3, <2>4, <2>5, <2>6
  <1> HIDE DEF U
  <1>16. Nat \subseteq U
    BY <1>14, <1>15, SetInduction
  <1>17. h[m + n] = g[n]
    <2>1. n \in U /\ n <= n
      BY <1>2, <1>16
    <2> QED BY <2>1 DEF U
  <1> QED BY <1>3, <1>5, <1>6, <1>8, <1>17 DEF c

LEMMA SaidShort ==
  ASSUME NEW s \in Decoding, NEW word \in CodeWords
  PROVE  Said(s, <<>>) = s /\ Said(s, <<word>>) = DecodeWord(s, word)
  <1>1. Said(s, <<>>) = s
    <2>1. <<>> \in Seq(CodeWords) /\ Len(<<>>) = 0
      OBVIOUS
    <2>2. PICK f : Decodes(f, s, <<>>) /\ Said(s, <<>>) = f[Len(<<>>)]
      BY <2>1, DecodeSteps DEF Said
    <2> QED BY <2>1, <2>2 DEF Decodes
  <1>2. Said(s, <<word>>) = DecodeWord(s, word)
    <2> DEFINE v == <<word>>
    <2>1. v \in Seq(CodeWords) /\ Len(v) = 1 /\ v[1] = word
      BY OneElement
    <2> HIDE DEF v
    <2>2. PICK f : Decodes(f, s, v) /\ Said(s, v) = f[Len(v)]
      BY <2>1, DecodeSteps DEF Said
    <2>3. 1 \in 1 .. Len(v) /\ 1 - 1 = 0
      BY <2>1
    <2>4. f[1] = DecodeWord(f[0], v[1]) /\ f[0] = s
      BY <2>2, <2>3 DEF Decodes
    <2> QED BY <2>1, <2>2, <2>4 DEF v
  <1> QED BY <1>1, <1>2

(* After a key the words are added to what is decoded for it.                *)
More(decoded, key, words) ==
  [k \in Keys |-> IF k = key THEN decoded[k] \o words ELSE decoded[k]]

LEMMA PlainWords ==
  /\ Plain \subseteq CodeWords /\ Plain \subseteq DOMAIN codes
  /\ CodeWords \subseteq DOMAIN codes
  /\ \A w \in Plain : w \notin Keys
  BY DEF Plain, CodeWords, Controls

LEMMA DecodingFields ==
  ASSUME NEW s \in Decoding
  PROVE  /\ s.key \in Keys /\ s = [key |-> s.key, decoded |-> s.decoded]
         /\ s.decoded = [k \in Keys |-> s.decoded[k]]
         /\ \E A : \A k \in Keys : s.decoded[k] \in Seq(A)
  BY DEF Decoding

LEMMA SaidPlain ==
  ASSUME NEW s \in Decoding, s.key # "site", NEW c \in Seq(Plain)
  PROVE  Said(s, c) = [key |-> s.key, decoded |-> More(s.decoded, s.key, c)]
  <1> DEFINE key == s.key
             d == s.decoded
             n == Len(c)
             r(k) == [key |-> key, decoded |-> More(d, key, SubSeq(c, 1, k))]
  <1>1. /\ key \in Keys /\ s = [key |-> key, decoded |-> d]
        /\ d = [k \in Keys |-> d[k]] /\ key # "site"
    BY DecodingFields
  <1>2. PICK A : \A k \in Keys : d[k] \in Seq(A)
    BY DecodingFields
  <1>3. c \in Seq(CodeWords)
    BY PlainWords, SeqMonotonic
  <1>4. n \in Nat /\ \A k \in 1 .. n : c[k] \in Plain
    BY Digits
  <1> HIDE DEF n
  <1>5. PICK f : Decodes(f, s, c) /\ Said(s, c) = f[n]
    BY <1>3, DecodeSteps DEF Said, n
  <1>6. /\ f \in [0 .. n -> Decoding] /\ f[0] = s
        /\ \A k \in 1 .. n : f[k] = DecodeWord(f[k - 1], c[k])
    BY <1>5 DEF Decodes, n
  <1> DEFINE T == {k \in Nat : k <= n => f[k] = r(k)}
  <1>7. 0 \in T
    <2>1. SubSeq(c, 1, 0) = <<>>
      BY SubSeqEmpty
    <2>2. \A k \in Keys : d[k] \o <<>> = d[k]
      BY <1>2, ConcatEmptySeq
    <2> HIDE DEF d, key
    <2>3. More(d, key, <<>>) = d
      BY <1>1, <2>2 DEF More
    <2> QED BY <1>1, <1>6, <2>1, <2>3
  <1>8. ASSUME NEW k \in Nat, k \in T PROVE k + 1 \in T
    <2>1. SUFFICES ASSUME k + 1 <= n PROVE f[k + 1] = r(k + 1)
      <3>1. k + 1 \in Nat
        OBVIOUS
      <3> QED BY <3>1
    <2>2. /\ k + 1 \in 1 .. n /\ (k + 1) - 1 = k /\ k <= n /\ k \in 0 .. n
          /\ 1 \in 1 .. n /\ k + 1 \in 1 .. n
      BY <1>4, <2>1
    <2> DEFINE w == c[k + 1]
               v == SubSeq(c, 1, k)
               u == SubSeq(c, 1, k + 1)
    <2>3. w \in Plain /\ w \in CodeWords /\ w \notin Keys
      BY <1>4, <2>2, PlainWords
    <2>4. u = v \o <<w>> /\ v \in Seq(Plain)
      <3>1. 1 \in 1 .. Len(c) /\ k + 1 \in 1 .. Len(c) /\ k \in Nat /\ k <= Len(c)
        BY <2>2 DEF n
      <3>2. SubSeq(c, 1, k + 1) = SubSeq(c, 1, (k + 1) - 1) \o <<c[k + 1]>>
        BY ONLY <3>1, c \in Seq(Plain), SubSeqRecursiveSecond
      <3>3. v \in Seq(Plain)
        BY <3>1, Beginning
      <3> QED BY <2>2, <3>2, <3>3
    <2> HIDE DEF w, v, u
    <2>5. f[k] = [key |-> key, decoded |-> More(d, key, v)] /\ f[k] \in Decoding
      BY <1>6, <1>8, <2>2 DEF v
    <2>6. f[k + 1] = DecodeWord(f[k], w)
      BY <1>6, <2>2 DEF w
    <2> DEFINE t == f[k]
               e == More(d, key, v)
    <2>7. t.key = key /\ t.decoded = e /\ t \in Decoding
      BY <2>5
    <2> HIDE DEF t, e, key, d
    <2>8. DecodeWord(t, w) =
            [key |-> key, decoded |-> [j \in Keys |-> IF j = key THEN e[j] \o Shown(key, w)
                                                      ELSE e[j]]]
      BY <2>3, <2>7, DecodeWordType
    <2>9. Shown(key, w) = <<w>>
      BY <1>1 DEF Shown
    <2>10. \A j \in Keys : e[j] = IF j = key THEN d[j] \o v ELSE d[j]
      BY DEF e, More
    <2>11. (d[key] \o v) \o <<w>> = d[key] \o u
      <3> DEFINE B == A \cup Plain
      <3>1. d[key] \in Seq(B) /\ v \in Seq(B) /\ <<w>> \in Seq(B)
        <4>1. d[key] \in Seq(A) /\ <<w>> \in Seq(Plain) /\ A \subseteq B /\ Plain \subseteq B
          BY <1>1, <1>2, <2>3, OneElement
        <4> HIDE DEF B
        <4> QED BY <2>4, <4>1, SeqMonotonic
      <3> DEFINE x == d[key]
                 z == <<w>>
      <3> HIDE DEF B, x, z
      <3>a. x \in Seq(B) /\ v \in Seq(B) /\ z \in Seq(B)
        BY <3>1 DEF x, z
      <3>2. (x \o v) \o z = x \o (v \o z)
        BY ONLY <3>a, ConcatAssociative
      <3> QED BY <2>4, <3>2 DEF x, z
    <2>12. [j \in Keys |-> IF j = key THEN e[j] \o Shown(key, w) ELSE e[j]] = More(d, key, u)
      BY <2>9, <2>10, <2>11 DEF More
    <2> QED BY <2>6, <2>8, <2>12 DEF t, u
  <1> HIDE DEF T
  <1>9. Nat \subseteq T
    BY <1>7, <1>8, SetInduction
  <1>10. f[n] = r(n)
    <2>1. n \in T /\ n <= n
      BY <1>4, <1>9
    <2> QED BY <2>1 DEF T
  <1>11. SubSeq(c, 1, n) = c
    BY SubSeqFull DEF n
  <1> QED BY <1>5, <1>10, <1>11

(* The words of a field: none, or its key and its characters.                *)
PreWords(type, c) == IF c = <<>> THEN <<>> ELSE <<type>> \o c

LEMMA KeysHaveCodes ==
  ASSUME NEW type \in {"rev", "file", "repo", "site"}
  PROVE  type \in Keys /\ type \in CodeWords /\ type \in DOMAIN codes
  BY MarksHaveCodes DEF Keys, CodeWords

LEMMA PreWordsType ==
  ASSUME NEW type \in {"rev", "file", "repo", "site"}, NEW c \in Seq(Plain)
  PROVE  PreWords(type, c) \in Seq(CodeWords)
  <1>1. <<type>> \in Seq(CodeWords)
    BY KeysHaveCodes, OneElement
  <1>2. c \in Seq(CodeWords) /\ <<>> \in Seq(CodeWords)
    BY PlainWords, SeqMonotonic
  <1>3. <<type>> \o c \in Seq(CodeWords)
    BY <1>1, <1>2, ConcatProperties
  <1> QED BY <1>2, <1>3 DEF PreWords

LEMMA SaidField ==
  ASSUME NEW s \in Decoding, NEW type \in Fields, NEW c \in Seq(Plain)
  PROVE  /\ Said(s, PreWords(type, c)) \in Decoding
         /\ Said(s, PreWords(type, c)).decoded = More(s.decoded, type, c)
  <1> DEFINE d == s.decoded
             t == [key |-> type, decoded |-> d]
  <1>1. type \in Keys /\ type \in CodeWords /\ type # "site"
    BY KeysHaveCodes DEF Fields
  <1>2. d = [k \in Keys |-> d[k]] /\ \E A : \A k \in Keys : d[k] \in Seq(A)
    BY DecodingFields
  <1>3. c \in Seq(CodeWords) /\ <<type>> \in Seq(CodeWords)
    BY <1>1, PlainWords, SeqMonotonic, OneElement
  <1>4. CASE c = <<>>
    <2>1. \A k \in Keys : d[k] \o <<>> = d[k]
      BY <1>2, ConcatEmptySeq
    <2> HIDE DEF d
    <2>2. More(d, type, <<>>) = d
      BY <1>2, <2>1 DEF More
    <2>3. Said(s, <<>>) = s
      BY <1>1, SaidShort
    <2> QED BY <1>4, <2>2, <2>3 DEF PreWords, d
  <1>5. CASE c # <<>>
    <2>1. DecodeWord(s, type) = t /\ DecodeWord(s, type) \in Decoding
      BY <1>1, DecodeWordType
    <2>2. Said(s, <<type>>) = t
      BY <1>1, <2>1, SaidShort
    <2>3. Said(s, <<type>> \o c) = Said(t, c)
      BY <1>3, <2>2, SaidConcat
    <2>4. t \in Decoding /\ t.key = type /\ t.decoded = d
      BY <2>1
    <2> HIDE DEF t, d
    <2>5. Said(t, c) = [key |-> type, decoded |-> More(d, type, c)]
      BY <1>1, <2>4, SaidPlain
    <2>6. Said(t, c) \in Decoding
      BY <1>3, <2>4, SaidConcat
    <2> QED BY <1>5, <2>3, <2>5, <2>6 DEF PreWords, d
  <1> QED BY <1>4, <1>5

(* The digit of a site, which is not the first one.                          *)
LEMMA SiteDigit ==
  ASSUME NEW site \in 2 .. 3
  PROVE  /\ SiteDigits[site] \in Plain
         /\ <<SiteDigits[site]>> \in Seq(Plain)
         /\ rsites(SiteDigits[site]) = IF site = 2 THEN <<"bb">> ELSE <<"gl">>
         /\ CodedString(<<SiteDigits[site]>>) = <<SiteDigits[site]>>
         /\ SiteDigits[site] # "W"
  <1> DEFINE x == SiteDigits[site]
             s == <<x>>
  <1>1. site = 2 \/ site = 3
    OBVIOUS
  <1>2. SiteDigits[2] = "2" /\ SiteDigits[3] = "3"
    BY DEF SiteDigits
  <1>3. x \in {"2", "3"}
    BY <1>1, <1>2
  <1>4. x \in Plain
    <2>1. Words6[17] = "2" /\ Words6[18] = "3" /\ 17 \in 1 .. 50 /\ 18 \in 1 .. 50
      BY DEF Words6
    <2>2. AllWords[17] = "2" /\ AllWords[18] = "3" /\ 17 \in 1 .. 78 /\ 18 \in 1 .. 78
      BY <2>1, WordsCounted
    <2>3. "2" \in DOMAIN codes /\ "3" \in DOMAIN codes
      <3>1. DOMAIN codes = ToSet(AllWords)
        BY DEF codes, AllWords
      <3>2. \A k \in 1 .. 78 : AllWords[k] \in ToSet(AllWords)
        BY WordsCounted DEF ToSet
      <3> QED BY <2>2, <3>1, <3>2
    <2>4. "2" \notin Controls /\ "3" \notin Controls
      BY DEF Controls, Keys
    <2> QED BY <1>3, <2>3, <2>4 DEF Plain
  <1>5. rsites(x) = IF site = 2 THEN <<"bb">> ELSE <<"gl">>
    BY <1>1, <1>2 DEF rsites
  <1>6. x # "W" /\ x \notin Blanks
    BY <1>3 DEF Blanks
  <1> HIDE DEF x
  <1>7. s \in Seq(Plain) /\ Len(s) = 1 /\ s[1] = x /\ DOMAIN s = {1}
    BY <1>4, OneElement
  <1> HIDE DEF s
  <1>8. trimmed(s) = s
    <2> DEFINE solid == {k \in DOMAIN s : s[k] \notin Blanks}
    <2>1. solid = {1}
      BY <1>6, <1>7
    <2> HIDE DEF solid
    <2>2. Min(solid) = 1
      <3>1. \E v \in solid : \A y \in solid : v <= y
        BY <2>1
      <3> QED BY <2>1, <3>1 DEF Min
    <2>3. Max(solid) = 1
      <3>1. \E v \in solid : \A y \in solid : v >= y
        BY <2>1
      <3> QED BY <2>1, <3>1 DEF Max
    <2>4. trimmed(s) = IF solid = {} THEN <<>> ELSE SubSeq(s, Min(solid), Max(solid))
      BY DEF trimmed, solid
    <2>5. SubSeq(s, 1, Len(s)) = s
      BY <1>7, SubSeqFull
    <2> QED BY <1>7, <2>1, <2>2, <2>3, <2>4, <2>5
  <1>9. CodedString(s) = s
    <2> DEFINE coded(k) == IF s[k] \in DOMAIN codes THEN <<s[k]>> ELSE <<>>
               v == [k \in DOMAIN s |-> coded(k)]
    <2>1. coded(1) = <<x>>
      BY <1>4, <1>7, PlainWords
    <2>2. v = <<coded(1)>>
      BY <1>7
    <2>3. CodedString(s) = FlattenSeq(v)
      BY <1>8 DEF CodedString
    <2> HIDE DEF v, coded
    <2>4. <<x>> \in Seq(Plain)
      BY <1>4, OneElement
    <2>5. FlattenSeq(<<(<<x>>)>>) = <<x>>
      BY <2>4, FlattenShort
    <2> QED BY <2>1, <2>2, <2>3, <2>5 DEF s
  <1> QED BY <1>4, <1>5, <1>6, <1>7, <1>9 DEF s, x

SiteWords(site) == IF site = 1 THEN <<>> ELSE PreWords("site", <<SiteDigits[site]>>)

LEMMA SaidSite ==
  ASSUME NEW s \in Decoding, NEW site \in 1 .. 3, s.decoded["site"] = <<>>
  PROVE  /\ \A f \in Fields : Said(s, SiteWords(site)).decoded[f] = s.decoded[f]
         /\ DecodedSite(Said(s, SiteWords(site)).decoded["site"]) = site
  <1> DEFINE d == s.decoded
  <1>1. "site" \in Keys /\ "site" \in CodeWords /\ Fields \subseteq Keys
        /\ "site" \notin Fields
    BY KeysHaveCodes DEF Fields, Keys
  <1>2. CASE site = 1
    <2>1. Said(s, <<>>) = s
      BY <1>1, SaidShort
    <2>2. <<>> # <<"bb">> /\ <<>> # <<"gl">>
      OBVIOUS
    <2>3. DecodedSite(<<>>) = 1
      BY <2>2 DEF DecodedSite
    <2> QED BY <1>2, <2>1, <2>3 DEF SiteWords
  <1>3. CASE site # 1
    <2> DEFINE x == SiteDigits[site]
               t == [key |-> "site", decoded |-> d]
    <2>1. site \in 2 .. 3
      BY <1>3
    <2>2. x \in Plain /\ rsites(x) = IF site = 2 THEN <<"bb">> ELSE <<"gl">>
      BY <2>1, SiteDigit
    <2> HIDE DEF x
    <2>3. x \in CodeWords /\ x \notin Keys
      BY <2>2, PlainWords
    <2>4. DecodeWord(s, "site") = t /\ DecodeWord(s, "site") \in Decoding
      BY <1>1, DecodeWordType
    <2>5. Said(s, <<"site">>) = t
      BY <1>1, <2>4, SaidShort
    <2>6. <<"site">> \in Seq(CodeWords) /\ <<x>> \in Seq(CodeWords)
      BY <1>1, <2>3, OneElement
    <2>7. Said(s, <<"site">> \o <<x>>) = Said(t, <<x>>)
      BY <2>5, <2>6, SaidConcat
    <2>8. t \in Decoding /\ t.key = "site" /\ t.decoded = d
      BY <2>4
    <2> HIDE DEF t, d
    <2>9. Said(t, <<x>>) = DecodeWord(t, x)
      BY <2>3, <2>8, SaidShort
    <2> DEFINE g == [k \in Keys |-> IF k = "site" THEN d[k] \o Shown("site", x) ELSE d[k]]
    <2>10. DecodeWord(t, x) = [key |-> "site", decoded |-> g]
      <3>1. DecodeWord(t, x) =
              [key |-> t.key,
               decoded |-> [k \in Keys |-> IF k = t.key THEN t.decoded[k] \o Shown(t.key, x)
                                           ELSE t.decoded[k]]]
        BY <2>3, <2>8, DecodeWordType
      <3> QED BY <2>8, <3>1
    <2>11. Shown("site", x) = rsites(x)
      BY DEF Shown
    <2>12. SiteWords(site) = <<"site">> \o <<x>>
      <3>1. <<x>> # <<>>
        OBVIOUS
      <3> QED BY <1>3, <3>1 DEF SiteWords, PreWords, x
    <2> DEFINE e == Said(s, SiteWords(site)).decoded
    <2>13. e = g
      <3> HIDE DEF g
      <3> QED BY <2>7, <2>9, <2>10, <2>12
    <2> HIDE DEF e
    <2>14. \A f \in Fields : e[f] = d[f]
      BY <1>1, <2>13
    <2>15. e["site"] = rsites(x)
      <3>1. e["site"] = d["site"] \o rsites(x) /\ d["site"] = <<>>
        BY <1>1, <2>11, <2>13 DEF d
      <3>2. rsites(x) \in Seq({"bb", "gl"})
        <4>1. <<"bb">> \in Seq({"bb", "gl"}) /\ <<"gl">> \in Seq({"bb", "gl"})
          BY OneElement
        <4> QED BY <2>2, <4>1
      <3>3. <<>> \o rsites(x) = rsites(x)
        BY <3>2, ConcatEmptySeq
      <3> QED BY <3>1, <3>3
    <2>16. DecodedSite(rsites(x)) = site
      <3>1. <<"gl">> # <<"bb">>
        <4>1. <<"gl">>[1] = "gl" /\ <<"bb">>[1] = "bb" /\ "gl" # "bb"
          OBVIOUS
        <4> QED BY <4>1
      <3>2. CASE site = 2
        BY <2>2, <3>2 DEF DecodedSite
      <3>3. CASE site = 3
        BY <2>2, <3>1, <3>3 DEF DecodedSite
      <3> QED BY <2>1, <3>2, <3>3
    <2> QED BY <2>14, <2>15, <2>16 DEF e, d
  <1> QED BY <1>2, <1>3

(* The words of the metadata, and what they say.                             *)
MetaWords(c, site) ==
  PreWords("rev", c["rev"])
    \o (PreWords("file", c["file"]) \o (PreWords("repo", c["repo"]) \o SiteWords(site)))

LEMMA SiteWordsType ==
  ASSUME NEW site \in 1 .. 3
  PROVE  SiteWords(site) \in Seq(CodeWords)
  <1>1. CASE site = 1
    BY <1>1 DEF SiteWords
  <1>2. CASE site # 1
    <2>1. site \in 2 .. 3
      BY <1>2
    <2>2. <<SiteDigits[site]>> \in Seq(Plain)
      BY <2>1, SiteDigit
    <2>3. PreWords("site", <<SiteDigits[site]>>) \in Seq(CodeWords)
      BY <2>2, PreWordsType
    <2> QED BY <1>2, <2>3 DEF SiteWords
  <1> QED BY <1>1, <1>2

LEMMA SaidMeta ==
  ASSUME NEW c, \A f \in Fields : c[f] \in Seq(Plain), NEW site \in 1 .. 3
  PROVE  LET d == Said([key |-> "error", decoded |-> NothingDecoded],
                       MetaWords(c, site)).decoded
         IN  /\ MetaWords(c, site) \in Seq(CodeWords)
             /\ \A f \in Fields : d[f] = c[f]
             /\ DecodedSite(d["site"]) = site
  <1> DEFINE s0 == [key |-> "error", decoded |-> NothingDecoded]
             rev == PreWords("rev", c["rev"])
             file == PreWords("file", c["file"])
             repo == PreWords("repo", c["repo"])
             digit == SiteWords(site)
             s1 == Said(s0, rev)
             s2 == Said(s1, file)
             s3 == Said(s2, repo)
             s4 == Said(s3, digit)
  <1>1. /\ "rev" \in Fields /\ "file" \in Fields /\ "repo" \in Fields
        /\ Fields \subseteq Keys /\ "site" \in Keys /\ "site" \notin Fields
        /\ \A f \in Fields : f = "rev" \/ f = "file" \/ f = "repo"
    BY DEF Fields, Keys
  <1>2. c["rev"] \in Seq(Plain) /\ c["file"] \in Seq(Plain) /\ c["repo"] \in Seq(Plain)
    BY <1>1
  <1>3. /\ rev \in Seq(CodeWords) /\ file \in Seq(CodeWords)
        /\ repo \in Seq(CodeWords) /\ digit \in Seq(CodeWords)
    <2>1. rev \in Seq(CodeWords)
      BY <1>2, PreWordsType
    <2>2. file \in Seq(CodeWords)
      BY <1>2, PreWordsType
    <2>3. repo \in Seq(CodeWords)
      BY <1>2, PreWordsType
    <2>4. digit \in Seq(CodeWords)
      BY SiteWordsType
    <2> QED BY ONLY <2>1, <2>2, <2>3, <2>4
  <1>4. s0 \in Decoding /\ s0.decoded = NothingDecoded
    BY NothingDecodedType
  <1> HIDE DEF s0
  <1>5. s1 \in Decoding /\ s1.decoded = More(NothingDecoded, "rev", c["rev"])
    BY <1>1, <1>2, <1>4, SaidField
  <1> HIDE DEF s1
  <1>6. s2 \in Decoding /\ s2.decoded = More(s1.decoded, "file", c["file"])
    BY <1>1, <1>2, <1>5, SaidField
  <1> HIDE DEF s2
  <1>7. s3 \in Decoding /\ s3.decoded = More(s2.decoded, "repo", c["repo"])
    BY <1>1, <1>2, <1>6, SaidField
  <1> HIDE DEF s3
  <1>8. MetaWords(c, site) \in Seq(CodeWords) /\ Said(s0, MetaWords(c, site)) = s4
    <2> HIDE DEF rev, file, repo, digit
    <2>1. repo \o digit \in Seq(CodeWords)
      BY <1>3, ConcatProperties
    <2>2. file \o (repo \o digit) \in Seq(CodeWords)
      BY <1>3, <2>1, ConcatProperties
    <2>3. rev \o (file \o (repo \o digit)) \in Seq(CodeWords)
      BY <1>3, <2>2, ConcatProperties
    <2>4. Said(s0, rev \o (file \o (repo \o digit))) = Said(s1, file \o (repo \o digit))
      BY <1>3, <1>4, <2>2, SaidConcat DEF s1
    <2>5. Said(s1, file \o (repo \o digit)) = Said(s2, repo \o digit)
      BY <1>3, <1>5, <2>1, SaidConcat DEF s2
    <2>6. Said(s2, repo \o digit) = s4
      BY <1>3, <1>6, SaidConcat DEF s3
    <2>7. MetaWords(c, site) = rev \o (file \o (repo \o digit))
      BY DEF MetaWords, rev, file, repo, digit
    <2> QED BY <2>3, <2>4, <2>5, <2>6, <2>7
  <1>9. \A k \in Keys : NothingDecoded[k] = <<>>
    BY DEF NothingDecoded
  <1>10. \A f \in Fields : <<>> \o c[f] = c[f]
    BY ConcatEmptySeq
  <1>11. /\ s3.decoded["rev"] = c["rev"] /\ s3.decoded["file"] = c["file"]
         /\ s3.decoded["repo"] = c["repo"] /\ s3.decoded["site"] = <<>>
    <2>1. "rev" # "file" /\ "rev" # "repo" /\ "file" # "repo"
          /\ "site" # "rev" /\ "site" # "file" /\ "site" # "repo"
      OBVIOUS
    <2>2. /\ s1.decoded["rev"] = c["rev"] /\ s1.decoded["file"] = <<>>
          /\ s1.decoded["repo"] = <<>> /\ s1.decoded["site"] = <<>>
      BY <1>1, <1>5, <1>9, <1>10, <2>1 DEF More
    <2>3. /\ s2.decoded["rev"] = c["rev"] /\ s2.decoded["file"] = c["file"]
          /\ s2.decoded["repo"] = <<>> /\ s2.decoded["site"] = <<>>
      BY <1>1, <1>6, <1>10, <2>1, <2>2 DEF More
    <2> QED BY <1>1, <1>7, <1>10, <2>1, <2>3 DEF More
  <1> HIDE DEF digit
  <1>12. /\ \A f \in Fields : s4.decoded[f] = s3.decoded[f]
         /\ DecodedSite(s4.decoded["site"]) = site
    BY <1>7, <1>11, SaidSite DEF digit
  <1>13. \A f \in Fields : s4.decoded[f] = c[f]
    BY <1>1, <1>11, <1>12
  <1> QED BY <1>8, <1>12, <1>13 DEF s0

-----------------------------------------------------------------------------
(* The mark.                                                                 *)

LEMMA PlaceOfMark == Place("ss") = 41
  <1>1. \A k \in 1 .. 10 : AllWords[k] # "ss"
    <2>1. /\ Words6[1] # "ss" /\ Words6[2] # "ss" /\ Words6[3] # "ss" /\ Words6[4] # "ss"
          /\ Words6[5] # "ss" /\ Words6[6] # "ss" /\ Words6[7] # "ss" /\ Words6[8] # "ss"
          /\ Words6[9] # "ss" /\ Words6[10] # "ss"
      BY DEF Words6
    <2>2. \A k \in 1 .. 10 :
            \/ k = 1 \/ k = 2 \/ k = 3 \/ k = 4
            \/ k = 5 \/ k = 6 \/ k = 7 \/ k = 8
            \/ k = 9 \/ k = 10
      OBVIOUS
    <2>3. \A k \in 1 .. 10 : Words6[k] # "ss"
      BY <2>1, <2>2
    <2> QED BY <2>3, WordsCounted
  <1>2. \A k \in 11 .. 20 : AllWords[k] # "ss"
    <2>1. /\ Words6[11] # "ss" /\ Words6[12] # "ss" /\ Words6[13] # "ss" /\ Words6[14] # "ss"
          /\ Words6[15] # "ss" /\ Words6[16] # "ss" /\ Words6[17] # "ss" /\ Words6[18] # "ss"
          /\ Words6[19] # "ss" /\ Words6[20] # "ss"
      BY DEF Words6
    <2>2. \A k \in 11 .. 20 :
            \/ k = 11 \/ k = 12 \/ k = 13 \/ k = 14
            \/ k = 15 \/ k = 16 \/ k = 17 \/ k = 18
            \/ k = 19 \/ k = 20
      OBVIOUS
    <2>3. \A k \in 11 .. 20 : Words6[k] # "ss"
      BY <2>1, <2>2
    <2> QED BY <2>3, WordsCounted
  <1>3. \A k \in 21 .. 30 : AllWords[k] # "ss"
    <2>1. /\ Words6[21] # "ss" /\ Words6[22] # "ss" /\ Words6[23] # "ss" /\ Words6[24] # "ss"
          /\ Words6[25] # "ss" /\ Words6[26] # "ss" /\ Words6[27] # "ss" /\ Words6[28] # "ss"
          /\ Words6[29] # "ss" /\ Words6[30] # "ss"
      BY DEF Words6
    <2>2. \A k \in 21 .. 30 :
            \/ k = 21 \/ k = 22 \/ k = 23 \/ k = 24
            \/ k = 25 \/ k = 26 \/ k = 27 \/ k = 28
            \/ k = 29 \/ k = 30
      OBVIOUS
    <2>3. \A k \in 21 .. 30 : Words6[k] # "ss"
      BY <2>1, <2>2
    <2> QED BY <2>3, WordsCounted
  <1>4. \A k \in 31 .. 40 : AllWords[k] # "ss"
    <2>1. /\ Words6[31] # "ss" /\ Words6[32] # "ss" /\ Words6[33] # "ss" /\ Words6[34] # "ss"
          /\ Words6[35] # "ss" /\ Words6[36] # "ss" /\ Words6[37] # "ss" /\ Words6[38] # "ss"
          /\ Words6[39] # "ss" /\ Words6[40] # "ss"
      BY DEF Words6
    <2>2. \A k \in 31 .. 40 :
            \/ k = 31 \/ k = 32 \/ k = 33 \/ k = 34
            \/ k = 35 \/ k = 36 \/ k = 37 \/ k = 38
            \/ k = 39 \/ k = 40
      OBVIOUS
    <2>3. \A k \in 31 .. 40 : Words6[k] # "ss"
      BY <2>1, <2>2
    <2> QED BY <2>3, WordsCounted
  <1>5. AllWords[41] = "ss"
    <2>1. Words6[41] = "ss"
      BY DEF Words6
    <2> QED BY <2>1, WordsCounted
  <1> DEFINE p == Place("ss")
  <1>6. p \in 1 .. 78 /\ AllWords[p] = "ss" /\ \A k \in 1 .. 78 : AllWords[k] = "ss" => p <= k
    BY MarksHaveCodes, PlaceOfWord
  <1> HIDE DEF p
  <1>7. p <= 41
    BY <1>5, <1>6
  <1>8. p \notin 1 .. 10 /\ p \notin 11 .. 20 /\ p \notin 21 .. 30 /\ p \notin 31 .. 40
    BY <1>1, <1>2, <1>3, <1>4, <1>6
  <1>9. \A k \in 1 .. 78 : k <= 41 =>
          k \in 1 .. 10 \/ k \in 11 .. 20 \/ k \in 21 .. 30 \/ k \in 31 .. 40 \/ k = 41
    OBVIOUS
  <1>10. p = 41
    BY <1>6, <1>7, <1>8, <1>9
  <1> QED BY <1>10 DEF p

LEMMA MarkBits ==
  /\ codes["ss"] \in Seq(Bit) /\ Len(codes["ss"]) = 6
  /\ codes["ss"][1] = 1 /\ codes["ss"][2] = 0 /\ codes["ss"][3] = 1
  /\ codes["ss"][4] = 0 /\ codes["ss"][5] = 0 /\ codes["ss"][6] = 0
  <1> DEFINE c == codes["ss"]
  <1>1. c = InBits(40, 6)
    <2>1. "ss" \in DOMAIN codes
      BY MarksHaveCodes
    <2>2. 41 <= 50 /\ 41 - 1 = 40
      OBVIOUS
    <2> QED BY <2>1, <2>2, CodeOfWord, PlaceOfMark
  <1> HIDE DEF c
  <1>2. c \in Seq(Bit) /\ Len(c) = 6
    <2>1. 40 \in Nat /\ 6 \in {6, 7}
      OBVIOUS
    <2> QED BY ONLY <1>1, <2>1, InBitsType
  <1>3. c = [k \in 1 .. 6 |-> (40 \div 2 ^ (6 - k)) % 2]
    BY <1>1 DEF InBits
  <1>4. /\ 6 - 1 = 5 /\ 6 - 2 = 4 /\ 6 - 3 = 3 /\ 6 - 4 = 2 /\ 6 - 5 = 1 /\ 6 - 6 = 0
        /\ 1 \in 1 .. 6 /\ 2 \in 1 .. 6 /\ 3 \in 1 .. 6 /\ 4 \in 1 .. 6 /\ 5 \in 1 .. 6
        /\ 6 \in 1 .. 6
    OBVIOUS
  <1>5. /\ c[1] = (40 \div 2 ^ (6 - 1)) % 2 /\ c[2] = (40 \div 2 ^ (6 - 2)) % 2
        /\ c[3] = (40 \div 2 ^ (6 - 3)) % 2 /\ c[4] = (40 \div 2 ^ (6 - 4)) % 2
        /\ c[5] = (40 \div 2 ^ (6 - 5)) % 2 /\ c[6] = (40 \div 2 ^ (6 - 6)) % 2
    BY <1>3, <1>4
  <1>6. /\ c[1] = (40 \div 32) % 2 /\ c[2] = (40 \div 16) % 2 /\ c[3] = (40 \div 8) % 2
        /\ c[4] = (40 \div 4) % 2 /\ c[5] = (40 \div 2) % 2 /\ c[6] = (40 \div 1) % 2
    BY <1>4, <1>5, Powers
  <1>7. /\ (40 \div 32) % 2 = 1 /\ (40 \div 16) % 2 = 0 /\ (40 \div 8) % 2 = 1
        /\ (40 \div 4) % 2 = 0 /\ (40 \div 2) % 2 = 0 /\ (40 \div 1) % 2 = 0
    OBVIOUS
  <1> QED BY <1>2, <1>6, <1>7 DEF c

(* Words that end like a mark: the mark itself, and the letter W.            *)
LEMMA MarkAtEnd ==
  ASSUME NEW word \in CodeWords, NEW before \in Seq(Bit),
         IsSuffix(codes["ss"], before \o codes[word])
  PROVE  word = "W"
  <1> DEFINE s == codes["ss"]
             c == codes[word]
             p == Place(word)
             bits == before \o c
             n == Len(before)
  <1>1. word \in DOMAIN codes /\ word # "ss"
    BY DEF CodeWords
  <1>2. c \in Seq(Bit) /\ Len(c) \in {6, 7}
    BY <1>1, CodesAreBits
  <1>3. p \in 1 .. 78 /\ AllWords[p] = word
    BY <1>1, PlaceOfWord
  <1>4. /\ p \in 1 .. 50 => Len(c) = 6 /\ FirstSix(c) = p - 1
        /\ p \in 51 .. 78 => Len(c) = 7 /\ 2 * FirstSix(c) + c[7] = p + 49
    BY <1>1, PlaceFromBits
  <1>5. /\ s \in Seq(Bit) /\ Len(s) = 6
        /\ s[1] = 1 /\ s[2] = 0 /\ s[3] = 1 /\ s[4] = 0 /\ s[5] = 0 /\ s[6] = 0
    BY MarkBits
  <1>6. IsSuffix(s, bits)
    OBVIOUS
  <1> HIDE DEF s, c, p, n
  <1>7. /\ bits \in Seq(Bit) /\ Len(bits) = n + Len(c)
        /\ \A k \in 1 .. n + Len(c) : bits[k] = IF k <= n THEN before[k] ELSE c[k - n]
    BY <1>2, ConcatProperties DEF n
  <1>8. n \in Nat
    BY Digits DEF n
  <1> HIDE DEF bits
  <1>9. \A k \in 1 .. Len(s) : s[k] = bits[(Len(bits) - Len(s)) + k]
    BY <1>5, <1>6, <1>7, SuffixIs
  <1>10. \A k \in 1 .. 6 : s[k] = c[(Len(c) - 6) + k]
    <2> SUFFICES ASSUME NEW k \in 1 .. 6 PROVE s[k] = c[(Len(c) - 6) + k]
      OBVIOUS
    <2>1. \A l \in {6, 7} :
            /\ ((n + l) - 6) + k \in 1 .. n + l
            /\ ~ (((n + l) - 6) + k <= n)
            /\ (((n + l) - 6) + k) - n = (l - 6) + k
      BY <1>8
    <2>2. s[k] = bits[((n + Len(c)) - 6) + k]
      BY <1>5, <1>7, <1>9
    <2> QED BY <1>2, <1>7, <2>1, <2>2
  <1>11. 1 \in 1 .. 6 /\ 2 \in 1 .. 6 /\ 3 \in 1 .. 6 /\ 4 \in 1 .. 6 /\ 5 \in 1 .. 6
         /\ 6 \in 1 .. 6
    OBVIOUS
  <1>12. CASE p \in 1 .. 50
    <2>1. Len(c) = 6 /\ FirstSix(c) = p - 1
      BY <1>4, <1>12
    <2>2. \A k \in 1 .. 6 : (6 - 6) + k = k
      OBVIOUS
    <2>3. \A k \in 1 .. 6 : s[k] = c[k]
      BY <1>10, <2>1, <2>2
    <2>4. c[1] = 1 /\ c[2] = 0 /\ c[3] = 1 /\ c[4] = 0 /\ c[5] = 0 /\ c[6] = 0
      BY <1>5, <1>11, <2>3
    <2>5. FirstSix(c) = 40
      BY <2>4 DEF FirstSix
    <2>6. p = 41
      BY <1>12, <2>1, <2>5
    <2>7. "ss" \in DOMAIN codes
      BY MarksHaveCodes
    <2>8. AllWords[41] = "ss"
      BY <2>7, PlaceOfMark, PlaceOfWord
    <2> QED BY <1>1, <1>3, <2>6, <2>8
  <1>13. CASE p \in 51 .. 78
    <2>1. Len(c) = 7 /\ 2 * FirstSix(c) + c[7] = p + 49
      BY <1>4, <1>13
    <2>2. \A k \in 1 .. 6 : (7 - 6) + k = k + 1
      OBVIOUS
    <2>3. \A k \in 1 .. 6 : s[k] = c[k + 1]
      BY <1>10, <2>1, <2>2
    <2>4. 1 + 1 = 2 /\ 2 + 1 = 3 /\ 3 + 1 = 4 /\ 4 + 1 = 5 /\ 5 + 1 = 6 /\ 6 + 1 = 7
      OBVIOUS
    <2>5. c[2] = 1 /\ c[3] = 0 /\ c[4] = 1 /\ c[5] = 0 /\ c[6] = 0 /\ c[7] = 0
      BY <1>5, <1>11, <2>3, <2>4
    <2>6. c[1] \in {0, 1}
      <3>1. 1 \in 1 .. Len(c)
        BY <2>1
      <3> QED BY <1>2, <3>1, Digits DEF Bit
    <2>7. 2 * (32 * c[1] + 16 * 1 + 8 * 0 + 4 * 1 + 2 * 0 + 0) + 0 = p + 49
      BY <2>1, <2>5 DEF FirstSix
    <2>8. p = 55
      <3>1. \A b \in {0, 1} : \A j \in 51 .. 78 :
              2 * (32 * b + 16 * 1 + 8 * 0 + 4 * 1 + 2 * 0 + 0) + 0 = j + 49 => j = 55
        OBVIOUS
      <3> QED BY <1>13, <2>6, <2>7, <3>1
    <2>9. AllWords[55] = "W"
      <3>1. Words7[5] = "W" /\ 55 - 50 = 5 /\ 55 \in 51 .. 78
        BY DEF Words7
      <3> QED BY <3>1, WordsCounted
    <2> QED BY <1>3, <2>8, <2>9
  <1>14. \A k \in 1 .. 78 : k \in 1 .. 50 \/ k \in 51 .. 78
    OBVIOUS
  <1> QED BY <1>3, <1>12, <1>13, <1>14

-----------------------------------------------------------------------------
(* The bits of the metadata.                                                 *)

LEMMA WrittenFirst ==
  ASSUME NEW words \in Seq(CodeWords), words # <<>>, NEW rest \in Seq(Bit)
  PROVE  /\ Written(words) \in Seq(Bit) /\ Written(words) # <<>>
         /\ ~ IsPrefix(codes["ss"], Written(words) \o rest)
  <1> DEFINE h == Head(words)
             t == Tail(words)
  <1>1. h \in CodeWords /\ t \in Seq(CodeWords) /\ words = <<h>> \o t
    BY HeadAndTail
  <1> HIDE DEF h, t
  <1>2. h \in DOMAIN codes /\ h # "ss" /\ t \in Seq(DOMAIN codes)
        /\ <<h>> \in Seq(DOMAIN codes)
    <2>1. CodeWords \subseteq DOMAIN codes /\ h # "ss"
      BY <1>1 DEF CodeWords
    <2>2. t \in Seq(DOMAIN codes)
      BY <1>1, <2>1, SeqMonotonic
    <2> QED BY <1>1, <2>1, <2>2, OneElement
  <1> DEFINE x == codes[h]
             y == Written(t)
  <1>3. x \in Seq(Bit) /\ Len(x) \in {6, 7} /\ y \in Seq(Bit)
    BY <1>2, CodesAreBits, WrittenType
  <1>4. Written(words) = x \o y
    <2>1. Written(<<h>> \o t) = Written(<<h>>) \o Written(t)
      BY <1>2, WrittenConcat
    <2>2. Written(<<h>>) = codes[h]
      BY <1>2, WrittenShort
    <2> QED BY <1>1, <2>1, <2>2
  <1> HIDE DEF x, y
  <1>5. x \o y \in Seq(Bit) /\ Len(x \o y) = Len(x) + Len(y) /\ Len(y) \in Nat
    BY <1>3, ConcatProperties
  <1>6. x \o y # <<>>
    <2>1. Len(x) + Len(y) # 0
      <3>1. \A k \in {6, 7}, l \in Nat : k + l # 0
        OBVIOUS
      <3> QED BY ONLY <1>3, <1>5, <3>1
    <2>2. Len(<<>>) = 0
      OBVIOUS
    <2> QED BY <1>5, <2>1, <2>2
  <1>7. (x \o y) \o rest = x \o (y \o rest) /\ y \o rest \in Seq(Bit)
    <2>1. (x \o y) \o rest = x \o (y \o rest)
      BY ONLY <1>3, rest \in Seq(Bit), ConcatAssociative
    <2>2. y \o rest \in Seq(Bit)
      BY ONLY <1>3, rest \in Seq(Bit), ConcatProperties
    <2> QED BY ONLY <2>1, <2>2
  <1>8. ~ IsPrefix(codes["ss"], x \o (y \o rest))
    <2>1. SUFFICES ASSUME IsPrefix(codes["ss"], x \o (y \o rest)) PROVE FALSE
      OBVIOUS
    <2>2. "ss" \in DOMAIN codes
      BY MarksHaveCodes
    <2>3. "ss" = h
      BY <1>2, <1>7, <2>1, <2>2, PrefixFree DEF x
    <2> QED BY <1>2, <2>3
  <1> QED BY <1>4, <1>5, <1>6, <1>7, <1>8

LEMMA PlainSequences ==
  ASSUME NEW words \in Seq(Plain)
  PROVE  words \in Seq(CodeWords) /\ words \in Seq(DOMAIN codes)
  BY PlainWords, SeqMonotonic

LEMMA CodeSequences ==
  ASSUME NEW words \in Seq(CodeWords)
  PROVE  words \in Seq(DOMAIN codes)
  BY PlainWords, SeqMonotonic

LEMMA PreambleWritten ==
  ASSUME NEW C, C \cap Controls = {}, NEW data \in Seq(C),
         NEW type \in {"rev", "file", "repo", "site"}
  PROVE  BitsWithPreamble(type, data) = Written(PreWords(type, CodedString(data)))
  <1> DEFINE c == CodedString(data)
             bits == BitsForString(data)
  <1>1. c \in Seq(Plain) /\ bits = Written(c)
    BY StringWritten
  <1>2. BitsWithPreamble(type, data) = IF bits = <<>> THEN <<>> ELSE codes[type] \o bits
    BY DEF BitsWithPreamble
  <1> HIDE DEF c, bits
  <1>3. type \in DOMAIN codes /\ <<type>> \in Seq(DOMAIN codes)
    BY KeysHaveCodes, OneElement
  <1>4. CASE c = <<>>
    <2>1. bits = <<>>
      BY <1>1, <1>3, <1>4, WrittenShort
    <2>2. PreWords(type, c) = <<>> /\ Written(<<>>) = <<>>
      BY <1>3, <1>4, WrittenShort DEF PreWords
    <2> QED BY <1>2, <2>1, <2>2 DEF c
  <1>5. CASE c # <<>>
    <2>1. bits # <<>>
      <3>1. c \in Seq(CodeWords) /\ <<>> \in Seq(Bit)
        BY <1>1, PlainSequences
      <3> QED BY <1>1, <1>5, <3>1, WrittenFirst
    <2>2. PreWords(type, c) = <<type>> \o c
      BY <1>5 DEF PreWords
    <2>3. Written(<<type>> \o c) = codes[type] \o bits
      <3>1. c \in Seq(DOMAIN codes)
        BY <1>1, PlainSequences
      <3>2. Written(<<type>> \o c) = Written(<<type>>) \o Written(c)
        BY <1>3, <3>1, WrittenConcat
      <3> QED BY <1>1, <1>3, <3>2, WrittenShort
    <2> QED BY <1>2, <2>1, <2>2, <2>3 DEF c
  <1> QED BY <1>4, <1>5

(* Two sequences that are both empty or have the same last element.          *)
SameEnd(a, b) == (a = <<>> <=> b = <<>>) /\ (b # <<>> => Last(a) = Last(b))

LEMMA LastOfConcat ==
  ASSUME NEW S, NEW a \in Seq(S), NEW b \in Seq(S)
  PROVE  /\ b # <<>> => a \o b # <<>> /\ Last(a \o b) = Last(b)
         /\ b = <<>> => a \o b = a
  <1> DEFINE c == a \o b
             m == Len(a)
             n == Len(b)
  <1>1. c \in Seq(S) /\ Len(c) = m + n
        /\ \A k \in 1 .. m + n : c[k] = IF k <= m THEN a[k] ELSE b[k - m]
    BY ConcatProperties
  <1>2. m \in Nat /\ n \in Nat /\ (b # <<>> => n # 0)
    BY Digits, EmptySeq
  <1>3. Last(c) = c[Len(c)] /\ Last(b) = b[n]
    BY DEF Last
  <1>4. b = <<>> => c = a
    BY ConcatEmptySeq
  <1> HIDE DEF c, m, n
  <1>5. ASSUME b # <<>> PROVE c # <<>> /\ Last(c) = Last(b)
    <2>1. m + n \in 1 .. m + n /\ ~ (m + n <= m) /\ (m + n) - m = n /\ m + n # 0
      BY <1>2, <1>5
    <2>2. c[m + n] = b[n]
      BY <1>1, <2>1
    <2>3. Len(<<>>) = 0
      OBVIOUS
    <2>4. c # <<>>
      BY <1>1, <2>1, <2>3
    <2> QED BY <1>1, <1>3, <2>2, <2>4
  <1> QED BY <1>4, <1>5 DEF c

LEMMA SameEndConcat ==
  ASSUME NEW S, NEW a \in Seq(S), NEW b \in Seq(S), NEW c \in Seq(S), NEW d \in Seq(S),
         SameEnd(a, b), SameEnd(c, d)
  PROVE  SameEnd(a \o c, b \o d)
  <1>1. /\ c # <<>> => a \o c # <<>> /\ Last(a \o c) = Last(c)
        /\ c = <<>> => a \o c = a
    BY LastOfConcat
  <1>2. /\ d # <<>> => b \o d # <<>> /\ Last(b \o d) = Last(d)
        /\ d = <<>> => b \o d = b
    BY LastOfConcat
  <1> DEFINE x == a \o c
             y == b \o d
  <1> HIDE DEF x, y
  <1>3. /\ c # <<>> => x # <<>> /\ Last(x) = Last(c)
        /\ c = <<>> => x = a
        /\ d # <<>> => y # <<>> /\ Last(y) = Last(d)
        /\ d = <<>> => y = b
    BY <1>1, <1>2 DEF x, y
  <1>4. /\ a = <<>> <=> b = <<>>
        /\ b # <<>> => Last(a) = Last(b)
        /\ c = <<>> <=> d = <<>>
        /\ d # <<>> => Last(c) = Last(d)
    BY DEF SameEnd
  <1>5. (x = <<>> <=> y = <<>>) /\ (y # <<>> => Last(x) = Last(y))
    <2>1. CASE d = <<>>
      BY <1>3, <1>4, <2>1
    <2>2. CASE d # <<>>
      BY <1>3, <1>4, <2>2
    <2> QED BY <2>1, <2>2
  <1> QED BY <1>5 DEF SameEnd, x, y

LEMMA PreWordsEnd ==
  ASSUME NEW type \in {"rev", "file", "repo", "site"}, NEW c \in Seq(Plain)
  PROVE  SameEnd(PreWords(type, c), c)
  <1>1. CASE c = <<>>
    BY <1>1 DEF PreWords, SameEnd
  <1>2. CASE c # <<>>
    <2>1. <<type>> \in Seq(CodeWords) /\ c \in Seq(CodeWords)
      BY KeysHaveCodes, OneElement, PlainSequences
    <2>2. <<type>> \o c # <<>> /\ Last(<<type>> \o c) = Last(c)
      BY <1>2, <2>1, LastOfConcat
    <2> QED BY <1>2, <2>2 DEF PreWords, SameEnd
  <1> QED BY <1>1, <1>2

LEMMA LastMetaWord ==
  ASSUME NEW meta, \A f \in Fields : Coded(meta)[f] \in Seq(Plain), NEW site \in 1 .. 3,
         MetaWords(Coded(meta), site) # <<>>
  PROVE  Last(MetaWords(Coded(meta), site)) = LastData(meta, site)
  <1> DEFINE c == Coded(meta)
             r == c["rev"]
             f == c["file"]
             o == c["repo"]
             pr == PreWords("rev", r)
             pf == PreWords("file", f)
             po == PreWords("repo", o)
             s == SiteWords(site)
             all == r \o f \o o
  <1>1. MetaWords(c, site) = pr \o (pf \o (po \o s))
    BY DEF MetaWords
  <1>2. LastData(meta, site) = IF site # 1 THEN SiteDigits[site]
                               ELSE IF all = <<>> THEN "" ELSE Last(all)
    BY DEF LastData
  <1>3. r \in Seq(Plain) /\ f \in Seq(Plain) /\ o \in Seq(Plain)
    BY DEF Fields
  <1>4. /\ r \in Seq(CodeWords) /\ f \in Seq(CodeWords) /\ o \in Seq(CodeWords)
        /\ pr \in Seq(CodeWords) /\ pf \in Seq(CodeWords) /\ po \in Seq(CodeWords)
        /\ s \in Seq(CodeWords)
    <2>1. r \in Seq(CodeWords) /\ f \in Seq(CodeWords) /\ o \in Seq(CodeWords)
      BY <1>3, PlainSequences
    <2>2. pr \in Seq(CodeWords)
      BY <1>3, PreWordsType
    <2>3. pf \in Seq(CodeWords)
      BY <1>3, PreWordsType
    <2>4. po \in Seq(CodeWords)
      BY <1>3, PreWordsType
    <2>5. s \in Seq(CodeWords)
      BY SiteWordsType
    <2> QED BY ONLY <2>1, <2>2, <2>3, <2>4, <2>5
  <1>5. SameEnd(pr, r) /\ SameEnd(pf, f) /\ SameEnd(po, o)
    <2>1. SameEnd(pr, r)
      BY <1>3, PreWordsEnd
    <2>2. SameEnd(pf, f)
      BY <1>3, PreWordsEnd
    <2>3. SameEnd(po, o)
      BY <1>3, PreWordsEnd
    <2> QED BY ONLY <2>1, <2>2, <2>3
  <1>6. (site # 1 => s # <<>> /\ Last(s) = SiteDigits[site]) /\ (site = 1 => s = <<>>)
    <2>1. site = 1 => s = <<>>
      BY DEF SiteWords
    <2>2. ASSUME site # 1 PROVE s # <<>> /\ Last(s) = SiteDigits[site]
      <3> DEFINE d == SiteDigits[site]
                 p == PreWords("site", <<d>>)
      <3>1. site \in 2 .. 3
        BY <2>2
      <3>2. <<d>> \in Seq(Plain)
        BY <3>1, SiteDigit
      <3>3. s = p
        BY <2>2 DEF SiteWords
      <3> HIDE DEF d
      <3>4. SameEnd(p, <<d>>)
        BY <3>2, PreWordsEnd
      <3>5. <<d>> # <<>> /\ Last(<<d>>) = d
        BY DEF Last
      <3> HIDE DEF p, s
      <3>6. s # <<>> /\ Last(s) = d
        BY <3>3, <3>4, <3>5 DEF SameEnd
      <3> QED BY <3>6 DEF d
    <2> QED BY <2>1, <2>2
  <1> DEFINE w == pr \o (pf \o (po \o s))
  <1>7. w # <<>>
    BY <1>1
  <1> HIDE DEF c, r, f, o, pr, pf, po, s
  <1>8. CASE site = 1
    <2>1. po \o s = po
      BY <1>4, <1>6, <1>8, ConcatEmptySeq
    <2>2. pf \o po \in Seq(CodeWords) /\ f \o o \in Seq(CodeWords)
      BY <1>4, ConcatProperties
    <2>3. SameEnd(pf \o po, f \o o)
      BY <1>4, <1>5, SameEndConcat
    <2>4. SameEnd(pr \o (pf \o po), r \o (f \o o))
      BY ONLY <1>4, <1>5, <2>2, <2>3, SameEndConcat
    <2>5. all = r \o (f \o o)
      <3>1. r \in Seq(CodeWords) /\ f \in Seq(CodeWords) /\ o \in Seq(CodeWords)
        BY <1>4
      <3> QED BY ONLY <3>1, ConcatAssociative
    <2> HIDE DEF w, all
    <2>6. w = pr \o (pf \o po)
      BY <2>1 DEF w
    <2>7. SameEnd(w, all)
      BY <2>4, <2>5, <2>6
    <2>8. Last(w) = Last(all) /\ all # <<>>
      BY <1>7, <2>7 DEF SameEnd
    <2> QED BY <1>1, <1>2, <1>8, <2>8 DEF w, c
  <1>9. CASE site # 1
    <2> DEFINE x == po \o s
               y == pf \o x
    <2>1. s # <<>> /\ Last(s) = SiteDigits[site]
      BY <1>6, <1>9
    <2>2. x \in Seq(CodeWords) /\ x # <<>> /\ Last(x) = Last(s)
      BY <1>4, <2>1, LastOfConcat, ConcatProperties
    <2> HIDE DEF x
    <2>3. y \in Seq(CodeWords) /\ y # <<>> /\ Last(y) = Last(x)
      BY <1>4, <2>2, LastOfConcat, ConcatProperties
    <2> HIDE DEF y
    <2>4. Last(pr \o y) = Last(y)
      BY <1>4, <2>3, LastOfConcat
    <2>5. w = pr \o y
      BY DEF x, y
    <2> HIDE DEF w
    <2>6. Last(w) = SiteDigits[site]
      BY <2>1, <2>2, <2>3, <2>4, <2>5
    <2> QED BY <1>1, <1>2, <1>9, <2>6 DEF w, c
  <1> QED BY <1>8, <1>9

Joined(u, v) == u \o v

LEMMA Joining ==
  ASSUME NEW S
  PROVE  \A u, v, w \in Seq(S) : /\ Joined(u, v) \in Seq(S)
                                 /\ Joined(Joined(u, v), w) = Joined(u, Joined(v, w))
  <1> SUFFICES ASSUME NEW u \in Seq(S), NEW v \in Seq(S), NEW w \in Seq(S)
               PROVE  /\ Joined(u, v) \in Seq(S)
                      /\ Joined(Joined(u, v), w) = Joined(u, Joined(v, w))
    OBVIOUS
  <1>1. u \o v \in Seq(S) /\ (u \o v) \o w = u \o (v \o w)
    BY Associative
  <1> QED BY <1>1 DEF Joined

LEMMA Regrouped ==
  ASSUME NEW S, NEW s \in Seq(S), NEW a \in Seq(S), NEW b \in Seq(S), NEW c \in Seq(S),
         NEW d \in Seq(S)
  PROVE  /\ s \o a \o b \o c \o d \o s = (s \o (a \o (b \o (c \o d)))) \o s
         /\ a \o (b \o (c \o d)) \in Seq(S)
  <1>1. \A u, v, w \in Seq(S) : /\ Joined(u, v) \in Seq(S)
                                /\ Joined(Joined(u, v), w) = Joined(u, Joined(v, w))
    BY Joining
  <1>2. Joined(c, d) \in Seq(S) /\ Joined(s, a) \in Seq(S)
    BY <1>1
  <1>3. Joined(b, Joined(c, d)) \in Seq(S) /\ Joined(Joined(s, a), b) \in Seq(S)
    BY <1>1, <1>2
  <1>4. Joined(a, Joined(b, Joined(c, d))) \in Seq(S)
    BY <1>1, <1>3
  <1>5. Joined(Joined(Joined(Joined(s, a), b), c), d) = Joined(Joined(Joined(s, a), b), Joined(c, d))
    BY <1>1, <1>3
  <1>6. Joined(Joined(Joined(s, a), b), Joined(c, d)) = Joined(Joined(s, a), Joined(b, Joined(c, d)))
    BY <1>1, <1>2
  <1>7. Joined(Joined(s, a), Joined(b, Joined(c, d))) = Joined(s, Joined(a, Joined(b, Joined(c, d))))
    BY <1>1, <1>3
  <1>8. Joined(Joined(Joined(Joined(Joined(s, a), b), c), d), s)
          = Joined(Joined(s, Joined(a, Joined(b, Joined(c, d)))), s)
    BY <1>5, <1>6, <1>7
  <1> QED BY <1>4, <1>8 DEF Joined

LEMMA CodedPlain ==
  ASSUME NEW C, C \cap Controls = {}, NEW meta, \A f \in Fields : meta[f] \in Seq(C)
  PROVE  \A f \in Fields : Coded(meta)[f] \in Seq(Plain)
                           /\ Coded(meta)[f] = CodedString(meta[f])
  <1> SUFFICES ASSUME NEW f \in Fields
               PROVE  Coded(meta)[f] \in Seq(Plain) /\ Coded(meta)[f] = CodedString(meta[f])
    OBVIOUS
  <1>1. Coded(meta)[f] = CodedString(meta[f])
    BY DEF Coded
  <1>2. CodedString(meta[f]) \in Seq(Plain)
    BY StringWritten
  <1> QED BY <1>1, <1>2

LEMMA SiteWritten ==
  ASSUME NEW site \in 1 .. 3
  PROVE  (IF site = 1 THEN <<>> ELSE BitsWithPreamble("site", <<SiteDigits[site]>>))
           = Written(SiteWords(site))
  <1>1. CASE site = 1
    <2>1. "ss" \in DOMAIN codes
      BY MarksHaveCodes
    <2>2. Written(<<>>) = <<>>
      BY <2>1, WrittenShort
    <2> QED BY <1>1, <2>2 DEF SiteWords
  <1>2. CASE site # 1
    <2> DEFINE d == SiteDigits[site]
    <2>1. site \in 2 .. 3
      BY <1>2
    <2>2. d \in Plain /\ CodedString(<<d>>) = <<d>>
      BY <2>1, SiteDigit
    <2> HIDE DEF d
    <2>3. {d} \cap Controls = {} /\ <<d>> \in Seq({d})
      <3>1. {d} \cap Controls = {}
        BY <2>2 DEF Plain
      <3>2. <<d>> \in Seq({d})
        OBVIOUS
      <3> QED BY <3>1, <3>2
    <2>4. BitsWithPreamble("site", <<d>>) = Written(PreWords("site", <<d>>))
      <3>1. BitsWithPreamble("site", <<d>>)
              = Written(PreWords("site", CodedString(<<d>>)))
        BY <2>3, PreambleWritten
      <3> QED BY <2>2, <3>1
    <2> QED BY <1>2, <2>4 DEF SiteWords, d
  <1> QED BY <1>1, <1>2

LEMMA MetaWordsWritten ==
  ASSUME NEW C, C \cap Controls = {}, NEW meta, \A f \in Fields : meta[f] \in Seq(C),
         NEW site \in 1 .. 3
  PROVE  /\ MetaWords(Coded(meta), site) \in Seq(CodeWords)
         /\ Written(MetaWords(Coded(meta), site)) \in Seq(Bit)
         /\ MetaBits(meta, site) =
              BitsRemoveIfStartStop(
                (codes["ss"] \o Written(MetaWords(Coded(meta), site))) \o codes["ss"])
  <1> DEFINE c == Coded(meta)
             W == MetaWords(c, site)
             pr == PreWords("rev", c["rev"])
             pf == PreWords("file", c["file"])
             po == PreWords("repo", c["repo"])
             ps == SiteWords(site)
             s == codes["ss"]
  <1>1. /\ c["rev"] = CodedString(meta["rev"]) /\ c["rev"] \in Seq(Plain)
        /\ c["file"] = CodedString(meta["file"]) /\ c["file"] \in Seq(Plain)
        /\ c["repo"] = CodedString(meta["repo"]) /\ c["repo"] \in Seq(Plain)
    <2>1. "rev" \in Fields /\ "file" \in Fields /\ "repo" \in Fields
      BY DEF Fields
    <2> QED BY <2>1, CodedPlain
  <1>2. /\ meta["rev"] \in Seq(C) /\ meta["file"] \in Seq(C) /\ meta["repo"] \in Seq(C)
    BY DEF Fields
  <1> HIDE DEF c
  <1>3. BitsWithPreamble("rev", meta["rev"]) = Written(pr) /\ pr \in Seq(CodeWords)
    <2>1. BitsWithPreamble("rev", meta["rev"]) = Written(PreWords("rev", CodedString(meta["rev"])))
      BY <1>2, PreambleWritten
    <2>2. pr \in Seq(CodeWords)
      BY <1>1, PreWordsType
    <2> QED BY <1>1, <2>1, <2>2
  <1>4. BitsWithPreamble("file", meta["file"]) = Written(pf) /\ pf \in Seq(CodeWords)
    <2>1. BitsWithPreamble("file", meta["file"])
            = Written(PreWords("file", CodedString(meta["file"])))
      BY <1>2, PreambleWritten
    <2>2. pf \in Seq(CodeWords)
      BY <1>1, PreWordsType
    <2> QED BY <1>1, <2>1, <2>2
  <1>5. BitsWithPreamble("repo", meta["repo"]) = Written(po) /\ po \in Seq(CodeWords)
    <2>1. BitsWithPreamble("repo", meta["repo"])
            = Written(PreWords("repo", CodedString(meta["repo"])))
      BY <1>2, PreambleWritten
    <2>2. po \in Seq(CodeWords)
      BY <1>1, PreWordsType
    <2> QED BY <1>1, <2>1, <2>2
  <1>6. (IF site = 1 THEN <<>> ELSE BitsWithPreamble("site", <<SiteDigits[site]>>))
          = Written(ps) /\ ps \in Seq(CodeWords)
    BY SiteWritten, SiteWordsType
  <1>7. s \in Seq(Bit) /\ codes.ss = s
    BY MarkBits
  <1>8. MetaBits(meta, site) =
          BitsRemoveIfStartStop(s \o Written(pr) \o Written(pf) \o Written(po)
                                  \o Written(ps) \o s)
    <2> DEFINE br == BitsWithPreamble("rev", meta["rev"])
               bf == BitsWithPreamble("file", meta["file"])
               bo == BitsWithPreamble("repo", meta["repo"])
               bs == IF site = 1 THEN <<>>
                     ELSE BitsWithPreamble("site", <<SiteDigits[site]>>)
    <2>1. MetaBits(meta, site) =
            BitsRemoveIfStartStop(s \o br \o bf \o bo \o bs \o s)
      BY <1>7 DEF MetaBits
    <2>2. br = Written(pr) /\ bf = Written(pf) /\ bo = Written(po) /\ bs = Written(ps)
      BY <1>3, <1>4, <1>5, <1>6
    <2> HIDE DEF br, bf, bo, bs, pr, pf, po, ps, s
    <2> QED BY ONLY <2>1, <2>2
  <1> HIDE DEF pr, pf, po, ps, s
  <1>9. /\ Written(pr) \in Seq(Bit) /\ Written(pf) \in Seq(Bit) /\ Written(po) \in Seq(Bit)
        /\ Written(ps) \in Seq(Bit)
    BY <1>3, <1>4, <1>5, <1>6, CodeSequences, WrittenType
  <1>10. W \in Seq(CodeWords) /\ Written(W) = Written(pr) \o (Written(pf) \o (Written(po) \o Written(ps)))
    <2> DEFINE x == po \o ps
               y == pf \o x
    <2>1. /\ pr \in Seq(DOMAIN codes) /\ pf \in Seq(DOMAIN codes)
          /\ po \in Seq(DOMAIN codes) /\ ps \in Seq(DOMAIN codes)
      BY <1>3, <1>4, <1>5, <1>6, CodeSequences
    <2>2. x \in Seq(CodeWords) /\ x \in Seq(DOMAIN codes)
          /\ Written(x) = Written(po) \o Written(ps)
      BY <1>5, <1>6, <2>1, ConcatProperties, CodeSequences, WrittenConcat
    <2> HIDE DEF x
    <2>3. y \in Seq(CodeWords) /\ y \in Seq(DOMAIN codes)
          /\ Written(y) = Written(pf) \o Written(x)
      BY <1>4, <2>1, <2>2, ConcatProperties, CodeSequences, WrittenConcat
    <2> HIDE DEF y
    <2>4. pr \o y \in Seq(CodeWords) /\ Written(pr \o y) = Written(pr) \o Written(y)
      BY <1>3, <2>1, <2>3, ConcatProperties, CodeSequences, WrittenConcat
    <2>5. W = pr \o y
      BY DEF MetaWords, pr, pf, po, ps, x, y
    <2> HIDE DEF W
    <2> QED BY <2>2, <2>3, <2>4, <2>5
  <1> HIDE DEF W
  <1> DEFINE a == Written(pr)
             b == Written(pf)
             d == Written(po)
             e == Written(ps)
  <1>11. a \in Seq(Bit) /\ b \in Seq(Bit) /\ d \in Seq(Bit) /\ e \in Seq(Bit)
    BY <1>9
  <1>12. Written(W) = a \o (b \o (d \o e))
         /\ MetaBits(meta, site) = BitsRemoveIfStartStop(s \o a \o b \o d \o e \o s)
    BY <1>8, <1>10
  <1> HIDE DEF a, b, d, e
  <1>13. /\ s \o a \o b \o d \o e \o s = (s \o (a \o (b \o (d \o e)))) \o s
         /\ a \o (b \o (d \o e)) \in Seq(Bit)
    <2>1. s \in Seq(Bit)
      BY <1>7
    <2> QED BY ONLY <1>11, <2>1, Regrouped
  <1>14. /\ MetaBits(meta, site) = BitsRemoveIfStartStop((s \o Written(W)) \o s)
         /\ Written(W) \in Seq(Bit)
    BY ONLY <1>12, <1>13
  <1> QED BY <1>10, <1>14 DEF s, W, c

(* Metadata whose last character is no W is written between two marks, and   *)
(* empty metadata is nothing.                                                *)
LEMMA MetaBitsWritten ==
  ASSUME NEW C, C \cap Controls = {}, NEW meta, \A f \in Fields : meta[f] \in Seq(C),
         NEW site \in 1 .. 3, LastData(meta, site) # "W"
  PROVE  LET words == MetaWords(Coded(meta), site)
         IN  /\ words \in Seq(CodeWords) /\ Written(words) \in Seq(Bit)
             /\ words = <<>> => MetaBits(meta, site) = <<>>
             /\ words # <<>> =>
                  MetaBits(meta, site) = codes["ss"] \o (Written(words) \o codes["ss"])
  <1> DEFINE W == MetaWords(Coded(meta), site)
             s == codes["ss"]
             w == Written(W)
             sw == s \o w
             x == sw \o s
  <1>1. /\ W \in Seq(CodeWords) /\ w \in Seq(Bit)
        /\ MetaBits(meta, site) = BitsRemoveIfStartStop(x)
    BY MetaWordsWritten
  <1>2. W # <<>> => Last(W) # "W"
    <2>1. \A f \in Fields : Coded(meta)[f] \in Seq(Plain)
      BY CodedPlain
    <2> QED BY <2>1, LastMetaWord
  <1>3. s \in Seq(Bit) /\ Len(s) = 6 /\ codes.ss = s
    BY MarkBits
  <1>4. BitsRemoveIfStartStop(x) =
          LET marked == SubSeq(x, 1, Len(x) - Len(s))
          IN  IF IsSuffix(s, marked) THEN SubSeq(marked, 1, Len(marked) - Len(s)) ELSE x
    BY <1>3 DEF BitsRemoveIfStartStop
  <1>5. W = <<>> => w = <<>>
    <2>1. "ss" \in DOMAIN codes
      BY MarksHaveCodes
    <2> QED BY <2>1, WrittenShort
  <1> HIDE DEF W, s, w
  <1>6. sw \in Seq(Bit)
    BY <1>1, <1>3, ConcatProperties
  <1> HIDE DEF sw
  <1>7. SubSeq(x, 1, Len(x) - Len(s)) = sw
    <2>1. s \in Seq(Bit)
      BY <1>3
    <2> QED BY ONLY <1>6, <2>1, PartsOfConcat
  <1> HIDE DEF x
  <1>8. MetaBits(meta, site) =
          IF IsSuffix(s, sw) THEN SubSeq(sw, 1, Len(sw) - Len(s)) ELSE x
    BY <1>1, <1>4, <1>7
  <1>9. ASSUME W = <<>> PROVE MetaBits(meta, site) = <<>>
    <2>1. sw = s /\ <<>> \o s = s /\ <<>> \in Seq(Bit)
      <3>1. s \o <<>> = s /\ <<>> \o s = s
        BY <1>3, ConcatEmptySeq
      <3>2. w = <<>> /\ <<>> \in Seq(Bit)
        BY <1>5, <1>9
      <3> QED BY <3>1, <3>2 DEF sw
    <2>2. IsSuffix(s, <<>> \o s)
      BY <1>3, <2>1, PartsOfConcat
    <2>3. SubSeq(s, 1, Len(s) - Len(s)) = <<>>
      <3>1. Len(s) - Len(s) = 0 /\ 0 <= Len(s) /\ 0 \in Nat
        BY <1>3
      <3>2. SubSeq(s, 1, 0) \in Seq(Bit) /\ Len(SubSeq(s, 1, 0)) = 0
        BY <1>3, <3>1, Beginning
      <3>3. SubSeq(s, 1, 0) = <<>>
        BY <3>2, EmptySeq
      <3> QED BY <3>1, <3>3
    <2> QED BY <1>8, <2>1, <2>2, <2>3
  <1>10. ASSUME W # <<>> PROVE MetaBits(meta, site) = s \o (w \o s)
    <2> DEFINE f == Front(W)
               l == Last(W)
    <2>1. f \in Seq(CodeWords) /\ l \in CodeWords /\ W = f \o <<l>>
      BY <1>1, <1>10, FrontAndLast
    <2>2. l # "W"
      BY <1>2, <1>10
    <2> HIDE DEF f, l
    <2>3. l \in DOMAIN codes /\ f \in Seq(DOMAIN codes) /\ <<l>> \in Seq(DOMAIN codes)
      BY <2>1, PlainWords, CodeSequences, OneElement
    <2> DEFINE wf == Written(f)
               cl == codes[l]
    <2>4. w = wf \o cl
      <3>1. Written(f \o <<l>>) = Written(f) \o Written(<<l>>)
        BY <2>3, WrittenConcat
      <3>2. Written(<<l>>) = codes[l]
        BY <2>3, WrittenShort
      <3> QED BY <2>1, <3>1, <3>2 DEF w
    <2>5. wf \in Seq(Bit) /\ cl \in Seq(Bit)
      BY <2>3, WrittenType, CodesAreBits
    <2>6. sw = (s \o wf) \o cl /\ s \o wf \in Seq(Bit)
      <3> HIDE DEF wf, cl
      <3>1. (s \o wf) \o cl = s \o (wf \o cl) /\ s \o wf \in Seq(Bit)
        BY ONLY <1>3, <2>5, Associative
      <3> QED BY <2>4, <3>1 DEF sw
    <2>7. ~ IsSuffix(s, sw)
      <3>1. SUFFICES ASSUME IsSuffix(s, sw) PROVE FALSE
        OBVIOUS
      <3> DEFINE before == s \o wf
      <3>2. before \in Seq(Bit) /\ IsSuffix(codes["ss"], before \o codes[l])
        BY <2>6, <3>1 DEF s
      <3> HIDE DEF before
      <3>3. l = "W"
        BY <2>1, <3>2, MarkAtEnd
      <3> QED BY <2>2, <3>3
    <2>8. MetaBits(meta, site) = (s \o w) \o s
      BY <1>8, <2>7 DEF x, sw
    <2>9. (s \o w) \o s = s \o (w \o s)
      BY ONLY <1>1, <1>3, Associative
    <2> QED BY <2>8, <2>9
  <1> QED BY <1>1, <1>9, <1>10 DEF W, s, w

-----------------------------------------------------------------------------
(* The bits of a Zcode, up to the last zekyll that is selected.              *)

Rows(selected, n) == [r \in 1 .. n |-> IF r \in selected THEN 1 ELSE 0]

LEMMA RowsType ==
  ASSUME NEW selected, NEW n \in Nat
  PROVE  /\ Rows(selected, n) \in Seq(Bit) /\ Len(Rows(selected, n)) = n
         /\ \A r \in 1 .. n : Rows(selected, n)[r] = IF r \in selected THEN 1 ELSE 0
  <1> DEFINE s == Rows(selected, n)
  <1>1. s \in [1 .. n -> Bit]
    BY DEF Rows, Bit
  <1>2. \A r \in 1 .. n : s[r] = IF r \in selected THEN 1 ELSE 0
    BY DEF Rows
  <1> HIDE DEF s
  <1>3. s \in Seq(Bit) /\ Len(s) = n
    BY <1>1
  <1> QED BY <1>2, <1>3 DEF s

(* Bits that are some bits in front, the version and the boxes of n rows.    *)
Behind(z, a, selected, n) ==
  /\ z \in Seq(Bit) /\ Len(z) = Len(a) + (n + 2)
  /\ \A k \in 1 .. Len(a) : z[k] = a[k]
  /\ z[Len(a) + 1] = 0 /\ z[Len(a) + 2] = 0
  /\ \A r \in 1 .. n : z[Len(a) + (r + 2)] = IF r \in selected THEN 1 ELSE 0

LEMMA ZcodeAt ==
  ASSUME NEW a \in Seq(Bit), NEW selected, NEW n \in Nat
  PROVE  LET d == Version \o Rows(selected, n)
             z == a \o d
         IN  /\ d \in Seq(Bit) /\ Len(d) = n + 2 /\ d[1] = 0
             /\ z \in Seq(Bit) /\ Behind(z, a, selected, n)
  <1> DEFINE s == Rows(selected, n)
             d == Version \o s
             z == a \o d
             l == Len(a)
  <1>1. s \in Seq(Bit) /\ Len(s) = n
        /\ \A r \in 1 .. n : s[r] = IF r \in selected THEN 1 ELSE 0
    BY RowsType
  <1>2. Version \in Seq(Bit) /\ Len(Version) = 2 /\ Version[1] = 0 /\ Version[2] = 0
    BY DEF Version, Bit
  <1> HIDE DEF s
  <1>3. d \in Seq(Bit) /\ Len(d) = 2 + n
        /\ \A k \in 1 .. 2 + n : d[k] = IF k <= 2 THEN Version[k] ELSE s[k - 2]
    <2>1. /\ d \in Seq(Bit) /\ Len(d) = Len(Version) + Len(s)
          /\ \A k \in 1 .. Len(Version) + Len(s) :
               d[k] = IF k <= Len(Version) THEN Version[k] ELSE s[k - Len(Version)]
      BY <1>1, <1>2, ConcatProperties
    <2> HIDE DEF d
    <2> QED BY <1>1, <1>2, <2>1
  <1> HIDE DEF d
  <1>4. 1 \in 1 .. 2 + n /\ 2 \in 1 .. 2 + n /\ 2 + n = n + 2
        /\ \A r \in 1 .. n : r + 2 \in 1 .. 2 + n /\ ~ (r + 2 <= 2) /\ (r + 2) - 2 = r
    OBVIOUS
  <1>5. d[1] = 0 /\ d[2] = 0 /\ \A r \in 1 .. n : d[r + 2] = s[r]
    BY <1>2, <1>3, <1>4
  <1>6. z \in Seq(Bit) /\ Len(z) = l + (n + 2)
        /\ \A k \in 1 .. l + (n + 2) : z[k] = IF k <= l THEN a[k] ELSE d[k - l]
    <2>1. /\ z \in Seq(Bit) /\ Len(z) = Len(a) + Len(d)
          /\ \A k \in 1 .. Len(a) + Len(d) : z[k] = IF k <= Len(a) THEN a[k] ELSE d[k - Len(a)]
      BY <1>3, ConcatProperties
    <2>2. Len(d) = n + 2
      BY <1>3, <1>4
    <2> HIDE DEF z
    <2> QED BY <2>1, <2>2
  <1>7. l \in Nat
    BY Digits
  <1> HIDE DEF z, l
  <1>8. /\ \A k \in 1 .. l : k \in 1 .. l + (n + 2) /\ k <= l
        /\ \A j \in 1 .. n + 2 : l + j \in 1 .. l + (n + 2) /\ ~ (l + j <= l)
                                 /\ (l + j) - l = j
    BY <1>7
  <1>9. (\A k \in 1 .. l : z[k] = a[k]) /\ \A j \in 1 .. n + 2 : z[l + j] = d[j]
    BY <1>6, <1>8
  <1>10. 1 \in 1 .. n + 2 /\ 2 \in 1 .. n + 2 /\ \A r \in 1 .. n : r + 2 \in 1 .. n + 2
    BY <1>4
  <1>11. z[l + 1] = 0 /\ z[l + 2] = 0 /\ \A r \in 1 .. n : z[l + (r + 2)] = s[r]
    BY <1>5, <1>9, <1>10
  <1>12. /\ d \in Seq(Bit) /\ Len(d) = n + 2 /\ d[1] = 0
         /\ z \in Seq(Bit) /\ Len(z) = l + (n + 2)
         /\ \A k \in 1 .. l : z[k] = a[k]
         /\ z[l + 1] = 0 /\ z[l + 2] = 0
         /\ \A r \in 1 .. n : z[l + (r + 2)] = IF r \in selected THEN 1 ELSE 0
    BY <1>1, <1>3, <1>4, <1>5, <1>6, <1>9, <1>11
  <1>13. Behind(z, a, selected, n)
    BY ONLY <1>12 DEF Behind, l
  <1> QED BY ONLY <1>12, <1>13 DEF z, d, s

MadeOf(a, selected, n) == a \o (Version \o Rows(selected, n))

(* No data starts with a mark, as the version does not.                      *)
LEMMA ZcodeBitsAre ==
  ASSUME NEW C, NEW meta, \A f \in Fields : meta[f] \in Seq(C), NEW site,
         NEW selected, NEW size \in Nat
  PROVE  /\ MetaBits(meta, site) \in Seq(Bit)
         /\ Version \o Rows(selected, size) \in Seq(Bit)
         /\ ~ IsPrefix(codes["ss"], Version \o Rows(selected, size))
         /\ ZcodeBits(selected, size, meta, site) =
              MadeOf(MetaBits(meta, site), selected, size)
  <1> DEFINE d == Version \o Rows(selected, size)
             a == MetaBits(meta, site)
  <1>1. a \in Seq(Bit)
    BY MetaType
  <1> HIDE DEF a
  <1>2. d \in Seq(Bit) /\ d[1] = 0
    BY <1>1, ZcodeAt
  <1>3. codes["ss"] \in Seq(Bit) /\ Len(codes["ss"]) = 6 /\ codes["ss"][1] = 1
        /\ codes.ss = codes["ss"]
    BY MarkBits
  <1>4. ZcodeBits(selected, size, meta, site) =
          IF a = <<>> /\ IsPrefix(codes.ss, d) THEN codes.ss \o d ELSE a \o d
    BY DEF ZcodeBits, Rows, a
  <1> HIDE DEF d
  <1>5. ~ IsPrefix(codes["ss"], d)
    <2>1. SUFFICES ASSUME IsPrefix(codes["ss"], d) PROVE FALSE
      OBVIOUS
    <2>2. \A k \in 1 .. Len(codes["ss"]) : codes["ss"][k] = d[k]
      BY <1>2, <1>3, <2>1, PrefixIs
    <2>3. 1 \in 1 .. 6
      OBVIOUS
    <2> QED BY <1>2, <1>3, <2>2, <2>3
  <1>6. ZcodeBits(selected, size, meta, site) = a \o d
    BY <1>3, <1>4, <1>5
  <1> QED BY <1>1, <1>2, <1>5, <1>6 DEF MadeOf, a, d

LEMMA ZcodeCut ==
  ASSUME NEW a \in Seq(Bit), NEW size \in Nat, NEW selected \in SUBSET (1 .. size),
         selected # {}
  PROVE  LET z == a \o (Version \o Rows(selected, size))
             m == Len(a) + (Max(selected) + 2)
         IN  /\ Max(selected) \in 1 .. size
             /\ m \in Nat /\ m # 0 /\ LastBit(z, m) /\ z[m] = 1
             /\ SubSeq(z, 1, m) = a \o (Version \o Rows(selected, Max(selected)))
  <1> DEFINE max == Max(selected)
             l == Len(a)
             m == l + (max + 2)
             z == a \o (Version \o Rows(selected, size))
             y == a \o (Version \o Rows(selected, max))
             x == SubSeq(z, 1, m)
  <1>1. max \in selected /\ \A r \in selected : max >= r
    BY MaxTaken
  <1>2. max \in 1 .. size /\ l \in Nat
    BY <1>1, Digits
  <1> HIDE DEF max, l
  <1>3. max \in Nat /\ max <= size
    BY <1>2
  <1>4. /\ z \in Seq(Bit) /\ Len(z) = l + (size + 2)
        /\ \A k \in 1 .. l : z[k] = a[k]
        /\ z[l + 1] = 0 /\ z[l + 2] = 0
        /\ \A r \in 1 .. size : z[l + (r + 2)] = IF r \in selected THEN 1 ELSE 0
    <2>1. Behind(z, a, selected, size)
      BY ONLY a \in Seq(Bit), size \in Nat, ZcodeAt
    <2> HIDE DEF z
    <2> QED BY ONLY <2>1 DEF Behind, l
  <1>5. /\ y \in Seq(Bit) /\ Len(y) = l + (max + 2)
        /\ \A k \in 1 .. l : y[k] = a[k]
        /\ y[l + 1] = 0 /\ y[l + 2] = 0
        /\ \A r \in 1 .. max : y[l + (r + 2)] = IF r \in selected THEN 1 ELSE 0
    <2>1. Behind(y, a, selected, max)
      BY ONLY a \in Seq(Bit), <1>3, ZcodeAt
    <2> HIDE DEF y
    <2> QED BY ONLY <2>1 DEF Behind, l
  <1>6. m \in Nat /\ m # 0 /\ m <= l + (size + 2) /\ m \in 0 .. l + (size + 2)
    BY <1>2, <1>3
  <1> HIDE DEF z, y
  <1>7. z[m] = 1
    BY <1>1, <1>2, <1>4
  <1>8. LastBit(z, m)
    <2>1. SUFFICES ASSUME NEW k \in m + 1 .. Len(z) PROVE z[k] = 0
      BY <1>4, <1>6 DEF LastBit
    <2>2. \E r \in 1 .. size : k = l + (r + 2) /\ ~ (max >= r)
      <3>1. k - (l + 2) \in 1 .. size /\ k = l + ((k - (l + 2)) + 2)
            /\ ~ (max >= k - (l + 2))
        BY <1>2, <1>3, <1>4
      <3> QED BY <3>1
    <2> QED BY <1>1, <1>4, <2>2
  <1>9. x \in Seq(Bit) /\ Len(x) = m /\ \A k \in 1 .. m : x[k] = z[k]
    BY <1>4, <1>6, Beginning
  <1> HIDE DEF x
  <1>10. \A k \in 1 .. m : z[k] = y[k]
    <2> SUFFICES ASSUME NEW k \in 1 .. m PROVE z[k] = y[k]
      OBVIOUS
    <2>1. k \in 1 .. l \/ k = l + 1 \/ k = l + 2
          \/ (k - (l + 2) \in 1 .. max /\ k = l + ((k - (l + 2)) + 2))
      BY <1>2, <1>3
    <2>2. \A r \in 1 .. max : r \in 1 .. size
      BY <1>3
    <2>3. \A r \in 1 .. max : z[l + (r + 2)] = y[l + (r + 2)]
      BY <1>4, <1>5, <2>2
    <2> QED BY <1>4, <1>5, <2>1, <2>3
  <1>11. x = y
    BY <1>5, <1>9, <1>10, SeqEqual
  <1> HIDE DEF m
  <1>12. max \in 1 .. size /\ m \in Nat /\ m # 0 /\ LastBit(z, m) /\ z[m] = 1 /\ x = y
    BY <1>2, <1>6, <1>7, <1>8, <1>11
  <1> QED BY <1>12 DEF max, m, l, z, y, x

-----------------------------------------------------------------------------
(* What is read from the bits of a Zcode.                                    *)

LEMMA PrefixOfRest ==
  ASSUME NEW S, NEW a \in Seq(S), NEW b \in Seq(S), NEW c \in Seq(S),
         IsPrefix(a \o b, a \o c)
  PROVE  IsPrefix(b, c)
  <1> DEFINE x == a \o b
             y == a \o c
             l == Len(a)
             m == Len(b)
             n == Len(c)
  <1>1. /\ x \in Seq(S) /\ Len(x) = l + m
        /\ \A k \in 1 .. l + m : x[k] = IF k <= l THEN a[k] ELSE b[k - l]
    BY ConcatProperties
  <1>2. /\ y \in Seq(S) /\ Len(y) = l + n
        /\ \A k \in 1 .. l + n : y[k] = IF k <= l THEN a[k] ELSE c[k - l]
    BY ConcatProperties
  <1>3. IsPrefix(x, y)
    OBVIOUS
  <1>4. l \in Nat /\ m \in Nat /\ n \in Nat
    BY Digits
  <1> HIDE DEF x, y
  <1>5. Len(x) <= Len(y) /\ \A k \in 1 .. Len(x) : x[k] = y[k]
    BY <1>1, <1>2, <1>3, PrefixIs
  <1> HIDE DEF l, m, n
  <1>6. m <= n
    BY <1>1, <1>2, <1>4, <1>5
  <1>7. \A k \in 1 .. m : /\ l + k \in 1 .. l + m /\ l + k \in 1 .. l + n
                          /\ ~ (l + k <= l) /\ (l + k) - l = k
    BY <1>4, <1>6
  <1>8. \A k \in 1 .. m : b[k] = c[k]
    BY <1>1, <1>2, <1>5, <1>7
  <1> QED BY <1>6, <1>8, PrefixIs DEF m, n

LEMMA MetaDataRead ==
  ASSUME NEW C, C \cap Controls = {}, NEW meta, \A f \in Fields : meta[f] \in Seq(C),
         NEW site \in 1 .. 3, LastData(meta, site) # "W",
         NEW rest \in Seq(Bit), ~ IsPrefix(codes["ss"], rest)
  PROVE  LET data == process_meta_data(MetaBits(meta, site) \o rest)
         IN  /\ data.skip = Len(MetaBits(meta, site))
             /\ \A f \in Fields : data.decoded[f] = Coded(meta)[f]
             /\ DecodedSite(data.decoded["site"]) = site
  <1> DEFINE c == Coded(meta)
             W == MetaWords(c, site)
             s == codes["ss"]
             w == Written(W)
             a == MetaBits(meta, site)
             bits == a \o rest
             data == process_meta_data(bits)
             s0 == [key |-> "error", decoded |-> NothingDecoded]
             d == Said(s0, W).decoded
  <1>1. /\ W \in Seq(CodeWords) /\ w \in Seq(Bit)
        /\ W = <<>> => a = <<>>
        /\ W # <<>> => a = s \o (w \o s)
    BY MetaBitsWritten
  <1>2. (\A f \in Fields : d[f] = c[f]) /\ DecodedSite(d["site"]) = site
    <2>1. \A f \in Fields : c[f] \in Seq(Plain)
      BY CodedPlain
    <2> QED BY <2>1, SaidMeta
  <1>3. s \in Seq(Bit) /\ Len(s) = 6 /\ codes.ss = s
    BY MarkBits
  <1>4. ~ IsPrefix(s, rest)
    OBVIOUS
  <1>5. data = IF ~ IsPrefix(s, bits) THEN [skip |-> 0, decoded |-> NothingDecoded]
               ELSE IF IsPrefix(s \o s, bits)
               THEN [skip |-> Len(s), decoded |-> NothingDecoded]
               ELSE Decoded(bits, ReadWords(SubSeq(bits, Len(s) + 1, Len(bits))))
    BY <1>3 DEF process_meta_data
  <1>6. "error" \in Keys /\ s0 \in Decoding
    BY NothingDecodedType DEF Keys
  <1>7. W = <<>> => d = NothingDecoded
    <2>1. "rev" \in CodeWords
      BY KeysHaveCodes
    <2>2. Said(s0, <<>>) = s0
      BY <1>6, <2>1, SaidShort
    <2> QED BY <2>2
  <1>8. W # <<>> => ReadWords(w \o (s \o rest)) = [words |-> W, rest |-> rest, complete |-> TRUE]
    BY <1>1, ReadWritten
  <1>9. W # <<>> => ~ IsPrefix(s, w \o (s \o rest))
    <2>1. s \o rest \in Seq(Bit)
      BY <1>3, ConcatProperties
    <2> QED BY <1>1, <2>1, WrittenFirst
  <1>10. \A r : Said(s0, W) = FoldLeft(DecodeWord, s0, W)
    BY DEF Said
  <1> HIDE DEF c, W, s, w, a, data
  <1>11. CASE W = <<>>
    <2>1. bits = rest /\ a = <<>>
      BY <1>1, <1>11, ConcatEmptySeq
    <2> HIDE DEF bits
    <2>2. data = [skip |-> 0, decoded |-> NothingDecoded]
      BY <1>4, <1>5, <2>1
    <2>3. Len(a) = 0
      BY <2>1
    <2> HIDE DEF d
    <2>4. data.skip = Len(a) /\ data.decoded = d
      BY <1>7, <1>11, <2>2, <2>3
    <2> QED BY <1>2, <2>4 DEF data, bits, a, c
  <1>12. CASE W # <<>>
    <2> DEFINE sr == s \o rest
               ws == w \o sr
    <2>1. sr \in Seq(Bit)
      BY <1>3, ConcatProperties
    <2>2. a = s \o (w \o s) /\ w \in Seq(Bit)
      BY <1>1, <1>12
    <2>3. /\ a \in Seq(Bit) /\ Len(a) = Len(s) + (Len(w) + Len(s))
          /\ bits = s \o (w \o (s \o rest))
      <3> DEFINE v == w \o s
      <3>1. v \in Seq(Bit) /\ Len(v) = Len(w) + Len(s) /\ v \o rest = w \o (s \o rest)
        <4>1. s \in Seq(Bit)
          BY <1>3
        <4>2. w \in Seq(Bit)
          BY <2>2
        <4>3. (w \o s) \o rest = w \o (s \o rest)
          BY ONLY <4>1, <4>2, rest \in Seq(Bit), Associative
        <4>4. w \o s \in Seq(Bit) /\ Len(w \o s) = Len(w) + Len(s)
          BY ONLY <4>1, <4>2, Associative
        <4> QED BY <4>3, <4>4
      <3> HIDE DEF v
      <3>2. s \o v \in Seq(Bit) /\ Len(s \o v) = Len(s) + Len(v)
            /\ (s \o v) \o rest = s \o (v \o rest)
        <4>1. v \in Seq(Bit) /\ s \in Seq(Bit)
          BY <1>3, <3>1
        <4> QED BY ONLY <4>1, rest \in Seq(Bit), Associative
      <3> QED BY <2>2, <3>1, <3>2 DEF v
    <2> HIDE DEF sr
    <2>4. ws \in Seq(Bit)
      BY <2>1, <2>2, ConcatProperties
    <2>5. ReadWords(ws) = [words |-> W, rest |-> rest, complete |-> TRUE]
          /\ ~ IsPrefix(s, ws)
      BY <1>8, <1>9, <1>12 DEF sr
    <2>6. bits = s \o ws
      BY <2>3 DEF sr
    <2>7. bits \in Seq(Bit) /\ Len(bits) = Len(a) + Len(rest)
      BY <2>3, ConcatProperties
    <2> HIDE DEF ws, bits
    <2>8. IsPrefix(s, bits) /\ SubSeq(bits, Len(s) + 1, Len(bits)) = ws
      <3>1. s \in Seq(Bit)
        BY <1>3
      <3>2. IsPrefix(s, s \o ws) /\ SubSeq(s \o ws, Len(s) + 1, Len(s \o ws)) = ws
        BY ONLY <2>4, <3>1, PartsOfConcat
      <3> QED BY <2>6, <3>2
    <2>9. ~ IsPrefix(s \o s, bits)
      <3>1. SUFFICES ASSUME IsPrefix(s \o s, bits) PROVE FALSE
        OBVIOUS
      <3>2. IsPrefix(s, ws)
        <4>1. IsPrefix(s \o s, s \o ws)
          BY <2>6, <3>1
        <4> QED BY ONLY <1>3, <2>4, <4>1, PrefixOfRest
      <3> QED BY <2>5, <3>2
    <2>10. data = Decoded(bits, ReadWords(ws))
      BY <1>5, <2>8, <2>9
    <2> HIDE DEF d, s0
    <2>11. data = [skip |-> Len(bits) - Len(rest), decoded |-> d]
      <3> DEFINE r == ReadWords(ws)
      <3>1. r.words = W /\ r.rest = rest /\ r.complete = TRUE
        BY <2>5
      <3> HIDE DEF r
      <3>2. Decoded(bits, r) = [skip |-> IF r.complete THEN Len(bits) - Len(r.rest) ELSE 0,
                                decoded |-> FoldLeft(DecodeWord, s0, r.words).decoded]
        BY DEF Decoded, s0
      <3> QED BY <1>10, <2>10, <3>1, <3>2 DEF r, d
    <2>12. Len(bits) - Len(rest) = Len(a)
      <3>1. Len(a) \in Nat /\ Len(rest) \in Nat
        BY <2>3, Digits
      <3> QED BY <2>7, <3>1
    <2>13. data.skip = Len(a) /\ data.decoded = d
      BY <2>11, <2>12
    <2> QED BY <1>2, <2>13 DEF data, bits, a, c
  <1> QED BY <1>11, <1>12

LEMMA VersionTaken ==
  ASSUME NEW s \in Seq(Bit)
  PROVE  WithoutVersion(Version \o s) = s
  <1>1. Version \in Seq(Bit) /\ Len(Version) = 2
    BY DEF Version, Bit
  <1> DEFINE v == Version
             d == v \o s
  <1> HIDE DEF v
  <1>2. v \in Seq(Bit) /\ Len(v) = 2
    BY <1>1 DEF v
  <1>3. d \in Seq(Bit) /\ Len(d) = 2 + Len(s) /\ Len(s) \in Nat
    BY <1>2, ConcatProperties
  <1>4. SubSeq(d, Len(v) + 1, Len(d)) = s
    BY <1>2, PartsOfConcat
  <1> HIDE DEF d
  <1>5. ~ (Len(d) < 2) /\ Len(v) + 1 = 3
    BY <1>2, <1>3
  <1>6. WithoutVersion(d) = s
    BY <1>4, <1>5 DEF WithoutVersion
  <1> QED BY <1>6 DEF d, v

(* What is decoded from letters: metadata, a site, and selectors.            *)
ReadAs(letters, meta, site, selectors) ==
  LET bits == Reverse(decode_zcode(letters))
      data == process_meta_data(bits)
  IN  /\ letters # <<>>
      /\ \A f \in Fields : data.decoded[f] = meta[f]
      /\ DecodedSite(data.decoded["site"]) = site
      /\ WithoutVersion(SubSeq(bits, data.skip + 1, Len(bits))) = selectors

(* A Zcode whose selection is not empty, and whose metadata does not end in  *)
(* a W, is read as it was written (encode_zcode_arr01, decode_zcode,         *)
(* process_meta_data, Selectors): its text stands for the characters that    *)
(* have a code, for the site, and for the zekylls up to the last one that is *)
(* selected, whatever the number of zekylls and however long the metadata.   *)
THEOREM ZcodeReadAsWritten ==
  ASSUME NEW C, C \cap Controls = {}, NEW meta, \A f \in Fields : meta[f] \in Seq(C),
         NEW site \in 1 .. 3, NEW size \in Nat, NEW selected \in SUBSET (1 .. size),
         Telling(selected, meta, site)
  PROVE  ReadAs(encode_zcode_arr01(Reverse(ZcodeBits(selected, size, meta, site))),
                Coded(meta), site, Rows(selected, Max(selected)))
  <1> DEFINE a == MetaBits(meta, site)
             max == Max(selected)
             z == a \o (Version \o Rows(selected, size))
             m == Len(a) + (max + 2)
             rest == Version \o Rows(selected, max)
             text == encode_zcode_arr01(Reverse(ZcodeBits(selected, size, meta, site)))
             bits == Reverse(decode_zcode(text))
             data == process_meta_data(bits)
  <1>1. selected # {} /\ LastData(meta, site) # "W"
    BY DEF Telling
  <1>2. a \in Seq(Bit) /\ ZcodeBits(selected, size, meta, site) = z
    <2>1. MetaBits(meta, site) \in Seq(Bit)
      BY MetaType
    <2>2. ZcodeBits(selected, size, meta, site) =
            MadeOf(MetaBits(meta, site), selected, size)
      BY ZcodeBitsAre
    <2> QED BY ONLY <2>1, <2>2 DEF MadeOf
  <1> HIDE DEF a
  <1>3. /\ max \in 1 .. size
        /\ m \in Nat /\ m # 0 /\ LastBit(z, m) /\ z[m] = 1
        /\ SubSeq(z, 1, m) = a \o rest
    BY <1>1, <1>2, ZcodeCut
  <1>4. z \in Seq(Bit)
    BY <1>2, ZcodeAt
  <1> HIDE DEF max
  <1>5. max \in Nat
    BY <1>3
  <1>6. /\ rest \in Seq(Bit) /\ ~ IsPrefix(codes["ss"], rest)
    BY <1>5, ZcodeBitsAre
  <1> HIDE DEF z, m, rest
  <1>7. Reverse(decode_zcode(encode_zcode_arr01(Reverse(z)))) = SubSeq(z, 1, m)
        /\ encode_zcode_arr01(Reverse(z)) # <<>>
    BY <1>3, <1>4, DecodingInvertsEncoding
  <1>8. text # <<>> /\ bits = a \o rest
    BY <1>2, <1>3, <1>7
  <1> HIDE DEF text, bits
  <1>9. /\ data.skip = Len(a)
        /\ \A f \in Fields : data.decoded[f] = Coded(meta)[f]
        /\ DecodedSite(data.decoded["site"]) = site
    <2>1. LET read == process_meta_data(MetaBits(meta, site) \o rest)
          IN  /\ read.skip = Len(MetaBits(meta, site))
              /\ \A f \in Fields : read.decoded[f] = Coded(meta)[f]
              /\ DecodedSite(read.decoded["site"]) = site
      BY <1>1, <1>6, MetaDataRead
    <2> QED BY <1>8, <2>1 DEF a
  <1> HIDE DEF data
  <1>10. SubSeq(bits, data.skip + 1, Len(bits)) = rest
    <2>1. SubSeq(a \o rest, Len(a) + 1, Len(a \o rest)) = rest
      BY <1>2, <1>6, PartsOfConcat
    <2> QED BY <1>8, <1>9, <2>1
  <1>11. WithoutVersion(rest) = Rows(selected, max)
    BY <1>5, RowsType, VersionTaken DEF rest
  <1>12. /\ text # <<>>
         /\ \A f \in Fields : data.decoded[f] = Coded(meta)[f]
         /\ DecodedSite(data.decoded["site"]) = site
         /\ WithoutVersion(SubSeq(bits, data.skip + 1, Len(bits))) = Rows(selected, max)
    BY <1>8, <1>9, <1>10, <1>11
  <1> QED BY <1>12 DEF ReadAs, text, bits, data, max

-----------------------------------------------------------------------------
(* What the window makes of a Zcode that is entered.                         *)

LEMMA CharactersCoded ==
  /\ Characters \cap Controls = {}
  /\ Plain \cap Controls = {}
  <1>1. Plain \cap Controls = {}
    BY DEF Plain
  <1>2. \A f \in Fields : \A v \in Values[f] : ToSet(v) \cap Controls = {}
    BY ValuesAssumption
  <1>3. \A x \in Characters : x \notin Controls
    <2>1. SUFFICES ASSUME NEW x \in Characters, x \notin Plain PROVE x \notin Controls
      BY <1>1
    <2>2. x \in UNION {ToSet(v) : v \in UNION {Values[f] : f \in Fields}}
      BY <2>1 DEF Characters, Plain
    <2>3. PICK s \in {ToSet(v) : v \in UNION {Values[f] : f \in Fields}} : x \in s
      BY <2>2
    <2>4. PICK v \in UNION {Values[f] : f \in Fields} : s = ToSet(v)
      BY <2>3
    <2>5. PICK f \in Fields : v \in Values[f]
      BY <2>4
    <2> QED BY <1>2, <2>3, <2>4, <2>5
  <1> QED BY <1>1, <1>3

LEMMA KnownCharacters ==
  ASSUME NEW z \in Known
  PROVE  /\ z.selected \in SUBSET (1 .. z.size) /\ z.size \in Nat /\ z.site \in 1 .. 3
         /\ \A f \in Fields : z.meta[f] \in Seq(STRING \ Controls)
         /\ (STRING \ Controls) \cap Controls = {}
  <1>1. /\ z \in [selected : SUBSET Nat, size : Nat,
                  meta : [Fields -> Seq(STRING)], site : 1 .. 3]
        /\ z.selected \subseteq 1 .. z.size
        /\ \A f \in Fields : ToSet(z.meta[f]) \cap Controls = {}
    BY KnownAssumption
  <1>2. z.size \in Nat /\ z.site \in 1 .. 3 /\ z.meta \in [Fields -> Seq(STRING)]
    BY <1>1
  <1>3. ASSUME NEW f \in Fields PROVE z.meta[f] \in Seq(STRING \ Controls)
    <2> DEFINE s == z.meta[f]
    <2>1. s \in Seq(STRING) /\ ToSet(s) \cap Controls = {}
      BY <1>1, <1>2, <1>3
    <2> HIDE DEF s
    <2>2. Len(s) \in Nat /\ DOMAIN s = 1 .. Len(s) /\ \A k \in 1 .. Len(s) : s[k] \in STRING
      BY <2>1, Digits
    <2>3. \A k \in 1 .. Len(s) : s[k] \in ToSet(s)
      BY <2>2 DEF ToSet
    <2>4. \A k \in 1 .. Len(s) : s[k] \in STRING \ Controls
      BY <2>1, <2>2, <2>3
    <2>5. s = [k \in 1 .. Len(s) |-> s[k]]
      BY <2>1, <2>2
    <2>6. [k \in 1 .. Len(s) |-> s[k]] \in Seq(STRING \ Controls)
      BY ONLY <2>2, <2>4
    <2> QED BY <2>5, <2>6 DEF s
  <1> QED BY <1>1, <1>2, <1>3

(* The zekylls of an index that selectors select.                            *)
LEMMA RowsSelected ==
  ASSUME NEW size \in Nat, NEW selected \in SUBSET (1 .. size), selected # {},
         NEW n \in Nat
  PROVE  LET s == Rows(selected, Max(selected))
         IN  /\ Len(s) = Max(selected) /\ Max(selected) \in 1 .. size
             /\ {r \in 1 .. n : r <= Len(s) /\ s[r] = 1} = selected \cap 1 .. n
             /\ Max(selected) <= n => selected \subseteq 1 .. n
  <1> DEFINE max == Max(selected)
             s == Rows(selected, max)
  <1>1. max \in selected /\ \A r \in selected : max >= r
    BY MaxTaken
  <1> HIDE DEF max
  <1>2. max \in 1 .. size /\ max \in Nat
    BY <1>1
  <1>3. /\ s \in Seq(Bit) /\ Len(s) = max
        /\ \A r \in 1 .. max : s[r] = IF r \in selected THEN 1 ELSE 0
    BY <1>2, RowsType
  <1> HIDE DEF s
  <1>4. \A r \in selected : r \in 1 .. max
    BY <1>1, <1>2
  <1>5. \A r \in 1 .. n : (r <= max /\ s[r] = 1) <=> r \in selected
    <2> SUFFICES ASSUME NEW r \in 1 .. n PROVE (r <= max /\ s[r] = 1) <=> r \in selected
      OBVIOUS
    <2>1. CASE r <= max
      <3>1. r \in 1 .. max
        BY <1>2, <2>1
      <3> QED BY <1>3, <2>1, <3>1
    <2>2. CASE ~ (r <= max)
      <3>1. r \notin 1 .. max
        BY <1>2, <2>2
      <3> QED BY <1>4, <2>2, <3>1
    <2> QED BY <2>1, <2>2
  <1>6. {r \in 1 .. n : r <= Len(s) /\ s[r] = 1} = selected \cap 1 .. n
    BY <1>3, <1>5
  <1>7. max <= n => selected \subseteq 1 .. n
    BY <1>2, <1>4
  <1> QED BY <1>2, <1>3, <1>6, <1>7 DEF s, max

LEMMA CodedMeta ==
  ASSUME NEW C, C \cap Controls = {}, NEW meta, \A f \in Fields : meta[f] \in Seq(C)
  PROVE  Coded(meta) \in [Fields -> Seq(Characters)]
         /\ \A f \in Fields : Coded(meta)[f] \in Seq(Plain)
  <1>1. \A f \in Fields : Coded(meta)[f] \in Seq(Plain)
    BY CodedPlain
  <1>2. Plain \subseteq Characters
    BY DEF Plain, Characters
  <1>3. \A f \in Fields : Coded(meta)[f] \in Seq(Characters)
    BY <1>1, <1>2, SeqMonotonic
  <1> DEFINE c == Coded(meta)
  <1>4. c = [f \in Fields |-> c[f]]
    BY DEF Coded
  <1> HIDE DEF c
  <1>5. c \in [Fields -> Seq(Characters)]
    BY <1>3, <1>4 DEF c
  <1> QED BY <1>1, <1>5 DEF c

(* How a window is told a Zcode that is entered at an index.                 *)
TextOf(i, selected, size, meta, site) ==
  NumberText(i, encode_zcode_arr01(Reverse(ZcodeBits(selected, size, meta, site))))
Told(w, text, meta) ==
  [text |-> text, index |-> w.index, selected |-> w.selected, meta |-> meta, site |-> w.site]

LEMMA TextOfType ==
  ASSUME NEW C, NEW meta, \A f \in Fields : meta[f] \in Seq(C), NEW site,
         NEW selected, NEW size \in Nat, NEW i \in Int
  PROVE  TextOf(i, selected, size, meta, site) \in Text
  <1> DEFINE z == ZcodeBits(selected, size, meta, site)
             b == Reverse(z)
  <1>1. z \in Seq(Bit)
    BY ZcodeBitsType
  <1> HIDE DEF z
  <1>2. b \in Seq(Bit) /\ Bit \subseteq Nat
    BY <1>1, ReverseType DEF Bit
  <1> HIDE DEF b
  <1>3. b \in Seq(Nat)
    BY <1>2, SeqMonotonic
  <1>4. encode_zcode_arr01(b) \in Seq(0 .. 35)
    BY <1>3, EncodingKeepsTheNumber
  <1>5. NumberText(i, encode_zcode_arr01(b)) \in Text
    BY <1>4, NumberTextType
  <1> QED BY <1>5 DEF TextOf, b, z

(* A window obeys a text that stands for metadata, a site and selectors.     *)
EntersAs(w, i, text, meta, site, selectors) ==
  /\ text \in Text /\ Told(w, text, meta) \in Window
  /\ on_zcode_editingFinished([w EXCEPT !.text = text]) =
       IF i # w.index
       THEN reloadRepository(i, setSite(Told(w, text, meta), site), selectors)
       ELSE applyCodeSelectors(setSite(Told(w, text, meta), site), selectors)

LEMMA ZcodeObeyed ==
  ASSUME NEW w \in Window, NEW i \in Int,
         NEW C, C \cap Controls = {}, NEW meta, \A f \in Fields : meta[f] \in Seq(C),
         NEW site \in 1 .. 3, NEW size \in Nat, NEW selected \in SUBSET (1 .. size),
         Telling(selected, meta, site)
  PROVE  EntersAs(w, i, TextOf(i, selected, size, meta, site), Coded(meta), site,
                  Rows(selected, Max(selected)))
  <1> DEFINE letters == encode_zcode_arr01(Reverse(ZcodeBits(selected, size, meta, site)))
             t == TextOf(i, selected, size, meta, site)
             c == Coded(meta)
             u == Told(w, t, c)
             v == [w EXCEPT !.text = t]
             r == [text |-> t, index |-> w.index, selected |-> w.selected,
                   meta |-> w.meta, site |-> w.site]
             bits == Reverse(decode_zcode(letters))
             data == process_meta_data(bits)
             rows == Rows(selected, Max(selected))
             selectors == WithoutVersion(SubSeq(bits, data.skip + 1, Len(bits)))
  <1>1. /\ letters # <<>>
        /\ \A f \in Fields : data.decoded[f] = c[f]
        /\ DecodedSite(data.decoded["site"]) = site
        /\ selectors = rows
    <2>1. ReadAs(letters, c, site, rows)
      BY ZcodeReadAsWritten
    <2> HIDE DEF letters, c, rows
    <2> QED BY <2>1 DEF ReadAs
  <1>2. t \in Text
    BY TextOfType
  <1>3. t = [form |-> "number", index |-> i, letters |-> letters]
    BY DEF TextOf, NumberText
  <1>4. c \in [Fields -> Seq(Characters)]
    BY CodedMeta
  <1> HIDE DEF letters, t, c
  <1>5. w.index \in Int /\ w.selected \in SUBSET Nat /\ w.meta \in [Fields -> Seq(Characters)]
        /\ w.site \in 1 .. 3
    BY WindowFields
  <1>6. u \in Window
    BY <1>2, <1>4, <1>5, WindowMade DEF Told
  <1>7. v = r /\ r \in Window
    BY <1>2, <1>5, WindowFields, WindowMade
  <1>8. t.form = "number" /\ t.index = i /\ t.letters = letters
    BY <1>3
  <1> HIDE DEF v
  <1>9. on_zcode_editingFinished(r) = ObeyText(r, t)
    BY <1>8 DEF on_zcode_editingFinished, InputText
  <1>10. [r EXCEPT !.text = t] = r
    OBVIOUS
  <1>11. ObeyText(r, t) = Obey(r, i, bits, data)
    <2>1. HasCorrectData(t) /\ InputIndex(t) = i
      BY <1>1, <1>8 DEF HasCorrectData, InputIndex
    <2> HIDE DEF r
    <2> QED BY <1>8, <1>10, <2>1 DEF ObeyText, ObeyBits
  <1>12. [r EXCEPT !.meta = [f \in Fields |-> data.decoded[f]]] = u
    <2>1. [f \in Fields |-> data.decoded[f]] = c
      <3>1. c = [f \in Fields |-> c[f]]
        BY <1>4
      <3> QED BY <1>1, <3>1
    <2>2. [r EXCEPT !.meta = c] = u
      BY DEF Told
    <2> QED BY <2>1, <2>2
  <1>13. r.index = w.index
    OBVIOUS
  <1> HIDE DEF r, bits, data, rows
  <1>14. Obey(r, i, bits, data) =
           IF i # w.index THEN reloadRepository(i, setSite(u, site), rows)
           ELSE applyCodeSelectors(setSite(u, site), rows)
    BY <1>1, <1>12, <1>13 DEF Obey
  <1> HIDE DEF u
  <1>15. on_zcode_editingFinished(v) =
           IF i # w.index THEN reloadRepository(i, setSite(u, site), rows)
           ELSE applyCodeSelectors(setSite(u, site), rows)
    BY <1>7, <1>9, <1>11, <1>14
  <1> QED BY <1>2, <1>6, <1>15 DEF EntersAs, t, u, c, v, rows

LEMMA SiteKept ==
  ASSUME NEW w, NEW text, NEW meta
  PROVE  setSite(Told(w, text, meta), w.site) = Told(w, text, meta)
  BY DEF setSite, Told

(* Selectors that are not beyond the zekylls are applied and nothing else.   *)
LEMMA AppliedOnly ==
  ASSUME NEW w, NEW text, NEW meta, NEW selectors, NEW n \in Nat,
         SizeOf(w.index) = n, ~ (Len(selectors) > n)
  PROVE  applyCodeSelectors(Told(w, text, meta), selectors) =
           [text |-> text, index |-> w.index,
            selected |-> {r \in 1 .. n : r <= Len(selectors) /\ selectors[r] = 1},
            meta |-> meta, site |-> w.site]
  <1> DEFINE u == Told(w, text, meta)
             s == {r \in 1 .. n : r <= Len(selectors) /\ selectors[r] = 1}
  <1>1. u.index = w.index
    BY DEF Told
  <1>2. [u EXCEPT !.selected = s] =
          [text |-> text, index |-> w.index, selected |-> s, meta |-> meta, site |-> w.site]
    <2> HIDE DEF s
    <2> QED BY ONLY DEF Told
  <1> HIDE DEF u
  <1>3. applyCodeSelectors(u, selectors) = [u EXCEPT !.selected = s]
    BY <1>1 DEF applyCodeSelectors
  <1> QED BY <1>2, <1>3 DEF u

-----------------------------------------------------------------------------
(* What visiting the field and entering a Zcode do to the window.            *)

LEMMA WindowMeta ==
  ASSUME NEW w \in Window
  PROVE  /\ \A f \in Fields : w.meta[f] \in Seq(Characters)
         /\ w.index \in Int /\ w.site \in 1 .. 3
         /\ Characters \cap Controls = {}
  BY WindowFields, CharactersCoded

LEMMA VisitStep ==
  ASSUME NEW w, WellTyped(w), Telling(w.selected, w.meta, w.site)
  PROVE  on_zcode_editingFinished(recomputeZcode(w))
           = [recomputeZcode(w) EXCEPT !.meta = Coded(@)]
  <1> DEFINE n == SizeOf(w.index)
             text == TextOf(w.index, w.selected, n, w.meta, w.site)
             c == Coded(w.meta)
             rows == Rows(w.selected, Max(w.selected))
             told == Told(w, text, c)
             kept == [text |-> text, index |-> w.index, selected |-> w.selected,
                      meta |-> c, site |-> w.site]
             r == [text |-> text, index |-> w.index, selected |-> w.selected,
                   meta |-> w.meta, site |-> w.site]
  <1>1. w \in Window /\ w.selected \in SUBSET (1 .. n) /\ n \in Nat
    BY SizesAreNumbers DEF WellTyped
  <1>2. /\ \A f \in Fields : w.meta[f] \in Seq(Characters)
        /\ w.index \in Int /\ w.site \in 1 .. 3
        /\ Characters \cap Controls = {}
    BY <1>1, WindowMeta
  <1>3. recomputeZcode(w) = [w EXCEPT !.text = text]
    BY DEF recomputeZcode, WindowBits, TextOf
  <1>4. [w EXCEPT !.text = text] = r
    BY <1>1, WindowFields
  <1>5. w.selected # {}
    BY DEF Telling
  <1> HIDE DEF n
  <1>6. on_zcode_editingFinished([w EXCEPT !.text = text]) =
          applyCodeSelectors(setSite(told, w.site), rows)
    <2>1. on_zcode_editingFinished([w EXCEPT !.text = text]) =
            IF w.index # w.index THEN reloadRepository(w.index, setSite(told, w.site), rows)
            ELSE applyCodeSelectors(setSite(told, w.site), rows)
      <3>1. EntersAs(w, w.index, text, c, w.site, rows)
        BY <1>1, <1>2, ZcodeObeyed
      <3> HIDE DEF text, c, rows
      <3> QED BY <3>1 DEF EntersAs
    <2> HIDE DEF text, told, rows
    <2> QED BY <2>1
  <1>7. setSite(told, w.site) = told
    BY SiteKept
  <1>8. /\ Len(rows) = Max(w.selected) /\ Max(w.selected) \in 1 .. n
        /\ {k \in 1 .. n : k <= Len(rows) /\ rows[k] = 1} = w.selected \cap 1 .. n
    BY <1>1, <1>5, RowsSelected
  <1>9. ~ (Len(rows) > n) /\ w.selected \cap 1 .. n = w.selected
    BY <1>1, <1>8
  <1> HIDE DEF rows
  <1>10. applyCodeSelectors(told, rows) =
           [text |-> text, index |-> w.index,
            selected |-> {k \in 1 .. n : k <= Len(rows) /\ rows[k] = 1},
            meta |-> c, site |-> w.site]
    <2>1. SizeOf(w.index) = n
      BY DEF n
    <2> HIDE DEF text, c
    <2> QED BY <1>1, <1>9, <2>1, AppliedOnly
  <1> HIDE DEF told
  <1>11. on_zcode_editingFinished(recomputeZcode(w)) = kept
    <2> HIDE DEF text, c
    <2> QED BY <1>3, <1>6, <1>7, <1>8, <1>9, <1>10
  <1>12. [recomputeZcode(w) EXCEPT !.meta = Coded(@)] = kept
    <2> HIDE DEF text
    <2>1. [r EXCEPT !.meta = Coded(@)] = kept
      OBVIOUS
    <2> HIDE DEF r, kept
    <2> QED BY <1>3, <1>4, <2>1
  <1> QED BY <1>11, <1>12

LEMMA EntryStep ==
  ASSUME NEW w, WellTyped(w), NEW i \in Int, NEW z \in Known,
         Telling(z.selected, z.meta, z.site)
  PROVE  LET text == TextOf(i, z.selected, z.size, z.meta, z.site)
             new == on_zcode_editingFinished([w EXCEPT !.text = text])
         IN  /\ new.index = i /\ new.meta = Coded(z.meta) /\ new.site = z.site
             /\ new.selected = z.selected \cap 1 .. SizeOf(i)
  <1> DEFINE text == TextOf(i, z.selected, z.size, z.meta, z.site)
             new == on_zcode_editingFinished([w EXCEPT !.text = text])
             u == Told(w, text, Coded(z.meta))
             told == setSite(u, z.site)
             rows == Rows(z.selected, Max(z.selected))
             n == SizeOf(i)
  <1>1. w \in Window /\ n \in Nat
    BY SizesAreNumbers DEF WellTyped
  <1>2. /\ z.selected \in SUBSET (1 .. z.size) /\ z.size \in Nat /\ z.site \in 1 .. 3
        /\ \A f \in Fields : z.meta[f] \in Seq(STRING \ Controls)
        /\ (STRING \ Controls) \cap Controls = {}
    BY KnownCharacters
  <1>3. z.selected # {}
    BY DEF Telling
  <1>4. /\ u \in Window
        /\ new = IF i # w.index THEN reloadRepository(i, told, rows)
                 ELSE applyCodeSelectors(told, rows)
    <2> DEFINE c == Coded(z.meta)
    <2>1. EntersAs(w, i, text, c, z.site, rows)
      BY <1>1, <1>2, ZcodeObeyed
    <2> HIDE DEF text, c, rows
    <2>2. /\ Told(w, text, c) \in Window
          /\ on_zcode_editingFinished([w EXCEPT !.text = text]) =
               IF i # w.index
               THEN reloadRepository(i, setSite(Told(w, text, c), z.site), rows)
               ELSE applyCodeSelectors(setSite(Told(w, text, c), z.site), rows)
      BY <2>1 DEF EntersAs
    <2> QED BY <2>2 DEF c
  <1> HIDE DEF n
  <1>5. {k \in 1 .. n : k <= Len(rows) /\ rows[k] = 1} = z.selected \cap 1 .. n
    BY <1>1, <1>2, <1>3, RowsSelected
  <1>6. u.index = w.index /\ u.meta = Coded(z.meta)
    BY DEF Told
  <1> HIDE DEF text, new, u, rows
  <1>7. /\ told \in Window /\ told.index = w.index /\ told.meta = Coded(z.meta)
        /\ told.site = z.site
    BY <1>2, <1>4, <1>6, SetSiteType
  <1> HIDE DEF told
  <1>8. /\ new.index = i /\ new.meta = Coded(z.meta) /\ new.site = z.site
        /\ new.selected = {k \in 1 .. n : k <= Len(rows) /\ rows[k] = 1}
    <2>1. CASE i # w.index
      BY <1>4, <1>7, <2>1, ReloadType DEF n
    <2>2. CASE i = w.index
      BY <1>4, <1>7, <2>2, ApplyType DEF n
    <2> QED BY <2>1, <2>2
  <1> QED BY <1>5, <1>8 DEF new, text, n

-----------------------------------------------------------------------------
(* Texts that would be computed again.                                       *)

Computed(w) == w.text = recomputeZcode(w).text

LEMMA RecomputedIsComputed ==
  ASSUME NEW w \in Window
  PROVE  Computed(recomputeZcode(w))
  <1> DEFINE v == recomputeZcode(w)
  <1>1. /\ v \in Window /\ v.index = w.index /\ v.selected = w.selected
        /\ v.meta = w.meta /\ v.site = w.site
        /\ v.text = NumberText(w.index, encode_zcode_arr01(Reverse(WindowBits(w))))
    BY RecomputeType
  <1> HIDE DEF v
  <1>2. recomputeZcode(v).text =
          NumberText(v.index, encode_zcode_arr01(Reverse(WindowBits(v))))
    BY <1>1, RecomputeType
  <1>3. WindowBits(v) = WindowBits(w)
    BY <1>1 DEF WindowBits
  <1> QED BY <1>1, <1>2, <1>3 DEF Computed, v

LEMMA TruncatedIsComputed ==
  ASSUME NEW w \in Window, NEW selectors, Len(selectors) > SizeOf(w.index)
  PROVE  Computed(applyCodeSelectors(w, selectors))
  <1> DEFINE s == {r \in 1 .. SizeOf(w.index) : r <= Len(selectors) /\ selectors[r] = 1}
             v == [w EXCEPT !.selected = s]
             r == [text |-> w.text, index |-> w.index, selected |-> s, meta |-> w.meta,
                   site |-> w.site]
  <1>1. applyCodeSelectors(w, selectors) = recomputeZcode(v)
    BY DEF applyCodeSelectors
  <1>2. SizeOf(w.index) \in Nat
    BY SizesAreNumbers
  <1>3. s \in SUBSET Nat
    <2>1. \A k \in 1 .. SizeOf(w.index) : k \in Nat
      BY <1>2
    <2> QED BY <2>1
  <1> HIDE DEF s
  <1>4. v = r /\ r \in Window
    BY <1>3, WindowFields, WindowMade
  <1> HIDE DEF v, r
  <1> QED BY <1>1, <1>4, RecomputedIsComputed

LEMMA ReloadedIsComputed ==
  ASSUME NEW w \in Window, NEW i \in Int, NEW selectors
  PROVE  Computed(reloadRepository(i, w, selectors))
  <1> DEFINE v == [w EXCEPT !.index = i]
             r == [text |-> w.text, index |-> i, selected |-> w.selected, meta |-> w.meta,
                   site |-> w.site]
             a == applyCodeSelectors(v, selectors)
  <1>1. reloadRepository(i, w, selectors) = recomputeZcode(a)
    BY DEF reloadRepository
  <1>2. v = r /\ r \in Window
    BY WindowFields, WindowMade
  <1> HIDE DEF v, r
  <1>3. a \in Window
    BY <1>2, ApplyType DEF WellTyped
  <1> HIDE DEF a
  <1> QED BY <1>1, <1>3, RecomputedIsComputed

LEMMA SameMetaBits ==
  ASSUME NEW C, C \cap Controls = {}, NEW meta, \A f \in Fields : meta[f] \in Seq(C),
         NEW site \in 1 .. 3, Coded(Coded(meta)) = Coded(meta)
  PROVE  MetaBits(Coded(meta), site) = MetaBits(meta, site)
  <1> DEFINE c == Coded(meta)
             s == codes["ss"]
  <1>1. MetaBits(meta, site) =
          BitsRemoveIfStartStop((s \o Written(MetaWords(c, site))) \o s)
    BY MetaWordsWritten
  <1>2. \A f \in Fields : c[f] \in Seq(Plain)
    BY CodedMeta
  <1>3. Coded(c) = c
    OBVIOUS
  <1> HIDE DEF c
  <1>4. MetaBits(c, site) =
          BitsRemoveIfStartStop((s \o Written(MetaWords(Coded(c), site))) \o s)
    <2>1. Plain \cap Controls = {}
      BY CharactersCoded
    <2> QED BY ONLY <1>2, <2>1, site \in 1 .. 3, MetaWordsWritten
  <1> QED BY <1>1, <1>3, <1>4 DEF c

(* Metadata in which no name of a field and no mark is taken for a character.*)
Codable(meta) == \A f \in Fields : meta[f] \in Seq(STRING \ Controls)

(* The text of a Zcode does not depend on how many zekylls an index has      *)
(* after the last one that is selected.                                      *)
LEMMA SameTextOf ==
  ASSUME NEW meta, Codable(meta), NEW site \in 1 .. 3, Coded(Coded(meta)) = Coded(meta),
         NEW size \in Nat, NEW n \in Nat, NEW selected \in SUBSET (1 .. size),
         selected \subseteq 1 .. n, selected # {}, NEW i
  PROVE  TextOf(i, selected, size, meta, site) = TextOf(i, selected, n, Coded(meta), site)
  <1> DEFINE C == STRING \ Controls
             c == Coded(meta)
             a == MetaBits(meta, site)
             max == Max(selected)
             y == a \o (Version \o Rows(selected, size))
             z == a \o (Version \o Rows(selected, n))
             m == Len(a) + (max + 2)
             cut == a \o (Version \o Rows(selected, max))
  <1>0. C \cap Controls = {} /\ \A f \in Fields : meta[f] \in Seq(C)
    BY DEF Codable
  <1> HIDE DEF C
  <1>1. MetaBits(c, site) = a
    BY <1>0, SameMetaBits
  <1>2. a \in Seq(Bit) /\ ZcodeBits(selected, size, meta, site) = y
    <2>1. MetaBits(meta, site) \in Seq(Bit)
      BY <1>0, MetaType
    <2>2. ZcodeBits(selected, size, meta, site) =
            MadeOf(MetaBits(meta, site), selected, size)
      BY <1>0, ZcodeBitsAre
    <2> QED BY ONLY <2>1, <2>2 DEF MadeOf
  <1>3. ZcodeBits(selected, n, c, site) = z
    <2>1. \A f \in Fields : c[f] \in Seq(Plain)
      BY <1>0, CodedMeta
    <2> HIDE DEF c
    <2>2. ZcodeBits(selected, n, c, site) = MadeOf(MetaBits(c, site), selected, n)
      BY <2>1, ZcodeBitsAre
    <2> HIDE DEF a
    <2> QED BY <1>1, <2>2 DEF MadeOf, c
  <1> HIDE DEF a
  <1>4. m \in Nat /\ LastBit(y, m) /\ SubSeq(y, 1, m) = cut /\ y \in Seq(Bit)
    <2>1. y \in Seq(Bit)
      BY <1>2, ZcodeAt
    <2>2. m \in Nat /\ LastBit(y, m) /\ SubSeq(y, 1, m) = cut
      BY <1>2, ZcodeCut
    <2> QED BY ONLY <2>1, <2>2
  <1>5. LastBit(z, m) /\ SubSeq(z, 1, m) = cut /\ z \in Seq(Bit)
    <2>1. z \in Seq(Bit)
      BY <1>2, ZcodeAt
    <2>2. LastBit(z, m) /\ SubSeq(z, 1, m) = cut
      <3>1. a \in Seq(Bit) /\ selected \in SUBSET (1 .. n) /\ selected # {}
        BY <1>2
      <3> QED BY ONLY <3>1, n \in Nat, ZcodeCut
    <2> QED BY ONLY <2>1, <2>2
  <1> HIDE DEF y, z, m, cut
  <1>6. \A k \in 1 .. m : y[k] = z[k]
    <2>1. m <= Len(y) /\ m <= Len(z)
      BY <1>4, <1>5 DEF LastBit
    <2>2. \A k \in 1 .. m : cut[k] = y[k]
      BY <1>4, <2>1, Beginning
    <2>3. \A k \in 1 .. m : cut[k] = z[k]
      BY <1>4, <1>5, <2>1, Beginning
    <2> QED BY <2>2, <2>3
  <1>7. encode_zcode_arr01(Reverse(y)) = encode_zcode_arr01(Reverse(z))
    BY <1>4, <1>5, <1>6, SameText
  <1> QED BY <1>2, <1>3, <1>7 DEF TextOf, c

LEMMA EnteredTextStep ==
  ASSUME NEW w, WellTyped(w), NEW i \in Int, NEW z \in Known, NEW text, NEW new,
         text = TextOf(i, z.selected, z.size, z.meta, z.site),
         new = on_zcode_editingFinished([w EXCEPT !.text = text]),
         new.index = w.index =>
           /\ Telling(z.selected, z.meta, z.site) /\ z.site = w.site
           /\ Coded(Coded(z.meta)) = Coded(z.meta)
  PROVE  Computed(new)
  <1> DEFINE v == [w EXCEPT !.text = text]
             r == [text |-> text, index |-> w.index, selected |-> w.selected,
                   meta |-> w.meta, site |-> w.site]
             bits == Reverse(decode_zcode(text.letters))
             data == process_meta_data(bits)
             letters == encode_zcode_arr01(
                          Reverse(ZcodeBits(z.selected, z.size, z.meta, z.site)))
  <1>1. w \in Window /\ w.index \in Int /\ w.site \in 1 .. 3
    BY WindowFields DEF WellTyped
  <1>2. /\ z.selected \in SUBSET (1 .. z.size) /\ z.size \in Nat /\ z.site \in 1 .. 3
        /\ \A f \in Fields : z.meta[f] \in Seq(STRING \ Controls)
        /\ (STRING \ Controls) \cap Controls = {}
    BY KnownCharacters
  <1>3. text \in Text
    BY <1>2, TextOfType
  <1>4. text.form = "number" /\ text.index = i /\ text.letters \in Seq(0 .. 36)
    <2>1. text = [form |-> "number", index |-> i, letters |-> letters]
      BY DEF TextOf, NumberText
    <2> HIDE DEF letters
    <2> QED BY <1>3, <2>1 DEF Text, Radix
  <1>5. v = r /\ r \in Window
    <2>1. /\ w.text \in Text /\ w.index \in Int /\ w.selected \in SUBSET Nat
          /\ w.meta \in [Fields -> Seq(Characters)] /\ w.site \in 1 .. 3
          /\ [w EXCEPT !.text = text] = r
      BY <1>1, WindowFields
    <2> QED BY <1>3, <2>1, WindowMade
  <1> HIDE DEF v
  <1>6. r.index = w.index /\ r.text = text /\ [r EXCEPT !.text = text] = r
    OBVIOUS
  <1> HIDE DEF r
  <1>7. new = ObeyText(r, text)
    BY <1>4, <1>5, <1>6 DEF v, on_zcode_editingFinished, InputText
  <1>8. CASE new.index = w.index
    <2> DEFINE c == Coded(z.meta)
               rows == Rows(z.selected, Max(z.selected))
               u == Told(w, text, c)
               n == SizeOf(i)
               chosen == {k \in 1 .. n : k <= Len(rows) /\ rows[k] = 1}
    <2>1. /\ Telling(z.selected, z.meta, z.site) /\ z.site = w.site
          /\ Coded(Coded(z.meta)) = Coded(z.meta)
      BY <1>8
    <2>2. new.index = i
      BY <2>1, EntryStep
    <2>3. i = w.index
      BY <1>8, <2>2
    <2>4. z.selected # {}
      BY <2>1 DEF Telling
    <2>5. u \in Window /\ new = applyCodeSelectors(setSite(u, z.site), rows)
      <3>1. EntersAs(w, i, text, c, z.site, rows)
        BY <1>1, <1>2, <2>1, ZcodeObeyed
      <3> HIDE DEF rows, c
      <3> QED BY <2>3, <3>1 DEF EntersAs, v
    <2>6. setSite(u, z.site) = u
      BY <2>1, SiteKept
    <2>7. n \in Nat
      BY SizesAreNumbers
    <2> HIDE DEF n
    <2>8. /\ Len(rows) = Max(z.selected) /\ Max(z.selected) \in 1 .. z.size
          /\ chosen = z.selected \cap 1 .. n
          /\ Max(z.selected) <= n => z.selected \subseteq 1 .. n
      BY <1>2, <2>4, <2>7, RowsSelected
    <2> HIDE DEF rows
    <2>9. u.index = w.index
      BY DEF Told
    <2>10. CASE Len(rows) > n
      <3> HIDE DEF u
      <3>1. Computed(applyCodeSelectors(u, rows))
        BY <2>3, <2>5, <2>9, <2>10, TruncatedIsComputed DEF n
      <3> QED BY <2>5, <2>6, <3>1
    <2>11. CASE ~ (Len(rows) > n)
      <3>1. z.selected \subseteq 1 .. n /\ chosen = z.selected
        <4>1. Max(z.selected) <= n
          BY <1>2, <2>7, <2>8, <2>11
        <4> QED BY <2>8, <4>1
      <3> DEFINE now == [text |-> text, index |-> w.index, selected |-> z.selected,
                         meta |-> c, site |-> w.site]
      <3>2. new = now
        <4>1. applyCodeSelectors(u, rows) =
                [text |-> text, index |-> w.index, selected |-> chosen, meta |-> c,
                 site |-> w.site]
          <5>1. SizeOf(w.index) = n
            BY <2>3 DEF n
          <5> HIDE DEF c
          <5> QED BY ONLY <2>7, <2>11, <5>1, AppliedOnly
        <4> HIDE DEF u, c, chosen
        <4> QED BY <2>5, <2>6, <3>1, <4>1
      <3>3. text = TextOf(i, z.selected, n, c, z.site)
        <4>1. Coded(Coded(z.meta)) = Coded(z.meta)
          BY <2>1
        <4>2. z.selected \subseteq 1 .. n
          BY <3>1
        <4>3. TextOf(i, z.selected, z.size, z.meta, z.site)
                = TextOf(i, z.selected, n, Coded(z.meta), z.site)
          <5> DEFINE meta == z.meta
                     selected == z.selected
                     size == z.size
                     site == z.site
          <5>1. /\ Codable(meta) /\ site \in 1 .. 3 /\ Coded(Coded(meta)) = Coded(meta)
                /\ size \in Nat /\ selected \in SUBSET (1 .. size)
                /\ selected \subseteq 1 .. n /\ selected # {}
            BY <1>2, <2>4, <4>1, <4>2 DEF Codable
          <5> HIDE DEF meta, selected, size, site
          <5>2. TextOf(i, selected, size, meta, site)
                  = TextOf(i, selected, n, Coded(meta), site)
            BY ONLY <2>7, <5>1, SameTextOf
          <5> QED BY <5>2 DEF meta, selected, size, site
        <4> QED BY <4>3
      <3>4. recomputeZcode(now).text = TextOf(w.index, z.selected, n, c, w.site)
        <4>1. SizeOf(w.index) = n
          BY <2>3 DEF n
        <4> HIDE DEF c
        <4>2. WindowBits(now) = ZcodeBits(z.selected, n, c, w.site)
          BY <4>1 DEF WindowBits
        <4>3. recomputeZcode(now).text =
                NumberText(now.index, encode_zcode_arr01(Reverse(WindowBits(now))))
          BY DEF recomputeZcode
        <4> QED BY <4>2, <4>3 DEF TextOf
      <3>5. now.text = text
        OBVIOUS
      <3> HIDE DEF now, c
      <3>6. now.text = recomputeZcode(now).text
        BY <2>1, <2>3, <3>3, <3>4, <3>5
      <3> QED BY <3>2, <3>6 DEF Computed
    <2> QED BY <2>10, <2>11
  <1>9. CASE new.index # w.index
    <2>1. HasCorrectData(text)
      <3>1. SUFFICES ASSUME ~ HasCorrectData(text) PROVE FALSE
        OBVIOUS
      <3>2. new = r
        BY <1>6, <1>7, <3>1 DEF ObeyText
      <3> QED BY <1>6, <1>9, <3>2
    <2>2. InputIndex(text) = i
      BY <1>4 DEF InputIndex
    <2>3. new = Obey(r, i, bits, data)
      BY <1>4, <1>6, <1>7, <2>1, <2>2 DEF ObeyText, ObeyBits
    <2>4. bits \in Seq(Bit)
      BY <1>4, DecodedBits, ReverseType
    <2> HIDE DEF bits
    <2>5. \A f \in Fields : data.decoded[f] \in Seq(Plain)
      BY <2>4, MetaDataType
    <2> HIDE DEF data
    <2> DEFINE meta == [f \in Fields |-> data.decoded[f]]
               site == DecodedSite(data.decoded["site"])
               told == [r EXCEPT !.meta = meta]
               sited == setSite(told, site)
               selectors == WithoutVersion(SubSeq(bits, data.skip + 1, Len(bits)))
    <2>6. Obey(r, i, bits, data) =
            IF i # r.index THEN reloadRepository(i, sited, selectors)
            ELSE applyCodeSelectors(sited, selectors)
      BY DEF Obey
    <2>7. meta \in [Fields -> Seq(Characters)] /\ site \in 1 .. 3
      <3>1. Plain \subseteq Characters
        BY DEF Plain, Characters
      <3>2. \A f \in Fields : data.decoded[f] \in Seq(Characters)
        BY <2>5, <3>1, SeqMonotonic
      <3>3. meta \in [Fields -> Seq(Characters)]
        BY <3>2
      <3>4. site \in 1 .. 3
        BY DEF DecodedSite
      <3> QED BY ONLY <3>3, <3>4
    <2> HIDE DEF meta, site
    <2>8. told \in Window
      <3>1. /\ r.text \in Text /\ r.index \in Int /\ r.selected \in SUBSET Nat
            /\ r.site \in 1 .. 3
            /\ told = [text |-> r.text, index |-> r.index, selected |-> r.selected,
                       meta |-> meta, site |-> r.site]
        BY <1>5, WindowFields
      <3> HIDE DEF told
      <3> QED BY <2>7, <3>1, WindowMade
    <2> HIDE DEF told
    <2>9. sited \in Window
      BY <2>7, <2>8, SetSiteType
    <2>10. new.index = i
      BY <1>5, <2>3, <2>5, ObeyType
    <2> HIDE DEF sited, selectors
    <2>11. new = reloadRepository(i, sited, selectors)
      BY <1>6, <1>9, <2>3, <2>6, <2>10
    <2> QED BY <2>9, <2>11, ReloadedIsComputed
  <1> QED BY <1>8, <1>9

-----------------------------------------------------------------------------
(* The steps of the window.                                                  *)

LEMMA OtherSteps ==
  ASSUME Next
  PROVE  \/ last'.op = "other"
         \/ VisitZcode /\ last'.op = "visit"
         \/ \E i \in DOMAIN Sizes, z \in Known :
              /\ EnterZcode(i, z) /\ last'.op = "enter"
              /\ last'.index = i /\ last'.zcode = z
  <1>1. Other.op = "other"
    BY DEF Other
  <1>2. ASSUME NEW r \in Boxes, ClickBox(r) PROVE last'.op = "other"
    BY <1>1, <1>2 DEF ClickBox
  <1>3. ASSUME NEW f \in Fields, NEW v \in Values[f], EditField(f, v)
        PROVE  last'.op = "other"
    BY <1>1, <1>3 DEF EditField
  <1>4. ASSUME NEW site \in Sites, ChooseSite(site) PROVE last'.op = "other"
    BY <1>1, <1>4 DEF ChooseSite
  <1>5. ASSUME NEW i \in DOMAIN Sizes, GoToIndex(i) PROVE last'.op = "other"
    BY <1>1, <1>5 DEF GoToIndex
  <1>6. ASSUME VisitZcode PROVE VisitZcode /\ last'.op = "visit"
    <2>1. last' = [op |-> "visit"]
      BY <1>6 DEF VisitZcode
    <2> QED BY <1>6, <2>1
  <1>7. ASSUME NEW i \in DOMAIN Sizes, NEW z \in Known, EnterZcode(i, z)
        PROVE  last'.op = "enter" /\ last'.index = i /\ last'.zcode = z
    <2>1. last' = [op |-> "enter", index |-> i, zcode |-> z]
      BY <1>7 DEF EnterZcode
    <2> QED BY <2>1
  <1>8. ASSUME NEW t \in Texts, EnterText(t) PROVE last'.op = "other"
    BY <1>1, <1>8 DEF EnterText
  <1> QED BY <1>2, <1>3, <1>4, <1>5, <1>6, <1>7, <1>8 DEF Next

LEMMA VisitKeeps ==
  ASSUME TypeOK, Next, last'.op = "visit", Telling(win.selected, win.meta, win.site)
  PROVE  win' = [recomputeZcode(win) EXCEPT !.meta = Coded(@)]
  <1>1. VisitZcode
    BY OtherSteps
  <1>2. win' = on_zcode_editingFinished(recomputeZcode(win))
    BY <1>1 DEF VisitZcode
  <1>3. WellTyped(win)
    BY DEF TypeOK, WellTyped
  <1> QED BY <1>2, <1>3, VisitStep

(* What EnterZcode does, as a function of the window.                        *)
LEMMA EntryIs ==
  ASSUME TypeOK, Next, last'.op = "enter"
  PROVE  /\ WellTyped(win) /\ last'.index \in Int /\ last'.zcode \in Known
         /\ LET z == last'.zcode
            IN  win' = on_zcode_editingFinished(
                         [win EXCEPT !.text = TextOf(last'.index, z.selected, z.size,
                                                     z.meta, z.site)])
  <1>1. PICK i \in DOMAIN Sizes, z \in Known :
          EnterZcode(i, z) /\ last'.index = i /\ last'.zcode = z
    BY OtherSteps
  <1>2. win' = on_zcode_editingFinished(
                 [win EXCEPT !.text = TextOf(i, z.selected, z.size, z.meta, z.site)])
    BY <1>1 DEF EnterZcode, TextOf
  <1>3. WellTyped(win) /\ i \in Int
    BY SizesAssumption DEF TypeOK, WellTyped
  <1> QED BY <1>1, <1>2, <1>3

LEMMA EntryKept ==
  ASSUME TypeOK, Next, last'.op = "enter",
         Telling(last'.zcode.selected, last'.zcode.meta, last'.zcode.site)
  PROVE  LET z == last'.zcode
         IN  /\ win'.index = last'.index
             /\ win'.meta = Coded(z.meta) /\ win'.site = z.site
             /\ win'.selected = z.selected \cap 1 .. SizeOf(win'.index)
  <1> DEFINE i == last'.index
             z == last'.zcode
             text == TextOf(i, z.selected, z.size, z.meta, z.site)
  <1>1. WellTyped(win) /\ i \in Int /\ z \in Known
        /\ win' = on_zcode_editingFinished([win EXCEPT !.text = text])
    BY EntryIs
  <1>2. Telling(z.selected, z.meta, z.site)
    OBVIOUS
  <1> HIDE DEF i, z
  <1>3. /\ win'.index = i /\ win'.meta = Coded(z.meta) /\ win'.site = z.site
        /\ win'.selected = z.selected \cap 1 .. SizeOf(i)
    BY <1>1, <1>2, EntryStep
  <1> QED BY <1>3 DEF i, z

LEMMA EntryStands ==
  ASSUME TypeOK, Next, last'.op = "enter",
         LET z == last'.zcode
         IN  win'.index = win.index =>
               /\ Telling(z.selected, z.meta, z.site) /\ z.site = win.site
               /\ Coded(Coded(z.meta)) = Coded(z.meta)
  PROVE  win'.text = recomputeZcode(win').text
  <1> DEFINE i == last'.index
             z == last'.zcode
             text == TextOf(i, z.selected, z.size, z.meta, z.site)
             new == win'
  <1>1. WellTyped(win) /\ i \in Int /\ z \in Known
        /\ new = on_zcode_editingFinished([win EXCEPT !.text = text])
    BY EntryIs
  <1>2. new.index = win.index =>
          /\ Telling(z.selected, z.meta, z.site) /\ z.site = win.site
          /\ Coded(Coded(z.meta)) = Coded(z.meta)
    OBVIOUS
  <1>3. text = TextOf(i, z.selected, z.size, z.meta, z.site)
    OBVIOUS
  <1> HIDE DEF i, z, text, new
  <1>4. Computed(new)
    BY <1>1, <1>2, <1>3, EnteredTextStep
  <1> QED BY <1>4 DEF Computed, new

(* Entering the field of the Zcode and leaving it again changes nothing but  *)
(* the characters that are not coded (MyQLineEdit::focusInEvent,             *)
(* on_zcode_editingFinished), for every index, selection and metadata: what  *)
(* is decoded on the way out is what was encoded on the way in.              *)
THEOREM VisitingKeepsAll == Spec => VisitKeepsAll
  <1>1. TypeOK /\ [Next]_vars
        => [last'.op = "visit" /\ Telling(win.selected, win.meta, win.site) =>
              win' = [recomputeZcode(win) EXCEPT !.meta = Coded(@)]]_vars
    BY VisitKeeps
  <1> QED BY <1>1, ZcodeTypeCorrect, PTL DEF Spec, VisitKeepsAll

(* A Zcode made by a program of the same kind is obeyed wherever it is       *)
(* entered (on_zcode_editingFinished): whatever index it names, whatever was *)
(* selected before and whether or not the repository is reloaded, the window *)
(* shows its index, metadata, site and selection.                            *)
THEOREM EnteredZcodeObeyed == Spec => EntryObeyed
  <1>1. TypeOK /\ [Next]_vars
        => [last'.op = "enter" =>
              LET z == last'.zcode
              IN  Telling(z.selected, z.meta, z.site) =>
                    /\ win'.index = last'.index
                    /\ win'.meta = Coded(z.meta) /\ win'.site = z.site
                    /\ win'.selected = z.selected \cap 1 .. SizeOf(win'.index)]_vars
    BY EntryKept
  <1> QED BY <1>1, ZcodeTypeCorrect, PTL DEF Spec, EntryObeyed

(* The text of a Zcode that was entered is the one the window would compute, *)
(* however many zekylls the index has that it was made for                   *)
(* (applyCodeSelectors, reloadRepository).                                   *)
THEOREM EnteredTextIsComputed == Spec => EnteredTextStands
  <1>1. TypeOK /\ [Next]_vars
        => [last'.op = "enter" =>
              LET z == last'.zcode
              IN  (win'.index = win.index =>
                     /\ Telling(z.selected, z.meta, z.site) /\ z.site = win.site
                     /\ Coded(Coded(z.meta)) = Coded(z.meta)) =>
                    win'.text = recomputeZcode(win').text]_vars
    BY EntryStands
  <1> QED BY <1>1, ZcodeTypeCorrect, PTL DEF Spec, EnteredTextStands

=============================================================================
