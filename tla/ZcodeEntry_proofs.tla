------------------------- MODULE ZcodeEntry_proofs --------------------------
(***************************************************************************)
(* The proof that the text of a Zcode and the bits it is computed from are *)
(* the same number, for every index, selection and metadata, and that      *)
(* decoding gives these bits again.                                        *)
(***************************************************************************)
EXTENDS ZcodeEntry, Sublists_proofs

-----------------------------------------------------------------------------
(* The number that digits are in a base.                                     *)

NumbersUpTo(digits, base) ==
  LET value[k \in 0 .. Len(digits)] ==
        IF k = 0 THEN 0 ELSE base * value[k - 1] + digits[k]
  IN  value

Number(digits, base) == NumbersUpTo(digits, base)[Len(digits)]

LEMMA Digits ==
  ASSUME NEW S, NEW s \in Seq(S)
  PROVE  /\ Len(s) \in Nat /\ DOMAIN s = 1 .. Len(s)
         /\ \A k \in 1 .. Len(s) : s[k] \in S
  BY LenProperties, ElementOfSeq

LEMMA Products ==
  /\ \A a, b \in Nat : a * b \in Nat
  /\ \A a, b, c \in Nat : a * (b + c) = a * b + a * c
  /\ \A a, b, c \in Nat : a * (b * c) = b * (a * c)
  OBVIOUS

LEMMA NumberSteps ==
  ASSUME NEW digits \in Seq(Nat), NEW base \in Nat
  PROVE  /\ NumbersUpTo(digits, base) \in [0 .. Len(digits) -> Nat]
         /\ NumbersUpTo(digits, base)[0] = 0
         /\ \A k \in 1 .. Len(digits) :
              NumbersUpTo(digits, base)[k] =
                base * NumbersUpTo(digits, base)[k - 1] + digits[k]
         /\ Number(digits, base) \in Nat
  <1> DEFINE n == Len(digits)
             value == NumbersUpTo(digits, base)
             after(k, m) == base * m + digits[k]
             step == [p \in (1 .. n) \X Nat |-> after(p[1], p[2])]
  <1>1. n \in Nat /\ \A k \in 1 .. n : digits[k] \in Nat
    BY Digits
  <1> HIDE DEF n
  <1>2. \A k \in 1 .. n, m \in Nat : after(k, m) \in Nat
    BY <1>1, Products
  <1>3. step \in [(1 .. n) \X Nat -> Nat]
    BY <1>2
  <1>4. \A k \in 1 .. n, m \in Nat : step[<<k, m>>] = after(k, m)
    OBVIOUS
  <1> HIDE DEF step
  <1>5. PICK f : Steps(f, n, Nat, 0, step)
    BY <1>1, <1>3, StepsExist
  <1>6. \A k \in 1 .. n : k - 1 \in 0 .. n /\ k # 0
    BY <1>1
  <1>7. \A k \in 1 .. n : f[k] = base * f[k - 1] + digits[k]
    BY <1>4, <1>5, <1>6 DEF Steps
  <1>8. f = [k \in 0 .. n |-> IF k = 0 THEN 0 ELSE base * f[k - 1] + digits[k]]
    <2>1. \A k \in 0 .. n : k = 0 \/ k \in 1 .. n
      BY <1>1
    <2>2. \A k \in 0 .. n : f[k] = IF k = 0 THEN 0 ELSE base * f[k - 1] + digits[k]
      BY <1>5, <1>7, <2>1 DEF Steps
    <2>3. f = [k \in 0 .. n |-> f[k]]
      BY <1>5 DEF Steps
    <2> QED BY <2>2, <2>3
  <1>9. value = CHOOSE g : g = [k \in 0 .. n |-> IF k = 0 THEN 0
                                                  ELSE base * g[k - 1] + digits[k]]
    BY DEF NumbersUpTo, n
  <1> HIDE DEF value
  <1>10. value = [k \in 0 .. n |-> IF k = 0 THEN 0 ELSE base * value[k - 1] + digits[k]]
    BY <1>8, <1>9
  <1>11. 0 \in 0 .. n /\ \A k \in 1 .. n : k \in 0 .. n
    BY <1>1
  <1>12. value[0] = 0 /\ \A k \in 1 .. n : value[k] = base * value[k - 1] + digits[k]
    BY <1>6, <1>10, <1>11
  <1>13. \A k \in 0 .. n : value[k] \in Nat
    <2> DEFINE T == {k \in Nat : k <= n => value[k] \in Nat}
    <2>1. 0 \in T
      BY <1>12
    <2>2. ASSUME NEW k \in Nat, k \in T PROVE k + 1 \in T
      <3>1. SUFFICES ASSUME k + 1 <= n PROVE value[k + 1] \in Nat
        OBVIOUS
      <3>2. k + 1 \in 1 .. n /\ (k + 1) - 1 = k /\ k <= n
        BY <1>1, <3>1
      <3>3. value[k] \in Nat /\ digits[k + 1] \in Nat
        BY <1>1, <2>2, <3>2
      <3>4. value[k + 1] = base * value[k] + digits[k + 1]
        BY <1>12, <3>2
      <3>5. base * value[k] \in Nat
        BY <3>3, Products
      <3> QED BY <3>3, <3>4, <3>5
    <2> HIDE DEF T
    <2>3. Nat \subseteq T
      BY <2>1, <2>2, SetInduction
    <2>4. \A k \in 0 .. n : k \in Nat /\ k <= n
      BY <1>1
    <2> QED BY <2>3, <2>4 DEF T
  <1>14. value \in [0 .. n -> Nat] /\ value[n] \in Nat
    BY <1>1, <1>10, <1>13
  <1> QED BY <1>12, <1>14 DEF value, n, Number

(* The number of a beginning depends on that beginning only.                 *)
LEMMA NumberPrefix ==
  ASSUME NEW s \in Seq(Nat), NEW t \in Seq(Nat), NEW base \in Nat,
         NEW m \in Nat, m <= Len(s), m <= Len(t),
         \A k \in 1 .. m : s[k] = t[k]
  PROVE  \A k \in 0 .. m : NumbersUpTo(s, base)[k] = NumbersUpTo(t, base)[k]
  <1> DEFINE f == NumbersUpTo(s, base)
             g == NumbersUpTo(t, base)
             T == {k \in Nat : k <= m => f[k] = g[k]}
  <1>1. /\ f[0] = 0 /\ g[0] = 0
        /\ \A k \in 1 .. Len(s) : f[k] = base * f[k - 1] + s[k]
        /\ \A k \in 1 .. Len(t) : g[k] = base * g[k - 1] + t[k]
    BY NumberSteps
  <1> HIDE DEF f, g
  <1>2. 0 \in T
    BY <1>1
  <1>3. ASSUME NEW k \in Nat, k \in T PROVE k + 1 \in T
    <2>1. SUFFICES ASSUME k + 1 <= m PROVE f[k + 1] = g[k + 1]
      OBVIOUS
    <2>2. /\ k + 1 \in 1 .. Len(s) /\ k + 1 \in 1 .. Len(t) /\ k + 1 \in 1 .. m
          /\ (k + 1) - 1 = k /\ k <= m
      BY <2>1, Digits
    <2>3. f[k] = g[k] /\ s[k + 1] = t[k + 1]
      BY <1>3, <2>2
    <2> QED BY <1>1, <2>2, <2>3
  <1> HIDE DEF T
  <1>4. Nat \subseteq T
    BY <1>2, <1>3, SetInduction
  <1>5. \A k \in 0 .. m : k \in Nat /\ k <= m
    OBVIOUS
  <1> QED BY <1>4, <1>5 DEF T, f, g

LEMMA NumberAppend ==
  ASSUME NEW s \in Seq(Nat), NEW x \in Nat, NEW base \in Nat
  PROVE  Number(Append(s, x), base) = base * Number(s, base) + x
  <1> DEFINE t == Append(s, x)
             n == Len(s)
  <1>1. n \in Nat /\ t \in Seq(Nat) /\ Len(t) = n + 1 /\ t[n + 1] = x
        /\ \A k \in 1 .. n : t[k] = s[k]
    BY AppendProperties, Digits
  <1> HIDE DEF t
  <1>2. NumbersUpTo(t, base)[n] = NumbersUpTo(s, base)[n]
    <2>1. n <= Len(s) /\ n <= Len(t) /\ n \in 0 .. n
      BY <1>1
    <2>2. \A k \in 1 .. n : s[k] = t[k]
      BY <1>1
    <2> HIDE DEF n
    <2> QED BY <1>1, <2>1, <2>2, NumberPrefix
  <1>3. n + 1 \in 1 .. Len(t) /\ (n + 1) - 1 = n
    BY <1>1
  <1>4. NumbersUpTo(t, base)[n + 1] = base * NumbersUpTo(t, base)[(n + 1) - 1] + t[n + 1]
    BY <1>1, <1>3, NumberSteps
  <1> QED BY <1>1, <1>2, <1>3, <1>4 DEF Number, t

(* What is no more than zeros is zero, and nothing else is.                  *)
LEMMA NumberOfZeros ==
  ASSUME NEW digits \in Seq(Nat), NEW base \in Nat \ {0}
  PROVE  Number(digits, base) = 0 <=> AllZero(digits)
  <1> DEFINE n == Len(digits)
             h == NumbersUpTo(digits, base)
  <1>1. /\ n \in Nat /\ DOMAIN digits = 1 .. n
        /\ \A k \in 1 .. n : digits[k] \in Nat
        /\ h[0] = 0 /\ \A k \in 0 .. n : h[k] \in Nat
        /\ \A k \in 1 .. n : h[k] = base * h[k - 1] + digits[k]
        /\ Number(digits, base) = h[n]
    BY NumberSteps, Digits DEF Number
  <1> HIDE DEF n, h
  <1>2. ASSUME AllZero(digits) PROVE h[n] = 0
    <2> DEFINE T == {k \in Nat : k <= n => h[k] = 0}
    <2>1. 0 \in T
      BY <1>1
    <2>2. ASSUME NEW k \in Nat, k \in T PROVE k + 1 \in T
      <3>1. SUFFICES ASSUME k + 1 <= n PROVE h[k + 1] = 0
        OBVIOUS
      <3>2. k + 1 \in 1 .. n /\ (k + 1) - 1 = k /\ k <= n
        BY <1>1, <3>1
      <3>3. digits[k + 1] = 0
        BY <1>1, <1>2, <3>2 DEF AllZero
      <3>4. h[k] = 0
        BY <2>2, <3>2
      <3> QED BY <1>1, <3>2, <3>3, <3>4
    <2> HIDE DEF T
    <2>3. Nat \subseteq T
      BY <2>1, <2>2, SetInduction
    <2> QED BY <1>1, <2>3 DEF T
  <1>3. ASSUME NEW j \in 1 .. n, digits[j] # 0 PROVE h[n] # 0
    <2> DEFINE T == {k \in Nat : j <= k /\ k <= n => h[k] > 0}
    <2>1. 0 \in T
      OBVIOUS
    <2>2. ASSUME NEW k \in Nat, k \in T PROVE k + 1 \in T
      <3>1. SUFFICES ASSUME j <= k + 1, k + 1 <= n PROVE h[k + 1] > 0
        OBVIOUS
      <3>2. k + 1 \in 1 .. n /\ (k + 1) - 1 = k /\ k \in 0 .. n
        BY <1>1, <3>1
      <3>3. h[k + 1] = base * h[k] + digits[k + 1] /\ h[k] \in Nat /\ digits[k + 1] \in Nat
        BY <1>1, <3>2
      <3>4. base * h[k] \in Nat
        BY <3>3, Products
      <3>5. CASE j = k + 1
        BY <1>3, <3>3, <3>4, <3>5
      <3>6. CASE j <= k
        <4>1. h[k] > 0
          BY <1>1, <2>2, <3>1, <3>6
        <4>2. \A a \in Nat \ {0}, b \in Nat : b > 0 => a * b > 0
          OBVIOUS
        <4>3. base * h[k] > 0
          BY <3>3, <4>1, <4>2
        <4> QED BY <3>3, <3>4, <4>3
      <3> QED BY <3>1, <3>5, <3>6
    <2> HIDE DEF T
    <2>3. Nat \subseteq T
      BY <2>1, <2>2, SetInduction
    <2>4. n \in T /\ j <= n
      BY <1>1, <2>3
    <2> QED BY <1>1, <2>4 DEF T
  <1> QED BY <1>1, <1>2, <1>3 DEF AllZero

-----------------------------------------------------------------------------
(* Division.                                                                 *)

(* The digits divided so far, and what is left over.                         *)
DividedUpTo(numbers, base, divisor) ==
  LET divided[k \in 0 .. Len(numbers)] ==
        IF k = 0 THEN [result |-> <<>>, subtracted |-> 0]
        ELSE LET before == divided[k - 1]
                 prepared == base * before.subtracted + numbers[k]
             IN  [result |-> Append(before.result, prepared \div divisor),
                  subtracted |-> prepared % divisor]
  IN  divided

Division == [result : Seq(Nat), subtracted : Nat]

LEMMA DivisionParts ==
  ASSUME NEW d \in Nat \ {0}, NEW v \in Nat
  PROVE  /\ v \div d \in Nat /\ v % d \in 0 .. d - 1 /\ v % d \in Nat
         /\ d * (v \div d) + (v % d) = v
  OBVIOUS

(* A digit more of the dividend is a digit more of the quotient.              *)
LEMMA DivisionArithmetic ==
  ASSUME NEW base \in Nat, NEW divisor \in Nat, NEW old \in Nat, NEW q \in Nat,
         NEW s \in Nat, NEW digit \in Nat, NEW r \in Nat,
         divisor * q + r = base * s + digit
  PROVE  divisor * (base * old + q) + r = base * (divisor * old + s) + digit
  <1> DEFINE P == base * old
             D == divisor * old
             M == divisor * P
             Q == divisor * q
             R == base * s
             X == divisor * (P + q)
             Y == base * (D + s)
  <1>1. P \in Nat /\ D \in Nat
    BY Products
  <1>2. M = base * D
    BY Products
  <1> HIDE DEF P, D
  <1>3. X = M + Q /\ Y = base * D + R
    BY <1>1, Products
  <1>4. M \in Nat /\ Q \in Nat /\ R \in Nat
    BY <1>1, Products
  <1>5. Q + r = R + digit
    OBVIOUS
  <1> HIDE DEF M, Q, R, X, Y
  <1>6. Y = M + R
    BY <1>2, <1>3
  <1>7. X + r = Y + digit
    BY <1>3, <1>4, <1>5, <1>6
  <1> QED BY <1>7 DEF X, Y, P, D

(* One step of the long division.                                            *)
DivisionStep(base, divisor, before, digit) ==
  LET prepared == base * before.subtracted + digit
  IN  [result |-> Append(before.result, prepared \div divisor),
       subtracted |-> prepared % divisor]

LEMMA DivisionStepType ==
  ASSUME NEW base \in Nat, NEW divisor \in Nat \ {0},
         NEW before \in Division, NEW digit \in Nat
  PROVE  /\ DivisionStep(base, divisor, before, digit) \in Division
         /\ DivisionStep(base, divisor, before, digit).subtracted \in 0 .. divisor - 1
         /\ Len(DivisionStep(base, divisor, before, digit).result)
              = Len(before.result) + 1
         /\ divisor * Number(DivisionStep(base, divisor, before, digit).result, base)
              + DivisionStep(base, divisor, before, digit).subtracted =
              base * (divisor * Number(before.result, base) + before.subtracted) + digit
  <1> DEFINE prepared == base * before.subtracted + digit
             new == DivisionStep(base, divisor, before, digit)
             q == prepared \div divisor
             old == Number(before.result, base)
  <1>1. before.result \in Seq(Nat) /\ before.subtracted \in Nat
    BY DEF Division
  <1>2. base * before.subtracted \in Nat
    BY <1>1, Products
  <1>3. prepared \in Nat
    BY <1>2
  <1>4. new.result = Append(before.result, q) /\ new.subtracted = prepared % divisor
        /\ new = [result |-> Append(before.result, q), subtracted |-> prepared % divisor]
    BY DEF DivisionStep
  <1> HIDE DEF new
  <1>5. /\ q \in Nat /\ prepared % divisor \in 0 .. divisor - 1
        /\ prepared % divisor \in Nat
        /\ divisor * q + (prepared % divisor) = prepared
    BY <1>3, DivisionParts
  <1>6. old \in Nat
    BY <1>1, NumberSteps
  <1> HIDE DEF q, old
  <1>7. /\ Append(before.result, q) \in Seq(Nat)
        /\ Len(Append(before.result, q)) = Len(before.result) + 1
    BY <1>1, <1>5, AppendProperties
  <1>8. Number(new.result, base) = base * old + q
    BY <1>1, <1>4, <1>5, NumberAppend DEF old
  <1> DEFINE left == prepared % divisor
             s == before.subtracted
  <1>a. left \in Nat /\ s \in Nat /\ divisor * q + left = base * s + digit
    BY <1>1, <1>5
  <1> HIDE DEF left, s, prepared
  <1>9. divisor * (base * old + q) + left = base * (divisor * old + s) + digit
    BY <1>a, <1>5, <1>6, DivisionArithmetic
  <1>b. new.subtracted = left /\ before.subtracted = s
    BY <1>4 DEF left, s
  <1>c. left \in 0 .. divisor - 1
    BY <1>5 DEF left
  <1>d. Number(before.result, base) = old
    BY DEF old
  <1>10. new \in Division
    BY <1>4, <1>5, <1>7 DEF Division
  <1>e. /\ new.subtracted \in 0 .. divisor - 1
        /\ Len(new.result) = Len(before.result) + 1
        /\ divisor * Number(new.result, base) + new.subtracted =
             base * (divisor * Number(before.result, base) + before.subtracted) + digit
    BY <1>4, <1>7, <1>8, <1>9, <1>b, <1>c, <1>d
  <1> QED BY <1>10, <1>e DEF new

(* Dividing is exact: quotient and remainder make the number again.          *)
LEMMA LongDivisionExact ==
  ASSUME NEW numbers \in Seq(Nat), NEW base \in Nat, NEW divisor \in Nat \ {0}
  PROVE  /\ LongDivision(numbers, base, divisor).result \in Seq(Nat)
         /\ LongDivision(numbers, base, divisor).subtracted \in 0 .. divisor - 1
         /\ Len(LongDivision(numbers, base, divisor).result) = Len(numbers)
         /\ divisor * Number(LongDivision(numbers, base, divisor).result, base)
              + LongDivision(numbers, base, divisor).subtracted = Number(numbers, base)
  <1> DEFINE n == Len(numbers)
             first == [result |-> <<>>, subtracted |-> 0]
             after(k, d) == DivisionStep(base, divisor, d, numbers[k])
             step == [p \in (1 .. n) \X Division |-> after(p[1], p[2])]
             divided == DividedUpTo(numbers, base, divisor)
             h == NumbersUpTo(numbers, base)
  <1>1. n \in Nat /\ \A k \in 1 .. n : numbers[k] \in Nat
    BY Digits
  <1>2. first \in Division
    BY DEF Division
  <1>3. /\ h[0] = 0 /\ \A k \in 0 .. n : h[k] \in Nat
        /\ \A k \in 1 .. n : h[k] = base * h[k - 1] + numbers[k]
    BY NumberSteps
  <1>4. Number(numbers, base) = h[n]
    BY DEF Number
  <1>5. LongDivision(numbers, base, divisor) = divided[n]
    BY DEF LongDivision, DividedUpTo
  <1>6. divided = CHOOSE g : g = [k \in 0 .. n |-> IF k = 0 THEN first ELSE after(k, g[k - 1])]
    BY DEF DividedUpTo, DivisionStep
  <1> HIDE DEF n, h, divided
  <1>7. \A k \in 1 .. n, d \in Division : after(k, d) \in Division
    BY <1>1, DivisionStepType
  <1> HIDE DEF after
  <1>8. step \in [(1 .. n) \X Division -> Division]
    BY <1>7
  <1>9. \A k \in 1 .. n, d \in Division : step[<<k, d>>] = after(k, d)
    OBVIOUS
  <1> HIDE DEF step, first
  <1>10. PICK f : Steps(f, n, Division, first, step)
    BY <1>1, <1>2, <1>8, StepsExist
  <1>11. \A k \in 1 .. n : k - 1 \in 0 .. n /\ k # 0 /\ k \in 0 .. n
    BY <1>1
  <1>12. f = [k \in 0 .. n |-> IF k = 0 THEN first ELSE after(k, f[k - 1])]
    <2>1. \A k \in 0 .. n : k = 0 \/ k \in 1 .. n
      BY <1>1
    <2>2. \A k \in 1 .. n : f[k] = after(k, f[k - 1])
      BY <1>9, <1>10, <1>11 DEF Steps
    <2>3. \A k \in 0 .. n : f[k] = IF k = 0 THEN first ELSE after(k, f[k - 1])
      BY <1>10, <2>1, <2>2 DEF Steps
    <2>4. f = [k \in 0 .. n |-> f[k]]
      BY <1>10 DEF Steps
    <2> QED BY <2>3, <2>4
  <1>13. divided = [k \in 0 .. n |-> IF k = 0 THEN first ELSE after(k, divided[k - 1])]
    BY <1>6, <1>12
  <1>14. 0 \in 0 .. n
    BY <1>1
  <1>15. divided[0] = first /\ \A k \in 1 .. n : divided[k] = after(k, divided[k - 1])
    BY <1>11, <1>13, <1>14
  <1> DEFINE Exact(k) ==
               /\ divided[k] \in Division
               /\ divided[k].subtracted \in 0 .. divisor - 1
               /\ Len(divided[k].result) = k
               /\ divisor * Number(divided[k].result, base) + divided[k].subtracted = h[k]
             T == {k \in Nat : k <= n => Exact(k)}
  <1>16. 0 \in T
    <2>1. first.result = <<>> /\ first.subtracted = 0
      BY DEF first
    <2>2. Number(<<>>, base) = 0
      <3>1. <<>> \in Seq(Nat) /\ Len(<<>>) = 0
        OBVIOUS
      <3>2. NumbersUpTo(<<>>, base)[0] = 0
        BY <3>1, NumberSteps
      <3> QED BY <3>1, <3>2 DEF Number
    <2>3. divisor * 0 = 0 /\ 0 \in 0 .. divisor - 1
      OBVIOUS
    <2>4. divisor * Number(divided[0].result, base) + divided[0].subtracted = h[0]
      BY <1>3, <1>15, <2>1, <2>2, <2>3
    <2>5. divided[0].subtracted \in 0 .. divisor - 1 /\ Len(divided[0].result) = 0
      BY <1>15, <2>1, <2>3
    <2>6. Exact(0)
      BY <1>2, <1>15, <2>4, <2>5
    <2> QED BY <2>6
  <1>17. ASSUME NEW k \in Nat, k \in T PROVE k + 1 \in T
    <2>1. SUFFICES ASSUME k + 1 <= n PROVE Exact(k + 1)
      OBVIOUS
    <2>2. k + 1 \in 1 .. n /\ (k + 1) - 1 = k /\ k <= n
      BY <1>1, <2>1
    <2>3. Exact(k)
      BY <1>17, <2>2
    <2>4. divided[k + 1] = DivisionStep(base, divisor, divided[k], numbers[k + 1])
      BY <1>15, <2>2 DEF after
    <2>5. numbers[k + 1] \in Nat
      BY <1>1, <2>2
    <2>6. h[k + 1] = base * h[k] + numbers[k + 1]
      BY <1>3, <2>2
    <2>a. divided[k] \in Division
      BY <2>3
    <2>7. /\ divided[k + 1] \in Division
          /\ divided[k + 1].subtracted \in 0 .. divisor - 1
          /\ Len(divided[k + 1].result) = Len(divided[k].result) + 1
      BY <2>a, <2>4, <2>5, DivisionStepType
    <2>8. divisor * Number(divided[k + 1].result, base) + divided[k + 1].subtracted =
            base * (divisor * Number(divided[k].result, base) + divided[k].subtracted)
              + numbers[k + 1]
      BY <2>a, <2>4, <2>5, DivisionStepType
    <2>9. divisor * Number(divided[k + 1].result, base) + divided[k + 1].subtracted
            = h[k + 1]
      BY <2>3, <2>6, <2>8
    <2> QED BY <2>3, <2>7, <2>9
  <1> HIDE DEF T
  <1>18. Nat \subseteq T
    BY <1>16, <1>17, SetInduction
  <1>19. Exact(n)
    BY <1>1, <1>18 DEF T
  <1>20. divided[n].result \in Seq(Nat)
    BY <1>19 DEF Division
  <1> QED BY <1>4, <1>5, <1>19, <1>20 DEF n

(* What is left to divide gets smaller.                                      *)
LEMMA DivisionShrinks ==
  ASSUME NEW numbers \in Seq(Nat), NEW base \in Nat \ {0},
         NEW divisor \in Nat \ {0, 1}, ~ AllZero(numbers)
  PROVE  Number(LongDivision(numbers, base, divisor).result, base)
           < Number(numbers, base)
  <1> DEFINE q == Number(LongDivision(numbers, base, divisor).result, base)
             r == LongDivision(numbers, base, divisor).subtracted
             v == Number(numbers, base)
  <1>1. base \in Nat /\ divisor \in Nat \ {0}
    OBVIOUS
  <1>2. /\ LongDivision(numbers, base, divisor).result \in Seq(Nat)
        /\ r \in 0 .. divisor - 1
        /\ divisor * q + r = v
    BY <1>1, LongDivisionExact
  <1>3. q \in Nat /\ v \in Nat /\ v # 0
    BY <1>1, <1>2, NumberSteps, NumberOfZeros
  <1>4. r \in Nat
    BY <1>2
  <1> HIDE DEF q, r, v
  <1>5. \A a \in Nat, d \in Nat \ {0, 1} : d * a >= 2 * a /\ d * a \in Nat
    OBVIOUS
  <1>6. divisor * q >= 2 * q /\ divisor * q \in Nat
    BY <1>3, <1>5
  <1>7. q < v
    BY <1>2, <1>3, <1>4, <1>6
  <1> QED BY <1>7 DEF q, v

RemaindersOf(base, divisor) ==
  LET of[n \in Seq(Nat)] ==
        IF AllZero(n) THEN <<>>
        ELSE LET division == LongDivision(n, base, divisor)
             IN  Append(of[division.result], division.subtracted)
  IN  of

(* The recursion of Remainders ends, and its result obeys it.                *)
LEMMA RemaindersStep ==
  ASSUME NEW base \in Nat \ {0}, NEW divisor \in Nat \ {0, 1}
  PROVE  \A n \in Seq(Nat) :
           /\ Remainders(n, base, divisor) \in Seq(0 .. divisor - 1)
           /\ AllZero(n) => Remainders(n, base, divisor) = <<>>
           /\ ~ AllZero(n) =>
                Remainders(n, base, divisor) =
                  Append(Remainders(LongDivision(n, base, divisor).result, base, divisor),
                         LongDivision(n, base, divisor).subtracted)
  <1> DEFINE D == Seq(Nat)
             S == Seq(0 .. divisor - 1)
             quotient(n) == LongDivision(n, base, divisor).result
             left(n) == LongDivision(n, base, divisor).subtracted
             Z == {n \in D : AllZero(n)}
             z == [n \in D |-> <<>>]
             q == [n \in D |-> quotient(n)]
             step == [p \in D \X S |-> Append(p[2], left(p[1]))]
             mu == [n \in D |-> Number(n, base)]
             of == RemaindersOf(base, divisor)
  <1>1. \A n \in D : quotient(n) \in D /\ left(n) \in 0 .. divisor - 1
    BY LongDivisionExact
  <1>2. \A n \in D : Number(n, base) \in Nat
    BY NumberSteps
  <1>3. \A n \in D : n \notin Z => Number(quotient(n), base) < Number(n, base)
    BY DivisionShrinks
  <1>4. of = CHOOSE g : g = [n \in D |-> IF AllZero(n) THEN <<>>
                                         ELSE Append(g[quotient(n)], left(n))]
    BY DEF RemaindersOf
  <1>5. \A n : Remainders(n, base, divisor) = of[n]
    BY DEF Remainders, RemaindersOf
  <1> HIDE DEF quotient, left, of
  <1>6. <<>> \in S
    OBVIOUS
  <1>7. \A n \in D, s \in S : Append(s, left(n)) \in S
    BY <1>1, AppendProperties
  <1>8. z \in [D -> S] /\ q \in [D -> D] /\ mu \in [D -> Nat]
    BY <1>1, <1>2, <1>6
  <1>9. step \in [D \X S -> S]
    BY <1>7
  <1>10. /\ \A n \in D : q[n] = quotient(n) /\ mu[n] = Number(n, base) /\ z[n] = <<>>
         /\ \A n \in D, s \in S : step[<<n, s>>] = Append(s, left(n))
    OBVIOUS
  <1>11. \A n \in D : n \in Z <=> AllZero(n)
    OBVIOUS
  <1> HIDE DEF Z, z, q, step, mu
  <1>12. \A n \in D : n \notin Z => mu[q[n]] < mu[n]
    BY <1>1, <1>3, <1>10
  <1> HIDE DEF D, S
  <1>13. PICK f : Obeys(f, D, S, Z, z, q, step)
    BY <1>8, <1>9, <1>12, RecursionExists
  <1>14. f \in [D -> S]
    BY <1>13 DEF Obeys
  <1>15. \A n \in D : f[n] = IF n \in Z THEN z[n] ELSE step[<<n, f[q[n]]>>]
    BY <1>13 DEF Obeys
  <1>16. \A n \in D : f[n] = IF AllZero(n) THEN <<>> ELSE Append(f[quotient(n)], left(n))
    <2> SUFFICES ASSUME NEW n \in D
                 PROVE f[n] = IF AllZero(n) THEN <<>> ELSE Append(f[quotient(n)], left(n))
      OBVIOUS
    <2>1. q[n] = quotient(n) /\ quotient(n) \in D /\ z[n] = <<>>
      BY <1>1, <1>10
    <2>2. f[quotient(n)] \in S
      BY <1>14, <2>1
    <2>3. step[<<n, f[q[n]]>>] = Append(f[quotient(n)], left(n))
      BY <1>10, <2>1, <2>2
    <2> QED BY <1>11, <1>15, <2>1, <2>3
  <1>17. f = [n \in D |-> IF AllZero(n) THEN <<>> ELSE Append(f[quotient(n)], left(n))]
    <2>1. f = [n \in D |-> f[n]]
      BY <1>14
    <2> QED BY <1>16, <2>1
  <1>18. of = [n \in D |-> IF AllZero(n) THEN <<>> ELSE Append(of[quotient(n)], left(n))]
    BY <1>4, <1>17
  <1>19. \A n \in D : of[n] = IF AllZero(n) THEN <<>> ELSE Append(of[quotient(n)], left(n))
    BY <1>18
  <1>20. \A n \in D : of[n] \in S
    <2> DEFINE U == {Number(n, base) : n \in {m \in D : of[m] \notin S}}
    <2>1. SUFFICES ASSUME U # {} PROVE FALSE
      OBVIOUS
    <2>2. U \in SUBSET Nat
      BY <1>2
    <2> HIDE DEF U
    <2>3. PICK k \in U : \A j \in U : k <= j
      BY <2>1, <2>2, LeastExists
    <2>4. PICK n \in D : of[n] \notin S /\ Number(n, base) = k
      BY <2>3 DEF U
    <2>5. ~ AllZero(n)
      BY <1>6, <1>19, <2>4 DEF S
    <2>6. quotient(n) \in D /\ Number(quotient(n), base) < k
      BY <1>1, <1>3, <1>11, <2>4, <2>5
    <2>7. Number(quotient(n), base) \notin U
      <3>1. Number(quotient(n), base) \in Nat /\ k \in Nat
        BY <1>2, <2>2, <2>3, <2>6
      <3> QED BY <2>3, <2>6, <3>1
    <2>8. of[quotient(n)] \in S
      BY <2>6, <2>7 DEF U
    <2> QED BY <1>7, <1>19, <2>4, <2>5, <2>8
  <1>21. \A n \in D : /\ of[n] \in S
                      /\ AllZero(n) => of[n] = <<>>
                      /\ ~ AllZero(n) => of[n] = Append(of[quotient(n)], left(n))
    BY <1>19, <1>20
  <1> QED BY <1>5, <1>21 DEF D, S, quotient, left

(* Converting to another base keeps the number: what div_24_bit_pack_numbers_36 *)
(* and div2 are called for, whatever the length of the number.               *)
THEOREM RemaindersKeepTheNumber ==
  ASSUME NEW base \in Nat \ {0}, NEW divisor \in Nat \ {0, 1}, NEW n \in Seq(Nat)
  PROVE  /\ Remainders(n, base, divisor) \in Seq(0 .. divisor - 1)
         /\ Number(Remainders(n, base, divisor), divisor) = Number(n, base)
  <1> DEFINE D == Seq(Nat)
             of(m) == Remainders(m, base, divisor)
             quotient(m) == LongDivision(m, base, divisor).result
             left(m) == LongDivision(m, base, divisor).subtracted
             U == {Number(m, base) : m \in {m \in D :
                     Number(of(m), divisor) # Number(m, base)}}
  <1>1. /\ base \in Nat /\ divisor \in Nat /\ divisor \in Nat \ {0}
        /\ 0 .. divisor - 1 \subseteq Nat
    OBVIOUS
  <1>2. \A m \in D :
          /\ of(m) \in Seq(0 .. divisor - 1)
          /\ AllZero(m) => of(m) = <<>>
          /\ ~ AllZero(m) => of(m) = Append(of(quotient(m)), left(m))
    BY RemaindersStep
  <1>3. \A m \in D :
          /\ quotient(m) \in D /\ left(m) \in 0 .. divisor - 1
          /\ divisor * Number(quotient(m), base) + left(m) = Number(m, base)
    BY <1>1, LongDivisionExact
  <1>4. \A m \in D : ~ AllZero(m) => Number(quotient(m), base) < Number(m, base)
    BY DivisionShrinks
  <1>5. \A m \in D : Number(m, base) \in Nat /\ (AllZero(m) => Number(m, base) = 0)
    BY <1>1, NumberSteps, NumberOfZeros
  <1>6. \A m \in Seq(0 .. divisor - 1) : m \in Seq(Nat)
    BY <1>1, SeqMonotonic
  <1>7. Number(<<>>, divisor) = 0
    <2>1. <<>> \in Seq(Nat) /\ AllZero(<<>>)
      BY DEF AllZero
    <2> QED BY <1>1, <2>1, NumberOfZeros
  <1> HIDE DEF of, quotient, left
  <1>8. U = {}
    <2>1. SUFFICES ASSUME U # {} PROVE FALSE
      OBVIOUS
    <2>2. U \in SUBSET Nat
      BY <1>5
    <2> HIDE DEF U
    <2>3. PICK k \in U : \A j \in U : k <= j
      BY <2>1, <2>2, LeastExists
    <2>4. PICK m \in D : Number(of(m), divisor) # Number(m, base) /\ Number(m, base) = k
      BY <2>3 DEF U
    <2>5. ~ AllZero(m)
      BY <1>2, <1>5, <1>7, <2>4
    <2>6. quotient(m) \in D /\ Number(quotient(m), base) < k
      BY <1>3, <1>4, <2>4, <2>5
    <2>7. Number(quotient(m), base) \in Nat /\ k \in Nat
      BY <1>5, <2>2, <2>3, <2>6
    <2>8. Number(quotient(m), base) \notin U
      BY <2>3, <2>6, <2>7
    <2>9. Number(of(quotient(m)), divisor) = Number(quotient(m), base)
      BY <2>6, <2>8 DEF U
    <2>10. of(quotient(m)) \in Seq(Nat) /\ left(m) \in Nat
      BY <1>1, <1>2, <1>3, <1>6, <2>4, <2>6
    <2>11. Number(Append(of(quotient(m)), left(m)), divisor) =
             divisor * Number(of(quotient(m)), divisor) + left(m)
      BY <1>1, <2>10, NumberAppend
    <2>12. Number(of(m), divisor) = Number(m, base)
      BY <1>2, <1>3, <2>4, <2>5, <2>9, <2>11
    <2> QED BY <2>4, <2>12
  <1> HIDE DEF D
  <1>9. n \in D
    BY DEF D
  <1>10. Number(of(n), divisor) = Number(n, base)
    BY <1>8, <1>9
  <1> QED BY <1>2, <1>9, <1>10 DEF of

-----------------------------------------------------------------------------
(* Packing.                                                                  *)

LEMMA Doublings ==
  ASSUME NEW d \in [0 .. 24 -> Int], \A j \in 1 .. 24 : d[j] = 2 * d[j - 1]
  PROVE  d[24] = 2 ^ 24 * d[0]
  <1>1. \A i \in 0 .. 20 : d[i + 4] = 16 * d[i]
    <2> SUFFICES ASSUME NEW i \in 0 .. 20 PROVE d[i + 4] = 16 * d[i]
      OBVIOUS
    <2>1. /\ i + 1 \in 1 .. 24 /\ i + 2 \in 1 .. 24 /\ i + 3 \in 1 .. 24 /\ i + 4 \in 1 .. 24
          /\ (i + 1) - 1 = i /\ (i + 2) - 1 = i + 1
          /\ (i + 3) - 1 = i + 2 /\ (i + 4) - 1 = i + 3
      OBVIOUS
    <2>2. d[i + 1] = 2 * d[i] /\ d[i + 2] = 2 * d[i + 1]
          /\ d[i + 3] = 2 * d[i + 2] /\ d[i + 4] = 2 * d[i + 3]
      BY <2>1
    <2>3. d[i] \in Int /\ d[i + 1] \in Int /\ d[i + 2] \in Int /\ d[i + 3] \in Int
          /\ d[i + 4] \in Int
      BY <2>1
    <2> QED BY <2>2, <2>3
  <1>2. d[4] = 16 * d[0] /\ d[8] = 16 * d[4] /\ d[12] = 16 * d[8]
        /\ d[16] = 16 * d[12] /\ d[20] = 16 * d[16] /\ d[24] = 16 * d[20]
    <2>1. /\ 0 + 4 = 4 /\ 4 + 4 = 8 /\ 8 + 4 = 12 /\ 12 + 4 = 16 /\ 16 + 4 = 20 /\ 20 + 4 = 24
          /\ 0 \in 0 .. 20 /\ 4 \in 0 .. 20 /\ 8 \in 0 .. 20 /\ 12 \in 0 .. 20
          /\ 16 \in 0 .. 20 /\ 20 \in 0 .. 20
      OBVIOUS
    <2>2. d[0 + 4] = 16 * d[0] /\ d[4 + 4] = 16 * d[4] /\ d[8 + 4] = 16 * d[8]
      BY <1>1, <2>1
    <2>3. d[12 + 4] = 16 * d[12] /\ d[16 + 4] = 16 * d[16] /\ d[20 + 4] = 16 * d[20]
      BY <1>1, <2>1
    <2> QED BY <2>1, <2>2, <2>3
  <1>3. d[0] \in Int
    OBVIOUS
  <1>4. d[24] = 16777216 * d[0]
    BY <1>2, <1>3
  <1>5. 2 ^ 24 = 16777216
    OBVIOUS
  <1> QED BY <1>4, <1>5

(* A pack is the number of its bits: they follow what is in front of them.   *)
LEMMA PackStep ==
  ASSUME NEW bits \in Seq(Nat), NEW l \in Nat, l + 24 <= Len(bits)
  PROVE  NumbersUpTo(bits, 2)[l + 24] =
           2 ^ 24 * NumbersUpTo(bits, 2)[l] + Number(SubSeq(bits, l + 1, l + 24), 2)
  <1> DEFINE s == SubSeq(bits, l + 1, l + 24)
             h == NumbersUpTo(bits, 2)
             e == NumbersUpTo(s, 2)
             d == [j \in 0 .. 24 |-> h[l + j] - e[j]]
             n == Len(bits)
  <1>1. n \in Nat
    BY Digits
  <1>2. /\ s \in Seq(Nat) /\ Len(s) = 24
        /\ \A j \in 1 .. 24 : s[j] = bits[l + j]
    <2>1. /\ l + 1 \in 1 .. Len(bits) + 1 /\ l + 24 \in l .. Len(bits)
          /\ l + 24 - (l + 1) + 1 = 24
          /\ \A j \in 1 .. 24 : l + 1 + j - 1 = l + j
      BY <1>1
    <2>2. \A i \in l + 1 .. l + 24 : bits[i] \in Nat
      <3>1. \A i \in l + 1 .. l + 24 : i \in 1 .. n
        BY <1>1
      <3> QED BY <3>1, Digits
    <2>3. s = [j \in 1 .. 24 |-> bits[l + j]]
      BY <1>1 DEF s
    <2>4. \A j \in 1 .. 24 : l + j \in l + 1 .. l + 24
      OBVIOUS
    <2>5. \A j \in 1 .. 24 : bits[l + j] \in Nat
      BY <2>2, <2>4
    <2> HIDE DEF s
    <2>6. s \in [1 .. 24 -> Nat]
      BY <2>3, <2>5
    <2> QED BY <2>3, <2>6
  <1> HIDE DEF s
  <1>3. /\ \A k \in 0 .. n : h[k] \in Nat
        /\ \A k \in 1 .. n : h[k] = 2 * h[k - 1] + bits[k]
    BY NumberSteps
  <1>4. /\ e[0] = 0 /\ \A k \in 0 .. 24 : e[k] \in Nat
        /\ \A k \in 1 .. 24 : e[k] = 2 * e[k - 1] + s[k]
        /\ Number(s, 2) = e[24]
    <2>1. /\ e[0] = 0 /\ e \in [0 .. Len(s) -> Nat]
          /\ \A k \in 1 .. Len(s) : e[k] = 2 * e[k - 1] + s[k]
      <3>1. s \in Seq(Nat) /\ 2 \in Nat
        BY <1>2
      <3> QED BY ONLY <3>1, NumberSteps
    <2>2. Number(s, 2) = e[Len(s)]
      BY DEF Number
    <2> HIDE DEF e
    <2> QED BY <1>2, <2>1, <2>2
  <1> HIDE DEF h, e
  <1>5. \A j \in 0 .. 24 : l + j \in 0 .. n /\ h[l + j] \in Nat
    BY <1>1, <1>3
  <1>6. d \in [0 .. 24 -> Int]
    <2>1. \A j \in 0 .. 24 : h[l + j] \in Nat /\ e[j] \in Nat
      BY <1>4, <1>5
    <2>2. \A a, b \in Nat : a - b \in Int
      OBVIOUS
    <2>3. \A j \in 0 .. 24 : h[l + j] - e[j] \in Int
      BY <2>1, <2>2
    <2> QED BY <2>3
  <1>7. \A j \in 0 .. 24 : d[j] = h[l + j] - e[j]
    OBVIOUS
  <1> HIDE DEF d
  <1>8. \A j \in 1 .. 24 : d[j] = 2 * d[j - 1]
    <2> SUFFICES ASSUME NEW j \in 1 .. 24 PROVE d[j] = 2 * d[j - 1]
      OBVIOUS
    <2>1. /\ j \in 0 .. 24 /\ j - 1 \in 0 .. 24 /\ l + j \in 1 .. n
          /\ (l + j) - 1 = l + (j - 1)
      BY <1>1
    <2>2. h[l + j] = 2 * h[l + (j - 1)] + bits[l + j]
      BY <1>3, <2>1
    <2>3. e[j] = 2 * e[j - 1] + s[j]
      BY <1>4
    <2>4. s[j] = bits[l + j] /\ bits[l + j] \in Nat
      BY <1>2, <2>1, Digits
    <2>5. h[l + (j - 1)] \in Nat /\ e[j - 1] \in Nat
      BY <1>4, <1>5, <2>1
    <2>6. d[j] = h[l + j] - e[j] /\ d[j - 1] = h[l + (j - 1)] - e[j - 1]
      BY <1>7, <2>1
    <2>7. \A a, b, c \in Nat : (2 * a + c) - (2 * b + c) = 2 * (a - b)
      OBVIOUS
    <2>8. (2 * h[l + (j - 1)] + bits[l + j]) - (2 * e[j - 1] + bits[l + j])
            = 2 * (h[l + (j - 1)] - e[j - 1])
      BY <2>4, <2>5, <2>7
    <2> QED BY <2>2, <2>3, <2>4, <2>6, <2>8
  <1>9. d[24] = 2 ^ 24 * d[0]
    BY <1>6, <1>8, Doublings
  <1>10. d[0] = h[l] /\ d[24] = h[l + 24] - e[24]
    <2>1. l + 0 = l /\ 0 \in 0 .. 24 /\ 24 \in 0 .. 24
      OBVIOUS
    <2>2. d[0] = h[l + 0] - e[0] /\ d[24] = h[l + 24] - e[24]
      BY <1>7, <2>1
    <2>3. h[l] \in Nat
      BY <1>5, <2>1
    <2>4. \A a \in Nat : a - 0 = a
      OBVIOUS
    <2>5. d[0] = h[l] - 0
      BY <1>4, <2>1, <2>2
    <2> QED BY <2>2, <2>3, <2>4, <2>5
  <1>11. h[l + 24] \in Nat /\ e[24] \in Nat /\ h[l] \in Nat
    <2>1. l + 0 = l /\ 0 \in 0 .. 24 /\ 24 \in 0 .. 24
      OBVIOUS
    <2> QED BY <1>4, <1>5, <2>1
  <1>12. 2 ^ 24 = 16777216
    OBVIOUS
  <1>13. h[l + 24] = 2 ^ 24 * h[l] + e[24]
    BY <1>9, <1>10, <1>11, <1>12
  <1> QED BY <1>4, <1>13 DEF h, s

LEMMA PackOfBits ==
  ASSUME NEW bits \in Seq(Nat)
  PROVE  InNumber(bits) = Number(bits, 2)
  BY DEF InNumber, Number, NumbersUpTo

(* The packs are the number, whatever the length of the leftmost one.        *)
LEMMA PacksKeepTheNumber ==
  ASSUME NEW bits \in Seq(Nat)
  PROVE  /\ arr_01_to_24_bit_pack_numbers(bits) \in Seq(Nat)
         /\ Number(arr_01_to_24_bit_pack_numbers(bits), 2 ^ 24) = Number(bits, 2)
  <1> DEFINE n == Len(bits)
             packs == (n + 23) \div 24
             last_(k) == n - 24 * (packs - k)
             first_(k) == IF last_(k) > 24 THEN last_(k) - 23 ELSE 1
             p == arr_01_to_24_bit_pack_numbers(bits)
             h == NumbersUpTo(bits, 2)
             g == NumbersUpTo(p, 2 ^ 24)
  <1>1. n \in Nat
    BY Digits
  <1>2. /\ packs \in Nat /\ (n = 0 => packs = 0) /\ (n > 0 => packs > 0)
        /\ n <= 24 * packs /\ 24 * packs < n + 24
    BY <1>1
  <1>3. \A x : x > PackBits <=> x > 24
    BY DEF PackBits
  <1>4. p = [k \in 1 .. packs |-> InNumber(SubSeq(bits, first_(k), last_(k)))]
    <2>1. \A k \in 1 .. packs : last_(k) \in Int
      BY <1>1, <1>2
    <2>2. \A x \in Int : x - 24 + 1 = x - 23
      OBVIOUS
    <2>3. n + 24 - 1 = n + 23
      BY <1>1
    <2>4. \A k \in 1 .. packs : first_(k) = IF last_(k) > 24 THEN last_(k) - 24 + 1 ELSE 1
      BY <2>1, <2>2
    <2>5. p = [k \in 1 .. ((n + 24 - 1) \div 24) |->
                 InNumber(SubSeq(bits,
                   IF n - 24 * (((n + 24 - 1) \div 24) - k) > 24
                   THEN n - 24 * (((n + 24 - 1) \div 24) - k) - 24 + 1 ELSE 1,
                   n - 24 * (((n + 24 - 1) \div 24) - k)))]
      BY DEF arr_01_to_24_bit_pack_numbers, PackBits
    <2> HIDE DEF n, p
    <2> QED BY <2>3, <2>4, <2>5
  <1> HIDE DEF n, p
  <1>5. \A k \in 1 .. packs :
          /\ last_(k) \in 1 .. n /\ first_(k) \in 1 .. last_(k)
          /\ k = 1 => first_(k) = 1
          /\ k > 1 => last_(k - 1) = last_(k) - 24 /\ first_(k) = last_(k - 1) + 1
                      /\ k - 1 \in 1 .. packs
    BY <1>1, <1>2
  <1>6. last_(packs) = n
    BY <1>1, <1>2
  <1> HIDE DEF packs, last_, first_
  <1>7. \A k \in 1 .. packs :
          /\ SubSeq(bits, first_(k), last_(k)) \in Seq(Nat)
          /\ p[k] = Number(SubSeq(bits, first_(k), last_(k)), 2)
          /\ p[k] \in Nat
    <2> SUFFICES ASSUME NEW k \in 1 .. packs
                 PROVE /\ SubSeq(bits, first_(k), last_(k)) \in Seq(Nat)
                       /\ p[k] = Number(SubSeq(bits, first_(k), last_(k)), 2)
                       /\ p[k] \in Nat
      OBVIOUS
    <2> DEFINE s == SubSeq(bits, first_(k), last_(k))
    <2>1. s \in Seq(Nat)
      <3>1. first_(k) \in 1 .. Len(bits) /\ last_(k) \in 0 .. Len(bits)
        BY <1>1, <1>5 DEF n
      <3>2. \A i \in first_(k) .. last_(k) : bits[i] \in Nat
        <4>1. \A i \in first_(k) .. last_(k) : i \in 1 .. n
          BY <1>1, <1>5
        <4> QED BY <4>1, Digits DEF n
      <3> QED BY <3>1, <3>2, SubSeqProperties
    <2>2. p[k] = InNumber(s)
      BY <1>4
    <2> HIDE DEF s
    <2>3. InNumber(s) = Number(s, 2)
      BY <2>1, PackOfBits
    <2>4. Number(s, 2) \in Nat
      <3>1. 2 \in Nat
        OBVIOUS
      <3> QED BY ONLY <2>1, <3>1, NumberSteps
    <2> QED BY <2>1, <2>2, <2>3, <2>4 DEF s
  <1>8. p \in Seq(Nat) /\ Len(p) = packs
    <2>1. p \in [1 .. packs -> Nat]
      BY <1>4, <1>7
    <2> QED BY <1>2, <2>1
  <1>9. /\ \A k \in 0 .. n : h[k] \in Nat
        /\ h[0] = 0
        /\ Number(bits, 2) = h[n]
    BY NumberSteps DEF Number, n
  <1>10. 2 ^ 24 \in Nat
    OBVIOUS
  <1>11. /\ g[0] = 0 /\ Number(p, 2 ^ 24) = g[packs]
         /\ \A k \in 1 .. packs : g[k] = 2 ^ 24 * g[k - 1] + p[k]
    <2>1. /\ g[0] = 0
          /\ \A k \in 1 .. Len(p) : g[k] = 2 ^ 24 * g[k - 1] + p[k]
      BY ONLY <1>8, <1>10, NumberSteps
    <2>2. Number(p, 2 ^ 24) = g[Len(p)]
      BY DEF Number
    <2> HIDE DEF g
    <2> QED BY <1>8, <2>1, <2>2
  <1> HIDE DEF h, g
  <1> DEFINE T == {k \in Nat : k + 1 <= packs => g[k + 1] = h[last_(k + 1)]}
  <1>12. 0 \in T
    <2>1. SUFFICES ASSUME 1 <= packs PROVE g[1] = h[last_(1)]
      BY DEF T
    <2>2. 1 \in 1 .. packs /\ first_(1) = 1 /\ last_(1) \in 1 .. n
      BY <1>2, <1>5, <2>1
    <2>3. g[1] = p[1]
      <3>1. g[1] = 2 ^ 24 * g[1 - 1] + p[1] /\ p[1] \in Nat
        BY <1>7, <1>11, <2>2
      <3>2. 1 - 1 = 0 /\ 2 ^ 24 * 0 = 0
        OBVIOUS
      <3> QED BY <1>11, <3>1, <3>2
    <2> DEFINE s == SubSeq(bits, 1, last_(1))
               l == last_(1)
    <2>4. p[1] = Number(s, 2) /\ s \in Seq(Nat)
      BY <1>7, <2>2
    <2>5. Len(s) = l /\ \A j \in 1 .. l : s[j] = bits[j]
      <3>1. l \in Nat /\ l <= Len(bits)
        BY <1>1, <2>2 DEF n
      <3>2. \A i \in 1 .. l : bits[i] \in Nat
        <4>1. \A i \in 1 .. l : i \in 1 .. n
          BY <1>1, <3>1 DEF n
        <4> QED BY <4>1, Digits DEF n
      <3>3. 1 \in 1 .. Len(bits) /\ l \in 0 .. Len(bits)
        BY <2>2, <1>1, <3>1 DEF n
      <3>4. l - 1 + 1 = l /\ \A j \in 1 .. l : 1 + j - 1 = j
        BY <3>1
      <3>5. s = SubSeq(bits, 1, l)
        OBVIOUS
      <3>6. l \in Int /\ 1 \in Int /\ (1 <= l \/ l = 0)
        BY <3>1
      <3> HIDE DEF l, s
      <3>7. /\ Len(s) = IF 1 <= l THEN l - 1 + 1 ELSE 0
            /\ \A j \in 1 .. l - 1 + 1 : s[j] = bits[1 + j - 1]
        BY ONLY <3>2, <3>5, <3>6, SubSeqProperties
      <3> QED BY <3>4, <3>6, <3>7
    <2>6. l \in Nat /\ l <= Len(s) /\ l <= Len(bits) /\ 2 \in Nat /\ l \in 0 .. l
      BY <1>1, <2>2, <2>5 DEF n
    <2> HIDE DEF s, l
    <2>7. NumbersUpTo(s, 2)[l] = NumbersUpTo(bits, 2)[l]
      BY ONLY <2>4, <2>5, <2>6, NumberPrefix, bits \in Seq(Nat)
    <2>8. Number(s, 2) = h[l]
      BY <2>5, <2>7 DEF Number, h
    <2> QED BY <2>3, <2>4, <2>8 DEF l
  <1>13. ASSUME NEW k \in Nat, k \in T PROVE k + 1 \in T
    <2>1. SUFFICES ASSUME (k + 1) + 1 <= packs
                   PROVE g[(k + 1) + 1] = h[last_((k + 1) + 1)]
      BY DEF T
    <2> DEFINE j == (k + 1) + 1
               l == last_(k + 1)
    <2>2. j \in 1 .. packs /\ j > 1 /\ j - 1 = k + 1 /\ k + 1 \in 1 .. packs
      BY <1>2, <2>1
    <2>3. g[k + 1] = h[l]
      BY <1>13, <2>2
    <2> HIDE DEF j
    <2>4. l = last_(j) - 24 /\ first_(j) = l + 1 /\ last_(j) \in 1 .. n /\ l \in 1 .. n
      BY <1>5, <2>2
    <2> HIDE DEF l
    <2>5. l \in Nat /\ l + 24 <= Len(bits) /\ last_(j) = l + 24 /\ l \in 0 .. n
      BY <1>1, <2>4 DEF n
    <2>6. p[j] = Number(SubSeq(bits, l + 1, l + 24), 2)
      BY <1>7, <2>2, <2>4, <2>5
    <2>7. h[l + 24] = 2 ^ 24 * h[l] + Number(SubSeq(bits, l + 1, l + 24), 2)
      BY <2>5, PackStep DEF h
    <2>8. g[j] = 2 ^ 24 * g[j - 1] + p[j]
      BY <1>11, <2>2
    <2>9. g[j] = h[last_(j)]
      BY <2>2, <2>3, <2>5, <2>6, <2>7, <2>8
    <2> QED BY <2>9 DEF j
  <1> HIDE DEF T
  <1>14. Nat \subseteq T
    BY <1>12, <1>13, SetInduction
  <1>15. g[packs] = h[n]
    <2>1. CASE n = 0
      BY <1>2, <1>9, <1>11, <2>1
    <2>2. CASE n > 0
      <3>1. packs - 1 \in Nat /\ (packs - 1) + 1 = packs /\ packs <= packs
        BY <1>2, <2>2
      <3>2. packs - 1 \in T
        BY <1>14, <3>1
      <3> QED BY <1>6, <3>1, <3>2 DEF T
    <2> QED BY <1>1, <2>1, <2>2
  <1> QED BY <1>8, <1>9, <1>11, <1>15 DEF p

(* The text of a Zcode is the number of its bits.                            *)
THEOREM EncodingKeepsTheNumber ==
  ASSUME NEW bits \in Seq(Nat)
  PROVE  /\ encode_zcode_arr01(bits) \in Seq(0 .. 35)
         /\ Number(encode_zcode_arr01(bits), 36) = Number(bits, 2)
  <1> DEFINE p == arr_01_to_24_bit_pack_numbers(bits)
  <1>1. p \in Seq(Nat) /\ Number(p, 2 ^ 24) = Number(bits, 2)
    BY PacksKeepTheNumber
  <1>2. 2 ^ 24 \in Nat \ {0} /\ 36 \in Nat \ {0, 1} /\ 36 - 1 = 35
    OBVIOUS
  <1>3. encode_zcode_arr01(bits) = Remainders(p, 2 ^ 24, 36)
    BY DEF encode_zcode_arr01, PackBits, Radix
  <1> HIDE DEF p
  <1>4. /\ Remainders(p, 2 ^ 24, 36) \in Seq(0 .. 36 - 1)
        /\ Number(Remainders(p, 2 ^ 24, 36), 36) = Number(p, 2 ^ 24)
    BY ONLY <1>1, <1>2, RemaindersKeepTheNumber
  <1> QED BY <1>1, <1>2, <1>3, <1>4

-----------------------------------------------------------------------------
(* The text is the number of the bits.                                       *)

ResiduesUpTo(digits, base, prime) ==
  LET value[k \in 0 .. Len(digits)] ==
        IF k = 0 THEN 0 ELSE (base * value[k - 1] + digits[k]) % prime
  IN  value

(* A remainder may be taken after each digit or once at the end.             *)
LEMMA ResidueStep ==
  ASSUME NEW base \in {2, 36}, NEW prime \in Primes, NEW v \in Nat, NEW d \in Nat
  PROVE  (base * (v % prime) + d) % prime = (base * v + d) % prime
  <1>1. CASE base = 2 /\ prime = 9999991
    BY <1>1
  <1>2. CASE base = 2 /\ prime = 49999991
    BY <1>2
  <1>3. CASE base = 36 /\ prime = 9999991
    BY <1>3
  <1>4. CASE base = 36 /\ prime = 49999991
    BY <1>4
  <1> QED BY <1>1, <1>2, <1>3, <1>4 DEF Primes

LEMMA ResidueOfNumber ==
  ASSUME NEW digits \in Seq(Nat), NEW base \in {2, 36}, NEW prime \in Primes
  PROVE  Residue(digits, base, prime) = Number(digits, base) % prime
  <1> DEFINE n == Len(digits)
             h == NumbersUpTo(digits, base)
             f == [k \in 0 .. n |-> h[k] % prime]
             value == ResiduesUpTo(digits, base, prime)
             T == {k \in Nat : k <= n => value[k] = f[k]}
  <1>1. n \in Nat /\ \A k \in 1 .. n : digits[k] \in Nat
    BY Digits
  <1>2. /\ h[0] = 0 /\ \A k \in 0 .. n : h[k] \in Nat
        /\ \A k \in 1 .. n : h[k] = base * h[k - 1] + digits[k]
        /\ Number(digits, base) = h[n]
    <2>1. base \in Nat
      OBVIOUS
    <2> QED BY <2>1, NumberSteps DEF Number
  <1>3. value = CHOOSE g : g = [k \in 0 .. n |-> IF k = 0 THEN 0
                                ELSE (base * g[k - 1] + digits[k]) % prime]
    BY DEF ResiduesUpTo
  <1>4. Residue(digits, base, prime) = value[n]
    BY DEF Residue, ResiduesUpTo
  <1> HIDE DEF n, h, value
  <1>5. \A k \in 1 .. n : k - 1 \in 0 .. n /\ k \in 0 .. n /\ k # 0
    BY <1>1
  <1>6. \A k \in 0 .. n : f[k] = h[k] % prime
    OBVIOUS
  <1>7. f[0] = 0
    <2>1. 0 % prime = 0
      BY DEF Primes
    <2>2. 0 \in 0 .. n
      BY <1>1
    <2> QED BY <1>2, <1>6, <2>1, <2>2
  <1>8. \A k \in 1 .. n : f[k] = (base * f[k - 1] + digits[k]) % prime
    <2> SUFFICES ASSUME NEW k \in 1 .. n
                 PROVE f[k] = (base * f[k - 1] + digits[k]) % prime
      OBVIOUS
    <2>1. h[k - 1] \in Nat /\ digits[k] \in Nat
      BY <1>1, <1>2, <1>5
    <2>2. (base * (h[k - 1] % prime) + digits[k]) % prime
            = (base * h[k - 1] + digits[k]) % prime
      BY <2>1, ResidueStep
    <2>3. f[k] = h[k] % prime /\ f[k - 1] = h[k - 1] % prime
      BY <1>5, <1>6
    <2> QED BY <1>2, <2>2, <2>3
  <1>9. f = [k \in 0 .. n |-> IF k = 0 THEN 0 ELSE (base * f[k - 1] + digits[k]) % prime]
    <2>1. \A k \in 0 .. n : k = 0 \/ k \in 1 .. n
      BY <1>1
    <2>2. \A k \in 0 .. n :
            f[k] = IF k = 0 THEN 0 ELSE (base * f[k - 1] + digits[k]) % prime
      BY <1>7, <1>8, <2>1
    <2>3. f = [k \in 0 .. n |-> f[k]]
      OBVIOUS
    <2> HIDE DEF f
    <2> QED BY <2>2, <2>3
  <1> HIDE DEF f
  <1>10. value = [k \in 0 .. n |-> IF k = 0 THEN 0
                                   ELSE (base * value[k - 1] + digits[k]) % prime]
    BY <1>3, <1>9
  <1>11. value[0] = 0 /\ \A k \in 1 .. n : value[k] = (base * value[k - 1] + digits[k]) % prime
    <2>1. 0 \in 0 .. n
      BY <1>1
    <2> QED BY <1>5, <1>10, <2>1
  <1>12. 0 \in T
    BY <1>7, <1>11
  <1>13. ASSUME NEW k \in Nat, k \in T PROVE k + 1 \in T
    <2>1. SUFFICES ASSUME k + 1 <= n PROVE value[k + 1] = f[k + 1]
      OBVIOUS
    <2>2. k + 1 \in 1 .. n /\ (k + 1) - 1 = k /\ k <= n
      BY <1>1, <2>1
    <2>3. value[k] = f[k]
      BY <1>13, <2>2
    <2> QED BY <1>8, <1>11, <2>2, <2>3
  <1> HIDE DEF T
  <1>14. Nat \subseteq T
    BY <1>12, <1>13, SetInduction
  <1>15. value[n] = f[n] /\ n \in 0 .. n
    BY <1>1, <1>14 DEF T
  <1> QED BY <1>2, <1>4, <1>6, <1>15

-----------------------------------------------------------------------------
(* The words and their codes.                                                *)

AllWords == Words6 \o Words7
Place(word) == SelectInSeq(AllWords, LAMBDA w : w = word)

LEMMA WordsCounted ==
  /\ Len(Words6) = 50 /\ Len(Words7) = 28
  /\ Len(AllWords) = 78 /\ DOMAIN AllWords = 1 .. 78
  /\ \A k \in 1 .. 50 : AllWords[k] = Words6[k]
  /\ \A k \in 51 .. 78 : AllWords[k] = Words7[k - 50]
  <1>1. Len(Words6) = 50
    BY DEF Words6
  <1>2. Len(Words7) = 28
    BY DEF Words7
  <1> DEFINE S == {Words6[i] : i \in 1 .. 50} \cup {Words7[i] : i \in 1 .. 28}
  <1>3. DOMAIN Words6 = 1 .. 50 /\ Words6 = [i \in 1 .. 50 |-> Words6[i]]
    BY DEF Words6
  <1>4. DOMAIN Words7 = 1 .. 28 /\ Words7 = [i \in 1 .. 28 |-> Words7[i]]
    BY DEF Words7
  <1>5. Words6 \in [1 .. 50 -> S] /\ Words7 \in [1 .. 28 -> S]
    BY <1>3, <1>4
  <1> HIDE DEF S
  <1>6. Words6 \in Seq(S) /\ Words7 \in Seq(S)
    <2>1. \A m \in Nat : [1 .. m -> S] \subseteq Seq(S)
      OBVIOUS
    <2>2. 50 \in Nat /\ 28 \in Nat
      OBVIOUS
    <2> QED BY ONLY <1>5, <2>1, <2>2
  <1>7. /\ Len(AllWords) = Len(Words6) + Len(Words7)
        /\ \A i \in 1 .. Len(AllWords) :
             AllWords[i] = IF i <= Len(Words6) THEN Words6[i]
                           ELSE Words7[i - Len(Words6)]
        /\ AllWords \in Seq(S)
    BY <1>6, ConcatProperties DEF AllWords
  <1>8. DOMAIN AllWords = 1 .. Len(AllWords)
    BY <1>7, Digits
  <1> QED BY <1>1, <1>2, <1>7, <1>8

LEMMA PlaceOfWord ==
  ASSUME NEW word \in DOMAIN codes
  PROVE  /\ Place(word) \in 1 .. 78 /\ AllWords[Place(word)] = word
         /\ \A k \in 1 .. 78 : AllWords[k] = word => Place(word) <= k
  <1> DEFINE I == {i \in 1 .. Len(AllWords) : AllWords[i] = word}
  <1>1. DOMAIN codes = ToSet(AllWords)
    BY DEF codes, AllWords
  <1>2. PICK i \in 1 .. 78 : AllWords[i] = word
    BY <1>1, WordsCounted DEF ToSet
  <1>3. I \in SUBSET Nat /\ I # {} /\ I \subseteq 1 .. 78
    BY <1>2, WordsCounted
  <1>4. Place(word) = CHOOSE x \in I : \A y \in I : x <= y
    BY <1>3 DEF Place, SelectInSeq, Min
  <1>5. \E x \in I : \A y \in I : x <= y
    BY <1>3, LeastExists
  <1>6. Place(word) \in I /\ \A y \in I : Place(word) <= y
    BY <1>4, <1>5
  <1> QED BY <1>3, <1>6, WordsCounted

LEMMA CodeOfWord ==
  ASSUME NEW word \in DOMAIN codes
  PROVE  codes[word] = IF Place(word) <= 50 THEN InBits(Place(word) - 1, 6)
                       ELSE InBits(Place(word) + 49, 7)
  <1>1. Place(word) - Len(Words6) + 99 = Place(word) + 49 /\ Len(Words6) = 50
    BY PlaceOfWord, WordsCounted
  <1> QED BY <1>1 DEF codes, Place, AllWords

LEMMA Powers ==
  /\ 2 ^ 0 = 1 /\ 2 ^ 1 = 2 /\ 2 ^ 2 = 4 /\ 2 ^ 3 = 8 /\ 2 ^ 4 = 16 /\ 2 ^ 5 = 32
  /\ 2 ^ 6 = 64
  /\ \A j \in 0 .. 6 : 2 ^ j \in Nat \ {0}
  <1>1. /\ 2 ^ 0 = 1 /\ 2 ^ 1 = 2 /\ 2 ^ 2 = 4 /\ 2 ^ 3 = 8 /\ 2 ^ 4 = 16 /\ 2 ^ 5 = 32
        /\ 2 ^ 6 = 64
    OBVIOUS
  <1>2. \A j \in 0 .. 6 : j = 0 \/ j = 1 \/ j = 2 \/ j = 3 \/ j = 4 \/ j = 5 \/ j = 6
    OBVIOUS
  <1>3. \A j \in 0 .. 6 : 2 ^ j \in {1, 2, 4, 8, 16, 32, 64}
    BY <1>1, <1>2
  <1>4. \A v \in {1, 2, 4, 8, 16, 32, 64} : v \in Nat \ {0}
    OBVIOUS
  <1> QED BY <1>1, <1>3, <1>4

LEMMA InBitsType ==
  ASSUME NEW n \in Nat, NEW width \in {6, 7}
  PROVE  InBits(n, width) \in Seq(Bit) /\ Len(InBits(n, width)) = width
  <1>1. \A k \in 1 .. width : width - k \in 0 .. 6
    OBVIOUS
  <1>2. \A d \in Nat \ {0} : n \div d \in Nat
    OBVIOUS
  <1>3. \A v \in Nat : v % 2 \in Bit
    BY DEF Bit
  <1>4. \A k \in 1 .. width : (n \div 2 ^ (width - k)) % 2 \in Bit
    BY <1>1, <1>2, <1>3, Powers
  <1>5. InBits(n, width) \in [1 .. width -> Bit]
    BY <1>4 DEF InBits
  <1>6. width \in Nat
    OBVIOUS
  <1> QED BY <1>5, <1>6

LEMMA CodesAreBits ==
  ASSUME NEW word \in DOMAIN codes
  PROVE  codes[word] \in Seq(Bit) /\ Len(codes[word]) \in {6, 7}
  <1> DEFINE p == Place(word)
  <1>1. p \in 1 .. 78
    BY PlaceOfWord
  <1>2. codes[word] = IF p <= 50 THEN InBits(p - 1, 6) ELSE InBits(p + 49, 7)
    BY CodeOfWord
  <1> HIDE DEF p
  <1>3. p - 1 \in Nat /\ p + 49 \in Nat /\ 6 \in {6, 7} /\ 7 \in {6, 7}
    BY <1>1
  <1>4. InBits(p - 1, 6) \in Seq(Bit) /\ Len(InBits(p - 1, 6)) = 6
    BY ONLY <1>3, InBitsType
  <1>5. InBits(p + 49, 7) \in Seq(Bit) /\ Len(InBits(p + 49, 7)) = 7
    BY ONLY <1>3, InBitsType
  <1> QED BY <1>2, <1>4, <1>5

LEMMA MarksHaveCodes ==
  {"ss", "rev", "file", "repo", "site"} \subseteq DOMAIN codes
  <1>1. DOMAIN codes = ToSet(AllWords)
    BY DEF codes, AllWords
  <1>2. /\ Words6[41] = "ss" /\ Words6[47] = "rev" /\ Words6[40] = "file"
        /\ Words6[48] = "repo" /\ Words6[35] = "site"
    BY DEF Words6
  <1>3. \A k \in 1 .. 50 : Words6[k] \in ToSet(AllWords)
    BY WordsCounted DEF ToSet
  <1> QED BY <1>1, <1>2, <1>3

-----------------------------------------------------------------------------
(* What is encoded is bits.                                                  *)

(* Flattening adds one sequence after the other.                             *)
Flattens(of, seqs, S) ==
  /\ of \in [0 .. Len(seqs) -> Seq(S)]
  /\ of[0] = <<>>
  /\ \A k \in 1 .. Len(seqs) : of[k] = of[k - 1] \o seqs[k]

LEMMA FlattenSteps ==
  ASSUME NEW S, NEW seqs \in Seq(Seq(S))
  PROVE  \E of : Flattens(of, seqs, S) /\ FlattenSeq(seqs) = of[Len(seqs)]
  <1> DEFINE n == Len(seqs)
             add(k, s) == s \o seqs[k]
             step == [p \in (1 .. n) \X Seq(S) |-> add(p[1], p[2])]
  <1>1. n \in Nat /\ \A k \in 1 .. n : seqs[k] \in Seq(S)
    BY Digits
  <1>2. n = 0 => seqs = <<>>
    OBVIOUS
  <1>3. FlattenSeq(seqs) =
          IF n = 0 THEN seqs
          ELSE (CHOOSE g : g = [k \in 1 .. n |-> IF k = 1 THEN seqs[k]
                                                 ELSE g[k - 1] \o seqs[k]])[n]
    BY DEF FlattenSeq
  <1> HIDE DEF n
  <1>4. \A k \in 1 .. n, s \in Seq(S) : add(k, s) \in Seq(S)
    BY <1>1, ConcatProperties
  <1>5. step \in [(1 .. n) \X Seq(S) -> Seq(S)]
    BY <1>4
  <1>6. \A k \in 1 .. n, s \in Seq(S) : step[<<k, s>>] = s \o seqs[k]
    OBVIOUS
  <1>7. <<>> \in Seq(S)
    OBVIOUS
  <1> HIDE DEF step
  <1>8. PICK f : Steps(f, n, Seq(S), <<>>, step)
    BY <1>1, <1>5, <1>7, StepsExist
  <1>9. \A k \in 1 .. n : k - 1 \in 0 .. n /\ k \in 0 .. n
    BY <1>1
  <1>10. f \in [0 .. n -> Seq(S)] /\ f[0] = <<>>
    BY <1>8 DEF Steps
  <1>11. \A k \in 1 .. n : f[k] = f[k - 1] \o seqs[k]
    BY <1>6, <1>8, <1>9 DEF Steps
  <1>12. Flattens(f, seqs, S)
    BY <1>10, <1>11 DEF Flattens, n
  <1>13. CASE n = 0
    BY <1>2, <1>3, <1>10, <1>12, <1>13 DEF n
  <1>14. CASE n > 0
    <2> DEFINE g == [k \in 1 .. n |-> f[k]]
               c == CHOOSE x : x = [k \in 1 .. n |-> IF k = 1 THEN seqs[k]
                                                     ELSE x[k - 1] \o seqs[k]]
    <2>1. f[1] = seqs[1]
      <3>1. 1 \in 1 .. n /\ 1 - 1 = 0
        BY <1>1, <1>14
      <3>2. f[1] = <<>> \o seqs[1] /\ seqs[1] \in Seq(S)
        BY <1>1, <1>10, <1>11, <3>1
      <3> QED BY ONLY <3>2, ConcatEmptySeq
    <2>2. \A k \in 1 .. n : k # 1 => k - 1 \in 1 .. n
      BY <1>1
    <2>3. \A k \in 1 .. n : g[k] = f[k]
      OBVIOUS
    <2>4. \A k \in 1 .. n : g[k] = IF k = 1 THEN seqs[k] ELSE g[k - 1] \o seqs[k]
      BY <1>11, <2>1, <2>2, <2>3
    <2>5. g = [k \in 1 .. n |-> g[k]]
      OBVIOUS
    <2> HIDE DEF g
    <2>6. g = [k \in 1 .. n |-> IF k = 1 THEN seqs[k] ELSE g[k - 1] \o seqs[k]]
      BY <2>4, <2>5
    <2>7. c = [k \in 1 .. n |-> IF k = 1 THEN seqs[k] ELSE c[k - 1] \o seqs[k]]
      BY <2>6
    <2>8. FlattenSeq(seqs) = c[n]
      BY <1>3, <1>14
    <2> HIDE DEF c
    <2>9. \A k \in 1 .. n : c[k] = IF k = 1 THEN seqs[k] ELSE c[k - 1] \o seqs[k]
      BY <2>7
    <2> DEFINE T == {k \in Nat : k + 1 <= n => c[k + 1] = f[k + 1]}
    <2>10. 0 \in T
      <3>1. 1 \in 1 .. n /\ 0 + 1 = 1
        BY <1>1, <1>14
      <3>2. c[1] = seqs[1]
        BY <2>9, <3>1
      <3> QED BY <2>1, <3>1, <3>2
    <2>11. ASSUME NEW k \in Nat, k \in T PROVE k + 1 \in T
      <3>1. SUFFICES ASSUME (k + 1) + 1 <= n PROVE c[(k + 1) + 1] = f[(k + 1) + 1]
        OBVIOUS
      <3>2. /\ (k + 1) + 1 \in 1 .. n /\ (k + 1) + 1 # 1 /\ ((k + 1) + 1) - 1 = k + 1
            /\ k + 1 <= n
        BY <1>1, <3>1
      <3>3. c[k + 1] = f[k + 1]
        BY <2>11, <3>2
      <3> DEFINE j == (k + 1) + 1
      <3>4. j \in 1 .. n /\ j # 1 /\ j - 1 = k + 1
        BY <3>2
      <3> HIDE DEF j
      <3>5. f[j] = f[k + 1] \o seqs[j]
        BY <1>11, <3>4
      <3>6. c[j] = c[k + 1] \o seqs[j]
        BY <2>9, <3>4
      <3>7. c[j] = f[j]
        BY <3>3, <3>5, <3>6
      <3> QED BY <3>7 DEF j
    <2> HIDE DEF T
    <2>12. Nat \subseteq T
      BY <2>10, <2>11, SetInduction
    <2>13. n - 1 \in T /\ (n - 1) + 1 = n /\ n <= n
      BY <1>1, <1>14, <2>12
    <2>14. c[n] = f[n]
      BY <2>13 DEF T
    <2> QED BY <1>12, <2>8, <2>14 DEF n
  <1> QED BY <1>1, <1>13, <1>14

LEMMA FlattenType ==
  ASSUME NEW S, NEW seqs \in Seq(Seq(S))
  PROVE  FlattenSeq(seqs) \in Seq(S)
  <1>1. PICK of : Flattens(of, seqs, S) /\ FlattenSeq(seqs) = of[Len(seqs)]
    BY FlattenSteps
  <1>2. Len(seqs) \in 0 .. Len(seqs)
    BY Digits
  <1> QED BY <1>1, <1>2 DEF Flattens

(* A set of places that is not empty has a last one.                         *)
LEMMA MaxTaken ==
  ASSUME NEW n \in Nat, NEW S \in SUBSET (1 .. n), S # {}
  PROVE  Max(S) \in S /\ \A y \in S : Max(S) >= y
  <1> DEFINE U == {m \in 0 .. n : \A y \in S : m >= y}
  <1>1. U \in SUBSET Nat /\ n \in U
    OBVIOUS
  <1> HIDE DEF U
  <1>2. PICK m \in U : \A j \in U : m <= j
    BY <1>1, LeastExists
  <1>3. m \in 0 .. n /\ \A y \in S : m >= y
    BY <1>2 DEF U
  <1>4. m \in S
    <2>1. SUFFICES ASSUME m \notin S PROVE FALSE
      OBVIOUS
    <2>2. PICK y \in S : TRUE
      OBVIOUS
    <2>3. m > y /\ y \in 1 .. n
      BY <1>3, <2>1, <2>2
    <2>4. m - 1 \in 0 .. n /\ \A v \in S : m - 1 >= v
      <3>1. \A v \in S : v \in 1 .. n /\ m >= v /\ m # v
        BY <1>3, <2>1
      <3> QED BY <1>3, <2>3, <3>1
    <2>5. m - 1 \in U
      BY <2>4 DEF U
    <2> QED BY <1>2, <1>3, <2>5
  <1> QED BY <1>3, <1>4 DEF Max

(* What is trimmed is a part of the string.                                  *)
LEMMA TrimmedType ==
  ASSUME NEW C, NEW data \in Seq(C)
  PROVE  trimmed(data) \in Seq(C)
  <1> DEFINE solid == {k \in DOMAIN data : data[k] \notin Blanks}
             n == Len(data)
             a == Min(solid)
             b == Max(solid)
  <1>1. trimmed(data) = IF solid = {} THEN <<>> ELSE SubSeq(data, a, b)
    BY DEF trimmed
  <1>2. n \in Nat /\ DOMAIN data = 1 .. n /\ \A k \in 1 .. n : data[k] \in C
    BY Digits
  <1> HIDE DEF n
  <1>3. solid \subseteq 1 .. n
    BY <1>2
  <1>4. CASE solid = {}
    BY <1>1, <1>4
  <1>5. CASE solid # {}
    <2>1. a \in solid
      <3> HIDE DEF solid
      <3>1. solid \in SUBSET Nat
        BY <1>3
      <3>2. \E x \in solid : \A y \in solid : x <= y
        BY <1>5, <3>1, LeastExists
      <3> QED BY <3>2 DEF Min
    <2>2. b \in solid
      <3> HIDE DEF solid
      <3> QED BY <1>2, <1>3, <1>5, MaxTaken
    <2> HIDE DEF solid, a, b
    <2>3. a \in 1 .. n /\ b \in 1 .. n
      BY <1>3, <2>1, <2>2
    <2>4. a \in Int /\ b \in Int /\ \A i \in a .. b : data[i] \in C
      BY <1>2, <2>3
    <2>5. SubSeq(data, a, b) \in Seq(C)
      BY ONLY <2>4, SubSeqProperties
    <2> QED BY <1>1, <1>5, <2>5
  <1> QED BY <1>4, <1>5

LEMMA StringBits ==
  ASSUME NEW C, NEW data \in Seq(C)
  PROVE  BitsForString(data) \in Seq(Bit)
  <1> DEFINE list == trimmed(data)
             bits(k) == IF list[k] \in DOMAIN codes THEN codes[list[k]] ELSE <<>>
             seqs == [k \in DOMAIN list |-> bits(k)]
  <1>1. Len(list) \in Nat /\ DOMAIN list = 1 .. Len(list)
    BY TrimmedType, Digits
  <1>2. <<>> \in Seq(Bit)
    OBVIOUS
  <1>3. \A k \in DOMAIN list : bits(k) \in Seq(Bit)
    BY <1>2, CodesAreBits
  <1>4. BitsForString(data) = FlattenSeq(seqs)
    BY DEF BitsForString
  <1> HIDE DEF bits, list
  <1>5. seqs \in [1 .. Len(list) -> Seq(Bit)]
    BY <1>1, <1>3
  <1>6. seqs \in Seq(Seq(Bit))
    BY <1>1, <1>5
  <1> QED BY <1>4, <1>6, FlattenType

LEMMA PreambleBits ==
  ASSUME NEW C, NEW data \in Seq(C), NEW type \in DOMAIN codes
  PROVE  BitsWithPreamble(type, data) \in Seq(Bit)
  <1>1. BitsForString(data) \in Seq(Bit) /\ codes[type] \in Seq(Bit)
    BY StringBits, CodesAreBits
  <1>2. codes[type] \o BitsForString(data) \in Seq(Bit) /\ <<>> \in Seq(Bit)
    BY <1>1, ConcatProperties
  <1> QED BY <1>1, <1>2 DEF BitsWithPreamble

LEMMA BeginningType ==
  ASSUME NEW S, NEW s \in Seq(S), NEW m \in Int, m <= Len(s)
  PROVE  SubSeq(s, 1, m) \in Seq(S)
  <1>1. \A i \in 1 .. m : i \in 1 .. Len(s)
    BY Digits
  <1>2. \A i \in 1 .. m : s[i] \in S
    BY <1>1, Digits
  <1>3. 1 \in Int
    OBVIOUS
  <1> QED BY ONLY <1>2, <1>3, m \in Int, SubSeqProperties

LEMMA EndType ==
  ASSUME NEW S, NEW s \in Seq(S), NEW m \in Nat
  PROVE  /\ SubSeq(s, m + 1, Len(s)) \in Seq(S)
         /\ Len(SubSeq(s, m + 1, Len(s))) = IF m <= Len(s) THEN Len(s) - m ELSE 0
  <1> DEFINE n == Len(s)
  <1>1. n \in Nat
    BY Digits
  <1>2. \A i \in m + 1 .. n : i \in 1 .. n
    BY <1>1
  <1>3. \A i \in m + 1 .. n : s[i] \in S
    BY <1>2, Digits
  <1> HIDE DEF n
  <1>4. m + 1 \in Int /\ n \in Int
    BY <1>1
  <1>5. /\ SubSeq(s, m + 1, n) \in Seq(S)
        /\ Len(SubSeq(s, m + 1, n)) = IF m + 1 <= n THEN n - (m + 1) + 1 ELSE 0
    BY ONLY <1>3, <1>4, SubSeqProperties
  <1>6. (IF m + 1 <= n THEN n - (m + 1) + 1 ELSE 0) = IF m <= n THEN n - m ELSE 0
    BY <1>1
  <1> QED BY <1>5, <1>6 DEF n

LEMMA RemovedType ==
  ASSUME NEW bits \in Seq(Bit)
  PROVE  BitsRemoveIfStartStop(bits) \in Seq(Bit)
  <1> DEFINE m == Len(codes.ss)
             marked == SubSeq(bits, 1, Len(bits) - m)
  <1>1. m \in Nat
    <2>1. "ss" \in DOMAIN codes
      BY MarksHaveCodes
    <2>2. Len(codes["ss"]) \in {6, 7}
      BY <2>1, CodesAreBits
    <2> QED BY <2>2
  <1> HIDE DEF m
  <1>2. \A s \in Seq(Bit) : Len(s) - m \in Int /\ Len(s) - m <= Len(s)
    BY <1>1, Digits
  <1>3. \A s \in Seq(Bit) : SubSeq(s, 1, Len(s) - m) \in Seq(Bit)
    BY <1>2, BeginningType
  <1>4. BitsRemoveIfStartStop(bits) \in {bits, SubSeq(marked, 1, Len(marked) - m)}
    BY DEF BitsRemoveIfStartStop, m
  <1>5. marked \in Seq(Bit)
    BY <1>3
  <1> HIDE DEF marked
  <1>6. SubSeq(marked, 1, Len(marked) - m) \in Seq(Bit)
    BY <1>3, <1>5
  <1> QED BY <1>4, <1>6

LEMMA MetaType ==
  ASSUME NEW C, NEW meta, \A f \in Fields : meta[f] \in Seq(C), NEW site
  PROVE  MetaBits(meta, site) \in Seq(Bit)
  <1> DEFINE ss == codes.ss
             rev == BitsWithPreamble("rev", meta["rev"])
             file == BitsWithPreamble("file", meta["file"])
             repo == BitsWithPreamble("repo", meta["repo"])
             digit == BitsWithPreamble("site", <<SiteDigits[site]>>)
             sited == IF site = 1 THEN <<>> ELSE digit
  <1>1. {"ss", "rev", "file", "repo", "site"} \subseteq DOMAIN codes
    BY MarksHaveCodes
  <1>2. ss \in Seq(Bit)
    BY <1>1, CodesAreBits
  <1>3. rev \in Seq(Bit) /\ file \in Seq(Bit) /\ repo \in Seq(Bit)
    <2>1. meta["rev"] \in Seq(C) /\ meta["file"] \in Seq(C) /\ meta["repo"] \in Seq(C)
      BY DEF Fields
    <2> QED BY <1>1, <2>1, PreambleBits
  <1>4. sited \in Seq(Bit)
    <2>1. <<SiteDigits[site]>> \in Seq({SiteDigits[site]}) /\ <<>> \in Seq(Bit)
      OBVIOUS
    <2>2. digit \in Seq(Bit)
      BY <1>1, <2>1, PreambleBits
    <2> QED BY <2>1, <2>2
  <1>5. MetaBits(meta, site) =
          BitsRemoveIfStartStop(ss \o rev \o file \o repo \o sited \o ss)
    BY DEF MetaBits
  <1> HIDE DEF ss, rev, file, repo, sited
  <1>6. \A a, b \in Seq(Bit) : a \o b \in Seq(Bit)
    BY ConcatProperties
  <1>7. ss \o rev \o file \o repo \o sited \o ss \in Seq(Bit)
    BY <1>2, <1>3, <1>4, <1>6
  <1> QED BY <1>5, <1>7, RemovedType

LEMMA ZcodeBitsType ==
  ASSUME NEW C, NEW meta, \A f \in Fields : meta[f] \in Seq(C), NEW site,
         NEW selected, NEW size \in Nat
  PROVE  ZcodeBits(selected, size, meta, site) \in Seq(Bit)
  <1> DEFINE rows == [r \in 1 .. size |-> IF r \in selected THEN 1 ELSE 0]
             data == Version \o rows
             appendix == MetaBits(meta, site)
  <1>1. rows \in [1 .. size -> Bit]
    BY DEF Bit
  <1>2. rows \in Seq(Bit) /\ Version \in Seq(Bit)
    BY <1>1 DEF Version, Bit
  <1>3. \A a, b \in Seq(Bit) : a \o b \in Seq(Bit)
    BY ConcatProperties
  <1>4. codes.ss \in Seq(Bit)
    BY MarksHaveCodes, CodesAreBits
  <1>5. appendix \in Seq(Bit)
    BY MetaType
  <1>6. ZcodeBits(selected, size, meta, site) \in {codes.ss \o data, appendix \o data}
    BY DEF ZcodeBits
  <1>7. data \in Seq(Bit)
    BY <1>2, <1>3
  <1> HIDE DEF data, appendix
  <1>8. codes.ss \o data \in Seq(Bit) /\ appendix \o data \in Seq(Bit)
    BY <1>3, <1>4, <1>5, <1>7
  <1> QED BY <1>6, <1>8

LEMMA ReverseType ==
  ASSUME NEW S, NEW s \in Seq(S)
  PROVE  Reverse(s) \in Seq(S) /\ Len(Reverse(s)) = Len(s)
  <1> DEFINE n == Len(s)
  <1>1. n \in Nat
    BY Digits
  <1>2. Reverse(s) = [i \in 1 .. n |-> s[(n - i) + 1]]
    BY DEF Reverse
  <1>3. \A i \in 1 .. n : (n - i) + 1 \in 1 .. Len(s)
    BY <1>1
  <1>4. \A i \in 1 .. n : s[(n - i) + 1] \in S
    BY <1>3, Digits
  <1> HIDE DEF n
  <1>5. Reverse(s) \in [1 .. n -> S]
    BY <1>2, <1>4
  <1>6. Reverse(s) \in Seq(S) /\ Len(Reverse(s)) = n
    BY <1>1, <1>5
  <1> QED BY <1>6 DEF n

(* What the window computes is a text, and the number of its bits.           *)
LEMMA ComputedText ==
  ASSUME NEW C, NEW w, \A f \in Fields : w.meta[f] \in Seq(C),
         SizeOf(w.index) \in Nat
  PROVE  /\ Reverse(WindowBits(w)) \in Seq(Nat)
         /\ encode_zcode_arr01(Reverse(WindowBits(w))) \in Seq(0 .. 35)
         /\ Number(encode_zcode_arr01(Reverse(WindowBits(w))), 36) =
              Number(Reverse(WindowBits(w)), 2)
  <1> DEFINE bits == Reverse(WindowBits(w))
  <1>1. WindowBits(w) \in Seq(Bit)
    BY ZcodeBitsType DEF WindowBits
  <1>2. bits \in Seq(Bit)
    BY <1>1, ReverseType
  <1>3. Bit \subseteq Nat
    BY DEF Bit
  <1> HIDE DEF bits
  <1>4. bits \in Seq(Nat)
    BY <1>2, <1>3, SeqMonotonic
  <1>5. /\ encode_zcode_arr01(bits) \in Seq(0 .. 35)
        /\ Number(encode_zcode_arr01(bits), 36) = Number(bits, 2)
    BY <1>4, EncodingKeepsTheNumber
  <1> QED BY <1>4, <1>5 DEF bits

LEMMA SizesAreNumbers ==
  \A i : SizeOf(i) \in Nat
  BY SizesAssumption DEF SizeOf

-----------------------------------------------------------------------------
(* Every handler keeps the type of the window.                               *)

WellTyped(w) == w \in Window /\ w.selected \subseteq 1 .. SizeOf(w.index)

(* A text and a site are replaced, and the text for an index computed.       *)
LEMMA WindowFields ==
  ASSUME NEW w \in Window
  PROVE  /\ w.text \in Text /\ w.index \in Int /\ w.selected \in SUBSET Nat
         /\ w.meta \in [Fields -> Seq(Characters)] /\ w.site \in 1 .. 3
         /\ w = [text |-> w.text, index |-> w.index, selected |-> w.selected,
                 meta |-> w.meta, site |-> w.site]
         /\ \A t : [w EXCEPT !.text = t] =
              [text |-> t, index |-> w.index, selected |-> w.selected,
               meta |-> w.meta, site |-> w.site]
         /\ \A i : [w EXCEPT !.index = i] =
              [text |-> w.text, index |-> i, selected |-> w.selected,
               meta |-> w.meta, site |-> w.site]
         /\ \A s : [w EXCEPT !.selected = s] =
              [text |-> w.text, index |-> w.index, selected |-> s,
               meta |-> w.meta, site |-> w.site]
         /\ \A m : [w EXCEPT !.meta = m] =
              [text |-> w.text, index |-> w.index, selected |-> w.selected,
               meta |-> m, site |-> w.site]
         /\ \A s : [w EXCEPT !.site = s] =
              [text |-> w.text, index |-> w.index, selected |-> w.selected,
               meta |-> w.meta, site |-> s]
  <1>1. /\ w.text \in Text /\ w.index \in Int /\ w.selected \in SUBSET Nat
        /\ w.meta \in [Fields -> Seq(Characters)] /\ w.site \in 1 .. 3
    BY DEF Window
  <1>2. w = [text |-> w.text, index |-> w.index, selected |-> w.selected,
             meta |-> w.meta, site |-> w.site]
    BY DEF Window
  <1>3. \A x : [w EXCEPT !.text = x] =
            [text |-> x, index |-> w.index, selected |-> w.selected,
             meta |-> w.meta, site |-> w.site]
    BY ONLY <1>2
  <1>4. \A x : [w EXCEPT !.index = x] =
            [text |-> w.text, index |-> x, selected |-> w.selected,
             meta |-> w.meta, site |-> w.site]
    BY ONLY <1>2
  <1>5. \A x : [w EXCEPT !.selected = x] =
            [text |-> w.text, index |-> w.index, selected |-> x,
             meta |-> w.meta, site |-> w.site]
    BY ONLY <1>2
  <1>6. \A x : [w EXCEPT !.meta = x] =
            [text |-> w.text, index |-> w.index, selected |-> w.selected,
             meta |-> x, site |-> w.site]
    BY ONLY <1>2
  <1>7. \A x : [w EXCEPT !.site = x] =
            [text |-> w.text, index |-> w.index, selected |-> w.selected,
             meta |-> w.meta, site |-> x]
    BY ONLY <1>2
  <1> QED BY ONLY <1>1, <1>2, <1>3, <1>4, <1>5, <1>6, <1>7

LEMMA WindowMade ==
  ASSUME NEW t \in Text, NEW i \in Int, NEW s \in SUBSET Nat,
         NEW m \in [Fields -> Seq(Characters)], NEW site \in 1 .. 3
  PROVE  [text |-> t, index |-> i, selected |-> s, meta |-> m, site |-> site] \in Window
  BY DEF Window

LEMMA NumberTextType ==
  ASSUME NEW i \in Int, NEW letters \in Seq(0 .. 35)
  PROVE  NumberText(i, letters) \in Text
  <1>1. 0 .. 35 \subseteq 0 .. Radix
    BY DEF Radix
  <1>2. letters \in Seq(0 .. Radix)
    BY <1>1, SeqMonotonic
  <1>3. "number" \in Forms
    BY DEF Forms
  <1> QED BY <1>2, <1>3 DEF NumberText, Text

LEMMA RecomputeType ==
  ASSUME NEW w \in Window
  PROVE  /\ recomputeZcode(w) \in Window
         /\ recomputeZcode(w).index = w.index
         /\ recomputeZcode(w).selected = w.selected
         /\ recomputeZcode(w).meta = w.meta
         /\ recomputeZcode(w).site = w.site
         /\ recomputeZcode(w).text =
              NumberText(w.index, encode_zcode_arr01(Reverse(WindowBits(w))))
  <1> DEFINE letters == encode_zcode_arr01(Reverse(WindowBits(w)))
             t == NumberText(w.index, letters)
             r == [text |-> t, index |-> w.index, selected |-> w.selected,
                   meta |-> w.meta, site |-> w.site]
  <1>1. \A f \in Fields : w.meta[f] \in Seq(Characters)
    BY WindowFields
  <1>2. letters \in Seq(0 .. 35)
    BY <1>1, ComputedText, SizesAreNumbers
  <1>3. recomputeZcode(w) = r
    BY WindowFields DEF recomputeZcode
  <1> HIDE DEF letters
  <1>4. t \in Text
    BY <1>2, WindowFields, NumberTextType
  <1> HIDE DEF t
  <1>5. r \in Window
    BY <1>4, WindowFields, WindowMade
  <1>6. /\ r.index = w.index /\ r.selected = w.selected /\ r.meta = w.meta
        /\ r.site = w.site /\ r.text = t
    OBVIOUS
  <1> QED BY <1>3, <1>5, <1>6 DEF t, letters

LEMMA SetSiteType ==
  ASSUME NEW w \in Window, NEW site \in 1 .. 3
  PROVE  /\ setSite(w, site) \in Window
         /\ setSite(w, site).index = w.index
         /\ setSite(w, site).selected = w.selected
         /\ setSite(w, site).meta = w.meta
         /\ setSite(w, site).site = site
  <1> DEFINE v == [w EXCEPT !.site = site]
             r == [text |-> w.text, index |-> w.index, selected |-> w.selected,
                   meta |-> w.meta, site |-> site]
  <1>1. v = r /\ r \in Window
    BY WindowFields, WindowMade
  <1>2. r.index = w.index /\ r.selected = w.selected /\ r.meta = w.meta /\ r.site = site
    OBVIOUS
  <1>3. setSite(w, site) = IF site = w.site THEN w ELSE recomputeZcode(v)
    BY DEF setSite
  <1> HIDE DEF v, r
  <1>4. CASE site = w.site
    BY <1>3, <1>4
  <1>5. CASE site # w.site
    BY <1>1, <1>2, <1>3, <1>5, RecomputeType
  <1> QED BY <1>4, <1>5

LEMMA ApplyType ==
  ASSUME NEW w \in Window, NEW selectors
  PROVE  /\ WellTyped(applyCodeSelectors(w, selectors))
         /\ applyCodeSelectors(w, selectors).index = w.index
         /\ applyCodeSelectors(w, selectors).meta = w.meta
         /\ applyCodeSelectors(w, selectors).site = w.site
         /\ applyCodeSelectors(w, selectors).selected =
              {r \in 1 .. SizeOf(w.index) : r <= Len(selectors) /\ selectors[r] = 1}
  <1> DEFINE s == {r \in 1 .. SizeOf(w.index) :
                     r <= Len(selectors) /\ selectors[r] = 1}
             v == [w EXCEPT !.selected = s]
             r == [text |-> w.text, index |-> w.index, selected |-> s,
                   meta |-> w.meta, site |-> w.site]
             new == applyCodeSelectors(w, selectors)
  <1>1. s \subseteq 1 .. SizeOf(w.index) /\ s \in SUBSET Nat
    BY SizesAreNumbers
  <1>2. new = IF Len(selectors) > SizeOf(w.index) THEN recomputeZcode(v) ELSE v
    BY DEF applyCodeSelectors
  <1> HIDE DEF s, new
  <1>3. v = r /\ r \in Window
    BY <1>1, WindowFields, WindowMade
  <1>4. r.index = w.index /\ r.selected = s /\ r.meta = w.meta /\ r.site = w.site
    OBVIOUS
  <1> HIDE DEF v, r
  <1>5. /\ new \in Window /\ new.index = w.index /\ new.selected = s
        /\ new.meta = w.meta /\ new.site = w.site
    <2>1. CASE Len(selectors) > SizeOf(w.index)
      BY <1>2, <1>3, <1>4, <2>1, RecomputeType
    <2>2. CASE ~ (Len(selectors) > SizeOf(w.index))
      BY <1>2, <1>3, <1>4, <2>2
    <2> QED BY <2>1, <2>2
  <1>6. WellTyped(new)
    BY <1>1, <1>5 DEF WellTyped
  <1> QED BY <1>5, <1>6 DEF new, s

LEMMA ReloadType ==
  ASSUME NEW w \in Window, NEW i \in Int, NEW selectors
  PROVE  /\ WellTyped(reloadRepository(i, w, selectors))
         /\ reloadRepository(i, w, selectors).index = i
         /\ reloadRepository(i, w, selectors).meta = w.meta
         /\ reloadRepository(i, w, selectors).site = w.site
         /\ reloadRepository(i, w, selectors).selected =
              {r \in 1 .. SizeOf(i) : r <= Len(selectors) /\ selectors[r] = 1}
  <1> DEFINE v == [w EXCEPT !.index = i]
             r == [text |-> w.text, index |-> i, selected |-> w.selected,
                   meta |-> w.meta, site |-> w.site]
             a == applyCodeSelectors(v, selectors)
             new == reloadRepository(i, w, selectors)
  <1>1. v = r /\ r \in Window
    BY WindowFields, WindowMade
  <1>2. r.index = i /\ r.meta = w.meta /\ r.site = w.site
    OBVIOUS
  <1>3. new = recomputeZcode(a)
    BY DEF reloadRepository
  <1> HIDE DEF v, r, new
  <1>4. /\ WellTyped(a) /\ a.index = i /\ a.meta = w.meta /\ a.site = w.site
        /\ a.selected = {k \in 1 .. SizeOf(i) : k <= Len(selectors) /\ selectors[k] = 1}
    BY <1>1, <1>2, ApplyType
  <1> HIDE DEF a
  <1>5. a \in Window /\ a.selected \subseteq 1 .. SizeOf(a.index)
    BY <1>4 DEF WellTyped
  <1>6. /\ new \in Window /\ new.index = a.index /\ new.selected = a.selected
        /\ new.meta = a.meta /\ new.site = a.site
    BY <1>3, <1>5, RecomputeType
  <1>7. WellTyped(new)
    BY <1>5, <1>6 DEF WellTyped
  <1> QED BY <1>4, <1>6, <1>7 DEF new

-----------------------------------------------------------------------------
(* What is decoded.                                                          *)

(* The words of the metadata, and the ones among them that are characters.   *)
CodeWords == DOMAIN codes \ {"ss"}
Plain == DOMAIN codes \ Controls

LEMMA FirstWordIs ==
  ASSUME NEW bits
  PROVE  \/ FirstWord(bits) = ""
         \/ /\ FirstWord(bits) \in DOMAIN codes
            /\ IsPrefix(codes[FirstWord(bits)], bits)
  <1> DEFINE found == {word \in DOMAIN codes : IsPrefix(codes[word], bits)}
  <1>1. FirstWord(bits) = IF found = {} THEN "" ELSE CHOOSE word \in found : TRUE
    BY DEF FirstWord
  <1>2. found # {} => (CHOOSE word \in found : TRUE) \in found
    OBVIOUS
  <1>3. FirstWord(bits) = "" \/ FirstWord(bits) \in found
    BY <1>1, <1>2
  <1> QED BY <1>3

Reading == [words : Seq(CodeWords), rest : Seq(Bit), complete : BOOLEAN]

After(bits, word) == SubSeq(bits, Len(codes[word]) + 1, Len(bits))

(* A word is read off the front, and there is less to read.                  *)
LEMMA WordTaken ==
  ASSUME NEW bits \in Seq(Bit), NEW word \in DOMAIN codes
  PROVE  /\ After(bits, word) \in Seq(Bit)
         /\ IsPrefix(codes[word], bits) => Len(After(bits, word)) < Len(bits)
  <1> DEFINE m == Len(codes[word])
  <1>1. m \in {6, 7}
    BY CodesAreBits
  <1>2. m \in Nat /\ m > 0
    <2> HIDE DEF m
    <2> QED BY <1>1
  <1>3. After(bits, word) = SubSeq(bits, m + 1, Len(bits))
    BY DEF After
  <1>4. IsPrefix(codes[word], bits) => m <= Len(bits)
    BY DEF IsPrefix
  <1> HIDE DEF m
  <1>5. /\ After(bits, word) \in Seq(Bit)
        /\ Len(After(bits, word)) = IF m <= Len(bits) THEN Len(bits) - m ELSE 0
    BY <1>2, <1>3, EndType
  <1>6. Len(bits) \in Nat
    BY Digits
  <1> QED BY <1>2, <1>4, <1>5, <1>6

LEMMA ReadingGrows ==
  ASSUME NEW word \in CodeWords, NEW r \in Reading
  PROVE  [words |-> <<word>> \o r.words, rest |-> r.rest, complete |-> r.complete]
           \in Reading
  <1>1. r.words \in Seq(CodeWords) /\ r.rest \in Seq(Bit) /\ r.complete \in BOOLEAN
    BY DEF Reading
  <1>2. <<word>> \in Seq(CodeWords)
    OBVIOUS
  <1>3. <<word>> \o r.words \in Seq(CodeWords)
    BY <1>1, <1>2, ConcatProperties
  <1> QED BY <1>1, <1>3 DEF Reading

ReadFunction ==
  LET read[rest \in Seq(Bit)] ==
        LET word == FirstWord(rest)
        IN  CASE word = "" -> [words |-> <<>>, rest |-> rest, complete |-> FALSE]
              [] word = "ss" -> [words |-> <<>>, complete |-> TRUE,
                                 rest |-> SubSeq(rest, Len(codes.ss) + 1, Len(rest))]
              [] OTHER ->
                   LET after == read[SubSeq(rest, Len(codes[word]) + 1, Len(rest))]
                   IN  [after EXCEPT !.words = <<word>> \o @]
  IN  read

(* Reading ends, and goes word by word.                                      *)
LEMMA ReadStep ==
  \A bits \in Seq(Bit) :
    /\ ReadWords(bits) \in Reading
    /\ FirstWord(bits) = "" =>
         ReadWords(bits) = [words |-> <<>>, rest |-> bits, complete |-> FALSE]
    /\ FirstWord(bits) = "ss" =>
         ReadWords(bits) = [words |-> <<>>, rest |-> After(bits, "ss"), complete |-> TRUE]
    /\ FirstWord(bits) \notin {"", "ss"} =>
         ReadWords(bits) =
           [words |-> <<FirstWord(bits)>> \o ReadWords(After(bits, FirstWord(bits))).words,
            rest |-> ReadWords(After(bits, FirstWord(bits))).rest,
            complete |-> ReadWords(After(bits, FirstWord(bits))).complete]
  <1> DEFINE D == Seq(Bit)
             Z == {b \in D : FirstWord(b) \in {"", "ss"}}
             end(b) == IF FirstWord(b) = ""
                       THEN [words |-> <<>>, rest |-> b, complete |-> FALSE]
                       ELSE [words |-> <<>>, rest |-> After(b, "ss"), complete |-> TRUE]
             next(b) == After(b, FirstWord(b))
             put(b, r) == [words |-> <<FirstWord(b)>> \o r.words,
                           rest |-> r.rest, complete |-> r.complete]
             z == [b \in D |-> IF b \in Z THEN end(b)
                               ELSE [words |-> <<>>, rest |-> <<>>, complete |-> FALSE]]
             q == [b \in D |-> IF b \in Z THEN b ELSE next(b)]
             step == [p \in D \X Reading |->
                        IF p[1] \in Z THEN p[2] ELSE put(p[1], p[2])]
             mu == [b \in D |-> Len(b)]
             read == ReadFunction
  <1>1. "ss" \in DOMAIN codes
    BY MarksHaveCodes
  <1>2. \A b \in D : b \notin Z =>
          /\ FirstWord(b) \in CodeWords
          /\ next(b) \in D /\ Len(next(b)) < Len(b)
    <2> SUFFICES ASSUME NEW b \in D, b \notin Z
                 PROVE /\ FirstWord(b) \in CodeWords
                       /\ next(b) \in D /\ Len(next(b)) < Len(b)
      OBVIOUS
    <2>1. FirstWord(b) \in DOMAIN codes /\ IsPrefix(codes[FirstWord(b)], b)
      BY FirstWordIs
    <2>2. FirstWord(b) # "ss"
      OBVIOUS
    <2> QED BY <2>1, <2>2, WordTaken DEF CodeWords
  <1>3. \A b \in D : end(b) \in Reading
    <2>1. \A b \in D : After(b, "ss") \in Seq(Bit)
      BY <1>1, WordTaken
    <2>2. <<>> \in Seq(CodeWords)
      OBVIOUS
    <2> QED BY <2>1, <2>2 DEF Reading
  <1>4. \A b \in D, r \in Reading : b \notin Z => put(b, r) \in Reading
    <2> SUFFICES ASSUME NEW b \in D, NEW r \in Reading, b \notin Z
                 PROVE put(b, r) \in Reading
      OBVIOUS
    <2>1. FirstWord(b) \in CodeWords
      BY <1>2
    <2> QED BY <2>1, ReadingGrows
  <1>5. \A b : ReadWords(b) = read[b]
    BY DEF ReadWords, ReadFunction
  <1>6. read = CHOOSE g : g = [b \in D |->
                 CASE FirstWord(b) = "" -> [words |-> <<>>, rest |-> b, complete |-> FALSE]
                   [] FirstWord(b) = "ss" -> [words |-> <<>>, complete |-> TRUE,
                                              rest |-> After(b, "ss")]
                   [] OTHER -> [g[next(b)] EXCEPT !.words = <<FirstWord(b)>> \o @]]
    BY DEF ReadFunction, After
  <1> HIDE DEF end, next, put, read
  <1>7. z \in [D -> Reading]
    <2>1. [words |-> <<>>, rest |-> <<>>, complete |-> FALSE] \in Reading
      BY DEF Reading
    <2> QED BY <1>3, <2>1
  <1>8. q \in [D -> D]
    BY <1>2
  <1>9. step \in [D \X Reading -> Reading]
    BY <1>4
  <1>10. mu \in [D -> Nat]
    BY Digits
  <1>11. /\ \A b \in D : b \in Z => z[b] = end(b)
         /\ \A b \in D : b \notin Z => q[b] = next(b)
         /\ \A b \in D, r \in Reading : b \notin Z => step[<<b, r>>] = put(b, r)
         /\ \A b \in D : mu[b] = Len(b)
         /\ \A b \in D : b \in Z <=> FirstWord(b) \in {"", "ss"}
    OBVIOUS
  <1> HIDE DEF z, q, step, mu, Z
  <1>12. \A b \in D : b \notin Z => mu[q[b]] < mu[b]
    BY <1>2, <1>11
  <1> HIDE DEF D
  <1>13. PICK f : Obeys(f, D, Reading, Z, z, q, step)
    BY <1>7, <1>8, <1>9, <1>10, <1>12, RecursionExists
  <1>14. /\ f \in [D -> Reading]
         /\ \A b \in D : f[b] = IF b \in Z THEN z[b] ELSE step[<<b, f[q[b]]>>]
    BY <1>13 DEF Obeys
  <1> DEFINE made(g, b) ==
               CASE FirstWord(b) = "" -> [words |-> <<>>, rest |-> b, complete |-> FALSE]
                 [] FirstWord(b) = "ss" -> [words |-> <<>>, complete |-> TRUE,
                                            rest |-> After(b, "ss")]
                 [] OTHER -> [g[next(b)] EXCEPT !.words = <<FirstWord(b)>> \o @]
  <1>15. \A g, b : g[next(b)] \in Reading =>
           made(g, b) = IF FirstWord(b) \in {"", "ss"} THEN end(b) ELSE put(b, g[next(b)])
    <2> SUFFICES ASSUME NEW g, NEW b, g[next(b)] \in Reading
                 PROVE made(g, b) = IF FirstWord(b) \in {"", "ss"} THEN end(b)
                                    ELSE put(b, g[next(b)])
      OBVIOUS
    <2>1. CASE FirstWord(b) = ""
      BY <2>1 DEF end
    <2>2. CASE FirstWord(b) = "ss"
      BY <2>2 DEF end
    <2>3. CASE FirstWord(b) # "" /\ FirstWord(b) # "ss"
      <3> DEFINE r == g[next(b)]
                 w == FirstWord(b)
      <3>1. made(g, b) = [r EXCEPT !.words = <<w>> \o @]
        BY <2>3
      <3>2. put(b, r) = [words |-> <<w>> \o r.words, rest |-> r.rest, complete |-> r.complete]
        BY DEF put
      <3>3. r \in Reading
        OBVIOUS
      <3> HIDE DEF r, w, made
      <3>4. \A x : [r EXCEPT !.words = x]
                     = [words |-> x, rest |-> r.rest, complete |-> r.complete]
        BY <3>3 DEF Reading
      <3>5. made(g, b) = put(b, r)
        BY <3>1, <3>2, <3>4
      <3> QED BY <2>3, <3>5 DEF r
    <2> HIDE DEF made
    <2> QED BY <2>1, <2>2, <2>3
  <1>16. read = CHOOSE g : g = [b \in D |-> made(g, b)]
    BY <1>6 DEF D
  <1>17. \A b \in D : FirstWord(b) \in {"", "ss"} =>
           \A g : made(g, b) = end(b)
    BY DEF end
  <1> HIDE DEF made
  <1>18. \A b \in D : f[b] = made(f, b)
    <2> SUFFICES ASSUME NEW b \in D PROVE f[b] = made(f, b)
      OBVIOUS
    <2>1. CASE b \in Z
      BY <1>11, <1>14, <1>17, <2>1
    <2>2. CASE b \notin Z
      <3>1. q[b] = next(b) /\ next(b) \in D
        BY <1>2, <1>11, <2>2 DEF D
      <3>2. f[next(b)] \in Reading
        BY <1>14, <3>1
      <3>a. f[b] = step[<<b, f[q[b]]>>]
        BY <1>14, <2>2
      <3>b. step[<<b, f[next(b)]>>] = put(b, f[next(b)])
        BY <1>11, <2>2, <3>2
      <3>3. f[b] = put(b, f[next(b)])
        BY <3>a, <3>b, <3>1
      <3>4. FirstWord(b) \notin {"", "ss"}
        BY <1>11, <2>2
      <3> QED BY <1>15, <3>2, <3>3, <3>4
    <2> QED BY <2>1, <2>2
  <1>19. f = [b \in D |-> made(f, b)]
    <2>1. f = [b \in D |-> f[b]]
      BY <1>14
    <2> QED BY <1>18, <2>1
  <1>20. read = [b \in D |-> made(read, b)]
    BY <1>16, <1>19
  <1>21. \A b \in D : read[b] = made(read, b)
    BY <1>20
  <1>22. \A b \in D : read[b] \in Reading
    <2> DEFINE U == {Len(b) : b \in {c \in D : read[c] \notin Reading}}
    <2>1. SUFFICES ASSUME U # {} PROVE FALSE
      OBVIOUS
    <2>2. U \in SUBSET Nat
      BY Digits DEF D
    <2> HIDE DEF U
    <2>3. PICK k \in U : \A j \in U : k <= j
      BY <2>1, <2>2, LeastExists
    <2>4. PICK b \in D : read[b] \notin Reading /\ Len(b) = k
      BY <2>3 DEF U
    <2>5. b \notin Z
      BY <1>3, <1>11, <1>17, <1>21, <2>4
    <2>6. next(b) \in D /\ Len(next(b)) < k
      BY <1>2, <2>4, <2>5
    <2>7. Len(next(b)) \in Nat /\ k \in Nat
      BY <2>2, <2>3, <2>6, Digits DEF D
    <2>8. Len(next(b)) \notin U
      BY <2>3, <2>6, <2>7
    <2>9. read[next(b)] \in Reading
      BY <2>6, <2>8 DEF U
    <2>10. FirstWord(b) \notin {"", "ss"}
      BY <1>11, <2>5
    <2>11. read[b] = put(b, read[next(b)])
      BY <1>15, <1>21, <2>4, <2>9, <2>10
    <2> QED BY <1>4, <2>4, <2>5, <2>9, <2>11
  <1>23. ASSUME NEW b \in D
         PROVE  /\ read[b] \in Reading
                /\ FirstWord(b) \in {"", "ss"} => read[b] = end(b)
                /\ FirstWord(b) \notin {"", "ss"} => read[b] = put(b, read[next(b)])
    <2>1. read[b] \in Reading
      BY <1>22
    <2>2. FirstWord(b) \in {"", "ss"} => read[b] = end(b)
      BY <1>17, <1>21
    <2>3. ASSUME FirstWord(b) \notin {"", "ss"} PROVE read[b] = put(b, read[next(b)])
      <3>1. b \notin Z
        BY <1>11, <2>3
      <3>2. read[next(b)] \in Reading
        BY <1>2, <1>22, <3>1
      <3> QED BY <1>15, <1>21, <2>3, <3>2
    <2> QED BY <2>1, <2>2, <2>3
  <1> QED BY <1>5, <1>23 DEF D, end, put, next

Decoding ==
  {s \in [key : Keys, decoded : [Keys -> Seq(Plain \cup {"gh", "bb", "gl"})]] :
     \A f \in Fields : s.decoded[f] \in Seq(Plain)}

Shown(key, word) == IF key = "site" THEN rsites(word) ELSE <<word>>

LEMMA DecodeWordType ==
  ASSUME NEW s \in Decoding, NEW word \in CodeWords
  PROVE  /\ DecodeWord(s, word) \in Decoding
         /\ word \in Keys => DecodeWord(s, word) = [key |-> word, decoded |-> s.decoded]
         /\ word \notin Keys => DecodeWord(s, word) =
              [key |-> s.key,
               decoded |-> [k \in Keys |-> IF k = s.key
                                           THEN s.decoded[k] \o Shown(s.key, word)
                                           ELSE s.decoded[k]]]
  <1> DEFINE A == Plain \cup {"gh", "bb", "gl"}
             shown == Shown(s.key, word)
  <1>1. /\ s.key \in Keys /\ s.decoded \in [Keys -> Seq(A)]
        /\ s = [key |-> s.key, decoded |-> s.decoded]
        /\ \A k \in Keys : s.decoded[k] \in Seq(A)
        /\ \A f \in Fields : s.decoded[f] \in Seq(Plain)
    BY DEF Decoding
  <1>2. Fields \subseteq Keys /\ "site" \notin Fields
    BY DEF Fields, Keys
  <1>3. CASE word \in Keys
    <2>1. DecodeWord(s, word) = [key |-> word, decoded |-> s.decoded]
      BY <1>1, <1>3 DEF DecodeWord
    <2>2. [key |-> word, decoded |-> s.decoded] \in Decoding
      BY <1>1, <1>3 DEF Decoding
    <2> QED BY <1>3, <2>1, <2>2
  <1>4. CASE word \notin Keys
    <2> DEFINE d(k) == IF k = s.key THEN s.decoded[k] \o shown ELSE s.decoded[k]
               decoded == [k \in Keys |-> d(k)]
               new == [key |-> s.key, decoded |-> decoded]
    <2>1. DecodeWord(s, word) = [s EXCEPT !.decoded[s.key] = @ \o shown]
      BY <1>4 DEF DecodeWord, Shown
    <2>2. shown \in Seq(A) /\ (s.key # "site" => shown \in Seq(Plain))
      <3>1. word \in Plain
        BY <1>4 DEF CodeWords, Plain, Controls
      <3>2. <<word>> \in Seq(Plain) /\ <<word>> \in Seq(A)
        BY <3>1
      <3>3. rsites(word) \in Seq(A)
        <4>1. rsites(word) \in {<<"gh">>, <<"bb">>, <<"gl">>, <<>>}
          BY DEF rsites
        <4>2. <<"gh">> \in Seq(A) /\ <<"bb">> \in Seq(A) /\ <<"gl">> \in Seq(A) /\ <<>> \in Seq(A)
          OBVIOUS
        <4> QED BY <4>1, <4>2
      <3> QED BY <3>2, <3>3 DEF Shown
    <2> HIDE DEF shown, A
    <2>3. \A k \in Keys : d(k) \in Seq(A)
      <3> SUFFICES ASSUME NEW k \in Keys PROVE d(k) \in Seq(A)
        OBVIOUS
      <3>1. s.decoded[k] \in Seq(A) /\ s.decoded[k] \o shown \in Seq(A)
        BY <1>1, <2>2, ConcatProperties
      <3> QED BY <3>1
    <2>4. \A f \in Fields : d(f) \in Seq(Plain)
      <3> SUFFICES ASSUME NEW f \in Fields PROVE d(f) \in Seq(Plain)
        OBVIOUS
      <3>1. CASE f = s.key
        <4>1. shown \in Seq(Plain) /\ s.decoded[f] \in Seq(Plain)
          BY <1>1, <1>2, <2>2, <3>1
        <4>2. s.decoded[f] \o shown \in Seq(Plain)
          BY <4>1, ConcatProperties
        <4> QED BY <3>1, <4>2
      <3>2. CASE f # s.key
        BY <1>1, <3>2
      <3> QED BY <3>1, <3>2
    <2>5. [s EXCEPT !.decoded[s.key] = @ \o shown] = new
      <3>1. \A x : [s EXCEPT !.decoded = x] = [key |-> s.key, decoded |-> x]
        BY <1>1
      <3>2. [s.decoded EXCEPT ![s.key] = @ \o shown] = decoded
        BY <1>1
      <3>3. [s EXCEPT !.decoded[s.key] = @ \o shown]
              = [s EXCEPT !.decoded = [s.decoded EXCEPT ![s.key] = @ \o shown]]
        BY <1>1
      <3> HIDE DEF decoded
      <3> QED BY <3>1, <3>2, <3>3
    <2> HIDE DEF d
    <2>6. decoded \in [Keys -> Seq(A)] /\ \A f \in Fields : decoded[f] \in Seq(Plain)
      BY <1>2, <2>3, <2>4
    <2> HIDE DEF decoded
    <2>7. new \in Decoding
      BY <1>1, <2>6 DEF Decoding, A
    <2> QED BY <1>4, <2>1, <2>5, <2>7 DEF decoded, d, shown
  <1> QED BY <1>3, <1>4

(* Decoding takes the words one after the other.                             *)
Decodes(of, s, words) ==
  /\ of \in [0 .. Len(words) -> Decoding]
  /\ of[0] = s
  /\ \A k \in 1 .. Len(words) : of[k] = DecodeWord(of[k - 1], words[k])

LEMMA DecodeSteps ==
  ASSUME NEW s \in Decoding, NEW words \in Seq(CodeWords)
  PROVE  \E of : Decodes(of, s, words) /\ FoldLeft(DecodeWord, s, words) = of[Len(words)]
  <1> DEFINE n == Len(words)
             D == SUBSET (1 .. n)
             next(g, x) == DecodeWord(g[x \ {Max(x)}], words[Max(x)])
             iter == CHOOSE g : g = [x \in D |-> IF x = {} THEN s ELSE next(g, x)]
             Z == {{}}
             z == [x \in D |-> s]
             q == [x \in D |-> IF x = {} THEN x ELSE x \ {Max(x)}]
             step == [p \in D \X Decoding |->
                        IF p[1] = {} THEN p[2] ELSE DecodeWord(p[2], words[Max(p[1])])]
             mu == [x \in D |-> Cardinality(x)]
  <1>1. n \in Nat /\ DOMAIN words = 1 .. n /\ \A k \in 1 .. n : words[k] \in CodeWords
    BY Digits
  <1>2. FoldLeft(DecodeWord, s, words) = iter[1 .. n]
    BY <1>1, Zenon DEF FoldLeft, MapThenFoldSet
  <1> HIDE DEF n
  <1>3. \A x \in D : x # {} => Max(x) \in x /\ \A y \in x : Max(x) >= y
    BY <1>1, MaxTaken
  <1>4. \A x \in D : IsFiniteSet(x) /\ Cardinality(x) \in Nat
    <2>1. IsFiniteSet(1 .. n)
      BY <1>1, FS_Interval
    <2> QED BY <2>1, FS_Subset, FS_CardinalityType
  <1>5. \A x \in D : x # {} =>
          /\ Max(x) \in 1 .. n /\ x \ {Max(x)} \in D
          /\ Cardinality(x \ {Max(x)}) < Cardinality(x)
    <2> SUFFICES ASSUME NEW x \in D, x # {}
                 PROVE /\ Max(x) \in 1 .. n /\ x \ {Max(x)} \in D
                       /\ Cardinality(x \ {Max(x)}) < Cardinality(x)
      OBVIOUS
    <2>1. Max(x) \in x
      BY <1>3
    <2>2. Cardinality(x \ {Max(x)}) = Cardinality(x) - 1
      BY <1>4, <2>1, FS_RemoveElement
    <2>3. Max(x) \in 1 .. n /\ x \ {Max(x)} \in D
      BY <2>1
    <2>4. \A c \in Nat : c - 1 < c
      OBVIOUS
    <2>5. Cardinality(x) \in Nat
      BY <1>4
    <2> QED BY <2>2, <2>3, <2>4, <2>5
  <1>6. \A x \in D : x # {} => \A d \in Decoding : DecodeWord(d, words[Max(x)]) \in Decoding
    BY <1>1, <1>5, DecodeWordType
  <1>7. z \in [D -> Decoding] /\ q \in [D -> D] /\ mu \in [D -> Nat]
    BY <1>4, <1>5
  <1>8. step \in [D \X Decoding -> Decoding]
    BY <1>6
  <1>9. /\ \A x \in D : x # {} => q[x] = x \ {Max(x)}
        /\ \A x \in D, d \in Decoding : x # {} =>
             step[<<x, d>>] = DecodeWord(d, words[Max(x)])
        /\ \A x \in D : mu[x] = Cardinality(x) /\ z[x] = s
        /\ \A x \in D : x \in Z <=> x = {}
    OBVIOUS
  <1> HIDE DEF z, q, step, mu, Z
  <1>10. \A x \in D : x \notin Z => mu[q[x]] < mu[x]
    BY <1>5, <1>9
  <1>11. PICK f : Obeys(f, D, Decoding, Z, z, q, step)
    BY <1>7, <1>8, <1>10, RecursionExists
  <1>12. /\ f \in [D -> Decoding]
         /\ \A x \in D : f[x] = IF x \in Z THEN z[x] ELSE step[<<x, f[q[x]]>>]
    BY <1>11 DEF Obeys
  <1>13. \A x \in D : f[x] = IF x = {} THEN s ELSE next(f, x)
    <2> SUFFICES ASSUME NEW x \in D PROVE f[x] = IF x = {} THEN s ELSE next(f, x)
      OBVIOUS
    <2>1. CASE x = {}
      BY <1>9, <1>12, <2>1
    <2>2. CASE x # {}
      <3>1. q[x] = x \ {Max(x)} /\ x \ {Max(x)} \in D
        BY <1>5, <1>9, <2>2
      <3>2. f[x \ {Max(x)}] \in Decoding
        BY <1>12, <3>1
      <3>3. f[x] = step[<<x, f[q[x]]>>]
        BY <1>9, <1>12, <2>2
      <3>4. step[<<x, f[x \ {Max(x)}]>>] = next(f, x)
        BY <1>9, <2>2, <3>2
      <3>5. f[x] = next(f, x)
        BY <3>1, <3>3, <3>4
      <3> QED BY <2>2, <3>5
    <2> QED BY <2>1, <2>2
  <1> HIDE DEF next, D
  <1>14. f = [x \in D |-> IF x = {} THEN s ELSE next(f, x)]
    <2>1. f = [x \in D |-> f[x]]
      BY <1>12
    <2> QED BY <1>13, <2>1
  <1>15. iter = [x \in D |-> IF x = {} THEN s ELSE next(iter, x)]
    BY <1>14
  <1> HIDE DEF iter
  <1>16. \A x \in D : iter[x] = IF x = {} THEN s ELSE next(iter, x)
    BY <1>15
  <1>17. \A k \in 1 .. n : /\ 1 .. k \in D /\ 1 .. k # {}
                           /\ Max(1 .. k) = k /\ (1 .. k) \ {k} = 1 .. (k - 1)
    <2> SUFFICES ASSUME NEW k \in 1 .. n
                 PROVE /\ 1 .. k \in D /\ 1 .. k # {}
                       /\ Max(1 .. k) = k /\ (1 .. k) \ {k} = 1 .. (k - 1)
      OBVIOUS
    <2>1. 1 .. k \in D /\ 1 .. k # {} /\ k \in 1 .. k
      BY <1>1 DEF D
    <2>2. Max(1 .. k) \in 1 .. k /\ Max(1 .. k) >= k
      BY <1>3, <2>1 DEF D
    <2>3. (1 .. k) \ {k} = 1 .. (k - 1)
      BY <1>1
    <2> QED BY <2>1, <2>2, <2>3
  <1>18. 1 .. 0 \in D /\ 1 .. 0 = {}
    BY <1>1 DEF D
  <1>19. iter[1 .. 0] = s
    BY <1>16, <1>18
  <1>20. \A k \in 1 .. n : iter[1 .. k] = DecodeWord(iter[1 .. (k - 1)], words[k])
    BY <1>16, <1>17 DEF next
  <1> DEFINE of == [k \in 0 .. n |-> iter[1 .. k]]
             T == {k \in Nat : k <= n => iter[1 .. k] \in Decoding}
  <1>21. 0 \in T
    BY <1>19
  <1>22. ASSUME NEW k \in Nat, k \in T PROVE k + 1 \in T
    <2>1. SUFFICES ASSUME k + 1 <= n PROVE iter[1 .. (k + 1)] \in Decoding
      OBVIOUS
    <2>2. k + 1 \in 1 .. n /\ (k + 1) - 1 = k /\ k <= n
      BY <1>1, <2>1
    <2>3. iter[1 .. k] \in Decoding /\ words[k + 1] \in CodeWords
      BY <1>1, <1>22, <2>2
    <2>4. iter[1 .. (k + 1)] = DecodeWord(iter[1 .. ((k + 1) - 1)], words[k + 1])
      BY <1>20, <2>2
    <2>5. iter[1 .. (k + 1)] = DecodeWord(iter[1 .. k], words[k + 1])
      BY <2>2, <2>4
    <2> QED BY <2>3, <2>5, DecodeWordType
  <1> HIDE DEF T
  <1>23. Nat \subseteq T
    BY <1>21, <1>22, SetInduction
  <1>24. \A k \in 0 .. n : iter[1 .. k] \in Decoding
    <2>1. \A k \in 0 .. n : k \in Nat /\ k <= n
      BY <1>1
    <2> QED BY <1>23, <2>1 DEF T
  <1>25. of \in [0 .. n -> Decoding] /\ of[0] = s /\ of[n] = iter[1 .. n]
    BY <1>1, <1>19, <1>24
  <1>26. \A k \in 1 .. n : of[k] = DecodeWord(of[k - 1], words[k])
    <2>1. \A k \in 1 .. n : k \in 0 .. n /\ k - 1 \in 0 .. n
      BY <1>1
    <2>2. \A k \in 0 .. n : of[k] = iter[1 .. k]
      OBVIOUS
    <2> HIDE DEF of
    <2> QED BY <1>20, <2>1, <2>2
  <1> HIDE DEF of
  <1>27. Decodes(of, s, words)
    BY <1>25, <1>26 DEF Decodes, n
  <1> QED BY <1>2, <1>25, <1>27 DEF n

LEMMA NothingDecodedType ==
  /\ [key |-> "error", decoded |-> NothingDecoded] \in Decoding
  /\ \A f \in Fields : NothingDecoded[f] \in Seq(Plain)
  <1>1. "error" \in Keys /\ Fields \subseteq Keys
    BY DEF Keys, Fields
  <1>2. \A A : <<>> \in Seq(A)
    OBVIOUS
  <1> QED BY <1>1, <1>2 DEF NothingDecoded, Decoding

(* What the metadata says is words.                                          *)
LEMMA MetaDataType ==
  ASSUME NEW bits \in Seq(Bit)
  PROVE  \A f \in Fields : process_meta_data(bits).decoded[f] \in Seq(Plain)
  <1> DEFINE rest == SubSeq(bits, Len(codes.ss) + 1, Len(bits))
             read == ReadWords(rest)
             start == [key |-> "error", decoded |-> NothingDecoded]
             folded == FoldLeft(DecodeWord, start, read.words)
  <1>1. rest \in Seq(Bit)
    <2>1. "ss" \in DOMAIN codes
      BY MarksHaveCodes
    <2>2. rest = After(bits, "ss")
      BY DEF After
    <2> QED BY <2>1, <2>2, WordTaken
  <1> HIDE DEF rest
  <1>2. read \in Reading
    BY <1>1, ReadStep
  <1> HIDE DEF read
  <1>3. read.words \in Seq(CodeWords)
    BY <1>2 DEF Reading
  <1>4. folded \in Decoding
    <2>1. start \in Decoding
      BY NothingDecodedType
    <2> HIDE DEF start
    <2>2. PICK of : Decodes(of, start, read.words) /\ folded = of[Len(read.words)]
      BY <1>3, <2>1, DecodeSteps
    <2>3. Len(read.words) \in 0 .. Len(read.words)
      BY <1>3, Digits
    <2> QED BY <2>2, <2>3 DEF Decodes
  <1>5. process_meta_data(bits).decoded \in {NothingDecoded, folded.decoded}
    <2>1. Decoded(bits, read).decoded = folded.decoded
      BY DEF Decoded
    <2>2. process_meta_data(bits) \in
            {[skip |-> 0, decoded |-> NothingDecoded],
             [skip |-> Len(codes.ss), decoded |-> NothingDecoded],
             Decoded(bits, read)}
      BY DEF process_meta_data, read, rest
    <2> HIDE DEF folded
    <2> QED BY <2>1, <2>2
  <1> HIDE DEF folded
  <1>6. \A f \in Fields : folded.decoded[f] \in Seq(Plain)
    BY <1>4 DEF Decoding
  <1> QED BY <1>5, <1>6, NothingDecodedType

LEMMA ObeyType ==
  ASSUME NEW w \in Window, NEW i \in Int, NEW bits, NEW data,
         \A f \in Fields : data.decoded[f] \in Seq(Plain)
  PROVE  WellTyped(Obey(w, i, bits, data)) /\ Obey(w, i, bits, data).index = i
  <1> DEFINE meta == [f \in Fields |-> data.decoded[f]]
             v == [w EXCEPT !.meta = meta]
             r == [text |-> w.text, index |-> w.index, selected |-> w.selected,
                   meta |-> meta, site |-> w.site]
             site == DecodedSite(data.decoded["site"])
             sited == setSite(v, site)
             selectors == WithoutVersion(SubSeq(bits, data.skip + 1, Len(bits)))
             new == Obey(w, i, bits, data)
  <1>1. meta \in [Fields -> Seq(Characters)]
    <2>1. Plain \subseteq Characters
      BY DEF Plain, Characters
    <2>2. \A f \in Fields : data.decoded[f] \in Seq(Characters)
      BY <2>1, SeqMonotonic
    <2> QED BY <2>2
  <1>2. site \in 1 .. 3
    BY DEF DecodedSite
  <1>3. new = IF i # w.index THEN reloadRepository(i, sited, selectors)
              ELSE applyCodeSelectors(sited, selectors)
    BY DEF Obey
  <1> HIDE DEF meta, site, selectors, new
  <1>4. v = r /\ r \in Window /\ r.index = w.index
    BY <1>1, WindowFields, WindowMade
  <1> HIDE DEF v, r
  <1>5. sited \in Window /\ sited.index = w.index
    BY <1>2, <1>4, SetSiteType
  <1> HIDE DEF sited
  <1>6. WellTyped(new) /\ new.index = i
    <2>1. CASE i # w.index
      BY <1>3, <1>5, <2>1, ReloadType
    <2>2. CASE i = w.index
      BY <1>3, <1>5, <2>2, ApplyType
    <2> QED BY <2>1, <2>2
  <1> QED BY <1>6 DEF new

LEMMA DecodedBits ==
  ASSUME NEW letters \in Seq(0 .. 36)
  PROVE  decode_zcode(letters) \in Seq(Bit)
  <1>1. 0 .. 36 \subseteq Nat /\ 36 \in Nat \ {0} /\ 2 \in Nat \ {0, 1} /\ 2 - 1 = 1
    OBVIOUS
  <1>2. letters \in Seq(Nat)
    BY <1>1, SeqMonotonic
  <1>3. Remainders(letters, 36, 2) \in Seq(0 .. 2 - 1)
    BY ONLY <1>1, <1>2, RemaindersKeepTheNumber
  <1>4. 0 .. 1 = Bit
    BY DEF Bit
  <1>5. Remainders(letters, 36, 2) \in Seq(Bit) /\ <<>> \in Seq(Bit)
    BY <1>1, <1>3, <1>4
  <1> QED BY <1>5 DEF decode_zcode, Radix

LEMMA ObeyTextType ==
  ASSUME NEW w, WellTyped(w), NEW t \in Text
  PROVE  WellTyped(ObeyText(w, t))
  <1> DEFINE v == [w EXCEPT !.text = t]
             r == [text |-> t, index |-> w.index, selected |-> w.selected,
                   meta |-> w.meta, site |-> w.site]
             i == InputIndex(t)
             bits == IF t.form = "number" THEN Reverse(decode_zcode(t.letters)) ELSE <<>>
             data == process_meta_data(bits)
  <1>1. w \in Window /\ w.selected \subseteq 1 .. SizeOf(w.index)
    BY DEF WellTyped
  <1>2. v = r /\ r \in Window
    BY <1>1, WindowFields, WindowMade
  <1>3. r.index = w.index /\ r.selected = w.selected
    OBVIOUS
  <1>4. t.letters \in Seq(0 .. 36) /\ t.index \in Int
    BY DEF Text, Radix
  <1>5. i \in Int
    BY <1>4 DEF InputIndex
  <1>6. bits \in Seq(Bit)
    <2>1. decode_zcode(t.letters) \in Seq(Bit) /\ <<>> \in Seq(Bit)
      BY <1>4, DecodedBits
    <2> QED BY <2>1, ReverseType
  <1>7. ObeyText(w, t) = IF ~ HasCorrectData(t) THEN v ELSE Obey(v, i, bits, data)
    BY DEF ObeyText, ObeyBits
  <1> HIDE DEF v, r, i, bits
  <1>8. WellTyped(v)
    BY <1>1, <1>2, <1>3 DEF WellTyped
  <1>9. v \in Window
    BY <1>8 DEF WellTyped
  <1>10. \A f \in Fields : data.decoded[f] \in Seq(Plain)
    BY <1>6, MetaDataType
  <1> HIDE DEF data
  <1>11. WellTyped(Obey(v, i, bits, data))
    BY <1>5, <1>9, <1>10, ObeyType
  <1> QED BY <1>7, <1>8, <1>11

LEMMA EditingFinishedType ==
  ASSUME NEW w, WellTyped(w)
  PROVE  WellTyped(on_zcode_editingFinished(w))
  <1>1. w \in Window
    BY DEF WellTyped
  <1>2. w.text \in Text /\ w.index \in Int
    BY <1>1, WindowFields
  <1>3. NumberText(w.index, w.text.letters) \in Text
    BY <1>2 DEF NumberText, Text, Forms
  <1>4. InputText(w) \in Text
    BY <1>2, <1>3 DEF InputText
  <1> QED BY <1>4, ObeyTextType DEF on_zcode_editingFinished

LEMMA EnteredType ==
  ASSUME NEW w, WellTyped(w), NEW t \in Text
  PROVE  WellTyped(on_zcode_editingFinished([w EXCEPT !.text = t]))
  <1> DEFINE v == [w EXCEPT !.text = t]
             r == [text |-> t, index |-> w.index, selected |-> w.selected,
                   meta |-> w.meta, site |-> w.site]
  <1>1. w \in Window /\ w.selected \subseteq 1 .. SizeOf(w.index)
    BY DEF WellTyped
  <1>2. v = r /\ r \in Window
    BY <1>1, WindowFields, WindowMade
  <1>3. r.index = w.index /\ r.selected = w.selected
    OBVIOUS
  <1> HIDE DEF v, r
  <1>4. WellTyped(v)
    BY <1>1, <1>2, <1>3 DEF WellTyped
  <1>5. WellTyped(on_zcode_editingFinished(v))
    BY <1>4, EditingFinishedType
  <1> QED BY <1>5 DEF v

-----------------------------------------------------------------------------
(* The specification.                                                        *)

LEMMA InitType == Init => TypeOK
  <1> SUFFICES ASSUME Init PROVE TypeOK
    OBVIOUS
  <1> DEFINE w == [text |-> NumberText(1, <<>>), index |-> 1,
                   selected |-> 1 .. SizeOf(1),
                   meta |-> [f \in Fields |-> <<>>], site |-> 1]
  <1>1. <<>> \in Seq(0 .. 35) /\ 1 \in Int /\ 1 \in 1 .. 3
    OBVIOUS
  <1>2. NumberText(1, <<>>) \in Text
    BY <1>1, NumberTextType
  <1>3. [f \in Fields |-> <<>>] \in [Fields -> Seq(Characters)]
    OBVIOUS
  <1>4. 1 .. SizeOf(1) \in SUBSET Nat
    BY SizesAreNumbers
  <1>5. w \in Window
    BY <1>1, <1>2, <1>3, <1>4, WindowMade
  <1>6. w.index = 1 /\ w.selected = 1 .. SizeOf(1)
    OBVIOUS
  <1>7. win = recomputeZcode(w)
    BY DEF Init
  <1> HIDE DEF w
  <1>8. win \in Window /\ win.index = 1 /\ win.selected = 1 .. SizeOf(1)
    BY <1>5, <1>6, <1>7, RecomputeType
  <1> QED BY <1>8 DEF TypeOK

LEMMA NextType == TypeOK /\ [Next]_vars => TypeOK'
  <1> SUFFICES ASSUME TypeOK, [Next]_vars PROVE TypeOK'
    OBVIOUS
  <1>1. WellTyped(win) /\ win \in Window
    BY DEF TypeOK, WellTyped
  <1>2. SUFFICES WellTyped(win')
    BY DEF TypeOK, WellTyped
  <1>3. ASSUME NEW r \in Boxes, ClickBox(r) PROVE WellTyped(win')
    <2> DEFINE s == IF r \in win.selected THEN win.selected \ {r}
                    ELSE win.selected \cup {r}
               v == [win EXCEPT !.selected = s]
               made == [text |-> win.text, index |-> win.index, selected |-> s,
                        meta |-> win.meta, site |-> win.site]
    <2>1. s \subseteq 1 .. SizeOf(win.index)
      BY <1>3 DEF ClickBox, TypeOK
    <2>2. s \in SUBSET Nat
      BY <2>1, SizesAreNumbers
    <2>3. win' = recomputeZcode(v)
      BY <1>3 DEF ClickBox
    <2> HIDE DEF s
    <2>4. v = made /\ made \in Window
      BY <1>1, <2>2, WindowFields, WindowMade
    <2>5. made.index = win.index /\ made.selected = s
      OBVIOUS
    <2> HIDE DEF v, made
    <2>6. win' \in Window /\ win'.index = win.index /\ win'.selected = s
      BY <2>3, <2>4, <2>5, RecomputeType
    <2> QED BY <2>1, <2>6 DEF WellTyped
  <1>4. ASSUME NEW f \in Fields, NEW v \in Values[f], EditField(f, v)
        PROVE WellTyped(win')
    <2> DEFINE meta == [win.meta EXCEPT ![f] = v]
               made == [text |-> win.text, index |-> win.index,
                        selected |-> win.selected, meta |-> meta, site |-> win.site]
    <2>1. v \in Seq(Characters)
      <3>1. v \in Seq(STRING)
        BY ValuesAssumption
      <3>2. \A k \in DOMAIN v : v[k] \in Characters
        BY DEF Characters, ToSet
      <3>3. Len(v) \in Nat /\ DOMAIN v = 1 .. Len(v) /\ v = [k \in 1 .. Len(v) |-> v[k]]
        BY <3>1, LenProperties
      <3>4. v \in [1 .. Len(v) -> Characters]
        BY <3>2, <3>3
      <3> QED BY <3>3, <3>4
    <2>2. meta \in [Fields -> Seq(Characters)]
      BY <1>1, <2>1, WindowFields
    <2>3. win' = recomputeZcode([win EXCEPT !.meta[f] = v])
      BY <1>4 DEF EditField
    <2>4. [win EXCEPT !.meta[f] = v] = [win EXCEPT !.meta = meta]
      BY <1>1, WindowFields
    <2> HIDE DEF meta
    <2>5. [win EXCEPT !.meta = meta] = made /\ made \in Window
      BY <1>1, <2>2, WindowFields, WindowMade
    <2>6. made.index = win.index /\ made.selected = win.selected
      OBVIOUS
    <2> HIDE DEF made
    <2>7. /\ win' \in Window /\ win'.index = win.index
          /\ win'.selected = win.selected
      BY <2>3, <2>4, <2>5, <2>6, RecomputeType
    <2> QED BY <1>1, <2>7 DEF WellTyped
  <1>5. ASSUME NEW site \in Sites, ChooseSite(site) PROVE WellTyped(win')
    <2>1. win' = setSite(win, site) /\ site \in 1 .. 3
      BY <1>5, SitesAssumption DEF ChooseSite
    <2>2. win' \in Window /\ win'.index = win.index /\ win'.selected = win.selected
      BY <1>1, <2>1, SetSiteType
    <2> QED BY <1>1, <2>2 DEF WellTyped
  <1>6. ASSUME NEW i \in DOMAIN Sizes, GoToIndex(i) PROVE WellTyped(win')
    <2>1. PICK kept : win' = reloadRepository(i, win, kept)
      BY <1>6 DEF GoToIndex
    <2>2. i \in Int
      BY SizesAssumption
    <2> QED BY <1>1, <2>1, <2>2, ReloadType
  <1>7. CASE VisitZcode
    <2>1. win' = on_zcode_editingFinished(recomputeZcode(win))
      BY <1>7 DEF VisitZcode
    <2>2. WellTyped(recomputeZcode(win))
      BY <1>1, RecomputeType DEF WellTyped
    <2> QED BY <2>1, <2>2, EditingFinishedType
  <1>8. ASSUME NEW i \in DOMAIN Sizes, NEW z \in Known, EnterZcode(i, z)
        PROVE WellTyped(win')
    <2> DEFINE bits == Reverse(ZcodeBits(z.selected, z.size, z.meta, z.site))
               letters == encode_zcode_arr01(bits)
               t == NumberText(i, letters)
    <2>1. z.size \in Nat /\ \A f \in Fields : z.meta[f] \in Seq(STRING)
      BY KnownAssumption
    <2>2. ZcodeBits(z.selected, z.size, z.meta, z.site) \in Seq(Bit)
      BY <2>1, ZcodeBitsType
    <2>3. bits \in Seq(Nat)
      <3>1. bits \in Seq(Bit) /\ Bit \subseteq Nat
        BY <2>2, ReverseType DEF Bit
      <3> QED BY <3>1, SeqMonotonic
    <2>4. letters \in Seq(0 .. 35)
      BY <2>3, EncodingKeepsTheNumber
    <2>5. i \in Int
      BY SizesAssumption
    <2>6. win' = on_zcode_editingFinished([win EXCEPT !.text = t])
      BY <1>8 DEF EnterZcode
    <2> HIDE DEF letters
    <2>7. t \in Text
      BY <2>4, <2>5, NumberTextType
    <2> QED BY <1>1, <2>6, <2>7, EnteredType
  <1>9. ASSUME NEW t \in Texts, EnterText(t) PROVE WellTyped(win')
    <2>1. win' = on_zcode_editingFinished([win EXCEPT !.text = t]) /\ t \in Text
      BY <1>9, TextsAssumption DEF EnterText
    <2> QED BY <1>1, <2>1, EnteredType
  <1>10. CASE UNCHANGED vars
    BY <1>1, <1>10 DEF vars
  <1> QED BY <1>3, <1>4, <1>5, <1>6, <1>7, <1>8, <1>9, <1>10 DEF Next

(* What the fields, the boxes and the combo box hold is what the program     *)
(* expects in them, whatever is typed, clicked or entered: only rows of the  *)
(* index are selected, and metadata is typed characters or decoded words     *)
(* (applyCodeSelectors, process_meta_data).                                  *)
THEOREM ZcodeTypeCorrect == Spec => []TypeOK
  <1>1. Init => TypeOK
    BY InitType
  <1>2. TypeOK /\ [Next]_vars => TypeOK'
    BY NextType
  <1> QED BY <1>1, <1>2, PTL DEF Spec

LEMMA TextOfWindow == TypeOK => TextIsTheNumber
  <1> SUFFICES ASSUME TypeOK, NEW prime \in Primes
               PROVE Residue(recomputeZcode(win).text.letters, Radix, prime) =
                       Residue(Reverse(WindowBits(win)), 2, prime)
    BY DEF TextIsTheNumber
  <1> DEFINE bits == Reverse(WindowBits(win))
             letters == encode_zcode_arr01(bits)
  <1>1. win \in Window
    BY DEF TypeOK
  <1>2. \A f \in Fields : win.meta[f] \in Seq(Characters)
    BY <1>1, WindowFields
  <1>3. /\ bits \in Seq(Nat) /\ letters \in Seq(0 .. 35)
        /\ Number(letters, 36) = Number(bits, 2)
    BY <1>2, ComputedText, SizesAreNumbers
  <1>a. recomputeZcode(win).text = NumberText(win.index, letters)
    BY <1>1, RecomputeType
  <1> HIDE DEF bits, letters
  <1>4. recomputeZcode(win).text.letters = letters
    BY <1>a DEF NumberText
  <1>5. letters \in Seq(Nat)
    <2>1. 0 .. 35 \subseteq Nat
      OBVIOUS
    <2> QED BY <1>3, <2>1, SeqMonotonic
  <1>6. Residue(letters, 36, prime) = Number(letters, 36) % prime
    BY <1>5, ResidueOfNumber
  <1>7. Residue(bits, 2, prime) = Number(bits, 2) % prime
    BY <1>3, ResidueOfNumber
  <1> QED BY <1>3, <1>4, <1>6, <1>7 DEF Radix, bits

(* The text of the Zcode is the number of the bits it was computed from, for *)
(* every index, selection and metadata: packing into 24-bit digits, dividing *)
(* them by 36 and dropping leading zeros loses nothing of it                 *)
(* (arr_01_to_24_bit_pack_numbers, div_24_bit_pack_numbers_36).              *)
THEOREM TextKept == Spec => []TextIsTheNumber
  <1>1. TypeOK => TextIsTheNumber
    BY TextOfWindow
  <1> QED BY <1>1, ZcodeTypeCorrect, PTL

-----------------------------------------------------------------------------
(* Digits are determined by their number.                                    *)

NoZeroFirst(s) == s = <<>> \/ s[1] # 0

LEMMA QuotientUnique ==
  ASSUME NEW d \in {2, 36}, NEW a \in Nat, NEW b \in Nat,
         NEW r \in 0 .. d - 1, NEW x \in 0 .. d - 1, d * a + r = d * b + x
  PROVE  a = b /\ r = x
  <1>1. CASE d = 2
    BY <1>1
  <1>2. CASE d = 36
    BY <1>2
  <1> QED BY <1>1, <1>2

LEMMA EmptyIsZero ==
  ASSUME NEW base \in Nat
  PROVE  Number(<<>>, base) = 0
  <1>1. <<>> \in Seq(Nat) /\ Len(<<>>) = 0
    OBVIOUS
  <1>2. NumbersUpTo(<<>>, base)[0] = 0
    BY <1>1, NumberSteps
  <1> QED BY <1>1, <1>2 DEF Number

(* A sequence that is not empty is its beginning and its last element.       *)
LEMMA LastTaken ==
  ASSUME NEW S, NEW t \in Seq(S), t # <<>>
  PROVE  \E u \in Seq(S), x \in S :
           /\ t = Append(u, x)
           /\ x = t[Len(t)] /\ Len(t) = Len(u) + 1
           /\ \A k \in 1 .. Len(u) : u[k] = t[k]
  <1> DEFINE n == Len(t)
             u == [k \in 1 .. n - 1 |-> t[k]]
  <1>1. n \in Nat /\ n # 0 /\ \A k \in 1 .. n : t[k] \in S
    BY Digits, EmptySeq
  <1> HIDE DEF n
  <1>2. n - 1 \in Nat /\ n \in 1 .. n /\ (n - 1) + 1 = n /\ 1 .. n - 1 \subseteq 1 .. n
    BY <1>1
  <1>3. u \in [1 .. n - 1 -> S]
    BY <1>1, <1>2
  <1>5. \A k \in 1 .. n - 1 : u[k] = t[k]
    OBVIOUS
  <1> HIDE DEF u
  <1>4. u \in Seq(S) /\ Len(u) = n - 1
    <2>1. \A m \in Nat : \A v \in [1 .. m -> S] : v \in Seq(S) /\ Len(v) = m
      OBVIOUS
    <2> QED BY ONLY <1>2, <1>3, <2>1
  <1>6. t[n] \in S
    BY <1>1, <1>2
  <1>7. /\ Append(u, t[n]) \in Seq(S) /\ Len(Append(u, t[n])) = n
        /\ \A k \in 1 .. n - 1 : Append(u, t[n])[k] = u[k]
        /\ Append(u, t[n])[n] = t[n]
    BY <1>2, <1>4, <1>6, AppendProperties
  <1>8. \A k \in 1 .. n : Append(u, t[n])[k] = t[k]
    <2>1. \A k \in 1 .. n : k \in 1 .. n - 1 \/ k = n
      BY <1>1
    <2> QED BY <1>5, <1>7, <2>1
  <1>9. Append(u, t[n]) = t
    BY <1>7, <1>8, SeqEqual DEF n
  <1> QED BY <1>2, <1>4, <1>5, <1>6, <1>9 DEF n

(* Dividing gives the digits of the number that do not start with a zero.    *)
LEMMA RemaindersUnique ==
  ASSUME NEW base \in Nat \ {0}, NEW d \in {2, 36}
  PROVE  \A n \in Seq(Nat), t \in Seq(0 .. d - 1) :
           NoZeroFirst(t) /\ Number(t, d) = Number(n, base) => Remainders(n, base, d) = t
  <1> DEFINE D == Seq(Nat)
             S == Seq(0 .. d - 1)
             of(n) == Remainders(n, base, d)
             quotient(n) == LongDivision(n, base, d).result
             left(n) == LongDivision(n, base, d).subtracted
             Wrong(n) == \E t \in S : /\ NoZeroFirst(t)
                                      /\ Number(t, d) = Number(n, base) /\ of(n) # t
             U == {Number(n, base) : n \in {m \in D : Wrong(m)}}
  <1>1. /\ base \in Nat /\ d \in Nat \ {0, 1} /\ d \in Nat \ {0} /\ d \in Nat
        /\ 0 .. d - 1 \subseteq Nat
    OBVIOUS
  <1>2. \A n \in D : /\ AllZero(n) => of(n) = <<>>
                     /\ ~ AllZero(n) => of(n) = Append(of(quotient(n)), left(n))
    BY <1>1, RemaindersStep
  <1>3. \A n \in D :
          /\ quotient(n) \in D /\ left(n) \in 0 .. d - 1
          /\ d * Number(quotient(n), base) + left(n) = Number(n, base)
    BY <1>1, LongDivisionExact
  <1>4. \A n \in D : ~ AllZero(n) => Number(quotient(n), base) < Number(n, base)
    BY <1>1, DivisionShrinks
  <1>5. \A n \in D : Number(n, base) \in Nat /\ (AllZero(n) <=> Number(n, base) = 0)
    BY <1>1, NumberSteps, NumberOfZeros
  <1>6. \A t \in S : t \in Seq(Nat)
    BY <1>1, SeqMonotonic
  <1>7. \A t \in S : Number(t, d) \in Nat /\ (AllZero(t) <=> Number(t, d) = 0)
    BY <1>1, <1>6, NumberSteps, NumberOfZeros
  <1>8. \A t \in S : NoZeroFirst(t) /\ AllZero(t) => t = <<>>
    <2> SUFFICES ASSUME NEW t \in S, t[1] # 0, AllZero(t), t # <<>> PROVE FALSE
      BY DEF NoZeroFirst
    <2>1. 1 \in DOMAIN t
      BY EmptySeq, Digits
    <2> QED BY <2>1 DEF AllZero
  <1> HIDE DEF of, quotient, left
  <1>9. U = {}
    <2>1. SUFFICES ASSUME U # {} PROVE FALSE
      OBVIOUS
    <2>2. U \in SUBSET Nat
      BY <1>5
    <2> HIDE DEF U
    <2>3. PICK k \in U : \A j \in U : k <= j
      BY <2>1, <2>2, LeastExists
    <2>4. PICK n \in D : Wrong(n) /\ Number(n, base) = k
      BY <2>3 DEF U
    <2>5. PICK t \in S : NoZeroFirst(t) /\ Number(t, d) = Number(n, base) /\ of(n) # t
      BY <2>4
    <2>6. ~ AllZero(n)
      <3>1. SUFFICES ASSUME AllZero(n) PROVE FALSE
        OBVIOUS
      <3>2. t = <<>>
        BY <1>5, <1>7, <1>8, <2>5, <3>1
      <3> QED BY <1>2, <2>5, <3>1, <3>2
    <2>7. t # <<>>
      <3>1. Number(<<>>, d) = 0
        BY <1>1, EmptyIsZero
      <3> QED BY <1>5, <2>5, <2>6, <3>1
    <2>8. PICK u \in S, x \in 0 .. d - 1 :
            /\ t = Append(u, x) /\ Len(t) = Len(u) + 1
            /\ \A j \in 1 .. Len(u) : u[j] = t[j]
      BY <2>7, LastTaken
    <2>9. NoZeroFirst(u)
      <3>1. u = <<>> \/ 1 \in 1 .. Len(u)
        BY EmptySeq, Digits
      <3> QED BY <2>5, <2>7, <2>8, <3>1 DEF NoZeroFirst
    <2>10. Number(t, d) = d * Number(u, d) + x
      <3>1. u \in Seq(Nat) /\ x \in Nat
        BY <1>1, <1>6
      <3> QED BY <1>1, <2>8, <3>1, NumberAppend
    <2>11. Number(quotient(n), base) = Number(u, d) /\ left(n) = x
      <3>1. d * Number(quotient(n), base) + left(n) = d * Number(u, d) + x
        BY <1>3, <2>5, <2>10
      <3>2. Number(quotient(n), base) \in Nat /\ Number(u, d) \in Nat
            /\ left(n) \in 0 .. d - 1
        BY <1>3, <1>5, <1>7
      <3> QED BY <3>1, <3>2, QuotientUnique
    <2>12. quotient(n) \in D /\ Number(quotient(n), base) < k
      BY <1>3, <1>4, <2>4, <2>6
    <2>13. Number(quotient(n), base) \in Nat /\ k \in Nat
      BY <1>5, <2>2, <2>3, <2>12
    <2>14. Number(quotient(n), base) \notin U
      BY <2>3, <2>12, <2>13
    <2>15. ~ Wrong(quotient(n))
      BY <2>12, <2>14 DEF U
    <2>16. of(quotient(n)) = u
      BY <2>9, <2>11, <2>15
    <2>17. of(n) = Append(u, x)
      BY <1>2, <2>6, <2>11, <2>16
    <2> QED BY <2>5, <2>8, <2>17
  <1>10. \A n \in D : ~ Wrong(n)
    BY <1>9
  <1> QED BY <1>10 DEF of

(* What dividing gives does not start with a zero.                           *)
LEMMA RemaindersLead ==
  ASSUME NEW base \in Nat \ {0}, NEW d \in Nat \ {0, 1}
  PROVE  \A n \in Seq(Nat) : NoZeroFirst(Remainders(n, base, d))
  <1> DEFINE D == Seq(Nat)
             of(n) == Remainders(n, base, d)
             quotient(n) == LongDivision(n, base, d).result
             left(n) == LongDivision(n, base, d).subtracted
             U == {Number(n, base) : n \in {m \in D : ~ NoZeroFirst(of(m))}}
  <1>1. base \in Nat /\ d \in Nat \ {0} /\ d \in Nat
    OBVIOUS
  <1>2. \A n \in D : /\ of(n) \in Seq(0 .. d - 1)
                     /\ AllZero(n) => of(n) = <<>>
                     /\ ~ AllZero(n) => of(n) = Append(of(quotient(n)), left(n))
    BY RemaindersStep
  <1>3. \A n \in D :
          /\ quotient(n) \in D /\ left(n) \in 0 .. d - 1
          /\ d * Number(quotient(n), base) + left(n) = Number(n, base)
    BY <1>1, LongDivisionExact
  <1>4. \A n \in D : ~ AllZero(n) => Number(quotient(n), base) < Number(n, base)
    BY DivisionShrinks
  <1>5. \A n \in D : Number(n, base) \in Nat /\ (AllZero(n) <=> Number(n, base) = 0)
    BY <1>1, NumberSteps, NumberOfZeros
  <1> HIDE DEF of, quotient, left
  <1>6. U = {}
    <2>1. SUFFICES ASSUME U # {} PROVE FALSE
      OBVIOUS
    <2>2. U \in SUBSET Nat
      BY <1>5
    <2> HIDE DEF U
    <2>3. PICK k \in U : \A j \in U : k <= j
      BY <2>1, <2>2, LeastExists
    <2>4. PICK n \in D : ~ NoZeroFirst(of(n)) /\ Number(n, base) = k
      BY <2>3 DEF U
    <2>5. ~ AllZero(n)
      BY <1>2, <2>4 DEF NoZeroFirst
    <2>6. quotient(n) \in D /\ Number(quotient(n), base) < k
      BY <1>3, <1>4, <2>4, <2>5
    <2>7. Number(quotient(n), base) \in Nat /\ k \in Nat
      BY <1>5, <2>2, <2>3, <2>6
    <2>8. Number(quotient(n), base) \notin U
      BY <2>3, <2>6, <2>7
    <2>9. NoZeroFirst(of(quotient(n)))
      BY <2>6, <2>8 DEF U
    <2> DEFINE s == of(quotient(n))
               x == left(n)
    <2>10. s \in Seq(0 .. d - 1) /\ x \in 0 .. d - 1
      BY <1>2, <1>3, <2>6
    <2>11. of(n) = Append(s, x)
      BY <1>2, <2>5
    <2>12. CASE s = <<>>
      <3>1. AllZero(quotient(n))
        BY <1>2, <2>6, <2>12, AppendProperties, EmptySeq
      <3>2. Number(n, base) = d * 0 + x
        BY <1>3, <1>5, <2>6, <3>1
      <3>3. x # 0
        BY <1>1, <1>5, <2>5, <3>2
      <3>4. Append(s, x)[1] = x
        BY <2>12
      <3> QED BY <2>4, <2>11, <3>3, <3>4 DEF NoZeroFirst
    <2>13. CASE s # <<>>
      <3>1. 1 \in 1 .. Len(s)
        BY <2>10, <2>13, EmptySeq, Digits
      <3>2. Append(s, x)[1] = s[1]
        BY <2>10, <3>1, AppendProperties
      <3> QED BY <2>4, <2>9, <2>11, <2>13, <3>2 DEF NoZeroFirst
    <2> QED BY <2>12, <2>13
  <1>7. \A n \in D : NoZeroFirst(of(n))
    BY <1>6
  <1> QED BY <1>7 DEF of

(* Zeros in front do not count.                                              *)
LEMMA ZerosInFront ==
  ASSUME NEW s \in Seq(Nat), NEW t \in Seq(Nat), NEW base \in Nat, NEW z \in Nat,
         Len(s) = Len(t) + z,
         \A k \in 1 .. z : s[k] = 0,
         \A k \in 1 .. Len(t) : s[z + k] = t[k]
  PROVE  Number(s, base) = Number(t, base)
  <1> DEFINE n == Len(t)
             f == NumbersUpTo(s, base)
             g == NumbersUpTo(t, base)
  <1>1. n \in Nat /\ Len(s) = n + z
    BY Digits
  <1>2. /\ f[0] = 0 /\ \A k \in 1 .. Len(s) : f[k] = base * f[k - 1] + s[k]
        /\ g[0] = 0 /\ \A k \in 1 .. n : g[k] = base * g[k - 1] + t[k]
    BY NumberSteps
  <1>3. Number(s, base) = f[z + n] /\ Number(t, base) = g[n]
    <2>1. n + z = z + n
      BY <1>1
    <2> QED BY <1>1, <2>1 DEF Number
  <1>4. \A k \in 1 .. n : s[z + k] = t[k]
    OBVIOUS
  <1> HIDE DEF f, g, n
  <1>5. f[z] = 0
    <2> DEFINE T == {k \in Nat : k <= z => f[k] = 0}
    <2>1. 0 \in T
      BY <1>2
    <2>2. ASSUME NEW k \in Nat, k \in T PROVE k + 1 \in T
      <3>1. SUFFICES ASSUME k + 1 <= z PROVE f[k + 1] = 0
        OBVIOUS
      <3>2. k + 1 \in 1 .. Len(s) /\ (k + 1) - 1 = k /\ k <= z /\ k + 1 \in 1 .. z
        BY <1>1, <3>1
      <3>3. f[k] = 0 /\ s[k + 1] = 0
        BY <2>2, <3>2
      <3>4. f[k + 1] = base * 0 + 0
        BY <1>2, <3>2, <3>3
      <3> QED BY <3>4
    <2> HIDE DEF T
    <2>3. Nat \subseteq T
      BY <2>1, <2>2, SetInduction
    <2> QED BY <2>3 DEF T
  <1> DEFINE T == {k \in Nat : k <= n => f[z + k] = g[k]}
  <1>6. 0 \in T
    <2>1. z + 0 = z
      OBVIOUS
    <2> QED BY <1>2, <1>5, <2>1
  <1>7. ASSUME NEW k \in Nat, k \in T PROVE k + 1 \in T
    <2>1. SUFFICES ASSUME k + 1 <= n PROVE f[z + (k + 1)] = g[k + 1]
      OBVIOUS
    <2>2. /\ k + 1 \in 1 .. n /\ (k + 1) - 1 = k /\ k <= n
          /\ z + (k + 1) \in 1 .. Len(s) /\ (z + (k + 1)) - 1 = z + k
      BY <1>1, <2>1
    <2>3. f[z + k] = g[k] /\ s[z + (k + 1)] = t[k + 1]
      BY <1>4, <1>7, <2>2
    <2>4. f[z + (k + 1)] = base * f[z + k] + s[z + (k + 1)]
      BY <1>2, <2>2
    <2>5. g[k + 1] = base * g[k] + t[k + 1]
      BY <1>2, <2>2
    <2> QED BY <2>3, <2>4, <2>5
  <1> HIDE DEF T
  <1>8. Nat \subseteq T
    BY <1>6, <1>7, SetInduction
  <1>9. f[z + n] = g[n]
    <2>1. n \in T /\ n <= n
      BY <1>1, <1>8
    <2> QED BY <2>1 DEF T
  <1> QED BY <1>3, <1>9

(* The bits up to the last 1 are the number: the others are zeros in front.  *)
LastBit(bits, m) ==
  /\ m \in 0 .. Len(bits)
  /\ \A k \in m + 1 .. Len(bits) : bits[k] = 0

LEMMA NumberUpToLastBit ==
  ASSUME NEW bits \in Seq(Bit), NEW m \in Nat, LastBit(bits, m)
  PROVE  /\ SubSeq(bits, 1, m) \in Seq(Bit) /\ Len(SubSeq(bits, 1, m)) = m
         /\ \A k \in 1 .. m : SubSeq(bits, 1, m)[k] = bits[k]
         /\ Number(Reverse(bits), 2) = Number(Reverse(SubSeq(bits, 1, m)), 2)
  <1> DEFINE n == Len(bits)
             c == SubSeq(bits, 1, m)
             s == Reverse(bits)
             t == Reverse(c)
  <1>1. n \in Nat /\ m <= n /\ \A k \in m + 1 .. n : bits[k] = 0
    BY Digits DEF LastBit
  <1>2. c \in Seq(Bit) /\ Len(c) = m /\ \A k \in 1 .. m : c[k] = bits[k]
    <2>1. \A i \in 1 .. m : i \in 1 .. n
      BY <1>1
    <2>2. \A i \in 1 .. m : bits[i] \in Bit
      BY <2>1, Digits
    <2>3. 1 \in Int /\ m \in Int /\ (1 <= m \/ m = 0)
      OBVIOUS
    <2>4. m - 1 + 1 = m /\ \A j \in 1 .. m : 1 + j - 1 = j
      OBVIOUS
    <2>5. /\ c \in Seq(Bit)
          /\ Len(c) = IF 1 <= m THEN m - 1 + 1 ELSE 0
          /\ \A j \in 1 .. m - 1 + 1 : c[j] = bits[1 + j - 1]
      BY ONLY <2>2, <2>3, SubSeqProperties
    <2> HIDE DEF c
    <2> QED BY <2>3, <2>4, <2>5
  <1>3. s = [i \in 1 .. n |-> bits[(n - i) + 1]]
    BY DEF Reverse
  <1> HIDE DEF c
  <1>4. t = [i \in 1 .. m |-> c[(m - i) + 1]]
    BY <1>2 DEF Reverse
  <1>5. s \in Seq(Nat) /\ t \in Seq(Nat) /\ Len(s) = n /\ Len(t) = m
    <2>1. s \in Seq(Bit) /\ t \in Seq(Bit) /\ Len(s) = n /\ Len(t) = m
      BY <1>2, ReverseType
    <2>2. Bit \subseteq Nat
      BY DEF Bit
    <2> QED BY <2>1, <2>2, SeqMonotonic
  <1> HIDE DEF n, s, t
  <1>6. n - m \in Nat /\ Len(s) = Len(t) + (n - m)
    BY <1>1, <1>5
  <1>7. \A k \in 1 .. n - m : s[k] = 0
    <2> SUFFICES ASSUME NEW k \in 1 .. n - m PROVE s[k] = 0
      OBVIOUS
    <2>1. k \in 1 .. n /\ (n - k) + 1 \in m + 1 .. n
      BY <1>1
    <2> QED BY <1>1, <1>3, <2>1
  <1>8. \A k \in 1 .. Len(t) : s[(n - m) + k] = t[k]
    <2> SUFFICES ASSUME NEW k \in 1 .. m PROVE s[(n - m) + k] = t[k]
      BY <1>5
    <2>1. (n - m) + k \in 1 .. n /\ (n - ((n - m) + k)) + 1 = (m - k) + 1
          /\ (m - k) + 1 \in 1 .. m
      BY <1>1
    <2>2. s[(n - m) + k] = bits[(m - k) + 1]
      BY <1>3, <2>1
    <2> QED BY <1>2, <1>4, <2>1, <2>2
  <1>9. 2 \in Nat
    OBVIOUS
  <1>10. Number(s, 2) = Number(t, 2)
    BY ONLY <1>5, <1>6, <1>7, <1>8, <1>9, ZerosInFront
  <1> QED BY <1>2, <1>10 DEF c, s, t

(* The same number has the same text.                                        *)
LEMMA TextDetermined ==
  ASSUME NEW a \in Seq(Nat), NEW b \in Seq(Nat), Number(a, 2) = Number(b, 2)
  PROVE  encode_zcode_arr01(a) = encode_zcode_arr01(b)
  <1> DEFINE p == arr_01_to_24_bit_pack_numbers(a)
             q == arr_01_to_24_bit_pack_numbers(b)
             t == Remainders(p, 2 ^ 24, 36)
  <1>1. /\ p \in Seq(Nat) /\ Number(p, 2 ^ 24) = Number(a, 2)
        /\ q \in Seq(Nat) /\ Number(q, 2 ^ 24) = Number(b, 2)
    BY PacksKeepTheNumber
  <1>2. 2 ^ 24 \in Nat \ {0} /\ 36 \in Nat \ {0, 1} /\ 36 \in {2, 36}
    OBVIOUS
  <1>3. encode_zcode_arr01(a) = t /\ encode_zcode_arr01(b) = Remainders(q, 2 ^ 24, 36)
    BY DEF encode_zcode_arr01, PackBits, Radix
  <1> HIDE DEF p, q, t
  <1>4. t \in Seq(0 .. 36 - 1) /\ Number(t, 36) = Number(p, 2 ^ 24)
    BY ONLY <1>1, <1>2, RemaindersKeepTheNumber DEF t
  <1>5. NoZeroFirst(t)
    BY ONLY <1>1, <1>2, RemaindersLead DEF t
  <1>6. Number(t, 36) = Number(q, 2 ^ 24)
    BY <1>1, <1>4
  <1>7. Remainders(q, 2 ^ 24, 36) = t
    BY ONLY <1>1, <1>2, <1>4, <1>5, <1>6, RemaindersUnique
  <1> QED BY <1>3, <1>7

LEMMA SameText ==
  ASSUME NEW a \in Seq(Bit), NEW b \in Seq(Bit), NEW m \in Nat,
         LastBit(a, m), LastBit(b, m), \A k \in 1 .. m : a[k] = b[k]
  PROVE  encode_zcode_arr01(Reverse(a)) = encode_zcode_arr01(Reverse(b))
  <1> DEFINE c == SubSeq(a, 1, m)
             d == SubSeq(b, 1, m)
  <1>1. /\ c \in Seq(Bit) /\ Len(c) = m /\ \A k \in 1 .. m : c[k] = a[k]
        /\ Number(Reverse(a), 2) = Number(Reverse(c), 2)
    BY NumberUpToLastBit
  <1>2. /\ d \in Seq(Bit) /\ Len(d) = m /\ \A k \in 1 .. m : d[k] = b[k]
        /\ Number(Reverse(b), 2) = Number(Reverse(d), 2)
    BY NumberUpToLastBit
  <1> HIDE DEF c, d
  <1>3. c = d
    BY <1>1, <1>2, SeqEqual
  <1>4. Reverse(a) \in Seq(Nat) /\ Reverse(b) \in Seq(Nat)
    <2>1. Bit \subseteq Nat
      BY DEF Bit
    <2> QED BY <2>1, ReverseType, SeqMonotonic
  <1> QED BY <1>1, <1>2, <1>3, <1>4, TextDetermined

(* What is decoded from the text of some bits is these bits up to the last 1.*)
THEOREM DecodingInvertsEncoding ==
  ASSUME NEW bits \in Seq(Bit), NEW m \in Nat, LastBit(bits, m), m # 0 => bits[m] = 1
  PROVE  /\ Reverse(decode_zcode(encode_zcode_arr01(Reverse(bits)))) = SubSeq(bits, 1, m)
         /\ m # 0 => encode_zcode_arr01(Reverse(bits)) # <<>>
  <1> DEFINE c == SubSeq(bits, 1, m)
             s == Reverse(bits)
             t == Reverse(c)
             letters == encode_zcode_arr01(s)
  <1>1. /\ c \in Seq(Bit) /\ Len(c) = m /\ \A k \in 1 .. m : c[k] = bits[k]
        /\ Number(s, 2) = Number(t, 2)
    BY NumberUpToLastBit
  <1> HIDE DEF c
  <1>2. s \in Seq(Nat)
    <2>1. Bit \subseteq Nat
      BY DEF Bit
    <2> QED BY <2>1, ReverseType, SeqMonotonic
  <1>3. t \in Seq(Bit) /\ Len(t) = m /\ t = [i \in 1 .. m |-> c[(m - i) + 1]]
    BY <1>1, ReverseType DEF Reverse
  <1> HIDE DEF s, t
  <1>4. letters \in Seq(0 .. 35) /\ Number(letters, 36) = Number(s, 2)
    BY <1>2, EncodingKeepsTheNumber
  <1> HIDE DEF letters
  <1>5. NoZeroFirst(t)
    <2>1. CASE m = 0
      BY <1>3, <2>1, EmptySeq DEF NoZeroFirst
    <2>2. CASE m # 0
      <3>1. 1 \in 1 .. m /\ (m - 1) + 1 = m /\ m \in 1 .. m
        BY <2>2
      <3>2. t[1] = 1
        BY <1>1, <1>3, <2>2, <3>1
      <3> QED BY <3>2 DEF NoZeroFirst
    <2> QED BY <2>1, <2>2
  <1>6. letters \in Seq(Nat) /\ t \in Seq(0 .. 2 - 1)
    <2>1. 0 .. 35 \subseteq Nat /\ 0 .. 2 - 1 = Bit
      BY DEF Bit
    <2> QED BY <1>3, <1>4, <2>1, SeqMonotonic
  <1>7. Remainders(letters, 36, 2) = t
    <2>1. 36 \in Nat \ {0} /\ 2 \in {2, 36}
      OBVIOUS
    <2>2. Number(t, 2) = Number(letters, 36)
      BY <1>1, <1>4
    <2> QED BY ONLY <1>5, <1>6, <2>1, <2>2, RemaindersUnique
  <1>8. decode_zcode(letters) = t
    <2>1. \A k \in DOMAIN letters : letters[k] \in 0 .. 35
      BY <1>4, Digits
    <2>2. \A v \in 0 .. 35 : ~ (v >= 36)
      OBVIOUS
    <2>3. \A k \in DOMAIN letters : ~ (letters[k] >= 36)
      BY ONLY <2>1, <2>2
    <2> QED BY <1>7, <2>3 DEF decode_zcode, Radix
  <1>9. Reverse(t) = c
    <2>1. Reverse(t) = [i \in 1 .. m |-> t[(m - i) + 1]]
      BY <1>3 DEF Reverse
    <2>2. \A i \in 1 .. m : (m - i) + 1 \in 1 .. m /\ (m - ((m - i) + 1)) + 1 = i
      OBVIOUS
    <2>3. \A i \in 1 .. m : Reverse(t)[i] = c[i]
      BY <1>3, <2>1, <2>2
    <2>4. Reverse(t) \in Seq(Bit) /\ Len(Reverse(t)) = m
      BY <1>3, ReverseType
    <2> QED BY <1>1, <2>3, <2>4, SeqEqual
  <1>10. m # 0 => letters # <<>>
    <2>1. SUFFICES ASSUME m # 0, letters = <<>> PROVE FALSE
      OBVIOUS
    <2>2. Number(letters, 36) = 0
      BY <2>1, EmptyIsZero
    <2>3. Number(t, 2) = 0 /\ t \in Seq(Nat)
      <3>1. Bit \subseteq Nat
        BY DEF Bit
      <3> QED BY <1>1, <1>3, <1>4, <2>2, <3>1, SeqMonotonic
    <2>4. AllZero(t)
      <3>1. 2 \in Nat \ {0}
        OBVIOUS
      <3> QED BY ONLY <2>3, <3>1, NumberOfZeros
    <2>5. 1 \in 1 .. m /\ DOMAIN t = 1 .. m
      BY <1>3, <2>1
    <2>6. t[1] = 0
      BY <2>4, <2>5 DEF AllZero
    <2>7. t # <<>>
      BY <1>3, <2>1, EmptySeq
    <2> QED BY <1>5, <2>6, <2>7 DEF NoZeroFirst
  <1> QED BY <1>8, <1>9, <1>10 DEF letters, s, c

=============================================================================
