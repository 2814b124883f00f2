---------------------------- MODULE ChallengeProofs ----------------------------
(***************************************************************************)
(* The arithmetic of ModArith computes what it stands for, and so the      *)
(* challenge returns to the bank that has the key.                         *)
(*                                                                         *)
(* Powers.  Holds(a, x, rep): a is x * Radix modulo m.  RadixInverse gives *)
(* the representation, ReduceIs its reduction.  Before position i of an    *)
(* exponent the buckets, each counted for its window, add up to what the   *)
(* slider has passed (Filled), and emptying them multiplies them together  *)
(* (CountedResult).  So Exponentiate is Power (ExponentiateIsPower).       *)
(*                                                                         *)
(* Inverses.  Almost is what AlmostInverse's numbers keep at each turn;    *)
(* its sum f + g decreases.  It ends with an inverse or with a common      *)
(* divisor (InverseModIs).                                                 *)
(*                                                                         *)
(* Roots.  The multiples of z modulo a prime are the numbers below it in   *)
(* another order, so z^(p-1) is 1 (FermatUnit).  With e * d = 1 modulo     *)
(* p - 1 the power d undoes the power e, modulo p, modulo q, and by the    *)
(* Chinese remainder theorem modulo their product (RootIs); the blinding   *)
(* factor and its inverse cancel (CalculateInverseIs).  What this asks of  *)
(* a key is so of those that are generated (GeneratedKeyIsValid).          *)
(*                                                                         *)
(* ReturnsInv then follows the challenge over the wire and back.           *)
(***************************************************************************)
EXTENDS Challenge, MathFacts

-----------------------------------------------------------------------------
(* Powers *)

\* The recursion of Raised, as two equations.
LEMMA RaisedList ==
    ASSUME NEW b \in Int, NEW k \in Nat
    PROVE  \E r \in [0..k -> Int] : /\ r[0] = 1 /\ \A i \in 1..k : r[i] = b * r[i - 1]
                                    /\ r[k] = Raised(b, k)
  <1> DEFINE one == 1
             X == Int
             g == [y \in X \X (1..k) |-> b * y[1]]
             Body(f) == [i \in 0..k |-> IF i = 0 THEN 1 ELSE b * f[i - 1]]
             F == CHOOSE f : f = Body(f)
  <1>1. Closed(g, X, k) /\ one \in X
    BY DEF Closed
  <1>2. PICK f \in [0..k -> Int] : f[0] = 1 /\ \A i \in 1..k : f[i] = g[<<f[i - 1], i>>]
    <2>1. HasTurns(g, X, one, k)
      <3> HIDE DEF g, X, one
      <3> QED
        BY <1>1, RecursionUp
    <2> HIDE DEF g
    <2> QED
      BY <2>1 DEF HasTurns
  <1>3. \A i \in 1..k : f[i] = b * f[i - 1]
    <2> SUFFICES ASSUME NEW i \in 1..k PROVE f[i] = b * f[i - 1]
      OBVIOUS
    <2>1. f[i - 1] \in Int
      BY <1>2
    <2> QED
      BY <1>2, <2>1
  <1>4. f = Body(f)
    BY <1>2, <1>3
  <1>5. F = Body(F)
    <2> HIDE DEF Body
    <2> QED
      BY <1>4
  <1>6. Raised(b, k) = F[k]
    BY DEF Raised
  <1> HIDE DEF F
  <1>7. DOMAIN F = 0..k /\ F[0] = 1 /\ \A i \in 1..k : F[i] = b * F[i - 1]
    BY <1>5
  <1> DEFINE S == {i \in 0..k : F[i] \in Int}
  <1>8. 0 \in S
    BY <1>7
  <1>9. ASSUME NEW i \in 0 .. k - 1, i \in S
        PROVE  i + 1 \in S
    <2>1. i + 1 \in 1..k /\ (i + 1) - 1 = i /\ i + 1 \in 0..k
      OBVIOUS
    <2>2. F[i + 1] = b * F[i]
      BY <1>7, <2>1
    <2> QED
      BY <1>9, <2>1, <2>2
  <1>10. 0..k \subseteq S
    <2> HIDE DEF S
    <2> QED
      BY <1>8, <1>9, Upwards
  <1>11. F \in [0..k -> Int]
    BY <1>5, <1>10
  <1> QED
    BY <1>6, <1>7, <1>11

\* The power 0.
LEMMA RaisedZero ==
    ASSUME NEW b \in Int
    PROVE  Raised(b, 0) = 1
  <1>1. 0 \in Nat
    OBVIOUS
  <1> QED
    BY <1>1, RaisedList

\* The next power; all powers are integers.
LEMMA RaisedNext ==
    ASSUME NEW b \in Int, NEW k \in Nat
    PROVE  Raised(b, k) \in Int /\ Raised(b, k + 1) = b * Raised(b, k)
  <1>1. PICK r \in [0..k -> Int] : /\ r[0] = 1 /\ \A i \in 1..k : r[i] = b * r[i - 1]
                                   /\ r[k] = Raised(b, k)
    BY RaisedList
  <1> DEFINE n == k + 1
  <1>2. n \in Nat
    OBVIOUS
  <1>3. PICK t \in [0..n -> Int] : /\ t[0] = 1 /\ \A i \in 1..n : t[i] = b * t[i - 1]
                                   /\ t[n] = Raised(b, n)
    <2> HIDE DEF n
    <2> QED
      BY <1>2, RaisedList
  <1> DEFINE S == {i \in 0..k : r[i] = t[i]}
  <1>4. 0 \in S
    BY <1>1, <1>3
  <1>5. ASSUME NEW i \in 0 .. k - 1, i \in S
        PROVE  i + 1 \in S
    <2>1. i + 1 \in 1..k /\ i + 1 \in 1..n /\ (i + 1) - 1 = i /\ i + 1 \in 0..k
      OBVIOUS
    <2>2. r[i + 1] = b * r[i] /\ t[i + 1] = b * t[i]
      BY <1>1, <1>3, <2>1
    <2> QED
      BY <1>5, <2>1, <2>2
  <1>6. 0..k \subseteq S
    <2> HIDE DEF S
    <2> QED
      BY <1>4, <1>5, Upwards
  <1>7. r[k] = t[k] /\ n \in 1..n /\ n - 1 = k /\ k \in 0..k
    BY <1>6
  <1>8. t[n] = b * t[k]
    BY <1>3, <1>7
  <1> QED
    BY <1>1, <1>3, <1>7, <1>8

\* A product of powers adds their exponents.
LEMMA RaisedPlus ==
    ASSUME NEW b \in Int, NEW i \in Nat, NEW j \in Nat
    PROVE  Raised(b, i + j) = Raised(b, i) * Raised(b, j)
  <1> DEFINE S == {k \in Nat : Raised(b, i + k) = Raised(b, i) * Raised(b, k)}
  <1>0. Raised(b, i) \in Int /\ \A k \in Nat : Raised(b, k) \in Int
    BY RaisedNext
  <1>1. 0 \in S
    <2>1. i + 0 = i /\ Raised(b, 0) = 1
      BY RaisedZero
    <2> QED
      BY <1>0, <2>1
  <1>2. ASSUME NEW k \in Nat, k \in S
        PROVE  k + 1 \in S
    <2> DEFINE s == i + k
               x == Raised(b, i)
               y == Raised(b, k)
    <2>1. s \in Nat /\ i + (k + 1) = s + 1
      OBVIOUS
    <2>2. x \in Int /\ y \in Int /\ Raised(b, s) = x * y
      BY <1>0, <1>2
    <2>3. Raised(b, s + 1) = b * Raised(b, s)
      <3> HIDE DEF s
      <3> QED
        BY <2>1, RaisedNext
    <2>4. Raised(b, k + 1) = b * y
      BY RaisedNext
    <2>5. b * (x * y) = x * (b * y)
      <3> HIDE DEF x, y
      <3> QED
        BY <2>2
    <2>6. Raised(b, i + (k + 1)) = x * Raised(b, k + 1)
      BY <2>1, <2>2, <2>3, <2>4, <2>5
    <2> QED
      BY <2>6
  <1>3. Nat \subseteq S
    <2> HIDE DEF S
    <2> QED
      BY <1>1, <1>2, SetInduction
  <1> QED
    BY <1>3

\* The power 1.
LEMMA RaisedOne ==
    ASSUME NEW b \in Int
    PROVE  Raised(b, 1) = b
  <1>1. 0 \in Nat /\ 0 + 1 = 1
    OBVIOUS
  <1>2. Raised(b, 0 + 1) = b * Raised(b, 0) /\ Raised(b, 0) = 1
    BY <1>1, RaisedNext, RaisedZero
  <1> QED
    BY <1>1, <1>2

\* The power of a positive number is positive, and of more than one more than its exponent.
LEMMA RaisedNat ==
    ASSUME NEW b \in Nat \ {0}, NEW k \in Nat
    PROVE  Raised(b, k) \in Nat \ {0} /\ (b > 1 => k < Raised(b, k))
  <1> DEFINE S == {i \in Nat : Raised(b, i) \in Nat \ {0} /\ (b > 1 => i < Raised(b, i))}
  <1>1. 0 \in S
    BY RaisedZero
  <1>2. ASSUME NEW i \in Nat, i \in S
        PROVE  i + 1 \in S
    <2> DEFINE x == Raised(b, i)
               y == Raised(b, i + 1)
    <2>1. y = b * x
      BY RaisedNext
    <2>2. x \in Nat \ {0} /\ (b > 1 => i < x)
      BY <1>2
    <2> HIDE DEF x, y
    <2>3. y \in Nat \ {0}
      BY <2>1, <2>2
    <2>4. ASSUME b > 1 PROVE i + 1 < y
      <3>1. b * x >= 2 * x
        BY <2>2, <2>4
      <3> QED
        BY <2>1, <2>2, <2>3, <2>4, <3>1
    <2>5. i + 1 \in Nat
      OBVIOUS
    <2> QED
      BY <2>3, <2>4, <2>5 DEF y
  <1>3. Nat \subseteq S
    <2> HIDE DEF S
    <2> QED
      BY <1>1, <1>2, SetInduction
  <1> QED
    BY <1>3

\* A larger exponent makes a power as large, or larger.
LEMMA RaisedMonotonic ==
    ASSUME NEW b \in Nat \ {0}, NEW i \in Nat, NEW j \in Nat, i <= j
    PROVE  Raised(b, i) <= Raised(b, j) /\ Raised(b, j) = Raised(b, i) * Raised(b, j - i)
  <1> DEFINE d == j - i
             x == Raised(b, i)
             y == Raised(b, d)
  <1>1. d \in Nat /\ i + d = j
    OBVIOUS
  <1>2. Raised(b, i + d) = x * y
    <2> HIDE DEF d
    <2> QED
      BY <1>1, RaisedPlus DEF x, y
  <1>3. x \in Nat \ {0} /\ y \in Nat \ {0}
    <2> HIDE DEF d
    <2> QED
      BY <1>1, RaisedNat DEF x, y
  <1>4. x <= x * y
    <2> HIDE DEF x, y
    <2> QED
      BY <1>3
  <1> QED
    BY <1>1, <1>2, <1>4

\* A power to a product is a power of a power.
LEMMA RaisedTwice ==
    ASSUME NEW b \in Int, NEW i \in Nat, NEW j \in Nat
    PROVE  Raised(b, i * j) = Raised(Raised(b, i), j)
  <1> DEFINE x == Raised(b, i)
             S == {k \in Nat : Raised(b, i * k) = Raised(x, k)}
  <1>0. x \in Int
    BY RaisedNext
  <1>1. 0 \in S
    <2>1. i * 0 = 0
      OBVIOUS
    <2> QED
      BY <1>0, <2>1, RaisedZero
  <1>2. ASSUME NEW k \in Nat, k \in S
        PROVE  k + 1 \in S
    <2> DEFINE p == i * k
    <2>1. p \in Nat /\ i * (k + 1) = i + p
      OBVIOUS
    <2>2. Raised(b, i + p) = x * Raised(b, p)
      <3> HIDE DEF p
      <3> QED
        BY <2>1, RaisedPlus
    <2>3. Raised(x, k + 1) = x * Raised(x, k)
      <3> HIDE DEF x
      <3> QED
        BY <1>0, RaisedNext
    <2>4. Raised(b, p) = Raised(x, k)
      BY <1>2
    <2>5. Raised(b, i * (k + 1)) = Raised(x, k + 1)
      <3> HIDE DEF x, p
      <3> QED
        BY <2>1, <2>2, <2>3, <2>4
    <2> QED
      BY <2>5
  <1>3. Nat \subseteq S
    <2> HIDE DEF S
    <2> QED
      BY <1>1, <1>2, SetInduction
  <1> QED
    BY <1>3

\* The power of a product.
LEMMA RaisedProduct ==
    ASSUME NEW a \in Int, NEW b \in Int, NEW k \in Nat
    PROVE  Raised(a * b, k) = Raised(a, k) * Raised(b, k)
  <1> DEFINE c == a * b
             S == {i \in Nat : Raised(c, i) = Raised(a, i) * Raised(b, i)}
  <1>0. c \in Int
    OBVIOUS
  <1>1. 0 \in S
    BY <1>0, RaisedZero
  <1>2. ASSUME NEW i \in Nat, i \in S
        PROVE  i + 1 \in S
    <2> DEFINE x == Raised(a, i)
               y == Raised(b, i)
    <2>1. Raised(a, i + 1) = a * x /\ Raised(b, i + 1) = b * y /\ x \in Int /\ y \in Int
      BY RaisedNext
    <2>2. Raised(c, i + 1) = c * Raised(c, i)
      <3> HIDE DEF c
      <3> QED
        BY <1>0, RaisedNext
    <2>3. Raised(c, i) = x * y
      BY <1>2
    <2>4. (a * b) * (x * y) = (a * x) * (b * y)
      <3> HIDE DEF x, y
      <3> QED
        BY <2>1
    <2>5. Raised(c, i + 1) = Raised(a, i + 1) * Raised(b, i + 1)
      <3> HIDE DEF x, y
      <3> QED
        BY <2>1, <2>2, <2>3, <2>4
    <2> QED
      BY <2>5
  <1>3. Nat \subseteq S
    <2> HIDE DEF S
    <2> QED
      BY <1>1, <1>2, SetInduction
  <1> QED
    BY <1>3

\* Powers of congruent numbers are congruent.
LEMMA CongRaised ==
    ASSUME NEW a, NEW b, NEW m \in Int, NEW k \in Nat, Cong(a, b, m)
    PROVE  Cong(Raised(a, k), Raised(b, k), m)
  <1> DEFINE S == {i \in Nat : Cong(Raised(a, i), Raised(b, i), m)}
  <1>0. a \in Int /\ b \in Int
    BY DEF Cong
  <1>1. 0 \in S
    <2>1. 1 \in Int
      OBVIOUS
    <2>2. Cong(1, 1, m)
      BY <2>1, CongSelf
    <2> QED
      BY <1>0, <2>2, RaisedZero
  <1>2. ASSUME NEW i \in Nat, i \in S
        PROVE  i + 1 \in S
    <2>1. Raised(a, i + 1) = a * Raised(a, i) /\ Raised(b, i + 1) = b * Raised(b, i)
      BY <1>0, RaisedNext
    <2>2. Cong(Raised(a, i), Raised(b, i), m)
      BY <1>2
    <2>3. Cong(a * Raised(a, i), b * Raised(b, i), m)
      BY <2>2, CongTimes
    <2> QED
      BY <2>1, <2>3
  <1>3. Nat \subseteq S
    <2> HIDE DEF S
    <2> QED
      BY <1>1, <1>2, SetInduction
  <1> QED
    BY <1>3

\* The reference's product is the remainder of the power.
LEMMA PowerIsRaised ==
    ASSUME NEW a \in Int, NEW e \in Nat, NEW n \in Nat \ {0}
    PROVE  Power(a, e, n) = Raised(a, e) % n
  <1> DEFINE one == 1 % n
             X == 0 .. n - 1
             g == [y \in X \X (1..e) |-> (a * y[1]) % n]
             Body(f) == [i \in 0..e |-> IF i = 0 THEN 1 % n ELSE (a * f[i - 1]) % n]
             F == CHOOSE f : f = Body(f)
  <1>1. one \in X /\ \A x \in X : (a * x) % n \in X
    OBVIOUS
  <1>2. Closed(g, X, e)
    <2> HIDE DEF X
    <2> QED
      BY <1>1 DEF Closed
  <1>3. PICK f \in [0..e -> X] : f[0] = one /\ \A i \in 1..e : f[i] = g[<<f[i - 1], i>>]
    <2>0. one \in X
      BY <1>1
    <2>1. HasTurns(g, X, one, e)
      <3> HIDE DEF g, X, one
      <3> QED
        BY <2>0, <1>2, RecursionUp
    <2> HIDE DEF g, X, one
    <2> QED
      BY <2>1 DEF HasTurns
  <1>4. \A i \in 1..e : f[i] = (a * f[i - 1]) % n
    <2> SUFFICES ASSUME NEW i \in 1..e PROVE f[i] = (a * f[i - 1]) % n
      OBVIOUS
    <2>1. f[i - 1] \in X
      BY <1>3
    <2> HIDE DEF X
    <2> QED
      BY <1>3, <2>1
  <1>5. f = Body(f)
    BY <1>3, <1>4
  <1>6. F = Body(F)
    <2> HIDE DEF Body
    <2> QED
      BY <1>5
  <1>7. Power(a, e, n) = F[e]
    BY DEF Power
  <1> HIDE DEF F
  <1>8. F[0] = 1 % n /\ \A i \in 1..e : F[i] = (a * F[i - 1]) % n
    BY <1>6
  <1> DEFINE S == {i \in 0..e : F[i] = Raised(a, i) % n}
  <1>9. 0 \in S
    BY <1>8, RaisedZero
  <1>10. ASSUME NEW i \in 0 .. e - 1, i \in S
         PROVE  i + 1 \in S
    <2>1. i + 1 \in 1..e /\ (i + 1) - 1 = i /\ i + 1 \in 0..e
      OBVIOUS
    <2> DEFINE x == Raised(a, i)
               r == x % n
    <2>2. F[i + 1] = (a * r) % n
      BY <1>8, <1>10, <2>1
    <2>3. i \in Nat /\ x \in Int /\ Raised(a, i + 1) = a * x
      <3>1. i \in Nat
        OBVIOUS
      <3> QED
        BY <3>1, RaisedNext
    <2>4. Cong(r, x, n)
      <3> HIDE DEF x
      <3> QED
        BY <2>3, CongMod
    <2>6. Cong(a, a, n)
      BY CongSelf
    <2>5. (a * r) % n = (a * x) % n
      <3> HIDE DEF x, r
      <3>1. Cong(a * r, a * x, n)
        BY <2>4, <2>6, CongTimes
      <3> DEFINE y == a * r
                 z == a * x
      <3> HIDE DEF y, z
      <3>2. Cong(y, z, n)
        BY <3>1 DEF y, z
      <3> QED
        BY <3>2, CongIsMod DEF y, z
    <2> QED
      BY <2>1, <2>2, <2>3, <2>5
  <1>11. 0..e \subseteq S
    <2> HIDE DEF S
    <2> QED
      BY <1>9, <1>10, Upwards
  <1> QED
    BY <1>7, <1>11

-----------------------------------------------------------------------------
(* Digits *)

\* A number of k digits lies between the powers k - 1 and k of the base.
LEMMA DigitsAre ==
    ASSUME NEW n \in Nat, NEW b \in Nat \ {0, 1}
    PROVE  /\ Digits(n, b) \in 0..n
           /\ n < Raised(b, Digits(n, b))
           /\ Digits(n, b) = 0 \/ Raised(b, Digits(n, b) - 1) <= n
  <1> DEFINE T == {k \in Nat : n < Raised(b, k)}
  <1>1. n \in T
    BY RaisedNat
  <1>2. PICK k \in T : \A j \in T : k <= j
    <2>1. T \in SUBSET Nat /\ T # {}
      BY <1>1
    <2> HIDE DEF T
    <2> QED
      BY <2>1, LeastExists
  <1>3. k \in 0..n
    BY <1>1, <1>2
  <1>4. k = 0 \/ Raised(b, k - 1) <= n
    <2> SUFFICES ASSUME k # 0 PROVE Raised(b, k - 1) <= n
      OBVIOUS
    <2>1. k - 1 \in Nat /\ k - 1 \notin T
      BY <1>2, <1>3
    <2>2. Raised(b, k - 1) \in Int
      BY <2>1, RaisedNext
    <2> QED
      BY <2>1, <2>2
  <1>5. \E i \in 0..n : n < Raised(b, i) /\ (i = 0 \/ Raised(b, i - 1) <= n)
    BY <1>2, <1>3, <1>4
  <1> QED
    BY <1>5 DEF Digits

\* Only its number of digits puts a number there.
LEMMA DigitsOnly ==
    ASSUME NEW n \in Nat, NEW b \in Nat \ {0, 1}, NEW k \in Nat \ {0},
           n < Raised(b, k), Raised(b, k - 1) <= n
    PROVE  Digits(n, b) = k
  <1> DEFINE d == Digits(n, b)
  <1>1. d \in Nat /\ n < Raised(b, d) /\ (d = 0 \/ Raised(b, d - 1) <= n)
    BY DigitsAre
  <1> HIDE DEF d
  <1>2. ASSUME NEW i \in Nat, NEW j \in Nat, j # 0, i <= j - 1, n < Raised(b, i), Raised(b, j - 1) <= n
        PROVE  FALSE
    <2>1. j - 1 \in Nat
      BY <1>2
    <2>2. Raised(b, i) <= Raised(b, j - 1) /\ Raised(b, i) \in Int /\ Raised(b, j - 1) \in Int
      BY <1>2, <2>1, RaisedMonotonic, RaisedNext
    <2> QED
      BY <1>2, <2>2
  <1>3. ~(d < k)
    <2>1. d < k => d <= k - 1 /\ k # 0
      BY <1>1
    <2> QED
      BY <1>1, <1>2, <2>1
  <1>4. ~(k < d)
    <2>1. k < d => k <= d - 1 /\ d # 0
      BY <1>1
    <2> QED
      BY <1>1, <1>2, <2>1
  <1>5. d = k
    BY <1>1, <1>3, <1>4
  <1> QED
    BY <1>5 DEF d

-----------------------------------------------------------------------------
(* Integers and their bytes *)

\* The base of the bytes, as the lemmas about numbers take it.
LEMMA BaseIs == ByteBase \in Nat \ {0, 1} /\ ByteBase \in Nat \ {0} /\ ByteBase \in Int /\ ByteBase > 1
  BY ModArithAssumption

\* The numbers that DecodeInteger goes through, and the only ones that follow its recursion.
LEMMA DecodeIs ==
    ASSUME NEW n \in Nat, NEW bytes \in [1..n -> Byte], NEW w \in [0..n -> Nat],
           w[0] = 0, \A i \in 1..n : w[i] = w[i - 1] * ByteBase + bytes[i]
    PROVE  DecodeInteger(bytes) = w[n]
  <1> DEFINE Body(f) == [i \in 0..Len(bytes) |-> IF i = 0 THEN 0 ELSE f[i - 1] * ByteBase + bytes[i]]
             F == CHOOSE f : f = Body(f)
  <1>1. Len(bytes) = n
    OBVIOUS
  <1>2. w = Body(w)
    BY <1>1
  <1>3. F = Body(F)
    <2> HIDE DEF Body
    <2> QED
      BY <1>2
  <1>4. DecodeInteger(bytes) = F[n]
    BY <1>1 DEF DecodeInteger
  <1> HIDE DEF F
  <1>5. F[0] = 0 /\ \A i \in 1..n : F[i] = F[i - 1] * ByteBase + bytes[i]
    BY <1>1, <1>3
  <1> DEFINE S == {i \in 0..n : F[i] = w[i]}
  <1>6. 0 \in S
    BY <1>5
  <1>7. ASSUME NEW i \in 0 .. n - 1, i \in S
        PROVE  i + 1 \in S
    <2>1. i + 1 \in 1..n /\ (i + 1) - 1 = i /\ i + 1 \in 0..n
      OBVIOUS
    <2>2. F[i + 1] = F[i] * ByteBase + bytes[i + 1] /\ w[i + 1] = w[i] * ByteBase + bytes[i + 1]
      BY <1>5, <2>1
    <2> QED
      BY <1>7, <2>1, <2>2
  <1>8. 0..n \subseteq S
    <2> HIDE DEF S
    <2> QED
      BY <1>6, <1>7, Upwards
  <1> QED
    BY <1>4, <1>8

\* The numbers that DecodeInteger goes through.
LEMMA DecodeList ==
    ASSUME NEW n \in Nat, NEW bytes \in [1..n -> Byte]
    PROVE  \E w \in [0..n -> Nat] : /\ w[0] = 0
                                    /\ \A i \in 1..n : w[i] = w[i - 1] * ByteBase + bytes[i]
                                    /\ w[n] = DecodeInteger(bytes)
  <1> DEFINE zero == 0
             X == Nat
             g == [y \in X \X (1..n) |-> y[1] * ByteBase + bytes[y[2]]]
  <1>1. \A i \in 1..n : bytes[i] \in Nat
    BY BaseIs DEF Byte
  <1>2. Closed(g, X, n)
    <2>1. \A x \in Nat : x * ByteBase \in Nat
      BY BaseIs
    <2>2. \A x \in X : \A i \in 1..n : x * ByteBase + bytes[i] \in X
      <3> SUFFICES ASSUME NEW x \in X, NEW i \in 1..n PROVE x * ByteBase + bytes[i] \in X
        OBVIOUS
      <3> DEFINE p == x * ByteBase
      <3>1. p \in Nat /\ bytes[i] \in Nat
        BY <1>1, <2>1
      <3> HIDE DEF p
      <3>2. p + bytes[i] \in Nat
        BY <3>1
      <3> QED
        BY <3>2 DEF p
    <2> HIDE DEF X
    <2> QED
      BY <2>2 DEF Closed
  <1>3. zero \in X
    OBVIOUS
  <1>4. \E f \in [0..n -> X] : f[0] = zero /\ \A i \in 1..n : f[i] = g[<<f[i - 1], i>>]
    <2> HIDE DEF g, X, zero
    <2> QED
      BY <1>2, <1>3, Recursion
  <1>5. PICK f \in [0..n -> X] : f[0] = zero /\ \A i \in 1..n : f[i] = g[<<f[i - 1], i>>]
    BY <1>4
  <1>6. \A i \in 1..n : f[i] = f[i - 1] * ByteBase + bytes[i]
    <2> SUFFICES ASSUME NEW i \in 1..n PROVE f[i] = f[i - 1] * ByteBase + bytes[i]
      OBVIOUS
    <2>1. f[i - 1] \in X
      BY <1>5
    <2> HIDE DEF X
    <2> QED
      BY <1>5, <2>1
  <1>7. f[0] = 0 /\ f \in [0..n -> Nat]
    BY <1>5
  <1> HIDE DEF g, X, zero
  <1>8. DecodeInteger(bytes) = f[n]
    BY <1>6, <1>7, DecodeIs
  <1> QED
    BY <1>6, <1>7, <1>8

\* The bytes of a number, read back, are the number, if they are enough.
LEMMA DecodeEncoded ==
    ASSUME NEW y \in Nat, NEW n \in Nat, y < Raised(ByteBase, n)
    PROVE  EncodeInteger(y, n) \in [1..n -> Byte] /\ DecodeInteger(EncodeInteger(y, n)) = y
  <1> DEFINE bytes == EncodeInteger(y, n)
             w == [i \in 0..n |-> y \div Raised(ByteBase, n - i)]
  <1>0. \A i \in 0..n : n - i \in Nat /\ Raised(ByteBase, n - i) \in Nat \ {0}
    <2>1. \A j \in Nat : Raised(ByteBase, j) \in Nat \ {0}
      BY BaseIs, RaisedNat
    <2>2. \A i \in 0..n : n - i \in Nat
      OBVIOUS
    <2> QED
      BY <2>1, <2>2
  <1>1. w \in [0..n -> Nat]
    BY <1>0
  <1>2. w[0] = 0
    <2> DEFINE R == Raised(ByteBase, n)
    <2>1. R \in Nat \ {0} /\ y < R
      BY <1>0
    <2>2. y \div R = 0
      <3> HIDE DEF R
      <3>1. y = 0 * R + y /\ y \in 0 .. R - 1 /\ 0 \in Int
        BY <2>1
      <3> QED
        BY <2>1, <3>1, QuotientOf
    <2>3. n - 0 = n
      OBVIOUS
    <2> QED
      BY <2>2, <2>3
  <1>3. w[n] = y
    <2>1. n - n = 0 /\ Raised(ByteBase, 0) = 1 /\ y \div 1 = y
      BY BaseIs, RaisedZero
    <2> QED
      BY <2>1
  <1>4. ASSUME NEW i \in 1..n
        PROVE  bytes[i] \in Byte /\ w[i] = w[i - 1] * ByteBase + bytes[i]
    <2> DEFINE k == n - i
               R == Raised(ByteBase, k)
               q == y \div R
    <2>1. k \in Nat /\ n - (i - 1) = k + 1 /\ i \in 0..n /\ i - 1 \in 0..n
      OBVIOUS
    <2>2. R \in Nat \ {0} /\ Raised(ByteBase, k + 1) = ByteBase * R
      <3> HIDE DEF k
      <3> QED
        BY <2>1, BaseIs, RaisedNat, RaisedNext DEF R
    <2>3. w[i] = q
      BY <2>1
    <2>4. w[i - 1] = q \div ByteBase
      <3>1. w[i - 1] = y \div Raised(ByteBase, k + 1)
        BY <2>1
      <3> HIDE DEF R, k, w
      <3> QED
        BY <2>2, <3>1, BaseIs, DivTwice
    <2>5. bytes[i] = q % ByteBase
      BY DEF EncodeInteger, GetByte
    <2>6. q \in Nat
      <3> HIDE DEF R
      <3> QED
        BY <2>2
    <2> HIDE DEF q, w, bytes
    <2>8. q \in Int /\ ByteBase \in Nat \ {0}
      BY <2>6, BaseIs
    <2>7. q = (q \div ByteBase) * ByteBase + (q % ByteBase) /\ q % ByteBase \in 0 .. ByteBase - 1
      BY <2>8, Division
    <2> QED
      BY <2>3, <2>4, <2>5, <2>7 DEF Byte
  <1>5. bytes \in [1..n -> Byte]
    <2>1. bytes = [i \in 1..n |-> bytes[i]]
      BY DEF EncodeInteger
    <2> HIDE DEF bytes
    <2> QED
      BY <1>4, <2>1
  <1> HIDE DEF bytes, w
  <1>6. DecodeInteger(bytes) = w[n]
    BY <1>1, <1>2, <1>4, <1>5, DecodeIs
  <1> QED
    BY <1>3, <1>5, <1>6 DEF bytes

\* The number that bytes stand for has their values as its quotients, and is as large as
\* their count allows.
LEMMA DecodeBounds ==
    ASSUME NEW n \in Nat, NEW bytes \in [1..n -> Byte]
    PROVE  /\ DecodeInteger(bytes) \in Nat /\ DecodeInteger(bytes) < Raised(ByteBase, n)
           /\ EncodeInteger(DecodeInteger(bytes), n) = bytes
           /\ n > 0 /\ bytes[1] # 0 => Raised(ByteBase, n - 1) <= DecodeInteger(bytes)
  <1>1. PICK w \in [0..n -> Nat] : /\ w[0] = 0
                                   /\ \A i \in 1..n : w[i] = w[i - 1] * ByteBase + bytes[i]
                                   /\ w[n] = DecodeInteger(bytes)
    BY DecodeList
  <1> DEFINE v == DecodeInteger(bytes)
             R(i) == Raised(ByteBase, i)
             S == {i \in 0..n : w[i] < R(i)}
             T == {i \in 0..n : v \div R(i) = w[n - i]}
  <1>13. v = w[n] /\ n \in 0..n /\ n - 0 = n
    <2>1. n \in 0..n /\ n - 0 = n
      OBVIOUS
    <2>2. v = w[n]
      BY <1>1, Zenon
    <2> QED
      BY <2>1, <2>2
  <1>2. \A i \in Nat : R(i) \in Nat \ {0}
    BY BaseIs, RaisedNat
  <1>3. 0 \in S
    BY <1>1, BaseIs, RaisedZero
  <1>4. ASSUME NEW i \in 0 .. n - 1, i \in S
        PROVE  i + 1 \in S
    <2>1. i + 1 \in 1..n /\ (i + 1) - 1 = i /\ i + 1 \in 0..n /\ i \in Nat
      OBVIOUS
    <2> DEFINE x == w[i]
               r == R(i)
               c == bytes[i + 1]
    <2>2. w[i + 1] = x * ByteBase + c
      BY <1>1, <2>1
    <2>3. R(i + 1) = ByteBase * r
      BY <2>1, BaseIs, RaisedNext
    <2>4. x \in Nat /\ r \in Nat /\ x <= r - 1
      BY <1>2, <1>4, <2>1
    <2>5. c \in 0 .. ByteBase - 1
      BY <2>1 DEF Byte
    <2>6. w[i + 1] < R(i + 1)
      <3> HIDE DEF x, r, c, R
      <3>1. x * ByteBase <= (r - 1) * ByteBase /\ (r - 1) * ByteBase = ByteBase * r - ByteBase
        BY <2>4, BaseIs
      <3>2. x * ByteBase \in Int /\ ByteBase * r \in Int
        BY <2>4, BaseIs
      <3> QED
        BY <2>2, <2>3, <2>5, <3>1, <3>2, BaseIs
    <2> QED
      BY <2>1, <2>6
  <1>5. 0..n \subseteq S
    <2> HIDE DEF S
    <2> QED
      BY <1>3, <1>4, Upwards
  <1>6. v \in Nat /\ v < R(n)
    <2> HIDE DEF v
    <2>1. w[n] < R(n) /\ w[n] \in Nat
      BY <1>5, <1>13
    <2> QED
      BY <1>13, <2>1
  <1>7. 0 \in T
    <2>1. R(0) = 1 /\ n - 0 = n /\ v \div 1 = v
      BY <1>6, BaseIs, RaisedZero
    <2>2. v \div R(0) = w[n - 0] /\ 0 \in 0..n
      <3> HIDE DEF v, R
      <3> QED
        BY <1>13, <2>1
    <2> QED
      BY <2>2
  <1>8. \A i \in 1..n : w[i] \div ByteBase = w[i - 1] /\ w[i] % ByteBase = bytes[i]
    <2> SUFFICES ASSUME NEW i \in 1..n
                 PROVE  w[i] \div ByteBase = w[i - 1] /\ w[i] % ByteBase = bytes[i]
      OBVIOUS
    <2> DEFINE q == w[i - 1]
               r == bytes[i]
    <2>1. q \in Int /\ r \in 0 .. ByteBase - 1 /\ w[i] = q * ByteBase + r /\ ByteBase \in Nat \ {0}
      BY <1>1, BaseIs DEF Byte
    <2> HIDE DEF q, r
    <2>2. w[i] \div ByteBase = q /\ w[i] % ByteBase = r
      BY <2>1, QuotientOf
    <2> QED
      BY <2>2 DEF q, r
  <1>9. ASSUME NEW i \in 0 .. n - 1, i \in T
        PROVE  i + 1 \in T
    <2> DEFINE k == n - i
    <2>1. k \in 1..n /\ n - (i + 1) = k - 1 /\ i + 1 \in 0..n /\ i \in Nat
      OBVIOUS
    <2>2. R(i + 1) = ByteBase * R(i)
      BY <2>1, BaseIs, RaisedNext
    <2>3. v \div R(i + 1) = (v \div R(i)) \div ByteBase
      <3> DEFINE r == R(i)
      <3>1. r \in Nat \ {0}
        BY <1>2, <2>1
      <3> HIDE DEF r, v
      <3>2. v \div (ByteBase * r) = (v \div r) \div ByteBase
        BY <1>6, <3>1, BaseIs, DivTwice
      <3> QED
        BY <2>2, <3>2 DEF r
    <2>4. v \div R(i) = w[k]
      BY <1>9
    <2>5. w[k] \div ByteBase = w[k - 1]
      BY <1>8, <2>1
    <2> QED
      BY <2>1, <2>3, <2>4, <2>5
  <1>10. 0..n \subseteq T
    <2> HIDE DEF T
    <2> QED
      BY <1>7, <1>9, Upwards
  <1>11. EncodeInteger(v, n) = bytes
    <2>1. \A i \in 1..n : GetByte(v, n - i) = bytes[i]
      <3> SUFFICES ASSUME NEW i \in 1..n PROVE GetByte(v, n - i) = bytes[i]
        OBVIOUS
      <3>1. n - i \in 0..n /\ n - (n - i) = i
        OBVIOUS
      <3>2. v \div R(n - i) = w[i]
        BY <1>10, <3>1
      <3> QED
        BY <1>8, <3>2 DEF GetByte
    <2> HIDE DEF v
    <2> QED
      BY <2>1 DEF EncodeInteger
  <1>12. ASSUME n > 0, bytes[1] # 0
         PROVE  R(n - 1) <= v
    <2>1. n - 1 \in 0..n /\ n - (n - 1) = 1 /\ n - 1 \in Nat /\ 1 \in 1..n
      BY <1>12
    <2>2. v \div R(n - 1) = w[1]
      BY <1>10, <2>1
    <2>3. w[1] = w[0] * ByteBase + bytes[1]
      BY <1>1, <2>1
    <2>4. w[1] # 0 /\ w[1] \in Nat
      BY <1>1, <1>12, <2>1, <2>3, BaseIs DEF Byte
    <2> DEFINE r == R(n - 1)
               q == v \div r
               s == v % r
    <2>5. r \in Nat \ {0}
      BY <1>2, <2>1
    <2>6. v = q * r + s /\ s \in 0 .. r - 1
      <3> HIDE DEF r, v
      <3>1. v \in Int
        BY <1>6
      <3> QED
        BY <2>5, <3>1, Division
    <2>7. q \in Nat \ {0}
      BY <2>2, <2>4
    <2> HIDE DEF q, r, s, v
    <2>8. r <= q * r /\ q * r \in Nat
      BY <2>5, <2>7
    <2>9. r <= v
      BY <2>5, <2>6, <2>8
    <2> QED
      BY <2>9 DEF r, v
  <1> QED
    BY <1>6, <1>11, <1>12

\* The least encoding of a number: its length, and that it begins with a zero byte only
\* if it has no other.
LEMMA LeastEncoding ==
    ASSUME NEW y \in Nat
    PROVE  /\ MinEncodedSize(y) \in Nat \ {0} /\ y < Raised(ByteBase, MinEncodedSize(y))
           /\ MinEncoded(y) \in [1..MinEncodedSize(y) -> Byte]
           /\ DecodeInteger(MinEncoded(y)) = y
           /\ MinEncodedSize(y) = 1 \/ MinEncoded(y)[1] # 0
  <1> DEFINE k == MinEncodedSize(y)
             d == Digits(y, ByteBase)
  <1>1. d \in Nat /\ y < Raised(ByteBase, d) /\ (d = 0 \/ Raised(ByteBase, d - 1) <= y)
    BY BaseIs, DigitsAre
  <1>2. k = IF y = 0 THEN 1 ELSE d
    BY DEF MinEncodedSize, ByteCount
  <1> HIDE DEF d, k
  <1>3. y # 0 => d # 0
    BY <1>1, BaseIs, RaisedZero
  <1>4. k \in Nat \ {0} /\ y < Raised(ByteBase, k)
    <2>1. Raised(ByteBase, 1) = ByteBase
      BY BaseIs, RaisedOne
    <2> QED
      BY <1>1, <1>2, <1>3, <2>1, BaseIs
  <1>5. MinEncoded(y) = EncodeInteger(y, k)
    BY DEF MinEncoded, k
  <1>6. MinEncoded(y) \in [1..k -> Byte] /\ DecodeInteger(MinEncoded(y)) = y
    <2>1. k \in Nat
      BY <1>4
    <2> QED
      BY <1>4, <1>5, <2>1, DecodeEncoded
  <1>7. ASSUME k # 1
        PROVE  MinEncoded(y)[1] # 0
    <2>1. k = d /\ y # 0 /\ k \in Nat \ {0}
      BY <1>2, <1>4, <1>7
    <2> DEFINE r == Raised(ByteBase, k - 1)
               q == y \div r
    <2>2. k - 1 \in Nat /\ 1 \in 1..k /\ (k - 1) + 1 = k
      BY <2>1
    <2>3. r \in Nat \ {0} /\ Raised(ByteBase, k) = ByteBase * r
      <3> DEFINE j == k - 1
      <3>1. j \in Nat /\ j + 1 = k
        BY <2>2
      <3> HIDE DEF j
      <3>2. Raised(ByteBase, j) \in Nat \ {0} /\ Raised(ByteBase, j + 1) = ByteBase * Raised(ByteBase, j)
        BY <3>1, BaseIs, RaisedNat, RaisedNext
      <3> QED
        BY <3>1, <3>2 DEF j
    <2>4. r <= y /\ y < ByteBase * r
      BY <1>1, <2>1, <2>3
    <2>5. MinEncoded(y)[1] = q % ByteBase
      BY <1>5, <2>2 DEF EncodeInteger, GetByte
    <2> HIDE DEF r
    <2>6. q \in Nat /\ y = q * r + (y % r) /\ y % r \in 0 .. r - 1
      <3>1. y \in Int
        OBVIOUS
      <3>2. y \div r \in Nat
        BY <2>3
      <3>3. y = (y \div r) * r + (y % r) /\ y % r \in 0 .. r - 1
        BY <2>3, <3>1, Division
      <3> QED
        BY <3>2, <3>3
    <2> HIDE DEF q
    <2>7. q # 0
      <3>1. q = 0 => q * r = 0
        BY <2>3
      <3> QED
        BY <2>3, <2>4, <2>6, <3>1
    <2>8. q < ByteBase
      <3> SUFFICES ASSUME ByteBase <= q PROVE FALSE
        BY <2>6, BaseIs
      <3>1. ByteBase * r <= q * r /\ q * r \in Nat /\ ByteBase * r \in Nat
        BY <2>3, <2>6, BaseIs
      <3> QED
        BY <2>3, <2>4, <2>6, <3>1
    <2>9. q % ByteBase = q
      <3>1. q = 0 * ByteBase + q /\ q \in 0 .. ByteBase - 1 /\ ByteBase \in Nat \ {0} /\ 0 \in Int
        BY <2>6, <2>8, BaseIs
      <3> QED
        BY <3>1, QuotientOf
    <2> QED
      BY <2>5, <2>7, <2>9
  <1> QED
    BY <1>4, <1>6, <1>7 DEF k

\* Bytes that do not begin with a zero byte are the least encoding of their number.
LEMMA LeastAgain ==
    ASSUME NEW n \in Nat \ {0}, NEW bytes \in [1..n -> Byte], bytes[1] # 0
    PROVE  MinEncoded(DecodeInteger(bytes)) = bytes
  <1> DEFINE v == DecodeInteger(bytes)
  <1>1. /\ v \in Nat /\ v < Raised(ByteBase, n) /\ EncodeInteger(v, n) = bytes
        /\ Raised(ByteBase, n - 1) <= v
    BY DecodeBounds
  <1> HIDE DEF v
  <1>2. Digits(v, ByteBase) = n
    BY <1>1, BaseIs, DigitsOnly
  <1>3. v # 0
    <2>1. n - 1 \in Nat
      OBVIOUS
    <2>2. Raised(ByteBase, n - 1) \in Nat \ {0}
      BY <2>1, BaseIs, RaisedNat
    <2> QED
      BY <1>1, <2>2
  <1>4. MinEncoded(v) = bytes
    BY <1>1, <1>2, <1>3 DEF MinEncoded, MinEncodedSize, ByteCount
  <1> QED
    BY <1>4 DEF v

-----------------------------------------------------------------------------
(* Montgomery's representation *)

\* Montgomery's radix is a power of 2, and at least 8.
LEMMA RadixIs ==
    /\ Radix \in Nat \ {0} /\ Radix \in Int /\ Radix > 1
    /\ \E k \in Nat : k >= 3 /\ Radix = Raised(2, k)
  <1>1. PICK k \in 3..Radix : Radix = Raised(2, k)
    BY ModArithAssumption
  <1>2. k \in Nat /\ k >= 3 /\ Radix \in Nat
    BY ModArithAssumption
  <1>3. k < Radix
    BY <1>1, <1>2, TwoIs, RaisedNat
  <1> QED
    BY <1>1, <1>2, <1>3

\* The modulus that r is right for after n doublings.
Grown(n) == Raised(2, 3 * Raised(2, n))

\* That modulus is squared at each step, and comes to exceed every number.
LEMMA GrownIs ==
    ASSUME NEW n \in Nat
    PROVE  /\ 3 * Raised(2, n) \in Nat
           /\ Grown(n) \in Nat \ {0} /\ n < Grown(n) /\ Grown(n + 1) = Grown(n) * Grown(n)
  <1> DEFINE x == Raised(2, n)
             y == 3 * x
  <1>1. x \in Nat /\ n < x /\ Raised(2, n + 1) = 2 * x
    BY TwoIs, RaisedNat, RaisedNext
  <1>2. y \in Nat /\ n < y /\ 3 * (2 * x) = y + y
    <2> HIDE DEF x
    <2> QED
      BY <1>1
  <1>3. Raised(2, y) \in Nat \ {0} /\ y < Raised(2, y) /\ Raised(2, y + y) = Raised(2, y) * Raised(2, y)
    <2> HIDE DEF y
    <2> QED
      BY <1>2, TwoIs, RaisedNat, RaisedPlus
  <1>4. Grown(n) = Raised(2, y) /\ Grown(n + 1) = Raised(2, y + y)
    <2>1. Grown(n + 1) = Raised(2, 3 * (2 * x))
      BY <1>1 DEF Grown
    <2> QED
      BY <1>2, <2>1 DEF Grown
  <1>5. n < Raised(2, y)
    <2> HIDE DEF y
    <2> QED
      BY <1>2, <1>3
  <1> HIDE DEF y
  <1>6. Grown(n) \in Nat \ {0} /\ n < Grown(n) /\ Grown(n + 1) = Grown(n) * Grown(n)
    BY <1>3, <1>4, <1>5
  <1> QED
    BY <1>2, <1>6 DEF y

\* It begins with 8.
LEMMA GrownZero == Grown(0) = 8
  <1>1. Raised(2, 0) = 1 /\ 3 * 1 = 3
    BY TwoIs, RaisedZero
  <1>2. Raised(2, 1) = 2
    BY TwoIs, RaisedOne
  <1>3. 1 \in Nat /\ 2 \in Nat /\ 1 + 1 = 2 /\ 2 + 1 = 3
    OBVIOUS
  <1>4. Raised(2, 1 + 1) = 2 * Raised(2, 1)
    BY <1>3, TwoIs, RaisedNext
  <1>5. Raised(2, 2 + 1) = 2 * Raised(2, 2)
    BY <1>3, TwoIs, RaisedNext
  <1>6. Raised(2, 3) = 8
    BY <1>2, <1>3, <1>4, <1>5
  <1> QED
    BY <1>1, <1>6 DEF Grown

\* After Doublings steps it is Radix or more, and before them less.
LEMMA DoublingsAre ==
    /\ Doublings \in Nat /\ Radix <= Grown(Doublings)
    /\ \A i \in Nat : i < Doublings => Grown(i) < Radix
  <1> DEFINE T == {n \in Nat : Radix <= Grown(n)}
  <1>0. \A n \in Nat : Grown(n) \in Nat
    BY GrownIs
  <1>1. Radix \in T
    <2>1. Radix \in Nat
      BY RadixIs
    <2>2. Grown(Radix) \in Nat \ {0} /\ Radix < Grown(Radix)
      BY <2>1, GrownIs
    <2> QED
      BY <2>1, <2>2
  <1>2. PICK n \in T : \A j \in T : n <= j
    <2>1. T \in SUBSET Nat /\ T # {}
      BY <1>1
    <2> HIDE DEF T
    <2> QED
      BY <2>1, LeastExists
  <1>3. n \in 0..Radix
    BY <1>1, <1>2, RadixIs
  <1>4. n = 0 \/ Grown(n - 1) < Radix
    <2> SUFFICES ASSUME n # 0 PROVE Grown(n - 1) < Radix
      OBVIOUS
    <2>1. n - 1 \in Nat /\ n - 1 \notin T
      BY <1>2, <1>3
    <2> QED
      BY <1>0, <2>1, RadixIs
  <1>5. \E i \in 0..Radix : Radix <= Grown(i) /\ (i = 0 \/ Grown(i - 1) < Radix)
    BY <1>2, <1>3, <1>4
  <1> DEFINE d == Doublings
  <1>6. d \in 0..Radix /\ Radix <= Grown(d) /\ (d = 0 \/ Grown(d - 1) < Radix)
    BY <1>5 DEF Doublings, Grown
  <1> HIDE DEF d, T
  <1>7. ASSUME NEW i \in Nat, i < d
        PROVE  Grown(i) < Radix
    <2>1. d - 1 \in Nat /\ i <= d - 1 /\ Grown(d - 1) < Radix
      BY <1>6, <1>7, RadixIs
    <2> DEFINE x == Raised(2, i)
               y == Raised(2, d - 1)
    <2>2. x <= y /\ x \in Nat /\ y \in Nat
      BY <2>1, TwoIs, RaisedMonotonic, RaisedNat
    <2> DEFINE u == 3 * x
               v == 3 * y
    <2>3. u \in Nat /\ v \in Nat /\ u <= v
      <3> HIDE DEF x, y
      <3> QED
        BY <2>2
    <2>4. Raised(2, u) <= Raised(2, v)
      <3> HIDE DEF u, v
      <3> QED
        BY <2>3, TwoIs, RaisedMonotonic
    <2>5. Grown(i) <= Grown(d - 1)
      BY <2>4 DEF Grown
    <2> QED
      BY <1>0, <2>1, <2>5, RadixIs
  <1>8. d \in Nat /\ Radix <= Grown(d) /\ \A i \in Nat : i < d => Grown(i) < Radix
    BY <1>6, <1>7, RadixIs
  <1> QED
    BY <1>8 DEF d

\* Of two powers of 2 the smaller divides the larger.
LEMMA TwosDivide ==
    ASSUME NEW i \in Nat, NEW j \in Nat, Raised(2, i) <= Raised(2, j)
    PROVE  \E c \in Nat \ {0} : Raised(2, j) = Raised(2, i) * c
  <1>1. CASE i <= j
    <2>1. j - i \in Nat
      BY <1>1
    <2>2. Raised(2, j) = Raised(2, i) * Raised(2, j - i)
      BY <1>1, TwoIs, RaisedMonotonic
    <2>3. Raised(2, j - i) \in Nat \ {0}
      BY <2>1, TwoIs, RaisedNat
    <2> QED
      BY <2>2, <2>3
  <1>2. CASE j < i
    <2> DEFINE x == Raised(2, j)
               y == Raised(2, i - j)
    <2>1. i - j \in Nat /\ j <= i
      BY <1>2
    <2>2. Raised(2, i) = x * y
      BY <2>1, TwoIs, RaisedMonotonic
    <2>3. x \in Nat \ {0} /\ y \in Nat \ {0} /\ i - j < y
      BY <2>1, TwoIs, RaisedNat
    <2>4. x < x * y
      <3>1. y >= 2
        BY <1>2, <2>3
      <3> HIDE DEF x, y
      <3>2. x * 2 <= x * y
        BY <2>3, <3>1
      <3> QED
        BY <2>3, <3>2
    <2> HIDE DEF x, y
    <2>5. x * y <= x
      BY <2>2 DEF x
    <2> QED
      BY <2>3, <2>4, <2>5
  <1> QED
    BY <1>1, <1>2

\* An odd number is its own inverse modulo 8.
LEMMA OddSquare ==
    ASSUME NEW m \in Nat, m % 2 = 1
    PROVE  Cong((m % 8) * m, 1, 8)
  <1> DEFINE q == m \div 8
             s == m % 8
  <1>1. q \in Int /\ s \in 0..7 /\ m = q * 8 + s
    <2>1. m \in Int /\ 8 \in Nat \ {0} /\ 8 - 1 = 7
      OBVIOUS
    <2> QED
      BY <2>1, Division
  <1> HIDE DEF q, s
  <1>2. s \in {1, 3, 5, 7}
    BY <1>1
  <1>3. \E t \in Int : s * s = 1 + t * 8
    <2>1. CASE s = 1
      <3>1. s * s = 1 + 0 * 8 /\ 0 \in Int
        BY <2>1
      <3> QED
        BY <3>1
    <2>2. CASE s = 3
      <3>1. s * s = 1 + 1 * 8 /\ 1 \in Int
        BY <2>2
      <3> QED
        BY <3>1
    <2>3. CASE s = 5
      <3>1. s * s = 1 + 3 * 8 /\ 3 \in Int
        BY <2>3
      <3> QED
        BY <3>1
    <2>4. CASE s = 7
      <3>1. s * s = 1 + 6 * 8 /\ 6 \in Int
        BY <2>4
      <3> QED
        BY <3>1
    <2> QED
      BY <1>2, <2>1, <2>2, <2>3, <2>4
  <1>4. PICK t \in Int : s * s = 1 + t * 8
    BY <1>3
  <1> DEFINE u == s * m
             v == s * q + t
  <1>5. u = 1 + v * 8 /\ u \in Int /\ v \in Int
    <2>1. s * (q * 8 + s) = (s * q) * 8 + s * s
      BY <1>1
    <2>2. s * m = (s * q) * 8 + (1 + t * 8) /\ s * q \in Int /\ s * m \in Int
      BY <1>1, <1>4, <2>1
    <2> QED
      BY <2>2
  <1>6. Cong(u, 1, 8)
    <2> HIDE DEF u, v
    <2> QED
      BY <1>5 DEF Cong
  <1> QED
    BY <1>6 DEF s

\* With r right modulo d, r * (2 - r * m) is right modulo the square of d.
LEMMA NewtonStep ==
    ASSUME NEW m \in Int, NEW r \in Int, NEW d \in Int, Cong(r * m, 1, d)
    PROVE  Cong((r * (2 - r * m)) * m, 1, d * d)
  <1> DEFINE p == r * m
  <1>1. PICK q \in Int : p = 1 + q * d
    BY DEF Cong
  <1> DEFINE x == (r * (2 - p)) * m
             t == - (q * q)
             e == d * d
  <1>2. p \in Int /\ x \in Int /\ t \in Int /\ e \in Int
    OBVIOUS
  <1>3. x = p * (2 - p)
    OBVIOUS
  <1>4. p * (2 - p) = 1 + (- (q * q)) * (d * d)
    <2> HIDE DEF p
    <2> QED
      BY <1>1, <1>2
  <1>5. x = 1 + t * e
    BY <1>3, <1>4
  <1> HIDE DEF x, t, e
  <1>6. Cong(x, 1, e)
    BY <1>2, <1>5 DEF Cong
  <1> QED
    BY <1>6 DEF x, e

\* The modulus that InverseModRadix is right for after i steps.
RightFor(i) == IF i < Doublings THEN Grown(i) ELSE Radix

\* It divides Radix, and what it has grown to.
LEMMA RightForIs ==
    ASSUME NEW i \in Nat
    PROVE  /\ RightFor(i) \in Nat \ {0}
           /\ \E c \in Nat : Radix = RightFor(i) * c
           /\ i <= Doublings => \E c \in Nat : Grown(i) = RightFor(i) * c
  <1>1. PICK k \in Nat : Radix = Raised(2, k)
    BY RadixIs
  <1> DEFINE e == 3 * Raised(2, i)
             G == Grown(i)
  <1>2. e \in Nat /\ G = Raised(2, e) /\ G \in Nat \ {0} /\ Radix \in Nat \ {0}
    BY GrownIs, RadixIs DEF Grown
  <1>3. CASE i < Doublings
    <2>1. G <= Radix /\ RightFor(i) = G
      BY <1>2, <1>3, DoublingsAre DEF RightFor
    <2>2. \E c \in Nat \ {0} : Radix = G * c
      <3> HIDE DEF e, G
      <3> QED
        BY <1>1, <1>2, <2>1, TwosDivide
    <2> HIDE DEF e, G
    <2>3. G = G * 1
      BY <1>2
    <2> QED
      BY <1>2, <2>1, <2>2, <2>3 DEF G
  <1>4. CASE ~(i < Doublings)
    <2>1. RightFor(i) = Radix
      BY <1>4 DEF RightFor
    <2>2. Radix = Radix * 1
      BY <1>2
    <2>3. i <= Doublings => i = Doublings
      BY <1>4, DoublingsAre
    <2>4. i <= Doublings => Radix <= G
      BY <2>3, DoublingsAre
    <2>5. i <= Doublings => \E c \in Nat \ {0} : G = Radix * c
      <3> HIDE DEF e, G
      <3> QED
        BY <1>1, <1>2, <2>4, TwosDivide
    <2> HIDE DEF e
    <2> QED
      BY <1>2, <2>1, <2>2, <2>5
  <1> QED
    BY <1>3, <1>4

\* One step of the loop.
LEMMA InverseStep ==
    ASSUME NEW m \in Nat, NEW i \in Nat, i < Doublings, NEW r \in 0 .. Radix - 1,
           Cong(r * m, 1, RightFor(i))
    PROVE  /\ (r * ((2 - r * m) % Radix)) % Radix \in 0 .. Radix - 1
           /\ Cong(((r * ((2 - r * m) % Radix)) % Radix) * m, 1, RightFor(i + 1))
  <1> DEFINE a == 2 - r * m
             b == r * (a % Radix)
             y == b % Radix
             G == RightFor(i + 1)
             t == r * a
  <1>0. Radix \in Nat \ {0} /\ r \in Int /\ m \in Int
    BY RadixIs
  <1>1. a \in Int /\ t \in Int
    BY <1>0
  <1>2. a % Radix \in 0 .. Radix - 1 /\ Cong(a % Radix, a, Radix)
    <2> HIDE DEF a
    <2> QED
      BY <1>0, <1>1, CongMod, Division
  <1>3. b \in Int
    <2> DEFINE z == a % Radix
    <2>1. z \in Int
      BY <1>2
    <2> HIDE DEF z
    <2> QED
      BY <1>0, <2>1
  <1>4. Cong(b, t, Radix)
    <2>1. Cong(r, r, Radix)
      BY <1>0, CongSelf
    <2> HIDE DEF a
    <2> QED
      BY <1>0, <1>2, <2>1, CongTimes
  <1> HIDE DEF b
  <1>5. y \in 0 .. Radix - 1 /\ Cong(y, b, Radix)
    BY <1>0, <1>3, CongMod, Division
  <1> HIDE DEF y, t
  <1>6. Cong(y * m, t * m, Radix)
    <2>1. Cong(y, t, Radix)
      BY <1>0, <1>4, <1>5, CongOn
    <2>2. Cong(m, m, Radix)
      BY <1>0, CongSelf
    <2> QED
      BY <1>0, <2>1, <2>2, CongTimes
  <1>7. Cong(t * m, 1, Grown(i + 1))
    <2>1. RightFor(i) = Grown(i)
      BY DEF RightFor
    <2> DEFINE d == Grown(i)
    <2>2. d \in Int /\ Grown(i + 1) = d * d
      BY GrownIs
    <2>3. Cong(r * m, 1, d)
      BY <2>1
    <2>4. Cong((r * (2 - r * m)) * m, 1, d * d)
      <3> HIDE DEF d
      <3> QED
        BY <1>0, <2>2, <2>3, NewtonStep
    <2> QED
      BY <2>2, <2>4 DEF t, a
  <1>8. G \in Int /\ Divides(G, Radix) /\ Divides(G, Grown(i + 1))
    <2> DEFINE j == i + 1
    <2>1. j \in Nat /\ j <= Doublings
      BY DoublingsAre
    <2> HIDE DEF j
    <2>2. RightFor(j) \in Int /\ Divides(RightFor(j), Radix) /\ Divides(RightFor(j), Grown(j))
      BY <2>1, RightForIs DEF Divides
    <2> QED
      BY <2>2 DEF j
  <1>9. Grown(i + 1) \in Int
    BY GrownIs
  <1> HIDE DEF G
  <1> DEFINE u == y * m
             v == t * m
             w == Grown(i + 1)
  <1>10. Cong(u, v, Radix) /\ Cong(v, 1, w) /\ w \in Int /\ Divides(G, w)
    BY <1>6, <1>7, <1>8, <1>9
  <1> HIDE DEF u, v, w
  <1>11. Cong(u, v, G)
    BY <1>0, <1>8, <1>10, CongDown
  <1>12. Cong(v, 1, G)
    BY <1>8, <1>10, CongDown
  <1>13. Cong(u, 1, G)
    BY <1>8, <1>11, <1>12, CongOn
  <1> QED
    BY <1>5, <1>13 DEF y, b, a, u, G

\* RecursiveInverseModPower2 finds the inverse of an odd m.
LEMMA RadixInverse ==
    ASSUME NEW m \in Nat, m % 2 = 1
    PROVE  InverseModRadix(m) \in 0 .. Radix - 1 /\ Cong(InverseModRadix(m) * m, 1, Radix)
  <1> DEFINE D == Doublings
             X == 0 .. Radix - 1
             a == m % 8
             step(x) == (x * ((2 - x * m) % Radix)) % Radix
             g == [y \in X \X (1..D) |-> step(y[1])]
             Body(f) == [i \in 0..D |-> IF i = 0 THEN m % 8
                                        ELSE LET x == f[i - 1] IN (x * ((2 - x * m) % Radix)) % Radix]
             F == CHOOSE f : f = Body(f)
  <1>0. D \in Nat /\ Radix \in Nat \ {0} /\ 8 <= Radix
    <2>1. PICK k \in Nat : k >= 3 /\ Radix = Raised(2, k)
      BY RadixIs
    <2>2. Raised(2, 3) = 8
      <3>1. Raised(2, 0) = 1 /\ 3 * 1 = 3
        BY TwoIs, RaisedZero
      <3> QED
        BY <3>1, GrownZero DEF Grown
    <2>3. 3 \in Nat /\ 3 <= k
      BY <2>1
    <2>4. Raised(2, 3) <= Raised(2, k)
      BY <2>1, <2>3, TwoIs, RaisedMonotonic
    <2> QED
      BY <2>1, <2>2, <2>4, DoublingsAre, RadixIs
  <1> HIDE DEF D
  <1>1. a \in X
    BY <1>0
  <1>2. \A x \in X : step(x) \in X
    <2> SUFFICES ASSUME NEW x \in X PROVE step(x) \in X
      OBVIOUS
    <2> DEFINE s == (2 - x * m) % Radix
               p == x * s
    <2>1. 2 - x * m \in Int
      OBVIOUS
    <2>2. s \in Int
      <3> DEFINE z == 2 - x * m
      <3>1. z \in Int
        BY <2>1
      <3> HIDE DEF z
      <3>2. z % Radix \in 0 .. Radix - 1
        BY <1>0, <3>1, Division
      <3> QED
        BY <1>0, <3>2 DEF z
    <2> HIDE DEF s
    <2>3. p \in Int
      BY <1>0, <2>2
    <2> HIDE DEF p
    <2>4. p % Radix \in 0 .. Radix - 1
      BY <1>0, <2>3, Division
    <2> QED
      BY <2>4 DEF p, s
  <1>3. Closed(g, X, D)
    <2> HIDE DEF X, step
    <2> QED
      BY <1>2 DEF Closed
  <1>4. \E f \in [0..D -> X] : f[0] = a /\ \A i \in 1..D : f[i] = g[<<f[i - 1], i>>]
    <2> HIDE DEF g, X, a
    <2> QED
      BY <1>0, <1>1, <1>3, Recursion
  <1>5. PICK f \in [0..D -> X] : f[0] = a /\ \A i \in 1..D : f[i] = g[<<f[i - 1], i>>]
    BY <1>4
  <1>6. \A i \in 1..D : f[i] = step(f[i - 1])
    <2> SUFFICES ASSUME NEW i \in 1..D PROVE f[i] = step(f[i - 1])
      OBVIOUS
    <2>1. f[i - 1] \in X
      BY <1>0, <1>5
    <2> HIDE DEF X, step
    <2> QED
      BY <1>5, <2>1
  <1>7. f = Body(f)
    BY <1>5, <1>6
  <1>8. F = Body(F)
    <2> HIDE DEF Body
    <2> QED
      BY <1>7
  <1>9. InverseModRadix(m) = F[D]
    BY DEF InverseModRadix, D
  <1> HIDE DEF F
  <1>10. F[0] = a /\ \A i \in 1..D : F[i] = step(F[i - 1])
    <2>1. F[0] = a
      BY <1>0, <1>8
    <2>2. ASSUME NEW i \in 1..D
          PROVE  F[i] = step(F[i - 1])
      <3>1. i \in 0..D /\ i # 0
        BY <1>0
      <3>2. F[i] = Body(F)[i]
        BY <1>8
      <3> QED
        BY <3>1, <3>2
    <2> QED
      BY <2>1, <2>2
  <1> DEFINE S == {i \in 0..D : F[i] \in X /\ Cong(F[i] * m, 1, RightFor(i))}
  <1> HIDE DEF step
  <1>11. 0 \in S
    <2>1. Cong(a * m, 1, 8)
      BY OddSquare
    <2>2. Divides(RightFor(0), 8) /\ RightFor(0) \in Int /\ 8 \in Int
      <3>1. 0 \in Nat /\ 0 <= Doublings
        BY <1>0 DEF D
      <3>2. RightFor(0) \in Nat \ {0} /\ Divides(RightFor(0), Grown(0))
        BY <3>1, RightForIs DEF Divides
      <3> QED
        BY <3>2, GrownZero
    <2> DEFINE u == a * m
               G == RightFor(0)
    <2>3. Cong(u, 1, 8) /\ Divides(G, 8) /\ G \in Int /\ 8 \in Int
      BY <2>1, <2>2
    <2> HIDE DEF u, G
    <2>4. Cong(u, 1, G)
      BY <2>3, CongDown
    <2>5. Cong(F[0] * m, 1, RightFor(0)) /\ F[0] \in X
      BY <1>1, <1>10, <2>4 DEF u, G
    <2>6. 0 \in 0..D
      BY <1>0
    <2> HIDE DEF X, a
    <2> QED
      BY <2>5, <2>6
  <1>12. ASSUME NEW i \in 0 .. D - 1, i \in S
         PROVE  i + 1 \in S
    <2>1. i + 1 \in 1..D /\ (i + 1) - 1 = i /\ i + 1 \in 0..D /\ i \in Nat /\ i < Doublings
      BY <1>0 DEF D
    <2> DEFINE r == F[i]
    <2>2. F[i + 1] = step(r)
      BY <1>10, <2>1
    <2>3. r \in 0 .. Radix - 1 /\ Cong(r * m, 1, RightFor(i))
      BY <1>12
    <2> HIDE DEF r
    <2>4. step(r) \in 0 .. Radix - 1 /\ Cong(step(r) * m, 1, RightFor(i + 1))
      BY <2>1, <2>3, InverseStep DEF step
    <2> QED
      BY <2>1, <2>2, <2>4
  <1>13. 0..D \subseteq S
    <2> HIDE DEF S
    <2> QED
      BY <1>0, <1>11, <1>12, Upwards
  <1>14. F[D] \in X /\ Cong(F[D] * m, 1, RightFor(D))
    BY <1>0, <1>13
  <1>15. RightFor(D) = Radix
    BY <1>0 DEF RightFor, D
  <1> QED
    BY <1>9, <1>14, <1>15

\* A Montgomery representation of an odd modulus.
GoodRep(rep) ==
    /\ rep.m \in Nat \ {0} /\ rep.m < Radix
    /\ rep.u \in 0 .. Radix - 1 /\ Cong(rep.u * rep.m, 1, Radix)

\* Montgomery makes such a representation.
LEMMA RepOfOdd ==
    ASSUME NEW m \in Nat, m % 2 = 1, m < Radix
    PROVE  GoodRep(Montgomery(m)) /\ Montgomery(m).m = m
  <1>1. InverseModRadix(m) \in 0 .. Radix - 1 /\ Cong(InverseModRadix(m) * m, 1, Radix)
    BY RadixInverse
  <1>2. m # 0
    OBVIOUS
  <1>3. Montgomery(m).m = m /\ Montgomery(m).u = InverseModRadix(m)
    BY DEF Montgomery
  <1> QED
    BY <1>1, <1>2, <1>3 DEF GoodRep

\* The result of a reduction is x / Radix modulo m, and in range.
LEMMA ReduceIs ==
    ASSUME NEW rep, GoodRep(rep), NEW x \in Nat, x < rep.m * Radix
    PROVE  /\ MontgomeryReduce(x, rep) \in 0 .. rep.m - 1
           /\ Cong(MontgomeryReduce(x, rep) * Radix, x, rep.m)
  <1> DEFINE m == rep.m
             u == rep.u
             low == x % Radix
             high == x \div Radix
             lu == low * u
             r == lu % Radix
             rm == r * m
             less == rm \div Radix
             lw == rm % Radix
  <1>1. /\ m \in Nat \ {0} /\ m < Radix /\ u \in Nat /\ Cong(u * m, 1, Radix)
        /\ Radix \in Nat \ {0} /\ x < m * Radix
    BY RadixIs DEF GoodRep
  <1>2. MontgomeryReduce(x, rep) = IF high >= less THEN high - less ELSE high - less + m
    BY DEF MontgomeryReduce
  <1> HIDE DEF m, u
  <1>3. low \in 0 .. Radix - 1 /\ high \in Nat /\ x = high * Radix + low
    <2>1. x \in Int
      OBVIOUS
    <2>2. low \in 0 .. Radix - 1 /\ x = high * Radix + low
      BY <1>1, <2>1, Division
    <2> QED
      BY <1>1, <2>2, DivNat
  <1> HIDE DEF low, high
  <1>4. lu \in Nat
    BY <1>1, <1>3
  <1>5. Cong(lu * m, low, Radix)
    <2>1. Cong(low, low, Radix)
      BY <1>1, <1>3, CongSelf
    <2>2. Cong(low * (u * m), low * 1, Radix)
      BY <1>1, <2>1, CongTimes
    <2>3. low * (u * m) = lu * m /\ low * 1 = low
      BY <1>1, <1>3
    <2> QED
      BY <2>2, <2>3
  <1> HIDE DEF lu
  <1>6. r \in 0 .. Radix - 1 /\ Cong(r, lu, Radix)
    <2>1. lu \in Int
      BY <1>4
    <2> QED
      BY <1>1, <2>1, Division, CongMod
  <1> HIDE DEF r
  <1>7. rm \in Nat
    BY <1>1, <1>6
  <1>8. Cong(rm, low, Radix)
    <2>1. Cong(m, m, Radix)
      BY <1>1, CongSelf
    <2>4. Radix \in Int /\ Cong(r, lu, Radix)
      BY <1>1, <1>6
    <2>2. Cong(r * m, lu * m, Radix)
      BY <2>1, <2>4, CongTimes
    <2> DEFINE v == lu * m
    <2>3. Cong(rm, v, Radix) /\ Cong(v, low, Radix)
      BY <1>5, <2>2
    <2> HIDE DEF v, rm
    <2> QED
      BY <1>1, <2>3, CongOn
  <1>9. r * m < m * Radix
    BY <1>1, <1>6
  <1>10. rm < m * Radix
    BY <1>9
  <1>11. rm = r * m
    OBVIOUS
  <1> HIDE DEF rm
  <1>12. less \in Nat /\ lw \in 0 .. Radix - 1 /\ rm = less * Radix + lw
    <2>1. rm \in Int
      BY <1>7
    <2>2. lw \in 0 .. Radix - 1 /\ rm = less * Radix + lw
      BY <1>1, <2>1, Division
    <2> QED
      BY <1>1, <1>7, <2>2, DivNat
  <1>13. lw = low
    <2>1. rm \in Int
      BY <1>7
    <2>2. Cong(lw, rm, Radix)
      BY <1>1, <2>1, CongMod
    <2> HIDE DEF lw
    <2>3. Cong(lw, low, Radix)
      BY <1>1, <1>8, <2>2, CongOn
    <2> QED
      BY <1>1, <1>3, <1>12, <2>3, CongSame
  <1> HIDE DEF less, lw
  <1>14. high < m
    <2> SUFFICES ASSUME m <= high PROVE FALSE
      BY <1>1, <1>3
    <2>1. m * Radix <= high * Radix /\ high * Radix \in Nat /\ m * Radix \in Nat
      BY <1>1, <1>3
    <2> QED
      BY <1>1, <1>3, <2>1
  <1>15. less < m
    <2> SUFFICES ASSUME m <= less PROVE FALSE
      BY <1>1, <1>12
    <2>1. m * Radix <= less * Radix /\ less * Radix \in Nat /\ m * Radix \in Nat
      BY <1>1, <1>12
    <2> QED
      BY <1>10, <1>12, <2>1
  <1> DEFINE y == IF high >= less THEN high - less ELSE high - less + m
  <1>16. y \in 0 .. m - 1
    BY <1>1, <1>3, <1>12, <1>14, <1>15
  <1>17. (high - less) * Radix = x + (- r) * m
    <2>1. (high - less) * Radix = high * Radix - less * Radix /\ (- r) * m = - (r * m)
      BY <1>1, <1>3, <1>6, <1>12
    <2>2. high * Radix \in Int /\ less * Radix \in Int /\ r * m \in Int
      BY <1>1, <1>3, <1>6, <1>12
    <2>3. x - rm = high * Radix - less * Radix
      BY <1>3, <1>12, <1>13, <2>2
    <2> QED
      BY <1>7, <1>11, <2>1, <2>2, <2>3
  <1>18. (high - less + m) * Radix = x + (Radix - r) * m
    <2>1. (high - less + m) * Radix = (high - less) * Radix + m * Radix
      BY <1>1, <1>3, <1>12
    <2>2. (Radix - r) * m = m * Radix + (- r) * m
      BY <1>1, <1>6
    <2>3. (high - less) * Radix \in Int /\ m * Radix \in Int /\ (- r) * m \in Int
      BY <1>1, <1>3, <1>6, <1>12
    <2> QED
      BY <1>17, <2>1, <2>2, <2>3
  <1>19. Cong(y * Radix, x, m)
    <2> DEFINE z == y * Radix
    <2>1. z \in Int
      <3> HIDE DEF y
      <3> QED
        BY <1>1, <1>16
    <2>2. \E q \in Int : z = x + q * m
      <3>1. CASE high >= less
        <4>1. z = x + (- r) * m /\ - r \in Int
          BY <1>6, <1>17, <3>1
        <4> QED
          BY <4>1
      <3>2. CASE ~(high >= less)
        <4>1. z = x + (Radix - r) * m /\ Radix - r \in Int
          BY <1>1, <1>6, <1>18, <3>2
        <4> QED
          BY <4>1
      <3> QED
        BY <3>1, <3>2
    <2> HIDE DEF z
    <2>3. Cong(z, x, m)
      BY <2>1, <2>2 DEF Cong
    <2> QED
      BY <2>3 DEF z
  <1>20. MontgomeryReduce(x, rep) = y
    BY <1>2
  <1> HIDE DEF y
  <1> QED
    BY <1>16, <1>19, <1>20 DEF m

\* a stands for the number x in the representation.
Holds(a, x, rep) == a \in 0 .. rep.m - 1 /\ x \in Int /\ Cong(a, x * Radix, rep.m)

\* Radix has an inverse modulo m, so it can be cancelled.
LEMMA CancelRadix ==
    ASSUME NEW rep, GoodRep(rep), NEW a \in Int, NEW b \in Int,
           Cong(a * Radix, b * Radix, rep.m)
    PROVE  Cong(a, b, rep.m)
  <1> DEFINE m == rep.m
             u == rep.u
  <1>1. m \in Int /\ u \in Int /\ Radix \in Int
    BY RadixIs DEF GoodRep
  <1>2. PICK t \in Int : u * m = 1 + t * Radix
    BY DEF GoodRep, Cong
  <1>3. PICK q \in Int : a * Radix = b * Radix + q * m
    BY DEF Cong
  <1> HIDE DEF m, u
  <1> DEFINE d == a - b
             e == d * u - t * q
  <1>4. d \in Int /\ e \in Int /\ d * Radix = q * m
    <2>1. d * Radix = a * Radix - b * Radix /\ a * Radix \in Int /\ b * Radix \in Int /\ q * m \in Int
      BY <1>1
    <2> QED
      BY <1>1, <1>3, <2>1
  <1>5. d = e * m
    <2>1. d * (u * m) = d + t * (d * Radix)
      <3>1. d * (1 + t * Radix) = d + t * (d * Radix)
        BY <1>1, <1>4
      <3> QED
        BY <1>2, <3>1
    <2>2. e * m = d * (u * m) - t * (q * m)
      BY <1>1, <1>4
    <2> DEFINE v == t * (q * m)
    <2>3. v \in Int /\ t * (d * Radix) = v
      BY <1>1, <1>4
    <2> HIDE DEF v, d
    <2> QED
      BY <1>4, <2>1, <2>2, <2>3 DEF v
  <1>6. a = b + e * m
    <2> DEFINE w == e * m
    <2>1. d = w
      BY <1>5
    <2> HIDE DEF w
    <2>2. a - b = w
      BY <2>1
    <2>3. a = b + w
      BY <1>4, <2>1, <2>2
    <2> QED
      BY <2>3 DEF w
  <1> HIDE DEF e
  <1>7. Cong(a, b, m)
    BY <1>1, <1>4, <1>6, CongFrom
  <1> QED
    BY <1>7 DEF m

\* The product of what two numbers hold.
LEMMA MultiplyHolds ==
    ASSUME NEW rep, GoodRep(rep), NEW a, NEW b, NEW x, NEW y, Holds(a, x, rep), Holds(b, y, rep)
    PROVE  Holds(Multiply(a, b, rep), x * y, rep)
  <1> DEFINE m == rep.m
             p == a * b
             z == MontgomeryReduce(p, rep)
  <1>1. /\ m \in Nat \ {0} /\ m < Radix /\ Radix \in Nat \ {0} /\ Radix \in Int /\ m \in Int
        /\ a \in 0 .. m - 1 /\ b \in 0 .. m - 1 /\ x \in Int /\ y \in Int
        /\ Cong(a, x * Radix, m) /\ Cong(b, y * Radix, m)
    BY RadixIs DEF GoodRep, Holds
  <1>2. p \in Nat /\ p < m * Radix
    <2> HIDE DEF m
    <2>1. a * b \in Nat /\ a * b <= a * Radix /\ a * Radix < m * Radix /\ a * Radix \in Nat
      BY <1>1
    <2> QED
      BY <1>1, <2>1
  <1>3. z \in 0 .. m - 1 /\ Cong(z * Radix, p, m)
    <2> HIDE DEF p
    <2> QED
      BY <1>2, ReduceIs
  <1> HIDE DEF z, m
  <1> DEFINE k == (x * y) * Radix
             zr == z * Radix
             kr == k * Radix
  <1>4. Cong(p, kr, m)
    <2>1. Cong(a * b, (x * Radix) * (y * Radix), m)
      BY <1>1, CongTimes
    <2>2. (x * Radix) * (y * Radix) = kr
      BY <1>1
    <2> QED
      BY <2>1, <2>2
  <1>5. Cong(zr, p, m)
    BY <1>3
  <1>6. k \in Int /\ z \in Int
    BY <1>1, <1>3
  <1> HIDE DEF k, p
  <1>7. Cong(zr, kr, m)
    <2> HIDE DEF zr, kr
    <2> QED
      BY <1>1, <1>4, <1>5, CongOn
  <1>8. Cong(z, k, m)
    BY <1>6, <1>7, CancelRadix DEF m
  <1>9. x * y \in Int
    BY <1>1
  <1> QED
    BY <1>3, <1>8, <1>9 DEF Holds, Multiply, z, p, k, m

\* What is converted in holds itself.
LEMMA ConvertInHolds ==
    ASSUME NEW rep, GoodRep(rep), NEW a \in Int
    PROVE  Holds(ConvertIn(a, rep), a, rep)
  <1> DEFINE m == rep.m
             s == Radix % m
             p == a * s
  <1>1. m \in Nat \ {0} /\ m \in Int /\ Radix \in Int
    BY RadixIs DEF GoodRep
  <1> HIDE DEF m
  <1>2. s \in 0 .. m - 1 /\ Cong(s, Radix, m)
    BY <1>1, Division, CongMod
  <1> HIDE DEF s
  <1>3. p \in Int
    BY <1>1, <1>2
  <1>4. Cong(p, a * Radix, m)
    <2>1. Cong(a, a, m)
      BY <1>1, CongSelf
    <2> QED
      BY <1>1, <1>2, <2>1, CongTimes
  <1> HIDE DEF p
  <1>5. p % m \in 0 .. m - 1 /\ Cong(p % m, p, m)
    BY <1>1, <1>3, Division, CongMod
  <1> DEFINE z == p % m
             k == a * Radix
  <1>6. Cong(z, k, m)
    <2>1. Cong(z, p, m) /\ Cong(p, k, m)
      BY <1>4, <1>5
    <2> HIDE DEF z, k
    <2> QED
      BY <1>1, <2>1, CongOn
  <1> QED
    BY <1>5, <1>6 DEF Holds, ConvertIn, p, s, m

\* Identity holds 1.
LEMMA IdentityHolds ==
    ASSUME NEW rep, GoodRep(rep)
    PROVE  Holds(Identity(rep), 1, rep)
  <1> DEFINE m == rep.m
             s == Radix % m
  <1>1. m \in Nat \ {0} /\ m \in Int /\ Radix \in Int /\ 1 * Radix = Radix /\ 1 \in Int
    BY RadixIs DEF GoodRep
  <1> HIDE DEF m
  <1>2. s \in 0 .. m - 1 /\ Cong(s, Radix, m)
    BY <1>1, Division, CongMod
  <1> QED
    BY <1>1, <1>2 DEF Holds, Identity, s, m

\* What is converted out is the number held, modulo m.
LEMMA ConvertOutHolds ==
    ASSUME NEW rep, GoodRep(rep), NEW a, NEW x, Holds(a, x, rep)
    PROVE  ConvertOut(a, rep) = x % rep.m
  <1> DEFINE m == rep.m
             z == MontgomeryReduce(a, rep)
             y == x % m
             xr == x * Radix
             zr == z * Radix
  <1>1. /\ m \in Nat \ {0} /\ m \in Int /\ Radix \in Nat \ {0} /\ Radix \in Int
        /\ a \in 0 .. m - 1 /\ x \in Int /\ Cong(a, xr, m)
    BY RadixIs DEF GoodRep, Holds
  <1>2. a \in Nat /\ a < m * Radix
    <2> HIDE DEF m, xr
    <2>1. m <= m * Radix /\ m * Radix \in Nat
      BY <1>1
    <2> QED
      BY <1>1, <2>1
  <1>3. z \in 0 .. m - 1 /\ Cong(zr, a, m)
    BY <1>2, ReduceIs
  <1> HIDE DEF z, m
  <1>4. Cong(zr, xr, m)
    <2> HIDE DEF zr, xr
    <2> QED
      BY <1>1, <1>3, CongOn
  <1>5. Cong(z, x, m)
    <2>1. z \in Int
      BY <1>1, <1>3
    <2> QED
      BY <1>1, <1>4, <2>1, CancelRadix DEF m
  <1>6. y \in 0 .. m - 1 /\ Cong(x, y, m)
    BY <1>1, Division, CongMod
  <1> HIDE DEF y
  <1>7. Cong(z, y, m)
    BY <1>1, <1>5, <1>6, CongOn
  <1>8. z = y
    BY <1>1, <1>3, <1>6, <1>7, CongSame
  <1> QED
    BY <1>8 DEF ConvertOut, z, y, m

-----------------------------------------------------------------------------
(* Windows *)

\* A positive number is an odd one shifted by its zeros at the end.
LEMMA ZerosAre ==
    ASSUME NEW n \in Nat \ {0}
    PROVE  /\ TrailingZeros(n) \in Nat
           /\ n \div Raised(2, TrailingZeros(n)) \in Nat \ {0}
           /\ n = (n \div Raised(2, TrailingZeros(n))) * Raised(2, TrailingZeros(n))
           /\ (n \div Raised(2, TrailingZeros(n))) % 2 = 1
  <1> DEFINE T == {k \in Nat : n % Raised(2, k + 1) # 0}
  <1>1. n \in T
    <2> DEFINE r == Raised(2, n + 1)
    <2>1. n + 1 \in Nat /\ n + 1 < r /\ r \in Nat \ {0}
      <3> DEFINE j == n + 1
      <3>1. j \in Nat
        OBVIOUS
      <3> HIDE DEF j
      <3>2. j < Raised(2, j) /\ Raised(2, j) \in Nat \ {0}
        BY <3>1, TwoIs, RaisedNat
      <3> QED
        BY <3>1, <3>2 DEF j
    <2> HIDE DEF r
    <2>2. n = 0 * r + n /\ n \in 0 .. r - 1 /\ 0 \in Int
      BY <2>1
    <2>3. n % r = n
      BY <2>1, <2>2, QuotientOf
    <2> QED
      BY <2>3 DEF r
  <1>2. PICK k \in T : \A j \in T : k <= j
    <2>1. T \in SUBSET Nat /\ T # {}
      BY <1>1
    <2> HIDE DEF T
    <2> QED
      BY <2>1, LeastExists
  <1>3. k \in 0..n
    BY <1>1, <1>2
  <1>4. n % Raised(2, k) = 0
    <2>1. CASE k = 0
      <3>1. Raised(2, k) = 1 /\ n % 1 = 0
        BY <2>1, TwoIs, RaisedZero
      <3> QED
        BY <3>1
    <2>2. CASE k # 0
      <3>1. k - 1 \in Nat /\ k - 1 \notin T /\ (k - 1) + 1 = k
        BY <1>2, <1>3, <2>2
      <3>2. n % Raised(2, (k - 1) + 1) = 0
        BY <3>1
      <3> QED
        BY <3>1, <3>2
    <2> QED
      BY <2>1, <2>2
  <1>5. \E i \in 0..n : n % Raised(2, i) = 0 /\ n % Raised(2, i + 1) # 0
    BY <1>2, <1>3, <1>4
  <1> DEFINE z == TrailingZeros(n)
             r == Raised(2, z)
             q == n \div r
  <1>6. z \in 0..n /\ n % r = 0 /\ n % Raised(2, z + 1) # 0
    BY <1>5 DEF TrailingZeros
  <1> HIDE DEF z
  <1>7. z \in Nat /\ r \in Nat \ {0} /\ Raised(2, z + 1) = 2 * r
    BY <1>6, TwoIs, RaisedNat, RaisedNext
  <1> HIDE DEF r
  <1>8. n = q * r /\ q \in Nat
    <2>1. n \in Int
      OBVIOUS
    <2>2. n = q * r + (n % r)
      BY <1>7, <2>1, Division
    <2>3. q \in Nat
      BY <1>7, DivNat
    <2> HIDE DEF q
    <2>4. q * r \in Nat
      BY <1>7, <2>3
    <2> QED
      BY <1>6, <2>2, <2>3, <2>4
  <1> HIDE DEF q
  <1>9. q # 0
    BY <1>7, <1>8
  <1>10. q % 2 = 1
    <2> SUFFICES ASSUME q % 2 = 0 PROVE FALSE
      BY <1>8
    <2> DEFINE s == q \div 2
               d == 2 * r
    <2>1. q = s * 2 /\ s \in Int
      BY <1>8
    <2> HIDE DEF s
    <2>2. n = s * d + 0
      BY <1>7, <1>8, <2>1
    <2>3. d \in Nat \ {0} /\ 0 \in 0 .. d - 1
      BY <1>7
    <2> HIDE DEF d
    <2>4. n % d = 0
      BY <2>1, <2>2, <2>3, QuotientOf
    <2> QED
      BY <1>6, <1>7, <2>4 DEF d
  <1> QED
    BY <1>7, <1>8, <1>9, <1>10 DEF q, r, z

\* A window has at least one bit.
LEMMA WindowSizeIs ==
    ASSUME NEW e \in Nat
    PROVE  WindowSize(e) \in Nat \ {0}
  <1> DEFINE T == {i \in DOMAIN WindowLimits : BitCount(e) > WindowLimits[i]}
  <1>1. DOMAIN WindowLimits = 1..Len(WindowLimits) /\ Len(WindowLimits) \in Nat
    BY ModArithAssumption
  <1>2. IsFiniteSet(1..Len(WindowLimits))
    <2>1. 1 \in Int /\ Len(WindowLimits) \in Int
      BY <1>1
    <2> QED
      BY <2>1, FS_Interval
  <1>3. T \subseteq 1..Len(WindowLimits)
    BY <1>1
  <1>4. IsFiniteSet(T)
    <2> HIDE DEF T
    <2> QED
      BY <1>2, <1>3, FS_Subset
  <1>5. Cardinality(T) \in Nat
    <2> HIDE DEF T
    <2> QED
      BY <1>4, FS_CardinalityType
  <1> QED
    BY <1>5 DEF WindowSize

\* The exponent as far as a slider has it, with the window it stands at.
Sliders == [exp : Nat, windowBegin : Nat, expWindow : Nat, windowSize : Nat, finished : BOOLEAN]

\* The next window begins with a 1, and only zeros lie before it.
LEMMA NextWindowIs ==
    ASSUME NEW w \in Sliders, NEW skip \in Nat
    PROVE  LET v    == FindNextWindow(w, skip)
               rest == w.exp \div Raised(2, skip)
           IN  /\ v \in Sliders /\ v.windowSize = w.windowSize /\ rest \in Nat
               /\ rest = 0 => v.finished
               /\ rest # 0 => /\ v.finished = w.finished /\ v.exp % 2 = 1
                              /\ v.expWindow = v.exp % Raised(2, w.windowSize)
                              /\ w.windowBegin + skip <= v.windowBegin
                              /\ v.exp * Raised(2, v.windowBegin)
                                    = rest * Raised(2, w.windowBegin + skip)
  <1> DEFINE v    == FindNextWindow(w, skip)
             rest == w.exp \div Raised(2, skip)
             z    == TrailingZeros(rest)
             next == rest \div Raised(2, z)
             win  == next % Raised(2, w.windowSize)
  <1>1. /\ w.exp \in Nat /\ w.windowBegin \in Nat /\ w.expWindow \in Nat /\ w.windowSize \in Nat
        /\ w.finished \in BOOLEAN
    BY DEF Sliders
  <1>2. rest \in Nat
    <2>1. Raised(2, skip) \in Nat \ {0}
      BY TwoIs, RaisedNat
    <2> QED
      BY <1>1, <2>1, DivNat
  <1>3. v = IF rest = 0 THEN [w EXCEPT !.finished = TRUE]
            ELSE [w EXCEPT !.exp = next, !.windowBegin = @ + skip + z, !.expWindow = win]
    BY DEF FindNextWindow
  <1> HIDE DEF rest, v
  <1>4. CASE rest = 0
    <2>1. v = [w EXCEPT !.finished = TRUE]
      BY <1>3, <1>4
    <2>2. v \in Sliders /\ v.windowSize = w.windowSize /\ v.finished
      BY <2>1 DEF Sliders
    <2> QED
      BY <1>2, <1>4, <2>2 DEF v, rest
  <1>5. CASE rest # 0
    <2>1. z \in Nat /\ next \in Nat \ {0} /\ rest = next * Raised(2, z) /\ next % 2 = 1
      BY <1>2, <1>5, ZerosAre
    <2>2. win \in Nat
      <3>1. Raised(2, w.windowSize) \in Nat \ {0}
        BY <1>1, TwoIs, RaisedNat
      <3> HIDE DEF next
      <3> QED
        BY <2>1, <3>1
    <2>3. v = [w EXCEPT !.exp = next, !.windowBegin = @ + skip + z, !.expWindow = win]
      BY <1>3, <1>5
    <2> DEFINE b == w.windowBegin + skip
    <2>4. v = [w EXCEPT !.exp = next, !.windowBegin = b + z, !.expWindow = win]
      BY <1>1, <2>3
    <2>5. b \in Nat /\ b + z \in Nat
      BY <1>1, <2>1
    <2> HIDE DEF z, next, win, b
    <2>6. /\ v \in Sliders /\ v.windowSize = w.windowSize /\ v.finished = w.finished
          /\ v.exp = next /\ v.windowBegin = b + z /\ v.expWindow = win
      BY <2>1, <2>2, <2>4, <2>5 DEF Sliders
    <2>7. b <= v.windowBegin
      BY <2>1, <2>5, <2>6
    <2>8. v.exp * Raised(2, v.windowBegin) = rest * Raised(2, b)
      <3>1. Raised(2, b + z) = Raised(2, b) * Raised(2, z)
        BY <2>1, <2>5, TwoIs, RaisedPlus
      <3>2. Raised(2, b) \in Int /\ Raised(2, z) \in Int
        BY <2>1, <2>5, TwoIs, RaisedNext
      <3> DEFINE x == Raised(2, b)
                 y == Raised(2, z)
      <3>3. next * (x * y) = (next * y) * x
        <4> HIDE DEF x, y
        <4>1. x \in Int /\ y \in Int
          BY <3>2 DEF x, y
        <4> QED
          BY <2>1, <4>1
      <3> QED
        BY <2>1, <2>6, <3>1, <3>3
    <2> QED
      BY <1>2, <1>5, <2>1, <2>6, <2>7, <2>8 DEF v, rest, win, b
  <1> QED
    BY <1>4, <1>5

-----------------------------------------------------------------------------
(* Buckets *)

\* The exponents E of the buckets 0..n: s[j] adds up those from j on, t[j] those sums,
\* and total is what they come to with bucket j counted 2j + 1 times.
Weighs(E, s, t, n, total) ==
    /\ E \in [0..n -> Nat] /\ s \in [0..n -> Nat] /\ t \in [1 .. n + 1 -> Nat]
    /\ s[n] = E[n] /\ \A j \in 0 .. n - 1 : s[j] = E[j] + s[j + 1]
    /\ t[n + 1] = 0 /\ \A j \in 1..n : t[j] = t[j + 1] + s[j]
    /\ total = 2 * t[1] + s[0]

\* With d more in bucket k, it comes to 2k + 1 times d more.
LEMMA WeighsMore ==
    ASSUME NEW n \in Nat, NEW E, NEW s, NEW t, NEW total, Weighs(E, s, t, n, total),
           NEW k \in 0..n, NEW d \in Nat
    PROVE  /\ total \in Nat
           /\ \E v, u : Weighs([E EXCEPT ![k] = @ + d], v, u, n, total + (2 * k + 1) * d)
  <1> DEFINE D == [E EXCEPT ![k] = @ + d]
             v == [j \in 0..n |-> s[j] + (IF j <= k THEN d ELSE 0)]
             c(j) == IF j <= k THEN (k - j + 1) * d ELSE 0
             u == [j \in 1 .. n + 1 |-> t[j] + c(j)]
  <1>1. /\ E \in [0..n -> Nat] /\ s \in [0..n -> Nat] /\ t \in [1 .. n + 1 -> Nat]
        /\ s[n] = E[n] /\ \A j \in 0 .. n - 1 : s[j] = E[j] + s[j + 1]
        /\ t[n + 1] = 0 /\ \A j \in 1..n : t[j] = t[j + 1] + s[j]
        /\ total = 2 * t[1] + s[0]
    BY DEF Weighs
  <1>2. \A j \in 1 .. n + 1 : c(j) \in Nat
    <2> SUFFICES ASSUME NEW j \in 1 .. n + 1, j <= k PROVE (k - j + 1) * d \in Nat
      OBVIOUS
    <2>1. k - j + 1 \in Nat
      OBVIOUS
    <2> QED
      BY <2>1
  <1>3. D \in [0..n -> Nat] /\ v \in [0..n -> Nat] /\ u \in [1 .. n + 1 -> Nat]
    <2>1. D \in [0..n -> Nat]
      <3>1. DOMAIN E = 0..n /\ DOMAIN D = 0..n /\ \A j \in 0..n : E[j] \in Nat
        BY <1>1
      <3>2. \A j \in 0..n : D[j] = IF j = k THEN E[j] + d ELSE E[j]
        BY <3>1
      <3>3. \A j \in 0..n : D[j] \in Nat
        <4> HIDE DEF D
        <4> QED
          BY <3>1, <3>2
      <3>4. D = [j \in 0..n |-> D[j]]
        BY <3>1
      <3> HIDE DEF D
      <3> QED
        BY <3>3, <3>4
    <2>2. v \in [0..n -> Nat]
      <3>1. \A j \in 0..n : s[j] \in Nat
        BY <1>1
      <3>2. \A j \in 0..n : s[j] + (IF j <= k THEN d ELSE 0) \in Nat
        BY <3>1
      <3> QED
        BY <3>2
    <2>3. u \in [1 .. n + 1 -> Nat]
      <3>1. \A j \in 1 .. n + 1 : t[j] \in Nat
        BY <1>1
      <3> HIDE DEF c
      <3>2. \A j \in 1 .. n + 1 : t[j] + c(j) \in Nat
        BY <1>2, <3>1
      <3> QED
        BY <3>2
    <2> QED
      BY <2>1, <2>2, <2>3
  <1>4. v[n] = D[n]
    <2>1. n \in 0..n /\ n \in DOMAIN E /\ E[n] \in Nat /\ s[n] = E[n]
      BY <1>1
    <2>2. v[n] = s[n] + (IF n <= k THEN d ELSE 0)
      BY <2>1
    <2>3. D[n] = IF n = k THEN E[n] + d ELSE E[n]
      BY <2>1
    <2> HIDE DEF v, D
    <2> QED
      BY <2>1, <2>2, <2>3
  <1>5. ASSUME NEW j \in 0 .. n - 1
        PROVE  v[j] = D[j] + v[j + 1]
    <2>1. j \in 0..n /\ j + 1 \in 0..n
      OBVIOUS
    <2>2. s[j] = E[j] + s[j + 1] /\ s[j + 1] \in Nat /\ E[j] \in Nat
      BY <1>1, <2>1
    <2>3. D[j] = E[j] + (IF j = k THEN d ELSE 0)
      <3>1. j \in DOMAIN E
        BY <1>1, <2>1
      <3>2. CASE j = k
        <4>1. D[j] = E[j] + d
          BY <3>1, <3>2
        <4> QED
          BY <3>2, <4>1
      <3>3. CASE j # k
        <4>1. D[j] = E[j]
          BY <3>1, <3>3
        <4> QED
          BY <2>2, <3>3, <4>1
      <3> QED
        BY <3>2, <3>3
    <2>4. v[j] = s[j] + (IF j <= k THEN d ELSE 0) /\ v[j + 1] = s[j + 1] + (IF j + 1 <= k THEN d ELSE 0)
      BY <2>1
    <2> HIDE DEF D, v
    <2> QED
      BY <2>1, <2>2, <2>3, <2>4
  <1>6. u[n + 1] = 0
    <2>1. n + 1 \in 1 .. n + 1 /\ ~(n + 1 <= k)
      OBVIOUS
    <2> QED
      BY <1>1, <2>1
  <1>7. ASSUME NEW j \in 1..n
        PROVE  u[j] = u[j + 1] + v[j]
    <2>1. j \in 0..n /\ j \in 1 .. n + 1 /\ j + 1 \in 1 .. n + 1
      OBVIOUS
    <2>2. c(j) = c(j + 1) + (IF j <= k THEN d ELSE 0)
      <3>1. CASE j <= k
        <4>1. (k - j + 1) * d = (k - (j + 1) + 1) * d + d
          OBVIOUS
        <4>2. ~(j + 1 <= k) => j = k /\ (k - j + 1) * d = d
          BY <3>1
        <4>3. CASE j + 1 <= k
          BY <3>1, <4>1, <4>3
        <4>4. CASE ~(j + 1 <= k)
          BY <3>1, <4>2, <4>4
        <4> QED
          BY <4>3, <4>4
      <3>2. CASE ~(j <= k)
        <4>1. ~(j + 1 <= k)
          BY <3>2
        <4> QED
          BY <3>2, <4>1
      <3> QED
        BY <3>1, <3>2
    <2>3. t[j] = t[j + 1] + s[j] /\ s[j] \in Nat /\ t[j + 1] \in Nat
      BY <1>1, <2>1
    <2>4. c(j + 1) \in Nat
      BY <1>2, <2>1
    <2>5. u[j] = t[j] + c(j) /\ u[j + 1] = t[j + 1] + c(j + 1) /\ v[j] = s[j] + (IF j <= k THEN d ELSE 0)
      BY <2>1
    <2> HIDE DEF u, v, c
    <2> QED
      BY <2>2, <2>3, <2>4, <2>5
  <1>8. total + (2 * k + 1) * d = 2 * u[1] + v[0] /\ total \in Nat
    <2>1. t[1] \in Nat /\ s[0] \in Nat /\ 1 \in 1 .. n + 1 /\ 0 \in 0..n /\ 0 <= k
      BY <1>1
    <2>2. v[0] = s[0] + d /\ u[1] = t[1] + c(1)
      BY <2>1
    <2>3. c(1) = k * d
      <3>1. CASE 1 <= k
        <4>1. k - 1 + 1 = k
          OBVIOUS
        <4> QED
          BY <3>1, <4>1
      <3>2. CASE ~(1 <= k)
        <4>1. k = 0 /\ k * d = 0
          BY <3>2
        <4> QED
          BY <3>2, <4>1
      <3> QED
        BY <3>1, <3>2
    <2>4. (2 * k + 1) * d = 2 * (k * d) + d /\ k * d \in Nat
      OBVIOUS
    <2> DEFINE kd == k * d
               more == (2 * k + 1) * d
    <2>5. /\ more = 2 * kd + d /\ kd \in Nat /\ c(1) = kd /\ total = 2 * t[1] + s[0]
          /\ t[1] \in Nat /\ s[0] \in Nat /\ v[0] = s[0] + d /\ u[1] = t[1] + c(1)
      BY <1>1, <2>1, <2>2, <2>3, <2>4
    <2> HIDE DEF u, v, c, kd, more
    <2>6. total + more = 2 * u[1] + v[0] /\ total \in Nat
      BY <2>5
    <2> QED
      BY <2>6 DEF more
  <1> HIDE DEF D, v, u
  <1>9. Weighs(D, v, u, n, total + (2 * k + 1) * d)
    BY <1>3, <1>4, <1>5, <1>6, <1>7, <1>8 DEF Weighs
  <1>10. \E a, b : Weighs(D, a, b, n, total + (2 * k + 1) * d)
    BY <1>9
  <1> QED
    BY <1>8, <1>10 DEF D

\* The buckets 0..n hold powers of x; bucket j counted 2j + 1 times, the power total.
Counted(bucket, total, n, x, rep) ==
    /\ DOMAIN bucket = 0..n
    /\ \E E, s, t : Weighs(E, s, t, n, total) /\ \A j \in 0..n : Holds(bucket[j], Raised(x, E[j]), rep)

\* The buckets as they begin.
LEMMA CountedEmpty ==
    ASSUME NEW rep, GoodRep(rep), NEW n \in Nat, NEW x \in Int
    PROVE  Counted([j \in 0..n |-> Identity(rep)], 0, n, x, rep)
  <1> DEFINE E == [j \in 0..n |-> 0]
             t == [j \in 1 .. n + 1 |-> 0]
             b == [j \in 0..n |-> Identity(rep)]
             zero == 0
  <1>1. Weighs(E, E, t, n, zero)
    BY DEF Weighs
  <1>2. \A j \in 0..n : Holds(b[j], Raised(x, E[j]), rep)
    BY IdentityHolds, RaisedZero
  <1>3. DOMAIN b = 0..n
    OBVIOUS
  <1> HIDE DEF E, t, b, zero
  <1>4. Counted(b, zero, n, x, rep)
    BY <1>1, <1>2, <1>3 DEF Counted
  <1> QED
    BY <1>4 DEF b, zero

\* A window's power goes to its bucket.
LEMMA CountedMore ==
    ASSUME NEW rep, GoodRep(rep), NEW n \in Nat, NEW x \in Int, NEW bucket, NEW total,
           Counted(bucket, total, n, x, rep),
           NEW k \in 0..n, NEW d \in Nat, NEW g, Holds(g, Raised(x, d), rep)
    PROVE  /\ total \in Nat
           /\ Counted([bucket EXCEPT ![k] = Multiply(@, g, rep)], total + (2 * k + 1) * d, n, x, rep)
  <1>1. DOMAIN bucket = 0..n
    BY DEF Counted
  <1>2. PICK E, s, t : Weighs(E, s, t, n, total) /\ \A j \in 0..n : Holds(bucket[j], Raised(x, E[j]), rep)
    BY DEF Counted
  <1> DEFINE D == [E EXCEPT ![k] = @ + d]
             b == [bucket EXCEPT ![k] = Multiply(@, g, rep)]
             more == total + (2 * k + 1) * d
  <1>3. total \in Nat /\ \E v, u : Weighs(D, v, u, n, more)
    BY <1>2, WeighsMore
  <1>4. E \in [0..n -> Nat]
    BY <1>2 DEF Weighs
  <1>5. ASSUME NEW j \in 0..n
        PROVE  Holds(b[j], Raised(x, D[j]), rep)
    <2> DEFINE e == E[j]
    <2>1. e \in Nat /\ Holds(bucket[j], Raised(x, e), rep)
      BY <1>2, <1>4
    <2>2. CASE j = k
      <3>1. b[j] = Multiply(bucket[j], g, rep) /\ D[j] = e + d
        BY <1>1, <1>4, <2>2
      <3>2. Raised(x, e + d) = Raised(x, e) * Raised(x, d)
        <4> HIDE DEF e
        <4> QED
          BY <2>1, RaisedPlus
      <3>3. Holds(Multiply(bucket[j], g, rep), Raised(x, e) * Raised(x, d), rep)
        <4> HIDE DEF e
        <4> QED
          BY <2>1, MultiplyHolds
      <3> QED
        BY <3>1, <3>2, <3>3
    <2>3. CASE j # k
      <3>1. b[j] = bucket[j] /\ D[j] = E[j]
        BY <1>1, <1>4, <2>3
      <3> QED
        BY <2>1, <3>1
    <2> QED
      BY <2>2, <2>3
  <1>6. DOMAIN b = 0..n
    BY <1>1
  <1> HIDE DEF D, b, more
  <1>7. Counted(b, more, n, x, rep)
    BY <1>3, <1>5, <1>6 DEF Counted
  <1> QED
    BY <1>3, <1>7 DEF b, more

\* The product of what is in range is in range.
LEMMA MultiplyInRange ==
    ASSUME NEW rep, GoodRep(rep), NEW a \in 0 .. rep.m - 1, NEW b \in 0 .. rep.m - 1
    PROVE  Multiply(a, b, rep) \in 0 .. rep.m - 1
  <1> DEFINE m == rep.m
             p == a * b
  <1>1. m \in Nat \ {0} /\ m < Radix /\ Radix \in Nat
    BY RadixIs DEF GoodRep
  <1>2. p \in Nat /\ p < m * Radix
    <2> HIDE DEF m
    <2>1. a * b \in Nat /\ a * b <= a * Radix /\ a * Radix < m * Radix /\ a * Radix \in Nat
      BY <1>1 DEF m
    <2> QED
      BY <1>1, <2>1
  <1> HIDE DEF p
  <1>3. MontgomeryReduce(p, rep) \in 0 .. rep.m - 1
    BY <1>2, ReduceIs DEF m
  <1> QED
    BY <1>3 DEF Multiply, p

\* EmptyBuckets' product of the buckets from j on,
IsDown(F, bucket, n, rep) ==
    F = CHOOSE f : f = [j \in 0..n |-> IF j = n THEN bucket[j] ELSE Multiply(bucket[j], f[j + 1], rep)]

\* and its steps.
DownSteps(F, bucket, n, rep) ==
    /\ F \in [0..n -> 0 .. rep.m - 1] /\ F[n] = bucket[n]
    /\ \A j \in 0 .. n - 1 : F[j] = Multiply(bucket[j], F[j + 1], rep)

\* Its recursion makes these steps.
LEMMA DownIs ==
    ASSUME NEW rep, GoodRep(rep), NEW n \in Nat, NEW bucket \in [0..n -> 0 .. rep.m - 1], NEW F,
           IsDown(F, bucket, n, rep)
    PROVE  DownSteps(F, bucket, n, rep)
  <1> DEFINE X == 0 .. rep.m - 1
             Body(f) == [j \in 0..n |-> IF j = n THEN bucket[j] ELSE Multiply(bucket[j], f[j + 1], rep)]
             g == [y \in X \X (0 .. n - 1) |-> Multiply(bucket[y[2]], y[1], rep)]
             a == bucket[n]
  <1>1. a \in X /\ 0 \in 0..n
    OBVIOUS
  <1>2. ClosedDown(g, X, 0, n)
    <2> SUFFICES ASSUME NEW x \in X, NEW i \in 0 .. n - 1 PROVE Multiply(bucket[i], x, rep) \in X
      BY DEF ClosedDown
    <2>1. bucket[i] \in X
      OBVIOUS
    <2> QED
      BY <2>1, MultiplyInRange
  <1>3. \E f \in [0..n -> X] : f[n] = a /\ \A i \in 0 .. n - 1 : f[i] = g[<<f[i + 1], i>>]
    <2> DEFINE zero == 0
    <2>1. zero \in 0..n
      OBVIOUS
    <2>2. ClosedDown(g, X, zero, n)
      BY <1>2
    <2>3. HasTurnsDown(g, X, a, zero, n)
      <3> HIDE DEF g, X, a, zero
      <3> QED
        BY <1>1, <2>1, <2>2, RecursionDown
    <2> HIDE DEF g, X, a
    <2> QED
      BY <2>3 DEF HasTurnsDown
  <1>4. PICK f \in [0..n -> X] : f[n] = a /\ \A i \in 0 .. n - 1 : f[i] = g[<<f[i + 1], i>>]
    BY <1>3
  <1>5. ASSUME NEW i \in 0 .. n - 1
        PROVE  f[i] = Multiply(bucket[i], f[i + 1], rep)
    <2>1. i + 1 \in 0..n
      OBVIOUS
    <2>2. f[i + 1] \in X
      BY <1>4, <2>1
    <2> HIDE DEF X
    <2> QED
      BY <1>4, <2>2
  <1>6. f = Body(f)
    <2> HIDE DEF X
    <2>1. \A j \in 0..n : f[j] = Body(f)[j]
      BY <1>4, <1>5
    <2>2. DOMAIN f = 0..n
      BY <1>4
    <2> QED
      BY <1>4, <2>1, <2>2
  <1>7. F = Body(F)
    <2> HIDE DEF Body
    <2>1. F = CHOOSE h : h = Body(h)
      BY DEF Body, IsDown
    <2> QED
      BY <1>6, <2>1
  <1>0. DOMAIN F = 0..n /\ \A j \in 0..n : F[j] = Body(F)[j]
    <2>1. DOMAIN Body(F) = 0..n
      OBVIOUS
    <2> HIDE DEF Body
    <2> QED
      BY <1>7, <2>1
  <1>8. F[n] = bucket[n] /\ \A j \in 0 .. n - 1 : F[j] = Multiply(bucket[j], F[j + 1], rep)
    <2>1. F[n] = bucket[n]
      <3>1. n \in 0..n
        OBVIOUS
      <3>2. F[n] = Body(F)[n]
        <4> HIDE DEF Body
        <4> QED
          BY <1>0, <3>1
      <3> QED
        BY <3>1, <3>2
    <2>2. ASSUME NEW j \in 0 .. n - 1
          PROVE  F[j] = Multiply(bucket[j], F[j + 1], rep)
      <3>1. j \in 0..n /\ j # n
        OBVIOUS
      <3>2. F[j] = Body(F)[j]
        <4> HIDE DEF Body
        <4> QED
          BY <1>0, <3>1
      <3>3. Body(F)[j] = Multiply(bucket[j], F[j + 1], rep)
        BY <3>1
      <3> QED
        BY <3>2, <3>3
    <2> QED
      BY <2>1, <2>2
  <1> DEFINE S == {j \in 0..n : F[j] \in X}
  <1>9. n \in S
    BY <1>8
  <1>10. ASSUME NEW j \in 0 .. n - 1, j + 1 \in S
         PROVE  j \in S
    <2>1. F[j + 1] \in X
      BY <1>10
    <2>6. bucket[j] \in X
      OBVIOUS
    <2>2. Multiply(bucket[j], F[j + 1], rep) \in X
      BY <2>1, <2>6, MultiplyInRange
    <2>3. F[j] = Multiply(bucket[j], F[j + 1], rep)
      BY <1>8
    <2>4. F[j] \in X
      BY <2>2, <2>3
    <2>5. j \in 0..n
      OBVIOUS
    <2> QED
      BY <2>4, <2>5
  <1>11. 0..n \subseteq S
    <2> DEFINE zero == 0
    <2>0. zero \in 0..n
      OBVIOUS
    <2>1. \A i \in zero .. n - 1 : i + 1 \in S => i \in S
      <3> HIDE DEF S
      <3> QED
        BY <1>10
    <2>2. zero..n \subseteq S
      <3> HIDE DEF S, zero
      <3> QED
        BY <1>9, <2>0, <2>1, Downwards
    <2> QED
      BY <2>2
  <1>12. F \in [0..n -> X]
    <2>1. F = [j \in 0..n |-> F[j]]
      <3> DEFINE B == Body(F)
      <3>1. B = [j \in 0..n |-> B[j]]
        OBVIOUS
      <3> HIDE DEF B
      <3> QED
        BY <1>7, <3>1 DEF B
    <2>2. \A j \in 0..n : F[j] \in X
      BY <1>11
    <2> HIDE DEF X
    <2> QED
      BY <2>1, <2>2
  <1> QED
    BY <1>8, <1>12 DEF DownSteps

\* The same for the product of those products.
IsUp(F, bucket, down, n, rep) ==
    F = CHOOSE f : f = [j \in 1..n |-> IF j = n THEN bucket[j] ELSE Multiply(f[j + 1], down[j], rep)]

\* The steps of that product.
UpSteps(F, bucket, down, n, rep) ==
    /\ F \in [1..n -> 0 .. rep.m - 1] /\ F[n] = bucket[n]
    /\ \A j \in 1 .. n - 1 : F[j] = Multiply(F[j + 1], down[j], rep)

\* Its recursion makes these steps.
LEMMA UpIs ==
    ASSUME NEW rep, GoodRep(rep), NEW n \in Nat, n > 0, NEW bucket \in [0..n -> 0 .. rep.m - 1],
           NEW down \in [0..n -> 0 .. rep.m - 1], NEW F, IsUp(F, bucket, down, n, rep)
    PROVE  UpSteps(F, bucket, down, n, rep)
  <1> DEFINE X == 0 .. rep.m - 1
             Body(f) == [j \in 1..n |-> IF j = n THEN bucket[j] ELSE Multiply(f[j + 1], down[j], rep)]
             g == [y \in X \X (1 .. n - 1) |-> Multiply(y[1], down[y[2]], rep)]
             a == bucket[n]
  <1>1. a \in X /\ 1 \in 1..n
    OBVIOUS
  <1>2. ClosedDown(g, X, 1, n)
    <2> SUFFICES ASSUME NEW x \in X, NEW i \in 1 .. n - 1 PROVE Multiply(x, down[i], rep) \in X
      BY DEF ClosedDown
    <2>1. down[i] \in X
      OBVIOUS
    <2> QED
      BY <2>1, MultiplyInRange
  <1>3. \E f \in [1..n -> X] : f[n] = a /\ \A i \in 1 .. n - 1 : f[i] = g[<<f[i + 1], i>>]
    <2> DEFINE one == 1
    <2>1. one \in 0..n
      OBVIOUS
    <2>2. ClosedDown(g, X, one, n)
      BY <1>2
    <2>3. HasTurnsDown(g, X, a, one, n)
      <3> HIDE DEF g, X, a, one
      <3> QED
        BY <1>1, <2>1, <2>2, RecursionDown
    <2> HIDE DEF g, X, a
    <2> QED
      BY <2>3 DEF HasTurnsDown
  <1>4. PICK f \in [1..n -> X] : f[n] = a /\ \A i \in 1 .. n - 1 : f[i] = g[<<f[i + 1], i>>]
    BY <1>3
  <1>5. ASSUME NEW i \in 1 .. n - 1
        PROVE  f[i] = Multiply(f[i + 1], down[i], rep)
    <2>1. i + 1 \in 1..n
      OBVIOUS
    <2>2. f[i + 1] \in X
      BY <1>4, <2>1
    <2> HIDE DEF X
    <2> QED
      BY <1>4, <2>2
  <1>6. f = Body(f)
    <2> HIDE DEF X
    <2>1. \A j \in 1..n : f[j] = Body(f)[j]
      BY <1>4, <1>5
    <2>2. DOMAIN f = 1..n
      BY <1>4
    <2> QED
      BY <1>4, <2>1, <2>2
  <1>7. F = Body(F)
    <2> HIDE DEF Body
    <2>1. F = CHOOSE h : h = Body(h)
      BY DEF Body, IsUp
    <2> QED
      BY <1>6, <2>1
  <1>0. DOMAIN F = 1..n /\ \A j \in 1..n : F[j] = Body(F)[j]
    <2>1. DOMAIN Body(F) = 1..n
      OBVIOUS
    <2> HIDE DEF Body
    <2> QED
      BY <1>7, <2>1
  <1>8. F[n] = bucket[n] /\ \A j \in 1 .. n - 1 : F[j] = Multiply(F[j + 1], down[j], rep)
    <2>1. F[n] = bucket[n]
      <3>1. n \in 1..n
        OBVIOUS
      <3>2. F[n] = Body(F)[n]
        <4> HIDE DEF Body
        <4> QED
          BY <1>0, <3>1
      <3> QED
        BY <3>1, <3>2
    <2>2. ASSUME NEW j \in 1 .. n - 1
          PROVE  F[j] = Multiply(F[j + 1], down[j], rep)
      <3>1. j \in 1..n /\ j # n
        OBVIOUS
      <3>2. F[j] = Body(F)[j]
        <4> HIDE DEF Body
        <4> QED
          BY <1>0, <3>1
      <3>3. Body(F)[j] = Multiply(F[j + 1], down[j], rep)
        BY <3>1
      <3> QED
        BY <3>2, <3>3
    <2> QED
      BY <2>1, <2>2
  <1> DEFINE S == {j \in 1..n : F[j] \in X}
  <1>9. n \in S
    BY <1>8
  <1>10. ASSUME NEW j \in 1 .. n - 1, j + 1 \in S
         PROVE  j \in S
    <2>0. j \in 0..n
      OBVIOUS
    <2>1. F[j + 1] \in 0 .. rep.m - 1 /\ down[j] \in 0 .. rep.m - 1
      <3>1. F[j + 1] \in 0 .. rep.m - 1
        BY <1>10
      <3>2. down[j] \in 0 .. rep.m - 1
        BY <2>0
      <3> QED
        BY <3>1, <3>2
    <2>2. Multiply(F[j + 1], down[j], rep) \in X
      BY <2>1, MultiplyInRange
    <2>3. F[j] = Multiply(F[j + 1], down[j], rep)
      BY <1>8
    <2>4. F[j] \in X
      BY <2>2, <2>3
    <2>5. j \in 1..n
      OBVIOUS
    <2> QED
      BY <2>4, <2>5
  <1>11. 1..n \subseteq S
    <2> DEFINE one == 1
    <2>0. one \in 0..n
      OBVIOUS
    <2>1. \A i \in one .. n - 1 : i + 1 \in S => i \in S
      <3> HIDE DEF S
      <3> QED
        BY <1>10
    <2>2. one..n \subseteq S
      <3> HIDE DEF S, one
      <3> QED
        BY <1>9, <2>0, <2>1, Downwards
    <2> QED
      BY <2>2
  <1>12. F \in [1..n -> X]
    <2>1. F = [j \in 1..n |-> F[j]]
      <3> DEFINE B == Body(F)
      <3>1. B = [j \in 1..n |-> B[j]]
        OBVIOUS
      <3> HIDE DEF B
      <3> QED
        BY <1>7, <3>1 DEF B
    <2>2. \A j \in 1..n : F[j] \in X
      BY <1>11
    <2> HIDE DEF X
    <2> QED
      BY <2>1, <2>2
  <1> QED
    BY <1>8, <1>12 DEF UpSteps

\* What is left when the buckets are emptied: the power that they add up to.
LEMMA CountedResult ==
    ASSUME NEW rep, GoodRep(rep), NEW n \in Nat, NEW bucket \in [0..n -> 0 .. rep.m - 1],
           NEW total, NEW x \in Int, Counted(bucket, total, n, x, rep)
    PROVE  Holds(EmptyBuckets(bucket, rep), Raised(x, total), rep)
  <1>1. PICK E, s, t : Weighs(E, s, t, n, total) /\ \A j \in 0..n : Holds(bucket[j], Raised(x, E[j]), rep)
    BY DEF Counted
  <1>2. /\ E \in [0..n -> Nat] /\ s \in [0..n -> Nat] /\ t \in [1 .. n + 1 -> Nat]
        /\ s[n] = E[n] /\ \A j \in 0 .. n - 1 : s[j] = E[j] + s[j + 1]
        /\ t[n + 1] = 0 /\ \A j \in 1..n : t[j] = t[j + 1] + s[j]
        /\ total = 2 * t[1] + s[0]
    BY <1>1 DEF Weighs
  <1> DEFINE last == Cardinality(DOMAIN bucket) - 1
             down == CHOOSE f : f = [j \in 0..n |-> IF j = n THEN bucket[j]
                                              ELSE Multiply(bucket[j], f[j + 1], rep)]
             r == CHOOSE f : f = [j \in 1..n |-> IF j = n THEN bucket[j]
                                              ELSE Multiply(f[j + 1], down[j], rep)]
  <1>3. last = n
    <2> DEFINE zero == 0
    <2>1. DOMAIN bucket = zero..n
      OBVIOUS
    <2>2. zero \in Int /\ n \in Int /\ ~(zero > n)
      OBVIOUS
    <2>3. Cardinality(zero..n) = n - zero + 1
      <3> HIDE DEF zero
      <3> QED
        BY ONLY <2>2, FS_Interval
    <2> QED
      BY <2>1, <2>3
  <1>4. EmptyBuckets(bucket, rep) = IF n = 0 THEN bucket[0]
                                    ELSE Multiply(Multiply(r[1], r[1], rep), down[0], rep)
    <2> HIDE DEF last
    <2>1. EmptyBuckets(bucket, rep) =
            LET d == CHOOSE f : f = [j \in 0..last |-> IF j = last THEN bucket[j]
                                              ELSE Multiply(bucket[j], f[j + 1], rep)]
                q == CHOOSE f : f = [j \in 1..last |-> IF j = last THEN bucket[j]
                                              ELSE Multiply(f[j + 1], d[j], rep)]
            IN  IF last = 0 THEN bucket[0] ELSE Multiply(Multiply(q[1], q[1], rep), d[0], rep)
      BY DEF EmptyBuckets, last
    <2> QED
      BY <1>3, <2>1
  <1>5. /\ down \in [0..n -> 0 .. rep.m - 1] /\ down[n] = bucket[n]
        /\ \A j \in 0 .. n - 1 : down[j] = Multiply(bucket[j], down[j + 1], rep)
    <2>1. IsDown(down, bucket, n, rep)
      BY DEF IsDown
    <2> HIDE DEF down
    <2>2. DownSteps(down, bucket, n, rep)
      BY <2>1, DownIs
    <2> QED
      BY <2>2 DEF DownSteps
  <1>6. n # 0 => /\ r[n] = bucket[n]
                 /\ \A j \in 1 .. n - 1 : r[j] = Multiply(r[j + 1], down[j], rep)
    <2>2. IsUp(r, bucket, down, n, rep)
      BY DEF IsUp
    <2> HIDE DEF down, r
    <2> SUFFICES ASSUME n # 0 PROVE  /\ r[n] = bucket[n]
                 /\ \A j \in 1 .. n - 1 : r[j] = Multiply(r[j + 1], down[j], rep)
      OBVIOUS
    <2>1. n > 0
      OBVIOUS
    <2>3. down \in [0..n -> 0 .. rep.m - 1]
      BY <1>5
    <2>4. UpSteps(r, bucket, down, n, rep)
      BY <2>1, <2>2, <2>3, UpIs
    <2> QED
      BY <2>4 DEF UpSteps
  <1> HIDE DEF down, r, last
  <1> DEFINE S == {j \in 0..n : Holds(down[j], Raised(x, s[j]), rep)}
  <1>7. n \in S
    <2>1. n \in 0..n
      OBVIOUS
    <2> QED
      BY <1>1, <1>2, <1>5, <2>1
  <1>8. ASSUME NEW j \in 0 .. n - 1, j + 1 \in S
        PROVE  j \in S
    <2> DEFINE e == E[j]
               k == s[j + 1]
               a == bucket[j]
               d == down[j + 1]
    <2>1. j \in 0..n /\ j + 1 \in 0..n
      OBVIOUS
    <2>2. e \in Nat /\ k \in Nat /\ s[j] = e + k /\ down[j] = Multiply(a, d, rep)
      BY <1>2, <1>5, <2>1
    <2>3. Holds(a, Raised(x, e), rep) /\ Holds(d, Raised(x, k), rep)
      BY <1>1, <1>8, <2>1
    <2> HIDE DEF e, k, a, d
    <2>4. Holds(Multiply(a, d, rep), Raised(x, e) * Raised(x, k), rep)
      BY <2>3, MultiplyHolds
    <2>5. Raised(x, e + k) = Raised(x, e) * Raised(x, k)
      BY <2>2, RaisedPlus
    <2>6. Holds(down[j], Raised(x, s[j]), rep)
      BY <2>2, <2>4, <2>5
    <2> QED
      BY <2>1, <2>6
  <1>9. 0..n \subseteq S
    <2> DEFINE zero == 0
    <2>1. \A j \in zero .. n - 1 : j + 1 \in S => j \in S
      <3> HIDE DEF S
      <3> QED
        BY <1>8
    <2>2. zero \in 0..n /\ n \in Nat
      OBVIOUS
    <2>3. zero..n \subseteq S
      <3> HIDE DEF S, zero
      <3> QED
        BY ONLY <1>7, <2>1, <2>2, Downwards
    <2> QED
      BY <2>3
  <1>10. CASE n = 0
    <2>1. 0 \in 0..n /\ 0 + 1 = 1 /\ n + 1 = 1
      BY <1>10
    <2>2. total = s[0]
      BY <1>2, <1>10
    <2>3. Holds(bucket[0], Raised(x, s[0]), rep)
      BY <1>9, <1>5, <1>10, <2>1
    <2> QED
      BY <1>4, <1>10, <2>2, <2>3
  <1>11. CASE n # 0
    <2> DEFINE T == {j \in 1..n : Holds(r[j], Raised(x, t[j]), rep)}
    <2>0. \A j \in 1..n : t[j] \in Nat /\ s[j] \in Nat /\ Holds(down[j], Raised(x, s[j]), rep)
      <3> SUFFICES ASSUME NEW j \in 1..n
                   PROVE  t[j] \in Nat /\ s[j] \in Nat /\ Holds(down[j], Raised(x, s[j]), rep)
        OBVIOUS
      <3>1. j \in 0..n /\ j \in 1 .. n + 1
        OBVIOUS
      <3>2. t[j] \in Nat /\ s[j] \in Nat
        BY <1>2, <3>1
      <3>3. j \in S
        BY <1>9, <3>1
      <3> QED
        BY <3>2, <3>3
    <2>1. n \in T
      <3>1. n \in 1..n /\ n \in 0..n
        BY <1>11
      <3>2. t[n] = s[n]
        BY <1>2, <2>0, <3>1
      <3>3. Holds(r[n], Raised(x, t[n]), rep)
        BY <1>5, <1>6, <1>11, <2>0, <3>1, <3>2
      <3> QED
        BY <3>1, <3>3
    <2>2. ASSUME NEW j \in 1 .. n - 1, j + 1 \in T
          PROVE  j \in T
      <3> DEFINE e == t[j + 1]
                 k == s[j]
                 a == r[j + 1]
                 d == down[j]
      <3>1. j \in 1..n /\ j + 1 \in 1..n
        OBVIOUS
      <3>2. e \in Nat /\ k \in Nat /\ t[j] = e + k /\ r[j] = Multiply(a, d, rep)
        BY <1>2, <1>6, <1>11, <2>0, <3>1
      <3>3. Holds(a, Raised(x, e), rep) /\ Holds(d, Raised(x, k), rep)
        BY <2>0, <2>2, <3>1
      <3> HIDE DEF e, k, a, d
      <3>4. Holds(Multiply(a, d, rep), Raised(x, e) * Raised(x, k), rep)
        BY <3>3, MultiplyHolds
      <3>5. Raised(x, e + k) = Raised(x, e) * Raised(x, k)
        BY <3>2, RaisedPlus
      <3>6. Holds(r[j], Raised(x, t[j]), rep)
        BY <3>2, <3>4, <3>5
      <3> QED
        BY <3>1, <3>6
    <2>3. 1 \in T
      <3> DEFINE one == 1
      <3>1. \A j \in one .. n - 1 : j + 1 \in T => j \in T
        <4> HIDE DEF T
        <4> QED
          BY <2>2
      <3>2. one \in 0..n /\ n \in Nat /\ one \in one..n
        BY <1>11
      <3>3. one..n \subseteq T
        <4> HIDE DEF T, one
        <4> QED
          BY ONLY <2>1, <3>1, <3>2, Downwards
      <3> QED
        BY <3>2, <3>3
    <2> DEFINE k == t[1]
               l == s[0]
               a == r[1]
               d == down[0]
    <2>4. k \in Nat /\ l \in Nat /\ Holds(a, Raised(x, k), rep) /\ Holds(d, Raised(x, l), rep)
      <3>1. 0 \in 0..n /\ 1 \in 1..n
        BY <2>3
      <3> QED
        BY <1>2, <1>9, <2>0, <2>3, <3>1
    <2>5. total = (k + k) + l
      <3>1. total = 2 * k + l
        BY <1>2
      <3> HIDE DEF k, l
      <3> QED
        BY <2>4, <3>1
    <2>6. EmptyBuckets(bucket, rep) = Multiply(Multiply(a, a, rep), d, rep)
      BY <1>4, <1>11
    <2> HIDE DEF a, d, k, l
    <2> DEFINE y == Raised(x, k)
               z == Raised(x, l)
               b == Multiply(a, a, rep)
    <2>7. Raised(x, k + k) = y * y /\ Raised(x, (k + k) + l) = (y * y) * z
      <3> DEFINE c == k + k
      <3>1. c \in Nat /\ Raised(x, c) = y * y
        BY <2>4, RaisedPlus
      <3> HIDE DEF c
      <3>2. Raised(x, c + l) = Raised(x, c) * z
        BY <2>4, <3>1, RaisedPlus
      <3> QED
        BY <3>1, <3>2 DEF c
    <2>8. Holds(b, y * y, rep)
      <3> HIDE DEF y
      <3> QED
        BY <2>4, MultiplyHolds DEF y
    <2>9. Holds(Multiply(b, d, rep), (y * y) * z, rep)
      <3> DEFINE w == y * y
      <3>1. Holds(b, w, rep) /\ Holds(d, z, rep)
        BY <2>4, <2>8
      <3> HIDE DEF w, b, z
      <3> QED
        BY <3>1, MultiplyHolds DEF w
    <2> QED
      BY <2>5, <2>6, <2>7, <2>9
  <1> QED
    BY <1>10, <1>11

-----------------------------------------------------------------------------
(* Filling the buckets *)

\* What the turns of FillBuckets keep: a slider, a power of the base, the buckets.
FillState(t, n, ws, rep) ==
    /\ t \in [w : Sliders, g : 0 .. rep.m - 1, bucket : [0..n -> 0 .. rep.m - 1]]
    /\ t.w.windowSize = ws

\* Before position i the buckets hold x to the power of what the slider has passed.
Filled(t, i, e, x, n, ws, rep) ==
    IF t.w.finished THEN Counted(t.bucket, e, n, x, rep)
    ELSE /\ Holds(t.g, Raised(x, Raised(2, i)), rep)
         /\ i <= t.w.windowBegin /\ t.w.exp % 2 = 1 /\ t.w.expWindow = t.w.exp % Raised(2, ws)
         /\ \E total \in Nat : /\ Counted(t.bucket, total, n, x, rep)
                               /\ e = total + t.w.exp * Raised(2, t.w.windowBegin)

\* A turn keeps the shape of what is kept.
LEMMA FillShape ==
    ASSUME NEW rep, GoodRep(rep), NEW n \in Nat, NEW ws \in Nat, NEW t, FillState(t, n, ws, rep),
           NEW i
    PROVE  FillState(FillBucket(t, i, rep), n, ws, rep)
  <1> DEFINE X == 0 .. rep.m - 1
             square == Multiply(t.g, t.g, rep)
             v == FindNextWindow(t.w, t.w.windowSize)
             k == t.w.expWindow \div 2
             bucket == [t.bucket EXCEPT ![k] = Multiply(@, t.g, rep)]
             new == FillBucket(t, i, rep)
  <1>1. /\ t = [w |-> t.w, g |-> t.g, bucket |-> t.bucket] /\ t.w \in Sliders /\ t.g \in 0 .. rep.m - 1
        /\ t.bucket \in [0..n -> 0 .. rep.m - 1] /\ t.w.windowSize = ws
    BY DEF FillState
  <1>2. square \in 0 .. rep.m - 1
    BY <1>1, MultiplyInRange
  <1>3. v \in Sliders /\ v.windowSize = ws
    <2> DEFINE w == t.w
    <2>1. w \in Sliders /\ w.windowSize = ws
      BY <1>1
    <2> HIDE DEF w
    <2>2. FindNextWindow(w, ws) \in Sliders /\ FindNextWindow(w, ws).windowSize = w.windowSize
      BY <2>1, NextWindowIs
    <2> QED
      BY <2>1, <2>2 DEF w
  <1>4. bucket \in [0..n -> 0 .. rep.m - 1]
    <2>1. \A j \in 0..n : Multiply(t.bucket[j], t.g, rep) \in X /\ t.bucket[j] \in X
      <3> SUFFICES ASSUME NEW j \in 0..n
                   PROVE  Multiply(t.bucket[j], t.g, rep) \in X /\ t.bucket[j] \in X
        OBVIOUS
      <3>1. t.bucket[j] \in 0 .. rep.m - 1
        BY <1>1
      <3> QED
        BY <1>1, <3>1, MultiplyInRange
    <2>2. t.bucket \in [0..n -> X]
      BY <1>1
    <2> HIDE DEF X, k
    <2>3. bucket \in [0..n -> X]
      BY <2>1, <2>2
    <2> QED
      BY <2>3 DEF X
  <1>5. new = IF t.w.finished THEN t
              ELSE IF t.w.windowBegin # i THEN [t EXCEPT !.g = square]
              ELSE [w |-> v, g |-> square, bucket |-> bucket]
    BY <1>1 DEF FillBucket
  <1> HIDE DEF square, v, bucket, new
  <1>6. CASE t.w.finished
    <2>1. new = t
      BY <1>5, <1>6
    <2> QED
      BY <2>1 DEF new
  <1>7. CASE ~t.w.finished /\ t.w.windowBegin # i
    <2>1. new = [t EXCEPT !.g = square]
      BY <1>5, <1>7
    <2>2. new = [w |-> t.w, g |-> square, bucket |-> t.bucket]
      BY <1>1, <2>1
    <2>3. FillState(new, n, ws, rep)
      BY <1>1, <1>2, <2>2 DEF FillState
    <2> QED
      BY <2>3 DEF new
  <1>8. CASE ~t.w.finished /\ t.w.windowBegin = i
    <2>1. new = [w |-> v, g |-> square, bucket |-> bucket]
      BY <1>5, <1>8
    <2>2. FillState(new, n, ws, rep)
      BY <1>2, <1>3, <1>4, <2>1 DEF FillState
    <2> QED
      BY <2>2 DEF new
  <1> QED
    BY <1>6, <1>7, <1>8

\* e ends with the window 2k + 1 of ws bits, and rest is before it.
EndsWith(e, ws, k, rest) ==
    /\ k \in 0 .. Raised(2, ws - 1) - 1 /\ rest \in Nat /\ Raised(2, ws - 1) - 1 \in Nat
    /\ e = rest * Raised(2, ws) + (2 * k + 1)

\* A window that begins with a 1 is an odd number, and has a bucket.
LEMMA WindowIs ==
    ASSUME NEW e \in Nat, e % 2 = 1, NEW ws \in Nat \ {0}, NEW win, win = e % Raised(2, ws)
    PROVE  EndsWith(e, ws, win \div 2, e \div Raised(2, ws))
  <1> DEFINE R == Raised(2, ws)
             h == Raised(2, ws - 1)
             q == e \div R
             k == win \div 2
  <1>1. h \in Nat \ {0} /\ R = 2 * h
    <2> DEFINE j == ws - 1
    <2>1. j \in Nat /\ ws = j + 1
      OBVIOUS
    <2> HIDE DEF j
    <2>2. Raised(2, j) \in Nat \ {0} /\ Raised(2, j + 1) = 2 * Raised(2, j)
      BY <2>1, TwoIs, RaisedNat, RaisedNext
    <2> QED
      BY <2>1, <2>2 DEF j
  <1> HIDE DEF h, R
  <1>2. R \in Nat \ {0}
    BY <1>1
  <1>3. e \in Int
    OBVIOUS
  <1>4. q \in Int /\ win \in 0 .. R - 1 /\ e = q * R + win
    BY <1>2, <1>3, Division DEF R
  <1>5. q \in Nat
    BY <1>2, DivNat
  <1> HIDE DEF q
  <1>6. win \in Int /\ 2 \in Nat \ {0}
    BY <1>2, <1>4
  <1>7. k \in Int /\ win % 2 \in 0 .. 2 - 1 /\ win = k * 2 + (win % 2)
    BY <1>6, Division
  <1>8. win % 2 = 1
    <2> HIDE DEF k
    <2> DEFINE z == q * h + k
               r == win % 2
    <2>1. z \in Int /\ e = z * 2 + r
      <3>1. q * R = (q * h) * 2 /\ q * h \in Int
        BY <1>1, <1>4
      <3> QED
        BY <1>4, <1>7, <3>1
    <2>2. r \in 0 .. 2 - 1
      BY <1>7
    <2> HIDE DEF z, r
    <2>3. e % 2 = r
      BY <2>1, <2>2, <1>6, QuotientOf
    <2> QED
      BY <2>3 DEF r
  <1>9. win = 2 * k + 1 /\ k \in 0 .. h - 1
    <2> HIDE DEF k
    <2> QED
      BY <1>1, <1>4, <1>7, <1>8
  <1> HIDE DEF k
  <1>10. EndsWith(e, ws, k, q)
    BY <1>1, <1>4, <1>5, <1>9 DEF EndsWith, R, h
  <1> QED
    BY <1>10 DEF k, q, R

\* A turn at a position that no window begins at.
LEMMA FillSquare ==
    ASSUME NEW rep, GoodRep(rep), NEW x \in Int, NEW i \in Nat, NEW g,
           Holds(g, Raised(x, Raised(2, i)), rep)
    PROVE  Holds(Multiply(g, g, rep), Raised(x, Raised(2, i + 1)), rep)
  <1> DEFINE d == Raised(2, i)
             y == Raised(x, d)
  <1>1. d \in Nat /\ Raised(2, i + 1) = d + d
    <2>1. Raised(2, i) \in Nat \ {0} /\ Raised(2, i + 1) = 2 * Raised(2, i)
      BY TwoIs, RaisedNat, RaisedNext
    <2> QED
      BY <2>1
  <1> HIDE DEF d
  <1>2. Raised(x, d + d) = y * y
    BY <1>1, RaisedPlus
  <1>3. Holds(g, y, rep)
    BY DEF d
  <1>4. Holds(Multiply(g, g, rep), y * y, rep)
    <2> HIDE DEF y
    <2> QED
      BY <1>3, MultiplyHolds
  <1> QED
    BY <1>1, <1>2, <1>4

\* A turn at a position that a window begins at: e = total + exp * 2^i before it.
LEMMA FillWindow ==
    ASSUME NEW rep, GoodRep(rep), NEW n \in Nat, NEW ws \in Nat \ {0}, n = Raised(2, ws - 1) - 1,
           NEW x \in Int, NEW e \in Nat, NEW i \in Nat, NEW total \in Nat, NEW bucket, NEW g,
           NEW w \in Sliders, ~w.finished, w.windowSize = ws, w.windowBegin = i, w.exp % 2 = 1,
           w.expWindow = w.exp % Raised(2, ws),
           Holds(g, Raised(x, Raised(2, i)), rep), Counted(bucket, total, n, x, rep),
           e = total + w.exp * Raised(2, i)
    PROVE  Filled([w |-> FindNextWindow(w, ws), g |-> Multiply(g, g, rep),
                   bucket |-> [bucket EXCEPT ![w.expWindow \div 2] = Multiply(@, g, rep)]],
                  i + 1, e, x, n, ws, rep)
  <1> DEFINE R == Raised(2, ws)
             d == Raised(2, i)
             k == w.expWindow \div 2
             rest == w.exp \div R
             b == [bucket EXCEPT ![k] = Multiply(@, g, rep)]
             v == FindNextWindow(w, ws)
             gg == Multiply(g, g, rep)
             more == total + (2 * k + 1) * d
             new == [w |-> v, g |-> gg, bucket |-> b]
  <1>1. w.exp \in Nat
    BY DEF Sliders
  <1>2. k \in 0..n /\ w.exp = rest * R + (2 * k + 1) /\ rest \in Nat
    <2> DEFINE f == w.exp
               u == w.expWindow
    <2>1. f \in Nat /\ f % 2 = 1 /\ u = f % Raised(2, ws)
      BY <1>1
    <2> HIDE DEF f, u
    <2>2. EndsWith(f, ws, u \div 2, f \div Raised(2, ws))
      BY <2>1, WindowIs
    <2> QED
      BY <2>2 DEF EndsWith, f, u
  <1>3. d \in Nat \ {0} /\ R \in Nat \ {0}
    BY TwoIs, RaisedNat
  <1>4. /\ v \in Sliders /\ v.windowSize = ws
        /\ rest = 0 => v.finished
        /\ rest # 0 => /\ ~v.finished /\ v.exp % 2 = 1
                       /\ v.expWindow = v.exp % R
                       /\ i + ws <= v.windowBegin
                       /\ v.exp * Raised(2, v.windowBegin) = rest * Raised(2, i + ws)
    BY NextWindowIs
  <1> HIDE DEF v, rest, k
  <1>5. Counted(b, more, n, x, rep)
    <2> HIDE DEF d
    <2>1. Holds(g, Raised(x, d), rep)
      BY DEF d
    <2>2. d \in Nat
      BY <1>3
    <2> QED
      BY <1>2, <2>1, <2>2, CountedMore
  <1>6. Raised(2, i + ws) = d * R
    BY TwoIs, RaisedPlus
  <1>7. more \in Nat /\ e = more + rest * (d * R)
    <2> HIDE DEF d, R
    <2>1. w.exp * d = rest * (d * R) + (2 * k + 1) * d
      <3> DEFINE f == w.exp
                 l == 2 * k + 1
      <3>1. f = rest * R + l /\ f \in Nat /\ l \in Nat
        BY <1>1, <1>2
      <3> HIDE DEF f, l
      <3>2. (rest * R + l) * d = rest * (d * R) + l * d
        BY <1>2, <1>3, <3>1
      <3>3. f * d = rest * (d * R) + l * d
        BY <3>1, <3>2
      <3> QED
        BY <3>3 DEF f, l
    <2>2. (2 * k + 1) * d \in Nat /\ rest * (d * R) \in Nat
      <3> DEFINE l == 2 * k + 1
                 o == d * R
      <3>1. l \in Nat /\ o \in Nat
        BY <1>2, <1>3
      <3> HIDE DEF l, o
      <3>2. l * d \in Nat /\ rest * o \in Nat
        BY <1>2, <1>3, <3>1
      <3> QED
        BY <3>2 DEF l, o
    <2> DEFINE s == (2 * k + 1) * d
               o == rest * (d * R)
               z == w.exp * d
    <2>3. z = o + s /\ s \in Nat /\ o \in Nat /\ e = total + z /\ more = total + s
      BY <2>1, <2>2 DEF d
    <2> HIDE DEF s, o, z, more
    <2>4. more \in Nat /\ e = more + o
      BY <2>3
    <2> QED
      BY <2>4 DEF o
  <1>8. Holds(gg, Raised(x, Raised(2, i + 1)), rep)
    BY FillSquare
  <1> HIDE DEF more, gg, b, d, R
  <1>9. new.w = v /\ new.g = gg /\ new.bucket = b
    OBVIOUS
  <1>10. CASE rest = 0
    <2>1. e = more
      <3>1. rest * (d * R) = 0
        <4> DEFINE o == d * R
        <4>1. o \in Nat
          BY <1>3
        <4> HIDE DEF o
        <4>2. rest * o = 0
          BY <1>10, <4>1
        <4> QED
          BY <4>2 DEF o
      <3> QED
        BY <1>7, <3>1
    <2>2. Filled(new, i + 1, e, x, n, ws, rep)
      <3> HIDE DEF new
      <3> QED
        BY <1>4, <1>5, <1>9, <1>10, <2>1 DEF Filled
    <2> QED
      BY <2>2 DEF new, v, gg, b, k
  <1>11. CASE rest # 0
    <2>1. i + 1 <= v.windowBegin
      <3>1. v.windowBegin \in Nat /\ i + ws <= v.windowBegin
        BY <1>4, <1>11 DEF Sliders
      <3> QED
        BY <3>1
    <2>2. e = more + v.exp * Raised(2, v.windowBegin)
      BY <1>4, <1>6, <1>7, <1>11
    <2>3. ~v.finished /\ v.exp % 2 = 1 /\ v.expWindow = v.exp % Raised(2, ws)
      BY <1>4, <1>11 DEF R
    <2>4. Filled(new, i + 1, e, x, n, ws, rep)
      <3> HIDE DEF new
      <3>1. \E all \in Nat : /\ Counted(new.bucket, all, n, x, rep)
                             /\ e = all + new.w.exp * Raised(2, new.w.windowBegin)
        BY <1>5, <1>7, <1>9, <2>2
      <3> QED
        BY <1>8, <1>9, <2>1, <2>3, <3>1 DEF Filled
    <2> QED
      BY <2>4 DEF new, v, gg, b, k
  <1> QED
    BY <1>10, <1>11

\* A turn of FillBuckets.
LEMMA FillTurn ==
    ASSUME NEW rep, GoodRep(rep), NEW ws \in Nat \ {0}, NEW n \in Nat, n = Raised(2, ws - 1) - 1,
           NEW x \in Int, NEW e \in Nat, NEW i \in Nat, NEW t, FillState(t, n, ws, rep),
           Filled(t, i, e, x, n, ws, rep)
    PROVE  Filled(FillBucket(t, i, rep), i + 1, e, x, n, ws, rep)
  <1> DEFINE w == t.w
             g == t.g
             bucket == t.bucket
             gg == Multiply(g, g, rep)
             new == FillBucket(t, i, rep)
  <1>1. /\ t = [w |-> w, g |-> g, bucket |-> bucket] /\ w \in Sliders /\ g \in 0 .. rep.m - 1
        /\ w.windowSize = ws /\ w.windowBegin \in Nat
    BY DEF FillState, Sliders
  <1>2. CASE w.finished
    <2>1. new = t
      BY <1>2 DEF FillBucket
    <2>2. Filled(new, i + 1, e, x, n, ws, rep)
      BY <1>2, <2>1 DEF Filled
    <2> QED
      BY <2>2
  <1>3. ~w.finished =>
           /\ Holds(g, Raised(x, Raised(2, i)), rep)
           /\ i <= w.windowBegin /\ w.exp % 2 = 1 /\ w.expWindow = w.exp % Raised(2, ws)
           /\ \E total \in Nat : /\ Counted(bucket, total, n, x, rep)
                                 /\ e = total + w.exp * Raised(2, w.windowBegin)
    BY DEF Filled
  <1>4. CASE ~w.finished /\ w.windowBegin # i
    <2>1. new = [t EXCEPT !.g = gg]
      BY <1>1, <1>4 DEF FillBucket
    <2>2. new.w = w /\ new.g = gg /\ new.bucket = bucket
      BY <1>1, <2>1
    <2>3. i + 1 <= w.windowBegin
      BY <1>1, <1>3, <1>4
    <2>4. Holds(gg, Raised(x, Raised(2, i + 1)), rep)
      <3>1. Holds(g, Raised(x, Raised(2, i)), rep)
        BY <1>3, <1>4
      <3> HIDE DEF g
      <3> QED
        BY <3>1, FillSquare
    <2> HIDE DEF new, gg, w, bucket
    <2>5. Filled(new, i + 1, e, x, n, ws, rep)
      BY <1>3, <1>4, <2>2, <2>3, <2>4 DEF Filled
    <2> QED
      BY <2>5 DEF new
  <1>5. CASE ~w.finished /\ w.windowBegin = i
    <2>1. new = [w |-> FindNextWindow(w, ws), g |-> gg,
                 bucket |-> [bucket EXCEPT ![w.expWindow \div 2] = Multiply(@, g, rep)]]
      BY <1>1, <1>5 DEF FillBucket
    <2>2. PICK total \in Nat : /\ Counted(bucket, total, n, x, rep)
                               /\ e = total + w.exp * Raised(2, i)
      BY <1>3, <1>5
    <2>3. w.exp % 2 = 1 /\ w.expWindow = w.exp % Raised(2, ws) /\ Holds(g, Raised(x, Raised(2, i)), rep)
      BY <1>3, <1>5
    <2> HIDE DEF new, w, g, bucket
    <2>4. Filled(new, i + 1, e, x, n, ws, rep)
      BY <1>1, <1>5, <2>1, <2>2, <2>3, FillWindow DEF gg
    <2> QED
      BY <2>4 DEF new
  <1> QED
    BY <1>2, <1>4, <1>5

\* Before the first turn.
LEMMA FillStart ==
    ASSUME NEW rep, GoodRep(rep), NEW ws, NEW n \in Nat,
           NEW x \in Int, NEW e \in Nat, ws = WindowSlider(e).windowSize, NEW base, Holds(base, x, rep), NEW t,
           t = [w |-> WindowSlider(e), g |-> base, bucket |-> [j \in 0..n |-> Identity(rep)]]
    PROVE  ws \in Nat \ {0} /\ FillState(t, n, ws, rep) /\ Filled(t, 0, e, x, n, ws, rep)
  <1> DEFINE w == [exp |-> e, windowBegin |-> 0, expWindow |-> 0,
                   windowSize |-> WindowSize(e), finished |-> FALSE]
             v == WindowSlider(e)
             b == [j \in 0..n |-> Identity(rep)]
             zero == 0
             rest == e \div Raised(2, zero)
  <1>1. w \in Sliders
    <2>1. WindowSize(e) \in Nat
      BY WindowSizeIs
    <2> QED
      BY <2>1 DEF Sliders
  <1>2. /\ w.exp = e /\ w.windowBegin = 0 /\ w.windowSize = WindowSize(e) /\ ~w.finished
        /\ v = FindNextWindow(w, 0)
    BY DEF WindowSlider
  <1> HIDE DEF w
  <1>3. zero \in Nat /\ v = FindNextWindow(w, zero)
    BY <1>2
  <1> HIDE DEF zero, v
  <1>4. /\ v \in Sliders /\ v.windowSize = w.windowSize
        /\ rest = 0 => v.finished
        /\ rest # 0 => /\ v.finished = w.finished /\ v.exp % 2 = 1
                       /\ v.expWindow = v.exp % Raised(2, w.windowSize)
                       /\ w.windowBegin + zero <= v.windowBegin
                       /\ v.exp * Raised(2, v.windowBegin) = rest * Raised(2, w.windowBegin + zero)
    <2> DEFINE y == FindNextWindow(w, zero)
    <2>1. /\ y \in Sliders /\ y.windowSize = w.windowSize
          /\ rest = 0 => y.finished
          /\ rest # 0 => /\ y.finished = w.finished /\ y.exp % 2 = 1
                         /\ y.expWindow = y.exp % Raised(2, w.windowSize)
                         /\ w.windowBegin + zero <= y.windowBegin
                         /\ y.exp * Raised(2, y.windowBegin) = rest * Raised(2, w.windowBegin + zero)
      <3>1. w.exp = e
        BY <1>2
      <3> QED
        BY <1>1, <1>3, <3>1, NextWindowIs
    <2> QED
      BY <1>3, <2>1
  <1>5. ws \in Nat \ {0} /\ v.windowSize = ws
    BY <1>2, <1>4, WindowSizeIs DEF v
  <1>6. rest = e /\ Raised(2, w.windowBegin + zero) = 1 /\ w.windowBegin + zero = 0
    <2>1. Raised(2, 0) = 1 /\ 0 + 0 = 0 /\ e \div 1 = e
      <3>1. Raised(2, 0) = 1
        BY TwoIs, RaisedZero
      <3> QED
        BY <3>1
    <2> QED
      BY <1>2, <2>1 DEF zero
  <1>7. b \in [0..n -> 0 .. rep.m - 1] /\ Counted(b, 0, n, x, rep)
    <2>1. Identity(rep) \in 0 .. rep.m - 1
      BY IdentityHolds DEF Holds
    <2> QED
      BY <2>1, CountedEmpty
  <1>8. base \in 0 .. rep.m - 1
    BY DEF Holds
  <1> HIDE DEF b, rest
  <1>9. t = [w |-> v, g |-> base, bucket |-> b]
    BY DEF b, v
  <1>10. t.w = v /\ t.g = base /\ t.bucket = b
    BY <1>9
  <1>11. FillState(t, n, ws, rep)
    BY <1>4, <1>5, <1>7, <1>8, <1>9 DEF FillState
  <1>12. CASE e = 0
    <2>1. Filled(t, 0, e, x, n, ws, rep)
      BY <1>4, <1>6, <1>7, <1>10, <1>12 DEF Filled
    <2> QED
      BY <1>5, <1>11, <2>1
  <1>13. CASE e # 0
    <2>1. ~v.finished /\ v.exp % 2 = 1 /\ v.expWindow = v.exp % Raised(2, ws) /\ 0 <= v.windowBegin
      BY <1>2, <1>4, <1>5, <1>6, <1>13
    <2>2. 0 \in Nat /\ e = 0 + v.exp * Raised(2, v.windowBegin)
      BY <1>4, <1>6, <1>13
    <2>3. Holds(base, Raised(x, Raised(2, 0)), rep)
      <3>1. Raised(2, 0) = 1
        BY TwoIs, RaisedZero
      <3>2. Raised(x, 1) = x
        BY RaisedOne
      <3> QED
        BY <3>1, <3>2
    <2>4. \E total \in Nat : /\ Counted(t.bucket, total, n, x, rep)
                             /\ e = total + t.w.exp * Raised(2, t.w.windowBegin)
      BY <1>7, <1>10, <2>2
    <2>5. Filled(t, 0, e, x, n, ws, rep)
      BY <1>10, <2>1, <2>3, <2>4 DEF Filled
    <2> QED
      BY <1>5, <1>11, <2>5
  <1> QED
    BY <1>12, <1>13

\* After as many turns as the exponent has bits, the slider has finished.
LEMMA FillEnd ==
    ASSUME NEW rep, NEW n, NEW ws, NEW x, NEW e \in Nat, NEW t, FillState(t, n, ws, rep),
           Filled(t, BitCount(e), e, x, n, ws, rep)
    PROVE  t.bucket \in [0..n -> 0 .. rep.m - 1] /\ Counted(t.bucket, e, n, x, rep)
  <1>1. t.w \in Sliders /\ t.bucket \in [0..n -> 0 .. rep.m - 1]
    BY DEF FillState
  <1>2. t.w.finished
    <2> SUFFICES ASSUME ~t.w.finished PROVE FALSE
      OBVIOUS
    <2> DEFINE k == BitCount(e)
               f == t.w.exp
               j == t.w.windowBegin
    <2>1. k <= j /\ f % 2 = 1 /\ \E total \in Nat : e = total + f * Raised(2, j)
      BY DEF Filled
    <2>2. k \in Nat /\ e < Raised(2, k)
      BY TwoIs, DigitsAre DEF BitCount
    <2>3. f \in Nat /\ j \in Nat
      BY <1>1 DEF Sliders
    <2> HIDE DEF k, f, j
    <2>4. f # 0
      BY <2>1
    <2>5. Raised(2, j) \in Nat \ {0} /\ Raised(2, k) \in Nat \ {0}
      BY <2>2, <2>3, TwoIs, RaisedNat
    <2>6. Raised(2, k) <= Raised(2, j)
      BY <2>1, <2>2, <2>3, TwoIs, RaisedMonotonic
    <2>7. Raised(2, j) <= f * Raised(2, j) /\ f * Raised(2, j) \in Nat
      <3> DEFINE r == Raised(2, j)
      <3>1. r \in Nat
        BY <2>5
      <3> HIDE DEF r
      <3>2. f * r \in Nat /\ r <= f * r
        BY <2>3, <2>4, <3>1
      <3> QED
        BY <3>2 DEF r
    <2> DEFINE o == f * Raised(2, j)
    <2>8. \E total \in Nat : e = total + o
      BY <2>1
    <2>9. o \in Nat /\ e < o
      BY <2>2, <2>5, <2>6, <2>7
    <2> HIDE DEF o
    <2> QED
      BY <2>8, <2>9
  <1> QED
    BY <1>1, <1>2 DEF Filled

\* The turns of FillBuckets, from the state a on, and the recursion of their list.
IsFill(F, a, k, rep) ==
    F = CHOOSE f : f = [i \in 0..k |-> IF i = 0 THEN a ELSE FillBucket(f[i - 1], i - 1, rep)]

\* That list exists, and is the one.
LEMMA FillIs ==
    ASSUME NEW rep, GoodRep(rep), NEW n \in Nat, NEW ws \in Nat, NEW k \in Nat, NEW a,
           FillState(a, n, ws, rep), NEW F, IsFill(F, a, k, rep)
    PROVE  F[0] = a /\ \A i \in 1..k : F[i] = FillBucket(F[i - 1], i - 1, rep)
  <1> DEFINE X == {t \in [w : Sliders, g : 0 .. rep.m - 1, bucket : [0..n -> 0 .. rep.m - 1]] :
                      FillState(t, n, ws, rep)}
             Body(f) == [i \in 0..k |-> IF i = 0 THEN a ELSE FillBucket(f[i - 1], i - 1, rep)]
             g == [y \in X \X (1..k) |-> FillBucket(y[1], y[2] - 1, rep)]
  <1>1. \A t : t \in X <=> FillState(t, n, ws, rep)
    BY DEF FillState
  <1> HIDE DEF X
  <1>2. Closed(g, X, k)
    <2> HIDE DEF g
    <2> SUFFICES \A x \in X : \A i \in 1..k : g[<<x, i>>] \in X
      BY Zenon DEF Closed
    <2> TAKE x \in X
    <2> TAKE i \in 1..k
    <2>1. FillState(x, n, ws, rep)
      BY <1>1
    <2> DEFINE j == i - 1
    <2>2. FillState(FillBucket(x, j, rep), n, ws, rep)
      <3> HIDE DEF j
      <3> QED
        BY <2>1, FillShape
    <2>3. g[<<x, i>>] = FillBucket(x, j, rep)
      BY DEF g
    <2> HIDE DEF j
    <2> QED
      BY <1>1, <2>2, <2>3
  <1>3. \E f \in [0..k -> X] : f[0] = a /\ \A i \in 1..k : f[i] = g[<<f[i - 1], i>>]
    <2>1. a \in X
      BY <1>1
    <2> HIDE DEF g
    <2>2. HasTurns(g, X, a, k)
      BY <1>2, <2>1, RecursionUp
    <2> QED
      BY <2>2 DEF HasTurns
  <1>4. PICK f \in [0..k -> X] : f[0] = a /\ \A i \in 1..k : f[i] = g[<<f[i - 1], i>>]
    BY <1>3
  <1>5. ASSUME NEW i \in 1..k
        PROVE  f[i] = FillBucket(f[i - 1], i - 1, rep)
    <2>1. f[i - 1] \in X
      BY <1>4
    <2> QED
      BY <1>4, <2>1
  <1>6. f = Body(f)
    <2>1. \A i \in 0..k : f[i] = Body(f)[i]
      BY <1>4, <1>5
    <2>2. DOMAIN f = 0..k
      BY <1>4
    <2> QED
      BY <1>4, <2>1, <2>2
  <1>7. F = Body(F)
    <2>1. F = CHOOSE h : h = Body(h)
      BY DEF IsFill
    <2> HIDE DEF Body
    <2> QED
      BY <1>6, <2>1
  <1>8. \A i \in 0..k : F[i] = Body(F)[i]
    <2> HIDE DEF Body
    <2> QED
      BY <1>7
  <1>9. F[0] = a
    <2>1. 0 \in 0..k
      OBVIOUS
    <2>2. F[0] = Body(F)[0]
      <3> HIDE DEF Body
      <3> QED
        BY <1>8, <2>1
    <2> QED
      BY <2>1, <2>2
  <1>10. ASSUME NEW i \in 1..k
         PROVE  F[i] = FillBucket(F[i - 1], i - 1, rep)
    <2>1. i \in 0..k /\ i # 0
      OBVIOUS
    <2>2. F[i] = Body(F)[i]
      <3> HIDE DEF Body
      <3> QED
        BY <1>8, <2>1
    <2>3. Body(F)[i] = FillBucket(F[i - 1], i - 1, rep)
      BY <2>1
    <2> QED
      BY <2>2, <2>3
  <1> QED
    BY <1>9, <1>10

\* FillBuckets: the buckets hold the base to the power e, each counted for its window.
LEMMA FillResult ==
    ASSUME NEW rep, GoodRep(rep), NEW x \in Int, NEW e \in Nat, NEW base, Holds(base, x, rep)
    PROVE  \E n \in Nat : /\ FillBuckets(base, e, rep) \in [0..n -> 0 .. rep.m - 1]
                          /\ Counted(FillBuckets(base, e, rep), e, n, x, rep)
  <1> DEFINE slider == WindowSlider(e)
             ws == slider.windowSize
             n == Raised(2, ws - 1) - 1
             k == BitCount(e)
             a == [w |-> slider, g |-> base, bucket |-> [j \in 0..n |-> Identity(rep)]]
             F == CHOOSE f : f = [i \in 0..k |-> IF i = 0 THEN a ELSE FillBucket(f[i - 1], i - 1, rep)]
  <1>1. ws \in Nat \ {0}
    <2> DEFINE N == 0
    <2>1. N \in Nat
      OBVIOUS
    <2> DEFINE t == [w |-> WindowSlider(e), g |-> base, bucket |-> [j \in 0..N |-> Identity(rep)]]
    <2> HIDE DEF N
    <2> QED
      BY <2>1, FillStart
  <1>2. n \in Nat
    <2> DEFINE j == ws - 1
    <2>1. j \in Nat
      BY <1>1
    <2> HIDE DEF j
    <2>2. Raised(2, j) \in Nat \ {0}
      BY <2>1, TwoIs, RaisedNat
    <2> QED
      BY <2>2 DEF j
  <1>3. FillState(a, n, ws, rep) /\ Filled(a, 0, e, x, n, ws, rep)
    <2> HIDE DEF n
    <2> QED
      BY <1>2, FillStart
  <1>4. k \in Nat
    BY TwoIs, DigitsAre DEF BitCount
  <1>5. FillBuckets(base, e, rep) = F[k].bucket
    BY DEF FillBuckets
  <1>6. IsFill(F, a, k, rep)
    BY DEF IsFill
  <1>7. n = Raised(2, ws - 1) - 1
    OBVIOUS
  <1> HIDE DEF F, a, k, ws, n
  <1>8. F[0] = a /\ \A i \in 1..k : F[i] = FillBucket(F[i - 1], i - 1, rep)
    <2>1. ws \in Nat
      BY <1>1
    <2> QED
      BY <1>2, <1>3, <1>4, <1>6, <2>1, FillIs
  <1> DEFINE S == {i \in 0..k : FillState(F[i], n, ws, rep) /\ Filled(F[i], i, e, x, n, ws, rep)}
  <1>9. 0 \in S
    BY <1>3, <1>4, <1>8
  <1>10. ASSUME NEW i \in 0 .. k - 1, i \in S
         PROVE  i + 1 \in S
    <2> DEFINE t == F[i]
    <2>1. FillState(t, n, ws, rep) /\ Filled(t, i, e, x, n, ws, rep)
      BY <1>10
    <2>2. i + 1 \in 1..k /\ (i + 1) - 1 = i /\ i \in Nat /\ i + 1 \in 0..k
      BY <1>4
    <2>3. F[i + 1] = FillBucket(t, i, rep)
      BY <1>8, <2>2
    <2> HIDE DEF t
    <2>4. FillState(FillBucket(t, i, rep), n, ws, rep)
      <3>1. ws \in Nat
        BY <1>1
      <3> QED
        BY <1>2, <2>1, <3>1, FillShape
    <2>5. Filled(FillBucket(t, i, rep), i + 1, e, x, n, ws, rep)
      BY <1>1, <1>2, <1>7, <2>1, <2>2, FillTurn
    <2> QED
      BY <2>2, <2>3, <2>4, <2>5
  <1>11. 0..k \subseteq S
    <2> HIDE DEF S
    <2> QED
      BY <1>4, <1>9, <1>10, Upwards
  <1> DEFINE t == F[k]
  <1>12. FillState(t, n, ws, rep) /\ Filled(t, BitCount(e), e, x, n, ws, rep)
    <2>1. k \in S
      BY <1>4, <1>11
    <2> QED
      BY <2>1 DEF k
  <1> HIDE DEF t
  <1>13. t.bucket \in [0..n -> 0 .. rep.m - 1] /\ Counted(t.bucket, e, n, x, rep)
    BY <1>12, FillEnd
  <1> QED
    BY <1>2, <1>5, <1>13 DEF t

\* Exponentiate computes powers, with windows of any size.
THEOREM ExponentiateIsPower ==
    ASSUME NEW m \in Nat, m % 2 = 1, m < Radix, NEW a \in Int, NEW e \in Nat
    PROVE  Exponentiate(a, e, m) = Power(a, e, m)
  <1> DEFINE rep == Montgomery(m)
             base == ConvertIn(a, rep)
             bucket == FillBuckets(base, e, rep)
             r == EmptyBuckets(bucket, rep)
  <1>1. GoodRep(rep) /\ rep.m = m
    BY RepOfOdd
  <1>2. Exponentiate(a, e, m) = ConvertOut(r, rep)
    BY DEF Exponentiate
  <1> HIDE DEF rep
  <1>3. Holds(base, a, rep)
    BY <1>1, ConvertInHolds
  <1> HIDE DEF base
  <1>4. PICK n \in Nat : bucket \in [0..n -> 0 .. rep.m - 1] /\ Counted(bucket, e, n, a, rep)
    BY <1>1, <1>3, FillResult
  <1> HIDE DEF bucket
  <1>5. Holds(r, Raised(a, e), rep)
    BY <1>1, <1>4, CountedResult
  <1> HIDE DEF r
  <1> DEFINE x == Raised(a, e)
  <1>6. ConvertOut(r, rep) = x % rep.m
    <2>1. Holds(r, x, rep)
      BY <1>5
    <2> HIDE DEF x
    <2> QED
      BY <1>1, <2>1, ConvertOutHolds
  <1>7. m # 0
    OBVIOUS
  <1>8. Power(a, e, m) = Raised(a, e) % m
    BY <1>7, PowerIsRaised
  <1> QED
    BY <1>1, <1>2, <1>6, <1>8

-----------------------------------------------------------------------------
(* Greatest common divisors *)

\* The greatest common divisor: what divides both numbers divides it, and nothing else does.
LEMMA GCDIs ==
    ASSUME NEW a \in Nat, NEW b \in Nat
    PROVE  /\ GCD(a, b) \in Nat
           /\ \A d \in Nat \ {0} : Divides(d, GCD(a, b)) <=> CommonDivisor(d, <<a, b>>)
  <1> DEFINE X == Nat \X Nat
             done == {p \in X : p[2] = 0}
             out == [p \in X |-> p[1]]
             next == [p \in X |-> <<p[2], p[1] % p[2]>>]
             Body(f) == [p \in Nat \X Nat |-> IF p[2] = 0 THEN p[1] ELSE f[<<p[2], p[1] % p[2]>>]]
             F == CHOOSE f : f = Body(f)
             I == {p \in X : \A d \in Nat \ {0} : CommonDivisor(d, p) <=> CommonDivisor(d, <<a, b>>)}
             G == {g \in Nat : \A d \in Nat \ {0} : Divides(d, g) <=> CommonDivisor(d, <<a, b>>)}
             mu == [p \in I |-> p[2]]
             start == <<a, b>>
  <1>1. GCD(a, b) = F[start]
    BY DEF GCD
  <1>2. ASSUME NEW p \in X, p[2] # 0
        PROVE  /\ next[p] \in X /\ next[p][2] < p[2]
               /\ \A d \in Nat \ {0} : CommonDivisor(d, p) <=> CommonDivisor(d, next[p])
    <2> DEFINE x == p[1]
               y == p[2]
               r == x % y
    <2>1. p = <<x, y>> /\ x \in Nat /\ y \in Nat \ {0} /\ x \in Int
      BY <1>2
    <2>2. next[p] = <<y, r>>
      OBVIOUS
    <2> HIDE DEF x, y, next
    <2>3. r \in 0 .. y - 1
      BY <2>1, Division
    <2>4. \A d \in Nat \ {0} : CommonDivisor(d, <<x, y>>) <=> CommonDivisor(d, <<y, r>>)
      BY <2>1, EuclidStep
    <2> HIDE DEF r
    <2>5. <<y, r>> \in X /\ <<y, r>>[2] < y
      BY <2>1, <2>3
    <2> QED
      BY <2>1, <2>2, <2>4, <2>5 DEF y
  <1>3. \A f : Body(f) = [p \in X |-> IF p \in done THEN out[p] ELSE f[next[p]]]
    OBVIOUS
  <1>4. \E f : IsTail(f, X, done, out, next)
    <2>1. \A p \in X : p \notin done => next[p] \in X
      BY <1>2
    <2> HIDE DEF X, done, out, next
    <2> QED
      BY <2>1, TailExists
  <1>5. IsTail(F, X, done, out, next)
    <2>1. \A f : f = Body(f) <=> IsTail(f, X, done, out, next)
      BY <1>3 DEF IsTail
    <2> HIDE DEF Body, X, done, out, next
    <2>2. F = Body(F)
      BY <1>4, <2>1
    <2> HIDE DEF F
    <2> QED
      BY <2>1, <2>2
  <1>6. start \in I /\ I \in SUBSET X
    OBVIOUS
  <1>7. mu \in [I -> Nat]
    OBVIOUS
  <1>8. ASSUME NEW p \in I, p \in done
        PROVE  out[p] \in G
    <2>1. p \in X /\ p[2] = 0 /\ p[1] \in Nat /\ out[p] = p[1]
      BY <1>8
    <2>2. \A d \in Nat \ {0} : CommonDivisor(d, p) <=> CommonDivisor(d, <<a, b>>)
      OBVIOUS
    <2>3. \A d \in Nat \ {0} : Divides(d, p[1]) <=> CommonDivisor(d, p)
      BY <2>1, DividesZero DEF CommonDivisor
    <2> HIDE DEF out, I, done
    <2> QED
      BY <2>1, <2>2, <2>3
  <1>9. ASSUME NEW p \in I, p \notin done
        PROVE  next[p] \in I /\ mu[next[p]] < mu[p]
    <2>1. p \in X /\ p[2] # 0 /\ \A d \in Nat \ {0} : CommonDivisor(d, p) <=> CommonDivisor(d, <<a, b>>)
      BY <1>9
    <2>2. /\ next[p] \in X /\ next[p][2] < p[2]
          /\ \A d \in Nat \ {0} : CommonDivisor(d, p) <=> CommonDivisor(d, next[p])
      BY <1>2, <2>1
    <2> HIDE DEF next
    <2>3. next[p] \in I
      BY <2>1, <2>2
    <2> HIDE DEF I
    <2> QED
      BY <2>2, <2>3
  <1>10. F[start] \in G
    <2> HIDE DEF X, done, out, next, F, I, G, mu, start
    <2> QED
      BY <1>5, <1>6, <1>7, <1>8, <1>9, TailResult
  <1> HIDE DEF F
  <1> QED
    BY <1>1, <1>10

\* It is 1 when only 1 divides both.
LEMMA GCDOne ==
    ASSUME NEW a \in Nat, NEW b \in Nat
    PROVE  GCD(a, b) = 1 <=> \A d \in Nat \ {0} : CommonDivisor(d, <<a, b>>) => d = 1
  <1> DEFINE g == GCD(a, b)
  <1>1. g \in Nat /\ \A d \in Nat \ {0} : Divides(d, g) <=> CommonDivisor(d, <<a, b>>)
    BY GCDIs
  <1> HIDE DEF g
  <1>2. ASSUME g = 1, NEW d \in Nat \ {0}, CommonDivisor(d, <<a, b>>)
        PROVE  d = 1
    <2>1. Divides(d, 1) /\ 1 \in Nat \ {0}
      BY <1>1, <1>2
    <2>2. d <= 1
      BY <2>1, DividesLess
    <2> QED
      BY <2>2
  <1>3. ASSUME \A d \in Nat \ {0} : CommonDivisor(d, <<a, b>>) => d = 1
        PROVE  g = 1
    <2>1. CASE g = 0
      <3>1. 2 \in Nat \ {0} /\ 2 \in Int
        OBVIOUS
      <3>2. Divides(2, g)
        BY <2>1, <3>1, DividesZero
      <3> QED
        BY <1>1, <1>3, <3>1, <3>2
    <2>2. CASE g # 0
      <3>1. Divides(g, g)
        <4>1. g = g * 1 /\ 1 \in Int
          BY <1>1
        <4> QED
          BY <4>1 DEF Divides
      <3> QED
        BY <1>1, <1>3, <2>2, <3>1
    <2> QED
      BY <2>1, <2>2
  <1> QED
    BY <1>2, <1>3 DEF g

-----------------------------------------------------------------------------
(* Inverses: AlmostInverse *)

\* The sign that s stands for.
Sign(s) == IF s THEN -1 ELSE 1

\* b is 2^k f/a and c is 2^k g/a, one of them with its sign turned.
Signed(f, g, b, c, k, z, a, m) ==
    /\ Cong(b * a, z * (Raised(2, k) * f), m)
    /\ Cong(c * a, (0 - z) * (Raised(2, k) * g), m)

\* The turns of AlmostInverse for a modulo m.
Almost(t, a, m) ==
    /\ t \in Turns /\ t.f * t.c + t.g * t.b = m /\ t.g % 2 = 1
    /\ t.b >= 1 /\ (t.c = 0 => t.b = 1) /\ (t.f = 0 => t.g > 1)
    /\ Signed(t.f, t.g, t.b, t.c, t.k, Sign(t.s), a, m)

\* It turns with s.
LEMMA SignIs ==
    ASSUME NEW s \in BOOLEAN
    PROVE  Sign(s) \in Int /\ Sign(~s) = 0 - Sign(s) /\ 0 - Sign(s) \in Int /\ 0 - Sign(~s) = Sign(s)
  BY DEF Sign

\* f loses its zeros at the end.
LEMMA SignedShift ==
    ASSUME NEW f \in Nat, NEW g \in Nat, NEW b \in Nat, NEW c \in Nat, NEW k \in Nat, NEW z \in Int,
           NEW a \in Int, NEW m \in Int, NEW i \in Nat, NEW R, R = Raised(2, i), f * R \in Nat,
           Signed(f * R, g, b, c, k, z, a, m)
    PROVE  Signed(f, g, b, c * R, k + i, z, a, m)
  <1> DEFINE K == Raised(2, k)
             L == Raised(2, k + i)
             y == 0 - z
  <1>1. R \in Nat /\ K \in Nat /\ L \in Nat /\ L = K * R
    <2>1. R \in Nat \ {0} /\ K \in Nat \ {0}
      BY TwoIs, RaisedNat
    <2>2. L = K * R
      BY TwoIs, RaisedPlus
    <2> HIDE DEF K, L
    <2> QED
      BY <2>1, <2>2
  <1>2. z \in Int /\ y \in Int
    OBVIOUS
  <1>3. Cong(b * a, z * (K * (f * R)), m) /\ Cong(c * a, y * (K * g), m)
    BY DEF Signed
  <1> HIDE DEF K, L, y
  <1>4. K * (f * R) = L * f
    BY <1>1
  <1>5. Cong(b * a, z * (L * f), m)
    BY <1>3, <1>4
  <1>6. Cong((c * R) * a, y * (L * g), m)
    <2> DEFINE u == c * a
               v == y * (K * g)
    <2>1. Cong(u, v, m) /\ Cong(R, R, m)
      <3>1. R \in Int
        BY <1>1
      <3> QED
        BY <1>3, <3>1, CongSelf
    <2> HIDE DEF u, v
    <2>2. Cong(u * R, v * R, m)
      BY <2>1, CongTimes
    <2>3. u * R = (c * R) * a
      BY <1>1 DEF u
    <2>4. v * R = y * (L * g)
      <3> DEFINE o == K * g
      <3>1. o \in Int /\ o * R = L * g
        BY <1>1
      <3> HIDE DEF o
      <3>2. (y * o) * R = y * (o * R)
        BY <1>1, <1>2, <3>1
      <3> QED
        BY <3>1, <3>2 DEF v, o
    <2> QED
      BY <2>2, <2>3, <2>4
  <1> QED
    BY <1>5, <1>6 DEF Signed, K, L, y

\* The smaller one is taken from the larger: f from g,
LEMMA SignedSwap ==
    ASSUME NEW f \in Nat, NEW g \in Nat, NEW b \in Nat, NEW c \in Nat, NEW k \in Nat, NEW z \in Int,
           NEW a \in Int, NEW m \in Int, Signed(f, g, b, c, k, z, a, m)
    PROVE  Signed(g - f, f, c + b, b, k, 0 - z, a, m)
  <1> DEFINE K == Raised(2, k)
             y == 0 - z
  <1>1. K \in Int
    BY TwoIs, RaisedNext
  <1>2. z \in Int /\ y \in Int /\ 0 - y = z
    OBVIOUS
  <1>3. Cong(b * a, z * (K * f), m) /\ Cong(c * a, y * (K * g), m)
    BY DEF Signed
  <1>4. z = 0 - y
    BY <1>2
  <1> HIDE DEF K, y
  <1>5. Cong((c + b) * a, y * (K * (g - f)), m)
    <2> DEFINE u == b * a
               v == c * a
               o == K * f
               l == K * g
               r == z * o
               w == y * l
    <2>1. Cong(u, r, m) /\ Cong(v, w, m)
      BY <1>3
    <2> HIDE DEF u, v, r, w
    <2>2. Cong(v + u, w + r, m)
      BY <2>1, CongPlus
    <2>3. v + u = (c + b) * a
      BY DEF u, v
    <2>4. w + r = y * (K * (g - f))
      <3>1. o \in Int /\ l \in Int /\ K * (g - f) = l - o
        BY <1>1
      <3> HIDE DEF o, l
      <3>2. y * l + z * o = y * (l - o)
        <4>1. (0 - y) * o = 0 - y * o /\ y * (l - o) = y * l - y * o /\ y * l \in Int /\ y * o \in Int
          BY <1>2, <3>1
        <4> DEFINE yl == y * l
                   yo == y * o
        <4>2. z * o = 0 - yo /\ y * (l - o) = yl - yo /\ yl \in Int /\ yo \in Int
          BY <1>4, <4>1
        <4> HIDE DEF yl, yo
        <4>3. yl + z * o = y * (l - o)
          BY <4>2
        <4> QED
          BY <4>3 DEF yl
      <3> QED
        BY <3>1, <3>2 DEF w, r, o, l
    <2> QED
      BY <2>2, <2>3, <2>4
  <1> QED
    BY <1>2, <1>3, <1>5 DEF Signed, K, y

\* or g from f.
LEMMA SignedLess ==
    ASSUME NEW f \in Nat, NEW g \in Nat, NEW b \in Nat, NEW c \in Nat, NEW k \in Nat, NEW z \in Int,
           NEW a \in Int, NEW m \in Int, Signed(f, g, b, c, k, z, a, m)
    PROVE  Signed(f - g, g, b + c, c, k, z, a, m)
  <1> DEFINE K == Raised(2, k)
             y == 0 - z
  <1>1. K \in Int
    BY TwoIs, RaisedNext
  <1>2. z \in Int /\ y \in Int
    OBVIOUS
  <1>3. Cong(b * a, z * (K * f), m) /\ Cong(c * a, y * (K * g), m)
    BY DEF Signed
  <1>4. y = 0 - z
    OBVIOUS
  <1> HIDE DEF K, y
  <1>5. Cong((b + c) * a, z * (K * (f - g)), m)
    <2> DEFINE u == b * a
               v == c * a
               o == K * f
               l == K * g
               r == z * o
               w == y * l
    <2>1. Cong(u, r, m) /\ Cong(v, w, m)
      BY <1>3
    <2> HIDE DEF u, v, r, w
    <2>2. Cong(u + v, r + w, m)
      BY <2>1, CongPlus
    <2>3. u + v = (b + c) * a
      BY DEF u, v
    <2>4. r + w = z * (K * (f - g))
      <3>1. o \in Int /\ l \in Int /\ K * (f - g) = o - l
        BY <1>1
      <3> HIDE DEF o, l
      <3>2. z * o + y * l = z * (o - l)
        <4>1. (0 - z) * l = 0 - z * l /\ z * (o - l) = z * o - z * l /\ z * l \in Int /\ z * o \in Int
          BY <1>2, <3>1
        <4> DEFINE zl == z * l
                   zo == z * o
        <4>2. y * l = 0 - zl /\ z * (o - l) = zo - zl /\ zl \in Int /\ zo \in Int
          BY <1>4, <4>1
        <4> HIDE DEF zl, zo
        <4>3. zo + y * l = z * (o - l)
          BY <4>2
        <4> QED
          BY <4>3 DEF zo
      <3> QED
        BY <3>1, <3>2 DEF w, r, o, l
    <2> QED
      BY <2>2, <2>3, <2>4
  <1> QED
    BY <1>3, <1>4, <1>5 DEF Signed, K

\* A turn of AlmostInverse keeps what its numbers are, and the sum of f and g decreases.
LEMMA AlmostTurn ==
    ASSUME NEW a \in Int, NEW m \in Nat, NEW t, Almost(t, a, m), t.f # 0,
           t.f # Raised(2, TrailingZeros(t.f))
    PROVE  Almost(NextTurn(t), a, m) /\ NextTurn(t).f + NextTurn(t).g < t.f + t.g
  <1> DEFINE i == TrailingZeros(t.f)
             R == Raised(2, i)
             f == t.f \div R
             g == t.g
             b == t.b
             c == t.c * R
             k == t.k + i
             s == t.s
             z == Sign(s)
             new == NextTurn(t)
  <1>1. /\ t = [f |-> t.f, g |-> t.g, b |-> t.b, c |-> t.c, k |-> t.k, s |-> t.s]
        /\ t.f \in Nat \ {0} /\ g \in Nat \ {0} /\ b \in Nat /\ t.c \in Nat /\ t.k \in Nat /\ s \in BOOLEAN
        /\ t.f * t.c + g * b = m /\ g % 2 = 1 /\ b >= 1 /\ (t.c = 0 => b = 1)
        /\ Signed(t.f, g, b, t.c, t.k, z, a, m)
    BY DEF Almost, Turns
  <1>2. /\ new = IF f < g
                 THEN [f |-> g - f, g |-> f, b |-> c + b, c |-> b, k |-> k, s |-> ~s]
                 ELSE [t EXCEPT !.f = f - g, !.b = @ + c, !.c = c, !.k = @ + i]
    BY DEF NextTurn
  <1>3. i \in Nat /\ f \in Nat \ {0} /\ t.f = f * R /\ f % 2 = 1
    <2> DEFINE n == t.f
    <2>1. n \in Nat \ {0}
      BY <1>1
    <2> HIDE DEF n
    <2>2. /\ TrailingZeros(n) \in Nat /\ n \div Raised(2, TrailingZeros(n)) \in Nat \ {0}
          /\ n = (n \div Raised(2, TrailingZeros(n))) * Raised(2, TrailingZeros(n))
          /\ (n \div Raised(2, TrailingZeros(n))) % 2 = 1
      BY <2>1, ZerosAre
    <2> QED
      BY <2>2 DEF n
  <1>4. R \in Nat \ {0}
    BY <1>3, TwoIs, RaisedNat
  <1>0. z \in Int /\ Sign(~s) = 0 - z
    BY <1>1, SignIs
  <1> HIDE DEF f, i, new, z
  <1>5. c \in Nat /\ k \in Nat /\ m \in Int
    BY <1>1, <1>3, <1>4
  <1>6. Signed(f, g, b, c, k, z, a, m)
    <2> DEFINE d == t.c
               l == t.k
    <2>1. Signed(f * R, g, b, d, l, z, a, m) /\ d \in Nat /\ l \in Nat /\ f * R \in Nat
      BY <1>1, <1>3
    <2>2. R = Raised(2, i) /\ f \in Nat
      BY <1>3
    <2> HIDE DEF d, l, g, b, s, R
    <2>3. Signed(f, g, b, d * R, l + i, z, a, m)
      BY <1>1, <1>3, <1>5, <1>0, <2>1, <2>2, SignedShift
    <2> QED
      BY <2>3 DEF d, l
  <1>7. f * c + g * b = m
    <2> DEFINE d == t.c
    <2>1. d \in Nat /\ t.f * d = f * (d * R)
      <3> HIDE DEF R
      <3>1. d \in Nat
        BY <1>1
      <3> HIDE DEF d
      <3>2. (f * R) * d = f * (d * R)
        BY <1>3, <1>4, <3>1
      <3> QED
        BY <1>3, <3>1, <3>2
    <2> HIDE DEF R
    <2> QED
      BY <1>1, <2>1
  <1>8. c = 0 => t.c = 0
    <2> DEFINE d == t.c
    <2>1. d \in Nat
      BY <1>1
    <2> HIDE DEF d, R
    <2>2. d * R = 0 => d = 0
      BY <1>4, <2>1
    <2> QED
      BY <2>2 DEF d
  <1>9. f <= t.f
    <2> HIDE DEF R
    <2>1. f <= f * R
      BY <1>3, <1>4
    <2> QED
      BY <1>3, <2>1
  <1>10. f # 1
    <2> SUFFICES ASSUME f = 1 PROVE FALSE
      OBVIOUS
    <2>1. t.f = R
      <3> HIDE DEF R
      <3>1. 1 * R = R
        BY <1>4
      <3> QED
        BY <1>3, <3>1
    <2> QED
      BY <2>1 DEF i
  <1> DEFINE tf == t.f
  <1>11. /\ f \in Nat \ {0} /\ g \in Nat \ {0} /\ b \in Nat /\ c \in Nat /\ k \in Nat /\ s \in BOOLEAN
         /\ b >= 1 /\ (c = 0 => b = 1) /\ g % 2 = 1 /\ f % 2 = 1 /\ tf \in Nat /\ f <= tf /\ f * c + g * b = m
    BY <1>1, <1>3, <1>5, <1>7, <1>8, <1>9
  <1>12. ~(f < g) => new = [f |-> f - g, g |-> g, b |-> b + c, c |-> c, k |-> k, s |-> s]
    BY <1>1, <1>2
  <1> HIDE DEF g, b, c, k, s, tf
  <1>13. CASE f < g
    <2>1. new = [f |-> g - f, g |-> f, b |-> c + b, c |-> b, k |-> k, s |-> ~s]
      BY <1>2, <1>13
    <2>2. Signed(g - f, f, c + b, b, k, 0 - z, a, m)
      BY <1>0, <1>5, <1>6, <1>11, SignedSwap
    <2>3. (g - f) * b + f * (c + b) = m
      <3>1. (g - f) * b + f * (c + b) = f * c + g * b
        BY <1>11
      <3> QED
        BY <1>11, <3>1
    <2>4. g - f \in Nat \ {0} /\ c + b \in Nat /\ c + b >= 1 /\ b # 0
      BY <1>11, <1>13
    <2>5. /\ new.f = g - f /\ new.g = f /\ new.b = c + b /\ new.c = b /\ new.k = k /\ new.s = ~s
          /\ new \in Turns
      <3>1. (~s) \in BOOLEAN
        BY <1>11
      <3> QED
        BY <1>11, <2>1, <2>4, <3>1 DEF Turns
    <2>8. Sign(new.s) = 0 - z
      BY <1>0, <2>5 DEF s
    <2>6. Almost(new, a, m)
      BY <1>11, <2>2, <2>3, <2>4, <2>5, <2>8 DEF Almost
    <2>7. new.f + new.g < tf + g
      BY <1>11, <1>13, <2>5
    <2> QED
      BY <2>6, <2>7 DEF new, tf, g
  <1>14. CASE ~(f < g)
    <2>1. new = [f |-> f - g, g |-> g, b |-> b + c, c |-> c, k |-> k, s |-> s]
      BY <1>12, <1>14
    <2>2. Signed(f - g, g, b + c, c, k, z, a, m)
      BY <1>0, <1>5, <1>6, <1>11, SignedLess
    <2>3. (f - g) * c + g * (b + c) = m
      <3>1. (f - g) * c + g * (b + c) = f * c + g * b
        BY <1>11
      <3> QED
        BY <1>11, <3>1
    <2>4. /\ f - g \in Nat /\ b + c \in Nat /\ b + c >= 1 /\ (c = 0 => b + c = 1)
          /\ (f - g = 0 => g > 1)
      BY <1>10, <1>11, <1>14
    <2>5. /\ new.f = f - g /\ new.g = g /\ new.b = b + c /\ new.c = c /\ new.k = k /\ new.s = s
          /\ new \in Turns
      BY <1>11, <2>1, <2>4 DEF Turns
    <2>8. Sign(new.s) = z
      BY <2>5 DEF s, z
    <2>6. Almost(new, a, m)
      BY <1>11, <2>2, <2>3, <2>4, <2>5, <2>8 DEF Almost
    <2>7. new.f + new.g < tf + g
      BY <1>11, <1>14, <2>5
    <2> QED
      BY <2>6, <2>7 DEF new, tf, g
  <1> QED
    BY <1>13, <1>14

\* Before the first turn.
LEMMA AlmostStart ==
    ASSUME NEW a \in Nat, NEW m \in Nat, m % 2 = 1, m > 1, NEW t,
           t = [f |-> a, g |-> m, b |-> 1, c |-> 0, k |-> 0, s |-> FALSE]
    PROVE  Almost(t, a, m)
  <1>1. t \in Turns /\ t.f = a /\ t.g = m /\ t.b = 1 /\ t.c = 0 /\ t.k = 0 /\ t.s = FALSE
    BY DEF Turns
  <1>2. Sign(t.s) = 1
    BY <1>1 DEF Sign
  <1>3. Raised(2, 0) = 1
    BY TwoIs, RaisedZero
  <1>4. a * 0 + m * 1 = m
    OBVIOUS
  <1> DEFINE one == 1
             zero == 0
  <1>5. Signed(a, m, one, zero, zero, one, a, m)
    <2>1. Cong(one * a, one * (Raised(2, zero) * a), m)
      <3>1. one * a = a /\ one * (Raised(2, zero) * a) = a /\ a \in Int /\ m \in Int
        BY <1>3
      <3>2. Cong(a, a, m)
        BY <3>1, CongSelf
      <3> HIDE DEF one, zero
      <3> QED
        BY <3>1, <3>2
    <2>2. Cong(zero * a, (0 - one) * (Raised(2, zero) * m), m)
      <3> DEFINE x == zero * a
                 y == (0 - one) * (Raised(2, zero) * m)
      <3>1. x = 0 /\ y = 0 - m /\ x \in Int /\ y \in Int /\ m \in Int
        BY <1>3
      <3>2. x = y + one * m /\ one \in Int
        BY <3>1
      <3> HIDE DEF x, y, one
      <3>3. Cong(x, y, m)
        BY <3>1, <3>2, CongFrom
      <3> QED
        BY <3>3 DEF x, y
    <2> HIDE DEF one, zero
    <2> QED
      BY <2>1, <2>2 DEF Signed
  <1>6. Signed(t.f, t.g, t.b, t.c, t.k, Sign(t.s), a, m)
    BY <1>1, <1>2, <1>5
  <1>7. t.f * t.c + t.g * t.b = m
    BY <1>1, <1>4
  <1>8. t.g % 2 = 1 /\ t.b >= 1 /\ (t.c = 0 => t.b = 1) /\ (t.f = 0 => t.g > 1)
    BY <1>1
  <1> QED
    BY <1>1, <1>6, <1>7, <1>8 DEF Almost

\* d divides both a and m, and is none that every number has.
Shared(d, a, m) == d \in Nat /\ d > 1 /\ Divides(d, a) /\ Divides(d, m)

\* What AlmostInverse finds: 2^k/a, or nothing as there is a common divisor.
Found(r, a, m) ==
    /\ r.inverse \in 0 .. m - 1 /\ r.k \in Nat
    /\ Cong(r.inverse * a, Raised(2, r.k), m) \/ (r.inverse = 0 /\ r.k = 0 /\ \E d : Shared(d, a, m))

\* f has become 0: g divides both.
LEMMA AlmostNone ==
    ASSUME NEW a \in Nat, NEW m \in Nat, m > 1, NEW t, Almost(t, a, m), t.f = 0
    PROVE  Found([inverse |-> 0, k |-> 0], a, m)
  <1> DEFINE g == t.g
             b == t.b
             c == t.c
             K == Raised(2, t.k)
             z == Sign(t.s)
  <1>1. /\ t.f * c + g * b = m /\ b >= 1 /\ g > 1 /\ g \in Nat /\ b \in Nat /\ c \in Nat /\ t.k \in Nat
        /\ t.s \in BOOLEAN /\ Signed(t.f, g, b, c, t.k, z, a, m)
    BY DEF Almost, Turns
  <1>2. K \in Int
    <2> DEFINE l == t.k
    <2>1. l \in Nat
      BY <1>1
    <2> HIDE DEF l
    <2>2. Raised(2, l) \in Int
      BY <2>1, TwoIs, RaisedNext
    <2> QED
      BY <2>2 DEF l
  <1>3. z \in Int
    BY <1>1, SignIs
  <1>4. Cong(b * a, z * (K * 0), m)
    BY <1>1 DEF Signed
  <1> HIDE DEF g, b, c, K, z
  <1>5. z * (K * 0) = 0 /\ 0 * c = 0
    BY <1>1, <1>2, <1>3
  <1>6. PICK q \in Int : b * a = 0 + q * m
    BY <1>4, <1>5 DEF Cong
  <1>7. m = g * b
    <2>1. g * b \in Nat
      BY <1>1
    <2> QED
      BY <1>1, <1>5, <2>1
  <1>8. a = g * q
    <2>1. b * a = b * (g * q)
      <3>1. q * (g * b) = b * (g * q)
        BY <1>1
      <3>2. q * m \in Int
        OBVIOUS
      <3> QED
        BY <1>6, <1>7, <3>1, <3>2
    <2> DEFINE v == g * q
    <2>2. v \in Int
      BY <1>1
    <2> HIDE DEF v
    <2>3. b * (a - v) = 0
      <3>1. b * (a - v) = b * a - b * v /\ b * a \in Int
        BY <1>1, <2>2
      <3>2. b * a = b * v
        BY <2>1 DEF v
      <3> DEFINE w == b * v
      <3>3. w \in Int
        BY <1>1, <2>2
      <3> HIDE DEF w
      <3> QED
        BY <3>1, <3>2, <3>3 DEF w
    <2>4. a - v = 0
      <3> DEFINE w == a - v
      <3>1. w \in Int /\ b * w = 0
        BY <2>2, <2>3
      <3> HIDE DEF w
      <3> QED
        BY <1>1, <3>1 DEF w
    <2> QED
      BY <2>2, <2>4 DEF v
  <1>9. Divides(g, a) /\ Divides(g, m)
    <2>1. b \in Int
      BY <1>1
    <2> QED
      BY <1>7, <1>8, <2>1 DEF Divides
  <1>10. Shared(g, a, m)
    BY <1>1, <1>9 DEF Shared
  <1> DEFINE r == [inverse |-> 0, k |-> 0]
  <1>11. r.inverse = 0 /\ r.k = 0 /\ 0 \in 0 .. m - 1 /\ 0 \in Nat
    OBVIOUS
  <1> HIDE DEF r
  <1>12. Found(r, a, m)
    BY <1>10, <1>11 DEF Found
  <1> QED
    BY <1>12 DEF r

\* f has become a power of 2: b is the inverse, up to its sign.
LEMMA AlmostFound ==
    ASSUME NEW a \in Nat, NEW m \in Nat, m > 1, NEW t, Almost(t, a, m), t.f # 0,
           t.f = Raised(2, TrailingZeros(t.f))
    PROVE  Found([inverse |-> IF t.s THEN m - t.b ELSE t.b, k |-> t.k + TrailingZeros(t.f)], a, m)
  <1> DEFINE i == TrailingZeros(t.f)
             k == t.k
             R == Raised(2, i)
             K == Raised(2, k)
             f == t.f
             g == t.g
             b == t.b
             c == t.c
             s == t.s
             z == Sign(s)
             v == IF s THEN m - b ELSE b
  <1>1. /\ f * c + g * b = m /\ b >= 1 /\ f \in Nat \ {0} /\ g \in Nat \ {0} /\ b \in Nat /\ c \in Nat
        /\ k \in Nat /\ s \in BOOLEAN /\ Signed(f, g, b, c, k, z, a, m) /\ (c = 0 => b = 1)
    BY DEF Almost, Turns
  <1>2. f = R
    OBVIOUS
  <1>3. i \in Nat
    <2> HIDE DEF f
    <2> QED
      BY <1>1, ZerosAre DEF f
  <1> HIDE DEF f, g, b, c, k, i, s
  <1>4. R \in Nat /\ K \in Nat /\ Raised(2, k + i) = K * R
    <2>1. R \in Nat \ {0} /\ K \in Nat \ {0}
      BY <1>1, <1>3, TwoIs, RaisedNat
    <2>2. Raised(2, k + i) = K * R
      BY <1>1, <1>3, TwoIs, RaisedPlus
    <2> QED
      BY <2>1, <2>2
  <1>5. Cong(b * a, z * (K * R), m)
    BY <1>1, <1>2 DEF Signed
  <1> HIDE DEF R, K
  <1>6. b \in 1 .. m - 1
    <2>1. CASE c = 0
      BY <1>1, <2>1
    <2>2. CASE c # 0
      <3>1. f * c >= 1 /\ g * b >= b /\ f * c \in Nat /\ g * b \in Nat
        BY <1>1, <2>2
      <3> QED
        BY <1>1, <3>1
    <2> QED
      BY <2>1, <2>2
  <1> DEFINE x == K * R
  <1>7. x \in Int
    BY <1>4
  <1>8. Cong(b * a, z * x, m)
    BY <1>5
  <1> HIDE DEF x
  <1>9. v \in 0 .. m - 1 /\ Cong(v * a, x, m)
    <2>1. CASE s
      <3>1. v = m - b /\ z = -1
        BY <2>1 DEF Sign
      <3>2. PICK q \in Int : b * a = z * x + q * m
        BY <1>8 DEF Cong
      <3>3. z * x = 0 - x
        BY <1>7, <3>1
      <3>4. (m - b) * a = x + (a - q) * m
        <4> DEFINE o == b * a
                   l == q * m
        <4>1. (m - b) * a = m * a - o /\ (a - q) * m = m * a - l /\ m * a \in Int /\ o \in Int /\ l \in Int
          BY <1>6
        <4>2. o = (0 - x) + l
          BY <3>2, <3>3
        <4> DEFINE y == m * a
        <4>3. (m - b) * a = y - o /\ (a - q) * m = y - l /\ y \in Int
          BY <4>1
        <4> HIDE DEF o, l, y
        <4> QED
          BY <1>7, <4>1, <4>2, <4>3
      <3> DEFINE y == (m - b) * a
                 w == a - q
      <3>5. y \in Int /\ w \in Int /\ m \in Int /\ y = x + w * m
        BY <1>6, <3>4
      <3> HIDE DEF y, w
      <3>6. Cong(y, x, m)
        BY <1>7, <3>5, CongFrom
      <3> HIDE DEF v
      <3>7. v \in 0 .. m - 1
        BY <1>6, <3>1
      <3> QED
        BY <3>1, <3>6, <3>7 DEF y
    <2>2. CASE ~s
      <3>1. v = b /\ z = 1
        BY <2>2 DEF Sign
      <3>2. z * x = x
        BY <1>7, <3>1
      <3> HIDE DEF v
      <3>3. v \in 0 .. m - 1
        BY <1>6, <3>1
      <3> QED
        BY <1>8, <3>1, <3>2, <3>3
    <2> QED
      BY <2>1, <2>2
  <1> DEFINE r == [inverse |-> v, k |-> k + i]
  <1>10. r.inverse = v /\ r.k = k + i /\ k + i \in Nat
    BY <1>1, <1>3
  <1> HIDE DEF r, v
  <1>11. Found(r, a, m)
    BY <1>4, <1>9, <1>10 DEF Found, x
  <1> QED
    BY <1>11 DEF r, v, k, i, s, b

\* A turn of numbers like these gives numbers like these.
LEMMA TurnsClosed ==
    ASSUME NEW t \in Turns, t.f # 0
    PROVE  NextTurn(t) \in Turns
  <1> DEFINE i == TrailingZeros(t.f)
             R == Raised(2, i)
             f == t.f \div R
             c == t.c * R
  <1>1. /\ t = [f |-> t.f, g |-> t.g, b |-> t.b, c |-> t.c, k |-> t.k, s |-> t.s]
        /\ t.f \in Nat \ {0} /\ t.g \in Nat \ {0} /\ t.b \in Nat /\ t.c \in Nat /\ t.k \in Nat
        /\ t.s \in BOOLEAN
    BY DEF Turns
  <1>2. i \in Nat /\ f \in Nat \ {0}
    <2> DEFINE n == t.f
    <2>1. n \in Nat \ {0}
      BY <1>1
    <2> HIDE DEF n
    <2>2. TrailingZeros(n) \in Nat /\ n \div Raised(2, TrailingZeros(n)) \in Nat \ {0}
      BY <2>1, ZerosAre
    <2> QED
      BY <2>2 DEF n
  <1>3. R \in Nat
    BY <1>2, TwoIs, RaisedNat
  <1>4. c \in Nat /\ t.k + i \in Nat
    <2> HIDE DEF R, i
    <2> QED
      BY <1>1, <1>2, <1>3
  <1>5. NextTurn(t) = IF f < t.g
                      THEN [f |-> t.g - f, g |-> f, b |-> c + t.b, c |-> t.b, k |-> t.k + i, s |-> ~t.s]
                      ELSE [t EXCEPT !.f = f - t.g, !.b = @ + c, !.c = c, !.k = @ + i]
    BY DEF NextTurn
  <1>6. (~t.s) \in BOOLEAN
    BY <1>1
  <1> DEFINE new == NextTurn(t)
  <1> HIDE DEF f, c, i, new
  <1>7. CASE f < t.g
    <2>1. new = [f |-> t.g - f, g |-> f, b |-> c + t.b, c |-> t.b, k |-> t.k + i, s |-> ~t.s]
      BY <1>5, <1>7 DEF new
    <2>2. t.g - f \in Nat /\ c + t.b \in Nat
      BY <1>1, <1>2, <1>4, <1>7
    <2>3. new \in Turns
      BY <1>1, <1>2, <1>4, <1>6, <2>1, <2>2 DEF Turns
    <2> QED
      BY <2>3 DEF new
  <1>8. CASE ~(f < t.g)
    <2>1. new = [t EXCEPT !.f = f - t.g, !.b = @ + c, !.c = c, !.k = @ + i]
      BY <1>5, <1>8 DEF new
    <2>2. new = [f |-> f - t.g, g |-> t.g, b |-> t.b + c, c |-> c, k |-> t.k + i, s |-> t.s]
      BY <1>1, <2>1
    <2>3. f - t.g \in Nat /\ t.b + c \in Nat
      BY <1>1, <1>2, <1>4, <1>8
    <2>4. new \in Turns
      BY <1>1, <1>2, <1>4, <2>2, <2>3 DEF Turns
    <2> QED
      BY <2>4 DEF new
  <1> QED
    BY <1>7, <1>8

\* The loop of AlmostInverse.
LEMMA AlmostInverseIs ==
    ASSUME NEW a \in Nat, NEW m \in Nat, m % 2 = 1, m > 1
    PROVE  Found(AlmostInverse(a, m), a, m)
  <1> DEFINE X == Turns
             none == [inverse |-> 0, k |-> 0]
             done == {t \in Turns : t.f = 0 \/ t.f = Raised(2, TrailingZeros(t.f))}
             res(t) == [inverse |-> IF t.s THEN m - t.b ELSE t.b, k |-> t.k + TrailingZeros(t.f)]
             out == [t \in Turns |-> IF t.f = 0 THEN none ELSE res(t)]
             next == [t \in Turns |-> NextTurn(t)]
             Body(f) == [t \in Turns |->
                           IF t.f = 0 THEN none
                           ELSE IF t.f = Raised(2, TrailingZeros(t.f)) THEN res(t)
                           ELSE f[NextTurn(t)]]
             F == CHOOSE f : f = Body(f)
             I == {t \in Turns : Almost(t, a, m)}
             G == {r \in [inverse : 0 .. m - 1, k : Nat] : Found(r, a, m)}
             mu == [t \in I |-> t.f + t.g]
             start == [f |-> a, g |-> m, b |-> 1, c |-> 0, k |-> 0, s |-> FALSE]
  <1>1. AlmostInverse(a, m) = F[start]
    BY DEF AlmostInverse
  <1> HIDE DEF res
  <1>2. \A f : Body(f) = [t \in X |-> IF t \in done THEN out[t] ELSE f[next[t]]]
    <2> SUFFICES ASSUME NEW f
                 PROVE  Body(f) = [t \in X |-> IF t \in done THEN out[t] ELSE f[next[t]]]
      OBVIOUS
    <2>1. ASSUME NEW t \in Turns
          PROVE  (IF t.f = 0 THEN none
                  ELSE IF t.f = Raised(2, TrailingZeros(t.f)) THEN res(t)
                  ELSE f[NextTurn(t)]) = (IF t \in done THEN out[t] ELSE f[next[t]])
      OBVIOUS
    <2> QED
      BY <2>1
  <1>3. \E f : IsTail(f, X, done, out, next)
    <2>1. \A t \in X : t \notin done => next[t] \in X
      BY TurnsClosed
    <2> HIDE DEF X, done, out, next
    <2> QED
      BY <2>1, TailExists
  <1>4. IsTail(F, X, done, out, next)
    <2>1. \A f : f = Body(f) <=> IsTail(f, X, done, out, next)
      BY <1>2 DEF IsTail
    <2> HIDE DEF Body, X, done, out, next
    <2>2. F = Body(F)
      BY <1>3, <2>1
    <2> HIDE DEF F
    <2> QED
      BY <2>1, <2>2
  <1>5. start \in I
    <2>1. Almost(start, a, m)
      BY AlmostStart
    <2> HIDE DEF start
    <2> QED
      BY <2>1 DEF Almost
  <1>6. I \in SUBSET X /\ mu \in [I -> Nat]
    <2>1. \A t \in I : t.f + t.g \in Nat
      BY DEF Turns
    <2> QED
      BY <2>1
  <1>7. ASSUME NEW t \in I, t \in done
        PROVE  out[t] \in G
    <2>1. Almost(t, a, m) /\ t \in Turns
      OBVIOUS
    <2>2. Found(out[t], a, m)
      <3>1. CASE t.f = 0
        <4>1. Found(none, a, m)
          BY <2>1, <3>1, AlmostNone
        <4>2. out[t] = none
          BY <2>1, <3>1
        <4> QED
          BY <4>1, <4>2
      <3>2. CASE t.f # 0
        <4>1. t.f = Raised(2, TrailingZeros(t.f))
          BY <1>7, <3>2
        <4>2. Found(res(t), a, m)
          BY <2>1, <3>2, <4>1, AlmostFound DEF res
        <4>3. out[t] = res(t)
          BY <2>1, <3>2
        <4> QED
          BY <4>2, <4>3
      <3> QED
        BY <3>1, <3>2
    <2> DEFINE r == out[t]
    <2>3. r = [inverse |-> r.inverse, k |-> r.k]
      BY <2>1 DEF res
    <2> HIDE DEF r
    <2>4. r \in [inverse : 0 .. m - 1, k : Nat]
      BY <2>2, <2>3 DEF Found, r
    <2> QED
      BY <2>2, <2>4 DEF r
  <1>8. ASSUME NEW t \in I, t \notin done
        PROVE  next[t] \in I /\ mu[next[t]] < mu[t]
    <2>1. Almost(t, a, m) /\ t \in Turns /\ t.f # 0 /\ t.f # Raised(2, TrailingZeros(t.f))
      BY <1>8
    <2> DEFINE v == NextTurn(t)
    <2>2. Almost(v, a, m) /\ v.f + v.g < t.f + t.g
      BY <2>1, AlmostTurn
    <2>3. v \in Turns
      BY <2>2 DEF Almost
    <2>4. next[t] = v
      BY <2>1
    <2> HIDE DEF v, next
    <2>5. v \in I
      BY <2>2, <2>3
    <2>6. mu[v] = v.f + v.g /\ mu[t] = t.f + t.g
      BY <2>5
    <2> QED
      BY <2>2, <2>4, <2>5, <2>6
  <1>9. F[start] \in G
    <2> HIDE DEF X, done, out, next, F, I, G, mu, start
    <2> QED
      BY <1>4, <1>5, <1>6, <1>7, <1>8, TailResult
  <1> HIDE DEF F
  <1> QED
    BY <1>1, <1>9

-----------------------------------------------------------------------------
(* Inverses: InverseMod *)

\* 2 can be cancelled modulo an odd number.
LEMMA CancelTwo ==
    ASSUME NEW m \in Nat, m % 2 = 1, NEW x \in Int, NEW y \in Int, Cong(2 * x, 2 * y, m)
    PROVE  Cong(x, y, m)
  <1>1. PICK q \in Int : 2 * x = 2 * y + q * m
    BY DEF Cong
  <1> DEFINE h == q \div 2
             l == m \div 2
  <1>2. 2 \in Nat \ {0} /\ m \in Int
    OBVIOUS
  <1>3. h \in Int /\ q % 2 \in 0 .. 2 - 1 /\ q = h * 2 + (q % 2)
    BY <1>2, Division
  <1>4. l \in Int /\ m = l * 2 + 1
    <2>1. l \in Int /\ m = l * 2 + (m % 2)
      BY <1>2, Division
    <2> HIDE DEF l
    <2> QED
      BY <2>1
  <1> DEFINE r == q % 2
  <1>5. r = 0 \/ r = 1
    BY <1>3
  <1>6. q = h * 2 + r
    BY <1>3
  <1> HIDE DEF h, l, r
  <1>7. r = 0
    <2> SUFFICES ASSUME r = 1 PROVE FALSE
      BY <1>5
    <2> DEFINE z == x - y - q * l - h
    <2>1. q * m = (q * l) * 2 + q
      BY <1>4
    <2>2. z \in Int /\ 2 * z = 1
      <3> DEFINE o == q * l
      <3>1. o \in Int
        BY <1>4
      <3>2. q * m = o * 2 + q
        BY <2>1
      <3>3. 2 * x = 2 * y + (o * 2 + q)
        BY <1>1, <3>2
      <3>4. q = h * 2 + 1
        BY <1>6
      <3> HIDE DEF o
      <3>5. 2 * (x - y - o - h) = 1 /\ x - y - o - h \in Int
        BY <1>3, <3>1, <3>3, <3>4
      <3> QED
        BY <3>5 DEF o
    <2> HIDE DEF z
    <2> QED
      BY <2>2
  <1>8. x = y + h * m
    <2> DEFINE o == h * m
    <2>1. o \in Int /\ q * m = 2 * o
      BY <1>2, <1>3, <1>6, <1>7
    <2>2. 2 * x = 2 * y + 2 * o
      BY <1>1, <2>1
    <2> HIDE DEF o
    <2>3. x = y + o
      BY <2>1, <2>2
    <2> QED
      BY <2>3 DEF o
  <1> QED
    BY <1>2, <1>3, <1>8, CongFrom

\* Half of x modulo m.
Half(x, m) == IF x % 2 = 0 THEN x \div 2 ELSE (x + m) \div 2

\* Twice the half is the number again.
LEMMA HalfIs ==
    ASSUME NEW m \in Nat, m % 2 = 1, NEW x \in 0 .. m - 1
    PROVE  Half(x, m) \in 0 .. m - 1 /\ Cong(2 * Half(x, m), x, m)
  <1>1. 2 \in Nat \ {0} /\ m \in Int /\ x \in Int /\ x + m \in Int /\ 0 \in Int /\ 1 \in Int
    OBVIOUS
  <1> DEFINE l == m \div 2
             h == x \div 2
             r == x % 2
             y == x + m
             g == y \div 2
             s == y % 2
  <1>2. l \in Int /\ m = l * 2 + 1
    <2>1. l \in Int /\ m = l * 2 + (m % 2)
      BY <1>1, Division
    <2> HIDE DEF l
    <2> QED
      BY <2>1
  <1>3. h \in Int /\ r \in 0 .. 2 - 1 /\ x = h * 2 + r
    BY <1>1, Division
  <1>4. g \in Int /\ s \in 0 .. 2 - 1 /\ y = g * 2 + s
    <2>1. y \in Int
      BY <1>1
    <2> HIDE DEF y
    <2> QED
      BY <1>1, <2>1, Division
  <1>5. Half(x, m) = IF r = 0 THEN h ELSE g
    BY DEF Half
  <1>6. y = x + m
    OBVIOUS
  <1> HIDE DEF l, h, r, y, g, s
  <1>7. CASE r = 0
    <2>1. Half(x, m) = h
      BY <1>5, <1>7
    <2>2. h \in 0 .. m - 1 /\ 2 * h = x
      BY <1>3, <1>7
    <2>3. Cong(x, x, m)
      BY <1>1, CongSelf
    <2> QED
      BY <2>1, <2>2, <2>3
  <1>8. CASE r # 0
    <2>1. Half(x, m) = g
      BY <1>5, <1>8
    <2>2. r = 1
      BY <1>3, <1>8
    <2>3. s = 0
      BY <1>2, <1>3, <1>4, <1>6, <2>2
    <2>4. g \in 0 .. m - 1 /\ 2 * g = x + m
      BY <1>4, <1>6, <2>3
    <2> DEFINE z == 2 * g
    <2>5. z \in Int /\ z = x + 1 * m
      BY <2>4
    <2> HIDE DEF z
    <2>6. Cong(z, x, m)
      BY <1>1, <2>5, CongFrom
    <2> QED
      BY <2>1, <2>4, <2>6 DEF z
  <1> QED
    BY <1>7, <1>8

\* r is 2^k / a; halved k times modulo m it is 1/a, and 0 stays 0.
LEMMA DivideIs ==
    ASSUME NEW m \in Nat, m % 2 = 1, NEW k \in Nat, NEW r \in 0 .. m - 1, NEW a \in Int
    PROVE  /\ DivideByPower2Mod(r, k, m) \in 0 .. m - 1
           /\ Cong(r * a, Raised(2, k), m) => Cong(DivideByPower2Mod(r, k, m) * a, 1, m)
           /\ k = 0 => DivideByPower2Mod(r, k, m) = r
  <1> DEFINE X == 0 .. m - 1
             Body(f) == [i \in 0..k |-> IF i = 0 THEN r
                            ELSE LET x == f[i - 1] IN IF x % 2 = 0 THEN x \div 2 ELSE (x + m) \div 2]
             g == [y \in X \X (1..k) |-> Half(y[1], m)]
             F == CHOOSE f : f = Body(f)
  <1>1. DivideByPower2Mod(r, k, m) = F[k]
    BY DEF DivideByPower2Mod
  <1>2. \A x \in X : Half(x, m) \in X /\ Cong(2 * Half(x, m), x, m)
    BY HalfIs
  <1>3. Closed(g, X, k)
    BY <1>2 DEF Closed
  <1>4. \E f \in [0..k -> X] : f[0] = r /\ \A i \in 1..k : f[i] = g[<<f[i - 1], i>>]
    <2> HIDE DEF g, X
    <2>1. r \in X
      BY DEF X
    <2> QED
      BY <1>3, <2>1, Recursion
  <1>5. PICK f \in [0..k -> X] : f[0] = r /\ \A i \in 1..k : f[i] = g[<<f[i - 1], i>>]
    BY <1>4
  <1>6. ASSUME NEW i \in 1..k
        PROVE  f[i] = Half(f[i - 1], m)
    <2>1. f[i - 1] \in X
      BY <1>5
    <2> HIDE DEF X
    <2> QED
      BY <1>5, <2>1
  <1>7. \A h : Body(h) = [i \in 0..k |-> IF i = 0 THEN r ELSE Half(h[i - 1], m)]
    BY DEF Half
  <1> HIDE DEF Body
  <1>8. f = Body(f)
    <2>1. Body(f) = [i \in 0..k |-> IF i = 0 THEN r ELSE Half(f[i - 1], m)]
      BY <1>7
    <2> QED
      BY <1>5, <1>6, <2>1
  <1>9. F = Body(F)
    BY <1>8
  <1> HIDE DEF F
  <1>10. F[0] = r /\ \A i \in 1..k : F[i] = Half(F[i - 1], m)
    <2>1. F = [i \in 0..k |-> IF i = 0 THEN r ELSE Half(F[i - 1], m)]
      BY <1>7, <1>9
    <2>2. F[0] = r
      <3>1. 0 \in 0..k
        OBVIOUS
      <3> QED
        BY <2>1, <3>1
    <2>3. ASSUME NEW i \in 1..k
          PROVE  F[i] = Half(F[i - 1], m)
      <3>1. i \in 0..k /\ i # 0
        OBVIOUS
      <3> QED
        BY <2>1, <3>1
    <2> QED
      BY <2>2, <2>3
  <1> DEFINE S == {i \in 0..k : /\ F[i] \in X
                                /\ Cong(r * a, Raised(2, k), m) => Cong(F[i] * a, Raised(2, k - i), m)}
  <1>11. 0 \in S
    BY <1>10
  <1>12. ASSUME NEW i \in 0 .. k - 1, i \in S
         PROVE  i + 1 \in S
    <2> DEFINE x == F[i]
               h == Half(x, m)
               j == k - (i + 1)
    <2>1. /\ x \in 0 .. m - 1
          /\ Cong(r * a, Raised(2, k), m) => Cong(x * a, Raised(2, k - i), m)
      BY <1>12
    <2>2. i + 1 \in 1..k /\ (i + 1) - 1 = i /\ i + 1 \in 0..k /\ j \in Nat /\ k - i = j + 1
      OBVIOUS
    <2>3. F[i + 1] = h
      BY <1>10, <2>2
    <2> HIDE DEF x
    <2>4. h \in 0 .. m - 1 /\ Cong(2 * h, x, m)
      BY <2>1, HalfIs
    <2> HIDE DEF h, j
    <2>5. ASSUME Cong(x * a, Raised(2, j + 1), m)
          PROVE  Cong(h * a, Raised(2, j), m)
      <3> DEFINE K == Raised(2, j)
                 u == h * a
                 v == (2 * h) * a
                 w == x * a
                 y == 2 * K
      <3>1. K \in Int /\ Raised(2, j + 1) = 2 * K
        BY <2>2, TwoIs, RaisedNext
      <3>2. m \in Int /\ Cong(a, a, m) /\ u \in Int /\ v = 2 * u
        <4>1. m \in Int /\ h \in Int
          BY <2>4
        <4>2. h * a \in Int /\ (2 * h) * a = 2 * (h * a)
          BY <4>1
        <4> QED
          BY <4>1, <4>2, CongSelf
      <3>3. Cong(v, w, m)
        <4> DEFINE o == 2 * h
        <4>1. Cong(o, x, m)
          BY <2>4
        <4> HIDE DEF o
        <4>2. Cong(o * a, x * a, m)
          BY <3>2, <4>1, CongTimes
        <4> QED
          BY <4>2 DEF o
      <3>4. Cong(w, y, m)
        BY <2>5, <3>1
      <3>5. Cong(v, y, m)
        <4> HIDE DEF v, w, y
        <4> QED
          BY <3>2, <3>3, <3>4, CongOn
      <3>6. Cong(2 * u, 2 * K, m)
        BY <3>2, <3>5
      <3> HIDE DEF u, K
      <3>7. Cong(u, K, m)
        BY <3>1, <3>2, <3>6, CancelTwo
      <3> QED
        BY <3>7 DEF u, K
    <2>6. Cong(r * a, Raised(2, k), m) => Cong(h * a, Raised(2, k - (i + 1)), m)
      BY <2>1, <2>2, <2>5 DEF j
    <2> QED
      BY <2>2, <2>3, <2>4, <2>6
  <1>13. 0..k \subseteq S
    <2> HIDE DEF S
    <2> QED
      BY <1>11, <1>12, Upwards
  <1>14. k \in S /\ k - k = 0
    BY <1>13
  <1>15. Raised(2, 0) = 1
    BY TwoIs, RaisedZero
  <1>16. F[k] \in X /\ (Cong(r * a, Raised(2, k), m) => Cong(F[k] * a, 1, m))
    BY <1>14, <1>15
  <1>17. k = 0 => F[k] = r
    BY <1>10
  <1> QED
    BY <1>1, <1>16, <1>17

\* Modulo an odd number there is an inverse, or a common divisor and InverseMod is 0.
LEMMA InverseOrShared ==
    ASSUME NEW m \in Nat, m % 2 = 1, m > 1, NEW a \in Nat
    PROVE  /\ InverseMod(a, m) \in 0 .. m - 1
           /\ \/ Cong(InverseMod(a, m) * a, 1, m)
              \/ InverseMod(a, m) = 0 /\ \E d : Shared(d, a, m)
  <1> DEFINE al == AlmostInverse(a, m)
             r == al.inverse
             k == al.k
             d == DivideByPower2Mod(r, k, m)
  <1>1. InverseMod(a, m) = d
    BY DEF InverseMod, InverseModOdd
  <1>2. Found(al, a, m)
    BY AlmostInverseIs
  <1>3. /\ r \in 0 .. m - 1 /\ k \in Nat
        /\ Cong(r * a, Raised(2, k), m) \/ (r = 0 /\ k = 0 /\ \E e : Shared(e, a, m))
    BY <1>2 DEF Found
  <1> HIDE DEF al, r, k
  <1>4. /\ d \in 0 .. m - 1
        /\ Cong(r * a, Raised(2, k), m) => Cong(d * a, 1, m)
        /\ k = 0 => d = r
    <2>1. a \in Int
      OBVIOUS
    <2> QED
      BY <1>3, <2>1, DivideIs
  <1> HIDE DEF d
  <1> QED
    BY <1>1, <1>3, <1>4

\* What has an inverse shares no divisor.
LEMMA InverseUnshared ==
    ASSUME NEW m \in Nat, NEW a \in Nat, NEW i \in Int, Cong(i * a, 1, m), NEW d, Shared(d, a, m)
    PROVE  FALSE
  <1>1. d \in Nat /\ d > 1 /\ Divides(d, a) /\ Divides(d, m)
    BY DEF Shared
  <1>2. PICK q \in Int : i * a = 1 + q * m
    BY DEF Cong
  <1>3. PICK x \in Int : a = d * x
    BY <1>1 DEF Divides
  <1>4. PICK y \in Int : m = d * y
    BY <1>1 DEF Divides
  <1> DEFINE c == i * x - q * y
  <1>5. c \in Int /\ 1 = d * c
    <2>1. i * (d * x) = d * (i * x) /\ q * (d * y) = d * (q * y)
      BY <1>1
    <2> DEFINE u == i * x
               v == q * y
    <2>2. u \in Int /\ v \in Int /\ i * a = d * u /\ q * m = d * v
      BY <1>3, <1>4, <2>1
    <2>3. c = u - v
      OBVIOUS
    <2> HIDE DEF u, v, c
    <2>4. d * u = 1 + d * v
      BY <1>2, <2>2
    <2>5. d * (u - v) = d * u - d * v /\ d * u \in Int /\ d * v \in Int
      BY <1>1, <2>2
    <2> DEFINE du == d * u
               dv == d * v
    <2>6. du = 1 + dv /\ d * (u - v) = du - dv /\ du \in Int /\ dv \in Int
      BY <2>4, <2>5
    <2> HIDE DEF du, dv
    <2> QED
      BY <2>2, <2>3, <2>6
  <1> HIDE DEF c
  <1>6. Divides(d, 1)
    BY <1>5 DEF Divides
  <1>7. 1 \in Nat \ {0}
    OBVIOUS
  <1>8. d <= 1
    BY <1>1, <1>6, <1>7, DividesLess
  <1> QED
    BY <1>1, <1>8

\* InverseMod, modulo an odd number: the inverse where the greatest common divisor is 1,
\* and otherwise 0.
THEOREM InverseModIs ==
    ASSUME NEW m \in Nat, m % 2 = 1, m > 1, NEW a \in Nat
    PROVE  IF GCD(a, m) = 1
           THEN InverseMod(a, m) \in 1 .. m - 1 /\ (InverseMod(a, m) * a) % m = 1
           ELSE InverseMod(a, m) = 0
  <1> DEFINE i == InverseMod(a, m)
  <1>1. i \in 0 .. m - 1 /\ (Cong(i * a, 1, m) \/ (i = 0 /\ \E d : Shared(d, a, m)))
    BY InverseOrShared
  <1> HIDE DEF i
  <1>2. m \in Nat \ {0}
    OBVIOUS
  <1>3. ASSUME GCD(a, m) = 1
        PROVE  i \in 1 .. m - 1 /\ (i * a) % m = 1
    <2>1. ASSUME NEW d, Shared(d, a, m)
          PROVE  FALSE
      <3>1. d \in Nat \ {0} /\ d > 1 /\ CommonDivisor(d, <<a, m>>)
        BY <2>1 DEF Shared, CommonDivisor
      <3>2. d = 1
        BY <1>3, <3>1, GCDOne
      <3> QED
        BY <3>1, <3>2
    <2>2. Cong(i * a, 1, m)
      BY <1>1, <2>1
    <2>3. (i * a) % m = 1
      <3> DEFINE x == i * a
      <3>1. x \in Int /\ Cong(x, 1, m)
        BY <1>1, <2>2
      <3> HIDE DEF x
      <3>2. x % m = 1
        BY <3>1, OneMod
      <3> QED
        BY <3>2 DEF x
    <2>4. i # 0
      <3> SUFFICES ASSUME i = 0 PROVE FALSE
        OBVIOUS
      <3>1. (0 * a) % m = 0
        OBVIOUS
      <3> QED
        BY <2>3, <3>1
    <2> QED
      BY <1>1, <2>3, <2>4
  <1>4. ASSUME GCD(a, m) # 1
        PROVE  i = 0
    <2>1. PICK d \in Nat \ {0} : CommonDivisor(d, <<a, m>>) /\ d # 1
      BY <1>4, GCDOne
    <2>2. Shared(d, a, m)
      BY <2>1 DEF Shared, CommonDivisor
    <2>3. i \in Int
      BY <1>1
    <2>4. ~Cong(i * a, 1, m)
      BY <2>2, <2>3, InverseUnshared
    <2> QED
      BY <1>1, <2>4
  <1> QED
    BY <1>3, <1>4 DEF i

-----------------------------------------------------------------------------
(* Fermat's theorem *)

\* An odd prime.
OddPrime(p) == p \in Nat /\ Prime(p) /\ p % 2 = 1

\* The range of a prime, as the lemmas about numbers take it.
LEMMA PrimeIs ==
    ASSUME NEW p, OddPrime(p)
    PROVE  p \in Nat \ {0} /\ p \in Int /\ p > 1 /\ p - 1 \in Nat
  BY DEF OddPrime, Prime

\* What is less than a prime has an inverse.
LEMMA PrimeUnit ==
    ASSUME NEW p, OddPrime(p), NEW x \in 1 .. p - 1
    PROVE  Unit(x, p)
  <1>1. p \in Nat \ {0} /\ p > 1 /\ p % 2 = 1 /\ x \in Nat \ {0} /\ x < p /\ \A d \in 2 .. p - 1 : p % d # 0
    BY PrimeIs DEF OddPrime, Prime
  <1> DEFINE i == InverseMod(x, p)
  <1>2. i \in 0 .. p - 1 /\ (Cong(i * x, 1, p) \/ \E d : Shared(d, x, p))
    <2>1. p \in Nat /\ x \in Nat
      BY <1>1
    <2> QED
      BY <1>1, <2>1, InverseOrShared
  <1> HIDE DEF i
  <1>3. ASSUME NEW d, Shared(d, x, p)
        PROVE  FALSE
    <2>1. d \in Nat /\ d > 1 /\ Divides(d, x) /\ Divides(d, p)
      BY <1>3 DEF Shared
    <2>2. d <= x
      BY <1>1, <2>1, DividesLess
    <2>3. d \in 2 .. p - 1 /\ d \in Nat \ {0}
      BY <1>1, <2>1, <2>2
    <2>4. PICK c \in Int : p = d * c
      BY <2>1 DEF Divides
    <2>5. p = c * d + 0 /\ 0 \in 0 .. d - 1
      BY <2>3, <2>4
    <2> DEFINE zero == 0
    <2>6. p = c * d + zero /\ zero \in 0 .. d - 1
      BY <2>5
    <2> HIDE DEF zero
    <2>7. (c * d + zero) % d = zero
      BY <2>3, <2>6, QuotientOf
    <2>8. p % d = 0
      BY <2>6, <2>7 DEF zero
    <2> QED
      BY <1>1, <2>3, <2>8
  <1>4. Cong(i * x, 1, p)
    BY <1>2, <1>3
  <1>5. x * i = i * x /\ i \in Int
    BY <1>1, <1>2
  <1> QED
    BY <1>4, <1>5 DEF Unit

\* The multiples of a unit z modulo a prime p.
Spread(z, p) == [x \in 1 .. p - 1 |-> (z * x) % p]

\* They are less than p and not 0, and all different.
LEMMA SpreadIs ==
    ASSUME NEW p, OddPrime(p), NEW z \in Int, Unit(z, p), NEW x \in 1 .. p - 1
    PROVE  /\ Spread(z, p)[x] \in 1 .. p - 1 /\ Cong(Spread(z, p)[x], z * x, p)
           /\ \A y \in 1 .. p - 1 : Spread(z, p)[x] = Spread(z, p)[y] => x = y
  <1>1. p \in Nat \ {0} /\ p \in Int /\ p > 1
    BY PrimeIs
  <1>2. ASSUME NEW y \in 0 .. p - 1
        PROVE  (z * y) % p \in 0 .. p - 1 /\ Cong((z * y) % p, z * y, p) /\ Cong(z * y, (z * y) % p, p)
    <2> DEFINE w == z * y
    <2>1. w \in Int
      BY <1>1
    <2> HIDE DEF w
    <2>2. w % p \in 0 .. p - 1
      BY <1>1, <2>1, Division
    <2>3. Cong(w % p, w, p) /\ Cong(w, w % p, p)
      BY <1>1, <2>1, CongMod
    <2> QED
      BY <2>2, <2>3 DEF w
  <1>3. ASSUME NEW y \in 0 .. p - 1, (z * x) % p = (z * y) % p
        PROVE  x = y
    <2> DEFINE a == z * x
               b == z * y
               r == (z * x) % p
    <2>1. Cong(a, r, p) /\ Cong(r, b, p)
      <3>1. x \in 0 .. p - 1
        BY <1>1
      <3> QED
        BY <1>2, <1>3, <3>1
    <2>2. a = x * z /\ b = y * z /\ x \in Int /\ y \in Int
      BY <1>1
    <2> HIDE DEF a, b, r
    <2>3. Cong(a, b, p)
      BY <1>1, <2>1, CongOn
    <2>4. Cong(x * z, y * z, p)
      BY <2>2, <2>3
    <2>5. Cong(x, y, p)
      BY <1>1, <2>2, <2>4, CancelUnit
    <2>6. x \in 0 .. p - 1
      BY <1>1
    <2> QED
      BY <1>1, <2>5, <2>6, CongSame
  <1>4. x \in 0 .. p - 1 /\ 0 \in 0 .. p - 1 /\ x # 0
    BY <1>1
  <1>5. (z * x) % p # 0
    <2> SUFFICES ASSUME (z * x) % p = 0 PROVE FALSE
      OBVIOUS
    <2>1. (z * 0) % p = 0
      BY <1>1
    <2>2. x = 0
      BY <1>3, <1>4, <2>1
    <2> QED
      BY <1>4, <2>2
  <1>6. Spread(z, p)[x] = (z * x) % p
    BY DEF Spread
  <1>7. \A y \in 1 .. p - 1 : Spread(z, p)[y] = (z * y) % p /\ y \in 0 .. p - 1
    BY <1>1 DEF Spread
  <1> DEFINE r == (z * x) % p
  <1>8. r \in 1 .. p - 1 /\ Cong(r, z * x, p)
    <2>1. r \in 0 .. p - 1 /\ r # 0 /\ Cong(r, z * x, p)
      BY <1>2, <1>4, <1>5
    <2> HIDE DEF r
    <2> QED
      BY <1>1, <2>1
  <1> QED
    BY <1>3, <1>6, <1>7, <1>8

\* The first j multiples are j different numbers; their product is z^j times that of the
\* numbers up to j.
Spreading(A, j, z, p) ==
    /\ A \subseteq 1 .. p - 1 /\ IsFiniteSet(A) /\ Cardinality(A) = j
    /\ \E v, w \in Int : /\ IsProduct(v, A, p - 1) /\ IsProduct(w, 1..j, p - 1)
                         /\ Cong(v, Raised(z, j) * w, p) /\ Unit(w, p)

\* One more multiple.
LEMMA SpreadingMore ==
    ASSUME NEW p, OddPrime(p), NEW z \in Int, NEW j \in Nat, NEW x, x = j + 1, x \in 1 .. p - 1, NEW A, Spreading(A, j, z, p),
           NEW y \in 1 .. p - 1, y \notin A, Cong(y, z * x, p)
    PROVE  Spreading(A \cup {y}, x, z, p)
  <1> DEFINE n == p - 1
             R == Raised(z, j)
             B == A \cup {y}
  <1>1. p \in Int /\ n \in Nat /\ x \in Int /\ y \in Int
    BY PrimeIs
  <1>2. A \subseteq 1..n /\ IsFiniteSet(A) /\ Cardinality(A) = j
    BY DEF Spreading
  <1>3. PICK v \in Int, w \in Int : /\ IsProduct(v, A, n) /\ IsProduct(w, 1..j, n)
                                    /\ Cong(v, R * w, p) /\ Unit(w, p)
    BY DEF Spreading
  <1>4. R \in Int /\ Raised(z, x) = z * R
    BY RaisedNext
  <1> HIDE DEF n, R
  <1>5. IsProduct(y * v, B, n)
    <2>1. y \in 1..n
      BY DEF n
    <2> QED
      BY <1>1, <1>3, <2>1, ProductOfMore
  <1>6. IsProduct(x * w, 1..x, n)
    <2> DEFINE s == 1..j
    <2>1. x \in 1..n /\ x \notin s /\ IsProduct(w, s, n)
      BY <1>3 DEF n
    <2> HIDE DEF s
    <2>2. IsProduct(x * w, s \cup {x}, n)
      BY <1>1, <2>1, ProductOfMore
    <2>3. s \cup {x} = 1..x
      BY DEF s
    <2> QED
      BY <2>2, <2>3
  <1>7. Cong(y * v, Raised(z, x) * (x * w), p)
    <2> DEFINE a == z * x
               b == R * w
    <2>1. Cong(y, a, p) /\ Cong(v, b, p)
      BY <1>3
    <2>2. a * b = (z * R) * (x * w)
      <3> DEFINE o == R * w
                 q == z * R
                 l == x * w
      <3>1. (z * x) * (R * w) = (z * R) * (x * w)
        BY <1>1, <1>3, <1>4
      <3> QED
        BY <3>1
    <2> HIDE DEF a, b
    <2>3. Cong(y * v, a * b, p)
      BY <1>1, <2>1, CongTimes
    <2> QED
      BY <1>4, <2>2, <2>3
  <1>8. Unit(x * w, p)
    <2>1. Unit(x, p)
      BY PrimeUnit
    <2> QED
      BY <1>1, <1>3, <2>1, UnitTimes
  <1>9. IsFiniteSet(B) /\ Cardinality(B) = x
    BY <1>2, FS_AddElement
  <1>10. B \subseteq 1..n
    BY <1>2 DEF n
  <1>11. y * v \in Int /\ x * w \in Int
    BY <1>1, <1>3
  <1> DEFINE yv == y * v
             xw == x * w
  <1>12. yv \in Int /\ xw \in Int /\ IsProduct(yv, B, n) /\ IsProduct(xw, 1..x, n)
         /\ Cong(yv, Raised(z, x) * xw, p) /\ Unit(xw, p)
    BY <1>5, <1>6, <1>7, <1>8, <1>11
  <1> HIDE DEF yv, xw, B
  <1>13. Spreading(B, x, z, p)
    BY <1>9, <1>10, <1>12 DEF Spreading, n
  <1> QED
    BY <1>13 DEF B

\* z^(p-1) is 1 modulo p.
LEMMA FermatUnit ==
    ASSUME NEW p, OddPrime(p), NEW z \in Int, Unit(z, p)
    PROVE  Cong(Raised(z, p - 1), 1, p)
  <1> DEFINE n == p - 1
             f == Spread(z, p)
             A(j) == {f[x] : x \in 1..j}
             S == {j \in 0..n : Spreading(A(j), j, z, p)}
  <1>1. p \in Int /\ n \in Nat
    BY PrimeIs
  <1>2. \A x \in 1..n : /\ f[x] \in 1..n /\ Cong(f[x], z * x, p)
                        /\ \A y \in 1..n : f[x] = f[y] => x = y
    BY SpreadIs
  <1> HIDE DEF f
  <1>3. 0 \in S
    <2>1. A(0) = {} /\ 1..0 = {}
      OBVIOUS
    <2>2. IsFiniteSet({}) /\ Cardinality({}) = 0
      BY FS_EmptySet
    <2> DEFINE one == 1
               zero == 0
    <2>3. IsProduct(one, {}, p - 1) /\ one \in Int
      BY <1>1, ProductOfNone
    <2>4. Cong(one, Raised(z, zero) * one, p)
      <3>1. Raised(z, zero) * one = one
        BY RaisedZero
      <3> HIDE DEF one, zero
      <3> QED
        BY <1>1, <2>3, <3>1, CongSelf
    <2>5. Unit(one, p)
      <3>1. one * one = 1 /\ Cong(1, 1, p)
        <4>1. 1 \in Int
          OBVIOUS
        <4> QED
          BY <1>1, <4>1, CongSelf
      <3> QED
        BY <2>3, <3>1 DEF Unit
    <2>6. Spreading(A(zero), zero, z, p)
      <3>1. A(zero) = {} /\ 1..zero = {}
        BY <2>1
      <3>2. {} \subseteq 1 .. p - 1
        OBVIOUS
      <3> HIDE DEF A, one
      <3>3. Cardinality({}) = zero
        BY <2>2
      <3>4. \E v, w \in Int : /\ IsProduct(v, {}, p - 1) /\ IsProduct(w, {}, p - 1)
                         /\ Cong(v, Raised(z, zero) * w, p) /\ Unit(w, p)
        BY <2>3, <2>4, <2>5
      <3> HIDE DEF zero
      <3> QED
        BY <2>2, <3>1, <3>2, <3>3, <3>4 DEF Spreading
    <2>7. 0 \in 0..n
      BY <1>1
    <2> HIDE DEF A
    <2> QED
      BY <2>6, <2>7
  <1>4. ASSUME NEW j \in 0 .. n - 1, j \in S
        PROVE  j + 1 \in S
    <2> DEFINE x == j + 1
               y == f[x]
               B == A(j)
    <2>1. x \in 1..n /\ x \in 0..n /\ j \in Nat
      BY <1>1
    <2>2. y \in 1 .. p - 1 /\ Cong(y, z * x, p)
      BY <1>2, <2>1
    <2>3. y \notin B
      <3> SUFFICES ASSUME NEW i \in 1..j, f[i] = f[x] PROVE FALSE
        OBVIOUS
      <3>1. i \in 1..n /\ i # x
        BY <1>1
      <3> QED
        BY <1>2, <2>1, <3>1
    <2>4. A(x) = B \cup {y}
      <3>1. 1..x = (1..j) \cup {x}
        BY <2>1
      <3> HIDE DEF x
      <3> QED
        BY <3>1
    <2>5. Spreading(B, j, z, p)
      BY <1>4
    <2>6. x = j + 1 /\ x \in 1 .. p - 1
      BY <2>1
    <2> HIDE DEF B, y, x, A
    <2>7. Spreading(B \cup {y}, x, z, p)
      BY <2>1, <2>2, <2>3, <2>5, <2>6, SpreadingMore
    <2>8. x \in S
      BY <2>1, <2>4, <2>7
    <2> QED
      BY <2>8 DEF x
  <1>5. 0..n \subseteq S
    <2> HIDE DEF S
    <2> QED
      BY <1>1, <1>3, <1>4, Upwards
  <1> DEFINE C == A(n)
             R == Raised(z, n)
  <1>6. Spreading(C, n, z, p)
    BY <1>1, <1>5
  <1> HIDE DEF A
  <1>7. C = 1..n
    <2> DEFINE one == 1
               U == one..n
    <2>1. one \in Int /\ n \in Int /\ (one > n => n = 0) /\ (~(one > n) => n - one + 1 = n)
      BY <1>1
    <2>2. IsFiniteSet(U) /\ Cardinality(U) = IF one > n THEN 0 ELSE n - one + 1
      <3> HIDE DEF one, n
      <3> QED
        BY <2>1, FS_Interval
    <2>3. Cardinality(U) = n
      BY <2>1, <2>2
    <2>4. C \in SUBSET U /\ Cardinality(C) = n
      BY <1>6 DEF Spreading
    <2> HIDE DEF U, C, n
    <2>5. U = C
      BY <2>2, <2>3, <2>4, FS_Subset
    <2> QED
      BY <2>5 DEF U
  <1>8. PICK v \in Int, w \in Int : /\ IsProduct(v, C, p - 1) /\ IsProduct(w, 1..n, p - 1)
                                    /\ Cong(v, R * w, p) /\ Unit(w, p)
    BY <1>6 DEF Spreading
  <1>9. v = w
    <2> HIDE DEF C
    <2>1. IsProduct(v, 1..n, n) /\ IsProduct(w, 1..n, n)
      BY <1>7, <1>8
    <2> DEFINE s == 1..n
    <2>2. IsProduct(v, s, n) /\ IsProduct(w, s, n)
      BY <2>1
    <2> HIDE DEF s, n
    <2> QED
      BY <1>1, <2>2, ProductIsOne
  <1>10. R \in Int
    BY <1>1, RaisedNext
  <1> HIDE DEF R, C
  <1>11. Cong(1, R, p)
    <2> DEFINE one == 1
    <2>1. one * w = w /\ one \in Int
      OBVIOUS
    <2>2. Cong(one * w, R * w, p)
      BY <1>8, <1>9, <2>1
    <2> HIDE DEF one
    <2>3. Cong(one, R, p)
      BY <1>1, <1>8, <1>10, <2>1, <2>2, CancelUnit
    <2> QED
      BY <2>3 DEF one
  <1>12. Cong(R, 1, p)
    BY <1>1, <1>11, CongBack
  <1> QED
    BY <1>12 DEF R

\* The powers of 1.
LEMMA RaisedOfOne ==
    ASSUME NEW t \in Nat
    PROVE  Raised(1, t) = 1
  <1> DEFINE zero == 0
             two == 2
  <1>1. zero \in Nat /\ two \in Int /\ zero * t = zero
    OBVIOUS
  <1>2. Raised(two, zero) = 1
    BY TwoIs, RaisedZero
  <1> HIDE DEF zero, two
  <1>3. Raised(two, zero * t) = Raised(Raised(two, zero), t)
    BY <1>1, RaisedTwice
  <1> QED
    BY <1>1, <1>2, <1>3

\* Fermat's theorem as RSA uses it: with e * d = 1 modulo p - 1, raising to the power d
\* undoes raising to the power e.
LEMMA RootModPrime ==
    ASSUME NEW p, OddPrime(p), NEW e \in Nat, NEW d \in Nat, (e * d) % (p - 1) = 1, NEW z \in Int
    PROVE  Cong(Raised(z, e * d), z, p)
  <1> DEFINE n == p - 1
             k == e * d
             t == k \div n
             one == 1
             R == Raised(z, n)
             T == Raised(R, t)
  <1>1. p \in Nat \ {0} /\ p \in Int /\ n \in Nat \ {0} /\ one \in Int
    BY PrimeIs
  <1>2. t \in Nat /\ k = n * t + one
    <2>1. k \in Nat /\ k \in Int
      OBVIOUS
    <2>2. k % n = 1
      OBVIOUS
    <2> HIDE DEF k, n
    <2>3. t \in Nat
      BY <1>1, <2>1, DivNat
    <2>4. t \in Int /\ k = t * n + (k % n)
      BY <1>1, <2>1, Division
    <2> HIDE DEF t
    <2> QED
      BY <1>1, <2>2, <2>3, <2>4
  <1> HIDE DEF t, n, k
  <1>3. R \in Int
    BY <1>1, RaisedNext
  <1>4. T \in Int
    <2> HIDE DEF R
    <2> QED
      BY <1>2, <1>3, RaisedNext
  <1>5. Raised(z, k) = z * T
    <2> DEFINE l == n * t
    <2>1. l \in Nat /\ k = l + 1
      BY <1>1, <1>2
    <2>2. Raised(z, l) = T
      BY <1>1, <1>2, RaisedTwice
    <2> HIDE DEF l
    <2>3. Raised(z, l + 1) = z * Raised(z, l)
      BY <2>1, RaisedNext
    <2> QED
      BY <2>1, <2>2, <2>3
  <1> DEFINE r == z % p
  <1>6. r \in 0 .. p - 1
    BY <1>1, Division
  <1>7. Cong(r, z, p) /\ Cong(z, r, p) /\ Cong(z, z, p) /\ Cong(T, T, p)
    BY <1>1, <1>4, CongMod, CongSelf
  <1> HIDE DEF r
  <1>8. CASE r = 0
    <2> DEFINE zero == 0
    <2>1. Cong(z, zero, p) /\ Cong(zero, z, p) /\ zero * T = zero
      BY <1>4, <1>7, <1>8
    <2> HIDE DEF zero, T
    <2>2. Cong(z * T, zero * T, p)
      BY <1>1, <1>7, <2>1, CongTimes
    <2> DEFINE a == z * T
    <2>3. Cong(a, zero, p)
      BY <2>1, <2>2
    <2> HIDE DEF a
    <2>4. Cong(a, z, p)
      BY <1>1, <2>1, <2>3, CongOn
    <2> QED
      BY <1>5, <2>4 DEF a, k
  <1>9. CASE r # 0
    <2>1. r \in 1 .. p - 1 /\ r \in Int
      BY <1>1, <1>6, <1>9
    <2>2. Unit(r, p)
      BY <2>1, PrimeUnit
    <2>3. Unit(z, p)
      <3>1. PICK w \in Int : Cong(r * w, 1, p)
        BY <2>2 DEF Unit
      <3> DEFINE a == z * w
                 b == r * w
      <3>2. Cong(w, w, p)
        BY <1>1, CongSelf
      <3>3. Cong(a, b, p)
        BY <1>1, <1>7, <3>2, CongTimes
      <3>4. Cong(b, one, p)
        BY <3>1
      <3> HIDE DEF a, b, one
      <3>5. Cong(a, one, p)
        BY <1>1, <3>3, <3>4, CongOn
      <3> QED
        BY <3>5 DEF Unit, a, one
    <2>4. Cong(R, one, p)
      BY <2>3, FermatUnit DEF n
    <2>5. Raised(one, t) = one
      BY <1>2, RaisedOfOne
    <2> HIDE DEF R, one
    <2>6. Cong(T, Raised(one, t), p)
      BY <1>1, <1>2, <2>4, CongRaised
    <2>7. Cong(T, one, p)
      BY <2>5, <2>6
    <2> HIDE DEF T
    <2>8. Cong(z * T, z * one, p)
      BY <1>1, <1>7, <2>7, CongTimes
    <2>9. z * one = z
      BY DEF one
    <2> QED
      BY <1>5, <2>8, <2>9 DEF k
  <1> QED
    BY <1>8, <1>9

-----------------------------------------------------------------------------
(* The Chinese remainder theorem *)

\* CRT gives a number with both remainders.
LEMMA CrtIs ==
    ASSUME NEW p \in Nat \ {0}, NEW q \in Nat \ {0}, NEW u \in Int, Cong(u * q, 1, p),
           NEW x \in Int, NEW y \in Int
    PROVE  CRT(x, q, y, p, u) \in Int /\ Cong(CRT(x, q, y, p, u), x, q) /\ Cong(CRT(x, q, y, p, u), y, p)
  <1> DEFINE d == y - x
             w == u * d
             r == w % p
             c == CRT(x, q, y, p, u)
             one == 1
  <1>1. p \in Int /\ q \in Int /\ d \in Int /\ w \in Int /\ y = d + x
    OBVIOUS
  <1>2. c = q * r + x
    BY DEF CRT
  <1> HIDE DEF d, c
  <1>3. r \in Int /\ Cong(r, w, p)
    <2> HIDE DEF w
    <2>1. r \in 0 .. p - 1
      BY <1>1, Division
    <2>2. Cong(r, w, p)
      BY <1>1, CongMod
    <2> HIDE DEF r
    <2> QED
      BY <2>1, <2>2
  <1> HIDE DEF r
  <1>4. c \in Int /\ c = x + r * q
    BY <1>1, <1>2, <1>3
  <1>5. Cong(c, x, q)
    BY <1>1, <1>3, <1>4, CongFrom
  <1>6. Cong(c, y, p)
    <2> DEFINE uq == u * q
               a == q * r
               b == q * w
    <2>1. Cong(q, q, p) /\ Cong(d, d, p) /\ Cong(x, x, p) /\ Cong(uq, one, p)
      BY <1>1, CongSelf
    <2>2. b = uq * d /\ one * d = d
      BY <1>1
    <2>3. Cong(a, b, p)
      <3> HIDE DEF w
      <3> QED
        BY <1>1, <1>3, <2>1, CongTimes
    <2> HIDE DEF uq, one, a, b
    <2>4. Cong(uq * d, one * d, p)
      BY <1>1, <2>1, CongTimes
    <2>5. Cong(b, d, p)
      BY <2>2, <2>4
    <2>6. Cong(a, d, p)
      BY <1>1, <2>3, <2>5, CongOn
    <2>7. Cong(a + x, d + x, p)
      BY <1>1, <2>1, <2>6, CongPlus
    <2> QED
      BY <1>1, <1>2, <2>7 DEF a
  <1> QED
    BY <1>4, <1>5, <1>6 DEF c

-----------------------------------------------------------------------------
(* RSA *)

\* What Validate says of a key whose modulus has a Montgomery representation.
LEMMA KeyIs ==
    ASSUME NEW key, ValidKey(key), key.n < Radix
    PROVE  /\ key.n \in Nat /\ key.e \in Nat /\ key.p \in Nat /\ key.q \in Nat
           /\ key.dp \in Nat /\ key.dq \in Nat /\ key.u \in Nat
           /\ OddPrime(key.p) /\ key.p < Radix /\ (key.e * key.dp) % (key.p - 1) = 1
           /\ OddPrime(key.q) /\ key.q < Radix /\ (key.e * key.dq) % (key.q - 1) = 1
           /\ key.n = key.p * key.q /\ Cong(key.u * key.q, 1, key.p)
           /\ Divides(key.p, key.n) /\ Divides(key.q, key.n)
           /\ key.n > 1 /\ key.n % 2 = 1
  <1> DEFINE p == key.p
             q == key.q
             n == key.n
             w == key.u * key.q
  <1>1. /\ n \in Nat /\ key.e \in Nat /\ p \in Nat /\ q \in Nat
        /\ key.dp \in Nat /\ key.dq \in Nat /\ key.u \in Nat
    BY DEF ValidKey
  <1>2. /\ OddPrime(p) /\ (key.e * key.dp) % (p - 1) = 1
        /\ OddPrime(q) /\ (key.e * key.dq) % (q - 1) = 1
    BY <1>1 DEF ValidKey, OddPrime
  <1>3. n = p * q /\ w % p = 1 /\ n < Radix
    BY DEF ValidKey
  <1>4. p > 1 /\ q > 1 /\ p % 2 = 1 /\ q % 2 = 1
    BY <1>2, PrimeIs DEF OddPrime
  <1>5. w \in Int
    BY <1>1
  <1>6. Radix \in Int
    BY RadixIs
  <1> HIDE DEF p, q, n, w
  <1>7. Cong(w, 1, p)
    BY <1>1, <1>3, <1>4, <1>5, OneMod
  <1>8. Divides(p, n)
    BY <1>1, <1>3 DEF Divides
  <1>9. Divides(q, n)
    <2>1. n = q * p /\ p \in Int
      BY <1>1, <1>3
    <2> QED
      BY <2>1 DEF Divides
  <1>10. p <= n /\ q <= n /\ n > 1
    <2>1. p * q >= p /\ p * q >= q
      BY <1>1, <1>4
    <2> QED
      BY <1>1, <1>3, <1>4, <2>1
  <1>11. n % 2 = 1
    BY <1>1, <1>3, <1>4, OddTimes
  <1>12. p < Radix /\ q < Radix
    BY <1>1, <1>3, <1>6, <1>10
  <1> QED
    BY <1>1, <1>2, <1>3, <1>7, <1>8, <1>9, <1>10, <1>11, <1>12 DEF p, q, n, w

\* Modulo one of the primes, the root is of what was raised.
LEMMA PrimeRoot ==
    ASSUME NEW p, OddPrime(p), p < Radix, NEW e \in Nat, NEW d \in Nat, (e * d) % (p - 1) = 1,
           NEW z \in Int, NEW n \in Int, Divides(p, n), NEW a \in Int, Cong(a, Raised(z, e), n)
    PROVE  Exponentiate(a % p, d, p) \in Int /\ Cong(Exponentiate(a % p, d, p), z, p)
  <1> DEFINE x == a % p
             t == Raised(z, e)
             y == Exponentiate(x, d, p)
             v == Raised(x, d)
  <1>1. p \in Nat \ {0} /\ p \in Nat /\ p \in Int /\ p % 2 = 1
    BY PrimeIs DEF OddPrime
  <1>2. x \in Int
    BY <1>1, Division
  <1>3. Cong(x, a, p)
    BY <1>1, CongMod
  <1>4. Cong(a, t, p)
    BY <1>1, CongDown
  <1> HIDE DEF x
  <1>5. v \in Int
    BY <1>2, RaisedNext
  <1>6. y = v % p
    <2>1. y = Power(x, d, p)
      BY <1>1, <1>2, ExponentiateIsPower
    <2> QED
      BY <1>1, <1>2, <2>1, PowerIsRaised
  <1>7. Cong(x, t, p)
    BY <1>1, <1>3, <1>4, CongOn
  <1> HIDE DEF t
  <1>8. Cong(v, Raised(t, d), p)
    BY <1>1, <1>7, CongRaised
  <1> HIDE DEF v, y
  <1>9. Cong(y, v, p) /\ y \in Int
    <2>1. v % p \in 0 .. p - 1
      BY <1>1, <1>5, Division
    <2>2. Cong(v % p, v, p)
      BY <1>1, <1>5, CongMod
    <2> QED
      BY <1>1, <1>6, <2>1, <2>2
  <1>10. Raised(t, d) = Raised(z, e * d)
    BY RaisedTwice DEF t
  <1>11. Cong(Raised(z, e * d), z, p)
    BY RootModPrime
  <1>12. Cong(v, z, p)
    BY <1>1, <1>8, <1>10, <1>11, CongOn
  <1>13. Cong(y, z, p)
    BY <1>1, <1>9, <1>12, CongOn
  <1> QED
    BY <1>9, <1>13 DEF x, y

\* The root modulo both primes.
LEMMA RootIs ==
    ASSUME NEW key, ValidKey(key), key.n < Radix, NEW z \in Int, NEW a \in Int,
           Cong(a, Raised(z, key.e), key.n)
    PROVE  /\ ModularRoot(a, key.dq, key.dp, key.q, key.p, key.u) \in Int
           /\ Cong(ModularRoot(a, key.dq, key.dp, key.q, key.p, key.u), z, key.n)
  <1> DEFINE p == key.p
             q == key.q
             n == key.n
             u == key.u
             x == Exponentiate(a % q, key.dq, q)
             y == Exponentiate(a % p, key.dp, p)
             c == CRT(x, q, y, p, u)
  <1>1. /\ n \in Nat /\ key.e \in Nat /\ p \in Nat /\ q \in Nat
        /\ key.dp \in Nat /\ key.dq \in Nat /\ u \in Nat
        /\ OddPrime(p) /\ p < Radix /\ (key.e * key.dp) % (p - 1) = 1
        /\ OddPrime(q) /\ q < Radix /\ (key.e * key.dq) % (q - 1) = 1
        /\ n = p * q /\ Cong(u * q, 1, p) /\ Divides(p, n) /\ Divides(q, n)
    BY KeyIs
  <1>2. ModularRoot(a, key.dq, key.dp, q, p, u) = c
    BY DEF ModularRoot
  <1>3. p \in Nat \ {0} /\ q \in Nat \ {0} /\ u \in Int /\ p \in Int /\ q \in Int /\ n \in Int
    BY <1>1, PrimeIs
  <1>4. Cong(a, Raised(z, key.e), n)
    OBVIOUS
  <1> HIDE DEF p, q, n, u
  <1>5. x \in Int /\ Cong(x, z, q)
    BY <1>1, <1>3, <1>4, PrimeRoot
  <1>6. y \in Int /\ Cong(y, z, p)
    BY <1>1, <1>3, <1>4, PrimeRoot
  <1> HIDE DEF x, y
  <1>7. c \in Int /\ Cong(c, x, q) /\ Cong(c, y, p)
    BY <1>1, <1>3, <1>5, <1>6, CrtIs
  <1> HIDE DEF c
  <1>8. Cong(c, z, q)
    BY <1>3, <1>5, <1>7, CongOn
  <1>9. Cong(c, z, p)
    BY <1>3, <1>6, <1>7, CongOn
  <1>10. Cong(c, z, p * q)
    BY <1>1, <1>3, <1>7, <1>8, <1>9, CongBoth
  <1>11. Cong(c, z, n)
    BY <1>1, <1>10
  <1> QED
    BY <1>2, <1>7, <1>11 DEF p, q, n, u

\* What the theorem says of one key, number and blinding factor.
Recovers(key, m, r) ==
    CalculateInverse(key, Power(m, key.e, key.n), r) = [ok |-> TRUE, y |-> m]

\* So it is: the blinded number is the power of r * m, its root r * m, and the inverse
\* of r takes r away.
LEMMA InverseRecovers ==
    ASSUME NEW key, ValidKey(key), key.n < Radix, NEW m \in 0 .. key.n - 1,
           NEW random \in SUBSET Nat, NEW r \in Blinds(key, random)
    PROVE  Recovers(key, m, r)
  <1> DEFINE n == key.n
             e == key.e
             x == Power(m, e, n)
             f == Exponentiate(r, e, n)
             a == (f * x) % n
             z == r * m
             root == ModularRoot(a, key.dq, key.dp, key.q, key.p, key.u)
             i == InverseMod(r, n)
             y == (root * i) % n
  <1>1. n \in Nat /\ n \in Nat \ {0} /\ n \in Int /\ n > 1 /\ n % 2 = 1 /\ n < Radix /\ e \in Nat
    BY KeyIs
  <1>2. r \in Nat /\ r \in Int /\ i # 0
    BY DEF Blinds
  <1>3. m \in Nat /\ m \in Int /\ m \in 0 .. n - 1
    BY <1>1
  <1> HIDE DEF n
  <1> DEFINE rr == Raised(r, e)
             mm == Raised(m, e)
  <1>4. f = Power(r, e, n)
    BY <1>1, <1>2, ExponentiateIsPower
  <1>5. f = rr % n /\ x = mm % n
    BY <1>1, <1>2, <1>3, <1>4, PowerIsRaised
  <1>6. rr \in Int /\ mm \in Int
    BY <1>1, <1>2, <1>3, RaisedNext
  <1>7. rr * mm = Raised(z, e) /\ z \in Int
    <2>1. r \in Int /\ m \in Int /\ e \in Nat
      BY <1>1, <1>2, <1>3
    <2>2. z \in Int
      BY <2>1
    <2> HIDE DEF e
    <2>3. Raised(r * m, e) = Raised(r, e) * Raised(m, e)
      BY ONLY <2>1, RaisedProduct
    <2> QED
      BY <2>2, <2>3
  <1>8. i \in 0 .. n - 1 /\ Cong(i * r, 1, n)
    BY <1>1, <1>2, InverseOrShared
  <1> HIDE DEF e, x, f, rr, mm, z, i
  <1>9. f \in Int /\ x \in Int /\ Cong(f, rr, n) /\ Cong(x, mm, n)
    <2>1. rr % n \in 0 .. n - 1 /\ mm % n \in 0 .. n - 1
      BY <1>1, <1>6, Division
    <2>2. Cong(rr % n, rr, n) /\ Cong(mm % n, mm, n)
      BY <1>1, <1>6, CongMod
    <2> QED
      BY <1>1, <1>5, <2>1, <2>2
  <1>10. a \in Int /\ Cong(a, Raised(z, e), n)
    <2> DEFINE b == f * x
               t == rr * mm
    <2>1. b \in Int
      BY <1>9
    <2>2. Cong(b, t, n)
      BY <1>1, <1>9, CongTimes
    <2> HIDE DEF b, t
    <2>3. b % n \in 0 .. n - 1
      BY <1>1, <2>1, Division
    <2>4. Cong(b % n, b, n)
      BY <1>1, <2>1, CongMod
    <2>5. Cong(b % n, t, n)
      BY <1>1, <2>2, <2>4, CongOn
    <2>6. b % n \in Int
      BY <1>1, <2>3
    <2> QED
      BY <1>7, <2>5, <2>6 DEF b, t
  <1> HIDE DEF a
  <1>11. root \in Int /\ Cong(root, z, n)
    BY <1>7, <1>10, RootIs DEF n, e
  <1> HIDE DEF root
  <1> DEFINE s == root * i
             one == 1
             ir == i * r
  <1>12. Cong(s, m, n) /\ s \in Int
    <2>1. i \in Int /\ Cong(i, i, n) /\ Cong(m, m, n)
      BY <1>1, <1>3, <1>8, CongSelf
    <2>2. Cong(s, z * i, n)
      BY <1>1, <1>11, <2>1, CongTimes
    <2>3. z * i = ir * m /\ one * m = m
      BY <1>2, <1>3, <2>1 DEF z
    <2>4. Cong(ir, one, n)
      BY <1>8
    <2>5. s \in Int
      BY <1>11, <2>1
    <2> HIDE DEF s, one, ir
    <2>6. Cong(ir * m, one * m, n)
      BY <1>1, <2>1, <2>4, CongTimes
    <2>7. Cong(z * i, m, n)
      BY <2>3, <2>6
    <2> QED
      BY <1>1, <2>2, <2>5, <2>7, CongOn
  <1> HIDE DEF s
  <1>13. y = m
    <2>1. s % n \in 0 .. n - 1
      BY <1>1, <1>12, Division
    <2>2. Cong(s % n, s, n)
      BY <1>1, <1>12, CongMod
    <2>3. Cong(s % n, m, n)
      BY <1>1, <1>12, <2>2, CongOn
    <2>4. s % n = m
      BY <1>1, <1>3, <2>1, <2>3, CongSame
    <2> QED
      BY <2>4 DEF s
  <1> HIDE DEF y
  <1>14. Exponentiate(y, e, n) = x
    <2>1. Exponentiate(m, e, n) = Power(m, e, n)
      BY <1>1, <1>3, ExponentiateIsPower
    <2> QED
      BY <1>13, <2>1 DEF x
  <1>15. CalculateInverse(key, x, r) = [ok |-> Exponentiate(y, e, n) = x, y |-> y]
    BY DEF CalculateInverse, n, e, f, a, root, i, s, y
  <1>16. CalculateInverse(key, x, r) = [ok |-> TRUE, y |-> m]
    BY <1>13, <1>14, <1>15
  <1> QED
    BY <1>16 DEF Recovers, x, n, e

\* CalculateInverse: the root of m's power is m, with any blinding factor that has an
\* inverse, and the check at the end never throws.
THEOREM CalculateInverseIs ==
    ASSUME NEW key, ValidKey(key), key.n < Radix, NEW m \in 0 .. key.n - 1,
           NEW random \in SUBSET Nat, NEW r \in Blinds(key, random)
    PROVE  CalculateInverse(key, Power(m, key.e, key.n), r) = [ok |-> TRUE, y |-> m]
  BY InverseRecovers DEF Recovers

-----------------------------------------------------------------------------
(* Key generation *)

\* Where the greatest common divisor is 1, there is an inverse modulo the odd one of two
\* numbers.
LEMMA CoprimeUnit ==
    ASSUME NEW e \in Nat, e % 2 = 1, e > 1, NEW a \in Nat, GCD(e, a) = 1
    PROVE  Unit(a, e)
  <1>1. \A d \in Nat \ {0} : CommonDivisor(d, <<e, a>>) => d = 1
    BY GCDOne
  <1>2. InverseMod(a, e) \in 0 .. e - 1
    BY InverseOrShared
  <1>3. ~\E d : Shared(d, a, e)
    <2> SUFFICES ASSUME NEW d, Shared(d, a, e)
                 PROVE  FALSE
      OBVIOUS
    <2>1. d \in Nat \ {0} /\ d > 1 /\ Divides(d, a) /\ Divides(d, e)
      BY DEF Shared
    <2>2. CommonDivisor(d, <<e, a>>)
      BY <2>1 DEF CommonDivisor
    <2> QED
      BY <1>1, <2>1, <2>2
  <1>4. Cong(InverseMod(a, e) * a, 1, e)
    BY <1>3, InverseOrShared
  <1> DEFINE i == InverseMod(a, e)
  <1> HIDE DEF i
  <1>5. i \in Int /\ i * a = a * i
    BY <1>2 DEF i
  <1>6. Cong(a * i, 1, e)
    BY <1>4, <1>5 DEF i
  <1> QED
    BY <1>5, <1>6 DEF Unit

\* What LCM gives is a multiple of both, and divides their product.
LEMMA LCMIs ==
    ASSUME NEW a \in Nat \ {0}, NEW b \in Nat \ {0}
    PROVE  /\ LCM(a, b) \in Nat \ {0} /\ Divides(a, LCM(a, b)) /\ Divides(b, LCM(a, b))
           /\ Divides(LCM(a, b), a * b)
  <1> DEFINE g == GCD(a, b)
             x == a \div g
             l == x * b
  <1>1. g \in Nat /\ \A d \in Nat \ {0} : Divides(d, g) <=> CommonDivisor(d, <<a, b>>)
    BY GCDIs
  <1> HIDE DEF g
  <1>2. g # 0
    <2> SUFFICES ASSUME g = 0
                 PROVE  FALSE
      OBVIOUS
    <2> DEFINE d == a + 1
    <2>1. d \in Nat \ {0} /\ d \in Int
      OBVIOUS
    <2>2. Divides(d, g)
      BY <2>1, DividesZero
    <2> HIDE DEF d
    <2>3. Divides(d, a)
      BY <1>1, <2>1, <2>2 DEF CommonDivisor
    <2>4. d <= a
      BY <2>1, <2>3, DividesLess
    <2> QED
      BY <2>4 DEF d
  <1>3. Divides(g, g)
    <2>1. g = g * 1 /\ 1 \in Int
      BY <1>1
    <2> QED
      BY <2>1 DEF Divides
  <1>4. Divides(g, a) /\ Divides(g, b)
    BY <1>1, <1>2, <1>3 DEF CommonDivisor
  <1>5. PICK s \in Int : a = g * s
    BY <1>4 DEF Divides
  <1>6. PICK t \in Int : b = g * t
    BY <1>4 DEF Divides
  <1>7. x = s
    <2>1. a = s * g + 0 /\ 0 \in 0 .. g - 1 /\ g \in Nat \ {0}
      BY <1>1, <1>2, <1>5
    <2>2. (s * g + 0) \div g = s
      BY <2>1, QuotientOf
    <2> QED
      BY <2>1, <2>2
  <1>8. s > 0
    <2>1. ~(s <= 0)
      <3> SUFFICES ASSUME s <= 0
                   PROVE  FALSE
        OBVIOUS
      <3>1. g * s <= 0
        BY <1>1, <1>2
      <3> QED
        BY <1>5, <3>1
    <2> QED
      BY <2>1
  <1> HIDE DEF x
  <1>9. l \in Nat \ {0}
    <2>1. s \in Nat /\ s * b > 0
      BY <1>8
    <2> QED
      BY <1>7, <2>1
  <1>10. l = a * t
    <2>1. s * (g * t) = (g * s) * t
      BY <1>1
    <2> QED
      BY <1>5, <1>6, <1>7, <2>1
  <1>11. l = b * s
    BY <1>7
  <1>12. a * b = l * g
    <2>1. (g * s) * b = (s * b) * g
      BY <1>1
    <2> QED
      BY <1>5, <1>7, <2>1
  <1>13. LCM(a, b) = l
    BY DEF LCM, x, g
  <1> HIDE DEF l
  <1>14. Divides(a, l) /\ Divides(b, l)
    BY <1>10, <1>11 DEF Divides
  <1>15. Divides(l, a * b)
    BY <1>1, <1>12 DEF Divides
  <1> QED
    BY <1>9, <1>13, <1>14, <1>15

\* A divisor of a unit is one.
LEMMA UnitDown ==
    ASSUME NEW v \in Int, NEW w \in Int, NEW m \in Int, Divides(w, v), Unit(v, m)
    PROVE  Unit(w, m)
  <1>1. PICK c \in Int : v = w * c
    BY DEF Divides
  <1>2. PICK i \in Int : Cong(v * i, 1, m)
    BY DEF Unit
  <1> DEFINE j == c * i
  <1>3. j \in Int /\ (w * c) * i = w * j
    BY <1>1
  <1> HIDE DEF j
  <1>4. Cong(w * j, 1, m)
    BY <1>1, <1>2, <1>3
  <1> QED
    BY <1>3, <1>4 DEF Unit

\* InverseMod modulo an even number: the inverse modulo the odd one of the two, turned round.
LEMMA InverseEven ==
    ASSUME NEW m \in Nat \ {0}, m % 2 = 0, NEW a \in Nat, a % 2 = 1, a > 1, Unit(m, a)
    PROVE  InverseMod(a, m) \in Nat /\ Cong(InverseMod(a, m) * a, 1, m)
  <1> DEFINE b == m % a
             u == InverseMod(b, a)
             n == m * (a - u) + 1
             d == n \div a
  <1>1. a \in Nat \ {0} /\ a \in Int /\ m \in Int
    OBVIOUS
  <1>2. b \in Nat /\ b \in Int
    <2>1. b \in 0 .. a - 1
      BY <1>1, Division
    <2> QED
      BY <1>1, <2>1
  <1>3. Cong(b, m, a) /\ Cong(m, b, a)
    BY <1>1, CongMod
  <1> HIDE DEF b
  <1>4. PICK i \in Int : Cong(m * i, 1, a)
    BY DEF Unit
  <1>5. Cong(i * b, 1, a)
    <2>1. Cong(i, i, a)
      BY <1>1, CongSelf
    <2>2. Cong(i * b, i * m, a)
      BY <1>1, <1>3, <2>1, CongTimes
    <2>3. i * m = m * i
      BY <1>1
    <2>4. Cong(i * m, 1, a)
      BY <1>4, <2>3
    <2> QED
      BY <1>1, <2>2, <2>4, CongOn
  <1>6. ~\E s : Shared(s, b, a)
    BY <1>2, <1>5, InverseUnshared
  <1>7. u \in 0 .. a - 1 /\ Cong(u * b, 1, a)
    BY <1>2, <1>6, InverseOrShared
  <1>8. u # 0
    <2> SUFFICES ASSUME u = 0
                 PROVE  FALSE
      OBVIOUS
    <2>1. u * b = 0
      BY <1>2
    <2>2. Cong(0, 1, a)
      BY <1>7, <2>1
    <2>3. 0 = 1
      BY <1>1, <2>2, CongSame
    <2> QED
      BY <2>3
  <1>9. InverseMod(a, m) = d
    <2>1. InverseMod(b, a) = InverseModOdd(b, a)
      BY DEF InverseMod
    <2>2. m % 2 # 1 /\ m # 0 /\ a % 2 # 0 /\ a # 1
      OBVIOUS
    <2>3. InverseModOdd(m % a, a) # 0
      BY <1>8, <2>1 DEF b
    <2>4. InverseMod(a, m) = (m * (a - InverseModOdd(m % a, a)) + 1) \div a
      BY <2>2, <2>3 DEF InverseMod
    <2> QED
      BY <2>1, <2>4 DEF b
  <1> HIDE DEF u
  <1>10. u \in Int /\ n \in Nat
    <2>1. u \in Int /\ a - u \in Nat
      BY <1>7
    <2>2. m * (a - u) \in Nat
      BY <2>1
    <2> QED
      BY <2>1, <2>2
  <1>11. Cong(n, 0, a)
    <2> DEFINE z == 0 - 1
               one == 1
    <2>1. Cong(u, u, a) /\ Cong(one, one, a) /\ Cong(z, z, a)
      BY <1>1, <1>10, CongSelf
    <2>2. Cong(u * m, u * b, a)
      BY <1>1, <1>3, <2>1, CongTimes
    <2>3. Cong(u * m, one, a)
      BY <1>1, <1>7, <2>2, CongOn
    <2>4. Cong((u * m) * z, one * z, a)
      BY <1>1, <2>1, <2>3, CongTimes
    <2>5. Cong((u * m) * z + one, one * z + one, a)
      BY <1>1, <2>1, <2>4, CongPlus
    <2>6. one * z + one = 0
      OBVIOUS
    <2>7. n = ((u * m) * z + one) + m * a
      BY <1>10
    <2> DEFINE w == (u * m) * z + one
    <2>8. w \in Int /\ n = w + m * a
      BY <1>10, <2>7
    <2>9. Cong(w, 0, a)
      BY <2>5, <2>6
    <2> HIDE DEF w, n
    <2>10. Cong(n, w, a)
      <3>1. n \in Int /\ w \in Int /\ a \in Int /\ m \in Int /\ n = w + m * a
        BY <1>1, <1>10, <2>8
      <3> QED
        BY ONLY <3>1, CongFrom
    <2> QED
      BY <1>1, <2>9, <2>10, CongOn
  <1> HIDE DEF n
  <1>12. n % a = 0
    <2>1. n % a = 0 % a
      BY <1>1, <1>11, CongIsMod
    <2>2. 0 % a = 0
      BY <1>1
    <2> QED
      BY <2>1, <2>2
  <1>13. d \in Nat /\ n = d * a + (n % a)
    <2>1. n \in Int
      BY <1>10
    <2>2. n = d * a + (n % a)
      BY <1>1, <2>1, Division
    <2> QED
      BY <1>1, <1>10, <2>2, DivNat
  <1> HIDE DEF d
  <1>14. d * a = 1 + (a - u) * m
    <2>1. d * a = n
      <3> DEFINE y == d * a
      <3>1. y \in Int /\ n = y + 0
        BY <1>12, <1>13
      <3> HIDE DEF y
      <3>2. y = n
        BY <3>1
      <3> QED
        BY <3>2 DEF y
    <2>2. n = 1 + (a - u) * m
      BY <1>10 DEF n
    <2> QED
      BY <2>1, <2>2
  <1> DEFINE da == d * a
             c == a - u
  <1>15. da \in Int /\ c \in Int /\ da = 1 + c * m
    BY <1>10, <1>13, <1>14
  <1> HIDE DEF da, c
  <1>16. Cong(da, 1, m)
    BY <1>1, <1>15, CongFrom
  <1> QED
    BY <1>9, <1>13, <1>16 DEF da

\* A prime shares no divisor with another.
LEMMA PrimesUnshared ==
    ASSUME NEW p, OddPrime(p), NEW q, OddPrime(q), p # q, NEW d, Shared(d, q, p)
    PROVE  FALSE
  <1>1. \A r : OddPrime(r) /\ Divides(d, r) => d = r
    <2> SUFFICES ASSUME NEW r, OddPrime(r), Divides(d, r), d # r
                 PROVE  FALSE
      OBVIOUS
    <2>1. r \in Nat \ {0} /\ r \in Int /\ d \in Nat /\ d > 1
      BY PrimeIs DEF Shared
    <2>2. d <= r
      BY <2>1, DividesLess
    <2>3. d \in 2 .. r - 1
      BY <2>1, <2>2
    <2>4. PICK c \in Int : r = d * c
      BY DEF Divides
    <2>5. r % d = 0
      <3>1. r = c * d + 0 /\ 0 \in 0 .. d - 1 /\ d \in Nat \ {0}
        BY <2>1, <2>4
      <3>2. (c * d + 0) % d = 0
        BY <3>1, QuotientOf
      <3> QED
        BY <3>1, <3>2
    <2> QED
      BY <2>3, <2>5 DEF OddPrime, Prime
  <1>2. Divides(d, p) /\ Divides(d, q)
    BY DEF Shared
  <1> QED
    BY <1>1, <1>2

\* The exponent of one prime: with d * e = 1 modulo a multiple of p - 1.
LEMMA ExponentIs ==
    ASSUME NEW p, OddPrime(p), NEW l \in Nat \ {0}, Divides(p - 1, l),
           NEW e \in Nat, NEW d \in Nat, Cong(d * e, 1, l)
    PROVE  d % (p - 1) \in Nat /\ (e * (d % (p - 1))) % (p - 1) = 1
  <1> DEFINE n == p - 1
             r == d % n
             x == e * r
  <1>1. n \in Nat \ {0} /\ n \in Int /\ n \in Nat /\ n > 1
    <2>1. p \in Nat /\ p > 1 /\ p % 2 = 1
      BY PrimeIs DEF OddPrime
    <2>2. p # 2
      BY <2>1
    <2> QED
      BY <2>1, <2>2
  <1>2. Divides(n, l)
    OBVIOUS
  <1> HIDE DEF n
  <1>3. Cong(d * e, 1, n)
    BY <1>1, <1>2, CongDown
  <1>0. d \in Int /\ e \in Int
    OBVIOUS
  <1>4. r \in Nat /\ r \in Int
    <2>1. r \in 0 .. n - 1
      BY <1>0, <1>1, Division
    <2> QED
      BY <1>1, <2>1
  <1>5. Cong(r, d, n) /\ Cong(e, e, n)
    BY <1>0, <1>1, CongMod, CongSelf
  <1> HIDE DEF r
  <1>6. Cong(e * r, e * d, n)
    BY <1>1, <1>5, CongTimes
  <1>7. e * d = d * e /\ x \in Int
    BY <1>4
  <1>8. Cong(x, 1, n)
    BY <1>1, <1>3, <1>6, <1>7, CongOn
  <1> HIDE DEF x
  <1>9. x % n = 1
    BY <1>1, <1>7, <1>8, OneMod
  <1> QED
    BY <1>4, <1>9 DEF x, r, n

\* GenerateRandom makes keys that Validate accepts: of two different odd primes that the
\* selector accepts for the odd exponent e.  m_d is positive, as the code asserts.
THEOREM GeneratedKeyIsValid ==
    ASSUME NEW p, OddPrime(p), NEW q, OddPrime(q), p # q,
           NEW e \in Nat, e % 2 = 1, e >= 3, GCD(e, p - 1) = 1, GCD(e, q - 1) = 1
    PROVE  ValidKey(PrivateKey(p, q, e)) /\ InverseMod(e, LCM(p - 1, q - 1)) > 0
  <1> DEFINE a == p - 1
             b == q - 1
             l == LCM(a, b)
             d == InverseMod(e, l)
             u == InverseMod(q, p)
             key == PrivateKey(p, q, e)
  <1>1. /\ p \in Nat /\ p \in Nat \ {0} /\ p > 1 /\ p % 2 = 1
        /\ q \in Nat /\ q \in Nat \ {0} /\ q > 1 /\ q % 2 = 1
    BY PrimeIs DEF OddPrime
  <1>2. a \in Nat \ {0} /\ a \in Int /\ a \in Nat /\ b \in Nat \ {0} /\ b \in Int /\ b \in Nat
    BY <1>1
  <1>3. e \in Int /\ e > 1
    OBVIOUS
  <1>4. GCD(e, a) = 1 /\ GCD(e, b) = 1
    OBVIOUS
  <1>5. a % 2 = 0
    BY <1>1
  <1> HIDE DEF a, b
  <1>6. Unit(a, e) /\ Unit(b, e)
    BY <1>2, <1>3, <1>4, CoprimeUnit
  <1>7. l \in Nat \ {0} /\ Divides(a, l) /\ Divides(b, l) /\ Divides(l, a * b)
    BY <1>2, LCMIs
  <1> HIDE DEF l
  <1>8. Unit(l, e)
    <2>1. Unit(a * b, e)
      BY <1>2, <1>3, <1>6, UnitTimes
    <2>2. a * b \in Int /\ l \in Int
      BY <1>2, <1>7
    <2> QED
      BY <1>3, <1>7, <2>1, <2>2, UnitDown
  <1>9. l % 2 = 0
    <2>1. PICK c \in Int : l = a * c
      BY <1>7 DEF Divides
    <2> DEFINE h == a \div 2
    <2>2. h \in Int /\ a = 2 * h
      BY <1>2, <1>5
    <2> HIDE DEF h
    <2>3. l = 2 * (h * c) /\ h * c \in Int
      BY <2>1, <2>2
    <2> DEFINE k == h * c
    <2> HIDE DEF k
    <2>4. l = 2 * k /\ k \in Int
      BY <2>3 DEF k
    <2> QED
      BY <2>4
  <1>10. d \in Nat /\ Cong(d * e, 1, l)
    BY <1>3, <1>7, <1>8, <1>9, InverseEven
  <1>11. d # 0
    <2> SUFFICES ASSUME d = 0
                 PROVE  FALSE
      OBVIOUS
    <2>1. Cong(0, 1, l) /\ l \in Int
      <3>1. d * e = 0
        OBVIOUS
      <3> QED
        BY <1>7, <1>10, <3>1
    <2>2. PICK c \in Int : 0 = 1 + c * l
      BY <2>1 DEF Cong
    <2>3. PICK h \in Int : l = 2 * h
      <3>1. l = 2 * (l \div 2) /\ l \div 2 \in Int
        BY <1>7, <1>9
      <3> QED
        BY <3>1
    <2> DEFINE k == c * h
    <2>4. k \in Int /\ c * (2 * h) = 2 * k
      OBVIOUS
    <2> HIDE DEF k
    <2>5. 0 = 1 + 2 * k
      BY <2>2, <2>3, <2>4
    <2> QED
      BY <2>4, <2>5
  <1> HIDE DEF d
  <1>12. d % a \in Nat /\ (e * (d % a)) % a = 1
    BY <1>7, <1>10, ExponentIs DEF a
  <1>13. d % b \in Nat /\ (e * (d % b)) % b = 1
    BY <1>7, <1>10, ExponentIs DEF b
  <1>14. u \in Nat /\ (u * q) % p = 1
    <2>1. ~\E s : Shared(s, q, p)
      BY PrimesUnshared
    <2>2. u \in 0 .. p - 1 /\ Cong(u * q, 1, p)
      BY <1>1, <2>1, InverseOrShared
    <2> DEFINE x == u * q
    <2>3. x \in Int /\ Cong(x, 1, p)
      BY <1>1, <2>2
    <2> HIDE DEF u
    <2>4. u \in Nat
      BY <1>1, <2>2
    <2> HIDE DEF x
    <2>5. x % p = 1
      BY <1>1, <2>3, OneMod
    <2> QED
      BY <2>4, <2>5 DEF x
  <1> HIDE DEF u
  <1>15. key = [n |-> p * q, e |-> e, p |-> p, q |-> q, dp |-> d % a, dq |-> d % b, u |-> u]
    BY DEF PrivateKey, a, b, l, d, u
  <1>16. p * q \in Nat
    BY <1>1
  <1>17. Prime(p) /\ Prime(q)
    BY DEF OddPrime
  <1> HIDE DEF key
  <1>18. /\ key.n = p * q /\ key.e = e /\ key.p = p /\ key.q = q /\ key.dp = d % a
         /\ key.dq = d % b /\ key.u = u
    BY <1>15
  <1>19. key \in [n : Nat, e : Nat, p : Nat, q : Nat, dp : Nat, dq : Nat, u : Nat]
    BY <1>1, <1>12, <1>13, <1>14, <1>15, <1>16
  <1>20. ValidKey(key)
    BY <1>1, <1>12, <1>13, <1>14, <1>17, <1>18, <1>19 DEF ValidKey, a, b
  <1>21. d > 0
    BY <1>10, <1>11
  <1> QED
    BY <1>20, <1>21 DEF key, d, l, a, b

-----------------------------------------------------------------------------
(* ArithmeticIsExact *)

\* What the assumption says of the keys.
LEMMA KeysAre ==
    ASSUME NEW key \in BankKeys \cup {AtmKey}
    PROVE  ValidKey(key) /\ Raised(ByteBase, ChallengeLength) <= key.n /\ key.n < Radix
  BY ChallengeAssumption

\* What it says of the lengths and of the random numbers.
LEMMA LengthsAre ==
    /\ ChallengeLength \in Nat /\ ChallengeLength \in Nat \ {0} /\ ChallengeLength > 1
    /\ MinText \in Nat /\ Random \in SUBSET Nat
  BY ChallengeAssumption

Challenges == [1..ChallengeLength -> Byte]

\* The number of a challenge is one of each key's.
LEMMA ChallengeFits ==
    ASSUME NEW c \in Challenges, NEW key \in BankKeys \cup {AtmKey}
    PROVE  DecodeInteger(c) \in Nat /\ DecodeInteger(c) \in 0 .. key.n - 1
  <1> DEFINE v == DecodeInteger(c)
             top == Raised(ByteBase, ChallengeLength)
  <1>1. v \in Nat /\ v < top
    BY LengthsAre, DecodeBounds DEF Challenges
  <1>2. top <= key.n /\ key.n \in Nat
    BY KeysAre, KeyIs
  <1>3. top \in Nat
    BY BaseIs, LengthsAre, RaisedNat
  <1> HIDE DEF v, top
  <1>4. v \in 0 .. key.n - 1
    BY <1>1, <1>2, <1>3
  <1> QED
    BY <1>1, <1>4 DEF v

\* The three parts of ArithmeticIsExact, for one key and a number m below its modulus:
\* powers,
ExactPowers(m, key) ==
    \A e \in {1, key.e, m, key.dp} : Exponentiate(m, e, key.n) = Power(m, e, key.n)

\* inverses,
ExactInverses(m, key) ==
    \A a \in Random :
        LET i == InverseMod(a + m, key.n)
        IN  IF GCD(a + m, key.n) = 1 THEN i < key.n /\ (i * (a + m)) % key.n = 1
            ELSE i = 0

\* and roots.
ExactRoots(m, key) ==
    \A r \in Blinds(key, Random) :
        CalculateInverse(key, Power(m, key.e, key.n), r) = [ok |-> TRUE, y |-> m]

\* They hold of a challenge's number.
LEMMA Exact ==
    ASSUME NEW c \in Challenges, NEW key \in BankKeys \cup {AtmKey}
    PROVE  /\ ExactPowers(DecodeInteger(c), key) /\ ExactInverses(DecodeInteger(c), key)
           /\ ExactRoots(DecodeInteger(c), key)
  <1> DEFINE m == DecodeInteger(c)
             n == key.n
  <1>1. ValidKey(key) /\ n < Radix
    BY KeysAre
  <1>2. m \in Nat /\ m \in Int /\ m \in 0 .. n - 1
    BY ChallengeFits
  <1>3. n \in Nat /\ n % 2 = 1 /\ n > 1 /\ key.e \in Nat /\ key.dp \in Nat
    BY <1>1, KeyIs
  <1> HIDE DEF m
  <1>4. ExactPowers(m, key)
    <2> SUFFICES ASSUME NEW e \in {1, key.e, m, key.dp}
                 PROVE  Exponentiate(m, e, key.n) = Power(m, e, key.n)
      BY DEF ExactPowers
    <2>1. e \in Nat
      BY <1>2, <1>3
    <2> QED
      BY <1>1, <1>2, <1>3, <2>1, ExponentiateIsPower
  <1>5. ExactInverses(m, key)
    <2> SUFFICES ASSUME NEW a \in Random
                 PROVE  LET i == InverseMod(a + m, key.n)
                        IN  IF GCD(a + m, key.n) = 1
                            THEN i < key.n /\ (i * (a + m)) % key.n = 1
                            ELSE i = 0
      BY DEF ExactInverses
    <2> DEFINE b == a + m
               i == InverseMod(b, n)
    <2>1. b \in Nat
      BY <1>2, LengthsAre
    <2> HIDE DEF b, n
    <2>2. IF GCD(b, n) = 1 THEN i \in 1 .. n - 1 /\ (i * b) % n = 1 ELSE i = 0
      BY <1>1, <1>3, <2>1, InverseModIs
    <2> HIDE DEF i
    <2>3. IF GCD(b, n) = 1 THEN i < n /\ (i * b) % n = 1 ELSE i = 0
      BY <1>3, <2>2
    <2> QED
      BY <2>3 DEF i, b, n
  <1>6. ExactRoots(m, key)
    BY <1>1, <1>2, LengthsAre, InverseRecovers DEF ExactRoots, Recovers
  <1> QED
    BY <1>4, <1>5, <1>6 DEF m

\* A challenge stays what was drawn.
LEMMA ChallengeTyped == ChallengeSpec => [](challenge \in Challenges)
  <1>1. ChallengeInit => challenge \in Challenges
    BY DEF ChallengeInit, Challenges
  <1>2. challenge \in Challenges /\ [ChallengeNext]_challengeVars => (challenge \in Challenges)'
    BY DEF ChallengeNext, challengeVars, AtmSends, BankAnswers, BankThrows, AtmVerifies, Challenges
  <1> QED
    BY <1>1, <1>2, PTL DEF ChallengeSpec

\* Exponentiation, inverses and RSA roots are exact, for every challenge and key.
THEOREM ArithmeticExact == ChallengeSpec => []ArithmeticIsExact
  <1>1. challenge \in Challenges => ArithmeticIsExact
    <2> SUFFICES ASSUME challenge \in Challenges, stage = "send"
                 PROVE  LET m == DecodeInteger(challenge) IN
                        \A key \in BankKeys \cup {AtmKey} :
                            ExactPowers(m, key) /\ ExactInverses(m, key) /\ ExactRoots(m, key)
      BY DEF ArithmeticIsExact, ExactPowers, ExactInverses, ExactRoots
    <2> QED
      BY Exact
  <1> QED
    BY <1>1, ChallengeTyped, PTL

-----------------------------------------------------------------------------
(* ChallengeReturns *)

\* What goes over the wire for a challenge under a key.
Crossing(c, key) == MinEncoded(Power(DecodeInteger(c), key.e, key.n))

\* It is what RSA computes, and a sequence of bytes.
LEMMA CrossingIs ==
    ASSUME NEW c \in Challenges, NEW key \in BankKeys \cup {AtmKey}
    PROVE  /\ MinEncoded(ApplyFunction(key, DecodeInteger(c))) = Crossing(c, key)
           /\ Crossing(c, key) \in Seq(Byte)
           /\ DecodeInteger(Crossing(c, key)) = Power(DecodeInteger(c), key.e, key.n)
  <1> DEFINE m == DecodeInteger(c)
             n == key.n
             e == key.e
             x == Power(m, e, n)
             rr == Raised(m, e)
  <1>1. ValidKey(key) /\ n < Radix
    BY KeysAre
  <1>2. n \in Nat /\ n \in Nat \ {0} /\ n % 2 = 1 /\ e \in Nat
    BY <1>1, KeyIs
  <1>3. m \in Nat /\ m \in Int
    BY ChallengeFits
  <1> HIDE DEF m, n, e
  <1>4. Exponentiate(m, e, n) = x
    BY <1>1, <1>2, <1>3, ExponentiateIsPower
  <1>5. x = rr % n /\ rr \in Int
    BY <1>2, <1>3, PowerIsRaised, RaisedNext
  <1> HIDE DEF x, rr
  <1>6. x \in Nat
    <2>1. rr % n \in 0 .. n - 1
      BY <1>2, <1>5, Division
    <2> QED
      BY <1>2, <1>5, <2>1
  <1>7. /\ MinEncodedSize(x) \in Nat /\ MinEncoded(x) \in [1..MinEncodedSize(x) -> Byte]
        /\ DecodeInteger(MinEncoded(x)) = x
    BY <1>6, LeastEncoding
  <1>8. MinEncoded(x) \in Seq(Byte)
    BY <1>7
  <1>9. Crossing(c, key) = MinEncoded(x)
    BY DEF Crossing, m, n, e, x
  <1>10. ApplyFunction(key, m) = x
    BY <1>4 DEF ApplyFunction, n, e
  <1> QED
    BY <1>7, <1>8, <1>9, <1>10 DEF m, n, e, x

\* Who holds the key recovers the number, whatever is drawn to blind with.
LEMMA CrossingBack ==
    ASSUME NEW c \in Challenges, NEW key \in BankKeys \cup {AtmKey}, NEW r \in Blinds(key, Random)
    PROVE  CalculateInverse(key, DecodeInteger(Crossing(c, key)), r)
             = [ok |-> TRUE, y |-> DecodeInteger(c)]
  <1> DEFINE m == DecodeInteger(c)
  <1>1. DecodeInteger(Crossing(c, key)) = Power(m, key.e, key.n)
    BY CrossingIs
  <1>2. ValidKey(key) /\ key.n < Radix /\ m \in 0 .. key.n - 1
    BY KeysAre, ChallengeFits
  <1> HIDE DEF m
  <1>3. Recovers(key, m, r)
    BY <1>2, LengthsAre, InverseRecovers
  <1>4. CalculateInverse(key, Power(m, key.e, key.n), r) = [ok |-> TRUE, y |-> m]
    BY <1>3 DEF Recovers
  <1> QED
    BY <1>1, <1>4 DEF m

\* The text of a sequence of bytes has a length to compare.
LEMMA TextLengthIs ==
    ASSUME NEW bytes \in Seq(Byte)
    PROVE  TextLength(bytes) \in Nat
  <1> DEFINE k == Len(bytes) + 2
  <1>1. k \in Nat
    OBVIOUS
  <1> HIDE DEF k
  <1>2. k \div 3 \in Nat
    BY <1>1
  <1> QED
    BY <1>2 DEF TextLength, k

\* A sequence as a function.
LEMMA BytesOf ==
    ASSUME NEW s \in Seq(Byte), NEW n \in Nat, Len(s) = n
    PROVE  s \in [1..n -> Byte]
  <1>1. s \in [1..Len(s) -> Byte]
    OBVIOUS
  <1> QED
    BY <1>1

\* What the bank reads ChallengeLength bytes of.
Read(m, behind) == SubSeq(MinEncoded(m) \o behind, 1, ChallengeLength)

\* It always is as long as a challenge.
LEMMA ReadIs ==
    ASSUME NEW m \in Nat, NEW behind \in Behind(ChallengeLength - Len(MinEncoded(m)))
    PROVE  Read(m, behind) \in Challenges
  <1> DEFINE s == MinEncoded(m)
             l == MinEncodedSize(m)
             d == ChallengeLength - l
             all == s \o behind
  <1>1. l \in Nat /\ s \in [1..l -> Byte]
    BY LeastEncoding
  <1> HIDE DEF s, l
  <1>2. s \in Seq(Byte) /\ Len(s) = l
    BY <1>1
  <1>3. d \in Int /\ behind \in Behind(d)
    BY <1>1, <1>2, LengthsAre DEF s
  <1>4. 0 \in Byte
    BY BaseIs DEF Byte
  <1>5. behind \in Seq(Byte) /\ Len(behind) >= d
    <2>1. CASE d <= 0
      <3>1. behind = <<>>
        BY <1>3, <2>1 DEF Behind
      <3> QED
        BY <1>3, <2>1, <3>1
    <2>2. CASE ~(d <= 0)
      <3>1. PICK t \in [1 .. d - 1 -> Byte] : behind = <<0>> \o t
        BY <1>3, <2>2 DEF Behind
      <3> HIDE DEF d
      <3>2. t \in Seq(Byte) /\ Len(t) = d - 1
        BY <1>3, <2>2, <3>1
      <3>3. <<0>> \in Seq(Byte) /\ Len(<<0>>) = 1
        BY <1>4
      <3> QED
        BY <1>3, <3>1, <3>2, <3>3
    <2> QED
      BY <2>1, <2>2
  <1>6. all \in Seq(Byte) /\ Len(all) >= ChallengeLength
    <2>1. all \in Seq(Byte) /\ Len(all) = Len(s) + Len(behind)
      BY <1>2, <1>5
    <2> QED
      BY <1>1, <1>2, <1>5, <2>1, LengthsAre
  <1> HIDE DEF all
  <1>7. SubSeq(all, 1, ChallengeLength) \in [1..ChallengeLength -> Byte]
    <2> DEFINE n == ChallengeLength
    <2>1. n \in Nat /\ n > 1 /\ all \in Seq(Byte) /\ Len(all) >= n
      BY <1>6, LengthsAre
    <2> HIDE DEF n
    <2>2. Len(SubSeq(all, 1, n)) = n /\ SubSeq(all, 1, n) \in Seq(Byte)
      BY ONLY <2>1
    <2>3. SubSeq(all, 1, n) \in [1..n -> Byte]
      BY <2>1, <2>2, BytesOf
    <2> QED
      BY <2>3 DEF n
  <1> QED
    BY <1>7 DEF Read, Challenges, all, s

\* A challenge that does not begin with a zero byte is read as it was sent.
LEMMA ReadWhole ==
    ASSUME NEW c \in Challenges, c[1] # 0,
           NEW behind \in Behind(ChallengeLength - Len(MinEncoded(DecodeInteger(c))))
    PROVE  Read(DecodeInteger(c), behind) = c
  <1>1. MinEncoded(DecodeInteger(c)) = c
    BY LengthsAre, LeastAgain DEF Challenges
  <1>2. c \in Seq(Byte) /\ Len(c) = ChallengeLength
    BY LengthsAre DEF Challenges
  <1>3. behind = <<>>
    BY <1>1, <1>2, LengthsAre DEF Behind
  <1>4. Read(DecodeInteger(c), behind) = SubSeq(c \o <<>>, 1, ChallengeLength)
    BY <1>1, <1>3 DEF Read
  <1>5. c \o <<>> = c
    BY <1>2
  <1>6. SubSeq(c, 1, ChallengeLength) = c
    BY <1>2, LengthsAre
  <1> QED
    BY <1>4, <1>5, <1>6

\* No number is encoded as a challenge that begins with a zero byte.
LEMMA NeverZeroFirst ==
    ASSUME NEW c \in Challenges, NEW m \in Nat, MinEncoded(m) = c
    PROVE  c[1] # 0
  <1> DEFINE l == MinEncodedSize(m)
             s == MinEncoded(m)
  <1>1. l \in Nat /\ s \in [1..l -> Byte] /\ (l = 1 \/ s[1] # 0)
    BY LeastEncoding
  <1> HIDE DEF l, s
  <1>2. s = c
    BY DEF s
  <1>3. 1..l = 1..ChallengeLength
    BY <1>1, <1>2 DEF Challenges
  <1>4. l # 1
    BY <1>1, <1>3, LengthsAre
  <1> QED
    BY <1>1, <1>2, <1>4

\* What the ATM sends.
Sent == Crossing(challenge, knownKey)

\* The parts of the inductive invariant. The keys are keys a bank may have;
KeysTyped  == bankKey \in BankKeys /\ knownKey \in BankKeys

\* the bank gets what the ATM sent;
Asked      == stage = "answer" => wire = Sent

\* the ATM gets the power of what the bank read, which is the challenge unless that
\* begins with a zero byte;
Answered   ==
    stage = "verify" /\ bankKey = knownKey =>
        /\ TextLength(Sent) >= MinText
        /\ \E c \in Challenges : /\ wire = Crossing(c, AtmKey)
                                 /\ challenge[1] # 0 => c = challenge

\* and judges so.
Judged     ==
    stage \in Verdicts /\ bankKey = knownKey =>
        (stage = "accepted" <=> challenge[1] # 0 /\ TextLength(Sent) >= MinText)

\* The inductive invariant.
ReturnsInv == challenge \in Challenges /\ KeysTyped /\ Asked /\ Answered /\ Judged

\* Its last part is ChallengeReturns.
LEMMA JudgedIs == Judged <=> ChallengeReturns
  BY DEF Judged, ChallengeReturns, Sent, Crossing

\* The ATM's first step keeps the invariant.
LEMMA AtmSendsKeeps ==
    ASSUME ReturnsInv, AtmSends
    PROVE  ReturnsInv'
  <1>1. challenge \in Challenges /\ knownKey \in BankKeys /\ bankKey \in BankKeys
    BY DEF ReturnsInv, KeysTyped
  <1>2. wire' = MinEncoded(ApplyFunction(knownKey, DecodeInteger(challenge)))
    BY DEF AtmSends
  <1>3. wire' = Sent
    BY <1>1, <1>2, CrossingIs DEF Sent
  <1>4. /\ stage' = "answer" /\ challenge' = challenge /\ knownKey' = knownKey
        /\ bankKey' = bankKey
    BY DEF AtmSends
  <1>5. Sent' = Sent
    BY <1>4 DEF Sent
  <1> QED
    BY <1>1, <1>3, <1>4, <1>5 DEF ReturnsInv, KeysTyped, Asked, Answered, Judged, Verdicts

\* The bank's answer keeps it.
LEMMA BankAnswersKeeps ==
    ASSUME ReturnsInv, BankAnswers
    PROVE  ReturnsInv'
  <1>1. challenge \in Challenges /\ knownKey \in BankKeys /\ bankKey \in BankKeys
    BY DEF ReturnsInv, KeysTyped
  <1>2. /\ stage' = "verify" /\ challenge' = challenge /\ knownKey' = knownKey
        /\ bankKey' = bankKey
    BY DEF BankAnswers
  <1>3. Sent' = Sent
    BY <1>2 DEF Sent
  <1>4. wire = Sent
    BY DEF ReturnsInv, Asked, BankAnswers
  <1>5. ASSUME bankKey = knownKey
        PROVE  /\ TextLength(Sent) >= MinText
               /\ \E c \in Challenges : /\ wire' = Crossing(c, AtmKey)
                                        /\ challenge[1] # 0 => c = challenge
    <2> DEFINE m == DecodeInteger(challenge)
               root(r) == CalculateInverse(bankKey, DecodeInteger(wire), r)
    <2>1. PICK r \in Blinds(bankKey, Random) :
             \E behind \in Behind(ChallengeLength - Len(MinEncoded(root(r).y))) :
                wire' = MinEncoded(ApplyFunction(AtmKey, DecodeInteger(Read(root(r).y, behind))))
      BY DEF BankAnswers, Read
    <2>2. root(r).y = m
      <3>1. root(r) = [ok |-> TRUE, y |-> m]
        BY <1>1, <1>4, <1>5, <2>1, CrossingBack DEF Sent
      <3> QED
        BY <3>1
    <2> HIDE DEF root
    <2>3. PICK behind \in Behind(ChallengeLength - Len(MinEncoded(m))) :
             wire' = MinEncoded(ApplyFunction(AtmKey, DecodeInteger(Read(m, behind))))
      BY <2>1, <2>2
    <2>4. m \in Nat
      BY <1>1, ChallengeFits
    <2>5. Read(m, behind) \in Challenges
      BY <2>3, <2>4, ReadIs
    <2>6. AtmKey \in BankKeys \cup {AtmKey}
      OBVIOUS
    <2>7. wire' = Crossing(Read(m, behind), AtmKey)
      BY <2>3, <2>5, <2>6, CrossingIs
    <2>8. challenge[1] # 0 => Read(m, behind) = challenge
      BY <1>1, <2>3, ReadWhole
    <2>9. TextLength(Sent) >= MinText
      BY <1>4 DEF BankAnswers
    <2> QED
      BY <2>5, <2>7, <2>8, <2>9
  <1>6. Answered'
    BY <1>2, <1>3, <1>5 DEF Answered
  <1> QED
    BY <1>1, <1>2, <1>6 DEF ReturnsInv, KeysTyped, Asked, Judged, Verdicts

\* That the bank throws keeps it.
LEMMA BankThrowsKeeps ==
    ASSUME ReturnsInv, BankThrows
    PROVE  ReturnsInv'
  <1>1. challenge \in Challenges /\ knownKey \in BankKeys /\ bankKey \in BankKeys
    BY DEF ReturnsInv, KeysTyped
  <1>2. /\ stage' = "failed" /\ challenge' = challenge /\ knownKey' = knownKey
        /\ bankKey' = bankKey
    BY DEF BankThrows
  <1>3. Sent' = Sent
    BY <1>2 DEF Sent
  <1>4. wire = Sent
    BY DEF ReturnsInv, Asked, BankThrows
  <1>5. bankKey = knownKey => ~(TextLength(Sent) >= MinText)
    <2> SUFFICES ASSUME bankKey = knownKey
                 PROVE  ~(TextLength(Sent) >= MinText)
      OBVIOUS
    <2>1. CASE TextLength(wire) < MinText
      <3>1. Sent \in Seq(Byte)
        BY <1>1, CrossingIs DEF Sent
      <3>2. TextLength(Sent) \in Nat /\ MinText \in Nat
        BY <3>1, TextLengthIs, LengthsAre
      <3> QED
        BY <1>4, <2>1, <3>2
    <2>2. CASE \E r \in Blinds(bankKey, Random) :
                  ~CalculateInverse(bankKey, DecodeInteger(wire), r).ok
      <3>1. PICK r \in Blinds(bankKey, Random) :
                ~CalculateInverse(bankKey, DecodeInteger(wire), r).ok
        BY <2>2
      <3>2. CalculateInverse(bankKey, DecodeInteger(wire), r)
              = [ok |-> TRUE, y |-> DecodeInteger(challenge)]
        BY <1>1, <1>4, <3>1, CrossingBack DEF Sent
      <3> QED
        BY <3>1, <3>2
    <2> QED
      BY <2>1, <2>2 DEF BankThrows
  <1>6. Judged'
    BY <1>2, <1>3, <1>5 DEF Judged
  <1> QED
    BY <1>1, <1>2, <1>6 DEF ReturnsInv, KeysTyped, Asked, Answered

\* The ATM's verdict keeps it.
LEMMA AtmVerifiesKeeps ==
    ASSUME ReturnsInv, AtmVerifies
    PROVE  ReturnsInv'
  <1>1. challenge \in Challenges /\ knownKey \in BankKeys /\ bankKey \in BankKeys
    BY DEF ReturnsInv, KeysTyped
  <1>2. challenge' = challenge /\ knownKey' = knownKey /\ bankKey' = bankKey
    BY DEF AtmVerifies
  <1>3. Sent' = Sent
    BY <1>2 DEF Sent
  <1> DEFINE root(r) == CalculateInverse(AtmKey, DecodeInteger(wire), r)
  <1>4. PICK r \in Blinds(AtmKey, Random) :
            stage' = IF root(r).ok /\ MinEncoded(root(r).y) = challenge
                     THEN "accepted" ELSE "refused"
    BY DEF AtmVerifies
  <1>5. stage' # "answer" /\ stage' # "verify"
    <2> HIDE DEF root
    <2> QED
      BY <1>4
  <1>6. ASSUME bankKey = knownKey
        PROVE  stage' = "accepted" <=> challenge[1] # 0 /\ TextLength(Sent) >= MinText
    <2>1. stage = "verify"
      BY DEF AtmVerifies
    <2>2. TextLength(Sent) >= MinText
      BY <1>6, <2>1 DEF ReturnsInv, Answered
    <2>3. PICK c \in Challenges : /\ wire = Crossing(c, AtmKey)
                                  /\ challenge[1] # 0 => c = challenge
      BY <1>6, <2>1 DEF ReturnsInv, Answered
    <2>4. AtmKey \in BankKeys \cup {AtmKey}
      OBVIOUS
    <2> DEFINE m == DecodeInteger(c)
    <2>5. root(r) = [ok |-> TRUE, y |-> m]
      BY <1>4, <2>3, <2>4, CrossingBack
    <2>6. m \in Nat
      BY <2>3, <2>4, ChallengeFits
    <2> HIDE DEF root, m
    <2>7. stage' = "accepted" <=> MinEncoded(m) = challenge
      BY <1>4, <2>5
    <2>8. MinEncoded(m) = challenge => challenge[1] # 0
      BY <1>1, <2>6, NeverZeroFirst
    <2>9. challenge[1] # 0 => MinEncoded(m) = challenge
      <3> SUFFICES ASSUME challenge[1] # 0
                   PROVE  MinEncoded(m) = challenge
        OBVIOUS
      <3>1. m = DecodeInteger(challenge)
        BY <2>3 DEF m
      <3> QED
        BY <1>1, <3>1, LengthsAre, LeastAgain DEF Challenges
    <2> QED
      BY <2>2, <2>7, <2>8, <2>9
  <1>7. Judged'
    BY <1>2, <1>3, <1>6 DEF Judged
  <1> QED
    BY <1>1, <1>2, <1>5, <1>7 DEF ReturnsInv, KeysTyped, Asked, Answered

\* The challenge returns to who holds the key, unless it begins with a zero byte or its
\* text is too short.
THEOREM ChallengeReturned == ChallengeSpec => []ChallengeReturns
  <1>1. ChallengeInit => ReturnsInv
    BY DEF ChallengeInit, ReturnsInv, Challenges, KeysTyped, Asked, Answered, Judged, Verdicts
  <1>2. ReturnsInv /\ [ChallengeNext]_challengeVars => ReturnsInv'
    <2> SUFFICES ASSUME ReturnsInv, [ChallengeNext]_challengeVars
                 PROVE  ReturnsInv'
      OBVIOUS
    <2>1. CASE AtmSends
      BY <2>1, AtmSendsKeeps
    <2>2. CASE BankAnswers
      BY <2>2, BankAnswersKeeps
    <2>3. CASE BankThrows
      BY <2>3, BankThrowsKeeps
    <2>4. CASE AtmVerifies
      BY <2>4, AtmVerifiesKeeps
    <2>5. CASE UNCHANGED challengeVars
      BY <2>5 DEF challengeVars, ReturnsInv, KeysTyped, Asked, Answered, Judged, Sent
    <2> QED
      BY <2>1, <2>2, <2>3, <2>4, <2>5 DEF ChallengeNext
  <1>3. ReturnsInv => ChallengeReturns
    BY JudgedIs DEF ReturnsInv
  <1> QED
    BY <1>1, <1>2, <1>3, PTL DEF ChallengeSpec
=============================================================================
