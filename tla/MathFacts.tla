------------------------------- MODULE MathFacts -------------------------------
(***************************************************************************)
(* Facts that the proofs about several modules need, none about any of     *)
(* them.                                                                   *)
(*                                                                         *)
(* Induction over the natural numbers is stated for a set, SetInduction:   *)
(* to show P(n) for every n, take the set of the n that have it; Upwards   *)
(* and Downwards are the same for an interval.  Recursion is what a        *)
(* function that is defined from its value before computes, TailResult     *)
(* what comes out of a loop.  SumChange says how a sum over a function     *)
(* changes, which the conservation of money needs.  The rest is about      *)
(* division, congruences, divisors and products, for the arithmetic of the *)
(* challenge.                                                              *)
(***************************************************************************)
EXTENDS Integers, Functions, FiniteSets, FiniteSetTheorems, WellFoundedInduction, TLAPS

\* A set that holds 0, and with a number the next, holds them all: otherwise take the
\* least one that it misses.
LEMMA SetInduction ==
    ASSUME NEW S, 0 \in S, \A n \in Nat : n \in S => n + 1 \in S
    PROVE  Nat \subseteq S
  <1> DEFINE R == OpToRel(<, Nat)
             T == Nat \ S
  <1>1. IsWellFoundedOn(R, Nat)
    BY NatLessThanWellFounded
  <1>2. \A x, y \in Nat : y < x => <<y, x>> \in R
    BY DEF OpToRel
  <1> HIDE DEF R, T
  <1> SUFFICES ASSUME T # {} PROVE FALSE
    BY DEF T
  <1>3. PICK x \in T : \A y \in T : <<y, x>> \notin R
    <2>1. T \subseteq Nat
      BY DEF T
    <2> QED BY <1>1, <2>1, WFMin
  <1>4. x \in Nat /\ x \notin S
    BY DEF T
  <1>5. x - 1 \in Nat /\ x - 1 < x /\ (x - 1) + 1 = x
    BY <1>4
  <1>6. x - 1 \in S
    BY <1>2, <1>3, <1>4, <1>5 DEF T
  <1> QED
    BY <1>4, <1>5, <1>6

\* The same up to n.
LEMMA Upwards ==
    ASSUME NEW n \in Nat, NEW S, 0 \in S, \A i \in 0 .. n - 1 : i \in S => i + 1 \in S
    PROVE  0..n \subseteq S
  <1> DEFINE T == {i \in Nat : i <= n => i \in S}
  <1>1. 0 \in T
    OBVIOUS
  <1>2. ASSUME NEW i \in Nat, i \in T
        PROVE  i + 1 \in T
    <2> SUFFICES ASSUME i + 1 <= n PROVE i + 1 \in S
      OBVIOUS
    <2>1. i \in 0 .. n - 1 /\ i \in S
      BY <1>2
    <2> QED
      BY <2>1
  <1>3. Nat \subseteq T
    <2> HIDE DEF T
    <2> QED
      BY <1>1, <1>2, SetInduction
  <1> QED
    BY <1>3

\* A set of numbers has a least one.
LEMMA LeastExists ==
    ASSUME NEW S \in SUBSET Nat, S # {}
    PROVE  \E x \in S : \A y \in S : x <= y
  <1> DEFINE R == OpToRel(<, Nat)
  <1>1. IsWellFoundedOn(R, Nat)
    BY NatLessThanWellFounded
  <1>2. \A x, y \in Nat : y < x => <<y, x>> \in R
    BY DEF OpToRel
  <1> HIDE DEF R
  <1>3. PICK x \in S : \A y \in S : <<y, x>> \notin R
    BY <1>1, WFMin
  <1>4. x \in Nat /\ \A y \in S : y \in Nat /\ ~(y < x)
    BY <1>2, <1>3
  <1>5. \A y \in S : x <= y
    BY <1>4
  <1> QED
    BY <1>5

\* g takes what is in X to X, in each of n turns.
Closed(g, X, n) == \A x \in X : \A i \in 1..n : g[<<x, i>>] \in X

\* n turns of g, from a on, can be listed.
LEMMA Recursion ==
    ASSUME NEW n \in Nat, NEW X, NEW a \in X, NEW g, Closed(g, X, n)
    PROVE  \E f \in [0..n -> X] : f[0] = a /\ \A i \in 1..n : f[i] = g[<<f[i - 1], i>>]
  <1> DEFINE P(m, f) == f[0] = a /\ \A i \in 1..m : f[i] = g[<<f[i - 1], i>>]
             S == {m \in 0..n : \E f \in [0..m -> X] : P(m, f)}
  <1>1. 0 \in S
    <2> DEFINE f == [i \in 0..0 |-> a]
    <2>1. f \in [0..0 -> X] /\ P(0, f)
      OBVIOUS
    <2> HIDE DEF f, P
    <2>2. \E k \in [0..0 -> X] : P(0, k)
      BY <2>1
    <2> QED
      BY <2>2
  <1>2. ASSUME NEW m \in 0 .. n - 1, m \in S
        PROVE  m + 1 \in S
    <2>1. PICK f \in [0..m -> X] : P(m, f)
      BY <1>2
    <2> DEFINE h == [i \in 0 .. m + 1 |-> IF i = m + 1 THEN g[<<f[m], m + 1>>] ELSE f[i]]
    <2>2. g[<<f[m], m + 1>>] \in X
      BY <2>1 DEF Closed
    <2>3. h \in [0 .. m + 1 -> X]
      BY <2>1, <2>2
    <2>4. h[0] = a
      BY <2>1
    <2>5. ASSUME NEW i \in 1 .. m + 1
          PROVE  h[i] = g[<<h[i - 1], i>>]
      <3>1. CASE i = m + 1
        <4>1. i - 1 = m /\ h[m] = f[m]
          BY <3>1
        <4> QED
          BY <3>1, <4>1
      <3>2. CASE i # m + 1
        <4>1. i \in 1..m /\ i - 1 \in 0..m /\ i - 1 # m + 1
          BY <3>2
        <4>2. h[i] = f[i] /\ h[i - 1] = f[i - 1]
          BY <3>2, <4>1
        <4> QED
          BY <2>1, <4>1, <4>2
      <3> QED
        BY <3>1, <3>2
    <2>6. P(m + 1, h)
      BY <2>4, <2>5
    <2> HIDE DEF h, P
    <2>7. \E k \in [0 .. m + 1 -> X] : P(m + 1, k)
      BY <2>3, <2>6
    <2> QED
      BY <2>7
  <1>3. n \in S
    <2> HIDE DEF S
    <2> QED
      BY <1>1, <1>2, Upwards
  <1> QED
    BY <1>3

\* The same, with its conclusion by name.
HasTurns(g, X, a, n) ==
    \E f \in [0..n -> X] : f[0] = a /\ \A i \in 1..n : f[i] = g[<<f[i - 1], i>>]

\* Recursion, for a conclusion by name.
LEMMA RecursionUp ==
    ASSUME NEW n \in Nat, NEW X, NEW a \in X, NEW g, Closed(g, X, n)
    PROVE  HasTurns(g, X, a, n)
  BY Recursion DEF HasTurns

-----------------------------------------------------------------------------
(* Recursion from above *)

\* Induction from n downwards.
LEMMA Downwards ==
    ASSUME NEW n \in Nat, NEW m \in 0..n, NEW S, n \in S,
           \A i \in m .. n - 1 : i + 1 \in S => i \in S
    PROVE  m..n \subseteq S
  <1> DEFINE k == n - m
             T == {i \in 0..k : n - i \in S}
  <1>1. k \in Nat
    OBVIOUS
  <1>2. 0 \in T
    OBVIOUS
  <1>3. ASSUME NEW i \in 0 .. k - 1, i \in T
        PROVE  i + 1 \in T
    <2> DEFINE j == n - (i + 1)
    <2>1. j \in m .. n - 1 /\ j + 1 = n - i /\ i + 1 \in 0..k
      OBVIOUS
    <2>2. j + 1 \in S
      BY <1>3, <2>1
    <2> HIDE DEF j
    <2>3. j \in S
      BY <2>1, <2>2
    <2> QED
      BY <2>1, <2>3 DEF j
  <1>4. 0..k \subseteq T
    <2> HIDE DEF T, k
    <2> QED
      BY <1>1, <1>2, <1>3, Upwards
  <1> SUFFICES ASSUME NEW i \in m..n PROVE i \in S
    OBVIOUS
  <1>5. n - i \in 0..k /\ n - (n - i) = i
    OBVIOUS
  <1> QED
    BY <1>4, <1>5

\* g takes what is in X to X, at each position below n.
ClosedDown(g, X, m, n) == \A x \in X : \A i \in m .. n - 1 : g[<<x, i>>] \in X

\* The turns of g downwards from n, from a on, can be listed.
HasTurnsDown(g, X, a, m, n) ==
    \E f \in [m..n -> X] : f[n] = a /\ \A i \in m .. n - 1 : f[i] = g[<<f[i + 1], i>>]

\* Recursion from n downwards: so they can.
LEMMA RecursionDown ==
    ASSUME NEW n \in Nat, NEW m \in 0..n, NEW X, NEW a \in X, NEW g, ClosedDown(g, X, m, n)
    PROVE  HasTurnsDown(g, X, a, m, n)
  <1> DEFINE k == n - m
             h == [y \in X \X (1..k) |-> g[<<y[1], n - y[2]>>]]
  <1>1. k \in Nat
    OBVIOUS
  <1>2. Closed(h, X, k)
    <2> SUFFICES ASSUME NEW x \in X, NEW i \in 1..k PROVE h[<<x, i>>] \in X
      BY DEF Closed
    <2>1. n - i \in m .. n - 1
      OBVIOUS
    <2>2. h[<<x, i>>] = g[<<x, n - i>>]
      OBVIOUS
    <2> QED
      BY <2>1, <2>2 DEF ClosedDown
  <1>3. PICK f \in [0..k -> X] : f[0] = a /\ \A i \in 1..k : f[i] = h[<<f[i - 1], i>>]
    <2> HIDE DEF k, h
    <2> QED
      BY <1>1, <1>2, Recursion
  <1> DEFINE d == [i \in m..n |-> f[n - i]]
  <1>4. \A i \in m..n : n - i \in 0..k
    OBVIOUS
  <1>5. d \in [m..n -> X]
    BY <1>3, <1>4
  <1>6. d[n] = a
    BY <1>3
  <1>7. ASSUME NEW i \in m .. n - 1
        PROVE  d[i] = g[<<d[i + 1], i>>]
    <2> DEFINE j == n - i
    <2>1. j \in 1..k /\ n - j = i /\ n - (i + 1) = j - 1 /\ i \in m..n /\ i + 1 \in m..n /\ j - 1 \in 0..k
      OBVIOUS
    <2>2. d[i] = f[j] /\ d[i + 1] = f[j - 1]
      BY <2>1
    <2>3. f[j - 1] \in X
      BY <1>3, <2>1
    <2> HIDE DEF j, d, k
    <2>4. h[<<f[j - 1], j>>] = g[<<f[j - 1], n - j>>]
      BY <2>1, <2>3
    <2> HIDE DEF h
    <2>5. f[j] = g[<<f[j - 1], i>>]
      BY <1>3, <2>1, <2>4
    <2> QED
      BY <2>2, <2>5
  <1> HIDE DEF d
  <1> QED
    BY <1>5, <1>6, <1>7 DEF HasTurnsDown

-----------------------------------------------------------------------------
(* Loops *)

\* F is out of what is done, and otherwise what F is of the next.
IsTail(F, X, done, out, next) ==
    F = [x \in X |-> IF x \in done THEN out[x] ELSE F[next[x]]]

\* From x, n steps of next come to something that is done, and v is out of it.
Leads(x, n, s, v, X, done, out, next) ==
    /\ s \in [0..n -> X] /\ s[0] = x /\ s[n] \in done /\ v = out[s[n]]
    /\ \A i \in 0 .. n - 1 : s[i] \notin done /\ s[i + 1] = next[s[i]]

\* v is out of what x leads to.
Result(x, v, X, done, out, next) == \E n \in Nat : \E s : Leads(x, n, s, v, X, done, out, next)

\* What is done leads to itself.
LEMMA ResultDone ==
    ASSUME NEW X, NEW done, NEW out, NEW next, NEW x \in X, x \in done, NEW v
    PROVE  Result(x, v, X, done, out, next) <=> v = out[x]
  <1>1. ASSUME Result(x, v, X, done, out, next)
        PROVE  v = out[x]
    <2>1. PICK n \in Nat : \E s : Leads(x, n, s, v, X, done, out, next)
      BY <1>1 DEF Result
    <2>2. PICK s : Leads(x, n, s, v, X, done, out, next)
      BY <2>1
    <2>3. CASE n = 0
      BY <2>2, <2>3 DEF Leads
    <2>4. CASE n # 0
      <3>1. 0 \in 0 .. n - 1
        BY <2>4
      <3>2. s[0] \notin done /\ s[0] = x
        BY <2>2, <3>1 DEF Leads
      <3> QED
        BY <3>2
    <2> QED
      BY <2>3, <2>4
  <1>2. ASSUME v = out[x]
        PROVE  Result(x, v, X, done, out, next)
    <2> DEFINE s == [i \in 0..0 |-> x]
    <2>1. s \in [0..0 -> X] /\ s[0] = x /\ \A i \in 0 .. 0 - 1 : FALSE
      OBVIOUS
    <2> HIDE DEF s
    <2>2. Leads(x, 0, s, v, X, done, out, next)
      BY <1>2, <2>1 DEF Leads
    <2>3. 0 \in Nat
      OBVIOUS
    <2> QED
      BY <2>2, <2>3 DEF Result
  <1> QED
    BY <1>1, <1>2

\* What is not done leads to where the next one does.
LEMMA ResultNext ==
    ASSUME NEW X, NEW done, NEW out, NEW next, NEW x \in X, x \notin done, next[x] \in X, NEW v
    PROVE  Result(x, v, X, done, out, next) <=> Result(next[x], v, X, done, out, next)
  <1> DEFINE y == next[x]
  <1>1. ASSUME Result(x, v, X, done, out, next)
        PROVE  Result(y, v, X, done, out, next)
    <2>1. PICK n \in Nat : \E s : Leads(x, n, s, v, X, done, out, next)
      BY <1>1 DEF Result
    <2>2. PICK s : Leads(x, n, s, v, X, done, out, next)
      BY <2>1
    <2>3. n # 0
      BY <2>2 DEF Leads
    <2> DEFINE m == n - 1
               t == [i \in 0..m |-> s[i + 1]]
    <2>4. m \in Nat /\ n = m + 1
      BY <2>3
    <2>5. /\ s \in [0..n -> X] /\ s[0] = x /\ s[n] \in done /\ v = out[s[n]]
          /\ \A i \in 0 .. n - 1 : s[i] \notin done /\ s[i + 1] = next[s[i]]
      BY <2>2 DEF Leads
    <2> HIDE DEF m
    <2>6. t \in [0..m -> X]
      <3>1. \A i \in 0..m : s[i + 1] \in X
        BY <2>4, <2>5
      <3> QED
        BY <3>1
    <2>7. t[0] = y /\ t[m] = s[n]
      <3>1. 0 \in 0..m /\ m \in 0..m /\ 0 \in 0 .. n - 1 /\ 0 + 1 = 1
        BY <2>4
      <3>2. s[0 + 1] = next[s[0]]
        BY <2>5, <3>1
      <3>3. s[1] = y
        BY <2>5, <3>1, <3>2
      <3> QED
        BY <2>4, <3>1, <3>3
    <2>8. ASSUME NEW i \in 0 .. m - 1
          PROVE  t[i] \notin done /\ t[i + 1] = next[t[i]]
      <3>1. i + 1 \in 0 .. n - 1 /\ i \in 0..m /\ i + 1 \in 0..m
        BY <2>4
      <3>2. s[i + 1] \notin done /\ s[(i + 1) + 1] = next[s[i + 1]]
        BY <2>5, <3>1
      <3>3. t[i] = s[i + 1] /\ t[i + 1] = s[(i + 1) + 1]
        BY <3>1
      <3> QED
        BY <3>2, <3>3
    <2> HIDE DEF t, y
    <2>9. Leads(y, m, t, v, X, done, out, next)
      BY <2>5, <2>6, <2>7, <2>8 DEF Leads
    <2> QED
      BY <2>4, <2>9 DEF Result
  <1>2. ASSUME Result(y, v, X, done, out, next)
        PROVE  Result(x, v, X, done, out, next)
    <2>1. PICK m \in Nat : \E s : Leads(y, m, s, v, X, done, out, next)
      BY <1>2 DEF Result
    <2>2. PICK t : Leads(y, m, t, v, X, done, out, next)
      BY <2>1
    <2> DEFINE n == m + 1
               s == [i \in 0..n |-> IF i = 0 THEN x ELSE t[i - 1]]
    <2>3. n \in Nat /\ n # 0 /\ n - 1 = m
      OBVIOUS
    <2>4. /\ t \in [0..m -> X] /\ t[0] = y /\ t[m] \in done /\ v = out[t[m]]
          /\ \A i \in 0 .. m - 1 : t[i] \notin done /\ t[i + 1] = next[t[i]]
      BY <2>2 DEF Leads
    <2>5. s \in [0..n -> X]
      <3>1. \A i \in 0..n : i # 0 => t[i - 1] \in X
        BY <2>3, <2>4
      <3> QED
        BY <3>1
    <2>6. s[0] = x /\ s[n] = t[m]
      BY <2>3
    <2>7. ASSUME NEW i \in 0 .. n - 1
          PROVE  s[i] \notin done /\ s[i + 1] = next[s[i]]
      <3>1. i \in 0..n /\ i + 1 \in 0..n /\ i + 1 # 0 /\ (i + 1) - 1 = i
        OBVIOUS
      <3>2. s[i + 1] = t[i]
        BY <3>1
      <3>3. CASE i = 0
        <4>1. s[i] = x /\ s[i + 1] = y
          BY <2>4, <3>1, <3>2, <3>3
        <4> QED
          BY <4>1
      <3>4. CASE i # 0
        <4> DEFINE j == i - 1
        <4>1. j \in 0 .. m - 1 /\ j + 1 = i
          BY <3>4
        <4>2. s[i] = t[j]
          BY <3>1, <3>4
        <4> HIDE DEF j, s
        <4>3. t[j] \notin done /\ t[j + 1] = next[t[j]]
          BY <2>4, <4>1
        <4> QED
          BY <3>2, <4>1, <4>2, <4>3
      <3> QED
        BY <3>3, <3>4
    <2> HIDE DEF s, n
    <2>8. Leads(x, n, s, v, X, done, out, next)
      BY <2>4, <2>5, <2>6, <2>7 DEF Leads
    <2> QED
      BY <2>3, <2>8 DEF Result
  <1> QED
    BY <1>1, <1>2

\* A loop defines a function, also where it does not end.
LEMMA TailExists ==
    ASSUME NEW X, NEW done, NEW out, NEW next, \A x \in X : x \notin done => next[x] \in X
    PROVE  \E F : IsTail(F, X, done, out, next)
  <1> DEFINE F == [x \in X |-> CHOOSE v : Result(x, v, X, done, out, next)]
  <1>1. ASSUME NEW x \in X
        PROVE  F[x] = IF x \in done THEN out[x] ELSE F[next[x]]
    <2>1. CASE x \in done
      <3>1. \A v : Result(x, v, X, done, out, next) <=> v = out[x]
        BY <2>1, ResultDone
      <3>2. (CHOOSE v : Result(x, v, X, done, out, next)) = out[x]
        BY <3>1
      <3> QED
        BY <2>1, <3>2
    <2>2. CASE x \notin done
      <3> DEFINE y == next[x]
      <3>1. y \in X
        BY <2>2
      <3>2. \A v : Result(x, v, X, done, out, next) <=> Result(y, v, X, done, out, next)
        BY <2>2, <3>1, ResultNext
      <3>3. (CHOOSE v : Result(x, v, X, done, out, next)) = (CHOOSE v : Result(y, v, X, done, out, next))
        BY <3>2
      <3>4. F[x] = CHOOSE v : Result(x, v, X, done, out, next)
        OBVIOUS
      <3>5. F[y] = CHOOSE v : Result(y, v, X, done, out, next)
        BY <3>1
      <3> HIDE DEF F
      <3>6. F[x] = F[y]
        BY <3>3, <3>4, <3>5
      <3> QED
        BY <2>2, <3>6
    <2> QED
      BY <2>1, <2>2
  <1>2. F = [x \in X |-> F[x]]
    OBVIOUS
  <1> HIDE DEF F
  <1>3. IsTail(F, X, done, out, next)
    <2>1. F = [x \in X |-> IF x \in done THEN out[x] ELSE F[next[x]]]
      BY <1>1, <1>2
    <2> QED
      BY <2>1 DEF IsTail
  <1> QED
    BY <1>3

\* What holds of what is out of a loop, by induction on a measure that decreases.
LEMMA TailResult ==
    ASSUME NEW X, NEW done, NEW out, NEW next, NEW F, IsTail(F, X, done, out, next),
           NEW I \in SUBSET X, NEW G, NEW mu \in [I -> Nat],
           \A x \in I : x \in done => out[x] \in G,
           \A x \in I : x \notin done => next[x] \in I /\ mu[next[x]] < mu[x]
    PROVE  \A x \in I : F[x] \in G
  <1> DEFINE S == {n \in Nat : \A x \in I : mu[x] <= n => F[x] \in G}
  <1>1. \A x \in X : F[x] = IF x \in done THEN out[x] ELSE F[next[x]]
    BY DEF IsTail
  <1>2. ASSUME NEW x \in I, x \in done
        PROVE  F[x] \in G
    <2>1. F[x] = out[x] /\ out[x] \in G
      BY <1>1, <1>2
    <2> QED
      BY <2>1
  <1>3. ASSUME NEW x \in I, x \notin done
        PROVE  next[x] \in I /\ mu[next[x]] < mu[x] /\ F[x] = F[next[x]]
    <2>1. F[x] = F[next[x]]
      BY <1>1, <1>3
    <2> QED
      BY <1>3, <2>1
  <1>4. 0 \in S
    <2> SUFFICES ASSUME NEW x \in I, mu[x] <= 0 PROVE F[x] \in G
      OBVIOUS
    <2>1. CASE x \in done
      BY <1>2, <2>1
    <2>2. CASE x \notin done
      <3> DEFINE y == next[x]
      <3>1. y \in I /\ mu[y] < mu[x]
        BY <1>3, <2>2
      <3> HIDE DEF y
      <3>2. mu[y] \in Nat /\ mu[x] \in Nat
        BY <3>1
      <3> QED
        BY <3>1, <3>2
    <2> QED
      BY <2>1, <2>2
  <1>5. ASSUME NEW n \in Nat, n \in S
        PROVE  n + 1 \in S
    <2> SUFFICES ASSUME NEW x \in I, mu[x] <= n + 1 PROVE F[x] \in G
      OBVIOUS
    <2>1. CASE x \in done
      BY <1>2, <2>1
    <2>2. CASE x \notin done
      <3> DEFINE y == next[x]
      <3>1. y \in I /\ mu[y] < mu[x] /\ F[x] = F[y]
        BY <1>3, <2>2
      <3> HIDE DEF y
      <3>2. mu[y] \in Nat /\ mu[x] \in Nat
        BY <3>1
      <3>3. mu[y] <= n
        BY <3>1, <3>2
      <3>4. F[y] \in G
        BY <1>5, <3>1, <3>3
      <3> QED
        BY <3>1, <3>4
    <2> QED
      BY <2>1, <2>2
  <1>6. Nat \subseteq S
    <2> HIDE DEF S
    <2> QED
      BY <1>4, <1>5, SetInduction
  <1> SUFFICES ASSUME NEW x \in I PROVE F[x] \in G
    OBVIOUS
  <1> DEFINE n == mu[x]
  <1>7. n \in Nat /\ n \in S /\ mu[x] <= n
    BY <1>6
  <1> QED
    BY <1>7

-----------------------------------------------------------------------------
(* Sums *)

\* SumFunction of the community modules, with its recursion by name: an element is
\* picked and its value added to the sum of the others.
Pick(s) == CHOOSE x \in s : TRUE
SumBody(f, I, s) == IF s = {} THEN 0 ELSE f[Pick(s)] + I[s \ {Pick(s)}]
SumOf(f) == CHOOSE I : I = [s \in SUBSET DOMAIN f |-> SumBody(f, I, s)]

\* The definition of SumFunction, unfolded.
LEMMA SumIsFold ==
    ASSUME NEW f
    PROVE  SumFunction(f) = SumOf(f)[DOMAIN f]
  BY DEF SumFunction, SumFunctionOnSet, FoldFunctionOnSet, MapThenFoldSet, SumOf, SumBody, Pick

\* What is picked from a set is in it, and leaves a smaller set.
LEMMA PickIn == \A s : s # {} => Pick(s) \in s
  BY DEF Pick

\* What is left of a set is smaller by one.
LEMMA Smaller ==
    ASSUME NEW U, IsFiniteSet(U), NEW s \in SUBSET U, s # {}, NEW n \in Nat, Cardinality(s) <= n + 1
    PROVE  s \ {Pick(s)} \in SUBSET U /\ Cardinality(s \ {Pick(s)}) <= n
  <1>1. IsFiniteSet(s) /\ Pick(s) \in s
    BY FS_Subset, PickIn
  <1>2. Cardinality(s \ {Pick(s)}) = Cardinality(s) - 1 /\ Cardinality(s) \in Nat
    BY <1>1, FS_RemoveElement, FS_CardinalityType
  <1> QED
    BY <1>2

\* The recursion of a sum over a finite domain has a solution, so SumOf is one: by
\* induction on the size of the subsets that it is defined for.
LEMMA SumExists ==
    ASSUME NEW f, IsFiniteSet(DOMAIN f)
    PROVE  SumOf(f) = [s \in SUBSET DOMAIN f |-> SumBody(f, SumOf(f), s)]
  <1> DEFINE U == DOMAIN f
             D(n) == {s \in SUBSET U : Cardinality(s) <= n}
             S == {n \in Nat : \E I : I = [s \in D(n) |-> SumBody(f, I, s)]}
  <1>1. 0 \in S
    <2> DEFINE I == [s \in D(0) |-> 0]
    <2>1. \A s \in D(0) : s = {}
      BY FS_Subset, FS_EmptySet, FS_CardinalityType
    <2>2. I = [s \in D(0) |-> SumBody(f, I, s)]
      BY <2>1 DEF SumBody
    <2> QED
      BY <2>2
  <1>2. ASSUME NEW n \in Nat, n \in S
        PROVE  n + 1 \in S
    <2>1. PICK I : I = [s \in D(n) |-> SumBody(f, I, s)]
      BY <1>2
    <2> DEFINE J == [s \in D(n + 1) |-> SumBody(f, I, s)]
    <2>2. \A s \in D(n) : s \in D(n + 1) /\ J[s] = I[s]
      <3>1. \A s \in D(n) : s \in D(n + 1)
        BY FS_Subset, FS_CardinalityType
      <3> QED
        BY <2>1, <3>1
    <2>3. \A s \in D(n + 1) : SumBody(f, I, s) = SumBody(f, J, s)
      <3> SUFFICES ASSUME NEW s \in D(n + 1)
                   PROVE  SumBody(f, I, s) = SumBody(f, J, s)
        OBVIOUS
      <3>1. s # {} => s \ {Pick(s)} \in D(n)
        BY Smaller
      <3> HIDE DEF J
      <3> QED
        BY <2>2, <3>1 DEF SumBody
    <2>4. J = [s \in D(n + 1) |-> SumBody(f, J, s)]
      BY <2>3
    <2> HIDE DEF J
    <2>5. \E K : K = [s \in D(n + 1) |-> SumBody(f, K, s)]
      BY <2>4
    <2> QED
      BY <2>5
  <1>3. Cardinality(U) \in S
    <2> HIDE DEF S
    <2>1. Nat \subseteq S
      BY <1>1, <1>2, SetInduction
    <2> QED
      BY <2>1, FS_CardinalityType
  <1>4. D(Cardinality(U)) = SUBSET U
    BY FS_Subset, FS_CardinalityType
  <1>5. \E I : I = [s \in SUBSET U |-> SumBody(f, I, s)]
    BY <1>3, <1>4
  <1> QED
    BY <1>5 DEF SumOf

\* The recursion, as two equations.
LEMMA SumSteps ==
    ASSUME NEW U, IsFiniteSet(U), NEW f \in [U -> Int]
    PROVE  /\ SumOf(f)[{}] = 0
           /\ \A s \in SUBSET U : s # {} =>
                 SumOf(f)[s] = f[Pick(s)] + SumOf(f)[s \ {Pick(s)}]
  <1> DEFINE F == SumOf(f)
  <1>1. F = [s \in SUBSET U |-> SumBody(f, F, s)]
    <2>1. DOMAIN f = U
      OBVIOUS
    <2> QED
      BY <2>1, SumExists
  <1> HIDE DEF F
  <1>2. F[{}] = SumBody(f, F, {}) /\ \A s \in SUBSET U : F[s] = SumBody(f, F, s)
    BY <1>1
  <1>3. F[{}] = 0 /\ \A s \in SUBSET U : s # {} => F[s] = f[Pick(s)] + F[s \ {Pick(s)}]
    BY <1>2 DEF SumBody
  <1> QED
    BY <1>3 DEF F

\* Of two functions from a finite set to the integers, g has d more at u, and is the
\* same elsewhere.
Differ(U, f, g, u, d) ==
    /\ IsFiniteSet(U) /\ f \in [U -> Int] /\ g \in [U -> Int] /\ u \in U /\ d \in Int
    /\ \A x \in U : g[x] = f[x] + (IF x = u THEN d ELSE 0)

\* A sum of integers is an integer; if one of them differs by d, the sum does: by
\* induction on the size of the subsets added up so far.
LEMMA SumDiffers ==
    ASSUME NEW U, NEW f, NEW g, NEW u, NEW d, Differ(U, f, g, u, d)
    PROVE  SumFunction(f) \in Int /\ SumFunction(g) = SumFunction(f) + d
  <1> DEFINE F == SumOf(f)
             G == SumOf(g)
             More(s) == IF u \in s THEN d ELSE 0
             S == {n \in Nat : \A s \in SUBSET U : Cardinality(s) <= n =>
                                  F[s] \in Int /\ G[s] = F[s] + More(s)}
  <1>0. /\ IsFiniteSet(U) /\ u \in U /\ d \in Int
        /\ f \in [U -> Int] /\ g \in [U -> Int] /\ DOMAIN f = U /\ DOMAIN g = U
        /\ \A x \in U : f[x] \in Int /\ g[x] = f[x] + (IF x = u THEN d ELSE 0)
    BY DEF Differ
  <1>1. F[{}] = 0 /\ \A s \in SUBSET U : s # {} => F[s] = f[Pick(s)] + F[s \ {Pick(s)}]
    BY <1>0, SumSteps
  <1>2. G[{}] = 0 /\ \A s \in SUBSET U : s # {} => G[s] = g[Pick(s)] + G[s \ {Pick(s)}]
    BY <1>0, SumSteps
  <1>3. SumFunction(f) = F[U] /\ SumFunction(g) = G[U]
    BY <1>0, SumIsFold DEF F, G
  <1> HIDE DEF F, G
  <1>4. 0 \in S
    <2> SUFFICES ASSUME NEW s \in SUBSET U, Cardinality(s) <= 0
                 PROVE  F[s] \in Int /\ G[s] = F[s] + More(s)
      OBVIOUS
    <2>1. s = {}
      BY <1>0, FS_Subset, FS_EmptySet, FS_CardinalityType
    <2> QED
      BY <1>1, <1>2, <2>1
  <1>5. ASSUME NEW n \in Nat, n \in S
        PROVE  n + 1 \in S
    <2> SUFFICES ASSUME NEW s \in SUBSET U, Cardinality(s) <= n + 1
                 PROVE  F[s] \in Int /\ G[s] = F[s] + More(s)
      OBVIOUS
    <2>1. CASE s = {}
      BY <1>1, <1>2, <2>1
    <2>2. CASE s # {}
      <3> DEFINE x == Pick(s)
                 t == s \ {x}
      <3>1. x \in s /\ t \in SUBSET U /\ Cardinality(t) <= n
        BY <1>0, <2>2, PickIn, Smaller
      <3>2. F[s] = f[x] + F[t] /\ G[s] = g[x] + G[t]
        BY <1>1, <1>2, <2>2
      <3>3. F[t] \in Int /\ G[t] = F[t] + More(t)
        BY <1>5, <3>1
      <3>4. u \in s <=> u = x \/ u \in t
        BY <3>1
      <3>5. f[x] \in Int /\ g[x] = f[x] + (IF x = u THEN d ELSE 0)
        BY <1>0, <3>1
      <3> HIDE DEF x
      <3> QED
        BY <1>0, <3>1, <3>2, <3>3, <3>4, <3>5
    <2> QED
      BY <2>1, <2>2
  <1>6. Cardinality(U) \in S
    <2> HIDE DEF S
    <2>1. Nat \subseteq S
      BY <1>4, <1>5, SetInduction
    <2> QED
      BY <1>0, <2>1, FS_CardinalityType
  <1>7. F[U] \in Int /\ G[U] = F[U] + d
    <2>1. Cardinality(U) <= Cardinality(U)
      BY <1>0, FS_CardinalityType
    <2> QED
      BY <1>0, <1>6, <2>1
  <1> QED
    BY <1>0, <1>3, <1>7

\* A sum grows by what one of its numbers grows.
LEMMA SumChange ==
    ASSUME NEW U, IsFiniteSet(U), NEW f \in [U -> Int], NEW u \in U, NEW d \in Int,
           NEW g, g = [f EXCEPT ![u] = f[u] + d]
    PROVE  SumFunction(f) \in Int /\ SumFunction(g) = SumFunction(f) + d
  <1>1. Differ(U, f, g, u, d)
    BY DEF Differ
  <1> QED
    BY <1>1, SumDiffers

\* A finite sum of integers is one, also if there are none.
LEMMA SumIsInteger ==
    ASSUME NEW U, IsFiniteSet(U), NEW f \in [U -> Int]
    PROVE  SumFunction(f) \in Int
  <1>1. CASE U = {}
    <2>1. DOMAIN f = {}
      BY <1>1
    <2>2. SumOf(f)[{}] = 0
      BY SumSteps
    <2> QED
      BY <2>1, <2>2, SumIsFold
  <1>2. CASE U # {}
    <2>1. PICK u \in U : TRUE
      BY <1>2
    <2>2. Differ(U, f, f, u, 0)
      BY DEF Differ
    <2> QED
      BY <2>2, SumDiffers, Zenon
  <1> QED
    BY <1>1, <1>2

-----------------------------------------------------------------------------
(* Quotients and remainders *)

\* Every integer is a multiple of b and a remainder.
LEMMA QuotientExists ==
    ASSUME NEW n \in Int, NEW b \in Nat \ {0}
    PROVE  \E q \in Int : \E r \in 0 .. b - 1 : n = q * b + r
  <1> DEFINE S == {k \in Nat : \E q \in Int : \E r \in 0 .. b - 1 : k = q * b + r}
  <1>1. 0 \in S
    <2>1. 0 = 0 * b + 0 /\ 0 \in 0 .. b - 1
      OBVIOUS
    <2> QED
      BY <2>1
  <1>2. ASSUME NEW k \in Nat, k \in S
        PROVE  k + 1 \in S
    <2>1. PICK q \in Int, r \in 0 .. b - 1 : k = q * b + r
      BY <1>2
    <2>2. CASE r + 1 \in 0 .. b - 1
      <3>1. k + 1 = q * b + (r + 1)
        BY <2>1
      <3> QED
        BY <2>2, <3>1
    <2>3. CASE r = b - 1
      <3>1. (q + 1) * b = q * b + b /\ q * b \in Int
        OBVIOUS
      <3>2. k + 1 = (q + 1) * b + 0 /\ 0 \in 0 .. b - 1 /\ q + 1 \in Int
        BY <2>1, <2>3, <3>1
      <3> QED
        BY <3>2
    <2> QED
      BY <2>2, <2>3
  <1>3. Nat \subseteq S
    <2> HIDE DEF S
    <2> QED
      BY <1>1, <1>2, SetInduction
  <1>4. CASE n \in Nat
    BY <1>3, <1>4
  <1>5. CASE n \notin Nat
    <2>1. - n \in Nat
      BY <1>5
    <2>2. PICK q \in Int, r \in 0 .. b - 1 : - n = q * b + r
      BY <1>3, <2>1
    <2>3. (- q) * b = - (q * b) /\ (- q - 1) * b = - (q * b) - b /\ q * b \in Int
      OBVIOUS
    <2>4. CASE r = 0
      <3>1. n = (- q) * b + 0 /\ 0 \in 0 .. b - 1 /\ - q \in Int
        BY <2>2, <2>3, <2>4
      <3> QED
        BY <3>1
    <2>5. CASE r # 0
      <3>1. n = (- q - 1) * b + (b - r) /\ b - r \in 0 .. b - 1 /\ - q - 1 \in Int
        BY <2>2, <2>3, <2>5
      <3> QED
        BY <3>1
    <2> QED
      BY <2>4, <2>5
  <1> QED
    BY <1>4, <1>5

\* The quotient and the remainder of q*b + r.
LEMMA QuotientOf ==
    ASSUME NEW b \in Nat \ {0}, NEW q \in Int, NEW r \in 0 .. b - 1
    PROVE  (q * b + r) % b = r /\ (q * b + r) \div b = q
  OBVIOUS

\* The quotient and the remainder that \div and % give.
LEMMA Division ==
    ASSUME NEW n \in Int, NEW b \in Nat \ {0}
    PROVE  n \div b \in Int /\ n % b \in 0 .. b - 1 /\ n = (n \div b) * b + (n % b)
  <1>1. PICK q \in Int, r \in 0 .. b - 1 : n = q * b + r
    BY QuotientExists
  <1>2. n % b = r /\ n \div b = q
    BY <1>1, QuotientOf
  <1> DEFINE d == n \div b
             m == n % b
  <1>3. d = q /\ m = r
    BY <1>2
  <1> HIDE DEF d, m
  <1>4. d \in Int /\ m \in 0 .. b - 1 /\ n = d * b + m
    BY <1>1, <1>3
  <1> QED
    BY <1>4 DEF d, m

\* The quotient of a natural number is one.
LEMMA DivNat ==
    ASSUME NEW n \in Nat, NEW b \in Nat \ {0}
    PROVE  n \div b \in Nat /\ n \div b <= n
  OBVIOUS

\* To divide twice is to divide by the product.
LEMMA DivTwice ==
    ASSUME NEW n \in Nat, NEW b \in Nat \ {0}, NEW c \in Nat \ {0}
    PROVE  n \div (b * c) = (n \div c) \div b
  <1> DEFINE q == n \div c
             s == n % c
             d == q \div b
             r == q % b
             p == b * c
             t == r * c + s
  <1>1. q \in Nat /\ s \in 0 .. c - 1 /\ n = q * c + s
    BY Division, DivNat
  <1>2. d \in Nat /\ r \in 0 .. b - 1 /\ q = d * b + r
    <2>1. q \in Int /\ q \in Nat
      BY <1>1
    <2> HIDE DEF q
    <2>2. q \div b \in Nat
      BY <2>1
    <2>3. q % b \in 0 .. b - 1 /\ q = (q \div b) * b + (q % b)
      BY <2>1, Division
    <2> QED
      BY <2>2, <2>3
  <1> HIDE DEF q, s, d, r
  <1>3. p \in Nat \ {0}
    OBVIOUS
  <1>4. r * c <= (b - 1) * c /\ (b - 1) * c = p - c /\ r * c \in Nat /\ p \in Nat
    BY <1>2
  <1>5. t \in 0 .. p - 1
    <2> DEFINE x == r * c
               y == (b - 1) * c
    <2>1. x <= y /\ y = p - c /\ x \in Nat /\ p \in Nat
      BY <1>4
    <2>2. t = x + s
      OBVIOUS
    <2> HIDE DEF x, y, p, t
    <2> QED
      BY <1>1, <2>1, <2>2
  <1>6. n = d * p + t
    <2>1. (d * b + r) * c = d * (b * c) + r * c
      BY <1>2
    <2>2. d * (b * c) \in Int /\ r * c \in Int
      BY <1>2
    <2> QED
      BY <1>1, <1>2, <2>1, <2>2
  <1> HIDE DEF p, t
  <1>7. n \div p = d
    BY <1>2, <1>3, <1>5, <1>6, QuotientOf
  <1> QED
    BY <1>7 DEF p, d, q

\* The number 2, as the lemmas about numbers take it.
LEMMA TwoIs == 2 \in Nat \ {0} /\ 2 \in Nat \ {0, 1} /\ 2 \in Int /\ 2 > 1
  OBVIOUS

\* A product of odd numbers is odd.
LEMMA OddTimes ==
    ASSUME NEW p \in Nat, p % 2 = 1, NEW q \in Nat, q % 2 = 1
    PROVE  (p * q) % 2 = 1
  <1> DEFINE i == p \div 2
             j == q \div 2
             k == 2 * i * j + i + j
  <1>1. i \in Int /\ j \in Int /\ p = 2 * i + 1 /\ q = 2 * j + 1
    OBVIOUS
  <1> HIDE DEF i, j
  <1>2. p * q = 2 * k + 1 /\ k \in Int
    <2>1. (2 * i + 1) * (2 * j + 1) = 2 * k + 1 /\ k \in Int
      BY <1>1
    <2> QED
      BY <1>1, <2>1
  <1> DEFINE x == p * q
  <1> HIDE DEF k, x
  <1>3. x = 2 * k + 1 /\ k \in Int
    BY <1>2 DEF x
  <1>4. x % 2 = 1
    BY <1>3
  <1> QED
    BY <1>4 DEF x

-----------------------------------------------------------------------------
(* Congruence *)

\* a and b have one remainder modulo m.
Cong(a, b, m) == a \in Int /\ b \in Int /\ \E q \in Int : a = b + q * m

\* Congruence by a multiple of m that is given.
LEMMA CongFrom ==
    ASSUME NEW a \in Int, NEW b \in Int, NEW m \in Int, NEW q \in Int, a = b + q * m
    PROVE  Cong(a, b, m)
  BY DEF Cong

\* A number is congruent to itself.
LEMMA CongSelf ==
    ASSUME NEW a \in Int, NEW m \in Int
    PROVE  Cong(a, a, m)
  <1>1. a = a + 0 * m /\ 0 \in Int
    OBVIOUS
  <1>2. \E q \in Int : a = a + q * m
    BY <1>1
  <1> QED
    BY <1>2 DEF Cong

\* Congruence is symmetric.
LEMMA CongBack ==
    ASSUME NEW a, NEW b, NEW m \in Int, Cong(a, b, m)
    PROVE  Cong(b, a, m)
  <1>1. PICK q \in Int : a = b + q * m
    BY DEF Cong
  <1>2. a \in Int /\ b \in Int
    BY DEF Cong
  <1>3. b = a + (- q) * m /\ - q \in Int
    BY <1>1, <1>2
  <1> QED
    BY <1>2, <1>3, CongFrom

\* Congruence is transitive.
LEMMA CongOn ==
    ASSUME NEW a, NEW b, NEW c, NEW m \in Int, Cong(a, b, m), Cong(b, c, m)
    PROVE  Cong(a, c, m)
  <1>1. PICK q \in Int : a = b + q * m
    BY DEF Cong
  <1>2. PICK r \in Int : b = c + r * m
    BY DEF Cong
  <1>3. a \in Int /\ b \in Int /\ c \in Int
    BY DEF Cong
  <1>4. a = c + (r + q) * m /\ r + q \in Int
    BY <1>1, <1>2, <1>3
  <1> QED
    BY <1>3, <1>4, CongFrom

\* Sums of congruent numbers are congruent.
LEMMA CongPlus ==
    ASSUME NEW a, NEW b, NEW c, NEW d, NEW m \in Int, Cong(a, b, m), Cong(c, d, m)
    PROVE  Cong(a + c, b + d, m)
  <1>1. PICK q \in Int : a = b + q * m
    BY DEF Cong
  <1>2. PICK r \in Int : c = d + r * m
    BY DEF Cong
  <1>3. a \in Int /\ b \in Int /\ c \in Int /\ d \in Int
    BY DEF Cong
  <1> DEFINE x == a + c
             y == b + d
             t == q + r
  <1>4. x = y + t * m /\ x \in Int /\ y \in Int /\ t \in Int
    BY <1>1, <1>2, <1>3
  <1> HIDE DEF x, y, t
  <1>5. Cong(x, y, m)
    BY <1>4, CongFrom
  <1> QED
    BY <1>5 DEF x, y

\* Products of congruent numbers are congruent.
LEMMA CongTimes ==
    ASSUME NEW a, NEW b, NEW c, NEW d, NEW m \in Int, Cong(a, b, m), Cong(c, d, m)
    PROVE  Cong(a * c, b * d, m)
  <1>1. PICK q \in Int : a = b + q * m
    BY DEF Cong
  <1>2. PICK r \in Int : c = d + r * m
    BY DEF Cong
  <1>3. a \in Int /\ b \in Int /\ c \in Int /\ d \in Int
    BY DEF Cong
  <1> DEFINE x == a * c
             y == b * d
             t == b * r + q * d + q * m * r
  <1>4. x = y + t * m
    BY <1>1, <1>2, <1>3
  <1>5. x \in Int /\ y \in Int /\ t \in Int
    BY <1>3
  <1> HIDE DEF x, y, t
  <1>6. Cong(x, y, m)
    BY <1>4, <1>5, CongFrom
  <1> QED
    BY <1>6 DEF x, y

\* A number and its remainder.
LEMMA CongMod ==
    ASSUME NEW a \in Int, NEW m \in Nat \ {0}
    PROVE  Cong(a % m, a, m) /\ Cong(a, a % m, m)
  <1> DEFINE x == a % m
             q == a \div m
  <1>1. x \in Int /\ q \in Int /\ a = q * m + x
    BY Division
  <1> HIDE DEF x, q
  <1>2. Cong(a, x, m)
    BY <1>1 DEF Cong
  <1> QED
    BY <1>2, CongBack DEF x

\* Two congruent remainders are one.
LEMMA CongSame ==
    ASSUME NEW m \in Nat \ {0}, NEW a \in 0 .. m - 1, NEW b \in 0 .. m - 1, Cong(a, b, m)
    PROVE  a = b
  <1>1. PICK q \in Int : a = b + q * m
    BY DEF Cong
  <1>2. a = q * m + b
    BY <1>1
  <1>3. a % m = b
    BY <1>2, QuotientOf
  <1>4. a = 0 * m + a /\ 0 \in Int
    OBVIOUS
  <1>5. a % m = a
    BY <1>4, QuotientOf
  <1> QED
    BY <1>3, <1>5

\* Congruent numbers have one remainder.
LEMMA CongIsMod ==
    ASSUME NEW m \in Nat \ {0}, NEW a, NEW b, Cong(a, b, m)
    PROVE  a % m = b % m
  <1>1. PICK q \in Int : a = b + q * m
    BY DEF Cong
  <1>2. a \in Int /\ b \in Int
    BY DEF Cong
  <1> DEFINE d == b \div m
             r == b % m
             e == q + d
  <1>3. d \in Int /\ r \in 0 .. m - 1 /\ b = d * m + r
    BY <1>2, Division
  <1>4. e \in Int /\ a = e * m + r
    <2> HIDE DEF d, r
    <2> QED
      BY <1>1, <1>2, <1>3
  <1> HIDE DEF d, r, e
  <1>5. a % m = r
    BY <1>3, <1>4, QuotientOf
  <1> QED
    BY <1>5 DEF r

\* 1 modulo m, as a remainder.
LEMMA OneMod ==
    ASSUME NEW m \in Nat, m > 1, NEW x \in Int
    PROVE  x % m = 1 <=> Cong(x, 1, m)
  <1>1. m \in Nat \ {0} /\ m \in Int /\ 1 \in 0 .. m - 1 /\ 1 \in Int /\ x % m \in 0 .. m - 1
    <2>1. m \in Nat \ {0}
      OBVIOUS
    <2>2. x % m \in 0 .. m - 1
      BY <2>1, Division
    <2> QED
      BY <2>1, <2>2
  <1>2. Cong(x % m, x, m) /\ Cong(x, x % m, m)
    BY <1>1, CongMod
  <1> DEFINE r == x % m
             one == 1
  <1>3. ASSUME Cong(x, one, m)
        PROVE  r = one
    <2>1. Cong(r, x, m) /\ r \in 0 .. m - 1 /\ one \in 0 .. m - 1
      BY <1>1, <1>2
    <2> HIDE DEF r, one
    <2>2. Cong(r, one, m)
      BY <1>1, <1>3, <2>1, CongOn
    <2> QED
      BY <1>1, <2>1, <2>2, CongSame
  <1> QED
    BY <1>2, <1>3

\* What is so modulo q and modulo p is so modulo both, where u is an inverse.
LEMMA CongBoth ==
    ASSUME NEW p \in Nat \ {0}, NEW q \in Nat \ {0}, NEW u \in Int, Cong(u * q, 1, p),
           NEW a \in Int, NEW b \in Int, Cong(a, b, q), Cong(a, b, p)
    PROVE  Cong(a, b, p * q)
  <1>1. p \in Int /\ q \in Int
    OBVIOUS
  <1>2. PICK s \in Int : a = b + s * q
    BY DEF Cong
  <1>3. PICK t \in Int : a = b + t * p
    BY DEF Cong
  <1>4. PICK v \in Int : u * q = 1 + v * p
    BY DEF Cong
  <1> DEFINE c == u * t - v * s
  <1>5. c \in Int /\ s = c * p
    <2>1. s * q = t * p
      <3> DEFINE i == s * q
                 j == t * p
      <3>1. i \in Int /\ j \in Int /\ a = b + i /\ a = b + j
        BY <1>1, <1>2, <1>3
      <3> HIDE DEF i, j
      <3>2. i = j
        BY <3>1
      <3> QED
        BY <3>2 DEF i, j
    <2>2. u * (s * q) = s + v * s * p
      <3>1. s * (u * q) = s + v * s * p
        <4>1. s * (1 + v * p) = s + v * s * p
          BY <1>1
        <4> QED
          BY <1>4, <4>1
      <3>2. s * (u * q) = u * (s * q)
        BY <1>1
      <3> QED
        BY <3>1, <3>2
    <2>3. u * (t * p) = u * t * p
      BY <1>1
    <2>4. c * p = u * t * p - v * s * p
      BY <1>1
    <2> DEFINE i == u * t * p
               j == v * s * p
    <2>5. i \in Int /\ j \in Int /\ i = s + j /\ c * p = i - j
      <3>1. i \in Int /\ j \in Int
        BY <1>1
      <3>2. i = s + j
        BY <2>1, <2>2, <2>3
      <3> QED
        BY <2>4, <3>1, <3>2
    <2> HIDE DEF i, j
    <2>6. s = c * p
      BY <2>5
    <2> QED
      BY <2>6
  <1> HIDE DEF c
  <1> DEFINE m == p * q
  <1>6. a = b + c * m /\ m \in Int
    <2>1. (c * p) * q = c * (p * q)
      BY <1>1, <1>5
    <2> QED
      BY <1>1, <1>2, <1>5, <2>1
  <1> HIDE DEF m
  <1>7. Cong(a, b, m)
    BY <1>5, <1>6, CongFrom
  <1> QED
    BY <1>7 DEF m

-----------------------------------------------------------------------------
(* Divisors *)

\* d divides n.
Divides(d, n) == \E c \in Int : n = d * c

\* A congruence holds for the divisors of its modulus.
LEMMA CongDown ==
    ASSUME NEW a, NEW b, NEW m \in Int, NEW d \in Int, Divides(d, m), Cong(a, b, m)
    PROVE  Cong(a, b, d)
  <1>0. PICK c \in Int : m = d * c
    BY DEF Divides
  <1>1. PICK q \in Int : a = b + q * m
    BY DEF Cong
  <1>2. a \in Int /\ b \in Int
    BY DEF Cong
  <1> DEFINE t == q * c
  <1>3. t \in Int
    OBVIOUS
  <1>4. a = b + t * d
    <2>1. q * (d * c) = (q * c) * d
      OBVIOUS
    <2> QED
      BY <1>0, <1>1, <2>1
  <1> HIDE DEF t
  <1> QED
    BY <1>2, <1>3, <1>4, CongFrom

\* Everything divides 0.
LEMMA DividesZero ==
    ASSUME NEW d \in Int
    PROVE  Divides(d, 0)
  <1>1. 0 \in Int /\ 0 = d * 0
    OBVIOUS
  <1> QED
    BY <1>1 DEF Divides

\* What divides two numbers divides their sum, and with any multiple of one of them.
LEMMA DividesPlus ==
    ASSUME NEW d \in Int, NEW a \in Int, NEW b \in Int, Divides(d, a), Divides(d, b), NEW k \in Int
    PROVE  Divides(d, a + k * b)
  <1>1. PICK u \in Int : a = d * u
    BY DEF Divides
  <1>2. PICK v \in Int : b = d * v
    BY DEF Divides
  <1> DEFINE w == u + k * v
  <1>3. w \in Int /\ a + k * b = d * w
    <2>1. k * v \in Int /\ k * (d * v) = d * (k * v)
      OBVIOUS
    <2> DEFINE x == k * v
    <2>2. x \in Int /\ k * b = d * x
      BY <1>2, <2>1
    <2>3. d * (u + x) = d * u + d * x
      <3> HIDE DEF x
      <3> QED
        BY <2>2
    <2> QED
      BY <1>1, <2>2, <2>3
  <1> HIDE DEF w
  <1> QED
    BY <1>3 DEF Divides

\* A divisor of a positive number is no greater.
LEMMA DividesLess ==
    ASSUME NEW d \in Nat, NEW n \in Nat \ {0}, Divides(d, n)
    PROVE  d <= n /\ d # 0
  <1>1. PICK c \in Int : n = d * c
    BY DEF Divides
  <1>2. d # 0
    <2> SUFFICES ASSUME d = 0 PROVE FALSE
      OBVIOUS
    <2>1. 0 * c = 0
      OBVIOUS
    <2> QED
      BY <1>1, <2>1
  <1>3. c >= 1
    <2> SUFFICES ASSUME c <= 0 PROVE FALSE
      OBVIOUS
    <2>1. d * c <= 0
      OBVIOUS
    <2> QED
      BY <1>1, <2>1
  <1>4. d * c >= d
    BY <1>3
  <1> QED
    BY <1>1, <1>2, <1>4

\* d divides both numbers of the pair p.
CommonDivisor(d, p) == Divides(d, p[1]) /\ Divides(d, p[2])

\* What divides two numbers divides them after one step of Euclid's algorithm, and
\* back.
LEMMA EuclidStep ==
    ASSUME NEW d \in Nat \ {0}, NEW a \in Nat, NEW b \in Nat \ {0}
    PROVE  CommonDivisor(d, <<a, b>>) <=> CommonDivisor(d, <<b, a % b>>)
  <1> DEFINE q == a \div b
             r == a % b
  <1>1. q \in Int /\ r \in Nat /\ a = q * b + r
    <2>1. a \in Int
      OBVIOUS
    <2>2. q \in Int /\ r \in 0 .. b - 1 /\ a = q * b + r
      BY <2>1, Division
    <2> HIDE DEF q, r
    <2> QED
      BY <2>2
  <1> HIDE DEF q, r
  <1>2. r \in Int /\ a \in Int /\ b \in Int /\ d \in Int /\ 0 - q \in Int
    BY <1>1
  <1>3. a = r + q * b
    BY <1>1
  <1>4. r = a + (0 - q) * b
    BY <1>1
  <1>5. ASSUME Divides(d, a), Divides(d, b)
        PROVE  Divides(d, r)
    <2> DEFINE k == 0 - q
    <2>1. k \in Int /\ r = a + k * b
      BY <1>2, <1>4
    <2> HIDE DEF k
    <2>2. Divides(d, a + k * b)
      BY <1>2, <1>5, <2>1, DividesPlus
    <2> QED
      BY <2>1, <2>2
  <1>6. ASSUME Divides(d, r), Divides(d, b)
        PROVE  Divides(d, a)
    <2>2. Divides(d, r + q * b)
      BY <1>1, <1>2, <1>6, DividesPlus
    <2> QED
      BY <1>3, <2>2
  <1>7. CommonDivisor(d, <<a, b>>) <=> CommonDivisor(d, <<b, r>>)
    BY <1>5, <1>6 DEF CommonDivisor
  <1> QED
    BY <1>7 DEF r

-----------------------------------------------------------------------------
(* Products and units *)

\* What i contributes to the product of the set s.
Factor(s, i) == IF i \in s THEN i ELSE 1

\* q lists the products of the members of s up to i.
Multiplied(q, s, n) ==
    q \in [0..n -> Int] /\ q[0] = 1 /\ \A i \in 1..n : q[i] = q[i - 1] * Factor(s, i)

\* v is the product of s, a set of numbers from 1 to n.
IsProduct(v, s, n) == \E q : Multiplied(q, s, n) /\ v = q[n]

\* The product of nothing is 1.
LEMMA ProductOfNone ==
    ASSUME NEW n \in Nat
    PROVE  IsProduct(1, {}, n)
  <1> DEFINE q == [i \in 0..n |-> 1]
  <1>1. Multiplied(q, {}, n) /\ 1 = q[n]
    BY DEF Multiplied, Factor
  <1> HIDE DEF q
  <1> QED
    BY <1>1 DEF IsProduct

\* One more member multiplies the product.
LEMMA ProductOfMore ==
    ASSUME NEW n \in Nat, NEW s, NEW v, IsProduct(v, s, n), NEW x \in 1..n, x \notin s
    PROVE  v \in Int /\ IsProduct(x * v, s \cup {x}, n)
  <1>1. PICK q : Multiplied(q, s, n) /\ v = q[n]
    BY DEF IsProduct
  <1>2. q \in [0..n -> Int] /\ q[0] = 1 /\ \A i \in 1..n : q[i] = q[i - 1] * Factor(s, i)
    BY <1>1 DEF Multiplied
  <1> DEFINE t == s \cup {x}
             r == [i \in 0..n |-> IF i < x THEN q[i] ELSE x * q[i]]
  <1>3. r \in [0..n -> Int]
    <2>1. \A i \in 0..n : q[i] \in Int /\ x * q[i] \in Int
      <3> SUFFICES ASSUME NEW i \in 0..n PROVE q[i] \in Int /\ x * q[i] \in Int
        OBVIOUS
      <3> DEFINE y == q[i]
      <3>1. y \in Int
        BY <1>2
      <3> HIDE DEF y
      <3>2. x * y \in Int
        BY <3>1
      <3> QED
        BY <3>1, <3>2 DEF y
    <2> QED
      BY <2>1
  <1>4. r[0] = 1
    BY <1>2
  <1>5. ASSUME NEW i \in 1..n
        PROVE  r[i] = r[i - 1] * Factor(t, i)
    <2> DEFINE y == q[i - 1]
    <2>1. i \in 0..n /\ i - 1 \in 0..n /\ y \in Int
      BY <1>2
    <2>2. q[i] = y * Factor(s, i)
      BY <1>2
    <2>3. r[i] = (IF i < x THEN q[i] ELSE x * q[i]) /\ r[i - 1] = (IF i - 1 < x THEN y ELSE x * y)
      BY <2>1
    <2> HIDE DEF r, y
    <2>4. CASE i < x
      <3>1. Factor(t, i) = Factor(s, i) /\ i - 1 < x
        BY <2>4 DEF Factor
      <3> QED
        BY <2>2, <2>3, <2>4, <3>1
    <2>5. CASE i = x
      <3>1. Factor(t, i) = x /\ Factor(s, i) = 1 /\ i - 1 < x /\ ~(i < x)
        BY <2>5 DEF Factor
      <3>2. r[i] = x * (y * 1) /\ r[i - 1] = y
        BY <2>2, <2>3, <3>1
      <3>3. x * (y * 1) = y * x
        BY <2>1
      <3> QED
        BY <3>1, <3>2, <3>3
    <2>6. CASE i > x
      <3> DEFINE f == Factor(s, i)
      <3>1. Factor(t, i) = f /\ ~(i - 1 < x) /\ ~(i < x)
        BY <2>6 DEF Factor
      <3>2. r[i] = x * (y * f) /\ r[i - 1] = x * y
        BY <2>2, <2>3, <3>1
      <3>3. f \in Int
        BY DEF Factor
      <3> HIDE DEF f
      <3>4. x * (y * f) = (x * y) * f
        BY <2>1, <3>3
      <3> QED
        BY <3>1, <3>2, <3>4
    <2> QED
      BY <2>4, <2>5, <2>6
  <1>6. r[n] = x * v /\ v \in Int
    <2>1. n \in 0..n /\ ~(n < x)
      OBVIOUS
    <2> QED
      BY <1>1, <1>2, <2>1
  <1> HIDE DEF r
  <1>7. Multiplied(r, t, n)
    BY <1>3, <1>4, <1>5 DEF Multiplied
  <1> QED
    BY <1>6, <1>7 DEF IsProduct

\* A set has one product.
LEMMA ProductIsOne ==
    ASSUME NEW n \in Nat, NEW s, NEW v, NEW w, IsProduct(v, s, n), IsProduct(w, s, n)
    PROVE  v = w
  <1>1. PICK q : Multiplied(q, s, n) /\ v = q[n]
    BY DEF IsProduct
  <1>2. PICK r : Multiplied(r, s, n) /\ w = r[n]
    BY DEF IsProduct
  <1> DEFINE S == {i \in 0..n : q[i] = r[i]}
  <1>3. 0 \in S
    BY <1>1, <1>2 DEF Multiplied
  <1>4. ASSUME NEW i \in 0 .. n - 1, i \in S
        PROVE  i + 1 \in S
    <2>1. i + 1 \in 1..n /\ (i + 1) - 1 = i /\ i + 1 \in 0..n
      OBVIOUS
    <2>2. q[i + 1] = q[i] * Factor(s, i + 1) /\ r[i + 1] = r[i] * Factor(s, i + 1)
      BY <1>1, <1>2, <2>1 DEF Multiplied
    <2> QED
      BY <1>4, <2>1, <2>2
  <1>5. 0..n \subseteq S
    <2> HIDE DEF S
    <2> QED
      BY <1>3, <1>4, Upwards
  <1> QED
    BY <1>1, <1>2, <1>5

\* v has an inverse modulo m.
Unit(v, m) == \E w \in Int : Cong(v * w, 1, m)

\* The product of units is one.
LEMMA UnitTimes ==
    ASSUME NEW u \in Int, NEW v \in Int, NEW m \in Int, Unit(u, m), Unit(v, m)
    PROVE  Unit(u * v, m)
  <1>1. PICK x \in Int : Cong(u * x, 1, m)
    BY DEF Unit
  <1>2. PICK y \in Int : Cong(v * y, 1, m)
    BY DEF Unit
  <1> DEFINE a == u * x
             b == v * y
             w == x * y
             one == 1
  <1>3. Cong(a, one, m) /\ Cong(b, one, m)
    BY <1>1, <1>2
  <1>4. a * b = (u * v) * w /\ w \in Int /\ one * one = 1
    OBVIOUS
  <1> HIDE DEF a, b, w, one
  <1>5. Cong(a * b, one * one, m)
    BY <1>3, CongTimes
  <1> QED
    BY <1>4, <1>5 DEF Unit

\* A unit can be cancelled.
LEMMA CancelUnit ==
    ASSUME NEW u \in Int, NEW m \in Int, Unit(u, m), NEW x \in Int, NEW y \in Int,
           Cong(x * u, y * u, m)
    PROVE  Cong(x, y, m)
  <1>1. PICK w \in Int : Cong(u * w, 1, m)
    BY DEF Unit
  <1> DEFINE a == x * u
             b == y * u
             k == u * w
             one == 1
  <1>2. Cong(a, b, m) /\ Cong(w, w, m) /\ Cong(k, one, m) /\ Cong(x, x, m) /\ Cong(y, y, m)
    BY <1>1, CongSelf
  <1>3. a * w = x * k /\ b * w = y * k /\ x * one = x /\ y * one = y
    OBVIOUS
  <1> HIDE DEF a, b, k, one
  <1>4. Cong(a * w, b * w, m)
    BY <1>2, CongTimes
  <1>5. Cong(x * k, x * one, m) /\ Cong(y * k, y * one, m)
    BY <1>2, CongTimes
  <1> DEFINE c == a * w
             d == b * w
  <1>6. Cong(c, d, m) /\ Cong(c, x, m) /\ Cong(d, y, m)
    BY <1>3, <1>4, <1>5
  <1> HIDE DEF c, d
  <1>7. Cong(x, c, m)
    BY <1>6, CongBack
  <1>8. Cong(x, d, m)
    BY <1>6, <1>7, CongOn
  <1> QED
    BY <1>6, <1>8, CongOn
=============================================================================
