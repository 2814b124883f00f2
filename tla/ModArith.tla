------------------------------- MODULE ModArith -------------------------------
(***************************************************************************)
(* The arithmetic under the handshake's challenge: Crypto++'s coding of    *)
(* integers as bytes (cryptopp/integer.cpp), modular inverses and          *)
(* Montgomery multiplication (integer.cpp), exponentiation by sliding      *)
(* windows (algebra.cpp), roots by the Chinese remainder theorem           *)
(* (nbtheory.cpp) and RSA on top of them (rsa.cpp).                        *)
(*                                                                         *)
(* A number is a number: how words carry into each other is abstracted,    *)
(* which quantities the algorithms keep, and in which order they change,   *)
(* is not.                                                                 *)
(***************************************************************************)
EXTENDS Integers, Sequences, FiniteSets

CONSTANTS
    ByteBase,      \* 256
    Radix,         \* Montgomery's: 2^(WORD_BITS * reg.size()), above every odd modulus
    WindowLimits   \* <<17, 24, 70, 197, 539, 1434>>: exponents longer than this many
                   \* bits take windows of one bit more

\* b to the power k.
Raised(b, k) ==
    LET r[i \in 0..k] == IF i = 0 THEN 1 ELSE b * r[i - 1]
    IN  r[k]

ASSUME ModArithAssumption ==
    /\ ByteBase \in Nat \ {0, 1}
    /\ Radix \in Nat /\ \E k \in 3..Radix : Radix = Raised(2, k)
    /\ WindowLimits \in Seq(Nat)

-----------------------------------------------------------------------------
(* Integer: the coding as bytes *)

\* The number of digits of n to the base b.
Digits(n, b) ==
    CHOOSE k \in 0..n : n < Raised(b, k) /\ (k = 0 \/ Raised(b, k - 1) <= n)

BitCount(n)  == Digits(n, 2)
ByteCount(n) == Digits(n, ByteBase)

MinEncodedSize(n) == IF n = 0 THEN 1 ELSE ByteCount(n)

GetByte(n, i) == (n \div Raised(ByteBase, i)) % ByteBase
EncodeInteger(n, len) == [i \in 1..len |-> GetByte(n, len - i)]

DecodeInteger(bytes) ==
    LET value[i \in 0..Len(bytes)] == IF i = 0 THEN 0 ELSE value[i - 1] * ByteBase + bytes[i]
    IN  value[Len(bytes)]

\* resize(MinEncodedSize()), Encode: as the handshake always does it.
MinEncoded(n) == EncodeInteger(n, MinEncodedSize(n))

-----------------------------------------------------------------------------
(* Inverses modulo m *)

GCD(a, b) ==
    LET gcd[p \in Nat \X Nat] == IF p[2] = 0 THEN p[1] ELSE gcd[<<p[2], p[1] % p[2]>>]
    IN  gcd[<<a, b>>]

LCM(a, b) == (a \div GCD(a, b)) * b

\* Of a positive n.
TrailingZeros(n) ==
    CHOOSE k \in 0..n : n % Raised(2, k) = 0 /\ n % Raised(2, k + 1) # 0

\* The numbers that AlmostInverse keeps: b is f/2^k times a's inverse, up to its sign s.
Turns == [f : Nat, g : Nat \ {0}, b : Nat, c : Nat, k : Nat, s : BOOLEAN]

\* One turn of the loop: f loses its zeros at the end, and then the smaller of f and g
\* is taken from the larger.
NextTurn(t) ==
    LET i  == TrailingZeros(t.f)
        f1 == t.f \div Raised(2, i)
        c1 == t.c * Raised(2, i)
    IN  IF f1 < t.g
        THEN [f |-> t.g - f1, g |-> f1, b |-> c1 + t.b, c |-> t.b, k |-> t.k + i, s |-> ~t.s]
        ELSE [t EXCEPT !.f = f1 - t.g, !.b = @ + c1, !.c = c1, !.k = @ + i]

\* inverse = 2^k / a modulo the odd m, or 0.
AlmostInverse(a, m) ==
    LET from[t \in Turns] ==
            IF t.f = 0 THEN [inverse |-> 0, k |-> 0]
            ELSE IF t.f = Raised(2, TrailingZeros(t.f))
            THEN [inverse |-> IF t.s THEN m - t.b ELSE t.b, k |-> t.k + TrailingZeros(t.f)]
            ELSE from[NextTurn(t)]
    IN  from[[f |-> a, g |-> m, b |-> 1, c |-> 0, k |-> 0, s |-> FALSE]]

\* r / 2^k modulo the odd m.
DivideByPower2Mod(r, k, m) ==
    LET half[i \in 0..k] ==
            IF i = 0 THEN r
            ELSE LET x == half[i - 1] IN IF x % 2 = 0 THEN x \div 2 ELSE (x + m) \div 2
    IN  half[k]

InverseModOdd(a, m) ==
    LET almost == AlmostInverse(a, m)
    IN  DivideByPower2Mod(almost.inverse, almost.k, m)

\* 0 if there is none.
InverseMod(a, m) ==
    IF m % 2 = 1 THEN InverseModOdd(a, m)
    ELSE IF m = 0 \/ a % 2 = 0 THEN 0
    ELSE IF a = 1 THEN 1
    ELSE LET u == InverseModOdd(m % a, a)
         IN  IF u = 0 THEN 0 ELSE (m * (a - u) + 1) \div a

-----------------------------------------------------------------------------
(* Powers modulo an odd m *)

\* So often do three bits double until they are Radix's, or more.
Doublings ==
    CHOOSE n \in 0..Radix : /\ Radix <= Raised(2, 3 * Raised(2, n))
                            /\ n = 0 \/ Raised(2, 3 * Raised(2, n - 1)) < Radix

\* RecursiveInverseModPower2: an odd m is its own inverse modulo 8; each step doubles the
\* bits that r is right in.
InverseModRadix(m) ==
    LET r[i \in 0..Doublings] ==
            IF i = 0 THEN m % 8
            ELSE LET x == r[i - 1] IN (x * ((2 - x * m) % Radix)) % Radix
    IN  r[Doublings]

Montgomery(m) == [m |-> m, u |-> InverseModRadix(m)]

\* x / Radix modulo m.
MontgomeryReduce(x, rep) ==
    LET r    == ((x % Radix) * rep.u) % Radix
        high == x \div Radix
        less == (r * rep.m) \div Radix
    IN  IF high >= less THEN high - less ELSE high - less + rep.m

Multiply(a, b, rep) == MontgomeryReduce(a * b, rep)
ConvertIn(a, rep)   == (a * (Radix % rep.m)) % rep.m
ConvertOut(a, rep)  == MontgomeryReduce(a, rep)
Identity(rep)       == Radix % rep.m

WindowSize(exp) ==
    1 + Cardinality({i \in DOMAIN WindowLimits : BitCount(exp) > WindowLimits[i]})

\* WindowSlider::FindNextWindow, from bit `skip' on: the next window begins with a 1.
FindNextWindow(w, skip) ==
    LET exp   == w.exp \div Raised(2, skip)
        zeros == TrailingZeros(exp)
        next  == exp \div Raised(2, zeros)
    IN  IF exp = 0 THEN [w EXCEPT !.finished = TRUE]
        ELSE [w EXCEPT !.exp = next,
                       !.windowBegin = @ + skip + zeros,
                       !.expWindow = next % Raised(2, w.windowSize)]

WindowSlider(exp) ==
    FindNextWindow([exp |-> exp, windowBegin |-> 0, expWindow |-> 0,
                    windowSize |-> WindowSize(exp), finished |-> FALSE], 0)

\* SimultaneousMultiply, first part, at one position: g is the base to the power
\* 2^position, and goes to the bucket of the window that begins there.
FillBucket(t, position, rep) ==
    IF t.w.finished THEN t
    ELSE IF t.w.windowBegin # position THEN [t EXCEPT !.g = Multiply(@, @, rep)]
    ELSE [w |-> FindNextWindow(t.w, t.w.windowSize),
          g |-> Multiply(t.g, t.g, rep),
          bucket |-> [t.bucket EXCEPT ![t.w.expWindow \div 2] = Multiply(@, t.g, rep)]]

\* bucket[j] is for the window 2j + 1.
FillBuckets(base, e, rep) ==
    LET slider == WindowSlider(e)
        empty  == [j \in 0 .. Raised(2, slider.windowSize - 1) - 1 |-> Identity(rep)]
        turn[i \in 0..BitCount(e)] ==
            IF i = 0 THEN [w |-> slider, g |-> base, bucket |-> empty]
            ELSE FillBucket(turn[i - 1], i - 1, rep)
    IN  turn[BitCount(e)].bucket

\* Mutant: the product of the buckets is not squared for the even part of the windows.
EmptyBucketsOnce(bucket, rep) ==
    LET last == Cardinality(DOMAIN bucket) - 1
        down[j \in 0..last] ==
            IF j = last THEN bucket[j] ELSE Multiply(bucket[j], down[j + 1], rep)
        r[j \in 1..last] ==
            IF j = last THEN bucket[j] ELSE Multiply(r[j + 1], down[j], rep)
    IN  IF last = 0 THEN bucket[0] ELSE Multiply(r[1], down[0], rep)

\* Second part: bucket j counts 2j + 1 times.  down[j] is the product of the buckets
\* from j on, and r that of down[1] and above.
EmptyBuckets(bucket, rep) ==
    LET last == Cardinality(DOMAIN bucket) - 1
        down[j \in 0..last] ==
            IF j = last THEN bucket[j] ELSE Multiply(bucket[j], down[j + 1], rep)
        r[j \in 1..last] ==
            IF j = last THEN bucket[j] ELSE Multiply(r[j + 1], down[j], rep)
    IN  IF last = 0 THEN bucket[0]
        ELSE Multiply(Multiply(r[1], r[1], rep), down[0], rep)

\* a^e modulo the odd m.
Exponentiate(a, e, m) ==
    LET rep == Montgomery(m)
    IN  ConvertOut(EmptyBuckets(FillBuckets(ConvertIn(a, rep), e, rep), rep), rep)

-----------------------------------------------------------------------------
(* RSA *)

CRT(xp, p, xq, q, u) == p * ((u * (xq - xp)) % q) + xp

ModularRoot(a, dp, dq, p, q, u) ==
    CRT(Exponentiate(a % p, dp, p), p, Exponentiate(a % q, dq, q), q, u)

\* The private key of the primes p and q and the public exponent e.
PrivateKey(p, q, e) ==
    LET d == InverseMod(e, LCM(p - 1, q - 1))
    IN  [n |-> p * q, e |-> e, p |-> p, q |-> q,
         dp |-> d % (p - 1), dq |-> d % (q - 1), u |-> InverseMod(q, p)]

Prime(p) == p > 1 /\ \A d \in 2 .. p - 1 : p % d # 0

\* What CalculateInverse relies on, of what Validate tests: d is not kept, but that its
\* remainders undo e modulo p - 1 and q - 1.
ValidKey(key) ==
    /\ key \in [n : Nat, e : Nat, p : Nat, q : Nat, dp : Nat, dq : Nat, u : Nat]
    /\ Prime(key.p) /\ key.p % 2 = 1 /\ (key.e * key.dp) % (key.p - 1) = 1
    /\ Prime(key.q) /\ key.q % 2 = 1 /\ (key.e * key.dq) % (key.q - 1) = 1
    /\ key.n = key.p * key.q /\ (key.u * key.q) % key.p = 1

ApplyFunction(key, x) == Exponentiate(x, key.e, key.n)

\* The random numbers to blind with: those that have an inverse.
Blinds(key, random) == {r \in random : r \in 1 .. key.n - 1 /\ InverseMod(r, key.n) # 0}

\* Mutant: the exponents of the two primes change places.
CalculateInverseSwapped(key, x, r) ==
    LET blinded == (Exponentiate(r, key.e, key.n) * x) % key.n
        root    == ModularRoot(blinded, key.dp, key.dq, key.q, key.p, key.u)
        y       == (root * InverseMod(r, key.n)) % key.n
    IN  [ok |-> Exponentiate(y, key.e, key.n) = x, y |-> y]

\* CalculateInverse with the blinding factor r; not ok: it throws.
CalculateInverse(key, x, r) ==
    LET blinded == (Exponentiate(r, key.e, key.n) * x) % key.n
        root    == ModularRoot(blinded, key.dq, key.dp, key.q, key.p, key.u)
        y       == (root * InverseMod(r, key.n)) % key.n
    IN  [ok |-> Exponentiate(y, key.e, key.n) = x, y |-> y]
=============================================================================
