-------------------------- MODULE WindowChecksProofs --------------------------
(***************************************************************************)
(* The window checks decide byte by byte.  For CHECK_MASK the way leads    *)
(* from the bits of a word to its digits: a word is a sum of powers of two *)
(* (Number), its bytes are digits of that sum, and the addition that looks *)
(* for zero bytes carries nothing from one digit into the next.            *)
(***************************************************************************)
EXTENDS WindowChecks, WellFoundedInduction, TLAPS

\* A set of naturals has a least element.
LEMMA LeastExists ==
    ASSUME NEW S \in SUBSET Nat, S # {}
    PROVE  \E x \in S : \A y \in S : x <= y
<1> DEFINE R == {ss \in Nat \X Nat : ss[1] < ss[2]}
<1>1. IsWellFoundedOn(R, Nat)
      BY NatLessThanWellFounded, Zenon DEF OpToRel
<1>2. \A x, y \in Nat : <<y, x>> \notin R => x <= y
      OBVIOUS
<1> HIDE DEF R
<1>3. \E x \in S : \A y \in S : ~ (<<y, x>> \in R)
      BY <1>1, WFMin, Zenon
<1>4. QED  BY <1>2, <1>3

\* Induction over a set.
LEMMA Steps ==
    ASSUME NEW T, NEW k \in Nat, 0 \in T, \A n \in 0..k-1 : n \in T => n + 1 \in T
    PROVE  0..k \subseteq T
<1> DEFINE Rest == {n \in 0..k : n \notin T}
<1> SUFFICES ASSUME Rest # {} PROVE FALSE
    OBVIOUS
<1>1. PICK n \in Rest : \A m \in Rest : n <= m
      <2>1. Rest \in SUBSET Nat
            OBVIOUS
      <2> HIDE DEF Rest
      <2>2. QED  BY <2>1, LeastExists
<1>2. n # 0 /\ n \in 0..k /\ n \notin T
      BY <1>1
<1>3. n - 1 \in 0..k-1 /\ n - 1 + 1 = n
      BY <1>2
<1>4. n - 1 \in T
      BY <1>1, <1>3
<1>5. QED  BY <1>2, <1>3, <1>4

\* A function can be defined by recursion ...
LEMMA Recursion ==
    ASSUME NEW S, NEW base \in S, NEW k \in Nat, NEW next \in [1..k -> [S -> S]]
    PROVE  \E g \in [0..k -> S] : g[0] = base /\ \A n \in 1..k : g[n] = next[n][g[n - 1]]
<1> DEFINE Starts(g, m) == g[0] = base /\ \A n \in 1..m : g[n] = next[n][g[n - 1]]
           T == {m \in 0..k : \E g \in [0..m -> S] : Starts(g, m)}
<1>1. 0 \in T
      <2> DEFINE g == [n \in 0..0 |-> base]
      <2>1. g \in [0..0 -> S] /\ Starts(g, 0)
            OBVIOUS
      <2> HIDE DEF g, Starts
      <2>2. QED  BY <2>1
<1>2. ASSUME NEW m \in 0..k-1, m \in T PROVE m + 1 \in T
      <2>1. PICK g \in [0..m -> S] : Starts(g, m)
            BY <1>2
      <2> DEFINE h == [n \in 0..m+1 |-> IF n = m + 1 THEN next[m + 1][g[m]] ELSE g[n]]
      <2>2. m + 1 \in 1..k /\ next[m + 1] \in [S -> S] /\ g[m] \in S
            OBVIOUS
      <2>3. h \in [0..m+1 -> S]
            BY <2>2
      <2>4. h[0] = base
            BY <2>1
      <2>5. ASSUME NEW n \in 1..m+1 PROVE h[n] = next[n][h[n - 1]]
            <3>1. n - 1 \in 0..m /\ h[n - 1] = g[n - 1]
                  OBVIOUS
            <3>2. CASE n = m + 1
                  BY <3>1, <3>2
            <3>3. CASE n # m + 1
                  <4>1. n \in 1..m /\ h[n] = g[n]
                        BY <3>3
                  <4>2. QED  BY <2>1, <3>1, <4>1
            <3>4. QED  BY <3>2, <3>3
      <2>6. Starts(h, m + 1)
            BY <2>4, <2>5
      <2> HIDE DEF h, Starts
      <2>7. QED  BY <2>2, <2>3, <2>6
<1>3. k \in T
      <2> HIDE DEF T
      <2>1. 0..k \subseteq T
            BY <1>1, <1>2, Steps
      <2>2. QED  BY <2>1
<1>4. QED  BY <1>3

\* ... in one way.
LEMMA RecursionOnce ==
    ASSUME NEW k \in Nat, NEW next, NEW f, NEW g, f[0] = g[0],
           \A n \in 1..k : f[n] = next[n][f[n - 1]],
           \A n \in 1..k : g[n] = next[n][g[n - 1]]
    PROVE  \A n \in 0..k : f[n] = g[n]
<1> DEFINE T == {n \in 0..k : f[n] = g[n]}
<1>1. 0 \in T
      OBVIOUS
<1>2. ASSUME NEW n \in 0..k-1, n \in T PROVE n + 1 \in T
      <2>1. n + 1 \in 1..k /\ n + 1 - 1 = n
            OBVIOUS
      <2>2. f[n + 1] = next[n + 1][f[n]] /\ g[n + 1] = next[n + 1][g[n]]
            BY <2>1
      <2>3. QED  BY <1>2, <2>1, <2>2
<1>3. 0..k \subseteq T
      <2> HIDE DEF T
      <2>1. QED  BY <1>1, <1>2, Steps
<1>4. QED  BY <1>3

LEMMA WordLength == N \in Nat \ {0} /\ BITS \in 1..N
<1>1. WORD - 1 \in Nat /\ BITS \in Nat
      BY WidthAssumption
<1>2. BITS * (WORD - 1) \in Nat
      BY <1>1
<1>3. N = BITS + BITS * (WORD - 1)
      BY <1>1, WidthAssumption DEF N
<1>4. QED  BY <1>1, <1>2, <1>3, WidthAssumption

LEMMA PowDef ==
    /\ Pow \in [0..N -> Nat \ {0}]
    /\ Pow[0] = 1
    /\ \A n \in 1..N : Pow[n] = 2 * Pow[n - 1]
<1> DEFINE P == Nat \ {0}
           next == [n \in 1..N |-> [v \in P |-> 2 * v]]
           IsPow(g) == g = [n \in 0..N |-> IF n = 0 THEN 1 ELSE 2 * g[n - 1]]
<1>1. N \in Nat
      BY WordLength
<1>2. next \in [1..N -> [P -> P]] /\ 1 \in P
      OBVIOUS
<1>3. PICK g \in [0..N -> P] : g[0] = 1 /\ \A n \in 1..N : g[n] = next[n][g[n - 1]]
      <2> HIDE DEF P, next
      <2>1. QED  BY <1>1, <1>2, Recursion
<1>4. ASSUME NEW n \in 1..N PROVE g[n] = 2 * g[n - 1]
      <2>1. n - 1 \in 0..N /\ g[n - 1] \in P
            BY <1>1
      <2>2. QED  BY <1>3, <2>1
<1>5. IsPow(g)
      BY <1>1, <1>3, <1>4
<1>6. IsPow(Pow)
      BY <1>5, Zenon DEF Pow
<1>7. /\ Pow[0] = 1 /\ DOMAIN Pow = 0..N
      /\ \A n \in 1..N : Pow[n] = 2 * Pow[n - 1]
      BY <1>1, <1>6
<1> DEFINE T == {n \in 0..N : Pow[n] \in P}
<1>8. 0..N \subseteq T
      <2>1. 0 \in T
            BY <1>1, <1>7
      <2>2. ASSUME NEW n \in 0..N-1, n \in T PROVE n + 1 \in T
            <3>1. n + 1 \in 1..N /\ n + 1 - 1 = n
                  BY <1>1
            <3>2. Pow[n + 1] = 2 * Pow[n]
                  BY <1>7, <3>1
            <3>3. QED  BY <2>2, <3>1, <3>2
      <2> HIDE DEF T
      <2>3. QED  BY <1>1, <2>1, <2>2, Steps
<1>9. \A n \in 0..N : Pow[n] \in P
      BY <1>8
<1> HIDE DEF P
<1>10. Pow = [n \in 0..N |-> Pow[n]]
      BY <1>6, <1>7
<1>11. Pow \in [0..N -> P]
      BY <1>9, <1>10
<1>12. QED  BY <1>7, <1>11 DEF P

-----------------------------------------------------------------------------
(***************************************************************************)
(* Division.                                                               *)
(***************************************************************************)
LEMMA TimesMonotone ==
    ASSUME NEW a \in Int, NEW b \in Int, NEW n \in Nat, a <= b
    PROVE  a * n \in Int /\ b * n \in Int /\ a * n <= b * n
<1>1. b - a \in Nat
      OBVIOUS
<1>2. (b - a) * n \in Nat
      BY <1>1
<1>3. b * n = a * n + (b - a) * n
      OBVIOUS
<1>4. QED  BY <1>2, <1>3

\* Division: quotient and remainder.
LEMMA Divides ==
    ASSUME NEW a \in Nat, NEW n \in Nat \ {0}
    PROVE  /\ a \div n \in Nat /\ a % n \in 0..n-1
           /\ a = (a \div n) * n + (a % n)
OBVIOUS

\* ... and there is no other way to divide.
LEMMA DividesOnce ==
    ASSUME NEW q \in Nat, NEW r \in Nat, NEW n \in Nat, r < n
    PROVE  (q * n + r) \div n = q /\ (q * n + r) % n = r
<1> DEFINE a == q * n + r
           e == a \div n
           m == a % n
<1>1. n \in Nat \ {0} /\ q * n \in Nat /\ a \in Nat
      OBVIOUS
<1>2. e \in Nat /\ m \in 0..n-1 /\ a = e * n + m
      <2> HIDE DEF a
      <2>1. QED  BY <1>1, Divides
<1>3. q * n + r = e * n + m
      BY <1>2
<1> HIDE DEF e, m
<1>4. ~ (q + 1 <= e)
      <2>1. (q + 1) * n = q * n + n
            OBVIOUS
      <2>2. q + 1 <= e => q * n + n <= e * n
            BY <1>2, <2>1, TimesMonotone
      <2>3. QED  BY <1>1, <1>2, <1>3, <2>2
<1>5. ~ (e + 1 <= q)
      <2>1. (e + 1) * n = e * n + n
            BY <1>2
      <2>2. e + 1 <= q => e * n + n <= q * n
            BY <1>2, <2>1, TimesMonotone
      <2>3. e * n \in Nat
            BY <1>2
      <2>4. QED  BY <1>1, <1>2, <1>3, <2>2, <2>3
<1>6. e = q
      BY <1>2, <1>4, <1>5
<1>7. m = r
      BY <1>1, <1>2, <1>3, <1>6
<1>8. QED  BY <1>6, <1>7 DEF e, m

\* A remainder of a product, and a quotient by one, in two steps.
LEMMA DividesTwice ==
    ASSUME NEW x \in Nat, NEW a \in Nat \ {0}, NEW b \in Nat \ {0}
    PROVE  /\ a * b \in Nat \ {0}
           /\ x \div (a * b) = (x \div a) \div b
           /\ x % (a * b) = ((x \div a) % b) * a + (x % a)
<1> DEFINE q == x \div a
           r == x % a
           e == q \div b
           m == q % b
<1>1. q \in Nat /\ r \in 0..a-1 /\ x = q * a + r
      BY Divides
<1>2. e \in Nat /\ m \in 0..b-1 /\ q = e * b + m
      <2> HIDE DEF q
      <2>1. QED  BY <1>1, Divides
<1> HIDE DEF q, r, e, m
<1>3. m * a \in Nat /\ m * a <= (b - 1) * a /\ (b - 1) * a = a * b - a /\ a * b \in Nat
      BY <1>2, TimesMonotone
<1>4. m * a + r \in Nat /\ m * a + r < a * b
      BY <1>1, <1>3
<1>5. q * a = e * (a * b) + m * a
      <2>1. q * a = (e * b) * a + m * a
            BY <1>2
      <2>2. (e * b) * a = e * (a * b)
            BY <1>2
      <2>3. QED  BY <2>1, <2>2
<1>6. x = e * (a * b) + (m * a + r)
      <2> DEFINE u == e * (a * b)
                 v == m * a
      <2>1. u \in Nat /\ v \in Nat /\ q * a = u + v
            BY <1>2, <1>3, <1>5
      <2>2. x = (u + v) + r
            BY <1>1, <2>1
      <2> HIDE DEF u, v
      <2>3. x = u + (v + r)
            BY <1>1, <2>1, <2>2
      <2>4. QED  BY <2>3 DEF u, v
<1>7. x \div (a * b) = e /\ x % (a * b) = m * a + r
      <2> DEFINE n == a * b
                 s == m * a + r
      <2>1. n \in Nat /\ s \in Nat /\ s < n
            BY <1>3, <1>4
      <2> HIDE DEF n, s
      <2>2. (e * n + s) \div n = e /\ (e * n + s) % n = s
            BY <1>2, <2>1, DividesOnce
      <2>3. QED  BY <1>6, <2>2 DEF n, s
<1>8. a * b # 0
      BY <1>1, <1>4
<1>9. QED  BY <1>3, <1>7, <1>8 DEF q, r, e, m

LEMMA Powers ==
    ASSUME NEW m \in Nat, NEW n \in Nat, m + n <= N
    PROVE  /\ Pow[m] \in Nat \ {0} /\ Pow[n] \in Nat \ {0}
           /\ Pow[m + n] = Pow[m] * Pow[n] /\ Pow[m] <= Pow[m + n]
<1>1. N \in Nat
      BY WordLength
<1>2. \A i \in 0..N : Pow[i] \in Nat \ {0}
      BY PowDef
<1> DEFINE T == {i \in 0..n : Pow[m + i] = Pow[m] * Pow[i]}
<1>3. 0 \in T
      <2>1. Pow[0] = 1 /\ m + 0 = m /\ m \in 0..N
            BY <1>1, PowDef
      <2>2. QED  BY <1>2, <2>1
<1>4. ASSUME NEW i \in 0..n-1, i \in T PROVE i + 1 \in T
      <2>1. /\ i + 1 \in 1..N /\ i + 1 - 1 = i /\ i \in 0..N /\ m \in 0..N
            /\ m + (i + 1) \in 1..N /\ m + (i + 1) - 1 = m + i /\ m + i \in 0..N
            BY <1>1
      <2>2. Pow[i + 1] = 2 * Pow[i] /\ Pow[m + (i + 1)] = 2 * Pow[m + i]
            BY <2>1, PowDef
      <2>3. Pow[m + i] = Pow[m] * Pow[i]
            BY <1>4
      <2>4. Pow[m + (i + 1)] = Pow[m] * Pow[i + 1]
            BY <1>2, <2>1, <2>2, <2>3
      <2>5. QED  BY <2>1, <2>4
<1>5. n \in T
      <2> HIDE DEF T
      <2>1. QED  BY <1>3, <1>4, Steps
<1>6. Pow[m] \in Nat \ {0} /\ Pow[n] \in Nat \ {0}
      BY <1>1, <1>2
<1>7. Pow[m] <= Pow[m] * Pow[n]
      <2>1. 1 * Pow[m] <= Pow[n] * Pow[m]
            BY <1>6, TimesMonotone
      <2>2. QED  BY <1>6, <2>1
<1>8. QED  BY <1>5, <1>6, <1>7

-----------------------------------------------------------------------------
(***************************************************************************)
(* Numbers and their digits.                                               *)
(***************************************************************************)
IsDigits(width, digits, k) ==
    /\ width \in Nat \ {0} /\ k \in Nat /\ width * k <= N
    /\ \A i \in 0..k-1 : digits[i] \in 0..Pow[width]-1

\* s is the recursion behind a number.
Sums(s, width, digits, k) ==
    /\ s \in [0..k -> Nat] /\ s[0] = 0
    /\ \A i \in 1..k : s[i] = s[i - 1] + digits[i - 1] * Pow[width * (i - 1)]

LEMMA DigitPlace ==
    ASSUME NEW width \in Nat \ {0}, NEW k \in Nat, width * k <= N, NEW i \in 0..k-1
    PROVE  /\ width * i \in Nat /\ width * (i + 1) = width * i + width
           /\ width * (i + 1) <= N
           /\ Pow[width * i] \in Nat \ {0} /\ Pow[width] \in Nat \ {0}
           /\ Pow[width * (i + 1)] = Pow[width * i] * Pow[width]
<1>1. width * i \in Nat /\ width * (i + 1) = width * i + width /\ N \in Nat
      BY WordLength
<1>2. (i + 1) * width <= k * width
      BY TimesMonotone
<1>3. width * (i + 1) <= N
      <2>1. (i + 1) * width = width * (i + 1) /\ k * width = width * k
            OBVIOUS
      <2>2. QED  BY <1>1, <1>2, <2>1
<1>4. QED  BY <1>1, <1>3, Powers

LEMMA NumberSums ==
    ASSUME NEW width, NEW digits, NEW k, IsDigits(width, digits, k)
    PROVE  \E s : Sums(s, width, digits, k) /\ Number(width, digits, k) = s[k]
<1>1. width \in Nat \ {0} /\ k \in Nat /\ width * k <= N
      BY DEF IsDigits
<1> DEFINE d == [i \in 1..k |-> digits[i - 1] * Pow[width * (i - 1)]]
           next == [i \in 1..k |-> [v \in Nat |-> v + d[i]]]
           IsSum(g) == g = [i \in 0..k |-> IF i = 0 THEN 0 ELSE g[i - 1] + digits[i - 1] * Pow[width * (i - 1)]]
<1>2. ASSUME NEW i \in 1..k PROVE d[i] \in Nat
      <2>1. i - 1 \in 0..k-1
            BY <1>1
      <2>2. Pow[width * (i - 1)] \in Nat /\ Pow[width] \in Nat
            BY <1>1, <2>1, DigitPlace
      <2>3. digits[i - 1] \in Nat
            BY <2>1, <2>2 DEF IsDigits
      <2>4. QED  BY <2>2, <2>3
<1>3. \A i \in 1..k : d[i] = digits[i - 1] * Pow[width * (i - 1)]
      OBVIOUS
<1> HIDE DEF d
<1>4. next \in [1..k -> [Nat -> Nat]]
      <2>1. ASSUME NEW i \in 1..k PROVE [v \in Nat |-> v + d[i]] \in [Nat -> Nat]
            <3>1. d[i] \in Nat
                  BY <1>2
            <3>2. QED  BY <3>1
      <2>2. QED  BY <2>1, Zenon
<1>5. PICK g \in [0..k -> Nat] : g[0] = 0 /\ \A i \in 1..k : g[i] = next[i][g[i - 1]]
      <2> DEFINE P == Nat
      <2>1. 0 \in P /\ next \in [1..k -> [P -> P]]
            BY <1>4
      <2> HIDE DEF P, next
      <2>2. \E g \in [0..k -> P] : g[0] = 0 /\ \A i \in 1..k : g[i] = next[i][g[i - 1]]
            BY <1>1, <2>1, Recursion
      <2>3. QED  BY <2>2 DEF P
<1>6. ASSUME NEW i \in 1..k PROVE g[i] = g[i - 1] + d[i]
      <2>1. i - 1 \in 0..k /\ g[i - 1] \in Nat
            BY <1>1
      <2>2. QED  BY <1>5, <2>1
<1>7. IsSum(g)
      BY <1>1, <1>3, <1>5, <1>6
<1> DEFINE h == CHOOSE f : IsSum(f)
<1>8. IsSum(h)
      BY <1>7, Zenon
<1>9. Number(width, digits, k) = h[k]
      BY DEF Number
<1> HIDE DEF h
<1>10. h[0] = 0 /\ \A i \in 1..k : h[i] = h[i - 1] + digits[i - 1] * Pow[width * (i - 1)]
      BY <1>1, <1>8
<1> DEFINE T == {i \in 0..k : h[i] \in Nat}
<1>11. 0..k \subseteq T
      <2>1. 0 \in T
            BY <1>1, <1>10
      <2>2. ASSUME NEW i \in 0..k-1, i \in T PROVE i + 1 \in T
            <3>1. i + 1 \in 1..k /\ i + 1 - 1 = i
                  BY <1>1
            <3>2. h[i + 1] = h[i] + d[i + 1]
                  BY <1>3, <1>10, <3>1
            <3>3. QED  BY <1>2, <2>2, <3>1, <3>2
      <2> HIDE DEF T
      <2>3. QED  BY <1>1, <2>1, <2>2, Steps
<1>12. h \in [0..k -> Nat]
      <2>1. \A i \in 0..k : h[i] \in Nat
            BY <1>11
      <2>2. DOMAIN h = 0..k /\ h = [i \in 0..k |-> h[i]]
            BY <1>8
      <2>3. QED  BY <2>1, <2>2
<1>13. Sums(h, width, digits, k)
      BY <1>10, <1>12 DEF Sums
<1>14. QED  BY <1>9, <1>13

\* A number is less than the next power, ...
LEMMA SumsBound ==
    ASSUME NEW width, NEW digits, NEW k, IsDigits(width, digits, k),
           NEW s, Sums(s, width, digits, k)
    PROVE  \A i \in 0..k : s[i] < Pow[width * i]
<1>1. width \in Nat \ {0} /\ k \in Nat /\ width * k <= N
      BY DEF IsDigits
<1>2. s \in [0..k -> Nat] /\ s[0] = 0
      BY DEF Sums
<1> DEFINE T == {i \in 0..k : s[i] < Pow[width * i]}
<1>3. 0 \in T
      <2>1. width * 0 = 0
            BY <1>1
      <2>2. QED  BY <1>1, <1>2, <2>1, PowDef
<1>4. ASSUME NEW i \in 0..k-1, i \in T PROVE i + 1 \in T
      <2> DEFINE p == Pow[width * i]
                 b == Pow[width]
                 x == digits[i]
      <2>1. /\ p \in Nat \ {0} /\ b \in Nat \ {0} /\ Pow[width * (i + 1)] = p * b
            BY <1>1, DigitPlace
      <2>2. x \in 0..b-1 /\ s[i] \in Nat /\ s[i] < p
            BY <1>1, <1>2, <1>4 DEF IsDigits
      <2>3. i + 1 \in 1..k /\ i + 1 - 1 = i
            BY <1>1
      <2>4. s[i + 1] = s[i] + x * p
            BY <2>3 DEF Sums
      <2> HIDE DEF p, b, x
      <2>5. x * p <= (b - 1) * p /\ (b - 1) * p = p * b - p
            BY <2>1, <2>2, TimesMonotone
      <2>6. x * p \in Nat /\ p * b \in Nat
            BY <2>1, <2>2
      <2>7. s[i + 1] < p * b
            BY <2>1, <2>2, <2>4, <2>5, <2>6
      <2>8. QED  BY <2>1, <2>3, <2>7
<1>5. 0..k \subseteq T
      <2> HIDE DEF T
      <2>1. QED  BY <1>1, <1>3, <1>4, Steps
<1>6. QED  BY <1>5

LEMMA NumberBound ==
    ASSUME NEW width, NEW digits, NEW k, IsDigits(width, digits, k)
    PROVE  Number(width, digits, k) \in 0..Pow[width * k]-1
<1>1. PICK s : Sums(s, width, digits, k) /\ Number(width, digits, k) = s[k]
      BY NumberSums
<1>2. k \in Nat /\ s \in [0..k -> Nat]
      BY <1>1 DEF IsDigits, Sums
<1>3. s[k] \in Nat /\ s[k] < Pow[width * k]
      BY <1>1, <1>2, SumsBound
<1>4. width * k \in Nat /\ width * k + 0 <= N
      BY DEF IsDigits
<1>5. Pow[width * k] \in Nat
      BY <1>4, Powers
<1>6. QED  BY <1>1, <1>3, <1>5

\* ... and its digits are those it was made of.
LEMMA NumberDigit ==
    ASSUME NEW width, NEW digits, NEW k, IsDigits(width, digits, k), NEW i \in 0..k-1
    PROVE  Digit(Number(width, digits, k), width, i) = digits[i]
<1>1. width \in Nat \ {0} /\ k \in Nat /\ width * k <= N /\ N \in Nat
      BY WordLength DEF IsDigits
<1>2. PICK s : Sums(s, width, digits, k) /\ Number(width, digits, k) = s[k]
      BY NumberSums
<1>3. s \in [0..k -> Nat] /\ \A j \in 0..k : s[j] < Pow[width * j]
      BY <1>2, SumsBound DEF Sums
<1>4. \A j \in 0..k-1 : digits[j] \in 0..Pow[width]-1
      BY DEF IsDigits
<1> DEFINE p == Pow[width * i]
           b == Pow[width]
           m == k - i - 1
           T == {j \in 0..m : \E r \in Nat : s[i + 1 + j] = s[i] + (digits[i] + r * b) * p}
<1>5. /\ p \in Nat \ {0} /\ b \in Nat \ {0} /\ width * i \in Nat
      BY <1>1, DigitPlace
<1>6. m \in Nat /\ i \in 0..k /\ s[i] \in Nat /\ s[i] < p /\ digits[i] \in 0..b-1
      BY <1>1, <1>3, <1>4
<1>7. 0 \in T
      <2>1. i + 1 \in 1..k /\ i + 1 - 1 = i /\ i + 1 + 0 = i + 1
            BY <1>1
      <2>2. s[i + 1] = s[i] + digits[i] * p
            BY <1>2, <2>1 DEF Sums
      <2>3. digits[i] + 0 * b = digits[i]
            BY <1>5, <1>6
      <2>4. s[i + 1 + 0] = s[i] + (digits[i] + 0 * b) * p
            BY <2>1, <2>2, <2>3
      <2>5. QED  BY <1>6, <2>4
<1>8. ASSUME NEW j \in 0..m-1, j \in T PROVE j + 1 \in T
      <2> DEFINE l == i + 1 + j
                 x == digits[l]
                 c == Pow[width * j]
      <2>1. PICK r \in Nat : s[l] = s[i] + (digits[i] + r * b) * p
            BY <1>8
      <2>2. l \in 0..k-1 /\ l + 1 \in 1..k /\ l + 1 - 1 = l /\ j \in 0..k-1 /\ l + 1 = i + 1 + (j + 1)
            BY <1>1, <1>6
      <2>3. s[l + 1] = s[l] + x * Pow[width * l]
            BY <1>2, <2>2 DEF Sums
      <2>4. width * l \in Nat /\ width * l <= N /\ width * j \in Nat
            <3>1. width * (l + 1) <= N /\ width * l \in Nat /\ width * (l + 1) = width * l + width
                  BY <1>1, <2>2, DigitPlace
            <3>2. QED  BY <1>1, <2>2, <3>1, DigitPlace
      <2>5. width * l = width * i + (width + width * j)
            BY <1>1, <2>2
      <2>6. /\ c \in Nat \ {0} /\ Pow[width + width * j] = b * c
            /\ Pow[width * l] = p * (b * c)
            <3>1. width + width * j \in Nat /\ width + width * j <= N
                  BY <1>1, <1>5, <2>4, <2>5
            <3>2. Pow[width + width * j] = b * c /\ c \in Nat \ {0}
                  BY <1>1, <2>4, <3>1, Powers
            <3>3. Pow[width * i + (width + width * j)] = p * Pow[width + width * j]
                  BY <1>5, <2>4, <2>5, <3>1, Powers
            <3>4. QED  BY <2>5, <3>2, <3>3
      <2>7. x \in Nat /\ x * c \in Nat /\ r + x * c \in Nat
            <3>1. x \in 0..b-1
                  BY <1>4, <2>2
            <3>2. x \in Nat
                  BY <1>5, <3>1
            <3> HIDE DEF x, c
            <3>3. QED  BY <2>6, <3>2
      <2>8. x * (p * (b * c)) = ((x * c) * b) * p
            <3> HIDE DEF x, p, b, c
            <3>1. QED  BY <1>5, <2>6, <2>7
      <2>9. s[l + 1] = s[i] + (digits[i] + (r + x * c) * b) * p
            <3> DEFINE u == x * c
                       v == digits[i]
            <3>1. u \in Nat /\ v \in Nat
                  BY <1>5, <1>6, <2>7
            <3>2. s[l + 1] = s[i] + (v + r * b) * p + (u * b) * p
                  BY <2>1, <2>3, <2>6, <2>8
            <3> HIDE DEF u, v, p, b
            <3>3. (v + (r + u) * b) * p = (v + r * b) * p + (u * b) * p
                  BY <1>5, <3>1
            <3>4. (v + r * b) * p \in Nat /\ (u * b) * p \in Nat
                  BY <1>5, <3>1
            <3>5. QED  BY <1>6, <3>2, <3>3, <3>4 DEF u, v
      <2>10. j + 1 \in 0..m
            BY <1>6
      <2>11. QED  BY <2>2, <2>7, <2>9, <2>10
<1>9. m \in T
      <2> HIDE DEF T
      <2>1. 0..m \subseteq T
            BY <1>6, <1>7, <1>8, Steps
      <2>2. QED  BY <1>6, <2>1
<1>10. PICK r \in Nat : s[k] = s[i] + (digits[i] + r * b) * p
      <2>1. i + 1 + m = k
            BY <1>1
      <2>2. QED  BY <1>9, <2>1
<1>11. QED
      <2> DEFINE q == digits[i] + r * b
                 x == digits[i]
      <2>1. q \in Nat /\ x \in Nat /\ x < b
            BY <1>5, <1>6
      <2>2. (q * p + s[i]) \div p = q
            <3> HIDE DEF q
            <3>1. QED  BY <1>5, <1>6, <2>1, DividesOnce
      <2>3. s[k] = q * p + s[i]
            <3>1. q * p \in Nat
                  BY <1>5, <2>1
            <3>2. QED  BY <1>6, <1>10, <3>1
      <2>4. (r * b + x) % b = x
            <3> HIDE DEF x
            <3>1. QED  BY <1>5, <2>1, DividesOnce
      <2>5. q = r * b + x
            BY <1>5, <1>6
      <2>6. QED  BY <1>2, <2>2, <2>3, <2>4, <2>5 DEF Digit

LEMMA DigitType ==
    ASSUME NEW x \in Nat, NEW width \in Nat \ {0}, NEW k \in Nat, width * k <= N, NEW i \in 0..k-1
    PROVE  Digit(x, width, i) \in 0..Pow[width]-1
<1>1. Pow[width * i] \in Nat \ {0} /\ Pow[width] \in Nat \ {0}
      BY DigitPlace
<1>2. x \div Pow[width * i] \in Nat
      BY <1>1, Divides
<1>3. QED  BY <1>1, <1>2, Divides DEF Digit

\* A number is made of its digits, ...
LEMMA NumberOfDigits ==
    ASSUME NEW width \in Nat \ {0}, NEW k \in Nat, width * k <= N, NEW x \in 0..Pow[width * k]-1
    PROVE  x = Number(width, [i \in 0..k-1 |-> Digit(x, width, i)], k)
<1> DEFINE digits == [i \in 0..k-1 |-> Digit(x, width, i)]
<1>1. width * k \in Nat /\ Pow[width * k] \in Nat /\ N \in Nat
      <2>1. width * k \in Nat /\ width * k + 0 <= N
            BY WordLength
      <2>2. QED  BY <2>1, Powers, WordLength
<1>2. x \in Nat
      BY <1>1
<1>3. \A i \in 0..k-1 : digits[i] = Digit(x, width, i) /\ digits[i] \in 0..Pow[width]-1
      BY <1>2, DigitType
<1> HIDE DEF digits
<1>4. IsDigits(width, digits, k)
      BY <1>3 DEF IsDigits
<1>5. PICK s : Sums(s, width, digits, k) /\ Number(width, digits, k) = s[k]
      BY <1>4, NumberSums
<1> DEFINE T == {i \in 0..k : s[i] = x % Pow[width * i]}
<1>6. 0 \in T
      <2>1. width * 0 = 0 /\ Pow[0] = 1
            BY PowDef
      <2>2. x % 1 = 0
            BY <1>2
      <2>3. QED  BY <1>5, <2>1, <2>2 DEF Sums
<1>7. ASSUME NEW i \in 0..k-1, i \in T PROVE i + 1 \in T
      <2> DEFINE p == Pow[width * i]
                 b == Pow[width]
      <2>1. p \in Nat \ {0} /\ b \in Nat \ {0} /\ Pow[width * (i + 1)] = p * b
            BY DigitPlace
      <2>2. i + 1 \in 1..k /\ i + 1 - 1 = i
            OBVIOUS
      <2>3. s[i + 1] = s[i] + digits[i] * p
            BY <1>5, <2>2 DEF Sums
      <2>4. digits[i] = (x \div p) % b /\ s[i] = x % p
            BY <1>3, <1>7 DEF Digit
      <2> HIDE DEF p, b
      <2>5. x % (p * b) = ((x \div p) % b) * p + (x % p)
            BY <1>2, <2>1, DividesTwice
      <2>6. ((x \div p) % b) * p \in Nat /\ x % p \in Nat
            <3>1. x \div p \in Nat /\ x % p \in 0..p-1
                  BY <1>2, <2>1, Divides
            <3> DEFINE v == x \div p
            <3>2. v % b \in 0..b-1
                  <4> HIDE DEF v
                  <4>1. v \in Nat => v % b \in 0..b-1
                        BY <2>1, Divides
                  <4>2. QED  BY <3>1, <4>1 DEF v
            <3>3. v % b \in Nat /\ x % p \in Nat
                  BY <2>1, <3>1, <3>2
            <3> DEFINE m == v % b
            <3>4. m * p \in Nat
                  <4> HIDE DEF m
                  <4>1. m \in Nat => m * p \in Nat
                        BY <2>1
                  <4>2. QED  BY <3>3, <4>1 DEF m
            <3>5. QED  BY <3>3, <3>4
      <2>7. s[i + 1] = x % (p * b)
            BY <2>3, <2>4, <2>5, <2>6
      <2>8. QED  BY <2>1, <2>2, <2>7 DEF p
<1>8. k \in T
      <2> HIDE DEF T
      <2>1. QED  BY <1>6, <1>7, Steps
<1>9. x % Pow[width * k] = x
      <2> DEFINE c == Pow[width * k]
      <2>1. 0 * c + x = x /\ c \in Nat /\ x < c
            BY <1>1, <1>2
      <2> HIDE DEF c
      <2>2. (0 * c + x) % c = x
            BY <1>2, <2>1, DividesOnce
      <2>3. QED  BY <2>1, <2>2 DEF c
<1>10. QED  BY <1>5, <1>8, <1>9 DEF digits

\* ... so that two numbers with the same digits are the same.
LEMMA SameDigits ==
    ASSUME NEW width \in Nat \ {0}, NEW k \in Nat, width * k <= N,
           NEW x \in 0..Pow[width * k]-1, NEW y \in 0..Pow[width * k]-1,
           \A i \in 0..k-1 : Digit(x, width, i) = Digit(y, width, i)
    PROVE  x = y
<1>1. [i \in 0..k-1 |-> Digit(x, width, i)] = [i \in 0..k-1 |-> Digit(y, width, i)]
      OBVIOUS
<1>2. QED  BY <1>1, NumberOfDigits

-----------------------------------------------------------------------------
(***************************************************************************)
(* The bits of words.                                                      *)
(***************************************************************************)
LEMMA WordBits ==
    /\ 1 \in Nat \ {0} /\ N \in Nat \ {0} /\ 1 * N = N
    /\ Pow[1] = 2 /\ Pow[N] \in Nat \ {0} /\ Pow[BITS] \in Nat \ {0}
    /\ Words \subseteq Nat /\ Bytes \subseteq Nat /\ 0 \in Words /\ 0 \in Bytes
    /\ Bytes \subseteq Words
<1>1. N \in Nat \ {0} /\ BITS \in 1..N
      BY WordLength
<1>2. 1 \in 1..N /\ N \in 0..N /\ BITS \in 0..N /\ 1 - 1 = 0 /\ 1 * N = N
      BY <1>1
<1>3. Pow[1] = 2 * Pow[0] /\ Pow[0] = 1
      BY <1>2, PowDef
<1>4. Pow[N] \in Nat \ {0} /\ Pow[BITS] \in Nat \ {0}
      BY <1>2, PowDef
<1>5. Pow[BITS] <= Pow[N]
      <2>1. BITS \in Nat /\ N - BITS \in Nat /\ BITS + (N - BITS) = N /\ N <= N
            BY <1>1
      <2>2. Pow[BITS] <= Pow[BITS + (N - BITS)]
            BY <2>1, Powers
      <2>3. QED  BY <2>1, <2>2
<1>6. QED  BY <1>1, <1>2, <1>3, <1>4, <1>5 DEF Words, Bytes

LEMMA OfBitsSays ==
    ASSUME NEW S
    PROVE  OfBits(S) \in Words /\ Bits(OfBits(S)) = S \cap (0..N-1)
<1> DEFINE digits == [q \in 0..N-1 |-> IF q \in S THEN 1 ELSE 0]
<1>1. IsDigits(1, digits, N)
      <2>1. \A i \in 0..N-1 : digits[i] \in 0..Pow[1]-1
            BY WordBits
      <2> HIDE DEF digits
      <2>2. QED  BY <2>1, WordBits DEF IsDigits
<1>2. OfBits(S) = Number(1, digits, N)
      BY DEF OfBits
<1>3. \A q \in 0..N-1 : (digits[q] = 1) <=> q \in S
      OBVIOUS
<1> HIDE DEF digits
<1>4. OfBits(S) \in Words
      BY <1>1, <1>2, NumberBound, WordBits DEF Words
<1>5. \A q \in 0..N-1 : Digit(OfBits(S), 1, q) = digits[q]
      BY <1>1, <1>2, NumberDigit
<1>6. QED  BY <1>3, <1>4, <1>5 DEF Bits

LEMMA SameBits ==
    ASSUME NEW x \in Words, NEW y \in Words, Bits(x) = Bits(y)
    PROVE  x = y
<1>1. x \in Nat /\ y \in Nat
      BY WordBits
<1>2. ASSUME NEW q \in 0..N-1 PROVE Digit(x, 1, q) = Digit(y, 1, q)
      <2>1. Digit(x, 1, q) \in 0..1 /\ Digit(y, 1, q) \in 0..1
            BY <1>1, WordBits, DigitType
      <2>2. Digit(x, 1, q) = 1 <=> Digit(y, 1, q) = 1
            BY DEF Bits
      <2>3. QED  BY <2>1, <2>2
<1>3. /\ 1 \in Nat \ {0} /\ N \in Nat /\ 1 * N <= N
      /\ x \in 0..Pow[1 * N]-1 /\ y \in 0..Pow[1 * N]-1
      BY WordBits DEF Words
<1>4. QED  BY <1>2, <1>3, SameDigits

LEMMA ZeroBits == Bits(0) = {}
<1>1. ASSUME NEW q \in 0..N-1 PROVE Digit(0, 1, q) = 0
      <2>1. 1 * q = q /\ Pow[q] \in Nat \ {0}
            BY PowDef, WordBits
      <2>2. 0 = 0 * Pow[q] + 0
            BY <2>1
      <2>3. 0 \div Pow[q] = 0
            <3> DEFINE p == Pow[q]
            <3>1. p \in Nat /\ 0 < p /\ 0 = 0 * p + 0
                  BY <2>1
            <3> HIDE DEF p
            <3>2. (0 * p + 0) \div p = 0
                  BY <3>1, DividesOnce
            <3>3. QED  BY <3>1, <3>2 DEF p
      <2>4. QED  BY <2>1, <2>3, WordBits DEF Digit
<1>2. QED  BY <1>1 DEF Bits

LEMMA IsZero ==
    ASSUME NEW x \in Words
    PROVE  x = 0 <=> Bits(x) = {}
BY ZeroBits, SameBits, WordBits

\* What the operators leave of the bits.
LEMMA BitOps ==
    ASSUME NEW x, NEW y
    PROVE  /\ And(x, y) \in Words /\ Bits(And(x, y)) = Bits(x) \cap Bits(y)
           /\ Or(x, y) \in Words /\ Bits(Or(x, y)) = Bits(x) \cup Bits(y)
           /\ Xor(x, y) \in Words
           /\ Bits(Xor(x, y)) = (Bits(x) \ Bits(y)) \cup (Bits(y) \ Bits(x))
           /\ Flip(x) \in Words /\ Bits(Flip(x)) = (0..N-1) \ Bits(x)
           /\ ShiftLeft(x, y) \in Words
           /\ Bits(ShiftLeft(x, y)) = {q \in 0..N-1 : q - y \in Bits(x)}
           /\ ShiftRight(x, y) \in Words
           /\ Bits(ShiftRight(x, y)) = {q \in 0..N-1 : q + y \in Bits(x)}
<1>1. Bits(x) \subseteq 0..N-1 /\ Bits(y) \subseteq 0..N-1
      BY DEF Bits
<1>2. QED  BY <1>1, OfBitsSays DEF And, Or, Xor, Flip, ShiftLeft, ShiftRight

-----------------------------------------------------------------------------
(***************************************************************************)
(* The bits of bytes: bit j of byte i is bit BITS * i + j of the word.     *)
(***************************************************************************)
Place(i, j) == BITS * i + j

LEMMA Places ==
    /\ BITS \in Nat \ {0} /\ WORD \in Nat \ {0} /\ BITS * WORD = N /\ BITS <= N
    /\ \A i \in 0..WORD-1, j \in 0..BITS-1 :
          /\ Place(i, j) \in 0..N-1
          /\ Place(i, j) \div BITS = i /\ Place(i, j) % BITS = j
    /\ \A q \in 0..N-1 : \E i \in 0..WORD-1, j \in 0..BITS-1 : q = Place(i, j)
<1>1. BITS \in Nat \ {0} /\ WORD \in Nat \ {0} /\ BITS * WORD = N /\ N \in Nat /\ BITS <= N
      BY WidthAssumption, WordLength DEF N
<1>2. ASSUME NEW i \in 0..WORD-1, NEW j \in 0..BITS-1
      PROVE  /\ Place(i, j) \in 0..N-1
             /\ Place(i, j) \div BITS = i /\ Place(i, j) % BITS = j
      <2>1. i \in Nat /\ j \in Nat /\ i + 1 <= WORD /\ j + 1 <= BITS
            BY <1>1
      <2>2. (i + 1) * BITS <= WORD * BITS
            BY <1>1, <2>1, TimesMonotone
      <2>3. (i + 1) * BITS = i * BITS + BITS /\ WORD * BITS = N /\ i * BITS = BITS * i /\ i * BITS \in Nat
            BY <1>1, <2>1
      <2>4. Place(i, j) = i * BITS + j
            BY <2>3 DEF Place
      <2>5. (i * BITS + j) \div BITS = i /\ (i * BITS + j) % BITS = j
            BY <1>1, <2>1, DividesOnce
      <2>6. i * BITS + j \in 0..N-1
            BY <1>1, <2>1, <2>2, <2>3
      <2>7. QED  BY <2>4, <2>5, <2>6
<1>3. ASSUME NEW q \in 0..N-1
      PROVE  \E i \in 0..WORD-1, j \in 0..BITS-1 : q = Place(i, j)
      <2> DEFINE i == q \div BITS
                 j == q % BITS
      <2>1. i \in Nat /\ j \in 0..BITS-1 /\ q = i * BITS + j
            <3>1. q \in Nat /\ BITS \in Nat \ {0}
                  BY <1>1
            <3>2. QED  BY <3>1, Divides
      <2> HIDE DEF i, j
      <2>2. i * BITS = BITS * i /\ i * BITS <= q /\ q < WORD * BITS
            BY <1>1, <2>1
      <2>3. ~ (WORD <= i)
            <3>1. WORD <= i => WORD * BITS <= i * BITS
                  BY <1>1, <2>1, TimesMonotone
            <3>2. i * BITS \in Nat /\ WORD * BITS \in Nat
                  BY <1>1, <2>1
            <3>3. QED  BY <1>1, <2>2, <3>1, <3>2
      <2>4. i \in 0..WORD-1
            BY <1>1, <2>1, <2>3
      <2>5. QED  BY <2>1, <2>2, <2>4 DEF Place
<1>4. QED  BY <1>1, <1>2, <1>3

\* No bit of a number is set beyond its highest power.
LEMMA HighBitsOff ==
    ASSUME NEW m \in 0..N, NEW y \in 0..Pow[m]-1, NEW q \in m..N-1
    PROVE  Digit(y, 1, q) = 0
<1>1. m \in Nat /\ q \in Nat /\ q - m \in Nat /\ m + (q - m) = q /\ q <= N /\ 1 * q = q
      BY WordBits
<1>2. Pow[m] <= Pow[q] /\ Pow[m] \in Nat \ {0}
      BY <1>1, Powers
<1>3. Pow[q] \in Nat \ {0}
      BY <1>1, PowDef
<1>4. y \div Pow[q] = 0
      <2> DEFINE p == Pow[q]
      <2>1. p \in Nat /\ y \in Nat /\ y < p /\ 0 * p + y = y
            BY <1>2, <1>3
      <2> HIDE DEF p
      <2>2. (0 * p + y) \div p = 0
            BY <2>1, DividesOnce
      <2>3. QED  BY <2>1, <2>2 DEF p
<1>5. QED  BY <1>1, <1>4, WordBits DEF Digit

LEMMA ByteType ==
    ASSUME NEW x \in Nat, NEW i \in 0..WORD-1
    PROVE  ByteOf(x, i) \in Bytes
<1>1. BITS \in Nat \ {0} /\ WORD \in Nat /\ BITS * WORD <= N
      BY Places, WordBits
<1>2. QED  BY <1>1, DigitType DEF ByteOf, Bytes

LEMMA ByteBit ==
    ASSUME NEW x \in Nat, NEW i \in 0..WORD-1, NEW j \in 0..BITS-1
    PROVE  Digit(ByteOf(x, i), 1, j) = Digit(x, 1, Place(i, j))
<1> DEFINE p == Pow[BITS * i]
           b == Pow[BITS]
           c == Pow[j]
           d == Pow[BITS - j]
           e == Pow[BITS - j - 1]
           y == x \div p
           z == y \div c
<1>1. BITS \in Nat \ {0} /\ N \in Nat /\ BITS <= N /\ BITS * WORD <= N /\ WORD \in Nat
      BY Places, WordBits
<1>2. BITS * i \in Nat /\ p \in Nat \ {0} /\ b \in Nat \ {0}
      BY <1>1, DigitPlace
<1>3. Place(i, j) \in Nat /\ Place(i, j) <= N /\ Place(i, j) = BITS * i + j
      BY <1>1, Places DEF Place
<1>4. Pow[Place(i, j)] = p * c /\ c \in Nat \ {0}
      BY <1>1, <1>2, <1>3, Powers
<1>5. b = c * d /\ d \in Nat \ {0}
      <2>1. j \in Nat /\ BITS - j \in Nat /\ j + (BITS - j) = BITS
            BY <1>1
      <2>2. QED  BY <1>1, <2>1, Powers
<1>6. d = 2 * e /\ e \in Nat \ {0}
      <2>1. BITS - j \in 1..N /\ BITS - j - 1 \in 0..N
            BY <1>1
      <2>2. QED  BY <2>1, PowDef
<1>7. 1 * j = j /\ 1 * Place(i, j) = Place(i, j) /\ Pow[1] = 2
      BY <1>1, <1>3, WordBits
<1>8. ByteOf(x, i) = y % b
      BY DEF ByteOf, Digit
<1>9. Digit(ByteOf(x, i), 1, j) = ((y % b) \div c) % 2
      BY <1>7, <1>8 DEF Digit
<1>10. Digit(x, 1, Place(i, j)) = (x \div (p * c)) % 2
      BY <1>4, <1>7 DEF Digit
<1>11. x \div (p * c) = z
      <2>1. p \in Nat \ {0} /\ c \in Nat \ {0}
            BY <1>2, <1>4
      <2>2. ASSUME NEW m \in Nat \ {0}, NEW n \in Nat \ {0}
            PROVE  x \div (m * n) = (x \div m) \div n
            <3>1. /\ m * n \in Nat \ {0}
                  /\ x \div (m * n) = (x \div m) \div n
                  /\ x % (m * n) = ((x \div m) % n) * m + (x % m)
                  BY DividesTwice, Zenon
            <3>2. QED  BY <3>1
      <2>3. QED  BY <2>1, <2>2, Zenon
<1>12. y \in Nat
      <2> HIDE DEF p
      <2>1. QED  BY <1>2, Divides
<1> HIDE DEF p, b, c, d, e, y
<1>13. z \in Nat
      BY <1>4, <1>12, Divides
<1>14. y % b = (z % d) * c + (y % c)
      BY <1>4, <1>5, <1>12, DividesTwice
<1> HIDE DEF z
<1>15. (y % b) \div c = z % d
      <2> DEFINE u == z % d
                 v == y % c
      <2>1. u \in 0..d-1 /\ v \in 0..c-1
            BY <1>4, <1>5, <1>12, <1>13, Divides
      <2> HIDE DEF u, v
      <2>2. u \in Nat /\ v \in Nat /\ v < c /\ c \in Nat
            BY <1>4, <1>5, <2>1
      <2>3. (u * c + v) \div c = u
            BY <2>2, DividesOnce
      <2>4. QED  BY <1>14, <2>3 DEF u, v
<1>16. z % d = ((z \div 2) % e) * 2 + (z % 2)
      <2>1. e \in Nat \ {0} /\ 2 \in Nat \ {0}
            BY <1>6
      <2>2. z % (2 * e) = ((z \div 2) % e) * 2 + (z % 2)
            BY <1>13, <2>1, DividesTwice
      <2>3. QED  BY <1>6, <2>2
<1>17. (z % d) % 2 = z % 2
      <2> DEFINE w == z \div 2
                 u == w % e
                 v == z % 2
      <2>1. v \in 0..1 /\ w \in Nat
            BY <1>13, Divides
      <2> HIDE DEF w
      <2>2. u \in 0..e-1
            BY <1>6, <2>1, Divides
      <2> HIDE DEF u, v
      <2>3. (u * 2 + v) % 2 = v
            BY <1>6, <2>1, <2>2, DividesOnce
      <2>4. QED  BY <1>16, <2>3 DEF u, v, w
<1>18. QED  BY <1>9, <1>10, <1>11, <1>15, <1>17

LEMMA ByteBits ==
    ASSUME NEW x \in Nat, NEW i \in 0..WORD-1
    PROVE  Bits(ByteOf(x, i)) = {j \in 0..BITS-1 : Place(i, j) \in Bits(x)}
<1>1. BITS \in 0..N /\ N \in Nat
      BY Places, WordBits
<1>2. ASSUME NEW j \in BITS..N-1 PROVE Digit(ByteOf(x, i), 1, j) # 1
      BY <1>1, ByteType, HighBitsOff DEF Bytes
<1>3. ASSUME NEW j \in 0..BITS-1 PROVE Place(i, j) \in 0..N-1
      BY Places
<1>4. ASSUME NEW j \in 0..N-1
      PROVE  j \in Bits(ByteOf(x, i)) <=> j \in 0..BITS-1 /\ Place(i, j) \in Bits(x)
      <2>1. CASE j \in 0..BITS-1
            BY <1>3, <2>1, ByteBit DEF Bits
      <2>2. CASE j \notin 0..BITS-1
            BY <1>1, <1>2, <2>2 DEF Bits
      <2>3. QED  BY <2>1, <2>2
<1>5. QED  BY <1>1, <1>4 DEF Bits

\* Two bytes are the same when their bits are.
LEMMA SameByte ==
    ASSUME NEW x \in Nat, NEW y \in Bytes, NEW i \in 0..WORD-1,
           \A j \in 0..BITS-1 : Place(i, j) \in Bits(x) <=> j \in Bits(y)
    PROVE  ByteOf(x, i) = y
<1>1. Bits(y) \subseteq 0..BITS-1
      <2>1. BITS \in 0..N /\ N \in Nat
            BY Places, WordBits
      <2>2. ASSUME NEW j \in BITS..N-1 PROVE Digit(y, 1, j) # 1
            BY <2>1, HighBitsOff DEF Bytes
      <2>3. QED  BY <2>1, <2>2 DEF Bits
<1>2. Bits(ByteOf(x, i)) = Bits(y)
      BY <1>1, ByteBits
<1>3. QED  BY <1>2, ByteType, SameBits, WordBits

\* The lowest m bits.
LEMMA OnesBits ==
    ASSUME NEW m \in 0..N
    PROVE  Pow[m] - 1 \in Nat /\ Bits(Pow[m] - 1) = 0..m-1
<1>1. N \in Nat /\ Pow[m] \in Nat \ {0}
      BY WordBits, PowDef
<1>2. ASSUME NEW q \in m..N-1 PROVE Digit(Pow[m] - 1, 1, q) # 1
      BY <1>1, HighBitsOff
<1>3. ASSUME NEW q \in 0..m-1 PROVE Digit(Pow[m] - 1, 1, q) = 1
      <2> DEFINE p == Pow[q]
                 c == Pow[m - q]
                 d == Pow[m - q - 1]
      <2>1. Pow[m] = p * c /\ p \in Nat \ {0} /\ c \in Nat \ {0}
            <3>1. q \in Nat /\ m - q \in Nat /\ q + (m - q) = m
                  BY <1>1
            <3>2. QED  BY <1>1, <3>1, Powers
      <2>2. c = 2 * d /\ d \in Nat \ {0}
            <3>1. m - q \in 1..N /\ m - q - 1 \in 0..N
                  BY <1>1
            <3>2. QED  BY <3>1, PowDef
      <2>3. 1 * q = q /\ Pow[1] = 2
            BY WordBits
      <2>4. Digit(Pow[m] - 1, 1, q) = ((p * c - 1) \div p) % 2
            BY <2>1, <2>3 DEF Digit
      <2> HIDE DEF p, c, d
      <2>5. p * c - 1 = (c - 1) * p + (p - 1) /\ c - 1 = (d - 1) * 2 + 1
            BY <2>1, <2>2
      <2>6. (p * c - 1) \div p = c - 1
            <3>1. c - 1 \in Nat /\ p - 1 \in Nat /\ p - 1 < p
                  BY <2>1
            <3>2. ((c - 1) * p + (p - 1)) \div p = c - 1
                  BY <2>1, <3>1, DividesOnce
            <3>3. QED  BY <2>5, <3>2
      <2>7. (c - 1) % 2 = 1
            <3>1. d - 1 \in Nat
                  BY <2>2
            <3>2. ((d - 1) * 2 + 1) % 2 = 1
                  BY <3>1, DividesOnce
            <3>3. QED  BY <2>5, <3>2
      <2>8. QED  BY <2>4, <2>6, <2>7
<1>4. QED  BY <1>1, <1>2, <1>3 DEF Bits

-----------------------------------------------------------------------------
(***************************************************************************)
(* Zero bytes of a word: no byte's carry reaches its neighbour.            *)
(***************************************************************************)
\* Numbers whose digits do not overflow are added digit by digit.
LEMMA NumberAdds ==
    ASSUME NEW width, NEW k, NEW d, NEW e, NEW f,
           IsDigits(width, d, k), IsDigits(width, e, k), IsDigits(width, f, k),
           \A i \in 0..k-1 : f[i] = d[i] + e[i]
    PROVE  Number(width, f, k) = Number(width, d, k) + Number(width, e, k)
<1>1. width \in Nat \ {0} /\ k \in Nat /\ width * k <= N
      BY DEF IsDigits
<1>2. PICK s : Sums(s, width, d, k) /\ Number(width, d, k) = s[k]
      BY NumberSums
<1>3. PICK t : Sums(t, width, e, k) /\ Number(width, e, k) = t[k]
      BY NumberSums
<1>4. PICK u : Sums(u, width, f, k) /\ Number(width, f, k) = u[k]
      BY NumberSums
<1> DEFINE T == {i \in 0..k : u[i] = s[i] + t[i]}
<1>5. 0 \in T
      BY <1>1, <1>2, <1>3, <1>4 DEF Sums
<1>6. ASSUME NEW i \in 0..k-1, i \in T PROVE i + 1 \in T
      <2> DEFINE p == Pow[width * i]
                 a == d[i]
                 b == e[i]
      <2>1. i + 1 \in 1..k /\ i + 1 - 1 = i /\ i \in 0..k
            BY <1>1
      <2>2. /\ s[i + 1] = s[i] + a * p /\ t[i + 1] = t[i] + b * p
            /\ u[i + 1] = u[i] + (a + b) * p /\ s[i] \in Nat /\ t[i] \in Nat
            BY <1>2, <1>3, <1>4, <2>1 DEF Sums
      <2>3. p \in Nat /\ a \in Nat /\ b \in Nat
            <3>1. p \in Nat /\ Pow[width] \in Nat
                  BY <1>1, DigitPlace
            <3>2. QED  BY <3>1 DEF IsDigits
      <2>4. u[i] = s[i] + t[i]
            BY <1>6
      <2> HIDE DEF p, a, b
      <2>5. a * p \in Nat /\ b * p \in Nat /\ (a + b) * p = a * p + b * p
            BY <2>3
      <2>6. u[i + 1] = s[i + 1] + t[i + 1]
            BY <2>2, <2>4, <2>5
      <2>7. QED  BY <2>1, <2>6
<1>7. k \in T
      <2> HIDE DEF T
      <2>1. QED  BY <1>1, <1>5, <1>6, Steps
<1>8. QED  BY <1>2, <1>3, <1>4, <1>7

Half == Pow[BITS - 1]

LEMMA HalfByte == Half \in Nat \ {0} /\ Pow[BITS] = Half * 2 /\ Half < Pow[BITS]
<1>1. BITS \in 1..N /\ BITS - 1 \in 0..N
      BY Places, WordBits
<1>2. QED  BY <1>1, PowDef DEF Half

LEMMA CountBytes ==
    /\ COUNT \in Words
    /\ \A i \in 0..WORD-1 : ByteOf(COUNT, i) = Half - 1
    /\ \A i \in 0..WORD-1, j \in 0..BITS-1 : Place(i, j) \in Bits(COUNT) <=> j # BITS - 1
<1> DEFINE d == [i \in 0..WORD-1 |-> Half - 1]
<1>1. COUNT = Number(BITS, d, WORD) /\ \A i \in 0..WORD-1 : d[i] = Half - 1
      BY DEF COUNT, Half
<1> HIDE DEF d
<1>2. IsDigits(BITS, d, WORD)
      BY <1>1, Places, HalfByte, WordBits DEF IsDigits
<1>3. COUNT \in Words
      BY <1>1, <1>2, NumberBound, Places DEF Words
<1>4. ASSUME NEW i \in 0..WORD-1 PROVE ByteOf(COUNT, i) = Half - 1
      BY <1>1, <1>2, NumberDigit DEF ByteOf
<1>5. ASSUME NEW i \in 0..WORD-1, NEW j \in 0..BITS-1
      PROVE  Place(i, j) \in Bits(COUNT) <=> j # BITS - 1
      <2>1. BITS - 1 \in 0..N /\ COUNT \in Nat
            BY <1>3, Places, WordBits
      <2>2. Bits(ByteOf(COUNT, i)) = 0..BITS-1-1
            BY <1>4, <2>1, OnesBits DEF Half
      <2>3. QED  BY <2>1, <2>2, ByteBits
<1>6. QED  BY <1>3, <1>4, <1>5

\* A byte without its highest bit.
LEMMA LowByte ==
    ASSUME NEW y \in Bytes, BITS - 1 \notin Bits(y)
    PROVE  y < Half
<1>1. BITS - 1 \in 0..N-1 /\ 1 * (BITS - 1) = BITS - 1 /\ Pow[1] = 2 /\ y \in Nat
      BY Places, WordBits
<1>2. Half \in Nat \ {0} /\ y < Half * 2
      BY <1>1, HalfByte, WordBits DEF Bytes
<1> DEFINE q == y \div Half
           r == y % Half
<1>3. q \in Nat /\ r \in 0..Half-1 /\ y = q * Half + r
      BY <1>1, <1>2, Divides
<1>4. q % 2 # 1
      BY <1>1 DEF Bits, Digit, Half
<1> HIDE DEF q, r
<1>5. ~ (2 <= q)
      <2>1. 2 <= q => 2 * Half <= q * Half
            BY <1>2, <1>3, TimesMonotone
      <2>2. q * Half \in Nat
            BY <1>2, <1>3
      <2>3. QED  BY <1>2, <1>3, <2>1, <2>2
<1>6. q # 1
      BY <1>4
<1>7. q = 0
      BY <1>3, <1>5, <1>6
<1>8. QED  BY <1>2, <1>3, <1>7

\* Adding the lower bits to a byte sets its highest one unless it is zero.
LEMMA HighBit ==
    ASSUME NEW y \in Nat, y < Half
    PROVE  /\ y + (Half - 1) \in Bytes
           /\ BITS - 1 \in Bits(y + (Half - 1)) <=> y # 0
<1>1. BITS - 1 \in 0..N-1 /\ 1 * (BITS - 1) = BITS - 1 /\ Pow[1] = 2
      BY Places, WordBits
<1>2. Half \in Nat \ {0} /\ Pow[BITS] = Half * 2
      BY HalfByte
<1> DEFINE z == y + (Half - 1)
           q == z \div Half
<1>3. z \in Bytes
      BY <1>2 DEF Bytes
<1>4. BITS - 1 \in Bits(z) <=> q % 2 = 1
      BY <1>1 DEF Bits, Digit, Half
<1>5. CASE y = 0
      <2>1. z = 0 * Half + (Half - 1) /\ Half - 1 \in Nat /\ Half - 1 < Half
            BY <1>2, <1>5
      <2>2. (0 * Half + (Half - 1)) \div Half = 0
            BY <1>2, <2>1, DividesOnce
      <2>3. q = 0
            BY <2>1, <2>2
      <2> HIDE DEF q
      <2>4. QED  BY <1>3, <1>4, <1>5, <2>3
<1>6. CASE y # 0
      <2>1. z = 1 * Half + (y - 1) /\ y - 1 \in Nat /\ y - 1 < Half
            BY <1>2, <1>6
      <2>2. (1 * Half + (y - 1)) \div Half = 1
            BY <1>2, <2>1, DividesOnce
      <2>3. q = 1
            BY <2>1, <2>2
      <2> HIDE DEF q
      <2>4. QED  BY <1>3, <1>4, <1>6, <2>3
<1>7. QED  BY <1>5, <1>6

LEMMA ZeroBytesSays ==
    ASSUME NEW x \in Words
    PROVE  /\ ZeroBytes(x) \in Words
           /\ \A i \in 0..WORD-1, j \in 0..BITS-1 :
                 Place(i, j) \in Bits(ZeroBytes(x)) <=> j = BITS - 1 /\ ByteOf(x, i) = 0
<1> DEFINE u == And(x, COUNT)
           s == Plus(u, COUNT)
           d == [i \in 0..WORD-1 |-> ByteOf(u, i)]
           e == [i \in 0..WORD-1 |-> ByteOf(COUNT, i)]
           f == [i \in 0..WORD-1 |-> ByteOf(u, i) + ByteOf(COUNT, i)]
<1>1. /\ BITS \in Nat \ {0} /\ WORD \in Nat \ {0} /\ BITS * WORD = N /\ BITS * WORD <= N
      /\ Words = 0..Pow[BITS * WORD]-1 /\ Words \subseteq Nat
      <2>1. BITS * WORD = N /\ BITS \in Nat \ {0} /\ WORD \in Nat \ {0} /\ N \in Nat
            BY Places, WordBits
      <2>2. Words = 0..Pow[N]-1
            BY DEF Words
      <2>3. Words = 0..Pow[BITS * WORD]-1
            BY <2>1, <2>2, Zenon
      <2>4. BITS * WORD <= N
            BY <2>1
      <2>5. QED  BY <2>1, <2>3, <2>4, WordBits
<1>2. u \in Words /\ Bits(u) = Bits(x) \cap Bits(COUNT) /\ COUNT \in Words
      BY BitOps, CountBytes
<1>3. ASSUME NEW i \in 0..WORD-1
      PROVE  /\ d[i] \in Bytes /\ d[i] < Half /\ e[i] = Half - 1 /\ e[i] \in Bytes
             /\ f[i] = d[i] + (Half - 1) /\ f[i] \in Bytes
             /\ f[i] = d[i] + e[i]
             /\ BITS - 1 \in Bits(f[i]) <=> d[i] # 0
      <2>1. d[i] = ByteOf(u, i) /\ e[i] = ByteOf(COUNT, i) /\ f[i] = ByteOf(u, i) + ByteOf(COUNT, i)
            OBVIOUS
      <2>2. ByteOf(u, i) \in Bytes /\ ByteOf(COUNT, i) \in Bytes /\ ByteOf(COUNT, i) = Half - 1
            BY <1>1, <1>2, ByteType, CountBytes
      <2>3. BITS - 1 \in 0..BITS-1
            BY <1>1
      <2>4. BITS - 1 \notin Bits(ByteOf(u, i))
            BY <1>1, <1>2, <2>3, ByteBits, CountBytes
      <2> HIDE DEF u, d, e, f
      <2>5. ByteOf(u, i) < Half
            BY <2>2, <2>4, LowByte
      <2>6. /\ ByteOf(u, i) + (Half - 1) \in Bytes
            /\ BITS - 1 \in Bits(ByteOf(u, i) + (Half - 1)) <=> ByteOf(u, i) # 0
            BY <2>2, <2>5, HighBit, WordBits
      <2>7. QED  BY <2>1, <2>2, <2>5, <2>6
<1>4. IsDigits(BITS, d, WORD) /\ IsDigits(BITS, e, WORD) /\ IsDigits(BITS, f, WORD)
      <2> HIDE DEF u, d, e, f
      <2>1. QED  BY <1>1, <1>3 DEF IsDigits, Bytes
<1>5. u = Number(BITS, d, WORD) /\ COUNT = Number(BITS, e, WORD)
      <2> HIDE DEF u
      <2>1. QED  BY <1>1, <1>2, NumberOfDigits DEF ByteOf
<1>6. Number(BITS, f, WORD) = u + COUNT
      <2> HIDE DEF u, d, e, f
      <2>1. QED  BY <1>3, <1>4, <1>5, NumberAdds
<1>7. s = Number(BITS, f, WORD) /\ s \in Words
      <2> DEFINE n == Number(BITS, f, WORD)
                 p == Pow[N]
      <2>1. n \in 0..p-1 /\ p \in Nat
            <3> HIDE DEF f
            <3>1. QED  BY <1>1, <1>4, NumberBound, WordBits
      <2>2. s = n % p
            BY <1>6 DEF Plus
      <2> HIDE DEF n, p, s
      <2>3. (0 * p + n) % p = n /\ 0 * p + n = n
            <3>1. n \in Nat /\ n < p
                  BY <2>1
            <3>2. (0 * p + n) % p = n
                  BY <2>1, <3>1, DividesOnce
            <3>3. QED  BY <2>1, <3>2
      <2>4. s = n
            BY <2>2, <2>3
      <2>5. QED  BY <2>1, <2>4 DEF n, p, Words
<1>8. ASSUME NEW i \in 0..WORD-1
      PROVE  Place(i, BITS - 1) \in Bits(s) <=> d[i] # 0
      <2> HIDE DEF u, s, d, e, f
      <2>1. ByteOf(s, i) = f[i]
            BY <1>4, <1>7, NumberDigit DEF ByteOf
      <2>2. BITS - 1 \in 0..BITS-1 /\ s \in Nat
            BY <1>1, <1>7
      <2>3. BITS - 1 \in Bits(ByteOf(s, i)) <=> Place(i, BITS - 1) \in Bits(s)
            BY <2>2, ByteBits
      <2>4. QED  BY <1>3, <2>1, <2>3
<1>9. ASSUME NEW i \in 0..WORD-1
      PROVE  ByteOf(x, i) = 0 <=> d[i] = 0 /\ Place(i, BITS - 1) \notin Bits(x)
      <2>1. /\ Bits(ByteOf(x, i)) = {j \in 0..BITS-1 : Place(i, j) \in Bits(x)}
            /\ Bits(ByteOf(u, i)) = {j \in 0..BITS-1 : Place(i, j) \in Bits(u)}
            BY <1>1, <1>2, ByteBits
      <2>2. ByteOf(x, i) \in Words /\ ByteOf(u, i) \in Words /\ d[i] = ByteOf(u, i)
            BY <1>1, <1>2, ByteType, WordBits
      <2> HIDE DEF u, d
      <2>3. /\ ByteOf(x, i) = 0 <=> \A j \in 0..BITS-1 : Place(i, j) \notin Bits(x)
            /\ ByteOf(u, i) = 0 <=> \A j \in 0..BITS-1 : Place(i, j) \notin Bits(u)
            BY <2>1, <2>2, IsZero
      <2>4. \A j \in 0..BITS-1 : Place(i, j) \in Bits(u) <=> Place(i, j) \in Bits(x) /\ j # BITS - 1
            BY <1>2, CountBytes
      <2>5. BITS - 1 \in 0..BITS-1
            BY <1>1
      <2>6. QED  BY <2>2, <2>3, <2>4, <2>5
<1>10. /\ ZeroBytes(x) \in Words
       /\ Bits(ZeroBytes(x)) = (0..N-1) \ ((Bits(s) \cup Bits(x)) \cup Bits(COUNT))
      <2>1. ZeroBytes(x) = Flip(Or(Or(s, x), COUNT))
            BY DEF ZeroBytes
      <2> HIDE DEF u, s
      <2>2. QED  BY <2>1, BitOps
<1>11. ASSUME NEW i \in 0..WORD-1, NEW j \in 0..BITS-1
       PROVE  Place(i, j) \in Bits(ZeroBytes(x)) <=> j = BITS - 1 /\ ByteOf(x, i) = 0
      <2>1. Place(i, j) \in 0..N-1 /\ (Place(i, j) \in Bits(COUNT) <=> j # BITS - 1)
            BY Places, CountBytes
      <2> HIDE DEF u, s, d
      <2>2. CASE j # BITS - 1
            BY <1>10, <2>1, <2>2
      <2>3. CASE j = BITS - 1
            BY <1>8, <1>9, <1>10, <2>1, <2>3
      <2>4. QED  BY <2>2, <2>3
<1>12. QED  BY <1>10, <1>11

-----------------------------------------------------------------------------
(***************************************************************************)
(* CHECK_MASK, for a word of which the bytes in V are valid.               *)
(***************************************************************************)
LEMMA ValidateMaskSays ==
    ASSUME NEW data \in Words, NEW valid \in Words, NEW V,
           \A i \in 0..WORD-1, j \in 0..BITS-1 : Place(i, j) \in Bits(valid) <=> i \in V,
           NEW and \in Words, NEW cmp \in Words, NEW neg \in Words,
           \A i \in 0..WORD-1 : ByteOf(neg, i) \in {0, Pow[BITS] - 1}
    PROVE  ValidateMask(data, valid, and, cmp, neg) <=>
             \A i \in 0..WORD-1 :
               i \in V => ((And(ByteOf(data, i), ByteOf(and, i)) = ByteOf(cmp, i))
                           = (ByteOf(neg, i) = 0))
<1> DEFINE D == Xor(And(data, And(and, valid)), And(cmp, valid))
           M == And(neg, valid)
           Same(i) == And(ByteOf(data, i), ByteOf(and, i)) = ByteOf(cmp, i)
<1>1. /\ D \in Words /\ M \in Words /\ Bits(M) = Bits(neg) \cap Bits(valid)
      /\ Bits(D) = ((Bits(data) \cap (Bits(and) \cap Bits(valid))) \ (Bits(cmp) \cap Bits(valid)))
                     \cup ((Bits(cmp) \cap Bits(valid)) \ (Bits(data) \cap (Bits(and) \cap Bits(valid))))
      BY BitOps
<1>2. ASSUME NEW i \in 0..WORD-1
      PROVE  /\ ByteOf(D, i) \in Words
             /\ ByteOf(D, i) = 0 <=> \A j \in 0..BITS-1 : Place(i, j) \notin Bits(D)
      <2>1. D \in Nat /\ ByteOf(D, i) \in Words
            BY <1>1, ByteType, WordBits
      <2>2. Bits(ByteOf(D, i)) = {j \in 0..BITS-1 : Place(i, j) \in Bits(D)}
            BY <2>1, ByteBits
      <2>3. QED  BY <2>1, <2>2, IsZero
<1>3. ASSUME NEW i \in 0..WORD-1
      PROVE  Same(i) <=> \A j \in 0..BITS-1 :
                (Place(i, j) \in Bits(data) /\ Place(i, j) \in Bits(and)) <=> Place(i, j) \in Bits(cmp)
      <2>1. data \in Nat /\ and \in Nat /\ cmp \in Nat
            BY WordBits
      <2> DEFINE a == And(ByteOf(data, i), ByteOf(and, i))
                 c == ByteOf(cmp, i)
      <2>2. /\ Bits(ByteOf(data, i)) = {j \in 0..BITS-1 : Place(i, j) \in Bits(data)}
            /\ Bits(ByteOf(and, i)) = {j \in 0..BITS-1 : Place(i, j) \in Bits(and)}
            /\ Bits(c) = {j \in 0..BITS-1 : Place(i, j) \in Bits(cmp)}
            BY <2>1, ByteBits
      <2>3. a \in Words /\ Bits(a) = Bits(ByteOf(data, i)) \cap Bits(ByteOf(and, i)) /\ c \in Words
            BY <2>1, BitOps, ByteType, WordBits
      <2> HIDE DEF a, c
      <2>4. a = c <=> Bits(a) = Bits(c)
            BY <2>3, SameBits
      <2>5. QED  BY <2>2, <2>3, <2>4 DEF a, c
<1>4. ASSUME NEW i \in 0..WORD-1 PROVE ByteOf(D, i) = 0 <=> i \notin V \/ Same(i)
      <2>1. ASSUME NEW j \in 0..BITS-1
            PROVE  Place(i, j) \in Bits(D) <=>
                     i \in V /\ ~ ((Place(i, j) \in Bits(data) /\ Place(i, j) \in Bits(and))
                                   <=> Place(i, j) \in Bits(cmp))
            <3>1. Place(i, j) \in Bits(valid) <=> i \in V
                  OBVIOUS
            <3> HIDE DEF D
            <3>2. QED  BY <1>1, <3>1
      <2>2. 0 \in 0..BITS-1
            BY Places
      <2> HIDE DEF D, Same
      <2>3. QED  BY <1>2, <1>3, <2>1, <2>2
<1>5. ASSUME NEW i \in 0..WORD-1, NEW j \in 0..BITS-1
      PROVE  Place(i, j) \in Bits(M) <=> i \in V /\ ByteOf(neg, i) # 0
      <2>1. neg \in Nat /\ BITS \in 0..N /\ Pow[BITS] \in Nat \ {0} /\ BITS \in Nat \ {0}
            BY Places, WordBits
      <2>2. Bits(ByteOf(neg, i)) = {l \in 0..BITS-1 : Place(i, l) \in Bits(neg)}
            BY <2>1, ByteBits
      <2>3. CASE ByteOf(neg, i) = 0
            <3>1. Bits(ByteOf(neg, i)) = {}
                  BY <2>3, ZeroBits
            <3> HIDE DEF M
            <3>2. QED  BY <1>1, <2>2, <2>3, <3>1
      <2>4. CASE ByteOf(neg, i) = Pow[BITS] - 1 /\ ByteOf(neg, i) # 0
            <3>1. Bits(ByteOf(neg, i)) = 0..BITS-1
                  BY <2>1, <2>4, OnesBits
            <3>2. Place(i, j) \in Bits(neg)
                  BY <2>2, <3>1
            <3>3. Place(i, j) \in Bits(valid) <=> i \in V
                  OBVIOUS
            <3> HIDE DEF M
            <3>4. QED  BY <1>1, <2>4, <3>2, <3>3
      <2>5. ByteOf(neg, i) = 0 \/ (ByteOf(neg, i) = Pow[BITS] - 1 /\ ByteOf(neg, i) # 0)
            OBVIOUS
      <2>6. QED  BY <2>3, <2>4, <2>5
<1> DEFINE Plain == And(D, Flip(M)) = 0
           Negated == And(ZeroBytes(D), M) = 0
<1>6. ValidateMask(data, valid, and, cmp, neg) <=> Plain /\ Negated
      BY DEF ValidateMask
<1> HIDE DEF D, M, Same
<1>7. Bits(D) \subseteq 0..N-1 /\ Bits(ZeroBytes(D)) \subseteq 0..N-1
      BY DEF Bits
<1>8. Plain <=> \A i \in 0..WORD-1 : i \in V /\ ByteOf(neg, i) = 0 => Same(i)
      <2>1. Plain <=> Bits(D) \subseteq Bits(M)
            <3>1. Bits(Flip(M)) = (0..N-1) \ Bits(M)
                  BY BitOps
            <3>2. And(D, Flip(M)) \in Words /\ Bits(And(D, Flip(M))) = Bits(D) \cap Bits(Flip(M))
                  BY BitOps
            <3>3. QED  BY <1>7, <3>1, <3>2, IsZero
      <2>2. ASSUME Bits(D) \subseteq Bits(M), NEW i \in 0..WORD-1, i \in V, ByteOf(neg, i) = 0
            PROVE  Same(i)
            <3>1. \A j \in 0..BITS-1 : Place(i, j) \notin Bits(M)
                  BY <1>5, <2>2
            <3>2. ByteOf(D, i) = 0
                  BY <1>2, <2>2, <3>1
            <3>3. QED  BY <1>4, <2>2, <3>2
      <2>3. ASSUME \A i \in 0..WORD-1 : i \in V /\ ByteOf(neg, i) = 0 => Same(i),
                   NEW q \in Bits(D)
            PROVE  q \in Bits(M)
            <3>1. PICK i \in 0..WORD-1, j \in 0..BITS-1 : q = Place(i, j)
                  BY <1>7, Places
            <3>2. ByteOf(D, i) # 0
                  BY <1>2, <3>1
            <3>3. i \in V /\ ~ Same(i)
                  BY <1>4, <3>2
            <3>4. QED  BY <1>5, <2>3, <3>1, <3>3
      <2>4. QED  BY <2>1, <2>2, <2>3
<1>9. Negated <=> \A i \in 0..WORD-1 : i \in V /\ ByteOf(neg, i) # 0 => ~ Same(i)
      <2>1. Negated <=> \A q \in Bits(ZeroBytes(D)) : q \notin Bits(M)
            <3>1. And(ZeroBytes(D), M) \in Words /\ Bits(And(ZeroBytes(D), M)) = Bits(ZeroBytes(D)) \cap Bits(M)
                  BY BitOps
            <3>2. QED  BY <3>1, IsZero
      <2>2. ASSUME \A q \in Bits(ZeroBytes(D)) : q \notin Bits(M),
                   NEW i \in 0..WORD-1, i \in V, ByteOf(neg, i) # 0
            PROVE  ~ Same(i)
            <3>1. BITS - 1 \in 0..BITS-1
                  BY Places
            <3>2. Place(i, BITS - 1) \in Bits(M)
                  BY <1>5, <2>2, <3>1
            <3>3. ByteOf(D, i) # 0
                  BY <1>1, <2>2, <3>1, <3>2, ZeroBytesSays
            <3>4. QED  BY <1>4, <3>3
      <2>3. ASSUME \A i \in 0..WORD-1 : i \in V /\ ByteOf(neg, i) # 0 => ~ Same(i),
                   NEW q \in Bits(ZeroBytes(D))
            PROVE  q \notin Bits(M)
            <3>1. PICK i \in 0..WORD-1, j \in 0..BITS-1 : q = Place(i, j)
                  BY <1>7, Places
            <3>2. ByteOf(D, i) = 0
                  BY <1>1, <3>1, ZeroBytesSays
            <3>3. i \notin V \/ Same(i)
                  BY <1>4, <3>2
            <3>4. QED  BY <1>5, <2>3, <3>1, <3>3
      <2>4. QED  BY <2>1, <2>2, <2>3
<1>10. (Plain /\ Negated) <=> \A i \in 0..WORD-1 : i \in V => (Same(i) <=> ByteOf(neg, i) = 0)
      <2> HIDE DEF Plain, Negated
      <2>1. QED  BY <1>8, <1>9
<1>11. ASSUME NEW i \in 0..WORD-1
       PROVE  (Same(i) <=> ByteOf(neg, i) = 0) <=>
                ((And(ByteOf(data, i), ByteOf(and, i)) = ByteOf(cmp, i)) = (ByteOf(neg, i) = 0))
      BY DEF Same
<1>12. QED  BY <1>6, <1>10, <1>11

\* The valid bytes of a window that begins in the buffer.
LEMMA ValidBytesSays ==
    ASSUME NEW o \in 0..Len(buf)-1, Len(buf) \in Nat
    PROVE  /\ ValidBytes(o) \in Words
           /\ \A i \in 0..WORD-1, j \in 0..BITS-1 :
                 Place(i, j) \in Bits(ValidBytes(o)) <=> o + i < Len(buf)
<1>1. ALL \in Words /\ Bits(ALL) = 0..N-1
      BY BitOps, ZeroBits DEF ALL
<1>2. CASE ~ (o + WORD > Len(buf))
      <2>1. ValidBytes(o) = ALL
            BY <1>2 DEF ValidBytes
      <2>2. \A i \in 0..WORD-1 : o + i < Len(buf)
            BY <1>2, Places
      <2>3. QED  BY <1>1, <2>1, <2>2, Places
<1>3. CASE o + WORD > Len(buf)
      <2> DEFINE room == Len(buf) - o
                 shift == (WORD - room) * BITS
      <2>1. room \in 1..WORD-1 /\ WORD \in Nat /\ BITS \in Nat \ {0} /\ N \in Nat /\ BITS * WORD = N
            BY <1>3, Places, WordBits
      <2>2. ValidBytes(o) = ShiftRight(ShiftLeft(ALL, shift), shift)
            BY <1>3 DEF ValidBytes
      <2>3. \A i \in 0..WORD-1 : o + i < Len(buf) <=> i < room
            BY <2>1
      <2> HIDE DEF room
      <2>4. shift \in Nat /\ room * BITS \in Nat /\ shift = N - room * BITS
            BY <2>1
      <2> HIDE DEF shift
      <2>5. Bits(ShiftLeft(ALL, shift)) = {q \in 0..N-1 : q - shift \in 0..N-1}
            <3>1. Bits(ShiftLeft(ALL, shift)) = {q \in 0..N-1 : q - shift \in Bits(ALL)}
                  BY BitOps
            <3>2. QED  BY <1>1, <3>1
      <2>6. ValidBytes(o) \in Words /\ Bits(ValidBytes(o)) = {q \in 0..N-1 : q + shift \in Bits(ShiftLeft(ALL, shift))}
            BY <2>2, BitOps
      <2>7. ASSUME NEW q \in 0..N-1 PROVE q \in Bits(ValidBytes(o)) <=> q < room * BITS
            BY <2>1, <2>4, <2>5, <2>6
      <2>8. ASSUME NEW i \in 0..WORD-1, NEW j \in 0..BITS-1
            PROVE  Place(i, j) < room * BITS <=> i < room
            <3>1. i \in Nat /\ j \in Nat /\ j < BITS /\ i * BITS \in Nat /\ Place(i, j) = i * BITS + j
                  BY <2>1 DEF Place
            <3>2. CASE i < room
                  <4>1. (i + 1) * BITS <= room * BITS /\ (i + 1) * BITS = i * BITS + BITS
                        BY <2>1, <3>1, <3>2, TimesMonotone
                  <4>2. QED  BY <2>1, <2>4, <3>1, <3>2, <4>1
            <3>3. CASE ~ (i < room)
                  <4>1. room * BITS <= i * BITS
                        BY <2>1, <3>1, <3>3, TimesMonotone
                  <4>2. QED  BY <2>1, <2>4, <3>1, <3>3, <4>1
            <3>4. QED  BY <3>2, <3>3
      <2>9. QED  BY <2>3, <2>6, <2>7, <2>8, Places
<1>4. QED  BY <1>2, <1>3

LEMMA LoadWordSays ==
    ASSUME NEW o \in Nat, NEW k \in 1..WORD, o + k <= Len(buf), buf \in Seq(Bytes)
    PROVE  /\ LoadWord(o, k) \in Words
           /\ \A i \in 0..k-1 : ByteOf(LoadWord(o, k), i) = buf[o + i + 1]
<1> DEFINE d == [i \in 0..k-1 |-> At(o + i)]
<1>1. LoadWord(o, k) = Number(BITS, d, k)
      BY DEF LoadWord
<1>2. ASSUME NEW i \in 0..k-1 PROVE d[i] = buf[o + i + 1] /\ d[i] \in Bytes
      <2>1. o + i + 1 \in 1..Len(buf) /\ d[i] = buf[o + i + 1]
            BY Places DEF At
      <2>2. QED  BY <2>1
<1>3. BITS \in Nat \ {0} /\ k \in Nat /\ BITS * k \in Nat /\ N \in Nat /\ WORD \in Nat
      BY Places, WordBits
<1>4. BITS * k <= N
      <2>1. k * BITS <= WORD * BITS
            BY <1>3, TimesMonotone
      <2>2. k * BITS = BITS * k /\ WORD * BITS = BITS * WORD
            BY <1>3
      <2>3. QED  BY <2>1, <2>2, Places
<1> HIDE DEF d
<1>5. IsDigits(BITS, d, k)
      BY <1>2, <1>3, <1>4 DEF IsDigits, Bytes
<1>6. LoadWord(o, k) \in Words
      <2>1. LoadWord(o, k) \in 0..Pow[BITS * k]-1
            BY <1>1, <1>5, NumberBound
      <2>2. Pow[BITS * k] <= Pow[N] /\ Pow[BITS * k] \in Nat /\ Pow[N] \in Nat
            <3> DEFINE m == BITS * k
                       n == N - m
            <3>1. m \in Nat /\ n \in Nat /\ m + n = N /\ m + n <= N
                  BY <1>3, <1>4
            <3> HIDE DEF m, n
            <3>2. Pow[m] <= Pow[m + n] /\ Pow[m] \in Nat
                  BY <3>1, Powers
            <3>3. QED  BY <3>1, <3>2, WordBits DEF m
      <2>3. QED  BY <2>1, <2>2 DEF Words
<1>7. \A i \in 0..k-1 : ByteOf(LoadWord(o, k), i) = d[i]
      BY <1>1, <1>5, NumberDigit DEF ByteOf
<1>8. QED  BY <1>2, <1>6, <1>7

-----------------------------------------------------------------------------
(***************************************************************************)
(* The invariant.                                                          *)
(***************************************************************************)
TypeOK ==
    /\ buf \in Buffers /\ end \in 1..Len(buf) /\ check \in Checks
    /\ verdict \in {"none", "pass", "fail", "ProgramOverrun"}

LEMMA BufferType ==
    ASSUME TypeOK
    PROVE  /\ buf \in Seq(Bytes) /\ Len(buf) \in Nat \ {0} /\ end \in 1..Len(buf)
           /\ IsCheck(check)
           /\ \A o \in 0..Len(buf)-1 : At(o) = buf[o + 1] /\ At(o) \in Bytes
<1>1. buf \in Seq(Bytes) /\ buf # <<>> /\ end \in 1..Len(buf)
      BY WindowAssumption DEF TypeOK
<1>2. IsCheck(check)
      BY WindowAssumption DEF TypeOK
<1>3. Len(buf) \in Nat \ {0}
      BY <1>1
<1>4. \A o \in 0..Len(buf)-1 : At(o) = buf[o + 1] /\ At(o) \in Bytes
      BY <1>1, <1>3 DEF At
<1>5. QED  BY <1>1, <1>2, <1>3, <1>4

LEMMA MaskSays ==
    ASSUME TypeOK, CheckMask
    PROVE  (verdict' = "pass") =
             WindowPasses(check.off, WORD,
               LAMBDA i, b : (And(b, ByteOf(check.and, i)) = ByteOf(check.cmp, i))
                             = (ByteOf(check.neg, i) = 0))
<1> DEFINE Matches(i, b) == (And(b, ByteOf(check.and, i)) = ByteOf(check.cmp, i))
                             = (ByteOf(check.neg, i) = 0)
           o == end + check.off
           room == Len(buf) - o
           k == IF room < WORD THEN room ELSE WORD
           Validates == ValidateMask(LoadWord(o, k), ValidBytes(o), check.and, check.cmp, check.neg)
<1>1. /\ check.kind = "mask" /\ check.and \in Words /\ check.cmp \in Words
      /\ check.neg \in Words /\ check.off \in Int
      /\ \A i \in 0..WORD-1 : ByteOf(check.neg, i) \in {0, Pow[BITS] - 1}
      BY BufferType DEF CheckMask, IsCheck
<1>2. /\ buf \in Seq(Bytes) /\ Len(buf) \in Nat \ {0} /\ end \in 1..Len(buf)
      /\ WORD \in Nat \ {0} /\ o \in Int
      BY <1>1, BufferType, Places
<1>3. (verdict' = "pass") = (~TooEarly(check.off) /\ (o >= Len(buf) \/ Validates))
      BY DEF CheckMask, Verdict
<1>4. TooEarly(check.off) <=> o < 0
      BY <1>1, <1>2 DEF TooEarly
<1>5. WindowPasses(check.off, WORD, Matches) <=>
        o >= 0 /\ \A i \in 0..WORD-1 : o + i < Len(buf) => Matches(i, buf[o + i + 1])
      BY DEF WindowPasses
<1>6. ASSUME o >= 0, ~ (o >= Len(buf))
      PROVE  Validates <=> \A i \in 0..WORD-1 : o + i < Len(buf) => Matches(i, buf[o + i + 1])
      <2>1. /\ o \in 0..Len(buf)-1 /\ k \in 1..WORD /\ o + k <= Len(buf)
            /\ \A i \in 0..WORD-1 : o + i < Len(buf) <=> i < k
            BY <1>2, <1>6
      <2> DEFINE V == {i \in 0..WORD-1 : o + i < Len(buf)}
      <2> HIDE DEF o, k
      <2>2. /\ LoadWord(o, k) \in Words
            /\ \A i \in 0..k-1 : ByteOf(LoadWord(o, k), i) = buf[o + i + 1]
            BY <1>2, <2>1, LoadWordSays
      <2>3. /\ ValidBytes(o) \in Words
            /\ \A i \in 0..WORD-1, j \in 0..BITS-1 :
                  Place(i, j) \in Bits(ValidBytes(o)) <=> o + i < Len(buf)
            BY <1>2, <2>1, ValidBytesSays
      <2>4. \A i \in 0..WORD-1, j \in 0..BITS-1 : Place(i, j) \in Bits(ValidBytes(o)) <=> i \in V
            BY <2>3
      <2>5. \A i \in 0..WORD-1 : i \in V <=> i < k
            BY <2>1
      <2> HIDE DEF V
      <2>6. ValidateMask(LoadWord(o, k), ValidBytes(o), check.and, check.cmp, check.neg) <=>
              \A i \in 0..WORD-1 : i \in V =>
                 ((And(ByteOf(LoadWord(o, k), i), ByteOf(check.and, i)) = ByteOf(check.cmp, i))
                  = (ByteOf(check.neg, i) = 0))
            <3> DEFINE data == LoadWord(o, k)
                       valid == ValidBytes(o)
                       and == check.and
                       cmp == check.cmp
                       neg == check.neg
            <3>1. /\ data \in Words /\ valid \in Words /\ and \in Words /\ cmp \in Words /\ neg \in Words
                  /\ \A i \in 0..WORD-1, j \in 0..BITS-1 : Place(i, j) \in Bits(valid) <=> i \in V
                  /\ \A i \in 0..WORD-1 : ByteOf(neg, i) \in {0, Pow[BITS] - 1}
                  BY <1>1, <2>2, <2>3, <2>4
            <3> HIDE DEF data, valid, and, cmp, neg
            <3>2. ValidateMask(data, valid, and, cmp, neg) <=>
                    \A i \in 0..WORD-1 : i \in V =>
                       ((And(ByteOf(data, i), ByteOf(and, i)) = ByteOf(cmp, i)) = (ByteOf(neg, i) = 0))
                  BY <3>1, ValidateMaskSays
            <3>3. QED  BY <3>2 DEF data, valid, and, cmp, neg
      <2>7. \A i \in 0..WORD-1 : i \in V => ByteOf(LoadWord(o, k), i) = buf[o + i + 1]
            <3>1. \A i \in 0..WORD-1 : i < k => i \in 0..k-1
                  BY <2>1
            <3>2. QED  BY <2>2, <2>5, <3>1
      <2>8. \A i \in 0..WORD-1 : i \in V <=> o + i < Len(buf)
            BY <2>1, <2>5
      <2>9. QED  BY <2>6, <2>7, <2>8
<1>7. ASSUME o >= Len(buf) PROVE \A i \in 0..WORD-1 : ~ (o + i < Len(buf))
      BY <1>2, <1>7
<1>8. WindowPasses(check.off, WORD, Matches) \in BOOLEAN
      BY DEF WindowPasses
<1> DEFINE Passes == WindowPasses(check.off, WORD, Matches)
           All == \A i \in 0..WORD-1 : o + i < Len(buf) => Matches(i, buf[o + i + 1])
<1>9. o >= Len(buf) => All
      BY <1>7
<1>10. /\ (verdict' = "pass") = (~TooEarly(check.off) /\ (o >= Len(buf) \/ Validates))
       /\ Passes \in BOOLEAN /\ (Passes <=> o >= 0 /\ All)
       /\ o >= 0 /\ ~ (o >= Len(buf)) => (Validates <=> All)
      BY <1>3, <1>5, <1>6, <1>8
<1> HIDE DEF Validates, Passes, All, o
<1>11. (verdict' = "pass") = Passes
      BY <1>2, <1>4, <1>9, <1>10
<1>12. QED  BY <1>11 DEF Passes

LEMMA ByteSays ==
    ASSUME TypeOK, CheckByte
    PROVE  (verdict' = "pass") =
             WindowPasses(check.off, 1,
               LAMBDA i, b : (And(b, check.and) = check.cmp) = ~check.neg)
<1> DEFINE o == end + check.off
           Matches(b) == (And(b, check.and) = check.cmp) = ~check.neg
<1>1. check.kind = "byte" /\ check.neg \in BOOLEAN /\ check.off \in Int
      BY BufferType DEF CheckByte, IsCheck
<1>2. Len(buf) \in Nat \ {0} /\ end \in 1..Len(buf) /\ o \in Int
      BY <1>1, BufferType
<1>3. (verdict' = "pass") =
        (~TooEarly(check.off) /\ (o < 0 \/ o >= Len(buf) \/ Matches(buf[o + 1])))
      BY DEF CheckByte, Verdict, At
<1>4. TooEarly(check.off) <=> o < 0
      BY <1>1, <1>2 DEF TooEarly
<1>5. o + 0 = o /\ 0..1-1 = {0}
      BY <1>2
<1>6. WindowPasses(check.off, 1, LAMBDA i, b : Matches(b)) =
        (o >= 0 /\ (o < Len(buf) => Matches(buf[o + 1])))
      BY <1>5 DEF WindowPasses
<1> HIDE DEF Matches
<1>7. (~TooEarly(check.off) /\ (o < 0 \/ o >= Len(buf) \/ Matches(buf[o + 1]))) =
        (o >= 0 /\ (o < Len(buf) => Matches(buf[o + 1])))
      BY <1>2, <1>4
<1>8. QED  BY <1>3, <1>6, <1>7 DEF Matches

LEMMA ClassSays ==
    ASSUME TypeOK, CheckClass
    PROVE  (verdict' = "pass") =
             WindowPasses(check.off, Len(check.class),
               LAMBDA i, b : (b \in check.class[i + 1]) = (i \notin check.neg))
<1> DEFINE o == end + check.off
           width == Len(check.class)
           w == WindowAt(o, width)
           nres == {i \in 0..width-1 : w.data[i] \notin check.class[i + 1]}
           Matches(i, b) == (b \in check.class[i + 1]) = (i \notin check.neg)
           Passes == WindowPasses(check.off, width, Matches)
           All == \A i \in 0..width-1 : o + i < Len(buf) => Matches(i, buf[o + i + 1])
           Valid == \A i \in w.valid : i \in nres <=> i \in check.neg
<1>1. check.kind = "class" /\ check.class \in Seq(SUBSET Bytes) /\ check.off \in Int
      BY BufferType DEF CheckClass, IsCheck
<1>2. Len(buf) \in Nat \ {0} /\ end \in 1..Len(buf) /\ o \in Int /\ width \in Nat
      BY <1>1, BufferType
<1>3. (verdict' = "pass") = (~TooEarly(check.off) /\ Valid)
      BY DEF CheckClass, Verdict
<1>4. TooEarly(check.off) <=> o < 0
      BY <1>1, <1>2 DEF TooEarly
<1>5. Passes = (o >= 0 /\ All)
      BY DEF WindowPasses
<1>6. ASSUME o >= 0 PROVE Valid <=> All
      <2>1. w.valid = {i \in 0..width-1 : o + i < Len(buf)}
            BY <1>6 DEF WindowAt
      <2>2. ASSUME NEW i \in 0..width-1, o + i < Len(buf)
            PROVE  (i \in nres <=> i \in check.neg) <=> Matches(i, buf[o + i + 1])
            <3>1. w.data[i] = buf[o + i + 1]
                  BY <1>6, <2>2 DEF WindowAt, At
            <3>2. i \in nres <=> buf[o + i + 1] \notin check.class[i + 1]
                  BY <3>1
            <3> HIDE DEF nres
            <3>3. QED  BY <3>2
      <2> HIDE DEF w, nres, Matches
      <2>3. QED  BY <2>1, <2>2
<1> HIDE DEF o, Valid, All, Passes
<1>7. (verdict' = "pass") = Passes
      BY <1>2, <1>3, <1>4, <1>5, <1>6
<1>8. QED  BY <1>7 DEF Passes

LEMMA LookSays ==
    ASSUME TypeOK, CheckLookaround
    PROVE  verdict' \in {"pass", "fail"} =>
             (verdict' = "pass") =
               \A k \in DOMAIN check.looks :
                  WindowPasses(check.looks[k], 1, LAMBDA i, b : b \in check.reach[k])
<1> DEFINE K == DOMAIN check.looks
           o(k) == end + check.looks[k]
           Entry(k) == o(k) >= 0 /\ (o(k) < Len(buf) => buf[o(k) + 1] \in check.reach[k])
           Walked(k) == (Reached(k) /\ o(k) >= 0) => buf[o(k) + 1] \in check.reach[k]
<1>1. /\ check.kind = "look" /\ check.looks \in Seq(Int)
      /\ \A j, k \in K : j < k => check.looks[j] <= check.looks[k]
      BY BufferType DEF CheckLookaround, IsCheck
<1>2. Len(buf) \in Nat \ {0} /\ end \in 1..Len(buf)
      BY BufferType
<1>3. K = 1..Len(check.looks) /\ Len(check.looks) \in Nat /\ \A k \in K : check.looks[k] \in Int
      BY <1>1
<1>4. \A k \in K : o(k) \in Int
      BY <1>2, <1>3
<1>5. ASSUME NEW k \in K
      PROVE  WindowPasses(check.looks[k], 1, LAMBDA i, b : b \in check.reach[k]) = Entry(k)
      <2>1. o(k) \in Int /\ o(k) + 0 = o(k) /\ 0..1-1 = {0}
            BY <1>4
      <2>2. QED  BY <2>1 DEF WindowPasses
<1>6. CASE check.looks = <<>>
      <2>1. K = {}
            BY <1>3, <1>6
      <2>2. verdict' = "pass"
            BY <1>6 DEF CheckLookaround
      <2>3. QED  BY <2>1, <2>2
<1>7. CASE check.looks # <<>> /\ check.room < Len(check.looks)
      <2>1. verdict' = "ProgramOverrun"
            BY <1>7 DEF CheckLookaround
      <2>2. QED  BY <2>1
<1>8. CASE check.looks # <<>> /\ ~ (check.room < Len(check.looks))
      <2>1. 1 \in K
            BY <1>1, <1>3, <1>8
      <2>2. (verdict' = "pass") = (~TooEarly(check.looks[1]) /\ \A k \in K : Walked(k))
            BY <1>8 DEF CheckLookaround, Verdict, At
      <2>3. TooEarly(check.looks[1]) <=> o(1) < 0
            BY <1>2, <1>3, <2>1 DEF TooEarly
      <2>4. ASSUME NEW j \in K, NEW k \in K, j <= k PROVE o(j) <= o(k)
            <3>1. /\ j \in Int /\ k \in Int /\ end \in Int
                  /\ check.looks[j] \in Int /\ check.looks[k] \in Int
                  BY <1>2, <1>3
            <3>2. CASE j = k
                  BY <3>1, <3>2
            <3>3. CASE j < k
                  <4>1. check.looks[j] <= check.looks[k]
                        BY <1>1, <3>3
                  <4>2. QED  BY <3>1, <4>1
            <3>4. j \in Int /\ k \in Int /\ j <= k
                  BY <2>4, <3>1
            <3> HIDE DEF K, o
            <3>5. QED  BY <3>2, <3>3, <3>4
      <2>5. ASSUME NEW k \in K PROVE Reached(k) <=> o(k) < Len(buf)
            <3>1. Reached(k) <=> \A j \in 1..k : o(j) < Len(buf)
                  BY DEF Reached
            <3>2. k \in 1..k /\ \A j \in 1..k : j \in K /\ j <= k
                  BY <1>3
            <3> HIDE DEF K, o
            <3>3. \A j \in 1..k : o(j) <= o(k) /\ o(j) \in Int
                  BY <1>4, <2>4, <3>2
            <3>4. QED  BY <1>2, <1>4, <3>1, <3>2, <3>3
      <2>6. ASSUME NEW k \in K PROVE o(1) <= o(k) /\ o(k) \in Int /\ o(1) \in Int
            <3>1. 1 <= k
                  BY <1>3
            <3>2. QED  BY <1>4, <2>1, <2>4, <3>1
      <2> HIDE DEF K, o
      <2>7. (~TooEarly(check.looks[1]) /\ \A k \in K : Walked(k)) = \A k \in K : Entry(k)
            <3>1. CASE o(1) < 0
                  <4>1. ~ Entry(1)
                        BY <2>1, <2>6, <3>1
                  <4> HIDE DEF Entry, Walked
                  <4>2. QED  BY <2>1, <2>3, <3>1, <4>1
            <3>2. CASE ~ (o(1) < 0)
                  <4>1. ASSUME NEW k \in K PROVE Walked(k) <=> Entry(k)
                        <5>1. o(k) >= 0 /\ (Reached(k) <=> o(k) < Len(buf))
                              BY <2>5, <2>6, <3>2
                        <5>2. QED  BY <5>1
                  <4> HIDE DEF Walked, Entry
                  <4>2. QED  BY <2>3, <3>2, <4>1
            <3>3. QED  BY <3>1, <3>2
      <2> DEFINE Passes(k) == WindowPasses(check.looks[k], 1, LAMBDA i, b : b \in check.reach[k])
      <2>8. \A k \in K : Passes(k) = Entry(k)
            BY <1>5
      <2> HIDE DEF Entry, Walked, Passes
      <2>9. (verdict' = "pass") = \A k \in K : Passes(k)
            BY <2>2, <2>7, <2>8
      <2>10. QED  BY <2>9 DEF K, Passes
<1>9. QED  BY <1>6, <1>7, <1>8

LEMMA SingleSays ==
    ASSUME TypeOK, CheckSingleLookaround
    PROVE  (verdict' = "pass") = WindowPasses(check.off, 1, LAMBDA i, b : b \in check.reach)
<1> DEFINE o == end + check.off
           Reaches == buf[o + 1] \in check.reach
<1>1. check.off \in Int /\ Len(buf) \in Nat \ {0} /\ end \in 1..Len(buf)
      BY BufferType DEF CheckSingleLookaround, IsCheck
<1>2. o \in Int /\ o + 0 = o /\ 0..1-1 = {0} /\ (TooEarly(check.off) <=> o < 0)
      BY <1>1 DEF TooEarly
<1>3. (verdict' = "pass") = (~TooEarly(check.off) /\ (o < 0 \/ o >= Len(buf) \/ Reaches))
      BY DEF CheckSingleLookaround, Verdict, At
<1>4. WindowPasses(check.off, 1, LAMBDA i, b : b \in check.reach) =
        (o >= 0 /\ (o < Len(buf) => Reaches))
      BY <1>2 DEF WindowPasses
<1> HIDE DEF Reaches
<1>5. (~TooEarly(check.off) /\ (o < 0 \/ o >= Len(buf) \/ Reaches)) =
        (o >= 0 /\ (o < Len(buf) => Reaches))
      BY <1>1, <1>2
<1>6. QED  BY <1>3, <1>4, <1>5

Inv == TypeOK /\ MaskBytewise /\ BordersAgree /\ LookaroundAllEntries

LEMMA InvInit == Init => Inv
BY DEF Init, Inv, TypeOK, MaskBytewise, BordersAgree, LookaroundAllEntries, Says

\* The kinds exclude each other: a step decides one property, the others do
\* not speak of its check.
LEMMA InvNext == Inv /\ [Next]_vars => Inv'
<1> SUFFICES ASSUME Inv, [Next]_vars PROVE Inv'
    OBVIOUS
<1>1. TypeOK /\ MaskBytewise /\ BordersAgree /\ LookaroundAllEntries
      BY DEF Inv
<1>2. CASE CheckByte
      <2>1. check.kind = "byte" /\ UNCHANGED <<buf, end, check>> /\ verdict' \in {"pass", "fail"}
            BY <1>2 DEF CheckByte, Verdict
      <2>2. TypeOK'
            BY <1>1, <2>1 DEF TypeOK
      <2>3. MaskBytewise' /\ LookaroundAllEntries'
            BY <2>1 DEF MaskBytewise, LookaroundAllEntries
      <2>4. BordersAgree'
            BY <1>1, <1>2, <2>1, ByteSays DEF BordersAgree, Says, WindowPasses
      <2>5. QED  BY <2>2, <2>3, <2>4 DEF Inv
<1>3. CASE CheckClass
      <2>1. check.kind = "class" /\ UNCHANGED <<buf, end, check>> /\ verdict' \in {"pass", "fail"}
            BY <1>3 DEF CheckClass, Verdict
      <2>2. TypeOK'
            BY <1>1, <2>1 DEF TypeOK
      <2>3. MaskBytewise' /\ LookaroundAllEntries'
            BY <2>1 DEF MaskBytewise, LookaroundAllEntries
      <2>4. BordersAgree'
            BY <1>1, <1>3, <2>1, ClassSays DEF BordersAgree, Says, WindowPasses
      <2>5. QED  BY <2>2, <2>3, <2>4 DEF Inv
<1>4. CASE CheckMask
      <2>1. check.kind = "mask" /\ UNCHANGED <<buf, end, check>> /\ verdict' \in {"pass", "fail"}
            BY <1>4 DEF CheckMask, Verdict
      <2>2. TypeOK'
            BY <1>1, <2>1 DEF TypeOK
      <2>3. BordersAgree' /\ LookaroundAllEntries'
            BY <2>1 DEF BordersAgree, LookaroundAllEntries
      <2>4. MaskBytewise'
            BY <1>1, <1>4, <2>1, MaskSays DEF MaskBytewise, Says, WindowPasses
      <2>5. QED  BY <2>2, <2>3, <2>4 DEF Inv
<1>5. CASE CheckLookaround
      <2>1. check.kind = "look" /\ UNCHANGED <<buf, end, check>>
            /\ verdict' \in {"pass", "fail", "ProgramOverrun"}
            BY <1>5 DEF CheckLookaround, Verdict
      <2>2. TypeOK'
            BY <1>1, <2>1 DEF TypeOK
      <2>3. BordersAgree' /\ MaskBytewise'
            BY <2>1 DEF BordersAgree, MaskBytewise
      <2>4. LookaroundAllEntries'
            BY <1>1, <1>5, <2>1, LookSays DEF LookaroundAllEntries, Says, WindowPasses
      <2>5. QED  BY <2>2, <2>3, <2>4 DEF Inv
<1>a. CASE CheckSingleLookaround
      <2>1. check.kind = "single" /\ UNCHANGED <<buf, end, check>> /\ verdict' \in {"pass", "fail"}
            BY <1>a DEF CheckSingleLookaround, Verdict
      <2>2. TypeOK'
            BY <1>1, <2>1 DEF TypeOK
      <2>3. BordersAgree' /\ MaskBytewise'
            BY <2>1 DEF BordersAgree, MaskBytewise
      <2>4. LookaroundAllEntries'
            BY <1>1, <1>a, <2>1, SingleSays DEF LookaroundAllEntries, Says, WindowPasses
      <2>5. QED  BY <2>2, <2>3, <2>4 DEF Inv
<1>6. CASE CheckMedLit
      <2>1. check.kind = "lit" /\ UNCHANGED <<buf, end, check>> /\ verdict' \in {"pass", "fail"}
            BY <1>6 DEF CheckMedLit, Verdict
      <2>2. TypeOK'
            BY <1>1, <2>1 DEF TypeOK
      <2>3. QED  BY <2>1, <2>2 DEF Inv, MaskBytewise, BordersAgree, LookaroundAllEntries
<1>7. CASE UNCHANGED vars
      BY <1>1, <1>7 DEF vars, Inv, TypeOK, MaskBytewise, BordersAgree, LookaroundAllEntries,
                        Says, WindowPasses
<1>8. QED  BY <1>2, <1>3, <1>4, <1>5, <1>a, <1>6, <1>7 DEF Next, Done

LEMMA InvAlways == Spec => []Inv
BY InvInit, InvNext, PTL DEF Spec

\* The word arithmetic of validate_mask (literal.rs:1012-1025) decides byte by
\* byte, for words of any number of bytes of any number of bits.
THEOREM MaskIsBytewise == Spec => []MaskBytewise
<1>1. Inv => MaskBytewise
      BY DEF Inv
<1>2. QED  BY <1>1, InvAlways, PTL

\* CHECK_BYTE and the 16- and 32-byte checks (literal.rs:665-767, 830-1000)
\* treat the borders of the buffer as CHECK_MASK does (1029-1055): what begins
\* in front of it fails, what lies behind it is not looked at.
THEOREM WindowsAgreeAtBorders == Spec => []BordersAgree
<1>1. Inv => BordersAgree
      BY DEF Inv
<1>2. QED  BY <1>1, InvAlways, PTL

\* The walk of a lookaround (literal.rs:791-825), which looks for a missing
\* history at the first entry only and ends at the first entry behind the
\* buffer, and a single lookaround (776-789) are the conjunction of their
\* entries, of which one in front of the buffer fails.
THEOREM LookaroundIsConjunction == Spec => []LookaroundAllEntries
<1>1. Inv => LookaroundAllEntries
      BY DEF Inv
<1>2. QED  BY <1>1, InvAlways, PTL
=============================================================================
