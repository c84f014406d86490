--------------------------- MODULE AccelScanProofs ---------------------------
(***************************************************************************)
(* The vectors of a search lie inside its buffer, and its answer is that   *)
(* of the scalar reference, for every width of a vector, every alignment   *)
(* and every kernel.                                                       *)
(***************************************************************************)
EXTENDS AccelScan, WellFoundedInduction, TLAPS

(***************************************************************************)
(* Arithmetic that the provers do not find by themselves: least and        *)
(* greatest elements, products, quotients and remainders by a number that  *)
(* is a parameter.                                                         *)
(***************************************************************************)
\* A non-empty set of naturals has a least element.
LEMMA LeastExists ==
    ASSUME NEW S \in SUBSET Nat, S # {}
    PROVE  \E x \in S : \A y \in S : x <= y
<1> DEFINE R == {ss \in Nat \X Nat : ss[1] < ss[2]}
<1>1. IsWellFoundedOn(R, Nat)
      BY NatLessThanWellFounded, Zenon DEF OpToRel
<1>2. \A x, y \in Nat : <<y, x>> \notin R => x <= y
      OBVIOUS
<1> HIDE DEF R
<1>3. \E x \in S : \A y \in S : ~ (<<y, x>> \in R)
      BY <1>1, WFMin, Zenon
<1>4. QED  BY <1>2, <1>3

\* A non-empty set of naturals up to a bound has a greatest element.
LEMMA GreatestExists ==
    ASSUME NEW S \in SUBSET Nat, S # {}, NEW n \in Nat, \A y \in S : y <= n
    PROVE  \E x \in S : \A y \in S : x >= y
<1> DEFINE T == {k \in Nat : n - k \in S}
<1>1. PICK s \in S : TRUE
      OBVIOUS
<1>2. s \in Nat /\ n - s \in Nat /\ n - (n - s) = s
      OBVIOUS
<1>3. T \in SUBSET Nat /\ T # {}
      BY <1>1, <1>2
<1>4. PICK k \in T : \A y \in T : k <= y
      <2> HIDE DEF T
      <2>1. QED  BY <1>3, LeastExists
<1>5. k \in Nat /\ n - k \in S
      BY <1>4
<1>6. ASSUME NEW y \in S PROVE n - k >= y
      <2>1. y \in Nat /\ n - y \in Nat /\ n - (n - y) = y
            OBVIOUS
      <2>2. n - y \in T
            BY <2>1
      <2>3. k <= n - y
            BY <1>4, <2>2
      <2>4. QED  BY <1>5, <2>1, <2>3
<1>7. QED  BY <1>5, <1>6

LEMMA TimesMonotone ==
    ASSUME NEW a \in Int, NEW b \in Int, NEW n \in Nat, a <= b
    PROVE  a * n \in Int /\ b * n \in Int /\ a * n <= b * n
<1>1. b - a \in Nat
      OBVIOUS
<1>2. (b - a) * n \in Nat
      BY <1>1
<1>3. b * n = a * n + (b - a) * n
      OBVIOUS
<1>4. QED  BY <1>2, <1>3

\* Division: quotient and remainder.
LEMMA Divides ==
    ASSUME NEW a \in Nat, NEW n \in Nat \ {0}
    PROVE  /\ a \div n \in Nat /\ a % n \in 0..n-1
           /\ a = (a \div n) * n + (a % n)
OBVIOUS

\* ... and there is no other way to divide.
LEMMA DividesOnce ==
    ASSUME NEW q \in Nat, NEW r \in Nat, NEW n \in Nat, r < n
    PROVE  (q * n + r) \div n = q /\ (q * n + r) % n = r
<1> DEFINE a == q * n + r
           e == a \div n
           m == a % n
<1>1. n \in Nat \ {0} /\ q * n \in Nat /\ a \in Nat
      OBVIOUS
<1>2. e \in Nat /\ m \in 0..n-1 /\ a = e * n + m
      <2> HIDE DEF a
      <2>1. QED  BY <1>1, Divides
<1>3. q * n + r = e * n + m
      BY <1>2
<1> HIDE DEF e, m
<1>4. ~ (q + 1 <= e)
      <2>1. (q + 1) * n = q * n + n
            OBVIOUS
      <2>2. q + 1 <= e => q * n + n <= e * n
            BY <1>2, <2>1, TimesMonotone
      <2>3. QED  BY <1>1, <1>2, <1>3, <2>2
<1>5. ~ (e + 1 <= q)
      <2>1. (e + 1) * n = e * n + n
            BY <1>2
      <2>2. e + 1 <= q => e * n + n <= q * n
            BY <1>2, <2>1, TimesMonotone
      <2>3. e * n \in Nat
            BY <1>2
      <2>4. QED  BY <1>1, <1>2, <1>3, <2>2, <2>3
<1>6. e = q
      BY <1>2, <1>4, <1>5
<1>7. m = r
      BY <1>1, <1>2, <1>3, <1>6
<1>8. QED  BY <1>6, <1>7 DEF e, m

-----------------------------------------------------------------------------
\* What is known at each point of a search: the searches that read vectors
\* do so in buffers that hold one, and d stays on the buffer.
LoadInv ==
    /\ kernel \in Kernels /\ buf \in Buffers /\ align \in Lanes
    /\ at \in {"start", "head", "blocks", "tail", "last", "done"}
    /\ d \in 0..BufLen
    /\ at \in {"head", "blocks"} => BufLen >= LANES
    /\ at = "tail" => BufLen >= LANES \/ Pairs
    /\ LoadsInside

LEMMA LoadTypes ==
    ASSUME LoadInv
    PROVE  /\ LANES \in Nat \ {0, 1} /\ BufLen \in Nat /\ align \in 0..LANES-1
           /\ kernel.dir \in {"fwd", "rev"} /\ (Pairs => Forward)
<1>1. buf \in Seq(Bytes)
      BY AccelAssumption DEF LoadInv
<1>2. QED  BY <1>1, VectorAssumption, AccelAssumption DEF LoadInv, BufLen, Lanes, Pairs, Forward

LEMMA EndAlignType ==
    ASSUME LoadInv
    PROVE  EndAlign \in 0..LANES-1
<1>1. LANES \in Nat \ {0, 1} /\ BufLen + LANES - align \in Int
      BY LoadTypes
<1>2. QED  BY <1>1 DEF EndAlign

LEMMA LoadInit == Init => LoadInv
<1> SUFFICES ASSUME Init PROVE LoadInv
    OBVIOUS
<1>1. BufLen \in Nat
      BY AccelAssumption DEF Init, BufLen
<1>2. QED  BY <1>1 DEF Init, LoadInv, LoadsInside

LEMMA LoadStep == LoadInv /\ [Next]_vars => LoadInv'
<1> SUFFICES ASSUME LoadInv, [Next]_vars PROVE LoadInv'
    OBVIOUS
<1> USE DEF LoadInv, LoadsInside
<1>0. /\ LANES \in Nat \ {0, 1} /\ BufLen \in Nat /\ align \in 0..LANES-1
      /\ EndAlign \in 0..LANES-1 /\ (Pairs => Forward)
      BY LoadTypes, EndAlignType
<1>1. CASE Short
      BY <1>0, <1>1 DEF Short, Answer, inputs, BufLen, Pairs
<1>2. CASE Start
      BY <1>0, <1>2 DEF Start, GoOn, inputs, BufLen, Pairs
<1>3. CASE HeadVector
      <2>1. UNCHANGED <<kernel, buf, align>> /\ BufLen >= LANES
            BY <1>3 DEF HeadVector, inputs
      <2>2. /\ at' \in {"head", "blocks", "done"} /\ d' \in {d, align, BufLen - EndAlign}
            /\ load' \in {load, 0, BufLen - LANES}
            BY <1>3 DEF HeadVector, Answer, GoOn
      <2>3. QED  BY <1>0, <2>1, <2>2 DEF BufLen, Pairs
<1>4. CASE BlockFwd
      BY <1>0, <1>4 DEF BlockFwd, Answer, GoOn, inputs, BufLen, Pairs
<1>5. CASE BlockRev
      BY <1>0, <1>5 DEF BlockRev, Answer, GoOn, inputs, BufLen, Pairs
<1>6. CASE TailVector
      BY <1>0, <1>6 DEF TailVector, Answer, TailFrom, inputs, BufLen, Pairs
<1>7. CASE HeadDouble
      BY <1>0, <1>7 DEF HeadDouble, Answer, GoOn, inputs, BufLen, Pairs
<1>8. CASE BlockDouble
      BY <1>0, <1>8 DEF BlockDouble, Answer, GoOn, inputs, BufLen, Pairs
<1>9. CASE TailDouble
      BY <1>0, <1>9 DEF TailDouble, Answer, GoOn, inputs, BufLen, Pairs
<1>10. CASE LastByte
      BY <1>0, <1>10 DEF LastByte, Answer, inputs, BufLen, Pairs
<1>11. CASE Finished \/ UNCHANGED vars
      BY <1>0, <1>11 DEF Finished, vars, inputs, BufLen, Pairs
<1>12. QED
      BY <1>1, <1>2, <1>3, <1>4, <1>5, <1>6, <1>7, <1>8, <1>9, <1>10, <1>11 DEF Next

-----------------------------------------------------------------------------
\* Every vector that loadu reads lies inside the buffer.
THEOREM VectorsInside == Spec => []LoadsInside
<1>1. LoadInv => LoadsInside
      BY DEF LoadInv
<1>2. QED  BY <1>1, LoadInit, LoadStep, PTL DEF Spec
-----------------------------------------------------------------------------
(***************************************************************************)
(* Nibbles of bytes, and what is left of them in the lanes of a vector.    *)
(***************************************************************************)
Chunk == [Lanes -> Bytes]

LEMMA Constants ==
    /\ LANES \in Nat \ {0, 1} /\ NIB \in Nat \ {0, 1}
    /\ (NIB \div 2) \in Nat \ {0} /\ NIB = 2 * (NIB \div 2)
    /\ NIB * NIB \in Nat /\ TOP \in Nat /\ TOP = (NIB \div 2) * NIB /\ NIB <= TOP
<1> DEFINE h == NIB \div 2
<1>1. LANES \in Nat \ {0, 1} /\ NIB \in Nat \ {0} /\ NIB % 2 = 0
      BY VectorAssumption
<1>2. h \in Nat /\ NIB = 2 * h
      <2>1. NIB \in Nat /\ NIB = (NIB \div 2) * 2 + (NIB % 2) /\ NIB \div 2 \in Nat
            BY <1>1, Divides
      <2>2. QED  BY <1>1, <2>1
<1> HIDE DEF h
<1>3. h \in Nat \ {0} /\ NIB # 1
      BY <1>1, <1>2
<1>4. h * NIB \in Nat /\ NIB * NIB = 2 * (h * NIB)
      BY <1>1, <1>2
<1>5. TOP = h * NIB
      BY <1>4 DEF TOP
<1>6. NIB <= h * NIB
      <2>1. 1 * NIB <= h * NIB
            BY <1>1, <1>3, TimesMonotone
      <2>2. QED  BY <1>1, <2>1
<1>7. QED  BY <1>1, <1>2, <1>3, <1>4, <1>5, <1>6 DEF h

LEMMA NibblesOf ==
    ASSUME NEW b \in Bytes
    PROVE  /\ b \in Nat /\ b % NIB \in 0..NIB-1 /\ b \div NIB \in 0..NIB-1
           /\ b = (b \div NIB) * NIB + (b % NIB)
<1>1. NIB \in Nat \ {0} /\ b \in Nat /\ b < NIB * NIB
      BY Constants DEF Bytes
<1>2. b \div NIB \in Nat /\ b % NIB \in 0..NIB-1 /\ b = (b \div NIB) * NIB + (b % NIB)
      BY <1>1, Divides
<1>3. ~(NIB <= b \div NIB)
      <2>1. SUFFICES ASSUME NIB <= b \div NIB PROVE FALSE
            OBVIOUS
      <2>2. NIB * NIB <= (b \div NIB) * NIB
            BY <1>1, <1>2, <2>1, TimesMonotone
      <2>3. (b \div NIB) * NIB \in Nat
            BY <1>1, <1>2
      <2>4. QED  BY <1>1, <1>2, <2>2, <2>3, Constants
<1>4. QED  BY <1>1, <1>2, <1>3

\* A remainder by a multiple of n has the same remainder by n.
LEMMA ModOfMod ==
    ASSUME NEW a \in Nat, NEW k \in Nat \ {0}, NEW n \in Nat \ {0}
    PROVE  (a % (k * n)) % n = a % n
<1> DEFINE kn == k * n
           e == a \div kn
           y == a % kn
           f == y \div n
           g == y % n
<1>1. kn \in Nat \ {0}
      <2>1. 1 * n <= k * n /\ k * n \in Int
            BY TimesMonotone
      <2>2. QED  BY <2>1
<1>2. e \in Nat /\ y \in Nat /\ a = e * kn + y
      <2> HIDE DEF kn
      <2>1. QED  BY <1>1, Divides
<1>3. f \in Nat /\ g \in 0..n-1 /\ y = f * n + g
      <2> HIDE DEF y
      <2>1. QED  BY <1>2, Divides
<1> HIDE DEF e, y, f, g
<1>4. a = e * (k * n) + (f * n + g)
      BY <1>2, <1>3
<1>5. PICK u \in Nat : a = u * n + g
      <2> DEFINE x == e * k
      <2>1. e * (k * n) = x * n /\ x \in Nat
            BY <1>2
      <2> HIDE DEF x
      <2>2. (x + f) * n = x * n + f * n /\ x + f \in Nat
            BY <1>3, <2>1
      <2> DEFINE w == x * n
                 z == f * n
      <2>3. w \in Nat /\ z \in Nat /\ g \in Nat /\ a = w + (z + g) /\ (x + f) * n = w + z
            BY <1>3, <1>4, <2>1, <2>2
      <2> HIDE DEF w, z
      <2>4. a = (w + z) + g
            BY <2>3
      <2>5. a = (x + f) * n + g /\ x + f \in Nat
            BY <2>2, <2>3, <2>4, Zenon
      <2>6. QED  BY <2>5, Zenon
<1>6. a % n = g
      <2>1. g \in Nat /\ n \in Nat /\ g < n
            BY <1>3
      <2>2. (u * n + g) % n = g
            BY <1>5, <2>1, DividesOnce
      <2>3. QED  BY <1>5, <2>2, Zenon
<1>7. QED  BY <1>6 DEF g, y

\* The lanes of the shuffled vectors: the low nibble, the high nibble, the
\* high nibble without its top bit, and what the top bit lets pass.
LEMMA LowLane ==
    ASSUME NEW v \in Chunk, NEW i \in Lanes, NEW table
    PROVE  Pshufb(table, Low4(v))[i] = table[v[i] % NIB]
<1>1. v[i] % NIB \in 0..NIB-1 /\ NIB \in Nat /\ TOP \in Nat /\ NIB <= TOP
      BY NibblesOf, Constants DEF Chunk
<1>2. Low4(v)[i] = v[i] % NIB
      BY DEF Low4
<1>3. (v[i] % NIB) % NIB = v[i] % NIB /\ ~(v[i] % NIB >= TOP)
      <2> DEFINE r == v[i] % NIB
      <2>1. r \in Nat /\ r < NIB /\ r < TOP
            BY <1>1
      <2> HIDE DEF r
      <2>2. (0 * NIB + r) % NIB = r /\ 0 * NIB + r = r
            BY <1>1, <2>1, DividesOnce
      <2>3. QED  BY <1>1, <2>1, <2>2 DEF r
<1>4. QED  BY <1>2, <1>3 DEF Pshufb

\* A word shift by a nibble, modulo a nibble: the neighbour is not seen.
LEMMA HighLane ==
    ASSUME NEW v \in Chunk, NEW i \in Lanes
    PROVE  /\ ShrByNibble(v)[i] \in Nat
           /\ ShrByNibble(v)[i] % NIB = v[i] \div NIB
<1> DEFINE q == IF (i + 1) % WORD = 0 \/ i = LANES - 1 THEN 0 ELSE v[i + 1] % NIB
           h == v[i] \div NIB
<1>1. NIB \in Nat \ {0} /\ LANES \in Nat
      BY Constants
<1>2. h \in 0..NIB-1
      BY NibblesOf DEF Chunk
<1>3. q \in Nat
      <2>1. CASE (i + 1) % WORD = 0 \/ i = LANES - 1
            BY <2>1
      <2>2. CASE ~((i + 1) % WORD = 0 \/ i = LANES - 1)
            <3>1. i + 1 \in Lanes
                  BY <1>1, <2>2 DEF Lanes
            <3>2. v[i + 1] % NIB \in 0..NIB-1
                  BY <3>1, NibblesOf DEF Chunk
            <3>3. QED  BY <1>1, <2>2, <3>2
      <2>3. QED  BY <2>1, <2>2
<1>4. ShrByNibble(v)[i] = h + q * NIB
      BY <1>1 DEF ShrByNibble
<1> HIDE DEF q, h
<1>5. q * NIB \in Nat /\ h \in Nat /\ h < NIB /\ h + q * NIB = q * NIB + h
      BY <1>1, <1>2, <1>3
<1>6. (q * NIB + h) % NIB = h
      BY <1>1, <1>3, <1>5, DividesOnce
<1>7. QED  BY <1>4, <1>5, <1>6 DEF h

LEMMA HighTableLane ==
    ASSUME NEW v \in Chunk, NEW i \in Lanes, NEW table
    PROVE  Pshufb(table, Low4(ShrByNibble(v)))[i] = table[v[i] \div NIB]
<1> DEFINE h == v[i] \div NIB
<1>1. h \in 0..NIB-1 /\ NIB \in Nat \ {0} /\ TOP \in Nat /\ NIB <= TOP
      BY NibblesOf, Constants DEF Chunk
<1>2. Low4(ShrByNibble(v))[i] = h
      BY HighLane DEF Low4
<1> HIDE DEF h
<1>3. h % NIB = h /\ ~(h >= TOP)
      <2>1. h \in Nat /\ h < NIB /\ 0 * NIB + h = h
            BY <1>1
      <2>2. (0 * NIB + h) % NIB = h
            BY <1>1, <2>1, DividesOnce
      <2>3. QED  BY <1>1, <2>1, <2>2
<1>4. QED  BY <1>2, <1>3 DEF Pshufb, h

LEMMA TopLane ==
    ASSUME NEW v \in Chunk, NEW i \in Lanes, NEW table
    PROVE  /\ Pshufb(table, v)[i] = IF v[i] < TOP THEN table[v[i] % NIB] ELSE {}
           /\ Pshufb(table, XorTop(v))[i] = IF v[i] < TOP THEN {} ELSE table[v[i] % NIB]
           /\ (\A n \in 0..NIB-1 : table[n] = {n % (NIB \div 2)}) =>
                  Pshufb(table, AndNotTop(ShrByNibble(v)))[i] = {(v[i] \div NIB) % (NIB \div 2)}
<1> DEFINE b == v[i]
           k == NIB \div 2
<1>1. /\ b \in Bytes /\ b \in Nat /\ b \div NIB \in 0..NIB-1 /\ b % NIB \in 0..NIB-1
      /\ b = (b \div NIB) * NIB + (b % NIB)
      BY NibblesOf DEF Chunk
<1>2. NIB \in Nat \ {0, 1} /\ k \in Nat \ {0} /\ TOP \in Nat \ {0} /\ TOP = k * NIB
      BY Constants
<1>3. Pshufb(table, v)[i] = IF b < TOP THEN table[b % NIB] ELSE {}
      BY <1>1, <1>2 DEF Pshufb
<1>4. Pshufb(table, XorTop(v))[i] = IF b < TOP THEN {} ELSE table[b % NIB]
      <2>1. XorTop(v)[i] = IF b >= TOP THEN b - TOP ELSE b + TOP
            BY DEF XorTop
      <2>2. CASE b < TOP
            BY <1>1, <1>2, <2>1, <2>2 DEF Pshufb
      <2>3. CASE ~(b < TOP)
            <3>1. b - TOP \in Nat /\ b < 2 * TOP
                  <4>1. b < NIB * NIB /\ NIB * NIB = 2 * TOP
                        <5>1. NIB * NIB = 2 * (k * NIB) /\ NIB * NIB \in Nat
                              BY <1>2, Constants
                        <5>2. QED  BY <1>1, <1>2, <5>1 DEF Bytes
                  <4>2. b \in Nat /\ TOP \in Nat
                        BY <1>1, <1>2
                  <4>3. b < 2 * TOP
                        BY <4>1
                  <4> HIDE DEF b
                  <4>4. QED  BY <2>3, <4>2, <4>3
            <3>2. (b - TOP) % NIB = b % NIB
                  <4> DEFINE a == b - TOP
                             e == a \div NIB
                             r == a % NIB
                  <4>1. a \in Nat /\ b = TOP + a
                        BY <1>1, <1>2, <3>1
                  <4>2. e \in Nat /\ r \in 0..NIB-1 /\ a = e * NIB + r
                        <5> HIDE DEF a
                        <5>1. QED  BY <1>2, <4>1, Divides
                  <4> HIDE DEF a, e, r, b, k
                  <4>3. b = (k + e) * NIB + r /\ k + e \in Nat
                        <5> DEFINE x == k * NIB
                                   y == e * NIB
                        <5>1. (k + e) * NIB = x + y /\ k + e \in Nat
                              BY <1>2, <4>2
                        <5>2. x \in Nat /\ y \in Nat /\ TOP = x /\ a = y + r /\ b = TOP + a /\ r \in Nat
                              BY <1>2, <4>1, <4>2
                        <5> HIDE DEF x, y
                        <5>3. b = (x + y) + r
                              BY <5>2
                        <5>4. QED  BY <5>1, <5>3
                  <4>4. b % NIB = r
                        BY <1>2, <4>2, <4>3, DividesOnce
                  <4>5. QED  BY <4>4 DEF r, a
            <3>3. XorTop(v)[i] = b - TOP /\ ~(b - TOP >= TOP)
                  BY <1>1, <1>2, <2>1, <2>3, <3>1
            <3>4. QED  BY <2>3, <3>2, <3>3 DEF Pshufb
      <2>4. QED  BY <2>2, <2>3
<1>5. ASSUME \A n \in 0..NIB-1 : table[n] = {n % (NIB \div 2)}
      PROVE  Pshufb(table, AndNotTop(ShrByNibble(v)))[i] = {(b \div NIB) % (NIB \div 2)}
      <2> DEFINE s == ShrByNibble(v)[i]
      <2>1. s \in Nat /\ s % NIB = b \div NIB
            BY HighLane
      <2>2. AndNotTop(ShrByNibble(v))[i] = s % TOP
            BY DEF AndNotTop
      <2> HIDE DEF s, b
      <2>3. s % TOP \in 0..TOP-1
            BY <1>2, <2>1, Divides
      <2>4. (s % TOP) % NIB = b \div NIB
            <3>1. (s % (k * NIB)) % NIB = s % NIB
                  <4> HIDE DEF k
                  <4>1. s \in Nat /\ k \in Nat \ {0} /\ NIB \in Nat \ {0}
                        BY <1>2, <2>1
                  <4>2. QED  BY <4>1, ModOfMod, Zenon
            <3>2. QED  BY <1>2, <2>1, <3>1
      <2>5. ~(s % TOP >= TOP)
            BY <1>2, <2>3
      <2>6. Pshufb(table, AndNotTop(ShrByNibble(v)))[i] = table[b \div NIB]
            BY <2>2, <2>4, <2>5 DEF Pshufb
      <2>7. QED  BY <1>1, <1>5, <2>6
<1>6. QED  BY <1>3, <1>4, <1>5
-----------------------------------------------------------------------------
(***************************************************************************)
(* Masks: the set of lanes that a mask stands for, whatever the stride.    *)
(***************************************************************************)
\* The bits of a lane.
LEMMA BitOfLane ==
    ASSUME NEW st \in Nat \ {0}
    PROVE  /\ \A b \in 0..st * LANES - 1 : b \in Nat /\ b \div st \in Lanes
           /\ \A i \in Lanes : i * st \in 0..st * LANES - 1 /\ (i * st) \div st = i
<1>1. LANES \in Nat \ {0, 1} /\ st * LANES \in Nat /\ st * LANES = LANES * st
      BY Constants
<1>2. ASSUME NEW b \in 0..st * LANES - 1
      PROVE  b \in Nat /\ b \div st \in Lanes
      <2> DEFINE q == b \div st
                 r == b % st
      <2>1. b \in Nat /\ b < LANES * st
            BY <1>1
      <2>2. q \in Nat /\ r \in 0..st-1 /\ b = q * st + r
            BY <2>1, Divides
      <2> HIDE DEF q, r
      <2>3. ~(LANES <= q)
            <3>1. LANES <= q => LANES * st <= q * st
                  BY <1>1, <2>2, TimesMonotone
            <3>2. q * st \in Nat /\ r \in Nat /\ LANES * st \in Nat
                  BY <1>1, <2>2
            <3>3. QED  BY <2>1, <2>2, <3>1, <3>2
      <2>4. QED  BY <1>1, <2>1, <2>2, <2>3 DEF Lanes, q
<1>3. ASSUME NEW i \in Lanes
      PROVE  i * st \in 0..st * LANES - 1 /\ (i * st) \div st = i
      <2>1. i \in Nat /\ i + 1 <= LANES
            BY <1>1 DEF Lanes
      <2>2. (i + 1) * st <= LANES * st /\ (i + 1) * st = i * st + st /\ i * st \in Nat
            BY <1>1, <2>1, TimesMonotone
      <2>3. i * st + 0 = i * st /\ (i * st + 0) \div st = i
            BY <2>1, <2>2, DividesOnce
      <2>4. i * st <= st * LANES - 1
            BY <1>1, <2>2
      <2>5. QED  BY <1>1, <2>2, <2>3, <2>4
<1>4. QED  BY <1>2, <1>3

LEMMA MaskInverted ==
    ASSUME NEW st \in Nat \ {0}, NEW S \in SUBSET Lanes
    PROVE  InvertWithin(MaskOf(S, st), st) = MaskOf(Lanes \ S, st)
BY BitOfLane DEF InvertWithin, MaskOf

LEMMA MaskEmpty ==
    ASSUME NEW st \in Nat \ {0}, NEW S \in SUBSET Lanes
    PROVE  MaskOf(S, st) = {} <=> S = {}
BY BitOfLane DEF MaskOf

\* The first bit of a mask is in its first lane ...
LEMMA FirstLane ==
    ASSUME NEW st \in Nat \ {0}, NEW S \in SUBSET Lanes, MaskOf(S, st) # {}
    PROVE  First(MaskOf(S, st), st) \in S /\ \A j \in S : First(MaskOf(S, st), st) <= j
<1> DEFINE m == MaskOf(S, st)
           b == Min(m)
           q == b \div st
           r == b % st
<1>1. m \subseteq Nat /\ \A x \in m : x \div st \in S
      BY BitOfLane DEF MaskOf
<1>2. b \in m /\ \A y \in m : b <= y
      <2>1. \E x \in m : \A y \in m : x <= y
            BY <1>1, LeastExists
      <2>2. QED  BY <2>1 DEF Min
<1>3. q \in S /\ b \in Nat
      BY <1>1, <1>2
<1>4. \A j \in S : j * st \in m
      BY BitOfLane DEF MaskOf
<1> HIDE DEF b
<1>5. q \in Nat /\ r \in 0..st-1 /\ b = q * st + r
      BY <1>3, Divides
<1> HIDE DEF m, q, r
<1>6. ASSUME NEW j \in S PROVE q <= j
      <2>1. j \in Nat /\ j * st \in Nat /\ q * st \in Nat /\ r \in Nat
            BY <1>5, Constants DEF Lanes
      <2>2. q * st + r <= j * st
            BY <1>2, <1>4, <1>5
      <2>3. j + 1 <= q => j * st + st <= q * st
            <3>1. (j + 1) * st = j * st + st
                  BY <2>1
            <3>2. j + 1 <= q => (j + 1) * st <= q * st
                  BY <1>5, <2>1, TimesMonotone
            <3>3. QED  BY <3>1, <3>2
      <2>4. QED  BY <1>5, <2>1, <2>2, <2>3
<1>7. First(m, st) = q
      BY DEF First, q, b
<1>8. QED  BY <1>3, <1>6, <1>7 DEF m

\* ... and the last bit in its last lane.
LEMMA LastLane ==
    ASSUME NEW st \in Nat \ {0}, NEW S \in SUBSET Lanes, MaskOf(S, st) # {}
    PROVE  Last(MaskOf(S, st), st) \in S /\ \A j \in S : j <= Last(MaskOf(S, st), st)
<1> DEFINE m == MaskOf(S, st)
           b == Max(m)
           q == b \div st
           r == b % st
<1>1. m \subseteq Nat /\ m # {} /\ \A x \in m : x \div st \in S
      BY BitOfLane DEF MaskOf
<1>2. b \in m /\ \A y \in m : b >= y
      <2>1. \A y \in m : y <= st * LANES
            BY Constants DEF MaskOf
      <2>2. st * LANES \in Nat
            BY Constants
      <2>3. \E x \in m : \A y \in m : x >= y
            <3> DEFINE n == st * LANES
            <3>1. n \in Nat /\ \A y \in m : y <= n
                  BY <2>1, <2>2
            <3> HIDE DEF m, n
            <3>2. QED  BY <1>1, <3>1, GreatestExists
      <2>4. QED  BY <2>3 DEF Max
<1>3. q \in S /\ b \in Nat
      BY <1>1, <1>2
<1>4. \A j \in S : j * st \in m
      BY BitOfLane DEF MaskOf
<1> HIDE DEF b
<1>5. q \in Nat /\ r \in 0..st-1 /\ b = q * st + r
      BY <1>3, Divides
<1> HIDE DEF m, q, r
<1>6. ASSUME NEW j \in S PROVE j <= q
      <2>1. j \in Nat /\ j * st \in Nat /\ q * st \in Nat /\ r \in Nat /\ r < st
            BY <1>5, Constants DEF Lanes
      <2>2. j * st <= q * st + r
            BY <1>2, <1>4, <1>5
      <2>3. q + 1 <= j => q * st + st <= j * st
            <3>1. (q + 1) * st = q * st + st
                  BY <1>5
            <3>2. q + 1 <= j => (q + 1) * st <= j * st
                  BY <1>5, <2>1, TimesMonotone
            <3>3. QED  BY <3>1, <3>2
      <2>4. QED  BY <1>5, <2>1, <2>2, <2>3
<1>7. Last(m, st) = q
      BY DEF Last, q, b
<1>8. QED  BY <1>3, <1>6, <1>7 DEF m
-----------------------------------------------------------------------------
(***************************************************************************)
(* The predicates of a vector: which lanes their masks name.               *)
(***************************************************************************)
LEMMA KernelOps ==
    ASSUME kernel \in Kernels
    PROVE  /\ kernel.op \in {"shufti", "truffle", "verm", "nverm", "double"}
           /\ Pairs => {"lo1", "hi1", "lo2", "hi2"} \subseteq DOMAIN kernel
<1>1. kernel.op = "double" => kernel \in KernelsOf("double", {"lo1", "hi1", "lo2", "hi2"})
      BY AccelAssumption DEF KernelsOf
<1>2. kernel.op \in {"shufti", "truffle", "verm", "nverm", "double"}
      BY AccelAssumption DEF KernelsOf
<1>3. QED  BY <1>1, <1>2 DEF KernelsOf, Pairs

LEMMA StrideType == stride \in Strides => stride \in Nat \ {0}
BY AccelAssumption

\* A search for one byte: the mask names the lanes of the class.
LEMMA BlockMask ==
    ASSUME kernel \in Kernels, ~Pairs, stride \in Strides, NEW v \in Chunk
    PROVE  Block(v) = MaskOf({i \in Lanes : InClass(v[i])}, stride)
<1> DEFINE S == {i \in Lanes : InClass(v[i])}
<1>1. stride \in Nat \ {0}
      BY StrideType
<1>2. kernel.op \in {"shufti", "truffle", "verm", "nverm"}
      BY KernelOps DEF Pairs
<1>3. ASSUME NEW w, \A i \in Lanes : w[i] = {} <=> ~InClass(v[i])
      PROVE  NonzeroMask(w, stride) = MaskOf(S, stride)
      <2> DEFINE Z == {i \in Lanes : w[i] = {}}
      <2>1. Z \in SUBSET Lanes /\ Lanes \ Z = S
            BY <1>3
      <2> HIDE DEF Z, S
      <2>2. InvertWithin(MaskOf(Z, stride), stride) = MaskOf(S, stride)
            BY <1>1, <2>1, MaskInverted
      <2>3. QED  BY <2>2 DEF NonzeroMask, Z
<1>4. CASE kernel.op = "shufti"
      <2> DEFINE w == VecAnd(Pshufb(kernel.lo, Low4(v)), Pshufb(kernel.hi, Low4(ShrByNibble(v))))
      <2>1. ASSUME NEW i \in Lanes
            PROVE  w[i] = {} <=> ~InClass(v[i])
            <3>1. w[i] = kernel.lo[v[i] % NIB] \cap kernel.hi[v[i] \div NIB]
                  BY LowLane, HighTableLane DEF VecAnd
            <3>2. InClass(v[i]) <=> kernel.lo[v[i] % NIB] \cap kernel.hi[v[i] \div NIB] # {}
                  BY <1>4 DEF InClass
            <3> HIDE DEF w
            <3>3. QED  BY <3>1, <3>2
      <2>2. Block(v) = NonzeroMask(w, stride)
            BY <1>4 DEF Block, BlockShufti
      <2> HIDE DEF w, S
      <2>3. QED  BY <1>3, <2>1, <2>2 DEF S
<1>5. CASE kernel.op = "truffle"
      <2> DEFINE bits == [n \in 0..NIB-1 |-> {n % (NIB \div 2)}]
                 x == Pshufb(kernel.clear, v)
                 y == Pshufb(kernel.set, XorTop(v))
                 z == Pshufb(bits, AndNotTop(ShrByNibble(v)))
                 w == VecAnd(VecOr(x, y), z)
      <2>1. ASSUME NEW i \in Lanes
            PROVE  w[i] = {} <=> ~InClass(v[i])
            <3> DEFINE t == IF v[i] < TOP THEN kernel.clear[v[i] % NIB] ELSE kernel.set[v[i] % NIB]
                       h == (v[i] \div NIB) % (NIB \div 2)
            <3>1. x[i] = IF v[i] < TOP THEN kernel.clear[v[i] % NIB] ELSE {}
                  BY TopLane
            <3>2. y[i] = IF v[i] < TOP THEN {} ELSE kernel.set[v[i] % NIB]
                  BY TopLane
            <3>3. z[i] = {h}
                  <4>1. \A n \in 0..NIB-1 : bits[n] = {n % (NIB \div 2)}
                        OBVIOUS
                  <4> HIDE DEF bits
                  <4>2. QED  BY <4>1, TopLane
            <3>4. w[i] = (x[i] \cup y[i]) \cap z[i]
                  BY DEF VecAnd, VecOr
            <3>5. InClass(v[i]) <=> h \in t
                  BY <1>5 DEF InClass
            <3> HIDE DEF x, y, z, w, h
            <3>6. x[i] \cup y[i] = t
                  BY <3>1, <3>2
            <3> HIDE DEF t
            <3>7. QED  BY <3>3, <3>4, <3>5, <3>6
      <2>2. Block(v) = NonzeroMask(w, stride)
            BY <1>5 DEF Block, BlockTruffle
      <2> HIDE DEF w, S
      <2>3. QED  BY <1>3, <2>1, <2>2 DEF S
<1>6. \A i \in Lanes : CaseCleared(v)[i] = ClearCase(v[i]) /\ Splat[i] = ClearCase(kernel.c)
      BY DEF CaseCleared, Splat
<1>7. CASE kernel.op = "verm"
      <2>1. {i \in Lanes : CaseCleared(v)[i] = Splat[i]} = S
            BY <1>6, <1>7 DEF InClass
      <2>2. QED  BY <1>7, <2>1 DEF Block, EqMask
<1>8. CASE kernel.op = "nverm"
      <2> DEFINE E == {i \in Lanes : CaseCleared(v)[i] = Splat[i]}
      <2>1. E \in SUBSET Lanes /\ Lanes \ E = S
            BY <1>6, <1>8 DEF InClass
      <2>2. Block(v) = InvertWithin(MaskOf(E, stride), stride)
            BY <1>8 DEF Block, NeqMask, EqMask
      <2> HIDE DEF E, S
      <2>3. QED  BY <1>1, <2>1, <2>2, MaskInverted DEF S
<1>9. QED  BY <1>2, <1>4, <1>5, <1>7, <1>8

\* The buckets that a byte cannot begin, or end, a pair of.
FL(b) == kernel.lo1[b % NIB] \cup kernel.hi1[b \div NIB]
SL(b) == kernel.lo2[b % NIB] \cup kernel.hi2[b \div NIB]

LEMMA PairOf ==
    ASSUME kernel \in Kernels, Pairs, NEW b \in Bytes, NEW c \in Bytes
    PROVE  /\ FL(b) \subseteq BITS /\ SL(c) \subseteq BITS
           /\ FL(b) \cup SL(c) # BITS <=> Begins(b) \cap Ends(c) # {}
           /\ FL(b) # BITS <=> Begins(b) # {}
<1>1. /\ kernel.lo1 \in TableOf(SUBSET BITS) /\ kernel.hi1 \in TableOf(SUBSET BITS)
      /\ kernel.lo2 \in TableOf(SUBSET BITS) /\ kernel.hi2 \in TableOf(SUBSET BITS)
      BY KernelOps, AccelAssumption DEF TableFields
<1>2. /\ b % NIB \in 0..NIB-1 /\ b \div NIB \in 0..NIB-1
      /\ c % NIB \in 0..NIB-1 /\ c \div NIB \in 0..NIB-1
      BY NibblesOf
<1>3. FL(b) \subseteq BITS /\ SL(c) \subseteq BITS
      BY <1>1, <1>2 DEF FL, SL, TableOf
<1>4. Begins(b) = BITS \ FL(b) /\ Ends(c) = BITS \ SL(c)
      BY DEF Begins, Ends, FL, SL
<1>5. QED  BY <1>3, <1>4

\* A search for pairs: the lanes whose byte ends a pair that the byte before
\* it, or the carried one, begins.
Before(carried, v, i) == IF i = 0 THEN carried[LANES - 1] ELSE FL(v[i - 1])
PairLanes(carried, v) == {i \in Lanes : Before(carried, v, i) \cup SL(v[i]) # BITS}

LEMMA FirstOfLane ==
    ASSUME NEW v \in Chunk, NEW i \in Lanes
    PROVE  FirstOf(v)[i] = FL(v[i])
BY LowLane, HighTableLane DEF FirstOf, Nibbles, VecOr, FL

LEMMA DoubleMask ==
    ASSUME stride \in Strides, NEW v \in Chunk, NEW carried
    PROVE  BlockShuftiDouble(carried, v) = MaskOf(PairLanes(carried, v), stride)
<1> DEFINE c2 == Nibbles(kernel.lo2, kernel.hi2, v)
           w == VecOr(Alignr15(FirstOf(v), carried), c2)
           E == {i \in Lanes : w[i] = Ones[i]}
<1>1. ASSUME NEW i \in Lanes
      PROVE  w[i] = Before(carried, v, i) \cup SL(v[i]) /\ Ones[i] = BITS
      <2>1. c2[i] = SL(v[i])
            BY LowLane, HighTableLane DEF Nibbles, VecOr, SL
      <2>2. Alignr15(FirstOf(v), carried)[i] = Before(carried, v, i)
            <3>1. i # 0 => i - 1 \in Lanes
                  BY Constants DEF Lanes
            <3>2. QED  BY <3>1, FirstOfLane DEF Alignr15, Before
      <2> HIDE DEF c2
      <2>3. QED  BY <2>1, <2>2 DEF VecOr, Ones
<1>2. E \in SUBSET Lanes /\ Lanes \ E = PairLanes(carried, v)
      <2> HIDE DEF w
      <2>1. QED  BY <1>1 DEF PairLanes
<1>3. BlockShuftiDouble(carried, v) = InvertWithin(MaskOf(E, stride), stride)
      BY DEF BlockShuftiDouble, NeqMask, EqMask
<1> HIDE DEF E
<1>4. QED  BY <1>2, <1>3, MaskInverted, StrideType
-----------------------------------------------------------------------------
(***************************************************************************)
(* Searches of one vector.                                                 *)
(***************************************************************************)
LEMMA CharsLanes ==
    ASSUME LoadInv, NEW p \in Nat
    PROVE  /\ Chars(p) \in Chunk
           /\ \A i \in Lanes : p + i < BufLen => Chars(p)[i] = buf[p + i + 1]
<1>1. buf \in Seq(Bytes) /\ BufLen \in Nat /\ LANES \in Nat
      BY LoadTypes, AccelAssumption DEF LoadInv
<1>2. 0 \in Bytes
      BY Constants DEF Bytes
<1>3. ASSUME NEW i \in Lanes
      PROVE  /\ i \in Nat
             /\ p + i < BufLen => Chars(p)[i] = buf[p + i + 1]
             /\ p + i < BufLen => buf[p + i + 1] \in Bytes
             /\ ~(p + i < BufLen) => Chars(p)[i] = 0
      BY <1>1 DEF Chars, BufLen, Lanes
<1>4. Chars(p) \in Chunk
      <2>1. \A i \in Lanes : Chars(p)[i] \in Bytes
            BY <1>2, <1>3
      <2>2. QED  BY <2>1 DEF Chunk, Chars
<1>5. QED  BY <1>3, <1>4

\* The least and the greatest element of a set are what Min and Max choose.
LEMMA MinIs ==
    ASSUME NEW S \in SUBSET Int, NEW x \in S, \A y \in S : x <= y
    PROVE  Min(S) = x
<1>1. \A z \in S : (\A y \in S : z <= y) => z = x
      OBVIOUS
<1>2. QED  BY <1>1 DEF Min

LEMMA MaxIs ==
    ASSUME NEW S \in SUBSET Int, NEW x \in S, \A y \in S : y <= x
    PROVE  Max(S) = x
<1>1. \A z \in S : (\A y \in S : z >= y) => z = x
      OBVIOUS
<1>2. QED  BY <1>1 DEF Max

Clear(lo, hi) == \A p \in lo..hi : ~InClass(buf[p + 1])

\* The mask of a vector inside the buffer: empty if no byte of it is in the
\* class; else its ends are the first and the last that are.
LEMMA VectorMask ==
    ASSUME LoadInv, stride \in Strides, ~Pairs, NEW p \in Nat, p + LANES <= BufLen
    PROVE  LET m == Block(Chars(p))
               f == First(m, stride)
               g == Last(m, stride)
           IN  /\ m = {} => Clear(p, p + LANES - 1)
               /\ m # {} => /\ f \in Lanes /\ InClass(buf[p + f + 1]) /\ Clear(p, p + f - 1)
                            /\ g \in Lanes /\ InClass(buf[p + g + 1])
                            /\ Clear(p + g + 1, p + LANES - 1)
<1> DEFINE v == Chars(p)
           S == {i \in Lanes : InClass(v[i])}
           m == Block(v)
           f == First(m, stride)
           g == Last(m, stride)
<1>1. LANES \in Nat /\ BufLen \in Nat /\ stride \in Nat \ {0} /\ S \in SUBSET Lanes
      BY LoadTypes, StrideType
<1>2. v \in Chunk /\ \A i \in Lanes : v[i] = buf[p + i + 1]
      <2>1. \A i \in Lanes : p + i < BufLen
            BY <1>1 DEF Lanes
      <2>2. QED  BY <2>1, CharsLanes
<1> HIDE DEF v
<1>3. m = MaskOf(S, stride)
      BY <1>2, BlockMask DEF LoadInv
<1>4. \A i \in Lanes : i \in S <=> InClass(buf[p + i + 1])
      BY <1>2
<1> HIDE DEF S, m
<1>5. ASSUME NEW q \in Int, p <= q, q < p + LANES
      PROVE  q - p \in Lanes /\ p + (q - p) + 1 = q + 1
      BY <1>1, <1>5 DEF Lanes
<1>6. ASSUME m = {} PROVE Clear(p, p + LANES - 1)
      <2>1. S = {}
            BY <1>1, <1>3, <1>6, MaskEmpty
      <2>2. QED  BY <1>1, <1>4, <1>5, <2>1 DEF Clear
<1>7. ASSUME m # {}
      PROVE  /\ f \in Lanes /\ InClass(buf[p + f + 1]) /\ Clear(p, p + f - 1)
             /\ g \in Lanes /\ InClass(buf[p + g + 1]) /\ Clear(p + g + 1, p + LANES - 1)
      <2>1. f \in S /\ \A j \in S : f <= j
            BY <1>1, <1>3, <1>7, FirstLane
      <2>2. g \in S /\ \A j \in S : j <= g
            BY <1>1, <1>3, <1>7, LastLane
      <2> HIDE DEF f, g
      <2>3. f \in Lanes /\ g \in Lanes
            BY <1>1, <2>1, <2>2
      <2>4. ASSUME NEW q \in p..p + f - 1 PROVE ~InClass(buf[q + 1])
            <3>1. q - p \in Lanes /\ p + (q - p) + 1 = q + 1 /\ q - p < f
                  BY <1>1, <1>5, <2>3 DEF Lanes
            <3>2. q - p \notin S
                  BY <2>1, <2>3, <3>1 DEF Lanes
            <3>3. QED  BY <1>4, <3>1, <3>2
      <2>5. ASSUME NEW q \in p + g + 1..p + LANES - 1 PROVE ~InClass(buf[q + 1])
            <3>1. q - p \in Lanes /\ p + (q - p) + 1 = q + 1 /\ q - p > g
                  BY <1>1, <1>5, <2>3 DEF Lanes
            <3>2. q - p \notin S
                  BY <2>2, <2>3, <3>1 DEF Lanes
            <3>3. QED  BY <1>4, <3>1, <3>2
      <2>6. QED  BY <1>4, <2>1, <2>2, <2>3, <2>4, <2>5 DEF Clear
<1>8. QED  BY <1>6, <1>7 DEF m, v, f, g

\* With what was left behind, the reference has the same answer.
LEMMA IsPosition ==
    ASSUME LoadInv, NEW q \in 0..BufLen-1, InClass(buf[q + 1])
    PROVE  /\ Clear(0, q - 1) => Position = q
           /\ Clear(q + 1, BufLen - 1) => RPosition = q
<1>1. BufLen \in Nat /\ q \in Matches /\ Matches \in SUBSET Int
      BY LoadTypes DEF Matches
<1>2. ASSUME Clear(0, q - 1) PROVE Position = q
      <2>1. \A y \in Matches : q <= y
            BY <1>1, <1>2 DEF Matches, Clear
      <2>2. QED  BY <1>1, <2>1, MinIs DEF Position
<1>3. ASSUME Clear(q + 1, BufLen - 1) PROVE RPosition = q
      <2>1. \A y \in Matches : y <= q
            BY <1>1, <1>3 DEF Matches, Clear
      <2>2. QED  BY <1>1, <2>1, MaxIs DEF RPosition
<1>4. QED  BY <1>2, <1>3

LEMMA NoPosition == Clear(0, BufLen - 1) => Position = NoMatch /\ RPosition = NoMatch
BY DEF Clear, Matches, Position, RPosition
-----------------------------------------------------------------------------
(***************************************************************************)
(* The same for pairs.  carried shows the byte before the vector, so that  *)
(* the pairs seen begin with it (q = p - 1), or nothing (q = p).           *)
(***************************************************************************)
NoPair(lo, hi) == \A p \in lo..hi : Begins(buf[p + 1]) \cap Ends(buf[p + 2]) = {}

Carries(carried, p, q) ==
    \/ q = p /\ carried[LANES - 1] = BITS
    \/ q = p - 1 /\ q \in Nat /\ carried[LANES - 1] = FL(buf[p])

LEMMA PairLane ==
    ASSUME LoadInv, Pairs, NEW p \in Nat, NEW q, NEW carried, Carries(carried, p, q),
           NEW i \in Lanes
    PROVE  /\ i \in Nat /\ i < LANES /\ q \in Nat
           /\ i \in PairLanes(carried, Chars(p)) => p + i - 1 >= q
           /\ (p + i < BufLen /\ p + i - 1 >= q) =>
                (i \in PairLanes(carried, Chars(p))
                    <=> Begins(buf[p + i]) \cap Ends(buf[p + i + 1]) # {})
<1> DEFINE v == Chars(p)
<1>1. LANES \in Nat /\ BufLen \in Nat /\ i \in Nat /\ i < LANES /\ q \in Nat
      BY LoadTypes DEF Lanes, Carries
<1>2. v \in Chunk /\ kernel \in Kernels
      BY CharsLanes DEF LoadInv
<1>3. \A j \in Lanes : p + j < BufLen => v[j] = buf[p + j + 1]
      BY CharsLanes
<1>4. buf \in Seq(Bytes) /\ \A n \in 1..BufLen : buf[n] \in Bytes
      BY AccelAssumption DEF LoadInv, BufLen
<1> HIDE DEF v
<1>5. i \in PairLanes(carried, v) <=> Before(carried, v, i) \cup SL(v[i]) # BITS
      BY DEF PairLanes
<1>6. v[i] \in Bytes
      BY <1>2 DEF Chunk
<1>7. SL(v[i]) \subseteq BITS
      BY <1>2, <1>6, PairOf
<1>8. ASSUME i \in PairLanes(carried, v) PROVE p + i - 1 >= q
      <2>1. CASE i = 0 /\ q = p
            <3>1. Before(carried, v, i) = BITS
                  BY <2>1 DEF Before, Carries
            <3>2. QED  BY <1>5, <1>7, <1>8, <3>1
      <2>2. CASE ~(i = 0 /\ q = p)
            BY <1>1, <2>2 DEF Carries
      <2>3. QED  BY <2>1, <2>2
<1>9. ASSUME p + i < BufLen, p + i - 1 >= q
      PROVE  i \in PairLanes(carried, v) <=> Begins(buf[p + i]) \cap Ends(buf[p + i + 1]) # {}
      <2>1. buf[p + i] \in Bytes /\ buf[p + i + 1] \in Bytes
            BY <1>1, <1>4, <1>9
      <2>2. v[i] = buf[p + i + 1]
            BY <1>3, <1>9
      <2>3. Before(carried, v, i) = FL(buf[p + i])
            <3>1. CASE i = 0
                  BY <1>1, <1>9, <3>1 DEF Before, Carries
            <3>2. CASE i # 0
                  <4>1. i - 1 \in Lanes /\ p + (i - 1) < BufLen /\ p + (i - 1) + 1 = p + i
                        BY <1>1, <1>9, <3>2 DEF Lanes
                  <4>2. v[i - 1] = buf[p + i]
                        BY <1>3, <4>1
                  <4>3. QED  BY <3>2, <4>2 DEF Before
            <3>3. QED  BY <3>1, <3>2
      <2>4. FL(buf[p + i]) \cup SL(buf[p + i + 1]) # BITS
                <=> Begins(buf[p + i]) \cap Ends(buf[p + i + 1]) # {}
            BY <1>2, <2>1, PairOf
      <2>5. QED  BY <1>5, <2>2, <2>3, <2>4
<1>10. QED  BY <1>1, <1>8, <1>9 DEF v

LEMMA PairMask ==
    ASSUME LoadInv, stride \in Strides, Pairs, NEW p \in Nat, NEW q, NEW carried,
           Carries(carried, p, q)
    PROVE  LET m == BlockShuftiDouble(carried, Chars(p))
               f == First(m, stride)
           IN  /\ m # {} => f \in Lanes /\ p + f - 1 >= q
               /\ m # {} /\ p + f - 1 < BufLen - 1 =>
                    NoPair(q, p + f - 2) /\ Begins(buf[p + f]) \cap Ends(buf[p + f + 1]) # {}
               /\ ~(m # {} /\ p + f - 1 < BufLen - 1) =>
                    \A n \in 0..BufLen - 2 : n + 1 < p + LANES => NoPair(q, n)
<1> DEFINE S == PairLanes(carried, Chars(p))
           m == BlockShuftiDouble(carried, Chars(p))
           f == First(m, stride)
           Seen(t) == Begins(buf[t + 1]) \cap Ends(buf[t + 2]) # {}
<1>1. /\ LANES \in Nat \ {0, 1} /\ BufLen \in Nat /\ stride \in Nat \ {0} /\ S \in SUBSET Lanes
      /\ q \in Nat /\ (q = p \/ q = p - 1)
      BY LoadTypes, StrideType DEF PairLanes, Carries
<1>2. m = MaskOf(S, stride)
      <2>1. Chars(p) \in Chunk
            BY CharsLanes
      <2>2. QED  BY <2>1, DoubleMask
<1>3. \A i \in Lanes : i \in Nat /\ i < LANES /\ (i \in S => p + i - 1 >= q)
      BY PairLane
<1>4. ASSUME NEW t \in Nat, q <= t, t < BufLen - 1, t + 1 < p + LANES
      PROVE  t + 1 - p \in Lanes /\ (Seen(t) <=> t + 1 - p \in S)
      <2> DEFINE i == t + 1 - p
      <2>1. i \in Lanes
            BY <1>1, <1>4 DEF Lanes
      <2>2. p + i = t + 1 /\ p + i + 1 = t + 2 /\ p + i < BufLen /\ p + i - 1 >= q
            BY <1>1, <1>4
      <2> HIDE DEF i, S
      <2>3. i \in S <=> Begins(buf[p + i]) \cap Ends(buf[p + i + 1]) # {}
            BY <2>1, <2>2, PairLane DEF S
      <2>4. QED  BY <2>1, <2>2, <2>3 DEF i
<1> HIDE DEF S, m, Seen
<1>5. ASSUME m # {}
      PROVE  f \in Lanes /\ f \in S /\ p + f - 1 >= q /\ \A j \in S : f <= j
      <2>1. f \in S /\ \A j \in S : f <= j
            BY <1>1, <1>2, <1>5, FirstLane
      <2> HIDE DEF f
      <2>2. QED  BY <1>1, <1>3, <2>1
<1> HIDE DEF f
<1>6. ASSUME m # {}, p + f - 1 < BufLen - 1
      PROVE  NoPair(q, p + f - 2) /\ Begins(buf[p + f]) \cap Ends(buf[p + f + 1]) # {}
      <2>1. f \in Lanes /\ f \in S /\ p + f - 1 >= q /\ f \in Nat /\ f < LANES
            BY <1>3, <1>5, <1>6
      <2>2. Begins(buf[p + f]) \cap Ends(buf[p + f + 1]) # {}
            <3>1. p + f < BufLen
                  BY <1>1, <1>6, <2>1
            <3>2. QED  BY <2>1, <3>1, PairLane DEF S
      <2>3. ASSUME NEW t \in q..p + f - 2 PROVE ~Seen(t)
            <3>1. t \in Nat /\ q <= t /\ t < BufLen - 1 /\ t + 1 < p + LANES /\ t + 1 - p < f
                  BY <1>1, <1>6, <2>1
            <3>2. t + 1 - p \in Lanes /\ (Seen(t) <=> t + 1 - p \in S)
                  BY <1>4, <3>1
            <3>3. t + 1 - p \notin S
                  BY <1>1, <1>5, <1>6, <2>1, <3>1
            <3>4. QED  BY <3>2, <3>3
      <2>4. QED  BY <2>2, <2>3 DEF NoPair, Seen
<1>7. ASSUME ~(m # {} /\ p + f - 1 < BufLen - 1), NEW n \in 0..BufLen - 2, n + 1 < p + LANES
      PROVE  NoPair(q, n)
      <2>1. ASSUME NEW t \in q..n PROVE ~Seen(t)
            <3>1. t \in Nat /\ q <= t /\ t < BufLen - 1 /\ t + 1 < p + LANES
                  BY <1>1, <1>7
            <3>2. t + 1 - p \in Lanes /\ (Seen(t) <=> t + 1 - p \in S)
                  BY <1>4, <3>1
            <3>3. t + 1 - p \notin S
                  <4>1. CASE m = {}
                        BY <1>1, <1>2, <4>1, MaskEmpty
                  <4>2. CASE m # {}
                        <5>1. f \in Nat /\ p + f - 1 >= BufLen - 1 /\ t + 1 - p < f
                              BY <1>1, <1>3, <1>5, <1>7, <3>1, <4>2
                        <5>2. QED  BY <1>1, <1>5, <3>1, <4>2, <5>1
                  <4>3. QED  BY <4>1, <4>2
            <3>4. QED  BY <3>2, <3>3
      <2>2. QED  BY <2>1 DEF NoPair, Seen
<1>8. QED  BY <1>5, <1>6, <1>7 DEF m, f

\* The pair found is the first if none was left behind ...
LEMMA IsFirstPair ==
    ASSUME LoadInv, NEW t \in 0..BufLen-2, NoPair(0, t - 1),
           Begins(buf[t + 1]) \cap Ends(buf[t + 2]) # {}
    PROVE  DoubleNaive = t
<1> DEFINE S == {p \in 0..BufLen-2 : Begins(buf[p + 1]) \cap Ends(buf[p + 2]) # {}}
<1>1. BufLen \in Nat /\ t \in S /\ S \in SUBSET Int
      BY LoadTypes
<1>2. \A y \in S : t <= y
      BY <1>1 DEF NoPair
<1>3. Min(S) = t
      <2> HIDE DEF S
      <2>1. QED  BY <1>1, <1>2, MinIs
<1>4. QED  BY <1>1, <1>3 DEF DoubleNaive

\* ... and without one the last byte decides.
LEMMA NoFirstPair ==
    ASSUME LoadInv, BufLen > 0, NoPair(0, BufLen - 2)
    PROVE  DoubleNaive = IF Begins(buf[BufLen]) # {} THEN BufLen - 1 ELSE NoMatch
<1>1. {p \in 0..BufLen-2 : Begins(buf[p + 1]) \cap Ends(buf[p + 2]) # {}} = {}
      BY DEF NoPair
<1>2. QED  BY <1>1 DEF DoubleNaive
-----------------------------------------------------------------------------
(***************************************************************************)
(* The searches.                                                           *)
(***************************************************************************)
\* The inputs stay, and with them whatever only they decide.
LEMMA InputsStay ==
    ASSUME UNCHANGED inputs
    PROVE  /\ kernel' = kernel /\ buf' = buf /\ stride' = stride
           /\ BufLen' = BufLen /\ (Pairs' <=> Pairs) /\ (Forward' <=> Forward)
           /\ Position' = Position /\ RPosition' = RPosition /\ DoubleNaive' = DoubleNaive
           /\ \A lo, hi : Clear(lo, hi)' <=> Clear(lo, hi)
           /\ \A lo, hi : NoPair(lo, hi)' <=> NoPair(lo, hi)
           /\ \A b : FL(b)' = FL(b)
<1>1. kernel' = kernel /\ buf' = buf /\ stride' = stride
      BY DEF inputs
<1>2. BufLen' = BufLen /\ (Pairs' <=> Pairs) /\ (Forward' <=> Forward)
      BY <1>1 DEF BufLen, Pairs, Forward
<1>3. \A b : InClass(b)' <=> InClass(b)
      BY <1>1 DEF InClass, ClearCase
<1>4. \A b : Begins(b)' = Begins(b) /\ Ends(b)' = Ends(b) /\ FL(b)' = FL(b)
      BY <1>1 DEF Begins, Ends, FL
<1>5. Matches' = Matches
      BY <1>1, <1>2, <1>3 DEF Matches
<1>6. Position' = Position /\ RPosition' = RPosition
      BY <1>5 DEF Position, RPosition
<1>7. DoubleNaive' = DoubleNaive
      BY <1>1, <1>2, <1>4 DEF DoubleNaive
<1>8. \A lo, hi : Clear(lo, hi)' <=> Clear(lo, hi)
      BY <1>1, <1>3 DEF Clear
<1>9. \A lo, hi : NoPair(lo, hi)' <=> NoPair(lo, hi)
      BY <1>1, <1>4 DEF NoPair
<1>10. QED  BY <1>1, <1>2, <1>4, <1>6, <1>7, <1>8, <1>9

\* A search for one byte has left behind no byte of the class, and its tail is
\* shorter than a vector.
ByteInv ==
    ~Pairs =>
        /\ at # "last"
        /\ at = "head" => d = IF Forward THEN 0 ELSE BufLen
        /\ at = "tail" => IF Forward THEN BufLen < d + LANES ELSE d < LANES
        /\ at \in {"blocks", "tail"} => IF Forward THEN Clear(0, d - 1) ELSE Clear(d, BufLen - 1)
        /\ at = "done" => result = IF Forward THEN Position ELSE RPosition

LEMMA ClearParts ==
    ASSUME NEW a \in Int, NEW b \in Int, NEW c \in Int, Clear(a, b - 1), Clear(b, c)
    PROVE  Clear(a, c)
BY DEF Clear

LEMMA ClearWithin ==
    ASSUME NEW a \in Int, NEW b \in Int, NEW c \in Int, NEW e \in Int,
           Clear(a, e), a <= b, c <= e
    PROVE  Clear(b, c)
BY DEF Clear

\* A vector at p with nothing of the class on the side where the search came
\* from: it has the answer, or it is left behind.
LEMMA Probe ==
    ASSUME LoadInv, stride \in Strides, ~Pairs, NEW p \in Nat, p + LANES <= BufLen
    PROVE  LET m == Block(Chars(p))
           IN  /\ Clear(0, p - 1) =>
                    IF m # {} THEN Position = p + First(m, stride) ELSE Clear(0, p + LANES - 1)
               /\ Clear(p + LANES, BufLen - 1) =>
                    IF m # {} THEN RPosition = p + Last(m, stride) ELSE Clear(p, BufLen - 1)
<1> DEFINE m == Block(Chars(p))
           f == First(m, stride)
           g == Last(m, stride)
<1>1. LANES \in Nat \ {0, 1} /\ BufLen \in Nat
      BY LoadTypes
<1>2. /\ m = {} => Clear(p, p + LANES - 1)
      /\ m # {} => /\ f \in Lanes /\ InClass(buf[p + f + 1]) /\ Clear(p, p + f - 1)
                   /\ g \in Lanes /\ InClass(buf[p + g + 1]) /\ Clear(p + g + 1, p + LANES - 1)
      BY VectorMask
<1> HIDE DEF m, f, g
<1>3. ASSUME m # {}
      PROVE  /\ f \in Nat /\ f < LANES /\ p + f \in 0..BufLen-1
             /\ g \in Nat /\ g < LANES /\ p + g \in 0..BufLen-1
      BY <1>1, <1>2, <1>3 DEF Lanes
<1>4. ASSUME Clear(0, p - 1)
      PROVE  IF m # {} THEN Position = p + f ELSE Clear(0, p + LANES - 1)
      <2>1. CASE m # {}
            <3>1. Clear(0, p + f - 1)
                  BY <1>1, <1>2, <1>3, <1>4, <2>1, ClearParts
            <3>2. QED  BY <1>2, <1>3, <2>1, <3>1, IsPosition
      <2>2. CASE m = {}
            BY <1>1, <1>2, <1>4, <2>2, ClearParts
      <2>3. QED  BY <2>1, <2>2
<1>5. ASSUME Clear(p + LANES, BufLen - 1)
      PROVE  IF m # {} THEN RPosition = p + g ELSE Clear(p, BufLen - 1)
      <2>1. CASE m # {}
            <3>1. Clear(p + g + 1, BufLen - 1)
                  BY <1>1, <1>2, <1>3, <1>5, <2>1, ClearParts
            <3>2. QED  BY <1>2, <1>3, <2>1, <3>1, IsPosition
      <2>2. CASE m = {}
            BY <1>1, <1>2, <1>5, <2>2, ClearParts
      <2>3. QED  BY <2>1, <2>2
<1>6. QED  BY <1>4, <1>5 DEF m, f, g

LEMMA ByteStep == LoadInv /\ stride \in Strides /\ ByteInv /\ [Next]_vars => ByteInv'
<1> SUFFICES ASSUME LoadInv, stride \in Strides, ByteInv, [Next]_vars PROVE ByteInv'
    OBVIOUS
<1>0. UNCHANGED inputs
      BY DEF Next, Short, Start, HeadVector, BlockFwd, BlockRev, TailVector, HeadDouble,
             BlockDouble, TailDouble, LastByte, Finished, vars
<1>1. CASE Pairs
      BY <1>0, <1>1, InputsStay DEF ByteInv
<1> SUFFICES ASSUME ~Pairs PROVE ByteInv'
    BY <1>1
<1>2. /\ LANES \in Nat \ {0, 1} /\ BufLen \in Nat /\ align \in 0..LANES-1 /\ EndAlign \in 0..LANES-1
      /\ d \in 0..BufLen /\ (at \in {"head", "blocks", "tail"} => BufLen >= LANES)
      BY LoadTypes, EndAlignType DEF LoadInv
<1>3. CASE Short
      <2>1. at' = "done" /\ (result' = IF BufLen = 0 THEN NoMatch ELSE IF Forward THEN Position ELSE RPosition)
            BY <1>3 DEF Short, Answer
      <2>2. BufLen = 0 => Position = NoMatch /\ RPosition = NoMatch
            BY <1>2, NoPosition DEF Clear
      <2>3. result' = IF Forward THEN Position ELSE RPosition
            BY <2>1, <2>2
      <2>4. QED  BY <1>0, <2>1, <2>3, InputsStay DEF ByteInv
<1>4. CASE Start
      <2>1. at' = "head" /\ d' = IF Forward THEN 0 ELSE BufLen
            BY <1>2, <1>4 DEF Start, GoOn
      <2>2. QED  BY <1>0, <2>1, InputsStay DEF ByteInv
<1>5. CASE HeadVector
      <2> DEFINE p == IF Forward THEN 0 ELSE BufLen - LANES
                 m == Block(Chars(p))
      <2>1. at = "head" /\ BufLen >= LANES /\ d = IF Forward THEN 0 ELSE BufLen
            BY <1>2, <1>5 DEF HeadVector, ByteInv
      <2>2. p \in Nat /\ p + LANES <= BufLen
            BY <1>2, <2>1
      <2>3. IF Forward THEN Clear(0, p - 1) ELSE Clear(p + LANES, BufLen - 1)
            BY <1>2 DEF Clear
      <2>4. /\ Clear(0, p - 1) =>
                   IF m # {} THEN Position = p + First(m, stride) ELSE Clear(0, p + LANES - 1)
            /\ Clear(p + LANES, BufLen - 1) =>
                   IF m # {} THEN RPosition = p + Last(m, stride) ELSE Clear(p, BufLen - 1)
            <3> HIDE DEF p
            <3>1. QED  BY <2>2, Probe
      <2> HIDE DEF m
      <2>5. CASE at' = "blocks" /\ d' = d /\ (IF Forward THEN align ELSE EndAlign) = 0
            <3>1. IF Forward THEN Clear(0, d - 1) ELSE Clear(d, BufLen - 1)
                  BY <1>2, <2>1 DEF Clear
            <3>2. QED  BY <1>0, <2>5, <3>1, InputsStay DEF ByteInv
      <2>6. CASE /\ at' = "done" /\ m # {}
                 /\ result' = p + IF Forward THEN First(m, stride) ELSE Last(m, stride)
            <3>1. result' = IF Forward THEN Position ELSE RPosition
                  BY <2>3, <2>4, <2>6
            <3>2. QED  BY <1>0, <2>6, <3>1, InputsStay DEF ByteInv
      <2>7. CASE at' = "blocks" /\ m = {} /\ d' = IF Forward THEN align ELSE BufLen - EndAlign
            <3>1. IF Forward THEN Clear(0, LANES - 1) ELSE Clear(BufLen - LANES, BufLen - 1)
                  BY <1>2, <2>3, <2>4, <2>7
            <3>2. IF Forward THEN Clear(0, d' - 1) ELSE Clear(d', BufLen - 1)
                  BY <1>2, <2>7, <3>1, ClearWithin
            <3>3. QED  BY <1>0, <2>7, <3>2, InputsStay DEF ByteInv
      <2>8. QED  BY <1>5, <2>5, <2>6, <2>7 DEF HeadVector, Answer, GoOn, m
<1>6. CASE BlockFwd
      <2> DEFINE m == Block(Chars(d))
      <2>1. at = "blocks" /\ Forward /\ Clear(0, d - 1)
            BY <1>6 DEF BlockFwd, ByteInv
      <2>2. CASE d + LANES <= BufLen
            <3>1. IF m # {} THEN Position = d + First(m, stride) ELSE Clear(0, d + LANES - 1)
                  BY <1>2, <2>1, <2>2, Probe
            <3> HIDE DEF m
            <3>2. IF m # {} THEN at' = "done" /\ result' = d + First(m, stride)
                  ELSE at' = "blocks" /\ d' = d + LANES
                  BY <1>6, <2>2 DEF BlockFwd, Answer, GoOn, m
            <3>3. CASE m # {}
                  BY <1>0, <2>1, <3>1, <3>2, <3>3, InputsStay DEF ByteInv
            <3>4. CASE m = {}
                  <4>1. at' = "blocks" /\ Clear(0, d' - 1)
                        BY <1>2, <3>1, <3>2, <3>4
                  <4>2. QED  BY <1>0, <2>1, <4>1, InputsStay DEF ByteInv
            <3>5. QED  BY <3>3, <3>4
      <2>3. CASE ~(d + LANES <= BufLen)
            <3>1. at' = "tail" /\ d' = d /\ BufLen < d + LANES
                  BY <1>2, <1>6, <2>3 DEF BlockFwd, GoOn
            <3>2. QED  BY <1>0, <2>1, <3>1, InputsStay DEF ByteInv
      <2>4. QED  BY <2>2, <2>3
<1>7. CASE BlockRev
      <2> DEFINE p == d - LANES
                 m == Block(Chars(p))
      <2>1. at = "blocks" /\ ~Forward /\ Clear(d, BufLen - 1)
            BY <1>7 DEF BlockRev, ByteInv
      <2>2. CASE d >= LANES
            <3>1. p \in Nat /\ p + LANES = d /\ p + LANES <= BufLen
                  BY <1>2, <2>2
            <3>2. IF m # {} THEN RPosition = p + Last(m, stride) ELSE Clear(p, BufLen - 1)
                  <4> HIDE DEF p
                  <4>1. QED  BY <2>1, <3>1, Probe
            <3> HIDE DEF m
            <3>3. d' = p /\ IF m # {} THEN at' = "done" /\ result' = p + Last(m, stride)
                            ELSE at' = "blocks"
                  BY <1>7, <2>2 DEF BlockRev, Answer, GoOn, m
            <3> HIDE DEF p
            <3>4. CASE m # {}
                  BY <1>0, <2>1, <3>2, <3>3, <3>4, InputsStay DEF ByteInv
            <3>5. CASE m = {}
                  BY <1>0, <2>1, <3>2, <3>3, <3>5, InputsStay DEF ByteInv
            <3>6. QED  BY <3>4, <3>5
      <2>3. CASE ~(d >= LANES)
            <3>1. at' = "tail" /\ d' = d /\ d < LANES
                  BY <1>2, <1>7, <2>3 DEF BlockRev, GoOn
            <3>2. QED  BY <1>0, <2>1, <3>1, InputsStay DEF ByteInv
      <2>4. QED  BY <2>2, <2>3
<1>8. CASE TailVector
      <2> DEFINE m == Block(Chars(TailFrom))
      <2>1. /\ at = "tail" /\ BufLen >= LANES
            /\ IF Forward THEN BufLen < d + LANES /\ Clear(0, d - 1)
               ELSE d < LANES /\ Clear(d, BufLen - 1)
            BY <1>2, <1>8 DEF TailVector, ByteInv
      <2>2. CASE NoTail
            <3>1. at' = "done" /\ result' = NoMatch
                  BY <1>8, <2>2 DEF TailVector, Answer
            <3>2. Clear(0, BufLen - 1)
                  BY <2>1, <2>2 DEF NoTail
            <3>3. Position = NoMatch /\ RPosition = NoMatch
                  BY <3>2, NoPosition
            <3>4. QED  BY <1>0, <3>1, <3>3, InputsStay DEF ByteInv
      <2>3. CASE ~NoTail
            <3>1. at' = "done" /\ (result' = IF m = {} THEN NoMatch
                     ELSE TailFrom + IF Forward THEN First(m, stride) ELSE Last(m, stride))
                  BY <1>8, <2>3 DEF TailVector, Answer
            <3>2. /\ TailFrom \in Nat /\ TailFrom + LANES <= BufLen
                  /\ Forward => TailFrom + LANES = BufLen /\ TailFrom <= d
                  /\ ~Forward => TailFrom = 0
                  BY <1>2, <2>1 DEF TailFrom
            <3>3. IF Forward THEN Clear(0, TailFrom - 1) ELSE Clear(TailFrom + LANES, BufLen - 1)
                  <4>1. CASE Forward
                        BY <1>2, <2>1, <3>2, <4>1, ClearWithin
                  <4>2. CASE ~Forward
                        BY <1>2, <2>1, <3>2, <4>2, ClearWithin
                  <4>3. QED  BY <4>1, <4>2
            <3>4. /\ Clear(0, TailFrom - 1) =>
                         IF m # {} THEN Position = TailFrom + First(m, stride)
                         ELSE Clear(0, TailFrom + LANES - 1)
                  /\ Clear(TailFrom + LANES, BufLen - 1) =>
                         IF m # {} THEN RPosition = TailFrom + Last(m, stride)
                         ELSE Clear(TailFrom, BufLen - 1)
                  BY <3>2, Probe
            <3> HIDE DEF m
            <3>5. result' = IF Forward THEN Position ELSE RPosition
                  <4>1. CASE m # {}
                        BY <3>1, <3>3, <3>4, <4>1
                  <4>2. CASE m = {}
                        <5>1. Clear(0, BufLen - 1)
                              BY <1>2, <3>2, <3>3, <3>4, <4>2
                        <5>2. QED  BY <3>1, <4>2, <5>1, NoPosition
                  <4>3. QED  BY <4>1, <4>2
            <3>6. QED  BY <1>0, <3>1, <3>5, InputsStay DEF ByteInv
      <2>4. QED  BY <2>2, <2>3
<1>9. CASE HeadDouble \/ BlockDouble \/ TailDouble
      BY <1>9 DEF HeadDouble, BlockDouble, TailDouble
<1>10. CASE LastByte
      BY <1>10 DEF LastByte, ByteInv
<1>11. CASE Finished \/ UNCHANGED vars
      <2>1. at' = at /\ d' = d /\ result' = result
            BY <1>11 DEF Finished, vars
      <2>2. QED  BY <1>0, <2>1, InputsStay DEF ByteInv
<1>12. QED
      BY <1>3, <1>4, <1>5, <1>6, <1>7, <1>8, <1>9, <1>10, <1>11 DEF Next

\* A search for pairs has left behind no pair, carries the byte before the next
\* vector (or nothing), and ends with the last byte of the buffer in hand.
LastLaneOf == (IF BufLen < LANES THEN BufLen ELSE LANES) - 1
PairInv ==
    Pairs =>
        /\ at \in {"start", "head"} => d = 0 /\ state = Ones
        /\ at \in {"head", "blocks", "tail", "last"} => BufLen > 0
        /\ at = "tail" => BufLen < d + LANES /\ (BufLen < LANES => d = 0)
        /\ at \in {"blocks", "tail"} =>
              /\ NoPair(0, d - 2)
              /\ IF d = 0 THEN state[LANES - 1] = BITS ELSE state[LANES - 1] = FL(buf[d])
        /\ at = "last" => NoPair(0, BufLen - 2) /\ state[LastLaneOf] = FL(buf[BufLen])
        /\ at = "done" => result = DoubleNaive

LEMMA NoPairParts ==
    ASSUME NEW a \in Int, NEW b \in Int, NEW c \in Int, NEW e \in Int,
           NoPair(a, b - 1), NoPair(c, e), c <= b
    PROVE  NoPair(a, e)
BY DEF NoPair

LEMMA NoPairWithin ==
    ASSUME NEW a \in Int, NEW c \in Int, NEW e \in Int, NoPair(a, e), c <= e
    PROVE  NoPair(a, c)
BY DEF NoPair

\* A vector at p with no pair before the first one that it shows: it has the
\* answer, or the pairs up to its end are left behind.
LEMMA PairProbe ==
    ASSUME LoadInv, stride \in Strides, Pairs, NEW p \in Nat, NEW q, NEW carried,
           Carries(carried, p, q), NoPair(0, q - 1)
    PROVE  LET m == BlockShuftiDouble(carried, Chars(p))
               f == First(m, stride)
           IN  /\ m # {} => f \in Lanes /\ (q = p => f >= 1)
               /\ IF m # {} /\ p + f - 1 < BufLen - 1
                  THEN DoubleNaive = p + f - 1
                  ELSE \A n \in -2..BufLen - 2 : n + 1 < p + LANES => NoPair(0, n)
<1> DEFINE m == BlockShuftiDouble(carried, Chars(p))
           f == First(m, stride)
<1>1. LANES \in Nat \ {0, 1} /\ BufLen \in Nat /\ q \in Nat
      BY LoadTypes DEF Carries
<1>2. /\ m # {} => f \in Lanes /\ p + f - 1 >= q
      /\ m # {} /\ p + f - 1 < BufLen - 1 =>
           NoPair(q, p + f - 2) /\ Begins(buf[p + f]) \cap Ends(buf[p + f + 1]) # {}
      /\ ~(m # {} /\ p + f - 1 < BufLen - 1) =>
           \A n \in 0..BufLen - 2 : n + 1 < p + LANES => NoPair(q, n)
      BY PairMask
<1> HIDE DEF m, f
<1>3. m # {} => f \in Nat
      BY <1>1, <1>2 DEF Lanes
<1>4. ASSUME m # {}, p + f - 1 < BufLen - 1
      PROVE  DoubleNaive = p + f - 1
      <2> DEFINE t == p + f - 1
      <2>1. t \in 0..BufLen-2 /\ p + f = t + 1 /\ p + f + 1 = t + 2 /\ p + f - 2 = t - 1
            BY <1>1, <1>2, <1>3, <1>4
      <2>2. Begins(buf[t + 1]) \cap Ends(buf[t + 2]) # {} /\ NoPair(q, t - 1)
            BY <1>2, <1>4, <2>1
      <2> HIDE DEF t
      <2>3. NoPair(0, t - 1)
            BY <1>1, <2>1, <2>2, NoPairParts
      <2>4. DoubleNaive = t
            BY <2>1, <2>2, <2>3, IsFirstPair
      <2>5. QED  BY <2>4 DEF t
<1>5. ASSUME ~(m # {} /\ p + f - 1 < BufLen - 1), NEW n \in -2..BufLen - 2, n + 1 < p + LANES
      PROVE  NoPair(0, n)
      <2>1. CASE n \in Nat
            <3>1. NoPair(q, n)
                  BY <1>2, <1>5, <2>1
            <3>2. QED  BY <1>1, <2>1, <3>1, NoPairParts
      <2>2. CASE n \notin Nat
            BY <1>1, <2>2 DEF NoPair
      <2>3. QED  BY <2>1, <2>2
<1>6. m # {} => f \in Lanes /\ (q = p => f >= 1)
      BY <1>1, <1>2, <1>3
<1>7. QED  BY <1>4, <1>5, <1>6 DEF m, f

\* The last lane of the buffer in the first-byte vector of a chunk.
LEMMA LastOf ==
    ASSUME LoadInv, NEW p \in Nat, NEW n \in Nat, n < LANES, p + n < BufLen
    PROVE  FirstOf(Chars(p))[n] = FL(buf[p + n + 1])
<1>1. n \in Lanes
      BY LoadTypes DEF Lanes
<1>2. Chars(p) \in Chunk /\ Chars(p)[n] = buf[p + n + 1]
      BY <1>1, CharsLanes
<1>3. QED  BY <1>1, <1>2, FirstOfLane

LEMMA PairStep == LoadInv /\ stride \in Strides /\ PairInv /\ [Next]_vars => PairInv'
<1> SUFFICES ASSUME LoadInv, stride \in Strides, PairInv, [Next]_vars PROVE PairInv'
    OBVIOUS
<1>0. UNCHANGED inputs
      BY DEF Next, Short, Start, HeadVector, BlockFwd, BlockRev, TailVector, HeadDouble,
             BlockDouble, TailDouble, LastByte, Finished, vars
<1>a. LastLaneOf' = LastLaneOf
      BY <1>0, InputsStay DEF LastLaneOf
<1>1. CASE ~Pairs
      BY <1>0, <1>1, InputsStay DEF PairInv
<1> SUFFICES ASSUME Pairs PROVE PairInv'
    BY <1>1
<1>2. /\ LANES \in Nat \ {0, 1} /\ BufLen \in Nat /\ align \in 0..LANES-1
      /\ d \in 0..BufLen /\ Forward /\ (at \in {"head", "blocks"} => BufLen >= LANES)
      BY LoadTypes DEF LoadInv
<1>b. LANES - 1 \in Lanes /\ Ones[LANES - 1] = BITS
      BY <1>2 DEF Ones, Lanes
<1>3. CASE Short
      <2>1. at' = "done" /\ result' = NoMatch /\ BufLen = 0
            BY <1>2, <1>3 DEF Short, Answer
      <2>2. DoubleNaive = NoMatch
            BY <2>1 DEF DoubleNaive
      <2>3. QED  BY <1>0, <2>1, <2>2, InputsStay DEF PairInv
<1>4. CASE Start
      <2>1. /\ d' = 0 /\ state' = Ones /\ BufLen > 0
            /\ at' = IF BufLen < LANES THEN "tail" ELSE "head"
            BY <1>2, <1>4 DEF Start, GoOn, PairInv
      <2>2. NoPair(0, 0 - 2)
            BY DEF NoPair
      <2>3. BufLen < LANES => BufLen < d' + LANES
            BY <1>2, <2>1
      <2>4. QED  BY <1>0, <1>b, <2>1, <2>2, <2>3, InputsStay DEF PairInv
<1>5. CASE HeadDouble
      <2> DEFINE m == BlockShuftiDouble(state, Chars(0))
                 f == First(m, stride)
      <2>1. at = "head" /\ BufLen >= LANES /\ BufLen > 0 /\ d = 0 /\ state = Ones
            BY <1>2, <1>5 DEF HeadDouble, PairInv
      <2>2. Carries(state, 0, 0) /\ NoPair(0, 0 - 1)
            BY <1>b, <2>1 DEF Carries, NoPair
      <2>3. /\ m # {} => f \in Lanes
            /\ IF m # {} /\ 0 + f - 1 < BufLen - 1
               THEN DoubleNaive = 0 + f - 1
               ELSE \A n \in -2..BufLen - 2 : n + 1 < 0 + LANES => NoPair(0, n)
            BY <2>2, PairProbe
      <2> HIDE DEF m, f
      <2>4. CASE align = 0
            <3>1. at' = "blocks" /\ d' = 0 /\ state' = Ones
                  BY <1>5, <2>1, <2>4 DEF HeadDouble, GoOn
            <3>2. NoPair(0, 0 - 2)
                  BY DEF NoPair
            <3>3. QED  BY <1>0, <1>b, <2>1, <3>1, <3>2, InputsStay DEF PairInv
      <2>5. CASE align # 0
            <3>1. IF m # {} THEN at' = "done" /\ result' = f - 1
                  ELSE /\ at' = "blocks" /\ d' = align
                       /\ state' = ShiftHead(FirstOf(Chars(0)))
                  BY <1>5, <2>5 DEF HeadDouble, Answer, GoOn, m, f
            <3>2. CASE m # {}
                  <4>1. f \in Nat /\ 0 + f - 1 = f - 1 /\ 0 + f - 1 < BufLen - 1
                        BY <1>2, <2>1, <2>3, <3>2 DEF Lanes
                  <4>2. at' = "done" /\ result' = DoubleNaive
                        BY <2>3, <3>1, <3>2, <4>1
                  <4>3. QED  BY <1>0, <4>2, InputsStay DEF PairInv
            <3>3. CASE m = {}
                  <4>1. at' = "blocks" /\ d' = align /\ state' = ShiftHead(FirstOf(Chars(0)))
                        BY <3>1, <3>3
                  <4>2. NoPair(0, align - 2)
                        <5>1. align - 2 \in -2..BufLen - 2 /\ (align - 2) + 1 < 0 + LANES
                              BY <1>2, <2>1, <2>5
                        <5>2. QED  BY <2>3, <3>3, <5>1
                  <4>3. state'[LANES - 1] = FL(buf[align])
                        <5>1. ~(LANES - 1 < LANES - align) /\ LANES - 1 - (LANES - align) = align - 1
                              BY <1>2, <2>5
                        <5>2. state'[LANES - 1] = FirstOf(Chars(0))[align - 1]
                              BY <1>b, <4>1, <5>1 DEF ShiftHead, ShlBytes
                        <5>3. align - 1 \in Nat /\ align - 1 < LANES /\ 0 + (align - 1) < BufLen
                              BY <1>2, <2>1, <2>5
                        <5>4. FirstOf(Chars(0))[align - 1] = FL(buf[0 + (align - 1) + 1])
                              BY <5>3, LastOf
                        <5>5. 0 + (align - 1) + 1 = align
                              BY <1>2
                        <5>6. QED  BY <5>2, <5>4, <5>5
                  <4>4. QED  BY <1>0, <2>1, <2>5, <4>1, <4>2, <4>3, InputsStay DEF PairInv
            <3>4. QED  BY <3>2, <3>3
      <2>6. QED  BY <2>4, <2>5
<1>6. CASE BlockDouble
      <2> DEFINE m == BlockShuftiDouble(state, Chars(d))
                 f == First(m, stride)
                 q == IF d = 0 THEN d ELSE d - 1
      <2>1. /\ at = "blocks" /\ BufLen > 0 /\ NoPair(0, d - 2)
            /\ IF d = 0 THEN state[LANES - 1] = BITS ELSE state[LANES - 1] = FL(buf[d])
            BY <1>6 DEF BlockDouble, PairInv
      <2>2. CASE d + LANES <= BufLen
            <3>1. Carries(state, d, q) /\ NoPair(0, q - 1)
                  <4>1. CASE d = 0
                        BY <2>1, <4>1 DEF Carries, NoPair
                  <4>2. CASE d # 0
                        <5>1. d - 1 \in Nat /\ d - 1 - 1 = d - 2
                              BY <1>2, <4>2
                        <5>2. QED  BY <2>1, <4>2, <5>1 DEF Carries
                  <4>3. QED  BY <4>1, <4>2
            <3> HIDE DEF q
            <3>2. /\ m # {} => f \in Lanes
                  /\ IF m # {} /\ d + f - 1 < BufLen - 1
                     THEN DoubleNaive = d + f - 1
                     ELSE \A n \in -2..BufLen - 2 : n + 1 < d + LANES => NoPair(0, n)
                  BY <1>2, <3>1, PairProbe
            <3> HIDE DEF m, f
            <3>3. /\ state' = FirstOf(Chars(d))
                  /\ IF m # {} /\ d + f - 1 < BufLen - 1
                     THEN at' = "done" /\ result' = d + f - 1
                     ELSE at' = "blocks" /\ d' = d + LANES
                  BY <1>6, <2>2 DEF BlockDouble, Answer, GoOn, m, f
            <3>4. CASE m # {} /\ d + f - 1 < BufLen - 1
                  <4>1. at' = "done" /\ result' = DoubleNaive
                        BY <3>2, <3>3, <3>4
                  <4>2. QED  BY <1>0, <4>1, InputsStay DEF PairInv
            <3>5. CASE ~(m # {} /\ d + f - 1 < BufLen - 1)
                  <4>1. at' = "blocks" /\ d' = d + LANES /\ d' # 0 /\ d' - 2 = d + LANES - 2
                        BY <1>2, <3>3, <3>5
                  <4>2. NoPair(0, d + LANES - 2)
                        <5>1. d + LANES - 2 \in -2..BufLen - 2 /\ (d + LANES - 2) + 1 < d + LANES
                              BY <1>2, <2>2
                        <5>2. QED  BY <3>2, <3>5, <5>1
                  <4>3. state'[LANES - 1] = FL(buf[d'])
                        <5>1. LANES - 1 \in Nat /\ LANES - 1 < LANES /\ d + (LANES - 1) < BufLen
                              BY <1>2, <2>2
                        <5>2. FirstOf(Chars(d))[LANES - 1] = FL(buf[d + (LANES - 1) + 1])
                              BY <1>2, <5>1, LastOf
                        <5>3. d + (LANES - 1) + 1 = d'
                              BY <1>2, <4>1
                        <5>4. QED  BY <3>3, <5>2, <5>3
                  <4>4. NoPair(0, d' - 2)
                        BY <4>1, <4>2
                  <4>5. QED  BY <1>0, <2>1, <4>1, <4>3, <4>4, InputsStay DEF PairInv
            <3>6. QED  BY <3>4, <3>5
      <2>3. CASE ~(d + LANES <= BufLen)
            <3>1. /\ at' = "tail" /\ d' = d /\ state' = state
                  /\ BufLen < d + LANES /\ ~(BufLen < LANES)
                  BY <1>2, <1>6, <2>3 DEF BlockDouble, GoOn
            <3>2. QED  BY <1>0, <2>1, <3>1, InputsStay DEF PairInv
      <2>4. QED  BY <2>2, <2>3
<1>7. CASE TailDouble
      <2>1. /\ at = "tail" /\ BufLen > 0 /\ NoPair(0, d - 2) /\ BufLen < d + LANES
            /\ IF d = 0 THEN state[LANES - 1] = BITS ELSE state[LANES - 1] = FL(buf[d])
            /\ BufLen < LANES => d = 0
            BY <1>7 DEF TailDouble, PairInv
      <2>2. CASE d = BufLen
            <3>1. at' = "last" /\ state' = state
                  BY <1>7, <2>2 DEF TailDouble, GoOn
            <3>2. LastLaneOf = LANES - 1
                  BY <1>2, <2>1, <2>2 DEF LastLaneOf
            <3>3. QED  BY <1>0, <1>a, <1>2, <2>1, <2>2, <3>1, <3>2, InputsStay DEF PairInv
      <2>3. CASE d # BufLen
            <3> DEFINE p == IF BufLen < LANES THEN 0 ELSE BufLen - LANES
                       m == BlockShuftiDouble(Ones, Chars(p))
                       f == First(m, stride)
            <3>1. /\ state' = FirstOf(Chars(p))
                  /\ IF m # {} /\ f >= 1 /\ p + f - 1 < BufLen - 1
                     THEN at' = "done" /\ result' = p + f - 1
                     ELSE at' = "last"
                  BY <1>7, <2>3 DEF TailDouble, TailState, Padded, Answer, GoOn
            <3>2. p \in Nat /\ BufLen <= p + LANES /\ (p = 0 \/ p - 1 <= d - 2)
                  BY <1>2, <2>1
            <3>3. p + LastLaneOf + 1 = BufLen /\ LastLaneOf \in Nat /\ LastLaneOf < LANES
                  BY <1>2, <2>1 DEF LastLaneOf
            <3> HIDE DEF p
            <3>4. Carries(Ones, p, p) /\ NoPair(0, p - 1)
                  <4>1. NoPair(0, p - 1)
                        <5>1. CASE p = 0
                              BY <5>1 DEF NoPair
                        <5>2. CASE p - 1 <= d - 2
                              BY <1>2, <2>1, <3>2, <5>2, NoPairWithin
                        <5>3. QED  BY <3>2, <5>1, <5>2
                  <4>2. QED  BY <1>b, <4>1 DEF Carries
            <3>5. /\ m # {} => f \in Lanes /\ f >= 1
                  /\ IF m # {} /\ p + f - 1 < BufLen - 1
                     THEN DoubleNaive = p + f - 1
                     ELSE \A n \in -2..BufLen - 2 : n + 1 < p + LANES => NoPair(0, n)
                  BY <3>2, <3>4, PairProbe
            <3> HIDE DEF m, f
            <3>6. CASE m # {} /\ p + f - 1 < BufLen - 1
                  <4>1. at' = "done" /\ result' = DoubleNaive
                        BY <3>1, <3>5, <3>6
                  <4>2. QED  BY <1>0, <4>1, InputsStay DEF PairInv
            <3>7. CASE ~(m # {} /\ p + f - 1 < BufLen - 1)
                  <4>1. at' = "last"
                        BY <3>1, <3>7
                  <4>2. NoPair(0, BufLen - 2)
                        <5>1. BufLen - 2 \in -2..BufLen - 2 /\ (BufLen - 2) + 1 < p + LANES
                              BY <1>2, <3>2
                        <5>2. QED  BY <3>5, <3>7, <5>1
                  <4>3. state'[LastLaneOf] = FL(buf[BufLen])
                        <5>1. p + LastLaneOf < BufLen
                              BY <1>2, <3>2, <3>3
                        <5>2. FirstOf(Chars(p))[LastLaneOf] = FL(buf[p + LastLaneOf + 1])
                              BY <3>2, <3>3, <5>1, LastOf
                        <5>3. QED  BY <3>1, <3>3, <5>2
                  <4>4. QED  BY <1>0, <1>a, <2>1, <4>1, <4>2, <4>3, InputsStay DEF PairInv
            <3>8. QED  BY <3>6, <3>7
      <2>4. QED  BY <2>2, <2>3
<1>8. CASE LastByte
      <2> DEFINE lastElem == state[LastLaneOf]
                 reduce == UNION {kernel.lo2[n] \cup kernel.hi2[n] : n \in 0..NIB-1}
      <2>1. /\ at = "last" /\ BufLen > 0 /\ NoPair(0, BufLen - 2)
            /\ lastElem = FL(buf[BufLen])
            BY <1>8 DEF LastByte, PairInv
      <2>2. /\ at' = "done"
            /\ result' = IF reduce \cup lastElem # BITS \/ lastElem # BITS THEN BufLen - 1 ELSE NoMatch
            BY <1>8 DEF LastByte, Answer, LastLaneOf
      <2>3. reduce \subseteq BITS
            <3>1. kernel.lo2 \in TableOf(SUBSET BITS) /\ kernel.hi2 \in TableOf(SUBSET BITS)
                  BY KernelOps, AccelAssumption DEF TableFields, LoadInv
            <3>2. QED  BY <3>1 DEF TableOf
      <2>4. lastElem # BITS <=> Begins(buf[BufLen]) # {}
            <3>1. buf[BufLen] \in Bytes
                  BY <1>2, <2>1, AccelAssumption DEF LoadInv, BufLen
            <3>2. QED  BY <2>1, <3>1, PairOf DEF LoadInv
      <2> HIDE DEF lastElem, reduce
      <2>5. result' = IF Begins(buf[BufLen]) # {} THEN BufLen - 1 ELSE NoMatch
            BY <2>2, <2>3, <2>4
      <2>6. result' = DoubleNaive
            BY <2>1, <2>5, NoFirstPair
      <2>7. QED  BY <1>0, <2>2, <2>6, InputsStay DEF PairInv
<1>9. CASE HeadVector \/ BlockFwd \/ BlockRev \/ TailVector
      BY <1>2, <1>9 DEF HeadVector, BlockFwd, BlockRev, TailVector
<1>10. CASE Finished \/ UNCHANGED vars
      <2>1. at' = at /\ d' = d /\ state' = state /\ result' = result
            BY <1>10 DEF Finished, vars
      <2>2. QED  BY <1>0, <1>a, <2>1, InputsStay DEF PairInv
<1>11. QED
      BY <1>3, <1>4, <1>5, <1>6, <1>7, <1>8, <1>9, <1>10 DEF Next

-----------------------------------------------------------------------------
SearchInv == LoadInv /\ stride \in Strides /\ ByteInv /\ PairInv

LEMMA SearchInitAndStep ==
    /\ Init => SearchInv
    /\ SearchInv /\ [Next]_vars => SearchInv'
<1>1. Init => SearchInv
      <2>1. Init => ByteInv /\ PairInv /\ stride \in Strides
            BY DEF Init, ByteInv, PairInv
      <2>2. QED  BY <2>1, LoadInit DEF SearchInv
<1>2. SearchInv /\ [Next]_vars => (stride \in Strides)'
      <2>1. [Next]_vars => stride' = stride
            BY DEF Next, Short, Start, HeadVector, BlockFwd, BlockRev, TailVector, HeadDouble,
                   BlockDouble, TailDouble, LastByte, Finished, vars, inputs
      <2>2. QED  BY <2>1 DEF SearchInv
<1>3. SearchInv /\ [Next]_vars => SearchInv'
      BY <1>2, LoadStep, ByteStep, PairStep DEF SearchInv
<1>4. QED  BY <1>1, <1>3

\* Every kernel answers what its scalar reference answers, whatever the width
\* of a vector, the alignment, the stride of a mask and the tables.
THEOREM SameAnswers == Spec => []SameAsReference
<1>1. SearchInv => SameAsReference
      BY DEF SearchInv, ByteInv, PairInv, SameAsReference
<1>2. QED  BY <1>1, SearchInitAndStep, PTL DEF Spec

\* Bytes that a search has left behind hold no match, and no pair ends in them.
THEOREM NothingLeftBehind == Spec => []LeftBehind
<1>1. SearchInv => LeftBehind
      <2> SUFFICES ASSUME SearchInv, at \in {"blocks", "tail", "last"} PROVE LeftBehind
          BY DEF LeftBehind
      <2>1. d \in 0..BufLen /\ BufLen \in Nat /\ LoadInv
            BY LoadTypes DEF SearchInv, LoadInv
      <2>2. CASE ~Pairs
            BY <2>1, <2>2 DEF SearchInv, ByteInv, Clear, LeftBehind
      <2>3. CASE Pairs
            <3>1. NoPair(0, d - 2)
                  BY <2>1, <2>3, NoPairWithin DEF SearchInv, PairInv
            <3>2. QED  BY <2>3, <3>1 DEF LeftBehind, NoPair
      <2>4. QED  BY <2>2, <2>3
<1>2. QED  BY <1>1, SearchInitAndStep, PTL DEF Spec
=============================================================================
