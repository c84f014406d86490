---------------------------- MODULE FdrScanProofs ----------------------------
(***************************************************************************)
(* The FDR engine, for every table, buffer, alignment and width.  First    *)
(* where it reads and what it queues: a block lies inside its zone, also   *)
(* behind a flood, whose end nothing checks, and cbuf has room for it.     *)
(* Then what it finds: the zones show the buffer as it is, what the engine *)
(* has looked at is told or waits in cbuf, and the answers come in order,  *)
(* so the engine is the stream of hits that its caller relies on.  Last,   *)
(* the whole scan: with this engine it is a scan of DelayScan.             *)
(***************************************************************************)
EXTENDS BlockScan, ConfirmProofs, WellFoundedInduction

\* A non-empty set of naturals has a least element.
LEMMA LeastExists ==
    ASSUME NEW S \in SUBSET Nat, S # {}
    PROVE  \E x \in S : \A y \in S : x <= y
<1> DEFINE R == {ss \in Nat \X Nat : ss[1] < ss[2]}
<1>1. IsWellFoundedOn(R, Nat)
      BY NatLessThanWellFounded, Zenon DEF OpToRel
<1>2. \A x, y \in Nat : <<y, x>> \notin R => x <= y
      OBVIOUS
<1> HIDE DEF R
<1>3. \E x \in S : \A y \in S : ~ (<<y, x>> \in R)
      BY <1>1, WFMin, Zenon
<1>4. QED  BY <1>2, <1>3

LEMMA TimesMonotone ==
    ASSUME NEW a \in Int, NEW b \in Int, NEW n \in Nat, a <= b
    PROVE  a * n \in Int /\ b * n \in Int /\ a * n <= b * n
<1>1. b - a \in Nat
      OBVIOUS
<1>2. (b - a) * n \in Nat
      BY <1>1
<1>3. b * n = a * n + (b - a) * n
      OBVIOUS
<1>4. QED  BY <1>2, <1>3

\* Division: quotient and remainder.
LEMMA Divides ==
    ASSUME NEW a \in Nat, NEW n \in Nat \ {0}
    PROVE  /\ a \div n \in Nat /\ a % n \in 0..n-1
           /\ a = (a \div n) * n + (a % n)
OBVIOUS

-----------------------------------------------------------------------------
\* The blocks of the main zone begin at start + ITER_BYTES, + 2 * ITER_BYTES, ...
OnGrid(x) == \E k \in Nat : x = start + k * ITER_BYTES

\* Copies are shorter than the place where their flood probes would begin;
\* the main zone ends on its grid, and as late as reading ahead allows.
ZoneFits(z) ==
    /\ z.copied \in BOOLEAN /\ z.from \in Int /\ z.to \in Int
    /\ z.copied => z.floodFrom \in Int /\ z.to <= z.floodFrom
    /\ ~z.copied =>
          /\ OnGrid(z.from) /\ OnGrid(z.to)
          /\ z.to + LOOKAHEAD <= Len0 /\ Len0 < z.to + LOOKAHEAD + ITER_BYTES

EveryZoneFits == \A i \in 1..Len(zones) : ZoneFits(zones[i])

Confirming == {"flush", "bits", "chain", "callback"}

\* What is known where the engine is: the places between a flood probe and
\* the block behind it belong to the main zone, and a block fits there.
PlaceInv ==
    /\ table \in Tables /\ buf \in Buffers /\ start \in Starts /\ align \in Aligns
    /\ EveryZoneFits
    /\ zone \in 1..Len(zones)
    /\ it \in Int
    /\ Z.copied => tryFlood = Z.floodFrom
    /\ ~Z.copied => OnGrid(it)
    /\ at \in ControlPoints /\ ret \in {"scan", "flood", "zone"}
    /\ at \in {"flood", "block"} \/ (at \in Confirming /\ ret = "flood") => BlockFits /\ ~Z.copied
    /\ at \in {"run", "floodcallback"} =>
          /\ ~Z.copied /\ "size" \in DOMAIN flood
          /\ OnGrid(it + flood.size) /\ it + flood.size + ITER_BYTES <= Z.to

LEMMA Widths ==
    /\ ITER_BYTES \in Nat \ {0} /\ CONF_BYTES \in Nat \ {0} /\ CAP \in Nat \ {0}
    /\ CONF_BYTES <= ITER_BYTES /\ LOOKAHEAD \in Nat /\ LOOKAHEAD <= ITER_BYTES
    /\ WORD \in Nat \ {0}
BY ConfirmAssumption, FdrAssumption

LEMMA Inputs ==
    ASSUME buf \in Buffers, start \in Starts
    PROVE  Len0 \in Nat /\ start \in Nat
<1>1. buf \in Seq(Nat)
      BY ConfirmAssumption
<1>2. QED  BY <1>1, ConfirmAssumption DEF Len0

-----------------------------------------------------------------------------
\* prepare_zones cuts zones that fit.
LEMMA CopyFits ==
    ASSUME NEW low \in Int, NEW len \in Int, NEW blocks \in Int, NEW skip, NEW end \in Int, NEW pad,
           low + len <= 4 * ITER_BYTES
    PROVE  ZoneFits(Copy(low, len, blocks, skip, end, pad))
<1>1. blocks * ITER_BYTES \in Int /\ ITER_BYTES \in Int
      BY Widths
<1>2. QED  BY <1>1 DEF ZoneFits, Copy

LEMMA MainEndFits ==
    ASSUME buf \in Buffers, start \in Starts, Len0 - start > ITER_BYTES
    PROVE  /\ MainEnd \in Nat /\ OnGrid(MainEnd)
           /\ MainEnd + LOOKAHEAD <= Len0 /\ Len0 < MainEnd + LOOKAHEAD + ITER_BYTES
<1> DEFINE a == Len0 - start - LOOKAHEAD
           m == a \div ITER_BYTES
           r == a % ITER_BYTES
<1>1. a \in Nat /\ ITER_BYTES \in Nat \ {0} /\ Len0 \in Nat /\ start \in Nat /\ LOOKAHEAD \in Nat
      BY Inputs, Widths
<1>2. m \in Nat /\ r \in 0..ITER_BYTES-1 /\ a = m * ITER_BYTES + r
      <2> HIDE DEF a
      <2>1. QED  BY <1>1, Divides
<1>3. MainEnd = start + m * ITER_BYTES
      BY DEF MainEnd
<1> HIDE DEF m, r
<1>4. m * ITER_BYTES \in Nat
      BY <1>1, <1>2
<1>5. QED  BY <1>1, <1>2, <1>3, <1>4 DEF OnGrid

LEMMA ZonesFit ==
    ASSUME buf \in Buffers, start \in Starts, start < Len0, NEW f
    PROVE  /\ Len(Zones(f)) \in Nat \ {0}
           /\ \A i \in 1..Len(Zones(f)) : ZoneFits(Zones(f)[i])
<1>1. /\ Len0 \in Nat /\ start \in Nat /\ ITER_BYTES \in Nat \ {0}
      /\ CONF_BYTES \in Nat /\ CONF_BYTES <= ITER_BYTES
      BY Inputs, Widths
<1>2. ZoneFits(ShortZone(start, Len0))
      BY <1>1, CopyFits DEF ShortZone, Smaller
<1>3. ZoneFits(StartZone(start))
      BY <1>1, CopyFits DEF StartZone, Smaller
<1>4. ASSUME NEW b \in Int PROVE ZoneFits(EndZone(b, Len0))
      <2> DEFINE second == IF Len0 - b > ITER_BYTES THEN ITER_BYTES ELSE 0
                 len == Smaller(Len0 - second, ITER_BYTES + CONF_BYTES) + second
      <2>1. len \in Int /\ 0 + len <= 4 * ITER_BYTES
            BY <1>1 DEF Smaller
      <2>2. QED  BY <1>1, <2>1, CopyFits DEF EndZone
<1>5. CASE Len0 - start <= ITER_BYTES
      BY <1>2, <1>5 DEF Zones
<1>6. CASE ~(Len0 - start <= ITER_BYTES)
      <2> DEFINE begin == start + ITER_BYTES
      <2>1. /\ MainEnd \in Nat /\ OnGrid(MainEnd)
            /\ MainEnd + LOOKAHEAD <= Len0 /\ Len0 < MainEnd + LOOKAHEAD + ITER_BYTES
            BY <1>1, <1>6, MainEndFits
      <2>2. OnGrid(begin) /\ begin \in Int
            <3>1. begin = start + 1 * ITER_BYTES
                  BY <1>1
            <3>2. QED  BY <1>1, <3>1 DEF OnGrid
      <2>3. ZoneFits(MainZone(begin, MainEnd, f))
            BY <2>1, <2>2 DEF ZoneFits, MainZone
      <2>4. ZoneFits(EndZone(MainEnd, Len0)) /\ ZoneFits(EndZone(begin, Len0))
            BY <1>4, <2>1, <2>2
      <2> HIDE DEF begin
      <2>5. CASE MainEnd > begin
            <3>1. Zones(f) = << StartZone(start), MainZone(begin, MainEnd, f), EndZone(MainEnd, Len0) >>
                  BY <1>6, <2>5 DEF Zones, begin
            <3>2. QED  BY <1>3, <2>3, <2>4, <3>1
      <2>6. CASE ~(MainEnd > begin)
            <3>1. Zones(f) = << StartZone(start), EndZone(begin, Len0) >>
                  BY <1>6, <2>6 DEF Zones, begin
            <3>2. QED  BY <1>3, <2>4, <3>1
      <2>7. QED  BY <2>5, <2>6
<1>7. QED  BY <1>5, <1>6

-----------------------------------------------------------------------------
\* A run ends inside the main loop, or does not reach beyond its start.
LEMMA RunEndsInLoop ==
    ASSUME NEW j \in Nat, NEW c, buf \in Buffers, start \in Starts
    PROVE  /\ j >= MainLoopLen => RunEnd(j, c) = j
           /\ j < MainLoopLen => RunEnd(j, c) \in j..MainLoopLen
           /\ \A x \in j..RunEnd(j, c)-1 : buf[x + 1] = c
<1>1. MainLoopLen \in Nat
      BY Inputs, Widths DEF MainLoopLen
<1>2. CASE j >= MainLoopLen
      BY <1>1, <1>2 DEF RunEnd
<1>3. CASE j < MainLoopLen
      <2> DEFINE Stops == {e \in j..MainLoopLen : e = MainLoopLen \/ buf[e + 1] # c}
                 IsEnd(e) == /\ \A x \in j..e-1 : buf[x + 1] = c
                             /\ e = MainLoopLen \/ buf[e + 1] # c
      <2>1. Stops \in SUBSET Nat /\ MainLoopLen \in Stops
            BY <1>1, <1>3
      <2>2. PICK e \in Stops : \A y \in Stops : e <= y
            <3> HIDE DEF Stops
            <3>1. QED  BY <2>1, LeastExists
      <2>3. e \in j..MainLoopLen /\ (e = MainLoopLen \/ buf[e + 1] # c)
            BY <2>2
      <2>4. \A x \in j..e-1 : buf[x + 1] = c
            <3>1. SUFFICES ASSUME NEW x \in j..e-1, buf[x + 1] # c PROVE FALSE
                  OBVIOUS
            <3>2. x \in Stops
                  BY <1>1, <2>3, <3>1
            <3>3. e <= x /\ x <= e - 1 /\ x \in Nat /\ e \in Nat
                  BY <1>1, <2>2, <2>3, <3>2
            <3>4. QED  BY <3>3
      <2>5. RunEnd(j, c) = CHOOSE x \in j..MainLoopLen : IsEnd(x)
            BY <1>1, <1>3 DEF RunEnd
      <2>6. IsEnd(e)
            BY <2>3, <2>4
      <2> HIDE DEF IsEnd
      <2>7. IsEnd(RunEnd(j, c)) /\ RunEnd(j, c) \in j..MainLoopLen
            BY <2>3, <2>5, <2>6
      <2>8. QED  BY <1>1, <1>3, <2>7 DEF IsEnd
<1>4. QED  BY <1>1, <1>2, <1>3

\* A flood skips whole blocks, and the block behind them fits: that it lies
\* on the grid of the zone makes up for the bytes the zone leaves behind it.
LEMMA BlockBehindFloodFits ==
    ASSUME PlaceInv, at = "flood", NEW j \in Nat, j > it, j <= MainLoopLen
    PROVE  LET size == ((j - 1 - it) \div ITER_BYTES) * ITER_BYTES
           IN  OnGrid(it + size) /\ it + size + ITER_BYTES <= Z.to
<1> DEFINE q == (j - 1 - it) \div ITER_BYTES
           r == (j - 1 - it) % ITER_BYTES
<1>1. /\ Len0 \in Nat /\ start \in Nat /\ ITER_BYTES \in Nat \ {0}
      /\ LOOKAHEAD \in Nat /\ LOOKAHEAD <= ITER_BYTES
      BY Inputs, Widths DEF PlaceInv
<1>2. /\ ~Z.copied /\ ZoneFits(Z) /\ OnGrid(it)
      BY DEF PlaceInv, EveryZoneFits, Z
<1>3. PICK k \in Nat : it = start + k * ITER_BYTES
      BY <1>2 DEF OnGrid
<1>4. PICK m \in Nat : Z.to = start + m * ITER_BYTES
      BY <1>2 DEF OnGrid, ZoneFits
<1>5. k * ITER_BYTES \in Nat /\ m * ITER_BYTES \in Nat
      BY <1>1
<1>6. q \in Nat /\ r \in 0..ITER_BYTES-1 /\ j - 1 - it = q * ITER_BYTES + r
      <2>1. j - 1 - it \in Nat
            BY <1>1, <1>3, <1>5
      <2>2. QED  BY <1>1, <2>1, Divides
<1> HIDE DEF q, r
<1>7. q * ITER_BYTES \in Nat
      BY <1>1, <1>6
<1>8. j <= Len0 - 2 * ITER_BYTES
      <2>1. j # 0
            BY <1>1, <1>3, <1>5
      <2>2. QED  BY <1>1, <2>1 DEF MainLoopLen
<1>9. it + q * ITER_BYTES = start + (k + q) * ITER_BYTES
      BY <1>1, <1>3, <1>6
<1>10. k + q + 1 <= m
      <2>1. SUFFICES ASSUME m <= k + q PROVE FALSE
            BY <1>6
      <2>2. m * ITER_BYTES <= (k + q) * ITER_BYTES
            BY <1>1, <1>6, <2>1, TimesMonotone
      <2>3. Z.to <= it + q * ITER_BYTES
            BY <1>1, <1>4, <1>5, <1>6, <1>9, <2>2
      <2>4. it + q * ITER_BYTES <= Len0 - 2 * ITER_BYTES - 1
            BY <1>1, <1>3, <1>5, <1>6, <1>7, <1>8
      <2>5. Len0 < Z.to + LOOKAHEAD + ITER_BYTES
            BY <1>2 DEF ZoneFits
      <2>6. Z.to \in Int /\ it \in Int
            BY <1>1, <1>3, <1>4, <1>5
      <2>7. QED  BY <1>1, <1>7, <2>3, <2>4, <2>5, <2>6
<1>11. (k + q + 1) * ITER_BYTES <= m * ITER_BYTES
      BY <1>1, <1>6, <1>10, TimesMonotone
<1>12. (k + q + 1) * ITER_BYTES = (k + q) * ITER_BYTES + ITER_BYTES
      BY <1>1, <1>6
<1>13. (k + q) * ITER_BYTES \in Nat
      BY <1>1, <1>6
<1>14. it + q * ITER_BYTES + ITER_BYTES <= Z.to
      BY <1>1, <1>4, <1>5, <1>9, <1>11, <1>12, <1>13
<1>15. OnGrid(it + q * ITER_BYTES)
      BY <1>6, <1>9 DEF OnGrid
<1>16. QED  BY <1>14, <1>15 DEF q

\* A run that flood_detect looks for begins in the buffer, before the suffix.
LEMMA RunStartsBefore ==
    ASSUME PlaceInv, at = "flood", ~NoRun
    PROVE  LET c == buf[it + 1] IN
           /\ RunStart \in Nat /\ RunStart <= it
           /\ c \in DOMAIN table.floods /\ table.floods[c].suffix \in Nat
           /\ RunStart <= it - table.floods[c].suffix /\ table.floods[c].suffix <= it
<1> DEFINE s == table.floods[buf[it + 1]].suffix
           m == (align + (it - s)) % WORD
<1>1. /\ Len0 \in Nat /\ start \in Nat /\ ITER_BYTES \in Nat \ {0} /\ WORD \in Nat \ {0}
      /\ LOOKAHEAD \in Nat
      BY Inputs, Widths DEF PlaceInv
<1>2. ~Z.copied /\ ZoneFits(Z) /\ OnGrid(it) /\ BlockFits
      BY DEF PlaceInv, EveryZoneFits, Z
<1>3. it \in Nat /\ it + 1 <= Len0
      <2>1. PICK k \in Nat : it = start + k * ITER_BYTES
            BY <1>2 DEF OnGrid
      <2>2. k * ITER_BYTES \in Nat
            BY <1>1
      <2>3. Z.to \in Int /\ Z.to + LOOKAHEAD <= Len0
            BY <1>2 DEF ZoneFits
      <2>4. QED  BY <1>1, <1>2, <2>1, <2>2, <2>3 DEF BlockFits
<1>4. s \in Nat /\ buf[it + 1] \in DOMAIN table.floods
      <2>1. buf \in Seq(Nat) /\ it + 1 \in DOMAIN buf
            BY <1>3, ConfirmAssumption DEF PlaceInv, Len0
      <2>2. buf[it + 1] \in DOMAIN table.floods
            BY <2>1, FdrAssumption DEF PlaceInv
      <2>3. QED  BY <2>2, FdrAssumption DEF PlaceInv
<1>5. it >= s + WORD - 1
      BY <1>1, <1>3, <1>4 DEF NoRun
<1>6. align \in Nat
      BY FdrAssumption, <1>1 DEF PlaceInv
<1> HIDE DEF s
<1>7. m \in 0..WORD-1
      BY <1>1, <1>3, <1>4, <1>5, <1>6, Divides
<1>8. RunStart = it - s - m
      BY DEF RunStart, RoundDown, s
<1> HIDE DEF m
<1>9. RunStart \in Nat /\ RunStart <= it /\ RunStart <= it - s /\ s <= it
      BY <1>1, <1>3, <1>4, <1>5, <1>7, <1>8
<1>10. QED  BY <1>4, <1>9 DEF s

-----------------------------------------------------------------------------
LEMMA PlaceInit == Init => PlaceInv
<1> SUFFICES ASSUME Init PROVE PlaceInv
    OBVIOUS
<1>1. buf \in Buffers /\ table \in Tables /\ start \in Starts /\ start < Len0 /\ align \in Aligns
      BY DEF Init, ConfirmInit
<1>2. zones = Zones(FirstFlood)
      BY DEF Init
<1>3. Len(zones) \in Nat \ {0} /\ \A i \in 1..Len(zones) : ZoneFits(zones[i])
      BY <1>1, <1>2, ZonesFit
<1>4. zone = 1 /\ it = Z.from /\ tryFlood = Z.floodFrom /\ at = "scan" /\ ret = "scan"
      BY DEF Init, Z
<1>5. zone \in 1..Len(zones) /\ ZoneFits(Z)
      BY <1>3, <1>4 DEF Z
<1>6. it \in Int /\ (~Z.copied => OnGrid(it))
      BY <1>4, <1>5 DEF ZoneFits
<1>7. QED  BY <1>1, <1>3, <1>4, <1>5, <1>6 DEF PlaceInv, EveryZoneFits, ControlPoints, Confirming

\* What no step of the engine changes, and what follows when the zone and the
\* place in it stay.
LEMMA InputsStay ==
    ASSUME PlaceInv, UNCHANGED <<table, buf, start, align, zones>>
    PROVE  /\ table' \in Tables /\ buf' \in Buffers /\ start' \in Starts /\ align' \in Aligns
           /\ EveryZoneFits'
           /\ \A x : OnGrid(x)' <=> OnGrid(x)
BY DEF PlaceInv, EveryZoneFits, ZoneFits, OnGrid, Len0

LEMMA PlaceStays ==
    ASSUME PlaceInv, UNCHANGED <<table, buf, start, align, zones, zone, it, tryFlood>>,
           at' \in ControlPoints, ret' \in {"scan", "flood", "zone"},
           at' \in {"flood", "block"} \/ (at' \in Confirming /\ ret' = "flood") => BlockFits /\ ~Z.copied,
           at' \in {"run", "floodcallback"} =>
               /\ ~Z.copied /\ "size" \in DOMAIN flood' /\ flood'.size = flood.size
               /\ OnGrid(it + flood.size) /\ it + flood.size + ITER_BYTES <= Z.to
    PROVE  PlaceInv'
<1>1. /\ table' \in Tables /\ buf' \in Buffers /\ start' \in Starts /\ align' \in Aligns
      /\ EveryZoneFits'
      /\ \A x : OnGrid(x)' <=> OnGrid(x)
      BY InputsStay
<1>2. Z' = Z /\ (BlockFits' <=> BlockFits)
      BY DEF Z, BlockFits
<1>3. QED  BY <1>1, <1>2 DEF PlaceInv

LEMMA PlaceStep == PlaceInv /\ [Next]_vars => PlaceInv'
<1> SUFFICES ASSUME PlaceInv, [Next]_vars PROVE PlaceInv'
    OBVIOUS
<1>0. /\ zone \in 1..Len(zones) /\ it \in Int /\ ZoneFits(Z) /\ ITER_BYTES \in Nat \ {0}
      /\ at \in ControlPoints /\ ret \in {"scan", "flood", "zone"}
      BY Widths DEF PlaceInv, EveryZoneFits, Z
<1>1. CASE Probe
      <2>1. BlockFits /\ ~Z.copied
            <3>1. BlockFits /\ it > tryFlood
                  BY <1>1 DEF Probe
            <3>2. SUFFICES ASSUME Z.copied PROVE FALSE
                  BY <3>1
            <3>3. tryFlood = Z.floodFrom /\ Z.to <= Z.floodFrom /\ it + ITER_BYTES <= Z.to /\ Z.to \in Int
                  BY <1>0, <3>1, <3>2 DEF PlaceInv, ZoneFits, BlockFits
            <3>4. Z.floodFrom \in Int
                  BY <1>0, <3>2 DEF ZoneFits
            <3>5. QED  BY <1>0, <3>1, <3>3, <3>4
      <2>2. /\ at' = "flush" /\ ret' = "flood"
            /\ UNCHANGED <<table, buf, start, align, zones, zone, it, tryFlood, flood>>
            BY <1>1 DEF Probe, ConfirmFirst
      <2>3. QED  BY <2>1, <2>2, PlaceStays DEF ControlPoints
<1>2. CASE ScanBlock
      <2>1. /\ at' \in {"flush", "scan"} /\ ret' = "scan" /\ it' = it + ITER_BYTES
            /\ UNCHANGED <<table, buf, start, align, zones, zone, tryFlood, flood>>
            BY <1>2 DEF ScanBlock
      <2>2. Z' = Z
            BY <2>1 DEF Z
      <2>3. OnGrid(it) => OnGrid(it + ITER_BYTES)
            <3>1. SUFFICES ASSUME NEW k \in Nat, it = start + k * ITER_BYTES
                           PROVE  OnGrid(it + ITER_BYTES)
                  BY DEF OnGrid
            <3>2. k + 1 \in Nat /\ it + ITER_BYTES = start + (k + 1) * ITER_BYTES
                  BY <1>0, <3>1, Inputs DEF PlaceInv
            <3>3. QED  BY <3>2 DEF OnGrid
      <2>4. /\ table' \in Tables /\ buf' \in Buffers /\ start' \in Starts /\ align' \in Aligns
            /\ EveryZoneFits'
            /\ \A x : OnGrid(x)' <=> OnGrid(x)
            BY <2>1, InputsStay
      <2>5. it' \in Int /\ (~Z.copied => OnGrid(it)')
            BY <1>0, <2>1, <2>3, <2>4 DEF PlaceInv
      <2>6. QED  BY <2>1, <2>2, <2>4, <2>5 DEF PlaceInv, ControlPoints
<1>3. CASE EndOfZone
      <2>1. /\ at' = "flush" /\ ret' = "zone"
            /\ UNCHANGED <<table, buf, start, align, zones, zone, it, tryFlood, flood>>
            BY <1>3 DEF EndOfZone, ConfirmFirst
      <2>2. QED  BY <2>1, PlaceStays DEF ControlPoints
<1>4. CASE NextZone
      <2>1. CASE zone < Len(zones)
            <3>1. /\ at' = "scan" /\ zone' = zone + 1 /\ ret' = ret
                  /\ UNCHANGED <<table, buf, start, align, zones>>
                  /\ it' = zones[zone + 1].from /\ tryFlood' = zones[zone + 1].floodFrom
                  BY <1>4, <2>1 DEF NextZone
            <3>2. /\ table' \in Tables /\ buf' \in Buffers /\ start' \in Starts /\ align' \in Aligns
                  /\ EveryZoneFits'
                  /\ \A x : OnGrid(x)' <=> OnGrid(x)
                  BY <3>1, InputsStay
            <3>3. zone' \in 1..Len(zones') /\ Z' = zones[zone + 1] /\ zone + 1 \in 1..Len(zones)
                  BY <1>0, <2>1, <3>1 DEF Z
            <3>4. ZoneFits(zones[zone + 1])
                  BY <3>3 DEF PlaceInv, EveryZoneFits
            <3>5. it' \in Int /\ (~Z'.copied => OnGrid(it)') /\ (Z'.copied => tryFlood' = Z'.floodFrom)
                  BY <3>1, <3>2, <3>3, <3>4 DEF ZoneFits
            <3>6. QED  BY <1>0, <3>1, <3>2, <3>3, <3>5 DEF PlaceInv, ControlPoints, Confirming
      <2>2. CASE ~(zone < Len(zones))
            <3>1. /\ at' = "completed" /\ ret' = ret
                  /\ UNCHANGED <<table, buf, start, align, zones, zone, it, tryFlood, flood>>
                  BY <1>4, <2>2 DEF NextZone
            <3>2. QED  BY <1>0, <3>1, PlaceStays DEF ControlPoints, Confirming
      <2>3. QED  BY <2>1, <2>2
<1>5. CASE FlushNext
      <2>1. /\ at = "flush" /\ at' \in {"terminated", ret, "bits"} /\ ret' = ret
            /\ UNCHANGED <<table, buf, start, align, zones, zone, it, tryFlood, flood>>
            BY <1>5 DEF FlushNext, fdrVars
      <2>2. ret = "flood" => BlockFits /\ ~Z.copied
            BY <2>1 DEF PlaceInv, Confirming
      <2>3. QED  BY <1>0, <2>1, <2>2, PlaceStays DEF ControlPoints, Confirming
<1>6. CASE BitsDone \/ NextBit \/ PassLiteral \/ ReportLiteral \/ AnswerLiteral \/ ChainDone
      <2>1. /\ at \in Confirming /\ at' \in Confirming /\ ret' = ret
            /\ UNCHANGED <<table, buf, start, align, zones, zone, it, tryFlood, flood>>
            BY <1>6 DEF BitsDone, NextBit, PassLiteral, ReportLiteral, AnswerLiteral, ChainDone,
                        fdrVars, Confirming
      <2>2. ret = "flood" => BlockFits /\ ~Z.copied
            BY <2>1 DEF PlaceInv
      <2>3. QED  BY <1>0, <2>1, <2>2, PlaceStays DEF ControlPoints, Confirming
<1>7. CASE FloodDetect
      <2>1. /\ at = "flood" /\ at' \in {"block", "run"} /\ ret' = ret
            /\ UNCHANGED <<table, buf, start, align, zones, zone, it>>
            BY <1>7 DEF FloodDetect
      <2>2. BlockFits /\ ~Z.copied
            BY <2>1 DEF PlaceInv
      <2>3. /\ table' \in Tables /\ buf' \in Buffers /\ start' \in Starts /\ align' \in Aligns
            /\ EveryZoneFits'
            /\ \A x : OnGrid(x)' <=> OnGrid(x)
            BY <2>1, InputsStay
      <2>4. Z' = Z /\ (BlockFits' <=> BlockFits)
            BY <2>1 DEF Z, BlockFits
      <2>5. CASE at' = "block"
            BY <1>0, <2>1, <2>2, <2>3, <2>4, <2>5 DEF PlaceInv, ControlPoints, Confirming
      <2>6. CASE at' = "run"
            <3> DEFINE c == buf[it + 1]
                       j == RunEnd(RunStart, c)
            <3>1. /\ ~NoRun /\ j > it
                  /\ flood' = [byte |-> c, first |-> it, t |-> 0, k |-> 1,
                               size |-> ((j - 1 - it) \div ITER_BYTES) * ITER_BYTES,
                               next |-> NextProbe(j - 1, backoff)]
                  BY <1>7, <2>6 DEF FloodDetect
            <3>2. RunStart \in Nat /\ RunStart <= it
                  BY <2>1, <3>1, RunStartsBefore
            <3>3. j \in Nat /\ j <= MainLoopLen
                  <4>1. MainLoopLen \in Nat
                        BY Inputs, Widths DEF MainLoopLen, PlaceInv
                  <4>2. /\ RunStart >= MainLoopLen => j = RunStart
                        /\ RunStart < MainLoopLen => j \in RunStart..MainLoopLen
                        BY <3>2, RunEndsInLoop DEF PlaceInv
                  <4> HIDE DEF j
                  <4>3. QED  BY <1>0, <3>1, <3>2, <4>1, <4>2
            <3> DEFINE size == ((j - 1 - it) \div ITER_BYTES) * ITER_BYTES
            <3>4. OnGrid(it + size) /\ it + size + ITER_BYTES <= Z.to
                  BY <2>1, <3>1, <3>3, BlockBehindFloodFits
            <3>5. "size" \in DOMAIN flood' /\ flood'.size = size
                  BY <3>1
            <3> HIDE DEF size
            <3>6. QED  BY <1>0, <2>1, <2>2, <2>3, <2>4, <2>6, <3>4, <3>5 DEF PlaceInv, ControlPoints, Confirming
      <2>7. QED  BY <2>1, <2>5, <2>6
<1>8. CASE ReportFlood \/ AnswerFlood
      <2>1. /\ at \in {"run", "floodcallback"} /\ at' \in {"run", "floodcallback"} /\ ret' = ret
            /\ UNCHANGED <<table, buf, start, align, zones, zone, it, tryFlood>>
            /\ StepFlood \/ UNCHANGED flood
            BY <1>8 DEF ReportFlood, AnswerFlood
      <2>2. /\ ~Z.copied /\ "size" \in DOMAIN flood
            /\ OnGrid(it + flood.size) /\ it + flood.size + ITER_BYTES <= Z.to
            BY <2>1 DEF PlaceInv
      <2>3. "size" \in DOMAIN flood' /\ flood'.size = flood.size
            BY <2>1, <2>2 DEF StepFlood
      <2>4. QED  BY <1>0, <2>1, <2>2, <2>3, PlaceStays DEF ControlPoints, Confirming
<1>9. CASE FloodDone
      <2>1. /\ at = "run" /\ at' \in {"block", "terminated"} /\ ret' = ret /\ it' = it + flood.size
            /\ UNCHANGED <<table, buf, start, align, zones, zone, flood>>
            BY <1>9 DEF FloodDone
      <2>2. /\ table' \in Tables /\ buf' \in Buffers /\ start' \in Starts /\ align' \in Aligns
            /\ EveryZoneFits'
            /\ \A x : OnGrid(x)' <=> OnGrid(x)
            BY <2>1, InputsStay
      <2>3. /\ ~Z.copied /\ OnGrid(it + flood.size) /\ it + flood.size + ITER_BYTES <= Z.to
            BY <2>1 DEF PlaceInv
      <2>4. it + flood.size \in Int
            <3>1. PICK k \in Nat : it + flood.size = start + k * ITER_BYTES
                  BY <2>3 DEF OnGrid
            <3>2. QED  BY <1>0, <3>1, Inputs DEF PlaceInv
      <2>5. Z' = Z /\ BlockFits'
            BY <2>1, <2>3 DEF Z, BlockFits
      <2>6. QED  BY <1>0, <2>1, <2>2, <2>3, <2>4, <2>5 DEF PlaceInv, ControlPoints, Confirming
<1>10. CASE Finished \/ UNCHANGED vars
      <2>1. UNCHANGED <<table, buf, at, start, align, zones, zone, it, tryFlood, flood, ret>>
            BY <1>10 DEF Finished, vars, fdrVars
      <2>2. QED  BY <1>0, <2>1, PlaceStays DEF PlaceInv
<1>11. QED
      BY <1>1, <1>2, <1>3, <1>4, <1>5, <1>6, <1>7, <1>8, <1>9, <1>10 DEF Next

-----------------------------------------------------------------------------
\* Room for one more block: always, but while the queue is confirmed and
\* after a confirm that ended the scan.
RoomInv ==
    /\ \E S : cands \in Seq(S)
    /\ Len(cands) <= CAP
    /\ at \notin Confirming \cup {"terminated"} => Len(cands) < CAP

LEMMA RoomInit == Init => RoomInv
<1> SUFFICES ASSUME Init PROVE RoomInv
    OBVIOUS
<1>1. cands \in Seq({}) /\ Len(cands) = 0
      BY DEF Init, ConfirmInit
<1>2. QED  BY <1>1, Widths DEF RoomInv

LEMMA StageAddsOne ==
    ASSUME RoomInv, NEW base, NEW bits, Stage(base, bits)
    PROVE  (\E S : cands' \in Seq(S)) /\ Len(cands') <= Len(cands) + 1
<1>1. PICK S : cands \in Seq(S)
      BY DEF RoomInv
<1> DEFINE e == [base |-> base, bits |-> bits]
           U == S \cup {e}
<1>2. cands \in Seq(U) /\ e \in U
      BY <1>1
<1>3. CASE bits = {}
      BY <1>2, <1>3 DEF Stage
<1>4. CASE bits # {}
      <2>1. cands' = Append(cands, e)
            BY <1>4 DEF Stage
      <2> HIDE DEF e, U
      <2>2. cands' \in Seq(U) /\ Len(cands') = Len(cands) + 1
            BY <1>2, <2>1
      <2>3. QED  BY <1>2, <2>2
<1>5. QED  BY <1>3, <1>4

LEMMA RoomStep == RoomInv /\ [Next]_vars => RoomInv'
<1> SUFFICES ASSUME RoomInv, [Next]_vars PROVE RoomInv'
    OBVIOUS
<1>0. CAP \in Nat \ {0} /\ Len(cands) \in Nat
      BY Widths DEF RoomInv
<1>1. CASE ScanBlock
      <2>1. /\ Stage(it, BlockBits) /\ at \in {"scan", "block"}
            /\ at' = IF Len(cands') >= CAP THEN "flush" ELSE "scan"
            BY <1>1 DEF ScanBlock, FullAt
      <2>2. (\E S : cands' \in Seq(S)) /\ Len(cands') <= Len(cands) + 1
            BY <2>1, StageAddsOne
      <2>3. Len(cands') \in Nat
            BY <2>2
      <2>4. QED  BY <1>0, <2>1, <2>2, <2>3 DEF RoomInv, Confirming
<1>2. CASE FlushNext
      <2>1. CASE control /\ cands # <<>>
            <3>1. at' = "bits" /\ cands # <<>> /\ cands' = Tail(cands)
                  BY <1>2, <2>1 DEF FlushNext, TakeCandidate
            <3>2. PICK S : cands \in Seq(S)
                  BY DEF RoomInv
            <3>3. cands' \in Seq(S) /\ Len(cands') = Len(cands) - 1
                  BY <3>1, <3>2
            <3>4. QED  BY <1>0, <3>1, <3>3 DEF RoomInv, Confirming
      <2>2. CASE control /\ cands = <<>>
            BY <1>0, <1>2, <2>2 DEF FlushNext, RoomInv
      <2>3. CASE ~control
            BY <1>0, <1>2, <2>3 DEF FlushNext, RoomInv
      <2>4. QED  BY <2>1, <2>2, <2>3
<1>3. CASE Probe \/ EndOfZone \/ NextZone
      BY <1>0, <1>3 DEF Probe, EndOfZone, NextZone, ConfirmFirst, confirmVars, RoomInv, Confirming
<1>4. CASE BitsDone \/ NextBit \/ PassLiteral \/ ReportLiteral \/ AnswerLiteral \/ ChainDone
      BY <1>4 DEF BitsDone, NextBit, PassLiteral, ReportLiteral, AnswerLiteral, ChainDone,
                  confirmVars, RoomInv, Confirming
<1>5. CASE FloodDetect \/ ReportFlood \/ AnswerFlood \/ FloodDone
      BY <1>5 DEF FloodDetect, ReportFlood, AnswerFlood, FloodDone, confirmVars, RoomInv, Confirming
<1>6. CASE Finished \/ UNCHANGED vars
      BY <1>6 DEF Finished, vars, confirmVars, RoomInv
<1>7. QED
      BY <1>1, <1>2, <1>3, <1>4, <1>5, <1>6 DEF Next

-----------------------------------------------------------------------------
(***************************************************************************)
(* How far the backoff of the flood probes doubles.  A failing probe waits *)
(* for less than the buffer, or it is the last but one: the next probe     *)
(* lies behind the main loop, where one block at most is left.             *)
(***************************************************************************)
Most == Larger(BACKOFF, Len0)

Small == backoff <= Most
WaitsFor(probe) == backoff <= 2 * Most /\ probe = MainLoopLen
LastBlock == it + ITER_BYTES > Len0 \/ (at = "block" /\ it + 2 * ITER_BYTES > Len0)

BackoffInv ==
    /\ backoff \in Nat /\ backoff <= 4 * Most
    /\ \A i \in 1..Len(zones) : zones[i].copied \/ i = 2
    /\ zone = 1 => Small
    /\ at = "flood" \/ (at \in Confirming /\ ret = "flood") => it > tryFlood
    /\ ~Z.copied =>
          IF at \in {"run", "floodcallback"}
          THEN "next" \in DOMAIN flood /\ (Small \/ WaitsFor(flood.next))
          ELSE Small \/ WaitsFor(tryFlood) \/ LastBlock

LEMMA MostType ==
    ASSUME PlaceInv
    PROVE  /\ Most \in Nat /\ Len0 \in Nat /\ Len0 <= Most /\ BACKOFF \in Nat /\ BACKOFF <= Most
           /\ ITER_BYTES \in Nat \ {0} /\ FLOOD_TAIL \in Nat
           /\ MainLoopLen \in Nat /\ MainLoopLen <= Len0 /\ Len0 <= MainLoopLen + 2 * ITER_BYTES
<1>1. Len0 \in Nat /\ BACKOFF \in Nat /\ ITER_BYTES \in Nat \ {0} /\ FLOOD_TAIL \in Nat
      BY Inputs, Widths, FdrAssumption DEF PlaceInv
<1>2. QED  BY <1>1 DEF Most, Larger, MainLoopLen

\* A probe that waits for w bytes finds w less than the buffer, or there is none.
LEMMA ProbeWaits ==
    ASSUME PlaceInv, NEW j \in Nat, NEW w \in Nat
    PROVE  NextProbe(j, w) = MainLoopLen \/ w <= Most
BY MostType DEF NextProbe

\* Only the zone in the middle is not a copy.
LEMMA MainIsSecond ==
    ASSUME NEW f
    PROVE  \A i \in 1..Len(Zones(f)) : Zones(f)[i].copied \/ i = 2
<1>1. \A low, len, blocks, skip, end, pad : Copy(low, len, blocks, skip, end, pad).copied
      BY DEF Copy
<1>2. /\ ShortZone(start, Len0).copied /\ StartZone(start).copied
      /\ \A b : EndZone(b, Len0).copied
      BY <1>1 DEF ShortZone, StartZone, EndZone
<1> DEFINE begin == start + ITER_BYTES
<1>3. \/ Zones(f) = << ShortZone(start, Len0) >>
      \/ Zones(f) = << StartZone(start), MainZone(begin, MainEnd, f), EndZone(MainEnd, Len0) >>
      \/ Zones(f) = << StartZone(start), EndZone(begin, Len0) >>
      BY DEF Zones
<1> HIDE DEF begin
<1>4. QED  BY <1>2, <1>3

\* The end of the run that a probe looks at.
LEMMA RunEndType ==
    ASSUME PlaceInv, at = "flood", ~NoRun
    PROVE  RunEnd(RunStart, buf[it + 1]) \in Nat
<1>1. RunStart \in Nat
      BY RunStartsBefore
<1>2. MainLoopLen \in Nat
      BY MostType
<1>3. QED  BY <1>1, <1>2, RunEndsInLoop DEF PlaceInv

LEMMA BackoffInit == Init => BackoffInv
<1> SUFFICES ASSUME Init PROVE BackoffInv
    OBVIOUS
<1>1. PlaceInv
      BY PlaceInit
<1>2. /\ backoff = BACKOFF /\ zones = Zones(FirstFlood) /\ at = "scan" /\ zone = 1
      BY DEF Init
<1>3. \A i \in 1..Len(zones) : zones[i].copied \/ i = 2
      BY <1>2, MainIsSecond
<1>4. backoff \in Nat /\ backoff <= 4 * Most /\ Small
      BY <1>1, <1>2, MostType DEF Small
<1>5. QED  BY <1>2, <1>3, <1>4 DEF BackoffInv, Confirming

LEMMA BackoffStep == PlaceInv /\ BackoffInv /\ [Next]_vars => BackoffInv'
<1> SUFFICES ASSUME PlaceInv, BackoffInv, [Next]_vars PROVE BackoffInv'
    OBVIOUS
<1>0. /\ Most \in Nat /\ Len0 \in Nat /\ ITER_BYTES \in Nat \ {0} /\ MainLoopLen \in Nat
      /\ MainLoopLen <= Len0 /\ Len0 <= MainLoopLen + 2 * ITER_BYTES
      /\ it \in Int /\ backoff \in Nat
      /\ at \in ControlPoints /\ ret \in {"scan", "flood", "zone"} /\ zone \in 1..Len(zones)
      BY MostType DEF PlaceInv, BackoffInv
<1>b. buf' = buf /\ zones' = zones
      BY DEF Next, Probe, ScanBlock, EndOfZone, NextZone, FlushNext, BitsDone, NextBit, PassLiteral,
             ReportLiteral, AnswerLiteral, ChainDone, FloodDetect, ReportFlood, AnswerFlood,
             FloodDone, Finished, ConfirmFirst, fdrVars, vars
<1>c. Most' = Most /\ Len0' = Len0 /\ MainLoopLen' = MainLoopLen
      BY <1>b DEF Most, MainLoopLen, Len0
<1>z. zone' = zone => Z' = Z
      BY <1>b DEF Z
<1>1. CASE Probe
      <2>1. /\ at = "scan" /\ at' = "flush" /\ it > tryFlood
            /\ UNCHANGED <<zone, it, tryFlood, backoff>>
            BY <1>1 DEF Probe, ConfirmFirst
      <2>2. QED  BY <1>b, <1>c, <1>z, <2>1 DEF BackoffInv, Small, WaitsFor, LastBlock
<1>2. CASE ScanBlock
      <2>1. /\ at \in {"scan", "block"} /\ at' \in {"flush", "scan"} /\ ret' = "scan"
            /\ it' = it + ITER_BYTES
            /\ UNCHANGED <<zone, tryFlood, backoff>>
            BY <1>2 DEF ScanBlock
      <2>2. LastBlock => LastBlock'
            BY <1>0, <1>c, <2>1 DEF LastBlock
      <2>3. QED  BY <1>b, <1>c, <1>z, <2>1, <2>2 DEF BackoffInv, Small, WaitsFor
<1>3. CASE EndOfZone
      <2>1. /\ at = "scan" /\ at' = "flush" /\ ret' = "zone"
            /\ UNCHANGED <<zone, it, tryFlood, backoff>>
            BY <1>3 DEF EndOfZone, ConfirmFirst
      <2>2. QED  BY <1>b, <1>c, <1>z, <2>1 DEF BackoffInv, Small, WaitsFor, LastBlock
<1>4. CASE NextZone
      <2>1. at = "zone" /\ UNCHANGED <<backoff, ret>>
            BY <1>4 DEF NextZone
      <2>2. CASE zone < Len(zones)
            <3>1. at' = "scan" /\ zone' = zone + 1 /\ zone + 1 \in 1..Len(zones) /\ zone' # 1
                  BY <1>0, <1>4, <2>2 DEF NextZone
            <3>2. ~Z'.copied => Small
                  <4>1. Z' = zones[zone + 1]
                        BY <1>b, <3>1 DEF Z
                  <4>2. ~Z'.copied => zone = 1
                        BY <1>0, <3>1, <4>1 DEF BackoffInv
                  <4>3. QED  BY <4>2 DEF BackoffInv
            <3>3. QED  BY <1>b, <1>c, <2>1, <3>1, <3>2 DEF BackoffInv, Small, Confirming
      <2>3. CASE ~(zone < Len(zones))
            <3>1. at' = "completed" /\ UNCHANGED <<zone, it, tryFlood>>
                  BY <1>4, <2>3 DEF NextZone
            <3>2. QED  BY <1>b, <1>c, <1>z, <2>1, <3>1 DEF BackoffInv, Small, WaitsFor, LastBlock, Confirming
      <2>4. QED  BY <2>2, <2>3
<1>5. CASE \/ FlushNext \/ BitsDone \/ NextBit \/ PassLiteral \/ ReportLiteral \/ AnswerLiteral
           \/ ChainDone
      <2>1. /\ at \in Confirming /\ at' \in Confirming \cup {"terminated", ret}
            /\ UNCHANGED <<zone, it, tryFlood, backoff, ret>>
            BY <1>5 DEF FlushNext, BitsDone, NextBit, PassLiteral, ReportLiteral, AnswerLiteral,
                        ChainDone, fdrVars, Confirming
      <2>2. /\ at # "block" /\ at \notin {"run", "floodcallback"}
            /\ at' # "block" /\ at' \notin {"run", "floodcallback"}
            /\ at' = "flood" => ret = "flood"
            BY <1>0, <2>1 DEF Confirming
      <2>3. QED  BY <1>b, <1>c, <1>z, <2>1, <2>2 DEF BackoffInv, Small, WaitsFor, LastBlock
<1>6. CASE FloodDetect
      <2>1. at = "flood" /\ UNCHANGED <<zone, it, ret>>
            BY <1>6 DEF FloodDetect
      <2>2. ~Z.copied /\ BlockFits /\ it > tryFlood /\ zone # 1
            <3>1. ~Z.copied /\ BlockFits /\ it > tryFlood
                  BY <2>1 DEF PlaceInv, BackoffInv
            <3>2. QED  BY <1>0, <3>1 DEF BackoffInv, Z
      <2>3. it \in Nat /\ it + ITER_BYTES <= Len0
            <3>1. Z.to \in Int /\ Z.to + LOOKAHEAD <= Len0 /\ OnGrid(it)
                  BY <1>0, <2>2 DEF PlaceInv, EveryZoneFits, ZoneFits, Z
            <3>2. PICK k \in Nat : it = start + k * ITER_BYTES
                  BY <3>1 DEF OnGrid
            <3>3. k * ITER_BYTES \in Nat /\ start \in Nat /\ LOOKAHEAD \in Nat
                  BY <1>0, Inputs, Widths DEF PlaceInv
            <3>4. QED  BY <1>0, <2>2, <3>1, <3>2, <3>3 DEF BlockFits
      <2>4. ~LastBlock /\ (Small \/ (WaitsFor(tryFlood) /\ it > MainLoopLen))
            <3>1. ~LastBlock
                  BY <1>0, <2>1, <2>3 DEF LastBlock
            <3>2. Small \/ WaitsFor(tryFlood)
                  BY <2>1, <2>2, <3>1 DEF BackoffInv
            <3>3. QED  BY <2>2, <3>1, <3>2 DEF WaitsFor
      <2>5. CASE at' = "block"
            <3>1. backoff' = 2 * backoff
                  BY <1>6, <2>5 DEF FloodDetect
            <3>2. PICK j \in Nat : tryFlood' = NextProbe(j, 2 * backoff)
                  <4>1. CASE NoRun
                        BY <1>6, <2>3, <4>1 DEF FloodDetect
                  <4>2. CASE ~NoRun
                        BY <1>6, <2>1, <2>5, <4>2, RunEndType DEF FloodDetect
                  <4>3. QED  BY <4>1, <4>2
            <3>3. tryFlood' = MainLoopLen \/ backoff' <= Most
                  BY <1>0, <3>1, <3>2, ProbeWaits
            <3>4. CASE Small
                  <4>1. backoff' \in Nat /\ backoff' <= 2 * Most /\ backoff' <= 4 * Most
                        BY <1>0, <3>1, <3>4 DEF Small
                  <4>2. Small' \/ WaitsFor(tryFlood)'
                        BY <1>c, <3>3, <4>1 DEF Small, WaitsFor
                  <4>3. QED  BY <1>b, <1>c, <1>z, <2>1, <2>2, <2>5, <4>1, <4>2 DEF BackoffInv, Confirming
            <3>5. CASE WaitsFor(tryFlood) /\ it > MainLoopLen
                  <4>1. backoff' \in Nat /\ backoff' <= 4 * Most
                        BY <1>0, <3>1, <3>5 DEF WaitsFor
                  <4>2. LastBlock'
                        BY <1>0, <1>c, <2>1, <2>5, <3>5 DEF LastBlock
                  <4>3. QED  BY <1>b, <1>c, <1>z, <2>1, <2>2, <2>5, <4>1, <4>2 DEF BackoffInv, Confirming
            <3>6. QED  BY <2>4, <3>4, <3>5
      <2>6. CASE at' = "run"
            <3> DEFINE j == RunEnd(RunStart, buf[it + 1])
                       n == NextProbe(j - 1, backoff)
            <3>1. /\ ~NoRun /\ j > it /\ UNCHANGED backoff
                  /\ flood' = [byte |-> buf[it + 1], first |-> it, t |-> 0, k |-> 1,
                               size |-> ((j - 1 - it) \div ITER_BYTES) * ITER_BYTES,
                               next |-> n]
                  BY <1>6, <2>6 DEF FloodDetect
            <3>2. j \in Nat
                  BY <2>1, <3>1, RunEndType
            <3>3. n = MainLoopLen \/ backoff <= Most
                  <4> HIDE DEF j
                  <4>1. j - 1 \in Nat
                        BY <2>3, <3>1, <3>2
                  <4>2. QED  BY <1>0, <4>1, ProbeWaits
            <3>4. "next" \in DOMAIN flood' /\ flood'.next = n
                  BY <3>1
            <3> HIDE DEF n
            <3>5. Small' \/ WaitsFor(flood.next)'
                  <4>1. backoff <= 2 * Most
                        BY <1>0, <2>4 DEF Small, WaitsFor
                  <4>2. QED  BY <1>c, <3>1, <3>3, <3>4, <4>1 DEF Small, WaitsFor
            <3>6. QED  BY <1>b, <1>c, <1>z, <2>1, <2>2, <2>6, <3>1, <3>4, <3>5 DEF BackoffInv, Confirming
      <2>7. QED  BY <1>6, <2>5, <2>6 DEF FloodDetect
<1>7. CASE ReportFlood \/ AnswerFlood
      <2>1. /\ at \in {"run", "floodcallback"} /\ at' \in {"run", "floodcallback"}
            /\ UNCHANGED <<zone, it, tryFlood, backoff, ret>>
            /\ StepFlood \/ UNCHANGED flood
            BY <1>7 DEF ReportFlood, AnswerFlood
      <2>2. "next" \in DOMAIN flood => "next" \in DOMAIN flood' /\ flood'.next = flood.next
            BY <2>1 DEF StepFlood
      <2>3. at' # "flood" /\ at' \notin Confirming
            BY <2>1 DEF Confirming
      <2>4. QED  BY <1>b, <1>c, <1>z, <2>1, <2>2, <2>3 DEF BackoffInv, Small, WaitsFor
<1>8. CASE FloodDone
      <2>1. /\ at = "run" /\ at' \in {"block", "terminated"} /\ tryFlood' = flood.next
            /\ UNCHANGED <<zone, backoff, ret>>
            BY <1>8 DEF FloodDone
      <2>2. ~Z.copied
            BY <2>1 DEF PlaceInv
      <2>3. Small' \/ WaitsFor(tryFlood)'
            BY <1>c, <2>1, <2>2 DEF BackoffInv, Small, WaitsFor
      <2>4. at' # "flood" /\ at' \notin Confirming
            BY <2>1 DEF Confirming
      <2>5. QED  BY <1>b, <1>c, <1>z, <2>1, <2>3, <2>4 DEF BackoffInv, Small
<1>9. CASE Finished \/ UNCHANGED vars
      <2>1. UNCHANGED <<at, zone, it, tryFlood, backoff, flood, ret>>
            BY <1>9 DEF Finished, vars, fdrVars
      <2>2. QED  BY <1>b, <1>c, <1>z, <2>1 DEF BackoffInv, Small, WaitsFor, LastBlock
<1>10. QED
      BY <1>1, <1>2, <1>3, <1>4, <1>5, <1>6, <1>7, <1>8, <1>9 DEF Next

-----------------------------------------------------------------------------
\* Every block lies inside its zone, and what is read behind a block of the
\* main zone inside the buffer.
THEOREM BlocksInZones == Spec => []BlockInZone
<1>1. PlaceInv => BlockInZone
      <2> SUFFICES ASSUME PlaceInv, at = "block" \/ (at = "scan" /\ BlockFits)
                   PROVE  BlockFits /\ (~Z.copied => it + ITER_BYTES + LOOKAHEAD <= Len0)
          BY DEF BlockInZone
      <2>1. BlockFits
            BY DEF PlaceInv
      <2>2. ASSUME ~Z.copied PROVE it + ITER_BYTES + LOOKAHEAD <= Len0
            <3>1. Z.to \in Int /\ Z.to + LOOKAHEAD <= Len0
                  BY <2>2 DEF PlaceInv, EveryZoneFits, ZoneFits, Z
            <3>2. it \in Int /\ Len0 \in Nat /\ ITER_BYTES \in Nat /\ LOOKAHEAD \in Nat
                  BY Inputs, Widths DEF PlaceInv
            <3>3. QED  BY <2>1, <3>1, <3>2 DEF BlockFits
      <2>3. QED  BY <2>1, <2>2
<1>2. QED  BY <1>1, PlaceInit, PlaceStep, PTL DEF Spec

\* The queue of candidate blocks never outgrows its array.
THEOREM QueueNeverOverflows == Spec => []QueueFits
<1>1. RoomInv => QueueFits
      BY DEF RoomInv, QueueFits
<1>2. QED  BY <1>1, RoomInit, RoomStep, PTL DEF Spec

\* The backoff of the flood probes stays within four times the buffer.
THEOREM BackoffStaysBounded == Spec => []BackoffBounded
<1>1. BackoffInv => BackoffBounded
      BY DEF BackoffInv, BackoffBounded, Most
<1>2. Spec => []PlaceInv
      BY PlaceInit, PlaceStep, PTL DEF Spec
<1>3. Init /\ [][Next]_vars /\ []PlaceInv => []BackoffInv
      BY BackoffInit, BackoffStep, PTL
<1>4. QED  BY <1>1, <1>2, <1>3, PTL DEF Spec

-----------------------------------------------------------------------------
(***************************************************************************)
(* What the engine finds.  The zones follow each other in the buffer and   *)
(* show it as it is; the engine has looked at the buffer from start to     *)
(* Frontier.                                                               *)
(***************************************************************************)
ByteAt(i) == IF i \in 0..Len0-1 THEN buf[i + 1] ELSE 0

ZoneStart(z) == z.from + z.skip + z.adjust
ZoneEnd(z) == z.to + z.adjust

\* Also in the bytes before a zone at which a confirm looks, and in the one
\* behind it that the last bytes of the zone are hashed with.
ZoneShows(z) ==
    \A y \in z.from + z.skip - CONF_BYTES + 1 .. z.to :
        y + z.adjust < Len0 => ZoneByte(z, y) = ByteAt(y + z.adjust)

ZoneCut(z) ==
    /\ z.from \in Int /\ z.to \in Int /\ z.adjust \in Int /\ z.skip \in 0..ITER_BYTES
    /\ \E k \in Nat \ {0} : z.to = z.from + k * ITER_BYTES
    /\ ZoneStart(z) \in start..Len0 /\ ZoneEnd(z) <= Len0
    /\ ~z.copied => z.skip = 0 /\ z.adjust = 0 /\ z.from >= start + ITER_BYTES
    /\ ZoneShows(z)

CutInv ==
    /\ \A i \in 1..Len(zones) : ZoneCut(zones[i])
    /\ \A i \in 1..Len(zones)-1 : ZoneEnd(zones[i]) = ZoneStart(zones[i + 1])
    /\ ZoneStart(zones[1]) = start /\ ZoneEnd(zones[Len(zones)]) = Len0

-----------------------------------------------------------------------------
(***************************************************************************)
(* prepare_zones cuts the buffer.                                          *)
(***************************************************************************)
LEMMA CopyShows ==
    ASSUME buf \in Buffers, NEW low \in Nat, NEW len \in Nat, NEW skip \in 0..ITER_BYTES,
           NEW end \in Int, NEW pad, NEW blocks \in Int,
           len - blocks * ITER_BYTES + skip - CONF_BYTES + 1 >= 0 \/ len = end,
           end <= Len0,
           end < Len0 => pad = buf[end + 1], len <= end
    PROVE  ZoneShows(Copy(low, len, blocks, skip, end, pad))
<1> DEFINE w == blocks * ITER_BYTES
<1>1. w \in Int /\ ITER_BYTES \in Nat /\ CONF_BYTES \in Nat /\ Len0 \in Nat
      BY Widths, ConfirmAssumption DEF Len0
<1>2. PICK z : z = Copy(low, len, blocks, skip, end, pad)
      OBVIOUS
<1>3. /\ z.copied = TRUE /\ z.low = low /\ z.from = low + len - w /\ z.to = low + len
      /\ z.skip = skip /\ z.adjust = end - (low + len) /\ z.pad = pad
      BY <1>2 DEF Copy
<1>4. len - w + skip - CONF_BYTES + 1 >= 0 \/ len = end
      OBVIOUS
<1> HIDE DEF w
<1>5. ASSUME NEW y \in z.from + z.skip - CONF_BYTES + 1 .. z.to, y + z.adjust < Len0
      PROVE  ZoneByte(z, y) = ByteAt(y + z.adjust)
      <2>1. CASE y \in low..low + len - 1
            <3>1. y + z.adjust \in 0..Len0-1
                  BY <1>1, <1>3, <1>5, <2>1
            <3>2. QED  BY <1>1, <1>3, <2>1, <3>1 DEF ZoneByte, ByteAt
      <2>2. CASE y = low + len
            <3>1. y + z.adjust = end /\ end < Len0 /\ y = z.to
                  BY <1>1, <1>3, <1>5, <2>2
            <3>2. QED  BY <1>1, <1>3, <2>2, <3>1 DEF ZoneByte, ByteAt
      <2>3. CASE y < low
            <3>1. len = end
                  BY <1>1, <1>3, <1>4, <1>5, <2>3
            <3>2. y + z.adjust < 0 /\ y # z.to
                  BY <1>1, <1>3, <2>3, <3>1
            <3>3. QED  BY <1>1, <1>3, <2>3, <3>2 DEF ZoneByte, ByteAt
      <2>4. y \in low..low + len - 1 \/ y = low + len \/ y < low
            BY <1>1, <1>3, <1>5
      <2>5. QED  BY <2>1, <2>2, <2>3, <2>4
<1>6. QED  BY <1>2, <1>5 DEF ZoneShows

LEMMA CopyCuts ==
    ASSUME buf \in Buffers, NEW low \in Nat, NEW len \in Nat, NEW skip \in 0..ITER_BYTES,
           NEW end \in Int, NEW pad, NEW blocks \in Nat \ {0},
           len - blocks * ITER_BYTES + skip - CONF_BYTES + 1 >= 0 \/ len = end,
           end <= Len0, end < Len0 => pad = buf[end + 1], len <= end, start \in Nat,
           end - blocks * ITER_BYTES + skip \in start..Len0
    PROVE  LET z == Copy(low, len, blocks, skip, end, pad)
           IN  ZoneCut(z) /\ ZoneStart(z) = end - blocks * ITER_BYTES + skip /\ ZoneEnd(z) = end
<1> DEFINE w == blocks * ITER_BYTES
<1>1. w \in Int /\ ITER_BYTES \in Nat /\ CONF_BYTES \in Nat /\ Len0 \in Nat
      BY Widths, ConfirmAssumption DEF Len0
<1>2. PICK z : z = Copy(low, len, blocks, skip, end, pad)
      OBVIOUS
<1>3. /\ z.copied = TRUE /\ z.from = low + len - w /\ z.to = low + len
      /\ z.skip = skip /\ z.adjust = end - (low + len)
      BY <1>2 DEF Copy
<1>4. ZoneShows(z)
      BY <1>2, CopyShows
<1>5. ZoneStart(z) = end - w + skip /\ ZoneEnd(z) = end
      BY <1>1, <1>3 DEF ZoneStart, ZoneEnd
<1>6. z.to = z.from + blocks * ITER_BYTES
      BY <1>1, <1>3
<1>7. ZoneCut(z)
      BY <1>1, <1>3, <1>4, <1>5, <1>6 DEF ZoneCut
<1>8. QED  BY <1>2, <1>5, <1>7

\* The two ways in which a copy is cut: the bytes before it are the buffer's,
\* or there are none.
LEMMA SmallerCuts ==
    ASSUME NEW e \in Nat, NEW m \in Nat
    PROVE  /\ Smaller(e, m) \in Nat /\ Smaller(e, m) <= e
           /\ Smaller(e, m) = e \/ Smaller(e, m) = m
BY DEF Smaller

LEMMA ShortCuts ==
    ASSUME buf \in Buffers, start \in Starts, start < Len0, Len0 - start <= ITER_BYTES
    PROVE  LET z == ShortZone(start, Len0)
           IN  ZoneCut(z) /\ ZoneStart(z) = start /\ ZoneEnd(z) = Len0
<1> DEFINE len == Smaller(Len0, ITER_BYTES + CONF_BYTES)
           skip == ITER_BYTES - (Len0 - start)
<1>1. /\ Len0 \in Nat /\ start \in Nat /\ ITER_BYTES \in Nat \ {0} /\ CONF_BYTES \in Nat \ {0}
      BY Inputs, Widths
<1>2. len \in Nat /\ len <= Len0 /\ (len = Len0 \/ len = ITER_BYTES + CONF_BYTES)
      BY <1>1, SmallerCuts
<1>3. skip \in 0..ITER_BYTES /\ Len0 - 1 * ITER_BYTES + skip = start
      BY <1>1
<1>4. len - 1 * ITER_BYTES + skip - CONF_BYTES + 1 >= 0 \/ len = Len0
      BY <1>1, <1>2, <1>3
<1>5. ShortZone(start, Len0) = Copy(ITER_BYTES, len, 1, skip, Len0, 0)
      BY DEF ShortZone
<1> HIDE DEF len, skip
<1>6. Len0 - 1 * ITER_BYTES + skip \in start..Len0
      BY <1>1, <1>3
<1>7. QED  BY <1>1, <1>2, <1>3, <1>4, <1>5, <1>6, CopyCuts

LEMMA StartCuts ==
    ASSUME buf \in Buffers, start \in Starts, start < Len0, Len0 - start > ITER_BYTES
    PROVE  LET z == StartZone(start)
           IN  ZoneCut(z) /\ ZoneStart(z) = start /\ ZoneEnd(z) = start + ITER_BYTES
<1> DEFINE end == start + ITER_BYTES
           len == Smaller(end, ITER_BYTES + CONF_BYTES)
<1>1. /\ Len0 \in Nat /\ start \in Nat /\ ITER_BYTES \in Nat \ {0} /\ CONF_BYTES \in Nat \ {0}
      /\ CONF_BYTES <= ITER_BYTES
      BY Inputs, Widths
<1>2. end \in Nat /\ end < Len0 /\ end - 1 * ITER_BYTES + 0 = start
      BY <1>1
<1>3. len \in Nat /\ len <= end /\ (len = end \/ len = ITER_BYTES + CONF_BYTES)
      BY <1>1, <1>2, SmallerCuts
<1>4. len - 1 * ITER_BYTES + 0 - CONF_BYTES + 1 >= 0 \/ len = end
      BY <1>1, <1>3
<1>5. StartZone(start) = Copy(CONF_BYTES, len, 1, 0, end, buf[end + 1])
      BY DEF StartZone
<1> HIDE DEF len
<1>6. /\ end - 1 * ITER_BYTES + 0 \in start..Len0 /\ 0 \in 0..ITER_BYTES
      /\ end <= Len0 /\ end \in Int
      BY <1>1, <1>2
<1>7. PICK pad : pad = buf[end + 1]
      OBVIOUS
<1> HIDE DEF end
<1>8. LET z == Copy(CONF_BYTES, len, 1, 0, end, pad)
      IN  ZoneCut(z) /\ ZoneStart(z) = end - 1 * ITER_BYTES + 0 /\ ZoneEnd(z) = end
      BY <1>1, <1>3, <1>4, <1>6, <1>7, CopyCuts
<1>9. QED  BY <1>2, <1>5, <1>7, <1>8 DEF end

LEMMA EndCuts ==
    ASSUME buf \in Buffers, start \in Starts, start < Len0, NEW begin \in Nat,
           start <= begin, begin <= Len0, Len0 <= begin + 2 * ITER_BYTES
    PROVE  LET z == EndZone(begin, Len0)
           IN  ZoneCut(z) /\ ZoneStart(z) = begin /\ ZoneEnd(z) = Len0
<1> DEFINE second == IF Len0 - begin > ITER_BYTES THEN ITER_BYTES ELSE 0
           part == Smaller(Len0 - second, ITER_BYTES + CONF_BYTES)
           blocks == IF second = 0 THEN 1 ELSE 2
           skip == ITER_BYTES - (Len0 - begin - second)
<1>1. /\ Len0 \in Nat /\ start \in Nat /\ ITER_BYTES \in Nat \ {0} /\ CONF_BYTES \in Nat \ {0}
      BY Inputs, Widths
<1>2. second \in {0, ITER_BYTES} /\ Len0 - second \in Nat /\ skip \in 0..ITER_BYTES
      BY <1>1
<1>3. part \in Nat /\ part <= Len0 - second /\ (part = Len0 - second \/ part = ITER_BYTES + CONF_BYTES)
      <2> HIDE DEF second
      <2>1. ITER_BYTES + CONF_BYTES \in Nat
            BY <1>1
      <2>2. QED  BY <1>2, <2>1, SmallerCuts
<1>4. blocks \in Nat \ {0} /\ blocks * ITER_BYTES = ITER_BYTES + second
      BY <1>1
<1>5. EndZone(begin, Len0) = Copy(0, part + second, blocks, skip, Len0, 0)
      BY DEF EndZone
<1>6. skip = ITER_BYTES - (Len0 - begin - second)
      OBVIOUS
<1> HIDE DEF second, part, blocks, skip
<1>7. /\ part + second - blocks * ITER_BYTES + skip - CONF_BYTES + 1 >= 0 \/ part + second = Len0
      /\ part + second \in Nat /\ part + second <= Len0
      BY <1>1, <1>2, <1>3, <1>4
<1>8. Len0 - blocks * ITER_BYTES + skip = begin
      BY <1>1, <1>2, <1>4, <1>6
<1>9. Len0 - blocks * ITER_BYTES + skip \in start..Len0 /\ 0 \in Nat /\ Len0 <= Len0 /\ ~(Len0 < Len0)
      BY <1>1, <1>8
<1>10. PICK len \in Nat : len = part + second
      BY <1>7
<1>11. LET z == Copy(0, len, blocks, skip, Len0, 0)
       IN  ZoneCut(z) /\ ZoneStart(z) = Len0 - blocks * ITER_BYTES + skip /\ ZoneEnd(z) = Len0
      <2>1. /\ len - blocks * ITER_BYTES + skip - CONF_BYTES + 1 >= 0 \/ len = Len0
            /\ len <= Len0
            <3>1. blocks * ITER_BYTES \in Int /\ skip \in Int /\ CONF_BYTES \in Int
                  BY <1>1, <1>2, <1>4
            <3>2. QED  BY <1>1, <1>2, <1>3, <1>7, <1>10, <3>1
      <2>2. Len0 \in Int /\ Len0 <= Len0 /\ (Len0 < Len0 => 0 = buf[Len0 + 1])
            BY <1>1
      <2>3. QED  BY <1>1, <1>2, <1>4, <1>9, <1>10, <2>1, <2>2, CopyCuts
<1>12. QED  BY <1>5, <1>8, <1>10, <1>11

LEMMA MainCuts ==
    ASSUME buf \in Buffers, start \in Starts, start < Len0, Len0 - start > ITER_BYTES,
           MainEnd > start + ITER_BYTES, NEW f
    PROVE  LET z == MainZone(start + ITER_BYTES, MainEnd, f)
           IN  ZoneCut(z) /\ ZoneStart(z) = start + ITER_BYTES /\ ZoneEnd(z) = MainEnd
<1>1. /\ Len0 \in Nat /\ start \in Nat /\ ITER_BYTES \in Nat \ {0} /\ CONF_BYTES \in Nat \ {0}
      /\ CONF_BYTES <= ITER_BYTES /\ LOOKAHEAD \in Nat
      BY Inputs, Widths
<1>2. PICK begin \in Nat : begin = start + ITER_BYTES
      BY <1>1
<1>3. PICK end \in Nat : end = MainEnd
      BY MainEndFits
<1>4. end <= Len0 /\ OnGrid(end)
      BY <1>1, <1>3, MainEndFits
<1>5. PICK z : z = MainZone(begin, end, f)
      OBVIOUS
<1>6. z.copied = FALSE /\ z.from = begin /\ z.to = end /\ z.skip = 0 /\ z.adjust = 0
      BY <1>5 DEF MainZone
<1>7. PICK k \in Nat : end = start + k * ITER_BYTES
      BY <1>4 DEF OnGrid
<1>8. k - 1 \in Nat \ {0}
      <2>1. SUFFICES ASSUME k <= 1 PROVE FALSE
            BY <1>7
      <2>2. k * ITER_BYTES <= 1 * ITER_BYTES
            BY <1>1, <2>1, TimesMonotone
      <2>3. QED  BY <1>1, <1>2, <1>3, <1>7, <2>2
<1>9. end = begin + (k - 1) * ITER_BYTES
      <2>1. k * ITER_BYTES = (k - 1) * ITER_BYTES + ITER_BYTES
            BY <1>1
      <2>2. (k - 1) * ITER_BYTES \in Int
            BY <1>1
      <2>3. QED  BY <1>1, <1>2, <1>7, <2>1, <2>2
<1>10. ZoneShows(z)
      <2>1. ASSUME NEW y \in begin - CONF_BYTES + 1 .. end, y < Len0
            PROVE  ZoneByte(z, y) = ByteAt(y)
            <3>1. y \in 0..Len0-1
                  BY <1>1, <1>2, <2>1
            <3>2. QED  BY <1>6, <3>1 DEF ZoneByte, ByteAt
      <2>2. \A y \in Int : y + 0 = y
            OBVIOUS
      <2>3. begin + 0 = begin
            OBVIOUS
      <2>4. QED  BY <1>1, <1>6, <2>1, <2>2, <2>3 DEF ZoneShows
<1>11. ZoneStart(z) = begin /\ ZoneEnd(z) = end
      BY <1>6 DEF ZoneStart, ZoneEnd
<1>12. begin \in start..Len0 /\ 0 \in 0..ITER_BYTES
      BY <1>1, <1>2, <1>3, <1>4
<1>13. ZoneCut(z)
      BY <1>2, <1>4, <1>6, <1>8, <1>9, <1>10, <1>11, <1>12 DEF ZoneCut
<1>14. QED  BY <1>2, <1>3, <1>5, <1>11, <1>13

LEMMA CutInit == Init => CutInv
<1> SUFFICES ASSUME Init PROVE CutInv
    OBVIOUS
<1>1. /\ buf \in Buffers /\ start \in Starts /\ start < Len0
      /\ zones = Zones(FirstFlood)
      BY DEF Init, ConfirmInit
<1>2. /\ Len0 \in Nat /\ start \in Nat /\ ITER_BYTES \in Nat \ {0} /\ LOOKAHEAD \in Nat
      /\ LOOKAHEAD <= ITER_BYTES
      BY <1>1, Inputs, Widths
<1>3. CASE Len0 - start <= ITER_BYTES
      <2>1. zones = << ShortZone(start, Len0) >>
            BY <1>1, <1>3 DEF Zones
      <2>2. LET z == ShortZone(start, Len0)
            IN  ZoneCut(z) /\ ZoneStart(z) = start /\ ZoneEnd(z) = Len0
            BY <1>1, <1>3, ShortCuts
      <2>3. Len(zones) = 1 /\ zones[1] = ShortZone(start, Len0)
            BY <2>1
      <2>4. QED  BY <2>2, <2>3 DEF CutInv
<1>4. CASE Len0 - start > ITER_BYTES
      <2>1. PICK begin \in Nat : begin = start + ITER_BYTES
            BY <1>2
      <2>2. /\ MainEnd \in Nat /\ MainEnd <= Len0 /\ Len0 <= MainEnd + 2 * ITER_BYTES
            BY <1>1, <1>2, <1>4, MainEndFits
      <2>3. LET z == StartZone(start)
            IN  ZoneCut(z) /\ ZoneStart(z) = start /\ ZoneEnd(z) = begin
            BY <1>1, <1>4, <2>1, StartCuts
      <2>4. CASE MainEnd > begin
            <3>1. zones = << StartZone(start), MainZone(begin, MainEnd, FirstFlood), EndZone(MainEnd, Len0) >>
                  BY <1>1, <1>2, <1>4, <2>1, <2>4 DEF Zones
            <3>2. LET z == MainZone(begin, MainEnd, FirstFlood)
                  IN  ZoneCut(z) /\ ZoneStart(z) = begin /\ ZoneEnd(z) = MainEnd
                  BY <1>1, <1>4, <2>1, <2>4, MainCuts
            <3>3. LET z == EndZone(MainEnd, Len0)
                  IN  ZoneCut(z) /\ ZoneStart(z) = MainEnd /\ ZoneEnd(z) = Len0
                  <4>1. start <= MainEnd
                        BY <1>2, <2>1, <2>2, <2>4
                  <4>2. QED  BY <1>1, <2>2, <4>1, EndCuts
            <3>4. /\ Len(zones) = 3 /\ zones[1] = StartZone(start)
                  /\ zones[2] = MainZone(begin, MainEnd, FirstFlood) /\ zones[3] = EndZone(MainEnd, Len0)
                  BY <3>1
            <3>5. 1..Len(zones) = {1, 2, 3} /\ 1..Len(zones)-1 = {1, 2}
                  BY <3>4
            <3>6. QED  BY <2>3, <3>2, <3>3, <3>4, <3>5 DEF CutInv
      <2>5. CASE ~(MainEnd > begin)
            <3>1. zones = << StartZone(start), EndZone(begin, Len0) >>
                  BY <1>1, <1>2, <1>4, <2>1, <2>5 DEF Zones
            <3>2. LET z == EndZone(begin, Len0)
                  IN  ZoneCut(z) /\ ZoneStart(z) = begin /\ ZoneEnd(z) = Len0
                  <4>1. start <= begin /\ begin <= Len0 /\ Len0 <= begin + 2 * ITER_BYTES
                        BY <1>2, <1>4, <2>1, <2>2, <2>5
                  <4>2. QED  BY <1>1, <4>1, EndCuts
            <3>3. /\ Len(zones) = 2 /\ zones[1] = StartZone(start) /\ zones[2] = EndZone(begin, Len0)
                  BY <3>1
            <3>4. 1..Len(zones) = {1, 2} /\ 1..Len(zones)-1 = {1}
                  BY <3>3
            <3>5. QED  BY <2>3, <3>2, <3>3, <3>4 DEF CutInv
      <2>6. QED  BY <2>4, <2>5
<1>5. QED  BY <1>2, <1>3, <1>4

\* No step moves a zone.
LEMMA CutStays ==
    ASSUME CutInv, UNCHANGED <<buf, start, zones>>
    PROVE  CutInv'
<1>1. Len0' = Len0
      BY DEF Len0
<1>2. \A z : ZoneStart(z)' = ZoneStart(z) /\ ZoneEnd(z)' = ZoneEnd(z)
      BY DEF ZoneStart, ZoneEnd
<1>3. \A z, y : ZoneByte(z, y)' = ZoneByte(z, y) /\ ByteAt(y)' = ByteAt(y)
      BY <1>1 DEF ZoneByte, ByteAt
<1>4. \A z : ZoneCut(z) => ZoneCut(z)'
      BY <1>1, <1>2, <1>3 DEF ZoneCut, ZoneShows
<1>5. QED  BY <1>1, <1>2, <1>4 DEF CutInv

-----------------------------------------------------------------------------
(***************************************************************************)
(* Where the engine is in a zone, and what its state leaves out.           *)
(***************************************************************************)
Skipped == IF it = Z.from THEN Z.skip ELSE 0
Frontier == it + Skipped + Z.adjust

\* A bucket is left out of the place of an end by two bytes before f.
LeftOut(b, end, f) ==
    \E j \in 1..HALF-1 :
        end - j < f /\ b \in Excluded(ByteAt(end - j), ByteAt(end - j + 1), j)

\* No literal of the bucket is so short.
TooEarly(b, end) ==
    \A n \in DOMAIN LitsOf(b) : end - start + 1 < Smaller(Len(LitsOf(b)[n].lit), HALF)

StateInv ==
    \A x \in 0..ITER_BYTES-1 :
        /\ x < Skipped => state[x] = Buckets
        /\ \A b \in Buckets, end \in Frontier..Len0-1 :
              b \in state[x] /\ end = it + x + Z.adjust => LeftOut(b, end, Frontier) \/ TooEarly(b, end)

StandInv ==
    /\ it = Z.from \/ it >= Z.from + Z.skip
    /\ \E k \in Nat : Z.to = it + k * ITER_BYTES
    /\ at = "zone" \/ (at \in Confirming /\ ret = "zone") => it = Z.to
    /\ at = "completed" => it = Z.to /\ zone = Len(zones)

\* No candidate waits and no group is off but where the queue is confirmed.
QuietInv ==
    /\ at \in {"block", "flood", "run", "floodcallback", "zone", "completed"} => cands = <<>>
    /\ at \in ControlPoints \ (Confirming \cup {"run", "terminated"}) => control

\* What waits was found in this zone.
Near(a, low) == \A x \in Pending(a) : x[1] >= low
NearInv == \E a \in Int, low \in Int : a = Z.adjust /\ low = ZoneStart(Z) /\ Near(a, low)

-----------------------------------------------------------------------------
LEMMA Halves ==
    /\ HALF \in Nat /\ HALF <= ITER_BYTES /\ HALF <= CONF_BYTES
<1>1. ITER_BYTES \in Nat
      BY Widths
<1>2. HALF \in Nat /\ ITER_BYTES = HALF * 2 + (ITER_BYTES % 2) /\ ITER_BYTES % 2 \in 0..1
      BY <1>1, Divides DEF HALF
<1> HIDE DEF HALF
<1>3. QED  BY <1>1, <1>2, FloodAssumption

LEMMA ThisZone ==
    ASSUME PlaceInv, CutInv
    PROVE  /\ ZoneCut(Z) /\ it \in Int /\ Len0 \in Nat /\ start \in Nat
           /\ Z.from \in Int /\ Z.to \in Int /\ Z.adjust \in Int /\ Z.skip \in 0..ITER_BYTES
           /\ ITER_BYTES \in Nat \ {0} /\ CONF_BYTES \in Nat \ {0} /\ Z.from < Z.to
           /\ ZoneStart(Z) \in start..Len0 /\ ZoneEnd(Z) <= Len0
<1>1. /\ ZoneCut(Z) /\ it \in Int /\ ITER_BYTES \in Nat \ {0} /\ CONF_BYTES \in Nat \ {0}
      BY Widths DEF PlaceInv, CutInv, Z
<1>2. Len0 \in Nat /\ start \in Nat
      BY Inputs DEF PlaceInv
<1>3. PICK k \in Nat \ {0} : Z.to = Z.from + k * ITER_BYTES
      BY <1>1 DEF ZoneCut
<1>4. k * ITER_BYTES > 0
      BY <1>1
<1>5. k * ITER_BYTES \in Nat
      BY <1>1
<1>6. Z.from \in Int /\ Z.to \in Int /\ Z.from < Z.to
      BY <1>1, <1>3, <1>4, <1>5 DEF ZoneCut
<1>7. QED  BY <1>1, <1>2, <1>6 DEF ZoneCut

LEMMA FrontierIn ==
    ASSUME PlaceInv, CutInv, StandInv
    PROVE  /\ Skipped \in 0..ITER_BYTES /\ Frontier \in Nat
           /\ Frontier = it + Skipped + Z.adjust
           /\ ZoneStart(Z) <= Frontier /\ start <= Frontier /\ Frontier <= Len0
           /\ it = Z.to => Frontier = ZoneEnd(Z)
           /\ BlockFits => Frontier <= it + ITER_BYTES + Z.adjust
           /\ BlockFits => it + ITER_BYTES + Z.adjust <= Len0
           /\ it >= Z.from /\ it <= Z.to
           /\ it # Z.from => it >= Z.from + Z.skip
<1>1. /\ it \in Int /\ Len0 \in Nat /\ start \in Nat
      /\ Z.from \in Int /\ Z.to \in Int /\ Z.adjust \in Int /\ Z.skip \in 0..ITER_BYTES
      /\ ITER_BYTES \in Nat \ {0} /\ Z.from < Z.to
      /\ ZoneStart(Z) \in start..Len0 /\ ZoneEnd(Z) <= Len0
      BY ThisZone
<1>2. ZoneStart(Z) = Z.from + Z.skip + Z.adjust /\ ZoneEnd(Z) = Z.to + Z.adjust
      BY DEF ZoneStart, ZoneEnd
<1>3. it = Z.from \/ it >= Z.from + Z.skip
      BY DEF StandInv
<1>4. PICK k \in Nat : Z.to = it + k * ITER_BYTES
      BY DEF StandInv
<1>5. k * ITER_BYTES \in Nat
      BY <1>1
<1>6. it <= Z.to
      BY <1>1, <1>4, <1>5
<1>7. Skipped = (IF it = Z.from THEN Z.skip ELSE 0) /\ Frontier = it + Skipped + Z.adjust
      BY DEF Skipped, Frontier
<1>8. BlockFits <=> it + ITER_BYTES <= Z.to
      BY DEF BlockFits
<1> HIDE DEF Skipped, Frontier
<1>9. QED  BY <1>1, <1>2, <1>3, <1>6, <1>7, <1>8

\* Two bytes of an occurrence leave its bucket out nowhere.
LEMMA NotExcluded ==
    ASSUME ConfirmType, NEW s \in Nat, NEW b \in Buckets, NEW n \in DOMAIN LitsOf(b),
           NEW end \in Nat, ToFind(LitsOf(b)[n], s, end), NEW j \in 0..HALF-1,
           NEW next, j >= 1 => next = ByteAt(end - j + 1)
    PROVE  b \notin Excluded(ByteAt(end - j), next, j)
<1> DEFINE l == LitsOf(b)[n]
<1>1. /\ \A k \in 0..Smaller(Len(l.lit), CONF_BYTES) - 1 : buf[end + 1 - k] = l.lit[Len(l.lit) - k]
      /\ Len(l.lit) \in Nat /\ Len(l.lit) <= end + 1 /\ end < Len0
      <2>1. Len(l.lit) \in Nat
            BY LitTyped
      <2>2. Occurs(l, end)
            BY DEF ToFind
      <2> HIDE DEF l
      <2>3. QED  BY <2>1, <2>2 DEF Occurs
<1>2. HALF \in Nat /\ HALF <= CONF_BYTES /\ CONF_BYTES \in Nat /\ Len0 \in Nat
      BY Halves, Widths, Tabled
<1>3. l = table.chains[b][n] /\ n \in DOMAIN table.chains[b]
      BY DEF LitsOf
<1> HIDE DEF l
<1>4. ASSUME NEW k \in 0..HALF-1 PROVE MayHave(l, ByteAt(end - k), k)
      <2>1. CASE k < Len(l.lit)
            <3>1. k \in 0..Smaller(Len(l.lit), CONF_BYTES) - 1
                  BY <1>1, <1>2, <2>1 DEF Smaller
            <3>2. end - k \in 0..Len0-1 /\ end - k + 1 = end + 1 - k
                  BY <1>1, <1>2, <2>1
            <3>3. QED  BY <1>1, <3>1, <3>2 DEF MayHave, ByteAt
      <2>2. CASE k >= Len(l.lit)
            BY <2>2 DEF MayHave
      <2>3. QED  BY <1>1, <1>2, <2>1, <2>2
<1>5. MayHave(l, ByteAt(end - j), j)
      BY <1>4
<1>6. j = 0 \/ MayHave(l, next, j - 1)
      <2>1. SUFFICES ASSUME j # 0 PROVE MayHave(l, next, j - 1)
            OBVIOUS
      <2>2. j - 1 \in 0..HALF-1 /\ end - (j - 1) = end - j + 1 /\ next = ByteAt(end - j + 1)
            BY <1>2, <2>1
      <2>3. MayHave(l, ByteAt(end - (j - 1)), j - 1)
            BY <1>4, <2>2
      <2>4. QED  BY <2>2, <2>3
<1>7. QED  BY <1>3, <1>5, <1>6 DEF Excluded

\* The state leaves out no occurrence.
LEMMA StateAdmits ==
    ASSUME ConfirmType, StateInv, start \in Nat, NEW x \in 0..ITER_BYTES-1,
           NEW b \in Buckets, NEW n \in DOMAIN LitsOf(b), NEW end \in Nat,
           end \in Frontier..Len0-1, end = it + x + Z.adjust,
           ToFind(LitsOf(b)[n], start, end)
    PROVE  b \notin state[x]
<1>1. SUFFICES ASSUME b \in state[x] PROVE FALSE
      OBVIOUS
<1>2. LeftOut(b, end, Frontier) \/ TooEarly(b, end)
      BY <1>1 DEF StateInv
<1>3. HALF \in Nat
      BY Halves
<1>4. ASSUME LeftOut(b, end, Frontier) PROVE FALSE
      <2>1. PICK j \in 1..HALF-1 : b \in Excluded(ByteAt(end - j), ByteAt(end - j + 1), j)
            BY <1>4 DEF LeftOut
      <2>2. j \in 0..HALF-1
            BY <1>3
      <2>3. b \notin Excluded(ByteAt(end - j), ByteAt(end - j + 1), j)
            BY <2>2, NotExcluded
      <2>4. QED  BY <2>1, <2>3
<1>5. ASSUME TooEarly(b, end) PROVE FALSE
      <2>1. end - start + 1 < Smaller(Len(LitsOf(b)[n].lit), HALF)
            BY <1>5 DEF TooEarly
      <2>2. Len(LitsOf(b)[n].lit) \in Nat /\ Len(LitsOf(b)[n].lit) <= end - start + 1
            BY LitTyped DEF ToFind
      <2>3. QED  BY <1>3, <2>1, <2>2 DEF Smaller
<1>6. QED  BY <1>2, <1>4, <1>5

\* Nor does the block: what can end in it is a candidate.
LEMMA BlockProposes ==
    ASSUME PlaceInv, CutInv, StandInv, StateInv, ConfirmType, BlockFits,
           NEW b \in Buckets, NEW n \in DOMAIN LitsOf(b),
           NEW end \in Frontier..it + ITER_BYTES + Z.adjust - 1,
           ToFind(LitsOf(b)[n], start, end)
    PROVE  <<end - it - Z.adjust, b>> \in BlockBits
<1>1. /\ it \in Int /\ Len0 \in Nat /\ start \in Nat
      /\ Z.from \in Int /\ Z.to \in Int /\ Z.adjust \in Int /\ Z.skip \in 0..ITER_BYTES
      /\ ITER_BYTES \in Nat \ {0} /\ CONF_BYTES \in Nat \ {0}
      /\ ZoneCut(Z)
      BY ThisZone
<1>2. /\ Skipped \in 0..ITER_BYTES /\ Frontier \in Nat /\ Frontier = it + Skipped + Z.adjust
      /\ it + ITER_BYTES + Z.adjust <= Len0 /\ it >= Z.from
      /\ it # Z.from => it >= Z.from + Z.skip
      BY FrontierIn
<1>3. /\ HALF \in Nat /\ HALF <= ITER_BYTES /\ HALF <= CONF_BYTES
      BY Halves
<1>4. Skipped = IF it = Z.from THEN Z.skip ELSE 0
      BY DEF Skipped
<1>5. PICK x \in Int : x = end - it - Z.adjust
      BY <1>1, <1>2
<1>6. end \in Nat /\ end \in Frontier..Len0-1 /\ end = it + x + Z.adjust /\ x \in Skipped..ITER_BYTES-1
      BY <1>1, <1>2, <1>5
<1>7. x \in 0..ITER_BYTES-1
      BY <1>1, <1>2, <1>6
<1>8. b \notin state[x]
      BY <1>1, <1>6, <1>7, StateAdmits
<1>9. ASSUME NEW k \in 0..ITER_BYTES-1, x - k \in 0..HALF-1
      PROVE  b \notin Excluded(ZoneByte(Z, it + k), ZoneByte(Z, it + k + 1), x - k)
      <2>1. PICK j \in 0..HALF-1 : j = x - k
            BY <1>9
      <2>2. it + k \in Z.from + Z.skip - CONF_BYTES + 1 .. Z.to
            BY <1>1, <1>2, <1>3, <1>4, <1>6, <2>1 DEF BlockFits
      <2>3. it + k + Z.adjust = end - j /\ end - j < Len0
            BY <1>1, <1>2, <1>3, <1>6, <2>1
      <2>4. ZoneByte(Z, it + k) = ByteAt(end - j)
            BY <1>1, <2>2, <2>3 DEF ZoneCut, ZoneShows
      <2>5. j >= 1 => ZoneByte(Z, it + k + 1) = ByteAt(end - j + 1)
            <3>1. SUFFICES ASSUME j >= 1 PROVE ZoneByte(Z, it + k + 1) = ByteAt(end - j + 1)
                  OBVIOUS
            <3>2. it + k + 1 \in Z.from + Z.skip - CONF_BYTES + 1 .. Z.to
                  BY <1>1, <1>2, <1>6, <2>1, <2>2, <3>1 DEF BlockFits
            <3>3. it + k + 1 + Z.adjust = end - j + 1 /\ end - j + 1 < Len0
                  BY <1>1, <1>2, <1>3, <1>6, <2>1, <3>1
            <3>4. QED  BY <1>1, <3>2, <3>3 DEF ZoneCut, ZoneShows
      <2>6. b \notin Excluded(ByteAt(end - j), ZoneByte(Z, it + k + 1), j)
            BY <1>1, <1>6, <2>5, NotExcluded
      <2>7. QED  BY <2>1, <2>4, <2>6
<1>10. b \notin ExcludedAt(x)
      BY <1>7, <1>8, <1>9 DEF ExcludedAt
<1>11. <<x, b>> \in BlockBits
      BY <1>7, <1>10 DEF BlockBits, Buckets
<1>12. QED  BY <1>5, <1>11

\* And the candidates of a block end in it, behind its masked bytes.
LEMMA BlockWithin ==
    ASSUME PlaceInv, CutInv, StandInv, StateInv, BlockFits
    PROVE  /\ BlockBits \in SUBSET (Nat \X Buckets)
           /\ \A b \in BlockBits : it + b[1] + Z.adjust \in Frontier..it + ITER_BYTES + Z.adjust - 1
<1>1. /\ it \in Int /\ ITER_BYTES \in Nat \ {0} /\ Z.adjust \in Int
      BY ThisZone
<1>2. /\ Skipped \in 0..ITER_BYTES /\ Frontier = it + Skipped + Z.adjust
      BY FrontierIn
<1>3. ASSUME NEW b \in BlockBits
      PROVE  b \in Nat \X Buckets /\ b[1] \in 0..ITER_BYTES-1 /\ b[1] >= Skipped
      <2>1. PICK x \in 0..ITER_BYTES-1 : b \in {x} \X (DOMAIN table.chains \ ExcludedAt(x))
            BY <1>3 DEF BlockBits
      <2>2. /\ b[1] = x /\ b[2] \in Buckets /\ b[2] \notin ExcludedAt(x) /\ b = <<b[1], b[2]>>
            BY <2>1 DEF Buckets
      <2>3. b[2] \notin state[x]
            BY <1>1, <2>2 DEF ExcludedAt
      <2>4. ~(x < Skipped)
            BY <2>2, <2>3 DEF StateInv
      <2>5. QED  BY <1>1, <1>2, <2>2, <2>4
<1> HIDE DEF Frontier, Skipped
<1>4. \A b \in BlockBits : it + b[1] + Z.adjust \in Frontier..it + ITER_BYTES + Z.adjust - 1
      BY <1>1, <1>2, <1>3
<1>5. QED  BY <1>3, <1>4

-----------------------------------------------------------------------------
(***************************************************************************)
(* The state goes with the engine.                                         *)
(***************************************************************************)
LEMMA StateInit == Init => StateInv
<1> SUFFICES ASSUME Init PROVE StateInv
    OBVIOUS
<1>1. /\ PlaceInv /\ CutInv /\ it = Z.from /\ zone = 1 /\ state = ShiftIn(StartState, Z.skip)
      BY PlaceInit, CutInit DEF Init, Z
<1>2. /\ start \in Nat /\ ITER_BYTES \in Nat \ {0} /\ it \in Int
      /\ Z.adjust \in Int /\ Z.skip \in 0..ITER_BYTES
      BY <1>1, ThisZone
<1>3. start = it + Z.skip + Z.adjust /\ Skipped = Z.skip /\ Frontier = start
      <2>1. ZoneStart(Z) = start
            BY <1>1 DEF CutInv, Z
      <2>2. QED  BY <1>1, <1>2, <2>1 DEF ZoneStart, Skipped, Frontier
<1>4. ASSUME NEW x \in 0..ITER_BYTES-1, x < Z.skip
      PROVE  state[x] = Buckets
      BY <1>1, <1>4 DEF ShiftIn, Buckets
<1>5. ASSUME NEW x \in 0..ITER_BYTES-1, NEW b \in state[x], NEW end \in start..Len0-1,
             end = it + x + Z.adjust
      PROVE  TooEarly(b, end)
      <2>1. PICK y \in Int : y = x - Z.skip
            BY <1>2
      <2>2. y \in 0..ITER_BYTES-1 /\ ~(x < Z.skip) /\ end - start + 1 = y + 1
            BY <1>2, <1>3, <1>5, <2>1
      <2>3. state[x] = StartState[y]
            BY <1>1, <2>1, <2>2 DEF ShiftIn
      <2>4. b \in StartState[y]
            BY <1>5, <2>3
      <2>5. \A n \in DOMAIN table.chains[b] : y + 1 < Smaller(Len(table.chains[b][n].lit), HALF)
            BY <2>2, <2>4 DEF StartState
      <2>6. QED  BY <2>2, <2>5 DEF TooEarly, LitsOf
<1>6. QED  BY <1>3, <1>4, <1>5 DEF StateInv

LEMMA TablesStay ==
    ASSUME UNCHANGED <<table, buf, start, zones>>
    PROVE  /\ Len0' = Len0 /\ Buckets' = Buckets
           /\ \A b, end, f : LeftOut(b, end, f)' <=> LeftOut(b, end, f)
           /\ \A b, end : TooEarly(b, end)' <=> TooEarly(b, end)
           /\ \A y : ByteAt(y)' = ByteAt(y)
           /\ zone' = zone => Z' = Z
           /\ \A z : ZoneStart(z)' = ZoneStart(z) /\ ZoneEnd(z)' = ZoneEnd(z)
<1>1. Len0' = Len0 /\ Buckets' = Buckets /\ \A y : ByteAt(y)' = ByteAt(y)
      BY DEF Len0, Buckets, ByteAt
<1>2. \A x, y, j : Excluded(x, y, j)' = Excluded(x, y, j)
      BY DEF Excluded, MayHave
<1>3. \A b, end, f : LeftOut(b, end, f)' <=> LeftOut(b, end, f)
      BY <1>1, <1>2 DEF LeftOut
<1>4. \A b, end : TooEarly(b, end)' <=> TooEarly(b, end)
      BY DEF TooEarly, LitsOf
<1>5. \A z : ZoneStart(z)' = ZoneStart(z) /\ ZoneEnd(z)' = ZoneEnd(z)
      BY DEF ZoneStart, ZoneEnd
<1>6. QED  BY <1>1, <1>3, <1>4, <1>5 DEF Z

LEMMA StateStays ==
    ASSUME StateInv, UNCHANGED <<table, buf, start, zones, zone, it, state>>
    PROVE  StateInv' /\ Frontier' = Frontier /\ Z' = Z
<1>1. /\ Len0' = Len0 /\ Buckets' = Buckets /\ Z' = Z
      /\ \A b, end, f : LeftOut(b, end, f)' <=> LeftOut(b, end, f)
      /\ \A b, end : TooEarly(b, end)' <=> TooEarly(b, end)
      BY TablesStay
<1>2. Skipped' = Skipped /\ Frontier' = Frontier
      BY <1>1 DEF Skipped, Frontier
<1>3. QED  BY <1>1, <1>2 DEF StateInv

\* What lies behind a block is left out by two of its bytes.
LEMMA ExcludedBehind ==
    ASSUME NEW x, NEW b \in ExcludedAt(x), ~(x < ITER_BYTES)
    PROVE  \E k \in 0..ITER_BYTES-1 :
               /\ x - k \in 0..HALF-1
               /\ b \in Excluded(ZoneByte(Z, it + k), ZoneByte(Z, it + k + 1), x - k)
<1> DEFINE E(k) == Excluded(ZoneByte(Z, it + k), ZoneByte(Z, it + k + 1), x - k)
           Ks == {k \in 0..ITER_BYTES-1 : k % table.stride = 0 /\ x - k \in 0..HALF-1}
<1>1. b \in UNION {E(k) : k \in Ks}
      BY DEF ExcludedAt
<1>2. \A k \in Ks : k \in 0..ITER_BYTES-1 /\ x - k \in 0..HALF-1
      OBVIOUS
<1> HIDE DEF E, Ks
<1>3. PICK k \in Ks : b \in E(k)
      BY <1>1
<1>4. QED  BY <1>2, <1>3 DEF E

LEMMA StateScans ==
    ASSUME PlaceInv, CutInv, StandInv, StateInv, BlockFits,
           it' = it + ITER_BYTES, state' = NextState,
           UNCHANGED <<table, buf, start, zones, zone>>
    PROVE  StateInv' /\ Frontier' = it + ITER_BYTES + Z.adjust /\ Z' = Z
<1>1. /\ it \in Int /\ Len0 \in Nat
      /\ Z.from \in Int /\ Z.to \in Int /\ Z.adjust \in Int /\ Z.skip \in 0..ITER_BYTES
      /\ ITER_BYTES \in Nat \ {0} /\ CONF_BYTES \in Nat \ {0}
      /\ ZoneCut(Z)
      BY ThisZone
<1>2. /\ it >= Z.from
      /\ it # Z.from => it >= Z.from + Z.skip
      BY FrontierIn
<1>3. /\ HALF \in Nat /\ HALF <= ITER_BYTES /\ HALF <= CONF_BYTES
      BY Halves
<1>4. /\ Len0' = Len0 /\ Z' = Z
      /\ \A b, end, f : LeftOut(b, end, f)' <=> LeftOut(b, end, f)
      BY TablesStay
<1>5. PICK f : f = it + ITER_BYTES + Z.adjust
      OBVIOUS
<1>6. Skipped' = 0 /\ Frontier' = f
      <2>1. it' # Z.from
            BY <1>1, <1>2
      <2>2. Skipped' = 0
            BY <1>4, <2>1 DEF Skipped
      <2>3. QED  BY <1>1, <1>4, <1>5, <2>2 DEF Frontier
<1>7. ASSUME NEW x \in 0..ITER_BYTES-1, NEW b \in NextState[x], NEW end \in f..Len0-1,
             end = it + ITER_BYTES + x + Z.adjust
      PROVE  LeftOut(b, end, f)
      <2>1. x < HALF /\ b \in ExcludedAt(x + ITER_BYTES)
            BY <1>7 DEF NextState
      <2>2. ~(x + ITER_BYTES < ITER_BYTES)
            BY <1>1
      <2>3. PICK k \in 0..ITER_BYTES-1 :
                /\ x + ITER_BYTES - k \in 0..HALF-1
                /\ b \in Excluded(ZoneByte(Z, it + k), ZoneByte(Z, it + k + 1), x + ITER_BYTES - k)
            BY <1>1, <2>1, <2>2, ExcludedBehind
      <2>4. PICK j \in 1..HALF-1 : j = x + ITER_BYTES - k
            BY <1>1, <1>3, <2>3
      <2>5. /\ it + k \in Z.from + Z.skip - CONF_BYTES + 1 .. Z.to
            /\ it + k + 1 \in Z.from + Z.skip - CONF_BYTES + 1 .. Z.to
            BY <1>1, <1>2, <1>3, <2>1, <2>4 DEF BlockFits
      <2>6. it + k + Z.adjust = end - j /\ it + k + 1 + Z.adjust = end - j + 1
            BY <1>1, <1>3, <1>7, <2>4
      <2>7. end - j < Len0 /\ end - j + 1 < Len0 /\ end - j < f
            BY <1>1, <1>3, <1>5, <1>7, <2>4
      <2>8. ZoneByte(Z, it + k) = ByteAt(end - j) /\ ZoneByte(Z, it + k + 1) = ByteAt(end - j + 1)
            BY <1>1, <2>5, <2>6, <2>7 DEF ZoneCut, ZoneShows
      <2>9. QED  BY <2>3, <2>4, <2>7, <2>8 DEF LeftOut
<1>8. QED  BY <1>1, <1>4, <1>5, <1>6, <1>7 DEF StateInv

LEMMA StateNextZone ==
    ASSUME PlaceInv, CutInv, StandInv, StateInv, it = Z.to, zone < Len(zones),
           zone' = zone + 1, it' = zones[zone + 1].from,
           state' = ShiftIn(state, zones[zone + 1].skip),
           UNCHANGED <<table, buf, start, zones>>
    PROVE  StateInv' /\ Frontier' = Frontier /\ ZoneStart(Z') = Frontier
<1>1. /\ it \in Int /\ Len0 \in Nat /\ Z.adjust \in Int /\ ITER_BYTES \in Nat \ {0}
      /\ Z.to \in Int /\ Z.from < Z.to /\ Z.from \in Int
      BY ThisZone
<1>2. /\ Len0' = Len0 /\ Buckets' = Buckets
      /\ \A b, end, f : LeftOut(b, end, f)' <=> LeftOut(b, end, f)
      /\ \A b, end : TooEarly(b, end)' <=> TooEarly(b, end)
      BY TablesStay
<1>3. PICK z : z = zones[zone + 1]
      OBVIOUS
<1>4. Z' = z /\ it' = z.from /\ state' = ShiftIn(state, z.skip)
      BY <1>3 DEF Z
<1>5. zone \in 1..Len(zones)-1 /\ zone + 1 \in 1..Len(zones)
      BY DEF PlaceInv
<1>6. ZoneCut(z) /\ ZoneEnd(Z) = ZoneStart(z)
      BY <1>3, <1>5 DEF CutInv, Z
<1>7. z.from \in Int /\ z.adjust \in Int /\ z.skip \in 0..ITER_BYTES
      BY <1>6 DEF ZoneCut
<1>8. Frontier = ZoneStart(z) /\ Frontier = it + Z.adjust /\ Skipped = 0
      <2>1. Frontier = ZoneEnd(Z)
            BY FrontierIn
      <2>2. QED  BY <1>1, <1>6, <2>1 DEF ZoneEnd, Skipped
<1>9. Skipped' = z.skip /\ Frontier' = Frontier
      <2>1. Skipped' = z.skip
            BY <1>4 DEF Skipped
      <2>2. Frontier' = z.from + z.skip + z.adjust
            BY <1>4, <2>1 DEF Frontier
      <2>3. QED  BY <1>8, <2>1, <2>2 DEF ZoneStart
<1>10. ASSUME NEW x \in 0..ITER_BYTES-1, x < z.skip
       PROVE  state'[x] = Buckets
      BY <1>4, <1>10 DEF ShiftIn, Buckets
<1>11. ASSUME NEW x \in 0..ITER_BYTES-1, NEW b \in Buckets, b \in state'[x], NEW end \in Frontier..Len0-1,
              end = z.from + x + z.adjust
       PROVE  LeftOut(b, end, Frontier) \/ TooEarly(b, end)
      <2>1. z.from + z.skip + z.adjust = it + Z.adjust /\ Frontier = it + Z.adjust
            BY <1>8 DEF ZoneStart
      <2>2. PICK y \in Int : y = x - z.skip
            BY <1>7
      <2>3. y \in 0..ITER_BYTES-1 /\ ~(x < z.skip) /\ end = it + y + Z.adjust
            <3>1. x >= z.skip
                  <4>1. PICK u \in Int, v \in Int, w \in Int : u = z.from /\ v = z.adjust /\ w = z.skip
                        BY <1>7
                  <4>2. PICK r \in Int : r = Frontier
                        BY <1>1, <2>1
                  <4>3. u + w + v = r /\ end = u + x + v
                        BY <1>11, <2>1, <4>1, <4>2
                  <4>4. end \in r..Len0-1 /\ x \in Int /\ Len0 \in Nat
                        BY <1>1, <1>11, <4>2
                  <4>5. x >= w
                        BY <4>3, <4>4
                  <4>6. QED  BY <4>1, <4>5
            <3>2. y \in 0..ITER_BYTES-1
                  BY <1>1, <1>7, <2>2, <3>1
            <3>3. it + y + Z.adjust = z.from + x + z.adjust
                  <4>1. /\ it \in Int /\ Z.adjust \in Int /\ z.from \in Int /\ z.adjust \in Int
                        /\ z.skip \in Int /\ x \in Int /\ y \in Int
                        BY <1>1, <1>7
                  <4>2. z.from + z.skip + z.adjust = it + Z.adjust /\ y = x - z.skip
                        BY <2>1, <2>2
                  <4>3. PICK i, a, u, w, v \in Int : i = it /\ a = Z.adjust /\ u = z.from /\ w = z.skip /\ v = z.adjust
                        BY <4>1
                  <4>4. u + w + v = i + a /\ y = x - w /\ x \in Int /\ y \in Int
                        BY <4>1, <4>2, <4>3
                  <4>5. i + y + a = u + x + v
                        BY <4>4
                  <4>6. QED  BY <4>3, <4>5
            <3>4. QED  BY <1>7, <1>11, <3>1, <3>2, <3>3
      <2>4. state'[x] = state[y]
            BY <1>4, <2>2, <2>3 DEF ShiftIn
      <2>5. b \in state[y]
            BY <1>11, <2>4
      <2>6. QED  BY <2>3, <2>5 DEF StateInv
<1>12. ZoneStart(Z') = Frontier
      BY <1>4, <1>8
<1>13. StateInv'
      BY <1>2, <1>4, <1>9, <1>10, <1>11 DEF StateInv
<1>14. QED  BY <1>9, <1>12, <1>13

-----------------------------------------------------------------------------
(***************************************************************************)
(* While the engine confirms nothing, the hits alone matter: they end      *)
(* before f, and what ends before g is among them or left out.             *)
(***************************************************************************)
LeftOrTold(l, end, b, n) ==
    Reported(l, end) \/ LeftOutBySquash(end, b) \/ LeftOutAsRepeat(l, end, b, n)

ToldBefore(s, g) == control =>
    \A b \in Buckets : \A n \in DOMAIN LitsOf(b) : \A end \in s..g-1 :
        ToFind(LitsOf(b)[n], s, end) => LeftOrTold(LitsOf(b)[n], end, b, n)

HitsIn(f) ==
    /\ \A i \in DOMAIN hits : hits[i].end < f
    /\ \A i, j \in DOMAIN hits : i < j => InOrder(hits[i], hits[j])

RestsInv(s, f, g) ==
    ConfirmType /\ HitsIn(f) /\ LastInv /\ OccurInv /\ ToldBefore(s, g)

Idle == cands = <<>> /\ word.bits = {} /\ ~InChain

LEMMA IdleWaits ==
    ASSUME Idle, NEW a
    PROVE  /\ Pending(a) = {} /\ Places(word, a) = {} /\ Ahead(a) = {}
           /\ \A end, b, n : ~Waits(a, end, b, n) /\ Passed(a, end, b, n)
<1>1. DOMAIN cands = {}
      BY DEF Idle
<1>2. Places(word, a) = {} /\ Ahead(a) = {} /\ Pending(a) = {}
      BY <1>1 DEF Idle, Places, Ahead, Pending
<1>3. QED  BY <1>2 DEF Idle, Waits, Passed

LEMMA Rests ==
    ASSUME NEW a, NEW s, NEW f, ConfirmInv(a, s, f), Idle
    PROVE  RestsInv(s, f, f)
<1>1. /\ ConfirmType /\ OrderInv(a, s, f) /\ LastInv /\ OccurInv /\ FoundInv(a, s, f)
      BY DEF ConfirmInv
<1>2. HitsIn(f)
      BY <1>1 DEF OrderInv, HitsIn
<1>3. ToldBefore(s, f)
      <2>1. ASSUME control, NEW b \in Buckets, NEW n \in DOMAIN LitsOf(b), NEW end \in s..f-1,
                   ToFind(LitsOf(b)[n], s, end)
            PROVE  LeftOrTold(LitsOf(b)[n], end, b, n)
            <3>1. Waits(a, end, b, n) \/ Settled(a, LitsOf(b)[n], end, b, n)
                  BY <1>1, <2>1 DEF FoundInv
            <3>2. ~Waits(a, end, b, n)
                  BY IdleWaits
            <3>3. QED  BY <3>1, <3>2 DEF Settled, LeftOrTold
      <2>2. QED  BY <2>1 DEF ToldBefore
<1>4. QED  BY <1>1, <1>2, <1>3 DEF RestsInv

LEMMA Wakes ==
    ASSUME NEW a, NEW s, NEW f, RestsInv(s, f, f), Idle
    PROVE  ConfirmInv(a, s, f)
<1>1. ConfirmType /\ HitsIn(f) /\ LastInv /\ OccurInv /\ ToldBefore(s, f)
      BY DEF RestsInv
<1>2. /\ Pending(a) = {} /\ Places(word, a) = {} /\ Ahead(a) = {} /\ DOMAIN cands = {} /\ ~InChain
      BY IdleWaits DEF Idle
<1>3. OrderInv(a, s, f)
      BY <1>1, <1>2 DEF OrderInv, HitsIn
<1>4. WalkInv(a, s, f) /\ SquashInv(a) /\ WindowInv
      BY <1>2 DEF WalkInv, SquashInv, WindowInv
<1>5. FoundInv(a, s, f)
      <2>1. ASSUME control, NEW b \in Buckets, NEW n \in DOMAIN LitsOf(b), NEW end \in s..f-1,
                   ToFind(LitsOf(b)[n], s, end)
            PROVE  Settled(a, LitsOf(b)[n], end, b, n)
            <3>1. LeftOrTold(LitsOf(b)[n], end, b, n)
                  BY <1>1, <2>1 DEF ToldBefore
            <3>2. Passed(a, end, b, n)
                  BY IdleWaits
            <3>3. QED  BY <3>1, <3>2 DEF Settled, LeftOrTold
      <2>2. QED  BY <2>1 DEF FoundInv
<1>6. QED  BY <1>1, <1>3, <1>4, <1>5 DEF ConfirmInv

\* The zones' coordinates do not matter to a confirm that rests.
LEMMA ConfirmMoves ==
    ASSUME NEW a, NEW s, NEW f, ConfirmInv(a, s, f), Idle, NEW a2
    PROVE  ConfirmInv(a2, s, f)
BY Rests, Wakes

-----------------------------------------------------------------------------
(***************************************************************************)
(* A flood.  The run of its byte reaches from the suffix before it to the  *)
(* block behind it.                                                        *)
(***************************************************************************)
Flooding == at \in {"run", "floodcallback"}

FloodId(k) == Flood.ids[k]
LitAt(x) == LitsOf(x[1])[x[2]]

RunInv ==
    /\ flood.byte \in DOMAIN table.floods /\ Len(Flood.ids) < MAX_IDS
    /\ {"byte", "first", "size", "t", "k"} \subseteq DOMAIN flood
    /\ flood.first = it /\ flood.size \in Nat
    /\ flood.t \in 0..flood.size /\ flood.k \in 1..Len(Flood.ids) \cup {1}
    /\ flood.t = flood.size => flood.k = 1
    /\ Flood.suffix <= it /\ it + flood.size < Len0
    /\ \A i \in it - Flood.suffix .. it + flood.size : buf[i + 1] = flood.byte
    /\ at = "floodcallback" =>
          /\ flood.t < flood.size /\ flood.k <= Len(Flood.ids) /\ hits # <<>>
          /\ LastHit = Hit(FloodLit.id, FloodId(flood.k)[1], FloodId(flood.k)[2], it + flood.t, TRUE)

\* What the flood reported, and what of it at the end it is at.
ToldInv == control =>
    \A t \in 0..flood.size-1, k \in 1..Len(Flood.ids) :
        (t < flood.t \/ (t = flood.t /\ k < flood.k)) /\ LitAt(FloodId(k)).grouped
            => Reported(LitAt(FloodId(k)), it + t)

HereInv ==
    \A i \in DOMAIN hits : hits[i].end = it + flood.t =>
        /\ hits[i].flood /\ hits[i].squash = {}
        /\ \E k \in 1..Len(Flood.ids) :
              /\ k < flood.k \/ (k = flood.k /\ i = Len(hits) /\ at = "floodcallback")
              /\ <<hits[i].bucket, hits[i].n>> = FloodId(k)

FloodHitInv == \A i \in DOMAIN hits : hits[i].flood => IsOccurrence(hits[i])

Told == flood.t + (IF flood.k = 1 /\ at = "run" THEN 0 ELSE 1)

FloodInv ==
    /\ RunInv /\ ToldInv /\ HereInv
    /\ \E s \in Nat, f \in Nat, g \in Nat :
          s = start /\ f = it + Told /\ g = it /\ RestsInv(s, f, g)

-----------------------------------------------------------------------------
(***************************************************************************)
(* How the hits of a confirm that rests may change.                        *)
(***************************************************************************)
LEMMA RestsLater ==
    ASSUME NEW s, NEW f \in Int, NEW g, NEW h \in Int, f <= h, RestsInv(s, f, g)
    PROVE  RestsInv(s, h, g)
<1>1. ConfirmType /\ HitsIn(f)
      BY DEF RestsInv
<1>2. \A i \in DOMAIN hits : hits[i].end < h
      <2>1. ASSUME NEW i \in DOMAIN hits PROVE hits[i].end < h
            <3>1. hits[i].end \in Nat /\ hits[i].end < f
                  BY <1>1, HitTyped DEF HitsIn
            <3>2. QED  BY <3>1
      <2>2. QED  BY <2>1
<1>3. QED  BY <1>1, <1>2 DEF RestsInv, HitsIn

LEMMA RestsStay ==
    ASSUME NEW s, NEW f, NEW g, RestsInv(s, f, g), Idle, UNCHANGED Rest, ~InChain'
    PROVE  RestsInv(s, f, g)'
<1>1. ConfirmType /\ HitsIn(f) /\ LastInv /\ OccurInv /\ ToldBefore(s, g)
      BY DEF RestsInv
<1>2. /\ UNCHANGED <<table, buf, cands, word, chain, control, lastMatch, hits>>
      /\ UNCHANGED <<Buckets, Len0>> /\ \A b : LitsOf(b)' = LitsOf(b)
      BY DEF Rest, Buckets, Len0, LitsOf
<1>3. at' # "callback" /\ word.bits = {}
      BY DEF InChain, Idle
<1>4. ConfirmType'
      BY <1>1, <1>2, <1>3 DEF ConfirmType, Block, HitRecord
<1>5. HitsIn(f)' /\ LastInv' /\ OccurInv'
      BY <1>1, <1>2 DEF HitsIn, LastInv, OccurInv, IsOccurrence, Occurs
<1>6. ASSUME NEW b, NEW n, NEW l, NEW end, LeftOrTold(l, end, b, n)
      PROVE  LeftOrTold(l, end, b, n)'
      BY <1>2, <1>6 DEF LeftOrTold, Reported, LeftOutBySquash, LeftOutAsRepeat
<1>7. \A l, end : ToFind(l, s, end)' => ToFind(l, s, end)
      BY <1>2 DEF ToFind, Occurs
<1>8. ToldBefore(s, g)'
      BY <1>1, <1>2, <1>6, <1>7 DEF ToldBefore
<1>9. QED  BY <1>4, <1>5, <1>8 DEF RestsInv

LEMMA RestsAppend ==
    ASSUME NEW s \in Nat, NEW f \in Nat, NEW g \in Nat, RestsInv(s, f, g), Idle,
           NEW h \in HitRecord, hits' = Append(hits, h), h.flood,
           h.n \in DOMAIN LitsOf(h.bucket), NEW e \in Nat, f <= e, h.end < e, g <= h.end,
           \A i \in DOMAIN hits : InOrder(hits[i], h),
           UNCHANGED <<table, buf, cands, word, chain, control, lastMatch>>, ~InChain'
    PROVE  RestsInv(s, e, g)'
<1>1. ConfirmType /\ HitsIn(f) /\ LastInv /\ OccurInv /\ ToldBefore(s, g)
      BY DEF RestsInv
<1>2. UNCHANGED <<Buckets, Len0>> /\ \A b : LitsOf(b)' = LitsOf(b)
      BY DEF Buckets, Len0, LitsOf
<1>3. at' # "callback" /\ word.bits = {}
      BY DEF InChain, Idle
<1>4. /\ hits \in Seq(HitRecord) /\ hits' \in Seq(HitRecord)
      /\ Len(hits) \in Nat /\ DOMAIN hits = 1..Len(hits)
      /\ Len(hits') = Len(hits) + 1 /\ DOMAIN hits' = 1..Len(hits) + 1
      /\ hits'[Len(hits) + 1] = h
      /\ \A i \in DOMAIN hits : i \in DOMAIN hits' /\ hits'[i] = hits[i]
      BY <1>1 DEF ConfirmType
<1>5. \A i \in DOMAIN hits' : i \in DOMAIN hits \/ (i = Len(hits) + 1 /\ hits'[i] = h)
      BY <1>4
<1>6. ConfirmType'
      <2>1. \A i \in DOMAIN hits' : hits'[i].n \in DOMAIN LitsOf(hits'[i].bucket)
            BY <1>1, <1>4, <1>5 DEF ConfirmType
      <2>2. HitRecord' = HitRecord /\ Block' = Block
            BY <1>2 DEF HitRecord, Block
      <2>3. QED  BY <1>1, <1>2, <1>3, <1>4, <2>1, <2>2 DEF ConfirmType
<1>7. HitsIn(e)'
      <2>1. ASSUME NEW i \in DOMAIN hits' PROVE hits'[i].end < e
            <3>1. CASE i \in DOMAIN hits
                  <4>1. hits[i].end < f /\ hits[i].end \in Nat
                        BY <1>1, <3>1, HitTyped DEF HitsIn
                  <4>2. QED  BY <1>4, <3>1, <4>1
            <3>2. QED  BY <1>5, <2>1, <3>1
      <2>2. ASSUME NEW i \in DOMAIN hits', NEW j \in DOMAIN hits', i < j
            PROVE  InOrder(hits'[i], hits'[j])
            <3>1. i \in DOMAIN hits
                  BY <1>4, <2>2
            <3>2. CASE j \in DOMAIN hits
                  BY <1>1, <1>4, <2>2, <3>1, <3>2 DEF HitsIn
            <3>3. CASE hits'[j] = h
                  BY <1>4, <3>1, <3>3
            <3>4. QED  BY <1>5, <3>2, <3>3
      <2>3. QED  BY <2>1, <2>2 DEF HitsIn
<1>8. LastInv'
      <2>1. CASE lastMatch = NoMatch
            BY <2>1 DEF LastInv
      <2>2. CASE lastMatch # NoMatch
            <3>1. PICK i \in DOMAIN hits :
                      ~hits[i].flood /\ hits[i].id = lastMatch /\ \A j \in i+1..Len(hits) : hits[j].flood
                  BY <1>1, <2>2 DEF LastInv
            <3>2. ASSUME NEW j \in i+1..Len(hits') PROVE hits'[j].flood
                  <4>1. j \in DOMAIN hits' /\ (j \in DOMAIN hits => j \in i+1..Len(hits))
                        BY <1>4, <3>2
                  <4>2. QED  BY <1>4, <1>5, <3>1, <4>1
            <3>3. QED  BY <1>4, <3>1, <3>2 DEF LastInv
      <2>3. QED  BY <2>1, <2>2
<1>9. OccurInv'
      <2>1. ASSUME NEW i \in DOMAIN hits'
            PROVE  \/ hits'[i].flood
                   \/ i \in DOMAIN hits /\ hits'[i] = hits[i] /\ IsOccurrence(hits[i])
            BY <1>1, <1>4, <1>5 DEF OccurInv
      <2>2. \A k : IsOccurrence(k) => IsOccurrence(k)'
            BY <1>2 DEF IsOccurrence, Occurs
      <2>3. QED  BY <2>1, <2>2 DEF OccurInv, IsOccurrence
<1>10. ASSUME NEW b, NEW n, NEW l, NEW end \in s..g-1, LeftOrTold(l, end, b, n)
       PROVE  LeftOrTold(l, end, b, n)'
      <2>1. Reported(l, end) => Reported(l, end)'
            BY <1>4 DEF Reported
      <2>2. LeftOutBySquash(end, b) => LeftOutBySquash(end, b)'
            BY <1>4 DEF LeftOutBySquash
      <2>3. ASSUME LeftOutAsRepeat(l, end, b, n) PROVE LeftOutAsRepeat(l, end, b, n)'
            <3>1. PICK i \in DOMAIN hits :
                      /\ ~hits[i].flood /\ hits[i].id = l.id /\ Before(hits[i], end, b, n)
                      /\ \A j \in i+1..Len(hits) : Before(hits[j], end, b, n) => hits[j].flood
                  BY <2>3 DEF LeftOutAsRepeat
            <3>2. ASSUME NEW j \in i+1..Len(hits'), Before(hits'[j], end, b, n) PROVE hits'[j].flood
                  <4>1. j \in DOMAIN hits' /\ (j \in DOMAIN hits => j \in i+1..Len(hits))
                        BY <1>4, <3>2
                  <4>2. QED  BY <1>4, <1>5, <3>1, <3>2, <4>1
            <3>3. i \in DOMAIN hits' /\ ~hits'[i].flood /\ hits'[i].id = l.id /\ Before(hits'[i], end, b, n)
                  BY <1>4, <3>1 DEF Before
            <3>4. l.norepeat
                  BY <2>3 DEF LeftOutAsRepeat
            <3>5. QED  BY <3>2, <3>3, <3>4 DEF LeftOutAsRepeat
      <2>4. QED  BY <1>10, <2>1, <2>2, <2>3 DEF LeftOrTold
<1>11. \A l, end : ToFind(l, s, end)' => ToFind(l, s, end)
      BY <1>2 DEF ToFind, Occurs
<1>12. ToldBefore(s, g)'
      BY <1>1, <1>2, <1>10, <1>11 DEF ToldBefore
<1>13. QED  BY <1>6, <1>7, <1>8, <1>9, <1>12 DEF RestsInv

LEMMA RestsAnswer ==
    ASSUME NEW s \in Nat, NEW f \in Nat, NEW g \in Nat, RestsInv(s, f, g), Idle,
           hits # <<>>, LastHit.flood, LastHit.squash = {},
           NEW reply \in Replies, Answered(reply, {}), control' \in BOOLEAN, control' => control,
           UNCHANGED <<table, buf, cands, word, chain, lastMatch>>, ~InChain'
    PROVE  RestsInv(s, f, g)' /\ (FloodHitInv => FloodHitInv')
<1>1. ConfirmType /\ HitsIn(f) /\ LastInv /\ OccurInv /\ ToldBefore(s, g)
      BY DEF RestsInv
<1>2. UNCHANGED <<Buckets, Len0>> /\ \A b : LitsOf(b)' = LitsOf(b)
      BY DEF Buckets, Len0, LitsOf
<1>3. at' # "callback" /\ word.bits = {}
      BY DEF InChain, Idle
<1>4. /\ hits' \in Seq(HitRecord) /\ Len(hits') = Len(hits) /\ DOMAIN hits' = DOMAIN hits
      /\ \A i \in DOMAIN hits :
            /\ hits'[i].id = hits[i].id /\ hits'[i].bucket = hits[i].bucket
            /\ hits'[i].n = hits[i].n /\ hits'[i].end = hits[i].end
            /\ hits'[i].flood = hits[i].flood /\ hits'[i].squash = hits[i].squash
      <2>1. {} \in Squashed
            BY DEF Squashed
      <2>2. QED  BY <1>1, <2>1, AnsweredHits DEF LastHit
<1>5. ConfirmType'
      <2>1. \A i \in DOMAIN hits' : hits'[i].n \in DOMAIN LitsOf(hits'[i].bucket)
            BY <1>1, <1>4 DEF ConfirmType
      <2>2. HitRecord' = HitRecord /\ Block' = Block
            BY <1>2 DEF HitRecord, Block
      <2>3. QED  BY <1>1, <1>2, <1>3, <1>4, <2>1, <2>2 DEF ConfirmType
<1>6. HitsIn(f)'
      <2>1. \A i, j \in DOMAIN hits : InOrder(hits[i], hits[j]) => InOrder(hits'[i], hits'[j])
            BY <1>4 DEF InOrder
      <2>2. QED  BY <1>1, <1>4, <2>1 DEF HitsIn
<1>7. LastInv'
      <2>1. CASE lastMatch = NoMatch
            BY <2>1 DEF LastInv
      <2>2. CASE lastMatch # NoMatch
            <3>1. PICK i \in DOMAIN hits :
                      ~hits[i].flood /\ hits[i].id = lastMatch /\ \A j \in i+1..Len(hits) : hits[j].flood
                  BY <1>1, <2>2 DEF LastInv
            <3>2. \A j \in i+1..Len(hits) : j \in DOMAIN hits
                  BY <1>1 DEF ConfirmType
            <3>3. \A j \in i+1..Len(hits') : hits'[j].flood
                  BY <1>4, <3>1, <3>2
            <3>4. QED  BY <1>4, <3>1, <3>3 DEF LastInv
      <2>3. QED  BY <2>1, <2>2
<1>8. ASSUME NEW i \in DOMAIN hits, IsOccurrence(hits[i])
      PROVE  IsOccurrence(hits[i])'
      <2>1. \A l, end : Occurs(l, end)' <=> Occurs(l, end)
            BY <1>2 DEF Occurs
      <2>2. QED  BY <1>2, <1>4, <1>8, <2>1 DEF IsOccurrence
<1>9. OccurInv' /\ (FloodHitInv => FloodHitInv')
      BY <1>1, <1>4, <1>8 DEF OccurInv, FloodHitInv
<1>10. ASSUME NEW b, NEW n, NEW l, NEW end, LeftOrTold(l, end, b, n)
       PROVE  LeftOrTold(l, end, b, n)'
      <2>1. Reported(l, end) => Reported(l, end)'
            BY <1>4 DEF Reported
      <2>2. LeftOutBySquash(end, b) => LeftOutBySquash(end, b)'
            BY <1>4 DEF LeftOutBySquash
      <2>3. ASSUME LeftOutAsRepeat(l, end, b, n) PROVE LeftOutAsRepeat(l, end, b, n)'
            <3>1. PICK i \in DOMAIN hits :
                      /\ ~hits[i].flood /\ hits[i].id = l.id /\ Before(hits[i], end, b, n)
                      /\ \A j \in i+1..Len(hits) : Before(hits[j], end, b, n) => hits[j].flood
                  BY <2>3 DEF LeftOutAsRepeat
            <3>2. \A j \in i+1..Len(hits) : j \in DOMAIN hits
                  BY <1>1 DEF ConfirmType
            <3>3. \A j \in DOMAIN hits : Before(hits'[j], end, b, n) <=> Before(hits[j], end, b, n)
                  BY <1>4 DEF Before
            <3>4. i \in DOMAIN hits' /\ ~hits'[i].flood /\ hits'[i].id = l.id /\ Before(hits'[i], end, b, n)
                  BY <1>4, <3>1, <3>3
            <3>5. \A j \in i+1..Len(hits') : Before(hits'[j], end, b, n) => hits'[j].flood
                  BY <1>4, <3>1, <3>2, <3>3
            <3>6. l.norepeat
                  BY <2>3 DEF LeftOutAsRepeat
            <3>7. QED  BY <3>4, <3>5, <3>6 DEF LeftOutAsRepeat, Before
      <2>4. QED  BY <1>10, <2>1, <2>2, <2>3 DEF LeftOrTold
<1>11. \A l, end : ToFind(l, s, end)' => ToFind(l, s, end)
      BY <1>2 DEF ToFind, Occurs
<1>12. ToldBefore(s, g)'
      BY <1>1, <1>2, <1>10, <1>11 DEF ToldBefore
<1>13. QED  BY <1>5, <1>6, <1>7, <1>9, <1>12 DEF RestsInv

-----------------------------------------------------------------------------
(***************************************************************************)
(* The steps of a flood.                                                   *)
(***************************************************************************)
LEMMA FloodTyped ==
    ASSUME ConfirmType, RunInv, it \in Int
    PROVE  /\ Flood.ids \in Seq(Nat \X (Nat \ {0})) /\ Len(Flood.ids) \in Nat
           /\ DOMAIN Flood.ids = 1..Len(Flood.ids)
           /\ Flood.suffix \in Nat /\ Flood.suffix >= HALF
           /\ FloodFits(table, flood.byte)
           /\ flood.t \in Nat /\ flood.k \in Nat \ {0} /\ flood.size \in Nat /\ it \in Nat
           /\ \A k \in 1..Len(Flood.ids) :
                 /\ FloodId(k)[1] \in Buckets /\ FloodId(k)[2] \in DOMAIN LitsOf(FloodId(k)[1])
                 /\ FloodId(k) = <<FloodId(k)[1], FloodId(k)[2]>>
                 /\ FloodId(k)[2] \in Nat \ {0}
                 /\ LitAt(FloodId(k)).id \in Nat
                 /\ LitAt(FloodId(k)).lit \in Seq(Nat)
           /\ FloodLit = LitAt(FloodId(flood.k))
<1>1. table \in Tables /\ flood.byte \in DOMAIN table.floods /\ Flood = table.floods[flood.byte]
      /\ Len(Flood.ids) < MAX_IDS
      BY DEF ConfirmType, RunInv, Flood
<1>2. /\ Flood.ids \in Seq(Nat \X (Nat \ {0})) /\ Flood.suffix >= HALF
      /\ \A k \in DOMAIN Flood.ids :
            FloodId(k)[1] \in DOMAIN table.chains /\ FloodId(k)[2] \in DOMAIN table.chains[FloodId(k)[1]]
      BY <1>1, FloodAssumption DEF FloodId
<1>3. Flood.suffix \in Nat
      BY <1>1, FdrAssumption
<1>4. FloodFits(table, flood.byte)
      BY <1>1, FloodAssumption
<1>5. Len(Flood.ids) \in Nat /\ DOMAIN Flood.ids = 1..Len(Flood.ids)
      BY <1>2
<1>6. /\ flood.t \in 0..flood.size /\ flood.k \in 1..Len(Flood.ids) \cup {1} /\ flood.size \in Nat
      /\ Flood.suffix <= it
      BY DEF RunInv
<1>7. flood.t \in Nat /\ flood.k \in Nat \ {0} /\ it \in Nat
      BY <1>3, <1>5, <1>6
<1>8. ASSUME NEW k \in 1..Len(Flood.ids)
      PROVE  /\ FloodId(k)[1] \in Buckets /\ FloodId(k)[2] \in DOMAIN LitsOf(FloodId(k)[1])
             /\ FloodId(k) = <<FloodId(k)[1], FloodId(k)[2]>>
             /\ FloodId(k)[2] \in Nat \ {0}
             /\ LitAt(FloodId(k)).id \in Nat
             /\ LitAt(FloodId(k)).lit \in Seq(Nat)
      <2>1. FloodId(k)[1] \in Buckets /\ FloodId(k)[2] \in DOMAIN LitsOf(FloodId(k)[1])
            BY <1>2, <1>5, <1>8 DEF Buckets, LitsOf
      <2>2. FloodId(k) \in Nat \X (Nat \ {0})
            BY <1>2, <1>5, <1>8 DEF FloodId
      <2>3. QED  BY <2>1, <2>2, LitTyped DEF LitAt
<1>9. FloodLit = LitAt(FloodId(flood.k))
      BY DEF FloodLit, LitAt, FloodId, LitsOf
<1>10. QED  BY <1>2, <1>3, <1>4, <1>5, <1>6, <1>7, <1>8, <1>9

LEMMA WithinRun ==
    ASSUME NEW u \in Nat, NEW v \in Nat, NEW w \in Nat,
           NEW end \in w..w + v - 1, NEW k \in Nat, k <= u
    PROVE  end - k \in w - u .. w + v
OBVIOUS

LEMMA WithinBoth ==
    ASSUME NEW u \in Nat, NEW m \in Nat, NEW c \in Nat,
           NEW k \in 0..Smaller(u, Smaller(m, c) - 1)
    PROVE  k \in 0..Smaller(m, c) - 1 /\ k <= u
BY DEF Smaller

\* A literal of the byte alone ends everywhere in the run.
LEMMA FloodOccurs ==
    ASSUME ConfirmType, RunInv, it \in Int,
           NEW k \in 1..Len(Flood.ids), NEW t \in 0..flood.size-1
    PROVE  Occurs(LitAt(FloodId(k)), it + t)
<1> DEFINE l == LitAt(FloodId(k))
<1>1. /\ Flood.suffix \in Nat /\ flood.size \in Nat /\ it \in Nat
      /\ FloodFits(table, flood.byte) /\ DOMAIN Flood.ids = 1..Len(Flood.ids)
      BY FloodTyped
<1>2. FloodId(k) \in {Flood.ids[i] : i \in DOMAIN Flood.ids} /\ l.lit \in Seq(Nat)
      BY <1>1, FloodTyped DEF FloodId
<1>3. (\A i \in DOMAIN l.lit : l.lit[i] = flood.byte) /\ Len(l.lit) <= Flood.suffix
      BY <1>1, <1>2 DEF FloodFits, Flood, LitAt, LitsOf
<1>4. Len(l.lit) \in Nat /\ DOMAIN l.lit = 1..Len(l.lit) /\ CONF_BYTES \in Nat
      BY <1>2, Widths
<1> HIDE DEF l
<1>5. Flood.suffix <= it /\ it + flood.size < Len0 /\ Len0 \in Nat
      BY Tabled DEF RunInv
<1>6. \A i \in it - Flood.suffix .. it + flood.size : buf[i + 1] = flood.byte
      BY DEF RunInv
<1>7. ASSUME NEW j \in 0..Smaller(Len(l.lit), CONF_BYTES) - 1
      PROVE  buf[it + t + 1 - j] = l.lit[Len(l.lit) - j]
      <2>1. j \in Nat /\ j < Len(l.lit)
            BY <1>4 DEF Smaller
      <2>2. Len(l.lit) - j \in DOMAIN l.lit
            BY <1>4, <2>1
      <2>3. it + t - j \in it - Flood.suffix .. it + flood.size
            <3>1. j <= Flood.suffix
                  BY <1>1, <1>3, <1>4, <2>1
            <3>2. it + t \in it..it + flood.size - 1
                  BY <1>1
            <3>3. QED  BY <1>1, <2>1, <3>1, <3>2, WithinRun
      <2>4. it + t - j + 1 = it + t + 1 - j
            BY <1>1, <2>1
      <2>5. buf[it + t + 1 - j] = flood.byte
            BY <1>6, <2>3, <2>4
      <2>6. QED  BY <1>3, <2>2, <2>5
<1>8. Len(l.lit) <= it + t + 1 /\ it + t < Len0
      BY <1>1, <1>3, <1>4, <1>5
<1>9. Occurs(l, it + t)
      BY <1>7, <1>8 DEF Occurs
<1>10. QED  BY <1>9 DEF l

\* And nothing else ends in it.
LEMMA FloodTells ==
    ASSUME ConfirmType, RunInv, it \in Int, NEW s \in Nat,
           NEW b \in Buckets, NEW n \in DOMAIN LitsOf(b), NEW end \in it..it + flood.size - 1,
           ToFind(LitsOf(b)[n], s, end)
    PROVE  \E k \in 1..Len(Flood.ids) : FloodId(k) = <<b, n>>
<1> DEFINE l == LitsOf(b)[n]
<1>1. /\ Flood.suffix \in Nat /\ flood.size \in Nat /\ it \in Nat
      /\ FloodFits(table, flood.byte) /\ DOMAIN Flood.ids = 1..Len(Flood.ids)
      BY FloodTyped
<1>2. Len(l.lit) \in Nat /\ CONF_BYTES \in Nat
      BY LitTyped, Widths
<1>3. Occurs(l, end)
      BY DEF ToFind
<1>4. \/ <<b, n>> \in {Flood.ids[i] : i \in DOMAIN Flood.ids}
      \/ \E k \in 0..Smaller(Flood.suffix, Smaller(Len(l.lit), CONF_BYTES) - 1) :
            l.lit[Len(l.lit) - k] # flood.byte
      <2>1. b \in DOMAIN table.chains /\ n \in DOMAIN table.chains[b] /\ l = table.chains[b][n]
            BY DEF Buckets, LitsOf
      <2>2. PICK t : t = table.chains[b][n].lit
            OBVIOUS
      <2>3. \/ <<b, n>> \in {Flood.ids[i] : i \in DOMAIN Flood.ids}
            \/ \E k \in 0..Smaller(Flood.suffix, Smaller(Len(t), CONF_BYTES) - 1) : t[Len(t) - k] # flood.byte
            BY <1>1, <2>1, <2>2 DEF FloodFits, Flood
      <2>4. t = l.lit
            BY <2>1, <2>2
      <2> HIDE DEF l
      <2>5. QED  BY <2>3, <2>4
<1> HIDE DEF l
<1>5. ASSUME NEW k \in 0..Smaller(Flood.suffix, Smaller(Len(l.lit), CONF_BYTES) - 1)
      PROVE  l.lit[Len(l.lit) - k] = flood.byte
      <2>1. k \in 0..Smaller(Len(l.lit), CONF_BYTES) - 1 /\ k <= Flood.suffix
            BY <1>1, <1>2, WithinBoth
      <2>2. buf[end + 1 - k] = l.lit[Len(l.lit) - k]
            BY <1>3, <2>1 DEF Occurs
      <2>3. end - k \in it - Flood.suffix .. it + flood.size
            <3>1. k \in Nat /\ k <= Flood.suffix
                  BY <1>2, <2>1
            <3>2. QED  BY <1>1, <3>1, WithinRun
      <2>4. end - k + 1 = end + 1 - k
            BY <1>1, <2>1
      <2>5. buf[end - k + 1] = flood.byte
            BY <2>3 DEF RunInv
      <2>6. QED  BY <2>2, <2>4, <2>5
<1>6. QED  BY <1>1, <1>4, <1>5 DEF FloodId

\* What is known of the hits and the candidates, but in a flood.
Searches ==
    \E a \in Int, s \in Nat, f \in Nat :
        a = Z.adjust /\ s = start /\ f = Frontier /\ ConfirmInv(a, s, f)

SearchInv ==
    /\ PlaceInv /\ CutInv /\ StandInv /\ QuietInv /\ StateInv /\ NearInv /\ FloodHitInv
    /\ IF Flooding THEN FloodInv ELSE Searches

\* Floods are looked for in the main zone only.
LEMMA MainPlace ==
    ASSUME PlaceInv, CutInv, StandInv, at \in {"flood", "run", "floodcallback", "block"}
    PROVE  /\ ~Z.copied /\ Z.adjust = 0 /\ Z.skip = 0 /\ Frontier = it
           /\ it \in Nat /\ it >= start + ITER_BYTES /\ it <= Len0
<1>1. ~Z.copied
      BY DEF PlaceInv
<1>2. ZoneCut(Z) /\ ITER_BYTES \in Nat \ {0} /\ Len0 \in Nat /\ start \in Nat /\ it \in Int
      BY ThisZone
<1>3. Z.adjust = 0 /\ Z.skip = 0 /\ Z.from >= start + ITER_BYTES /\ Z.from \in Int
      BY <1>1, <1>2 DEF ZoneCut
<1>4. Skipped = 0
      BY <1>3 DEF Skipped
<1>5. Frontier = it + 0 + 0 /\ it >= Z.from /\ Frontier <= Len0
      BY <1>3, <1>4, FrontierIn
<1>6. QED  BY <1>1, <1>2, <1>3, <1>5

LEMMA FloodStarts ==
    ASSUME SearchInv, FloodDetect, at' = "run"
    PROVE  FloodInv'
<1> DEFINE c == buf[it + 1]
           j == RunEnd(RunStart, c)
           size == ((j - 1 - it) \div ITER_BYTES) * ITER_BYTES
<1>1. /\ at = "flood" /\ ~NoRun /\ j > it
      /\ flood' = [byte |-> c, first |-> it, t |-> 0, k |-> 1, size |-> size,
                   next |-> NextProbe(j - 1, backoff)]
      /\ UNCHANGED <<table, buf, cands, word, chain, control, lastMatch, hits,
                     start, align, zones, zone, it, state, ret>>
      BY DEF FloodDetect, confirmVars
<1>2. /\ it \in Nat /\ Frontier = it /\ Len0 \in Nat /\ ITER_BYTES \in Nat \ {0} /\ start \in Nat
      BY <1>1, MainPlace, ThisZone DEF SearchInv
<1>3. /\ RunStart \in Nat /\ RunStart <= it /\ c \in DOMAIN table.floods
      /\ table.floods[c].suffix \in Nat
      /\ RunStart <= it - table.floods[c].suffix /\ table.floods[c].suffix <= it
      BY <1>1, RunStartsBefore DEF SearchInv
<1>4. /\ RunStart >= MainLoopLen => j = RunStart
      /\ RunStart < MainLoopLen => j \in RunStart..MainLoopLen
      /\ \A x \in RunStart..j-1 : buf[x + 1] = c
      BY <1>3, RunEndsInLoop DEF SearchInv, PlaceInv
<1>5. MainLoopLen \in Nat /\ MainLoopLen <= Len0
      BY <1>2 DEF MainLoopLen
<1>6. Len(table.floods[c].ids) < MAX_IDS
      <2>1. ~(Len(table.floods[c].ids) >= MAX_IDS)
            BY <1>1 DEF NoRun
      <2>2. MAX_IDS \in Nat /\ Len(table.floods[c].ids) \in Nat
            BY <1>3, FdrAssumption, FloodAssumption DEF SearchInv, PlaceInv
      <2>3. QED  BY <2>1, <2>2
<1> HIDE DEF j, c
<1>7. j \in Nat /\ j <= Len0
      BY <1>1, <1>2, <1>3, <1>4, <1>5
<1>8. size \in Nat /\ size <= j - 1 - it
      <2>1. j - 1 - it \in Nat
            BY <1>1, <1>2, <1>7
      <2>2. PICK m \in Nat : m = j - 1 - it
            BY <2>1
      <2>3. m \div ITER_BYTES \in Nat /\ m = (m \div ITER_BYTES) * ITER_BYTES + (m % ITER_BYTES)
            /\ m % ITER_BYTES \in 0..ITER_BYTES-1
            BY <1>2, <2>2, Divides
      <2>4. (m \div ITER_BYTES) * ITER_BYTES \in Nat
            BY <1>2, <2>3
      <2>5. size = (m \div ITER_BYTES) * ITER_BYTES
            BY <2>2
      <2> HIDE DEF size
      <2>6. QED  BY <1>2, <2>2, <2>3, <2>4, <2>5
<1> HIDE DEF size
<1>9. /\ flood'.byte = c /\ flood'.first = it /\ flood'.t = 0 /\ flood'.k = 1 /\ flood'.size = size
      /\ Flood' = table.floods[c]
      BY <1>1 DEF Flood
<1>10. RunInv'
      <2>1. Len0' = Len0 /\ it + size < Len0
            BY <1>1, <1>2, <1>7, <1>8 DEF Len0
      <2>2. \A i \in it - table.floods[c].suffix .. it + size : buf[i + 1] = c
            <3>1. SUFFICES ASSUME NEW i \in it - table.floods[c].suffix .. it + size
                           PROVE  i \in RunStart..j-1
                  BY <1>4
            <3>2. QED  BY <1>2, <1>3, <1>7, <1>8
      <2>3. /\ 0 \in 0..size /\ 1 \in 1..Len(Flood'.ids) \cup {1}
            /\ {"byte", "first", "size", "t", "k"} \subseteq DOMAIN flood'
            BY <1>1, <1>8
      <2>4. QED  BY <1>1, <1>3, <1>6, <1>8, <1>9, <2>1, <2>2, <2>3 DEF RunInv
<1>11. PICK a \in Int, s \in Nat, f \in Nat : s = start /\ f = it /\ ConfirmInv(a, s, f)
      BY <1>1, <1>2 DEF SearchInv, Flooding, Searches
<1>12. Idle
      BY <1>1, <1>11 DEF SearchInv, QuietInv, Idle, ConfirmInv, ConfirmType, InChain
<1>13. RestsInv(s, f, f)'
      <2>1. RestsInv(s, f, f)
            BY <1>11, <1>12, Rests
      <2>2. UNCHANGED Rest /\ ~InChain'
            BY <1>1 DEF Rest, InChain
      <2>3. QED  BY <1>12, <2>1, <2>2, RestsStay
<1>14. Told' = 0
      BY <1>9 DEF Told
<1>15. ToldInv'
      BY <1>8, <1>9 DEF ToldInv
<1>16. HereInv'
      <2>1. ASSUME NEW i \in DOMAIN hits PROVE hits[i].end # it
            <3>1. ConfirmType /\ hits[i].end < f
                  BY <1>11 DEF ConfirmInv, OrderInv
            <3>2. hits[i].end \in Nat
                  BY <3>1, HitTyped
            <3>3. QED  BY <1>11, <3>1, <3>2
      <2>2. it + 0 = it
            BY <1>2
      <2>3. QED  BY <1>1, <1>9, <2>1, <2>2 DEF HereInv
<1>17. s = start' /\ f = (it + Told)' /\ f = it'
      BY <1>1, <1>2, <1>11, <1>14
<1>18. QED  BY <1>10, <1>13, <1>15, <1>16, <1>17 DEF FloodInv

-----------------------------------------------------------------------------

\* The next literal or the next end: what was told stays told.
LEMMA FloodAdvances ==
    ASSUME ConfirmType, RunInv, ToldInv, HereInv, it \in Int, Flooding,
           NEW f \in Nat, f = it + Told, HitsIn(f),
           flood.t # flood.size, flood.k <= Len(Flood.ids), StepFlood, at' = "run",
           UNCHANGED <<table, buf, it>>, DOMAIN hits' = DOMAIN hits,
           \A i \in DOMAIN hits :
               /\ hits'[i].id = hits[i].id /\ hits'[i].bucket = hits[i].bucket
               /\ hits'[i].n = hits[i].n /\ hits'[i].end = hits[i].end
               /\ hits'[i].flood = hits[i].flood /\ hits'[i].squash = hits[i].squash,
           control' => control,
           control /\ LitAt(FloodId(flood.k)).grouped => Reported(LitAt(FloodId(flood.k)), it + flood.t)
    PROVE  /\ RunInv' /\ ToldInv' /\ HereInv'
           /\ Told \in Nat /\ Told' \in Nat /\ Told <= Told'
<1>1. /\ flood.t \in Nat /\ flood.k \in Nat \ {0} /\ flood.size \in Nat /\ it \in Nat
      /\ Len(Flood.ids) \in Nat /\ flood.t < flood.size
      <2>1. /\ flood.t \in Nat /\ flood.k \in Nat \ {0} /\ flood.size \in Nat /\ it \in Nat
            /\ Len(Flood.ids) \in Nat
            BY FloodTyped
      <2>2. flood.t \in 0..flood.size
            BY DEF RunInv
      <2>3. QED  BY <2>1, <2>2
<1>2. /\ flood'.byte = flood.byte /\ flood'.first = flood.first /\ flood'.size = flood.size
      /\ DOMAIN flood' = DOMAIN flood
      /\ flood.k < Len(Flood.ids) => flood'.k = flood.k + 1 /\ flood'.t = flood.t
      /\ ~(flood.k < Len(Flood.ids)) => flood'.k = 1 /\ flood'.t = flood.t + 1
      BY DEF StepFlood, RunInv
<1>3. /\ Flood' = Flood /\ \A k : FloodId(k)' = FloodId(k)
      /\ \A x : LitAt(x)' = LitAt(x)
      /\ Len0' = Len0
      BY <1>2 DEF Flood, FloodId, LitAt, LitsOf, Len0
<1>4. \/ flood'.k = flood.k + 1 /\ flood'.t = flood.t /\ flood.k < Len(Flood.ids)
      \/ flood'.k = 1 /\ flood'.t = flood.t + 1 /\ flood.k = Len(Flood.ids)
      BY <1>1, <1>2
<1>5. /\ Told = flood.t + (IF flood.k = 1 /\ at = "run" THEN 0 ELSE 1)
      /\ Told' = flood'.t + (IF flood'.k = 1 THEN 0 ELSE 1)
      BY DEF Told
<1>6. Told \in Nat /\ Told' \in Nat /\ Told <= Told' /\ Told <= flood.t + 1
      BY <1>1, <1>4, <1>5
<1>7. RunInv'
      <2>1. /\ flood'.t \in 0..flood.size /\ flood'.k \in 1..Len(Flood.ids) \cup {1}
            /\ flood'.t = flood.size => flood'.k = 1
            BY <1>1, <1>4
      <2>2. at' # "floodcallback"
            OBVIOUS
      <2>3. QED  BY <1>2, <1>3, <2>1, <2>2 DEF RunInv
<1>8. ToldInv'
      <2>1. ASSUME control', NEW t \in 0..flood.size-1, NEW k \in 1..Len(Flood.ids),
                   t < flood'.t \/ (t = flood'.t /\ k < flood'.k), LitAt(FloodId(k)).grouped
            PROVE  Reported(LitAt(FloodId(k)), it + t)
            <3>1. (t < flood.t \/ (t = flood.t /\ k < flood.k)) \/ (t = flood.t /\ k = flood.k)
                  BY <1>1, <1>4, <2>1
            <3>2. CASE t < flood.t \/ (t = flood.t /\ k < flood.k)
                  BY <2>1, <3>2 DEF ToldInv
            <3>3. CASE t = flood.t /\ k = flood.k
                  BY <2>1, <3>3
            <3>4. QED  BY <3>1, <3>2, <3>3
      <2>2. \A l, end : Reported(l, end) => Reported(l, end)'
            BY DEF Reported
      <2>3. QED  BY <1>2, <1>3, <2>1, <2>2 DEF ToldInv
<1>9. HereInv'
      <2>1. ASSUME NEW i \in DOMAIN hits, hits[i].end = it + flood'.t
            PROVE  /\ hits[i].flood /\ hits[i].squash = {}
                   /\ \E k \in 1..Len(Flood.ids) :
                         k < flood'.k /\ <<hits[i].bucket, hits[i].n>> = FloodId(k)
            <3>1. hits[i].end \in Nat /\ hits[i].end < f
                  BY HitTyped DEF HitsIn
            <3>2. hits[i].end = it + flood.t /\ flood'.k = flood.k + 1
                  BY <1>1, <1>4, <1>6, <2>1, <3>1
            <3>3. /\ hits[i].flood /\ hits[i].squash = {}
                  /\ \E k \in 1..Len(Flood.ids) :
                        (k < flood.k \/ k = flood.k) /\ <<hits[i].bucket, hits[i].n>> = FloodId(k)
                  BY <3>2 DEF HereInv
            <3>4. QED  BY <1>1, <3>2, <3>3
      <2>2. QED  BY <1>2, <1>3, <2>1 DEF HereInv
<1>10. QED  BY <1>6, <1>7, <1>8, <1>9

\* The engine confirms nothing in a flood.
LEMMA FloodIdle ==
    ASSUME QuietInv, ConfirmType, Flooding
    PROVE  Idle
BY DEF QuietInv, ConfirmType, Flooding, Idle, InChain

LEMMA FloodReports ==
    ASSUME PlaceInv, CutInv, StandInv, QuietInv, FloodInv, FloodHitInv, ReportFlood
    PROVE  /\ FloodInv' /\ FloodHitInv'
           /\ at' = "floodcallback" => HitStep
<1>1. PICK s \in Nat, f \in Nat, g \in Nat :
          s = start /\ f = it + Told /\ g = it /\ RestsInv(s, f, g)
      BY DEF FloodInv
<1>2. /\ at = "run" /\ ~FloodOver
      /\ UNCHANGED <<table, buf, cands, word, chain, control, lastMatch,
                     start, align, zones, zone, it, state, tryFlood, backoff, ret>>
      BY DEF ReportFlood
<1>3. ConfirmType /\ RunInv /\ ToldInv /\ HereInv /\ HitsIn(f) /\ Flooding /\ it \in Int
      BY <1>1, <1>2 DEF FloodInv, RestsInv, Flooding, PlaceInv
<1>4. Idle
      BY <1>3, FloodIdle
<1>5. /\ flood.t \in Nat /\ flood.k \in Nat \ {0} /\ flood.size \in Nat /\ it \in Nat
      /\ Len(Flood.ids) \in Nat /\ Flood.ids \in Seq(Nat \X (Nat \ {0}))
      /\ FloodLit = LitAt(FloodId(flood.k))
      BY <1>3, FloodTyped
<1>6. flood.t < flood.size /\ flood.k \in 1..Len(Flood.ids) /\ control
      <2>1. Flood.ids # <<>> /\ flood.t # flood.size /\ control
            BY <1>2 DEF FloodOver
      <2>2. Len(Flood.ids) # 0
            BY <1>5, <2>1
      <2>3. flood.t \in 0..flood.size /\ flood.k \in 1..Len(Flood.ids) \cup {1}
            BY <1>3 DEF RunInv
      <2>4. QED  BY <1>5, <2>1, <2>2, <2>3
<1>7. CASE ~FloodLit.grouped
      <2>1. StepFlood /\ at' = "run" /\ hits' = hits
            BY <1>2, <1>7 DEF ReportFlood
      <2>2. RunInv' /\ ToldInv' /\ HereInv' /\ Told \in Nat /\ Told' \in Nat /\ Told <= Told'
            BY <1>1, <1>2, <1>3, <1>5, <1>6, <1>7, <2>1, FloodAdvances
      <2>3. PICK m \in Nat, m2 \in Nat : m = Told /\ m2 = Told'
            BY <2>2
      <2>4. PICK h \in Nat : h = it + m2 /\ h = it + Told' /\ f <= h
            <3>1. m <= m2 /\ f = it + m
                  BY <1>1, <2>2, <2>3
            <3>2. it + m2 \in Nat /\ f <= it + m2
                  BY <1>5, <3>1
            <3>3. QED  BY <2>3, <3>2
      <2>5. RestsInv(s, h, g)
            <3>1. f \in Int /\ h \in Int
                  OBVIOUS
            <3>2. QED  BY <1>1, <2>4, <3>1, RestsLater
      <2>6. UNCHANGED Rest /\ ~InChain'
            BY <1>2, <2>1 DEF Rest, InChain
      <2>7. RestsInv(s, h, g)'
            BY <1>4, <2>5, <2>6, RestsStay
      <2>8. s = start' /\ h = (it + Told)' /\ g = it'
            BY <1>1, <1>2, <2>4
      <2>9. FloodInv'
            BY <2>2, <2>7, <2>8 DEF FloodInv
      <2>10. FloodHitInv'
            BY <1>2, <2>1 DEF FloodHitInv, IsOccurrence, Occurs, LitsOf, Len0
      <2>11. QED  BY <2>1, <2>9, <2>10
<1>8. CASE FloodLit.grouped
      <2> DEFINE x == FloodId(flood.k)
                 h == Hit(FloodLit.id, x[1], x[2], flood.first + flood.t, TRUE)
      <2>1. hits' = Append(hits, h) /\ at' = "floodcallback" /\ UNCHANGED flood
            BY <1>2, <1>8 DEF ReportFlood, FloodId
      <2>2. /\ x[1] \in Buckets /\ x[2] \in DOMAIN LitsOf(x[1]) /\ x[2] \in Nat \ {0}
            /\ FloodLit.id \in Nat /\ x = <<x[1], x[2]>> /\ FloodLit = LitsOf(x[1])[x[2]]
            BY <1>3, <1>5, <1>6, FloodTyped DEF LitAt
      <2>3. PICK end \in Nat : end = flood.first + flood.t /\ end = it + flood.t
            BY <1>3, <1>5 DEF RunInv
      <2>4. /\ h.id = FloodLit.id /\ h.bucket = x[1] /\ h.n = x[2] /\ h.end = end /\ h.flood = TRUE
            /\ h.squash = {} /\ h.reply = "none"
            BY <2>3 DEF Hit
      <2>5. h \in HitRecord
            <3>1. {} \in Squashed
                  BY DEF Squashed
            <3>2. QED  BY <2>2, <2>3, <3>1 DEF Hit, HitRecord
      <2>6. h = Hit(FloodLit.id, x[1], x[2], it + flood.t, TRUE)
            BY <2>3
      <2> HIDE DEF x, h
      <2>7. Told = flood.t + (IF flood.k = 1 THEN 0 ELSE 1) /\ Told' = flood.t + 1
            BY <1>2, <2>1 DEF Told
      <2>8. PICK e \in Nat : e = end + 1
            OBVIOUS
      <2>9. f <= e /\ h.end < e /\ g <= h.end /\ e = (it + Told)'
            <3>1. PICK m \in Nat : m = Told /\ m <= flood.t + 1
                  BY <1>5, <2>7
            <3>2. f = it + m
                  BY <1>1, <3>1
            <3>3. f <= e /\ g <= end
                  <4>1. it + m <= it + (flood.t + 1) /\ it <= it + flood.t
                        BY <1>5, <3>1
                  <4>2. it + (flood.t + 1) = (it + flood.t) + 1
                        BY <1>5
                  <4>3. e = (it + flood.t) + 1 /\ g = it
                        BY <1>1, <2>3, <2>8
                  <4>4. QED  BY <2>3, <3>2, <4>1, <4>2, <4>3
            <3>4. (it + Told)' = it + (flood.t + 1)
                  BY <1>2, <2>7
            <3>5. QED  BY <1>5, <2>3, <2>4, <2>8, <3>3, <3>4
      <2>10. ASSUME NEW i \in DOMAIN hits
             PROVE  /\ hits[i].end <= h.end /\ InOrder(hits[i], h)
                    /\ hits[i].end = h.end =>
                          <<hits[i].bucket, hits[i].n>> # <<h.bucket, h.n>> /\ hits[i].squash = {}
             <3>1. hits[i].end \in Nat /\ hits[i].end < f
                   BY <1>3, HitTyped DEF HitsIn
             <3>2. hits[i].end <= end
                   BY <2>8, <2>9, <3>1
             <3>3. ASSUME hits[i].end = end
                   PROVE  /\ hits[i].flood /\ hits[i].squash = {}
                          /\ <<hits[i].bucket, hits[i].n>> # x
                   <4>1. /\ hits[i].flood /\ hits[i].squash = {}
                         /\ \E k \in 1..Len(Flood.ids) :
                               k < flood.k /\ <<hits[i].bucket, hits[i].n>> = FloodId(k)
                         BY <1>2, <1>3, <2>3, <3>3 DEF HereInv
                   <4>2. ASSUME NEW k \in 1..Len(Flood.ids), k < flood.k
                         PROVE  FloodId(k) # x
                         <5>1. FloodFits(table, flood.byte) /\ DOMAIN Flood.ids = 1..Len(Flood.ids)
                               BY <1>3, FloodTyped
                         <5>2. \A j, m \in DOMAIN Flood.ids : Flood.ids[j] = Flood.ids[m] => j = m
                               BY <5>1 DEF FloodFits, Flood
                         <5>3. k \in DOMAIN Flood.ids /\ flood.k \in DOMAIN Flood.ids /\ k # flood.k
                               BY <1>5, <1>6, <4>2, <5>1
                         <5>4. Flood.ids[k] # Flood.ids[flood.k]
                               BY <5>2, <5>3
                         <5>5. QED  BY <5>4 DEF x, FloodId
                   <4>3. QED  BY <4>1, <4>2
             <3>4. <<h.bucket, h.n>> = x
                   BY <2>2, <2>4
             <3>5. hits[i].end < end \/ hits[i].end = end
                   BY <3>1, <3>2
             <3>6. InOrder(hits[i], h)
                   BY <2>4, <3>3, <3>5 DEF InOrder
             <3>7. QED  BY <2>4, <3>2, <3>3, <3>4, <3>6
      <2>11. ~InChain'
            BY <2>1 DEF InChain
      <2>12. RestsInv(s, e, g)'
            BY <1>1, <1>2, <1>4, <2>1, <2>2, <2>4, <2>5, <2>9, <2>10, <2>11, RestsAppend
      <2>13. /\ Len(hits) \in Nat /\ DOMAIN hits = 1..Len(hits) /\ DOMAIN hits' = 1..Len(hits) + 1
             /\ hits'[Len(hits) + 1] = h /\ Len(hits') = Len(hits) + 1
             /\ \A i \in DOMAIN hits : i \in DOMAIN hits' /\ hits'[i] = hits[i]
             BY <1>3, <2>1, <2>5 DEF ConfirmType
      <2>14. \A i \in DOMAIN hits' : i \in DOMAIN hits \/ (i = Len(hits) + 1 /\ hits'[i] = h)
             BY <2>13
      <2>15. /\ Flood' = Flood /\ \A k : FloodId(k)' = FloodId(k)
             /\ \A y : LitAt(y)' = LitAt(y)
             /\ Len0' = Len0 /\ FloodLit' = FloodLit
             BY <1>2, <2>1 DEF Flood, FloodId, LitAt, LitsOf, Len0, FloodLit
      <2>16. RunInv'
             <3>1. hits' # <<>> /\ LastHit' = h
                   BY <2>13 DEF LastHit
             <3>2. LastHit' = Hit(FloodLit.id, FloodId(flood.k)[1], FloodId(flood.k)[2], it + flood.t, TRUE)
                   BY <2>6, <3>1 DEF x
             <3>3. flood.t < flood.size /\ flood.k <= Len(Flood.ids)
                   BY <1>6
             <3>4. QED  BY <1>2, <1>3, <2>1, <2>15, <3>1, <3>2, <3>3 DEF RunInv
      <2>17. ToldInv'
             <3>1. \A l, y : Reported(l, y) => Reported(l, y)'
                   BY <2>13 DEF Reported
             <3>2. QED  BY <1>2, <1>3, <2>1, <2>15, <3>1 DEF ToldInv
      <2>18. HereInv'
             <3>1. ASSUME NEW i \in DOMAIN hits', hits'[i].end = it + flood.t
                   PROVE  /\ hits'[i].flood /\ hits'[i].squash = {}
                          /\ \E k \in 1..Len(Flood.ids) :
                                /\ k < flood.k \/ (k = flood.k /\ i = Len(hits'))
                                /\ <<hits'[i].bucket, hits'[i].n>> = FloodId(k)
                   <4>1. CASE i \in DOMAIN hits
                         <5>1. hits'[i] = hits[i]
                               BY <2>13, <4>1
                         <5>2. QED  BY <1>2, <1>3, <3>1, <4>1, <5>1 DEF HereInv
                   <4>2. CASE i = Len(hits) + 1 /\ hits'[i] = h
                         BY <1>6, <2>2, <2>4, <2>13, <4>2 DEF x
                   <4>3. QED  BY <2>14, <4>1, <4>2
             <3>2. QED  BY <1>2, <2>1, <2>15, <3>1 DEF HereInv
      <2>19. FloodInv'
             <3>1. s = start' /\ g = it'
                   BY <1>1, <1>2
             <3>2. QED  BY <2>9, <2>12, <2>16, <2>17, <2>18, <3>1 DEF FloodInv
      <2>20. FloodHitInv'
             <3>1. \A k : IsOccurrence(k) => IsOccurrence(k)'
                   BY <1>2, <2>15 DEF IsOccurrence, Occurs, LitsOf
             <3>2. IsOccurrence(h)
                   <4>1. flood.t \in 0..flood.size-1
                         BY <1>5, <1>6
                   <4>2. Occurs(LitAt(FloodId(flood.k)), it + flood.t)
                         BY <1>3, <1>6, <4>1, FloodOccurs
                   <4>3. QED  BY <1>5, <2>2, <2>3, <2>4, <4>2 DEF IsOccurrence, LitAt
             <3>3. ASSUME NEW i \in DOMAIN hits', hits'[i].flood PROVE IsOccurrence(hits'[i])
                   BY <2>13, <2>14, <3>2, <3>3 DEF FloodHitInv
             <3>4. ASSUME NEW i \in DOMAIN hits', hits'[i].flood PROVE (IsOccurrence(hits[i]))'
                   BY <3>1, <3>3, <3>4 DEF IsOccurrence, Occurs, LitsOf
             <3>5. QED  BY <3>4 DEF FloodHitInv
      <2>21. HitStep
             <3>1. \A i, j \in DOMAIN hits : i < j => InOrder(hits[i], hits[j])
                   BY <1>3 DEF HitsIn
             <3>2. \A i \in DOMAIN hits : hits[i].end = h.end => h.bucket \notin hits[i].squash
                   BY <2>10
             <3>3. QED  BY <1>3, <2>1, <2>4, <2>5, <2>10, <3>1, <3>2, AppendStreams
      <2>22. QED  BY <2>19, <2>20, <2>21
<1>9. QED  BY <1>7, <1>8

LEMMA FloodAnswers ==
    ASSUME PlaceInv, QuietInv, FloodInv, FloodHitInv, AnswerFlood
    PROVE  /\ FloodInv' /\ FloodHitInv'
           /\ StreamSquashed \subseteq StreamSquashed'
           /\ UNCHANGED <<StreamEnd, StreamLit, StreamBucket, StreamUsed>>
<1>1. PICK s \in Nat, f \in Nat, g \in Nat :
          s = start /\ f = it + Told /\ g = it /\ RestsInv(s, f, g)
      BY DEF FloodInv
<1>2. PICK reply \in Replies :
          /\ Answered(reply, {}) /\ control' = (reply = "Continue")
          /\ at = "floodcallback" /\ at' = "run" /\ StepFlood
          /\ UNCHANGED <<table, buf, cands, word, chain, lastMatch,
                         start, align, zones, zone, it, state, tryFlood, backoff, ret>>
      BY DEF AnswerFlood
<1>3. ConfirmType /\ RunInv /\ ToldInv /\ HereInv /\ HitsIn(f) /\ Flooding /\ it \in Int
      BY <1>1, <1>2 DEF FloodInv, RestsInv, Flooding, PlaceInv
<1>4. Idle /\ control /\ ~InChain'
      BY <1>2, <1>3, FloodIdle DEF QuietInv, ControlPoints, Confirming, InChain
<1>5. /\ flood.t \in Nat /\ flood.k \in Nat \ {0} /\ flood.size \in Nat /\ it \in Nat
      /\ Len(Flood.ids) \in Nat
      /\ FloodLit = LitAt(FloodId(flood.k))
      BY <1>3, FloodTyped
<1>6. /\ flood.t # flood.size /\ flood.k <= Len(Flood.ids) /\ hits # <<>>
      /\ LastHit = Hit(FloodLit.id, FloodId(flood.k)[1], FloodId(flood.k)[2], it + flood.t, TRUE)
      BY <1>2, <1>3, <1>5 DEF RunInv
<1>7. LastHit.flood /\ LastHit.squash = {} /\ LastHit.id = FloodLit.id /\ LastHit.end = it + flood.t
      BY <1>6 DEF Hit
<1>8. {} \in Squashed
      BY DEF Squashed
<1>9. /\ hits' \in Seq(HitRecord) /\ Len(hits') = Len(hits) /\ DOMAIN hits' = DOMAIN hits
      /\ \A i \in DOMAIN hits :
            /\ hits'[i].id = hits[i].id /\ hits'[i].bucket = hits[i].bucket
            /\ hits'[i].n = hits[i].n /\ hits'[i].end = hits[i].end
            /\ hits'[i].flood = hits[i].flood /\ hits'[i].squash = hits[i].squash
      BY <1>2, <1>3, <1>6, <1>7, <1>8, AnsweredHits DEF LastHit
<1>10. Reported(LitAt(FloodId(flood.k)), it + flood.t)
      <2>1. Len(hits) \in DOMAIN hits
            BY <1>3, <1>6 DEF ConfirmType
      <2>2. QED  BY <1>5, <1>7, <2>1 DEF Reported, LastHit
<1>11. RunInv' /\ ToldInv' /\ HereInv' /\ Told \in Nat /\ Told' \in Nat /\ Told <= Told'
      BY <1>1, <1>2, <1>3, <1>4, <1>5, <1>6, <1>9, <1>10, FloodAdvances
<1>12. PICK m \in Nat, m2 \in Nat : m = Told /\ m2 = Told'
      BY <1>11
<1>13. PICK h \in Nat : h = it + m2 /\ h = it + Told' /\ f <= h
      <2>1. m <= m2 /\ f = it + m
            BY <1>1, <1>11, <1>12
      <2>2. it + m2 \in Nat /\ f <= it + m2
            BY <1>5, <2>1
      <2>3. QED  BY <1>12, <2>2
<1>14. RestsInv(s, h, g)
      <2>1. f \in Int /\ h \in Int
            OBVIOUS
      <2>2. QED  BY <1>1, <1>13, <2>1, RestsLater
<1>15. control' \in BOOLEAN /\ (control' => control)
      BY <1>2, <1>4
<1>16. RestsInv(s, h, g)' /\ (FloodHitInv => FloodHitInv')
      BY <1>2, <1>4, <1>6, <1>7, <1>14, <1>15, RestsAnswer
<1>17. s = start' /\ h = (it + Told)' /\ g = it'
      BY <1>1, <1>2, <1>13
<1>18. FloodInv'
      BY <1>11, <1>16, <1>17 DEF FloodInv
<1>19. /\ StreamSquashed \subseteq StreamSquashed'
       /\ UNCHANGED <<StreamEnd, StreamLit, StreamBucket, StreamUsed>>
      BY <1>2, <1>3, <1>6, <1>7, <1>8, AnswerStreams
<1>20. QED  BY <1>16, <1>18, <1>19

\* What the flood skips it told.
LEMMA FloodToldAll ==
    ASSUME PlaceInv, CutInv, StandInv, QuietInv, FloodInv, at = "run", FloodOver
    PROVE  \E s \in Nat, e \in Nat : s = start /\ e = it + flood.size /\ ConfirmInv(0, s, e)
<1>1. PICK s \in Nat, f \in Nat, g \in Nat :
          s = start /\ f = it + Told /\ g = it /\ RestsInv(s, f, g)
      BY DEF FloodInv
<1>2. ConfirmType /\ RunInv /\ ToldInv /\ HitsIn(f) /\ Flooding /\ it \in Int
      BY <1>1 DEF FloodInv, RestsInv, Flooding, PlaceInv
<1>3. Idle
      BY <1>2, FloodIdle
<1>4. /\ flood.t \in Nat /\ flood.k \in Nat \ {0} /\ flood.size \in Nat /\ it \in Nat
      /\ Len(Flood.ids) \in Nat /\ flood.t <= flood.size
      /\ flood.t = flood.size => flood.k = 1
      <2>1. /\ flood.t \in Nat /\ flood.k \in Nat \ {0} /\ flood.size \in Nat /\ it \in Nat
            /\ Len(Flood.ids) \in Nat
            BY <1>2, FloodTyped
      <2>2. flood.t \in 0..flood.size /\ (flood.t = flood.size => flood.k = 1)
            BY <1>2 DEF RunInv
      <2>3. QED  BY <2>1, <2>2
<1>5. PICK e \in Nat : e = it + flood.size
      BY <1>4
<1>6. f <= e
      <2>1. Told = flood.t + (IF flood.k = 1 THEN 0 ELSE 1)
            BY DEF Told
      <2>2. PICK m \in Nat : m = Told /\ m <= flood.size
            BY <1>4, <2>1
      <2>3. QED  BY <1>1, <1>4, <1>5, <2>2
<1>7. RestsInv(s, e, g)
      <2>1. f \in Int /\ e \in Int
            OBVIOUS
      <2>2. QED  BY <1>1, <1>6, <2>1, RestsLater
<1>8. ToldBefore(s, e)
      <2>1. ASSUME control, NEW b \in Buckets, NEW n \in DOMAIN LitsOf(b), NEW end \in s..e-1,
                   ToFind(LitsOf(b)[n], s, end)
            PROVE  LeftOrTold(LitsOf(b)[n], end, b, n)
            <3>1. CASE end < g
                  <4>1. end \in s..g-1
                        BY <3>1
                  <4>2. QED  BY <1>1, <2>1, <4>1 DEF RestsInv, ToldBefore
            <3>2. CASE end >= g
                  <4>1. end \in it..it + flood.size - 1
                        BY <1>1, <1>4, <1>5, <3>2
                  <4>2. PICK k \in 1..Len(Flood.ids) : FloodId(k) = <<b, n>>
                        BY <1>2, <2>1, <4>1, FloodTells
                  <4>3. LitAt(FloodId(k)) = LitsOf(b)[n]
                        BY <4>2 DEF LitAt
                  <4>4. PICK t \in Int : t = end - it
                        BY <1>4, <4>1
                  <4>5. t \in 0..flood.size - 1 /\ it + t = end
                        BY <1>4, <4>1, <4>4
                  <4>6. Flood.ids # <<>>
                        BY <4>2
                  <4>7. flood.t = flood.size
                        BY <2>1, <4>6 DEF FloodOver
                  <4>8. t < flood.t
                        BY <1>4, <4>5, <4>7
                  <4>9. LitAt(FloodId(k)).grouped
                        BY <2>1, <4>3 DEF ToFind
                  <4>10. Reported(LitAt(FloodId(k)), it + t)
                        BY <1>2, <2>1, <4>5, <4>8, <4>9 DEF ToldInv
                  <4>11. QED  BY <4>3, <4>5, <4>10 DEF LeftOrTold
            <3>3. QED  BY <3>1, <3>2
      <2>2. QED  BY <2>1 DEF ToldBefore
<1>9. RestsInv(s, e, e)
      BY <1>7, <1>8 DEF RestsInv
<1>10. ConfirmInv(0, s, e)
      BY <1>3, <1>9, Wakes
<1>11. QED  BY <1>1, <1>5, <1>10

\* The state stays as it was before the flood: behind it stand the same bytes.
LEMMA StateFloods ==
    ASSUME PlaceInv, CutInv, StandInv, StateInv, RunInv, ConfirmType, at = "run",
           it' = it + flood.size, UNCHANGED <<table, buf, start, zones, zone, state>>
    PROVE  StateInv' /\ Frontier' = it + flood.size /\ Z' = Z
<1>1. /\ ~Z.copied /\ Z.adjust = 0 /\ Z.skip = 0 /\ Frontier = it
      /\ it \in Nat /\ it >= start + ITER_BYTES /\ it <= Len0
      /\ ITER_BYTES \in Nat \ {0} /\ start \in Nat /\ Len0 \in Nat
      BY MainPlace, ThisZone
<1>2. /\ Len0' = Len0 /\ Buckets' = Buckets /\ Z' = Z
      /\ \A b, end, f : LeftOut(b, end, f)' <=> LeftOut(b, end, f)
      /\ \A b, end : TooEarly(b, end)' <=> TooEarly(b, end)
      BY TablesStay
<1>3. Flood.suffix \in Nat /\ Flood.suffix >= HALF /\ flood.size \in Nat
      BY <1>1, FloodTyped
<1>4. HALF \in Nat /\ HALF <= ITER_BYTES
      BY Halves
<1>5. PICK f \in Nat : f = it + flood.size
      BY <1>1, <1>3
<1>6. Skipped' = 0 /\ Frontier' = f
      <2>1. Skipped' = 0
            BY <1>1, <1>2 DEF Skipped
      <2>2. Frontier' = (it + flood.size) + 0 + 0
            BY <1>1, <1>2, <2>1 DEF Frontier
      <2>3. (it + flood.size) + 0 + 0 = f
            BY <1>1, <1>3, <1>5
      <2>4. QED  BY <2>1, <2>2, <2>3
<1>7. f < Len0 /\ \A i \in it - Flood.suffix .. f : buf[i + 1] = flood.byte
      BY <1>5 DEF RunInv
<1>8. \A i \in Int : it - HALF <= i /\ i <= f /\ i >= 0 => ByteAt(i) = flood.byte
      <2>1. SUFFICES ASSUME NEW i \in Int, it - HALF <= i, i <= f, i >= 0
                     PROVE  ByteAt(i) = flood.byte
            OBVIOUS
      <2>2. i \in it - Flood.suffix .. f /\ i \in 0..Len0-1
            BY <1>1, <1>3, <1>4, <1>7, <2>1
      <2>3. QED  BY <1>7, <2>2 DEF ByteAt
<1>9. ASSUME NEW x \in 0..ITER_BYTES-1, NEW b \in Buckets, b \in state[x], NEW end \in f..Len0-1, end = f + x
      PROVE  LeftOut(b, end, f) \/ TooEarly(b, end)
      <2>1. CASE it + x \in it..Len0-1
            <3>1. PICK old \in Nat : old = it + x /\ old \in Frontier..Len0-1 /\ old = it + x + Z.adjust
                  BY <1>1, <2>1
            <3>2. LeftOut(b, old, Frontier) \/ TooEarly(b, old)
                  BY <1>9, <3>1 DEF StateInv
            <3>3. CASE LeftOut(b, old, Frontier)
                  <4>1. PICK j \in 1..HALF-1 :
                            old - j < it /\ b \in Excluded(ByteAt(old - j), ByteAt(old - j + 1), j)
                        BY <1>1, <3>3 DEF LeftOut
                  <4>2. /\ old - j \in Int /\ it - HALF <= old - j /\ old - j <= f /\ old - j >= 0
                        /\ old - j + 1 \in Int /\ it - HALF <= old - j + 1 /\ old - j + 1 <= f
                        /\ old - j + 1 >= 0
                        BY <1>1, <1>3, <1>4, <1>5, <3>1, <4>1
                  <4>3. /\ end - j \in Int /\ it - HALF <= end - j /\ end - j <= f /\ end - j >= 0
                        /\ end - j + 1 \in Int /\ it - HALF <= end - j + 1 /\ end - j + 1 <= f
                        /\ end - j + 1 >= 0 /\ end - j < f
                        BY <1>1, <1>3, <1>4, <1>5, <1>9, <3>1, <4>1
                  <4>4. ByteAt(old - j) = ByteAt(end - j) /\ ByteAt(old - j + 1) = ByteAt(end - j + 1)
                        BY <1>8, <4>2, <4>3
                  <4>5. QED  BY <4>1, <4>3, <4>4 DEF LeftOut
            <3>4. CASE TooEarly(b, old)
                  <4>1. ASSUME NEW n \in DOMAIN LitsOf(b) PROVE FALSE
                        <5>1. old - start + 1 < Smaller(Len(LitsOf(b)[n].lit), HALF)
                              BY <3>4 DEF TooEarly
                        <5>2. Len(LitsOf(b)[n].lit) \in Nat
                              BY <1>9, LitTyped
                        <5>3. Smaller(Len(LitsOf(b)[n].lit), HALF) <= HALF
                              BY <1>4, <5>2 DEF Smaller
                        <5>4. Smaller(Len(LitsOf(b)[n].lit), HALF) \in Nat /\ old - start + 1 > HALF
                              BY <1>1, <1>4, <3>1, <5>2 DEF Smaller
                        <5>5. QED  BY <1>1, <1>4, <3>1, <5>1, <5>3, <5>4
                  <4>2. TooEarly(b, end)
                        BY <4>1 DEF TooEarly
                  <4>3. QED  BY <4>2
            <3>5. QED  BY <3>2, <3>3, <3>4
      <2>2. QED  BY <1>1, <1>3, <1>5, <1>9, <2>1
<1>10. QED  BY <1>1, <1>2, <1>5, <1>6, <1>9 DEF StateInv

\* The scan goes on behind the run as if it had looked at it.
LEMMA FloodEnds ==
    ASSUME PlaceInv, CutInv, StandInv, QuietInv, StateInv, FloodInv, FloodHitInv, FloodDone
    PROVE  /\ StateInv' /\ FloodHitInv' /\ Z' = Z
           /\ \E s \in Nat, e \in Nat :
                 s = start' /\ e = Frontier' /\ ConfirmInv(0, s, e)' /\ Z.adjust = 0
<1>1. /\ at = "run" /\ FloodOver /\ it' = it + flood.size /\ at' \in {"block", "terminated"}
      /\ UNCHANGED <<table, buf, start, zones, zone, state, cands, word, chain, control, lastMatch, hits>>
      BY DEF FloodDone, confirmVars
<1>2. PICK s \in Nat, e \in Nat : s = start /\ e = it + flood.size /\ ConfirmInv(0, s, e)
      BY <1>1, FloodToldAll
<1>3. ConfirmType /\ RunInv
      BY <1>2 DEF ConfirmInv, FloodInv
<1>4. StateInv' /\ Frontier' = it + flood.size /\ Z' = Z
      BY <1>1, <1>3, StateFloods
<1>5. Z.adjust = 0
      BY <1>1, MainPlace
<1>6. e \in 0..Len0
      <2>1. e < Len0 /\ Len0 \in Nat
            BY <1>2, <1>3, Tabled DEF RunInv
      <2>2. QED  BY <2>1
<1>7. ConfirmStep(0)
      BY <1>1 DEF ConfirmStep, RestStep, Rest
<1>8. ConfirmInv(0, s, e)'
      BY <1>2, <1>6, <1>7, ConfirmKeeps
<1>9. FloodHitInv'
      BY <1>1 DEF FloodHitInv, IsOccurrence, Occurs, LitsOf, Len0
<1>10. QED  BY <1>1, <1>2, <1>4, <1>5, <1>8, <1>9

-----------------------------------------------------------------------------
(***************************************************************************)
(* The steps of the confirm.                                               *)
(***************************************************************************)
Confirms ==
    \/ FlushNext \/ BitsDone \/ NextBit
    \/ PassLiteral \/ ReportLiteral \/ AnswerLiteral \/ ChainDone

LEMMA FrontierInZone ==
    ASSUME PlaceInv, CutInv, StandInv
    PROVE  Frontier <= ZoneEnd(Z)
<1>1. /\ it \in Int /\ ITER_BYTES \in Nat \ {0} /\ Z.to \in Int /\ Z.adjust \in Int
      BY ThisZone
<1>2. PICK k \in Nat : Z.to = it + k * ITER_BYTES
      BY DEF StandInv
<1>3. CASE k = 0
      <2>1. it = Z.to
            BY <1>1, <1>2, <1>3
      <2>2. Frontier \in Nat /\ Frontier = ZoneEnd(Z)
            BY <2>1, FrontierIn
      <2>3. QED  BY <2>2
<1>4. CASE k # 0
      <2>1. 1 * ITER_BYTES <= k * ITER_BYTES /\ k * ITER_BYTES \in Int
            BY <1>1, <1>4, TimesMonotone
      <2>2. BlockFits
            BY <1>1, <1>2, <2>1 DEF BlockFits
      <2>3. /\ Frontier \in Nat /\ Frontier <= it + ITER_BYTES + Z.adjust
            /\ it + ITER_BYTES <= Z.to
            BY <2>2, FrontierIn DEF BlockFits
      <2>4. QED  BY <1>1, <2>3 DEF ZoneEnd
<1>5. QED  BY <1>3, <1>4

\* The window that NextBit opens in its zone is the one on the buffer.
LEMMA ZoneWindow ==
    ASSUME PlaceInv, CutInv, StandInv, NEW x \in Int,
           x + Z.adjust >= ZoneStart(Z), x + Z.adjust < Frontier
    PROVE  [k \in 0..CONF_BYTES-1 |-> ZoneByte(Z, x - k)] = WindowOn(x + Z.adjust)
<1>1. /\ Z.from \in Int /\ Z.to \in Int /\ Z.adjust \in Int /\ Z.skip \in Int /\ ZoneCut(Z)
      /\ Len0 \in Nat /\ start \in Nat /\ CONF_BYTES \in Nat /\ ZoneStart(Z) \in start..Len0
      BY ThisZone
<1>2. Frontier \in Nat /\ Frontier <= Len0 /\ Frontier <= ZoneEnd(Z)
      BY FrontierIn, FrontierInZone
<1>3. PICK a \in Int, low \in Int, to \in Int, f \in Nat :
          a = Z.adjust /\ low = Z.from + Z.skip /\ to = Z.to /\ f = Frontier
      BY <1>1, <1>2
<1>4. ZoneStart(Z) = low + a /\ ZoneEnd(Z) = to + a
      BY <1>3 DEF ZoneStart, ZoneEnd
<1>5. PICK end \in Nat : end = x + a
      BY <1>1, <1>3, <1>4
<1>6. x >= low /\ x < to /\ end < Len0
      BY <1>1, <1>2, <1>3, <1>4, <1>5
<1>7. ASSUME NEW k \in 0..CONF_BYTES-1
      PROVE  ZoneByte(Z, x - k) = IF k <= end THEN buf[end - k + 1] ELSE 0
      <2>1. x - k \in low - CONF_BYTES + 1 .. to
            BY <1>1, <1>6
      <2>2. x - k + a = end - k /\ end - k < Len0
            BY <1>1, <1>5, <1>6
      <2>3. ZoneByte(Z, x - k) = ByteAt(end - k)
            BY <1>1, <1>3, <2>1, <2>2 DEF ZoneCut, ZoneShows
      <2>4. end - k \in 0..Len0-1 <=> k <= end
            BY <1>1, <1>6
      <2>5. QED  BY <2>3, <2>4 DEF ByteAt
<1>8. end = x + Z.adjust
      BY <1>3, <1>5
<1>9. QED  BY <1>7, <1>8 DEF WindowOn

LEMMA ConfirmsConfirm ==
    ASSUME PlaceInv, CutInv, StandInv, NearInv, Confirms,
           NEW a \in Int, a = Z.adjust, NEW s \in Nat, NEW f \in Nat, f = Frontier,
           ConfirmInv(a, s, f)
    PROVE  ConfirmStep(a)
<1>1. CASE FlushNext
      <2>1. CASE control /\ cands # <<>>
            BY <1>1, <2>1 DEF FlushNext, ConfirmStep, TakeStep
      <2>2. CASE ~control \/ cands = <<>>
            <3>1. ret \in {"scan", "flood", "zone"}
                  BY DEF PlaceInv
            <3>2. at = "flush" /\ at' \in {"terminated", "scan", "flood", "zone"} /\ UNCHANGED Rest
                  BY <1>1, <2>2, <3>1 DEF FlushNext, Rest
            <3>3. QED  BY <3>2 DEF ConfirmStep, RestStep
      <2>3. QED  BY <2>1, <2>2
<1>2. CASE BitsDone
      BY <1>2 DEF BitsDone, ConfirmStep, RestStep, Rest, confirmVars
<1>3. CASE NextBit
      <2>1. PICK b \in word.bits :
                /\ IsLowestBit(b) /\ word' = [word EXCEPT !.bits = @ \ {b}]
                /\ IF BucketOn(b[2])
                   THEN LET x == word.base + b[1] IN
                        /\ at' = "chain"
                        /\ StartChain(b, x + Z.adjust, [k \in 0..CONF_BYTES-1 |-> ZoneByte(Z, x - k)])
                   ELSE UNCHANGED <<at, chain>>
            BY <1>3 DEF NextBit
      <2>2. TakeBit(b) /\ at = "bits"
            BY <1>3, <2>1 DEF NextBit, TakeBit
      <2>3. /\ ConfirmType /\ OrderInv(a, s, f)
            BY DEF ConfirmInv
      <2>4. b[1] \in Nat /\ b[2] \in Buckets /\ <<word.base + b[1] + a, b[2]>> \in Pending(a)
            BY <2>2, <2>3, BitPlaces DEF Pending
      <2>5. word.base \in Int
            <3>1. word \in Block
                  BY <2>3 DEF ConfirmType
            <3>2. QED  BY <3>1 DEF Block
      <2>6. PICK x \in Int : x = word.base + b[1]
            BY <2>4, <2>5
      <2>7. x + a \in s..f-1 /\ x + a >= ZoneStart(Z)
            BY <2>3, <2>4, <2>6 DEF OrderInv, NearInv, Near
      <2>8. [k \in 0..CONF_BYTES-1 |-> ZoneByte(Z, x - k)] = WindowOn(x + a)
            <3>1. x + Z.adjust >= ZoneStart(Z) /\ x + Z.adjust < Frontier
                  BY <2>7
            <3>2. QED  BY <3>1, ZoneWindow
      <2>9. CASE BucketOn(b[2])
            <3>1. at' = "chain" /\ StartChain(b, word.base + b[1] + a, WindowOn(word.base + b[1] + a))
                  <4> DEFINE y == word.base + b[1]
                             w == [k \in 0..CONF_BYTES-1 |-> ZoneByte(Z, y - k)]
                  <4>1. at' = "chain" /\ StartChain(b, y + Z.adjust, w)
                        BY <2>1, <2>9
                  <4>2. w = [k \in 0..CONF_BYTES-1 |-> ZoneByte(Z, x - k)] /\ y = x
                        BY <2>6
                  <4>3. w = WindowOn(y + a) /\ y + Z.adjust = y + a
                        BY <2>8, <4>2
                  <4> HIDE DEF w
                  <4>4. QED  BY <4>1, <4>3
            <3>2. QED  BY <2>2, <3>1 DEF ConfirmStep, BitStep
      <2>10. CASE ~BucketOn(b[2])
            <3>1. at' = "bits" /\ UNCHANGED chain
                  BY <2>1, <2>2, <2>10
            <3>2. control => \A n \in DOMAIN LitsOf(b[2]) : ~LitsOf(b[2])[n].grouped
                  BY <2>10 DEF BucketOn, LitsOf
            <3>3. QED  BY <2>2, <3>1, <3>2 DEF ConfirmStep, SkipStep
      <2>11. QED  BY <2>9, <2>10
<1>4. CASE PassLiteral
      BY <1>4 DEF PassLiteral, ConfirmStep, PassStep
<1>5. CASE ReportLiteral
      BY <1>5 DEF ReportLiteral, ConfirmStep, ReportStep
<1>6. CASE AnswerLiteral
      BY <1>6 DEF AnswerLiteral, ConfirmStep, AnswerStep
<1>7. CASE ChainDone
      BY <1>7 DEF ChainDone, ConfirmStep, DoneStep
<1>8. QED  BY <1>1, <1>2, <1>3, <1>4, <1>5, <1>6, <1>7 DEF Confirms

\* The confirm takes candidates away.
LEMMA PendingShrinks ==
    ASSUME ConfirmType, NEW a \in Int, NEW s \in Nat, NEW f \in Nat, ConfirmInv(a, s, f), ConfirmStep(a)
    PROVE  Pending(a)' \subseteq Pending(a)
<1>1. CASE TakeStep
      BY <1>1, TakePlaces
<1>2. CASE BitStep(a) \/ SkipStep
      <2>1. PICK b : TakeBit(b)
            BY <1>2 DEF BitStep, SkipStep
      <2>2. Places(word, a)' \subseteq Places(word, a) /\ Ahead(a)' = Ahead(a)
            BY <2>1, BitPlaces
      <2>3. QED  BY <2>2 DEF Pending
<1>3. CASE DoneStep
      <2>1. chain.end = word.base + chain.byte + a
            BY <1>3 DEF DoneStep, ConfirmInv, WalkInv, InChain
      <2>2. Places(word, a)' \subseteq Places(word, a) /\ Ahead(a)' = Ahead(a)
            BY <1>3, <2>1, DonePlaces
      <2>3. QED  BY <2>2 DEF Pending
<1>4. CASE PassStep \/ ReportStep \/ AnswerStep \/ RestStep
      <2>1. UNCHANGED <<cands, word>>
            BY <1>4 DEF PassStep, ReportStep, AnswerStep, RestStep, Rest
      <2>2. QED  BY <2>1, PlacesSame
<1>5. QED  BY <1>1, <1>2, <1>3, <1>4 DEF ConfirmStep

-----------------------------------------------------------------------------
(***************************************************************************)
(* The steps of the engine.                                                *)
(***************************************************************************)
\* A flood report moves nothing, a block and a flood move the engine.
LEMMA QuietStep ==
    ASSUME PlaceInv, QuietInv, Next
    PROVE  QuietInv'
<1>1. ret \in {"scan", "flood", "zone"} /\ at \in ControlPoints
      BY DEF PlaceInv
<1>2. CASE Probe \/ EndOfZone
      BY <1>2 DEF Probe, EndOfZone, ConfirmFirst, confirmVars, QuietInv, Confirming
<1>3. CASE ScanBlock
      BY <1>3 DEF ScanBlock, QuietInv, ControlPoints, Confirming
<1>4. CASE NextZone
      BY <1>4 DEF NextZone, confirmVars, QuietInv, ControlPoints, Confirming
<1>5. CASE FlushNext
      BY <1>1, <1>5 DEF FlushNext, QuietInv, ControlPoints, Confirming
<1>6. CASE BitsDone \/ NextBit \/ PassLiteral \/ ReportLiteral \/ AnswerLiteral \/ ChainDone
      BY <1>6 DEF BitsDone, NextBit, PassLiteral, ReportLiteral, AnswerLiteral, ChainDone,
                  QuietInv, ControlPoints, Confirming
<1>7. CASE FloodDetect
      BY <1>7 DEF FloodDetect, confirmVars, QuietInv, ControlPoints, Confirming
<1>8. CASE ReportFlood
      BY <1>8 DEF ReportFlood, FloodOver, QuietInv, ControlPoints, Confirming
<1>9. CASE AnswerFlood
      BY <1>9 DEF AnswerFlood, QuietInv, ControlPoints, Confirming
<1>10. CASE FloodDone
      BY <1>10 DEF FloodDone, confirmVars, QuietInv, ControlPoints, Confirming
<1>11. CASE Finished
      BY <1>11 DEF Finished, vars, confirmVars, QuietInv
<1>12. QED  BY <1>2, <1>3, <1>4, <1>5, <1>6, <1>7, <1>8, <1>9, <1>10, <1>11 DEF Next

LEMMA StandStays ==
    ASSUME StandInv, UNCHANGED <<zones, zone, it>>,
           at' = "zone" \/ (at' \in Confirming /\ ret' = "zone") => it = Z.to,
           at' # "completed"
    PROVE  StandInv'
<1>1. Z' = Z /\ it' = it
      BY DEF Z
<1>2. QED  BY <1>1 DEF StandInv

LEMMA StandStep ==
    ASSUME PlaceInv, CutInv, StandInv, Next, Flooding => RunInv /\ ConfirmType
    PROVE  StandInv'
<1>1. /\ ret \in {"scan", "flood", "zone"} /\ zone \in 1..Len(zones)
      /\ BlockFits <=> it + ITER_BYTES <= Z.to
      BY DEF PlaceInv, BlockFits
<1>2. /\ it \in Int /\ ITER_BYTES \in Nat \ {0} /\ Z.to \in Int /\ Z.from \in Int
      /\ Z.skip \in 0..ITER_BYTES /\ start \in Nat
      BY ThisZone
<1>3. PICK k \in Nat : Z.to = it + k * ITER_BYTES
      BY DEF StandInv
<1>4. k * ITER_BYTES \in Int
      BY <1>2
<1>5. CASE Probe
      BY <1>5, StandStays DEF Probe, ConfirmFirst
<1>6. CASE EndOfZone
      <2>1. it = Z.to
            <3>1. SUFFICES ASSUME k # 0 PROVE FALSE
                  BY <1>2, <1>3
            <3>2. 1 * ITER_BYTES <= k * ITER_BYTES
                  BY <1>2, <3>1, TimesMonotone
            <3>3. ~(it + ITER_BYTES <= Z.to)
                  BY <1>1, <1>6 DEF EndOfZone
            <3>4. QED  BY <1>2, <1>3, <1>4, <3>2, <3>3
      <2>2. QED  BY <1>6, <2>1, StandStays DEF EndOfZone, ConfirmFirst
<1>7. CASE ScanBlock
      <2>1. BlockFits
            BY <1>7 DEF ScanBlock, PlaceInv
      <2>2. /\ it' = it + ITER_BYTES /\ UNCHANGED <<zones, zone>> /\ ret' = "scan"
            /\ at' \in {"flush", "scan"}
            BY <1>7 DEF ScanBlock
      <2>3. Z' = Z
            BY <2>2 DEF Z
      <2>4. k - 1 \in Nat
            <3>1. SUFFICES ASSUME k = 0 PROVE FALSE
                  OBVIOUS
            <3>2. QED  BY <1>1, <1>2, <1>3, <2>1, <3>1
      <2>5. Z.to = it + ITER_BYTES + (k - 1) * ITER_BYTES
            <3>1. k * ITER_BYTES = ITER_BYTES + (k - 1) * ITER_BYTES
                  BY <1>2
            <3>2. (k - 1) * ITER_BYTES \in Int
                  BY <1>2
            <3>3. QED  BY <1>2, <1>3, <3>1, <3>2
      <2>6. it + ITER_BYTES >= Z.from + Z.skip
            <3>1. it >= Z.from \/ it >= Z.from + Z.skip
                  BY <1>2 DEF StandInv
            <3>2. QED  BY <1>2, <3>1
      <2>7. QED  BY <2>2, <2>3, <2>4, <2>5, <2>6 DEF StandInv
<1>8. CASE NextZone
      <2>1. at = "zone" /\ it = Z.to
            BY <1>8 DEF NextZone, StandInv
      <2>2. CASE zone < Len(zones)
            <3>1. /\ zone' = zone + 1 /\ it' = zones[zone + 1].from /\ at' = "scan" /\ zones' = zones
                  BY <1>8, <2>2 DEF NextZone
            <3>2. Z' = zones[zone + 1] /\ it' = Z'.from
                  BY <3>1 DEF Z
            <3>3. zone + 1 \in 1..Len(zones)
                  BY <1>1, <2>2
            <3>4. ZoneCut(zones[zone + 1])
                  BY <3>3 DEF CutInv
            <3>5. PICK m \in Nat : zones[zone + 1].to = zones[zone + 1].from + m * ITER_BYTES
                  BY <3>4 DEF ZoneCut
            <3>6. at' \notin {"zone", "completed"} \cup Confirming
                  BY <3>1 DEF Confirming
            <3>7. QED  BY <3>2, <3>5, <3>6 DEF StandInv
      <2>3. CASE ~(zone < Len(zones))
            <3>1. /\ at' = "completed" /\ UNCHANGED <<zone, it, zones>>
                  BY <1>8, <2>3 DEF NextZone
            <3>2. Z' = Z /\ zone = Len(zones)
                  BY <1>1, <2>3, <3>1 DEF Z
            <3>3. QED  BY <2>1, <3>1, <3>2 DEF StandInv
      <2>4. QED  BY <2>2, <2>3
<1>9. CASE Confirms
      <2>1. at \in Confirming /\ UNCHANGED <<zones, zone, it, ret>> /\ at' \in Confirming \cup {ret, "terminated"}
            BY <1>9 DEF Confirms, FlushNext, BitsDone, NextBit, PassLiteral, ReportLiteral,
                        AnswerLiteral, ChainDone, fdrVars, Confirming
      <2>2. ret = "zone" => it = Z.to
            BY <2>1 DEF StandInv
      <2>3. at' = "zone" => ret = "zone"
            BY <2>1 DEF Confirming
      <2>4. at' # "completed"
            BY <1>1, <2>1 DEF Confirming
      <2>5. QED  BY <2>1, <2>2, <2>3, <2>4, StandStays
<1>10. CASE FloodDetect
      BY <1>10, StandStays DEF FloodDetect, Confirming
<1>11. CASE ReportFlood
      BY <1>11, StandStays DEF ReportFlood, Confirming
<1>12. CASE AnswerFlood
      BY <1>12, StandStays DEF AnswerFlood, Confirming
<1>13. CASE FloodDone
      <2>1. /\ at = "run" /\ it' = it + flood.size /\ UNCHANGED <<zones, zone>>
            /\ at' \in {"block", "terminated"}
            BY <1>13 DEF FloodDone
      <2>2. Z' = Z
            BY <2>1 DEF Z
      <2>3. RunInv /\ ConfirmType
            BY <2>1 DEF Flooding
      <2>4. flood.size \in Nat
            BY <1>2, <2>3, FloodTyped
      <2>5. PICK e \in Int : e = it + flood.size
            BY <1>2, <2>4
      <2>6. OnGrid(e) /\ e + ITER_BYTES <= Z.to /\ ~Z.copied
            BY <2>1, <2>5 DEF PlaceInv
      <2>7. ZoneFits(Z)
            BY DEF PlaceInv, EveryZoneFits, Z
      <2>8. PICK i \in Nat : e = start + i * ITER_BYTES
            BY <2>6 DEF OnGrid
      <2>9. PICK j \in Nat : Z.to = start + j * ITER_BYTES
            BY <2>6, <2>7 DEF ZoneFits, OnGrid
      <2>10. j - i \in Nat
            <3>1. SUFFICES ASSUME j <= i PROVE FALSE
                  OBVIOUS
            <3>2. j * ITER_BYTES <= i * ITER_BYTES /\ j * ITER_BYTES \in Int /\ i * ITER_BYTES \in Int
                  BY <1>2, <3>1, TimesMonotone
            <3>3. QED  BY <1>2, <2>6, <2>8, <2>9, <3>2
      <2>11. Z.to = e + (j - i) * ITER_BYTES
            <3>1. j * ITER_BYTES = i * ITER_BYTES + (j - i) * ITER_BYTES
                  BY <1>2
            <3>2. (j - i) * ITER_BYTES \in Int /\ i * ITER_BYTES \in Int
                  BY <1>2
            <3>3. QED  BY <1>2, <2>8, <2>9, <3>1, <3>2
      <2>12. e >= Z.from + Z.skip \/ e = Z.from
            <3>1. it = Z.from \/ it >= Z.from + Z.skip
                  BY DEF StandInv
            <3>2. Z.skip = 0
                  <4>1. ZoneCut(Z)
                        BY ThisZone
                  <4>2. QED  BY <2>6, <4>1 DEF ZoneCut
            <3>3. QED  BY <1>2, <2>4, <2>5, <3>1, <3>2
      <2>13. it' = e /\ at' \notin {"zone", "completed"} \cup Confirming
            BY <2>1, <2>5 DEF Confirming
      <2>14. QED  BY <2>2, <2>10, <2>11, <2>12, <2>13 DEF StandInv
<1>14. CASE Finished
      BY <1>14 DEF Finished, vars, fdrVars, StandInv, Z
<1>15. QED  BY <1>5, <1>6, <1>7, <1>8, <1>9, <1>10, <1>11, <1>12, <1>13, <1>14 DEF Next, Confirms

\* A step of the confirm reports no flood.
LEMMA FloodHitStep ==
    ASSUME FloodHitInv, NEW a \in Int, NEW s \in Nat, NEW f \in Nat, ConfirmInv(a, s, f), ConfirmStep(a)
    PROVE  FloodHitInv'
<1>1. ConfirmType /\ UNCHANGED <<table, buf>>
      BY DEF ConfirmInv, ConfirmStep, TakeStep, BitStep, SkipStep, TakeBit, PassStep, ReportStep,
             AnswerStep, DoneStep, RestStep, Rest
<1>2. \A h : IsOccurrence(h) => IsOccurrence(h)'
      BY <1>1 DEF IsOccurrence, Occurs, LitsOf, Len0
<1>3. CASE hits' = hits
      BY <1>1, <1>3 DEF FloodHitInv, IsOccurrence, Occurs, LitsOf, Len0
<1>4. CASE ReportStep
      <2> DEFINE h == Hit(Literal.id, chain.bucket, chain.n, chain.end, FALSE)
      <2>1. /\ hits' = Append(hits, h) /\ Len(hits) \in Nat
            /\ DOMAIN hits = 1..Len(hits) /\ DOMAIN hits' = 1..Len(hits) + 1
            /\ hits'[Len(hits) + 1] = h /\ \A i \in DOMAIN hits : hits'[i] = hits[i]
            /\ h.flood = FALSE
            BY <1>1, <1>4, ReportHits
      <2> HIDE DEF h
      <2>2. \A i \in DOMAIN hits' : hits'[i].flood => i \in DOMAIN hits /\ hits'[i] = hits[i]
            BY <2>1
      <2>3. \A i \in DOMAIN hits' : hits'[i].flood => IsOccurrence(hits[i])
            BY <2>2 DEF FloodHitInv
      <2>4. ASSUME NEW i \in DOMAIN hits', hits'[i].flood PROVE (IsOccurrence(hits[i]))'
            <3>1. \A l, end : Occurs(l, end)' <=> Occurs(l, end)
                  BY <1>1 DEF Occurs, Len0
            <3>2. hits'[i] = hits[i] /\ IsOccurrence(hits[i])
                  BY <2>2, <2>3, <2>4
            <3>3. QED  BY <1>1, <3>1, <3>2 DEF IsOccurrence, LitsOf
      <2>5. QED  BY <2>4 DEF FloodHitInv
<1>5. CASE AnswerStep
      <2>1. PICK reply \in Replies, squash \in Squashes : Answered(reply, squash)
            BY <1>5 DEF AnswerStep
      <2>2. hits # <<>>
            BY <1>5 DEF AnswerStep, ConfirmInv, WalkInv, InChain
      <2>3. /\ DOMAIN hits' = DOMAIN hits
            /\ \A i \in DOMAIN hits :
                  /\ hits'[i].id = hits[i].id /\ hits'[i].bucket = hits[i].bucket
                  /\ hits'[i].n = hits[i].n /\ hits'[i].end = hits[i].end
                  /\ hits'[i].flood = hits[i].flood
            BY <1>1, <2>1, <2>2, AnsweredHits, SquashesTyped
      <2>4. ASSUME NEW i \in DOMAIN hits, IsOccurrence(hits[i])
            PROVE  IsOccurrence(hits[i])'
            <3>1. \A l, end : Occurs(l, end)' <=> Occurs(l, end)
                  BY <1>1 DEF Occurs, Len0
            <3>2. QED  BY <1>1, <2>3, <2>4, <3>1 DEF IsOccurrence, LitsOf
      <2>5. QED  BY <2>3, <2>4 DEF FloodHitInv
<1>6. QED  BY <1>3, <1>4, <1>5
           DEF ConfirmStep, TakeStep, BitStep, SkipStep, TakeBit, PassStep, DoneStep, RestStep, Rest

\* A step of the confirm, and every other one that leaves the confirm alone
\* and the engine where it is.
LEMMA StepsInPlace ==
    ASSUME SearchInv, ~Flooding, NEW a \in Int, a = Z.adjust, NEW s \in Nat, NEW f \in Nat,
           s = start, f = Frontier, ConfirmInv(a, s, f), ConfirmStep(a),
           UNCHANGED <<table, buf, start, zones, zone, it, state>>
    PROVE  StateInv' /\ NearInv' /\ FloodHitInv' /\ Searches'
<1>1. PlaceInv /\ CutInv /\ StandInv /\ StateInv /\ NearInv /\ FloodHitInv /\ ConfirmType
      BY DEF SearchInv, ConfirmInv
<1>2. StateInv' /\ Frontier' = Frontier /\ Z' = Z
      BY <1>1, StateStays
<1>3. Frontier <= Len0 /\ Len0 \in Nat
      BY <1>1, FrontierIn, ThisZone
<1>4. f \in 0..Len0
      BY <1>3
<1>5. ConfirmInv(a, s, f)'
      BY <1>4, ConfirmKeeps
<1>6. Searches'
      BY <1>2, <1>5 DEF Searches
<1>7. NearInv'
      <2>1. PICK low \in Int : low = ZoneStart(Z) /\ Near(a, low)
            BY <1>1 DEF NearInv
      <2>2. Pending(a)' \subseteq Pending(a)
            BY <1>1, PendingShrinks
      <2>3. Near(a, low)'
            BY <2>1, <2>2 DEF Near
      <2>4. low = ZoneStart(Z)'
            BY <1>2, <2>1 DEF ZoneStart
      <2>5. QED  BY <1>2, <2>3, <2>4 DEF NearInv
<1>8. FloodHitInv'
      BY <1>1, FloodHitStep
<1>9. QED  BY <1>2, <1>6, <1>7, <1>8

LEMMA ConfirmsSearch ==
    ASSUME SearchInv, Confirms
    PROVE  StateInv' /\ NearInv' /\ FloodHitInv' /\ Searches' /\ ~Flooding'
<1>1. at \in Confirming /\ at' \in Confirming \cup {ret, "terminated"}
      /\ UNCHANGED <<table, buf, start, zones, zone, it, state>>
      BY DEF Confirms, FlushNext, BitsDone, NextBit, PassLiteral, ReportLiteral,
             AnswerLiteral, ChainDone, fdrVars, Confirming
<1>2. ret \in {"scan", "flood", "zone"}
      BY DEF SearchInv, PlaceInv
<1>3. ~Flooding /\ ~Flooding'
      BY <1>1, <1>2 DEF Flooding, Confirming
<1>4. PICK a \in Int, s \in Nat, f \in Nat :
          a = Z.adjust /\ s = start /\ f = Frontier /\ ConfirmInv(a, s, f)
      BY <1>3 DEF SearchInv, Searches
<1>5. ConfirmStep(a)
      BY <1>4, ConfirmsConfirm DEF SearchInv
<1>6. QED  BY <1>1, <1>3, <1>4, <1>5, StepsInPlace

LEMMA RestSearches ==
    ASSUME SearchInv, ~Flooding, RestStep,
           UNCHANGED <<table, buf, start, zones, zone, it, state>>
    PROVE  StateInv' /\ NearInv' /\ FloodHitInv' /\ Searches'
<1>1. PICK a \in Int, s \in Nat, f \in Nat :
          a = Z.adjust /\ s = start /\ f = Frontier /\ ConfirmInv(a, s, f)
      BY DEF SearchInv, Searches
<1>2. ConfirmStep(a)
      BY DEF ConfirmStep
<1>3. QED  BY <1>1, <1>2, StepsInPlace

LEMMA BlockSearches ==
    ASSUME SearchInv, ScanBlock
    PROVE  StateInv' /\ NearInv' /\ FloodHitInv' /\ Searches' /\ ~Flooding'
<1>1. PlaceInv /\ CutInv /\ StandInv /\ StateInv /\ NearInv /\ FloodHitInv
      BY DEF SearchInv
<1>2. /\ at \in {"scan", "block"} /\ at' \in {"flush", "scan"}
      /\ Stage(it, BlockBits) /\ it' = it + ITER_BYTES /\ state' = NextState
      /\ UNCHANGED <<table, buf, word, chain, control, lastMatch, hits, start, zones, zone>>
      BY DEF ScanBlock
<1>3. BlockFits
      BY <1>1 DEF ScanBlock, PlaceInv
<1>4. ~Flooding /\ ~Flooding'
      BY <1>2 DEF Flooding
<1>5. PICK a \in Int, s \in Nat, f \in Nat :
          a = Z.adjust /\ s = start /\ f = Frontier /\ ConfirmInv(a, s, f)
      BY <1>4 DEF SearchInv, Searches
<1>6. ConfirmType
      BY <1>5 DEF ConfirmInv
<1>7. StateInv' /\ Frontier' = it + ITER_BYTES + Z.adjust /\ Z' = Z
      BY <1>1, <1>2, <1>3, StateScans
<1>8. /\ it \in Int /\ ITER_BYTES \in Nat \ {0} /\ Len0 \in Nat /\ ZoneStart(Z) \in start..Len0
      BY <1>1, ThisZone
<1>9. /\ start <= Frontier /\ Frontier <= it + ITER_BYTES + Z.adjust
      /\ it + ITER_BYTES + Z.adjust <= Len0 /\ ZoneStart(Z) <= Frontier
      BY <1>1, <1>3, FrontierIn
<1>10. PICK h \in Nat : h = it + ITER_BYTES + Z.adjust /\ h \in f..Len0
      BY <1>5, <1>8, <1>9
<1>11. PICK base \in Int, bits \in {BlockBits} : base = it /\ bits = BlockBits
      BY <1>8
<1>12. /\ bits \in SUBSET (Nat \X Buckets)
       /\ \A b \in bits : it + b[1] + Z.adjust \in Frontier..it + ITER_BYTES + Z.adjust - 1
      BY <1>1, <1>3, <1>11, BlockWithin
<1>13. \A b \in bits : base + b[1] + a \in f..h-1
      <2>1. /\ it = base /\ Z.adjust = a /\ Frontier = f /\ base \in Int /\ a \in Int
            /\ it + ITER_BYTES + Z.adjust = h
            BY <1>5, <1>10, <1>11
      <2>2. it + ITER_BYTES + Z.adjust - 1 = h - 1
            BY <1>8, <2>1
      <2>3. \A b \in bits : it + b[1] + Z.adjust \in f..h-1
            BY <1>12, <2>1, <2>2
      <2>4. QED  BY <2>1, <2>3
<1>14. ASSUME NEW b \in Buckets, NEW n \in DOMAIN LitsOf(b), NEW end \in f..h-1,
              ToFind(LitsOf(b)[n], s, end)
       PROVE  <<end - base - a, b>> \in bits
      <2>1. end \in Frontier..it + ITER_BYTES + Z.adjust - 1 /\ ToFind(LitsOf(b)[n], start, end)
            <3>1. Z.adjust \in Int
                  BY <1>5
            <3>2. it + ITER_BYTES + Z.adjust - 1 = h - 1
                  BY <1>8, <1>10, <3>1
            <3>3. QED  BY <1>5, <1>14, <3>2
      <2>2. <<end - it - Z.adjust, b>> \in BlockBits
            BY <1>1, <1>3, <1>6, <2>1, BlockProposes
      <2>3. QED  BY <1>5, <1>11, <2>2
<1>15. StageStep(base, bits)
      BY <1>2, <1>11 DEF StageStep
<1>16. f \in s..Len0
      BY <1>5, <1>8, <1>9, <1>10
<1>17. ConfirmInv(a, s, h)'
      BY <1>5, <1>10, <1>12, <1>13, <1>14, <1>15, <1>16, StageKeeps
<1>18. Searches'
      BY <1>2, <1>5, <1>7, <1>10, <1>17 DEF Searches
<1>19. NearInv'
      <2>1. PICK low \in Int : low = ZoneStart(Z) /\ Near(a, low)
            BY <1>1, <1>5 DEF NearInv
      <2>2. Pending(a)' = Pending(a) \cup {<<base + b[1] + a, b[2]>> : b \in bits}
            BY <1>6, <1>12, <1>15, StagePlaces
      <2>3. ASSUME NEW x \in Pending(a)' PROVE x[1] >= low
            <3>1. CASE x \in Pending(a)
                  BY <2>1, <3>1 DEF Near
            <3>2. CASE x \in {<<base + b[1] + a, b[2]>> : b \in bits}
                  <4>1. PICK b \in bits : x = <<base + b[1] + a, b[2]>>
                        BY <3>2
                  <4>2. x[1] \in f..h-1 /\ low <= f
                        BY <1>5, <1>9, <1>13, <2>1, <4>1
                  <4>3. QED  BY <4>2
            <3>3. QED  BY <2>2, <2>3, <3>1, <3>2
      <2>4. Near(a, low)'
            BY <2>3 DEF Near
      <2>5. low = ZoneStart(Z)'
            BY <1>7, <2>1 DEF ZoneStart
      <2>6. QED  BY <1>5, <1>7, <2>4, <2>5 DEF NearInv
<1>20. FloodHitInv'
      BY <1>1, <1>2 DEF FloodHitInv, IsOccurrence, Occurs, LitsOf, Len0
<1>21. QED  BY <1>4, <1>7, <1>18, <1>19, <1>20

\* The next zone begins where this one ends.
LEMMA ZoneSearches ==
    ASSUME SearchInv, NextZone
    PROVE  StateInv' /\ NearInv' /\ FloodHitInv' /\ Searches' /\ ~Flooding'
<1>1. PlaceInv /\ CutInv /\ StandInv /\ StateInv /\ NearInv /\ FloodHitInv /\ QuietInv
      BY DEF SearchInv
<1>2. /\ at = "zone" /\ at' \in {"scan", "completed"} /\ UNCHANGED Rest
      /\ UNCHANGED <<start, zones>>
      BY DEF NextZone, Rest, confirmVars
<1>3. ~Flooding /\ ~Flooding'
      BY <1>2 DEF Flooding
<1>4. RestStep
      BY <1>2 DEF RestStep
<1>5. CASE ~(zone < Len(zones))
      <2>1. UNCHANGED <<table, buf, start, zones, zone, it, state>>
            BY <1>5 DEF NextZone
      <2>2. QED  BY <1>3, <1>4, <2>1, RestSearches
<1>6. CASE zone < Len(zones)
      <2>1. /\ zone' = zone + 1 /\ it' = zones[zone + 1].from
            /\ state' = ShiftIn(state, zones[zone + 1].skip)
            /\ UNCHANGED <<table, buf, start, zones>>
            BY <1>6 DEF NextZone
      <2>2. it = Z.to /\ cands = <<>>
            BY <1>1, <1>2 DEF StandInv, QuietInv
      <2>3. StateInv' /\ Frontier' = Frontier /\ ZoneStart(Z') = Frontier
            BY <1>1, <1>6, <2>1, <2>2, StateNextZone
      <2>4. PICK a \in Int, s \in Nat, f \in Nat :
                a = Z.adjust /\ s = start /\ f = Frontier /\ ConfirmInv(a, s, f)
            BY <1>3 DEF SearchInv, Searches
      <2>5. Idle
            BY <1>2, <2>2, <2>4 DEF Idle, ConfirmInv, ConfirmType, InChain
      <2>6. zones[zone + 1].adjust \in Int
            <3>1. zone + 1 \in 1..Len(zones)
                  BY <1>1, <1>6 DEF PlaceInv
            <3>2. ZoneCut(zones[zone + 1])
                  BY <1>1, <3>1 DEF CutInv
            <3>3. QED  BY <3>2 DEF ZoneCut
      <2>7. PICK a2 \in Int : a2 = zones[zone + 1].adjust
            BY <2>6
      <2>8. ConfirmInv(a2, s, f)
            BY <2>4, <2>5, ConfirmMoves
      <2>9. f \in 0..Len0
            <3>1. Frontier \in Nat /\ Frontier <= Len0 /\ Len0 \in Nat
                  BY <1>1, FrontierIn, ThisZone
            <3>2. QED  BY <2>4, <3>1
      <2>10. ConfirmInv(a2, s, f)'
            <3>1. ConfirmStep(a2)
                  BY <1>4 DEF ConfirmStep
            <3>2. QED  BY <2>8, <2>9, <3>1, ConfirmKeeps
      <2>11. Z'.adjust = a2
            BY <2>1, <2>7 DEF Z
      <2>12. Searches'
            BY <1>2, <2>3, <2>4, <2>10, <2>11 DEF Searches
      <2>13. NearInv'
            <3>1. Pending(a2) = {} /\ UNCHANGED <<cands, word>>
                  BY <1>2, <2>5, IdleWaits DEF Rest
            <3>2. Pending(a2)' = {}
                  BY <3>1, PlacesSame
            <3>3. Near(a2, f)'
                  BY <3>2 DEF Near
            <3>4. f \in Int /\ f = ZoneStart(Z)'
                  BY <2>3, <2>4 DEF ZoneStart
            <3>5. QED  BY <2>11, <3>3, <3>4 DEF NearInv
      <2>14. FloodHitInv'
            BY <1>1, <1>2 DEF Rest, FloodHitInv, IsOccurrence, Occurs, LitsOf, Len0
      <2>15. QED  BY <1>3, <2>3, <2>12, <2>13, <2>14
<1>7. QED  BY <1>5, <1>6

LEMMA NearStays ==
    ASSUME NearInv, UNCHANGED <<zones, zone, cands, word>>
    PROVE  NearInv'
<1>1. PICK a \in Int, low \in Int : a = Z.adjust /\ low = ZoneStart(Z) /\ Near(a, low)
      BY DEF NearInv
<1>2. Z' = Z /\ low = ZoneStart(Z)'
      BY <1>1 DEF Z, ZoneStart
<1>3. Near(a, low)'
      BY <1>1, PlacesSame DEF Near
<1>4. QED  BY <1>1, <1>2, <1>3 DEF NearInv

LEMMA SearchInit == Init => SearchInv
<1> SUFFICES ASSUME Init PROVE SearchInv
    OBVIOUS
<1>1. PlaceInv /\ CutInv /\ StateInv
      BY PlaceInit, CutInit, StateInit
<1>2. /\ ConfirmInit /\ at = "scan" /\ ret = "scan" /\ zone = 1 /\ it = Z.from
      /\ control = TRUE /\ hits = <<>> /\ cands = <<>> /\ word = NoWord
      BY DEF Init, ConfirmInit, Z
<1>3. /\ ZoneCut(Z) /\ Z.adjust \in Int /\ start \in Nat /\ Z.from \in Int
      /\ Z.skip \in 0..ITER_BYTES /\ ZoneStart(Z) \in Int
      <2>1. /\ ZoneCut(Z) /\ Z.adjust \in Int /\ start \in Nat /\ Z.from \in Int
            /\ Z.skip \in 0..ITER_BYTES /\ ZoneStart(Z) \in start..Len0 /\ Len0 \in Nat
            BY <1>1, ThisZone
      <2>2. QED  BY <2>1
<1>4. StandInv
      <2>1. \E k \in Nat : Z.to = it + k * ITER_BYTES
            BY <1>2, <1>3 DEF ZoneCut
      <2>2. QED  BY <1>2, <2>1 DEF StandInv, Confirming
<1>5. QuietInv
      BY <1>2 DEF QuietInv
<1>6. Frontier = start
      <2>1. ZoneStart(Z) = start
            BY <1>1, <1>2 DEF CutInv, Z
      <2>2. QED  BY <1>2, <1>3, <2>1 DEF ZoneStart, Skipped, Frontier
<1>7. PICK a \in Int, s \in Nat : a = Z.adjust /\ s = start
      BY <1>3
<1>8. ConfirmInv(a, s, s)
      BY <1>2, ConfirmStart
<1>9. ~Flooding /\ Searches
      BY <1>2, <1>6, <1>7, <1>8 DEF Flooding, Searches
<1>10. Idle
      BY <1>2 DEF Idle, InChain, NoWord
<1>11. NearInv
      <2>1. Pending(a) = {}
            BY <1>10, IdleWaits
      <2>2. QED  BY <1>3, <1>7, <2>1 DEF NearInv, Near
<1>12. FloodHitInv
      BY <1>2 DEF FloodHitInv
<1>13. QED  BY <1>1, <1>4, <1>5, <1>9, <1>11, <1>12 DEF SearchInv

LEMMA FloodStepSearches ==
    ASSUME SearchInv, FloodDetect \/ ReportFlood \/ AnswerFlood \/ FloodDone
    PROVE  /\ StateInv' /\ NearInv' /\ FloodHitInv'
           /\ IF Flooding' THEN FloodInv' ELSE Searches'
<1>1. PlaceInv /\ CutInv /\ StandInv /\ StateInv /\ NearInv /\ FloodHitInv /\ QuietInv
      BY DEF SearchInv
<1>2. UNCHANGED <<table, buf, cands, word, start, zones, zone, state>>
      BY DEF FloodDetect, ReportFlood, AnswerFlood, FloodDone, confirmVars
<1>3. NearInv'
      BY <1>1, <1>2, NearStays
<1>4. CASE FloodDetect
      <2>1. /\ at = "flood" /\ at' \in {"run", "block"} /\ UNCHANGED <<it, Rest>>
            BY <1>4 DEF FloodDetect, Rest, confirmVars
      <2>2. ~Flooding
            BY <2>1 DEF Flooding
      <2>3. RestStep
            BY <2>1 DEF RestStep
      <2>4. StateInv' /\ FloodHitInv' /\ Searches'
            BY <1>2, <2>1, <2>2, <2>3, RestSearches
      <2>5. CASE at' = "run"
            <3>1. FloodInv'
                  BY <1>4, <2>5, FloodStarts
            <3>2. Flooding'
                  BY <2>5 DEF Flooding
            <3>3. QED  BY <1>3, <2>4, <3>1, <3>2
      <2>6. CASE at' = "block"
            <3>1. ~Flooding'
                  BY <2>6 DEF Flooding
            <3>2. QED  BY <1>3, <2>4, <3>1
      <2>7. QED  BY <2>1, <2>5, <2>6
<1>5. CASE ReportFlood
      <2>1. at = "run" /\ at' \in {"run", "floodcallback"} /\ it' = it
            BY <1>5 DEF ReportFlood
      <2>2. Flooding /\ Flooding'
            BY <2>1 DEF Flooding
      <2>3. FloodInv' /\ FloodHitInv'
            BY <1>1, <1>5, <2>2, FloodReports DEF SearchInv
      <2>4. StateInv'
            BY <1>1, <1>2, <2>1, StateStays
      <2>5. QED  BY <1>3, <2>2, <2>3, <2>4
<1>6. CASE AnswerFlood
      <2>1. at = "floodcallback" /\ at' = "run" /\ it' = it
            BY <1>6 DEF AnswerFlood
      <2>2. Flooding /\ Flooding'
            BY <2>1 DEF Flooding
      <2>3. FloodInv' /\ FloodHitInv'
            BY <1>1, <1>6, <2>2, FloodAnswers DEF SearchInv
      <2>4. StateInv'
            BY <1>1, <1>2, <2>1, StateStays
      <2>5. QED  BY <1>3, <2>2, <2>3, <2>4
<1>7. CASE FloodDone
      <2>1. at = "run" /\ at' \in {"block", "terminated"}
            BY <1>7 DEF FloodDone
      <2>2. Flooding /\ ~Flooding'
            BY <2>1 DEF Flooding
      <2>3. /\ StateInv' /\ FloodHitInv' /\ Z' = Z
            /\ \E s \in Nat, e \in Nat :
                  s = start' /\ e = Frontier' /\ ConfirmInv(0, s, e)' /\ Z.adjust = 0
            BY <1>1, <1>7, <2>2, FloodEnds DEF SearchInv
      <2>4. PICK s \in Nat, e \in Nat :
                s = start' /\ e = Frontier' /\ ConfirmInv(0, s, e)' /\ Z.adjust = 0
            BY <2>3
      <2>5. PICK a \in Int : a = 0
            OBVIOUS
      <2>6. a = Z'.adjust /\ ConfirmInv(a, s, e)'
            BY <2>3, <2>4, <2>5
      <2>7. Searches'
            BY <2>4, <2>6 DEF Searches
      <2>8. QED  BY <1>3, <2>2, <2>3, <2>7
<1>8. QED  BY <1>4, <1>5, <1>6, <1>7

LEMMA SearchStep == SearchInv /\ [Next]_vars => SearchInv'
<1>1. ASSUME SearchInv, UNCHANGED vars PROVE SearchInv'
      <2>1. /\ UNCHANGED <<table, buf, at, cands, word, chain, control, lastMatch, hits>>
            /\ UNCHANGED <<start, align, zones, zone, it, state, tryFlood, backoff, flood, ret>>
            BY <1>1 DEF vars, confirmVars, fdrVars
      <2>2. PlaceInv'
            BY <1>1, PlaceStep DEF SearchInv
      <2>3. CutInv'
            BY <1>1, <2>1, CutStays DEF SearchInv
      <2>4. StateInv' /\ Frontier' = Frontier /\ Z' = Z
            BY <1>1, <2>1, StateStays DEF SearchInv
      <2>5. StandInv' /\ QuietInv'
            BY <1>1, <2>1, <2>4 DEF SearchInv, StandInv, QuietInv
      <2>6. NearInv'
            BY <1>1, <2>1, NearStays DEF SearchInv
      <2>7. FloodHitInv'
            BY <1>1, <2>1 DEF SearchInv, FloodHitInv, IsOccurrence, Occurs, LitsOf, Len0
      <2>8. CASE ~Flooding
            <3>1. PICK a \in Int, s \in Nat, f \in Nat :
                      a = Z.adjust /\ s = start /\ f = Frontier /\ ConfirmInv(a, s, f)
                  BY <1>1, <2>8 DEF SearchInv, Searches
            <3>2. ConfirmInv(a, s, f)'
                  BY <2>1, <3>1, ConfirmStays DEF Rest
            <3>3. Searches'
                  BY <2>1, <2>4, <3>1, <3>2 DEF Searches
            <3>4. ~Flooding'
                  BY <2>1, <2>8 DEF Flooding
            <3>5. QED  BY <2>2, <2>3, <2>4, <2>5, <2>6, <2>7, <3>3, <3>4 DEF SearchInv
      <2>9. CASE Flooding
            <3>1. PICK s \in Nat, f \in Nat, g \in Nat :
                      s = start /\ f = it + Told /\ g = it /\ RestsInv(s, f, g)
                  BY <1>1, <2>9 DEF SearchInv, FloodInv
            <3>2. RestsInv(s, f, g)'
                  <4>1. Idle /\ ~InChain'
                        BY <1>1, <2>1, <2>9, <3>1, FloodIdle DEF SearchInv, RestsInv, Flooding, InChain
                  <4>2. QED  BY <2>1, <3>1, <4>1, RestsStay DEF Rest
            <3>3. Told' = Told
                  BY <2>1 DEF Told
            <3>4. s = start' /\ f = (it + Told)' /\ g = it'
                  BY <2>1, <3>1, <3>3
            <3>5. RunInv' /\ ToldInv' /\ HereInv'
                  <4>1. Flood' = Flood /\ FloodLit' = FloodLit /\ Len0' = Len0 /\ LastHit' = LastHit
                        BY <2>1 DEF Flood, FloodLit, Len0, LastHit
                  <4>2. (\A k : FloodId(k)' = FloodId(k)) /\ (\A x : LitAt(x)' = LitAt(x))
                        BY <2>1, <4>1 DEF FloodId, LitAt, LitsOf
                  <4>3. \A l, end : Reported(l, end)' <=> Reported(l, end)
                        BY <2>1 DEF Reported
                  <4>4. RunInv /\ ToldInv /\ HereInv
                        BY <1>1, <2>9 DEF SearchInv, FloodInv
                  <4>5. RunInv'
                        BY <2>1, <4>1, <4>2, <4>4 DEF RunInv
                  <4>6. ToldInv'
                        BY <2>1, <4>1, <4>2, <4>3, <4>4 DEF ToldInv
                  <4>7. HereInv'
                        BY <2>1, <4>1, <4>2, <4>4 DEF HereInv
                  <4>8. QED  BY <4>5, <4>6, <4>7
            <3>6. FloodInv'
                  BY <3>2, <3>4, <3>5 DEF FloodInv
            <3>7. Flooding'
                  BY <2>1, <2>9 DEF Flooding
            <3>8. QED  BY <2>2, <2>3, <2>4, <2>5, <2>6, <2>7, <3>6, <3>7 DEF SearchInv
      <2>10. QED  BY <2>8, <2>9
<1>2. ASSUME SearchInv, Next PROVE SearchInv'
      <2>1. UNCHANGED <<buf, start, zones>>
            BY <1>2 DEF Next, Probe, ConfirmFirst, ScanBlock, EndOfZone, NextZone, FlushNext, BitsDone, NextBit,
                PassLiteral, ReportLiteral, AnswerLiteral, ChainDone, FloodDetect, ReportFlood,
                AnswerFlood, FloodDone, Finished, vars, fdrVars
      <2>2. PlaceInv'
            BY <1>2, PlaceStep DEF SearchInv
      <2>3. CutInv'
            BY <1>2, <2>1, CutStays DEF SearchInv
      <2>4. QuietInv'
            BY <1>2, QuietStep DEF SearchInv
      <2>5. StandInv'
            <3>1. Flooding => RunInv /\ ConfirmType
                  BY <1>2 DEF SearchInv, FloodInv, RestsInv
            <3>2. QED  BY <1>2, <3>1, StandStep DEF SearchInv
      <2>6. CASE Probe \/ EndOfZone
            <3>1. /\ at = "scan" /\ at' = "flush" /\ UNCHANGED Rest
                  /\ UNCHANGED <<table, buf, start, zones, zone, it, state>>
                  BY <2>6 DEF Probe, EndOfZone, ConfirmFirst, confirmVars, Rest
            <3>2. ~Flooding /\ ~Flooding' /\ RestStep
                  BY <3>1 DEF Flooding, RestStep
            <3>3. StateInv' /\ NearInv' /\ FloodHitInv' /\ Searches'
                  BY <1>2, <3>1, <3>2, RestSearches
            <3>4. QED  BY <2>2, <2>3, <2>4, <2>5, <3>2, <3>3 DEF SearchInv
      <2>7. CASE ScanBlock
            <3>1. StateInv' /\ NearInv' /\ FloodHitInv' /\ Searches' /\ ~Flooding'
                  BY <1>2, <2>7, BlockSearches
            <3>2. QED  BY <2>2, <2>3, <2>4, <2>5, <3>1 DEF SearchInv
      <2>8. CASE NextZone
            <3>1. StateInv' /\ NearInv' /\ FloodHitInv' /\ Searches' /\ ~Flooding'
                  BY <1>2, <2>8, ZoneSearches
            <3>2. QED  BY <2>2, <2>3, <2>4, <2>5, <3>1 DEF SearchInv
      <2>9. CASE Confirms
            <3>1. StateInv' /\ NearInv' /\ FloodHitInv' /\ Searches' /\ ~Flooding'
                  BY <1>2, <2>9, ConfirmsSearch
            <3>2. QED  BY <2>2, <2>3, <2>4, <2>5, <3>1 DEF SearchInv
      <2>10. CASE FloodDetect \/ ReportFlood \/ AnswerFlood \/ FloodDone
            <3>1. /\ StateInv' /\ NearInv' /\ FloodHitInv'
                  /\ IF Flooding' THEN FloodInv' ELSE Searches'
                  BY <1>2, <2>10, FloodStepSearches
            <3>2. QED  BY <2>2, <2>3, <2>4, <2>5, <3>1 DEF SearchInv
      <2>11. CASE Finished
            BY <1>1, <1>2, <2>11 DEF Finished
      <2>12. QED  BY <1>2, <2>6, <2>7, <2>8, <2>9, <2>10, <2>11 DEF Next, Confirms
<1>3. QED  BY <1>1, <1>2

-----------------------------------------------------------------------------
LEMMA SearchShows == SearchInv => WindowShowsBuffer
<1> SUFFICES ASSUME SearchInv, at = "chain" PROVE WindowShowsBuffer
    BY DEF WindowShowsBuffer
<1>1. ~Flooding /\ InChain
      BY DEF Flooding, InChain
<1>2. PICK a \in Int, s \in Nat, f \in Nat :
          a = Z.adjust /\ s = start /\ f = Frontier /\ ConfirmInv(a, s, f)
      BY <1>1 DEF SearchInv, Searches
<1>3. f <= Len0 /\ Len0 \in Nat
      BY <1>2, FrontierIn, ThisZone DEF SearchInv
<1>4. chain.end \in s..f-1 /\ WindowInv
      BY <1>1, <1>2 DEF ConfirmInv, WalkInv
<1>5. chain.end \in start..Len0-1
      BY <1>2, <1>3, <1>4
<1>6. \A k \in 0..CONF_BYTES-1 :
          chain.window[k] = IF k <= chain.end THEN buf[chain.end - k + 1] ELSE 0
      BY <1>1, <1>4 DEF WindowInv
<1>7. QED  BY <1>5, <1>6 DEF WindowShowsBuffer

LEMMA SearchFinds == SearchInv => Found
<1> SUFFICES ASSUME SearchInv PROVE Found
    OBVIOUS
<1>1. OccurInv /\ FloodHitInv
      BY DEF SearchInv, Searches, ConfirmInv, FloodInv, RestsInv
<1>2. OnlyOccurrences
      BY <1>1, OnlyFound DEF FloodHitInv
<1>3. ASSUME at = "completed" PROVE FoundAll(start, TRUE)
      <2>1. ~Flooding /\ it = Z.to /\ zone = Len(zones) /\ cands = <<>> /\ control
            BY <1>3 DEF SearchInv, Flooding, StandInv, QuietInv, ControlPoints, Confirming
      <2>2. PICK a \in Int, s \in Nat, f \in Nat :
                a = Z.adjust /\ s = start /\ f = Frontier /\ ConfirmInv(a, s, f)
            BY <2>1 DEF SearchInv, Searches
      <2>3. Frontier = ZoneEnd(Z) /\ ZoneEnd(Z) = Len0
            BY <2>1, FrontierIn DEF SearchInv, CutInv, Z
      <2>4. ConfirmInv(a, s, Len0)
            BY <2>2, <2>3
      <2>5. at \notin {"bits", "chain", "callback", "terminated"}
            BY <1>3
      <2>6. FoundAll(s, TRUE)
            BY <2>1, <2>4, <2>5, AllFound, Zenon
      <2>7. QED  BY <2>2, <2>6
<1>4. FoundAll(start, at = "completed")
      BY <1>3 DEF FoundAll
<1>5. QED  BY <1>2, <1>4 DEF Found

\* Whichever zone a candidate is confirmed in, a copy or the buffer itself,
\* the window shows the bytes before it as they are in the buffer.
THEOREM WindowsShowBuffer == Spec => []WindowShowsBuffer
BY SearchInit, SearchStep, SearchShows, PTL DEF Spec

\* FDR finds what a naive search finds, also across the borders of blocks
\* and zones and in the runs that flood_detect jumps over: what it reports
\* ends where it says, and a scan that was not stopped has reported every
\* literal behind its start.
THEOREM FdrFinds == Spec => []Found
BY SearchInit, SearchStep, SearchFinds, PTL DEF Spec

-----------------------------------------------------------------------------
(***************************************************************************)
(* The hits are a stream in order.                                         *)
(***************************************************************************)
LEMMA StreamInit == Init => Stream!Init
<1> SUFFICES ASSUME Init PROVE Stream!Init
    OBVIOUS
<1>1. at = "scan" /\ control = TRUE /\ hits = <<>>
      BY DEF Init, ConfirmInit
<1>2. StreamEnd = 0 /\ StreamUsed = {} /\ StreamSquashed = {}
      BY <1>1 DEF StreamEnd, StreamUsed, StreamSquashed, HitsAtEnd
<1>3. QED  BY <1>1, <1>2 DEF Stream!Init

LEMMA StreamStep ==
    SearchInv /\ [Next]_vars
        => [Stream!Hit \/ Stream!Answer \/ Stream!Close]_Stream!streamVars
<1> SUFFICES ASSUME SearchInv, [Next]_vars
             PROVE  \/ Stream!Hit \/ Stream!Answer \/ Stream!Close
                    \/ UNCHANGED Stream!streamVars
    OBVIOUS
<1> USE DEF Stream!Hit, Stream!Answer, Stream!Close, Stream!streamVars
<1>1. at \in ControlPoints /\ ret \in {"scan", "flood", "zone"} /\ QuietInv
      BY DEF SearchInv, PlaceInv
<1>2. CASE ReportLiteral
      <2>1. ReportStep /\ at = "chain" /\ at' = "callback"
            BY <1>2 DEF ReportLiteral, ReportStep
      <2>2. PICK a \in Int, s \in Nat, f \in Nat :
                a = Z.adjust /\ s = start /\ f = Frontier /\ ConfirmInv(a, s, f)
            BY <2>1 DEF SearchInv, Searches, Flooding
      <2>3. f \in 0..Len0
            <3>1. f <= Len0 /\ Len0 \in Nat
                  BY <2>2, FrontierIn, ThisZone DEF SearchInv
            <3>2. QED  BY <3>1
      <2>4. HitStep
            BY <2>1, <2>2, <2>3, ReportStreams
      <2>5. control
            BY <2>1 DEF ReportStep, Confirmed
      <2>6. Stream!Hit
            BY <2>1, <2>4, <2>5 DEF HitStep
      <2>7. QED  BY <2>6
<1>3. CASE AnswerLiteral
      <2>1. PICK reply \in Replies, squash \in Squashes :
                /\ Answered(reply, squash) /\ control' = (reply = "Continue") /\ at' = "chain"
            BY <1>3 DEF AnswerLiteral
      <2>2. at = "callback"
            BY <1>3 DEF AnswerLiteral
      <2>3. PICK a \in Int, s \in Nat, f \in Nat :
                a = Z.adjust /\ s = start /\ f = Frontier /\ ConfirmInv(a, s, f)
            BY <2>2 DEF SearchInv, Searches, Flooding
      <2>4. ConfirmType /\ hits # <<>> /\ LastHit.squash = {}
            BY <2>2, <2>3 DEF ConfirmInv, WalkInv, InChain, Hit
      <2>5. /\ StreamSquashed \subseteq StreamSquashed'
            /\ UNCHANGED <<StreamEnd, StreamLit, StreamBucket, StreamUsed>>
            BY <2>1, <2>4, AnswerStreams, SquashesTyped
      <2>6. Stream!Answer
            BY <2>1, <2>2, <2>5
      <2>7. QED  BY <2>6
<1>4. ASSUME hits' = hits, at \notin {"callback", "floodcallback", "completed"},
             at' \notin {"callback", "floodcallback"},
             control' <=> control, at # "terminated"
      PROVE  Stream!Close \/ UNCHANGED Stream!streamVars
      <2>1. UNCHANGED <<StreamEnd, StreamLit, StreamBucket, StreamUsed, StreamSquashed>>
            BY <1>4, HitsStay
      <2>2. CASE at' \in {"completed", "terminated"}
            BY <1>4, <2>1, <2>2
      <2>3. CASE at' \notin {"completed", "terminated"}
            BY <1>4, <2>1, <2>3
      <2>4. QED  BY <2>2, <2>3
<1>5. CASE \/ Probe \/ ScanBlock \/ EndOfZone \/ NextZone \/ FlushNext \/ BitsDone \/ NextBit
           \/ PassLiteral \/ ChainDone \/ FloodDetect \/ FloodDone
      <2>1. /\ hits' = hits /\ control' = control
            /\ at \notin {"callback", "floodcallback", "completed", "terminated"}
            /\ at' \notin {"callback", "floodcallback"}
            BY <1>1, <1>5 DEF Probe, ConfirmFirst, ScanBlock, EndOfZone, NextZone, FlushNext, BitsDone,
                        NextBit, PassLiteral, ChainDone, FloodDetect, FloodDone, confirmVars
      <2>2. QED  BY <1>4, <2>1
<1>6. CASE ReportFlood
      <2>1. at = "run" /\ Flooding /\ control
            BY <1>6 DEF ReportFlood, Flooding, FloodOver
      <2>2. at' = "floodcallback" => HitStep
            BY <1>6, <2>1, FloodReports DEF SearchInv
      <2>3. CASE at' = "floodcallback"
            <3>1. Stream!Hit
                  BY <2>1, <2>2, <2>3 DEF HitStep
            <3>2. QED  BY <3>1
      <2>4. CASE at' # "floodcallback"
            <3>1. hits' = hits /\ at' = "run" /\ control' = control
                  BY <1>6, <2>1, <2>4 DEF ReportFlood
            <3>2. QED  BY <1>4, <2>1, <3>1
      <2>5. QED  BY <2>3, <2>4
<1>7. CASE AnswerFlood
      <2>1. at = "floodcallback" /\ at' = "run" /\ Flooding
            BY <1>7 DEF AnswerFlood, Flooding
      <2>2. PICK reply \in Replies : control' = (reply = "Continue")
            BY <1>7 DEF AnswerFlood
      <2>3. /\ StreamSquashed \subseteq StreamSquashed'
            /\ UNCHANGED <<StreamEnd, StreamLit, StreamBucket, StreamUsed>>
            BY <1>7, <2>1, FloodAnswers DEF SearchInv
      <2>4. Stream!Answer
            BY <2>1, <2>2, <2>3
      <2>5. QED  BY <2>4
<1>8. CASE Finished \/ UNCHANGED vars
      <2>1. UNCHANGED <<at, control, hits>>
            BY <1>8 DEF Finished, vars, confirmVars
      <2>2. UNCHANGED <<StreamEnd, StreamLit, StreamBucket, StreamUsed, StreamSquashed>>
            BY <2>1, HitsStay
      <2>3. QED  BY <2>1, <2>2
<1>9. QED  BY <1>2, <1>3, <1>5, <1>6, <1>7, <1>8 DEF Next

\* FDR keeps what HitStream promises, floods included: hits in the order of
\* the buffer, a literal at most once per end, none from a bucket that was
\* squashed at that end, none after Terminate.
THEOREM FdrIsAStream == Spec => StreamSpec
BY SearchInit, SearchStep, StreamInit, StreamStep, PTL DEF Spec, StreamSpec, Stream!StreamSpec

-----------------------------------------------------------------------------
(***************************************************************************)
(* The whole scan.  How the engine and DelayScan stand to each other.      *)
(***************************************************************************)
Calls == {"callback", "floodcallback"}
Ended == {"completed", "terminated"}
Replaying == {"flush", "replay", "delayed"}

\* DelayScan runs inside of a call of on_hit, and once the engine is done.
PhaseInv ==
    /\ at \in Calls => dat \in Replaying \cup {"direct"} /\ ~flush.final /\ ~engine.stopped
    /\ at \notin Calls \cup Ended => dat = "engine"
    /\ at \in Ended => dat \in {"engine", "done"} \/ (dat \in Replaying /\ flush.final)
    /\ dat = "engine" /\ control => ~engine.stopped

\* What DelayScan remembers of the engine is its last hit, and no more of the
\* hits and the answers at that end than there were.
EchoInv ==
    /\ hits = <<>> => engine.end = 1 /\ engine.lit = 0 /\ engine.used = {} /\ engine.squashed = {}
    /\ hits # <<>> =>
          /\ engine.end = LastHit.end + 1 /\ engine.lit = LastHit.id /\ engine.flood = LastHit.flood
          /\ LastHit.flood =>
                engine.squashed = {} /\ engine.used \subseteq {hits[i].id : i \in HitsAtEnd}
          /\ ~LastHit.flood =>
                engine.squashed \subseteq StreamSquashed /\ engine.used \subseteq 1..LastHit.id
    /\ at \in Calls => hits # <<>> /\ (at = "floodcallback" <=> LastHit.flood)

LinkInv ==
    /\ <<table, db>> \in Loaded
    /\ {"end", "lit", "flood", "used", "squashed", "stopped"} \subseteq DOMAIN engine
    /\ "final" \in DOMAIN flush
    /\ PhaseInv /\ EchoInv

LEMMA ScanStarts == ScanInit => Init /\ D!Init /\ LinkInv
<1> SUFFICES ASSUME ScanInit PROVE Init /\ D!Init /\ LinkInv
    OBVIOUS
<1>1. Init /\ D!Init /\ <<table, db>> \in Loaded
      BY DEF ScanInit
<1>2. at = "scan" /\ hits = <<>>
      BY <1>1 DEF Init, ConfirmInit
<1>3. /\ dat = "engine"
      /\ engine = [end |-> 1, lit |-> 0, flood |-> FALSE, used |-> {}, squashed |-> {}, stopped |-> FALSE]
      /\ flush = [limit |-> 0, final |-> FALSE, offset |-> 0, todo |-> {}]
      BY <1>1 DEF D!Init
<1>4. PhaseInv
      BY <1>2, <1>3 DEF PhaseInv, Calls, Ended
<1>5. EchoInv
      BY <1>2, <1>3 DEF EchoInv, Calls
<1>6. QED  BY <1>1, <1>3, <1>4, <1>5 DEF LinkInv

\* A step of the whole is a step of the engine, or leaves it alone.
LEMMA WholeSearches == [ScanNext]_scanVars => [Next]_vars
<1>1. Search => Next
      BY DEF Search, Next
<1>2. OnHit => Next
      BY DEF OnHit, Next
<1>3. Replay => Next \/ UNCHANGED vars
      BY DEF Replay, TakeAnswer, Next
<1>4. EngineDone \/ ScanFinished \/ UNCHANGED scanVars => UNCHANGED vars
      BY DEF EngineDone, ScanFinished, scanVars
<1>5. QED  BY <1>1, <1>2, <1>3, <1>4 DEF ScanNext

\* What DelayScan does between a call and its answer.
LEMMA Replays ==
    ASSUME "final" \in DOMAIN flush, "stopped" \in DOMAIN engine,
           \/ D!OpenSlot \/ D!ReplayNext \/ D!ReplayBadIndex \/ D!SlotDone \/ D!FlushDone
           \/ D!Interpret \/ D!ReturnContinue \/ D!ReturnTerminate \/ D!ReturnErr
    PROVE  /\ dat \in Replaying \cup {"direct"}
           /\ db' = db /\ "final" \in DOMAIN flush' /\ flush'.final = flush.final
           /\ \/ engine' = engine /\ dat' \in Replaying
              \/ engine' = engine /\ dat' = "direct" /\ (dat = "direct" \/ ~flush.final)
              \/ engine' = engine /\ dat' = "done" /\ flush.final
              \/ engine' = [engine EXCEPT !.stopped = TRUE] /\ dat' = "engine"
              \/ /\ engine' = [engine EXCEPT !.squashed = @ \cup D!SquashTaken] /\ dat' = "engine"
                 /\ dat = "direct" /\ vm.status = "Continue"
<1> USE DEF Replaying
<1>1. CASE D!OpenSlot
      <2>1. PICK s \in D!Due :
                flush' = [flush EXCEPT !.offset = s[1],
                            !.todo = {t[2] : t \in {u \in slots : u[1] = s[1]}}]
            BY <1>1 DEF D!OpenSlot
      <2>2. "final" \in DOMAIN flush' /\ flush'.final = flush.final
            BY <2>1
      <2>3. QED  BY <1>1, <2>2 DEF D!OpenSlot
<1>2. CASE D!ReplayNext
      <2>1. PICK i \in flush.todo : flush' = [flush EXCEPT !.todo = @ \ {i}]
            BY <1>2 DEF D!ReplayNext
      <2>2. "final" \in DOMAIN flush' /\ flush'.final = flush.final
            BY <2>1
      <2>3. QED  BY <1>2, <2>2 DEF D!ReplayNext
<1>3. CASE D!SlotDone
      BY <1>3 DEF D!SlotDone
<1>4. CASE D!FlushDone
      BY <1>4 DEF D!FlushDone
<1>5. CASE D!Interpret
      BY <1>5 DEF D!Interpret, D!scanVars
<1>6. ASSUME D!StopScan, db' = db, dat \in {"replay", "direct", "delayed"}
      PROVE  /\ "final" \in DOMAIN flush' /\ flush'.final = flush.final
             /\ \/ engine' = engine /\ dat' = "done" /\ flush.final
                \/ engine' = [engine EXCEPT !.stopped = TRUE] /\ dat' = "engine"
      BY <1>6 DEF D!StopScan
<1>7. CASE D!ReplayBadIndex
      BY <1>6, <1>7 DEF D!ReplayBadIndex
<1>8. CASE D!ReturnTerminate \/ D!ReturnErr
      BY <1>6, <1>8 DEF D!ReturnTerminate, D!ReturnErr
<1>9. CASE D!ReturnContinue
      BY <1>9 DEF D!ReturnContinue
<1>10. QED  BY <1>1, <1>2, <1>3, <1>4, <1>5, <1>7, <1>8, <1>9

-----------------------------------------------------------------------------
(***************************************************************************)
(* A call of on_hit is a hit of the engine that DelayScan assumes.         *)
(***************************************************************************)
\* The place of a new hit, behind the hits before it.
Placed(h) ==
    /\ hits' = Append(hits, h) /\ control /\ h.end < Len0 /\ h.squash = {}
    /\ at \notin Calls \cup Ended /\ at' = IF h.flood THEN "floodcallback" ELSE "callback"
    /\ h.n \in DOMAIN LitsOf(h.bucket) /\ h.id = LitsOf(h.bucket)[h.n].id
    /\ h.flood => \E c \in DOMAIN table.floods : \E k \in DOMAIN table.floods[c].ids :
                      table.floods[c].ids[k] = <<h.bucket, h.n>>
    /\ \A i \in DOMAIN hits : hits[i].end = h.end =>
          /\ hits[i].flood = h.flood
          /\ ~h.flood => hits[i].bucket < h.bucket \/ (hits[i].bucket = h.bucket /\ hits[i].n < h.n)

LEMMA LiteralPlaced ==
    ASSUME SearchInv, ReportLiteral
    PROVE  HitStep /\ \E h \in HitRecord : Placed(h)
<1>1. ReportStep /\ at = "chain" /\ at' = "callback" /\ InChain
      BY DEF ReportLiteral, ReportStep, InChain
<1>2. PICK a \in Int, s \in Nat, f \in Nat :
          a = Z.adjust /\ s = start /\ f = Frontier /\ ConfirmInv(a, s, f)
      BY <1>1 DEF SearchInv, Searches, Flooding
<1>3. f <= Len0 /\ Len0 \in Nat
      BY <1>2, FrontierIn, ThisZone DEF SearchInv
<1>4. f \in 0..Len0
      BY <1>3
<1>5. HitStep
      BY <1>1, <1>2, <1>4, ReportStreams
<1>6. ConfirmType /\ WalkInv(a, s, f)
      BY <1>2 DEF ConfirmInv
<1> DEFINE h == Hit(Literal.id, chain.bucket, chain.n, chain.end, FALSE)
<1>7. /\ hits' = Append(hits, h) /\ h \in HitRecord /\ h.id = Literal.id
      /\ h.bucket = chain.bucket /\ h.n = chain.n /\ h.end = chain.end
      /\ h.flood = FALSE /\ h.squash = {}
      BY <1>1, <1>6, ReportHits
<1> HIDE DEF h
<1>8. /\ chain.end \in s..f-1
      /\ \A i \in DOMAIN hits : HitBeforeAt(hits[i], chain.end, chain.bucket, chain.n)
      BY <1>1, <1>6 DEF WalkInv
<1>9. chain.end < Len0
      BY <1>3, <1>8
<1>10. chain.n \in DOMAIN LitsOf(chain.bucket) /\ Literal = LitsOf(chain.bucket)[chain.n]
      BY <1>1, <1>6, WalkTyped DEF ReportStep
<1>11. control
      BY <1>1 DEF ReportStep, Confirmed
<1>12. chain.end \in Nat /\ chain.bucket \in Nat /\ chain.n \in Nat
      BY <1>1, <1>6, WalkTyped, Tabled
<1>13. ASSUME NEW i \in DOMAIN hits, hits[i].end = h.end
       PROVE  /\ hits[i].flood = h.flood
              /\ hits[i].bucket < h.bucket \/ (hits[i].bucket = h.bucket /\ hits[i].n < h.n)
      <2>1. /\ hits[i].flood \in BOOLEAN /\ hits[i].end \in Nat
            /\ hits[i].bucket \in Nat /\ hits[i].n \in Nat
            BY <1>6, HitTyped
      <2>2. HitBeforeAt(hits[i], chain.end, chain.bucket, chain.n) /\ hits[i].end = chain.end
            BY <1>7, <1>8, <1>13
      <2>3. ~hits[i].flood
            BY <1>12, <2>1, <2>2 DEF HitBeforeAt
      <2>4. hits[i].bucket < chain.bucket \/ (hits[i].bucket = chain.bucket /\ hits[i].n < chain.n)
            BY <1>12, <2>1, <2>2 DEF HitBeforeAt, Before
      <2>5. QED  BY <1>7, <2>1, <2>3, <2>4
<1>14. Placed(h)
      BY <1>1, <1>7, <1>9, <1>10, <1>11, <1>13 DEF Placed, Calls, Ended
<1>15. QED  BY <1>5, <1>7, <1>14

LEMMA FloodPlaced ==
    ASSUME SearchInv, ReportFlood, hits' # hits
    PROVE  HitStep /\ \E h \in HitRecord : Placed(h)
<1>1. at = "run" /\ Flooding /\ ~FloodOver
      BY DEF ReportFlood, Flooding
<1>2. FloodInv /\ PlaceInv
      BY <1>1 DEF SearchInv
<1>3. ConfirmType /\ RunInv /\ HereInv /\ it \in Int
      BY <1>2 DEF FloodInv, RestsInv, PlaceInv
<1> DEFINE x == FloodId(flood.k)
           h == Hit(FloodLit.id, x[1], x[2], flood.first + flood.t, TRUE)
<1>4. hits' = Append(hits, h) /\ at' = "floodcallback"
      BY DEF ReportFlood, FloodId
<1>5. HitStep
      BY <1>2, <1>4, FloodReports DEF SearchInv
<1>6. /\ flood.t \in Nat /\ flood.k \in Nat \ {0} /\ flood.size \in Nat /\ it \in Nat
      /\ Len(Flood.ids) \in Nat /\ Flood.ids \in Seq(Nat \X (Nat \ {0}))
      /\ DOMAIN Flood.ids = 1..Len(Flood.ids)
      /\ FloodLit = LitAt(FloodId(flood.k))
      BY <1>3, FloodTyped
<1>7. flood.t < flood.size /\ flood.k \in 1..Len(Flood.ids) /\ control
      <2>1. Flood.ids # <<>> /\ flood.t # flood.size /\ control
            BY <1>1 DEF FloodOver
      <2>2. Len(Flood.ids) # 0
            BY <1>6, <2>1
      <2>3. flood.t \in 0..flood.size /\ flood.k \in 1..Len(Flood.ids) \cup {1}
            BY <1>3 DEF RunInv
      <2>4. QED  BY <1>6, <2>1, <2>2, <2>3
<1>8. /\ x[1] \in Buckets /\ x[2] \in DOMAIN LitsOf(x[1]) /\ x[2] \in Nat \ {0}
      /\ FloodLit.id \in Nat /\ x = <<x[1], x[2]>> /\ FloodLit = LitsOf(x[1])[x[2]]
      BY <1>3, <1>6, <1>7, FloodTyped DEF LitAt
<1>9. /\ flood.first = it /\ it + flood.size < Len0
      /\ flood.byte \in DOMAIN table.floods /\ Flood = table.floods[flood.byte]
      BY <1>3 DEF RunInv, Flood
<1>10. Len0 \in Nat
      BY <1>3, Tabled
<1>11. PICK end \in Nat : end = flood.first + flood.t /\ end = it + flood.t /\ end < Len0
      <2>1. flood.first + flood.t = it + flood.t /\ it + flood.t \in Nat
            BY <1>6, <1>9
      <2>2. it + flood.t < it + flood.size
            BY <1>6, <1>7
      <2>3. it + flood.t < Len0
            BY <1>6, <1>9, <1>10, <2>2
      <2>4. QED  BY <2>1, <2>3
<1>12. /\ h.id = FloodLit.id /\ h.bucket = x[1] /\ h.n = x[2] /\ h.end = end /\ h.flood = TRUE
       /\ h.squash = {}
      BY <1>11 DEF Hit
<1>13. h \in HitRecord
      <2>1. {} \in Squashed
            BY DEF Squashed
      <2>2. QED  BY <1>8, <1>11, <2>1 DEF Hit, HitRecord
<1>14. flood.k \in DOMAIN table.floods[flood.byte].ids /\ table.floods[flood.byte].ids[flood.k] = x
      BY <1>6, <1>7, <1>9 DEF FloodId
<1> HIDE DEF x, h
<1>15. \A i \in DOMAIN hits : hits[i].end = h.end => hits[i].flood = TRUE
      <2>1. SUFFICES ASSUME NEW i \in DOMAIN hits, hits[i].end = h.end PROVE hits[i].flood = TRUE
            OBVIOUS
      <2>2. hits[i].flood
            BY <1>3, <1>11, <1>12, <2>1 DEF HereInv
      <2>3. hits[i].flood \in BOOLEAN
            BY <1>3, <2>1, HitTyped
      <2>4. QED  BY <2>2, <2>3
<1>16. <<h.bucket, h.n>> = x
      BY <1>8, <1>12
<1>17. \E c \in DOMAIN table.floods : \E k \in DOMAIN table.floods[c].ids :
           table.floods[c].ids[k] = <<h.bucket, h.n>>
      BY <1>9, <1>14, <1>16
<1>18. h.n \in DOMAIN LitsOf(h.bucket) /\ h.id = LitsOf(h.bucket)[h.n].id
      BY <1>8, <1>12
<1>19. Placed(h)
      BY <1>1, <1>4, <1>7, <1>11, <1>12, <1>15, <1>17, <1>18 DEF Placed, Calls, Ended
<1>20. QED  BY <1>5, <1>13, <1>19

LEMMA HitPlaced ==
    ASSUME SearchInv, ReportLiteral \/ ReportFlood, hits' # hits
    PROVE  HitStep /\ \E h \in HitRecord : Placed(h)
BY LiteralPlaced, FloodPlaced

-----------------------------------------------------------------------------
\* What the loaded database says of a literal of the table.
LEMMA LoadedFits ==
    ASSUME <<table, db>> \in Loaded
    PROVE  db \in D!Database /\ LiteralsFit(table, db) /\ FloodsFit(table, db)
<1>1. <<table, db>>[1] = table /\ <<table, db>>[2] = db
      OBVIOUS
<1>2. \A l \in Loaded : l[2] \in D!Database /\ LiteralsFit(l[1], l[2]) /\ FloodsFit(l[1], l[2])
      BY BlockAssumption
<1>3. QED  BY <1>1, <1>2

\* What DelayScan assumes of its constants.
LEMMA WholeAssumes == D!LitAssumption
<1>1. \A d \in {l[2] : l \in Loaded} : d \in D!Database
      BY BlockAssumption
<1>2. {Len(s) : s \in Buffers} \subseteq Nat \ {0}
      <2>1. ASSUME NEW s \in Buffers PROVE Len(s) \in Nat \ {0}
            <3>1. s \in Seq(Nat) /\ s # <<>>
                  BY ConfirmAssumption
            <3>2. QED  BY <3>1
      <2>2. QED  BY <2>1
<1>3. Replies \subseteq D!ScanCtl /\ U64 \in Nat \ {0}
      BY ConfirmAssumption, BlockAssumption DEF ScanCtl, D!ScanCtl
<1>4. QED  BY <1>1, <1>2, <1>3 DEF D!LitAssumption

LEMMA LoadedId ==
    ASSUME <<table, db>> \in Loaded, NEW b \in Buckets, NEW n \in DOMAIN LitsOf(b)
    PROVE  /\ LitsOf(b)[n].id \in DOMAIN db.lits
           /\ db.lits[LitsOf(b)[n].id].bucket = b
BY LoadedFits DEF LiteralsFit, Buckets, LitsOf

LEMMA LoadedOrder ==
    ASSUME <<table, db>> \in Loaded, NEW b \in Buckets, NEW n \in DOMAIN LitsOf(b),
           NEW c \in Buckets, NEW m \in DOMAIN LitsOf(c), b < c \/ (b = c /\ n < m)
    PROVE  LitsOf(b)[n].id < LitsOf(c)[m].id
BY LoadedFits DEF LiteralsFit, Buckets, LitsOf

LEMMA LoadedApart ==
    ASSUME ConfirmType, <<table, db>> \in Loaded, NEW b \in Buckets, NEW n \in DOMAIN LitsOf(b),
           NEW c \in Buckets, NEW m \in DOMAIN LitsOf(c), LitsOf(b)[n].id = LitsOf(c)[m].id
    PROVE  b = c /\ n = m
<1>1. /\ b \in Nat /\ c \in Nat /\ n \in Nat /\ m \in Nat
      /\ LitsOf(b)[n].id \in Nat /\ LitsOf(c)[m].id \in Nat
      BY Tabled, LitTyped
<1>2. ~(b < c \/ (b = c /\ n < m))
      BY <1>1, LoadedOrder
<1>3. ~(c < b \/ (c = b /\ m < n))
      BY <1>1, LoadedOrder
<1>4. QED  BY <1>1, <1>2, <1>3

LEMMA LoadedFlood ==
    ASSUME <<table, db>> \in Loaded, NEW c \in DOMAIN table.floods,
           NEW k \in DOMAIN table.floods[c].ids, NEW b, NEW n,
           table.floods[c].ids[k] = <<b, n>>
    PROVE  db.lits[LitsOf(b)[n].id].flood
<1>1. db.lits[table.chains[table.floods[c].ids[k][1]][table.floods[c].ids[k][2]].id].flood
      BY LoadedFits DEF FloodsFit
<1>2. QED  BY <1>1 DEF LitsOf

LEMMA LoadedSizes ==
    ASSUME <<table, db>> \in Loaded
    PROVE  db.lits \in Seq([prog: Nat, bucket: Nat, flood: BOOLEAN])
BY LoadedFits DEF D!Database

\* Every hit is the literal at its place.
LEMMA HitNamed ==
    ASSUME SearchInv, NEW i \in DOMAIN hits
    PROVE  ConfirmType /\ hits[i].bucket \in Buckets /\ hits[i].n \in DOMAIN LitsOf(hits[i].bucket)
           /\ hits[i].id = LitsOf(hits[i].bucket)[hits[i].n].id
<1>1. OccurInv /\ FloodHitInv /\ ConfirmType
      BY DEF SearchInv, Searches, ConfirmInv, FloodInv, RestsInv
<1>2. IsOccurrence(hits[i])
      BY <1>1 DEF OccurInv, FloodHitInv
<1>3. hits[i].n \in DOMAIN LitsOf(hits[i].bucket)
      BY <1>1 DEF ConfirmType
<1>4. QED  BY <1>1, <1>2, <1>3, HitTyped DEF IsOccurrence

-----------------------------------------------------------------------------
\* The fields of the engine that DelayScan has once a literal is hit.
LEMMA EngineHits ==
    ASSUME {"end", "lit", "flood", "used", "squashed", "stopped"} \subseteq DOMAIN engine,
           NEW end, NEW lit, NEW isFlood, engine' = D!EngineHit(end, lit, isFlood)
    PROVE  /\ {"end", "lit", "flood", "used", "squashed", "stopped"} \subseteq DOMAIN engine'
           /\ engine'.end = end /\ engine'.lit = lit /\ engine'.flood = isFlood
           /\ engine'.used = (IF end = engine.end THEN engine.used ELSE {})
                                 \cup (IF isFlood THEN {lit} ELSE 1..lit)
           /\ engine'.squashed = (IF end = engine.end THEN engine.squashed ELSE {})
           /\ engine'.stopped = engine.stopped
BY DEF D!EngineHit

\* A new hit, against the hits that DelayScan remembers.
LEMMA PlacedBehind ==
    ASSUME SearchInv, HitStep, LinkInv, NEW h \in HitRecord, Placed(h)
    PROVE  /\ ConfirmType /\ h.end \in Nat /\ h.id \in Nat \ {0} /\ h.id \in DOMAIN db.lits
           /\ h.flood => db.lits[h.id].flood
           /\ engine.end \in Nat /\ engine.end <= h.end + 1
           /\ engine.end = h.end + 1 =>
                 /\ h.id \notin engine.used
                 /\ ~D!Skipped(h.id)
                 /\ engine.used # {} => h.flood = engine.flood
                 /\ ~h.flood => engine.used \subseteq 1..h.id
                 /\ h.flood => engine.squashed = {}
<1>1. /\ ConfirmType /\ h.bucket \in Buckets /\ h.n \in DOMAIN LitsOf(h.bucket)
      /\ h.id = LitsOf(h.bucket)[h.n].id /\ h.end \in Nat /\ h.id \in Nat
      /\ <<table, db>> \in Loaded /\ h.flood \in BOOLEAN
      BY DEF SearchInv, Searches, ConfirmInv, FloodInv, RestsInv, HitRecord, Placed, LinkInv
<1>2. h.id \in DOMAIN db.lits /\ db.lits[h.id].bucket = h.bucket
      BY <1>1, LoadedId
<1>3. h.id \in Nat \ {0}
      BY <1>1, <1>2, LoadedSizes
<1>4. h.flood => db.lits[h.id].flood
      BY <1>1, LoadedFlood DEF Placed
<1>5. CASE hits = <<>>
      <2>1. engine.end = 1 /\ engine.used = {} /\ engine.squashed = {}
            BY <1>5 DEF LinkInv, EchoInv
      <2>2. QED  BY <1>1, <1>2, <1>3, <1>4, <2>1 DEF D!Skipped
<1>6. CASE hits # <<>>
      <2>1. PICK g \in HitRecord, k \in DOMAIN hits : g = hits[k] /\ g = LastHit /\ k = Len(hits)
            BY <1>1, <1>6 DEF ConfirmType, LastHit
      <2>2. /\ g.end \in Nat /\ g.id \in Nat /\ g.flood \in BOOLEAN
            /\ g.bucket \in Buckets /\ g.n \in DOMAIN LitsOf(g.bucket)
            /\ g.id = LitsOf(g.bucket)[g.n].id /\ db.lits[g.id].bucket = g.bucket
            <3>1. /\ g.end \in Nat /\ g.id \in Nat /\ g.flood \in BOOLEAN
                  /\ g.bucket \in Buckets /\ g.n \in DOMAIN LitsOf(g.bucket)
                  /\ g.id = LitsOf(g.bucket)[g.n].id
                  BY <1>1, <2>1, HitTyped, HitNamed
            <3>2. QED  BY <1>1, <3>1, LoadedId
      <2>3. /\ engine.end = g.end + 1 /\ engine.lit = g.id /\ engine.flood = g.flood
            /\ g.flood => engine.squashed = {} /\ engine.used \subseteq {hits[i].id : i \in HitsAtEnd}
            /\ ~g.flood => engine.squashed \subseteq StreamSquashed /\ engine.used \subseteq 1..g.id
            BY <1>6, <2>1 DEF LinkInv, EchoInv
      <2>4. StreamEnd = g.end /\ StreamBucket = g.bucket
            BY <1>6, <2>1 DEF StreamEnd, StreamBucket
      <2>5. StreamEnd' = h.end /\ StreamLit' = <<h.bucket, h.n>> /\ StreamBucket' = h.bucket
            <3>1. hits' = Append(hits, h) /\ hits \in Seq(HitRecord)
                  BY <1>1 DEF Placed, ConfirmType
            <3>2. hits' # <<>> /\ hits'[Len(hits')] = h
                  BY <3>1
            <3>3. QED  BY <3>2 DEF StreamEnd, StreamLit, StreamBucket, LastHit
      <2>6. g.end <= h.end
            BY <1>1, <2>2, <2>4, <2>5 DEF HitStep
      <2>7. engine.end \in Nat /\ engine.end <= h.end + 1
            BY <1>1, <2>2, <2>3, <2>6
      <2>8. ASSUME engine.end = h.end + 1
            PROVE  /\ h.id \notin engine.used /\ ~D!Skipped(h.id) /\ h.flood = engine.flood
                   /\ ~h.flood => engine.used \subseteq 1..h.id
                   /\ h.flood => engine.squashed = {}
            <3>1. g.end = h.end
                  BY <1>1, <2>2, <2>3, <2>8
            <3>2. h.flood = engine.flood /\ g.flood = h.flood
                  BY <2>1, <2>3, <3>1 DEF Placed
            <3>3. CASE h.flood
                  <4>1. engine.squashed = {}
                        BY <2>3, <3>2, <3>3
                  <4>2. <<h.bucket, h.n>> \notin StreamUsed
                        BY <2>4, <2>5, <3>1 DEF HitStep
                  <4>3. ASSUME NEW i \in HitsAtEnd PROVE hits[i].id # h.id
                        <5>1. i \in DOMAIN hits /\ <<hits[i].bucket, hits[i].n>> # <<h.bucket, h.n>>
                              BY <1>6, <4>2, <4>3 DEF HitsAtEnd, StreamUsed
                        <5>2. /\ hits[i].bucket \in Buckets
                              /\ hits[i].n \in DOMAIN LitsOf(hits[i].bucket)
                              /\ hits[i].id = LitsOf(hits[i].bucket)[hits[i].n].id
                              BY <5>1, HitNamed
                        <5>3. QED  BY <1>1, <5>1, <5>2, LoadedApart
                  <4>4. h.id \notin engine.used
                        BY <2>3, <3>2, <3>3, <4>3
                  <4>5. QED  BY <3>2, <3>3, <4>1, <4>4 DEF D!Skipped
            <3>4. CASE ~h.flood
                  <4>1. g.bucket < h.bucket \/ (g.bucket = h.bucket /\ g.n < h.n)
                        BY <2>1, <3>1, <3>4 DEF Placed
                  <4>2. g.id < h.id
                        BY <1>1, <2>2, <4>1, LoadedOrder
                  <4>3. engine.used \subseteq 1..g.id
                        BY <2>3, <3>2, <3>4
                  <4>4. h.id \notin engine.used /\ engine.used \subseteq 1..h.id
                        BY <1>1, <2>2, <4>2, <4>3
                  <4>5. h.bucket \in StreamSquashed => h.bucket = g.bucket
                        BY <2>4, <2>5, <3>1 DEF HitStep
                  <4>6. h.bucket \in engine.squashed => h.bucket = g.bucket
                        BY <2>3, <3>2, <3>4, <4>5
                  <4>7. ~D!Skipped(h.id)
                        BY <1>2, <2>2, <2>3, <4>6 DEF D!Skipped
                  <4>8. QED  BY <3>2, <3>4, <4>4, <4>7
            <3>5. QED  BY <1>1, <3>3, <3>4
      <2>9. QED  BY <1>1, <1>2, <1>3, <1>4, <2>7, <2>8
<1>7. QED  BY <1>5, <1>6

\* A call of on_hit is a hit of the engine that DelayScan assumes.
LEMMA HitLinks ==
    ASSUME SearchInv, LinkInv, OnHit, hits' # hits
    PROVE  D!OnHit /\ LinkInv'
<1>1. HitStep /\ \E h \in HitRecord : Placed(h)
      BY HitPlaced DEF OnHit
<1>2. PICK h \in HitRecord : Placed(h)
      BY <1>1
<1>3. /\ ConfirmType /\ h.end \in Nat /\ h.id \in Nat \ {0} /\ h.id \in DOMAIN db.lits
      /\ h.flood => db.lits[h.id].flood
      /\ engine.end \in Nat /\ engine.end <= h.end + 1
      /\ engine.end = h.end + 1 =>
            /\ h.id \notin engine.used
            /\ ~D!Skipped(h.id)
            /\ engine.used # {} => h.flood = engine.flood
            /\ ~h.flood => engine.used \subseteq 1..h.id
            /\ h.flood => engine.squashed = {}
      BY <1>1, <1>2, PlacedBehind
<1>4. /\ hits' = Append(hits, h) /\ control /\ h.end < Len0 /\ h.flood \in BOOLEAN
      /\ at \notin Calls \cup Ended /\ at' = IF h.flood THEN "floodcallback" ELSE "callback"
      BY <1>2 DEF Placed, HitRecord
<1>5. /\ hits \in Seq(HitRecord) /\ Len(hits) \in Nat /\ DOMAIN hits = 1..Len(hits)
      /\ hits' # <<>> /\ Len(hits') = Len(hits) + 1 /\ DOMAIN hits' = 1..Len(hits) + 1
      /\ hits'[Len(hits) + 1] = h /\ \A i \in DOMAIN hits : hits'[i] = hits[i]
      BY <1>3, <1>4 DEF ConfirmType
<1>6. LastHit' = h
      BY <1>5 DEF LastHit
<1>7. /\ dat' = "flush"
      /\ flush' = [limit |-> h.end + 1, final |-> FALSE, offset |-> 0, todo |-> {}]
      /\ engine' = D!EngineHit(h.end + 1, h.id, h.flood)
      /\ UNCHANGED replayVars /\ UNCHANGED <<table, buf>>
      BY <1>6 DEF OnHit, ReportLiteral, ReportFlood
<1>8. dat = "engine" /\ ~engine.stopped
      BY <1>4 DEF LinkInv, PhaseInv
<1>9. D!OnHit
      <2>1. h.end + 1 \in engine.end..Len(buf)
            BY <1>3, <1>4, Tabled DEF Len0
      <2>2. UNCHANGED <<db, Len(buf), D!progVars, slots, dle, err>>
            BY <1>7 DEF replayVars, D!progVars
      <2>3. QED  BY <1>3, <1>4, <1>7, <1>8, <2>1, <2>2 DEF D!OnHit
<1>10. /\ {"end", "lit", "flood", "used", "squashed", "stopped"} \subseteq DOMAIN engine'
       /\ engine'.end = h.end + 1 /\ engine'.lit = h.id /\ engine'.flood = h.flood
       /\ engine'.used = (IF h.end + 1 = engine.end THEN engine.used ELSE {})
                             \cup (IF h.flood THEN {h.id} ELSE 1..h.id)
       /\ engine'.squashed = (IF h.end + 1 = engine.end THEN engine.squashed ELSE {})
       /\ engine'.stopped = engine.stopped
       BY <1>7, EngineHits DEF LinkInv
<1>11. PhaseInv'
       BY <1>4, <1>7, <1>8, <1>10 DEF PhaseInv, Calls, Ended, Replaying
<1>12. HitsAtEnd' = {i \in DOMAIN hits' : hits'[i].end = h.end}
       BY <1>5, <1>6 DEF HitsAtEnd
<1>13. Len(hits) + 1 \in HitsAtEnd'
       BY <1>5, <1>12
<1>14. ASSUME h.flood
       PROVE  engine'.squashed = {} /\ engine'.used \subseteq {hits'[i].id : i \in HitsAtEnd'}
       <2>1. h.id \in {hits'[i].id : i \in HitsAtEnd'}
             BY <1>5, <1>13
       <2>2. CASE engine.end = h.end + 1 /\ engine.used # {}
             <3>1. engine.flood /\ engine.squashed = {}
                   BY <1>3, <1>14, <2>2
             <3>2. hits # <<>>
                   BY <2>2 DEF LinkInv, EchoInv
             <3>3. /\ engine.end = LastHit.end + 1 /\ LastHit.flood
                   /\ engine.used \subseteq {hits[i].id : i \in HitsAtEnd}
                   BY <3>1, <3>2 DEF LinkInv, EchoInv
             <3>4. LastHit.end = h.end
                   <4>1. LastHit.end \in Nat
                         BY <1>3, <1>5, <3>2, HitTyped DEF LastHit
                   <4>2. QED  BY <1>3, <2>2, <3>3, <4>1
             <3>5. HitsAtEnd = {i \in DOMAIN hits : hits[i].end = h.end}
                   BY <3>2, <3>4 DEF HitsAtEnd
             <3>6. \A i \in HitsAtEnd : i \in HitsAtEnd' /\ hits'[i].id = hits[i].id
                   BY <1>5, <1>12, <3>5
             <3>7. engine.used \subseteq {hits'[i].id : i \in HitsAtEnd'}
                   BY <3>3, <3>6
             <3>8. QED  BY <1>10, <1>14, <2>1, <3>1, <3>7
       <2>3. CASE ~(engine.end = h.end + 1 /\ engine.used # {})
             BY <1>3, <1>10, <1>14, <2>1, <2>3
       <2>4. QED  BY <2>2, <2>3
<1>15. ASSUME ~h.flood
       PROVE  engine'.squashed \subseteq StreamSquashed' /\ engine'.used \subseteq 1..h.id
       <2>1. engine'.used \subseteq 1..h.id
             BY <1>3, <1>10, <1>15
       <2>2. CASE engine'.squashed = {}
             BY <2>1, <2>2
       <2>3. CASE engine'.squashed # {}
             <3>1. engine.end = h.end + 1 /\ engine'.squashed = engine.squashed /\ hits # <<>>
                   BY <1>10, <2>3 DEF LinkInv, EchoInv
             <3>2. engine.end = LastHit.end + 1
                   BY <3>1 DEF LinkInv, EchoInv
             <3>3. ~LastHit.flood
                   BY <2>3, <3>1 DEF LinkInv, EchoInv
             <3>4. engine.squashed \subseteq StreamSquashed
                   BY <3>1, <3>3 DEF LinkInv, EchoInv
             <3>5. StreamEnd = h.end
                   <4>1. LastHit.end \in Nat
                         BY <1>3, <1>5, <3>1, HitTyped DEF LastHit
                   <4>2. QED  BY <1>3, <3>1, <3>2, <4>1 DEF StreamEnd
             <3>6. StreamEnd' = h.end
                   BY <1>5, <1>6 DEF StreamEnd
             <3>7. StreamSquashed' = StreamSquashed
                   BY <1>1, <3>5, <3>6 DEF HitStep
             <3>8. QED  BY <2>1, <3>1, <3>4, <3>7
       <2>4. QED  BY <2>2, <2>3
<1>16. EchoInv'
       BY <1>4, <1>5, <1>6, <1>10, <1>14, <1>15 DEF EchoInv, Calls
<1>17. /\ <<table, db>>' = <<table, db>> /\ "final" \in DOMAIN flush'
       BY <1>7 DEF replayVars
<1>18. LinkInv'
       BY <1>10, <1>11, <1>16, <1>17 DEF LinkInv
<1>19. QED  BY <1>9, <1>18

-----------------------------------------------------------------------------
(***************************************************************************)
(* Between two calls DelayScan stands still.                               *)
(***************************************************************************)
LEMMA LinkStays ==
    ASSUME LinkInv, UNCHANGED <<delayVars, table, buf, hits, control>>,
           at' = at \/ (at \notin Calls \cup Ended /\ at' \notin Calls)
    PROVE  UNCHANGED D!vars /\ LinkInv'
<1>1. UNCHANGED <<db, groups, dedupe, vm, out, slots, dle, err, dat, engine, flush>>
      BY DEF delayVars, replayVars
<1>2. UNCHANGED D!vars
      BY <1>1 DEF D!vars, D!progVars, D!scanVars
<1>3. PhaseInv'
      BY <1>1 DEF LinkInv, PhaseInv, Calls, Ended
<1>4. LastHit' = LastHit /\ HitsAtEnd' = HitsAtEnd /\ StreamSquashed' = StreamSquashed
      BY DEF LastHit, HitsAtEnd, StreamSquashed
<1>5. EchoInv'
      BY <1>1, <1>4 DEF LinkInv, EchoInv, Calls
<1>6. QED  BY <1>1, <1>2, <1>3, <1>5 DEF LinkInv

LEMMA SearchLinks ==
    ASSUME SearchInv, LinkInv,
           Search \/ (OnHit /\ hits' = hits) \/ ScanFinished \/ UNCHANGED scanVars
    PROVE  UNCHANGED D!vars /\ LinkInv'
<1>1. CASE Search
      <2>1. at \in ControlPoints /\ ret \in {"scan", "flood", "zone"}
            BY DEF SearchInv, PlaceInv
      <2>2. /\ UNCHANGED <<table, buf, hits, control, delayVars>>
            /\ at \notin Calls \cup Ended /\ at' \notin Calls
            BY <1>1, <2>1 DEF Search, Searching, Calls, Ended, Probe, ConfirmFirst, ScanBlock, EndOfZone,
                NextZone, FlushNext, BitsDone, NextBit, PassLiteral, ChainDone, FloodDetect, FloodDone,
                confirmVars
      <2>3. QED  BY <2>2, LinkStays
<1>2. CASE OnHit /\ hits' = hits
      <2>1. ConfirmType
            BY DEF SearchInv, Searches, ConfirmInv, FloodInv, RestsInv
      <2>2. \A h : hits' # Append(hits, h)
            <3>1. hits \in Seq(HitRecord) /\ Len(hits) \in Nat
                  BY <2>1 DEF ConfirmType
            <3>2. \A h : Len(Append(hits, h)) = Len(hits) + 1
                  BY <3>1
            <3>3. QED  BY <1>2, <3>1, <3>2
      <2>3. ~ReportLiteral
            BY <2>2 DEF ReportLiteral, CallBack
      <2>4. ReportFlood /\ UNCHANGED delayVars
            BY <1>2, <2>3 DEF OnHit
      <2>5. at' = at /\ UNCHANGED <<table, buf, control>>
            BY <2>2, <2>4 DEF ReportFlood
      <2>6. QED  BY <1>2, <2>4, <2>5, LinkStays
<1>3. CASE ScanFinished \/ UNCHANGED scanVars
      <2>1. UNCHANGED <<delayVars, table, buf, hits, control, at>>
            BY <1>3 DEF ScanFinished, scanVars, vars, confirmVars
      <2>2. QED  BY <2>1, LinkStays
<1>4. QED  BY <1>1, <1>2, <1>3

-----------------------------------------------------------------------------
(***************************************************************************)
(* The replays, and the answer that ends them.                             *)
(***************************************************************************)
LEMMA DoneLinks ==
    ASSUME LinkInv, EngineDone
    PROVE  D!EngineDone /\ LinkInv'
<1>1. /\ at \in Ended /\ UNCHANGED <<table, buf, at, control, hits>> /\ dat = "engine" /\ D!EngineDone
      /\ UNCHANGED <<db, engine>>
      BY DEF EngineDone, Ended, vars, confirmVars, D!EngineDone
<1>2. dat' = "done" \/ (dat' = "flush" /\ flush'.final)
      BY <1>1 DEF D!EngineDone
<1>3. "final" \in DOMAIN flush'
      BY <1>1 DEF LinkInv, D!EngineDone
<1>4. PhaseInv'
      BY <1>1, <1>2 DEF PhaseInv, Calls, Ended, Replaying
<1>5. LastHit' = LastHit /\ HitsAtEnd' = HitsAtEnd /\ StreamSquashed' = StreamSquashed
      BY <1>1 DEF LastHit, HitsAtEnd, StreamSquashed
<1>6. EchoInv'
      BY <1>1, <1>5 DEF LinkInv, EchoInv, Calls
<1>7. QED  BY <1>1, <1>3, <1>4, <1>6 DEF LinkInv

ReplaySteps ==
    \/ D!OpenSlot \/ D!ReplayNext \/ D!ReplayBadIndex \/ D!SlotDone \/ D!FlushDone
    \/ D!Interpret \/ D!ReturnContinue \/ D!ReturnTerminate \/ D!ReturnErr

\* A replay that goes on leaves the engine in its call.
LEMMA ReplayLinks ==
    ASSUME LinkInv, Replay, dat' # "engine"
    PROVE  D!Next /\ LinkInv'
<1>1. UNCHANGED <<table, buf, at, control, hits>> /\ ReplaySteps
      BY DEF Replay, vars, confirmVars, ReplaySteps
<1>2. "final" \in DOMAIN flush /\ "stopped" \in DOMAIN engine
      BY DEF LinkInv
<1>3. /\ dat \in Replaying \cup {"direct"}
      /\ db' = db /\ "final" \in DOMAIN flush' /\ flush'.final = flush.final /\ engine' = engine
      /\ \/ dat' \in Replaying
         \/ dat' = "direct" /\ (dat = "direct" \/ ~flush.final)
         \/ dat' = "done" /\ flush.final
      BY <1>1, <1>2, Replays DEF ReplaySteps
<1>4. PhaseInv'
      BY <1>1, <1>3 DEF LinkInv, PhaseInv, Calls, Ended, Replaying
<1>5. LastHit' = LastHit /\ HitsAtEnd' = HitsAtEnd /\ StreamSquashed' = StreamSquashed
      BY <1>1 DEF LastHit, HitsAtEnd, StreamSquashed
<1>6. EchoInv'
      BY <1>1, <1>3, <1>5 DEF LinkInv, EchoInv, Calls
<1>7. D!Next
      BY <1>1 DEF D!Next, ReplaySteps
<1>8. QED  BY <1>1, <1>3, <1>4, <1>6, <1>7 DEF LinkInv

\* What an answer leaves in the hits.
LEMMA AnswerTaken ==
    ASSUME ConfirmType, hits # <<>>, NEW reply \in Replies, NEW squash \in Squashed,
           Answered(reply, squash)
    PROVE  /\ hits' # <<>> /\ LastHit'.end = LastHit.end /\ LastHit'.id = LastHit.id
           /\ LastHit'.flood = LastHit.flood
           /\ LastHit'.reply = reply /\ LastHit'.squash = squash
           /\ {hits[i].id : i \in HitsAtEnd} \subseteq {hits'[i].id : i \in HitsAtEnd'}
           /\ StreamSquashed \subseteq StreamSquashed' \/ LastHit.squash # {}
           /\ squash \subseteq StreamSquashed'
<1>1. /\ hits' \in Seq(HitRecord) /\ Len(hits') = Len(hits) /\ DOMAIN hits' = DOMAIN hits
      /\ Len(hits) \in DOMAIN hits
      /\ \A i \in DOMAIN hits :
            /\ hits'[i].id = hits[i].id /\ hits'[i].end = hits[i].end
            /\ hits'[i].flood = hits[i].flood
            /\ hits'[i].squash = IF i = Len(hits) THEN squash ELSE hits[i].squash
      BY AnsweredHits
<1>2. hits' # <<>>
      BY <1>1
<1>3. LastHit'.reply = reply
      <2>1. hits[Len(hits)] \in HitRecord /\ hits \in Seq(HitRecord)
            BY <1>1 DEF ConfirmType
      <2>2. hits' = [hits EXCEPT ![Len(hits)] = [[@ EXCEPT !.reply = reply] EXCEPT !.squash = squash]]
            BY <2>1, Zenon DEF Answered
      <2>3. hits'[Len(hits)] = [[hits[Len(hits)] EXCEPT !.reply = reply] EXCEPT !.squash = squash]
            BY <1>1, <2>2
      <2>4. hits'[Len(hits)].reply = reply
            BY <2>1, <2>3 DEF HitRecord
      <2>5. QED  BY <1>1, <2>4 DEF LastHit
<1>4. /\ HitsAtEnd = {i \in DOMAIN hits : hits[i].end = hits[Len(hits)].end}
      /\ HitsAtEnd' = {i \in DOMAIN hits' : hits'[i].end = hits'[Len(hits')].end}
      BY <1>2 DEF HitsAtEnd, LastHit
<1>5. HitsAtEnd' = HitsAtEnd /\ Len(hits) \in HitsAtEnd' /\ \A i \in HitsAtEnd : i \in DOMAIN hits
      BY <1>1, <1>4
<1>6. {hits[i].id : i \in HitsAtEnd} \subseteq {hits'[i].id : i \in HitsAtEnd'}
      BY <1>1, <1>5
<1>7. squash \subseteq StreamSquashed'
      BY <1>1, <1>5 DEF StreamSquashed
<1>8. StreamSquashed \subseteq StreamSquashed' \/ LastHit.squash # {}
      BY AnswerStreams
<1>9. QED  BY <1>1, <1>2, <1>3, <1>6, <1>7, <1>8 DEF LastHit

\* An answer: what DelayScan squashed is what the confirm was told, and
\* nothing in a flood.
LEMMA AnswerLinks ==
    ASSUME SearchInv, LinkInv, Replay, dat' = "engine"
    PROVE  D!Next /\ LinkInv'
<1>1. ReplaySteps /\ TakeAnswer /\ UNCHANGED table
      BY DEF Replay, ReplaySteps
<1>2. /\ "final" \in DOMAIN flush
      /\ {"end", "lit", "flood", "used", "squashed", "stopped"} \subseteq DOMAIN engine
      /\ <<table, db>> \in Loaded
      BY DEF LinkInv
<1>3. /\ db' = db /\ "final" \in DOMAIN flush'
      /\ \/ engine' = [engine EXCEPT !.stopped = TRUE]
         \/ /\ engine' = [engine EXCEPT !.squashed = @ \cup D!SquashTaken]
            /\ dat = "direct" /\ vm.status = "Continue"
      <2>1. dat' \notin Replaying \cup {"direct", "done"}
            BY DEF Replaying
      <2>2. QED  BY <1>1, <1>2, <2>1, Replays DEF ReplaySteps
<1>4. /\ {"end", "lit", "flood", "used", "squashed", "stopped"} \subseteq DOMAIN engine'
      /\ engine'.end = engine.end /\ engine'.lit = engine.lit /\ engine'.flood = engine.flood
      /\ engine'.used = engine.used
      /\ \/ engine'.squashed = engine.squashed
         \/ /\ engine'.squashed = engine.squashed \cup D!SquashTaken
            /\ dat = "direct" /\ vm.status = "Continue"
      BY <1>2, <1>3
<1>5. PICK reply \in Replies, squash \in Squashed :
          /\ Answered(reply, squash) /\ control' = (reply = "Continue")
          /\ at \in Calls /\ at' \notin Calls \cup Ended
          /\ at = "callback" => LastHit'.squash = SquashGiven
          /\ LastHit'.reply = Reply
      <2>1. CASE AnswerLiteral /\ LastHit'.reply = Reply /\ LastHit'.squash = SquashGiven
            BY <2>1, SquashesTyped DEF AnswerLiteral, Calls, Ended
      <2>2. CASE AnswerFlood /\ LastHit'.reply = Reply
            <3>1. {} \in Squashed
                  BY DEF Squashed
            <3>2. QED  BY <2>2, <3>1 DEF AnswerFlood, Calls, Ended
      <2>3. QED  BY <1>1, <2>1, <2>2 DEF TakeAnswer
<1>6. ConfirmType /\ hits # <<>> /\ (at = "floodcallback" <=> LastHit.flood)
      BY <1>5 DEF SearchInv, Searches, ConfirmInv, FloodInv, RestsInv, LinkInv, EchoInv
<1>7. LastHit.squash = {}
      <2>1. CASE at = "callback"
            BY <2>1 DEF SearchInv, Searches, Flooding, ConfirmInv, WalkInv, InChain, Hit
      <2>2. CASE at = "floodcallback"
            BY <2>2 DEF SearchInv, Flooding, FloodInv, RunInv, Hit
      <2>3. QED  BY <1>5, <2>1, <2>2 DEF Calls
<1>8. /\ hits' # <<>> /\ LastHit'.end = LastHit.end /\ LastHit'.id = LastHit.id
      /\ LastHit'.flood = LastHit.flood
      /\ LastHit'.reply = reply /\ LastHit'.squash = squash
      /\ {hits[i].id : i \in HitsAtEnd} \subseteq {hits'[i].id : i \in HitsAtEnd'}
      /\ StreamSquashed \subseteq StreamSquashed' \/ LastHit.squash # {}
      /\ squash \subseteq StreamSquashed'
      BY <1>5, <1>6, AnswerTaken
<1>9. control' => ~engine'.stopped
      BY <1>5, <1>8 DEF Reply
<1>10. PhaseInv'
      BY <1>5, <1>9 DEF PhaseInv
<1>11. ASSUME LastHit.flood
       PROVE  engine'.squashed = {} /\ engine'.used \subseteq {hits'[i].id : i \in HitsAtEnd'}
       <2>1. /\ engine.flood /\ engine.squashed = {}
             /\ engine.used \subseteq {hits[i].id : i \in HitsAtEnd}
             BY <1>6, <1>11 DEF LinkInv, EchoInv
       <2>2. D!SquashTaken = {}
             BY <2>1 DEF D!SquashTaken
       <2>3. QED  BY <1>4, <1>8, <2>1, <2>2
<1>12. ASSUME ~LastHit.flood
       PROVE  engine'.squashed \subseteq StreamSquashed' /\ engine'.used \subseteq 1..LastHit'.id
       <2>1. /\ ~engine.flood /\ engine.squashed \subseteq StreamSquashed
             /\ engine.used \subseteq 1..LastHit.id
             BY <1>6, <1>12 DEF LinkInv, EchoInv
       <2>2. at = "callback"
             BY <1>5, <1>6, <1>12 DEF Calls
       <2>3. ASSUME dat = "direct", vm.status = "Continue"
             PROVE  D!SquashTaken \subseteq StreamSquashed'
             <3>1. D!SquashTaken = vm.squash
                   BY <2>1 DEF D!SquashTaken
             <3>2. SquashGiven = vm.squash
                   BY <2>3 DEF SquashGiven, D!ScanCtl
             <3>3. QED  BY <1>5, <1>8, <2>2, <3>1, <3>2
       <2>4. QED  BY <1>4, <1>7, <1>8, <2>1, <2>3
<1>13. EchoInv'
       BY <1>4, <1>5, <1>6, <1>8, <1>11, <1>12 DEF LinkInv, EchoInv
<1>14. D!Next
       BY <1>1 DEF D!Next, ReplaySteps
<1>15. QED  BY <1>1, <1>2, <1>3, <1>4, <1>10, <1>13, <1>14 DEF LinkInv

-----------------------------------------------------------------------------
LEMMA LinkStep ==
    SearchInv /\ LinkInv /\ [ScanNext]_scanVars => [D!Next]_D!vars /\ LinkInv'
<1> SUFFICES ASSUME SearchInv, LinkInv, [ScanNext]_scanVars
             PROVE  (D!Next \/ UNCHANGED D!vars) /\ LinkInv'
    OBVIOUS
<1>1. CASE OnHit /\ hits' # hits
      BY <1>1, HitLinks DEF D!Next
<1>2. CASE Search \/ (OnHit /\ hits' = hits) \/ ScanFinished \/ UNCHANGED scanVars
      BY <1>2, SearchLinks
<1>3. CASE EngineDone
      BY <1>3, DoneLinks DEF D!Next
<1>4. CASE Replay
      BY <1>4, ReplayLinks, AnswerLinks
<1>5. QED  BY <1>1, <1>2, <1>3, <1>4 DEF ScanNext

\* The scan with its real engine is a scan of DelayScan: every call of on_hit
\* that FDR makes, out of blocks, copied zones and floods, is one that the
\* engine assumed there may make, and every answer leaves the two in step.
THEOREM WholeIsADelayScan == ScanSpec => ImplementsDelayScan
<1>1. ScanInit => Init /\ D!Init /\ LinkInv
      BY ScanStarts
<1>2. QED  BY <1>1, SearchInit, SearchStep, WholeSearches, LinkStep, PTL
           DEF ScanSpec, ImplementsDelayScan, D!Spec

\* The answers that the programs give are answers that the engine was proved
\* for: in the whole scan, too, FDR finds what a naive search finds.
THEOREM WholeFinds == ScanSpec => []Found
<1>1. ScanInit => Init
      BY ScanStarts
<1>2. QED  BY <1>1, SearchInit, SearchStep, SearchFinds, WholeSearches, PTL DEF ScanSpec

=============================================================================
