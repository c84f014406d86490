--------------------------- MODULE NoodleScanProofs ---------------------------
(***************************************************************************)
(* Noodle looks only inside the buffer and finds what a naive search       *)
(* finds, for every literal, place of its keys, buffer and start.          *)
(***************************************************************************)
EXTENDS NoodleScan, TLAPS

\* The place of an end, and the ends that are behind the scan.
PlaceOf(end) == end + 1 - table.key_offset
Passed(end) == PlaceOf(end) < p

Occurring == {end \in Nat : Occurs(end)}
Behind == {end \in Nat : Passed(end)}

\* The scan stays between the first place and the end; what it reported are
\* the occurrences it has passed, and the one that is in the callback.
ScanInv ==
    /\ table \in Tables /\ Parsed(table) /\ buf \in Buffers /\ start \in Starts
    /\ at \in {"scan", "callback", "completed", "terminated"}
    /\ p \in Nat /\ p >= FirstPlace
    /\ hits \in Seq([end: Nat, reply: Replies \cup {"none"}])
    /\ at = "callback" =>
          /\ hits # <<>> /\ p < LastPlace
          /\ hits[Len(hits)].end = p + table.key_offset - 1
    /\ \A i \in DOMAIN hits : hits[i].end \in Occurring
    /\ \A i \in DOMAIN hits : hits[i].end \in Behind \/ (at = "callback" /\ i = Len(hits))
    /\ \A i, j \in DOMAIN hits : i < j => hits[i].end < hits[j].end
    /\ \A end \in 0..Len(buf)-1 : end \in Occurring \cap Behind =>
          \E i \in DOMAIN hits : hits[i].end = end
    /\ at = "completed" => p >= LastPlace \/ Saturating(Len(buf), start) < MskLen

LEMMA Shapes ==
    ASSUME table \in Tables, Parsed(table), buf \in Buffers, start \in Starts
    PROVE  /\ Len(buf) \in Nat /\ start \in Nat
           /\ MskLen \in 1..8 /\ table.key_offset \in 1..MskLen
           /\ table.single <=> table.key_offset = 1
           /\ table.single \in BOOLEAN
           /\ \A x \in 1..Len(buf) : buf[x] \in Nat
<1>1. buf \in Seq(Nat) /\ table \in TableInfo
      BY NoodleAssumption
<1>2. table.key_offset \in Nat /\ table.single \in BOOLEAN /\ table.lit \in Seq(SUBSET Nat)
      BY <1>1 DEF TableInfo
<1>3. table.key_offset <= Len(table.lit)
      BY KeyAssumption
<1>4. QED  BY <1>1, <1>2, <1>3, NoodleAssumption DEF Parsed, MskLen

\* The first and the last place, without the saturation.
LEMMA Places ==
    ASSUME table \in Tables, Parsed(table), buf \in Buffers, start \in Starts
    PROVE  /\ FirstPlace = start + MskLen - table.key_offset
           /\ FirstPlace \in Nat
           /\ LastPlace \in Nat
           /\ \A x \in Nat : x < LastPlace <=> x + table.key_offset <= Len(buf)
<1>1. /\ Len(buf) \in Nat /\ start \in Nat /\ MskLen \in Nat /\ table.key_offset \in Nat
      /\ table.key_offset <= MskLen
      BY Shapes
<1>2. FirstPlace = start + MskLen - table.key_offset
      BY <1>1 DEF FirstPlace, Saturating
<1>3. LastPlace = IF Len(buf) + 1 < table.key_offset THEN 0 ELSE Len(buf) + 1 - table.key_offset
      BY <1>1 DEF LastPlace, Saturating
<1>4. ASSUME NEW x \in Nat PROVE x < LastPlace <=> x + table.key_offset <= Len(buf)
      BY <1>1, <1>3
<1>5. FirstPlace \in Nat
      BY <1>1, <1>2
<1>6. LastPlace \in Nat
      BY <1>1, <1>3
<1>7. QED  BY <1>2, <1>4, <1>5, <1>6

-----------------------------------------------------------------------------
\* The keys of a place say what the literal says of it.
LEMMA SameCase ==
    ASSUME table \in Tables, NEW b, NEW c, b \in AnyCase(c, table.nocase),
           Folds \/ ~(table.nocase /\ c \in Letters)
    PROVE  CaseMask(b) = CaseMask(c)
<1>1. CASE table.nocase /\ c \in Letters
      <2>1. c \in Nat /\ Folds
            BY <1>1, NoodleAssumption
      <2>2. b \in {c - (c % 2), c - (c % 2) + 1}
            BY <1>1 DEF AnyCase
      <2>3. b - (b % 2) = c - (c % 2)
            BY <2>1, <2>2
      <2>4. QED  BY <2>1, <2>3 DEF CaseMask
<1>2. CASE ~(table.nocase /\ c \in Letters)
      BY <1>2 DEF AnyCase
<1>3. QED  BY <1>1, <1>2

LEMMA PlaceInLiteral ==
    ASSUME NEW end \in Nat, NEW m \in 1..8, NEW k \in 1..m
    PROVE  /\ m - k + 1 \in 1..m /\ end + 1 - m + (m - k + 1) = end + 1 - k + 1
           /\ k # 1 => m - k + 1 + 1 \in 1..m /\ end + 1 - m + (m - k + 1 + 1) = end + 1 - k + 2
OBVIOUS

LEMMA PassedStays ==
    ASSUME NEW end \in Nat, NEW k \in Nat, NEW q \in Nat, end + 1 - k < q
    PROVE  end + 1 - k < q + 1
OBVIOUS

LEMMA KeyOfOccurrence ==
    ASSUME table \in Tables, Parsed(table), buf \in Buffers, start \in Starts,
           NEW end \in 0..Len(buf)-1, Occurs(end)
    PROVE  KeyAt(PlaceOf(end)) /\ ConfirmedAt(PlaceOf(end))
<1> DEFINE first == MskLen - table.key_offset + 1
<1>0. end + 1 - table.key_offset = PlaceOf(end)
      BY DEF PlaceOf
<1>1. /\ Len(buf) \in Nat /\ start \in Nat /\ MskLen \in 1..8 /\ table.key_offset \in 1..MskLen
      /\ (table.single <=> table.key_offset = 1)
      BY Shapes
<1>2. first \in 1..MskLen /\ end + 1 - MskLen + first = PlaceOf(end) + 1
      <2>1. PICK m \in 1..8, k \in Nat : k \in 1..m /\ m = MskLen /\ k = table.key_offset
            BY <1>1
      <2>2. end \in Nat
            OBVIOUS
      <2>3. m - k + 1 \in 1..m /\ end + 1 - m + (m - k + 1) = end + 1 - k + 1
            BY <2>1, <2>2, PlaceInLiteral
      <2>4. first = m - k + 1
            BY <2>1
      <2> HIDE DEF first
      <2>5. PlaceOf(end) + 1 = end + 1 - k + 1
            BY <1>0, <2>1
      <2>6. end + 1 - MskLen + first = end + 1 - m + (m - k + 1)
            BY <2>1, <2>4
      <2>7. first \in 1..MskLen
            BY <2>1, <2>3, <2>4
      <2>8. QED  BY <2>3, <2>5, <2>6, <2>7
<1>3. buf[PlaceOf(end) + 1] \in table.lit[first]
      BY <1>2 DEF Occurs
<1>4. /\ table.lit[first] \subseteq AnyCase(table.key0, table.nocase)
      /\ ~table.single => table.lit[first + 1] \subseteq AnyCase(table.key1, table.nocase)
      BY KeyAssumption DEF MskLen
<1>5. CaseMask(buf[PlaceOf(end) + 1]) = CaseMask(table.key0)
      <2>1. buf[PlaceOf(end) + 1] \in AnyCase(table.key0, table.nocase)
            BY <1>3, <1>4
      <2>2. Folds \/ ~(table.nocase /\ table.key0 \in Letters)
            BY DEF Folds, FoldSingle
      <2>3. QED  BY <2>1, <2>2, SameCase
<1>6. ~table.single => CaseMask(buf[PlaceOf(end) + 2]) = CaseMask(table.key1)
      <2> SUFFICES ASSUME ~table.single PROVE CaseMask(buf[PlaceOf(end) + 2]) = CaseMask(table.key1)
          OBVIOUS
      <2>1. first + 1 \in 1..MskLen /\ end + 1 - MskLen + (first + 1) = PlaceOf(end) + 2
            <3>1. PICK m \in 1..8, k \in Nat : k \in 1..m /\ m = MskLen /\ k = table.key_offset
                  BY <1>1
            <3>2. end \in Nat /\ k # 1
                  BY <1>1, <3>1
            <3>3. m - k + 1 + 1 \in 1..m /\ end + 1 - m + (m - k + 1 + 1) = end + 1 - k + 2
                  BY <3>1, <3>2, PlaceInLiteral
            <3>4. first = m - k + 1
                  BY <3>1
            <3> HIDE DEF first
            <3>5. PlaceOf(end) + 2 = end + 1 - k + 2
                  BY <1>0, <3>1
            <3>6. end + 1 - MskLen + (first + 1) = end + 1 - m + (m - k + 1 + 1)
                  BY <3>1, <3>4
            <3>7. first + 1 \in 1..MskLen
                  BY <3>1, <3>3, <3>4
            <3>8. QED  BY <3>3, <3>5, <3>6, <3>7
      <2>2. buf[PlaceOf(end) + 2] \in table.lit[first + 1]
            BY <2>1 DEF Occurs
      <2>3. buf[PlaceOf(end) + 2] \in AnyCase(table.key1, table.nocase)
            BY <1>4, <2>2
      <2>4. Folds \/ ~(table.nocase /\ table.key1 \in Letters)
            BY DEF Folds
      <2>5. QED  BY <2>3, <2>4, SameCase
<1>7. KeyAt(PlaceOf(end))
      BY <1>5, <1>6 DEF KeyAt
<1>8. ConfirmedAt(PlaceOf(end))
      <2> DEFINE to == PlaceOf(end) + table.key_offset
      <2>1. to = end + 1
            BY <1>1 DEF PlaceOf
      <2> HIDE DEF to
      <2>2. end + 1 >= MskLen /\ end + 1 <= Len(buf)
            <3>1. end + 1 >= start + MskLen
                  BY DEF Occurs
            <3>2. end \in Nat /\ end <= Len(buf) - 1
                  BY <1>1
            <3>3. QED  BY <1>1, <3>1, <3>2
      <2>3. \A k \in 1..MskLen : buf[end + 1 - MskLen + k] \in table.lit[k]
            BY DEF Occurs
      <2>4. to >= MskLen /\ to <= Len(buf)
            BY <2>1, <2>2
      <2>5. ASSUME NEW k \in 1..MskLen PROVE buf[to - MskLen + k] \in table.lit[k]
            <3>1. to - MskLen + k = end + 1 - MskLen + k
                  BY <1>1, <2>1
            <3>2. buf[end + 1 - MskLen + k] \in table.lit[k]
                  BY <2>3
            <3>3. QED  BY <3>1, <3>2
      <2>6. QED  BY <2>4, <2>5 DEF ConfirmedAt, to
<1>9. QED  BY <1>7, <1>8

\* What is reported is an occurrence.
LEMMA ReportedOccurs ==
    ASSUME table \in Tables, Parsed(table), buf \in Buffers, start \in Starts,
           NEW x \in Nat, x >= FirstPlace, x < LastPlace, KeyAt(x), ConfirmedAt(x)
    PROVE  Occurs(x + table.key_offset - 1)
<1> DEFINE end == x + table.key_offset - 1
<1>1. /\ Len(buf) \in Nat /\ start \in Nat /\ MskLen \in 1..8 /\ table.key_offset \in 1..MskLen
      /\ (table.single <=> table.key_offset = 1)
      BY Shapes
<1>2. x >= start + MskLen - table.key_offset /\ x + table.key_offset <= Len(buf)
      BY Places
<1>3. end + 1 = x + table.key_offset /\ end + 1 >= start + MskLen
      BY <1>1, <1>2
<1>4. CASE table.single /\ MskLen = 1
      <2>1. CaseMask(buf[x + 1]) = CaseMask(table.key0) /\ x + 1 \in 1..Len(buf)
            BY <1>1, <1>2, <1>4 DEF KeyAt
      <2>2. table.lit[1] = AnyCase(table.key0, table.nocase)
            BY <1>1, <1>4, KeyAssumption DEF MskLen
      <2>3. table.key0 \in Nat /\ buf[x + 1] \in Nat /\ table.nocase \in BOOLEAN
            BY <2>1, Shapes, NoodleAssumption DEF TableInfo
      <2>4. buf[x + 1] \in AnyCase(table.key0, table.nocase)
            <3>1. CASE table.nocase /\ table.key0 \in Letters
                  <4>1. Folds
                        BY <3>1 DEF Folds, FoldSingle
                  <4>2. buf[x + 1] - (buf[x + 1] % 2) = table.key0 - (table.key0 % 2)
                        BY <2>1, <4>1 DEF CaseMask
                  <4>3. \A b, c \in Nat : b - (b % 2) = c - (c % 2) =>
                            b \in {c - (c % 2), c - (c % 2) + 1}
                        OBVIOUS
                  <4>4. QED  BY <2>3, <3>1, <4>2, <4>3 DEF AnyCase
            <3>2. CASE ~(table.nocase /\ table.key0 \in Letters)
                  <4>1. ~Folds
                        BY <1>4, <3>2 DEF Folds, FoldSingle
                  <4>2. buf[x + 1] = table.key0
                        BY <2>1, <4>1 DEF CaseMask
                  <4>3. QED  BY <3>2, <4>2 DEF AnyCase
            <3>3. QED  BY <3>1, <3>2
      <2>5. QED  BY <1>1, <1>3, <1>4, <2>2, <2>4 DEF Occurs
<1>5. CASE ~(table.single /\ MskLen = 1)
      <2>1. \A k \in 1..MskLen : buf[x + table.key_offset - MskLen + k] \in table.lit[k]
            BY <1>1, <1>5 DEF ConfirmedAt
      <2>2. \A k \in 1..MskLen : end + 1 - MskLen + k = x + table.key_offset - MskLen + k
            BY <1>1
      <2>3. QED  BY <1>3, <2>1, <2>2 DEF Occurs
<1>6. QED  BY <1>4, <1>5

-----------------------------------------------------------------------------
LEMMA ScanInit == Init => ScanInv
<1> SUFFICES ASSUME Init PROVE ScanInv
    OBVIOUS
<1>1. table \in Tables /\ Parsed(table) /\ buf \in Buffers /\ start \in Starts /\ p = FirstPlace
      BY DEF Init
<1>2. /\ Len(buf) \in Nat /\ start \in Nat /\ MskLen \in 1..8 /\ table.key_offset \in 1..MskLen
      /\ FirstPlace = start + MskLen - table.key_offset /\ FirstPlace \in Nat
      BY <1>1, Shapes, Places
<1>3. hits = <<>> /\ DOMAIN hits = {} /\ hits \in Seq([end: Nat, reply: Replies \cup {"none"}])
      BY DEF Init
<1>4. ASSUME NEW end \in 0..Len(buf)-1, Occurs(end) PROVE ~Passed(end)
      <2>1. end + 1 >= start + MskLen
            BY <1>4 DEF Occurs
      <2>2. end \in Nat /\ MskLen \in Nat /\ table.key_offset \in Nat
            BY <1>2
      <2>3. end + 1 - table.key_offset >= start + MskLen - table.key_offset
            BY <1>2, <2>1, <2>2
      <2>4. ~ (end + 1 - table.key_offset < p)
            BY <1>1, <1>2, <2>2, <2>3
      <2>5. QED  BY <2>4 DEF Passed, PlaceOf
<1>5. /\ at \in {"scan", "completed"}
      /\ at = "completed" => Saturating(Len(buf), start) < MskLen
      BY DEF Init
<1>6. QED  BY <1>1, <1>2, <1>3, <1>4, <1>5 DEF ScanInv, Occurring, Behind

\* A place that is passed leaves the ends before it, and adds its own.
LEMMA NextPlace ==
    ASSUME ScanInv, NEW end \in Nat, PlaceOf(end) < p + 1, ~Passed(end)
    PROVE  PlaceOf(end) = p /\ end = p + table.key_offset - 1
<1>1. p \in Nat /\ table.key_offset \in Nat
      <2>1. MskLen \in 1..8 /\ table.key_offset \in 1..MskLen /\ p \in Nat
            BY Shapes DEF ScanInv
      <2>2. QED  BY <2>1
<1>2. end + 1 - table.key_offset < p + 1 /\ ~ (end + 1 - table.key_offset < p)
      BY DEF Passed, PlaceOf
<1>3. end + 1 - table.key_offset = p /\ end = p + table.key_offset - 1
      BY <1>1, <1>2
<1>4. QED  BY <1>3 DEF PlaceOf

LEMMA ScanStep == ScanInv /\ [Next]_vars => ScanInv'
<1> SUFFICES ASSUME ScanInv, [Next]_vars PROVE ScanInv'
    OBVIOUS
<1> DEFINE HitSet == [end: Nat, reply: Replies \cup {"none"}]
<1>0. /\ table \in Tables /\ Parsed(table) /\ buf \in Buffers /\ start \in Starts
      /\ p \in Nat /\ p >= FirstPlace /\ hits \in Seq(HitSet)
      /\ Len(buf) \in Nat /\ start \in Nat /\ MskLen \in 1..8 /\ table.key_offset \in 1..MskLen
      /\ FirstPlace \in Nat /\ LastPlace \in Nat
      BY Shapes, Places DEF ScanInv
<1>1. CASE Pass
      <2>1. /\ at = "scan" /\ p < LastPlace /\ ~(KeyAt(p) /\ ConfirmedAt(p)) /\ p' = p + 1
            /\ UNCHANGED <<table, buf, start, at, hits>>
            BY <1>1 DEF Pass
      <2>2. ASSUME NEW end \in 0..Len(buf)-1, Occurs(end), PlaceOf(end) < p + 1
            PROVE  \E i \in DOMAIN hits : hits[i].end = end
            <3>1. CASE Passed(end)
                  BY <1>0, <2>2, <3>1 DEF ScanInv, Occurring, Behind
            <3>2. CASE ~Passed(end)
                  <4>1. KeyAt(PlaceOf(end)) /\ ConfirmedAt(PlaceOf(end))
                        BY <1>0, <2>2, KeyOfOccurrence
                  <4>2. PlaceOf(end) = p
                        BY <2>2, <3>2, NextPlace
                  <4>3. QED  BY <2>1, <4>1, <4>2
            <3>3. QED  BY <3>1, <3>2
      <2>3. ASSUME NEW i \in DOMAIN hits PROVE PlaceOf(hits[i].end) < p + 1
            <3>1. Passed(hits[i].end) /\ hits[i].end \in Nat
                  BY <2>1, <2>3 DEF ScanInv, Behind
            <3>2. table.key_offset \in Nat
                  BY <1>0
            <3>3. QED  BY <1>0, <3>1, <3>2, PassedStays DEF Passed, PlaceOf
      <2>4. Behind' = {e \in Nat : PlaceOf(e) < p + 1}
            BY <2>1 DEF Behind, Passed, PlaceOf
      <2>5. Occurring' = Occurring
            BY <2>1 DEF Occurring, Occurs, MskLen
      <2>6. p' \in Nat /\ p' >= FirstPlace' /\ LastPlace' = LastPlace /\ Parsed(table')
            BY <1>0, <2>1 DEF FirstPlace, LastPlace, MskLen
      <2>7. \A end \in 0..Len(buf)-1 : end \in Occurring' \cap Behind' =>
                \E i \in DOMAIN hits : hits[i].end = end
            BY <1>0, <2>2, <2>4, <2>5 DEF Occurring
      <2>8. \A i \in DOMAIN hits : hits[i].end \in Occurring' /\ hits[i].end \in Behind'
            BY <2>1, <2>3, <2>4, <2>5 DEF ScanInv, Occurring
      <2>9. QED  BY <1>0, <2>1, <2>6, <2>7, <2>8 DEF ScanInv
<1>2. CASE Report
      <2> DEFINE h == [end |-> p + table.key_offset - 1, reply |-> "none"]
      <2>1. /\ at = "scan" /\ p < LastPlace /\ KeyAt(p) /\ ConfirmedAt(p) /\ at' = "callback"
            /\ hits' = Append(hits, h)
            /\ UNCHANGED <<table, buf, start, p>>
            BY <1>2 DEF Report
      <2>2. h \in HitSet /\ h.end = p + table.key_offset - 1 /\ h.end \in Nat
            BY <1>0
      <2>3. Occurs(h.end)
            BY <1>0, <2>1, ReportedOccurs
      <2> HIDE DEF h, HitSet
      <2>4. /\ hits' \in Seq(HitSet) /\ Len(hits') = Len(hits) + 1 /\ Len(hits) \in Nat
            /\ DOMAIN hits = 1..Len(hits) /\ DOMAIN hits' = 1..Len(hits)+1
            /\ \A i \in 1..Len(hits) : hits'[i] = hits[i]
            /\ hits'[Len(hits) + 1] = h
            BY <1>0, <2>1, <2>2
      <2>5. ASSUME NEW i \in 1..Len(hits)
            PROVE  hits[i].end \in Occurring \cap Behind /\ hits[i].end < h.end
            <3>1. hits[i].end \in Occurring /\ hits[i].end \in Behind
                  BY <2>1, <2>4 DEF ScanInv
            <3>2. hits[i].end \in Nat
                  BY <3>1 DEF Occurring
            <3>3. hits[i].end + 1 - table.key_offset < p
                  BY <3>1 DEF Behind, Passed, PlaceOf
            <3>4. table.key_offset \in Nat
                  BY <1>0
            <3>5. hits[i].end < h.end
                  <4>1. \A a, b, c \in Nat : a + 1 - b < c => a < c + b - 1
                        OBVIOUS
                  <4>2. hits[i].end < p + table.key_offset - 1
                        BY <1>0, <3>2, <3>3, <3>4, <4>1, Zenon
                  <4>3. QED  BY <2>2, <4>2, Zenon
            <3>6. QED  BY <3>1, <3>5
      <2>6. /\ Behind' = Behind /\ Occurring' = Occurring
            /\ FirstPlace' = FirstPlace /\ LastPlace' = LastPlace
            BY <2>1 DEF Behind, Passed, PlaceOf, Occurring, Occurs, MskLen, FirstPlace, LastPlace
      <2>7. \A i \in DOMAIN hits' : hits'[i].end \in Occurring'
            BY <2>2, <2>3, <2>4, <2>5, <2>6 DEF Occurring
      <2>8. \A i \in DOMAIN hits' : hits'[i].end \in Behind' \/ (at' = "callback" /\ i = Len(hits'))
            BY <2>1, <2>4, <2>5, <2>6
      <2>9. \A i, j \in DOMAIN hits' : i < j => hits'[i].end < hits'[j].end
            <3>1. SUFFICES ASSUME NEW i \in 1..Len(hits)+1, NEW j \in 1..Len(hits)+1, i < j
                           PROVE  hits'[i].end < hits'[j].end
                  BY <2>4
            <3>2. i \in 1..Len(hits)
                  BY <2>4, <3>1
            <3>3. CASE j = Len(hits) + 1
                  BY <2>4, <2>5, <3>2, <3>3
            <3>4. CASE j \in 1..Len(hits)
                  BY <2>4, <3>1, <3>2, <3>4 DEF ScanInv
            <3>5. QED  BY <2>4, <3>3, <3>4
      <2>10. ASSUME NEW end \in 0..Len(buf)-1, end \in Occurring \cap Behind
             PROVE  \E i \in DOMAIN hits' : hits'[i].end = end
            <3>1. PICK i \in DOMAIN hits : hits[i].end = end
                  BY <2>10 DEF ScanInv
            <3>2. QED  BY <2>4, <3>1
      <2>11. hits' # <<>> /\ hits'[Len(hits')].end = p' + table'.key_offset - 1
            BY <2>1, <2>2, <2>4
      <2>12. QED  BY <1>0, <2>1, <2>4, <2>6, <2>7, <2>8, <2>9, <2>10, <2>11 DEF ScanInv, HitSet
<1>3. CASE Answer
      <2>1. /\ at = "callback" /\ at' \in {"scan", "terminated"} /\ p' = p + 1
            /\ UNCHANGED <<table, buf, start>>
            /\ \E reply \in Replies : hits' = [hits EXCEPT ![Len(hits)].reply = reply]
            BY <1>3 DEF Answer
      <2>2. /\ hits # <<>> /\ Len(hits) \in DOMAIN hits
            /\ hits[Len(hits)].end = p + table.key_offset - 1
            BY <1>0, <2>1 DEF ScanInv
      <2>3. /\ hits' \in Seq(HitSet) /\ DOMAIN hits' = DOMAIN hits
            /\ \A i \in DOMAIN hits : hits'[i].end = hits[i].end
            <3> DEFINE n == Len(hits)
            <3>1. PICK reply \in Replies : hits' = [hits EXCEPT ![n] = [hits[n] EXCEPT !.reply = reply]]
                  BY <2>1
            <3>2. n \in DOMAIN hits /\ hits[n] \in HitSet /\ DOMAIN hits = 1..n /\ n \in Nat
                  <4> HIDE DEF HitSet
                  <4>1. n \in DOMAIN hits
                        BY <2>2
                  <4>2. hits \in Seq(HitSet)
                        BY <1>0
                  <4>3. QED  BY <4>1, <4>2
            <3> DEFINE h == [hits[n] EXCEPT !.reply = reply]
            <3>3. h \in HitSet /\ h.end = hits[n].end
                  BY <3>2
            <3> HIDE DEF n, h, HitSet
            <3>4. hits' = [hits EXCEPT ![n] = h]
                  BY <3>1 DEF h
            <3>5. /\ DOMAIN hits' = DOMAIN hits
                  /\ \A i \in DOMAIN hits : hits'[i] = IF i = n THEN h ELSE hits[i]
                  BY <1>0, <3>2, <3>4
            <3>6. hits' \in Seq(HitSet)
                  BY <1>0, <3>2, <3>3, <3>4
            <3>7. QED  BY <3>3, <3>5, <3>6
      <2> HIDE DEF HitSet
      <2>4. ASSUME NEW end \in 0..Len(buf)-1, Occurs(end), PlaceOf(end) < p + 1
            PROVE  \E i \in DOMAIN hits : hits[i].end = end
            <3>1. CASE Passed(end)
                  BY <1>0, <2>4, <3>1 DEF ScanInv, Occurring, Behind
            <3>2. CASE ~Passed(end)
                  BY <1>0, <2>2, <2>4, <3>2, NextPlace
            <3>3. QED  BY <3>1, <3>2
      <2>5. ASSUME NEW i \in DOMAIN hits PROVE PlaceOf(hits[i].end) < p + 1
            <3>1. hits[i].end \in Nat
                  <4>1. hits[i] \in HitSet
                        BY <1>0, <2>5
                  <4>2. QED  BY <4>1 DEF HitSet
            <3>2. CASE hits[i].end \in Behind
                  BY <1>0, <3>1, <3>2 DEF Behind, Passed, PlaceOf
            <3>3. CASE i = Len(hits)
                  BY <1>0, <2>2, <3>3 DEF PlaceOf
            <3>4. QED  BY <2>5, <3>2, <3>3 DEF ScanInv
      <2>6. /\ Behind' = {e \in Nat : PlaceOf(e) < p + 1} /\ Occurring' = Occurring
            /\ FirstPlace' = FirstPlace /\ LastPlace' = LastPlace
            BY <2>1 DEF Behind, Passed, PlaceOf, Occurring, Occurs, MskLen, FirstPlace, LastPlace
      <2>7. p' \in Nat /\ p' >= FirstPlace'
            BY <1>0, <2>1, <2>6
      <2>8. \A i \in DOMAIN hits' : hits'[i].end \in Occurring' /\ hits'[i].end \in Behind'
            BY <2>3, <2>5, <2>6 DEF ScanInv, Occurring
      <2>9. \A i, j \in DOMAIN hits' : i < j => hits'[i].end < hits'[j].end
            BY <2>3 DEF ScanInv
      <2>10. \A end \in 0..Len(buf)-1 : end \in Occurring' \cap Behind' =>
                 \E i \in DOMAIN hits' : hits'[i].end = end
            BY <2>3, <2>4, <2>6 DEF Occurring
      <2>11. QED  BY <1>0, <2>1, <2>3, <2>7, <2>8, <2>9, <2>10 DEF ScanInv, HitSet
<1>4. CASE Complete
      <2>1. /\ at' = "completed" /\ p >= LastPlace /\ at = "scan"
            /\ UNCHANGED <<table, buf, start, p, hits>>
            BY <1>4 DEF Complete
      <2>2. /\ Behind' = Behind /\ Occurring' = Occurring
            /\ FirstPlace' = FirstPlace /\ LastPlace' = LastPlace
            BY <2>1 DEF Behind, Passed, PlaceOf, Occurring, Occurs, MskLen, FirstPlace, LastPlace
      <2>3. QED  BY <1>0, <2>1, <2>2 DEF ScanInv
<1>5. CASE Finished \/ UNCHANGED vars
      <2>1. UNCHANGED <<table, buf, start, at, p, hits>>
            BY <1>5 DEF Finished, vars
      <2>2. /\ Behind' = Behind /\ Occurring' = Occurring
            /\ FirstPlace' = FirstPlace /\ LastPlace' = LastPlace /\ MskLen' = MskLen
            BY <2>1 DEF Behind, Passed, PlaceOf, Occurring, Occurs, MskLen, FirstPlace, LastPlace
      <2>3. QED  BY <1>0, <2>1, <2>2 DEF ScanInv
<1>6. QED  BY <1>1, <1>2, <1>3, <1>4, <1>5 DEF Next

-----------------------------------------------------------------------------
\* The keys and the window of a confirm that the scan looks at lie inside the
\* buffer.
THEOREM LooksStayInside == Spec => []LooksInside
<1>1. ScanInv => LooksInside
      <2> SUFFICES ASSUME ScanInv, at = "scan", p < LastPlace
                   PROVE  /\ p + (IF table.single THEN 1 ELSE 2) <= Len(buf)
                          /\ p + table.key_offset \in MskLen..Len(buf)
          BY DEF LooksInside
      <2>1. /\ Len(buf) \in Nat /\ start \in Nat /\ MskLen \in 1..8 /\ table.key_offset \in 1..MskLen
            /\ (table.single <=> table.key_offset = 1) /\ p \in Nat
            /\ p >= start + MskLen - table.key_offset /\ p + table.key_offset <= Len(buf)
            BY Shapes, Places DEF ScanInv
      <2>2. QED  BY <2>1
<1>2. QED  BY <1>1, ScanInit, ScanStep, PTL DEF Spec

\* The ends reported are the ends of the literal's occurrences, in order, and
\* all of them if the scan is not stopped.
THEOREM FindsAllInOrder == Spec => []FoundInOrder
<1>1. ScanInv => FoundInOrder
      <2> SUFFICES ASSUME ScanInv PROVE FoundInOrder
          OBVIOUS
      <2>0. /\ Len(buf) \in Nat /\ start \in Nat /\ MskLen \in 1..8
            /\ table.key_offset \in 1..MskLen
            BY Shapes DEF ScanInv
      <2>1. /\ p \in Nat /\ LastPlace \in Nat
            /\ \A x \in Nat : x < LastPlace <=> x + table.key_offset <= Len(buf)
            BY Shapes, Places DEF ScanInv
      <2>2. ASSUME at = "completed", NEW end \in 0..Len(buf)-1, Occurs(end) PROVE Passed(end)
            <3>0. /\ end \in Nat /\ end <= Len(buf) - 1 /\ Len(buf) \in Nat /\ start \in Nat
                  /\ MskLen \in Nat /\ MskLen >= 1
                  /\ table.key_offset \in Nat /\ table.key_offset <= MskLen
                  BY <2>0
            <3>1. end + 1 >= start + MskLen
                  BY <2>2 DEF Occurs
            <3>2. ~(Saturating(Len(buf), start) < MskLen)
                  <4>1. ~(Len(buf) < start) /\ ~(Len(buf) - start < MskLen)
                        BY <3>0, <3>1
                  <4>2. QED  BY <4>1 DEF Saturating
            <3>3. p >= LastPlace
                  BY <2>2, <3>2 DEF ScanInv
            <3>4. PlaceOf(end) \in Nat /\ PlaceOf(end) + table.key_offset <= Len(buf)
                  BY <3>0, <3>1 DEF PlaceOf
            <3>5. PlaceOf(end) < LastPlace
                  BY <2>1, <3>4
            <3>6. PlaceOf(end) < p
                  <4> HIDE DEF PlaceOf
                  <4>1. QED  BY <2>1, <3>3, <3>4, <3>5
            <3>7. QED  BY <3>6 DEF Passed
      <2>3. QED  BY <2>2 DEF ScanInv, FoundInOrder, Occurring, Behind
<1>2. QED  BY <1>1, ScanInit, ScanStep, PTL DEF Spec
=============================================================================
