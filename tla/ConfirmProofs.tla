---------------------------- MODULE ConfirmProofs -----------------------------
(***************************************************************************)
(* What the steps of the confirm keep, whichever engine takes them: the    *)
(* candidates that wait are confirmed in the order of the buffer, every    *)
(* hit is an occurrence, and every occurrence is hit, waits, or is left    *)
(* out as a repeat or by a squash.                                         *)
(*                                                                         *)
(* An engine reads its candidates at offsets of its own: a leads from them *)
(* to the buffer.  It has looked at the buffer from s to f.                *)
(***************************************************************************)
EXTENDS Confirm, TLAPS

Buckets == DOMAIN table.chains
LitsOf(b) == table.chains[b]

Block == [base : Int, bits : SUBSET (Nat \X Buckets)]
Window == [0..CONF_BYTES-1 -> Nat] \cup {<<>>}
Squashed == SUBSET UNION Squashes
Walk == [byte : Nat, bucket : Nat, end : Nat, window : Window, n : Nat \ {0}, squash : Squashed]
HitRecord == [id : Nat, bucket : Buckets, n : Nat \ {0}, end : Nat, flood : BOOLEAN,
              reply : ScanCtl \cup {"none"}, squash : Squashed]

\* The chain of a bucket is being walked.
InChain == at \in {"chain", "callback"}

ConfirmType ==
    /\ table \in Tables /\ buf \in Buffers
    /\ cands \in Seq(Block) /\ word \in Block
    /\ chain \in Walk /\ control \in BOOLEAN
    /\ lastMatch \in Nat \cup {NoMatch}
    /\ hits \in Seq(HitRecord)
    /\ \A i \in DOMAIN hits : hits[i].n \in DOMAIN LitsOf(hits[i].bucket)
    /\ InChain => chain.bucket \in Buckets /\ chain.n \in 1..Len(Chain) + 1
    /\ at = "callback" => chain.n <= Len(Chain)
    /\ at \notin {"bits", "chain", "callback", "terminated"} => word.bits = {}

-----------------------------------------------------------------------------
(***************************************************************************)
(* The candidates that wait, as pairs of an end in the buffer and a        *)
(* bucket: in the block in confirm and in the blocks behind it.            *)
(***************************************************************************)
Places(w, a) == {<<w.base + b[1] + a, b[2]>> : b \in w.bits}
Ahead(a) == UNION {Places(cands[i], a) : i \in DOMAIN cands}
Pending(a) == Places(word, a) \cup Ahead(a)

\* A hit before a place of a chain, a flood at a lower end; a hit before the
\* whole chain of a candidate.
HitBeforeAt(h, end, b, n) == Before(h, end, b, n) /\ (h.flood => h.end < end)
HitBefore(h, x) == HitBeforeAt(h, x[1], x[2], 0)

InOrder(h, g) ==
    h.end < g.end \/ (h.end = g.end /\ h.flood = g.flood /\ (h.flood \/ h.bucket <= g.bucket))

OrderInv(a, s, f) ==
    /\ \A x \in Pending(a) : x[1] \in s..f-1
    /\ \A x \in Places(word, a), y \in Ahead(a) : x[1] < y[1]
    /\ \A i, j \in DOMAIN cands : i < j =>
          \A x \in Places(cands[i], a), y \in Places(cands[j], a) : x[1] < y[1]
    /\ \A i \in DOMAIN hits : hits[i].end < f
    /\ \A i \in DOMAIN hits, x \in Pending(a) : HitBefore(hits[i], x)
    /\ \A i, j \in DOMAIN hits : i < j => InOrder(hits[i], hits[j])

WalkInv(a, s, f) == InChain =>
    /\ chain.end = word.base + chain.byte + a /\ chain.end \in s..f-1
    /\ \A x \in Places(word, a) :
          chain.end < x[1] \/ (chain.end = x[1] /\ chain.bucket < x[2])
    /\ \A y \in Ahead(a) : chain.end < y[1]
    /\ \A i \in DOMAIN hits : (at = "chain" \/ i < Len(hits)) => HitBeforeAt(hits[i], chain.end, chain.bucket, chain.n)
    /\ at = "callback" =>
          hits # <<>> /\ control /\ LastHit = Hit(Literal.id, chain.bucket, chain.n, chain.end, FALSE)

\* What an answer squashed does not wait, but in the bucket that is walked.
SquashInv(a) ==
    /\ \A i \in DOMAIN hits, x \in Pending(a) :
          at # "terminated" /\ hits[i].end = x[1] /\ x[2] \in hits[i].squash =>
              InChain /\ chain.end = x[1] /\ x[2] \in chain.squash
    /\ InChain => \A i \in DOMAIN hits :
          hits[i].end = chain.end /\ chain.bucket \in hits[i].squash => hits[i].bucket = chain.bucket
    /\ InChain => \A b \in chain.squash : \E i \in DOMAIN hits :
          ~hits[i].flood /\ hits[i].end = chain.end /\ hits[i].bucket = chain.bucket /\ b \in hits[i].squash

LastInv ==
    lastMatch # NoMatch =>
        \E i \in DOMAIN hits :
            ~hits[i].flood /\ hits[i].id = lastMatch /\ \A j \in i+1..Len(hits) : hits[j].flood

\* The window that is compared is the buffer's.
WindowInv == InChain =>
    /\ chain.window \in [0..CONF_BYTES-1 -> Nat]
    /\ \A k \in 0..CONF_BYTES-1 :
          chain.window[k] = IF k <= chain.end THEN buf[chain.end - k + 1] ELSE 0

IsOccurrence(h) == h.id = LitsOf(h.bucket)[h.n].id /\ Occurs(LitsOf(h.bucket)[h.n], h.end)
OccurInv == \A i \in DOMAIN hits : hits[i].flood \/ IsOccurrence(hits[i])

-----------------------------------------------------------------------------
(***************************************************************************)
(* Nothing is lost.                                                        *)
(***************************************************************************)
Reported(l, end) == \E i \in DOMAIN hits : hits[i].id = l.id /\ hits[i].end = end

\* No hit will be put before this place any more.
Passed(a, end, b, n) ==
    /\ \A x \in Pending(a) : end < x[1] \/ (end = x[1] /\ b < x[2])
    /\ InChain => end < chain.end \/ (end = chain.end /\ (b < chain.bucket \/ (b = chain.bucket /\ n < chain.n)))

Waits(a, end, b, n) ==
    \/ <<end, b>> \in Pending(a)
    \/ InChain /\ chain.end = end /\ chain.bucket = b /\ chain.n <= n

Settled(a, l, end, b, n) ==
    \/ Reported(l, end)
    \/ LeftOutBySquash(end, b)
    \/ LeftOutAsRepeat(l, end, b, n) /\ Passed(a, end, b, n)

\* An occurrence behind s that the engine can report.
ToFind(l, s, end) == l.grouped /\ Occurs(l, end) /\ Len(l.lit) <= end - s + 1

FoundInv(a, s, g) == control =>
    \A b \in Buckets : \A n \in DOMAIN LitsOf(b) : \A l \in {LitsOf(b)[n]} :
    \A end \in s..g-1 :
        ToFind(l, s, end) => Waits(a, end, b, n) \/ Settled(a, l, end, b, n)

-----------------------------------------------------------------------------
(***************************************************************************)
(* The steps of a confirm, as both engines take them.                      *)
(***************************************************************************)
Rest == <<table, buf, cands, word, chain, control, lastMatch, hits>>

WindowOn(end) == [k \in 0..CONF_BYTES-1 |-> IF k <= end THEN buf[end - k + 1] ELSE 0]

TakeStep ==
    /\ at = "flush" /\ at' = "bits"
    /\ cands # <<>> /\ TakeCandidate
    /\ UNCHANGED <<table, buf, chain, control, lastMatch, hits>>

TakeBit(b) ==
    /\ at = "bits" /\ b \in word.bits /\ IsLowestBit(b)
    /\ word' = [word EXCEPT !.bits = @ \ {b}]
    /\ UNCHANGED <<table, buf, cands, control, lastMatch, hits>>

BitStep(a) == \E b \in word.bits :
    /\ TakeBit(b)
    /\ at' = "chain"
    /\ StartChain(b, word.base + b[1] + a, WindowOn(word.base + b[1] + a))

\* A bucket without a literal to report is passed over.
SkipStep == \E b \in word.bits :
    /\ TakeBit(b)
    /\ control => \A n \in DOMAIN LitsOf(b[2]) : ~LitsOf(b[2])[n].grouped
    /\ at' = "bits" /\ UNCHANGED chain

PassStep ==
    /\ at = "chain" /\ at' = "chain"
    /\ chain.n <= Len(Chain) /\ ~Confirmed(Literal)
    /\ chain' = [chain EXCEPT !.n = @ + 1]
    /\ UNCHANGED <<table, buf, cands, word, control, lastMatch, hits>>

ReportStep ==
    /\ at = "chain" /\ at' = "callback"
    /\ chain.n <= Len(Chain) /\ Confirmed(Literal)
    /\ CallBack(Literal)
    /\ UNCHANGED <<table, buf, cands, word, chain, control>>

AnswerStep ==
    /\ at = "callback"
    /\ \E reply \in Replies, squash \in Squashes :
          /\ Answered(reply, squash)
          /\ control' = (reply = "Continue")
          /\ chain' = [chain EXCEPT !.n = @ + 1, !.squash = @ \cup squash]
    /\ at' = "chain" \/ (at' = "terminated" /\ ~control')
    /\ UNCHANGED <<table, buf, cands, word, lastMatch>>

DoneStep ==
    /\ at = "chain" /\ at' = "bits"
    /\ chain.n > Len(Chain)
    /\ word' = [word EXCEPT !.bits = SquashedBits]
    /\ UNCHANGED <<table, buf, cands, chain, control, lastMatch, hits>>

\* What the engine does outside of the confirm.
RestStep ==
    /\ at \notin {"chain", "callback"} /\ at' \notin {"bits", "chain", "callback"}
    /\ at = "bits" => word.bits = {}
    /\ at = "terminated" => at' = "terminated"
    /\ UNCHANGED Rest

ConfirmStep(a) ==
    \/ TakeStep \/ BitStep(a) \/ SkipStep
    \/ PassStep \/ ReportStep \/ AnswerStep \/ DoneStep
    \/ RestStep

-----------------------------------------------------------------------------
LEMMA Tabled ==
    ASSUME ConfirmType
    PROVE  /\ Buckets \subseteq Nat
           /\ \A b \in Buckets : LitsOf(b) \in Seq(LitInfo)
           /\ buf \in Seq(Nat) /\ Len0 \in Nat \ {0}
BY ConfirmAssumption DEF ConfirmType, Buckets, LitsOf, Len0

LEMMA LitTyped ==
    ASSUME ConfirmType, NEW b \in Buckets, NEW n \in DOMAIN LitsOf(b)
    PROVE  /\ LitsOf(b)[n] \in LitInfo /\ n \in Nat \ {0}
           /\ LitsOf(b)[n].id \in Nat /\ LitsOf(b)[n].lit \in Seq(Nat)
<1>1. LitsOf(b) \in Seq(LitInfo)
      BY Tabled
<1>2. LitsOf(b)[n] \in LitInfo /\ n \in Nat \ {0}
      BY <1>1
<1>3. QED  BY <1>2 DEF LitInfo

\* The literal that the walk is at.
LEMMA WalkTyped ==
    ASSUME ConfirmType, InChain
    PROVE  /\ chain.bucket \in Buckets /\ Chain = LitsOf(chain.bucket)
           /\ Len(Chain) \in Nat /\ DOMAIN Chain = 1..Len(Chain)
           /\ chain.n \in Nat \ {0} /\ chain.end \in Nat /\ chain.byte \in Nat
           /\ chain.n <= Len(Chain) =>
                 /\ chain.n \in DOMAIN LitsOf(chain.bucket)
                 /\ Literal = LitsOf(chain.bucket)[chain.n]
                 /\ Literal.id \in Nat /\ Literal.lit \in Seq(Nat)
<1>1. /\ chain.bucket \in Buckets /\ Chain = LitsOf(chain.bucket)
      /\ chain \in Walk /\ Literal = Chain[chain.n]
      BY DEF ConfirmType, Chain, LitsOf, Literal
<1>2. chain.n \in Nat \ {0} /\ chain.end \in Nat /\ chain.byte \in Nat
      BY <1>1 DEF Walk
<1>3. LitsOf(chain.bucket) \in Seq(LitInfo)
      BY <1>1, Tabled
<1>4. Len(Chain) \in Nat /\ DOMAIN Chain = 1..Len(Chain)
      BY <1>1, <1>3
<1>5. ASSUME chain.n <= Len(Chain)
      PROVE  chain.n \in DOMAIN LitsOf(chain.bucket)
      BY <1>1, <1>2, <1>4, <1>5
<1>6. QED  BY <1>1, <1>2, <1>4, <1>5, LitTyped

LEMMA SquashesTyped == \A squash \in Squashes : squash \in Squashed
BY DEF Squashed

\* The fields of the hits behind an answer.
LEMMA AnsweredHits ==
    ASSUME ConfirmType, hits # <<>>,
           NEW reply \in Replies, NEW squash \in Squashed, Answered(reply, squash)
    PROVE  /\ hits' \in Seq(HitRecord) /\ Len(hits') = Len(hits) /\ DOMAIN hits' = DOMAIN hits
           /\ Len(hits) \in DOMAIN hits
           /\ \A i \in DOMAIN hits :
                 /\ hits'[i].id = hits[i].id /\ hits'[i].bucket = hits[i].bucket
                 /\ hits'[i].n = hits[i].n /\ hits'[i].end = hits[i].end
                 /\ hits'[i].flood = hits[i].flood
                 /\ hits'[i].squash = IF i = Len(hits) THEN squash ELSE hits[i].squash
<1> DEFINE e == Len(hits)
<1>1. hits \in Seq(HitRecord) /\ e \in Nat \ {0} /\ DOMAIN hits = 1..e
      BY DEF ConfirmType
<1>2. reply \in ScanCtl \cup {"none"} /\ squash \in Squashed
      BY ConfirmAssumption DEF Squashed
<1>3. hits' = [hits EXCEPT ![e] = [[@ EXCEPT !.reply = reply] EXCEPT !.squash = squash]]
      BY <1>1, Zenon DEF Answered
<1> DEFINE h == hits[e]
           k == [[h EXCEPT !.reply = reply] EXCEPT !.squash = squash]
<1>4. h \in HitRecord
      BY <1>1
<1>5. /\ k \in HitRecord
      /\ k.id = h.id /\ k.bucket = h.bucket /\ k.n = h.n /\ k.end = h.end /\ k.flood = h.flood
      /\ k.squash = squash
      BY <1>2, <1>4 DEF HitRecord
<1> HIDE DEF k
<1>6. hits' = [hits EXCEPT ![e] = k]
      BY <1>3 DEF k
<1>7. /\ hits' \in Seq(HitRecord) /\ Len(hits') = e /\ DOMAIN hits' = DOMAIN hits
      /\ hits'[e] = k /\ \A i \in DOMAIN hits : i # e => hits'[i] = hits[i]
      BY <1>1, <1>5, <1>6
<1>8. QED  BY <1>1, <1>5, <1>7

-----------------------------------------------------------------------------
(***************************************************************************)
(* How a step changes the candidates that wait.                            *)
(***************************************************************************)
LEMMA PlaceTyped ==
    ASSUME NEW w \in Block, NEW a \in Int, NEW x \in Places(w, a)
    PROVE  /\ x[1] \in Int /\ x[2] \in Buckets /\ x = <<x[1], x[2]>>
           /\ <<x[1] - w.base - a, x[2]>> \in w.bits
<1>1. PICK b \in w.bits : x = <<w.base + b[1] + a, b[2]>>
      BY DEF Places
<1>2. w.base \in Int /\ b \in Nat \X Buckets
      BY <1>1 DEF Block
<1>3. b[1] \in Nat /\ b[2] \in Buckets /\ b = <<b[1], b[2]>>
      BY <1>2
<1>4. x[1] = w.base + b[1] + a /\ x[2] = b[2] /\ x = <<x[1], x[2]>>
      BY <1>1
<1>5. x[1] \in Int /\ x[1] - w.base - a = b[1]
      BY <1>2, <1>3, <1>4
<1>6. QED  BY <1>1, <1>3, <1>4, <1>5

LEMMA AheadTyped ==
    ASSUME ConfirmType, NEW a \in Int, NEW x \in Pending(a)
    PROVE  x[1] \in Int /\ x[2] \in Buckets /\ x = <<x[1], x[2]>>
<1>1. word \in Block /\ \A i \in DOMAIN cands : cands[i] \in Block
      BY DEF ConfirmType
<1>2. CASE x \in Places(word, a)
      BY <1>1, <1>2, PlaceTyped
<1>3. CASE x \in Ahead(a)
      <2>1. PICK i \in DOMAIN cands : x \in Places(cands[i], a)
            BY <1>3 DEF Ahead
      <2>2. QED  BY <1>1, <2>1, PlaceTyped
<1>4. QED  BY <1>2, <1>3 DEF Pending

LEMMA PlacesSame ==
    ASSUME NEW a, UNCHANGED <<cands, word>>
    PROVE  /\ Places(word, a)' = Places(word, a) /\ Ahead(a)' = Ahead(a)
           /\ Pending(a)' = Pending(a)
BY DEF Places, Ahead, Pending

\* The next block goes into confirm: nothing else changes.
LEMMA TakePlaces ==
    ASSUME ConfirmType, TakeStep, NEW a \in Int
    PROVE  /\ Pending(a)' = Pending(a) /\ Pending(a) = Ahead(a)
           /\ cands' \in Seq(Block) /\ word' \in Block
           /\ Len(cands) \in Nat \ {0} /\ DOMAIN cands = 1..Len(cands)
           /\ DOMAIN cands' = 1..Len(cands) - 1
           /\ Places(word, a)' = Places(cands[1], a)
           /\ \A i \in DOMAIN cands' : i + 1 \in DOMAIN cands /\ cands'[i] = cands[i + 1]
<1>1. cands \in Seq(Block) /\ cands # <<>> /\ word' = Head(cands) /\ cands' = Tail(cands)
      BY DEF ConfirmType, TakeStep, TakeCandidate
<1>2. /\ word' = cands[1] /\ word' \in Block /\ cands' \in Seq(Block)
      /\ Len(cands) \in Nat \ {0} /\ DOMAIN cands = 1..Len(cands)
      /\ DOMAIN cands' = 1..Len(cands) - 1
      /\ \A i \in DOMAIN cands' : i + 1 \in DOMAIN cands /\ cands'[i] = cands[i + 1]
      BY <1>1
<1>3. word.bits = {}
      BY DEF ConfirmType, TakeStep
<1>4. Places(word, a) = {}
      BY <1>3 DEF Places
<1>5. Pending(a) = Ahead(a)
      BY <1>4 DEF Pending
<1>6. Places(word, a)' = Places(cands[1], a)
      BY <1>2 DEF Places
<1>7. Ahead(a)' = UNION {Places(cands'[i], a) : i \in DOMAIN cands'}
      BY DEF Ahead, Places
<1>8. ASSUME NEW i \in DOMAIN cands PROVE i = 1 \/ (i - 1 \in DOMAIN cands' /\ cands'[i - 1] = cands[i])
      BY <1>2
<1> DEFINE P(w) == Places(w, a)
<1>9. UNION {P(cands[i]) : i \in DOMAIN cands} = P(cands[1]) \cup UNION {P(cands'[i]) : i \in DOMAIN cands'}
      <2> HIDE DEF P
      <2>1. 1 \in DOMAIN cands
            BY <1>2
      <2>2. QED  BY <1>2, <1>8, <2>1
<1>10. Pending(a)' = Pending(a)
      BY <1>5, <1>6, <1>7, <1>9 DEF Pending, Ahead
<1>11. QED  BY <1>2, <1>5, <1>6, <1>10

\* A bit goes into confirm, the lowest of all that wait.
LEMMA BitPlaces ==
    ASSUME ConfirmType, NEW a \in Int, NEW b, TakeBit(b)
    PROVE  LET x == <<word.base + b[1] + a, b[2]>> IN
           /\ b[1] \in Nat /\ b[2] \in Buckets /\ word' \in Block /\ word'.base = word.base
           /\ x \in Places(word, a) /\ x \notin Places(word, a)'
           /\ Places(word, a) = Places(word, a)' \cup {x}
           /\ Ahead(a)' = Ahead(a)
           /\ \A y \in Places(word, a)' : x[1] < y[1] \/ (x[1] = y[1] /\ x[2] < y[2])
<1> DEFINE x == <<word.base + b[1] + a, b[2]>>
<1>1. word \in Block /\ b \in word.bits /\ word' = [word EXCEPT !.bits = @ \ {b}]
      BY DEF ConfirmType, TakeBit
<1>2. /\ word.base \in Int /\ word.bits \subseteq Nat \X Buckets
      /\ b[1] \in Nat /\ b[2] \in Buckets /\ b = <<b[1], b[2]>>
      BY <1>1 DEF Block
<1>3. word' \in Block /\ word'.base = word.base /\ word'.bits = word.bits \ {b}
      BY <1>1 DEF Block
<1>4. Ahead(a)' = Ahead(a)
      BY DEF Ahead, Places, TakeBit
<1>5. x \in Places(word, a)
      BY <1>1 DEF Places
<1>6. Places(word, a) = {<<word.base + c[1] + a, c[2]>> : c \in word.bits}
      BY DEF Places
<1>7. Places(word, a)' = {<<word.base + c[1] + a, c[2]>> : c \in word.bits \ {b}}
      BY <1>3 DEF Places
<1>8. Places(word, a) = Places(word, a)' \cup {x}
      BY <1>1, <1>6, <1>7
<1>9. ASSUME NEW y \in Places(word, a)'
      PROVE  x[1] < y[1] \/ (x[1] = y[1] /\ x[2] < y[2])
      <2>1. PICK c \in word.bits \ {b} : y = <<word.base + c[1] + a, c[2]>>
            BY <1>7
      <2>2. c[1] \in Nat /\ c[2] \in Buckets /\ c = <<c[1], c[2]>>
            BY <1>2
      <2>3. b[1] < c[1] \/ (b[1] = c[1] /\ b[2] <= c[2])
            BY DEF TakeBit, IsLowestBit
      <2>4. b[2] \in Nat /\ c[2] \in Nat
            BY <1>2, <2>2, Tabled
      <2>5. b[1] # c[1] \/ b[2] # c[2]
            BY <1>2, <2>2, <2>1
      <2>6. QED  BY <1>2, <2>1, <2>2, <2>3, <2>4, <2>5
<1>10. x \notin Places(word, a)'
      <2>1. x[1] \in Int /\ x[2] \in Nat
            BY <1>2, Tabled
      <2>2. QED  BY <1>9, <2>1
<1>11. QED  BY <1>2, <1>3, <1>4, <1>5, <1>8, <1>9, <1>10

\* The walk is over: the bits that were squashed go.
LEMMA DonePlaces ==
    ASSUME ConfirmType, DoneStep, NEW a \in Int,
           chain.end = word.base + chain.byte + a
    PROVE  /\ word' \in Block /\ word'.base = word.base
           /\ Places(word, a)' = {x \in Places(word, a) : ~(x[1] = chain.end /\ x[2] \in chain.squash)}
           /\ Ahead(a)' = Ahead(a)
<1>1. /\ word \in Block
      /\ word' = [word EXCEPT !.bits = SquashedBits] /\ chain.byte \in Nat
      BY DEF ConfirmType, DoneStep, Walk
<1>2. word.base \in Int /\ word.bits \subseteq Nat \X Buckets
      BY <1>1 DEF Block
<1>3. SquashedBits \subseteq word.bits
      BY DEF SquashedBits
<1>4. word' \in Block /\ word'.base = word.base /\ word'.bits = SquashedBits
      BY <1>1, <1>3 DEF Block
<1>5. Ahead(a)' = Ahead(a)
      BY DEF Ahead, Places, DoneStep
<1> DEFINE at0(b) == <<word.base + b[1] + a, b[2]>>
           Gone(x) == x[1] = chain.end /\ x[2] \in chain.squash
<1>6. ASSUME NEW b \in word.bits
      PROVE  Gone(at0(b)) <=> (b[1] = chain.byte /\ b[2] \in chain.squash)
      <2>1. b[1] \in Nat
            BY <1>2
      <2>2. word.base + b[1] + a = word.base + chain.byte + a <=> b[1] = chain.byte
            BY <1>1, <1>2, <2>1
      <2>3. QED  BY <2>2
<1>7. Places(word, a) = {at0(b) : b \in word.bits}
      BY DEF Places
<1>8. Places(word, a)' = {at0(b) : b \in SquashedBits}
      BY <1>4 DEF Places
<1>9. SquashedBits = {b \in word.bits : ~Gone(at0(b))}
      BY <1>6 DEF SquashedBits
<1>10. Places(word, a)' = {x \in Places(word, a) : ~Gone(x)}
      <2> HIDE DEF at0, Gone
      <2>1. QED  BY <1>7, <1>8, <1>9
<1>11. QED  BY <1>4, <1>5, <1>10

-----------------------------------------------------------------------------
\* A new walk starts at the lowest candidate.
LEMMA NewWalk ==
    ASSUME ConfirmType, NEW a \in Int, NEW s \in Nat, NEW f \in 0..Len0, OrderInv(a, s, f),
           NEW b, TakeBit(b), StartChain(b, word.base + b[1] + a, WindowOn(word.base + b[1] + a))
    PROVE  LET end == word.base + b[1] + a IN
           /\ end \in s..f-1 /\ end \in Nat
           /\ chain'.byte = b[1] /\ chain'.bucket = b[2] /\ chain'.end = end /\ chain'.n = 1
           /\ chain'.squash = {} /\ chain'.window = WindowOn(end)
           /\ WindowOn(end) \in [0..CONF_BYTES-1 -> Nat]
           /\ chain' \in Walk
<1> DEFINE end == word.base + b[1] + a
           x == <<end, b[2]>>
<1>1. x \in Places(word, a) /\ b[1] \in Nat /\ b[2] \in Buckets
      BY BitPlaces
<1>2. x[1] \in s..f-1
      BY <1>1 DEF OrderInv, Pending
<1>3. end \in s..f-1 /\ end \in 0..Len0-1
      BY <1>2, Tabled
<1> HIDE DEF end
<1>4. WindowOn(end) \in [0..CONF_BYTES-1 -> Nat]
      <2>1. ASSUME NEW k \in 0..CONF_BYTES-1, k <= end
            PROVE  buf[end - k + 1] \in Nat
            <3>1. buf \in Seq(Nat) /\ Len(buf) \in Nat /\ CONF_BYTES \in Nat /\ end \in 0..Len(buf)-1
                  BY <1>3, Tabled, ConfirmAssumption DEF Len0
            <3>2. end - k + 1 \in 1..Len(buf)
                  BY <2>1, <3>1
            <3>3. QED  BY <3>1, <3>2
      <2>2. QED  BY <2>1 DEF WindowOn
<1>5. chain' = [NoChain EXCEPT !.byte = b[1], !.bucket = b[2], !.end = end, !.window = WindowOn(end)]
      BY DEF StartChain, end
<1> DEFINE w == WindowOn(end)
<1> HIDE DEF w
<1>6. chain' = [byte |-> b[1], bucket |-> b[2], end |-> end, window |-> w, n |-> 1, squash |-> {}]
      BY <1>5 DEF NoChain, w
<1>7. {} \in Squashed /\ w \in Window
      BY <1>4 DEF Squashed, Window, w
<1>8. chain' \in Walk
      <2>1. b[2] \in Nat /\ end \in Nat
            BY <1>1, <1>3, Tabled
      <2>2. QED  BY <1>1, <1>6, <1>7, <2>1 DEF Walk
<1>9. QED  BY <1>3, <1>4, <1>6, <1>8 DEF end, w

LEMMA TypeStep ==
    ASSUME ConfirmType, NEW a \in Int, NEW s \in Nat, NEW f \in 0..Len0, OrderInv(a, s, f),
           at = "callback" => hits # <<>>, ConfirmStep(a)
    PROVE  ConfirmType'
<1>1. CASE TakeStep
      <2>1. cands' \in Seq(Block) /\ word' \in Block
            BY <1>1, TakePlaces
      <2>2. UNCHANGED <<table, buf, chain, control, lastMatch, hits>> /\ at' = "bits"
            BY <1>1 DEF TakeStep
      <2>3. QED  BY <2>1, <2>2 DEF ConfirmType, InChain, Block, Buckets, HitRecord, LitsOf
<1>2. CASE BitStep(a)
      <2>1. PICK b \in word.bits :
               /\ TakeBit(b) /\ at' = "chain"
               /\ StartChain(b, word.base + b[1] + a, WindowOn(word.base + b[1] + a))
            BY <1>2 DEF BitStep
      <2>2. UNCHANGED <<table, buf, cands, control, lastMatch, hits>>
            BY <2>1 DEF TakeBit
      <2>3. word' \in Block /\ b[2] \in Buckets
            BY <2>1, BitPlaces
      <2>4. chain' \in Walk /\ chain'.bucket = b[2] /\ chain'.n = 1
            BY <2>1, NewWalk
      <2>5. 1 \in 1..Len(LitsOf(b[2])) + 1
            BY <2>3, Tabled
      <2>6. Chain' = LitsOf(b[2])
            BY <2>2, <2>4 DEF Chain, LitsOf
      <2>7. QED  BY <2>1, <2>2, <2>3, <2>4, <2>5, <2>6 DEF ConfirmType, InChain, Block, Buckets, HitRecord, LitsOf
<1>3. CASE SkipStep
      <2>1. PICK b \in word.bits : TakeBit(b) /\ at' = "bits" /\ UNCHANGED chain
            BY <1>3 DEF SkipStep
      <2>2. UNCHANGED <<table, buf, cands, control, lastMatch, hits>>
            BY <2>1 DEF TakeBit
      <2>3. word' \in Block
            BY <2>1, BitPlaces
      <2>4. QED  BY <2>1, <2>2, <2>3 DEF ConfirmType, InChain, Block, Buckets, HitRecord, LitsOf
<1>4. CASE PassStep
      <2>1. /\ UNCHANGED <<table, buf, cands, word, control, lastMatch, hits>>
            /\ chain' = [chain EXCEPT !.n = @ + 1] /\ chain.n <= Len(Chain)
            /\ at = "chain" /\ at' = "chain" /\ InChain
            BY <1>4 DEF PassStep, InChain
      <2>2. chain \in Walk /\ Len(Chain) \in Nat /\ chain.n \in Nat \ {0}
            BY <2>1, WalkTyped DEF ConfirmType
      <2>3. chain' \in Walk /\ chain'.bucket = chain.bucket /\ chain'.n = chain.n + 1
            BY <2>1, <2>2 DEF Walk
      <2>4. Chain' = Chain
            BY <2>1, <2>3 DEF Chain
      <2>5. chain'.n \in 1..Len(Chain) + 1
            BY <2>1, <2>2, <2>3
      <2>6. QED  BY <2>1, <2>3, <2>4, <2>5 DEF ConfirmType, InChain, Block, Buckets, HitRecord, LitsOf
<1>5. CASE ReportStep
      <2>1. /\ UNCHANGED <<table, buf, cands, word, chain, control>>
            /\ chain.n <= Len(Chain) /\ at = "chain" /\ at' = "callback" /\ InChain
            /\ lastMatch' = Literal.id
            /\ hits' = Append(hits, Hit(Literal.id, chain.bucket, chain.n, chain.end, FALSE))
            BY <1>5 DEF ReportStep, InChain, CallBack
      <2> DEFINE h == Hit(Literal.id, chain.bucket, chain.n, chain.end, FALSE)
      <2>2. /\ chain.bucket \in Buckets /\ chain.n \in Nat \ {0} /\ chain.end \in Nat
            /\ Literal.id \in Nat /\ chain.n \in DOMAIN LitsOf(chain.bucket)
            BY <2>1, WalkTyped
      <2>3. h \in HitRecord /\ h.bucket = chain.bucket /\ h.n = chain.n
            BY <2>2 DEF Hit, HitRecord, Squashed
      <2>4. hits \in Seq(HitRecord)
            BY DEF ConfirmType
      <2> HIDE DEF h
      <2>5. /\ hits' \in Seq(HitRecord)
            /\ \A i \in DOMAIN hits' : (i \in DOMAIN hits /\ hits'[i] = hits[i]) \/ hits'[i] = h
            <3>1. hits' = Append(hits, h)
                  BY <2>1 DEF h
            <3>2. QED  BY <2>3, <2>4, <3>1
      <2>6. \A i \in DOMAIN hits' : hits'[i].n \in DOMAIN LitsOf(hits'[i].bucket)
            BY <2>2, <2>3, <2>5 DEF ConfirmType
      <2>7. Chain' = Chain
            BY <2>1 DEF Chain
      <2>8. QED  BY <2>1, <2>2, <2>5, <2>6, <2>7 DEF ConfirmType, InChain, Block, Buckets, HitRecord, LitsOf
<1>6. CASE AnswerStep
      <2>1. PICK reply \in Replies, squash \in Squashes :
               /\ Answered(reply, squash)
               /\ control' = (reply = "Continue")
               /\ chain' = [chain EXCEPT !.n = @ + 1, !.squash = @ \cup squash]
            BY <1>6 DEF AnswerStep
      <2>2. UNCHANGED <<table, buf, cands, word, lastMatch>> /\ at = "callback" /\ at' \in {"chain", "terminated"} /\ InChain
            BY <1>6 DEF AnswerStep, InChain
      <2>3. /\ hits' \in Seq(HitRecord) /\ DOMAIN hits' = DOMAIN hits
            /\ \A i \in DOMAIN hits : hits'[i].bucket = hits[i].bucket /\ hits'[i].n = hits[i].n
            BY <2>1, <2>2, AnsweredHits, SquashesTyped
      <2>4. chain \in Walk /\ Len(Chain) \in Nat /\ chain.n \in Nat \ {0} /\ chain.n <= Len(Chain)
            BY <2>2, WalkTyped DEF ConfirmType
      <2>5. chain' \in Walk /\ chain'.bucket = chain.bucket /\ chain'.n = chain.n + 1
            <3>1. chain.squash \cup squash \in Squashed
                  BY <2>4 DEF Walk, Squashed
            <3>2. chain.n + 1 \in Nat \ {0}
                  BY <2>4
            <3>3. QED  BY <2>1, <2>4, <3>1, <3>2 DEF Walk
      <2>6. Chain' = Chain
            BY <2>2, <2>5 DEF Chain
      <2>7. chain'.n \in 1..Len(Chain) + 1
            BY <2>4, <2>5
      <2>8. control' \in BOOLEAN
            BY <2>1
      <2>9. QED  BY <2>2, <2>3, <2>5, <2>6, <2>7, <2>8 DEF ConfirmType, InChain, Block, Buckets, HitRecord, LitsOf
<1>7. CASE DoneStep
      <2>1. UNCHANGED <<table, buf, cands, chain, control, lastMatch, hits>> /\ at' = "bits"
            BY <1>7 DEF DoneStep
      <2>2. word' \in Block
            <3>1. word \in Block /\ word' = [word EXCEPT !.bits = SquashedBits] /\ SquashedBits \subseteq word.bits
                  BY <1>7 DEF DoneStep, ConfirmType, SquashedBits
            <3>2. QED  BY <3>1 DEF Block
      <2>3. QED  BY <2>1, <2>2 DEF ConfirmType, InChain, Block, Buckets, HitRecord, LitsOf
<1>8. CASE RestStep
      BY <1>8 DEF RestStep, Rest, ConfirmType, InChain, Block, Buckets, HitRecord, LitsOf
<1>9. QED
      BY <1>1, <1>2, <1>3, <1>4, <1>5, <1>6, <1>7, <1>8 DEF ConfirmStep

-----------------------------------------------------------------------------
(***************************************************************************)
(* The hits come in the order of the buffer, before all that waits.        *)
(***************************************************************************)
LEMMA HitTyped ==
    ASSUME ConfirmType, NEW i \in DOMAIN hits
    PROVE  /\ hits[i] \in HitRecord /\ hits[i].id \in Nat
           /\ hits[i].bucket \in Buckets /\ hits[i].bucket \in Nat
           /\ hits[i].n \in Nat \ {0} /\ hits[i].end \in Nat /\ hits[i].flood \in BOOLEAN
           /\ i \in Nat \ {0} /\ i <= Len(hits) /\ Len(hits) \in Nat
<1>1. hits \in Seq(HitRecord)
      BY DEF ConfirmType
<1>2. hits[i] \in HitRecord /\ i \in Nat \ {0} /\ i <= Len(hits) /\ Len(hits) \in Nat
      BY <1>1
<1>3. QED  BY <1>2, Tabled DEF HitRecord

\* A step that leaves the hits and adds no candidate keeps their order.
LEMMA FewerOrder ==
    ASSUME NEW a, NEW s, NEW f, OrderInv(a, s, f),
           UNCHANGED <<cands, hits>>, Places(word, a)' \subseteq Places(word, a)
    PROVE  OrderInv(a, s, f)'
<1>1. Ahead(a)' = Ahead(a)
      BY DEF Ahead, Places
<1>2. Pending(a)' \subseteq Pending(a)
      BY <1>1 DEF Pending
<1>3. \A i \in DOMAIN cands : Places(cands'[i], a) = Places(cands[i], a)
      OBVIOUS
<1>4. QED  BY <1>1, <1>2, <1>3 DEF OrderInv

\* The hit of a report, behind all others.
LEMMA ReportHits ==
    ASSUME ConfirmType, ReportStep
    PROVE  LET h == Hit(Literal.id, chain.bucket, chain.n, chain.end, FALSE) IN
           /\ hits' = Append(hits, h) /\ h \in HitRecord
           /\ Len(hits') = Len(hits) + 1 /\ Len(hits) \in Nat
           /\ DOMAIN hits = 1..Len(hits) /\ DOMAIN hits' = 1..Len(hits) + 1
           /\ LastHit' = h /\ hits'[Len(hits) + 1] = h
           /\ \A i \in DOMAIN hits : i \in DOMAIN hits' /\ hits'[i] = hits[i]
           /\ h.id = Literal.id /\ h.bucket = chain.bucket /\ h.n = chain.n
           /\ h.end = chain.end /\ h.flood = FALSE /\ h.squash = {}
<1> DEFINE h == Hit(Literal.id, chain.bucket, chain.n, chain.end, FALSE)
<1>1. /\ chain.bucket \in Buckets /\ chain.n \in Nat \ {0} /\ chain.end \in Nat
      /\ Literal.id \in Nat
      BY WalkTyped DEF ReportStep, InChain
<1>2. /\ h \in HitRecord /\ h.id = Literal.id /\ h.bucket = chain.bucket /\ h.n = chain.n
      /\ h.end = chain.end /\ h.flood = FALSE /\ h.squash = {}
      BY <1>1 DEF Hit, HitRecord, Squashed
<1>3. hits \in Seq(HitRecord) /\ hits' = Append(hits, h)
      BY DEF ConfirmType, ReportStep, CallBack
<1> HIDE DEF h
<1>4. /\ Len(hits') = Len(hits) + 1 /\ Len(hits) \in Nat
      /\ DOMAIN hits = 1..Len(hits) /\ DOMAIN hits' = 1..Len(hits) + 1
      /\ hits'[Len(hits) + 1] = h
      /\ \A i \in DOMAIN hits : i \in DOMAIN hits' /\ hits'[i] = hits[i]
      BY <1>2, <1>3
<1>5. LastHit' = h
      BY <1>4 DEF LastHit
<1>6. QED  BY <1>2, <1>3, <1>4, <1>5 DEF h

LEMMA OrderStep ==
    ASSUME ConfirmType, NEW a \in Int, NEW s \in Nat, NEW f \in 0..Len0,
           OrderInv(a, s, f), WalkInv(a, s, f), ConfirmStep(a)
    PROVE  OrderInv(a, s, f)'
<1>1. CASE TakeStep
      <2>1. /\ Pending(a)' = Pending(a) /\ Pending(a) = Ahead(a)
            /\ Len(cands) \in Nat \ {0} /\ DOMAIN cands = 1..Len(cands)
            /\ DOMAIN cands' = 1..Len(cands) - 1
            /\ Places(word, a)' = Places(cands[1], a)
            /\ \A i \in DOMAIN cands' : i + 1 \in DOMAIN cands /\ cands'[i] = cands[i + 1]
            /\ hits' = hits
            BY <1>1, TakePlaces DEF TakeStep
      <2>2. Ahead(a)' = UNION {Places(cands'[i], a) : i \in DOMAIN cands'}
            BY DEF Ahead, Places
      <2>3. ASSUME NEW x \in Places(cands[1], a), NEW y \in Ahead(a)'
            PROVE  x[1] < y[1]
            <3>1. PICK i \in DOMAIN cands' : y \in Places(cands'[i], a)
                  BY <2>2
            <3>2. 1 \in DOMAIN cands /\ i + 1 \in DOMAIN cands /\ 1 < i + 1 /\ y \in Places(cands[i + 1], a)
                  BY <2>1, <3>1
            <3>3. QED  BY <3>2 DEF OrderInv
      <2>4. ASSUME NEW i \in DOMAIN cands', NEW j \in DOMAIN cands', i < j,
                   NEW x \in Places(cands'[i], a), NEW y \in Places(cands'[j], a)
            PROVE  x[1] < y[1]
            <3>1. /\ i + 1 \in DOMAIN cands /\ j + 1 \in DOMAIN cands /\ i + 1 < j + 1
                  /\ x \in Places(cands[i + 1], a) /\ y \in Places(cands[j + 1], a)
                  BY <2>1, <2>4
            <3>2. QED  BY <3>1 DEF OrderInv
      <2>5. \A w : Places(w, a)' = Places(w', a)
            BY DEF Places
      <2>6. QED  BY <2>1, <2>3, <2>4 DEF OrderInv
<1>2. CASE BitStep(a) \/ SkipStep
      <2>1. PICK b : TakeBit(b)
            BY <1>2 DEF BitStep, SkipStep
      <2>2. UNCHANGED <<cands, hits>>
            BY <2>1 DEF TakeBit
      <2>3. Places(word, a)' \subseteq Places(word, a)
            BY <2>1, BitPlaces
      <2>4. QED  BY <2>2, <2>3, FewerOrder
<1>3. CASE PassStep \/ RestStep
      <2>1. UNCHANGED <<cands, word, hits>>
            BY <1>3 DEF PassStep, RestStep, Rest
      <2>2. QED  BY <2>1, PlacesSame, FewerOrder
<1>4. CASE ReportStep
      <2> DEFINE h == Hit(Literal.id, chain.bucket, chain.n, chain.end, FALSE)
      <2>1. /\ InChain /\ at = "chain" /\ UNCHANGED <<cands, word>>
            BY <1>4 DEF ReportStep, InChain
      <2>2. /\ Len(hits) \in Nat /\ DOMAIN hits = 1..Len(hits) /\ DOMAIN hits' = 1..Len(hits) + 1
            /\ hits'[Len(hits) + 1] = h
            /\ \A i \in DOMAIN hits : i \in DOMAIN hits' /\ hits'[i] = hits[i]
            /\ h.bucket = chain.bucket /\ h.end = chain.end /\ h.flood = FALSE
            BY <1>4, ReportHits
      <2> HIDE DEF h
      <2>3. Pending(a)' = Pending(a) /\ Places(word, a)' = Places(word, a) /\ Ahead(a)' = Ahead(a)
            BY <2>1, PlacesSame
      <2>4. /\ chain.end \in s..f-1 /\ \A i \in DOMAIN hits : HitBeforeAt(hits[i], chain.end, chain.bucket, chain.n)
            /\ \A x \in Places(word, a) : chain.end < x[1] \/ (chain.end = x[1] /\ chain.bucket < x[2])
            /\ \A y \in Ahead(a) : chain.end < y[1]
            BY <2>1 DEF WalkInv
      <2>5. \A x \in Pending(a) : HitBefore(h, x)
            BY <2>2, <2>4 DEF Pending, HitBefore, HitBeforeAt, Before
      <2>6. ASSUME NEW i \in DOMAIN hits PROVE InOrder(hits[i], h)
            <3>1. HitBeforeAt(hits[i], chain.end, chain.bucket, chain.n)
                  BY <2>4
            <3>2. /\ hits[i].bucket \in Nat /\ hits[i].flood \in BOOLEAN /\ hits[i].end \in Nat
                  /\ chain.bucket \in Nat /\ chain.end \in Nat
                  BY <2>1, HitTyped, WalkTyped, Tabled
            <3>3. CASE hits[i].end < chain.end
                  BY <2>2, <3>3 DEF InOrder
            <3>4. CASE ~(hits[i].end < chain.end)
                  <4>1. /\ hits[i].end = chain.end /\ hits[i].bucket <= chain.bucket
                        /\ ~hits[i].flood
                        BY <3>1, <3>2, <3>4 DEF HitBeforeAt, Before
                  <4>2. hits[i].flood = FALSE
                        BY <3>2, <4>1
                  <4>3. QED  BY <2>2, <4>1, <4>2 DEF InOrder
            <3>5. QED  BY <3>3, <3>4
      <2>7. \A i \in DOMAIN hits' : hits'[i].end < f
            BY <2>2, <2>4 DEF OrderInv
      <2>8. \A i \in DOMAIN hits', x \in Pending(a) : HitBefore(hits'[i], x)
            BY <2>2, <2>5 DEF OrderInv
      <2>9. ASSUME NEW i \in DOMAIN hits', NEW j \in DOMAIN hits', i < j
            PROVE  InOrder(hits'[i], hits'[j])
            <3>1. i \in DOMAIN hits /\ (j \in DOMAIN hits \/ j = Len(hits) + 1)
                  BY <2>2, <2>9
            <3>2. QED  BY <2>2, <2>6, <2>9, <3>1 DEF OrderInv
      <2>10. \A i \in DOMAIN cands : Places(cands[i], a)' = Places(cands[i], a)
            BY <2>1 DEF Places
      <2>11. QED  BY <2>1, <2>3, <2>7, <2>8, <2>9, <2>10 DEF OrderInv
<1>5. CASE AnswerStep
      <2>1. UNCHANGED <<cands, word>> /\ InChain /\ at = "callback"
            BY <1>5 DEF AnswerStep, InChain
      <2>2. hits # <<>>
            BY <2>1 DEF WalkInv
      <2>3. /\ DOMAIN hits' = DOMAIN hits
            /\ \A i \in DOMAIN hits :
                  /\ hits'[i].bucket = hits[i].bucket /\ hits'[i].n = hits[i].n
                  /\ hits'[i].end = hits[i].end /\ hits'[i].flood = hits[i].flood
            BY <1>5, <2>2, AnsweredHits, SquashesTyped DEF AnswerStep
      <2>4. Pending(a)' = Pending(a) /\ Places(word, a)' = Places(word, a) /\ Ahead(a)' = Ahead(a)
            BY <2>1, PlacesSame
      <2>5. \A i \in DOMAIN hits : \A x : HitBefore(hits[i], x) => HitBefore(hits'[i], x)
            BY <2>3 DEF HitBefore, HitBeforeAt, Before
      <2>6. \A i, j \in DOMAIN hits : InOrder(hits[i], hits[j]) => InOrder(hits'[i], hits'[j])
            BY <2>3 DEF InOrder
      <2>7. \A i \in DOMAIN cands : Places(cands[i], a)' = Places(cands[i], a)
            BY <2>1 DEF Places
      <2>8. QED  BY <2>1, <2>3, <2>4, <2>5, <2>6, <2>7 DEF OrderInv
<1>6. CASE DoneStep
      <2>1. UNCHANGED <<cands, hits>> /\ InChain
            BY <1>6 DEF DoneStep, InChain
      <2>2. chain.end = word.base + chain.byte + a
            BY <2>1 DEF WalkInv
      <2>3. Places(word, a)' \subseteq Places(word, a)
            BY <1>6, <2>2, DonePlaces
      <2>4. QED  BY <2>1, <2>3, FewerOrder
<1>7. QED
      BY <1>1, <1>2, <1>3, <1>4, <1>5, <1>6 DEF ConfirmStep

\* The walk of a chain stays between what was hit and what waits.
LEMMA WalkStep ==
    ASSUME ConfirmType, NEW a \in Int, NEW s \in Nat, NEW f \in 0..Len0,
           OrderInv(a, s, f), WalkInv(a, s, f), ConfirmStep(a)
    PROVE  WalkInv(a, s, f)'
<1>1. CASE TakeStep \/ SkipStep \/ DoneStep \/ RestStep
      BY <1>1 DEF TakeStep, SkipStep, DoneStep, RestStep, WalkInv, InChain
<1>2. CASE BitStep(a)
      <2>1. PICK b \in word.bits :
               /\ TakeBit(b) /\ at' = "chain"
               /\ StartChain(b, word.base + b[1] + a, WindowOn(word.base + b[1] + a))
            BY <1>2 DEF BitStep
      <2> DEFINE end == word.base + b[1] + a
                 x == <<end, b[2]>>
      <2>2. UNCHANGED <<cands, hits>> /\ at' = "chain"
            BY <2>1 DEF TakeBit
      <2>3. /\ end \in s..f-1 /\ chain'.byte = b[1] /\ chain'.bucket = b[2] /\ chain'.end = end /\ chain'.n = 1
            BY <2>1, NewWalk
      <2>4. /\ word'.base = word.base /\ x \in Places(word, a) /\ Ahead(a)' = Ahead(a)
            /\ \A y \in Places(word, a)' : x[1] < y[1] \/ (x[1] = y[1] /\ x[2] < y[2])
            BY <2>1, BitPlaces
      <2> HIDE DEF end
      <2>5. \A y \in Ahead(a) : end < y[1]
            BY <2>4 DEF OrderInv
      <2>6. ASSUME NEW i \in DOMAIN hits PROVE HitBeforeAt(hits'[i], chain'.end, chain'.bucket, chain'.n)
            <3>1. HitBefore(hits[i], x)
                  BY <2>4 DEF OrderInv, Pending
            <3>2. /\ hits[i].n \in Nat \ {0}
                  BY HitTyped
            <3>3. Before(hits[i], end, b[2], 1) /\ (hits[i].flood => hits[i].end < end)
                  BY <3>1, <3>2 DEF HitBefore, HitBeforeAt, Before
            <3>4. QED  BY <2>2, <2>3, <3>3 DEF HitBeforeAt, Before
      <2>7. chain'.end = word'.base + chain'.byte + a
            BY <2>3, <2>4 DEF end
      <2>8. QED  BY <2>2, <2>3, <2>4, <2>5, <2>6, <2>7 DEF WalkInv, InChain
<1>3. CASE PassStep
      <2>1. /\ InChain /\ at = "chain" /\ at' = "chain" /\ UNCHANGED <<cands, word, hits>>
            /\ chain' = [chain EXCEPT !.n = @ + 1]
            BY <1>3 DEF PassStep, InChain
      <2>2. chain \in Walk /\ chain.n \in Nat
            BY <2>1, WalkTyped DEF ConfirmType
      <2>3. /\ chain'.end = chain.end /\ chain'.byte = chain.byte /\ chain'.bucket = chain.bucket
            /\ chain'.n = chain.n + 1
            BY <2>1, <2>2 DEF Walk
      <2>4. Places(word, a)' = Places(word, a) /\ Ahead(a)' = Ahead(a)
            BY <2>1, PlacesSame
      <2>5. ASSUME NEW i \in DOMAIN hits PROVE HitBeforeAt(hits'[i], chain'.end, chain'.bucket, chain'.n)
            <3>1. HitBeforeAt(hits[i], chain.end, chain.bucket, chain.n)
                  BY <2>1 DEF WalkInv
            <3>2. hits[i].n \in Nat
                  BY HitTyped
            <3>3. QED  BY <2>1, <2>2, <2>3, <3>1, <3>2 DEF HitBeforeAt, Before
      <2>6. QED  BY <2>1, <2>3, <2>4, <2>5 DEF WalkInv, InChain
<1>4. CASE ReportStep
      <2> DEFINE h == Hit(Literal.id, chain.bucket, chain.n, chain.end, FALSE)
      <2>1. /\ InChain /\ at = "chain" /\ at' = "callback" /\ UNCHANGED <<table, cands, word, chain>>
            BY <1>4 DEF ReportStep, InChain
      <2>2. /\ Len(hits') = Len(hits) + 1 /\ Len(hits) \in Nat
            /\ DOMAIN hits = 1..Len(hits) /\ DOMAIN hits' = 1..Len(hits) + 1 /\ LastHit' = h
            /\ \A i \in DOMAIN hits : i \in DOMAIN hits' /\ hits'[i] = hits[i]
            BY <1>4, ReportHits
      <2>3. Places(word, a)' = Places(word, a) /\ Ahead(a)' = Ahead(a)
            BY <2>1, PlacesSame
      <2>4. LastHit' = Hit(Literal.id, chain.bucket, chain.n, chain.end, FALSE)'
            BY <2>1, <2>2 DEF Literal, Chain, Hit
      <2>5. ASSUME NEW i \in DOMAIN hits', i < Len(hits') PROVE HitBeforeAt(hits'[i], chain'.end, chain'.bucket, chain'.n)
            <3>1. i \in DOMAIN hits
                  BY <2>2, <2>5
            <3>2. HitBeforeAt(hits[i], chain.end, chain.bucket, chain.n)
                  BY <2>1, <3>1 DEF WalkInv
            <3>3. QED  BY <2>1, <2>2, <3>1, <3>2 DEF HitBeforeAt, Before
      <2>6. hits' # <<>> /\ control'
            BY <1>4, <2>2 DEF ReportStep, Confirmed
      <2>7. QED  BY <2>1, <2>3, <2>4, <2>5, <2>6 DEF WalkInv, InChain
<1>5. CASE AnswerStep
      <2>1. /\ InChain /\ at = "callback" /\ UNCHANGED <<cands, word>>
            BY <1>5 DEF AnswerStep, InChain
      <2>2. CASE at' = "terminated"
            BY <2>2 DEF WalkInv, InChain
      <2>3. CASE at' = "chain"
            <3>1. PICK reply \in Replies, squash \in Squashes :
                     /\ Answered(reply, squash)
                     /\ chain' = [chain EXCEPT !.n = @ + 1, !.squash = @ \cup squash]
                  BY <1>5 DEF AnswerStep
            <3>2. chain \in Walk /\ chain.n \in Nat
                  BY <2>1, WalkTyped DEF ConfirmType
            <3>3. /\ chain'.end = chain.end /\ chain'.byte = chain.byte /\ chain'.bucket = chain.bucket
                  /\ chain'.n = chain.n + 1
                  BY <3>1, <3>2 DEF Walk
            <3>4. hits # <<>> /\ LastHit = Hit(Literal.id, chain.bucket, chain.n, chain.end, FALSE)
                  BY <2>1 DEF WalkInv
            <3>5. /\ DOMAIN hits' = DOMAIN hits
                  /\ \A i \in DOMAIN hits :
                        /\ hits'[i].bucket = hits[i].bucket /\ hits'[i].n = hits[i].n
                        /\ hits'[i].end = hits[i].end /\ hits'[i].flood = hits[i].flood
                  BY <3>1, <3>4, AnsweredHits, SquashesTyped
            <3>6. ASSUME NEW i \in DOMAIN hits PROVE HitBeforeAt(hits'[i], chain'.end, chain'.bucket, chain'.n)
                  <4>1. hits[i].n \in Nat /\ i <= Len(hits) /\ i \in Nat /\ Len(hits) \in Nat
                        BY HitTyped
                  <4>2. CASE i < Len(hits)
                        <5>1. HitBeforeAt(hits[i], chain.end, chain.bucket, chain.n)
                              BY <2>1, <4>2 DEF WalkInv
                        <5>2. QED  BY <3>2, <3>3, <3>5, <4>1, <5>1 DEF HitBeforeAt, Before
                  <4>3. CASE i = Len(hits)
                        <5>1. hits[i] = Hit(Literal.id, chain.bucket, chain.n, chain.end, FALSE)
                              BY <3>4, <4>3 DEF LastHit
                        <5>2. /\ hits[i].end = chain.end /\ hits[i].bucket = chain.bucket
                              /\ hits[i].n = chain.n /\ hits[i].flood = FALSE
                              BY <5>1 DEF Hit
                        <5>3. QED  BY <3>2, <3>3, <3>5, <5>2 DEF HitBeforeAt, Before
                  <4>4. QED  BY <4>1, <4>2, <4>3
            <3>7. Places(word, a)' = Places(word, a) /\ Ahead(a)' = Ahead(a)
                  BY <2>1, PlacesSame
            <3>8. QED  BY <2>1, <2>3, <3>3, <3>5, <3>6, <3>7 DEF WalkInv, InChain
      <2>4. QED  BY <1>5, <2>2, <2>3 DEF AnswerStep
<1>6. QED
      BY <1>1, <1>2, <1>3, <1>4, <1>5 DEF ConfirmStep

-----------------------------------------------------------------------------
(***************************************************************************)
(* What an answer squashed does not wait any more.                         *)
(***************************************************************************)
LEMMA SquashStep ==
    ASSUME ConfirmType, NEW a \in Int, NEW s \in Nat, NEW f \in 0..Len0,
           OrderInv(a, s, f), WalkInv(a, s, f), SquashInv(a), ConfirmStep(a)
    PROVE  SquashInv(a)'
<1>1. CASE TakeStep
      <2>1. Pending(a)' = Pending(a)
            BY <1>1, TakePlaces
      <2>2. UNCHANGED <<chain, hits>> /\ ~InChain /\ ~InChain' /\ at # "terminated" /\ at' # "terminated"
            BY <1>1 DEF TakeStep, InChain
      <2>3. QED  BY <2>1, <2>2 DEF SquashInv
<1>2. CASE BitStep(a)
      <2>1. PICK b \in word.bits :
               /\ TakeBit(b) /\ at' = "chain"
               /\ StartChain(b, word.base + b[1] + a, WindowOn(word.base + b[1] + a))
            BY <1>2 DEF BitStep
      <2> DEFINE x == <<word.base + b[1] + a, b[2]>>
      <2>2. UNCHANGED <<cands, hits>> /\ at = "bits" /\ ~InChain
            BY <2>1 DEF TakeBit, InChain
      <2>3. chain'.bucket = x[2] /\ chain'.end = x[1] /\ chain'.squash = {}
            BY <2>1, NewWalk
      <2>4. x \in Pending(a) /\ Pending(a)' \subseteq Pending(a)
            BY <2>1, BitPlaces DEF Pending
      <2>5. \A i \in DOMAIN hits, y \in Pending(a) : ~(hits[i].end = y[1] /\ y[2] \in hits[i].squash)
            BY <2>2 DEF SquashInv
      <2> HIDE DEF x
      <2>6. QED  BY <2>2, <2>3, <2>4, <2>5 DEF SquashInv
<1>3. CASE SkipStep
      <2>1. PICK b \in word.bits : TakeBit(b) /\ at' = "bits"
            BY <1>3 DEF SkipStep
      <2>2. UNCHANGED hits /\ at = "bits" /\ ~InChain /\ ~InChain'
            BY <2>1 DEF TakeBit, InChain
      <2>3. Pending(a)' \subseteq Pending(a)
            BY <2>1, BitPlaces DEF Pending
      <2>4. QED  BY <2>2, <2>3 DEF SquashInv
<1>4. CASE PassStep
      <2>1. /\ InChain /\ InChain' /\ at = "chain" /\ UNCHANGED <<cands, word, hits>>
            /\ chain' = [chain EXCEPT !.n = @ + 1]
            BY <1>4 DEF PassStep, InChain
      <2>2. chain'.end = chain.end /\ chain'.bucket = chain.bucket /\ chain'.squash = chain.squash
            BY <2>1 DEF ConfirmType, Walk
      <2>3. QED  BY <2>1, <2>2, PlacesSame DEF SquashInv
<1>5. CASE ReportStep
      <2> DEFINE h == Hit(Literal.id, chain.bucket, chain.n, chain.end, FALSE)
      <2>1. InChain /\ InChain' /\ at = "chain" /\ UNCHANGED <<cands, word, chain>>
            BY <1>5 DEF ReportStep, InChain
      <2>2. /\ Len(hits) \in Nat /\ DOMAIN hits = 1..Len(hits) /\ DOMAIN hits' = 1..Len(hits) + 1
            /\ hits'[Len(hits) + 1] = h /\ h.squash = {}
            /\ \A i \in DOMAIN hits : i \in DOMAIN hits' /\ hits'[i] = hits[i]
            BY <1>5, ReportHits
      <2> HIDE DEF h
      <2>3. \A i \in DOMAIN hits' : (i \in DOMAIN hits /\ hits'[i] = hits[i]) \/ hits'[i].squash = {}
            BY <2>2
      <2>4. Pending(a)' = Pending(a)
            BY <2>1, PlacesSame
      <2>5. QED  BY <2>1, <2>2, <2>3, <2>4 DEF SquashInv
<1>6. CASE AnswerStep
      <2>1. InChain /\ at = "callback" /\ UNCHANGED <<cands, word>>
            BY <1>6 DEF AnswerStep, InChain
      <2>2. CASE at' = "terminated"
            BY <2>2 DEF SquashInv, InChain
      <2>3. CASE at' = "chain"
            <3>1. PICK reply \in Replies, squash \in Squashes :
                     /\ Answered(reply, squash)
                     /\ chain' = [chain EXCEPT !.n = @ + 1, !.squash = @ \cup squash]
                  BY <1>6 DEF AnswerStep
            <3>2. /\ chain'.end = chain.end /\ chain'.bucket = chain.bucket
                  /\ chain'.squash = chain.squash \cup squash
                  BY <3>1 DEF ConfirmType, Walk
            <3>3. hits # <<>> /\ LastHit = Hit(Literal.id, chain.bucket, chain.n, chain.end, FALSE)
                  BY <2>1 DEF WalkInv
            <3> DEFINE z == Len(hits)
            <3>4. /\ DOMAIN hits' = DOMAIN hits /\ z \in DOMAIN hits
                  /\ \A i \in DOMAIN hits :
                        /\ hits'[i].bucket = hits[i].bucket
                        /\ hits'[i].end = hits[i].end /\ hits'[i].flood = hits[i].flood
                        /\ hits'[i].squash = IF i = z THEN squash ELSE hits[i].squash
                  BY <3>1, <3>3, AnsweredHits, SquashesTyped
            <3>5. /\ hits[z].end = chain.end /\ hits[z].bucket = chain.bucket
                  /\ hits[z].flood = FALSE /\ hits[z].squash = {}
                  BY <3>3 DEF LastHit, Hit
            <3>6. Pending(a)' = Pending(a) /\ InChain' /\ at # "terminated"
                  BY <2>1, <2>3, PlacesSame DEF InChain
            <3> HIDE DEF z
            <3>7. ASSUME NEW i \in DOMAIN hits', NEW x \in Pending(a)',
                         hits'[i].end = x[1], x[2] \in hits'[i].squash
                  PROVE  chain'.end = x[1] /\ x[2] \in chain'.squash
                  BY <2>1, <3>2, <3>4, <3>5, <3>6, <3>7 DEF SquashInv
            <3>8. ASSUME NEW i \in DOMAIN hits', hits'[i].end = chain'.end, chain'.bucket \in hits'[i].squash
                  PROVE  hits'[i].bucket = chain'.bucket
                  BY <2>1, <3>2, <3>4, <3>5, <3>8 DEF SquashInv
            <3>9. ASSUME NEW b \in chain'.squash
                  PROVE  \E i \in DOMAIN hits' : ~hits'[i].flood /\ hits'[i].end = chain'.end
                            /\ hits'[i].bucket = chain'.bucket /\ b \in hits'[i].squash
                  <4>1. CASE b \in squash
                        BY <3>2, <3>4, <3>5, <4>1
                  <4>2. CASE b \in chain.squash
                        <5>1. PICK i \in DOMAIN hits :
                                 /\ ~hits[i].flood /\ hits[i].end = chain.end
                                 /\ hits[i].bucket = chain.bucket /\ b \in hits[i].squash
                              BY <2>1, <4>2 DEF SquashInv
                        <5>2. i # z
                              BY <3>5, <5>1
                        <5>3. QED  BY <3>2, <3>4, <5>1, <5>2
                  <4>3. QED  BY <3>2, <4>1, <4>2
            <3>10. QED  BY <3>6, <3>7, <3>8, <3>9 DEF SquashInv
      <2>4. QED  BY <1>6, <2>2, <2>3 DEF AnswerStep
<1>7. CASE DoneStep
      <2>1. UNCHANGED <<chain, hits>> /\ InChain /\ at = "chain" /\ ~InChain'
            BY <1>7 DEF DoneStep, InChain
      <2>2. chain.end = word.base + chain.byte + a /\ chain.end \in Int /\ \A y \in Ahead(a) : chain.end < y[1]
            BY <2>1 DEF WalkInv
      <2>3. /\ Places(word, a)' = {x \in Places(word, a) : ~(x[1] = chain.end /\ x[2] \in chain.squash)}
            /\ Ahead(a)' = Ahead(a)
            BY <1>7, <2>2, DonePlaces
      <2>4. ASSUME NEW x \in Pending(a)'
            PROVE  x \in Pending(a) /\ ~(x[1] = chain.end /\ x[2] \in chain.squash)
            BY <2>2, <2>3 DEF Pending
      <2>5. QED  BY <2>1, <2>4 DEF SquashInv
<1>8. CASE RestStep
      <2>1. UNCHANGED <<cands, word, chain, hits>> /\ ~InChain /\ ~InChain' /\ (at = "terminated" => at' = "terminated")
            BY <1>8 DEF RestStep, Rest, InChain
      <2>2. QED  BY <2>1, PlacesSame DEF SquashInv
<1>9. QED
      BY <1>1, <1>2, <1>3, <1>4, <1>5, <1>6, <1>7, <1>8 DEF ConfirmStep

-----------------------------------------------------------------------------
(***************************************************************************)
(* The last match, the window, and what is hit.                            *)
(***************************************************************************)
LEMMA LastStep ==
    ASSUME ConfirmType, at = "callback" => hits # <<>>, NEW a, LastInv, ConfirmStep(a)
    PROVE  LastInv'
<1>1. CASE TakeStep \/ BitStep(a) \/ SkipStep \/ PassStep \/ DoneStep \/ RestStep
      BY <1>1 DEF TakeStep, BitStep, SkipStep, TakeBit, PassStep, DoneStep, RestStep, Rest, LastInv
<1>2. CASE ReportStep
      <2> DEFINE h == Hit(Literal.id, chain.bucket, chain.n, chain.end, FALSE)
                 z == Len(hits) + 1
      <2>1. /\ Len(hits) \in Nat /\ DOMAIN hits' = 1..z /\ Len(hits') = z
            /\ hits'[z] = h /\ h.flood = FALSE /\ h.id = Literal.id
            BY <1>2, ReportHits
      <2>2. lastMatch' = Literal.id
            BY <1>2 DEF ReportStep, CallBack
      <2> HIDE DEF h
      <2>3. z \in DOMAIN hits' /\ z+1..Len(hits') = {}
            BY <2>1
      <2>4. QED  BY <2>1, <2>2, <2>3 DEF LastInv
<1>3. CASE AnswerStep
      <2>1. hits # <<>> /\ lastMatch' = lastMatch
            BY <1>3 DEF AnswerStep
      <2>2. /\ DOMAIN hits' = DOMAIN hits /\ Len(hits') = Len(hits)
            /\ \A i \in DOMAIN hits : hits'[i].id = hits[i].id /\ hits'[i].flood = hits[i].flood
            BY <1>3, <2>1, AnsweredHits, SquashesTyped DEF AnswerStep
      <2>3. ASSUME NEW i \in DOMAIN hits, NEW j \in i+1..Len(hits)
            PROVE  j \in DOMAIN hits
            <3>1. i \in Nat \ {0} /\ Len(hits) \in Nat
                  BY HitTyped
            <3>2. DOMAIN hits = 1..Len(hits)
                  BY DEF ConfirmType
            <3>3. QED  BY <3>1, <3>2
      <2>4. QED  BY <2>1, <2>2, <2>3 DEF LastInv
<1>4. QED
      BY <1>1, <1>2, <1>3 DEF ConfirmStep

LEMMA WindowStep ==
    ASSUME ConfirmType, NEW a \in Int, NEW s \in Nat, NEW f \in 0..Len0, OrderInv(a, s, f),
           WindowInv, ConfirmStep(a)
    PROVE  WindowInv'
<1>1. CASE TakeStep \/ SkipStep \/ DoneStep \/ RestStep
      BY <1>1 DEF TakeStep, SkipStep, DoneStep, RestStep, WindowInv, InChain
<1>2. CASE BitStep(a)
      <2>1. PICK b \in word.bits :
               /\ TakeBit(b)
               /\ StartChain(b, word.base + b[1] + a, WindowOn(word.base + b[1] + a))
            BY <1>2 DEF BitStep
      <2> DEFINE end == word.base + b[1] + a
      <2>2. chain'.window = WindowOn(end) /\ WindowOn(end) \in [0..CONF_BYTES-1 -> Nat] /\ chain'.end = end
            BY <2>1, NewWalk
      <2> HIDE DEF end
      <2>3. buf' = buf
            BY <2>1 DEF TakeBit
      <2>4. QED  BY <2>2, <2>3 DEF WindowInv, WindowOn
<1>3. CASE PassStep \/ AnswerStep
      <2>1. InChain /\ chain'.end = chain.end /\ chain'.window = chain.window /\ buf' = buf
            BY <1>3 DEF PassStep, AnswerStep, InChain, ConfirmType, Walk
      <2>2. QED  BY <2>1 DEF WindowInv
<1>4. CASE ReportStep
      BY <1>4 DEF ReportStep, WindowInv, InChain
<1>5. QED
      BY <1>1, <1>2, <1>3, <1>4 DEF ConfirmStep

\* What is confirmed is an occurrence, ...
LEMMA ConfirmedOccurs ==
    ASSUME ConfirmType, NEW a \in Int, NEW s \in Nat, NEW f \in 0..Len0, WalkInv(a, s, f), WindowInv,
           at = "chain", chain.n <= Len(Chain), Confirmed(Literal)
    PROVE  Occurs(Literal, chain.end)
<1>1. InChain
      BY DEF InChain
<1>2. Literal.lit \in Seq(Nat) /\ chain.end \in Nat
      BY <1>1, WalkTyped
<1>3. chain.end < f /\ f \in Int /\ f <= Len0 /\ Len0 \in Nat
      BY <1>1, Tabled DEF WalkInv
<1>4. Len(Literal.lit) <= chain.end + 1 /\ Len(Literal.lit) \in Nat /\ CONF_BYTES \in Nat
      BY <1>2, ConfirmAssumption DEF Confirmed, Fits
<1>5. ASSUME NEW k \in 0..Smaller(Len(Literal.lit), CONF_BYTES) - 1
      PROVE  buf[chain.end + 1 - k] = Literal.lit[Len(Literal.lit) - k]
      <2>1. k \in 0..CONF_BYTES-1 /\ k <= chain.end
            BY <1>2, <1>4 DEF Smaller
      <2>2. chain.window[k] = Literal.lit[Len(Literal.lit) - k]
            BY DEF Confirmed, WindowMatches
      <2>3. chain.window[k] = buf[chain.end - k + 1]
            BY <1>1, <2>1 DEF WindowInv
      <2>4. chain.end - k + 1 = chain.end + 1 - k
            BY <1>2, <2>1
      <2>5. QED  BY <2>2, <2>3, <2>4
<1>6. QED  BY <1>2, <1>3, <1>4, <1>5 DEF Occurs

\* ... and an occurrence is confirmed, but for a repeat.
LEMMA OccursConfirmed ==
    ASSUME ConfirmType, WindowInv, at = "chain", chain.n <= Len(Chain),
           Occurs(Literal, chain.end), Literal.grouped, control, ~Repeated(Literal)
    PROVE  Confirmed(Literal)
<1>1. InChain
      BY DEF InChain
<1>2. Literal.lit \in Seq(Nat) /\ chain.end \in Nat /\ CONF_BYTES \in Nat
      BY <1>1, WalkTyped, ConfirmAssumption
<1>3. Len(Literal.lit) <= chain.end + 1 /\ Len(Literal.lit) \in Nat
      BY <1>2 DEF Occurs
<1>4. ASSUME NEW k \in 0..Smaller(Len(Literal.lit), CONF_BYTES) - 1
      PROVE  chain.window[k] = Literal.lit[Len(Literal.lit) - k]
      <2>1. k \in 0..CONF_BYTES-1 /\ k <= chain.end
            BY <1>2, <1>3 DEF Smaller
      <2>2. buf[chain.end + 1 - k] = Literal.lit[Len(Literal.lit) - k]
            BY DEF Occurs
      <2>3. chain.window[k] = buf[chain.end - k + 1]
            BY <1>1, <2>1 DEF WindowInv
      <2>4. chain.end - k + 1 = chain.end + 1 - k
            BY <1>2, <2>1
      <2>5. QED  BY <2>2, <2>3, <2>4
<1>5. QED  BY <1>3, <1>4 DEF Confirmed, WindowMatches, Fits

LEMMA OccurStep ==
    ASSUME ConfirmType, NEW a \in Int, NEW s \in Nat, NEW f \in 0..Len0,
           WalkInv(a, s, f), WindowInv, OccurInv, ConfirmStep(a)
    PROVE  OccurInv'
<1>1. CASE TakeStep \/ BitStep(a) \/ SkipStep \/ PassStep \/ DoneStep \/ RestStep
      <2>1. UNCHANGED <<table, buf, hits>>
            BY <1>1 DEF TakeStep, BitStep, SkipStep, TakeBit, PassStep, DoneStep, RestStep, Rest
      <2>2. QED  BY <2>1 DEF OccurInv, IsOccurrence, Occurs, LitsOf, Len0
<1>2. CASE ReportStep
      <2> DEFINE h == Hit(Literal.id, chain.bucket, chain.n, chain.end, FALSE)
      <2>1. /\ Len(hits) \in Nat /\ DOMAIN hits = 1..Len(hits) /\ DOMAIN hits' = 1..Len(hits) + 1
            /\ hits'[Len(hits) + 1] = h
            /\ \A i \in DOMAIN hits : i \in DOMAIN hits' /\ hits'[i] = hits[i]
            /\ h.id = Literal.id /\ h.bucket = chain.bucket /\ h.n = chain.n /\ h.end = chain.end
            BY <1>2, ReportHits
      <2>2. Occurs(Literal, chain.end)
            BY <1>2, ConfirmedOccurs DEF ReportStep
      <2>3. Literal = LitsOf(chain.bucket)[chain.n]
            BY DEF Literal, Chain, LitsOf
      <2> HIDE DEF h
      <2>4. IsOccurrence(h)
            BY <2>1, <2>2, <2>3 DEF IsOccurrence
      <2>5. UNCHANGED <<table, buf>>
            BY <1>2 DEF ReportStep
      <2>6. \A i \in DOMAIN hits' : hits'[i].flood \/ IsOccurrence(hits'[i])
            BY <2>1, <2>4 DEF OccurInv
      <2>7. QED  BY <2>5, <2>6 DEF OccurInv, IsOccurrence, Occurs, LitsOf, Len0
<1>3. CASE AnswerStep
      <2>1. hits # <<>> /\ UNCHANGED <<table, buf>>
            BY <1>3 DEF AnswerStep, WalkInv, InChain
      <2>2. /\ DOMAIN hits' = DOMAIN hits
            /\ \A i \in DOMAIN hits :
                  /\ hits'[i].id = hits[i].id /\ hits'[i].bucket = hits[i].bucket
                  /\ hits'[i].n = hits[i].n /\ hits'[i].end = hits[i].end
                  /\ hits'[i].flood = hits[i].flood
            BY <1>3, <2>1, AnsweredHits, SquashesTyped DEF AnswerStep
      <2>3. \A i \in DOMAIN hits' : hits'[i].flood \/ IsOccurrence(hits'[i])
            BY <2>2 DEF OccurInv, IsOccurrence
      <2>4. QED  BY <2>1, <2>3 DEF OccurInv, IsOccurrence, Occurs, LitsOf, Len0
<1>4. QED
      BY <1>1, <1>2, <1>3 DEF ConfirmStep

-----------------------------------------------------------------------------
(***************************************************************************)
(* No occurrence is lost.                                                  *)
(***************************************************************************)
LEMMA PassedStays ==
    ASSUME ConfirmType, NEW a \in Int, NEW s \in Nat, NEW f \in 0..Len0,
           OrderInv(a, s, f), WalkInv(a, s, f), ConfirmStep(a),
           NEW end \in Int, NEW b \in Nat, NEW n \in Nat, Passed(a, end, b, n)
    PROVE  Passed(a, end, b, n)'
<1>1. CASE TakeStep
      <2>1. Pending(a)' = Pending(a) /\ ~InChain'
            BY <1>1, TakePlaces DEF TakeStep, InChain
      <2>2. QED  BY <2>1 DEF Passed
<1>2. CASE BitStep(a)
      <2>1. PICK c \in word.bits :
               /\ TakeBit(c)
               /\ StartChain(c, word.base + c[1] + a, WindowOn(word.base + c[1] + a))
            BY <1>2 DEF BitStep
      <2> DEFINE x == <<word.base + c[1] + a, c[2]>>
      <2>2. chain'.bucket = x[2] /\ chain'.end = x[1]
            BY <2>1, NewWalk
      <2>3. x \in Pending(a) /\ Pending(a)' \subseteq Pending(a)
            BY <2>1, BitPlaces DEF Pending
      <2> HIDE DEF x
      <2>4. QED  BY <2>2, <2>3 DEF Passed
<1>3. CASE SkipStep
      <2>1. PICK c \in word.bits : TakeBit(c) /\ at' = "bits"
            BY <1>3 DEF SkipStep
      <2>2. Pending(a)' \subseteq Pending(a) /\ ~InChain'
            BY <2>1, BitPlaces DEF Pending, InChain
      <2>3. QED  BY <2>2 DEF Passed
<1>4. CASE PassStep \/ AnswerStep
      <2>1. InChain /\ UNCHANGED <<cands, word>>
            BY <1>4 DEF PassStep, AnswerStep, InChain
      <2>2. chain \in Walk /\ chain.n \in Nat
            BY <2>1, WalkTyped DEF ConfirmType
      <2>3. chain'.end = chain.end /\ chain'.bucket = chain.bucket /\ chain'.n = chain.n + 1
            BY <1>4, <2>2 DEF PassStep, AnswerStep, Walk
      <2>4. Pending(a)' = Pending(a)
            BY <2>1, PlacesSame
      <2>5. n < chain.n => n < chain'.n
            BY <2>2, <2>3
      <2>6. QED  BY <2>1, <2>3, <2>4, <2>5 DEF Passed
<1>5. CASE ReportStep
      <2>1. InChain /\ UNCHANGED <<cands, word, chain>>
            BY <1>5 DEF ReportStep, InChain
      <2>2. QED  BY <2>1, PlacesSame DEF Passed
<1>6. CASE DoneStep
      <2>1. InChain /\ ~InChain'
            BY <1>6 DEF DoneStep, InChain
      <2>2. Pending(a)' \subseteq Pending(a)
            BY <1>6, <2>1, DonePlaces DEF WalkInv, Pending
      <2>3. QED  BY <2>1, <2>2 DEF Passed
<1>7. CASE RestStep
      <2>1. UNCHANGED <<cands, word>> /\ ~InChain'
            BY <1>7 DEF RestStep, Rest, InChain
      <2>2. QED  BY <2>1, PlacesSame DEF Passed
<1>8. QED
      BY <1>1, <1>2, <1>3, <1>4, <1>5, <1>6, <1>7 DEF ConfirmStep

\* What is settled stays settled: no later hit comes between a repeat and the
\* hit that it repeats.
LEMMA SettledStays ==
    ASSUME ConfirmType, NEW a \in Int, NEW s \in Nat, NEW f \in 0..Len0,
           OrderInv(a, s, f), WalkInv(a, s, f), ConfirmStep(a),
           NEW l, NEW end \in Int, NEW b \in Nat, NEW n \in Nat, Settled(a, l, end, b, n)
    PROVE  Settled(a, l, end, b, n)'
<1>1. CASE TakeStep \/ BitStep(a) \/ SkipStep \/ PassStep \/ DoneStep \/ RestStep
      <2>1. UNCHANGED hits
            BY <1>1 DEF TakeStep, BitStep, SkipStep, TakeBit, PassStep, DoneStep, RestStep, Rest
      <2>2. Passed(a, end, b, n) => Passed(a, end, b, n)'
            BY PassedStays
      <2>3. Reported(l, end) => Reported(l, end)'
            BY <2>1 DEF Reported
      <2>4. LeftOutBySquash(end, b) => LeftOutBySquash(end, b)'
            BY <2>1 DEF LeftOutBySquash
      <2>5. LeftOutAsRepeat(l, end, b, n) => LeftOutAsRepeat(l, end, b, n)'
            BY <2>1 DEF LeftOutAsRepeat, Before
      <2>6. QED  BY <2>2, <2>3, <2>4, <2>5 DEF Settled
<1>2. CASE ReportStep
      <2> DEFINE h == Hit(Literal.id, chain.bucket, chain.n, chain.end, FALSE)
      <2>1. /\ Len(hits) \in Nat /\ DOMAIN hits = 1..Len(hits) /\ DOMAIN hits' = 1..Len(hits) + 1
            /\ Len(hits') = Len(hits) + 1 /\ hits'[Len(hits) + 1] = h
            /\ \A i \in DOMAIN hits : i \in DOMAIN hits' /\ hits'[i] = hits[i]
            /\ h.id = Literal.id /\ h.bucket = chain.bucket /\ h.n = chain.n /\ h.end = chain.end
            BY <1>2, ReportHits
      <2>2. Passed(a, end, b, n) => Passed(a, end, b, n)'
            BY PassedStays
      <2> HIDE DEF h
      <2>3. Reported(l, end) => Reported(l, end)'
            BY <2>1 DEF Reported
      <2>4. LeftOutBySquash(end, b) => LeftOutBySquash(end, b)'
            BY <2>1 DEF LeftOutBySquash
      <2>5. ASSUME LeftOutAsRepeat(l, end, b, n), Passed(a, end, b, n)
            PROVE  LeftOutAsRepeat(l, end, b, n)'
            <3>1. l.norepeat
                  BY <2>5 DEF LeftOutAsRepeat
            <3>2. PICK i \in DOMAIN hits :
                     /\ ~hits[i].flood /\ hits[i].id = l.id /\ Before(hits[i], end, b, n)
                     /\ \A j \in i+1..Len(hits) : Before(hits[j], end, b, n) => hits[j].flood
                  BY <2>5 DEF LeftOutAsRepeat
            <3>3. InChain /\ chain.end \in Nat /\ chain.bucket \in Nat /\ chain.n \in Nat
                  BY <1>2, WalkTyped, Tabled DEF ReportStep, InChain
            <3>4. ~Before(h, end, b, n)
                  BY <2>1, <2>5, <3>3 DEF Passed, Before
            <3>5. ASSUME NEW j \in i+1..Len(hits'), Before(hits'[j], end, b, n)
                  PROVE  hits'[j].flood
                  <4>1. j # Len(hits) + 1
                        BY <2>1, <3>4, <3>5
                  <4>2. j \in i+1..Len(hits) /\ j \in DOMAIN hits
                        BY <2>1, <3>2, <3>5, <4>1
                  <4>3. QED  BY <2>1, <3>2, <3>5, <4>2
            <3>6. i \in DOMAIN hits' /\ hits'[i] = hits[i]
                  BY <2>1, <3>2
            <3>7. QED  BY <3>1, <3>2, <3>5, <3>6 DEF LeftOutAsRepeat, Before
      <2>6. QED  BY <2>2, <2>3, <2>4, <2>5 DEF Settled
<1>3. CASE AnswerStep
      <2>1. PICK reply \in Replies, squash \in Squashes : Answered(reply, squash)
            BY <1>3 DEF AnswerStep
      <2>2. hits # <<>> /\ LastHit = Hit(Literal.id, chain.bucket, chain.n, chain.end, FALSE)
            BY <1>3 DEF AnswerStep, WalkInv, InChain
      <2> DEFINE z == Len(hits)
      <2>3. /\ DOMAIN hits' = DOMAIN hits /\ Len(hits') = z /\ z \in DOMAIN hits
            /\ \A i \in DOMAIN hits :
                  /\ hits'[i].id = hits[i].id /\ hits'[i].bucket = hits[i].bucket
                  /\ hits'[i].n = hits[i].n /\ hits'[i].end = hits[i].end
                  /\ hits'[i].flood = hits[i].flood
                  /\ hits'[i].squash = IF i = z THEN squash ELSE hits[i].squash
            BY <2>1, <2>2, AnsweredHits, SquashesTyped
      <2>4. hits[z].squash = {}
            BY <2>2 DEF LastHit, Hit
      <2>5. \A i \in DOMAIN hits : \A j \in i+1..z : j \in DOMAIN hits
            BY DEF ConfirmType
      <2>6. Passed(a, end, b, n) => Passed(a, end, b, n)'
            BY PassedStays
      <2> HIDE DEF z
      <2>7. Reported(l, end) => Reported(l, end)'
            BY <2>3 DEF Reported
      <2>8. LeftOutBySquash(end, b) => LeftOutBySquash(end, b)'
            BY <2>3, <2>4 DEF LeftOutBySquash
      <2>9. \A i \in DOMAIN hits : Before(hits'[i], end, b, n) <=> Before(hits[i], end, b, n)
            BY <2>3 DEF Before
      <2>10. LeftOutAsRepeat(l, end, b, n) => LeftOutAsRepeat(l, end, b, n)'
            <3>1. ASSUME NEW i \in DOMAIN hits,
                         \A j \in i+1..z : Before(hits[j], end, b, n) => hits[j].flood
                  PROVE  \A j \in i+1..z : Before(hits'[j], end, b, n) => hits'[j].flood
                  BY <2>3, <2>5, <2>9, <3>1
            <3>2. ASSUME LeftOutAsRepeat(l, end, b, n)
                  PROVE  /\ l.norepeat
                         /\ \E i \in DOMAIN hits :
                               /\ ~hits'[i].flood /\ hits'[i].id = l.id /\ Before(hits'[i], end, b, n)
                               /\ \A j \in i+1..z : Before(hits'[j], end, b, n) => hits'[j].flood
                  BY <2>3, <2>9, <3>1, <3>2 DEF LeftOutAsRepeat, z
            <3>3. QED  BY <2>3, <3>2 DEF LeftOutAsRepeat, Before
      <2>11. QED  BY <2>6, <2>7, <2>8, <2>10 DEF Settled
<1>4. QED
      BY <1>1, <1>2, <1>3 DEF ConfirmStep

\* An occurrence that waits goes on waiting or is settled.
LEMMA WaitsOn ==
    ASSUME ConfirmType, NEW a \in Int, NEW s \in Nat, NEW f \in 0..Len0,
           OrderInv(a, s, f), WalkInv(a, s, f), SquashInv(a), LastInv, WindowInv,
           ConfirmStep(a), control, control',
           NEW b \in Buckets, NEW n \in DOMAIN LitsOf(b), NEW l, l = LitsOf(b)[n],
           NEW end \in Int, ToFind(l, s, end), Waits(a, end, b, n)
    PROVE  Waits(a, end, b, n)' \/ Settled(a, l, end, b, n)'
<1> DEFINE y == <<end, b>>
<1>0. n \in Nat \ {0} /\ b \in Nat /\ y[1] = end /\ y[2] = b
      BY LitTyped, Tabled
<1>1. ASSUME InChain PROVE /\ chain.end \in Nat /\ chain.bucket \in Nat /\ chain.n \in Nat \ {0}
                           /\ chain.bucket = b /\ chain.n = n => chain.n <= Len(Chain) /\ Literal = l
      <2>1. /\ chain.end \in Nat /\ chain.bucket \in Nat /\ chain.n \in Nat \ {0}
            /\ DOMAIN Chain = 1..Len(Chain) /\ Chain = LitsOf(chain.bucket)
            BY <1>1, WalkTyped, Tabled
      <2>2. QED  BY <2>1 DEF Literal
<1>2. CASE TakeStep
      <2>1. Pending(a)' = Pending(a) /\ ~InChain
            BY <1>2, TakePlaces DEF TakeStep, InChain
      <2>2. QED  BY <2>1 DEF Waits
<1>3. CASE BitStep(a)
      <2>1. PICK c \in word.bits :
               /\ TakeBit(c) /\ at' = "chain"
               /\ StartChain(c, word.base + c[1] + a, WindowOn(word.base + c[1] + a))
            BY <1>3 DEF BitStep
      <2> DEFINE x == <<word.base + c[1] + a, c[2]>>
      <2>2. ~InChain /\ InChain'
            BY <2>1 DEF TakeBit, InChain
      <2>3. chain'.bucket = x[2] /\ chain'.end = x[1] /\ chain'.n = 1
            BY <2>1, NewWalk
      <2>4. Pending(a) = Pending(a)' \cup {x}
            BY <2>1, BitPlaces DEF Pending
      <2> HIDE DEF x
      <2>5. y \in Pending(a)
            BY <2>2 DEF Waits
      <2>6. QED  BY <1>0, <2>2, <2>3, <2>4, <2>5 DEF Waits
<1>4. CASE SkipStep
      <2>1. PICK c \in word.bits :
               /\ TakeBit(c) /\ \A k \in DOMAIN LitsOf(c[2]) : ~LitsOf(c[2])[k].grouped
            BY <1>4 DEF SkipStep
      <2> DEFINE x == <<word.base + c[1] + a, c[2]>>
      <2>2. ~InChain
            BY <2>1 DEF TakeBit, InChain
      <2>3. Pending(a) = Pending(a)' \cup {x} /\ x[2] = c[2]
            BY <2>1, BitPlaces DEF Pending
      <2> HIDE DEF x
      <2>4. y \in Pending(a)
            BY <2>2 DEF Waits
      <2>5. b # c[2]
            BY <2>1 DEF ToFind
      <2>6. QED  BY <1>0, <2>3, <2>4, <2>5 DEF Waits
<1>5. CASE PassStep
      <2>1. /\ InChain /\ InChain' /\ at = "chain" /\ UNCHANGED <<cands, word, hits>>
            /\ chain.n <= Len(Chain) /\ ~Confirmed(Literal)
            BY <1>5 DEF PassStep, InChain
      <2>2. chain \in Walk
            BY DEF ConfirmType
      <2>3. chain'.end = chain.end /\ chain'.bucket = chain.bucket /\ chain'.n = chain.n + 1
            BY <1>5, <2>2 DEF PassStep, Walk
      <2>4. Pending(a)' = Pending(a)
            BY <2>1, PlacesSame
      <2>5. CASE y \in Pending(a)
            BY <2>4, <2>5 DEF Waits
      <2>6. CASE chain.end = end /\ chain.bucket = b /\ chain.n < n
            BY <1>0, <1>1, <2>1, <2>3, <2>6 DEF Waits
      <2>7. CASE chain.end = end /\ chain.bucket = b /\ chain.n = n
            <3>1. Literal = l
                  BY <1>1, <2>1, <2>7
            <3>2. Repeated(l)
                  BY <2>1, <2>7, <3>1, OccursConfirmed DEF ToFind
            <3>3. l.norepeat /\ lastMatch = l.id
                  BY <3>2 DEF Repeated
            <3>4. l.id \in Nat /\ l.id # NoMatch
                  BY LitTyped DEF NoMatch
            <3>5. PICK i \in DOMAIN hits :
                     ~hits[i].flood /\ hits[i].id = lastMatch /\ \A j \in i+1..Len(hits) : hits[j].flood
                  BY <3>3, <3>4 DEF LastInv
            <3>6. Before(hits[i], end, b, n)
                  BY <2>1, <2>7 DEF WalkInv, HitBeforeAt
            <3>7. LeftOutAsRepeat(l, end, b, n)
                  BY <3>3, <3>5, <3>6 DEF LeftOutAsRepeat
            <3>8. LeftOutAsRepeat(l, end, b, n)'
                  BY <2>1, <3>7 DEF LeftOutAsRepeat, Before
            <3>9. \A x \in Pending(a) : end < x[1] \/ (end = x[1] /\ b < x[2])
                  BY <2>1, <2>7 DEF WalkInv, Pending
            <3>10. n < chain'.n
                  BY <1>1, <2>1, <2>3, <2>7
            <3>11. Passed(a, end, b, n)'
                  BY <2>1, <2>3, <2>4, <2>7, <3>9, <3>10 DEF Passed
            <3>12. QED  BY <3>8, <3>11 DEF Settled
      <2>8. y \in Pending(a) \/ (chain.end = end /\ chain.bucket = b /\ (chain.n < n \/ chain.n = n))
            BY <1>0, <1>1, <2>1 DEF Waits
      <2>9. QED  BY <2>5, <2>6, <2>7, <2>8
<1>6. CASE ReportStep
      <2>1. InChain' /\ UNCHANGED <<cands, word, chain>>
            BY <1>6 DEF ReportStep, InChain
      <2>2. QED  BY <2>1, PlacesSame DEF Waits
<1>7. CASE AnswerStep
      <2>1. PICK reply \in Replies, squash \in Squashes :
               /\ Answered(reply, squash)
               /\ chain' = [chain EXCEPT !.n = @ + 1, !.squash = @ \cup squash]
            BY <1>7 DEF AnswerStep
      <2>2. InChain /\ InChain' /\ at = "callback" /\ UNCHANGED <<cands, word>>
            BY <1>7 DEF AnswerStep, InChain
      <2>3. chain \in Walk
            BY DEF ConfirmType
      <2>4. chain'.end = chain.end /\ chain'.bucket = chain.bucket /\ chain'.n = chain.n + 1
            BY <2>1, <2>3 DEF Walk
      <2>5. Pending(a)' = Pending(a)
            BY <2>2, PlacesSame
      <2>6. CASE y \in Pending(a)
            BY <2>5, <2>6 DEF Waits
      <2>7. CASE chain.end = end /\ chain.bucket = b /\ chain.n < n
            BY <1>0, <1>1, <2>2, <2>4, <2>7 DEF Waits
      <2>8. CASE chain.end = end /\ chain.bucket = b /\ chain.n = n
            <3>1. hits # <<>> /\ LastHit = Hit(Literal.id, chain.bucket, chain.n, chain.end, FALSE)
                  BY <2>2 DEF WalkInv
            <3>2. LastHit.id = l.id /\ LastHit.end = end
                  BY <1>1, <2>2, <2>8, <3>1 DEF Hit
            <3>3. /\ Len(hits) \in DOMAIN hits' /\ hits'[Len(hits)].id = LastHit.id
                  /\ hits'[Len(hits)].end = LastHit.end
                  BY <2>1, <3>1, AnsweredHits, SquashesTyped DEF LastHit
            <3>4. Reported(l, end)'
                  BY <3>2, <3>3 DEF Reported
            <3>5. QED  BY <3>4 DEF Settled
      <2>9. y \in Pending(a) \/ (chain.end = end /\ chain.bucket = b /\ (chain.n < n \/ chain.n = n))
            BY <1>0, <1>1, <2>2 DEF Waits
      <2>10. QED  BY <2>6, <2>7, <2>8, <2>9
<1>8. CASE DoneStep
      <2>1. UNCHANGED hits /\ InChain /\ at = "chain" /\ chain.n > Len(Chain)
            BY <1>8 DEF DoneStep, InChain
      <2>2. chain.end = word.base + chain.byte + a /\ \A x \in Places(word, a) :
               chain.end < x[1] \/ (chain.end = x[1] /\ chain.bucket < x[2])
            BY <2>1 DEF WalkInv
      <2>3. /\ Places(word, a)' = {x \in Places(word, a) : ~(x[1] = chain.end /\ x[2] \in chain.squash)}
            /\ Ahead(a)' = Ahead(a)
            BY <1>8, <2>2, DonePlaces
      <2>4. y \in Pending(a)
            <3>1. Len(Chain) \in Nat
                  BY <2>1, WalkTyped
            <3>2. ~(chain.end = end /\ chain.bucket = b /\ chain.n <= n)
                  <4>1. SUFFICES ASSUME chain.bucket = b, chain.n <= n PROVE FALSE
                        OBVIOUS
                  <4>2. n \in 1..Len(Chain)
                        BY <2>1, <4>1, WalkTyped
                  <4>3. QED  BY <1>1, <2>1, <3>1, <4>1, <4>2
            <3>3. QED  BY <3>2 DEF Waits
      <2>5. CASE y \in Pending(a)'
            BY <2>5 DEF Waits
      <2>6. CASE y \notin Pending(a)'
            <3>1. y \in Places(word, a) /\ end = chain.end /\ b \in chain.squash
                  BY <1>0, <2>3, <2>4, <2>6 DEF Pending
            <3>2. chain.bucket < b
                  BY <1>0, <1>1, <2>1, <2>2, <3>1
            <3>3. PICK i \in DOMAIN hits :
                     /\ ~hits[i].flood /\ hits[i].end = chain.end
                     /\ hits[i].bucket = chain.bucket /\ b \in hits[i].squash
                  BY <2>1, <3>1 DEF SquashInv
            <3>4. LeftOutBySquash(end, b)'
                  BY <2>1, <3>1, <3>2, <3>3 DEF LeftOutBySquash
            <3>5. QED  BY <3>4 DEF Settled
      <2>7. QED  BY <2>5, <2>6
<1>9. CASE RestStep
      <2>1. UNCHANGED <<cands, word>> /\ ~InChain
            BY <1>9 DEF RestStep, Rest, InChain
      <2>2. QED  BY <2>1, PlacesSame DEF Waits
<1>10. QED
      BY <1>2, <1>3, <1>4, <1>5, <1>6, <1>7, <1>8, <1>9 DEF ConfirmStep

LEMMA FoundStep ==
    ASSUME ConfirmType, NEW a \in Int, NEW s \in Nat, NEW f \in 0..Len0, NEW g \in Int,
           OrderInv(a, s, f), WalkInv(a, s, f), SquashInv(a), LastInv, WindowInv,
           FoundInv(a, s, g), ConfirmStep(a)
    PROVE  FoundInv(a, s, g)'
<1>1. UNCHANGED <<table, buf>>
      BY DEF ConfirmStep, TakeStep, BitStep, SkipStep, TakeBit, PassStep, ReportStep, AnswerStep,
             DoneStep, RestStep, Rest
<1>2. control' => control
      <2>1. AnswerStep => control
            BY DEF AnswerStep, WalkInv, InChain
      <2>2. QED
            BY <2>1 DEF ConfirmStep, TakeStep, BitStep, SkipStep, TakeBit, PassStep, ReportStep,
                        DoneStep, RestStep, Rest
<1>3. ASSUME control', NEW b \in Buckets, NEW n \in DOMAIN LitsOf(b), NEW l \in {LitsOf(b)[n]},
             NEW end \in s..g-1, ToFind(l, s, end)
      PROVE  Waits(a, end, b, n)' \/ Settled(a, l, end, b, n)'
      <2>1. end \in Int /\ b \in Nat /\ n \in Nat
            BY LitTyped, Tabled
      <2>2. Waits(a, end, b, n) \/ Settled(a, l, end, b, n)
            BY <1>2, <1>3 DEF FoundInv
      <2>3. CASE Waits(a, end, b, n)
            BY <1>2, <1>3, <2>1, <2>3, WaitsOn
      <2>4. CASE Settled(a, l, end, b, n)
            BY <2>1, <2>4, SettledStays
      <2>5. QED  BY <2>2, <2>3, <2>4
<1>4. \A l, end : ToFind(l, s, end)' => ToFind(l, s, end)
      BY <1>1 DEF ToFind, Occurs, Len0
<1>5. QED  BY <1>1, <1>3, <1>4 DEF FoundInv, Buckets, LitsOf

-----------------------------------------------------------------------------
(***************************************************************************)
(* All of it: an engine that has looked at the buffer up to f has reported *)
(* what ends before f and has candidates for the rest.                     *)
(***************************************************************************)
ConfirmInv(a, s, f) ==
    /\ ConfirmType /\ OrderInv(a, s, f) /\ WalkInv(a, s, f)
    /\ SquashInv(a) /\ LastInv /\ WindowInv /\ OccurInv
    /\ FoundInv(a, s, f)

LEMMA ConfirmKeeps ==
    ASSUME NEW a \in Int, NEW s \in Nat, NEW f \in 0..Len0,
           ConfirmInv(a, s, f), ConfirmStep(a)
    PROVE  ConfirmInv(a, s, f)'
<1>1. /\ ConfirmType /\ OrderInv(a, s, f) /\ WalkInv(a, s, f)
      /\ SquashInv(a) /\ LastInv /\ WindowInv /\ OccurInv /\ FoundInv(a, s, f)
      BY DEF ConfirmInv
<1>2. at = "callback" => hits # <<>>
      BY <1>1 DEF WalkInv, InChain
<1>3. f \in Int
      BY <1>1, Tabled
<1>4. ConfirmType'
      BY <1>1, <1>2, TypeStep
<1>5. OrderInv(a, s, f)' /\ WalkInv(a, s, f)'
      BY <1>1, OrderStep, WalkStep
<1>6. SquashInv(a)'
      BY <1>1, SquashStep
<1>7. LastInv' /\ WindowInv' /\ OccurInv'
      BY <1>1, <1>2, LastStep, WindowStep, OccurStep
<1>8. FoundInv(a, s, f)'
      BY <1>1, <1>3, FoundStep
<1>9. QED  BY <1>4, <1>5, <1>6, <1>7, <1>8 DEF ConfirmInv

LEMMA ConfirmStart ==
    ASSUME ConfirmInit, at = "scan", NEW a \in Int, NEW s \in Nat
    PROVE  ConfirmInv(a, s, s)
<1>1. /\ table \in Tables /\ buf \in Buffers /\ cands = <<>> /\ word = NoWord /\ chain = NoChain
      /\ control = TRUE /\ lastMatch = NoMatch /\ hits = <<>> /\ ~InChain
      BY DEF ConfirmInit, InChain
<1>2. word \in Block /\ word.bits = {}
      BY <1>1 DEF NoWord, Block
<1>3. chain \in Walk
      BY <1>1 DEF NoChain, Walk, Window, Squashed
<1>4. DOMAIN cands = {} /\ DOMAIN hits = {}
      BY <1>1
<1>5. ConfirmType
      BY <1>1, <1>2, <1>3, <1>4 DEF ConfirmType, InChain
<1>6. Places(word, a) = {} /\ Ahead(a) = {} /\ Pending(a) = {}
      BY <1>2, <1>4 DEF Places, Ahead, Pending
<1>7. OrderInv(a, s, s) /\ SquashInv(a)
      BY <1>1, <1>4, <1>6 DEF OrderInv, SquashInv
<1>8. LastInv /\ WindowInv /\ OccurInv /\ WalkInv(a, s, s)
      BY <1>1, <1>4 DEF LastInv, WindowInv, OccurInv, WalkInv
<1>9. FoundInv(a, s, s)
      BY DEF FoundInv
<1>10. QED  BY <1>5, <1>7, <1>8, <1>9 DEF ConfirmInv

\* A block of the scan loop, which looks from f to h.
StageStep(base, bits) ==
    /\ at \notin {"bits", "chain", "callback", "terminated"}
    /\ at' \notin {"bits", "chain", "callback", "terminated"}
    /\ Stage(base, bits)
    /\ UNCHANGED <<table, buf, word, chain, control, lastMatch, hits>>

LEMMA StagePlaces ==
    ASSUME ConfirmType, NEW a \in Int, NEW base \in Int, NEW bits \in SUBSET (Nat \X Buckets),
           StageStep(base, bits)
    PROVE  LET new == {<<base + b[1] + a, b[2]>> : b \in bits} IN
           /\ cands' \in Seq(Block) /\ Ahead(a)' = Ahead(a) \cup new
           /\ Pending(a)' = Pending(a) \cup new /\ Places(word, a) = {} /\ Places(word, a)' = {}
           /\ \A j \in DOMAIN cands' : \/ j \in DOMAIN cands /\ cands'[j] = cands[j]
                                       \/ /\ Places(cands'[j], a) = new
                                          /\ \A i \in DOMAIN cands' : i <= j
<1> DEFINE e == [base |-> base, bits |-> bits]
           new == {<<base + b[1] + a, b[2]>> : b \in bits}
<1>1. e \in Block /\ Places(e, a) = new
      BY DEF Block, Places
<1>2. cands \in Seq(Block) /\ word.bits = {} /\ word' = word
      BY DEF ConfirmType, StageStep
<1>3. Places(word, a) = {} /\ Places(word, a)' = {}
      BY <1>2 DEF Places
<1>4. Ahead(a)' = UNION {Places(cands'[i], a) : i \in DOMAIN cands'}
      BY DEF Ahead, Places
<1>5. CASE bits = {}
      <2>1. cands' = cands /\ new = {}
            BY <1>5 DEF StageStep, Stage
      <2>2. QED  BY <1>2, <1>3, <1>4, <2>1 DEF Ahead, Pending
<1>6. CASE bits # {}
      <2>1. cands' = Append(cands, e)
            BY <1>6 DEF StageStep, Stage
      <2> HIDE DEF e, new
      <2>2. /\ cands' \in Seq(Block) /\ Len(cands) \in Nat /\ DOMAIN cands = 1..Len(cands)
            /\ DOMAIN cands' = 1..Len(cands) + 1 /\ cands'[Len(cands) + 1] = e
            /\ \A i \in DOMAIN cands : i \in DOMAIN cands' /\ cands'[i] = cands[i]
            BY <1>1, <1>2, <2>1
      <2>3. \A j \in DOMAIN cands' : \/ j \in DOMAIN cands /\ cands'[j] = cands[j]
                                     \/ /\ Places(cands'[j], a) = new
                                        /\ \A i \in DOMAIN cands' : i <= j
            BY <1>1, <2>2
      <2>4. ASSUME NEW x \in Ahead(a)' PROVE x \in Ahead(a) \cup new
            <3>1. PICK i \in DOMAIN cands' : x \in Places(cands'[i], a)
                  BY <1>4
            <3>2. QED  BY <2>3, <3>1 DEF Ahead
      <2>5. ASSUME NEW x \in Ahead(a) PROVE x \in Ahead(a)'
            <3>1. PICK i \in DOMAIN cands : x \in Places(cands[i], a)
                  BY DEF Ahead
            <3>2. QED  BY <1>4, <2>2, <3>1
      <2>6. ASSUME NEW x \in new PROVE x \in Ahead(a)'
            <3>1. Len(cands) + 1 \in DOMAIN cands' /\ x \in Places(cands'[Len(cands) + 1], a)
                  BY <1>1, <2>2
            <3>2. QED  BY <1>4, <3>1
      <2>7. Ahead(a)' = Ahead(a) \cup new
            BY <2>4, <2>5, <2>6
      <2>8. Pending(a)' = Pending(a) \cup new
            BY <1>3, <2>7 DEF Pending
      <2>9. QED  BY <1>3, <2>2, <2>3, <2>7, <2>8 DEF new
<1>7. QED  BY <1>5, <1>6

LEMMA StageKeeps ==
    ASSUME NEW a \in Int, NEW s \in Nat, NEW f \in s..Len0, NEW h \in f..Len0,
           ConfirmInv(a, s, f), NEW base \in Int, NEW bits \in SUBSET (Nat \X Buckets),
           StageStep(base, bits),
           \A b \in bits : base + b[1] + a \in f..h-1,
           \A b \in Buckets : \A n \in DOMAIN LitsOf(b) : \A end \in f..h-1 :
               ToFind(LitsOf(b)[n], s, end) => <<end - base - a, b>> \in bits
    PROVE  ConfirmInv(a, s, h)'
<1> DEFINE new == {<<base + b[1] + a, b[2]>> : b \in bits}
<1>1. /\ ConfirmType /\ OrderInv(a, s, f) /\ SquashInv(a) /\ LastInv /\ OccurInv /\ FoundInv(a, s, f)
      BY DEF ConfirmInv
<1>2. /\ cands' \in Seq(Block) /\ Ahead(a)' = Ahead(a) \cup new
      /\ Pending(a)' = Pending(a) \cup new /\ Places(word, a) = {} /\ Places(word, a)' = {}
      /\ \A j \in DOMAIN cands' : \/ j \in DOMAIN cands /\ cands'[j] = cands[j]
                                  \/ /\ Places(cands'[j], a) = new
                                     /\ \A i \in DOMAIN cands' : i <= j
      BY <1>1, StagePlaces
<1>3. /\ UNCHANGED <<table, buf, word, chain, control, lastMatch, hits>>
      /\ ~InChain /\ ~InChain' /\ at' \notin {"bits", "chain", "callback", "terminated"}
      /\ at # "terminated"
      BY DEF StageStep, InChain
<1>4. Len0 \in Nat /\ f \in Int /\ h \in Int /\ s <= f /\ f <= h
      BY <1>1, Tabled
<1>5. \A x \in new : x[1] \in f..h-1
      OBVIOUS
<1>6. \A x \in Pending(a) : x[1] \in s..f-1
      BY <1>1 DEF OrderInv
<1>7. ConfirmType'
      <2>1. word.bits = {}
            BY <1>1, <1>3 DEF ConfirmType, StageStep
      <2>2. QED  BY <1>1, <1>2, <1>3, <2>1 DEF ConfirmType, InChain, Block, Buckets, HitRecord, LitsOf
<1> HIDE DEF new
<1>8. OrderInv(a, s, h)'
      <2>1. \A x \in Pending(a)' : x[1] \in s..h-1
            BY <1>2, <1>4, <1>5, <1>6
      <2>2. ASSUME NEW i \in DOMAIN cands', NEW j \in DOMAIN cands', i < j,
                   NEW x \in Places(cands'[i], a), NEW y \in Places(cands'[j], a)
            PROVE  x[1] < y[1]
            <3>1. i \in DOMAIN cands /\ cands'[i] = cands[i]
                  <4>1. i \in Int /\ j \in Int
                        BY <1>2
                  <4>2. ~(j <= i)
                        BY <2>2, <4>1
                  <4>3. QED  BY <1>2, <4>2
            <3>2. CASE j \in DOMAIN cands /\ cands'[j] = cands[j]
                  BY <1>1, <2>2, <3>1, <3>2 DEF OrderInv
            <3>3. CASE Places(cands'[j], a) = new
                  <4>1. x \in Pending(a)
                        BY <2>2, <3>1 DEF Pending, Ahead
                  <4>2. QED  BY <1>4, <1>5, <1>6, <2>2, <3>3, <4>1
            <3>4. QED  BY <1>2, <3>2, <3>3
      <2>3. ASSUME NEW i \in DOMAIN hits
            PROVE  hits[i].end < h /\ \A x \in Pending(a)' : HitBefore(hits[i], x)
            <3>1. hits[i].end < f /\ hits[i].end \in Nat
                  BY <1>1, HitTyped DEF OrderInv
            <3>2. \A x \in new : HitBefore(hits[i], x)
                  BY <1>4, <1>5, <3>1 DEF HitBefore, HitBeforeAt, Before
            <3>3. \A x \in Pending(a) : HitBefore(hits[i], x)
                  BY <1>1 DEF OrderInv
            <3>4. QED  BY <1>2, <1>4, <3>1, <3>2, <3>3
      <2>4. \A i, j \in DOMAIN hits : i < j => InOrder(hits[i], hits[j])
            BY <1>1 DEF OrderInv
      <2>5. QED  BY <1>2, <1>3, <2>1, <2>2, <2>3, <2>4 DEF OrderInv
<1>9. SquashInv(a)'
      <2>1. ASSUME NEW i \in DOMAIN hits, NEW x \in new PROVE hits[i].end # x[1]
            <3>1. hits[i].end < f /\ hits[i].end \in Nat
                  BY <1>1, HitTyped DEF OrderInv
            <3>2. QED  BY <1>4, <1>5, <3>1
      <2>2. \A i \in DOMAIN hits, x \in Pending(a) : ~(hits[i].end = x[1] /\ x[2] \in hits[i].squash)
            BY <1>1, <1>3 DEF SquashInv
      <2>3. QED  BY <1>2, <1>3, <2>1, <2>2 DEF SquashInv
<1>10. LastInv' /\ WindowInv' /\ WalkInv(a, s, h)'
      BY <1>1, <1>3 DEF LastInv, WindowInv, WalkInv
<1>11. OccurInv'
      BY <1>1, <1>3 DEF OccurInv, IsOccurrence, Occurs, LitsOf, Len0
<1>12. FoundInv(a, s, h)'
      <2>1. ASSUME control, NEW b \in Buckets, NEW n \in DOMAIN LitsOf(b), NEW l \in {LitsOf(b)[n]},
                   NEW end \in s..h-1, ToFind(l, s, end)
            PROVE  Waits(a, end, b, n)' \/ Settled(a, l, end, b, n)'
            <3>1. CASE end \in f..h-1
                  <4>1. <<end - base - a, b>> \in bits
                        BY <2>1, <3>1
                  <4>2. base + (end - base - a) + a = end
                        BY <3>1, <1>4
                  <4>3. <<end, b>> \in new
                        BY <4>1, <4>2 DEF new
                  <4>4. QED  BY <1>2, <4>3 DEF Waits
            <3>2. CASE end \in s..f-1
                  <4>1. Waits(a, end, b, n) \/ Settled(a, l, end, b, n)
                        BY <1>1, <2>1, <3>2 DEF FoundInv
                  <4>2. Waits(a, end, b, n) => Waits(a, end, b, n)'
                        BY <1>2, <1>3 DEF Waits
                  <4>3. Reported(l, end) => Reported(l, end)'
                        BY <1>3 DEF Reported
                  <4>4. LeftOutBySquash(end, b) => LeftOutBySquash(end, b)'
                        BY <1>3 DEF LeftOutBySquash
                  <4>5. LeftOutAsRepeat(l, end, b, n) => LeftOutAsRepeat(l, end, b, n)'
                        BY <1>3 DEF LeftOutAsRepeat, Before
                  <4>6. \A x \in new : end < x[1]
                        BY <1>4, <1>5, <3>2
                  <4>7. Passed(a, end, b, n) => Passed(a, end, b, n)'
                        BY <1>2, <1>3, <4>6 DEF Passed
                  <4>8. QED  BY <4>1, <4>2, <4>3, <4>4, <4>5, <4>7 DEF Settled
            <3>3. QED  BY <1>4, <3>1, <3>2
      <2>2. \A l, end : ToFind(l, s, end)' => ToFind(l, s, end)
            BY <1>3 DEF ToFind, Occurs, Len0
      <2>3. QED  BY <1>3, <2>1, <2>2 DEF FoundInv, Buckets, LitsOf
<1>13. QED  BY <1>7, <1>8, <1>9, <1>10, <1>11, <1>12 DEF ConfirmInv

\* When the engine has looked at the whole buffer and confirmed all that it
\* found, nothing is missing.
LEMMA AllFound ==
    ASSUME NEW a \in Int, NEW s \in Nat, ConfirmInv(a, s, Len0),
           cands = <<>>, at \notin {"bits", "chain", "callback", "terminated"}, control
    PROVE  FoundAll(s, TRUE)
<1>1. word.bits = {} /\ DOMAIN cands = {} /\ ~InChain
      BY DEF ConfirmInv, ConfirmType, InChain
<1>2. Pending(a) = {}
      BY <1>1 DEF Pending, Ahead, Places
<1>3. ASSUME NEW b \in Buckets, NEW n \in DOMAIN LitsOf(b), NEW end \in s..Len0-1,
             ToFind(LitsOf(b)[n], s, end)
      PROVE  Settled(a, LitsOf(b)[n], end, b, n)
      <2>1. Waits(a, end, b, n) \/ Settled(a, LitsOf(b)[n], end, b, n)
            BY <1>3 DEF ConfirmInv, FoundInv
      <2>2. QED  BY <1>1, <1>2, <2>1 DEF Waits
<1>4. QED  BY <1>3 DEF FoundAll, Buckets, LitsOf, ToFind, Settled, Reported

LEMMA OnlyFound ==
    ASSUME OccurInv, \A i \in DOMAIN hits : hits[i].flood => IsOccurrence(hits[i])
    PROVE  OnlyOccurrences
<1>1. \A i \in DOMAIN hits : IsOccurrence(hits[i])
      BY DEF OccurInv
<1>2. QED  BY <1>1 DEF IsOccurrence, OnlyOccurrences, LitsOf

-----------------------------------------------------------------------------
(***************************************************************************)
(* The hits as a stream.                                                   *)
(***************************************************************************)
HitStep ==
    /\ StreamEnd' >= StreamEnd
    /\ IF StreamEnd' = StreamEnd
       THEN /\ StreamLit' \notin StreamUsed
            /\ StreamBucket' \in StreamSquashed => StreamBucket' = StreamBucket
            /\ StreamUsed \cup {StreamLit'} \subseteq StreamUsed'
            /\ StreamSquashed' = StreamSquashed
       ELSE StreamLit' \in StreamUsed' /\ StreamSquashed' = {}

LEMMA AppendStreams ==
    ASSUME ConfirmType, NEW h \in HitRecord, hits' = Append(hits, h), h.squash = {},
           \A i, j \in DOMAIN hits : i < j => InOrder(hits[i], hits[j]),
           \A i \in DOMAIN hits : hits[i].end <= h.end,
           \A i \in DOMAIN hits : hits[i].end = h.end =>
               /\ <<hits[i].bucket, hits[i].n>> # <<h.bucket, h.n>>
               /\ h.bucket \in hits[i].squash => LastHit.bucket = h.bucket
    PROVE  HitStep
<1>1. /\ hits \in Seq(HitRecord) /\ Len(hits) \in Nat /\ DOMAIN hits = 1..Len(hits)
      /\ Len(hits') = Len(hits) + 1 /\ DOMAIN hits' = 1..Len(hits) + 1 /\ hits' # <<>>
      /\ hits'[Len(hits) + 1] = h
      /\ \A i \in DOMAIN hits : i \in DOMAIN hits' /\ hits'[i] = hits[i]
      BY DEF ConfirmType
<1> DEFINE z == Len(hits) + 1
<1>2. LastHit' = h /\ z \in DOMAIN hits'
      BY <1>1 DEF LastHit
<1>3. /\ StreamEnd' = h.end /\ StreamLit' = <<h.bucket, h.n>> /\ StreamBucket' = h.bucket
      BY <1>1, <1>2 DEF StreamEnd, StreamLit, StreamBucket
<1>4. HitsAtEnd' = {i \in DOMAIN hits' : hits'[i].end = h.end}
      BY <1>1, <1>2 DEF HitsAtEnd
<1>5. h.end \in Nat
      BY DEF HitRecord
<1>6. z \in HitsAtEnd' /\ StreamLit' \in StreamUsed'
      BY <1>1, <1>2, <1>3, <1>4 DEF StreamUsed
<1>7. CASE hits = <<>>
      <2>1. StreamEnd = 0 /\ HitsAtEnd = {} /\ StreamUsed = {} /\ StreamSquashed = {}
            BY <1>7 DEF StreamEnd, HitsAtEnd, StreamUsed, StreamSquashed
      <2>2. DOMAIN hits' = {z}
            BY <1>1, <1>7
      <2>3. StreamSquashed' = {}
            BY <1>1, <1>4, <2>2 DEF StreamSquashed
      <2>4. QED  BY <1>3, <1>5, <1>6, <2>1, <2>3 DEF HitStep
<1>8. CASE hits # <<>>
      <2> DEFINE y == Len(hits)
      <2>1. y \in DOMAIN hits /\ LastHit = hits[y] /\ StreamEnd = hits[y].end
            BY <1>1, <1>8 DEF LastHit, StreamEnd
      <2>2. HitsAtEnd = {i \in DOMAIN hits : hits[i].end = hits[y].end}
            BY <1>8, <2>1 DEF HitsAtEnd
      <2>3. ASSUME NEW i \in DOMAIN hits PROVE hits[i].end <= hits[y].end
            <3>1. i = y \/ i < y
                  BY <1>1
            <3>2. hits[i].end \in Nat /\ hits[y].end \in Nat
                  BY <2>1, HitTyped
            <3>3. QED  BY <2>1, <3>1, <3>2 DEF InOrder
      <2>4. hits[y].end <= h.end /\ hits[y].end \in Nat
            BY <2>1, HitTyped
      <2>5. CASE h.end = hits[y].end
            <3>1. HitsAtEnd' = HitsAtEnd \cup {z}
                  BY <1>1, <1>2, <1>4, <2>2, <2>5
            <3>2. StreamUsed \subseteq StreamUsed'
                  BY <1>1, <2>2, <3>1 DEF StreamUsed
            <3>3. StreamSquashed' = StreamSquashed
                  <4>1. \A i \in HitsAtEnd : hits'[i].squash = hits[i].squash
                        BY <1>1, <2>2
                  <4>2. hits'[z].squash = {}
                        BY <1>1
                  <4>3. ASSUME NEW b PROVE b \in StreamSquashed' <=> b \in StreamSquashed
                        <5>1. b \in StreamSquashed' <=> \E i \in HitsAtEnd' : b \in hits'[i].squash
                              BY DEF StreamSquashed
                        <5>2. b \in StreamSquashed <=> \E i \in HitsAtEnd : b \in hits[i].squash
                              BY DEF StreamSquashed
                        <5>3. QED  BY <3>1, <4>1, <4>2, <5>1, <5>2
                  <4>4. QED  BY <4>3 DEF StreamSquashed
            <3>4. StreamLit' \notin StreamUsed
                  BY <1>3, <2>2, <2>5 DEF StreamUsed
            <3>5. StreamBucket' \in StreamSquashed => StreamBucket' = StreamBucket
                  BY <1>3, <1>8, <2>2, <2>5 DEF StreamSquashed, StreamBucket
            <3>6. QED  BY <1>3, <1>6, <2>1, <2>4, <2>5, <3>2, <3>3, <3>4, <3>5 DEF HitStep
      <2>6. CASE h.end # hits[y].end
            <3>1. ASSUME NEW i \in DOMAIN hits PROVE hits[i].end # h.end
                  <4>1. hits[i].end \in Nat
                        BY HitTyped
                  <4>2. QED  BY <1>5, <2>3, <2>4, <2>6, <4>1
            <3>2. HitsAtEnd' = {z}
                  BY <1>1, <1>2, <1>4, <3>1
            <3>3. StreamSquashed' = {}
                  BY <1>1, <3>2 DEF StreamSquashed
            <3>4. QED  BY <1>3, <1>5, <1>6, <2>1, <2>4, <2>6, <3>3 DEF HitStep
      <2>7. QED  BY <2>5, <2>6
<1>9. QED  BY <1>7, <1>8

LEMMA ReportStreams ==
    ASSUME NEW a \in Int, NEW s \in Nat, NEW f \in 0..Len0, ConfirmInv(a, s, f), ReportStep
    PROVE  HitStep
<1> DEFINE h == Hit(Literal.id, chain.bucket, chain.n, chain.end, FALSE)
<1>1. ConfirmType /\ OrderInv(a, s, f) /\ WalkInv(a, s, f) /\ SquashInv(a)
      BY DEF ConfirmInv
<1>2. /\ hits' = Append(hits, h) /\ h \in HitRecord
      /\ h.bucket = chain.bucket /\ h.n = chain.n /\ h.end = chain.end /\ h.squash = {}
      BY <1>1, ReportHits
<1>3. InChain /\ at = "chain"
      BY DEF ReportStep, InChain
<1>4. chain.end \in Nat /\ chain.bucket \in Nat /\ chain.n \in Nat
      BY <1>1, <1>3, WalkTyped, Tabled
<1> HIDE DEF h
<1>5. \A i, j \in DOMAIN hits : i < j => InOrder(hits[i], hits[j])
      BY <1>1 DEF OrderInv
<1>6. ASSUME NEW i \in DOMAIN hits
      PROVE  /\ hits[i].end <= h.end
             /\ hits[i].end = h.end =>
                   /\ <<hits[i].bucket, hits[i].n>> # <<h.bucket, h.n>>
                   /\ h.bucket \in hits[i].squash => LastHit.bucket = h.bucket
      <2>1. \A j \in DOMAIN hits : HitBeforeAt(hits[j], chain.end, chain.bucket, chain.n)
            BY <1>1, <1>3 DEF WalkInv
      <2>2. /\ hits[i].end \in Nat /\ hits[i].bucket \in Nat /\ hits[i].n \in Nat
            /\ hits[i].flood \in BOOLEAN /\ Len(hits) \in Nat /\ i <= Len(hits) /\ i \in Nat \ {0}
            BY <1>1, HitTyped
      <2>3. hits[i].end <= h.end /\ (hits[i].end = h.end => <<hits[i].bucket, hits[i].n>> # <<h.bucket, h.n>>)
            BY <1>2, <1>4, <2>1, <2>2 DEF HitBeforeAt, Before
      <2>4. ASSUME hits[i].end = h.end, h.bucket \in hits[i].squash
            PROVE  LastHit.bucket = h.bucket
            <3>1. hits[i].bucket = chain.bucket
                  BY <1>1, <1>2, <1>3, <2>4 DEF SquashInv
            <3>2. CASE i = Len(hits)
                  BY <1>2, <3>1, <3>2 DEF LastHit
            <3>3. CASE i < Len(hits)
                  <4>1. Len(hits) \in DOMAIN hits
                        BY <1>1, <2>2 DEF ConfirmType
                  <4>2. InOrder(hits[i], LastHit) /\ HitBeforeAt(LastHit, chain.end, chain.bucket, chain.n)
                        BY <1>5, <2>1, <3>3, <4>1 DEF LastHit
                  <4>3. LastHit.end \in Nat /\ LastHit.bucket \in Nat
                        BY <1>1, <4>1, HitTyped DEF LastHit
                  <4>4. ~hits[i].flood
                        BY <1>2, <2>1, <2>2, <1>4, <2>4 DEF HitBeforeAt
                  <4>5. LastHit.end = chain.end /\ hits[i].bucket <= LastHit.bucket
                        BY <1>2, <1>4, <2>2, <2>4, <4>2, <4>3, <4>4 DEF InOrder, HitBeforeAt, Before
                  <4>6. LastHit.bucket <= chain.bucket
                        BY <1>4, <4>2, <4>3, <4>5 DEF HitBeforeAt, Before
                  <4>7. QED  BY <1>2, <1>4, <3>1, <4>3, <4>5, <4>6
            <3>4. QED  BY <2>2, <3>2, <3>3
      <2>5. QED  BY <2>3, <2>4
<1>7. QED  BY <1>1, <1>2, <1>5, <1>6, AppendStreams

\* An answer adds what it squashes, and nothing else.
LEMMA AnswerStreams ==
    ASSUME ConfirmType, hits # <<>>, LastHit.squash = {},
           NEW reply \in Replies, NEW squash \in Squashed, Answered(reply, squash)
    PROVE  /\ StreamSquashed \subseteq StreamSquashed'
           /\ UNCHANGED <<StreamEnd, StreamLit, StreamBucket, StreamUsed>>
<1>1. /\ Len(hits') = Len(hits) /\ DOMAIN hits' = DOMAIN hits /\ Len(hits) \in DOMAIN hits
      /\ \A i \in DOMAIN hits :
            /\ hits'[i].bucket = hits[i].bucket /\ hits'[i].n = hits[i].n
            /\ hits'[i].end = hits[i].end
            /\ hits'[i].squash = IF i = Len(hits) THEN squash ELSE hits[i].squash
      BY AnsweredHits
<1>2. hits' # <<>>
      <2>1. hits' \in Seq(HitRecord)
            BY AnsweredHits
      <2>2. QED  BY <1>1, <2>1
<1>3. UNCHANGED <<StreamEnd, StreamLit, StreamBucket>>
      BY <1>1, <1>2 DEF StreamEnd, StreamLit, StreamBucket, LastHit
<1>4. HitsAtEnd = {i \in DOMAIN hits : hits[i].end = hits[Len(hits)].end}
      BY DEF HitsAtEnd, LastHit
<1>5. HitsAtEnd' = {i \in DOMAIN hits' : hits'[i].end = hits'[Len(hits')].end}
      BY <1>2 DEF HitsAtEnd, LastHit
<1>6. HitsAtEnd' = HitsAtEnd
      BY <1>1, <1>4, <1>5
<1>7. \A i \in HitsAtEnd : i \in DOMAIN hits
      BY <1>4
<1>8. StreamUsed' = StreamUsed
      BY <1>1, <1>6, <1>7 DEF StreamUsed
<1>9. \A i \in HitsAtEnd : hits[i].squash \subseteq hits'[i].squash
      BY <1>1, <1>7 DEF LastHit
<1>10. StreamSquashed \subseteq StreamSquashed'
      BY <1>6, <1>9 DEF StreamSquashed
<1>11. QED  BY <1>3, <1>8, <1>10

LEMMA HitsStay ==
    ASSUME hits' = hits
    PROVE  UNCHANGED <<StreamEnd, StreamLit, StreamBucket, StreamUsed, StreamSquashed>>
BY DEF StreamEnd, StreamLit, StreamBucket, StreamUsed, StreamSquashed, HitsAtEnd, LastHit

LEMMA ConfirmStays ==
    ASSUME NEW a, NEW s, NEW f, ConfirmInv(a, s, f), UNCHANGED <<at, Rest>>
    PROVE  ConfirmInv(a, s, f)'
<1>1. /\ UNCHANGED <<table, buf, at, cands, word, chain, control, lastMatch, hits>>
      /\ UNCHANGED <<Buckets, Chain, Literal, Len0, Pending(a), Places(word, a), Ahead(a)>>
      /\ \A b : LitsOf(b)' = LitsOf(b)
      /\ InChain' <=> InChain
      BY DEF Rest, Buckets, Chain, Literal, Len0, Pending, Places, Ahead, LitsOf, InChain
<1>2. ConfirmType /\ OrderInv(a, s, f) /\ WalkInv(a, s, f)
      /\ SquashInv(a) /\ LastInv /\ WindowInv /\ OccurInv
      /\ FoundInv(a, s, f)
      BY DEF ConfirmInv
<1>3. ConfirmType'
      BY <1>1, <1>2 DEF ConfirmType, Block, HitRecord
<1>4. OrderInv(a, s, f)' /\ SquashInv(a)' /\ LastInv' /\ WindowInv'
      BY <1>1, <1>2 DEF OrderInv, SquashInv, LastInv, WindowInv, Places
<1>5. WalkInv(a, s, f)' /\ OccurInv'
      BY <1>1, <1>2 DEF WalkInv, OccurInv, IsOccurrence, Occurs, LastHit
<1>6. ASSUME NEW b \in Buckets, NEW n, NEW l, NEW end, Waits(a, end, b, n) \/ Settled(a, l, end, b, n)
      PROVE  Waits(a, end, b, n)' \/ Settled(a, l, end, b, n)'
      <2>1. Waits(a, end, b, n)' <=> Waits(a, end, b, n)
            BY <1>1 DEF Waits
      <2>2. Reported(l, end)' <=> Reported(l, end)
            BY <1>1 DEF Reported
      <2>3. LeftOutBySquash(end, b)' <=> LeftOutBySquash(end, b)
            BY <1>1 DEF LeftOutBySquash
      <2>4. LeftOutAsRepeat(l, end, b, n)' <=> LeftOutAsRepeat(l, end, b, n)
            BY <1>1 DEF LeftOutAsRepeat
      <2>5. Passed(a, end, b, n)' <=> Passed(a, end, b, n)
            BY <1>1 DEF Passed
      <2>6. QED  BY <1>6, <2>1, <2>2, <2>3, <2>4, <2>5 DEF Settled
<1>7. FoundInv(a, s, f)'
      <2>1. \A l, end : ToFind(l, s, end)' => ToFind(l, s, end)
            BY <1>1 DEF ToFind, Occurs
      <2>2. QED  BY <1>1, <1>2, <1>6, <2>1 DEF FoundInv
<1>8. QED  BY <1>3, <1>4, <1>5, <1>7 DEF ConfirmInv
=============================================================================
