--------------------------- MODULE TeddyScanProofs ---------------------------
(***************************************************************************)
(* The Teddy engine, for every table, buffer and width of a block.  cbuf   *)
(* has room for every block, the one of the tail included; a mask leaves   *)
(* the candidate bits of all literals that end at its byte, so that what   *)
(* the engine has looked at is told or waits in cbuf; and the answers come *)
(* in order, so the engine is the stream that its caller relies on.        *)
(***************************************************************************)
EXTENDS TeddyScan, ConfirmProofs

\* Room for one more block is what the scan loop keeps.
RoomInv ==
    /\ \E S : cands \in Seq(S)
    /\ Len(cands) <= CAP
    /\ at = "scan" => Len(cands) < CAP

LEMMA RoomInit == Init => RoomInv
<1> SUFFICES ASSUME Init PROVE RoomInv
    OBVIOUS
<1>1. cands \in Seq({}) /\ Len(cands) = 0
      BY DEF Init, ConfirmInit
<1>2. QED  BY <1>1, ConfirmAssumption DEF RoomInv

\* A block adds one entry or none.
LEMMA StageAddsOne ==
    ASSUME RoomInv, NEW base, NEW bits, Stage(base, bits)
    PROVE  (\E S : cands' \in Seq(S)) /\ Len(cands') <= Len(cands) + 1
<1>1. PICK S : cands \in Seq(S)
      BY DEF RoomInv
<1> DEFINE e == [base |-> base, bits |-> bits]
           U == S \cup {e}
<1>2. cands \in Seq(U) /\ e \in U
      BY <1>1
<1>3. CASE bits = {}
      BY <1>2, <1>3 DEF Stage
<1>4. CASE bits # {}
      <2>1. cands' = Append(cands, e)
            BY <1>4 DEF Stage
      <2> HIDE DEF e, U
      <2>2. cands' \in Seq(U) /\ Len(cands') = Len(cands) + 1
            BY <1>2, <2>1
      <2>3. QED  BY <1>2, <2>2
<1>5. QED  BY <1>3, <1>4

LEMMA TakeLeavesRoom ==
    ASSUME RoomInv, cands # <<>>, TakeCandidate
    PROVE  (\E S : cands' \in Seq(S)) /\ Len(cands') < Len(cands)
<1>1. PICK S : cands \in Seq(S)
      BY DEF RoomInv
<1>2. cands' = Tail(cands)
      BY DEF TakeCandidate
<1>3. cands' \in Seq(S) /\ Len(cands') = Len(cands) - 1
      BY <1>1, <1>2
<1>4. Len(cands) \in Nat
      BY <1>1
<1>5. QED  BY <1>3, <1>4

LEMMA RoomStep == RoomInv /\ [Next]_vars => RoomInv'
<1> SUFFICES ASSUME RoomInv, [Next]_vars PROVE RoomInv'
    OBVIOUS
<1>0. CAP \in Nat \ {0} /\ Len(cands) \in Nat
      BY ConfirmAssumption DEF RoomInv
<1>1. CASE ScanBlock
      <2>1. Stage(p, BlockBits(ITER_BYTES)) /\ at = "scan"
            /\ at' = IF Len(cands') >= CAP THEN "flush" ELSE "scan"
            BY <1>1 DEF ScanBlock, FullAt
      <2>2. (\E S : cands' \in Seq(S)) /\ Len(cands') <= Len(cands) + 1
            BY <2>1, StageAddsOne
      <2>3. Len(cands') \in Nat
            BY <2>2
      <2>4. QED  BY <1>0, <2>1, <2>2, <2>3 DEF RoomInv
<1>2. CASE ScanTail
      <2>1. Stage(p, BlockBits(TailBytes)) /\ at = "scan" /\ at' = "flush"
            BY <1>2 DEF ScanTail
      <2>2. (\E S : cands' \in Seq(S)) /\ Len(cands') <= Len(cands) + 1
            BY <2>1, StageAddsOne
      <2>3. Len(cands') \in Nat
            BY <2>2
      <2>4. QED  BY <1>0, <2>1, <2>2, <2>3 DEF RoomInv
<1>3. CASE FlushNext
      <2>1. CASE cands # <<>>
            <3>1. TakeCandidate /\ at' = "bits"
                  BY <1>3, <2>1 DEF FlushNext
            <3>2. (\E S : cands' \in Seq(S)) /\ Len(cands') < Len(cands)
                  BY <2>1, <3>1, TakeLeavesRoom
            <3>3. Len(cands') \in Nat
                  BY <3>2
            <3>4. QED  BY <1>0, <3>1, <3>2, <3>3 DEF RoomInv
      <2>2. CASE cands = <<>>
            BY <1>0, <1>3, <2>2 DEF FlushNext, RoomInv
      <2>3. QED  BY <2>1, <2>2
<1>4. CASE BitsDone \/ NextBit
      BY <1>4 DEF BitsDone, NextBit, confirmVars, RoomInv
<1>5. CASE PassLiteral \/ ReportLiteral \/ AnswerLiteral \/ ChainDone
      BY <1>5 DEF PassLiteral, ReportLiteral, AnswerLiteral, ChainDone, RoomInv
<1>6. CASE Finished \/ UNCHANGED vars
      BY <1>6 DEF Finished, vars, confirmVars, RoomInv
<1>7. QED
      BY <1>1, <1>2, <1>3, <1>4, <1>5, <1>6 DEF Next

-----------------------------------------------------------------------------
\* The queue of candidate blocks never outgrows its array.
THEOREM QueueNeverOverflows == Spec => []QueueFits
<1>1. RoomInv => QueueFits
      BY DEF RoomInv, QueueFits
<1>2. QED  BY <1>1, RoomInit, RoomStep, PTL DEF Spec

-----------------------------------------------------------------------------
(***************************************************************************)
(* What the engine finds: it has looked at the buffer from start to        *)
(* Reached, and the confirm keeps its part (ConfirmProofs).                *)
(***************************************************************************)
Reached == IF ended THEN Len0 ELSE p

PlaceInv ==
    /\ start \in Nat /\ p \in start..Len0 /\ ended \in BOOLEAN
    /\ at \in {"scan", "flush", "bits", "chain", "callback", "completed", "terminated"}
    /\ at = "scan" => ~ended
    /\ at = "completed" => ended /\ cands = <<>>
    /\ control <=> at # "terminated"
    /\ \A i \in DOMAIN hits : hits[i].flood = FALSE

SearchInv ==
    /\ PlaceInv
    /\ \E s \in Nat, f \in Nat : s = start /\ f = Reached /\ ConfirmInv(0, s, f)

\* The masks leave out no literal: a block proposes what ends in it.
LEMMA BlockProposes ==
    ASSUME ConfirmType, p \in Nat, NEW s \in Nat, NEW bytes \in Nat,
           NEW b \in Buckets, NEW n \in DOMAIN LitsOf(b), NEW end \in p..p+bytes-1,
           ToFind(LitsOf(b)[n], s, end)
    PROVE  <<end - p, b>> \in BlockBits(bytes)
<1> DEFINE l == LitsOf(b)[n]
           x == end - p
<1>1. /\ \A k \in 0..Smaller(Len(l.lit), CONF_BYTES) - 1 : buf[end + 1 - k] = l.lit[Len(l.lit) - k]
      /\ Len(l.lit) \in Nat
      BY LitTyped DEF ToFind, Occurs
<1>2. x \in 0..bytes-1 /\ p + x = end /\ end \in Nat
      OBVIOUS
<1>3. table.masks \in 1..CONF_BYTES /\ CONF_BYTES \in Nat
      BY TeddyAssumption, ConfirmAssumption DEF ConfirmType
<1> HIDE DEF l, x
<1>4. ASSUME NEW m \in 0..Smaller(table.masks - 1, x)
      PROVE  MayHave(l, buf[p + x - m + 1], m)
      <2>1. m \in Nat /\ m < CONF_BYTES
            BY <1>2, <1>3 DEF Smaller
      <2>2. p + x - m + 1 = end + 1 - m
            BY <1>2, <2>1
      <2>3. CASE m < Len(l.lit)
            <3>1. m \in 0..Smaller(Len(l.lit), CONF_BYTES) - 1
                  BY <1>1, <1>3, <2>1, <2>3 DEF Smaller
            <3>2. QED  BY <1>1, <2>2, <3>1 DEF MayHave
      <2>4. CASE ~(m < Len(l.lit))
            BY <1>1, <2>1, <2>4 DEF MayHave
      <2>5. QED  BY <2>3, <2>4
<1>5. \A m \in 0..Smaller(table.masks - 1, x) :
          \E k \in DOMAIN table.chains[b] : MayHave(table.chains[b][k], buf[p + x - m + 1], m)
      BY <1>4 DEF l, LitsOf
<1>6. <<x, b>> \in (0..bytes-1) \X DOMAIN table.chains
      BY <1>2 DEF Buckets
<1>7. <<x, b>> \in BlockBits(bytes)
      BY <1>5, <1>6 DEF BlockBits
<1>8. QED  BY <1>7 DEF x

LEMMA BlockKeeps ==
    ASSUME SearchInv, at = "scan", NEW bytes \in Nat, p + bytes <= Len0,
           Stage(p, BlockBits(bytes)), at' \in {"scan", "flush"},
           UNCHANGED <<table, buf, word, chain, control, lastMatch, hits, start>>
    PROVE  \E s \in Nat, f \in Nat : s = start' /\ f = p + bytes /\ ConfirmInv(0, s, f)'
<1>1. PICK s \in Nat, f \in Nat : s = start /\ f = Reached /\ ConfirmInv(0, s, f)
      BY DEF SearchInv
<1>2. f = p /\ p \in s..Len0 /\ Len0 \in Nat /\ ConfirmType
      BY <1>1, Tabled DEF SearchInv, PlaceInv, Reached, ConfirmInv
<1> DEFINE bits0 == BlockBits(bytes)
<1>3. PICK base \in Int : base = p
      BY <1>2
<1>4. PICK h \in Nat : h = p + bytes
      BY <1>2
<1>5. PICK bits : bits = BlockBits(bytes)
      OBVIOUS
<1>6. bits \in SUBSET (Nat \X Buckets) /\ \A b \in bits : b[1] \in 0..bytes-1
      BY <1>5 DEF BlockBits, Buckets
<1>7. StageStep(base, bits)
      BY <1>3, <1>5 DEF StageStep
<1>8. \A b \in bits : base + b[1] + 0 \in f..h-1
      BY <1>2, <1>3, <1>4, <1>6
<1>9. ASSUME NEW b \in Buckets, NEW n \in DOMAIN LitsOf(b), NEW end \in f..h-1,
             ToFind(LitsOf(b)[n], s, end)
      PROVE  <<end - base - 0, b>> \in bits
      <2>1. end - base - 0 = end - p /\ end \in p..p+bytes-1 /\ p \in Nat
            BY <1>2, <1>3, <1>4
      <2>2. <<end - p, b>> \in BlockBits(bytes)
            BY <1>2, <1>9, <2>1, BlockProposes
      <2>3. QED  BY <1>5, <2>1, <2>2
<1>10. f \in s..Len0 /\ h \in f..Len0
      BY <1>2, <1>4
<1>11. ConfirmInv(0, s, h)'
      BY <1>1, <1>6, <1>7, <1>8, <1>9, <1>10, <1>3, StageKeeps
<1>12. QED  BY <1>1, <1>4, <1>11

\* The other steps are the steps of the confirm.
Confirms ==
    \/ FlushNext \/ BitsDone \/ NextBit
    \/ PassLiteral \/ ReportLiteral \/ AnswerLiteral \/ ChainDone

LEMMA ConfirmsConfirm ==
    ASSUME SearchInv, Confirms
    PROVE  ConfirmStep(0)
<1>1. CASE FlushNext
      <2>1. CASE cands # <<>>
            BY <1>1, <2>1 DEF FlushNext, ConfirmStep, TakeStep
      <2>2. CASE cands = <<>>
            BY <1>1, <2>2 DEF FlushNext, ConfirmStep, RestStep, Rest
      <2>3. QED  BY <2>1, <2>2
<1>2. CASE BitsDone
      BY <1>2 DEF BitsDone, ConfirmStep, RestStep, Rest, confirmVars
<1>3. CASE NextBit
      <2>1. PICK b \in word.bits :
                /\ IsLowestBit(b) /\ word' = [word EXCEPT !.bits = @ \ {b}]
                /\ StartChain(b, word.base + b[1], WindowOf(word.base + b[1]))
            BY <1>3 DEF NextBit
      <2>2. word.base + b[1] + 0 = word.base + b[1]
            <3>1. word \in Block
                  BY DEF SearchInv, ConfirmInv, ConfirmType
            <3>2. word.base \in Int /\ b[1] \in Nat
                  BY <3>1 DEF Block
            <3>3. QED  BY <3>2
      <2>3. WindowOf(word.base + b[1]) = WindowOn(word.base + b[1] + 0)
            BY <2>2 DEF WindowOf, WindowOn
      <2>4. TakeBit(b) /\ at' = "chain"
            BY <1>3, <2>1 DEF NextBit, TakeBit
      <2>5. StartChain(b, word.base + b[1] + 0, WindowOn(word.base + b[1] + 0))
            BY <2>1, <2>2, <2>3
      <2>6. QED  BY <2>4, <2>5 DEF ConfirmStep, BitStep
<1>4. CASE PassLiteral
      BY <1>4 DEF PassLiteral, ConfirmStep, PassStep
<1>5. CASE ReportLiteral
      BY <1>5 DEF ReportLiteral, ConfirmStep, ReportStep
<1>6. CASE AnswerLiteral
      <2>1. PICK reply \in Replies, squash \in Squashes :
                /\ Answered(reply, squash) /\ control' = (reply = "Continue")
                /\ chain' = [chain EXCEPT !.n = @ + 1, !.squash = @ \cup squash]
                /\ at' = IF reply = "Terminate" THEN "terminated" ELSE "chain"
            BY <1>6 DEF AnswerLiteral
      <2>2. reply = "Terminate" => ~control'
            BY <2>1
      <2>3. at' = "chain" \/ (at' = "terminated" /\ ~control')
            BY <2>1, <2>2
      <2>4. AnswerStep
            BY <1>6, <2>1, <2>3 DEF AnswerLiteral, AnswerStep
      <2>5. QED  BY <2>4 DEF ConfirmStep
<1>7. CASE ChainDone
      BY <1>7 DEF ChainDone, ConfirmStep, DoneStep
<1>8. QED  BY <1>1, <1>2, <1>3, <1>4, <1>5, <1>6, <1>7 DEF Confirms

LEMMA SearchInit == Init => SearchInv
<1> SUFFICES ASSUME Init PROVE SearchInv
    OBVIOUS
<1>1. /\ ConfirmInit /\ at = "scan" /\ p = start /\ ended = FALSE /\ start \in Starts /\ start < Len0
      /\ control = TRUE
      BY DEF Init, ConfirmInit
<1>2. PICK s \in Nat : s = start
      BY <1>1, ConfirmAssumption
<1>3. ConfirmInv(0, s, s)
      BY <1>1, ConfirmStart
<1>4. Len0 \in Nat
      BY <1>3, Tabled DEF ConfirmInv
<1>5. p \in start..Len0 /\ start \in Nat
      BY <1>1, <1>2, <1>4
<1>6. hits = <<>>
      BY DEF Init, ConfirmInit
<1>7. PlaceInv
      <2>1. control <=> at # "terminated"
            BY <1>1
      <2>2. ended \in BOOLEAN /\ at # "completed" /\ (at = "scan" => ~ended)
            BY <1>1
      <2>3. QED  BY <1>1, <1>5, <1>6, <2>1, <2>2 DEF PlaceInv
<1>8. QED  BY <1>1, <1>2, <1>3, <1>7 DEF SearchInv, Reached

\* Teddy has no floods.
LEMMA NoneFloods ==
    ASSUME SearchInv, Next
    PROVE  \A i \in DOMAIN hits' : hits'[i].flood = FALSE
<1>1. ConfirmType /\ \A i \in DOMAIN hits : hits[i].flood = FALSE
      BY DEF SearchInv, PlaceInv, ConfirmInv
<1>2. CASE hits' = hits
      BY <1>1, <1>2
<1>3. CASE ReportLiteral
      <2>1. ReportStep
            BY <1>3 DEF ReportLiteral, ReportStep
      <2> DEFINE h == Hit(Literal.id, chain.bucket, chain.n, chain.end, FALSE)
      <2>2. hits' = Append(hits, h) /\ h \in HitRecord /\ hits \in Seq(HitRecord)
            BY <1>1, <2>1, ReportHits DEF ConfirmType
      <2>3. h.flood = FALSE
            BY DEF Hit
      <2> HIDE DEF h
      <2>4. QED  BY <1>1, <2>2, <2>3
<1>4. CASE AnswerLiteral
      <2>1. PICK reply \in Replies, squash \in Squashes : Answered(reply, squash)
            BY <1>4 DEF AnswerLiteral
      <2>2. hits # <<>>
            BY <1>4 DEF AnswerLiteral, SearchInv, ConfirmInv, WalkInv, InChain
      <2>3. QED  BY <1>1, <2>1, <2>2, AnsweredHits, SquashesTyped
<1>5. QED  BY <1>2, <1>3, <1>4
           DEF Next, ScanBlock, ScanTail, FlushNext, BitsDone, NextBit, PassLiteral, ChainDone,
               Finished, vars, confirmVars

LEMMA PlaceStep ==
    ASSUME SearchInv, Next
    PROVE  PlaceInv'
<1>1. /\ start \in Nat /\ p \in start..Len0 /\ ended \in BOOLEAN /\ Len0 \in Nat
      /\ control \in BOOLEAN
      BY Tabled DEF SearchInv, PlaceInv, ConfirmInv, ConfirmType
<1>2. buf' = buf /\ Len0' = Len0 /\ start' = start
      BY DEF Next, ScanBlock, ScanTail, FlushNext, BitsDone, NextBit, PassLiteral, ReportLiteral,
             AnswerLiteral, ChainDone, Finished, vars, Len0
<1>3. /\ ITER_BYTES \in Nat
      /\ \A i \in DOMAIN hits' : hits'[i].flood = FALSE
      BY NoneFloods, ConfirmAssumption
<1>4. CASE ScanBlock
      <2>1. p' \in start..Len0
            BY <1>1, <1>3, <1>4 DEF ScanBlock
      <2>2. QED  BY <1>1, <1>2, <1>3, <1>4, <2>1 DEF ScanBlock, SearchInv, PlaceInv
<1>5. CASE ScanTail
      BY <1>1, <1>2, <1>3, <1>5 DEF ScanTail, SearchInv, PlaceInv
<1>6. CASE FlushNext
      BY <1>1, <1>2, <1>3, <1>6 DEF FlushNext, SearchInv, PlaceInv
<1>7. CASE BitsDone \/ NextBit \/ PassLiteral \/ ReportLiteral \/ ChainDone
      BY <1>1, <1>2, <1>3, <1>7 DEF BitsDone, NextBit, PassLiteral, ReportLiteral, ChainDone, confirmVars,
                              SearchInv, PlaceInv
<1>8. CASE AnswerLiteral
      <2>1. PICK reply \in Replies :
                /\ control' = (reply = "Continue")
                /\ at' = IF reply = "Terminate" THEN "terminated" ELSE "chain"
            BY <1>8 DEF AnswerLiteral
      <2>2. reply \in {"Continue", "Terminate"}
            BY ConfirmAssumption DEF ScanCtl
      <2>3. control' <=> at' # "terminated"
            BY <2>1, <2>2
      <2>4. at' \in {"terminated", "chain"}
            BY <2>1
      <2>5. p' = p /\ ended' = ended
            BY <1>8 DEF AnswerLiteral
      <2>6. QED  BY <1>1, <1>2, <1>3, <2>3, <2>4, <2>5 DEF PlaceInv
<1>9. CASE Finished
      BY <1>1, <1>2, <1>3, <1>9 DEF Finished, vars, confirmVars, SearchInv, PlaceInv
<1>10. QED  BY <1>4, <1>5, <1>6, <1>7, <1>8, <1>9 DEF Next

LEMMA SearchStep == SearchInv /\ [Next]_vars => SearchInv'
<1>1. ASSUME SearchInv, UNCHANGED vars PROVE SearchInv'
      <2>1. PICK s \in Nat, f \in Nat : s = start /\ f = Reached /\ ConfirmInv(0, s, f)
            BY <1>1 DEF SearchInv
      <2>2. UNCHANGED <<at, Rest, start, p, ended, Reached>>
            BY <1>1 DEF vars, confirmVars, Rest, Reached, Len0
      <2>3. ConfirmInv(0, s, f)'
            BY <2>1, <2>2, ConfirmStays
      <2>4. PlaceInv'
            BY <1>1 DEF SearchInv, PlaceInv, vars, confirmVars, Len0
      <2>5. QED  BY <2>1, <2>2, <2>3, <2>4 DEF SearchInv
<1>2. ASSUME SearchInv, Next PROVE SearchInv'
      <2>0. PlaceInv'
            BY <1>2, PlaceStep
      <2>1. PICK s \in Nat, f \in Nat : s = start /\ f = Reached /\ ConfirmInv(0, s, f)
            BY <1>2 DEF SearchInv
      <2>2. p \in s..Len0 /\ Len0 \in Nat /\ (at = "scan" => ~ended)
            BY <1>2, <2>1, Tabled DEF SearchInv, PlaceInv, ConfirmInv
      <2>3. CASE ScanBlock
            <3>1. /\ at = "scan" /\ p + ITER_BYTES <= Len0 /\ ITER_BYTES \in Nat
                  /\ Stage(p, BlockBits(ITER_BYTES)) /\ at' \in {"scan", "flush"}
                  /\ UNCHANGED <<table, buf, word, chain, control, lastMatch, hits, start>>
                  /\ p' = p + ITER_BYTES /\ ended' = ended
                  BY <2>3, ConfirmAssumption DEF ScanBlock
            <3>2. Reached' = p + ITER_BYTES
                  BY <2>2, <3>1 DEF Reached
            <3>3. QED  BY <1>2, <2>0, <3>1, <3>2, BlockKeeps DEF SearchInv
      <2>4. CASE ScanTail
            <3>1. /\ at = "scan"
                  /\ Stage(p, BlockBits(TailBytes)) /\ at' \in {"scan", "flush"}
                  /\ UNCHANGED <<table, buf, word, chain, control, lastMatch, hits, start>>
                  /\ ended' = TRUE
                  BY <2>4 DEF ScanTail
            <3>2. TailBytes \in Nat /\ p + TailBytes = Len0
                  BY <2>2 DEF TailBytes
            <3>3. Reached' = p + TailBytes
                  BY <3>1, <3>2 DEF Reached, Len0
            <3>4. QED  BY <1>2, <2>0, <3>1, <3>2, <3>3, BlockKeeps DEF SearchInv
      <2>5. CASE Confirms
            <3>1. ConfirmStep(0)
                  BY <1>2, <2>5, ConfirmsConfirm
            <3>2. UNCHANGED <<start, p, ended, buf>>
                  BY <2>5 DEF Confirms, FlushNext, BitsDone, NextBit, PassLiteral, ReportLiteral,
                              AnswerLiteral, ChainDone
            <3>3. Reached' = Reached /\ f \in 0..Len0
                  BY <2>1, <2>2, <3>2 DEF Reached, Len0
            <3>4. ConfirmInv(0, s, f)'
                  BY <2>1, <3>1, <3>3, ConfirmKeeps
            <3>5. QED  BY <2>0, <2>1, <3>2, <3>3, <3>4 DEF SearchInv
      <2>6. CASE Finished
            BY <1>1, <1>2, <2>6 DEF Finished
      <2>7. QED  BY <1>2, <2>3, <2>4, <2>5, <2>6 DEF Next, Confirms
<1>3. QED  BY <1>1, <1>2

LEMMA SearchFinds == SearchInv => Found
<1> SUFFICES ASSUME SearchInv PROVE Found
    OBVIOUS
<1>1. PICK s \in Nat, f \in Nat : s = start /\ f = Reached /\ ConfirmInv(0, s, f)
      BY DEF SearchInv
<1>2. OccurInv /\ \A i \in DOMAIN hits : hits[i].flood => IsOccurrence(hits[i])
      BY <1>1 DEF SearchInv, PlaceInv, ConfirmInv
<1>3. OnlyOccurrences
      BY <1>2, OnlyFound
<1>4. ASSUME at = "completed" PROVE FoundAll(start, TRUE)
      <2>1. f = Len0 /\ cands = <<>> /\ control
            BY <1>1, <1>4 DEF SearchInv, PlaceInv, Reached
      <2>2. ConfirmInv(0, s, Len0)
            BY <1>1, <2>1
      <2>3. FoundAll(s, TRUE)
            <3>1. 0 \in Int /\ at \notin {"bits", "chain", "callback", "terminated"}
                  BY <1>4
            <3>2. QED  BY <1>1, <2>1, <2>2, <3>1, AllFound, Zenon
      <2>4. QED  BY <1>1, <2>3
<1>5. FoundAll(start, at = "completed")
      BY <1>4 DEF FoundAll
<1>6. QED  BY <1>3, <1>5 DEF Found

\* Teddy finds what a naive search finds: whatever it reports ends where it
\* says, and a scan that was not stopped has reported every literal, also
\* one that lies across the border of two blocks or in the tail.
THEOREM TeddyFinds == Spec => []Found
BY SearchInit, SearchStep, SearchFinds, PTL DEF Spec

-----------------------------------------------------------------------------
(***************************************************************************)
(* The hits are a stream in order.                                         *)
(***************************************************************************)
LEMMA StreamInit == Init => Stream!Init
<1> SUFFICES ASSUME Init PROVE Stream!Init
    OBVIOUS
<1>1. at = "scan" /\ control = TRUE /\ hits = <<>>
      BY DEF Init, ConfirmInit
<1>2. StreamEnd = 0 /\ StreamUsed = {} /\ StreamSquashed = {}
      BY <1>1 DEF StreamEnd, StreamUsed, StreamSquashed, HitsAtEnd
<1>3. QED  BY <1>1, <1>2 DEF Stream!Init

LEMMA StreamStep ==
    SearchInv /\ [Next]_vars
        => [Stream!Hit \/ Stream!Answer \/ Stream!Close]_Stream!streamVars
<1> SUFFICES ASSUME SearchInv, [Next]_vars
             PROVE  \/ Stream!Hit \/ Stream!Answer \/ Stream!Close
                    \/ UNCHANGED Stream!streamVars
    OBVIOUS
<1> USE DEF Stream!Hit, Stream!Answer, Stream!Close, Stream!streamVars
<1>1. control <=> at # "terminated"
      BY DEF SearchInv, PlaceInv
<1>2. PICK s \in Nat, f \in Nat : s = start /\ f = Reached /\ ConfirmInv(0, s, f)
      BY DEF SearchInv
<1>3. ConfirmType /\ WalkInv(0, s, f)
      BY <1>2 DEF ConfirmInv
<1>4. CASE ReportLiteral
      <2>1. ReportStep
            BY <1>4 DEF ReportLiteral, ReportStep
      <2>2. f \in 0..Len0
            BY <1>2, <1>3, Tabled DEF SearchInv, PlaceInv, Reached
      <2>3. HitStep
            BY <1>2, <2>1, <2>2, ReportStreams
      <2>4. at = "chain" /\ at' = "callback"
            BY <1>4 DEF ReportLiteral
      <2>5. Stream!Hit
            BY <1>1, <2>3, <2>4 DEF HitStep
      <2>6. QED  BY <2>5
<1>5. CASE AnswerLiteral
      <2>1. PICK reply \in Replies, squash \in Squashes :
                /\ Answered(reply, squash) /\ control' = (reply = "Continue")
                /\ at' = IF reply = "Terminate" THEN "terminated" ELSE "chain"
            BY <1>5 DEF AnswerLiteral
      <2>2. at = "callback" /\ hits # <<>> /\ LastHit.squash = {}
            BY <1>3, <1>5 DEF AnswerLiteral, WalkInv, InChain, Hit
      <2>3. /\ StreamSquashed \subseteq StreamSquashed'
            /\ UNCHANGED <<StreamEnd, StreamLit, StreamBucket, StreamUsed>>
            BY <1>3, <2>1, <2>2, AnswerStreams, SquashesTyped
      <2>4. Stream!Answer
            BY <2>1, <2>2, <2>3
      <2>5. QED  BY <2>4
<1>6. ASSUME hits' = hits, at # "callback", at' # "callback", at # "completed",
             at' = "completed" \/ (control' <=> control)
      PROVE  Stream!Close \/ UNCHANGED Stream!streamVars
      <2>1. UNCHANGED <<StreamEnd, StreamLit, StreamBucket, StreamUsed, StreamSquashed>>
            BY <1>6, HitsStay
      <2>2. CASE at' = "completed"
            BY <1>6, <2>1, <2>2
      <2>3. CASE at' # "completed"
            BY <1>6, <2>1, <2>3
      <2>4. QED  BY <2>2, <2>3
<1>7. CASE ScanBlock \/ ScanTail \/ FlushNext \/ BitsDone \/ NextBit \/ PassLiteral \/ ChainDone
      <2>1. /\ hits' = hits /\ control' = control
            /\ at \in {"scan", "flush", "bits", "chain"}
            /\ at' \in {"scan", "flush", "bits", "chain", "completed"}
            BY <1>7 DEF ScanBlock, ScanTail, FlushNext, BitsDone, NextBit, PassLiteral, ChainDone,
                        confirmVars
      <2>2. QED  BY <1>6, <2>1
<1>8. CASE Finished \/ UNCHANGED vars
      <2>1. UNCHANGED <<at, control, hits>>
            BY <1>8 DEF Finished, vars, confirmVars
      <2>2. UNCHANGED <<StreamEnd, StreamLit, StreamBucket, StreamUsed, StreamSquashed>>
            BY <2>1, HitsStay
      <2>3. QED  BY <2>1, <2>2
<1>9. QED  BY <1>4, <1>5, <1>7, <1>8 DEF Next

\* Teddy keeps what HitStream promises: hits in the order of the buffer, a
\* literal at most once per end, none from a bucket that was squashed at that
\* end, none after Terminate.
THEOREM TeddyIsAStream == Spec => StreamSpec
BY SearchInit, SearchStep, StreamInit, StreamStep, PTL DEF Spec, StreamSpec, Stream!StreamSpec
=============================================================================
