----------------------------- MODULE MdbTxProofs -----------------------------
(* Proofs about MdbTx, for every buffer size, byte width and peripheral.   *)
EXTENDS MdbTx, TLAPS

\* The words of a sequence answer transaction n.
OfTx(s, n) == \A i \in DOMAIN s : s[i].of = n

\* A word with its 9th bit set is the last of a sequence.
MarkLast(s) == \A i \in DOMAIN s : s[i].flag = 1 => i = Len(s)

\* What ReplyBelongs and LineQuiet rest on: as long as no tx of the port has
\* failed, words are under way only while tx reads, they answer this tx, and a
\* marked word is the last of them all.
LinkInv ==
  ~suspect =>
    /\ OfTx(ring, txn) /\ OfTx(outgoing, txn) /\ OfTx(response, txn)
    /\ end # NoWord => end.of = txn
    /\ pc # "receiving" => ring = <<>> /\ outgoing = <<>>
    /\ MarkLast(outgoing)
    /\ \A i \in DOMAIN ring : ring[i].flag = 1 => i = Len(ring) /\ outgoing = <<>>

-----------------------------------------------------------------------------
\* Every answer of a peripheral to n is made of words of n and ends at its
\* only marked word.
LEMMA ReplyShape ==
  ASSUME NEW n \in 1..MaxTx, NEW r \in Replies(n)
  PROVE  r \in Seq(Word) /\ OfTx(r, n) /\ MarkLast(r)
<1> USE TxAssumption
<1>1. ASSUME NEW b \in Byte, r = <<EndWord(b, n)>>
      PROVE  r \in Seq(Word) /\ OfTx(r, n) /\ MarkLast(r)
  BY <1>1 DEF EndWord, Word, Bit, OfTx, MarkLast
<1>2. ASSUME NEW d \in Blocks, NEW b \in Byte, r = Block(d, b, n)
      PROVE  r \in Seq(Word) /\ OfTx(r, n) /\ MarkLast(r)
  <2> DEFINE body == [i \in 1..Len(d) |-> [v |-> d[i], flag |-> 0, of |-> n]]
  <2>1. d \in Seq(Byte)
    OBVIOUS
  <2>2. body \in Seq(Word) /\ Len(body) = Len(d)
    BY <2>1 DEF Word, Bit
  <2>3. EndWord(b, n) \in Word
    BY DEF EndWord, Word, Bit
  <2>4. r = Append(body, EndWord(b, n))
    BY <1>2, <2>2, <2>3 DEF Block
  <2>5. Len(r) = Len(d) + 1 /\ r \in Seq(Word)
    BY <2>2, <2>3, <2>4
  <2>6. \A i \in 1..Len(d) : r[i] = body[i]
    BY <2>2, <2>3, <2>4
  <2>7. r[Len(d) + 1] = EndWord(b, n)
    BY <2>2, <2>3, <2>4
  <2>8. \A i \in 1..Len(d) : body[i].flag = 0 /\ body[i].of = n
    OBVIOUS
  <2> HIDE DEF body
  <2>9. \A i \in 1..Len(d) : r[i].flag = 0 /\ r[i].of = n
    BY <2>6, <2>8
  <2> QED
    BY <2>1, <2>5, <2>7, <2>9 DEF EndWord, OfTx, MarkLast
<1> QED
  BY <1>1, <1>2 DEF Replies

\* The peripheral's answers keep the type of the line.
LEMMA AnswersType ==
  ASSUME outgoing \in Seq(Word), txn \in 1..MaxTx, Answers(txn)
  PROVE  outgoing' \in Seq(Word)
<1>1. CASE outgoing' = outgoing
  BY <1>1
<1>2. ASSUME NEW r \in Replies(txn), outgoing' = outgoing \o r
      PROVE  outgoing' \in Seq(Word)
  BY <1>2, ReplyShape
<1> QED
  BY <1>1, <1>2 DEF Answers

\* Taking the first word away leaves such a sequence.
LEMMA TailShape ==
  ASSUME NEW s \in Seq(Word), s # <<>>, NEW n, OfTx(s, n), MarkLast(s)
  PROVE  /\ Tail(s) \in Seq(Word) /\ Len(Tail(s)) = Len(s) - 1
         /\ OfTx(Tail(s), n) /\ MarkLast(Tail(s))
<1>1. /\ Tail(s) \in Seq(Word) /\ Len(s) \in Nat \ {0} /\ Len(Tail(s)) = Len(s) - 1
      /\ DOMAIN s = 1..Len(s) /\ DOMAIN Tail(s) = 1..(Len(s) - 1)
      /\ \A i \in 1..(Len(s) - 1) : Tail(s)[i] = s[i+1]
  OBVIOUS
<1>2. \A i \in 1..(Len(s) - 1) : s[i+1].of = n /\ (s[i+1].flag = 1 => i + 1 = Len(s))
  <2> SUFFICES ASSUME NEW i \in 1..(Len(s) - 1)
               PROVE  s[i+1].of = n /\ (s[i+1].flag = 1 => i + 1 = Len(s))
    OBVIOUS
  <2>1. i + 1 \in 1..Len(s)
    BY <1>1
  <2> QED
    BY <1>1, <2>1 DEF OfTx, MarkLast
<1>3. \A a \in Nat : \A i \in 1..(a - 1) : i + 1 = a => i = a - 1
  OBVIOUS
<1> DEFINE t == Tail(s)
<1>4. /\ DOMAIN t = 1..(Len(s) - 1)
      /\ \A i \in 1..(Len(s) - 1) : t[i].of = n /\ (t[i].flag = 1 => i = Len(t))
  BY <1>1, <1>2, <1>3
<1>5. t \in Seq(Word) /\ Len(t) = Len(s) - 1
  BY <1>1
<1> HIDE DEF t
<1>6. OfTx(t, n) /\ MarkLast(t)
  BY <1>4, Zenon DEF OfTx, MarkLast
<1> QED
  BY <1>5, <1>6 DEF t

\* What Chunk reads and leaves is made of words.
LEMMA ChunkType ==
  ASSUME ring \in Seq(Word), NEW n \in 1..BlockMax, n <= Len(ring)
  PROVE  /\ SubSeq(ring, 1, n) \in Seq(Word)
         /\ SubSeq(ring, n + 1, Len(ring)) \in Seq(Word)
         /\ Len(SubSeq(ring, 1, n)) = n
         /\ \A i \in 1..n : SubSeq(ring, 1, n)[i] = ring[i] /\ ring[i] \in Word
  BY TxAssumption

-----------------------------------------------------------------------------
(* Type correctness.                                                       *)

LEMMA TypeInit == Init => TypeOK
  BY TxAssumption DEF Init, TypeOK, NoWord, Word, Bit, Slots, Results

\* tx is entered in the idle state with a bound on how often.
LEMMA TypeTxBegin ==
  ASSUME TypeOK, NEW n \in 1..BlockMax-1, TxBegin(n)
  PROVE  TypeOK'
<1> USE TxAssumption
<1>1. txn' \in 1..MaxTx /\ response' \in Seq(Word) /\ end' \in Word \cup {NoWord}
      /\ heard' \in {"nothing", "ack", "nak"}
  BY DEF TypeOK, TxBegin
<1>2. ninth' \in [Slots -> Bit]
  BY DEF TypeOK, TxBegin, Slots, Bit
<1>3. frame' \in Seq(Bit)
  <2>1. \A i \in 1..n+1 : ninth'[i-1] \in Bit
    BY <1>2 DEF Slots
  <2>2. [i \in 1..n+1 |-> ninth'[i-1]] \in Seq(Bit)
    BY <2>1
  <2> QED
    BY <2>2 DEF TxBegin, TypeOK
<1>4. pc' \in {"idle", "sending"} /\ result' \in Results /\ suspect' \in BOOLEAN
      /\ ring' \in Seq(Word) /\ outgoing' \in Seq(Word)
  BY DEF TypeOK, TxBegin, Results
<1> QED
  BY <1>1, <1>2, <1>3, <1>4 DEF TypeOK

LEMMA TypeChunk ==
  ASSUME TypeOK, NEW n \in 1..BlockMax, Chunk(n)
  PROVE  TypeOK'
<1> USE TxAssumption
<1> DEFINE got == SubSeq(ring, 1, n)
<1>1. /\ got \in Seq(Word) /\ ring' \in Seq(Word) /\ Len(got) = n
      /\ \A i \in 1..n : got[i] \in Word
  BY ChunkType DEF TypeOK, Chunk
<1> HIDE DEF got
<1>2. ninth' \in [Slots -> Bit]
  <2>1. ninth' = [i \in Slots |-> IF i < n THEN got[i+1].flag ELSE ninth[i]]
    BY DEF Chunk, got
  <2>2. \A i \in Slots : i < n => got[i+1].flag \in Bit
    BY <1>1 DEF Word, Slots
  <2> QED
    BY <2>1, <2>2 DEF TypeOK
<1>3. UNCHANGED <<txn, frame, outgoing, heard>> /\ txn > 0
  BY DEF Chunk, TypeOK
<1>4. CASE response' = response \o got /\ UNCHANGED <<pc, end, result, suspect>>
  BY <1>1, <1>2, <1>3, <1>4 DEF TypeOK
<1>5. ASSUME NEW k \in 1..n, response' = response \o SubSeq(got, 1, k - 1),
             end' = got[k], Conclude(response', end'.v)
      PROVE  TypeOK'
  <2>1. response' \in Seq(Word)
    BY <1>1, <1>5 DEF TypeOK
  <2>2. pc' \in {"idle", "acking", "naking"} /\ result' \in Results /\ suspect' \in BOOLEAN
    BY <1>5 DEF Conclude, Return, TypeOK, Results
  <2> QED
    BY <1>1, <1>2, <1>3, <1>5, <2>1, <2>2 DEF TypeOK
<1> QED
  BY <1>4, <1>5 DEF Chunk, got

LEMMA TypeStep == TypeOK /\ [Next]_vars => TypeOK'
<1> SUFFICES ASSUME TypeOK, [Next]_vars PROVE TypeOK'
  OBVIOUS
<1> USE TxAssumption
<1>1. ASSUME NEW n \in 1..BlockMax-1, TxBegin(n) PROVE TypeOK'
  BY <1>1, TypeTxBegin
<1>2. CASE SendDone
  <2>1. outgoing' \in Seq(Word)
    BY <1>2, AnswersType DEF SendDone, TypeOK
  <2> QED
    BY <1>2, <2>1 DEF SendDone, TypeOK
<1>3. CASE SendFail
  <2>1. outgoing' \in Seq(Word)
    BY <1>3, AnswersType DEF SendFail, TypeOK
  <2> QED
    BY <1>3, <2>1 DEF SendFail, TypeOK, Return, Results
<1>4. ASSUME NEW n \in 1..BlockMax, Chunk(n) PROVE TypeOK'
  BY <1>4, TypeChunk
<1>5. CASE ReceiveFail
  BY <1>5 DEF ReceiveFail, TypeOK, Return, Results
<1>6. CASE AnswerDone
  <2>1. outgoing' \in Seq(Word)
    BY <1>6, AnswersType DEF AnswerDone, TypeOK
  <2> QED
    BY <1>6, <2>1 DEF AnswerDone, TypeOK, Return, Results
<1>7. CASE AnswerFail
  <2>1. outgoing' \in Seq(Word)
    BY <1>7, AnswersType DEF AnswerFail, TypeOK
  <2> QED
    BY <1>7, <2>1 DEF AnswerFail, TypeOK, Return, Results
<1>8. CASE Reopen
  <2>1. ninth' \in [Slots -> Bit]
    BY <1>8 DEF Reopen
  <2> QED
    BY <1>8, <2>1 DEF Reopen, TypeOK, Results, NoWord
<1>9. CASE Deliver
  BY <1>9 DEF Deliver, TypeOK
<1>10. CASE Lose
  BY <1>10 DEF Lose, TypeOK
<1>11. CASE UNCHANGED vars
  BY <1>11 DEF vars, TypeOK
<1> QED
  BY <1>1, <1>2, <1>3, <1>4, <1>5, <1>6, <1>7, <1>8, <1>9, <1>10, <1>11 DEF Next, TxStep

\* The variables of a port keep their types, and no tx runs that was not counted.
THEOREM TypeCorrect == Spec => []TypeOK
  BY TypeInit, TypeStep, PTL DEF Spec

-----------------------------------------------------------------------------
(* Every answer is read by the tx it belongs to.                           *)

LEMMA LinkInit == Init => LinkInv
  BY DEF Init, LinkInv, OfTx, MarkLast, NoWord

\* An answer put on an empty line has the shape LinkInv asks for.
LEMMA LinkAnswers ==
  ASSUME txn \in 1..MaxTx, outgoing = <<>>, Answers(txn)
  PROVE  OfTx(outgoing', txn) /\ MarkLast(outgoing')
<1>1. CASE outgoing' = outgoing
  BY <1>1 DEF OfTx, MarkLast
<1>2. ASSUME NEW r \in Replies(txn), outgoing' = outgoing \o r
      PROVE  OfTx(outgoing', txn) /\ MarkLast(outgoing')
  <2>1. r \in Seq(Word) /\ OfTx(r, txn) /\ MarkLast(r)
    BY ReplyShape
  <2>2. outgoing' = r
    BY <1>2, <2>1
  <2> QED
    BY <2>1, <2>2
<1> QED
  BY <1>1, <1>2 DEF Answers

\* Words of one tx put after words of the same tx, all of them or some.
LEMMA OfTxConcat ==
  ASSUME NEW r \in Seq(Word), NEW g \in Seq(Word), NEW t, OfTx(r, t), OfTx(g, t)
  PROVE  OfTx(r \o g, t)
<1>1. \A i \in 1..Len(r) : r[i].of = t
  BY DEF OfTx
<1>2. \A i \in 1..Len(g) : g[i].of = t
  BY DEF OfTx
<1>3. Len(r) \in Nat /\ Len(g) \in Nat /\ DOMAIN (r \o g) = 1..(Len(r) + Len(g))
  OBVIOUS
<1>4. SUFFICES ASSUME NEW i \in 1..(Len(r) + Len(g)) PROVE (r \o g)[i].of = t
  BY <1>3 DEF OfTx
<1>5. CASE i <= Len(r)
  <2>1. (r \o g)[i] = r[i]
    BY <1>5
  <2> QED
    BY <1>1, <1>3, <1>5, <2>1
<1>6. CASE i > Len(r)
  <2>1. (r \o g)[i] = g[i - Len(r)]
    BY <1>6
  <2>2. i - Len(r) \in 1..Len(g)
    BY <1>3, <1>6
  <2> QED
    BY <1>2, <2>1, <2>2
<1> QED
  BY <1>3, <1>5, <1>6

LEMMA OfTxPrefix ==
  ASSUME NEW g \in Seq(Word), NEW m \in 0..Len(g), NEW t, OfTx(g, t)
  PROVE  SubSeq(g, 1, m) \in Seq(Word) /\ OfTx(SubSeq(g, 1, m), t)
<1>1. SubSeq(g, 1, m) \in Seq(Word) /\ Len(SubSeq(g, 1, m)) = m
      /\ \A i \in 1..m : SubSeq(g, 1, m)[i] = g[i]
  OBVIOUS
<1>2. \A i \in 1..Len(g) : g[i].of = t
  BY DEF OfTx
<1>3. DOMAIN SubSeq(g, 1, m) = 1..m /\ Len(g) \in Nat
  BY <1>1
<1> QED
  BY <1>1, <1>2, <1>3 DEF OfTx

\* A chunk with the marked word in it is all there was to read.
LEMMA LinkChunk ==
  ASSUME TypeOK, LinkInv, NEW n \in 1..BlockMax, Chunk(n)
  PROVE  LinkInv'
<1> USE TxAssumption
<1> DEFINE got == SubSeq(ring, 1, n)
<1>0. SUFFICES ASSUME ~suspect' PROVE LinkInv'
  BY DEF LinkInv
<1>1. ~suspect
  BY <1>0 DEF Chunk, Conclude, Return
<1>2. /\ got \in Seq(Word) /\ ring' \in Seq(Word) /\ Len(got) = n
      /\ \A i \in 1..n : got[i] = ring[i] /\ got[i] \in Word
      /\ \A i \in 1..Len(ring') : ring'[i] = ring[i + n]
  BY ChunkType DEF TypeOK, Chunk
<1>3. Len(ring') = Len(ring) - n /\ n <= Len(ring) /\ Len(ring) \in Nat /\ n \in Nat \ {0}
  BY SMTT(30), ChunkType DEF TypeOK, Chunk
<1>4. /\ OfTx(ring, txn) /\ OfTx(response, txn) /\ OfTx(outgoing, txn) /\ MarkLast(outgoing)
      /\ end # NoWord => end.of = txn
  BY <1>1 DEF LinkInv
<1>5. \A i \in 1..Len(ring) : ring[i].of = txn /\ (ring[i].flag = 1 => i = Len(ring) /\ outgoing = <<>>)
  BY <1>1, <1>4 DEF LinkInv, OfTx, TypeOK
<1>6. \A i \in 1..n : i \in 1..Len(ring) /\ got[i] = ring[i] /\ got[i].of = txn
  BY <1>2, <1>3, <1>5
<1>7. \A i \in 1..Len(ring') : i + n \in 1..Len(ring) /\ ring'[i] = ring[i + n]
  BY <1>2, <1>3
<1>8. DOMAIN got = 1..n /\ DOMAIN ring' = 1..Len(ring') /\ response \in Seq(Word)
  BY <1>2 DEF TypeOK
<1>9. OfTx(got, txn) /\ OfTx(ring', txn)
  BY <1>5, <1>6, <1>7, <1>8, ZenonT(30) DEF OfTx
<1>10. UNCHANGED <<txn, outgoing>> /\ pc = "receiving"
  BY DEF Chunk
<1>11. \/ response' = response \o got /\ UNCHANGED <<pc, end, result, suspect>>
       \/ \E k \in 1..n : /\ got[k].flag = 1
                         /\ response' = response \o SubSeq(got, 1, k - 1)
                         /\ end' = got[k]
                         /\ Conclude(response', end'.v)
  BY Zenon DEF Chunk
<1> HIDE DEF got
<1>12. CASE response' = response \o got /\ UNCHANGED <<pc, end, result, suspect>>
  <2>1. OfTx(response', txn)
    BY <1>2, <1>4, <1>8, <1>9, <1>12, OfTxConcat
  <2>2. ASSUME NEW i \in 1..Len(ring'), ring'[i].flag = 1
        PROVE  i = Len(ring') /\ outgoing' = <<>>
    <3>1. ring[i + n].flag = 1 /\ i + n \in 1..Len(ring)
      BY <1>7, <2>2
    <3>2. i + n = Len(ring) /\ outgoing = <<>>
      BY <1>5, <3>1
    <3> QED
      BY <1>3, <1>10, <3>2
  <2>3. \A i \in DOMAIN ring' : ring'[i].flag = 1 => i = Len(ring') /\ outgoing' = <<>>
    BY <1>8, <2>2
  <2>4. pc' = "receiving" /\ txn' = txn /\ outgoing' = outgoing /\ end' = end
    BY <1>10, <1>12
  <2> QED
    BY <1>4, <1>9, <2>1, <2>3, <2>4 DEF LinkInv
<1>13. ASSUME NEW k \in 1..n, got[k].flag = 1, response' = response \o SubSeq(got, 1, k - 1),
             end' = got[k], Conclude(response', end'.v)
      PROVE  LinkInv'
  <2>1. k = Len(ring) /\ outgoing = <<>>
    BY <1>5, <1>6, <1>13
  <2>2. k \in Nat /\ k <= n
    BY <1>3
  <2>3. Len(ring') = 0
    BY <1>3, <2>1, <2>2
  <2>4. ring' = <<>>
    BY <1>2, <2>3
  <2>5. end'.of = txn
    BY <1>6, <1>13
  <2>6. k - 1 \in 0..Len(got)
    BY <1>2, <1>3, <2>2
  <2>7. SubSeq(got, 1, k - 1) \in Seq(Word) /\ OfTx(SubSeq(got, 1, k - 1), txn)
    BY <1>2, <1>9, <2>6, OfTxPrefix
  <2>8. OfTx(response', txn)
    BY <1>4, <1>8, <1>13, <2>7, OfTxConcat
  <2> QED
    BY <1>4, <1>10, <2>1, <2>4, <2>5, <2>8 DEF LinkInv, OfTx
<1> QED
  BY <1>11, <1>12, <1>13

LEMMA LinkStep == TypeOK /\ LinkInv /\ [Next]_vars => LinkInv'
<1> SUFFICES ASSUME TypeOK, LinkInv, [Next]_vars PROVE LinkInv'
  OBVIOUS
<1> USE TxAssumption
<1>1. ASSUME NEW n \in 1..BlockMax-1, TxBegin(n) PROVE LinkInv'
  BY <1>1 DEF TxBegin, LinkInv, OfTx, MarkLast
<1>2. CASE SendDone
  <2>1. SUFFICES ASSUME ~suspect PROVE LinkInv'
    BY <1>2 DEF SendDone, LinkInv
  <2>2. outgoing = <<>> /\ ring = <<>> /\ txn \in 1..MaxTx
    BY <1>2, <2>1 DEF SendDone, LinkInv, TypeOK
  <2>3. OfTx(outgoing', txn) /\ MarkLast(outgoing')
    BY <1>2, <2>2, LinkAnswers DEF SendDone
  <2> QED
    BY <1>2, <2>1, <2>2, <2>3 DEF SendDone, LinkInv, OfTx
<1>3. CASE SendFail
  BY <1>3 DEF SendFail, Return, LinkInv
<1>4. ASSUME NEW n \in 1..BlockMax, Chunk(n) PROVE LinkInv'
  BY <1>4, LinkChunk
<1>5. CASE ReceiveFail
  BY <1>5 DEF ReceiveFail, Return, LinkInv
<1>6. CASE AnswerDone
  BY <1>6 DEF AnswerDone, Return, LinkInv
<1>7. CASE AnswerFail
  BY <1>7 DEF AnswerFail, Return, LinkInv
<1>8. CASE Reopen
  <2>1. SUFFICES ASSUME ~suspect' PROVE LinkInv'
    BY DEF LinkInv
  <2>2. outgoing' = <<>> /\ ring' = <<>> /\ response' = <<>> /\ end' = NoWord
    BY <1>8, <2>1 DEF Reopen
  <2> QED
    BY <2>2 DEF LinkInv, OfTx, MarkLast
<1>9. CASE Deliver
  <2>1. SUFFICES ASSUME ~suspect PROVE LinkInv'
    BY <1>9 DEF Deliver, LinkInv
  <2>2. outgoing # <<>> /\ pc = "receiving"
    BY <1>9, <2>1 DEF Deliver, LinkInv
  <2>3. /\ OfTx(ring, txn) /\ OfTx(outgoing, txn) /\ OfTx(response, txn)
        /\ MarkLast(outgoing) /\ (end # NoWord => end.of = txn)
        /\ \A i \in 1..Len(ring) : ring[i].flag # 1
    BY <2>1, <2>2 DEF LinkInv, TypeOK
  <2>4. /\ Len(outgoing') = Len(outgoing) - 1 /\ Len(outgoing) \in Nat \ {0}
        /\ DOMAIN outgoing = 1..Len(outgoing) /\ DOMAIN outgoing' = 1..Len(outgoing')
        /\ \A i \in 1..Len(outgoing') : outgoing'[i] = outgoing[i+1]
        /\ outgoing' \in Seq(Word)
    BY <1>9, <2>2 DEF Deliver, TypeOK
  <2>5. OfTx(outgoing', txn) /\ MarkLast(outgoing')
    BY <1>9, <2>2, <2>3, TailShape DEF Deliver, TypeOK
  <2>6. /\ ring' \in Seq(Word) /\ Len(ring') = Len(ring) + 1 /\ Len(ring) \in Nat
        /\ DOMAIN ring = 1..Len(ring) /\ DOMAIN ring' = 1..Len(ring')
        /\ \A i \in 1..Len(ring) : ring'[i] = ring[i]
        /\ ring'[Len(ring)+1] = outgoing[1]
    BY <1>9, <2>2 DEF Deliver, TypeOK
  <2>7. OfTx(ring', txn)
    BY <2>3, <2>4, <2>6 DEF OfTx
  <2>8. ASSUME outgoing[1].flag = 1 PROVE outgoing' = <<>>
    <3>1. Len(outgoing) = 1
      BY <2>3, <2>4, <2>8 DEF MarkLast
    <3> QED
      BY <2>4, <3>1
  <2>9. \A i \in DOMAIN ring' : ring'[i].flag = 1 => i = Len(ring') /\ outgoing' = <<>>
    BY <2>3, <2>6, <2>8
  <2> QED
    BY <1>9, <2>2, <2>3, <2>5, <2>7, <2>9 DEF Deliver, LinkInv
<1>10. CASE Lose
  <2>1. SUFFICES ASSUME ~suspect PROVE LinkInv'
    BY <1>10 DEF Lose, LinkInv
  <2>2. OfTx(outgoing, txn) /\ MarkLast(outgoing)
    BY <2>1 DEF LinkInv
  <2>3. OfTx(outgoing', txn) /\ MarkLast(outgoing')
    BY <1>10, <2>2, TailShape DEF Lose, TypeOK
  <2> QED
    BY <1>10, <2>1, <2>3 DEF Lose, LinkInv
<1>11. CASE UNCHANGED vars
  BY <1>11 DEF vars, LinkInv
<1> QED
  BY <1>1, <1>2, <1>3, <1>4, <1>5, <1>6, <1>7, <1>8, <1>9, <1>10, <1>11 DEF Next, TxStep

LEMMA LinkCorrect == Spec => []LinkInv
  BY TypeCorrect, LinkInit, LinkStep, PTL DEF Spec

\* While no tx of the port has failed, what a tx holds answers its own request
\* (the receive loop of tx, mdb.rs:139-149, never leaves a word behind).
THEOREM RepliesBelong == Spec => []ReplyBelongs
<1>1. LinkInv => ReplyBelongs
  BY DEF LinkInv, ReplyBelongs, OfTx
<1> QED
  BY <1>1, LinkCorrect, PTL

\* While no tx of the port has failed, nothing waits on the line between two.
THEOREM LineIsQuiet == Spec => []LineQuiet
<1>1. LinkInv => LineQuiet
  BY DEF LinkInv, LineQuiet
<1> QED
  BY <1>1, LinkCorrect, PTL

-----------------------------------------------------------------------------
(* The two ends agree on a block.                                          *)

\* What AnswerAgreement rests on: the verdict about a block is the state tx
\* is in until its ACK or NAK is out, and nothing was heard before.
AnswerInv ==
  /\ AnswerAgreement
  /\ pc # "idle" => heard = "nothing" /\ result = "none"
  /\ pc = "acking" => response # <<>> /\ Checksum(response) = end.v
  /\ pc = "naking" => response # <<>> /\ Checksum(response) # end.v

LEMMA AnswerStep == AnswerInv /\ [Next]_vars => AnswerInv'
<1> SUFFICES ASSUME AnswerInv, [Next]_vars PROVE AnswerInv'
  OBVIOUS
<1> USE DEF AnswerInv, AnswerAgreement
<1>1. ASSUME NEW n \in 1..BlockMax-1, TxBegin(n) PROVE AnswerInv'
  BY <1>1 DEF TxBegin
<1>2. CASE SendDone
  BY <1>2 DEF SendDone
<1>3. CASE SendFail
  BY <1>3 DEF SendFail, Return
<1>4. ASSUME NEW n \in 1..BlockMax, Chunk(n) PROVE AnswerInv'
  <2>1. pc = "receiving" /\ UNCHANGED heard /\ heard = "nothing" /\ result = "none"
    BY <1>4 DEF Chunk
  <2>2. CASE UNCHANGED <<pc, end, result, suspect>>
    BY <2>1, <2>2
  <2>3. CASE Conclude(response', end'.v)
    <3>1. CASE response' = <<>>
      BY <2>1, <2>3, <3>1 DEF Conclude, Return
    <3>2. CASE response' # <<>>
      BY <2>1, <2>3, <3>2 DEF Conclude
    <3> QED
      BY <3>1, <3>2
  <2> QED
    BY <1>4, <2>2, <2>3 DEF Chunk
<1>5. CASE ReceiveFail
  BY <1>5 DEF ReceiveFail, Return
<1>6. CASE AnswerDone
  BY <1>6 DEF AnswerDone, Return
<1>7. CASE AnswerFail
  BY <1>7 DEF AnswerFail, Return
<1>8. CASE Reopen
  BY <1>8 DEF Reopen
<1>9. CASE Deliver
  BY <1>9 DEF Deliver
<1>10. CASE Lose
  BY <1>10 DEF Lose
<1>11. CASE UNCHANGED vars
  BY <1>11 DEF vars
<1> QED
  BY <1>1, <1>2, <1>3, <1>4, <1>5, <1>6, <1>7, <1>8, <1>9, <1>10, <1>11 DEF Next, TxStep

\* What the peripheral saw acknowledged had a good checksum, and tx reports
\* data or a checksum error only after the matching ACK or NAK (mdb.rs:157-166).
THEOREM AnswersAgree == Spec => []AnswerAgreement
<1>1. Init => AnswerInv
  BY DEF Init, AnswerInv, AnswerAgreement
<1>2. AnswerInv => AnswerAgreement
  BY DEF AnswerInv
<1> QED
  BY <1>1, <1>2, AnswerStep, PTL DEF Spec
=============================================================================
