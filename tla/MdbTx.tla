-------------------------------- MODULE MdbTx --------------------------------
(***************************************************************************)
(* One MDB port: GpioMdb of cmd/iodin/src/mdb.rs talking to one peripheral *)
(* over a serial line that loses and delays words.                         *)
(*                                                                         *)
(* tx sends a request as 9-bit words, collects the words of the answer     *)
(* until one has its 9th bit set, and closes a block with ACK or NAK.  The *)
(* time of the waits is in MdbTiming: here a wait for words may time out   *)
(* at any poll that finds the ring of pigpio empty.                        *)
(***************************************************************************)
EXTENDS Naturals, Sequences
LOCAL INSTANCE SequencesExt

CONSTANTS
  BlockMax,     \* BLOCK_MAX_LENGTH, the words self.buf holds
  ByteMod,      \* a byte is 0..ByteMod-1 (256)
  MaxTx,        \* bound: transactions of a behaviour
  Blocks,       \* data a peripheral may put into a block
  Uninit        \* what the 9th-bit bytes of uninitialised memory may be

Byte == 0..ByteMod-1
Bit == {0, 1}
ACK == 0                 \* RESPONSE_ACK
NAK == ByteMod - 1       \* RESPONSE_NAK

ASSUME TxAssumption ==
  /\ BlockMax \in Nat \ {0, 1} /\ ByteMod \in Nat \ {0, 1} /\ MaxTx \in Nat
  /\ Blocks \subseteq Seq(Byte) \ {<<>>}
  /\ Uninit \subseteq Bit /\ Uninit # {}

\* A received word: the byte, its 9th bit and, for the properties only, the
\* transaction whose request it answers.
Word == [v : Byte, flag : Bit, of : 1..MaxTx]
NoWord == [v |-> 0, flag |-> 0, of |-> 0]

VARIABLES
  pc,         \* idle, sending, receiving, acking, naking
  txn,        \* how many times tx was called
  ninth,      \* the odd bytes of self.buf: the 9th bit of each word
  frame,      \* the 9th bits of the last request put on the line
  response,   \* response: the words received before the end byte
  end,        \* the word whose byte is end_byte
  result,     \* how the last tx ended
  ring,       \* words received by pigpio and not yet read
  outgoing,   \* words the peripheral has still to send
  heard,      \* how the peripheral saw its block answered
  suspect     \* history: words of a failed tx may still be under way

vars == <<pc, txn, ninth, frame, response, end, result, ring, outgoing, heard, suspect>>

Slots == 0..BlockMax-1
Results == {"none", "ok", "nak", "invalid", "checksum", "timeout", "error"}

-----------------------------------------------------------------------------
\* checksum: the wrapping sum of the bytes.
Checksum(s) == FoldLeft(LAMBDA sum, w : (sum + w.v) % ByteMod, 0, s)

\* The answers of a peripheral to request n: one word with the 9th bit set, or
\* a block of data words closed by such a word.
EndWord(b, n) == [v |-> b, flag |-> 1, of |-> n]
Block(data, b, n) ==
  [i \in 1..Len(data) |-> [v |-> data[i], flag |-> 0, of |-> n]] \o <<EndWord(b, n)>>
Replies(n) ==
  {<<EndWord(b, n)>> : b \in Byte} \cup {Block(d, b, n) : d \in Blocks, b \in Byte}

\* The peripheral answers request n, or stays silent.
Answers(n) == outgoing' = outgoing \/ \E r \in Replies(n) : outgoing' = outgoing \o r

\* tx returns.  One that fails once its request is out may leave words behind
\* for the next.
Return(r) == /\ pc' = "idle" /\ result' = r
             /\ suspect' = (suspect \/ r \in {"checksum", "timeout", "error"})

-----------------------------------------------------------------------------
Init ==
  /\ pc = "idle" /\ txn = 0 /\ result = "none"
  /\ ninth \in [Slots -> Uninit]
  /\ frame = <<>> /\ response = <<>> /\ end = NoWord
  /\ ring = <<>> /\ outgoing = <<>> /\ heard = "nothing" /\ suspect = FALSE

\* tx up to the send: the request of n bytes and its checksum are laid into
\* self.buf, of which only the first 9th-bit byte is written.
TxBegin(n) ==
  /\ pc = "idle" /\ txn < MaxTx
  /\ txn' = txn + 1
  /\ ninth' = [ninth EXCEPT ![0] = 1]
  /\ response' = <<>> /\ end' = NoWord /\ heard' = "nothing"
  /\ \/ /\ frame' = [i \in 1..n+1 |-> ninth'[i-1]]
        /\ pc' = "sending" /\ result' = "none" /\ UNCHANGED suspect
     \/ /\ result' = "error"                      \* mdb_wave_create failed
        /\ UNCHANGED <<pc, frame, suspect>>
  /\ UNCHANGED <<ring, outgoing>>

\* mdb_wave_send_wait(&wave, ..) returns, with an error or not; the
\* peripheral may have heard a request whose wait failed.
SendDone ==
  /\ pc = "sending"
  /\ pc' = "receiving"
  /\ Answers(txn)
  /\ UNCHANGED <<txn, ninth, frame, response, end, result, ring, heard, suspect>>

SendFail ==
  /\ pc = "sending"
  /\ Return("error")
  /\ Answers(txn)
  /\ UNCHANGED <<txn, ninth, frame, response, end, ring, heard>>

\* Mutants: a third verdict on a lone byte (RESPONSE_RET); no look at the checksum.
ConcludeRet(data, byte) ==
  IF data = <<>>
    THEN Return(CASE byte = ACK -> "ok" [] byte = NAK -> "nak" [] OTHER -> "ret")
    ELSE /\ pc' = IF byte = Checksum(data) THEN "acking" ELSE "naking"
         /\ UNCHANGED <<result, suspect>>

ConcludeUnchecked(data, byte) ==
  IF data = <<>>
    THEN Return(CASE byte = ACK -> "ok" [] byte = NAK -> "nak" [] OTHER -> "invalid")
    ELSE pc' = "acking" /\ UNCHANGED <<result, suspect>>

\* The end byte was read: a lone one is the answer, one after data is compared
\* with the checksum of the data, and ACK or NAK is due.
Conclude(data, byte) ==
  IF data = <<>>
    THEN Return(CASE byte = ACK -> "ok" [] byte = NAK -> "nak" [] OTHER -> "invalid")
    ELSE /\ pc' = IF byte = Checksum(data) THEN "acking" ELSE "naking"
         /\ UNCHANGED <<result, suspect>>

\* Mutant: what the first read returns is taken for the whole answer.
ChunkIsAnswer(n) ==
  LET got == SubSeq(ring, 1, n) IN
  /\ pc = "receiving" /\ n <= Len(ring)
  /\ ring' = SubSeq(ring, n + 1, Len(ring))
  /\ ninth' = [i \in Slots |-> IF i < n THEN got[i+1].flag ELSE ninth[i]]
  /\ response' = response \o SubSeq(got, 1, n - 1)
  /\ end' = got[n]
  /\ Conclude(response', end'.v)
  /\ UNCHANGED <<txn, frame, outgoing, heard>>

\* wait_receive returns the first n words of the ring (gpioSerialRead stops at
\* the end of its cyclic buffer), which overwrite self.buf; they are taken up
\* to the first with its 9th bit set, the rest of the chunk is dropped.
Chunk(n) ==
  LET got == SubSeq(ring, 1, n) IN
  /\ pc = "receiving" /\ n <= Len(ring)
  /\ ring' = SubSeq(ring, n + 1, Len(ring))
  /\ ninth' = [i \in Slots |-> IF i < n THEN got[i+1].flag ELSE ninth[i]]
  /\ \/ /\ \A i \in 1..n : got[i].flag = 0
        /\ response' = response \o got
        /\ UNCHANGED <<pc, end, result, suspect>>
     \/ \E k \in 1..n :
          /\ got[k].flag = 1 /\ \A i \in 1..k-1 : got[i].flag = 0
          /\ response' = response \o SubSeq(got, 1, k - 1)
          /\ end' = got[k]
          /\ Conclude(response', end'.v)
  /\ UNCHANGED <<txn, frame, outgoing, heard>>

\* wait_receive fails: the deadline passed with nothing in the ring, or
\* gpioSerialRead returned an error.
ReceiveFail ==
  /\ pc = "receiving"
  /\ \/ ring = <<>> /\ Return("timeout")
     \/ Return("error")
  /\ UNCHANGED <<txn, ninth, frame, response, end, ring, outgoing, heard>>

\* The ACK or NAK is sent.  A peripheral that hears NAK may send its block again.
AnswerDone ==
  \/ /\ pc = "acking" /\ Return("ok")
     /\ heard' = "ack" /\ UNCHANGED outgoing
     /\ UNCHANGED <<txn, ninth, frame, response, end, ring>>
  \/ /\ pc = "naking" /\ Return("checksum")
     /\ heard' = "nak" /\ Answers(txn)
     /\ UNCHANGED <<txn, ninth, frame, response, end, ring>>

\* Sending the ACK or NAK fails; the peripheral may have heard it, and may
\* send its block again.
AnswerFail ==
  /\ pc \in {"acking", "naking"}
  /\ Return("error")
  /\ heard' \in {"nothing", IF pc = "acking" THEN "ack" ELSE "nak"}
  /\ Answers(txn)
  /\ UNCHANGED <<txn, ninth, frame, response, end, ring>>

\* Mutant: the reader is not closed and opened again, its ring stays.
ReopenKeepsRing ==
  /\ pc = "idle"
  /\ response' = <<>> /\ end' = NoWord
  /\ result' = "none" /\ heard' = "nothing"
  /\ ninth' \in [Slots -> Uninit]
  /\ suspect' = (outgoing # <<>>)
  /\ UNCHANGED <<pc, txn, frame, outgoing, ring>>

\* MDB_OPEN replaces the port: the old one is closed, the ring of the new one
\* is empty and its buffer uninitialised.  The locals of the last tx are gone.
Reopen ==
  /\ pc = "idle"
  /\ ring' = <<>> /\ response' = <<>> /\ end' = NoWord
  /\ result' = "none" /\ heard' = "nothing"
  /\ ninth' \in [Slots -> Uninit]
  /\ suspect' = (outgoing # <<>>)
  /\ UNCHANGED <<pc, txn, frame, outgoing>>

\* The line: a word of the peripheral arrives, or is lost.
Deliver ==
  /\ outgoing # <<>>
  /\ outgoing' = Tail(outgoing)
  /\ ring' = Append(ring, Head(outgoing))
  /\ UNCHANGED <<pc, txn, ninth, frame, response, end, result, heard, suspect>>

Lose ==
  /\ outgoing # <<>>
  /\ outgoing' = Tail(outgoing)
  /\ UNCHANGED <<pc, txn, ninth, frame, response, end, result, ring, heard, suspect>>

TxStep ==
  \/ SendDone \/ SendFail
  \/ \E n \in 1..BlockMax : Chunk(n)
  \/ ReceiveFail
  \/ AnswerDone \/ AnswerFail

Next ==
  \/ \E n \in 1..BlockMax-1 : TxBegin(n)
  \/ TxStep
  \/ Reopen
  \/ Deliver
  \/ Lose

Spec == Init /\ [][Next]_vars

-----------------------------------------------------------------------------
TypeOK ==
  /\ pc \in {"idle", "sending", "receiving", "acking", "naking"}
  /\ txn \in 0..MaxTx /\ (pc # "idle" => txn > 0)
  /\ ninth \in [Slots -> Bit]
  /\ frame \in Seq(Bit)
  /\ response \in Seq(Word) /\ ring \in Seq(Word) /\ outgoing \in Seq(Word)
  /\ end \in Word \cup {NoWord}
  /\ result \in Results
  /\ heard \in {"nothing", "ack", "nak"}
  /\ suspect \in BOOLEAN

\* What tx returns answers the request of that very tx, unless an earlier tx
\* of the port failed: tx never empties the ring before it sends, so this
\* rests on every other way out having read its answer to the last word.
ReplyBelongs ==
  ~suspect => /\ \A i \in DOMAIN response : response[i].of = txn
              /\ end # NoWord => end.of = txn

\* Between transactions nothing is left on the line for the next one to read.
LineQuiet ==
  ~suspect /\ pc = "idle" => ring = <<>> /\ outgoing = <<>>

\* The two ends agree on a block: what the peripheral saw acknowledged had a
\* good checksum, tx returns data only after its ACK went out, and reports a
\* checksum error only after its NAK did.
AnswerAgreement ==
  /\ heard = "ack" => response # <<>> /\ Checksum(response) = end.v
  /\ heard = "nak" => response # <<>> /\ Checksum(response) # end.v
  /\ result = "ok" /\ response # <<>> => heard = "ack"
  /\ result = "checksum" => heard = "nak"

\* "first byte with 9bit set" (mdb.rs:116): the 9th bit marks the first byte of
\* a request and no other.
NinthBitOnFirstOnly == \A i \in DOMAIN frame : frame[i] = 1 <=> i = 1
=============================================================================
