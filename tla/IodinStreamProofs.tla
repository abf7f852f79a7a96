--------------------------- MODULE IodinStreamProofs ---------------------------
(* Proofs about IodinStream, for all messages that IodinWire follows and any *)
(* number of calls.  That they come over the wire is proved in              *)
(* IodinWireProofs.                                                         *)
EXTENDS IodinStream, IodinWireProofs

\* All that the server responds.
Responses == {ParseError, InvalidCommand, Stopping} \cup Answers

\* The bytes of what is sent, without their length.
BodyOf(m, b) ==
  \/ m \in Requests /\ b = WriteTo(RequestFields, m)
  \/ m \in RawBodies /\ b = m

\* The response in hand is one to what was sent.
Answered ==
  /\ response \in Responses
  /\ sent \in Requests => response \in AnswersTo(sent)

\* What a Do that succeeds has made of the response.
Brought ==
  /\ Answered
  /\ DOMAIN resp = DOMAIN ResponseFields /\ resp[2] = response[2]
  /\ fresh => resp = response
  /\ \A i \in DOMAIN ResponseFields : resp[i] = response[i] \/ response[i] = NoResponse[i]

-----------------------------------------------------------------------------
(* How far a call is; the server stands at the start of a message or is gone *)
(* but between Taken and Answering.                                         *)

AtStart == phase \in {"length", "ended"}

Between ==
  /\ pc = "idle" /\ AtStart /\ toServer = <<>> /\ toClient = <<>>
  /\ got = "none" \/ (got = "ok" /\ Brought)
Asked ==
  /\ pc = "length" /\ AtStart /\ toClient = <<>>
  /\ \E b : BodyOf(sent, b) /\ toServer = Fixed32(Len(b)) \o b
Taken ==
  /\ pc = "length" /\ phase = "message" /\ toClient = <<>>
  /\ BodyOf(sent, toServer) /\ msglen = Len(toServer)
  /\ request = NoRequest /\ response = NoResponse
Executing ==
  /\ pc = "length" /\ phase = "exec" /\ toServer = <<>> /\ toClient = <<>>
  /\ sent \in Requests => request = sent
  /\ response = NoResponse
Answering ==
  /\ pc = "length" /\ phase \in {"reply", "last reply"} /\ toServer = <<>> /\ toClient = <<>>
  /\ Answered
Replied ==
  /\ pc = "length" /\ AtStart /\ toServer = <<>>
  /\ toClient = Framed(ResponseFields, response) /\ Answered
Reading ==
  /\ pc = "body" /\ AtStart /\ toServer = <<>>
  /\ toClient = WriteTo(ResponseFields, response) /\ len = Len(toClient) /\ Answered

Called ==
  /\ got = "none" /\ (fresh => resp = NoResponse)
  /\ Asked \/ Taken \/ Executing \/ Answering \/ Replied \/ Reading

\* The inductive invariant.
CallInv == InStep => Between \/ Called

-----------------------------------------------------------------------------
(* A length and what is behind it come apart again.                         *)

LEMMA CutSeq ==
  ASSUME NEW T, NEW f \in Seq(T), NEW b \in Seq(T), Len(f) = 4
  PROVE  /\ Len(f \o b) = 4 + Len(b)
         /\ SubSeq(f \o b, 1, 4) = f
         /\ SubSeq(f \o b, 5, 4 + Len(b)) = b
<1>1. Len(b) \in Nat
  BY LenProperties
<1>2. Len(f \o b) = Len(f) + Len(b)
  BY ConcatProperties
<1>3. SubSeq(f \o b, 1, 4) = f
  <2>1. 1 \in 1..Len(f) /\ 4 \in 1..Len(f)
    OBVIOUS
  <2>2. SubSeq(f \o b, 1, 4) = SubSeq(f, 1, 4)
    BY <2>1, SubSeqOfConcat1
  <2> QED
    BY <2>2, SubSeqFull
<1>4. SubSeq(f \o b, 5, 4 + Len(b)) = b
  <2>1. CASE Len(b) = 0
    <3>1. b = <<>>
      BY <2>1, EmptySeq
    <3>2. SubSeq(f \o b, 5, 4) = <<>>
      BY SubSeqEmpty
    <3> QED
      BY <2>1, <3>1, <3>2
  <2>2. CASE Len(b) > 0
    <3> DEFINE m == 4 + Len(b)
    <3>1. 5 \in Len(f)+1..Len(f)+Len(b) /\ m \in Len(f)+1..Len(f)+Len(b)
      BY <1>1, <2>2
    <3>2. SubSeq(f \o b, 5, m) = SubSeq(b, 5 - Len(f), m - Len(f))
      BY <3>1, SubSeqOfConcat2
    <3>3. 5 - Len(f) = 1 /\ m - Len(f) = Len(b)
      BY <1>1
    <3> QED
      BY <3>2, <3>3, SubSeqFull
  <2>3. Len(b) = 0 \/ Len(b) > 0
    BY <1>1
  <2> QED
    BY <2>1, <2>2, <2>3, Zenon
<1> QED
  BY <1>2, <1>3, <1>4

LEMMA Cut ==
  ASSUME NEW b \in Seq(Byte), NEW n \in Nat
  PROVE  LET s == Fixed32(n) \o b IN
         /\ Len(s) = 4 + Len(b)
         /\ Prefix(s, 4) = Fixed32(n)
         /\ Len(Fixed32(n)) = 4
         /\ SubSeq(s, 5, Len(s)) = b
<1> DEFINE f == Fixed32(n)
           s == f \o b
<1>1. f \in Seq(Byte) /\ Len(f) = 4
  BY Fixed32Is
<1> HIDE DEF f
<1>2. /\ Len(s) = 4 + Len(b)
      /\ SubSeq(s, 1, 4) = f
      /\ SubSeq(s, 5, 4 + Len(b)) = b
  BY <1>1, CutSeq
<1>3. Len(b) \in Nat
  BY LenProperties
<1> HIDE DEF s
<1>4. Prefix(s, 4) = f
  BY <1>2, <1>3 DEF Prefix
<1> QED
  BY <1>1, <1>2, <1>4 DEF f, s

\* Into an empty pipe.
LEMMA Alone ==
  ASSUME NEW b \in Seq(Byte), NEW n \in Nat
  PROVE  <<>> \o (Fixed32(n) \o b) = Fixed32(n) \o b
<1> DEFINE f == Fixed32(n)
<1>1. f \in Seq(Byte)
  BY Fixed32Is
<1> HIDE DEF f
<1>2. f \o b \in Seq(Byte)
  BY <1>1, ConcatProperties
<1> QED
  BY <1>2, ConcatEmptySeq DEF f

\* A message read whole leaves nothing.
LEMMA Whole ==
  ASSUME NEW b \in Seq(Byte)
  PROVE  /\ Len(b) \in Nat
         /\ Prefix(b, Len(b)) = b
         /\ SubSeq(b, Len(b) + 1, Len(b)) = <<>>
<1>1. Len(b) \in Nat
  BY LenProperties
<1> QED
  BY <1>1, SubSeqFull, SubSeqEmpty DEF Prefix

LEMMA Nothing == Len(<<>>) = 0
BY EmptySeq

-----------------------------------------------------------------------------
(* What is sent, and what is answered.                                      *)

LEMMA RequestsAreCarried ==
  ASSUME NEW r \in Requests
  PROVE  Carried(RequestFields, r)
BY StreamAssumption, SchemasAre, MessagesAreCarried, Zenon

LEMMA BodyIsBounded ==
  ASSUME NEW m, NEW b, BodyOf(m, b)
  PROVE  Bounded(b)
<1>1. CASE m \in Requests /\ b = WriteTo(RequestFields, m)
  <2>1. IsWritable(RequestFields, m)
    BY <1>1, StreamAssumption
  <2>2. WriteTo(RequestFields, m) \in Seq(Byte) /\ Len(WriteTo(RequestFields, m)) < Huge
    BY <2>1, SchemasAre, SizeIs
  <2> QED
    BY <1>1, <2>2, BytesAreBounded
<1>2. CASE m \in RawBodies /\ b = m
  <2>1. b \in Seq(Byte) /\ Len(b) < Huge
    BY <1>2, StreamAssumption
  <2> QED
    BY <2>1, BytesAreBounded
<1> QED
  BY <1>1, <1>2 DEF BodyOf

\* A request is put together again, in a new Request.
LEMMA BodyIsRead ==
  ASSUME NEW m \in Requests, NEW b, BodyOf(m, b)
  PROVE  /\ Scan(b, Len(b)).how = "done"
         /\ Merge(RequestFields, NoRequest, Scan(b, Len(b)).fields) = m
<1>1. b = WriteTo(RequestFields, m)
  BY StreamAssumption DEF BodyOf
<1> QED
  BY <1>1, RequestsAreCarried DEF Carried, NoRequest

LEMMA KindsAre ==
  /\ DOMAIN ResponseFields = 1..4
  /\ ~Delimited(ResponseFields[1]) /\ ~Delimited(ResponseFields[2])
  /\ Delimited(ResponseFields[3]) /\ Delimited(ResponseFields[4])
BY DEF Delimited, ResponseFields

LEMMA NoResponseIs ==
  /\ DOMAIN ResponseFields = 1..4
  /\ DOMAIN NoResponse = 1..4 /\ NoResponse = [i \in 1..4 |-> NoResponse[i]]
  /\ NoResponse[1] = 0 /\ NoResponse[2] = 0 /\ NoResponse[3] = <<>> /\ NoResponse[4] = <<>>
BY KindsAre DEF NoResponse, New, DefaultOf

\* What makes a response writable.
LEMMA ResponseIs ==
  ASSUME NEW a
  PROVE  IsWritable(ResponseFields, a) <=>
           /\ DOMAIN a = 1..4 /\ a = [i \in 1..4 |-> a[i]]
           /\ a[1] \in Nat /\ a[2] \in Nat /\ a[3] \in Seq(Byte) /\ a[4] \in Seq(Byte)
           /\ a[1] < Huge /\ a[2] < Huge /\ Len(a[3]) < 2^24 /\ Len(a[4]) < 2^24
<1> DEFINE P(i) == IF Delimited(ResponseFields[i]) THEN a[i] \in Seq(Byte) ELSE a[i] \in Nat
           Q(i) == IF Delimited(ResponseFields[i]) THEN Len(a[i]) < 2^24 ELSE a[i] < Huge
<1>1. IsWritable(ResponseFields, a) <=>
        /\ DOMAIN a = 1..4 /\ a = [i \in 1..4 |-> a[i]]
        /\ (\A i \in 1..4 : P(i)) /\ (\A i \in 1..4 : Q(i))
  BY KindsAre DEF IsWritable, IsMessage
<1>2. /\ P(1) <=> a[1] \in Nat
      /\ P(2) <=> a[2] \in Nat
      /\ P(3) <=> a[3] \in Seq(Byte)
      /\ P(4) <=> a[4] \in Seq(Byte)
  BY KindsAre, Zenon
<1>3. /\ Q(1) <=> a[1] < Huge
      /\ Q(2) <=> a[2] < Huge
      /\ Q(3) <=> Len(a[3]) < 2^24
      /\ Q(4) <=> Len(a[4]) < 2^24
  BY KindsAre
<1> HIDE DEF P, Q
<1>4. /\ (\A i \in 1..4 : P(i)) <=> (P(1) /\ P(2) /\ P(3) /\ P(4))
      /\ (\A i \in 1..4 : Q(i)) <=> (Q(1) /\ Q(2) /\ Q(3) /\ Q(4))
  <2>1. \A i \in 1..4 : i = 1 \/ i = 2 \/ i = 3 \/ i = 4
    OBVIOUS
  <2>2. 1 \in 1..4 /\ 2 \in 1..4 /\ 3 \in 1..4 /\ 4 \in 1..4
    OBVIOUS
  <2> QED
    BY <2>1, <2>2, Zenon
<1> QED
  BY <1>1, <1>2, <1>3, <1>4, Zenon

\* The texts of the responses that exec writes without a pin.
ShortTexts == {<<>>, <<112>>, <<105>>}

\* A status and a text of at most a letter.
LEMMA ShortResponse ==
  ASSUME NEW status \in {1, 2}, NEW text \in ShortTexts, NEW a,
         a = [NoResponse EXCEPT ![2] = status, ![3] = text]
  PROVE  IsWritable(ResponseFields, a) /\ a[1] = 0 /\ a[2] # 0
<1>1. DOMAIN a = 1..4 /\ a = [i \in 1..4 |-> a[i]]
  BY NoResponseIs
<1>2. a[1] = 0 /\ a[2] = status /\ a[3] = text /\ a[4] = <<>>
  BY NoResponseIs
<1>3. <<>> \in Seq(Byte) /\ Len(<<>>) = 0
  BY EmptySeq
<1>4. text \in Seq(Byte) /\ Len(text) \in 0..1
  <2>1. 112 \in Byte /\ 105 \in Byte
    BY DEF Byte
  <2>2. text = <<>> \/ text = <<112>> \/ text = <<105>>
    BY DEF ShortTexts
  <2>3. ASSUME NEW x \in Byte PROVE <<x>> \in Seq(Byte) /\ Len(<<x>>) = 1
    OBVIOUS
  <2>4. 0 \in 0..1 /\ 1 \in 0..1
    OBVIOUS
  <2> QED
    BY <1>3, <2>1, <2>2, <2>3, <2>4, Zenon
<1>5. 1 < 2^24 /\ 0 < 2^24 /\ 2 < Huge /\ 1 < Huge /\ 0 < Huge
  BY Powers, SMT
<1>6. Len(a[3]) < 2^24 /\ Len(a[4]) < 2^24
  <2>1. Len(text) = 0 \/ Len(text) = 1
    BY <1>4
  <2> QED
    BY <1>2, <1>3, <1>5, <2>1, Zenon
<1>7. a[1] < Huge /\ a[2] < Huge /\ a[1] \in Nat /\ a[2] \in Nat
  <2>1. status = 1 \/ status = 2
    OBVIOUS
  <2>2. a[1] \in Nat /\ a[2] \in Nat
    BY <1>2
  <2>3. a[1] < Huge /\ a[2] < Huge
    BY <1>2, <1>5, <2>1, Zenon
  <2> QED
    BY <2>2, <2>3
<1>8. a[3] \in Seq(Byte) /\ a[4] \in Seq(Byte)
  BY <1>2, <1>3, <1>4
<1>9. IsWritable(ResponseFields, a)
  BY <1>1, <1>6, <1>7, <1>8, ResponseIs, Zenon
<1> QED
  BY <1>2, <1>9

\* Every response is a message with a status and without a version.
LEMMA ResponsesHaveStatus ==
  ASSUME NEW a \in Responses
  PROVE  /\ IsWritable(ResponseFields, a)
         /\ DOMAIN a = 1..4 /\ a = [i \in 1..4 |-> a[i]]
         /\ a[1] = 0 /\ a[2] # 0 /\ a[4] \in Seq(Byte)
<1>1. CASE a \in Answers
  <2>1. IsWritable(ResponseFields, a) /\ a[1] = 0 /\ a[2] # 0
    BY <1>1, StreamAssumption DEF Statuses
  <2> QED
    BY <2>1, ResponseIs, Zenon
<1>2. ASSUME NEW status \in {1, 2}, NEW text \in ShortTexts,
             a = [NoResponse EXCEPT ![2] = status, ![3] = text]
      PROVE  IsWritable(ResponseFields, a) /\ a[1] = 0 /\ a[2] # 0
  BY <1>2, ShortResponse
<1>3. CASE a = Stopping
  <2>1. Stopping = [NoResponse EXCEPT ![2] = 1, ![3] = <<>>]
    <3> DEFINE b == [NoResponse EXCEPT ![2] = 1]
               c == [NoResponse EXCEPT ![2] = 1, ![3] = <<>>]
    <3>1. Stopping = b
      BY DEF Stopping, Statuses
    <3>2. /\ DOMAIN b = 1..4 /\ b = [i \in 1..4 |-> b[i]]
          /\ DOMAIN c = 1..4 /\ c = [i \in 1..4 |-> c[i]]
      BY NoResponseIs
    <3>3. /\ b[1] = NoResponse[1] /\ b[2] = 1 /\ b[3] = NoResponse[3] /\ b[4] = NoResponse[4]
          /\ c[1] = NoResponse[1] /\ c[2] = 1 /\ c[3] = <<>> /\ c[4] = NoResponse[4]
      BY NoResponseIs
    <3> HIDE DEF b, c
    <3>4. \A i \in 1..4 : b[i] = c[i]
      BY <3>3, NoResponseIs
    <3>5. b = c
      BY <3>2, <3>4
    <3> QED
      BY <3>1, <3>5 DEF c
  <2>2. 1 \in {1, 2} /\ <<>> \in ShortTexts
    BY DEF ShortTexts
  <2>3. IsWritable(ResponseFields, a) /\ a[1] = 0 /\ a[2] # 0
    BY <1>2, <1>3, <2>1, <2>2
  <2> QED
    BY <2>3, ResponseIs, Zenon
<1>4. CASE a \in {ParseError, InvalidCommand}
  <2>1. /\ ParseError = [NoResponse EXCEPT ![2] = 2, ![3] = <<112>>]
        /\ InvalidCommand = [NoResponse EXCEPT ![2] = 2, ![3] = <<105>>]
    BY DEF ParseError, InvalidCommand, Refusal, Statuses
  <2>2. 2 \in {1, 2} /\ <<112>> \in ShortTexts /\ <<105>> \in ShortTexts
    BY DEF ShortTexts
  <2>3. IsWritable(ResponseFields, a) /\ a[1] = 0 /\ a[2] # 0
    BY <1>2, <1>4, <2>1, <2>2
  <2> QED
    BY <2>3, ResponseIs, Zenon
<1> QED
  BY <1>1, <1>3, <1>4 DEF Responses

LEMMA ResponsesAreCarried ==
  ASSUME NEW a \in Responses
  PROVE  Carried(ResponseFields, a)
BY ResponsesHaveStatus, SchemasAre, MessagesAreCarried, Zenon

LEMMA AnswersAreResponses ==
  ASSUME NEW m
  PROVE  AnswersTo(m) \subseteq Responses
BY DEF AnswersTo, Responses

\* Into a new Response exec fills in its answer and nothing else.
LEMMA FilledIn ==
  ASSUME NEW a \in Responses
  PROVE  [NoResponse EXCEPT ![2] = a[2], ![3] = IF a[3] = <<>> THEN @ ELSE a[3],
                            ![4] = @ \o a[4]] = a
<1>1. NoResponse[4] \o a[4] = a[4]
  BY NoResponseIs, ResponsesHaveStatus, ConcatEmptySeq
<1>2. (IF a[3] = <<>> THEN NoResponse[3] ELSE a[3]) = a[3]
  BY NoResponseIs
<1> DEFINE b == [NoResponse EXCEPT ![2] = a[2], ![3] = IF a[3] = <<>> THEN @ ELSE a[3],
                                  ![4] = @ \o a[4]]
<1>3. DOMAIN b = 1..4 /\ b = [i \in 1..4 |-> b[i]]
  BY NoResponseIs
<1>4. b[1] = a[1] /\ b[2] = a[2] /\ b[3] = a[3] /\ b[4] = a[4]
  BY <1>1, <1>2, NoResponseIs, ResponsesHaveStatus
<1> HIDE DEF b
<1>5. a = b
  BY <1>3, <1>4, ResponsesHaveStatus
<1> QED
  BY <1>5 DEF b

\* What Do makes of a response that was written: every field of it, and of the
\* fields it left out what was there before.
LEMMA Merged ==
  ASSUME NEW a \in Responses, NEW r
  PROVE  LET bytes == WriteTo(ResponseFields, a)
             merged == Merge(ResponseFields, r, Scan(bytes, Len(bytes)).fields)
         IN /\ DOMAIN merged = 1..4
            /\ merged[2] = a[2]
            /\ r = NoResponse => merged = a
            /\ \A i \in 1..4 : merged[i] = a[i] \/ a[i] = NoResponse[i]
<1> DEFINE bytes == WriteTo(ResponseFields, a)
           fields == Scan(bytes, Len(bytes)).fields
           values(i) == Occurrences(ResponseFields, fields, i)
           merged == Merge(ResponseFields, r, fields)
<1>1. Carried(ResponseFields, a)
  BY ResponsesAreCarried
<1>2. /\ Merge(ResponseFields, NoResponse, fields) = a
      /\ \A i \in 1..4 : values(i) = {} <=> a[i] = NoResponse[i]
  BY <1>1, NoResponseIs DEF Carried, NoResponse
<1> HIDE DEF fields
<1>3. \A i \in 1..4 : /\ values(i) = {} => merged[i] = r[i]
                      /\ values(i) # {} => merged[i] = fields[Max(values(i))][2]
  BY NoResponseIs DEF Merge
<1>4. \A i \in 1..4 : values(i) # {} => a[i] = fields[Max(values(i))][2]
  BY <1>2, NoResponseIs DEF Merge
<1>5. DOMAIN merged = 1..4
  BY NoResponseIs DEF Merge
<1>6. \A i \in 1..4 : merged[i] = a[i] \/ a[i] = NoResponse[i]
  BY <1>2, <1>3, <1>4
<1>7. merged[2] = a[2]
  BY <1>6, ResponsesHaveStatus, NoResponseIs
<1>8. r = NoResponse => merged = a
  BY <1>2
<1> QED
  BY <1>5, <1>6, <1>7, <1>8 DEF fields

-----------------------------------------------------------------------------
(* Every step that leaves the two in step takes the call one place further. *)

LEMMA SendKeeps ==
  ASSUME NEW m, NEW b, BodyOf(m, b), Between, Send(m, Fixed32(Len(b)) \o b)
  PROVE  Called'
<1>1. b \in Seq(Byte)
  BY BodyIsBounded DEF Bounded
<1>2. toServer' = Fixed32(Len(b)) \o b
  BY <1>1, Alone DEF Between, Send
<1>3. BodyOf(sent', b)
  BY DEF Send
<1>4. /\ pc' = "length" /\ got' = "none" /\ (fresh' => resp' = NoResponse)
      /\ toClient' = <<>> /\ AtStart'
  BY DEF Between, AtStart, Send, server
<1> QED
  BY <1>2, <1>3, <1>4 DEF Called, Asked

LEMMA DoWriteKeeps ==
  ASSUME NEW r \in Requests, Between, DoWrite(r)
  PROVE  Called'
<1> DEFINE b == WriteTo(RequestFields, r)
<1>1. Framed(RequestFields, r) = Fixed32(Len(b)) \o b
  BY RequestsAreCarried DEF Framed, Carried
<1> HIDE DEF b
<1>2. Send(r, Fixed32(Len(b)) \o b)
  BY <1>1 DEF DoWrite
<1> QED
  BY <1>2, SendKeeps DEF b, BodyOf

LEMMA WriteRawKeeps ==
  ASSUME NEW b \in RawBodies, Between, WriteRaw(b)
  PROVE  Called'
BY SendKeeps DEF WriteRaw, BodyOf

LEMMA ReadLengthKeeps ==
  ASSUME Called, ReadLength
  PROVE  Called'
<1>1. Asked
  BY Nothing DEF Called, Taken, Executing, Answering, Replied, Reading, ReadLength
<1>2. PICK b : BodyOf(sent, b) /\ toServer = Fixed32(Len(b)) \o b
  BY <1>1 DEF Asked
<1>3. Bounded(b)
  BY <1>2, BodyIsBounded
<1>4. b \in Seq(Byte) /\ Number(256, Fixed32(Len(b))) = Len(b)
  BY <1>3 DEF Bounded
<1>5. Prefix(toServer, 4) = Fixed32(Len(b)) /\ SubSeq(toServer, 5, Len(toServer)) = b
  <2>1. Len(b) \in Nat
    BY <1>4, LenProperties
  <2> QED
    BY <1>2, <1>4, <2>1, Cut
<1>6. toServer' = b /\ msglen' = Len(b)
  BY <1>4, <1>5 DEF ReadLength
<1>7. UNCHANGED <<client, toClient>>
  BY DEF ReadLength
<1>8. phase' = "message" /\ request' = NoRequest /\ response' = NoResponse
  BY DEF ReadLength
<1>9. Taken'
  BY <1>1, <1>2, <1>6, <1>7, <1>8 DEF Asked, Taken, client
<1> QED
  BY <1>7, <1>9 DEF Called, client

LEMMA ParseKeeps ==
  ASSUME Called, Parse, InStep'
  PROVE  Called'
<1>1. Taken
  BY DEF Called, Asked, AtStart, Executing, Answering, Replied, Reading, Parse
<1> DEFINE scan == Scan(toServer, msglen)
<1>2. Bounded(toServer)
  BY <1>1, BodyIsBounded DEF Taken
<1>3. /\ toServer \in Seq(Byte) /\ msglen = Len(toServer)
      /\ scan.how \in {"done", "error"} /\ scan.used \in 0..Len(toServer)
      /\ scan.how = "done" => scan.used = Len(toServer)
  BY <1>1, <1>2 DEF Bounded, Taken
<1>4. sent \in Requests =>
        scan.how = "done" /\ Merge(RequestFields, NoRequest, scan.fields) = sent
  BY <1>1, <1>3, BodyIsRead DEF Taken
<1>5. /\ toServer' = SubSeq(toServer, scan.used + 1, Len(toServer))
      /\ request' = Merge(RequestFields, request, scan.fields)
      /\ UNCHANGED <<msglen, client, toClient>>
  BY DEF Parse
<1>6. CASE scan.how = "done"
  <2>1. phase' = "exec" /\ UNCHANGED response
    BY <1>6 DEF Parse
  <2> HIDE DEF scan
  <2>2. toServer' = <<>>
    BY <1>3, <1>5, <1>6, Whole
  <2>3. sent \in Requests => request' = sent
    BY <1>1, <1>4, <1>5 DEF Taken
  <2> QED
    BY <1>1, <1>5, <2>1, <2>2, <2>3 DEF Called, Taken, Executing, client
<1>7. CASE scan.how = "error"
  <2>1. phase' = "reply" /\ response' = ParseError /\ lost' = (lost \/ scan.used < msglen)
    BY <1>7 DEF Parse
  <2> HIDE DEF scan
  <2>2. ~(scan.used < msglen)
    BY <2>1 DEF InStep
  <2>3. Len(toServer) \in Nat
    BY <1>3, Whole
  <2>4. scan.used = Len(toServer)
    BY <1>3, <2>2, <2>3
  <2>5. toServer' = <<>>
    BY <1>3, <1>5, <2>4, Whole
  <2>6. sent \notin Requests
    BY <1>4, <1>7
  <2>7. Answered'
    BY <1>5, <2>1, <2>6 DEF Answered, Responses, client
  <2> QED
    BY <1>1, <1>5, <2>1, <2>5, <2>7 DEF Called, Taken, Answering, client
<1> QED
  BY <1>3, <1>6, <1>7

LEMMA ExecKeeps ==
  ASSUME Called, Exec
  PROVE  Called'
<1>1. Executing
  BY DEF Called, Asked, AtStart, Taken, Answering, Replied, Reading, Exec
<1>2. PICK a \in AnswersTo(request) :
        response' = [response EXCEPT ![2] = a[2], ![3] = IF a[3] = <<>> THEN @ ELSE a[3],
                                     ![4] = @ \o a[4]]
  BY DEF Exec
<1>3. a \in Responses
  BY AnswersAreResponses
<1>4. response = NoResponse
  BY <1>1 DEF Executing
<1>5. response' = a
  BY <1>2, <1>3, <1>4, FilledIn
<1>6. phase' \in {"reply", "last reply"} /\ UNCHANGED <<client, toServer, toClient>>
  BY DEF Exec
<1>7. Answered'
  BY <1>1, <1>3, <1>5, <1>6 DEF Answered, Executing, client
<1> QED
  BY <1>1, <1>6, <1>7 DEF Called, Executing, Answering, client

LEMMA ReplyKeeps ==
  ASSUME Called, Reply
  PROVE  Called'
<1>1. Answering
  BY DEF Called, Asked, AtStart, Taken, Executing, Replied, Reading, Reply
<1> DEFINE f == Framed(ResponseFields, response)
           bytes == WriteTo(ResponseFields, response)
<1>2. f = Fixed32(Len(bytes)) \o bytes /\ bytes \in Seq(Byte)
  BY <1>1, ResponsesAreCarried DEF Answering, Answered, Framed, Carried
<1>3. <<>> \o f = f
  BY <1>2, Alone
<1>4. toClient' = f
  BY <1>1, <1>3 DEF Answering, Reply
<1> HIDE DEF f
<1>5. AtStart' /\ UNCHANGED <<response, client, toServer>>
  BY DEF Reply, AtStart
<1>6. Answered'
  BY <1>1, <1>5 DEF Answering, Answered, client
<1> QED
  BY <1>1, <1>4, <1>5, <1>6 DEF Called, Answering, Replied, client, f

LEMMA DoReadLengthKeeps ==
  ASSUME Called, DoReadLength, InStep'
  PROVE  Called'
<1>1. Replied
  BY DEF Called, Asked, Taken, Executing, Answering, Reading, DoReadLength
<1> DEFINE bytes == WriteTo(ResponseFields, response)
<1>2. /\ toClient = Fixed32(Len(bytes)) \o bytes
      /\ bytes \in Seq(Byte) /\ Number(256, Fixed32(Len(bytes))) = Len(bytes)
  BY <1>1, ResponsesAreCarried DEF Replied, Answered, Framed, Carried
<1> HIDE DEF bytes
<1>3. /\ Prefix(toClient, 4) = Fixed32(Len(bytes)) /\ Len(Prefix(toClient, 4)) = 4
      /\ SubSeq(toClient, 5, Len(toClient)) = bytes
  <2>1. Len(bytes) \in Nat
    BY <1>2, LenProperties
  <2> QED
    BY <1>2, <2>1, Cut
<1> DEFINE head == Prefix(toClient, 4)
           n == Number(256, head)
<1>0. /\ toClient' = SubSeq(toClient, Len(head) + 1, Len(toClient))
      /\ CASE Len(head) < 4 -> Return("nothing") /\ UNCHANGED <<len, astray>>
           [] Len(head) = 4 /\ n > BufLen -> Return("error") /\ UNCHANGED len /\ astray' = TRUE
           [] OTHER -> pc' = "body" /\ len' = n /\ UNCHANGED <<got, astray>>
  BY DEF DoReadLength
<1> HIDE DEF head
<1>4. toClient' = bytes
  <2>1. Len(head) = 4 /\ SubSeq(toClient, 5, Len(toClient)) = bytes
    BY <1>3 DEF head
  <2>2. 4 + 1 = 5
    OBVIOUS
  <2> QED
    BY <1>0, <2>1, <2>2, Zenon
<1>5. pc' = "body" /\ len' = Len(bytes) /\ UNCHANGED got
  <2>1. n = Len(bytes) /\ Len(head) = 4 /\ ~astray'
    BY <1>2, <1>3 DEF head, InStep
  <2> HIDE DEF n
  <2>2. CASE n > BufLen
    BY <1>0, <2>1, <2>2
  <2>3. CASE ~(n > BufLen)
    BY <1>0, <2>1, <2>3
  <2> QED
    BY <2>2, <2>3
<1>6. UNCHANGED <<sent, resp, fresh, server, toServer>>
  BY DEF DoReadLength
<1>7. AtStart' /\ Answered' /\ bytes' = bytes
  BY <1>1, <1>6 DEF Replied, AtStart, Answered, server, bytes
<1> QED
  BY <1>1, <1>4, <1>5, <1>6, <1>7 DEF Called, Replied, Reading, server, bytes

LEMMA DoReadBodyKeeps ==
  ASSUME Called, DoReadBody
  PROVE  Between'
<1>1. Reading
  BY DEF Called, Asked, Taken, Executing, Answering, Replied, DoReadBody
<1> DEFINE bytes == WriteTo(ResponseFields, response)
           scan == Scan(bytes, Len(bytes))
<1>2. toClient = bytes /\ len = Len(bytes) /\ response \in Responses
  BY <1>1 DEF Reading, Answered
<1>3. bytes \in Seq(Byte) /\ scan.how = "done"
  BY <1>2, ResponsesAreCarried DEF Carried
<1>4. /\ Len(bytes) \in Nat /\ Prefix(bytes, Len(bytes)) = bytes
      /\ SubSeq(bytes, Len(bytes) + 1, Len(bytes)) = <<>>
  BY <1>3, Whole
<1> HIDE DEF bytes
<1>5. /\ toClient' = <<>> /\ pc' = "idle" /\ got' = "ok"
      /\ resp' = Merge(ResponseFields, resp, scan.fields)
  BY <1>2, <1>3, <1>4 DEF DoReadBody, Return
<1> HIDE DEF scan
<1>6. UNCHANGED <<sent, fresh, server, toServer>>
  BY DEF DoReadBody
<1>7. /\ DOMAIN resp' = 1..4 /\ resp'[2] = response[2]
      /\ resp = NoResponse => resp' = response
      /\ \A i \in 1..4 : resp'[i] = response[i] \/ response[i] = NoResponse[i]
  BY <1>2, <1>5, Merged DEF bytes, scan
<1>8. Answered'
  BY <1>1, <1>6 DEF Reading, Answered, server
<1>9. fresh => resp = NoResponse
  BY DEF Called
<1>10. Brought'
  BY <1>6, <1>7, <1>8, <1>9, NoResponseIs DEF Brought, server
<1> QED
  BY <1>1, <1>5, <1>6, <1>10 DEF Reading, Between, AtStart, server

-----------------------------------------------------------------------------
(* The inductive invariant and what it gives.                               *)

LEMMA StartInv == Init => CallInv
BY DEF Init, CallInv, Between, AtStart

\* Once out of step, always out of step.
LEMMA NoWayBack ==
  ASSUME [Next]_vars, InStep'
  PROVE  InStep
<1>1. CASE UNCHANGED vars
  BY <1>1 DEF vars, client, server, InStep
<1>2. ASSUME NEW m, NEW bytes, Send(m, bytes) PROVE InStep
  BY <1>2 DEF Send, server, InStep
<1>3. CASE DoReadLength
  <2>1. astray' = astray \/ astray' = TRUE
    BY <1>3 DEF DoReadLength
  <2>2. lost' = lost
    BY <1>3 DEF DoReadLength, server
  <2> QED
    BY <2>1, <2>2 DEF InStep
<1>4. CASE DoReadBody
  BY <1>4 DEF DoReadBody, server, InStep
<1>5. CASE ReadLength
  BY <1>5 DEF ReadLength, client, InStep
<1>6. CASE Parse
  <2>1. astray' = astray
    BY <1>6 DEF Parse, client
  <2>2. CASE lost' = lost
    BY <2>1, <2>2 DEF InStep
  <2>3. CASE lost' = (lost \/ Scan(toServer, msglen).used < msglen)
    <3> DEFINE short == Scan(toServer, msglen).used < msglen
    <3>1. lost' = (lost \/ short)
      BY <2>3
    <3> HIDE DEF short
    <3>2. lost' = (lost \/ short) => (~lost' => ~lost)
      OBVIOUS
    <3> QED
      BY <2>1, <3>1, <3>2, Zenon DEF InStep
  <2>4. \/ lost' = lost
        \/ lost' = (lost \/ Scan(toServer, msglen).used < msglen)
    BY <1>6, Zenon DEF Parse
  <2> QED
    BY <2>2, <2>3, <2>4
<1>7. CASE Exec
  BY <1>7 DEF Exec, client, InStep
<1>8. CASE Reply
  BY <1>8 DEF Reply, client, InStep
<1> QED
  BY <1>1, <1>2, <1>3, <1>4, <1>5, <1>6, <1>7, <1>8 DEF Next, DoWrite, WriteRaw

LEMMA StepKeepsInv == CallInv /\ [Next]_vars => CallInv'
<1> SUFFICES ASSUME CallInv, [Next]_vars, InStep'
             PROVE  (Between \/ Called)'
  BY DEF CallInv
<1>1. Between \/ Called
  BY NoWayBack DEF CallInv
<1>2. Between => pc = "idle" /\ toServer = <<>> /\ AtStart
  BY DEF Between
<1>3. Called => pc \in {"length", "body"}
  BY DEF Called, Asked, Taken, Executing, Answering, Replied, Reading
<1>4. CASE UNCHANGED vars
  <2>1. Between => Between'
    BY <1>4 DEF vars, client, server, Between, AtStart, Brought, Answered
  <2>2. Called => Called'
    BY <1>4 DEF vars, client, server, Called, AtStart, Answered,
                Asked, Taken, Executing, Answering, Replied, Reading
  <2> QED
    BY <1>1, <2>1, <2>2
<1>5. ASSUME NEW r \in Requests, DoWrite(r) PROVE Called'
  <2>1. Between
    BY <1>1, <1>3, <1>5 DEF DoWrite, Send
  <2> QED
    BY <1>5, <2>1, DoWriteKeeps
<1>6. ASSUME NEW b \in RawBodies, WriteRaw(b) PROVE Called'
  <2>1. Between
    BY <1>1, <1>3, <1>6 DEF WriteRaw, Send
  <2> QED
    BY <1>6, <2>1, WriteRawKeeps
<1>7. CASE DoReadLength
  <2>1. pc = "length"
    BY <1>7 DEF DoReadLength
  <2> QED
    BY <1>1, <1>2, <1>7, <2>1, DoReadLengthKeeps
<1>8. CASE DoReadBody
  <2>1. pc = "body"
    BY <1>8 DEF DoReadBody
  <2> QED
    BY <1>1, <1>2, <1>8, <2>1, DoReadBodyKeeps
<1>9. CASE ReadLength
  <2>1. Len(toServer) >= 4
    BY <1>9 DEF ReadLength
  <2>2. ~Between
    BY <1>2, <2>1, Nothing
  <2> QED
    BY <1>1, <1>9, <2>2, ReadLengthKeeps
<1>10. CASE Parse
  <2>1. phase = "message"
    BY <1>10 DEF Parse
  <2> QED
    BY <1>1, <1>2, <1>10, <2>1, ParseKeeps DEF AtStart
<1>11. CASE Exec
  <2>1. phase = "exec"
    BY <1>11 DEF Exec
  <2> QED
    BY <1>1, <1>2, <1>11, <2>1, ExecKeeps DEF AtStart
<1>12. CASE Reply
  <2>1. phase \in {"reply", "last reply"}
    BY <1>12 DEF Reply
  <2> QED
    BY <1>1, <1>2, <1>12, <2>1, ReplyKeeps DEF AtStart
<1> QED
  BY <1>4, <1>5, <1>6, <1>7, <1>8, <1>9, <1>10, <1>11, <1>12 DEF Next

\* In every state in step, one call is at one of its places or the last one is over.
THEOREM InvHolds == Spec => []CallInv
BY StartInv, StepKeepsInv, PTL DEF Spec

\* Between two Do in step the pipes are empty and the server waits for a length
\* (run of server.rs, Do of iodin.go).
THEOREM StepIsKept == Spec => []StepKept
<1>1. CallInv => StepKept
  BY DEF CallInv, StepKept, Between, AtStart, Called,
         Asked, Taken, Executing, Answering, Replied, Reading
<1> QED
  BY <1>1, InvHolds, PTL

\* In step, exec serves the request that was sent, field for field (run of server.rs).
THEOREM ServedAsSent == Spec => []ExecAsSent
<1>1. CallInv => ExecAsSent
  BY DEF CallInv, ExecAsSent, Between, AtStart, Called,
         Asked, Taken, Executing, Answering, Replied, Reading
<1> QED
  BY <1>1, InvHolds, PTL

\* In step, a Do that is over is Between.
LEMMA OverIsBetween ==
  ASSUME CallInv, InStep, got # "none"
  PROVE  Between /\ got = "ok" /\ Brought
BY DEF CallInv, Called, Between

\* A Do in step that succeeds into a new Response has brought an answer to its own
\* request, whole (Do of iodin.go).
THEOREM OwnAnswer == Spec => []ResponseIsAnswer
<1>1. CallInv => ResponseIsAnswer
  BY OverIsBetween DEF ResponseIsAnswer, Brought, Answered
<1> QED
  BY <1>1, InvHolds, PTL

\* Of a Response that served before, the status is new, and a field keeps its old
\* value only where the server left it out (Do of iodin.go).
THEOREM StatusRenewed == Spec => []StatusIsNew
<1>1. CallInv => StatusIsNew
  <2> SUFFICES ASSUME CallInv, InStep, got = "ok"
               PROVE  /\ resp[2] = response[2]
                      /\ \A i \in DOMAIN resp :
                           resp[i] = response[i] \/ (~fresh /\ response[i] = NoResponse[i])
    BY DEF StatusIsNew
  <2>1. Brought
    BY OverIsBetween
  <2>2. fresh => resp = response
    BY <2>1 DEF Brought
  <2> QED
    BY <2>1, <2>2 DEF Brought
<1> QED
  BY <1>1, InvHolds, PTL

\* In step no Do ends without a response or with an error (iodin.go:118 and :135).
THEOREM SuccessInStep == Spec => []SucceedsInStep
<1>1. CallInv => SucceedsInStep
  BY OverIsBetween DEF SucceedsInStep
<1> QED
  BY <1>1, InvHolds, PTL

\* In step the client and the server do not wait for each other before STOP
\* (Do of iodin.go, run of server.rs).
THEOREM NoneWaitsForBoth == Spec => []NoMutualWait
<1>1. CallInv => NoMutualWait
  <2> SUFFICES ASSUME CallInv, InStep, pc # "idle", toClient = <<>>, pc = "body" => len > 0,
                      \/ phase = "length" /\ Len(toServer) < 4
                      \/ phase = "message" /\ Scan(toServer, msglen).how = "wait"
               PROVE  FALSE
    BY DEF NoMutualWait
  <2>1. Called
    BY DEF CallInv, Between
  <2>2. ~Asked
    <3> SUFFICES ASSUME Asked PROVE FALSE
      OBVIOUS
    <3>1. PICK b : BodyOf(sent, b) /\ toServer = Fixed32(Len(b)) \o b
      BY DEF Asked
    <3>2. b \in Seq(Byte)
      BY <3>1, BodyIsBounded DEF Bounded
    <3>3. Len(toServer) = 4 + Len(b) /\ Len(b) \in Nat
      BY <3>1, <3>2, Cut, Whole
    <3> QED
      BY <3>3 DEF Asked, AtStart
  <2>3. ~Taken
    BY BodyIsBounded DEF Taken, Bounded
  <2>4. ~Executing /\ ~Answering
    BY DEF Executing, Answering
  <2>5. ~Replied
    <3> SUFFICES ASSUME Replied PROVE FALSE
      OBVIOUS
    <3> DEFINE bytes == WriteTo(ResponseFields, response)
    <3>1. toClient = Fixed32(Len(bytes)) \o bytes /\ bytes \in Seq(Byte)
      BY ResponsesAreCarried DEF Replied, Answered, Framed, Carried
    <3> HIDE DEF bytes
    <3>2. Len(toClient) = 4 + Len(bytes) /\ Len(bytes) \in Nat
      BY <3>1, Cut, Whole
    <3> QED
      BY <3>2, Nothing
  <2>6. ~Reading
    BY Nothing DEF Reading
  <2> QED
    BY <2>1, <2>2, <2>3, <2>4, <2>5, <2>6 DEF Called
<1> QED
  BY <1>1, InvHolds, PTL

-----------------------------------------------------------------------------
(* Types, out of step too: the response in hand is a new one until exec or a *)
(* parse error fills it in.                                                  *)

TypeInv ==
  /\ TypeOK
  /\ phase \in {"message", "exec"} => response = NoResponse
  /\ phase \in {"reply", "last reply"} => response \in Responses

LEMMA CutType ==
  ASSUME NEW s \in Seq(Byte), NEW n \in Nat
  PROVE  /\ SubSeq(s, n + 1, Len(s)) \in Seq(Byte)
         /\ Prefix(s, n) \in Seq(Byte) /\ Len(Prefix(s, n)) \in 0..n
<1> DEFINE q == n + 1
           l == Len(s)
           k == IF n < l THEN n ELSE l
<1>1. l \in Nat /\ q \in Nat \ {0} /\ l \in 0..l /\ k \in 0..l /\ 1 \in Nat \ {0}
  BY LenProperties
<1>2. Prefix(s, n) = SubSeq(s, 1, k)
  BY DEF Prefix
<1> HIDE DEF q, k
<1>3. SubSeq(s, q, l) \in Seq(Byte) /\ SubSeq(s, 1, k) \in Seq(Byte)
  BY <1>1, CutOut
<1>4. Len(SubSeq(s, 1, k)) = IF 1 <= k THEN (k - 1) + 1 ELSE 0
  <2>1. \A i \in 1..k : s[i] \in Byte
    <3> TAKE i \in 1..k
    <3>1. i \in 1..Len(s)
      BY <1>1 DEF l
    <3> QED
      BY <3>1, ElementOfSeq
  <2>2. 1 \in Int /\ k \in Int
    BY <1>1
  <2> QED
    BY <2>1, <2>2, SubSeqProperties
<1>5. k <= n /\ k \in Nat
  BY <1>1 DEF k
<1> DEFINE a == Len(SubSeq(s, 1, k))
<1>6. a = IF 1 <= k THEN (k - 1) + 1 ELSE 0
  BY <1>4
<1> HIDE DEF a
<1>7. a \in 0..n
  BY <1>5, <1>6
<1> QED
  BY <1>2, <1>3, <1>7 DEF q, a

LEMMA FramedType ==
  ASSUME NEW schema, IsSchema(schema), NEW m, IsWritable(schema, m)
  PROVE  Framed(schema, m) \in Seq(Byte)
<1> DEFINE size == ComputeSize(schema, m)
           b == WriteTo(schema, m)
<1>1. b \in Seq(Byte) /\ size \in Nat
  BY SizeIs
<1>2. Framed(schema, m) = Fixed32(size) \o b
  BY DEF Framed
<1> HIDE DEF size, b
<1>3. Fixed32(size) \in Seq(Byte)
  BY <1>1, Fixed32Is
<1> QED
  BY <1>1, <1>2, <1>3, BytesJoined

LEMMA EmptyMessages ==
  IsMessage(RequestFields, NoRequest) /\ IsMessage(ResponseFields, NoResponse)
BY NewIsMessage DEF NoRequest, NoResponse

LEMMA ResponsesAreMessages ==
  ASSUME NEW a \in Responses
  PROVE  IsMessage(ResponseFields, a)
BY ResponsesHaveStatus, Zenon DEF IsWritable

LEMMA Bounds == BufLen \in Nat /\ MaxDo \in Nat
BY StreamAssumption

LEMMA StartTyped == Init => TypeInv
<1> SUFFICES ASSUME Init PROVE TypeInv
  OBVIOUS
<1>1. <<>> \in Seq(Byte)
  BY EmptySeq
<1>2. /\ pc \in {"idle", "length", "body"} /\ sent = NoRequest /\ fresh \in BOOLEAN
      /\ got \in {"none", "nothing", "error", "ok"} /\ len = 0 /\ calls = 0
      /\ resp = NoResponse /\ request = NoRequest /\ response = NoResponse
      /\ toServer = <<>> /\ toClient = <<>> /\ phase = "length" /\ msglen \in Nat
      /\ lost \in BOOLEAN /\ astray \in BOOLEAN
  BY DEF Init
<1>3. len \in 0..BufLen /\ calls \in 0..MaxDo
  BY <1>2, Bounds
<1>4. /\ IsMessage(ResponseFields, resp) /\ IsMessage(ResponseFields, response)
      /\ IsMessage(RequestFields, request)
  BY <1>2, EmptyMessages
<1>5. TypeOK
  BY <1>1, <1>2, <1>3, <1>4 DEF TypeOK
<1> QED
  BY <1>2, <1>5 DEF TypeInv

LEMMA SendTyped ==
  ASSUME TypeInv, NEW m \in Requests \cup RawBodies, NEW bytes \in Seq(Byte), Send(m, bytes)
  PROVE  TypeInv'
<1>1. toServer' \in Seq(Byte)
  <2>1. toServer \in Seq(Byte) /\ toServer' = toServer \o bytes
    BY DEF TypeInv, TypeOK, Send
  <2> QED
    BY <2>1, ConcatProperties
<1>2. calls' \in 0..MaxDo
  <2>1. calls \in 0..MaxDo /\ calls < MaxDo /\ calls' = calls + 1
    BY DEF TypeInv, TypeOK, Send
  <2> QED
    BY <2>1, Bounds
<1>3. IsMessage(ResponseFields, resp)' /\ fresh' \in BOOLEAN
  BY EmptyMessages DEF TypeInv, TypeOK, Send
<1>4. pc' = "length" /\ got' = "none" /\ sent' = m /\ UNCHANGED <<len, astray, server, toClient>>
  BY DEF Send
<1> QED
  BY <1>1, <1>2, <1>3, <1>4, Zenon DEF TypeInv, TypeOK, server

LEMMA DoReadLengthTyped ==
  ASSUME TypeInv, DoReadLength
  PROVE  TypeInv'
<1> DEFINE head == Prefix(toClient, 4)
           n == Number(256, head)
<1>1. head \in Seq(Byte) /\ Len(head) \in 0..4
  BY CutType DEF TypeInv, TypeOK
<1>2. n \in Nat
  BY <1>1, BasesAre, NumberIsNat
<1>3. /\ toClient' = SubSeq(toClient, Len(head) + 1, Len(toClient))
      /\ \/ Return("nothing") /\ UNCHANGED <<len, astray>>
         \/ Return("error") /\ UNCHANGED len /\ astray' = TRUE
         \/ Len(head) = 4 /\ ~(n > BufLen) /\ pc' = "body" /\ len' = n /\ UNCHANGED <<got, astray>>
      /\ UNCHANGED <<sent, resp, fresh, calls, server, toServer>>
  <2> HIDE DEF n
  <2>1. /\ toClient' = SubSeq(toClient, Len(head) + 1, Len(toClient))
        /\ CASE Len(head) < 4 -> Return("nothing") /\ UNCHANGED <<len, astray>>
             [] Len(head) = 4 /\ n > BufLen -> Return("error") /\ UNCHANGED len /\ astray' = TRUE
             [] OTHER -> pc' = "body" /\ len' = n /\ UNCHANGED <<got, astray>>
        /\ UNCHANGED <<sent, resp, fresh, calls, server, toServer>>
    BY DEF DoReadLength, n
  <2> HIDE DEF head
  <2>2. Len(head) < 4 \/ Len(head) = 4
    <3> DEFINE l == Len(head)
    <3>1. l \in 0..4
      BY <1>1
    <3> HIDE DEF l
    <3>2. l < 4 \/ l = 4
      BY <3>1
    <3> QED
      BY <3>2 DEF l
  <2>3. CASE Len(head) < 4
    BY <2>1, <2>3
  <2>4. CASE Len(head) = 4 /\ n > BufLen
    BY <2>1, <2>4
  <2>5. CASE Len(head) = 4 /\ ~(n > BufLen)
    BY <2>1, <2>5
  <2> QED
    BY <2>2, <2>3, <2>4, <2>5
<1>4. toClient' \in Seq(Byte)
  <2>1. toClient \in Seq(Byte)
    BY DEF TypeInv, TypeOK
  <2>2. Len(head) \in Nat
    BY <1>1, LenProperties
  <2> HIDE DEF head
  <2> QED
    BY <1>3, <2>1, <2>2, CutType
<1> HIDE DEF head, n
<1>6. pc' \in {"idle", "length", "body"} /\ got' \in {"none", "nothing", "error", "ok"}
  BY <1>3 DEF TypeInv, TypeOK, Return
<1>7. len' \in 0..BufLen
  <2>1. len \in 0..BufLen
    BY DEF TypeInv, TypeOK
  <2>2. len' = len \/ (~(n > BufLen) /\ len' = n)
    BY <1>3
  <2> QED
    BY <1>2, <2>1, <2>2, Bounds
<1>8. astray' \in BOOLEAN
  BY <1>3 DEF TypeInv, TypeOK
<1> QED
  BY <1>3, <1>4, <1>6, <1>7, <1>8, Zenon DEF TypeInv, TypeOK, server

LEMMA DoReadBodyTyped ==
  ASSUME TypeInv, DoReadBody
  PROVE  TypeInv'
<1> DEFINE bytes == Prefix(toClient, len)
           scan == Scan(bytes, len)
<1>1. toClient \in Seq(Byte) /\ len \in Nat /\ IsMessage(ResponseFields, resp)
  <2>1. toClient \in Seq(Byte) /\ len \in 0..BufLen /\ IsMessage(ResponseFields, resp)
    BY DEF TypeInv, TypeOK
  <2> QED
    BY <2>1, Bounds
<1>2. bytes \in Seq(Byte) /\ Len(bytes) \in Nat
  BY <1>1, CutType, LenProperties
<1>3. /\ toClient' = SubSeq(toClient, Len(bytes) + 1, Len(toClient))
      /\ pc' = "idle" /\ got' \in {"error", "ok"}
      /\ resp' = resp \/ resp' = Merge(ResponseFields, resp, scan.fields)
      /\ UNCHANGED <<sent, fresh, len, calls, astray, server, toServer>>
  BY DEF DoReadBody, Return
<1> HIDE DEF bytes
<1>4. scan.fields \in Seq(Fields)
  BY <1>1, <1>2, ScanWell DEF ReadWell
<1>5. toClient' \in Seq(Byte)
  BY <1>1, <1>2, <1>3, CutType
<1> HIDE DEF scan
<1>6. IsMessage(ResponseFields, resp')
  BY <1>1, <1>3, <1>4, SchemasAre, MergeIsMessage
<1>7. pc' \in {"idle", "length", "body"} /\ got' \in {"none", "nothing", "error", "ok"}
  BY <1>3
<1> QED
  BY <1>3, <1>5, <1>6, <1>7, Zenon DEF TypeInv, TypeOK, server

LEMMA ReadLengthTyped ==
  ASSUME TypeInv, ReadLength
  PROVE  TypeInv'
<1>1. toServer \in Seq(Byte)
  BY DEF TypeInv, TypeOK
<1>2. Prefix(toServer, 4) \in Seq(Byte)
  BY <1>1, CutType
<1>3. Number(256, Prefix(toServer, 4)) \in Nat
  BY <1>2, BasesAre, NumberIsNat
<1>4. SubSeq(toServer, 4 + 1, Len(toServer)) \in Seq(Byte)
  BY <1>1, CutType
<1>5. toServer' \in Seq(Byte) /\ msglen' \in Nat
  <2>1. 4 + 1 = 5
    OBVIOUS
  <2> QED
    BY <1>3, <1>4, <2>1, Zenon DEF ReadLength
<1>6. /\ phase' = "message" /\ request' = NoRequest /\ response' = NoResponse
      /\ UNCHANGED <<lost, client, toClient>>
  BY DEF ReadLength
<1> QED
  BY <1>5, <1>6, EmptyMessages, Zenon DEF TypeInv, TypeOK, client

LEMMA ParseTyped ==
  ASSUME TypeInv, Parse
  PROVE  TypeInv'
<1> DEFINE scan == Scan(toServer, msglen)
<1>1. /\ toServer \in Seq(Byte) /\ msglen \in Nat /\ IsMessage(RequestFields, request)
      /\ lost \in BOOLEAN /\ IsMessage(ResponseFields, response) /\ response = NoResponse
  BY DEF TypeInv, TypeOK, Parse
<1>2. /\ scan.how # "wait"
      /\ toServer' = SubSeq(toServer, scan.used + 1, Len(toServer))
      /\ request' = Merge(RequestFields, request, scan.fields)
      /\ \/ phase' = "exec" /\ UNCHANGED <<response, lost>>
         \/ phase' = "reply" /\ response' = ParseError /\ lost' = (lost \/ scan.used < msglen)
      /\ UNCHANGED <<msglen, client, toClient>>
  BY Zenon DEF Parse
<1>3. scan.fields \in Seq(Fields) /\ scan.used \in Nat
  <2>1. ReadWell(toServer, msglen, scan)
    BY <1>1, ScanWell
  <2>2. Available(toServer, msglen) \in Nat
    BY <1>1, AvailableIs
  <2> HIDE DEF scan
  <2> QED
    BY <1>1, <2>1, <2>2 DEF ReadWell
<1> DEFINE short == scan.used < msglen
<1>4. short \in BOOLEAN
  OBVIOUS
<1> HIDE DEF scan, short
<1>5. lost' \in BOOLEAN
  <2>1. lost' = lost \/ lost' = (lost \/ short)
    BY <1>2, Zenon DEF short
  <2>2. (lost \/ short) \in BOOLEAN
    BY Zenon
  <2> QED
    BY <1>1, <2>1, <2>2, Zenon
<1>6. toServer' \in Seq(Byte)
  BY <1>1, <1>2, <1>3, CutType
<1>7. IsMessage(RequestFields, request')
  BY <1>1, <1>2, <1>3, SchemasAre, MergeIsMessage
<1>8. ParseError \in Responses /\ IsMessage(ResponseFields, ParseError)
  BY ResponsesAreMessages DEF Responses
<1>9. /\ IsMessage(ResponseFields, response')
      /\ \/ phase' = "exec" /\ response' = NoResponse
         \/ phase' = "reply" /\ response' \in Responses
  BY <1>1, <1>2, <1>8, Zenon
<1> QED
  BY <1>2, <1>5, <1>6, <1>7, <1>9 DEF TypeInv, TypeOK, client

LEMMA ExecTyped ==
  ASSUME TypeInv, Exec
  PROVE  TypeInv'
<1>1. PICK a \in AnswersTo(request) :
        response' = [response EXCEPT ![2] = a[2], ![3] = IF a[3] = <<>> THEN @ ELSE a[3],
                                     ![4] = @ \o a[4]]
  BY DEF Exec
<1>2. a \in Responses
  BY AnswersAreResponses
<1>3. response = NoResponse
  BY DEF TypeInv, Exec
<1>4. response' = a
  BY <1>1, <1>2, <1>3, FilledIn
<1>5. IsMessage(ResponseFields, response') /\ response' \in Responses
  BY <1>2, <1>4, ResponsesAreMessages
<1>6. /\ phase' \in {"reply", "last reply"}
      /\ UNCHANGED <<msglen, request, lost, client, toServer, toClient>>
  BY DEF Exec
<1> QED
  BY <1>5, <1>6 DEF TypeInv, TypeOK, client

LEMMA ReplyTyped ==
  ASSUME TypeInv, Reply
  PROVE  TypeInv'
<1>1. response \in Responses /\ toClient \in Seq(Byte)
  BY DEF TypeInv, TypeOK, Reply
<1>2. Framed(ResponseFields, response) \in Seq(Byte)
  BY <1>1, ResponsesHaveStatus, SchemasAre, FramedType
<1>3. toClient' \in Seq(Byte)
  BY <1>1, <1>2, ConcatProperties DEF Reply
<1>4. /\ phase' \in {"length", "ended"}
      /\ UNCHANGED <<msglen, request, response, lost, client, toServer>>
  BY DEF Reply
<1> QED
  BY <1>3, <1>4 DEF TypeInv, TypeOK, client

LEMMA StepTyped == TypeInv /\ [Next]_vars => TypeInv'
<1> SUFFICES ASSUME TypeInv, [Next]_vars PROVE TypeInv'
  OBVIOUS
<1>1. CASE UNCHANGED vars
  BY <1>1, ZenonT(40) DEF vars, client, server, TypeInv, TypeOK
<1>2. ASSUME NEW r \in Requests, DoWrite(r) PROVE TypeInv'
  <2>1. IsWritable(RequestFields, r)
    BY StreamAssumption
  <2>2. Framed(RequestFields, r) \in Seq(Byte)
    BY <2>1, SchemasAre, FramedType
  <2> QED
    BY <1>2, <2>2, SendTyped DEF DoWrite
<1>3. ASSUME NEW b \in RawBodies, WriteRaw(b) PROVE TypeInv'
  <2>1. b \in Seq(Byte) /\ Len(b) \in Nat
    BY StreamAssumption, LenProperties
  <2>2. Fixed32(Len(b)) \in Seq(Byte)
    BY <2>1, Fixed32Is
  <2>3. Fixed32(Len(b)) \o b \in Seq(Byte)
    BY <2>1, <2>2, ConcatProperties
  <2> QED
    BY <1>3, <2>3, SendTyped DEF WriteRaw
<1> QED
  BY <1>1, <1>2, <1>3, DoReadLengthTyped, DoReadBodyTyped, ReadLengthTyped, ParseTyped,
     ExecTyped, ReplyTyped DEF Next

\* Every variable has its type, whatever was lost: what merge_from makes of any bytes
\* is a message, and what is written of one are bytes (run of server.rs, Do of
\* iodin.go).
THEOREM Typed == Spec => []TypeOK
<1>1. TypeInv => TypeOK
  BY DEF TypeInv
<1> QED
  BY <1>1, StartTyped, StepTyped, PTL DEF Spec
=============================================================================
