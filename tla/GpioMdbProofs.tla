---------------------------- MODULE GpioMdbProofs ----------------------------
(* Proofs about GpioMdb, for all pins, wave identifiers and builds: call by *)
(* call, the port does what IodinServer says of it.                         *)
EXTENDS GpioMdb, IodinServerProofs, SequenceTheorems, TLAPS

Pigpio == gpio.by = "pigpio"

\* The calls of s from the k-th on.
From(s, k) == SubSeq(s, k, Len(s))

-----------------------------------------------------------------------------
(* Where a handler is among its calls.                                     *)

\* All calls of an MDB_OPEN.  Their places are counted as if there were a port
\* to drop: calls 1 to 4 drop it, 5 to 14 make the new one.
OpenPlan ==
  (IF mdb = NoPort THEN <<>> ELSE DropPort)
    \o (IF request.arg = <<>> THEN <<>> ELSE New(request.arg[1], request.arg[2]))
OpenFirst == IF mdb = NoPort THEN 5 ELSE 1
OpenLast == IF request.arg = <<>> THEN 4 ELSE 14
OpenCall(q) ==
  CASE q = 1 -> TxStop("close")
    [] q = 2 -> Call("SerialReadClose", mdb.rx, "close")
    [] q = 3 -> Call("WaveDelete", mdb.ack, "drop")
    [] q = 4 -> Call("WaveDelete", mdb.nak, "drop")
    [] q = 5 -> Call("SetMode", request.arg[1], "try")
    [] q = 6 -> Call("SetMode", request.arg[2], "try")
    [] q = 7 -> Call("SerialReadOpen", request.arg[1], "try")
    [] q = 8 -> TxStop("try")
    [] q \in {9, 12} -> Call("WaveAddNew", NoWave, "try")
    [] q \in {10, 13} -> Call("WaveAddSerial", request.arg[2], "try")
    [] OTHER -> Call("WaveCreate", NoWave, "try")

\* The readers and the transmissions of pigpio when close is through.
Closed(stopped) ==
  [serial |-> SerialAfterClose(stopped), inflight |-> InflightAfterClose(stopped)]
Closes == {Closed(stopped) : stopped \in BOOLEAN}

\* What pigpio, being in state g, holds before call q, with the waves ws of the
\* new port, if close left it in the state closed; 15 is past the last call.
OpenHolds(g, ws, q, closed) ==
  /\ g.serial = CASE q <= 2 -> serial
                  [] q \in 3..7 -> closed.serial
                  [] OTHER -> closed.serial \cup {request.arg[1]}
  /\ q >= 8 => request.arg[1] \notin closed.serial
  /\ g.inflight = CASE q = 1 -> inflight
                    [] q = 2 -> {}
                    [] q \in 3..8 -> closed.inflight
                    [] OTHER -> {}
  /\ g.waves = CASE q <= 3 -> waves
                 [] q = 4 -> waves \ {mdb.ack}
                 [] q \in 5..11 -> waves \ PortWaves
                 [] q \in 12..14 -> (waves \ PortWaves) \cup {ws[1]}
                 [] OTHER -> (waves \ PortWaves) \cup {ws[1], ws[2]}
  /\ q >= 12 => ws[1] \notin waves \ PortWaves
  /\ q = 15 => ws[2] \notin waves \ PortWaves /\ ws[1] # ws[2]
  /\ q >= 6 => ~mock

OpenDue(q) ==
  /\ todo = From(OpenPlan, q - OpenFirst + 1)
  /\ ~failed /\ Len(made) = IF q >= 12 THEN 1 ELSE 0

\* new has failed after its first wave, which is dropped.
OpenUndone == request.arg # <<>> /\ failed /\ Len(made) = 1 /\ todo = Deletes(made)

OpenStage ==
  /\ request.cmd = "MDB_OPEN"
  /\ \E closed \in Closes :
       \/ \E q \in OpenFirst..OpenLast : OpenDue(q) /\ (Pigpio => OpenHolds(gpio, made, q, closed))
       \/ OpenUndone /\ (Pigpio => OpenHolds(gpio, made, 12, closed))

\* The calls of an MDB_TX until its wave is sent.
TxPlan == NewWave(mdb.tx) \o <<Send("made")>>

TxHolds ==
  /\ gpio.serial = serial /\ gpio.inflight = inflight
  /\ IF made = <<>> THEN gpio.waves = waves
     ELSE gpio.waves = waves \cup {made[1]} /\ made[1] \notin waves

TxDue(k) == todo = From(TxPlan, k) /\ ~failed /\ Len(made) = IF k = 4 THEN 1 ELSE 0
TxUndone == failed /\ Len(made) = 1 /\ todo = Deletes(made)

TxStage ==
  /\ request.cmd = "MDB_TX" /\ mdb # NoPort /\ ~mock /\ request.arg = <<"fits">>
  /\ (\E k \in 1..4 : TxDue(k)) \/ TxUndone
  /\ Pigpio => TxHolds

\* IodinServer sees pigpio as it is.
Agree == gpio.serial = serial /\ gpio.waves = waves /\ gpio.inflight = inflight

SendStage ==
  /\ made = <<txWave>> /\ Agree
  /\ \/ todo = <<Busy>> /\ ~failed
     \/ /\ todo = <<TxStop("try")>> \o (IF pc = "requesting" THEN <<>> ELSE Deletes(made))
        /\ ~failed /\ inflight = {}
     \/ todo = Deletes(made) /\ (failed \/ (pc # "requesting" /\ inflight = {}))

ReceiveStage ==
  /\ made = <<txWave>> /\ Agree
  /\ \/ todo \in {<<Poll>>, <<Send(mdb.ack)>>, <<Send(mdb.nak)>>} /\ ~failed
     \/ todo = Deletes(made)

Stage ==
  /\ pc \notin Sends \cup {"exec", "receiving"} => todo = <<>>
  /\ todo = <<>> => failed = FALSE /\ made = <<>> /\ (Pigpio => Agree)
  /\ pc = "exec" /\ todo # <<>> => OpenStage \/ TxStage
  /\ pc \in Sends => SendStage
  /\ pc = "receiving" => ReceiveStage

\* Built with mock.rs nothing is sent, and no pin is set.
MockStage ==
  /\ TypeOK /\ Agree
  /\ gpio = Fresh("mock") /\ high = {} /\ txWave = NoWave
  /\ pc \in {"read", "exec", "reply"} \cup Ended
  /\ pc \in Ended => mdb = NoPort
  /\ pc = "reply" /\ request.cmd = "STOP" => ~running

PigpioStage ==
  /\ TypeOK /\ ServerInv
  /\ mock => mdb = NoPort

DInv ==
  /\ DTypeOK /\ Stage
  /\ Pigpio => PigpioStage
  /\ ~Pigpio => MockStage
-----------------------------------------------------------------------------
(* Sequences of calls.                                                     *)

\* Taking a call leaves the calls from the next on.
LEMMA FromStep ==
  ASSUME NEW S, NEW s \in Seq(S), NEW k \in 1..Len(s)
  PROVE  /\ From(s, k) \in Seq(S) /\ From(s, k) # <<>>
         /\ Head(From(s, k)) = s[k] /\ Tail(From(s, k)) = From(s, k + 1)
         /\ Len(From(s, k)) = Len(s) - k + 1
         /\ \A i \in 1..(Len(s) - k + 1) : From(s, k)[i] = s[k + i - 1]
<1>1. Len(s) \in Nat /\ k \in Int /\ Len(s) \in Int /\ \A i \in k..Len(s) : s[i] \in S
  BY LenProperties, ElementOfSeq
<1>2. /\ From(s, k) \in Seq(S) /\ Len(From(s, k)) = Len(s) - k + 1
      /\ \A i \in 1..(Len(s) - k + 1) : From(s, k)[i] = s[k + i - 1]
  BY <1>1, SubSeqProperties DEF From
<1>3. From(s, k) # <<>>
  BY <1>1, <1>2, EmptySeq
<1>4. Head(From(s, k)) = s[k] /\ Tail(From(s, k)) = From(s, k + 1)
  BY <1>1, HeadTailOfSubSeq DEF From
<1> QED
  BY <1>2, <1>3, <1>4

LEMMA FromEnd ==
  ASSUME NEW S, NEW s \in Seq(S)
  PROVE  From(s, Len(s) + 1) = <<>> /\ From(s, 1) = s
<1>1. Len(s) \in Nat
  BY LenProperties
<1> QED
  BY <1>1, SubSeqEmpty, SubSeqFull DEF From

LEMMA Joined ==
  ASSUME NEW S, NEW s \in Seq(S), NEW t \in Seq(S)
  PROVE  /\ s \o t \in Seq(S) /\ Len(s \o t) = Len(s) + Len(t)
         /\ \A i \in 1..Len(s) : (s \o t)[i] = s[i]
         /\ \A i \in 1..Len(t) : (s \o t)[Len(s) + i] = t[i]
<1>1. Len(s) \in Nat /\ Len(t) \in Nat
  BY LenProperties
<1>2. /\ s \o t \in Seq(S) /\ Len(s \o t) = Len(s) + Len(t)
      /\ \A i \in 1..(Len(s) + Len(t)) :
           (s \o t)[i] = IF i <= Len(s) THEN s[i] ELSE t[i - Len(s)]
  BY ConcatProperties
<1>3. ASSUME NEW i \in 1..Len(t) PROVE (s \o t)[Len(s) + i] = t[i]
  <2>1. /\ Len(s) + i \in 1..(Len(s) + Len(t)) /\ ~(Len(s) + i <= Len(s))
        /\ (Len(s) + i) - Len(s) = i
    BY <1>1
  <2> QED
    BY <1>2, <2>1
<1> QED
  BY <1>1, <1>2, <1>3

\* Two waves of three calls behind four others.
LEMMA JoinedTwice ==
  ASSUME NEW S, NEW a \in Seq(S), NEW b \in Seq(S)
  PROVE  Len(a) = 4 /\ Len(b) = 3 =>
           /\ (a \o b) \o b \in Seq(S) /\ Len((a \o b) \o b) = 10
           /\ \A i \in 1..4 : ((a \o b) \o b)[i] = a[i]
           /\ \A i \in 1..3 : ((a \o b) \o b)[4 + i] = b[i]
           /\ \A i \in 1..3 : ((a \o b) \o b)[7 + i] = b[i]
<1>1. /\ a \o b \in Seq(S) /\ Len(a \o b) = Len(a) + Len(b)
      /\ \A i \in 1..Len(a) : (a \o b)[i] = a[i]
      /\ \A i \in 1..Len(b) : (a \o b)[Len(a) + i] = b[i]
  BY Joined
<1>2. /\ (a \o b) \o b \in Seq(S) /\ Len((a \o b) \o b) = Len(a \o b) + Len(b)
      /\ \A i \in 1..Len(a \o b) : ((a \o b) \o b)[i] = (a \o b)[i]
      /\ \A i \in 1..Len(b) : ((a \o b) \o b)[Len(a \o b) + i] = b[i]
  BY <1>1, Joined
<1> HAVE Len(a) = 4 /\ Len(b) = 3
<1>3. Len(a \o b) = 7
  BY <1>1
<1>4. ASSUME NEW i \in 1..4 PROVE ((a \o b) \o b)[i] = a[i]
  BY <1>1, <1>2, <1>3
<1>5. ASSUME NEW i \in 1..3 PROVE ((a \o b) \o b)[4 + i] = b[i]
  <2>1. 4 + i \in 1..7
    OBVIOUS
  <2> QED
    BY <1>1, <1>2, <1>3, <2>1
<1> QED
  BY <1>2, <1>3, <1>4, <1>5

LEMMA One ==
  ASSUME NEW S, NEW c \in S
  PROVE  /\ <<c>> \in Seq(S) /\ <<c>> # <<>> /\ Len(<<c>>) = 1
         /\ Head(<<c>>) = c /\ Tail(<<c>>) = <<>> /\ <<c>>[1] = c
  OBVIOUS

LEMMA Two ==
  ASSUME NEW S, NEW c \in S, NEW d \in S
  PROVE  /\ <<c, d>> \in Seq(S) /\ <<c, d>> # <<>> /\ Len(<<c, d>>) = 2
         /\ Head(<<c, d>>) = c /\ Tail(<<c, d>>) = <<d>>
  OBVIOUS

LEMMA DeletesOne ==
  ASSUME NEW w \in WaveIds
  PROVE  /\ Deletes(<<w>>) = <<Call("WaveDelete", w, "drop")>>
         /\ Call("WaveDelete", w, "drop") \in Calls
<1>1. DOMAIN <<w>> = 1..1 /\ <<w>>[1] = w
  OBVIOUS
<1>2. Deletes(<<w>>) = <<Call("WaveDelete", w, "drop")>>
  BY <1>1 DEF Deletes
<1>3. Call("WaveDelete", w, "drop") \in Calls
  BY DEF Call, Calls
<1> QED
  BY <1>2, <1>3

LEMMA DeletesSome ==
  ASSUME made \in Seq(WaveIds), Len(made) = 1
  PROVE  /\ Deletes(made) = <<Call("WaveDelete", made[1], "drop")>>
         /\ Deletes(made) # <<>> /\ Tail(Deletes(made)) = <<>>
         /\ Head(Deletes(made)) = Call("WaveDelete", made[1], "drop")
         /\ Deletes(made) \in Seq(Calls) /\ made[1] \in WaveIds
<1>1. made[1] \in WaveIds /\ made = <<made[1]>>
  OBVIOUS
<1>2. /\ Deletes(<<made[1]>>) = <<Call("WaveDelete", made[1], "drop")>>
      /\ Call("WaveDelete", made[1], "drop") \in Calls
  BY <1>1, DeletesOne
<1>3. Deletes(made) = <<Call("WaveDelete", made[1], "drop")>>
  BY <1>1, <1>2
<1> QED
  BY <1>1, <1>2, <1>3, One

LEMMA DeletesNone == Deletes(<<>>) = <<>>
  BY DEF Deletes

\* The calls of the plans, one by one.
LEMMA DropPortCalls ==
  ASSUME mdb \in Port
  PROVE  /\ DropPort \in Seq(Calls) /\ Len(DropPort) = 4
         /\ \A q \in 1..4 : DropPort[q] = OpenCall(q)
<1>1. mdb.rx \in Pins /\ mdb.ack \in WaveIds /\ mdb.nak \in WaveIds
  BY DEF Port
<1>2. Deletes(<<mdb.ack, mdb.nak>>) =
        <<Call("WaveDelete", mdb.ack, "drop"), Call("WaveDelete", mdb.nak, "drop")>>
  <2>1. DOMAIN <<mdb.ack, mdb.nak>> = 1..2
    OBVIOUS
  <2> QED
    BY <2>1 DEF Deletes
<1>3. /\ TxStop("close") \in Calls /\ Call("SerialReadClose", mdb.rx, "close") \in Calls
      /\ Call("WaveDelete", mdb.ack, "drop") \in Calls
      /\ Call("WaveDelete", mdb.nak, "drop") \in Calls
  BY <1>1 DEF Call, Calls, TxStop
<1> DEFINE c1 == TxStop("close")
           c2 == Call("SerialReadClose", mdb.rx, "close")
           c3 == Call("WaveDelete", mdb.ack, "drop")
           c4 == Call("WaveDelete", mdb.nak, "drop")
<1>4. DropPort = <<c1, c2>> \o <<c3, c4>>
  BY <1>2 DEF DropPort
<1>5. c1 = OpenCall(1) /\ c2 = OpenCall(2) /\ c3 = OpenCall(3) /\ c4 = OpenCall(4)
  BY DEF OpenCall
<1> HIDE DEF c1, c2, c3, c4
<1>6. /\ DropPort \in Seq(Calls) /\ Len(DropPort) = 4
      /\ DropPort[1] = c1 /\ DropPort[2] = c2 /\ DropPort[3] = c3 /\ DropPort[4] = c4
  BY <1>3, <1>4 DEF c1, c2, c3, c4
<1> QED
  BY <1>5, <1>6

LEMMA NewWaveCalls ==
  ASSUME NEW p \in Pins
  PROVE  /\ NewWave(p) \in Seq(Calls) /\ Len(NewWave(p)) = 3
         /\ NewWave(p)[1] = Call("WaveAddNew", NoWave, "try")
         /\ NewWave(p)[2] = Call("WaveAddSerial", p, "try")
         /\ NewWave(p)[3] = Call("WaveCreate", NoWave, "try")
<1>1. /\ Call("WaveAddNew", NoWave, "try") \in Calls
      /\ Call("WaveAddSerial", p, "try") \in Calls
      /\ Call("WaveCreate", NoWave, "try") \in Calls
  BY DEF Call, Calls
<1> QED
  BY <1>1 DEF NewWave

LEMMA NewCalls ==
  ASSUME NEW rx \in Pins, NEW tx \in Pins, request.arg[1] = rx, request.arg[2] = tx
  PROVE  /\ New(rx, tx) \in Seq(Calls) /\ Len(New(rx, tx)) = 10
         /\ \A q \in 5..14 : New(rx, tx)[q - 4] = OpenCall(q)
<1> DEFINE c1 == Call("SetMode", rx, "try")
           c2 == Call("SetMode", tx, "try")
           c3 == Call("SerialReadOpen", rx, "try")
           c4 == TxStop("try")
           setup == <<c1, c2, c3, c4>>
<1>1. c1 \in Calls /\ c2 \in Calls /\ c3 \in Calls /\ c4 \in Calls
  BY DEF Call, Calls, TxStop
<1>2. c1 = OpenCall(5) /\ c2 = OpenCall(6) /\ c3 = OpenCall(7) /\ c4 = OpenCall(8)
  BY DEF OpenCall
<1>3. /\ NewWave(tx)[1] = OpenCall(9) /\ NewWave(tx)[1] = OpenCall(12)
      /\ NewWave(tx)[2] = OpenCall(10) /\ NewWave(tx)[2] = OpenCall(13)
      /\ NewWave(tx)[3] = OpenCall(11) /\ NewWave(tx)[3] = OpenCall(14)
  BY NewWaveCalls DEF OpenCall
<1>4. New(rx, tx) = (setup \o NewWave(tx)) \o NewWave(tx)
  BY DEF New
<1> HIDE DEF c1, c2, c3, c4
<1>5. /\ setup \in Seq(Calls) /\ Len(setup) = 4
      /\ setup[1] = c1 /\ setup[2] = c2 /\ setup[3] = c3 /\ setup[4] = c4
  BY <1>1
<1> HIDE DEF setup
<1>6. /\ New(rx, tx) \in Seq(Calls) /\ Len(New(rx, tx)) = 10
      /\ \A i \in 1..4 : New(rx, tx)[i] = setup[i]
      /\ \A i \in 1..3 : New(rx, tx)[4 + i] = NewWave(tx)[i]
      /\ \A i \in 1..3 : New(rx, tx)[7 + i] = NewWave(tx)[i]
  BY SMTT(30), <1>4, <1>5, NewWaveCalls, JoinedTwice
<1>7. ASSUME NEW q \in 5..14 PROVE New(rx, tx)[q - 4] = OpenCall(q)
  <2>1. CASE q \in 5..8
    <3>1. New(rx, tx)[q - 4] = setup[q - 4]
      BY <1>6, <2>1
    <3>2. q = 5 \/ q = 6 \/ q = 7 \/ q = 8
      BY <2>1
    <3> QED
      BY <1>2, <1>5, <3>1, <3>2
  <2>2. CASE q \in 9..11
    <3>1. New(rx, tx)[4 + (q - 8)] = NewWave(tx)[q - 8]
      BY <1>6, <2>2
    <3>2. q = 9 \/ q = 10 \/ q = 11
      BY <2>2
    <3> QED
      BY <1>3, <3>1, <3>2
  <2>3. CASE q \in 12..14
    <3>1. New(rx, tx)[7 + (q - 11)] = NewWave(tx)[q - 11]
      BY <1>6, <2>3
    <3>2. q = 12 \/ q = 13 \/ q = 14
      BY <2>3
    <3> QED
      BY <1>3, <3>1, <3>2
  <2> QED
    BY <2>1, <2>2, <2>3
<1> QED
  BY <1>6, <1>7

LEMMA OpenPlanCalls ==
  ASSUME mdb \in Port \cup {NoPort}, request \in Request, request.cmd = "MDB_OPEN"
  PROVE  /\ OpenPlan \in Seq(Calls) /\ Len(OpenPlan) = OpenLast - OpenFirst + 1
         /\ \A q \in OpenFirst..OpenLast : OpenPlan[q - OpenFirst + 1] = OpenCall(q)
<1> DEFINE drop == IF mdb = NoPort THEN <<>> ELSE DropPort
           new == IF request.arg = <<>> THEN <<>> ELSE New(request.arg[1], request.arg[2])
<1>1. /\ drop \in Seq(Calls) /\ Len(drop) = 5 - OpenFirst
      /\ \A q \in OpenFirst..4 : drop[q - OpenFirst + 1] = OpenCall(q)
  <2>1. CASE mdb = NoPort
    BY <2>1, EmptySeq DEF OpenFirst
  <2>2. CASE mdb # NoPort
    BY SMTT(30), <2>2, DropPortCalls DEF OpenFirst
  <2> QED
    BY <2>1, <2>2
<1>2. /\ new \in Seq(Calls) /\ Len(new) = OpenLast - 4
      /\ \A q \in 5..OpenLast : new[q - 4] = OpenCall(q)
  <2>1. CASE request.arg = <<>>
    BY <2>1, EmptySeq DEF OpenLast
  <2>2. CASE request.arg # <<>>
    <3>1. request.arg[1] \in Pins /\ request.arg[2] \in Pins
      BY <2>2, OpenArgs
    <3>2. new = New(request.arg[1], request.arg[2]) /\ OpenLast = 14
      BY <2>2 DEF OpenLast
    <3> QED
      BY <3>1, <3>2, NewCalls
  <2> QED
    BY <2>1, <2>2
<1>3. OpenPlan = drop \o new
  BY DEF OpenPlan
<1> HIDE DEF drop, new
<1>4. OpenFirst \in {1, 5} /\ OpenLast \in {4, 14}
  BY DEF OpenFirst, OpenLast
<1>5. /\ drop \o new \in Seq(Calls) /\ Len(drop \o new) = Len(drop) + Len(new)
      /\ \A i \in 1..(Len(drop) + Len(new)) :
           (drop \o new)[i] = IF i <= Len(drop) THEN drop[i] ELSE new[i - Len(drop)]
  BY <1>1, <1>2, ConcatProperties
<1>6. ASSUME NEW q \in OpenFirst..OpenLast PROVE OpenPlan[q - OpenFirst + 1] = OpenCall(q)
  <2>1. (q - OpenFirst + 1) \in 1..(Len(drop) + Len(new))
    BY <1>1, <1>2, <1>4
  <2>2. CASE q <= 4
    BY <1>1, <1>3, <1>4, <1>5, <2>1, <2>2
  <2>3. CASE q > 4
    <3>1. (q - OpenFirst + 1) - Len(drop) = q - 4 /\ ~(q - OpenFirst + 1 <= Len(drop))
      BY <1>1, <1>4, <2>3
    <3>2. new[q - 4] = OpenCall(q)
      BY <1>2, <1>4, <2>3
    <3> QED
      BY <1>3, <1>5, <2>1, <3>1, <3>2
  <2> QED
    BY <1>4, <2>2, <2>3
<1>7. OpenPlan \in Seq(Calls)
  BY <1>3, <1>5
<1>8. Len(OpenPlan) = OpenLast - OpenFirst + 1
  BY <1>1, <1>2, <1>3, <1>4, <1>5
<1> QED
  BY <1>6, <1>7, <1>8

LEMMA TxPlanCalls ==
  ASSUME mdb \in Port
  PROVE  /\ TxPlan \in Seq(Calls) /\ Len(TxPlan) = 4
         /\ TxPlan[1] = Call("WaveAddNew", NoWave, "try")
         /\ TxPlan[2] = Call("WaveAddSerial", mdb.tx, "try")
         /\ TxPlan[3] = Call("WaveCreate", NoWave, "try")
         /\ TxPlan[4] = Call("WaveTxSend", "made", "try")
<1>1. mdb.tx \in Pins /\ Call("WaveTxSend", "made", "try") \in Calls
  BY DEF Port, Call, Calls
<1> DEFINE c == Call("WaveTxSend", "made", "try")
<1>2. TxPlan = NewWave(mdb.tx) \o <<c>>
  BY DEF TxPlan, Send
<1> HIDE DEF c
<1>3. c \in Calls
  BY <1>1 DEF c
<1>4. <<c>> \in Seq(Calls) /\ Len(<<c>>) = 1 /\ <<c>>[1] = c
  BY <1>3
<1>5. /\ TxPlan \in Seq(Calls) /\ Len(TxPlan) = 4
      /\ \A i \in 1..4 : TxPlan[i] = IF i <= 3 THEN NewWave(mdb.tx)[i] ELSE <<c>>[i - 3]
  BY SMTT(30), <1>1, <1>2, <1>4, NewWaveCalls, ConcatProperties
<1> QED
  BY <1>1, <1>4, <1>5, NewWaveCalls DEF c

-----------------------------------------------------------------------------
(* What a call does.                                                       *)

LEMMA OutcomesAre ==
  ASSUME Pigpio, NEW f, NEW x
  PROVE  /\ mock => Outcomes(f, x) = {FALSE}
         /\ f = "SerialReadOpen" /\ TRUE \in Outcomes(f, x) => x \notin gpio.serial
         /\ f = "SerialReadClose" /\ ~mock => Outcomes(f, x) = {x \in gpio.serial}
         /\ f = "WaveDelete" /\ ~mock => Outcomes(f, x) = {x \in gpio.waves}
         /\ f = "WaveTxSend" /\ TRUE \in Outcomes(f, x) => x \in gpio.waves
         /\ NewIds = WaveIds \ gpio.waves
<1>1. gpio.by # "mock"
  BY DEF Pigpio
<1> QED
  BY <1>1 DEF Outcomes, NewIds

\* The effect of a good call, field by field.
LEMMA AfterKind ==
  ASSUME gpio \in Gpio, NEW f, NEW x, NEW w \in WaveIds,
         f = "SerialReadOpen" => x \in Pins, f = "WaveTxSend" => x \in WaveIds
  PROVE  /\ After(f, x, w) \in Gpio /\ After(f, x, w).by = gpio.by
         /\ gpio.by = "mock" => After(f, x, w) = gpio
<1>1. CASE gpio.by = "mock"
  BY <1>1 DEF After
<1>2. CASE gpio.by # "mock" /\ f = "SerialReadOpen"
  BY <1>2 DEF After, Gpio
<1>3. CASE gpio.by # "mock" /\ f = "SerialReadClose"
  BY <1>3 DEF After, Gpio
<1>4. CASE gpio.by # "mock" /\ f = "WaveCreate"
  BY <1>4 DEF After, Gpio
<1>5. CASE gpio.by # "mock" /\ f = "WaveDelete"
  BY <1>5 DEF After, Gpio
<1>6. CASE gpio.by # "mock" /\ f = "WaveTxSend"
  BY <1>6 DEF After, Gpio
<1>7. CASE gpio.by # "mock" /\ f = "WaveTxStop"
  BY <1>7 DEF After, Gpio
<1>8. CASE /\ gpio.by # "mock"
           /\ f \notin {"SerialReadOpen", "SerialReadClose", "WaveCreate", "WaveDelete",
                        "WaveTxSend", "WaveTxStop"}
  BY <1>8 DEF After
<1> QED
  BY <1>1, <1>2, <1>3, <1>4, <1>5, <1>6, <1>7, <1>8

SerialAfter(f, x) ==
  CASE f = "SerialReadOpen"  -> gpio.serial \cup {x}
    [] f = "SerialReadClose" -> gpio.serial \ {x}
    [] OTHER                 -> gpio.serial
WavesAfter(f, x, w) ==
  CASE f = "WaveCreate" -> gpio.waves \cup {w}
    [] f = "WaveDelete" -> gpio.waves \ {x}
    [] OTHER            -> gpio.waves
InflightAfter(f, x) ==
  CASE f = "WaveTxSend" -> gpio.inflight \cup {x}
    [] f = "WaveTxStop" -> {}
    [] OTHER            -> gpio.inflight

LEMMA AfterEffect ==
  ASSUME gpio \in Gpio, gpio.by # "mock", NEW f, NEW x, NEW w
  PROVE  /\ After(f, x, w).serial = SerialAfter(f, x)
         /\ After(f, x, w).waves = WavesAfter(f, x, w)
         /\ After(f, x, w).inflight = InflightAfter(f, x)
<1> USE DEF SerialAfter, WavesAfter, InflightAfter
<1>1. CASE f = "SerialReadOpen"
  BY <1>1 DEF After, Gpio
<1>2. CASE f = "SerialReadClose"
  BY <1>2 DEF After, Gpio
<1>3. CASE f = "WaveCreate"
  BY <1>3 DEF After, Gpio
<1>4. CASE f = "WaveDelete"
  BY <1>4 DEF After, Gpio
<1>5. CASE f = "WaveTxSend"
  BY <1>5 DEF After, Gpio
<1>6. CASE f = "WaveTxStop"
  BY <1>6 DEF After, Gpio
<1>7. CASE f \notin {"SerialReadOpen", "SerialReadClose", "WaveCreate", "WaveDelete",
                     "WaveTxSend", "WaveTxStop"}
  BY <1>7 DEF After
<1> QED
  BY <1>1, <1>2, <1>3, <1>4, <1>5, <1>6, <1>7

\* The call c, on x, is next and ends well or badly.
Takes(c, x, ok, w) ==
  /\ ok \in Outcomes(c.fn, x)
  /\ c.fn = "WaveCreate" /\ ok => w \in NewIds
  /\ gpio' = IF ok THEN After(c.fn, x, w) ELSE gpio
  /\ LET ws == IF ok /\ c.fn = "WaveCreate" THEN Append(made, w) ELSE made
         bad == failed \/ (~ok /\ c.scope = "try")
         rest == Rest(c, ok)
     IN IF rest = <<>> THEN Conclude(c, bad, ws)
        ELSE todo' = rest /\ failed' = bad /\ made' = ws /\ UNCHANGED vars

LEMMA NextCallTakes ==
  ASSUME NextCall
  PROVE  /\ todo # <<>> /\ Head(todo) \notin {Busy, Poll}
         /\ \E ok \in BOOLEAN, w \in WaveIds :
              Takes(Head(todo), IF Head(todo).on = "made" THEN Last(made) ELSE Head(todo).on,
                    ok, w)
<1> DEFINE c == Head(todo)
           x == IF c.on = "made" THEN Last(made) ELSE c.on
<1>1. PICK ok \in Outcomes(c.fn, x), w \in WaveIds : Takes(c, x, ok, w)
  BY DEF NextCall, Takes
<1>2. ok \in BOOLEAN
  BY <1>1 DEF Outcomes
<1> QED
  BY <1>1, <1>2 DEF NextCall

\* Rest, by how the call ended.
LEMMA RestIs ==
  ASSUME NEW c, NEW ok \in BOOLEAN
  PROVE  /\ ok \/ c.scope = "drop" => Rest(c, ok) = Tail(todo)
         /\ ~ok /\ c.scope = "close" => Rest(c, ok) = BeyondClose
         /\ ~ok /\ c.scope = "try" => Rest(c, ok) = Deletes(made)
  BY DEF Rest

LEMMA MadeOne ==
  ASSUME made \in Seq(WaveIds), Len(made) = 1
  PROVE  /\ made[1] \in WaveIds /\ made = <<made[1]>> /\ Last(made) = made[1]
         /\ made # <<>>
<1>1. made[1] \in WaveIds /\ made = <<made[1]>> /\ Last(made) = made[1]
  BY DEF Last
<1> QED
  BY <1>1, One

LEMMA MadeNone ==
  ASSUME made \in Seq(WaveIds), Len(made) = 0
  PROVE  made = <<>>
  BY EmptySeq

-----------------------------------------------------------------------------
(* MDB_OPEN.                                                               *)

LEMMA OpenBounds ==
  /\ OpenFirst \in {1, 5} /\ OpenLast \in {4, 14}
  /\ OpenFirst = 1 <=> mdb # NoPort
  /\ OpenLast = 14 <=> request.arg # <<>>
  BY DEF OpenFirst, OpenLast

\* Where MDB_OPEN is, and what comes next.
LEMMA OpenHead ==
  ASSUME mdb \in Port \cup {NoPort}, request \in Request, request.cmd = "MDB_OPEN",
         NEW q \in OpenFirst..OpenLast, todo = From(OpenPlan, q - OpenFirst + 1)
  PROVE  /\ todo # <<>> /\ Head(todo) = OpenCall(q)
         /\ Tail(todo) = From(OpenPlan, (q + 1) - OpenFirst + 1)
         /\ Tail(todo) = <<>> <=> q = OpenLast
         /\ todo \in Seq(Calls) /\ Tail(todo) \in Seq(Calls)
<1>1. /\ OpenPlan \in Seq(Calls) /\ Len(OpenPlan) = OpenLast - OpenFirst + 1
      /\ \A p \in OpenFirst..OpenLast : OpenPlan[p - OpenFirst + 1] = OpenCall(p)
  BY OpenPlanCalls
<1>2. OpenFirst \in Int /\ OpenLast \in Int /\ q \in Int
  BY OpenBounds
<1> DEFINE k == q - OpenFirst + 1
<1>3. k \in 1..Len(OpenPlan) /\ k + 1 = (q + 1) - OpenFirst + 1
  BY <1>1, <1>2
<1>4. OpenPlan[k] = OpenCall(q)
  BY <1>1
<1> HIDE DEF k
<1>5. /\ From(OpenPlan, k) \in Seq(Calls) /\ From(OpenPlan, k) # <<>>
      /\ Head(From(OpenPlan, k)) = OpenPlan[k]
      /\ Tail(From(OpenPlan, k)) = From(OpenPlan, k + 1)
  BY <1>1, <1>3, FromStep
<1>6. CASE q = OpenLast
  <2>1. k + 1 = Len(OpenPlan) + 1
    BY <1>1, <1>2, <1>6 DEF k
  <2>2. From(OpenPlan, k + 1) = <<>>
    BY <1>1, <2>1, FromEnd
  <2> QED
    BY <1>3, <1>4, <1>5, <1>6, <2>2, EmptySeq DEF k
<1>7. CASE q # OpenLast
  <2>1. k + 1 \in 1..Len(OpenPlan)
    BY <1>1, <1>2, <1>7 DEF k
  <2>2. From(OpenPlan, k + 1) \in Seq(Calls) /\ From(OpenPlan, k + 1) # <<>>
    BY <1>1, <2>1, FromStep
  <2> QED
    BY <1>3, <1>4, <1>5, <1>7, <2>2 DEF k
<1> QED
  BY <1>6, <1>7

\* What the calls of an MDB_OPEN look like.
LEMMA OpenCallIs ==
  ASSUME mdb \in Port \cup {NoPort}, request \in Request, request.cmd = "MDB_OPEN",
         NEW q \in OpenFirst..OpenLast
  PROVE  /\ q \in 1..14
         /\ OpenCall(q).fn = CASE q \in {1, 8} -> "WaveTxStop"
                               [] q = 2 -> "SerialReadClose"
                               [] q \in {3, 4} -> "WaveDelete"
                               [] q \in {5, 6} -> "SetMode"
                               [] q = 7 -> "SerialReadOpen"
                               [] q \in {9, 12} -> "WaveAddNew"
                               [] q \in {10, 13} -> "WaveAddSerial"
                               [] OTHER -> "WaveCreate"
         /\ OpenCall(q).scope = CASE q \in {1, 2} -> "close"
                                  [] q \in {3, 4} -> "drop"
                                  [] OTHER -> "try"
         /\ OpenCall(q).on # "made"
         /\ q <= 4 => mdb \in Port
         /\ q >= 5 => request.arg # <<>> /\ request.arg[1] \in Pins /\ request.arg[2] \in Pins
         /\ q = 2 => OpenCall(q).on = mdb.rx
         /\ q = 3 => OpenCall(q).on = mdb.ack
         /\ q = 4 => OpenCall(q).on = mdb.nak
         /\ q = 7 => OpenCall(q).on = request.arg[1]
<1>1. q \in 1..14
  BY OpenBounds
<1>2. q <= 4 => mdb \in Port /\ mdb.rx \in Pins /\ mdb.ack \in WaveIds /\ mdb.nak \in WaveIds
  BY OpenBounds DEF Port
<1>3. q >= 5 => request.arg # <<>> /\ request.arg[1] \in Pins /\ request.arg[2] \in Pins
  <2>1. q >= 5 => request.arg # <<>>
    BY OpenBounds
  <2> QED
    BY <2>1, OpenArgs
<1>4. OpenCall(q) = CASE q = 1 -> TxStop("close")
                      [] q = 2 -> Call("SerialReadClose", mdb.rx, "close")
                      [] q = 3 -> Call("WaveDelete", mdb.ack, "drop")
                      [] q = 4 -> Call("WaveDelete", mdb.nak, "drop")
                      [] q = 5 -> Call("SetMode", request.arg[1], "try")
                      [] q = 6 -> Call("SetMode", request.arg[2], "try")
                      [] q = 7 -> Call("SerialReadOpen", request.arg[1], "try")
                      [] q = 8 -> TxStop("try")
                      [] q \in {9, 12} -> Call("WaveAddNew", NoWave, "try")
                      [] q \in {10, 13} -> Call("WaveAddSerial", request.arg[2], "try")
                      [] OTHER -> Call("WaveCreate", NoWave, "try")
  BY DEF OpenCall
<1>5. CASE q \in 1..4
  BY <1>2, <1>4, <1>5, GpioAssumption DEF Call, TxStop
<1>6. CASE q \in 5..8
  BY <1>3, <1>4, <1>6, GpioAssumption DEF Call, TxStop
<1>7. CASE q \in 9..14
  BY <1>3, <1>4, <1>7, GpioAssumption DEF Call, TxStop
<1> QED
  BY <1>1, <1>5, <1>6, <1>7

LEMMA AppendNone ==
  ASSUME NEW w \in WaveIds
  PROVE  /\ Append(<<>>, w) = <<w>> /\ Append(<<>>, w)[1] = w
         /\ Append(<<>>, w) \in Seq(WaveIds) /\ Len(Append(<<>>, w)) = 1
  OBVIOUS

LEMMA AppendOne ==
  ASSUME NEW v \in WaveIds, NEW w \in WaveIds
  PROVE  /\ Append(<<v>>, w)[1] = v /\ Append(<<v>>, w)[2] = w
         /\ Append(<<v>>, w) \in Seq(WaveIds)
  OBVIOUS

\* close may succeed; it may fail and leave everything as it is; without a port
\* there is nothing to close.
LEMMA ClosedWell ==
  ASSUME mdb # NoPort
  PROVE  [serial |-> serial \ {mdb.rx}, inflight |-> {}] \in Closes
<1>1. SerialAfterClose(TRUE) = serial \ {mdb.rx} /\ InflightAfterClose(TRUE) = {}
  BY Zenon DEF SerialAfterClose, InflightAfterClose
<1>2. TRUE \in BOOLEAN
  BY Zenon
<1> QED
  BY <1>1, <1>2, Zenon DEF Closed, Closes

LEMMA ClosedNot == [serial |-> serial, inflight |-> inflight] \in Closes
<1>1. SerialAfterClose(FALSE) = serial /\ InflightAfterClose(FALSE) = inflight
  BY Zenon DEF SerialAfterClose, InflightAfterClose
<1>2. FALSE \in BOOLEAN
  BY Zenon
<1> QED
  BY <1>1, <1>2, Zenon DEF Closed, Closes

\* A good call of f on x, which makes w if it makes a wave, brings pigpio from its
\* state at place q to the one at the next.
LEMMA OpenGood ==
  ASSUME NEW q \in 1..14, NEW closed \in Closes, OpenHolds(gpio, made, q, closed),
         made \in Seq(WaveIds), Len(made) = IF q >= 12 THEN 1 ELSE 0,
         q <= 4 => mdb # NoPort,
         ~mock, NEW w \in WaveIds, NEW x, NEW g, NEW ws,
         g.serial = CASE q = 7 -> gpio.serial \cup {x}
                      [] q = 2 -> gpio.serial \ {x}
                      [] OTHER -> gpio.serial,
         g.waves = CASE q \in {11, 14} -> gpio.waves \cup {w}
                     [] q \in {3, 4} -> gpio.waves \ {x}
                     [] OTHER -> gpio.waves,
         g.inflight = CASE q \in {1, 8} -> {}
                        [] OTHER -> gpio.inflight,
         ws = IF q \in {11, 14} THEN Append(made, w) ELSE made,
         q = 2 => x = mdb.rx, q = 3 => x = mdb.ack, q = 4 => x = mdb.nak,
         q = 7 => x = request.arg[1] /\ x \notin gpio.serial,
         q \in {11, 14} => w \notin gpio.waves
  PROVE  \E c \in Closes : OpenHolds(g, ws, q + 1, c)
<1>1. q <= 4 => PortWaves = {mdb.ack, mdb.nak}
  BY DEF PortWaves
<1>2. CASE q = 1
  <2>1. g.serial = gpio.serial /\ g.waves = gpio.waves /\ g.inflight = {}
    BY <1>2
  <2>2. OpenHolds(g, ws, 2, closed)
    BY <1>2, <2>1 DEF OpenHolds
  <2> QED
    BY <1>2, <2>2
<1>3. CASE q = 2
  <2>1. g.serial = gpio.serial \ {mdb.rx} /\ g.waves = gpio.waves /\ g.inflight = gpio.inflight
    BY <1>3
  <2>2. gpio.serial = serial /\ gpio.waves = waves /\ gpio.inflight = {}
    BY <1>3 DEF OpenHolds
  <2>3. PICK c \in Closes : c = [serial |-> serial \ {mdb.rx}, inflight |-> {}]
    BY <1>3, ClosedWell
  <2>4. OpenHolds(g, ws, 3, c)
    BY SMTT(30), <2>1, <2>2, <2>3 DEF OpenHolds
  <2> QED
    BY <1>3, <2>4
<1>4. CASE q = 3
  <2>1. /\ g.serial = gpio.serial /\ g.waves = gpio.waves \ {mdb.ack}
        /\ g.inflight = gpio.inflight
    BY <1>4
  <2>2. OpenHolds(g, ws, 4, closed)
    BY <1>4, <2>1 DEF OpenHolds
  <2> QED
    BY <1>4, <2>2
<1>5. CASE q = 4
  <2>1. /\ g.serial = gpio.serial /\ g.waves = gpio.waves \ {mdb.nak}
        /\ g.inflight = gpio.inflight
    BY <1>5
  <2>2. OpenHolds(g, ws, 5, closed)
    BY <1>1, <1>5, <2>1 DEF OpenHolds
  <2> QED
    BY <1>5, <2>2
<1>6. CASE q \in {5, 6}
  <2>1. g.serial = gpio.serial /\ g.waves = gpio.waves /\ g.inflight = gpio.inflight
    BY <1>6
  <2>2. OpenHolds(g, ws, q + 1, closed)
    BY <1>6, <2>1 DEF OpenHolds
  <2> QED
    BY <2>2
<1>7. CASE q = 7
  <2>1. /\ g.serial = gpio.serial \cup {request.arg[1]} /\ g.waves = gpio.waves
        /\ g.inflight = gpio.inflight /\ request.arg[1] \notin gpio.serial
    BY <1>7
  <2>2. OpenHolds(g, ws, 8, closed)
    BY <1>7, <2>1 DEF OpenHolds
  <2> QED
    BY <1>7, <2>2
<1>8. CASE q = 8
  <2>1. g.serial = gpio.serial /\ g.waves = gpio.waves /\ g.inflight = {}
    BY <1>8
  <2>2. OpenHolds(g, ws, 9, closed)
    BY <1>8, <2>1 DEF OpenHolds
  <2> QED
    BY <1>8, <2>2
<1>9. CASE q \in {9, 10}
  <2>1. g.serial = gpio.serial /\ g.waves = gpio.waves /\ g.inflight = gpio.inflight
    BY <1>9
  <2>2. OpenHolds(g, ws, q + 1, closed)
    BY SMTT(30), <1>9, <2>1 DEF OpenHolds
  <2> QED
    BY <2>2
<1>10. CASE q = 11
  <2>1. /\ g.serial = gpio.serial /\ g.waves = gpio.waves \cup {w}
        /\ g.inflight = gpio.inflight /\ w \notin gpio.waves
    BY <1>10
  <2>2. ws[1] = w
    BY <1>10, <2>1, MadeNone, AppendNone
  <2>3. OpenHolds(g, ws, 12, closed)
    BY <1>10, <2>1, <2>2 DEF OpenHolds
  <2> QED
    BY <1>10, <2>3
<1>11. CASE q = 12
  <2>1. /\ g.serial = gpio.serial /\ g.waves = gpio.waves
        /\ g.inflight = gpio.inflight /\ ws = made
    BY <1>11
  <2>2. OpenHolds(g, ws, 13, closed)
    BY <1>11, <2>1 DEF OpenHolds
  <2> QED
    BY <1>11, <2>2
<1>12. CASE q = 13
  <2>1. /\ g.serial = gpio.serial /\ g.waves = gpio.waves
        /\ g.inflight = gpio.inflight /\ ws = made
    BY <1>12
  <2>2. OpenHolds(g, ws, 14, closed)
    BY <1>12, <2>1 DEF OpenHolds
  <2> QED
    BY <1>12, <2>2
<1>13. CASE q = 14
  <2>1. /\ g.serial = gpio.serial /\ g.waves = gpio.waves \cup {w}
        /\ g.inflight = gpio.inflight /\ w \notin gpio.waves
    BY <1>13
  <2>2. ws[1] = made[1] /\ ws[2] = w
    <3>1. made[1] \in WaveIds /\ made = <<made[1]>> /\ ws = Append(made, w)
      BY <1>13, MadeOne
    <3>2. Append(<<made[1]>>, w)[1] = made[1] /\ Append(<<made[1]>>, w)[2] = w
      BY <3>1, AppendOne
    <3>3. ws = Append(<<made[1]>>, w)
      BY <3>1
    <3> QED
      BY <3>2, <3>3
  <2>3. OpenHolds(g, ws, 15, closed)
    BY <1>13, <2>1, <2>2 DEF OpenHolds
  <2> QED
    BY <1>13, <2>3
<1> QED
  BY <1>2, <1>3, <1>4, <1>5, <1>6, <1>7, <1>8, <1>9, <1>10, <1>11, <1>13, <1>12

\* The calls of close are the first of those due, and what is due beyond them.
LEMMA OpenBeyondClose ==
  ASSUME mdb \in Port, request \in Request, request.cmd = "MDB_OPEN",
         NEW q \in {1, 2}, todo = From(OpenPlan, q - OpenFirst + 1)
  PROVE  BeyondClose = From(OpenPlan, 3)
<1>1. OpenFirst = 1 /\ OpenLast \in {4, 14}
  BY ServerAssumption, OpenBounds DEF Port
<1>2. /\ OpenPlan \in Seq(Calls) /\ Len(OpenPlan) = OpenLast
      /\ \A p \in 1..OpenLast : OpenPlan[p] = OpenCall(p)
  <2>1. /\ OpenPlan \in Seq(Calls) /\ Len(OpenPlan) = OpenLast - OpenFirst + 1
        /\ \A p \in OpenFirst..OpenLast : OpenPlan[p - OpenFirst + 1] = OpenCall(p)
    BY OpenPlanCalls
  <2> QED
    BY <1>1, <2>1
<1>3. todo = From(OpenPlan, q) /\ q \in 1..Len(OpenPlan)
  BY <1>1, <1>2
<1>4. /\ todo \in Seq(Calls) /\ Len(todo) = OpenLast - q + 1
      /\ Tail(todo) = From(OpenPlan, q + 1)
      /\ \A i \in 1..(OpenLast - q + 1) : todo[i] = OpenPlan[q + i - 1]
  <2>1. /\ From(OpenPlan, q) \in Seq(Calls) /\ Len(From(OpenPlan, q)) = Len(OpenPlan) - q + 1
        /\ Tail(From(OpenPlan, q)) = From(OpenPlan, q + 1)
        /\ \A i \in 1..(Len(OpenPlan) - q + 1) : From(OpenPlan, q)[i] = OpenPlan[q + i - 1]
    BY ZenonT(30), <1>2, <1>3, FromStep
  <2> QED
    BY <1>2, <1>3, <2>1
<1>5. \A i \in DOMAIN todo : todo[i].scope = "close" <=> i <= 3 - q
  <2> SUFFICES ASSUME NEW i \in 1..(OpenLast - q + 1)
               PROVE  todo[i].scope = "close" <=> i <= 3 - q
    BY <1>4, LenProperties
  <2>1. q + i - 1 \in OpenFirst..OpenLast
    BY <1>1
  <2>2. OpenCall(q + i - 1).scope = CASE q + i - 1 \in {1, 2} -> "close"
                                      [] q + i - 1 \in {3, 4} -> "drop"
                                      [] OTHER -> "try"
    BY <2>1, OpenCallIs
  <2>3. todo[i] = OpenCall(q + i - 1)
    BY <1>1, <1>2, <1>4, <2>1
  <2> QED
    BY SMTT(30), <1>1, <2>2, <2>3
<1> DEFINE Ends(n) == \A i \in DOMAIN todo : todo[i].scope = "close" <=> i <= n
           n == CHOOSE n \in DOMAIN todo : Ends(n)
<1>6. DOMAIN todo = 1..(OpenLast - q + 1)
  BY <1>4, LenProperties
<1>7. 3 - q \in DOMAIN todo /\ Ends(3 - q)
  BY <1>1, <1>5, <1>6
<1>8. n \in DOMAIN todo /\ Ends(n)
  BY <1>7
<1>9. n = 3 - q
  <2> HIDE DEF n
  <2>1. n \in 1..(OpenLast - q + 1) /\ 3 - q \in 1..(OpenLast - q + 1)
    BY <1>6, <1>7, <1>8
  <2>2. \A i \in 1..(OpenLast - q + 1) : i <= n <=> i <= 3 - q
    BY <1>5, <1>6, <1>8
  <2> QED
    BY <1>1, <2>1, <2>2
<1>10. BeyondClose = From(todo, (3 - q) + 1)
  BY <1>9 DEF BeyondClose, From
<1>11. From(todo, 1) = todo /\ From(todo, 2) = Tail(todo)
  <2>1. 1 \in 1..Len(todo)
    BY <1>1, <1>4
  <2> QED
    BY <1>4, <2>1, FromStep, FromEnd
<1>12. CASE q = 2
  <2>1. (3 - q) + 1 = 2 /\ q + 1 = 3
    BY <1>12
  <2> QED
    BY <1>4, <1>10, <1>11, <2>1
<1>13. CASE q = 1
  <2>1. 2 \in 1..Len(todo) /\ 2 \in 1..Len(OpenPlan)
    BY <1>1, <1>2, <1>4, <1>13
  <2>2. From(todo, 3) = Tail(From(todo, 2))
    <3>1. Tail(From(todo, 2)) = From(todo, 2 + 1)
      BY <1>4, <2>1, FromStep
    <3> QED
      BY <3>1
  <2>3. Tail(From(OpenPlan, 2)) = From(OpenPlan, 3)
    <3>1. Tail(From(OpenPlan, 2)) = From(OpenPlan, 2 + 1)
      BY <1>2, <2>1, FromStep
    <3> QED
      BY <3>1
  <2>4. q + 1 = 2 /\ (3 - q) + 1 = 3
    BY <1>13
  <2>5. From(todo, 2) = From(OpenPlan, 2)
    BY <1>4, <1>11, <2>4
  <2> QED
    BY <1>10, <2>2, <2>3, <2>4, <2>5
<1> QED
  BY <1>12, <1>13

\* The handler goes on with the calls s, having made the waves ws.
Onto(s, ws) == todo' = s /\ failed' = FALSE /\ made' = ws /\ UNCHANGED vars

\* What pigpio is then, IodinServer sees, and MDB_OPEN is over.
OpenOver ==
  /\ pc' = "reply" /\ Idle
  /\ serial' = gpio'.serial /\ waves' = gpio'.waves /\ inflight' = gpio'.inflight
  /\ lateSend' = (lateSend /\ inflight' # {})
  /\ UNCHANGED <<mock, running, request, high, txWave>>
OpenRefused ==
  /\ OpenOver /\ mdb' = NoPort
  /\ status' = IF request.arg = <<>> THEN "ERR_INPUT" ELSE "ERR_HARDWARE"
OpenDone(ws) ==
  /\ OpenOver /\ status' = "OK"
  /\ mdb' = [rx |-> request.arg[1], tx |-> request.arg[2], ack |-> ws[1], nak |-> ws[2]]

\* Where a call takes MDB_OPEN: to the next, beyond close, to the wave made first,
\* or to its end.
LEMMA OpenMoves ==
  ASSUME mdb \in Port \cup {NoPort}, request \in Request, pc = "exec", request.cmd = "MDB_OPEN",
         NEW q \in OpenFirst..OpenLast, OpenDue(q), made \in Seq(WaveIds),
         NEW x, NEW ok \in BOOLEAN, NEW w \in WaveIds, Takes(OpenCall(q), x, ok, w),
         NEW ws, ws = IF q \in {11, 14} THEN Append(made, w) ELSE made
  PROVE  /\ (ok \/ q \in {3, 4}) /\ q # OpenLast =>
              Onto(From(OpenPlan, (q + 1) - OpenFirst + 1), ws)
         /\ (ok \/ q \in {3, 4}) /\ q = OpenLast /\ q = 4 => OpenRefused
         /\ ok /\ q = 14 => OpenDone(ws)
         /\ ~ok /\ q \in {1, 2} => Onto(From(OpenPlan, 3), made)
         /\ ~ok /\ q \in 5..11 => OpenRefused
         /\ ~ok /\ q \in 12..14 =>
              todo' = Deletes(made) /\ failed' = TRUE /\ made' = made /\ UNCHANGED vars
<1> DEFINE c == OpenCall(q)
           next == From(OpenPlan, (q + 1) - OpenFirst + 1)
<1>1. /\ todo = From(OpenPlan, q - OpenFirst + 1)
      /\ ~failed /\ Len(made) = IF q >= 12 THEN 1 ELSE 0
  BY DEF OpenDue
<1>2. /\ Tail(todo) = next /\ (next = <<>> <=> q = OpenLast)
  BY <1>1, OpenHead
<1>3. /\ q \in 1..14 /\ OpenLast \in {4, 14} /\ q <= OpenLast
      /\ c.fn = "WaveCreate" <=> q \in {11, 14}
      /\ c.scope = CASE q \in {1, 2} -> "close" [] q \in {3, 4} -> "drop" [] OTHER -> "try"
      /\ q <= 4 => mdb \in Port
      /\ OpenLast = 14 <=> request.arg # <<>>
  BY OpenCallIs, OpenBounds
<1>4. q \in {1, 2} => BeyondClose = From(OpenPlan, 3)
  BY <1>1, <1>3, OpenBeyondClose
<1>5. /\ ok \/ q \in {3, 4} => Rest(c, ok) = next
      /\ ~ok /\ q \in {1, 2} => Rest(c, ok) = From(OpenPlan, 3)
      /\ ~ok /\ q \in 5..14 => Rest(c, ok) = Deletes(made)
  <2>1. /\ ok \/ c.scope = "drop" => Rest(c, ok) = Tail(todo)
        /\ ~ok /\ c.scope = "close" => Rest(c, ok) = BeyondClose
        /\ ~ok /\ c.scope = "try" => Rest(c, ok) = Deletes(made)
    BY RestIs
  <2> HIDE DEF c, next
  <2>2. /\ q \in {1, 2} => c.scope = "close"
        /\ q \in {3, 4} => c.scope = "drop"
        /\ q \in 5..14 => c.scope = "try"
    BY <1>3
  <2>3. ok \/ q \in {3, 4} => Rest(c, ok) = next
    BY <1>2, <2>1, <2>2
  <2>4. ~ok /\ q \in {1, 2} => Rest(c, ok) = From(OpenPlan, 3)
    BY <1>4, <2>1, <2>2
  <2>5. ~ok /\ q \in 5..14 => Rest(c, ok) = Deletes(made)
    BY <2>1, <2>2
  <2> QED
    BY <2>3, <2>4, <2>5
<1> HIDE DEF c, next
<1>6. CASE (ok \/ q \in {3, 4}) /\ q # OpenLast
  <2>1. Rest(c, ok) # <<>> /\ Rest(c, ok) = next
    BY <1>2, <1>5, <1>6
  <2>2. q \in {3, 4} => q \notin {11, 14}
    OBVIOUS
  <2>3. ok /\ c.fn = "WaveCreate" <=> ok /\ q \in {11, 14}
    BY <1>3
  <2>4. todo' = next /\ failed' = FALSE /\ made' = ws /\ UNCHANGED vars
    BY <1>1, <1>3, <1>6, <2>1, <2>2, <2>3 DEF Takes, c
  <2> QED
    BY <1>3, <1>6, <2>4 DEF Onto, next
<1>7. CASE (ok \/ q \in {3, 4}) /\ q = OpenLast /\ q = 4
  <2>1. Rest(c, ok) = <<>>
    BY <1>2, <1>5, <1>7
  <2>2. OpenRefused
    BY <1>1, <1>3, <1>7, <2>1 DEF Takes, c, Conclude, OpenReturns, Respond, Publish, OpenRefused,
       OpenOver
  <2> QED
    BY <1>3, <1>7, <2>2
<1>8. CASE ok /\ q = 14
  <2>1. Rest(c, ok) = <<>>
    <3>1. q = OpenLast
      BY <1>3, <1>8
    <3>2. Rest(c, ok) = next
      BY <1>5, <1>8
    <3> QED
      BY <1>2, <3>1, <3>2
  <2>2. OpenDone(ws)
    BY <1>1, <1>3, <1>8, <2>1 DEF Takes, c, Conclude, OpenReturns, Respond, Publish, OpenDone,
       OpenOver
  <2> QED
    BY <1>3, <1>8, <2>2
<1>9. CASE ~ok /\ q \in {1, 2}
  <2>1. Rest(c, ok) = From(OpenPlan, 3)
    BY <1>5, <1>9
  <2>2. From(OpenPlan, 3) # <<>>
    <3>1. mdb # NoPort /\ OpenFirst = 1
      BY <1>3, <1>9, ServerAssumption, OpenBounds DEF Port
    <3>2. OpenPlan \in Seq(Calls) /\ Len(OpenPlan) = OpenLast
      BY <1>3, <3>1, OpenPlanCalls
    <3>3. 3 \in 1..Len(OpenPlan)
      BY <1>3, <3>2
    <3> QED
      BY <3>2, <3>3, FromStep
  <2>3. Onto(From(OpenPlan, 3), made)
    BY <1>1, <1>3, <1>9, <2>1, <2>2 DEF Takes, c, Onto
  <2> QED
    BY <1>3, <1>9, <2>3
<1>10. CASE ~ok /\ q \in 5..11
  <2>1. Rest(c, ok) = <<>>
    BY <1>1, <1>5, <1>10, MadeNone, DeletesNone
  <2>2. OpenRefused
    BY <1>1, <1>3, <1>10, <2>1 DEF Takes, c, Conclude, OpenReturns, Respond, Publish, OpenRefused,
       OpenOver
  <2> QED
    BY <1>3, <1>10, <2>2
<1>11. CASE ~ok /\ q \in 12..14
  <2>1. Rest(c, ok) = Deletes(made)
    BY <1>5, <1>11
  <2>2. Deletes(made) # <<>>
    <3>1. made[1] \in WaveIds /\ made = <<made[1]>>
      BY <1>1, <1>11, MadeOne
    <3> QED
      BY <3>1, DeletesSome
  <2>3. /\ todo' = Deletes(made) /\ failed' = (failed \/ (~ok /\ c.scope = "try"))
        /\ made' = made /\ UNCHANGED vars
    BY <1>11, <2>1, <2>2 DEF Takes, c
  <2>4. c.scope = "try"
    BY <1>3, <1>11
  <2>5. failed' = TRUE
    BY <1>11, <2>3, <2>4
  <2> QED
    BY <1>3, <1>11, <2>3, <2>5
<1> QED
  BY <1>3, <1>6, <1>7, <1>8, <1>9, <1>10, <1>11 DEF next

\* What a call of MDB_OPEN does to pigpio.  The calls that drop the port cannot
\* fail, but for the first: the reader is open, the waves are there.
LEMMA OpenEffect ==
  ASSUME Pigpio, gpio \in Gpio, made \in Seq(WaveIds), TypeOK, ServerInv, mock => mdb = NoPort,
         request.cmd = "MDB_OPEN", NEW q \in OpenFirst..OpenLast, OpenDue(q),
         NEW closed \in Closes, OpenHolds(gpio, made, q, closed),
         NEW ok \in BOOLEAN, NEW w \in WaveIds,
         Takes(OpenCall(q), OpenCall(q).on, ok, w),
         NEW ws, ws = IF q \in {11, 14} THEN Append(made, w) ELSE made
  PROVE  /\ gpio' \in Gpio /\ gpio'.by = gpio.by
         /\ ok => ~mock /\ \E c \in Closes : OpenHolds(gpio', ws, q + 1, c)
         /\ ~ok => gpio' = gpio
         /\ q \in {2, 3, 4} => ok
<1> DEFINE f == OpenCall(q).fn
           x == OpenCall(q).on
<1>1. mdb \in Port \cup {NoPort} /\ request \in Request
  BY DEF TypeOK
<1>2. /\ q \in 1..14 /\ Len(made) = IF q >= 12 THEN 1 ELSE 0
      /\ f = CASE q \in {1, 8} -> "WaveTxStop"
               [] q = 2 -> "SerialReadClose"
               [] q \in {3, 4} -> "WaveDelete"
               [] q \in {5, 6} -> "SetMode"
               [] q = 7 -> "SerialReadOpen"
               [] q \in {9, 12} -> "WaveAddNew"
               [] q \in {10, 13} -> "WaveAddSerial"
               [] OTHER -> "WaveCreate"
      /\ q <= 4 => mdb \in Port
      /\ q >= 5 => request.arg[1] \in Pins
      /\ q = 2 => x = mdb.rx
      /\ q = 3 => x = mdb.ack
      /\ q = 4 => x = mdb.nak
      /\ q = 7 => x = request.arg[1]
  BY <1>1, OpenCallIs DEF OpenDue
<1>3. q <= 4 => mdb # NoPort
  BY <1>2, ServerAssumption DEF Port
<1>4. /\ ok \in Outcomes(f, x)
      /\ f = "WaveCreate" /\ ok => w \in NewIds
      /\ gpio' = IF ok THEN After(f, x, w) ELSE gpio
  BY DEF Takes
<1> HIDE DEF f, x
<1>5. /\ mock => Outcomes(f, x) = {FALSE}
      /\ f = "SerialReadOpen" /\ TRUE \in Outcomes(f, x) => x \notin gpio.serial
      /\ f = "SerialReadClose" /\ ~mock => Outcomes(f, x) = {x \in gpio.serial}
      /\ f = "WaveDelete" /\ ~mock => Outcomes(f, x) = {x \in gpio.waves}
      /\ NewIds = WaveIds \ gpio.waves
  BY OutcomesAre
<1>6. /\ f = "SerialReadOpen" => x \in Pins
      /\ f = "WaveTxSend" => x \in WaveIds
      /\ gpio.by # "mock"
  BY <1>2 DEF Pigpio
<1>7. After(f, x, w) \in Gpio /\ After(f, x, w).by = gpio.by
  BY <1>6, AfterKind
<1>8. /\ After(f, x, w).serial = SerialAfter(f, x)
      /\ After(f, x, w).waves = WavesAfter(f, x, w)
      /\ After(f, x, w).inflight = InflightAfter(f, x)
  BY <1>6, AfterEffect
<1>9. ok => ~mock
  BY <1>4, <1>5
<1>10. ASSUME ok PROVE \E c \in Closes : OpenHolds(gpio', ws, q + 1, c)
  <2>1. gpio' = After(f, x, w)
    BY <1>4, <1>10
  <2>2. gpio'.serial = CASE q = 7 -> gpio.serial \cup {x}
                         [] q = 2 -> gpio.serial \ {x}
                         [] OTHER -> gpio.serial
    BY <1>2, <1>8, <2>1 DEF SerialAfter
  <2>3. gpio'.waves = CASE q \in {11, 14} -> gpio.waves \cup {w}
                        [] q \in {3, 4} -> gpio.waves \ {x}
                        [] OTHER -> gpio.waves
    BY <1>2, <1>8, <2>1 DEF WavesAfter
  <2>4. gpio'.inflight = CASE q \in {1, 8} -> {}
                           [] OTHER -> gpio.inflight
    BY <1>2, <1>8, <2>1 DEF InflightAfter
  <2>5. q = 7 => x = request.arg[1] /\ x \notin gpio.serial
    BY <1>2, <1>4, <1>5, <1>10
  <2>6. q \in {11, 14} => w \notin gpio.waves
    BY <1>2, <1>4, <1>5, <1>10
  <2>7. /\ q = 2 => x = mdb.rx
        /\ q = 3 => x = mdb.ack
        /\ q = 4 => x = mdb.nak
        /\ q <= 4 => mdb # NoPort
        /\ Len(made) = IF q >= 12 THEN 1 ELSE 0
        /\ q \in 1..14 /\ ~mock
    BY <1>2, <1>3, <1>9, <1>10
  <2> QED
    BY <2>2, <2>3, <2>4, <2>5, <2>6, <2>7, OpenGood
<1>11. ASSUME q \in {2, 3, 4} PROVE ok
  <2>1. mdb # NoPort /\ ~mock
    BY <1>3, <1>11
  <2>2. mdb.rx \in serial /\ mdb.ack \in waves /\ mdb.nak \in waves /\ mdb.ack # mdb.nak
    BY <2>1 DEF ServerInv, PortReads, WavesOwned, PortWaves
  <2>3. CASE q = 2
    <3>1. x \in gpio.serial
      BY <1>2, <2>2, <2>3 DEF OpenHolds
    <3> QED
      BY <1>2, <1>4, <1>5, <2>1, <2>3, <3>1
  <2>4. CASE q = 3
    <3>1. x \in gpio.waves
      BY <1>2, <2>2, <2>4 DEF OpenHolds
    <3> QED
      BY <1>2, <1>4, <1>5, <2>1, <2>4, <3>1
  <2>5. CASE q = 4
    <3>1. x \in gpio.waves
      BY <1>2, <2>2, <2>5 DEF OpenHolds
    <3> QED
      BY <1>2, <1>4, <1>5, <2>1, <2>5, <3>1
  <2> QED
    BY <1>11, <2>3, <2>4, <2>5
<1> QED
  BY <1>4, <1>9, <1>10, <1>11, <1>7

\* However MDB_OPEN ends, IodinServer has a step for it: new failed before the
\* reader was open, or after.
LEMMA OpenRefusedStep ==
  ASSUME pc = "exec", request.cmd = "MDB_OPEN", OpenRefused, NEW closed \in Closes, NEW ws,
         NEW q \in 5..11, OpenHolds(gpio', ws, q, closed), request.arg = <<>> => q = 5
  PROVE  ExecOpen
<1>1. PICK stopped \in BOOLEAN : closed = Closed(stopped)
  BY DEF Closes
<1>2. /\ closed.serial = SerialAfterClose(stopped)
      /\ closed.inflight = InflightAfterClose(stopped)
  BY <1>1 DEF Closed
<1>3. /\ pc' = "reply" /\ mdb' = NoPort
      /\ serial' = gpio'.serial /\ waves' = gpio'.waves /\ inflight' = gpio'.inflight
      /\ lateSend' = (lateSend /\ inflight' # {})
      /\ UNCHANGED <<mock, running, request, txWave, high>>
      /\ status' = IF request.arg = <<>> THEN "ERR_INPUT" ELSE "ERR_HARDWARE"
  BY DEF OpenRefused, OpenOver
<1>4. gpio'.waves = waves \ PortWaves
  BY DEF OpenHolds
<1>5. CASE q \in 5..7
  <2>1. gpio'.serial = closed.serial /\ gpio'.inflight = closed.inflight
    BY <1>5 DEF OpenHolds
  <2>2. OpenFails(stopped)
    BY <1>2, <1>3, <1>4, <2>1 DEF OpenFails, Respond
  <2> QED
    BY <1>3, <2>2 DEF ExecOpen, Exec
<1>6. CASE q \in 8..11
  <2>1. /\ gpio'.serial = closed.serial \cup {request.arg[1]}
        /\ request.arg[1] \notin closed.serial
        /\ gpio'.inflight \in {closed.inflight, {}}
    BY <1>6 DEF OpenHolds
  <2>2. request.arg # <<>>
    BY <1>6
  <2>3. OpenFailsLate(stopped)
    BY <1>2, <1>3, <1>4, <2>1, <2>2 DEF OpenFailsLate, Respond
  <2> QED
    BY <1>3, <2>3 DEF ExecOpen, Exec
<1> QED
  BY <1>5, <1>6

LEMMA OpenDoneStep ==
  ASSUME pc = "exec", request.cmd = "MDB_OPEN", NEW ws, OpenDone(ws), NEW closed \in Closes,
         OpenHolds(gpio', ws, 15, closed), request.arg # <<>>,
         ws[1] \in WaveIds, ws[2] \in WaveIds
  PROVE  ExecOpen
<1>1. PICK stopped \in BOOLEAN : closed = Closed(stopped)
  BY DEF Closes
<1>2. closed.serial = SerialAfterClose(stopped)
  BY <1>1 DEF Closed
<1>3. /\ pc' = "reply" /\ status' = "OK"
      /\ mdb' = [rx |-> request.arg[1], tx |-> request.arg[2], ack |-> ws[1], nak |-> ws[2]]
      /\ serial' = gpio'.serial /\ waves' = gpio'.waves /\ inflight' = gpio'.inflight
      /\ lateSend' = (lateSend /\ inflight' # {})
      /\ UNCHANGED <<mock, running, request, txWave, high>>
  BY DEF OpenDone, OpenOver
<1>4. /\ gpio'.serial = closed.serial \cup {request.arg[1]}
      /\ request.arg[1] \notin closed.serial
      /\ gpio'.inflight = {}
      /\ gpio'.waves = (waves \ PortWaves) \cup {ws[1], ws[2]}
      /\ ws[1] \notin waves \ PortWaves /\ ws[2] \notin waves \ PortWaves /\ ws[1] # ws[2]
  BY DEF OpenHolds
<1>5. lateSend' = FALSE
  BY <1>3, <1>4
<1>6. OpenSucceeds(stopped)
  <2>1. ws[1] \in WaveIds \ (waves \ PortWaves) /\ ws[2] \in WaveIds \ (waves \ PortWaves)
    BY <1>4
  <2>2. waves' = (waves \ PortWaves) \cup {ws[1], ws[2]}
    BY <1>3, <1>4
  <2>3. serial' = SerialAfterClose(stopped) \cup {request.arg[1]} /\ inflight' = {}
    BY <1>2, <1>3, <1>4
  <2> QED
    BY <1>2, <1>3, <1>4, <1>5, <2>1, <2>2, <2>3 DEF OpenSucceeds, Respond
<1> QED
  BY <1>3, <1>6 DEF ExecOpen, Exec

-----------------------------------------------------------------------------
(* What every step keeps.                                                  *)

\* The handler has returned.
LEMMA Returned ==
  ASSUME pc' \notin Sends \cup {"exec", "receiving"}, Idle, gpio' \in Gpio,
         Pigpio' => serial' = gpio'.serial /\ waves' = gpio'.waves /\ inflight' = gpio'.inflight
  PROVE  DTypeOK' /\ Stage'
<1>1. todo' = <<>> /\ failed' = FALSE /\ made' = <<>>
  BY DEF Idle
<1>2. Pigpio' => Agree'
  BY DEF Agree
<1> QED
  BY <1>1, <1>2, EmptySeq DEF DTypeOK, Stage

LEMMA OpenSame ==
  ASSUME UNCHANGED vars
  PROVE  /\ OpenPlan' = OpenPlan /\ OpenFirst' = OpenFirst /\ OpenLast' = OpenLast
         /\ Closes' = Closes
  BY DEF vars, OpenPlan, OpenFirst, OpenLast, Closes, Closed, DropPort, SerialAfterClose,
     InflightAfterClose

LEMMA OpenHoldsOn ==
  ASSUME UNCHANGED vars, NEW q, NEW closed, OpenHolds(gpio', made', q, closed)
  PROVE  OpenHolds(gpio, made, q, closed)'
<1>1. PortWaves' = PortWaves
  BY DEF vars, PortWaves
<1> QED
  BY <1>1 DEF vars, OpenHolds

\* MDB_OPEN goes on at call q.
LEMMA OpenOnto ==
  ASSUME mdb \in Port \cup {NoPort}, request \in Request, pc = "exec", request.cmd = "MDB_OPEN",
         NEW q \in OpenFirst..OpenLast, NEW ws \in Seq(WaveIds), gpio' \in Gpio,
         Len(ws) = IF q >= 12 THEN 1 ELSE 0,
         Onto(From(OpenPlan, q - OpenFirst + 1), ws),
         Pigpio' => \E closed \in Closes : OpenHolds(gpio', made', q, closed)
  PROVE  DTypeOK' /\ Stage'
<1>1. /\ todo' = From(OpenPlan, q - OpenFirst + 1) /\ failed' = FALSE /\ made' = ws
      /\ UNCHANGED vars
  BY DEF Onto
<1>2. /\ pc' = "exec" /\ request' = request
      /\ OpenPlan' = OpenPlan /\ OpenFirst' = OpenFirst /\ OpenLast' = OpenLast
      /\ Closes' = Closes
  BY <1>1, OpenSame DEF vars
<1>3. todo' \in Seq(Calls) /\ todo' # <<>>
  <2>1. /\ OpenPlan \in Seq(Calls) /\ Len(OpenPlan) = OpenLast - OpenFirst + 1
        /\ OpenFirst \in {1, 5} /\ OpenLast \in {4, 14}
    BY OpenPlanCalls, OpenBounds
  <2>2. q - OpenFirst + 1 \in 1..Len(OpenPlan)
    BY <2>1
  <2> QED
    BY <1>1, <2>1, <2>2, FromStep
<1>4. OpenDue(q)'
  BY <1>1, <1>2 DEF OpenDue
<1>5. PICK closed \in Closes : Pigpio' => OpenHolds(gpio', made', q, closed)
  BY ClosedNot
<1>6. Pigpio' => OpenHolds(gpio, made, q, closed)'
  BY <1>1, <1>5, OpenHoldsOn
<1>7. OpenStage'
  BY <1>2, <1>4, <1>5, <1>6 DEF OpenStage
<1>8. DTypeOK'
  BY <1>1, <1>3 DEF DTypeOK
<1> QED
  BY <1>2, <1>3, <1>7, <1>8 DEF Stage, Sends

\* MDB_OPEN deletes the wave it made.
LEMMA OpenUndoes ==
  ASSUME pc = "exec", request.cmd = "MDB_OPEN", request.arg # <<>>, made \in Seq(WaveIds),
         Len(made) = 1, gpio' \in Gpio,
         todo' = Deletes(made) /\ failed' = TRUE /\ made' = made /\ UNCHANGED vars,
         Pigpio' => \E closed \in Closes : OpenHolds(gpio', made', 12, closed)
  PROVE  DTypeOK' /\ Stage'
<1>1. /\ pc' = "exec" /\ request' = request /\ Closes' = Closes
  BY OpenSame DEF vars
<1>2. todo' \in Seq(Calls) /\ todo' # <<>> /\ Deletes(made)' = Deletes(made)
  BY DeletesSome DEF Deletes
<1>3. OpenUndone'
  BY <1>1, <1>2 DEF OpenUndone
<1>4. PICK closed \in Closes : Pigpio' => OpenHolds(gpio', made', 12, closed)
  BY ClosedNot
<1>5. Pigpio' => OpenHolds(gpio, made, 12, closed)'
  BY <1>4, OpenHoldsOn
<1>6. OpenStage'
  BY <1>1, <1>3, <1>4, <1>5 DEF OpenStage
<1>7. DTypeOK'
  BY <1>2 DEF DTypeOK
<1> QED
  BY <1>1, <1>2, <1>6, <1>7 DEF Stage, Sends

LEMMA TakesKind ==
  ASSUME gpio \in Gpio, NEW c, NEW x, NEW ok \in BOOLEAN, NEW w \in WaveIds, Takes(c, x, ok, w),
         c.fn = "SerialReadOpen" => x \in Pins, c.fn = "WaveTxSend" => x \in WaveIds
  PROVE  /\ gpio' \in Gpio /\ gpio'.by = gpio.by
         /\ gpio.by = "mock" => gpio' = gpio
<1>1. gpio' = IF ok THEN After(c.fn, x, w) ELSE gpio
  BY DEF Takes
<1>2. /\ After(c.fn, x, w) \in Gpio /\ After(c.fn, x, w).by = gpio.by
      /\ gpio.by = "mock" => After(c.fn, x, w) = gpio
  BY AfterKind
<1> QED
  BY <1>1, <1>2

\* One call of MDB_OPEN, in either build.
LEMMA OpenCallStep ==
  ASSUME mdb \in Port \cup {NoPort}, request \in Request, pc = "exec", request.cmd = "MDB_OPEN",
         gpio \in Gpio, made \in Seq(WaveIds),
         NEW q \in OpenFirst..OpenLast, OpenDue(q), NEW ok \in BOOLEAN, NEW w \in WaveIds,
         Takes(OpenCall(q), OpenCall(q).on, ok, w),
         NEW closed \in Closes, Pigpio => PigpioStage /\ OpenHolds(gpio, made, q, closed)
  PROVE  /\ DTypeOK' /\ Stage' /\ gpio'.by = gpio.by
         /\ gpio.by = "mock" => gpio' = gpio
         /\ \/ UNCHANGED vars
            \/ OpenRefused /\ (Pigpio => ExecOpen)
            \/ /\ \E ws : OpenDone(ws) /\ ws[1] \in WaveIds /\ ws[2] \in WaveIds
               /\ request.arg # <<>> /\ (Pigpio => ExecOpen /\ ~mock)
<1> DEFINE ws == IF q \in {11, 14} THEN Append(made, w) ELSE made
<1>1. /\ q \in 1..14 /\ q <= OpenLast /\ Len(made) = IF q >= 12 THEN 1 ELSE 0
      /\ OpenFirst \in {1, 5} /\ OpenLast \in {4, 14}
      /\ OpenLast = 14 <=> request.arg # <<>>
      /\ q <= 4 => OpenFirst = 1
  BY OpenCallIs, OpenBounds DEF OpenDue
<1>2. /\ (ok \/ q \in {3, 4}) /\ q # OpenLast =>
           Onto(From(OpenPlan, (q + 1) - OpenFirst + 1), ws)
      /\ (ok \/ q \in {3, 4}) /\ q = OpenLast /\ q = 4 => OpenRefused
      /\ ok /\ q = 14 => OpenDone(ws)
      /\ ~ok /\ q \in {1, 2} => Onto(From(OpenPlan, 3), made)
      /\ ~ok /\ q \in 5..11 => OpenRefused
      /\ ~ok /\ q \in 12..14 =>
           todo' = Deletes(made) /\ failed' = TRUE /\ made' = made /\ UNCHANGED vars
  BY OpenMoves
<1>3. /\ OpenCall(q).fn = "SerialReadOpen" => OpenCall(q).on \in Pins
      /\ OpenCall(q).fn # "WaveTxSend"
  BY OpenCallIs
<1>4. /\ gpio' \in Gpio /\ gpio'.by = gpio.by
      /\ gpio.by = "mock" => gpio' = gpio
  BY <1>3, TakesKind
<1>5. Pigpio' <=> Pigpio
  BY <1>4 DEF Pigpio
<1>6. ASSUME Pigpio
      PROVE  /\ ok => ~mock /\ \E c \in Closes : OpenHolds(gpio', ws, q + 1, c)
             /\ ~ok => gpio' = gpio
             /\ q \in {2, 3, 4} => ok
  BY <1>6, OpenEffect DEF PigpioStage
<1>7. /\ ws \in Seq(WaveIds)
      /\ q # 14 => Len(ws) = IF q + 1 >= 12 THEN 1 ELSE 0
      /\ q = 14 => ws[1] \in WaveIds /\ ws[2] \in WaveIds
  <2>1. CASE q = 11
    BY <1>1, <2>1, MadeNone, AppendNone
  <2>2. CASE q = 14
    <3>1. made[1] \in WaveIds /\ made = <<made[1]>> /\ ws = Append(made, w)
      BY <1>1, <2>2, MadeOne
    <3>2. /\ Append(<<made[1]>>, w)[1] = made[1] /\ Append(<<made[1]>>, w)[2] = w
          /\ Append(<<made[1]>>, w) \in Seq(WaveIds)
      BY <3>1, AppendOne
    <3>3. ws = Append(<<made[1]>>, w)
      BY <3>1
    <3> QED
      BY <2>2, <3>1, <3>2, <3>3
  <2>3. CASE q \notin {11, 14}
    BY <1>1, <2>3
  <2> QED
    BY <2>1, <2>2, <2>3
<1> HIDE DEF ws
<1>8. CASE (ok \/ q \in {3, 4}) /\ q # OpenLast
  <2>1. Onto(From(OpenPlan, (q + 1) - OpenFirst + 1), ws) /\ UNCHANGED vars
    BY <1>2, <1>8 DEF Onto
  <2>2. Pigpio' => \E c \in Closes : OpenHolds(gpio', made', q + 1, c)
    BY <1>5, <1>6, <1>8, <2>1 DEF Onto
  <2>3. q + 1 \in OpenFirst..OpenLast /\ q # 14
    BY <1>1, <1>8
  <2>4. DTypeOK' /\ Stage'
    BY <1>4, <1>7, <2>1, <2>2, <2>3, OpenOnto
  <2> QED
    BY <1>4, <2>1, <2>4
<1>9. ASSUME OpenRefused, (q = 4 /\ OpenLast = 4) \/ (q \in 5..11 /\ ~ok)
      PROVE  DTypeOK' /\ Stage' /\ (Pigpio => ExecOpen)
  <2>1. DTypeOK' /\ Stage'
    BY <1>4, <1>9, Returned DEF OpenRefused, OpenOver, Sends
  <2>2. ASSUME Pigpio PROVE ExecOpen
    <3>1. CASE q = 4 /\ OpenLast = 4
      <4>1. PICK c \in Closes : OpenHolds(gpio', ws, 5, c)
        BY <1>6, <2>2, <3>1
      <4> QED
        BY <1>9, <4>1, OpenRefusedStep
    <3>2. CASE q \in 5..11 /\ ~ok
      <4>1. OpenHolds(gpio', made, q, closed)
        BY <1>6, <2>2, <3>2
      <4>2. request.arg # <<>>
        BY <1>1, <3>2
      <4> QED
        BY <1>9, <3>2, <4>1, <4>2, OpenRefusedStep
    <3> QED
      BY <1>9, <3>1, <3>2
  <2> QED
    BY <2>1, <2>2
<1>10. CASE (ok \/ q \in {3, 4}) /\ q = OpenLast /\ q = 4
  <2>1. OpenRefused
    BY <1>2, <1>10
  <2>2. (q = 4 /\ OpenLast = 4) \/ (q \in 5..11 /\ ~ok)
    BY <1>10
  <2>3. DTypeOK' /\ Stage' /\ (Pigpio => ExecOpen)
    BY <1>9, <2>1, <2>2
  <2> QED
    BY <1>4, <2>1, <2>3
<1>11. CASE ok /\ q = 14
  <2>1. OpenDone(ws) /\ request.arg # <<>>
    BY <1>1, <1>2, <1>11
  <2>2. DTypeOK' /\ Stage'
    BY <1>4, <2>1, Returned DEF OpenDone, OpenOver, Sends
  <2>3. ASSUME Pigpio PROVE ExecOpen /\ ~mock
    <3>1. PICK c \in Closes : OpenHolds(gpio', ws, q + 1, c)
      BY <1>6, <1>11, <2>3
    <3>2. OpenHolds(gpio', ws, 15, c)
      BY <1>11, <3>1
    <3> QED
      BY <1>6, <1>7, <1>11, <2>1, <2>3, <3>2, OpenDoneStep
  <2> QED
    BY <1>4, <1>7, <1>11, <2>1, <2>2, <2>3
<1>12. CASE ~ok /\ q \in {1, 2}
  <2>1. Onto(From(OpenPlan, 3), made) /\ UNCHANGED vars
    BY <1>2, <1>12 DEF Onto
  <2>2. Pigpio' => \E c \in Closes : OpenHolds(gpio', made', 3, c)
    <3> SUFFICES ASSUME Pigpio' PROVE \E c \in Closes : OpenHolds(gpio', made', 3, c)
      OBVIOUS
    <3>1. q = 1 /\ gpio' = gpio /\ made' = made /\ OpenHolds(gpio, made, q, closed)
      BY <1>5, <1>6, <1>12, <2>1 DEF Onto
    <3>2. PICK c \in Closes : c = [serial |-> serial, inflight |-> inflight]
      BY ClosedNot
    <3>3. OpenHolds(gpio, made, 3, c)
      BY <3>1, <3>2 DEF OpenHolds
    <3> QED
      BY <3>1, <3>3
  <2>3. 3 - OpenFirst + 1 = 3 /\ 3 \in OpenFirst..OpenLast /\ Len(made) = 0
    BY <1>1, <1>12
  <2>4. Onto(From(OpenPlan, 3 - OpenFirst + 1), made) /\ Len(made) = IF 3 >= 12 THEN 1 ELSE 0
    BY <2>1, <2>3
  <2>5. DTypeOK' /\ Stage'
    BY <1>4, <2>2, <2>3, <2>4, OpenOnto
  <2> QED
    BY <1>4, <2>1, <2>5
<1>13. CASE ~ok /\ q \in 5..11
  BY <1>2, <1>4, <1>9, <1>13
<1>14. CASE ~ok /\ q \in 12..14
  <2>1. todo' = Deletes(made) /\ failed' = TRUE /\ made' = made /\ UNCHANGED vars
    BY <1>2, <1>14
  <2>2. Pigpio' => \E c \in Closes : OpenHolds(gpio', made', 12, c)
    <3> SUFFICES ASSUME Pigpio' PROVE OpenHolds(gpio', made', 12, closed)
      OBVIOUS
    <3>1. gpio' = gpio /\ made' = made /\ OpenHolds(gpio, made, q, closed)
      BY <1>5, <1>6, <1>14, <2>1
    <3>2. OpenHolds(gpio, made, 12, closed)
      BY <1>14, <3>1 DEF OpenHolds
    <3> QED
      BY <3>1, <3>2
  <2>3. request.arg # <<>> /\ Len(made) = 1
    BY <1>1, <1>14
  <2>4. DTypeOK' /\ Stage'
    BY <1>4, <2>1, <2>2, <2>3, OpenUndoes
  <2> QED
    BY <1>4, <2>1, <2>4
<1> QED
  BY <1>1, <1>8, <1>10, <1>11, <1>12, <1>13, <1>14

\* The wave new had made is deleted, and with it the last trace of new but its
\* reader.
LEMMA OpenUndoneStep ==
  ASSUME mdb \in Port \cup {NoPort}, request \in Request, pc = "exec", request.cmd = "MDB_OPEN",
         gpio \in Gpio, made \in Seq(WaveIds), OpenUndone,
         NEW ok \in BOOLEAN, NEW w \in WaveIds,
         Takes(Call("WaveDelete", made[1], "drop"), made[1], ok, w),
         NEW closed \in Closes, Pigpio => PigpioStage /\ OpenHolds(gpio, made, 12, closed)
  PROVE  /\ DTypeOK' /\ Stage' /\ gpio'.by = gpio.by
         /\ gpio.by = "mock" => gpio' = gpio
         /\ OpenRefused /\ (Pigpio => ExecOpen)
<1> DEFINE c == Call("WaveDelete", made[1], "drop")
           x == made[1]
<1>1. /\ c.fn = "WaveDelete" /\ c.scope = "drop"
      /\ request.arg # <<>> /\ failed /\ Len(made) = 1
      /\ todo = Deletes(made) /\ Tail(todo) = <<>>
  BY DeletesSome DEF OpenUndone, Call
<1> HIDE DEF c, x
<1>2. Takes(c, x, ok, w)
  BY DEF c, x
<1>3. /\ gpio' \in Gpio /\ gpio'.by = gpio.by
      /\ gpio.by = "mock" => gpio' = gpio
  BY <1>1, <1>2, TakesKind
<1>4. Rest(c, ok) = <<>>
  BY <1>1, RestIs
<1>5. OpenRefused
  BY <1>1, <1>2, <1>4 DEF Takes, Conclude, OpenReturns, Respond, Publish, OpenRefused, OpenOver
<1>6. DTypeOK' /\ Stage'
  BY <1>3, <1>5, Returned DEF OpenRefused, OpenOver, Sends
<1>7. ASSUME Pigpio PROVE ExecOpen
  <2>1. ~mock /\ x \in gpio.waves
    BY <1>7 DEF OpenHolds, x
  <2>2. ok /\ gpio' = After(c.fn, x, w)
    <3>1. Outcomes(c.fn, x) = {x \in gpio.waves}
      BY <1>1, <1>7, <2>1, OutcomesAre
    <3>2. ok \in Outcomes(c.fn, x) /\ gpio' = IF ok THEN After(c.fn, x, w) ELSE gpio
      BY <1>2 DEF Takes
    <3> QED
      BY <2>1, <3>1, <3>2
  <2>3. /\ After(c.fn, x, w).serial = SerialAfter(c.fn, x)
        /\ After(c.fn, x, w).waves = WavesAfter(c.fn, x, w)
        /\ After(c.fn, x, w).inflight = InflightAfter(c.fn, x)
    BY <1>7, AfterEffect DEF Pigpio
  <2>4. /\ gpio'.serial = gpio.serial /\ gpio'.inflight = gpio.inflight
        /\ gpio'.waves = gpio.waves \ {made[1]}
    BY <1>1, <2>2, <2>3 DEF SerialAfter, WavesAfter, InflightAfter, x
  <2>5. OpenHolds(gpio', made, 11, closed)
    BY <1>7, <2>4 DEF OpenHolds
  <2> QED
    BY <1>1, <1>5, <2>5, OpenRefusedStep
<1> QED
  BY <1>3, <1>5, <1>6, <1>7

\* A call of MDB_OPEN.
LEMMA OpenStep ==
  ASSUME mdb \in Port \cup {NoPort}, request \in Request, pc = "exec", OpenStage,
         gpio \in Gpio, made \in Seq(WaveIds), NextCall, Pigpio => PigpioStage
  PROVE  /\ DTypeOK' /\ Stage' /\ gpio'.by = gpio.by
         /\ gpio.by = "mock" => gpio' = gpio
         /\ \/ UNCHANGED vars
            \/ OpenRefused /\ (Pigpio => ExecOpen)
            \/ /\ \E ws : OpenDone(ws) /\ ws[1] \in WaveIds /\ ws[2] \in WaveIds
               /\ request.arg # <<>> /\ (Pigpio => ExecOpen /\ ~mock)
<1>1. request.cmd = "MDB_OPEN"
  BY DEF OpenStage
<1>2. PICK ok \in BOOLEAN, w \in WaveIds :
        Takes(Head(todo), IF Head(todo).on = "made" THEN Last(made) ELSE Head(todo).on, ok, w)
  BY NextCallTakes
<1>3. PICK closed \in Closes :
       \/ \E q \in OpenFirst..OpenLast : OpenDue(q) /\ (Pigpio => OpenHolds(gpio, made, q, closed))
       \/ OpenUndone /\ (Pigpio => OpenHolds(gpio, made, 12, closed))
  BY DEF OpenStage
<1>4. ASSUME NEW q \in OpenFirst..OpenLast, OpenDue(q),
             Pigpio => OpenHolds(gpio, made, q, closed)
      PROVE  Takes(OpenCall(q), OpenCall(q).on, ok, w)
  <2>1. Head(todo) = OpenCall(q)
    BY <1>1, <1>4, OpenHead DEF OpenDue
  <2>2. OpenCall(q).on # "made"
    BY <1>1, <1>4, OpenCallIs
  <2> QED
    BY <1>2, <2>1, <2>2
<1>5. ASSUME OpenUndone
      PROVE  Takes(Call("WaveDelete", made[1], "drop"), made[1], ok, w)
  <2>1. Head(todo) = Call("WaveDelete", made[1], "drop") /\ made[1] \in WaveIds
    BY <1>5, DeletesSome DEF OpenUndone
  <2>2. Head(todo).on = made[1] /\ made[1] # "made"
    BY <2>1, GpioAssumption DEF Call
  <2> QED
    BY <1>2, <2>1, <2>2
<1>6. ASSUME NEW q \in OpenFirst..OpenLast, OpenDue(q),
             Pigpio => OpenHolds(gpio, made, q, closed)
      PROVE  /\ DTypeOK' /\ Stage' /\ gpio'.by = gpio.by
             /\ gpio.by = "mock" => gpio' = gpio
             /\ \/ UNCHANGED vars
                \/ OpenRefused /\ (Pigpio => ExecOpen)
                \/ /\ \E ws : OpenDone(ws) /\ ws[1] \in WaveIds /\ ws[2] \in WaveIds
                   /\ request.arg # <<>> /\ (Pigpio => ExecOpen /\ ~mock)
  BY <1>1, <1>4, <1>6, OpenCallStep
<1>7. CASE OpenUndone /\ (Pigpio => OpenHolds(gpio, made, 12, closed))
  BY <1>1, <1>5, <1>7, OpenUndoneStep
<1> QED
  BY <1>3, <1>6, <1>7

-----------------------------------------------------------------------------
(* MDB_TX until its wave is sent.                                          *)

LEMMA TxHead ==
  ASSUME mdb \in Port, NEW k \in 1..4, todo = From(TxPlan, k)
  PROVE  /\ todo # <<>> /\ Head(todo) = TxPlan[k] /\ Tail(todo) = From(TxPlan, k + 1)
         /\ Tail(todo) = <<>> <=> k = 4
         /\ todo \in Seq(Calls) /\ Tail(todo) \in Seq(Calls)
<1>1. TxPlan \in Seq(Calls) /\ Len(TxPlan) = 4
  BY TxPlanCalls
<1>2. /\ From(TxPlan, k) \in Seq(Calls) /\ From(TxPlan, k) # <<>>
      /\ Head(From(TxPlan, k)) = TxPlan[k]
      /\ Tail(From(TxPlan, k)) = From(TxPlan, k + 1)
  <2>1. k \in 1..Len(TxPlan)
    BY <1>1
  <2> QED
    BY <1>1, <2>1, FromStep
<1>3. CASE k = 4
  <2>1. k + 1 = Len(TxPlan) + 1
    BY <1>1, <1>3
  <2>2. From(TxPlan, k + 1) = <<>>
    BY <1>1, <2>1, FromEnd
  <2> QED
    BY <1>2, <1>3, <2>2, EmptySeq
<1>4. CASE k # 4
  <2>1. k + 1 \in 1..Len(TxPlan)
    BY <1>1, <1>4
  <2>2. From(TxPlan, k + 1) \in Seq(Calls) /\ From(TxPlan, k + 1) # <<>>
    BY <1>1, <2>1, FromStep
  <2> QED
    BY <1>2, <1>4, <2>2
<1> QED
  BY <1>3, <1>4

\* The calls of the plan, and what they are on.
LEMMA TxCallIs ==
  ASSUME mdb \in Port, NEW k \in 1..4
  PROVE  /\ TxPlan[k].fn = CASE k = 1 -> "WaveAddNew" [] k = 2 -> "WaveAddSerial"
                             [] k = 3 -> "WaveCreate" [] OTHER -> "WaveTxSend"
         /\ TxPlan[k].scope = "try"
         /\ TxPlan[k].on = "made" <=> k = 4
<1>1. /\ TxPlan[1] = Call("WaveAddNew", NoWave, "try")
      /\ TxPlan[2] = Call("WaveAddSerial", mdb.tx, "try")
      /\ TxPlan[3] = Call("WaveCreate", NoWave, "try")
      /\ TxPlan[4] = Call("WaveTxSend", "made", "try")
  BY TxPlanCalls
<1>2. NoWave # "made" /\ mdb.tx # "made"
  BY GpioAssumption DEF Port
<1> QED
  BY <1>1, <1>2 DEF Call

\* MDB_TX has failed before its wave was sent, and has been sent.
TxFailed ==
  /\ pc' = "reply" /\ status' = "ERR_HARDWARE" /\ txWave' = NoWave /\ Idle
  /\ serial' = gpio'.serial /\ waves' = gpio'.waves /\ inflight' = gpio'.inflight
  /\ UNCHANGED <<mock, running, request, high, lateSend, mdb>>
TxSent ==
  /\ pc' = "requesting" /\ txWave' = made[1] /\ made' = made
  /\ todo' = <<Busy>> /\ failed' = FALSE
  /\ serial' = gpio'.serial /\ waves' = gpio'.waves /\ inflight' = gpio'.inflight
  /\ UNCHANGED <<mock, running, request, high, lateSend, mdb, status>>

\* Where a call takes MDB_TX.
LEMMA TxMoves ==
  ASSUME mdb \in Port, pc = "exec", request.cmd = "MDB_TX", NEW k \in 1..4, TxDue(k),
         made \in Seq(WaveIds), NEW x, NEW ok \in BOOLEAN, NEW w \in WaveIds,
         Takes(TxPlan[k], x, ok, w), NEW ws, ws = IF k = 3 THEN Append(made, w) ELSE made
  PROVE  /\ ok /\ k # 4 => Onto(From(TxPlan, k + 1), ws)
         /\ ok /\ k = 4 => TxSent
         /\ ~ok /\ k # 4 => TxFailed
         /\ ~ok /\ k = 4 =>
              todo' = Deletes(made) /\ failed' = TRUE /\ made' = made /\ UNCHANGED vars
<1> DEFINE c == TxPlan[k]
           next == From(TxPlan, k + 1)
<1>1. todo = From(TxPlan, k) /\ ~failed /\ Len(made) = IF k = 4 THEN 1 ELSE 0
  BY DEF TxDue
<1>2. Tail(todo) = next /\ (next = <<>> <=> k = 4)
  BY <1>1, TxHead
<1>3. /\ c.fn = "WaveCreate" <=> k = 3
      /\ c.scope = "try"
  BY TxCallIs
<1>4. /\ ok => Rest(c, ok) = next
      /\ ~ok => Rest(c, ok) = Deletes(made)
  <2>1. /\ ok \/ c.scope = "drop" => Rest(c, ok) = Tail(todo)
        /\ ~ok /\ c.scope = "try" => Rest(c, ok) = Deletes(made)
    BY RestIs
  <2> HIDE DEF c, next
  <2> QED
    BY <1>2, <1>3, <2>1
<1>5. Takes(c, x, ok, w)
  OBVIOUS
<1> HIDE DEF c, next
<1>6. CASE ok /\ k # 4
  <2>1. Rest(c, ok) # <<>> /\ Rest(c, ok) = next
    BY <1>2, <1>4, <1>6
  <2>2. todo' = next /\ failed' = FALSE /\ made' = ws /\ UNCHANGED vars
    BY <1>1, <1>3, <1>5, <1>6, <2>1 DEF Takes
  <2> QED
    BY <1>6, <2>2 DEF Onto, next
<1>7. CASE ok /\ k = 4
  <2>1. Rest(c, ok) = <<>>
    BY <1>2, <1>4, <1>7
  <2>2. TxSent
    BY <1>1, <1>3, <1>5, <1>7, <2>1 DEF Takes, Conclude, Wait, Publish, TxSent
  <2> QED
    BY <1>7, <2>2
<1>8. CASE ~ok /\ k # 4
  <2>1. Rest(c, ok) = <<>>
    <3>1. made = <<>>
      BY <1>1, <1>8, MadeNone
    <3> QED
      BY <1>4, <1>8, <3>1, DeletesNone
  <2>2. TxFailed
    BY <1>1, <1>3, <1>5, <1>8, <2>1 DEF Takes, Conclude, TxReturns, Respond, Publish, TxFailed
  <2> QED
    BY <1>8, <2>2
<1>9. CASE ~ok /\ k = 4
  <2>1. Rest(c, ok) = Deletes(made)
    BY <1>4, <1>9
  <2>2. Deletes(made) # <<>>
    BY <1>1, <1>9, DeletesSome
  <2>3. /\ todo' = Deletes(made) /\ failed' = (failed \/ (~ok /\ c.scope = "try"))
        /\ made' = made /\ UNCHANGED vars
    BY <1>5, <1>9, <2>1, <2>2 DEF Takes
  <2>4. failed' = TRUE
    BY <1>3, <1>9, <2>3
  <2> QED
    BY <1>9, <2>3, <2>4
<1> QED
  BY <1>6, <1>7, <1>8, <1>9 DEF next

\* MDB_TX goes on at call k.
LEMMA TxOnto ==
  ASSUME mdb \in Port, mdb # NoPort, ~mock, request.arg = <<"fits">>, pc = "exec",
         request.cmd = "MDB_TX", NEW k \in 1..4, NEW ws \in Seq(WaveIds), gpio' \in Gpio,
         Len(ws) = IF k = 4 THEN 1 ELSE 0, Onto(From(TxPlan, k), ws), Pigpio' => TxHolds'
  PROVE  DTypeOK' /\ Stage'
<1>1. todo' = From(TxPlan, k) /\ failed' = FALSE /\ made' = ws /\ UNCHANGED vars
  BY DEF Onto
<1>2. TxPlan' = TxPlan
  BY <1>1 DEF TxPlan, vars
<1>3. todo' \in Seq(Calls) /\ todo' # <<>>
  <2>1. TxPlan \in Seq(Calls) /\ k \in 1..Len(TxPlan)
    BY TxPlanCalls
  <2> QED
    BY <1>1, <2>1, FromStep
<1>4. TxDue(k)'
  BY <1>1, <1>2 DEF TxDue
<1>5. TxStage'
  BY <1>1, <1>4 DEF TxStage, vars
<1> QED
  BY <1>1, <1>3, <1>5 DEF DTypeOK, Stage, Sends, vars

LEMMA TxUndoes ==
  ASSUME mdb # NoPort, ~mock, request.arg = <<"fits">>, pc = "exec", request.cmd = "MDB_TX",
         made \in Seq(WaveIds), Len(made) = 1, gpio' \in Gpio,
         todo' = Deletes(made) /\ failed' = TRUE /\ made' = made /\ UNCHANGED vars,
         Pigpio' => TxHolds'
  PROVE  DTypeOK' /\ Stage'
<1>1. todo' \in Seq(Calls) /\ todo' # <<>> /\ Deletes(made)' = Deletes(made)
  BY DeletesSome DEF Deletes
<1>2. TxUndone'
  BY <1>1 DEF TxUndone
<1>3. TxStage'
  BY <1>2 DEF TxStage, vars
<1> QED
  BY <1>1, <1>3 DEF DTypeOK, Stage, Sends, vars

\* What a call of MDB_TX does to pigpio, without and with a wave.
LEMMA TxEffect ==
  ASSUME Pigpio, gpio \in Gpio, made \in Seq(WaveIds), mdb \in Port, ~mock, TxHolds,
         NEW k \in 1..4, Len(made) = IF k = 4 THEN 1 ELSE 0,
         NEW x, k = 4 => x = made[1], NEW ok \in BOOLEAN, NEW w \in WaveIds,
         Takes(TxPlan[k], x, ok, w)
  PROVE  /\ ~ok => gpio' = gpio
         /\ ok => /\ gpio'.serial = serial
                  /\ k = 3 => gpio'.waves = waves \cup {w}
                  /\ k = 4 => gpio'.waves = waves \cup {made[1]}
                  /\ k \in 1..2 => gpio'.waves = waves
                  /\ k = 4 => gpio'.inflight = inflight \cup {made[1]}
                  /\ k # 4 => gpio'.inflight = inflight
         /\ ok /\ k = 3 => w \notin waves
         /\ k = 4 => made[1] \notin waves
<1> DEFINE f == TxPlan[k].fn
<1>1. f = CASE k = 1 -> "WaveAddNew" [] k = 2 -> "WaveAddSerial"
            [] k = 3 -> "WaveCreate" [] OTHER -> "WaveTxSend"
  BY TxCallIs
<1>2. /\ ok \in Outcomes(f, x)
      /\ f = "WaveCreate" /\ ok => w \in NewIds
      /\ gpio' = IF ok THEN After(f, x, w) ELSE gpio
  BY DEF Takes
<1> HIDE DEF f
<1>3. /\ After(f, x, w).serial = SerialAfter(f, x)
      /\ After(f, x, w).waves = WavesAfter(f, x, w)
      /\ After(f, x, w).inflight = InflightAfter(f, x)
  BY AfterEffect DEF Pigpio
<1>4. NewIds = WaveIds \ gpio.waves
  BY OutcomesAre
<1>5. /\ gpio.serial = serial /\ gpio.inflight = inflight
      /\ k # 4 => gpio.waves = waves
      /\ k = 4 => gpio.waves = waves \cup {made[1]} /\ made[1] \notin waves
  <2>1. k # 4 => made = <<>>
    BY MadeNone
  <2>2. k = 4 => made # <<>>
    BY MadeOne
  <2> QED
    BY <2>1, <2>2 DEF TxHolds
<1>6. ASSUME ok PROVE /\ gpio'.serial = serial
                      /\ k = 3 => gpio'.waves = waves \cup {w}
                      /\ k = 4 => gpio'.waves = waves \cup {made[1]}
                      /\ k \in 1..2 => gpio'.waves = waves
                      /\ k = 4 => gpio'.inflight = inflight \cup {made[1]}
                      /\ k # 4 => gpio'.inflight = inflight
  <2>1. gpio' = After(f, x, w)
    BY <1>2, <1>6
  <2>2. gpio'.serial = serial
    BY <1>1, <1>3, <1>5, <2>1 DEF SerialAfter
  <2>3. CASE k = 4
    <3>1. f = "WaveTxSend" /\ x = made[1]
      BY <1>1, <2>3
    <3> QED
      BY <1>3, <1>5, <2>1, <2>2, <2>3, <3>1 DEF WavesAfter, InflightAfter
  <2>4. CASE k # 4
    BY <1>1, <1>3, <1>5, <2>1, <2>2, <2>4 DEF WavesAfter, InflightAfter
  <2> QED
    BY <2>3, <2>4
<1>7. ok /\ k = 3 => w \notin waves
  BY <1>1, <1>2, <1>4, <1>5
<1> QED
  BY <1>2, <1>5, <1>6, <1>7

\* A call of MDB_TX, in either build.
LEMMA TxCallStep ==
  ASSUME mdb \in Port, mdb # NoPort, ~mock, request.arg = <<"fits">>, pc = "exec",
         request.cmd = "MDB_TX", gpio \in Gpio, made \in Seq(WaveIds),
         NEW k \in 1..4, TxDue(k), NEW ok \in BOOLEAN, NEW w \in WaveIds,
         Takes(TxPlan[k], IF TxPlan[k].on = "made" THEN Last(made) ELSE TxPlan[k].on, ok, w),
         Pigpio => PigpioStage /\ TxHolds
  PROVE  /\ DTypeOK' /\ Stage' /\ gpio'.by = gpio.by
         /\ gpio.by = "mock" => gpio' = gpio
         /\ \/ UNCHANGED vars
            \/ TxFailed /\ (Pigpio => TxBegin)
            \/ Pigpio /\ TxSent /\ TxBegin
<1> DEFINE x == IF TxPlan[k].on = "made" THEN Last(made) ELSE TxPlan[k].on
           ws == IF k = 3 THEN Append(made, w) ELSE made
<1>1. Len(made) = IF k = 4 THEN 1 ELSE 0
  BY DEF TxDue
<1>2. /\ TxPlan[k].fn = CASE k = 1 -> "WaveAddNew" [] k = 2 -> "WaveAddSerial"
                          [] k = 3 -> "WaveCreate" [] OTHER -> "WaveTxSend"
      /\ k = 4 => x = made[1] /\ made[1] \in WaveIds /\ made = <<made[1]>>
  <2>1. TxPlan[k].on = "made" <=> k = 4
    BY TxCallIs
  <2>2. k = 4 => Last(made) = made[1] /\ made[1] \in WaveIds /\ made = <<made[1]>>
    BY <1>1, MadeOne
  <2> QED
    BY <2>1, <2>2, TxCallIs
<1>3. Takes(TxPlan[k], x, ok, w)
  OBVIOUS
<1> HIDE DEF x
<1>4. /\ ok /\ k # 4 => Onto(From(TxPlan, k + 1), ws)
      /\ ok /\ k = 4 => TxSent
      /\ ~ok /\ k # 4 => TxFailed
      /\ ~ok /\ k = 4 =>
           todo' = Deletes(made) /\ failed' = TRUE /\ made' = made /\ UNCHANGED vars
  BY <1>3, TxMoves
<1>5. /\ gpio' \in Gpio /\ gpio'.by = gpio.by
      /\ gpio.by = "mock" => gpio' = gpio
  <2>1. TxPlan[k].fn # "SerialReadOpen" /\ (TxPlan[k].fn = "WaveTxSend" => x \in WaveIds)
    BY <1>2
  <2> QED
    BY <1>3, <2>1, TakesKind
<1>6. Pigpio' <=> Pigpio
  BY <1>5 DEF Pigpio
<1>7. ASSUME Pigpio
      PROVE  /\ ~ok => gpio' = gpio
             /\ ok => /\ gpio'.serial = serial
                      /\ k = 3 => gpio'.waves = waves \cup {w}
                      /\ k = 4 => gpio'.waves = waves \cup {made[1]}
                      /\ k \in 1..2 => gpio'.waves = waves
                      /\ k = 4 => gpio'.inflight = inflight \cup {made[1]}
                      /\ k # 4 => gpio'.inflight = inflight
             /\ ok /\ k = 3 => w \notin waves
             /\ k = 4 => made[1] \notin waves
  <2>1. TxHolds
    BY <1>7
  <2>2. k = 4 => x = made[1]
    BY <1>2
  <2> QED
    BY <1>1, <1>3, <1>7, <2>1, <2>2, TxEffect
<1>8. CASE ok /\ k # 4
  <2>1. Onto(From(TxPlan, k + 1), ws) /\ UNCHANGED vars /\ made' = ws
    BY <1>4, <1>8 DEF Onto
  <2>2. /\ ws \in Seq(WaveIds)
        /\ Len(ws) = IF k + 1 = 4 THEN 1 ELSE 0
        /\ k = 3 => ws = <<w>> /\ ws[1] = w
        /\ k # 3 => ws = <<>>
    <3>1. made = <<>>
      BY <1>1, <1>8, MadeNone
    <3> QED
      BY <1>1, <1>8, <3>1, AppendNone
  <2>3. Pigpio' => TxHolds'
    <3> SUFFICES ASSUME Pigpio' PROVE TxHolds'
      OBVIOUS
    <3>1. /\ gpio'.serial = serial /\ gpio'.inflight = inflight
          /\ k = 3 => gpio'.waves = waves \cup {w} /\ w \notin waves
          /\ k # 3 => gpio'.waves = waves
      BY <1>6, <1>7, <1>8
    <3>2. k = 3 => made' # <<>> /\ made'[1] = w
      BY <2>1, <2>2
    <3> QED
      BY <2>1, <2>2, <3>1, <3>2 DEF TxHolds, vars
  <2>4. k + 1 \in 1..4
    BY <1>8
  <2>5. DTypeOK' /\ Stage'
    BY <1>5, <2>1, <2>2, <2>3, <2>4, TxOnto
  <2> QED
    BY <1>5, <2>1, <2>5
<1>9. CASE ok /\ k = 4
  <2>1. TxSent
    BY <1>4, <1>9
  <2>2. Pigpio
    <3>1. ok \in Outcomes("WaveTxSend", x)
      <4>1. TxPlan[k].fn = "WaveTxSend"
        BY <1>2, <1>9
      <4>2. ok \in Outcomes(TxPlan[k].fn, x)
        BY <1>3 DEF Takes
      <4> QED
        BY <4>1, <4>2
    <3>2. gpio.by = "mock" => Outcomes("WaveTxSend", x) = {FALSE}
      BY DEF Outcomes, MockFails
    <3>3. gpio.by \in {"pigpio", "mock"}
      BY GpioAssumption DEF Gpio
    <3> QED
      BY <1>9, <3>1, <3>2, <3>3 DEF Pigpio
  <2>3. /\ gpio'.serial = serial /\ gpio'.waves = waves \cup {made[1]}
        /\ gpio'.inflight = inflight \cup {made[1]} /\ made[1] \notin waves
    BY <1>7, <1>9, <2>2
  <2>4. /\ pc' = "requesting" /\ txWave' = made[1] /\ made' = made
        /\ todo' = <<Busy>> /\ failed' = FALSE
        /\ serial' = gpio'.serial /\ waves' = gpio'.waves /\ inflight' = gpio'.inflight
        /\ UNCHANGED <<mock, running, request, high, lateSend, mdb, status>>
    BY <2>1 DEF TxSent
  <2>5. made[1] \in WaveIds \ waves
    BY <1>2, <1>9, <2>3
  <2>6. TxBegin
    BY <2>3, <2>4, <2>5 DEF TxBegin, Exec, server
  <2>7. Busy \in Calls
    BY DEF Busy, Call, Calls
  <2>8. todo' \in Seq(Calls) /\ todo' # <<>>
    BY <2>4, <2>7, One
  <2>9. SendStage'
    BY <1>2, <1>9, <2>4 DEF SendStage, Agree
  <2> QED
    BY <1>5, <2>1, <2>2, <2>4, <2>6, <2>8, <2>9 DEF DTypeOK, Stage, Sends
<1>10. CASE ~ok /\ k # 4
  <2>1. TxFailed
    BY <1>4, <1>10
  <2>2. DTypeOK' /\ Stage'
    BY <1>5, <2>1, Returned DEF TxFailed, Sends
  <2>3. ASSUME Pigpio PROVE TxBegin
    <3>1. made = <<>> /\ gpio' = gpio
      BY <1>1, <1>7, <1>10, <2>3, MadeNone
    <3>2. gpio.serial = serial /\ gpio.waves = waves /\ gpio.inflight = inflight
      BY <2>3, <3>1 DEF TxHolds
    <3>3. txWave = NoWave
      BY <2>3 DEF PigpioStage, ServerInv, Control, Sends
    <3> QED
      BY <2>1, <3>1, <3>2, <3>3 DEF TxFailed, TxBegin, Exec, Respond, server
  <2> QED
    BY <1>5, <2>1, <2>2, <2>3
<1>11. CASE ~ok /\ k = 4
  <2>1. todo' = Deletes(made) /\ failed' = TRUE /\ made' = made /\ UNCHANGED vars
    BY <1>4, <1>11
  <2>2. Len(made) = 1
    BY <1>1, <1>11
  <2>3. Pigpio' => TxHolds'
    <3>1. Pigpio => gpio' = gpio /\ TxHolds
      BY <1>7, <1>11
    <3> QED
      BY <1>6, <2>1, <3>1 DEF TxHolds, vars
  <2>4. DTypeOK' /\ Stage'
    BY <1>5, <2>1, <2>2, <2>3, TxUndoes
  <2> QED
    BY <1>5, <2>1, <2>4
<1> QED
  BY <1>8, <1>9, <1>10, <1>11

\* The next call deletes the wave that was made.
LEMMA DeleteTaken ==
  ASSUME made \in Seq(WaveIds), Len(made) = 1, todo = Deletes(made), NextCall
  PROVE  \E ok \in BOOLEAN, w \in WaveIds :
           Takes(Call("WaveDelete", made[1], "drop"), made[1], ok, w)
<1>1. PICK ok \in BOOLEAN, w \in WaveIds :
        Takes(Head(todo), IF Head(todo).on = "made" THEN Last(made) ELSE Head(todo).on, ok, w)
  BY NextCallTakes
<1>2. Head(todo) = Call("WaveDelete", made[1], "drop") /\ made[1] \in WaveIds
  BY DeletesSome
<1>3. Head(todo).on = made[1] /\ made[1] # "made"
  BY <1>2, GpioAssumption DEF Call
<1>4. Takes(Call("WaveDelete", made[1], "drop"), made[1], ok, w)
  BY <1>1, <1>2, <1>3
<1> QED
  BY <1>4

\* Deleting a wave that is there succeeds.
LEMMA DeleteEffect ==
  ASSUME gpio \in Gpio, made \in Seq(WaveIds), Len(made) = 1, todo = Deletes(made),
         NEW ok \in BOOLEAN, NEW w \in WaveIds,
         Takes(Call("WaveDelete", made[1], "drop"), made[1], ok, w)
  PROVE  /\ gpio' \in Gpio /\ gpio'.by = gpio.by
         /\ gpio.by = "mock" => gpio' = gpio
         /\ Pigpio /\ ~mock /\ made[1] \in gpio.waves =>
              /\ gpio'.serial = gpio.serial /\ gpio'.inflight = gpio.inflight
              /\ gpio'.waves = gpio.waves \ {made[1]}
         /\ Rest(Call("WaveDelete", made[1], "drop"), ok) = <<>>
<1> DEFINE c == Call("WaveDelete", made[1], "drop")
           x == made[1]
<1>1. c.fn = "WaveDelete" /\ c.scope = "drop" /\ Tail(todo) = <<>>
  BY DeletesSome DEF Call
<1>2. Takes(c, x, ok, w)
  OBVIOUS
<1>3. /\ ok \in Outcomes(c.fn, x)
      /\ gpio' = IF ok THEN After(c.fn, x, w) ELSE gpio
  BY <1>2 DEF Takes
<1> HIDE DEF c, x
<1>4. /\ gpio' \in Gpio /\ gpio'.by = gpio.by
      /\ gpio.by = "mock" => gpio' = gpio
  BY <1>1, <1>2, TakesKind
<1>5. Rest(c, ok) = <<>>
  BY <1>1, RestIs
<1>6. ASSUME Pigpio, ~mock, x \in gpio.waves
      PROVE  /\ gpio'.serial = gpio.serial /\ gpio'.inflight = gpio.inflight
             /\ gpio'.waves = gpio.waves \ {x}
  <2>1. Outcomes(c.fn, x) = {x \in gpio.waves}
    BY <1>1, <1>6, OutcomesAre
  <2>2. gpio' = After(c.fn, x, w)
    BY <1>3, <1>6, <2>1
  <2>3. /\ After(c.fn, x, w).serial = SerialAfter(c.fn, x)
        /\ After(c.fn, x, w).waves = WavesAfter(c.fn, x, w)
        /\ After(c.fn, x, w).inflight = InflightAfter(c.fn, x)
    BY <1>6, AfterEffect DEF Pigpio
  <2> QED
    BY <1>1, <2>2, <2>3 DEF SerialAfter, WavesAfter, InflightAfter
<1> QED
  BY <1>4, <1>5, <1>6 DEF c, x

LEMMA TxUndoneStep ==
  ASSUME pc = "exec", request.cmd = "MDB_TX", request.arg = <<"fits">>, mdb # NoPort, ~mock,
         gpio \in Gpio, made \in Seq(WaveIds), TxUndone, NextCall,
         Pigpio => PigpioStage /\ TxHolds
  PROVE  /\ DTypeOK' /\ Stage' /\ gpio'.by = gpio.by
         /\ gpio.by = "mock" => gpio' = gpio
         /\ TxFailed /\ (Pigpio => TxBegin)
<1>1. Len(made) = 1 /\ todo = Deletes(made) /\ failed
  BY DEF TxUndone
<1>2. PICK ok \in BOOLEAN, w \in WaveIds :
        Takes(Call("WaveDelete", made[1], "drop"), made[1], ok, w)
  BY <1>1, DeleteTaken
<1>3. /\ gpio' \in Gpio /\ gpio'.by = gpio.by
      /\ gpio.by = "mock" => gpio' = gpio
      /\ Pigpio /\ made[1] \in gpio.waves =>
           /\ gpio'.serial = gpio.serial /\ gpio'.inflight = gpio.inflight
           /\ gpio'.waves = gpio.waves \ {made[1]}
      /\ Rest(Call("WaveDelete", made[1], "drop"), ok) = <<>>
  BY <1>1, <1>2, DeleteEffect
<1>4. TxFailed
  BY <1>1, <1>2, <1>3 DEF Takes, Conclude, TxReturns, Respond, Publish, TxFailed
<1>5. DTypeOK' /\ Stage'
  BY <1>3, <1>4, Returned DEF TxFailed, Sends
<1>6. ASSUME Pigpio PROVE TxBegin
  <2>1. /\ gpio.serial = serial /\ gpio.inflight = inflight
        /\ gpio.waves = waves \cup {made[1]} /\ made[1] \notin waves
    BY <1>1, <1>6, MadeOne DEF TxHolds
  <2>2. gpio'.serial = serial /\ gpio'.inflight = inflight /\ gpio'.waves = waves
    BY <1>3, <1>6, <2>1
  <2>3. txWave = NoWave
    BY <1>6 DEF PigpioStage, ServerInv, Control, Sends
  <2> QED
    BY <1>4, <2>2, <2>3 DEF TxFailed, TxBegin, Exec, Respond, server
<1> QED
  BY <1>3, <1>4, <1>5, <1>6

\* A call of MDB_TX before its wave is sent.
LEMMA TxStep ==
  ASSUME mdb \in Port \cup {NoPort}, pc = "exec", TxStage, gpio \in Gpio,
         made \in Seq(WaveIds), NextCall, Pigpio => PigpioStage
  PROVE  /\ DTypeOK' /\ Stage' /\ gpio'.by = gpio.by
         /\ gpio.by = "mock" => gpio' = gpio
         /\ \/ UNCHANGED vars
            \/ TxFailed /\ (Pigpio => TxBegin)
            \/ Pigpio /\ TxSent /\ TxBegin
<1>1. /\ request.cmd = "MDB_TX" /\ mdb # NoPort /\ ~mock /\ request.arg = <<"fits">>
      /\ mdb \in Port /\ (Pigpio => PigpioStage /\ TxHolds)
  BY DEF TxStage
<1>2. ASSUME NEW k \in 1..4, TxDue(k)
      PROVE  /\ DTypeOK' /\ Stage' /\ gpio'.by = gpio.by
             /\ gpio.by = "mock" => gpio' = gpio
             /\ \/ UNCHANGED vars
                \/ TxFailed /\ (Pigpio => TxBegin)
                \/ Pigpio /\ TxSent /\ TxBegin
  <2>1. PICK ok \in BOOLEAN, w \in WaveIds :
          Takes(Head(todo), IF Head(todo).on = "made" THEN Last(made) ELSE Head(todo).on, ok, w)
    BY NextCallTakes
  <2>2. Head(todo) = TxPlan[k]
    BY <1>1, <1>2, TxHead DEF TxDue
  <2>3. Takes(TxPlan[k], IF TxPlan[k].on = "made" THEN Last(made) ELSE TxPlan[k].on, ok, w)
    BY <2>1, <2>2
  <2> QED
    BY <1>1, <1>2, <2>3, TxCallStep
<1>3. CASE TxUndone
  BY <1>1, <1>3, TxUndoneStep
<1>4. TxUndone \/ \E k \in 1..4 : TxDue(k)
  BY DEF TxStage
<1> QED
  BY <1>2, <1>3, <1>4

-----------------------------------------------------------------------------
(* MDB_TX, waiting for pigpio.                                             *)

LEMMA Singles ==
  ASSUME mdb \in Port
  PROVE  /\ <<Busy>> \in Seq(Calls) /\ <<Busy>> # <<>>
         /\ <<Poll>> \in Seq(Calls) /\ <<Poll>> # <<>>
         /\ <<TxStop("try")>> \in Seq(Calls) /\ TxStop("try") \in Calls
         /\ <<Send(mdb.ack)>> \in Seq(Calls) /\ <<Send(mdb.ack)>> # <<>>
         /\ <<Send(mdb.nak)>> \in Seq(Calls) /\ <<Send(mdb.nak)>> # <<>>
<1>1. /\ Busy \in Calls /\ Poll \in Calls /\ TxStop("try") \in Calls
      /\ Send(mdb.ack) \in Calls /\ Send(mdb.nak) \in Calls
  <2>1. mdb.ack \in WaveIds /\ mdb.nak \in WaveIds
    BY DEF Port
  <2> QED
    BY <2>1 DEF Busy, Poll, TxStop, Send, Call, Calls
<1> QED
  BY <1>1, One

\* What the running tx holds: a wave of its own, a port, pigpio.
LEMMA TxRuns ==
  ASSUME PigpioStage, pc \in Sends \cup {"receiving"}, made = <<txWave>>
  PROVE  /\ mdb \in Port /\ mdb # NoPort /\ ~mock /\ request.cmd = "MDB_TX"
         /\ txWave \in WaveIds /\ txWave # NoWave /\ txWave \in waves
         /\ made \in Seq(WaveIds) /\ Len(made) = 1 /\ made[1] = txWave
         /\ mdb.ack # mdb.nak
<1>1. mdb # NoPort /\ request.cmd = "MDB_TX" /\ txWave # NoWave
  BY DEF PigpioStage, ServerInv, Control
<1>2. mdb \in Port /\ txWave \in WaveIds /\ ~mock
  BY <1>1 DEF PigpioStage, TypeOK
<1>3. txWave \in waves /\ mdb.ack # mdb.nak
  BY <1>1 DEF PigpioStage, ServerInv, WavesOwned, TxWaves
<1> QED
  BY <1>1, <1>2, <1>3, One

\* The wave of tx is deleted, and tx returns: after a send that was given up or
\* seen to its end.
LEMMA SendEnds ==
  ASSUME Pigpio, PigpioStage, pc \in Sends, gpio \in Gpio, made = <<txWave>>, Agree, NextCall,
         todo = Deletes(made), failed \in BOOLEAN,
         failed \/ (pc # "requesting" /\ inflight = {})
  PROVE  DTypeOK' /\ Stage' /\ gpio'.by = gpio.by /\ (SendDone \/ SendGivenUp)
<1>1. /\ mdb # NoPort /\ ~mock /\ request.cmd = "MDB_TX"
      /\ txWave \in WaveIds /\ txWave # NoWave /\ txWave \in waves
      /\ made \in Seq(WaveIds) /\ Len(made) = 1 /\ made[1] = txWave
  BY TxRuns
<1>2. PICK ok \in BOOLEAN, w \in WaveIds :
        Takes(Call("WaveDelete", made[1], "drop"), made[1], ok, w)
  BY <1>1, DeleteTaken
<1>3. /\ gpio' \in Gpio /\ gpio'.by = gpio.by
      /\ Pigpio /\ ~mock /\ made[1] \in gpio.waves =>
           /\ gpio'.serial = gpio.serial /\ gpio'.inflight = gpio.inflight
           /\ gpio'.waves = gpio.waves \ {made[1]}
      /\ Rest(Call("WaveDelete", made[1], "drop"), ok) = <<>>
  BY <1>1, <1>2, DeleteEffect
<1>4. /\ gpio'.serial = serial /\ gpio'.inflight = inflight
      /\ gpio'.waves = waves \ TxWaves
  BY <1>1, <1>3 DEF Agree, TxWaves
<1> DEFINE c == Call("WaveDelete", made[1], "drop")
<1>5. c.fn = "WaveDelete" /\ c.scope = "drop" /\ Rest(c, ok) = <<>> /\ Takes(c, made[1], ok, w)
  BY <1>2, <1>3 DEF Call
<1> HIDE DEF c
<1>6. /\ pc' = "reply" /\ Idle /\ txWave' = NoWave
      /\ serial' = gpio'.serial /\ waves' = gpio'.waves /\ inflight' = gpio'.inflight
      /\ UNCHANGED <<mock, running, request, high, mdb>>
      /\ status' = IF ~failed /\ pc = "acking" THEN "OK" ELSE "ERR_HARDWARE"
      /\ lateSend' = failed
  <2>1. CASE pc = "requesting"
    BY <1>1, <1>5, <2>1 DEF Takes, Conclude, TxReturns, Respond, Publish
  <2>2. CASE pc # "requesting"
    BY <1>1, <1>5, <2>2 DEF Takes, Conclude, TxReturns, Respond, Publish, Sends
  <2> QED
    BY <2>1, <2>2
<1>7. DTypeOK' /\ Stage'
  BY <1>3, <1>6, Returned DEF Sends
<1>8. CASE failed
  <2>1. lateSend' = TRUE
    BY <1>6, <1>8
  <2>2. /\ pc' = "reply" /\ txWave' = NoWave /\ status' = "ERR_HARDWARE"
        /\ serial' = serial /\ waves' = waves \ TxWaves /\ inflight' = inflight
        /\ UNCHANGED <<mock, running, request, high, mdb>>
    BY <1>4, <1>6, <1>8
  <2> QED
    BY <1>3, <1>7, <2>1, <2>2 DEF SendGivenUp, TxReturn, Respond, server
<1>9. CASE ~failed
  <2>1. lateSend' = FALSE
    BY <1>6, <1>9
  <2>2. /\ pc' = "reply" /\ txWave' = NoWave
        /\ status' = IF pc = "acking" THEN "OK" ELSE "ERR_HARDWARE"
        /\ serial' = serial /\ waves' = waves \ TxWaves /\ inflight' = inflight
        /\ UNCHANGED <<mock, running, request, high, mdb>>
    BY <1>4, <1>6, <1>9
  <2> QED
    BY <1>3, <1>7, <1>9, <2>1, <2>2 DEF SendDone, TxReturn, Respond, server, Sends
<1> QED
  BY <1>3, <1>7, <1>8, <1>9

\* The transmission is stopped: the request is sent, or the ACK or NAK.
LEMMA SendStops ==
  ASSUME Pigpio, PigpioStage, pc \in Sends, gpio \in Gpio, made = <<txWave>>, Agree, NextCall,
         todo = <<TxStop("try")>> \o (IF pc = "requesting" THEN <<>> ELSE Deletes(made)),
         ~failed, inflight = {}
  PROVE  /\ DTypeOK' /\ Stage' /\ gpio'.by = gpio.by
         /\ UNCHANGED vars \/ SendDone
<1>1. /\ mdb \in Port /\ mdb # NoPort /\ ~mock /\ request.cmd = "MDB_TX"
      /\ made \in Seq(WaveIds) /\ Len(made) = 1
  BY TxRuns
<1>2. /\ Deletes(made) \in Seq(Calls) /\ Deletes(made) # <<>>
      /\ <<TxStop("try")>> \in Seq(Calls) /\ TxStop("try") \in Calls
      /\ <<Poll>> \in Seq(Calls) /\ <<Poll>> # <<>>
  BY <1>1, DeletesSome, Singles
<1> DEFINE c == TxStop("try")
           rest == IF pc = "requesting" THEN <<>> ELSE Deletes(made)
<1>3. c.fn = "WaveTxStop" /\ c.scope = "try" /\ c.on # "made"
  BY GpioAssumption DEF TxStop, Call
<1>4. rest \in Seq(Calls) /\ c \in Calls /\ todo = <<c>> \o rest
  BY <1>2, EmptySeq
<1> HIDE DEF c, rest
<1>5. Head(todo) = c /\ Tail(todo) = rest
  BY <1>4, SMTT(30)
<1>6. PICK ok \in BOOLEAN, w \in WaveIds : Takes(c, c.on, ok, w)
  <2>1. PICK ok \in BOOLEAN, w \in WaveIds :
          Takes(Head(todo), IF Head(todo).on = "made" THEN Last(made) ELSE Head(todo).on, ok, w)
    BY NextCallTakes
  <2> QED
    BY <1>3, <1>5, <2>1
<1>7. gpio' \in Gpio /\ gpio'.by = gpio.by
  BY <1>3, <1>6, TakesKind
<1>8. gpio'.serial = serial /\ gpio'.waves = waves /\ gpio'.inflight = inflight
  <2>1. gpio' = IF ok THEN After(c.fn, c.on, w) ELSE gpio
    BY <1>6 DEF Takes
  <2>2. /\ After(c.fn, c.on, w).serial = SerialAfter(c.fn, c.on)
        /\ After(c.fn, c.on, w).waves = WavesAfter(c.fn, c.on, w)
        /\ After(c.fn, c.on, w).inflight = InflightAfter(c.fn, c.on)
    BY AfterEffect DEF Pigpio
  <2> QED
    BY <1>3, <2>1, <2>2 DEF SerialAfter, WavesAfter, InflightAfter, Agree
<1>9. Rest(c, ok) = IF ok THEN rest ELSE Deletes(made)
  <2>1. /\ ok \/ c.scope = "drop" => Rest(c, ok) = Tail(todo)
        /\ ~ok /\ c.scope = "try" => Rest(c, ok) = Deletes(made)
    BY RestIs
  <2> QED
    BY <1>3, <1>5, <2>1
<1>10. CASE ok /\ pc = "requesting"
  <2>1. Rest(c, ok) = <<>>
    BY <1>9, <1>10 DEF rest
  <2>2. /\ pc' = "receiving" /\ todo' = <<Poll>> /\ failed' = FALSE
        /\ serial' = gpio'.serial /\ waves' = gpio'.waves /\ inflight' = gpio'.inflight
        /\ lateSend' = FALSE
        /\ UNCHANGED <<mock, running, request, high, mdb, status, txWave, made>>
    BY <1>1, <1>3, <1>6, <1>10, <2>1 DEF Takes, Conclude, Wait, Publish
  <2>3. SendDone
    BY <1>8, <1>10, <2>2 DEF SendDone, server, Sends
  <2>4. ReceiveStage'
    BY <2>2 DEF ReceiveStage, Agree
  <2>5. DTypeOK' /\ Stage'
    BY <1>1, <1>2, <1>7, <2>2, <2>4 DEF DTypeOK, Stage, Sends
  <2> QED
    BY <1>7, <2>3, <2>5
<1>11. CASE ~(ok /\ pc = "requesting")
  <2>1. Rest(c, ok) = Deletes(made)
    BY <1>9, <1>11 DEF rest
  <2>2. /\ todo' = Deletes(made) /\ failed' = (failed \/ (~ok /\ c.scope = "try"))
        /\ made' = made /\ UNCHANGED vars
    BY <1>2, <1>3, <1>6, <2>1 DEF Takes
  <2>3. failed' = ~ok
    BY <1>3, <2>2
  <2>4. Deletes(made)' = Deletes(made)
    BY <2>2 DEF Deletes
  <2>5. SendStage'
    BY <1>8, <1>11, <2>2, <2>3, <2>4 DEF SendStage, Agree, vars, Sends
  <2>6. DTypeOK' /\ Stage'
    BY <1>1, <1>2, <1>7, <2>2, <2>3, <2>5 DEF DTypeOK, Stage, Sends, vars
  <2> QED
    BY <1>7, <2>2, <2>6
<1> QED
  BY <1>10, <1>11

\* A call while MDB_TX sends.
LEMMA SendStep ==
  ASSUME Pigpio, PigpioStage, pc \in Sends, SendStage, gpio \in Gpio, failed \in BOOLEAN, NextCall
  PROVE  /\ DTypeOK' /\ Stage' /\ gpio'.by = gpio.by
         /\ UNCHANGED vars \/ SendDone \/ SendGivenUp
<1>1. todo # <<Busy>>
  <2>1. Head(todo) \notin {Busy, Poll}
    BY DEF NextCall
  <2> QED
    BY <2>1
<1> QED
  BY <1>1, SendEnds, SendStops DEF SendStage

\* tx deletes its wave and returns, having received or failed to.
LEMMA ReceiveEnds ==
  ASSUME Pigpio, PigpioStage, pc = "receiving", gpio \in Gpio, made = <<txWave>>, Agree, NextCall,
         todo = Deletes(made), failed \in BOOLEAN
  PROVE  DTypeOK' /\ Stage' /\ gpio'.by = gpio.by /\ Received
<1>1. /\ mdb # NoPort /\ ~mock /\ request.cmd = "MDB_TX"
      /\ txWave \in WaveIds /\ txWave # NoWave /\ txWave \in waves
      /\ made \in Seq(WaveIds) /\ Len(made) = 1 /\ made[1] = txWave
  BY TxRuns
<1>2. PICK ok \in BOOLEAN, w \in WaveIds :
        Takes(Call("WaveDelete", made[1], "drop"), made[1], ok, w)
  BY <1>1, DeleteTaken
<1>3. /\ gpio' \in Gpio /\ gpio'.by = gpio.by
      /\ Pigpio /\ ~mock /\ made[1] \in gpio.waves =>
           /\ gpio'.serial = gpio.serial /\ gpio'.inflight = gpio.inflight
           /\ gpio'.waves = gpio.waves \ {made[1]}
      /\ Rest(Call("WaveDelete", made[1], "drop"), ok) = <<>>
  BY <1>1, <1>2, DeleteEffect
<1>4. /\ gpio'.serial = serial /\ gpio'.inflight = inflight
      /\ gpio'.waves = waves \ TxWaves
  BY <1>1, <1>3 DEF Agree, TxWaves
<1> DEFINE c == Call("WaveDelete", made[1], "drop")
<1>5. c.fn = "WaveDelete" /\ c.scope = "drop" /\ Rest(c, ok) = <<>> /\ Takes(c, made[1], ok, w)
  BY <1>2, <1>3 DEF Call
<1> HIDE DEF c
<1>6. /\ pc' = "reply" /\ Idle /\ txWave' = NoWave
      /\ serial' = gpio'.serial /\ waves' = gpio'.waves /\ inflight' = gpio'.inflight
      /\ UNCHANGED <<mock, running, request, high, lateSend, mdb>>
      /\ status' = IF failed THEN "ERR_HARDWARE" ELSE "OK"
  BY <1>1, <1>5 DEF Takes, Conclude, TxReturns, Respond, Publish
<1>7. DTypeOK' /\ Stage'
  BY <1>3, <1>6, Returned DEF Sends
<1>8. Received
  <2>1. PICK s \in {"OK", "ERR_HARDWARE"} : status' = s
    BY <1>6
  <2>2. TxReturn(s)
    BY <1>4, <1>6, <2>1 DEF TxReturn, Respond
  <2> QED
    BY <1>4, <1>6, <2>2 DEF Received, server
<1> QED
  BY <1>3, <1>7, <1>8

\* The block that was received is answered, or sending the answer fails.
LEMMA ReceiveAnswers ==
  ASSUME Pigpio, PigpioStage, pc = "receiving", gpio \in Gpio, made = <<txWave>>, Agree, NextCall,
         NEW v \in {mdb.ack, mdb.nak}, todo = <<Send(v)>>, ~failed
  PROVE  /\ DTypeOK' /\ Stage' /\ gpio'.by = gpio.by
         /\ UNCHANGED vars \/ Received
<1>1. /\ mdb \in Port /\ mdb # NoPort /\ ~mock /\ request.cmd = "MDB_TX"
      /\ made \in Seq(WaveIds) /\ Len(made) = 1 /\ mdb.ack # mdb.nak
  BY TxRuns
<1>2. /\ Deletes(made) \in Seq(Calls) /\ Deletes(made) # <<>>
      /\ <<Busy>> \in Seq(Calls) /\ <<Busy>> # <<>>
      /\ v \in WaveIds
  BY <1>1, DeletesSome, Singles DEF Port
<1> DEFINE c == Send(v)
<1>3. c.fn = "WaveTxSend" /\ c.scope = "try" /\ c.on = v /\ v # "made"
  BY <1>2, GpioAssumption DEF Send, Call
<1> HIDE DEF c
<1>4. Head(todo) = c /\ Tail(todo) = <<>>
  BY DEF c
<1>5. PICK ok \in BOOLEAN, w \in WaveIds : Takes(c, v, ok, w)
  <2>1. PICK ok \in BOOLEAN, w \in WaveIds :
          Takes(Head(todo), IF Head(todo).on = "made" THEN Last(made) ELSE Head(todo).on, ok, w)
    BY NextCallTakes
  <2> QED
    BY <1>3, <1>4, <2>1
<1>6. gpio' \in Gpio /\ gpio'.by = gpio.by
  BY <1>2, <1>3, <1>5, TakesKind
<1>7. /\ gpio'.serial = serial /\ gpio'.waves = waves
      /\ gpio'.inflight = IF ok THEN inflight \cup {v} ELSE inflight
  <2>1. gpio' = IF ok THEN After(c.fn, v, w) ELSE gpio
    BY <1>5 DEF Takes
  <2>2. /\ After(c.fn, v, w).serial = SerialAfter(c.fn, v)
        /\ After(c.fn, v, w).waves = WavesAfter(c.fn, v, w)
        /\ After(c.fn, v, w).inflight = InflightAfter(c.fn, v)
    BY AfterEffect DEF Pigpio
  <2> QED
    BY <1>3, <2>1, <2>2 DEF SerialAfter, WavesAfter, InflightAfter, Agree
<1>8. Rest(c, ok) = IF ok THEN <<>> ELSE Deletes(made)
  <2>1. /\ ok \/ c.scope = "drop" => Rest(c, ok) = Tail(todo)
        /\ ~ok /\ c.scope = "try" => Rest(c, ok) = Deletes(made)
    BY RestIs
  <2> QED
    BY <1>3, <1>4, <2>1
<1>9. CASE ok
  <2>1. Rest(c, ok) = <<>>
    BY <1>8, <1>9
  <2>2. /\ pc' = IF v = mdb.ack THEN "acking" ELSE "naking"
        /\ todo' = <<Busy>> /\ failed' = FALSE
        /\ serial' = gpio'.serial /\ waves' = gpio'.waves /\ inflight' = gpio'.inflight
        /\ UNCHANGED <<mock, running, request, high, lateSend, mdb, status, txWave, made>>
    BY <1>1, <1>3, <1>5, <1>9, <2>1 DEF Takes, Conclude, Wait, Publish
  <2>3. Received
    <3>1. CASE v = mdb.ack
      <4>1. pc' = "acking" /\ inflight' = inflight \cup {mdb.ack}
        BY <1>7, <1>9, <2>2, <3>1
      <4> QED
        BY <1>7, <2>2, <4>1 DEF Received, server
    <3>2. CASE v = mdb.nak
      <4>1. pc' = "naking" /\ inflight' = inflight \cup {mdb.nak}
        BY <1>1, <1>7, <1>9, <2>2, <3>2
      <4> QED
        BY <1>7, <2>2, <4>1 DEF Received, server
    <3> QED
      BY <3>1, <3>2
  <2>4. pc' \in Sends /\ pc' # "exec" /\ pc' # "receiving"
    BY <2>2 DEF Sends
  <2>5. SendStage'
    BY <2>2 DEF SendStage, Agree
  <2>6. DTypeOK' /\ Stage'
    BY <1>1, <1>2, <1>6, <2>2, <2>4, <2>5 DEF DTypeOK, Stage
  <2> QED
    BY <1>6, <2>3, <2>6
<1>10. CASE ~ok
  <2>1. Rest(c, ok) = Deletes(made)
    BY <1>8, <1>10
  <2>2. /\ todo' = Deletes(made) /\ failed' = (failed \/ (~ok /\ c.scope = "try"))
        /\ made' = made /\ UNCHANGED vars
    BY <1>2, <1>3, <1>5, <1>10, <2>1 DEF Takes
  <2>3. failed' = TRUE
    BY <1>3, <1>10, <2>2
  <2>4. Deletes(made)' = Deletes(made)
    BY <2>2 DEF Deletes
  <2>5. ReceiveStage'
    BY <1>7, <1>10, <2>2, <2>4 DEF ReceiveStage, Agree, vars
  <2>6. DTypeOK' /\ Stage'
    BY <1>1, <1>2, <1>6, <2>2, <2>3, <2>5 DEF DTypeOK, Stage, Sends, vars
  <2> QED
    BY <1>6, <2>2, <2>6
<1> QED
  BY <1>9, <1>10

\* A call while MDB_TX receives.
LEMMA ReceiveStep ==
  ASSUME Pigpio, PigpioStage, pc = "receiving", ReceiveStage, gpio \in Gpio,
         failed \in BOOLEAN, NextCall
  PROVE  /\ DTypeOK' /\ Stage' /\ gpio'.by = gpio.by
         /\ UNCHANGED vars \/ Received
<1>1. todo # <<Poll>>
  <2>1. Head(todo) \notin {Busy, Poll}
    BY DEF NextCall
  <2> QED
    BY <2>1
<1>2. CASE todo = Deletes(made)
  BY <1>2, ReceiveEnds DEF ReceiveStage
<1>3. CASE todo = <<Send(mdb.ack)>> /\ ~failed
  BY <1>3, ReceiveAnswers DEF ReceiveStage
<1>4. CASE todo = <<Send(mdb.nak)>> /\ ~failed
  BY <1>4, ReceiveAnswers DEF ReceiveStage
<1> QED
  BY <1>1, <1>2, <1>3, <1>4 DEF ReceiveStage


\* MDB_OPEN polls nothing, and MDB_TX only once its wave is sent.
LEMMA ExecPollsNot ==
  ASSUME mdb \in Port \cup {NoPort}, request \in Request, made \in Seq(WaveIds),
         OpenStage \/ TxStage
  PROVE  Head(todo).fn \notin {"WaveTxBusy", "SerialRead"}
<1>1. CASE todo = Deletes(made) /\ Len(made) = 1
  BY <1>1, DeletesSome DEF Call
<1>2. ASSUME request.cmd = "MDB_OPEN", NEW q \in OpenFirst..OpenLast, OpenDue(q)
      PROVE  Head(todo).fn \notin {"WaveTxBusy", "SerialRead"}
  <2>1. Head(todo) = OpenCall(q)
    BY <1>2, OpenHead DEF OpenDue
  <2>2. OpenCall(q).fn = CASE q \in {1, 8} -> "WaveTxStop"
                           [] q = 2 -> "SerialReadClose"
                           [] q \in {3, 4} -> "WaveDelete"
                           [] q \in {5, 6} -> "SetMode"
                           [] q = 7 -> "SerialReadOpen"
                           [] q \in {9, 12} -> "WaveAddNew"
                           [] q \in {10, 13} -> "WaveAddSerial"
                           [] OTHER -> "WaveCreate"
    BY <1>2, OpenCallIs
  <2> QED
    BY <2>1, <2>2
<1>3. ASSUME mdb \in Port, NEW k \in 1..4, TxDue(k)
      PROVE  Head(todo).fn \notin {"WaveTxBusy", "SerialRead"}
  <2>1. Head(todo) = TxPlan[k]
    BY <1>3, TxHead DEF TxDue
  <2>2. TxPlan[k].fn = CASE k = 1 -> "WaveAddNew" [] k = 2 -> "WaveAddSerial"
                         [] k = 3 -> "WaveCreate" [] OTHER -> "WaveTxSend"
    BY <1>3, TxCallIs
  <2> QED
    BY <2>1, <2>2
<1>4. CASE OpenStage
  BY <1>1, <1>2, <1>4 DEF OpenStage, OpenUndone
<1>5. CASE TxStage
  BY <1>1, <1>3, <1>5 DEF TxStage, TxUndone
<1> QED
  BY <1>4, <1>5

\* A poll is due only where tx waits for what it polls.
LEMMA PollsWhere ==
  ASSUME Stage, mdb \in Port \cup {NoPort}, request \in Request, made \in Seq(WaveIds),
         pc \in Sends \cup {"receiving"} => mdb \in Port /\ txWave \in WaveIds
  PROVE  /\ todo = <<Busy>> => pc \in Sends
         /\ todo = <<Poll>> => pc = "receiving"
<1>1. /\ Busy.fn = "WaveTxBusy" /\ Poll.fn = "SerialRead"
      /\ Head(<<Busy>>) = Busy /\ Head(<<Poll>>) = Poll
      /\ <<Busy>> # <<>> /\ <<Poll>> # <<>>
  BY DEF Busy, Poll, Call
<1>2. CASE pc = "exec" /\ todo # <<>>
  <2>1. Head(todo).fn \notin {"WaveTxBusy", "SerialRead"}
    BY <1>2, ExecPollsNot DEF Stage
  <2> QED
    BY <1>1, <2>1
<1>3. CASE pc \in Sends
  <2>1. made = <<txWave>> /\ txWave \in WaveIds /\ Len(made) = 1
    BY <1>3, One DEF Stage, SendStage
  <2>2. todo # <<Poll>>
    <3>1. Head(Deletes(made)).fn = "WaveDelete"
      BY <2>1, DeletesSome DEF Call
    <3>2. Busy # Poll
      BY <1>1
    <3>3. ASSUME NEW t \in Seq(Calls) PROVE Head(<<TxStop("try")>> \o t).fn = "WaveTxStop"
      <4>1. TxStop("try") \in Calls /\ TxStop("try").fn = "WaveTxStop"
        BY DEF TxStop, Call, Calls
      <4> DEFINE c == TxStop("try")
      <4> HIDE DEF c
      <4>2. c \in Calls => Head(<<c>> \o t) = c
        OBVIOUS
      <4> QED
        BY <4>1, <4>2 DEF c
    <3>4. (IF pc = "requesting" THEN <<>> ELSE Deletes(made)) \in Seq(Calls)
      BY <2>1, DeletesSome, EmptySeq
    <3>5. \/ todo = <<Busy>>
          \/ Head(todo).fn \in {"WaveTxStop", "WaveDelete"}
      BY <1>3, <3>1, <3>3, <3>4 DEF Stage, SendStage
    <3> QED
      BY <1>1, <3>2, <3>5
  <2> QED
    BY <1>3, <2>2
<1>4. CASE pc = "receiving"
  <2>1. made = <<txWave>> /\ txWave \in WaveIds /\ Len(made) = 1 /\ mdb \in Port
    BY <1>4, One DEF Stage, ReceiveStage
  <2>2. Head(Deletes(made)).fn = "WaveDelete"
    BY <2>1, DeletesSome DEF Call
  <2>3. /\ Head(<<Send(mdb.ack)>>).fn = "WaveTxSend"
        /\ Head(<<Send(mdb.nak)>>).fn = "WaveTxSend"
    BY DEF Send, Call
  <2>4. todo # <<Busy>>
    BY <1>1, <1>4, <2>2, <2>3 DEF Stage, ReceiveStage
  <2> QED
    BY <1>4, <2>4
<1>5. CASE pc \notin Sends \cup {"exec", "receiving"} \/ todo = <<>>
  BY <1>1, <1>5 DEF Stage
<1> QED
  BY <1>2, <1>3, <1>4, <1>5 DEF Sends

\* The transmission is seen to be over, or given up.
LEMMA PollSendStep ==
  ASSUME PigpioStage, Pigpio, Stage, DTypeOK, PollSend
  PROVE  DTypeOK' /\ Stage' /\ UNCHANGED <<gpio, vars>>
<1>1. /\ todo = <<Busy>> /\ UNCHANGED <<made, gpio, vars>>
      /\ \/ /\ gpio.inflight = {} /\ failed' = failed
            /\ todo' = <<TxStop("try")>> \o (IF pc = "requesting" THEN <<>> ELSE Deletes(made))
         \/ todo' = Deletes(made) /\ failed' = TRUE
  BY DEF PollSend
<1>2. pc \in Sends
  <2>1. mdb \in Port \cup {NoPort} /\ request \in Request /\ made \in Seq(WaveIds)
    BY DEF PigpioStage, TypeOK, DTypeOK
  <2>2. pc \in Sends \cup {"receiving"} => mdb \in Port /\ txWave \in WaveIds
    BY DEF PigpioStage, TypeOK, ServerInv, Control
  <2> QED
    BY <1>1, <2>1, <2>2, PollsWhere
<1>3. SendStage
  BY <1>2 DEF Stage
<1>4. /\ mdb \in Port /\ made \in Seq(WaveIds) /\ Len(made) = 1
  BY <1>2, <1>3, TxRuns DEF SendStage
<1>5. /\ Deletes(made) \in Seq(Calls) /\ Deletes(made) # <<>>
      /\ <<TxStop("try")>> \in Seq(Calls) /\ TxStop("try") \in Calls
  BY <1>4, DeletesSome, Singles
<1>6. Deletes(made)' = Deletes(made)
  BY <1>1 DEF Deletes
<1>7. todo' \in Seq(Calls) /\ todo' # <<>>
  <2>1. ASSUME NEW t \in Seq(Calls)
        PROVE  <<TxStop("try")>> \o t \in Seq(Calls) /\ <<TxStop("try")>> \o t # <<>>
    <3> DEFINE c == TxStop("try")
    <3> HIDE DEF c
    <3>1. c \in Calls => <<c>> \o t \in Seq(Calls) /\ <<c>> \o t # <<>>
      OBVIOUS
    <3> QED
      BY <1>5, <3>1 DEF c
  <2>2. (IF pc = "requesting" THEN <<>> ELSE Deletes(made)) \in Seq(Calls)
    BY <1>5, EmptySeq
  <2> QED
    BY <1>1, <1>5, <2>1, <2>2
<1>8. ~failed /\ Agree /\ made = <<txWave>>
  <2>1. todo = <<Busy>> => ~failed
    <3>1. Head(Deletes(made)) # Busy
      BY <1>4, DeletesSome DEF Busy, Call
    <3>2. Deletes(made) # <<Busy>>
      BY <3>1
    <3> QED
      BY <1>3, <3>2 DEF SendStage
  <2> QED
    BY <1>1, <1>3, <2>1 DEF SendStage
<1>9. SendStage'
  BY <1>1, <1>6, <1>8 DEF SendStage, Agree, vars
<1> QED
  BY <1>1, <1>2, <1>7, <1>8, <1>9 DEF DTypeOK, Stage, Sends, vars

\* The answer is there, or is not.
LEMMA PollReceiveStep ==
  ASSUME PigpioStage, Pigpio, Stage, DTypeOK, PollReceive
  PROVE  DTypeOK' /\ Stage' /\ UNCHANGED <<gpio, vars>>
<1>1. /\ todo = <<Poll>> /\ UNCHANGED <<made, gpio, vars>>
      /\ \/ /\ failed' = failed
            /\ todo' \in {Deletes(made), <<Send(mdb.ack)>>, <<Send(mdb.nak)>>}
         \/ todo' = Deletes(made) /\ failed' = TRUE
  BY DEF PollReceive
<1>2. pc = "receiving"
  <2>1. mdb \in Port \cup {NoPort} /\ request \in Request /\ made \in Seq(WaveIds)
    BY DEF PigpioStage, TypeOK, DTypeOK
  <2>2. pc \in Sends \cup {"receiving"} => mdb \in Port /\ txWave \in WaveIds
    BY DEF PigpioStage, TypeOK, ServerInv, Control
  <2> QED
    BY <1>1, <2>1, <2>2, PollsWhere
<1>3. ReceiveStage
  BY <1>2 DEF Stage
<1>4. /\ mdb \in Port /\ made \in Seq(WaveIds) /\ Len(made) = 1
  BY <1>2, <1>3, TxRuns DEF ReceiveStage
<1>5. /\ Deletes(made) \in Seq(Calls) /\ Deletes(made) # <<>>
      /\ <<Send(mdb.ack)>> \in Seq(Calls) /\ <<Send(mdb.ack)>> # <<>>
      /\ <<Send(mdb.nak)>> \in Seq(Calls) /\ <<Send(mdb.nak)>> # <<>>
  BY <1>4, DeletesSome, Singles
<1>6. /\ Deletes(made)' = Deletes(made)
      /\ Send(mdb.ack)' = Send(mdb.ack) /\ Send(mdb.nak)' = Send(mdb.nak)
  BY <1>1 DEF Deletes, vars
<1>7. todo' \in Seq(Calls) /\ todo' # <<>>
  BY <1>1, <1>5
<1>8. ~failed /\ Agree /\ made = <<txWave>>
  <2>1. todo = <<Poll>> => ~failed
    <3>1. Head(Deletes(made)) # Poll
      BY <1>4, DeletesSome DEF Poll, Call
    <3>2. Deletes(made) # <<Poll>>
      BY <3>1
    <3> QED
      BY <1>3, <3>2 DEF ReceiveStage
  <2> QED
    BY <1>1, <1>3, <2>1 DEF ReceiveStage
<1>9. ReceiveStage'
  BY <1>1, <1>6, <1>8 DEF ReceiveStage, Agree, vars
<1> QED
  BY <1>1, <1>2, <1>7, <1>8, <1>9 DEF DTypeOK, Stage, Sends, vars

-----------------------------------------------------------------------------
(* The other steps.                                                        *)

\* exec begins with the calls of MDB_OPEN or MDB_TX.
LEMMA ExecCallsStep ==
  ASSUME mdb \in Port \cup {NoPort}, request \in Request, DTypeOK, Stage, ExecCalls
  PROVE  /\ DTypeOK' /\ Stage' /\ gpio' = gpio
         /\ UNCHANGED vars \/ (OpenRefused /\ (Pigpio => ExecOpen))
<1>1. pc = "exec" /\ todo = <<>> /\ failed = FALSE /\ made = <<>> /\ (Pigpio => Agree)
  BY DEF ExecCalls, Stage
<1>2. gpio' = gpio /\ gpio' \in Gpio /\ made \in Seq(WaveIds) /\ Len(made) = 0
  BY <1>1, EmptySeq DEF ExecCalls, DTypeOK
<1>3. PICK closed \in Closes : closed = [serial |-> serial, inflight |-> inflight]
  BY ClosedNot
<1>4. CASE request.cmd = "MDB_OPEN"
  <2>1. /\ OpenPlan \in Seq(Calls) /\ Len(OpenPlan) = OpenLast - OpenFirst + 1
        /\ OpenFirst \in {1, 5} /\ OpenLast \in {4, 14}
        /\ OpenFirst = 1 <=> mdb # NoPort
        /\ OpenLast = 14 <=> request.arg # <<>>
    BY <1>4, OpenPlanCalls, OpenBounds
  <2>2. \/ OpenPlan = <<>> /\ OpenReturns(FALSE, <<>>)
        \/ OpenPlan # <<>> /\ todo' = OpenPlan /\ UNCHANGED <<failed, made, vars>>
    BY <1>4 DEF ExecCalls, OpenPlan
  <2>3. CASE OpenPlan = <<>> /\ OpenReturns(FALSE, <<>>)
    <3>1. OpenRefused
      BY <1>1, <1>2, <2>3 DEF OpenReturns, Respond, Publish, OpenRefused, OpenOver
    <3>2. DTypeOK' /\ Stage'
      BY <1>2, <3>1, Returned DEF OpenRefused, OpenOver, Sends
    <3>3. mdb = NoPort /\ request.arg = <<>>
      <4>1. Len(OpenPlan) = 0
        BY <2>1, <2>3, EmptySeq
      <4>2. OpenFirst = 5 /\ OpenLast = 4
        BY <2>1, <4>1
      <4> QED
        BY <2>1, <4>2
    <3>4. ASSUME Pigpio PROVE ExecOpen
      <4>1. PortWaves = {}
        BY <3>3 DEF PortWaves
      <4>2. gpio.serial = serial /\ gpio.waves = waves /\ gpio.inflight = inflight
        BY <1>1, <3>4 DEF Agree
      <4>3. OpenHolds(gpio', made, 5, closed)
        BY <1>2, <1>3, <4>1, <4>2 DEF OpenHolds
      <4> QED
        BY <1>1, <1>4, <3>1, <4>3, OpenRefusedStep
    <3> QED
      BY <1>2, <3>1, <3>2, <3>4
  <2>4. CASE OpenPlan # <<>> /\ todo' = OpenPlan /\ UNCHANGED <<failed, made, vars>>
    <3>1. OpenFirst \in OpenFirst..OpenLast /\ ~(OpenFirst >= 12)
      <4>1. ~(OpenFirst = 5 /\ OpenLast = 4)
        <5>1. Len(OpenPlan) # 0
          BY <2>1, <2>4, EmptySeq
        <5> QED
          BY <2>1, <5>1
      <4> QED
        BY <2>1, <4>1
    <3>2. From(OpenPlan, OpenFirst - OpenFirst + 1) = OpenPlan
      <4>1. OpenFirst - OpenFirst + 1 = 1
        BY <2>1
      <4>2. From(OpenPlan, 1) = OpenPlan
        BY <2>1, FromEnd
      <4> QED
        BY <4>1, <4>2
    <3>3. Onto(From(OpenPlan, OpenFirst - OpenFirst + 1), made)
      BY <1>1, <2>4, <3>2 DEF Onto
    <3>4. ASSUME Pigpio' PROVE OpenHolds(gpio', made', OpenFirst, closed)
      <4>1. gpio.serial = serial /\ gpio.waves = waves /\ gpio.inflight = inflight
        BY <1>1, <1>2, <3>4 DEF Agree, Pigpio
      <4>2. CASE OpenFirst = 1
        <5>1. OpenHolds(gpio', made', 1, closed)
          BY <1>2, <1>3, <4>1 DEF OpenHolds
        <5> QED
          BY <4>2, <5>1
      <4>3. CASE OpenFirst = 5
        <5>1. PortWaves = {}
          BY <2>1, <4>3 DEF PortWaves
        <5>2. OpenHolds(gpio', made', 5, closed)
          BY <1>2, <1>3, <4>1, <5>1 DEF OpenHolds
        <5> QED
          BY <4>3, <5>2
      <4> QED
        BY <2>1, <4>2, <4>3
    <3>5. Len(made) = IF OpenFirst >= 12 THEN 1 ELSE 0
      BY <1>2, <3>1
    <3>6. DTypeOK' /\ Stage'
      BY <1>1, <1>2, <1>4, <3>1, <3>3, <3>4, <3>5, OpenOnto
    <3> QED
      BY <1>2, <2>4, <3>6
  <2> QED
    BY <2>2, <2>3, <2>4
<1>5. CASE request.cmd # "MDB_OPEN"
  <2>1. /\ request.cmd = "MDB_TX" /\ mdb # NoPort /\ ~mock /\ request.arg = <<"fits">>
        /\ todo' = TxPlan /\ UNCHANGED <<failed, made, vars>> /\ mdb \in Port
    BY <1>5 DEF ExecCalls, TxPlan
  <2>2. From(TxPlan, 1) = TxPlan
    BY <2>1, TxPlanCalls, FromEnd
  <2>3. Onto(From(TxPlan, 1), made)
    BY <1>1, <2>1, <2>2 DEF Onto
  <2>4. Pigpio' => TxHolds'
    BY <1>1, <1>2, <2>1 DEF TxHolds, Agree, Pigpio, vars
  <2>5. PICK k \in 1..4 : k = 1
    OBVIOUS
  <2>6. Onto(From(TxPlan, k), made) /\ Len(made) = IF k = 4 THEN 1 ELSE 0
    BY <1>2, <2>3, <2>5
  <2>7. DTypeOK' /\ Stage'
    BY <1>1, <1>2, <2>1, <2>4, <2>6, TxOnto
  <2> QED
    BY <1>2, <2>1, <2>7
<1> QED
  BY <1>4, <1>5

\* Handlers that call pigpio once or not at all, and what surrounds them: nothing
\* is due, and IodinServer has the step.
LEMMA WholeStep ==
  ASSUME DTypeOK, Stage, ExecWhole \/ Around
  PROVE  /\ DTypeOK' /\ Stage' /\ gpio'.by = gpio.by /\ Next
         /\ gpio = Fresh(gpio.by) => gpio' = gpio
<1>1. Follow /\ Next
  BY DEF ExecWhole, Around, ResetCall, Next
<1>2. gpio.by \in Builds
  BY DEF DTypeOK, Gpio
<1>3. ASSUME NEW e \in Ended, End(e)
      PROVE  DTypeOK' /\ Stage' /\ gpio'.by = gpio.by /\ gpio' = Fresh(gpio.by)
  <2>1. pc' \in Ended /\ Idle /\ gpio' = Fresh(gpio.by)
    BY <1>1, <1>3 DEF Follow, End
  <2>2. gpio' \in Gpio /\ gpio'.by = gpio.by
    BY <1>2, <2>1 DEF Fresh, Gpio
  <2>3. serial' = gpio'.serial /\ waves' = gpio'.waves /\ inflight' = gpio'.inflight
    BY <1>3, <2>1 DEF End, Fresh
  <2>4. pc' \notin Sends \cup {"exec", "receiving"}
    BY <2>1 DEF Ended, Sends
  <2> QED
    BY <2>1, <2>2, <2>3, <2>4, Returned
<1>4. ASSUME pc' \notin Ended, todo = <<>>, UNCHANGED <<serial, waves, inflight>>,
             pc' \notin Sends \cup {"receiving"}
      PROVE  DTypeOK' /\ Stage' /\ gpio'.by = gpio.by /\ gpio' = gpio
  <2>1. UNCHANGED <<todo, failed, made, gpio>>
    BY <1>1, <1>4 DEF Follow, detail
  <2>2. failed = FALSE /\ made = <<>> /\ (Pigpio => Agree)
    BY <1>4 DEF Stage
  <2>3. Pigpio' => Agree'
    BY <1>4, <2>1, <2>2 DEF Agree, Pigpio
  <2> QED
    BY <1>4, <2>1, <2>2, <2>3 DEF DTypeOK, Stage
<1>5. CASE ExecRefused \/ ExecStop \/ TxMock
  <2>1. /\ pc = "exec" /\ pc' = "reply" /\ UNCHANGED <<serial, waves, inflight>>
        /\ request.cmd # "MDB_OPEN"
        /\ request.cmd = "MDB_TX" => mdb = NoPort \/ mock
    BY <1>5 DEF ExecRefused, ExecStop, TxMock, Exec, Respond, pigpio
  <2>2. todo = <<>>
    BY <2>1 DEF Stage, OpenStage, TxStage
  <2> QED
    BY <1>1, <1>4, <2>1, <2>2 DEF Ended, Sends
<1>6. CASE TxPanic
  BY <1>1, <1>3, <1>6 DEF TxPanic, Ended
<1>7. CASE ResetCall
  <2>1. /\ pc' \in {"reply", "resetting"} /\ UNCHANGED <<serial, waves, inflight>>
        /\ pc = "resetting" \/ (pc = "exec" /\ request.cmd = "MDB_RESET")
    BY <1>7 DEF ResetCall, ResetBegin, ResetEnd, Exec, Respond
  <2>2. todo = <<>>
    BY <2>1 DEF Stage, OpenStage, TxStage, Sends
  <2> QED
    BY <1>1, <1>4, <2>1, <2>2 DEF Ended, Sends
<1>8. CASE ReadError \/ Kill
  BY <1>1, <1>3, <1>8 DEF ReadError, Kill, Ended
<1>9. CASE Restart \/ (\E r \in Request : Read(r))
  <2>1. /\ pc' \in {"read", "exec"} /\ UNCHANGED <<serial, waves, inflight>>
        /\ pc \in Ended \cup {"read"}
    BY <1>9 DEF Restart, Read, pigpio
  <2>2. todo = <<>>
    BY <2>1 DEF Stage, Sends, Ended
  <2> QED
    BY <1>1, <1>4, <2>1, <2>2 DEF Ended, Sends
<1>10. CASE Write
  <2>1. CASE pc' = "read" /\ UNCHANGED <<serial, waves, inflight>>
    <3>1. todo = <<>>
      BY <1>10 DEF Write, Stage, Sends
    <3> QED
      BY <1>1, <1>4, <2>1, <3>1 DEF Ended, Sends
  <2>2. CASE End("exited")
    BY <1>1, <1>3, <2>2 DEF Ended
  <2> QED
    BY <1>10, <2>1, <2>2 DEF Write, pigpio
<1> QED
  BY <1>5, <1>6, <1>7, <1>8, <1>9, <1>10 DEF ExecWhole, Around

\* A transmission ends, and with it what MDB_OPEN or MDB_TX was to find of it.
LEMMA TransmissionEndsStep ==
  ASSUME DTypeOK, Stage, Pigpio, NEW w \in WaveIds, TransmissionEnds(w)
  PROVE  /\ DTypeOK' /\ Stage' /\ gpio'.by = gpio.by
         /\ UNCHANGED vars \/ Transmitted(w)
<1>1. /\ w \in gpio.inflight /\ gpio' = [gpio EXCEPT !.inflight = @ \ {w}]
      /\ inflight' = inflight \ {w}
      /\ UNCHANGED <<pc, status, txWave, serial, waves, high, lateSend>>
      /\ UNCHANGED <<mock, running, mdb, request, todo, failed, made>>
  BY DEF TransmissionEnds, server
<1>2. /\ gpio' \in Gpio /\ gpio'.by = gpio.by /\ gpio'.serial = gpio.serial
      /\ gpio'.waves = gpio.waves /\ gpio'.inflight = gpio.inflight \ {w}
  BY <1>1 DEF DTypeOK, Gpio
<1>3. UNCHANGED vars \/ Transmitted(w)
  <2>1. CASE w \in inflight
    BY <1>1, <2>1 DEF Transmitted, server
  <2>2. CASE w \notin inflight
    <3>1. inflight' = inflight
      BY <1>1, <2>2
    <3> QED
      BY <1>1, <3>1 DEF vars
  <2> QED
    BY <2>1, <2>2
<1>4. DTypeOK'
  BY <1>1, <1>2 DEF DTypeOK
<1>5. Pigpio' <=> Pigpio
  BY <1>2 DEF Pigpio
<1>6. Agree => Agree'
  BY <1>1, <1>2 DEF Agree
<1>7. OpenStage => OpenStage'
  <2> SUFFICES ASSUME OpenStage PROVE OpenStage'
    OBVIOUS
  <2>1. PICK closed \in Closes :
         \/ \E q \in OpenFirst..OpenLast : OpenDue(q) /\ (Pigpio => OpenHolds(gpio, made, q, closed))
         \/ OpenUndone /\ (Pigpio => OpenHolds(gpio, made, 12, closed))
    BY DEF OpenStage
  <2>2. PICK stopped \in BOOLEAN : closed = Closed(stopped)
    BY <2>1 DEF Closes
  <2>3. PICK c \in Closes' : c = Closed(stopped)'
    BY DEF Closes
  <2>4. c.serial = closed.serial /\ c.inflight = closed.inflight \ {w}
    <3>1. /\ closed.serial = SerialAfterClose(stopped)
          /\ closed.inflight = InflightAfterClose(stopped)
          /\ c.serial = SerialAfterClose(stopped)'
          /\ c.inflight = InflightAfterClose(stopped)'
      BY <2>2, <2>3 DEF Closed
    <3>2. /\ SerialAfterClose(stopped)' = SerialAfterClose(stopped)
          /\ InflightAfterClose(stopped)' = InflightAfterClose(stopped) \ {w}
      BY <1>1 DEF SerialAfterClose, InflightAfterClose
    <3> QED
      BY <3>1, <3>2
  <2>5. PortWaves' = PortWaves
    BY <1>1 DEF PortWaves
  <2>6. ASSUME NEW q \in 1..14, OpenHolds(gpio, made, q, closed)
        PROVE  OpenHolds(gpio, made, q, c)'
    <3>1. gpio'.inflight = CASE q = 1 -> inflight'
                             [] q = 2 -> {}
                             [] q \in 3..8 -> c.inflight
                             [] OTHER -> {}
      <4>1. gpio.inflight = CASE q = 1 -> inflight
                              [] q = 2 -> {}
                              [] q \in 3..8 -> closed.inflight
                              [] OTHER -> {}
        BY <2>6 DEF OpenHolds
      <4>2. CASE q = 1
        BY <1>1, <1>2, <4>1, <4>2
      <4>3. CASE q \in 3..8
        BY <1>2, <2>4, <4>1, <4>3
      <4>4. CASE q = 2 \/ q \in 9..14
        BY <1>1, <4>1, <4>4
      <4> QED
        BY <4>2, <4>3, <4>4
    <3>2. /\ gpio'.serial = CASE q <= 2 -> serial
                              [] q \in 3..7 -> c.serial
                              [] OTHER -> c.serial \cup {request.arg[1]}
          /\ q >= 8 => request.arg[1] \notin c.serial
      BY <1>2, <2>4, <2>6 DEF OpenHolds
    <3>3. /\ gpio'.waves = CASE q <= 3 -> waves
                             [] q = 4 -> waves \ {mdb.ack}
                             [] q \in 5..11 -> waves \ PortWaves
                             [] q \in 12..14 -> (waves \ PortWaves) \cup {made[1]}
                             [] OTHER -> (waves \ PortWaves) \cup {made[1], made[2]}
          /\ q >= 12 => made[1] \notin waves \ PortWaves
          /\ q = 15 => made[2] \notin waves \ PortWaves /\ made[1] # made[2]
          /\ q >= 6 => ~mock
      BY <1>2, <2>6 DEF OpenHolds
    <3> QED
      BY <1>1, <2>5, <3>1, <3>2, <3>3 DEF OpenHolds
  <2>7. OpenPlan' = OpenPlan /\ OpenFirst' = OpenFirst /\ OpenLast' = OpenLast
    BY <1>1 DEF OpenPlan, OpenFirst, OpenLast, DropPort
  <2>8. ASSUME NEW q \in OpenFirst..OpenLast, OpenDue(q),
               Pigpio => OpenHolds(gpio, made, q, closed)
        PROVE  OpenStage'
    <3>1. OpenDue(q)'
      BY <1>1, <2>7, <2>8 DEF OpenDue
    <3>2. q \in 1..14
      BY OpenBounds
    <3>3. OpenHolds(gpio, made, q, c)'
      BY <2>6, <2>8, <3>2
    <3> QED
      BY <1>1, <2>3, <2>7, <3>1, <3>3 DEF OpenStage
  <2>9. ASSUME OpenUndone, Pigpio => OpenHolds(gpio, made, 12, closed)
        PROVE  OpenStage'
    <3>1. OpenUndone'
      BY <1>1, <2>9 DEF OpenUndone, Deletes
    <3>2. OpenHolds(gpio, made, 12, c)'
      BY <2>6, <2>9
    <3> QED
      BY <1>1, <2>3, <3>1, <3>2 DEF OpenStage
  <2> QED
    BY <2>1, <2>8, <2>9
<1>8. TxStage => TxStage'
  <2>1. TxPlan' = TxPlan /\ Deletes(made)' = Deletes(made)
    BY <1>1 DEF TxPlan, Deletes
  <2>2. TxHolds => TxHolds'
    BY <1>1, <1>2 DEF TxHolds
  <2> QED
    BY <1>1, <1>5, <2>1, <2>2 DEF TxStage, TxDue, TxUndone
<1>9. SendStage => SendStage'
  <2>1. Deletes(made)' = Deletes(made)
    BY <1>1 DEF Deletes
  <2>2. inflight = {} => inflight' = {}
    BY <1>1
  <2> QED
    BY <1>1, <1>6, <2>1, <2>2 DEF SendStage
<1>10. ReceiveStage => ReceiveStage'
  <2>1. Deletes(made)' = Deletes(made)
    BY <1>1 DEF Deletes
  <2> QED
    BY <1>1, <1>6, <2>1 DEF ReceiveStage
<1>11. Stage'
  BY <1>1, <1>5, <1>6, <1>7, <1>8, <1>9, <1>10 DEF Stage
<1> QED
  BY <1>2, <1>3, <1>4, <1>11

\* A step that changes nothing.
LEMMA Stutter ==
  ASSUME DTypeOK, Stage, UNCHANGED <<vars, detail>>
  PROVE  DTypeOK' /\ Stage'
<1>1. /\ UNCHANGED <<pc, mock, running, mdb, request, status, txWave, serial, waves, inflight,
                     high, lateSend, todo, failed, made, gpio>>
      /\ UNCHANGED vars
  BY DEF vars, detail
<1>2. DTypeOK'
  BY <1>1 DEF DTypeOK
<1>3. Deletes(made)' = Deletes(made) /\ (Pigpio' <=> Pigpio)
  BY <1>1 DEF Deletes, Pigpio
<1>4. Agree => Agree'
  BY <1>1 DEF Agree
<1>5. OpenStage => OpenStage'
  <2> SUFFICES ASSUME OpenStage PROVE OpenStage'
    OBVIOUS
  <2>1. PICK closed \in Closes :
         \/ \E q \in OpenFirst..OpenLast : OpenDue(q) /\ (Pigpio => OpenHolds(gpio, made, q, closed))
         \/ OpenUndone /\ (Pigpio => OpenHolds(gpio, made, 12, closed))
    BY DEF OpenStage
  <2>2. /\ OpenPlan' = OpenPlan /\ OpenFirst' = OpenFirst /\ OpenLast' = OpenLast
        /\ Closes' = Closes
    BY <1>1, OpenSame
  <2>3. ASSUME NEW q \in Int, OpenHolds(gpio, made, q, closed)
        PROVE  OpenHolds(gpio, made, q, closed)'
    BY <1>1, <2>3, OpenHoldsOn
  <2>4. ASSUME NEW q \in OpenFirst..OpenLast, OpenDue(q),
               Pigpio => OpenHolds(gpio, made, q, closed)
        PROVE  OpenStage'
    <3>1. OpenDue(q)'
      BY <1>1, <2>2, <2>4 DEF OpenDue
    <3>2. Pigpio' => OpenHolds(gpio, made, q, closed)'
      BY <1>3, <2>3, <2>4
    <3> QED
      BY <1>1, <2>2, <3>1, <3>2 DEF OpenStage
  <2>5. ASSUME OpenUndone, Pigpio => OpenHolds(gpio, made, 12, closed)
        PROVE  OpenStage'
    <3>1. OpenUndone'
      BY <1>1, <1>3, <2>5 DEF OpenUndone
    <3>2. Pigpio' => OpenHolds(gpio, made, 12, closed)'
      BY <1>3, <2>3, <2>5
    <3> QED
      BY <1>1, <2>2, <3>1, <3>2 DEF OpenStage
  <2> QED
    BY <2>1, <2>4, <2>5
<1>6. TxStage => TxStage'
  <2>1. TxPlan' = TxPlan
    BY <1>1 DEF TxPlan
  <2>2. TxHolds => TxHolds'
    BY <1>1 DEF TxHolds
  <2> QED
    BY <1>1, <1>3, <2>1, <2>2 DEF TxStage, TxDue, TxUndone
<1>7. SendStage => SendStage'
  BY <1>1, <1>3, <1>4 DEF SendStage
<1>8. ReceiveStage => ReceiveStage'
  BY <1>1, <1>3, <1>4 DEF ReceiveStage
<1>9. Stage'
  BY <1>1, <1>3, <1>4, <1>5, <1>6, <1>7, <1>8 DEF Stage
<1> QED
  BY <1>2, <1>9

\* server.mock is only ever true without a port.
LEMMA WholeMock ==
  ASSUME Control, ExecWhole \/ Around, mock => mdb = NoPort
  PROVE  mock' => mdb' = NoPort
<1>1. CASE ExecWhole
  BY <1>1 DEF ExecWhole, ExecRefused, ExecStop, TxMock, TxPanic, ResetCall, ResetBegin, ResetEnd,
     End, server
<1>2. CASE Around
  BY <1>2 DEF Around, Restart, Read, ReadError, Write, Kill, End, server, Control
<1> QED
  BY <1>1, <1>2

\* With pigpio, every step is one of IodinServer's or none it can see.
LEMMA PigpioStep ==
  ASSUME DTypeOK, Stage, Pigpio, PigpioStage, [DNext]_<<vars, detail>>
  PROVE  /\ DTypeOK' /\ Stage' /\ gpio'.by = gpio.by
         /\ [Next]_vars /\ (mock' => mdb' = NoPort)
<1>1. /\ TypeOK /\ ServerInv /\ Control /\ (mock => mdb = NoPort)
      /\ mdb \in Port \cup {NoPort} /\ request \in Request
  BY DEF PigpioStage, TypeOK, ServerInv
<1>2. gpio \in Gpio /\ made \in Seq(WaveIds) /\ failed \in BOOLEAN
  BY DEF DTypeOK
<1>3. CASE NextCall
  <2>1. todo # <<>>
    BY <1>3 DEF NextCall
  <2>2. CASE pc = "exec" /\ OpenStage
    <3>1. /\ DTypeOK' /\ Stage' /\ gpio'.by = gpio.by
          /\ \/ UNCHANGED vars
             \/ OpenRefused /\ (Pigpio => ExecOpen)
             \/ /\ \E ws : OpenDone(ws) /\ ws[1] \in WaveIds /\ ws[2] \in WaveIds
                /\ request.arg # <<>> /\ (Pigpio => ExecOpen /\ ~mock)
      BY <1>1, <1>2, <1>3, <2>2, OpenStep
    <3>2. [Next]_vars
      BY <3>1 DEF Next
    <3>3. mock' => mdb' = NoPort
      BY <1>1, <3>1 DEF OpenRefused, OpenDone, OpenOver, vars
    <3> QED
      BY <3>1, <3>2, <3>3
  <2>3. CASE pc = "exec" /\ TxStage
    <3>1. /\ DTypeOK' /\ Stage' /\ gpio'.by = gpio.by
          /\ UNCHANGED vars \/ TxBegin
      BY <1>1, <1>2, <1>3, <2>3, TxStep
    <3> QED
      BY <1>1, <3>1 DEF Next, TxBegin, server, vars
  <2>4. CASE pc \in Sends
    <3>1. /\ DTypeOK' /\ Stage' /\ gpio'.by = gpio.by
          /\ UNCHANGED vars \/ SendDone \/ SendGivenUp
      BY <1>2, <1>3, <2>4, SendStep DEF Stage
    <3> QED
      <4>1. UNCHANGED <<mock, mdb>>
        BY <3>1 DEF SendDone, SendGivenUp, server, vars
      <4> QED
        BY <1>1, <3>1, <4>1 DEF Next
  <2>5. CASE pc = "receiving"
    <3>1. /\ DTypeOK' /\ Stage' /\ gpio'.by = gpio.by
          /\ UNCHANGED vars \/ Received
      BY <1>2, <1>3, <2>5, ReceiveStep DEF Stage
    <3> QED
      BY <1>1, <3>1 DEF Next, Received, server, vars
  <2> QED
    BY <2>1, <2>2, <2>3, <2>4, <2>5 DEF Stage
<1>4. CASE ExecCalls
  <2>1. /\ DTypeOK' /\ Stage' /\ gpio' = gpio
        /\ UNCHANGED vars \/ (OpenRefused /\ ExecOpen)
    BY <1>1, <1>4, ExecCallsStep
  <2> QED
    BY <1>1, <2>1 DEF Next, OpenRefused, vars
<1>5. CASE PollSend \/ PollReceive
  <2>1. DTypeOK' /\ Stage' /\ UNCHANGED <<gpio, vars>>
    BY <1>5, PollSendStep, PollReceiveStep
  <2> QED
    BY <1>1, <2>1 DEF vars
<1>6. CASE ExecWhole \/ Around
  BY <1>1, <1>6, WholeStep, WholeMock
<1>7. ASSUME NEW w \in WaveIds, TransmissionEnds(w)
      PROVE  /\ DTypeOK' /\ Stage' /\ gpio'.by = gpio.by
             /\ [Next]_vars /\ (mock' => mdb' = NoPort)
  <2>1. /\ DTypeOK' /\ Stage' /\ gpio'.by = gpio.by
        /\ UNCHANGED vars \/ Transmitted(w)
    BY <1>7, TransmissionEndsStep
  <2> QED
    BY <1>1, <2>1 DEF Next, Transmitted, server, vars
<1>8. CASE UNCHANGED <<vars, detail>>
  <2>1. DTypeOK' /\ Stage'
    BY <1>8, Stutter
  <2>2. UNCHANGED vars /\ gpio' = gpio
    BY <1>8 DEF detail
  <2> QED
    BY <1>1, <2>1, <2>2 DEF vars
<1> QED
  BY <1>3, <1>4, <1>5, <1>6, <1>7, <1>8 DEF DNext

-----------------------------------------------------------------------------
(* Built with mock.rs.                                                     *)

LEMMA MockHolds ==
  ASSUME MockStage
  PROVE  /\ Control /\ gpio.by = "mock" /\ gpio = Fresh(gpio.by)
         /\ gpio.serial = {} /\ gpio.waves = {} /\ gpio.inflight = {}
         /\ serial = {} /\ waves = {} /\ inflight = {}
<1>1. /\ gpio.by = "mock" /\ gpio = Fresh(gpio.by)
      /\ gpio.serial = {} /\ gpio.waves = {} /\ gpio.inflight = {}
  BY DEF MockStage, Fresh
<1>2. serial = {} /\ waves = {} /\ inflight = {}
  BY <1>1 DEF MockStage, Agree
<1>3. Control
  BY <1>2 DEF MockStage, Control, Sends, Ended
<1> QED
  BY <1>1, <1>2, <1>3

\* No reset gets as far as its delay, since gpioWrite fails.
LEMMA MockReset ==
  ASSUME MockStage, ResetCall
  PROVE  Respond("ERR_HARDWARE") /\ UNCHANGED high /\ ResetBegin
<1>1. Outcomes("Write", NoWave) = {"Write" \notin MockFails}
  BY MockHolds DEF Outcomes
<1>2. "Write" \in MockFails
  BY DEF MockFails
<1>3. TRUE \notin Outcomes("Write", NoWave)
  BY <1>1, <1>2
<1>4. pc # "resetting" /\ high = {}
  BY DEF MockStage, Ended
<1> QED
  BY <1>3, <1>4 DEF ResetCall, ResetBegin, ResetEnd

LEMMA MockWhole ==
  ASSUME MockStage, ExecWhole \/ Around
  PROVE  /\ high' = {} /\ txWave' = NoWave
         /\ serial' = {} /\ waves' = {} /\ inflight' = {}
         /\ pc' \in {"read", "exec", "reply"} \cup Ended
         /\ pc' \in Ended => mdb' = NoPort
         /\ pc' = "reply" /\ request'.cmd = "STOP" => ~running'
<1>1. /\ high = {} /\ txWave = NoWave /\ serial = {} /\ waves = {} /\ inflight = {}
  BY MockHolds DEF MockStage
<1>2. ASSUME NEW e \in Ended, End(e)
      PROVE  /\ high' = {} /\ txWave' = NoWave
             /\ serial' = {} /\ waves' = {} /\ inflight' = {}
             /\ pc' \in Ended /\ mdb' = NoPort /\ pc' # "reply"
  BY <1>1, <1>2 DEF End, Ended
<1>3. CASE ReadError \/ Kill \/ TxPanic
  BY <1>2, <1>3 DEF ReadError, Kill, TxPanic, Ended
<1>4. CASE ExecRefused \/ ExecStop \/ TxMock
  BY <1>1, <1>4 DEF ExecRefused, ExecStop, TxMock, Exec, Respond, pigpio, server, Ended
<1>5. CASE ResetCall
  BY <1>1, <1>5, MockReset DEF ResetBegin, Exec, Respond, server, Ended
<1>6. CASE Restart
  BY <1>1, <1>6 DEF Restart, MockStage, Ended
<1>7. CASE \E r \in Request : Read(r)
  BY <1>1, <1>7 DEF Read, pigpio, Ended
<1>8. CASE Write
  <2>1. CASE pc' = "read" /\ UNCHANGED <<txWave, serial, waves, inflight, high>>
    BY <1>1, <2>1 DEF Ended
  <2>2. CASE End("exited")
    BY <1>2, <2>2 DEF Ended
  <2> QED
    BY <1>8, <2>1, <2>2 DEF Write, pigpio
<1> QED
  BY <1>3, <1>4, <1>5, <1>6, <1>7, <1>8 DEF ExecWhole, Around

\* What the mock build does in one step keeps the promises of MdbSession.
LEMMA MockOpen ==
  ASSUME TypeOK, pc = "exec", request.cmd = "MDB_OPEN",
         OpenRefused \/ (\E ws : OpenDone(ws) /\ ws[1] \in WaveIds /\ ws[2] \in WaveIds
                                 /\ request.arg # <<>>)
  PROVE  /\ Session!Next
         /\ gpio'.serial = {} /\ gpio'.waves = {} /\ gpio'.inflight = {} => TypeOK'
         /\ pc' = "reply" /\ UNCHANGED <<request, high, txWave>>
         /\ serial' = gpio'.serial /\ waves' = gpio'.waves /\ inflight' = gpio'.inflight
<1>1. /\ pc' = "reply" /\ UNCHANGED <<mock, running, request, high, txWave>>
      /\ serial' = gpio'.serial /\ waves' = gpio'.waves /\ inflight' = gpio'.inflight
      /\ lateSend' = (lateSend /\ inflight' # {})
  BY DEF OpenRefused, OpenDone, OpenOver
<1>2. /\ mdb' \in Port \cup {NoPort}
      /\ status' \in {"OK", "ERR_INPUT", "ERR_HARDWARE"}
      /\ mdb' # NoPort <=> status' = "OK"
  <2>1. CASE OpenRefused
    BY <2>1 DEF OpenRefused
  <2>2. ASSUME NEW ws, OpenDone(ws), ws[1] \in WaveIds, ws[2] \in WaveIds, request.arg # <<>>
        PROVE  mdb' \in Port /\ mdb' # NoPort /\ status' = "OK"
    <3>1. request.arg[1] \in Pins /\ request.arg[2] \in Pins
      BY <2>2, OpenArgs DEF TypeOK
    <3> QED
      BY <2>2, <3>1, ServerAssumption DEF OpenDone, Port
  <2> QED
    BY <2>1, <2>2
<1>3. Session!Next
  <2>1. PICK s \in {"OK", "ERR_INPUT", "ERR_HARDWARE"} : s = status'
    BY <1>2
  <2>2. Session!Answer(s)
    BY <1>1, <1>2, <2>1 DEF Session!Answer, Session!Allowed, Ended
  <2> QED
    BY <2>1, <2>2 DEF Session!Next, Session!Statuses
<1>4. ASSUME gpio'.serial = {}, gpio'.waves = {}, gpio'.inflight = {} PROVE TypeOK'
  <2>1. lateSend' \in BOOLEAN
    BY <1>1, <1>4
  <2> QED
    BY <1>1, <1>2, <1>4, <2>1 DEF TypeOK
<1> QED
  BY <1>1, <1>3, <1>4

LEMMA MockTx ==
  ASSUME TypeOK, pc = "exec", request.cmd = "MDB_TX", mdb # NoPort, TxFailed,
         gpio'.serial = {}, gpio'.waves = {}, gpio'.inflight = {}
  PROVE  Session!Next /\ TypeOK'
<1>1. /\ pc' = "reply" /\ status' = "ERR_HARDWARE" /\ txWave' = NoWave
      /\ serial' = {} /\ waves' = {} /\ inflight' = {}
      /\ UNCHANGED <<mock, running, request, high, lateSend, mdb>>
  BY DEF TxFailed
<1>2. Session!Answer("ERR_HARDWARE")
  BY <1>1 DEF Session!Answer, Session!Allowed, Ended
<1>3. Session!Next
  BY <1>2 DEF Session!Next, Session!Statuses
<1> QED
  BY <1>1, <1>3 DEF TypeOK

LEMMA MockStep ==
  ASSUME DTypeOK, Stage, ~Pigpio, MockStage, [DNext]_<<vars, detail>>
  PROVE  /\ DTypeOK' /\ Stage' /\ gpio'.by = gpio.by /\ MockStage'
         /\ [Session!Next]_(Session!vars)
<1>1. /\ TypeOK /\ Control /\ gpio.by = "mock" /\ gpio = Fresh(gpio.by)
      /\ gpio.serial = {} /\ gpio.waves = {} /\ gpio.inflight = {}
      /\ serial = {} /\ waves = {} /\ inflight = {} /\ txWave = NoWave /\ high = {}
      /\ mdb \in Port \cup {NoPort} /\ request \in Request
  BY MockHolds DEF MockStage, TypeOK
<1>2. gpio \in Gpio /\ made \in Seq(WaveIds) /\ pc \in {"read", "exec", "reply"} \cup Ended
  BY DEF DTypeOK, MockStage
<1>3. ASSUME UNCHANGED vars PROVE [Session!Next]_(Session!vars)
  BY <1>3 DEF vars, Session!vars
<1>4. ASSUME UNCHANGED <<gpio, vars>> PROVE MockStage'
  BY <1>4 DEF vars, MockStage, TypeOK, Agree
<1>5. ASSUME gpio' = gpio, pc = "exec", request.cmd = "MDB_OPEN",
             OpenRefused \/ (\E ws : OpenDone(ws) /\ ws[1] \in WaveIds /\ ws[2] \in WaveIds
                                     /\ request.arg # <<>>)
      PROVE  MockStage' /\ Session!Next
  <2>1. /\ Session!Next /\ TypeOK' /\ pc' = "reply" /\ UNCHANGED <<request, high, txWave>>
        /\ serial' = {} /\ waves' = {} /\ inflight' = {}
    BY <1>1, <1>5, MockOpen
  <2> QED
    BY <1>1, <1>5, <2>1 DEF MockStage, Agree, Ended
<1>6. CASE NextCall
  <2>1. todo # <<>>
    BY <1>6 DEF NextCall
  <2>2. pc = "exec"
    BY <1>2, <2>1 DEF Stage, Sends, Ended
  <2>3. CASE OpenStage
    <3>1. /\ DTypeOK' /\ Stage' /\ gpio'.by = gpio.by /\ gpio' = gpio
          /\ \/ UNCHANGED vars
             \/ OpenRefused
             \/ \E ws : OpenDone(ws) /\ ws[1] \in WaveIds /\ ws[2] \in WaveIds
                        /\ request.arg # <<>>
      BY <1>1, <1>2, <1>6, <2>2, <2>3, OpenStep
    <3>2. request.cmd = "MDB_OPEN"
      BY <2>3 DEF OpenStage
    <3> QED
      BY <1>3, <1>4, <1>5, <2>2, <3>1, <3>2
  <2>4. CASE TxStage
    <3>1. /\ DTypeOK' /\ Stage' /\ gpio'.by = gpio.by /\ gpio' = gpio
          /\ UNCHANGED vars \/ TxFailed
      BY <1>1, <1>2, <1>6, <2>2, <2>4, TxStep
    <3>2. ASSUME TxFailed PROVE MockStage' /\ Session!Next
      <4>1. TypeOK' /\ Session!Next
        BY <1>1, <2>2, <2>4, <3>1, <3>2, MockTx DEF TxStage
      <4>2. /\ pc' = "reply" /\ txWave' = NoWave /\ high' = {} /\ request'.cmd = "MDB_TX"
            /\ serial' = {} /\ waves' = {} /\ inflight' = {}
        BY <1>1, <2>4, <3>1, <3>2 DEF TxFailed, TxStage
      <4> QED
        BY <1>1, <3>1, <4>1, <4>2 DEF MockStage, Agree, Ended
    <3> QED
      BY <1>3, <1>4, <3>1, <3>2
  <2> QED
    BY <2>1, <2>2, <2>3, <2>4 DEF Stage
<1>7. CASE ExecCalls
  <2>1. /\ DTypeOK' /\ Stage' /\ gpio' = gpio
        /\ UNCHANGED vars \/ OpenRefused
    BY <1>1, <1>7, ExecCallsStep
  <2>2. UNCHANGED vars \/ (pc = "exec" /\ request.cmd = "MDB_OPEN")
    BY <1>7 DEF ExecCalls
  <2> QED
    BY <1>3, <1>4, <1>5, <2>1, <2>2
<1>8. ~PollSend /\ ~PollReceive
  <2>1. pc \notin Sends \cup {"receiving"}
    BY <1>2 DEF Sends, Ended
  <2>2. todo # <<Busy>> /\ todo # <<Poll>>
    BY <1>1, <1>2, <2>1, PollsWhere
  <2> QED
    BY <2>2 DEF PollSend, PollReceive
<1>9. CASE ExecWhole \/ Around
  <2>1. DTypeOK' /\ Stage' /\ gpio'.by = gpio.by /\ Next /\ gpio' = gpio
    BY <1>1, <1>9, WholeStep
  <2>2. TypeOK' /\ [Session!Next]_(Session!vars)
    BY <1>1, <2>1, TypeStep, SessionStep
  <2>3. MockStage'
    BY <1>1, <1>9, <2>1, <2>2, MockWhole DEF MockStage, Agree
  <2> QED
    BY <2>1, <2>2, <2>3
<1>10. ASSUME NEW w \in WaveIds PROVE ~TransmissionEnds(w)
  BY <1>1 DEF TransmissionEnds
<1>11. CASE UNCHANGED <<vars, detail>>
  <2>1. DTypeOK' /\ Stage'
    BY <1>11, Stutter
  <2>2. UNCHANGED <<gpio, vars>>
    BY <1>11 DEF detail
  <2> QED
    BY <1>3, <1>4, <2>1, <2>2
<1> QED
  BY <1>6, <1>7, <1>8, <1>9, <1>10, <1>11 DEF DNext

-----------------------------------------------------------------------------
(* What is due names waves that exist.                                     *)

NamesWave(c) == c.fn \in {"WaveDelete", "WaveTxSend"} /\ c.on # "made"
Named(s) ==
  \A i \in DOMAIN s :
    NamesWave(s[i]) => s[i].on \in gpio.waves /\ \A j \in DOMAIN s : s[j] = s[i] => j = i

LEMMA NamedNone == Named(<<>>)
  BY DEF Named

LEMMA NamedOne ==
  ASSUME NEW c, NamesWave(c) => c.on \in gpio.waves
  PROVE  Named(<<c>>)
<1>1. DOMAIN <<c>> = 1..1 /\ <<c>>[1] = c
  OBVIOUS
<1> QED
  BY <1>1 DEF Named

LEMMA NamedTwo ==
  ASSUME NEW c \in Calls, NEW d \in Calls, ~NamesWave(c), NamesWave(d) => d.on \in gpio.waves
  PROVE  Named(<<c>> \o <<d>>)
<1> DEFINE s == <<c>> \o <<d>>
<1>1. /\ <<c>> \in Seq(Calls) /\ Len(<<c>>) = 1 /\ <<c>>[1] = c
      /\ <<d>> \in Seq(Calls) /\ Len(<<d>>) = 1 /\ <<d>>[1] = d
  BY One
<1>2. /\ s \in Seq(Calls) /\ Len(s) = Len(<<c>>) + Len(<<d>>)
      /\ \A i \in 1..Len(<<c>>) : s[i] = <<c>>[i]
      /\ \A i \in 1..Len(<<d>>) : s[Len(<<c>>) + i] = <<d>>[i]
  BY <1>1, Joined
<1> HIDE DEF s
<1>3. /\ 1 \in 1..Len(<<c>>) /\ 1 \in 1..Len(<<d>>)
      /\ Len(<<c>>) + 1 = 2 /\ Len(<<c>>) + Len(<<d>>) = 2
  BY <1>1
<1>4. s[1] = <<c>>[1] /\ s[Len(<<c>>) + 1] = <<d>>[1]
  BY <1>2, <1>3
<1>5. Len(s) = 2 /\ s[1] = c /\ s[2] = d
  BY <1>1, <1>2, <1>3, <1>4
<1>6. DOMAIN s = 1..2
  BY <1>2, <1>5, LenProperties
<1>7. Named(s)
  BY <1>5, <1>6 DEF Named
<1> QED
  BY <1>7 DEF s

LEMMA NamedDeletes ==
  ASSUME made \in Seq(WaveIds), Len(made) = 1, made[1] \in gpio.waves
  PROVE  Named(Deletes(made))
<1>1. Call("WaveDelete", made[1], "drop").on = made[1]
  BY DEF Call
<1>2. Deletes(made) = <<Call("WaveDelete", made[1], "drop")>>
  BY DeletesSome
<1> QED
  BY <1>1, <1>2, NamedOne

\* Of the calls of an MDB_OPEN only the third and the fourth name a wave.
LEMMA OpenNames ==
  ASSUME NEW q \in 1..14, NamesWave(OpenCall(q))
  PROVE  \/ q = 3 /\ OpenCall(q).on = mdb.ack
         \/ q = 4 /\ OpenCall(q).on = mdb.nak
  BY DEF NamesWave, OpenCall, Call, TxStop

LEMMA OpenNamed ==
  ASSUME mdb \in Port \cup {NoPort}, request \in Request, request.cmd = "MDB_OPEN",
         WavesOwned, NEW closed, NEW q \in OpenFirst..OpenLast, OpenDue(q),
         OpenHolds(gpio, made, q, closed)
  PROVE  Named(todo)
<1>1. /\ OpenPlan \in Seq(Calls) /\ Len(OpenPlan) = OpenLast - OpenFirst + 1
      /\ \A p \in OpenFirst..OpenLast : OpenPlan[p - OpenFirst + 1] = OpenCall(p)
  BY OpenPlanCalls
<1>2. /\ OpenFirst \in {1, 5} /\ OpenLast \in {4, 14}
      /\ OpenFirst = 1 <=> mdb # NoPort
  BY OpenBounds
<1> DEFINE k == q - OpenFirst + 1
<1>3. k \in 1..Len(OpenPlan) /\ todo = From(OpenPlan, k)
  BY <1>1, <1>2 DEF OpenDue
<1>4. /\ todo \in Seq(Calls) /\ Len(todo) = Len(OpenPlan) - k + 1
      /\ \A i \in 1..(Len(OpenPlan) - k + 1) : todo[i] = OpenPlan[k + i - 1]
  BY <1>1, <1>3, FromStep
<1>5. ASSUME NEW i \in DOMAIN todo
      PROVE  /\ i \in Int /\ (q + i) - 1 \in q..OpenLast /\ (q + i) - 1 \in 1..14
             /\ todo[i] = OpenCall((q + i) - 1)
  <2>1. i \in 1..(Len(OpenPlan) - k + 1)
    BY <1>4, LenProperties
  <2>2. (q + i) - 1 \in OpenFirst..OpenLast /\ (q + i) - 1 \in q..OpenLast
    BY <1>1, <1>2, <2>1
  <2>3. ((q + i) - 1) - OpenFirst + 1 = k + i - 1
    BY <1>2, <2>1
  <2>4. todo[i] = OpenPlan[k + i - 1]
    BY <1>4, <2>1
  <2>5. i \in Int /\ (q + i) - 1 \in 1..14
    <3>1. q \in Int /\ Len(OpenPlan) \in Int /\ (Len(OpenPlan) - k + 1) \in Int
      BY <1>1, <1>2
    <3>2. i \in Int
      BY <2>1, <3>1
    <3>3. (q + i) - 1 \in 1..14
      BY <1>2, <2>2, <3>1, <3>2
    <3> QED
      BY <3>2, <3>3
  <2> HIDE DEF k
  <2>6. todo[i] = OpenCall((q + i) - 1)
    <3>1. PICK p \in OpenFirst..OpenLast : p = (q + i) - 1
      BY <2>2
    <3>2. OpenPlan[p - OpenFirst + 1] = OpenCall(p) /\ p - OpenFirst + 1 = k + i - 1
      BY <1>1, <2>3, <3>1
    <3> QED
      BY <2>4, <3>1, <3>2
  <2> QED
    BY <2>2, <2>6, <2>5
<1>6. ASSUME NEW i \in DOMAIN todo, NamesWave(todo[i])
      PROVE  todo[i].on \in gpio.waves /\ \A j \in DOMAIN todo : todo[j] = todo[i] => j = i
  <2> DEFINE p == (q + i) - 1
  <2>1. /\ p \in q..OpenLast /\ p \in 1..14 /\ todo[i] = OpenCall(p) /\ i \in Int
        /\ (p = 3 /\ todo[i].on = mdb.ack) \/ (p = 4 /\ todo[i].on = mdb.nak)
    BY <1>5, <1>6, OpenNames
  <2>2. mdb # NoPort /\ q <= p
    BY <1>2, <2>1
  <2>3. /\ mdb.ack \in waves /\ mdb.nak \in waves /\ mdb.ack # mdb.nak
    BY <2>2 DEF WavesOwned, PortWaves
  <2>4. todo[i].on \in gpio.waves
    <3>1. CASE p = 3
      <4>1. gpio.waves = waves
        BY <1>2, <2>2, <3>1 DEF OpenHolds
      <4> QED
        BY <2>1, <2>3, <3>1, <4>1
    <3>2. CASE p = 4
      <4>1. gpio.waves = waves \/ gpio.waves = waves \ {mdb.ack}
        BY <1>2, <2>2, <3>2 DEF OpenHolds
      <4> QED
        BY <2>1, <2>3, <3>2, <4>1
    <3> QED
      BY <2>1, <3>1, <3>2
  <2>5. ASSUME NEW j \in DOMAIN todo, todo[j] = todo[i] PROVE j = i
    <3> DEFINE r == (q + j) - 1
    <3>1. r \in 1..14 /\ todo[j] = OpenCall(r) /\ j \in Int
      BY <1>5
    <3>2. (r = 3 /\ todo[i].on = mdb.ack) \/ (r = 4 /\ todo[i].on = mdb.nak)
      BY <1>6, <2>5, <3>1, OpenNames
    <3>3. r = p
      BY <2>1, <2>3, <3>2
    <3> QED
      BY <1>2, <2>1, <3>1, <3>3
  <2> QED
    BY <2>4, <2>5
<1> QED
  BY <1>6 DEF Named

\* The one wave an MDB_TX sends is the one it made.
LEMMA TxNamed ==
  ASSUME mdb \in Port, NEW k \in 1..4, todo = From(TxPlan, k)
  PROVE  Named(todo)
<1>1. /\ TxPlan \in Seq(Calls) /\ Len(TxPlan) = 4
      /\ \A i \in 1..4 : ~NamesWave(TxPlan[i])
  <2>1. ASSUME NEW i \in 1..4 PROVE ~NamesWave(TxPlan[i])
    <3>1. i = 1 \/ i = 2 \/ i = 3 \/ i = 4
      OBVIOUS
    <3> QED
      BY <3>1, TxPlanCalls DEF NamesWave, Call
  <2> QED
    BY <2>1, TxPlanCalls
<1>2. k \in 1..Len(TxPlan)
  BY <1>1
<1>3. /\ todo \in Seq(Calls) /\ Len(todo) = Len(TxPlan) - k + 1
      /\ \A i \in 1..(Len(TxPlan) - k + 1) : todo[i] = TxPlan[k + i - 1]
  BY <1>1, <1>2, FromStep
<1>4. ASSUME NEW i \in DOMAIN todo PROVE ~NamesWave(todo[i])
  <2>1. i \in 1..(Len(TxPlan) - k + 1)
    BY <1>3, LenProperties
  <2>2. k + i - 1 \in 1..4
    BY <1>1, <2>1
  <2> QED
    BY <1>1, <1>3, <2>1, <2>2
<1> QED
  BY <1>4 DEF Named

LEMMA CallsNamed == DTypeOK /\ Stage /\ Pigpio /\ PigpioStage => Named(todo)
<1> SUFFICES ASSUME DTypeOK, Stage, Pigpio, PigpioStage PROVE Named(todo)
  OBVIOUS
<1>1. /\ made \in Seq(WaveIds) /\ mdb \in Port \cup {NoPort} /\ request \in Request /\ WavesOwned
  BY DEF DTypeOK, PigpioStage, TypeOK, ServerInv
<1>2. CASE todo = <<>>
  BY <1>2, NamedNone
<1>3. CASE pc = "exec" /\ OpenStage
  <2>1. request.cmd = "MDB_OPEN"
    BY <1>3 DEF OpenStage
  <2>2. PICK closed \in Closes :
         \/ \E q \in OpenFirst..OpenLast : OpenDue(q) /\ OpenHolds(gpio, made, q, closed)
         \/ OpenUndone /\ OpenHolds(gpio, made, 12, closed)
    BY <1>3 DEF OpenStage
  <2>3. ASSUME OpenUndone, OpenHolds(gpio, made, 12, closed) PROVE Named(todo)
    <3>1. PICK q \in Int : q = 12
      OBVIOUS
    <3>2. made[1] \in gpio.waves
      BY <2>3, <3>1 DEF OpenHolds
    <3> QED
      BY <1>1, <2>3, <3>2, NamedDeletes DEF OpenUndone
  <2> QED
    BY <1>1, <2>1, <2>2, <2>3, OpenNamed
<1>4. CASE pc = "exec" /\ TxStage
  <2>1. /\ mdb \in Port /\ TxHolds
        /\ (\E k \in 1..4 : TxDue(k)) \/ TxUndone
    BY <1>1, <1>4 DEF TxStage
  <2>2. ASSUME TxUndone PROVE Named(todo)
    <3>1. Len(made) = 1 /\ todo = Deletes(made)
      BY <2>2 DEF TxUndone
    <3>2. made # <<>>
      BY SMTT(30), <1>1, <3>1
    <3>3. made[1] \in gpio.waves
      BY <2>1, <3>2 DEF TxHolds
    <3> QED
      BY <1>1, <3>1, <3>3, NamedDeletes
  <2> QED
    BY <2>1, <2>2, TxNamed DEF TxDue
<1>5. CASE pc \in Sends \cup {"receiving"}
  <2>1. made = <<txWave>> /\ Agree
    BY <1>5 DEF Stage, SendStage, ReceiveStage
  <2>2. /\ mdb \in Port /\ Len(made) = 1 /\ made[1] \in gpio.waves /\ mdb # NoPort
    BY <1>5, <2>1, TxRuns DEF Agree
  <2>3. mdb.ack \in gpio.waves /\ mdb.nak \in gpio.waves
    BY <1>1, <2>1, <2>2 DEF WavesOwned, PortWaves, Agree
  <2>4. Named(Deletes(made))
    BY <1>1, <2>2, NamedDeletes
  <2>5. Named(<<Busy>>) /\ Named(<<Poll>>) /\ Named(<<TxStop("try")>>)
    <3>1. ~NamesWave(Busy) /\ ~NamesWave(Poll) /\ ~NamesWave(TxStop("try"))
      BY DEF NamesWave, Busy, Poll, TxStop, Call
    <3> QED
      BY <3>1, NamedOne
  <2>6. Named(<<Send(mdb.ack)>>) /\ Named(<<Send(mdb.nak)>>)
    <3>1. Send(mdb.ack).on = mdb.ack /\ Send(mdb.nak).on = mdb.nak
      BY DEF Send, Call
    <3> QED
      BY <2>3, <3>1, NamedOne
  <2>7. Named(<<TxStop("try")>> \o Deletes(made))
    <3> DEFINE c == TxStop("try")
               d == Call("WaveDelete", made[1], "drop")
    <3>1. ~NamesWave(c) /\ d.on = made[1]
      BY DEF NamesWave, TxStop, Call
    <3>2. /\ Deletes(made) = <<d>> /\ c \in Calls /\ d \in Calls
      BY <1>1, <2>2, DeletesSome, DeletesOne, Singles
    <3> HIDE DEF c, d
    <3>3. Named(<<c>> \o <<d>>)
      BY <2>2, <3>1, <3>2, NamedTwo
    <3> QED
      BY <3>2, <3>3 DEF c
  <2>8. <<TxStop("try")>> \o <<>> = <<TxStop("try")>>
    BY <2>2, Singles
  <2>9. CASE pc \in Sends
    <3>1. \/ todo = <<Busy>> \/ todo = Deletes(made)
          \/ todo = <<TxStop("try")>> \o <<>> \/ todo = <<TxStop("try")>> \o Deletes(made)
      BY <2>9 DEF Stage, SendStage
    <3> QED
      BY <2>4, <2>5, <2>7, <2>8, <3>1
  <2>10. CASE pc = "receiving"
    <3>1. \/ todo = <<Poll>> \/ todo = Deletes(made)
          \/ todo = <<Send(mdb.ack)>> \/ todo = <<Send(mdb.nak)>>
      BY <2>10 DEF Stage, ReceiveStage
    <3> QED
      BY <2>4, <2>5, <2>6, <3>1
  <2> QED
    BY <1>5, <2>9, <2>10
<1> QED
  BY <1>2, <1>3, <1>4, <1>5 DEF Stage

-----------------------------------------------------------------------------
(* The invariant, and what follows from it.                                *)

LEMMA DInvInit == DInit => DInv
<1> SUFFICES ASSUME DInit PROVE DInv
  OBVIOUS
<1>1. PICK b \in Builds : gpio = Fresh(b)
  BY DEF DInit
<1>2. /\ Init /\ todo = <<>> /\ failed = FALSE /\ made = <<>>
  BY DEF DInit
<1>3. /\ gpio \in Gpio /\ gpio.by = b /\ gpio.serial = {} /\ gpio.waves = {}
      /\ gpio.inflight = {} /\ b \in {"pigpio", "mock"}
  BY <1>1, GpioAssumption DEF Fresh, Gpio
<1>4. Agree
  BY <1>2, <1>3 DEF Init, Agree
<1>5. TypeOK /\ ServerInv
  BY <1>2, TypeInit, InvInit
<1>6. pc = "read" /\ mdb = NoPort /\ high = {} /\ txWave = NoWave
  BY <1>2 DEF Init
<1>7. DTypeOK
  BY <1>2, <1>3, EmptySeq DEF DTypeOK
<1>8. Stage
  BY <1>2, <1>4, <1>6 DEF Stage, Sends
<1>9. ~Pigpio => MockStage
  BY <1>1, <1>3, <1>4, <1>5, <1>6 DEF Pigpio, MockStage, Ended
<1> QED
  BY <1>5, <1>6, <1>7, <1>8, <1>9 DEF DInv, PigpioStage

LEMMA DInvStep ==
  ASSUME DInv, [DNext]_<<vars, detail>>
  PROVE  /\ DInv'
         /\ [gpio.by = "pigpio" => Next]_vars
         /\ [gpio.by = "mock" => Session!Next]_(Session!vars)
<1>1. gpio.by \in {"pigpio", "mock"}
  BY GpioAssumption DEF DInv, DTypeOK, Gpio
<1>2. CASE Pigpio
  <2>1. /\ DTypeOK' /\ Stage' /\ gpio'.by = gpio.by
        /\ [Next]_vars /\ (mock' => mdb' = NoPort)
    BY <1>2, PigpioStep DEF DInv
  <2>2. TypeOK' /\ ServerInv'
    BY <1>2, <2>1, TypeStep, InvStep DEF DInv, PigpioStage, ServerInv
  <2>3. Pigpio' /\ gpio.by # "mock"
    BY <1>2, <2>1 DEF Pigpio
  <2> QED
    BY <2>1, <2>2, <2>3 DEF DInv, PigpioStage
<1>3. CASE ~Pigpio
  <2>1. /\ DTypeOK' /\ Stage' /\ gpio'.by = gpio.by /\ MockStage'
        /\ [Session!Next]_(Session!vars)
    BY <1>3, MockStep DEF DInv
  <2>2. ~Pigpio' /\ gpio.by # "pigpio"
    BY <1>3, <2>1 DEF Pigpio
  <2> QED
    BY <2>1, <2>2 DEF DInv
<1> QED
  BY <1>2, <1>3

LEMMA DCorrect == DSpec => []DInv
<1>1. DInv /\ [DNext]_<<vars, detail>> => DInv'
  BY DInvStep
<1> QED
  BY <1>1, DInvInit, PTL DEF DSpec

\* The calls due, the waves made and pigpio keep their types.
THEOREM DTypeCorrect == DSpec => []DTypeOK
<1>1. DInv => DTypeOK
  BY DEF DInv
<1> QED
  BY <1>1, DCorrect, PTL

\* However the calls fail, no wave is deleted twice and none is sent after its
\* deletion: what is dropped on the way out is what was made (mdb.rs:62, :89).
THEOREM CallsLive == DSpec => []CallsNameLiveWaves
<1>1. DInv => CallsNameLiveWaves
  <2> SUFFICES ASSUME DInv, Pigpio PROVE Named(todo)
    BY DEF CallsNameLiveWaves, Named, NamesWave, Pigpio
  <2> QED
    BY CallsNamed DEF DInv
<1> QED
  BY <1>1, DCorrect, PTL

\* Every call of a handler is a step of IodinServer or leaves no trace it can see;
\* with mock.rs the port still answers as MdbSession promises.
THEOREM ServerImplemented == DSpec => ImplementsServer
<1>1. DInit => Init /\ Session!Init
  BY DEF DInit, Init, Session!Init, Ended
<1>2. DInv /\ [DNext]_<<vars, detail>> => [gpio.by = "pigpio" => Next]_vars
  BY DInvStep
<1>3. DInv /\ [DNext]_<<vars, detail>> => [gpio.by = "mock" => Session!Next]_(Session!vars)
  BY DInvStep
<1> QED
  BY <1>1, <1>2, <1>3, DCorrect, PTL DEF DSpec, ImplementsServer
=============================================================================
