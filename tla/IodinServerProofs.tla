-------------------------- MODULE IodinServerProofs --------------------------
(* Proofs about IodinServer, for all pins and wave identifiers.            *)
EXTENDS IodinServer, TLAPS

\* What a state of the process implies about its values: only a running tx has
\* a wave of its own, tx and bus_reset run on an open port, STOP ends run.
Control ==
  /\ txWave # NoWave <=> pc \in Sends \cup {"receiving"}
  /\ pc \in Sends \cup {"receiving"} => mdb # NoPort /\ request.cmd = "MDB_TX"
  /\ pc = "receiving" => inflight = {}
  /\ ~lateSend /\ pc \notin Sends => inflight = {}
  /\ pc = "resetting" => mdb # NoPort /\ request.cmd = "MDB_RESET"
  /\ pc \in Ended => mdb = NoPort /\ waves = {} /\ inflight = {}
  /\ pc = "reply" /\ request.cmd = "STOP" => ~running

\* The inductive invariant.
ServerInv == Control /\ WavesOwned /\ PortReads /\ InflightAlive

-----------------------------------------------------------------------------
\* Only pins of an MDB_OPEN get into the port.
LEMMA OpenArgs ==
  ASSUME NEW r \in Request, r.cmd = "MDB_OPEN", r.arg # <<>>
  PROVE  r.arg[1] \in Pins /\ r.arg[2] \in Pins
<1>1. r \in [cmd : {"MDB_OPEN"}, arg : (Pins \X Pins) \cup {<<>>}]
  BY DEF Request
<1>2. r.arg \in Pins \X Pins
  BY <1>1
<1> QED
  BY <1>2

LEMMA TypeInit == Init => TypeOK
<1> SUFFICES ASSUME Init PROVE TypeOK
  OBVIOUS
<1>1. request \in [cmd : {"INVALID", "STOP", "unparsable"}, arg : {<<>>}]
  BY DEF Init
<1>2. request \in Request
  BY <1>1 DEF Request
<1> QED
  BY <1>2 DEF Init, TypeOK

LEMMA TypeEnd ==
  ASSUME TypeOK, NEW e \in Ended, End(e)
  PROVE  TypeOK'
  BY DEF End, TypeOK

LEMMA TypeOpen == TypeOK /\ ExecOpen => TypeOK'
<1> SUFFICES ASSUME TypeOK, ExecOpen PROVE TypeOK'
  OBVIOUS
<1> USE DEF TypeOK
<1>1. UNCHANGED <<mock, running, request, txWave, high>> /\ request.cmd = "MDB_OPEN"
  BY DEF ExecOpen, Exec
<1>2. PICK stopped \in BOOLEAN :
        OpenFails(stopped) \/ OpenFailsLate(stopped) \/ OpenSucceeds(stopped)
  BY DEF ExecOpen
<1>3. SerialAfterClose(stopped) \subseteq Pins /\ InflightAfterClose(stopped) \subseteq WaveIds
  BY DEF SerialAfterClose, InflightAfterClose
<1>4. CASE OpenFails(stopped)
  BY <1>1, <1>3, <1>4 DEF OpenFails, Respond
<1>5. CASE OpenFailsLate(stopped)
  BY <1>1, <1>3, <1>5, OpenArgs DEF OpenFailsLate, Respond
<1>6. CASE OpenSucceeds(stopped)
  <2>1. mdb' \in Port
    BY <1>1, <1>6, OpenArgs DEF OpenSucceeds, Port
  <2> QED
    BY <1>1, <1>3, <1>6, <2>1, OpenArgs DEF OpenSucceeds, Respond
<1> QED
  BY <1>2, <1>4, <1>5, <1>6

LEMMA TypeStep == TypeOK /\ Control /\ [Next]_vars => TypeOK'
<1> SUFFICES ASSUME TypeOK, Control, [Next]_vars PROVE TypeOK'
  OBVIOUS
<1> USE DEF TypeOK
<1>1. CASE Restart
  BY <1>1 DEF Restart
<1>2. ASSUME NEW r \in Request, Read(r) PROVE TypeOK'
  BY <1>2 DEF Read, pigpio
<1>3. CASE ReadError \/ Kill
  BY <1>3, TypeEnd DEF ReadError, Kill, Ended
<1>4. CASE Write
  BY <1>4, TypeEnd DEF Write, Ended, server, pigpio
<1>5. CASE ExecRefused
  BY <1>5 DEF ExecRefused, Respond, server, pigpio
<1>6. CASE ExecStop
  BY <1>6 DEF ExecStop, Respond, pigpio
<1>7. CASE ExecOpen
  BY <1>7, TypeOpen
<1>8. CASE ResetBegin
  <2>1. mdb \in Port
    BY <1>8 DEF ResetBegin
  <2> QED
    BY <1>8, <2>1 DEF ResetBegin, Respond, server, Port
<1>9. CASE ResetEnd
  BY <1>9 DEF ResetEnd, Respond, server
<1>10. CASE TxMock
  BY <1>10 DEF TxMock, Respond, server, pigpio
<1>11. CASE TxPanic
  BY <1>11, TypeEnd DEF TxPanic, Ended
<1>12. CASE TxBegin
  BY <1>12 DEF TxBegin, Respond, server, Sends
<1>13. CASE SendDone
  BY <1>13 DEF SendDone, TxReturn, Respond, server, Sends
<1>14. CASE SendGivenUp
  BY <1>14 DEF SendGivenUp, TxReturn, Respond, server
<1>15. CASE Received
  <2>1. CASE \E s \in {"OK", "ERR_HARDWARE"} : TxReturn(s)
    BY <1>15, <2>1 DEF Received, TxReturn, Respond, server
  <2>2. ASSUME ~ \E s \in {"OK", "ERR_HARDWARE"} : TxReturn(s) PROVE TypeOK'
    <3>1. mdb \in Port
      BY <1>15 DEF Received, Control
    <3> QED
      BY <1>15, <2>2, <3>1 DEF Received, server, Port, Sends
  <2> QED
    BY <2>1, <2>2
<1>16. ASSUME NEW w \in WaveIds, Transmitted(w) PROVE TypeOK'
  BY <1>16 DEF Transmitted, server
<1>17. CASE UNCHANGED vars
  BY <1>17 DEF vars
<1> QED
  BY <1>1, <1>2, <1>3, <1>4, <1>5, <1>6, <1>7, <1>8, <1>9, <1>10, <1>11, <1>12,
     <1>13, <1>14, <1>15, <1>16, <1>17 DEF Next

-----------------------------------------------------------------------------
LEMMA InvInit == Init => ServerInv
  BY DEF Init, ServerInv, Control, WavesOwned, PortReads, InflightAlive, PortWaves,
         TxWaves, Sends, Ended

\* A process that ended holds nothing.
LEMMA InvEnd ==
  ASSUME NEW e \in Ended, End(e)
  PROVE  ServerInv'
  BY DEF End, ServerInv, Control, WavesOwned, PortReads, InflightAlive, PortWaves,
         TxWaves, Sends, Ended

\* Steps that leave the port, its waves and its reader alone.
LEMMA InvSameWaves ==
  ASSUME ServerInv, UNCHANGED <<mdb, txWave, waves, serial>>
  PROVE  WavesOwned' /\ PortReads'
  BY DEF ServerInv, WavesOwned, PortReads, PortWaves, TxWaves

LEMMA InvOpen == TypeOK /\ ServerInv /\ ExecOpen => ServerInv'
<1> SUFFICES ASSUME TypeOK, ServerInv, ExecOpen PROVE ServerInv'
  OBVIOUS
<1> USE ServerAssumption
<1>1. /\ UNCHANGED <<mock, running, request, txWave, high>>
      /\ request.cmd = "MDB_OPEN" /\ txWave = NoWave
      /\ waves = PortWaves /\ (~lateSend => inflight = {})
  BY DEF ExecOpen, Exec, ServerInv, Control, WavesOwned, InflightAlive, TxWaves, Sends
<1>2. PICK stopped \in BOOLEAN :
        OpenFails(stopped) \/ OpenFailsLate(stopped) \/ OpenSucceeds(stopped)
  BY DEF ExecOpen
<1>3. CASE OpenFails(stopped) \/ OpenFailsLate(stopped)
  <2>1. mdb' = NoPort /\ waves' = {} /\ pc' = "reply"
    BY <1>1, <1>3 DEF OpenFails, OpenFailsLate, Respond
  <2>2. ~lateSend' => inflight' = {}
    <3>1. lateSend' = (lateSend /\ inflight' # {})
      BY <1>3 DEF OpenFails, OpenFailsLate
    <3>2. CASE lateSend
      BY <3>1, <3>2
    <3>3. CASE ~lateSend
      <4>1. InflightAfterClose(stopped) = {}
        BY <1>1, <3>3 DEF InflightAfterClose
      <4> QED
        BY <1>3, <4>1 DEF OpenFails, OpenFailsLate
    <3> QED
      BY <3>2, <3>3
  <2> QED
    BY <1>1, <2>1, <2>2 DEF ServerInv, Control, WavesOwned, PortReads, InflightAlive,
       PortWaves, TxWaves, Sends, Ended
<1>4. CASE OpenSucceeds(stopped)
  <2>1. PICK ack \in WaveIds, nak \in WaveIds :
          /\ ack # nak
          /\ mdb' = [rx |-> request.arg[1], tx |-> request.arg[2], ack |-> ack, nak |-> nak]
          /\ waves' = (waves \ PortWaves) \cup {ack, nak}
    BY <1>4 DEF OpenSucceeds
  <2>2. mdb' # NoPort
    <3>1. request \in Request /\ request.arg # <<>>
      BY <1>4 DEF TypeOK, OpenSucceeds
    <3>2. request.arg[1] \in Pins /\ request.arg[2] \in Pins
      BY <1>1, <3>1, OpenArgs
    <3> QED
      BY <2>1, <3>2
  <2>3. waves' = {ack, nak} /\ request.arg[1] \in serial' /\ inflight' = {} /\ pc' = "reply"
    BY <1>1, <1>4, <2>1 DEF OpenSucceeds, Respond
  <2> QED
    BY <1>1, <2>1, <2>2, <2>3 DEF ServerInv, Control, WavesOwned, PortReads, InflightAlive,
       PortWaves, TxWaves, Sends, Ended
<1> QED
  BY <1>2, <1>3, <1>4

\* A tx that returns leaves the port's waves.
LEMMA InvTxReturn ==
  ASSUME TypeOK, ServerInv, NEW s, TxReturn(s), UNCHANGED <<mdb, request, serial, running>>,
         txWave # NoWave, request.cmd = "MDB_TX",
         lateSend' \/ inflight' = {}
  PROVE  ServerInv'
<1>1. waves' = PortWaves /\ txWave' = NoWave /\ pc' = "reply" /\ PortWaves' = PortWaves
  BY DEF TxReturn, Respond, ServerInv, WavesOwned, PortWaves, TxWaves
<1>2. NoWave \notin PortWaves
  BY ServerAssumption DEF TypeOK, Port, PortWaves
<1> QED
  BY <1>1, <1>2 DEF ServerInv, Control, WavesOwned, PortReads, InflightAlive, TxWaves, Sends,
     Ended, PortWaves

LEMMA InvStep == TypeOK /\ ServerInv /\ [Next]_vars => ServerInv'
<1> SUFFICES ASSUME TypeOK, ServerInv, [Next]_vars PROVE ServerInv'
  OBVIOUS
<1> USE ServerAssumption
<1> USE DEF ServerInv, Control, InflightAlive, Sends, Ended
<1>1. CASE Restart
  BY <1>1, InvSameWaves DEF Restart
<1>2. ASSUME NEW r \in Request, Read(r) PROVE ServerInv'
  BY <1>2, InvSameWaves DEF Read, pigpio
<1>3. CASE ReadError \/ Kill
  BY <1>3, InvEnd DEF ReadError, Kill
<1>4. CASE Write
  <2>1. CASE running /\ pc' = "read" /\ UNCHANGED <<status, txWave, lateSend>>
             /\ UNCHANGED server /\ UNCHANGED pigpio
    BY <1>4, <2>1, InvSameWaves DEF Write, server, pigpio
  <2>2. CASE End("exited")
    BY <2>2, InvEnd
  <2> QED
    BY <1>4, <2>1, <2>2 DEF Write
<1>5. CASE ExecRefused
  BY <1>5, InvSameWaves DEF ExecRefused, Exec, Respond, server, pigpio
<1>6. CASE ExecStop
  BY <1>6, InvSameWaves DEF ExecStop, Exec, Respond, pigpio
<1>7. CASE ExecOpen
  BY <1>7, InvOpen
<1>8. CASE ResetBegin
  BY <1>8, InvSameWaves DEF ResetBegin, Exec, Respond, server
<1>9. CASE ResetEnd
  BY <1>9, InvSameWaves DEF ResetEnd, Respond, server
<1>10. CASE TxMock
  BY <1>10, InvSameWaves DEF TxMock, Exec, Respond, server, pigpio
<1>11. CASE TxPanic
  BY <1>11, InvEnd DEF TxPanic
<1>12. CASE TxBegin
  <2>1. CASE Respond("ERR_HARDWARE") /\ UNCHANGED <<txWave, waves, inflight>>
    BY <1>12, <2>1, InvSameWaves DEF TxBegin, Exec, Respond, server
  <2>2. ASSUME NEW w \in WaveIds \ waves,
               txWave' = w, waves' = waves \cup {w}, inflight' = inflight \cup {w},
               pc' = "requesting"
        PROVE  ServerInv'
    <3>1. waves = PortWaves /\ PortWaves' = PortWaves /\ w # NoWave
      BY <1>12 DEF TxBegin, Exec, WavesOwned, PortWaves, TxWaves, server
    <3>2. WavesOwned' /\ PortReads'
      BY <1>12, <2>2, <3>1 DEF TxBegin, WavesOwned, PortReads, TxWaves, server
    <3> QED
      BY <1>12, <2>2, <3>1, <3>2 DEF TxBegin, Exec, server
  <2> QED
    BY <1>12, <2>1, <2>2 DEF TxBegin
<1>13. CASE SendDone
  <2>1. CASE pc = "requesting"
    BY <1>13, <2>1, InvSameWaves DEF SendDone, server
  <2>2. ASSUME NEW s, TxReturn(s) PROVE ServerInv'
    BY <1>13, <2>2, InvTxReturn DEF SendDone, server
  <2> QED
    BY <1>13, <2>1, <2>2 DEF SendDone
<1>14. CASE SendGivenUp
  BY <1>14, InvTxReturn DEF SendGivenUp, server
<1>15. CASE Received
  <2>1. ASSUME NEW s, TxReturn(s), UNCHANGED inflight PROVE ServerInv'
    BY <1>15, <2>1, InvTxReturn DEF Received, server
  <2>2. ASSUME NEW w \in PortWaves, inflight' = inflight \cup {w},
               pc' \in {"acking", "naking"}, UNCHANGED <<waves, txWave>>
        PROVE  ServerInv'
    BY <1>15, <2>2, InvSameWaves DEF Received, server, WavesOwned
  <2> QED
    BY <1>15, <2>1, <2>2 DEF Received, PortWaves
<1>16. ASSUME NEW w \in WaveIds, Transmitted(w) PROVE ServerInv'
  BY <1>16, InvSameWaves DEF Transmitted, server
<1>17. CASE UNCHANGED vars
  BY <1>17, InvSameWaves DEF vars
<1> QED
  BY <1>1, <1>2, <1>3, <1>4, <1>5, <1>6, <1>7, <1>8, <1>9, <1>10, <1>11, <1>12,
     <1>13, <1>14, <1>15, <1>16, <1>17 DEF Next

-----------------------------------------------------------------------------
LEMMA Correct == Spec => [](TypeOK /\ ServerInv)
<1>1. Init => TypeOK /\ ServerInv
  BY TypeInit, InvInit
<1>2. TypeOK /\ ServerInv /\ [Next]_vars => (TypeOK /\ ServerInv)'
  BY TypeStep, InvStep DEF ServerInv
<1> QED
  BY <1>1, <1>2, PTL DEF Spec

\* The process and what it holds of pigpio keep their types.
THEOREM TypeCorrect == Spec => []TypeOK
  BY Correct, PTL

\* Every wave is owned by the port or by the running tx, and by one of them.
THEOREM WavesAreOwned == Spec => []WavesOwned
<1>1. ServerInv => WavesOwned
  BY DEF ServerInv
<1> QED
  BY Correct, <1>1, PTL

\* The reader of an open port is open.
THEOREM PortCanRead == Spec => []PortReads
<1>1. ServerInv => PortReads
  BY DEF ServerInv
<1> QED
  BY Correct, <1>1, PTL

\* What is transmitted exists, unless a send was given up.
THEOREM InflightIsAlive == Spec => []InflightAlive
<1>1. ServerInv => InflightAlive
  BY DEF ServerInv
<1> QED
  BY Correct, <1>1, PTL

-----------------------------------------------------------------------------
(* Readers left behind.                                                    *)

\* No step closes a reader that is not the port's, and only an MDB_OPEN makes
\* one that nobody can close.
LEMMA OrphanStep ==
  ASSUME TypeOK, ServerInv, [Next]_vars, pc' \notin Ended
  PROVE  /\ Orphans \subseteq Orphans'
         /\ Orphans' # Orphans => pc' = "reply" /\ request.cmd = "MDB_OPEN"
<1>1. CASE UNCHANGED <<mdb, serial>>
  BY <1>1 DEF Orphans
<1>2. CASE ExecOpen
  <2>1. PICK stopped \in BOOLEAN :
          OpenFails(stopped) \/ OpenFailsLate(stopped) \/ OpenSucceeds(stopped)
    BY <1>2 DEF ExecOpen
  <2>2. Orphans \subseteq SerialAfterClose(stopped) \* the port closes only its own
    BY DEF Orphans, SerialAfterClose
  <2>3. CASE OpenFails(stopped) \/ OpenFailsLate(stopped)
    BY <1>2, <2>2, <2>3 DEF OpenFails, OpenFailsLate, Respond, Orphans, ExecOpen, Exec
  <2>4. CASE OpenSucceeds(stopped)
    <3>1. mdb' # NoPort
      <4>1. request \in Request /\ request.arg # <<>> /\ request.cmd = "MDB_OPEN"
        BY <1>2, <2>4 DEF TypeOK, OpenSucceeds, ExecOpen, Exec
      <4>2. request.arg[1] \in Pins /\ request.arg[2] \in Pins
        BY <4>1, OpenArgs
      <4> QED
        BY <2>4, <4>2, ServerAssumption DEF OpenSucceeds
    <3>2. mdb'.rx = request.arg[1] /\ request.arg[1] \notin SerialAfterClose(stopped)
          /\ serial' = SerialAfterClose(stopped) \cup {request.arg[1]} /\ pc' = "reply"
      BY <2>4 DEF OpenSucceeds, Respond
    <3>3. Orphans' = SerialAfterClose(stopped)
      BY <3>1, <3>2 DEF Orphans
    <3> QED
      BY <1>2, <2>2, <3>2, <3>3 DEF ExecOpen, Exec
  <2> QED
    BY <2>1, <2>3, <2>4
<1>3. CASE \E e \in Ended : End(e)
  BY <1>3 DEF End
<1>4. ~ExecOpen /\ ~(\E e \in Ended : End(e)) => UNCHANGED <<mdb, serial>>
  BY DEF Next, vars, server, pigpio, Ended, Restart, Read, ReadError, Write, ExecRefused,
     ExecStop, ResetBegin, ResetEnd, TxMock, TxPanic, TxBegin, SendDone, SendGivenUp,
     Received, Transmitted, Kill
<1> QED
  BY <1>1, <1>2, <1>3, <1>4

\* A reader left behind by a failed MDB_OPEN blocks its pin while the process lives.
THEOREM OrphansStayOpen == Spec => OrphansStay
<1>1. TypeOK /\ ServerInv /\ [Next]_vars =>
        [pc' \notin Ended =>
           /\ Orphans \subseteq Orphans'
           /\ Orphans' # Orphans => pc' = "reply" /\ request.cmd = "MDB_OPEN"]_vars
  BY OrphanStep
<1> QED
  BY <1>1, Correct, PTL DEF Spec, OrphansStay

\* What a step does to the levels of pins, and how a reset may be left.
LEMMA HighEffect ==
  ASSUME [Next]_vars
  PROVE  \/ ResetBegin \/ ResetEnd
         \/ /\ high' = high
            /\ pc # "resetting" \/ pc' = "resetting" \/ pc' \in Ended
<1>1. ASSUME NEW e \in Ended, End(e) PROVE high' = high /\ pc' \in Ended
  BY <1>1 DEF End
<1>2. CASE ReadError \/ Kill \/ TxPanic
  BY <1>1, <1>2 DEF ReadError, Kill, TxPanic, Ended
<1>3. CASE Restart \/ (\E r \in Request : Read(r))
  BY <1>3 DEF Restart, Read, pigpio, Ended
<1>4. CASE Write
  BY <1>1, <1>4 DEF Write, pigpio, Ended
<1>5. CASE ExecRefused \/ ExecStop \/ TxMock \/ TxBegin
  BY <1>5 DEF ExecRefused, ExecStop, TxMock, TxBegin, Exec, pigpio
<1>6. CASE ExecOpen
  BY <1>6 DEF ExecOpen, Exec
<1>7. CASE SendDone \/ SendGivenUp \/ Received
  BY <1>7 DEF SendDone, SendGivenUp, Received, Sends
<1>8. CASE \E w \in WaveIds : Transmitted(w)
  BY <1>8 DEF Transmitted
<1>9. CASE UNCHANGED vars
  BY <1>9 DEF vars, pigpio, server
<1> QED
  BY <1>2, <1>3, <1>4, <1>5, <1>6, <1>7, <1>8, <1>9 DEF Next

\* Only a reset that fails, or is killed, leaves its pin high (mdb.rs:101).
THEOREM HeldByFailedResets == Spec => HeldByFailedReset
<1> DEFINE Held == \A p \in high' :
             \/ pc' = "resetting"
             \/ p \in high /\ (pc = "resetting" => p # mdb.tx)
             \/ pc = "resetting" /\ (pc' \in Ended \/ status' = "ERR_HARDWARE")
<1>1. [Next]_vars => [Held]_vars
  <2> SUFFICES ASSUME [Next]_vars, NEW p \in high'
               PROVE  \/ pc' = "resetting"
                      \/ p \in high /\ (pc = "resetting" => p # mdb.tx)
                      \/ pc = "resetting" /\ (pc' \in Ended \/ status' = "ERR_HARDWARE")
    OBVIOUS
  <2>1. CASE ResetBegin
    BY <2>1 DEF ResetBegin, Exec
  <2>2. CASE ResetEnd
    BY <2>2 DEF ResetEnd, Respond
  <2> QED BY <2>1, <2>2, HighEffect
<1> QED
  BY <1>1, PTL DEF Spec, HeldByFailedReset

-----------------------------------------------------------------------------
(* The server implements MdbSession.                                       *)

LEMMA SessionStep ==
  ASSUME TypeOK, Control, [Next]_vars
  PROVE  [Session!Next]_(Session!vars)
<1> USE DEF Session!vars, Sends, Ended
<1> USE DEF Control
<1>1. CASE Restart
  BY <1>1 DEF Restart, Session!Next, Session!Restart
<1>2. ASSUME NEW r \in Request, Read(r) PROVE Session!Next
  <2>1. r.cmd \in Session!Commands
    BY DEF Request, Session!Commands
  <2> QED
    BY <1>2, <2>1 DEF Read, Session!Next, Session!Ask, Request
<1>3. ASSUME NEW e \in Ended, End(e), pc \notin Ended PROVE Session!Next
  BY <1>3 DEF End, Session!Next, Session!End
<1>4. CASE Write /\ pc' = "read"
  BY <1>4 DEF Write, End, server, Session!Next, Session!Deliver
<1>5. ASSUME NEW s \in Session!Allowed(request.cmd), s \in Session!Statuses,
             Respond(s), UNCHANGED <<request>>,
             pc \notin {"read", "reply"} \cup Ended,
             (mdb' # NoPort) = IF request.cmd = "MDB_OPEN" THEN s = "OK" ELSE mdb # NoPort
      PROVE  Session!Next
  BY <1>5 DEF Respond, Session!Next, Session!Answer
<1>6. CASE ReadError \/ Kill
  BY <1>3, <1>6 DEF ReadError, Kill
<1>7. CASE Write
  BY <1>3, <1>4, <1>7 DEF Write
<1>8. CASE ExecRefused
  BY <1>5, <1>8 DEF ExecRefused, Exec, server, Session!Allowed, Session!Statuses
<1>9. CASE ExecStop
  BY <1>5, <1>9 DEF ExecStop, Exec, Session!Allowed, Session!Statuses
<1>10. CASE ExecOpen
  <2>1. PICK stopped \in BOOLEAN :
          OpenFails(stopped) \/ OpenFailsLate(stopped) \/ OpenSucceeds(stopped)
    BY <1>10 DEF ExecOpen
  <2>2. UNCHANGED request /\ pc = "exec" /\ request.cmd = "MDB_OPEN"
    BY <1>10 DEF ExecOpen, Exec
  <2>3. CASE OpenFails(stopped) \/ OpenFailsLate(stopped)
    BY <1>5, <2>2, <2>3 DEF OpenFails, OpenFailsLate, Session!Allowed, Session!Statuses
  <2>4. CASE OpenSucceeds(stopped)
    <3>1. mdb' # NoPort
      <4>1. request.arg[1] \in Pins /\ request.arg[2] \in Pins
        BY <2>2, <2>4, OpenArgs DEF TypeOK, OpenSucceeds
      <4> QED
        BY <2>4, <4>1, ServerAssumption DEF OpenSucceeds
    <3> QED
      BY <1>5, <2>2, <2>4, <3>1 DEF OpenSucceeds, Session!Allowed, Session!Statuses
  <2> QED
    BY <2>1, <2>3, <2>4
<1>11. ASSUME NEW s \in {"OK", "ERR_HARDWARE"}, Respond(s), UNCHANGED <<request, mdb>>,
              pc \notin {"read", "reply"} \cup Ended,
              mdb # NoPort, request.cmd \in {"MDB_RESET", "MDB_TX"}
       PROVE  Session!Next
  BY <1>5, <1>11 DEF Session!Allowed, Session!Statuses
<1>12. CASE ResetBegin
  <2>1. CASE Respond("ERR_HARDWARE")
    BY <1>11, <1>12, <2>1 DEF ResetBegin, Exec, server
  <2>2. CASE pc' = "resetting" /\ UNCHANGED status
    BY <1>12, <2>2 DEF ResetBegin, Exec, server
  <2> QED
    BY <1>12, <2>1, <2>2 DEF ResetBegin
<1>13. CASE ResetEnd
  BY <1>11, <1>13 DEF ResetEnd, server
<1>14. CASE TxMock
  BY <1>11, <1>14 DEF TxMock, Exec, server
<1>15. CASE TxPanic
  BY <1>3, <1>15 DEF TxPanic, Exec
<1>16. CASE TxBegin
  <2>1. CASE Respond("ERR_HARDWARE")
    BY <1>11, <1>16, <2>1 DEF TxBegin, Exec, server
  <2>2. CASE pc' = "requesting" /\ UNCHANGED status
    BY <1>16, <2>2 DEF TxBegin, Exec, server
  <2> QED
    BY <1>16, <2>1, <2>2 DEF TxBegin
<1>17. CASE SendDone
  <2>1. CASE pc' = "receiving" /\ UNCHANGED status
    BY <1>17, <2>1 DEF SendDone, server
  <2>2. ASSUME NEW s \in {"OK", "ERR_HARDWARE"}, TxReturn(s) PROVE Session!Next
    BY <1>11, <1>17, <2>2 DEF SendDone, TxReturn, server
  <2> QED
    BY <1>17, <2>1, <2>2 DEF SendDone
<1>18. CASE SendGivenUp
  BY <1>11, <1>18 DEF SendGivenUp, TxReturn, server
<1>19. CASE Received
  <2>1. ASSUME NEW s \in {"OK", "ERR_HARDWARE"}, TxReturn(s) PROVE Session!Next
    BY <1>11, <1>19, <2>1 DEF Received, TxReturn, server
  <2>2. CASE pc' \in {"acking", "naking"} /\ UNCHANGED status
    BY <1>19, <2>2 DEF Received, server
  <2> QED
    BY <1>19, <2>1, <2>2 DEF Received
<1>20. ASSUME NEW w \in WaveIds, Transmitted(w) PROVE UNCHANGED Session!vars
  BY <1>20 DEF Transmitted, server
<1>21. CASE UNCHANGED vars
  BY <1>21 DEF vars
<1> QED
  BY <1>1, <1>2, <1>6, <1>7, <1>8, <1>9, <1>10, <1>12, <1>13, <1>14, <1>15, <1>16,
     <1>17, <1>18, <1>19, <1>20, <1>21 DEF Next

\* Whatever fails, the server keeps the promises of MdbSession to its client.
THEOREM SessionImplemented == Spec => ImplementsSession
<1>1. Init => Session!Init
  BY DEF Init, Session!Init, Ended
<1>2. TypeOK /\ ServerInv /\ [Next]_vars => [Session!Next]_(Session!vars)
  BY SessionStep DEF ServerInv
<1> QED
  BY <1>1, <1>2, Correct, PTL DEF Spec, Session!Spec, ImplementsSession
=============================================================================
