------------------------------ MODULE IodinServer ------------------------------
(***************************************************************************)
(* The iodin process: Server::run and Server::exec of server.rs over the   *)
(* GpioMdb of mdb.rs, and what they hold of pigpio, a library whose checked *)
(* calls may fail: serial readers (one per rx pin), waves, the wave being   *)
(* transmitted, the level bus_reset puts on a tx pin.                      *)
(*                                                                         *)
(* The process has one thread.  Handlers are one action each, except that  *)
(* MDB_RESET and MDB_TX, which wait, are cut where a kill can find them.    *)
(* The words on the bus are in MdbTx, the deadlines in MdbTiming.          *)
(***************************************************************************)
EXTENDS Naturals

CONSTANTS
  Pins,        \* GPIO numbers an MDB_OPEN may name
  WaveIds,     \* pigpio's wave identifiers
  NoPort,      \* mdb: None
  NoWave

ASSUME ServerAssumption ==
  /\ NoWave \notin WaveIds
  /\ NoPort \notin [rx : Pins, tx : Pins, ack : WaveIds, nak : WaveIds]

VARIABLES
  pc,         \* where run is, or how the process ended
  mock,       \* Server.mock
  running,    \* Server.running
  mdb,        \* Server.mdb
  request,    \* the request being served
  status,     \* response.status
  txWave,     \* the local wave of GpioMdb::tx
  serial,     \* pigpio: rx pins with an open serial reader
  waves,      \* pigpio: waves created and not deleted
  inflight,   \* pigpio: waves being transmitted or queued for it
  high,       \* pins bus_reset wrote 1 to and did not write 0 to since
  lateSend    \* history: a send was given up since the last gpioWaveTxStop

vars == <<pc, mock, running, mdb, request, status, txWave,
          serial, waves, inflight, high, lateSend>>
server == <<mock, running, mdb, request>>
pigpio == <<serial, waves, inflight, high>>

Port == [rx : Pins, tx : Pins, ack : WaveIds, nak : WaveIds]
Ended == {"exited", "panicked"}
Sends == {"requesting", "acking", "naking"}

\* Requests, told apart by what exec tells apart.
Request ==
  [cmd : {"INVALID", "STOP", "unparsable"}, arg : {<<>>}]
    \cup [cmd : {"MDB_OPEN"}, arg : (Pins \X Pins) \cup {<<>>}]
    \cup [cmd : {"MDB_RESET"}, arg : {<<"fits">>, <<"overflow">>}]
    \cup [cmd : {"MDB_TX"}, arg : {<<"empty">>, <<"fits">>, <<"long">>}]

\* The waves the values of the process own.
PortWaves == IF mdb = NoPort THEN {} ELSE {mdb.ack, mdb.nak}
TxWaves == {txWave} \ {NoWave}

-----------------------------------------------------------------------------
Respond(s) == pc' = "reply" /\ status' = s

Exec(c) == pc = "exec" /\ request.cmd = c

\* The process ends in the way e; pigpio's state is the process's own, the
\* level of a pin stays.
End(e) ==
  /\ pc' = e
  /\ mdb' = NoPort /\ txWave' = NoWave /\ running' = FALSE
  /\ serial' = {} /\ waves' = {} /\ inflight' = {} /\ lateSend' = FALSE
  /\ UNCHANGED <<mock, request, status, high>>

Init ==
  /\ pc = "read" /\ mock \in BOOLEAN /\ running = TRUE
  /\ mdb = NoPort /\ txWave = NoWave
  /\ request = [cmd |-> "INVALID", arg |-> <<>>] /\ status = "INVALID"
  /\ serial = {} /\ waves = {} /\ inflight = {} /\ high = {} /\ lateSend = FALSE

\* Server::new and the head of run, in a process started anew.
Restart ==
  /\ pc \in Ended
  /\ pc' = "read" /\ mock' \in BOOLEAN /\ running' = TRUE
  /\ UNCHANGED <<mdb, request, status, txWave, serial, waves, inflight, high, lateSend>>

-----------------------------------------------------------------------------
(* Server::run.                                                            *)

\* A length and the request of that length are read, parsable or not.
Read(r) ==
  /\ pc = "read"
  /\ pc' = "exec" /\ request' = r /\ status' = "INVALID"
  /\ UNCHANGED <<mock, running, mdb, txWave, lateSend>> /\ UNCHANGED pigpio

\* End of input, or a length no limit allows.
ReadError == pc = "read" /\ End("exited")

\* Mutant: run goes on after STOP.
WriteAndGoOn ==
  /\ pc = "reply"
  /\ \/ pc' = "read"
        /\ UNCHANGED <<status, txWave, lateSend>> /\ UNCHANGED server /\ UNCHANGED pigpio
     \/ End("exited")

\* The response is written; run ends after the one to STOP, or when a write fails.
Write ==
  /\ pc = "reply"
  /\ \/ running /\ pc' = "read"
        /\ UNCHANGED <<status, txWave, lateSend>> /\ UNCHANGED server /\ UNCHANGED pigpio
     \/ End("exited")

-----------------------------------------------------------------------------
(* Server::exec, but for MDB_RESET and MDB_TX on an open port.             *)

ExecRefused ==
  /\ \/ Exec("INVALID") \/ Exec("unparsable")
     \/ (Exec("MDB_RESET") \/ Exec("MDB_TX")) /\ mdb = NoPort
  /\ Respond("ERR_INPUT")
  /\ UNCHANGED <<txWave, lateSend>> /\ UNCHANGED server /\ UNCHANGED pigpio

ExecStop ==
  /\ Exec("STOP")
  /\ running' = FALSE
  /\ Respond("OK")
  /\ UNCHANGED <<mock, mdb, request, txWave, lateSend>> /\ UNCHANGED pigpio

\* self.mdb = None: GpioMdb::close stops the transmission and closes the reader,
\* unless the first of the two calls fails (then stopped is false); the waves
\* of the port are deleted.
SerialAfterClose(stopped) ==
  IF mdb # NoPort /\ stopped THEN serial \ {mdb.rx} ELSE serial
InflightAfterClose(stopped) ==
  IF mdb # NoPort /\ stopped THEN {} ELSE inflight

\* Mutant: mdb is not set to None before its arguments are looked at.
OpenFailsKeeping(stopped) ==
  /\ serial' = SerialAfterClose(stopped)
  /\ waves' = waves \ PortWaves
  /\ inflight' = InflightAfterClose(stopped)
  /\ lateSend' = (lateSend /\ inflight' # {})
  /\ Respond(IF request.arg = <<>> THEN "ERR_INPUT" ELSE "ERR_HARDWARE")
  /\ UNCHANGED mdb

\* An MDB_OPEN that fails, after the old port was dropped: its arguments are
\* wrong, or GpioMdb::new fails before the reader is open.
OpenFails(stopped) ==
  /\ mdb' = NoPort
  /\ serial' = SerialAfterClose(stopped)
  /\ waves' = waves \ PortWaves
  /\ inflight' = InflightAfterClose(stopped)
  /\ lateSend' = (lateSend /\ inflight' # {})
  /\ Respond(IF request.arg = <<>> THEN "ERR_INPUT" ELSE "ERR_HARDWARE")

\* GpioMdb::new fails at gpioWaveTxStop or at a wave, once the reader is open:
\* the waves made so far are dropped, the reader is not closed.
OpenFailsLate(stopped) ==
  /\ request.arg # <<>>
  /\ request.arg[1] \notin SerialAfterClose(stopped)
  /\ mdb' = NoPort
  /\ serial' = SerialAfterClose(stopped) \cup {request.arg[1]}
  /\ waves' = waves \ PortWaves
  /\ inflight' \in {InflightAfterClose(stopped), {}}
  /\ lateSend' = (lateSend /\ inflight' # {})
  /\ Respond("ERR_HARDWARE")

\* Mutant: a reader that is open already is used as it is.
OpenSucceedsShared(stopped) ==
  /\ request.arg # <<>>
  /\ \E ack, nak \in WaveIds \ (waves \ PortWaves) :
       /\ ack # nak
       /\ mdb' = [rx |-> request.arg[1], tx |-> request.arg[2], ack |-> ack, nak |-> nak]
       /\ waves' = (waves \ PortWaves) \cup {ack, nak}
  /\ serial' = SerialAfterClose(stopped) \cup {request.arg[1]}
  /\ inflight' = {} /\ lateSend' = FALSE
  /\ Respond("OK")

\* GpioMdb::new succeeds: a reader that was not open, two waves.
OpenSucceeds(stopped) ==
  /\ request.arg # <<>>
  /\ request.arg[1] \notin SerialAfterClose(stopped)
  /\ \E ack, nak \in WaveIds \ (waves \ PortWaves) :
       /\ ack # nak
       /\ mdb' = [rx |-> request.arg[1], tx |-> request.arg[2], ack |-> ack, nak |-> nak]
       /\ waves' = (waves \ PortWaves) \cup {ack, nak}
  /\ serial' = SerialAfterClose(stopped) \cup {request.arg[1]}
  /\ inflight' = {} /\ lateSend' = FALSE
  /\ Respond("OK")

ExecOpen ==
  /\ Exec("MDB_OPEN")
  /\ \E stopped \in BOOLEAN :
       OpenFails(stopped) \/ OpenFailsLate(stopped) \/ OpenSucceeds(stopped)
  /\ UNCHANGED <<mock, running, request, txWave, high>>

-----------------------------------------------------------------------------
(* MDB_RESET on an open port: GpioMdb::bus_reset.                          *)

\* The duration is checked, 1 is written to the tx pin.
ResetBegin ==
  /\ Exec("MDB_RESET") /\ mdb # NoPort
  /\ \/ Respond("ERR_HARDWARE") /\ UNCHANGED high
     \/ /\ request.arg = <<"fits">>
        /\ high' = high \cup {mdb.tx}
        /\ pc' = "resetting" /\ UNCHANGED status
  /\ UNCHANGED <<txWave, serial, waves, inflight, lateSend>> /\ UNCHANGED server

\* Mutant: the pin is never written 0.
ResetEndHigh ==
  /\ pc = "resetting"
  /\ Respond("OK") \/ Respond("ERR_HARDWARE")
  /\ UNCHANGED <<txWave, serial, waves, inflight, high, lateSend>> /\ UNCHANGED server

\* The delay is over; writing 0 succeeds or not.
ResetEnd ==
  /\ pc = "resetting"
  /\ \/ Respond("OK") /\ high' = high \ {mdb.tx}
     \/ Respond("ERR_HARDWARE") /\ UNCHANGED high
  /\ UNCHANGED <<txWave, serial, waves, inflight, lateSend>> /\ UNCHANGED server

-----------------------------------------------------------------------------
(* MDB_TX on an open port: GpioMdb::tx, its waves and the way out.         *)

\* Mutants: a status of its own for timeouts; a wave that is not dropped.
TxReturnTimeout(s) ==
  /\ Respond(IF s = "OK" THEN s ELSE "ERR_TIMEOUT")
  /\ waves' = waves \ TxWaves /\ txWave' = NoWave

TxReturnLeaking(s) == Respond(s) /\ txWave' = NoWave /\ UNCHANGED waves

\* tx returns: its local wave is dropped.
TxReturn(s) ==
  /\ Respond(s)
  /\ waves' = waves \ TxWaves /\ txWave' = NoWave

TxMock ==
  /\ Exec("MDB_TX") /\ mdb # NoPort /\ mock
  /\ Respond("OK")
  /\ UNCHANGED <<txWave, lateSend>> /\ UNCHANGED server /\ UNCHANGED pigpio

\* assert!(!request.is_empty()), assert!(request.len() < BLOCK_MAX_LENGTH).
TxPanic ==
  /\ Exec("MDB_TX") /\ mdb # NoPort /\ ~mock
  /\ request.arg \in {<<"empty">>, <<"long">>}
  /\ End("panicked")

\* The wave of the request is created and sent; either call may fail.
TxBegin ==
  /\ Exec("MDB_TX") /\ mdb # NoPort /\ ~mock /\ request.arg = <<"fits">>
  /\ \/ /\ Respond("ERR_HARDWARE")
        /\ UNCHANGED <<txWave, waves, inflight>>
     \/ \E w \in WaveIds \ waves :
          /\ txWave' = w /\ waves' = waves \cup {w}
          /\ inflight' = inflight \cup {w}
          /\ pc' = "requesting" /\ UNCHANGED status
  /\ UNCHANGED <<serial, high, lateSend>> /\ UNCHANGED server

\* Mutant: the end of the transmission is not waited for, nor is it stopped.
SendDoneAtOnce ==
  /\ pc \in Sends
  /\ CASE pc = "requesting" -> /\ pc' = "receiving"
                               /\ UNCHANGED <<status, waves, txWave>>
       [] pc = "acking" -> TxReturn("OK")
       [] pc = "naking" -> TxReturn("ERR_HARDWARE")
  /\ lateSend' = FALSE
  /\ UNCHANGED <<serial, inflight, high>> /\ UNCHANGED server

\* mdb_wave_send_wait sees the transmission over and stops it.
SendDone ==
  /\ pc \in Sends /\ inflight = {}
  /\ CASE pc = "requesting" -> /\ pc' = "receiving"
                               /\ UNCHANGED <<status, waves, txWave>>
       [] pc = "acking" -> TxReturn("OK")
       [] pc = "naking" -> TxReturn("ERR_HARDWARE")
  /\ lateSend' = FALSE
  /\ UNCHANGED <<serial, inflight, high>> /\ UNCHANGED server

\* mdb_wave_send_wait fails: the transmission is given up but not stopped.
SendGivenUp ==
  /\ pc \in Sends
  /\ TxReturn("ERR_HARDWARE")
  /\ lateSend' = TRUE
  /\ UNCHANGED <<serial, inflight, high>> /\ UNCHANGED server

\* The answer of the peripheral ends tx, in whatever way, or a block of it is
\* answered with the port's ACK or NAK wave; sending that may fail.
Received ==
  /\ pc = "receiving"
  /\ \/ /\ \E s \in {"OK", "ERR_HARDWARE"} : TxReturn(s)
        /\ UNCHANGED inflight
     \/ /\ \/ pc' = "acking" /\ inflight' = inflight \cup {mdb.ack}
           \/ pc' = "naking" /\ inflight' = inflight \cup {mdb.nak}
        /\ UNCHANGED <<status, waves, txWave>>
  /\ UNCHANGED <<serial, high, lateSend>> /\ UNCHANGED server

-----------------------------------------------------------------------------
\* pigpio: a transmission ends.
Transmitted(w) ==
  /\ w \in inflight
  /\ inflight' = inflight \ {w}
  /\ UNCHANGED <<pc, status, txWave, serial, waves, high, lateSend>> /\ UNCHANGED server

\* SIGTERM or SIGKILL, from Client.Close or anyone.
Kill == pc \notin Ended /\ End("exited")

Next ==
  \/ Restart
  \/ \E r \in Request : Read(r)
  \/ ReadError
  \/ Write
  \/ ExecRefused \/ ExecStop \/ ExecOpen
  \/ ResetBegin \/ ResetEnd
  \/ TxMock \/ TxPanic \/ TxBegin
  \/ SendDone \/ SendGivenUp \/ Received
  \/ \E w \in WaveIds : Transmitted(w)
  \/ Kill

Spec == Init /\ [][Next]_vars

-----------------------------------------------------------------------------
TypeOK ==
  /\ pc \in {"read", "exec", "reply", "resetting", "receiving"} \cup Sends \cup Ended
  /\ mock \in BOOLEAN /\ running \in BOOLEAN /\ lateSend \in BOOLEAN
  /\ mdb \in Port \cup {NoPort}
  /\ request \in Request
  /\ status \in {"INVALID", "OK", "ERR_INPUT", "ERR_HARDWARE"}
  /\ txWave \in WaveIds \cup {NoWave}
  /\ serial \subseteq Pins /\ high \subseteq Pins
  /\ waves \subseteq WaveIds /\ inflight \subseteq WaveIds

\* No wave of pigpio is leaked or used after its deletion: those that exist
\* are exactly those that the port and a running tx own, each owned once.
WavesOwned ==
  /\ waves = PortWaves \cup TxWaves
  /\ mdb # NoPort => mdb.ack # mdb.nak
  /\ txWave \notin PortWaves

\* An open port reads from a reader that is open.
PortReads == mdb # NoPort => mdb.rx \in serial

\* A wave is not deleted, and so not made anew, while it is transmitted,
\* unless its send was given up (mdb.rs:43): that path does not stop it.
InflightAlive == ~lateSend => inflight \subseteq waves

\* Readers nobody can close: not the port's.
Orphans == serial \ (IF mdb = NoPort THEN {} ELSE {mdb.rx})

\* A reader that an MDB_OPEN left behind blocks its pin as long as the process
\* lives: it is never closed, and no later MDB_OPEN of that pin succeeds.
OrphansStay ==
  [][pc' \notin Ended =>
       /\ Orphans \subseteq Orphans'
       /\ Orphans' # Orphans => pc' = "reply" /\ request.cmd = "MDB_OPEN"]_vars

\* A tx pin stays high after the reset of its port only if that reset failed,
\* and said so, or the process was killed in it; nothing else raises a pin.
HeldByFailedReset ==
  [][\A p \in high' :
       \/ pc' = "resetting"
       \/ p \in high /\ (pc = "resetting" => p # mdb.tx)
       \/ pc = "resetting" /\ (pc' \in Ended \/ status' = "ERR_HARDWARE")]_vars

-----------------------------------------------------------------------------
(* The server implements MdbSession.                                       *)

Session == INSTANCE MdbSession WITH
  phase   <- CASE pc = "read" -> "idle"
               [] pc = "reply" -> "answered"
               [] pc \in Ended -> "ended"
               [] OTHER -> "busy",
  command <- request.cmd,
  answer  <- status,
  open    <- mdb # NoPort

ImplementsSession == Session!Spec

\* assert!(!request.is_empty()) (mdb.rs:111): tx is never called with a request
\* it refuses to send, so the server does not panic.
NoPanic == pc # "panicked"
=============================================================================
