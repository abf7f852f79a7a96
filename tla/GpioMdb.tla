-------------------------------- MODULE GpioMdb --------------------------------
(***************************************************************************)
(* GpioMdb of mdb.rs and the wrapper of pigpio-rust/src/lib.rs, one pigpio *)
(* call at a time: what an MDB_OPEN and an MDB_TX call in which order,     *)
(* what the first failing call cuts off, and what is dropped then.         *)
(*                                                                         *)
(* It implements IodinServer, whose variables it extends: those show       *)
(* pigpio as it was at the last step that module can see, gpio shows it as *)
(* it is.  Built without pigpio, mock.rs answers the calls (gpio.by).      *)
(***************************************************************************)
EXTENDS IodinServer, Sequences, SequencesExt

CONSTANTS
  Builds,     \* what the program may be built with, "pigpio" and "mock"
  UserPins    \* the pins up to PI_MAX_USER_GPIO, which read serially and carry waves

ASSUME GpioAssumption ==
  /\ Builds \subseteq {"pigpio", "mock"} /\ UserPins \subseteq Pins
  /\ "made" \notin Pins \cup WaveIds \cup {NoWave}

VARIABLES
  todo,       \* the pigpio calls due before the handler is through or waits
  failed,     \* one of them has failed, and ? has left new or tx
  made,       \* the waves new or tx has created, in order
  gpio        \* pigpio, or mock.rs, which has no state

detail == <<todo, failed, made, gpio>>

Calls ==
  [fn : {"SetMode", "SerialReadOpen", "SerialRead", "SerialReadClose", "WaveAddNew",
         "WaveAddSerial", "WaveCreate", "WaveDelete", "WaveTxSend", "WaveTxBusy", "WaveTxStop"},
   on : Pins \cup WaveIds \cup {NoWave, "made"},
   scope : {"try", "close", "drop"}]
Gpio == [by : Builds, serial : SUBSET Pins, waves : SUBSET WaveIds,
         inflight : SUBSET WaveIds]

\* A call and the function a failure of it leaves: new and tx by ?, close too,
\* though drop ignores its error, or none.
Call(f, x, s) == [fn |-> f, on |-> x, scope |-> s]

NewWave(p) ==
  <<Call("WaveAddNew", NoWave, "try"), Call("WaveAddSerial", p, "try"),
    Call("WaveCreate", NoWave, "try")>>
Deletes(ws) == [i \in DOMAIN ws |-> Call("WaveDelete", ws[i], "drop")]
TxStop(scope) == Call("WaveTxStop", NoWave, scope)
\* What w stands for may be the last wave made.
Send(w) == Call("WaveTxSend", w, "try")
Busy == Call("WaveTxBusy", NoWave, "try")
Poll == Call("SerialRead", NoWave, "try")

\* GpioMdb::drop, then its fields; GpioMdb::new.
DropPort ==
  <<TxStop("close"), Call("SerialReadClose", mdb.rx, "close")>>
    \o Deletes(<<mdb.ack, mdb.nak>>)
New(rx, tx) ==
  <<Call("SetMode", rx, "try"), Call("SetMode", tx, "try"),
    Call("SerialReadOpen", rx, "try"), TxStop("try")>>
    \o NewWave(tx) \o NewWave(tx)

-----------------------------------------------------------------------------
(* pigpio.                                                                 *)

MockFails == {"SerialReadClose", "SerialRead", "WaveDelete", "WaveTxSend", "Write"}

\* May check find the return code of a call good, or bad?  Without gpioInitialise
\* (Server.mock) none is good.
Outcomes(f, x) ==
  IF gpio.by = "mock" THEN {f \notin MockFails}
  ELSE IF mock THEN {FALSE}
  ELSE CASE f = "SerialReadOpen" /\ (x \notin UserPins \/ x \in gpio.serial) -> {FALSE}
         [] f = "WaveAddSerial" /\ x \notin UserPins -> {FALSE}
         [] f = "WaveCreate" /\ gpio.waves = WaveIds -> {FALSE}
         [] f = "WaveTxSend" /\ x \notin gpio.waves -> {FALSE}
         [] f = "SerialReadClose" -> {x \in gpio.serial}
         [] f = "WaveDelete" -> {x \in gpio.waves}
         [] OTHER -> BOOLEAN

\* Mutant: the wave is known by the return code of another call.
AfterStale(f, x, w) ==
  IF f = "WaveCreate" THEN [gpio EXCEPT !.waves = @ \cup {x}] ELSE gpio

\* The id gpioWaveCreate may return; mock.rs knows one.
NewIds == IF gpio.by = "mock" THEN {CHOOSE w \in WaveIds : TRUE} ELSE WaveIds \ gpio.waves

\* What a good call does to pigpio; w is the wave it creates.
After(f, x, w) ==
  IF gpio.by = "mock" THEN gpio
  ELSE CASE f = "SerialReadOpen"  -> [gpio EXCEPT !.serial = @ \cup {x}]
         [] f = "SerialReadClose" -> [gpio EXCEPT !.serial = @ \ {x}]
         [] f = "WaveCreate"      -> [gpio EXCEPT !.waves = @ \cup {w}]
         [] f = "WaveDelete"      -> [gpio EXCEPT !.waves = @ \ {x}]
         [] f = "WaveTxSend"      -> [gpio EXCEPT !.inflight = @ \cup {x}]
         [] f = "WaveTxStop"      -> [gpio EXCEPT !.inflight = {}]
         [] OTHER                 -> gpio

\* What IodinServer sees of it.
Publish(late) ==
  /\ serial' = gpio'.serial /\ waves' = gpio'.waves /\ inflight' = gpio'.inflight
  /\ lateSend' = late
  /\ UNCHANGED <<mock, running, request, high>>

-----------------------------------------------------------------------------
Fresh(b) == [by |-> b, serial |-> {}, waves |-> {}, inflight |-> {}]
Idle == todo' = <<>> /\ failed' = FALSE /\ made' = <<>>

DInit ==
  /\ Init /\ todo = <<>> /\ failed = FALSE /\ made = <<>>
  /\ \E b \in Builds : gpio = Fresh(b)

Wait(p, calls) ==
  /\ pc' = p /\ todo' = calls /\ failed' = FALSE
  /\ UNCHANGED <<status, mdb>>

\* new returns, or the arguments were wrong.
OpenReturns(ok, ws) ==
  /\ mdb' = IF ok THEN [rx |-> request.arg[1], tx |-> request.arg[2],
                        ack |-> ws[1], nak |-> ws[2]]
            ELSE NoPort
  /\ Respond(IF request.arg = <<>> THEN "ERR_INPUT" ELSE IF ok THEN "OK" ELSE "ERR_HARDWARE")
  /\ Publish(lateSend /\ inflight' # {})
  /\ Idle /\ UNCHANGED txWave

\* tx returns, its wave deleted.
TxReturns(ok, late) ==
  /\ Respond(IF ok THEN "OK" ELSE "ERR_HARDWARE")
  /\ txWave' = NoWave
  /\ Publish(late)
  /\ Idle /\ UNCHANGED mdb

\* The last call due was c; bad says that one has failed.
Conclude(c, bad, ws) ==
  CASE request.cmd = "MDB_OPEN" -> OpenReturns(~bad /\ request.arg # <<>>, ws)
    [] pc = "exec" /\ request.cmd = "MDB_TX" ->
         IF bad THEN TxReturns(FALSE, lateSend)
         ELSE /\ Wait("requesting", <<Busy>>) /\ txWave' = ws[1] /\ made' = ws
              /\ Publish(lateSend)
    [] pc = "requesting" ->
         IF bad THEN TxReturns(FALSE, TRUE)
         ELSE Wait("receiving", <<Poll>>) /\ Publish(FALSE) /\ UNCHANGED <<txWave, made>>
    [] pc = "receiving" ->
         IF c.fn = "WaveTxSend" /\ ~bad
           THEN /\ Wait(IF c.on = mdb.ack THEN "acking" ELSE "naking", <<Busy>>)
                /\ Publish(lateSend) /\ UNCHANGED <<txWave, made>>
           ELSE TxReturns(~bad, lateSend)
    [] OTHER -> TxReturns(~bad /\ pc = "acking", bad)

\* Mutants: what fails while dropping is tried again later; new leaves its waves
\* behind; tx drops its wave on the way out and once more.
RestRetrying(c, ok) ==
  CASE ok -> Tail(todo)
    [] ~ok /\ c.scope = "try" -> Deletes(made)
    [] OTHER -> Append(Tail(todo), c)

RestLeaking(c, ok) ==
  CASE ok \/ c.scope = "drop" -> Tail(todo)
    [] ~ok /\ c.scope = "close" -> SelectSeq(todo, LAMBDA d : d.scope # "close")
    [] OTHER -> IF request.cmd = "MDB_OPEN" THEN <<>> ELSE Deletes(made)

RestTwice(c, ok) ==
  CASE ok \/ c.scope = "drop" -> Tail(todo)
    [] OTHER -> SelectSeq(todo, LAMBDA d : d.scope # c.scope) \o Deletes(made)

\* What is due after close, whose calls come first.
BeyondClose ==
  LET n == CHOOSE n \in DOMAIN todo :
             \A i \in DOMAIN todo : todo[i].scope = "close" <=> i <= n
  IN SubSeq(todo, n + 1, Len(todo))

\* What is left to call after c: a failing call cuts off the rest of its function,
\* new and tx delete the waves they made when they fail.
Rest(c, ok) ==
  CASE ok \/ c.scope = "drop" -> Tail(todo)
    [] ~ok /\ c.scope = "close" -> BeyondClose
    [] OTHER -> Deletes(made)

\* The next call, of those that do not poll.
NextCall ==
  /\ todo # <<>> /\ Head(todo) \notin {Busy, Poll}
  /\ LET c == Head(todo)
         x == IF c.on = "made" THEN Last(made) ELSE c.on
     IN \E ok \in Outcomes(c.fn, x), w \in WaveIds :
          /\ c.fn = "WaveCreate" /\ ok => w \in NewIds
          /\ gpio' = IF ok THEN After(c.fn, x, w) ELSE gpio
          /\ LET ws == IF ok /\ c.fn = "WaveCreate" THEN Append(made, w) ELSE made
                 bad == failed \/ (~ok /\ c.scope = "try")
                 rest == Rest(c, ok)
             IN IF rest = <<>> THEN Conclude(c, bad, ws)
                ELSE todo' = rest /\ failed' = bad /\ made' = ws /\ UNCHANGED vars

\* exec calls GpioMdb: MDB_OPEN drops the old port and makes a new one, MDB_TX
\* makes a wave and sends it.
ExecCalls ==
  /\ pc = "exec" /\ todo = <<>>
  /\ \/ /\ request.cmd = "MDB_OPEN"
        /\ LET calls == (IF mdb = NoPort THEN <<>> ELSE DropPort)
                          \o (IF request.arg = <<>> THEN <<>>
                              ELSE New(request.arg[1], request.arg[2]))
           IN /\ UNCHANGED gpio
              /\ IF calls = <<>> THEN OpenReturns(FALSE, <<>>)
                 ELSE todo' = calls /\ UNCHANGED <<failed, made, vars>>
     \/ /\ request.cmd = "MDB_TX" /\ mdb # NoPort /\ ~mock /\ request.arg = <<"fits">>
        /\ todo' = NewWave(mdb.tx) \o <<Send("made")>>
        /\ UNCHANGED <<failed, made, gpio, vars>>

\* mdb_wave_send_wait sees the transmission over, and stops it, or gives it up:
\* gpioWaveTxBusy failed, or the deadline has passed.
PollSend ==
  /\ todo = <<Busy>>
  /\ \/ /\ TRUE \in Outcomes("WaveTxBusy", NoWave) /\ gpio.inflight = {}
        /\ todo' = <<TxStop("try")>> \o (IF pc = "requesting" THEN <<>> ELSE Deletes(made))
        /\ UNCHANGED failed
     \/ todo' = Deletes(made) /\ failed' = TRUE
  /\ UNCHANGED <<made, gpio, vars>>

\* wait_receive fails, or the answer is there: a lone byte, or a block to be
\* answered.
PollReceive ==
  /\ todo = <<Poll>>
  /\ \/ TRUE \in Outcomes("SerialRead", NoWave) /\ UNCHANGED failed
        /\ todo' \in {Deletes(made), <<Send(mdb.ack)>>, <<Send(mdb.nak)>>}
     \/ todo' = Deletes(made) /\ failed' = TRUE
  /\ UNCHANGED <<made, gpio, vars>>

\* gpioWrite, once at each end of the delay of bus_reset.
ResetCall ==
  /\ ResetBegin \/ ResetEnd
  /\ high' = high => FALSE \in Outcomes("Write", NoWave) \/ mdb.tx \in high
  /\ high' # high => TRUE \in Outcomes("Write", NoWave)

\* What IodinServer has as one step already: handlers that do not wait for pigpio,
\* and what surrounds them.  The end of the process is pigpio's.
Follow == IF pc' \in Ended THEN Idle /\ gpio' = Fresh(gpio.by) ELSE UNCHANGED detail
ExecWhole == (ExecRefused \/ ExecStop \/ TxMock \/ TxPanic \/ ResetCall) /\ Follow
Around ==
  /\ Restart \/ (\E r \in Request : Read(r)) \/ ReadError \/ Write \/ Kill
  /\ Follow

TransmissionEnds(w) ==
  /\ w \in gpio.inflight
  /\ gpio' = [gpio EXCEPT !.inflight = @ \ {w}]
  /\ inflight' = inflight \ {w}
  /\ UNCHANGED <<pc, status, txWave, serial, waves, high, lateSend, server,
                 todo, failed, made>>

DNext ==
  \/ ExecCalls \/ NextCall \/ PollSend \/ PollReceive
  \/ ExecWhole \/ Around
  \/ \E w \in WaveIds : TransmissionEnds(w)

\* A handler goes on, and what it polls for comes or is given up: which it is, short
\* of a wrap of the counter (mdb.rs:42, see MdbTiming).
DSpec ==
  /\ DInit /\ [][DNext]_<<vars, detail>>
  /\ WF_<<vars, detail>>(ExecCalls \/ NextCall \/ PollSend \/ PollReceive \/ ExecWhole)

-----------------------------------------------------------------------------
DTypeOK ==
  /\ todo \in Seq(Calls) /\ failed \in BOOLEAN /\ made \in Seq(WaveIds)
  /\ gpio \in Gpio

\* However the calls of a handler fail and whatever is dropped then, IodinServer
\* sees only what its one step for that handler allows: the order of calls, the
\* early returns and the destructors leave no other trace in pigpio.  With mock.rs
\* it still keeps what MdbSession promises a client.
ImplementsServer ==
  /\ Init
  /\ [][gpio.by = "pigpio" => Next]_vars
  /\ Session!Init /\ [][gpio.by = "mock" => Session!Next]_(Session!vars)

\* No wave is deleted twice and none is sent after its deletion.
CallsNameLiveWaves ==
  gpio.by = "pigpio" =>
    \A i \in DOMAIN todo :
      todo[i].fn \in {"WaveDelete", "WaveTxSend"} /\ todo[i].on # "made"
        => todo[i].on \in gpio.waves /\ \A j \in DOMAIN todo : todo[j] = todo[i] => j = i

\* Every handler comes to its end, an MDB_TX with its waits and its answer included,
\* although close and the drops behind it fail, as all of them do with mock.rs
\* (mock.rs:11, :54): no failure is tried again and nothing is dropped for ever.
\* That each of its polls ends is fairness here; MdbTiming says how long it takes.
Handling == {"exec", "resetting", "receiving"} \cup Sends
HandlersReturn == pc \in Handling ~> pc \notin Handling
=============================================================================
