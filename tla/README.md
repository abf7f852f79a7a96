# iodin in TLA+

iodin drives an MDB bus (the serial bus of vending machine peripherals, 9-bit
words at 9600 baud) from a Raspberry Pi. A Rust process owns the GPIO through
the C library pigpio and serves requests on its stdin and stdout; a Go client
starts the process and talks to it over two pipes. This directory models both
sides and what lies between them, checks the models with TLC and proves the
main invariants with TLAPS.

## Inventory

| Component | Source | State | Operations |
|---|---|---|---|
| MDB port | `cmd/iodin/src/mdb.rs` | pins, the ACK and NAK waves, `buf` | `new`, `close`/drop, `bus_reset`, `tx` |
| Server | `cmd/iodin/src/server.rs` | `mdb`, `mock`, `running`, the request and response in hand | `new`, `run`, `exec` |
| Process | `cmd/iodin/src/main.rs` | fds 0 and 1 | start, exit |
| pigpio wrapper | `pigpio-rust/src/lib.rs` | `Wave` (an id, deleted on drop) | `check`, `init`, `wave_tx_busy`, `tick_since`, `Wave::new_serial`, `send` |
| pigpio (external) | bindings in `pigpio-sys` | readers and their rings, waves, the transmission, pin levels, the tick | the C calls |
| Go client | `client/go-iodin/iodin.go` | process, two files, `refcount` | `NewClient`, `IncRef`, `DecRef`, `Do`, `Close` |
| Wire schema, generated code | `protobuf/iodin.proto`, `proto/iodin.rs` | none | size, write and merge of the two messages |
| pigpio mock | `pigpio-rust/src/mock.rs` | none | the C calls, without pigpio |
| Bindings, logger, build files | see PROJECT.json | none | not modelled |

**Interactions.** `Do` writes a length and a request with one write and reads a
length and a response with two reads. `run` reads a message, `exec` serves it
with the one port the server may have, `run` writes the response. The port
calls pigpio, which transmits waves by DMA and receives into a ring of its own
while the thread sleeps in `gpioDelay`. The server has one thread; everything
concurrent is outside it: pigpio, the peripheral, signals, and on the client's
side goroutines and the garbage collector.

**What is hard.**
- *Time*: two polling loops with deadlines on a 32-bit microsecond counter that
  wraps every 71 minutes, checked additions, two different comparisons.
- *One buffer, one ring*: requests and answers share `buf`; late words wait in
  the ring for whoever reads next.
- *Partial failure*: every pigpio call may fail in the middle of a sequence
  that acquires things; a process may be killed while a pin is high.
- *Shared client*: `Do` has no lock and no deadline, and does not put the stream
  in order again after an error.
- *Framing*: four bytes of length are all that marks the start of a message;
  whoever reads one byte too few or too many has lost it for good.

**What makes each part correct.**
- Timing: no timeout comes early, each loop ends but for a wrap, and a transaction
  begun with room in the counter does not panic.
- Line: a transaction reads its own answer and all of it, and both ends agree
  whether a block was good.
- Server: one permitted answer to each request, RESET and TX only on an open
  port, nothing of pigpio leaked or used after its deletion.
- Client: a response belongs to its request, `Do` and `Close` return, the files
  are closed under nobody who took his reference before `Close` began, no process
  is left behind.
- Stream: what is written is what is read, whatever was sent before, and both
  sides stand at the start of a message between two calls.

`hazards` in PROJECT.json lists the places where this could go wrong, each with
its line and the properties aimed at it.

## Modules

| Module | Models | Proofs |
|---|---|---|
| `MdbTiming` | `GpioMdb::tx` as its clock sees it | `MdbTimingProofs` |
| `MdbRoom` | the same with the moment `tx` began | `MdbTimingProofs` |
| `MdbReceive` | the same with the words it waits for | `MdbReceiveProofs` |
| `MdbTx` | `GpioMdb::tx` as the line sees it | `MdbTxProofs` |
| `MdbSession` | abstract: what a client may rely on | |
| `IodinServer` | `run`, `exec`, the port and its pigpio resources | `IodinServerProofs` |
| `GpioMdb` | the port and the wrapper, one pigpio call at a time | `GpioMdbProofs` |
| `IodinClient` | the Go client with its process and pipes | `IodinClientProofs` |
| `IodinWire` | the messages as bytes (operators) | `IodinWireProofs` |
| `IodinStream` | `Do` and `run` byte by byte over their pipes | `IodinStreamProofs` |

Refinements:

    GpioMdb  --ImplementsServer-->  IodinServer  --ImplementsSession-->  MdbSession
    MdbReceive  --ImplementsTiming-->  MdbTiming

`IodinClient` instantiates `MdbSession` as its process and composes it with the
client and the pipes, so it holds for any process with that interface, as the
server is. All three refinements are checked and proved.

`GpioMdb::tx` is cut into models because its concerns meet only in its control
flow. The stages of `MdbTiming` and `MdbReceive` (`send`, `wait`, `receive`,
`answer`), of `MdbTx` (`sending`, `receiving`, `acking`/`naking`) and of
`IodinServer` and `GpioMdb` (`requesting`, `receiving`, `acking`/`naking`) are the
same stages of the same function; a way out of one model is a way out of the
others.

The modules also define *mutants*, named as such in their comments: an
operation with a plausible bug in it, for each property one that violates it.

### MdbTiming

`tick` is `gpioTick()`. Only `gpioDelay` takes time, from a set `Delays`, the
longest of which stands for a preemption. `TxBegin` may come at any moment of
the counter. `elapsed` is a history variable: the real time since `base`, the
reading from which the current deadline was computed. `WaveBusy` compares the
elapsed time with the deadline, as `mdb_wave_send_wait` does; `NothingYet`
compares the counter, as `wait_receive` does. An overflowing addition panics
(`overflow-checks = true` in all profiles of `Cargo.toml`). One budget variable
per wait is enough because `tx` has one wait at a time; `Span` names it.

`MdbRoom` adds the history variable `begun`, the reading from which `tx` computed
its first deadlines. The other two additions (`mdb.rs:138`, `mdb.rs:158`) come after
any number of polls, and the send before them lasts up to its absolute deadline, so
whether they overflow is not told by the reading that `tx` begins with alone.
`Room` is the condition on that reading under which none does: about the first half
of the counter, as a send may last as long again as the counter is old.

### MdbReceive

`MdbTiming` lets words come whenever it likes. Here `now` is real time, which
passes (`Pass`) only until `wake`, the end of the sleep the thread is in, and
words of the answer arrive (`Arrive`) at any moment, no two of them closer than
`WordTime`, one word on the line. `SerialRead(n)` is a return of `wait_receive`
with n words, `Look` the pass of the receive loop over them, `NothingYet` a poll
that finds none. `Delays` has one shorter than a word and one longer than a
whole answer. `TxBegin` takes the quiet line that `LineQuiet` of `MdbTx` shows.
The refinement mapping hides the words; `tick` is `wake` modulo the counter.

### MdbTx

A word has a byte, its 9th bit and, for the properties, the transaction it
answers. `ninth` holds the odd bytes of `buf`; the even ones are always written
before they are sent. A peripheral answers with one marked word or a block, or
not at all, and may send a block again after NAK; the line delays and loses
words. `Chunk(n)` is a return of `wait_receive` and the pass of the receive
loop over it. A read may return fewer words than the ring holds, since pigpio's
ring is cyclic. `suspect` records that a `tx` failed after it had sent
something (timeout, checksum, pigpio error) and the port was not opened since.
What the peripheral answers is part of the environment: it never sends
unasked, and never two answers to one request.

### IodinServer

One action per handler. `MDB_RESET` and `MDB_TX` are cut where the thread waits,
so that a kill can fall in between. `ExecOpen` chooses whether `close` got past
its first call, then whether `GpioMdb::new` fails before the reader is open,
after, or not at all. `serial`, `waves`, `inflight` and `high` belong to pigpio.
The first three end with the process, a pin keeps its level. Every checked call
may fail; `gpioSerialReadOpen` does when the pin has a reader already;
`gpioSerialReadClose` of an open reader and `gpioWaveDelete` do not fail.
Requests are told apart by what `exec` tells apart. A message that does not
parse is the command `unparsable`; anything may follow it.

### GpioMdb

A handler of `IodinServer` is one step there; here it is the sequence `todo` of
the pigpio calls that are due. A call names its function, what it is called
with, and its scope: the function that a failure of it leaves (`try` for `new`
and `tx`, which are left by `?`; `close`; `drop`, whose errors vanish). `Outcomes`
says how a call may end, `After` what it does to pigpio, and `Rest` what is left
to call then, the destructors of what was made included. When nothing is left,
`Conclude` takes the step of `IodinServer`, whose variables change only there.
`gpio.by` tells what the program was built with: with `mock.rs`, `close`, every
drop, every send and every read fail.

### IodinWire and IodinStream

A message is the sequence of its fields' values. `ComputeSize` and `WriteTo` are
`compute_size` and `write_to_with_cached_sizes` of `proto/iodin.rs`: a field with
its default value is not written. `Scan` reads bytes as `merge_from` does, up to the end of the limit,
an error, or the end of what has arrived, and says how many it took: `Meets` is one
turn of its loop at a place, `Onward` goes on behind the field that was met there.
`Merge` puts the fields into the message it was given, where one that does not occur
leaves what was there. `Number` is exact below `Huge` (2^28), and from there on only
beyond every limit.

`IodinStream` has the two pipes as sequences of bytes, one `Do` after the other
and `run`. `fresh` says whether the caller made a new `Response` for its call: the
vendored `pb.Unmarshal` merges into an old one. `WriteRaw` is a client of another
make: bytes that do not parse, unknown fields, repeated ones. `lost` is set when a
parse error leaves bytes of its message unread (`run` lifts the limit and does not
skip them), `astray` when `Do` leaves a response that is longer than its buffer.
What `exec` answers is a constant set, as it is the business of `IodinServer`.
`StreamAssumption` says of the constants only that they are messages in the sense of
`IodinWire`, with fields of less than 2^24 bytes and numbers below 2^28, and that
`exec` sets a status and no version. That such messages arrive as they were sent is
proved, not assumed.

### IodinClient

`NewClient` makes two pipes and starts the process, or fails and leaves the pipes
it made to the garbage collector (`strays`). Users are goroutines that take a reference, call `Do`, and give it back; the
last runs `Close`, which is also `Do(STOP)`. A pipe holds whole messages because
both sides write a message with one `write` below PIPE_BUF. `parentEnds` are
the ends of the pipes that `NewClient` passes to the child and does not close:
as long as the parent has them, a dead process gives neither an end of file nor
EPIPE, until Go collects them (`Collect`). `overlap` and `desync` record that two `Do` ran at once, or that one left
part of a response unread; from then on what the bytes mean is not followed.
`late` has the users who took their reference when a `Close` had begun; nothing in
`IncRef` turns them away, and theirs are the files that are closed under a user.
`SpecHang` is the same with a process that may stay in an MDB_TX on an open port.

## Runs

| Run | Module / cfg | Shows |
|---|---|---|
| `timing` | `MCMdbTiming.cfg` | the clock properties from every start of the counter |
| `timing_send` | `MCMdbTimingSend.cfg` | *violated*: a dead send is given up at its deadline |
| `timing_receive` | `MCMdbTimingReceive.cfg` | *violated*: receiving keeps its budget |
| `tx` | `MCMdbTx.cfg` | answers belong, line quiet, both ends agree |
| `tx_ninth_bit` | `MCMdbTxNinth.cfg` | *violated*: only the first word of a request is marked |
| `receive` | `MCMdbReceive.cfg` | answers in time are read, responses bounded, `MdbTiming` implemented |
| `server` | `MCIodinServer.cfg` | ownership, leaks, `MdbSession` implemented |
| `server_panic` | `MCIodinServerPanic.cfg` | *violated*: `tx` is never given a request it asserts against |
| `gpio` | `MCGpioMdb.cfg` | call by call `IodinServer` implemented, no wave used after deletion, handlers return |
| `client` | `MCIodinClient.cfg` | responses, pipes, and that `Do` and `Close` return |
| `client_hang` | `MCIodinClientHang.cfg` | *violated*: `Close` kills a process that does not react |
| `stream` | `MCIodinStream.cfg` | bytes written are the bytes read; where the start of a message is lost |

**Properties.** `ClockInv`: `tick_since` is real time until a full turn.
`NoEarlyTimeout`, `NoSleepPastDeadline`, `WaitReceiveReturns`: the receive waits
are exact but for a wrap. `NoPanicWithRoom`: a transaction that begins with room
panics at none of its stages. `SendGivenUpLate`: what really bounds a send, as long
as its deadline is a delay short of the wrap. `ReplyBelongs`, `LineQuiet`: without a failed `tx`, no answer is
read by another `tx`. `AnswerAgreement`: ACK and NAK match the verdicts of both
ends. `WavesOwned`, `PortReads`, `InflightAlive`: the port's hold on pigpio.
`OrphansStay`: a reader left behind blocks its pin until the process ends.
`HeldByFailedReset`: a pin stays high only after a reset that failed or was
killed. `ImplementsSession`. `OwnResponse`, `PipesDrained`: as long as callers
keep `Do` apart and no response is too long, a `Do` starts from empty pipes and
returns its own response. `NotClosedUnderUse`: from the call of `Close` on, whoever
holds a reference took it after that call. `NoProcessLeft`, `DoReturns`,
`CloseReturns`. `PromptAnswerRead`: a receive timeout never cuts off an answer
that came in time, however long the thread slept. `ResponseBounded`: the receive
loop does not count, but time bounds the words it can take. `ImplementsTiming`,
`ImplementsServer`. `CallsNameLiveWaves`: no call that is due names a wave that is
gone. `HandlersReturn`: every handler reaches its response, an MDB_TX through its
waits, its ACK or NAK and its drops, whatever fails on the way. `StepKept`,
`NoMutualWait`: only the two cases above lose the start of a message, and only
then can both sides wait. `ExecAsSent`, `ResponseIsAnswer`, `StatusIsNew`: nothing
of an earlier request or response gets into a later one, but for what a reused
`Response` keeps. `SucceedsInStep`: in step, `Do` never reports success without a
response, nor one that did not fit in one read.

**The violated ones** are findings (PROJECT.json): the send deadline compared as
a duration (`mdb.rs:42`), the wrap missed by `wait_receive` (`mdb.rs:192`), the
9th bits left in `buf` (`mdb.rs:116`), the assertions reached by a client's
request (`server.rs:125`), and the STOP that `Close` waits for before it begins to
count its five seconds (`iodin.go:58`). A word's 9th bit is stale only if `wait_receive`
once returned two words or more; with a `wait_step` of 101 us against 1.1 ms
per word that takes a preemption.

**What no property promises.** Some hazards end in states where the code promises
nothing any more; history variables mark them, the properties hold up to there and
say that nothing else leads there. The words of a late answer after a failed `tx`
(`suspect`), a send given up and its wave (`lateSend`), two `Do` at once (`overlap`), a
response longer than the buffer or a parse error in the middle of a message
(`desync`, `lost`, `astray`), latecomers to a `Close` (`late`), a pin after a failed or
killed reset, the reader leaked by a failed MDB_OPEN. The notes at the hazards in
PROJECT.json tell the part that is covered from the part that is not.

**Bounds.** Timing: a counter of 20 ticks with timeouts of 2 to 5 and delays of
1 and 2, so that every deadline falls before, on and after the wrap;
`ElapsedCap` is more than one turn, beyond which `elapsed` matters to no
property. Line: two transactions (`MaxTx`), which is what one needs to leave a
word to the next; three words of buffer, bytes modulo 3 (ACK, NAK and another),
blocks of one and two data words, so that a block with its checksum fills the
buffer and arrives in up to three chunks. Server: two pins (a port moved, a pin
that is both) and three waves, what one port in `tx` needs and no more, so that
creation fails when one is leaked. Client: two users, two requests besides STOP
(`MaxCalls`): a `Do` after a `Do`, overlapping ones, two closers; in `client_hang` the port
is opened and used. Receive: a
counter of 20 ticks started anywhere and real time up to 34 (`Horizon`), so that a
wait lies before, on or after the wrap; words of two ticks, budgets of three to
six, sleeps of 1 and 7. Gpio: three pins, of which two can carry waves, so that an
MDB_OPEN moves a port and one fails at its waves; three waves, as for the server;
both builds. Stream: four calls (`MaxDo`), enough to lose the start of a message,
read what is left of it as a length, and use one `Response` twice; a buffer of 6
bytes instead of 256, with responses of up to 8; every command, an unknown one, an
empty request, a field of two bytes' varint, and raw messages that fail at their
end, before it, or not at all.

`CHECK_DEADLOCK FALSE` is in the runs where the system may stop: a panicked
transaction (timing, receive), the end of the horizon (receive), a port whose
transactions are used up (tx), two sides that wait for each other out of step
(stream).

**Fairness.** `MdbTiming`: the thread in `tx` goes on; nothing of pigpio or the
bus. `IodinClient`: a goroutine goes on when it can; Go's runtime forces a
collection every two minutes, and the finalizer of an `os.File` closes it; a
live process serves what it is sent. The last rests on the loops of `tx` ending,
which `MdbTiming` shows but for a wrap and for `mdb.rs:42`: while the process
hangs there, so do `Do` and `Close` (its five seconds begin only after the
answer to STOP). `SpecHang` drops that premise for the handler that has those loops:
an MDB_TX on an open port need not be answered, everything else is, and
`ClosedIsKilled` fails. The real hang ends when the elapsed time exceeds the absolute
deadline, up to 71 minutes, unless that is about to wrap. `GpioMdb`: the thread goes on
with the calls of a handler, and a poll ends (with an answer, an error or its
deadline); nothing is said about reads, kills or transmissions. The other modules
are safety only.

## Proofs

All theorems hold for every value of the constants that satisfies the named
assumptions.

- `MdbTimingProofs` (`TimingAssumption`: the delays are shorter than a turn of
  the counter). The inductive invariant is `TypeOK` with `ClockInv`: elapsed time
  and counter agree until a turn has passed, and a running deadline fits the
  counter, which is what the two comparisons need. `TimeoutsNotEarly`,
  `ReceiveDeadlineKept` and `SendBounded` follow step by step.
  `NoPanicInRoom` is about `MdbRoom` and needs an invariant of its own: `RoomInv` bounds
  the counter in each stage by `begun` and the budgets (in `send` by the absolute
  deadline, in `wait` by `LatestFirst`, in `receive` by its base), so no reading wraps and
  every addition fits. `RoomStep` takes it through each step.
- `MdbReceiveProofs` (`ReceiveAssumption`: the same for delays, a word takes
  time). First the arithmetic of a counter that wraps: two readings differ by the
  time between them less the turns in between (`TickGap`, `TickDifference`). The
  inductive invariant relates the clock (`ClockInv`, `Pace`: how far a sleep may
  reach past a deadline), the words (`WordInv`: what arrived is in the ring, the
  chunk or the response, and no faster than the line) and the waits (`WaitInv`,
  `RunInv`: a wait that has given up had an empty ring after its deadline).
  `PromptAnswersRead` and `ResponsesBounded` follow, and `TimingImplemented` maps
  every step to one of `MdbTiming` or to none.
- `MdbTxProofs` (`TxAssumption`). `ReplyBelongs` alone is not inductive: it needs
  to know that a marked word is the last of the ring *and* that nothing follows
  it on the line. `LinkInv` says so, and that words are under way only while `tx`
  receives; `RepliesBelong` and `LineIsQuiet` follow. `AnswerInv` adds to
  `AnswerAgreement` that the verdict about a block is the state until its ACK or
  NAK is out. The checksum is opaque in the proof, so it holds for any.
- `IodinServerProofs` (`ServerAssumption`: the null values are no ports and no
  waves). `ServerInv` ties the control state to the values it owns (`Control`):
  only a running `tx` has a wave, RESET and TX run on an open port, nothing is in
  flight outside a send unless one was given up. With it every invariant, the
  action properties about orphans and pins (`HeldByFailedResets`), and the
  refinement of `MdbSession` (`SessionImplemented`) are proved.
- `GpioMdbProofs` (`GpioAssumption`: the names of the two builds, and that the
  place holder for the wave made last is no pin and no wave). What may be due is
  told by the place reached in a fixed plan: `OpenPlan` has the fourteen calls of an
  MDB_OPEN with a port to drop, `TxPlan` the four of an MDB_TX. `OpenHolds` says what
  pigpio holds before each of them, and for each outcome of `close`, compared with
  what `IodinServer` last saw of it: the difference is what the handler has done so
  far. `OpenUndone` and `TxUndone` are the way out with one wave to delete, `SendStage`
  and `ReceiveStage` the calls around the two polls. `DInv` joins this `Stage` with
  the invariant of `IodinServer`, which holds in the states the calls leave between;
  neither is inductive without the other, as it is `WavesOwned` that says which waves
  there are to drop. `PigpioStep` and `MockStep` follow each call, good or bad, to the
  next place, or to the end of the handler and then to its step in `IodinServer`; with
  `mock.rs` pigpio holds nothing, and the step is one of `MdbSession`. From `DInv`
  follow `DTypeCorrect`, `CallsLive` and the refinement, `ServerImplemented`.
- `IodinClientProofs` (`ClientAssumption`: finitely many users). `RefCounted`: the
  count is the number of users between `IncRef` and `DecRef`, so that whoever
  brings it to zero finds nobody else; `LifeInv`: once the files are closed someone
  waits for the process as long as it lives. `NotClosedUnderUse` is inductive with
  these two (`LateStep`): the step that begins a `Close` leaves no holder, and whoever
  comes later is late. `OwnResponse` and `PipesDrained`
  follow from `StreamInv`, which says where the one exchange under way may be:
  asked, served, replied, its body left, or dead with its process.
- `IodinWireProofs` (no assumption). What the recursions of `IodinWire` compute needs
  induction, and an induction theorem over predicates is out of the provers' reach;
  one over *sets* is not: every set of numbers has a least element (`Least`, from
  `WFMin` of the library), so a set with 0 and with each successor is `Nat`
  (`Induction`). With it a recursive function is shown to exist (`Recursion`, `ScanIs`,
  `FlattenIs`) and its values follow one by one. `VarintRead` and `LengthRead`:
  `Number` undoes `Varint` and `Fixed32`. `Layout`: in the bytes of a message each
  field lies behind the ones before it. `FieldMet`: where a field begins, `Meets` finds
  that field, to its end. From the last field back to the first (`ReadBack`) this
  gives `RoundTrip`, with `SizeIs` `MessagesAreCarried`: every message comes over the
  wire whole. `ScanWell` and `BytesAreBounded` say of *any* bytes that they are read
  to their end or to an error in them and give fields of the right types.
- `IodinStreamProofs` (`StreamAssumption`, any `BufLen`, any number of calls). `CallInv`
  says where the one call is as long as the two are in step: `Asked`, `Taken`,
  `Executing`, `Answering`, `Replied`, `Reading`, or over (`Between`), and what is in
  which pipe there, to the byte. None of the properties is inductive by itself:
  `StepKept` needs that the length in front is that of all bytes behind it, and
  `ResponseIsAnswer` that the request and the response in hand were new. `Cut` takes
  a length and its body apart, `Merged` says what `Unmarshal` makes of an old
  `Response`; a step that does not lead on (a parse error before the end of its
  message, a response longer than `buf`) leaves `InStep`, and `NoWayBack` shows that
  nothing returns to it. `StepIsKept`, `ServedAsSent`, `OwnAnswer`, `StatusRenewed`,
  `SuccessInStep` and `NoneWaitsForBoth` are the six properties. `Typed` is about the
  states out of step as well, where the bytes that are taken for a message can be any:
  `TypeInv` adds to `TypeOK` that the response is new until `exec` or a parse error
  has filled it in, and `MergeIsMessage` that whatever is merged, it stays a message.

Every invariant and every action property that a run checks is proved. Only
model-checked, because liveness is out of the prover's reach: `WaitReceiveReturns`,
`DoReturns`, `CloseReturns` and `HandlersReturn`. Not proved either is what the fold
in `Checksum` computes for every input: the proofs about `MdbTx` do not need it.

## Not modelled

- `pigpio-sys/src/bindings-arm-linux.rs`: declarations made by bindgen, without
  behaviour, and by far the longest file of the repository (4582 lines). The
  functions the program calls are modelled as external from their use.
- Of `proto/iodin.rs`: accessors, reflection, descriptors, text format, which
  nothing calls. Of the protobuf runtime: groups, varints beyond 28 bits, texts
  that are not UTF-8.
- `wave_busy_wait` and `Wave::from_id`, which have no caller; the logger, the build
  scripts, error texts.
- pigpio and the peripheral only as far as the code meets them; the polarity of
  the tx pin.
- The number of files that failed `NewClient`s leave open: `strays` only says that
  there are some.
- Out of step, `IodinStream` follows the bytes (of one `Do` at a time);
  `IodinClient`, where several overlap, does not.

## Plan

Done: the modules above. What is left, in order of worth:

1. `MdbTx` and `IodinServer` composed: a port moved, closed or reset with words
   under way, and the length of its response in the pipe.
2. The words of two transactions in `MdbReceive`, without its quiet line.
