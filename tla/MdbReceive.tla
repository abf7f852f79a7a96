------------------------------ MODULE MdbReceive ------------------------------
(***************************************************************************)
(* The waits of GpioMdb::tx with the words they wait for: MdbTiming, which *)
(* this module implements, and a peripheral that sends words no faster     *)
(* than the line carries them.  Time passes, and words arrive, while the   *)
(* program sleeps in gpioDelay; it runs when it is time to wake.           *)
(***************************************************************************)
EXTENDS Naturals

CONSTANTS
  TickMod, Timeout, TimeoutSmall, TimeoutChar, BlockMax, Delays, MaxDelay, \* see MdbTiming
  WordTime,    \* a word takes this long on the line
  Horizon      \* bound: no sleep lasts beyond this time

TimeoutReceive == BlockMax * TimeoutChar

ASSUME ReceiveAssumption ==
  /\ {Timeout, TimeoutSmall, TimeoutChar, MaxDelay, Horizon} \subseteq Nat
  /\ TickMod \in Nat \ {0} /\ BlockMax \in Nat \ {0, 1} /\ WordTime \in Nat \ {0}
  /\ Delays \subseteq 1..MaxDelay /\ MaxDelay < TickMod

VARIABLES
  pc,         \* where tx is, as in MdbTiming
  now,        \* real time; gpioTick() is the rest modulo TickMod
  wake,       \* when gpioDelay returns, now if the program runs
  start,      \* the time the running deadline was computed from
  len,        \* request.len()
  result,     \* how the last tx ended
  ring,       \* how many words pigpio has received and tx has not read
  chunk,      \* how many the last gpioSerialRead returned, until they are looked at
  response,   \* response.len()
  first,      \* when the first word of the answer arrived
  last,       \* when its last word arrived
  words,      \* how many have arrived
  ended       \* the last of them has its 9th bit set

program == <<pc, start, len, result, chunk, response>>
answer == <<first, last, words, ended>>
vars == <<program, now, wake, ring, answer>>

Tick(t) == t % TickMod
Span(p) ==
  CASE p = "send"    -> TimeoutChar * len
    [] p = "wait"    -> Timeout
    [] p = "receive" -> TimeoutReceive
    [] OTHER         -> IF Timeout < TimeoutSmall THEN Timeout ELSE TimeoutSmall
Deadline == Tick(start) + Span(pc)

Running == now = wake
Finish(r) == pc' = "idle" /\ result' = r

\* gpioDelay(wait_step), of which d has passed when it returns.
Sleep(d) == now + d <= Horizon /\ wake' = now + d

Init ==
  /\ pc = "idle" /\ now \in 0..(TickMod - 1) /\ wake = now /\ start = now
  /\ len = 1 /\ result = "none" /\ ring = 0 /\ chunk = 0 /\ response = 0
  /\ first = now /\ last = now /\ words = 0 /\ ended = FALSE

-----------------------------------------------------------------------------
\* tx up to its first send, on a line that is quiet (LineQuiet of MdbTx).
TxBegin(l) ==
  /\ pc = "idle" /\ result = "none"
  /\ pc' = IF Tick(now) + Timeout < TickMod /\ Tick(now) + TimeoutChar * l < TickMod
             THEN "send" ELSE "panicked"
  /\ start' = now /\ len' = l
  /\ UNCHANGED <<result, chunk, response, now, wake, ring, answer>>

\* A turn of mdb_wave_send_wait: it sleeps, and finds the wave sent or not.
WaveTurn(d) ==
  /\ pc \in {"send", "answer"} /\ Running
  /\ Sleep(d)
  /\ \/ IF pc = "send" THEN pc' = "wait" /\ UNCHANGED result
        ELSE \E r \in {"ok", "error"} : Finish(r)
     \/ IF Tick(wake' - start) > Deadline THEN Finish("send_timeout")
        ELSE UNCHANGED <<pc, result>>
  /\ UNCHANGED <<start, len, chunk, response, now, ring, answer>>

\* A wait starts now: its deadline panics when it overflows u32.
StartWait(p) ==
  /\ start' = now
  /\ pc' = IF Tick(now) + Span(p) < TickMod THEN p ELSE "panicked"

\* Mutants: a chunk fills the buffer; every chunk gets the budget of the whole answer.
SerialReadFull(n) ==
  /\ pc \in {"wait", "receive"} /\ Running /\ chunk = 0 /\ ring > 0
  /\ chunk' = n /\ ring' = ring - n
  /\ IF pc = "wait" THEN StartWait("receive") ELSE UNCHANGED <<pc, start>>
  /\ UNCHANGED <<len, result, response, now, wake, answer>>

SerialReadRenewing(n) ==
  /\ pc \in {"wait", "receive"} /\ Running /\ chunk = 0 /\ n <= ring
  /\ chunk' = n /\ ring' = ring - n
  /\ StartWait("receive")
  /\ UNCHANGED <<len, result, response, now, wake, answer>>

\* wait_receive finds n words; the first to come start the receive budget.
SerialRead(n) ==
  /\ pc \in {"wait", "receive"} /\ Running /\ chunk = 0 /\ n <= ring
  /\ chunk' = n /\ ring' = ring - n
  /\ IF pc = "wait" THEN StartWait("receive") ELSE UNCHANGED <<pc, start>>
  /\ UNCHANGED <<len, result, response, now, wake, answer>>

\* Mutant: the deadline is looked at before the ring.
NothingYetUnread(d) ==
  /\ pc \in {"wait", "receive"} /\ Running /\ chunk = 0
  /\ IF Tick(now) > Deadline THEN Finish("recv_timeout") /\ UNCHANGED wake
     ELSE ring = 0 /\ Sleep(d) /\ UNCHANGED <<pc, result>>
  /\ UNCHANGED <<start, len, chunk, response, now, ring, answer>>

\* wait_receive finds none: it gives up past the deadline, or sleeps.
NothingYet(d) ==
  /\ pc \in {"wait", "receive"} /\ Running /\ chunk = 0 /\ ring = 0
  /\ IF Tick(now) > Deadline THEN Finish("recv_timeout") /\ UNCHANGED wake
     ELSE Sleep(d) /\ UNCHANGED <<pc, result>>
  /\ UNCHANGED <<start, len, chunk, response, now, ring, answer>>

\* The words of a chunk are taken up to the end byte: a lone one is the answer,
\* one that closes a block is answered with ACK or NAK.
Look ==
  LET last_chunk == ended /\ ring = 0 IN
  /\ pc = "receive" /\ chunk > 0
  /\ chunk' = 0
  /\ response' = response + chunk - (IF last_chunk THEN 1 ELSE 0)
  /\ CASE ~last_chunk -> UNCHANGED <<pc, start, result>>
       [] last_chunk /\ response' = 0 ->
            (\E r \in {"ok", "error"} : Finish(r)) /\ UNCHANGED start
       [] OTHER -> StartWait("answer") /\ UNCHANGED result
  /\ UNCHANGED <<len, now, wake, ring, answer>>

\* A pigpio call fails.
GpioError ==
  /\ pc \in {"send", "wait", "receive", "answer"} /\ Running /\ chunk = 0
  /\ Finish("error")
  /\ UNCHANGED <<start, len, chunk, response, now, wake, ring, answer>>

-----------------------------------------------------------------------------
Pass ==
  /\ now < wake
  /\ now' = now + 1
  /\ UNCHANGED <<program, wake, ring, answer>>

\* A word of the answer arrives, its 9th bit set or not.
Arrive(e) ==
  /\ pc \in {"wait", "receive"} /\ ~ended
  /\ words > 0 => now >= last + WordTime
  /\ ring' = ring + 1 /\ words' = words + 1 /\ last' = now /\ ended' = e
  /\ first' = IF words = 0 THEN now ELSE first
  /\ UNCHANGED <<program, now, wake>>

Next ==
  \/ \E l \in 1..(BlockMax - 1) : TxBegin(l)
  \/ \E d \in Delays : WaveTurn(d) \/ NothingYet(d)
  \/ \E n \in 1..BlockMax : SerialRead(n)
  \/ Look
  \/ GpioError
  \/ Pass
  \/ \E e \in BOOLEAN : Arrive(e)

Spec == Init /\ [][Next]_vars

-----------------------------------------------------------------------------
TypeOK ==
  /\ pc \in {"idle", "send", "wait", "receive", "answer", "panicked"}
  /\ {now, wake, start, first, last, ring, chunk, response, words} \subseteq Nat
  /\ len \in 1..(BlockMax - 1) /\ ended \in BOOLEAN
  /\ result \in {"none", "ok", "error", "send_timeout", "recv_timeout"}

\* An answer whose first word comes within the timeout and whose end byte comes
\* within TIMEOUT_RECEIVE_US of it ("time to receive whole response *not
\* including* wait for first byte", mdb.rs:21) is never cut off by a receive
\* timeout, however long the program slept: it reads before it looks at the clock.
PromptAnswerRead ==
  result = "recv_timeout" =>
    IF words = 0 THEN now > start + Timeout ELSE ~ended /\ now > first + TimeoutReceive

\* The receive loop does not count words; what bounds a response is its deadline
\* and the speed of the line, except in the moments before the counter wraps.
\* With the values of mdb.rs that is some 110 words, not BLOCK_MAX_LENGTH.
ResponseBounded ==
  /\ response + chunk + ring <= words
  /\ pc = "receive" /\ Deadline + MaxDelay < TickMod
       => (words - 1) * WordTime <= TimeoutReceive + 2 * MaxDelay

\* Without its words, this is MdbTiming: the counter is the time modulo TickMod
\* when the program runs next, elapsed the time since the deadline was computed.
Timing == INSTANCE MdbTiming WITH
  tick <- Tick(wake),
  base <- Tick(start),
  elapsed <- IF wake - start < TickMod THEN wake - start ELSE TickMod,
  ElapsedCap <- TickMod

ImplementsTiming == Timing!Init /\ [][Timing!Next]_(Timing!vars)
=============================================================================
