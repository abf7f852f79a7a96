------------------------------ MODULE MdbTiming ------------------------------
(***************************************************************************)
(* The time of one MDB transaction: GpioMdb::tx of cmd/iodin/src/mdb.rs    *)
(* with its two polling loops, mdb_wave_send_wait and wait_receive.        *)
(*                                                                         *)
(* gpioTick() is a 32-bit microsecond counter that wraps; tx adds timeouts *)
(* to it with checked u32 additions (overflow-checks = true in every       *)
(* profile of Cargo.toml, so an overflow panics) and compares the sums     *)
(* with later readings.  What travels on the bus is left to MdbTx: here a  *)
(* poll finds data or not, a wave is busy or not.  Only gpioDelay takes    *)
(* time; a preemption is a long delay.                                     *)
(***************************************************************************)
EXTENDS Naturals

CONSTANTS
  TickMod,         \* gpioTick counts modulo TickMod (2^32 in the program)
  Timeout,         \* the caller's timeout, MDB_TIMEOUT in server.rs
  TimeoutSmall,    \* TIMEOUT_SMALL_US
  TimeoutChar,     \* TIMEOUT_CHAR_US
  TimeoutReceive,  \* TIMEOUT_RECEIVE_US
  BlockMax,        \* BLOCK_MAX_LENGTH: request.len() stays below it
  Delays,          \* how long one gpioDelay(wait_step) may last
  MaxDelay,        \* the longest of them
  ElapsedCap       \* bound of the history variable elapsed

ASSUME TimingAssumption ==
  /\ {Timeout, TimeoutSmall, TimeoutChar, TimeoutReceive, MaxDelay} \subseteq Nat
  /\ TickMod \in Nat /\ BlockMax \in Nat \ {0, 1}
  /\ Delays \subseteq 1..MaxDelay /\ Delays # {}
  /\ MaxDelay < TickMod
  /\ ElapsedCap \in Nat /\ ElapsedCap >= TickMod

VARIABLES
  pc,       \* where tx is: idle, one of the four waits, or dead of a panic
  tick,     \* gpioTick()
  base,     \* the reading from which the current deadline was computed
  len,      \* request.len()
  result,   \* how the last tx ended
  elapsed   \* history: real time since base, saturating at ElapsedCap

vars == <<pc, tick, base, len, result, elapsed>>

Tick == 0..TickMod-1
Waits == {"send", "wait", "receive", "answer"}
Results == {"none", "ok", "error", "send_timeout", "recv_timeout"}

-----------------------------------------------------------------------------
\* Mutant: a difference that saturates at a wrap (saturating_sub).
TickSinceSaturating(end, start) == IF end >= start THEN end - start ELSE 0

\* tick_since(start): the wrapping difference end - start.
TickSince(end, start) ==
  IF end >= start THEN end - start ELSE end + TickMod - start

\* Mutant: a counter that does not wrap.
TickAfterUnbounded(d) == tick + d

\* gpioTick() d microseconds later.
TickAfter(d) == IF tick + d < TickMod THEN tick + d ELSE tick + d - TickMod

\* The budget each wait adds to its base to obtain its deadline.
Span(p) ==
  CASE p = "send"    -> TimeoutChar * len
    [] p = "wait"    -> Timeout
    [] p = "receive" -> TimeoutReceive
    [] OTHER         -> IF Timeout < TimeoutSmall THEN Timeout ELSE TimeoutSmall

Deadline == base + Span(pc)

\* gpioDelay(wait_step): d microseconds pass.
GpioDelay(d) ==
  /\ tick' = TickAfter(d)
  /\ elapsed' = IF elapsed + d < ElapsedCap THEN elapsed + d ELSE ElapsedCap

Finish(r) == pc' = "idle" /\ result' = r

\* A wait starts now: `tick_since(0) + budget` panics when it overflows u32.
StartWait(p) ==
  /\ base' = tick
  /\ elapsed' = 0
  /\ pc' = IF tick + Span(p) < TickMod THEN p ELSE "panicked"

-----------------------------------------------------------------------------
Init ==
  /\ pc = "idle" /\ tick \in Tick /\ base = tick
  /\ len = 1 /\ result = "none" /\ elapsed = 0

\* tx up to the first send: both deadlines of the request are computed from
\* one reading of the clock, taken at any time t.
TxBegin(l, t) ==
  /\ pc = "idle"
  /\ tick' = t /\ base' = t /\ elapsed' = 0
  /\ len' = l
  /\ pc' = IF t + Timeout < TickMod /\ t + TimeoutChar * l < TickMod
             THEN "send" ELSE "panicked"
  /\ result' = "none"

\* One turn of mdb_wave_send_wait's loop: delay, then ask whether the wave is
\* still being sent.  The elapsed time is compared with the deadline.
WaveDone(d) ==
  /\ pc \in {"send", "answer"}
  /\ GpioDelay(d)
  /\ IF pc = "send" THEN pc' = "wait" /\ UNCHANGED result
     ELSE \E r \in {"ok", "error"} : Finish(r)
  /\ UNCHANGED <<base, len>>

\* Mutant: the deadline is not looked at.
WaveBusyForever(d) ==
  /\ pc \in {"send", "answer"}
  /\ GpioDelay(d)
  /\ UNCHANGED <<pc, result, base, len>>

WaveBusy(d) ==
  /\ pc \in {"send", "answer"}
  /\ GpioDelay(d)
  /\ IF TickSince(tick', base) > Deadline THEN Finish("send_timeout")
     ELSE UNCHANGED <<pc, result>>
  /\ UNCHANGED <<base, len>>

\* wait_receive found the first bytes: the receive budget starts.
FirstChunk ==
  /\ pc = "wait"
  /\ StartWait("receive")
  /\ UNCHANGED <<tick, len, result>>

\* Mutants: giving up at the deadline and not past it; comparing the elapsed
\* time with the deadline, as mdb_wave_send_wait does; never giving up.
NothingYetEager(d) ==
  /\ pc \in {"wait", "receive"}
  /\ IF tick >= Deadline
       THEN Finish("recv_timeout") /\ UNCHANGED <<tick, elapsed>>
       ELSE GpioDelay(d) /\ UNCHANGED <<pc, result>>
  /\ UNCHANGED <<base, len>>

NothingYetElapsed(d) ==
  /\ pc \in {"wait", "receive"}
  /\ IF TickSince(tick, base) > Deadline
       THEN Finish("recv_timeout") /\ UNCHANGED <<tick, elapsed>>
       ELSE GpioDelay(d) /\ UNCHANGED <<pc, result>>
  /\ UNCHANGED <<base, len>>

NothingYetForever(d) ==
  /\ pc \in {"wait", "receive"}
  /\ GpioDelay(d)
  /\ UNCHANGED <<pc, result, base, len>>

\* wait_receive found nothing: give up past the deadline, else sleep.
NothingYet(d) ==
  /\ pc \in {"wait", "receive"}
  /\ IF tick > Deadline
       THEN Finish("recv_timeout") /\ UNCHANGED <<tick, elapsed>>
       ELSE GpioDelay(d) /\ UNCHANGED <<pc, result>>
  /\ UNCHANGED <<base, len>>

\* The byte with the 9th bit arrived: a lone one ends tx, one that closes a
\* block is answered with ACK or NAK within timeout_small.
EndByte ==
  /\ pc = "receive"
  /\ \/ /\ \E r \in {"ok", "error"} : Finish(r)
        /\ UNCHANGED <<base, elapsed>>
     \/ StartWait("answer") /\ UNCHANGED result
  /\ UNCHANGED <<tick, len>>

\* A pigpio call returns an error and ? leaves tx.
GpioError ==
  /\ pc \in Waits
  /\ Finish("error")
  /\ UNCHANGED <<tick, base, len, elapsed>>

HostStep ==
  \/ \E d \in Delays : WaveDone(d) \/ WaveBusy(d) \/ NothingYet(d)
  \/ FirstChunk
  \/ EndByte
  \/ GpioError

Next ==
  \/ \E l \in 1..BlockMax-1, t \in Tick : TxBegin(l, t)
  \/ HostStep

\* The thread in tx keeps running; nothing is assumed of the wave or the bus.
Spec == Init /\ [][Next]_vars /\ WF_vars(HostStep)

-----------------------------------------------------------------------------
TypeOK ==
  /\ pc \in Waits \cup {"idle", "panicked"}
  /\ tick \in Tick /\ base \in Tick
  /\ len \in 1..BlockMax-1
  /\ result \in Results
  /\ elapsed \in 0..ElapsedCap

\* tick_since(base) is the real time elapsed until a whole turn of the counter
\* has passed, and a running wait has a deadline that fits the counter.
ClockInv ==
  /\ pc \in Waits /\ elapsed < TickMod => TickSince(tick, base) = elapsed
  /\ pc \in Waits => Deadline < TickMod
  /\ pc = "send" => base + Timeout < TickMod

\* No timeout is reported before its budget has really passed, whatever the
\* counter did meanwhile (mdb.rs lines 42 and 192: tick arithmetic across a
\* wrap may hang, it never cuts a wait short).
NoEarlyTimeout ==
  [][/\ result' = "send_timeout" /\ result # "send_timeout" => elapsed' > Span(pc)
     /\ result' = "recv_timeout" /\ result # "recv_timeout" => elapsed > Span(pc)]_vars

\* wait_receive never goes to sleep again once its deadline has passed in
\* real time, unless the counter has wrapped since the deadline was computed.
NoSleepPastDeadline ==
  [][(pc \in {"wait", "receive"} /\ pc' = pc /\ elapsed < TickMod - base)
       => elapsed <= Span(pc)]_vars

\* What bounds a send that never completes is the absolute value of its
\* deadline, not the budget: mdb_wave_send_wait compares a duration with it
\* (mdb.rs:42), so the later in the life of the counter, the longer it waits.
\* With a deadline less than a delay short of the wrap even that is no bound: the
\* elapsed time may step over it to a whole turn, and is small again.
SendGivenUpLate ==
  pc \in {"send", "answer"} /\ Deadline + MaxDelay < TickMod
    => elapsed <= Deadline

\* Far enough from a wrap, a silent bus is given up: wait_receive returns.
WaitReceiveReturns ==
  \A p \in {"wait", "receive"} :
    (/\ pc = p /\ elapsed < TickMod - base
     /\ Deadline + MaxDelay < TickMod) ~> pc # p

-----------------------------------------------------------------------------
(* What the comments of mdb.rs say and the code does not do.               *)

\* "Calculate deadlines after other CPU work" (mdb.rs:125): send_deadline_us is
\* a point in time, so a send that never completes is given up soon after it.
SendGivenUpAtDeadline == pc = "send" => elapsed <= Span("send") + MaxDelay

\* "time to receive whole response *not including* wait for first byte"
\* (mdb.rs:21): receiving lasts no longer than that and one delay.
ReceiveWithinBudget == pc = "receive" => elapsed <= TimeoutReceive + MaxDelay
=============================================================================
