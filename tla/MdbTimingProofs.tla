--------------------------- MODULE MdbTimingProofs ---------------------------
(***************************************************************************)
(* Proofs about MdbTiming and MdbRoom, for every clock width and budget.   *)
(*                                                                         *)
(* ClockInv is inductive: tick_since(base) is the real time elapsed for a  *)
(* whole turn of the counter, and no running wait has a deadline beyond    *)
(* its range.  So a reading past the deadline means that the budget has    *)
(* passed, or that the counter wrapped, which takes longer than any budget *)
(* that did not overflow when it was added.                                *)
(*                                                                         *)
(* RoomInv is inductive too: with room for all of them at the start, the   *)
(* polls of each stage keep the counter below what the next stage needs.   *)
(***************************************************************************)
EXTENDS MdbRoom, TLAPS

\* gpioDelay keeps the counter in range and never makes real time run back.
LEMMA GpioDelayLemma ==
  ASSUME TypeOK, NEW d \in Delays, GpioDelay(d)
  PROVE  /\ d \in Nat /\ d >= 1 /\ d <= MaxDelay
         /\ tick' \in Tick
         /\ elapsed' \in 0..ElapsedCap
         /\ elapsed' = elapsed + d \/ elapsed' >= TickMod
         /\ elapsed' >= elapsed \/ elapsed' >= TickMod
         /\ tick' = tick + d \/ tick + d >= TickMod
BY TimingAssumption DEF TypeOK, GpioDelay, TickAfter, Tick

LEMMA SpanNat == ASSUME TypeOK, NEW p PROVE Span(p) \in Nat
BY TimingAssumption DEF TypeOK, Span

LEMMA ClockNumbers ==
  ASSUME TypeOK
  PROVE  /\ TickMod \in Nat /\ ElapsedCap \in Nat /\ ElapsedCap >= TickMod
         /\ tick \in Nat /\ base \in Nat /\ elapsed \in Nat
         /\ tick < TickMod /\ base < TickMod
BY TimingAssumption DEF TypeOK, Tick

LEMMA StartWaitType ==
  ASSUME TypeOK, NEW p \in Waits, StartWait(p)
  PROVE  base' \in Tick /\ elapsed' \in 0..ElapsedCap /\ pc' \in {p, "panicked"}
BY TimingAssumption DEF TypeOK, StartWait

\* The state predicate TypeOK holds in every reachable state.
THEOREM TypeCorrect == Spec => []TypeOK
<1>1. Init => TypeOK
  BY TimingAssumption DEF Init, TypeOK, Waits, Tick, Results
<1>2. TypeOK /\ [Next]_vars => TypeOK'
  <2> SUFFICES ASSUME TypeOK, [Next]_vars PROVE TypeOK'
    OBVIOUS
  <2>1. ASSUME NEW l \in 1..BlockMax-1, NEW t \in Tick, TxBegin(l, t) PROVE TypeOK'
    <3>1. pc' \in {"send", "panicked"}
      BY <2>1 DEF TxBegin
    <3>2. elapsed' \in 0..ElapsedCap
      BY <2>1, TimingAssumption DEF TxBegin
    <3>3. tick' = t /\ base' = t /\ len' = l /\ result' = "none"
      BY <2>1 DEF TxBegin
    <3>4. QED
      BY <3>1, <3>2, <3>3 DEF TypeOK, Waits, Results
  <2>2. ASSUME NEW d \in Delays, WaveDone(d) PROVE TypeOK'
    <3>1. tick' \in Tick /\ elapsed' \in 0..ElapsedCap
      BY <2>2, GpioDelayLemma DEF WaveDone
    <3>2. QED
      BY <2>2, <3>1 DEF TypeOK, WaveDone, Finish, Waits, Results
  <2>3. ASSUME NEW d \in Delays, WaveBusy(d) PROVE TypeOK'
    <3>1. tick' \in Tick /\ elapsed' \in 0..ElapsedCap
      BY <2>3, GpioDelayLemma DEF WaveBusy
    <3>2. QED
      BY <2>3, <3>1 DEF TypeOK, WaveBusy, Finish, Waits, Results
  <2>4. ASSUME NEW d \in Delays, NothingYet(d) PROVE TypeOK'
    <3>1. CASE tick > Deadline
      BY <2>4, <3>1 DEF TypeOK, NothingYet, Finish, Waits, Results
    <3>2. CASE ~(tick > Deadline)
      <4>1. tick' \in Tick /\ elapsed' \in 0..ElapsedCap
        BY <2>4, <3>2, GpioDelayLemma DEF NothingYet
      <4>2. QED
        BY <2>4, <3>2, <4>1 DEF TypeOK, NothingYet, Waits, Results
    <3>3. QED BY <3>1, <3>2
  <2>5. CASE FirstChunk
    <3>1. StartWait("receive") /\ "receive" \in Waits
      BY <2>5 DEF FirstChunk, Waits
    <3>2. QED
      BY <2>5, <3>1, StartWaitType DEF TypeOK, FirstChunk, Waits, Results
  <2>6. CASE EndByte
    <3>1. CASE StartWait("answer") /\ UNCHANGED <<result, tick, len>>
      <4>1. "answer" \in Waits
        BY DEF Waits
      <4>2. QED
        BY <3>1, <4>1, StartWaitType DEF TypeOK, Waits, Results
    <3>2. CASE pc' = "idle" /\ result' \in {"ok", "error"} /\ UNCHANGED <<base, elapsed, tick, len>>
      BY <3>2 DEF TypeOK, Waits, Results
    <3>3. QED BY <2>6, <3>1, <3>2 DEF EndByte, Finish
  <2>7. CASE GpioError
    BY <2>7 DEF TypeOK, GpioError, Finish, Waits, Results
  <2>8. CASE UNCHANGED vars
    BY <2>8 DEF TypeOK, vars
  <2>9. QED
    BY <2>1, <2>2, <2>3, <2>4, <2>5, <2>6, <2>7, <2>8 DEF Next, HostStep
<1>3. QED
  BY <1>1, <1>2, PTL DEF Spec

\* A wait that goes on keeps its deadline; only time passes.
LEMMA DelayKeepsClock ==
  ASSUME TypeOK, ClockInv, pc \in Waits, NEW d \in Delays, GpioDelay(d), base' = base
  PROVE  elapsed' < TickMod => TickSince(tick', base') = elapsed'
<1> SUFFICES ASSUME elapsed' < TickMod PROVE TickSince(tick', base) = elapsed'
  OBVIOUS
<1>1. d \in Nat /\ d < TickMod /\ tick' = TickAfter(d) /\ elapsed' = elapsed + d
  BY TimingAssumption DEF GpioDelay
<1>2. TickSince(tick, base) = elapsed
  BY <1>1, ClockNumbers DEF ClockInv
<1>3. QED
  BY <1>1, <1>2, ClockNumbers DEF TickSince, TickAfter

LEMMA TickSinceSelf == ASSUME NEW t \in Tick PROVE TickSince(t, t) = 0
BY TimingAssumption DEF TickSince, Tick

\* A wait that starts has a fresh base and, unless tx panics, a deadline in range.
LEMMA StartWaitClock ==
  ASSUME TypeOK, NEW p \in {"receive", "answer"}, StartWait(p), tick' = tick, len' = len
  PROVE  ClockInv'
<1>1. TickSince(tick', base') = 0 /\ elapsed' = 0
  BY TickSinceSelf DEF StartWait, TypeOK
<1>2. pc' \in {p, "panicked"} /\ (pc' = p => tick + Span(p) < TickMod)
  BY DEF StartWait
<1>3. pc' \in Waits => Deadline' < TickMod
  BY <1>2 DEF StartWait, Deadline, Span, Waits
<1>4. QED
  BY <1>1, <1>2, <1>3 DEF ClockInv

\* The wrapping clock and real time stay related in every reachable state.
THEOREM ClockCorrect == Spec => []ClockInv
<1>1. Init => ClockInv
  BY DEF Init, ClockInv, Waits
<1>2. TypeOK /\ ClockInv /\ [Next]_vars => ClockInv'
  <2> SUFFICES ASSUME TypeOK, ClockInv, [Next]_vars PROVE ClockInv'
    OBVIOUS
  <2>1. ASSUME NEW l \in 1..BlockMax-1, NEW t \in Tick, TxBegin(l, t) PROVE ClockInv'
    <3>1. TickSince(tick', base') = 0 /\ elapsed' = 0
      BY <2>1, TickSinceSelf DEF TxBegin
    <3>2. pc' \in {"send", "panicked"} /\ base' = t /\ len' = l
      BY <2>1 DEF TxBegin
    <3>3. pc' = "send" => t + Timeout < TickMod /\ t + TimeoutChar * l < TickMod
      BY <2>1 DEF TxBegin
    <3>4. QED
      BY <3>1, <3>2, <3>3 DEF ClockInv, Deadline, Span, Waits
  <2>2. ASSUME NEW d \in Delays, WaveDone(d) PROVE ClockInv'
    <3>1. pc \in Waits /\ base' = base /\ len' = len
      BY <2>2 DEF WaveDone, Waits
    <3>2. elapsed' < TickMod => TickSince(tick', base') = elapsed'
      BY <2>2, <3>1, DelayKeepsClock DEF WaveDone
    <3>3. CASE pc = "send"
      <4>1. pc' = "wait" /\ base + Timeout < TickMod
        BY <2>2, <3>3 DEF WaveDone, ClockInv
      <4>2. QED
        BY <3>1, <3>2, <4>1 DEF ClockInv, Deadline, Span
    <3>4. CASE pc # "send"
      BY <2>2, <3>1, <3>4 DEF WaveDone, Finish, ClockInv, Waits
    <3>5. QED BY <3>3, <3>4
  <2>3. ASSUME NEW d \in Delays, WaveBusy(d) PROVE ClockInv'
    <3>1. pc \in Waits /\ base' = base /\ len' = len
      BY <2>3 DEF WaveBusy, Waits
    <3>2. elapsed' < TickMod => TickSince(tick', base') = elapsed'
      BY <2>3, <3>1, DelayKeepsClock DEF WaveBusy
    <3>3. CASE pc' = pc
      BY <3>1, <3>2, <3>3 DEF ClockInv, Deadline, Span
    <3>4. CASE pc' = "idle"
      BY <3>4 DEF ClockInv, Waits
    <3>5. QED BY <2>3, <3>3, <3>4 DEF WaveBusy, Finish
  <2>4. ASSUME NEW d \in Delays, NothingYet(d) PROVE ClockInv'
    <3>1. pc \in Waits /\ base' = base /\ len' = len
      BY <2>4 DEF NothingYet, Waits
    <3>2. CASE tick > Deadline
      BY <2>4, <3>2 DEF NothingYet, Finish, ClockInv, Waits
    <3>3. CASE ~(tick > Deadline)
      <4>1. elapsed' < TickMod => TickSince(tick', base') = elapsed'
        BY <2>4, <3>1, <3>3, DelayKeepsClock DEF NothingYet
      <4>2. QED
        BY <2>4, <3>1, <3>3, <4>1 DEF NothingYet, ClockInv, Deadline, Span
    <3>4. QED BY <3>2, <3>3
  <2>5. CASE FirstChunk
    BY <2>5, StartWaitClock DEF FirstChunk
  <2>6. CASE EndByte
    <3>1. CASE pc' = "idle"
      BY <3>1 DEF ClockInv, Waits
    <3>2. CASE StartWait("answer") /\ UNCHANGED <<tick, len>>
      BY <3>2, StartWaitClock
    <3>3. QED BY <2>6, <3>1, <3>2 DEF EndByte, Finish
  <2>7. CASE GpioError
    BY <2>7 DEF GpioError, Finish, ClockInv, Waits
  <2>8. CASE UNCHANGED vars
    BY <2>8 DEF vars, ClockInv, Deadline, Span
  <2>9. QED
    BY <2>1, <2>2, <2>3, <2>4, <2>5, <2>6, <2>7, <2>8 DEF Next, HostStep
<1>3. QED
  BY <1>1, <1>2, TypeCorrect, PTL DEF Spec

\* A timeout is never early: the send and receive budgets of tx have passed in
\* real time when it is reported, also when the counter wrapped in between.
THEOREM TimeoutsNotEarly == Spec => NoEarlyTimeout
<1> DEFINE A == /\ result' = "send_timeout" /\ result # "send_timeout" => elapsed' > Span(pc)
                /\ result' = "recv_timeout" /\ result # "recv_timeout" => elapsed > Span(pc)
<1>1. TypeOK /\ ClockInv /\ [Next]_vars => [A]_vars
  <2> SUFFICES ASSUME TypeOK, ClockInv, Next PROVE A
    OBVIOUS
  <2>1. ASSUME NEW l \in 1..BlockMax-1, NEW t \in Tick, TxBegin(l, t) PROVE A
    BY <2>1 DEF TxBegin
  <2>2. ASSUME NEW d \in Delays, WaveDone(d) PROVE A
    BY <2>2 DEF WaveDone, Finish
  <2>3. ASSUME NEW d \in Delays, WaveBusy(d) PROVE A
    <3>1. CASE TickSince(tick', base) > Deadline
      <4>1. pc \in Waits /\ base' = base /\ result' = "send_timeout" /\ GpioDelay(d)
        BY <2>3, <3>1 DEF WaveBusy, Waits, Finish
      <4>2. elapsed' < TickMod => TickSince(tick', base') = elapsed'
        BY <4>1, DelayKeepsClock
      <4>3. tick' \in Tick /\ elapsed' \in 0..ElapsedCap
        BY <4>1, GpioDelayLemma
      <4>4. Span(pc) \in Nat /\ base + Span(pc) < TickMod
        BY <4>1, SpanNat DEF ClockInv, Deadline
      <4>5. elapsed' > Span(pc)
        <5>1. CASE elapsed' < TickMod
          <6>1. elapsed' > base + Span(pc)
            BY <3>1, <4>1, <4>2, <5>1 DEF Deadline
          <6>2. QED
            BY <4>3, <4>4, <6>1, ClockNumbers
        <5>2. CASE elapsed' >= TickMod
          BY <4>3, <4>4, <5>2, ClockNumbers
        <5>3. QED
          BY <4>3, <5>1, <5>2, ClockNumbers
      <4>6. QED BY <4>1, <4>5
    <3>2. CASE ~(TickSince(tick', base) > Deadline)
      BY <2>3, <3>2 DEF WaveBusy
    <3>3. QED BY <3>1, <3>2
  <2>4. ASSUME NEW d \in Delays, NothingYet(d) PROVE A
    <3>1. CASE tick > Deadline
      <4>1. pc \in Waits /\ result' = "recv_timeout"
        BY <2>4, <3>1 DEF NothingYet, Waits, Finish
      <4>2. Span(pc) \in Nat /\ base + Span(pc) < TickMod
        BY <4>1, SpanNat DEF ClockInv, Deadline
      <4>3. elapsed < TickMod => TickSince(tick, base) = elapsed
        BY <4>1 DEF ClockInv
      <4>4. elapsed > Span(pc)
        BY <3>1, <4>2, <4>3, ClockNumbers DEF Deadline, TickSince
      <4>5. QED BY <4>1, <4>4
    <3>2. CASE ~(tick > Deadline)
      BY <2>4, <3>2 DEF NothingYet
    <3>3. QED BY <3>1, <3>2
  <2>5. CASE FirstChunk
    BY <2>5 DEF FirstChunk
  <2>6. CASE EndByte
    BY <2>6 DEF EndByte, Finish
  <2>7. CASE GpioError
    BY <2>7 DEF GpioError, Finish
  <2>8. QED
    BY <2>1, <2>2, <2>3, <2>4, <2>5, <2>6, <2>7 DEF Next, HostStep
<1>2. QED
  BY <1>1, TypeCorrect, ClockCorrect, PTL DEF Spec, NoEarlyTimeout

\* wait_receive never sleeps past its deadline unless the counter wrapped.
THEOREM ReceiveDeadlineKept == Spec => NoSleepPastDeadline
<1> DEFINE A == (pc \in {"wait", "receive"} /\ pc' = pc /\ elapsed < TickMod - base)
                  => elapsed <= Span(pc)
<1>1. TypeOK /\ ClockInv /\ [Next]_vars => [A]_vars
  <2> SUFFICES ASSUME TypeOK, ClockInv, Next, pc \in {"wait", "receive"}, pc' = pc,
                      elapsed < TickMod - base
               PROVE  elapsed <= Span(pc)
    OBVIOUS
  <2>1. PICK d \in Delays : NothingYet(d)
    BY DEF Next, HostStep, TxBegin, WaveDone, WaveBusy, FirstChunk, StartWait, EndByte,
           GpioError, Finish
  <2>2. ~(tick > Deadline)
    BY <2>1 DEF NothingYet, Finish
  <2>3. tick = base + elapsed /\ Span(pc) \in Nat
    <3>1. pc \in Waits
      BY DEF Waits
    <3>2. elapsed < TickMod
      BY ClockNumbers
    <3>3. TickSince(tick, base) = elapsed
      BY <3>1, <3>2 DEF ClockInv
    <3>4. QED
      BY <3>3, SpanNat, ClockNumbers DEF TickSince
  <2>4. QED
    BY <2>2, <2>3 DEF Deadline, TypeOK, Tick
<1>2. QED
  BY <1>1, TypeCorrect, ClockCorrect, PTL DEF Spec, NoSleepPastDeadline

\* The state predicate SendGivenUpLate holds in every reachable state: the
\* absolute deadline bounds a send whose wave never completes, while that deadline is a
\* delay short of the wrap.
THEOREM SendBounded == Spec => []SendGivenUpLate
<1>1. Init => SendGivenUpLate
  BY DEF Init, SendGivenUpLate
<1>2. TypeOK /\ ClockInv /\ TypeOK' /\ ClockInv' /\ SendGivenUpLate /\ [Next]_vars
        => SendGivenUpLate'
  <2> SUFFICES ASSUME TypeOK, ClockInv, TypeOK', ClockInv', SendGivenUpLate, [Next]_vars,
                      pc' \in {"send", "answer"}, Deadline' + MaxDelay < TickMod
               PROVE  elapsed' <= Deadline'
    BY DEF SendGivenUpLate
  <2>1. CASE elapsed' = 0
    <3>1. base' \in Nat /\ Span(pc)' \in Nat
      BY TimingAssumption DEF TypeOK, Tick, Span
    <3>2. QED
      BY <2>1, <3>1 DEF Deadline
  <2>2. CASE UNCHANGED vars
    BY <2>2 DEF vars, SendGivenUpLate, Deadline, Span
  <2>3. ASSUME NEW d \in Delays, WaveBusy(d) PROVE elapsed' <= Deadline'
    <3>1. /\ pc' = pc /\ Deadline' = Deadline /\ GpioDelay(d)
          /\ base' = base /\ ~(TickSince(tick', base) > Deadline)
      BY <2>3 DEF WaveBusy, Finish, Deadline, Span
    <3>2. Deadline \in Nat /\ elapsed <= Deadline
      BY <3>1, SpanNat, ClockNumbers DEF Deadline, SendGivenUpLate
    <3>3. elapsed' \in Nat /\ elapsed' < TickMod
      BY <3>1, <3>2, GpioDelayLemma, ClockNumbers, TimingAssumption DEF GpioDelay
    <3>4. TickSince(tick', base) = elapsed'
      BY <3>1, <3>3 DEF ClockInv, Waits
    <3>5. QED
      BY <3>1, <3>2, <3>3, <3>4
  <2>4. QED
    BY <2>1, <2>2, <2>3 DEF Next, HostStep, TxBegin, WaveDone, NothingYet, FirstChunk,
       EndByte, StartWait, GpioError, Finish
<1>3. QED
  BY <1>1, <1>2, TypeCorrect, ClockCorrect, PTL DEF Spec

-----------------------------------------------------------------------------
(* MdbRoom.                                                                *)

\* What the counter may read in each stage of a tx that began with room.
RoomInv ==
  Room =>
    /\ pc # "panicked"
    /\ pc \in {"send", "wait"} => base = begun /\ begun <= tick
    /\ pc = "send" => tick <= begun + begun + TimeoutChar * len
    /\ pc = "wait" => tick <= LatestFirst(begun, len)
    /\ pc = "receive" => /\ base <= LatestFirst(begun, len) /\ base <= tick
                         /\ tick <= base + TimeoutReceive + MaxDelay

\* Room in numbers, without the product.
LEMMA RoomIs ==
  ASSUME NEW l \in 1..BlockMax-1, NEW t \in Nat
  PROVE  \E c, f, a \in Nat :
           /\ c = TimeoutChar * l /\ f = LatestFirst(t, l) /\ a = Span("answer")
           /\ t + t + c + MaxDelay <= f /\ t + Timeout + MaxDelay <= f
<1> DEFINE c == TimeoutChar * l
<1>1. {Timeout, TimeoutSmall, TimeoutChar, TimeoutReceive, MaxDelay} \subseteq Nat
  BY TimingAssumption
<1>2. c \in Nat
  BY <1>1
<1>3. Span("answer") \in Nat
  BY <1>1 DEF Span
<1>4. LatestFirst(t, l) = MaxDelay + IF t + t + c < t + Timeout THEN t + Timeout ELSE t + t + c
  BY DEF LatestFirst
<1> HIDE DEF c
<1>5. /\ LatestFirst(t, l) \in Nat
      /\ t + t + c + MaxDelay <= LatestFirst(t, l) /\ t + Timeout + MaxDelay <= LatestFirst(t, l)
  BY <1>1, <1>2, <1>4
<1> QED
  BY <1>2, <1>3, <1>5 DEF c

\* As long as the counter stays below the wrap, a delay only adds to it.
LEMMA DelayBelowWrap ==
  ASSUME NEW d \in Delays, GpioDelay(d), tick \in Nat, NEW b \in Nat,
         tick <= b, b + MaxDelay < TickMod
  PROVE  /\ d \in Nat /\ d <= MaxDelay /\ tick' = tick + d
<1>1. d \in Nat /\ d <= MaxDelay /\ MaxDelay \in Nat /\ TickMod \in Nat
  BY TimingAssumption
<1>2. tick + d < TickMod
  BY <1>1
<1> QED
  BY <1>1, <1>2 DEF GpioDelay, TickAfter

\* A request leaves room or not, whatever its stage.
LEMMA RoomKept == ASSUME begun' = begun, len' = len PROVE Room' <=> Room
BY DEF Room, LatestFirst, Span

\* Every step keeps RoomInv.
LEMMA RoomStep == TypeOK /\ begun \in Tick /\ RoomInv /\ [RNext]_<<vars, begun>> => RoomInv'
<1> SUFFICES ASSUME TypeOK, begun \in Tick, RoomInv, [RNext]_<<vars, begun>>, Room'
             PROVE  /\ pc' # "panicked"
                    /\ pc' \in {"send", "wait"} => base' = begun' /\ begun' <= tick'
                    /\ pc' = "send" => tick' <= begun' + begun' + TimeoutChar * len'
                    /\ pc' = "wait" => tick' <= LatestFirst(begun', len')
                    /\ pc' = "receive" => /\ base' <= LatestFirst(begun', len') /\ base' <= tick'
                                          /\ tick' <= base' + TimeoutReceive + MaxDelay
  BY DEF RoomInv
<1> DEFINE Goal == /\ pc' # "panicked"
                   /\ pc' \in {"send", "wait"} => base' = begun' /\ begun' <= tick'
                   /\ pc' = "send" => tick' <= begun' + begun' + TimeoutChar * len'
                   /\ pc' = "wait" => tick' <= LatestFirst(begun', len')
                   /\ pc' = "receive" => /\ base' <= LatestFirst(begun', len') /\ base' <= tick'
                                         /\ tick' <= base' + TimeoutReceive + MaxDelay
<1>0. /\ {Timeout, TimeoutReceive, MaxDelay, TickMod, tick, base, begun} \subseteq Nat
      /\ len \in 1..BlockMax-1
  BY TimingAssumption DEF TypeOK, Tick
<1>1. ASSUME NEW l \in 1..BlockMax-1, NEW t \in Tick, TxBegin(l, t), Begins, begun' = base'
      PROVE  Goal
  <2>1. tick' = t /\ base' = t /\ begun' = t /\ len' = l /\ t \in Nat
    BY <1>1, TimingAssumption DEF TxBegin, Tick
  <2>2. LatestFirst(t, l) + TimeoutReceive + MaxDelay + Span("answer") < TickMod
    BY <2>1 DEF Room, Span
  <2>3. PICK c, f, a \in Nat :
           /\ c = TimeoutChar * l /\ f = LatestFirst(t, l) /\ a = Span("answer")
           /\ t + t + c + MaxDelay <= f /\ t + Timeout + MaxDelay <= f
    BY <2>1, RoomIs
  <2>4. t + Timeout < TickMod /\ t + c < TickMod /\ t <= t + t + c
    BY <1>0, <2>1, <2>2, <2>3
  <2>5. pc' = "send"
    BY <1>1, <2>3, <2>4 DEF TxBegin
  <2> QED
    BY <2>1, <2>3, <2>4, <2>5
<1>2. ASSUME HostStep, begun' = begun PROVE Goal
  <2>1. len' = len /\ pc \in Waits
    BY <1>2 DEF HostStep, WaveDone, WaveBusy, NothingYet, FirstChunk, EndByte, GpioError, Waits
  <2>2. Room
    BY <1>2, <2>1, RoomKept
  <2>3. PICK c, f, a \in Nat :
           /\ c = TimeoutChar * len /\ f = LatestFirst(begun, len) /\ a = Span("answer")
           /\ begun + begun + c + MaxDelay <= f /\ begun + Timeout + MaxDelay <= f
    BY <1>0, RoomIs
  <2>4. f + TimeoutReceive + MaxDelay + a < TickMod
    BY <2>2, <2>3 DEF Room
  <2>5. /\ pc \in {"send", "wait"} => base = begun /\ begun <= tick
        /\ pc = "send" => tick <= begun + begun + c
        /\ pc = "wait" => tick <= f
        /\ pc = "receive" => /\ base <= f /\ base <= tick
                             /\ tick <= base + TimeoutReceive + MaxDelay
    BY <2>2, <2>3 DEF RoomInv
  <2> DEFINE Stage == /\ pc' # "panicked"
                      /\ pc' \in {"send", "wait"} => base' = begun /\ begun <= tick'
                      /\ pc' = "send" => tick' <= begun + begun + c
                      /\ pc' = "wait" => tick' <= f
                      /\ pc' = "receive" => /\ base' <= f /\ base' <= tick'
                                            /\ tick' <= base' + TimeoutReceive + MaxDelay
  <2>6. ASSUME pc' \in {"idle", "answer"} PROVE Stage
    BY <2>6
  <2>7. ASSUME NEW d \in Delays, WaveDone(d), pc = "send" PROVE Stage
    <3>1. begun + begun + c + MaxDelay < TickMod
      BY <1>0, <2>3, <2>4
    <3>2. d \in Nat /\ d <= MaxDelay /\ tick' = tick + d
      BY <1>0, <2>5, <2>7, <3>1, DelayBelowWrap DEF WaveDone
    <3>3. pc' = "wait" /\ base' = base
      BY <2>7 DEF WaveDone
    <3> QED
      BY <1>0, <2>3, <2>5, <2>7, <3>2, <3>3
  <2>8. ASSUME NEW d \in Delays, WaveBusy(d), pc' = "send" PROVE Stage
    <3>1. begun + begun + c + MaxDelay < TickMod
      BY <1>0, <2>3, <2>4
    <3>2. /\ pc = "send" /\ base' = base /\ GpioDelay(d)
          /\ ~(TickSince(tick', base) > Deadline)
      BY <2>8 DEF WaveBusy, Finish
    <3>3. d \in Nat /\ d <= MaxDelay /\ tick' = tick + d
      BY <1>0, <2>5, <3>1, <3>2, DelayBelowWrap
    <3>4. TickSince(tick', base) = tick' - base /\ Deadline = begun + c
      BY <1>0, <2>3, <2>5, <3>2, <3>3 DEF TickSince, Deadline, Span
    <3> QED
      BY <1>0, <2>3, <2>5, <2>8, <3>2, <3>3, <3>4
  <2>9. ASSUME NEW d \in Delays, NothingYet(d), pc' # "idle" PROVE Stage
    <3>1. /\ pc \in {"wait", "receive"} /\ pc' = pc /\ base' = base
          /\ GpioDelay(d) /\ tick <= Deadline
      <4>1. /\ pc \in {"wait", "receive"} /\ ~(tick > Deadline)
            /\ pc' = pc /\ base' = base /\ GpioDelay(d)
        BY <2>9 DEF NothingYet, Finish
      <4>2. Deadline \in Nat
        BY <1>0, SpanNat DEF Deadline
      <4> QED
        BY <1>0, <4>1, <4>2
    <3>2. CASE pc = "wait"
      <4>1. Deadline = begun + Timeout /\ Deadline + MaxDelay < TickMod /\ Deadline \in Nat
        BY <1>0, <2>3, <2>4, <2>5, <3>2 DEF Deadline, Span
      <4>2. d \in Nat /\ d <= MaxDelay /\ tick' = tick + d
        BY <1>0, <3>1, <4>1, DelayBelowWrap
      <4> QED
        BY <1>0, <2>3, <2>5, <3>1, <3>2, <4>1, <4>2
    <3>3. CASE pc = "receive"
      <4>1. /\ Deadline = base + TimeoutReceive /\ Deadline + MaxDelay < TickMod
            /\ Deadline \in Nat
        BY <1>0, <2>3, <2>4, <2>5, <3>3 DEF Deadline, Span
      <4>2. d \in Nat /\ d <= MaxDelay /\ tick' = tick + d
        BY <1>0, <3>1, <4>1, DelayBelowWrap
      <4> QED
        BY <1>0, <2>3, <2>5, <3>1, <3>3, <4>1, <4>2
    <3> QED
      BY <3>1, <3>2, <3>3
  <2>10. ASSUME FirstChunk PROVE Stage
    <3>1. pc = "wait" /\ base' = tick /\ tick' = tick
      BY <2>10 DEF FirstChunk, StartWait
    <3>2. tick + Span("receive") < TickMod
      BY <1>0, <2>3, <2>4, <2>5, <3>1 DEF Span
    <3>3. pc' = "receive"
      BY <2>10, <3>2 DEF FirstChunk, StartWait
    <3> QED
      BY <1>0, <2>3, <2>5, <3>1, <3>3
  <2>11. ASSUME EndByte, pc' # "idle" PROVE Stage
    <3>1. pc = "receive" /\ StartWait("answer")
      BY <2>11 DEF EndByte, Finish
    <3>2. tick + Span("answer") < TickMod
      BY <1>0, <2>3, <2>4, <2>5, <3>1
    <3>3. pc' = "answer"
      BY <3>1, <3>2 DEF StartWait
    <3> QED
      BY <3>3
  <2>12. Stage
    <3>1. ASSUME NEW d \in Delays, WaveDone(d), pc # "send" PROVE Stage
      BY <2>6, <3>1 DEF WaveDone, Finish
    <3>2. ASSUME NEW d \in Delays, WaveBusy(d), pc' # "send" PROVE Stage
      BY <2>6, <3>2 DEF WaveBusy, Finish
    <3>3. ASSUME NEW d \in Delays, NothingYet(d), pc' = "idle" PROVE Stage
      BY <2>6, <3>3
    <3>4. ASSUME GpioError PROVE Stage
      BY <2>6, <3>4 DEF GpioError, Finish
    <3>5. ASSUME EndByte, pc' = "idle" PROVE Stage
      BY <2>6, <3>5
    <3> HIDE DEF Stage
    <3> QED
      BY <1>2, <2>7, <2>8, <2>9, <2>10, <2>11, <3>1, <3>2, <3>3, <3>4, <3>5 DEF HostStep
  <2> QED
    BY <1>2, <2>1, <2>3, <2>12
<1>3. CASE UNCHANGED <<vars, begun>>
  BY <1>3, RoomKept DEF vars, RoomInv
<1>4. ASSUME RNext PROVE Goal
  <2>1. HostStep => begun' = begun
    <3>1. HostStep => pc \in Waits
      BY DEF HostStep, WaveDone, WaveBusy, NothingYet, FirstChunk, EndByte, GpioError, Waits
    <3> QED
      BY <1>4, <3>1 DEF RNext, Begins, Waits
  <2>2. ASSUME NEW l \in 1..BlockMax-1, NEW t \in Tick, TxBegin(l, t)
        PROVE  Begins /\ begun' = base'
    <3>1. Begins
      BY <2>2 DEF TxBegin, Begins
    <3> QED
      BY <1>4, <3>1 DEF RNext
  <2> HIDE DEF Goal
  <2> QED
    BY <1>1, <1>2, <1>4, <2>1, <2>2 DEF RNext, Next
<1> QED
  BY <1>3, <1>4

\* A tx that begins with room for all its stages, in the first half of the
\* counter's turn, never panics: NoPanicWithRoom holds in every reachable state.
THEOREM NoPanicInRoom == RSpec => []NoPanicWithRoom
<1>1. RInit => Init
  BY DEF RInit
<1>2. [RNext]_<<vars, begun>> => [Next]_vars
  BY DEF RNext, vars
<1>3. RSpec => Spec
  BY <1>1, <1>2, PTL DEF RSpec, Spec
<1>4. RSpec => []TypeOK
  BY <1>3, TypeCorrect, PTL
<1> DEFINE Begun == begun \in Tick
<1>5. RInit => Begun /\ RoomInv
  BY DEF RInit, Init, RoomInv
<1>6. TypeOK' /\ Begun /\ [RNext]_<<vars, begun>> => Begun'
  BY DEF RNext, TypeOK
<1>7. TypeOK /\ Begun /\ RoomInv /\ [RNext]_<<vars, begun>> => RoomInv'
  BY RoomStep
<1>8. RoomInv => NoPanicWithRoom
  BY DEF RoomInv, NoPanicWithRoom
<1> HIDE DEF Begun
<1> QED
  BY <1>4, <1>5, <1>6, <1>7, <1>8, PTL DEF RSpec
=============================================================================
