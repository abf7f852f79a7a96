--------------------------- MODULE MdbReceiveProofs ---------------------------
(***************************************************************************)
(* Proofs about MdbReceive, for every clock, word time and budget.         *)
(*                                                                         *)
(* First the counter: two readings of gpioTick differ by the time between  *)
(* them, less the turns in between, so a reading past a deadline is never  *)
(* early.  Then where the words of an answer are, which is what says that  *)
(* a wait that gives up has read all of them; and how far the thread may   *)
(* sleep past a deadline, which with the speed of the line bounds a        *)
(* response.  Last, every step maps to one of MdbTiming.                   *)
(***************************************************************************)
EXTENDS MdbReceive, Integers, TLAPS

\* The assumption, number by number.
LEMMA Constants ==
  /\ TickMod \in Nat /\ TickMod > 0 /\ BlockMax \in Nat /\ BlockMax > 1
  /\ WordTime \in Nat /\ WordTime > 0
  /\ Timeout \in Nat /\ TimeoutSmall \in Nat /\ TimeoutChar \in Nat /\ MaxDelay \in Nat
  /\ MaxDelay < TickMod /\ TimeoutReceive \in Nat
BY ReceiveAssumption DEF TimeoutReceive

\* A sleep takes time, and less than a turn of the counter.
LEMMA DelayFacts ==
  ASSUME NEW d \in Delays
  PROVE  d \in Nat /\ 1 <= d /\ d <= MaxDelay /\ d < TickMod
<1>1. d \in 1..MaxDelay
  BY ReceiveAssumption
<1>2. MaxDelay \in Nat /\ MaxDelay < TickMod /\ TickMod \in Nat
  BY Constants
<1>3. QED BY <1>1, <1>2

\* gpioTick() is the real time less whole turns.
LEMMA Turns ==
  ASSUME NEW t \in Nat
  PROVE  /\ Tick(t) \in Nat /\ Tick(t) < TickMod
         /\ t \div TickMod \in Nat
         /\ t = ((t \div TickMod) * TickMod) + Tick(t)
<1>1. TickMod \in Nat /\ TickMod > 0
  BY Constants
<1>2. t % TickMod \in Nat /\ t % TickMod < TickMod
  BY <1>1
<1>3. t \div TickMod \in Nat
  BY <1>1
<1>4. t = ((t \div TickMod) * TickMod) + (t % TickMod)
  BY <1>1
<1>5. QED
  BY <1>2, <1>3, <1>4 DEF Tick

\* Numbers in different turns, of which r and s are left.
LEMMA Remainders ==
  ASSUME NEW m \in Nat, NEW p \in Nat, NEW q \in Nat, NEW r \in Nat, NEW s \in Nat,
         r < m, s < m, (p * m) + r <= (q * m) + s
  PROVE  LET g == ((q * m) + s) - ((p * m) + r) IN
         /\ s <= r + g
         /\ r + g < m => s = r + g
         /\ g < m => s = IF r + g < m THEN r + g ELSE (r + g) - m
<1> DEFINE i == q - p
           g == ((q * m) + s) - ((p * m) + r)
<1>1. i \in Int /\ g = ((i * m) + s) - r /\ g >= 0
  OBVIOUS
<1>2. /\ i * m \in Int
      /\ i >= 1 => i * m >= m
      /\ i >= 2 => i * m >= m + m
      /\ i <= -1 => i * m <= -m
      /\ i = 0 => i * m = 0
      /\ i = 1 => i * m = m
  <2> HIDE DEF i
  <2>1. QED BY <1>1
<1> DEFINE x == i * m
<1> HIDE DEF i, g, x
<1>3. x \in Int /\ i \in Int /\ g = (x + s) - r /\ g >= 0
  BY <1>1, <1>2 DEF x
<1>4. /\ i >= 1 => x >= m
      /\ i >= 2 => x >= m + m
      /\ i <= -1 => x <= -m
      /\ i = 0 => x = 0
      /\ i = 1 => x = m
  BY <1>2 DEF x
<1>5. /\ s <= r + g
      /\ r + g < m => s = r + g
      /\ g < m => s = IF r + g < m THEN r + g ELSE (r + g) - m
  BY <1>3, <1>4
<1>6. QED BY <1>5 DEF g

\* Two readings of the counter.
LEMMA TickGap ==
  ASSUME NEW a \in Nat, NEW b \in Nat, a <= b
  PROVE  /\ Tick(b) <= Tick(a) + (b - a)
         /\ Tick(a) + (b - a) < TickMod => Tick(b) = Tick(a) + (b - a)
         /\ b - a < TickMod =>
              Tick(b) = IF Tick(a) + (b - a) < TickMod THEN Tick(a) + (b - a)
                        ELSE (Tick(a) + (b - a)) - TickMod
<1>1. PICK p \in Nat : a = (p * TickMod) + Tick(a)
  BY Turns
<1>2. PICK q \in Nat : b = (q * TickMod) + Tick(b)
  BY Turns
<1>3. /\ Tick(a) \in Nat /\ Tick(a) < TickMod
      /\ Tick(b) \in Nat /\ Tick(b) < TickMod /\ TickMod \in Nat
  BY Turns, Constants
<1>4. (p * TickMod) + Tick(a) <= (q * TickMod) + Tick(b)
  BY <1>1, <1>2
<1>5. LET g == ((q * TickMod) + Tick(b)) - ((p * TickMod) + Tick(a)) IN
      /\ Tick(b) <= Tick(a) + g
      /\ Tick(a) + g < TickMod => Tick(b) = Tick(a) + g
      /\ g < TickMod => Tick(b) = IF Tick(a) + g < TickMod THEN Tick(a) + g ELSE (Tick(a) + g) - TickMod
  BY <1>3, <1>4, Remainders
<1>6. ((q * TickMod) + Tick(b)) - ((p * TickMod) + Tick(a)) = b - a
  BY <1>1, <1>2
<1>7. QED BY <1>5, <1>6

\* TypeOK, number by number.
LEMMA TypeFacts ==
  ASSUME TypeOK
  PROVE  /\ now \in Nat /\ wake \in Nat /\ start \in Nat /\ first \in Nat /\ last \in Nat
         /\ ring \in Nat /\ chunk \in Nat /\ response \in Nat /\ words \in Nat
         /\ len \in Nat
<1>1. len \in 1..(BlockMax - 1) /\ BlockMax \in Nat
  BY Constants DEF TypeOK
<1>2. len \in Nat
  BY <1>1
<1>3. QED BY <1>2 DEF TypeOK

\* The answer is as it was.
Still == UNCHANGED <<ring, first, last, words, ended>>

\* What a turn of mdb_wave_send_wait changes.
LEMMA WaveTurnEffect ==
  ASSUME NEW d \in Delays, WaveTurn(d)
  PROVE  /\ pc \in {"send", "answer"} /\ now = wake /\ wake' = now + d /\ now' = now
         /\ UNCHANGED <<start, len, chunk, response>> /\ Still
         /\ \/ pc' = pc /\ result' = result
            \/ pc = "send" /\ pc' = "wait" /\ result' = result
            \/ pc' = "idle" /\ result' \in {"ok", "error", "send_timeout"}
<1>1. CASE pc = "send" /\ pc' = "wait" /\ UNCHANGED result
  BY <1>1 DEF WaveTurn, Sleep, Running, Still, answer
<1>2. CASE \E r \in {"ok", "error"} : Finish(r)
  BY <1>2 DEF WaveTurn, Sleep, Running, Finish, Still, answer
<1>3. CASE Finish("send_timeout")
  BY <1>3 DEF WaveTurn, Sleep, Running, Finish, Still, answer
<1>4. CASE UNCHANGED <<pc, result>>
  BY <1>4 DEF WaveTurn, Sleep, Running, Still, answer
<1>5. QED BY <1>1, <1>2, <1>3, <1>4 DEF WaveTurn

\* What a look of wait_receive at an empty ring changes.
LEMMA NothingYetEffect ==
  ASSUME NEW d \in Delays, NothingYet(d)
  PROVE  /\ pc \in {"wait", "receive"} /\ now = wake /\ chunk = 0 /\ ring = 0 /\ now' = now
         /\ UNCHANGED <<start, len, chunk, response>> /\ Still
         /\ \/ Tick(now) > Deadline /\ pc' = "idle" /\ result' = "recv_timeout" /\ wake' = wake
            \/ ~(Tick(now) > Deadline) /\ wake' = now + d /\ UNCHANGED <<pc, result>>
BY DEF NothingYet, Sleep, Running, Finish, Still, answer

\* What a return of wait_receive with words changes.
LEMMA SerialReadEffect ==
  ASSUME NEW n \in 1..BlockMax, SerialRead(n)
  PROVE  /\ pc \in {"wait", "receive"} /\ now = wake /\ chunk = 0 /\ n <= ring
         /\ chunk' = n /\ ring' = ring - n
         /\ UNCHANGED <<len, result, response, now, wake, first, last, words, ended>>
         /\ \/ pc = "wait" /\ start' = now /\ pc' \in {"receive", "panicked"}
            \/ pc = "receive" /\ UNCHANGED <<pc, start>>
BY DEF SerialRead, StartWait, Running, answer

\* What the receive loop changes.
LEMMA LookEffect ==
  ASSUME TypeOK, Look
  PROVE  /\ pc = "receive" /\ chunk > 0 /\ chunk' = 0
         /\ UNCHANGED <<len, now, wake>> /\ Still
         /\ \/ /\ ~(ended /\ ring = 0) /\ response' = response + chunk
               /\ UNCHANGED <<pc, start, result>>
            \/ /\ ended /\ ring = 0 /\ response' = response + chunk - 1
               /\ \/ pc' = "idle" /\ result' \in {"ok", "error"} /\ start' = start
                  \/ start' = now /\ pc' \in {"answer", "panicked"} /\ result' = result
<1>1. CASE ended /\ ring = 0
  <2>1. CASE response' = 0
    BY <1>1, <2>1 DEF Look, Finish, Still, answer
  <2>2. CASE response' # 0
    BY <1>1, <2>2 DEF Look, StartWait, Still, answer
  <2>3. QED BY <2>1, <2>2
<1>2. CASE ~(ended /\ ring = 0)
  <2>1. response' = response + chunk
    BY <1>2, TypeFacts DEF Look
  <2>2. QED
    BY <1>2, <2>1 DEF Look, Still, answer
<1>3. QED BY <1>1, <1>2

\* What a word changes.
LEMMA ArriveEffect ==
  ASSUME NEW e \in BOOLEAN, Arrive(e)
  PROVE  /\ pc \in {"wait", "receive"} /\ ~ended
         /\ words > 0 => now >= last + WordTime
         /\ ring' = ring + 1 /\ words' = words + 1 /\ last' = now
         /\ (words = 0 /\ first' = now) \/ (words # 0 /\ first' = first)
         /\ UNCHANGED <<pc, start, len, result, chunk, response, now, wake>>
BY DEF Arrive, program

\* Every step keeps the types.
LEMMA TypeStep == TypeOK /\ [Next]_vars => TypeOK'
<1> SUFFICES ASSUME TypeOK, [Next]_vars PROVE TypeOK'
  OBVIOUS
<1>1. ASSUME NEW l \in 1..(BlockMax - 1), TxBegin(l) PROVE TypeOK'
  BY <1>1 DEF TypeOK, TxBegin, answer
<1>2. ASSUME NEW d \in Delays, WaveTurn(d) PROVE TypeOK'
  <2>1. wake' \in Nat
    <3>1. wake' \in {wake, now + d} /\ now \in Nat /\ wake \in Nat
      BY <1>2, WaveTurnEffect, TypeFacts
    <3>2. QED BY <3>1, DelayFacts
  <2>2. QED
    BY <1>2, <2>1, WaveTurnEffect DEF TypeOK, Still
<1>3. ASSUME NEW d \in Delays, NothingYet(d) PROVE TypeOK'
  <2>1. wake' \in Nat
    <3>1. wake' \in {wake, now + d} /\ now \in Nat /\ wake \in Nat
      BY <1>3, NothingYetEffect, TypeFacts
    <3>2. QED BY <3>1, DelayFacts
  <2>2. QED
    BY <1>3, <2>1, NothingYetEffect DEF TypeOK, Still
<1>4. ASSUME NEW n \in 1..BlockMax, SerialRead(n) PROVE TypeOK'
  <2>1. ring' \in Nat /\ chunk' \in Nat
    BY <1>4, SerialReadEffect, DelayFacts, TypeFacts
  <2>2. QED
    BY <1>4, <2>1, SerialReadEffect DEF TypeOK
<1>5. CASE Look
  <2>1. response' \in Nat /\ chunk' \in Nat
    BY <1>5, LookEffect, TypeFacts
  <2>2. QED
    BY <1>5, <2>1, LookEffect DEF TypeOK, Still
<1>6. CASE GpioError
  BY <1>6 DEF TypeOK, GpioError, Finish, answer
<1>7. CASE Pass
  <2>1. now' \in Nat
    BY <1>7, TypeFacts DEF Pass
  <2>2. QED
    BY <1>7, <2>1 DEF TypeOK, Pass, program, answer
<1>8. ASSUME NEW e \in BOOLEAN, Arrive(e) PROVE TypeOK'
  <2>1. ring' \in Nat /\ words' \in Nat /\ last' \in Nat /\ first' \in Nat
    BY <1>8, ArriveEffect, TypeFacts
  <2>2. ended' \in BOOLEAN
    BY <1>8 DEF Arrive
  <2>3. QED
    BY <1>8, <2>1, <2>2, ArriveEffect DEF TypeOK
<1>9. CASE UNCHANGED vars
  BY <1>9 DEF TypeOK, vars, program, answer
<1>10. QED
  BY <1>1, <1>2, <1>3, <1>4, <1>5, <1>6, <1>7, <1>8, <1>9 DEF Next

\* A sleep is under way or over; what has happened happened in this order.
ClockInv ==
  /\ now <= wake /\ wake <= now + MaxDelay
  /\ start <= now /\ first <= last /\ last <= now

\* Every step keeps ClockInv.
LEMMA ClockStep == TypeOK /\ TypeOK' /\ ClockInv /\ [Next]_vars => ClockInv'
<1> SUFFICES ASSUME TypeOK, TypeOK', ClockInv, [Next]_vars PROVE ClockInv'
  OBVIOUS
<1>1. ASSUME NEW l \in 1..(BlockMax - 1), TxBegin(l) PROVE ClockInv'
  BY <1>1, TypeFacts DEF ClockInv, TxBegin, answer
<1>2. ASSUME NEW d \in Delays, WaveTurn(d) PROVE ClockInv'
  <2>1. /\ now = wake /\ wake' \in {wake, now + d} /\ now' = now
        /\ UNCHANGED <<start, first, last>>
    BY <1>2, WaveTurnEffect DEF Still
  <2>2. d \in Nat /\ d <= MaxDelay
    BY DelayFacts
  <2>3. QED
    BY <2>1, <2>2, TypeFacts, Constants DEF ClockInv
<1>3. ASSUME NEW d \in Delays, NothingYet(d) PROVE ClockInv'
  <2>1. /\ now = wake /\ wake' \in {wake, now + d} /\ now' = now
        /\ UNCHANGED <<start, first, last>>
    BY <1>3, NothingYetEffect DEF Still
  <2>2. d \in Nat /\ d <= MaxDelay
    BY DelayFacts
  <2>3. QED
    BY <2>1, <2>2, TypeFacts, Constants DEF ClockInv
<1>4. ASSUME NEW n \in 1..BlockMax, SerialRead(n) PROVE ClockInv'
  BY <1>4, SerialReadEffect, Constants, TypeFacts DEF ClockInv
<1>5. CASE Look
  BY <1>5, LookEffect, TypeFacts, Constants DEF ClockInv, Still
<1>6. CASE GpioError
  BY <1>6 DEF ClockInv, GpioError, answer
<1>7. CASE Pass
  BY <1>7, Constants, TypeFacts DEF ClockInv, Pass, program, answer
<1>8. ASSUME NEW e \in BOOLEAN, Arrive(e) PROVE ClockInv'
  BY <1>8, ArriveEffect, TypeFacts, Constants DEF ClockInv
<1>9. CASE UNCHANGED vars
  BY <1>9 DEF ClockInv, vars, program, answer
<1>10. QED
  BY <1>1, <1>2, <1>3, <1>4, <1>5, <1>6, <1>7, <1>8, <1>9 DEF Next

\* The words of an answer come no faster than the line carries them.
Pace == words > 0 => (words - 1) * WordTime <= last - first

\* Every step keeps Pace.
LEMMA PaceStep == TypeOK /\ Pace /\ [Next]_vars => Pace'
<1> SUFFICES ASSUME TypeOK, Pace, [Next]_vars PROVE Pace'
  OBVIOUS
<1>1. ASSUME NEW e \in BOOLEAN, Arrive(e) PROVE Pace'
  <2>1. CASE words = 0
    <3>1. words' = 1 /\ first' = now /\ last' = now /\ now \in Nat
      BY <1>1, <2>1, ArriveEffect, TypeFacts
    <3>2. (words' - 1) * WordTime = 0
      BY <3>1, Constants
    <3>3. QED BY <3>1, <3>2 DEF Pace
  <2>2. CASE words # 0
    <3>1. /\ words > 0 /\ words' = words + 1 /\ first' = first /\ last' = now
          /\ now >= last + WordTime
      BY <1>1, <2>2, ArriveEffect, TypeFacts
    <3>2. (words - 1) * WordTime \in Int
      BY Constants, TypeFacts
    <3>3. (words' - 1) * WordTime = ((words - 1) * WordTime) + WordTime
      BY <3>1, Constants, TypeFacts
    <3>4. (words - 1) * WordTime <= last - first
      BY <3>1 DEF Pace
    <3>5. (words' - 1) * WordTime <= last' - first'
      BY <3>1, <3>2, <3>3, <3>4, Constants, TypeFacts
    <3>6. QED BY <3>5 DEF Pace
  <2>3. QED BY <2>1, <2>2
<1>2. CASE UNCHANGED <<words, first, last>>
  BY <1>2 DEF Pace
<1>3. QED
  BY <1>1, <1>2 DEF Next, vars, TxBegin, WaveTurn, NothingYet, SerialRead, Look, GpioError, Pass, answer

\* Where the words of the answer are.
WordInv ==
  /\ result # "none" => pc = "idle"
  /\ pc \in {"idle", "send"} /\ result = "none" => words = 0
  /\ pc = "wait" => chunk = 0 /\ response = 0
  /\ pc = "receive" => words > 0 /\ first <= start
  /\ chunk > 0 => pc \in {"receive", "panicked"} /\ now = wake
  /\ words = 0 => ring = 0 /\ chunk = 0 /\ response = 0 /\ ~ended
  /\ response + chunk + ring <= words
  /\ ~ended => response + chunk + ring = words
  /\ pc \in {"wait", "receive"} /\ ended => ring + chunk > 0
  /\ pc = "wait" /\ words > 0 => ring = words

\* Every step keeps WordInv: no word of an answer is lost between ring and response.
LEMMA WordStep == TypeOK /\ ClockInv /\ WordInv /\ [Next]_vars => WordInv'
<1> SUFFICES ASSUME TypeOK, ClockInv, WordInv, [Next]_vars PROVE WordInv'
  OBVIOUS
<1> USE TypeFacts
<1>1. ASSUME NEW l \in 1..(BlockMax - 1), TxBegin(l) PROVE WordInv'
  BY <1>1 DEF WordInv, TxBegin, answer
<1>2. ASSUME NEW d \in Delays, WaveTurn(d) PROVE WordInv'
  <2>1. /\ pc \in {"send", "answer"} /\ UNCHANGED <<chunk, response, ring, first, words, ended>>
        /\ \/ pc' = pc /\ result' = result
           \/ pc = "send" /\ pc' = "wait" /\ result' = result
           \/ pc' = "idle" /\ result' # "none"
    BY <1>2, WaveTurnEffect DEF Still
  <2>2. chunk = 0
    BY <2>1 DEF WordInv
  <2>3. CASE pc = "send" /\ pc' = "wait" /\ result' = result
    <3>1. words = 0
      BY <2>3 DEF WordInv
    <3>2. QED
      BY <2>1, <2>2, <2>3, <3>1 DEF WordInv
  <2>4. CASE pc' = pc /\ result' = result
    BY <2>1, <2>2, <2>4 DEF WordInv
  <2>5. CASE pc' = "idle" /\ result' # "none"
    BY <2>1, <2>2, <2>5 DEF WordInv
  <2>6. QED BY <2>1, <2>3, <2>4, <2>5
<1>3. ASSUME NEW d \in Delays, NothingYet(d) PROVE WordInv'
  <2>1. /\ chunk' = chunk /\ chunk = 0 /\ ring = 0 /\ pc \in {"wait", "receive"}
        /\ UNCHANGED <<response, start, ring, first, words, ended>>
        /\ result' = result \/ pc' = "idle"
        /\ (pc' = pc /\ result' = result) \/ (pc' = "idle" /\ result' # "none")
    BY <1>3, NothingYetEffect DEF Still
  <2>2. QED BY <2>1 DEF WordInv
<1>4. ASSUME NEW n \in 1..BlockMax, SerialRead(n) PROVE WordInv'
  <2>1. n \in Nat /\ n > 0
    BY Constants
  <2>2. /\ pc \in {"wait", "receive"} /\ now = wake /\ chunk = 0 /\ n <= ring
        /\ chunk' = n /\ ring' = ring - n
        /\ UNCHANGED <<result, response, now, wake, first, words, ended>>
        /\ (pc = "wait" /\ start' = now /\ pc' \in {"receive", "panicked"})
           \/ (pc = "receive" /\ UNCHANGED <<pc, start>>)
    BY <1>4, SerialReadEffect
  <2>3. ring' + chunk' = ring /\ ring' >= 0 /\ chunk' > 0 /\ words > 0
    BY <2>1, <2>2 DEF WordInv
  <2>4. first <= now
    BY DEF ClockInv
  <2>5. QED
    BY <2>1, <2>2, <2>3, <2>4 DEF WordInv
<1>5. CASE Look
  BY <1>5, LookEffect DEF WordInv, Still
<1>6. CASE GpioError
  BY <1>6 DEF WordInv, GpioError, Finish, answer
<1>7. CASE Pass
  BY <1>7 DEF WordInv, Pass, program, answer
<1>8. ASSUME NEW e \in BOOLEAN, Arrive(e) PROVE WordInv'
  <2>1. /\ pc \in {"wait", "receive"} /\ ~ended
        /\ ring' = ring + 1 /\ words' = words + 1
        /\ (words = 0 /\ first' = now) \/ (words # 0 /\ first' = first)
        /\ UNCHANGED <<pc, start, result, chunk, response, now, wake>>
    BY <1>8, ArriveEffect
  <2>2. CASE words = 0
    BY <2>1, <2>2 DEF WordInv
  <2>3. CASE words # 0
    BY <2>1, <2>3 DEF WordInv
  <2>4. QED BY <2>2, <2>3
<1>9. CASE UNCHANGED vars
  BY <1>9 DEF WordInv, vars, program, answer
<1>10. QED
  BY <1>1, <1>2, <1>3, <1>4, <1>5, <1>6, <1>7, <1>8, <1>9 DEF Next

\* What is added to make a deadline.
LEMMA DeadlineNat == ASSUME TypeOK PROVE Span(pc) \in Nat /\ Tick(start) \in Nat /\ Tick(start) < TickMod
<1>1. Tick(start) \in Nat /\ Tick(start) < TickMod
  BY Turns, TypeFacts
<1>2. TimeoutChar * len \in Nat
  BY Constants, TypeFacts
<1>3. QED BY <1>1, <1>2, Constants DEF Span

\* A wait sees the first word no later than one delay after it came, and goes on
\* no longer than one delay past its deadline, unless the counter wraps.
WaitInv ==
  /\ pc = "wait" /\ words > 0 => wake <= first + MaxDelay
  /\ pc = "receive" => start <= first + MaxDelay
  /\ pc = "receive" /\ Tick(start) + TimeoutReceive + MaxDelay < TickMod
       => wake <= start + TimeoutReceive + MaxDelay

\* Receive sleeps only as long as its deadline has not passed.
LEMMA SleepInTime ==
  ASSUME TypeOK, ClockInv, WaitInv, pc = "receive", now = wake, ~(Tick(now) > Deadline),
         Tick(start) + TimeoutReceive + MaxDelay < TickMod
  PROVE  now <= start + TimeoutReceive
<1>1. now <= start + TimeoutReceive + MaxDelay /\ start <= now
  BY DEF WaitInv, ClockInv
<1>2. Tick(start) + (now - start) < TickMod
  BY <1>1, DeadlineNat, TypeFacts, Constants
<1>3. Tick(now) = Tick(start) + (now - start)
  BY <1>1, <1>2, TickGap, TypeFacts
<1>4. ~(Tick(now) > Tick(start) + TimeoutReceive)
  BY DEF Deadline, Span
<1>5. QED BY <1>1, <1>3, <1>4, DeadlineNat, TypeFacts, Constants

\* Every step keeps WaitInv.
LEMMA WaitStep == TypeOK /\ TypeOK' /\ ClockInv /\ WordInv /\ WaitInv /\ [Next]_vars => WaitInv'
<1> SUFFICES ASSUME TypeOK, TypeOK', ClockInv, WordInv, WaitInv, [Next]_vars PROVE WaitInv'
  OBVIOUS
<1> USE TypeFacts, Constants
<1>1. ASSUME NEW l \in 1..(BlockMax - 1), TxBegin(l) PROVE WaitInv'
  BY <1>1 DEF TxBegin, WaitInv
<1>2. ASSUME NEW d \in Delays, WaveTurn(d) PROVE WaitInv'
  <2>1. /\ pc' # "receive" /\ UNCHANGED words
        /\ \/ pc' = pc /\ result' = result
           \/ pc = "send" /\ pc' = "wait" /\ result' = result
           \/ pc' = "idle"
        /\ pc \in {"send", "answer"}
    BY <1>2, WaveTurnEffect DEF Still
  <2>2. pc' = "wait" => words' = 0
    BY <2>1 DEF WordInv
  <2>3. QED BY <2>1, <2>2 DEF WaitInv
<1>3. ASSUME NEW d \in Delays, NothingYet(d) PROVE WaitInv'
  <2>1. /\ pc \in {"wait", "receive"} /\ now = wake /\ chunk = 0 /\ ring = 0
        /\ UNCHANGED <<start, words, first>>
        /\ \/ pc' = "idle"
           \/ ~(Tick(now) > Deadline) /\ wake' = now + d /\ pc' = pc
    BY <1>3, NothingYetEffect DEF Still
  <2>2. CASE pc' = "idle"
    BY <2>2 DEF WaitInv
  <2>3. CASE pc' = "wait" /\ pc = "wait"
    <3>1. words' = 0
      BY <2>1, <2>3 DEF WordInv
    <3>2. QED BY <2>3, <3>1 DEF WaitInv
  <2>4. CASE pc' = "receive" /\ pc = "receive"
    <3>1. start' <= first' + MaxDelay
      BY <2>1, <2>4 DEF WaitInv
    <3>2. ASSUME Tick(start) + TimeoutReceive + MaxDelay < TickMod
          PROVE  wake' <= start + TimeoutReceive + MaxDelay
      <4>1. now <= start + TimeoutReceive
        BY <2>1, <2>4, <3>2, SleepInTime
      <4>2. wake' = now + d
        BY <2>1, <2>4
      <4>3. QED BY <4>1, <4>2, DelayFacts
    <3>3. QED BY <2>1, <2>4, <3>1, <3>2 DEF WaitInv
  <2>5. QED BY <2>1, <2>2, <2>3, <2>4
<1>4. ASSUME NEW n \in 1..BlockMax, SerialRead(n) PROVE WaitInv'
  <2>1. /\ now = wake /\ n > 0 /\ n <= ring /\ UNCHANGED <<wake, first, words>>
        /\ (pc = "wait" /\ start' = now /\ pc' \in {"receive", "panicked"})
           \/ (pc = "receive" /\ UNCHANGED <<pc, start>>)
    BY <1>4, SerialReadEffect
  <2>2. CASE pc = "receive" /\ UNCHANGED <<pc, start>>
    BY <2>1, <2>2 DEF WaitInv
  <2>3. CASE pc = "wait" /\ start' = now /\ pc' \in {"receive", "panicked"}
    <3>1. words > 0
      BY <2>1 DEF WordInv
    <3>2. QED BY <2>1, <2>3, <3>1 DEF WaitInv
  <2>4. QED BY <2>1, <2>2, <2>3
<1>5. CASE Look
  <2>1. pc' # "wait" /\ (pc' = "receive" => UNCHANGED <<pc, start, wake, first>>)
    BY <1>5, LookEffect DEF Still
  <2>2. QED BY <2>1 DEF WaitInv
<1>6. CASE GpioError
  BY <1>6 DEF GpioError, Finish, WaitInv
<1>7. CASE Pass
  BY <1>7 DEF WaitInv, Pass, program, answer
<1>8. ASSUME NEW e \in BOOLEAN, Arrive(e) PROVE WaitInv'
  <2>1. /\ words' = words + 1
        /\ (words = 0 /\ first' = now) \/ (words # 0 /\ first' = first)
        /\ UNCHANGED <<pc, start, now, wake>>
    BY <1>8, ArriveEffect
  <2>2. CASE words = 0
    <3>1. pc # "receive"
      BY <2>2 DEF WordInv
    <3>2. QED BY <2>1, <2>2, <3>1 DEF WaitInv, ClockInv
  <2>3. CASE words # 0
    BY <2>1, <2>3 DEF WaitInv
  <2>4. QED BY <2>2, <2>3
<1>9. CASE UNCHANGED vars
  BY <1>9 DEF WaitInv, vars, program, answer
<1>10. QED
  BY <1>1, <1>2, <1>3, <1>4, <1>5, <1>6, <1>7, <1>8, <1>9 DEF Next

\* The rest modulo TickMod is unique.
LEMMA TickUnique ==
  ASSUME NEW t \in Nat, NEW i \in Nat, NEW x \in Nat, x < TickMod, t = (i * TickMod) + x
  PROVE  Tick(t) = x
<1>1. PICK q \in Nat : t = (q * TickMod) + Tick(t)
  BY Turns
<1>2. Tick(t) \in Nat /\ Tick(t) < TickMod /\ TickMod \in Nat
  BY Turns, Constants
<1>3. (i * TickMod) + x <= (q * TickMod) + Tick(t)
  BY <1>1
<1>4. LET g == ((q * TickMod) + Tick(t)) - ((i * TickMod) + x) IN
      x + g < TickMod => Tick(t) = x + g
  BY <1>2, <1>3, Remainders
<1>5. ((q * TickMod) + Tick(t)) - ((i * TickMod) + x) = 0
  BY <1>1
<1>6. QED BY <1>2, <1>4, <1>5

\* tick_since is the rest of the real difference.
LEMMA TickDifference ==
  ASSUME NEW a \in Nat, NEW b \in Nat, a <= b
  PROVE  Tick(b - a) = Timing!TickSince(Tick(b), Tick(a))
<1>1. PICK p \in Nat : a = (p * TickMod) + Tick(a)
  BY Turns
<1>2. PICK q \in Nat : b = (q * TickMod) + Tick(b)
  BY Turns
<1>3. /\ Tick(a) \in Nat /\ Tick(a) < TickMod
      /\ Tick(b) \in Nat /\ Tick(b) < TickMod /\ TickMod \in Nat
  BY Turns, Constants
<1> DEFINE i == q - p
           x == i * TickMod
           r == Tick(a)
           s == Tick(b)
<1>4. i \in Int /\ x \in Int /\ b - a = (x + s) - r /\ b - a \in Nat
  BY <1>1, <1>2, <1>3
<1>5. (i <= -1 => x <= -TickMod) /\ (i = 0 => x = 0)
  BY <1>3
<1>6. (i - 1) * TickMod = x - TickMod
  BY <1>3
<1>7. CASE s >= r
  <2>1. i \in Nat
    <3> HIDE DEF i, x, r, s
    <3>1. QED BY <1>3, <1>4, <1>5, <1>7 DEF r, s
  <2>2. s - r \in Nat /\ s - r < TickMod
    BY <1>3, <1>7
  <2>3. b - a = (i * TickMod) + (s - r)
    BY <1>3, <1>4
  <2>4. Tick(b - a) = s - r
    <3> HIDE DEF i, r, s
    <3>1. QED BY <1>4, <2>1, <2>2, <2>3, TickUnique
  <2>5. QED BY <1>7, <2>4 DEF Timing!TickSince
<1>8. CASE s < r
  <2>1. i - 1 \in Nat
    <3> HIDE DEF i, x, r, s
    <3>1. QED BY <1>3, <1>4, <1>5, <1>8 DEF r, s
  <2>2. (s + TickMod) - r \in Nat /\ (s + TickMod) - r < TickMod
    BY <1>3, <1>8
  <2>3. b - a = ((i - 1) * TickMod) + ((s + TickMod) - r)
    <3> HIDE DEF i, x, r, s
    <3>1. QED BY <1>3, <1>4, <1>6 DEF r, s
  <2>4. Tick(b - a) = (s + TickMod) - r
    <3> HIDE DEF i, r, s
    <3>1. QED BY <1>4, <2>1, <2>2, <2>3, TickUnique
  <2>5. QED BY <1>3, <1>8, <2>4 DEF Timing!TickSince
<1>9. QED BY <1>3, <1>7, <1>8

\* tx begins, and gives up, while the thread runs.
RunInv ==
  /\ pc = "idle" /\ result = "none" => now = wake
  /\ result = "recv_timeout" => now = wake

\* Every step keeps RunInv.
LEMMA RunStep == TypeOK /\ WordInv /\ RunInv /\ [Next]_vars => RunInv'
<1> SUFFICES ASSUME TypeOK, WordInv, RunInv, [Next]_vars PROVE RunInv'
  OBVIOUS
<1> USE TypeFacts
<1>1. ASSUME NEW l \in 1..(BlockMax - 1), TxBegin(l) PROVE RunInv'
  BY <1>1 DEF TxBegin, RunInv
<1>2. ASSUME NEW d \in Delays, WaveTurn(d) PROVE RunInv'
  <2>1. /\ pc \in {"send", "answer"}
        /\ \/ pc' = pc /\ result' = result
           \/ pc = "send" /\ pc' = "wait" /\ result' = result
           \/ pc' = "idle" /\ result' \in {"ok", "error", "send_timeout"}
    BY <1>2, WaveTurnEffect
  <2>2. result = "none"
    BY <2>1 DEF WordInv
  <2>3. QED BY <2>1, <2>2 DEF RunInv
<1>3. ASSUME NEW d \in Delays, NothingYet(d) PROVE RunInv'
  <2>1. /\ pc \in {"wait", "receive"} /\ now = wake /\ now' = now
        /\ \/ pc' = "idle" /\ result' = "recv_timeout" /\ wake' = wake
           \/ UNCHANGED <<pc, result>>
    BY <1>3, NothingYetEffect
  <2>2. result = "none"
    BY <2>1 DEF WordInv
  <2>3. QED BY <2>1, <2>2 DEF RunInv
<1>4. ASSUME NEW n \in 1..BlockMax, SerialRead(n) PROVE RunInv'
  BY <1>4, SerialReadEffect DEF RunInv, WordInv
<1>5. CASE Look
  BY <1>5, LookEffect DEF RunInv, WordInv
<1>6. CASE GpioError
  BY <1>6 DEF GpioError, Finish, RunInv
<1>7. CASE Pass
  <2>1. now # wake /\ UNCHANGED <<pc, result>>
    BY <1>7 DEF Pass, program
  <2>2. QED BY <2>1 DEF RunInv
<1>8. ASSUME NEW e \in BOOLEAN, Arrive(e) PROVE RunInv'
  BY <1>8, ArriveEffect DEF RunInv
<1>9. CASE UNCHANGED vars
  BY <1>9 DEF RunInv, vars, program
<1>10. QED
  BY <1>1, <1>2, <1>3, <1>4, <1>5, <1>6, <1>7, <1>8, <1>9 DEF Next

-----------------------------------------------------------------------------
\* The inductive invariant.
Inv == TypeOK /\ ClockInv /\ Pace /\ WordInv /\ WaitInv /\ RunInv

\* Inv holds in every reachable state.
THEOREM InvHolds == Spec => []Inv
<1>1. Init => Inv
  <2> SUFFICES ASSUME Init PROVE Inv
    OBVIOUS
  <2>1. now \in Nat
    BY Constants DEF Init
  <2>2. TypeOK
    <3>1. len \in 1..(BlockMax - 1)
      BY Constants DEF Init
    <3>2. {now, wake, start, first, last, ring, chunk, response, words} \subseteq Nat
      BY <2>1 DEF Init
    <3>3. ended \in BOOLEAN /\ pc = "idle" /\ result = "none"
      BY DEF Init
    <3>4. QED BY <3>1, <3>2, <3>3 DEF TypeOK
  <2>3. ClockInv
    BY <2>1, Constants DEF Init, ClockInv
  <2>4. Pace /\ WordInv /\ WaitInv /\ RunInv
    BY DEF Init, Pace, WordInv, WaitInv, RunInv
  <2>5. QED BY <2>2, <2>3, <2>4 DEF Inv
<1>2. Inv /\ [Next]_vars => Inv'
  BY TypeStep, ClockStep, PaceStep, WordStep, WaitStep, RunStep DEF Inv
<1>3. QED BY <1>1, <1>2, PTL DEF Spec

\* The state predicate TypeOK holds in every reachable state.
THEOREM TypeCorrect == Spec => []TypeOK
BY InvHolds, PTL DEF Inv

\* An answer that comes in time is read whatever the thread slept (mdb.rs:181-192
\* reads before it compares the clock).
THEOREM PromptAnswersRead == Spec => []PromptAnswerRead
<1>1. Init => PromptAnswerRead
  BY DEF Init, PromptAnswerRead
<1>2. Inv /\ Inv' /\ PromptAnswerRead /\ [Next]_vars => PromptAnswerRead'
  <2> SUFFICES ASSUME Inv, Inv', PromptAnswerRead, [Next]_vars, result' = "recv_timeout"
               PROVE  PromptAnswerRead'
    BY DEF PromptAnswerRead
  <2>0. /\ TypeOK /\ ClockInv /\ WordInv /\ RunInv
        /\ now \in Nat /\ start \in Nat /\ first \in Nat /\ words \in Nat /\ Span(pc) \in Nat
        /\ Tick(start) \in Nat
    BY TypeFacts, DeadlineNat DEF Inv
  <2>1. CASE result = "recv_timeout"
    <3>1. pc = "idle" /\ now = wake
      BY <2>0, <2>1 DEF WordInv, RunInv
    <3>2. ~Pass
      BY <2>0, <3>1 DEF Pass
    <3>3. UNCHANGED vars
      BY <2>1, <3>1, <3>2 DEF Next, TxBegin, WaveTurn, NothingYet, SerialRead, Look, GpioError, Arrive
    <3>4. UNCHANGED <<words, now, start, ended, first, result>>
      BY <3>3 DEF vars, program, answer
    <3>5. QED BY <2>1, <3>4 DEF PromptAnswerRead
  <2>2. CASE result # "recv_timeout"
    <3>1. PICK d \in Delays : NothingYet(d)
      <4>1. ASSUME NEW d \in Delays, WaveTurn(d) PROVE FALSE
        BY <2>2, <4>1, WaveTurnEffect
      <4>2. ASSUME NEW n \in 1..BlockMax, SerialRead(n) PROVE FALSE
        BY <2>2, <4>2, SerialReadEffect
      <4>3. CASE Look
        BY <2>0, <2>2, <4>3, LookEffect
      <4>4. QED
        BY <2>2, <4>1, <4>2, <4>3 DEF Next, TxBegin, GpioError, Finish, Pass, Arrive, vars, program
    <3>2. /\ pc \in {"wait", "receive"} /\ chunk = 0 /\ ring = 0 /\ Tick(now) > Deadline
          /\ UNCHANGED <<now, start, first, words, ended>>
      BY <2>2, <3>1, NothingYetEffect DEF Still
    <3>3. now > start + Span(pc)
      <4>1. Tick(now) <= Tick(start) + (now - start)
        BY <2>0, TickGap DEF ClockInv
      <4>2. Tick(now) > Tick(start) + Span(pc) /\ Tick(now) \in Nat
        BY <2>0, <3>2, Turns DEF Deadline
      <4>3. QED BY <2>0, <4>1, <4>2
    <3>4. CASE pc = "wait"
      <4>1. words = 0
        BY <2>0, <3>2, <3>4 DEF WordInv
      <4>2. Span(pc) = Timeout
        BY <3>4 DEF Span
      <4>3. QED BY <3>2, <3>3, <4>1, <4>2 DEF PromptAnswerRead
    <3>5. CASE pc = "receive"
      <4>1. words > 0 /\ ~ended /\ first <= start
        BY <2>0, <3>2, <3>5 DEF WordInv
      <4>2. Span(pc) = TimeoutReceive
        BY <3>5 DEF Span
      <4>3. now > first + TimeoutReceive
        BY <2>0, <3>3, <4>1, <4>2, Constants
      <4>4. words # 0
        BY <4>1
      <4>5. QED BY <3>2, <4>1, <4>3, <4>4 DEF PromptAnswerRead
    <3>6. QED BY <3>2, <3>4, <3>5
  <2>3. QED BY <2>1, <2>2
<1>3. QED BY <1>1, <1>2, InvHolds, PTL DEF Spec

\* What bounds the response the loop of mdb.rs:139-166 collects is time alone.
THEOREM ResponsesBounded == Spec => []ResponseBounded
<1>1. Inv => ResponseBounded
  <2> SUFFICES ASSUME Inv PROVE ResponseBounded
    OBVIOUS
  <2> USE TypeFacts, Constants DEF Inv
  <2>1. response + chunk + ring <= words
    BY DEF WordInv
  <2>2. ASSUME pc = "receive", Deadline + MaxDelay < TickMod
        PROVE  (words - 1) * WordTime <= TimeoutReceive + 2 * MaxDelay
    <3>1. words > 0 /\ start <= first + MaxDelay
      BY <2>2 DEF WordInv, WaitInv
    <3>2. wake <= start + TimeoutReceive + MaxDelay
      BY <2>2 DEF WaitInv, Deadline, Span
    <3>3. last - first <= TimeoutReceive + 2 * MaxDelay
      BY <3>1, <3>2 DEF ClockInv
    <3>4. (words - 1) * WordTime <= last - first
      BY <3>1 DEF Pace
    <3>5. (words - 1) * WordTime \in Int
      OBVIOUS
    <3>6. QED BY <3>3, <3>4, <3>5
  <2>3. QED BY <2>1, <2>2 DEF ResponseBounded
<1>2. QED BY <1>1, InvHolds, PTL

-----------------------------------------------------------------------------
\* The time that MdbTiming sees, before and after the thread sleeps d.
LEMMA SleepMaps ==
  ASSUME TypeOK, TypeOK', ClockInv, ClockInv', NEW d \in Delays, now = wake, wake' = now + d, start' = start
  PROVE  Timing!GpioDelay(d)
<1>1. d \in Nat /\ d < TickMod /\ 1 <= d
  BY DelayFacts
<1>2. wake \in Nat /\ wake' = wake + d /\ wake <= wake' /\ wake' - wake = d /\ wake' \in Nat
  BY <1>1, TypeFacts
<1>3. Tick(wake') = IF Tick(wake) + d < TickMod THEN Tick(wake) + d ELSE (Tick(wake) + d) - TickMod
  BY <1>1, <1>2, TickGap
<1>4. Tick(wake)' = Timing!TickAfter(d)
  <2>1. Tick(wake) \in Nat
    BY <1>2, Turns
  <2>2. QED BY <1>1, <1>3, <2>1, Constants DEF Timing!TickAfter
<1>5. start <= wake /\ start \in Nat /\ wake \in Nat /\ TickMod \in Nat
  BY TypeFacts, Constants DEF ClockInv
<1> DEFINE El(w) == IF w - start < TickMod THEN w - start ELSE TickMod
<1>6. El(wake + d) = IF El(wake) + d < TickMod THEN El(wake) + d ELSE TickMod
  BY <1>1, <1>5
<1>7. QED BY <1>2, <1>4, <1>6 DEF Timing!GpioDelay

\* A wait that starts when the thread runs.
LEMMA StartMaps ==
  ASSUME TypeOK, NEW p \in {"receive", "answer"}, StartWait(p), now = wake, wake' = wake
  PROVE  Timing!StartWait(p) /\ UNCHANGED Tick(wake)
<1>1. wake \in Nat /\ start' = wake /\ 0 < TickMod /\ wake - wake = 0
  BY TypeFacts, Constants DEF StartWait
<1>2. (IF wake' - start' < TickMod THEN wake' - start' ELSE TickMod) = 0
  BY <1>1
<1>3. Timing!Span(p) = Span(p)
  BY DEF Timing!Span, Span
<1>4. pc' = IF Tick(wake) + Timing!Span(p) < TickMod THEN p ELSE "panicked"
  BY <1>3 DEF StartWait
<1>5. Tick(start)' = Tick(wake)
  BY <1>1
<1>6. QED BY <1>2, <1>4, <1>5 DEF Timing!StartWait

\* Both modules have the same budgets.
LEMMA SpansAgree == ASSUME NEW p PROVE Timing!Span(p) = Span(p)
BY DEF Timing!Span, Span

\* Both modules have the same deadlines.
LEMMA DeadlinesAgree == Timing!Deadline = Deadline
BY SpansAgree DEF Timing!Deadline, Deadline

\* Every step is one of MdbTiming's, or it sees nothing of it.
LEMMA StepMaps == Inv /\ Inv' /\ [Next]_vars => [Timing!Next]_(Timing!vars)
<1> SUFFICES ASSUME TypeOK, TypeOK', ClockInv, ClockInv', WordInv, RunInv, [Next]_vars
             PROVE  [Timing!Next]_(Timing!vars)
  BY DEF Inv
<1> DEFINE Seen == Timing!vars
<1>1. ASSUME NEW l \in 1..(BlockMax - 1), TxBegin(l) PROVE Timing!Next
  <2>1. now = wake /\ wake' = wake /\ start' = wake /\ wake \in Nat /\ 0 < TickMod /\ TickMod \in Nat
    BY <1>1, TypeFacts, Constants DEF TxBegin, RunInv
  <2>2. Tick(wake) \in Timing!Tick
    <3>1. Tick(wake) \in Nat /\ Tick(wake) < TickMod
      BY <2>1, Turns
    <3>2. QED BY <2>1, <3>1 DEF Timing!Tick
  <2>3. (IF wake' - start' < TickMod THEN wake' - start' ELSE TickMod) = 0
    <3>1. wake' - start' = 0
      BY <2>1
    <3>2. QED BY <2>1, <3>1
  <2>4. Tick(wake)' = Tick(wake) /\ Tick(start)' = Tick(wake)
    BY <2>1
  <2>5. Timing!TxBegin(l, Tick(wake))
    BY <1>1, <2>1, <2>3, <2>4 DEF TxBegin, Timing!TxBegin
  <2>6. QED BY <2>2, <2>5 DEF Timing!Next
<1>2. ASSUME NEW d \in Delays, WaveTurn(d) PROVE Timing!Next
  <2>1. Timing!GpioDelay(d)
    BY <1>2, WaveTurnEffect, SleepMaps
  <2>2. UNCHANGED <<Tick(start), len>> /\ pc \in {"send", "answer"}
    BY <1>2, WaveTurnEffect
  <2>3. Tick(wake' - start) = Timing!TickSince(Tick(wake'), Tick(start))
    <3>1. start' = start
      BY <1>2, WaveTurnEffect
    <3>2. start \in Nat /\ wake' \in Nat /\ start <= wake'
      BY <3>1, TypeFacts DEF ClockInv, TypeOK
    <3>3. QED BY <3>2, TickDifference
  <2>4. CASE /\ IF pc = "send" THEN pc' = "wait" /\ UNCHANGED result
                ELSE \E r \in {"ok", "error"} : Finish(r)
    <3>1. Timing!WaveDone(d)
      BY <2>1, <2>2, <2>4 DEF Timing!WaveDone, Finish, Timing!Finish
    <3>2. QED BY <3>1 DEF Timing!Next, Timing!HostStep
  <2>5. CASE IF Tick(wake' - start) > Deadline THEN Finish("send_timeout")
             ELSE UNCHANGED <<pc, result>>
    <3>1. Timing!WaveBusy(d)
      BY <2>1, <2>2, <2>3, <2>5, DeadlinesAgree DEF Timing!WaveBusy, Finish, Timing!Finish
    <3>2. QED BY <3>1 DEF Timing!Next, Timing!HostStep
  <2>6. QED BY <1>2, <2>4, <2>5 DEF WaveTurn
<1>3. ASSUME NEW d \in Delays, NothingYet(d) PROVE Timing!Next
  <2>1. /\ pc \in {"wait", "receive"} /\ now = wake /\ UNCHANGED <<start, len>>
        /\ \/ Tick(now) > Deadline /\ pc' = "idle" /\ result' = "recv_timeout" /\ wake' = wake
           \/ ~(Tick(now) > Deadline) /\ wake' = now + d /\ UNCHANGED <<pc, result>>
    BY <1>3, NothingYetEffect
  <2>2. CASE Tick(now) > Deadline
    <3>1. UNCHANGED <<Tick(wake), Tick(start), len>> /\ UNCHANGED <<wake, start>>
      BY <2>1, <2>2
    <3>2. Timing!NothingYet(d)
      BY <2>1, <2>2, <3>1, DeadlinesAgree DEF Timing!NothingYet, Timing!Finish
    <3>3. QED BY <3>2 DEF Timing!Next, Timing!HostStep
  <2>3. CASE ~(Tick(now) > Deadline)
    <3>1. Timing!GpioDelay(d)
      BY <2>1, <2>3, SleepMaps
    <3>2. Timing!NothingYet(d)
      BY <2>1, <2>3, <3>1, DeadlinesAgree DEF Timing!NothingYet
    <3>3. QED BY <3>2 DEF Timing!Next, Timing!HostStep
  <2>4. QED BY <2>2, <2>3
<1>4. ASSUME NEW n \in 1..BlockMax, SerialRead(n) PROVE [Timing!Next]_Seen
  <2>1. now = wake /\ UNCHANGED <<wake, len, result>>
    BY <1>4, SerialReadEffect
  <2>2. CASE pc = "wait"
    <3>1. StartWait("receive")
      BY <1>4, <2>2 DEF SerialRead
    <3>2. Timing!StartWait("receive") /\ UNCHANGED Tick(wake)
      BY <2>1, <3>1, StartMaps
    <3>3. Timing!FirstChunk
      BY <2>1, <2>2, <3>2 DEF Timing!FirstChunk
    <3>4. QED BY <3>3 DEF Timing!Next, Timing!HostStep
  <2>3. CASE pc # "wait"
    <3>1. UNCHANGED <<pc, start>>
      BY <1>4, <2>3 DEF SerialRead
    <3>2. QED BY <2>1, <3>1 DEF Timing!vars
  <2>4. QED BY <2>2, <2>3
<1>5. CASE Look
  <2>1. now = wake /\ pc = "receive" /\ UNCHANGED <<wake, len>>
    BY <1>5, LookEffect DEF WordInv
  <2>2. CASE UNCHANGED <<pc, start, result>>
    BY <2>1, <2>2 DEF Timing!vars
  <2>3. CASE (\E r \in {"ok", "error"} : Finish(r)) /\ UNCHANGED start
    <3>1. UNCHANGED <<Tick(wake), Tick(start), wake, start, len>>
      BY <2>1, <2>3
    <3>2. Timing!EndByte
      BY <2>1, <2>3, <3>1 DEF Timing!EndByte, Finish, Timing!Finish
    <3>3. QED BY <3>2 DEF Timing!Next, Timing!HostStep
  <2>4. CASE StartWait("answer") /\ UNCHANGED result
    <3>1. Timing!StartWait("answer") /\ UNCHANGED Tick(wake)
      BY <2>1, <2>4, StartMaps
    <3>2. Timing!EndByte
      BY <2>1, <2>4, <3>1 DEF Timing!EndByte
    <3>3. QED BY <3>2 DEF Timing!Next, Timing!HostStep
  <2>5. QED BY <1>5, <2>2, <2>3, <2>4 DEF Look
<1>6. CASE GpioError
  <2>1. pc \in Timing!Waits /\ UNCHANGED <<Tick(wake), Tick(start), wake, start, len>>
    BY <1>6 DEF GpioError, Timing!Waits
  <2>2. Timing!GpioError
    BY <1>6, <2>1 DEF GpioError, Finish, Timing!GpioError, Timing!Finish
  <2>3. QED BY <2>2 DEF Timing!Next, Timing!HostStep
<1>7. CASE UNCHANGED <<pc, wake, start, len, result>>
  BY <1>7 DEF Timing!vars
<1>8. QED
  BY <1>1, <1>2, <1>3, <1>4, <1>5, <1>6, <1>7 DEF Next, Pass, Arrive, vars, program

\* MdbReceive implements MdbTiming: what is proved there holds with words too.
THEOREM TimingImplemented == Spec => ImplementsTiming
<1>1. Init => Timing!Init
  <2> SUFFICES ASSUME Init PROVE Timing!Init
    OBVIOUS
  <2>1. now \in Nat /\ now < TickMod /\ wake = now /\ start = now /\ TickMod \in Nat
    BY Constants DEF Init
  <2>2. wake - start = 0 /\ 0 < TickMod
    BY <2>1, Constants
  <2>3. Tick(wake) \in Timing!Tick
    <3>1. Tick(wake) \in Nat /\ Tick(wake) < TickMod
      BY <2>1, Turns
    <3>2. QED BY <2>1, <3>1 DEF Timing!Tick
  <2>4. QED BY <2>1, <2>2, <2>3 DEF Init, Timing!Init
<1>2. QED BY <1>1, StepMaps, InvHolds, PTL DEF Spec, ImplementsTiming
=============================================================================
