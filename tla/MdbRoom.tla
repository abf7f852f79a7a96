-------------------------------- MODULE MdbRoom --------------------------------
(***************************************************************************)
(* MdbTiming with a history variable: when the transaction began.  What    *)
(* the counter read then tells whether tx can panic at all, at whichever   *)
(* of its additions and after however many polls.                          *)
(***************************************************************************)
EXTENDS MdbTiming

VARIABLE begun     \* history: the reading tx computed its first deadlines from

Begins == pc = "idle" /\ pc' # "idle"

RInit == Init /\ begun = tick
RNext == Next /\ begun' = IF Begins THEN base' ELSE begun
RSpec == RInit /\ [][RNext]_<<vars, begun>> /\ WF_vars(HostStep)

-----------------------------------------------------------------------------
\* The latest reading with which wait_receive may find its first bytes in a tx that
\* began at t with a request of l bytes, counted without a wrap.  A wave that is
\* never sent is given up only at an elapsed time of t + TimeoutChar * l
\* (mdb.rs:42), after as long again as the counter is old.
LatestFirst(t, l) ==
  LET sent == t + t + TimeoutChar * l
  IN MaxDelay + IF sent < t + Timeout THEN t + Timeout ELSE sent

\* tx began when the counter had room for all that may follow.
Room ==
  LatestFirst(begun, len) + TimeoutReceive + MaxDelay + Span("answer") < TickMod

\* A tx that has room when it begins does not panic at any of its later
\* additions (mdb.rs:138, 158), whose readings come after any number of polls: the
\* budgets and two delays bound them.  There is room in the first half of the
\* counter's 71 minutes, not until the last moments of them.
NoPanicWithRoom == Room => pc # "panicked"
=============================================================================
