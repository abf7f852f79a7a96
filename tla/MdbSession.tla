------------------------------ MODULE MdbSession ------------------------------
(***************************************************************************)
(* What a client of iodin may rely on, without pigpio: one request is      *)
(* served at a time, every one is answered once with a status its command  *)
(* allows, and MDB_RESET and MDB_TX work only on a port that the latest    *)
(* MDB_OPEN of this process opened.  The process may end at any time.      *)
(***************************************************************************)

VARIABLES
  phase,     \* idle, busy, answered or ended
  command,   \* the request being served
  answer,    \* the status of the response, INVALID until it is decided
  open       \* is an MDB port open?

vars == <<phase, command, answer, open>>

Commands == {"INVALID", "MDB_OPEN", "MDB_RESET", "MDB_TX", "STOP", "unparsable"}
Statuses == {"INVALID", "OK", "ERR_INPUT", "ERR_HARDWARE"}

\* The statuses command c may be answered with.
Allowed(c) ==
  CASE c \in {"INVALID", "unparsable"} -> {"ERR_INPUT"}
    [] c = "STOP"                      -> {"OK"}
    [] c = "MDB_OPEN"                  -> {"OK", "ERR_INPUT", "ERR_HARDWARE"}
    [] OTHER                           -> IF open THEN {"OK", "ERR_HARDWARE"}
                                                  ELSE {"ERR_INPUT"}

Init == phase = "idle" /\ command = "INVALID" /\ answer = "INVALID" /\ open = FALSE

Ask(c) ==
  /\ phase = "idle"
  /\ phase' = "busy" /\ command' = c /\ answer' = "INVALID"
  /\ UNCHANGED open

\* An MDB_OPEN closes the port it finds, whatever becomes of it.
Answer(s) ==
  /\ phase = "busy" /\ s \in Allowed(command)
  /\ phase' = "answered" /\ answer' = s
  /\ open' = IF command = "MDB_OPEN" THEN s = "OK" ELSE open
  /\ UNCHANGED command

Deliver ==
  /\ phase = "answered" /\ command # "STOP"
  /\ phase' = "idle"
  /\ UNCHANGED <<command, answer, open>>

End ==
  /\ phase # "ended"
  /\ phase' = "ended" /\ open' = FALSE
  /\ UNCHANGED <<command, answer>>

Restart ==
  /\ phase = "ended"
  /\ phase' = "idle"
  /\ UNCHANGED <<command, answer, open>>

Next ==
  \/ \E c \in Commands : Ask(c)
  \/ \E s \in Statuses : Answer(s)
  \/ Deliver
  \/ End
  \/ Restart

Spec == Init /\ [][Next]_vars
=============================================================================
