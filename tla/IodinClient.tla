------------------------------ MODULE IodinClient ------------------------------
(***************************************************************************)
(* The Go client of client/go-iodin/iodin.go and its iodin process.  Users *)
(* (goroutines) share one Client: they count references, call Do, and the  *)
(* last to leave closes it.  Client and process talk over two pipes; the   *)
(* process is what MdbSession promises of it, which IodinServer implements. *)
(*                                                                         *)
(* Do writes a request with one write, and the process its response, so a  *)
(* pipe holds whole messages; Do reads a response in two reads, its length *)
(* and its body.  Nothing in Client keeps two Do apart, nor puts the       *)
(* stream in order again after a Do that failed: overlap and desync say    *)
(* that one of these happened, and what is read later is not followed      *)
(* byte by byte.                                                           *)
(***************************************************************************)
EXTENDS Naturals, Sequences, FiniteSets

CONSTANTS
  Users,
  Calls,      \* commands users send
  MaxCalls    \* bound: requests of a behaviour, without STOP

ASSUME ClientAssumption ==
  /\ IsFiniteSet(Users)
  /\ Calls \subseteq {"INVALID", "MDB_OPEN", "MDB_RESET", "MDB_TX"}
  /\ MaxCalls \in Nat

VARIABLES
  created,      \* NewClient has returned a Client
  strays,       \* pipes of NewClients that failed are open
  pc,           \* of every user, in its use of Client
  call,         \* the request of its last Do
  got,          \* how its last Do ended, and with which response
  refcount,     \* Client.refcount
  filesOpen,    \* Client.rf and Client.wf are open
  parentEnds,   \* the process's ends of the pipes, open in the parent too
  lastId,       \* the number of the last request
  toServer,     \* requests written and not read
  toClient,     \* lengths and bodies of responses, written and not read
  serving,      \* the request the process read last
  overlap,      \* history: two Do have run at the same time
  desync,       \* history: a Do left part of a response unread
  late,         \* history: users whose reference is from after a Close began
  phase, command, answer, open      \* the process, see MdbSession

made == <<created, strays>>
client == <<pc, call, got, refcount, filesOpen>>
history == <<overlap, desync, late>>
process == <<phase, command, answer, open>>
vars == <<made, client, parentEnds, lastId, toServer, toClient, serving, history, process>>

Server == INSTANCE MdbSession

Req == [id : 0..MaxCalls, cmd : Calls \cup {"STOP"}]
NoReq == [id |-> 0, cmd |-> "INVALID"]
Body == [to : Req \cup {NoReq}, status : Server!Statuses]
NoBody == [to |-> NoReq, status |-> "INVALID"]
Got == [how : {"none", "error", "garbage", "ok"}, data : Body]
Part == [kind : {"length", "body"}, long : BOOLEAN, data : Body]

InDo == {"length", "body"}
Closing == {"close", "stop_length", "stop_body", "signal", "waiting", "killed"}
Reading == {"length", "body", "stop_length", "stop_body"}

-----------------------------------------------------------------------------
\* No Client and no process yet.
Init ==
  /\ created = FALSE /\ strays = FALSE
  /\ pc = [u \in Users |-> "out"]
  /\ call = [u \in Users |-> NoReq]
  /\ got = [u \in Users |-> [how |-> "none", data |-> NoBody]]
  /\ refcount = 0 /\ filesOpen = FALSE /\ parentEnds = FALSE /\ lastId = 0
  /\ toServer = <<>> /\ toClient = <<>> /\ serving = NoReq
  /\ overlap = FALSE /\ desync = FALSE /\ late = {}
  /\ phase = "ended" /\ command = "INVALID" /\ answer = "INVALID" /\ open = FALSE

\* Two pipes and the process; what fails leaves open what was made before.
NewClient ==
  /\ ~created
  /\ \/ /\ created' = TRUE /\ filesOpen' = TRUE /\ parentEnds' = TRUE
        /\ Server!Restart /\ UNCHANGED strays
     \/ /\ strays' \in {strays, TRUE}
        /\ UNCHANGED <<created, filesOpen, parentEnds, process>>
  /\ UNCHANGED <<pc, call, got, refcount, lastId, toServer, toClient, serving, history>>

Goto(u, l) == pc' = [pc EXCEPT ![u] = l]

\* Some user has called Close, or is done with it.
CloseBegun == created /\ (~filesOpen \/ \E u \in Users : pc[u] \in Closing)

\* Mutant: a reference is not counted.
IncRefLost(u) ==
  /\ pc[u] = "out" /\ created
  /\ Goto(u, "in")
  /\ UNCHANGED <<made, call, got, refcount, filesOpen, parentEnds, lastId, toServer, toClient,
                 serving, history, process>>

IncRef(u) ==
  /\ pc[u] = "out" /\ created
  /\ refcount' = refcount + 1
  /\ late' = IF CloseBegun THEN late \cup {u} ELSE late
  /\ Goto(u, "in")
  /\ UNCHANGED <<made, call, got, filesOpen, parentEnds, lastId, toServer, toClient,
                 serving, overlap, desync, process>>

\* Mutant: the reference before the last calls Close.
DecRefEarly(u) ==
  /\ pc[u] = "in"
  /\ refcount' = refcount - 1
  /\ late' = late \ {u}
  /\ Goto(u, IF refcount' <= 1 THEN "close" ELSE "out")
  /\ UNCHANGED <<made, call, got, filesOpen, parentEnds, lastId, toServer, toClient,
                 serving, overlap, desync, process>>

\* The last reference calls Close.
DecRef(u) ==
  /\ pc[u] = "in"
  /\ refcount' = refcount - 1
  /\ late' = late \ {u}
  /\ Goto(u, IF refcount' = 0 THEN "close" ELSE "out")
  /\ UNCHANGED <<made, call, got, filesOpen, parentEnds, lastId, toServer, toClient,
                 serving, overlap, desync, process>>

-----------------------------------------------------------------------------
(* Client.Do, called by a user or by its Close.                            *)

\* Do returns; Close ignores how, but for a log.
Return(u, h, data) ==
  /\ got' = [got EXCEPT ![u] = [how |-> h, data |-> data]]
  /\ Goto(u, IF pc[u] \in Closing THEN "signal" ELSE "in")

\* Writing fails once wf is closed, or when no one can read the pipe any more.
\* As long as the parent holds the other end, a request to a dead process is
\* written all the same.
DoWrite(u, c) ==
  /\ IF c = "STOP" THEN pc[u] = "close" ELSE pc[u] = "in" /\ lastId < MaxCalls
  /\ lastId' = IF c = "STOP" THEN lastId ELSE lastId + 1
  /\ LET r == [id |-> IF c = "STOP" THEN 0 ELSE lastId + 1, cmd |-> c] IN
     /\ call' = [call EXCEPT ![u] = r]
     /\ IF ~filesOpen \/ (phase = "ended" /\ ~parentEnds)
          THEN Return(u, "error", NoBody) /\ UNCHANGED <<toServer, overlap>>
          ELSE /\ toServer' = Append(toServer, r)
               /\ got' = [got EXCEPT ![u] = [how |-> "none", data |-> NoBody]]
               /\ Goto(u, IF c = "STOP" THEN "stop_length" ELSE "length")
               /\ overlap' = (overlap \/ \E v \in Users \ {u} : pc[v] \in Reading)
  /\ UNCHANGED <<made, refcount, filesOpen, parentEnds, toClient, serving, desync, late,
                 process>>

\* Mutant: the deadline of iodin.go:101 is in force, so a read may fail any time.
ReadErrorOrDeadline(u) ==
  /\ pc[u] \in Reading
  /\ Return(u, "error", NoBody)
  /\ UNCHANGED <<made, call, refcount, filesOpen, parentEnds, lastId, toServer, toClient,
                 serving, history, process>>

\* Reading fails once rf is closed, or at the end of the pipe: nothing in it
\* and no one who could write to it.
ReadError(u) ==
  /\ pc[u] \in Reading
  /\ ~filesOpen \/ (toClient = <<>> /\ phase = "ended" /\ ~parentEnds)
  /\ Return(u, "error", NoBody)
  /\ UNCHANGED <<made, call, refcount, filesOpen, parentEnds, lastId, toServer, toClient,
                 serving, history, process>>

\* The first 4 bytes: a length, which fits the 256 bytes of buf or leaves the
\* body in the pipe; out of step, whatever comes is taken for a length.
ReadLength(u) ==
  /\ pc[u] \in {"length", "stop_length"} /\ filesOpen /\ toClient # <<>>
  /\ toClient' = Tail(toClient)
  /\ \/ /\ Head(toClient).kind = "length" => ~Head(toClient).long
        /\ Goto(u, IF pc[u] = "length" THEN "body" ELSE "stop_body")
        /\ UNCHANGED got
        /\ desync' = (desync \/ Head(toClient).kind = "body")
     \/ /\ Head(toClient).kind = "length" => Head(toClient).long
        /\ Return(u, "error", NoBody)
        /\ desync' = TRUE
  /\ UNCHANGED <<made, call, refcount, filesOpen, parentEnds, lastId, toServer, serving,
                 overlap, late, process>>

\* The body is read and parsed.
ReadBody(u) ==
  /\ pc[u] \in {"body", "stop_body"} /\ filesOpen /\ toClient # <<>>
  /\ toClient' = Tail(toClient)
  /\ IF Head(toClient).kind = "body"
       THEN Return(u, "ok", Head(toClient).data) /\ UNCHANGED desync
       ELSE (\E h \in {"error", "garbage"} : Return(u, h, NoBody)) /\ desync' = TRUE
  /\ UNCHANGED <<made, call, refcount, filesOpen, parentEnds, lastId, toServer, serving,
                 overlap, late, process>>

-----------------------------------------------------------------------------
(* The rest of Client.Close.                                               *)

\* rf and wf are closed; SIGTERM is sent, which a process in a pigpio call need
\* not obey.
CloseFiles(u) ==
  /\ pc[u] = "signal"
  /\ filesOpen' = FALSE
  /\ Goto(u, "waiting")
  /\ \/ phase # "ended" /\ Server!End
     \/ UNCHANGED process
  /\ UNCHANGED <<made, call, got, refcount, parentEnds, lastId, toServer, toClient,
                 serving, history>>

\* Mutant: Close does not wait for the process.
WaitedNot(u) ==
  /\ pc[u] \in {"waiting", "killed"}
  /\ Goto(u, "out")
  /\ UNCHANGED <<made, call, got, refcount, filesOpen, parentEnds, lastId, toServer, toClient,
                 serving, history, process>>

\* Wait returns, in the goroutine or after Kill.
Waited(u) ==
  /\ pc[u] \in {"waiting", "killed"} /\ phase = "ended"
  /\ Goto(u, "out")
  /\ UNCHANGED <<made, call, got, refcount, filesOpen, parentEnds, lastId, toServer, toClient,
                 serving, history, process>>

\* Five seconds are over.
Kill(u) ==
  /\ pc[u] = "waiting"
  /\ Goto(u, "killed")
  /\ IF phase = "ended" THEN UNCHANGED process ELSE Server!End
  /\ UNCHANGED <<made, call, got, refcount, filesOpen, parentEnds, lastId, toServer, toClient,
                 serving, history>>

\* Mutant: Client holds on to them, as a field would.
CollectNever ==
  /\ parentEnds \/ strays
  /\ strays' = FALSE
  /\ UNCHANGED <<created, client, parentEnds, lastId, toServer, toClient, serving,
                 history, process>>

\* The ends of the pipes that NewClient made for the process are not closed by
\* it, nor any file by one that fails; the garbage collector finds them
\* unreachable and closes them.
Collect ==
  /\ parentEnds \/ strays
  /\ parentEnds' = FALSE /\ strays' = FALSE
  /\ UNCHANGED <<created, client, lastId, toServer, toClient, serving, history, process>>

-----------------------------------------------------------------------------
(* The process at its ends of the pipes.                                   *)

ServerRead ==
  /\ toServer # <<>>
  /\ Server!Ask(Head(toServer).cmd)
  /\ serving' = Head(toServer) /\ toServer' = Tail(toServer)
  /\ UNCHANGED <<made, client, parentEnds, lastId, toClient, history>>

ServerAnswer ==
  /\ \E s \in Server!Statuses : Server!Answer(s)
  /\ UNCHANGED <<made, client, parentEnds, lastId, toServer, toClient, serving, history>>

\* A response is written, short or too long for the client; after the one to
\* STOP the process ends.
ServerWrite ==
  /\ phase = "answered"
  /\ \E l \in BOOLEAN :
       LET part(k) == [kind |-> k, long |-> l,
                       data |-> [to |-> serving, status |-> answer]]
       IN toClient' = toClient \o <<part("length"), part("body")>>
  /\ IF command = "STOP" THEN Server!End ELSE Server!Deliver
  /\ UNCHANGED <<made, client, parentEnds, lastId, toServer, serving, history>>

\* The process dies, or finds the end of its input.
ServerEnd ==
  /\ Server!End
  /\ UNCHANGED <<made, client, parentEnds, lastId, toServer, toClient, serving, history>>

-----------------------------------------------------------------------------
DoStep(u) ==
  \/ DoWrite(u, "STOP") \/ ReadError(u) \/ ReadLength(u) \/ ReadBody(u)
CloseStep(u) == CloseFiles(u) \/ Waited(u) \/ Kill(u)
ServerStep == ServerRead \/ ServerAnswer \/ ServerWrite

Next ==
  \/ NewClient
  \/ \E u \in Users :
       \/ IncRef(u) \/ DecRef(u) \/ \E c \in Calls : DoWrite(u, c)
       \/ DoStep(u)
       \/ CloseStep(u)
  \/ Collect
  \/ ServerStep
  \/ ServerEnd

\* A goroutine in Do or Close goes on when it can, Go collects garbage every
\* two minutes at the latest, and a live process handles what it is sent.
Fairness ==
  /\ \A u \in Users : WF_vars(DoStep(u)) /\ WF_vars(CloseStep(u))
  /\ WF_vars(Collect)
  /\ WF_vars(ServerStep)

Spec == Init /\ [][Next]_vars /\ Fairness

\* The same, with a process that may stay in an MDB_TX on an open port, as when a
\* send never ends: mdb.rs:42 gives it up after as long as the counter is old, up
\* to 71 minutes, and maybe never when its deadline is at the wrap (see MdbTiming).
\* Everything else it answers.
SpecHang ==
  /\ Init /\ [][Next]_vars
  /\ \A u \in Users : WF_vars(DoStep(u)) /\ WF_vars(CloseStep(u))
  /\ WF_vars(Collect)
  /\ WF_vars(ServerRead \/ ServerWrite \/ (~(command = "MDB_TX" /\ open) /\ ServerAnswer))

-----------------------------------------------------------------------------
TypeOK ==
  /\ created \in BOOLEAN /\ strays \in BOOLEAN
  /\ pc \in [Users -> {"out", "in", "length", "body"} \cup Closing]
  /\ call \in [Users -> Req \cup {NoReq}]
  /\ got \in [Users -> Got]
  /\ refcount \in 0..Cardinality(Users)
  /\ filesOpen \in BOOLEAN /\ parentEnds \in BOOLEAN
  /\ lastId \in 0..MaxCalls
  /\ toServer \in Seq(Req) /\ toClient \in Seq(Part) /\ serving \in Req \cup {NoReq}
  /\ overlap \in BOOLEAN /\ desync \in BOOLEAN /\ late \subseteq Users
  /\ phase \in {"idle", "busy", "answered", "ended"}
  /\ command \in Server!Commands /\ answer \in Server!Statuses /\ open \in BOOLEAN

InStep == ~overlap /\ ~desync

\* A Do that returns a response returns the response to its own request.
OwnResponse ==
  InStep => \A u \in Users :
    /\ got[u].how # "garbage"
    /\ got[u].how = "ok" => got[u].data.to = call[u]

\* While no Do runs, nothing of an earlier one is under way to a live process
\* or back from it: the next Do starts from empty pipes.
PipesDrained ==
  InStep /\ filesOpen /\ (\A u \in Users : pc[u] \notin Reading)
    => toClient = <<>> /\ (phase # "ended" => toServer = <<>> /\ phase = "idle")

\* Nobody closes Client under a reference taken before it: from the call of Close
\* on, through Do(STOP) and the closing of the files, whoever holds a reference
\* took it when Close had begun (iodin.go:84-98).  Only such a latecomer, whom
\* nothing in IncRef turns away, has its files closed under it (iodin.go:62-63).
NotClosedUnderUse ==
  CloseBegun => \A u \in Users : pc[u] \in {"in"} \cup InDo => u \in late

\* When all users are gone after a Close, no process is left behind, however
\* many of them closed at once.
NoProcessLeft ==
  ~filesOpen /\ (\A u \in Users : pc[u] = "out") => phase = "ended"

\* A Do in step returns, even when the process dies before it answers.
DoReturns ==
  \A u \in Users : (pc[u] \in InDo /\ InStep) ~> (pc[u] \notin InDo \/ ~InStep)

\* Close returns, even when it overlaps a Do or another Close.
CloseReturns == \A u \in Users : pc[u] = "close" ~> pc[u] = "out"

\* "graceful SIGTERM timeout, begin hard kill" (iodin.go:77): a process that does
\* not react is killed, so once Close is called no process is left in the end.
ClosedIsKilled == \A u \in Users : pc[u] = "close" ~> phase = "ended"
=============================================================================
