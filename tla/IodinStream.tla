------------------------------ MODULE IodinStream ------------------------------
(***************************************************************************)
(* Client.Do of iodin.go against Server::run of server.rs, byte by byte    *)
(* over their two pipes, one Do after the other.  Neither side can find the *)
(* start of a message again once it has lost it: lost and astray say where  *)
(* that may happen, the properties that it happens nowhere else and what    *)
(* holds until then.                                                       *)
(*                                                                         *)
(* A message is one write on both sides, so its bytes arrive together.     *)
(* What exec does is in IodinServer, the end of the process, several Do at  *)
(* a time and Close are in IodinClient.                                    *)
(***************************************************************************)
EXTENDS IodinWire

CONSTANTS
  Requests,   \* requests callers send
  RawBodies,  \* bytes that someone else sends as a request, behind their length
  Answers,    \* responses of exec to a command it knows
  BufLen,     \* the length of Do's buf, 256 in the code
  MaxDo       \* bound: calls of a behaviour

VARIABLES
  pc,         \* the client: idle, or reading the length or the body
  sent,       \* what it wrote last, a request or a raw body
  resp,       \* the caller's Response
  fresh,      \* the caller made it for this call
  got,        \* how the last Do ended; "nothing": success, without a response
  len,        \* responseLen
  calls,
  toServer, toClient,        \* the bytes in the pipes
  phase,      \* the server: reading the length or the message, executing, a (last) reply, ended
  msglen,
  request, response,         \* the locals of run
  lost,       \* history: a parse error left bytes of its message unread
  astray      \* history: a Do left the body of its response unread

client == <<pc, sent, resp, fresh, got, len, calls, astray>>
server == <<phase, msglen, request, response, lost>>
vars == <<client, server, toServer, toClient>>

InStep == ~lost /\ ~astray
Prefix(s, n) == SubSeq(s, 1, IF n < Len(s) THEN n ELSE Len(s))
NoRequest == New(RequestFields)
NoResponse == New(ResponseFields)

\* Error texts, by their first letter.
Refusal(text) == [NoResponse EXCEPT ![2] = Statuses.ERR_INPUT, ![3] = <<text>>]
ParseError == Refusal(112)
InvalidCommand == Refusal(105)
Stopping == [NoResponse EXCEPT ![2] = Statuses.OK]

\* Messages are what is followed in IodinWire; exec always sets a status and never
\* a version.
ASSUME StreamAssumption ==
  /\ BufLen \in Nat /\ MaxDo \in Nat
  /\ \A r \in Requests : IsWritable(RequestFields, r)
  /\ \A b \in RawBodies : b \in Seq(Byte) /\ Len(b) < Huge /\ b \notin Requests
  /\ \A a \in Answers : IsWritable(ResponseFields, a) /\ a[1] = 0 /\ a[2] # Statuses.INVALID

Init ==
  /\ pc = "idle" /\ sent = NoRequest /\ resp = NoResponse /\ fresh = TRUE
  /\ got = "none" /\ len = 0 /\ calls = 0
  /\ toServer = <<>> /\ toClient = <<>>
  /\ phase = "length" /\ msglen = 0 /\ request = NoRequest /\ response = NoResponse
  /\ lost = FALSE /\ astray = FALSE

-----------------------------------------------------------------------------
(* Client.Do.                                                              *)

\* The bytes of the message m are written; the caller's Response may have served
\* an earlier call.
Send(m, bytes) ==
  /\ pc = "idle" /\ calls < MaxDo
  /\ calls' = calls + 1 /\ pc' = "length" /\ got' = "none" /\ sent' = m
  /\ toServer' = toServer \o bytes
  /\ \/ fresh' = TRUE /\ resp' = NoResponse
     \/ fresh' = FALSE /\ UNCHANGED resp
  /\ UNCHANGED <<len, astray, server, toClient>>

DoWrite(r) == Send(r, Framed(RequestFields, r))

\* Not Do: a client with another schema, or none.
WriteRaw(b) == Send(b, Fixed32(Len(b)) \o b)

Return(h) == pc' = "idle" /\ got' = h

\* Mutant: the length is not compared with buf.
DoReadLengthUnchecked ==
  /\ pc = "length" /\ Len(toClient) >= 4
  /\ pc' = "body" /\ len' = Number(256, Prefix(toClient, 4))
  /\ toClient' = SubSeq(toClient, 5, Len(toClient))
  /\ UNCHANGED <<sent, resp, fresh, got, calls, astray, server, toServer>>

\* The length is read.  Fewer than 4 bytes are no error, and errors.Annotatef of
\* no error is nil; a length beyond buf is an error, and its body stays.
DoReadLength ==
  /\ pc = "length" /\ toClient # <<>>
  /\ LET bytes == Prefix(toClient, 4)
         n == Number(256, bytes)
     IN /\ toClient' = SubSeq(toClient, Len(bytes) + 1, Len(toClient))
        /\ CASE Len(bytes) < 4 -> Return("nothing") /\ UNCHANGED <<len, astray>>
             [] Len(bytes) = 4 /\ n > BufLen -> Return("error") /\ UNCHANGED len /\ astray' = TRUE
             [] OTHER -> pc' = "body" /\ len' = n /\ UNCHANGED <<got, astray>>
  /\ UNCHANGED <<sent, resp, fresh, calls, server, toServer>>

\* One read is taken to bring the body whole; Unmarshal merges it into what the
\* caller's Response holds.
DoReadBody ==
  /\ pc = "body" /\ (len = 0 \/ toClient # <<>>)
  /\ LET bytes == Prefix(toClient, len)
         scan == Scan(bytes, len)
     IN /\ toClient' = SubSeq(toClient, Len(bytes) + 1, Len(toClient))
        /\ IF Len(bytes) < len THEN Return("error") /\ UNCHANGED resp
           ELSE /\ Return(IF scan.how = "done" THEN "ok" ELSE "error")
                /\ resp' = Merge(ResponseFields, resp, scan.fields)
  /\ UNCHANGED <<sent, fresh, len, calls, astray, server, toServer>>

-----------------------------------------------------------------------------
(* Server::run.                                                            *)

\* Mutant: request and response are made once, before the loop.
ReadLengthKeeping ==
  /\ phase = "length" /\ Len(toServer) >= 4
  /\ phase' = "message" /\ msglen' = Number(256, Prefix(toServer, 4))
  /\ toServer' = SubSeq(toServer, 5, Len(toServer))
  /\ UNCHANGED <<request, response, lost, client, toClient>>

\* read_fixed32, push_limit, and a new request and response.
ReadLength ==
  /\ phase = "length" /\ Len(toServer) >= 4
  /\ phase' = "message" /\ msglen' = Number(256, Prefix(toServer, 4))
  /\ request' = NoRequest /\ response' = NoResponse
  /\ toServer' = SubSeq(toServer, 5, Len(toServer))
  /\ UNCHANGED <<lost, client, toClient>>

\* request.merge_from under the limit, which pop_limit lifts: what an error leaves
\* of the message is not skipped.
Parse ==
  /\ phase = "message"
  /\ LET scan == Scan(toServer, msglen) IN
     /\ scan.how # "wait"
     /\ toServer' = SubSeq(toServer, scan.used + 1, Len(toServer))
     /\ request' = Merge(RequestFields, request, scan.fields)
     /\ IF scan.how = "done" THEN phase' = "exec" /\ UNCHANGED <<response, lost>>
        ELSE phase' = "reply" /\ response' = ParseError /\ lost' = (lost \/ scan.used < msglen)
  /\ UNCHANGED <<msglen, client, toClient>>

\* What exec has to say to a request.
AnswersTo(m) ==
  LET c == EnumValueOrDefault(Commands, m[2]) IN
  CASE c = Commands.INVALID -> {InvalidCommand}
    [] c = Commands.STOP -> {Stopping}
    [] OTHER -> Answers

Stops(m) == m[2] = Commands.STOP

\* Mutant: the response to STOP is left as it was made.
ExecStopSilent ==
  /\ phase = "exec" /\ phase' = IF Stops(request) THEN "last reply" ELSE "reply"
  /\ IF Stops(request) THEN UNCHANGED response ELSE
     \E a \in AnswersTo(request) :
       response' = [response EXCEPT ![2] = a[2], ![3] = IF a[3] = <<>> THEN @ ELSE a[3],
                                    ![4] = @ \o a[4]]
  /\ UNCHANGED <<msglen, request, lost, client, toServer, toClient>>

\* exec, as far as a client sees it: it fills in the response; STOP ends run.
Exec ==
  /\ phase = "exec" /\ phase' = IF Stops(request) THEN "last reply" ELSE "reply"
  /\ \E a \in AnswersTo(request) :
       response' = [response EXCEPT ![2] = a[2], ![3] = IF a[3] = <<>> THEN @ ELSE a[3],
                                    ![4] = @ \o a[4]]
  /\ UNCHANGED <<msglen, request, lost, client, toServer, toClient>>

\* Mutant: the output is not flushed.
ReplyUnflushed ==
  /\ phase \in {"reply", "last reply"}
  /\ phase' = IF phase = "reply" THEN "length" ELSE "ended"
  /\ UNCHANGED <<toClient, msglen, request, response, lost, client, toServer>>

\* Length and body leave in one flush.
Reply ==
  /\ phase \in {"reply", "last reply"}
  /\ phase' = IF phase = "reply" THEN "length" ELSE "ended"
  /\ toClient' = toClient \o Framed(ResponseFields, response)
  /\ UNCHANGED <<msglen, request, response, lost, client, toServer>>

-----------------------------------------------------------------------------
Next ==
  \/ \E r \in Requests : DoWrite(r)
  \/ \E b \in RawBodies : WriteRaw(b)
  \/ DoReadLength \/ DoReadBody
  \/ ReadLength \/ Parse \/ Exec \/ Reply

Spec == Init /\ [][Next]_vars

-----------------------------------------------------------------------------
TypeOK ==
  /\ pc \in {"idle", "length", "body"}
  /\ sent \in Requests \cup RawBodies \cup {NoRequest}
  /\ IsMessage(ResponseFields, resp) /\ fresh \in BOOLEAN
  /\ got \in {"none", "nothing", "error", "ok"} /\ len \in 0..BufLen /\ calls \in 0..MaxDo
  /\ toServer \in Seq(Byte) /\ toClient \in Seq(Byte)
  /\ phase \in {"length", "message", "exec", "reply", "last reply", "ended"}
  /\ msglen \in Nat
  /\ IsMessage(RequestFields, request) /\ IsMessage(ResponseFields, response)
  /\ lost \in BOOLEAN /\ astray \in BOOLEAN

\* Between two Do in step nothing is in the pipes and the server waits for a
\* length: sizes computed, bytes written and bytes read agree on both sides.
\* Only a parse error short of its message's end, or a response longer than
\* Do's buf, changes that.
StepKept ==
  InStep /\ pc = "idle" =>
    toServer = <<>> /\ toClient = <<>> /\ phase \in {"length", "ended"}

\* exec serves the request that was sent, field for field, whatever the requests
\* before it held (run makes a new Request for each, merge_from only merges).
ExecAsSent ==
  InStep /\ phase = "exec" /\ sent \in Requests => request = sent

\* A Do in step that succeeds into a new Response has brought an answer to its
\* own request, whole.
ResponseIsAnswer ==
  InStep /\ got = "ok" /\ fresh /\ sent \in Requests =>
    resp = response /\ resp \in AnswersTo(sent)

\* Into a Response that served before, Unmarshal only merges: fields the server
\* left out keep their old values.  The status is none of them, since every
\* response has one that is not the default.
StatusIsNew ==
  InStep /\ got = "ok" =>
    /\ resp[2] = response[2]
    /\ \A i \in DOMAIN resp :
         resp[i] = response[i] \/ (~fresh /\ response[i] = NoResponse[i])

\* Do reports success without a response (iodin.go:118), or finds a response that
\* "did not fit in one read" (iodin.go:135), only out of step: then it is an error
\* only that the response is longer than buf.
SucceedsInStep == InStep => got \notin {"nothing", "error"}

\* Client and server wait for each other only out of step, or after STOP.
NoMutualWait ==
  LET clientWaits == pc # "idle" /\ toClient = <<>> /\ (pc = "body" => len > 0)
      serverWaits ==
        \/ phase = "length" /\ Len(toServer) < 4
        \/ phase = "message" /\ Scan(toServer, msglen).how = "wait"
  IN clientWaits /\ serverWaits => ~InStep
=============================================================================
