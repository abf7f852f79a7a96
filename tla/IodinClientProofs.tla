-------------------------- MODULE IodinClientProofs --------------------------
(***************************************************************************)
(* Proofs about IodinClient, for any number of users and requests.         *)
(*                                                                         *)
(* The references are counted, so the last user to leave finds no other;   *)
(* while no two Do overlap and none loses its place, all that is under way *)
(* between client and process is the one exchange of the one Do that runs. *)
(***************************************************************************)
EXTENDS IodinClient, FiniteSetTheorems, TLAPS

States == {"out", "in", "length", "body"} \cup Closing
Holding == {"in", "length", "body"}
Holders == {u \in Users : pc[u] \in Holding}

\* The count is the number of users that hold a reference.
RefCounted == refcount = Cardinality(Holders)

\* Before NewClient returns nobody uses the Client; once its files are closed
\* someone waits for the process as long as it lives.
LifeInv ==
  /\ ~created => ~filesOpen /\ phase = "ended" /\ toServer = <<>> /\ toClient = <<>>
                 /\ \A u \in Users : pc[u] = "out"
  /\ ~filesOpen /\ phase # "ended" => \E u \in Users : pc[u] = "waiting"

\* The process, if it lives, waits for a request, and none is under way.
Rest == phase # "ended" => phase = "idle" /\ toServer = <<>>

\* Where the request of the Do of u, or the response to it, may be.
Asked(u) == phase = "idle" /\ toServer = <<call[u]>> /\ toClient = <<>>
Served(u) == /\ phase \in {"busy", "answered"} /\ toServer = <<>> /\ toClient = <<>>
             /\ serving = call[u]
Dead == phase = "ended" /\ toClient = <<>>
Replied(u) == /\ Rest /\ Len(toClient) = 2
              /\ toClient[1].kind = "length" /\ toClient[2].kind = "body"
              /\ toClient[2].data.to = call[u]
BodyLeft(u) == /\ Rest /\ Len(toClient) = 1
               /\ toClient[1].kind = "body" /\ toClient[1].data.to = call[u]

Exchange(u) ==
  /\ pc[u] \in {"length", "stop_length"} => Asked(u) \/ Served(u) \/ Dead \/ Replied(u)
  /\ pc[u] \in {"body", "stop_body"} => BodyLeft(u)

\* One Do at a time reads, and its exchange is all there is.
StreamInv ==
  InStep /\ filesOpen =>
    /\ \A u, v \in Users : pc[u] \in Reading /\ pc[v] \in Reading => u = v
    /\ (\A u \in Users : pc[u] \notin Reading) => toClient = <<>> /\ Rest
    /\ \A u \in Users : pc[u] \in Reading => Exchange(u)

\* The inductive invariant.
Inv == TypeOK /\ RefCounted /\ LifeInv /\ NotClosedUnderUse /\ StreamInv /\ OwnResponse

-----------------------------------------------------------------------------
(* Types.                                                                  *)

\* TypeOK, but for the count.
Typed ==
  /\ created \in BOOLEAN /\ strays \in BOOLEAN
  /\ pc \in [Users -> States] /\ call \in [Users -> Req \cup {NoReq}] /\ got \in [Users -> Got]
  /\ filesOpen \in BOOLEAN /\ parentEnds \in BOOLEAN /\ lastId \in 0..MaxCalls
  /\ toServer \in Seq(Req) /\ toClient \in Seq(Part) /\ serving \in Req \cup {NoReq}
  /\ overlap \in BOOLEAN /\ desync \in BOOLEAN /\ late \subseteq Users
  /\ phase \in {"idle", "busy", "answered", "ended"}
  /\ command \in Server!Commands /\ answer \in Server!Statuses /\ open \in BOOLEAN

LEMMA TypeSplit == TypeOK <=> Typed /\ refcount \in 0..Cardinality(Users)
BY DEF TypeOK, Typed, States

\* A Do that returns leaves a result, and its user in a place it knows.
LEMMA ReturnTyped ==
  ASSUME Typed, NEW u \in Users, NEW h \in {"none", "error", "garbage", "ok"},
         NEW d \in Body, Return(u, h, d)
  PROVE  /\ got' \in [Users -> Got] /\ pc' \in [Users -> States]
         /\ pc' = [pc EXCEPT ![u] = IF pc[u] \in Closing THEN "signal" ELSE "in"]
         /\ got' = [got EXCEPT ![u] = [how |-> h, data |-> d]]
<1>1. [how |-> h, data |-> d] \in Got
  BY DEF Got
<1>2. (IF pc[u] \in Closing THEN "signal" ELSE "in") \in States
  BY DEF States, Closing
<1>3. QED BY <1>1, <1>2 DEF Return, Goto, Typed

\* The empty body is one.
LEMMA NoBodyTyped == NoBody \in Body
BY DEF NoBody, NoReq, Body, Server!Statuses

\* Every step of Do keeps the types.
LEMMA DoTyped ==
  ASSUME Typed, NEW u \in Users
  PROVE  /\ \A c \in Calls \cup {"STOP"} : DoWrite(u, c) => Typed'
         /\ ReadError(u) => Typed'
         /\ ReadLength(u) => Typed'
         /\ ReadBody(u) => Typed'
<1>1. ASSUME NEW c \in Calls \cup {"STOP"}, DoWrite(u, c) PROVE Typed'
  <2> DEFINE r == [id |-> IF c = "STOP" THEN 0 ELSE lastId + 1, cmd |-> c]
  <2>1. lastId' \in 0..MaxCalls /\ r \in Req
    BY <1>1, ClientAssumption DEF DoWrite, Typed, Req
  <2>2. call' = [call EXCEPT ![u] = r]
    BY <1>1 DEF DoWrite
  <2>3. call' \in [Users -> Req \cup {NoReq}]
    BY <2>1, <2>2 DEF Typed
  <2>4. CASE ~filesOpen \/ (phase = "ended" /\ ~parentEnds)
    <3>1. Return(u, "error", NoBody) /\ UNCHANGED <<toServer, overlap>>
      BY <1>1, <2>4 DEF DoWrite
    <3>2. got' \in [Users -> Got] /\ pc' \in [Users -> States]
      BY <3>1, ReturnTyped, NoBodyTyped
    <3>3. QED BY <1>1, <2>1, <2>3, <3>1, <3>2 DEF DoWrite, Typed, process, made
  <2>5. CASE ~(~filesOpen \/ (phase = "ended" /\ ~parentEnds))
    <3>1. /\ toServer' = Append(toServer, r)
          /\ got' = [got EXCEPT ![u] = [how |-> "none", data |-> NoBody]]
          /\ Goto(u, IF c = "STOP" THEN "stop_length" ELSE "length")
          /\ overlap' = (overlap \/ \E v \in Users \ {u} : pc[v] \in Reading)
      BY <1>1, <2>5 DEF DoWrite
    <3>2. [how |-> "none", data |-> NoBody] \in Got
      BY NoBodyTyped DEF Got
    <3>3. got' \in [Users -> Got] /\ toServer' \in Seq(Req) /\ overlap' \in BOOLEAN
      BY <2>1, <3>1, <3>2 DEF Typed
    <3>4. (IF c = "STOP" THEN "stop_length" ELSE "length") \in States
      BY DEF States, Closing
    <3>5. pc' \in [Users -> States]
      BY <3>1, <3>4 DEF Goto, Typed
    <3>6. QED BY <1>1, <2>1, <2>3, <3>3, <3>5 DEF DoWrite, Typed, process, made
  <2>6. QED BY <2>4, <2>5
<1>2. ASSUME ReadError(u) PROVE Typed'
  <2>1. got' \in [Users -> Got] /\ pc' \in [Users -> States]
    BY <1>2, ReturnTyped, NoBodyTyped DEF ReadError
  <2>2. QED BY <1>2, <2>1 DEF ReadError, Typed, process, history, made
<1>3. ASSUME ReadLength(u) PROVE Typed'
  <2>1. toClient' \in Seq(Part)
    BY <1>3 DEF ReadLength, Typed
  <2>2. got' \in [Users -> Got] /\ pc' \in [Users -> States] /\ desync' \in BOOLEAN
    <3>1. CASE Return(u, "error", NoBody) /\ desync' = TRUE
      BY <3>1, ReturnTyped, NoBodyTyped
    <3>2. CASE /\ Goto(u, IF pc[u] = "length" THEN "body" ELSE "stop_body")
               /\ UNCHANGED got
               /\ desync' = (desync \/ Head(toClient).kind = "body")
      BY <3>2 DEF Goto, Typed, States, Closing
    <3>3. QED BY <1>3, <3>1, <3>2 DEF ReadLength
  <2>3. QED BY <1>3, <2>1, <2>2 DEF ReadLength, Typed, process, made
<1>4. ASSUME ReadBody(u) PROVE Typed'
  <2>1. toClient' \in Seq(Part) /\ Head(toClient) \in Part
    BY <1>4 DEF ReadBody, Typed
  <2>2. got' \in [Users -> Got] /\ pc' \in [Users -> States] /\ desync' \in BOOLEAN
    <3>1. CASE Head(toClient).kind = "body"
      <4>1. Head(toClient).data \in Body
        BY <2>1 DEF Part
      <4>2. Return(u, "ok", Head(toClient).data) /\ desync' = desync
        BY <1>4, <3>1 DEF ReadBody
      <4>3. QED BY <4>1, <4>2, ReturnTyped DEF Typed
    <3>2. CASE Head(toClient).kind # "body"
      <4>1. PICK h \in {"error", "garbage"} : Return(u, h, NoBody) /\ desync' = TRUE
        BY <1>4, <3>2 DEF ReadBody
      <4>2. QED BY <4>1, ReturnTyped, NoBodyTyped
    <3>3. QED BY <3>1, <3>2
  <2>3. QED BY <1>4, <2>1, <2>2 DEF ReadBody, Typed, process, made
<1>5. QED BY <1>1, <1>2, <1>3, <1>4

\* Every step keeps the types.
LEMMA TypedStep == Typed /\ [Next]_vars => Typed'
<1> SUFFICES ASSUME Typed, [Next]_vars PROVE Typed'
  OBVIOUS
<1>1. CASE NewClient
  BY <1>1 DEF NewClient, Typed, Server!Restart, process, history
<1>2. ASSUME NEW u \in Users, IncRef(u) PROVE Typed'
  BY <1>2 DEF IncRef, Goto, Typed, States, process, history, made
<1>3. ASSUME NEW u \in Users, DecRef(u) PROVE Typed'
  BY <1>3 DEF DecRef, Goto, Typed, States, Closing, process, history, made
<1>4. ASSUME NEW u \in Users, CloseFiles(u) PROVE Typed'
  BY <1>4 DEF CloseFiles, Goto, Typed, States, Closing, process, history, made, Server!End
<1>5. ASSUME NEW u \in Users, Waited(u) PROVE Typed'
  BY <1>5 DEF Waited, Goto, Typed, States, process, history, made
<1>6. ASSUME NEW u \in Users, Kill(u) PROVE Typed'
  BY <1>6 DEF Kill, Goto, Typed, States, Closing, process, history, made, Server!End
<1>7. CASE Collect
  BY <1>7 DEF Collect, Typed, client, process, history
<1>8. CASE ServerRead
  <2>1. Head(toServer) \in Req /\ Tail(toServer) \in Seq(Req)
    BY <1>8 DEF ServerRead, Typed
  <2>2. Head(toServer).cmd \in Server!Commands
    BY <2>1, ClientAssumption DEF Req, Server!Commands
  <2>3. QED
    BY <1>8, <2>1, <2>2 DEF ServerRead, Server!Ask, Typed, client, history, made, Server!Statuses
<1>9. CASE ServerAnswer
  BY <1>9 DEF ServerAnswer, Server!Answer, Typed, client, history, made
<1>10. CASE ServerWrite
  <2>1. PICK l \in BOOLEAN :
          LET part(k) == [kind |-> k, long |-> l,
                          data |-> [to |-> serving, status |-> answer]]
          IN toClient' = toClient \o <<part("length"), part("body")>>
    BY <1>10 DEF ServerWrite
  <2>2. [to |-> serving, status |-> answer] \in Body
    BY DEF Typed, Body
  <2>3. \A k \in {"length", "body"} :
          [kind |-> k, long |-> l, data |-> [to |-> serving, status |-> answer]] \in Part
    BY <2>2 DEF Part
  <2>4. toClient' \in Seq(Part)
    BY <2>1, <2>3 DEF Typed
  <2>5. QED
    BY <1>10, <2>4 DEF ServerWrite, Server!End, Server!Deliver, Typed, client, history, made
<1>11. CASE ServerEnd
  BY <1>11 DEF ServerEnd, Server!End, Typed, client, history, made
<1>12. CASE UNCHANGED vars
  BY <1>12 DEF vars, Typed, client, history, made, process
<1>13. QED
  BY <1>1, <1>2, <1>3, <1>4, <1>5, <1>6, <1>7, <1>8, <1>9, <1>10, <1>11, <1>12, DoTyped
     DEF Next, DoStep, CloseStep, ServerStep

-----------------------------------------------------------------------------
(* References.                                                             *)

\* What a step does to the places of the users and to their count.
LEMMA PlaceEffect ==
  ASSUME Typed, Next
  PROVE  \/ UNCHANGED <<pc, refcount>>
         \/ \E u \in Users : /\ pc[u] = "out" /\ pc' = [pc EXCEPT ![u] = "in"]
                             /\ refcount' = refcount + 1
         \/ \E u \in Users : /\ pc[u] = "in" /\ refcount' = refcount - 1
                             /\ pc' = [pc EXCEPT ![u] = IF refcount' = 0 THEN "close" ELSE "out"]
         \/ \E u \in Users, l \in States \ {"close"} :
              /\ pc[u] \in Holding <=> l \in Holding
              /\ pc' = [pc EXCEPT ![u] = l] /\ refcount' = refcount
<1> DEFINE Moves(u, l) == /\ pc[u] \in Holding <=> l \in Holding
                          /\ pc' = [pc EXCEPT ![u] = l] /\ refcount' = refcount
           Back(u) == IF pc[u] \in Closing THEN "signal" ELSE "in"
<1> SUFFICES \/ UNCHANGED <<pc, refcount>>
             \/ \E u \in Users : IncRef(u) \/ DecRef(u)
             \/ \E u \in Users, l \in States \ {"close"} : Moves(u, l)
  BY DEF IncRef, DecRef, Goto
<1>1. ASSUME NEW u \in Users, NEW c \in Calls \cup {"STOP"}, DoWrite(u, c)
      PROVE  \E l \in States \ {"close"} : Moves(u, l)
  <2>1. IF c = "STOP" THEN pc[u] = "close" ELSE pc[u] = "in"
    BY <1>1 DEF DoWrite
  <2>2. CASE ~filesOpen \/ (phase = "ended" /\ ~parentEnds)
    <3>1. pc' = [pc EXCEPT ![u] = Back(u)] /\ refcount' = refcount
      BY <1>1, <2>2 DEF DoWrite, Return, Goto
    <3>2. Back(u) \in States \ {"close"} /\ (pc[u] \in Holding <=> Back(u) \in Holding)
      BY <2>1 DEF States, Closing, Holding
    <3>3. QED BY <3>1, <3>2
  <2>3. CASE ~(~filesOpen \/ (phase = "ended" /\ ~parentEnds))
    <3>1. /\ pc' = [pc EXCEPT ![u] = IF c = "STOP" THEN "stop_length" ELSE "length"]
          /\ refcount' = refcount
      BY <1>1, <2>3 DEF DoWrite, Goto
    <3>2. QED BY <2>1, <3>1 DEF States, Closing, Holding
  <2>4. QED BY <2>2, <2>3
<1>2. ASSUME NEW u \in Users, ReadError(u) \/ ReadLength(u) \/ ReadBody(u)
      PROVE  \E l \in States \ {"close"} : Moves(u, l)
  <2>1. pc[u] \in Reading /\ refcount' = refcount
    BY <1>2 DEF ReadError, ReadLength, ReadBody, Reading
  <2>2. \/ pc' = [pc EXCEPT ![u] = Back(u)]
        \/ /\ pc[u] \in {"length", "stop_length"}
           /\ pc' = [pc EXCEPT ![u] = IF pc[u] = "length" THEN "body" ELSE "stop_body"]
    BY <1>2 DEF ReadError, ReadLength, ReadBody, Return, Goto
  <2>3. Back(u) \in States \ {"close"} /\ (pc[u] \in Holding <=> Back(u) \in Holding)
    BY <2>1 DEF Reading, States, Closing, Holding
  <2>4. CASE pc' = [pc EXCEPT ![u] = Back(u)]
    BY <2>1, <2>3, <2>4
  <2>5. CASE /\ pc[u] \in {"length", "stop_length"}
             /\ pc' = [pc EXCEPT ![u] = IF pc[u] = "length" THEN "body" ELSE "stop_body"]
    BY <2>1, <2>5 DEF States, Closing, Holding
  <2>6. QED BY <2>2, <2>4, <2>5
<1>3. ASSUME NEW u \in Users, CloseStep(u)
      PROVE  \E l \in States \ {"close"} : Moves(u, l)
  BY <1>3 DEF CloseStep, CloseFiles, Waited, Kill, Goto, States, Closing, Holding
<1>4. CASE NewClient \/ Collect \/ ServerStep \/ ServerEnd
  BY <1>4 DEF NewClient, Collect, ServerStep, ServerRead, ServerAnswer, ServerWrite, ServerEnd, client
<1>5. QED
  BY <1>1, <1>2, <1>3, <1>4 DEF Next, DoStep

\* Some of the users are finitely many, and no more than all of them.
LEMMA SomeUsers ==
  ASSUME NEW H \in SUBSET Users
  PROVE  IsFiniteSet(H) /\ Cardinality(H) \in 0..Cardinality(Users)
<1>1. IsFiniteSet(Users)
  BY ClientAssumption
<1>2. IsFiniteSet(H) /\ Cardinality(H) <= Cardinality(Users)
  BY <1>1, FS_Subset
<1>3. Cardinality(H) \in Nat /\ Cardinality(Users) \in Nat
  BY <1>1, <1>2, FS_CardinalityType
<1>4. QED BY <1>2, <1>3

\* The holders are.
LEMMA HoldersFinite ==
  /\ IsFiniteSet(Holders) /\ Cardinality(Holders) \in 0..Cardinality(Users)
BY SomeUsers DEF Holders

\* Every step keeps the count, and the reference that leaves last is the last.
LEMMA CountStep ==
  ASSUME Typed, RefCounted, Next
  PROVE  /\ RefCounted'
         /\ \A u \in Users : pc[u] = "in" /\ pc'[u] = "close" => Holders' = {}
<1>1. CASE UNCHANGED <<pc, refcount>>
  BY <1>1 DEF RefCounted, Holders
<1>2. ASSUME NEW u \in Users, pc[u] = "out", pc' = [pc EXCEPT ![u] = "in"],
             refcount' = refcount + 1
      PROVE  RefCounted' /\ \A v \in Users : ~(pc[v] = "in" /\ pc'[v] = "close")
  <2>1. Holders' = Holders \cup {u} /\ u \notin Holders
    BY <1>2 DEF Holders, Holding, Typed
  <2>2. Cardinality(Holders') = Cardinality(Holders) + 1
    BY <2>1, HoldersFinite, FS_AddElement
  <2>3. QED BY <1>2, <2>2 DEF RefCounted, Typed
<1>3. ASSUME NEW u \in Users, pc[u] = "in", refcount' = refcount - 1,
             pc' = [pc EXCEPT ![u] = IF refcount' = 0 THEN "close" ELSE "out"]
      PROVE  /\ RefCounted'
             /\ \A v \in Users : pc[v] = "in" /\ pc'[v] = "close" => Holders' = {}
  <2>1. Holders' = Holders \ {u} /\ u \in Holders
    BY <1>3 DEF Holders, Holding, Typed
  <2>2. Cardinality(Holders') = Cardinality(Holders) - 1 /\ IsFiniteSet(Holders')
    BY <2>1, HoldersFinite, FS_RemoveElement
  <2>3. RefCounted'
    BY <1>3, <2>2 DEF RefCounted
  <2>4. ASSUME NEW v \in Users, pc[v] = "in", pc'[v] = "close" PROVE Holders' = {}
    <3>1. refcount' = 0
      BY <1>3, <2>4 DEF Typed
    <3>2. Cardinality(Holders') = 0
      BY <2>3, <3>1 DEF RefCounted
    <3>3. QED BY <2>2, <3>2, FS_EmptySet
  <2>5. QED BY <2>3, <2>4
<1>4. ASSUME NEW u \in Users, NEW l \in States \ {"close"},
             pc[u] \in Holding <=> l \in Holding, pc' = [pc EXCEPT ![u] = l],
             refcount' = refcount
      PROVE  RefCounted' /\ \A v \in Users : ~(pc[v] = "in" /\ pc'[v] = "close")
  <2>1. Holders' = Holders
    BY <1>4 DEF Holders, Typed
  <2>2. \A v \in Users : ~(pc[v] = "in" /\ pc'[v] = "close")
    BY <1>4 DEF Typed
  <2>3. QED BY <1>4, <2>1, <2>2 DEF RefCounted
<1>5. QED
  BY <1>1, <1>2, <1>3, <1>4, PlaceEffect

-----------------------------------------------------------------------------
(* The life of Client and process.                                         *)

\* Every step keeps LifeInv.
LEMMA LifeStep ==
  ASSUME Typed, LifeInv, Next
  PROVE  LifeInv'
<1>1. CASE NewClient
  <2>1. CASE created' = TRUE /\ filesOpen' = TRUE
    BY <2>1 DEF LifeInv
  <2>2. CASE UNCHANGED <<created, filesOpen, phase>>
    BY <1>1, <2>2 DEF NewClient, LifeInv
  <2>3. QED BY <1>1, <2>1, <2>2 DEF NewClient, process
<1>2. ASSUME NEW u \in Users, IncRef(u) \/ DecRef(u) PROVE LifeInv'
  BY <1>2 DEF IncRef, DecRef, Goto, LifeInv, Typed, process, made
<1>3. ASSUME NEW u \in Users, NEW c \in Calls \cup {"STOP"}, DoWrite(u, c) PROVE LifeInv'
  <2>1. pc[u] # "out" /\ pc[u] # "waiting" /\ UNCHANGED <<made, filesOpen, process>>
    BY <1>3 DEF DoWrite
  <2>2. \A v \in Users : v # u => pc'[v] = pc[v]
    BY <1>3 DEF DoWrite, Return, Goto, Typed
  <2>3. QED BY <2>1, <2>2 DEF LifeInv, process, made
<1>4. ASSUME NEW u \in Users, ReadError(u) \/ ReadLength(u) \/ ReadBody(u) PROVE LifeInv'
  <2>1. pc[u] # "out" /\ pc[u] # "waiting" /\ UNCHANGED <<made, filesOpen, process>>
    BY <1>4 DEF ReadError, ReadLength, ReadBody, Reading
  <2>2. \A v \in Users : v # u => pc'[v] = pc[v]
    BY <1>4 DEF ReadError, ReadLength, ReadBody, Return, Goto, Typed
  <2>3. QED BY <2>1, <2>2 DEF LifeInv, process, made
<1>5. ASSUME NEW u \in Users, CloseFiles(u) PROVE LifeInv'
  <2>1. pc'[u] = "waiting" /\ pc[u] = "signal" /\ created' = created
    BY <1>5 DEF CloseFiles, Goto, Typed, made
  <2>2. QED BY <2>1 DEF LifeInv
<1>6. ASSUME NEW u \in Users, Waited(u) \/ Kill(u) PROVE LifeInv'
  <2>1. pc[u] # "out" /\ created' = created /\ phase' = "ended"
    BY <1>6 DEF Waited, Kill, made, process, Server!End
  <2>2. QED BY <2>1 DEF LifeInv
<1>7. CASE Collect
  BY <1>7 DEF Collect, LifeInv, client, process
<1>8. CASE ServerStep \/ ServerEnd
  <2>1. phase # "ended" /\ UNCHANGED <<made, client>>
    BY <1>8 DEF ServerStep, ServerRead, ServerAnswer, ServerWrite, ServerEnd,
                Server!Ask, Server!Answer, Server!End
  <2>2. QED BY <2>1 DEF LifeInv, made, client
<1>9. QED
  BY <1>1, <1>2, <1>3, <1>4, <1>5, <1>6, <1>7, <1>8 DEF Next, DoStep, CloseStep

\* Every step keeps NotClosedUnderUse: the last reference to leave is the last, and
\* from then on those who come are late.
LEMMA LateStep ==
  ASSUME Typed, RefCounted, LifeInv, NotClosedUnderUse, Next
  PROVE  NotClosedUnderUse'
<1> SUFFICES ASSUME CloseBegun', NEW u \in Users, pc'[u] \in Holding
             PROVE  u \in late'
  BY DEF NotClosedUnderUse, Holding, InDo
<1>1. ASSUME CloseBegun, UNCHANGED late, \A v \in Users : pc'[v] \in Holding => pc[v] \in Holding
      PROVE  u \in late'
  BY <1>1 DEF NotClosedUnderUse, Holding, InDo
<1>2. CASE NewClient
  BY <1>2 DEF NewClient, LifeInv, Holding
<1>3. ASSUME NEW v \in Users, IncRef(v) PROVE u \in late'
  <2>1. /\ pc' = [pc EXCEPT ![v] = "in"] /\ pc[v] = "out"
        /\ UNCHANGED <<created, filesOpen>>
        /\ late' = IF CloseBegun THEN late \cup {v} ELSE late
    BY <1>3 DEF IncRef, Goto, made
  <2>2. \A w \in Users : pc'[w] \in Closing => pc[w] \in Closing
    BY <2>1 DEF Typed, Closing
  <2>3. CloseBegun
    BY <2>1, <2>2 DEF CloseBegun
  <2>4. CASE u = v
    BY <2>1, <2>3, <2>4
  <2>5. CASE u # v
    BY <2>1, <2>3, <2>5 DEF Typed, NotClosedUnderUse, Holding, InDo
  <2>6. QED BY <2>4, <2>5
<1>4. ASSUME NEW v \in Users, DecRef(v) PROVE u \in late'
  <2>1. /\ pc[v] = "in" /\ pc' = [pc EXCEPT ![v] = IF refcount' = 0 THEN "close" ELSE "out"]
        /\ UNCHANGED <<created, filesOpen>> /\ late' = late \ {v}
    BY <1>4 DEF DecRef, Goto, made
  <2>2. Holders' # {}
    BY DEF Holders
  <2>3. pc'[v] # "close"
    BY <2>1, <2>2, CountStep
  <2>4. pc'[v] = "out"
    BY <2>1, <2>3 DEF Typed
  <2>5. CloseBegun
    BY <2>1, <2>4 DEF CloseBegun, Typed, Closing
  <2>6. u # v /\ pc[u] = pc'[u]
    BY <2>1, <2>4 DEF Typed, Holding
  <2>7. QED BY <2>1, <2>5, <2>6 DEF NotClosedUnderUse, Holding, InDo
<1>5. ASSUME NEW v \in Users, NEW c \in Calls \cup {"STOP"}, DoWrite(v, c) PROVE u \in late'
  <2>1. /\ pc[v] = IF c = "STOP" THEN "close" ELSE "in"
        /\ UNCHANGED <<created, filesOpen, late>>
    BY <1>5 DEF DoWrite, made
  <2>2. \E l \in {"signal", "stop_length", "in", "length"} :
          /\ pc' = [pc EXCEPT ![v] = l]
          /\ l \in Closing <=> pc[v] \in Closing
          /\ l \in Holding <=> pc[v] \in Holding
    BY <1>5, <2>1 DEF DoWrite, Return, Goto, Closing, Holding
  <2>3. QED BY <1>1, <2>1, <2>2 DEF Typed, CloseBegun
<1>6. ASSUME NEW v \in Users, ReadError(v) \/ ReadLength(v) \/ ReadBody(v) PROVE u \in late'
  <2>1. pc[v] \in Reading /\ UNCHANGED <<created, filesOpen, late>>
    BY <1>6 DEF ReadError, ReadLength, ReadBody, Reading, made, history
  <2>2. \E l \in {"signal", "in", "body", "stop_body"} :
          /\ pc' = [pc EXCEPT ![v] = l]
          /\ l \in Closing <=> pc[v] \in Closing
          /\ l \in Holding <=> pc[v] \in Holding
    BY <1>6, <2>1 DEF ReadError, ReadLength, ReadBody, Return, Goto, Reading, Closing, Holding
  <2>3. QED BY <1>1, <2>1, <2>2 DEF Typed, CloseBegun
<1>7. ASSUME NEW v \in Users, CloseStep(v) PROVE u \in late'
  <2>1. /\ pc[v] \in Closing /\ UNCHANGED <<created, late>>
        /\ \E l \in {"waiting", "out", "killed"} : pc' = [pc EXCEPT ![v] = l]
    BY <1>7 DEF CloseStep, CloseFiles, Waited, Kill, Goto, Closing, made, history
  <2>2. CloseBegun
    BY <2>1 DEF CloseBegun
  <2>3. QED BY <1>1, <2>1, <2>2 DEF Typed, Holding
<1>8. CASE Collect \/ ServerStep \/ ServerEnd
  <2>1. UNCHANGED <<created, client, late>>
    BY <1>8 DEF Collect, ServerStep, ServerRead, ServerAnswer, ServerWrite, ServerEnd,
                made, history
  <2>2. QED BY <1>1, <2>1 DEF client, CloseBegun
<1>9. QED
  BY <1>2, <1>3, <1>4, <1>5, <1>6, <1>7, <1>8 DEF Next, DoStep

-----------------------------------------------------------------------------
(* The exchange.                                                           *)

\* The end of the process disturbs no exchange, nor does a step of others.
LEMMA StreamFrame ==
  ASSUME Typed, StreamInv, InStep' /\ filesOpen' => InStep /\ filesOpen,
         UNCHANGED <<toServer, toClient, serving>>, phase' = phase \/ phase' = "ended",
         \A v \in Users : /\ pc'[v] \in Reading <=> pc[v] \in Reading
                          /\ pc[v] \in Reading => pc'[v] = pc[v] /\ call'[v] = call[v]
  PROVE  StreamInv'
<1> SUFFICES ASSUME InStep', filesOpen'
             PROVE  /\ \A u, v \in Users : pc'[u] \in Reading /\ pc'[v] \in Reading => u = v
                    /\ (\A u \in Users : pc'[u] \notin Reading) => toClient' = <<>> /\ Rest'
                    /\ \A u \in Users : pc'[u] \in Reading => Exchange(u)'
  BY DEF StreamInv
<1>1. Rest => Rest'
  BY DEF Rest
<1>2. ASSUME NEW u \in Users, pc'[u] \in Reading PROVE Exchange(u)'
  <2>1. Exchange(u) /\ pc'[u] = pc[u] /\ call'[u] = call[u]
    BY <1>2 DEF StreamInv
  <2>2. CASE pc[u] \in {"length", "stop_length"}
    <3>1. Asked(u) => Asked(u)' \/ Dead'
      BY <2>1 DEF Asked, Dead
    <3>2. Served(u) => Served(u)' \/ Dead'
      BY <2>1 DEF Served, Dead
    <3>3. Dead => Dead'
      BY DEF Dead
    <3>4. Replied(u) => Replied(u)'
      BY <1>1, <2>1 DEF Replied
    <3>5. QED BY <2>1, <2>2, <3>1, <3>2, <3>3, <3>4 DEF Exchange
  <2>3. CASE pc[u] \in {"body", "stop_body"}
    BY <1>1, <2>1, <2>3 DEF Exchange, BodyLeft
  <2>4. QED BY <1>2, <2>1, <2>2, <2>3 DEF Reading
<1>3. QED BY <1>1, <1>2 DEF StreamInv

\* A request is written: to empty pipes, as nobody else reads.
LEMMA WriteStream ==
  ASSUME Typed, StreamInv, NEW u \in Users, NEW c \in Calls \cup {"STOP"}, DoWrite(u, c)
  PROVE  StreamInv'
<1> DEFINE r == [id |-> IF c = "STOP" THEN 0 ELSE lastId + 1, cmd |-> c]
<1>1. /\ pc[u] \notin Reading /\ call' = [call EXCEPT ![u] = r]
      /\ UNCHANGED <<filesOpen, toClient, serving, desync, phase>>
  BY DEF DoWrite, Reading, process
<1>2. CASE ~filesOpen \/ (phase = "ended" /\ ~parentEnds)
  <2>1. /\ pc' = [pc EXCEPT ![u] = IF pc[u] \in Closing THEN "signal" ELSE "in"]
        /\ UNCHANGED <<toServer, overlap>>
    BY <1>2 DEF DoWrite, Return, Goto
  <2>2. \A v \in Users : /\ pc'[v] \in Reading <=> pc[v] \in Reading
                         /\ pc[v] \in Reading => pc'[v] = pc[v] /\ call'[v] = call[v]
    BY <1>1, <2>1 DEF Typed, Reading
  <2>3. InStep' => InStep
    BY <1>1, <2>1 DEF InStep
  <2>4. QED BY <1>1, <2>1, <2>2, <2>3, StreamFrame
<1>3. CASE ~(~filesOpen \/ (phase = "ended" /\ ~parentEnds))
  <2>1. /\ toServer' = Append(toServer, r)
        /\ pc' = [pc EXCEPT ![u] = IF c = "STOP" THEN "stop_length" ELSE "length"]
        /\ overlap' = (overlap \/ \E v \in Users \ {u} : pc[v] \in Reading)
    BY <1>3 DEF DoWrite, Goto
  <2> SUFFICES ASSUME InStep'
               PROVE  /\ \A v \in Users : pc'[v] \in Reading => v = u
                      /\ pc'[u] \in {"length", "stop_length"}
                      /\ Asked(u)' \/ Dead'
    BY DEF StreamInv, Exchange, Reading
  <2>2. InStep /\ \A v \in Users : v # u => pc[v] \notin Reading
    BY <1>1, <2>1 DEF InStep, Typed
  <2>3. toClient = <<>> /\ Rest
    BY <1>1, <1>3, <2>2 DEF StreamInv
  <2>4. \A v \in Users : pc'[v] \in Reading => v = u
    BY <2>1, <2>2 DEF Typed
  <2>5. pc'[u] \in {"length", "stop_length"} /\ call'[u] = r
    BY <1>1, <2>1 DEF Typed
  <2>6. CASE phase = "ended"
    BY <1>1, <2>3, <2>4, <2>5, <2>6 DEF Dead
  <2>7. CASE phase # "ended"
    <3>1. phase = "idle" /\ toServer' = <<r>>
      BY <2>1, <2>3, <2>7 DEF Rest
    <3>2. Asked(u)'
      BY <1>1, <2>3, <2>5, <3>1 DEF Asked
    <3>3. QED BY <2>4, <2>5, <3>2
  <2>8. QED BY <2>6, <2>7
<1>4. QED BY <1>2, <1>3

\* A Do stops reading: what it leaves is nothing.
LEMMA ReadErrorStream ==
  ASSUME Typed, StreamInv, NEW u \in Users, ReadError(u)
  PROVE  StreamInv'
<1>1. /\ pc[u] \in Reading
      /\ ~filesOpen \/ (toClient = <<>> /\ phase = "ended")
      /\ pc' = [pc EXCEPT ![u] = IF pc[u] \in Closing THEN "signal" ELSE "in"]
      /\ UNCHANGED <<filesOpen, toClient, phase, overlap, desync>>
  BY DEF ReadError, Return, Goto, history, process
<1> SUFFICES ASSUME InStep', filesOpen'
             PROVE  (\A v \in Users : pc'[v] \notin Reading) /\ toClient' = <<>> /\ Rest'
  BY DEF StreamInv
<1>2. InStep /\ filesOpen
  BY <1>1 DEF InStep
<1>3. \A v \in Users : pc[v] \in Reading => v = u
  BY <1>1, <1>2 DEF StreamInv
<1>4. \A v \in Users : pc'[v] \notin Reading
  BY <1>1, <1>3 DEF Typed, Reading
<1>5. QED BY <1>1, <1>2, <1>4 DEF Rest

\* What is left of two.
LEMMA TailOfTwo ==
  ASSUME NEW S, NEW s \in Seq(S), Len(s) = 2
  PROVE  Len(Tail(s)) = 1 /\ Tail(s)[1] = s[2]
<1>1. s # <<>>
  OBVIOUS
<1>2. Len(Tail(s)) = 1 /\ Tail(s)[1] = s[1 + 1]
  BY <1>1
<1>3. QED BY <1>2

\* A length is read: behind it is the body of the same response.
LEMMA ReadLengthStream ==
  ASSUME Typed, StreamInv, NEW u \in Users, ReadLength(u)
  PROVE  StreamInv'
<1> SUFFICES ASSUME InStep', filesOpen' PROVE StreamInv'
  BY DEF StreamInv
<1>1. /\ pc[u] \in {"length", "stop_length"} /\ toClient # <<>> /\ toClient' = Tail(toClient)
      /\ pc' = [pc EXCEPT ![u] = IF pc[u] = "length" THEN "body" ELSE "stop_body"]
      /\ desync' = (desync \/ Head(toClient).kind = "body")
      /\ UNCHANGED <<call, filesOpen, toServer, overlap, phase>>
  BY DEF ReadLength, Goto, InStep, process
<1>2. InStep /\ filesOpen /\ Head(toClient).kind # "body"
  BY <1>1 DEF InStep, Typed
<1>3. Exchange(u) /\ \A v \in Users : pc[v] \in Reading => v = u
  BY <1>1, <1>2 DEF StreamInv, Reading
<1>4. Replied(u)
  BY <1>1, <1>3 DEF Exchange, Asked, Served, Dead
<1>5. Len(toClient') = 1 /\ toClient'[1] = toClient[2]
  <2>1. toClient \in Seq(Part) /\ Len(toClient) = 2 /\ toClient' = Tail(toClient)
    BY <1>1, <1>4 DEF Replied, Typed
  <2>2. QED BY <2>1, TailOfTwo
<1>6. BodyLeft(u)'
  BY <1>1, <1>4, <1>5 DEF BodyLeft, Replied, Rest
<1>7. /\ pc'[u] \in {"body", "stop_body"}
      /\ \A v \in Users : pc'[v] \in Reading => v = u
  BY <1>1, <1>3 DEF Typed, Reading
<1>8. QED BY <1>6, <1>7 DEF StreamInv, Exchange, Reading

\* The body is read: nothing is left, and it answers the request of this Do.
LEMMA ReadBodyStream ==
  ASSUME Typed, StreamInv, NEW u \in Users, ReadBody(u)
  PROVE  StreamInv' /\ (InStep' => InStep /\ Head(toClient).kind = "body"
                                   /\ Head(toClient).data.to = call[u])
<1> SUFFICES ASSUME InStep'
             PROVE  /\ InStep /\ Head(toClient).kind = "body"
                    /\ Head(toClient).data.to = call[u]
                    /\ \A v \in Users : pc'[v] \notin Reading
                    /\ toClient' = <<>> /\ Rest'
  BY DEF StreamInv
<1>1. /\ pc[u] \in {"body", "stop_body"} /\ filesOpen /\ toClient' = Tail(toClient)
      /\ Head(toClient).kind = "body"
      /\ pc' = [pc EXCEPT ![u] = IF pc[u] \in Closing THEN "signal" ELSE "in"]
      /\ UNCHANGED <<toServer, overlap, desync, phase>>
  BY DEF ReadBody, Return, Goto, InStep, process
<1>2. InStep
  BY <1>1 DEF InStep
<1>3. Exchange(u) /\ \A v \in Users : pc[v] \in Reading => v = u
  BY <1>1, <1>2 DEF StreamInv, Reading
<1>4. BodyLeft(u)
  BY <1>1, <1>3 DEF Exchange
<1>5. toClient' = <<>> /\ Head(toClient) = toClient[1]
  BY <1>1, <1>4 DEF BodyLeft, Typed
<1>6. \A v \in Users : pc'[v] \notin Reading
  BY <1>1, <1>3 DEF Typed, Reading
<1>7. Rest'
  BY <1>1, <1>4 DEF BodyLeft, Rest
<1>8. QED BY <1>1, <1>2, <1>4, <1>5, <1>6, <1>7 DEF BodyLeft

\* The process reads the request, answers it and writes the response.
LEMMA ServerStream ==
  ASSUME Typed, StreamInv, ServerStep
  PROVE  StreamInv'
<1> SUFFICES ASSUME InStep', filesOpen'
             PROVE  /\ \A u \in Users : pc[u] \in Reading => Exchange(u)'
                    /\ (\A u \in Users : pc[u] \notin Reading) => toClient' = <<>> /\ Rest'
  BY DEF StreamInv, ServerStep, ServerRead, ServerAnswer, ServerWrite, client, history, InStep
<1>1. InStep /\ filesOpen /\ UNCHANGED <<pc, call>>
  <2>1. UNCHANGED <<overlap, desync, filesOpen, pc, call>>
    BY DEF ServerStep, ServerRead, ServerAnswer, ServerWrite, client, history
  <2>2. QED BY <2>1 DEF InStep
<1>2. CASE ServerRead
  <2>1. /\ phase = "idle" /\ toServer # <<>> /\ phase' = "busy"
        /\ serving' = Head(toServer) /\ toServer' = Tail(toServer) /\ toClient' = toClient
    BY <1>2 DEF ServerRead, Server!Ask
  <2>2. ~Rest /\ ~Dead
    BY <2>1 DEF Rest, Dead
  <2>3. ASSUME NEW u \in Users, pc[u] \in Reading PROVE Exchange(u)'
    <3>1. pc[u] \in {"length", "stop_length"} /\ Asked(u)
      BY <1>1, <2>1, <2>2, <2>3 DEF StreamInv, Exchange, Reading, Served, Replied, BodyLeft
    <3>2. Served(u)'
      BY <1>1, <2>1, <3>1 DEF Asked, Served
    <3>3. QED BY <1>1, <3>1, <3>2 DEF Exchange
  <2>4. QED BY <1>1, <2>2, <2>3 DEF StreamInv
<1>3. CASE ServerAnswer
  <2>1. /\ phase = "busy" /\ phase' = "answered"
        /\ UNCHANGED <<toServer, toClient, serving>>
    BY <1>3 DEF ServerAnswer, Server!Answer
  <2>2. ~Rest /\ ~Dead
    BY <2>1 DEF Rest, Dead
  <2>3. ASSUME NEW u \in Users, pc[u] \in Reading PROVE Exchange(u)'
    <3>1. pc[u] \in {"length", "stop_length"} /\ Served(u)
      BY <1>1, <2>1, <2>2, <2>3 DEF StreamInv, Exchange, Reading, Asked, Replied, BodyLeft
    <3>2. Served(u)'
      BY <1>1, <2>1, <3>1 DEF Served
    <3>3. QED BY <1>1, <3>1, <3>2 DEF Exchange
  <2>4. QED BY <1>1, <2>2, <2>3 DEF StreamInv
<1>4. CASE ServerWrite
  <2>1. PICK l \in BOOLEAN :
          LET part(k) == [kind |-> k, long |-> l,
                          data |-> [to |-> serving, status |-> answer]]
          IN toClient' = toClient \o <<part("length"), part("body")>>
    BY <1>4 DEF ServerWrite
  <2>2. /\ phase = "answered" /\ phase' \in {"idle", "ended"}
        /\ UNCHANGED <<toServer, serving>>
    BY <1>4 DEF ServerWrite, Server!End, Server!Deliver
  <2>3. ~Rest /\ ~Dead
    BY <2>2 DEF Rest, Dead
  <2>4. ASSUME NEW u \in Users, pc[u] \in Reading PROVE Exchange(u)'
    <3>1. pc[u] \in {"length", "stop_length"} /\ Served(u)
      BY <1>1, <2>2, <2>3, <2>4 DEF StreamInv, Exchange, Reading, Asked, Replied, BodyLeft
    <3>2. /\ Len(toClient') = 2 /\ toClient'[1].kind = "length"
          /\ toClient'[2].kind = "body" /\ toClient'[2].data.to = serving
      BY <2>1, <3>1 DEF Served
    <3>3. Replied(u)'
      BY <1>1, <2>2, <3>1, <3>2 DEF Served, Replied, Rest
    <3>4. QED BY <1>1, <3>1, <3>3 DEF Exchange
  <2>5. QED BY <1>1, <2>3, <2>4 DEF StreamInv
<1>5. QED BY <1>2, <1>3, <1>4 DEF ServerStep

\* Every step keeps StreamInv.
LEMMA StreamStep ==
  ASSUME Typed, LifeInv, StreamInv, Next
  PROVE  StreamInv'
<1>1. CASE NewClient
  <2>1. /\ \A u \in Users : pc'[u] = "out"
        /\ toClient' = <<>> /\ toServer' = <<>>
        /\ filesOpen' => phase' = "idle"
    <3>1. CASE phase' = "idle"
      BY <1>1, <3>1 DEF NewClient, LifeInv
    <3>2. CASE UNCHANGED <<created, filesOpen>>
      BY <1>1, <3>2 DEF NewClient, LifeInv
    <3>3. QED BY <1>1, <3>1, <3>2 DEF NewClient, Server!Restart
  <2>2. QED BY <2>1 DEF StreamInv, Rest, Reading
<1>2. ASSUME NEW u \in Users, IncRef(u) \/ DecRef(u) PROVE StreamInv'
  <2>1. \A v \in Users : /\ pc'[v] \in Reading <=> pc[v] \in Reading
                         /\ pc[v] \in Reading => pc'[v] = pc[v] /\ call'[v] = call[v]
    BY <1>2 DEF IncRef, DecRef, Goto, Typed, Reading
  <2>2. UNCHANGED <<overlap, desync, filesOpen, toServer, toClient, serving, phase>>
    BY <1>2 DEF IncRef, DecRef, history, process
  <2>3. QED BY <2>1, <2>2, StreamFrame DEF InStep
<1>3. ASSUME NEW u \in Users, CloseStep(u) PROVE StreamInv'
  <2>1. \A v \in Users : /\ pc'[v] \in Reading <=> pc[v] \in Reading
                         /\ pc[v] \in Reading => pc'[v] = pc[v] /\ call'[v] = call[v]
    BY <1>3 DEF CloseStep, CloseFiles, Waited, Kill, Goto, Typed, Reading
  <2>2. /\ UNCHANGED <<overlap, desync, toServer, toClient, serving>>
        /\ filesOpen' => filesOpen
        /\ phase' = phase \/ phase' = "ended"
    BY <1>3 DEF CloseStep, CloseFiles, Waited, Kill, history, process, Server!End
  <2>3. QED BY <2>1, <2>2, StreamFrame DEF InStep
<1>4. CASE Collect \/ ServerEnd
  <2>1. /\ UNCHANGED <<overlap, desync, filesOpen, toServer, toClient, serving, pc, call>>
        /\ phase' = phase \/ phase' = "ended"
    BY <1>4 DEF Collect, ServerEnd, Server!End, client, history, process
  <2>2. QED BY <2>1, StreamFrame DEF InStep
<1>5. QED
  BY <1>1, <1>2, <1>3, <1>4, WriteStream, ReadErrorStream, ReadLengthStream, ReadBodyStream,
     ServerStream DEF Next, DoStep

\* Every step keeps OwnResponse: only a body that is read makes a response, and
\* only garbage, out of step, is none.
LEMMA OwnStep ==
  ASSUME Typed, StreamInv, OwnResponse, Next
  PROVE  OwnResponse'
<1> SUFFICES ASSUME InStep', NEW v \in Users
             PROVE  /\ got'[v].how # "garbage"
                    /\ got'[v].how = "ok" => got'[v].data.to = call'[v]
  BY DEF OwnResponse
<1> DEFINE Own == /\ got'[v].how # "garbage"
                  /\ got'[v].how = "ok" => got'[v].data.to = call'[v]
<1>1. CASE UNCHANGED <<got, call, overlap, desync>>
  BY <1>1 DEF OwnResponse, InStep
<1>2. ASSUME NEW u \in Users, NEW c \in Calls \cup {"STOP"}, DoWrite(u, c) PROVE Own
  <2>1. PICK h \in {"none", "error"} : got' = [got EXCEPT ![u] = [how |-> h, data |-> NoBody]]
    BY <1>2 DEF DoWrite, Return
  <2>2. InStep /\ (v # u => call'[v] = call[v])
    BY <1>2 DEF DoWrite, InStep, Typed
  <2>3. CASE v = u
    BY <2>1, <2>3 DEF Typed
  <2>4. CASE v # u
    BY <2>1, <2>2, <2>4 DEF Typed, OwnResponse
  <2>5. QED BY <2>3, <2>4
<1>3. ASSUME NEW u \in Users, ReadError(u) \/ ReadLength(u) PROVE Own
  <2>1. /\ call' = call /\ InStep
        /\ \/ got' = [got EXCEPT ![u] = [how |-> "error", data |-> NoBody]]
           \/ got' = got
    BY <1>3 DEF ReadError, ReadLength, Return, history, InStep, Typed
  <2>2. QED BY <2>1 DEF Typed, OwnResponse
<1>4. ASSUME NEW u \in Users, ReadBody(u) PROVE Own
  <2>1. InStep /\ Head(toClient).kind = "body" /\ Head(toClient).data.to = call[u]
    BY <1>4, ReadBodyStream
  <2>2. call' = call /\ got' = [got EXCEPT ![u] = [how |-> "ok", data |-> Head(toClient).data]]
    BY <1>4, <2>1 DEF ReadBody, Return
  <2>3. QED BY <2>1, <2>2 DEF Typed, OwnResponse
<1>5. CASE NewClient \/ Collect \/ ServerStep \/ ServerEnd
  BY <1>1, <1>5 DEF NewClient, Collect, ServerStep, ServerRead, ServerAnswer, ServerWrite,
                    ServerEnd, client, history
<1>6. ASSUME NEW u \in Users, IncRef(u) \/ DecRef(u) \/ CloseStep(u) PROVE Own
  BY <1>1, <1>6 DEF IncRef, DecRef, CloseStep, CloseFiles, Waited, Kill, history
<1>7. QED
  BY <1>2, <1>3, <1>4, <1>5, <1>6 DEF Next, DoStep

-----------------------------------------------------------------------------
\* Inv holds in every reachable state.
THEOREM InvHolds == Spec => []Inv
<1>1. Init => Inv
  <2> SUFFICES ASSUME Init PROVE Inv
    OBVIOUS
  <2>1. Holders = {}
    BY DEF Init, Holders, Holding
  <2>2. RefCounted
    BY <2>1, FS_EmptySet DEF Init, RefCounted
  <2>3. refcount \in 0..Cardinality(Users)
    BY <2>2, HoldersFinite DEF RefCounted
  <2>4. [how |-> "none", data |-> NoBody] \in Got
    BY NoBodyTyped DEF Got
  <2>5. Typed
    <3>1. /\ pc \in [Users -> States] /\ call \in [Users -> Req \cup {NoReq}]
          /\ got \in [Users -> Got]
      BY <2>4 DEF Init, States
    <3>2. lastId \in 0..MaxCalls /\ toServer \in Seq(Req) /\ toClient \in Seq(Part)
      BY ClientAssumption DEF Init
    <3>3. QED BY <3>1, <3>2 DEF Init, Typed, Server!Commands, Server!Statuses
  <2>6. LifeInv /\ NotClosedUnderUse /\ StreamInv /\ OwnResponse
    BY DEF Init, LifeInv, NotClosedUnderUse, CloseBegun, StreamInv, OwnResponse
  <2>7. QED BY <2>2, <2>3, <2>5, <2>6, TypeSplit DEF Inv
<1>2. Inv /\ [Next]_vars => Inv'
  <2> SUFFICES ASSUME Inv, [Next]_vars PROVE Inv'
    OBVIOUS
  <2>1. Typed /\ Typed'
    BY TypeSplit, TypedStep DEF Inv
  <2>2. CASE Next
    <3>1. RefCounted' /\ LifeInv' /\ NotClosedUnderUse' /\ StreamInv' /\ OwnResponse'
      BY <2>1, <2>2, CountStep, LifeStep, LateStep, StreamStep, OwnStep DEF Inv
    <3>2. refcount' \in 0..Cardinality(Users)
      <4>1. IsFiniteSet(Holders') /\ Cardinality(Holders') \in 0..Cardinality(Users)
        BY SomeUsers DEF Holders
      <4>2. QED BY <3>1, <4>1 DEF RefCounted
    <3>3. TypeOK'
      BY <2>1, <3>2 DEF TypeOK, Typed, States
    <3>4. QED BY <3>1, <3>3 DEF Inv
  <2>3. CASE UNCHANGED vars
    <3>1. UNCHANGED <<created, strays, client, parentEnds, lastId, toServer, toClient, serving,
                      overlap, desync, late, phase, command, answer, open>>
      BY <2>3 DEF vars, made, history, process
    <3>2. Holders' = Holders
      BY <3>1 DEF client, Holders
    <3>3. RefCounted' /\ TypeOK'
      BY <3>1, <3>2, <2>1 DEF client, RefCounted, Inv, TypeOK, Typed, States
    <3>4. LifeInv' /\ NotClosedUnderUse' /\ OwnResponse'
      BY <3>1 DEF client, LifeInv, Inv, NotClosedUnderUse, CloseBegun, OwnResponse, InStep
    <3>5. StreamInv'
      BY <2>1, <3>1, StreamFrame DEF client, Inv, InStep
    <3>6. QED BY <3>3, <3>4, <3>5 DEF Inv
  <2>4. QED BY <2>2, <2>3
<1>3. QED BY <1>1, <1>2, PTL DEF Spec

\* The state predicate TypeOK holds in every reachable state; with it, refcount is
\* neither negative nor more than the users.
THEOREM TypeCorrect == Spec => []TypeOK
BY InvHolds, PTL DEF Inv

\* As long as callers keep their Do apart and no response is too long, a Do gets
\* the response to its own request (iodin.go:100).
THEOREM ResponsesOwned == Spec => []OwnResponse
BY InvHolds, PTL DEF Inv

\* Then a Do starts from empty pipes, too, whatever became of the process.
THEOREM PipesAreDrained == Spec => []PipesDrained
<1>1. Inv => PipesDrained
  BY DEF Inv, StreamInv, PipesDrained, Rest
<1>2. QED BY <1>1, InvHolds, PTL

\* However users close, and even two at once: when all are gone, so is the process.
THEOREM NoProcessIsLeft == Spec => []NoProcessLeft
<1>1. Inv => NoProcessLeft
  BY DEF Inv, LifeInv, NoProcessLeft
<1>2. QED BY <1>1, InvHolds, PTL

\* From the call of Close on, whoever holds a reference took it after that call, for
\* any number of users and however many of them close (iodin.go:84-98).
THEOREM NotClosedUnder == Spec => []NotClosedUnderUse
BY InvHolds, PTL DEF Inv
=============================================================================
