----------------------------- MODULE LifeProofs -----------------------------
(***************************************************************************)
(* Proof that the modem task, the receive task and the application calls   *)
(* together implement SocketLife: every step answers Connect(), closes,    *)
(* creates, releases or destroys a socket as promised there, or changes    *)
(* nothing the application can tell.                                       *)
(***************************************************************************)
EXTENDS WakeProofs

\* What the application sees of s, the record SocketLife keeps of it.
Stage(s) ==
  IF s \notin Listed(sockets) THEN "free"
  ELSE IF Sock!IsClosed(flags[s]) THEN "closed"
  ELSE IF Sock!IsConnected(flags[s]) THEN "connected"
  ELSE "pending"

Held(s) == "AppReference" \in flags[s]

\* The task is in the call that opens s's connection.
Opening(s) == pc = "ConnectImpl" /\ cur = s

\* The modem holds a socket it has a connection for, unless it was told that
\* the socket is closed, and it holds one that was told it is connected, or is
\* about to: no sweep destroys a socket that IsConnected().
LifeInv ==
  \A s \in Socket :
    /\ link[s] # "idle" =>
         \/ "ModemReference" \in flags[s] \/ Sock!IsClosed(flags[s])
         \/ Opening(s)
    /\ Sock!IsConnected(flags[s]) =>
         \/ "ModemReference" \in flags[s]
         \/ Opening(s) /\ "ModemConnecting" \notin flags[s]

-----------------------------------------------------------------------------
(* Flag words                                                              *)

\* The application cannot tell the words f and g apart.
SameLife(f, g) ==
  /\ Sock!IsClosed(g) <=> Sock!IsClosed(f)
  /\ Sock!IsConnected(g) <=> Sock!IsConnected(f)
  /\ "AppReference" \in g <=> "AppReference" \in f
  /\ "ModemReference" \in f => "ModemReference" \in g

\* Most updates are of this kind, ...
LEMMA QuietUpdates ==
  ASSUME NEW f
  PROVE  /\ SameLife(f, f)
         /\ SameLife(f, Sock!Allocate(f))
         /\ SameLife(f, f \cup {"ModemConnecting"})
         /\ SameLife(f, Sock!Allocate(f) \cup {"ModemConnecting"})
         /\ SameLife(f, f \cup {"ModemClosing"})
         /\ SameLife(f, Sock!Bound(f))
         /\ SameLife(f, Sock!Incoming(f))
         /\ SameLife(f, Sock!MaybeIncoming(f))
         /\ SameLife(f, Sock!IncomingRequested(f))
         /\ SameLife(f, Sock!Sending(f))
         /\ SameLife(f, Sock!SendingFinished(f))
         /\ SameLife(f, Sock!CloseRequested(f))
<1> USE DEF SameLife, Sock!IsClosed, Sock!IsConnected
<1>1. /\ SameLife(f, f)
      /\ SameLife(f, Sock!Allocate(f))
      /\ SameLife(f, f \cup {"ModemConnecting"})
      /\ SameLife(f, Sock!Allocate(f) \cup {"ModemConnecting"})
      /\ SameLife(f, f \cup {"ModemClosing"})
  BY DEF Sock!Allocate
<1>2. SameLife(f, Sock!Bound(f)) /\ SameLife(f, Sock!Incoming(f))
  BY DEF Sock!Bound, Sock!Incoming
<1>3. /\ SameLife(f, Sock!MaybeIncoming(f))
      /\ SameLife(f, Sock!IncomingRequested(f))
  BY DEF Sock!MaybeIncoming, Sock!IncomingRequested
<1>4. /\ SameLife(f, Sock!Sending(f))
      /\ SameLife(f, Sock!SendingFinished(f))
      /\ SameLife(f, Sock!CloseRequested(f))
  BY DEF Sock!Sending, Sock!SendingFinished, Sock!CloseRequested
<1> QED
  BY <1>1, <1>2, <1>3, <1>4

\* ... the others are the steps of a socket's life.
LEMMA LifeUpdates ==
  ASSUME NEW f
  PROVE  /\ Sock!IsClosed(Sock!Finished(f))
         /\ "AppReference" \in Sock!Finished(f) <=> "AppReference" \in f
         /\ ~Sock!IsClosed(f) => Sock!IsConnected(Sock!Connected(f))
         /\ Sock!IsClosed(Sock!Connected(f)) <=> Sock!IsClosed(f)
         /\ "AppReference" \in Sock!Connected(f) <=> "AppReference" \in f
         /\ "ModemReference" \in f => "ModemReference" \in Sock!Connected(f)
         /\ "ModemConnecting" \notin Sock!Connected(f)
         /\ Sock!IsClosed(Sock!Released(f)) <=> Sock!IsClosed(f)
         /\ Sock!IsConnected(Sock!Released(f)) <=> Sock!IsConnected(f)
         /\ "ModemReference" \in f => "ModemReference" \in Sock!Released(f)
         /\ "AppReference" \notin Sock!Released(f)
         /\ \A tls : /\ ~Sock!IsClosed(Sock!NewSocket(tls))
                     /\ ~Sock!IsConnected(Sock!NewSocket(tls))
                     /\ "AppReference" \in Sock!NewSocket(tls)
         /\ Sock!IsClosed(f) => ~Sock!IsConnected(f)
         /\ Sock!CanDelete(f) =>
              "AppReference" \notin f /\ "ModemReference" \notin f
         /\ ~Sock!IsClosed({}) /\ ~Sock!IsConnected({})
<1> USE DEF Sock!IsClosed, Sock!IsConnected
<1>1. /\ Sock!IsClosed(Sock!Finished(f))
      /\ "AppReference" \in Sock!Finished(f) <=> "AppReference" \in f
      /\ ~Sock!IsClosed(f) => Sock!IsConnected(Sock!Connected(f))
      /\ Sock!IsClosed(Sock!Connected(f)) <=> Sock!IsClosed(f)
      /\ "AppReference" \in Sock!Connected(f) <=> "AppReference" \in f
      /\ "ModemReference" \in f => "ModemReference" \in Sock!Connected(f)
      /\ "ModemConnecting" \notin Sock!Connected(f)
  BY DEF Sock!Finished, Sock!Connected
<1>2. /\ Sock!IsClosed(Sock!Released(f)) <=> Sock!IsClosed(f)
      /\ Sock!IsConnected(Sock!Released(f)) <=> Sock!IsConnected(f)
      /\ "ModemReference" \in f => "ModemReference" \in Sock!Released(f)
      /\ "AppReference" \notin Sock!Released(f)
  BY DEF Sock!Released
<1>3. \A tls : /\ ~Sock!IsClosed(Sock!NewSocket(tls))
               /\ ~Sock!IsConnected(Sock!NewSocket(tls))
               /\ "AppReference" \in Sock!NewSocket(tls)
  BY DEF Sock!NewSocket
<1>4. /\ Sock!IsClosed(f) => ~Sock!IsConnected(f)
      /\ Sock!CanDelete(f) =>
           "AppReference" \notin f /\ "ModemReference" \notin f
      /\ ~Sock!IsClosed({}) /\ ~Sock!IsConnected({})
  BY DEF Sock!CanDelete
<1> QED
  BY <1>1, <1>2, <1>3, <1>4

-----------------------------------------------------------------------------
(* The steps the application cannot tell                                   *)

Quietly == sockets' = sockets /\ \A s \in Socket : SameLife(flags[s], flags'[s])

\* The calls, the events and the points of a pass that close, connect, create,
\* release or destroy nothing.
QuietStep ==
  \/ \E s \in Socket :
       \/ Disconnect(s) \/ WriteOutput(s)
       \/ OnIncoming(s) \/ OnMaybeIncoming(s) \/ OnData(s)
  \/ \E m \in Message : SendMessage(m) \/ ReleaseMessage(m)
  \/ RemoveMessage \/ NothingToDo
  \/ PowerOn \/ PowerOnFailed \/ RetryPowerOn \/ PoweredOn
  \/ Started \/ StartFailed \/ SimUnlocked \/ NetworkConnected \/ BringUpFailed
  \/ AcquireProcess \/ CloseSocket \/ CloseLoopEnds \/ SocketsRemoved
  \/ ConnectSocket \/ StartSend \/ ProcessLoopEnds \/ StartSendMessage
  \/ SubmitMessage \/ MessageLoopEnds \/ MessagesRemoved \/ EndPass \/ Resume
  \/ \E room \in BOOLEAN : StartReceive(room) \/ StartCheck(room)
  \/ \E r \in Result :
       \/ CloseReturns(r) \/ SendReturns(r) \/ ReceiveReturns(r)
       \/ CheckReturns(r) \/ SendMessageReturns(r) \/ NetworkDisconnected(r)
  \/ PoweredOff \/ TaskEnds \/ IdleTimeout
  \/ \E accepted \in BOOLEAN : OnSendResponse(accepted)
  \/ OnMessageReference \/ MoveData \/ RxStops
  \/ \E s \in Socket : OpenFailsUnheard(s)
  \/ Device \/ UNCHANGED vars

\* A step that gives s an equivalent word is quiet.
LEMMA OneWord ==
  ASSUME TypeOK, NEW s, NEW f, SameLife(flags[s], f), sockets' = sockets,
         flags' \in {flags, [flags EXCEPT ![s] = f]}
  PROVE  Quietly
<1>1. \A t \in Socket : SameLife(flags[t], flags[t])
  BY QuietUpdates
<1> QED
  BY <1>1 DEF Quietly, TypeOK

\* The steps of QuietStep are.
LEMMA QuietSteps ==
  ASSUME TypeOK, QuietStep PROVE Quietly
<1>1. ASSUME UNCHANGED <<sockets, flags>> PROVE Quietly
  BY <1>1, QuietUpdates DEF Quietly
<1>2. ASSUME NEW s \in Socket, Disconnect(s) PROVE Quietly
  BY <1>2, OneWord, QuietUpdates DEF Disconnect
<1>3. ASSUME NEW s \in Socket, OnIncoming(s) PROVE Quietly
  BY <1>3, OneWord, QuietUpdates DEF OnIncoming, Notify
<1>4. ASSUME NEW s \in Socket, OnMaybeIncoming(s) PROVE Quietly
  BY <1>4, OneWord, QuietUpdates DEF OnMaybeIncoming, Notify
<1>5. ASSUME NEW s \in Socket, OnData(s) PROVE Quietly
  BY <1>5, OneWord, QuietUpdates DEF OnData
<1>6. ASSUME CloseSocket PROVE Quietly
  BY <1>6, OneWord, QuietUpdates DEF CloseSocket
<1>7. ASSUME ConnectSocket PROVE Quietly
  BY <1>7, OneWord, QuietUpdates DEF ConnectSocket
<1>8. ASSUME StartSend PROVE Quietly
  BY <1>8, OneWord, QuietUpdates DEF StartSend
<1>9. ASSUME NEW room, StartReceive(room) \/ StartCheck(room) PROVE Quietly
  BY <1>9, OneWord, QuietUpdates DEF StartReceive, StartCheck
<1>10. ASSUME NEW r, SendReturns(r) PROVE Quietly
  BY <1>10, OneWord, QuietUpdates DEF SendReturns
<1>11. ASSUME NEW accepted, OnSendResponse(accepted) PROVE Quietly
  BY <1>11, OneWord, QuietUpdates DEF OnSendResponse
<1>12. ASSUME \/ \E s \in Socket : WriteOutput(s)
              \/ \E m \in Message : SendMessage(m) \/ ReleaseMessage(m)
              \/ RemoveMessage \/ NothingToDo \/ PowerOn \/ PowerOnFailed
              \/ RetryPowerOn \/ PoweredOn \/ Started \/ StartFailed
              \/ SimUnlocked \/ NetworkConnected \/ BringUpFailed
       PROVE  Quietly
  BY <1>1, <1>12 DEF WriteOutput, SendMessage, ReleaseMessage, RemoveMessage,
     NothingToDo, PowerOn, PowerOnFailed, RetryPowerOn, PoweredOn, Started,
     StartFailed, SimUnlocked, NetworkConnected, BringUpFailed, listVars,
     socketVars
<1>13. ASSUME \/ AcquireProcess \/ CloseLoopEnds \/ SocketsRemoved
              \/ ProcessLoopEnds \/ StartSendMessage \/ SubmitMessage
              \/ MessageLoopEnds \/ MessagesRemoved \/ EndPass \/ Resume
              \/ \E r \in Result :
                   \/ CloseReturns(r) \/ ReceiveReturns(r) \/ CheckReturns(r)
                   \/ SendMessageReturns(r) \/ NetworkDisconnected(r)
       PROVE  Quietly
  BY <1>1, <1>13 DEF AcquireProcess, CloseLoopEnds, SocketsRemoved,
     ProcessLoopEnds, StartSendMessage, SubmitMessage, MessageLoopEnds,
     MessagesRemoved, EndPass, Resume, CloseReturns, ReceiveReturns,
     CheckReturns, SendMessageReturns, NetworkDisconnected, listVars,
     socketVars
<1>14. ASSUME \/ PoweredOff \/ TaskEnds \/ IdleTimeout \/ OnMessageReference
              \/ MoveData \/ RxStops \/ Device \/ UNCHANGED vars
              \/ \E s \in Socket : OpenFailsUnheard(s)
       PROVE  Quietly
  BY <1>1, <1>14 DEF PoweredOff, TaskEnds, IdleTimeout, OnMessageReference,
     MoveData, RxStops, OpenFailsUnheard, Device, TakeOpenRequest,
     TakeCloseRequest, PeerSends, vars,
     listVars, socketVars
<1> QED
  BY <1>2, <1>3, <1>4, <1>5, <1>6, <1>7, <1>8, <1>9, <1>10, <1>11, <1>12,
     <1>13, <1>14 DEF QuietStep

\* All the other steps.
LEMMA LifeSteps ==
  ASSUME [Next]_vars
  PROVE  \/ QuietStep
         \/ \E s \in Socket :
              \/ \E tls \in Security : CreateSocket(s, tls)
              \/ ReleaseSocket(s) \/ OnConnected(s) \/ OnDisconnected(s)
         \/ Preprocess \/ RemoveSocket \/ PowerOnFailedAgain \/ FinishSockets
         \/ \E r \in Result : ConnectReturns(r)
<1>1. App \/ StartUp \/ Pass \/ ShutDown \/ RxTask \/ Device \/ IdleTimeout
        \/ UNCHANGED vars
  BY DEF Next, Task
<1> QED
  BY <1>1 DEF QuietStep, App, StartUp, Pass, ShutDown, RxTask

\* An element of a list without repetitions is gone once it is removed.
LEMMA RemovedGone ==
  ASSUME NEW S, NEW q \in Seq(S), NEW i \in DOMAIN q, IsInjective(q)
  PROVE  q[i] \notin ToSet(RemoveAt(q, i))
<1>1. i \in 1..Len(q) /\ Len(q) \in Nat
  OBVIOUS
<1> DEFINE left == SubSeq(q, 1, i - 1)
           right == SubSeq(q, i + 1, Len(q))
<1>2. /\ left \in Seq(S) /\ Len(left) = i - 1
      /\ right \in Seq(S) /\ Len(right) = Len(q) - i
      /\ \A k \in 1..(i - 1) : left[k] = q[k]
      /\ \A k \in 1..(Len(q) - i) : right[k] = q[i + k]
  BY <1>1
<1>3. RemoveAt(q, i) = left \o right
  BY DEF RemoveAt
<1> HIDE DEF left, right
<1>4. \A x \in ToSet(left \o right) : x \in ToSet(left) \cup ToSet(right)
  BY <1>2 DEF ToSet
<1>5. \A k \in DOMAIN q : k # i => q[k] # q[i]
  BY DEF IsInjective
<1>6. q[i] \notin ToSet(left)
  <2>1. \A k \in DOMAIN left : k \in 1..(i - 1)
    BY <1>2
  <2>2. \A k \in 1..(i - 1) : k \in DOMAIN q /\ k # i
    BY <1>1
  <2>3. \A k \in DOMAIN left : left[k] # q[i]
    BY <1>2, <1>5, <2>1, <2>2
  <2> QED
    BY <2>3 DEF ToSet
<1>7. q[i] \notin ToSet(right)
  <2>1. \A k \in DOMAIN right : k \in 1..(Len(q) - i)
    BY <1>2
  <2>2. \A k \in 1..(Len(q) - i) : i + k \in DOMAIN q /\ i + k # i
    BY <1>1
  <2>3. \A k \in DOMAIN right : right[k] # q[i]
    BY <1>2, <1>5, <2>1, <2>2
  <2> QED
    BY <2>3 DEF ToSet
<1> QED
  BY <1>3, <1>4, <1>6, <1>7

-----------------------------------------------------------------------------
(* LifeInv is inductive                                                    *)

\* The call that opens a connection goes on.
OpeningGoesOn ==
  pc = "ConnectImpl" =>
    /\ pc' = pc /\ cur' = cur
    /\ "ModemConnecting" \notin flags[cur] =>
         "ModemConnecting" \notin flags'[cur]

\* What a step may do to s and its connection.
HoldKept(s) ==
  \/ Sock!IsClosed(flags'[s])
  \/ link'[s] = "idle" /\ ~Sock!IsConnected(flags'[s])
  \/ /\ link'[s] # "idle" => link[s] # "idle"
     /\ Sock!IsConnected(flags'[s]) => Sock!IsConnected(flags[s])
     /\ Sock!IsClosed(flags[s]) => Sock!IsClosed(flags'[s])
     /\ "ModemReference" \in flags[s] => "ModemReference" \in flags'[s]

\* Such steps keep LifeInv.
LEMMA HoldsKept ==
  ASSUME LifeInv, OpeningGoesOn, \A s \in Socket : HoldKept(s)
  PROVE  LifeInv'
<1>1. \A f : Sock!IsClosed(f) => ~Sock!IsConnected(f)
  BY LifeUpdates
<1>2. \A s : Opening(s) => Opening(s)'
  BY DEF OpeningGoesOn, Opening
<1>3. \A s : Opening(s) /\ "ModemConnecting" \notin flags[s] =>
               "ModemConnecting" \notin flags'[s]
  BY DEF OpeningGoesOn, Opening
<1>4. ASSUME NEW s \in Socket
      PROVE  /\ (link[s] # "idle" =>
                   \/ "ModemReference" \in flags[s]
                   \/ Sock!IsClosed(flags[s]) \/ Opening(s))'
             /\ (Sock!IsConnected(flags[s]) =>
                   \/ "ModemReference" \in flags[s]
                   \/ Opening(s) /\ "ModemConnecting" \notin flags[s])'
  <2>1. CASE Sock!IsClosed(flags'[s])
    BY <1>1, <2>1
  <2>2. CASE link'[s] = "idle" /\ ~Sock!IsConnected(flags'[s])
    BY <2>2
  <2>3. CASE /\ link'[s] # "idle" => link[s] # "idle"
             /\ Sock!IsConnected(flags'[s]) => Sock!IsConnected(flags[s])
             /\ Sock!IsClosed(flags[s]) => Sock!IsClosed(flags'[s])
             /\ "ModemReference" \in flags[s] =>
                  "ModemReference" \in flags'[s]
    BY <1>2, <1>3, <2>3 DEF LifeInv
  <2> QED
    BY <2>1, <2>2, <2>3 DEF HoldKept
<1> QED
  BY <1>4 DEF LifeInv

\* The steps the application cannot tell give the modem nothing to hold.
LEMMA QuietHolds ==
  ASSUME TypeOK, TaskInv, FrameInv, LifeInv, QuietStep, ~TakeOpenRequest
  PROVE  LifeInv'
<1>1. Quietly
  BY QuietSteps
<1>2. \A s \in Socket : link'[s] # "idle" => link[s] # "idle"
  <2>1. \/ link' = link
        \/ link' = [s \in Socket |-> "idle"]
        \/ link[cur] # "idle" /\ link' = [link EXCEPT ![cur] = "closing"]
        \/ \E s \in Socket : link' = [link EXCEPT ![s] = "idle"]
    BY DEF QuietStep, Disconnect, WriteOutput, OnIncoming, OnMaybeIncoming,
       OnData, SendMessage, ReleaseMessage, RemoveMessage, NothingToDo,
       PowerOn, PowerOnFailed, RetryPowerOn, PoweredOn, Started, StartFailed,
       SimUnlocked, NetworkConnected, BringUpFailed, AcquireProcess,
       CloseSocket, CloseLoopEnds, SocketsRemoved, ConnectSocket, StartSend,
       ProcessLoopEnds, StartSendMessage, SubmitMessage, MessageLoopEnds,
       MessagesRemoved, EndPass, Resume, StartReceive, StartCheck,
       CloseReturns, SendReturns, ReceiveReturns, CheckReturns,
       SendMessageReturns, NetworkDisconnected, PoweredOff, TaskEnds,
       IdleTimeout, OnSendResponse, OnMessageReference, MoveData, RxStops,
       Device, TakeCloseRequest, PeerSends, OpenFailsUnheard, vars, envVars,
       deviceVars
  <2> QED
    BY <2>1 DEF TypeOK
<1>3. \A s \in Socket : HoldKept(s)
  BY <1>1, <1>2 DEF Quietly, SameLife, HoldKept
<1>4. ASSUME pc = "ConnectImpl"
      PROVE  /\ pc' = pc /\ cur' = cur
             /\ "ModemConnecting" \notin flags[cur] =>
                  "ModemConnecting" \notin flags'[cur]
  <2>1. \/ \E s \in Socket :
             \/ Disconnect(s) \/ WriteOutput(s)
             \/ OnIncoming(s) \/ OnMaybeIncoming(s) \/ OnData(s)
             \/ OpenFailsUnheard(s) \/ PeerSends(s)
        \/ \E m \in Message : SendMessage(m) \/ ReleaseMessage(m)
        \/ MoveData \/ UNCHANGED vars
    BY <1>4 DEF QuietStep, RemoveMessage, NothingToDo, OldDestroyed, PowerOn,
       PowerOnFailed, RetryPowerOn, PoweredOn, Started, StartFailed,
       SimUnlocked, NetworkConnected, BringUpFailed, AcquireProcess,
       CloseSocket, CloseLoopEnds, SocketsRemoved, ConnectSocket, StartSend,
       ProcessLoopEnds, StartSendMessage, SubmitMessage, MessageLoopEnds,
       MessagesRemoved, EndPass, Resume, StartReceive, StartCheck,
       CloseReturns, SendReturns, ReceiveReturns, CheckReturns,
       SendMessageReturns, NetworkDisconnected, PoweredOff, TaskEnds,
       IdleTimeout, OnSendResponse, OnMessageReference, RxStops, Device,
       TakeCloseRequest
  <2>2. pc' = pc /\ cur' = cur
    BY <1>4, <2>1 DEF Disconnect, WriteOutput, OnIncoming, OnMaybeIncoming,
       OnData, OpenFailsUnheard, PeerSends, SendMessage, ReleaseMessage,
       MoveData, EnsureRunning, TaskInv, frameVars, vars
  <2>3. \A s \in Socket : "ModemConnecting" \notin flags[s] =>
                            "ModemConnecting" \notin flags'[s]
    <3>1. ASSUME NEW s \in Socket, NEW f,
                 flags' \in {flags, [flags EXCEPT ![s] = f]},
                 "ModemConnecting" \in f => "ModemConnecting" \in flags[s]
          PROVE  \A t \in Socket : "ModemConnecting" \notin flags[t] =>
                                     "ModemConnecting" \notin flags'[t]
      BY <3>1 DEF TypeOK
    <3>2. ASSUME UNCHANGED flags
          PROVE  \A t \in Socket : "ModemConnecting" \notin flags[t] =>
                                     "ModemConnecting" \notin flags'[t]
      BY <3>2
    <3>3. \A f : /\ "ModemConnecting" \in Sock!CloseRequested(f) =>
                      "ModemConnecting" \in f
                 /\ "ModemConnecting" \in Sock!Incoming(f) =>
                      "ModemConnecting" \in f
                 /\ "ModemConnecting" \in Sock!MaybeIncoming(f) =>
                      "ModemConnecting" \in f
      BY DEF Sock!CloseRequested, Sock!Incoming, Sock!MaybeIncoming
    <3>4. ASSUME NEW s \in Socket, Disconnect(s)
          PROVE  \A t \in Socket : "ModemConnecting" \notin flags[t] =>
                                     "ModemConnecting" \notin flags'[t]
      BY <3>1, <3>3, <3>4 DEF Disconnect
    <3>5. ASSUME NEW s \in Socket, OnIncoming(s)
          PROVE  \A t \in Socket : "ModemConnecting" \notin flags[t] =>
                                     "ModemConnecting" \notin flags'[t]
      BY <3>1, <3>3, <3>5 DEF OnIncoming, Notify
    <3>6. ASSUME NEW s \in Socket, OnMaybeIncoming(s) \/ OnData(s)
          PROVE  \A t \in Socket : "ModemConnecting" \notin flags[t] =>
                                     "ModemConnecting" \notin flags'[t]
      BY <3>1, <3>3, <3>6 DEF OnMaybeIncoming, OnData, Notify
    <3> QED
      BY <2>1, <3>2, <3>4, <3>5, <3>6 DEF WriteOutput, OpenFailsUnheard,
         PeerSends, SendMessage, ReleaseMessage, MoveData, vars, listVars,
         socketVars
  <2>4. cur \in Socket
    BY <1>4, ListTypes DEF FrameInv, OnSocket, TypeOK, Listed
  <2> QED
    BY <2>2, <2>3, <2>4
<1> QED
  BY <1>3, <1>4, HoldsKept DEF OpeningGoesOn

\* A flag word changes for s alone, in a step that leaves the call that opens
\* a connection as it is.
LEMMA OneHold ==
  ASSUME TypeOK, FrameInv, LifeInv, NEW s \in Socket, NEW f,
         flags' \in {flags, [flags EXCEPT ![s] = f]},
         "ModemConnecting" \in f => "ModemConnecting" \in flags[s],
         \A t \in Socket : link'[t] # "idle" => link[t] # "idle",
         pc = "ConnectImpl" => pc' = pc /\ cur' = cur,
         HoldKept(s)
  PROVE  LifeInv'
<1>1. pc = "ConnectImpl" => cur \in Socket
  BY ListTypes DEF FrameInv, OnSocket, TypeOK, Listed
<1>2. OpeningGoesOn
  BY <1>1 DEF OpeningGoesOn, TypeOK
<1>3. \A t \in Socket : HoldKept(t)
  BY DEF HoldKept, TypeOK
<1> QED
  BY <1>2, <1>3, HoldsKept

\* The steps of a socket's life.
LEMMA LifeHolds ==
  ASSUME Inv, Inv', OwnerInv, OwnerInv', LifeInv, ListedOnce, [Next]_vars
  PROVE  LifeInv'
<1> USE DEF Inv
<1>1. ASSUME NEW s \in Socket, NEW tls \in Security, CreateSocket(s, tls)
      PROVE  LifeInv'
  <2>1. /\ flags' = [flags EXCEPT ![s] = Sock!NewSocket(tls)]
        /\ link' = link
        /\ pc = "ConnectImpl" => pc' = pc /\ cur' = cur
    BY <1>1 DEF CreateSocket, EnsureRunning, TaskInv, frameVars, envVars,
       deviceVars
  <2>2. flags'[s] = Sock!NewSocket(tls) /\ link[s] = "idle"
    BY <1>1, <2>1 DEF CreateSocket, OwnerInv, InUse, TypeOK
  <2>3. HoldKept(s)
    BY <2>1, <2>2, LifeUpdates DEF HoldKept
  <2>4. \A t \in Socket : t # s => flags'[t] = flags[t] /\ HoldKept(t)
    BY <2>1 DEF HoldKept, TypeOK
  <2>5. "ModemConnecting" \notin flags'[s]
    BY <2>2 DEF Sock!NewSocket
  <2>6. pc = "ConnectImpl" => cur \in Socket
    BY ListTypes DEF FrameInv, OnSocket, TypeOK, Listed
  <2>7. OpeningGoesOn
    BY <2>1, <2>4, <2>5, <2>6 DEF OpeningGoesOn
  <2> QED
    BY <2>3, <2>4, <2>7, HoldsKept
<1>2. ASSUME NEW s \in Socket, ReleaseSocket(s) PROVE LifeInv'
  <2> DEFINE f == Sock!Released(flags[s])
  <2>1. /\ flags' \in {flags, [flags EXCEPT ![s] = f]} /\ link' = link
        /\ pc = "ConnectImpl" => pc' = pc /\ cur' = cur
    BY <1>2 DEF ReleaseSocket, EnsureRunning, TaskInv, frameVars, envVars,
       deviceVars
  <2>2. "ModemConnecting" \in f => "ModemConnecting" \in flags[s]
    BY DEF Sock!Released
  <2>3. HoldKept(s)
    <3>1. flags'[s] = flags[s] \/ flags'[s] = f
      BY <2>1 DEF TypeOK
    <3> QED
      BY <2>1, <3>1, LifeUpdates DEF HoldKept
  <2> HIDE DEF f
  <2> QED
    BY <2>1, <2>2, <2>3, OneHold
<1>3. ASSUME NEW s \in Socket, OnDisconnected(s) PROVE LifeInv'
  <2> DEFINE f == Sock!Finished(flags[s])
  <2>1. /\ flags' \in {flags, [flags EXCEPT ![s] = f]}
        /\ link' = [link EXCEPT ![s] = "idle"]
        /\ pc' = pc /\ cur' = cur
    BY <1>3 DEF OnDisconnected, Notify, frameVars
  <2>2. "ModemConnecting" \notin f
    BY DEF Sock!Finished
  <2>3. HoldKept(s)
    <3>1. flags'[s] = flags[s] \/ flags'[s] = f
      BY <2>1 DEF TypeOK
    <3>2. link'[s] = "idle"
      BY <2>1 DEF TypeOK
    <3>3. Sock!IsClosed(f)
      BY LifeUpdates
    <3> QED
      BY <3>1, <3>2, <3>3 DEF HoldKept
  <2>4. \A t \in Socket : link'[t] # "idle" => link[t] # "idle"
    BY <2>1 DEF TypeOK
  <2> HIDE DEF f
  <2> QED
    BY <2>1, <2>2, <2>3, <2>4, OneHold
<1>4. ASSUME NEW s \in Socket, OnConnected(s) PROVE LifeInv'
  <2> DEFINE f == Sock!Connected(flags[s])
  <2>1. /\ flags' \in {flags, [flags EXCEPT ![s] = f]}
        /\ link[s] = "opening" /\ link' = [link EXCEPT ![s] = "open"]
        /\ pc' = pc /\ cur' = cur
    BY <1>4 DEF OnConnected, Notify, frameVars
  <2>2. \/ "ModemReference" \in flags[s] \/ Sock!IsClosed(flags[s])
        \/ Opening(s)
    BY <2>1 DEF LifeInv
  <2>3. CASE "ModemReference" \in flags[s] \/ Sock!IsClosed(flags[s])
    <3>1. \/ flags'[s] = flags[s]
          \/ flags'[s] = f
      BY <2>1 DEF TypeOK
    <3>2. \/ "ModemReference" \in flags'[s]
          \/ Sock!IsClosed(flags'[s]) /\ ~Sock!IsConnected(flags'[s])
      <4>1. CASE flags'[s] = flags[s]
        BY <2>3, <4>1, LifeUpdates
      <4>2. CASE flags'[s] = f
        <5>1. Sock!IsClosed(flags[s]) => Sock!IsClosed(f)
          BY LifeUpdates
        <5>2. "ModemReference" \in flags[s] => "ModemReference" \in f
          BY LifeUpdates
        <5>3. Sock!IsClosed(f) => ~Sock!IsConnected(f)
          BY LifeUpdates
        <5> QED
          BY <2>3, <4>2, <5>1, <5>2, <5>3
      <4> QED
        BY <3>1, <4>1, <4>2
    <3>3. "ModemConnecting" \notin f
      BY LifeUpdates
    <3>4. \A t \in Socket \ {s} : flags'[t] = flags[t] /\ link'[t] = link[t]
      BY <2>1 DEF TypeOK
    <3>5. \A t \in Socket : Opening(t)' <=> Opening(t)
      BY <2>1 DEF Opening
    <3> QED
      BY <3>2, <3>4, <3>5 DEF LifeInv
  <2>4. CASE Opening(s)
    <3>1. \A t \in Socket \ {s} : flags'[t] = flags[t] /\ link'[t] = link[t]
      BY <2>1 DEF TypeOK
    <3>2. \A t \in Socket : Opening(t)' <=> Opening(t)
      BY <2>1 DEF Opening
    <3>3. flags'[s] = flags[s] \/ flags'[s] = f
      BY <2>1 DEF TypeOK
    <3>4. "ModemConnecting" \notin f
      BY LifeUpdates
    <3> QED
      BY <2>4, <3>1, <3>2, <3>3, <3>4 DEF LifeInv
  <2> QED
    BY <2>2, <2>3, <2>4
<1>5. ASSUME NEW S \in SUBSET Socket, FinishAll(S),
             link' = link, pc # "ConnectImpl"
      PROVE  LifeInv'
  <2>1. \A s \in Socket : HoldKept(s)
    BY <1>5, LifeUpdates DEF FinishAll, HoldKept
  <2> QED
    BY <1>5, <2>1, HoldsKept DEF OpeningGoesOn
<1>6. ASSUME Preprocess \/ PowerOnFailedAgain \/ FinishSockets PROVE LifeInv'
  <2>1. link' = link /\ pc # "ConnectImpl"
    BY <1>6 DEF Preprocess, PowerOnFailedAgain, FinishSockets, envVars,
       deviceVars
  <2>2. PICK S \in SUBSET Socket : FinishAll(S)
    BY <1>6 DEF Preprocess, PowerOnFailedAgain, FinishSockets
  <2> QED
    BY <1>5, <2>1, <2>2
<1>7. ASSUME RemoveSocket PROVE LifeInv'
  <2>1. PICK i \in DOMAIN sockets : DeletableSocket(i) /\ DestroySocket(i)
    BY <1>7 DEF RemoveSocket
  <2> DEFINE s == sockets[i]
  <2>2. s \in Socket
    BY DEF TypeOK
  <2>3. /\ flags' = [flags EXCEPT ![s] = {}] /\ link' = link
        /\ sockets' = RemoveAt(sockets, i) /\ pc # "ConnectImpl"
    BY <1>7, <2>1 DEF RemoveSocket, DestroySocket, envVars, deviceVars
  <2>4. link'[s] = "idle"
    <3>1. s \notin Listed(sockets')
      BY <2>3, RemovedGone DEF TypeOK, ListedOnce, Listed
    <3> QED
      BY <2>2, <3>1 DEF OwnerInv, InUse, Listed
  <2>5. HoldKept(s)
    BY <2>2, <2>3, <2>4, LifeUpdates DEF HoldKept, TypeOK
  <2>6. \A t \in Socket \ {s} : flags'[t] = flags[t] /\ link'[t] = link[t]
    BY <2>3 DEF TypeOK
  <2> HIDE DEF s
  <2>7. \A t \in Socket : HoldKept(t)
    BY <2>5, <2>6 DEF HoldKept
  <2> QED
    BY <2>3, <2>7, HoldsKept DEF OpeningGoesOn
<1>8. ASSUME NEW r \in Result, ConnectReturns(r) PROVE LifeInv'
  <2>1. cur \in Socket
    BY <1>8, ListTypes DEF ConnectReturns, FrameInv, OnSocket, TypeOK, Listed
  <2>2. link' = link /\ pc = "ConnectImpl"
    BY <1>8 DEF ConnectReturns, envVars, deviceVars
  <2>3. \A s \in Socket \ {cur} : flags'[s] = flags[s] /\ ~Opening(s)
    BY <1>8 DEF ConnectReturns, Opening, TypeOK
  <2>4. \/ "ModemReference" \in flags'[cur]
        \/ Sock!IsClosed(flags'[cur]) /\ ~Sock!IsConnected(flags'[cur])
        \/ /\ link[cur] = "idle" /\ "ModemConnecting" \in flags[cur]
           /\ flags' = flags
    <3>1. CASE flags' = [flags EXCEPT ![cur] = Sock!Bound(@)]
      BY <2>1, <3>1 DEF TypeOK, Sock!Bound
    <3>2. CASE flags' = [flags EXCEPT ![cur] = Sock!Finished(@)]
      <4>1. flags'[cur] = Sock!Finished(flags[cur])
        BY <2>1, <3>2 DEF TypeOK
      <4> QED
        BY <4>1 DEF Sock!IsClosed, Sock!IsConnected, Sock!Finished
    <3>3. CASE ~OpenTaken /\ UNCHANGED flags
      BY <3>3 DEF OpenTaken
    <3> QED
      BY <1>8, <3>1, <3>2, <3>3 DEF ConnectReturns
  <2> QED
    BY <2>1, <2>2, <2>3, <2>4 DEF LifeInv
<1>9. ASSUME TakeOpenRequest PROVE LifeInv'
  <2>1. cur \in Socket
    BY <1>9, ListTypes DEF TakeOpenRequest, FrameInv, OnSocket, TypeOK, Listed
  <2> QED
    BY <1>9, <2>1 DEF TakeOpenRequest, LifeInv, Opening, TypeOK, listVars,
       socketVars, frameVars
<1>10. ASSUME QuietStep, ~TakeOpenRequest PROVE LifeInv'
  BY <1>10, QuietHolds
<1> QED
  BY <1>1, <1>2, <1>3, <1>4, <1>6, <1>7, <1>8, <1>9, <1>10, LifeSteps

-----------------------------------------------------------------------------
(* The steps of SocketLife                                                 *)

\* The sockets outside S are as they were.
OthersStay(S) ==
  \A s \in Socket \ S : Stage(s)' = Stage(s) /\ (Held(s)' <=> Held(s))

\* SocketLife's steps on Stage and Held.
LEMMA LifeActions ==
  /\ OthersStay({}) => UNCHANGED Life!lifeVars
  /\ \A s \in Socket : OthersStay({s}) =>
       /\ Stage(s) = "free" /\ Stage(s)' = "pending" /\ Held(s)' =>
            Life!Create(s)
       /\ Stage(s)' = Stage(s) /\ Held(s) /\ ~Held(s)' => Life!Release(s)
       /\ /\ Stage(s) = "pending" /\ Stage(s)' = "connected"
          /\ Held(s)' <=> Held(s)
          => Life!Connect(s)
       /\ /\ ~Held(s) /\ ~Held(s)'
          /\ Stage(s) \in {"pending", "closed"} /\ Stage(s)' = "free"
          => Life!Destroy({s})
  /\ \A S \in SUBSET Socket :
       /\ OthersStay(S)
       /\ \A s \in S : /\ Stage(s) # "free" /\ Stage(s)' = "closed"
                       /\ Held(s)' <=> Held(s)
       => Life!Close(S)
<1> USE DEF OthersStay
<1>1. OthersStay({}) => UNCHANGED Life!lifeVars
  BY DEF Life!lifeVars, Stage, Held
<1>2. ASSUME NEW s \in Socket, OthersStay({s})
      PROVE  /\ Stage(s) = "free" /\ Stage(s)' = "pending" /\ Held(s)' =>
                  Life!Create(s)
             /\ Stage(s)' = Stage(s) /\ Held(s) /\ ~Held(s)' =>
                  Life!Release(s)
             /\ /\ Stage(s) = "pending" /\ Stage(s)' = "connected"
                /\ Held(s)' <=> Held(s)
                => Life!Connect(s)
             /\ /\ ~Held(s) /\ ~Held(s)'
                /\ Stage(s) \in {"pending", "closed"} /\ Stage(s)' = "free"
                => Life!Destroy({s})
  <2>1. ASSUME Stage(s) = "free", Stage(s)' = "pending", Held(s)'
        PROVE  Life!Create(s)
    BY <1>2, <2>1 DEF Life!Create, Stage, Held
  <2>2. ASSUME Stage(s)' = Stage(s), Held(s), ~Held(s)' PROVE Life!Release(s)
    BY <1>2, <2>2 DEF Life!Release, Stage, Held
  <2>3. ASSUME Stage(s) = "pending", Stage(s)' = "connected",
               Held(s)' <=> Held(s)
        PROVE  Life!Connect(s)
    BY <1>2, <2>3 DEF Life!Connect, Stage, Held
  <2>4. ASSUME ~Held(s), ~Held(s)', Stage(s) \in {"pending", "closed"},
               Stage(s)' = "free"
        PROVE  Life!Destroy({s})
    BY <1>2, <2>4 DEF Life!Destroy, Stage, Held
  <2> QED
    BY <2>1, <2>2, <2>3, <2>4
<1>3. ASSUME NEW S \in SUBSET Socket, OthersStay(S),
             \A s \in S : /\ Stage(s) # "free" /\ Stage(s)' = "closed"
                          /\ Held(s)' <=> Held(s)
      PROVE  Life!Close(S)
  BY <1>3 DEF Life!Close, Stage, Held
<1> QED
  BY <1>1, <1>2, <1>3

\* A step with the flag word of one listed socket changed.
LEMMA OneStage ==
  ASSUME TypeOK, NEW s \in Socket, NEW f, sockets' = sockets,
         flags' = [flags EXCEPT ![s] = f]
  PROVE  OthersStay({s}) /\ (s \in Listed(sockets)' <=> s \in Listed(sockets))
BY DEF OthersStay, Stage, Held, Listed, TypeOK

\* Finishing the listed sockets of S closes them.
LEMMA FinishCloses ==
  ASSUME TypeOK, NEW S \in SUBSET Socket, FinishAll(S), sockets' = sockets
  PROVE  \E F \in SUBSET Socket : Life!Close(F)
<1>1. PICK F \in SUBSET Socket : F = Listed(sockets) \cap S
  OBVIOUS
<1>2. OthersStay(F)
  BY <1>1 DEF FinishAll, OthersStay, Stage, Held, Listed
<1>3. \A s \in F : /\ Stage(s) # "free" /\ Stage(s)' = "closed"
                   /\ Held(s)' <=> Held(s)
  <2>1. \A s \in F : /\ flags'[s] = Sock!Finished(flags[s])
                    /\ s \in Listed(sockets)
    BY <1>1 DEF FinishAll
  <2>2. \A s \in F : Stage(s)' = "closed" /\ (Held(s)' <=> Held(s))
    BY <2>1, LifeUpdates DEF Stage, Held, Listed
  <2> QED
    BY <2>1, <2>2 DEF Stage
<1> QED
  BY <1>1, <1>2, <1>3, LifeActions

\* Every step of the modem is a step of SocketLife or changes nothing there.
LEMMA LifeStep ==
  ASSUME TypeOK, FrameInv, LifeInv, ListedOnce, [Next]_vars
  PROVE  [Life!Next]_(Life!lifeVars)
<1> USE DEF Life!Next
<1>1. ASSUME QuietStep PROVE UNCHANGED Life!lifeVars
  <2>1. Quietly
    BY <1>1, QuietSteps
  <2>2. OthersStay({})
    BY <2>1 DEF Quietly, SameLife, OthersStay, Stage, Held, Listed
  <2> QED
    BY <2>2, LifeActions
<1>2. ASSUME NEW s \in Socket, NEW tls \in Security, CreateSocket(s, tls)
      PROVE  Life!Create(s)
  <2> DEFINE f == Sock!NewSocket(tls)
  <2>1. /\ flags' = [flags EXCEPT ![s] = f]
        /\ s \notin Listed(sockets)
        /\ Listed(sockets)' = Listed(sockets) \cup {s}
    BY <1>2, ListTypes DEF CreateSocket, Listed, TypeOK
  <2>2. OthersStay({s})
    BY <2>1 DEF OthersStay, Stage, Held, TypeOK
  <2>3. Stage(s) = "free" /\ Stage(s)' = "pending" /\ Held(s)'
    <3>1. flags'[s] = f
      BY <2>1 DEF TypeOK
    <3>2. ~Sock!IsClosed(f) /\ ~Sock!IsConnected(f) /\ "AppReference" \in f
      BY LifeUpdates
    <3> QED
      BY <2>1, <3>1, <3>2 DEF Stage, Held
  <2> QED
    BY <2>2, <2>3, LifeActions
<1>3. ASSUME NEW s \in Socket, ReleaseSocket(s) PROVE Life!Release(s)
  <2> DEFINE f == Sock!Released(flags[s])
  <2>1. /\ flags' = [flags EXCEPT ![s] = f] /\ sockets' = sockets /\ Held(s)
    BY <1>3 DEF ReleaseSocket, Held
  <2>2. OthersStay({s}) /\ Listed(sockets)' = Listed(sockets)
    BY <2>1, OneStage DEF Listed
  <2>3. flags'[s] = f
    BY <2>1 DEF TypeOK
  <2>4. Stage(s)' = Stage(s) /\ ~Held(s)'
    BY <2>2, <2>3, LifeUpdates DEF Stage, Held
  <2> QED
    BY <2>1, <2>2, <2>4, LifeActions
<1>4. ASSUME NEW s \in Socket, OnConnected(s)
      PROVE  Life!Connect(s) \/ UNCHANGED Life!lifeVars
  <2> DEFINE f == Sock!Connected(flags[s])
  <2>1. /\ flags' \in {flags, [flags EXCEPT ![s] = f]} /\ sockets' = sockets
        /\ flags' # flags => s \in Listed(sockets)
    BY <1>4 DEF OnConnected, Notify, Found
  <2>2. Listed(sockets)' = Listed(sockets)
    BY <2>1 DEF Listed
  <2>3. OthersStay({s})
    BY <2>1 DEF OthersStay, Stage, Held, Listed, TypeOK
  <2>4. /\ Sock!IsClosed(f) <=> Sock!IsClosed(flags[s])
        /\ ~Sock!IsClosed(flags[s]) => Sock!IsConnected(f)
        /\ "AppReference" \in f <=> "AppReference" \in flags[s]
    BY LifeUpdates
  <2>5. flags'[s] = flags[s] \/ (flags'[s] = f /\ s \in Listed(sockets))
    BY <2>1 DEF TypeOK
  <2>6. /\ \/ Stage(s)' = Stage(s)
           \/ Stage(s) = "pending" /\ Stage(s)' = "connected"
        /\ Held(s)' <=> Held(s)
    BY <2>2, <2>4, <2>5 DEF Stage, Held
  <2>7. CASE Stage(s)' = Stage(s)
    <3>1. OthersStay({})
      BY <2>3, <2>6, <2>7 DEF OthersStay
    <3> QED
      BY <3>1, LifeActions
  <2>8. CASE Stage(s) = "pending" /\ Stage(s)' = "connected"
    BY <2>3, <2>6, <2>8, LifeActions
  <2> QED
    BY <2>6, <2>7, <2>8
<1>5. ASSUME NEW s \in Socket, s \in Listed(sockets), sockets' = sockets,
             flags' = [flags EXCEPT ![s] = Sock!Finished(flags[s])]
      PROVE  Life!Close({s})
  <2>1. OthersStay({s}) /\ Listed(sockets)' = Listed(sockets)
    BY <1>5, OneStage DEF Listed
  <2>2. flags'[s] = Sock!Finished(flags[s])
    BY <1>5 DEF TypeOK
  <2>3. /\ Stage(s) # "free" /\ Stage(s)' = "closed"
        /\ Held(s)' <=> Held(s)
    BY <1>5, <2>1, <2>2, LifeUpdates DEF Stage, Held
  <2> QED
    BY <2>1, <2>3, LifeActions
<1>6. ASSUME NEW s \in Socket, OnDisconnected(s)
      PROVE  (\E S \in SUBSET Socket : Life!Close(S)) \/ UNCHANGED Life!lifeVars
  <2>1. CASE Found(s)
    <3>1. Life!Close({s})
      BY <1>5, <1>6, <2>1 DEF OnDisconnected, Notify, Found
    <3> QED
      BY <3>1
  <2>2. CASE ~Found(s)
    <3>1. UNCHANGED <<sockets, flags>>
      BY <1>6, <2>2 DEF OnDisconnected, Notify
    <3>2. OthersStay({})
      BY <3>1 DEF OthersStay, Stage, Held, Listed
    <3> QED
      BY <3>2, LifeActions
  <2> QED
    BY <2>1, <2>2
<1>7. ASSUME NEW r \in Result, ConnectReturns(r)
      PROVE  (\E S \in SUBSET Socket : Life!Close(S)) \/ UNCHANGED Life!lifeVars
  <2>1. cur \in Socket /\ cur \in Listed(sockets) /\ sockets' = sockets
    BY <1>7, ListTypes DEF ConnectReturns, FrameInv, OnSocket, TypeOK, Listed
  <2>2. CASE flags' = [flags EXCEPT ![cur] = Sock!Finished(flags[cur])]
    BY <1>5, <2>1, <2>2
  <2>3. CASE flags' \in {flags, [flags EXCEPT ![cur] = Sock!Bound(flags[cur])]}
    <3>1. Quietly
      BY <2>1, <2>3, OneWord, QuietUpdates
    <3>2. OthersStay({})
      BY <3>1 DEF Quietly, SameLife, OthersStay, Stage, Held, Listed
    <3> QED
      BY <3>2, LifeActions
  <2> QED
    BY <1>7, <2>2, <2>3 DEF ConnectReturns
<1>8. ASSUME Preprocess \/ PowerOnFailedAgain \/ FinishSockets
      PROVE  \E S \in SUBSET Socket : Life!Close(S)
  <2>1. PICK S \in SUBSET Socket : FinishAll(S) /\ sockets' = sockets
    BY <1>8 DEF Preprocess, PowerOnFailedAgain, FinishSockets
  <2> QED
    BY <2>1, FinishCloses
<1>9. ASSUME RemoveSocket PROVE \E S \in SUBSET Socket : Life!Destroy(S)
  <2>1. PICK i \in DOMAIN sockets : DeletableSocket(i) /\ DestroySocket(i)
    BY <1>9 DEF RemoveSocket
  <2>2. PICK s \in Socket : s = sockets[i] /\ s \in Listed(sockets)
    BY DEF TypeOK, Listed, ToSet
  <2>3. /\ flags' = [flags EXCEPT ![s] = {}]
        /\ sockets' = RemoveAt(sockets, i) /\ pc # "ConnectImpl"
    BY <1>9, <2>1, <2>2 DEF RemoveSocket, DestroySocket
  <2>4. s \notin Listed(sockets')
    BY <2>2, <2>3, RemovedGone DEF TypeOK, ListedOnce, Listed
  <2>5. \A t \in Listed(sockets) : t # s => t \in Listed(sockets')
    BY <2>2, <2>3, RemovedOne DEF TypeOK, Listed
  <2>6. Listed(sockets') \subseteq Listed(sockets)
    BY <2>3, RemovedOnce DEF TypeOK, Listed
  <2>7. "AppReference" \notin flags[s] /\ "ModemReference" \notin flags[s]
    BY <2>1, <2>2, LifeUpdates DEF DeletableSocket
  <2>8. OthersStay({s})
    <3>1. \A t \in Socket \ {s} :
            /\ t \in Listed(sockets') <=> t \in Listed(sockets)
            /\ flags'[t] = flags[t]
      BY <2>3, <2>5, <2>6 DEF TypeOK
    <3> QED
      BY <3>1 DEF OthersStay, Stage, Held, Listed
  <2>9. ~Sock!IsConnected(flags[s])
    BY <2>2, <2>3, <2>7 DEF LifeInv, Opening
  <2>10. /\ ~Held(s) /\ ~Held(s)'
         /\ Stage(s) \in {"pending", "closed"} /\ Stage(s)' = "free"
    <3>1. flags'[s] = {}
      BY <2>2, <2>3 DEF TypeOK
    <3> QED
      BY <2>2, <2>4, <2>7, <2>9, <3>1 DEF Stage, Held, Listed
  <2> QED
    BY <2>2, <2>8, <2>10, LifeActions
<1> QED
  BY <1>1, <1>2, <1>3, <1>4, <1>6, <1>7, <1>8, <1>9, LifeSteps

\* The modem implements SocketLife, for any number of sockets and messages and
\* any faults: Connect() is answered at most once, a closed socket stays
\* closed, and none is destroyed while connected or before Release().
THEOREM LifeImplemented == Spec => SocketLives
<1>1. Init => Life!Init /\ LifeInv
  <2>1. Init => Life!Init
    BY DEF Init, Life!Init, Listed, ToSet
  <2>2. Init => LifeInv
    BY DEF Init, LifeInv, Sock!IsConnected
  <2> QED
    BY <2>1, <2>2
<1>2. /\ Inv /\ Inv' /\ OwnerInv /\ OwnerInv' /\ WakeInv
      /\ LifeInv /\ [Next]_vars
      => LifeInv' /\ [Life!Next]_(Life!lifeVars)
  BY LifeHolds, LifeStep DEF Inv, WakeInv
<1> QED
  BY <1>1, <1>2, Invariance, Owners, Woken, PTL DEF Spec, SocketLives, Life!Spec

=============================================================================
