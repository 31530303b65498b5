---------------------------- MODULE ModemProofs ----------------------------
(***************************************************************************)
(* Proofs about the modem task, the receive task and the application calls *)
(* of Modem, for every number of sockets and messages, every bound and     *)
(* every set of faults.  The last part proves on top of the inductive      *)
(* invariant that no socket is destroyed while the modem has a connection  *)
(* for it or the receive task moves its data.                              *)
(***************************************************************************)
EXTENDS ModemProperties, SequenceTheorems, TLAPS

-----------------------------------------------------------------------------
(* The flag words *)

\* Every update of a socket's flag word yields a flag word.
LEMMA SocketFlagTypes ==
  ASSUME NEW f \in SUBSET Sock!SocketFlag
  PROVE  /\ Sock!Allocate(f) \in SUBSET Sock!SocketFlag
         /\ Sock!Bound(f) \in SUBSET Sock!SocketFlag
         /\ Sock!Connected(f) \in SUBSET Sock!SocketFlag
         /\ Sock!Incoming(f) \in SUBSET Sock!SocketFlag
         /\ Sock!MaybeIncoming(f) \in SUBSET Sock!SocketFlag
         /\ Sock!IncomingRequested(f) \in SUBSET Sock!SocketFlag
         /\ Sock!Sending(f) \in SUBSET Sock!SocketFlag
         /\ Sock!SendingFinished(f) \in SUBSET Sock!SocketFlag
         /\ Sock!Finished(f) \in SUBSET Sock!SocketFlag
         /\ Sock!CloseRequested(f) \in SUBSET Sock!SocketFlag
         /\ Sock!Released(f) \in SUBSET Sock!SocketFlag
         /\ f \cup {"ModemConnecting"} \in SUBSET Sock!SocketFlag
         /\ f \cup {"ModemClosing"} \in SUBSET Sock!SocketFlag
BY DEF Sock!SocketFlag, Sock!Allocate, Sock!Bound, Sock!Connected,
       Sock!Incoming, Sock!MaybeIncoming, Sock!IncomingRequested,
       Sock!Sending, Sock!SendingFinished, Sock!Finished,
       Sock!CloseRequested, Sock!Released

\* So does a new socket's.
LEMMA NewSocketType ==
  ASSUME NEW tls PROVE Sock!NewSocket(tls) \in SUBSET Sock!SocketFlag
BY DEF Sock!NewSocket, Sock!SocketFlag

\* The same for messages.
LEMMA MessageFlagTypes ==
  ASSUME NEW f \in SUBSET Msg!MessageFlag
  PROVE  /\ Msg!NewMessage \in SUBSET Msg!MessageFlag
         /\ Msg!Sending(f) \in SUBSET Msg!MessageFlag
         /\ Msg!SendingComplete(f) \in SUBSET Msg!MessageFlag
         /\ Msg!SendingFailed(f) \in SUBSET Msg!MessageFlag
         /\ Msg!Released(f) \in SUBSET Msg!MessageFlag
BY DEF Msg!MessageFlag, Msg!NewMessage, Msg!Sending, Msg!SendingComplete,
       Msg!SendingFailed, Msg!Released

-----------------------------------------------------------------------------
(* The lists *)

\* Removing an element leaves a sequence over the same set.
LEMMA RemoveAtType ==
  ASSUME NEW S, NEW q \in Seq(S), NEW i \in DOMAIN q
  PROVE  RemoveAt(q, i) \in Seq(S)
BY DEF RemoveAt

\* The neighbour of a list element, and the first one, are elements or NULL.
LEMMA ListTypes ==
  ASSUME NEW S, NEW q \in Seq(S), NEW x
  PROVE  /\ First(q) \in ToSet(q) \cup {NULL}
         /\ x \in ToSet(q) => After(q, x) \in ToSet(q) \cup {NULL}
         /\ ToSet(q) \subseteq S
         /\ ToSet(Append(q, x)) = ToSet(q) \cup {x}
<1>1. First(q) \in ToSet(q) \cup {NULL}
  BY DEF First, ToSet
<1>2. ASSUME x \in ToSet(q) PROVE After(q, x) \in ToSet(q) \cup {NULL}
  <2> DEFINE i == CHOOSE j \in DOMAIN q : q[j] = x
  <2>1. \E j \in DOMAIN q : q[j] = x
    BY <1>2 DEF ToSet
  <2>2. i \in DOMAIN q
    BY <2>1
  <2>3. i < Len(q) => i + 1 \in DOMAIN q
    BY <2>2
  <2> QED
    BY <2>3 DEF After, ToSet
<1>3. ToSet(q) \subseteq S
  BY DEF ToSet
<1>4. ToSet(Append(q, x)) = ToSet(q) \cup {x}
  <2>1. /\ Len(Append(q, x)) = Len(q) + 1
        /\ \A j \in 1..Len(q) : Append(q, x)[j] = q[j]
        /\ Append(q, x)[Len(q) + 1] = x
    OBVIOUS
  <2>2. DOMAIN Append(q, x) = DOMAIN q \cup {Len(q) + 1}
    OBVIOUS
  <2> QED
    BY <2>1, <2>2 DEF ToSet
<1> QED
  BY <1>1, <1>2, <1>3, <1>4

-----------------------------------------------------------------------------
(* Types and the task's frame                                              *)

\* Points of the loops over the sockets where f.s is the socket at hand.
OnSocket ==
  {"CloseImpl", "ConnectImpl", "Send", "SendPacketImpl", "Receive",
   "ReceivePacketImpl", "Check", "CheckIncomingImpl"}

\* f.s, f.m and f.next point into the lists wherever the task will use them.
\* TypeOK is not inductive without it: f.s = f.s->next would be anything.
FrameInv ==
  /\ pc \in OnSocket => cur \in Listed(sockets)
  /\ pc \in {"CloseSockets", "ProcessSockets"} =>
       cur \in Listed(sockets) \cup {NULL}
  /\ pc = "CloseImpl" => nxt \in Listed(sockets) \cup {NULL}
  /\ pc = "SendMessages" => cur \in Listed(messages) \cup {NULL}
  /\ pc = "SendMessageImpl" => cur \in Listed(messages)

\* A packet is in the pipe until the modem has confirmed it, and nothing is
\* being sent outside the calls that send: the modem's confirmation would take
\* a packet from an empty pipe.
SendInv ==
  /\ SendingIsAwaited
  /\ pc = "SendPacketImpl" /\ Sock!IsSending(flags[cur]) => out[cur] > 0
  /\ \A m \in Message :
       Msg!IsSending(mflags[m]) => Msg!ShouldSend(mflags[m])

\* The application's calls keep both.
LEMMA AppTypes ==
  ASSUME TypeOK, FrameInv, App PROVE TypeOK' /\ FrameInv'
<1> USE DEF TypeOK, FrameInv, OnSocket, Await, Loop, Signal, Result, Listed
<1>1. ASSUME NEW s \in Socket, NEW tls \in Security, CreateSocket(s, tls)
      PROVE  TypeOK' /\ FrameInv'
  BY <1>1, NewSocketType, ListTypes DEF CreateSocket, EnsureRunning,
     messageVars, atVars, frameVars, envVars, rxVars, deviceVars
<1>2. ASSUME NEW s \in Socket, ReleaseSocket(s) PROVE TypeOK' /\ FrameInv'
  <2>1. Sock!Released(flags[s]) \in SUBSET Sock!SocketFlag
    BY SocketFlagTypes
  <2> QED
    BY <1>2, <2>1 DEF ReleaseSocket, EnsureRunning, messageVars, atVars,
       frameVars, envVars, rxVars, deviceVars
<1>3. ASSUME NEW s \in Socket, Disconnect(s) PROVE TypeOK' /\ FrameInv'
  <2>1. Sock!CloseRequested(flags[s]) \in SUBSET Sock!SocketFlag
    BY SocketFlagTypes
  <2> QED
    BY <1>3, <2>1 DEF Disconnect, messageVars, atVars, frameVars, envVars,
       rxVars, deviceVars
<1>4. ASSUME NEW s \in Socket, WriteOutput(s) PROVE TypeOK' /\ FrameInv'
  BY <1>4 DEF WriteOutput, messageVars, atVars, frameVars, envVars, rxVars,
     deviceVars
<1>5. ASSUME NEW m \in Message, SendMessage(m) PROVE TypeOK' /\ FrameInv'
  <2>1. Msg!NewMessage \in SUBSET Msg!MessageFlag
    BY DEF Msg!NewMessage, Msg!MessageFlag
  <2>2. ToSet(Append(messages, m)) = ToSet(messages) \cup {m}
    BY ListTypes
  <2> QED
    BY <1>5, <2>1, <2>2 DEF SendMessage, EnsureRunning, socketVars, atVars,
       frameVars, envVars, rxVars, deviceVars
<1>6. ASSUME NEW m \in Message, ReleaseMessage(m) PROVE TypeOK' /\ FrameInv'
  <2>1. Msg!Released(mflags[m]) \in SUBSET Msg!MessageFlag
    BY MessageFlagTypes
  <2> QED
    BY <1>6, <2>1 DEF ReleaseMessage, EnsureRunning, socketVars, atVars,
       frameVars, envVars, rxVars, deviceVars
<1> QED
  BY <1>1, <1>2, <1>3, <1>4, <1>5, <1>6 DEF App

\* Starting up keeps them.
LEMMA StartUpTypes ==
  ASSUME TypeOK, FrameInv, StartUp PROVE TypeOK' /\ FrameInv'
<1> USE DEF TypeOK, FrameInv, OnSocket, Await, Loop, Signal, Result, Listed
<1>1. ASSUME Preprocess PROVE TypeOK' /\ FrameInv'
  <2>1. \A t \in Socket : Sock!Finished(flags[t]) \in SUBSET Sock!SocketFlag
    BY SocketFlagTypes
  <2> QED
    BY SMTT(20), <1>1, <2>1
    DEF Preprocess, Goto, FinishAll, messageVars, atVars, envVars,
       rxVars, deviceVars
<1>2. ASSUME RemoveSocket PROVE TypeOK' /\ FrameInv'
  <2>1. \A i \in DOMAIN sockets : RemoveAt(sockets, i) \in Seq(Socket)
    BY RemoveAtType
  <2> QED
    BY SMTT(20), <1>2, <2>1
    DEF RemoveSocket, DestroySocket, messageVars, atVars,
       frameVars, envVars, rxVars, deviceVars
<1>3. ASSUME RemoveMessage PROVE TypeOK' /\ FrameInv'
  <2>1. \A i \in DOMAIN messages : RemoveAt(messages, i) \in Seq(Message)
    BY RemoveAtType
  <2> QED
    BY <1>3, <2>1 DEF RemoveMessage, DestroyMessage, socketVars, atVars,
       frameVars, envVars, rxVars, deviceVars
<1>4. ASSUME NothingToDo PROVE TypeOK' /\ FrameInv'
  BY <1>4 DEF NothingToDo, StopTask, atVars, listVars, socketVars, messageVars,
     envVars, rxVars, deviceVars
<1>5. ASSUME PowerOn PROVE TypeOK' /\ FrameInv'
  BY <1>5 DEF PowerOn, Goto, atVars, frameVars, listVars, socketVars,
     messageVars, envVars, rxVars, deviceVars
<1>6. ASSUME PowerOnFailed PROVE TypeOK' /\ FrameInv'
  BY <1>6 DEF PowerOnFailed, Goto, frameVars, listVars, socketVars,
     messageVars, envVars, rxVars, deviceVars
<1>7. ASSUME RetryPowerOn PROVE TypeOK' /\ FrameInv'
  BY <1>7 DEF RetryPowerOn, Goto, atVars, frameVars, listVars, socketVars,
     messageVars, envVars, rxVars, deviceVars
<1>8. ASSUME PowerOnFailedAgain PROVE TypeOK' /\ FrameInv'
  <2>1. \A t \in Socket : Sock!Finished(flags[t]) \in SUBSET Sock!SocketFlag
    BY SocketFlagTypes
  <2> QED
    BY <1>8, <2>1 DEF PowerOnFailedAgain, StopTask, FinishAll, messageVars,
       atVars, envVars, rxVars, deviceVars
<1>9. ASSUME PoweredOn PROVE TypeOK' /\ FrameInv'
  BY <1>9 DEF PoweredOn, Goto, atVars, frameVars, listVars, socketVars,
     messageVars, envVars, rxVars, deviceVars
<1>10. ASSUME Started PROVE TypeOK' /\ FrameInv'
  BY <1>10 DEF Started, Goto, frameVars, listVars, socketVars, messageVars,
     envVars, rxVars, deviceVars
<1>11. ASSUME StartFailed PROVE TypeOK' /\ FrameInv'
  BY <1>11 DEF StartFailed, Goto, frameVars, listVars, socketVars, messageVars,
     envVars, rxVars, deviceVars
<1>12. ASSUME SimUnlocked PROVE TypeOK' /\ FrameInv'
  BY <1>12 DEF SimUnlocked, Goto, atVars, frameVars, listVars, socketVars,
     messageVars, envVars, rxVars, deviceVars
<1>13. ASSUME NetworkConnected PROVE TypeOK' /\ FrameInv'
  BY <1>13 DEF NetworkConnected, Goto, atVars, frameVars, listVars, socketVars,
     messageVars, envVars, rxVars, deviceVars
<1>14. ASSUME BringUpFailed PROVE TypeOK' /\ FrameInv'
  BY <1>14 DEF BringUpFailed, Goto, frameVars, listVars, socketVars,
     messageVars, envVars, rxVars, deviceVars
<1> QED
  BY <1>1, <1>2, <1>3, <1>4, <1>5, <1>6, <1>7, <1>8, <1>9, <1>10, <1>11, <1>12,
     <1>13, <1>14 DEF StartUp

\* A processing pass keeps them.
LEMMA PassTypes ==
  ASSUME TypeOK, FrameInv, Pass PROVE TypeOK' /\ FrameInv'
<1> USE DEF TypeOK, FrameInv, OnSocket, Await, Loop, Signal, Result, Listed
<1>1. ASSUME AcquireProcess PROVE TypeOK' /\ FrameInv'
  <2>1. First(sockets) \in Listed(sockets) \cup {NULL}
    BY ListTypes
  <2>2. Listed(sockets) \subseteq Socket
    BY ListTypes
  <2> QED
    BY <1>1, <2>1, <2>2 DEF AcquireProcess, Goto, atVars, listVars, socketVars,
       messageVars, envVars, rxVars, deviceVars
<1>2. ASSUME CloseSocket PROVE TypeOK' /\ FrameInv'
  <2>1. cur \in Listed(sockets) =>
          After(sockets, cur) \in Listed(sockets) \cup {NULL}
    BY ListTypes
  <2>2. Listed(sockets) \subseteq Socket
    BY ListTypes
  <2>3. cur \in Listed(sockets) /\ cur \in Socket
    BY <1>2, <2>2 DEF CloseSocket, LoopEnds
  <2>4. CASE Sock!NeedsClose(flags[cur])
    <3>1. flags[cur] \cup {"ModemClosing"} \in SUBSET Sock!SocketFlag
      BY <2>3, SocketFlagTypes
    <3> QED
      BY ZenonT(30), <1>2, <2>1, <2>2, <2>3, <2>4, <3>1
      DEF CloseSocket, Goto, messageVars,
         atVars, envVars, rxVars, deviceVars
  <2>5. CASE ~Sock!NeedsClose(flags[cur])
    BY <1>2, <2>1, <2>2, <2>3, <2>5 DEF CloseSocket, messageVars, atVars,
       envVars, rxVars, deviceVars
  <2> QED
    BY <2>4, <2>5
<1>3. ASSUME CloseLoopEnds PROVE TypeOK' /\ FrameInv'
  BY <1>3 DEF CloseLoopEnds, Goto, atVars, frameVars, listVars, socketVars,
     messageVars, envVars, rxVars, deviceVars
<1>4. ASSUME SocketsRemoved PROVE TypeOK' /\ FrameInv'
  <2>1. First(sockets) \in Listed(sockets) \cup {NULL}
    BY ListTypes
  <2>2. Listed(sockets) \subseteq Socket
    BY ListTypes
  <2> QED
    BY <1>4, <2>1, <2>2 DEF SocketsRemoved, Goto, atVars, listVars, socketVars,
       messageVars, envVars, rxVars, deviceVars
<1>5. ASSUME ConnectSocket PROVE TypeOK' /\ FrameInv'
  <2>1. Listed(sockets) \subseteq Socket
    BY ListTypes
  <2>2. cur \in Listed(sockets) /\ cur \in Socket
    BY <1>5, <2>1 DEF ConnectSocket, LoopEnds
  <2> DEFINE f == IF HasChannel THEN Sock!Allocate(flags[cur]) ELSE flags[cur]
  <2>3. f \in SUBSET Sock!SocketFlag
    BY ZenonT(30), <2>2, SocketFlagTypes
  <2>4. f \cup {"ModemConnecting"} \in SUBSET Sock!SocketFlag
    BY <2>3, SocketFlagTypes
  <2>5. /\ flags' = [flags EXCEPT ![cur] = f \cup {"ModemConnecting"}]
           \/ flags' = [flags EXCEPT ![cur] = f]
        /\ pc' \in {"ConnectImpl", "Send"}
    BY <1>5 DEF ConnectSocket, Goto
  <2>6. flags' \in [Socket -> SUBSET Sock!SocketFlag]
    BY ZenonT(30), <2>3, <2>4, <2>5
  <2> HIDE DEF f
  <2> QED
    BY <1>5, <2>2, <2>5, <2>6 DEF ConnectSocket, messageVars, atVars, frameVars,
       envVars, rxVars, deviceVars
<1>6. ASSUME StartSend PROVE TypeOK' /\ FrameInv'
  <2>1. cur \in Listed(sockets) /\ cur \in Socket
    BY <1>6, ListTypes DEF StartSend
  <2>2. Sock!Sending(flags[cur]) \in SUBSET Sock!SocketFlag
    BY <2>1, SocketFlagTypes
  <2>3. flags' \in [Socket -> SUBSET Sock!SocketFlag]
    BY <1>6, <2>2 DEF StartSend
  <2> QED
    BY <1>6, <2>1, <2>3
    DEF StartSend, Goto, messageVars, atVars, frameVars, envVars,
       rxVars, deviceVars
<1>7. ASSUME ProcessLoopEnds PROVE TypeOK' /\ FrameInv'
  <2>1. First(messages) \in Listed(messages) \cup {NULL}
    BY ListTypes
  <2>2. Listed(messages) \subseteq Message
    BY ListTypes
  <2> QED
    BY <1>7, <2>1, <2>2 DEF ProcessLoopEnds, Goto, atVars, listVars, socketVars,
       messageVars, envVars, rxVars, deviceVars
<1>8. ASSUME StartSendMessage PROVE TypeOK' /\ FrameInv'
  <2>1. cur \in Listed(messages) =>
          After(messages, cur) \in Listed(messages) \cup {NULL}
    BY ListTypes
  <2>2. Listed(messages) \subseteq Message
    BY ListTypes
  <2> QED
    BY <1>8, <2>1, <2>2 DEF StartSendMessage, LoopEnds, Goto, atVars, listVars,
       socketVars, messageVars, envVars, rxVars, deviceVars
<1>9. ASSUME SubmitMessage PROVE TypeOK' /\ FrameInv'
  <2>1. \A t \in Message :
          Msg!Sending(mflags[t]) \in SUBSET Msg!MessageFlag
    BY MessageFlagTypes
  <2> QED
    BY ZenonT(30), <1>9, <2>1
    DEF SubmitMessage, socketVars, atVars, frameVars, envVars,
       rxVars, deviceVars
<1>10. ASSUME MessageLoopEnds PROVE TypeOK' /\ FrameInv'
  BY <1>10 DEF MessageLoopEnds, Goto, atVars, frameVars, listVars, socketVars,
     messageVars, envVars, rxVars, deviceVars
<1>11. ASSUME MessagesRemoved PROVE TypeOK' /\ FrameInv'
  BY <1>11 DEF MessagesRemoved, Goto, atVars, frameVars, listVars, socketVars,
     messageVars, envVars, rxVars, deviceVars
<1>12. ASSUME EndPass PROVE TypeOK' /\ FrameInv'
  <2>1. /\ signals' \subseteq Signal
        /\ pc' \in {"DisconnectNetworkImpl", "AwaitActivity", "Yield"}
    BY <1>12 DEF EndPass, Goto, LeaveNetwork
  <2> QED
    BY <1>12, <2>1 DEF EndPass, atVars, frameVars, listVars, socketVars,
       messageVars, envVars, rxVars, deviceVars
<1>13. ASSUME Resume PROVE TypeOK' /\ FrameInv'
  BY <1>13 DEF Resume, Goto, atVars, frameVars, listVars, socketVars,
     messageVars, envVars, rxVars, deviceVars
<1>14. ASSUME NEW room \in BOOLEAN, StartReceive(room)
      PROVE  TypeOK' /\ FrameInv'
  <2>1. cur \in Listed(sockets) /\ cur \in Socket
    BY <1>14, ListTypes DEF StartReceive
  <2>2. Sock!IncomingRequested(flags[cur]) \in SUBSET Sock!SocketFlag
    BY <2>1, SocketFlagTypes
  <2>3. flags' \in [Socket -> SUBSET Sock!SocketFlag]
    BY <1>14, <2>2 DEF StartReceive
  <2> QED
    BY ZenonT(30), <1>14, <2>1, <2>3
    DEF StartReceive, Goto, messageVars, atVars, frameVars,
       envVars, rxVars, deviceVars
<1>15. ASSUME NEW room \in BOOLEAN, StartCheck(room)
      PROVE  TypeOK' /\ FrameInv'
  <2>1. cur \in Listed(sockets) =>
          After(sockets, cur) \in Listed(sockets) \cup {NULL}
    BY ListTypes
  <2>2. Listed(sockets) \subseteq Socket
    BY ListTypes
  <2>3. \A t \in Socket :
          Sock!IncomingRequested(flags[t]) \in SUBSET Sock!SocketFlag
    BY SocketFlagTypes
  <2> QED
    BY <1>15, <2>1, <2>2, <2>3
    DEF StartCheck, Goto, messageVars, atVars, envVars,
       rxVars, deviceVars
<1>16. ASSUME NEW r \in Result, CloseReturns(r)
      PROVE  TypeOK' /\ FrameInv'
  <2>1. Listed(sockets) \subseteq Socket
    BY ListTypes
  <2> QED
    BY <1>16, <2>1 DEF CloseReturns, Goto, CommandDone, listVars, socketVars,
       messageVars, envVars, rxVars, deviceVars
<1>17. ASSUME NEW r \in Result, ConnectReturns(r)
      PROVE  TypeOK' /\ FrameInv'
  <2>1. Listed(sockets) \subseteq Socket
    BY ListTypes
  <2>2. cur \in Listed(sockets) /\ cur \in Socket
    BY <1>17, <2>1 DEF ConnectReturns
  <2>3. /\ Sock!Bound(flags[cur]) \in SUBSET Sock!SocketFlag
        /\ Sock!Finished(flags[cur]) \in SUBSET Sock!SocketFlag
    BY <2>2, SocketFlagTypes
  <2>4. flags' \in [Socket -> SUBSET Sock!SocketFlag]
    BY <1>17, <2>3 DEF ConnectReturns
  <2> QED
    BY <1>17, <2>2, <2>4 DEF ConnectReturns, Goto, CommandDone, messageVars,
       frameVars, envVars, rxVars, deviceVars
<1>18. ASSUME NEW r \in Result, SendReturns(r)
      PROVE  TypeOK' /\ FrameInv'
  <2>1. \A t \in Socket :
          Sock!SendingFinished(flags[t]) \in SUBSET Sock!SocketFlag
    BY SocketFlagTypes
  <2> QED
    BY <1>18, <2>1 DEF SendReturns, Goto, CommandDone, messageVars, frameVars,
       envVars, rxVars, deviceVars
<1>19. ASSUME NEW r \in Result, ReceiveReturns(r)
      PROVE  TypeOK' /\ FrameInv'
  BY <1>19 DEF ReceiveReturns, Goto, CommandDone, frameVars, listVars,
     socketVars, messageVars, envVars, rxVars, deviceVars
<1>20. ASSUME NEW r \in Result, CheckReturns(r)
      PROVE  TypeOK' /\ FrameInv'
  <2>1. cur \in Listed(sockets) =>
          After(sockets, cur) \in Listed(sockets) \cup {NULL}
    BY ListTypes
  <2>2. Listed(sockets) \subseteq Socket
    BY ListTypes
  <2> QED
    BY <1>20, <2>1, <2>2 DEF CheckReturns, Goto, CommandDone, listVars,
       socketVars, messageVars, envVars, rxVars, deviceVars
<1>21. ASSUME NEW r \in Result, SendMessageReturns(r)
      PROVE  TypeOK' /\ FrameInv'
  <2>1. cur \in Listed(messages) =>
          After(messages, cur) \in Listed(messages) \cup {NULL}
    BY ListTypes
  <2>2. Listed(messages) \subseteq Message
    BY ListTypes
  <2>3. \A t \in Message :
          Msg!SendingFailed(mflags[t]) \in SUBSET Msg!MessageFlag
    BY MessageFlagTypes
  <2> QED
    BY <1>21, <2>1, <2>2, <2>3 DEF SendMessageReturns, Goto, CommandDone,
       socketVars, envVars, rxVars, deviceVars
<1> QED
  BY <1>1, <1>2, <1>3, <1>4, <1>5, <1>6, <1>7, <1>8, <1>9, <1>10, <1>11, <1>12,
     <1>13, <1>14, <1>15, <1>16, <1>17, <1>18, <1>19, <1>20, <1>21 DEF Pass

\* Powering off keeps them.
LEMMA ShutDownTypes ==
  ASSUME TypeOK, FrameInv, ShutDown PROVE TypeOK' /\ FrameInv'
<1> USE DEF TypeOK, FrameInv, OnSocket, Await, Loop, Signal, Result, Listed
<1>1. ASSUME NEW r \in Result, NetworkDisconnected(r)
      PROVE  TypeOK' /\ FrameInv'
  BY <1>1 DEF NetworkDisconnected, Goto, CommandDone, frameVars, listVars,
     socketVars, messageVars, envVars, rxVars, deviceVars
<1>2. ASSUME FinishSockets PROVE TypeOK' /\ FrameInv'
  <2>1. \A t \in Socket : Sock!Finished(flags[t]) \in SUBSET Sock!SocketFlag
    BY SocketFlagTypes
  <2> QED
    BY <1>2, <2>1 DEF FinishSockets, Goto, FinishAll, messageVars, atVars,
       frameVars, envVars, rxVars, deviceVars
<1>3. ASSUME PoweredOff PROVE TypeOK' /\ FrameInv'
  BY <1>3 DEF PoweredOff, Goto, atVars, rxVars, frameVars, listVars,
     socketVars, messageVars
<1>4. ASSUME TaskEnds PROVE TypeOK' /\ FrameInv'
  BY <1>4 DEF TaskEnds, StopTask, Restart, atVars, listVars, socketVars,
     messageVars, envVars, rxVars, deviceVars
<1> QED
  BY <1>1, <1>2, <1>3, <1>4 DEF ShutDown

\* The receive task keeps them.
LEMMA RxTypes ==
  ASSUME TypeOK, FrameInv, SendInv, RxTask PROVE TypeOK' /\ FrameInv'
<1> USE DEF TypeOK, FrameInv, OnSocket, Await, Loop, Signal, Result, Listed
<1>1. ASSUME NEW s \in Socket, OnConnected(s)
      PROVE  TypeOK' /\ FrameInv'
  <2>1. Sock!Connected(flags[s]) \in SUBSET Sock!SocketFlag
    BY SocketFlagTypes
  <2>2. /\ flags' \in [Socket -> SUBSET Sock!SocketFlag]
        /\ process' \in BOOLEAN
    BY ZenonT(30), <1>1, <2>1 DEF OnConnected, Notify
  <2>3. /\ link' \in [Socket -> {"idle", "opening", "open", "closing"}]
        /\ inbox' \in [Socket -> Nat]
    BY <1>1, ModemAssumption DEF OnConnected
  <2> QED
    BY <1>1, <2>2, <2>3 DEF OnConnected, messageVars, atVars, rxVars, frameVars
<1>2. ASSUME NEW s \in Socket, OnDisconnected(s)
      PROVE  TypeOK' /\ FrameInv'
  <2>1. Sock!Finished(flags[s]) \in SUBSET Sock!SocketFlag
    BY SocketFlagTypes
  <2>2. /\ flags' \in [Socket -> SUBSET Sock!SocketFlag]
        /\ process' \in BOOLEAN
    BY <1>2, <2>1 DEF OnDisconnected, Notify
  <2>3. /\ link' \in [Socket -> {"idle", "opening", "open", "closing"}]
        /\ inbox' \in [Socket -> Nat]
    BY <1>2 DEF OnDisconnected
  <2> QED
    BY <1>2, <2>2, <2>3 DEF OnDisconnected, messageVars, atVars, rxVars,
       frameVars
<1>3. ASSUME NEW s \in Socket, OnIncoming(s)
      PROVE  TypeOK' /\ FrameInv'
  <2>1. Sock!Incoming(flags[s]) \in SUBSET Sock!SocketFlag
    BY SocketFlagTypes
  <2>2. /\ flags' \in [Socket -> SUBSET Sock!SocketFlag]
        /\ process' \in BOOLEAN
    BY <1>3, <2>1 DEF OnIncoming, Notify
  <2> QED
    BY <1>3, <2>2 DEF OnIncoming, messageVars, atVars, frameVars,
       envVars, rxVars, deviceVars
<1>4. ASSUME NEW s \in Socket, OnMaybeIncoming(s)
      PROVE  TypeOK' /\ FrameInv'
  <2>1. Sock!MaybeIncoming(flags[s]) \in SUBSET Sock!SocketFlag
    BY SocketFlagTypes
  <2>2. /\ flags' \in [Socket -> SUBSET Sock!SocketFlag]
        /\ process' \in BOOLEAN
    BY <1>4, <2>1 DEF OnMaybeIncoming, Notify
  <2> QED
    BY <1>4, <2>2 DEF OnMaybeIncoming, messageVars, atVars, frameVars,
       envVars, rxVars, deviceVars
<1>5. ASSUME NEW s \in Socket, OnData(s)
      PROVE  TypeOK' /\ FrameInv'
  <2>1. Sock!MaybeIncoming(flags[s]) \in SUBSET Sock!SocketFlag
    BY SocketFlagTypes
  <2> QED
    BY <1>5, <2>1 DEF OnData, messageVars, atVars, frameVars
<1>6. ASSUME NEW accepted \in BOOLEAN, OnSendResponse(accepted)
      PROVE  TypeOK' /\ FrameInv'
  <2>1. cur \in Socket
    BY <1>6, ListTypes DEF OnSendResponse
  <2>2. Sock!SendingFinished(flags[cur]) \in SUBSET Sock!SocketFlag
    BY <2>1, SocketFlagTypes
  <2>3. flags' \in [Socket -> SUBSET Sock!SocketFlag]
    BY <1>6, <2>2 DEF OnSendResponse
  <2>4. out[cur] > 0
    BY <1>6 DEF OnSendResponse, SendInv
  <2>5. out' \in [Socket -> Nat]
    BY <1>6, <2>1, <2>4 DEF OnSendResponse
  <2> QED
    BY <1>6, <2>3, <2>5 DEF OnSendResponse, messageVars, atVars, frameVars,
       envVars, rxVars, deviceVars
<1>7. ASSUME OnMessageReference PROVE TypeOK' /\ FrameInv'
  <2>1. \A t \in Message :
          Msg!SendingComplete(mflags[t]) \in SUBSET Msg!MessageFlag
    BY MessageFlagTypes
  <2> QED
    BY ZenonT(30), <1>7, <2>1
    DEF OnMessageReference, socketVars, atVars, frameVars, envVars,
       rxVars, deviceVars
<1>8. ASSUME MoveData PROVE TypeOK' /\ FrameInv'
  BY <1>8 DEF MoveData, atVars, deviceVars, frameVars, listVars, socketVars,
     messageVars
<1>9. ASSUME RxStops PROVE TypeOK' /\ FrameInv'
  BY <1>9 DEF RxStops, atVars, deviceVars, frameVars, listVars, socketVars,
     messageVars
<1>10. ASSUME NEW s \in Socket, OpenFailsUnheard(s)
       PROVE  TypeOK' /\ FrameInv'
  BY <1>10 DEF OpenFailsUnheard, atVars, rxVars, frameVars, listVars,
     socketVars, messageVars
<1> QED
  BY <1>1, <1>2, <1>3, <1>4, <1>5, <1>6, <1>7, <1>8, <1>9, <1>10 DEF RxTask

\* The modem, its peers and the idle timeout keep them.
LEMMA OtherTypes ==
  ASSUME TypeOK, FrameInv, Device \/ IdleTimeout \/ UNCHANGED vars
  PROVE  TypeOK' /\ FrameInv'
<1> USE DEF TypeOK, FrameInv, OnSocket, Await, Loop, Signal, Result, Listed
<1>1. ASSUME TakeOpenRequest PROVE TypeOK' /\ FrameInv'
  BY ZenonT(30), <1>1
  DEF TakeOpenRequest, atVars, rxVars, frameVars, listVars, socketVars,
     messageVars
<1>2. ASSUME TakeCloseRequest PROVE TypeOK' /\ FrameInv'
  BY ZenonT(30), <1>2
  DEF TakeCloseRequest, atVars, rxVars, frameVars, listVars, socketVars,
     messageVars
<1>3. ASSUME IdleTimeout PROVE TypeOK' /\ FrameInv'
  BY <1>3 DEF IdleTimeout, LeaveNetwork, Goto, atVars, frameVars, listVars,
     socketVars, messageVars, envVars, rxVars, deviceVars
<1>4. ASSUME UNCHANGED vars PROVE TypeOK' /\ FrameInv'
  BY <1>4 DEF vars, atVars, frameVars, socketVars, messageVars, rxVars,
     deviceVars
<1>5. ASSUME NEW s \in Socket, PeerSends(s) PROVE TypeOK' /\ FrameInv'
  BY <1>5 DEF PeerSends, atVars, rxVars, frameVars, listVars, socketVars,
     messageVars
<1> QED
  BY <1>1, <1>2, <1>3, <1>4, <1>5 DEF Device

-----------------------------------------------------------------------------
(* What is being sent                                                      *)

\* The task is running exactly when its signal is up.
TaskInv == "TaskActive" \in signals <=> pc # "Stopped"

\* Every step keeps that.
LEMMA TaskStep ==
  ASSUME TypeOK, TaskInv, [Next]_vars PROVE TaskInv'
<1> USE DEF TaskInv
<1>1. ASSUME App PROVE TaskInv'
  BY <1>1 DEF App, CreateSocket, ReleaseSocket, Disconnect, WriteOutput,
     SendMessage, ReleaseMessage, EnsureRunning
<1>2. ASSUME StartUp PROVE TaskInv'
  BY <1>2 DEF StartUp, Preprocess, RemoveSocket, RemoveMessage, NothingToDo,
     PowerOn, PowerOnFailed, RetryPowerOn, PowerOnFailedAgain, PoweredOn,
     Started, StartFailed, SimUnlocked, NetworkConnected, BringUpFailed,
     OldDestroyed, StopTask, Goto
<1>3. ASSUME Pass PROVE TaskInv'
  BY <1>3 DEF Pass, AcquireProcess, CloseSocket, CloseLoopEnds, SocketsRemoved,
     ConnectSocket, StartSend, ProcessLoopEnds, StartSendMessage,
     SubmitMessage, MessageLoopEnds, MessagesRemoved, EndPass, Resume,
     StartReceive, StartCheck, CloseReturns, ConnectReturns, SendReturns,
     ReceiveReturns, CheckReturns, SendMessageReturns, LeaveNetwork, Goto
<1>4. ASSUME ShutDown PROVE TaskInv'
  BY <1>4 DEF ShutDown, NetworkDisconnected, FinishSockets, PoweredOff,
     TaskEnds, StopTask, Goto
<1>5. ASSUME RxTask PROVE TaskInv'
  BY <1>5 DEF RxTask, OnConnected, OpenFailsUnheard, OnDisconnected,
     OnIncoming, OnMaybeIncoming,
     OnData, OnSendResponse, OnMessageReference, MoveData, RxStops
<1>6. ASSUME Device \/ IdleTimeout PROVE TaskInv'
  BY <1>6 DEF Device, TakeOpenRequest, TakeCloseRequest, PeerSends, IdleTimeout,
     LeaveNetwork, Goto
<1>7. ASSUME UNCHANGED vars PROVE TaskInv'
  BY <1>7 DEF vars
<1> QED
  BY <1>1, <1>2, <1>3, <1>4, <1>5, <1>6, <1>7 DEF Next, Task

\* A step starts no send ...
NoSocketStarts ==
  \A s \in Socket : Sock!IsSending(flags'[s]) => Sock!IsSending(flags[s])

NoMessageStarts ==
  \A m \in Message :
    Msg!IsSending(mflags'[m]) =>
      Msg!IsSending(mflags[m])
      /\ (Msg!ShouldSend(mflags[m]) => Msg!ShouldSend(mflags'[m]))

\* ... and does not leave or disturb the one that is awaited.
SendGoesOn ==
  \/ /\ pc \notin {"SendPacketImpl", "SendMessageImpl"}
     /\ pc' # "SendPacketImpl" \/ cur' \in Socket
  \/ /\ pc' = pc /\ cur' = cur
     /\ pc = "SendPacketImpl" =>
          cur \in Socket /\ (out[cur] > 0 => out'[cur] > 0)

\* Then it keeps SendInv.
LEMMA NoSendStarted ==
  ASSUME SendInv, NoSocketStarts, NoMessageStarts, SendGoesOn
  PROVE  SendInv'
<1> USE DEF NoSocketStarts, NoMessageStarts, SendGoesOn
<1>1. SendingIsAwaited'
  BY DEF SendInv, SendingIsAwaited
<1>2. (\A m \in Message :
         Msg!IsSending(mflags[m]) => Msg!ShouldSend(mflags[m]))'
  BY DEF SendInv
<1>3. (pc = "SendPacketImpl" /\ Sock!IsSending(flags[cur]) => out[cur] > 0)'
  <2>1. CASE pc' = pc /\ cur' = cur
    BY <2>1 DEF SendInv
  <2>2. CASE pc \notin {"SendPacketImpl", "SendMessageImpl"}
    BY <2>2 DEF SendInv, SendingIsAwaited
  <2> QED
    BY <2>1, <2>2
<1> QED
  BY <1>1, <1>2, <1>3 DEF SendInv

\* The application's calls do not disturb it.
LEMMA AppSends ==
  ASSUME TypeOK, TaskInv, FrameInv, SendInv, App PROVE SendInv'
<1>1. pc = "SendPacketImpl" => cur \in Listed(sockets) /\ cur \in Socket
  BY ListTypes DEF TypeOK, FrameInv, OnSocket, Listed
<1>2. ASSUME NEW s \in Socket, NEW tls \in Security, CreateSocket(s, tls)
      PROVE  SendInv'
  <2>1. NoSocketStarts
    BY <1>2 DEF NoSocketStarts, CreateSocket, TypeOK, messageVars,
       Sock!IsSending, Sock!NewSocket
  <2>2. NoMessageStarts
    BY <1>2 DEF NoMessageStarts, CreateSocket, TypeOK, messageVars
  <2>3. SendGoesOn
    BY <1>1, <1>2 DEF SendGoesOn, TaskInv, CreateSocket, TypeOK, messageVars,
       frameVars, EnsureRunning
  <2> QED
    BY <2>1, <2>2, <2>3, NoSendStarted
<1>3. ASSUME NEW s \in Socket, ReleaseSocket(s)
      PROVE  SendInv'
  <2>1. NoSocketStarts
    BY <1>3 DEF NoSocketStarts, ReleaseSocket, TypeOK, messageVars,
       Sock!IsSending, Sock!Released
  <2>2. NoMessageStarts
    BY <1>3 DEF NoMessageStarts, ReleaseSocket, TypeOK, messageVars
  <2>3. SendGoesOn
    BY <1>1, <1>3 DEF SendGoesOn, TaskInv, ReleaseSocket, TypeOK, messageVars,
       frameVars, EnsureRunning
  <2> QED
    BY <2>1, <2>2, <2>3, NoSendStarted
<1>4. ASSUME NEW s \in Socket, Disconnect(s)
      PROVE  SendInv'
  <2>1. NoSocketStarts
    BY <1>4 DEF NoSocketStarts, Disconnect, TypeOK, messageVars,
       Sock!IsSending, Sock!CloseRequested
  <2>2. NoMessageStarts
    BY <1>4 DEF NoMessageStarts, Disconnect, TypeOK, messageVars
  <2>3. SendGoesOn
    BY <1>1, <1>4 DEF SendGoesOn, TaskInv, Disconnect, TypeOK, messageVars,
       frameVars
  <2> QED
    BY <2>1, <2>2, <2>3, NoSendStarted
<1>5. ASSUME NEW s \in Socket, WriteOutput(s)
      PROVE  SendInv'
  <2>1. NoSocketStarts
    BY <1>5 DEF NoSocketStarts, WriteOutput, TypeOK, messageVars
  <2>2. NoMessageStarts
    BY <1>5 DEF NoMessageStarts, WriteOutput, TypeOK, messageVars
  <2>3. SendGoesOn
    BY <1>1, <1>5 DEF SendGoesOn, TaskInv, WriteOutput, TypeOK, messageVars,
       frameVars
  <2> QED
    BY <2>1, <2>2, <2>3, NoSendStarted
<1>6. ASSUME NEW m \in Message, SendMessage(m)
      PROVE  SendInv'
  <2>1. NoSocketStarts
    BY <1>6 DEF NoSocketStarts, SendMessage, TypeOK, socketVars
  <2>2. NoMessageStarts
    BY <1>6 DEF NoMessageStarts, SendMessage, TypeOK, socketVars,
       Msg!NewMessage, Msg!Released, Msg!IsSending, Msg!ShouldSend
  <2>3. SendGoesOn
    BY <1>1, <1>6 DEF SendGoesOn, TaskInv, SendMessage, TypeOK, socketVars,
       frameVars, EnsureRunning
  <2> QED
    BY <2>1, <2>2, <2>3, NoSendStarted
<1>7. ASSUME NEW m \in Message, ReleaseMessage(m)
      PROVE  SendInv'
  <2>1. NoSocketStarts
    BY <1>7 DEF NoSocketStarts, ReleaseMessage, TypeOK, socketVars
  <2>2. NoMessageStarts
    BY <1>7 DEF NoMessageStarts, ReleaseMessage, TypeOK, socketVars,
       Msg!NewMessage, Msg!Released, Msg!IsSending, Msg!ShouldSend
  <2>3. SendGoesOn
    BY <1>1, <1>7 DEF SendGoesOn, TaskInv, ReleaseMessage, TypeOK, socketVars,
       frameVars, EnsureRunning
  <2> QED
    BY <2>1, <2>2, <2>3, NoSendStarted
<1> QED
  BY <1>2, <1>3, <1>4, <1>5, <1>6, <1>7 DEF App

\* Starting up and shutting down send nothing.
LEMMA EdgeSends ==
  ASSUME TypeOK, SendInv, StartUp \/ ShutDown PROVE SendInv'
<1>1. /\ pc \notin {"SendPacketImpl", "SendMessageImpl"}
      /\ pc' # "SendPacketImpl"
  BY DEF StartUp, Preprocess, RemoveSocket, RemoveMessage, NothingToDo,
     PowerOn, PowerOnFailed, RetryPowerOn, PowerOnFailedAgain, PoweredOn,
     Started, StartFailed, SimUnlocked, NetworkConnected, BringUpFailed,
     OldDestroyed, StopTask, Goto, ShutDown, NetworkDisconnected,
     FinishSockets, PoweredOff, TaskEnds
<1>2. ASSUME NEW S, FinishAll(S) PROVE NoSocketStarts
  BY <1>2 DEF NoSocketStarts, FinishAll, Sock!IsSending, Sock!Finished
<1>3. ASSUME NEW i \in DOMAIN sockets, DestroySocket(i) PROVE NoSocketStarts
  BY <1>3 DEF NoSocketStarts, DestroySocket, Sock!IsSending, TypeOK
<1>4. ASSUME flags' = flags PROVE NoSocketStarts
  BY <1>4 DEF NoSocketStarts
<1>5. NoSocketStarts
  BY <1>2, <1>3, <1>4 DEF StartUp, Preprocess, RemoveSocket, RemoveMessage,
     NothingToDo, PowerOn, PowerOnFailed, RetryPowerOn, PowerOnFailedAgain,
     PoweredOn, Started, StartFailed, SimUnlocked, NetworkConnected,
     BringUpFailed, ShutDown, NetworkDisconnected, FinishSockets, PoweredOff,
     TaskEnds, listVars, socketVars
<1>6. ASSUME NEW i \in DOMAIN messages, DestroyMessage(i) PROVE NoMessageStarts
  BY <1>6 DEF NoMessageStarts, DestroyMessage, Msg!IsSending, TypeOK
<1>7. ASSUME mflags' = mflags PROVE NoMessageStarts
  BY <1>7 DEF NoMessageStarts
<1>8. NoMessageStarts
  BY <1>6, <1>7 DEF StartUp, Preprocess, RemoveSocket, RemoveMessage,
     NothingToDo, PowerOn, PowerOnFailed, RetryPowerOn, PowerOnFailedAgain,
     PoweredOn, Started, StartFailed, SimUnlocked, NetworkConnected,
     BringUpFailed, ShutDown, NetworkDisconnected, FinishSockets, PoweredOff,
     TaskEnds, listVars, messageVars
<1> QED
  BY <1>1, <1>5, <1>8, NoSendStarted DEF SendGoesOn

\* The receive task only ends sends.
LEMMA RxSends ==
  ASSUME TypeOK, FrameInv, SendInv, RxTask PROVE SendInv'
<1>1. pc = "SendPacketImpl" => cur \in Socket
  BY ListTypes DEF TypeOK, FrameInv, OnSocket, Listed
<1>2. ASSUME NEW s \in Socket, NEW f, Notify(s, f),
             Sock!IsSending(f) => Sock!IsSending(flags[s])
      PROVE  NoSocketStarts
  BY <1>2 DEF NoSocketStarts, Notify, TypeOK
<1>3. ASSUME NEW s \in Socket, OnConnected(s) PROVE NoSocketStarts
  BY <1>2, <1>3 DEF OnConnected, Sock!IsSending, Sock!Connected
<1>4. ASSUME NEW s \in Socket, OnDisconnected(s) PROVE NoSocketStarts
  BY <1>2, <1>4 DEF OnDisconnected, Sock!IsSending, Sock!Finished
<1>5. ASSUME NEW s \in Socket, OnIncoming(s) PROVE NoSocketStarts
  BY <1>2, <1>5 DEF OnIncoming, Sock!IsSending, Sock!Incoming
<1>6. ASSUME NEW s \in Socket, OnMaybeIncoming(s) PROVE NoSocketStarts
  BY <1>2, <1>6 DEF OnMaybeIncoming, Sock!IsSending, Sock!MaybeIncoming
<1>7. ASSUME NEW s \in Socket, OnData(s) PROVE NoSocketStarts
  BY <1>7 DEF NoSocketStarts, OnData, TypeOK, Sock!IsSending,
     Sock!MaybeIncoming
<1>8. ASSUME \/ OnMessageReference \/ MoveData \/ RxStops
             \/ \E s \in Socket : OpenFailsUnheard(s)
      PROVE  NoSocketStarts
  BY <1>8 DEF NoSocketStarts, OnMessageReference, MoveData, RxStops,
     OpenFailsUnheard, listVars, socketVars
<1>9. ASSUME NEW accepted \in BOOLEAN, OnSendResponse(accepted) PROVE SendInv'
  BY <1>1, <1>9 DEF OnSendResponse, SendInv, SendingIsAwaited, messageVars,
     frameVars, TypeOK, Sock!IsSending, Sock!SendingFinished
<1>10. ASSUME OnMessageReference PROVE NoMessageStarts
  BY <1>10 DEF NoMessageStarts, OnMessageReference, TypeOK, Msg!IsSending,
     Msg!SendingComplete
<1>11. CASE ~\E accepted \in BOOLEAN : OnSendResponse(accepted)
  <2>1. NoSocketStarts
    BY <1>3, <1>4, <1>5, <1>6, <1>7, <1>8, <1>11 DEF RxTask
  <2>2. NoMessageStarts
    BY <1>10, <1>11 DEF RxTask, NoMessageStarts, OnConnected,
       OpenFailsUnheard, OnDisconnected,
       OnIncoming, OnMaybeIncoming, OnData, MoveData, RxStops, messageVars,
       listVars
  <2>3. SendGoesOn
    BY <1>1, <1>11 DEF RxTask, SendGoesOn, OnConnected, OpenFailsUnheard,
       OnDisconnected,
       OnIncoming, OnMaybeIncoming, OnData, OnMessageReference, MoveData,
       RxStops, frameVars, listVars, socketVars
  <2> QED
    BY <2>1, <2>2, <2>3, NoSendStarted
<1> QED
  BY <1>9, <1>11

\* Nor do the modem and the idle timeout.
LEMMA OtherSends ==
  ASSUME TypeOK, SendInv, Device \/ IdleTimeout \/ UNCHANGED vars
  PROVE  SendInv'
<1>1. ASSUME Device \/ UNCHANGED vars PROVE SendInv'
  BY <1>1 DEF Device, TakeOpenRequest, TakeCloseRequest, PeerSends, SendInv,
     SendingIsAwaited, vars, frameVars, listVars, socketVars, messageVars
<1>2. ASSUME IdleTimeout PROVE SendInv'
  BY <1>2 DEF IdleTimeout, LeaveNetwork, Goto, SendInv, SendingIsAwaited,
     frameVars, listVars, socketVars, messageVars
<1> QED
  BY <1>1, <1>2

\* In a pass a send starts with a packet at hand and is over when the awaited
\* call returns.
LEMMA PassSends ==
  ASSUME TypeOK, FrameInv, SendInv, Pass PROVE SendInv'
<1> DEFINE Quiet ==
      \/ AcquireProcess \/ CloseSocket \/ CloseLoopEnds \/ SocketsRemoved
      \/ ConnectSocket \/ ProcessLoopEnds \/ StartSendMessage
      \/ MessageLoopEnds \/ MessagesRemoved \/ EndPass \/ Resume
      \/ \E room \in BOOLEAN : StartReceive(room) \/ StartCheck(room)
      \/ \E r \in Result : \/ CloseReturns(r) \/ ConnectReturns(r)
                           \/ ReceiveReturns(r) \/ CheckReturns(r)
<1>1. ASSUME Quiet PROVE SendInv'
  <2>1. /\ pc \notin {"SendPacketImpl", "SendMessageImpl"}
        /\ pc' # "SendPacketImpl"
    BY <1>1 DEF AcquireProcess, CloseSocket, CloseLoopEnds, SocketsRemoved,
       ConnectSocket, ProcessLoopEnds, StartSendMessage, MessageLoopEnds,
       MessagesRemoved, EndPass, Resume, StartReceive, StartCheck,
       CloseReturns, ConnectReturns, ReceiveReturns, CheckReturns,
       LeaveNetwork, Goto
  <2>2. ASSUME NEW f, flags' = [flags EXCEPT ![cur] = f],
               Sock!IsSending(f) => Sock!IsSending(flags[cur])
        PROVE  NoSocketStarts
    BY <2>2 DEF NoSocketStarts, TypeOK
  <2>3. ASSUME CloseSocket PROVE NoSocketStarts
    <3>1. Sock!IsSending(flags[cur] \cup {"ModemClosing"}) =>
            Sock!IsSending(flags[cur])
      BY DEF Sock!IsSending
    <3> QED
      BY <2>2, <2>3, <3>1 DEF NoSocketStarts, CloseSocket
  <2>4. ASSUME ConnectSocket PROVE NoSocketStarts
    <3> DEFINE f == IF HasChannel THEN Sock!Allocate(flags[cur])
                    ELSE flags[cur]
    <3>1. /\ Sock!IsSending(f) => Sock!IsSending(flags[cur])
          /\ Sock!IsSending(f \cup {"ModemConnecting"}) =>
               Sock!IsSending(flags[cur])
      BY DEF Sock!IsSending, Sock!Allocate
    <3>2. \/ flags' = [flags EXCEPT ![cur] = f]
          \/ flags' = [flags EXCEPT ![cur] = f \cup {"ModemConnecting"}]
      BY <2>4 DEF ConnectSocket
    <3> QED
      BY <2>2, <3>1, <3>2
  <2>5. ASSUME NEW room, StartReceive(room) \/ StartCheck(room)
        PROVE  NoSocketStarts
    <3>1. Sock!IsSending(Sock!IncomingRequested(flags[cur])) =>
            Sock!IsSending(flags[cur])
      BY DEF Sock!IsSending, Sock!IncomingRequested
    <3> QED
      BY <2>2, <2>5, <3>1 DEF NoSocketStarts, StartReceive, StartCheck
  <2>6. ASSUME NEW r, ConnectReturns(r) PROVE NoSocketStarts
    <3>1. /\ Sock!IsSending(Sock!Bound(flags[cur])) =>
               Sock!IsSending(flags[cur])
          /\ Sock!IsSending(Sock!Finished(flags[cur])) =>
               Sock!IsSending(flags[cur])
      BY DEF Sock!IsSending, Sock!Bound, Sock!Finished
    <3> QED
      BY <2>2, <2>6, <3>1 DEF NoSocketStarts, ConnectReturns
  <2>7. ASSUME flags' = flags PROVE NoSocketStarts
    BY <2>7 DEF NoSocketStarts
  <2>8. NoSocketStarts
    BY <1>1, <2>3, <2>4, <2>5, <2>6, <2>7 DEF AcquireProcess, CloseLoopEnds,
       SocketsRemoved, ProcessLoopEnds, StartSendMessage, MessageLoopEnds,
       MessagesRemoved, EndPass, Resume, CloseReturns, ReceiveReturns,
       CheckReturns, listVars, socketVars
  <2>9. mflags' = mflags
    BY <1>1 DEF AcquireProcess, CloseSocket, CloseLoopEnds, SocketsRemoved,
       ConnectSocket, ProcessLoopEnds, StartSendMessage, MessageLoopEnds,
       MessagesRemoved, EndPass, Resume, StartReceive, StartCheck,
       CloseReturns, ConnectReturns, ReceiveReturns, CheckReturns, listVars,
       messageVars
  <2> QED
    BY <2>1, <2>8, <2>9, NoSendStarted DEF SendGoesOn, NoMessageStarts
<1>2. ASSUME StartSend PROVE SendInv'
  <2>1. \A s \in Socket : ~Sock!IsSending(flags[s])
    BY <1>2 DEF StartSend, SendInv, SendingIsAwaited
  <2>2. \A m \in Message : ~Msg!IsSending(mflags[m])
    BY <1>2 DEF StartSend, SendInv, SendingIsAwaited
  <2> QED
    BY <1>2, <2>1, <2>2 DEF StartSend, Goto, SendInv, SendingIsAwaited, TypeOK,
       Sock!DataToSend, Sock!Sending, Sock!IsSending, messageVars, frameVars
<1>3. ASSUME NEW r, SendReturns(r) PROVE SendInv'
  BY <1>3 DEF SendReturns, Goto, SendInv, SendingIsAwaited, TypeOK,
     Sock!SendingFinished, Sock!IsSending, messageVars, frameVars
<1>4. ASSUME SubmitMessage PROVE SendInv'
  BY <1>4 DEF SubmitMessage, SendInv, SendingIsAwaited, TypeOK, Msg!Sending,
     Msg!IsSending, Msg!ShouldSend, socketVars, frameVars
<1>5. ASSUME NEW r, SendMessageReturns(r) PROVE SendInv'
  <2>1. \A s \in Socket : ~Sock!IsSending(flags'[s])
    BY <1>5 DEF SendMessageReturns, SendInv, SendingIsAwaited, socketVars
  <2>2. \A m \in Message : ~Msg!IsSending(mflags'[m])
    BY <1>5 DEF SendMessageReturns, SendInv, SendingIsAwaited, TypeOK,
       Msg!IsSending, Msg!ShouldSend, Msg!SendingFailed
  <2> QED
    BY <1>5, <2>1, <2>2 DEF SendMessageReturns, Goto, SendInv, SendingIsAwaited
<1> QED
  BY <1>1, <1>2, <1>3, <1>4, <1>5 DEF Pass

-----------------------------------------------------------------------------
(* Power-on and the idle countdown                                         *)

\* The task is about to power the modem on, or there is no task.
PoweredDown ==
  {"Stopped", "Scheduled", "DestroyOld", "PowerOnImpl", "RetryDelay",
   "PowerOnImplAgain"}

\* The receive task runs only between power-on and power-off and takes its
\* transfer with it; the modem's links end with its power.
CleanInv ==
  /\ "RxTaskActive" \notin signals => rxLen = 0 /\ rxSock = NULL
  /\ pc \in PoweredDown => "RxTaskActive" \notin signals
  /\ pc \in PoweredDown \cup {"AwaitRxStop"} =>
       \A s \in Socket : link[s] = "idle"

\* Every step keeps that.
LEMMA CleanStep ==
  ASSUME TypeOK, TaskInv, CleanInv, [Next]_vars PROVE CleanInv'
<1> USE DEF CleanInv, PoweredDown
<1>1. ASSUME App PROVE CleanInv'
  BY <1>1 DEF App, CreateSocket, ReleaseSocket, Disconnect, WriteOutput,
     SendMessage, ReleaseMessage, EnsureRunning, TaskInv, envVars, rxVars,
     deviceVars
<1>2. ASSUME StartUp PROVE CleanInv'
  BY <1>2 DEF StartUp, Preprocess, RemoveSocket, RemoveMessage, NothingToDo,
     PowerOn, PowerOnFailed, RetryPowerOn, PowerOnFailedAgain, PoweredOn,
     Started, StartFailed, SimUnlocked, NetworkConnected, BringUpFailed,
     OldDestroyed, StopTask, Goto, envVars, rxVars, deviceVars
<1>3. ASSUME Pass PROVE CleanInv'
  <2>1. /\ pc \notin PoweredDown \cup {"AwaitRxStop"}
        /\ pc' \notin PoweredDown \cup {"AwaitRxStop"}
    BY <1>3 DEF Pass, AcquireProcess, CloseSocket, CloseLoopEnds,
       SocketsRemoved, ConnectSocket, StartSend, ProcessLoopEnds,
       StartSendMessage, SubmitMessage, MessageLoopEnds, MessagesRemoved,
       EndPass, Resume, StartReceive, StartCheck, CloseReturns,
       ConnectReturns, SendReturns, ReceiveReturns, CheckReturns,
       SendMessageReturns, LeaveNetwork, Goto
  <2>2. /\ UNCHANGED <<rxSock, rxLen>>
        /\ "RxTaskActive" \in signals' <=> "RxTaskActive" \in signals
    BY <1>3 DEF Pass, AcquireProcess, CloseSocket, CloseLoopEnds,
       SocketsRemoved, ConnectSocket, StartSend, ProcessLoopEnds,
       StartSendMessage, SubmitMessage, MessageLoopEnds, MessagesRemoved,
       EndPass, Resume, StartReceive, StartCheck, CloseReturns,
       ConnectReturns, SendReturns, ReceiveReturns, CheckReturns,
       SendMessageReturns, LeaveNetwork, Goto, envVars, rxVars
  <2> QED
    BY <2>1, <2>2
<1>4. ASSUME ShutDown PROVE CleanInv'
  BY <1>4 DEF ShutDown, NetworkDisconnected, FinishSockets, PoweredOff,
     TaskEnds, RxStopped, StopTask, Goto, envVars, rxVars, deviceVars
<1>5. ASSUME RxTask PROVE CleanInv'
  <2>1. ASSUME NEW s \in Socket, OnConnected(s) PROVE CleanInv'
    BY <2>1 DEF OnConnected, LineArrives, rxVars, TypeOK
  <2>2. ASSUME NEW s \in Socket, OnDisconnected(s) PROVE CleanInv'
    BY <2>2 DEF OnDisconnected, LineArrives, rxVars, TypeOK
  <2>3. ASSUME NEW s \in Socket, OnIncoming(s) \/ OnMaybeIncoming(s)
        PROVE  CleanInv'
    BY <2>3 DEF OnIncoming, OnMaybeIncoming, envVars, rxVars, deviceVars
  <2>8. ASSUME NEW s \in Socket, OpenFailsUnheard(s) PROVE CleanInv'
    BY <2>8 DEF OpenFailsUnheard, LineArrives, rxVars, TypeOK
  <2>4. ASSUME NEW s \in Socket, OnData(s) PROVE CleanInv'
    BY <2>4 DEF OnData, LineArrives
  <2>5. ASSUME \/ \E accepted \in BOOLEAN : OnSendResponse(accepted)
               \/ OnMessageReference
        PROVE  CleanInv'
    BY <2>5 DEF OnSendResponse, OnMessageReference, envVars, rxVars,
       deviceVars
  <2>6. ASSUME MoveData PROVE CleanInv'
    BY <2>6 DEF MoveData, deviceVars
  <2>7. ASSUME RxStops PROVE CleanInv'
    BY <2>7 DEF RxStops, deviceVars
  <2> QED
    BY <1>5, <2>1, <2>2, <2>3, <2>4, <2>5, <2>6, <2>7, <2>8 DEF RxTask
<1>6. ASSUME Device \/ IdleTimeout PROVE CleanInv'
  BY <1>6 DEF Device, TakeOpenRequest, TakeCloseRequest, PeerSends, IdleTimeout,
     LeaveNetwork, Goto, envVars, rxVars
<1>7. ASSUME UNCHANGED vars PROVE CleanInv'
  BY <1>7 DEF vars, rxVars, deviceVars
<1> QED
  BY <1>1, <1>2, <1>3, <1>4, <1>5, <1>6, <1>7 DEF Next, Task

\* Only EndPass enters the idle countdown, and a request that fills a list
\* during it raises RequireActive.
LEMMA IdleStep ==
  ASSUME TypeOK, IdleIsEmpty, [Next]_vars PROVE IdleIsEmpty'
<1>1. ASSUME App PROVE IdleIsEmpty'
  BY <1>1 DEF App, CreateSocket, ReleaseSocket, Disconnect, WriteOutput,
     SendMessage, ReleaseMessage, EnsureRunning, IdleIsEmpty, socketVars,
     messageVars
<1>2. ASSUME EndPass PROVE IdleIsEmpty'
  BY <1>2 DEF EndPass, NothingListed, LeaveNetwork, Goto, IdleIsEmpty,
     listVars, socketVars, messageVars
<1>3. ASSUME Task, ~EndPass PROVE pc' # "AwaitActivity"
  <2>1. ASSUME StartUp PROVE pc' # "AwaitActivity"
    BY <2>1 DEF StartUp, Preprocess, RemoveSocket, RemoveMessage, NothingToDo,
       PowerOn, PowerOnFailed, RetryPowerOn, PowerOnFailedAgain, PoweredOn,
       Started, StartFailed, SimUnlocked, NetworkConnected, BringUpFailed,
       OldDestroyed, StopTask, Goto
  <2>2. ASSUME Pass PROVE pc' # "AwaitActivity"
    BY <1>3, <2>2 DEF Pass, AcquireProcess, CloseSocket, CloseLoopEnds,
       SocketsRemoved, ConnectSocket, StartSend, ProcessLoopEnds,
       StartSendMessage, SubmitMessage, MessageLoopEnds, MessagesRemoved,
       Resume, StartReceive, StartCheck, CloseReturns, ConnectReturns,
       SendReturns, ReceiveReturns, CheckReturns, SendMessageReturns, Goto
  <2>3. ASSUME ShutDown PROVE pc' # "AwaitActivity"
    BY <2>3 DEF ShutDown, NetworkDisconnected, FinishSockets, PoweredOff,
       TaskEnds, StopTask, Goto
  <2> QED
    BY <1>3, <2>1, <2>2, <2>3 DEF Task
<1>4. ASSUME RxTask PROVE IdleIsEmpty'
  BY <1>4 DEF RxTask, OnConnected, OpenFailsUnheard, OnDisconnected,
     OnIncoming, OnMaybeIncoming,
     OnData, OnSendResponse, OnMessageReference, MoveData, RxStops,
     IdleIsEmpty, listVars, socketVars, messageVars
<1>5. ASSUME IdleTimeout PROVE IdleIsEmpty'
  BY <1>5 DEF IdleTimeout, LeaveNetwork, Goto, IdleIsEmpty
<1>6. ASSUME Device \/ UNCHANGED vars PROVE IdleIsEmpty'
  BY <1>6 DEF Device, TakeOpenRequest, TakeCloseRequest, PeerSends, vars,
     IdleIsEmpty,
     listVars, socketVars, messageVars
<1> QED
  BY <1>1, <1>2, <1>3, <1>4, <1>5, <1>6 DEF Next, IdleIsEmpty

-----------------------------------------------------------------------------
(* The theorems *)

\* What every step keeps.
Inv ==
  /\ TypeOK /\ TaskInv /\ FrameInv /\ SendInv
  /\ CleanInv /\ IdleIsEmpty

\* Inv is inductive.
LEMMA Inductive ==
  /\ Init => Inv
  /\ Inv /\ [Next]_vars => Inv'
<1>1. Init => Inv
  <2> SUFFICES ASSUME Init PROVE Inv
    OBVIOUS
  <2>1. TypeOK
    <3>1. /\ signals \subseteq Signal
          /\ sockets \in Seq(Socket) /\ messages \in Seq(Message)
      BY DEF Init
    <3>0. process \in BOOLEAN
      BY DEF Init
    <3>2. /\ flags \in [Socket -> SUBSET Sock!SocketFlag]
          /\ out \in [Socket -> Nat]
          /\ mflags \in [Message -> SUBSET Msg!MessageFlag]
          /\ mr \in [Message -> BOOLEAN]
      BY DEF Init
    <3>3. /\ atResult \in Result /\ modemStatus = "Ok"
          /\ pc \in Await /\ cur = NULL /\ nxt = NULL
          /\ rxSock = NULL /\ rxLen \in Nat
      BY SMT DEF Init, Result, Await
    <3>4. /\ link \in [Socket -> {"idle", "opening", "open", "closing"}]
          /\ inbox \in [Socket -> Nat]
      BY DEF Init
    <3> QED
      BY <3>0, <3>1, <3>2, <3>3, <3>4 DEF TypeOK
  <2>2. TaskInv /\ FrameInv
    BY DEF Init, TaskInv, FrameInv, OnSocket
  <2>3. SendInv
    BY DEF Init, SendInv, SendingIsAwaited, Sock!IsSending, Msg!IsSending
  <2>4. CleanInv /\ IdleIsEmpty
    BY DEF Init, CleanInv, IdleIsEmpty
  <2> QED
    BY <2>1, <2>2, <2>3, <2>4 DEF Inv
<1>2. ASSUME Inv, [Next]_vars PROVE Inv'
  <2>1. TypeOK' /\ FrameInv'
    BY <1>2, AppTypes, StartUpTypes, PassTypes, ShutDownTypes, RxTypes,
       OtherTypes DEF Inv, Next, Task
  <2>2. TaskInv'
    BY <1>2, TaskStep DEF Inv
  <2>3. SendInv'
    BY <1>2, AppSends, EdgeSends, PassSends, RxSends, OtherSends
       DEF Inv, Next, Task
  <2>4. CleanInv'
    BY <1>2, CleanStep DEF Inv
  <2>5. IdleIsEmpty'
    BY <1>2, IdleStep DEF Inv
  <2> QED
    BY <2>1, <2>2, <2>3, <2>4, <2>5 DEF Inv
<1> QED
  BY <1>1, <1>2

\* Inv holds in every reachable state.
THEOREM Invariance == Spec => []Inv
  BY Inductive, PTL DEF Spec

\* Every variable keeps its type; above all no list, frame or pipe counter is
\* ever left dangling.
THEOREM TypeCorrect == Spec => []TypeOK
<1>1. Inv => TypeOK
  BY DEF Inv
<1> QED
  BY <1>1, Invariance, PTL

\* The socket or message the modem task has at hand when it resumes from an
\* awaited driver call is still in its list: whatever the application releases
\* and the receive task finishes meanwhile, Modem::Task's f.s, f.m and f.next
\* never dangle.
THEOREM CursorsLive == Spec => []CursorLive
<1>1. Inv => CursorLive
  BY DEF Inv, FrameInv, OnSocket, CursorLive
<1> QED
  BY <1>1, Invariance, PTL

\* ModemSending is up only while the task is inside the call that waits for
\* the modem's confirmation, for sockets and for messages.
THEOREM SendsAwaited == Spec => []SendingIsAwaited
<1>1. Inv => SendingIsAwaited
  BY DEF Inv, SendInv
<1> QED
  BY <1>1, Invariance, PTL

\* Power-on never meets a receive task, a transfer or a connection of the
\* previous session, however that one ended.
THEOREM PowerOnIsClean == Spec => []StartsClean
<1>1. Inv => StartsClean
  BY DEF Inv, CleanInv, PoweredDown, StartsClean
<1> QED
  BY <1>1, Invariance, PTL

\* The idle countdown never runs over a socket or message: a request made
\* during it stops it.
THEOREM IdleListsEmpty == Spec => []IdleIsEmpty
<1>1. Inv => IdleIsEmpty
  BY DEF Inv
<1> QED
  BY <1>1, Invariance, PTL

-----------------------------------------------------------------------------
(* Who keeps a socket in use                                               *)

\* Points of a pass from the first connect to its end: no socket is destroyed
\* there.
AfterSweep ==
  {"ProcessSockets", "ConnectImpl", "Send", "SendPacketImpl", "Receive",
   "ReceivePacketImpl", "Check", "CheckIncomingImpl", "SendMessages",
   "SendMessageImpl", "RemoveMessages", "EndOfPass"}

\* Points of the way to power-off.
Leaving ==
  {"DisconnectNetworkImpl", "FinishSockets", "PowerOffImpl", "AwaitRxStop"}

\* The session is lost: a command has timed out in this pass, whose end sees
\* nothing but refused commands, or the modem is being turned off.
GivenUp ==
  \/ /\ pc \in AfterSweep
     /\ atResult \in {"Timeout", "Failure"} /\ CommandsRefused
  \/ pc \in Leaving

\* The modem has a connection for s or its data is being moved.
InUse(s) == link[s] # "idle" \/ (rxLen > 0 /\ rxSock = s)

\* Why s is not destroyed: the modem's reference, the call that opens its
\* connection, or the end of the session.
Kept(s) ==
  \/ "ModemReference" \in flags[s]
  \/ pc = "ConnectImpl" /\ cur = s
  \/ GivenUp

OwnerInv ==
  /\ \A s \in Socket : InUse(s) => s \in Listed(sockets) /\ Kept(s)
  /\ rxLen > 0 /\ rxSock # NULL =>
       link[rxSock] # "idle" \/ pc = "AwaitRxStop"

-----------------------------------------------------------------------------
(* Two ways for a step to keep OwnerInv                                    *)

\* No socket's use begins, ...
NoUseBegins == \A s \in Socket : InUse(s)' => InUse(s)

\* ... no socket in use is taken out of the list or loses the reference, ...
NoUseBreaks ==
  \A s \in Socket :
    InUse(s)' =>
      /\ s \in Listed(sockets) => s \in Listed(sockets')
      /\ "ModemReference" \in flags[s] => "ModemReference" \in flags'[s]

\* ... and the call that opens a connection, or the lost session, goes on.
HoldGoesOn ==
  /\ pc = "ConnectImpl" => pc' = pc /\ cur' = cur
  /\ GivenUp => GivenUp'

\* The transfer under way is not cut off from its connection.
TransferGoesOn ==
  rxLen' > 0 /\ rxSock' # NULL =>
    /\ rxLen > 0 /\ rxSock' = rxSock
    /\ link[rxSock] # "idle" => link'[rxSock] # "idle"
    /\ pc = "AwaitRxStop" => pc' = pc

\* A step that does none of this keeps OwnerInv.
LEMMA NothingBroken ==
  ASSUME OwnerInv, NoUseBegins, NoUseBreaks, HoldGoesOn, TransferGoesOn
  PROVE  OwnerInv'
<1>1. ASSUME NEW s \in Socket, InUse(s)'
      PROVE  s \in Listed(sockets)' /\ Kept(s)'
  <2>1. s \in Listed(sockets) /\ Kept(s)
    BY <1>1 DEF NoUseBegins, OwnerInv
  <2>2. s \in Listed(sockets')
    BY <1>1, <2>1 DEF NoUseBreaks
  <2>3. Kept(s)'
    BY <1>1, <2>1 DEF NoUseBreaks, HoldGoesOn, Kept
  <2> QED
    BY <2>2, <2>3 DEF Listed
<1>2. (rxLen > 0 /\ rxSock # NULL =>
         link[rxSock] # "idle" \/ pc = "AwaitRxStop")'
  BY DEF TransferGoesOn, OwnerInv
<1> QED
  BY <1>1, <1>2 DEF OwnerInv

\* Where no socket is in use there is nothing to keep.
LEMMA NobodyInUse ==
  ASSUME TypeOK', \A s \in Socket : ~InUse(s)'
  PROVE  OwnerInv'
BY DEF OwnerInv, InUse, TypeOK

\* Removing one element leaves the others in the list.
LEMMA RemovedOne ==
  ASSUME NEW S, NEW q \in Seq(S), NEW i \in DOMAIN q, NEW x \in ToSet(q),
         x # q[i]
  PROVE  x \in ToSet(RemoveAt(q, i))
<1>1. PICK j \in DOMAIN q : q[j] = x
  BY DEF ToSet
<1>2. j \in 1..Len(q) /\ i \in 1..Len(q) /\ j # i /\ Len(q) \in Nat
  BY <1>1
<1> DEFINE left == SubSeq(q, 1, i - 1)
           right == SubSeq(q, i + 1, Len(q))
<1>3. /\ left \in Seq(S) /\ Len(left) = i - 1
      /\ right \in Seq(S) /\ Len(right) = Len(q) - i
      /\ \A k \in 1..(i - 1) : left[k] = q[k]
      /\ \A k \in 1..(Len(q) - i) : right[k] = q[i + k]
  BY <1>2
<1>4. RemoveAt(q, i) = left \o right
  BY DEF RemoveAt
<1> HIDE DEF left, right
<1>5. CASE j < i
  <2>1. j \in 1..(i - 1)
    BY <1>2, <1>5
  <2>2. j \in DOMAIN (left \o right) /\ (left \o right)[j] = x
    BY <1>1, <1>2, <1>3, <2>1
  <2> QED
    BY <1>4, <2>2 DEF ToSet
<1>6. CASE j > i
  <2>1. j - i \in 1..(Len(q) - i) /\ i + (j - i) = j
    BY <1>2, <1>6
  <2>2. right[j - i] = x
    BY <1>1, <1>3, <2>1
  <2>3. /\ j - 1 \in DOMAIN (left \o right)
        /\ (left \o right)[j - 1] = right[j - 1 - (i - 1)]
    BY SMTT(20), <1>2, <1>3, <1>6
  <2>4. j - 1 - (i - 1) = j - i
    BY <1>2
  <2> QED
    BY <1>4, <2>2, <2>3, <2>4 DEF ToSet
<1> QED
  BY <1>2, <1>5, <1>6

-----------------------------------------------------------------------------
(* The steps                                                               *)

\* The application gives a socket a new flag word only when it is not in use.
LEMMA AppOwners ==
  ASSUME TypeOK, TaskInv, OwnerInv, App PROVE OwnerInv'
<1> USE DEF NoUseBegins, NoUseBreaks, HoldGoesOn, TransferGoesOn, GivenUp,
            InUse, CommandsRefused
<1>1. ASSUME NEW s \in Socket, NEW tls \in Security, CreateSocket(s, tls)
      PROVE  OwnerInv'
  <2>1. ~InUse(s)
    BY <1>1 DEF CreateSocket, OwnerInv
  <2>2. Listed(sockets) \subseteq Listed(sockets')
    BY <1>1, ListTypes DEF CreateSocket, TypeOK, Listed
  <2>3. NoUseBegins /\ TransferGoesOn
    BY <1>1 DEF CreateSocket, TaskInv, EnsureRunning, envVars, rxVars,
       deviceVars
  <2>4. NoUseBreaks
    BY <1>1, <2>1, <2>2 DEF CreateSocket, TypeOK, envVars, rxVars, deviceVars
  <2>5. HoldGoesOn
    BY <1>1 DEF CreateSocket, TaskInv, EnsureRunning, atVars, frameVars,
       Leaving, AfterSweep
  <2> QED
    BY <2>3, <2>4, <2>5, NothingBroken
<1>2. ASSUME NEW s \in Socket, ReleaseSocket(s) \/ Disconnect(s)
      PROVE  OwnerInv'
  <2>1. NoUseBegins /\ TransferGoesOn
    BY <1>2 DEF ReleaseSocket, Disconnect, TaskInv, EnsureRunning, envVars,
       rxVars, deviceVars
  <2>2. NoUseBreaks
    BY <1>2 DEF ReleaseSocket, Disconnect, TypeOK, Sock!Released,
       Sock!CloseRequested
  <2>3. HoldGoesOn
    BY <1>2 DEF ReleaseSocket, Disconnect, TaskInv, EnsureRunning, atVars,
       frameVars, Leaving, AfterSweep
  <2> QED
    BY <2>1, <2>2, <2>3, NothingBroken
<1>3. ASSUME \/ \E s \in Socket : WriteOutput(s)
             \/ \E m \in Message : SendMessage(m) \/ ReleaseMessage(m)
      PROVE  OwnerInv'
  <2>1. NoUseBegins /\ NoUseBreaks /\ TransferGoesOn
    BY <1>3 DEF WriteOutput, SendMessage, ReleaseMessage, TaskInv,
       EnsureRunning, socketVars, envVars, rxVars, deviceVars
  <2>2. HoldGoesOn
    BY <1>3 DEF WriteOutput, SendMessage, ReleaseMessage, TaskInv,
       EnsureRunning, atVars, frameVars, Leaving, AfterSweep
  <2> QED
    BY <2>1, <2>2, NothingBroken
<1> QED
  BY <1>1, <1>2, <1>3 DEF App

\* Up to power-on nothing is in use, up to the first pass nothing changes.
LEMMA StartUpOwners ==
  ASSUME TypeOK, TypeOK', CleanInv, OwnerInv, StartUp PROVE OwnerInv'
<1>1. ASSUME pc \in PoweredDown, UNCHANGED envVars PROVE OwnerInv'
  <2>1. \A s \in Socket : ~InUse(s)'
    BY <1>1 DEF CleanInv, InUse, envVars, rxVars, deviceVars
  <2> QED
    BY <2>1, NobodyInUse
<1>2. ASSUME pc \in {"StartImpl", "UnlockSimImpl", "ConnectNetworkImpl"},
             UNCHANGED <<sockets, flags, envVars>>
      PROVE  OwnerInv'
  <2>1. NoUseBegins /\ NoUseBreaks
    BY <1>2 DEF NoUseBegins, NoUseBreaks, InUse, envVars, rxVars, deviceVars
  <2>2. HoldGoesOn /\ TransferGoesOn
    BY <1>2 DEF HoldGoesOn, TransferGoesOn, GivenUp, AfterSweep, Leaving,
       envVars, rxVars, deviceVars
  <2> QED
    BY <2>1, <2>2, NothingBroken
<1>3. ASSUME RemoveSocket, pc = "RemoveSockets" PROVE OwnerInv'
  <2>1. PICK i \in DOMAIN sockets : DeletableSocket(i) /\ DestroySocket(i)
    BY <1>3 DEF RemoveSocket
  <2>2. sockets[i] \in Socket
    BY DEF TypeOK
  <2>3. ~InUse(sockets[i])
    BY <1>3, <2>1, <2>2 DEF OwnerInv, Kept, GivenUp, AfterSweep, Leaving,
       DeletableSocket, Sock!CanDelete
  <2>4. \A s \in Listed(sockets) : s # sockets[i] => s \in Listed(sockets')
    BY <2>1, RemovedOne DEF DestroySocket, Listed, TypeOK
  <2>5. NoUseBegins
    BY <1>3 DEF NoUseBegins, InUse, RemoveSocket, envVars, rxVars, deviceVars
  <2>6. NoUseBreaks
    BY <2>1, <2>3, <2>4, <2>5 DEF NoUseBegins, NoUseBreaks, DestroySocket,
       TypeOK
  <2>7. HoldGoesOn /\ TransferGoesOn
    BY <1>3 DEF HoldGoesOn, TransferGoesOn, GivenUp, AfterSweep, Leaving,
       RemoveSocket, envVars, rxVars, deviceVars
  <2> QED
    BY <2>5, <2>6, <2>7, NothingBroken
<1>4. ASSUME RemoveMessage, pc = "RemoveMessages" PROVE OwnerInv'
  BY <1>4 DEF RemoveMessage, OwnerInv, InUse, Kept, GivenUp, CommandsRefused,
     socketVars, atVars, frameVars, envVars, rxVars, deviceVars
<1>5. UNCHANGED envVars
  BY DEF StartUp, Preprocess, RemoveSocket, RemoveMessage, NothingToDo,
     PowerOn, PowerOnFailed, RetryPowerOn, PowerOnFailedAgain, PoweredOn,
     Started, StartFailed, SimUnlocked, NetworkConnected, BringUpFailed
<1>6. \/ pc \in PoweredDown
      \/ /\ pc \in {"StartImpl", "UnlockSimImpl", "ConnectNetworkImpl"}
         /\ UNCHANGED <<sockets, flags>>
      \/ RemoveSocket /\ pc = "RemoveSockets"
      \/ RemoveMessage /\ pc = "RemoveMessages"
  BY DEF StartUp, Preprocess, RemoveSocket, RemoveMessage, NothingToDo,
     PowerOn, PowerOnFailed, RetryPowerOn, PowerOnFailedAgain, PoweredOn,
     Started, StartFailed, SimUnlocked, NetworkConnected, BringUpFailed,
     OldDestroyed, PoweredDown, listVars, socketVars
<1> QED
  BY <1>1, <1>2, <1>3, <1>4, <1>5, <1>6

\* In a pass only a connect that fails takes a reference away: the modem has
\* then dropped the connection, or the session is lost.
LEMMA PassOwners ==
  ASSUME TypeOK, FrameInv, OwnerInv, Pass PROVE OwnerInv'
<1> DEFINE Quiet ==
      \/ AcquireProcess \/ CloseSocket \/ CloseLoopEnds \/ SocketsRemoved
      \/ ConnectSocket \/ StartSend \/ ProcessLoopEnds \/ StartSendMessage
      \/ SubmitMessage \/ MessageLoopEnds \/ MessagesRemoved \/ EndPass
      \/ Resume
      \/ \E room \in BOOLEAN : StartReceive(room) \/ StartCheck(room)
      \/ \E r \in Result :
           \/ CloseReturns(r) \/ SendReturns(r) \/ ReceiveReturns(r)
           \/ CheckReturns(r) \/ SendMessageReturns(r)
<1>1. ASSUME Quiet PROVE OwnerInv'
  <2>1. UNCHANGED <<sockets, envVars>>
    BY <1>1 DEF AcquireProcess, CloseSocket, CloseLoopEnds, SocketsRemoved,
       ConnectSocket, StartSend, ProcessLoopEnds, StartSendMessage,
       SubmitMessage, MessageLoopEnds, MessagesRemoved, EndPass, Resume,
       StartReceive, StartCheck, CloseReturns, SendReturns, ReceiveReturns,
       CheckReturns, SendMessageReturns, listVars, socketVars
  <2>2. pc # "AwaitRxStop" /\ pc # "ConnectImpl"
    BY <1>1 DEF AcquireProcess, CloseSocket, CloseLoopEnds, SocketsRemoved,
       ConnectSocket, StartSend, ProcessLoopEnds, StartSendMessage,
       SubmitMessage, MessageLoopEnds, MessagesRemoved, EndPass, Resume,
       StartReceive, StartCheck, CloseReturns, SendReturns, ReceiveReturns,
       CheckReturns, SendMessageReturns
  <2> DEFINE KeepsReferences ==
        \A s \in Socket :
          "ModemReference" \in flags[s] => "ModemReference" \in flags'[s]
  <2>3. KeepsReferences
    <3>1. ASSUME NEW f, flags' = [flags EXCEPT ![cur] = f],
                 "ModemReference" \in flags[cur] => "ModemReference" \in f
          PROVE  KeepsReferences
      BY <3>1 DEF TypeOK
    <3>2. ASSUME CloseSocket PROVE KeepsReferences
      BY <3>1, <3>2 DEF CloseSocket
    <3>3. ASSUME ConnectSocket PROVE KeepsReferences
      BY <3>1, <3>3 DEF ConnectSocket, Sock!Allocate
    <3>4. ASSUME StartSend PROVE KeepsReferences
      BY <3>1, <3>4 DEF StartSend, Sock!Sending
    <3>5. ASSUME NEW room, StartReceive(room) \/ StartCheck(room)
          PROVE  KeepsReferences
      BY <3>1, <3>5 DEF StartReceive, StartCheck, Sock!IncomingRequested
    <3>6. ASSUME NEW r, SendReturns(r) PROVE KeepsReferences
      BY <3>1, <3>6 DEF SendReturns, Sock!SendingFinished
    <3> QED
      BY <1>1, <3>2, <3>3, <3>4, <3>5, <3>6 DEF AcquireProcess,
         CloseLoopEnds, SocketsRemoved, ProcessLoopEnds, StartSendMessage,
         SubmitMessage, MessageLoopEnds, MessagesRemoved, EndPass, Resume,
         CloseReturns, ReceiveReturns, CheckReturns, SendMessageReturns,
         listVars, socketVars
  <2>4. GivenUp => GivenUp'
    BY <1>1 DEF AcquireProcess, CloseSocket, CloseLoopEnds, SocketsRemoved,
       ConnectSocket, StartSend, ProcessLoopEnds, StartSendMessage,
       SubmitMessage, MessageLoopEnds, MessagesRemoved, EndPass, Resume,
       StartReceive, StartCheck, CloseReturns, SendReturns, ReceiveReturns,
       CheckReturns, SendMessageReturns, CommandDone, CommandsRefused,
       GivenUp, AfterSweep, Leaving, LeaveNetwork, Goto, atVars
  <2>5. NoUseBegins /\ NoUseBreaks
    BY <2>1, <2>3 DEF NoUseBegins, NoUseBreaks, InUse, envVars, rxVars,
       deviceVars
  <2>6. HoldGoesOn /\ TransferGoesOn
    BY <2>1, <2>2, <2>4 DEF HoldGoesOn, TransferGoesOn, envVars, rxVars,
       deviceVars
  <2> QED
    BY <2>5, <2>6, NothingBroken
<1>2. ASSUME NEW r \in Result, ConnectReturns(r) PROVE OwnerInv'
  <2>1. cur \in Socket /\ cur \in Listed(sockets)
    BY <1>2, ListTypes DEF ConnectReturns, FrameInv, OnSocket, TypeOK, Listed
  <2>2. UNCHANGED <<sockets, envVars>>
    BY <1>2 DEF ConnectReturns
  <2>3. /\ (rxLen > 0 /\ rxSock # NULL => link[rxSock] # "idle")'
        /\ \A s \in Socket : InUse(s)' => InUse(s) /\ link[s] # "idle"
    <3>1. pc = "ConnectImpl" /\ UNCHANGED <<link, rxSock, rxLen>>
      BY <1>2, <2>2 DEF ConnectReturns, envVars, rxVars, deviceVars
    <3> QED
      BY <3>1, ModemAssumption DEF OwnerInv, InUse
  <2>4. r \in {"Timeout", "Failure"} => GivenUp'
    BY <1>2 DEF ConnectReturns, CommandDone, CommandsRefused, Goto, GivenUp,
       AfterSweep
  <2>5. GivenUp => r = "Failure"
    BY <1>2 DEF ConnectReturns, CommandDone, CommandsRefused, GivenUp,
       Leaving
  <2>6. ASSUME NEW s \in Socket, InUse(s)'
        PROVE  s \in Listed(sockets)' /\ Kept(s)'
    <3>1. s \in Listed(sockets) /\ Kept(s) /\ link[s] # "idle"
      BY <2>3, <2>6 DEF OwnerInv
    <3>2. CASE s # cur
      <4>1. flags'[s] = flags[s]
        BY <1>2, <3>2 DEF ConnectReturns, TypeOK
      <4> QED
        BY <2>2, <2>4, <2>5, <3>1, <3>2, <4>1 DEF Kept, Listed
    <3>3. CASE s = cur
      <4>1. r = "OK" => "ModemReference" \in flags'[s]
        BY <1>2, <2>1, <3>3 DEF ConnectReturns, TypeOK, Sock!Bound
      <4>2. r # "Error"
        BY <1>2, <3>1, <3>3 DEF ConnectReturns, OpenTaken
      <4> QED
        BY <2>2, <2>4, <3>1, <4>1, <4>2 DEF Kept, Listed, Result
    <3> QED
      BY <3>2, <3>3
  <2> QED
    BY <2>3, <2>6 DEF OwnerInv
<1> QED
  BY <1>1, <1>2 DEF Pass

\* On the way to power-off sockets are finished, not destroyed; with the power
\* the modem loses its connections.
LEMMA ShutDownOwners ==
  ASSUME TypeOK, TypeOK', CleanInv, OwnerInv, ShutDown PROVE OwnerInv'
<1>1. ASSUME TaskEnds PROVE OwnerInv'
  <2>1. \A s \in Socket : ~InUse(s)'
    BY <1>1 DEF TaskEnds, RxStopped, CleanInv, InUse, envVars, rxVars,
       deviceVars
  <2> QED
    BY <2>1, NobodyInUse
<1>2. ASSUME NEW r, NetworkDisconnected(r) PROVE OwnerInv'
  BY <1>2 DEF NetworkDisconnected, OwnerInv, InUse, Kept, GivenUp, Leaving,
     Goto, listVars, socketVars, envVars, rxVars, deviceVars
<1>3. ASSUME FinishSockets PROVE OwnerInv'
  BY <1>3 DEF FinishSockets, OwnerInv, InUse, Kept, GivenUp, Leaving, Goto,
     envVars, rxVars, deviceVars
<1>4. ASSUME PoweredOff PROVE OwnerInv'
  BY <1>4 DEF PoweredOff, OwnerInv, InUse, Kept, GivenUp, Leaving, Goto,
     listVars, socketVars, rxVars
<1> QED
  BY <1>1, <1>2, <1>3, <1>4 DEF ShutDown

\* An event that ends a connection comes when no data is being moved, and data
\* only over a connection.
LEMMA RxOwners ==
  ASSUME TypeOK, TypeOK', OwnerInv, RxTask PROVE OwnerInv'
<1> USE DEF GivenUp, CommandsRefused
<1>1. ASSUME UNCHANGED <<sockets, atVars, pc, cur>> PROVE HoldGoesOn
  BY <1>1 DEF HoldGoesOn, atVars
<1>2. ASSUME NEW s \in Socket,
             OnConnected(s) \/ OnIncoming(s) \/ OnMaybeIncoming(s)
      PROVE  OwnerInv'
  <2>1. NoUseBegins
    <3>1. \/ link' = link
          \/ link[s] # "idle" /\ link' = [link EXCEPT ![s] = "open"]
      BY <1>2 DEF OnConnected, OnIncoming, OnMaybeIncoming, envVars,
         deviceVars
    <3>2. UNCHANGED rxVars
      BY <1>2 DEF OnConnected, OnIncoming, OnMaybeIncoming, envVars
    <3> QED
      BY <3>1, <3>2 DEF NoUseBegins, InUse, TypeOK, rxVars
  <2>2. NoUseBreaks
    <3>1. PICK f \in {Sock!Connected(flags[s]), Sock!Incoming(flags[s]),
                      Sock!MaybeIncoming(flags[s])} : Notify(s, f)
      BY <1>2 DEF OnConnected, OnIncoming, OnMaybeIncoming
    <3>2. flags[s] \cap {"ModemReference"} \subseteq f
      BY DEF Sock!Connected, Sock!Incoming, Sock!MaybeIncoming
    <3>3. flags' \in {flags, [flags EXCEPT ![s] = f]} /\ sockets' = sockets
      BY <1>2, <3>1 DEF Notify, OnConnected, OnIncoming, OnMaybeIncoming
    <3> QED
      BY <3>2, <3>3 DEF NoUseBreaks, TypeOK
  <2>3. TransferGoesOn
    BY <1>2 DEF OnConnected, OnIncoming, OnMaybeIncoming, LineArrives,
       TransferGoesOn, envVars, rxVars
  <2>4. HoldGoesOn
    BY <1>1, <1>2 DEF OnConnected, OnIncoming, OnMaybeIncoming, frameVars
  <2> QED
    BY <2>1, <2>2, <2>3, <2>4, NothingBroken
<1>3. ASSUME NEW s \in Socket, OnDisconnected(s) PROVE OwnerInv'
  <2>1. NoUseBegins
    BY <1>3 DEF OnDisconnected, NoUseBegins, InUse, TypeOK, rxVars
  <2>2. ~InUse(s)'
    BY <1>3 DEF OnDisconnected, LineArrives, InUse, TypeOK, rxVars
  <2>3. NoUseBreaks
    BY <1>3, <2>2 DEF OnDisconnected, NoUseBreaks, Notify, TypeOK
  <2>4. TransferGoesOn
    BY <1>3 DEF OnDisconnected, LineArrives, TransferGoesOn, rxVars
  <2>5. HoldGoesOn
    BY <1>1, <1>3 DEF OnDisconnected, frameVars
  <2> QED
    BY <2>1, <2>3, <2>4, <2>5, NothingBroken
<1>4. ASSUME NEW s \in Socket, OnData(s) PROVE OwnerInv'
  <2>1. /\ link[s] = "open" /\ link' = link /\ sockets' = sockets
        /\ rxSock' \in {s, NULL}
    BY <1>4 DEF OnData
  <2>2. NoUseBegins
    BY <2>1, ModemAssumption DEF NoUseBegins, InUse
  <2>3. NoUseBreaks
    BY <1>4 DEF OnData, NoUseBreaks, TypeOK, Sock!MaybeIncoming
  <2>4. HoldGoesOn
    BY <1>1, <1>4 DEF OnData, frameVars
  <2>5. \A t \in Socket : InUse(t)' => t \in Listed(sockets)' /\ Kept(t)'
    BY <1>4, <2>1, <2>2, <2>3, <2>4 DEF OwnerInv, NoUseBegins, NoUseBreaks,
       HoldGoesOn, Kept, Listed, OnData
  <2> QED
    BY <2>1, <2>5 DEF OwnerInv
<1>5. ASSUME \/ \E accepted \in BOOLEAN : OnSendResponse(accepted)
             \/ OnMessageReference
      PROVE  OwnerInv'
  <2>1. NoUseBegins /\ TransferGoesOn
    BY <1>5 DEF OnSendResponse, OnMessageReference, NoUseBegins, InUse,
       TransferGoesOn, envVars, rxVars, deviceVars
  <2>2. NoUseBreaks
    BY <1>5 DEF OnSendResponse, OnMessageReference, NoUseBreaks, TypeOK,
       Sock!SendingFinished, socketVars
  <2>3. HoldGoesOn
    BY <1>1, <1>5 DEF OnSendResponse, OnMessageReference, socketVars,
       frameVars
  <2> QED
    BY <2>1, <2>2, <2>3, NothingBroken
<1>6. ASSUME MoveData \/ RxStops PROVE OwnerInv'
  <2>1. NoUseBegins
    BY <1>6 DEF MoveData, RxStops, NoUseBegins, InUse, TypeOK, deviceVars
  <2>2. NoUseBreaks
    BY <1>6 DEF MoveData, RxStops, NoUseBreaks, listVars, socketVars
  <2>3. TransferGoesOn
    BY <1>6 DEF MoveData, RxStops, TransferGoesOn, TypeOK, deviceVars
  <2>4. HoldGoesOn
    BY <1>1, <1>6 DEF MoveData, RxStops, listVars, socketVars, frameVars
  <2> QED
    BY <2>1, <2>2, <2>3, <2>4, NothingBroken
<1>7. ASSUME NEW s \in Socket, OpenFailsUnheard(s) PROVE OwnerInv'
  <2>1. NoUseBegins
    BY <1>7 DEF OpenFailsUnheard, NoUseBegins, InUse, TypeOK, rxVars
  <2>2. NoUseBreaks
    BY <1>7 DEF OpenFailsUnheard, NoUseBreaks, listVars, socketVars
  <2>3. TransferGoesOn
    BY <1>7 DEF OpenFailsUnheard, LineArrives, TransferGoesOn, rxVars
  <2>4. HoldGoesOn
    BY <1>1, <1>7 DEF OpenFailsUnheard, listVars, socketVars, frameVars
  <2> QED
    BY <2>1, <2>2, <2>3, <2>4, NothingBroken
<1> QED
  BY <1>2, <1>3, <1>4, <1>5, <1>6, <1>7 DEF RxTask

\* The modem takes an open request from the call that makes it.
LEMMA OtherOwners ==
  ASSUME TypeOK, FrameInv, OwnerInv, Device \/ IdleTimeout \/ UNCHANGED vars
  PROVE  OwnerInv'
<1> USE DEF InUse, Kept, GivenUp, CommandsRefused
<1>1. ASSUME TakeOpenRequest PROVE OwnerInv'
  <2>1. cur \in Socket /\ cur \in Listed(sockets)
    BY <1>1, ListTypes DEF TakeOpenRequest, FrameInv, OnSocket, TypeOK, Listed
  <2> QED
    BY <1>1, <2>1 DEF TakeOpenRequest, OwnerInv, TypeOK, Listed, listVars,
       socketVars, atVars, frameVars, rxVars
<1>2. ASSUME TakeCloseRequest PROVE OwnerInv'
  BY <1>2 DEF TakeCloseRequest, OwnerInv, TypeOK, listVars, socketVars, atVars,
     frameVars, rxVars
<1>3. ASSUME IdleTimeout PROVE OwnerInv'
  BY <1>3 DEF IdleTimeout, LeaveNetwork, Goto, OwnerInv, Leaving, AfterSweep,
     listVars, socketVars, atVars, frameVars, envVars, rxVars, deviceVars
<1>4. ASSUME UNCHANGED vars PROVE OwnerInv'
  BY <1>4 DEF vars, OwnerInv, Leaving, AfterSweep, socketVars, atVars,
     frameVars, rxVars, deviceVars
<1>5. ASSUME NEW s \in Socket, PeerSends(s) PROVE OwnerInv'
  BY <1>5 DEF PeerSends, OwnerInv, Leaving, AfterSweep, listVars, socketVars,
     atVars, frameVars, rxVars
<1> QED
  BY <1>1, <1>2, <1>3, <1>4, <1>5 DEF Device

-----------------------------------------------------------------------------
(* The theorems *)

\* OwnerInv is inductive together with Inv.
THEOREM Owners == Spec => []OwnerInv
<1>1. Init => OwnerInv
  BY DEF Init, OwnerInv, InUse
<1>2. Inv /\ Inv' /\ OwnerInv /\ [Next]_vars => OwnerInv'
  BY AppOwners, StartUpOwners, PassOwners, ShutDownOwners, RxOwners,
     OtherOwners DEF Inv, Next, Task
<1> QED
  BY <1>1, <1>2, Invariance, PTL DEF Spec

\* RxTask never writes into a socket that has been destroyed, although the
\* sweeps that destroy sockets do not look at rxLen.
THEOREM TransfersLive == Spec => []RxSockLive
<1>1. Inv /\ OwnerInv => RxSockLive
  BY DEF Inv, TypeOK, OwnerInv, InUse, RxSockLive
<1> QED
  BY <1>1, Invariance, Owners, PTL

\* No socket is destroyed while the modem has a connection for it: a late
\* event never finds the next socket on the channel.
THEOREM LinksOwned == Spec => []NoOrphanLink
<1>1. OwnerInv => NoOrphanLink
  BY DEF OwnerInv, InUse, NoOrphanLink
<1> QED
  BY <1>1, Owners, PTL

=============================================================================
