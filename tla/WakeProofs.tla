----------------------------- MODULE WakeProofs -----------------------------
(***************************************************************************)
(* Proofs that the modem task never sleeps on work and leaves none behind  *)
(* when it ends, on top of the inductive invariant of ModemProofs: what a  *)
(* pass has left behind needs nothing more, unless another pass has been   *)
(* asked for or the end of a transfer will ask for one.                    *)
(***************************************************************************)
EXTENDS ModemProofs, FiniteSetTheorems

-----------------------------------------------------------------------------
(* What a pass has dealt with                                              *)

\* Nothing has asked for another pass and no transfer will.
Quiet == ~process /\ rxLen = 0

\* The elements of q the loop whose cursor is at c has left behind.
Passed(q, c) ==
  {q[j] : j \in {i \in DOMAIN q : \A k \in DOMAIN q : q[k] = c => i < k}}

\* Points inside the loop over the sockets, but for the call that sends, after
\* which there is another pass anyway.
Processing ==
  {"ProcessSockets", "ConnectImpl", "Send", "Receive", "ReceivePacketImpl",
   "Check", "CheckIncomingImpl"}

\* Points from the end of that loop to the next pass.
Processed ==
  {"SendMessages", "RemoveMessages", "EndOfPass", "Yield", "AwaitActivity",
   "AwaitProcess"}

\* Points after the loop over the messages.
Sent == (Processed \ {"SendMessages"}) \cup Leaving

\* What each socket has been spared, by the point the pass has reached.
SocketsServed ==
  /\ pc = "CloseSockets" =>
       \A s \in Passed(sockets, cur) : ~Sock!NeedsClose(flags[s])
  /\ pc = "CloseImpl" =>
       /\ nxt = After(sockets, cur)
       /\ \A s \in Passed(sockets, cur) \cup {cur} :
            ~Sock!NeedsClose(flags[s])
  /\ pc \in {"RemoveSockets"} \cup Processing =>
       \A s \in Listed(sockets) : ~Sock!NeedsClose(flags[s])
  /\ pc \in Processing =>
       /\ \A s \in Listed(sockets) : ~Sock!CanDelete(flags[s])
       /\ \A s \in Passed(sockets, cur) : ~SocketWork(s)
  /\ pc \in Processed => \A s \in Listed(sockets) : ~SocketWork(s)

\* The socket at hand, by how far the loop has come with it.
SocketAtHand ==
  /\ pc = "ConnectImpl" =>
       /\ "AppClose" \notin flags[cur] /\ "ModemConnecting" \in flags[cur]
       /\ "AppReference" \in flags[cur]
  /\ pc \in Processing \ {"ProcessSockets", "ConnectImpl"} =>
       /\ Sock!IsNew(flags[cur]) => ~HasChannel
       /\ ~Sock!NeedsConnect(flags[cur])
  /\ pc \in {"Receive", "ReceivePacketImpl", "Check", "CheckIncomingImpl"} =>
       ~Sock!DataToSend(flags[cur], out[cur] > 0)
  /\ pc \in {"ReceivePacketImpl", "Check", "CheckIncomingImpl"} =>
       ~Sock!DataToReceive(flags[cur])

\* The same for messages.
MessagesServed ==
  /\ pc = "SendMessages" =>
       \A m \in Passed(messages, cur) : ~Msg!ShouldSend(mflags[m])
  /\ pc \in Sent =>
       \A m \in Listed(messages) : ~Msg!ShouldSend(mflags[m])
  /\ pc \in Processed \ {"SendMessages", "RemoveMessages"} =>
       \A m \in Listed(messages) : ~Msg!CanDelete(mflags[m])

\* Before the first pass of a session, and once its sockets are finished.
Between ==
  /\ pc \in {"PowerOnImpl", "RetryDelay", "PowerOnImplAgain", "StartImpl",
             "UnlockSimImpl", "ConnectNetworkImpl"} => process
  /\ pc \in {"RetryDelay", "PowerOnImplAgain"} =>
       modemStatus = "PowerOnFailure"
  /\ (\/ pc = "Stopped"
      \/ pc = "DestroyOld" /\ nxt = NULL
      \/ pc \in {"PowerOffImpl", "AwaitRxStop"} /\ Quiet) =>
       \A s \in Listed(sockets) : ~Sock!IsNew(flags[s])
  /\ pc = "Stopped" /\ modemStatus # "PowerOnFailure" =>
       \A m \in Listed(messages) : ~Msg!ShouldSend(mflags[m])

\* No object is listed twice.
ListedOnce == IsInjective(sockets) /\ IsInjective(messages)

Served == Quiet => SocketsServed /\ SocketAtHand /\ MessagesServed

WakeInv == Served /\ Between /\ ListedOnce

-----------------------------------------------------------------------------
(* The lists                                                               *)

\* The cursor leaves behind at most the element it was at.
LEMMA PassedNext ==
  ASSUME NEW S, NULL \notin S, NEW q \in Seq(S), IsInjective(q),
         NEW c \in ToSet(q)
  PROVE  Passed(q, After(q, c)) \subseteq Passed(q, c) \cup {c}
<1> DEFINE i == CHOOSE j \in DOMAIN q : q[j] = c
<1>1. i \in DOMAIN q /\ q[i] = c
  BY DEF ToSet
<1>2. \A k \in DOMAIN q : q[k] = c => k = i
  BY <1>1 DEF IsInjective
<1> HIDE DEF i
<1>3. ASSUME NEW j \in DOMAIN q,
             \A k \in DOMAIN q : q[k] = After(q, c) => j < k,
             j # i
      PROVE  q[j] \in Passed(q, c)
  <2>1. i \in 1..Len(q) /\ j \in 1..Len(q) /\ Len(q) \in Nat
    BY <1>1
  <2>2. j < i
    <3>1. CASE i < Len(q)
      <4>1. After(q, c) = q[i + 1] /\ i + 1 \in DOMAIN q
        BY <2>1, <3>1 DEF After, i
      <4> QED
        BY <1>3, <2>1, <4>1
    <3>2. CASE ~(i < Len(q))
      BY <1>3, <2>1, <3>2
    <3> QED
      BY <3>1, <3>2
  <2> QED
    BY <1>2, <2>2 DEF Passed
<1> QED
  BY <1>1, <1>3 DEF Passed

\* At the head of the list nothing has been left behind, at its end all.
LEMMA PassedEnds ==
  ASSUME NEW S, NULL \notin S, NEW q \in Seq(S)
  PROVE  /\ Passed(q, First(q)) = {}
         /\ Passed(q, NULL) = ToSet(q)
         /\ \A c : Passed(q, c) \subseteq ToSet(q) \ {c}
<1>1. Passed(q, First(q)) = {}
  <2>1. CASE q = <<>>
    BY <2>1 DEF Passed
  <2>2. CASE q # <<>>
    <3>1. 1 \in DOMAIN q /\ q[1] = First(q)
      BY <2>2 DEF First
    <3>2. \A j \in DOMAIN q : ~(j < 1)
      OBVIOUS
    <3> QED
      BY <3>1, <3>2 DEF Passed
  <2> QED
    BY <2>1, <2>2
<1>2. Passed(q, NULL) = ToSet(q)
  <2>1. \A k \in DOMAIN q : q[k] # NULL
    OBVIOUS
  <2> QED
    BY <2>1 DEF Passed, ToSet
<1>3. \A c : Passed(q, c) \subseteq ToSet(q) \ {c}
  <2>1. \A j \in DOMAIN q : ~(j < j)
    OBVIOUS
  <2> QED
    BY <2>1 DEF Passed, ToSet
<1> QED
  BY <1>1, <1>2, <1>3

\* The second part of a concatenation.
LEMMA Joined ==
  ASSUME NEW S, NEW a \in Seq(S), NEW b \in Seq(S),
         NEW k \in 1..(Len(a) + Len(b)), ~(k <= Len(a))
  PROVE  (a \o b)[k] = b[k - Len(a)]
OBVIOUS

\* What is left after a removal was listed before, and only once.
LEMMA RemovedOnce ==
  ASSUME NEW S, NEW q \in Seq(S), NEW i \in DOMAIN q
  PROVE  /\ ToSet(RemoveAt(q, i)) \subseteq ToSet(q)
         /\ IsInjective(q) => IsInjective(RemoveAt(q, i))
<1>1. i \in 1..Len(q) /\ Len(q) \in Nat
  OBVIOUS
<1> DEFINE left == SubSeq(q, 1, i - 1)
           right == SubSeq(q, i + 1, Len(q))
           old(k) == IF k < i THEN k ELSE k + 1
<1>2. /\ left \in Seq(S) /\ Len(left) = i - 1
      /\ right \in Seq(S) /\ Len(right) = Len(q) - i
      /\ \A k \in 1..(i - 1) : left[k] = q[k]
      /\ \A k \in 1..(Len(q) - i) : right[k] = q[i + k]
  BY <1>1
<1>3. RemoveAt(q, i) = left \o right
  BY DEF RemoveAt
<1> HIDE DEF left, right
<1>4. Len(left \o right) = Len(q) - 1
  BY <1>1, <1>2
<1>5. ASSUME NEW k \in 1..(Len(q) - 1)
      PROVE  old(k) \in DOMAIN q /\ (left \o right)[k] = q[old(k)]
  <2>1. CASE k < i
    BY <1>1, <1>2, <2>1
  <2>2. CASE ~(k < i)
    <3>1. k \in 1..(Len(left) + Len(right)) /\ ~(k <= Len(left))
      BY <1>1, <1>2, <2>2
    <3>2. (left \o right)[k] = right[k - Len(left)]
      BY <1>2, <3>1, Joined
    <3>3. /\ (left \o right)[k] = right[k - (i - 1)]
          /\ k - (i - 1) \in 1..(Len(q) - i)
      BY <1>1, <1>2, <2>2, <3>2
    <3>4. right[k - (i - 1)] = q[i + (k - (i - 1))]
      BY <1>2, <3>3
    <3>5. i + (k - (i - 1)) = k + 1
      BY <1>1
    <3> QED
      BY SMTT(20), <1>1, <2>2, <3>3, <3>4, <3>5
  <2> QED
    BY <2>1, <2>2
<1>6. \A j, k \in 1..(Len(q) - 1) : old(j) = old(k) => j = k
  BY <1>1
<1>7. DOMAIN RemoveAt(q, i) = 1..(Len(q) - 1)
  BY <1>1, <1>2, <1>3, <1>4
<1>8. \A k \in DOMAIN RemoveAt(q, i) :
        old(k) \in DOMAIN q /\ RemoveAt(q, i)[k] = q[old(k)]
  BY <1>3, <1>5, <1>7
<1> HIDE DEF old
<1>9. ToSet(RemoveAt(q, i)) \subseteq ToSet(q)
  BY <1>8 DEF ToSet
<1>10. IsInjective(q) => IsInjective(RemoveAt(q, i))
  BY <1>6, <1>7, <1>8 DEF IsInjective
<1> QED
  BY <1>9, <1>10

\* Nor does a new element make one listed twice.
LEMMA AppendedOnce ==
  ASSUME NEW S, NEW q \in Seq(S), NEW x \in S, x \notin ToSet(q),
         IsInjective(q)
  PROVE  IsInjective(Append(q, x))
<1>1. /\ DOMAIN Append(q, x) = 1..(Len(q) + 1) /\ DOMAIN q = 1..Len(q)
      /\ \A j \in 1..Len(q) : Append(q, x)[j] = q[j]
      /\ Append(q, x)[Len(q) + 1] = x
      /\ Len(q) \in Nat
  OBVIOUS
<1>2. \A j \in 1..Len(q) : q[j] # x
  BY <1>1 DEF ToSet
<1> QED
  BY <1>1, <1>2 DEF IsInjective

\* A list has finitely many elements.
LEMMA FiniteList ==
  ASSUME NEW S, NEW q \in Seq(S) PROVE IsFiniteSet(ToSet(q))
<1>1. q \in Surjection(1..Len(q), ToSet(q))
  BY DEF Surjection, ToSet
<1>2. IsFiniteSet(1..Len(q))
  BY FS_Interval
<1> QED
  BY <1>1, <1>2, FS_Surjection

-----------------------------------------------------------------------------
(* The flag words                                                          *)

\* What the updates a pass makes do to the reasons to serve a socket.
LEMMA SocketReasons ==
  ASSUME NEW f, NEW b
  PROVE  /\ ~Sock!NeedsClose(f \cup {"ModemClosing"})
         /\ Sock!NeedsClose(Sock!Allocate(f)) => Sock!NeedsClose(f)
         /\ Sock!NeedsClose(f \cup {"ModemConnecting"}) => Sock!NeedsClose(f)
         /\ Sock!NeedsClose(Sock!Bound(f)) => "AppClose" \in f
         /\ ~Sock!NeedsClose(Sock!Finished(f))
         /\ Sock!NeedsClose(Sock!IncomingRequested(f)) => Sock!NeedsClose(f)
         /\ Sock!CanDelete(Sock!Allocate(f)) => Sock!CanDelete(f)
         /\ Sock!CanDelete(f \cup {"ModemConnecting"}) => Sock!CanDelete(f)
         /\ ~Sock!CanDelete(Sock!Bound(f))
         /\ Sock!CanDelete(Sock!Finished(f)) => "AppReference" \notin f
         /\ Sock!CanDelete(Sock!IncomingRequested(f)) => Sock!CanDelete(f)
         /\ ~Sock!IsNew(Sock!Allocate(f)) /\ ~Sock!IsNew(Sock!Bound(f))
         /\ ~Sock!IsNew(Sock!Finished(f))
         /\ "ModemConnecting" \in f => ~Sock!IsNew(f) /\ ~Sock!NeedsConnect(f)
         /\ Sock!CanReceive(f, b) => ~Sock!IsNew(Sock!IncomingRequested(f))
         /\ Sock!NeedsConnect(f) => "AppClose" \notin f /\ "AppReference" \in f
         /\ ~Sock!NeedsConnect(Sock!Bound(f))
         /\ ~Sock!NeedsConnect(Sock!Finished(f))
         /\ Sock!NeedsConnect(Sock!IncomingRequested(f)) =>
              Sock!NeedsConnect(f)
         /\ Sock!DataToSend(Sock!IncomingRequested(f), b) =>
              Sock!DataToSend(f, b)
         /\ ~Sock!DataToReceive(Sock!IncomingRequested(f))
<1>1. /\ ~Sock!NeedsClose(f \cup {"ModemClosing"})
      /\ Sock!NeedsClose(Sock!Allocate(f)) => Sock!NeedsClose(f)
      /\ Sock!NeedsClose(f \cup {"ModemConnecting"}) => Sock!NeedsClose(f)
      /\ Sock!NeedsClose(Sock!Bound(f)) => "AppClose" \in f
      /\ ~Sock!NeedsClose(Sock!Finished(f))
      /\ Sock!NeedsClose(Sock!IncomingRequested(f)) => Sock!NeedsClose(f)
  BY DEF Sock!NeedsClose, Sock!Allocate, Sock!Bound, Sock!Finished,
     Sock!IncomingRequested
<1>2. /\ Sock!CanDelete(Sock!Allocate(f)) => Sock!CanDelete(f)
      /\ Sock!CanDelete(f \cup {"ModemConnecting"}) => Sock!CanDelete(f)
      /\ ~Sock!CanDelete(Sock!Bound(f))
      /\ Sock!CanDelete(Sock!Finished(f)) => "AppReference" \notin f
      /\ Sock!CanDelete(Sock!IncomingRequested(f)) => Sock!CanDelete(f)
  BY DEF Sock!CanDelete, Sock!Allocate, Sock!Bound, Sock!Finished,
     Sock!IncomingRequested
<1>3. /\ ~Sock!IsNew(Sock!Allocate(f)) /\ ~Sock!IsNew(Sock!Bound(f))
      /\ ~Sock!IsNew(Sock!Finished(f))
      /\ "ModemConnecting" \in f => ~Sock!IsNew(f)
      /\ Sock!CanReceive(f, b) => ~Sock!IsNew(Sock!IncomingRequested(f))
  BY DEF Sock!IsNew, Sock!Allocate, Sock!Bound, Sock!Finished,
     Sock!IncomingRequested, Sock!CanReceive
<1>4. /\ "ModemConnecting" \in f => ~Sock!NeedsConnect(f)
      /\ Sock!NeedsConnect(f) => "AppClose" \notin f /\ "AppReference" \in f
      /\ ~Sock!NeedsConnect(Sock!Bound(f))
      /\ ~Sock!NeedsConnect(Sock!Finished(f))
      /\ Sock!NeedsConnect(Sock!IncomingRequested(f)) => Sock!NeedsConnect(f)
  BY DEF Sock!NeedsConnect, Sock!Bound, Sock!Finished, Sock!IncomingRequested
<1>5. /\ Sock!DataToSend(Sock!IncomingRequested(f), b) =>
           Sock!DataToSend(f, b)
      /\ ~Sock!DataToReceive(Sock!IncomingRequested(f))
  BY DEF Sock!DataToSend, Sock!IsConnected, Sock!CanSend,
     Sock!DataToReceive, Sock!IncomingRequested
<1> QED
  BY <1>1, <1>2, <1>3, <1>4, <1>5

\* A change of one socket's word that keeps its channel gives no other socket
\* more to do.
LEMMA OthersServed ==
  ASSUME TypeOK, NEW c \in Socket, NEW f,
         flags' = [flags EXCEPT ![c] = f], UNCHANGED <<sockets, out>>,
         Sock!IsAllocated(flags[c]) => Sock!IsAllocated(f)
  PROVE  /\ HasChannel' => HasChannel
         /\ flags'[c] = f /\ \A s \in Socket \ {c} : flags'[s] = flags[s]
         /\ \A s \in Socket \ {c} : SocketWork(s)' => SocketWork(s)
<1> DEFINE taken == {s \in Listed(sockets) : Sock!IsAllocated(flags[s])}
           left == {s \in Listed(sockets) : Sock!IsAllocated(flags'[s])}
<1>1. Listed(sockets) \subseteq Socket /\ IsFiniteSet(Listed(sockets))
  BY ListTypes, FiniteList DEF TypeOK, Listed
<1>2. flags'[c] = f /\ \A s \in Socket \ {c} : flags'[s] = flags[s]
  BY DEF TypeOK
<1>3. taken \subseteq left /\ left \subseteq Listed(sockets)
  BY <1>1, <1>2
<1>4. IsFiniteSet(left) /\ IsFiniteSet(taken)
  BY <1>1, <1>3, FS_Subset
<1>5. Cardinality(taken) <= Cardinality(left)
  BY <1>3, <1>4, FS_Subset
<1>6. Cardinality(taken) \in Nat /\ Cardinality(left) \in Nat
  BY <1>4, FS_CardinalityType
<1>7. NumAllocated = Cardinality(taken) /\ NumAllocated' = Cardinality(left)
  BY DEF NumAllocated, Listed
<1> HIDE DEF taken, left
<1>8. HasChannel' => HasChannel
  BY <1>5, <1>6, <1>7, ModemAssumption DEF HasChannel
<1> QED
  BY <1>2, <1>8 DEF SocketWork

-----------------------------------------------------------------------------
(* The steps of the others                                                 *)

\* Whoever else changes the lists or a flag word asks for a pass, but for the
\* confirmations inside the calls that send.
LEMMA OthersAsk ==
  ASSUME TypeOK, TaskInv, App \/ RxTask \/ Device \/ UNCHANGED vars, Quiet'
  PROVE  /\ Quiet /\ UNCHANGED <<pc, cur, nxt, sockets, messages, modemStatus>>
         /\ \/ UNCHANGED <<flags, out, mflags>>
            \/ pc \in {"SendPacketImpl", "SendMessageImpl"}
<1> USE DEF Quiet, TypeOK
<1>1. ASSUME UNCHANGED vars
      PROVE  Quiet /\ UNCHANGED <<pc, frameVars, listVars, modemStatus>>
  BY <1>1 DEF vars, listVars, rxVars, atVars
<1>2. ~App
  BY DEF App, CreateSocket, ReleaseSocket, Disconnect, WriteOutput,
     SendMessage, ReleaseMessage, EnsureRunning
<1>3. ASSUME Device
      PROVE  Quiet /\ UNCHANGED <<pc, frameVars, listVars, modemStatus>>
  BY <1>3 DEF Device, TakeOpenRequest, TakeCloseRequest, PeerSends, rxVars,
     atVars
<1>4. ASSUME NEW s \in Socket,
             \/ OnConnected(s) \/ OnDisconnected(s) \/ OnIncoming(s)
             \/ OnMaybeIncoming(s) \/ OpenFailsUnheard(s)
      PROVE  Quiet /\ UNCHANGED <<pc, frameVars, listVars, modemStatus>>
  BY <1>4 DEF OnConnected, OnDisconnected, OnIncoming, OnMaybeIncoming, Notify,
     OpenFailsUnheard, listVars, socketVars, envVars, rxVars, atVars
<1>5. \A s \in Socket : ~OnData(s)
  BY DEF OnData
<1>6. ~MoveData
  <2>1. MoveData => rxLen = 1
    BY DEF MoveData
  <2>2. MoveData /\ rxLen = 1 => process'
    BY Zenon DEF MoveData
  <2> QED
    BY <2>1, <2>2
<1>7. ASSUME RxStops
      PROVE  Quiet /\ UNCHANGED <<pc, frameVars, listVars, modemStatus>>
  <2>1. process' = (process \/ rxLen > 0)
    BY <1>7 DEF RxStops
  <2>2. ~process /\ ~(rxLen > 0)
    BY <2>1, Zenon
  <2> QED
    BY <1>7, <2>2 DEF RxStops, atVars
<1>8. ASSUME \/ \E accepted \in BOOLEAN : OnSendResponse(accepted)
             \/ OnMessageReference
      PROVE  /\ pc \in {"SendPacketImpl", "SendMessageImpl"}
             /\ Quiet
             /\ UNCHANGED <<pc, frameVars, sockets, messages, modemStatus>>
  BY <1>8 DEF OnSendResponse, OnMessageReference, socketVars, messageVars,
     envVars, rxVars, atVars
<1>9. UNCHANGED listVars => UNCHANGED <<sockets, flags, out, messages, mflags>>
  BY DEF listVars, socketVars, messageVars
<1> QED
  BY <1>1, <1>2, <1>3, <1>4, <1>5, <1>6, <1>7, <1>8, <1>9 DEF RxTask, frameVars

\* So what has been served stays served.
LEMMA OthersWake ==
  ASSUME TypeOK, TaskInv, Served, App \/ RxTask \/ Device \/ UNCHANGED vars
  PROVE  Served'
<1> SUFFICES ASSUME Quiet'
             PROVE  (SocketsServed /\ SocketAtHand /\ MessagesServed)'
  BY DEF Served
<1>1. /\ SocketsServed /\ SocketAtHand /\ MessagesServed
      /\ UNCHANGED <<pc, cur, nxt, sockets, messages>>
  BY OthersAsk DEF Served
<1>2. CASE UNCHANGED <<flags, out, mflags>>
  <2>1. \A s : SocketWork(s)' <=> SocketWork(s)
    BY <1>1, <1>2 DEF SocketWork, HasChannel, NumAllocated
  <2>2. HasChannel' <=> HasChannel
    BY <1>1, <1>2 DEF HasChannel, NumAllocated
  <2>3. SocketsServed'
    BY <1>1, <1>2, <2>1 DEF SocketsServed, Listed
  <2>4. SocketAtHand'
    BY <1>1, <1>2, <2>2 DEF SocketAtHand
  <2>5. MessagesServed'
    BY <1>1, <1>2 DEF MessagesServed, Listed
  <2> QED
    BY <2>3, <2>4, <2>5
<1>3. CASE pc \in {"SendPacketImpl", "SendMessageImpl"}
  BY <1>1, <1>3 DEF SocketsServed, SocketAtHand, MessagesServed, Processing,
     Processed, Sent, Leaving
<1> QED
  BY <1>2, <1>3, OthersAsk

\* The idle countdown runs out over empty lists.
LEMMA IdleWakes ==
  ASSUME IdleIsEmpty, IdleTimeout PROVE Served'
<1>1. pc' = "DisconnectNetworkImpl" /\ messages' = <<>>
  BY DEF IdleTimeout, IdleIsEmpty, LeaveNetwork, Goto, listVars, messageVars
<1>2. Listed(messages)' = {}
  BY <1>1 DEF Listed, ToSet
<1> QED
  BY <1>1, <1>2 DEF Served, SocketsServed, SocketAtHand, MessagesServed,
     Processing, Processed, Sent, Leaving

-----------------------------------------------------------------------------
(* The steps of the task                                                   *)

\* Until the first pass processing is requested; a removal breaks nothing.
LEMMA StartUpWakes ==
  ASSUME TypeOK, Served, Between, ListedOnce, StartUp PROVE Served'
<1> SUFFICES ASSUME Quiet'
             PROVE  (SocketsServed /\ SocketAtHand /\ MessagesServed)'
  BY DEF Served
<1>1. ASSUME pc' \in {"Stopped", "DestroyOld", "Scheduled"}
      PROVE  (SocketsServed /\ SocketAtHand /\ MessagesServed)'
  BY <1>1 DEF SocketsServed, SocketAtHand, MessagesServed, Processing,
     Processed, Sent, Leaving
<1>2. ASSUME \/ PowerOn \/ PowerOnFailed \/ RetryPowerOn \/ PoweredOn
             \/ Started \/ StartFailed \/ SimUnlocked \/ NetworkConnected
             \/ BringUpFailed
      PROVE  FALSE
  BY <1>2 DEF PowerOn, PowerOnFailed, RetryPowerOn, PoweredOn, Started,
     StartFailed, SimUnlocked, NetworkConnected, BringUpFailed, Between, Quiet
<1>3. ASSUME Preprocess \/ NothingToDo \/ PowerOnFailedAgain
      PROVE  (SocketsServed /\ SocketAtHand /\ MessagesServed)'
  <2>1. pc' \in {"Stopped", "DestroyOld"}
    BY <1>3 DEF Preprocess, NothingToDo, PowerOnFailedAgain, StopTask, Goto
  <2> QED
    BY <1>1, <2>1
<1>4. ASSUME RemoveSocket, pc = "RemoveSockets"
      PROVE  (SocketsServed /\ SocketAtHand /\ MessagesServed)'
  <2>1. Quiet /\ pc' = pc
    BY <1>4 DEF RemoveSocket, Quiet, envVars, rxVars
  <2>2. \A s \in Listed(sockets) : ~Sock!NeedsClose(flags[s])
    BY <1>4, <2>1 DEF Served, SocketsServed
  <2>3. PICK i \in DOMAIN sockets : DestroySocket(i)
    BY <1>4 DEF RemoveSocket
  <2>4. Listed(sockets') \subseteq Listed(sockets)
    BY <2>3, RemovedOnce DEF DestroySocket, Listed, TypeOK
  <2>5. \A s \in Listed(sockets') : ~Sock!NeedsClose(flags'[s])
    <3>1. ~Sock!NeedsClose({})
      BY DEF Sock!NeedsClose
    <3>2. Listed(sockets) \subseteq Socket
      BY ListTypes DEF Listed, TypeOK
    <3> QED
      BY <2>2, <2>3, <2>4, <3>1, <3>2 DEF DestroySocket, TypeOK
  <2> QED
    BY <1>4, <2>1, <2>5 DEF SocketsServed, SocketAtHand, MessagesServed,
       Processing, Processed, Sent, Leaving, Listed
<1>5. ASSUME RemoveMessage, pc = "RemoveMessages"
      PROVE  (SocketsServed /\ SocketAtHand /\ MessagesServed)'
  <2>1. Quiet /\ pc' = pc /\ UNCHANGED <<sockets, flags, out>>
    BY <1>5 DEF RemoveMessage, Quiet, envVars, rxVars, socketVars
  <2>2. /\ \A m \in Listed(messages) : ~Msg!ShouldSend(mflags[m])
        /\ \A s \in Listed(sockets) : ~SocketWork(s)
    BY <1>5, <2>1 DEF Served, SocketsServed, MessagesServed, Sent, Processed
  <2>3. PICK i \in DOMAIN messages : DestroyMessage(i)
    BY <1>5 DEF RemoveMessage
  <2>4. Listed(messages') \subseteq Listed(messages)
    BY <2>3, RemovedOnce DEF DestroyMessage, Listed, TypeOK
  <2>5. \A m \in Listed(messages') : ~Msg!ShouldSend(mflags'[m])
    <3>1. ~Msg!ShouldSend({})
      BY DEF Msg!ShouldSend
    <3>2. Listed(messages) \subseteq Message
      BY ListTypes DEF Listed, TypeOK
    <3> QED
      BY <2>2, <2>3, <2>4, <3>1, <3>2 DEF DestroyMessage, TypeOK
  <2>6. \A s \in Listed(sockets') : ~SocketWork(s)'
    BY <2>1, <2>2 DEF SocketWork, HasChannel, NumAllocated
  <2> QED
    BY <1>5, <2>1, <2>5, <2>6 DEF SocketsServed, SocketAtHand,
       MessagesServed, Processing, Processed, Sent, Listed
<1>6. ASSUME RemoveSocket \/ RemoveMessage
      PROVE  (SocketsServed /\ SocketAtHand /\ MessagesServed)'
  <2>1. \/ RemoveSocket /\ pc = "RemoveSockets"
        \/ RemoveMessage /\ pc = "RemoveMessages"
        \/ pc' = "DestroyOld"
    BY <1>6 DEF RemoveSocket, RemoveMessage
  <2> QED
    BY <1>1, <1>4, <1>5, <2>1
<1> QED
  BY <1>2, <1>3, <1>6 DEF StartUp

\* On the way to power-off only the messages matter.
LEMMA ShutDownWakes ==
  ASSUME Served, ShutDown PROVE Served'
<1> SUFFICES ASSUME Quiet'
             PROVE  (SocketsServed /\ SocketAtHand /\ MessagesServed)'
  BY DEF Served
<1>1. ASSUME TaskEnds
      PROVE  (SocketsServed /\ SocketAtHand /\ MessagesServed)'
  <2>1. pc' \in {"Stopped", "Scheduled"}
    BY <1>1 DEF TaskEnds, StopTask
  <2> QED
    BY <2>1 DEF SocketsServed, SocketAtHand, MessagesServed, Processing,
       Processed, Sent, Leaving
<1>2. ASSUME \/ \E r \in Result : NetworkDisconnected(r)
             \/ FinishSockets \/ PoweredOff
      PROVE  (SocketsServed /\ SocketAtHand /\ MessagesServed)'
  <2>1. /\ pc \in Leaving /\ pc' \in Leaving /\ Quiet
        /\ UNCHANGED <<messages, mflags>>
    BY <1>2 DEF NetworkDisconnected, FinishSockets, PoweredOff, Goto, Leaving,
       Quiet, listVars, messageVars, envVars, rxVars
  <2>2. \A m \in Listed(messages) : ~Msg!ShouldSend(mflags[m])
    BY <2>1 DEF Served, MessagesServed, Sent
  <2> QED
    BY <2>1, <2>2 DEF SocketsServed, SocketAtHand, MessagesServed, Processing,
       Processed, Sent, Leaving, Listed
<1> QED
  BY <1>1, <1>2 DEF ShutDown

\* A step of a pass that has left Quiet has found it, but for the step that
\* starts the pass; after a call that sends there is another pass.
LEMMA PassQuiet ==
  ASSUME TypeOK, Pass, Quiet'
  PROVE  /\ AcquireProcess \/ Quiet
         /\ \A r \in Result : ~SendReturns(r) /\ ~SendMessageReturns(r)
BY DEF Quiet, Pass, AcquireProcess, CloseSocket, CloseLoopEnds, SocketsRemoved,
   ConnectSocket, StartSend, ProcessLoopEnds, StartSendMessage,
   SubmitMessage, MessageLoopEnds, MessagesRemoved, EndPass, Resume,
   StartReceive, StartCheck, CloseReturns, ConnectReturns, SendReturns,
   ReceiveReturns, CheckReturns, SendMessageReturns, envVars, rxVars

\* The loop that closes sockets.
LEMMA CloseWakes ==
  ASSUME TypeOK, FrameInv, Served, ListedOnce, Quiet',
         \/ AcquireProcess \/ CloseSocket \/ CloseLoopEnds
         \/ \E r \in Result : CloseReturns(r)
  PROVE  (SocketsServed /\ SocketAtHand /\ MessagesServed)'
<1> USE ModemAssumption DEF TypeOK
<1>1. SUFFICES SocketsServed' /\ pc' \in {"CloseSockets", "CloseImpl",
                                          "RemoveSockets"}
  BY DEF SocketAtHand, MessagesServed, Processing, Processed, Sent, Leaving
<1>2. ASSUME AcquireProcess
      PROVE  SocketsServed' /\ pc' = "CloseSockets"
  BY <1>2, PassedEnds DEF AcquireProcess, Goto, SocketsServed, Processing,
     Processed, listVars, socketVars
<1>3. ASSUME CloseSocket
      PROVE  SocketsServed' /\ pc' \in {"CloseSockets", "CloseImpl"}
  <2>1. Quiet /\ pc = "CloseSockets" /\ sockets' = sockets /\ out' = out
    BY <1>3 DEF CloseSocket, Quiet, envVars, rxVars
  <2>2. \A s \in Passed(sockets, cur) : ~Sock!NeedsClose(flags[s])
    BY <2>1 DEF Served, SocketsServed
  <2>3. cur \in Listed(sockets) /\ Listed(sockets) \subseteq Socket
    BY <1>3, ListTypes DEF CloseSocket, LoopEnds, FrameInv, Listed
  <2>4. Passed(sockets, cur) \subseteq Socket \ {cur}
    BY <2>3, PassedEnds DEF Listed
  <2>5. CASE Sock!NeedsClose(flags[cur])
    <3>1. /\ flags' = [flags EXCEPT ![cur] = @ \cup {"ModemClosing"}]
          /\ pc' = "CloseImpl" /\ cur' = cur /\ nxt' = After(sockets, cur)
      BY <1>3, <2>5 DEF CloseSocket, Goto
    <3>2. ~Sock!NeedsClose(flags'[cur])
      BY <2>3, <3>1, SocketReasons
    <3>3. \A s \in Passed(sockets, cur) : flags'[s] = flags[s]
      BY <2>4, <3>1
    <3> QED
      BY <2>1, <2>2, <3>1, <3>2, <3>3 DEF SocketsServed, Processing, Processed
  <2>6. CASE ~Sock!NeedsClose(flags[cur])
    <3>1. /\ flags' = flags /\ pc' = "CloseSockets"
          /\ cur' = After(sockets, cur)
      BY <1>3, <2>1, <2>6 DEF CloseSocket
    <3>2. Passed(sockets, cur') \subseteq Passed(sockets, cur) \cup {cur}
      BY <2>3, <3>1, PassedNext DEF Listed, ListedOnce
    <3> QED
      BY <2>1, <2>2, <2>6, <3>1, <3>2 DEF SocketsServed, Processing, Processed
  <2> QED
    BY <2>5, <2>6
<1>4. ASSUME CloseLoopEnds
      PROVE  SocketsServed' /\ pc' = "RemoveSockets"
  <2>1. /\ Quiet /\ pc = "CloseSockets" /\ UNCHANGED <<sockets, flags>>
        /\ pc' = "RemoveSockets" /\ LoopEnds
    BY <1>4 DEF CloseLoopEnds, Goto, Quiet, listVars, socketVars, envVars,
       rxVars
  <2>2. cur = NULL
    BY <2>1 DEF LoopEnds, Quiet
  <2>3. \A s \in Listed(sockets) : ~Sock!NeedsClose(flags[s])
    BY <2>1, <2>2, PassedEnds DEF Served, SocketsServed, Listed
  <2> QED
    BY <2>1, <2>3 DEF SocketsServed, Processing, Processed, Listed
<1>5. ASSUME NEW r \in Result, CloseReturns(r)
      PROVE  SocketsServed' /\ pc' = "CloseSockets"
  <2>1. /\ Quiet /\ pc = "CloseImpl" /\ UNCHANGED <<sockets, flags>>
        /\ pc' = "CloseSockets" /\ cur' = nxt
    BY <1>5 DEF CloseReturns, Goto, Quiet, listVars, socketVars, envVars,
       rxVars
  <2>2. /\ nxt = After(sockets, cur)
        /\ \A s \in Passed(sockets, cur) \cup {cur} :
             ~Sock!NeedsClose(flags[s])
    BY <2>1 DEF Served, SocketsServed
  <2>3. cur \in Listed(sockets)
    BY <2>1 DEF FrameInv, OnSocket
  <2>4. Passed(sockets, nxt) \subseteq Passed(sockets, cur) \cup {cur}
    BY <2>2, <2>3, PassedNext DEF Listed, ListedOnce
  <2> QED
    BY <2>1, <2>2, <2>4 DEF SocketsServed, Processing, Processed
<1> QED
  BY <1>1, <1>2, <1>3, <1>4, <1>5

\* The messages of a pass.
LEMMA MessageWakes ==
  ASSUME TypeOK, FrameInv, Served, ListedOnce, Quiet, Quiet',
         \/ ProcessLoopEnds \/ StartSendMessage \/ SubmitMessage
         \/ MessageLoopEnds \/ MessagesRemoved \/ EndPass \/ Resume
  PROVE  (SocketsServed /\ SocketAtHand /\ MessagesServed)'
<1> USE ModemAssumption DEF TypeOK
<1>1. UNCHANGED <<sockets, flags, out, messages>>
  BY DEF ProcessLoopEnds, StartSendMessage, SubmitMessage, MessageLoopEnds,
     MessagesRemoved, EndPass, Resume, listVars, socketVars, messageVars
<1>2. \A s : SocketWork(s)' <=> SocketWork(s)
  BY <1>1 DEF SocketWork, HasChannel, NumAllocated
<1>3. ASSUME pc \in Processed, pc' \in Processed \cup {"SendMessageImpl"}
                                        \cup Leaving
      PROVE  SocketsServed' /\ SocketAtHand'
  <2>1. \A s \in Listed(sockets) : ~SocketWork(s)
    BY <1>3 DEF Served, SocketsServed
  <2> QED
    BY <1>1, <1>2, <1>3, <2>1 DEF SocketsServed, SocketAtHand, Processing,
       Processed, Leaving, Listed
<1>4. ASSUME ProcessLoopEnds
      PROVE  (SocketsServed /\ SocketAtHand /\ MessagesServed)'
  <2>1. /\ pc = "ProcessSockets" /\ pc' = "SendMessages" /\ LoopEnds
        /\ cur' = First(messages) /\ mflags' = mflags
    BY <1>4 DEF ProcessLoopEnds, Goto, listVars, messageVars
  <2>2. cur = NULL
    BY <2>1 DEF LoopEnds, Quiet
  <2>3. \A s \in Listed(sockets) : ~SocketWork(s)
    BY <2>1, <2>2, PassedEnds DEF Served, SocketsServed, Processing, Listed
  <2>4. Passed(messages, cur') = {}
    BY <2>1, PassedEnds
  <2> QED
    BY <1>1, <1>2, <2>1, <2>3, <2>4 DEF SocketsServed, SocketAtHand,
       MessagesServed, Processing, Processed, Sent, Leaving, Listed
<1>5. ASSUME StartSendMessage
      PROVE  (SocketsServed /\ SocketAtHand /\ MessagesServed)'
  <2>1. /\ pc = "SendMessages" /\ mflags' = mflags /\ ~LoopEnds
        /\ \/ pc' = "SendMessageImpl"
           \/ /\ pc' = "SendMessages" /\ cur' = After(messages, cur)
              /\ ~Msg!ShouldSend(mflags[cur])
    BY <1>5 DEF StartSendMessage, Goto, listVars, messageVars
  <2>2. SocketsServed' /\ SocketAtHand'
    BY <1>3, <2>1 DEF Processed
  <2>3. cur \in Listed(messages)
    BY <2>1 DEF FrameInv, LoopEnds
  <2>4. Passed(messages, After(messages, cur))
          \subseteq Passed(messages, cur) \cup {cur}
    BY <2>3, PassedNext DEF Listed, ListedOnce
  <2>5. \A m \in Passed(messages, cur) : ~Msg!ShouldSend(mflags[m])
    BY <2>1 DEF Served, MessagesServed
  <2>6. MessagesServed'
    BY <1>1, <2>1, <2>4, <2>5 DEF MessagesServed, Sent, Processed, Leaving
  <2> QED
    BY <2>2, <2>6
<1>6. ASSUME SubmitMessage
      PROVE  (SocketsServed /\ SocketAtHand /\ MessagesServed)'
  <2>1. pc' = "SendMessageImpl"
    BY <1>6 DEF SubmitMessage
  <2> QED
    BY <2>1 DEF SocketsServed, SocketAtHand, MessagesServed, Processing,
       Processed, Sent, Leaving
<1>7. ASSUME MessageLoopEnds
      PROVE  (SocketsServed /\ SocketAtHand /\ MessagesServed)'
  <2>1. /\ pc = "SendMessages" /\ pc' = "RemoveMessages" /\ LoopEnds
        /\ mflags' = mflags
    BY <1>7 DEF MessageLoopEnds, Goto, listVars, messageVars
  <2>2. cur = NULL
    BY <2>1 DEF LoopEnds, Quiet
  <2>3. \A m \in Listed(messages) : ~Msg!ShouldSend(mflags[m])
    BY <2>1, <2>2, PassedEnds DEF Served, MessagesServed, Listed
  <2>4. SocketsServed' /\ SocketAtHand'
    BY <1>3, <2>1 DEF Processed
  <2>5. MessagesServed'
    BY <1>1, <2>1, <2>3 DEF MessagesServed, Sent, Processed, Leaving, Listed
  <2> QED
    BY <2>4, <2>5
<1>8. ASSUME MessagesRemoved
      PROVE  (SocketsServed /\ SocketAtHand /\ MessagesServed)'
  <2>1. /\ pc = "RemoveMessages" /\ pc' = "EndOfPass" /\ MessagesSwept
        /\ mflags' = mflags
    BY <1>8 DEF MessagesRemoved, Goto, listVars, messageVars
  <2>2. \A m \in Listed(messages) :
          ~Msg!ShouldSend(mflags[m]) /\ ~Msg!CanDelete(mflags[m])
    BY <2>1 DEF Served, MessagesServed, Sent, Processed, MessagesSwept,
       DeletableMessage, Listed, ToSet
  <2>3. SocketsServed' /\ SocketAtHand'
    BY <1>3, <2>1 DEF Processed
  <2>4. MessagesServed'
    BY <1>1, <2>1, <2>2 DEF MessagesServed, Sent, Processed, Leaving, Listed
  <2> QED
    BY <2>3, <2>4
<1>9. ASSUME EndPass \/ Resume
      PROVE  (SocketsServed /\ SocketAtHand /\ MessagesServed)'
  <2>1. /\ pc \in Processed \ {"SendMessages", "RemoveMessages"}
        /\ pc' \in {"DisconnectNetworkImpl", "AwaitActivity", "Yield",
                    "AwaitProcess"}
        /\ mflags' = mflags
    BY <1>9 DEF EndPass, Resume, LeaveNetwork, Goto, listVars, messageVars,
       Processed
  <2>2. \A m \in Listed(messages) :
          ~Msg!ShouldSend(mflags[m]) /\ ~Msg!CanDelete(mflags[m])
    BY <2>1 DEF Served, MessagesServed, Sent
  <2>3. SocketsServed' /\ SocketAtHand'
    BY <1>3, <2>1 DEF Processed, Leaving
  <2>4. MessagesServed'
    BY <1>1, <2>1, <2>2 DEF MessagesServed, Listed
  <2> QED
    BY <2>3, <2>4
<1> QED
  BY <1>4, <1>5, <1>6, <1>7, <1>8, <1>9

\* The loop that serves the sockets: the one at hand first, ...
LEMMA ServeStarts ==
  ASSUME TypeOK, FrameInv, Served, Quiet, Quiet',
         SocketsRemoved \/ ConnectSocket \/ StartSend
  PROVE  (SocketsServed /\ SocketAtHand /\ MessagesServed)'
<1> USE ModemAssumption DEF TypeOK
<1>1. SUFFICES SocketsServed' /\ SocketAtHand'
               /\ pc' \in Processing \cup {"SendPacketImpl"}
  BY DEF MessagesServed, Processing, Processed, Sent, Leaving
<1>2. Listed(sockets) \subseteq Socket
  BY ListTypes DEF Listed
<1>3. ASSUME SocketsRemoved
      PROVE  SocketsServed' /\ SocketAtHand' /\ pc' = "ProcessSockets"
  <2>1. /\ pc = "RemoveSockets" /\ pc' = "ProcessSockets" /\ SocketsSwept
        /\ UNCHANGED <<sockets, flags>> /\ cur' = First(sockets)
    BY <1>3 DEF SocketsRemoved, Goto, listVars, socketVars
  <2>2. \A s \in Listed(sockets) :
          ~Sock!NeedsClose(flags[s]) /\ ~Sock!CanDelete(flags[s])
    BY <2>1 DEF Served, SocketsServed, SocketsSwept, DeletableSocket, Listed,
       ToSet
  <2>3. Passed(sockets, cur') = {}
    BY <2>1, PassedEnds
  <2> QED
    BY <2>1, <2>2, <2>3 DEF SocketsServed, SocketAtHand, Processing,
       Processed, Listed
<1>4. ASSUME ConnectSocket
      PROVE  SocketsServed' /\ SocketAtHand'
             /\ pc' \in {"ConnectImpl", "Send"}
  <2> DEFINE f == IF HasChannel THEN Sock!Allocate(flags[cur]) ELSE flags[cur]
  <2>1. /\ pc = "ProcessSockets" /\ ~LoopEnds
        /\ UNCHANGED <<sockets, out>> /\ cur' = cur
        /\ \/ /\ Sock!NeedsConnect(f) /\ pc' = "ConnectImpl"
              /\ flags' = [flags EXCEPT ![cur] = f \cup {"ModemConnecting"}]
           \/ /\ ~Sock!NeedsConnect(f) /\ pc' = "Send"
              /\ flags' = [flags EXCEPT ![cur] = f]
    BY <1>4 DEF ConnectSocket, Goto, frameVars
  <2>2. cur \in Listed(sockets) /\ cur \in Socket
    BY <1>2, <2>1 DEF LoopEnds, FrameInv
  <2>3. PICK g \in {f, f \cup {"ModemConnecting"}} :
          flags' = [flags EXCEPT ![cur] = g]
    BY <2>1
  <2>4. /\ Sock!IsAllocated(flags[cur]) => Sock!IsAllocated(g)
        /\ Sock!NeedsClose(g) => Sock!NeedsClose(flags[cur])
        /\ Sock!CanDelete(g) => Sock!CanDelete(flags[cur])
    <3>1. /\ Sock!IsAllocated(flags[cur]) => Sock!IsAllocated(f)
          /\ Sock!NeedsClose(f) => Sock!NeedsClose(flags[cur])
          /\ Sock!CanDelete(f) => Sock!CanDelete(flags[cur])
      BY SocketReasons DEF Sock!IsAllocated, Sock!Allocate
    <3>2. Sock!IsAllocated(f) => Sock!IsAllocated(f \cup {"ModemConnecting"})
      BY DEF Sock!IsAllocated
    <3>3. /\ Sock!NeedsClose(f \cup {"ModemConnecting"}) =>
               Sock!NeedsClose(f)
          /\ Sock!CanDelete(f \cup {"ModemConnecting"}) => Sock!CanDelete(f)
      BY SocketReasons
    <3> HIDE DEF f
    <3> QED
      BY <2>3, <3>1, <3>2, <3>3
  <2> HIDE DEF f
  <2>5. /\ HasChannel' => HasChannel
        /\ flags'[cur] = g /\ \A s \in Socket \ {cur} : flags'[s] = flags[s]
        /\ \A s \in Socket \ {cur} : SocketWork(s)' => SocketWork(s)
    BY <2>1, <2>2, <2>3, <2>4, OthersServed
  <2>6. /\ \A s \in Listed(sockets) :
             ~Sock!NeedsClose(flags[s]) /\ ~Sock!CanDelete(flags[s])
        /\ \A s \in Passed(sockets, cur) : ~SocketWork(s)
    BY <2>1 DEF Served, SocketsServed, Processing
  <2>7. Passed(sockets, cur) \subseteq Socket \ {cur}
    BY <1>2, PassedEnds DEF Listed
  <2>8. \A s \in Listed(sockets) :
          ~Sock!NeedsClose(flags'[s]) /\ ~Sock!CanDelete(flags'[s])
    BY <1>2, <2>2, <2>4, <2>5, <2>6
  <2>9. SocketsServed'
    BY <2>1, <2>5, <2>6, <2>7, <2>8 DEF SocketsServed, Processing, Processed,
       Listed
  <2>10. CASE pc' = "ConnectImpl"
    <3>1. /\ flags' = [flags EXCEPT ![cur] = f \cup {"ModemConnecting"}]
          /\ Sock!NeedsConnect(f)
      BY <2>1, <2>10
    <3>2. flags'[cur] = f \cup {"ModemConnecting"}
      BY <2>2, <3>1
    <3>3. "AppClose" \notin f /\ "AppReference" \in f
      BY <3>1, SocketReasons
    <3> QED
      BY <2>1, <2>9, <2>10, <3>2, <3>3 DEF SocketAtHand, Processing
  <2>11. CASE pc' = "Send"
    <3>1. flags'[cur] = f /\ ~Sock!NeedsConnect(f)
      BY <2>1, <2>2, <2>11
    <3>2. HasChannel => ~Sock!IsNew(f)
      BY SocketReasons DEF f
    <3> QED
      BY <2>1, <2>5, <2>9, <2>11, <3>1, <3>2 DEF SocketAtHand, Processing
  <2> QED
    BY <2>1, <2>10, <2>11
<1>5. ASSUME StartSend
      PROVE  SocketsServed' /\ SocketAtHand'
             /\ pc' \in {"SendPacketImpl", "Receive"}
  <2>1. CASE Sock!DataToSend(flags[cur], out[cur] > 0)
    <3>1. pc' = "SendPacketImpl"
      BY <1>5, <2>1 DEF StartSend, Goto
    <3> QED
      BY <3>1 DEF SocketsServed, SocketAtHand, Processing, Processed
  <2>2. CASE ~Sock!DataToSend(flags[cur], out[cur] > 0)
    <3>1. /\ pc = "Send" /\ pc' = "Receive"
          /\ UNCHANGED <<sockets, flags, out, cur>>
      BY <1>5, <2>2 DEF StartSend, Goto, frameVars
    <3>2. \A s : SocketWork(s)' <=> SocketWork(s)
      BY <3>1 DEF SocketWork, HasChannel, NumAllocated
    <3>3. HasChannel' <=> HasChannel
      BY <3>1 DEF HasChannel, NumAllocated
    <3>4. SocketsServed /\ SocketAtHand
      BY DEF Served
    <3>5. SocketsServed'
      BY <3>1, <3>2, <3>4 DEF SocketsServed, Processing, Processed, Listed
    <3>6. SocketAtHand'
      BY <2>2, <3>1, <3>3, <3>4 DEF SocketAtHand, Processing
    <3> QED
      BY <3>1, <3>5, <3>6
  <2> QED
    BY <2>1, <2>2
<1> QED
  BY <1>1, <1>3, <1>4, <1>5 DEF Processing

\* ... then what it was connected for ...
LEMMA ConnectWakes ==
  ASSUME TypeOK, FrameInv, Served, Quiet, Quiet',
         NEW r \in Result, ConnectReturns(r)
  PROVE  (SocketsServed /\ SocketAtHand /\ MessagesServed)'
<1> USE ModemAssumption DEF TypeOK
<1>1. /\ pc = "ConnectImpl" /\ pc' = "Send" /\ UNCHANGED <<sockets, out>>
      /\ cur' = cur
  BY DEF ConnectReturns, Goto, frameVars
<1>2. cur \in Listed(sockets) /\ Listed(sockets) \subseteq Socket
  BY <1>1, ListTypes DEF FrameInv, OnSocket, Listed
<1>3. /\ "AppClose" \notin flags[cur] /\ "AppReference" \in flags[cur]
      /\ "ModemConnecting" \in flags[cur]
      /\ \A s \in Listed(sockets) :
           ~Sock!NeedsClose(flags[s]) /\ ~Sock!CanDelete(flags[s])
      /\ \A s \in Passed(sockets, cur) : ~SocketWork(s)
  BY <1>1 DEF Served, SocketsServed, SocketAtHand, Processing
<1>4. PICK g \in {flags[cur], Sock!Bound(flags[cur]),
                  Sock!Finished(flags[cur])} :
        flags' = [flags EXCEPT ![cur] = g]
  BY <1>2 DEF ConnectReturns
<1>5. /\ Sock!IsAllocated(flags[cur]) => Sock!IsAllocated(g)
      /\ ~Sock!NeedsClose(g) /\ ~Sock!CanDelete(g)
      /\ ~Sock!IsNew(g) /\ ~Sock!NeedsConnect(g)
  <2>1. /\ Sock!IsAllocated(flags[cur]) =>
             Sock!IsAllocated(Sock!Bound(flags[cur]))
        /\ Sock!IsAllocated(flags[cur]) =>
             Sock!IsAllocated(Sock!Finished(flags[cur]))
    BY DEF Sock!IsAllocated, Sock!Bound, Sock!Finished
  <2>2. /\ ~Sock!NeedsClose(Sock!Bound(flags[cur]))
        /\ ~Sock!CanDelete(Sock!Bound(flags[cur]))
        /\ ~Sock!IsNew(Sock!Bound(flags[cur]))
        /\ ~Sock!NeedsConnect(Sock!Bound(flags[cur]))
    BY <1>3, SocketReasons
  <2>3. /\ ~Sock!NeedsClose(Sock!Finished(flags[cur]))
        /\ ~Sock!CanDelete(Sock!Finished(flags[cur]))
        /\ ~Sock!IsNew(Sock!Finished(flags[cur]))
        /\ ~Sock!NeedsConnect(Sock!Finished(flags[cur]))
    BY <1>3, SocketReasons
  <2>4. /\ ~Sock!NeedsClose(flags[cur]) /\ ~Sock!CanDelete(flags[cur])
        /\ ~Sock!IsNew(flags[cur]) /\ ~Sock!NeedsConnect(flags[cur])
    BY <1>2, <1>3, SocketReasons
  <2> QED
    BY <1>4, <2>1, <2>2, <2>3, <2>4
<1>6. /\ flags'[cur] = g /\ \A s \in Socket \ {cur} : flags'[s] = flags[s]
      /\ \A s \in Socket \ {cur} : SocketWork(s)' => SocketWork(s)
  BY <1>1, <1>2, <1>4, <1>5, OthersServed
<1>7. Passed(sockets, cur) \subseteq Socket \ {cur}
  BY <1>2, PassedEnds DEF Listed
<1>8. \A s \in Listed(sockets) :
        ~Sock!NeedsClose(flags'[s]) /\ ~Sock!CanDelete(flags'[s])
  BY <1>2, <1>3, <1>5, <1>6
<1>9. SocketsServed'
  BY <1>1, <1>3, <1>6, <1>7, <1>8 DEF SocketsServed, Processing, Processed,
     Listed
<1>10. SocketAtHand'
  BY <1>1, <1>5, <1>6 DEF SocketAtHand, Processing
<1> QED
  BY <1>1, <1>9, <1>10 DEF MessagesServed, Processed, Sent, Leaving

\* ... and what came in for it; then the next one is at hand.
LEMMA ReceiveWakes ==
  ASSUME TypeOK, FrameInv, Served, ListedOnce, Quiet, Quiet',
         \/ \E room \in BOOLEAN : StartReceive(room) \/ StartCheck(room)
         \/ \E r \in Result : ReceiveReturns(r) \/ CheckReturns(r)
  PROVE  (SocketsServed /\ SocketAtHand /\ MessagesServed)'
<1> USE ModemAssumption DEF TypeOK
<1>1. /\ pc \in {"Receive", "ReceivePacketImpl", "Check", "CheckIncomingImpl"}
      /\ pc' \in {"ReceivePacketImpl", "Check", "CheckIncomingImpl",
                  "ProcessSockets"}
      /\ UNCHANGED <<sockets, out>>
  BY DEF StartReceive, StartCheck, ReceiveReturns, CheckReturns, Goto,
     listVars, socketVars
<1>2. cur \in Listed(sockets) /\ Listed(sockets) \subseteq Socket
  BY <1>1, ListTypes DEF FrameInv, OnSocket, Listed
<1>3. SocketsServed /\ SocketAtHand
  BY DEF Served
<1>4. PICK g : /\ flags' = [flags EXCEPT ![cur] = g]
               /\ \/ g = flags[cur]
                  \/ \E room \in BOOLEAN :
                       /\ g = Sock!IncomingRequested(flags[cur])
                       /\ Sock!CanReceive(flags[cur], room)
  <2>1. ASSUME flags' = flags PROVE flags' = [flags EXCEPT ![cur] = flags[cur]]
    BY <1>2, <2>1
  <2>2. ASSUME NEW room \in BOOLEAN, StartReceive(room) \/ StartCheck(room)
        PROVE  \/ flags' = flags
               \/ /\ Sock!CanReceive(flags[cur], room)
                  /\ flags' = [flags EXCEPT
                                 ![cur] = Sock!IncomingRequested(flags[cur])]
    BY <2>2 DEF StartReceive, StartCheck
  <2>3. ASSUME NEW r \in Result, ReceiveReturns(r) \/ CheckReturns(r)
        PROVE  flags' = flags
    BY <2>3 DEF ReceiveReturns, CheckReturns, listVars, socketVars
  <2> QED
    BY <2>1, <2>2, <2>3
<1>5. /\ Sock!IsAllocated(flags[cur]) => Sock!IsAllocated(g)
      /\ Sock!NeedsClose(g) => Sock!NeedsClose(flags[cur])
      /\ Sock!CanDelete(g) => Sock!CanDelete(flags[cur])
      /\ Sock!IsNew(g) => Sock!IsNew(flags[cur])
      /\ Sock!NeedsConnect(g) => Sock!NeedsConnect(flags[cur])
      /\ Sock!DataToSend(g, out[cur] > 0) =>
           Sock!DataToSend(flags[cur], out[cur] > 0)
      /\ Sock!DataToReceive(g) => Sock!DataToReceive(flags[cur])
  <2>1. Sock!IsAllocated(flags[cur]) =>
          Sock!IsAllocated(Sock!IncomingRequested(flags[cur]))
    BY DEF Sock!IsAllocated, Sock!IncomingRequested
  <2> DEFINE h == Sock!IncomingRequested(flags[cur])
  <2>2. /\ Sock!NeedsClose(h) => Sock!NeedsClose(flags[cur])
        /\ Sock!CanDelete(h) => Sock!CanDelete(flags[cur])
        /\ Sock!NeedsConnect(h) => Sock!NeedsConnect(flags[cur])
        /\ Sock!DataToSend(h, out[cur] > 0) =>
             Sock!DataToSend(flags[cur], out[cur] > 0)
        /\ ~Sock!DataToReceive(h)
    BY SocketReasons
  <2>3. ASSUME NEW room \in BOOLEAN, Sock!CanReceive(flags[cur], room)
        PROVE  ~Sock!IsNew(h)
    BY <2>3, SocketReasons
  <2> HIDE DEF h
  <2>4. g = flags[cur] \/ (g = h /\ ~Sock!IsNew(h))
    BY <1>4, <2>3 DEF h
  <2> QED
    BY <2>1, <2>2, <2>4 DEF h
<1>6. /\ HasChannel' => HasChannel
      /\ flags'[cur] = g /\ \A s \in Socket \ {cur} : flags'[s] = flags[s]
      /\ \A s \in Socket \ {cur} : SocketWork(s)' => SocketWork(s)
  BY <1>1, <1>2, <1>4, <1>5, OthersServed
<1>7. /\ \A s \in Listed(sockets) :
           ~Sock!NeedsClose(flags[s]) /\ ~Sock!CanDelete(flags[s])
      /\ \A s \in Passed(sockets, cur) : ~SocketWork(s)
      /\ Sock!IsNew(flags[cur]) => ~HasChannel
      /\ ~Sock!NeedsConnect(flags[cur])
      /\ ~Sock!DataToSend(flags[cur], out[cur] > 0)
  BY <1>1, <1>3 DEF SocketsServed, SocketAtHand, Processing
<1>8. \A s \in Listed(sockets) :
        ~Sock!NeedsClose(flags'[s]) /\ ~Sock!CanDelete(flags'[s])
  BY <1>2, <1>5, <1>6, <1>7
<1>9. Passed(sockets, cur) \subseteq Socket \ {cur}
  BY <1>2, PassedEnds DEF Listed
<1>10. pc' = "ReceivePacketImpl" \/ pc' = "Check" \/ pc' = "CheckIncomingImpl"
         \/ pc' = "ProcessSockets" => ~Sock!DataToReceive(g)
  <2>1. ASSUME NEW room \in BOOLEAN, StartReceive(room)
        PROVE  ~Sock!DataToReceive(g)
    <3>1. CASE ~Sock!DataToReceive(flags[cur])
      BY <1>5, <3>1
    <3>2. CASE Sock!DataToReceive(flags[cur])
      <4>1. flags' = [flags EXCEPT
                        ![cur] = Sock!IncomingRequested(flags[cur])]
        BY <2>1, <3>2 DEF StartReceive, Quiet
      <4> QED
        BY <1>2, <1>6, <4>1, SocketReasons
    <3> QED
      BY <3>1, <3>2
  <2>2. ASSUME pc \in {"ReceivePacketImpl", "Check", "CheckIncomingImpl"}
        PROVE  ~Sock!DataToReceive(g)
    BY <1>3, <1>5, <2>2 DEF SocketAtHand
  <2> QED
    BY <1>1, <2>1, <2>2 DEF StartCheck, ReceiveReturns, CheckReturns
<1>11. CASE cur' = cur /\ pc' # "ProcessSockets"
  <2>1. SocketsServed'
    BY <1>1, <1>6, <1>7, <1>8, <1>9, <1>11 DEF SocketsServed, Processing,
       Processed, Listed
  <2>2. SocketAtHand'
    BY <1>1, <1>5, <1>6, <1>7, <1>10, <1>11 DEF SocketAtHand, Processing
  <2> QED
    BY <1>1, <2>1, <2>2 DEF MessagesServed, Processed, Sent, Leaving
<1>12. CASE cur' = After(sockets, cur) /\ pc' = "ProcessSockets"
  <2>1. Passed(sockets, cur') \subseteq Passed(sockets, cur) \cup {cur}
    BY <1>2, <1>12, PassedNext DEF Listed, ListedOnce
  <2>2. \A s \in Socket : s = cur => ~SocketWork(s)'
    <3>1. /\ ~Sock!NeedsClose(g) /\ ~Sock!CanDelete(g)
          /\ ~Sock!NeedsConnect(g) /\ ~Sock!DataToSend(g, out[cur] > 0)
          /\ ~Sock!DataToReceive(g) /\ (Sock!IsNew(g) => ~HasChannel')
      BY <1>2, <1>5, <1>6, <1>7, <1>10, <1>12
    <3> QED
      BY <1>1, <1>6, <3>1 DEF SocketWork
  <2>3. \A s \in Passed(sockets, cur') : ~SocketWork(s)'
    BY <1>2, <1>6, <1>7, <1>9, <2>1, <2>2
  <2> QED
    BY <1>1, <1>8, <1>12, <2>3 DEF SocketsServed, SocketAtHand,
       MessagesServed, Processing, Processed, Sent, Leaving, Listed
<1>13. /\ pc' = "ProcessSockets" => cur' = After(sockets, cur)
       /\ pc' # "ProcessSockets" => cur' = cur
  BY <1>1 DEF StartReceive, StartCheck, ReceiveReturns, CheckReturns, Goto,
     frameVars
<1> QED
  BY <1>11, <1>12, <1>13

\* Every step of a pass.
LEMMA PassWakes ==
  ASSUME TypeOK, FrameInv, Served, ListedOnce, Pass PROVE Served'
<1> SUFFICES ASSUME Quiet'
             PROVE  (SocketsServed /\ SocketAtHand /\ MessagesServed)'
  BY DEF Served
<1>1. AcquireProcess \/ Quiet
  BY PassQuiet
<1> QED
  BY <1>1, PassQuiet, CloseWakes, MessageWakes, ServeStarts, ConnectWakes,
     ReceiveWakes DEF Pass

-----------------------------------------------------------------------------
(* Between the sessions                                                    *)

\* An object enters a list when it is not in it.
LEMMA ListedOnceStep ==
  ASSUME TypeOK, ListedOnce, [Next]_vars PROVE ListedOnce'
<1> USE DEF TypeOK, ListedOnce
<1>1. ASSUME NEW s \in Socket, NEW tls \in Security, CreateSocket(s, tls)
      PROVE  ListedOnce'
  BY <1>1, AppendedOnce DEF CreateSocket, Listed, messageVars
<1>2. ASSUME NEW m \in Message, SendMessage(m) PROVE ListedOnce'
  BY <1>2, AppendedOnce DEF SendMessage, Listed, socketVars
<1>3. ASSUME RemoveSocket PROVE ListedOnce'
  BY <1>3, RemovedOnce DEF RemoveSocket, DestroySocket, messageVars
<1>4. ASSUME RemoveMessage PROVE ListedOnce'
  BY <1>4, RemovedOnce DEF RemoveMessage, DestroyMessage, socketVars
<1>5. ASSUME UNCHANGED <<sockets, messages>> PROVE ListedOnce'
  BY <1>5
<1>6. ASSUME NEW s \in Socket,
             ReleaseSocket(s) \/ Disconnect(s) \/ WriteOutput(s)
      PROVE  UNCHANGED <<sockets, messages>>
  BY <1>6 DEF ReleaseSocket, Disconnect, WriteOutput, messageVars
<1>7. ASSUME NEW m \in Message, ReleaseMessage(m)
      PROVE  UNCHANGED <<sockets, messages>>
  BY <1>7 DEF ReleaseMessage, socketVars
<1>8. ASSUME StartUp, ~RemoveSocket, ~RemoveMessage
      PROVE  UNCHANGED <<sockets, messages>>
  BY <1>8 DEF StartUp, Preprocess, NothingToDo, PowerOn, PowerOnFailed,
     RetryPowerOn, PowerOnFailedAgain, PoweredOn, Started, StartFailed,
     SimUnlocked, NetworkConnected, BringUpFailed, listVars, socketVars,
     messageVars
<1>9. ASSUME Pass PROVE UNCHANGED <<sockets, messages>>
  BY <1>9 DEF Pass, AcquireProcess, CloseSocket, CloseLoopEnds, SocketsRemoved,
     ConnectSocket, StartSend, ProcessLoopEnds, StartSendMessage,
     SubmitMessage, MessageLoopEnds, MessagesRemoved, EndPass, Resume,
     StartReceive, StartCheck, CloseReturns, ConnectReturns, SendReturns,
     ReceiveReturns, CheckReturns, SendMessageReturns, listVars, socketVars,
     messageVars
<1>10. ASSUME ShutDown PROVE UNCHANGED <<sockets, messages>>
  BY <1>10 DEF ShutDown, NetworkDisconnected, FinishSockets, PoweredOff,
     TaskEnds, listVars, socketVars, messageVars
<1>11. ASSUME RxTask PROVE UNCHANGED <<sockets, messages>>
  BY <1>11 DEF RxTask, OnConnected, OpenFailsUnheard, OnDisconnected,
     OnIncoming,
     OnMaybeIncoming, OnData, OnSendResponse, OnMessageReference, MoveData,
     RxStops, listVars, socketVars, messageVars
<1>12. ASSUME Device \/ IdleTimeout \/ UNCHANGED vars
       PROVE  UNCHANGED <<sockets, messages>>
  BY <1>12 DEF Device, TakeOpenRequest, TakeCloseRequest, PeerSends,
     IdleTimeout, vars,
     listVars, socketVars, messageVars
<1> QED
  BY <1>1, <1>2, <1>3, <1>4, <1>5, <1>6, <1>7, <1>8, <1>9, <1>10, <1>11, <1>12
     DEF Next, App, Task

\* No listed socket waits to be connected.
NoneNew == \A s \in Listed(sockets) : ~Sock!IsNew(flags[s])

\* Finishing the listed sockets, or those the application has closed, leaves
\* no new one among them.
LEMMA FinishedNotNew ==
  ASSUME TypeOK, NEW S \in SUBSET Socket, FinishAll(S), UNCHANGED sockets,
         \A s \in Listed(sockets) \ S : ~Sock!IsNew(flags[s])
  PROVE  NoneNew'
<1>1. Listed(sockets) \subseteq Socket
  BY ListTypes DEF TypeOK, Listed
<1>2. \A f : ~Sock!IsNew(Sock!Finished(f))
  BY SocketReasons
<1> QED
  BY <1>1, <1>2 DEF FinishAll, NoneNew, Listed

\* The steps between the sessions.
LEMMA BetweenStep ==
  ASSUME TypeOK, TaskInv, CleanInv, Served, Between, [Next]_vars
  PROVE  Between'
<1> USE DEF Between
<1>1. ASSUME App PROVE Between'
  <2>1. ASSUME \/ \E s \in Socket :
                    \/ \E tls \in Security : CreateSocket(s, tls)
                    \/ ReleaseSocket(s)
               \/ \E m \in Message : SendMessage(m) \/ ReleaseMessage(m)
        PROVE  Between'
    BY <2>1 DEF CreateSocket, ReleaseSocket, SendMessage, ReleaseMessage,
       EnsureRunning, TaskInv, TypeOK, HoldsCpu, Loop, Quiet, atVars
  <2>2. ASSUME NEW s \in Socket, Disconnect(s) PROVE Between'
    <3>1. \A f : ~Sock!IsNew(Sock!CloseRequested(f))
      BY DEF Sock!IsNew, Sock!CloseRequested
    <3>2. Listed(sockets) \subseteq Socket
      BY ListTypes DEF TypeOK, Listed
    <3>3. /\ \A t \in Listed(sockets) :
                Sock!IsNew(flags'[t]) => Sock!IsNew(flags[t])
          /\ UNCHANGED <<pc, nxt, sockets, messages, mflags, modemStatus>>
          /\ process'
      BY <2>2, <3>1, <3>2 DEF Disconnect, TypeOK, messageVars, atVars,
         frameVars
    <3> QED
      BY <3>3 DEF Quiet, Listed
  <2>3. ASSUME NEW s \in Socket, WriteOutput(s) PROVE Between'
    BY <2>3 DEF WriteOutput, messageVars, atVars, frameVars, Quiet
  <2> QED
    BY <1>1, <2>1, <2>2, <2>3 DEF App
<1>2. ASSUME Preprocess PROVE Between'
  <2>1. /\ pc' = "DestroyOld" /\ sockets' = sockets
        /\ FinishAll({s \in Socket : "AppClose" \in flags[s]})
    BY <1>2 DEF Preprocess, Goto
  <2>2. ASSUME nxt' = NULL PROVE NoneNew'
    <3> DEFINE S == {s \in Socket : "AppClose" \in flags[s]}
    <3>1. \A i \in DOMAIN sockets : sockets[i] \in Socket
      BY DEF TypeOK
    <3>2. \A i \in DOMAIN sockets :
            sockets[i] \notin S => ~Sock!IsNew(flags[sockets[i]])
      BY <1>2, <2>2, <3>1, ModemAssumption DEF Preprocess
    <3> HIDE DEF S
    <3>3. \A s \in Listed(sockets) \ S : ~Sock!IsNew(flags[s])
      BY <3>2 DEF Listed, ToSet
    <3> QED
      BY <2>1, <3>3, FinishedNotNew DEF S
  <2> QED
    BY <2>1, <2>2 DEF NoneNew
<1>3. ASSUME RemoveSocket PROVE Between'
  <2>1. PICK i \in DOMAIN sockets : DestroySocket(i)
    BY <1>3 DEF RemoveSocket
  <2>2. ~Sock!IsNew({})
    BY DEF Sock!IsNew
  <2>3. /\ Listed(sockets) \subseteq Socket
        /\ Listed(sockets') \subseteq Listed(sockets)
    BY <2>1, ListTypes, RemovedOnce DEF DestroySocket, Listed, TypeOK
  <2>4. NoneNew => NoneNew'
    BY <2>1, <2>2, <2>3 DEF NoneNew, DestroySocket, TypeOK, Listed
  <2> QED
    BY <1>3, <2>4 DEF RemoveSocket, NoneNew, frameVars
<1>4. ASSUME RemoveMessage PROVE Between'
  BY <1>4 DEF RemoveMessage, socketVars, atVars, frameVars, Listed
<1>5. ASSUME NothingToDo PROVE Between'
  <2>1. Listed(messages)' = {}
    BY <1>5 DEF NothingToDo, listVars, messageVars, Listed, ToSet
  <2>2. NoneNew => NoneNew'
    BY <1>5 DEF NothingToDo, listVars, socketVars, NoneNew, Listed
  <2> QED
    BY <1>5, <2>1, <2>2 DEF NothingToDo, OldDestroyed, StopTask, NoneNew
<1>6. ASSUME PowerOnFailedAgain PROVE Between'
  <2>1. rxLen = 0
    BY <1>6 DEF PowerOnFailedAgain, CleanInv, PoweredDown
  <2>2. NoneNew'
    <3>1. \A s \in Listed(sockets) \ Socket : ~Sock!IsNew(flags[s])
      BY ListTypes DEF TypeOK, Listed
    <3> QED
      BY <1>6, <2>1, <3>1, FinishedNotNew DEF PowerOnFailedAgain
  <2> QED
    BY <1>6, <2>2 DEF PowerOnFailedAgain, StopTask, NoneNew, atVars
<1>7. ASSUME \/ PowerOn \/ PowerOnFailed \/ RetryPowerOn \/ PoweredOn
             \/ Started \/ StartFailed \/ SimUnlocked \/ NetworkConnected
             \/ BringUpFailed
      PROVE  Between'
  BY <1>7 DEF PowerOn, PowerOnFailed, RetryPowerOn, PoweredOn, Started,
     StartFailed, SimUnlocked, NetworkConnected, BringUpFailed, Goto, atVars
<1>8. ASSUME Pass PROVE Between'
  <2>1. pc' \notin {"PowerOnImpl", "RetryDelay", "PowerOnImplAgain",
                    "StartImpl", "UnlockSimImpl", "ConnectNetworkImpl",
                    "Stopped", "DestroyOld", "PowerOffImpl", "AwaitRxStop"}
    BY <1>8 DEF Pass, AcquireProcess, CloseSocket, CloseLoopEnds,
       SocketsRemoved, ConnectSocket, StartSend, ProcessLoopEnds,
       StartSendMessage, SubmitMessage, MessageLoopEnds, MessagesRemoved,
       EndPass, Resume, StartReceive, StartCheck, CloseReturns,
       ConnectReturns, SendReturns, ReceiveReturns, CheckReturns,
       SendMessageReturns, LeaveNetwork, Goto
  <2> QED
    BY <2>1
<1>9. ASSUME NEW r, NetworkDisconnected(r) PROVE Between'
  BY <1>9 DEF NetworkDisconnected, Goto
<1>10. ASSUME FinishSockets PROVE Between'
  <2>1. pc' = "PowerOffImpl" /\ UNCHANGED <<sockets, rxLen>>
    BY <1>10 DEF FinishSockets, Goto, envVars, rxVars
  <2>2. ASSUME rxLen = 0 PROVE NoneNew'
    <3>1. \A s \in Listed(sockets) \ Socket : ~Sock!IsNew(flags[s])
      BY ListTypes DEF TypeOK, Listed
    <3> QED
      BY <1>10, <2>1, <2>2, <3>1, FinishedNotNew DEF FinishSockets
  <2> QED
    BY <2>1, <2>2 DEF Quiet, NoneNew
<1>11. ASSUME PoweredOff PROVE Between'
  BY <1>11 DEF PoweredOff, Goto, Quiet, rxVars, listVars, socketVars
<1>12. ASSUME TaskEnds PROVE Between'
  <2>1. CASE process
    BY <1>12, <2>1 DEF TaskEnds, Restart
  <2>2. CASE ~process
    <3>1. Quiet
      BY <1>12, <2>2 DEF TaskEnds, RxStopped, CleanInv, Quiet
    <3>2. \A m \in Listed(messages) : ~Msg!ShouldSend(mflags[m])
      BY <1>12, <3>1 DEF TaskEnds, Served, MessagesServed, Sent, Leaving
    <3> QED
      BY <1>12, <2>2, <3>1, <3>2 DEF TaskEnds, Restart, StopTask, listVars,
         socketVars, messageVars, Listed
  <2> QED
    BY <2>1, <2>2
<1>13. ASSUME RxTask \/ Device \/ UNCHANGED vars PROVE Between'
  <2>1. UNCHANGED <<pc, nxt, sockets, messages, modemStatus>>
        /\ (process => process')
    BY <1>13 DEF RxTask, OnConnected, OpenFailsUnheard, OnDisconnected,
       OnIncoming,
       OnMaybeIncoming, OnData, OnSendResponse, OnMessageReference, MoveData,
       RxStops, Notify, Device, TakeOpenRequest, TakeCloseRequest, PeerSends,
       vars,
       listVars, socketVars, messageVars, atVars, frameVars
  <2>2. pc \in {"Stopped", "DestroyOld"} => UNCHANGED <<flags, mflags>>
    <3>1. ASSUME RxTask PROVE pc \notin {"Stopped", "DestroyOld"}
      BY <1>13, <3>1 DEF CleanInv, PoweredDown, TypeOK, RxTask, OnConnected,
         OpenFailsUnheard,
         OnDisconnected, OnIncoming, OnMaybeIncoming, OnData, OnSendResponse,
         OnMessageReference, MoveData, RxStops, LineArrives
    <3> QED
      BY <1>13, <3>1 DEF Device, TakeOpenRequest, TakeCloseRequest, PeerSends,
         vars,
         listVars, socketVars, messageVars
  <2>3. pc \in {"PowerOffImpl", "AwaitRxStop"} /\ Quiet' =>
          Quiet /\ UNCHANGED flags
    BY <1>13, OthersAsk
  <2> QED
    BY <2>1, <2>2, <2>3 DEF Listed
<1>14. ASSUME IdleTimeout PROVE Between'
  BY <1>14 DEF IdleTimeout, LeaveNetwork, Goto
<1> QED
  BY <1>1, <1>2, <1>3, <1>4, <1>5, <1>6, <1>7, <1>8, <1>9, <1>10, <1>11, <1>12,
     <1>13, <1>14 DEF Next, Task, StartUp, ShutDown

-----------------------------------------------------------------------------
(* The theorems *)

\* WakeInv is inductive together with Inv.
THEOREM Woken == Spec => []WakeInv
<1>1. Init => WakeInv
  <2> SUFFICES ASSUME Init PROVE WakeInv
    OBVIOUS
  <2>1. Listed(sockets) = {} /\ Listed(messages) = {}
    BY DEF Init, Listed, ToSet
  <2>2. Served /\ Between
    BY <2>1 DEF Init, Served, Between, SocketsServed, SocketAtHand,
       MessagesServed, Processing, Processed, Sent, Leaving
  <2>3. ListedOnce
    BY DEF Init, ListedOnce, IsInjective
  <2> QED
    BY <2>2, <2>3 DEF WakeInv
<1>2. Inv /\ WakeInv /\ [Next]_vars => WakeInv'
  <2> SUFFICES ASSUME Inv, WakeInv, [Next]_vars PROVE WakeInv'
    OBVIOUS
  <2>1. Served'
    BY OthersWake, IdleWakes, StartUpWakes, PassWakes, ShutDownWakes
       DEF Inv, WakeInv, Next, Task
  <2>2. Between'
    BY BetweenStep DEF Inv, WakeInv
  <2>3. ListedOnce'
    BY ListedOnceStep DEF Inv, WakeInv
  <2> QED
    BY <2>1, <2>2, <2>3 DEF WakeInv
<1> QED
  BY <1>1, <1>2, Invariance, PTL DEF Spec

\* The task never waits for "process" with something to do for a socket or a
\* message, unless a transfer is under way, whose end wakes it.
THEOREM NoWakeupLost == Spec => []NoLostWakeup
<1>1. WakeInv => NoLostWakeup
  BY DEF WakeInv, Served, Quiet, SocketsServed, MessagesServed, Processed,
     Sent, MessageWork, NoLostWakeup
<1> QED
  BY <1>1, Woken, PTL

\* When the task has ended, no socket waits to be connected, and a message to
\* be sent only if the modem could not be powered on.
THEOREM NoneStranded == Spec => []NothingStranded
<1>1. WakeInv => NothingStranded
  BY DEF WakeInv, Between, NothingStranded
<1> QED
  BY <1>1, Woken, PTL

=============================================================================
