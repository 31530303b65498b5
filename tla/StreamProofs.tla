---------------------------- MODULE StreamProofs ----------------------------
(***************************************************************************)
(* Proofs about the bytes a socket sends: the reader of its transmit pipe  *)
(* is where the modem's count is, whatever sends, failures and answers     *)
(* have come in between, for any number of sockets, channels and bytes.    *)
(***************************************************************************)
EXTENDS SimComProofs

\* The modem has taken n bytes more than the reader has been advanced by.
Ahead(s, n) ==
  \A l \in Link : link[l].of = s => position[s] + n = link[l].taken

\* A connection that is none is nobody's.
Vacant == \A l \in Link : link[l].at = "idle" => link[l].of = NULL

\* Send commands, and the question for the count before them.
Given ==
  command.name \in {"Send", "CIPACK"} =>
    /\ command.of \in Socket /\ IsAllocated(flags[command.of])
    /\ IsSecure(command.of) /\ LinkOf(command.of) = command.link
    /\ \/ pc = Step(command.name) /\ cur = command.of
       \/ failed /\ phase = "Serve"
    /\ command.name = "Send" =>
         /\ Ahead(command.of, 0)
         /\ ~failed => command.len = outgoing[command.of]

\* What the modem has answered to them.
SendResponse == {"DATA ACCEPT", "SEND FAIL", "+CCHSEND"}

Tells(e) ==
  /\ e.text \in SendResponse => e.of = cur /\ pc = "SendPacketImpl"
  /\ e.text = "DATA ACCEPT" => e.value = outgoing[cur] /\ Ahead(cur, e.value)
  /\ e.text = "SEND FAIL" => model = "SIM800"
  /\ e.text = "+CCHSEND" =>
       Ahead(cur, IF e.value = 0 THEN outgoing[cur] ELSE 0)
  /\ e.text = "+CIPACK" =>
       /\ pc = "SendAck"
       /\ \A l \in Link : link[l].of = cur => link[l].taken = e.value

Told == ~failed => \A i \in DOMAIN rx : Tells(rx[i])

Responded == \E i \in DOMAIN rx : rx[i].text \in SendResponse

\* The counts agree unless the last send has failed or its response is still to
\* be read.
Counted ==
  /\ ~failed => \A s \in Socket :
       error[s] \/ Ahead(s, 0) \/ (s = cur /\ Sends /\ Responded)
  /\ model = "SIM7600" => \A s \in Socket : ~error[s]

\* The count has been asked for and read.
Acknowledged ==
  /\ pc = "SendAck"
  /\ result = "OK" \/ (result = "Pending" /\ 2 \notin need)

Acked == Acknowledged => Ahead(cur, 0)

\* The modem holds what is connected, or its call is about to say so, or the
\* session is given up.
OpenHeld ==
  \A s \in Socket : IsConnected(flags[s]) => Kept(s)

\* A socket that has been connected is not connected again, ...
Sealed(f) == "ModemReference" \in f \/ IsClosed(f)

\* ... and only such a one sends.
Begun ==
  /\ \A s \in Socket :
       /\ position[s] # 0 => Sealed(flags[s])
       /\ position[s] # 0 \/ error[s] => IsAllocated(flags[s])
  /\ pc \in {"SendAck", "SendPacketImpl"} => Sealed(flags[cur]) /\ IsSecure(cur)
  /\ command.name = "Open" => position[command.of] = 0
  /\ pc = "ConnectSecurity" /\ ~failed => position[cur] = 0

\* Only connections whose socket can be found are said to be open.
Heard ==
  \A i \in DOMAIN rx : rx[i].text = "Opened" => PoolOf(rx[i].of) # "CIP"

StreamInv ==
  Vacant /\ Given /\ Told /\ Counted /\ Acked /\ OpenHeld /\ Begun /\ Heard

-----------------------------------------------------------------------------
(* Counts that stay *)

\* A count stays where it is, ...
LEMMA AheadStill ==
  ASSUME NEW s, link' = link, position'[s] = position[s]
  PROVE  \A n : Ahead(s, n)' <=> Ahead(s, n)
<1>1. Link' = Link
  BY DEF Link, Capacity
<1> QED
  BY <1>1 DEF Ahead

\* ... whichever name the socket goes by.
LEMMA AheadNow ==
  /\ \A o, n : o = cur' => (Ahead(cur, n)' <=> Ahead(o, n)')
  /\ \A o, n : o = command'.of => (Ahead(command.of, n)' <=> Ahead(o, n)')
BY DEF Ahead

\* While nothing is sent, only a failed send leaves the counts apart.
LEMMA CountedIdle ==
  ASSUME Counted, ~failed, ~Sends \/ ~Responded
  PROVE  \A s \in Socket : error[s] \/ Ahead(s, 0)
BY DEF Counted

\* Answers to a send are answers.
LEMMA ResponsesAnswer ==
  /\ SendResponse \subseteq Answers /\ "+CIPACK" \in Answers
  /\ SendResponse \subseteq Events /\ "+CIPACK" \in Events
  /\ \A t \in SendResponse \cup {"+CIPACK"} : t # "ERROR" /\ Bit(t) = 2
BY DEF SendResponse, Answers, Events, Bit

\* What has not been answered has not been responded to.
LEMMA NothingTold ==
  ASSUME Unanswered(rx)
  PROVE  ~Responded /\ \A i \in DOMAIN rx : Tells(rx[i])
<1>1. \A i \in DOMAIN rx : rx[i].text \notin SendResponse \cup {"+CIPACK"}
  BY ResponsesAnswer DEF Unanswered
<1> QED
  BY <1>1 DEF Responded, Tells, SendResponse

\* The same holds of the next state.
LEMMA NoneTold ==
  ASSUME \/ failed'
         \/ \A i \in DOMAIN rx' :
              rx'[i].text \notin SendResponse \cup {"+CIPACK"}
  PROVE  Told'
BY DEF Told, Tells, SendResponse

-----------------------------------------------------------------------------
(* Flag words *)

\* A socket that has been connected has been, whatever is said of it.
LEMMA SealedUpdates ==
  ASSUME NEW f
  PROVE  /\ \A g : Calm(f, g) /\ Sealed(f) => Sealed(g)
         /\ Sealed(f) => Sealed(Connected(f))
         /\ Sealed(f) => Sealed(Allocate(f))
         /\ Sealed(Bound(f)) /\ Sealed(Finished(f))
         /\ Sealed(f) => ~NeedsConnect(f)
BY DEF Calm, Sealed, Connected, Allocate, Bound, Finished, NeedsConnect,
       IsClosed

\* What a step of that sort does to sockets.
SealStep ==
  /\ model' = model
  /\ \A s \in Socket : IsAllocated(flags[s]) =>
       /\ IsAllocated(flags'[s])
       /\ LinkOf(s)' = LinkOf(s) /\ (IsSecure(s)' <=> IsSecure(s))
       /\ Sealed(flags[s]) => Sealed(flags'[s])

\* Calm steps are of that sort.
LEMMA CalmSeal ==
  ASSUME CalmStep PROVE SealStep
<1>1. ASSUME NEW s \in Socket
      PROVE  /\ IsAllocated(flags[s]) <=> IsAllocated(flags'[s])
             /\ LinkOf(s)' = LinkOf(s) /\ (IsSecure(s)' <=> IsSecure(s))
             /\ Sealed(flags[s]) => Sealed(flags'[s])
  <2>1. /\ Calm(flags[s], flags'[s]) /\ SameKind(flags[s], flags'[s])
        /\ model' = model /\ channel'[s] = channel[s]
    BY DEF CalmStep, Calm
  <2>2. Sealed(flags[s]) => Sealed(flags'[s])
    BY <2>1, SealedUpdates
  <2>3. LinkOf(s)' = LinkOf(s) /\ (IsSecure(s)' <=> IsSecure(s))
    BY <2>1, KindLinks
  <2> QED
    BY <2>1, <2>2, <2>3 DEF SameKind
<1>2. model' = model
  BY DEF CalmStep
<1> QED
  BY <1>1, <1>2 DEF SealStep

\* So are those that connect a socket or end its connection.
LEMMA SpecialSeal ==
  ASSUME Typed, FlagInv, FrameInv,
         ConnectReturns \/ OnOpened \/ OnDisconnected \/ OnCloseOk
  PROVE  SealStep
<1>1. KindStep
  BY KindSpecial
<1>2. \/ flags' = flags
      \/ \E s \in Socket :
           \/ flags' = [flags EXCEPT ![s] = Bound(@)]
           \/ flags' = [flags EXCEPT ![s] = Finished(@)]
           \/ flags' = [flags EXCEPT ![s] = Connected(@)]
  <2>1. CASE ConnectReturns
    BY <2>1 DEF ConnectReturns, Awaiting, FrameInv, Typed, TypeOK
  <2>2. CASE OnOpened \/ OnDisconnected \/ OnCloseOk
    <3>1. \/ Found = NULL /\ flags' = flags
          \/ /\ Found # NULL
             /\ \/ flags' = [flags EXCEPT ![Found] = Finished(@)]
                \/ flags' = [flags EXCEPT ![Found] = Connected(@)]
      BY <2>2 DEF OnOpened, OnDisconnected, OnCloseOk, Update
    <3>2. Found # NULL => Found \in Socket
      BY FoundSocket DEF Found
    <3> QED
      BY <3>1, <3>2
  <2> QED
    BY <2>1, <2>2
<1>3. \A s \in Socket : Sealed(flags[s]) => Sealed(flags'[s])
  BY <1>2, SealedUpdates DEF Typed, TypeOK
<1>4. ASSUME NEW s \in Socket
      PROVE  /\ IsAllocated(flags[s]) <=> IsAllocated(flags'[s])
             /\ LinkOf(s)' = LinkOf(s) /\ (IsSecure(s)' <=> IsSecure(s))
  <2>1. /\ SameKind(flags[s], flags'[s])
        /\ model' = model /\ channel'[s] = channel[s]
    BY <1>1 DEF KindStep
  <2>2. LinkOf(s)' = LinkOf(s) /\ (IsSecure(s)' <=> IsSecure(s))
    BY <2>1, KindLinks
  <2> QED
    BY <2>1, <2>2 DEF SameKind
<1>5. model' = model
  BY <1>1 DEF KindStep
<1> QED
  BY <1>3, <1>4, <1>5 DEF SealStep

\* Sockets that are spoken of keep their pool.
LEMMA HeardStill ==
  ASSUME Inv, Heard, SealStep, rx' = rx \/ (rx # <<>> /\ rx' = Tail(rx))
  PROVE  Heard'
<1>1. rx \in Seq(LineType) /\ "Opened" \in Events
  BY DEF Inv, Typed, Events
<1>2. \A i \in DOMAIN rx' : \E j \in DOMAIN rx : rx'[i] = rx[j]
  BY <1>1, LineRead
<1>3. ASSUME NEW i \in DOMAIN rx', rx'[i].text = "Opened"
      PROVE  PoolOf(rx[i].of)' # "CIP"
  <2>1. PICK j \in DOMAIN rx : rx'[i] = rx[j]
    BY <1>2, <1>3
  <2>2. PICK o \in Socket : o = rx[j].of /\ IsAllocated(flags[o])
    BY <1>1, <1>3, <2>1 DEF Inv, UseInv, Said, Good
  <2>3. PoolOf(o)' = PoolOf(o) /\ PoolOf(o) # "CIP"
    BY <1>3, <2>1, <2>2 DEF Heard, SealStep, PoolOf
  <2> QED
    BY <2>1, <2>2, <2>3 DEF PoolOf, IsSecure
<1> QED
  BY <1>3 DEF Heard

-----------------------------------------------------------------------------
(* The task's steps *)

\* No connection and no count changes.
Still == link' = link /\ position' = position /\ error' = error

\* A connection that stays stays somebody's or nobody's.
LEMMA VacantStill ==
  ASSUME Vacant, link' = link PROVE Vacant'
<1>1. Link' = Link
  BY DEF Link, Capacity
<1> QED
  BY <1>1 DEF Vacant

\* With the counts, the sockets that have sent stay the same.
LEMMA StillSealed ==
  ASSUME Begun, SealStep, Still
  PROVE  \A s \in Socket :
           /\ position'[s] # 0 => Sealed(flags'[s])
           /\ position'[s] # 0 \/ error'[s] => IsAllocated(flags'[s])
BY DEF Begun, SealStep, Still

\* A call that holds the line without having opened it changes nothing of what
\* is connected.
LEMMA CalmHeld ==
  ASSUME OpenHeld, CalmStep,
         failed /\ phase = "Serve" => failed' /\ phase' = "Serve",
         \/ pc # "ConnectImpl" \/ (pc' = pc /\ cur' = cur)
         \/ failed' /\ phase' = "Serve"
  PROVE  OpenHeld'
BY DEF OpenHeld, Kept, CalmStep, Calm

\* A command is given when the one before has its result.
LEMMA StreamExecute ==
  ASSUME Inv, StreamInv, CalmStep, Still, phase' = phase,
         NEW s \in Socket, IsAllocated(flags[s]), result # "Pending",
         pc # "ConnectImpl",
         NEW name \in Name, name # "None", NEW len,
         Execute(s, name, len, Mask(name), Step(name)),
         name \in {"Send", "CIPACK"} => IsSecure(s) /\ Sealed(flags[s]),
         name = "Send" /\ ~failed => Ahead(s, 0) /\ len = outgoing'[s],
         name \in {"Open", "CIPSSL"} => position[s] = 0
  PROVE  StreamInv'
<1>1. /\ pc' = Step(name) /\ cur' = s /\ failed' = failed /\ rx' = rx
      /\ result' = IF failed THEN "Failure" ELSE "Pending"
      /\ need' = IF failed THEN {} ELSE Mask(name)
      /\ command' = IF failed THEN NoCommand
                    ELSE [name |-> name, link |-> LinkOf(s), len |-> len,
                          of |-> s]
      /\ link' = link /\ position' = position /\ error' = error
  BY DEF Execute, Still
<1>2. SealStep
  BY CalmSeal
<1>3. Vacant'
  BY <1>1, VacantStill DEF StreamInv
<1>4. \A o, n : Ahead(o, n)' <=> Ahead(o, n)
  BY <1>1, AheadStill
<1>5. /\ IsAllocated(flags'[s]) /\ LinkOf(s)' = LinkOf(s)
      /\ IsSecure(s)' <=> IsSecure(s)
      /\ Sealed(flags[s]) => Sealed(flags'[s])
  BY <1>2 DEF SealStep
<1>6. ~failed => Unanswered(rx)
  BY Settled DEF Inv
<1>7. Given'
  <2>1. CASE failed
    BY <1>1, <2>1 DEF Given, NoCommand
  <2>2. CASE ~failed
    <3>1. /\ command'.name = name /\ command'.of = s
          /\ command'.link = LinkOf(s) /\ command'.len = len
      BY <1>1, <2>2
    <3>2. ASSUME name \in {"Send", "CIPACK"}
          PROVE  /\ IsSecure(s)' /\ LinkOf(s)' = command'.link
                 /\ pc' = Step(name) /\ cur' = s
                 /\ name = "Send" => Ahead(s, 0)' /\ len = outgoing'[s]
      BY <1>1, <1>4, <1>5, <2>2, <3>1, <3>2
    <3>3. Ahead(command.of, 0)' <=> Ahead(s, 0)'
      BY <3>1, AheadNow
    <3>4. LinkOf(command.of)' = LinkOf(s)' /\ (IsSecure(command.of)' <=> IsSecure(s)')
      BY <3>1 DEF LinkOf, PoolOf, IsSecure
    <3>5. Step(command.name)' = Step(name)
      BY <3>1 DEF Step
    <3> QED
      BY <1>5, <3>1, <3>2, <3>3, <3>4, <3>5 DEF Given
  <2> QED
    BY <2>1, <2>2
<1>8. Told'
  BY <1>1, <1>6, ResponsesAnswer, NothingTold DEF Told, Unanswered, Tells, SendResponse
<1>9. Counted'
  BY <1>1, <1>4, CountedIdle DEF StreamInv, Counted, Sends, CalmStep
<1>10. Acked'
  <2>1. ASSUME Acknowledged' PROVE FALSE
    <3>1. ~failed /\ 2 \notin Mask(name) /\ Step(name) = "SendAck"
      BY <1>1, <2>1 DEF Acknowledged
    <3> QED
      BY <3>1 DEF Step, Mask
  <2> QED
    BY <2>1 DEF Acked
<1>11. OpenHeld'
  BY <1>1, CalmHeld DEF StreamInv
<1>12. Begun'
  <2>1. \A o \in Socket :
          /\ position'[o] # 0 => Sealed(flags'[o])
          /\ position'[o] # 0 \/ error'[o] => IsAllocated(flags'[o])
    BY <1>2, StillSealed DEF StreamInv
  <2>2. pc' \in {"SendAck", "SendPacketImpl"} => name \in {"Send", "CIPACK"}
    BY <1>1 DEF Step
  <2>3. pc' = "ConnectSecurity" => name = "CIPSSL"
    BY <1>1 DEF Step
  <2>4. command'.name = "Open" => name = "Open" /\ command'.of = s
    BY <1>1 DEF NoCommand
  <2>5. IsSecure(cur)' <=> IsSecure(s)'
    BY <1>1 DEF IsSecure
  <2> QED
    BY <1>1, <1>5, <2>1, <2>2, <2>3, <2>4, <2>5 DEF Begun
<1>13. Heard'
  BY <1>1, <1>2, HeardStill DEF StreamInv
<1> QED
  BY <1>3, <1>7, <1>8, <1>9, <1>10, <1>11, <1>12, <1>13 DEF StreamInv

\* The calls of a socket.
LEMMA StreamCalls ==
  ASSUME Inv, Inv', StreamInv, NEW s \in Socket,
         \/ CloseImpl(s) \/ ConnectImpl(s) \/ ReceivePacketImpl(s)
         \/ CheckIncomingImpl(s)
  PROVE  StreamInv'
<1>1. /\ pc = "Idle" /\ IsAllocated(flags[s]) /\ phase' = phase
  BY CalledSocket DEF Inv
<1>2. result # "Pending"
  BY <1>1 DEF Inv, FrameInv
<1>3. CalmStep
  BY CalmTask DEF Inv
<1>4. Name = {"None", "CIPSSL", "Open", "Send", "CIPACK", "Receive", "Check",
              "Close"}
  BY DEF Name
<1>5. CASE CloseImpl(s)
  <2>1. Execute(s, "Close", 0, Mask("Close"), Step("Close"))
    BY <1>5 DEF CloseImpl, Mask, Step
  <2>2. Still
    BY <1>5, <2>1 DEF CloseImpl, Execute, sendVars, Still
  <2> QED
    BY <1>1, <1>2, <1>3, <1>4, <2>1, <2>2, StreamExecute
<1>6. CASE ConnectImpl(s)
  <2>1. \/ Execute(s, "CIPSSL", 0, Mask("CIPSSL"), Step("CIPSSL"))
        \/ Execute(s, "Open", 0, Mask("Open"), Step("Open"))
    BY <1>6 DEF ConnectImpl, Mask, Step
  <2>2. Still
    BY <1>6, <2>1 DEF ConnectImpl, Execute, sendVars, Still
  <2>3. position[s] = 0
    BY <1>6, SealedUpdates DEF ConnectImpl, StreamInv, Begun
  <2> QED
    BY <1>1, <1>2, <1>3, <1>4, <2>1, <2>2, <2>3, StreamExecute
<1>7. CASE ReceivePacketImpl(s) \/ CheckIncomingImpl(s)
  <2>1. \/ Execute(s, "Receive", MaxPacket, Mask("Receive"), Step("Receive"))
        \/ Execute(s, "Check", MaxPacket, Mask("Check"), Step("Check"))
    BY <1>7
    DEF ReceivePacketImpl, CheckIncomingImpl, RequestIncoming, Mask, Step
  <2>2. Still
    BY <1>7, <2>1
    DEF ReceivePacketImpl, CheckIncomingImpl, RequestIncoming, Execute,
        sendVars, Still
  <2> QED
    BY <1>1, <1>2, <1>3, <1>4, <2>1, <2>2, StreamExecute
<1> QED
  BY <1>5, <1>6, <1>7

\* Steps that leave the counts, the modem and the lines alone.
LEMMA StreamQuiet ==
  ASSUME Inv, Inv', StreamInv, SealStep, OpenHeld', Still,
         rx' = rx, command' = command,
         failed => failed' /\ (phase = "Serve" => phase' = "Serve"),
         ~failed' => result' = result /\ need' = need,
         \/ /\ pc' = pc /\ cur' = cur
            /\ pc # "Idle" => outgoing'[cur] = outgoing[cur] /\ phase' = phase
         \/ Return /\ phase' = phase /\ result # "Pending"
  PROVE  StreamInv'
<1>1. Link' = Link
  BY DEF Link, Capacity
<1>2. Vacant'
  BY VacantStill DEF StreamInv, Still
<1>3. \A o, n : Ahead(o, n)' <=> Ahead(o, n)
  BY AheadStill DEF Still
<1>4. ASSUME result # "Pending", ~failed
      PROVE  command.name = "None" /\ Unanswered(rx)
  BY <1>4, Settled DEF Inv
<1>5. Given'
  <2>1. ASSUME command.name \in {"Send", "CIPACK"}
        PROVE  /\ command.of \in Socket
               /\ IsAllocated(flags'[command.of])
               /\ IsSecure(command.of)' /\ LinkOf(command.of)' = command.link
               /\ \/ pc' = Step(command.name) /\ cur' = command.of
                  \/ failed' /\ phase' = "Serve"
               /\ command.name = "Send" =>
                    /\ Ahead(command.of, 0)
                    /\ ~failed' => command.len = outgoing'[command.of]
    <3>1. PICK o \in Socket : o = command.of
      BY <2>1 DEF StreamInv, Given
    <3>2. /\ IsAllocated(flags'[o]) /\ IsSecure(o)' /\ LinkOf(o)' = command.link
      BY <2>1, <3>1 DEF StreamInv, Given, SealStep
    <3>3. IsSecure(command.of)' /\ LinkOf(command.of)' = command.link
      BY <3>1, <3>2 DEF IsSecure, LinkOf, PoolOf
    <3>4. Step(command.name) \in {"SendPacketImpl", "SendAck"}
      BY <2>1 DEF Step
    <3>5. \/ pc' = Step(command.name) /\ cur' = command.of
          \/ failed' /\ phase' = "Serve"
      BY <1>4, <2>1, <3>4 DEF StreamInv, Given, Inv, FrameInv
    <3>6. command.name = "Send" =>
            /\ Ahead(command.of, 0)
            /\ ~failed' => command.len = outgoing'[command.of]
      BY <1>4, <2>1, <3>4 DEF StreamInv, Given
    <3> QED
      BY <3>1, <3>2, <3>3, <3>5, <3>6
  <2>2. \A n : Ahead(command.of, n)' <=> Ahead(command.of, n)
    BY <1>3, AheadNow
  <2> QED
    BY <2>1, <2>2 DEF Given, LinkOf, PoolOf, IsSecure, Step
<1>6. Told'
  <2>1. CASE result # "Pending" \/ failed'
    <3>1. ~failed' => \A i \in DOMAIN rx :
            rx[i].text \notin SendResponse \cup {"+CIPACK"}
      BY <1>4, <2>1, ResponsesAnswer DEF Unanswered
    <3> QED
      BY <3>1, NoneTold
  <2>2. CASE result = "Pending" /\ ~failed'
    <3>1. pc # "Idle"
      BY <2>2 DEF Inv, FrameInv
    <3>2. /\ pc' = pc /\ cur' = cur /\ outgoing'[cur'] = outgoing[cur]
          /\ model' = model /\ ~failed /\ link' = link
      BY <2>2, <3>1 DEF SealStep, Still
    <3>3. \A n : Ahead(cur, n)' <=> Ahead(cur, n)
      BY <1>3, <3>2, AheadNow
    <3>4. ASSUME NEW e, Tells(e) PROVE Tells(e)'
      BY <1>1, <3>2, <3>3, <3>4 DEF Tells, SendResponse
    <3> QED
      BY <3>2, <3>4 DEF StreamInv, Told
  <2> QED
    BY <2>1, <2>2
<1>7. Counted'
  <2>1. ~failed' /\ Sends => result = "Pending" /\ Sends'
    BY DEF Sends, Return
  <2>2. Responded' <=> Responded
    BY DEF Responded
  <2>3. \A s \in Socket : Sends /\ s = cur => result # "Pending" \/ s = cur'
    BY DEF Sends
  <2>4. error' = error /\ model' = model
    BY DEF Still, SealStep
  <2> QED
    BY <1>3, <2>1, <2>2, <2>3, <2>4 DEF StreamInv, Counted, Sends
<1>8. Acked'
  <2>1. ASSUME Acknowledged' PROVE Ahead(cur, 0)'
    <3>1. result' \in {"OK", "Pending"} /\ pc' = "SendAck"
      BY <2>1 DEF Acknowledged
    <3>2. ~failed'
      BY <3>1 DEF Inv, FrameInv
    <3>3. pc' = pc /\ cur' = cur /\ result' = result /\ need' = need
      BY <3>1, <3>2 DEF Return
    <3>4. Acknowledged
      BY <2>1, <3>3 DEF Acknowledged
    <3> QED
      BY <1>3, <3>3, <3>4, AheadNow DEF StreamInv, Acked
  <2> QED
    BY <2>1 DEF Acked
<1>9. Begun'
  <2>1. \A s \in Socket :
          /\ position'[s] # 0 => Sealed(flags'[s])
          /\ position'[s] # 0 \/ error'[s] => IsAllocated(flags'[s])
    BY StillSealed DEF StreamInv
  <2>2. pc' = "Idle" \/ (pc' = pc /\ cur' = cur)
    BY DEF Return
  <2>3. pc # "Idle" => cur \in Socket /\ IsAllocated(flags[cur])
    BY DEF Inv, FrameInv, Typed, TypeOK
  <2>4. ASSUME pc' \in {"SendAck", "SendPacketImpl"}
        PROVE  Sealed(flags'[cur']) /\ IsSecure(cur)'
    <3>1. PICK o \in Socket : o = cur /\ o = cur'
      BY <2>2, <2>3, <2>4
    <3>2. IsAllocated(flags[o]) /\ Sealed(flags[o]) /\ IsSecure(o)
      BY <2>2, <2>3, <2>4, <3>1 DEF StreamInv, Begun
    <3>3. Sealed(flags'[o]) /\ IsSecure(o)'
      BY <3>2 DEF SealStep
    <3> QED
      BY <3>1, <3>3 DEF IsSecure
  <2>5. position' = position /\ (failed => failed')
    BY DEF Still
  <2> QED
    BY <2>1, <2>2, <2>4, <2>5 DEF StreamInv, Begun
<1>10. Heard'
  BY HeardStill DEF StreamInv
<1> QED
  BY <1>2, <1>5, <1>6, <1>7, <1>8, <1>9, <1>10 DEF StreamInv

\* The application's steps.
LEMMA StreamApp ==
  ASSUME Inv, Inv', StreamInv, App PROVE StreamInv'
<1>1. ASSUME NEW s \in Socket, ReleaseSocket(s) \/ Disconnect(s) \/ WriteOutput(s)
      PROVE  StreamInv'
  <2>1. CalmStep
    BY <1>1, CalmTask DEF Inv
  <2>2. /\ Still /\ outgoing' = outgoing /\ rx' = rx /\ command' = command
        /\ failed' = failed /\ result' = result /\ need' = need
        /\ pc' = pc /\ cur' = cur /\ phase' = phase
    BY <1>1
    DEF ReleaseSocket, Disconnect, WriteOutput, sendVars, taskVars, atVars,
        deviceVars, Still
  <2>3. OpenHeld'
    BY <2>1, <2>2, CalmHeld DEF StreamInv
  <2> QED
    BY <2>1, <2>2, <2>3, CalmSeal, StreamQuiet
<1>2. ASSUME NEW s \in Socket, NEW tls, CreateSocket(s, tls)
      PROVE  StreamInv'
  <2>1. /\ ~IsAllocated(flags[s]) /\ s \notin listed
        /\ model' = model
        /\ \A o \in Socket \ {s} :
             flags'[o] = flags[o] /\ channel'[o] = channel[o]
    BY <1>2, CreatedFlags DEF Inv
  <2>2. /\ flags' = [flags EXCEPT ![s] = NewSocket(tls)]
        /\ outgoing' = [outgoing EXCEPT ![s] = 0]
        /\ error' = [error EXCEPT ![s] = FALSE]
        /\ position' = [position EXCEPT ![s] = 0]
        /\ link' = link /\ rx' = rx /\ command' = command
        /\ failed' = failed /\ result' = result /\ need' = need
        /\ pc' = pc /\ cur' = cur /\ phase' = phase
    BY <1>2 DEF CreateSocket, taskVars, atVars, deviceVars
  <2>3. /\ flags \in [Socket -> SUBSET SocketFlag]
        /\ outgoing \in [Socket -> Nat] /\ position \in [Socket -> Nat]
        /\ error \in [Socket -> BOOLEAN]
    BY DEF Inv, Typed, TypeOK
  <2>4. position[s] = 0 /\ error[s] = FALSE
    BY <2>1, <2>3 DEF StreamInv, Begun
  <2>5. Still
    BY <2>2, <2>3, <2>4 DEF Still
  <2>6. SealStep
    BY <2>1 DEF SealStep, LinkOf, PoolOf, IsSecure
  <2>7. pc # "Idle" => outgoing'[cur] = outgoing[cur]
    BY <2>1, <2>2, <2>3 DEF Inv, FrameInv
  <2>8. OpenHeld'
    BY <2>1, <2>2, <2>3, OtherUpdates DEF StreamInv, OpenHeld, Kept
  <2> QED
    BY <2>2, <2>5, <2>6, <2>7, <2>8, StreamQuiet
<1> QED
  BY <1>1, <1>2 DEF App

\* The steps of the task that neither call nor destroy.
LEMMA StreamReturns ==
  ASSUME Inv, Inv', StreamInv,
         \/ \E s \in Socket : TryAllocateImpl(s)
         \/ SecurityReturns /\ result # "OK"
         \/ AckReturns /\ ~(result = "OK" /\ Available(cur) > 0)
         \/ ConnectReturns \/ SendReturns \/ CallReturns
         \/ CommandTimesOut \/ NextPass
  PROVE  StreamInv'
<1>1. CASE \E s \in Socket : TryAllocateImpl(s)
  <2>1. PICK s \in Socket : TryAllocateImpl(s)
    BY <1>1
  <2>2. /\ ~IsAllocated(flags[s]) /\ model' = model
        /\ \A o \in Socket \ {s} :
             flags'[o] = flags[o] /\ channel'[o] = channel[o]
    BY <2>1, AllocatedFlags DEF Inv
  <2>3. /\ Still /\ outgoing' = outgoing /\ rx' = rx /\ command' = command
        /\ failed' = failed /\ result' = result /\ need' = need
        /\ pc' = pc /\ cur' = cur /\ phase' = phase
        /\ flags' = [flags EXCEPT ![s] = Allocate(@)]
    BY <2>1
    DEF TryAllocateImpl, sendVars, taskVars, atVars, deviceVars, Still
  <2>4. SealStep
    BY <2>2 DEF SealStep, LinkOf, PoolOf, IsSecure
  <2>5. OpenHeld'
    BY <2>2, <2>3, OtherUpdates DEF StreamInv, OpenHeld, Kept, Inv, Typed, TypeOK
  <2> QED
    BY <2>3, <2>4, <2>5, StreamQuiet
<1>2. ASSUME Return, phase' = phase, result # "Pending", CalmStep, Still,
             rx' = rx, command' = command, failed' = failed,
             result' = result, need' = need, pc # "ConnectImpl"
      PROVE  StreamInv'
  <2>1. OpenHeld'
    BY <1>2, CalmHeld DEF StreamInv
  <2> QED
    BY <1>2, <2>1, CalmSeal, StreamQuiet
<1>3. CASE SecurityReturns /\ result # "OK"
  BY <1>2, <1>3, CalmTask
  DEF SecurityReturns, Awaiting, atVars, deviceVars, socketVars, sendVars,
      Still, Inv
<1>4. CASE AckReturns /\ ~(result = "OK" /\ Available(cur) > 0)
  BY <1>2, <1>4, CalmTask
  DEF AckReturns, Awaiting, atVars, deviceVars, Still, Inv
<1>5. CASE SendReturns
  BY <1>2, <1>5, CalmTask
  DEF SendReturns, Awaiting, atVars, deviceVars, Still, Inv
<1>6. CASE CallReturns
  BY <1>2, <1>6, CalmTask
  DEF CallReturns, Awaiting, atVars, deviceVars, socketVars, sendVars, Still,
      Inv
<1>7. CASE ConnectReturns
  <2>1. SealStep
    BY <1>7, SpecialSeal DEF Inv
  <2>2. /\ Return /\ phase' = phase /\ result # "Pending" /\ Still
        /\ rx' = rx /\ command' = command /\ failed' = failed
        /\ result' = result /\ need' = need
        /\ flags' = [flags EXCEPT ![cur] = IF result = "OK" THEN Bound(@)
                                           ELSE Finished(@)]
    BY <1>7
    DEF ConnectReturns, Awaiting, sendVars, atVars, deviceVars, Still
  <2>3. /\ flags \in [Socket -> SUBSET SocketFlag] /\ cur \in Socket
    BY <1>7 DEF ConnectReturns, Awaiting, Inv, FrameInv, Typed, TypeOK
  <2>4. OpenHeld'
    BY <2>2, <2>3, OtherUpdates DEF StreamInv, OpenHeld, Kept
  <2> QED
    BY <2>1, <2>2, <2>4, StreamQuiet
<1>8. CASE CommandTimesOut \/ NextPass
  <2>1. CalmStep
    BY <1>8, CalmTask DEF Inv
  <2>2. /\ Still /\ outgoing' = outgoing /\ rx' = rx /\ command' = command
        /\ pc' = pc /\ cur' = cur
        /\ \/ failed' /\ phase' = phase
           \/ /\ failed' = failed /\ result' = result /\ need' = need
              /\ pc = "Idle" /\ result = "OK"
    BY <1>8
    DEF CommandTimesOut, NextPass, Ready, socketVars, sendVars, taskVars,
        atVars, deviceVars, Still
  <2>3. failed => failed' /\ phase' = phase
    BY <2>2 DEF Inv, FrameInv
  <2>4. pc # "Idle" => phase' = phase
    BY <2>2
  <2>5. OpenHeld'
    BY <2>1, <2>2, <2>3, CalmHeld DEF StreamInv
  <2> QED
    BY <2>1, <2>2, <2>3, <2>4, <2>5, CalmSeal, StreamQuiet
<1> QED
  BY <1>1, <1>3, <1>4, <1>5, <1>6, <1>7, <1>8

\* A packet is given to the modem when the counts agree.
LEMMA StreamSend ==
  ASSUME Inv, StreamInv, CalmStep, Still, phase' = phase, ~failed,
         NEW s \in Socket, IsAllocated(flags[s]), result # "Pending",
         pc # "ConnectImpl", Send(s),
         IsSecure(s), Sealed(flags[s]), Ahead(s, 0)
  PROVE  StreamInv'
<1>1. Execute(s, "Send", PacketLength(s), Mask("Send"), Step("Send"))
  BY DEF Send, Mask, Step
<1>2. outgoing'[s] = PacketLength(s)
  BY DEF Send, Inv, Typed, TypeOK
<1> QED
  BY <1>1, <1>2, StreamExecute DEF Name

\* The sends, and the connection that follows the question for its kind.
LEMMA StreamSends ==
  ASSUME Inv, Inv', StreamInv,
         \/ \E s \in Socket : SendPacketImpl(s)
         \/ SecurityReturns /\ result = "OK"
         \/ AckReturns /\ result = "OK" /\ Available(cur) > 0
  PROVE  StreamInv'
<1>1. ASSUME NEW s \in Socket, SendPacketImpl(s) PROVE StreamInv'
  <2>1. /\ pc = "Idle" /\ IsAllocated(flags[s]) /\ phase' = phase
        /\ phase = "Serve"
    BY <1>1, CalledSocket DEF Inv, SendPacketImpl, Ready
  <2>2. CalmStep /\ result # "Pending"
    BY <1>1, <2>1, CalmTask DEF Inv, FrameInv
  <2>3. IsConnected(flags[s]) /\ IsSecure(s)
    BY <1>1 DEF SendPacketImpl, DataToSend, Inv, FlagInv
  <2>4. ~failed => Sealed(flags[s])
    BY <2>1, <2>3 DEF StreamInv, OpenHeld, Kept, Sealed
  <2>5. Still
    <3>1. link' = link
      BY <1>1 DEF SendPacketImpl, Send, Execute, deviceVars
    <3> QED
      BY <1>1, <3>1 DEF SendPacketImpl, Still
  <2>6. CASE failed
    <3>1. /\ rx' = rx /\ command' = command /\ failed' = failed
          /\ pc' = pc /\ cur' = cur
      BY <1>1, <2>6 DEF SendPacketImpl, deviceVars
    <3>2. OpenHeld'
      BY <2>1, <2>2, <3>1, CalmHeld DEF StreamInv
    <3> QED
      BY <2>1, <2>2, <2>5, <2>6, <3>1, <3>2, CalmSeal, StreamQuiet
  <2>7. CASE ~failed /\ NeedsAck(s)
    <3>1. Execute(s, "CIPACK", 0, Mask("CIPACK"), Step("CIPACK"))
      BY <1>1, <2>7 DEF SendPacketImpl, Mask, Step
    <3> QED
      BY <2>1, <2>2, <2>3, <2>4, <2>5, <2>7, <3>1, StreamExecute DEF Name
  <2>8. CASE ~failed /\ ~NeedsAck(s)
    <3>1. Send(s)
      BY <1>1, <2>8 DEF SendPacketImpl
    <3>2. model \in Model
      BY DEF Inv, Typed, TypeOK
    <3>3. ~error[s]
      BY <2>8, <3>2 DEF NeedsAck, Model, StreamInv, Counted
    <3>4. Ahead(s, 0)
      BY <2>1, <2>8, <3>3, CountedIdle DEF StreamInv, Sends
    <3> QED
      BY <2>1, <2>2, <2>3, <2>4, <2>5, <2>8, <3>1, <3>4, StreamSend
  <2> QED
    BY <2>6, <2>7, <2>8
<1>2. CASE SecurityReturns /\ result = "OK"
  <2>1. Execute(cur, "Open", 0, Mask("Open"), Step("Open"))
    BY <1>2 DEF SecurityReturns, Mask, Step
  <2>2. /\ pc = "ConnectSecurity" /\ phase' = phase /\ Still
    BY <1>2, <2>1
    DEF SecurityReturns, Awaiting, socketVars, sendVars, Execute, Still
  <2>3. CalmStep
    BY <1>2, CalmTask DEF Inv
  <2>4. /\ cur \in Socket /\ IsAllocated(flags[cur]) /\ ~failed
        /\ position[cur] = 0
    BY <1>2, <2>2 DEF Inv, FrameInv, Typed, TypeOK, StreamInv, Begun
  <2> QED
    BY <1>2, <2>1, <2>2, <2>3, <2>4, StreamExecute DEF Name
<1>3. CASE AckReturns /\ result = "OK" /\ Available(cur) > 0
  <2>1. Send(cur) /\ pc = "SendAck"
    BY <1>3 DEF AckReturns, Awaiting
  <2>2. phase' = phase /\ Still
    BY <1>3, <2>1 DEF AckReturns, Send, Execute, Still
  <2>3. CalmStep
    BY <1>3, CalmTask DEF Inv
  <2>4. /\ cur \in Socket /\ IsAllocated(flags[cur]) /\ ~failed
        /\ Sealed(flags[cur]) /\ IsSecure(cur) /\ Ahead(cur, 0)
    BY <1>3, <2>1
    DEF Inv, FrameInv, Typed, TypeOK, StreamInv, Begun, Acked, Acknowledged
  <2> QED
    BY <1>3, <2>1, <2>2, <2>3, <2>4, StreamSend
<1> QED
  BY <1>1, <1>2, <1>3

\* Destroyed sockets leave no connection behind.
LEMMA StreamDestroys ==
  ASSUME Inv, Inv', StreamInv, RemoveSockets \/ PowerCycle
  PROVE  StreamInv'
<1>1. /\ pc = "Idle" /\ pc' = "Idle" /\ model' = model
      /\ result # "Pending" /\ phase \in {"Close", "Serve"}
  BY DEF RemoveSockets, PowerCycle, Ready, Inv, FrameInv
<1>2. Link' = Link
  BY DEF Link, Capacity
<1>3. CASE RemoveSockets
  <2> DEFINE kept == {s \in listed : ~CanDelete(flags[s])}
  <2>1. /\ link' = link /\ rx' = rx
        /\ command' = command /\ failed' = failed /\ phase = "Close"
    BY <1>3 DEF RemoveSockets, Ready, atVars, deviceVars
  <2>2. /\ listed' = kept
        /\ \A s \in Socket :
             /\ flags'[s] = IF s \in kept THEN flags[s] ELSE {}
             /\ error'[s] = IF s \in kept THEN error[s] ELSE FALSE
             /\ position'[s] = IF s \in kept THEN position[s] ELSE 0
    BY <1>3 DEF RemoveSockets
  <2> HIDE DEF kept
  <2>3. Vacant'
    BY <2>1, VacantStill DEF StreamInv
  <2>4. command.name \notin {"Send", "CIPACK"}
    BY <1>1, <2>1 DEF StreamInv, Given, Step
  <2>5. Given'
    BY <2>1, <2>4 DEF Given
  <2>6. ~failed => Unanswered(rx)
    BY <1>1, Settled DEF Inv
  <2>7. Told'
    BY <2>1, <2>6, ResponsesAnswer, NoneTold DEF Unanswered
  <2>8. ASSUME NEW s \in Socket, s \notin kept PROVE Ahead(s, 0)'
    <3>1. \A l \in Link : link'[l].of # s
      <4>1. ConnectionOwned'
        BY DEF Inv, UseInv
      <4>2. \A l \in Link : link'[l].at # "idle" => link'[l].of \in kept
        BY <1>2, <2>2, <4>1 DEF ConnectionOwned
      <4> QED
        BY <1>2, <2>3, <2>8, <4>2, SimComAssumption DEF Vacant
    <3> QED
      BY <1>2, <3>1 DEF Ahead
  <2>9. ASSUME ~failed, NEW s \in kept, s \in Socket
        PROVE  error'[s] \/ Ahead(s, 0)'
    <3>1. error[s] \/ Ahead(s, 0)
      BY <1>1, <2>9, CountedIdle DEF StreamInv, Sends
    <3>2. Ahead(s, 0)' <=> Ahead(s, 0)
      BY <2>1, <2>2, <2>9, AheadStill
    <3> QED
      BY <2>2, <2>9, <3>1, <3>2
  <2>10. Counted'
    BY <1>1, <2>1, <2>2, <2>8, <2>9 DEF StreamInv, Counted
  <2>11. Acked'
    BY <1>1 DEF Acked, Acknowledged
  <2>12. OpenHeld'
    BY <1>1, <2>1, <2>2, OtherUpdates DEF StreamInv, OpenHeld, Kept
  <2>13. Begun'
    <3>1. command.name = "Open" => command.of \in Socket
      BY DEF Inv, Asked
    <3> QED
      BY <1>1, <2>1, <2>2, <3>1 DEF StreamInv, Begun
  <2>14. Heard'
    <3>1. ASSUME NEW i \in DOMAIN rx', rx'[i].text = "Opened"
          PROVE  PoolOf(rx[i].of)' # "CIP"
      <4>1. "Opened" \in Events /\ ~IsAllocated({})
        BY OtherUpdates DEF Events
      <4>2. PICK o : o = rx'[i].of
        OBVIOUS
      <4>3. o \in Socket /\ IsAllocated(flags'[o])
        BY <3>1, <4>1, <4>2 DEF Inv, UseInv, Said, Good
      <4>4. flags'[o] = flags[o]
        BY <2>2, <4>1, <4>3
      <4>5. PoolOf(o)' = PoolOf(o)
        BY <1>1, <4>4 DEF PoolOf, IsSecure
      <4>6. PoolOf(o) # "CIP"
        BY <2>1, <3>1, <4>2 DEF StreamInv, Heard
      <4> QED
        BY <4>2, <4>5, <4>6 DEF PoolOf, IsSecure
    <3> QED
      BY <3>1 DEF Heard
  <2> QED
    BY <2>3, <2>5, <2>7, <2>10, <2>11, <2>12, <2>13, <2>14 DEF StreamInv
<1>4. CASE PowerCycle
  <2>1. /\ link' = [l \in Link |-> NoConnection]
        /\ rx' = <<>> /\ command' = NoCommand /\ failed' = FALSE
        /\ error' = error /\ position' = position
    BY <1>4 DEF PowerCycle, sendVars
  <2>2. \A s \in Socket :
          flags'[s] = IF s \in listed THEN Finished(flags[s]) ELSE flags[s]
    BY <1>4 DEF PowerCycle
  <2>3. \A l \in Link : link'[l].of = NULL
    BY <2>1 DEF NoConnection
  <2>4. Vacant'
    BY <1>2, <2>3 DEF Vacant
  <2>5. \A s \in Socket : Ahead(s, 0)'
    BY <1>2, <2>3, SimComAssumption DEF Ahead
  <2>6. Given'
    BY <2>1 DEF Given, NoCommand
  <2>7. Told'
    BY <2>1, NoneTold
  <2>8. Counted'
    BY <1>1, <2>1, <2>5 DEF StreamInv, Counted
  <2>9. Acked'
    BY <1>1 DEF Acked, Acknowledged
  <2>10. OpenHeld'
    BY <2>2, OtherUpdates DEF OpenHeld, Inv, FlagInv
  <2>11. Begun'
    <3>1. \A s \in Socket : /\ Sealed(Finished(flags[s]))
                            /\ IsAllocated(flags[s]) =>
                                 IsAllocated(Finished(flags[s]))
      BY SealedUpdates, OtherUpdates DEF SameKind
    <3> QED
      BY <1>1, <2>1, <2>2, <3>1 DEF StreamInv, Begun, NoCommand
  <2>12. Heard'
    BY <2>1 DEF Heard
  <2> QED
    BY <2>4, <2>6, <2>7, <2>8, <2>9, <2>10, <2>11, <2>12 DEF StreamInv
<1> QED
  BY <1>3, <1>4

-----------------------------------------------------------------------------
(* The receiving task's steps *)

\* Lines that are not about what has been sent.
LEMMA StreamLine ==
  ASSUME Inv, Inv', StreamInv, RxTask, SealStep, OpenHeld', Still,
         outgoing' = outgoing,
         failed \/ Head(rx).text \notin SendResponse \cup {"+CIPACK"},
         \/ need' = need /\ result' = result
         \/ ATComplete(1) /\ Head(rx).text \in Answers \ {"ERROR"}
            /\ Bit(Head(rx).text) = 1
         \/ /\ Head(rx).text = "ERROR" /\ need' = {}
            /\ result' = IF result = "Pending" THEN "Error" ELSE result
  PROVE  StreamInv'
<1>1. /\ model' = model /\ command' = command /\ link' = link
      /\ pc' = pc /\ cur' = cur /\ phase' = phase /\ failed' = failed
      /\ rx # <<>> /\ rx' = Tail(rx)
  BY ReadStep
<1>2. Link' = Link
  BY DEF Link, Capacity
<1>3. \A o, n : Ahead(o, n)' <=> Ahead(o, n)
  BY AheadStill DEF Still
<1>4. /\ rx \in Seq(LineType) /\ Head(rx) = rx[1] /\ 1 \in DOMAIN rx
      /\ \A i \in DOMAIN rx' : rx'[i] = rx[i + 1] /\ i + 1 \in DOMAIN rx
      /\ \A i \in DOMAIN rx : i # 1 => i - 1 \in DOMAIN rx'
                                       /\ rx'[i - 1] = rx[i]
  BY <1>1 DEF Inv, Typed
<1>5. Vacant'
  BY VacantStill DEF StreamInv, Still
<1>6. Given'
  <2>1. CASE command.name \in {"Send", "CIPACK"}
    <3>1. PICK o \in Socket : o = command.of
      BY <2>1 DEF StreamInv, Given
    <3>2. /\ IsAllocated(flags'[o]) /\ IsSecure(o)' /\ LinkOf(o)' = command.link
      BY <2>1, <3>1 DEF StreamInv, Given, SealStep
    <3>3. IsSecure(command.of)' /\ LinkOf(command.of)' = command.link
      BY <1>1, <3>1, <3>2 DEF IsSecure, LinkOf, PoolOf
    <3>4. \A n : Ahead(command.of, n)' <=> Ahead(command.of, n)
      BY <1>1, <1>3, AheadNow
    <3> QED
      BY <1>1, <3>1, <3>2, <3>3, <3>4 DEF StreamInv, Given, Step
  <2>2. CASE command.name \notin {"Send", "CIPACK"}
    BY <1>1, <2>2 DEF Given
  <2> QED
    BY <2>1, <2>2
<1>7. Told'
  <2>1. \A n : Ahead(cur, n)' <=> Ahead(cur, n)
    BY <1>1, <1>3, AheadNow
  <2>2. ASSUME NEW e, Tells(e) PROVE Tells(e)'
    BY <1>1, <1>2, <2>1, <2>2 DEF Tells, SendResponse
  <2>3. \A i \in DOMAIN rx' : \E e : e = rx'[i] /\ (~failed => Tells(e))
    BY <1>4 DEF StreamInv, Told
  <2> QED
    BY <1>1, <2>2, <2>3 DEF Told
\* A response that waits is still awaited.
<1>8. ASSUME ~failed, Sends, Responded PROVE Sends' /\ Responded'
  <2>1. PICK i \in DOMAIN rx : rx[i].text \in SendResponse
    BY <1>8 DEF Responded
  <2>2. i # 1
    BY <1>4, <1>8, <2>1
  <2>3. Responded'
    BY <1>4, <2>1, <2>2 DEF Responded
  <2>4. ~Unanswered(Tail(rx))
    BY <1>1, <1>4, <2>1, <2>2, ResponsesAnswer DEF Unanswered
  <2>5. Fits(rx, need)
    BY <1>8 DEF Inv, Talk
  <2>6. /\ Head(rx).text \in Answers =>
             /\ Fits(Tail(rx), need \ {Bit(Head(rx).text)})
             /\ Fits(Tail(rx), {}) => Unanswered(Tail(rx))
             /\ Head(rx).text = "ERROR" => Unanswered(Tail(rx))
    BY <1>1, <1>4, <2>5, FitsAfter
  <2>7. "ERROR" \in Answers
    BY DEF Answers
  <2>8. result' = "Pending"
    BY <1>8, <2>4, <2>6, <2>7 DEF ATComplete, Sends
  <2> QED
    BY <1>1, <1>8, <2>3, <2>8 DEF Sends
<1>9. Counted'
  <2>1. ~failed => \A s \in Socket :
          error[s] \/ Ahead(s, 0) \/ (s = cur /\ Sends' /\ Responded')
    BY <1>8 DEF StreamInv, Counted
  <2> QED
    BY <1>1, <1>3, <2>1 DEF StreamInv, Counted, Still
<1>10. Acked'
  <2>1. ASSUME Acknowledged' PROVE Ahead(cur, 0)'
    <3>1. Acknowledged
      <4>1. /\ pc = "SendAck"
            /\ result' = "OK" \/ (result' = "Pending" /\ 2 \notin need')
        BY <1>1, <2>1 DEF Acknowledged
      <4>2. ASSUME ATComplete(1) PROVE Acknowledged
        BY <4>1, <4>2 DEF ATComplete, Acknowledged
      <4> QED
        BY <4>1, <4>2 DEF Acknowledged
    <3> QED
      BY <1>1, <1>3, <3>1, AheadNow DEF StreamInv, Acked
  <2> QED
    BY <2>1 DEF Acked
<1>11. Begun'
  <2>1. \A s \in Socket :
          /\ position'[s] # 0 => Sealed(flags'[s])
          /\ position'[s] # 0 \/ error'[s] => IsAllocated(flags'[s])
    BY StillSealed DEF StreamInv
  <2>2. ASSUME pc \in {"SendAck", "SendPacketImpl"}
        PROVE  Sealed(flags'[cur]) /\ IsSecure(cur)'
    <3>1. PICK o \in Socket : o = cur /\ IsAllocated(flags[o])
      BY <2>2 DEF Inv, FrameInv, Typed, TypeOK
    <3>2. Sealed(flags[o]) /\ IsSecure(o)
      BY <2>2, <3>1 DEF StreamInv, Begun
    <3>3. Sealed(flags'[o]) /\ IsSecure(o)'
      BY <3>1, <3>2 DEF SealStep
    <3> QED
      BY <1>1, <3>1, <3>3 DEF IsSecure
  <2> QED
    BY <1>1, <2>1, <2>2 DEF StreamInv, Begun, Still, IsSecure
<1>12. Heard'
  BY <1>1, HeardStill DEF StreamInv
<1> QED
  BY <1>5, <1>6, <1>7, <1>9, <1>10, <1>11, <1>12 DEF StreamInv

\* Where the answer to a send has been read, the counts are those of the socket
\* that sends.
LEMMA StreamAnswered ==
  ASSUME Inv, Inv', StreamInv, RxTask, CalmStep,
         ~failed, result = "Pending", pc \in {"SendAck", "SendPacketImpl"},
         Head(rx).text \in SendResponse \cup {"+CIPACK"},
         \A s \in Socket \ {cur} :
           position'[s] = position[s] /\ error'[s] = error[s],
         error'[cur] \/ Ahead(cur, 0)', error'[cur] => model = "SIM800",
         pc = "SendAck" => Ahead(cur, 0)'
  PROVE  StreamInv'
<1>1. /\ model' = model /\ command' = command /\ link' = link
      /\ pc' = pc /\ cur' = cur /\ phase' = phase /\ failed' = failed
      /\ rx # <<>> /\ rx' = Tail(rx)
  BY ReadStep
<1>2. /\ cur \in Socket /\ IsAllocated(flags[cur])
      /\ Sealed(flags[cur]) /\ IsSecure(cur)
  BY DEF Inv, FrameInv, Typed, TypeOK, StreamInv, Begun
<1>3. Head(rx).text \in Answers \ {"ERROR"} /\ Bit(Head(rx).text) = 2
  BY ResponsesAnswer
<1>4. /\ rx \in Seq(LineType) /\ Head(rx) = rx[1] /\ 1 \in DOMAIN rx
      /\ \A i \in DOMAIN rx' : rx'[i] = rx[i + 1] /\ i + 1 \in DOMAIN rx
                               /\ i + 1 # 1
  BY <1>1 DEF Inv, Typed
<1>5. command = NoCommand
  BY <1>3, <1>4 DEF Inv, Talk, Typed, Unanswered
<1>6. SealStep
  BY CalmSeal
<1>7. Vacant'
  BY <1>1, VacantStill DEF StreamInv
<1>8. Given'
  BY <1>1, <1>5 DEF Given, NoCommand
<1>9. Told'
  <2>1. Fits(rx, need)
    BY DEF Inv, Talk
  <2>2. \A i \in DOMAIN rx' :
          rx'[i].text \notin SendResponse \cup {"+CIPACK"}
    BY <1>3, <1>4, <2>1, ResponsesAnswer DEF Fits
  <2> QED
    BY <2>2, NoneTold
<1>10. Counted'
  <2>1. ASSUME NEW s \in Socket, s # cur PROVE error'[s] \/ Ahead(s, 0)'
    <3>1. error[s] \/ Ahead(s, 0)
      BY <2>1 DEF StreamInv, Counted
    <3>2. Ahead(s, 0)' <=> Ahead(s, 0)
      BY <1>1, <2>1, AheadStill
    <3> QED
      BY <2>1, <3>1, <3>2
  <2>2. Ahead(cur, 0)' => \A s \in Socket : s = cur => Ahead(s, 0)'
    BY <1>1, AheadNow
  <2>3. \A s \in Socket : error'[s] \/ Ahead(s, 0)'
    BY <2>1, <2>2
  <2>4. model = "SIM7600" => \A s \in Socket : ~error'[s]
    BY DEF StreamInv, Counted
  <2> QED
    BY <1>1, <2>3, <2>4 DEF Counted
<1>11. Acked'
  BY <1>1 DEF Acked, Acknowledged
<1>12. OpenHeld'
  BY <1>1, CalmHeld DEF StreamInv
<1>13. Begun'
  <2>1. \A s \in Socket : IsAllocated(flags[s]) =>
          /\ IsAllocated(flags'[s])
          /\ Sealed(flags[s]) => Sealed(flags'[s])
          /\ IsSecure(s)' <=> IsSecure(s)
    BY <1>6 DEF SealStep
  <2>2. \A s \in Socket :
          /\ position'[s] # 0 => Sealed(flags'[s])
          /\ position'[s] # 0 \/ error'[s] => IsAllocated(flags'[s])
    BY <1>2, <2>1 DEF StreamInv, Begun
  <2>3. Sealed(flags'[cur]) /\ (\A s \in Socket : s = cur => IsSecure(s)')
    BY <1>2, <2>1
  <2>4. IsSecure(cur)'
    BY <1>1, <1>2, <2>3 DEF IsSecure
  <2> QED
    BY <1>1, <1>5, <2>2, <2>3, <2>4 DEF Begun, NoCommand
<1>14. Heard'
  BY <1>1, <1>6, HeardStill DEF StreamInv
<1> QED
  BY <1>7, <1>8, <1>9, <1>10, <1>11, <1>12, <1>13, <1>14 DEF StreamInv

\* The answer to a send brings the reader forward by what has been taken of the
\* packet under way.
LEMMA SendRead ==
  ASSUME Inv, StreamInv, OnSendResponse, Sends
  PROVE  /\ cur \in Socket /\ ~failed
         /\ \E n \in {0, outgoing[cur]}, failing \in BOOLEAN :
              /\ Sent(cur, n, failing)
              /\ failing => n = 0 /\ model = "SIM800"
              /\ ~failing => Ahead(cur, n)
<1> DEFINE e == Head(rx)
<1>1. rx # <<>> /\ e.text \in SendResponse
  BY DEF OnSendResponse, Reads, SendResponse
<1>2. /\ rx \in Seq(LineType) /\ Head(rx) = rx[1] /\ 1 \in DOMAIN rx
  BY <1>1 DEF Inv, Typed
<1>3. /\ pc = "SendPacketImpl" /\ result = "Pending" /\ ~failed
  BY DEF Sends, Inv, FrameInv
<1>4. Tells(e)
  BY <1>2, <1>3 DEF StreamInv, Told
<1>5. e.of = cur
  BY <1>1, <1>4 DEF Tells
<1>6. /\ cur \in Socket /\ IsAllocated(flags[cur]) /\ IsSecure(cur)
  BY <1>3 DEF Inv, FrameInv, Typed, TypeOK, StreamInv, Begun
<1>7. channel[cur] = e.ch
  BY <1>1, <1>2, <1>5, ResponsesAnswer DEF Inv, UseInv, Said, Good
<1>8. Found = cur
  BY <1>6, <1>7, SecureFound DEF Found, Inv
<1>9. e.text \in {"DATA ACCEPT", "SEND FAIL", "+CCHSEND"}
  BY <1>1 DEF SendResponse
<1>10. CASE e.text = "DATA ACCEPT"
  <2>1. Sent(cur, e.value, FALSE)
    BY <1>8, <1>10 DEF OnSendResponse
  <2>2. e.value = outgoing[cur] /\ Ahead(cur, e.value)
    BY <1>4, <1>10 DEF Tells
  <2> QED
    BY <1>3, <1>6, <2>1, <2>2
<1>11. CASE e.text = "SEND FAIL"
  <2>1. Sent(cur, 0, TRUE)
    BY <1>8, <1>11 DEF OnSendResponse
  <2>2. model = "SIM800"
    BY <1>4, <1>11 DEF Tells
  <2> QED
    BY <1>3, <1>6, <2>1, <2>2
<1>12. CASE e.text = "+CCHSEND"
  <2>1. PICK n : n = IF e.value = 0 THEN outgoing[cur] ELSE 0
    OBVIOUS
  <2>2. Sent(cur, n, FALSE)
    BY <1>8, <1>12, <2>1 DEF OnSendResponse
  <2>3. Ahead(cur, n)
    BY <1>4, <1>12, <2>1 DEF Tells
  <2>4. n \in {0, outgoing[cur]}
    BY <2>1
  <2> QED
    BY <1>3, <1>6, <2>2, <2>3, <2>4
<1> QED
  BY <1>9, <1>10, <1>11, <1>12

\* Every line read.
LEMMA StreamRx ==
  ASSUME Inv, Inv', StreamInv, RxTask PROVE StreamInv'
<1>1. /\ model' = model /\ command' = command /\ link' = link
      /\ pc' = pc /\ cur' = cur /\ phase' = phase /\ failed' = failed
      /\ rx # <<>> /\ rx' = Tail(rx)
  BY ReadStep
<1>2. /\ rx \in Seq(LineType) /\ Head(rx) = rx[1] /\ 1 \in DOMAIN rx
  BY <1>1 DEF Inv, Typed
<1>3. CASE OnOK \/ OnError \/ OnMaybeIncoming \/ OnIncoming
  <2>1. CalmStep
    BY <1>3, CalmRx DEF Inv
  <2>2. OpenHeld'
    BY <1>1, <2>1, CalmHeld DEF StreamInv
  <2>3. Still /\ outgoing' = outgoing
    BY <1>1, <1>3
    DEF OnOK, OnError, OnMaybeIncoming, OnIncoming, Update, socketVars,
        sendVars, Still
  <2>4. Head(rx).text \notin SendResponse \cup {"+CIPACK"}
    BY <1>3
    DEF OnOK, OnError, OnMaybeIncoming, OnIncoming, Reads, SendResponse
  <2>5. \/ need' = need /\ result' = result
        \/ ATComplete(1) /\ Head(rx).text \in Answers \ {"ERROR"}
           /\ Bit(Head(rx).text) = 1
        \/ /\ Head(rx).text = "ERROR" /\ need' = {}
           /\ result' = IF result = "Pending" THEN "Error" ELSE result
    BY <1>3
    DEF OnOK, OnError, OnMaybeIncoming, OnIncoming, Reads, atVars, Answers, Bit
  <2> QED
    BY <2>1, <2>2, <2>3, <2>4, <2>5, CalmSeal, StreamLine
<1>4. CASE OnOpened \/ OnDisconnected \/ OnCloseOk
  <2>1. SealStep
    BY <1>4, SpecialSeal DEF Inv
  <2>2. Still /\ outgoing' = outgoing
    BY <1>1, <1>4
    DEF OnOpened, OnDisconnected, OnCloseOk, Update, sendVars, Still
  <2>3. Head(rx).text \notin SendResponse \cup {"+CIPACK"}
    BY <1>4
    DEF OnOpened, OnDisconnected, OnCloseOk, Reads, SendResponse
  <2>4. \/ need' = need /\ result' = result
        \/ ATComplete(1) /\ Head(rx).text \in Answers \ {"ERROR"}
           /\ Bit(Head(rx).text) = 1
    BY <1>4
    DEF OnOpened, OnDisconnected, OnCloseOk, Reads, atVars, Answers, Bit
  <2>5. /\ flags \in [Socket -> SUBSET SocketFlag]
        /\ Found # NULL => Found \in Socket
    BY FoundSocket DEF Found, Inv, Typed, TypeOK
  <2>6. CASE OnDisconnected \/ OnCloseOk
    <3>1. \/ flags' = flags
          \/ flags' = [flags EXCEPT ![Found] = Finished(@)]
      BY <2>6 DEF OnDisconnected, OnCloseOk, Update
    <3>2. OpenHeld'
      BY <1>1, <2>5, <3>1, OtherUpdates DEF StreamInv, OpenHeld, Kept
    <3> QED
      BY <2>1, <2>2, <2>3, <2>4, <3>2, StreamLine
  <2>7. CASE OnOpened
    <3>1. flags' = IF Found = NULL THEN flags
                   ELSE [flags EXCEPT ![Found] = Connected(@)]
      BY <2>7 DEF OnOpened, Update
    <3>2. PICK e : e = Head(rx)
      OBVIOUS
    <3>3. PICK o : o = e.of
      OBVIOUS
    <3>4. /\ e.text = "Opened" /\ e.text \in Events
      BY <2>7, <3>2 DEF OnOpened, Reads, Events
    <3>5. /\ o \in Socket /\ IsAllocated(flags[o]) /\ channel[o] = e.ch
          /\ PoolOf(o) # "CIP" /\ InUse(o)
      BY <1>2, <3>2, <3>3, <3>4
      DEF Inv, UseInv, Said, Good, InUse, About, StreamInv, Heard
    <3>6. Found # NULL => Found = o
      BY <3>2, <3>5, FindsOwner DEF Found, Inv
    <3>7. Kept(o)
      BY <3>5 DEF Inv, UseInv, Held
    <3>8. OpenHeld'
      BY <1>1, <2>5, <3>1, <3>6, <3>7, OtherUpdates
      DEF StreamInv, OpenHeld, Kept
    <3> QED
      BY <2>1, <2>2, <2>3, <2>4, <3>8, StreamLine
  <2> QED
    BY <1>4, <2>6, <2>7
<1>5. CASE OnSendResponse
  <2>1. CalmStep
    BY <1>5, CalmRx DEF Inv
  <2>2. Head(rx).text \in SendResponse
    BY <1>5 DEF OnSendResponse, Reads, SendResponse
  <2>3. CASE ~Sends
    <3>1. failed
      BY <1>2, <2>2, <2>3, Settled, ResponsesAnswer
      DEF StreamInv, Told, Tells, Sends, Inv, Unanswered
    <3>2. /\ Still /\ outgoing' = outgoing /\ need' = need /\ result' = result
      BY <1>1, <1>5, <2>3 DEF OnSendResponse, sendVars, atVars, Still
    <3>3. OpenHeld'
      BY <1>1, <2>1, CalmHeld DEF StreamInv
    <3> QED
      BY <2>1, <3>1, <3>2, <3>3, CalmSeal, StreamLine
  <2>4. CASE Sends
    <3>1. /\ pc = "SendPacketImpl" /\ result = "Pending" /\ ~failed
          /\ cur \in Socket /\ cur # NULL
      BY <1>5, <2>4, SendRead, SimComAssumption DEF Sends
    <3>2. PICK n \in {0, outgoing[cur]}, failing \in BOOLEAN :
            /\ Sent(cur, n, failing)
            /\ failing => n = 0 /\ model = "SIM800"
            /\ ~failing => Ahead(cur, n)
      BY <1>5, <2>4, SendRead
    <3>3. /\ position' = [position EXCEPT ![cur] = @ + n]
          /\ error' = [error EXCEPT ![cur] = @ \/ failing]
      BY <3>1, <3>2 DEF Sent
    <3>4. /\ position \in [Socket -> Nat] /\ error \in [Socket -> BOOLEAN]
          /\ outgoing \in [Socket -> Nat] /\ Link' = Link
      BY DEF Inv, Typed, TypeOK, Link, Capacity
    <3>5. \A s \in Socket \ {cur} :
            position'[s] = position[s] /\ error'[s] = error[s]
      BY <3>3, <3>4
    <3>6. /\ position'[cur] = position[cur] + n
          /\ position[cur] \in Nat /\ n \in Nat
      BY <3>1, <3>3, <3>4
    <3>7. error'[cur] <=> error[cur] \/ failing
      BY <3>1, <3>3, <3>4, Zenon
    <3>8. ~failing => Ahead(cur, 0)'
      <4>1. ~failing => \A l \in Link : link'[l].of = cur' =>
                          position'[cur'] = link'[l].taken
        BY <1>1, <3>2, <3>6 DEF Ahead
      <4> QED
        BY <1>1, <3>4, <3>6, <4>1 DEF Ahead
    <3>9. error[cur] => model = "SIM800"
      BY <3>1 DEF StreamInv, Counted, Inv, Typed, TypeOK, Model
    <3> QED
      BY <2>1, <2>2, <3>1, <3>2, <3>5, <3>7, <3>8, <3>9, StreamAnswered
  <2> QED
    BY <2>3, <2>4
<1>6. CASE OnReceiveAck
  <2>1. CalmStep
    BY <1>6, CalmRx DEF Inv
  <2>2. Head(rx).text = "+CIPACK"
    BY <1>6 DEF OnReceiveAck, Reads
  <2>3. CASE ~(pc = "SendAck" /\ result = "Pending")
    <3>1. failed
      BY <1>2, <2>2, <2>3, Settled, ResponsesAnswer
      DEF StreamInv, Told, Tells, Inv, Unanswered
    <3>2. /\ Still /\ outgoing' = outgoing /\ need' = need /\ result' = result
      BY <1>1, <1>6, <2>3 DEF OnReceiveAck, atVars, Still
    <3>3. OpenHeld'
      BY <1>1, <2>1, CalmHeld DEF StreamInv
    <3> QED
      BY <2>1, <3>1, <3>2, <3>3, CalmSeal, StreamLine
  <2>4. CASE pc = "SendAck" /\ result = "Pending"
    <3>1. ~failed
      BY <2>4 DEF Inv, FrameInv
    <3>2. Tells(Head(rx))
      BY <1>2, <3>1 DEF StreamInv, Told
    <3>3. /\ position' = [position EXCEPT ![cur] = Head(rx).value]
          /\ error' = [error EXCEPT ![cur] = FALSE]
      BY <1>6, <2>4 DEF OnReceiveAck
    <3>4. /\ cur \in Socket /\ position \in [Socket -> Nat]
          /\ error \in [Socket -> BOOLEAN] /\ Link' = Link
          /\ Head(rx).value \in Nat
      <4>1. rx[1] \in LineType
        BY <1>2 DEF Inv, Typed
      <4> QED
        BY <1>2, <2>4, <4>1
        DEF Inv, FrameInv, Typed, TypeOK, LineType, Link, Capacity
    <3>5. /\ position'[cur] = Head(rx).value /\ error'[cur] = FALSE
          /\ \A s \in Socket \ {cur} :
               position'[s] = position[s] /\ error'[s] = error[s]
      BY <3>3, <3>4
    <3>6. Ahead(cur, 0)'
      <4>1. \A l \in Link : link'[l].of = cur' =>
              position'[cur'] = link'[l].taken
        BY <1>1, <2>2, <3>2, <3>5 DEF Tells
      <4>2. position'[cur'] \in Nat
        BY <1>1, <3>4, <3>5
      <4> QED
        BY <3>4, <4>1, <4>2 DEF Ahead
    <3> QED
      BY <2>1, <2>2, <2>4, <3>1, <3>5, <3>6, StreamAnswered
  <2> QED
    BY <2>3, <2>4
<1> QED
  BY <1>3, <1>4, <1>5, <1>6 DEF RxTask

-----------------------------------------------------------------------------
(* The modem's steps *)

\* Lines that say nothing of what has been sent.
Plain(e) ==
  /\ e.text \notin SendResponse \cup {"+CIPACK"}
  /\ e.text = "Opened" => PoolOf(e.of) # "CIP"

\* No byte is taken and no connection begins.
TakesNone ==
  \A l \in Link : link'[l].of # NULL =>
    link'[l].of = link[l].of /\ link'[l].taken = link[l].taken

\* Whatever the modem says, it leaves the driver's part alone.
LEMMA StreamModem ==
  ASSUME Inv, StreamInv, Device,
         NEW r \in Seq(LineType), rx' = rx \o r,
         \/ command' = command /\ \A s \in Socket : Ahead(s, 0) => Ahead(s, 0)'
         \/ command' = NoCommand,
         \A i \in DOMAIN r : r[i].text = "Opened" => PoolOf(r[i].of) # "CIP"
  PROVE  /\ Given' /\ OpenHeld' /\ Begun' /\ Heard'
         /\ Responded => Responded'
         /\ (\E i \in DOMAIN r : r[i].text \in SendResponse) => Responded'
<1>1. /\ model' = model /\ flags' = flags /\ channel' = channel
      /\ outgoing' = outgoing /\ error' = error /\ position' = position
      /\ phase' = phase /\ pc' = pc /\ cur' = cur /\ failed' = failed
  BY DeviceOnly
<1>2. /\ rx \in Seq(LineType)
      /\ DOMAIN rx \subseteq DOMAIN rx'
      /\ \A i \in DOMAIN rx : rx'[i] = rx[i]
      /\ \A i \in DOMAIN rx' :
           \/ i \in DOMAIN rx /\ rx'[i] = rx[i]
           \/ i - Len(rx) \in DOMAIN r /\ rx'[i] = r[i - Len(rx)]
  BY LinesAdded DEF Inv, Typed
<1>3. Given'
  <2>1. CASE command' = command /\ command.name \in {"Send", "CIPACK"}
    <3>1. PICK o \in Socket : o = command.of
      BY <2>1 DEF StreamInv, Given
    <3>2. Ahead(o, 0) => Ahead(command.of, 0)'
      BY <2>1, <3>1, AheadNow DEF NoCommand
    <3> QED
      BY <1>1, <2>1, <3>1, <3>2
      DEF StreamInv, Given, IsSecure, LinkOf, PoolOf, Step
  <2>2. CASE command' = NoCommand \/ command.name \notin {"Send", "CIPACK"}
    BY <2>2 DEF Given, NoCommand
  <2> QED
    BY <2>1, <2>2
<1>4. OpenHeld'
  BY <1>1 DEF StreamInv, OpenHeld, Kept
<1>5. Begun'
  BY <1>1 DEF StreamInv, Begun, IsSecure, NoCommand
<1>6. Heard'
  <2>1. \A o : PoolOf(o)' = PoolOf(o)
    BY <1>1 DEF PoolOf, IsSecure
  <2>2. \A i \in DOMAIN rx' : rx'[i].text = "Opened" =>
          \E o : o = rx'[i].of /\ PoolOf(o) # "CIP"
    BY <1>2 DEF StreamInv, Heard
  <2> QED
    BY <1>1, <2>2 DEF Heard, PoolOf, IsSecure
<1>7. Responded => Responded'
  BY <1>2 DEF Responded
<1>8. (\E i \in DOMAIN r : r[i].text \in SendResponse) => Responded'
  <2>1. ASSUME NEW i \in DOMAIN r, r[i].text \in SendResponse PROVE Responded'
    <3>1. i + Len(rx) \in DOMAIN rx' /\ rx'[i + Len(rx)] = r[i]
      BY <1>2
    <3> QED
      BY <2>1, <3>1 DEF Responded
  <2> QED
    BY <2>1
<1> QED
  BY <1>3, <1>4, <1>5, <1>6, <1>7, <1>8

\* Nothing is sent.
LEMMA StreamPlain ==
  ASSUME Inv, StreamInv, Device,
         NEW r \in Seq(LineType), rx' = rx \o r,
         command' = command \/ command' = NoCommand, Vacant',
         \A s \in Socket : Ahead(s, 0) => Ahead(s, 0)',
         TakesNone \/ command.name # "None",
         \A i \in DOMAIN r : Plain(r[i])
  PROVE  StreamInv'
<1>1. /\ model' = model /\ outgoing' = outgoing /\ error' = error
      /\ position' = position /\ pc' = pc /\ cur' = cur /\ need' = need
      /\ result' = result /\ failed' = failed
  BY DeviceOnly
<1>2. /\ Given' /\ OpenHeld' /\ Begun' /\ Heard'
      /\ Responded => Responded'
  BY StreamModem DEF Plain
<1>3. /\ rx \in Seq(LineType)
      /\ \A i \in DOMAIN rx' :
           \/ i \in DOMAIN rx /\ rx'[i] = rx[i]
           \/ rx'[i].text \notin SendResponse \cup {"+CIPACK"}
  BY LinesAdded DEF Inv, Typed, Plain
<1>4. Link' = Link
  BY DEF Link, Capacity
<1>5. Told'
  <2>1. CASE failed \/ command.name # "None"
    <3>1. ~failed => Unanswered(rx)
      BY <2>1 DEF Inv, Talk
    <3> QED
      BY <1>1, <1>3, <3>1, NoneTold, ResponsesAnswer DEF Unanswered
  <2>2. CASE ~failed /\ TakesNone
    <3>1. \A s, n : s # NULL /\ Ahead(s, n) => Ahead(s, n)'
      BY <1>1, <1>4, <2>2 DEF TakesNone, Ahead
    <3>2. pc # "Idle" => cur # NULL
      BY SimComAssumption DEF Inv, FrameInv, Typed, TypeOK
    <3>3. ASSUME NEW e, Tells(e),
                 e.text \in SendResponse \cup {"+CIPACK"}
          PROVE  Tells(e)'
      <4>1. cur # NULL
        BY <3>2, <3>3 DEF Tells
      <4>2. \A n : Ahead(cur, n) => Ahead(cur, n)'
        BY <1>1, <3>1, <4>1, AheadNow
      <4>3. \A l \in Link : link'[l].of = cur' =>
              link[l].of = cur /\ link'[l].taken = link[l].taken
        BY <1>1, <2>2, <4>1 DEF TakesNone
      <4> QED
        BY <1>1, <1>4, <3>3, <4>2, <4>3 DEF Tells, SendResponse
    <3>4. ASSUME NEW e, e.text \notin SendResponse \cup {"+CIPACK"}
          PROVE  Tells(e)'
      BY <3>4 DEF Tells, SendResponse
    <3>5. \A i \in DOMAIN rx' : \E e :
            /\ e = rx'[i]
            /\ Tells(e) \/ e.text \notin SendResponse \cup {"+CIPACK"}
      BY <1>3, <2>2 DEF StreamInv, Told
    <3> QED
      BY <3>3, <3>4, <3>5 DEF Told
  <2> QED
    BY <2>1, <2>2
<1>6. Counted'
  BY <1>1, <1>2 DEF StreamInv, Counted, Sends
<1>7. Acked'
  <2>1. ASSUME Acknowledged PROVE Ahead(cur, 0)'
    <3>1. cur \in Socket /\ Ahead(cur, 0)
      BY <2>1
      DEF Acknowledged, Inv, FrameInv, Typed, TypeOK, StreamInv, Acked
    <3> QED
      BY <1>1, <3>1, AheadNow
  <2> QED
    BY <1>1, <2>1 DEF Acked, Acknowledged
<1> QED
  BY <1>2, <1>5, <1>6, <1>7 DEF StreamInv

\* A send is answered, or what has been taken is told.
LEMMA StreamReplies ==
  ASSUME Inv, StreamInv, Device,
         NEW r \in Seq(LineType), rx' = rx \o r,
         command.name \in {"Send", "CIPACK"}, command' = NoCommand, Vacant',
         \A i \in DOMAIN r : r[i].text # "Opened",
         \A s \in Socket : \/ Ahead(s, 0) => Ahead(s, 0)'
                           \/ command.name = "Send" /\ s = command.of,
         command.name = "Send" => \E i \in DOMAIN r : r[i].text \in SendResponse,
         ~failed => \A i \in DOMAIN r : \E e : e = r[i] /\ Tells(e)'
  PROVE  StreamInv'
<1>1. /\ model' = model /\ error' = error
      /\ pc' = pc /\ cur' = cur /\ need' = need
      /\ result' = result /\ failed' = failed
  BY DeviceOnly
<1>2. /\ Given' /\ OpenHeld' /\ Begun' /\ Heard'
      /\ command.name = "Send" => Responded'
  BY StreamModem
<1>3. ~failed => /\ pc = Step(command.name) /\ cur = command.of
                 /\ result = "Pending" /\ Unanswered(rx) /\ ~Responded
  BY NothingTold DEF Inv, Talk
<1>4. Told'
  <2>1. ASSUME NEW e, e.text \notin SendResponse \cup {"+CIPACK"}
        PROVE  Tells(e)'
    BY <2>1 DEF Tells, SendResponse
  <2>2. ~failed => \A i \in DOMAIN rx' : \E e : e = rx'[i] /\ Tells(e)'
    <3>1. /\ rx \in Seq(LineType)
          /\ \A i \in DOMAIN rx' :
               \/ i \in DOMAIN rx /\ rx'[i] = rx[i]
               \/ i - Len(rx) \in DOMAIN r /\ rx'[i] = r[i - Len(rx)]
      BY LinesAdded DEF Inv, Typed
    <3>2. ~failed => \A i \in DOMAIN rx :
                       rx[i].text \notin SendResponse \cup {"+CIPACK"}
      BY <1>3, ResponsesAnswer DEF Unanswered
    <3>3. ASSUME ~failed, NEW i \in DOMAIN rx'
          PROVE  \E e : e = rx'[i] /\ Tells(e)'
      <4>1. CASE i \in DOMAIN rx /\ rx'[i] = rx[i]
        BY <2>1, <3>2, <3>3, <4>1
      <4>2. CASE i - Len(rx) \in DOMAIN r /\ rx'[i] = r[i - Len(rx)]
        BY <3>3, <4>2
      <4> QED
        BY <3>1, <4>1, <4>2
    <3> QED
      BY <3>3
  <2> QED
    BY <1>1, <2>2 DEF Told
<1>5. Counted'
  <2>1. ASSUME ~failed, NEW s \in Socket
        PROVE  error[s] \/ Ahead(s, 0)' \/ (s = cur /\ Sends /\ Responded')
    <3>1. error[s] \/ Ahead(s, 0)
      BY <1>3, <2>1 DEF StreamInv, Counted
    <3> QED
      BY <1>2, <1>3, <2>1, <3>1 DEF Sends, Step
  <2> QED
    BY <1>1, <2>1 DEF StreamInv, Counted, Sends
<1>6. Acked'
  <2>1. ASSUME Acknowledged PROVE Ahead(cur, 0)'
    <3>1. cur \in Socket /\ Ahead(cur, 0) /\ ~failed /\ pc = "SendAck"
      BY <2>1
      DEF Acknowledged, Inv, FrameInv, Typed, TypeOK, StreamInv, Acked
    <3>2. command.name # "Send"
      BY <1>3, <3>1 DEF Step
    <3> QED
      BY <1>1, <3>1, <3>2, AheadNow
  <2> QED
    BY <1>1, <2>1 DEF Acked, Acknowledged
<1> QED
  BY <1>2, <1>4, <1>5, <1>6 DEF StreamInv

\* A connection that is opened, or that ends, or that only has data to read.
LEMMA LinkChanges ==
  ASSUME Inv, StreamInv, Device, NEW l \in Link, NEW c,
         link' = link \/ link' = [link EXCEPT ![l] = c],
         c = NoConnection \/ (c.of = link[l].of /\ c.taken = link[l].taken),
         c = NoConnection \/ c.at # "idle"
  PROVE  TakesNone /\ Vacant' /\ \A s \in Socket : Ahead(s, 0) => Ahead(s, 0)'
<1>1. Link' = Link /\ position' = position
  BY DeviceOnly DEF Link, Capacity
<1>2. NoConnection.of = NULL
  BY DEF NoConnection
<1>3. \A k \in Link : \/ link'[k] = link[k]
                      \/ k = l /\ link'[k] = c
  BY DEF Inv, Typed
<1>4. TakesNone
  BY <1>2, <1>3 DEF TakesNone
<1>5. Vacant'
  BY <1>1, <1>2, <1>3 DEF StreamInv, Vacant
<1>6. \A s \in Socket : Ahead(s, 0) => Ahead(s, 0)'
  BY <1>1, <1>4, SimComAssumption DEF TakesNone, Ahead
<1> QED
  BY <1>4, <1>5, <1>6

\* A connection the modem begins has taken nothing, as its socket has sent
\* nothing.
LEMMA StreamOpen ==
  ASSUME Inv, StreamInv, DeviceTakesOpen PROVE StreamInv'
<1> DEFINE c == [at |-> "opening", of |-> command.of, taken |-> 0,
                 unread |-> FALSE]
           y == Result("OK")
<1>1. Device
  BY DEF Device
<1>2. /\ command.name = "Open" /\ command' = NoCommand
      /\ link' = [link EXCEPT ![At] = c] /\ rx' = rx \o <<y>>
      /\ c.at = "opening" /\ c.of = command.of /\ c.taken = 0
  BY DEF DeviceTakesOpen, Busy, Answer, Done
<1>3. /\ y \in LineType /\ y.text = "OK"
      /\ "OK" \notin SendResponse \cup {"+CIPACK", "Opened"}
  BY ResultTypes DEF SendResponse
<1>4. /\ Link' = Link /\ position' = position
      /\ position[command.of] = 0 /\ link \in [Link -> LinkType]
  BY <1>1, <1>2, DeviceOnly
  DEF Link, Capacity, StreamInv, Begun, Inv, Typed
<1> HIDE DEF c, y
<1>5. \A k \in Link : link'[k] = IF k = At THEN c ELSE link[k]
  BY <1>2, <1>4
<1>6. Vacant'
  BY <1>2, <1>4, <1>5 DEF StreamInv, Vacant
<1>7. ASSUME NEW s \in Socket, Ahead(s, 0) PROVE Ahead(s, 0)'
  <2>1. ASSUME NEW k \in Link, link'[k].of = s
        PROVE  position[s] + 0 = link'[k].taken
    BY <1>2, <1>4, <1>5, <1>7, <2>1 DEF Ahead
  <2> QED
    BY <1>4, <2>1 DEF Ahead
<1>8. <<y>> \in Seq(LineType) /\ DOMAIN <<y>> = {1} /\ <<y>>[1] = y
  BY <1>3, FewLines
<1>9. \A i \in DOMAIN <<y>> : Plain(<<y>>[i])
  BY <1>3, <1>8 DEF Plain
<1> QED
  BY <1>1, <1>2, <1>6, <1>7, <1>8, <1>9, StreamPlain

\* The modem's socket for a send command is the one that sends.
LEMMA SendsOwner ==
  ASSUME Inv, StreamInv, command.name \in {"Send", "CIPACK"},
         link[At].at # "idle"
  PROVE  /\ At \in Link /\ link[At].of = command.of
         /\ command.of \in Socket /\ At[1] # "CIP"
         /\ \A l \in Link : link[l].of = command.of => l = At
<1>1. At \in Link
  BY DEF Inv, Asked, At
<1>2. PICK s \in Socket : s = command.of
  BY DEF StreamInv, Given
<1>3. IsAllocated(flags[s]) /\ IsSecure(s) /\ LinkOf(s) = At
  BY <1>2 DEF StreamInv, Given, At
<1>4. ASSUME NEW l \in Link, link[l].at # "idle"
      PROVE  /\ link[l].of \in listed /\ LinkOf(link[l].of) = l
             /\ IsAllocated(flags[link[l].of])
  BY <1>4 DEF Inv, UseInv, ConnectionOwned
<1>5. link[At].of = s
  <2>1. PICK o \in listed : /\ o = link[At].of /\ LinkOf(o) = At
                            /\ IsAllocated(flags[o])
    BY <1>1, <1>4
  <2>2. s \in listed /\ ChannelsUnique
    BY <1>3 DEF Inv, FlagInv
  <2> QED
    BY <1>3, <2>1, <2>2 DEF ChannelsUnique, LinkOf
<1>6. At[1] # "CIP"
  BY <1>3 DEF LinkOf, PoolOf
<1>7. \A l \in Link : link[l].of = s => l = At
  BY <1>2, <1>3, <1>4, SimComAssumption DEF StreamInv, Vacant
<1> QED
  BY <1>1, <1>2, <1>5, <1>6, <1>7

\* What the modem says it has taken is what it has taken.
LEMMA StreamAcknowledges ==
  ASSUME Inv, StreamInv, DeviceAcknowledges PROVE StreamInv'
<1>0. PICK y, z : y = Says("+CIPACK", link[At].taken) /\ z = Result("OK")
  OBVIOUS
<1> DEFINE r == <<y, z>>
<1>1. Device
  BY DEF Device
<1>2. /\ command.name = "CIPACK" /\ command' = NoCommand /\ link' = link
      /\ link[At].at # "idle" /\ rx' = rx \o r
  BY <1>0 DEF DeviceAcknowledges, Busy, Answer, Done, IsOpen
<1>3. /\ At \in Link /\ link[At].of = command.of
      /\ \A l \in Link : link[l].of = command.of => l = At
  BY <1>2, SendsOwner
<1>4. link[At].taken \in Nat /\ "+CIPACK" \in Events
  BY <1>3 DEF Inv, Typed, LinkType, Events
<1>5. /\ y \in LineType /\ y.text = "+CIPACK" /\ y.value = link[At].taken
      /\ z \in LineType /\ z.text = "OK"
      /\ "+CIPACK" \notin SendResponse
      /\ "OK" \notin SendResponse \cup {"+CIPACK", "Opened"}
  BY <1>0, <1>3, <1>4, LineTypes, ResultTypes
  DEF Inv, Says, Line, SendResponse
<1>6. /\ r \in Seq(LineType) /\ DOMAIN r = {1, 2} /\ r[1] = y /\ r[2] = z
  BY <1>5, FewLines
<1> HIDE DEF r
<1>7. /\ Link' = Link /\ position' = position /\ pc' = pc /\ cur' = cur
  BY <1>1, DeviceOnly DEF Link, Capacity
<1>8. Vacant' /\ \A s, n : Ahead(s, n) => Ahead(s, n)'
  BY <1>2, <1>7, VacantStill DEF StreamInv, Ahead
<1>9. ASSUME ~failed PROVE \A i \in DOMAIN r : \E e : e = r[i] /\ Tells(e)'
  <2>1. cur = command.of /\ pc = "SendAck"
    BY <1>2, <1>9 DEF Inv, Talk, Step
  <2>2. Tells(y)'
    BY <1>2, <1>3, <1>5, <1>7, <2>1 DEF Tells, SendResponse
  <2>3. Tells(z)'
    BY <1>5 DEF Tells, SendResponse
  <2> QED
    BY <1>6, <2>2, <2>3
<1> QED
  BY <1>1, <1>2, <1>5, <1>6, <1>8, <1>9, StreamReplies

\* What the modem answers to a send is what it has taken.
LEMMA StreamSent ==
  ASSUME Inv, StreamInv, DeviceSends PROVE StreamInv'
<1>1. Device
  BY DEF Device
<1>2. /\ command.name = "Send" /\ command' = NoCommand
      /\ link[At].at = "open"
  BY DEF DeviceSends, Busy, Done, IsOpen
<1>3. PICK n \in 0..command.len :
        /\ At[1] = "IP" \/ n \in {0, command.len}
        /\ link' = [link EXCEPT ![At].taken = @ + n]
        /\ rx' = rx \o
             (CASE At[1] = "CCH" ->
                    <<Result("OK"), Says("+CCHSEND", IF n = 0 THEN 1 ELSE 0)>>
                [] At[1] = "IP" /\ n = command.len ->
                    <<Says("DATA ACCEPT", n)>>
                [] OTHER -> <<Says("SEND FAIL", 0)>>)
  BY DEF DeviceSends, Answer
<1>4. PICK o \in Socket : o = command.of
  BY <1>2, SendsOwner
<1>5. /\ At \in Link /\ link[At].of = o /\ At[1] # "CIP"
      /\ At[1] = "IP" <=> model = "SIM800"
      /\ \A l \in Link : link[l].of = o => l = At
  BY <1>2, <1>4, SendsOwner DEF Inv, Asked, At
<1>6. /\ n \in Nat /\ link[At].taken \in Nat /\ position[o] \in Nat
      /\ link \in [Link -> LinkType]
  BY <1>4, <1>5 DEF Inv, Typed, TypeOK, LinkType, CommandType
<1>7. \A l \in Link :
        /\ link'[l].at = link[l].at /\ link'[l].of = link[l].of
        /\ link'[l].taken = IF l = At THEN link[l].taken + n ELSE link[l].taken
  BY <1>3, <1>6 DEF LinkType
<1>8. /\ Link' = Link /\ position' = position /\ pc' = pc /\ cur' = cur
      /\ outgoing' = outgoing /\ model' = model
  BY <1>1, DeviceOnly DEF Link, Capacity
<1>9. Vacant'
  BY <1>7, <1>8 DEF StreamInv, Vacant
<1>10. ASSUME NEW s \in Socket, s # o, Ahead(s, 0) PROVE Ahead(s, 0)'
  BY <1>5, <1>7, <1>8, <1>10 DEF Ahead
<1>11. Ahead(o, n)'
  <2>1. Ahead(o, 0)
    BY <1>2, <1>4 DEF StreamInv, Given
  <2>2. position[o] = link[At].taken
    BY <1>5, <1>6, <2>1 DEF Ahead
  <2>3. \A l \in Link : link'[l].of = o => position[o] + n = link'[l].taken
    BY <1>5, <1>6, <1>7, <2>2
  <2> QED
    BY <1>8, <2>3 DEF Ahead
<1>12. ASSUME ~failed
       PROVE  /\ pc = "SendPacketImpl" /\ cur = o
              /\ command.len = outgoing[o]
              /\ Ahead(cur, n)'
  <2>1. pc = "SendPacketImpl" /\ cur = o
    BY <1>2, <1>4, <1>12 DEF Inv, Talk, Step
  <2>2. Ahead(cur, n)'
    BY <1>8, <1>11, <2>1, AheadNow
  <2> QED
    BY <1>2, <1>4, <1>12, <2>1, <2>2 DEF StreamInv, Given
<1>13. ASSUME NEW t \in SendResponse, NEW v \in Nat
       PROVE  /\ Says(t, v) \in LineType /\ Says(t, v).text = t
              /\ Says(t, v).value = v /\ Says(t, v).of = o
  BY <1>5, <1>13, LineTypes, ResponsesAnswer DEF Inv, Says, Line
<1>14. ASSUME NEW t \in SendResponse, NEW v \in Nat,
              ~failed =>
                /\ t = "DATA ACCEPT" => v = n /\ n = outgoing[o]
                /\ t = "SEND FAIL" => model = "SIM800"
                /\ t = "+CCHSEND" =>
                     n = IF v = 0 THEN outgoing[o] ELSE 0,
              \/ rx' = rx \o <<Result("OK"), Says(t, v)>>
              \/ rx' = rx \o <<Says(t, v)>>
       PROVE  StreamInv'
  <2>0. PICK y, z : y = Says(t, v) /\ z = Result("OK")
    OBVIOUS
  <2>1. /\ y \in LineType /\ y.text = t /\ y.value = v /\ y.of = o
        /\ z \in LineType /\ z.text = "OK" /\ t # "Opened"
        /\ "OK" \notin SendResponse \cup {"+CIPACK", "Opened"}
    <3>1. y \in LineType /\ y.text = t /\ y.value = v /\ y.of = o
      BY <1>13, <1>14, <2>0
    <3>2. /\ t # "Opened"
          /\ "OK" \notin SendResponse \cup {"+CIPACK", "Opened"}
      BY DEF SendResponse
    <3> QED
      BY <2>0, <3>1, <3>2, ResultTypes
  <2>2. rx' = rx \o <<z, y>> \/ rx' = rx \o <<y>>
    BY <1>14, <2>0
  <2>3. ASSUME ~failed PROVE Tells(y)' /\ Tells(z)'
    <3>1. t # "+CIPACK"
      BY DEF SendResponse
    <3>2. Tells(y)'
      BY <1>8, <1>12, <1>14, <2>1, <2>3, <3>1 DEF Tells
    <3>3. Tells(z)'
      BY <2>1 DEF Tells, SendResponse
    <3> QED
      BY <3>2, <3>3
  <2>4. PICK r \in Seq(LineType) :
          /\ rx' = rx \o r
          /\ \A i \in DOMAIN r : r[i] \in {y, z}
          /\ \E i \in DOMAIN r : r[i] = y
    <3>1. /\ <<z, y>> \in Seq(LineType) /\ DOMAIN <<z, y>> = {1, 2}
          /\ <<z, y>>[1] = z /\ <<z, y>>[2] = y
          /\ <<y>> \in Seq(LineType) /\ DOMAIN <<y>> = {1} /\ <<y>>[1] = y
      BY <2>1, FewLines
    <3> QED
      BY <2>2, <3>1
  <2>5. \A i \in DOMAIN r : r[i].text # "Opened"
    BY <2>1, <2>4
  <2>6. \E i \in DOMAIN r : r[i].text \in SendResponse
    BY <2>1, <2>4
  <2>7. ~failed => \A i \in DOMAIN r : \E e : e = r[i] /\ Tells(e)'
    BY <2>3, <2>4
  <2> QED
    BY <1>1, <1>2, <1>4, <1>9, <1>10, <2>4, <2>5, <2>6, <2>7, StreamReplies
<1>15. {"DATA ACCEPT", "SEND FAIL", "+CCHSEND"} = SendResponse
  BY DEF SendResponse
<1>16. CASE At[1] = "CCH"
  <2>1. rx' = rx \o <<Result("OK"), Says("+CCHSEND", IF n = 0 THEN 1 ELSE 0)>>
    BY <1>3, <1>16
  <2>2. ~failed => n = IF (IF n = 0 THEN 1 ELSE 0) = 0 THEN outgoing[o] ELSE 0
    BY <1>3, <1>12, <1>16
  <2> QED
    BY <1>14, <1>15, <2>1, <2>2
<1>17. CASE At[1] # "CCH" /\ n = command.len
  <2>1. At[1] = "IP"
    BY <1>5, <1>17, LinkTypes DEF Pool
  <2>2. rx' = rx \o <<Says("DATA ACCEPT", n)>>
    BY <1>3, <1>17, <2>1
  <2> QED
    BY <1>6, <1>12, <1>14, <1>15, <1>17, <2>2
<1>18. CASE At[1] # "CCH" /\ n # command.len
  <2>1. model = "SIM800"
    BY <1>5, <1>18, LinkTypes DEF Pool
  <2>2. rx' = rx \o <<Says("SEND FAIL", 0)>>
    BY <1>3, <1>18
  <2> QED
    BY <1>14, <1>15, <2>1, <2>2
<1> QED
  BY <1>16, <1>17, <1>18

\* One, two or three lines that say nothing of sends.
LEMMA StreamPlainLines ==
  ASSUME Inv, StreamInv, Device, NEW l \in Link, NEW c,
         link' = link \/ link' = [link EXCEPT ![l] = c],
         c = NoConnection \/ (c.of = link[l].of /\ c.taken = link[l].taken),
         c = NoConnection \/ c.at # "idle",
         command' = command \/ command' = NoCommand,
         NEW u \in LineType, NEW v \in LineType, NEW w \in LineType,
         Plain(u), Plain(v), Plain(w),
         \/ rx' = rx \o <<>> \/ rx' = rx \o <<u>> \/ rx' = rx \o <<u, v>>
         \/ rx' = rx \o <<u, v, w>>
  PROVE  StreamInv'
<1>1. TakesNone /\ Vacant' /\ \A s \in Socket : Ahead(s, 0) => Ahead(s, 0)'
  BY LinkChanges
<1>2. PICK r \in Seq(LineType) :
        rx' = rx \o r /\ \A i \in DOMAIN r : r[i] \in {u, v, w}
  <2>1. /\ <<>> \in Seq(LineType) /\ \A i \in DOMAIN <<>> : <<>>[i] = u
        /\ <<u>> \in Seq(LineType) /\ \A i \in DOMAIN <<u>> : <<u>>[i] = u
        /\ <<u, v>> \in Seq(LineType)
        /\ \A i \in DOMAIN <<u, v>> : <<u, v>>[i] \in {u, v}
        /\ <<u, v, w>> \in Seq(LineType)
        /\ \A i \in DOMAIN <<u, v, w>> : <<u, v, w>>[i] \in {u, v, w}
    BY FewLines
  <2> QED
    BY <2>1
<1>3. \A i \in DOMAIN r : Plain(r[i])
  BY <1>2
<1> QED
  BY <1>1, <1>2, <1>3, StreamPlain

\* What the modem does.
LEMMA StreamDevice ==
  ASSUME Inv, StreamInv, Device PROVE StreamInv'
<1> DEFINE Quiet == Events \ (SendResponse \cup {"+CIPACK", "Opened"})
<1>1. /\ link \in [Link -> LinkType]
      /\ \A l \in Link : link[l].at = "open" => link[l].at # "idle"
  BY DEF Inv, Typed
<1>2. Result("OK") \in LineType /\ Plain(Result("OK"))
      /\ Result("ERROR") \in LineType /\ Plain(Result("ERROR"))
  BY ResultTypes DEF Plain, SendResponse
<1>3. ASSUME NEW l \in Link, NEW t \in Quiet, NEW v \in Nat
      PROVE  Line(t, l, v) \in LineType /\ Plain(Line(t, l, v))
  BY <1>3, LineTypes DEF Inv, Plain
<1>4. {"Closed", "OpenFailed", "CLOSE OK", "EndOfReceive", "ReceiveFailed",
       "Data", "RecvEvent", "Len"} \subseteq Quiet
  BY DEF Events, SendResponse
<1>5. command.name # "None" => At \in Link
  BY DEF Inv, Asked, At
<1> HIDE DEF Quiet
<1>6. CASE DeviceRefuses \/ DeviceTakesSecurity
  <2>1. /\ command.name # "None" /\ link' = link /\ command' = NoCommand
        /\ rx' = rx \o <<Result("OK")>> \/ rx' = rx \o <<Result("ERROR")>>
    BY <1>6
    DEF DeviceRefuses, DeviceTakesSecurity, Busy, Answer, Done, Inv, Typed
  <2> QED
    BY <1>2, <1>5, <2>1, StreamPlainLines
<1>7. ASSUME NEW l \in Link, DeviceOpens(l) PROVE StreamInv'
  <2> DEFINE c == [link[l] EXCEPT !.at = "open"]
             y == Line("Opened", l, 0)
  <2>1. /\ link' = [link EXCEPT ![l] = c] /\ link[l].at = "opening"
        /\ command' = command
        /\ IF l[1] = "CIP" THEN rx' = rx \o <<>> ELSE rx' = rx \o <<y>>
    BY <1>7 DEF DeviceOpens, Answer
  <2>2. c.of = link[l].of /\ c.taken = link[l].taken /\ c.at # "idle"
    BY <1>1 DEF LinkType
  <2>3. y \in LineType /\ y.text = "Opened" /\ y.of = link[l].of
    <3>1. "Opened" \in Events /\ Typed
      BY DEF Events, Inv
    <3> QED
      BY <3>1, LineTypes
  <2>4. l[1] # "CIP" => Plain(y)
    <3>1. LinkOf(link[l].of) = l
      BY <2>1 DEF Inv, UseInv, ConnectionOwned
    <3>2. "Opened" \notin SendResponse \cup {"+CIPACK"}
      BY DEF SendResponse
    <3>3. l[1] = PoolOf(link[l].of)
      BY <3>1 DEF LinkOf
    <3> HIDE DEF y
    <3> QED
      BY <2>3, <3>2, <3>3 DEF Plain
  <2> HIDE DEF c, y
  <2> QED
    BY <1>2, <2>1, <2>2, <2>3, <2>4, StreamPlainLines
<1>8. ASSUME NEW l \in Link, DeviceFailsToOpen(l) \/ PeerCloses(l)
      PROVE  StreamInv'
  <2>1. /\ link' = [link EXCEPT ![l] = NoConnection] /\ command' = command
        /\ \/ rx' = rx \o <<>> \/ rx' = rx \o <<Line("OpenFailed", l, 1)>>
           \/ rx' = rx \o <<Line("Closed", l, 0)>>
    BY <1>8 DEF DeviceFailsToOpen, PeerCloses, Answer
  <2>2. /\ Line("OpenFailed", l, 1) \in LineType
        /\ Plain(Line("OpenFailed", l, 1))
        /\ Line("Closed", l, 0) \in LineType /\ Plain(Line("Closed", l, 0))
    BY <1>3, <1>4
  <2> QED
    BY <1>2, <2>1, <2>2, StreamPlainLines
<1>9. CASE DeviceCloses
  <2>1. /\ command.name = "Close" /\ link' = [link EXCEPT ![At] = NoConnection]
        /\ command' = NoCommand
    BY <1>9 DEF DeviceCloses, Busy, Done
  <2>2. At \in Link /\ At[1] \in {"IP", "CCH", "CIP"}
    BY <1>5, <2>1, LinkTypes DEF Pool
  <2>3. /\ Says("CLOSE OK", 0) \in LineType /\ Plain(Says("CLOSE OK", 0))
        /\ Says("Closed", 0) \in LineType /\ Plain(Says("Closed", 0))
    BY <1>3, <1>4, <2>2 DEF Says
  <2>4. \/ rx' = rx \o <<Says("CLOSE OK", 0)>>
        \/ rx' = rx \o <<Result("OK"), Says("Closed", 0)>>
        \/ rx' = rx \o <<Result("OK")>>
    BY <1>9, <2>2 DEF DeviceCloses, Answer
  <2> QED
    BY <1>2, <2>1, <2>2, <2>3, <2>4, StreamPlainLines
<1>10. ASSUME NEW l \in Link, DataArrives(l) PROVE StreamInv'
  <2> DEFINE b == l[1] = "CCH"
             c == [link[l] EXCEPT !.unread = b]
  <2>1. /\ link' = [link EXCEPT ![l] = c] /\ link[l].at = "open"
        /\ command' = command
    BY <1>10 DEF DataArrives, IsOpen
  <2>2. c.of = link[l].of /\ c.taken = link[l].taken /\ c.at # "idle"
    BY <1>1, <2>1 DEF LinkType
  <2>3. \/ rx' = rx \o <<Line("RecvEvent", l, 1)>>
        \/ rx' = rx \o <<Line("Data", l, 1)>>
    BY <1>10 DEF DataArrives, Answer
  <2>4. /\ Line("RecvEvent", l, 1) \in LineType
        /\ Plain(Line("RecvEvent", l, 1))
        /\ Line("Data", l, 1) \in LineType /\ Plain(Line("Data", l, 1))
    BY <1>3, <1>4
  <2> HIDE DEF c
  <2> QED
    BY <1>2, <2>1, <2>2, <2>3, <2>4, StreamPlainLines
<1>11. CASE DeviceHandsOver
  <2> DEFINE c == [link[At] EXCEPT !.unread = FALSE]
  <2>1. command.name = "Receive" /\ command' = NoCommand /\ link[At].at = "open"
    BY <1>11 DEF DeviceHandsOver, Busy, Done, IsOpen
  <2>2. At \in Link
    BY <1>5, <2>1
  <2>3. /\ Says("Data", 1) \in LineType /\ Plain(Says("Data", 1))
        /\ Says("EndOfReceive", 0) \in LineType
        /\ Plain(Says("EndOfReceive", 0))
        /\ Says("ReceiveFailed", 1) \in LineType
        /\ Plain(Says("ReceiveFailed", 1))
    BY <1>3, <1>4, <2>2 DEF Says
  <2>4. \/ /\ link' = [link EXCEPT ![At] = c]
           /\ rx' = rx \o <<Result("OK"), Says("Data", 1),
                            Says("EndOfReceive", 0)>>
        \/ /\ link' = [link EXCEPT ![At] = NoConnection]
           /\ rx' = rx \o <<Result("OK"), Says("ReceiveFailed", 1)>>
    BY <1>11 DEF DeviceHandsOver, Answer
  <2>5. c.of = link[At].of /\ c.taken = link[At].taken /\ c.at # "idle"
    BY <1>1, <2>1, <2>2 DEF LinkType
  <2> HIDE DEF c
  <2> QED
    BY <1>2, <2>1, <2>2, <2>3, <2>4, <2>5, StreamPlainLines
<1>12. CASE DeviceReportsUnread
  <2> DEFINE q == SetToSeq({l \in Link : link[l].unread})
             r == Append([i \in DOMAIN q |-> Line("Len", q[i], 1)],
                         Result("OK"))
  <2>1. /\ command.name = "Check" /\ command' = NoCommand /\ link' = link
        /\ rx' = rx \o r
    BY <1>12 DEF DeviceReportsUnread, Busy, Answer, Done
  <2>2. q \in Seq(Link)
    BY LinksListed
  <2> HIDE DEF q
  <2>3. ASSUME NEW i \in DOMAIN q
        PROVE  Line("Len", q[i], 1) \in LineType /\ Plain(Line("Len", q[i], 1))
    <3>1. q[i] \in Link
      BY <2>2
    <3>2. "Len" \in Quiet
      BY <1>4
    <3> QED
      BY <1>3, <3>1, <3>2
  <2>4. [i \in DOMAIN q |-> Line("Len", q[i], 1)] \in Seq(LineType)
    <3>1. \A i \in DOMAIN q : Line("Len", q[i], 1) \in LineType
      BY <2>3
    <3> QED
      BY <2>2, <3>1
  <2>5. r \in Seq(LineType) /\ \A i \in DOMAIN r : Plain(r[i])
    <3>1. \A i \in DOMAIN q : Plain(Line("Len", q[i], 1))
      BY <2>3
    <3> DEFINE p == [i \in DOMAIN q |-> Line("Len", q[i], 1)]
    <3>2. \A i \in DOMAIN p : Plain(p[i])
      BY <3>1
    <3>3. p \in Seq(LineType)
      BY <2>4
    <3> HIDE DEF p
    <3>4. /\ Append(p, Result("OK")) \in Seq(LineType)
          /\ \A i \in DOMAIN Append(p, Result("OK")) :
               \/ i \in DOMAIN p /\ Append(p, Result("OK"))[i] = p[i]
               \/ Append(p, Result("OK"))[i] = Result("OK")
      BY <1>2, <3>3
    <3>5. \A i \in DOMAIN Append(p, Result("OK")) :
            Plain(Append(p, Result("OK"))[i])
      BY <1>2, <3>2, <3>4
    <3> QED
      BY <3>4, <3>5 DEF p
  <2>6. At \in Link
    BY <1>5, <2>1
  <2>7. TakesNone /\ Vacant' /\ \A s \in Socket : Ahead(s, 0) => Ahead(s, 0)'
    BY <2>1, <2>6, LinkChanges
  <2> HIDE DEF r
  <2> QED
    BY <2>1, <2>5, <2>7, StreamPlain
<1> QED
  BY <1>6, <1>7, <1>8, <1>9, <1>10, <1>11, <1>12, StreamOpen, StreamSent,
     StreamAcknowledges DEF Device

-----------------------------------------------------------------------------
(* The invariant *)

\* Nothing has been sent at first.
LEMMA InitStream == Init => StreamInv
<1> SUFFICES ASSUME Init PROVE StreamInv
  OBVIOUS
<1>1. Vacant /\ \A s \in Socket : Ahead(s, 0)
  BY SimComAssumption DEF Init, Vacant, Ahead, NoConnection
<1>2. Given /\ Told /\ Acked /\ Heard
  BY DEF Init, Given, Told, Acked, Acknowledged, Heard, NoCommand
<1>3. Counted /\ OpenHeld /\ Begun
  BY <1>1, OtherUpdates DEF Init, Counted, OpenHeld, Begun, NoCommand
<1> QED
  BY <1>1, <1>2, <1>3 DEF StreamInv

\* No step leaves the invariant.
LEMMA StreamStep == Inv /\ Inv' /\ StreamInv /\ [Next]_vars => StreamInv'
<1> SUFFICES ASSUME Inv, Inv', StreamInv, [Next]_vars PROVE StreamInv'
  OBVIOUS
<1>1. CASE UNCHANGED vars
  <2>1. /\ model' = model /\ listed' = listed /\ flags' = flags
        /\ channel' = channel /\ outgoing' = outgoing /\ phase' = phase
        /\ pc' = pc /\ cur' = cur /\ need' = need /\ result' = result
        /\ failed' = failed /\ rx' = rx /\ command' = command /\ Still
    BY <1>1
    DEF vars, driverVars, deviceVars, taskVars, atVars, socketVars, sendVars,
        Still
  <2>2. CalmStep
    BY <2>1, CalmSame
  <2>3. OpenHeld'
    BY <2>1, <2>2, CalmHeld DEF StreamInv
  <2> QED
    BY <2>1, <2>2, <2>3, CalmSeal, StreamQuiet
<1>2. CASE Task
  BY <1>2, StreamCalls, StreamReturns, StreamSends, StreamDestroys
  DEF Task
<1> QED
  BY <1>1, <1>2, StreamApp, StreamRx, StreamDevice DEF Next

\* The counts of the driver and of the modem agree unless a send has failed,
\* whatever the order of sends, answers, failures and closes.
THEOREM CountsAgree == Spec => [](Inv /\ StreamInv)
BY InitInv, InitStream, InvStep, StreamStep, PTL DEF Spec

\* No byte is lost or sent twice: the reader of the transmit pipe is where the
\* modem's count is, between sends unless the last one has failed, and whenever
\* a packet is given to the modem (SendPacketImpl, ReceiveAck).
THEOREM StreamsAreIntact == Spec => []StreamIntact
<1>1. ASSUME Inv, StreamInv PROVE StreamIntact
  <2>1. ASSUME NEW s \in Socket, Ahead(s, 0) PROVE InStep(s)
    <3>1. IsAllocated(flags[s]) => LinkOf(s) \in Link
      BY <1>1 DEF Inv, FlagInv
    <3>2. position[s] \in Nat
      BY <1>1 DEF Inv, Typed, TypeOK
    <3> QED
      BY <2>1, <3>1, <3>2 DEF Ahead, InStep
  <2>2. ASSUME NEW s \in listed, ~failed, ~error[s], cur # s
        PROVE  InStep(s)
    BY <1>1, <2>1, <2>2 DEF StreamInv, Counted, Inv, Typed, TypeOK
  <2>3. command.name = "Send" => InStep(command.of)
    BY <1>1, <2>1 DEF StreamInv, Given
  <2> QED
    BY <2>2, <2>3 DEF StreamIntact
<1> QED
  BY <1>1, CountsAgree, PTL

\* The assertion of the send response handler holds: what the modem accepts is
\* the packet that is marked as outgoing, and the socket of the line is found.
THEOREM AcceptedPackets == Spec => []AcceptedIsOutgoing
<1>1. ASSUME Inv, StreamInv PROVE AcceptedIsOutgoing
  <2>1. ASSUME Sends, rx # <<>>, Head(rx).text = "DATA ACCEPT"
        PROVE  Found # NULL /\ Head(rx).value = outgoing[Found]
    <3>1. /\ pc = "SendPacketImpl" /\ ~failed
          /\ 1 \in DOMAIN rx /\ Head(rx) = rx[1]
      BY <1>1, <2>1, LineRead DEF Sends, Inv, FrameInv, Typed
    <3>2. Head(rx).of = cur /\ Head(rx).value = outgoing[cur]
      BY <1>1, <2>1, <3>1 DEF StreamInv, Told, Tells, SendResponse
    <3>3. /\ cur \in Socket /\ IsAllocated(flags[cur]) /\ IsSecure(cur)
      BY <1>1, <3>1 DEF Inv, FrameInv, Typed, TypeOK, StreamInv, Begun
    <3>4. channel[cur] = Head(rx).ch
      BY <1>1, <2>1, <3>1, <3>2 DEF Inv, UseInv, Said, Good, Events
    <3>5. Found = cur
      BY <1>1, <3>3, <3>4, SecureFound DEF Found, Inv
    <3> QED
      BY <3>2, <3>3, <3>5, SimComAssumption
  <2> QED
    BY <2>1 DEF AcceptedIsOutgoing
<1> QED
  BY <1>1, CountsAgree, PTL

-----------------------------------------------------------------------------
(* What there is to send *)

\* A packet is under way, or was when the socket was closed.
Owed(f) == IsSending(f) \/ IsClosed(f)

\* Not before what the reader has left behind nor after what is written.
Within(s, v) == position[s] <= v /\ v <= written[s]

\* The packet under way, what the modem has taken, what it is still to take and
\* what a +CIPACK says it has taken.
Measure(s) ==
  /\ position[s] + outgoing[s] <= written[s]
  /\ outgoing[s] # 0 => Owed(flags[s])
  /\ \A l \in Link : link[l].of = s => Within(s, link[l].taken)
  /\ command.name = "Send" /\ command.of = s =>
       position[s] + command.len <= written[s]
  /\ pc = "SendAck" /\ cur = s =>
       /\ outgoing[s] = 0
       /\ ~failed => \A i \in DOMAIN rx :
            rx[i].text = "+CIPACK" => Within(s, rx[i].value)

Measured == \A s \in Socket : Measure(s)

Forward ==
  \A s \in Socket : s \in listed /\ s \in listed' => position[s] <= position'[s]

\* Every packet stays owed until it is given up.
OwedStep ==
  \A s \in Socket :
    \/ outgoing'[s] = 0
    \/ outgoing'[s] = outgoing[s] /\ (Owed(flags[s]) => Owed(flags'[s]))

LEMMA OwedUpdates ==
  ASSUME NEW f, Owed(f)
  PROVE  /\ Owed(Allocate(f)) /\ Owed(Bound(f)) /\ Owed(Connected(f))
         /\ Owed(Incoming(f)) /\ Owed(MaybeIncoming(f))
         /\ Owed(IncomingRequested(f)) /\ Owed(Sending(f))
         /\ Owed(Finished(f)) /\ Owed(Released(f)) /\ Owed(CloseRequested(f))
         /\ Owed(f \cup {"ModemConnecting"}) /\ Owed(f \cup {"ModemClosing"})
BY DEF Owed, IsSending, IsClosed, Allocate, Bound, Connected, Incoming,
       MaybeIncoming, IncomingRequested, Sending, Finished, Released,
       CloseRequested

LEMMA OwedWord ==
  ASSUME Typed, outgoing' = outgoing, NEW s \in Socket, NEW f,
         Owed(flags[s]) => Owed(f), flags' = [flags EXCEPT ![s] = f]
  PROVE  OwedStep
<1>1. \A o \in Socket : flags'[o] = IF o = s THEN f ELSE flags[o]
  BY DEF Typed, TypeOK
<1> QED
  BY <1>1 DEF OwedStep

\* A socket whose reader stays where it is.
LEMMA MeasureStill ==
  ASSUME Inv, Inv', NEW s \in Socket, Measure(s),
         position'[s] = position[s], written[s] <= written'[s],
         \/ outgoing'[s] = 0
         \/ outgoing'[s] = outgoing[s] /\ (Owed(flags[s]) => Owed(flags'[s])),
         \A l \in Link : link'[l].of = s =>
           link[l].of = s /\ link'[l].taken = link[l].taken,
         command'.name = "Send" /\ command'.of = s => command' = command,
         pc' = "SendAck" /\ cur' = s =>
           /\ outgoing'[s] = 0
           /\ ~failed' => \A i \in DOMAIN rx' :
                rx'[i].text = "+CIPACK" => Within(s, rx'[i].value)
  PROVE  Measure(s)'
<1>1. /\ position[s] \in Nat /\ outgoing[s] \in Nat /\ written[s] \in Nat
      /\ written'[s] \in Nat /\ Link' = Link
      /\ \A l \in Link : link[l].taken \in Nat
      /\ command.len \in Nat
      /\ \A i \in DOMAIN rx' : rx'[i].value \in Nat
  <2>1. /\ position[s] \in Nat /\ outgoing[s] \in Nat /\ written[s] \in Nat
        /\ written'[s] \in Nat /\ Link' = Link
    BY DEF Inv, Typed, TypeOK, Link, Capacity
  <2>2. (\A l \in Link : link[l].taken \in Nat) /\ command.len \in Nat
    BY DEF Inv, Typed, LinkType, CommandType
  <2>3. rx' \in Seq(LineType)
    BY DEF Inv, Typed, LineType
  <2>4. \A i \in DOMAIN rx' : rx'[i] \in LineType
    BY <2>3
  <2>5. \A e \in LineType : e.value \in Nat
    BY DEF LineType
  <2> QED
    BY <2>1, <2>2, <2>4, <2>5
<1>2. \A v \in Nat : Within(s, v) => Within(s, v)'
  BY <1>1 DEF Within
<1>3. position'[s] + outgoing'[s] <= written'[s]
  BY <1>1 DEF Measure
<1>4. outgoing'[s] # 0 => Owed(flags[s])'
  BY DEF Measure, Owed
<1>5. \A l \in Link' : link'[l].of = s => Within(s, link[l].taken)'
  BY <1>1, <1>2 DEF Measure, Within
<1>6. command'.name = "Send" /\ command'.of = s =>
        position'[s] + command'.len <= written'[s]
  BY <1>1 DEF Measure
<1>7. ASSUME pc' = "SendAck", cur' = s, ~failed', NEW i \in DOMAIN rx',
             rx'[i].text = "+CIPACK"
      PROVE  Within(s, rx[i].value)'
  BY <1>1, <1>2, <1>7 DEF Within
<1> QED
  BY <1>3, <1>4, <1>5, <1>6, <1>7 DEF Measure

\* A socket that is new, or gone.
LEMMA MeasureFresh ==
  ASSUME Inv', NEW s \in Socket, position'[s] = 0, outgoing'[s] = 0,
         \A l \in Link : link'[l].of # s,
         ~(command'.name = "Send" /\ command'.of = s),
         ~(pc' = "SendAck" /\ cur' = s)
  PROVE  Measure(s)'
<1>1. written'[s] \in Nat /\ Link' = Link
  BY DEF Inv, Typed, TypeOK, Link, Capacity
<1> QED
  BY <1>1 DEF Measure

\* Steps in which no reader moves and nothing is sent.
LEMMA MeasuredStill ==
  ASSUME Inv, Inv', Measured, OwedStep, position' = position, link' = link,
         \A s \in Socket : written[s] <= written'[s],
         command' = command \/ command'.name # "Send",
         \/ pc' # "SendAck"
         \/ /\ pc' = pc /\ cur' = cur /\ (failed => failed')
            /\ rx' = rx \/ (rx # <<>> /\ rx' = Tail(rx))
  PROVE  Measured' /\ Forward
<1>1. ASSUME NEW s \in Socket PROVE Measure(s)'
  <2>1. ASSUME pc' = "SendAck", cur' = s
        PROVE  /\ outgoing'[s] = 0
               /\ ~failed' => \A i \in DOMAIN rx' :
                    rx'[i].text = "+CIPACK" => Within(s, rx'[i].value)
    <3>1. /\ outgoing[s] = 0
          /\ ~failed => \A i \in DOMAIN rx :
               rx[i].text = "+CIPACK" => Within(s, rx[i].value)
      BY <2>1 DEF Measured, Measure
    <3>2. \A i \in DOMAIN rx' : \E j \in DOMAIN rx : rx'[i] = rx[j]
      <4>1. rx \in Seq(LineType)
        BY DEF Inv, Typed
      <4> QED
        BY <2>1, <4>1, LineRead
    <3> QED
      BY <2>1, <3>1, <3>2 DEF OwedStep
  <2> QED
    BY <2>1, MeasureStill DEF Measured, OwedStep
<1>2. Forward
  BY DEF Forward, Inv, Typed, TypeOK
<1> QED
  BY <1>1, <1>2 DEF Measured

\* The steps of the application and of the task that send nothing.
LEMMA MeasuredQuiet ==
  ASSUME Inv, Inv', Measured,
         \/ \E s \in Socket :
              \/ ReleaseSocket(s) \/ Disconnect(s) \/ WriteOutput(s)
              \/ TryAllocateImpl(s) \/ CloseImpl(s) \/ ConnectImpl(s)
              \/ ReceivePacketImpl(s) \/ CheckIncomingImpl(s)
              \/ SendPacketImpl(s) /\ failed
         \/ SecurityReturns \/ ConnectReturns \/ SendReturns \/ CallReturns
         \/ AckReturns /\ ~(result = "OK" /\ Available(cur) > 0)
         \/ CommandTimesOut \/ NextPass
  PROVE  Measured' /\ Forward
<1>1. /\ Typed /\ \A s \in Socket : written[s] \in Nat
      /\ \A s \in Socket : position[s] \in Nat
      /\ pc # "Idle" => cur \in Socket
  BY DEF Inv, FrameInv, Typed, TypeOK
<1>2. ASSUME OwedStep, position' = position, written' = written, link' = link,
             command' = command \/ command'.name # "Send",
             \/ pc' # "SendAck"
             \/ pc' = pc /\ cur' = cur /\ (failed => failed') /\ rx' = rx
      PROVE  Measured' /\ Forward
  BY <1>1, <1>2, MeasuredStill
<1>3. ASSUME NEW s, NEW name, NEW len, NEW mask, NEW step,
             Execute(s, name, len, mask, step), name # "Send",
             step # "SendAck", OwedStep, position' = position,
             written' = written
      PROVE  Measured' /\ Forward
  <2>1. link' = link /\ command'.name # "Send" /\ pc' # "SendAck"
    BY <1>3 DEF Execute, NoCommand
  <2> QED
    BY <1>2, <1>3, <2>1
<1>4. flags' = flags /\ outgoing' = outgoing => OwedStep
  BY DEF OwedStep
<1>5. ASSUME NEW s \in Socket, ReleaseSocket(s) \/ Disconnect(s)
      PROVE  Measured' /\ Forward
  BY <1>1, <1>2, <1>5, OwedWord, OwedUpdates
  DEF ReleaseSocket, Disconnect, sendVars, taskVars, atVars, deviceVars
<1>6. ASSUME NEW s \in Socket, WriteOutput(s) PROVE Measured' /\ Forward
  <2>1. /\ position' = position /\ link' = link /\ command' = command
        /\ pc' = pc /\ cur' = cur /\ failed' = failed /\ rx' = rx
        /\ flags' = flags /\ outgoing' = outgoing
    BY <1>6 DEF WriteOutput, taskVars, atVars, deviceVars
  <2>2. \A o \in Socket : written[o] <= written'[o]
    <3>1. PICK n \in (written[s] + 1)..MaxWritten :
            written' = [written EXCEPT ![s] = n]
      BY <1>6 DEF WriteOutput
    <3>2. written \in [Socket -> Nat]
      BY <1>1 DEF Typed, TypeOK
    <3>3. written[s] <= n
      BY <1>1, <3>1, SimComAssumption
    <3> QED
      BY <1>1, <3>1, <3>2, <3>3
  <2> QED
    BY <1>4, <2>1, <2>2, MeasuredStill
<1>7. ASSUME NEW s \in Socket, TryAllocateImpl(s) PROVE Measured' /\ Forward
  BY <1>1, <1>2, <1>7, OwedWord, OwedUpdates
  DEF TryAllocateImpl, sendVars, taskVars, atVars, deviceVars
<1>8. ASSUME NEW s \in Socket, CloseImpl(s) PROVE Measured' /\ Forward
  <2>1. OwedStep
    BY <1>1, <1>8, OwedWord, OwedUpdates DEF CloseImpl, sendVars
  <2> QED
    BY <1>3, <1>8, <2>1 DEF CloseImpl, sendVars
<1>9. ASSUME NEW s \in Socket, ConnectImpl(s) PROVE Measured' /\ Forward
  <2>1. OwedStep
    BY <1>1, <1>9, OwedWord, OwedUpdates DEF ConnectImpl, sendVars
  <2>2. \/ Execute(s, "CIPSSL", 0, {1}, "ConnectSecurity")
        \/ Execute(s, "Open", 0, {1}, "ConnectImpl")
    BY <1>9 DEF ConnectImpl
  <2> QED
    BY <1>3, <1>9, <2>1, <2>2 DEF ConnectImpl, sendVars
<1>10. ASSUME NEW s \in Socket, NEW name \in {"Receive", "Check"},
              RequestIncoming(s, name)
       PROVE  Measured' /\ Forward
  <2>1. OwedStep
    BY <1>1, <1>10, OwedWord, OwedUpdates DEF RequestIncoming, sendVars
  <2> QED
    BY <1>3, <1>10, <2>1 DEF RequestIncoming, sendVars
<1>11. ASSUME NEW s \in Socket, SendPacketImpl(s), failed
       PROVE  Measured' /\ Forward
  BY <1>2, <1>4, <1>11 DEF SendPacketImpl, deviceVars
<1>12. CASE SecurityReturns
  <2>1. /\ flags' = flags /\ outgoing' = outgoing /\ position' = position
        /\ written' = written
    BY <1>12 DEF SecurityReturns, socketVars, sendVars
  <2>2. \/ Execute(cur, "Open", 0, {1}, "ConnectImpl")
        \/ Return /\ UNCHANGED <<atVars, deviceVars>>
    BY <1>12 DEF SecurityReturns
  <2>3. CASE Execute(cur, "Open", 0, {1}, "ConnectImpl")
    BY <1>3, <1>4, <2>1, <2>3
  <2>4. CASE Return /\ UNCHANGED <<atVars, deviceVars>>
    BY <1>2, <1>4, <2>1, <2>4 DEF Return, deviceVars
  <2> QED
    BY <2>2, <2>3, <2>4
<1>13. CASE ConnectReturns
  <2>1. cur \in Socket
    BY <1>1, <1>13 DEF ConnectReturns, Awaiting
  <2>2. OwedStep
    BY <1>1, <1>13, <2>1, OwedWord, OwedUpdates DEF ConnectReturns, sendVars
  <2> QED
    BY <1>2, <1>13, <2>2 DEF ConnectReturns, Return, sendVars, deviceVars
<1>14. CASE SendReturns
  <2>1. OwedStep
    <3>1. /\ flags \in [Socket -> SUBSET SocketFlag]
          /\ outgoing \in [Socket -> Nat] /\ cur \in Socket
      BY <1>1, <1>14 DEF SendReturns, Awaiting, Typed, TypeOK
    <3>2. CASE IsSending(flags[cur])
      <4>1. \A o \in Socket :
              /\ flags'[o] = IF o = cur THEN SendingFinished(flags[o])
                             ELSE flags[o]
              /\ outgoing'[o] = IF o = cur THEN 0 ELSE outgoing[o]
        BY <1>14, <3>1, <3>2 DEF SendReturns
      <4> QED
        BY <4>1 DEF OwedStep
    <3>3. CASE ~IsSending(flags[cur])
      BY <1>4, <1>14, <3>3 DEF SendReturns
    <3> QED
      BY <3>2, <3>3
  <2> QED
    BY <1>2, <1>14, <2>1 DEF SendReturns, Return, deviceVars
<1>15. CASE CallReturns
  BY <1>2, <1>4, <1>15
  DEF CallReturns, Return, socketVars, sendVars, deviceVars
<1>16. CASE AckReturns /\ ~(result = "OK" /\ Available(cur) > 0)
  BY <1>2, <1>4, <1>16 DEF AckReturns, Return, deviceVars
<1>17. CASE CommandTimesOut
  BY <1>2, <1>4, <1>17
  DEF CommandTimesOut, socketVars, sendVars, taskVars, deviceVars
<1>18. CASE NextPass
  BY <1>2, <1>4, <1>18
  DEF NextPass, socketVars, sendVars, atVars, deviceVars
<1> QED
  BY <1>5, <1>6, <1>7, <1>8, <1>9, <1>10, <1>11, <1>12, <1>13, <1>14, <1>15,
     <1>16, <1>17, <1>18
  DEF ReceivePacketImpl, CheckIncomingImpl

\* A new socket has sent nothing.
LEMMA MeasuredCreate ==
  ASSUME Inv, Inv', StreamInv, Measured, NEW s \in Socket, NEW tls,
         CreateSocket(s, tls)
  PROVE  Measured' /\ Forward
<1>1. /\ s \notin listed /\ ~IsAllocated(flags[s])
      /\ flags' = [flags EXCEPT ![s] = NewSocket(tls)]
      /\ outgoing' = [outgoing EXCEPT ![s] = 0]
      /\ position' = [position EXCEPT ![s] = 0]
      /\ written' = [written EXCEPT ![s] = 0]
      /\ link' = link /\ rx' = rx /\ command' = command
      /\ failed' = failed /\ pc' = pc /\ cur' = cur
  BY CreatedFlags DEF CreateSocket, taskVars, atVars, deviceVars, Inv
<1>2. /\ flags \in [Socket -> SUBSET SocketFlag]
      /\ outgoing \in [Socket -> Nat] /\ position \in [Socket -> Nat]
      /\ written \in [Socket -> Nat]
  BY DEF Inv, Typed, TypeOK
<1>3. Measure(s)'
  <2>1. \A l \in Link : link'[l].of # s
    BY <1>1, SimComAssumption DEF Inv, UseInv, ConnectionOwned, StreamInv, Vacant
  <2>2. ~(command'.name = "Send" /\ command'.of = s)
    BY <1>1 DEF StreamInv, Given
  <2>3. ~(pc' = "SendAck" /\ cur' = s)
    BY <1>1 DEF Inv, FrameInv
  <2> QED
    BY <1>1, <1>2, <2>1, <2>2, <2>3, MeasureFresh
<1>4. ASSUME NEW o \in Socket, o # s PROVE Measure(o)'
  <2>1. /\ flags'[o] = flags[o] /\ outgoing'[o] = outgoing[o]
        /\ position'[o] = position[o] /\ written'[o] = written[o]
        /\ written[o] \in Nat
    BY <1>1, <1>2, <1>4
  <2>2. Measure(o)
    BY DEF Measured
  <2>3. pc' = "SendAck" /\ cur' = o =>
          /\ outgoing'[o] = 0
          /\ ~failed' => \A i \in DOMAIN rx' :
               rx'[i].text = "+CIPACK" => Within(o, rx'[i].value)
    BY <1>1, <2>1, <2>2 DEF Measure
  <2> QED
    BY <1>1, <2>1, <2>2, <2>3, MeasureStill
<1>5. Forward
  BY <1>1, <1>2 DEF Forward
<1> QED
  BY <1>3, <1>4, <1>5 DEF Measured

\* Those that are destroyed have nothing left to send.
LEMMA MeasuredDestroys ==
  ASSUME Inv, Inv', StreamInv, StreamInv', Measured,
         RemoveSockets \/ PowerCycle
  PROVE  Measured' /\ Forward
<1>1. pc = "Idle" /\ pc' = "Idle" /\ Link' = Link
  BY DEF RemoveSockets, PowerCycle, Ready, Link, Capacity
<1>2. PICK kept :
        /\ listed' \subseteq listed
        /\ \A s \in Socket \ kept : s \notin listed'
        /\ \A s \in kept :
             /\ Owed(flags[s]) => Owed(flags'[s])
             /\ outgoing'[s] = outgoing[s] /\ written'[s] = written[s]
             /\ position'[s] = position[s]
        /\ \A s \in Socket \ kept :
             outgoing'[s] = 0 /\ written'[s] = 0 /\ position'[s] = 0
  <2>1. CASE RemoveSockets
    <3>1. PICK kept : kept = {s \in listed : ~CanDelete(flags[s])}
      OBVIOUS
    <3>2. /\ listed' = kept /\ kept \subseteq listed /\ listed \subseteq Socket
          /\ \A s \in Socket :
               /\ flags'[s] = IF s \in kept THEN flags[s] ELSE {}
               /\ outgoing'[s] = IF s \in kept THEN outgoing[s] ELSE 0
               /\ written'[s] = IF s \in kept THEN written[s] ELSE 0
               /\ position'[s] = IF s \in kept THEN position[s] ELSE 0
      BY <2>1, <3>1 DEF RemoveSockets, Inv, Typed, TypeOK
    <3> QED
      BY <3>2
  <2>2. CASE PowerCycle
    <3>1. /\ listed' = listed /\ outgoing' = outgoing /\ written' = written
          /\ position' = position /\ listed \subseteq Socket
          /\ \A s \in Socket : flags'[s] \in {flags[s], Finished(flags[s])}
      BY <2>2 DEF PowerCycle, sendVars, Inv, Typed, TypeOK
    <3>2. \A s \in Socket : Owed(flags[s]) => Owed(Finished(flags[s]))
      BY OwedUpdates
    <3>3. \A s \in Socket : Owed(flags[s]) => Owed(flags'[s])
      BY <3>1, <3>2
    <3> QED
      BY <3>1, <3>3
  <2> QED
    BY <2>1, <2>2
<1>4. \/ link' = link
      \/ \A l \in Link : link'[l].of = NULL
  <2>1. CASE RemoveSockets
    BY <2>1 DEF RemoveSockets, deviceVars
  <2>2. CASE PowerCycle
    BY <2>2 DEF PowerCycle, NoConnection
  <2> QED
    BY <2>1, <2>2
<1>5. command'.name # "Send"
  <2>1. CASE RemoveSockets
    BY <1>1, <2>1
    DEF RemoveSockets, Ready, deviceVars, StreamInv, Given, Step
  <2>2. CASE PowerCycle
    BY <2>2 DEF PowerCycle, NoCommand
  <2> QED
    BY <2>1, <2>2
<1>6. ASSUME NEW s \in Socket PROVE Measure(s)'
  <2>1. CASE s \in kept
    <3>1. Measure(s) /\ written[s] \in Nat
      BY DEF Measured, Inv, Typed, TypeOK
    <3>2. \A l \in Link : link'[l].of = s =>
            link[l].of = s /\ link'[l].taken = link[l].taken
      BY <1>4, SimComAssumption
    <3>3. /\ outgoing'[s] = outgoing[s] /\ written'[s] = written[s]
          /\ position'[s] = position[s] /\ (Owed(flags[s]) => Owed(flags'[s]))
      BY <1>2, <2>1
    <3> QED
      BY <1>1, <1>5, <3>1, <3>2, <3>3, MeasureStill
  <2>2. CASE s \notin kept
    <3>1. \A l \in Link : link'[l].at # "idle" => link'[l].of # s
      BY <1>1, <1>2, <2>2 DEF Inv, UseInv, ConnectionOwned
    <3>2. \A l \in Link : link'[l].of # s
      BY <1>1, <2>2, <3>1, SimComAssumption DEF StreamInv, Vacant
    <3> QED
      BY <1>1, <1>2, <1>5, <2>2, <3>2, MeasureFresh
  <2> QED
    BY <2>1, <2>2
<1>7. Forward
  BY <1>2 DEF Forward, Inv, Typed, TypeOK
<1> QED
  BY <1>6, <1>7 DEF Measured

\* A packet is no longer than what is there to send, and given when the last
\* one is over.
LEMMA MeasuredSends ==
  ASSUME Inv, Inv', StreamInv, Measured,
         \/ \E s \in Socket : SendPacketImpl(s) /\ ~failed
         \/ AckReturns /\ result = "OK" /\ Available(cur) > 0
  PROVE  Measured' /\ Forward
<1>1. ASSUME NEW s \in Socket, Send(s), ~failed,
             position' = position, written' = written
      PROVE  Measured'
  <2>1. /\ pc' = "SendPacketImpl" /\ link' = link
        /\ outgoing' = [outgoing EXCEPT ![s] = PacketLength(s)]
        /\ flags' = [flags EXCEPT ![s] = Sending(@)]
        /\ command'.name = "Send" /\ command'.of = s
        /\ command'.len = PacketLength(s)
    BY <1>1 DEF Send, Execute
  <2>2. /\ position[s] \in Nat /\ written[s] \in Nat /\ Link' = Link
        /\ outgoing \in [Socket -> Nat]
        /\ flags \in [Socket -> SUBSET SocketFlag]
        /\ \A o \in Socket : written[o] \in Nat
        /\ outgoing[s] \in Nat
    BY DEF Inv, Typed, TypeOK, Link, Capacity
  <2>3. position[s] + outgoing[s] <= written[s]
    BY DEF Measured, Measure
  <2>4. position[s] + PacketLength(s) <= written[s]
    BY <2>2, <2>3, SimComAssumption DEF PacketLength, Available
  <2>5. Measure(s)'
    <3>1. /\ outgoing'[s] = PacketLength(s) /\ Owed(flags'[s])
      BY <2>1, <2>2 DEF Owed, IsSending, Sending
    <3>2. \A l \in Link : link[l].of = s => Within(s, link[l].taken)
      BY DEF Measured, Measure
    <3> QED
      BY <1>1, <2>1, <2>2, <2>4, <3>1, <3>2 DEF Measure, Within, Owed
  <2>6. ASSUME NEW o \in Socket, o # s PROVE Measure(o)'
    <3>1. /\ flags'[o] = flags[o] /\ outgoing'[o] = outgoing[o]
          /\ Measure(o) /\ written[o] <= written[o]
      BY <2>1, <2>2, <2>6 DEF Measured
    <3> QED
      BY <1>1, <2>1, <2>6, <3>1, MeasureStill
  <2> QED
    BY <2>5, <2>6 DEF Measured
<1>2. ASSUME NEW s \in Socket, SendPacketImpl(s), ~failed PROVE Measured'
  <2>1. CASE NeedsAck(s)
    <3>1. /\ Execute(s, "CIPACK", 0, {1, 2}, "SendAck")
          /\ position' = position /\ written' = written
          /\ outgoing' = outgoing /\ flags' = flags
      BY <1>2, <2>1 DEF SendPacketImpl
    <3>2. /\ link' = link /\ command'.name # "Send" /\ cur' = s /\ rx' = rx
      BY <1>2, <3>1 DEF Execute
    <3>3. outgoing[s] = 0
      BY <1>2
      DEF SendPacketImpl, DataToSend, CanSend, IsConnected, Measured, Measure,
          Owed, IsSending, IsClosed
    <3>4. \A i \in DOMAIN rx' : rx'[i].text # "+CIPACK"
      <4>1. result # "Pending"
        BY <1>2 DEF SendPacketImpl, Ready, Inv, FrameInv
      <4> QED
        BY <1>2, <3>2, <4>1, Settled, ResponsesAnswer DEF Inv, Unanswered
    <3>5. ASSUME NEW o \in Socket PROVE Measure(o)'
      <4>1. Measure(o) /\ written[o] <= written[o]
        BY DEF Measured, Inv, Typed, TypeOK
      <4> QED
        BY <3>1, <3>2, <3>3, <3>4, <4>1, MeasureStill
    <3> QED
      BY <3>5 DEF Measured
  <2>2. CASE ~NeedsAck(s)
    BY <1>1, <1>2, <2>2 DEF SendPacketImpl
  <2> QED
    BY <2>1, <2>2
<1>3. ASSUME AckReturns, result = "OK", Available(cur) > 0
      PROVE  Measured'
  <2>1. cur \in Socket /\ ~failed
    BY <1>3 DEF AckReturns, Awaiting, Inv, FrameInv, Typed, TypeOK
  <2>2. PICK s \in Socket : s = cur
    BY <2>1
  <2>3. Send(s)
    BY <1>3, <2>2 DEF AckReturns, Send, Execute, PacketLength, Available, LinkOf,
                      PoolOf, IsSecure
  <2>4. position' = position /\ written' = written
    BY <1>3 DEF AckReturns
  <2> QED
    BY <1>1, <2>1, <2>2, <2>3, <2>4
<1>4. Forward
  BY DEF SendPacketImpl, AckReturns, Forward, Inv, Typed, TypeOK
<1> QED
  BY <1>2, <1>3, <1>4

\* The lines that are not about what has been sent.
LEMMA MeasuredRead ==
  ASSUME Inv, Inv', Measured,
         \/ OnOK \/ OnError \/ OnOpened \/ OnDisconnected \/ OnCloseOk
         \/ OnMaybeIncoming \/ OnIncoming
         \/ OnSendResponse /\ ~Sends
         \/ OnReceiveAck /\ ~(pc = "SendAck" /\ result = "Pending")
  PROVE  Measured' /\ Forward
<1>1. /\ RxTask /\ Typed /\ \A s \in Socket : written[s] \in Nat
      /\ Found # NULL => Found \in Socket
  BY FoundSocket DEF RxTask, Found, Inv, Typed, TypeOK
<1>2. /\ pc' = pc /\ cur' = cur /\ failed' = failed /\ command' = command
      /\ link' = link /\ rx # <<>> /\ rx' = Tail(rx)
  BY <1>1, ReadStep
<1>3. position' = position /\ written' = written /\ outgoing' = outgoing
  BY DEF OnOK, OnError, OnOpened, OnDisconnected, OnCloseOk, OnMaybeIncoming,
         OnIncoming, OnSendResponse, OnReceiveAck, Update, socketVars, sendVars
<1>4. \/ flags' = flags
      \/ /\ Found \in Socket
         /\ \/ flags' = [flags EXCEPT ![Found] = Connected(@)]
            \/ flags' = [flags EXCEPT ![Found] = Finished(@)]
            \/ flags' = [flags EXCEPT ![Found] = MaybeIncoming(@)]
            \/ flags' = [flags EXCEPT ![Found] = Incoming(@)]
  <2>1. CASE OnOK \/ OnError \/ OnReceiveAck \/ (OnSendResponse /\ ~Sends)
    BY <2>1 DEF OnOK, OnError, OnReceiveAck, OnSendResponse, socketVars
  <2>2. CASE OnOpened \/ OnDisconnected \/ OnCloseOk
    BY <1>1, <2>2 DEF OnOpened, OnDisconnected, OnCloseOk, Update
  <2>3. CASE OnMaybeIncoming \/ OnIncoming
    BY <1>1, <2>3 DEF OnMaybeIncoming, OnIncoming, Update
  <2> QED
    BY <2>1, <2>2, <2>3
<1>5. OwedStep
  <2>1. flags' = flags => OwedStep
    BY <1>3 DEF OwedStep
  <2> QED
    BY <1>1, <1>3, <1>4, <2>1, OwedWord, OwedUpdates
<1>6. \A s \in Socket : written[s] <= written'[s]
  BY <1>1, <1>3
<1> QED
  BY <1>2, <1>3, <1>5, <1>6, MeasuredStill

\* Where the answer to a send is awaited it is the only one, and nothing else
\* has been asked.
LEMMA AnsweredOnce ==
  ASSUME Inv, RxTask, ~failed, result = "Pending",
         Head(rx).text \in SendResponse \cup {"+CIPACK"}
  PROVE  /\ command = NoCommand
         /\ \A i \in DOMAIN rx' :
              rx'[i].text \notin SendResponse \cup {"+CIPACK"}
<1>1. rx # <<>> /\ rx' = Tail(rx)
  BY ReadStep
<1>2. Head(rx).text \in Answers \ {"ERROR"} /\ Bit(Head(rx).text) = 2
  BY ResponsesAnswer
<1>3. /\ rx \in Seq(LineType) /\ Head(rx) = rx[1] /\ 1 \in DOMAIN rx
      /\ \A i \in DOMAIN rx' : rx'[i] = rx[i + 1] /\ i + 1 \in DOMAIN rx
                               /\ i + 1 # 1
  BY <1>1 DEF Inv, Typed
<1>4. command = NoCommand
  BY <1>2, <1>3 DEF Inv, Talk, Typed, Unanswered
<1>5. Fits(rx, need)
  BY DEF Inv, Talk
<1>6. \A i \in DOMAIN rx' : rx'[i].text \notin SendResponse \cup {"+CIPACK"}
  BY <1>2, <1>3, <1>5, ResponsesAnswer DEF Fits
<1> QED
  BY <1>4, <1>6

\* The answer to a send, and the count after a failed one.
LEMMA MeasuredAnswer ==
  ASSUME Inv, Inv', StreamInv, Measured,
         \/ OnSendResponse /\ Sends
         \/ OnReceiveAck /\ pc = "SendAck" /\ result = "Pending"
  PROVE  Measured' /\ Forward
<1>1. RxTask
  BY DEF RxTask
<1>2. /\ pc' = pc /\ cur' = cur /\ failed' = failed /\ command' = command
      /\ link' = link /\ listed' = listed
  BY <1>1, ReadStep
<1>3. /\ cur \in Socket /\ result = "Pending" /\ ~failed
      /\ Head(rx).text \in SendResponse \cup {"+CIPACK"}
  BY DEF OnSendResponse, OnReceiveAck, Reads, SendResponse, Sends, Inv,
         FrameInv, Typed, TypeOK
<1>4. /\ command.name # "Send"
      /\ \A i \in DOMAIN rx' : rx'[i].text # "+CIPACK"
  BY <1>1, <1>3, AnsweredOnce DEF NoCommand
<1>5. /\ position \in [Socket -> Nat] /\ outgoing \in [Socket -> Nat]
      /\ flags \in [Socket -> SUBSET SocketFlag]
      /\ \A s \in Socket : written[s] \in Nat
      /\ \A l \in Link : link[l].taken \in Nat
      /\ Link' = Link
  BY DEF Inv, Typed, TypeOK, LinkType, Link, Capacity
<1>6. PICK n \in Nat :
        /\ position' = [position EXCEPT ![cur] = @ + n]
        /\ position[cur] + n <= written[cur]
        /\ \A l \in Link : link[l].of = cur =>
             position[cur] + n <= link[l].taken
        /\ written' = written
        /\ \A s \in Socket \ {cur} :
             flags'[s] = flags[s] /\ outgoing'[s] = outgoing[s]
        /\ outgoing'[cur] = 0
  <2>1. /\ position[cur] \in Nat /\ outgoing[cur] \in Nat
        /\ position[cur] + outgoing[cur] <= written[cur]
        /\ \A l \in Link : link[l].of = cur => Within(cur, link[l].taken)
    BY <1>3, <1>5 DEF Measured, Measure
  <2>2. CASE OnSendResponse /\ Sends
    <3>1. PICK n \in {0, outgoing[cur]}, failing \in BOOLEAN :
            /\ Sent(cur, n, failing)
            /\ failing => n = 0
            /\ ~failing => Ahead(cur, n)
      BY <2>2, SendRead
    <3>2. /\ position' = [position EXCEPT ![cur] = @ + n]
          /\ flags' = [flags EXCEPT ![cur] = SendingFinished(@)]
          /\ outgoing' = [outgoing EXCEPT ![cur] = 0]
          /\ written' = written
      BY <1>3, <3>1, SimComAssumption DEF Sent
    <3>3. n \in Nat /\ position[cur] + n <= written[cur]
      BY <1>3, <1>5, <2>1
    <3>4. \A l \in Link : link[l].of = cur =>
            position[cur] + n <= link[l].taken
      <4>1. CASE failing
        BY <1>5, <2>1, <3>1, <4>1 DEF Within
      <4>2. CASE ~failing
        BY <1>5, <2>1, <3>1, <4>2 DEF Ahead
      <4> QED
        BY <4>1, <4>2
    <3>5. /\ \A s \in Socket \ {cur} :
               flags'[s] = flags[s] /\ outgoing'[s] = outgoing[s]
          /\ outgoing'[cur] = 0
      BY <1>3, <1>5, <3>2
    <3> QED
      BY <3>2, <3>3, <3>4, <3>5
  <2>3. CASE OnReceiveAck /\ pc = "SendAck" /\ result = "Pending"
    <3>1. PICK v : v = Head(rx).value
      OBVIOUS
    <3>2. /\ position' = [position EXCEPT ![cur] = v]
          /\ flags' = flags /\ outgoing' = outgoing /\ written' = written
          /\ rx # <<>> /\ Head(rx).text = "+CIPACK"
      BY <2>3, <3>1 DEF OnReceiveAck, Reads
    <3>3. 1 \in DOMAIN rx /\ Head(rx) = rx[1] /\ v \in Nat
      <4>1. rx \in Seq(LineType)
        BY DEF Inv, Typed
      <4>2. Head(rx) \in LineType /\ 1 \in DOMAIN rx /\ Head(rx) = rx[1]
        BY <3>2, <4>1, LineRead
      <4> QED
        BY <3>1, <4>2 DEF LineType
    <3>4. outgoing[cur] = 0 /\ Within(cur, v)
      BY <1>3, <2>3, <3>1, <3>2, <3>3 DEF Measured, Measure
    <3>5. \A l \in Link : link[l].of = cur => link[l].taken = v
      BY <1>3, <3>1, <3>2, <3>3 DEF StreamInv, Told, Tells
    <3>6. PICK n \in Nat : v = position[cur] + n
      <4>1. v - position[cur] \in Nat /\ v = position[cur] + (v - position[cur])
        BY <2>1, <3>3, <3>4 DEF Within
      <4> QED
        BY <4>1
    <3>7. position' = [position EXCEPT ![cur] = @ + n]
      BY <3>2, <3>6
    <3>8. position[cur] + n <= written[cur]
      BY <3>4, <3>6 DEF Within
    <3>9. \A l \in Link : link[l].of = cur =>
            position[cur] + n <= link[l].taken
      BY <2>1, <3>5, <3>6
    <3>10. /\ \A s \in Socket \ {cur} :
                flags'[s] = flags[s] /\ outgoing'[s] = outgoing[s]
           /\ outgoing'[cur] = 0
      BY <3>2, <3>4
    <3> QED
      BY <3>2, <3>7, <3>8, <3>9, <3>10
  <2> QED
    BY <2>2, <2>3
<1>7. ASSUME NEW s \in Socket, s # cur PROVE Measure(s)'
  <2>1. /\ position'[s] = position[s] /\ written[s] <= written'[s]
        /\ flags'[s] = flags[s] /\ outgoing'[s] = outgoing[s]
    BY <1>5, <1>6, <1>7
  <2> QED
    BY <1>2, <1>4, <1>7, <2>1, MeasureStill DEF Measured
<1>8. ASSUME NEW s \in Socket, s = cur PROVE Measure(s)'
  <2>1. position'[cur] = position[cur] + n /\ position[cur] \in Nat
    BY <1>3, <1>5, <1>6
  <2>2. \A l \in Link : link[l].of = cur => link[l].taken <= written[cur]
    BY <1>3 DEF Measured, Measure, Within
  <2>3. /\ position'[s] = position[s] + n /\ position[s] \in Nat
        /\ outgoing'[s] = 0 /\ written'[s] = written[s]
        /\ written[s] \in Nat
        /\ position[s] + n <= written[s]
        /\ \A l \in Link' : link'[l].of = s =>
             /\ link'[l].taken \in Nat
             /\ position[s] + n <= link'[l].taken
             /\ link'[l].taken <= written[s]
    BY <1>2, <1>5, <1>6, <1>8, <2>1, <2>2
  <2>4. /\ position'[s] + outgoing'[s] <= written'[s]
        /\ \A l \in Link' : link'[l].of = s => Within(s, link[l].taken)'
    BY <2>3 DEF Within
  <2> QED
    BY <1>2, <1>4, <2>3, <2>4 DEF Measure
<1>9. Forward
  BY <1>5, <1>6 DEF Forward
<1> QED
  BY <1>7, <1>8, <1>9 DEF Measured

\* Only a connection that begins, and a send, change what has been taken.
LEMMA DeviceTakes ==
  ASSUME Inv, StreamInv, Device
  PROVE  TakesNone \/ DeviceTakesOpen \/ DeviceSends
<1>1. /\ link \in [Link -> LinkType] /\ Link' = Link
      /\ \A l \in Link : link[l].at = "open" => link[l].at # "idle"
  BY DEF Inv, Typed, Link, Capacity, DeviceOnly
<1>2. command.name # "None" => At \in Link
  BY DEF Inv, Asked, At
<1>3. link' = link => TakesNone
  BY DEF TakesNone
<1>4. ASSUME NEW l \in Link, link' = [link EXCEPT ![l] = NoConnection]
      PROVE  TakesNone
  BY <1>1, <1>4 DEF TakesNone, NoConnection
<1>5. ASSUME NEW l \in Link, NEW c, c.of = link[l].of, c.taken = link[l].taken,
             link' = [link EXCEPT ![l] = c]
      PROVE  TakesNone
  BY <1>1, <1>5 DEF TakesNone
<1>6. CASE \/ DeviceRefuses \/ DeviceTakesSecurity \/ DeviceAcknowledges
           \/ DeviceReportsUnread
  BY <1>3, <1>6
  DEF DeviceRefuses, DeviceTakesSecurity, DeviceAcknowledges,
      DeviceReportsUnread
<1>7. CASE DeviceCloses
  BY <1>2, <1>4, <1>7 DEF DeviceCloses, Busy
<1>8. ASSUME NEW l \in Link, DeviceFailsToOpen(l) \/ PeerCloses(l)
      PROVE  TakesNone
  BY <1>4, <1>8 DEF DeviceFailsToOpen, PeerCloses
<1>9. ASSUME NEW l \in Link, DeviceOpens(l) PROVE TakesNone
  <2> DEFINE c == [link[l] EXCEPT !.at = "open"]
  <2>1. c.of = link[l].of /\ c.taken = link[l].taken
    BY <1>1 DEF LinkType
  <2>2. link' = [link EXCEPT ![l] = c]
    BY <1>9 DEF DeviceOpens
  <2> QED
    BY <1>5, <2>1, <2>2
<1>10. ASSUME NEW l \in Link, NEW b, link' = [link EXCEPT ![l].unread = b]
       PROVE  TakesNone
  <2> DEFINE c == [link[l] EXCEPT !.unread = b]
  <2>1. c.of = link[l].of /\ c.taken = link[l].taken
    BY <1>1 DEF LinkType
  <2>2. link' = [link EXCEPT ![l] = c]
    BY <1>10
  <2> QED
    BY <1>5, <2>1, <2>2
<1>11. ASSUME NEW l \in Link, DataArrives(l) PROVE TakesNone
  <2>1. PICK b : link' = [link EXCEPT ![l].unread = b]
    BY <1>11 DEF DataArrives
  <2> QED
    BY <1>10, <2>1
<1>12. CASE DeviceHandsOver
  <2>1. /\ At \in Link
        /\ \/ link' = [link EXCEPT ![At].unread = FALSE]
           \/ link' = [link EXCEPT ![At] = NoConnection]
    BY <1>2, <1>12 DEF DeviceHandsOver, Busy
  <2> QED
    BY <1>4, <1>10, <2>1
<1> QED
  BY <1>6, <1>7, <1>8, <1>9, <1>11, <1>12 DEF Device

\* What is counted for a socket is not more than what is written.
LEMMA DeviceCounts ==
  ASSUME Inv, StreamInv, Measured, Device, NEW s \in Socket,
         pc = "SendAck", cur = s, ~failed
  PROVE  \A i \in DOMAIN rx' :
           rx'[i].text = "+CIPACK" => Within(s, rx'[i].value)
<1>1. \A i \in DOMAIN rx : rx[i].text = "+CIPACK" => Within(s, rx[i].value)
  BY DEF Measured, Measure
<1>2. rx \in Seq(LineType)
  BY DEF Inv, Typed
<1>3. ASSUME NEW r \in Seq(LineType), rx' = rx \o r,
             \A i \in DOMAIN r :
               r[i].text = "+CIPACK" => Within(s, r[i].value)
      PROVE  \A i \in DOMAIN rx' :
               rx'[i].text = "+CIPACK" => Within(s, rx'[i].value)
  <2>1. \A i \in DOMAIN rx' :
          \/ i \in DOMAIN rx /\ rx'[i] = rx[i]
          \/ i - Len(rx) \in DOMAIN r /\ rx'[i] = r[i - Len(rx)]
    BY <1>2, <1>3, LinesAdded
  <2> QED
    BY <1>1, <1>3, <2>1
<1>4. PICK r \in Seq(LineType) : rx' = rx \o r /\ Replies(r)
  BY DeviceStep DEF Inv, UseInv, Behaves, Reports
<1>5. CASE command' = command /\ Unanswered(r)
  <2>1. \A i \in DOMAIN r : r[i].text # "+CIPACK"
    BY <1>5, ResponsesAnswer DEF Unanswered
  <2> QED
    BY <1>3, <1>4, <2>1
<1>6. CASE command.name # "None" /\ command' = NoCommand
  <2>1. command.name = "CIPACK" /\ command.of = s
    BY <1>6 DEF Inv, Talk, Step
  <2>2. command' # command
    BY <2>1, <1>6 DEF NoCommand
  <2>3. DeviceRefuses \/ DeviceAcknowledges
    BY <2>1, <2>2
    DEF Device, DeviceTakesSecurity, DeviceTakesOpen, DeviceCloses,
        DeviceSends, DeviceHandsOver, DeviceReportsUnread, DeviceOpens,
        DeviceFailsToOpen, PeerCloses, DataArrives, Busy
  <2>4. PICK z : z = Result("ERROR")
    OBVIOUS
  <2>5. CASE DeviceRefuses
    <3>1. rx' = rx \o <<z>> /\ z \in LineType /\ z.text = "ERROR"
      BY <2>4, <2>5, ResultTypes DEF DeviceRefuses, Answer
    <3>2. <<z>> \in Seq(LineType) /\ DOMAIN <<z>> = {1} /\ <<z>>[1] = z
      BY <3>1, FewLines
    <3> QED
      BY <1>3, <3>1, <3>2
  <2>6. CASE DeviceAcknowledges
    <3>1. PICK y, x : y = Says("+CIPACK", link[At].taken) /\ x = Result("OK")
      OBVIOUS
    <3>2. link[At].at # "idle" /\ rx' = rx \o <<y, x>>
      BY <2>6, <3>1 DEF DeviceAcknowledges, Answer, IsOpen
    <3>3. At \in Link /\ link[At].of = s
      BY <2>1, <3>2, SendsOwner
    <3>4. Within(s, link[At].taken)
      BY <3>3 DEF Measured, Measure
    <3>5. link[At].taken \in Nat /\ "+CIPACK" \in Events
      BY <3>3 DEF Inv, Typed, LinkType, Events
    <3>6. /\ y \in LineType /\ y.value = link[At].taken
          /\ x \in LineType /\ x.text = "OK"
      BY <3>1, <3>3, <3>5, LineTypes, ResultTypes DEF Inv, Says, Line
    <3>7. /\ <<y, x>> \in Seq(LineType) /\ DOMAIN <<y, x>> = {1, 2}
          /\ <<y, x>>[1] = y /\ <<y, x>>[2] = x
      BY <3>6, FewLines
    <3> QED
      BY <1>3, <3>2, <3>4, <3>6, <3>7
  <2> QED
    BY <2>3, <2>5, <2>6
<1> QED
  BY <1>4, <1>5, <1>6 DEF Replies

\* The modem takes no more than it is given.
LEMMA MeasuredDevice ==
  ASSUME Inv, Inv', StreamInv, Measured, Device
  PROVE  Measured' /\ Forward
<1>1. /\ position' = position /\ written' = written /\ outgoing' = outgoing
      /\ flags' = flags /\ pc' = pc /\ cur' = cur /\ failed' = failed
      /\ Link' = Link /\ link \in [Link -> LinkType]
  BY DeviceOnly DEF Link, Capacity, Inv, Typed
<1>2. command' = command \/ command' = NoCommand
  BY DeviceStep DEF Inv, UseInv, Behaves, Replies
<1>3. ASSUME NEW s \in Socket,
             \A l \in Link : link'[l].of = s => Within(s, link'[l].taken)
      PROVE  Measure(s)'
  <2>1. Measure(s)
    BY DEF Measured
  <2>2. \A l \in Link' : link'[l].of = s => Within(s, link[l].taken)'
    BY <1>1, <1>3 DEF Within
  <2>3. command'.name = "Send" /\ command'.of = s =>
          position'[s] + command'.len <= written'[s]
    BY <1>1, <1>2, <2>1 DEF Measure, NoCommand
  <2>4. ASSUME pc' = "SendAck", cur' = s
        PROVE  /\ outgoing'[s] = 0
               /\ ~failed' => \A i \in DOMAIN rx' :
                    rx'[i].text = "+CIPACK" => Within(s, rx[i].value)'
    BY <1>1, <2>1, <2>4, DeviceCounts DEF Measure, Within
  <2> QED
    BY <1>1, <2>1, <2>2, <2>3, <2>4 DEF Measure
<1>4. ASSUME NEW s \in Socket, NEW l \in Link, link[l].of = s
      PROVE  Within(s, link[l].taken)
  BY <1>4 DEF Measured, Measure
<1>5. ASSUME TakesNone PROVE Measured'
  <2>1. ASSUME NEW s \in Socket, NEW l \in Link, link'[l].of = s
        PROVE  Within(s, link'[l].taken)
    BY <1>4, <1>5, <2>1, SimComAssumption DEF TakesNone
  <2>2. ASSUME NEW s \in Socket PROVE Measure(s)'
    BY <1>3, <2>1
  <2> QED
    BY <2>2 DEF Measured
<1>6. ASSUME DeviceTakesOpen PROVE Measured'
  <2>1. /\ command.name = "Open"
        /\ \A l \in Link :
             \/ link'[l] = link[l]
             \/ link'[l].of = command.of /\ link'[l].taken = 0
    BY <1>1, <1>6 DEF DeviceTakesOpen, Busy
  <2>2. ASSUME NEW s \in Socket, s = command.of PROVE Within(s, 0)
    <3>1. position[s] = 0 /\ written[s] \in Nat
      BY <2>1, <2>2 DEF StreamInv, Begun, Inv, Typed, TypeOK
    <3> QED
      BY <3>1 DEF Within
  <2>3. ASSUME NEW s \in Socket, NEW l \in Link, link'[l].of = s
        PROVE  Within(s, link'[l].taken)
    BY <1>4, <2>1, <2>2, <2>3
  <2> QED
    <3>1. ASSUME NEW s \in Socket PROVE Measure(s)'
      BY <1>3, <2>3
    <3> QED
      BY <3>1 DEF Measured
<1>7. ASSUME DeviceSends PROVE Measured'
  <2>1. PICK n \in 0..command.len : link' = [link EXCEPT ![At].taken = @ + n]
    BY <1>7 DEF DeviceSends
  <2>2. command.name = "Send" /\ link[At].at # "idle"
    BY <1>7 DEF DeviceSends, Busy, IsOpen
  <2>3. PICK o \in Socket : o = command.of
    BY <2>2, SendsOwner
  <2>4. At \in Link /\ link[At].of = o
    BY <2>2, <2>3, SendsOwner
  <2>5. /\ n \in Nat /\ command.len \in Nat /\ n <= command.len
        /\ position[o] \in Nat /\ written[o] \in Nat
    BY <2>1 DEF Inv, Typed, TypeOK, CommandType
  <2>6. \A l \in Link :
          /\ link'[l].of = link[l].of
          /\ link'[l].taken = IF l = At THEN link[l].taken + n
                              ELSE link[l].taken
    BY <1>1, <2>1, <2>4 DEF LinkType
  <2>7. position[o] = link[At].taken
    <3>1. Ahead(o, 0)
      BY <2>2, <2>3 DEF StreamInv, Given
    <3> QED
      BY <2>4, <2>5, <3>1 DEF Ahead
  <2>8. position[o] + command.len <= written[o]
    BY <2>2, <2>3 DEF Measured, Measure
  <2>9. Within(o, link'[At].taken)
    BY <2>4, <2>5, <2>6, <2>7, <2>8 DEF Within
  <2>10. ASSUME NEW s \in Socket, NEW l \in Link, link'[l].of = s
         PROVE  Within(s, link'[l].taken)
    BY <1>4, <2>4, <2>6, <2>9, <2>10
  <2> QED
    <3>1. ASSUME NEW s \in Socket PROVE Measure(s)'
      BY <1>3, <2>10
    <3> QED
      BY <3>1 DEF Measured
<1>8. Measured'
  BY <1>5, <1>6, <1>7, DeviceTakes
<1>9. Forward
  BY <1>1 DEF Forward, Inv, Typed, TypeOK
<1> QED
  BY <1>8, <1>9

\* Nothing is written at first.
LEMMA MeasuredInit == Init => Measured
<1> SUFFICES ASSUME Init PROVE Measured
  OBVIOUS
<1> QED
  BY SimComAssumption DEF Init, Measured, Measure, NoConnection, NoCommand

\* No step leaves what is measured, or brings a reader back.
LEMMA MeasuredStep ==
  ASSUME Inv, Inv', StreamInv, StreamInv', Measured, [Next]_vars
  PROVE  Measured' /\ Forward
<1>1. CASE UNCHANGED vars
  <2>1. /\ flags' = flags /\ outgoing' = outgoing /\ position' = position
        /\ written' = written /\ link' = link /\ command' = command
        /\ pc' = pc /\ cur' = cur /\ failed' = failed /\ rx' = rx
    BY <1>1
    DEF vars, driverVars, deviceVars, taskVars, atVars, socketVars, sendVars
  <2>2. OwedStep /\ \A s \in Socket : written[s] <= written'[s]
    BY <2>1 DEF OwedStep, Inv, Typed, TypeOK
  <2> QED
    BY <2>1, <2>2, MeasuredStill
<1>2. CASE App
  <2>1. \/ \E s \in Socket :
             ReleaseSocket(s) \/ Disconnect(s) \/ WriteOutput(s)
        \/ \E s \in Socket, tls \in BOOLEAN : CreateSocket(s, tls)
    BY <1>2 DEF App
  <2> QED
    BY <2>1, MeasuredQuiet, MeasuredCreate
<1>3. CASE Task
  <2>1. CASE \E s \in Socket : SendPacketImpl(s)
    BY <2>1, MeasuredQuiet, MeasuredSends
  <2>2. CASE AckReturns
    BY <2>2, MeasuredQuiet, MeasuredSends
  <2> QED
    BY <1>3, <2>1, <2>2, MeasuredQuiet, MeasuredDestroys DEF Task
<1>4. CASE RxTask
  BY <1>4, MeasuredRead, MeasuredAnswer DEF RxTask
<1> QED
  BY <1>1, <1>2, <1>3, <1>4, MeasuredDevice DEF Next

\* The reader of a transmit pipe only moves forward, by what a send response or
\* a +CIPACK says has been sent, and never past what has been written
\* (SendPacketImpl, ReceiveAck).
THEOREM ReadersAdvance == Spec => ReaderAdvances
<1>1. ASSUME Inv', Measured', Forward
      PROVE  \A s \in listed \cap listed' :
               position[s] <= position'[s] /\ position'[s] <= written'[s]
  <2>1. ASSUME NEW s \in listed \cap listed'
        PROVE  position[s] <= position'[s] /\ position'[s] <= written'[s]
    <3>1. /\ s \in Socket /\ position'[s] \in Nat /\ outgoing'[s] \in Nat
          /\ written'[s] \in Nat
      BY <1>1 DEF Inv, Typed, TypeOK
    <3>2. position'[s] + outgoing'[s] <= written'[s]
      BY <1>1, <3>1 DEF Measured, Measure
    <3> QED
      BY <1>1, <3>1, <3>2 DEF Forward
  <2> QED
    BY <2>1
<1> QED
  BY <1>1, InitInv, InitStream, MeasuredInit, InvStep, StreamStep,
     MeasuredStep, PTL DEF Spec, ReaderAdvances

-----------------------------------------------------------------------------
(* The life of a socket *)

\* What the application sees of s, the record SocketLife keeps of it.
Stage(s) ==
  IF s \notin listed THEN "free"
  ELSE IF IsClosed(flags[s]) THEN "closed"
  ELSE IF IsConnected(flags[s]) THEN "connected"
  ELSE "pending"

Owned(s) == "AppReference" \in flags[s]

\* It cannot tell the words f and g apart.
Alike(f, g) ==
  /\ IsClosed(g) <=> IsClosed(f)
  /\ IsConnected(g) <=> IsConnected(f)
  /\ "AppReference" \in g <=> "AppReference" \in f

\* Most updates are of this kind, ...
LEMMA AlikeUpdates ==
  ASSUME NEW f
  PROVE  /\ Alike(f, f) /\ Alike(f, Allocate(f)) /\ Alike(f, Bound(f))
         /\ Alike(f, f \cup {"ModemConnecting"})
         /\ Alike(f, f \cup {"ModemClosing"})
         /\ Alike(f, Incoming(f)) /\ Alike(f, MaybeIncoming(f))
         /\ Alike(f, IncomingRequested(f))
         /\ Alike(f, Sending(f)) /\ Alike(f, SendingFinished(f))
         /\ Alike(f, CloseRequested(f))
<1> USE DEF Alike, IsClosed, IsConnected
<1>1. /\ Alike(f, f) /\ Alike(f, Allocate(f)) /\ Alike(f, Bound(f))
      /\ Alike(f, f \cup {"ModemConnecting"})
      /\ Alike(f, f \cup {"ModemClosing"})
  BY DEF Allocate, Bound
<1>2. /\ Alike(f, Incoming(f)) /\ Alike(f, MaybeIncoming(f))
      /\ Alike(f, IncomingRequested(f))
  BY DEF Incoming, MaybeIncoming, IncomingRequested
<1>3. /\ Alike(f, Sending(f)) /\ Alike(f, SendingFinished(f))
      /\ Alike(f, CloseRequested(f))
  BY DEF Sending, SendingFinished, CloseRequested
<1> QED
  BY <1>1, <1>2, <1>3

\* ... the others are the steps of a socket's life.
LEMMA LifeUpdates ==
  ASSUME NEW f
  PROVE  /\ IsClosed(Finished(f))
         /\ "AppReference" \in Finished(f) <=> "AppReference" \in f
         /\ ~IsClosed(f) => IsConnected(Connected(f))
         /\ IsClosed(Connected(f)) <=> IsClosed(f)
         /\ "AppReference" \in Connected(f) <=> "AppReference" \in f
         /\ IsClosed(Released(f)) <=> IsClosed(f)
         /\ IsConnected(Released(f)) <=> IsConnected(f)
         /\ "AppReference" \notin Released(f)
         /\ \A tls : /\ ~IsClosed(NewSocket(tls)) /\ ~IsConnected(NewSocket(tls))
                     /\ "AppReference" \in NewSocket(tls)
         /\ CanDelete(f) => "AppReference" \notin f /\ "ModemReference" \notin f
<1> USE DEF IsClosed, IsConnected
<1>1. /\ IsClosed(Finished(f))
      /\ "AppReference" \in Finished(f) <=> "AppReference" \in f
      /\ ~IsClosed(f) => IsConnected(Connected(f))
      /\ IsClosed(Connected(f)) <=> IsClosed(f)
      /\ "AppReference" \in Connected(f) <=> "AppReference" \in f
  BY DEF Finished, Connected
<1>2. /\ IsClosed(Released(f)) <=> IsClosed(f)
      /\ IsConnected(Released(f)) <=> IsConnected(f)
      /\ "AppReference" \notin Released(f)
  BY DEF Released
<1>3. /\ \A tls : /\ ~IsClosed(NewSocket(tls)) /\ ~IsConnected(NewSocket(tls))
                  /\ "AppReference" \in NewSocket(tls)
      /\ CanDelete(f) => "AppReference" \notin f /\ "ModemReference" \notin f
  BY DEF NewSocket, CanDelete
<1> QED
  BY <1>1, <1>2, <1>3

\* The sockets outside S are as they were.
OthersStay(S) ==
  \A s \in Socket \ S : Stage(s)' = Stage(s) /\ (Owned(s)' <=> Owned(s))

\* SocketLife's steps on Stage and Owned.
LEMMA LifeActions ==
  /\ OthersStay({}) => UNCHANGED Life!lifeVars
  /\ \A s \in Socket : OthersStay({s}) =>
       /\ Stage(s) = "free" /\ Stage(s)' = "pending" /\ Owned(s)' =>
            Life!Create(s)
       /\ Stage(s)' = Stage(s) /\ Owned(s) /\ ~Owned(s)' => Life!Release(s)
       /\ /\ Stage(s) = "pending" /\ Stage(s)' = "connected"
          /\ Owned(s)' <=> Owned(s)
          => Life!Connect(s)
  /\ \A S \in SUBSET Socket : OthersStay(S) =>
       /\ (\A s \in S : /\ Stage(s) # "free" /\ Stage(s)' = "closed"
                        /\ Owned(s)' <=> Owned(s))
          => Life!Close(S)
       /\ (\A s \in S : /\ ~Owned(s) /\ ~Owned(s)' /\ Stage(s)' = "free"
                        /\ Stage(s) \in {"pending", "closed"})
          => Life!Destroy(S)
<1> USE DEF OthersStay
<1>1. OthersStay({}) => UNCHANGED Life!lifeVars
  BY DEF Life!lifeVars, Stage, Owned
<1>2. ASSUME NEW s \in Socket, OthersStay({s})
      PROVE  /\ Stage(s) = "free" /\ Stage(s)' = "pending" /\ Owned(s)' =>
                  Life!Create(s)
             /\ Stage(s)' = Stage(s) /\ Owned(s) /\ ~Owned(s)' =>
                  Life!Release(s)
             /\ /\ Stage(s) = "pending" /\ Stage(s)' = "connected"
                /\ Owned(s)' <=> Owned(s)
                => Life!Connect(s)
  <2>1. ASSUME Stage(s) = "free", Stage(s)' = "pending", Owned(s)'
        PROVE  Life!Create(s)
    BY <1>2, <2>1 DEF Life!Create, Stage, Owned
  <2>2. ASSUME Stage(s)' = Stage(s), Owned(s), ~Owned(s)'
        PROVE  Life!Release(s)
    BY <1>2, <2>2 DEF Life!Release, Stage, Owned
  <2>3. ASSUME Stage(s) = "pending", Stage(s)' = "connected",
               Owned(s)' <=> Owned(s)
        PROVE  Life!Connect(s)
    BY <1>2, <2>3 DEF Life!Connect, Stage, Owned
  <2> QED
    BY <2>1, <2>2, <2>3
<1>3. ASSUME NEW S \in SUBSET Socket, OthersStay(S),
             \A s \in S : /\ Stage(s) # "free" /\ Stage(s)' = "closed"
                          /\ Owned(s)' <=> Owned(s)
      PROVE  Life!Close(S)
  BY <1>3 DEF Life!Close, Stage, Owned
<1>4. ASSUME NEW S \in SUBSET Socket, OthersStay(S),
             \A s \in S : /\ ~Owned(s) /\ ~Owned(s)' /\ Stage(s)' = "free"
                          /\ Stage(s) \in {"pending", "closed"}
      PROVE  Life!Destroy(S)
  BY <1>4 DEF Life!Destroy, Stage, Owned
<1> QED
  BY <1>1, <1>2, <1>3, <1>4

\* A step that changes at most one word, and that to one alike.
LEMMA AlikeWord ==
  ASSUME Typed, listed' = listed,
         \/ flags' = flags
         \/ \E s \in Socket : \E g :
              flags' = [flags EXCEPT ![s] = g] /\ Alike(flags[s], g)
  PROVE  UNCHANGED Life!lifeVars
<1>1. \A s \in Socket : Alike(flags[s], flags'[s])
  BY AlikeUpdates DEF Typed, TypeOK
<1>2. OthersStay({})
  BY <1>1 DEF OthersStay, Stage, Owned, Alike
<1> QED
  BY <1>2, LifeActions


\* The steps of the application and of the task that only the modem sees.
LEMMA AlikeTask ==
  ASSUME Typed, FrameInv,
         \/ \E s \in Socket :
              \/ Disconnect(s) \/ WriteOutput(s) \/ CloseImpl(s)
              \/ TryAllocateImpl(s) \/ ConnectImpl(s) \/ SendPacketImpl(s)
              \/ ReceivePacketImpl(s) \/ CheckIncomingImpl(s)
         \/ SecurityReturns \/ AckReturns \/ SendReturns \/ CallReturns
         \/ CommandTimesOut \/ NextPass
  PROVE  UNCHANGED Life!lifeVars
<1>1. CASE \E s \in Socket :
             \/ Disconnect(s) \/ WriteOutput(s) \/ CloseImpl(s)
             \/ TryAllocateImpl(s) \/ ConnectImpl(s) \/ SendPacketImpl(s)
             \/ ReceivePacketImpl(s) \/ CheckIncomingImpl(s)
  <2>1. PICK s \in Socket :
          \/ Disconnect(s) \/ WriteOutput(s) \/ CloseImpl(s)
          \/ TryAllocateImpl(s) \/ ConnectImpl(s) \/ SendPacketImpl(s)
          \/ ReceivePacketImpl(s) \/ CheckIncomingImpl(s)
    BY <1>1
  <2>2. /\ listed' = listed
        /\ \/ flags' = flags
           \/ flags' = [flags EXCEPT ![s] = @ \cup {"ModemClosing"}]
           \/ flags' = [flags EXCEPT ![s] = Allocate(@)]
           \/ flags' = [flags EXCEPT ![s] = @ \cup {"ModemConnecting"}]
           \/ flags' = [flags EXCEPT ![s] = Sending(@)]
           \/ flags' = [flags EXCEPT ![s] = IncomingRequested(@)]
           \/ flags' = [flags EXCEPT ![s] = CloseRequested(@)]
    BY <2>1
    DEF Disconnect, WriteOutput, CloseImpl, TryAllocateImpl, ConnectImpl,
        SendPacketImpl, Send, ReceivePacketImpl, CheckIncomingImpl,
        RequestIncoming
  <2> QED
    BY <2>2, AlikeUpdates, AlikeWord
<1>2. CASE AckReturns \/ SendReturns
  <2>1. cur \in Socket
    BY <1>2 DEF AckReturns, SendReturns, Awaiting, FrameInv, Typed, TypeOK
  <2>2. /\ listed' = listed
        /\ \/ flags' = flags
           \/ flags' = [flags EXCEPT ![cur] = Sending(@)]
           \/ flags' = [flags EXCEPT ![cur] = SendingFinished(@)]
    BY <1>2 DEF AckReturns, SendReturns, Send
  <2> QED
    BY <2>1, <2>2, AlikeUpdates, AlikeWord
<1>3. CASE SecurityReturns \/ CallReturns \/ CommandTimesOut \/ NextPass
  BY <1>3, AlikeWord
  DEF SecurityReturns, CallReturns, CommandTimesOut, NextPass, socketVars
<1> QED
  BY <1>1, <1>2, <1>3

\* The lines that say nothing of a connection's state.
LEMMA AlikeRx ==
  ASSUME Typed,
         \/ OnOK \/ OnError \/ OnMaybeIncoming \/ OnIncoming
         \/ OnSendResponse \/ OnReceiveAck
  PROVE  UNCHANGED Life!lifeVars
<1>1. CASE OnOK \/ OnError \/ OnReceiveAck
  BY <1>1, AlikeWord DEF OnOK, OnError, OnReceiveAck, socketVars
<1>2. CASE OnMaybeIncoming \/ OnIncoming \/ OnSendResponse
  <2>1. /\ listed' = listed
        /\ \/ flags' = flags
           \/ /\ Found # NULL
              /\ \/ flags' = [flags EXCEPT ![Found] = MaybeIncoming(@)]
                 \/ flags' = [flags EXCEPT ![Found] = Incoming(@)]
                 \/ flags' = [flags EXCEPT ![Found] = SendingFinished(@)]
    <3>1. CASE OnMaybeIncoming \/ OnIncoming
      BY <3>1 DEF OnMaybeIncoming, OnIncoming, Update
    <3>2. CASE OnSendResponse
      BY <3>2 DEF OnSendResponse, Reads, Sent
    <3> QED
      BY <1>2, <3>1, <3>2
  <2>2. Found # NULL => Found \in Socket
    BY FoundSocket DEF Found
  <2> QED
    BY <2>1, <2>2, AlikeUpdates, AlikeWord
<1> QED
  BY <1>1, <1>2

\* Finishing one socket closes it.
LEMMA OneCloses ==
  ASSUME Typed, NEW s \in Socket, s \in listed, listed' = listed,
         flags' = [flags EXCEPT ![s] = Finished(@)]
  PROVE  Life!Close({s})
<1>1. \A o \in Socket :
        flags'[o] = IF o = s THEN Finished(flags[s]) ELSE flags[o]
  BY DEF Typed, TypeOK
<1>2. OthersStay({s})
  BY <1>1 DEF OthersStay, Stage, Owned
<1>3. Stage(s) # "free" /\ Stage(s)' = "closed" /\ (Owned(s)' <=> Owned(s))
  BY <1>1, LifeUpdates DEF Stage, Owned
<1> QED
  BY <1>2, <1>3, LifeActions

\* What is not in the list is nobody's.
Unowned == \A s \in Socket : Stage(s) = "free" => ~Owned(s)

\* SocketLife keeps it so.
LEMMA UnownedStays ==
  ASSUME Unowned, [Life!Next]_(Life!lifeVars) PROVE Unowned'
<1> DEFINE Of == [s \in Socket |-> Stage(s)]
           By == {s \in Socket : Owned(s)}
<1>1. SUFFICES ASSUME NEW s \in Socket PROVE Of'[s] = "free" => s \notin By'
  BY DEF Unowned
<1>2. Of[s] = "free" => s \notin By
  BY DEF Unowned
<1>3. CASE UNCHANGED Life!lifeVars
  <2>1. Of' = Of /\ By' = By
    BY <1>3 DEF Life!lifeVars, Stage, Owned
  <2> QED
    BY <1>2, <2>1
<1>4. CASE \E o \in Socket : Life!Create(o) \/ Life!Release(o) \/ Life!Connect(o)
  <2>1. PICK o \in Socket : Life!Create(o) \/ Life!Release(o) \/ Life!Connect(o)
    BY <1>4
  <2>2. \/ Of' = [Of EXCEPT ![o] = "pending"]
        \/ Of' = Of /\ By' \subseteq By
        \/ Of' = [Of EXCEPT ![o] = "connected"] /\ By' = By
    BY <2>1 DEF Life!Create, Life!Release, Life!Connect, Stage, Owned
  <2>3. By' \subseteq By \cup {o}
    BY <2>1 DEF Life!Create, Life!Release, Life!Connect, Owned
  <2> QED
    BY <1>2, <2>2, <2>3
<1>5. CASE \E S \in SUBSET Socket : Life!Close(S) \/ Life!Destroy(S)
  <2>1. PICK S \in SUBSET Socket : Life!Close(S) \/ Life!Destroy(S)
    BY <1>5
  <2>2. /\ By' = By
        /\ \/ Of'[s] \in {Of[s], "closed"}
           \/ s \notin By
    BY <2>1 DEF Life!Close, Life!Destroy, Stage, Owned
  <2> QED
    BY <1>2, <2>2
<1> QED
  BY <1>3, <1>4, <1>5 DEF Life!Next

\* Every step of the driver and of the modem is a step of SocketLife or changes
\* nothing there.
LEMMA LifeStep ==
  ASSUME Inv, StreamInv, Unowned, [Next]_vars
  PROVE  [Life!Next]_(Life!lifeVars)
<1> USE DEF Life!Next
<1>1. Typed /\ FlagInv /\ FrameInv /\ listed \subseteq Socket
      /\ flags \in [Socket -> SUBSET SocketFlag]
  BY DEF Inv, Typed, TypeOK
<1>2. CASE UNCHANGED vars \/ Device
  <2>1. listed' = listed /\ flags' = flags
    BY <1>2, DeviceOnly DEF vars, driverVars, socketVars
  <2> QED
    BY <1>1, <2>1, AlikeWord
<1>3. ASSUME NEW s \in Socket, NEW tls, CreateSocket(s, tls)
      PROVE  Life!Create(s)
  <2>1. /\ s \notin listed /\ listed' = listed \cup {s}
        /\ \A o \in Socket :
             flags'[o] = IF o = s THEN NewSocket(tls) ELSE flags[o]
    BY <1>1, <1>3 DEF CreateSocket
  <2>2. OthersStay({s})
    BY <2>1 DEF OthersStay, Stage, Owned
  <2>3. Stage(s) = "free" /\ Stage(s)' = "pending" /\ Owned(s)'
    BY <2>1, LifeUpdates DEF Stage, Owned
  <2> QED
    BY <2>2, <2>3, LifeActions
<1>4. ASSUME NEW s \in Socket, ReleaseSocket(s) PROVE Life!Release(s)
  <2>1. /\ s \in listed /\ Owned(s) /\ listed' = listed
        /\ \A o \in Socket :
             flags'[o] = IF o = s THEN Released(flags[s]) ELSE flags[o]
    BY <1>1, <1>4 DEF ReleaseSocket, Owned
  <2>2. OthersStay({s})
    BY <2>1 DEF OthersStay, Stage, Owned
  <2>3. Stage(s)' = Stage(s) /\ ~Owned(s)'
    BY <2>1, LifeUpdates DEF Stage, Owned
  <2> QED
    BY <2>1, <2>2, <2>3, LifeActions
<1>5. CASE RemoveSockets
  <2>1. PICK S : S = {s \in listed : CanDelete(flags[s])}
    OBVIOUS
  <2>2. /\ pc = "Idle" /\ phase = "Close" /\ S \in SUBSET Socket
        /\ listed' = listed \ S
        /\ \A s \in Socket : flags'[s] = IF s \in listed' THEN flags[s] ELSE {}
    BY <1>1, <1>5, <2>1 DEF RemoveSockets, Ready
  <2>3. ASSUME NEW s \in Socket \ S
        PROVE  Stage(s)' = Stage(s) /\ (Owned(s)' <=> Owned(s))
    <3>1. CASE s \in listed
      BY <2>2, <2>3, <3>1 DEF Stage, Owned
    <3>2. CASE s \notin listed
      BY <2>2, <2>3, <3>2 DEF Unowned, Stage, Owned
    <3> QED
      BY <3>1, <3>2
  <2>4. ASSUME NEW s \in S
        PROVE  /\ ~Owned(s) /\ ~Owned(s)' /\ Stage(s)' = "free"
               /\ Stage(s) \in {"pending", "closed"}
    <3>1. /\ s \in Socket /\ s \in listed /\ s \notin listed' /\ flags'[s] = {}
          /\ "AppReference" \notin flags[s] /\ "ModemReference" \notin flags[s]
      BY <2>1, <2>2, LifeUpdates
    <3>2. ~IsConnected(flags[s])
      BY <2>2, <3>1 DEF StreamInv, OpenHeld, Kept
    <3> QED
      BY <3>1, <3>2 DEF Stage, Owned
  <2>5. Life!Destroy(S)
    BY <2>2, <2>3, <2>4, LifeActions DEF OthersStay
  <2> QED
    BY <2>2, <2>5
<1>6. CASE PowerCycle
  <2>1. PICK S \in SUBSET Socket : S = listed
    BY <1>1
  <2>2. /\ listed' = listed
        /\ \A s \in Socket :
             flags'[s] = IF s \in S THEN Finished(flags[s]) ELSE flags[s]
    BY <1>6, <2>1 DEF PowerCycle
  <2>3. OthersStay(S)
    BY <2>2 DEF OthersStay, Stage, Owned
  <2>4. ASSUME NEW s \in S
        PROVE  /\ Stage(s) # "free" /\ Stage(s)' = "closed"
               /\ Owned(s)' <=> Owned(s)
    <3>1. s \in Socket /\ s \in listed' /\ flags'[s] = Finished(flags[s])
      BY <2>1, <2>2
    <3> QED
      BY <2>2, <3>1, LifeUpdates DEF Stage, Owned
  <2>5. Life!Close(S)
    BY <2>3, <2>4, LifeActions
  <2> QED
    BY <2>5
<1>7. CASE ConnectReturns
  <2>1. /\ cur \in listed /\ cur \in Socket /\ listed' = listed
        /\ \/ flags' = [flags EXCEPT ![cur] = Bound(@)]
           \/ flags' = [flags EXCEPT ![cur] = Finished(@)]
    BY <1>1, <1>7 DEF ConnectReturns, Awaiting, FrameInv
  <2>2. CASE flags' = [flags EXCEPT ![cur] = Bound(@)]
    BY <1>1, <2>1, <2>2, AlikeUpdates, AlikeWord
  <2>3. CASE flags' = [flags EXCEPT ![cur] = Finished(@)]
    BY <1>1, <2>1, <2>3, OneCloses
  <2> QED
    BY <2>1, <2>2, <2>3
<1>8. ASSUME Found # NULL
      PROVE  Found \in Socket /\ Found \in listed
  BY <1>1, <1>8, FoundSocket DEF Found, FlagInv
<1>9. CASE OnDisconnected \/ OnCloseOk
  <2>1. /\ listed' = listed
        /\ \/ flags' = flags
           \/ /\ Found # NULL
              /\ flags' = [flags EXCEPT ![Found] = Finished(@)]
    BY <1>9 DEF OnDisconnected, OnCloseOk, Update
  <2> QED
    BY <1>1, <1>8, <2>1, AlikeWord, OneCloses
<1>10. CASE OnOpened
  <2>1. /\ listed' = listed
        /\ \/ flags' = flags
           \/ /\ Found # NULL
              /\ flags' = [flags EXCEPT ![Found] = Connected(@)]
    BY <1>10 DEF OnOpened, Update
  <2>2. CASE flags' = flags
    BY <1>1, <2>1, <2>2, AlikeWord
  <2>3. CASE Found # NULL /\ flags' = [flags EXCEPT ![Found] = Connected(@)]
    <3>1. PICK s \in Socket : s = Found /\ s \in listed
      BY <1>8, <2>3
    <3>2. \A o \in Socket :
            flags'[o] = IF o = s THEN Connected(flags[s]) ELSE flags[o]
      BY <1>1, <2>3, <3>1
    <3>3. OthersStay({s})
      BY <2>1, <3>2 DEF OthersStay, Stage, Owned
    <3>4. Owned(s)' <=> Owned(s)
      BY <3>2, LifeUpdates DEF Owned
    <3>5. CASE Stage(s) = "pending"
      <4>1. Stage(s)' = "connected"
        BY <2>1, <3>1, <3>2, <3>5, LifeUpdates DEF Stage, IsConnected, IsClosed
      <4> QED
        BY <3>3, <3>4, <3>5, <4>1, LifeActions
    <3>6. CASE Stage(s) # "pending"
      <4>1. Stage(s)' = Stage(s)
        BY <2>1, <3>1, <3>2, <3>6, LifeUpdates DEF Stage, IsConnected, IsClosed
      <4>2. OthersStay({})
        BY <3>3, <3>4, <4>1 DEF OthersStay
      <4> QED
        BY <4>2, LifeActions
    <3> QED
      BY <3>5, <3>6
  <2> QED
    BY <2>1, <2>2, <2>3
<1>11. CASE App
  BY <1>1, <1>3, <1>4, <1>11, AlikeTask DEF App
<1>12. CASE Task
  BY <1>1, <1>5, <1>6, <1>7, <1>12, AlikeTask DEF Task
<1>13. CASE RxTask
  BY <1>1, <1>9, <1>10, <1>13, AlikeRx DEF RxTask
<1> QED
  BY <1>2, <1>11, <1>12, <1>13 DEF Next

\* The SimCom drivers implement SocketLife, for any number of sockets and
\* channels and whatever the modem says and when: Connect() is answered at most
\* once (OnEvent), a closed socket stays closed, and none is destroyed while it
\* is connected or before Release().
THEOREM LifeImplemented == Spec => SocketLives
<1>1. Init => Life!Init /\ Unowned
  BY DEF Init, Life!Init, Unowned, Owned
<1> QED
  BY <1>1, InitInv, InitStream, InvStep, StreamStep, LifeStep, UnownedStays,
     PTL DEF Spec, SocketLives, Life!Spec

=============================================================================
