---------------------------- MODULE SimComProofs ----------------------------
(***************************************************************************)
(* Proofs about the driver's sockets: a channel has one owner, a           *)
(* connection belongs to a socket that is still there, and a line about a  *)
(* connection finds that socket, for any number of sockets and channels.   *)
(***************************************************************************)
EXTENDS SimComProperties, FiniteSetTheorems, TLAPS

Name ==
  {"None", "CIPSSL", "Open", "Send", "CIPACK", "Receive", "Check", "Close"}

LineType ==
  [text : Events \cup {"OK", "ERROR"}, ch : Nat, value : Nat,
   of : Socket \cup {NULL}]

LinkType ==
  [at : {"idle", "opening", "open"}, of : Socket \cup {NULL}, taken : Nat,
   unread : BOOLEAN]

CommandType ==
  [name : Name, link : Pool \X Nat, len : Nat, of : Socket \cup {NULL}]

Typed ==
  /\ TypeOK
  /\ rx \in Seq(LineType)
  /\ link \in [Link -> LinkType]
  /\ command \in CommandType
  /\ command.name = "None" => command = NoCommand

-----------------------------------------------------------------------------
(* Flag words and channels *)

\* Only a socket with a channel is connected or held by the modem, and only a
\* secure one is ever told that it is connected.
FlagInv ==
  /\ ChannelsUnique
  /\ \A s \in Socket :
       /\ IsAllocated(flags[s]) => s \in listed /\ LinkOf(s) \in Link
       /\ "ModemReference" \in flags[s] \/ IsConnected(flags[s]) =>
            IsAllocated(flags[s])
       /\ IsConnected(flags[s]) => IsSecure(s)

-----------------------------------------------------------------------------
(* The task *)

FrameInv ==
  /\ pc # "Idle" => cur \in listed /\ IsAllocated(flags[cur])
  /\ pc \notin {"Idle", "CloseImpl"} => phase = "Serve"
  /\ pc = "Idle" => result # "Pending"
  /\ failed <=> result \in {"Timeout", "Failure"}

-----------------------------------------------------------------------------
(* Commands and their answers *)

Answers ==
  {"OK", "ERROR", "CLOSE OK", "DATA ACCEPT", "SEND FAIL", "+CCHSEND", "+CIPACK"}

\* The bit of the requirement mask an answer stands for.
Bit(t) == IF t \in {"OK", "CLOSE OK"} THEN 1 ELSE 2

Mask(name) ==
  CASE name = "Send" -> IF model = "SIM800" THEN {2} ELSE {1, 2}
    [] name = "CIPACK" -> {1, 2}
    [] OTHER -> {1}

Step(name) ==
  CASE name = "Close"  -> "CloseImpl"
    [] name = "CIPSSL" -> "ConnectSecurity"
    [] name = "Open"   -> "ConnectImpl"
    [] name = "Send"   -> "SendPacketImpl"
    [] name = "CIPACK" -> "SendAck"
    [] OTHER           -> "ReceiveImpl"

Unanswered(q) == \A i \in DOMAIN q : q[i].text \notin Answers

\* An error comes alone; other answers are bits that are missing, each once.
Fits(q, bits) ==
  \A i \in DOMAIN q : q[i].text \in Answers =>
    /\ q[i].text # "ERROR" => Bit(q[i].text) \in bits
    /\ \A j \in DOMAIN q : q[j].text \in Answers /\ i # j =>
         /\ q[i].text # "ERROR" /\ q[j].text # "ERROR"
         /\ Bit(q[i].text) # Bit(q[j].text)

\* What the modem has been asked.
Asked ==
  command.name # "None" =>
    /\ command.link \in Link
    /\ command.link[1] = "IP" <=> model = "SIM800"
    /\ command.name = "Receive" => command.link[1] # "CIP"
    /\ command.name = "Open" =>
         /\ command.of \in Socket /\ IsAllocated(flags[command.of])
         /\ LinkOf(command.of) = command.link
         /\ \/ pc = "ConnectImpl" /\ cur = command.of
            \/ failed /\ phase = "Serve"

\* Until a command is left unanswered, what waits answers the pending one.
Talk ==
  ~failed =>
    /\ command.name # "None" =>
         /\ result = "Pending" /\ need = Mask(command.name)
         /\ pc = Step(command.name) /\ cur = command.of
         /\ Unanswered(rx)
    /\ result # "Pending" => Unanswered(rx)
    /\ Fits(rx, need)

-----------------------------------------------------------------------------
(* Sockets in use *)

\* The lines that end a connection.
Terminal == {"OpenFailed", "Closed", "ReceiveFailed", "CLOSE OK"}

Linked(s) == \E l \in Link : link[l].at # "idle" /\ link[l].of = s

About(q, s) == \E i \in DOMAIN q : q[i].text \in Events /\ q[i].of = s

\* The modem has a connection for s, or has said something about it.
InUse(s) == Linked(s) \/ About(rx, s)

\* Why s is not destroyed: the modem's reference, the call that opens its
\* connection, or a session that is given up.
Kept(s) ==
  \/ "ModemReference" \in flags[s]
  \/ pc = "ConnectImpl" /\ cur = s
  \/ failed /\ phase = "Serve"

\* A line about a connection.
Good(e) ==
  e.text \in Events =>
    /\ e.of \in Socket /\ IsAllocated(flags[e.of]) /\ channel[e.of] = e.ch
    /\ e.text \in Terminal => PoolOf(e.of) # "CIP" /\ ~Linked(e.of)

\* Nothing is said of a connection after its end.
Ordered(q) ==
  \A i, j \in DOMAIN q :
    i < j /\ q[i].text \in Terminal /\ q[j].text \in Events => q[j].of # q[i].of

Refusing ==
  result = "Error" \/ \E i \in DOMAIN rx : rx[i].text = "ERROR"

\* What there is to read has a connection to read it from.
Unread == \A l \in Link : link[l].unread => link[l].at # "idle"

Said == \A i \in DOMAIN rx : Good(rx[i])

Held == \A s \in Socket : InUse(s) => Kept(s)

\* A connection is asked for, and refused, when the modem has none for the
\* socket.
Fresh ==
  /\ command.name = "Open" => ~InUse(command.of)
  /\ pc = "ConnectSecurity" /\ ~failed => ~InUse(cur)
  /\ pc = "ConnectImpl" /\ ~failed /\ Refusing => ~InUse(cur)

UseInv ==
  ConnectionOwned /\ Unread /\ Said /\ Ordered(rx) /\ Held /\ Fresh

Inv == Typed /\ FlagInv /\ FrameInv /\ Asked /\ Talk /\ UseInv

-----------------------------------------------------------------------------
(* Flag words *)

\* What a socket is, and whether it has a channel, stays the same, ...
SameKind(f, g) ==
  /\ IsAllocated(g) <=> IsAllocated(f)
  /\ "AppSecure" \in g <=> "AppSecure" \in f

\* ... and so does whether it is connected, closed and held.
Calm(f, g) ==
  /\ SameKind(f, g)
  /\ "ModemReference" \in g <=> "ModemReference" \in f
  /\ IsConnected(g) <=> IsConnected(f)
  /\ IsClosed(g) <=> IsClosed(f)

\* Every update keeps the type of a word.
LEMMA FlagTypes ==
  ASSUME NEW f \in SUBSET SocketFlag
  PROVE  /\ Allocate(f) \in SUBSET SocketFlag
         /\ Bound(f) \in SUBSET SocketFlag
         /\ Connected(f) \in SUBSET SocketFlag
         /\ Incoming(f) \in SUBSET SocketFlag
         /\ MaybeIncoming(f) \in SUBSET SocketFlag
         /\ IncomingRequested(f) \in SUBSET SocketFlag
         /\ Sending(f) \in SUBSET SocketFlag
         /\ SendingFinished(f) \in SUBSET SocketFlag
         /\ Finished(f) \in SUBSET SocketFlag
         /\ Released(f) \in SUBSET SocketFlag
         /\ CloseRequested(f) \in SUBSET SocketFlag
         /\ f \cup {"ModemConnecting"} \in SUBSET SocketFlag
         /\ f \cup {"ModemClosing"} \in SUBSET SocketFlag
BY DEF SocketFlag, Allocate, Bound, Connected, Incoming, MaybeIncoming,
       IncomingRequested, Sending, SendingFinished, Finished, Released,
       CloseRequested

\* Most updates are calm, ...
LEMMA CalmUpdates ==
  ASSUME NEW f
  PROVE  /\ Calm(f, f)
         /\ Calm(f, Incoming(f)) /\ Calm(f, MaybeIncoming(f))
         /\ Calm(f, IncomingRequested(f))
         /\ Calm(f, Sending(f)) /\ Calm(f, SendingFinished(f))
         /\ Calm(f, Released(f)) /\ Calm(f, CloseRequested(f))
         /\ Calm(f, f \cup {"ModemConnecting"})
         /\ Calm(f, f \cup {"ModemClosing"})
<1> USE DEF Calm, SameKind, IsAllocated, IsConnected, IsClosed
<1>1. Calm(f, f) /\ Calm(f, Incoming(f)) /\ Calm(f, MaybeIncoming(f))
  BY DEF Incoming, MaybeIncoming
<1>2. /\ Calm(f, IncomingRequested(f))
      /\ Calm(f, Released(f)) /\ Calm(f, CloseRequested(f))
  BY DEF IncomingRequested, Released, CloseRequested
<1>3. Calm(f, Sending(f)) /\ Calm(f, SendingFinished(f))
  BY DEF Sending, SendingFinished
<1>4. Calm(f, f \cup {"ModemConnecting"}) /\ Calm(f, f \cup {"ModemClosing"})
  OBVIOUS
<1> QED
  BY <1>1, <1>2, <1>3, <1>4

\* ... these are not.
LEMMA OtherUpdates ==
  ASSUME NEW f
  PROVE  /\ SameKind(f, Bound(f)) /\ "ModemReference" \in Bound(f)
         /\ IsConnected(Bound(f)) <=> IsConnected(f)
         /\ SameKind(f, Connected(f))
         /\ "ModemReference" \in Connected(f) <=> "ModemReference" \in f
         /\ SameKind(f, Finished(f)) /\ "ModemReference" \notin Finished(f)
         /\ ~IsConnected(Finished(f))
         /\ IsAllocated(Allocate(f))
         /\ "AppSecure" \in Allocate(f) <=> "AppSecure" \in f
         /\ "ModemReference" \in Allocate(f) <=> "ModemReference" \in f
         /\ IsConnected(Allocate(f)) <=> IsConnected(f)
         /\ \A tls : /\ NewSocket(tls) \in SUBSET SocketFlag
                     /\ ~IsAllocated(NewSocket(tls))
                     /\ "ModemReference" \notin NewSocket(tls)
                     /\ ~IsConnected(NewSocket(tls))
         /\ ~IsAllocated({}) /\ ~IsConnected({})
<1> USE DEF SameKind, IsAllocated, IsConnected
<1>1. /\ SameKind(f, Bound(f)) /\ "ModemReference" \in Bound(f)
      /\ IsConnected(Bound(f)) <=> IsConnected(f)
  BY DEF Bound
<1>2. /\ SameKind(f, Connected(f))
      /\ "ModemReference" \in Connected(f) <=> "ModemReference" \in f
  BY DEF Connected
<1>3. /\ SameKind(f, Finished(f)) /\ "ModemReference" \notin Finished(f)
      /\ ~IsConnected(Finished(f))
  BY DEF Finished
<1>4. /\ IsAllocated(Allocate(f))
      /\ "AppSecure" \in Allocate(f) <=> "AppSecure" \in f
      /\ "ModemReference" \in Allocate(f) <=> "ModemReference" \in f
      /\ IsConnected(Allocate(f)) <=> IsConnected(f)
  BY DEF Allocate
<1>5. \A tls : /\ NewSocket(tls) \in SUBSET SocketFlag
               /\ ~IsAllocated(NewSocket(tls))
               /\ "ModemReference" \notin NewSocket(tls)
               /\ ~IsConnected(NewSocket(tls))
  BY DEF NewSocket, SocketFlag
<1>6. ~IsAllocated({}) /\ ~IsConnected({})
  OBVIOUS
<1> QED
  BY <1>1, <1>2, <1>3, <1>4, <1>5, <1>6

-----------------------------------------------------------------------------
(* Lines *)

\* Reading the first line brings no new ones.
LEMMA LineRead ==
  ASSUME NEW S, NEW q \in Seq(S), q # <<>>
  PROVE  /\ Tail(q) \in Seq(S) /\ Head(q) \in S
         /\ 1 \in DOMAIN q /\ Head(q) = q[1]
         /\ \A i \in DOMAIN Tail(q) :
              i \in Nat \ {0} /\ i + 1 \in DOMAIN q /\ Tail(q)[i] = q[i + 1]
OBVIOUS

\* Lines that are added come last.
LEMMA LinesAdded ==
  ASSUME NEW S, NEW q \in Seq(S), NEW r \in Seq(S)
  PROVE  /\ q \o r \in Seq(S)
         /\ DOMAIN q \subseteq DOMAIN (q \o r)
         /\ \A i \in DOMAIN q : (q \o r)[i] = q[i]
         /\ \A i \in DOMAIN (q \o r) :
              \/ i \in DOMAIN q
              \/ /\ i \notin DOMAIN q
                 /\ i - Len(q) \in DOMAIN r
                 /\ (q \o r)[i] = r[i - Len(q)]
         /\ \A i, j \in DOMAIN (q \o r) :
              i < j /\ j \in DOMAIN q => i \in DOMAIN q
<1>1. /\ Len(q) \in Nat /\ Len(r) \in Nat
      /\ DOMAIN q = 1..Len(q) /\ DOMAIN r = 1..Len(r)
      /\ q \o r \in Seq(S) /\ Len(q \o r) = Len(q) + Len(r)
      /\ DOMAIN (q \o r) = 1..(Len(q) + Len(r))
  OBVIOUS
<1>2. \A i \in 1..Len(q) : (q \o r)[i] = q[i]
  OBVIOUS
<1>3. \A i \in 1..(Len(q) + Len(r)) :
        i > Len(q) => i - Len(q) \in 1..Len(r) /\ (q \o r)[i] = r[i - Len(q)]
  OBVIOUS
<1> QED
  BY <1>1, <1>2, <1>3

\* Answers of a command that is done, when no other is left.
LEMMA FitsFirst ==
  ASSUME NEW q \in Seq(LineType), NEW r \in Seq(LineType), NEW bits,
         Unanswered(q), Fits(r, bits)
  PROVE  Fits(q \o r, bits)
<1>1. \A i \in DOMAIN (q \o r) : (q \o r)[i].text \in Answers =>
        i - Len(q) \in DOMAIN r /\ (q \o r)[i] = r[i - Len(q)]
  BY LinesAdded DEF Unanswered
<1>2. ASSUME NEW i \in DOMAIN (q \o r), (q \o r)[i].text \in Answers
      PROVE  (q \o r)[i].text # "ERROR" => Bit((q \o r)[i].text) \in bits
  BY <1>1, <1>2 DEF Fits
<1>3. ASSUME NEW i \in DOMAIN (q \o r), (q \o r)[i].text \in Answers,
             NEW j \in DOMAIN (q \o r), (q \o r)[j].text \in Answers, i # j
      PROVE  /\ (q \o r)[i].text # "ERROR" /\ (q \o r)[j].text # "ERROR"
             /\ Bit((q \o r)[i].text) # Bit((q \o r)[j].text)
  <2>1. i \in Nat /\ j \in Nat /\ Len(q) \in Nat
    OBVIOUS
  <2>2. i - Len(q) # j - Len(q)
    BY <1>3, <2>1
  <2> QED
    BY <1>1, <1>3, <2>2 DEF Fits
<1> QED
  BY <1>2, <1>3 DEF Fits

\* Lines that answer nothing change nothing.
LEMMA FitsStill ==
  ASSUME NEW q \in Seq(LineType), NEW r \in Seq(LineType), NEW bits,
         Unanswered(r)
  PROVE  /\ Fits(q, bits) => Fits(q \o r, bits)
         /\ Unanswered(q) => Unanswered(q \o r)
<1>1. \A i \in DOMAIN (q \o r) : (q \o r)[i].text \in Answers =>
        i \in DOMAIN q /\ (q \o r)[i] = q[i]
  BY LinesAdded DEF Unanswered
<1> QED
  BY <1>1 DEF Fits, Unanswered

\* An answer that has been read is not missing any more.
LEMMA FitsAfter ==
  ASSUME NEW q \in Seq(LineType), q # <<>>, NEW bits, Fits(q, bits)
  PROVE  /\ Fits(Tail(q), bits)
         /\ Head(q).text \in Answers =>
              /\ Fits(Tail(q), bits \ {Bit(Head(q).text)})
              /\ Fits(Tail(q), {}) => Unanswered(Tail(q))
              /\ Head(q).text = "ERROR" => Unanswered(Tail(q))
<1>1. /\ 1 \in DOMAIN q /\ Head(q) = q[1]
      /\ \A i \in DOMAIN Tail(q) : i + 1 \in DOMAIN q /\ i + 1 # 1
                                   /\ Tail(q)[i] = q[i + 1]
  BY LineRead
<1>2. \A i, j \in DOMAIN Tail(q) : i # j => i + 1 # j + 1
  BY LineRead
<1>3. Fits(Tail(q), bits)
  BY <1>1, <1>2 DEF Fits
<1>4. ASSUME Head(q).text \in Answers, NEW i \in DOMAIN Tail(q),
             Tail(q)[i].text \in Answers
      PROVE  /\ Head(q).text # "ERROR" /\ Tail(q)[i].text # "ERROR"
             /\ Bit(Tail(q)[i].text) # Bit(Head(q).text)
  BY <1>1, <1>4 DEF Fits
<1> QED
  BY <1>3, <1>4 DEF Fits, Unanswered

\* Nothing has been read that was not there, and the order stays.
LEMMA OrderedAfter ==
  ASSUME NEW q \in Seq(LineType), q # <<>>, Ordered(q)
  PROVE  /\ Ordered(Tail(q))
         /\ \A s : About(Tail(q), s) => About(q, s)
         /\ Head(q).text \in Terminal => ~About(Tail(q), Head(q).of)
<1>1. /\ 1 \in DOMAIN q /\ Head(q) = q[1]
      /\ \A i \in DOMAIN Tail(q) : i + 1 \in DOMAIN q /\ 1 < i + 1
                                   /\ Tail(q)[i] = q[i + 1]
  BY LineRead
<1>2. \A i, j \in DOMAIN Tail(q) : i < j => i + 1 < j + 1
  BY LineRead
<1>3. Ordered(Tail(q))
  BY <1>1, <1>2 DEF Ordered
<1>4. \A s : About(Tail(q), s) => About(q, s)
  BY <1>1 DEF About
<1>5. Head(q).text \in Terminal => ~About(Tail(q), Head(q).of)
  BY <1>1 DEF About, Ordered
<1> QED
  BY <1>3, <1>4, <1>5

-----------------------------------------------------------------------------
(* Types *)

Await ==
  {"CloseImpl", "ConnectSecurity", "ConnectImpl", "SendAck", "SendPacketImpl",
   "ReceiveImpl"}

\* A socket's link, if it has one, is one of the modem's.
LEMMA LinkTypes ==
  /\ IsFiniteSet(Link) /\ Link \subseteq Pool \X Nat
  /\ Typed => \A s \in Socket : LinkOf(s) \in Pool \X Nat
<1> DEFINE n == SharedChannels + TlsChannels + TcpChannels
<1>1. n \in Nat
  BY SimComAssumption
<1>2. Link \subseteq Pool \X (0..n) /\ Pool \X (0..n) \subseteq Pool \X Nat
  BY <1>1 DEF Link
<1>3. IsFiniteSet(Pool)
  <2>1. IsFiniteSet({"IP"} \cup {"CCH"})
    BY FS_Singleton, FS_AddElement
  <2>2. IsFiniteSet(({"IP"} \cup {"CCH"}) \cup {"CIP"})
    BY <2>1, FS_AddElement
  <2>3. Pool = ({"IP"} \cup {"CCH"}) \cup {"CIP"}
    BY DEF Pool
  <2> QED
    BY <2>2, <2>3
<1>4. IsFiniteSet(0..n)
  BY <1>1, FS_Interval
<1>5. IsFiniteSet(Pool \X (0..n))
  BY <1>3, <1>4, FS_Product
<1>6. Typed => \A s \in Socket : LinkOf(s) \in Pool \X Nat
  BY DEF Typed, TypeOK, LinkOf, PoolOf, Pool, Channel
<1> QED
  BY <1>2, <1>5, <1>6, FS_Subset

\* Sets of links can be listed.
LEMMA LinksListed ==
  ASSUME NEW U \in SUBSET Link
  PROVE  /\ SetToSeq(U) \in Seq(U)
         /\ \A i \in DOMAIN SetToSeq(U) : SetToSeq(U)[i] \in U
<1>1. IsFiniteSet(U)
  BY LinkTypes, FS_Subset
<1>2. Cardinality(U) \in Nat /\ ExistsBijection(1..Cardinality(U), U)
  BY <1>1, FS_CardinalityType
<1>3. \E f \in [1..Cardinality(U) -> U] : IsInjective(f)
  BY <1>2 DEF ExistsBijection, Bijection, Injection, IsInjective
<1>4. SetToSeq(U) \in [1..Cardinality(U) -> U]
  BY <1>3 DEF SetToSeq
<1> QED
  BY <1>2, <1>4

\* A command or its refusal.
LEMMA ExecuteTypes ==
  ASSUME Typed, NEW s \in Socket, NEW name \in Name, name # "None",
         NEW len \in Nat, NEW mask \in SUBSET {1, 2}, NEW step \in Await,
         Execute(s, name, len, mask, step)
  PROVE  /\ pc' \in Await /\ cur' \in Socket
         /\ need' \subseteq {1, 2} /\ failed' \in BOOLEAN
         /\ result' \in {"Pending", "Failure"}
         /\ rx' = rx /\ link' = link /\ command' \in CommandType
         /\ command'.name = "None" => command' = NoCommand
<1>1. NoCommand \in CommandType
  BY DEF NoCommand, CommandType, Name, Pool
<1>2. [name |-> name, link |-> LinkOf(s), len |-> len, of |-> s] \in CommandType
  BY LinkTypes DEF CommandType
<1> QED
  BY <1>1, <1>2 DEF Execute, Typed, TypeOK

\* The first n bytes of what waits are a packet.
LEMMA PacketTypes ==
  ASSUME Typed, NEW s \in Socket, Available(s) > 0
  PROVE  PacketLength(s) \in Nat
BY SimComAssumption DEF Typed, TypeOK, PacketLength, Available

\* What the application does keeps the types, ...
LEMMA AppTypes ==
  ASSUME Typed, App PROVE Typed'
<1> USE DEF Typed, TypeOK
<1>1. ASSUME NEW s \in Socket, ReleaseSocket(s) \/ Disconnect(s) PROVE Typed'
  <2>1. /\ Released(flags[s]) \in SUBSET SocketFlag
        /\ CloseRequested(flags[s]) \in SUBSET SocketFlag
    BY FlagTypes
  <2>2. CASE ReleaseSocket(s)
    BY <2>1, <2>2 DEF ReleaseSocket, sendVars, taskVars, atVars, deviceVars
  <2>3. CASE Disconnect(s)
    BY <2>1, <2>3 DEF Disconnect, sendVars, taskVars, atVars, deviceVars
  <2> QED
    BY <1>1, <2>2, <2>3
<1>2. ASSUME NEW s \in Socket, WriteOutput(s) PROVE Typed'
  <2>1. \A n \in (written[s] + 1)..MaxWritten : n \in Nat
    BY SimComAssumption
  <2> QED
    BY <1>2, <2>1 DEF WriteOutput, taskVars, atVars, deviceVars
<1>3. ASSUME NEW s \in Socket, NEW tls \in BOOLEAN, CreateSocket(s, tls)
      PROVE  Typed'
  <2>1. NewSocket(tls) \in SUBSET SocketFlag
    BY OtherUpdates
  <2> QED
    BY <1>3, <2>1 DEF CreateSocket, taskVars, atVars, deviceVars, Channel
<1> QED
  BY <1>1, <1>2, <1>3 DEF App

\* ... and so does what the task does, ...
LEMMA TaskTypes ==
  ASSUME Typed, FrameInv, Task PROVE Typed'
<1> DEFINE Rest ==
      /\ model' = model /\ listed' = listed /\ phase' = phase
      /\ written' = written
<1>1. ASSUME NEW s \in Socket, NEW name \in Name, name # "None",
             NEW len \in Nat, NEW mask \in SUBSET {1, 2}, NEW step \in Await,
             Execute(s, name, len, mask, step), Rest, channel' = channel,
             error' = error, position' = position,
             flags' \in [Socket -> SUBSET SocketFlag],
             outgoing' \in [Socket -> Nat]
      PROVE  Typed'
  <2>1. /\ pc' \in Await /\ cur' \in Socket
        /\ need' \subseteq {1, 2} /\ failed' \in BOOLEAN
        /\ result' \in {"Pending", "Failure"}
        /\ rx' = rx /\ link' = link /\ command' \in CommandType
        /\ command'.name = "None" => command' = NoCommand
    BY <1>1, ExecuteTypes
  <2> QED
    BY <1>1, <2>1 DEF Typed, TypeOK, Await
<1>2. ASSUME NEW s \in Socket, CloseImpl(s) PROVE Typed'
  <2>1. flags[s] \cup {"ModemClosing"} \in SUBSET SocketFlag
    BY FlagTypes DEF Typed, TypeOK
  <2>2. Execute(s, "Close", 0, {1}, "CloseImpl")
    BY <1>2 DEF CloseImpl
  <2> QED
    BY <1>1, <1>2, <2>1, <2>2
    DEF CloseImpl, sendVars, Typed, TypeOK, Name, Await
<1>3. ASSUME NEW s \in Socket, TryAllocateImpl(s) PROVE Typed'
  <2>1. Allocate(flags[s]) \in SUBSET SocketFlag
    BY FlagTypes DEF Typed, TypeOK
  <2>2. \A c \in Free(s) : c \in Nat
    BY DEF Free
  <2> QED
    BY <1>3, <2>1, <2>2
    DEF TryAllocateImpl, sendVars, taskVars, atVars, deviceVars, Typed, TypeOK,
        Channel
<1>4. ASSUME NEW s \in Socket, ConnectImpl(s) PROVE Typed'
  <2>1. flags[s] \cup {"ModemConnecting"} \in SUBSET SocketFlag
    BY FlagTypes DEF Typed, TypeOK
  <2>2. \/ Execute(s, "CIPSSL", 0, {1}, "ConnectSecurity")
        \/ Execute(s, "Open", 0, {1}, "ConnectImpl")
    BY <1>4 DEF ConnectImpl
  <2>3. /\ Rest /\ channel' = channel /\ error' = error /\ position' = position
        /\ flags' \in [Socket -> SUBSET SocketFlag]
        /\ outgoing' \in [Socket -> Nat]
    BY <1>4, <2>1 DEF ConnectImpl, sendVars, Typed, TypeOK
  <2> QED
    BY <1>1, <2>2, <2>3 DEF Name, Await
<1>5. ASSUME NEW s \in Socket, Send(s), Available(s) > 0,
             Rest, channel' = channel, error' = error, position' = position
      PROVE  Typed'
  <2>1. Sending(flags[s]) \in SUBSET SocketFlag
    BY FlagTypes DEF Typed, TypeOK
  <2>2. PacketLength(s) \in Nat
    BY <1>5, PacketTypes
  <2>3. \E mask \in SUBSET {1, 2} :
          Execute(s, "Send", PacketLength(s), mask, "SendPacketImpl")
    BY <1>5 DEF Send
  <2>4. /\ flags' \in [Socket -> SUBSET SocketFlag]
        /\ outgoing' \in [Socket -> Nat]
    BY <1>5, <2>1, <2>2 DEF Send, Typed, TypeOK
  <2> QED
    BY <1>1, <1>5, <2>2, <2>3, <2>4 DEF Name, Await
<1>6. ASSUME NEW s \in Socket, SendPacketImpl(s) PROVE Typed'
  <2>1. /\ Rest /\ channel' = channel /\ error' = error /\ position' = position
        /\ Available(s) > 0
    BY <1>6 DEF SendPacketImpl, DataToSend
  <2>2. CASE failed
    BY <1>6, <2>2 DEF SendPacketImpl, deviceVars, Typed, TypeOK
  <2>3. CASE ~failed /\ NeedsAck(s)
    <3>1. Execute(s, "CIPACK", 0, {1, 2}, "SendAck")
      BY <1>6, <2>3 DEF SendPacketImpl
    <3>2. flags' = flags /\ outgoing' = outgoing
      BY <1>6, <2>3 DEF SendPacketImpl
    <3> QED
      BY <1>1, <2>1, <3>1, <3>2 DEF Typed, TypeOK, Name, Await
  <2>4. CASE ~failed /\ ~NeedsAck(s)
    <3>1. Send(s)
      BY <1>6, <2>4 DEF SendPacketImpl
    <3> QED
      BY <1>5, <2>1, <3>1
  <2> QED
    BY <2>2, <2>3, <2>4
<1>7. ASSUME NEW s \in Socket, NEW name \in {"Receive", "Check"},
             RequestIncoming(s, name)
      PROVE  Typed'
  <2>1. IncomingRequested(flags[s]) \in SUBSET SocketFlag
    BY FlagTypes DEF Typed, TypeOK
  <2>2. Execute(s, name, MaxPacket, {1}, "ReceiveImpl")
    BY <1>7 DEF RequestIncoming
  <2>3. /\ Rest /\ channel' = channel /\ error' = error /\ position' = position
        /\ flags' \in [Socket -> SUBSET SocketFlag]
        /\ outgoing' \in [Socket -> Nat]
    BY <1>7, <2>1 DEF RequestIncoming, sendVars, Typed, TypeOK
  <2> QED
    BY <1>1, <2>2, <2>3, SimComAssumption DEF Name, Await
<1>9. CASE RemoveSockets
  <2>1. /\ listed' \subseteq Socket
        /\ flags' \in [Socket -> SUBSET SocketFlag]
        /\ channel' \in [Socket -> Channel]
        /\ outgoing' \in [Socket -> Nat]
        /\ error' \in [Socket -> BOOLEAN]
        /\ written' \in [Socket -> Nat] /\ position' \in [Socket -> Nat]
    BY <1>9 DEF RemoveSockets, Typed, TypeOK, Channel
  <2> QED
    BY <1>9, <2>1 DEF RemoveSockets, atVars, deviceVars, Typed, TypeOK
<1>10. CASE PowerCycle
  <2>2. flags' \in [Socket -> SUBSET SocketFlag]
    BY <1>10, FlagTypes DEF PowerCycle, Typed, TypeOK
  <2>3. NoCommand \in CommandType /\ NoConnection \in LinkType
    BY DEF NoCommand, CommandType, Name, Pool, NoConnection, LinkType
  <2>4. /\ listed' \subseteq Socket
        /\ channel' \in [Socket -> Channel]
        /\ outgoing' \in [Socket -> Nat]
        /\ error' \in [Socket -> BOOLEAN]
        /\ written' \in [Socket -> Nat] /\ position' \in [Socket -> Nat]
    BY <1>10 DEF PowerCycle, sendVars, Typed, TypeOK
  <2>5. /\ model' = model /\ pc' = pc /\ cur' = cur /\ phase' = "Close"
        /\ need' = {} /\ result' = "OK" /\ failed' = FALSE
        /\ command' = NoCommand /\ link' = [l \in Link |-> NoConnection]
        /\ rx' = <<>>
    BY <1>10 DEF PowerCycle
  <2>6. <<>> \in Seq(LineType)
    OBVIOUS
  <2>7. [l \in Link |-> NoConnection] \in [Link -> LinkType]
    BY <2>3
  <2>8. /\ model' \in Model /\ phase' \in {"Close", "Serve"}
        /\ pc' = pc /\ cur' = cur
        /\ need' \subseteq {1, 2} /\ failed' \in BOOLEAN /\ result' = "OK"
        /\ rx' \in Seq(LineType)
        /\ link' \in [Link -> LinkType]
        /\ command' \in CommandType /\ command' = NoCommand
    BY <2>3, <2>5, <2>6, <2>7 DEF Typed, TypeOK
  <2> QED
    BY <2>2, <2>4, <2>8 DEF Typed, TypeOK
<1>11. CASE SecurityReturns
  <2>1. cur \in Socket
    BY <1>11 DEF SecurityReturns, Awaiting, FrameInv, Typed, TypeOK
  <2>2. CASE result = "OK"
    <3>1. Execute(cur, "Open", 0, {1}, "ConnectImpl")
      BY <1>11, <2>2 DEF SecurityReturns
    <3>2. /\ Rest /\ channel' = channel /\ error' = error
          /\ position' = position /\ flags' = flags /\ outgoing' = outgoing
      BY <1>11 DEF SecurityReturns, socketVars, sendVars
    <3> QED
      BY <1>1, <2>1, <3>1, <3>2 DEF Typed, TypeOK, Name, Await
  <2>3. CASE result # "OK"
    BY <1>11, <2>3
    DEF SecurityReturns, Return, socketVars, sendVars, atVars, deviceVars,
        Typed, TypeOK
  <2> QED
    BY <2>2, <2>3
<1>12. CASE ConnectReturns
  <2>1. Bound(flags[cur]) \in SUBSET SocketFlag
        /\ Finished(flags[cur]) \in SUBSET SocketFlag
    BY <1>12, FlagTypes DEF ConnectReturns, Awaiting, FrameInv, Typed, TypeOK
  <2> QED
    BY <1>12, <2>1
    DEF ConnectReturns, Return, sendVars, atVars, deviceVars, Typed, TypeOK
<1>13. CASE AckReturns
  <2>1. cur \in Socket
    BY <1>13 DEF AckReturns, Awaiting, FrameInv, Typed, TypeOK
  <2>2. /\ Rest /\ channel' = channel /\ error' = error
        /\ position' = position
    BY <1>13 DEF AckReturns
  <2>3. CASE result = "OK" /\ Available(cur) > 0
    <3>1. Send(cur)
      BY <1>13, <2>3 DEF AckReturns
    <3> QED
      BY <1>5, <2>1, <2>2, <2>3, <3>1
  <2>4. CASE ~(result = "OK" /\ Available(cur) > 0)
    BY <1>13, <2>2, <2>4
    DEF AckReturns, Return, atVars, deviceVars, Typed, TypeOK
  <2> QED
    BY <2>3, <2>4
<1>14. CASE SendReturns
  <2>1. cur \in Socket => SendingFinished(flags[cur]) \in SUBSET SocketFlag
    BY FlagTypes DEF Typed, TypeOK
  <2>2. cur \in Socket
    BY <1>14 DEF SendReturns, Awaiting, FrameInv, Typed, TypeOK
  <2>3. /\ flags' \in [Socket -> SUBSET SocketFlag]
        /\ outgoing' \in [Socket -> Nat]
    <3>1. \/ /\ flags' = [flags EXCEPT ![cur] = SendingFinished(@)]
             /\ outgoing' = [outgoing EXCEPT ![cur] = 0]
          \/ flags' = flags /\ outgoing' = outgoing
      BY <1>14 DEF SendReturns
    <3>2. /\ flags \in [Socket -> SUBSET SocketFlag]
          /\ outgoing \in [Socket -> Nat]
      BY DEF Typed, TypeOK
    <3> QED
      BY <2>1, <2>2, <3>1, <3>2
  <2>4. /\ model' = model /\ listed' = listed /\ channel' = channel
        /\ error' = error /\ written' = written /\ position' = position
        /\ phase' = phase /\ pc' = "Idle" /\ cur' = NULL
        /\ need' = need /\ result' = result /\ failed' = failed
        /\ command' = command /\ link' = link /\ rx' = rx
    BY <1>14 DEF SendReturns, Return, atVars, deviceVars
  <2> QED
    BY <2>3, <2>4 DEF Typed, TypeOK
<1>15. CASE CallReturns
  BY <1>15
  DEF CallReturns, Return, socketVars, sendVars, atVars, deviceVars, Typed,
      TypeOK
<1>16. CASE CommandTimesOut
  BY <1>16
  DEF CommandTimesOut, socketVars, sendVars, taskVars, deviceVars, Typed,
      TypeOK
<1>17. CASE NextPass
  BY <1>17
  DEF NextPass, socketVars, sendVars, atVars, deviceVars, Typed, TypeOK
<1> QED
  BY <1>2, <1>3, <1>4, <1>6, <1>7, <1>9, <1>10, <1>11, <1>12, <1>13, <1>14,
     <1>15, <1>16, <1>17 DEF Task, ReceivePacketImpl, CheckIncomingImpl

\* The socket a line finds has the channel and is secure.
LEMMA FoundSocket ==
  ASSUME Typed, NEW c
  PROVE  \/ FindSocket(c) = NULL
         \/ /\ FindSocket(c) \in listed /\ FindSocket(c) \in Socket
            /\ IsAllocated(flags[FindSocket(c)]) /\ IsSecure(FindSocket(c))
            /\ channel[FindSocket(c)] = c
<1> DEFINE found == {s \in listed : /\ IsAllocated(flags[s]) /\ IsSecure(s)
                                    /\ channel[s] = c}
<1>1. FindSocket(c) = IF found = {} THEN NULL ELSE CHOOSE s \in found : TRUE
  BY DEF FindSocket
<1>2. found # {} => (CHOOSE s \in found : TRUE) \in found
  OBVIOUS
<1> QED
  BY <1>1, <1>2 DEF Typed, TypeOK

\* The effects of a line on the socket it is about.
LEMMA UpdateTypes ==
  ASSUME Typed,
         NEW g, g = flags \/ \E s \in Socket :
                  \/ g = [flags EXCEPT ![s] = Connected(@)]
                  \/ g = [flags EXCEPT ![s] = Finished(@)]
                  \/ g = [flags EXCEPT ![s] = MaybeIncoming(@)]
                  \/ g = [flags EXCEPT ![s] = Incoming(@)]
                  \/ g = [flags EXCEPT ![s] = SendingFinished(@)]
  PROVE  g \in [Socket -> SUBSET SocketFlag]
<1>1. flags \in [Socket -> SUBSET SocketFlag]
  BY DEF Typed, TypeOK
<1>2. \A s \in Socket : /\ Connected(flags[s]) \in SUBSET SocketFlag
                        /\ Finished(flags[s]) \in SUBSET SocketFlag
                        /\ MaybeIncoming(flags[s]) \in SUBSET SocketFlag
                        /\ Incoming(flags[s]) \in SUBSET SocketFlag
                        /\ SendingFinished(flags[s]) \in SUBSET SocketFlag
  BY <1>1, FlagTypes
<1> QED
  BY <1>1, <1>2

\* ... and what reading a line does.
LEMMA RxTypes ==
  ASSUME Typed, FrameInv, RxTask PROVE Typed'
<1> DEFINE Rest ==
      /\ model' = model /\ listed' = listed /\ channel' = channel
      /\ written' = written /\ phase' = phase /\ pc' = pc /\ cur' = cur
      /\ command' = command /\ link' = link
<1> DEFINE Sends4 ==
      outgoing' = outgoing /\ error' = error /\ position' = position
<1>1. rx # <<>> => /\ Tail(rx) \in Seq(LineType) /\ Head(rx) \in LineType
                   /\ Head(rx).value \in Nat
  <2>1. rx # <<>> => Tail(rx) \in Seq(LineType) /\ Head(rx) \in LineType
    BY LineRead DEF Typed
  <2> QED
    BY <2>1 DEF LineType
<1>2. ASSUME rx # <<>>, rx' = Tail(rx), Rest,
             flags' \in [Socket -> SUBSET SocketFlag],
             outgoing' \in [Socket -> Nat], error' \in [Socket -> BOOLEAN],
             position' \in [Socket -> Nat],
             need' \in SUBSET {1, 2}, failed' = failed,
             result' \in {result, "OK", "Error"}
      PROVE  Typed'
  BY <1>1, <1>2 DEF Typed, TypeOK
<1>3. ASSUME NEW b, ATComplete(b)
      PROVE  /\ need' \in SUBSET {1, 2} /\ failed' = failed
             /\ result' \in {result, "OK"}
  BY <1>3 DEF ATComplete, Typed, TypeOK
<1>4. CASE OnOK
  <2>1. rx # <<>> /\ rx' = Tail(rx) /\ Rest /\ flags' = flags /\ Sends4
    BY <1>4 DEF OnOK, Reads, socketVars, sendVars, taskVars
  <2>2. ATComplete(1)
    BY <1>4 DEF OnOK
  <2> QED
    BY <1>2, <1>3, <2>1, <2>2 DEF Typed, TypeOK
<1>5. CASE OnError
  <2>1. /\ rx # <<>> /\ rx' = Tail(rx) /\ Rest /\ flags' = flags /\ Sends4
        /\ need' = {} /\ failed' = failed /\ result' \in {result, "Error"}
    BY <1>5 DEF OnError, Reads, socketVars, sendVars, taskVars
  <2> QED
    BY <1>2, <2>1 DEF Typed, TypeOK
<1>6. \/ Found = NULL
      \/ Found \in Socket /\ Found \in listed
  BY FoundSocket DEF Found
<1>7. CASE OnOpened \/ OnDisconnected \/ OnMaybeIncoming \/ OnIncoming
  <2>1. /\ rx # <<>> /\ rx' = Tail(rx) /\ Rest /\ Sends4
        /\ need' = need /\ failed' = failed /\ result' = result
    BY <1>7
    DEF OnOpened, OnDisconnected, OnMaybeIncoming, OnIncoming, Update, Reads,
        sendVars, taskVars, atVars
  <2>2. \/ flags' = flags
        \/ /\ Found # NULL
           /\ \/ flags' = [flags EXCEPT ![Found] = Connected(@)]
              \/ flags' = [flags EXCEPT ![Found] = Finished(@)]
              \/ flags' = [flags EXCEPT ![Found] = MaybeIncoming(@)]
              \/ flags' = [flags EXCEPT ![Found] = Incoming(@)]
    BY <1>7
    DEF OnOpened, OnDisconnected, OnMaybeIncoming, OnIncoming, Update
  <2>3. flags' \in [Socket -> SUBSET SocketFlag]
    BY <1>6, <2>2, UpdateTypes
  <2> QED
    BY <1>2, <2>1, <2>3 DEF Typed, TypeOK
<1>8. CASE OnCloseOk
  <2>1. rx # <<>> /\ rx' = Tail(rx) /\ Rest /\ Sends4 /\ ATComplete(1)
    BY <1>8 DEF OnCloseOk, Update, Reads, sendVars, taskVars
  <2>2. \/ flags' = flags
        \/ Found # NULL /\ flags' = [flags EXCEPT ![Found] = Finished(@)]
    BY <1>8 DEF OnCloseOk, Update
  <2>3. flags' \in [Socket -> SUBSET SocketFlag]
    BY <1>6, <2>2, UpdateTypes
  <2> QED
    BY <1>2, <1>3, <2>1, <2>3 DEF Typed, TypeOK
<1>9. CASE OnSendResponse
  <2>1. rx # <<>> /\ rx' = Tail(rx) /\ Rest
    BY <1>9
    DEF OnSendResponse, Reads, Sent, sendVars, taskVars
  <2>2. CASE ~Sends
    BY <1>2, <1>9, <2>1, <2>2
    DEF OnSendResponse, sendVars, atVars, Typed, TypeOK
  <2>3. CASE Sends
    <3>1. ATComplete(2)
      BY <1>9, <2>3 DEF OnSendResponse
    <3>2. Found # NULL => outgoing[Found] \in Nat
      BY <1>6 DEF Typed, TypeOK
    <3>3. /\ error \in [Socket -> BOOLEAN] /\ outgoing \in [Socket -> Nat]
          /\ position \in [Socket -> Nat]
          /\ flags \in [Socket -> SUBSET SocketFlag]
      BY DEF Typed, TypeOK
    <3>4. CASE Found = NULL
      <4>1. flags' = flags /\ Sends4
        BY <1>9, <2>3, <3>4 DEF OnSendResponse, Reads, Sent, sendVars
      <4> QED
        BY <1>2, <1>3, <2>1, <3>1, <3>3, <4>1
    <3>5. CASE Found # NULL
      <4>1. /\ flags' = [flags EXCEPT ![Found] = SendingFinished(@)]
            /\ outgoing' = [outgoing EXCEPT ![Found] = 0]
        BY <1>9, <2>3, <3>5 DEF OnSendResponse, Reads, Sent
      <4>2. \/ position' = [position EXCEPT ![Found] = @ + Head(rx).value]
            \/ position' = [position EXCEPT ![Found] = @ + 0]
            \/ position' = [position EXCEPT ![Found] = @ + outgoing[Found]]
        BY <1>9, <2>3, <3>5 DEF OnSendResponse, Reads, Sent
      <4>3. \/ error' = [error EXCEPT ![Found] = @ \/ FALSE]
            \/ error' = [error EXCEPT ![Found] = @ \/ TRUE]
        BY <1>9, <2>3, <3>5 DEF OnSendResponse, Reads, Sent
      <4>4. flags' \in [Socket -> SUBSET SocketFlag]
        BY <1>6, <3>5, <4>1, UpdateTypes
      <4>5. position' \in [Socket -> Nat]
        <5>1. PICK n \in Nat : position' = [position EXCEPT ![Found] = @ + n]
          BY <1>1, <2>1, <3>2, <3>5, <4>2
        <5>2. position[Found] + n \in Nat
          BY <1>6, <3>3, <3>5
        <5> QED
          BY <3>3, <5>1, <5>2
      <4>6. error' \in [Socket -> BOOLEAN]
        <5> DEFINE b == error[Found] \/ FALSE
                   c == error[Found] \/ TRUE
        <5>1. b \in BOOLEAN /\ c \in BOOLEAN
          BY ZenonT(20)
        <5>2. \/ error' = [error EXCEPT ![Found] = b]
              \/ error' = [error EXCEPT ![Found] = c]
          BY <4>3, ZenonT(20)
        <5> HIDE DEF b, c
        <5> QED
          BY <3>3, <5>1, <5>2
      <4>7. outgoing' \in [Socket -> Nat]
        BY <3>3, <4>1
      <4> QED
        BY <1>2, <1>3, <2>1, <3>1, <4>4, <4>5, <4>6, <4>7
    <3> QED
      BY <3>4, <3>5
  <2> QED
    BY <2>2, <2>3
<1>10. CASE OnReceiveAck
  <2>1. /\ rx # <<>> /\ rx' = Tail(rx) /\ Rest /\ flags' = flags
        /\ outgoing' = outgoing
    BY <1>10 DEF OnReceiveAck, Reads, taskVars
  <2>2. CASE ~(pc = "SendAck" /\ result = "Pending")
    BY <1>2, <1>10, <2>1, <2>2 DEF OnReceiveAck, atVars, Typed, TypeOK
  <2>3. CASE pc = "SendAck" /\ result = "Pending"
    <3>1. ATComplete(2)
      BY <1>10, <2>3 DEF OnReceiveAck
    <3>2. /\ position' = [position EXCEPT ![cur] = Head(rx).value]
          /\ error' = [error EXCEPT ![cur] = FALSE]
      BY <1>10, <2>3 DEF OnReceiveAck
    <3>3. position' \in [Socket -> Nat] /\ error' \in [Socket -> BOOLEAN]
      BY <1>1, <2>1, <3>2 DEF Typed, TypeOK
    <3> QED
      BY <1>2, <1>3, <2>1, <3>1, <3>3 DEF Typed, TypeOK
  <2> QED
    BY <2>2, <2>3
<1> QED
  BY <1>4, <1>5, <1>7, <1>8, <1>9, <1>10 DEF RxTask

\* A step of the modem leaves the driver's variables alone.
LEMMA DeviceOnly ==
  ASSUME Device
  PROVE  /\ model' = model /\ listed' = listed /\ flags' = flags
         /\ channel' = channel /\ outgoing' = outgoing /\ error' = error
         /\ written' = written /\ position' = position /\ phase' = phase
         /\ pc' = pc /\ cur' = cur /\ need' = need /\ result' = result
         /\ failed' = failed
BY DEF Device, DeviceRefuses, DeviceTakesSecurity, DeviceTakesOpen,
       DeviceCloses, DeviceSends, DeviceAcknowledges, DeviceHandsOver,
       DeviceReportsUnread, DeviceOpens, DeviceFailsToOpen, PeerCloses,
       DataArrives, driverVars, socketVars, sendVars, taskVars, atVars

-----------------------------------------------------------------------------
(* Steps of the modem *)

\* The lines r that are added are about connections there are, an end comes
\* with the last of them, ...
Reports(r) ==
  /\ rx' = rx \o r
  /\ \A i \in DOMAIN r : r[i].text \in Events =>
       \E l \in Link :
         /\ link[l].at # "idle" /\ r[i].of = link[l].of /\ r[i].ch = l[2]
         /\ r[i].text \in Terminal => l[1] # "CIP" /\ link'[l].at = "idle"
  /\ Ordered(r)

\* ... and answer the command, if it is done with.
Replies(r) ==
  \/ command' = command /\ Unanswered(r)
  \/ /\ command.name # "None" /\ command' = NoCommand
     /\ Fits(r, Mask(command.name))

\* No connection is new.
KeepsLinks ==
  \A l \in Link :
    /\ link'[l].at # "idle" => link[l].at # "idle" /\ link'[l].of = link[l].of
    /\ link'[l].unread => link'[l].at # "idle"

Behaves(r) ==
  /\ r \in Seq(LineType) /\ Reports(r) /\ Replies(r)
  /\ link' \in [Link -> LinkType]

\* The lines of the model are lines.
LEMMA LineTypes ==
  ASSUME Typed, NEW l \in Link, NEW t \in Events, NEW v \in Nat
  PROVE  /\ Line(t, l, v) \in LineType
         /\ Line(t, l, v).text = t /\ Line(t, l, v).ch = l[2]
         /\ Line(t, l, v).of = link[l].of
<1>1. l[2] \in Nat /\ link[l].of \in Socket \cup {NULL}
  BY LinkTypes DEF Typed, LinkType
<1> QED
  BY <1>1 DEF Line, LineType

\* Neither are results lines about a connection.
LEMMA ResultTypes ==
  ASSUME NEW t \in {"OK", "ERROR"}
  PROVE  /\ Result(t) \in LineType /\ Result(t).text = t
         /\ t \notin Events /\ t \in Answers
BY DEF Result, LineType, Events, Answers

\* Sequences of up to three lines.
LEMMA FewLines ==
  ASSUME NEW a \in LineType, NEW b \in LineType, NEW c \in LineType
  PROVE  /\ <<>> \in Seq(LineType) /\ <<a>> \in Seq(LineType)
         /\ <<a, b>> \in Seq(LineType) /\ <<a, b, c>> \in Seq(LineType)
         /\ DOMAIN <<>> = {} /\ DOMAIN <<a>> = {1} /\ DOMAIN <<a, b>> = {1, 2}
         /\ DOMAIN <<a, b, c>> = {1, 2, 3}
         /\ <<a>>[1] = a
         /\ <<a, b>>[1] = a /\ <<a, b>>[2] = b
         /\ <<a, b, c>>[1] = a /\ <<a, b, c>>[2] = b /\ <<a, b, c>>[3] = c
OBVIOUS

\* A line by itself, when nothing has been answered.
LEMMA Remark ==
  ASSUME Typed, NEW l \in Link, link[l].at # "idle",
         NEW t \in Events \ Answers, NEW v \in Nat,
         t \in Terminal => l[1] # "CIP" /\ link'[l].at = "idle",
         \/ rx' = rx \o <<>>
         \/ rx' = rx \o <<Line(t, l, v)>>,
         command' = command, link' \in [Link -> LinkType]
  PROVE  \E r : Behaves(r)
<1> DEFINE e == Line(t, l, v)
<1>1. /\ e \in LineType /\ e.text = t /\ e.ch = l[2] /\ e.of = link[l].of
      /\ t \notin Answers
  BY LineTypes
<1> HIDE DEF e
<1>2. CASE rx' = rx \o <<>>
  BY <1>1, <1>2, FewLines
  DEF Behaves, Reports, Replies, Ordered, Unanswered
<1>3. CASE rx' = rx \o <<e>>
  <2>1. <<e>> \in Seq(LineType) /\ DOMAIN <<e>> = {1} /\ <<e>>[1] = e
    BY <1>1, FewLines
  <2>2. Reports(<<e>>)
    BY <1>1, <1>3, <2>1 DEF Reports, Ordered
  <2>3. Replies(<<e>>)
    BY <1>1, <2>1 DEF Replies, Unanswered
  <2> QED
    BY <2>1, <2>2, <2>3 DEF Behaves
<1> QED
  BY <1>2, <1>3 DEF e

\* Every step of the modem behaves like that, and only one opens a connection.
LEMMA DeviceStep ==
  ASSUME Typed, Asked, Unread, Device
  PROVE  (\E r : Behaves(r)) /\ (KeepsLinks \/ DeviceTakesOpen)
<1>1. /\ link \in [Link -> LinkType]
      /\ command.len \in Nat /\ command.of \in Socket \cup {NULL}
      /\ NoConnection \in LinkType
      /\ NoConnection.at = "idle" /\ NoConnection.unread = FALSE
  BY DEF Typed, CommandType, NoConnection, LinkType
<1>2. command.name # "None" => At \in Link /\ link[At] \in LinkType
  BY <1>1 DEF Asked, At
<1>3. /\ "OK" \notin Events /\ "ERROR" \notin Events
      /\ {"OK", "ERROR"} \subseteq Answers
      /\ Answers \ {"OK", "ERROR"} \subseteq Events
      /\ Terminal \subseteq Events
  BY DEF Events, Answers, Terminal
<1>4. ASSUME NEW e \in LineType, command.name # "None", command' = NoCommand,
             rx' = rx \o <<e>>, link' \in [Link -> LinkType],
             e.text = "ERROR" \/ Bit(e.text) \in Mask(command.name),
             e.text \in Events =>
               /\ link[At].at # "idle" /\ e.of = link[At].of /\ e.ch = At[2]
               /\ e.text \in Terminal => At[1] # "CIP" /\ link'[At].at = "idle"
      PROVE  \E r : Behaves(r)
  <2>1. <<e>> \in Seq(LineType) /\ DOMAIN <<e>> = {1} /\ <<e>>[1] = e
    BY <1>4, FewLines
  <2>2. Reports(<<e>>)
    BY <1>2, <1>4, <2>1 DEF Reports, Ordered
  <2>3. Replies(<<e>>)
    BY <1>4, <2>1 DEF Replies, Fits
  <2> QED
    BY <1>4, <2>1, <2>2, <2>3 DEF Behaves
<1>5. ASSUME NEW t \in {"OK", "ERROR"}, command.name # "None",
             command' = NoCommand, rx' = rx \o <<Result(t)>>,
             link' \in [Link -> LinkType], t = "OK" => 1 \in Mask(command.name)
      PROVE  \E r : Behaves(r)
  <2>1. t = "OK" => Bit(t) = 1
    BY DEF Bit
  <2> QED
    BY <1>3, <1>4, <1>5, <2>1, ResultTypes
<1>6. CASE DeviceRefuses
  <2>1. command.name # "None" /\ link' = link
    BY <1>6 DEF DeviceRefuses, Typed
  <2>2. \E r : Behaves(r)
    BY <1>1, <1>5, <1>6, <2>1 DEF DeviceRefuses, Answer, Done
  <2> QED
    BY <2>1, <2>2 DEF KeepsLinks, Unread
<1>7. CASE DeviceTakesSecurity
  <2>1. command.name = "CIPSSL" /\ link' = link /\ Mask(command.name) = {1}
    BY <1>7 DEF DeviceTakesSecurity, Busy, Mask
  <2>2. \E r : Behaves(r)
    BY <1>1, <1>5, <1>7, <2>1 DEF DeviceTakesSecurity, Answer, Done
  <2> QED
    BY <2>1, <2>2 DEF KeepsLinks, Unread
<1>8. CASE DeviceTakesOpen
  <2>1. command.name = "Open" /\ Mask(command.name) = {1}
    BY <1>8 DEF DeviceTakesOpen, Busy, Mask
  <2>2. [at |-> "opening", of |-> command.of, taken |-> 0, unread |-> FALSE]
          \in LinkType
    BY <1>1 DEF LinkType
  <2>3. link' \in [Link -> LinkType]
    BY <1>1, <1>8, <2>2 DEF DeviceTakesOpen
  <2> QED
    BY <1>5, <1>8, <2>1, <2>3 DEF DeviceTakesOpen, Answer, Done
<1>9. ASSUME NEW l \in Link, DeviceOpens(l)
      PROVE  (\E r : Behaves(r)) /\ KeepsLinks
  <2>1. link' = [link EXCEPT ![l].at = "open"] /\ link[l].at = "opening"
    BY <1>9 DEF DeviceOpens
  <2>2. [link[l] EXCEPT !.at = "open"] \in LinkType
    BY <1>1 DEF LinkType
  <2>3. link' \in [Link -> LinkType]
    BY <1>1, <2>1, <2>2
  <2>4. \A k \in Link : link'[k].at # "idle" => link[k].at # "idle"
                        /\ link'[k].of = link[k].of
    BY <1>1, <2>1 DEF LinkType
  <2>5. \A k \in Link : link'[k].unread => link'[k].at # "idle"
    BY <1>1, <2>1 DEF Unread, LinkType
  <2>6. "Opened" \in Events \ Answers /\ "Opened" \notin Terminal
    BY DEF Events, Answers, Terminal
  <2>7. rx' = rx \o <<>> \/ rx' = rx \o <<Line("Opened", l, 0)>>
    BY <1>9 DEF DeviceOpens, Answer
  <2>8. command' = command
    BY <1>9 DEF DeviceOpens
  <2> QED
    BY <2>1, <2>3, <2>4, <2>5, <2>6, <2>7, <2>8, Remark DEF KeepsLinks
<1>10. ASSUME NEW l \in Link, link' = [link EXCEPT ![l] = NoConnection]
       PROVE  /\ link' \in [Link -> LinkType] /\ link'[l].at = "idle"
              /\ KeepsLinks
  BY <1>1, <1>10 DEF KeepsLinks, Unread
<1>11. ASSUME NEW l \in Link, DeviceFailsToOpen(l)
       PROVE  (\E r : Behaves(r)) /\ KeepsLinks
  <2>1. /\ link' = [link EXCEPT ![l] = NoConnection] /\ link[l].at = "opening"
        /\ command' = command
    BY <1>11 DEF DeviceFailsToOpen
  <2>2. "OpenFailed" \in Events \ Answers
    BY DEF Events, Answers
  <2>3. CASE l[1] = "CCH"
    <3>1. rx' = rx \o <<Line("OpenFailed", l, 1)>>
      BY <1>11, <2>3 DEF DeviceFailsToOpen, Answer
    <3> QED
      BY <1>10, <2>1, <2>2, <2>3, <3>1, Remark
  <2>4. CASE l[1] # "CCH"
    <3>1. rx' = rx \o <<>>
      BY <1>11, <2>4 DEF DeviceFailsToOpen, Answer
    <3>2. "Data" \in Events \ Answers /\ "Data" \notin Terminal
      BY DEF Events, Answers, Terminal
    <3> QED
      BY <1>10, <2>1, <3>1, <3>2, Remark
  <2> QED
    BY <2>3, <2>4
<1>12. ASSUME NEW l \in Link, PeerCloses(l)
       PROVE  (\E r : Behaves(r)) /\ KeepsLinks
  <2>1. /\ link' = [link EXCEPT ![l] = NoConnection] /\ link[l].at # "idle"
        /\ command' = command
    BY <1>12 DEF PeerCloses, IsOpen
  <2>2. "Closed" \in Events \ Answers
    BY DEF Events, Answers
  <2>3. CASE l[1] # "CIP"
    <3>1. rx' = rx \o <<Line("Closed", l, 0)>>
      BY <1>12, <2>3 DEF PeerCloses, Answer
    <3> QED
      BY <1>10, <2>1, <2>2, <2>3, <3>1, Remark
  <2>4. CASE l[1] = "CIP"
    <3>1. rx' = rx \o <<>>
      BY <1>12, <2>4 DEF PeerCloses, Answer
    <3>2. "Data" \in Events \ Answers /\ "Data" \notin Terminal
      BY DEF Events, Answers, Terminal
    <3> QED
      BY <1>10, <2>1, <3>1, <3>2, Remark
  <2> QED
    BY <2>3, <2>4
<1>13. ASSUME NEW l \in Link, DataArrives(l)
       PROVE  (\E r : Behaves(r)) /\ KeepsLinks
  <2>1. /\ link' = [link EXCEPT ![l].unread = l[1] = "CCH"]
        /\ link[l].at = "open" /\ command' = command
    BY <1>13 DEF DataArrives, IsOpen
  <2> DEFINE b == l[1] = "CCH"
  <2>2. b \in BOOLEAN
    OBVIOUS
  <2>3. link' = [link EXCEPT ![l].unread = b]
    BY <2>1
  <2> HIDE DEF b
  <2>4. [link[l] EXCEPT !.unread = b] \in LinkType
    BY <1>1, <2>2 DEF LinkType
  <2>5. link' \in [Link -> LinkType]
    BY <1>1, <2>3, <2>4
  <2>6. \A k \in Link : /\ link'[k].at = link[k].at /\ link'[k].of = link[k].of
                        /\ k # l => link'[k] = link[k]
    BY <1>1, <2>3 DEF LinkType
  <2>7. KeepsLinks
    BY <2>1, <2>6 DEF KeepsLinks, Unread
  <2>8. \E t \in {"RecvEvent", "Data"} : rx' = rx \o <<Line(t, l, 1)>>
    BY <1>13 DEF DataArrives, Answer
  <2>9. \A t \in {"RecvEvent", "Data"} :
          t \in Events \ Answers /\ t \notin Terminal
    BY DEF Events, Answers, Terminal
  <2> QED
    BY <2>1, <2>5, <2>7, <2>8, <2>9, Remark
<1>14. ASSUME NEW e \in LineType, NEW f \in LineType, command.name # "None",
              command' = NoCommand, rx' = rx \o <<e, f>>,
              link' \in [Link -> LinkType],
              \A x \in {e, f} :
                /\ x.text # "ERROR"
                /\ x.text \in Answers => Bit(x.text) \in Mask(command.name)
                /\ x.text \in Events =>
                     /\ link[At].at # "idle" /\ x.of = link[At].of
                     /\ x.ch = At[2]
                     /\ x.text \in Terminal =>
                          At[1] # "CIP" /\ link'[At].at = "idle",
              e.text \notin Terminal,
              e.text \in Answers /\ f.text \in Answers =>
                Bit(e.text) # Bit(f.text)
       PROVE  \E r : Behaves(r)
  <2>1. /\ <<e, f>> \in Seq(LineType) /\ DOMAIN <<e, f>> = {1, 2}
        /\ <<e, f>>[1] = e /\ <<e, f>>[2] = f
    BY <1>14, FewLines
  <2>2. Ordered(<<e, f>>)
    BY <1>14, <2>1 DEF Ordered
  <2>3. Reports(<<e, f>>)
    BY <1>2, <1>14, <2>1, <2>2 DEF Reports
  <2>4. Fits(<<e, f>>, Mask(command.name))
    BY <1>14, <2>1 DEF Fits
  <2> QED
    BY <1>14, <2>1, <2>3, <2>4 DEF Behaves, Replies
<1>15. /\ Result("OK") \in LineType /\ Result("OK").text = "OK"
       /\ Bit("OK") = 1 /\ Bit("CLOSE OK") = 1
       /\ \A t \in Answers \ {"OK", "CLOSE OK"} : Bit(t) = 2
  BY ResultTypes DEF Bit
<1>16. \A t \in Events, v \in Nat : command.name # "None" =>
         /\ Says(t, v) \in LineType /\ Says(t, v).text = t
         /\ Says(t, v).ch = At[2] /\ Says(t, v).of = link[At].of
  BY <1>2, LineTypes DEF Says
<1> DEFINE Tells(t) ==
      /\ command.name # "None" /\ command' = NoCommand
      /\ link' \in [Link -> LinkType] /\ link[At].at # "idle"
      /\ t \in Terminal => At[1] # "CIP" /\ link'[At].at = "idle"
<1>22. ASSUME NEW t \in Events, NEW v \in Nat, Tells(t),
              Bit(t) \in Mask(command.name), rx' = rx \o <<Says(t, v)>>
       PROVE  \E r : Behaves(r)
  <2>1. /\ Says(t, v) \in LineType /\ Says(t, v).text = t
        /\ Says(t, v).ch = At[2] /\ Says(t, v).of = link[At].of
    BY <1>16, <1>22
  <2> QED
    BY <1>4, <1>22, <2>1
<1>23. ASSUME NEW t \in Events, NEW v \in Nat, Tells(t),
              1 \in Mask(command.name),
              t \in Answers => Bit(t) = 2 /\ 2 \in Mask(command.name),
              rx' = rx \o <<Result("OK"), Says(t, v)>>
       PROVE  \E r : Behaves(r)
  <2> DEFINE e == Result("OK")
             f == Says(t, v)
  <2>1. /\ f \in LineType /\ f.text = t /\ f.ch = At[2] /\ f.of = link[At].of
    BY <1>16, <1>23
  <2>2. e \in LineType /\ e.text = "OK" /\ Bit(e.text) = 1
    BY <1>15
  <2>3. rx' = rx \o <<e, f>>
    BY <1>23
  <2>4. "OK" \notin Terminal /\ t # "ERROR"
    BY <1>3 DEF Terminal
  <2> HIDE DEF e, f
  <2>5. \A x \in {e, f} :
          /\ x.text # "ERROR"
          /\ x.text \in Answers => Bit(x.text) \in Mask(command.name)
          /\ x.text \in Events =>
               /\ link[At].at # "idle" /\ x.of = link[At].of /\ x.ch = At[2]
               /\ x.text \in Terminal =>
                    At[1] # "CIP" /\ link'[At].at = "idle"
    BY <1>3, <1>23, <2>1, <2>2, <2>4
  <2>6. e.text \in Answers /\ f.text \in Answers => Bit(e.text) # Bit(f.text)
    BY <1>23, <2>1, <2>2
  <2> QED
    BY <1>14, <1>23, <2>1, <2>2, <2>3, <2>4, <2>5, <2>6
<1>17. CASE DeviceCloses
  <2>1. /\ command.name = "Close" /\ command' = NoCommand
        /\ link[At].at # "idle" /\ link' = [link EXCEPT ![At] = NoConnection]
    BY <1>17 DEF DeviceCloses, Busy, Done
  <2>2. Mask("Close") = {1}
    BY DEF Mask
  <2>3. At[1] \in {"IP", "CCH", "CIP"}
    BY <1>2, <2>1, LinkTypes DEF Pool
  <2>4. CASE At[1] = "IP"
    <3>1. rx' = rx \o <<Says("CLOSE OK", 0)>>
      BY <1>17, <2>4 DEF DeviceCloses, Answer
    <3>2. "CLOSE OK" \in Events
      BY DEF Events
    <3> HIDE DEF Says
    <3> QED
      BY <1>2, <1>10, <1>15, <1>22, <2>1, <2>2, <2>4, <3>1, <3>2
  <2>5. CASE At[1] = "CCH"
    <3>1. rx' = rx \o <<Result("OK"), Says("Closed", 0)>>
      BY <1>17, <2>5 DEF DeviceCloses, Answer
    <3>2. "Closed" \in Events /\ "Closed" \notin Answers /\ "OK" \notin Terminal
      BY DEF Events, Answers, Terminal
    <3>3. \E r : Behaves(r)
      BY <1>2, <1>10, <1>23, <2>1, <2>2, <2>5, <3>1, <3>2
    <3> QED
      BY <1>2, <1>10, <2>1, <3>3
  <2>6. CASE At[1] = "CIP"
    <3>1. rx' = rx \o <<Result("OK")>>
      BY <1>17, <2>6 DEF DeviceCloses, Answer
    <3> QED
      BY <1>2, <1>5, <1>10, <2>1, <2>2, <3>1
  <2> QED
    BY <2>3, <2>4, <2>5, <2>6
<1>18. CASE DeviceSends
  <2>1. command.name = "Send" /\ command' = NoCommand /\ link[At].at = "open"
    BY <1>18 DEF DeviceSends, Busy, Done, IsOpen
  <2>2. PICK n \in 0..command.len :
          /\ link' = [link EXCEPT ![At].taken = @ + n]
          /\ rx' = rx \o
               (CASE At[1] = "CCH" ->
                      <<Result("OK"), Says("+CCHSEND", IF n = 0 THEN 1 ELSE 0)>>
                  [] At[1] = "IP" /\ n = command.len ->
                      <<Says("DATA ACCEPT", n)>>
                  [] OTHER -> <<Says("SEND FAIL", 0)>>)
    BY <1>18 DEF DeviceSends, Answer
  <2>3. n \in Nat
    <3>1. 0..command.len \subseteq Nat
      BY <1>1
    <3> QED
      BY <2>2, <3>1
  <2>4. [link[At] EXCEPT !.taken = @ + n] \in LinkType
    BY <1>2, <2>1, <2>3 DEF LinkType
  <2>5. /\ link' \in [Link -> LinkType]
        /\ \A k \in Link : /\ link'[k].at = link[k].at
                           /\ link'[k].of = link[k].of
                           /\ link'[k].unread = link[k].unread
    BY <1>1, <1>2, <2>1, <2>2, <2>4 DEF LinkType
  <2>6. KeepsLinks
    BY <2>5 DEF KeepsLinks, Unread
  <2>7. 2 \in Mask("Send") /\ (At[1] # "IP" => 1 \in Mask("Send"))
    BY <2>1 DEF Mask, Asked, At
  <2>8. \A t \in {"+CCHSEND", "DATA ACCEPT", "SEND FAIL"} :
          /\ t \in Events /\ t \in Answers \ {"OK", "CLOSE OK"}
          /\ t \notin Terminal /\ t # "ERROR"
    BY DEF Events, Answers, Terminal
  <2>9. CASE At[1] = "CCH"
    <3>1. PICK v \in Nat : rx' = rx \o <<Result("OK"), Says("+CCHSEND", v)>>
      BY <2>2, <2>9
    <3>3. \E r : Behaves(r)
      BY <1>2, <1>15, <1>23, <2>1, <2>5, <2>7, <2>8, <2>9, <3>1
    <3> QED
      BY <2>6, <3>3
  <2>10. CASE At[1] # "CCH"
    <3>1. \E t \in {"DATA ACCEPT", "SEND FAIL"}, v \in Nat :
            rx' = rx \o <<Says(t, v)>>
      BY <2>2, <2>3, <2>10
    <3>2. \E r : Behaves(r)
      BY <1>2, <1>15, <1>22, <2>1, <2>5, <2>7, <2>8, <3>1
    <3> QED
      BY <2>6, <3>2
  <2> QED
    BY <2>9, <2>10
<1>19. CASE DeviceAcknowledges
  <2>1. /\ command.name = "CIPACK" /\ command' = NoCommand
        /\ link[At].at = "open" /\ link' = link
        /\ rx' = rx \o <<Says("+CIPACK", link[At].taken), Result("OK")>>
    BY <1>19 DEF DeviceAcknowledges, Busy, Done, IsOpen, Answer
  <2>2. Mask("CIPACK") = {1, 2} /\ link[At].taken \in Nat
    BY <1>2, <2>1 DEF Mask, LinkType
  <2>3. /\ "+CIPACK" \in Events /\ "+CIPACK" \in Answers \ {"OK", "CLOSE OK"}
        /\ "+CIPACK" \notin Terminal /\ "OK" \notin Terminal
    BY DEF Events, Answers, Terminal
  <2> DEFINE e == Says("+CIPACK", link[At].taken)
             f == Result("OK")
  <2>5. /\ e \in LineType /\ e.text = "+CIPACK"
        /\ e.ch = At[2] /\ e.of = link[At].of
    BY <1>16, <2>1, <2>2, <2>3
  <2>6. f \in LineType /\ f.text = "OK"
    BY <1>15
  <2>7. rx' = rx \o <<e, f>>
    BY <2>1
  <2> HIDE DEF e, f
  <2>8. \A x \in {e, f} :
          /\ x.text # "ERROR"
          /\ x.text \in Answers => Bit(x.text) \in Mask(command.name)
          /\ x.text \in Events =>
               /\ link[At].at # "idle" /\ x.of = link[At].of /\ x.ch = At[2]
               /\ x.text \in Terminal =>
                    At[1] # "CIP" /\ link'[At].at = "idle"
    BY <1>3, <1>15, <2>1, <2>2, <2>3, <2>5, <2>6
  <2>9. e.text \in Answers /\ f.text \in Answers => Bit(e.text) # Bit(f.text)
    <3>1. Bit("+CIPACK") = 2 /\ Bit("OK") = 1
      BY <1>15, <2>3
    <3> QED
      BY <2>5, <2>6, <3>1
  <2>10. command.name # "None" /\ link' \in [Link -> LinkType]
    BY <1>1, <2>1
  <2>4. \E r : Behaves(r)
    BY <1>14, <2>1, <2>3, <2>5, <2>6, <2>7, <2>8, <2>9, <2>10
  <2> QED
    BY <2>1, <2>4 DEF KeepsLinks, Unread
<1>20. CASE DeviceHandsOver
  <2>1. /\ command.name = "Receive" /\ command' = NoCommand
        /\ link[At].at = "open" /\ At[1] # "CIP"
    BY <1>20 DEF DeviceHandsOver, Busy, Done, IsOpen, Asked, At
  <2>2. Mask("Receive") = {1}
    BY DEF Mask
  <2>3. \A t \in {"Data", "EndOfReceive", "ReceiveFailed"} :
          t \in Events /\ t \notin Answers
    BY DEF Events, Answers
  <2>4. /\ "OK" \notin Terminal /\ "Data" \notin Terminal
        /\ "EndOfReceive" \notin Terminal
    BY DEF Terminal
  <2>5. CASE /\ rx' = rx \o <<Result("OK"), Says("ReceiveFailed", 1)>>
             /\ link' = [link EXCEPT ![At] = NoConnection]
    <3>1. \E r : Behaves(r)
      BY <1>2, <1>10, <1>23, <2>1, <2>2, <2>3, <2>5
    <3> QED
      BY <1>2, <1>10, <2>1, <2>5, <3>1
  <2>6. CASE /\ link[At].unread
             /\ rx' = rx \o
                  <<Result("OK"), Says("Data", 1), Says("EndOfReceive", 0)>>
             /\ link' = [link EXCEPT ![At].unread = FALSE]
    <3>1. [link[At] EXCEPT !.unread = FALSE] \in LinkType
      BY <1>2, <2>1 DEF LinkType
    <3>2. /\ link' \in [Link -> LinkType]
          /\ \A k \in Link : /\ link'[k].at = link[k].at
                             /\ link'[k].of = link[k].of
                             /\ link'[k].unread => link[k].unread
      BY <1>1, <1>2, <2>1, <2>6, <3>1 DEF LinkType
    <3>3. KeepsLinks
      BY <3>2 DEF KeepsLinks, Unread
    <3> DEFINE a == Result("OK")
               b == Says("Data", 1)
               c == Says("EndOfReceive", 0)
               r == <<a, b, c>>
    <3>0. a \in LineType /\ a.text = "OK" /\ Bit(a.text) = 1
      BY <1>15
    <3>4. /\ b \in LineType /\ c \in LineType
          /\ b.text = "Data" /\ c.text = "EndOfReceive"
          /\ b.of = link[At].of /\ c.of = link[At].of
          /\ b.ch = At[2] /\ c.ch = At[2]
      BY <1>16, <2>1, <2>3
    <3>5. rx' = rx \o r
      BY <2>6
    <3> HIDE DEF a, b, c
    <3>6. /\ r \in Seq(LineType) /\ DOMAIN r = {1, 2, 3}
          /\ r[1] = a /\ r[2] = b /\ r[3] = c
      BY <3>0, <3>4, FewLines
    <3> HIDE DEF r
    <3>7. Ordered(r)
      BY <2>4, <3>0, <3>4, <3>6 DEF Ordered
    <3>8. Reports(r)
      BY <1>2, <1>3, <2>1, <2>4, <3>0, <3>4, <3>5, <3>6, <3>7 DEF Reports
    <3>9. Fits(r, {1})
      BY <2>3, <3>0, <3>4, <3>6 DEF Fits
    <3> QED
      BY <2>1, <2>2, <3>2, <3>3, <3>6, <3>8, <3>9 DEF Behaves, Replies
  <2> QED
    BY <1>20, <2>5, <2>6 DEF DeviceHandsOver, Answer
<1>21. CASE DeviceReportsUnread
  <2> DEFINE U == {l \in Link : link[l].unread}
             q == [i \in DOMAIN SetToSeq(U) |-> Line("Len", SetToSeq(U)[i], 1)]
             r == Append(q, Result("OK"))
  <2>1. /\ command.name = "Check" /\ command' = NoCommand /\ link' = link
        /\ rx' = rx \o r
    BY <1>21 DEF DeviceReportsUnread, Busy, Done, Answer
  <2>2. /\ SetToSeq(U) \in Seq(U)
        /\ \A i \in DOMAIN SetToSeq(U) : SetToSeq(U)[i] \in U
    BY LinksListed
  <2>3. "Len" \in Events /\ "Len" \notin Answers /\ "Len" \notin Terminal
    BY DEF Events, Answers, Terminal
  <2>4. \A i \in DOMAIN SetToSeq(U) :
          /\ q[i] \in LineType /\ q[i].text = "Len"
          /\ q[i].ch = SetToSeq(U)[i][2] /\ q[i].of = link[SetToSeq(U)[i]].of
    BY <2>2, <2>3, LineTypes
  <2>14. DOMAIN q = DOMAIN SetToSeq(U)
    OBVIOUS
  <2>15. \A i \in DOMAIN SetToSeq(U) :
           SetToSeq(U)[i] \in Link /\ link[SetToSeq(U)[i]].unread
    BY <2>2
  <2> DEFINE z == <<Result("OK")>>
  <2>7. /\ z \in Seq(LineType) /\ DOMAIN z = {1} /\ z[1] = Result("OK")
    BY <1>15, FewLines
  <2>5. q \in Seq(LineType)
    <3>1. DOMAIN SetToSeq(U) = 1..Len(SetToSeq(U)) /\ Len(SetToSeq(U)) \in Nat
      BY <2>2
    <3>2. q \in [1..Len(SetToSeq(U)) -> LineType]
      BY <2>4, <3>1
    <3>3. PICK m \in Nat : q \in [1..m -> LineType]
      BY <3>1, <3>2
    <3> HIDE DEF q
    <3> QED
      BY <3>3
  <2> DEFINE y == Result("OK")
  <2>16. y \in LineType /\ r = Append(q, y) /\ z = <<y>>
    BY <1>15
  <2>6. \A i \in DOMAIN q : \E l \in Link :
          /\ link[l].at # "idle" /\ q[i].of = link[l].of /\ q[i].ch = l[2]
          /\ q[i].text = "Len"
    BY <2>4, <2>14, <2>15 DEF Unread
  <2> HIDE DEF q
  <2>8. r = q \o z
    <3> HIDE DEF y
    <3>1. Append(q, y) = q \o <<y>>
      BY <2>5, <2>16
    <3> QED
      BY <2>16, <3>1
  <2> HIDE DEF q, z, r
  <2>9. r \in Seq(LineType)
    BY <2>5, <2>7, <2>8
  <2>10. \A i \in DOMAIN r :
           (i \in DOMAIN q /\ r[i] = q[i]) \/ r[i] = Result("OK")
    BY <2>5, <2>7, <2>8, LinesAdded
  <2>11. Reports(r)
    <3>1. \A i \in DOMAIN r : r[i].text \notin Terminal
      <4>1. "OK" \notin Terminal
        BY DEF Terminal
      <4> QED
        BY <1>15, <2>3, <2>6, <2>10, <4>1
    <3>2. \A i \in DOMAIN r : r[i].text \in Events =>
            \E l \in Link :
              link[l].at # "idle" /\ r[i].of = link[l].of /\ r[i].ch = l[2]
      <4>1. \A i \in DOMAIN r : r[i].text \in Events =>
              i \in DOMAIN q /\ r[i] = q[i]
        BY <1>3, <1>15, <2>10
      <4> QED
        BY <2>6, <4>1
    <3>3. Ordered(r)
      BY <3>1 DEF Ordered
    <3> QED
      BY <2>1, <3>1, <3>2, <3>3 DEF Reports
  <2>12. Fits(r, Mask("Check"))
    <3>1. Mask("Check") = {1}
      BY DEF Mask
    <3>2. Fits(z, {1})
      BY <1>15, <2>7 DEF Fits
    <3>3. Unanswered(q)
      BY <2>3, <2>6 DEF Unanswered
    <3> QED
      BY <2>5, <2>7, <2>8, <3>1, <3>2, <3>3, FitsFirst
  <2>13. Behaves(r)
    BY <2>1, <2>9, <2>11, <2>12 DEF Behaves, Replies, Typed
  <2> QED
    BY <2>1, <2>13 DEF KeepsLinks, Unread
<1> QED
  BY <1>6, <1>7, <1>8, <1>9, <1>11, <1>12, <1>13, <1>17, <1>18, <1>19, <1>20,
     <1>21 DEF Device

\* What the modem does keeps the types.
LEMMA DeviceTypes ==
  ASSUME Typed, Asked, Unread, Device PROVE Typed'
<1>1. PICK r : Behaves(r)
  BY DeviceStep
<1>2. rx' \in Seq(LineType)
  BY <1>1, LinesAdded DEF Behaves, Reports, Typed
<1>3. NoCommand \in CommandType
  BY DEF NoCommand, CommandType, Name, Pool
<1>4. /\ command' \in CommandType
      /\ command'.name = "None" => command' = NoCommand
  BY <1>1, <1>3 DEF Behaves, Replies, Typed
<1> QED
  BY <1>1, <1>2, <1>4, DeviceOnly DEF Behaves, Typed, TypeOK

-----------------------------------------------------------------------------
(* Flag words and channels stay in order *)

\* Sockets stay what they are, and one that comes to be held or connected has
\* a channel.
KindStep ==
  /\ model' = model /\ listed' = listed /\ channel' = channel
  /\ \A s \in Socket :
       /\ SameKind(flags[s], flags'[s])
       /\ "ModemReference" \in flags'[s] \/ IsConnected(flags'[s]) =>
            IsAllocated(flags[s])
       /\ IsConnected(flags'[s]) => IsSecure(s)

\* In most steps nothing like that changes.
CalmStep ==
  /\ model' = model /\ listed' = listed /\ channel' = channel
  /\ \A s \in Socket : Calm(flags[s], flags'[s])

\* A socket that stays what it is keeps its pool.
LEMMA KindLinks ==
  ASSUME NEW s, model' = model, SameKind(flags[s], flags'[s])
  PROVE  /\ PoolOf(s)' = PoolOf(s) /\ (IsSecure(s)' <=> IsSecure(s))
         /\ channel'[s] = channel[s] => LinkOf(s)' = LinkOf(s)
BY DEF SameKind, PoolOf, IsSecure, LinkOf

\* Steps of that sort keep flag words and channels in order.
LEMMA KindFlags ==
  ASSUME Typed, FlagInv, KindStep PROVE FlagInv'
<1>1. \A s \in Socket :
        /\ PoolOf(s)' = PoolOf(s) /\ LinkOf(s)' = LinkOf(s)
        /\ (IsSecure(s)' <=> IsSecure(s))
        /\ (IsAllocated(flags'[s]) <=> IsAllocated(flags[s]))
  BY KindLinks DEF KindStep, SameKind
<1>2. Link' = Link
  BY DEF Link, Capacity
<1>3. ChannelsUnique'
  <2>1. /\ listed' = listed /\ channel' = channel /\ listed \subseteq Socket
        /\ ChannelsUnique
    BY DEF KindStep, FlagInv, Typed, TypeOK
  <2>2. ASSUME NEW s \in listed', NEW o \in listed',
               IsAllocated(flags'[s]), IsAllocated(flags'[o]),
               PoolOf(s)' = PoolOf(o)', channel'[s] = channel'[o]
        PROVE  s = o
    <3>1. s \in listed /\ o \in listed /\ s \in Socket /\ o \in Socket
      BY <2>1, <2>2
    <3>2. /\ PoolOf(s) = PoolOf(o) /\ channel[s] = channel[o]
          /\ IsAllocated(flags[s]) /\ IsAllocated(flags[o])
      BY <1>1, <2>1, <2>2, <3>1
    <3> QED
      BY <2>1, <3>1, <3>2 DEF ChannelsUnique
  <2> QED
    BY <2>2 DEF ChannelsUnique
<1> QED
  BY <1>1, <1>2, <1>3 DEF KindStep, FlagInv

\* Calm steps are of that sort.
LEMMA CalmKind ==
  ASSUME Typed, FlagInv, CalmStep PROVE KindStep
BY DEF CalmStep, KindStep, Calm, FlagInv

\* One word changes calmly.
LEMMA CalmWord ==
  ASSUME Typed, model' = model, listed' = listed, channel' = channel,
         NEW s \in Socket, NEW f, Calm(flags[s], f),
         flags' = [flags EXCEPT ![s] = f]
  PROVE  CalmStep
<1>1. \A o \in Socket : flags'[o] = IF o = s THEN f ELSE flags[o]
  BY DEF Typed, TypeOK
<1> QED
  BY <1>1, CalmUpdates DEF CalmStep

\* A step that changes no word is calm.
LEMMA CalmSame ==
  ASSUME model' = model, listed' = listed, channel' = channel, flags' = flags
  PROVE  CalmStep
BY CalmUpdates DEF CalmStep

\* The calm steps.
LEMMA CalmTask ==
  ASSUME Typed, FrameInv,
         \/ \E s \in Socket :
              \/ ReleaseSocket(s) \/ Disconnect(s) \/ WriteOutput(s)
              \/ CloseImpl(s) \/ ConnectImpl(s) \/ SendPacketImpl(s)
              \/ ReceivePacketImpl(s) \/ CheckIncomingImpl(s)
         \/ SecurityReturns \/ AckReturns \/ SendReturns \/ CallReturns
         \/ CommandTimesOut \/ NextPass
  PROVE  CalmStep
<1>1. ASSUME NEW s \in Socket, ReleaseSocket(s) \/ Disconnect(s)
      PROVE  CalmStep
  BY <1>1, CalmWord, CalmUpdates DEF ReleaseSocket, Disconnect
<1>2. ASSUME NEW s \in Socket, WriteOutput(s) PROVE CalmStep
  BY <1>2, CalmSame DEF WriteOutput
<1>3. ASSUME NEW s \in Socket, CloseImpl(s) PROVE CalmStep
  BY <1>3, CalmWord, CalmUpdates DEF CloseImpl
<1>4. ASSUME NEW s \in Socket, ConnectImpl(s) PROVE CalmStep
  BY <1>4, CalmWord, CalmUpdates DEF ConnectImpl
<1>5. ASSUME NEW s \in Socket, SendPacketImpl(s) PROVE CalmStep
  <2>1. /\ model' = model /\ listed' = listed /\ channel' = channel
        /\ \/ flags' = flags
           \/ flags' = [flags EXCEPT ![s] = Sending(@)]
    BY <1>5 DEF SendPacketImpl, Send
  <2> QED
    BY <2>1, CalmWord, CalmSame, CalmUpdates
<1>6. ASSUME NEW s \in Socket, NEW name, RequestIncoming(s, name)
      PROVE  CalmStep
  BY <1>6, CalmWord, CalmUpdates DEF RequestIncoming
<1>7. ASSUME pc # "Idle" PROVE cur \in Socket
  BY <1>7 DEF FrameInv, Typed, TypeOK
<1>8. CASE AckReturns
  <2>1. /\ model' = model /\ listed' = listed /\ channel' = channel
        /\ \/ flags' = flags
           \/ flags' = [flags EXCEPT ![cur] = Sending(@)]
    BY <1>8 DEF AckReturns, Send
  <2> QED
    BY <1>7, <1>8, <2>1, CalmWord, CalmSame, CalmUpdates
    DEF AckReturns, Awaiting
<1>9. CASE SendReturns
  <2>1. /\ model' = model /\ listed' = listed /\ channel' = channel
        /\ \/ flags' = flags
           \/ flags' = [flags EXCEPT ![cur] = SendingFinished(@)]
    BY <1>9 DEF SendReturns
  <2> QED
    BY <1>7, <1>9, <2>1, CalmWord, CalmSame, CalmUpdates
    DEF SendReturns, Awaiting
<1>10. CASE SecurityReturns \/ CallReturns \/ CommandTimesOut \/ NextPass
  BY <1>10, CalmSame
  DEF SecurityReturns, CallReturns, CommandTimesOut, NextPass, socketVars
<1> QED
  BY <1>1, <1>2, <1>3, <1>4, <1>5, <1>6, <1>8, <1>9, <1>10
  DEF ReceivePacketImpl, CheckIncomingImpl

\* The found socket's word changes.
LEMMA UpdatedWord ==
  ASSUME Typed, model' = model, listed' = listed, channel' = channel,
         \/ flags' = flags
         \/ /\ Found # NULL
            /\ \/ flags' = [flags EXCEPT ![Found] = MaybeIncoming(@)]
               \/ flags' = [flags EXCEPT ![Found] = Incoming(@)]
               \/ flags' = [flags EXCEPT ![Found] = SendingFinished(@)]
  PROVE  CalmStep
BY FoundSocket, CalmWord, CalmSame, CalmUpdates DEF Found

\* The lines that change no connection.
LEMMA CalmRx ==
  ASSUME Typed,
         \/ OnOK \/ OnError \/ OnMaybeIncoming \/ OnIncoming
         \/ OnSendResponse \/ OnReceiveAck
  PROVE  CalmStep
<1>1. model' = model /\ listed' = listed /\ channel' = channel
  BY DEF OnOK, OnError, OnMaybeIncoming, OnIncoming, OnSendResponse,
         OnReceiveAck, Update, socketVars
<1>2. \/ flags' = flags
      \/ /\ Found # NULL
         /\ \/ flags' = [flags EXCEPT ![Found] = MaybeIncoming(@)]
            \/ flags' = [flags EXCEPT ![Found] = Incoming(@)]
            \/ flags' = [flags EXCEPT ![Found] = SendingFinished(@)]
  <2>1. CASE OnOK \/ OnError \/ OnReceiveAck
    BY <2>1 DEF OnOK, OnError, OnReceiveAck, socketVars
  <2>2. CASE OnMaybeIncoming \/ OnIncoming
    BY <2>2 DEF OnMaybeIncoming, OnIncoming, Update
  <2>3. CASE OnSendResponse
    BY <2>3 DEF OnSendResponse, Reads, Sent
  <2> QED
    BY <2>1, <2>2, <2>3
<1> QED
  BY <1>1, <1>2, UpdatedWord

\* Connections that come about, or fail, or end.
LEMMA KindSpecial ==
  ASSUME Typed, FlagInv, FrameInv,
         \/ ConnectReturns \/ PowerCycle
         \/ OnOpened \/ OnDisconnected \/ OnCloseOk
  PROVE  KindStep
<1>1. ASSUME NEW s \in Socket, IsAllocated(flags[s]),
             model' = model, listed' = listed, channel' = channel,
             \/ flags' = [flags EXCEPT ![s] = Bound(@)]
             \/ flags' = [flags EXCEPT ![s] = Finished(@)]
             \/ IsSecure(s) /\ flags' = [flags EXCEPT ![s] = Connected(@)]
      PROVE  KindStep
  <2>1. PICK f : /\ flags' = [flags EXCEPT ![s] = f] /\ SameKind(flags[s], f)
                 /\ IsConnected(f) => IsSecure(s)
    BY <1>1, OtherUpdates DEF FlagInv
  <2>2. \A o \in Socket : flags'[o] = IF o = s THEN f ELSE flags[o]
    BY <2>1 DEF Typed, TypeOK
  <2>3. \A o \in Socket : SameKind(flags[o], flags[o])
    BY DEF SameKind
  <2> QED
    BY <1>1, <2>1, <2>2, <2>3 DEF KindStep, FlagInv
<1>2. CASE ConnectReturns
  <2>1. cur \in Socket /\ IsAllocated(flags[cur])
    BY <1>2 DEF ConnectReturns, Awaiting, FrameInv, Typed, TypeOK
  <2> QED
    BY <1>1, <1>2, <2>1 DEF ConnectReturns
<1>3. CASE OnOpened \/ OnDisconnected \/ OnCloseOk
  <2>1. /\ model' = model /\ listed' = listed /\ channel' = channel
        /\ \/ flags' = flags
           \/ Found # NULL /\ \/ flags' = [flags EXCEPT ![Found] = Connected(@)]
                              \/ flags' = [flags EXCEPT ![Found] = Finished(@)]
    BY <1>3 DEF OnOpened, OnDisconnected, OnCloseOk, Update
  <2>2. Found # NULL => /\ Found \in Socket /\ IsAllocated(flags[Found])
                        /\ IsSecure(Found)
    BY FoundSocket DEF Found
  <2> QED
    BY <1>1, <2>1, <2>2, CalmSame, CalmKind
<1>4. CASE PowerCycle
  <2>1. /\ model' = model /\ listed' = listed /\ channel' = channel
        /\ \A s \in Socket : flags'[s] \in {flags[s], Finished(flags[s])}
    BY <1>4 DEF PowerCycle, Typed, TypeOK
  <2>2. \A s \in Socket :
          /\ SameKind(flags[s], flags[s])
          /\ SameKind(flags[s], Finished(flags[s]))
          /\ "ModemReference" \notin Finished(flags[s])
          /\ ~IsConnected(Finished(flags[s]))
    BY OtherUpdates DEF SameKind
  <2> QED
    BY <2>1, <2>2 DEF KindStep, FlagInv
<1> QED
  BY <1>2, <1>3, <1>4

\* Sockets come without a channel, ...
LEMMA CreatedFlags ==
  ASSUME Typed, FlagInv, NEW s \in Socket, NEW tls, CreateSocket(s, tls)
  PROVE  /\ FlagInv'
         /\ ~IsAllocated(flags[s]) /\ s \notin listed
         /\ listed' = listed \cup {s} /\ model' = model
         /\ \A o \in Socket \ {s} :
              flags'[o] = flags[o] /\ channel'[o] = channel[o]
<1>1. /\ s \notin listed /\ listed' = listed \cup {s} /\ model' = model
      /\ \A o \in Socket \ {s} :
           flags'[o] = flags[o] /\ channel'[o] = channel[o]
      /\ flags'[s] = NewSocket(tls)
  BY DEF CreateSocket, Typed, TypeOK
<1>2. ~IsAllocated(flags[s])
  BY <1>1 DEF FlagInv
<1>3. /\ ~IsAllocated(flags'[s]) /\ "ModemReference" \notin flags'[s]
      /\ ~IsConnected(flags'[s])
  BY <1>1, OtherUpdates
<1>4. \A o \in Socket \ {s} :
        /\ PoolOf(o)' = PoolOf(o) /\ LinkOf(o)' = LinkOf(o)
        /\ (IsSecure(o)' <=> IsSecure(o))
  BY <1>1 DEF PoolOf, LinkOf, IsSecure
<1>5. Link' = Link
  BY DEF Link, Capacity
<1>6. ChannelsUnique'
  <2>1. ASSUME NEW o \in listed', NEW p \in listed',
               IsAllocated(flags'[o]), IsAllocated(flags'[p]),
               PoolOf(o)' = PoolOf(p)', channel'[o] = channel'[p]
        PROVE  o = p
    <3>1. /\ o \in listed /\ p \in listed
          /\ o \in Socket \ {s} /\ p \in Socket \ {s}
      BY <1>1, <1>3, <2>1 DEF Typed, TypeOK
    <3>2. /\ PoolOf(o) = PoolOf(p) /\ channel[o] = channel[p]
          /\ IsAllocated(flags[o]) /\ IsAllocated(flags[p])
      BY <1>1, <1>4, <2>1, <3>1
    <3> QED
      BY <3>1, <3>2 DEF FlagInv, ChannelsUnique
  <2> QED
    BY <2>1 DEF ChannelsUnique
<1>7. ASSUME NEW o \in Socket
      PROVE  /\ IsAllocated(flags'[o]) => o \in listed' /\ LinkOf(o)' \in Link
             /\ "ModemReference" \in flags'[o] \/ IsConnected(flags'[o]) =>
                  IsAllocated(flags'[o])
             /\ IsConnected(flags'[o]) => IsSecure(o)'
  BY <1>1, <1>3, <1>4, <1>7 DEF FlagInv
<1> QED
  BY <1>1, <1>2, <1>5, <1>6, <1>7 DEF FlagInv

\* ... take one that is free, ...
LEMMA AllocatedFlags ==
  ASSUME Typed, FlagInv, NEW s \in Socket, TryAllocateImpl(s)
  PROVE  /\ FlagInv'
         /\ ~IsAllocated(flags[s]) /\ listed' = listed /\ model' = model
         /\ \A o \in Socket \ {s} :
              flags'[o] = flags[o] /\ channel'[o] = channel[o]
         /\ "ModemReference" \notin flags[s]
<1>1. PICK c \in Free(s) : channel' = [channel EXCEPT ![s] = c]
  BY DEF TryAllocateImpl
<1>2. /\ ~IsAllocated(flags[s]) /\ listed' = listed /\ model' = model
      /\ s \in listed
      /\ flags' = [flags EXCEPT ![s] = Allocate(@)]
  BY DEF TryAllocateImpl
<1>3. /\ \A o \in Socket \ {s} :
           flags'[o] = flags[o] /\ channel'[o] = channel[o]
      /\ flags'[s] = Allocate(flags[s]) /\ channel'[s] = c
  BY <1>1, <1>2 DEF Typed, TypeOK
<1>4. \A o \in Socket : PoolOf(o)' = PoolOf(o) /\ (IsSecure(o)' <=> IsSecure(o))
  BY <1>2, <1>3, OtherUpdates DEF PoolOf, IsSecure
<1>5. \A o \in Socket \ {s} : LinkOf(o)' = LinkOf(o)
  BY <1>3, <1>4 DEF LinkOf
<1>6. Link' = Link
  BY DEF Link, Capacity
<1>7. LinkOf(s)' \in Link
  <2>1. /\ PoolOf(s) \in Pool /\ c \in 0..Capacity(PoolOf(s)) - 1
    BY <1>1 DEF Free, PoolOf, Pool
  <2>2. SharedChannels \in Nat /\ TlsChannels \in Nat /\ TcpChannels \in Nat
    BY SimComAssumption
  <2>3. /\ Capacity(PoolOf(s)) \in Nat
        /\ Capacity(PoolOf(s)) <= SharedChannels + TlsChannels + TcpChannels
    BY <2>1, <2>2 DEF Capacity, Pool
  <2>4. /\ c \in 0..SharedChannels + TlsChannels + TcpChannels
        /\ c < Capacity(PoolOf(s))
    BY <2>1, <2>2, <2>3
  <2>5. LinkOf(s)' = <<PoolOf(s), c>>
    BY <1>3, <1>4 DEF LinkOf
  <2> QED
    BY <2>1, <2>4, <2>5 DEF Link
<1>8. \A o \in listed : IsAllocated(flags[o]) /\ PoolOf(o) = PoolOf(s) =>
                          channel[o] # c
  BY <1>1 DEF Free
<1>9. ChannelsUnique'
  <2>1. ASSUME NEW o \in listed, o # s, IsAllocated(flags'[o]),
               PoolOf(s)' = PoolOf(o)'
        PROVE  channel'[o] # channel'[s]
    BY <1>3, <1>4, <1>8, <2>1 DEF Typed, TypeOK
  <2>2. ASSUME NEW o \in listed, NEW p \in listed, o # s, p # s,
               IsAllocated(flags'[o]), IsAllocated(flags'[p]),
               PoolOf(o)' = PoolOf(p)', channel'[o] = channel'[p]
        PROVE  o = p
    <3>1. o \in Socket \ {s} /\ p \in Socket \ {s}
      BY <2>2 DEF Typed, TypeOK
    <3>2. /\ PoolOf(o) = PoolOf(p) /\ channel[o] = channel[p]
          /\ IsAllocated(flags[o]) /\ IsAllocated(flags[p])
      BY <1>3, <1>4, <2>2, <3>1
    <3> QED
      BY <2>2, <3>2 DEF FlagInv, ChannelsUnique
  <2> QED
    BY <1>2, <2>1, <2>2 DEF ChannelsUnique
<1>10. "ModemReference" \notin flags[s] /\ ~IsConnected(flags[s])
  BY <1>2 DEF FlagInv
<1>11. /\ IsAllocated(flags'[s]) /\ "ModemReference" \notin flags'[s]
       /\ ~IsConnected(flags'[s])
  BY <1>3, <1>10, OtherUpdates
<1>12. ASSUME NEW o \in Socket
       PROVE  /\ IsAllocated(flags'[o]) => o \in listed' /\ LinkOf(o)' \in Link
              /\ "ModemReference" \in flags'[o] \/ IsConnected(flags'[o]) =>
                   IsAllocated(flags'[o])
              /\ IsConnected(flags'[o]) => IsSecure(o)'
  BY <1>2, <1>3, <1>4, <1>5, <1>7, <1>11, <1>12 DEF FlagInv
<1> QED
  BY <1>2, <1>3, <1>6, <1>9, <1>10, <1>12 DEF FlagInv

\* ... and take their channel with them; the modem's reference protects.
LEMMA RemovedFlags ==
  ASSUME Typed, FlagInv, RemoveSockets
  PROVE  /\ FlagInv'
         /\ \A s \in listed : "ModemReference" \in flags[s] =>
              s \in listed' /\ flags'[s] = flags[s] /\ channel'[s] = channel[s]
<1> DEFINE kept == {s \in listed : ~CanDelete(flags[s])}
<1>1. /\ model' = model /\ listed' = kept /\ kept \subseteq listed
      /\ kept \subseteq Socket
      /\ \A s \in Socket :
           /\ flags'[s] = IF s \in kept THEN flags[s] ELSE {}
           /\ channel'[s] = IF s \in kept THEN channel[s] ELSE 0
  BY DEF RemoveSockets, Typed, TypeOK
<1>2. \A s \in listed : "ModemReference" \in flags[s] => s \in kept
  BY DEF CanDelete
<1> HIDE DEF kept
<1>3. \A s \in kept : PoolOf(s)' = PoolOf(s) /\ LinkOf(s)' = LinkOf(s)
  BY <1>1 DEF PoolOf, LinkOf, IsSecure
<1>4. ~IsAllocated({}) /\ "ModemReference" \notin {} /\ ~IsConnected({})
  BY OtherUpdates
<1>5. Link' = Link
  BY DEF Link, Capacity
<1>6. ChannelsUnique'
  BY <1>1, <1>3 DEF FlagInv, ChannelsUnique
<1>7. ASSUME NEW s \in Socket
      PROVE  /\ IsAllocated(flags'[s]) => s \in listed' /\ LinkOf(s)' \in Link
             /\ "ModemReference" \in flags'[s] \/ IsConnected(flags'[s]) =>
                  IsAllocated(flags'[s])
             /\ IsConnected(flags'[s]) => IsSecure(s)'
  BY <1>1, <1>3, <1>4 DEF FlagInv, IsSecure
<1>8. FlagInv'
  BY <1>5, <1>6, <1>7 DEF FlagInv
<1> QED
  BY <1>1, <1>2, <1>8 DEF Typed, TypeOK

\* Every step keeps flag words and channels in order.
LEMMA FlagStep ==
  ASSUME Typed, FlagInv, FrameInv, [Next]_vars PROVE FlagInv'
<1>1. CASE UNCHANGED vars
  BY <1>1, CalmSame, CalmKind, KindFlags
  DEF vars, driverVars, socketVars
<1>2. CASE Device
  BY <1>2, DeviceOnly, CalmSame, CalmKind, KindFlags
<1>3. CASE RxTask
  BY <1>3, CalmRx, KindSpecial, CalmKind, KindFlags DEF RxTask
<1>4. CASE Task
  BY <1>4, CalmTask, KindSpecial, AllocatedFlags, RemovedFlags, CalmKind,
     KindFlags DEF Task
<1>5. CASE App
  BY <1>5, CalmTask, CreatedFlags, CalmKind, KindFlags DEF App
<1> QED
  BY <1>1, <1>2, <1>3, <1>4, <1>5 DEF Next

-----------------------------------------------------------------------------
(* The task's socket *)

\* The sockets of calls have a channel.
LEMMA CalledSocket ==
  ASSUME FlagInv, NEW s \in Socket,
         \/ CloseImpl(s) \/ ConnectImpl(s) \/ SendPacketImpl(s)
         \/ ReceivePacketImpl(s) \/ CheckIncomingImpl(s)
  PROVE  /\ pc = "Idle" /\ s \in listed /\ IsAllocated(flags[s])
         /\ phase' = phase
         /\ ReceivePacketImpl(s) => IsSecure(s)
         /\ ~CloseImpl(s) => phase = "Serve"
<1>1. CASE CloseImpl(s)
  BY <1>1 DEF CloseImpl, Ready, NeedsClose, FlagInv, ReceivePacketImpl,
              RequestIncoming
<1>2. CASE ConnectImpl(s)
  BY <1>2 DEF ConnectImpl, Ready, NeedsConnect, IsAllocated, ReceivePacketImpl,
              RequestIncoming, CanReceive, FlagInv, IsConnected
<1>3. CASE SendPacketImpl(s)
  BY <1>3 DEF SendPacketImpl, Ready, DataToSend, FlagInv
<1>4. CASE ReceivePacketImpl(s) \/ CheckIncomingImpl(s)
  <2>1. CanReceive(flags[s], TRUE) => IsConnected(flags[s])
    BY DEF CanReceive, IsConnected
  <2> QED
    BY <1>4, <2>1 DEF ReceivePacketImpl, CheckIncomingImpl, RequestIncoming,
       Ready, FlagInv
<1> QED
  BY <1>1, <1>2, <1>3, <1>4

\* A line, or the application, leaves the call alone.
LEMMA FrameKind ==
  ASSUME FrameInv, Typed, KindStep, phase' = phase, pc' = pc, cur' = cur,
         failed' = failed,
         result' = result \/ (result = "Pending" /\ result' \in {"OK", "Error"})
  PROVE  FrameInv'
BY DEF FrameInv, KindStep, SameKind, Typed, TypeOK

\* A command of a socket that has a channel.
LEMMA FrameExecute ==
  ASSUME Typed, FlagInv, FrameInv, CalmStep, phase' = phase,
         NEW s \in Socket, s \in listed, IsAllocated(flags[s]),
         NEW name, NEW len, NEW mask, NEW step \in Await,
         Execute(s, name, len, mask, step),
         step = "CloseImpl" \/ phase = "Serve"
  PROVE  FrameInv'
<1>1. /\ pc' = step /\ cur' = s /\ failed' = failed
      /\ result' = IF failed THEN "Failure" ELSE "Pending"
  BY DEF Execute
<1>2. listed' = listed /\ IsAllocated(flags'[s])
  BY DEF CalmStep, Calm, SameKind
<1>3. failed \in BOOLEAN /\ (failed' <=> result' \in {"Timeout", "Failure"})
  BY <1>1 DEF Typed, TypeOK
<1> QED
  BY <1>1, <1>2, <1>3 DEF FrameInv, Await

\* The end of a call.
LEMMA FrameReturn ==
  ASSUME FrameInv, Return, result # "Pending", UNCHANGED <<phase, atVars>>
  PROVE  FrameInv'
BY DEF FrameInv, Return, atVars

\* Every step keeps the task's socket in order.
LEMMA FrameStep ==
  ASSUME Typed, FlagInv, FrameInv, [Next]_vars PROVE FrameInv'
<1>1. CASE UNCHANGED vars
  BY <1>1 DEF vars, driverVars, socketVars, taskVars, atVars, FrameInv
<1>2. CASE Device
  BY <1>2, DeviceOnly DEF FrameInv
<1>3. CASE RxTask
  <2>1. KindStep
    BY <1>3, CalmRx, KindSpecial, CalmKind DEF RxTask
  <2>2. /\ phase' = phase /\ pc' = pc /\ cur' = cur /\ failed' = failed
        /\ \/ result' = result
           \/ result = "Pending" /\ result' \in {"OK", "Error"}
    BY <1>3
    DEF RxTask, OnOK, OnError, OnOpened, OnDisconnected, OnCloseOk,
        OnMaybeIncoming, OnIncoming, OnSendResponse, OnReceiveAck, Update,
        ATComplete, taskVars, atVars
  <2> QED
    BY <2>1, <2>2, FrameKind
<1>4. CASE App
  <2>1. ASSUME NEW s \in Socket, NEW tls \in BOOLEAN, CreateSocket(s, tls)
        PROVE  FrameInv'
    <3>1. taskVars' = taskVars /\ atVars' = atVars
      BY <2>1 DEF CreateSocket
    <3> QED
      BY <2>1, <3>1, CreatedFlags DEF FrameInv, Typed, TypeOK, taskVars, atVars
  <2>2. ASSUME NEW s \in Socket, ReleaseSocket(s) \/ Disconnect(s) \/ WriteOutput(s)
        PROVE  FrameInv'
    <3>1. taskVars' = taskVars /\ atVars' = atVars
      BY <2>2 DEF ReleaseSocket, Disconnect, WriteOutput
    <3>2. KindStep
      BY <2>2, CalmTask, CalmKind
    <3> QED
      BY <3>1, <3>2, FrameKind DEF taskVars, atVars
  <2> QED
    BY <1>4, <2>1, <2>2 DEF App
<1>5. ASSUME NEW s \in Socket,
             \/ CloseImpl(s) \/ ConnectImpl(s) \/ SendPacketImpl(s)
             \/ ReceivePacketImpl(s) \/ CheckIncomingImpl(s)
      PROVE  FrameInv'
  <2>1. CalmStep
    BY <1>5, CalmTask
  <2>2. /\ pc = "Idle" /\ s \in listed /\ IsAllocated(flags[s])
        /\ phase' = phase /\ (~CloseImpl(s) => phase = "Serve")
    BY <1>5, CalledSocket
  <2>3. CASE /\ failed /\ SendPacketImpl(s)
    <3>1. /\ result' = "Failure" /\ pc' = pc /\ cur' = cur /\ failed' = failed
      BY <2>3 DEF SendPacketImpl
    <3> QED
      BY <2>2, <2>3, <3>1 DEF FrameInv
  <2>4. CASE ~(failed /\ SendPacketImpl(s))
    <3>1. ASSUME NEW name, NEW len, NEW mask, NEW step \in Await,
                 Execute(s, name, len, mask, step),
                 step = "CloseImpl" \/ phase = "Serve"
          PROVE  FrameInv'
      BY <2>1, <2>2, <3>1, FrameExecute
    <3>2. CASE CloseImpl(s)
      <4>1. Execute(s, "Close", 0, {1}, "CloseImpl")
        BY <3>2 DEF CloseImpl
      <4> QED
        BY <3>1, <4>1 DEF Await
    <3>3. CASE ConnectImpl(s)
      <4>1. /\ phase = "Serve"
            /\ \/ Execute(s, "CIPSSL", 0, {1}, "ConnectSecurity")
               \/ Execute(s, "Open", 0, {1}, "ConnectImpl")
        BY <3>3 DEF ConnectImpl, Ready
      <4> QED
        BY <3>1, <4>1 DEF Await
    <3>4. CASE SendPacketImpl(s)
      <4>1. phase = "Serve"
        BY <3>4 DEF SendPacketImpl, Ready
      <4>2. CASE Execute(s, "CIPACK", 0, {1, 2}, "SendAck")
        BY <3>1, <4>1, <4>2 DEF Await
      <4>3. CASE Send(s)
        <5>1. \E len, mask : Execute(s, "Send", len, mask, "SendPacketImpl")
          BY <4>3 DEF Send
        <5> QED
          BY <3>1, <4>1, <5>1 DEF Await
      <4> QED
        BY <2>4, <3>4, <4>2, <4>3 DEF SendPacketImpl
    <3>5. ASSUME NEW name, RequestIncoming(s, name) PROVE FrameInv'
      <4>1. phase = "Serve" /\ Execute(s, name, MaxPacket, {1}, "ReceiveImpl")
        BY <3>5 DEF RequestIncoming, Ready
      <4> QED
        BY <3>1, <4>1 DEF Await
    <3> QED
      BY <1>5, <3>2, <3>3, <3>4, <3>5 DEF ReceivePacketImpl, CheckIncomingImpl
  <2> QED
    BY <2>3, <2>4
<1>6. ASSUME NEW s \in Socket, TryAllocateImpl(s) PROVE FrameInv'
  <2>1. taskVars' = taskVars /\ atVars' = atVars /\ pc = "Idle"
    BY <1>6 DEF TryAllocateImpl, Ready
  <2> QED
    BY <2>1 DEF FrameInv, taskVars, atVars
<1>7. CASE RemoveSockets
  BY <1>7 DEF RemoveSockets, Ready, FrameInv, atVars
<1>8. CASE PowerCycle
  BY <1>8 DEF PowerCycle, Ready, FrameInv
<1>9. CASE NextPass
  BY <1>9 DEF NextPass, Ready, FrameInv, atVars
<1>10. CASE CommandTimesOut
  BY <1>10
  DEF CommandTimesOut, FrameInv, socketVars, taskVars
<1>11. CASE ConnectReturns \/ CallReturns \/ SendReturns
  BY <1>11, FrameReturn
  DEF ConnectReturns, CallReturns, SendReturns, Awaiting
<1>12. CASE SecurityReturns
  <2>1. CASE result = "OK"
    <3>1. Execute(cur, "Open", 0, {1}, "ConnectImpl") /\ phase' = phase
      BY <1>12, <2>1 DEF SecurityReturns
    <3>2. /\ cur \in Socket /\ cur \in listed /\ IsAllocated(flags[cur])
          /\ phase = "Serve"
      BY <1>12 DEF SecurityReturns, Awaiting, FrameInv, Typed, TypeOK
    <3> QED
      BY <1>12, <3>1, <3>2, CalmTask, FrameExecute DEF Await
  <2>2. CASE result # "OK"
    BY <1>12, <2>2, FrameReturn DEF SecurityReturns, Awaiting
  <2> QED
    BY <2>1, <2>2
<1>13. CASE AckReturns
  <2>1. CASE result = "OK" /\ Available(cur) > 0
    <3>1. Send(cur) /\ phase' = phase
      BY <1>13, <2>1 DEF AckReturns
    <3>2. /\ cur \in Socket /\ cur \in listed /\ IsAllocated(flags[cur])
          /\ phase = "Serve"
      BY <1>13 DEF AckReturns, Awaiting, FrameInv, Typed, TypeOK
    <3>3. \E len, mask : Execute(cur, "Send", len, mask, "SendPacketImpl")
      BY <3>1 DEF Send
    <3> QED
      BY <1>13, <3>1, <3>2, <3>3, CalmTask, FrameExecute DEF Await
  <2>2. CASE ~(result = "OK" /\ Available(cur) > 0)
    BY <1>13, <2>2, FrameReturn DEF AckReturns, Awaiting
  <2> QED
    BY <2>1, <2>2
<1> QED
  BY <1>1, <1>2, <1>3, <1>4, <1>5, <1>6, <1>7, <1>8, <1>9, <1>10, <1>11, <1>12,
     <1>13 DEF Next, Task

-----------------------------------------------------------------------------
(* Commands and answers *)

\* A socket with a channel keeps both.
KeepsChannel(s) ==
  IsAllocated(flags[s]) => IsAllocated(flags'[s]) /\ LinkOf(s)' = LinkOf(s)

\* A socket that stays what it is keeps its channel.
LEMMA KindChannel ==
  ASSUME KindStep PROVE \A s \in Socket : KeepsChannel(s)
BY KindLinks DEF KindStep, KeepsChannel, SameKind

\* A command that stays is still for its socket, ...
LEMMA AskedStill ==
  ASSUME Asked, command' = command, model' = model,
         command.name = "Open" => \A s \in Socket : KeepsChannel(s),
         command.name = "Open" =>
           \/ pc' = pc /\ cur' = cur /\ failed' = failed /\ phase' = phase
           \/ failed' /\ phase' = "Serve"
  PROVE  Asked'
<1>1. Link' = Link
  BY DEF Link, Capacity
<1> QED
  BY <1>1 DEF Asked, KeepsChannel

\* ... and still waits for its answers.
LEMMA TalkStill ==
  ASSUME Talk, command' = command, model' = model, rx' = rx, atVars' = atVars,
         command.name = "None" \/ failed \/ (pc' = pc /\ cur' = cur)
  PROVE  Talk'
BY DEF Talk, atVars, Mask, Step

\* Once the result is there, nothing is left to be answered.
LEMMA Settled ==
  ASSUME Talk, result # "Pending", ~failed
  PROVE  command.name = "None" /\ Unanswered(rx)
BY DEF Talk

\* The socket's command is the only one.
LEMMA TalkExecute ==
  ASSUME Typed, FlagInv, Talk, CalmStep, phase' = phase,
         NEW s \in Socket, IsAllocated(flags[s]), result # "Pending",
         NEW name \in Name, name # "None", NEW len,
         name = "Receive" => IsSecure(s), name = "Open" => phase = "Serve",
         Execute(s, name, len, Mask(name), Step(name))
  PROVE  Asked' /\ Talk'
<1>1. Link' = Link
  BY DEF Link, Capacity
<1>2. /\ pc' = Step(name) /\ cur' = s /\ failed' = failed /\ rx' = rx
      /\ result' = IF failed THEN "Failure" ELSE "Pending"
      /\ need' = IF failed THEN {} ELSE Mask(name)
      /\ command' = IF failed THEN NoCommand
                    ELSE [name |-> name, link |-> LinkOf(s), len |-> len,
                          of |-> s]
  BY DEF Execute
<1>3. CASE failed
  BY <1>2, <1>3 DEF Asked, Talk, NoCommand
<1>4. CASE ~failed
  <2>1. /\ command'.name = name /\ command'.link = LinkOf(s) /\ command'.of = s
    BY <1>2, <1>4
  <2>2. Unanswered(rx)
    BY <1>4, Settled
  <2>3. /\ model' = model /\ LinkOf(s)' = LinkOf(s) /\ IsAllocated(flags'[s])
        /\ Mask(name)' = Mask(name)
    BY CalmKind, KindChannel DEF KeepsChannel, CalmStep, Mask
  <2>4. /\ LinkOf(s) \in Link
        /\ LinkOf(s)[1] = "IP" <=> model = "SIM800"
        /\ IsSecure(s) => LinkOf(s)[1] # "CIP"
    BY DEF FlagInv, LinkOf, PoolOf
  <2>5. name = "Open" => Step(name) = "ConnectImpl"
    BY DEF Step
  <2>6. Asked'
    BY <1>1, <1>2, <2>1, <2>3, <2>4, <2>5 DEF Asked
  <2>7. Fits(rx, Mask(name))
    BY <2>2 DEF Fits, Unanswered
  <2>8. Talk'
    BY <1>2, <1>4, <2>1, <2>2, <2>3, <2>7 DEF Talk
  <2> QED
    BY <2>6, <2>8
<1> QED
  BY <1>3, <1>4

\* What is left of the answers when one has been read.
LEMMA TalkRead ==
  ASSUME Typed, Asked, Talk, model' = model, command' = command,
         pc' = pc, cur' = cur, phase' = phase, failed' = failed,
         rx # <<>>, rx' = Tail(rx),
         \/ need' = need /\ result' = result
         \/ /\ Head(rx).text \in Answers
            /\ need' = need \ {Bit(Head(rx).text)}
            /\ result' = IF result = "Pending" /\ need' = {} THEN "OK"
                         ELSE result
         \/ /\ Head(rx).text = "ERROR" /\ need' = {}
            /\ result' = IF result = "Pending" THEN "Error" ELSE result
  PROVE  Talk'
<1>1. SUFFICES ASSUME ~failed PROVE Talk'
  BY DEF Talk
<1>2. /\ Fits(rx, need) /\ rx \in Seq(LineType)
      /\ result # "Pending" => Unanswered(rx)
  BY <1>1 DEF Talk, Typed
<1>3. 1 \in DOMAIN rx /\ Head(rx) = rx[1]
  BY <1>2, LineRead
<1>4. Unanswered(rx) => Head(rx).text \notin Answers /\ Unanswered(Tail(rx))
  BY <1>2, <1>3, LineRead DEF Unanswered
<1>5. /\ Fits(Tail(rx), need)
      /\ Head(rx).text \in Answers =>
           /\ Fits(Tail(rx), need \ {Bit(Head(rx).text)})
           /\ Fits(Tail(rx), {}) => Unanswered(Tail(rx))
           /\ Head(rx).text = "ERROR" => Unanswered(Tail(rx))
  BY <1>2, FitsAfter
<1>6. "ERROR" \in Answers
  BY DEF Answers
<1>7. CASE need' = need /\ result' = result
  BY <1>1, <1>4, <1>5, <1>7 DEF Talk, Mask, Step
<1>8. CASE /\ Head(rx).text \in Answers
           /\ need' = need \ {Bit(Head(rx).text)}
           /\ result' = IF result = "Pending" /\ need' = {} THEN "OK"
                        ELSE result
  <2>1. command.name = "None" /\ result = "Pending"
    BY <1>1, <1>4, <1>8 DEF Talk
  <2>2. Fits(Tail(rx), need')
    BY <1>5, <1>8
  <2>3. result' # "Pending" => Unanswered(Tail(rx))
    BY <1>5, <1>8, <2>1, <2>2
  <2> QED
    BY <2>1, <2>2, <2>3 DEF Talk
<1>9. CASE /\ Head(rx).text = "ERROR" /\ need' = {}
           /\ result' = IF result = "Pending" THEN "Error" ELSE result
  <2>1. command.name = "None" /\ Unanswered(Tail(rx))
    BY <1>1, <1>4, <1>5, <1>6, <1>9 DEF Talk
  <2>2. Fits(Tail(rx), {})
    BY <2>1 DEF Fits, Unanswered
  <2> QED
    BY <1>9, <2>1, <2>2 DEF Talk
<1> QED
  BY <1>7, <1>8, <1>9

\* Lines read.
LEMMA ReadStep ==
  ASSUME RxTask
  PROVE  /\ model' = model /\ command' = command /\ link' = link
         /\ pc' = pc /\ cur' = cur /\ phase' = phase /\ failed' = failed
         /\ listed' = listed
         /\ rx # <<>> /\ rx' = Tail(rx)
         /\ \/ need' = need /\ result' = result
            \/ /\ Head(rx).text \in Answers
               /\ need' = need \ {Bit(Head(rx).text)}
               /\ result' = IF result = "Pending" /\ need' = {} THEN "OK"
                            ELSE result
            \/ /\ Head(rx).text = "ERROR" /\ need' = {}
               /\ result' = IF result = "Pending" THEN "Error" ELSE result
<1> USE DEF Reads, ATComplete, Answers, Bit, taskVars, atVars, socketVars
<1>1. CASE OnOK
  BY <1>1 DEF OnOK
<1>2. CASE OnError
  BY <1>2 DEF OnError
<1>3. CASE OnOpened \/ OnDisconnected \/ OnMaybeIncoming \/ OnIncoming
  BY <1>3 DEF OnOpened, OnDisconnected, OnMaybeIncoming, OnIncoming, Update
<1>4. CASE OnCloseOk
  BY <1>4 DEF OnCloseOk, Update
<1>5. CASE OnSendResponse
  <2>1. /\ model' = model /\ command' = command /\ link' = link
        /\ pc' = pc /\ cur' = cur /\ phase' = phase /\ listed' = listed
        /\ rx # <<>> /\ rx' = Tail(rx)
        /\ Head(rx).text \in {"DATA ACCEPT", "SEND FAIL", "+CCHSEND"}
    BY <1>5 DEF OnSendResponse
  <2>2. ATComplete(2) \/ UNCHANGED <<need, result, failed>>
    BY <1>5 DEF OnSendResponse
  <2> QED
    BY <2>1, <2>2
<1>6. CASE OnReceiveAck
  <2>1. /\ model' = model /\ command' = command /\ link' = link
        /\ pc' = pc /\ cur' = cur /\ phase' = phase /\ listed' = listed
        /\ rx # <<>> /\ rx' = Tail(rx)
        /\ Head(rx).text = "+CIPACK"
    BY <1>6 DEF OnReceiveAck
  <2>2. ATComplete(2) \/ UNCHANGED <<need, result, failed>>
    BY <1>6 DEF OnReceiveAck
  <2> QED
    BY <2>1, <2>2
<1> QED
  BY <1>1, <1>2, <1>3, <1>4, <1>5, <1>6 DEF RxTask

\* The modem's answers.
LEMMA TalkDevice ==
  ASSUME Typed, Asked, Talk, Device, NEW r, Behaves(r)
  PROVE  Asked' /\ Talk'
<1>1. /\ model' = model /\ listed' = listed /\ flags' = flags
      /\ channel' = channel /\ phase' = phase /\ pc' = pc /\ cur' = cur
      /\ need' = need /\ result' = result /\ failed' = failed
  BY DeviceOnly
<1>2. /\ r \in Seq(LineType) /\ rx' = rx \o r /\ rx \in Seq(LineType)
      /\ Replies(r)
  BY DEF Behaves, Reports, Typed
<1>3. \A s \in Socket : KeepsChannel(s)
  BY <1>1, CalmSame, KindLinks, CalmUpdates DEF KeepsChannel, Calm
<1>4. CASE command' = command /\ Unanswered(r)
  <2>1. Asked'
    BY <1>1, <1>3, <1>4, AskedStill
  <2>2. Fits(rx, need) => Fits(rx \o r, need)
    BY <1>2, <1>4, FitsStill
  <2>3. Unanswered(rx) => Unanswered(rx \o r)
    BY <1>2, <1>4, FitsStill
  <2>4. Talk'
    BY <1>1, <1>2, <1>4, <2>2, <2>3 DEF Talk, Mask, Step
  <2> QED
    BY <2>1, <2>4
<1>5. CASE /\ command.name # "None" /\ command' = NoCommand
           /\ Fits(r, Mask(command.name))
  <2>1. Asked'
    BY <1>5 DEF Asked, NoCommand
  <2>2. ASSUME ~failed PROVE Fits(rx \o r, need) /\ result = "Pending"
    BY <1>2, <1>5, <2>2, FitsFirst DEF Talk
  <2>3. Talk'
    BY <1>1, <1>2, <1>5, <2>2 DEF Talk, NoCommand
  <2> QED
    BY <2>1, <2>3
<1> QED
  BY <1>2, <1>4, <1>5 DEF Replies

\* The end of a call.
LEMMA TalkReturn ==
  ASSUME Typed, FrameInv, Asked, Talk, KindStep,
         Return, pc # "Idle", result # "Pending",
         phase' = phase, atVars' = atVars, deviceVars' = deviceVars
  PROVE  Asked' /\ Talk'
<1>1. /\ command' = command /\ rx' = rx /\ failed' = failed /\ model' = model
  BY DEF atVars, deviceVars, KindStep
<1>2. command.name = "None" \/ failed
  BY Settled
<1>3. command.name = "Open" => failed' /\ phase' = "Serve"
  <2>1. command.name = "Open" => pc = "ConnectImpl" \/ phase = "Serve"
    BY DEF Asked
  <2> QED
    BY <1>1, <1>2, <2>1 DEF FrameInv
<1>4. Asked'
  BY <1>1, <1>3, KindChannel, AskedStill
<1>5. Talk'
  BY <1>1, <1>2, TalkStill
<1> QED
  BY <1>4, <1>5

\* The calls of a socket.
LEMMA TalkCalls ==
  ASSUME Typed, FlagInv, FrameInv, Asked, Talk, NEW s \in Socket,
         \/ CloseImpl(s) \/ ConnectImpl(s) \/ SendPacketImpl(s)
         \/ ReceivePacketImpl(s) \/ CheckIncomingImpl(s)
  PROVE  Asked' /\ Talk'
<1>1. CalmStep
  BY CalmTask
<1>2. /\ pc = "Idle" /\ s \in listed /\ IsAllocated(flags[s])
      /\ phase' = phase /\ (ReceivePacketImpl(s) => IsSecure(s))
      /\ (~CloseImpl(s) => phase = "Serve") /\ result # "Pending"
  BY CalledSocket DEF FrameInv
<1>3. ASSUME NEW name \in Name, name # "None", NEW len, NEW mask, NEW step,
             mask = Mask(name), step = Step(name),
             name = "Receive" => IsSecure(s), name = "Open" => phase = "Serve",
             Execute(s, name, len, mask, step)
      PROVE  Asked' /\ Talk'
  BY <1>1, <1>2, <1>3, TalkExecute
<1>4. CASE CloseImpl(s)
  <2>1. Execute(s, "Close", 0, {1}, "CloseImpl")
    BY <1>4 DEF CloseImpl
  <2> QED
    BY <1>3, <2>1 DEF Name, Mask, Step
<1>5. CASE ConnectImpl(s)
  <2>1. /\ phase = "Serve"
        /\ \/ Execute(s, "CIPSSL", 0, {1}, "ConnectSecurity")
           \/ Execute(s, "Open", 0, {1}, "ConnectImpl")
    BY <1>5 DEF ConnectImpl, Ready
  <2> QED
    BY <1>3, <2>1 DEF Name, Mask, Step
<1>6. CASE SendPacketImpl(s)
  <2>1. CASE failed
    <3>1. /\ command' = command /\ pc' = pc /\ cur' = cur /\ failed' = failed
          /\ model' = model
      BY <1>6, <2>1 DEF SendPacketImpl, deviceVars
    <3>2. Asked'
      BY <1>1, <1>2, <3>1, CalmKind, KindChannel, AskedStill
    <3> QED
      BY <2>1, <3>1, <3>2 DEF Talk
  <2>2. CASE Execute(s, "CIPACK", 0, {1, 2}, "SendAck")
    BY <1>3, <2>2 DEF Name, Mask, Step
  <2>3. CASE Send(s)
    <3>1. Execute(s, "Send", PacketLength(s),
                  IF model = "SIM800" THEN {2} ELSE {1, 2}, "SendPacketImpl")
      BY <2>3 DEF Send
    <3> QED
      BY <1>3, <3>1 DEF Name, Mask, Step
  <2> QED
    BY <1>6, <2>1, <2>2, <2>3 DEF SendPacketImpl
<1>7. CASE ReceivePacketImpl(s)
  <2>1. Execute(s, "Receive", MaxPacket, {1}, "ReceiveImpl")
    BY <1>7 DEF ReceivePacketImpl, RequestIncoming
  <2> QED
    BY <1>2, <1>3, <1>7, <2>1 DEF Name, Mask, Step
<1>8. CASE CheckIncomingImpl(s)
  <2>1. Execute(s, "Check", MaxPacket, {1}, "ReceiveImpl")
    BY <1>8 DEF CheckIncomingImpl, RequestIncoming
  <2> QED
    BY <1>3, <2>1 DEF Name, Mask, Step
<1> QED
  BY <1>4, <1>5, <1>6, <1>7, <1>8

\* The steps of the task.
LEMMA TalkTask ==
  ASSUME Typed, FlagInv, FrameInv, Asked, Talk, Task PROVE Asked' /\ Talk'
<1>1. pc = "Idle" => result # "Pending"
  BY DEF FrameInv
<1>2. ASSUME NEW s \in Socket, TryAllocateImpl(s) PROVE Asked' /\ Talk'
  <2>1. \A o \in Socket : KeepsChannel(o)
    <3>1. \A o \in Socket \ {s} : LinkOf(o)' = LinkOf(o)
      BY <1>2, AllocatedFlags DEF LinkOf, PoolOf, IsSecure
    <3> QED
      BY <1>2, <3>1, AllocatedFlags DEF KeepsChannel
  <2>2. /\ command' = command /\ rx' = rx /\ model' = model /\ pc' = pc
        /\ cur' = cur /\ phase' = phase /\ failed' = failed /\ atVars' = atVars
    BY <1>2 DEF TryAllocateImpl, taskVars, atVars, deviceVars
  <2> QED
    BY <2>1, <2>2, AskedStill, TalkStill
<1>3. CASE RemoveSockets
  <2>1. /\ pc = "Idle" /\ phase = "Close"
        /\ command' = command /\ rx' = rx /\ model' = model /\ pc' = pc
        /\ cur' = cur /\ atVars' = atVars
    BY <1>3 DEF RemoveSockets, Ready, atVars, deviceVars
  <2>2. command.name # "Open"
    BY <2>1 DEF Asked
  <2> QED
    BY <2>1, <2>2, AskedStill, TalkStill
<1>4. CASE PowerCycle
  <2>1. command' = NoCommand /\ rx' = <<>>
    BY <1>4 DEF PowerCycle
  <2> QED
    BY <2>1 DEF Asked, Talk, NoCommand, Unanswered, Fits
<1>5. CASE NextPass
  <2>1. /\ ~failed /\ result # "Pending"
        /\ command' = command /\ rx' = rx /\ atVars' = atVars /\ model' = model
    BY <1>5 DEF NextPass, FrameInv, deviceVars
  <2>2. command.name = "None"
    BY <2>1, Settled
  <2> QED
    BY <2>1, <2>2, AskedStill, TalkStill
<1>6. CASE CommandTimesOut
  <2>1. /\ command' = command /\ model' = model /\ failed' = TRUE
        /\ pc' = pc /\ cur' = cur /\ phase' = phase
    BY <1>6 DEF CommandTimesOut, taskVars, deviceVars
  <2>2. command.name = "Open" => phase = "Serve"
    BY DEF Asked, FrameInv
  <2>3. Asked'
    BY <1>6, <2>1, <2>2, CalmTask, CalmKind, KindChannel, AskedStill
  <2> QED
    BY <2>1, <2>3 DEF Talk
<1>7. CASE ConnectReturns \/ CallReturns \/ SendReturns
  <2>1. KindStep
    BY <1>7, CalmTask, CalmKind, KindSpecial
  <2> QED
    BY <1>7, <2>1, TalkReturn
    DEF ConnectReturns, CallReturns, SendReturns, Awaiting
<1>8. CASE SecurityReturns
  <2>1. CalmStep /\ KindStep
    BY <1>8, CalmTask, CalmKind
  <2>2. /\ cur \in Socket /\ IsAllocated(flags[cur]) /\ phase = "Serve"
        /\ result # "Pending" /\ phase' = phase /\ pc # "Idle"
    BY <1>8 DEF SecurityReturns, Awaiting, FrameInv, Typed, TypeOK
  <2>3. CASE result = "OK"
    <3>1. Execute(cur, "Open", 0, {1}, "ConnectImpl")
      BY <1>8, <2>3 DEF SecurityReturns
    <3>2. Mask("Open") = {1} /\ Step("Open") = "ConnectImpl" /\ "Open" \in Name
      BY DEF Mask, Step, Name
    <3> QED
      BY <2>1, <2>2, <3>1, <3>2, TalkExecute
  <2>4. CASE result # "OK"
    BY <1>8, <2>1, <2>2, <2>4, TalkReturn DEF SecurityReturns
  <2> QED
    BY <2>3, <2>4
<1>9. CASE AckReturns
  <2>1. CalmStep /\ KindStep
    BY <1>9, CalmTask, CalmKind
  <2>2. /\ cur \in Socket /\ IsAllocated(flags[cur]) /\ phase = "Serve"
        /\ result # "Pending" /\ phase' = phase /\ pc # "Idle"
    BY <1>9 DEF AckReturns, Awaiting, FrameInv, Typed, TypeOK
  <2>3. CASE result = "OK" /\ Available(cur) > 0
    <3>1. Execute(cur, "Send", PacketLength(cur),
                  IF model = "SIM800" THEN {2} ELSE {1, 2}, "SendPacketImpl")
      BY <1>9, <2>3 DEF AckReturns, Send
    <3>2. /\ Mask("Send") = IF model = "SIM800" THEN {2} ELSE {1, 2}
          /\ Step("Send") = "SendPacketImpl" /\ "Send" \in Name
      BY DEF Mask, Step, Name
    <3>3. Execute(cur, "Send", PacketLength(cur), Mask("Send"), Step("Send"))
      BY <3>1, <3>2
    <3> QED
      BY <2>1, <2>2, <3>2, <3>3, TalkExecute
  <2>4. CASE ~(result = "OK" /\ Available(cur) > 0)
    BY <1>9, <2>1, <2>2, <2>4, TalkReturn DEF AckReturns
  <2> QED
    BY <2>3, <2>4
<1> QED
  BY <1>2, <1>3, <1>4, <1>5, <1>6, <1>7, <1>8, <1>9, TalkCalls DEF Task

\* Every step keeps commands and answers in order.
LEMMA TalkStep ==
  ASSUME Typed, FlagInv, FrameInv, Asked, Talk, Unread, [Next]_vars
  PROVE  Asked' /\ Talk'
<1>1. CASE UNCHANGED vars
  <2>1. /\ command' = command /\ model' = model /\ rx' = rx /\ atVars' = atVars
        /\ pc' = pc /\ cur' = cur /\ phase' = phase /\ failed' = failed
        /\ listed' = listed /\ flags' = flags /\ channel' = channel
    BY <1>1 DEF vars, driverVars, deviceVars, taskVars, atVars, socketVars
  <2>2. KindStep
    BY <2>1, CalmSame, CalmKind
  <2> QED
    BY <2>1, <2>2, KindChannel, AskedStill, TalkStill
<1>2. CASE Device
  BY <1>2, DeviceStep, TalkDevice
<1>3. CASE RxTask
  <2>1. KindStep
    BY <1>3, CalmRx, KindSpecial, CalmKind DEF RxTask
  <2>2. Asked'
    BY <1>3, <2>1, ReadStep, KindChannel, AskedStill
  <2>3. Talk'
    BY <1>3, ReadStep, TalkRead
  <2> QED
    BY <2>2, <2>3
<1>4. ASSUME NEW s \in Socket, ReleaseSocket(s) \/ Disconnect(s) \/ WriteOutput(s)
      PROVE  Asked' /\ Talk'
  <2>1. taskVars' = taskVars /\ atVars' = atVars /\ deviceVars' = deviceVars
        /\ model' = model
    BY <1>4 DEF ReleaseSocket, Disconnect, WriteOutput
  <2>2. KindStep
    BY <1>4, CalmTask, CalmKind
  <2> QED
    BY <2>1, <2>2, KindChannel, AskedStill, TalkStill
    DEF taskVars, atVars, deviceVars
<1>5. ASSUME NEW s \in Socket, NEW tls \in BOOLEAN, CreateSocket(s, tls)
      PROVE  Asked' /\ Talk'
  <2>1. /\ taskVars' = taskVars /\ atVars' = atVars /\ deviceVars' = deviceVars
        /\ model' = model
    BY <1>5 DEF CreateSocket
  <2>2. \A o \in Socket : KeepsChannel(o)
    <3>1. \A o \in Socket \ {s} : LinkOf(o)' = LinkOf(o)
      BY <1>5, CreatedFlags DEF LinkOf, PoolOf, IsSecure
    <3> QED
      BY <1>5, <3>1, CreatedFlags DEF KeepsChannel
  <2> QED
    BY <2>1, <2>2, AskedStill, TalkStill DEF taskVars, atVars, deviceVars
<1> QED
  BY <1>1, <1>2, <1>3, <1>4, <1>5, TalkTask DEF Next, App

-----------------------------------------------------------------------------
(* Sockets in use *)

\* The socket keeps its channel.
Stays(s) ==
  /\ s \in listed' /\ SameKind(flags[s], flags'[s])
  /\ channel'[s] = channel[s]

\* A socket in use has a channel.
LEMMA UsedSocket ==
  ASSUME Typed, FlagInv, UseInv, NEW s \in Socket, InUse(s)
  PROVE  IsAllocated(flags[s]) /\ s \in listed
<1>1. CASE Linked(s)
  BY <1>1 DEF Linked, UseInv, ConnectionOwned
<1>2. CASE About(rx, s)
  BY <1>2 DEF About, UseInv, Said, Good, FlagInv
<1> QED
  BY <1>1, <1>2 DEF InUse

\* While sockets in use stay and no connection is new, lines are read and
\* connections end, no more.
LEMMA UseLines ==
  ASSUME Typed, FlagInv, UseInv, model' = model, link' = link,
         rx' = rx \/ (rx # <<>> /\ rx' = Tail(rx)),
         \A s \in Socket : InUse(s) => Stays(s)
  PROVE  /\ ConnectionOwned' /\ Unread' /\ Said' /\ Ordered(rx)'
         /\ \A s : InUse(s)' => InUse(s)
<1>1. Link' = Link
  BY DEF Link, Capacity
<1>2. \A s \in Socket : InUse(s) =>
        /\ PoolOf(s)' = PoolOf(s) /\ LinkOf(s)' = LinkOf(s)
        /\ IsAllocated(flags'[s]) /\ s \in listed'
        /\ channel'[s] = channel[s]
  BY UsedSocket, KindLinks DEF Stays, SameKind
<1>3. ConnectionOwned'
  <2>1. ASSUME NEW l \in Link, link[l].at # "idle"
        PROVE  /\ link[l].of \in listed' /\ LinkOf(link[l].of)' = l
               /\ IsAllocated(flags'[link[l].of])
    <3>1. link[l].of \in Socket /\ LinkOf(link[l].of) = l /\ InUse(link[l].of)
      BY <2>1 DEF UseInv, ConnectionOwned, Typed, TypeOK, InUse, Linked
    <3> QED
      BY <1>2, <3>1
  <2>2. ASSUME NEW l \in Link, (link[l].at # "idle")'
        PROVE  /\ link'[l].of \in listed' /\ LinkOf(link[l].of)' = l
               /\ IsAllocated(flags[link[l].of])'
    <3>1. link'[l] = link[l]
      OBVIOUS
    <3> DEFINE o == link[l].of
    <3>2. LinkOf(o)' = l /\ link'[l].of = o
      BY <2>1, <2>2, <3>1
    <3> QED
      BY <2>1, <2>2, <3>1
  <2> QED
    BY <1>1, <2>2 DEF ConnectionOwned
<1>4. Unread'
  BY <1>1 DEF UseInv, Unread
<1>5. rx \in Seq(LineType) /\ Ordered(rx)
  BY DEF Typed, UseInv
<1>6. \A s : About(rx, s)' => About(rx, s)
  BY <1>5, OrderedAfter DEF About
<1>7. \A s : Linked(s)' <=> Linked(s)
  BY <1>1 DEF Linked
<1>8. Ordered(rx)'
  BY <1>5, OrderedAfter
<1>9. \A i \in DOMAIN rx' : \E j \in DOMAIN rx : rx'[i] = rx[j]
  <2>1. CASE rx' = rx
    BY <2>1
  <2>2. CASE rx # <<>> /\ rx' = Tail(rx)
    BY <1>5, <2>2, LineRead
  <2> QED
    BY <2>1, <2>2
<1>10. Said'
  <2>1. ASSUME NEW j \in DOMAIN rx, rx[j].text \in Events,
               NEW o, o = rx[j].of
        PROVE  /\ o \in Socket /\ IsAllocated(flags'[o])
               /\ channel'[o] = rx[j].ch
               /\ rx[j].text \in Terminal => PoolOf(o)' # "CIP" /\ ~Linked(o)'
    <3>1. /\ o \in Socket /\ InUse(o) /\ channel[o] = rx[j].ch
          /\ rx[j].text \in Terminal => PoolOf(o) # "CIP" /\ ~Linked(o)
      BY <2>1 DEF UseInv, Said, Good, InUse, About
    <3> QED
      BY <1>2, <1>7, <3>1
  <2>2. ASSUME NEW i \in DOMAIN rx' PROVE Good(rx[i])'
    <3>1. PICK j \in DOMAIN rx : rx'[i] = rx[j]
      BY <1>9, <2>2
    <3>2. PICK o : o = rx[j].of
      OBVIOUS
    <3>3. rx'[i].of = o /\ rx'[i].text = rx[j].text /\ rx'[i].ch = rx[j].ch
      BY <3>1, <3>2
    <3>4. rx[j].text \in Events =>
            /\ o \in Socket /\ IsAllocated(flags'[o])
            /\ channel'[o] = rx[j].ch
            /\ rx[j].text \in Terminal => PoolOf(o)' # "CIP" /\ ~Linked(o)'
      BY <2>1, <3>2
    <3> QED
      BY <3>3, <3>4 DEF Good, PoolOf, IsSecure, Linked
  <2> QED
    BY <2>2 DEF Said
<1> QED
  BY <1>3, <1>4, <1>6, <1>7, <1>8, <1>10 DEF InUse

\* Neither do calls and returns bring anything new.
LEMMA UseStill ==
  ASSUME Typed, FlagInv, UseInv, model' = model, link' = link,
         rx' = rx \/ (rx # <<>> /\ rx' = Tail(rx)),
         \A s \in Socket : InUse(s) => Stays(s),
         \A s \in Socket : InUse(s) /\ InUse(s)' /\ Kept(s) => Kept(s)',
         (\A s : InUse(s)' => InUse(s)) => Fresh'
  PROVE  UseInv'
<1>1. /\ ConnectionOwned' /\ Unread' /\ Said' /\ Ordered(rx)'
      /\ \A s : InUse(s)' => InUse(s)
  BY UseLines
<1>2. Held'
  BY <1>1 DEF UseInv, Held
<1> QED
  BY <1>1, <1>2 DEF UseInv

\* In the next state, too, a socket is the one its name stands for.
LEMMA NextUse ==
  /\ \A o : o = command'.of => (InUse(command.of)' <=> InUse(o)')
  /\ \A o : o = cur' => (InUse(cur)' <=> InUse(o)')
BY DEF InUse, Linked, About

\* What has not been in use is still not.
LEMMA FreshStill ==
  ASSUME Fresh, \A s : InUse(s)' => InUse(s),
         command' = command \/ command'.name # "Open",
         \/ failed' \/ pc' \notin {"ConnectSecurity", "ConnectImpl"}
         \/ /\ pc' = pc /\ cur' = cur /\ failed' = failed
            /\ Refusing' => Refusing
  PROVE  Fresh'
<1>1. command'.name = "Open" => ~InUse(command.of)'
  BY NextUse DEF Fresh
<1>2. cur' = cur /\ ~InUse(cur) => ~InUse(cur)'
  BY NextUse
<1> QED
  BY <1>1, <1>2 DEF Fresh

\* A command that concerns a connection is given when there is none.
LEMMA FreshExecute ==
  ASSUME \A s : InUse(s)' => InUse(s), NEW s, NEW name, NEW len,
         NEW mask, NEW step,
         Execute(s, name, len, mask, step),
         \/ name # "Open" /\ step \notin {"ConnectSecurity", "ConnectImpl"}
         \/ ~failed => ~InUse(s)
  PROVE  Fresh'
<1>1. /\ pc' = step /\ cur' = s /\ failed' = failed
      /\ command' = IF failed THEN NoCommand
                    ELSE [name |-> name, link |-> LinkOf(s), len |-> len,
                          of |-> s]
  BY DEF Execute
<1>2. CASE failed
  BY <1>1, <1>2 DEF Fresh, NoCommand
<1>3. CASE ~failed
  <2>1. command'.name = name /\ command'.of = s
    BY <1>1, <1>3
  <2>2. ~InUse(s) => ~InUse(command.of)' /\ ~InUse(cur)'
    BY <1>1, <2>1, NextUse
  <2> QED
    BY <1>1, <1>3, <2>1, <2>2 DEF Fresh
<1> QED
  BY <1>2, <1>3

\* Sockets in use stay when all sockets stay what they are.
LEMMA KindStays ==
  ASSUME KindStep, Typed, FlagInv, UseInv
  PROVE  \A s \in Socket : InUse(s) => Stays(s)
BY UsedSocket DEF KindStep, Stays

\* What keeps a socket lasts through a calm step, unless its call ends.
LEMMA CalmKept ==
  ASSUME CalmStep, NEW s \in Socket, Kept(s),
         \/ pc' = pc /\ cur' = cur
         \/ pc # "ConnectImpl"
         \/ cur # s,
         failed /\ phase = "Serve" => failed' /\ phase' = "Serve"
  PROVE  Kept(s)'
BY DEF CalmStep, Calm, Kept

\* The calls of a socket.
LEMMA UseCalls ==
  ASSUME Typed, FlagInv, FrameInv, Talk, UseInv, NEW s \in Socket,
         \/ CloseImpl(s) \/ ConnectImpl(s) \/ SendPacketImpl(s)
         \/ ReceivePacketImpl(s) \/ CheckIncomingImpl(s)
  PROVE  UseInv'
<1>1. CalmStep
  BY CalmTask
<1>2. /\ pc = "Idle" /\ phase' = phase
  BY CalledSocket
<1>3. /\ model' = model /\ link' = link /\ rx' = rx /\ failed' = failed
  <2>1. model' = model
    BY <1>1 DEF CalmStep
  <2>2. CASE SendPacketImpl(s)
    BY <2>1, <2>2 DEF SendPacketImpl, Send, Execute, deviceVars
  <2>3. CASE ~SendPacketImpl(s)
    BY <2>1, <2>3
    DEF CloseImpl, ConnectImpl, ReceivePacketImpl, CheckIncomingImpl,
        RequestIncoming, Execute
  <2> QED
    BY <2>2, <2>3
<1>4. \A o \in Socket : InUse(o) => Stays(o)
  BY <1>1, CalmKind, KindStays
<1>5. \A o \in Socket : Kept(o) => Kept(o)'
  BY <1>1, <1>2, <1>3, CalmKept
<1>6. ASSUME \A o : InUse(o)' => InUse(o) PROVE Fresh'
  <2>1. CASE CloseImpl(s)
    <3>1. Execute(s, "Close", 0, {1}, "CloseImpl")
      BY <2>1 DEF CloseImpl
    <3> QED
      BY <1>6, <3>1, FreshExecute
  <2>2. CASE ConnectImpl(s)
    <3>1. \/ Execute(s, "CIPSSL", 0, {1}, "ConnectSecurity")
          \/ Execute(s, "Open", 0, {1}, "ConnectImpl")
      BY <2>2 DEF ConnectImpl
    <3>2. "ModemReference" \notin flags[s]
      BY <2>2 DEF ConnectImpl, NeedsConnect
    <3>3. ~failed => ~InUse(s)
      BY <1>2, <3>2 DEF UseInv, Held, Kept
    <3> QED
      BY <1>6, <3>1, <3>3, FreshExecute
  <2>3. CASE SendPacketImpl(s)
    <3>1. CASE failed
      <4>1. command' = command /\ pc' = pc
        BY <2>3, <3>1 DEF SendPacketImpl, deviceVars
      <4> QED
        BY <1>2, <1>6, <4>1, FreshStill DEF UseInv
    <3>2. CASE Execute(s, "CIPACK", 0, {1, 2}, "SendAck")
      BY <1>6, <3>2, FreshExecute
    <3>3. CASE Send(s)
      <4>1. \E len, mask : Execute(s, "Send", len, mask, "SendPacketImpl")
        BY <3>3 DEF Send
      <4> QED
        BY <1>6, <4>1, FreshExecute
    <3> QED
      BY <2>3, <3>1, <3>2, <3>3 DEF SendPacketImpl
  <2>4. ASSUME NEW name \in {"Receive", "Check"}, RequestIncoming(s, name)
        PROVE  Fresh'
    <3>1. Execute(s, name, MaxPacket, {1}, "ReceiveImpl")
      BY <2>4 DEF RequestIncoming
    <3> QED
      BY <1>6, <2>4, <3>1, FreshExecute
  <2> QED
    BY <2>1, <2>2, <2>3, <2>4 DEF ReceivePacketImpl, CheckIncomingImpl
<1> QED
  BY <1>3, <1>4, <1>5, <1>6, UseStill

\* Calls that return, but for the one that connects.
LEMMA UseReturns ==
  ASSUME Typed, FlagInv, FrameInv, Talk, UseInv,
         SecurityReturns \/ AckReturns \/ SendReturns \/ CallReturns
  PROVE  UseInv'
<1>1. CalmStep
  BY CalmTask
<1>2. /\ model' = model /\ link' = link /\ rx' = rx /\ failed' = failed
      /\ phase' = phase /\ pc # "ConnectImpl"
  BY DEF SecurityReturns, AckReturns, SendReturns, CallReturns, Send, Execute,
         deviceVars, atVars, Awaiting
<1>3. \A o \in Socket : InUse(o) => Stays(o)
  BY <1>1, CalmKind, KindStays
<1>4. \A o \in Socket : Kept(o) => Kept(o)'
  BY <1>1, <1>2, CalmKept
<1>5. ASSUME \A o : InUse(o)' => InUse(o) PROVE Fresh'
  <2>1. CASE Return /\ deviceVars' = deviceVars
    <3>1. command' = command /\ pc' = "Idle"
      BY <2>1 DEF Return, deviceVars
    <3> QED
      BY <1>5, <3>1, FreshStill DEF UseInv
  <2>2. CASE SecurityReturns /\ Execute(cur, "Open", 0, {1}, "ConnectImpl")
    <3>1. ~failed => ~InUse(cur)
      BY <2>2 DEF SecurityReturns, Awaiting, UseInv, Fresh
    <3> QED
      BY <1>5, <2>2, <3>1, FreshExecute
  <2>3. CASE Send(cur)
    <3>1. \E len, mask : Execute(cur, "Send", len, mask, "SendPacketImpl")
      BY <2>3 DEF Send
    <3> QED
      BY <1>5, <3>1, FreshExecute
  <2> QED
    BY <2>1, <2>2, <2>3
    DEF SecurityReturns, AckReturns, SendReturns, CallReturns
<1> QED
  BY <1>2, <1>3, <1>4, <1>5, UseStill

\* A connection that comes about is held, and one that does not is not in use,
\* or the session is given up.
LEMMA UseConnect ==
  ASSUME Typed, FlagInv, FrameInv, Talk, UseInv, ConnectReturns
  PROVE  UseInv'
<1>1. KindStep
  BY KindSpecial
<1>2. /\ model' = model /\ link' = link /\ rx' = rx /\ failed' = failed
      /\ phase' = phase /\ pc' = "Idle" /\ command' = command
      /\ pc = "ConnectImpl" /\ result # "Pending" /\ phase = "Serve"
      /\ cur \in Socket
      /\ flags' = [flags EXCEPT ![cur] = IF result = "OK" THEN Bound(@)
                                         ELSE Finished(@)]
  BY DEF ConnectReturns, Return, Awaiting, deviceVars, atVars, FrameInv, Typed,
         TypeOK
<1>3. \A o \in Socket : InUse(o) => Stays(o)
  BY <1>1, KindStays
<1>4. ASSUME NEW o \in Socket, InUse(o), Kept(o) PROVE Kept(o)'
  <2>1. CASE failed
    BY <1>2, <2>1 DEF Kept
  <2>2. CASE o # cur /\ ~failed
    BY <1>2, <1>4, <2>2 DEF Kept
  <2>3. CASE o = cur /\ result = "OK"
    <3>1. flags'[cur] = Bound(flags[cur])
      BY <1>2, <2>3 DEF Typed, TypeOK
    <3> QED
      BY <2>3, <3>1, OtherUpdates DEF Kept
  <2>4. CASE o = cur /\ result # "OK" /\ ~failed
    <3>1. result = "Error"
      BY <1>2, <2>4 DEF FrameInv, Typed, TypeOK
    <3> QED
      BY <1>2, <1>4, <2>4, <3>1 DEF UseInv, Fresh, Refusing
  <2> QED
    BY <2>1, <2>2, <2>3, <2>4
<1>5. ASSUME \A o : InUse(o)' => InUse(o) PROVE Fresh'
  BY <1>2, <1>5, FreshStill DEF UseInv
<1> QED
  BY <1>2, <1>3, <1>4, <1>5, UseStill

\* The steps of the task.
LEMMA UseTask ==
  ASSUME Typed, FlagInv, FrameInv, Talk, UseInv, Task PROVE UseInv'
<1>1. ASSUME NEW s \in Socket, TryAllocateImpl(s) PROVE UseInv'
  <2>1. /\ model' = model /\ link' = link /\ rx' = rx /\ command' = command
        /\ pc' = pc /\ cur' = cur /\ phase' = phase /\ failed' = failed
        /\ pc = "Idle"
    BY <1>1 DEF TryAllocateImpl, Ready, taskVars, atVars, deviceVars
  <2>2. ASSUME NEW o \in Socket, InUse(o)
        PROVE  o # s /\ Stays(o) /\ flags'[o] = flags[o]
    <3>1. o # s
      BY <1>1, <2>2, UsedSocket, AllocatedFlags
    <3> QED
      BY <1>1, <2>2, <3>1, UsedSocket, AllocatedFlags DEF Stays, SameKind
  <2>3. \A o \in Socket : InUse(o) /\ Kept(o) => Kept(o)'
    BY <2>1, <2>2 DEF Kept
  <2>4. ASSUME \A o : InUse(o)' => InUse(o) PROVE Fresh'
    BY <2>1, <2>4, FreshStill DEF UseInv
  <2> QED
    BY <2>1, <2>2, <2>3, <2>4, UseStill
<1>2. CASE RemoveSockets
  <2>1. /\ model' = model /\ link' = link /\ rx' = rx /\ command' = command
        /\ pc' = pc /\ cur' = cur /\ pc = "Idle" /\ phase = "Close"
    BY <1>2 DEF RemoveSockets, Ready, deviceVars
  <2>2. ASSUME NEW o \in Socket, InUse(o)
        PROVE  Stays(o) /\ flags'[o] = flags[o] /\ "ModemReference" \in flags[o]
    <3>1. "ModemReference" \in flags[o]
      BY <2>1, <2>2 DEF UseInv, Held, Kept
    <3> QED
      BY <1>2, <2>2, <3>1, UsedSocket, RemovedFlags DEF Stays, SameKind
  <2>3. \A o \in Socket : InUse(o) /\ Kept(o) => Kept(o)'
    BY <2>2 DEF Kept
  <2>4. ASSUME \A o : InUse(o)' => InUse(o) PROVE Fresh'
    BY <2>1, <2>4, FreshStill DEF UseInv
  <2> QED
    BY <2>1, <2>2, <2>3, <2>4, UseStill
<1>3. CASE PowerCycle
  <2>1. /\ rx' = <<>> /\ command' = NoCommand /\ pc' = "Idle"
        /\ link' = [l \in Link |-> NoConnection]
    BY <1>3 DEF PowerCycle, Ready
  <2>2. Link' = Link
    BY DEF Link, Capacity
  <2>3. \A l \in Link : link'[l].at = "idle" /\ ~link'[l].unread
    BY <2>1 DEF NoConnection
  <2>4. ConnectionOwned' /\ Unread'
    BY <2>2, <2>3 DEF ConnectionOwned, Unread
  <2>5. Said' /\ Ordered(rx)'
    BY <2>1 DEF Said, Ordered
  <2>6. Held'
    BY <2>1, <2>2, <2>3 DEF Held, InUse, Linked, About
  <2>7. Fresh'
    BY <2>1 DEF Fresh, NoCommand
  <2> QED
    BY <2>4, <2>5, <2>6, <2>7 DEF UseInv
<1>4. CASE NextPass
  <2>1. /\ model' = model /\ link' = link /\ rx' = rx /\ command' = command
        /\ pc' = pc /\ cur' = cur /\ failed' = failed
        /\ pc = "Idle" /\ ~failed
    BY <1>4 DEF NextPass, Ready, FrameInv, atVars, deviceVars
  <2>2. CalmStep
    BY <1>4, CalmTask
  <2>3. \A o \in Socket : Kept(o) => Kept(o)'
    BY <2>1, <2>2, CalmKept
  <2>4. \A o \in Socket : InUse(o) => Stays(o)
    BY <2>2, CalmKind, KindStays
  <2>5. ASSUME \A o : InUse(o)' => InUse(o) PROVE Fresh'
    BY <2>1, <2>5, FreshStill DEF UseInv
  <2> QED
    BY <2>1, <2>3, <2>4, <2>5, UseStill
<1>5. CASE CommandTimesOut
  <2>1. /\ model' = model /\ link' = link /\ rx' = rx /\ command' = command
        /\ pc' = pc /\ cur' = cur /\ phase' = phase /\ failed' = TRUE
    BY <1>5 DEF CommandTimesOut, taskVars, deviceVars
  <2>2. CalmStep
    BY <1>5, CalmTask
  <2>3. \A o \in Socket : Kept(o) => Kept(o)'
    BY <2>1, <2>2, CalmKept
  <2>4. \A o \in Socket : InUse(o) => Stays(o)
    BY <2>2, CalmKind, KindStays
  <2>5. ASSUME \A o : InUse(o)' => InUse(o) PROVE Fresh'
    BY <2>1, <2>5, FreshStill DEF UseInv
  <2> QED
    BY <2>1, <2>3, <2>4, <2>5, UseStill
<1> QED
  BY <1>1, <1>2, <1>3, <1>4, <1>5, UseCalls, UseReturns, UseConnect DEF Task

\* The steps of the application.
LEMMA UseApp ==
  ASSUME Typed, FlagInv, FrameInv, UseInv, App PROVE UseInv'
<1>1. /\ model' = model /\ link' = link /\ rx' = rx /\ command' = command
      /\ pc' = pc /\ cur' = cur /\ phase' = phase /\ failed' = failed
      /\ result' = result
  BY DEF App, CreateSocket, ReleaseSocket, Disconnect, WriteOutput, taskVars,
         atVars, deviceVars
<1>2. ASSUME \A o : InUse(o)' => InUse(o) PROVE Fresh'
  BY <1>1, <1>2, FreshStill DEF UseInv, Refusing
<1>3. ASSUME NEW s \in Socket, NEW tls \in BOOLEAN, CreateSocket(s, tls)
      PROVE  UseInv'
  <2>1. ASSUME NEW o \in Socket, InUse(o)
        PROVE  Stays(o) /\ flags'[o] = flags[o]
    <3>1. o # s
      BY <1>3, <2>1, UsedSocket, CreatedFlags
    <3> QED
      BY <1>3, <2>1, <3>1, UsedSocket, CreatedFlags DEF Stays, SameKind
  <2>2. \A o \in Socket : InUse(o) /\ Kept(o) => Kept(o)'
    BY <1>1, <2>1 DEF Kept
  <2> QED
    BY <1>1, <1>2, <2>1, <2>2, UseStill
<1>4. ASSUME NEW s \in Socket, ReleaseSocket(s) \/ Disconnect(s) \/ WriteOutput(s)
      PROVE  UseInv'
  <2>1. CalmStep
    BY <1>4, CalmTask
  <2>2. \A o \in Socket : Kept(o) => Kept(o)'
    BY <1>1, <2>1, CalmKept
  <2>3. \A o \in Socket : InUse(o) => Stays(o)
    BY <2>1, CalmKind, KindStays
  <2> QED
    BY <1>1, <1>2, <2>2, <2>3, UseStill
<1> QED
  BY <1>3, <1>4 DEF App

\* A line finds the socket it is about, if any.
LEMMA FindsOwner ==
  ASSUME Typed, FlagInv, NEW o \in Socket, IsAllocated(flags[o]),
         IsSecure(o) \/ PoolOf(o) # "CIP", FindSocket(channel[o]) # NULL
  PROVE  FindSocket(channel[o]) = o
<1> DEFINE f == FindSocket(channel[o])
<1>1. /\ f \in listed /\ IsAllocated(flags[f]) /\ IsSecure(f)
      /\ channel[f] = channel[o]
  BY FoundSocket
<1>2. PoolOf(f) = PoolOf(o)
  BY <1>1 DEF PoolOf
<1>3. o \in listed
  BY DEF FlagInv
<1> QED
  BY <1>1, <1>2, <1>3 DEF FlagInv, ChannelsUnique

\* ... and a secure one is always found.
LEMMA SecureFound ==
  ASSUME Typed, FlagInv, NEW o \in Socket, IsAllocated(flags[o]), IsSecure(o)
  PROVE  FindSocket(channel[o]) = o
<1> DEFINE found == {s \in listed : /\ IsAllocated(flags[s]) /\ IsSecure(s)
                                    /\ channel[s] = channel[o]}
<1>1. o \in found
  BY DEF FlagInv
<1>2. FindSocket(channel[o]) = CHOOSE s \in found : TRUE
  BY <1>1 DEF FindSocket
<1>3. FindSocket(channel[o]) \in found
  BY <1>1, <1>2
<1>4. FindSocket(channel[o]) # NULL
  BY <1>3, SimComAssumption DEF Typed, TypeOK
<1> QED
  BY <1>4, FindsOwner

\* A line takes away the modem's reference only from a socket whose end it
\* tells.
LEMMA UseRx ==
  ASSUME Typed, FlagInv, FrameInv, Talk, UseInv, RxTask PROVE UseInv'
<1>1. KindStep
  BY CalmRx, KindSpecial, CalmKind DEF RxTask
<1>2. /\ model' = model /\ command' = command /\ link' = link
      /\ pc' = pc /\ cur' = cur /\ phase' = phase /\ failed' = failed
      /\ rx # <<>> /\ rx' = Tail(rx)
  BY ReadStep
<1>3. \A o \in Socket : InUse(o) => Stays(o)
  BY <1>1, KindStays
<1>4. rx \in Seq(LineType) /\ 1 \in DOMAIN rx /\ Head(rx) = rx[1]
  BY <1>2, LineRead DEF Typed
<1>5. Refusing' => Refusing
  <2>1. result' = "Error" => result = "Error" \/ Head(rx).text = "ERROR"
    BY ReadStep
  <2>2. (\E i \in DOMAIN rx' : rx'[i].text = "ERROR") =>
          \E i \in DOMAIN rx : rx[i].text = "ERROR"
    BY <1>2, <1>4, LineRead
  <2> QED
    BY <1>4, <2>1, <2>2 DEF Refusing
<1>6. ASSUME \A o : InUse(o)' => InUse(o) PROVE Fresh'
  BY <1>2, <1>5, <1>6, FreshStill DEF UseInv
<1>7. ASSUME NEW o \in Socket, InUse(o)', Kept(o) PROVE Kept(o)'
  <2>1. CASE "ModemReference" \in flags'[o] \/ "ModemReference" \notin flags[o]
    BY <1>2, <1>7, <2>1 DEF Kept
  <2>2. CASE "ModemReference" \notin flags'[o] /\ "ModemReference" \in flags[o]
    <3>1. OnDisconnected \/ OnCloseOk
      <4>1. CalmStep => FALSE
        BY <2>2 DEF CalmStep, Calm
      <4>2. ~OnOpened
        <5>1. ASSUME OnOpened PROVE FALSE
          <6>1. \/ flags' = flags
                \/ /\ Found # NULL
                   /\ flags' = [flags EXCEPT ![Found] = Connected(@)]
            BY <5>1 DEF OnOpened, Update
          <6>2. "ModemReference" \in flags'[o]
            <7>1. "ModemReference" \in Connected(flags[o])
              BY <2>2, OtherUpdates
            <7>2. flags'[o] \in {flags[o], Connected(flags[o])}
              BY <6>1 DEF Typed, TypeOK
            <7> QED
              BY <2>2, <7>1, <7>2
          <6> QED
            BY <2>2, <6>2
        <5> QED
          BY <5>1
      <4> QED
        BY <4>1, <4>2, CalmRx DEF RxTask
    <3>2. /\ Head(rx).text \in Terminal /\ Head(rx).text \in Events
          /\ \/ flags' = flags
             \/ Found # NULL /\ flags' = [flags EXCEPT ![Found] = Finished(@)]
      BY <3>1 DEF OnDisconnected, OnCloseOk, Reads, Update, Terminal, Events
    <3>3. Found = o
      BY <2>2, <3>2 DEF Typed, TypeOK
    <3>4. PICK e \in Socket : e = Head(rx).of
      BY <1>4, <3>2 DEF UseInv, Said, Good
    <3>5. /\ IsAllocated(flags[e]) /\ channel[e] = Head(rx).ch
          /\ PoolOf(e) # "CIP" /\ ~Linked(e)
      BY <1>4, <3>2, <3>4 DEF UseInv, Said, Good
    <3>6. e = o
      <4>1. o # NULL
        BY SimComAssumption
      <4> QED
        BY <3>3, <3>5, <4>1, FindsOwner DEF Found
    <3>7. ~About(Tail(rx), e)
      BY <1>2, <1>4, <3>2, <3>4, OrderedAfter DEF UseInv
    <3>8. ~Linked(o)' /\ ~About(rx, o)'
      <4>1. Link' = Link
        BY DEF Link, Capacity
      <4> QED
        BY <1>2, <3>5, <3>6, <3>7, <4>1 DEF Linked, About
    <3> QED
      BY <1>7, <3>8 DEF InUse
  <2> QED
    BY <2>1, <2>2
<1> QED
  BY <1>2, <1>3, <1>6, <1>7, UseStill

\* What the modem does to connections that are there.
LEMMA UseDevice ==
  ASSUME Typed, FlagInv, FrameInv, Asked, Talk, UseInv, Device, KeepsLinks,
         NEW r, Behaves(r)
  PROVE  UseInv'
<1>1. /\ model' = model /\ listed' = listed /\ flags' = flags
      /\ channel' = channel /\ phase' = phase /\ pc' = pc /\ cur' = cur
      /\ result' = result /\ failed' = failed
  BY DeviceOnly
<1>2. /\ r \in Seq(LineType) /\ rx' = rx \o r /\ rx \in Seq(LineType)
      /\ Reports(r) /\ Replies(r)
  BY DEF Behaves, Reports, Typed
<1>3. Link' = Link
  BY DEF Link, Capacity
<1>4. \A l \in Link : link[l].at # "idle" =>
        /\ link[l].of \in Socket /\ link[l].of \in listed
        /\ LinkOf(link[l].of) = l /\ IsAllocated(flags[link[l].of])
        /\ Linked(link[l].of)
  BY DEF UseInv, ConnectionOwned, Typed, TypeOK, Linked
<1>5. \A s : PoolOf(s)' = PoolOf(s) /\ LinkOf(s)' = LinkOf(s)
  BY <1>1 DEF PoolOf, LinkOf, IsSecure
<1>6. \A s : Linked(s)' => Linked(s)
  BY <1>3 DEF Linked, KeepsLinks
<1>7. \A i \in DOMAIN r : r[i].text \in Events =>
        /\ r[i].of \in Socket /\ IsAllocated(flags[r[i].of])
        /\ channel[r[i].of] = r[i].ch
        /\ Linked(r[i].of)
        /\ r[i].text \in Terminal => PoolOf(r[i].of) # "CIP"
                                     /\ link'[LinkOf(r[i].of)].at = "idle"
  <2>1. ASSUME NEW i \in DOMAIN r, r[i].text \in Events
        PROVE  /\ r[i].of \in Socket /\ IsAllocated(flags[r[i].of])
               /\ channel[r[i].of] = r[i].ch
               /\ Linked(r[i].of)
               /\ r[i].text \in Terminal =>
                    /\ PoolOf(r[i].of) # "CIP"
                    /\ link'[LinkOf(r[i].of)].at = "idle"
    <3>1. PICK l \in Link :
            /\ link[l].at # "idle" /\ r[i].of = link[l].of /\ r[i].ch = l[2]
            /\ r[i].text \in Terminal => l[1] # "CIP" /\ link'[l].at = "idle"
      BY <1>2, <2>1 DEF Reports
    <3>2. /\ r[i].of \in Socket /\ IsAllocated(flags[r[i].of])
          /\ Linked(r[i].of) /\ LinkOf(r[i].of) = l
      BY <1>4, <3>1
    <3>3. l[1] = PoolOf(r[i].of) /\ l[2] = channel[r[i].of]
      BY <3>2 DEF LinkOf
    <3> QED
      BY <3>1, <3>2, <3>3
  <2> QED
    BY <2>1
<1>8. \A s \in Socket : link'[LinkOf(s)].at = "idle" => ~Linked(s)'
  <2>1. ASSUME NEW s \in Socket, NEW l \in Link,
               link'[l].at # "idle", link'[l].of = s
        PROVE  LinkOf(s) = l
    BY <1>4, <2>1 DEF KeepsLinks
  <2> QED
    BY <1>3, <2>1 DEF Linked
<1>9. \A i \in DOMAIN rx' :
        \/ i \in DOMAIN rx /\ rx'[i] = rx[i]
        \/ i \notin DOMAIN rx /\ i - Len(rx) \in DOMAIN r
           /\ rx'[i] = r[i - Len(rx)]
  BY <1>2, LinesAdded
<1>10. \A s : InUse(s)' => InUse(s)
  <2>1. \A s : About(rx, s)' => About(rx, s) \/ Linked(s)
    BY <1>7, <1>9 DEF About
  <2> QED
    BY <1>6, <2>1 DEF InUse
<1>11. ConnectionOwned'
  <2>1. ASSUME NEW l \in Link, link'[l].at # "idle"
        PROVE  \E o \in listed : /\ link'[l].of = o /\ LinkOf(o)' = l
                                 /\ IsAllocated(flags[o])
    BY <1>4, <1>5, <2>1 DEF KeepsLinks
  <2> QED
    BY <1>1, <1>3, <2>1 DEF ConnectionOwned, LinkOf, PoolOf, IsSecure
<1>12. Unread'
  BY <1>3 DEF Unread, KeepsLinks
<1>13. Said'
  <2>1. ASSUME NEW e, \E j \in DOMAIN rx : e = rx[j], e.text \in Events
        PROVE  /\ e.of \in Socket /\ IsAllocated(flags[e.of])
               /\ channel[e.of] = e.ch
               /\ e.text \in Terminal =>
                    PoolOf(e.of) # "CIP" /\ ~Linked(e.of)'
    BY <1>6, <2>1 DEF UseInv, Said, Good
  <2>2. ASSUME NEW e, \E j \in DOMAIN r : e = r[j], e.text \in Events
        PROVE  /\ e.of \in Socket /\ IsAllocated(flags[e.of])
               /\ channel[e.of] = e.ch
               /\ e.text \in Terminal =>
                    PoolOf(e.of) # "CIP" /\ ~Linked(e.of)'
    BY <1>7, <1>8, <2>2
  <2>3. ASSUME NEW i \in DOMAIN rx' PROVE Good(rx[i])'
    <3>1. PICK e : e = rx'[i]
      OBVIOUS
    <3>2. PICK o : o = e.of
      OBVIOUS
    <3>3. e.text \in Events =>
            /\ o \in Socket /\ IsAllocated(flags[o]) /\ channel[o] = e.ch
            /\ e.text \in Terminal => PoolOf(o)' # "CIP" /\ ~Linked(o)'
      BY <1>5, <1>9, <2>1, <2>2, <3>1, <3>2
    <3> QED
      BY <1>1, <3>1, <3>2, <3>3 DEF Good, PoolOf, IsSecure, Linked
  <2> QED
    BY <2>3 DEF Said
<1>14. Ordered(rx)'
  <2>1. ASSUME NEW i \in DOMAIN rx', NEW j \in DOMAIN rx', i < j,
               rx'[i].text \in Terminal, rx'[j].text \in Events
        PROVE  rx'[j].of # rx'[i].of
    <3>0. Terminal \subseteq Events
      BY DEF Terminal, Events
    <3>1. CASE i \in DOMAIN rx /\ j \in DOMAIN rx
      BY <1>9, <2>1, <3>1 DEF UseInv, Ordered
    <3>2. CASE i \in DOMAIN rx /\ j \notin DOMAIN rx
      <4>1. Linked(rx'[j].of)
        BY <1>7, <1>9, <2>1, <3>2
      <4>2. ~Linked(rx'[i].of)
        BY <1>9, <2>1, <3>0, <3>2 DEF UseInv, Said, Good
      <4> QED
        BY <4>1, <4>2
    <3>3. CASE i \notin DOMAIN rx /\ j \notin DOMAIN rx
      <4>1. i \in Nat /\ j \in Nat /\ Len(rx) \in Nat
        BY <1>2, LinesAdded
      <4>2. i - Len(rx) < j - Len(rx)
        BY <2>1, <4>1
      <4> QED
        BY <1>2, <1>9, <2>1, <3>3, <4>2 DEF Reports, Ordered
    <3>4. CASE i \notin DOMAIN rx /\ j \in DOMAIN rx
      BY <1>2, <2>1, <3>4, LinesAdded
    <3> QED
      BY <3>1, <3>2, <3>3, <3>4
  <2> QED
    BY <2>1 DEF Ordered
<1>15. Held'
  <2>1. \A s : Kept(s)' <=> Kept(s)
    BY <1>1 DEF Kept
  <2> QED
    BY <1>10, <2>1 DEF UseInv, Held
<1>16. Fresh'
  <2>1. CASE Refusing' => Refusing
    BY <1>1, <1>2, <1>10, <2>1, FreshStill DEF Replies, NoCommand, UseInv
  <2>2. CASE Refusing' /\ ~Refusing
    <3>1. \E i \in DOMAIN r : r[i].text = "ERROR"
      BY <1>1, <1>9, <2>2 DEF Refusing
    <3>2. command.name # "None" /\ command' = NoCommand
      BY <1>2, <3>1 DEF Replies, Unanswered, Answers
    <3>3. ~failed => pc = Step(command.name) /\ cur = command.of
      BY <3>2 DEF Talk
    <3>4. Step(command.name) = "ConnectImpl" => command.name = "Open"
      BY DEF Step
    <3>5. Step(command.name) = "ConnectSecurity" => command.name = "CIPSSL"
      BY DEF Step
    <3>6. ~failed /\ pc \in {"ConnectImpl", "ConnectSecurity"} => ~InUse(cur)
      BY <3>3, <3>4 DEF UseInv, Fresh
    <3>7. cur' = cur /\ ~InUse(cur) => ~InUse(cur)'
      BY <1>10, NextUse
    <3> QED
      BY <1>1, <3>2, <3>6, <3>7 DEF Fresh, NoCommand
  <2> QED
    BY <2>1, <2>2
<1> QED
  BY <1>11, <1>12, <1>13, <1>14, <1>15, <1>16 DEF UseInv

\* A connection the modem begins.
LEMMA UseOpen ==
  ASSUME Typed, FlagInv, FrameInv, Asked, Talk, UseInv, DeviceTakesOpen
  PROVE  UseInv'
<1>1. /\ model' = model /\ listed' = listed /\ flags' = flags
      /\ channel' = channel /\ phase' = phase /\ pc' = pc /\ cur' = cur
      /\ result' = result /\ failed' = failed
  BY DeviceOnly DEF Device
<1>2. Link' = Link
  BY DEF Link, Capacity
<1> DEFINE c == [at |-> "opening", of |-> command.of, taken |-> 0,
                 unread |-> FALSE]
<1>3. /\ command.name = "Open" /\ command' = NoCommand
      /\ link[At].at = "idle" /\ link' = [link EXCEPT ![At] = c]
      /\ rx' = rx \o <<Result("OK")>>
      /\ c.at = "opening" /\ c.of = command.of /\ c.unread = FALSE
  BY DEF DeviceTakesOpen, Busy, Answer, Done
<1>4. /\ At \in Link /\ command.of \in Socket /\ IsAllocated(flags[command.of])
      /\ LinkOf(command.of) = At /\ command.of \in listed
      /\ Kept(command.of) /\ ~InUse(command.of)
  BY <1>3 DEF Asked, At, FlagInv, Kept, UseInv, Fresh
<1> HIDE DEF c
<1>5. \A l \in Link : link'[l] = IF l = At THEN c ELSE link[l]
  BY <1>3, <1>4 DEF Typed
<1>6. \A s : LinkOf(s)' = LinkOf(s) /\ PoolOf(s)' = PoolOf(s)
  BY <1>1 DEF LinkOf, PoolOf, IsSecure
<1>7. ConnectionOwned'
  <2>1. ASSUME NEW l \in Link, link'[l].at # "idle"
        PROVE  \E o \in listed : /\ link'[l].of = o /\ LinkOf(o)' = l
                                 /\ IsAllocated(flags[o])
    <3>1. CASE l = At
      BY <1>3, <1>4, <1>5, <1>6, <3>1
    <3>2. CASE l # At
      BY <1>5, <1>6, <2>1, <3>2 DEF UseInv, ConnectionOwned
    <3> QED
      BY <3>1, <3>2
  <2> QED
    BY <1>1, <1>2, <2>1 DEF ConnectionOwned, LinkOf, PoolOf, IsSecure
<1>8. Unread'
  BY <1>2, <1>3, <1>5 DEF UseInv, Unread
<1>9. \A s : Linked(s)' => Linked(s) \/ s = command.of
  BY <1>2, <1>3, <1>5 DEF Linked
<1> DEFINE y == Result("OK")
<1>10. /\ y \in LineType /\ y.text = "OK" /\ "OK" \notin Events
       /\ "OK" # "ERROR" /\ "OK" \notin Terminal
  BY ResultTypes DEF Events, Terminal
<1>11. rx' = rx \o <<y>> /\ rx \in Seq(LineType)
  BY <1>3 DEF Typed
<1> HIDE DEF y
<1>12. \A i \in DOMAIN rx' : (i \in DOMAIN rx /\ rx'[i] = rx[i]) \/ rx'[i] = y
  <2>1. /\ <<y>> \in Seq(LineType) /\ DOMAIN <<y>> = {1} /\ <<y>>[1] = y
    BY <1>10, FewLines
  <2>2. \A i \in DOMAIN rx' : \/ i \in DOMAIN rx /\ rx'[i] = rx[i]
                              \/ /\ i - Len(rx) \in DOMAIN <<y>>
                                 /\ rx'[i] = <<y>>[i - Len(rx)]
    BY <1>11, <2>1, LinesAdded
  <2> QED
    BY <2>1, <2>2
<1>13. \A i \in DOMAIN rx' : rx'[i].text \in Events \/ rx'[i].text = "ERROR" =>
         i \in DOMAIN rx /\ rx'[i] = rx[i]
  BY <1>10, <1>12
<1>14. \A s : About(rx, s)' => About(rx, s)
  BY <1>13 DEF About
<1>15. Said'
  <2>1. ASSUME NEW i \in DOMAIN rx' PROVE Good(rx[i])'
    <3>1. PICK e : e = rx'[i]
      OBVIOUS
    <3>2. PICK o : o = e.of
      OBVIOUS
    <3>3. e.text \in Events =>
            /\ o \in Socket /\ IsAllocated(flags[o]) /\ channel[o] = e.ch
            /\ e.text \in Terminal => PoolOf(o)' # "CIP" /\ ~Linked(o)'
      <4>1. ASSUME e.text \in Events
            PROVE  /\ o \in Socket /\ IsAllocated(flags[o]) /\ channel[o] = e.ch
                   /\ e.text \in Terminal => PoolOf(o) # "CIP" /\ ~Linked(o)
                   /\ InUse(o)
        BY <1>13, <2>1, <3>1, <3>2, <4>1 DEF UseInv, Said, Good, InUse, About
      <4> QED
        BY <1>4, <1>6, <1>9, <4>1
    <3> QED
      BY <1>1, <3>1, <3>2, <3>3 DEF Good, PoolOf, IsSecure, Linked
  <2> QED
    BY <2>1 DEF Said
<1>16. Ordered(rx)'
  <2>1. Terminal \subseteq Events
    BY DEF Terminal, Events
  <2> QED
    BY <1>13, <2>1 DEF UseInv, Ordered
<1>17. Held'
  <2>1. \A s : Kept(s)' <=> Kept(s)
    BY <1>1 DEF Kept
  <2>2. \A s : InUse(s)' => InUse(s) \/ s = command.of
    BY <1>9, <1>14 DEF InUse
  <2> QED
    BY <1>4, <2>1, <2>2 DEF UseInv, Held
<1>18. Fresh'
  <2>1. ~failed => /\ pc = "ConnectImpl" /\ result = "Pending"
                   /\ Unanswered(rx)
    BY <1>3 DEF Talk, Step
  <2>2. ~failed => ~Refusing'
    BY <1>1, <1>13, <2>1 DEF Refusing, Unanswered, Answers
  <2> QED
    BY <1>1, <1>3, <2>1, <2>2 DEF Fresh, NoCommand
<1> QED
  BY <1>7, <1>8, <1>15, <1>16, <1>17, <1>18 DEF UseInv

\* Every step keeps the sockets in use.
LEMMA UseStep ==
  ASSUME Typed, FlagInv, FrameInv, Asked, Talk, UseInv, [Next]_vars
  PROVE  UseInv'
<1>1. CASE UNCHANGED vars
  <2>1. /\ model' = model /\ listed' = listed /\ flags' = flags
        /\ channel' = channel /\ phase' = phase /\ pc' = pc /\ cur' = cur
        /\ result' = result /\ failed' = failed /\ link' = link /\ rx' = rx
        /\ command' = command
    BY <1>1
    DEF vars, driverVars, deviceVars, taskVars, atVars, socketVars
  <2>2. CalmStep
    BY <2>1, CalmSame
  <2>3. \A o \in Socket : Kept(o) => Kept(o)'
    BY <2>1, <2>2, CalmKept
  <2>4. \A o \in Socket : InUse(o) => Stays(o)
    BY <2>2, CalmKind, KindStays
  <2>5. ASSUME \A o : InUse(o)' => InUse(o) PROVE Fresh'
    BY <2>1, <2>5, FreshStill DEF UseInv, Refusing
  <2> QED
    BY <2>1, <2>3, <2>4, <2>5, UseStill
<1>2. CASE Device
  <2>1. Unread
    BY DEF UseInv
  <2> QED
    BY <1>2, <2>1, DeviceStep, UseDevice, UseOpen
<1> QED
  BY <1>1, <1>2, UseApp, UseTask, UseRx DEF Next

-----------------------------------------------------------------------------
(* The invariant *)

\* The invariant holds at first.
LEMMA InitInv == Init => Inv
<1> SUFFICES ASSUME Init PROVE Inv
  OBVIOUS
<1>1. NoCommand \in CommandType /\ NoConnection \in LinkType
  BY DEF NoCommand, CommandType, Name, Pool, NoConnection, LinkType
<1>2. Typed
  <2>1. TypeOK
    BY DEF Init, TypeOK, Channel
  <2>2. rx \in Seq(LineType)
    BY DEF Init
  <2>3. link \in [Link -> LinkType]
    BY <1>1 DEF Init
  <2>4. command \in CommandType /\ command = NoCommand
    BY <1>1 DEF Init
  <2> QED
    BY <2>1, <2>2, <2>3, <2>4 DEF Typed
<1>3. FlagInv
  BY OtherUpdates DEF Init, FlagInv, ChannelsUnique
<1>4. FrameInv
  BY DEF Init, FrameInv
<1>5. Asked /\ Talk
  BY DEF Init, Asked, Talk, NoCommand, Unanswered, Fits
<1>6. \A l \in Link : link[l].at = "idle" /\ ~link[l].unread
  BY DEF Init, NoConnection
<1>7. ConnectionOwned /\ Unread
  BY <1>6 DEF ConnectionOwned, Unread
<1>8. Said /\ Ordered(rx)
  BY DEF Init, Said, Ordered
<1>9. Held
  BY <1>6 DEF Init, Held, InUse, Linked, About
<1>10. Fresh
  BY DEF Init, Fresh, NoCommand
<1> QED
  BY <1>2, <1>3, <1>4, <1>5, <1>7, <1>8, <1>9, <1>10 DEF Inv, UseInv

\* Every step keeps the types.
LEMMA TypeStep ==
  ASSUME Typed, FlagInv, FrameInv, Asked, UseInv, [Next]_vars PROVE Typed'
<1>1. CASE UNCHANGED vars
  BY <1>1
  DEF vars, driverVars, deviceVars, taskVars, atVars, socketVars, sendVars,
      Typed, TypeOK, LinkType, Link, Capacity
<1>2. CASE Device
  BY <1>2, DeviceTypes DEF UseInv
<1> QED
  BY <1>1, <1>2, AppTypes, TaskTypes, RxTypes DEF Next

\* No step of the application, the task, the receiving task or the modem leaves
\* the invariant, ...
LEMMA InvStep == Inv /\ [Next]_vars => Inv'
BY TypeStep, FlagStep, FrameStep, TalkStep, UseStep DEF Inv, UseInv

\* ... so it is one.
THEOREM Invariance == Spec => []Inv
BY InitInv, InvStep, PTL DEF Spec

\* The type of every variable.
THEOREM TypeCorrect == Spec => []TypeOK
<1>1. Inv => TypeOK
  BY DEF Inv, Typed
<1> QED
  BY <1>1, Invariance, PTL

\* A channel has one owner (TryAllocateImpl, CanDelete), for any number of
\* sockets and channels.
THEOREM ChannelsAreUnique == Spec => []ChannelsUnique
<1>1. Inv => ChannelsUnique
  BY DEF Inv, FlagInv
<1> QED
  BY <1>1, Invariance, PTL

\* A connection is that of a socket which is still there and has its channel.
THEOREM ConnectionsAreOwned == Spec => []ConnectionOwned
<1>1. Inv => ConnectionOwned
  BY DEF Inv, UseInv
<1> QED
  BY <1>1, Invariance, PTL

\* However late a line is read, it is about a socket that is still there, and
\* FindSocket finds that one.
THEOREM LinesFindOwner == Spec => []EventsFindOwner
<1>1. Inv => EventsFindOwner
  <2>1. ASSUME Inv, NEW i \in DOMAIN rx, rx[i].text \in Events
        PROVE  /\ rx[i].of \in listed
               /\ IsSecure(rx[i].of) => FindSocket(rx[i].ch) = rx[i].of
    <3>1. /\ rx[i].of \in Socket /\ IsAllocated(flags[rx[i].of])
          /\ channel[rx[i].of] = rx[i].ch
      BY <2>1 DEF Inv, UseInv, Said, Good
    <3> QED
      BY <2>1, <3>1, SecureFound DEF Inv, FlagInv
  <2> QED
    BY <2>1 DEF EventsFindOwner
<1> QED
  BY <1>1, Invariance, PTL

=============================================================================
