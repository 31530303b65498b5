-------------------------- MODULE SimComProperties --------------------------
(***************************************************************************)
(* What has to hold of channels, of the lines about them and of the bytes  *)
(* sent on them.                                                           *)
(***************************************************************************)
EXTENDS SimCom

\* The type of every variable.
TypeOK ==
  /\ model \in Model
  /\ listed \subseteq Socket
  /\ flags \in [Socket -> SUBSET SocketFlag]
  /\ channel \in [Socket -> Channel] /\ outgoing \in [Socket -> Nat]
  /\ error \in [Socket -> BOOLEAN]
  /\ written \in [Socket -> Nat] /\ position \in [Socket -> Nat]
  /\ phase \in {"Close", "Serve"}
  /\ pc \in {"Idle", "CloseImpl", "ConnectSecurity", "ConnectImpl", "SendAck",
             "SendPacketImpl", "ReceiveImpl"}
  /\ cur \in Socket \cup {NULL}
  /\ need \subseteq {1, 2} /\ failed \in BOOLEAN
  /\ result \in {"Pending", "OK", "Error", "Timeout", "Failure"}

\* A channel belongs to one socket of its kind, closed sockets that are still
\* held by the application included.
ChannelsUnique ==
  \A s, o \in listed :
    /\ IsAllocated(flags[s]) /\ IsAllocated(flags[o])
    /\ PoolOf(s) = PoolOf(o) /\ channel[s] = channel[o]
    => s = o

Events == {"Opened", "OpenFailed", "Closed", "CLOSE OK", "EndOfReceive",
           "ReceiveFailed", "Data", "RecvEvent", "Len", "DATA ACCEPT",
           "SEND FAIL", "+CCHSEND", "+CIPACK"}

\* A line about a connection never outlives the socket it was opened for, and if
\* that is a secure one, finds that very socket, however late it is read: never
\* another socket that has got the channel since, and never none
\* (SimComModem.cpp:1105 does not test for it).
EventsFindOwner ==
  \A i \in DOMAIN rx :
    rx[i].text \in Events =>
      /\ rx[i].of \in listed
      /\ IsSecure(rx[i].of) => FindSocket(rx[i].ch) = rx[i].of

\* A socket takes a channel only when the modem has no connection on it that
\* is someone else's.
ConnectionOwned ==
  \A l \in Link : link[l].at # "idle" =>
    /\ link[l].of \in listed /\ LinkOf(link[l].of) = l
    /\ IsAllocated(flags[link[l].of])

\* The transmit pipe's reader is where the modem's count is, so that no byte is
\* lost or sent twice: between sends, unless the last one has failed, and when
\* a packet is given to the modem, whatever became of the one before.
InStep(s) ==
  IsAllocated(flags[s]) /\ link[LinkOf(s)].of = s
    => position[s] = link[LinkOf(s)].taken

StreamIntact ==
  /\ \A s \in listed : failed \/ error[s] \/ cur = s \/ InStep(s)
  /\ command.name = "Send" => InStep(command.of)

\* The reader never goes back, whatever a +CIPACK says after failures (the
\* difference at SimComModem.cpp:142 is signed), and never past what is written.
ReaderAdvances ==
  [][\A s \in listed \cap listed' :
       position[s] <= position'[s] /\ position'[s] <= written'[s]]_vars

\* What the modem accepts is what the driver has marked as outgoing
\* (the assertion at SimComModem.cpp:234).
AcceptedIsOutgoing ==
  Sends /\ rx # <<>> /\ Head(rx).text = "DATA ACCEPT" =>
    Found # NULL /\ Head(rx).value = outgoing[Found]

\* What the application sees of its sockets: nothing the modem's lines say, in
\* whatever order they come, answers Connect() twice, opens a socket that has
\* been closed, or makes one go that is still connected.  The bookkeeping
\* (module Modem) promises the same of any modem.
Life ==
  INSTANCE SocketLife WITH
    stage <- [s \in Socket |->
                IF s \notin listed THEN "free"
                ELSE IF IsClosed(flags[s]) THEN "closed"
                ELSE IF IsConnected(flags[s]) THEN "connected"
                ELSE "pending"],
    held  <- {s \in Socket : "AppReference" \in flags[s]}

SocketLives == Life!Spec

\* "Socket has been connected" (Socket.h:38): once a SIM800 has opened a
\* connection and "CONNECT OK" is read, the socket is marked.
OpenIsConnected ==
  \A l \in Link : l[1] = "IP" /\ IsOpen(l) /\ rx = <<>> /\ ~failed =>
    "ModemConnected" \in flags[link[l].of]

=============================================================================
