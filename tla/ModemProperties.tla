-------------------------- MODULE ModemProperties --------------------------
(***************************************************************************)
(* What the modem task and the receive task of gsm::Modem guarantee, the   *)
(* scheduling it depends on, and what the source says of itself and the    *)
(* code does not keep.                                                     *)
(***************************************************************************)
EXTENDS Modem

-----------------------------------------------------------------------------
(* Scheduling.  The kernel runs every task that is ready, so the modem task *)
(* proceeds from every loop point and every await that is over, and a line  *)
(* that waits in the receive pipe is read sooner or later (the modem task   *)
(* suspends again and again, hence strong fairness).  The modem answers the *)
(* requests it has taken.  Nothing is assumed of the application, of the    *)
(* peers or of the idle timeout.                                            *)

Answer(s) ==
  \/ OnConnected(s) \/ OpenFailsUnheard(s)
  \/ link[s] \in {"opening", "closing"} /\ OnDisconnected(s)

Fairness ==
  /\ WF_vars(Task)
  /\ SF_vars(MoveData) /\ WF_vars(RxStops)
  /\ SF_vars(\E accepted \in BOOLEAN : OnSendResponse(accepted))
  /\ SF_vars(OnMessageReference)
  /\ WF_vars(TakeOpenRequest \/ TakeCloseRequest)
  /\ \A s \in Socket : SF_vars(Answer(s))

FairSpec == Spec /\ Fairness

-----------------------------------------------------------------------------
(* Properties *)

\* The type of every variable.
TypeOK ==
  /\ signals \subseteq Signal /\ process \in BOOLEAN
  /\ sockets \in Seq(Socket) /\ messages \in Seq(Message)
  /\ flags \in [Socket -> SUBSET Sock!SocketFlag]
  /\ out \in [Socket -> Nat]
  /\ mflags \in [Message -> SUBSET Msg!MessageFlag]
  /\ mr \in [Message -> BOOLEAN]
  /\ atResult \in Result
  /\ modemStatus \in
       {"Ok", "PowerOnFailure", "AutoBaudFailure", "CommandError"}
  /\ pc \in Await \cup Loop
  /\ cur \in Socket \cup Message \cup {NULL} /\ nxt \in Socket \cup {NULL}
  /\ rxSock \in Socket \cup {NULL} /\ rxLen \in Nat
  /\ link \in [Socket -> {"idle", "opening", "open", "closing"}]
  /\ inbox \in [Socket -> Nat]

\* The task's frame points into the lists: the socket or message of an awaited
\* call, and the f.next it continues with, are not destroyed under it.
CursorLive ==
  /\ pc \in {"CloseImpl", "ConnectImpl", "SendPacketImpl", "ReceivePacketImpl",
            "CheckIncomingImpl"} => cur \in Listed(sockets)
  /\ pc = "CloseImpl" => nxt \in Listed(sockets) \cup {NULL}
  /\ pc = "SendMessageImpl" => cur \in Listed(messages)

\* The receive task never moves data into a destroyed socket: the sweep that
\* destroys sockets does not look at rxLen.
RxSockLive == rxLen > 0 /\ rxSock # NULL => rxSock \in Listed(sockets)

\* A socket is not destroyed while the modem has a connection for it, so that
\* a late event never meets the next socket on the channel.
NoOrphanLink == \A s \in Socket : link[s] # "idle" => s \in Listed(sockets)

\* Power-on starts with no receive task, no transfer and no connection left
\* over (ASSERT before RxTask is run).
StartsClean ==
  pc \in {"PowerOnImpl", "RetryDelay", "PowerOnImplAgain"} =>
    /\ "RxTaskActive" \notin signals /\ rxLen = 0 /\ rxSock = NULL
    /\ \A s \in Socket : link[s] = "idle"

\* A send is in flight only inside the call that waits for its confirmation.
SendingIsAwaited ==
  /\ \A s \in Socket :
       Sock!IsSending(flags[s]) => pc = "SendPacketImpl" /\ cur = s
  /\ \A m \in Message :
       Msg!IsSending(mflags[m]) => pc = "SendMessageImpl" /\ cur = m

\* What keeps the task busy, a socket that waits for a channel included.
SocketWork(s) ==
  \/ Sock!IsNew(flags[s]) /\ HasChannel
  \/ Sock!NeedsClose(flags[s]) \/ Sock!CanDelete(flags[s])
  \/ Sock!NeedsConnect(flags[s]) \/ Sock!DataToSend(flags[s], out[s] > 0)
  \/ Sock!DataToReceive(flags[s])

MessageWork(m) == Msg!ShouldSend(mflags[m]) \/ Msg!CanDelete(mflags[m])

\* The task never sleeps on "process" while there is something for it to do,
\* unless a transfer is under way, whose end wakes it.
NoLostWakeup ==
  pc = "AwaitProcess" /\ ~process /\ rxLen = 0 =>
    /\ \A s \in Listed(sockets) : ~SocketWork(s)
    /\ \A m \in Listed(messages) : ~MessageWork(m)

\* The idle countdown only runs while both lists are empty.
IdleIsEmpty ==
  pc = "AwaitActivity" /\ "RequireActive" \notin signals =>
    sockets = <<>> /\ messages = <<>>

\* With no task there is no socket that waits to be connected, and an unsent
\* message only if the modem could not be powered on.
NothingStranded ==
  pc = "Stopped" =>
    /\ \A s \in Listed(sockets) : ~Sock!IsNew(flags[s])
    /\ (\E m \in Listed(messages) : Msg!ShouldSend(mflags[m])) =>
         modemStatus = "PowerOnFailure"

\* The life of every socket is the one SocketLife promises.
Life == INSTANCE SocketLife WITH
  stage <- [s \in Socket |->
              IF s \notin Listed(sockets) THEN "free"
              ELSE IF Sock!IsClosed(flags[s]) THEN "closed"
              ELSE IF Sock!IsConnected(flags[s]) THEN "connected"
              ELSE "pending"],
  held <- {s \in Socket : "AppReference" \in flags[s]}

SocketLives == Life!Spec

(* What is promised in the long run is only promised once data has stopped  *)
(* coming in: while a transfer is under way the loops of a pass end early,   *)
(* and a peer whose next packet is there whenever a pass begins keeps every  *)
(* close, open and message waiting.                                          *)

DataCeases == <>[](rxLen = 0)

\* The driver counts a reference for a connection the modem does not have: it
\* has not heard of the end of the connection (a socket without TLS, a failed
\* open of a SIM800), or bound the socket after it.
Forgotten(s) == "ModemReference" \in flags[s] /\ link[s] = "idle"

\* Every channel belongs to another socket, closed ones and ones that are never
\* given back included.
Waiting(s) == "ModemAllocated" \notin flags[s] /\ NumAllocated >= Channels

\* A running task gets rid of a socket the application has released, unless
\* data keeps coming in or its connection is forgotten for good: the modem
\* then refuses the close request, if there is one, and the OK of a later
\* command hides the failure.
ReleasedGoes ==
  \A s \in Socket :
    \/ ~DataCeases
    \/ <>[]Forgotten(s)
    \/ s \in Listed(sockets) /\ "AppReference" \notin flags[s]
         ~> s \notin Listed(sockets) \/ pc = "Stopped"

\* Connect() on a new TLS socket is answered unless the application closes it,
\* data keeps coming in, its failed open is never heard of, or all channels
\* stay taken: a channel that is given back goes to the sockets that wait for
\* one in their turn.
ConnectAnswered ==
  \A s \in Socket :
    \/ ~DataCeases
    \/ <>[]Forgotten(s)
    \/ <>[]Waiting(s)
    \/ Sock!IsNew(flags[s]) /\ "AppSecure" \in flags[s]
         ~> flags[s] \cap {"ModemConnected", "AppClose"} # {}

\* A message the application has handed over is processed, unless data keeps
\* coming in.
MessageProcessed ==
  \A m \in Message :
    \/ ~DataCeases
    \/ Msg!ShouldSend(mflags[m]) ~> ~Msg!ShouldSend(mflags[m])

-----------------------------------------------------------------------------
(* What the source says of itself and the code does not keep               *)

\* Turning the modem off: "further processing requests will force the modem to
\* restart", here the request for a new socket.
RequestsRestart ==
  \A s \in Socket :
    pc = "DisconnectNetworkImpl" /\ atResult = "OK" /\ Sock!IsNew(flags[s])
      ~> pc = "PowerOnImpl" \/ "AppClose" \in flags[s]

\* A socket that is neither new nor being closed when the task starts "should
\* have been closed already" (Modem.cpp:183), by the power-off before.
LeftoversClosed ==
  pc = "Scheduled" =>
    \A s \in Listed(sockets) :
      "AppClose" \in flags[s] \/ Sock!IsNew(flags[s]) \/ Sock!IsClosed(flags[s])

=============================================================================
