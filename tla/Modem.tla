------------------------------- MODULE Modem -------------------------------
(***************************************************************************)
(* gsm::Modem (Modem.h, Modem.cpp): the modem task that powers the modem   *)
(* up, serves the list of sockets and messages and powers it down again,   *)
(* the receive task that applies the modem's unsolicited events, and the   *)
(* application calls that change the lists underneath them.                *)
(*                                                                         *)
(* The driver's virtual functions (XxxImpl) appear by their contract: an   *)
(* await during which events arrive, a result, and the socket operations   *)
(* the SimCom driver performs on that result.  What the driver says to the *)
(* modem during the await is not part of this module.                      *)
(*                                                                         *)
(* Tasks are cooperative.  "pc" names the point the modem task has reached:*)
(* either an await, where everybody else may run, or a point inside a loop *)
(* where the task holds the CPU (HoldsCpu) and nobody else moves.          *)
(*                                                                         *)
(*   signals, process        the members of those names                    *)
(*   sockets, messages       the SelfLinkedLists, first element first      *)
(*   flags, mflags, mr       flag words; mr says a reference was received  *)
(*   out                     packets waiting in a socket's transmit pipe   *)
(*   atResult, modemStatus   result of the last command, sticky status     *)
(*   pc, cur, nxt            the task and its frame (f.s / f.m, f.next)    *)
(*   rxSock, rxLen           incoming data the receive task is moving      *)
(*   link, inbox             the modem's end of a socket and the packets   *)
(*                           of its peer that wait there (environment)     *)
(***************************************************************************)
EXTENDS Naturals, FiniteSets, Sequences, SequencesExt

CONSTANTS
  Socket,     \* socket objects the allocator can hand out
  Message,    \* message objects
  NULL,       \* the null pointer
  Security,   \* values of CreateSocket's tls argument, a subset of BOOLEAN
  Channels,   \* sockets the modem can serve at a time
  MaxOut,     \* bound: packets in a transmit pipe
  MaxIn,      \* bound: packets that wait at the modem on one connection
  MaxRx,      \* bound: pieces an incoming packet is moved in
  Faults      \* failures the environment may produce, a subset of Fault

Fault == {"PowerOn", "Start", "Error", "Timeout"}

ASSUME ModemAssumption ==
  /\ NULL \notin Socket \cup Message
  /\ Socket \cap Message = {}
  /\ Security \subseteq BOOLEAN
  /\ Channels \in Nat /\ MaxOut \in Nat /\ MaxIn \in Nat
  /\ MaxRx \in Nat \ {0}
  /\ Faults \subseteq Fault

VARIABLES
  signals, process, sockets, flags, out, messages, mflags, mr,
  atResult, modemStatus, pc, cur, nxt, rxSock, rxLen, link, inbox

Sock == INSTANCE SocketFlags
Msg  == INSTANCE MessageFlags

socketVars  == <<sockets, flags, out>>
messageVars == <<messages, mflags, mr>>
atVars      == <<atResult, modemStatus>>
rxVars      == <<rxSock, rxLen>>
deviceVars  == <<link, inbox>>
frameVars   == <<cur, nxt>>
listVars    == <<socketVars, messageVars>>
envVars     == <<rxVars, deviceVars>>
vars == <<signals, process, socketVars, messageVars, atVars, pc, frameVars,
          rxVars, deviceVars>>

Signal ==
  {"TaskActive", "RxTaskActive", "NetworkActive", "NetworkDisconnecting",
   "RequireActive"}

\* Awaits of the modem task; at "Stopped" there is no task, at "Scheduled"
\* kernel::Task::Run has queued it.
Await ==
  {"Stopped", "Scheduled", "PowerOnImpl", "RetryDelay", "PowerOnImplAgain",
   "StartImpl", "UnlockSimImpl", "ConnectNetworkImpl", "AwaitProcess",
   "CloseImpl", "ConnectImpl", "SendPacketImpl", "ReceivePacketImpl",
   "CheckIncomingImpl", "SendMessageImpl", "AwaitActivity", "Yield",
   "DisconnectNetworkImpl", "PowerOffImpl", "AwaitRxStop"}

\* Points inside the task's loops.
Loop ==
  {"DestroyOld", "CloseSockets", "RemoveSockets", "ProcessSockets", "Send",
   "Receive", "Check", "SendMessages", "RemoveMessages", "EndOfPass",
   "FinishSockets"}

\* Awaits that only wait for commands: once a command has timed out, ATLock
\* refuses every further one and these calls return without suspending.
CommandOnly ==
  {"StartImpl", "CloseImpl", "ConnectImpl", "SendPacketImpl",
   "ReceivePacketImpl", "CheckIncomingImpl", "SendMessageImpl",
   "DisconnectNetworkImpl"}

CommandsRefused == modemStatus = "CommandError"

HoldsCpu == pc \in Loop \/ (pc \in CommandOnly /\ CommandsRefused)

-----------------------------------------------------------------------------
(* The lists *)

Listed(q) == ToSet(q)

First(q) == IF q = <<>> THEN NULL ELSE q[1]

\* x->next
After(q, x) ==
  LET i == CHOOSE j \in DOMAIN q : q[j] = x
  IN  IF i < Len(q) THEN q[i + 1] ELSE NULL

DeletableSocket(i) == i \in DOMAIN sockets /\ Sock!CanDelete(flags[sockets[i]])

DeletableMessage(i) ==
  i \in DOMAIN messages /\ Msg!CanDelete(mflags[messages[i]])

\* DestroySocket of the i-th element.
DestroySocket(i) ==
  /\ sockets' = RemoveAt(sockets, i)
  /\ flags' = [flags EXCEPT ![sockets[i]] = {}]
  /\ out' = [out EXCEPT ![sockets[i]] = 0]

DestroyMessage(i) ==
  /\ messages' = RemoveAt(messages, i)
  /\ mflags' = [mflags EXCEPT ![messages[i]] = {}]
  /\ mr' = [mr EXCEPT ![messages[i]] = FALSE]

\* Finished() on every listed socket of S.
FinishAll(S) ==
  flags' = [s \in Socket |-> IF s \in Listed(sockets) \cap S
                             THEN Sock!Finished(flags[s]) ELSE flags[s]]

Goto(p) == pc' = p

-----------------------------------------------------------------------------
(* EnsureRunning, with "sig" the signals the caller leaves.  The frame of  *)
(* a new task is zeroed.                                                   *)

EnsureRunning(sig) ==
  /\ process' = TRUE
  /\ signals' = sig \cup {"TaskActive"}
  /\ pc' = IF "TaskActive" \in sig THEN pc ELSE "Scheduled"

\* The task returns.
StopTask ==
  /\ signals' = signals \ {"TaskActive"}
  /\ pc' = "Stopped"
  /\ cur' = NULL
  /\ nxt' = NULL

-----------------------------------------------------------------------------
(* Application calls *)

CreateSocket(s, tls) ==
  /\ ~HoldsCpu
  /\ s \notin Listed(sockets)
  /\ flags' = [flags EXCEPT ![s] = Sock!NewSocket(tls)]
  /\ sockets' = Append(sockets, s)
  /\ EnsureRunning(signals \cup {"RequireActive"})
  /\ UNCHANGED <<out, messageVars, atVars, frameVars, envVars>>

\* Slip: a socket the modem does not reference is destroyed on the spot.
ReleaseAtOnce(s) ==
  /\ ~HoldsCpu
  /\ s \in Listed(sockets) /\ "AppReference" \in flags[s]
  /\ IF Sock!CanDelete(Sock!Released(flags[s]))
     THEN \E i \in DOMAIN sockets : sockets[i] = s /\ DestroySocket(i)
     ELSE /\ flags' = [flags EXCEPT ![s] = Sock!Released(@)]
          /\ UNCHANGED <<sockets, out>>
  /\ EnsureRunning(signals)
  /\ UNCHANGED <<messageVars, atVars, frameVars, envVars>>

ReleaseSocket(s) ==
  /\ ~HoldsCpu
  /\ s \in Listed(sockets) /\ "AppReference" \in flags[s]
  /\ flags' = [flags EXCEPT ![s] = Sock!Released(@)]
  /\ EnsureRunning(signals)
  /\ UNCHANGED <<sockets, out, messageVars, atVars, frameVars, envVars>>

\* Socket::Disconnect up to its await.
Disconnect(s) ==
  /\ ~HoldsCpu
  /\ s \in Listed(sockets) /\ "AppReference" \in flags[s]
  /\ "AppClose" \notin flags[s]
  /\ flags' = [flags EXCEPT ![s] = Sock!CloseRequested(@)]
  /\ process' = TRUE
  /\ UNCHANGED <<signals, sockets, out, messageVars, atVars, pc, frameVars,
                 envVars>>

\* Output() is written; the pipe signals "process".  Disconnect and Finished
\* have closed the pipe.
WriteOutput(s) ==
  /\ ~HoldsCpu
  /\ s \in Listed(sockets) /\ "AppReference" \in flags[s]
  /\ flags[s] \cap {"AppClose", "ModemClosed"} = {}
  /\ out[s] < MaxOut
  /\ out' = [out EXCEPT ![s] = @ + 1]
  /\ process' = TRUE
  /\ UNCHANGED <<signals, sockets, flags, messageVars, atVars, pc, frameVars,
                 envVars>>

SendMessage(m) ==
  /\ ~HoldsCpu
  /\ m \notin Listed(messages)
  /\ mflags' = [mflags EXCEPT ![m] = Msg!NewMessage]
  /\ messages' = Append(messages, m)
  /\ EnsureRunning(signals \cup {"RequireActive"})
  /\ UNCHANGED <<mr, socketVars, atVars, frameVars, envVars>>

ReleaseMessage(m) ==
  /\ ~HoldsCpu
  /\ m \in Listed(messages) /\ "AppReference" \in mflags[m]
  /\ mflags' = [mflags EXCEPT ![m] = Msg!Released(@)]
  /\ EnsureRunning(signals)
  /\ UNCHANGED <<messages, mr, socketVars, atVars, frameVars, envVars>>

-----------------------------------------------------------------------------
(* The modem task: start *)

\* Preprocessing: sockets the application closed meanwhile are finished; the
\* last new one is remembered in f.next as a reason to power on.
Preprocess ==
  LET closing == {s \in Socket : "AppClose" \in flags[s]}
      new == {i \in DOMAIN sockets :
                sockets[i] \notin closing /\ Sock!IsNew(flags[sockets[i]])}
  IN  /\ pc = "Scheduled"
      /\ FinishAll(closing)
      /\ \/ new = {} /\ nxt' = NULL
         \/ \E i \in new : /\ \A j \in new : j <= i
                           /\ nxt' = sockets[i]
      /\ Goto("DestroyOld")
      /\ UNCHANGED <<signals, process, sockets, out, messageVars, atVars, cur,
                     envVars>>

\* One removal of the loops that sweep the socket list.
RemoveSocket ==
  /\ pc \in {"DestroyOld", "RemoveSockets"}
  /\ \E i \in DOMAIN sockets :
       /\ DeletableSocket(i)
       /\ \A j \in 1..(i - 1) : ~DeletableSocket(j)
       /\ DestroySocket(i)
  /\ UNCHANGED <<signals, process, messageVars, atVars, pc, frameVars,
                 envVars>>

SocketsSwept == ~\E i \in DOMAIN sockets : DeletableSocket(i)

\* The same for messages.
RemoveMessage ==
  /\ pc = "RemoveMessages" \/ (pc = "DestroyOld" /\ SocketsSwept)
  /\ \E i \in DOMAIN messages :
       /\ DeletableMessage(i)
       /\ \A j \in 1..(i - 1) : ~DeletableMessage(j)
       /\ DestroyMessage(i)
  /\ UNCHANGED <<signals, process, socketVars, atVars, pc, frameVars, envVars>>

MessagesSwept == ~\E i \in DOMAIN messages : DeletableMessage(i)

OldDestroyed == pc = "DestroyOld" /\ SocketsSwept /\ MessagesSwept

\* Slip: only sockets are a reason to start.
NoSocketToServe ==
  /\ OldDestroyed
  /\ nxt = NULL
  /\ StopTask
  /\ UNCHANGED <<process, listVars, atVars, envVars>>

NothingToDo ==
  /\ OldDestroyed
  /\ nxt = NULL /\ messages = <<>>
  /\ StopTask
  /\ UNCHANGED <<process, listVars, atVars, envVars>>

PowerOn ==
  /\ OldDestroyed
  /\ nxt # NULL \/ messages # <<>>
  /\ process' = TRUE
  /\ Goto("PowerOnImpl")
  /\ UNCHANGED <<signals, listVars, atVars, frameVars, envVars>>

PowerOnFailed ==
  /\ pc = "PowerOnImpl" /\ "PowerOn" \in Faults
  /\ modemStatus' = "PowerOnFailure"
  /\ Goto("RetryDelay")
  /\ UNCHANGED <<signals, process, listVars, atResult, frameVars, envVars>>

RetryPowerOn ==
  /\ pc = "RetryDelay"
  /\ Goto("PowerOnImplAgain")
  /\ UNCHANGED <<signals, process, listVars, atVars, frameVars, envVars>>

\* The second failure finishes the sockets and ends the task.
PowerOnFailedAgain ==
  /\ pc = "PowerOnImplAgain" /\ "PowerOn" \in Faults
  /\ FinishAll(IF rxLen = 0 THEN Socket ELSE {})
  /\ StopTask
  /\ UNCHANGED <<process, sockets, out, messageVars, atVars, envVars>>

\* The receive task is started.
PoweredOn ==
  /\ pc \in {"PowerOnImpl", "PowerOnImplAgain"}
  /\ signals' = signals \cup {"RxTaskActive"}
  /\ Goto("StartImpl")
  /\ UNCHANGED <<process, listVars, atVars, frameVars, envVars>>

\* After a timed-out command every autobaud attempt is refused by ATLock.
Started ==
  /\ pc = "StartImpl" /\ ~CommandsRefused
  /\ modemStatus' = "Ok"
  /\ atResult' = "OK"
  /\ Goto("UnlockSimImpl")
  /\ UNCHANGED <<signals, process, listVars, frameVars, envVars>>

\* Autobauding fails, or a later command of Initialize does.
StartFailed ==
  /\ pc = "StartImpl"
  /\ \/ CommandsRefused /\ modemStatus' = "AutoBaudFailure"
     \/ /\ ~CommandsRefused /\ "Start" \in Faults
        /\ modemStatus' \in {modemStatus, "AutoBaudFailure", "CommandError"}
  /\ atResult' = "Failure"
  /\ Goto("FinishSockets")
  /\ UNCHANGED <<signals, process, listVars, frameVars, envVars>>

SimUnlocked ==
  /\ pc = "UnlockSimImpl"
  /\ Goto("ConnectNetworkImpl")
  /\ UNCHANGED <<signals, process, listVars, atVars, frameVars, envVars>>

NetworkConnected ==
  /\ pc = "ConnectNetworkImpl"
  /\ signals' = signals \cup {"NetworkActive"}
  /\ Goto("AwaitProcess")
  /\ UNCHANGED <<process, listVars, atVars, frameVars, envVars>>

\* UnlockSimImpl or ConnectNetworkImpl fails, on a command or on a signal that
\* never comes; StopImpl returns at once.
BringUpFailed ==
  /\ pc \in {"UnlockSimImpl", "ConnectNetworkImpl"} /\ "Start" \in Faults
  /\ \/ atResult' \in {"OK", "Error"} /\ modemStatus' = modemStatus
     \/ atResult' \in {"Timeout", "Failure"} /\ modemStatus' = "CommandError"
  /\ Goto("FinishSockets")
  /\ UNCHANGED <<signals, process, listVars, frameVars, envVars>>

-----------------------------------------------------------------------------
(* The modem task: a processing pass *)

\* The last command of an awaited call ends with result r.
CommandDone(r) ==
  /\ \/ CommandsRefused /\ r = "Failure"
     \/ ~CommandsRefused /\ r = "OK"
     \/ ~CommandsRefused /\ r = "Error" /\ "Error" \in Faults
     \/ ~CommandsRefused /\ r = "Timeout" /\ "Timeout" \in Faults
  /\ atResult' = r
  /\ modemStatus' = IF r = "Timeout" THEN "CommandError" ELSE modemStatus

Result == {"OK", "Error", "Timeout", "Failure"}

\* await_acquire_zero(process, 1)
AcquireProcess ==
  /\ pc = "AwaitProcess" /\ process
  /\ process' = FALSE
  /\ cur' = First(sockets)
  /\ Goto("CloseSockets")
  /\ UNCHANGED <<signals, listVars, atVars, nxt, envVars>>

\* The loop's "f.s && !rxLen".
LoopEnds == cur = NULL \/ rxLen > 0

CloseSocket ==
  /\ pc = "CloseSockets" /\ ~LoopEnds
  /\ nxt' = After(sockets, cur)
  /\ IF Sock!NeedsClose(flags[cur])
     THEN /\ flags' = [flags EXCEPT ![cur] = @ \cup {"ModemClosing"}]
          /\ Goto("CloseImpl")
          /\ UNCHANGED cur
     ELSE /\ cur' = nxt'
          /\ UNCHANGED <<flags, pc>>
  /\ UNCHANGED <<signals, process, sockets, out, messageVars, atVars, envVars>>

\* "OK" means the modem has taken the close request; it refuses one for a
\* connection that is gone.
CloseReturns(r) ==
  /\ pc = "CloseImpl"
  /\ \/ /\ CommandDone(r)
        /\ r = "OK" =>
             link[cur] = "closing" \/ "ModemReference" \notin flags[cur]
        /\ r = "Error" => link[cur] # "closing"
     \/ /\ r = "Error" /\ link[cur] = "idle" /\ ~CommandsRefused
        /\ atResult' = r
        /\ UNCHANGED modemStatus
  /\ cur' = nxt
  /\ Goto("CloseSockets")
  /\ UNCHANGED <<signals, process, listVars, nxt, envVars>>

CloseLoopEnds ==
  /\ pc = "CloseSockets" /\ LoopEnds
  /\ Goto("RemoveSockets")
  /\ UNCHANGED <<signals, process, listVars, atVars, frameVars, envVars>>

SocketsRemoved ==
  /\ pc = "RemoveSockets" /\ SocketsSwept
  /\ cur' = First(sockets)
  /\ Goto("ProcessSockets")
  /\ UNCHANGED <<signals, process, listVars, atVars, nxt, envVars>>

\* What TryAllocateImpl finds; the choice of a channel is the driver's.
NumAllocated ==
  Cardinality({s \in Listed(sockets) : Sock!IsAllocated(flags[s])})

\* Slip: the last channel is never given out.
HasSpareChannel == NumAllocated + 1 < Channels

HasChannel == NumAllocated < Channels

ConnectSocket ==
  LET f == IF HasChannel THEN Sock!Allocate(flags[cur]) ELSE flags[cur]
  IN  /\ pc = "ProcessSockets" /\ ~LoopEnds
      /\ IF Sock!NeedsConnect(f)
         THEN /\ flags' = [flags EXCEPT ![cur] = f \cup {"ModemConnecting"}]
              /\ Goto("ConnectImpl")
         ELSE /\ flags' = [flags EXCEPT ![cur] = f]
              /\ Goto("Send")
      /\ UNCHANGED <<signals, process, sockets, out, messageVars, atVars,
                     frameVars, envVars>>

\* The modem has taken the open request, and may have answered it since.
OpenTaken == link[cur] # "idle" \/ "ModemConnecting" \notin flags[cur]

\* Bound on OK, Disconnected on a failed open.  A failed "+CIPSSL" leaves the
\* socket as it is.
ConnectReturns(r) ==
  /\ pc = "ConnectImpl"
  /\ CommandDone(r)
  /\ \/ /\ r = "OK" /\ OpenTaken
        /\ flags' = [flags EXCEPT ![cur] = Sock!Bound(@)]
     \/ /\ r # "OK" /\ (r = "Error" => ~OpenTaken)
        /\ flags' = [flags EXCEPT ![cur] = Sock!Finished(@)]
     \/ /\ r # "OK" /\ ~OpenTaken
        /\ UNCHANGED flags
  /\ Goto("Send")
  /\ UNCHANGED <<signals, process, sockets, out, messageVars, frameVars,
                 envVars>>

StartSend ==
  /\ pc = "Send"
  /\ IF Sock!DataToSend(flags[cur], out[cur] > 0)
     THEN /\ flags' = IF CommandsRefused THEN flags
                      ELSE [flags EXCEPT ![cur] = Sock!Sending(@)]
          /\ Goto("SendPacketImpl")
     ELSE /\ Goto("Receive")
          /\ UNCHANGED flags
  /\ UNCHANGED <<signals, process, sockets, out, messageVars, atVars,
                 frameVars, envVars>>

\* OK requires the send confirmation, which clears ModemSending.
SendReturns(r) ==
  /\ pc = "SendPacketImpl"
  /\ r = "OK" => ~Sock!IsSending(flags[cur])
  /\ CommandDone(r)
  /\ flags' = [flags EXCEPT ![cur] = Sock!SendingFinished(@)]
  /\ process' = TRUE
  /\ Goto("Receive")
  /\ UNCHANGED <<signals, sockets, out, messageVars, frameVars, envVars>>

StartReceive(room) ==
  /\ pc = "Receive"
  /\ IF ~Sock!DataToReceive(flags[cur])
     THEN Goto("Check") /\ UNCHANGED <<flags, process>>
     ELSE IF Sock!CanReceive(flags[cur], room)
     THEN /\ flags' = [flags EXCEPT ![cur] = Sock!IncomingRequested(@)]
          /\ Goto("ReceivePacketImpl")
          /\ UNCHANGED process
     ELSE Goto("Check") /\ process' = TRUE /\ UNCHANGED flags
  /\ UNCHANGED <<signals, sockets, out, messageVars, atVars, frameVars,
                 envVars>>

ReceiveReturns(r) ==
  /\ pc = "ReceivePacketImpl"
  /\ CommandDone(r)
  /\ Goto("Check")
  /\ UNCHANGED <<signals, process, listVars, frameVars, envVars>>

StartCheck(room) ==
  /\ pc = "Check"
  /\ IF Sock!DataToCheck(flags[cur]) /\ Sock!CanReceive(flags[cur], room)
     THEN /\ flags' = [flags EXCEPT ![cur] = Sock!IncomingRequested(@)]
          /\ Goto("CheckIncomingImpl")
          /\ UNCHANGED cur
     ELSE /\ cur' = After(sockets, cur)
          /\ Goto("ProcessSockets")
          /\ UNCHANGED flags
  /\ UNCHANGED <<signals, process, sockets, out, messageVars, atVars, nxt,
                 envVars>>

CheckReturns(r) ==
  /\ pc = "CheckIncomingImpl"
  /\ CommandDone(r)
  /\ cur' = After(sockets, cur)
  /\ Goto("ProcessSockets")
  /\ UNCHANGED <<signals, process, listVars, nxt, envVars>>

ProcessLoopEnds ==
  /\ pc = "ProcessSockets" /\ LoopEnds
  /\ cur' = First(messages)
  /\ Goto("SendMessages")
  /\ UNCHANGED <<signals, process, listVars, atVars, nxt, envVars>>

StartSendMessage ==
  /\ pc = "SendMessages" /\ ~LoopEnds
  /\ IF Msg!ShouldSend(mflags[cur])
     THEN Goto("SendMessageImpl") /\ UNCHANGED cur
     ELSE cur' = After(messages, cur) /\ UNCHANGED pc
  /\ UNCHANGED <<signals, process, listVars, atVars, nxt, envVars>>

\* "+CMGF" has succeeded, Message::Sending and the "+CMGS" command follow.
SubmitMessage ==
  /\ pc = "SendMessageImpl" /\ ~CommandsRefused
  /\ ~Msg!IsSending(mflags[cur]) /\ Msg!ShouldSend(mflags[cur])
  /\ mflags' = [mflags EXCEPT ![cur] = Msg!Sending(@)]
  /\ UNCHANGED <<signals, process, socketVars, messages, mr, atVars, pc,
                 frameVars, envVars>>

\* OK requires "+CMGS", which ends ModemSending; anything else fails the
\* message, whether or not "+CMGS" came.
SendMessageReturns(r) ==
  /\ pc = "SendMessageImpl"
  /\ r = "OK" => ~Msg!ShouldSend(mflags[cur])
  /\ CommandDone(r)
  /\ mflags' = IF r = "OK" THEN mflags
               ELSE [mflags EXCEPT ![cur] = Msg!SendingFailed(@)]
  /\ process' = TRUE
  /\ cur' = After(messages, cur)
  /\ Goto("SendMessages")
  /\ UNCHANGED <<signals, socketVars, messages, mr, nxt, envVars>>

MessageLoopEnds ==
  /\ pc = "SendMessages" /\ LoopEnds
  /\ Goto("RemoveMessages")
  /\ UNCHANGED <<signals, process, listVars, atVars, frameVars, envVars>>

MessagesRemoved ==
  /\ pc = "RemoveMessages" /\ MessagesSwept
  /\ Goto("EndOfPass")
  /\ UNCHANGED <<signals, process, listVars, atVars, frameVars, envVars>>

\* Leaving the service loop: DisconnectNetworkImpl is called.
LeaveNetwork ==
  /\ signals' = (signals \ {"NetworkActive"}) \cup {"NetworkDisconnecting"}
  /\ Goto("DisconnectNetworkImpl")

\* Slip: messages do not keep the modem up.
NoSocketListed == sockets = <<>>

NothingListed == sockets = <<>> /\ messages = <<>>

EndPass ==
  /\ pc = "EndOfPass"
  /\ IF atResult # "OK" THEN LeaveNetwork                \* sequence broken
     ELSE IF NothingListed
     THEN /\ signals' = signals \ {"RequireActive"}
          /\ Goto("AwaitActivity")
     ELSE Goto("Yield") /\ UNCHANGED signals
  /\ UNCHANGED <<process, listVars, atVars, frameVars, envVars>>

Resume ==
  /\ \/ pc = "Yield"
     \/ pc = "AwaitActivity" /\ "RequireActive" \in signals
  /\ Goto("AwaitProcess")
  /\ UNCHANGED <<signals, process, listVars, atVars, frameVars, envVars>>

\* powerOffTimeout runs out with nothing to do.
IdleTimeout ==
  /\ pc = "AwaitActivity" /\ "RequireActive" \notin signals
  /\ process' = FALSE
  /\ LeaveNetwork
  /\ UNCHANGED <<listVars, atVars, frameVars, envVars>>

-----------------------------------------------------------------------------
(* The modem task: power-off *)

NetworkDisconnected(r) ==
  /\ pc = "DisconnectNetworkImpl"
  /\ CommandDone(r)
  /\ Goto("FinishSockets")
  /\ UNCHANGED <<signals, process, listVars, frameVars, envVars>>

FinishSockets ==
  /\ pc = "FinishSockets"
  /\ FinishAll(IF rxLen = 0 THEN Socket ELSE {})
  /\ Goto("PowerOffImpl")
  /\ UNCHANGED <<signals, process, sockets, out, messageVars, atVars,
                 frameVars, envVars>>

\* PowerOffImpl ends with the power switched off: the modem forgets its links.
PoweredOff ==
  /\ pc = "PowerOffImpl"
  /\ link' = [s \in Socket |-> "idle"]
  /\ inbox' = [s \in Socket |-> 0]
  /\ Goto("AwaitRxStop")
  /\ UNCHANGED <<signals, process, listVars, atVars, frameVars, rxVars>>

\* Slip: the task does not wait for the receive task.
RxAbandoned == TRUE

RxStopped == "RxTaskActive" \notin signals

\* Slip: requests made during power-off are not looked at.
NoRestart == FALSE

Restart == process

\* The task ends, and starts over if processing was requested meanwhile.
TaskEnds ==
  /\ pc = "AwaitRxStop" /\ RxStopped
  /\ IF Restart
     THEN /\ process' = TRUE
          /\ UNCHANGED signals
          /\ pc' = "Scheduled"
          /\ cur' = NULL /\ nxt' = NULL
     ELSE StopTask /\ UNCHANGED process
  /\ UNCHANGED <<listVars, atVars, envVars>>

-----------------------------------------------------------------------------
(* The receive task *)

\* A line is read and handed to OnEvent.
LineArrives == "RxTaskActive" \in signals /\ rxLen = 0 /\ ~HoldsCpu

\* FindSocket(channel, true) for the channel s is bound to: whatever the event,
\* it only looks at secure sockets.
Found(s) ==
  s \in Listed(sockets) /\ Sock!IsAllocated(flags[s]) /\ "AppSecure" \in flags[s]

\* Slip: the task is not told.
NotifyQuietly(s, f) ==
  /\ flags' = IF Found(s) THEN [flags EXCEPT ![s] = f] ELSE flags
  /\ UNCHANGED process

\* OnEvent gives s the flag word f and requests processing.
Notify(s, f) ==
  IF Found(s)
  THEN flags' = [flags EXCEPT ![s] = f] /\ process' = TRUE
  ELSE UNCHANGED <<flags, process>>

OnConnected(s) ==
  /\ LineArrives
  /\ link[s] = "opening"
  /\ link' = [link EXCEPT ![s] = "open"]
  /\ Notify(s, Sock!Connected(flags[s]))
  /\ UNCHANGED <<signals, sockets, out, messageVars, atVars, pc, frameVars,
                 rxVars, inbox>>

\* The OK of the open request is through.  An end of the connection that nobody
\* hears of changes nothing but the link, so it may as well come after that.
OpenReturned(s) == ~(pc = "ConnectImpl" /\ cur = s)

\* "CONNECT FAIL", the failed open of a SIM800: OnEvent has no case for it.
OpenFailsUnheard(s) ==
  /\ LineArrives
  /\ link[s] = "opening" /\ OpenReturned(s)
  /\ link' = [link EXCEPT ![s] = "idle"]
  /\ UNCHANGED <<signals, process, listVars, atVars, pc, frameVars, rxVars,
                 inbox>>

\* The failed open of a SIM7600, a close by the peer, or the end of a requested
\* close.
OnDisconnected(s) ==
  /\ LineArrives
  /\ link[s] # "idle" /\ (Found(s) \/ OpenReturned(s))
  /\ link' = [link EXCEPT ![s] = "idle"]
  /\ inbox' = [inbox EXCEPT ![s] = 0]
  /\ Notify(s, Sock!Finished(flags[s]))
  /\ UNCHANGED <<signals, sockets, out, messageVars, atVars, pc, frameVars,
                 rxVars>>

OnIncoming(s) ==
  /\ LineArrives
  /\ link[s] = "open" /\ inbox[s] > 0
  /\ Notify(s, Sock!Incoming(flags[s]))
  /\ UNCHANGED <<signals, sockets, out, messageVars, atVars, pc, frameVars,
                 envVars>>

\* The modem's end-of-receive line.
OnMaybeIncoming(s) ==
  /\ LineArrives
  /\ link[s] = "open"
  /\ Notify(s, Sock!MaybeIncoming(flags[s]))
  /\ UNCHANGED <<signals, sockets, out, messageVars, atVars, pc, frameVars,
                 envVars>>

\* A data header: ReceiveForSocket, with a null socket if none is found.
OnData(s) ==
  /\ LineArrives
  /\ link[s] = "open" /\ inbox[s] > 0
  /\ inbox' = [inbox EXCEPT ![s] = @ - 1]
  /\ flags' = IF Found(s) THEN [flags EXCEPT ![s] = Sock!MaybeIncoming(@)]
              ELSE flags
  /\ process' = TRUE
  /\ rxSock' = IF Found(s) THEN s ELSE NULL
  /\ rxLen' \in 1..MaxRx
  /\ UNCHANGED <<signals, sockets, out, messageVars, atVars, pc, frameVars,
                 link>>

\* A send confirmation; the packet leaves the pipe unless the modem failed.
OnSendResponse(accepted) ==
  /\ LineArrives
  /\ pc = "SendPacketImpl" /\ Sock!IsSending(flags[cur])
  /\ flags' = [flags EXCEPT ![cur] = Sock!SendingFinished(@)]
  /\ out' = IF accepted THEN [out EXCEPT ![cur] = @ - 1] ELSE out
  /\ UNCHANGED <<signals, process, sockets, messageVars, atVars, pc, frameVars,
                 envVars>>

\* "+CMGS" with the message reference.
OnMessageReference ==
  /\ LineArrives
  /\ pc = "SendMessageImpl" /\ Msg!IsSending(mflags[cur])
  /\ mflags' = [mflags EXCEPT ![cur] = Msg!SendingComplete(@)]
  /\ mr' = [mr EXCEPT ![cur] = TRUE]
  /\ UNCHANGED <<signals, process, socketVars, messages, atVars, pc, frameVars,
                 envVars>>

\* Slip: the end of a transfer does not wake the task that gave way to it.
MoveDataQuietly ==
  /\ rxLen > 0 /\ ~HoldsCpu
  /\ rxLen' = rxLen - 1
  /\ rxSock' = IF rxLen = 1 THEN NULL ELSE rxSock
  /\ UNCHANGED <<signals, process, listVars, atVars, pc, frameVars, deviceVars>>

\* One piece of incoming data is moved; the last one ends the transfer.
MoveData ==
  /\ rxLen > 0 /\ ~HoldsCpu
  /\ rxLen' = rxLen - 1
  /\ rxSock' = IF rxLen = 1 THEN NULL ELSE rxSock
  /\ process' = (process \/ rxLen = 1)
  /\ UNCHANGED <<signals, listVars, atVars, pc, frameVars, deviceVars>>

\* The receive pipe is closed by PowerOffImpl; a transfer is abandoned.
RxStops ==
  /\ "RxTaskActive" \in signals
  /\ pc \in {"PowerOffImpl", "AwaitRxStop"}
  /\ signals' = signals \ {"RxTaskActive"}
  /\ rxLen' = 0
  /\ rxSock' = NULL
  /\ process' = (process \/ rxLen > 0)
  /\ UNCHANGED <<listVars, atVars, pc, frameVars, deviceVars>>

-----------------------------------------------------------------------------
(* The modem and its peers (environment).  Requests reach the modem while  *)
(* the call is awaited.                                                    *)

TakeOpenRequest ==
  /\ pc = "ConnectImpl" /\ ~CommandsRefused
  /\ link[cur] = "idle" /\ "ModemConnecting" \in flags[cur]
  /\ link' = [link EXCEPT ![cur] = "opening"]
  /\ UNCHANGED <<signals, process, listVars, atVars, pc, frameVars, rxVars,
                 inbox>>

\* The peer sends, as much and as often as it likes.
PeerSends(s) ==
  /\ link[s] = "open" /\ inbox[s] < MaxIn
  /\ inbox' = [inbox EXCEPT ![s] = @ + 1]
  /\ UNCHANGED <<signals, process, listVars, atVars, pc, frameVars, rxVars,
                 link>>

TakeCloseRequest ==
  /\ pc = "CloseImpl" /\ ~CommandsRefused
  /\ link[cur] \in {"opening", "open"}
  /\ link' = [link EXCEPT ![cur] = "closing"]
  /\ UNCHANGED <<signals, process, listVars, atVars, pc, frameVars, rxVars,
                 inbox>>

-----------------------------------------------------------------------------

Init ==
  /\ signals = {} /\ process = FALSE
  /\ sockets = <<>> /\ flags = [s \in Socket |-> {}]
  /\ out = [s \in Socket |-> 0]
  /\ messages = <<>> /\ mflags = [m \in Message |-> {}]
  /\ mr = [m \in Message |-> FALSE]
  /\ atResult = "OK" /\ modemStatus = "Ok"
  /\ pc = "Stopped" /\ cur = NULL /\ nxt = NULL
  /\ rxSock = NULL /\ rxLen = 0
  /\ link = [s \in Socket |-> "idle"] /\ inbox = [s \in Socket |-> 0]

App ==
  \/ \E s \in Socket :
       \/ \E tls \in Security : CreateSocket(s, tls)
       \/ ReleaseSocket(s) \/ Disconnect(s) \/ WriteOutput(s)
  \/ \E m \in Message : SendMessage(m) \/ ReleaseMessage(m)

StartUp ==
  \/ Preprocess \/ RemoveSocket \/ RemoveMessage \/ NothingToDo
  \/ PowerOn \/ PowerOnFailed \/ RetryPowerOn \/ PowerOnFailedAgain
  \/ PoweredOn \/ Started \/ StartFailed \/ SimUnlocked \/ NetworkConnected
  \/ BringUpFailed

Pass ==
  \/ AcquireProcess \/ CloseSocket \/ CloseLoopEnds
  \/ SocketsRemoved \/ ConnectSocket \/ StartSend \/ ProcessLoopEnds
  \/ StartSendMessage \/ SubmitMessage \/ MessageLoopEnds
  \/ MessagesRemoved \/ EndPass \/ Resume
  \/ \E room \in BOOLEAN : StartReceive(room) \/ StartCheck(room)
  \/ \E r \in Result :
       \/ CloseReturns(r) \/ ConnectReturns(r) \/ SendReturns(r)
       \/ ReceiveReturns(r) \/ CheckReturns(r) \/ SendMessageReturns(r)

ShutDown ==
  \/ \E r \in Result : NetworkDisconnected(r)
  \/ FinishSockets \/ PoweredOff \/ TaskEnds

Task == StartUp \/ Pass \/ ShutDown

RxTask ==
  \/ \E s \in Socket :
       \/ OnConnected(s) \/ OpenFailsUnheard(s) \/ OnDisconnected(s)
       \/ OnIncoming(s) \/ OnMaybeIncoming(s) \/ OnData(s)
  \/ \E accepted \in BOOLEAN : OnSendResponse(accepted)
  \/ OnMessageReference \/ MoveData \/ RxStops

Device ==
  TakeOpenRequest \/ TakeCloseRequest \/ \E s \in Socket : PeerSends(s)

Next == App \/ Task \/ IdleTimeout \/ RxTask \/ Device

Spec == Init /\ [][Next]_vars

=============================================================================
