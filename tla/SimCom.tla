------------------------------- MODULE SimCom -------------------------------
(***************************************************************************)
(* The socket operations of gsm::SimComModem on a SIM800 and on a SIM7600: *)
(* channels, the command sequences of connecting, sending, receiving and   *)
(* closing, OnEvent and the send responses on the lines that come back,    *)
(* and the modem with its connections (environment).                       *)
(*                                                                         *)
(* The modem task's pass is reduced to its order (close, remove, serve;    *)
(* module Modem has its loops and its sleep), the AT engine to its result  *)
(* and its requirement mask (module AT).  Lines are read in the order the  *)
(* modem sends them; incoming data is taken with its header line.          *)
(* "CONNECT OK" and "+CCHOPEN: n,0" are handled alike and called "Opened"; *)
(* likewise "CLOSED", "+CCHCLOSE", "+CCH_PEER_CLOSED", called "Closed",    *)
(* and "+RECEIVE", "+CCHRECV: DATA", called "Data".                        *)
(* TcpStatus, which is only reported to the application, is left out.      *)
(*                                                                         *)
(*   model                    what Initialize has detected                 *)
(*   listed                   sockets in the modem's list                  *)
(*   flags, channel, outgoing, error    the members of those names         *)
(*   written, position        bytes written to the transmit pipe, and the  *)
(*                            position its reader has been advanced to     *)
(*   phase, pc, cur           the task: the part of the pass, the driver's *)
(*                            call it awaits and that call's socket        *)
(*   need, result             bits the command still requires, atResult    *)
(*   failed                   modemStatus is CommandError                  *)
(*   command, link, rx        the modem: the command it has, its           *)
(*                            connections, the lines it has sent           *)
(***************************************************************************)
EXTENDS Integers, Sequences, SequencesExt, SocketFlags

CONSTANTS
  Socket,          \* socket objects (memory is reused after a destruction)
  NULL,
  SharedChannels,  \* channels of a SIM800
  TlsChannels,     \* +CCH channels of a SIM7600
  TcpChannels,     \* +CIP channels of a SIM7600
  MaxPacket,       \* bytes in a packet
  MaxWritten,      \* bound: bytes written to a socket
  MaxLines         \* bound: lines waiting when the modem adds one of its own

ASSUME SimComAssumption ==
  /\ NULL \notin Socket
  /\ SharedChannels \in Nat /\ TlsChannels \in Nat /\ TcpChannels \in Nat
  /\ MaxPacket \in Nat \ {0} /\ MaxWritten \in Nat /\ MaxLines \in Nat

VARIABLES
  model, listed, flags, channel, outgoing, error, written, position, phase,
  pc, cur, need, result, failed, command, link, rx

sendVars   == <<outgoing, error, written, position>>
socketVars == <<listed, flags, channel, sendVars>>
taskVars   == <<phase, pc, cur>>
atVars     == <<need, result, failed>>
deviceVars == <<command, link, rx>>
driverVars == <<model, socketVars, taskVars, atVars>>
vars == <<driverVars, deviceVars>>

Model == {"SIM800", "SIM7600"}

IsSecure(s) == "AppSecure" \in flags[s]

\* The pools a socket takes its channel from.
Pool == {"IP", "CCH", "CIP"}

PoolOf(s) ==
  IF model = "SIM800" THEN "IP" ELSE IF IsSecure(s) THEN "CCH" ELSE "CIP"

Capacity(p) ==
  CASE p = "IP"  -> SharedChannels
    [] p = "CCH" -> TlsChannels
    [] p = "CIP" -> TcpChannels

Channel == Nat

Link == {l \in Pool \X (0..SharedChannels + TlsChannels + TcpChannels) :
           l[2] < Capacity(l[1])}

LinkOf(s) == <<PoolOf(s), channel[s]>>

\* The connection of a link: its state, the socket it was opened for, the
\* bytes the modem has taken, and whether it holds unread data.
NoConnection == [at |-> "idle", of |-> NULL, taken |-> 0, unread |-> FALSE]

\* A line: the channel and the number in it, and the connection it is about.
Line(t, l, v) == [text |-> t, ch |-> l[2], value |-> v, of |-> link[l].of]
Result(t) == [text |-> t, ch |-> 0, value |-> 0, of |-> NULL]

NoCommand == [name |-> "None", link |-> <<"IP", 0>>, len |-> 0, of |-> NULL]

-----------------------------------------------------------------------------
(* The application *)

CreateSocket(s, tls) ==
  /\ s \notin listed
  /\ listed' = listed \cup {s}
  /\ flags' = [flags EXCEPT ![s] = NewSocket(tls)]
  /\ channel' = [channel EXCEPT ![s] = 0]
  /\ outgoing' = [outgoing EXCEPT ![s] = 0]
  /\ error' = [error EXCEPT ![s] = FALSE]
  /\ written' = [written EXCEPT ![s] = 0]
  /\ position' = [position EXCEPT ![s] = 0]
  /\ UNCHANGED <<model, taskVars, atVars, deviceVars>>

ReleaseSocket(s) ==
  /\ s \in listed /\ "AppReference" \in flags[s]
  /\ flags' = [flags EXCEPT ![s] = Released(@)]
  /\ UNCHANGED <<model, listed, channel, sendVars, taskVars, atVars,
                 deviceVars>>

\* Socket::Disconnect up to its await.
Disconnect(s) ==
  /\ s \in listed /\ "AppReference" \in flags[s] /\ "AppClose" \notin flags[s]
  /\ flags' = [flags EXCEPT ![s] = CloseRequested(@)]
  /\ UNCHANGED <<model, listed, channel, sendVars, taskVars, atVars,
                 deviceVars>>

\* Disconnect has closed the pipe.
WriteOutput(s) ==
  /\ s \in listed /\ "AppReference" \in flags[s]
  /\ IsConnected(flags[s]) /\ "AppClose" \notin flags[s]
  /\ \E n \in (written[s] + 1)..MaxWritten :
       written' = [written EXCEPT ![s] = n]
  /\ UNCHANGED <<model, listed, flags, channel, outgoing, error, position,
                 taskVars, atVars, deviceVars>>

-----------------------------------------------------------------------------
(* Commands *)

\* An AT call for socket s, awaited at step: refused once a command has been
\* left without an answer, given to the modem otherwise.
Execute(s, name, len, mask, step) ==
  /\ pc' = step /\ cur' = s
  /\ result' = IF failed THEN "Failure" ELSE "Pending"
  /\ need' = IF failed THEN {} ELSE mask
  /\ command' = IF failed THEN NoCommand
                ELSE [name |-> name, link |-> LinkOf(s), len |-> len, of |-> s]
  /\ UNCHANGED <<failed, link, rx>>

Ready(p) == pc = "Idle" /\ phase = p

Awaiting(step) == pc = step /\ result # "Pending"

\* The end of the driver's call.
Return == pc' = "Idle" /\ cur' = NULL

CommandTimesOut ==
  /\ pc # "Idle" /\ result = "Pending"
  /\ result' = "Timeout" /\ failed' = TRUE /\ need' = {}
  /\ UNCHANGED <<model, socketVars, taskVars, deviceVars>>

-----------------------------------------------------------------------------
(* The modem task *)

CloseImpl(s) ==
  /\ Ready("Close") /\ s \in listed /\ NeedsClose(flags[s])
  /\ flags' = [flags EXCEPT ![s] = @ \cup {"ModemClosing"}]
  /\ Execute(s, "Close", 0, {1}, "CloseImpl")
  /\ UNCHANGED <<model, listed, channel, sendVars, phase>>

\* DestroySocket for those that can be deleted; what their memory holds does not
\* matter any more.
RemoveSockets ==
  /\ Ready("Close")
  /\ phase' = "Serve"
  /\ listed' = {s \in listed : ~CanDelete(flags[s])}
  /\ LET Cleared(f, v) == [s \in Socket |-> IF s \in listed' THEN f[s] ELSE v]
     IN  /\ flags' = Cleared(flags, {})
         /\ channel' = Cleared(channel, 0)
         /\ outgoing' = Cleared(outgoing, 0)
         /\ error' = Cleared(error, FALSE)
         /\ written' = Cleared(written, 0)
         /\ position' = Cleared(position, 0)
  /\ UNCHANGED <<model, pc, cur, atVars, deviceVars>>

\* Slip: the channel of a closed socket counts as free.
FreeUnlessOpen(s) ==
  {c \in 0..Capacity(PoolOf(s)) - 1 :
     \A o \in listed : IsAllocated(flags[o]) /\ ~IsClosed(flags[o])
                       /\ PoolOf(o) = PoolOf(s) => channel[o] # c}

\* The bits left in "avail"; sockets of another kind do not count.
Free(s) ==
  {c \in 0..Capacity(PoolOf(s)) - 1 :
     \A o \in listed : IsAllocated(flags[o]) /\ PoolOf(o) = PoolOf(s)
                       => channel[o] # c}

TryAllocateImpl(s) ==
  /\ Ready("Serve") /\ s \in listed /\ ~IsAllocated(flags[s])
  /\ \E c \in Free(s) :
       /\ \A d \in Free(s) : c <= d
       /\ channel' = [channel EXCEPT ![s] = c]
  /\ flags' = [flags EXCEPT ![s] = Allocate(@)]
  /\ UNCHANGED <<model, listed, sendVars, taskVars, atVars, deviceVars>>

\* A SIM800 is told first whether the next connection is secure.
ConnectImpl(s) ==
  /\ Ready("Serve") /\ s \in listed /\ NeedsConnect(flags[s])
  /\ flags' = [flags EXCEPT ![s] = @ \cup {"ModemConnecting"}]
  /\ IF model = "SIM800" THEN Execute(s, "CIPSSL", 0, {1}, "ConnectSecurity")
     ELSE Execute(s, "Open", 0, {1}, "ConnectImpl")
  /\ UNCHANGED <<model, listed, channel, sendVars, phase>>

SecurityReturns ==
  /\ Awaiting("ConnectSecurity")
  /\ IF result = "OK"
     THEN Execute(cur, "Open", 0, {1}, "ConnectImpl")
     ELSE Return /\ UNCHANGED <<atVars, deviceVars>>
  /\ UNCHANGED <<model, socketVars, phase>>

ConnectReturns ==
  /\ Awaiting("ConnectImpl")
  /\ Return
  /\ flags' = [flags EXCEPT ![cur] = IF result = "OK" THEN Bound(@)
                                     ELSE Finished(@)]
  /\ UNCHANGED <<model, listed, channel, sendVars, phase, atVars, deviceVars>>

Available(s) == written[s] - position[s]

\* Slip: a packet is always full.
FullPacket(s) == MaxPacket

PacketLength(s) == IF Available(s) < MaxPacket THEN Available(s) ELSE MaxPacket

\* The send command proper, its prompt and its data.
Send(s) ==
  /\ outgoing' = [outgoing EXCEPT ![s] = PacketLength(s)]
  /\ flags' = [flags EXCEPT ![s] = Sending(@)]
  /\ Execute(s, "Send", PacketLength(s),
             IF model = "SIM800" THEN {2} ELSE {1, 2}, "SendPacketImpl")

\* Slip: what has happened to the last packet is not asked.
ErrorIgnored(s) == FALSE

NeedsAck(s) == model = "SIM800" /\ error[s]

SendPacketImpl(s) ==
  /\ Ready("Serve") /\ s \in listed
  /\ DataToSend(flags[s], Available(s) > 0)
  /\ IF failed
     THEN /\ result' = "Failure"
          /\ UNCHANGED <<flags, outgoing, pc, cur, need, failed, deviceVars>>
     ELSE IF NeedsAck(s)
     THEN /\ UNCHANGED <<flags, outgoing>>
          /\ Execute(s, "CIPACK", 0, {1, 2}, "SendAck")
     ELSE Send(s)
  /\ UNCHANGED <<model, listed, channel, error, written, position, phase>>

AckReturns ==
  /\ Awaiting("SendAck")
  /\ IF result = "OK" /\ Available(cur) > 0
     THEN Send(cur)
     ELSE Return /\ UNCHANGED <<flags, outgoing, atVars, deviceVars>>
  /\ UNCHANGED <<model, listed, channel, error, written, position, phase>>

\* Without a response the send is over all the same.
SendReturns ==
  /\ Awaiting("SendPacketImpl")
  /\ Return
  /\ IF IsSending(flags[cur])
     THEN /\ flags' = [flags EXCEPT ![cur] = SendingFinished(@)]
          /\ outgoing' = [outgoing EXCEPT ![cur] = 0]
     ELSE UNCHANGED <<flags, outgoing>>
  /\ UNCHANGED <<model, listed, channel, error, written, position, phase,
                 atVars, deviceVars>>

\* ReceivePacketImpl and CheckIncomingImpl.
RequestIncoming(s, name) ==
  /\ Ready("Serve") /\ s \in listed /\ CanReceive(flags[s], TRUE)
  /\ flags' = [flags EXCEPT ![s] = IncomingRequested(@)]
  /\ Execute(s, name, MaxPacket, {1}, "ReceiveImpl")
  /\ UNCHANGED <<model, listed, channel, sendVars, phase>>

ReceivePacketImpl(s) == RequestIncoming(s, "Receive")

CheckIncomingImpl(s) == DataToCheck(flags[s]) /\ RequestIncoming(s, "Check")

\* CloseImpl, ReceivePacketImpl and CheckIncomingImpl have nothing left to do.
CallReturns ==
  /\ Awaiting("CloseImpl") \/ Awaiting("ReceiveImpl")
  /\ Return
  /\ UNCHANGED <<model, socketVars, phase, atVars, deviceVars>>

NextPass ==
  /\ Ready("Serve") /\ result = "OK"
  /\ phase' = "Close"
  /\ UNCHANGED <<model, socketVars, pc, cur, atVars, deviceVars>>

\* The pass ends the session: sockets are finished, the modem is turned off,
\* and on again.
PowerCycle ==
  /\ Ready("Serve") /\ result # "OK"
  /\ phase' = "Close"
  /\ flags' = [s \in Socket |-> IF s \in listed THEN Finished(flags[s])
                               ELSE flags[s]]
  /\ need' = {} /\ result' = "OK" /\ failed' = FALSE
  /\ command' = NoCommand
  /\ link' = [l \in Link |-> NoConnection]
  /\ rx' = <<>>
  /\ UNCHANGED <<model, listed, channel, sendVars, pc, cur>>

-----------------------------------------------------------------------------
(* RxTask and OnEvent *)

\* Slip: the kind of the socket is not compared, one without TLS may be met first.
FindSocketAnyKind(c) ==
  LET found == {s \in listed : IsAllocated(flags[s]) /\ channel[s] = c}
  IN  IF found = {} THEN NULL
      ELSE CHOOSE s \in found : \A t \in found : IsSecure(s) => IsSecure(t)

\* FindSocket(ch, true), as every caller calls it.
FindSocket(c) ==
  LET found == {s \in listed : /\ IsAllocated(flags[s]) /\ IsSecure(s)
                               /\ channel[s] = c}
  IN  IF found = {} THEN NULL ELSE CHOOSE s \in found : TRUE

Reads(texts) ==
  /\ rx # <<>> /\ Head(rx).text \in texts
  /\ rx' = Tail(rx)

Found == FindSocket(Head(rx).ch)

\* The socket the line is about, if any, gets its flags changed.
Update(Op(_)) ==
  /\ flags' = IF Found = NULL THEN flags ELSE [flags EXCEPT ![Found] = Op(@)]
  /\ UNCHANGED <<model, listed, channel, sendVars, taskVars, command, link>>

\* ATComplete.  A command that has its result keeps it: "CLOSE OK" would rewrite
\* atResult after a timeout, but every command is then refused at once, and the
\* pass looks at atResult before the task gives way to a line.
ATComplete(b) ==
  /\ need' = need \ {b}
  /\ result' = IF result = "Pending" /\ need' = {} THEN "OK" ELSE result
  /\ UNCHANGED failed

OnOK ==
  /\ Reads({"OK"})
  /\ ATComplete(1)
  /\ UNCHANGED <<model, socketVars, taskVars, command, link>>

OnError ==
  /\ Reads({"ERROR"})
  /\ result' = IF result = "Pending" THEN "Error" ELSE result
  /\ need' = {}
  /\ UNCHANGED <<model, socketVars, taskVars, failed, command, link>>

OnOpened == Reads({"Opened"}) /\ Update(Connected) /\ UNCHANGED atVars

\* A failed +CCHOPEN, a closed connection, a failed receive.
OnDisconnected ==
  /\ Reads({"OpenFailed", "Closed", "ReceiveFailed"})
  /\ Update(Finished) /\ UNCHANGED atVars

OnCloseOk == Reads({"CLOSE OK"}) /\ ATComplete(1) /\ Update(Finished)

\* An end of receive without error asks for another look; so does data.
OnMaybeIncoming ==
  /\ Reads({"EndOfReceive", "Data"})
  /\ Update(MaybeIncoming) /\ UNCHANGED atVars

\* +CCHEVENT and "+CCHRECV: LEN"; the former does not test the socket it has
\* looked up.
OnIncoming ==
  /\ Reads({"RecvEvent", "Len"})
  /\ Update(Incoming) /\ UNCHANGED atVars

\* Slip: the response handler outlives its command.
SendsStill == TRUE

\* The response handler of the pending send command is set.
Sends == pc = "SendPacketImpl" /\ result = "Pending"

\* The send is over, and the first n bytes of the packet have been taken.
Sent(s, n, failing) ==
  IF s = NULL THEN UNCHANGED <<flags, sendVars>>
  ELSE /\ flags' = [flags EXCEPT ![s] = SendingFinished(@)]
       /\ position' = [position EXCEPT ![s] = @ + n]
       /\ outgoing' = [outgoing EXCEPT ![s] = 0]
       /\ error' = [error EXCEPT ![s] = @ \/ failing]
       /\ UNCHANGED written

OnSendResponse ==
  /\ Reads({"DATA ACCEPT", "SEND FAIL", "+CCHSEND"})
  /\ IF Sends
     THEN LET line == Head(rx) IN
          /\ CASE line.text = "DATA ACCEPT" -> Sent(Found, line.value, FALSE)
               [] line.text = "SEND FAIL"   -> Sent(Found, 0, TRUE)
               [] line.text = "+CCHSEND"    ->
                    Sent(Found, IF line.value = 0 THEN outgoing[Found] ELSE 0,
                         FALSE)
          /\ ATComplete(2)
     ELSE UNCHANGED <<flags, sendVars, atVars>>
  /\ UNCHANGED <<model, listed, channel, taskVars, command, link>>

\* What the modem says has been sent decides, whatever was accepted before.
OnReceiveAck ==
  /\ Reads({"+CIPACK"})
  /\ IF pc = "SendAck" /\ result = "Pending"
     THEN /\ position' = [position EXCEPT ![cur] = Head(rx).value]
          /\ error' = [error EXCEPT ![cur] = FALSE]
          /\ ATComplete(2)
     ELSE UNCHANGED <<position, error, atVars>>
  /\ UNCHANGED <<model, listed, flags, channel, outgoing, written, taskVars,
                 command, link>>

-----------------------------------------------------------------------------
(* The modem (environment) *)

Answer(lines) == rx' = rx \o lines

Busy(name) == command.name = name

\* The link of the command, and the line about it.
At == command.link
Says(t, v) == Line(t, At, v)
IsOpen(l) == link[l].at = "open"

Done == command' = NoCommand

DeviceRefuses ==
  /\ command # NoCommand
  /\ Answer(<<Result("ERROR")>>)
  /\ Done
  /\ UNCHANGED <<driverVars, link>>

DeviceTakesSecurity ==
  /\ Busy("CIPSSL")
  /\ Answer(<<Result("OK")>>)
  /\ Done
  /\ UNCHANGED <<driverVars, link>>

DeviceTakesOpen ==
  /\ Busy("Open") /\ link[At].at = "idle"
  /\ link' = [link EXCEPT ![At] =
                [at |-> "opening", of |-> command.of, taken |-> 0, unread |-> FALSE]]
  /\ Answer(<<Result("OK")>>)
  /\ Done
  /\ UNCHANGED driverVars

\* Lines about +CIP links of a SIM7600 are none the driver knows, nor is the
\* line for a SIM800's failure to connect.
DeviceOpens(l) ==
  /\ link[l].at = "opening" /\ Len(rx) < MaxLines
  /\ link' = [link EXCEPT ![l].at = "open"]
  /\ Answer(IF l[1] = "CIP" THEN <<>> ELSE <<Line("Opened", l, 0)>>)
  /\ UNCHANGED <<driverVars, command>>

DeviceFailsToOpen(l) ==
  /\ link[l].at = "opening" /\ Len(rx) < MaxLines
  /\ link' = [link EXCEPT ![l] = NoConnection]
  /\ Answer(IF l[1] = "CCH" THEN <<Line("OpenFailed", l, 1)>> ELSE <<>>)
  /\ UNCHANGED <<driverVars, command>>

DeviceCloses ==
  /\ Busy("Close") /\ link[At].at # "idle"
  /\ link' = [link EXCEPT ![At] = NoConnection]
  /\ Answer(CASE At[1] = "IP"  -> <<Says("CLOSE OK", 0)>>
              [] At[1] = "CCH" -> <<Result("OK"), Says("Closed", 0)>>
              [] At[1] = "CIP" -> <<Result("OK")>>)
  /\ Done
  /\ UNCHANGED driverVars

PeerCloses(l) ==
  /\ IsOpen(l) /\ Len(rx) < MaxLines
  /\ link' = [link EXCEPT ![l] = NoConnection]
  /\ Answer(IF l[1] = "CIP" THEN <<>> ELSE <<Line("Closed", l, 0)>>)
  /\ UNCHANGED <<driverVars, command>>

\* A SIM800 that fails may have taken a part; a SIM7600 has taken nothing.
DeviceSends ==
  /\ Busy("Send") /\ IsOpen(At)
  /\ \E n \in 0..command.len :
       /\ At[1] = "IP" \/ n \in {0, command.len}
       /\ link' = [link EXCEPT ![At].taken = @ + n]
       /\ Answer(CASE At[1] = "CCH" ->
                        <<Result("OK"),
                          Says("+CCHSEND", IF n = 0 THEN 1 ELSE 0)>>
                   [] At[1] = "IP" /\ n = command.len ->
                        <<Says("DATA ACCEPT", n)>>
                   [] OTHER -> <<Says("SEND FAIL", 0)>>)
  /\ Done
  /\ UNCHANGED driverVars

DeviceAcknowledges ==
  /\ Busy("CIPACK") /\ IsOpen(At)
  /\ Answer(<<Says("+CIPACK", link[At].taken), Result("OK")>>)
  /\ Done
  /\ UNCHANGED <<driverVars, link>>

\* A SIM800 hands data over at once, a SIM7600 announces it.
DataArrives(l) ==
  /\ IsOpen(l) /\ ~link[l].unread /\ l[1] # "CIP" /\ Len(rx) < MaxLines
  /\ link' = [link EXCEPT ![l].unread = l[1] = "CCH"]
  /\ Answer(<<Line(IF l[1] = "CCH" THEN "RecvEvent" ELSE "Data", l, 1)>>)
  /\ UNCHANGED <<driverVars, command>>

DeviceHandsOver ==
  /\ Busy("Receive") /\ IsOpen(At)
  /\ \/ /\ link[At].unread
        /\ Answer(<<Result("OK"), Says("Data", 1), Says("EndOfReceive", 0)>>)
        /\ link' = [link EXCEPT ![At].unread = FALSE]
     \/ /\ Answer(<<Result("OK"), Says("ReceiveFailed", 1)>>)
        /\ link' = [link EXCEPT ![At] = NoConnection]
  /\ Done
  /\ UNCHANGED driverVars

DeviceReportsUnread ==
  /\ Busy("Check")
  /\ LET unread == SetToSeq({l \in Link : link[l].unread})
     IN  Answer(Append([i \in DOMAIN unread |-> Line("Len", unread[i], 1)],
                       Result("OK")))
  /\ Done
  /\ UNCHANGED <<driverVars, link>>

-----------------------------------------------------------------------------

Init ==
  /\ model \in Model
  /\ listed = {} /\ flags = [s \in Socket |-> {}]
  /\ channel = [s \in Socket |-> 0] /\ outgoing = [s \in Socket |-> 0]
  /\ error = [s \in Socket |-> FALSE]
  /\ written = [s \in Socket |-> 0] /\ position = [s \in Socket |-> 0]
  /\ phase = "Close" /\ pc = "Idle" /\ cur = NULL
  /\ need = {} /\ result = "OK" /\ failed = FALSE
  /\ command = NoCommand /\ rx = <<>>
  /\ link = [l \in Link |-> NoConnection]

App ==
  \E s \in Socket :
    \/ ReleaseSocket(s) \/ Disconnect(s) \/ WriteOutput(s)
    \/ \E tls \in BOOLEAN : CreateSocket(s, tls)

Task ==
  \/ \E s \in Socket :
       \/ CloseImpl(s) \/ TryAllocateImpl(s) \/ ConnectImpl(s)
       \/ SendPacketImpl(s) \/ ReceivePacketImpl(s) \/ CheckIncomingImpl(s)
  \/ RemoveSockets \/ SecurityReturns \/ ConnectReturns
  \/ AckReturns \/ SendReturns \/ CallReturns \/ CommandTimesOut
  \/ NextPass \/ PowerCycle

RxTask ==
  \/ OnOK \/ OnError \/ OnOpened \/ OnDisconnected \/ OnCloseOk
  \/ OnMaybeIncoming \/ OnIncoming \/ OnSendResponse \/ OnReceiveAck

Device ==
  \/ DeviceRefuses \/ DeviceTakesSecurity \/ DeviceTakesOpen \/ DeviceCloses
  \/ DeviceSends \/ DeviceAcknowledges \/ DeviceHandsOver
  \/ DeviceReportsUnread
  \/ \E l \in Link :
       DeviceOpens(l) \/ DeviceFailsToOpen(l) \/ PeerCloses(l) \/ DataArrives(l)

Next == App \/ Task \/ RxTask \/ Device

Spec == Init /\ [][Next]_vars

=============================================================================
