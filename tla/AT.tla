--------------------------------- MODULE AT ---------------------------------
(***************************************************************************)
(* The AT engine of gsm::Modem: ATLock, AT and ATFormat, ATResponse and    *)
(* ATComplete on the side of the modem task, RxTask's reading of lines and *)
(* prompts on the other, and the modem that answers (environment).         *)
(*                                                                         *)
(* The commands stand for the driver's calls by the way they are answered: *)
(*   AT        OK, as most commands                                        *)
(*   ATI       OK; a handler looks at the lines before it (+GSV too)       *)
(*   CIPCLOSE  "CLOSE OK" in place of OK (SIM800)                          *)
(*   CIPSHUT   a line of its own in place of OK (+CPOWD too)               *)
(*   CIFSR     a line without a header in place of OK (SIM800)             *)
(*   NETOPEN   OK and a line of its own (+CIPACK, +CCHSTART, ...)          *)
(*   CIPSEND   prompt for a socket's data, then a line in place of OK      *)
(*   CCHSEND   prompt for a socket's data, then OK and a line              *)
(*   CMGS      prompt for a message, then OK and a line                    *)
(*                                                                         *)
(* Only the modem task calls AT, so ATLock never has to wait: it refuses,  *)
(* or takes the free lock.  Commands are numbered; a pointer the engine    *)
(* keeps (the response handler, the sources of a transmission) is the      *)
(* number of the command that set it, 0 when it is null.                   *)
(*                                                                         *)
(*   session              how far the modem task is between power-on and   *)
(*                        power-off                                        *)
(*   misled               history: another line has been taken for the     *)
(*                        answer to +CIFSR in this session                 *)
(*   pc, returned         the call of AT in progress and its last result   *)
(*   locked, atResult, atComplete, atRequire, atResponse, atTransmitSock,  *)
(*   atTransmitMsg, modemStatus      the members of those names            *)
(*   n, kind              the latest command                               *)
(*   rxpc                 where RxTask is                                  *)
(*   tx, rx               the pipes: commands and data out, lines in       *)
(*   device, verdict      the modem, and what it decided on command n      *)
(***************************************************************************)
EXTENDS Naturals, Sequences, SequencesExt

CONSTANTS
  MaxCommands,  \* bound: commands issued
  MaxLines      \* bound: lines waiting when the modem adds one of its own

ASSUME ATAssumption == MaxCommands \in Nat /\ MaxLines \in Nat

VARIABLES
  session, misled, pc, returned, locked, atResult, atComplete, atRequire,
  atResponse, atTransmitSock, atTransmitMsg, modemStatus, n, kind, rxpc, tx, rx,
  device, verdict

sessionVars  == <<session, misled>>
callVars     == <<pc, returned, n, kind>>
lockVars     == <<locked, atRequire, atResponse>>
resultVars   == <<atResult, atComplete>>
transmitVars == <<atTransmitSock, atTransmitMsg>>
deviceVars   == <<device, verdict>>
vars == <<sessionVars, callVars, lockVars, resultVars, transmitVars,
          modemStatus, rxpc, tx, rx, deviceVars>>

Command ==
  {"AT", "ATI", "CIPCLOSE", "CIPSHUT", "CIFSR", "NETOPEN", "CIPSEND", "CCHSEND",
   "CMGS"}

SocketSend == {"CIPSEND", "CCHSEND"}
Prompted   == SocketSend \cup {"CMGS"}

\* Slip: every command with a handler waits for OK too.
RequiredBoth(k) == IF k \in {"AT", "ATI", "CIPCLOSE"} THEN {1} ELSE {1, 2}

\* The mask given to NextATResponse, as a set of bits; 1 without it.
Required(k) ==
  CASE k \in {"AT", "ATI", "CIPCLOSE"}      -> {1}
    [] k \in {"CIPSHUT", "CIFSR", "CIPSEND"} -> {2}
    [] k \in {"NETOPEN", "CCHSEND", "CMGS"} -> {1, 2}

HasHandler(k) == 2 \in Required(k) \/ k = "ATI"

\* The lines on which the handler calls ATComplete: those with the header it
\* waits for, but any line for +CIFSR, and none for the identification.
Completing(k) ==
  CASE k = "ATI"   -> {}
    [] k = "CIFSR" -> {"Response", "Notice"}
    [] OTHER       -> {"Response"}

\* The lines the modem answers with when it accepts the command.
Accepted(k) ==
  CASE k \in {"AT", "ATI"} -> {"OK"}
    [] k = "CIPCLOSE"      -> {"CLOSE OK"}
    [] k \in {"CIPSHUT", "CIFSR", "CIPSEND"} -> {"Response"}
    [] k \in {"NETOPEN", "CCHSEND", "CMGS"} -> {"OK", "Response"}

\* What travels in the pipes, and the command it belongs to: 0 for what the
\* modem says on its own.
Item(t, i) == [text |-> t, cmd |-> i]

\* OnEvent knows an Event, and does not know a Notice ("RING", "+CMTI", or the
\* text by which the modem identifies itself).
Line == {"OK", "ERROR", "CLOSE OK", "Response", ">", "Event", "Notice",
         "Incoming"}
Sent == Command \cup {"SocketData", "MessageData"}

-----------------------------------------------------------------------------
(* The modem task *)

\* Commands of each part of a session.
Allowed ==
  CASE session = "Start"                -> {"AT"}
    [] session = "Initialize"           -> {"AT", "ATI"}
    [] session = "Up"                   -> Command \ {"ATI"}
    [] session \in {"Down", "Abandoned"} -> {"AT", "CIPSHUT"}
    [] OTHER                            -> {}

\* Slip: ATLock does not look at the status.
NeverRefused == FALSE

Refused == modemStatus = "CommandError"

\* ATLock refuses.
RefuseCommand ==
  /\ pc = "Ready" /\ Allowed # {} /\ Refused
  /\ atResult' = "Failure" /\ returned' = "Failure"
  /\ UNCHANGED <<sessionVars, pc, n, kind, lockVars, atComplete, transmitVars,
                 modemStatus, rxpc, tx, rx, deviceVars>>

\* ATLock, NextATResponse and NextATTransmit, up to the write of the command.
IssueCommand(k) ==
  /\ pc = "Ready" /\ k \in Allowed /\ ~Refused
  /\ n < MaxCommands
  /\ pc' = "Write" /\ n' = n + 1 /\ kind' = k
  /\ locked' = TRUE
  /\ atResult' = "Pending" /\ atComplete' = {}
  /\ atRequire' = Required(k)
  /\ atResponse' = IF HasHandler(k) THEN n' ELSE atResponse
  /\ atTransmitSock' = IF k \in SocketSend THEN n' ELSE atTransmitSock
  /\ atTransmitMsg' = IF k = "CMGS" THEN n' ELSE atTransmitMsg
  /\ verdict' = "None"
  /\ UNCHANGED <<sessionVars, returned, modemStatus, rxpc, tx, rx, device>>

CommandWritten ==
  /\ pc = "Write"
  /\ pc' = "Response"
  /\ tx' = Append(tx, Item(kind, n))
  /\ UNCHANGED <<sessionVars, returned, n, kind, lockVars, resultVars,
                 transmitVars, modemStatus, rxpc, rx, deviceVars>>

\* Slip: a failing path keeps the response handler.
EndCallHandlerKept(r) ==
  /\ pc' = "Ready" /\ returned' = r
  /\ locked' = FALSE
  /\ atResponse' = IF r = "OK" THEN 0 ELSE atResponse
  /\ UNCHANGED <<n, kind, atRequire>>

\* What AT leaves when it is done.
EndCall(r) ==
  /\ pc' = "Ready" /\ returned' = r
  /\ locked' = FALSE /\ atResponse' = 0
  /\ UNCHANGED <<n, kind, atRequire>>

WriteFailed ==
  /\ pc = "Write"
  /\ EndCall("Failure")
  /\ atResult' = "Failure" /\ modemStatus' = "CommandError"
  /\ UNCHANGED <<sessionVars, atComplete, transmitVars, rxpc, tx, rx,
                 deviceVars>>

\* Slip: the wait ends whenever the task is woken up.
WokenUp == TRUE

Answered == atResult # "Pending"

\* The first success ends autobauding.
ResultArrived ==
  /\ pc = "Response" /\ Answered
  /\ EndCall(atResult)
  /\ session' = IF session = "Start" /\ atResult = "OK" THEN "Initialize"
                ELSE session
  /\ UNCHANGED <<misled, resultVars, transmitVars, modemStatus, rxpc, tx, rx,
                 deviceVars>>

ResultTimedOut ==
  /\ pc = "Response" /\ ~Answered
  /\ EndCall("Timeout")
  /\ atResult' = "Timeout" /\ modemStatus' = "CommandError"
  /\ UNCHANGED <<sessionVars, atComplete, transmitVars, rxpc, tx, rx,
                 deviceVars>>

-----------------------------------------------------------------------------
(* The modem task: sessions *)

IdleDevice == [at |-> "Idle", cmd |-> 0, kind |-> "AT", left |-> {}]

\* The pipes are reset, the modem and RxTask start; a first attempt may have
\* failed.
PowerOn ==
  /\ session = "Off"
  /\ session' = "Start" /\ misled' = FALSE
  /\ returned' = "OK"
  /\ modemStatus' \in {modemStatus, "PowerOnFailure"}
  /\ rxpc' = "Read" /\ tx' = <<>> /\ rx' = <<>>
  /\ device' = IdleDevice
  /\ UNCHANGED <<pc, n, kind, lockVars, resultVars, transmitVars, verdict>>

AutobaudFailed ==
  /\ session = "Start" /\ pc = "Ready" /\ returned # "OK"
  /\ session' = "Abandoned" /\ modemStatus' = "AutoBaudFailure"
  /\ UNCHANGED <<misled, callVars, lockVars, resultVars, transmitVars, rxpc,
                 tx, rx, deviceVars>>

\* Initialize returns true after a command that succeeded.
Started ==
  /\ session = "Initialize" /\ pc = "Ready" /\ returned = "OK"
  /\ session' = "Up" /\ modemStatus' = "Ok"
  /\ UNCHANGED <<misled, callVars, lockVars, resultVars, transmitVars, rxpc,
                 tx, rx, deviceVars>>

\* Initialize fails, a later part of the bring-up does, or the modem is left.
Leave ==
  /\ session \in {"Initialize", "Up"} /\ pc = "Ready"
  /\ session' = "Down"
  /\ UNCHANGED <<misled, callVars, lockVars, resultVars, transmitVars,
                 modemStatus, rxpc, tx, rx, deviceVars>>

\* Power is cut: RxTask ends, what was in the pipes is lost.
PowerOff ==
  /\ session \in {"Down", "Abandoned"} /\ pc = "Ready"
  /\ session' = "Off"
  /\ rxpc' = "Stopped" /\ tx' = <<>> /\ rx' = <<>>
  /\ device' = IdleDevice
  /\ UNCHANGED <<misled, callVars, lockVars, resultVars, transmitVars,
                 modemStatus, verdict>>

-----------------------------------------------------------------------------
(* RxTask *)

\* The next line is t.
Reads(t) ==
  /\ rxpc = "Read" /\ rx # <<>>
  /\ Head(rx).text = t
  /\ rx' = Tail(rx)

\* '>': the socket comes first.
OnPrompt ==
  /\ Reads(">")
  /\ rxpc' = IF atTransmitSock # 0 THEN "CopySocket"
             ELSE IF atTransmitMsg # 0 THEN "CopyMessage" ELSE "Read"
  /\ UNCHANGED <<sessionVars, callVars, lockVars, resultVars, transmitVars,
                 modemStatus, tx, deviceVars>>

SocketCopied ==
  /\ rxpc = "CopySocket"
  /\ tx' = Append(tx, Item("SocketData", atTransmitSock))
  /\ atTransmitSock' = 0
  /\ rxpc' = "Read"
  /\ UNCHANGED <<sessionVars, callVars, lockVars, resultVars, atTransmitMsg,
                 modemStatus, rx, deviceVars>>

\* The text and the control character that ends it.
MessageCopied ==
  /\ rxpc = "CopyMessage"
  /\ tx' = Append(tx, Item("MessageData", atTransmitMsg))
  /\ atTransmitMsg' = 0
  /\ rxpc' = "Read"
  /\ UNCHANGED <<sessionVars, callVars, lockVars, resultVars, atTransmitSock,
                 modemStatus, rx, deviceVars>>

\* Slip: one bit too many counts as complete.
ATCompleteLoose(b) ==
  /\ atComplete' = atComplete \cup {b}
  /\ atResult' = "OK"

ATComplete(b) ==
  /\ atComplete' = atComplete \cup {b}
  /\ atResult' = IF atComplete' = atRequire THEN "OK" ELSE atResult

OnOK ==
  /\ Reads("OK")
  /\ IF atResult = "Pending" THEN ATComplete(1) ELSE UNCHANGED resultVars
  /\ UNCHANGED <<sessionVars, callVars, lockVars, transmitVars, modemStatus,
                 rxpc, tx, deviceVars>>

OnError ==
  /\ Reads("ERROR")
  /\ atResult' = IF atResult = "Pending" THEN "Error" ELSE atResult
  /\ UNCHANGED <<sessionVars, callVars, lockVars, atComplete, transmitVars,
                 modemStatus, rxpc, tx, deviceVars>>

\* OnEvent completes whatever is pending (and, with the assertion off, also
\* what is not).
OnCloseOk ==
  /\ Reads("CLOSE OK")
  /\ ATComplete(1)
  /\ UNCHANGED <<sessionVars, callVars, lockVars, transmitVars, modemStatus,
                 rxpc, tx, deviceVars>>

\* A line OnEvent does not know goes to the handler of the pending command,
\* whoever it is from.
HandlerCompletes(t) ==
  atResult = "Pending" /\ atResponse # 0 /\ t \in Completing(kind)

OnResponse ==
  \E t \in {"Response", "Notice"} :
    /\ Reads(t)
    /\ IF HandlerCompletes(t) THEN ATComplete(2) ELSE UNCHANGED resultVars
    /\ misled' = (misled \/ (t = "Notice" /\ HandlerCompletes(t)))
    /\ UNCHANGED <<session, callVars, lockVars, transmitVars, modemStatus,
                   rxpc, tx, deviceVars>>

\* An event of no interest here.
OnEvent ==
  /\ Reads("Event")
  /\ UNCHANGED <<sessionVars, callVars, lockVars, resultVars, transmitVars,
                 modemStatus, rxpc, tx, deviceVars>>

\* A header of incoming data: no line is read until all of it is moved.
OnIncoming ==
  /\ Reads("Incoming")
  /\ rxpc' = "Move"
  /\ UNCHANGED <<sessionVars, callVars, lockVars, resultVars, transmitVars,
                 modemStatus, tx, deviceVars>>

DataMoved ==
  /\ rxpc = "Move"
  /\ rxpc' = "Read"
  /\ UNCHANGED <<sessionVars, callVars, lockVars, resultVars, transmitVars,
                 modemStatus, tx, rx, deviceVars>>

-----------------------------------------------------------------------------
(* The modem (environment) *)

Powered == session # "Off"

Says(t) == rx' = Append(rx, Item(t, device.cmd))

\* Its decision on a command; only the one on the latest command matters.
Decides(v) == verdict' = IF device.cmd = n THEN v ELSE verdict

DeviceTakes ==
  /\ Powered /\ device.at = "Idle" /\ tx # <<>>
  /\ tx' = Tail(tx)
  /\ device' =
       IF Head(tx).text \notin Command THEN device
       ELSE [at |-> IF Head(tx).text \in Prompted THEN "Prompt" ELSE "Decide",
             cmd |-> Head(tx).cmd, kind |-> Head(tx).text, left |-> {}]
  /\ UNCHANGED <<sessionVars, callVars, lockVars, resultVars, transmitVars,
                 modemStatus, rxpc, rx, verdict>>

DevicePrompts ==
  /\ Powered /\ device.at = "Prompt"
  /\ Says(">")
  /\ device' = [device EXCEPT !.at = "Data"]
  /\ UNCHANGED <<sessionVars, callVars, lockVars, resultVars, transmitVars,
                 modemStatus, rxpc, tx, verdict>>

\* Everything that arrives is data now; a message ends with its control
\* character only.
DeviceReceives ==
  /\ Powered /\ device.at = "Data" /\ tx # <<>>
  /\ tx' = Tail(tx)
  /\ device' = IF device.kind \in SocketSend \/ Head(tx).text = "MessageData"
               THEN [device EXCEPT !.at = "Decide"] ELSE device
  /\ UNCHANGED <<sessionVars, callVars, lockVars, resultVars, transmitVars,
                 modemStatus, rxpc, rx, verdict>>

DeviceAccepts ==
  /\ Powered /\ device.at = "Decide"
  /\ device' = [device EXCEPT !.at = "Reply", !.left = Accepted(device.kind)]
  /\ Decides("OK")
  /\ UNCHANGED <<sessionVars, callVars, lockVars, resultVars, transmitVars,
                 modemStatus, rxpc, tx, rx>>

DeviceReplies ==
  /\ Powered /\ device.at = "Reply"
  /\ \E t \in device.left :
       /\ Says(t)
       /\ device' = IF device.left = {t} THEN IdleDevice
                    ELSE [device EXCEPT !.left = @ \ {t}]
  /\ UNCHANGED <<sessionVars, callVars, lockVars, resultVars, transmitVars,
                 modemStatus, rxpc, tx, verdict>>

DeviceRefuses ==
  /\ Powered /\ device.at \in {"Prompt", "Decide"}
  /\ Says("ERROR")
  /\ Decides("Error")
  /\ device' = IdleDevice
  /\ UNCHANGED <<sessionVars, callVars, lockVars, resultVars, transmitVars,
                 modemStatus, rxpc, tx>>

\* It speaks on its own.
DeviceReports ==
  /\ Powered /\ Len(rx) < MaxLines
  /\ \E t \in {"Event", "Notice", "Incoming"} : rx' = Append(rx, Item(t, 0))
  /\ UNCHANGED <<sessionVars, callVars, lockVars, resultVars, transmitVars,
                 modemStatus, rxpc, tx, deviceVars>>

-----------------------------------------------------------------------------

Init ==
  /\ session = "Off" /\ misled = FALSE
  /\ pc = "Ready" /\ returned = "OK"
  /\ n = 0 /\ kind = "AT"
  /\ locked = FALSE /\ atResult = "OK" /\ atResponse = 0
  /\ atComplete = {} /\ atRequire = {}
  /\ atTransmitSock = 0 /\ atTransmitMsg = 0
  /\ modemStatus = "Ok"
  /\ rxpc = "Stopped" /\ tx = <<>> /\ rx = <<>>
  /\ device = IdleDevice /\ verdict = "None"

Call ==
  \/ RefuseCommand \/ CommandWritten \/ WriteFailed
  \/ ResultArrived \/ ResultTimedOut
  \/ \E k \in Command : IssueCommand(k)

Session == PowerOn \/ AutobaudFailed \/ Started \/ Leave \/ PowerOff

RxTask ==
  \/ OnPrompt \/ SocketCopied \/ MessageCopied \/ OnOK \/ OnError
  \/ OnCloseOk \/ OnResponse \/ OnEvent \/ OnIncoming \/ DataMoved

Device ==
  \/ DeviceTakes \/ DevicePrompts \/ DeviceReceives \/ DeviceAccepts
  \/ DeviceReplies \/ DeviceRefuses \/ DeviceReports

Next == Call \/ Session \/ RxTask \/ Device

Spec == Init /\ [][Next]_vars

=============================================================================
