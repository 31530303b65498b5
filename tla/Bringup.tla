------------------------------- MODULE Bringup -------------------------------
(***************************************************************************)
(* From power-on to a network that sockets can use and back: the modem     *)
(* task's start and end of a session, and gsm::SimComModem's PowerOnImpl,  *)
(* StartImpl, Initialize, UnlockSimImpl, ConnectNetworkImpl, StartGprs,    *)
(* DisconnectNetworkImpl and PowerOffImpl, with the answers and events     *)
(* they wait for, and the modem (environment).                             *)
(*                                                                         *)
(* The driver's functions are mostly lists of commands, each of which ends *)
(* the function when it fails; a list under way is "todo".  A command is   *)
(* one step, with the outcomes module AT gives it.  The statuses of SIM,   *)
(* GSM and TCP, which are only reported to the application, are left out;  *)
(* so is the PIN, as sim.pinRequired is never set and none is ever sent,   *)
(* and the wait for cfun, whose outcome nothing depends on.                *)
(*                                                                         *)
(*   pc, todo, attempts   the driver: the part of the session, the         *)
(*                        commands still to be given, the tries made       *)
(*   model, simReady, registered, gprs      model, sim.ready, the active   *)
(*                        flags of net and gprs, the other flags of gprs   *)
(*   line                 what the USART is set to, unlike at its start    *)
(*   modemStatus          the sticky status                                *)
(*   clean                the network was up in this session and no        *)
(*                        command has failed since                         *)
(*   device               the modem; "lost" is what the network has ended  *)
(*                        and nobody has started again in this session     *)
(*   faults               how often something has gone wrong so far        *)
(***************************************************************************)
EXTENDS Naturals, Sequences

CONSTANTS
  LineOptions,  \* ModemOptions: "flow" (UseFlowControl), "parity" (UseParity)
  Attempts,     \* tries of autobauding and of +CPIN? (10 in the source)
  MaxFaults     \* bound: faults of the modem, the network and the processor

ASSUME BringupAssumption ==
  /\ LineOptions \subseteq {"flow", "parity"}
  /\ Attempts \in Nat \ {0} /\ MaxFaults \in Nat

VARIABLES
  pc, todo, attempts, model, simReady, registered, gprs, line, modemStatus,
  clean, device, faults

knownVars == <<model, simReady, registered, gprs>>
vars == <<pc, todo, attempts, knownVars, line, modemStatus, clean, device,
          faults>>

Model == {"SIM800", "SIM7600"}
Setting == {"flow", "parity", "baud"}
Registration == {"net", "gprs"}
Service == {"GPRS", "PDP", "IP", "TLS"}

-----------------------------------------------------------------------------
(* Commands *)

Identify == <<"E0", "I">>

\* Settings are changed when the modem has agreed to; a refusal is no failure.
Settings ==
  (IF "flow" \in LineOptions THEN <<"IFC">> ELSE <<>>)
    \o (IF "parity" \in LineOptions THEN <<"ICF">> ELSE <<>>) \o <<"IPR">>

Configure ==
  IF model = "SIM800"
  THEN Settings \o <<"GSV", "CMEE", "CSDT", "CREG=2", "CGREG=2", "CLTS",
                     "EXUNSOL", "CR">>
  ELSE Settings \o <<"CMEE", "CREG=2", "CGREG=2", "CTZR", "AUTOCSQ", "CPSI">>

Query == <<"CREG?", "CGREG?", "COPS?", "CSQ">>

StartGprs ==
  IF model = "SIM800"
  THEN <<"CIPMUX", "CIPQSEND", "CGDCONT", "CGACT=1", "CSTT", "CIICR", "CIFSR">>
  ELSE <<"CGDCONT", "CGACT=1", "CGAUTH", "NETOPEN", "CCHSET", "CCHSTART",
         "IPADDR">>

\* What has been activated is deactivated.
Disconnect ==
  (IF "pdpActive" \notin gprs THEN <<>>
   ELSE IF model = "SIM800" THEN <<"CIPSHUT", "CGACT=0">>
   ELSE <<"CCHSTOP", "NETCLOSE">>)
    \o (IF "attached" \in gprs THEN <<"CGATT=0">> ELSE <<>>)

\* The answer to these has a result code of its own, kept in net.error.
HasCode == {"NETOPEN", "CCHSTART", "CCHSTOP", "NETCLOSE"}

\* What a command adds to the services the modem runs, and what it ends.
Starts(c) ==
  CASE c = "CGATT=1" -> {"GPRS"}
    [] c = "CGACT=1" -> {"PDP"}
    [] c \in {"CIICR", "NETOPEN"} -> {"IP"}
    [] c = "CCHSTART" -> {"TLS"}
    [] OTHER -> {}

Ends(c) ==
  CASE c = "CGATT=0" -> {"GPRS"}
    [] c = "CGACT=0" -> {"PDP"}
    [] c = "CIPSHUT" -> {"IP"}
    [] c = "NETCLOSE" -> {"IP", "PDP"}
    [] c = "CCHSTOP" -> {"TLS"}
    [] OTHER -> {}

Sets(c) ==
  CASE c = "IFC" -> {"flow"} [] c = "ICF" -> {"parity"} [] c = "IPR" -> {"baud"}
    [] OTHER -> {}

\* The modem after a command.
Did(c) ==
  [device EXCEPT !.services = (@ \cup Starts(c)) \ Ends(c),
                 !.lost = @ \ Starts(c),
                 !.line = @ \cup Sets(c)]

\* A service that runs cannot be started again.
Able(c) == c \in {"CIICR", "NETOPEN", "CCHSTART"} =>
             Starts(c) \cap device.services = {}

Fault == faults < MaxFaults /\ faults' = faults + 1

\* Both sides use the same settings.
Heard == device.on /\ line = device.line

\* ATLock refuses.
Refused == modemStatus = "CommandError"

\* A command with its outcome r.
Command(c, r) ==
  \/ /\ Refused /\ r = "Failure"
     /\ UNCHANGED <<modemStatus, device, faults>>
  \/ /\ ~Refused /\ Heard /\ Able(c) /\ r = "OK"
     /\ device' = Did(c)
     /\ UNCHANGED <<modemStatus, faults>>
  \/ /\ ~Refused /\ Heard /\ r = "Error"
     /\ IF Able(c) THEN Fault ELSE UNCHANGED faults
     /\ UNCHANGED <<modemStatus, device>>
  \/ /\ ~Refused /\ Heard /\ c \in HasCode /\ r = "CodeError"
     /\ Fault
     /\ UNCHANGED <<modemStatus, device>>
  \/ /\ ~Refused /\ r = "Timeout"
     /\ IF Heard THEN Fault /\ device' \in {device, Did(c)}
        ELSE UNCHANGED <<faults, device>>
     /\ modemStatus' = "CommandError"

Outcome == {"OK", "Error", "CodeError", "Timeout", "Failure"}

-----------------------------------------------------------------------------
(* The driver: power-on and autobauding *)

Goto(p) == pc' = p /\ attempts' = 0

\* The end of a session that does not get further; sockets are finished there.
Fail == Goto("PowerOff") /\ todo' = <<>>

\* It may be on already, after the processor has been reset.
PowerOnImpl ==
  /\ pc \in {"Off", "RetryDelay"}
  /\ Goto("StartImpl")
  /\ device' = [device EXCEPT !.on = TRUE, !.lost = {}]
  /\ line' = {} /\ clean' = FALSE
  /\ UNCHANGED <<todo, knownVars, modemStatus, faults>>

PowerOnFails ==
  /\ pc = "Off" /\ ~device.on /\ Fault
  /\ Goto("RetryDelay")
  /\ modemStatus' = "PowerOnFailure"
  /\ UNCHANGED <<todo, knownVars, line, clean, device>>

PowerOnFailsAgain ==
  /\ pc = "RetryDelay" /\ Fault
  /\ Goto("Off")
  /\ UNCHANGED <<todo, knownVars, line, modemStatus, clean, device>>

Reset ==
  /\ model' = "Unknown" /\ simReady' = FALSE /\ registered' = {} /\ gprs' = {}

\* Slip: attempts are not counted.
NotCounted == UNCHANGED attempts

Counted == attempts' = attempts + 1

\* One attempt; the first that is answered starts Initialize.
Autobaud ==
  /\ pc = "StartImpl" /\ attempts < Attempts
  /\ \E r \in Outcome :
       /\ Command("AT", r)
       /\ IF r = "OK"
          THEN Goto("Identify") /\ todo' = Identify /\ Reset
          ELSE /\ Counted
               /\ UNCHANGED <<pc, todo, knownVars>>
  /\ UNCHANGED <<line, clean>>

\* Slip: the failure is returned, not recorded.
FailureUnrecorded == UNCHANGED modemStatus

FailureRecorded == modemStatus' = "AutoBaudFailure"

AutobaudFails ==
  /\ pc = "StartImpl" /\ attempts = Attempts
  /\ Fail
  /\ FailureRecorded
  /\ UNCHANGED <<knownVars, line, clean, device, faults>>

-----------------------------------------------------------------------------
(* The driver: lists of commands *)

Listing == {"Identify", "Configure", "Query", "StartGprs", "Disconnect"}

\* Slip: net.error is not looked at.
PassesAnyCode(c, r) == r \in {"OK", "CodeError"} \/ Sets(c) # {}

\* The list goes on after the command.
Passes(c, r) == r = "OK" \/ Sets(c) # {} \/ pc = "Disconnect"

\* Slip: the USART is switched whatever the modem has said.
SwitchedAnyway(c, r) == Sets(c)

Switched(c, r) == IF r = "OK" THEN Sets(c) ELSE {}

\* The lines that come with OK.
Learns(c) ==
  /\ model' = IF c = "I" THEN device.kind ELSE model
  /\ registered' = CASE c = "CREG?" -> (registered \ {"net"})
                                         \cup (device.registered \cap {"net"})
                     [] c = "CGREG?" -> (registered \ {"gprs"})
                                         \cup (device.registered \cap {"gprs"})
                     [] OTHER -> registered
  /\ gprs' = IF c = "CGACT=1" THEN gprs \cup {"pdpActive"} ELSE gprs

NextCommand ==
  /\ pc \in Listing /\ todo # <<>>
  /\ LET c == Head(todo) IN
     \E r \in Outcome :
       /\ Command(c, r)
       /\ IF Passes(c, r) THEN todo' = Tail(todo) /\ UNCHANGED <<pc, attempts>>
          ELSE Fail
       /\ line' = line \cup Switched(c, r)
       /\ clean' = (clean /\ r = "OK")
       /\ IF r = "OK" THEN Learns(c) ELSE UNCHANGED <<model, registered, gprs>>
  /\ UNCHANGED simReady

Listed(p) == pc = p /\ todo = <<>>

Identified ==
  /\ Listed("Identify")
  /\ IF model = "Unknown" THEN Fail ELSE Goto("Configure") /\ todo' = Configure
  /\ UNCHANGED <<knownVars, line, modemStatus, clean, device, faults>>

\* The end of Initialize.
Started ==
  /\ Listed("Configure")
  /\ Goto("UnlockSimImpl")
  /\ modemStatus' = "Ok"
  /\ UNCHANGED <<todo, knownVars, line, clean, device, faults>>

-----------------------------------------------------------------------------
(* The driver: SIM and network *)

TriesLeft == attempts + 1 < Attempts

\* A SIM that is not inserted is not asked for again.
UnlockSim ==
  /\ pc = "UnlockSimImpl"
  /\ \E r \in Outcome, inserted \in BOOLEAN :
       /\ Command("CPIN?", r)
       /\ CASE r = "OK" -> Goto("AwaitSim") /\ UNCHANGED todo
            [] r # "OK" /\ inserted /\ TriesLeft ->
                 Counted /\ UNCHANGED <<pc, todo>>
            [] OTHER -> Fail
  /\ UNCHANGED <<knownVars, line, clean>>

SimUnlocked ==
  /\ pc = "AwaitSim" /\ simReady
  /\ Goto("Query") /\ todo' = Query
  /\ UNCHANGED <<knownVars, line, modemStatus, clean, device, faults>>

\* A wait that a session does not survive.
WaitFails ==
  /\ \/ pc = "AwaitSim" /\ ~simReady
     \/ pc = "AwaitNet" /\ "net" \notin registered
     \/ pc = "AwaitAttach" /\ "gprs" \notin registered
  /\ Fault /\ Fail
  /\ UNCHANGED <<knownVars, line, modemStatus, clean, device>>

Queried ==
  /\ Listed("Query")
  /\ Goto("AwaitNet")
  /\ UNCHANGED <<todo, knownVars, line, modemStatus, clean, device, faults>>

NetworkFound ==
  /\ pc = "AwaitNet" /\ "net" \in registered
  /\ Goto("AwaitGprs")
  /\ UNCHANGED <<todo, knownVars, line, modemStatus, clean, device, faults>>

\* GPRS did not come by itself.
AttachGprs ==
  /\ pc = "AwaitGprs" /\ "gprs" \notin registered
  /\ \E r \in Outcome :
       /\ Command("CGATT=1", r)
       /\ IF r = "OK" THEN Goto("AwaitAttach") /\ UNCHANGED todo ELSE Fail
  /\ UNCHANGED <<knownVars, line, clean>>

\* Slip: a GPRS the driver did not attach itself is not its own.
AttachedIfAsked == IF pc = "AwaitAttach" THEN {"attached"} ELSE {}

Attached == {"attached"}

GprsFound ==
  /\ pc \in {"AwaitGprs", "AwaitAttach"} /\ "gprs" \in registered
  /\ gprs' = gprs \cup Attached
  /\ Goto("StartGprs") /\ todo' = StartGprs
  /\ UNCHANGED <<model, simReady, registered, line, modemStatus, clean, device,
                 faults>>

\* NetworkActive is raised: sockets may connect.
NetworkConnected ==
  /\ Listed("StartGprs")
  /\ Goto("Active")
  /\ clean' = TRUE
  /\ UNCHANGED <<todo, knownVars, line, modemStatus, device, faults>>

\* The modem is idle, or a command of a pass has failed.
Leave ==
  /\ pc = "Active"
  /\ Goto("Disconnect") /\ todo' = Disconnect
  /\ gprs' = {}
  /\ \/ UNCHANGED <<modemStatus, clean, faults>>
     \/ Fault /\ modemStatus' = "CommandError" /\ clean' = FALSE
  /\ UNCHANGED <<model, simReady, registered, line, device>>

Disconnected ==
  /\ Listed("Disconnect")
  /\ Fail
  /\ UNCHANGED <<knownVars, line, modemStatus, clean, device, faults>>

OffDevice == [device EXCEPT !.on = FALSE, !.line = {}, !.services = {},
                            !.lost = {}, !.registered = {}]

\* Asked for or not, the power is cut.
PowerOffImpl ==
  /\ pc = "PowerOff"
  /\ Goto("Off")
  /\ \/ Refused /\ UNCHANGED <<modemStatus, faults>>
     \/ ~Refused /\ Heard /\ UNCHANGED <<modemStatus, faults>>
     \/ /\ ~Refused /\ modemStatus' = "CommandError"
        /\ IF Heard THEN Fault ELSE UNCHANGED faults
  /\ device' = OffDevice
  /\ UNCHANGED <<todo, knownVars, line, clean>>

-----------------------------------------------------------------------------
(* The modem and the processor (environment) *)

Running == device.on /\ pc \notin {"Off", "RetryDelay", "StartImpl"}

\* "+CPIN: READY".
SimReady ==
  /\ Running /\ Heard /\ ~simReady
  /\ simReady' = TRUE
  /\ UNCHANGED <<pc, todo, attempts, model, registered, gprs, line,
                 modemStatus, clean, device, faults>>

\* A registration, and its "+CREG" or "+CGREG" if the driver hears it.  GPRS
\* comes with the network or when it is asked for.
Registers(r) ==
  /\ Running /\ r \notin device.registered
  /\ r = "gprs" /\ "GPRS" \notin device.services =>
       "net" \in device.registered /\ pc \notin {"Disconnect", "PowerOff"}
  /\ device' = [device EXCEPT
       !.registered = @ \cup {r},
       !.services = IF r = "gprs" THEN @ \cup {"GPRS"} ELSE @]
  /\ registered' = IF Heard THEN registered \cup {r} ELSE registered
  /\ UNCHANGED <<pc, todo, attempts, model, simReady, gprs, line, modemStatus,
                 clean, faults>>

Deregisters(r) ==
  /\ Running /\ Heard /\ r \in device.registered /\ Fault
  /\ device' = [device EXCEPT !.registered = @ \ {r}]
  /\ registered' = registered \ {r}
  /\ UNCHANGED <<pc, todo, attempts, model, simReady, gprs, line, modemStatus,
                 clean>>

\* What stands on a service, and ends with it.
Upon(s) ==
  CASE s = "PDP" -> {"PDP", "IP", "TLS"} [] s = "IP" -> {"IP", "TLS"}
    [] s = "TLS" -> {"TLS"}

\* The network ends the context ("+PDP: DEACT") or what stands on it, at any
\* time.  The driver does not want to know: its own record of what is active
\* stays, and so does the session.
Deactivates(s) ==
  /\ device.on /\ s \in device.services /\ Fault
  /\ device' = [device EXCEPT
       !.services = @ \ Upon(s),
       !.lost = @ \cup (Upon(s) \cap device.services)]
  /\ UNCHANGED <<pc, todo, attempts, knownVars, line, modemStatus, clean>>

\* The processor is reset; the modem keeps its power or loses it.
Crash ==
  /\ pc # "Off" /\ Fault
  /\ Goto("Off") /\ todo' = <<>> /\ Reset
  /\ line' = {} /\ modemStatus' = "Ok" /\ clean' = FALSE
  /\ device' \in {device, OffDevice}

-----------------------------------------------------------------------------

Init ==
  /\ pc = "Off" /\ todo = <<>> /\ attempts = 0
  /\ model = "Unknown" /\ simReady = FALSE /\ registered = {} /\ gprs = {}
  /\ line = {} /\ modemStatus = "Ok" /\ clean = FALSE
  /\ device \in [on : {FALSE}, kind : Model, line : {{}}, services : {{}},
                 lost : {{}}, registered : {{}}]
  /\ faults = 0

\* What the driver does next.
Driver ==
  \/ PowerOnImpl \/ Autobaud \/ AutobaudFails \/ NextCommand \/ Identified
  \/ Started \/ UnlockSim \/ SimUnlocked \/ Queried \/ NetworkFound
  \/ AttachGprs \/ GprsFound \/ NetworkConnected \/ Disconnected
  \/ PowerOffImpl

Environment ==
  \/ PowerOnFails \/ PowerOnFailsAgain \/ WaitFails \/ Leave \/ SimReady
  \/ \E r \in Registration : Registers(r) \/ Deregisters(r)
  \/ \E s \in {"PDP", "IP", "TLS"} : Deactivates(s)
  \/ Crash

Next == Driver \/ Environment

Spec == Init /\ [][Next]_vars

=============================================================================
