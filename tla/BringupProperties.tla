-------------------------- MODULE BringupProperties --------------------------
(***************************************************************************)
(* What a session has set up when it lets sockets connect, what it leaves  *)
(* behind, and that there is always another session that succeeds.         *)
(***************************************************************************)
EXTENDS Bringup

\* The kernel runs the driver; the modem announces its SIM; the network takes
\* the modem, and GPRS follows when it is asked for.  A wait that fails is a
\* fault: in the long run the modem is faster than the timeouts.
FairSpec ==
  /\ Spec
  /\ WF_vars(Driver) /\ WF_vars(SimReady)
  /\ \A r \in Registration : WF_vars(Registers(r))

\* As long as commands are sent at all, both sides of the serial line use the
\* same settings, however the modem has answered the commands that change them
\* and whatever it was left with when the processor was reset.
LineAgrees ==
  ~Refused /\ pc \notin {"Off", "RetryDelay", "StartImpl", "PowerOff"} => Heard

Needed(k) == {"PDP", "IP"} \cup IF k = "SIM7600" THEN {"TLS"} ELSE {}

\* NetworkActive lets sockets connect: the session has started the context, the
\* IP stack and, on a SIM7600, TLS, whatever failed on the way or was left
\* running, and what of it does not run now has been ended by the network.  It
\* is no more than that: "+PDP: DEACT" is ignored, and sockets are then served
\* without the services until the session ends.
NetworkReady ==
  pc = "Active" =>
    /\ model = device.kind
    /\ Needed(model) \subseteq device.services \cup device.lost

\* A session that reached the network and leaves it without a failed command
\* has given back everything it, or a session cut short before it, has started.
RadioReleased == pc = "PowerOff" /\ clean => device.services = {}

\* Every session comes to an end or to a network.
SessionEnds == pc = "StartImpl" ~> pc \in {"Active", "Off"}

\* Whatever has gone wrong before, commands that timed out and settings left
\* from before a reset included, a later session reaches the network.
Recovers == []<>(pc = "Active")

=============================================================================
