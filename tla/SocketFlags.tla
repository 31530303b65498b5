---------------------------- MODULE SocketFlags ----------------------------
(***************************************************************************)
(* The flag word of a gsm::Socket (Socket.h) and the operations the modem  *)
(* task and the line parser perform on it.  A flag word is the set of the  *)
(* flags that are up; every predicate keeps the shape of the source's      *)
(* "(flags & mask) == value" test.                                         *)
(***************************************************************************)

SocketFlag ==
  { "AppSecure", "AppClose", "AppReference", "CheckIncoming",
    "ModemAllocated", "ModemConnecting", "ModemReference", "ModemConnected",
    "ModemSending", "ModemIncoming", "ModemClosing", "ModemClosed" }

\* The word CreateSocket gives to a new socket.
NewSocket(tls) == {"AppReference"} \cup IF tls THEN {"AppSecure"} ELSE {}

-----------------------------------------------------------------------------
(* Predicates *)

IsConnected(f) == f \cap {"ModemConnected", "ModemClosed"} = {"ModemConnected"}

IsClosed(f) == "ModemClosed" \in f

IsNew(f) == f \ {"AppSecure"} = {"AppReference"}

\* Slip: sockets the application has released are left out.
NeedsCloseHeld(f) ==
  f \cap {"AppReference", "AppClose", "ModemReference", "ModemClosing"}
    = {"AppReference", "AppClose", "ModemReference"}

NeedsClose(f) ==
  f \cap {"AppClose", "ModemReference", "ModemClosing"}
    = {"AppClose", "ModemReference"}

NeedsConnect(f) ==
  f \cap { "AppClose", "AppReference", "ModemAllocated", "ModemReference",
           "ModemConnecting", "ModemClosing", "ModemClosed" }
    = {"ModemAllocated", "AppReference"}

CanSend(f) ==
  f \cap {"ModemConnected", "ModemSending", "ModemClosing", "ModemClosed"}
    = {"ModemConnected"}

DataToSend(f, available) == IsConnected(f) /\ CanSend(f) /\ available

IsSending(f) == "ModemSending" \in f

DataToReceive(f) == "ModemIncoming" \in f

DataToCheck(f) == "CheckIncoming" \in f

\* "room" is InputWriter().CanAllocate(): the receive pipe can grow.
CanReceive(f, room) ==
  /\ f \cap {"ModemConnected", "ModemIncoming", "ModemClosing", "ModemClosed"}
       = {"ModemConnected", "ModemIncoming"}
  /\ room

IsAllocated(f) == "ModemAllocated" \in f

\* Slip: the modem's own reference is forgotten.
CanDeleteEarly(f) == "AppReference" \notin f

CanDelete(f) == f \cap {"AppReference", "ModemReference"} = {}

-----------------------------------------------------------------------------
(* Updates *)

Allocate(f) == f \cup {"ModemAllocated"}

\* Slip: the modem's reference is not counted.
BoundForgotten(f) == f

Bound(f) == f \cup {"ModemReference"}

Connected(f) == (f \ {"ModemConnecting"}) \cup {"ModemConnected"}

Incoming(f) == f \cup {"ModemIncoming"}

MaybeIncoming(f) == f \cup {"CheckIncoming"}

IncomingRequested(f) == f \ {"ModemIncoming", "CheckIncoming"}

Sending(f) == f \cup {"ModemSending"}

\* Slip: the flag stays.
SendingStays(f) == f

SendingFinished(f) == f \ {"ModemSending"}

\* Slip: the connection is forgotten, the socket not marked closed.
FinishedUnmarked(f) ==
  f \ {"ModemConnecting", "ModemReference", "ModemConnected"}

Finished(f) ==
  (f \ {"ModemConnecting", "ModemReference"})
    \cup {"ModemConnected", "ModemClosed"}

\* Socket::Disconnect and the flag part of Modem::ReleaseSocket.
CloseRequested(f) == f \cup {"AppClose"}

Released(f) == (f \ {"AppReference"}) \cup {"AppClose"}

=============================================================================
