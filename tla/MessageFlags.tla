---------------------------- MODULE MessageFlags ---------------------------
(***************************************************************************)
(* The flag word of a gsm::Message (Message.h), as the set of raised       *)
(* flags.  The source's flag operators + and - raise and clear flags; they *)
(* are also applied to flags that are already up or down (SendingFailed on *)
(* a message that never reached Sending), so they are set operations.      *)
(***************************************************************************)

MessageFlag ==
  {"AppReference", "ModemWillSend", "ModemSending", "ModemSendFailed"}

\* The word SendMessage gives to a new message.
NewMessage == {"AppReference", "ModemWillSend"}

\* Message::Sent, the application's view.
Sent(f) == f \cap {"ModemWillSend", "ModemSendFailed"} # {}

ShouldSend(f) == "ModemWillSend" \in f

IsSending(f) == "ModemSending" \in f

CanDelete(f) == f \cap {"AppReference", "ModemWillSend"} = {}

Sending(f) == f \cup {"ModemSending"}

SendingComplete(f) == f \ {"ModemWillSend", "ModemSending"}

\* Slip: the message stays marked as being sent.
FailedWhileSending(f) == (f \ {"ModemWillSend"}) \cup {"ModemSendFailed"}

SendingFailed(f) ==
  (f \ {"ModemWillSend", "ModemSending"}) \cup {"ModemSendFailed"}

Released(f) == f \ {"AppReference"}

=============================================================================
