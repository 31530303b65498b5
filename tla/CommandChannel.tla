--------------------------- MODULE CommandChannel ---------------------------
(***************************************************************************)
(* What the AT engine promises to the drivers that call AT and ATFormat:   *)
(* commands go to the modem one at a time, the result of a command is the  *)
(* verdict the modem gave on that very command, and once the modem has     *)
(* left one unanswered no command is sent until power has been cut.        *)
(*                                                                         *)
(*   on        the modem has power                                         *)
(*   busy      a command is being executed                                 *)
(*   verdict   what the modem has decided on the latest command            *)
(*   returned  the result given to the caller of the last call             *)
(*   broken    a command was left without an answer, or the channel has    *)
(*             been abandoned                                              *)
(***************************************************************************)

VARIABLES on, busy, verdict, returned, broken

vars == <<on, busy, verdict, returned, broken>>

Init ==
  /\ on = FALSE /\ busy = FALSE /\ broken = FALSE
  /\ verdict = "None" /\ returned = "OK"

Issue ==
  /\ on /\ ~busy /\ ~broken
  /\ busy' = TRUE /\ verdict' = "None"
  /\ UNCHANGED <<on, returned, broken>>

Refuse ==
  /\ on /\ ~busy /\ broken
  /\ returned' = "Failure"
  /\ UNCHANGED <<on, busy, verdict, broken>>

\* The modem decides, in time or too late.
Decide ==
  /\ on /\ verdict = "None"
  /\ verdict' \in {"OK", "Error"}
  /\ UNCHANGED <<on, busy, returned, broken>>

Return ==
  /\ busy /\ verdict # "None"
  /\ busy' = FALSE /\ returned' = verdict
  /\ UNCHANGED <<on, verdict, broken>>

GiveUp ==
  /\ busy
  /\ busy' = FALSE /\ broken' = TRUE
  /\ returned' \in {"Timeout", "Failure"}
  /\ UNCHANGED <<on, verdict>>

\* The caller gives the modem up, or loses count of its answers: what follows
\* is outside the promise.
Abandon ==
  /\ on
  /\ busy' = FALSE /\ verdict' = "None" /\ returned' = "Failure"
  /\ broken' = TRUE
  /\ UNCHANGED on

\* A session with the modem begins or ends, the only repair there is.
Switch ==
  /\ ~busy
  /\ on' = ~on
  /\ verdict' \in {"None", "OK", "Error"}
  /\ returned' \in {"OK", "Error", "Timeout", "Failure"}
  /\ broken' \in BOOLEAN
  /\ UNCHANGED busy

Next ==
  \/ Issue \/ Refuse \/ Decide \/ Return \/ GiveUp \/ Abandon \/ Switch

Spec == Init /\ [][Next]_vars

=============================================================================
