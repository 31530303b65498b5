---------------------------- MODULE ATProperties ----------------------------
(***************************************************************************)
(* What the AT engine guarantees to its callers, the abstract channel it   *)
(* implements, and what the source says of a message's transmission and    *)
(* the code does not keep.                                                 *)
(***************************************************************************)
EXTENDS AT

\* The type of every variable.
TypeOK ==
  /\ session \in {"Off", "Start", "Initialize", "Up", "Down", "Abandoned"}
  /\ misled \in BOOLEAN
  /\ pc \in {"Ready", "Write", "Response"}
  /\ returned \in {"OK", "Error", "Timeout", "Failure"}
  /\ locked \in BOOLEAN
  /\ atResult \in {"Pending", "OK", "Error", "Timeout", "Failure"}
  /\ atComplete \subseteq {1, 2} /\ atRequire \subseteq {1, 2}
  /\ atResponse \in Nat
  /\ atTransmitSock \in Nat /\ atTransmitMsg \in Nat
  /\ modemStatus \in
       {"Ok", "PowerOnFailure", "AutoBaudFailure", "CommandError"}
  /\ n \in Nat /\ kind \in Command
  /\ rxpc \in {"Stopped", "Read", "CopySocket", "CopyMessage", "Move"}
  /\ tx \in Seq([text : Sent, cmd : Nat])
  /\ rx \in Seq([text : Line, cmd : Nat])
  /\ device \in [at : {"Idle", "Prompt", "Data", "Decide", "Reply"},
                 cmd : Nat, kind : Command, left : SUBSET Line]
  /\ verdict \in {"None", "OK", "Error"}

\* Whatever way a call of AT ends, it leaves the lock free and no handler that
\* points into the caller's frame; while it runs, the handler is its own.
HandlerLive ==
  /\ locked <=> pc # "Ready"
  /\ pc = "Ready" => atResponse = 0 /\ atResult # "Pending"
  /\ atResponse # 0 => atResponse = n

\* Neither command i nor an answer to it is on its way.
Silent(i) ==
  /\ \A k \in Command : Item(k, i) \notin Range(tx)
  /\ \A t \in Line : Item(t, i) \notin Range(rx)
  /\ device.at # "Idle" => device.cmd # i

\* The order of the AT protocol is kept: while commands are still sent, nothing
\* said about an earlier command can be taken for an answer to the next one.
\* Not so once autobauding has failed (the power-off command may follow a late
\* OK), nor once +CIFSR has been completed by a line that was not its answer
\* (SimComModem.cpp:598 takes any): the answer comes during the next command.
OneConversation ==
  session # "Abandoned" /\ ~Refused /\ ~misled =>
    \A i \in 1..n : i < n \/ pc \in {"Ready", "Write"} => Silent(i)

\* The requirement mask of every command is what the modem's answer to it
\* completes: a command does not time out on an answer that has been read.
\* (After a +CIFSR that was misled, the OK of another command may be a bit that
\* the mask does not have, and no answer completes it any more.)
AnswerSuffices ==
  /\ pc = "Response" /\ session # "Abandoned" /\ ~misled
  /\ rxpc \in {"Read", "Move"} /\ Silent(n)
  => atResult # "Pending"

\* The AT engine is a command channel, from power-on to the moment the driver
\* gives up autobauding, or takes another line for the answer to +CIFSR.
Abandoned == session = "Abandoned"
Outside   == Abandoned \/ misled

Channel == INSTANCE CommandChannel WITH
  on       <- Powered,
  busy     <- locked /\ ~Outside,
  verdict  <- IF Outside THEN "None" ELSE verdict,
  returned <- IF Outside THEN "Failure" ELSE returned,
  broken   <- Refused \/ Outside

ChannelKept == Channel!Spec

\* "Sets the message which will be transmitted during the AT command"
\* (Modem.h:140): what RxTask transmits at a prompt is what the command that
\* asked for it has set.
MessageTransmitted ==
  device.at = "Data" /\ device.kind = "CMGS" => rxpc # "CopySocket"

=============================================================================
