----------------------------- MODULE SocketLife -----------------------------
(***************************************************************************)
(* What gsm::Socket and gsm::Modem promise to the application about the    *)
(* life of a socket, whatever the modem, the network and the tasks do:     *)
(* Connect() is answered at most once, a socket that has been closed stays *)
(* closed, and its memory goes only after Release(), never while the modem *)
(* still serves the connection.                                            *)
(*                                                                         *)
(*   stage   "free"       no such object                                   *)
(*           "pending"    created, Connect() not answered                  *)
(*           "connected"  IsConnected() answers true                       *)
(*           "closed"     IsClosed() answers true                          *)
(*   held    the application has not called Release()                      *)
(***************************************************************************)
CONSTANT Socket

VARIABLES stage, held

lifeVars == <<stage, held>>

Stage == {"free", "pending", "connected", "closed"}

Init ==
  /\ stage = [s \in Socket |-> "free"]
  /\ held = {}

Create(s) ==
  /\ stage[s] = "free"
  /\ stage' = [stage EXCEPT ![s] = "pending"]
  /\ held' = held \cup {s}

Release(s) ==
  /\ s \in held
  /\ held' = held \ {s}
  /\ UNCHANGED stage

Connect(s) ==
  /\ stage[s] = "pending"
  /\ stage' = [stage EXCEPT ![s] = "connected"]
  /\ UNCHANGED held

\* One socket, or at power-off every one, is closed.
Close(S) ==
  /\ \A s \in S : stage[s] \in {"pending", "connected", "closed"}
  /\ stage' = [s \in Socket |-> IF s \in S THEN "closed" ELSE stage[s]]
  /\ UNCHANGED held

\* The sockets a pass finds nobody needs.  One released before the modem knew it
\* goes without being closed.
Destroy(S) ==
  /\ \A s \in S : s \notin held /\ stage[s] \in {"pending", "closed"}
  /\ stage' = [s \in Socket |-> IF s \in S THEN "free" ELSE stage[s]]
  /\ UNCHANGED held

Next ==
  \/ \E s \in Socket : Create(s) \/ Release(s) \/ Connect(s)
  \/ \E S \in SUBSET Socket : Close(S) \/ Destroy(S)

Spec == Init /\ [][Next]_lifeVars

=============================================================================
