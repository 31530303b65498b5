------------------------------- MODULE ATProofs -------------------------------
(***************************************************************************)
(* Proofs about the AT engine: its types, that a response handler never    *)
(* outlives its call, that the order of the protocol is kept, that the     *)
(* requirement masks suffice, and that the engine is a command channel.    *)
(***************************************************************************)
EXTENDS ATProperties, TLAPS

LineItem == [text : Line, cmd : Nat]
SentItem == [text : Sent, cmd : Nat]

DeviceState == [at : {"Idle", "Prompt", "Data", "Decide", "Reply"},
                cmd : Nat, kind : Command, left : SUBSET Line]

\* The types of all other variables.
Others ==
  /\ session \in {"Off", "Start", "Initialize", "Up", "Down", "Abandoned"}
  /\ misled \in BOOLEAN
  /\ pc \in {"Ready", "Write", "Response"}
  /\ returned \in {"OK", "Error", "Timeout", "Failure"}
  /\ locked \in BOOLEAN
  /\ atResult \in {"Pending", "OK", "Error", "Timeout", "Failure"}
  /\ atComplete \subseteq {1, 2} /\ atRequire \subseteq {1, 2}
  /\ atResponse \in Nat
  /\ atTransmitSock \in Nat /\ atTransmitMsg \in Nat
  /\ modemStatus \in
       {"Ok", "PowerOnFailure", "AutoBaudFailure", "CommandError"}
  /\ n \in Nat /\ kind \in Command
  /\ rxpc \in {"Stopped", "Read", "CopySocket", "CopyMessage", "Move"}
  /\ verdict \in {"None", "OK", "Error"}

\* What the modem says about a command.
Said == {"OK", "ERROR", "CLOSE OK", "Response", ">"}

\* What has been said and not been read, each thing once.
Waiting(q) == {t \in Said : \E i \in DOMAIN q : q[i].text = t}

SaidOnce(q) ==
  \A i, j \in DOMAIN q : q[i].text \in Said /\ q[i].text = q[j].text => i = j

SaidOf(q, c) == \A i \in DOMAIN q : q[i].cmd = IF q[i].text \in Said THEN c ELSE 0

\* No command has been written twice.
WrittenOnce(q) ==
  \A i, j \in DOMAIN q :
    q[i].text \in Command /\ q[j].text \in Command /\ q[i].cmd = q[j].cmd
      => i = j

\* The bit of the requirement mask a line stands for.
Bit(t) == IF t = "Response" THEN 2 ELSE 1

\* A command is in one place only, and undecided until the modem has it.
Numbered ==
  /\ WrittenOnce(tx)
  /\ \A i \in DOMAIN tx : tx[i].text \in Command =>
       /\ tx[i].cmd <= n
       /\ device.at # "Idle" => device.cmd # tx[i].cmd
       /\ tx[i].cmd = n => pc # "Write" /\ verdict = "None"
  /\ device.at # "Idle" => device.cmd <= n
  /\ pc = "Write" => /\ verdict = "None"
                     /\ device.at # "Idle" => device.cmd # n
  /\ device.at \in {"Prompt", "Data", "Decide"} /\ device.cmd = n =>
       verdict = "None"
  /\ device.at = "Reply" <=> device.left # {}

\* The sticky status: no call is in progress under it, and it is not taken for
\* the success that starts a session.
Sessions ==
  /\ session = "Off" => pc = "Ready"
  /\ pc # "Ready" => ~Refused /\ n # 0
  /\ session = "Initialize" /\ pc = "Ready" /\ returned = "OK" => ~Refused

Orderly == session # "Abandoned" /\ ~Refused /\ ~misled

\* Between calls nothing is on its way.
AtRest ==
  pc \in {"Ready", "Write"} =>
    /\ Waiting(rx) = {} /\ tx = <<>> /\ device.at = "Idle"
    /\ pc = "Write" => atResult = "Pending" /\ atComplete = {}

\* In a call: the command is on its way or with the modem, and not decided.
Undecided ==
  pc = "Response" /\ verdict = "None" =>
    /\ Waiting(rx) \subseteq {">"}
    /\ atComplete = {} /\ atResult = "Pending"
    /\ device.at # "Reply"
    /\ tx # <<>> \/ device.at # "Idle"

\* It has been refused.
Declined ==
  pc = "Response" /\ verdict = "Error" =>
    /\ tx = <<>> /\ device.at = "Idle" /\ atComplete = {}
    /\ \/ atResult = "Pending" /\ Waiting(rx) = {"ERROR"}
       \/ atResult = "Error" /\ Waiting(rx) = {}

\* It has been accepted: what is still to be said and what is still to be read
\* are the bits that are missing.
Granted ==
  pc = "Response" /\ verdict = "OK" =>
    /\ tx = <<>> /\ device.at \in {"Idle", "Reply"}
    /\ Waiting(rx) \cup device.left \subseteq Accepted(kind)
    /\ Waiting(rx) \cap device.left = {}
    /\ atComplete = {Bit(t) : t \in Accepted(kind) \ (Waiting(rx) \cup device.left)}
    /\ atResult = IF atComplete = Required(kind) THEN "OK" ELSE "Pending"

\* One prompt, and its data, at a time.
Prompting ==
  /\ Len(tx) <= 1
  /\ tx # <<>> /\ Head(tx).text \notin Command => device.at = "Data"
  /\ tx # <<>> /\ Head(tx).text \in Command =>
       device.at = "Idle" /\ Head(tx).cmd = n /\ Head(tx).text = kind
  /\ rxpc \in {"CopySocket", "CopyMessage"} => device.at = "Data" /\ tx = <<>>
  /\ ">" \in Waiting(rx) =>
       /\ device.at = "Data" /\ tx = <<>>
       /\ rxpc \notin {"CopySocket", "CopyMessage"}

\* Everything said and done is about the latest command.
Current ==
  /\ SaidOnce(rx) /\ SaidOf(rx, n)
  /\ pc # "Ready" => /\ atRequire = Required(kind)
                     /\ HasHandler(kind) => atResponse = n
  /\ device.at # "Idle" => device.cmd = n /\ device.kind = kind

Talk == Current /\ AtRest /\ Undecided /\ Declined /\ Granted /\ Prompting

Conversation == Orderly => Talk

Inv == TypeOK /\ HandlerLive /\ Numbered /\ Sessions /\ Conversation

-----------------------------------------------------------------------------
(* Sequences of lines, and requirement masks *)

\* What reading the first line does to what waits.
LEMMA ReadLine ==
  ASSUME NEW q \in Seq(LineItem), q # <<>>
  PROVE  /\ Tail(q) \in Seq(LineItem)
         /\ Head(q) \in LineItem
         /\ Head(q).text \in Said => Head(q).text \in Waiting(q)
         /\ SaidOnce(q) => /\ SaidOnce(Tail(q))
                           /\ Waiting(Tail(q)) = Waiting(q) \ {Head(q).text}
         /\ \A c : SaidOf(q, c) => SaidOf(Tail(q), c)
<1>1. /\ Tail(q) \in Seq(LineItem) /\ Head(q) \in LineItem
      /\ Head(q) = q[1] /\ 1 \in DOMAIN q
  OBVIOUS
<1>2. \A i \in DOMAIN Tail(q) : i + 1 \in DOMAIN q /\ Tail(q)[i] = q[i + 1]
  OBVIOUS
<1>3. \A i \in DOMAIN q : i # 1 => i - 1 \in DOMAIN Tail(q) /\ Tail(q)[i - 1] = q[i]
  OBVIOUS
<1>4. DOMAIN q \subseteq Nat /\ DOMAIN Tail(q) \subseteq Nat \ {0}
  OBVIOUS
<1>5. Head(q).text \in Said => Head(q).text \in Waiting(q)
  BY <1>1 DEF Waiting
<1>6. ASSUME SaidOnce(q) PROVE SaidOnce(Tail(q))
  <2>1. SUFFICES ASSUME NEW i \in DOMAIN Tail(q), NEW j \in DOMAIN Tail(q),
                        Tail(q)[i].text \in Said,
                        Tail(q)[i].text = Tail(q)[j].text
                 PROVE  i = j
    BY DEF SaidOnce
  <2>2. i + 1 = j + 1
    BY <1>6, <1>2, <2>1 DEF SaidOnce
  <2>. QED BY <2>2, <1>4
<1>7. ASSUME SaidOnce(q) PROVE Waiting(Tail(q)) = Waiting(q) \ {Head(q).text}
  <2>1. ASSUME NEW t \in Waiting(Tail(q))
        PROVE  t \in Waiting(q) /\ t # Head(q).text
    <3>1. PICK i \in DOMAIN Tail(q) : Tail(q)[i].text = t
      BY <2>1 DEF Waiting
    <3>2. q[i + 1].text = t /\ i + 1 \in DOMAIN q /\ i + 1 # 1 /\ t \in Said
      BY <3>1, <2>1, <1>2, <1>4 DEF Waiting
    <3>. QED BY <3>2, <1>1, <1>7 DEF SaidOnce, Waiting
  <2>2. ASSUME NEW t \in Waiting(q), t # Head(q).text PROVE t \in Waiting(Tail(q))
    <3>1. PICK i \in DOMAIN q : q[i].text = t /\ t \in Said
      BY <2>2 DEF Waiting
    <3>2. i # 1
      BY <3>1, <2>2, <1>1
    <3>. QED BY <3>1, <3>2, <1>3 DEF Waiting
  <2>. QED BY <2>1, <2>2
<1>8. ASSUME NEW c, SaidOf(q, c) PROVE SaidOf(Tail(q), c)
  BY <1>8, <1>2 DEF SaidOf
<1>. QED BY <1>1, <1>5, <1>6, <1>7, <1>8

\* What a new line adds to what waits.
LEMMA AddLine ==
  ASSUME NEW q \in Seq(LineItem), NEW e \in LineItem
  PROVE  /\ Append(q, e) \in Seq(LineItem)
         /\ Waiting(Append(q, e)) = Waiting(q) \cup ({e.text} \cap Said)
         /\ SaidOnce(q) /\ e.text \notin Waiting(q) => SaidOnce(Append(q, e))
         /\ \A c : SaidOf(q, c) /\ e.cmd = (IF e.text \in Said THEN c ELSE 0)
                     => SaidOf(Append(q, e), c)
<1>. DEFINE a == Append(q, e)
<1>1. /\ a \in Seq(LineItem) /\ Len(a) = Len(q) + 1 /\ a[Len(q) + 1] = e
      /\ Len(q) \in Nat
  OBVIOUS
<1>2. DOMAIN q = 1..Len(q) /\ DOMAIN a = 1..Len(q) + 1
  OBVIOUS
<1>3. \A i \in DOMAIN q : i \in DOMAIN a /\ a[i] = q[i] /\ i # Len(q) + 1
  BY <1>2
<1>4. \A i \in DOMAIN a : i \in DOMAIN q \/ i = Len(q) + 1
  BY <1>1, <1>2
<1>5. Len(q) + 1 \in DOMAIN a
  BY <1>1, <1>2
<1>. HIDE DEF a
<1>6. Waiting(a) = Waiting(q) \cup ({e.text} \cap Said)
  BY <1>1, <1>3, <1>4, <1>5 DEF Waiting
<1>7. ASSUME SaidOnce(q), e.text \notin Waiting(q) PROVE SaidOnce(a)
  <2>1. SUFFICES ASSUME NEW i \in DOMAIN a, NEW j \in DOMAIN a,
                        a[i].text \in Said, a[i].text = a[j].text
                 PROVE  i = j
    BY DEF SaidOnce
  <2>2. CASE i \in DOMAIN q /\ j \in DOMAIN q
    BY <1>7, <2>1, <2>2, <1>3 DEF SaidOnce
  <2>3. CASE i \in DOMAIN q /\ j = Len(q) + 1
    BY <1>7, <2>1, <2>3, <1>1, <1>3 DEF Waiting
  <2>4. CASE i = Len(q) + 1 /\ j \in DOMAIN q
    BY <1>7, <2>1, <2>4, <1>1, <1>3 DEF Waiting
  <2>. QED BY <2>2, <2>3, <2>4, <1>4
<1>8. ASSUME NEW c, SaidOf(q, c), e.cmd = (IF e.text \in Said THEN c ELSE 0)
      PROVE  SaidOf(a, c)
  BY <1>8, <1>1, <1>3, <1>4 DEF SaidOf
<1>. QED BY <1>1, <1>6, <1>7, <1>8 DEF a

\* Nothing waits in an empty pipe, and what has been read does not matter.
LEMMA NothingSaid ==
  /\ Waiting(<<>>) = {} /\ SaidOnce(<<>>) /\ \A c : SaidOf(<<>>, c)
  /\ \A q, c, d : Waiting(q) = {} /\ SaidOf(q, c) => SaidOf(q, d)
<1>1. DOMAIN <<>> = {}
  OBVIOUS
<1>. QED BY <1>1 DEF Waiting, SaidOnce, SaidOf

\* The lines that accept a command are the bits it requires.
LEMMA Masks ==
  ASSUME NEW k \in Command
  PROVE  /\ Accepted(k) \subseteq {"OK", "CLOSE OK", "Response"}
         /\ Accepted(k) # {}
         /\ \A t, u \in Accepted(k) : Bit(t) = Bit(u) => t = u
         /\ Required(k) = {Bit(t) : t \in Accepted(k)}
         /\ Required(k) \subseteq {1, 2}
<1>1. CASE k \in {"AT", "ATI"}
  <2>1. Accepted(k) = {"OK"} /\ Required(k) = {1}
    BY <1>1 DEF Accepted, Required
  <2>. QED BY <2>1 DEF Bit
<1>2. CASE k = "CIPCLOSE"
  <2>1. Accepted(k) = {"CLOSE OK"} /\ Required(k) = {1}
    BY <1>2 DEF Accepted, Required
  <2>. QED BY <2>1 DEF Bit
<1>3. CASE k \in {"CIPSHUT", "CIFSR", "CIPSEND"}
  <2>1. Accepted(k) = {"Response"} /\ Required(k) = {2}
    BY <1>3 DEF Accepted, Required
  <2>. QED BY <2>1 DEF Bit
<1>4. CASE k \in {"NETOPEN", "CCHSEND", "CMGS"}
  <2>1. Accepted(k) = {"OK", "Response"} /\ Required(k) = {1, 2}
    BY <1>4 DEF Accepted, Required
  <2>. QED BY <2>1 DEF Bit
<1>. QED BY <1>1, <1>2, <1>3, <1>4 DEF Command

\* A bit is missing as long as a line is.
LEMMA MissingBits ==
  ASSUME NEW k \in Command, NEW X \in SUBSET Accepted(k)
  PROVE  {Bit(t) : t \in Accepted(k) \ X} = Required(k) <=> X = {}
<1>1. ASSUME X = {} PROVE {Bit(t) : t \in Accepted(k) \ X} = Required(k)
  <2>1. Accepted(k) \ X = Accepted(k)
    BY <1>1
  <2>. QED BY <2>1, Masks
<1>2. ASSUME {Bit(t) : t \in Accepted(k) \ X} = Required(k), NEW t \in X
      PROVE  FALSE
  <2>1. t \in Accepted(k) /\ Bit(t) \in Required(k)
    BY Masks
  <2>2. PICK u \in Accepted(k) \ X : Bit(u) = Bit(t)
    BY <2>1, <1>2
  <2>. QED BY <2>1, <2>2, Masks
<1>. QED BY <1>1, <1>2

\* What the modem takes, and what is left.
LEMMA TakeSent ==
  ASSUME NEW q \in Seq(SentItem), q # <<>>
  PROVE  /\ Tail(q) \in Seq(SentItem)
         /\ Head(q) \in SentItem
         /\ 1 \in DOMAIN q /\ Head(q) = q[1]
         /\ \A i \in DOMAIN Tail(q) :
              i + 1 \in DOMAIN q /\ i + 1 # 1 /\ Tail(q)[i] = q[i + 1]
         /\ WrittenOnce(q) => WrittenOnce(Tail(q))
<1>1. /\ Tail(q) \in Seq(SentItem) /\ Head(q) \in SentItem
      /\ 1 \in DOMAIN q /\ Head(q) = q[1]
  OBVIOUS
<1>2. \A i \in DOMAIN Tail(q) :
        i + 1 \in DOMAIN q /\ i + 1 # 1 /\ Tail(q)[i] = q[i + 1] /\ i \in Nat
  OBVIOUS
<1>3. ASSUME WrittenOnce(q) PROVE WrittenOnce(Tail(q))
  <2>1. SUFFICES ASSUME NEW i \in DOMAIN Tail(q), NEW j \in DOMAIN Tail(q),
                        Tail(q)[i].text \in Command,
                        Tail(q)[j].text \in Command,
                        Tail(q)[i].cmd = Tail(q)[j].cmd
                 PROVE  i = j
    BY DEF WrittenOnce
  <2>2. i + 1 = j + 1
    BY <1>3, <1>2, <2>1 DEF WrittenOnce
  <2>. QED BY <2>2, <1>2
<1>. QED BY <1>1, <1>2, <1>3

\* What is sent next.
LEMMA AddSent ==
  ASSUME NEW q \in Seq(SentItem), NEW e \in SentItem
  PROVE  /\ Append(q, e) \in Seq(SentItem)
         /\ \A i \in DOMAIN Append(q, e) :
              \/ i \in DOMAIN q /\ Append(q, e)[i] = q[i]
              \/ Append(q, e)[i] = e
         /\ WrittenOnce(q)
              /\ (e.text \in Command =>
                    \A i \in DOMAIN q :
                      q[i].text \in Command => q[i].cmd # e.cmd)
            => WrittenOnce(Append(q, e))
<1>. DEFINE a == Append(q, e)
<1>1. /\ a \in Seq(SentItem) /\ Len(a) = Len(q) + 1 /\ a[Len(q) + 1] = e
      /\ Len(q) \in Nat
  OBVIOUS
<1>2. DOMAIN q = 1..Len(q) /\ DOMAIN a = 1..Len(q) + 1
  OBVIOUS
<1>3. \A i \in DOMAIN q : i \in DOMAIN a /\ a[i] = q[i] /\ i # Len(q) + 1
  BY <1>2
<1>4. \A i \in DOMAIN a : i \in DOMAIN q \/ i = Len(q) + 1
  BY <1>1, <1>2
<1>. HIDE DEF a
<1>5. ASSUME WrittenOnce(q),
             e.text \in Command =>
               \A i \in DOMAIN q : q[i].text \in Command => q[i].cmd # e.cmd
      PROVE  WrittenOnce(a)
  <2>1. SUFFICES ASSUME NEW i \in DOMAIN a, NEW j \in DOMAIN a,
                        a[i].text \in Command, a[j].text \in Command,
                        a[i].cmd = a[j].cmd
                 PROVE  i = j
    BY DEF WrittenOnce
  <2>2. CASE i \in DOMAIN q /\ j \in DOMAIN q
    BY <1>5, <2>1, <2>2, <1>3 DEF WrittenOnce
  <2>3. CASE i = Len(q) + 1 \/ j = Len(q) + 1
    BY <1>5, <2>1, <2>3, <1>1, <1>3, <1>4
  <2>. QED BY <2>2, <2>3, <1>4
<1>. QED BY <1>1, <1>3, <1>4, <1>5 DEF a

-----------------------------------------------------------------------------
(* Types, handlers and sessions *)

LEMMA IdleTyped == IdleDevice \in DeviceState
BY DEF IdleDevice, DeviceState, Command

LEMMA TypeInit == Init => TypeOK
<1>1. <<>> \in Seq(LineItem) /\ <<>> \in Seq(SentItem)
  OBVIOUS
<1>. SUFFICES ASSUME Init PROVE TypeOK
  OBVIOUS
<1>2. rx \in Seq(LineItem) /\ tx \in Seq(SentItem)
  BY <1>1 DEF Init
<1>3. device \in DeviceState
  BY IdleTyped DEF Init
<1>4. Others
  BY DEF Init, Others, Command
<1>. QED BY <1>2, <1>3, <1>4 DEF TypeOK, Others, LineItem, SentItem, DeviceState

\* Every step keeps the types.
LEMMA TypeStep ==
  ASSUME TypeOK, [Next]_vars PROVE TypeOK'
<1>1. rx \in Seq(LineItem) /\ tx \in Seq(SentItem) /\ device \in DeviceState
  BY DEF TypeOK, LineItem, SentItem, DeviceState
<1>2. SUFFICES /\ rx' \in Seq(LineItem) /\ tx' \in Seq(SentItem)
               /\ device' \in DeviceState
               /\ Others'
  BY DEF TypeOK, Others, LineItem, SentItem, DeviceState
<1>3. Others
  BY DEF TypeOK, Others
<1>. USE DEF sessionVars, callVars, lockVars, resultVars, transmitVars,
             deviceVars
<1>4. \A i \in Nat, t \in Line : Item(t, i) \in LineItem
  BY DEF Item, LineItem
<1>5. \A i \in Nat, t \in Sent : Item(t, i) \in SentItem
  BY DEF Item, SentItem
<1>6. \A e \in LineItem : Append(rx, e) \in Seq(LineItem)
  BY <1>1
<1>7. \A e \in SentItem : Append(tx, e) \in Seq(SentItem)
  BY <1>1
<1>8. rx # <<>> => Tail(rx) \in Seq(LineItem)
  BY <1>1
<1>9. tx # <<>> => Tail(tx) \in Seq(SentItem) /\ Head(tx) \in SentItem
  BY <1>1
<1>10. <<>> \in Seq(LineItem) /\ <<>> \in Seq(SentItem)
  OBVIOUS
<1>11. CASE Call
  <2>1. CASE RefuseCommand
    BY <2>1, <1>1, <1>3 DEF RefuseCommand, Others
  <2>2. CASE CommandWritten
    <3>1. Item(kind, n) \in SentItem
      BY <1>3, <1>5 DEF Others, Sent
    <3>. QED BY <2>2, <3>1, <1>1, <1>3, <1>7 DEF CommandWritten, Others
  <2>3. CASE WriteFailed
    BY <2>3, <1>1, <1>3 DEF WriteFailed, EndCall, Others
  <2>4. CASE ResultArrived
    BY <2>4, <1>1, <1>3 DEF ResultArrived, EndCall, Answered, Others
  <2>5. CASE ResultTimedOut
    BY <2>5, <1>1, <1>3 DEF ResultTimedOut, EndCall, Others
  <2>6. ASSUME NEW k \in Command, IssueCommand(k)
        PROVE  /\ rx' \in Seq(LineItem) /\ tx' \in Seq(SentItem)
               /\ device' \in DeviceState
               /\ Others'
    <3>1. Required(k) \subseteq {1, 2}
      BY Masks
    <3>. QED BY <2>6, <3>1, <1>1, <1>3 DEF IssueCommand, Others
  <2>. QED BY <1>11, <2>1, <2>2, <2>3, <2>4, <2>5, <2>6 DEF Call
<1>12. CASE Session
  <2>1. CASE PowerOn
    BY <2>1, <1>3, <1>10, IdleTyped DEF PowerOn, Others
  <2>2. CASE AutobaudFailed \/ Started \/ Leave
    BY <2>2, <1>1, <1>3 DEF AutobaudFailed, Started, Leave, Others
  <2>3. CASE PowerOff
    BY <2>3, <1>3, <1>10, IdleTyped DEF PowerOff, Others
  <2>. QED BY <1>12, <2>1, <2>2, <2>3 DEF Session
<1>13. CASE RxTask
  <2>1. CASE SocketCopied
    <3>1. Item("SocketData", atTransmitSock) \in SentItem
      BY <1>3, <1>5 DEF Others, Sent
    <3>. QED BY <2>1, <3>1, <1>1, <1>3, <1>7 DEF SocketCopied, Others
  <2>2. CASE MessageCopied
    <3>1. Item("MessageData", atTransmitMsg) \in SentItem
      BY <1>3, <1>5 DEF Others, Sent
    <3>. QED BY <2>2, <3>1, <1>1, <1>3, <1>7 DEF MessageCopied, Others
  <2>3. CASE DataMoved
    BY <2>3, <1>1, <1>3 DEF DataMoved, Others
  <2>4. CASE OnPrompt \/ OnEvent \/ OnIncoming
    BY <2>4, <1>1, <1>3, <1>8 DEF OnPrompt, OnEvent, OnIncoming, Reads, Others
  <2>5. CASE OnOK \/ OnError \/ OnCloseOk
    BY <2>5, <1>1, <1>3, <1>8 DEF OnOK, OnError, OnCloseOk, Reads, ATComplete,
                                  Others
  <2>6. CASE OnResponse
    <3>1. /\ rx # <<>> /\ rx' = Tail(rx) /\ misled' \in BOOLEAN
          /\ ATComplete(2) \/ UNCHANGED resultVars
          /\ UNCHANGED <<session, callVars, lockVars, transmitVars, modemStatus,
                         rxpc, tx, deviceVars>>
      BY <2>6 DEF OnResponse, Reads
    <3>2. /\ atResult' \in {"Pending", "OK", "Error", "Timeout", "Failure"}
          /\ atComplete' \subseteq {1, 2}
      BY <3>1, <1>3 DEF ATComplete, Others
    <3>3. rx' \in Seq(LineItem)
      BY <3>1, <1>8
    <3>. QED BY <3>1, <3>2, <3>3, <1>1, <1>3 DEF Others
  <2>. QED BY <1>13, <2>1, <2>2, <2>3, <2>4, <2>5, <2>6 DEF RxTask
<1>14. CASE Device
  <2>1. \A t \in Line : Says(t) => rx' \in Seq(LineItem)
    BY <1>1, <1>4, <1>6 DEF Says, DeviceState
  <2>2. CASE DeviceTakes
    <3>1. device' \in DeviceState
      <4>1. Head(tx).cmd \in Nat
        BY <2>2, <1>9 DEF DeviceTakes, SentItem
      <4>. QED BY <2>2, <4>1, <1>1 DEF DeviceTakes, DeviceState
    <3>. QED BY <2>2, <3>1, <1>1, <1>3, <1>9 DEF DeviceTakes, Others
  <2>3. CASE DeviceReceives
    <3>1. device' \in DeviceState
      <4>1. [device EXCEPT !.at = "Decide"] \in DeviceState
        BY <1>1 DEF DeviceState
      <4>. QED BY <2>3, <4>1, <1>1 DEF DeviceReceives
    <3>. QED BY <2>3, <3>1, <1>1, <1>3, <1>9 DEF DeviceReceives, Others
  <2>4. CASE DevicePrompts
    <3>1. device' \in DeviceState
      BY <2>4, <1>1 DEF DevicePrompts, DeviceState
    <3>2. ">" \in Line
      BY DEF Line
    <3>3. rx' \in Seq(LineItem)
      BY <2>4, <3>2, <2>1 DEF DevicePrompts
    <3>. QED BY <2>4, <3>1, <3>3, <1>1, <1>3 DEF DevicePrompts, Others
  <2>5. CASE DeviceAccepts
    <3>1. device' \in DeviceState
      <4>1. Accepted(device.kind) \subseteq Line
        BY Masks, <1>1 DEF Line, DeviceState
      <4>. QED BY <2>5, <4>1, <1>1 DEF DeviceAccepts, DeviceState
    <3>. QED BY <2>5, <3>1, <1>1, <1>3 DEF DeviceAccepts, Decides, Others
  <2>6. CASE DeviceReplies
    <3>1. PICK t \in device.left :
            /\ Says(t)
            /\ device' = IF device.left = {t} THEN IdleDevice
                         ELSE [device EXCEPT !.left = @ \ {t}]
      BY <2>6 DEF DeviceReplies
    <3>2. device' \in DeviceState
      BY <3>1, <1>1, IdleTyped DEF DeviceState
    <3>3. t \in Line
      BY <1>1 DEF DeviceState
    <3>. QED BY <2>6, <3>1, <3>2, <3>3, <2>1, <1>1, <1>3 DEF DeviceReplies, Others
  <2>7. CASE DeviceRefuses
    <3>1. "ERROR" \in Line
      BY DEF Line
    <3>2. rx' \in Seq(LineItem)
      BY <2>7, <3>1, <2>1 DEF DeviceRefuses
    <3>3. device' \in DeviceState
      BY <2>7, IdleTyped DEF DeviceRefuses
    <3>. QED BY <2>7, <3>2, <3>3, <1>1, <1>3 DEF DeviceRefuses, Decides, Others
  <2>8. CASE DeviceReports
    <3>1. rx' \in Seq(LineItem)
      BY <2>8, <1>4, <1>6 DEF DeviceReports, Line
    <3>. QED BY <2>8, <3>1, <1>1, <1>3 DEF DeviceReports, Others
  <2>. QED BY <1>14, <2>2, <2>3, <2>4, <2>5, <2>6, <2>7, <2>8 DEF Device
<1>15. CASE UNCHANGED vars
  BY <1>15, <1>1, <1>3 DEF vars, Others
<1>. QED BY <1>11, <1>12, <1>13, <1>14, <1>15 DEF Next

\* Every way out of a call frees the lock and drops the handler.
LEMMA HandlerStep ==
  ASSUME TypeOK, HandlerLive, [Next]_vars PROVE HandlerLive'
<1>. USE DEF HandlerLive, sessionVars, callVars, lockVars, resultVars,
             transmitVars, deviceVars
<1>1. CASE Call
  <2>1. CASE RefuseCommand \/ CommandWritten
    BY <2>1 DEF RefuseCommand, CommandWritten
  <2>2. CASE WriteFailed \/ ResultArrived \/ ResultTimedOut
    BY <2>2 DEF WriteFailed, ResultArrived, ResultTimedOut, EndCall, Answered
  <2>3. ASSUME NEW k \in Command, IssueCommand(k) PROVE HandlerLive'
    BY <2>3 DEF IssueCommand
  <2>. QED BY <1>1, <2>1, <2>2, <2>3 DEF Call
<1>2. CASE Session
  BY <1>2 DEF Session, PowerOn, AutobaudFailed, Started, Leave, PowerOff
<1>3. CASE RxTask
  <2>1. CASE OnPrompt \/ SocketCopied \/ MessageCopied \/ DataMoved
             \/ OnEvent \/ OnIncoming
    BY <2>1 DEF OnPrompt, SocketCopied, MessageCopied, DataMoved, OnEvent,
                OnIncoming
  <2>2. CASE OnOK \/ OnError \/ OnCloseOk \/ OnResponse
    <3>1. UNCHANGED <<pc, n, locked, atResponse>>
      BY <2>2 DEF OnOK, OnError, OnCloseOk, OnResponse
    <3>2. atResult' = "Pending" => atResult = "Pending"
      BY <2>2 DEF OnOK, OnError, OnCloseOk, OnResponse, ATComplete
    <3>. QED BY <3>1, <3>2
  <2>. QED BY <1>3, <2>1, <2>2 DEF RxTask
<1>4. CASE Device
  BY <1>4 DEF Device, DeviceTakes, DevicePrompts, DeviceReceives,
              DeviceAccepts, DeviceReplies, DeviceRefuses, DeviceReports
<1>5. CASE UNCHANGED vars
  BY <1>5 DEF vars
<1>. QED BY <1>1, <1>2, <1>3, <1>4, <1>5 DEF Next

\* A call goes on only while the status lets it.
LEMMA SessionsStep ==
  ASSUME TypeOK, Sessions, [Next]_vars PROVE Sessions'
<1>. USE DEF Sessions, Refused, sessionVars, callVars, lockVars, resultVars,
             transmitVars, deviceVars
<1>1. CASE Call
  <2>1. CASE RefuseCommand \/ CommandWritten
    BY <2>1 DEF RefuseCommand, CommandWritten
  <2>2. CASE WriteFailed \/ ResultTimedOut
    BY <2>2 DEF WriteFailed, ResultTimedOut, EndCall
  <2>3. CASE ResultArrived
    BY <2>3 DEF ResultArrived, EndCall
  <2>4. ASSUME NEW k \in Command, IssueCommand(k) PROVE Sessions'
    <3>1. session # "Off"
      BY <2>4 DEF IssueCommand, Allowed
    <3>2. n' # 0
      BY <2>4 DEF IssueCommand, TypeOK
    <3>. QED BY <2>4, <3>1, <3>2 DEF IssueCommand
  <2>. QED BY <1>1, <2>1, <2>2, <2>3, <2>4 DEF Call
<1>2. CASE Session
  BY <1>2 DEF Session, PowerOn, AutobaudFailed, Started, Leave, PowerOff
<1>3. CASE RxTask
  BY <1>3 DEF RxTask, OnPrompt, SocketCopied, MessageCopied, OnOK, OnError,
              OnCloseOk, OnResponse, OnEvent, OnIncoming, DataMoved
<1>4. CASE Device
  BY <1>4 DEF Device, DeviceTakes, DevicePrompts, DeviceReceives,
              DeviceAccepts, DeviceReplies, DeviceRefuses, DeviceReports
<1>5. CASE UNCHANGED vars
  BY <1>5 DEF vars
<1>. QED BY <1>1, <1>2, <1>3, <1>4, <1>5 DEF Next

-----------------------------------------------------------------------------
(* Numbers *)

\* Every step keeps a command in one place.
LEMMA NumberedStep ==
  ASSUME TypeOK, Numbered, [Next]_vars PROVE Numbered'
<1>1. tx \in Seq(SentItem) /\ device \in DeviceState /\ n \in Nat
  BY DEF TypeOK, SentItem, DeviceState
<1>2. \A i \in DOMAIN tx : tx[i].cmd \in Nat
  <2>1. \A i \in DOMAIN tx : tx[i] \in SentItem
    BY <1>1
  <2>. QED BY <2>1 DEF SentItem
<1>3. device.cmd \in Nat
  BY <1>1 DEF DeviceState
<1>4. WrittenOnce(<<>>)
  BY NothingSaid DEF WrittenOnce, Waiting
<1>. USE DEF sessionVars, callVars, lockVars, resultVars, transmitVars,
             deviceVars
<1>5. CASE Call
  <2>1. CASE RefuseCommand \/ WriteFailed \/ ResultArrived \/ ResultTimedOut
    BY <2>1 DEF Numbered, RefuseCommand, WriteFailed, ResultArrived,
                ResultTimedOut, EndCall
  <2>2. ASSUME NEW k \in Command, IssueCommand(k) PROVE Numbered'
    <3>1. /\ n' = n + 1 /\ pc' = "Write" /\ verdict' = "None"
          /\ UNCHANGED <<tx, device>>
      BY <2>2 DEF IssueCommand
    <3>. QED BY <3>1, <1>1, <1>2, <1>3 DEF Numbered
  <2>3. CASE CommandWritten
    <3>. DEFINE e == Item(kind, n)
    <3>1. e \in SentItem /\ e.text \in Command /\ e.cmd = n
      BY <1>1 DEF Item, SentItem, Sent, TypeOK
    <3>2. /\ pc = "Write" /\ pc' = "Response" /\ tx' = Append(tx, e)
          /\ UNCHANGED <<n, verdict, device>>
      BY <2>3 DEF CommandWritten
    <3>. HIDE DEF e
    <3>3. /\ WrittenOnce(tx')
          /\ \A i \in DOMAIN tx' : \/ i \in DOMAIN tx /\ tx'[i] = tx[i]
                                   \/ tx'[i] = e
      BY <3>1, <3>2, <1>1, AddSent DEF Numbered
    <3>. QED BY <3>1, <3>2, <3>3, <1>1 DEF Numbered
  <2>. QED BY <1>5, <2>1, <2>2, <2>3 DEF Call
<1>6. CASE Session
  <2>1. CASE PowerOn \/ PowerOff
    <3>1. tx' = <<>> /\ device' = IdleDevice /\ UNCHANGED <<pc, n, verdict>>
      BY <2>1 DEF PowerOn, PowerOff
    <3>2. DOMAIN tx' = {}
      BY <3>1
    <3>3. pc = "Write" => verdict = "None"
      BY DEF Numbered
    <3>. QED BY <3>1, <3>2, <3>3, <1>4 DEF Numbered, IdleDevice
  <2>2. CASE AutobaudFailed \/ Started \/ Leave
    BY <2>2 DEF Numbered, AutobaudFailed, Started, Leave
  <2>. QED BY <1>6, <2>1, <2>2 DEF Session
<1>7. CASE RxTask
  <2>1. ASSUME NEW t \in Sent, NEW i \in Nat, t \notin Command,
               tx' = Append(tx, Item(t, i)),
               UNCHANGED <<pc, n, device, verdict>>
        PROVE  Numbered'
    <3>1. Item(t, i) \in SentItem /\ Item(t, i).text \notin Command
      BY <2>1 DEF Item, SentItem
    <3>2. /\ WrittenOnce(tx')
          /\ \A j \in DOMAIN tx' :
               \/ j \in DOMAIN tx /\ tx'[j] = tx[j]
               \/ tx'[j] = Item(t, i)
      BY <2>1, <3>1, <1>1, AddSent DEF Numbered
    <3>. QED BY <2>1, <3>1, <3>2 DEF Numbered
  <2>2. CASE SocketCopied
    BY <2>1, <2>2 DEF SocketCopied, TypeOK, Sent, Command
  <2>3. CASE MessageCopied
    BY <2>1, <2>3 DEF MessageCopied, TypeOK, Sent, Command
  <2>4. CASE OnPrompt \/ DataMoved \/ OnEvent \/ OnIncoming
             \/ OnOK \/ OnError \/ OnCloseOk \/ OnResponse
    BY <2>4 DEF Numbered, OnPrompt, DataMoved, OnEvent, OnIncoming, OnOK,
                OnError, OnCloseOk, OnResponse
  <2>. QED BY <1>7, <2>2, <2>3, <2>4 DEF RxTask
<1>8. CASE Device
  <2>1. tx # <<>> => /\ WrittenOnce(Tail(tx)) /\ 1 \in DOMAIN tx
                     /\ Head(tx) = tx[1]
                     /\ \A i \in DOMAIN Tail(tx) :
                          /\ i + 1 \in DOMAIN tx /\ i + 1 # 1
                          /\ Tail(tx)[i] = tx[i + 1]
    BY <1>1, TakeSent DEF Numbered
  <2>2. CASE DeviceTakes
    <3>1. /\ tx # <<>> /\ tx' = Tail(tx) /\ device.at = "Idle"
          /\ UNCHANGED <<pc, n, verdict>>
      BY <2>2 DEF DeviceTakes
    <3>2. CASE Head(tx).text \notin Command
      BY <2>2, <3>1, <3>2, <2>1 DEF DeviceTakes, Numbered
    <3>3. CASE Head(tx).text \in Command
      <4>1. /\ device'.at \in {"Prompt", "Decide"} /\ device'.cmd = tx[1].cmd
            /\ device'.left = {}
        BY <2>2, <3>1, <3>3, <2>1 DEF DeviceTakes
      <4>2. \A i \in DOMAIN tx : i # 1 /\ tx[i].text \in Command =>
              tx[i].cmd # tx[1].cmd
        BY <3>3, <3>1, <2>1 DEF Numbered, WrittenOnce
      <4>3. /\ tx[1].cmd <= n
            /\ tx[1].cmd = n => pc # "Write" /\ verdict = "None"
        BY <3>3, <3>1, <2>1 DEF Numbered
      <4>4. WrittenOnce(tx')
        BY <3>1, <2>1
      <4>5. ASSUME NEW i \in DOMAIN tx', tx'[i].text \in Command
            PROVE  /\ tx'[i].cmd <= n
                   /\ tx[1].cmd # tx'[i].cmd
                   /\ tx'[i].cmd = n => pc # "Write" /\ verdict = "None"
        BY <4>5, <3>1, <2>1, <4>2 DEF Numbered
      <4>6. pc = "Write" => verdict = "None"
        BY DEF Numbered
      <4>. QED BY <3>1, <4>1, <4>3, <4>4, <4>5, <4>6 DEF Numbered
    <3>. QED BY <3>2, <3>3
  <2>3. CASE DeviceReceives
    <3>1. /\ tx # <<>> /\ tx' = Tail(tx) /\ device.at = "Data"
          /\ UNCHANGED <<pc, n, verdict>>
      BY <2>3 DEF DeviceReceives
    <3>2. /\ device'.at \in {"Data", "Decide"} /\ device'.cmd = device.cmd
          /\ device'.left = device.left
      BY <2>3, <3>1, <1>1 DEF DeviceReceives, DeviceState
    <3>. QED BY <3>1, <3>2, <2>1 DEF Numbered
  <2>4. CASE DevicePrompts
    <3>1. /\ device.at = "Prompt" /\ device'.at = "Data"
          /\ device'.cmd = device.cmd /\ device'.left = device.left
          /\ UNCHANGED <<pc, n, verdict, tx>>
      BY <2>4, <1>1 DEF DevicePrompts, DeviceState
    <3>. QED BY <3>1 DEF Numbered
  <2>5. CASE DeviceAccepts
    <3>1. /\ device.at = "Decide" /\ device'.at = "Reply"
          /\ device'.cmd = device.cmd
          /\ device'.left = Accepted(device.kind)
          /\ verdict' = (IF device.cmd = n THEN "OK" ELSE verdict)
          /\ UNCHANGED <<pc, n, tx>>
      BY <2>5, <1>1 DEF DeviceAccepts, Decides, DeviceState
    <3>2. Accepted(device.kind) # {}
      BY <1>1, Masks DEF DeviceState
    <3>. QED BY <3>1, <3>2 DEF Numbered
  <2>6. CASE DeviceReplies
    <3>1. PICK t \in device.left :
            device' = IF device.left = {t} THEN IdleDevice
                      ELSE [device EXCEPT !.left = @ \ {t}]
      BY <2>6 DEF DeviceReplies
    <3>2. device.at = "Reply" /\ UNCHANGED <<pc, n, tx, verdict>>
      BY <2>6 DEF DeviceReplies
    <3>3. CASE device.left = {t}
      BY <3>1, <3>2, <3>3 DEF Numbered, IdleDevice
    <3>4. CASE device.left # {t}
      <4>1. /\ device'.at = "Reply" /\ device'.cmd = device.cmd
            /\ device'.left = device.left \ {t}
        BY <3>1, <3>2, <3>4, <1>1 DEF DeviceState
      <4>. QED BY <3>2, <3>4, <4>1 DEF Numbered
    <3>. QED BY <3>3, <3>4
  <2>7. CASE DeviceRefuses
    <3>1. /\ device' = IdleDevice /\ UNCHANGED <<pc, n, tx>>
          /\ device.at # "Idle"
          /\ verdict' = (IF device.cmd = n THEN "Error" ELSE verdict)
      BY <2>7 DEF DeviceRefuses, Decides
    <3>. QED BY <3>1 DEF Numbered, IdleDevice
  <2>8. CASE DeviceReports
    BY <2>8 DEF DeviceReports, Numbered
  <2>. QED BY <1>8, <2>2, <2>3, <2>4, <2>5, <2>6, <2>7, <2>8 DEF Device
<1>9. CASE UNCHANGED vars
  BY <1>9 DEF vars, Numbered
<1>. QED BY <1>5, <1>6, <1>7, <1>8, <1>9 DEF Next

-----------------------------------------------------------------------------
(* The conversation *)

\* The typing facts of the pipes and of the modem.
LEMMA Typed ==
  ASSUME TypeOK
  PROVE  /\ rx \in Seq(LineItem) /\ tx \in Seq(SentItem)
         /\ device \in DeviceState /\ n \in Nat /\ kind \in Command
BY DEF TypeOK, LineItem, SentItem, DeviceState

\* Something on its way belongs to the call in progress.
LEMMA InCall ==
  ASSUME TypeOK, Talk,
         device.at # "Idle" \/ Waiting(rx) # {} \/ tx # <<>>
  PROVE  pc = "Response"
BY DEF Talk, AtRest, TypeOK

\* What the modem is still to decide on has no verdict.
LEMMA Unsettled ==
  ASSUME TypeOK, Talk,
         device.at \in {"Prompt", "Data", "Decide"} \/ tx # <<>>
           \/ ">" \in Waiting(rx)
  PROVE  /\ pc = "Response" /\ verdict = "None"
         /\ atComplete = {} /\ atResult = "Pending"
         /\ Waiting(rx) \subseteq {">"}
<1>1. pc = "Response"
  BY InCall
<1>2. device.at \in {"Prompt", "Data", "Decide"} \/ tx # <<>>
  BY DEF Talk, Prompting
<1>3. verdict = "None"
  BY <1>1, <1>2 DEF Talk, Declined, Granted, TypeOK
<1>. QED BY <1>1, <1>3 DEF Talk, Undecided

\* What has been sent is the command, or the data of a prompt, and alone.
LEMMA OneSent ==
  ASSUME TypeOK, Talk, tx # <<>>
  PROVE  Tail(tx) = <<>>
BY Typed DEF Talk, Prompting

\* A step of the call.
LEMMA CallTalks ==
  ASSUME TypeOK, Numbered, Sessions, Talk, Call,
         ~RefuseCommand, ~WriteFailed, ~ResultTimedOut
  PROVE  Talk'
<1>. USE Typed DEF sessionVars, callVars, lockVars, resultVars, transmitVars,
                   deviceVars
<1>1. CASE CommandWritten
  <2>. DEFINE e == Item(kind, n)
  <2>1. /\ pc = "Write" /\ pc' = "Response" /\ tx' = Append(tx, e)
        /\ UNCHANGED <<n, kind, atRequire, atResponse, atResult, atComplete,
                       rxpc, rx, device, verdict>>
    BY <1>1 DEF CommandWritten
  <2>2. /\ Waiting(rx) = {} /\ tx = <<>> /\ device.at = "Idle"
        /\ atResult = "Pending" /\ atComplete = {}
    BY <2>1 DEF Talk, AtRest
  <2>3. verdict = "None"
    BY <2>1 DEF Numbered
  <2>4. Len(tx') = 1 /\ tx' # <<>> /\ Head(tx') = e
    BY <2>1, <2>2
  <2>5. e.text = kind /\ e.cmd = n /\ kind \in Command
    BY DEF Item
  <2>. HIDE DEF e
  <2>6. Current'
    BY <2>1, <2>2 DEF Talk, Current
  <2>7. AtRest' /\ Undecided' /\ Declined' /\ Granted'
    BY <2>1, <2>2, <2>3, <2>4 DEF AtRest, Undecided, Declined, Granted
  <2>8. Prompting'
    BY <2>1, <2>2, <2>4, <2>5 DEF Talk, Prompting
  <2>. QED BY <2>6, <2>7, <2>8 DEF Talk
<1>2. CASE ResultArrived
  <2>1. /\ pc = "Response" /\ pc' = "Ready" /\ atResult # "Pending"
        /\ UNCHANGED <<n, kind, atResult, atComplete, rxpc, tx, rx, device,
                       verdict>>
    BY <1>2 DEF ResultArrived, EndCall, Answered
  <2>2. Waiting(rx) = {} /\ tx = <<>> /\ device.at = "Idle"
    <3>1. CASE verdict = "Error"
      BY <2>1, <3>1 DEF Talk, Declined
    <3>2. CASE verdict = "OK"
      <4>1. /\ tx = <<>> /\ device.at \in {"Idle", "Reply"}
            /\ Waiting(rx) \cup device.left \subseteq Accepted(kind)
            /\ atComplete = {Bit(t) : t \in Accepted(kind) \
                                           (Waiting(rx) \cup device.left)}
            /\ atComplete = Required(kind)
        BY <2>1, <3>2 DEF Talk, Granted
      <4>2. Waiting(rx) \cup device.left = {}
        BY <4>1, MissingBits
      <4>. QED BY <4>1, <4>2 DEF Numbered
    <3>. QED BY <2>1, <3>1, <3>2 DEF Talk, Undecided, TypeOK
  <2>3. Current' /\ Prompting'
    BY <2>1, <2>2 DEF Talk, Current, Prompting
  <2>. QED BY <2>1, <2>2, <2>3
           DEF Talk, AtRest, Undecided, Declined, Granted
<1>3. ASSUME NEW k \in Command, IssueCommand(k) PROVE Talk'
  <2>1. /\ pc = "Ready" /\ pc' = "Write" /\ n' = n + 1 /\ kind' = k
        /\ atResult' = "Pending" /\ atComplete' = {}
        /\ atRequire' = Required(k)
        /\ HasHandler(k) => atResponse' = n'
        /\ UNCHANGED <<rxpc, tx, rx, device>>
    BY <1>3 DEF IssueCommand
  <2>2. Waiting(rx) = {} /\ tx = <<>> /\ device.at = "Idle"
    BY <2>1 DEF Talk, AtRest
  <2>3. SaidOnce(rx') /\ SaidOf(rx', n')
    BY <2>1, <2>2, NothingSaid DEF Talk, Current
  <2>4. Current'
    BY <2>1, <2>2, <2>3 DEF Current
  <2>5. Prompting'
    BY <2>1, <2>2 DEF Talk, Prompting
  <2>. QED BY <2>1, <2>2, <2>4, <2>5
           DEF Talk, AtRest, Undecided, Declined, Granted
<1>. QED BY <1>1, <1>2, <1>3 DEF Call

\* Sessions begin and end with empty pipes.
LEMMA SessionTalks ==
  ASSUME TypeOK, Sessions, Session, Conversation, Orderly'
  PROVE  Talk'
<1>. USE DEF sessionVars, callVars, lockVars, resultVars, transmitVars,
             deviceVars
<1>1. CASE PowerOn \/ PowerOff
  <2>1. /\ tx' = <<>> /\ rx' = <<>> /\ device' = IdleDevice
        /\ rxpc' \in {"Read", "Stopped"} /\ pc' = "Ready"
    BY <1>1 DEF PowerOn, PowerOff, Sessions
  <2>2. Waiting(rx') = {} /\ SaidOnce(rx') /\ SaidOf(rx', n') /\ Len(tx') = 0
    BY <2>1, NothingSaid
  <2>3. device'.at = "Idle"
    BY <2>1 DEF IdleDevice
  <2>. QED BY <2>1, <2>2, <2>3
           DEF Talk, Current, AtRest, Undecided, Declined, Granted, Prompting
<1>2. CASE Started \/ Leave
  <2>1. /\ UNCHANGED <<callVars, lockVars, resultVars, rxpc, tx, rx, deviceVars>>
        /\ session # "Abandoned" /\ misled' = misled
    BY <1>2 DEF Started, Leave
  <2>2. ~Refused /\ ~misled
    BY <1>2, <2>1 DEF Started, Leave, Sessions, Orderly, Refused
  <2>3. Talk
    BY <2>1, <2>2 DEF Conversation, Orderly
  <2>. QED BY <2>1, <2>3
           DEF Talk, Current, AtRest, Undecided, Declined, Granted, Prompting
<1>3. CASE AutobaudFailed
  BY <1>3 DEF AutobaudFailed, Orderly
<1>. QED BY <1>1, <1>2, <1>3 DEF Session

\* An answer that completes a bit of the mask is one of those accepted.
LEMMA AnswerTalks ==
  ASSUME TypeOK, Numbered, Sessions, Talk,
         NEW t \in {"OK", "CLOSE OK", "Response"}, Reads(t),
         ATComplete(Bit(t)) \/ (t \in {"OK", "Response"} /\ atResult # "Pending")
           \/ (t = "Response" /\ (atResponse = 0 \/ kind = "ATI")),
         UNCHANGED <<callVars, lockVars, rxpc, tx, deviceVars>>
  PROVE  Talk'
<1>. USE Typed DEF sessionVars, callVars, lockVars, resultVars, transmitVars,
                   deviceVars
<1>1. /\ t \in Waiting(rx)
      /\ Waiting(rx') = Waiting(rx) \ {t}
      /\ SaidOnce(rx') /\ SaidOf(rx', n)
  <2>1. rx # <<>> /\ Head(rx).text = t /\ rx' = Tail(rx) /\ t \in Said
    BY DEF Reads, Said
  <2>. QED BY <2>1, ReadLine DEF Talk, Current
<1>2. pc = "Response"
  BY <1>1, InCall
<1>3. verdict = "OK"
  BY <1>1, <1>2 DEF Talk, Undecided, Declined, TypeOK
<1>4. /\ tx = <<>> /\ device.at \in {"Idle", "Reply"}
      /\ Waiting(rx) \cup device.left \subseteq Accepted(kind)
      /\ Waiting(rx) \cap device.left = {}
      /\ atComplete = {Bit(u) : u \in Accepted(kind) \
                                     (Waiting(rx) \cup device.left)}
      /\ atResult = IF atComplete = Required(kind) THEN "OK" ELSE "Pending"
  BY <1>2, <1>3 DEF Talk, Granted
<1>5. atResult = "Pending"
  <2>1. Waiting(rx) \cup device.left # {}
    BY <1>1
  <2>. QED BY <1>4, <2>1, MissingBits
<1>6. t = "Response" => atResponse # 0 /\ kind # "ATI"
  <2>1. ASSUME t = "Response" PROVE HasHandler(kind) /\ kind # "ATI"
    <3>1. Bit(t) = 2 /\ t \in Accepted(kind) /\ kind # "ATI"
      BY <1>1, <1>4, <2>1 DEF Bit, Accepted
    <3>2. Required(kind) = {Bit(u) : u \in Accepted(kind)}
      BY Masks
    <3>. QED BY <3>1, <3>2 DEF HasHandler
  <2>. QED BY <2>1, <1>2 DEF Talk, Current, Sessions
<1>7. /\ atComplete' = atComplete \cup {Bit(t)}
      /\ atResult' = IF atComplete' = Required(kind) THEN "OK" ELSE "Pending"
  BY <1>2, <1>5, <1>6 DEF ATComplete, Talk, Current
<1>8. atComplete' = {Bit(u) : u \in Accepted(kind) \
                                      (Waiting(rx') \cup device.left)}
  <2>1. Accepted(kind) \ (Waiting(rx') \cup device.left)
          = (Accepted(kind) \ (Waiting(rx) \cup device.left)) \cup {t}
    BY <1>1, <1>4
  <2>2. {Bit(u) : u \in Accepted(kind) \ (Waiting(rx') \cup device.left)}
          = {Bit(u) : u \in Accepted(kind) \ (Waiting(rx) \cup device.left)}
              \cup {Bit(t)}
    BY <2>1
  <2>. QED BY <2>2, <1>4, <1>7
<1>9. Granted'
  BY <1>1, <1>4, <1>7, <1>8 DEF Granted
<1>10. Current'
  BY <1>1 DEF Talk, Current
<1>11. Prompting'
  BY <1>1, <1>4 DEF Talk, Prompting
<1>12. AtRest' /\ Undecided' /\ Declined'
  BY <1>2, <1>3 DEF AtRest, Undecided, Declined
<1>. QED BY <1>9, <1>10, <1>11, <1>12 DEF Talk

\* A line that is about no command changes nothing.
LEMMA OtherTalks ==
  ASSUME TypeOK, Talk,
         Waiting(rx') = Waiting(rx), SaidOnce(rx'), SaidOf(rx', n),
         UNCHANGED <<callVars, lockVars, resultVars, tx, deviceVars>>,
         rxpc' = rxpc \/ rxpc' \notin {"CopySocket", "CopyMessage"}
  PROVE  Talk'
<1>. USE DEF sessionVars, callVars, lockVars, resultVars, transmitVars,
             deviceVars
<1>1. Current' /\ Prompting'
  BY DEF Talk, Current, Prompting
<1>2. AtRest' /\ Undecided' /\ Declined' /\ Granted'
  BY DEF Talk, AtRest, Undecided, Declined, Granted
<1>. QED BY <1>1, <1>2 DEF Talk

\* A step of the task that reads the lines.
LEMMA RxTalks ==
  ASSUME TypeOK, Numbered, Sessions, Talk, RxTask, ~misled' PROVE Talk'
<1>. USE Typed DEF sessionVars, callVars, lockVars, resultVars, transmitVars,
                   deviceVars
<1>1. CASE OnPrompt
  <2>1. /\ Waiting(rx') = Waiting(rx) \ {">"} /\ ">" \in Waiting(rx)
        /\ SaidOnce(rx') /\ SaidOf(rx', n)
    <3>1. rx # <<>> /\ Head(rx).text = ">" /\ rx' = Tail(rx) /\ ">" \in Said
      BY <1>1 DEF OnPrompt, Reads, Said
    <3>. QED BY <3>1, ReadLine DEF Talk, Current
  <2>2. UNCHANGED <<callVars, lockVars, resultVars, tx, deviceVars>>
    BY <1>1 DEF OnPrompt
  <2>3. pc = "Response" /\ verdict = "None"
    BY <2>1, Unsettled
  <2>4. Current'
    BY <2>1, <2>2 DEF Talk, Current
  <2>5. AtRest' /\ Undecided' /\ Declined' /\ Granted'
    BY <2>1, <2>2, <2>3 DEF Talk, AtRest, Undecided, Declined, Granted
  <2>6. Prompting'
    BY <2>1, <2>2 DEF Talk, Prompting
  <2>. QED BY <2>4, <2>5, <2>6 DEF Talk
<1>2. CASE SocketCopied \/ MessageCopied
  <2>1. PICK e \in {Item("SocketData", atTransmitSock),
                    Item("MessageData", atTransmitMsg)} :
          tx' = Append(tx, e)
    BY <1>2 DEF SocketCopied, MessageCopied
  <2>2. /\ rxpc \in {"CopySocket", "CopyMessage"} /\ rxpc' = "Read"
        /\ UNCHANGED <<callVars, lockVars, resultVars, rx, deviceVars>>
    BY <1>2 DEF SocketCopied, MessageCopied
  <2>3. device.at = "Data" /\ tx = <<>> /\ ">" \notin Waiting(rx)
    BY <2>2 DEF Talk, Prompting
  <2>4. tx' # <<>> /\ Len(tx') = 1 /\ Head(tx') = e
    BY <2>1, <2>3
  <2>5. e.text \notin Command
    BY <2>1 DEF Item, Command
  <2>6. pc = "Response" /\ verdict = "None"
    BY <2>3, Unsettled
  <2>7. Current'
    BY <2>2 DEF Talk, Current
  <2>8. AtRest' /\ Undecided' /\ Declined' /\ Granted'
    BY <2>2, <2>4, <2>6 DEF Talk, AtRest, Undecided, Declined, Granted
  <2>9. Prompting'
    BY <2>2, <2>3, <2>4, <2>5 DEF Prompting
  <2>. QED BY <2>7, <2>8, <2>9 DEF Talk
<1>3. CASE DataMoved
  BY <1>3, OtherTalks DEF DataMoved, Talk, Current
<1>4. CASE OnEvent \/ OnIncoming \/ (OnResponse /\ Reads("Notice"))
  <2>1. PICK t \in {"Event", "Incoming", "Notice"} : Reads(t)
    BY <1>4 DEF OnEvent, OnIncoming
  <2>2. /\ Waiting(rx') = Waiting(rx) \ {t}
        /\ SaidOnce(rx') /\ SaidOf(rx', n)
    BY <2>1, ReadLine DEF Reads, Talk, Current
  <2>3. t \notin Waiting(rx)
    BY DEF Waiting, Said
  <2>4. Waiting(rx') = Waiting(rx)
    BY <2>2, <2>3
  <2>5. /\ UNCHANGED <<callVars, lockVars, resultVars, tx, deviceVars>>
        /\ rxpc' = rxpc \/ rxpc' = "Move"
    BY <1>4 DEF OnEvent, OnIncoming, OnResponse, Reads
  <2>. QED BY <2>2, <2>4, <2>5, OtherTalks
<1>5. CASE OnError
  <2>1. /\ Waiting(rx') = Waiting(rx) \ {"ERROR"} /\ "ERROR" \in Waiting(rx)
        /\ SaidOnce(rx') /\ SaidOf(rx', n)
    <3>1. rx # <<>> /\ Head(rx).text = "ERROR" /\ rx' = Tail(rx) /\ "ERROR" \in Said
      BY <1>5 DEF OnError, Reads, Said
    <3>. QED BY <3>1, ReadLine DEF Talk, Current
  <2>2. /\ UNCHANGED <<callVars, lockVars, atComplete, rxpc, tx, deviceVars>>
        /\ atResult' = IF atResult = "Pending" THEN "Error" ELSE atResult
    BY <1>5 DEF OnError
  <2>3. pc = "Response"
    BY <2>1, InCall
  <2>4. verdict = "Error"
    <3>1. verdict # "None"
      BY <2>1, <2>3 DEF Talk, Undecided
    <3>2. "ERROR" \notin Accepted(kind)
      BY Masks
    <3>3. verdict # "OK"
      BY <2>1, <2>3, <3>2 DEF Talk, Granted
    <3>. QED BY <3>1, <3>3 DEF TypeOK
  <2>5. /\ tx = <<>> /\ device.at = "Idle" /\ atComplete = {}
        /\ atResult = "Pending" /\ Waiting(rx) = {"ERROR"}
    BY <2>1, <2>3, <2>4 DEF Talk, Declined
  <2>6. Current' /\ Prompting'
    BY <2>1, <2>2, <2>5 DEF Talk, Current, Prompting
  <2>7. Declined'
    BY <2>1, <2>2, <2>5 DEF Declined
  <2>8. AtRest' /\ Undecided' /\ Granted'
    BY <2>2, <2>3, <2>4 DEF AtRest, Undecided, Granted
  <2>. QED BY <2>6, <2>7, <2>8 DEF Talk
<1>6. CASE OnOK
  <2>1. Reads("OK") /\ (ATComplete(Bit("OK")) \/ atResult # "Pending")
    BY <1>6 DEF OnOK, Bit
  <2>2. UNCHANGED <<callVars, lockVars, rxpc, tx, deviceVars>>
    BY <1>6 DEF OnOK
  <2>. QED BY <2>1, <2>2, AnswerTalks
<1>7. CASE OnCloseOk
  <2>1. Reads("CLOSE OK") /\ ATComplete(Bit("CLOSE OK"))
    BY <1>7 DEF OnCloseOk, Bit
  <2>2. UNCHANGED <<callVars, lockVars, rxpc, tx, deviceVars>>
    BY <1>7 DEF OnCloseOk
  <2>. QED BY <2>1, <2>2, AnswerTalks
<1>8. CASE OnResponse /\ Reads("Response")
  <2>1. \/ ATComplete(Bit("Response")) \/ atResult # "Pending"
        \/ atResponse = 0 \/ kind = "ATI"
    BY <1>8 DEF OnResponse, Bit, Reads, HandlerCompletes, Completing
  <2>2. UNCHANGED <<callVars, lockVars, rxpc, tx, deviceVars>>
    BY <1>8 DEF OnResponse
  <2>. QED BY <1>8, <2>1, <2>2, AnswerTalks
<1>. QED BY <1>1, <1>2, <1>3, <1>4, <1>5, <1>6, <1>7, <1>8
         DEF RxTask, OnResponse

\* A line of the modem about the command it executes.
LEMMA Speaks ==
  ASSUME TypeOK, Talk, device.at # "Idle",
         NEW t \in Said \ Waiting(rx), Says(t)
  PROVE  /\ Waiting(rx') = Waiting(rx) \cup {t}
         /\ SaidOnce(rx') /\ SaidOf(rx', n)
<1>. DEFINE e == Item(t, device.cmd)
<1>1. e.text = t /\ e.cmd = n /\ rx' = Append(rx, e)
  BY DEF Item, Says, Talk, Current
<1>2. e \in LineItem
  BY Typed DEF Item, LineItem, Line, Said, DeviceState
<1>. HIDE DEF e
<1>3. rx \in Seq(LineItem) /\ SaidOnce(rx) /\ SaidOf(rx, n)
  BY Typed DEF Talk, Current
<1>. QED BY <1>1, <1>2, <1>3, AddLine

\* A step of the modem.
LEMMA DeviceTalks ==
  ASSUME TypeOK, Numbered, Sessions, Talk, Device PROVE Talk'
<1>. USE Typed DEF sessionVars, callVars, lockVars, resultVars, transmitVars,
                   deviceVars
<1>1. CASE DeviceTakes
  <2>1. /\ device.at = "Idle" /\ tx # <<>> /\ tx' = Tail(tx)
        /\ UNCHANGED <<callVars, lockVars, resultVars, rxpc, rx, verdict>>
    BY <1>1 DEF DeviceTakes
  <2>2. Head(tx).text = kind /\ Head(tx).cmd = n /\ tx' = <<>>
    BY <2>1, OneSent DEF Talk, Prompting
  <2>3. /\ device'.at \in {"Prompt", "Decide"} /\ device'.cmd = n
        /\ device'.kind = kind
    BY <1>1, <2>2 DEF DeviceTakes
  <2>4. pc = "Response" /\ verdict = "None"
    BY <2>1, Unsettled
  <2>5. Current'
    BY <2>1, <2>3 DEF Talk, Current
  <2>6. AtRest' /\ Undecided' /\ Declined' /\ Granted'
    BY <2>1, <2>3, <2>4 DEF Talk, AtRest, Undecided, Declined, Granted
  <2>7. Prompting'
    BY <2>1, <2>2 DEF Talk, Prompting
  <2>. QED BY <2>5, <2>6, <2>7 DEF Talk
<1>2. CASE DevicePrompts
  <2>1. /\ device.at = "Prompt" /\ Says(">")
        /\ UNCHANGED <<callVars, lockVars, resultVars, rxpc, tx, verdict>>
    BY <1>2 DEF DevicePrompts
  <2>2. /\ device'.at = "Data" /\ device'.cmd = device.cmd
        /\ device'.kind = device.kind
    BY <1>2 DEF DevicePrompts, DeviceState
  <2>3. tx = <<>> /\ ">" \notin Waiting(rx)
          /\ rxpc \notin {"CopySocket", "CopyMessage"}
    BY <2>1 DEF Talk, Prompting
  <2>4. /\ Waiting(rx') = Waiting(rx) \cup {">"}
        /\ SaidOnce(rx') /\ SaidOf(rx', n)
    BY <2>1, <2>3, Speaks DEF Said
  <2>5. pc = "Response" /\ verdict = "None"
    BY <2>1, Unsettled
  <2>6. Current'
    BY <2>1, <2>2, <2>4 DEF Talk, Current
  <2>7. AtRest' /\ Undecided' /\ Declined' /\ Granted'
    BY <2>1, <2>2, <2>4, <2>5 DEF Talk, AtRest, Undecided, Declined, Granted
  <2>8. Prompting'
    BY <2>1, <2>2, <2>3 DEF Prompting
  <2>. QED BY <2>6, <2>7, <2>8 DEF Talk
<1>3. CASE DeviceReceives
  <2>1. /\ device.at = "Data" /\ tx # <<>> /\ tx' = Tail(tx)
        /\ UNCHANGED <<callVars, lockVars, resultVars, rxpc, rx, verdict>>
    BY <1>3 DEF DeviceReceives
  <2>2. /\ device'.at \in {"Data", "Decide"} /\ device'.cmd = device.cmd
        /\ device'.kind = device.kind
    BY <1>3, <2>1 DEF DeviceReceives, DeviceState
  <2>3. tx' = <<>> /\ ">" \notin Waiting(rx)
          /\ rxpc \notin {"CopySocket", "CopyMessage"}
    BY <2>1, OneSent DEF Talk, Prompting
  <2>4. pc = "Response" /\ verdict = "None"
    BY <2>1, Unsettled
  <2>5. Current'
    BY <2>1, <2>2 DEF Talk, Current
  <2>6. AtRest' /\ Undecided' /\ Declined' /\ Granted'
    BY <2>1, <2>2, <2>4 DEF Talk, AtRest, Undecided, Declined, Granted
  <2>7. Prompting'
    <3>1. Len(tx') = 0
      BY <2>3
    <3>2. ">" \notin Waiting(rx')
      BY <2>1, <2>3
    <3>3. rxpc' \notin {"CopySocket", "CopyMessage"}
      BY <2>1, <2>3
    <3>. QED BY <2>3, <3>1, <3>2, <3>3 DEF Prompting
  <2>. QED BY <2>5, <2>6, <2>7 DEF Talk
<1>4. CASE DeviceAccepts
  <2>1. /\ device.at = "Decide" /\ Decides("OK")
        /\ UNCHANGED <<callVars, lockVars, resultVars, rxpc, tx, rx>>
    BY <1>4 DEF DeviceAccepts
  <2>2. /\ device'.at = "Reply" /\ device'.cmd = device.cmd
        /\ device'.kind = device.kind /\ device'.left = Accepted(device.kind)
    BY <1>4 DEF DeviceAccepts, DeviceState
  <2>3. device.cmd = n /\ device.kind = kind /\ verdict' = "OK"
    BY <2>1 DEF Talk, Current, Decides
  <2>4. /\ pc = "Response" /\ atComplete = {} /\ atResult = "Pending"
        /\ Waiting(rx) \subseteq {">"}
    BY <2>1, Unsettled
  <2>5. /\ tx = <<>> /\ Waiting(rx) = {}
        /\ rxpc \notin {"CopySocket", "CopyMessage"}
    BY <2>1, <2>4 DEF Talk, Prompting
  <2>6. Current' /\ Prompting'
    BY <2>1, <2>2, <2>5 DEF Talk, Current, Prompting
  <2>7. Granted'
    <3>1. atComplete # Required(kind)
      <4>1. PICK t \in Accepted(kind) : TRUE
        BY Masks
      <4>2. Required(kind) = {Bit(u) : u \in Accepted(kind)}
        BY Masks
      <4>. QED BY <2>4, <4>1, <4>2
    <3>. QED BY <2>1, <2>2, <2>3, <2>4, <2>5, <3>1 DEF Granted
  <2>8. AtRest' /\ Undecided' /\ Declined'
    BY <2>1, <2>3, <2>4 DEF AtRest, Undecided, Declined
  <2>. QED BY <2>6, <2>7, <2>8 DEF Talk
<1>5. CASE DeviceReplies
  <2>1. PICK t \in device.left :
          /\ Says(t)
          /\ device' = IF device.left = {t} THEN IdleDevice
                       ELSE [device EXCEPT !.left = @ \ {t}]
    BY <1>5 DEF DeviceReplies
  <2>2. /\ device.at = "Reply"
        /\ UNCHANGED <<callVars, lockVars, resultVars, rxpc, tx, verdict>>
    BY <1>5 DEF DeviceReplies
  <2>3. pc = "Response"
    BY <2>2, InCall
  <2>4. verdict = "OK"
    BY <2>2, <2>3 DEF Talk, Undecided, Declined, TypeOK
  <2>5. /\ tx = <<>>
        /\ Waiting(rx) \cup device.left \subseteq Accepted(kind)
        /\ Waiting(rx) \cap device.left = {}
        /\ atComplete = {Bit(u) : u \in Accepted(kind) \
                                       (Waiting(rx) \cup device.left)}
        /\ atResult = IF atComplete = Required(kind) THEN "OK" ELSE "Pending"
    BY <2>3, <2>4 DEF Talk, Granted
  <2>6. t \in Said \ Waiting(rx) /\ t # ">"
    BY <2>1, <2>5, Masks DEF Said
  <2>7. /\ Waiting(rx') = Waiting(rx) \cup {t}
        /\ SaidOnce(rx') /\ SaidOf(rx', n)
    BY <2>1, <2>2, <2>6, Speaks
  <2>8. /\ device'.at \in {"Idle", "Reply"}
        /\ device'.left = device.left \ {t}
        /\ device'.at # "Idle" =>
             device'.cmd = device.cmd /\ device'.kind = device.kind
    BY <2>1, <2>2 DEF IdleDevice, DeviceState
  <2>9. Current'
    BY <2>2, <2>7, <2>8 DEF Talk, Current
  <2>10. Granted'
    <3>1. Waiting(rx') \cup device'.left = Waiting(rx) \cup device.left
      BY <2>1, <2>7, <2>8
    <3>2. Waiting(rx') \cap device'.left = {}
      BY <2>5, <2>7, <2>8
    <3>. QED BY <2>2, <2>5, <2>8, <3>1, <3>2 DEF Granted
  <2>11. Prompting'
    BY <2>2, <2>5, <2>6, <2>7 DEF Talk, Prompting
  <2>12. AtRest' /\ Undecided' /\ Declined'
    BY <2>2, <2>3, <2>4 DEF AtRest, Undecided, Declined
  <2>. QED BY <2>9, <2>10, <2>11, <2>12 DEF Talk
<1>6. CASE DeviceRefuses
  <2>1. /\ device.at \in {"Prompt", "Decide"} /\ Says("ERROR")
        /\ Decides("Error") /\ device' = IdleDevice
        /\ UNCHANGED <<callVars, lockVars, resultVars, rxpc, tx>>
    BY <1>6 DEF DeviceRefuses
  <2>2. verdict' = "Error" /\ device'.at = "Idle"
    BY <2>1 DEF Talk, Current, Decides, IdleDevice
  <2>3. /\ pc = "Response" /\ atComplete = {} /\ atResult = "Pending"
        /\ Waiting(rx) \subseteq {">"}
    BY <2>1, Unsettled
  <2>4. /\ tx = <<>> /\ Waiting(rx) = {}
        /\ rxpc \notin {"CopySocket", "CopyMessage"}
    BY <2>1, <2>3 DEF Talk, Prompting
  <2>5. /\ Waiting(rx') = {"ERROR"} /\ SaidOnce(rx') /\ SaidOf(rx', n)
    <3>1. "ERROR" \in Said \ Waiting(rx)
      BY <2>4 DEF Said
    <3>2. Waiting(rx') = Waiting(rx) \cup {"ERROR"}
            /\ SaidOnce(rx') /\ SaidOf(rx', n)
      BY <2>1, <3>1, Speaks
    <3>. QED BY <3>2, <2>4
  <2>6. Current'
    BY <2>1, <2>2, <2>5 DEF Talk, Current
  <2>7. Prompting'
    BY <2>1, <2>4, <2>5 DEF Prompting
  <2>8. AtRest' /\ Undecided' /\ Declined' /\ Granted'
    BY <2>1, <2>2, <2>3, <2>4, <2>5 DEF AtRest, Undecided, Declined, Granted
  <2>. QED BY <2>6, <2>7, <2>8 DEF Talk
<1>7. CASE DeviceReports
  <2>1. PICK t \in {"Event", "Notice", "Incoming"} :
          rx' = Append(rx, Item(t, 0))
    BY <1>7 DEF DeviceReports
  <2>2. /\ Item(t, 0) \in LineItem /\ Item(t, 0).text \notin Said
        /\ Item(t, 0).cmd = 0
    BY DEF Item, LineItem, Line, Said
  <2>3. {Item(t, 0).text} \cap Said = {} /\ Item(t, 0).text \notin Waiting(rx)
    BY <2>2 DEF Waiting
  <2>4. Waiting(rx') = Waiting(rx) /\ SaidOnce(rx') /\ SaidOf(rx', n)
    BY <2>1, <2>2, <2>3, AddLine DEF Talk, Current
  <2>5. UNCHANGED <<callVars, lockVars, resultVars, tx, rxpc, deviceVars>>
    BY <1>7 DEF DeviceReports
  <2>. QED BY <2>4, <2>5, OtherTalks
<1>. QED BY <1>1, <1>2, <1>3, <1>4, <1>5, <1>6, <1>7 DEF Device

\* Every step keeps the order of the protocol.
LEMMA ConversationStep ==
  ASSUME Inv, [Next]_vars PROVE Conversation'
<1>1. SUFFICES ASSUME Orderly' PROVE Talk'
  BY DEF Conversation
<1>. USE DEF Inv, sessionVars, callVars, lockVars, resultVars, transmitVars,
             deviceVars
<1>2. CASE Session
  BY <1>1, <1>2, SessionTalks
<1>3. CASE RefuseCommand \/ WriteFailed \/ ResultTimedOut
  BY <1>1, <1>3 DEF RefuseCommand, WriteFailed, ResultTimedOut, Orderly, Refused
<1>4. CASE Call /\ ~RefuseCommand /\ ~WriteFailed /\ ~ResultTimedOut
  <2>1. Orderly
    BY <1>1, <1>4 DEF Call, CommandWritten, ResultArrived, IssueCommand,
                      Orderly, Refused
  <2>. QED BY <2>1, <1>4, CallTalks DEF Conversation
<1>5. CASE RxTask
  <2>1. Orderly
    <3>1. CASE OnResponse
      <4>1. UNCHANGED <<session, modemStatus>> /\ (misled => misled')
        BY <3>1 DEF OnResponse
      <4>. QED BY <1>1, <4>1 DEF Orderly, Refused
    <3>2. CASE ~OnResponse
      <4>1. UNCHANGED <<session, misled, modemStatus>>
        BY <1>5, <3>2
           DEF RxTask, OnPrompt, SocketCopied, MessageCopied, OnOK, OnError,
               OnCloseOk, OnEvent, OnIncoming, DataMoved
      <4>. QED BY <1>1, <4>1 DEF Orderly, Refused
    <3>. QED BY <3>1, <3>2
  <2>. QED BY <1>1, <2>1, <1>5, RxTalks DEF Conversation, Orderly
<1>6. CASE Device
  <2>1. Orderly
    BY <1>1, <1>6 DEF Device, DeviceTakes, DevicePrompts, DeviceReceives,
                      DeviceAccepts, DeviceReplies, DeviceRefuses,
                      DeviceReports, Orderly, Refused
  <2>. QED BY <2>1, <1>6, DeviceTalks DEF Conversation
<1>7. CASE UNCHANGED vars
  <2>1. UNCHANGED vars /\ Orderly
    BY <1>1, <1>7 DEF vars, Orderly, Refused
  <2>. QED BY <2>1 DEF vars, Conversation, Talk, Current, AtRest, Undecided,
                       Declined, Granted, Prompting
<1>. QED BY <1>2, <1>3, <1>4, <1>5, <1>6, <1>7 DEF Next, Call

\* The inductive invariant holds.
THEOREM Invariance == Spec => []Inv
<1>1. Init => Inv
  <2>. SUFFICES ASSUME Init PROVE Inv
    OBVIOUS
  <2>1. TypeOK
    BY TypeInit
  <2>2. /\ pc = "Ready" /\ tx = <<>> /\ rx = <<>> /\ DOMAIN tx = {} /\ Len(tx) = 0
        /\ device.at = "Idle" /\ device.left = {} /\ rxpc = "Stopped"
        /\ locked = FALSE /\ atResponse = 0 /\ atResult = "OK"
        /\ session = "Off"
    BY DEF Init, IdleDevice
  <2>3. HandlerLive /\ Sessions
    BY <2>2 DEF HandlerLive, Sessions
  <2>4. Numbered
    BY <2>2 DEF Numbered, WrittenOnce
  <2>5. Talk
    BY <2>2, NothingSaid
       DEF Talk, Current, AtRest, Undecided, Declined, Granted, Prompting
  <2>. QED BY <2>1, <2>3, <2>4, <2>5 DEF Inv, Conversation
<1>2. Inv /\ [Next]_vars => Inv'
  BY TypeStep, HandlerStep, SessionsStep, NumberedStep, ConversationStep DEF Inv
<1>. QED BY <1>1, <1>2, PTL DEF Spec

-----------------------------------------------------------------------------
(* What follows *)

\* The types of AT.tla hold.
THEOREM TypeCorrect == Spec => []TypeOK
BY Invariance, PTL DEF Inv

\* No call of AT leaves its lock or its handler behind.
THEOREM HandlersLive == Spec => []HandlerLive
BY Invariance, PTL DEF Inv

\* What the pipes hold is what the conversation knows of.
LEMMA Heard ==
  ASSUME TypeOK, Talk, NEW t \in Line, NEW i \in Nat \ {0},
         Item(t, i) \in Range(rx)
  PROVE  i = n /\ Waiting(rx) # {}
<1>1. PICK j \in DOMAIN rx : rx[j] = Item(t, i)
  BY DEF Range
<1>2. rx[j].text = t /\ rx[j].cmd = i
  BY <1>1 DEF Item
<1>3. t \in Said /\ i = n
  BY <1>2 DEF Talk, Current, SaidOf
<1>. QED BY <1>1, <1>2, <1>3 DEF Waiting

LEMMA Written ==
  ASSUME TypeOK, Talk, NEW k \in Command, NEW i \in Nat,
         Item(k, i) \in Range(tx)
  PROVE  i = n /\ tx # <<>>
<1>1. PICK j \in DOMAIN tx : tx[j] = Item(k, i)
  BY DEF Range
<1>2. tx[j].text \in Command /\ tx[j].cmd = i
  BY <1>1 DEF Item
<1>3. j = 1 /\ tx # <<>> /\ Head(tx) = tx[1]
  BY Typed DEF Talk, Prompting
<1>. QED BY <1>2, <1>3 DEF Talk, Prompting

\* The order of the protocol is kept.
THEOREM ConversationKept == Spec => []OneConversation
<1>1. Inv => OneConversation
  <2>1. SUFFICES ASSUME Inv, Orderly, NEW i \in 1..n,
                        i < n \/ pc \in {"Ready", "Write"}
                 PROVE  Silent(i)
    BY DEF OneConversation, Orderly
  <2>2. TypeOK /\ Talk /\ n \in Nat /\ i \in Nat \ {0}
    BY <2>1, Typed DEF Inv, Conversation
  <2>3. i = n => Waiting(rx) = {} /\ tx = <<>> /\ device.at = "Idle"
    BY <2>1, <2>2 DEF Talk, AtRest
  <2>4. \A k \in Command : Item(k, i) \notin Range(tx)
    BY <2>2, <2>3, Written
  <2>5. \A t \in Line : Item(t, i) \notin Range(rx)
    BY <2>2, <2>3, Heard
  <2>6. device.at # "Idle" => device.cmd # i
    BY <2>1, <2>2, <2>3 DEF Talk, Current
  <2>. QED BY <2>4, <2>5, <2>6 DEF Silent
<1>. QED BY <1>1, Invariance, PTL

\* The requirement masks are what the answers complete.
THEOREM MasksSuffice == Spec => []AnswerSuffices
<1>1. Inv => AnswerSuffices
  <2>1. SUFFICES ASSUME Inv, pc = "Response", session # "Abandoned",
                        ~misled, Silent(n)
                 PROVE  atResult # "Pending"
    BY DEF AnswerSuffices
  <2>2. TypeOK /\ Talk /\ Numbered /\ n \in Nat \ {0}
    BY <2>1, Typed DEF Inv, Conversation, Orderly, Sessions
  <2>3. device.at = "Idle"
    BY <2>1, <2>2 DEF Silent, Talk, Current
  <2>4. Waiting(rx) = {}
    <3>1. ASSUME NEW t \in Waiting(rx) PROVE FALSE
      <4>1. PICK j \in DOMAIN rx : rx[j].text = t /\ t \in Said
        BY <3>1 DEF Waiting
      <4>2. rx[j].cmd = n /\ rx[j] \in LineItem
        BY <2>2, <4>1, Typed DEF Talk, Current, SaidOf
      <4>3. rx[j] = Item(t, n) /\ t \in Line
        BY <4>1, <4>2 DEF LineItem, Item
      <4>. QED BY <2>1, <4>3 DEF Silent, Range
    <3>. QED BY <3>1
  <2>5. tx = <<>>
    <3>1. SUFFICES ASSUME tx # <<>> PROVE FALSE
      OBVIOUS
    <3>2. /\ 1 \in DOMAIN tx /\ Head(tx) = tx[1] /\ tx[1] \in SentItem
      BY <3>1, <2>2, Typed, TakeSent
    <3>3. tx[1].text \in Command /\ tx[1].cmd = n
      BY <3>1, <3>2, <2>2, <2>3 DEF Talk, Prompting
    <3>4. tx[1] = Item(tx[1].text, n)
      BY <3>2, <3>3 DEF SentItem, Item
    <3>. QED BY <2>1, <3>2, <3>3, <3>4 DEF Silent, Range
  <2>6. CASE verdict = "None"
    BY <2>1, <2>2, <2>3, <2>5, <2>6 DEF Talk, Undecided
  <2>7. CASE verdict = "Error"
    BY <2>1, <2>2, <2>4, <2>7 DEF Talk, Declined
  <2>8. CASE verdict = "OK"
    <3>1. /\ atComplete = {Bit(t) : t \in Accepted(kind) \
                                           (Waiting(rx) \cup device.left)}
          /\ atResult = IF atComplete = Required(kind) THEN "OK" ELSE "Pending"
      BY <2>1, <2>2, <2>8 DEF Talk, Granted
    <3>2. device.left = {}
      BY <2>2, <2>3 DEF Numbered
    <3>3. Accepted(kind) \ (Waiting(rx) \cup device.left) = Accepted(kind)
      BY <2>4, <3>2
    <3>. QED BY <3>1, <3>3, <2>2, Typed, Masks
  <2>. QED BY <2>2, <2>6, <2>7, <2>8 DEF TypeOK
<1>. QED BY <1>1, Invariance, PTL

-----------------------------------------------------------------------------
(* The engine is a command channel *)

\* The channel's variables.
Busy   == locked /\ ~Outside
Known  == IF Outside THEN "None" ELSE verdict
Result == IF Outside THEN "Failure" ELSE returned
Broken == Refused \/ Outside

Stutter == UNCHANGED <<Powered, Busy, Known, Result, Broken>>

\* The result a call collects is the verdict of the modem.
LEMMA Collected ==
  ASSUME Inv, pc = "Response", ~Outside, atResult # "Pending"
  PROVE  atResult = verdict /\ verdict # "None"
<1>1. Talk /\ TypeOK
  BY DEF Inv, Sessions, Conversation, Orderly, Outside, Abandoned
<1>. QED BY <1>1 DEF Talk, Undecided, Declined, Granted, TypeOK

\* A decision on the latest command is the first.
LEMMA DecidesOnce ==
  ASSUME Inv, Powered, device.at \in {"Prompt", "Decide"},
         NEW v \in {"OK", "Error"}, Decides(v),
         UNCHANGED <<sessionVars, callVars, lockVars, modemStatus>>
  PROVE  Stutter \/ (/\ Known = "None" /\ Known' = v
                     /\ UNCHANGED <<Powered, Busy, Result, Broken>>)
<1>1. device.cmd = n => verdict = "None"
  BY DEF Inv, Numbered
<1>2. /\ verdict' = (IF device.cmd = n THEN v ELSE verdict)
      /\ UNCHANGED <<session, misled, locked, returned, modemStatus>>
  BY DEF Decides, sessionVars, callVars, lockVars
<1>3. UNCHANGED <<Powered, Busy, Result, Broken>>
  BY <1>2 DEF Powered, Busy, Result, Broken, Refused, Outside, Abandoned
<1>4. CASE Outside \/ device.cmd # n
  BY <1>2, <1>3, <1>4 DEF Stutter, Known, Outside, Abandoned
<1>5. CASE ~Outside /\ device.cmd = n
  BY <1>1, <1>2, <1>3, <1>5 DEF Known, Outside, Abandoned
<1>. QED BY <1>4, <1>5

\* What a step of the engine is for the channel.
LEMMA EngineStep ==
  ASSUME Inv, [Next]_vars
  PROVE  \/ Stutter
         \/ /\ Powered /\ ~Busy /\ ~Broken /\ Busy' /\ Known' = "None"
            /\ UNCHANGED <<Powered, Result, Broken>>
         \/ /\ Powered /\ ~Busy /\ Broken /\ Result' = "Failure"
            /\ UNCHANGED <<Powered, Busy, Known, Broken>>
         \/ /\ Powered /\ Known = "None" /\ Known' \in {"OK", "Error"}
            /\ UNCHANGED <<Powered, Busy, Result, Broken>>
         \/ /\ Busy /\ Known # "None" /\ ~Busy' /\ Result' = Known
            /\ UNCHANGED <<Powered, Known, Broken>>
         \/ /\ Busy /\ ~Busy' /\ Broken' /\ Result' \in {"Timeout", "Failure"}
            /\ UNCHANGED <<Powered, Known>>
         \/ /\ Powered /\ ~Busy' /\ Known' = "None" /\ Result' = "Failure"
            /\ Broken' /\ UNCHANGED Powered
         \/ /\ ~Busy /\ ~Busy' /\ Powered' = ~Powered
            /\ Known' \in {"None", "OK", "Error"}
            /\ Result' \in {"OK", "Error", "Timeout", "Failure"}
<1>. USE DEF sessionVars, callVars, lockVars, resultVars, transmitVars,
             deviceVars
<1>1. HandlerLive /\ TypeOK
  BY DEF Inv
<1>2. locked <=> pc # "Ready"
  BY <1>1 DEF HandlerLive
<1>. DEFINE P == <<session, misled, locked, returned, modemStatus>>
<1>3. ASSUME UNCHANGED <<P, verdict>> PROVE Stutter
  BY <1>3 DEF Stutter, Powered, Busy, Known, Result, Broken, Refused, Outside,
              Abandoned
<1>4. ASSUME Outside, Outside', UNCHANGED Powered PROVE Stutter
  BY <1>4 DEF Stutter, Busy, Known, Result, Broken
<1>5. CASE Call
  <2>1. CASE Outside
    <3>1. Outside' /\ UNCHANGED Powered
      BY <1>5, <2>1
         DEF Call, RefuseCommand, CommandWritten, WriteFailed, ResultArrived,
             ResultTimedOut, IssueCommand, Outside, Abandoned, Powered
    <3>. QED BY <2>1, <3>1, <1>4
  <2>2. CASE ~Outside /\ RefuseCommand
    <3>1. Powered /\ ~Busy /\ Broken /\ Result' = "Failure"
      BY <1>2, <2>2 DEF RefuseCommand, Allowed, Powered, Busy, Broken, Result,
                        Outside, Abandoned
    <3>2. UNCHANGED <<Powered, Busy, Known, Broken>>
      BY <2>2 DEF RefuseCommand, Powered, Busy, Known, Broken, Outside,
                  Abandoned, Refused
    <3>. QED BY <3>1, <3>2
  <2>3. CASE CommandWritten
    BY <2>3, <1>3 DEF CommandWritten
  <2>4. CASE ~Outside /\ (WriteFailed \/ ResultTimedOut)
    <3>1. /\ pc # "Ready" /\ locked' = FALSE /\ modemStatus' = "CommandError"
          /\ returned' \in {"Timeout", "Failure"}
          /\ UNCHANGED <<session, misled, verdict>>
      BY <2>4 DEF WriteFailed, ResultTimedOut, EndCall
    <3>2. Busy /\ ~Busy' /\ Broken'
      BY <1>2, <2>4, <3>1 DEF Busy, Broken, Refused
    <3>3. Result' \in {"Timeout", "Failure"} /\ UNCHANGED <<Powered, Known>>
      BY <2>4, <3>1 DEF Result, Powered, Known, Outside, Abandoned
    <3>. QED BY <3>2, <3>3
  <2>5. CASE ~Outside /\ ResultArrived
    <3>1. /\ pc = "Response" /\ atResult # "Pending"
          /\ locked' = FALSE /\ returned' = atResult
          /\ session' # "Abandoned"
          /\ UNCHANGED <<misled, modemStatus, verdict>>
      BY <2>5 DEF ResultArrived, EndCall, Answered, Outside, Abandoned
    <3>2. atResult = verdict /\ verdict # "None"
      BY <2>5, <3>1, Collected
    <3>3. Busy /\ ~Busy'
      BY <1>2, <2>5, <3>1 DEF Busy
    <3>4. Known # "None" /\ Result' = Known /\ UNCHANGED Known
      BY <2>5, <3>1, <3>2 DEF Known, Result, Outside, Abandoned
    <3>5. UNCHANGED <<Powered, Broken>>
      BY <2>5, <3>1 DEF ResultArrived, Powered, Broken, Refused, Outside,
                        Abandoned
    <3>. QED BY <3>3, <3>4, <3>5
  <2>6. ASSUME ~Outside, NEW k \in Command, IssueCommand(k)
        PROVE  /\ Powered /\ ~Busy /\ ~Broken /\ Busy' /\ Known' = "None"
               /\ UNCHANGED <<Powered, Result, Broken>>
    <3>1. /\ pc = "Ready" /\ ~Refused /\ locked' = TRUE /\ verdict' = "None"
          /\ k \in Allowed
          /\ UNCHANGED <<session, misled, returned, modemStatus>>
      BY <2>6 DEF IssueCommand
    <3>2. Powered /\ ~Outside'
      BY <2>6, <3>1 DEF Allowed, Powered, Outside, Abandoned
    <3>3. ~Busy /\ ~Broken /\ Busy'
      BY <1>2, <2>6, <3>1, <3>2 DEF Busy, Broken
    <3>4. Known' = "None" /\ UNCHANGED Result
      BY <2>6, <3>1, <3>2 DEF Known, Result
    <3>5. UNCHANGED <<Powered, Broken>>
      BY <3>1 DEF Powered, Broken, Refused, Outside, Abandoned
    <3>. QED BY <3>2, <3>3, <3>4, <3>5
  <2>. QED BY <1>5, <2>1, <2>2, <2>3, <2>4, <2>5, <2>6 DEF Call
<1>6. CASE Session
  <2>1. CASE PowerOn \/ PowerOff
    <3>1. /\ pc = "Ready" /\ UNCHANGED <<locked, verdict>>
          /\ returned' \in {returned, "OK"}
          /\ \/ session = "Off" /\ session' = "Start"
             \/ session \in {"Down", "Abandoned"} /\ session' = "Off"
      BY <2>1 DEF PowerOn, PowerOff, Inv, Sessions
    <3>2. ~Busy /\ ~Busy' /\ Powered' = ~Powered
      BY <1>2, <3>1 DEF Busy, Powered
    <3>3. Known' \in {"None", "OK", "Error"}
      BY <1>1, <3>1 DEF TypeOK, Known, Outside, Abandoned
    <3>4. Result' \in {"OK", "Error", "Timeout", "Failure"}
      BY <1>1, <3>1 DEF TypeOK, Result, Outside, Abandoned
    <3>. QED BY <3>2, <3>3, <3>4
  <2>2. CASE AutobaudFailed
    <3>1. /\ session = "Start" /\ session' = "Abandoned" /\ pc = "Ready"
          /\ UNCHANGED locked
      BY <2>2 DEF AutobaudFailed
    <3>2. Powered /\ ~Busy /\ UNCHANGED <<Powered, Busy>>
      BY <1>2, <3>1 DEF Powered, Busy, Outside, Abandoned
    <3>3. Known' = "None" /\ Result' = "Failure" /\ Broken'
      BY <3>1 DEF Known, Result, Broken, Outside, Abandoned
    <3>. QED BY <3>2, <3>3
  <2>3. CASE Started \/ Leave
    <3>1. /\ session \in {"Initialize", "Up"} /\ session' \in {"Up", "Down"}
          /\ UNCHANGED <<misled, locked, returned, verdict>>
      BY <2>3 DEF Started, Leave
    <3>2. Refused' <=> Refused
      BY <2>3 DEF Started, Leave, Inv, Sessions, Refused
    <3>. QED BY <3>1, <3>2
             DEF Stutter, Powered, Busy, Known, Result, Broken, Outside,
                 Abandoned
  <2>. QED BY <1>6, <2>1, <2>2, <2>3 DEF Session
<1>7. CASE RxTask
  <2>1. CASE UNCHANGED misled
    BY <1>3, <1>7, <2>1
       DEF RxTask, OnPrompt, SocketCopied, MessageCopied, OnOK, OnError,
           OnCloseOk, OnResponse, OnEvent, OnIncoming, DataMoved
  <2>2. CASE misled' # misled
    <3>1. OnResponse
      BY <1>7, <2>2
         DEF RxTask, OnPrompt, SocketCopied, MessageCopied, OnOK, OnError,
             OnCloseOk, OnEvent, OnIncoming, DataMoved
    <3>2. atResult = "Pending" /\ misled' /\ session' = session
      BY <1>1, <2>2, <3>1 DEF OnResponse, HandlerCompletes, TypeOK
    <3>3. Powered /\ UNCHANGED Powered
      BY <1>1, <3>2 DEF Inv, HandlerLive, Sessions, Powered
    <3>4. Outside'
      BY <3>2 DEF Outside
    <3>. QED BY <3>3, <3>4 DEF Busy, Known, Result, Broken
  <2>. QED BY <2>1, <2>2
<1>8. CASE Device
  <2>1. CASE DeviceAccepts
    <3>1. Powered /\ device.at \in {"Prompt", "Decide"} /\ Decides("OK")
      BY <2>1 DEF DeviceAccepts
    <3>2. UNCHANGED <<sessionVars, callVars, lockVars, modemStatus>>
      BY <2>1 DEF DeviceAccepts
    <3>. QED BY <3>1, <3>2, DecidesOnce
  <2>2. CASE DeviceRefuses
    <3>1. Powered /\ device.at \in {"Prompt", "Decide"} /\ Decides("Error")
      BY <2>2 DEF DeviceRefuses
    <3>2. UNCHANGED <<sessionVars, callVars, lockVars, modemStatus>>
      BY <2>2 DEF DeviceRefuses
    <3>. QED BY <3>1, <3>2, DecidesOnce
  <2>3. CASE DeviceTakes \/ DevicePrompts \/ DeviceReceives \/ DeviceReplies
             \/ DeviceReports
    BY <1>3, <2>3 DEF DeviceTakes, DevicePrompts, DeviceReceives,
                      DeviceReplies, DeviceReports
  <2>. QED BY <1>8, <2>1, <2>2, <2>3 DEF Device
<1>9. CASE UNCHANGED vars
  BY <1>3, <1>9 DEF vars
<1>. QED BY <1>5, <1>6, <1>7, <1>8, <1>9 DEF Next

\* The AT engine implements the command channel: the result of a call is the
\* verdict on that call's command, and nothing is sent on a broken channel.
THEOREM ChannelImplemented == Spec => ChannelKept
<1>1. Init => Channel!Init
  <2>. SUFFICES ASSUME Init PROVE Channel!Init
    OBVIOUS
  <2>1. /\ locked = FALSE /\ verdict = "None" /\ returned = "OK"
        /\ ~Refused /\ ~Outside /\ ~Powered
    BY DEF Init, Refused, Outside, Abandoned, Powered
  <2>. QED BY <2>1 DEF Channel!Init
<1>2. Inv /\ [Next]_vars => [Channel!Next]_(Channel!vars)
  <2>. SUFFICES ASSUME Inv, [Next]_vars PROVE [Channel!Next]_(Channel!vars)
    OBVIOUS
  <2>. QED
    BY EngineStep
       DEF Stutter, Busy, Known, Result, Broken, Channel!vars, Channel!Next,
           Channel!Issue, Channel!Refuse, Channel!Decide, Channel!Return,
           Channel!GiveUp, Channel!Abandon, Channel!Switch
<1>. QED BY <1>1, <1>2, Invariance, PTL DEF Spec, ChannelKept, Channel!Spec

=============================================================================
