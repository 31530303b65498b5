---------------------------- MODULE BringupProofs ----------------------------
(***************************************************************************)
(* Proofs about the bring-up: the settings of the serial line agree, the   *)
(* network is ready when sockets may connect, and a session that goes well *)
(* gives back what it has started, for every choice of the line options,   *)
(* any number of attempts and any number of faults.                        *)
(***************************************************************************)
EXTENDS BringupProperties, TLAPS

DeviceState == [on : BOOLEAN, kind : Model, line : SUBSET Setting,
                services : SUBSET Service, lost : SUBSET Service,
                registered : SUBSET Registration]

\* Every command the lists hold.
Order ==
  {"E0", "I", "IFC", "ICF", "IPR", "GSV", "CMEE", "CSDT", "CREG=2", "CGREG=2",
   "CLTS", "EXUNSOL", "CR", "CTZR", "AUTOCSQ", "CPSI", "CREG?", "CGREG?",
   "COPS?", "CSQ", "CIPMUX", "CIPQSEND", "CGDCONT", "CGACT=1", "CSTT", "CIICR",
   "CIFSR", "CGAUTH", "NETOPEN", "CCHSET", "CCHSTART", "IPADDR", "CIPSHUT",
   "CGACT=0", "CCHSTOP", "NETCLOSE", "CGATT=0"}

\* The commands still to be given.
Left(q) == {q[i] : i \in DOMAIN q}

Typed == todo \in Seq(Order) /\ device \in DeviceState

\* The model is known from the end of the identification on.
Recognized ==
  {"Configure", "UnlockSimImpl", "AwaitSim", "Query", "AwaitNet", "AwaitGprs",
   "AwaitAttach", "StartGprs", "Active", "Disconnect"}

Models ==
  /\ model \in {"Unknown", device.kind}
  /\ pc \in Recognized => model = device.kind

\* Initialize sets the status to Ok: its last command is not a setting, so it
\* has been obeyed and the status was not the sticky one.
Lines ==
  /\ LineAgrees
  /\ pc = "Configure" /\ todo = <<>> => ~Refused
  /\ pc = "Configure" /\ todo # <<>> => Sets(todo[Len(todo)]) = {}

\* Only StartGprs starts services, and TLS only on a model that has it.
Starters(k) ==
  IF k = "SIM800"
  THEN {"CIPMUX", "CIPQSEND", "CGDCONT", "CGACT=1", "CSTT", "CIICR", "CIFSR"}
  ELSE {"CGDCONT", "CGACT=1", "CGAUTH", "NETOPEN", "CCHSET", "CCHSTART",
        "IPADDR"}

Starting ==
  /\ pc \in {"Identify", "Configure", "Query", "Disconnect"} =>
       \A c \in Left(todo) : Starts(c) = {}
  /\ pc = "StartGprs" => Left(todo) \subseteq Starters(device.kind)
  /\ "TLS" \in device.services => device.kind = "SIM7600"

\* A service sockets need runs, was ended by the network or is still to be
\* started, and what has been started is on record.
Building ==
  /\ pc = "StartGprs" =>
       /\ \A s \in Needed(device.kind) :
            \/ s \in device.services \cup device.lost
            \/ \E c \in Left(todo) : s \in Starts(c)
       /\ "pdpActive" \in gprs \/ "CGACT=1" \in Left(todo)
       /\ "attached" \in gprs
  /\ pc = "Active" =>
       /\ Needed(device.kind) \subseteq device.services \cup device.lost
       /\ {"pdpActive", "attached"} \subseteq gprs

\* What runs when a session ends well is still to be ended.
Releasing ==
  /\ clean => pc \in {"Active", "Disconnect", "PowerOff", "Off", "RetryDelay"}
  /\ pc = "Disconnect" /\ clean =>
       \A s \in device.services : \E c \in Left(todo) : s \in Ends(c)
  /\ RadioReleased

Inv == Typed /\ Models /\ Lines /\ Starting /\ Building /\ Releasing

-----------------------------------------------------------------------------
(* Lists of commands *)

\* A list is empty when nothing is on it.
LEMMA Emptiness ==
  ASSUME NEW q \in Seq(Order)
  PROVE  /\ Len(q) \in Nat
         /\ q = <<>> <=> Len(q) = 0
OBVIOUS

\* What is left after a command has been given.
LEMMA TakeCommand ==
  ASSUME NEW q \in Seq(Order), q # <<>>
  PROVE  /\ Tail(q) \in Seq(Order)
         /\ Left(q) = {Head(q)} \cup Left(Tail(q))
         /\ Tail(q) # <<>> => Tail(q)[Len(Tail(q))] = q[Len(q)]
         /\ Tail(q) = <<>> => Head(q) = q[Len(q)]
<1>1. /\ Tail(q) \in Seq(Order) /\ Head(q) = q[1]
      /\ Len(q) \in Nat \ {0} /\ DOMAIN q = 1..Len(q)
      /\ Len(Tail(q)) = Len(q) - 1 /\ DOMAIN Tail(q) = 1..(Len(q) - 1)
  OBVIOUS
<1>2. \A i \in 1..(Len(q) - 1) : Tail(q)[i] = q[i + 1]
  OBVIOUS
<1>3. ASSUME NEW c \in Left(q) PROVE c \in {Head(q)} \cup Left(Tail(q))
  <2>1. PICK i \in 1..Len(q) : q[i] = c
    BY <1>1 DEF Left
  <2>2. CASE i = 1
    BY <1>1, <2>1, <2>2
  <2>3. CASE i # 1
    <3>1. i - 1 \in DOMAIN Tail(q) /\ Tail(q)[i - 1] = c
      BY <1>1, <1>2, <2>1, <2>3
    <3>. QED BY <3>1 DEF Left
  <2>. QED BY <2>2, <2>3
<1>4. ASSUME NEW c \in Left(Tail(q)) PROVE c \in Left(q)
  <2>1. PICK i \in DOMAIN Tail(q) : Tail(q)[i] = c
    BY DEF Left
  <2>2. i + 1 \in DOMAIN q /\ q[i + 1] = c
    BY <1>1, <1>2, <2>1
  <2>. QED BY <2>2 DEF Left
<1>5. Head(q) \in Left(q)
  BY <1>1 DEF Left
<1>. DEFINE t == Tail(q)
<1>6. t \in Seq(Order) /\ Len(t) = Len(q) - 1
      /\ \A i \in 1..(Len(q) - 1) : t[i] = q[i + 1]
  BY <1>1, <1>2
<1>. HIDE DEF t
<1>7. ASSUME t # <<>> PROVE t[Len(t)] = q[Len(q)]
  <2>1. Len(t) # 0
    BY <1>6, <1>7, Emptiness
  <2>2. Len(q) - 1 \in 1..(Len(q) - 1) /\ Len(q) - 1 + 1 = Len(q)
    BY <1>1, <1>6, <2>1
  <2>3. t[Len(q) - 1] = q[Len(q) - 1 + 1]
    BY <1>6, <2>2
  <2>. QED BY <1>6, <2>2, <2>3
<1>8. ASSUME t = <<>> PROVE Head(q) = q[Len(q)]
  <2>1. Len(t) = 0
    BY <1>6, <1>8, Emptiness
  <2>2. Len(q) = 1
    BY <1>1, <1>6, <2>1
  <2>. QED BY <1>1, <2>2
<1>. QED BY <1>1, <1>3, <1>4, <1>5, <1>7, <1>8 DEF t

\* What a list made of two holds, and how it ends.
LEMMA TwoLists ==
  ASSUME NEW q \in Seq(Order), NEW r \in Seq(Order)
  PROVE  /\ q \o r \in Seq(Order)
         /\ Left(q \o r) = Left(q) \cup Left(r)
         /\ r # <<>> => q \o r # <<>> /\ (q \o r)[Len(q \o r)] = r[Len(r)]
<1>. DEFINE a == q \o r
<1>1. /\ a \in Seq(Order) /\ Len(a) = Len(q) + Len(r)
      /\ Len(q) \in Nat /\ Len(r) \in Nat
      /\ DOMAIN q = 1..Len(q) /\ DOMAIN r = 1..Len(r) /\ DOMAIN a = 1..Len(a)
  OBVIOUS
<1>2. \A i \in 1..Len(a) :
        a[i] = IF i <= Len(q) THEN q[i] ELSE r[i - Len(q)]
  OBVIOUS
<1>. HIDE DEF a
<1>3. ASSUME NEW c \in Left(a) PROVE c \in Left(q) \cup Left(r)
  <2>1. PICK i \in 1..Len(a) : a[i] = c
    BY <1>1 DEF Left
  <2>2. CASE i <= Len(q)
    <3>1. i \in DOMAIN q /\ q[i] = c
      BY <1>1, <1>2, <2>1, <2>2
    <3>. QED BY <3>1 DEF Left
  <2>3. CASE ~(i <= Len(q))
    <3>1. i - Len(q) \in DOMAIN r /\ r[i - Len(q)] = c
      BY <1>1, <1>2, <2>1, <2>3
    <3>. QED BY <3>1 DEF Left
  <2>. QED BY <2>2, <2>3
<1>4. ASSUME NEW c \in Left(q) PROVE c \in Left(a)
  <2>1. PICK i \in 1..Len(q) : q[i] = c
    BY <1>1 DEF Left
  <2>2. i \in DOMAIN a /\ a[i] = c
    BY <1>1, <1>2, <2>1
  <2>. QED BY <2>2 DEF Left
<1>5. ASSUME NEW c \in Left(r) PROVE c \in Left(a)
  <2>1. PICK i \in 1..Len(r) : r[i] = c
    BY <1>1 DEF Left
  <2>2. i + Len(q) \in DOMAIN a /\ a[i + Len(q)] = c
    BY SMTT(20), <1>1, <1>2, <2>1
  <2>. QED BY <2>2 DEF Left
<1>6. ASSUME r # <<>> PROVE a # <<>> /\ a[Len(a)] = r[Len(r)]
  <2>1. Len(r) # 0
    BY <1>6, <1>1, Emptiness
  <2>2. Len(a) # 0 /\ Len(a) \in 1..Len(a) /\ ~(Len(a) <= Len(q))
    BY <1>1, <2>1
  <2>3. a[Len(a)] = r[Len(a) - Len(q)]
    BY <1>2, <2>2
  <2>. QED BY <1>1, <2>2, <2>3, Emptiness
<1>. QED BY <1>1, <1>3, <1>4, <1>5, <1>6 DEF a

\* Lists of one or two commands.
LEMMA Few ==
  /\ <<>> \in Seq(Order) /\ Left(<<>>) = {}
  /\ \A a \in Order : <<a>> \in Seq(Order) /\ Left(<<a>>) = {a}
  /\ \A a, b \in Order :
       <<a, b>> \in Seq(Order) /\ Left(<<a, b>>) = {a, b}
<1>1. DOMAIN <<>> = {} /\ <<>> \in Seq(Order)
  OBVIOUS
<1>2. ASSUME NEW a \in Order PROVE <<a>> \in Seq(Order) /\ Left(<<a>>) = {a}
  <2>. DEFINE q == <<a>>
  <2>1. q \in Seq(Order) /\ DOMAIN q = 1..1 /\ q[1] = a
    OBVIOUS
  <2>. HIDE DEF q
  <2>2. Left(q) = {a}
    BY <2>1 DEF Left
  <2>. QED BY <2>1, <2>2 DEF q
<1>3. ASSUME NEW a \in Order, NEW b \in Order
      PROVE  <<a, b>> \in Seq(Order) /\ Left(<<a, b>>) = {a, b}
  <2>. DEFINE q == <<a, b>>
  <2>1. q \in Seq(Order) /\ DOMAIN q = 1..2 /\ q[1] = a /\ q[2] = b
    OBVIOUS
  <2>. HIDE DEF q
  <2>2. Left(q) = {a, b}
    BY <2>1 DEF Left
  <2>. QED BY <2>1, <2>2 DEF q
<1>. QED BY <1>1, <1>2, <1>3 DEF Left

\* The lists that start services.
LEMMA StartLists ==
  ASSUME model \in Model
  PROVE  StartGprs \in Seq(Order) /\ Left(StartGprs) = Starters(model)
<1>1. CASE model = "SIM800"
  <2>. DEFINE q == <<"CIPMUX", "CIPQSEND", "CGDCONT", "CGACT=1", "CSTT", "CIICR",
                     "CIFSR">>
  <2>1. q \in Seq(Order) /\ DOMAIN q = 1..7
    BY DEF Order
  <2>2. /\ q[1] = "CIPMUX" /\ q[2] = "CIPQSEND" /\ q[3] = "CGDCONT"
        /\ q[4] = "CGACT=1" /\ q[5] = "CSTT" /\ q[6] = "CIICR"
        /\ q[7] = "CIFSR"
    OBVIOUS
  <2>3. StartGprs = q
    BY <1>1 DEF StartGprs
  <2>. HIDE DEF q
  <2>4. 1..7 = {1, 2, 3, 4, 5, 6, 7}
    OBVIOUS
  <2>. QED BY <1>1, <2>1, <2>2, <2>3, <2>4 DEF Left, Starters
<1>2. CASE model = "SIM7600"
  <2>. DEFINE q == <<"CGDCONT", "CGACT=1", "CGAUTH", "NETOPEN", "CCHSET",
                     "CCHSTART", "IPADDR">>
  <2>1. q \in Seq(Order) /\ DOMAIN q = 1..7
    BY DEF Order
  <2>2. /\ q[1] = "CGDCONT" /\ q[2] = "CGACT=1" /\ q[3] = "CGAUTH"
        /\ q[4] = "NETOPEN" /\ q[5] = "CCHSET" /\ q[6] = "CCHSTART"
        /\ q[7] = "IPADDR"
    OBVIOUS
  <2>3. StartGprs = q
    BY <1>2 DEF StartGprs
  <2>. HIDE DEF q
  <2>4. 1..7 = {1, 2, 3, 4, 5, 6, 7}
    OBVIOUS
  <2>. QED BY <1>2, <2>1, <2>2, <2>3, <2>4 DEF Left, Starters
<1>. QED BY <1>1, <1>2 DEF Model

\* The commands of the other lists start nothing.
Plain(q) == \A c \in Left(q) : Starts(c) = {}

LEMMA PlainLists ==
  /\ Identify \in Seq(Order) /\ Plain(Identify)
  /\ Query \in Seq(Order) /\ Plain(Query)
  /\ Disconnect \in Seq(Order) /\ Plain(Disconnect)
<1>1. Identify \in Seq(Order) /\ Plain(Identify)
  <2>1. Identify = <<"E0", "I">> /\ "E0" \in Order /\ "I" \in Order
    BY DEF Identify, Order
  <2>2. Identify \in Seq(Order) /\ Left(Identify) = {"E0", "I"}
    BY <2>1, Few
  <2>. QED BY <2>2 DEF Plain, Starts
<1>2. Query \in Seq(Order) /\ Plain(Query)
  <2>. DEFINE q == <<"CREG?", "CGREG?", "COPS?", "CSQ">>
  <2>1. q \in Seq(Order) /\ DOMAIN q = {1, 2, 3, 4}
    BY DEF Order
  <2>2. q[1] = "CREG?" /\ q[2] = "CGREG?" /\ q[3] = "COPS?" /\ q[4] = "CSQ"
    OBVIOUS
  <2>3. Query = q
    BY DEF Query
  <2>. HIDE DEF q
  <2>4. Left(q) = {"CREG?", "CGREG?", "COPS?", "CSQ"}
    BY <2>1, <2>2 DEF Left
  <2>. QED BY <2>1, <2>3, <2>4 DEF Plain, Starts
<1>3. Disconnect \in Seq(Order) /\ Plain(Disconnect)
  <2>. DEFINE p == IF "pdpActive" \notin gprs THEN <<>>
                   ELSE IF model = "SIM800" THEN <<"CIPSHUT", "CGACT=0">>
                   ELSE <<"CCHSTOP", "NETCLOSE">>
              a == IF "attached" \in gprs THEN <<"CGATT=0">> ELSE <<>>
  <2>0. {"CIPSHUT", "CGACT=0", "CCHSTOP", "NETCLOSE", "CGATT=0"} \subseteq Order
    BY DEF Order
  <2>1. /\ p \in Seq(Order)
        /\ Left(p) \subseteq {"CIPSHUT", "CGACT=0", "CCHSTOP", "NETCLOSE"}
    <3>1. p \in {<<>>, <<"CIPSHUT", "CGACT=0">>, <<"CCHSTOP", "NETCLOSE">>}
      OBVIOUS
    <3>2. /\ <<"CIPSHUT", "CGACT=0">> \in Seq(Order)
          /\ Left(<<"CIPSHUT", "CGACT=0">>) = {"CIPSHUT", "CGACT=0"}
          /\ <<"CCHSTOP", "NETCLOSE">> \in Seq(Order)
          /\ Left(<<"CCHSTOP", "NETCLOSE">>) = {"CCHSTOP", "NETCLOSE"}
      BY <2>0, Few
    <3>. HIDE DEF p
    <3>. QED BY <3>1, <3>2, Few
  <2>2. a \in Seq(Order) /\ Left(a) \subseteq {"CGATT=0"}
    <3>1. a \in {<<>>, <<"CGATT=0">>}
      OBVIOUS
    <3>2. /\ <<"CGATT=0">> \in Seq(Order)
          /\ Left(<<"CGATT=0">>) = {"CGATT=0"}
      BY <2>0, Few
    <3>. HIDE DEF a
    <3>. QED BY <3>1, <3>2, Few
  <2>3. Disconnect = p \o a
    BY DEF Disconnect
  <2>. HIDE DEF p, a
  <2>4. /\ Disconnect \in Seq(Order)
        /\ Left(Disconnect) \subseteq
             {"CIPSHUT", "CGACT=0", "CCHSTOP", "NETCLOSE", "CGATT=0"}
    BY <2>1, <2>2, <2>3, TwoLists
  <2>5. \A c \in {"CIPSHUT", "CGACT=0", "CCHSTOP", "NETCLOSE", "CGATT=0"} :
          Starts(c) = {}
    BY DEF Starts
  <2>. QED BY <2>4, <2>5 DEF Plain
<1>. QED BY <1>1, <1>2, <1>3

\* The list of settings and what follows it, whose last command is none.
LEMMA ConfigureList ==
  /\ Configure \in Seq(Order) /\ Configure # <<>> /\ Plain(Configure)
  /\ Sets(Configure[Len(Configure)]) = {}
<1>. DEFINE f == IF "flow" \in LineOptions THEN <<"IFC">> ELSE <<>>
            g == IF "parity" \in LineOptions THEN <<"ICF">> ELSE <<>>
<1>1. /\ f \in Seq(Order) /\ Left(f) \subseteq {"IFC"}
      /\ g \in Seq(Order) /\ Left(g) \subseteq {"ICF"}
      /\ <<"IPR">> \in Seq(Order) /\ Left(<<"IPR">>) = {"IPR"}
  <2>1. "IFC" \in Order /\ "ICF" \in Order /\ "IPR" \in Order
    BY DEF Order
  <2>2. \A a \in {"IFC", "ICF", "IPR"} :
          <<a>> \in Seq(Order) /\ Left(<<a>>) = {a}
    BY <2>1, Few
  <2>3. f \in {<<>>, <<"IFC">>} /\ g \in {<<>>, <<"ICF">>}
    OBVIOUS
  <2>. HIDE DEF f, g
  <2>. QED BY <2>2, <2>3, Few
<1>2. Settings = f \o g \o <<"IPR">>
  BY DEF Settings
<1>. HIDE DEF f, g
<1>3. f \o g \in Seq(Order) /\ Left(f \o g) \subseteq {"IFC", "ICF"}
  BY <1>1, TwoLists
<1>4. Settings \in Seq(Order) /\ Left(Settings) \subseteq {"IFC", "ICF", "IPR"}
  <2>. DEFINE h == f \o g
  <2>1. h \in Seq(Order) /\ Left(h) \subseteq {"IFC", "ICF"}
    BY <1>3
  <2>2. Settings = h \o <<"IPR">>
    BY <1>2
  <2>. HIDE DEF h
  <2>3. /\ h \o <<"IPR">> \in Seq(Order)
        /\ Left(h \o <<"IPR">>) = Left(h) \cup Left(<<"IPR">>)
    BY <1>1, <2>1, TwoLists
  <2>. QED BY <1>1, <2>1, <2>2, <2>3
<1>5. Plain(Settings)
  <2>1. \A c \in {"IFC", "ICF", "IPR"} : Starts(c) = {}
    BY DEF Starts
  <2>. QED BY <1>4, <2>1 DEF Plain
<1>6. ASSUME NEW r \in Seq(Order), r # <<>>, Plain(r), Sets(r[Len(r)]) = {},
             Configure = Settings \o r
      PROVE  /\ Configure \in Seq(Order) /\ Configure # <<>> /\ Plain(Configure)
             /\ Sets(Configure[Len(Configure)]) = {}
  BY <1>4, <1>5, <1>6, TwoLists DEF Plain
<1>7. CASE model = "SIM800"
  <2>. DEFINE r == <<"GSV", "CMEE", "CSDT", "CREG=2", "CGREG=2", "CLTS",
                     "EXUNSOL", "CR">>
  <2>1. r \in Seq(Order) /\ Len(r) = 8 /\ DOMAIN r = {1, 2, 3, 4, 5, 6, 7, 8}
    BY DEF Order
  <2>2. /\ r[1] = "GSV" /\ r[2] = "CMEE" /\ r[3] = "CSDT" /\ r[4] = "CREG=2"
        /\ r[5] = "CGREG=2" /\ r[6] = "CLTS" /\ r[7] = "EXUNSOL" /\ r[8] = "CR"
    OBVIOUS
  <2>3. Configure = Settings \o r
    BY <1>7 DEF Configure
  <2>. HIDE DEF r
  <2>4. Left(r) = {"GSV", "CMEE", "CSDT", "CREG=2", "CGREG=2", "CLTS",
                   "EXUNSOL", "CR"}
    BY <2>1, <2>2 DEF Left
  <2>5. Plain(r)
    BY <2>4 DEF Plain, Starts
  <2>6. Sets(r[Len(r)]) = {}
    BY <2>1, <2>2 DEF Sets
  <2>7. r # <<>>
    BY <2>1, Emptiness
  <2>. QED BY <1>6, <2>1, <2>3, <2>5, <2>6, <2>7
<1>8. CASE model # "SIM800"
  <2>. DEFINE r == <<"CMEE", "CREG=2", "CGREG=2", "CTZR", "AUTOCSQ", "CPSI">>
  <2>1. r \in Seq(Order) /\ Len(r) = 6 /\ DOMAIN r = {1, 2, 3, 4, 5, 6}
    BY DEF Order
  <2>2. /\ r[1] = "CMEE" /\ r[2] = "CREG=2" /\ r[3] = "CGREG=2"
        /\ r[4] = "CTZR" /\ r[5] = "AUTOCSQ" /\ r[6] = "CPSI"
    OBVIOUS
  <2>3. Configure = Settings \o r
    BY <1>8 DEF Configure
  <2>. HIDE DEF r
  <2>4. Left(r) = {"CMEE", "CREG=2", "CGREG=2", "CTZR", "AUTOCSQ", "CPSI"}
    BY <2>1, <2>2 DEF Left
  <2>5. Plain(r)
    BY <2>4 DEF Plain, Starts
  <2>6. Sets(r[Len(r)]) = {}
    BY <2>1, <2>2 DEF Sets
  <2>7. r # <<>>
    BY <2>1, Emptiness
  <2>. QED BY <1>6, <2>1, <2>3, <2>5, <2>6, <2>7
<1>. QED BY <1>7, <1>8

-----------------------------------------------------------------------------
(* Commands *)

\* What commands do stays within the modem's services and settings.
LEMMA Effects ==
  ASSUME NEW c
  PROVE  /\ Starts(c) \subseteq Service
         /\ Sets(c) \subseteq Setting
  <1>1. Starts(c) \in {{"GPRS"}, {"PDP"}, {"IP"}, {"TLS"}, {}}
    BY DEF Starts
  <1>2. Sets(c) \in {{"flow"}, {"parity"}, {"baud"}, {}}
    BY DEF Sets
  <1>. QED BY <1>1, <1>2 DEF Service, Setting

\* The modem after a command.
LEMMA DidCommand ==
  ASSUME device \in DeviceState, NEW c
  PROVE  /\ Did(c) \in DeviceState
         /\ Did(c).on = device.on /\ Did(c).kind = device.kind
         /\ Did(c).line = device.line \cup Sets(c)
         /\ Did(c).services = (device.services \cup Starts(c)) \ Ends(c)
         /\ Did(c).lost = device.lost \ Starts(c)
BY Effects DEF Did, DeviceState

\* What the outcome of a command says of the modem and of the status.
LEMMA CommandOutcome ==
  ASSUME device \in DeviceState, NEW c, NEW r \in Outcome, Command(c, r)
  PROVE  /\ device' \in {device, Did(c)}
         /\ Refused => Refused' /\ r # "OK"
         /\ r = "OK" => Heard /\ ~Refused /\ ~Refused' /\ device' = Did(c)
         /\ ~Refused' => Heard /\ (r # "OK" => device' = device)
BY DEF Command, Refused, Outcome

\* The commands that start services change no setting and end nothing.
LEMMA StarterEffects ==
  /\ \A k \in Model : \A c \in Starters(k) : Sets(c) = {} /\ Ends(c) = {}
  /\ \A c \in Starters("SIM800") : "TLS" \notin Starts(c)
  /\ Starts("CGACT=1") = {"PDP"} /\ Starts("CIICR") = {"IP"}
  /\ Starts("NETOPEN") = {"IP"} /\ Starts("CCHSTART") = {"TLS"}
<1>1. \A c \in {"CIPMUX", "CIPQSEND", "CGDCONT", "CGACT=1", "CSTT", "CIICR",
                "CIFSR", "CGAUTH", "NETOPEN", "CCHSET", "CCHSTART", "IPADDR"} :
        Sets(c) = {} /\ Ends(c) = {}
  BY DEF Sets, Ends
<1>2. \A c \in {"CIPMUX", "CIPQSEND", "CGDCONT", "CGACT=1", "CSTT", "CIICR",
                "CIFSR"} : "TLS" \notin Starts(c)
  BY DEF Starts
<1>3. /\ Starts("CGACT=1") = {"PDP"} /\ Starts("CIICR") = {"IP"}
      /\ Starts("NETOPEN") = {"IP"} /\ Starts("CCHSTART") = {"TLS"}
  BY DEF Starts
<1>. QED BY <1>1, <1>2, <1>3 DEF Starters, Model

\* The commands outside lists.
LEMMA SingleEffects ==
  /\ \A c \in {"AT", "CPIN?", "CGATT=1"} : Sets(c) = {} /\ Ends(c) = {}
  /\ Starts("AT") = {} /\ Starts("CPIN?") = {} /\ Starts("CGATT=1") = {"GPRS"}
BY DEF Sets, Ends, Starts

\* What the modem's own steps and switching it do to it.
LEMMA DeviceKept ==
  ASSUME device \in DeviceState
  PROVE  /\ OffDevice \in DeviceState /\ OffDevice.kind = device.kind
         /\ OffDevice.services = {}
         /\ [device EXCEPT !.on = TRUE, !.lost = {}] \in DeviceState
         /\ [device EXCEPT !.on = TRUE, !.lost = {}].kind = device.kind
         /\ [device EXCEPT !.on = TRUE, !.lost = {}].services = device.services
BY DEF OffDevice, DeviceState

LEMMA RegistrationStep ==
  ASSUME device \in DeviceState, NEW r \in Registration, Registers(r)
  PROVE  /\ device' \in DeviceState
         /\ device'.on = device.on /\ device'.kind = device.kind
         /\ device'.line = device.line
         /\ device.services \subseteq device'.services
         /\ device'.services \subseteq device.services \cup {"GPRS"}
         /\ device'.lost = device.lost
         /\ pc \in {"Disconnect", "PowerOff"} =>
              device'.services = device.services
BY DEF Registers, DeviceState, Registration, Service

LEMMA DeregistrationStep ==
  ASSUME device \in DeviceState, NEW r \in Registration, Deregisters(r)
  PROVE  /\ device' \in DeviceState
         /\ device'.on = device.on /\ device'.kind = device.kind
         /\ device'.line = device.line /\ device'.services = device.services
         /\ device'.lost = device.lost
BY DEF Deregisters, DeviceState, Registration

LEMMA DeactivationStep ==
  ASSUME device \in DeviceState, NEW s \in {"PDP", "IP", "TLS"}, Deactivates(s)
  PROVE  /\ device' \in DeviceState
         /\ device'.on = device.on /\ device'.kind = device.kind
         /\ device'.line = device.line
         /\ device'.services \subseteq device.services
         /\ device'.services \cup device'.lost
              = device.services \cup device.lost
<1>1. Upon(s) \subseteq Service
  BY DEF Upon, Service
<1>. QED BY <1>1 DEF Deactivates, DeviceState

\* What the network does to the modem, and that it does nothing else.
NetworkActs ==
  \/ \E r \in Registration : Registers(r) \/ Deregisters(r)
  \/ \E s \in {"PDP", "IP", "TLS"} : Deactivates(s)

LEMMA NetworkStep ==
  ASSUME device \in DeviceState, NetworkActs
  PROVE  /\ device' \in DeviceState
         /\ device'.on = device.on /\ device'.kind = device.kind
         /\ device'.line = device.line
         /\ device'.services \subseteq device.services \cup {"GPRS"}
         /\ device.services \cup device.lost
              \subseteq device'.services \cup device'.lost
         /\ pc \in {"Disconnect", "PowerOff"} =>
              device'.services \subseteq device.services
         /\ UNCHANGED <<pc, todo, model, gprs, line, modemStatus, clean>>
<1>1. ASSUME NEW r \in Registration, Registers(r)
      PROVE  /\ device' \in DeviceState
             /\ device'.on = device.on /\ device'.kind = device.kind
             /\ device'.line = device.line
             /\ device'.services \subseteq device.services \cup {"GPRS"}
             /\ device.services \cup device.lost
                  \subseteq device'.services \cup device'.lost
             /\ pc \in {"Disconnect", "PowerOff"} =>
                  device'.services \subseteq device.services
  BY <1>1, RegistrationStep
<1>2. ASSUME NEW r \in Registration, Deregisters(r)
      PROVE  /\ device' \in DeviceState
             /\ device'.on = device.on /\ device'.kind = device.kind
             /\ device'.line = device.line
             /\ device'.services = device.services
             /\ device'.lost = device.lost
  BY <1>2, DeregistrationStep
<1>3. ASSUME NEW s \in {"PDP", "IP", "TLS"}, Deactivates(s)
      PROVE  /\ device' \in DeviceState
             /\ device'.on = device.on /\ device'.kind = device.kind
             /\ device'.line = device.line
             /\ device'.services \subseteq device.services
             /\ device'.services \cup device'.lost
                  = device.services \cup device.lost
  BY <1>3, DeactivationStep
<1>4. UNCHANGED <<pc, todo, model, gprs, line, modemStatus, clean>>
  BY DEF NetworkActs, Registers, Deregisters, Deactivates, knownVars
<1>. QED BY <1>1, <1>2, <1>3, <1>4 DEF NetworkActs

-----------------------------------------------------------------------------
(* Types and the model *)

\* Every step keeps the types and the modem its kind.
LEMMA TypedStep ==
  ASSUME Typed, Models, [Next]_vars
  PROVE  Typed' /\ device'.kind = device.kind
<1>. USE DEF knownVars
<1>1. todo \in Seq(Order) /\ device \in DeviceState /\ <<>> \in Seq(Order)
  BY Few DEF Typed
<1>2. SUFFICES /\ todo' \in Seq(Order) /\ device' \in DeviceState
               /\ device'.kind = device.kind
  BY DEF Typed
<1>3. ASSUME NEW c, NEW r \in Outcome, Command(c, r)
      PROVE  device' \in DeviceState /\ device'.kind = device.kind
  BY <1>1, <1>3, CommandOutcome, DidCommand
<1>4. CASE PowerOnImpl
  BY <1>1, <1>4, DeviceKept DEF PowerOnImpl
<1>5. CASE Autobaud
  <2>1. PICK r \in Outcome : Command("AT", r)
    BY <1>5 DEF Autobaud
  <2>2. todo' \in {todo, Identify}
    BY <1>5 DEF Autobaud
  <2>. QED BY <1>1, <1>3, <2>1, <2>2, PlainLists
<1>6. CASE NextCommand
  <2>1. PICK r \in Outcome : Command(Head(todo), r)
    BY <1>6 DEF NextCommand
  <2>2. todo # <<>> /\ todo' \in {Tail(todo), <<>>}
    BY <1>6 DEF NextCommand, Fail
  <2>. QED BY <1>1, <1>3, <2>1, <2>2, TakeCommand
<1>7. CASE UnlockSim
  <2>1. PICK r \in Outcome : Command("CPIN?", r)
    BY <1>7 DEF UnlockSim
  <2>2. todo' \in {todo, <<>>}
    BY <1>7 DEF UnlockSim, Fail
  <2>. QED BY <1>1, <1>3, <2>1, <2>2
<1>8. CASE AttachGprs
  <2>1. PICK r \in Outcome : Command("CGATT=1", r)
    BY <1>8 DEF AttachGprs
  <2>2. todo' \in {todo, <<>>}
    BY <1>8 DEF AttachGprs, Fail
  <2>. QED BY <1>1, <1>3, <2>1, <2>2
<1>9. CASE Identified \/ SimUnlocked
  <2>1. todo' \in {<<>>, Configure, Query} /\ UNCHANGED device
    BY <1>9 DEF Identified, SimUnlocked, Fail
  <2>. QED BY <1>1, <2>1, ConfigureList, PlainLists
<1>10. CASE GprsFound
  <2>1. model \in Model
    BY <1>1, <1>10 DEF GprsFound, Models, Recognized, DeviceState
  <2>. QED BY <1>1, <1>10, <2>1, StartLists DEF GprsFound
<1>11. CASE Leave
  BY <1>1, <1>11, PlainLists DEF Leave
<1>12. CASE AutobaudFails \/ WaitFails \/ Disconnected
  BY <1>1, <1>12 DEF AutobaudFails, WaitFails, Disconnected, Fail
<1>13. CASE Started \/ Queried \/ NetworkFound \/ NetworkConnected
            \/ PowerOnFails \/ PowerOnFailsAgain \/ SimReady
  BY <1>1, <1>13 DEF Started, Queried, NetworkFound, NetworkConnected,
                     PowerOnFails, PowerOnFailsAgain, SimReady
<1>14. CASE PowerOffImpl
  BY <1>1, <1>14, DeviceKept DEF PowerOffImpl
<1>15. CASE NetworkActs
  BY <1>1, <1>15, NetworkStep
<1>16. CASE Crash
  BY <1>1, <1>16, DeviceKept DEF Crash
<1>17. CASE UNCHANGED vars
  BY <1>1, <1>17 DEF vars
<1>. QED BY <1>4, <1>5, <1>6, <1>7, <1>8, <1>9, <1>10, <1>11, <1>12, <1>13,
            <1>14, <1>15, <1>16, <1>17 DEF Next, Driver, Environment,
            NetworkActs

\* The model the driver works with is the modem's.
LEMMA ModelsStep ==
  ASSUME Typed, Models, [Next]_vars PROVE Models'
<1>. USE DEF Models, Recognized, knownVars, Goto, Fail, Reset
<1>1. device'.kind = device.kind
  BY TypedStep
<1>2. CASE NextCommand
  <2>1. PICK r \in Outcome :
          /\ IF Passes(Head(todo), r)
             THEN todo' = Tail(todo) /\ UNCHANGED <<pc, attempts>> ELSE Fail
          /\ IF r = "OK" THEN Learns(Head(todo))
             ELSE UNCHANGED <<model, registered, gprs>>
    BY <1>2 DEF NextCommand
  <2>2. model' \in {model, device.kind} /\ pc' \in {pc, "PowerOff"}
    BY <2>1 DEF Learns
  <2>. QED BY <1>1, <2>2
<1>3. CASE Identified
  BY <1>1, <1>3 DEF Identified, Listed
<1>4. CASE PowerOnImpl \/ Autobaud \/ AutobaudFails \/ PowerOffImpl \/ Crash
            \/ PowerOnFails \/ PowerOnFailsAgain \/ WaitFails \/ Disconnected
  BY <1>1, <1>4 DEF PowerOnImpl, Autobaud, AutobaudFails, PowerOffImpl, Crash,
                    PowerOnFails, PowerOnFailsAgain, WaitFails, Disconnected
<1>5. CASE UnlockSim \/ AttachGprs
  <2>1. UNCHANGED model /\ pc \in {"UnlockSimImpl", "AwaitGprs"}
    BY <1>5 DEF UnlockSim, AttachGprs
  <2>. QED BY <1>1, <2>1
<1>6. CASE Started \/ SimUnlocked \/ Queried \/ NetworkFound \/ GprsFound
            \/ NetworkConnected \/ Leave \/ SimReady
  <2>1. UNCHANGED model /\ (pc \in Recognized \/ UNCHANGED pc)
    BY <1>6 DEF Started, SimUnlocked, Queried, NetworkFound, GprsFound,
                NetworkConnected, Leave, SimReady, Listed
  <2>. QED BY <1>1, <2>1
<1>7. CASE NetworkActs
  <2>1. UNCHANGED <<model, pc>>
    BY <1>7, NetworkStep DEF Typed
  <2>. QED BY <1>1, <2>1
<1>8. CASE UNCHANGED vars
  BY <1>8 DEF vars
<1>. QED BY <1>2, <1>3, <1>4, <1>5, <1>6, <1>7, <1>8
         DEF Next, Driver, Environment, NetworkActs

-----------------------------------------------------------------------------
(* The serial line *)

\* Every step keeps the settings of both sides together.
LEMMA LinesStep ==
  ASSUME Typed, Lines, [Next]_vars PROVE Lines'
<1>. USE DEF knownVars
<1>1. device \in DeviceState /\ todo \in Seq(Order)
  BY DEF Typed
<1>. DEFINE Quiet == {"Off", "RetryDelay", "StartImpl", "PowerOff"}
<1>2. ASSUME pc' \in Quiet PROVE Lines'
  BY <1>2 DEF Lines, LineAgrees
<1>3. ASSUME pc' # "Configure", Heard \/ pc \notin Quiet,
             UNCHANGED <<line, modemStatus>>,
             device'.on = device.on, device'.line = device.line
      PROVE  Lines'
  BY <1>3 DEF Lines, LineAgrees, Heard, Refused
<1>4. CASE PowerOnImpl \/ AutobaudFails \/ WaitFails \/ Disconnected
            \/ PowerOffImpl \/ PowerOnFails \/ PowerOnFailsAgain \/ Crash
  BY <1>2, <1>4 DEF PowerOnImpl, AutobaudFails, WaitFails, Disconnected,
                    PowerOffImpl, PowerOnFails, PowerOnFailsAgain, Crash, Fail,
                    Goto
<1>5. CASE Autobaud
  <2>1. PICK r \in Outcome :
          /\ Command("AT", r)
          /\ r = "OK" => pc' = "Identify"
          /\ r # "OK" => pc' = pc
    BY <1>5 DEF Autobaud, Goto
  <2>2. pc = "StartImpl" /\ UNCHANGED line
    BY <1>5 DEF Autobaud
  <2>3. CASE r = "OK"
    <3>1. Heard /\ device' = Did("AT")
      BY <1>1, <2>1, <2>3, CommandOutcome
    <3>2. device'.on = device.on /\ device'.line = device.line
      BY <1>1, <3>1, DidCommand, SingleEffects
    <3>. QED BY <2>1, <2>2, <2>3, <3>1, <3>2 DEF Lines, LineAgrees, Heard
  <2>4. CASE r # "OK"
    BY <1>2, <2>1, <2>2, <2>4
  <2>. QED BY <2>3, <2>4
<1>6. CASE UnlockSim \/ AttachGprs
  <2>1. PICK c \in {"CPIN?", "CGATT=1"}, r \in Outcome : Command(c, r)
    BY <1>6 DEF UnlockSim, AttachGprs
  <2>2. /\ pc' # "Configure" /\ UNCHANGED line
        /\ pc \in {"UnlockSimImpl", "AwaitGprs"}
    BY <1>6 DEF UnlockSim, AttachGprs, Fail, Goto
  <2>3. Sets(c) = {}
    BY SingleEffects
  <2>4. device'.on = device.on /\ device'.line = device.line
    BY <1>1, <2>1, <2>3, CommandOutcome, DidCommand
  <2>5. ~Refused' => Heard
    BY <1>1, <2>1, CommandOutcome
  <2>. QED BY <2>2, <2>4, <2>5 DEF Lines, LineAgrees, Heard
<1>7. CASE NextCommand
  <2>. DEFINE c == Head(todo)
  <2>1. PICK r \in Outcome :
          /\ Command(c, r)
          /\ IF Passes(c, r) THEN todo' = Tail(todo) /\ UNCHANGED <<pc, attempts>>
             ELSE Fail
          /\ line' = line \cup Switched(c, r)
    BY <1>7 DEF NextCommand
  <2>2. todo # <<>>
    BY <1>7 DEF NextCommand
  <2>3. CASE ~Passes(c, r)
    BY <1>2, <2>1, <2>3 DEF Fail, Goto
  <2>4. CASE Passes(c, r)
    <3>1. ~Refused' => Heard /\ line' = device'.line /\ device'.on = device.on
      <4>1. CASE r = "OK"
        BY <1>1, <2>1, <4>1, CommandOutcome, DidCommand DEF Switched, Heard
      <4>2. CASE r # "OK"
        BY <1>1, <2>1, <4>2, CommandOutcome DEF Switched, Heard
      <4>. QED BY <4>1, <4>2
    <3>2. LineAgrees'
      BY <3>1 DEF LineAgrees, Heard
    <3>3. todo' = Tail(todo) /\ pc' = pc
      BY <2>1, <2>4
    <3>4. ASSUME pc = "Configure", Tail(todo) # <<>>
          PROVE  Sets(Tail(todo)[Len(Tail(todo))]) = {}
      BY <1>1, <2>2, <3>4, TakeCommand DEF Lines
    <3>5. ASSUME pc = "Configure", Tail(todo) = <<>> PROVE ~Refused'
      <4>1. Sets(c) = {}
        BY <1>1, <2>2, <3>5, TakeCommand DEF Lines
      <4>2. r = "OK"
        BY <2>4, <3>5, <4>1 DEF Passes
      <4>. QED BY <1>1, <2>1, <4>2, CommandOutcome
    <3>. QED BY <3>2, <3>3, <3>4, <3>5 DEF Lines
  <2>. QED BY <2>3, <2>4
<1>8. CASE Identified
  <2>1. CASE model = "Unknown"
    BY <1>2, <1>8, <2>1 DEF Identified, Fail, Goto
  <2>2. CASE model # "Unknown"
    <3>1. /\ pc = "Identify" /\ pc' = "Configure" /\ todo' = Configure
          /\ UNCHANGED <<line, modemStatus, device>>
      BY <1>8, <2>2 DEF Identified, Listed, Goto
    <3>. QED BY <3>1, ConfigureList DEF Lines, LineAgrees, Heard, Refused
  <2>. QED BY <2>1, <2>2
<1>9. CASE Started
  BY <1>9 DEF Started, Listed, Goto, Lines, LineAgrees, Heard, Refused
<1>10. CASE SimUnlocked \/ Queried \/ NetworkFound \/ GprsFound
            \/ NetworkConnected
  BY <1>3, <1>10 DEF SimUnlocked, Queried, NetworkFound, GprsFound,
                     NetworkConnected, Listed, Goto
<1>11. CASE Leave
  BY <1>11 DEF Leave, Goto, Lines, LineAgrees, Heard, Refused
<1>12. CASE SimReady
  BY <1>12 DEF SimReady, Lines, LineAgrees, Heard, Refused
<1>13. CASE NetworkActs
  <2>1. /\ device'.on = device.on /\ device'.line = device.line
        /\ UNCHANGED <<pc, todo, line, modemStatus>>
    BY <1>1, <1>13, NetworkStep
  <2>. QED BY <2>1 DEF Lines, LineAgrees, Heard, Refused
<1>14. CASE UNCHANGED vars
  BY <1>14 DEF vars, Lines, LineAgrees, Heard, Refused
<1>. QED BY <1>4, <1>5, <1>6, <1>7, <1>8, <1>9, <1>10, <1>11, <1>12, <1>13,
            <1>14 DEF Next, Driver, Environment, NetworkActs

-----------------------------------------------------------------------------
(* Services *)

\* A command of a list: what it does, and what is left of the list.
LEMMA Given ==
  ASSUME Typed, NextCommand
  PROVE  \E c \in Left(todo), r \in Outcome :
           /\ Command(c, r)
           /\ Left(todo) = {c} \cup Left(Tail(todo))
           /\ pc \in Listing
           /\ IF Passes(c, r) THEN todo' = Tail(todo) /\ pc' = pc
              ELSE pc' = "PowerOff"
           /\ clean' = (clean /\ r = "OK")
           /\ IF r = "OK" THEN Learns(c)
              ELSE UNCHANGED <<model, registered, gprs>>
           /\ device' \in {device, Did(c)}
           /\ r = "OK" => device' = Did(c)
           /\ Did(c).services = (device.services \cup Starts(c)) \ Ends(c)
           /\ Did(c).lost = device.lost \ Starts(c)
           /\ Did(c).kind = device.kind
<1>1. todo # <<>> /\ todo \in Seq(Order) /\ device \in DeviceState
  BY DEF NextCommand, Typed
<1>2. Left(todo) = {Head(todo)} \cup Left(Tail(todo))
  BY <1>1, TakeCommand
<1>3. PICK r \in Outcome :
        /\ Command(Head(todo), r)
        /\ IF Passes(Head(todo), r)
           THEN todo' = Tail(todo) /\ UNCHANGED <<pc, attempts>> ELSE Fail
        /\ clean' = (clean /\ r = "OK")
        /\ IF r = "OK" THEN Learns(Head(todo))
           ELSE UNCHANGED <<model, registered, gprs>>
  BY DEF NextCommand
<1>4. pc \in Listing
  BY DEF NextCommand
<1>. QED BY <1>1, <1>2, <1>3, <1>4, CommandOutcome, DidCommand DEF Fail, Goto

\* Services are only started by the list that starts them.
LEMMA StartingStep ==
  ASSUME Typed, Models, Starting, [Next]_vars PROVE Starting'
<1>. USE DEF knownVars
<1>1. device \in DeviceState /\ device.kind \in Model
  BY DEF Typed, DeviceState
<1>2. device'.kind = device.kind
  BY TypedStep
<1>. DEFINE Lists == {"Identify", "Configure", "Query", "Disconnect", "StartGprs"}
<1>3. ASSUME pc' \notin Lists,
             "TLS" \in device'.services => "TLS" \in device.services
      PROVE  Starting'
  BY <1>2, <1>3 DEF Starting
<1>4. ASSUME NEW c \in {"AT", "CPIN?", "CGATT=1"}, NEW r \in Outcome,
             Command(c, r)
      PROVE  "TLS" \in device'.services => "TLS" \in device.services
  <2>1. "TLS" \notin Starts(c)
    BY SingleEffects
  <2>2. device' = device \/ device' = Did(c)
    BY <1>1, <1>4, CommandOutcome
  <2>. QED BY <1>1, <2>1, <2>2, DidCommand
<1>5. CASE PowerOnImpl
  BY <1>1, <1>3, <1>5, DeviceKept DEF PowerOnImpl, Goto
<1>6. CASE Autobaud
  <2>1. PICK r \in Outcome : Command("AT", r)
    BY <1>6 DEF Autobaud
  <2>2. "TLS" \in device'.services => "TLS" \in device.services
    BY <1>4, <2>1
  <2>3. CASE pc' = "Identify" /\ todo' = Identify
    BY <1>2, <2>2, <2>3, PlainLists DEF Starting, Plain
  <2>4. CASE pc' = pc
    BY <1>3, <1>6, <2>2, <2>4 DEF Autobaud
  <2>. QED BY <1>6, <2>3, <2>4 DEF Autobaud, Goto
<1>7. CASE UnlockSim \/ AttachGprs
  <2>1. PICK c \in {"CPIN?", "CGATT=1"}, r \in Outcome : Command(c, r)
    BY <1>7 DEF UnlockSim, AttachGprs
  <2>2. "TLS" \in device'.services => "TLS" \in device.services
    BY <1>4, <2>1
  <2>3. pc' \notin Lists
    BY <1>7 DEF UnlockSim, AttachGprs, Fail, Goto
  <2>. QED BY <1>3, <2>2, <2>3
<1>8. CASE NextCommand
  <2>1. PICK c \in Left(todo), r \in Outcome :
          /\ Left(todo) = {c} \cup Left(Tail(todo))
          /\ pc \in Listing
          /\ IF Passes(c, r) THEN todo' = Tail(todo) /\ pc' = pc
             ELSE pc' = "PowerOff"
          /\ device' \in {device, Did(c)}
          /\ Did(c).services = (device.services \cup Starts(c)) \ Ends(c)
    BY <1>8, Given
  <2>2. "TLS" \in device'.services => device'.kind = "SIM7600"
    <3>1. CASE pc # "StartGprs"
      <4>1. Starts(c) = {}
        BY <2>1, <3>1 DEF Starting, Listing
      <4>. QED BY <1>2, <2>1, <4>1 DEF Starting
    <3>2. CASE pc = "StartGprs"
      <4>1. device.kind = "SIM800" => "TLS" \notin Starts(c)
        BY <2>1, <3>2, StarterEffects DEF Starting
      <4>. QED BY <1>1, <1>2, <2>1, <4>1 DEF Starting, Model
    <3>. QED BY <3>1, <3>2
  <2>3. Left(Tail(todo)) \subseteq Left(todo)
    BY <2>1
  <2>. QED BY <1>2, <2>1, <2>2, <2>3 DEF Starting
<1>9. CASE Identified \/ SimUnlocked
  <2>1. /\ UNCHANGED device
        /\ \/ pc' = "PowerOff"
           \/ pc' = "Configure" /\ todo' = Configure
           \/ pc' = "Query" /\ todo' = Query
    BY <1>9 DEF Identified, SimUnlocked, Fail, Goto
  <2>. QED BY <1>2, <2>1, ConfigureList, PlainLists DEF Starting, Plain
<1>10. CASE GprsFound
  <2>1. /\ pc' = "StartGprs" /\ todo' = StartGprs /\ UNCHANGED device
        /\ model = device.kind
    BY <1>10 DEF GprsFound, Goto, Models, Recognized
  <2>. QED BY <1>1, <2>1, StartLists DEF Starting
<1>11. CASE Leave
  <2>1. pc' = "Disconnect" /\ todo' = Disconnect /\ UNCHANGED device
    BY <1>11 DEF Leave, Goto
  <2>. QED BY <2>1, PlainLists DEF Starting, Plain
<1>12. CASE AutobaudFails \/ WaitFails \/ Disconnected \/ Started \/ Queried
            \/ NetworkFound \/ NetworkConnected \/ PowerOnFails
            \/ PowerOnFailsAgain
  BY <1>3, <1>12 DEF AutobaudFails, WaitFails, Disconnected, Started, Queried,
                     NetworkFound, NetworkConnected, PowerOnFails,
                     PowerOnFailsAgain, Fail, Goto
<1>13. CASE PowerOffImpl \/ Crash
  <2>1. /\ pc' = "Off" /\ device' \in {device, OffDevice}
    BY <1>13 DEF PowerOffImpl, Crash, Goto
  <2>. QED BY <1>1, <1>3, <2>1, DeviceKept
<1>14. CASE SimReady
  BY <1>14 DEF SimReady, Starting
<1>15. CASE NetworkActs
  <2>1. /\ "TLS" \in device'.services => "TLS" \in device.services
        /\ UNCHANGED <<pc, todo>>
    BY <1>1, <1>15, NetworkStep
  <2>. QED BY <1>2, <2>1 DEF Starting
<1>16. CASE UNCHANGED vars
  BY <1>16 DEF vars, Starting
<1>. QED BY <1>5, <1>6, <1>7, <1>8, <1>9, <1>10, <1>11, <1>12, <1>13, <1>14,
            <1>15, <1>16 DEF Next, Driver, Environment, NetworkActs

\* What sockets need is started before the network is called connected.
LEMMA BuildingStep ==
  ASSUME Typed, Models, Starting, Building, [Next]_vars PROVE Building'
<1>. USE DEF knownVars
<1>1. device \in DeviceState /\ device.kind \in Model
  BY DEF Typed, DeviceState
<1>2. device'.kind = device.kind
  BY TypedStep
<1>3. ASSUME pc' \notin {"StartGprs", "Active"} PROVE Building'
  BY <1>3 DEF Building
<1>4. CASE PowerOnImpl \/ AutobaudFails \/ Identified \/ Started \/ UnlockSim
           \/ SimUnlocked \/ Queried \/ NetworkFound \/ AttachGprs
           \/ Disconnected \/ PowerOffImpl \/ PowerOnFails
           \/ PowerOnFailsAgain \/ WaitFails \/ Leave \/ Crash
  BY <1>3, <1>4 DEF PowerOnImpl, AutobaudFails, Identified, Started, UnlockSim,
       SimUnlocked, Queried, NetworkFound, AttachGprs, Disconnected,
       PowerOffImpl, PowerOnFails, PowerOnFailsAgain, WaitFails, Leave, Crash,
       Fail, Goto
<1>5. CASE Autobaud
  BY <1>3, <1>5 DEF Autobaud, Goto
<1>6. CASE NextCommand
  <2>1. PICK c \in Left(todo), r \in Outcome :
          /\ Left(todo) = {c} \cup Left(Tail(todo))
          /\ pc \in Listing
          /\ IF Passes(c, r) THEN todo' = Tail(todo) /\ pc' = pc
             ELSE pc' = "PowerOff"
          /\ r = "OK" => Learns(c) /\ device' = Did(c)
          /\ Did(c).services = (device.services \cup Starts(c)) \ Ends(c)
          /\ Did(c).lost = device.lost \ Starts(c)
    BY <1>6, Given
  <2>2. CASE pc # "StartGprs"
    BY <1>3, <2>1, <2>2 DEF Listing
  <2>3. CASE pc = "StartGprs"
    <3>1. Sets(c) = {} /\ Ends(c) = {}
      BY <1>1, <2>1, <2>3, StarterEffects DEF Starting
    <3>2. CASE r # "OK"
      BY <1>3, <2>1, <2>3, <3>1, <3>2 DEF Passes
    <3>3. CASE r = "OK"
      <4>1. /\ todo' = Tail(todo) /\ pc' = pc
            /\ device'.services = device.services \cup Starts(c)
            /\ device'.lost = device.lost \ Starts(c)
        BY <2>1, <3>1, <3>3 DEF Passes
      <4>2. /\ gprs \subseteq gprs'
            /\ c = "CGACT=1" => "pdpActive" \in gprs'
        BY <2>1, <3>3 DEF Learns
      <4>3. \A s \in Needed(device.kind) :
              \/ s \in device'.services \cup device'.lost
              \/ \E d \in Left(todo') : s \in Starts(d)
        BY <2>1, <2>3, <4>1 DEF Building
      <4>4. "pdpActive" \in gprs' \/ "CGACT=1" \in Left(todo')
        BY <2>1, <2>3, <4>1, <4>2 DEF Building
      <4>5. "attached" \in gprs'
        BY <2>3, <4>2 DEF Building
      <4>. QED BY <1>2, <2>3, <4>1, <4>3, <4>4, <4>5 DEF Building
    <3>. QED BY <3>2, <3>3
  <2>. QED BY <2>2, <2>3
<1>7. CASE GprsFound
  <2>1. /\ pc' = "StartGprs" /\ todo' = StartGprs /\ UNCHANGED device
        /\ model = device.kind /\ "attached" \in gprs'
    BY <1>7 DEF GprsFound, Goto, Models, Recognized, Attached
  <2>2. Left(todo') = Starters(device.kind)
    BY <1>1, <2>1, StartLists
  <2>3. "CGACT=1" \in Left(todo')
    BY <2>2 DEF Starters
  <2>4. \A s \in Needed(device.kind) : \E c \in Left(todo') : s \in Starts(c)
    <3>1. CASE device.kind = "SIM800"
      <4>1. "CIICR" \in Left(todo') /\ Needed(device.kind) = {"PDP", "IP"}
        BY <2>2, <3>1 DEF Starters, Needed
      <4>. QED BY <2>3, <4>1, StarterEffects
    <3>2. CASE device.kind = "SIM7600"
      <4>1. /\ "NETOPEN" \in Left(todo') /\ "CCHSTART" \in Left(todo')
            /\ Needed(device.kind) = {"PDP", "IP", "TLS"}
        BY <2>2, <3>2 DEF Starters, Needed
      <4>. QED BY <2>3, <4>1, StarterEffects
    <3>. QED BY <1>1, <3>1, <3>2 DEF Model
  <2>. QED BY <2>1, <2>3, <2>4 DEF Building
<1>8. CASE NetworkConnected
  <2>1. /\ pc = "StartGprs" /\ todo = <<>> /\ pc' = "Active"
        /\ UNCHANGED <<device, gprs>>
    BY <1>8 DEF NetworkConnected, Listed, Goto
  <2>2. Left(todo) = {}
    BY <2>1, Few
  <2>. QED BY <2>1, <2>2 DEF Building
<1>9. CASE SimReady
  BY <1>9 DEF SimReady, Building
<1>10. CASE NetworkActs
  <2>1. /\ device.services \cup device.lost
             \subseteq device'.services \cup device'.lost
        /\ UNCHANGED <<pc, todo, gprs>>
    BY <1>1, <1>10, NetworkStep
  <2>. QED BY <1>2, <2>1 DEF Building
<1>11. CASE UNCHANGED vars
  BY <1>11 DEF vars, Building
<1>. QED BY <1>4, <1>5, <1>6, <1>7, <1>8, <1>9, <1>10, <1>11
         DEF Next, Driver, Environment, NetworkActs

\* What has been started is ended when the session ends well.
LEMMA ReleasingStep ==
  ASSUME Typed, Models, Starting, Building, Releasing, [Next]_vars
  PROVE  Releasing'
<1>. USE DEF knownVars
<1>1. device \in DeviceState /\ device.kind \in Model
  BY DEF Typed, DeviceState
<1>2. ASSUME ~clean' PROVE Releasing'
  BY <1>2 DEF Releasing, RadioReleased
<1>3. ASSUME UNCHANGED clean, pc \notin {"Active", "Disconnect", "PowerOff", "Off", "RetryDelay"}
      PROVE  Releasing'
  BY <1>2, <1>3 DEF Releasing
<1>4. CASE PowerOnImpl \/ Crash
  BY <1>2, <1>4 DEF PowerOnImpl, Crash
<1>5. CASE Autobaud \/ AutobaudFails \/ Identified \/ Started \/ UnlockSim
           \/ SimUnlocked \/ Queried \/ NetworkFound \/ AttachGprs
           \/ GprsFound \/ WaitFails
  BY <1>3, <1>5 DEF Autobaud, AutobaudFails, Identified, Started, UnlockSim,
       SimUnlocked, Queried, NetworkFound, AttachGprs, GprsFound, WaitFails,
       Listed
<1>6. CASE PowerOnFails \/ PowerOnFailsAgain \/ PowerOffImpl
  BY <1>6 DEF PowerOnFails, PowerOnFailsAgain, PowerOffImpl, Goto, Releasing,
              RadioReleased
<1>7. CASE NextCommand
  <2>1. PICK c \in Left(todo), r \in Outcome :
          /\ Left(todo) = {c} \cup Left(Tail(todo))
          /\ pc \in Listing
          /\ IF Passes(c, r) THEN todo' = Tail(todo) /\ pc' = pc
             ELSE pc' = "PowerOff"
          /\ clean' = (clean /\ r = "OK")
          /\ r = "OK" => device' = Did(c)
          /\ Did(c).services = (device.services \cup Starts(c)) \ Ends(c)
    BY <1>7, Given
  <2>2. CASE ~clean \/ r # "OK"
    BY <1>2, <2>1, <2>2
  <2>3. CASE clean /\ r = "OK"
    <3>1. pc = "Disconnect" /\ todo' = Tail(todo) /\ pc' = pc
      BY <2>1, <2>3 DEF Releasing, Listing, Passes
    <3>2. Starts(c) = {}
      BY <2>1, <3>1 DEF Starting
    <3>3. device'.services = device.services \ Ends(c)
      BY <2>1, <2>3, <3>2
    <3>4. \A s \in device'.services : \E d \in Left(todo') : s \in Ends(d)
      BY <2>1, <2>3, <3>1, <3>3 DEF Releasing
    <3>. QED BY <3>1, <3>4 DEF Releasing, RadioReleased
  <2>. QED BY <2>2, <2>3
<1>8. CASE NetworkConnected
  BY <1>8 DEF NetworkConnected, Goto, Releasing, RadioReleased
<1>9. CASE Leave
  <2>1. /\ pc = "Active" /\ pc' = "Disconnect" /\ todo' = Disconnect
        /\ UNCHANGED device
    BY <1>9 DEF Leave, Goto
  <2>2. model = device.kind /\ "pdpActive" \in gprs /\ "attached" \in gprs
    BY <2>1 DEF Models, Recognized, Building
  <2>3. {"CIPSHUT", "CGACT=0", "CCHSTOP", "NETCLOSE", "CGATT=0"} \subseteq Order
    BY DEF Order
  <2>4. <<"CGATT=0">> \in Seq(Order) /\ Left(<<"CGATT=0">>) = {"CGATT=0"}
    BY <2>3, Few
  <2>5. /\ Ends("CIPSHUT") = {"IP"} /\ Ends("CGACT=0") = {"PDP"}
        /\ Ends("CCHSTOP") = {"TLS"} /\ Ends("NETCLOSE") = {"IP", "PDP"}
        /\ Ends("CGATT=0") = {"GPRS"}
    BY DEF Ends
  <2>6. device.services \subseteq {"GPRS", "PDP", "IP", "TLS"}
    BY <1>1 DEF DeviceState, Service
  <2>7. CASE device.kind = "SIM800"
    <3>. DEFINE q == <<"CIPSHUT", "CGACT=0">>
    <3>1. q \in Seq(Order) /\ Left(q) = {"CIPSHUT", "CGACT=0"}
      BY <2>3, Few
    <3>2. Disconnect = q \o <<"CGATT=0">>
      BY <2>2, <2>7 DEF Disconnect
    <3>. HIDE DEF q
    <3>3. Left(todo') = {"CIPSHUT", "CGACT=0", "CGATT=0"}
      BY <2>1, <2>4, <3>1, <3>2, TwoLists
    <3>4. "TLS" \notin device.services
      BY <2>7 DEF Starting
    <3>. QED BY <2>1, <2>5, <2>6, <3>3, <3>4 DEF Releasing, RadioReleased
  <2>8. CASE device.kind = "SIM7600"
    <3>. DEFINE q == <<"CCHSTOP", "NETCLOSE">>
    <3>1. q \in Seq(Order) /\ Left(q) = {"CCHSTOP", "NETCLOSE"}
      BY <2>3, Few
    <3>2. Disconnect = q \o <<"CGATT=0">>
      BY <2>2, <2>8 DEF Disconnect
    <3>. HIDE DEF q
    <3>3. Left(todo') = {"CCHSTOP", "NETCLOSE", "CGATT=0"}
      BY <2>1, <2>4, <3>1, <3>2, TwoLists
    <3>. QED BY <2>1, <2>5, <2>6, <3>3 DEF Releasing, RadioReleased
  <2>. QED BY <1>1, <2>7, <2>8 DEF Model
<1>10. CASE Disconnected
  <2>1. /\ pc = "Disconnect" /\ todo = <<>> /\ pc' = "PowerOff"
        /\ UNCHANGED <<device, clean>>
    BY <1>10 DEF Disconnected, Listed, Fail, Goto
  <2>2. Left(todo) = {}
    BY <2>1, Few
  <2>3. clean => device.services = {}
    BY <2>1, <2>2 DEF Releasing
  <2>. QED BY <2>1, <2>3 DEF Releasing, RadioReleased
<1>11. CASE SimReady
  BY <1>11 DEF SimReady, Releasing, RadioReleased
<1>12. CASE NetworkActs
  <2>1. /\ pc \in {"Disconnect", "PowerOff"} =>
             device'.services \subseteq device.services
        /\ UNCHANGED <<pc, todo, clean>>
    BY <1>1, <1>12, NetworkStep
  <2>. QED BY <2>1 DEF Releasing, RadioReleased
<1>13. CASE UNCHANGED vars
  BY <1>13 DEF vars, Releasing, RadioReleased
<1>. QED BY <1>4, <1>5, <1>6, <1>7, <1>8, <1>9, <1>10, <1>11, <1>12, <1>13
         DEF Next, Driver, Environment, NetworkActs

-----------------------------------------------------------------------------
(* What follows *)

\* The inductive invariant holds.
THEOREM Invariance == Spec => []Inv
<1>1. Init => Inv
  <2>. SUFFICES ASSUME Init PROVE Inv
    OBVIOUS
  <2>1. /\ pc = "Off" /\ todo = <<>> /\ model = "Unknown" /\ clean = FALSE
        /\ device.services = {}
    BY DEF Init
  <2>2. Typed
    BY Few DEF Init, Typed, DeviceState, Model
  <2>. QED BY <2>1, <2>2 DEF Inv, Models, Recognized, Lines, LineAgrees,
                            Starting, Building, Releasing, RadioReleased
<1>2. Inv /\ [Next]_vars => Inv'
  BY TypedStep, ModelsStep, LinesStep, StartingStep, BuildingStep,
     ReleasingStep DEF Inv
<1>. QED BY <1>1, <1>2, PTL DEF Spec

\* Both sides of the serial line use the same settings while commands are sent.
THEOREM LinesAgree == Spec => []LineAgrees
<1>1. Inv => LineAgrees
  BY DEF Inv, Lines
<1>. QED BY <1>1, Invariance, PTL

\* Sockets may connect only when what they need has been started, and what of
\* it does not run was ended by the network.
THEOREM NetworkIsReady == Spec => []NetworkReady
<1>1. Inv => NetworkReady
  BY DEF Inv, Models, Recognized, Building, NetworkReady, Needed
<1>. QED BY <1>1, Invariance, PTL

\* A session that ends well leaves no service running.
THEOREM RadioIsReleased == Spec => []RadioReleased
<1>1. Inv => RadioReleased
  BY DEF Inv, Releasing
<1>. QED BY <1>1, Invariance, PTL

=============================================================================
