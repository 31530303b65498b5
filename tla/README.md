# A TLA+ model of lib-gsm

lib-gsm drives GSM modems (SIM800, SIM7600) over AT commands for the minuteos
kernel. An application creates TCP/TLS *sockets* and text *messages*; a *modem
task* powers the modem up, serves them and powers it down when nothing is left;
a *receive task* reads the modem's lines and data. The source is in
`src/targets/all/gsm/` (file names below are relative to it).

## Inventory

| part | source | state | operations | model |
|---|---|---|---|---|
| Socket | Socket.h, Socket.cpp | flag word, receive and transmit pipe | predicates and updates of the flags, Connect, Disconnect, Release | `SocketFlags`, `Modem` |
| Message | Message.h, Message.cpp | flag word, message reference | predicates and updates, WaitUntilProcessed, Release | `MessageFlags`, `Modem` |
| Modem task | Modem.cpp 50-403 | lists of sockets and messages, signals, `process`, the task's frame, sticky `modemStatus` | CreateSocket, SendMessage, Release..., EnsureRunning, Task | `Modem` |
| Receive task | Modem.cpp 405-633 | rxSock, rxLen, the line and its fields | RxTask: lines, prompts, final results, transfer of data | `AT`, `Fields`, `Modem` |
| AT command engine | Modem.h 121-160, Modem.cpp 635-757 | atResult, atComplete/atRequire, the lock, handler, transmit pointers | ATLock, AT, ATFormat, ATResponse, ATComplete | `AT` |
| Field parser | Modem.cpp 759-878 | an iterator over the line | InputFieldCount, InputFieldNum, InputFieldHex, InputFieldFnv | `Fields` |
| SimCom socket operations | SimComModem.cpp 24-348 | channel, byte counts per socket | TryAllocate, Connect, SendPacket, ReceivePacket, CheckIncoming, Close | `SimCom` |
| SimCom events | SimComModem.cpp 855-1172 | flags of sockets, registrations | OnEvent | `SimCom`, `Bringup`; partly |
| SimCom bring-up and power | SimComModem.cpp 350-853 | model, SIM and network flags, line settings | PowerOn/Off, Start, Initialize, UnlockSim, ConnectNetwork, StartGprs, DisconnectNetwork | `Bringup` |
| ModemOptions | ModemOptions.h | none | constants, callbacks | `Bringup`; partly |
| Kernel, pipes, USART, GPIO | not in the repository | | | not modelled |

How they interact. The application changes the lists and the flag words and
raises `process`; the modem task waits for `process` and makes a pass over both
lists; in a pass it calls the driver (XxxImpl), which sends AT commands and
awaits their results. The receive task turns lines into results (ending the
await of the modem task) and into events that change the flags of the socket on
a channel and raise `process`. While a packet of incoming data is being moved
(`rxLen > 0`) the receive task reads no lines and every loop of the modem task
gives way. All tasks are cooperative: control changes hands at awaits only.

What is hard here: pointers into the lists kept across awaits; events and
results in any order; passes cut short by incoming data; one shared `process`
flag; power-off with sockets open, data coming in and new requests arriving;
commands that fail in the middle of a pass; late answers and the sticky status
after a timeout; channel numbers that are used again; bytes counted on both
sides of a failed send; two sides of a serial line that change their settings
one after the other; a processor that is reset while the modem stays on.
`PROJECT.json` lists these hazards line by line with the properties that cover
them.

What makes each part correct: a *socket* is connected at most once, stays closed
and is freed only when neither side uses it; a *message* is processed once and
sent only inside its call; the *modem task* never holds a dangling pointer,
never sleeps on work, does not turn off under a request, and gets rid of
what was released; the *receive task* never writes into a freed socket and does
not outlive its session; the *AT engine* gives each command its own result or
none; the *parser* hands the handlers the fields that are in the line; *channels*
are unique among allocated sockets, a line finds the socket it is about, and no
byte is lost or sent twice; the *bring-up* offers a network only when it is
there, gives back what it has started, and always succeeds again.

## Modules

| module | models |
|---|---|
| `SocketFlags` | the flag word of a socket (a set of flags), each predicate and update of Socket.h |
| `MessageFlags` | the same for Message.h |
| `Modem` | the application calls, the modem task, the receive task's transfers and events, and the modem itself as far as the contracts of the driver calls need it |
| `SocketLife` | abstract: what an application may rely on: free, pending, connected, closed, and the reference it holds |
| `ModemProperties` | fairness, properties, the refinement of `SocketLife`, what the source says and does not keep |
| `AT` | the AT engine, the receive task's reading of lines and prompts, the modem that answers |
| `CommandChannel` | abstract: commands one at a time, each with its own result or none |
| `ATProperties` | its properties and the refinement of `CommandChannel` |
| `SimCom` | the driver's socket operations on both models, the events, the modem's connections |
| `SimComProperties` | channels, lines and bytes, the refinement of `SocketLife` |
| `Fields` | the search for a line's header and the field parser |
| `FieldsProperties` | the same said without loops |
| `Bringup` | a session from power-on to the network and back, with resets of the processor |
| `BringupProperties` | fairness and properties |
| `MCModem`, `MCAT`, `MCSimCom`, `MCFields`, `MCBringup` | instances for TLC |
| `ModemProofs`, `WakeProofs`, `LifeProofs`, `ATProofs`, `BringupProofs`, `SimComProofs`, `StreamProofs`, `FieldsProofs` | theorems checked by TLAPS |

The modules divide the system along its calls. `Modem` has the modem task with
all its loops and takes the driver's calls by contract; `SimCom` has those calls
in full and takes the pass by its order (close, remove, serve); both share
`SocketFlags`. `SimCom` and `Bringup` take a command by its result, which is what
`AT`, by its refinement of `CommandChannel`, gives them. That the contracts in
`Modem` are those of `SimCom` is read off the two modules, not proved; what is
proved is that both implement the same `SocketLife`, so an application sees the
same life of a socket whichever of them it is told by.

A definition preceded by "Slip:" is a plausible mistake that a property is meant
to catch; no specification uses it.

### How `Modem` corresponds to the code

* `pc` is where the task is: the name of the driver call it awaits
  (`ConnectImpl`, ...), of another await (`AwaitProcess`, `AwaitActivity`,
  `Yield`, `AwaitRxStop`, `RetryDelay`), or of a loop (`CloseSockets`,
  `ProcessSockets`, ...). `cur` is `f.s` or `f.m`, `nxt` is `f.next`. Nobody else
  moves while the task is in a loop (`HoldsCpu`). After a timed-out command
  ATLock refuses every command, so awaits that only wait for commands return
  without suspending; `HoldsCpu` covers these too.
* `sockets` and `messages` are the lists in order. `flags[s]`, `mflags[m]` are
  sets of the source's flags; the source's `+` and `-` raise and clear them. An
  object that is not listed has an empty word.
* `process` is the flag `await_acquire_zero(process, 1)` waits for and clears; a
  write to a transmit pipe sets it (the pipe's signal), closing a pipe does not.
* `signals` has the source's signals except ATLock. `atResult` is the result of
  the last command, `modemStatus` the sticky status.
* `rxSock`, `rxLen`: the transfer of a packet in at most `MaxRx` pieces. rxSock is
  NULL for data of an unknown channel, and whenever no transfer is under way
  (the source leaves it stale then).
* The driver's calls appear by their contract: `CommandDone(r)` is the result of
  the last command, each `XxxReturns(r)` has the effect of SimComModem's function
  on the socket for that result. The order of event and result is free: events
  arrive during the await in any order.
* `link[s]` and `inbox[s]` are the modem's end of a socket's connection; the peer
  sends whenever the modem has room (`PeerSends`), without end. What the code
  hears of a connection is what FindSocket(ch, true) finds a socket for: nothing of one
  without TLS, and nothing of a failed open of a SIM800 (`OpenFailsUnheard`). The
  modem answers an open or close request once, refuses the close of a connection
  that is gone, and forgets everything when its power goes. `PoweredOff` is the
  end of PowerOffImpl.
* An ASSERT has no effect (release build); where one can fail a property says so.
* The frame is zeroed when the task starts, as in the kernel's allocation of
  frames; `StopImpl` is not overridden and returns at once.
* After a timed-out command the next start is refused all its autobaud attempts
  (`StartFailed` with AutoBaudFailure), which also clears the sticky status.

Whether a receive pipe has room (`CanAllocate`) is a free choice.

Bounds, all CONSTANTS: `Socket`, `Message` (objects the allocator has), `MaxOut`
(packets in a transmit pipe), `MaxIn` (packets that wait at the modem on one
connection),
`MaxRx` (pieces of a packet), `Channels` (6 on a SIM800; one pool here, `SimCom`
has them all). `Security` gives the values of CreateSocket's `tls`. `Faults` says
which failures the environment may produce: `PowerOn` (PowerOnImpl fails), `Start`
(a command of the bring-up fails), `Error` (a command is refused), `Timeout` (a
command is not answered).

### How `AT` corresponds to the code

* `session` says between which of PowerOnImpl, StartImpl, Initialize, work,
  power-off the modem task is; `pc` is the call of AT or ATFormat it awaits: the
  write of the command, or ATResponse's wait. `returned` is what the last call
  gave its caller.
* Commands are numbered. A pointer the engine keeps (`atResponse`,
  `atTransmitSock`, `atTransmitMsg`) is the number of the command that set it, 0
  when it is null, so a pointer left behind can be told from a fresh one.
* A kind of command stands for all that are answered in the same way: with OK,
  with a line in place of OK, with both in either order, with a prompt before.
  `Required` is the mask of the call's NextATResponse, `Accepted` what the modem
  says when it obeys, `Completing` the lines on which the handler calls
  ATComplete: those with the header it waits for, no line for the identification
  (ATI, whose handler comes with mask 1), and any line at all for +CIFSR.
* A line of the modem's own is an `Event`, which OnEvent knows, or a `Notice`,
  which it does not and which therefore goes to the handler of the pending command
  (`OnResponse`). `misled` is a history variable: a `Notice` has completed +CIFSR
  in this session.
* `tx` and `rx` are the pipes; each line and command carries the number of the
  command it is about, which the code does not see. The modem may add lines of
  its own and packets of data, and answer a command long after its timeout.
* Only the modem task calls AT, so ATLock refuses or takes a free lock, and never
  waits. The lengths of the timeouts are left out.
* `session = "Abandoned"`: StartImpl has given up autobauding, and AutoBaudFailure
  has lifted the refusal, so that the power-off command may meet the late OK of
  an autobaud command. What is sent then is outside the promise.

Bounds: `MaxCommands` commands in a behaviour, `MaxLines` lines waiting when the
modem adds one of its own.

### How `SimCom` corresponds to the code

* The application creates, writes, disconnects and releases sockets.
* `listed`, `flags`, `channel`, `outgoing`, `error` are the members of those names;
  `written` and `position` count the bytes put into the transmit pipe and the
  bytes its reader has been advanced by.
* `phase` is the part of the pass, `pc` and `cur` the driver's call it awaits and
  that call's socket; within "serve" the sockets come in any order. `need` holds
  the bits the pending command still requires, `result` is atResult, `failed`
  that modemStatus is CommandError.
* `command`, `link`, `rx` are the modem: the command it has, its connections by
  pool and channel, the lines it has sent. A line carries the channel the code
  sees and the socket the connection was opened for, which it does not see.
* The pools: one for all sockets on a SIM800; on a SIM7600 one for TLS and one for
  plain sockets, which share numbers.
* Lines with the same handling have one name ("Opened" for "CONNECT OK" and
  "+CCHOPEN: n,0", and so on); the lines of +CIP sockets of a SIM7600 and the
  SIM800's CONNECT FAIL are none the driver knows.

Bounds: `SharedChannels`, `TlsChannels`, `TcpChannels`, `MaxPacket`, `MaxWritten`
(bytes written to a socket), `MaxLines`.

### How `Fields` corresponds to the code

`Scan` is RxTask's loop over the line, a character at a time; `header` is the text
it hashes (a hash is represented by the text hashed), `start` the fields it
leaves: what follows the separator, less a colon there and a space after that,
whether the header ended at that colon or at a comma before it.
`lineFields`, `read`, `last` follow the handlers' calls, in any order.
Integers go from `-MaxInt - 1` to `MaxInt` and wrap around, as the code's do.
Bounds: `Alphabet`, `MaxLength`.

### How `Bringup` corresponds to the code

* `pc` is the function of the driver, or the await in it. Its functions are mostly
  lists of commands, each ending the function when it fails; `todo` is what is
  left of the list. `attempts` counts the tries of autobauding and of +CPIN?.
* `model`, `simReady`, `registered`, `gprs` are the members of those names; they
  survive a session, as the members do, and are reset by Initialize.
* `line` is what the USART has been set to (flow control, parity, baud rate, as
  far as it is not what it starts with), `device.line` the same for the modem. A
  command is heard only when they agree.
* `device.services` is what the modem runs (GPRS, PDP context, IP stack, TLS), and
  `Starts` and `Ends` say which command does what. The network may end the
  context or what stands on it (`Deactivates`); the driver ignores the line, and
  `device.lost` remembers what is missing on that account.
* `Crash` is a reset of the processor: all members are lost, the modem keeps its
  power or loses it. `faults` counts what has gone wrong, at most `MaxFaults`
  times; `clean` is a history variable for `RadioReleased`.

Bounds: `Attempts` (10 in the source), `MaxFaults`. `LineOptions` are
ModemOptions::UseFlowControl and UseParity.

## Fairness

*Modem* (`FairSpec` of `ModemProperties`). The kernel runs every ready task: weak
fairness of `Task`, of `RxStops` and of the modem (it takes the request of a
command it was sent). A line or a piece of data waiting for the receive
task is taken sooner or later: the modem task suspends again and again but also
holds the CPU again and again, so `MoveData`, the send confirmation, the message
reference and the answer to an open or close request are strongly fair. Nothing
is assumed of the application, of the peers, which may send for ever or never,
or of the idle timeout.

*Bring-up* (`FairSpec` of `BringupProperties`). Weak fairness of the driver (the
kernel runs its task), of the SIM's announcement and of the registrations: a
network takes the modem in the end. A wait or a command that fails is a fault,
and there are finitely many of them. Fairness of the driver includes its step
from Off: the liveness properties are about an application that keeps asking for
sessions. Nothing is assumed about resets or about when the task leaves the
network.

## Runs

| run | instance | states | checks |
|---|---|---|---|
| `ModemConnections` | 2 TLS sockets, 2 channels, incoming data, command faults | 2.2 M | `CursorLive`, `RxSockLive`, `NoOrphanLink`, `StartsClean`, refinement `SocketLives` |
| `ModemTraffic` | 1 socket of either kind, 1 message, 2 packets each way in 2 pieces, all faults | 0.8 M | `TypeOK`, `SendingIsAwaited`, `NoLostWakeup`, `IdleIsEmpty`, `NothingStranded` |
| `ModemProgressSockets` | 2 sockets of either kind, 1 channel, incoming data, no faults | 0.14 M | `ReleasedGoes`, `ConnectAnswered` |
| `ModemProgressTraffic` | 1 socket of either kind with traffic both ways, 1 message, no faults | 69 k | `ReleasedGoes`, `MessageProcessed` |
| `ATCommands` | 5 commands of every kind, a line of the modem's own when none waits | 1.3 M | `TypeOK`, `HandlerLive`, `OneConversation`, `AnswerSuffices`, refinement `ChannelKept` |
| `SimComSockets` | 2 sockets, both models, packets of 1 or 2 bytes, 2 late lines | 1.2 M | `ChannelsUnique`, `EventsFindOwner`, `ConnectionOwned`, `StreamIntact`, `AcceptedIsOutgoing`, `ReaderAdvances`, refinement `SocketLives` |
| `Fields` | every line of at most 5 characters out of 7 kinds, 6-bit integers | 0.24 M | `HeaderFound`, `FieldsInStep`, `CountIsLeft`, `NumberMeant`, `NumberIsWhole` |
| `Bringup` | both models and line options, 2 attempts, 3 faults | 27 k | `LineAgrees`, `NetworkReady`, `RadioReleased`, `SessionEnds`, `Recovers` |

What they ask. *Modem*: frames, transfers and connections never outlive a
socket; its life is the one promised, whatever fails; the task does not sleep on
work; what was released goes and what was asked for is answered, as far as the
code sees to that (below). *AT*: no handler outlives its call; until a line has
been mistaken for the answer to +CIFSR, no answer is taken for another
command's, a mask is neither too narrow nor too wide, and the engine is a
command channel. *SimCom*: a channel has one owner, a late line finds the socket
it is about, the byte counts of driver and modem agree after failed sends, and
the reader of a pipe only moves forward, never past what is written; and its
calls and events, too, give a socket the life that is promised. *Fields*: the
header and the fields are those of the line, n calls read n fields, a number is
the one written, and only a field that is a number throughout is called one.
*Bring-up*: both ends of the serial line agree whenever commands are sent, a
session that reaches the network has started what sockets need, what a session
starts it ends, and whatever has gone wrong, a later session reaches the
network.

Why the bounds are enough. *Modem*: two sockets give a list with a neighbour to
lose (`f.next`), and one that is served while another is being connected, closed
or received; objects are created again after they were destroyed, so every run
goes through many lives and power cycles. Two packets in two pieces give a
transfer with a middle and a pipe that is neither empty nor at its bound. In
`ModemProgressSockets` two sockets share one channel, so that one waits until
the other has given it back. `ModemConnections` has TLS sockets only (one
without TLS is told nothing of its connection); the proofs cover both kinds, for
any number of sockets and channels. *AT*: five commands give a failed session,
the abandoned start after it, and commands before and after both; a line that
nobody asked for may come before, between and after the lines of an answer.
*SimCom*: two sockets of equal and of different kinds on both models, one of
them created again on the other's old channel; with one byte of two taken a
packet is sent partly. The one channel of a SIM800 and the one +CCH channel of a
SIM7600 make sockets compete; sockets without TLS and sockets of different kinds
are connected side by side on a SIM7600; the second late line arrives after the
first has changed the state. *Fields*: the longest construct, a channel, its
comma and space, a character of header and a separator, has five characters; two
digits overflow six bits in hexadecimal. *Bring-up*: three faults give a fault
while recovering from the recovery from a fault. Where a proof is given below it
covers all sizes; for liveness there is none. There `MaxIn = MaxRx = 1` bounds
what waits at the modem, not what comes: a packet that has been moved is
followed by the next, before the next pass if the peer likes. A third socket,
which would wait for a socket that waits, is not tried.

Sockets are interchangeable, so `Symmetry` is used where there are two, but never
with liveness. Deadlock is checked in `Bringup` and in the runs of `SimCom`; elsewhere the
behaviour may really end: an application that asks for nothing more leaves a
system without a task, `MaxCommands` ends the session, a line ends.

### What the code does not keep

Each of these runs checks one statement of the source and finds it violated.

| run | statement | what happens |
|---|---|---|
| `ModemRequestsRestart` | "further processing requests will force the modem to restart" (Modem.cpp:361) | a socket created while the network is disconnected is finished, the modem stays off |
| `ModemLeftoversClosed` | a socket that is neither new nor being closed when the task starts "should have been closed already" (Modem.cpp:183) | a session that ends during a transfer skips finishing the sockets (Modem.cpp:381): they stay connected, and the modem has forgotten the connection |
| `ATMessageTransmitted` | "Sets the message which will be transmitted during the AT command" (Modem.h:140) | a socket's send that is refused before its prompt leaves `atTransmitSock` set; RxTask looks at it first (Modem.cpp:418) and answers the next message's prompt with the socket's data |
| `SimComOpenIsConnected` | "Socket has been connected" (Socket.h:38) | events only find secure sockets (SimComModem.cpp:939), a plain one on a SIM800 is never marked |

The properties that pass are stated around these and around the following, which
the models show or which were seen while reading:

* What never comes. Events find TLS sockets only, so a socket without TLS keeps
  the modem's reference once it is bound: it is never freed, its channel never comes
  back, the lists are never empty and the modem is never turned off. A SIM800's
  CONNECT FAIL is no event the driver knows (SimComModem.cpp:908): its TLS socket
  gets no answer and stays in the same way. A socket bound after it was closed (the
  line comes before the OK, SimComModem.cpp:101) stays, as its close request is
  refused and the OK of a later command hides the failure (Modem.cpp:349). These are
  the sockets `Forgotten` names; `ReleasedGoes` and `ConnectAnswered` claim nothing
  of a run in which a socket is so for good; `ConnectAnswered`, which is about TLS
  sockets, claims nothing either of one that has to wait for a channel for ever
  (`Waiting`).
* Starvation. While a packet is being moved each loop of a pass ends early
  (`!rxLen`; for messages Modem.cpp:327). A peer whose next packet is there when a
  pass begins cuts every pass, and closes, opens and messages wait as long as that
  goes on. The three liveness properties of `Modem` are about behaviours in which data
  ceases to come in (`DataCeases`); without this condition TLC refutes each.
* Sockets. Lines are still read while PowerOffImpl is awaited, after the sockets
  were finished: data then meets a finished socket and `ASSERT(IsConnected())`
  (Socket.h:166). A socket that is not bound is never closed on request
  (Socket.h:92). A refused +CIPSSL leaves it ModemConnecting (SimComModem.cpp:80).
  Disconnect drops what was not sent. A socket released
  while power-on fails stays listed until the next request (Modem.cpp:235). A
  socket with ModemIncoming that is closed makes the task poll (Modem.cpp:315).
  The check for more data wants ModemIncoming, which the request has cleared
  (Modem.cpp:320).
* Messages. `Sent()` (Message.h:42) is true of a message that waits or has failed
  and false of one that was sent. A message whose +CMGS reference came but whose
  OK did not is marked as failed (Modem.cpp:331). After a timeout the text may be
  copied while its message is destroyed (Modem.cpp:428). A message left by a
  modem that did not power on stays (`NothingStranded` excuses it).
* Commands. OnReceivePlainIP (SimComModem.cpp:598) completes +CIFSR on any line
  that OnEvent does not know: the bring-up goes on before the modem has decided,
  and the answer, or ERROR, comes during a later command. The model takes that
  step; `OneConversation`, `AnswerSuffices` and `ChannelKept` promise nothing for
  the rest of that session. CLOSE OK completes whatever is pending, and after a
  timeout rewrites `atResult` (ASSERT at Modem.h:144); it does so too late to be
  looked at, since after a timeout every command is refused at once and the pass
  tests `atResult` (Modem.cpp:349) before the task gives way, so `SimCom` leaves
  the result alone. The autobaud attempts collapse after the
  first timeout, as ATLock refuses the others (SimComModem.cpp:464); the +CPOF at
  a mismatched line then brings the refusal back, so that the next session is
  lost as well and the one after it succeeds (`Recovers`). The late OK of an
  autobaud AT can complete the power-off command.
* Receive task. A transfer into a full pipe holds it, and the power-off that waits
  for it (Modem.cpp:392).
* Bring-up. `sim.pinRequired` is never set, so no PIN is ever sent, and a locked SIM
  is reported as not inserted. DisconnectNetworkImpl is not called when StartGprs
  fails; what runs then ends with the power. NetworkDisconnecting is never
  cleared from TcpStatus (SimComModem.cpp:880, Modem.cpp:372); `GsmStatus::Ok`
  overwrites Roaming. A quoted location area is never parsed as a number.
  "+PDP: DEACT" is ignored (SimComModem.cpp:1161): the session goes on without a
  context. `NetworkReady` is therefore about the bring-up, and leaves out what
  the network has ended since.

## Proofs

The provers establish the following for every value of the constants that
satisfies the modules' assumptions: any number of sockets, messages, channels,
packets, commands, attempts and faults. `ModemAssumption` says that NULL is no
object, sockets and messages are different objects, the bounds are numbers and a
packet has at least one piece; `ATAssumption` and `BringupAssumption` that the
bounds are numbers and there is at least one attempt; `SimComAssumption` that NULL
is no socket, the bounds are numbers and a packet has at least one byte;
`FieldsAssumption` that the length of a line and the largest int are numbers.

| module | theorem | says |
|---|---|---|
| `ModemProofs` | `TypeCorrect` | `Spec => []TypeOK` |
| | `CursorsLive` | `Spec => []CursorLive` |
| | `SendsAwaited` | `Spec => []SendingIsAwaited` |
| | `PowerOnIsClean` | `Spec => []StartsClean` |
| | `IdleListsEmpty` | `Spec => []IdleIsEmpty` |
| | `TransfersLive` | `Spec => []RxSockLive` |
| | `LinksOwned` | `Spec => []NoOrphanLink` |
| `WakeProofs` | `NoWakeupLost` | `Spec => []NoLostWakeup` |
| | `NoneStranded` | `Spec => []NothingStranded` |
| `LifeProofs` | `LifeImplemented` | `Spec => SocketLives`: the system implements `SocketLife` |
| `ATProofs` | `TypeCorrect`, `HandlersLive` | `Spec => []TypeOK`, `Spec => []HandlerLive` |
| | `ConversationKept` | `Spec => []OneConversation` |
| | `MasksSuffice` | `Spec => []AnswerSuffices` |
| | `ChannelImplemented` | `Spec => ChannelKept`: the engine implements `CommandChannel` |
| `BringupProofs` | `LinesAgree` | `Spec => []LineAgrees` |
| | `NetworkIsReady` | `Spec => []NetworkReady` |
| | `RadioIsReleased` | `Spec => []RadioReleased` |
| `SimComProofs` | `TypeCorrect` | `Spec => []TypeOK` |
| | `ChannelsAreUnique` | `Spec => []ChannelsUnique` |
| | `ConnectionsAreOwned` | `Spec => []ConnectionOwned` |
| | `LinesFindOwner` | `Spec => []EventsFindOwner` |
| `StreamProofs` | `StreamsAreIntact` | `Spec => []StreamIntact` |
| | `AcceptedPackets` | `Spec => []AcceptedIsOutgoing` |
| | `ReadersAdvance` | `Spec => ReaderAdvances` |
| | `LifeImplemented` | `Spec => SocketLives`: the driver implements `SocketLife`, too |
| `FieldsProofs` | `HeaderIsFound` | `Spec => []HeaderFound` |
| | `FieldsStayInStep` | `Spec => []FieldsInStep` |
| | `CountIsOfCallsLeft` | `Spec => []CountIsLeft` |
| | `NumbersAreWhole` | `Spec => []NumberIsWhole` |
| | `NumbersAreMeant` | `Spec => []NumberMeant` |

Each module first proves an inductive invariant (`Invariance`, `Owners`, `Woken`,
`CountsAgree`, `FieldsInvariance`), which held in TLC on the instance of the
module's run before it was proved, with one lemma per group of actions and part of
the invariant.

**ModemProofs.** The parts of `Inv` need each other. `TypeOK` is not inductive:
`f.s = f.s->next` has a type only if `f.s` is in the list, and the modem's
confirmation takes a packet from a pipe only if there is one. `FrameInv` says that
`f.s`, `f.m`, `f.next` are in their lists wherever the task will use them; it holds
because only the task removes elements, and at no point where `FrameInv` speaks.
`SendInv` adds to `SendingIsAwaited` that the packet is in the pipe until the modem
has confirmed it and that a message being sent is still to be sent. `TaskInv`: the
task runs exactly when TaskActive is up, so no application call leaves an awaited
call by starting another task. `CleanInv` adds to `StartsClean` that the receive task runs only
between power-on and power-off and takes its transfer with it.

Its second part (`Owners`): a socket in use (it has a connection or a transfer) is listed and
kept by one of three: ModemReference; the call that opens its connection; or the
end of the session, which is sure once a command of this pass has timed out, as
everything after it is refused and no sweep comes before power-off. A transfer
is only for a socket with a connection, except while power-off waits for the
receive task. So the sweeps, which do not look at `rxLen`, destroy nothing in use.

**WakeProofs.** Call the system quiet when `process` is down and no transfer is
under way. While it is quiet, what a loop of the pass has left behind needs
nothing more from that loop, and at the end of the pass nothing needs anything:
everyone but the task who changes a flag raises `process`, except for
confirmations inside the calls that send, after which the task raises it itself.
Three facts carry this: a free channel does not come back within a pass, the
cursor leaves behind at most the element it was at, and no object is listed
twice. The power-off and the ends of the task add that sockets are finished and
messages processed before the task ends.

**LifeProofs.** `LifeInv`: the modem holds a socket that it has a connection for
unless that was told closed or is being opened, and holds one that was told
connected. So nothing that IsConnected() is destroyed. Most updates of a flag
word cannot be told by the application (`SameLife`); the others are the steps
Create, Release, Connect, Close and Destroy of `SocketLife`.

**ATProofs.** `Numbered`: a command is in one place, and undecided until the modem
has it. `Sessions`: a success that starts a session was not had under the sticky
status. `Conversation`, while commands are not refused and no line has been
mistaken: nothing is on its way between calls; in a call, what waits
in the pipe and what the modem still has to say are exactly the bits of the mask that are missing. So a result is the
modem's verdict on the command that waits, whatever the order of its lines.

**BringupProofs.** `Lines`: the last command of Initialize's list is no setting, so
when the list has ended the modem has obeyed at the present settings, which
therefore agree. `Building`: each service sockets need runs, has been ended by
the network, or is still on the list. `Releasing`: when a session ends well, what
runs is still to be ended by a command on the list.

**SimComProofs.** `UseInv`: a socket is in use while the modem has a connection for
it or has sent a line about it that is not yet read; it is then kept by one of
three, as in ModemProofs. That its reference may go with a line that tells the end
of its connection needs two facts more: no other line about it follows
(`Ordered`), and the line finds it and no other (`ChannelsUnique`, and plain
sockets of a SIM7600 are told nothing). That it may go with a refused connect
needs `Talk`: until a command is left unanswered, the lines that wait answer the
pending command and no earlier one, so "ERROR" there means that nothing was
opened.

**StreamProofs.** `Ahead(s, n)` says that the modem has taken n bytes more than
the reader of s has been advanced by; `Counted` that n is 0 for every socket
unless its last send has failed, or the answer to it is still to be read. What
makes that inductive is the life of one send. `Given`: a send command carries the
packet of its socket, and when it was given the counts agreed. `Told`: each answer
on its way says how far the modem has got (a DATA ACCEPT takes the packet under
way, +CCHSEND takes it only if it reports success, +CIPACK gives the count itself),
so reading it brings the reader there. `Acked`: once +CIPACK has been read, the
counts agree again, which lets the packet after a failed one be sent. A new
connection starts at 0 on both sides, as only a socket that has never been
connected opens one (`Begun`), and the connection is that socket's while it is
connected (`OpenHeld`, `Vacant`, `Heard`). All this is claimed until a command is
left unanswered; from then on only `Given` is, since the modem may still take
what it was given. `ReaderAdvances` needs a second invariant, `Measured`, which
holds in failed sessions too: the packet under way, the modem's count, what a send
command still asks it to take and the value of a +CIPACK all lie between the
reader and the end of what is written, and no packet is under way for a socket
that is asked about (`Owed`).

`LifeImplemented` maps the driver's steps to those of `SocketLife` like LifeProofs
does for the task's. An event or a result changes one flag word, in a way the
application cannot tell (`Alike`) or as Connect or Close; the removal of sockets
in a pass is the Destroy of a set. What is needed of the state: a socket that
IsConnected() is kept (`OpenHeld`), so none is destroyed while it is; calls and lines
change listed sockets only (`FrameInv`, `FlagInv`); and what is not listed has no
owner (`Unowned`). The last is an invariant by the abstract specification alone:
every step being one of its steps, none gives a free socket an owner but Create.

**FieldsProofs.** `Scan` is a function over the positions of the line; that one
with its recursion exists is proved first (`ScanExists`, from the least position
without a partial one), since no induction theorem can be instantiated here. What
it has passed (`Searched`) is a beginning made of channels, and no separator
since; `HeaderFound` follows at its end by comparing with the greatest such
beginning. For the fields `FieldsInv` says that what is left starts after as many
commas as fields have been read, or is empty when there are not so many, so one
call moves by one comma whatever the field contains. For the value of a number
`Meant` weighs the digits from the last one on, the code multiplies from the first
one on and cuts off in between. Between them goes an invariant of the loop
(`AccumulatedMeans`): what has been accumulated, at the worth of the digits to
come, and those digits make the whole number but for multiples of `Modulus`.
Induction over the digits goes through the least exception (`UpTo`), the functions
both definitions recur by exist by it (`StepByStep`), and the remainder enters by
its quotient (`Remainder`).

**Only model-checked.** Liveness (`ReleasedGoes`, `ConnectAnswered`,
`MessageProcessed`, `SessionEnds`, `Recovers`): TLAPS does not reason about
fairness here. Every invariant, every action property and every refinement that
the runs check is proved. The statements the code does not keep are refuted by
TLC.

## Not modelled

* The kernel, the pipes, USART and GPIO are not in the repository. Scheduling is
  the fairness above; pipes are counts, or sequences of lines.
* Reports to the application that decide nothing in the library: GsmStatus,
  SimStatus, TcpStatus, signal strength (+CSQ), cell (+CPSI, location area), cfun,
  the callbacks and texts of ModemOptions, diagnostics and logging.
* The lengths of timeouts and delays.
* The error line that makes RxTask yield (Modem.cpp:526), and noise on an idle line.
* In `SimCom`, power-off finishes the sockets always, as no transfer is under way
  there; `Modem` has the case where it does not.

What could be added: `SimCom`'s contracts shown to be those `Modem` takes (the two
joined), and the transfer of a packet's bytes through a receive pipe that is
full.
