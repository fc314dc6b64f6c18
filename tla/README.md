# A verification of MinecraftNetwork

TLA+ models of the networking library in `src/Network/src/Network`, checked with
TLC on small instances, with theorems about them that TLAPS checks for every
value of the constants. Line numbers refer to the files of that directory.

## 1. The system

A `DedicatedServer` accepts TCP connections, a `DedicatedClient` makes one. At
each end a `Connection` validates the other with an exchange of three 64-bit
words and an ID, and then reads and writes messages, each an 8-byte header and a
body. All network work of an owner is done by the one thread that runs its
`asio::io_context`; the application's threads send messages (`Send` posts a
lambda to the context) and take the received ones from a thread-safe deque
(`PollMessages`).

    application thread                     context thread               peer
    MessageAll, Send  --post(lambda)-->    Connection  <==TCP==>  Connection
    PollMessages      <--TSDeque------     ReadHeader/ReadBody chain
    Connect, Disconnect, Start, Stop --->  io_context run/stop/restart

### Components

| component | state | operations | interacts with | what makes it correct |
|---|---|---|---|---|
| `Connection` (Connection.h, .inl) | socket, `m_OutgoingMessages`, `m_TempIncomingMessage`, `m_ID`, `m_ValidationIn/Out/Check` | ConnectToClient, ConnectToServer, Disconnect, Send, handlers WriteValidation1-4, ReadValidation1-4, ReadHeader, ReadBody, WriteHeader, WriteBody | owner through `IConnectable` (Disconnect, OnValidate, OnInvalidate); the owner's deque and context; the peer's bytes | the two ends agree on who is valid; messages arrive in order, once, only after validation; the write chain does not stop |
| `Connection::Encrypt` | none | Encrypt | the exchange | answers differ between kinds of owner, and for different challenges |
| `TSDeque` | deque, its mutex, condition and its mutex, `m_StopWaiting` | Push/Emplace/Pop Front/Back, Empty, Size, Clear, Wait, StopWaiting | context threads add, application threads take | exclusion, no deadlock, order, wake-ups |
| `DedicatedServer` | context and its thread, acceptor, `m_Clients`, `m_NextClientID`, deque | Start, Stop, PollMessages, MessageOne, MessageAll, Disconnect, accept handler | connections, application | every Start keeps accepting; who fails leaves `m_Clients`; IDs are never reused; a message is relayed to everyone else; a client is sent messages in the order they came, none twice; `Stop` returns |
| `DedicatedClient` | context and its thread, `m_Socket` (never opened), `m_pConnection`, deque | Connect, Disconnect, IsConnected, PollMessages, Send | connection, application | one thread at most, which serves the connection until it is stopped; `Disconnect` returns |
| `Message` | header (id, 32-bit size), body | `<<`, `>>`, copy, move | applications | header.size = size of the body; reads undo writes, last first |
| `IConnectable`, `IServer`, `IClient` | none | interfaces and callbacks | | |
| Server.cpp, Client.cpp | | sample applications | | environment of the models |
| Asio (vendored): `win_iocp_io_context` | packets, `outstanding_work_`, `stopped_`, `stop_event_posted_` | run, stop, restart, post, work_started, work_finished | both threads of an owner | no stop is lost, no work is forgotten |
| premake files | | | | |

`ConnectionOwner::PeerToPeerNode` has a case in `Encrypt` and no other code; the
README of the repository announces a peer-to-peer network that is not there yet.

### What is hard

* **Order.** A reader knows what it reads only by counting: a word of a message
  among the words of the exchange, or a body taken for a header, spoils all that
  follows. `MessageAll` sends to clients that are still being validated.
* **Interleaving.** Every lambda posted by `Send` decides from `Empty()` whether a
  write is in progress. In the deque two mutexes are nested; `Wait` tests and sleeps
  in two steps.
* **Failure.** Each of 13 handlers has an error branch; the two owners'
  `Disconnect` do quite different things.
* **Lifetime.** Handlers capture `this`. At a server a queued `OwnedMessage` holds a reference to
  its connection, so it may outlive its removal from `m_Clients`; at a client it holds none
  (Connection.inl:390-393), and `m_pConnection.reset()` destroys the connection at once.
* **Restart.** A context is stopped and run again with handlers of the previous
  connection in it.

PROJECT.json lists the hazards line by line with the properties that cover them.

## 2. Modules

| module | models | built on |
|---|---|---|
| `Session` | what an application gets from a connection, abstractly | |
| `Connection` | the two `Connection` objects of one TCP connection | `Session` (instance) |
| `ConnectionInv` | the inductive invariant `IInv`; `NobodyStuck` and why a connection gets on | `Connection` |
| `MCConnection` | instances for TLC | `ConnectionInv` |
| `ConnectionProofs`, `DeliveryProofs`, `ProgressProofs` | theorems | `ConnectionInv` |
| `TSDeque`, `MCTSDeque`, `TSDequeProofs` | the deque and `PollMessages` | |
| `Cipher`, `MCCipher`, `CipherProofs` | `Encrypt` and the words of a validation | |
| `IoContext` | asio's `io_context` on Windows and the thread that runs it: what both owners share | |
| `IoContextProofs` | what every step of an owner keeps of the context; how packets come up in its queue | `IoContext` |
| `DedicatedClient`, `MCDedicatedClient` | `DedicatedClient`: the application's thread, the context's, connection after connection | `IoContext` |
| `ClientProofs` | theorems | `DedicatedClient`, `IoContextProofs` |
| `Message` | `<<` and `>>` on a body and on the size in the header | |
| `Membership` | what `m_Clients` and the IDs stand for, abstractly | |
| `DedicatedServer`, `MCDedicatedServer` | `DedicatedServer` with several clients and the application of Server.cpp | `IoContext`, `Message`, `Membership` (instance) |
| `ServerProofs` | theorems | `DedicatedServer`, `IoContextProofs` |

`Connection` looks inside one connection and has of its owners only what they do to
it; `DedicatedClient` and `DedicatedServer` look at the owners and have of a connection
only which operations are pending and what a handler starts next. The three meet
in the handlers: a step of `Connection` that starts the next read is `ChainGoesOn`, one that
fills the deque `ChainReceives`, one that ends in `Disconnect` is `Fails` or `Disconnects`,
and the posted lambda and the writer are `SendLambda` and `Written`. The deque is one
variable, `incoming`, as `TSDeque` proves that it may be.

### Connection

*State.* Variables indexed by `Side` are members of the two `Connection` objects:
`sock` is `m_Socket`, `outgoing` is `m_OutgoingMessages` (numbers of messages, in the
order of the calls of `Send`), `temp` is `m_TempIncomingMessage`, `check` and `id` are
`m_ValidationCheck` and `m_ID`. `op` is the asio operation of the chain
connect - validate - read that is pending (the source has never more than one) and
`wr` that of the message writer. `sent - ran` lambdas of `Send` are posted and not
yet run; a context runs posted lambdas in order. `stream` keeps every word an end
has written, `nread` how many the peer has read: TCP neither loses nor reorders.
`inClients` says whether the server's connection is in `m_Clients`; `polled` how many
received messages the server's application has taken.

*Actions.* One per completion handler, from its first line to the operation it
starts: the handlers of a context run one at a time, so each is atomic. An
`async_write` puts its word on the stream when it is started and completes later;
an `async_read` completes when its word is there. An error branch can be taken while
the peer's socket is closed or the link is down (`ChainFails`, `WriterFails`). `Disconnect`
contains what the owner's `Disconnect` does: at the server the reference in
`m_Clients` goes, and the socket with it unless queued messages hold the connection;
at the client nothing, as `DedicatedClient.inl:91` closes another socket.
`Poll` is one iteration of the server's `PollMessages`; `Shutdown` is the application
that stops an owner; `LinkDown` loses the network path for good.

*Abstractions.* A body is one word: `async_read` and `async_write` transfer whole
buffers, so only the fact that a message has a second part matters. The kind of a
word shows what it was written as; a reader that takes it for something else gets
any value of `Data` as a validation value, and either branch of
`header.size > 0` where the upper half of the bytes may be anything. One client is
modelled; the server's connections share only the deque and `m_Clients`. Data
corruption and an end that does not follow the protocol are not modelled; an end of
another kind (another `Encrypt`) is. `Send` on a connection whose `async_connect`
has not completed is modelled with both results (the write is rejected or is
queued by the system). A handler of a connection that was already destroyed would
run on freed memory: such handlers are left out, the connection's state simply ends.

`EarlySends` says whether the application may send before validation ends at its
end. With FALSE the program is used as its comments assume; with TRUE as
`MessageAll` uses it. The theorems about delivery assume FALSE, and the run `early_stream`
shows that they have to.

### Session

The abstract specification: the server admits a client, decides about it and decides
right, the client then learns that it is valid and its ID, and each end receives what the
other sends, in order, when both are validated. The refinement mapping is the
identity but for `alike`, which is `cipher["Server"] = cipher["Client"]`. That the client is
never `invalidated` is part of it: a foreign peer is always found out by the server first.

### TSDeque

A step is what a thread does between two points where another can interfere. The
labels in `pc` are lines of `EmplaceBack` (`PushLock`, `PushNotify`, `PushReturn`), `Wait`
(`WaitEmpty`, `WaitStopped`, `WaitLock`, `WaitSleep`, `WaitRelock`, `WaitUnlock`), `PollMessages`
(`PollEmpty`, and `PopFront` with the body of the loop) and `StopWaiting`. The condition variable
wakes one sleeper per `notify_one`, any one, and may wake one for no reason. `Producers`
are the threads that run a context, `Consumers` the ones that poll.

### Cipher

A word is the set of its 1 bits, so `^`, `&`, `|` and the shifts are operations on
sets and the 64 bits are all there. The state machine computes the three words of an exchange
between two ends of one kind; the invariants compare every kind's answers to them.
`Connection` uses of it what `CiphersAssumption` says, which lemma `KindsDiffer` of
`CipherProofs` proves.

### IoContext

*State.* `port` is the completion port: the packets of completed operations, of posted lambdas
and the stop event. `pending` are the operations the system has not completed.
`outstanding_work`, `stopped` and `stop_event_posted` are the members of `win_iocp_io_context`
of the same names, `pc["Context"]` is where `m_ContextThread` is ("None": it is not joinable).

*Actions.* A thread's step holds at most one interlocked operation: `stop()` is `StopFlag` and `PostStop`, the
end of a handler `WorkFinished`, and a stop event is met in `TakeStop`, `StopSeen`, `CheckStopped` and
`RepostStop`, as in `do_one` (win_iocp_io_context.ipp:410-524). When the work runs out
the context stops itself, from within the handler's exit, by the same two steps. `Restart` is the lambda's call of `restart()`
after `run()` has returned. `Start`, `Post` and `Handle` are what an owner's action
does to the context as a part of itself.

*Abstractions.* The system hands packets out in their order (`GetQueuedCompletionStatus`).
The timer thread and the queue for failed posts are left out: no timer is used, and a post fails only
without memory. Any pending operation may complete at any time, in any order.

### DedicatedClient

*State.* `m_pConnection` is a connection's number, 0 for null. A connection lives while `m_pConnection` points to it
(`Alive`); `incoming` is only a count, as a client queues its messages without an owner. `isOpen` says whether the socket of
that connection is open, so `IsConnected` is `m_pConnection # 0 /\ isOpen`, as in DedicatedClient.inl:65. `then` is where `Disconnect`
returns to, as `Connect` may begin with one. `failed` says whether any connection has met an error, for the properties alone.

*Actions.* The application's thread calls `Connect` (`CallConnect`, `ConnectFails` or `ConnectToServer`,
`StartThread`), `Disconnect` (`TestSocket`, `PostClose`, the steps of `stop()`, `JoinThread`, `Reset`), `Send` (`CallSend`
tests the socket, `PostSend` posts the lambda) and `PollMessages`. The context's thread runs handlers (`HandlerStep`).

`async_connect` with a range of endpoints (asio's `range_connect_op`) opens the socket for each: when one fails, its handler closes the socket
(`CloseSocket`) and opens it again for the next (`Reopen`), and between the two the application's thread may see it closed. `open()` may fail, too, and
then the socket stays closed until the connection is destroyed. `closings` counts both, up to `MaxClosings`. `Connect`
meanwhile leaves out `Disconnect`, since `IsConnected()` is false, and `StartThread` assigns to a `std::thread` that is
still joinable: the program ends (`Terminate`). `ThreadJoined` says that this is the only way to get there.

A handler whose connection is gone (`StaleHandler`, `StaleReopen`) runs on freed memory, so it may crash, do nothing, or find the next connection
in its place. There, a left-over writer takes a message that has a writer of its own, which then calls `Front` and `PopFront` of an empty deque
(`WrittenEmpty`): it crashes, stops, or writes what it finds. Nothing the client's `Disconnect` closes is a connection's
socket (DedicatedClient.inl:91), hence `CloseLambda` changes nothing.

What the model brought out: as long as nothing fails, the context a `Connect` runs has been restarted
(`RunIsPrepared`). After a connection has failed, its work runs out, the
thread restarts the context and ends by itself; the `stop()` of the next `Disconnect` is
then undone by nobody, the next `run()` returns at once and the new connection is
never served. `Served` therefore speaks of connections made while the context is not stopped.

### DedicatedServer, Message, Membership

*State.* Connections are numbered as they are allowed; `m_Clients` is the deque of them, `ids` the
`m_ID` each was given. A message in `incoming` carries its sender and a number that
tells it from others. `current` is the message `OnMessage` is called with, `iteration` the place of `MessageAll` in the deque,
`sentTo` what `Send` was called with on each connection. `audience`, a variable of the properties, is whom the
iteration still has to reach.

*Actions.* Application: `CallStart` and `StartThread`, `CallStop` with the steps of `stop()` and
`JoinThread`, and an iteration of `PollMessages` with the `OnMessage` of Server.cpp: `BouncePing`
in one step, a relayed message in several, one for each element of `m_Clients`
(`RelayMessage`, `MessageElement`, `MessageErased`, `MessageEnd`). Context: the accept
handler (`AcceptAllowed`, `AcceptDenied`, `AcceptThrows`) and the handlers of the connections.

*The race.* Nothing locks `m_Clients`: `MessageAll` reads it on the application's thread while handlers
append and erase on the context's. This is undefined behaviour, given three outcomes: a
handler that changes the deque during an iteration may end the program (`RaceCrashes`); an element
that is gone may be read, with a crash or nothing (`MessageErased`); or the change
happens between two elements. `RelayReachesAll` claims nothing once a client was erased, since those
behind it move and one may be missed.

*Handlers of destroyed connections* meet another one in the same place as at the client (`StaleHandler`, `WrittenEmpty`).

*Messages.* `Message` has bodies of 8-byte values, which is what the applications write: a time or an
ID. `Write` and `AfterRead` change `header.size` modulo `SizeValues`. *Membership*: a client joins with the next ID, leaves for good.

## 3. Runs

| run | instance | shows |
|---|---|---|
| `connection` | two kinds of cipher, 4 values, 2 messages each way, one with a body | `IInv`, which includes the types, delivery in order, agreement, refusal of foreign peers, refinement of `Session`; if nothing fails neither end waits for the other in vain (`NobodyStuck`), validation ends and messages arrive |
| `connection_early` | 1 cipher, 2 values, 2 + 1 messages, sent at any time | the writer's guarantees hold all the same |
| `tsdeque` | 2 producers of 2 messages, 1 polling thread, 1 stopper; polls of 0, 1 or all | exclusion, order, the order of the mutexes (`NobodyStuck`), every call returns (deadlock is checked), wake-up by the next message |
| `cipher` | every value of every byte, every kind | answers can be undone, no echo is right, kinds never agree |
| `client` | 2 connections, 1 Send, 1 queued message, 1 socket closed for another endpoint or not opened | the context's work, stop event and restart; one thread; nobody is stuck (`NobodyStuck`); Disconnect returns; a connection is served |
| `server` | 2 clients, 2 calls of Start, at most 4 of clients, Starts and messages together, Stop at any time, sizes modulo 1024 | accepts for ever, nobody is stuck (`NobodyStuck`), Stop returns, failed clients leave, refinement of `Membership` |
| `server_relay` | 1 Start and no Stop, up to 3 clients, at most 4 of clients and messages together | what is relayed names its sender, reaches everyone else, in order and once |
| `early_stream`, `early_reject`, `early_farewell`, `lost_wakeup`, `client_buffers` | | the code departs from a comment: see below |

*Why the bounds are enough.* Two messages are the fewest with a message queued behind
another, the case the write chain is about; one with and one without a body gives
every sequence header-header and header-body-header a reader can confuse. Two ciphers are the
fewest that can differ. Four values let a challenge, its answer and the answer
to that be three words, as in `Encrypt`. Two producers and two messages each are the fewest in
which a message can be overtaken by its own sender's and by another's. `Encrypt`
treats every byte alone, so all values of each byte cover it. Two connections are the fewest for
which one has a predecessor whose handlers and stop event are left in the context, and one socket closed or not opened is enough for a
`Connect` that sees it closed. In `server` the second Start finds the first one's accept, and what its Stop left, in the context, with one
client still there and another to come, or with a message to relay. `MaxInputs` bounds clients, Starts and messages together, since each of them makes the
state space several times larger. `server_relay` has 4 left for clients and messages: 3 clients and a message, so that one can join and one leave while
`MessageAll` still has somebody to reach, or 2 clients and two messages, of which the later must not overtake the earlier.
Calls of `Stop` and `Disconnect` need no bound. The two server runs take minutes each, `server_relay` with 8.7 million states, so there
is no larger one. What the
bounds leave open the theorems settle for the properties they state.

*Stopping.* The connection, client, server and cipher runs do not check for deadlock: a
connection that has been shut down, or whose messages have all been
delivered, has nothing left to do, and neither have owners whose bounded inputs are used up or a
program that has crashed. That no thread waits for ever is `DisconnectReturns` and `StopReturns`, and, of both owners, `NobodyStuck`: the
context's thread waits nowhere but in `do_one` with an empty port, and then only if an operation that will fill it is pending (or, at a client, the
stop event is about to be posted); the application's waits nowhere but in `join`, and then the context's has a step to take.

*Fairness.* In `Connection`, weak fairness for the handlers of each end: the
context's thread (`DedicatedServer.inl:20`, `DedicatedClient.inl:36`) runs whatever handler
is ready, and asio completes operations whose data is there. A peer's close is
noticed in the end (its operations then fail); a lost link need not be. Nothing is
assumed of the application (`Send`, `Poll`, `Shutdown`) or the accept of a refused client; a refused
client has a closed socket and counts as a failure. In `TSDeque`, strong fairness
for each thread inside a call: a mutex may be free and taken again and again, and the
mutexes of the platform let everyone through in the end. Nobody need call anything, and no
spurious wake-up need happen. In `DedicatedClient` and `DedicatedServer`, weak fairness for
each of the two threads, inside a call and inside `run()`: neither is ever suspended for good. The
client also assumes that every `async_connect` succeeds or fails in the end (`ConnectEnds`), and nothing of its peer or of the operations of a
connection that was destroyed; the server assumes nothing of its clients or the network.

*Divergences.* Five runs end in a violation, each of what a comment says:

* `early_stream`: the server's `MessageAll` (DedicatedServer.inl:75-80) reaches a client that is still being validated; the
  message's header is on the wire right after the challenge, where the client expects the server's answer, against Connection.inl:374.
* `early_reject`: a client that invalidates its server closes the wrong socket
  (DedicatedClient.inl:91), so the server's reads do not fail and it waits for ever, against Connection.inl:375.
  It needs a message in place of the server's answer, which only an early send brings about.
* `early_farewell`: a message sent in OnInvalidate is lost with the connection,
  against Connection.inl:199-200.
* `lost_wakeup`: `Wait` can sleep with a message in the deque (TSDeque.inl:154-157),
  against TSDeque.h:7. `WokenByNextPush` says how far the damage goes.
* `client_buffers`: `Disconnect` destroys a connection (DedicatedClient.inl:58) into whose members a read is
  still pending, against asio's read.hpp:734-736, which asks that buffers live until the handler is called.

## 4. Theorems

All are for every value of the constants. `CiphersAssumption` is the only assumption about
data: two kinds of owner differ on every value.

*ConnectionProofs*, with messages sent at any time: `TypeCorrect`
and `WriterNeverStalls`. Types are not inductive alone: that the queue has a head
when a write completes needs `WriterBusyIffQueued`, and the other way round, so `Base`, their conjunction, is
the invariant.

The third theorem of that kind is `MessagesWhole`, that is `MessageWordsInOrder`. `IInv` (below) is
of no use for it, since words of the exchange may then lie between those of messages. `WInv` relates only the
words of messages: `WireInStep` says which of them is due next (`Due`), from the message at the front of
`outgoing` while a write is pending, and from the number of lambdas that have run when none is. With
`WriterBusyIffQueued` a step that writes such a word writes the one that is due, a word of the exchange
changes nothing (lemma `WordMore`), and after a failed write nothing is written any more.

*DeliveryProofs*, under `~EarlySends`: `Inductive` proves `Spec => []IInv`, and from it
follow `MessagesDelivered`, `PeersAgree`, `ForeignPeersRefused` and `ConnectionImplementsSession`.
`DeliveredInOrder` alone is not inductive: what a reader takes next depends on words that
were written long before. `IInv` says why it works:

* `ServerPhase`, `ClientPhase`: the pending operation of an end tells how many words it has written and
  read, so each knows what the next word is;
* `Handshake`: the words of the exchange answer each other, and `check` is
  what the peer must answer; hence a match means equal ciphers (by `CiphersAssumption`) and, with
  equal ciphers, there is no mismatch;
* `StreamInStep`: behind the exchange a stream is header, body if there is one,
  next header, and so on, up to the last lambda that ran;
* `WriterInStep`: `outgoing` holds the last messages posted, the front one being written;
* `ReaderInStep`: the reader has taken whole messages, or whole messages and a header.

The proof goes by these parts, one lemma for each, one step per action. TLC
checks `IInv` in run `connection`.

Three of the runs that end in a violation send early. `ExchangePrecedesMessages` and `NoClientRefuses` prove
the properties that `early_stream` and `early_reject` refute, under `~EarlySends`: those two comments are true of a program that keeps to it,
and an early send is the only way to break them. There is no such theorem for `early_farewell`: its message is sent in `OnInvalidate`,
and with `~EarlySends` nothing is.

*ProgressProofs*, under `~EarlySends`: what becomes of a connection under the fairness of its threads. The
prover knows nothing of `ENABLED`, which is what WF and SF are made of. `StepsEnabled` bridges this: it says of
each fair action a state in which it is enabled (a word is there for the reader, a lambda is posted, a write
is pending). It is the first part of `NobodyStuck`, which run `connection` checks, and the theorems have `[]StepsEnabled` as a hypothesis.

* `NobodyIsStuck`, that is `NobodyStuck`: between two ends that encrypt alike, as long as nothing fails, a step of the
  validation is due at one of them until both read messages, and from then on every message that has not arrived has its next step due: its lambda, the
  reading of a word that is on the stream, or the writer's next word. It takes `IInv` and `OnlyFailuresStop`: that the ends never both wait is
  a matter of the words each has written and read.

* `OnlyFailuresStop`: an end stops or gives up writing only after a failure, or as ciphers differ.
* `HandshakeEnds`, that is `HandshakeCompletes`. `Stage` counts the steps of the exchange that are taken;
  `ValidationGoesOn` shows that until the end some handler is due, which takes the next one and no other.
* `NextMessageDelivered`: message k, sent, with the k-1 before it delivered, is delivered, or there is a
  failure. Its lambda runs (the context runs them in order), the writer gets to it, since the words before it have been
  read and so written, and the reader takes its header and its body: each is a stage that nothing but its own
  handler ends. `EventuallyDelivered` is the induction of this over k.

*TSDequeProofs*: `LocksExclude` for any threads; with one polling thread (`Consumers = {c}`, as in both
applications) `DequeTypeCorrect`, `PollIsSafe`, `WaitIsTrue`, `OrderKept`. One
polling thread is needed: with two, the message `Empty()` saw may be gone when `PopFront` runs.
`NobodyIsStuck`, that is `NobodyStuck`, for any threads: the condition's mutex is never held by somebody who waits, the deque's by nobody
who waits for anything but the condition's, and with both free no thread inside a call waits, sleepers apart. It takes who is where when it holds a mutex,
and `[]StepsEnabled`, the part of `NobodyStuck` that is about `ENABLED` alone. Under fairness, and the same hypothesis, which run `tsdeque` checks:

* `MissedWakeUpMadeGood`, that is `WokenByNextPush`, for any number of producers: the one about to
  notify has the deque's mutex, so the condition's can only be held by the stopper, who gives it back, or by a producer, who would
  hold both.
* `LocksAreGranted`, for the threads an owner has (one that runs the context, one that polls, one that stops):
  `PushReturns`, `LocksInTheEnd` and `StopReturns`, three of the parts of `CallsReturn`. Whoever holds the condition's mutex gives it back
  with its next step, which waits for nothing; so it is free again and again, and strong
  fairness gives it to the producer, who holds the deque's meanwhile.
* `PollTurnEnds`: a turn of the loop of `PollMessages` ends with the return or a smaller `messageCount`. The fourth part,
  `PollReturns`, is the induction over it.

*CipherProofs*: `CipherTypeCorrect`, `AnswersAreInvertible`, `EchoesAreRefused`, `KindsNeverAgree`, for all 2^64
challenges. `Encrypt` is first described bit by bit (`EncryptBit`): bit i of the
result depends on bit `Partner(i)` of the argument alone. Two bits, 56 and 60, of the four constants
are enough to tell the kinds apart and to rule out echoes.

*IoContextProofs*: `ContextKept`. `ContextNext` lists what a step of any owner may do to its context; every such
step keeps the types and `CInv`, which is `WorkCounted`, `StopEventOnce` and `StopNotLost`. The
three need one another: a count that is off stops the context too soon, and a second event
would be counted as work. Both owners' proofs use it, and show only that their actions are steps of `ContextNext`.
The module has besides what both owners' liveness needs: where the thread goes from each place (`ContextPlaces`), in which places it can be
while `join` waits for it (`JoiningStates`), how packets come up in the port (`ContextNearer`, `HandlerNearer`, `OthersKeepQueue`), and how often an
operation of a connection is in a sequence that grows, shrinks or loses an element (`None`, `One`, `OpAppend`, `OpTail`, `OpRemove`).

*ClientProofs*: `ClientInvariant`, and from it `ClientTypeCorrect`, `WorkIsCounted`, `OneStopEvent`, `StopIsNotLost`,
`RunFindsWork`, `ThreadIsJoined` and `RunFindsContextPrepared`, for any number of connections, sends and
messages. `IInv` adds to `CInv`: `Places`, where the two threads can be together and when there is a connection
(why a thread is joined before the next one); `Sockets`, that a socket is closed only by the `range_connect_op` that the thread
handles next, so that a socket is seen closed only if `closings > 0`; `HasWork`, that a thread about to run finds an operation; and `Prepared`: until
something fails, the connection's chain always has an operation pending or queued, so the
work does not run out, so the thread leaves `run()` only for a `Disconnect`, which waits for the restart.

Of its liveness, under fairness and `[]NobodyStuck`, which run `client` checks:

* `PacketsComeUp`, a lemma: a packet among the first n + 1 of the port gets to the head while the thread is in `do_one`, or among
  the first n, unless the thread ends. From wherever the thread is, at most three steps (`Steps`) bring it to `do_one` or to its end, and a handler,
  of whatever connection, takes a packet out of the port.
* `DisconnectComesNearer`: `Disconnect` gets from its post to `join`, and either the thread ends or a stop event is in the port and gets
  nearer; when it is next, the thread finds `stopped` set and ends. That it does find it set is `JoinSeen`, a further invariant: nobody
  but `restart`, with which the thread ends, takes the flag back.
* `ServiceComesNearer`: the thread of a connection made is started, its `async_connect` completes, its packet gets nearer, and when it is
  next its handler is called. On the way the thread meets left-overs: a stop event it takes is stale, since `stopped` is clear and stays clear (only
  `Disconnect`, or the end of all work, sets it, and an open `async_connect` is work: `ChainIsWork`). That the handler leaves no second one behind, and a
  completion none in `pending`, is `ConnectOnce`, a further invariant: each connection has one `async_connect` at most,
  pending or in the port. A handler that goes on to another endpoint starts it again; `Tries`, twice `closings` less one between the two
  steps, grows with each such step and is at most twice `MaxClosings`, so the way begins anew only so often.

`DisconnectReturns` and `Served` are the inductions of these over the places of the port (and over `Tries`).

*ServerProofs*: `ServerInvariant`, and from it the invariants of runs `server` and `server_relay` but `NobodyStuck`, for any
number of clients, calls and messages and any width of the size. `SInv` adds to `CInv`:

* `Registered`: the IDs are the numbers of the connections, and only those are in `m_Clients`;
* `Contents`: what waits has been received so, what was sent is a ping with its time or a relayed message
  with its sender's ID on top. With `ReadUndoesWrite` this gives `ServerNamesSender`: what was sent on has its sender on top and a size that
  is its body's (lemma `SizesAreRight`);
* `Numbers`: a message is in one place, waiting, being relayed or sent; what waits is in order and newer than the
  current one, and nothing newer than that was sent; and the clients from `iteration.next` on
  have not got the current one: `ServerKeepsOrder`. `RemoveFirst` moves elements only to the front,
  so an element behind the iterator stays unsent although the deque shifts (lemma `ClientsWithout`);
* `Reachable`: who is to be reached is in the deque, between the iterator and its end: `ServerReachesAll`;
* `Accepts`: each Start has one accept, in `pending` or in `port`: `ServerAcceptsForever`.

`ServerImplementsMembership` maps `members` to the IDs of `m_Clients`: `AcceptAllowed` is a `Join`, `Disconnects` a `Leave` or,
for a client that has left already, a stutter, and nothing else changes either.

Of its liveness, under fairness and `[]NobodyStuck`, which run `server` checks, with a lemma `PacketsComeUp` of its own:

* `FailureComesNearer`: the packet of a failed chain gets nearer place by place, and when it is next, its client leaves
  `m_Clients`; a failed operation's handler can be no other than `Disconnects`, as long as the connection is
  there. `FailedClientLeaves` is the induction of this over the places.
* `StopComesNearer`: `Stop` gets from its flag to `join`, and either the thread ends or a stop event is in the port and gets nearer;
  when it is next, the thread finds `stopped` set (`JoinSeen`) and ends. `StopReturns` is the induction of this over the places.

*Only model-checked:* what the prover cannot evaluate, `StepsEnabled` and the owners' `NobodyStuck`; what needs an induction over data, for which
its library has only theorems with an operator as a parameter: `EventuallyDelivered` (over the messages), `PollReturns` (over
`messageCount`), `StopReturns`, `FailedClientLeaves`, `DisconnectReturns` and `Served` (over the places of the port, and `Tries`), of all of which
the step is proved.

## 5. Not modelled

* *Asio* but for the `io_context` of Windows (`IoContext`) and what the program relies on of reads,
  writes and accepts. The repository vendors the whole library: 654 of the 687 files and over 99 of 100
  lines, of which all but a few hundred are templates over executors and buffers, coroutines, timers, serial ports, TLS, other
  platforms and configuration. The program reaches none of that, or reaches it without state of its own, so no model of this
  program can stand for a large share of the lines of the repository.
* *TSDeque*: PushFront, EmplaceFront, PopBack, Back, Size and Clear, which nobody calls but the destructor. Several polling threads.
* *DedicatedServer*: `MessageOne`, which nobody calls; the branch of `MessageAll` for a client that is
  null or closed, reached only through the race, whose outcomes `MessageErased` gives. How often `OnDisconnect` is called, and whether `OnConnect`
  comes before `OnValidate`: neither changes state of the library, and nothing in the repository says.
* *Message*: copies and moves, which are those of the data, and the assertions, which no release build has.
* A peer-to-peer node beyond its `Encrypt`; the build files; printing, input and logging.

## 6. Plan

1. Done: `Session`, `Connection`, `ConnectionInv`, `TSDeque`, `Cipher`, `IoContext`, `DedicatedClient`, `Message`,
   `Membership`, `DedicatedServer`, with their proofs.
2. A server and two clients composed over `Session`, one per connection.
3. Several polling threads.
