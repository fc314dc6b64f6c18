-------------------------- MODULE DedicatedServer --------------------------
(***************************************************************************)
(* A DedicatedServer with several clients                                  *)
(* (Network/src/Network/DedicatedServer.inl) and the application on it     *)
(* (Server/src/Server.cpp): the application's thread starts and stops the  *)
(* server, polls messages and relays them; the context's thread accepts    *)
(* clients and serves them.  Both use m_Clients, and nothing locks it.     *)
(*                                                                         *)
(* The handlers are those of Connection, as in DedicatedClient: an         *)
(* operation is "accept", "chain" (any one of validation or reading) or    *)
(* "write".  Connections are numbered in the order they are allowed.       *)
(***************************************************************************)
EXTENDS IoContext, Message

CONSTANTS
    MaxClients,     \* bound: clients allowed
    MaxStarts,      \* bound: calls of Start
    MaxInputs,      \* bound: clients allowed, calls of Start and messages received, together
    MayStop         \* bound: is Stop called?

ASSUME BoundsAssumption ==
    MaxClients \in Nat /\ MaxStarts \in Nat /\ MaxInputs \in Nat /\ MayStop \in BOOLEAN

Connections == 1 .. MaxClients

VARIABLES
    m_Clients,          \* the deque, its elements connections
    m_NextClientID,
    ids,                \* m_ID of each connection made
    starts,             \* how often Start has been called
    incoming,           \* m_IncomingMessages: [from, message]
    received,           \* how many messages have been received
    current,            \* the message OnMessage is called with
    iteration,          \* MessageAll: the index that is next, and the last
    audience,           \* whom MessageAll should still reach
    sentTo,             \* for each connection, what Send has been called with
    outgoing            \* how many messages m_OutgoingMessages of each holds

server == <<m_Clients, m_NextClientID, ids, starts, incoming, received, current,
            iteration, audience, sentTo, outgoing>>
membership == <<m_Clients, m_NextClientID, ids>>
polling == <<current, iteration, audience>>
vars == <<context, server>>

AppLabels == {"Idle", "StartThread", "Join", "MessageAll"} \cup StopLabels

Nobody == 0
NoMessage == [from |-> Nobody, number |-> 0, message |-> Empty("none")]

Init ==
    /\ CInit
    /\ pc = [t \in Threads |-> IF t = "App" THEN "Idle" ELSE "None"]
    /\ m_Clients = <<>>
    /\ m_NextClientID = 1
    /\ ids = <<>>
    /\ starts = 0
    /\ incoming = <<>>
    /\ received = 0
    /\ current = NoMessage
    /\ iteration = [next |-> 1, last |-> 0]
    /\ audience = {}
    /\ sentTo = [c \in Connections |-> <<>>]
    /\ outgoing = [c \in Connections |-> 0]

\* A connection lives, and its socket is open, while m_Clients or a message refers
\* to it.  Hence IsConnected() holds of every connection in m_Clients.
Alive(c) ==
    \/ c \in ToSet(m_Clients)
    \/ \E i \in DOMAIN incoming : incoming[i].from = c
    \/ c = current.from

Op(o, c) == [op |-> o, conn |-> c]

-----------------------------------------------------------------------------
(* The application's thread: Start and Stop.                                *)

\* Start waits for a client, then starts the thread.
CallStart ==
    /\ pc["App"] = "Idle"
    /\ starts < MaxStarts /\ Len(ids) + starts + received < MaxInputs
    /\ starts' = starts + 1
    /\ Start(Op("accept", starts + 1))
    /\ Goto("App", "StartThread")
    /\ UNCHANGED <<membership, incoming, received, polling, sentTo, outgoing>>

\* Assigning to a std::thread that is joinable ends the program: Start twice.
StartThread ==
    /\ pc["App"] = "StartThread"
    /\ IF pc["Context"] = "None"
       THEN pc' = [pc EXCEPT !["App"] = "Idle", !["Context"] = "Run"]
       ELSE Terminate
    /\ UNCHANGED <<port, pending, outstanding_work, stopped, stop_event_posted,
                   server>>

CallStop ==
    /\ pc["App"] = "Idle"
    /\ MayStop
    /\ Goto("App", "StopFlag")
    /\ UNCHANGED <<port, pending, outstanding_work, stopped, stop_event_posted,
                   server>>

JoinThread == Join("Idle") /\ UNCHANGED server

-----------------------------------------------------------------------------
(* The application's thread: PollMessages, OnMessage and MessageAll.        *)

\* OnMessage bounces a ping: PollMessages takes it, sends it back, drops it.
BouncePing ==
    /\ pc["App"] = "Idle"
    /\ incoming # <<>>
    /\ Head(incoming).message.id = "ping"
    /\ incoming' = Tail(incoming)
    /\ LET owned == Head(incoming)
       IN  /\ Post(Packet(Op("send", owned.from), TRUE))
           /\ sentTo' = [sentTo EXCEPT ![owned.from] = Append(@, owned)]
    /\ UNCHANGED <<pc, membership, starts, received, polling, outgoing>>

\* OnMessage adds the sender's ID to a message for the others and calls MessageAll.
RelayMessage ==
    /\ pc["App"] = "Idle"
    /\ incoming # <<>>
    /\ Head(incoming).message.id = "relay"
    /\ incoming' = Tail(incoming)
    /\ LET owned == Head(incoming)
       IN  /\ current' = [owned EXCEPT !.message = Write(@, ids[owned.from])]
           /\ audience' = ToSet(m_Clients) \ {owned.from}
    /\ iteration' = [next |-> 1, last |-> Len(m_Clients)]
    /\ Goto("App", "MessageAll")
    /\ UNCHANGED <<port, pending, outstanding_work, stopped, stop_event_posted,
                   membership, starts, received, sentTo, outgoing>>

\* Mistake: the loop ends at the client that is ignored.
MessageElement_Breaks ==
    /\ pc["App"] = "MessageAll"
    /\ iteration.next <= iteration.last
    /\ iteration.next <= Len(m_Clients)
    /\ LET c == m_Clients[iteration.next]
       IN  IF c = current.from
           THEN /\ iteration' = [iteration EXCEPT !.last = iteration.next - 1]
                /\ UNCHANGED <<port, pending, outstanding_work, stopped,
                               stop_event_posted, sentTo, audience>>
           ELSE /\ iteration' = [iteration EXCEPT !.next = @ + 1]
                /\ Post(Packet(Op("send", c), TRUE))
                /\ sentTo' = [sentTo EXCEPT ![c] = Append(@, current)]
                /\ audience' = audience \ {c}
    /\ UNCHANGED <<pc, membership, starts, incoming, received, current, outgoing>>

\* Mistake: nobody is ignored.
MessageElement_ToAll ==
    /\ pc["App"] = "MessageAll"
    /\ iteration.next <= iteration.last
    /\ iteration.next <= Len(m_Clients)
    /\ iteration' = [iteration EXCEPT !.next = @ + 1]
    /\ LET c == m_Clients[iteration.next]
       IN  /\ Post(Packet(Op("send", c), TRUE))
           /\ sentTo' = [sentTo EXCEPT ![c] = Append(@, current)]
           /\ audience' = audience \ {c}
    /\ UNCHANGED <<pc, membership, starts, incoming, received, current, outgoing>>

\* One element of m_Clients: it is connected, and sent to unless it is ignored.
MessageElement ==
    /\ pc["App"] = "MessageAll"
    /\ iteration.next <= iteration.last
    /\ iteration.next <= Len(m_Clients)
    /\ iteration' = [iteration EXCEPT !.next = @ + 1]
    /\ LET c == m_Clients[iteration.next]
       IN  IF c = current.from
           THEN UNCHANGED <<port, pending, outstanding_work, stopped,
                            stop_event_posted, sentTo, audience>>
           ELSE /\ Post(Packet(Op("send", c), TRUE))
                /\ sentTo' = [sentTo EXCEPT ![c] = Append(@, current)]
                /\ audience' = audience \ {c}
    /\ UNCHANGED <<pc, membership, starts, incoming, received, current, outgoing>>

\* The element has been erased by the other thread since the loop began: what is left
\* there is a null pointer, for which OnDisconnect is called, or the freed memory of
\* an earlier element.  The program crashes or goes on.
MessageErased ==
    /\ pc["App"] = "MessageAll"
    /\ iteration.next <= iteration.last
    /\ iteration.next > Len(m_Clients)
    /\ iteration' = [iteration EXCEPT !.next = @ + 1]
    /\ Terminate \/ UNCHANGED pc
    /\ UNCHANGED <<port, pending, outstanding_work, stopped, stop_event_posted,
                   membership, starts, incoming, received, current, audience,
                   sentTo, outgoing>>

\* Mistake: PollMessages keeps the message until the next one.
MessageEnd_Keeps ==
    /\ pc["App"] = "MessageAll"
    /\ iteration.next > iteration.last
    /\ iteration' = [next |-> 1, last |-> 0]
    /\ audience' = {}
    /\ Goto("App", "Idle")
    /\ UNCHANGED <<port, pending, outstanding_work, stopped, stop_event_posted,
                   membership, starts, incoming, received, current, sentTo, outgoing>>

\* MessageAll, OnMessage and the iteration of PollMessages end; the reference goes.
MessageEnd ==
    /\ pc["App"] = "MessageAll"
    /\ iteration.next > iteration.last
    /\ current' = NoMessage
    /\ iteration' = [next |-> 1, last |-> 0]
    /\ audience' = {}
    /\ Goto("App", "Idle")
    /\ UNCHANGED <<port, pending, outstanding_work, stopped, stop_event_posted,
                   membership, starts, incoming, received, sentTo, outgoing>>

AppStep ==
    \/ StartThread \/ (AppStopStep /\ UNCHANGED server) \/ JoinThread
    \/ MessageElement \/ MessageErased \/ MessageEnd

-----------------------------------------------------------------------------
(* The handlers, on the context's thread.                                   *)

\* m_Clients changes: if MessageAll is running this is a data race, which may crash.
\* An element that is erased moves those behind it, and MessageAll may miss one.
ChangeClients(clients) ==
    /\ m_Clients' = clients
    /\ audience' = IF Len(clients) < Len(m_Clients) THEN {} ELSE audience

RaceCrashes ==
    /\ pc["App"] = "MessageAll"
    /\ Terminate
    /\ UNCHANGED <<port, pending, outstanding_work, stopped, stop_event_posted,
                   server>>

\* Mistake: the ID is that of a place in m_Clients.
AcceptAllowed_ReusesID(p) ==
    /\ p.op = "accept" /\ p.ok
    /\ Len(ids) < MaxClients /\ Len(ids) + starts + received < MaxInputs
    /\ LET c == Len(ids) + 1
       IN  /\ ChangeClients(Append(m_Clients, c))
           /\ Handle(<<>>, <<Op("chain", c), Op("accept", p.conn)>>)
    /\ m_NextClientID' = Len(m_Clients) + 1
    /\ ids' = Append(ids, Len(m_Clients) + 1)
    /\ UNCHANGED <<starts, incoming, received, current, iteration, sentTo, outgoing>>

\* A client is allowed: it gets the next ID, and the validation begins.
AcceptAllowed(p) ==
    /\ p.op = "accept" /\ p.ok
    /\ Len(ids) < MaxClients /\ Len(ids) + starts + received < MaxInputs
    /\ LET c == Len(ids) + 1
       IN  /\ ChangeClients(Append(m_Clients, c))
           /\ Handle(<<>>, <<Op("chain", c), Op("accept", p.conn)>>)
    /\ ids' = Append(ids, m_NextClientID)
    /\ m_NextClientID' = m_NextClientID + 1
    /\ UNCHANGED <<starts, incoming, received, current, iteration, sentTo, outgoing>>

\* Mistake: only a client that is allowed makes the server wait for another.
AcceptDenied_WaitsNoMore(p) ==
    /\ p.op = "accept"
    /\ Handle(<<>>, <<>>)
    /\ UNCHANGED server

\* A client is denied, or the accept has failed.
AcceptDenied(p) ==
    /\ p.op = "accept"
    /\ Handle(<<>>, <<Op("accept", p.conn)>>)
    /\ UNCHANGED server

\* The peer has gone by then: remote_endpoint() throws, out of run().
AcceptThrows(p) ==
    /\ p.op = "accept" /\ p.ok
    /\ Terminate
    /\ UNCHANGED <<port, pending, outstanding_work, stopped, stop_event_posted,
                   server>>

ChainGoesOn(p, c) ==
    /\ p.op = "chain" /\ p.ok
    /\ Handle(<<>>, <<Op("chain", c)>>)
    /\ UNCHANGED server

\* What a client sends: a ping with the time, a message for the others.
ClientMessages == {Write(Empty("ping"), 0), Empty("relay")}

\* Mistake: PushFront.
ChainReceives_PushFront(p, c) ==
    /\ p.op = "chain" /\ p.ok
    /\ Len(ids) + starts + received < MaxInputs
    /\ received' = received + 1
    /\ \E m \in ClientMessages :
           incoming' = <<[from |-> c, number |-> received + 1, message |-> m]>> \o incoming
    /\ Handle(<<>>, <<Op("chain", c)>>)
    /\ UNCHANGED <<membership, starts, polling, sentTo, outgoing>>

ChainReceives(p, c) ==
    /\ p.op = "chain" /\ p.ok
    /\ Len(ids) + starts + received < MaxInputs
    /\ received' = received + 1
    /\ \E m \in ClientMessages :
           incoming' = Append(incoming, [from |-> c, number |-> received + 1,
                                        message |-> m])
    /\ Handle(<<>>, <<Op("chain", c)>>)
    /\ UNCHANGED <<membership, starts, polling, sentTo, outgoing>>

\* Mistake: the client stays in m_Clients, as a DedicatedClient's connection does.
Disconnects_Stays(p, c) ==
    /\ \/ p.op \in {"chain", "write"} /\ ~p.ok
       \/ p.op = "chain" /\ p.ok
    /\ Handle(<<>>, <<>>)
    /\ UNCHANGED server

\* An operation has failed, or the validation has: Disconnect, which erases.  A
\* connection is in m_Clients once, see TypeOK.
Disconnects(p, c) ==
    /\ \/ p.op \in {"chain", "write"} /\ ~p.ok
       \/ p.op = "chain" /\ p.ok
    /\ ChangeClients(RemoveFirst(m_Clients, c))
    /\ Handle(<<>>, <<>>)
    /\ UNCHANGED <<m_NextClientID, ids, starts, incoming, received, current,
                   iteration, sentTo, outgoing>>

SendLambda(p, c) ==
    /\ p.op = "send"
    /\ outgoing' = [outgoing EXCEPT ![c] = @ + 1]
    /\ Handle(<<>>, IF outgoing[c] = 0 THEN <<Op("write", c)>> ELSE <<>>)
    /\ UNCHANGED <<membership, starts, incoming, received, polling, sentTo>>

Written(p, c) ==
    /\ p.op = "write" /\ p.ok
    /\ outgoing[c] > 0
    /\ outgoing' = [outgoing EXCEPT ![c] = @ - 1]
    /\ Handle(<<>>, IF outgoing[c] > 1 THEN <<Op("write", c)>> ELSE <<>>)
    /\ UNCHANGED <<membership, starts, incoming, received, polling, sentTo>>

\* A handler of a destroyed connection has taken this one's message: Front and PopFront
\* of an empty deque.  It crashes, or nothing is left to write, or what is there is written.
WrittenEmpty(p, c) ==
    /\ p.op = "write" /\ p.ok
    /\ outgoing[c] = 0
    /\ \/ /\ Terminate
          /\ UNCHANGED <<port, pending, outstanding_work, stopped, stop_event_posted>>
       \/ Handle(<<>>, <<>>)
       \/ Handle(<<>>, <<Op("write", c)>>)
    /\ UNCHANGED server

Handler(p, c) ==
    \/ ChainGoesOn(p, c) \/ ChainReceives(p, c) \/ Disconnects(p, c)
    \/ SendLambda(p, c) \/ Written(p, c) \/ WrittenEmpty(p, c)

\* A handler whose connection was destroyed: it crashes, or does nothing, or meets
\* another connection in the same place of the heap.
StaleHandler(p) ==
    \/ /\ Terminate
       /\ UNCHANGED <<port, pending, outstanding_work, stopped, stop_event_posted,
                      server>>
    \/ /\ Handle(<<>>, <<>>)
       /\ UNCHANGED server
    \/ \E c \in DOMAIN ids : c > p.conn /\ Alive(c) /\ Handler(p, c)

HandlerStep ==
    \E p \in ToSet(port) :
        /\ Handling(p)
        /\ \/ AcceptAllowed(p) \/ AcceptDenied(p) \/ AcceptThrows(p)
           \/ /\ p.op # "accept"
              /\ IF Alive(p.conn) THEN Handler(p, p.conn) ELSE StaleHandler(p)
           \/ /\ p.op \in {"accept", "chain", "write"}
              /\ RaceCrashes

\* The system completes an operation; those of a closed socket fail.
SystemCompletes(i) ==
    /\ ~Terminated
    /\ \E good \in BOOLEAN :
        /\ good => pending[i].op = "accept" \/ Alive(pending[i].conn)
        /\ Complete(i, good)
    /\ UNCHANGED server

ThreadStep == (ContextStep /\ UNCHANGED server) \/ HandlerStep

Next ==
    \/ CallStart \/ CallStop \/ BouncePing \/ RelayMessage
    \/ AppStep
    \/ ThreadStep
    \/ \E i \in DOMAIN pending : SystemCompletes(i)

Fairness == WF_vars(AppStep) /\ WF_vars(ThreadStep)

Spec == Init /\ [][Next]_vars /\ Fairness

-----------------------------------------------------------------------------
(* Properties.                                                              *)

Messages == [id : {"ping", "relay"}, size : 0 .. (SizeValues - 1), body : Seq(Nat)]
OwnedMessages == [from : Connections, number : 1 .. MaxInputs, message : Messages]
Packets ==
    [op : {"accept", "chain", "write", "send"}, conn : Nat \ {Nobody}, ok : BOOLEAN]
Operations == [op : {"accept", "chain", "write"}, conn : Nat \ {Nobody}]

ServerTypeOK ==
    /\ \/ pc = [t \in Threads |-> "Terminated"]
       \/ /\ pc \in [Threads -> AppLabels \cup ContextLabels]
          /\ pc["App"] \in AppLabels /\ pc["Context"] \in ContextLabels
          /\ current.from # Nobody <=> pc["App"] = "MessageAll"
    /\ m_Clients \in Seq(Connections) /\ IsInjective(m_Clients)
    /\ ids \in Seq(Nat) /\ Len(ids) <= MaxClients
    /\ m_NextClientID \in Nat
    /\ starts \in 0 .. MaxInputs /\ received \in 0 .. MaxInputs
    /\ incoming \in Seq(OwnedMessages)
    /\ current \in OwnedMessages \cup {NoMessage}
    /\ iteration \in [next : Nat, last : Nat]
    /\ audience \subseteq Connections
    /\ sentTo \in [Connections -> Seq(OwnedMessages)]
    /\ outgoing \in [Connections -> Nat]

\* Types and bounds.  PollMessages holds a message, and so its connection, only while
\* OnMessage runs.
TypeOK == ContextTypeOK(Packets \cup {StopEvent}, Operations) /\ ServerTypeOK

AcceptPending(k) == {i \in DOMAIN pending : pending[i] = Op("accept", k)}
AcceptQueued(k) ==
    {i \in DOMAIN port : port[i].op = "accept" /\ port[i].conn = k}

\* Whoever is denied, fails or leaves, every Start keeps waiting for a client: its one
\* accept is pending or about to be handled, through Stop and Start again as well
\* (after which there are two, and so on, WaitForClientConnection having no end).
AcceptsForever ==
    Terminated \/ \A k \in 1 .. starts :
        \/ AcceptQueued(k) = {} /\ \E i \in DOMAIN pending : AcceptPending(k) = {i}
        \/ AcceptPending(k) = {} /\ \E i \in DOMAIN port : AcceptQueued(k) = {i}

\* The messages that are sent to a client, by bouncing and by relaying, go out in the
\* order in which the server received them, and none twice, although m_Clients changes
\* while MessageAll iterates over it.
SentInOrder ==
    \A c \in Connections : \A i, j \in DOMAIN sentTo[c] :
        i < j => sentTo[c][i].number < sentTo[c][j].number

\* A client that is relayed a message is not its sender, finds the size of the body in
\* the header, reads the sender's ID with >>, and has what the sender wrote left.
RelayNamesSender ==
    \A c \in Connections : \A i \in DOMAIN sentTo[c] :
        LET s == sentTo[c][i]
        IN  s.message.id = "relay" =>
                /\ s.from # c
                /\ SizeRight(s.message)
                /\ Read(s.message) = ids[s.from]
                /\ AfterRead(s.message) \in ClientMessages

\* When MessageAll ends, every client that was there when it began has got the message,
\* but for the sender, unless a client was erased meanwhile.  Clients that join while
\* it runs do not disturb it.
RelayReachesAll ==
    pc["App"] = "MessageAll" /\ iteration.next > iteration.last => audience = {}

\* The server's part of the program is in one of its calls.
InCall == pc["App"] \in AppLabels \ {"Idle"}

\* Nobody waits for nothing: do_one waits for a packet only while an operation that will
\* become one is pending, never while Stop waits for the thread, which then always has a
\* step to take, whatever was accepted, read or written before.  Everything else that
\* either thread does goes on by itself.
NobodyStuck ==
    /\ ContextRunning =>
          \/ ENABLED <<ThreadStep>>_vars
          \/ /\ pc["Context"] = "DoOne" /\ port = <<>>
             /\ pending # <<>> /\ pc["App"] # "Join"
    /\ InCall =>
          \/ ENABLED <<AppStep>>_vars
          \/ pc["App"] = "Join" /\ ContextRunning /\ ENABLED <<ThreadStep>>_vars

\* Stop returns unless the program ends: the thread it joins comes to the stop event,
\* whatever is accepted, read or written.
StopReturns == pc["App"] = "StopFlag" ~> pc["App"] \in {"Idle", "Terminated"}

ChainFailed(c) ==
    \E p \in ToSet(port) : p.op = "chain" /\ p.conn = c /\ ~p.ok

\* A client whose connection has failed leaves m_Clients, unless the server is stopped
\* or ends before.
FailedClientLeaves ==
    \A c \in Connections :
        ChainFailed(c) ~> \/ c \notin ToSet(m_Clients)
                          \/ pc["Context"] \in {"None", "Done", "Terminated"}

Clients == INSTANCE Membership WITH
    members <- {ids[c] : c \in ToSet(m_Clients)},
    issued <- m_NextClientID - 1

\* The server implements Membership: IDs are never given twice, and clients come and go
\* one at a time, with m_Clients a deque that is searched and shifted.
ImplementsMembership == Clients!Spec
=============================================================================
