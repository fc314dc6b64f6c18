-------------------------- MODULE DedicatedClient --------------------------
(***************************************************************************)
(* A DedicatedClient that connects, disconnects and connects again         *)
(* (Network/src/Network/DedicatedClient.inl): one thread of the            *)
(* application, the context and the thread that runs it.                   *)
(*                                                                         *)
(* The handlers are those of Connection.  Of the validation and the        *)
(* messages only what concerns the context is kept: an operation of the    *)
(* chain is "connect" or "read" (any later one), one of the writer         *)
(* "write"; a handler starts the next operation or disconnects.  Module    *)
(* Connection has the rest.                                                *)
(***************************************************************************)
EXTENDS IoContext

CONSTANTS
    MaxConnects,    \* bound: connections made
    MaxSends,       \* bound: calls of Send
    MaxMessages,    \* bound: messages queued at a time
    MaxClosings     \* bound: sockets that are closed for the next endpoint or cannot be opened

ASSUME BoundsAssumption ==
    /\ MaxConnects \in Nat /\ MaxSends \in Nat
    /\ MaxMessages \in Nat /\ MaxClosings \in Nat

Connections == 1 .. MaxConnects

VARIABLES
    m_pConnection,      \* the connection it points to, 0 for none
    isOpen,             \* is that connection's socket open?
    reopening,          \* has the range_connect_op being handled closed a socket, and not yet
                        \* gone on to the next endpoint?
    closings,           \* how often one has closed a socket or has been unable to open it
    made,               \* how many connections have been made
    then,               \* where Disconnect returns to
    incoming,           \* how many messages m_IncomingMessages holds
    outgoing,           \* how many messages m_OutgoingMessages of each connection holds
    sent,               \* how often Send has been called
    failed              \* has a connection met an error, or been invalidated?

socket == <<isOpen, reopening, closings>>
messages == <<incoming, outgoing, sent>>
client == <<m_pConnection, made, then, failed, socket, messages>>
vars == <<context, client>>

AppLabels ==
    {"Idle", "Connect", "StartThread", "Disconnect", "PostClose", "Join", "Reset", "PostSend"}
        \cup StopLabels

Init ==
    /\ CInit
    /\ pc = [t \in Threads |-> IF t = "App" THEN "Idle" ELSE "None"]
    /\ m_pConnection = 0
    /\ isOpen = FALSE
    /\ reopening = FALSE
    /\ closings = 0
    /\ made = 0
    /\ then = "Idle"
    /\ incoming = 0
    /\ outgoing = [c \in Connections |-> 0]
    /\ sent = 0
    /\ failed = FALSE

\* A connection lives as long as m_pConnection points to it: the messages that a client
\* queues do not refer to it.
Alive(c) == c = m_pConnection

\* DedicatedClient::IsConnected.
IsConnected == m_pConnection # 0 /\ isOpen

Op(o, c) == [op |-> o, conn |-> c]
Lambda(o, c) == Packet(Op(o, c), TRUE)

-----------------------------------------------------------------------------
(* The application's thread.                                                *)

\* A call of Connect: Disconnect comes first if there is a connection and its socket is
\* seen open.
CallConnect ==
    /\ pc["App"] = "Idle"
    /\ made < MaxConnects
    /\ Goto("App", IF IsConnected THEN "Disconnect" ELSE "Connect")
    /\ then' = "Connect"
    /\ UNCHANGED <<port, pending, outstanding_work, stopped, stop_event_posted,
                   m_pConnection, made, failed, socket, messages>>

\* The address cannot be resolved, or AllowConnection refuses.
ConnectFails ==
    /\ pc["App"] = "Connect"
    /\ Goto("App", "Idle")
    /\ UNCHANGED <<port, pending, outstanding_work, stopped, stop_event_posted,
                   client>>

\* ConnectToServer starts async_connect: its range_connect_op opens the socket, or cannot
\* and posts itself with the error.  A connection that m_pConnection still pointed to is
\* destroyed.
ConnectToServer ==
    /\ pc["App"] = "Connect"
    /\ made' = made + 1
    /\ m_pConnection' = made + 1
    /\ \/ /\ Start(Op("connect", made + 1))
          /\ isOpen' = TRUE
          /\ UNCHANGED <<closings, failed>>
       \/ /\ closings < MaxClosings
          /\ Post(Packet(Op("connect", made + 1), FALSE))
          /\ isOpen' = FALSE
          /\ closings' = closings + 1
          /\ failed' = TRUE
    /\ Goto("App", "StartThread")
    /\ UNCHANGED <<then, reopening, messages>>

\* A std::thread that is still joinable must not be assigned to.
StartThread ==
    /\ pc["App"] = "StartThread"
    /\ IF pc["Context"] = "None"
       THEN pc' = [pc EXCEPT !["App"] = "Idle", !["Context"] = "Run"]
       ELSE Terminate
    /\ UNCHANGED <<port, pending, outstanding_work, stopped, stop_event_posted,
                   client>>

\* A call of Disconnect, which does not ask for the socket.
CallDisconnect ==
    /\ pc["App"] = "Idle"
    /\ m_pConnection # 0
    /\ Goto("App", "Disconnect")
    /\ then' = "Idle"
    /\ UNCHANGED <<port, pending, outstanding_work, stopped, stop_event_posted,
                   m_pConnection, made, failed, socket, messages>>

\* Connection::Disconnect does nothing if the socket is closed.
TestSocket ==
    /\ pc["App"] = "Disconnect"
    /\ Goto("App", IF isOpen THEN "PostClose" ELSE "StopFlag")
    /\ UNCHANGED <<port, pending, outstanding_work, stopped, stop_event_posted,
                   client>>

\* It has the client post the close of m_Socket.
PostClose ==
    /\ pc["App"] = "PostClose"
    /\ Post(Lambda("close", m_pConnection))
    /\ Goto("App", "StopFlag")
    /\ UNCHANGED client

\* Mistake: the thread is not joined.
JoinThread_Detached ==
    /\ pc["App"] = "Join"
    /\ Goto("App", "Reset")
    /\ UNCHANGED <<port, pending, outstanding_work, stopped, stop_event_posted,
                   client>>

JoinThread == Join("Reset") /\ UNCHANGED client

\* m_pConnection.reset(): the connection is destroyed, and its socket closed.
Reset ==
    /\ pc["App"] = "Reset"
    /\ m_pConnection' = 0
    /\ isOpen' = FALSE
    /\ Goto("App", then)
    /\ UNCHANGED <<port, pending, outstanding_work, stopped, stop_event_posted,
                   made, then, failed, reopening, closings, messages>>

\* Mistake: IsConnected is not asked.
CallSend_Unchecked ==
    /\ pc["App"] = "Idle"
    /\ sent < MaxSends
    /\ sent' = sent + 1
    /\ Goto("App", "PostSend")
    /\ UNCHANGED <<port, pending, outstanding_work, stopped, stop_event_posted,
                   m_pConnection, made, then, failed, socket, incoming, outgoing>>

\* A call of Send that sees the socket open; by the time it posts the lambda the socket may
\* be closed.
CallSend ==
    /\ pc["App"] = "Idle"
    /\ IsConnected
    /\ sent < MaxSends
    /\ sent' = sent + 1
    /\ Goto("App", "PostSend")
    /\ UNCHANGED <<port, pending, outstanding_work, stopped, stop_event_posted,
                   m_pConnection, made, then, failed, socket, incoming, outgoing>>

PostSend ==
    /\ pc["App"] = "PostSend"
    /\ Post(Lambda("send", m_pConnection))
    /\ Goto("App", "Idle")
    /\ UNCHANGED client

\* One iteration of PollMessages.
PollMessages ==
    /\ pc["App"] = "Idle"
    /\ incoming > 0
    /\ incoming' = incoming - 1
    /\ UNCHANGED <<context, m_pConnection, made, then, failed, socket, outgoing, sent>>

AppStep ==
    \/ ConnectFails \/ ConnectToServer \/ StartThread
    \/ TestSocket \/ PostClose \/ (AppStopStep /\ UNCHANGED client)
    \/ JoinThread \/ Reset \/ PostSend

-----------------------------------------------------------------------------
(* The handlers, on the context's thread, with c the connection `this` points *)
(* to: m_pConnection, or one that has been destroyed.                       *)

\* The client's own socket was never opened: nothing to close.
CloseLambda(p) ==
    /\ p.op = "close"
    /\ Handle(<<>>, <<>>)
    /\ UNCHANGED client

\* The chain goes on with another operation.
ChainGoesOn(p, c) ==
    /\ \/ p.op = "connect" /\ p.ok /\ isOpen
       \/ p.op = "read" /\ p.ok
    /\ Handle(<<>>, <<Op("read", c)>>)
    /\ UNCHANGED client

\* The chain has read a message to the end, which it queues without an owner; then it goes
\* on.
ChainReceives(p, c) ==
    /\ p.op = "read" /\ p.ok
    /\ incoming < MaxMessages
    /\ incoming' = incoming + 1
    /\ Handle(<<>>, <<Op("read", c)>>)
    /\ UNCHANGED <<m_pConnection, made, then, failed, socket, outgoing, sent>>

\* An operation has failed, or the validation has: Disconnect, which posts the close if the
\* socket is open.  An async_connect whose socket is closed has been aborted, whatever its
\* result.
Fails(p, c) ==
    /\ \/ p.op = "connect" /\ (~p.ok \/ ~isOpen)
       \/ p.op = "write" /\ ~p.ok
       \/ p.op = "read"
    /\ Handle(IF isOpen THEN <<Lambda("close", c)>> ELSE <<>>, <<>>)
    /\ failed' = TRUE
    /\ UNCHANGED <<m_pConnection, made, then, socket, messages>>

\* The range_connect_op has another endpoint to try: it closes the socket ...
CloseSocket(p) ==
    /\ p.op = "connect" /\ ~p.ok /\ isOpen
    /\ closings < MaxClosings
    /\ isOpen' = FALSE
    /\ closings' = closings + 1
    /\ reopening' = TRUE
    /\ UNCHANGED <<context, m_pConnection, made, then, failed, messages>>

\* ... and starts async_connect again, which opens it, or cannot.
Reopen(p) ==
    /\ \/ /\ Handle(<<>>, <<Op("connect", p.conn)>>)
          /\ isOpen' = TRUE
          /\ UNCHANGED failed
       \/ /\ ~isOpen
          /\ Handle(<<Packet(Op("connect", p.conn), FALSE)>>, <<>>)
          /\ failed' = TRUE
          /\ UNCHANGED isOpen
    /\ reopening' = FALSE
    /\ UNCHANGED <<m_pConnection, made, then, closings, messages>>

SendLambda(p, c) ==
    /\ p.op = "send"
    /\ outgoing' = [outgoing EXCEPT ![c] = @ + 1]
    /\ Handle(<<>>, IF outgoing[c] = 0 THEN <<Op("write", c)>> ELSE <<>>)
    /\ UNCHANGED <<m_pConnection, made, then, failed, socket, incoming, sent>>

\* A message is written; if another one is queued it is next.
Written(p, c) ==
    /\ p.op = "write" /\ p.ok
    /\ outgoing[c] > 0
    /\ outgoing' = [outgoing EXCEPT ![c] = @ - 1]
    /\ Handle(<<>>, IF outgoing[c] > 1 THEN <<Op("write", c)>> ELSE <<>>)
    /\ UNCHANGED <<m_pConnection, made, then, failed, socket, incoming, sent>>

\* A handler of a destroyed connection has taken this one's message: Front and PopFront
\* of an empty deque.  It crashes, or nothing is left to write, or what is there is written.
WrittenEmpty(p, c) ==
    /\ p.op = "write" /\ p.ok
    /\ outgoing[c] = 0
    /\ \/ /\ Terminate
          /\ UNCHANGED <<port, pending, outstanding_work, stopped, stop_event_posted>>
       \/ Handle(<<>>, <<>>)
       \/ Handle(<<>>, <<Op("write", c)>>)
    /\ UNCHANGED client

Handler(p, c) ==
    \/ ChainGoesOn(p, c) \/ ChainReceives(p, c) \/ Fails(p, c) \/ CloseSocket(p)
    \/ SendLambda(p, c) \/ Written(p, c) \/ WrittenEmpty(p, c)

\* A handler whose connection was destroyed: it crashes, or does nothing, or starts an
\* operation of the dead socket, which fails at once, or meets the new connection in the same
\* place of the heap.
StaleHandler(p) ==
    /\ ~Alive(p.conn)
    /\ p.op # "close"
    /\ \/ /\ Terminate
          /\ UNCHANGED <<port, pending, outstanding_work, stopped,
                         stop_event_posted, client>>
       \/ /\ Handle(<<>>, <<>>)
          /\ UNCHANGED client
       \/ /\ p.op # "connect" /\ p.ok
          /\ Handle(<<Packet(Op(IF p.op = "read" THEN "read" ELSE "write", p.conn), FALSE)>>,
                    <<>>)
          /\ UNCHANGED client
       \/ m_pConnection # 0 /\ Handler(p, m_pConnection)

\* The same between the two steps of a range_connect_op.
StaleReopen(p) ==
    /\ ~Alive(p.conn)
    /\ \/ /\ Terminate
          /\ UNCHANGED <<port, pending, outstanding_work, stopped,
                         stop_event_posted, client>>
       \/ /\ \E started \in {<<>>, <<Op("connect", p.conn)>>} : Handle(<<>>, started)
          /\ reopening' = FALSE
          /\ UNCHANGED <<m_pConnection, made, then, failed, isOpen, closings, messages>>
       \/ m_pConnection # 0 /\ Reopen(p)

HandlerStep ==
    \E p \in ToSet(port) :
        /\ Handling(p)
        /\ \/ /\ ~reopening
              /\ CloseLambda(p) \/ (Alive(p.conn) /\ Handler(p, p.conn)) \/ StaleHandler(p)
           \/ /\ reopening
              /\ (Alive(p.conn) /\ Reopen(p)) \/ StaleReopen(p)

\* The system completes an operation; those of a closed socket fail.  An async_connect that
\* a left-over handler has started again works on the new connection's socket.
SystemCompletes(i) ==
    /\ ~Terminated
    /\ \E good \in BOOLEAN :
        /\ good => isOpen /\ (Alive(pending[i].conn) \/ pending[i].op = "connect")
        /\ Complete(i, good)
    /\ UNCHANGED client

ThreadStep == (ContextStep /\ UNCHANGED client) \/ HandlerStep

Next ==
    \/ CallConnect \/ CallDisconnect \/ CallSend \/ PollMessages
    \/ AppStep
    \/ ThreadStep
    \/ \E i \in DOMAIN pending : SystemCompletes(i)

\* An async_connect succeeds or fails in the end.
ConnectEnds(c) == []<>(Terminated \/ Op("connect", c) \notin ToSet(pending))

\* Each thread goes on; a call that is in progress is carried through.
Fairness ==
    /\ WF_vars(AppStep) /\ WF_vars(ThreadStep)
    /\ \A k \in Connections : ConnectEnds(k)

Spec == Init /\ [][Next]_vars /\ Fairness

-----------------------------------------------------------------------------
(* Properties.                                                              *)

Packets == [op : {"connect", "read", "write", "send", "close"},
            conn : Connections, ok : BOOLEAN]
Operations == [op : {"connect", "read", "write"}, conn : Connections]

ClientTypeOK ==
    /\ \/ pc = [t \in Threads |-> "Terminated"]
       \/ /\ pc \in [Threads -> AppLabels \cup ContextLabels]
          /\ pc["App"] \in AppLabels /\ pc["Context"] \in ContextLabels
    /\ made \in 0 .. MaxConnects /\ m_pConnection \in 0 .. made
    /\ then \in {"Idle", "Connect"}
    /\ isOpen \in BOOLEAN /\ reopening \in BOOLEAN /\ closings \in 0 .. MaxClosings
    /\ incoming \in 0 .. MaxMessages
    /\ outgoing \in [Connections -> Nat] /\ sent \in 0 .. MaxSends
    /\ failed \in BOOLEAN

\* Types and bounds; no handler or lambda is ever made for a null connection.
TypeOK == ContextTypeOK(Packets \cup {StopEvent}, Operations) /\ ClientTypeOK

\* The client's thread is joined before another is started (assigning to a joinable
\* std::thread ends the program), whether its run() returned because of Disconnect, or
\* earlier for lack of work: Connect leaves out Disconnect only if it sees the socket of its
\* connection closed, so if that could not be opened or is between two endpoints.
ThreadJoined ==
    pc["App"] \in {"Connect", "StartThread"} => pc["Context"] = "None" \/ closings > 0

\* As long as no connection has met an error, every Connect finds the context
\* restarted: its thread called restart() after the last stop().  An error breaks
\* this for good: the work runs out, the thread restarts the context and ends, and
\* the stop() of the Disconnect that follows is undone by nobody.
RunIsPrepared == pc["App"] = "StartThread" /\ stopped => failed

\* Labels of Disconnect.
InDisconnect == {"Disconnect", "PostClose", "Join", "Reset"} \cup StopLabels

\* Where the two threads can be at the same time, and when there is a connection.
Places ==
    ~Terminated =>
        /\ pc["App"] = "Reset" => pc["Context"] = "None"
        /\ pc["App"] \in {"Connect", "StartThread"}
               => pc["Context"] = "None" \/ closings > 0
        /\ m_pConnection = 0 => pc["Context"] = "None" /\ pc["App"] \in {"Idle", "Connect"}
        /\ pc["App"] = "Connect" => made < MaxConnects
        /\ pc["App"] \in InDisconnect /\ then = "Connect" => made < MaxConnects
        /\ m_pConnection # 0 /\ pc["App"] \notin {"Reset", "StartThread"}
               => pc["Context"] # "None"

\* A connection's socket is closed only by its range_connect_op, which is the one that the
\* context's thread handles next.
Sockets ==
    ~Terminated =>
        /\ m_pConnection # 0 /\ closings = 0 => isOpen
        /\ reopening => /\ closings > 0
                        /\ pc["Context"] = "DoOne"
                        /\ port # <<>> /\ Head(port).op = "connect"

\* The thread that is about to run the context finds work.
HasWork ==
    (pc["App"] = "StartThread" /\ pc["Context"] = "None") \/ pc["Context"] = "Run"
        => outstanding_work > 0

\* The next operation of a connection's chain is in a sequence.
HasChain(s, c) ==
    \E i \in DOMAIN s : s[i].op \in {"connect", "read"} /\ s[i].conn = c

\* As long as nothing has failed the work does not run out, so that the thread
\* leaves run() only for a Disconnect, which waits for its restart().
Prepared ==
    ~Terminated /\ ~failed =>
        /\ stopped => pc["App"] \in {"PostStop", "Join"}
        /\ pc["Context"] \in {"RepostStop", "Restart", "Done"}
               => pc["App"] \in {"PostStop", "Join"}
        /\ pc["Context"] \notin StopLabels
        /\ pc["Context"] = "Done" => ~stopped
        /\ m_pConnection # 0 =>
              HasChain(pending, m_pConnection) \/ HasChain(port, m_pConnection)

\* Why the invariants above hold whatever the threads do next.
IInv ==
    /\ TypeOK
    /\ WorkCounted /\ StopEventOnce /\ StopNotLost
    /\ Places /\ Sockets /\ HasWork /\ Prepared

\* The client's part of the program is in one of its calls.
InCall == pc["App"] \in AppLabels \ {"Idle"}

\* Nobody waits for nothing: do_one waits for a packet only while an operation that will
\* become one is pending, or Disconnect is about to post the stop event; never while
\* Disconnect waits for the thread, which then always has a step to take.  Everything else
\* that either thread does goes on by itself.
NobodyStuck ==
    /\ ContextRunning =>
          \/ ENABLED <<ThreadStep>>_vars
          \/ /\ pc["Context"] = "DoOne" /\ port = <<>> /\ pc["App"] # "Join"
             /\ pending # <<>> \/ pc["App"] = "PostStop"
    /\ InCall =>
          \/ ENABLED <<AppStep>>_vars
          \/ pc["App"] = "Join" /\ ContextRunning /\ ENABLED <<ThreadStep>>_vars

\* Disconnect returns, unless a handler of a destroyed connection crashes: the
\* thread it joins comes to its stop event whatever else is queued.
DisconnectReturns ==
    pc["App"] = "Disconnect" ~> (pc["App"] = "Reset" \/ Terminated)

ConnectOpen(c) ==
    \/ \E o \in ToSet(pending) : o = Op("connect", c)
    \/ \E p \in ToSet(port) : p.op = "connect" /\ p.conn = c

\* A connection made while the context is not stopped is served: the handler of its
\* async_connect is called, however many endpoints are tried, unless Disconnect or another
\* Connect comes first.  Stop events and handlers left over from earlier connections do not
\* keep the thread from it.
Served ==
    \A c \in Connections :
        (pc["App"] = "StartThread" /\ ~stopped /\ m_pConnection = c)
            ~> (~ConnectOpen(c) \/ pc["App"] \in {"Disconnect", "Connect"} \/ Terminated)

-----------------------------------------------------------------------------
(* What asio asks of its users.                                             *)

\* asio/read.hpp:732-736: "ownership of the underlying memory blocks is retained
\* by the caller, which must guarantee that they remain valid until the completion
\* handler is called": m_TempIncomingMessage and the validation words are members
\* of the connection that reads them.
BuffersOutliveReads ==
    /\ \A o \in ToSet(pending) : o.op = "read" => Alive(o.conn)
    /\ \A p \in ToSet(port) : p.op = "read" => Alive(p.conn)
=============================================================================
