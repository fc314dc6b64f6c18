----------------------------- MODULE Connection -----------------------------
(***************************************************************************)
(* The two Connection objects at the ends of one TCP connection            *)
(* (Network/src/Network/Connection.inl): the one a DedicatedServer makes   *)
(* when it accepts and the one a DedicatedClient makes to connect.         *)
(*                                                                         *)
(* Each end is driven by the single thread that runs its io_context, so a  *)
(* completion handler is one atomic action.  At any moment an end has at   *)
(* most one operation of the chain connect/validate/read pending (op) and  *)
(* at most one operation of the message writer (wr).                       *)
(*                                                                         *)
(* Every handshake value, ID and header is 8 bytes, so what travels is     *)
(* modelled as a stream of words; a body is one word.  A stream is kept    *)
(* whole, with the number of words its reader has taken (nread).           *)
(***************************************************************************)
EXTENDS Integers, Sequences

CONSTANTS
    Data,       \* the 64-bit values of the validation exchange
    Ciphers,    \* the functions Encrypt may be, one per ConnectionOwner kind
    ClientID,   \* the ID the server gives this client
    BodyMsgs,   \* the numbers of the messages that have a body
    MaxSends,   \* bound: calls of Send at each end, [Side -> Nat]
    EarlySends  \* may the application call Send before validation has ended?

Side == {"Server", "Client"}
Peer(s) == IF s = "Server" THEN "Client" ELSE "Server"

ASSUME ConstantsAssumption ==
    /\ Data # {}
    /\ Ciphers \subseteq [Data -> Data]
    /\ ClientID \in Nat \ {0}
    /\ MaxSends \in [Side -> Nat]
    /\ EarlySends \in BOOLEAN

\* Two kinds of owner encrypt every value differently (lemma KindsDiffer of
\* CipherProofs).
ASSUME CiphersAssumption ==
    \A f, g \in Ciphers : f # g => \A d \in Data : f[d] # g[d]

ChainOps ==
    {"Accept", "WriteValidation1", "ReadValidation2", "WriteValidation3",
     "WriteValidation4", "Connect", "ReadValidation1", "WriteValidation2",
     "ReadValidation3", "ReadValidation4", "ReadHeader", "ReadBody", "Stopped"}
WriterOps == {"Idle", "WriteHeader", "WriteBody", "Unconnected", "Failed"}

VARIABLES
    cipher,     \* what Encrypt computes at each end
    link,       \* the network path: "up" or "down"
    sock,       \* m_Socket of each end: "none" (not accepted yet), "open", "closed"
    inClients,  \* is the server's connection in m_Clients?
    op,         \* pending operation of the connect/validate/read chain
    wr,         \* pending operation of the message writer
    sent,       \* how often Send has been called; its k-th message is number k
    ran,        \* how many of the lambdas Send posted have run
    outgoing,   \* m_OutgoingMessages
    stream,     \* every word the end has written to its socket
    nread,      \* how many words of the peer's stream the end has read
    temp,       \* m_TempIncomingMessage: the message its header announced, 0 if none
    incoming,   \* every message put in m_rIncomingMessages
    polled,     \* how many of those the server's application has taken
    check,      \* m_ValidationCheck
    id,         \* m_ID
    status      \* which of OnValidate and OnInvalidate has been called

vars == <<cipher, link, sock, inClients, op, wr, sent, ran, outgoing, stream,
          nread, temp, incoming, polled, check, id, status>>

sending   == <<sent, ran, outgoing, wr>>
receiving == <<nread, temp, incoming>>
checking  == <<check, id, status>>

-----------------------------------------------------------------------------
(* Words, and what a reader makes of a word written for another purpose.    *)

Val(d)  == [kind |-> "val", n |-> d]
IDOf(i) == [kind |-> "id", n |-> i]
Hdr(k)  == [kind |-> "hdr", n |-> k]
Body(k) == [kind |-> "body", n |-> k]

Words == [kind : {"val"}, n : Data] \cup [kind : {"id", "hdr", "body"}, n : Nat]

\* Any 8 bytes can be read as a validation value: those of another word
\* amount to some value or other.
AsData(w) == IF w.kind = "val" THEN {w.n} ELSE Data

AsID(w) == IF w.kind = "id" THEN w.n ELSE 0

\* The message a header word announces, 0 for the bytes of another word.
AsMessage(w) == IF w.kind = "hdr" THEN w.n ELSE 0

\* Whether header.size can be more than 0, and whether it can be 0.  The upper
\* half of an ID is 0; of a validation value or a body it may be anything.
HasBody(w) == w.kind # "id" /\ (w.kind = "hdr" => w.n \in BodyMsgs)
HasNoBody(w) == w.kind = "hdr" => w.n \notin BodyMsgs

-----------------------------------------------------------------------------
\* What m_ValidationCheck holds at first, 0; it is set before it is read.
Zero == CHOOSE d \in Data : TRUE

Init ==
    /\ cipher \in [Side -> Ciphers]
    /\ link = "up"
    /\ sock = [s \in Side |-> IF s = "Server" THEN "none" ELSE "open"]
    /\ inClients = FALSE
    /\ op = [s \in Side |-> IF s = "Server" THEN "Accept" ELSE "Connect"]
    /\ wr = [s \in Side |-> "Idle"]
    /\ sent = [s \in Side |-> 0]
    /\ ran = [s \in Side |-> 0]
    /\ outgoing = [s \in Side |-> <<>>]
    /\ stream = [s \in Side |-> <<>>]
    /\ nread = [s \in Side |-> 0]
    /\ temp = [s \in Side |-> 0]
    /\ incoming = [s \in Side |-> <<>>]
    /\ polled = 0
    /\ check = [s \in Side |-> Zero]
    /\ id = [s \in Side |-> 0]
    /\ status = [s \in Side |-> "none"]

\* An operation on s's socket can fail once the peer's socket is closed or
\* the network path is lost.
Broken(s) == link = "down" \/ sock[Peer(s)] = "closed"

Pending(s, o) == sock[s] = "open" /\ op[s] = o

Goto(s, o) == op' = [op EXCEPT ![s] = o]

Put(s, w) == stream' = [stream EXCEPT ![s] = Append(@, w)]

\* async_read of one word, the next of the peer's stream, completes.
Received(s) == stream[Peer(s)][nread[s] + 1]

Take(s) ==
    /\ nread[s] < Len(stream[Peer(s)])
    /\ nread' = [nread EXCEPT ![s] = @ + 1]

\* Connection::Disconnect and the Disconnect of the owner it calls.  The
\* server's drops the reference in m_Clients; the socket closes when the
\* connection is destroyed, which messages not yet polled put off, as each
\* holds a reference.  The client's closes DedicatedClient::m_Socket, which is
\* another socket, never opened: nothing happens to this one.
Disconnect(s) ==
    IF s = "Server"
    THEN /\ inClients' = FALSE
         /\ sock' = [sock EXCEPT ![s] = IF polled < Len(incoming[s])
                                        THEN @ ELSE "closed"]
    ELSE UNCHANGED <<inClients, sock>>

-----------------------------------------------------------------------------
(* Establishing the connection.                                             *)

\* The accept handler, up to ConnectToClient: a refused connection is destroyed
\* with its socket; an allowed one gets the client's ID and the challenge,
\* taken from the clock.
Accept ==
    /\ op["Server"] = "Accept"
    /\ sock["Server"] = "none"
    /\ link = "up"
    /\ \/ /\ Goto("Server", "Stopped")
          /\ sock' = [sock EXCEPT !["Server"] = "closed"]
          /\ UNCHANGED <<inClients, id, check, stream>>
       \/ \E now \in Data :
          /\ sock' = [sock EXCEPT !["Server"] = "open"]
          /\ inClients' = TRUE
          /\ id' = [id EXCEPT !["Server"] = ClientID]
          /\ check' = [check EXCEPT !["Server"] = cipher["Server"][now]]
          /\ Put("Server", Val(now))
          /\ Goto("Server", "WriteValidation1")
    /\ UNCHANGED <<cipher, link, sending, receiving, polled, status>>

\* async_connect succeeds: ReadValidation1 is started.
Connected ==
    /\ Pending("Client", "Connect")
    /\ link = "up"
    /\ Goto("Client", "ReadValidation1")
    /\ UNCHANGED <<cipher, link, sock, inClients, sending, stream, receiving,
                   polled, checking>>

\* The error branch of every handler of the chain: log and Disconnect.
ChainFails(s) ==
    /\ sock[s] = "open"
    /\ op[s] \notin {"Accept", "Stopped"}
    /\ Broken(s)
    /\ Goto(s, "Stopped")
    /\ Disconnect(s)
    /\ UNCHANGED <<cipher, link, sending, stream, receiving, polled, checking>>

-----------------------------------------------------------------------------
(* The validation exchange.                                                 *)

\* A validation write completes that is followed by a read.
ValidationWritten(s) ==
    /\ \/ Pending(s, "WriteValidation1") /\ Goto(s, "ReadValidation2")
       \/ Pending(s, "WriteValidation2") /\ Goto(s, "ReadValidation3")
       \/ Pending(s, "WriteValidation4") /\ Goto(s, "ReadHeader")
    /\ UNCHANGED <<cipher, link, sock, inClients, sending, stream, receiving,
                   polled, checking>>

\* Mistake: m_ValidationOut is written once more in the place of m_ID.
WriteValidation3_AnswersTwice ==
    /\ Pending("Server", "WriteValidation3")
    /\ Put("Server", Val(cipher["Server"][check["Server"]]))
    /\ Goto("Server", "WriteValidation4")
    /\ UNCHANGED <<cipher, link, sock, inClients, sending, receiving, polled,
                   checking>>

\* The server's own answer is written: the client's ID follows.
WriteValidation3 ==
    /\ Pending("Server", "WriteValidation3")
    /\ Put("Server", IDOf(id["Server"]))
    /\ Goto("Server", "WriteValidation4")
    /\ UNCHANGED <<cipher, link, sock, inClients, sending, receiving, polled,
                   checking>>

\* Mistake: the check is computed from the challenge, not from the answer.
ReadValidation1_ChecksAnswer ==
    /\ Pending("Client", "ReadValidation1")
    /\ Take("Client")
    /\ \E in \in AsData(Received("Client")) :
       LET out == cipher["Client"][in]
       IN  /\ check' = [check EXCEPT !["Client"] = out]
           /\ Put("Client", Val(out))
    /\ Goto("Client", "WriteValidation2")
    /\ UNCHANGED <<cipher, link, sock, inClients, sending, temp, incoming,
                   polled, id, status>>

\* The client answers the challenge and computes what the server must answer.
ReadValidation1 ==
    /\ Pending("Client", "ReadValidation1")
    /\ Take("Client")
    /\ \E in \in AsData(Received("Client")) :
       LET out == cipher["Client"][in]
       IN  /\ check' = [check EXCEPT !["Client"] = cipher["Client"][out]]
           /\ Put("Client", Val(out))
    /\ Goto("Client", "WriteValidation2")
    /\ UNCHANGED <<cipher, link, sock, inClients, sending, temp, incoming,
                   polled, id, status>>

\* Mistake: the answer is not compared.
Matches_Anything(s, in) == TRUE

Matches(s, in) == in = check[s]

\* The server compares the answer.  On a match it answers in turn; otherwise it
\* calls OnInvalidate, in which the application may Send, and disconnects.
ReadValidation2 ==
    /\ Pending("Server", "ReadValidation2")
    /\ Take("Server")
    /\ \E in \in AsData(Received("Server")) :
       \/ /\ Matches("Server", in)
          /\ status' = [status EXCEPT !["Server"] = "validated"]
          /\ Put("Server", Val(cipher["Server"][in]))
          /\ Goto("Server", "WriteValidation3")
          /\ UNCHANGED <<sock, inClients, sent>>
       \/ /\ ~Matches("Server", in)
          /\ status' = [status EXCEPT !["Server"] = "invalidated"]
          /\ \/ UNCHANGED sent
             \/ /\ EarlySends /\ sent["Server"] < MaxSends["Server"]
                /\ sent' = [sent EXCEPT !["Server"] = @ + 1]
          /\ Goto("Server", "Stopped")
          /\ Disconnect("Server")
          /\ UNCHANGED stream
    /\ UNCHANGED <<cipher, link, ran, outgoing, wr, temp, incoming, polled,
                   check, id>>

\* The client compares the server's answer.
ReadValidation3 ==
    /\ Pending("Client", "ReadValidation3")
    /\ Take("Client")
    /\ \E in \in AsData(Received("Client")) :
       \/ /\ Matches("Client", in)
          /\ Goto("Client", "ReadValidation4")
          /\ UNCHANGED <<status, sock, inClients>>
       \/ /\ ~Matches("Client", in)
          /\ status' = [status EXCEPT !["Client"] = "invalidated"]
          /\ Goto("Client", "Stopped")
          /\ Disconnect("Client")
    /\ UNCHANGED <<cipher, link, sending, stream, temp, incoming, polled,
                   check, id>>

\* The client takes its ID, calls OnValidate and begins normal operation.
ReadValidation4 ==
    /\ Pending("Client", "ReadValidation4")
    /\ Take("Client")
    /\ id' = [id EXCEPT !["Client"] = AsID(Received("Client"))]
    /\ status' = [status EXCEPT !["Client"] = "validated"]
    /\ Goto("Client", "ReadHeader")
    /\ UNCHANGED <<cipher, link, sock, inClients, sending, stream, temp,
                   incoming, polled, check>>

-----------------------------------------------------------------------------
(* Receiving messages.                                                      *)

AddToIncomingMessageQueue(s, m) ==
    /\ incoming' = [incoming EXCEPT ![s] = Append(@, m)]
    /\ temp' = [temp EXCEPT ![s] = 0]
    /\ Goto(s, "ReadHeader")

\* Mistake: header.size is not looked at, the body is taken for a header.
ReadHeader_NoBody(s) ==
    /\ Pending(s, "ReadHeader")
    /\ Take(s)
    /\ AddToIncomingMessageQueue(s, AsMessage(Received(s)))
    /\ UNCHANGED <<cipher, link, sock, inClients, sending, stream, polled,
                   checking>>

ReadHeader(s) ==
    /\ Pending(s, "ReadHeader")
    /\ Take(s)
    /\ \/ /\ HasBody(Received(s))
          /\ temp' = [temp EXCEPT ![s] = AsMessage(Received(s))]
          /\ Goto(s, "ReadBody")
          /\ UNCHANGED incoming
       \/ /\ HasNoBody(Received(s))
          /\ AddToIncomingMessageQueue(s, AsMessage(Received(s)))
    /\ UNCHANGED <<cipher, link, sock, inClients, sending, stream, polled,
                   checking>>

\* A message whose body is not the one its header announced counts as 0.
ReadBody(s) ==
    /\ Pending(s, "ReadBody")
    /\ Take(s)
    /\ AddToIncomingMessageQueue(
           s, IF Received(s) = Body(temp[s]) THEN temp[s] ELSE 0)
    /\ UNCHANGED <<cipher, link, sock, inClients, sending, stream, polled,
                   checking>>

\* The server's application takes one message (PopFront and OnMessage) and
\* with it goes a reference to the connection, perhaps the last one.
Poll ==
    /\ polled < Len(incoming["Server"])
    /\ polled' = polled + 1
    /\ sock' = [sock EXCEPT !["Server"] =
                   IF ~inClients /\ polled' = Len(incoming["Server"])
                   THEN "closed" ELSE @]
    /\ UNCHANGED <<cipher, link, inClients, op, sending, stream, receiving,
                   checking>>

-----------------------------------------------------------------------------
(* Sending messages.                                                        *)

\* From here on the stream this end writes holds nothing but messages.
Normal(s) ==
    IF s = "Server" THEN op[s] \in {"ReadHeader", "ReadBody"}
                    ELSE status[s] = "validated"

\* Send posts a lambda; its callers test IsConnected first.
Send(s) ==
    /\ sock[s] = "open"
    /\ sent[s] < MaxSends[s]
    /\ EarlySends \/ Normal(s)
    /\ sent' = [sent EXCEPT ![s] = @ + 1]
    /\ UNCHANGED <<cipher, link, sock, inClients, op, wr, ran, outgoing, stream,
                   receiving, polled, checking>>

\* Starts an async_write of w.  On a socket whose connect has not completed
\* the write may be rejected at once.
StartWrite(s, o, w) ==
    \/ /\ wr' = [wr EXCEPT ![s] = o]
       /\ Put(s, w)
    \/ /\ op[s] = "Connect"
       /\ wr' = [wr EXCEPT ![s] = "Unconnected"]
       /\ UNCHANGED stream

\* Mistake: writing is started for every message.
SendLambda_AlwaysWrites(s) ==
    /\ sock[s] = "open"
    /\ ran[s] < sent[s]
    /\ ran' = [ran EXCEPT ![s] = @ + 1]
    /\ outgoing' = [outgoing EXCEPT ![s] = Append(@, ran'[s])]
    /\ StartWrite(s, "WriteHeader", Hdr(Head(outgoing'[s])))
    /\ UNCHANGED <<cipher, link, sock, inClients, op, sent, receiving, polled,
                   checking>>

\* Mistake: the message is put before the one that is being written.
SendLambda_PushFront(s) ==
    /\ sock[s] = "open"
    /\ ran[s] < sent[s]
    /\ ran' = [ran EXCEPT ![s] = @ + 1]
    /\ outgoing' = [outgoing EXCEPT ![s] = <<ran'[s]>> \o @]
    /\ \/ /\ outgoing[s] = <<>>
          /\ StartWrite(s, "WriteHeader", Hdr(Head(outgoing'[s])))
       \/ /\ outgoing[s] # <<>>
          /\ UNCHANGED <<wr, stream>>
    /\ UNCHANGED <<cipher, link, sock, inClients, op, sent, receiving, polled,
                   checking>>

\* Mistake: Empty() is called after PushBack, so it never holds.
SendLambda_TestsLate(s) ==
    /\ sock[s] = "open"
    /\ ran[s] < sent[s]
    /\ ran' = [ran EXCEPT ![s] = @ + 1]
    /\ outgoing' = [outgoing EXCEPT ![s] = Append(@, ran'[s])]
    /\ UNCHANGED <<cipher, link, sock, inClients, op, sent, wr, stream, receiving,
                   polled, checking>>

\* The lambda: queue the message; if none was queued, start writing.
SendLambda(s) ==
    /\ sock[s] = "open"
    /\ ran[s] < sent[s]
    /\ ran' = [ran EXCEPT ![s] = @ + 1]
    /\ outgoing' = [outgoing EXCEPT ![s] = Append(@, ran'[s])]
    /\ \/ /\ outgoing[s] = <<>>
          /\ StartWrite(s, "WriteHeader", Hdr(Head(outgoing'[s])))
       \/ /\ outgoing[s] # <<>>
          /\ UNCHANGED <<wr, stream>>
    /\ UNCHANGED <<cipher, link, sock, inClients, op, sent, receiving, polled,
                   checking>>

\* Mistake: the next message is left waiting.
FinishMessage_StopsWriting(s) ==
    /\ outgoing' = [outgoing EXCEPT ![s] = Tail(@)]
    /\ wr' = [wr EXCEPT ![s] = "Idle"]
    /\ UNCHANGED stream

\* PopFront, then WriteHeader for the next message if there is one.
FinishMessage(s) ==
    /\ outgoing' = [outgoing EXCEPT ![s] = Tail(@)]
    /\ \/ /\ outgoing'[s] = <<>>
          /\ wr' = [wr EXCEPT ![s] = "Idle"]
          /\ UNCHANGED stream
       \/ /\ outgoing'[s] # <<>>
          /\ StartWrite(s, "WriteHeader", Hdr(Head(outgoing'[s])))

WriteHeader(s) ==
    /\ sock[s] = "open" /\ wr[s] = "WriteHeader"
    /\ \/ /\ Head(outgoing[s]) \in BodyMsgs
          /\ StartWrite(s, "WriteBody", Body(Head(outgoing[s])))
          /\ UNCHANGED outgoing
       \/ /\ Head(outgoing[s]) \notin BodyMsgs
          /\ FinishMessage(s)
    /\ UNCHANGED <<cipher, link, sock, inClients, op, sent, ran, receiving,
                   polled, checking>>

WriteBody(s) ==
    /\ sock[s] = "open" /\ wr[s] = "WriteBody"
    /\ FinishMessage(s)
    /\ UNCHANGED <<cipher, link, sock, inClients, op, sent, ran, receiving,
                   polled, checking>>

\* The error branches of both handlers: log and Disconnect.  The message stays
\* at the front of the queue with no operation pending, so nothing is written
\* any more.
WriterFails(s) ==
    /\ sock[s] = "open"
    /\ \/ wr[s] \in {"WriteHeader", "WriteBody"} /\ Broken(s)
       \/ wr[s] = "Unconnected"
    /\ wr' = [wr EXCEPT ![s] = "Failed"]
    /\ Disconnect(s)
    /\ UNCHANGED <<cipher, link, op, sent, ran, outgoing, stream, receiving,
                   polled, checking>>

-----------------------------------------------------------------------------
(* The environment.                                                         *)

LinkDown ==
    /\ link = "up"
    /\ link' = "down"
    /\ UNCHANGED <<cipher, sock, inClients, op, sending, stream, receiving,
                   polled, checking>>

\* DedicatedClient::Disconnect or the destructor of either owner: the
\* context's thread is stopped and the connection destroyed.
Shutdown(s) ==
    /\ sock[s] # "closed"
    /\ sock' = [sock EXCEPT ![s] = "closed"]
    /\ UNCHANGED <<cipher, link, inClients, op, sending, stream, receiving,
                   polled, checking>>

-----------------------------------------------------------------------------
Validation ==
    \/ Accept \/ Connected
    \/ \E s \in Side : ValidationWritten(s)
    \/ WriteValidation3
    \/ ReadValidation1 \/ ReadValidation2 \/ ReadValidation3 \/ ReadValidation4

Next ==
    \/ Validation
    \/ Poll
    \/ LinkDown
    \/ \E s \in Side :
       \/ ChainFails(s) \/ ReadHeader(s) \/ ReadBody(s)
       \/ Send(s) \/ SendLambda(s) \/ WriteHeader(s) \/ WriteBody(s)
       \/ WriterFails(s) \/ Shutdown(s)

\* Each context's thread runs every handler that is ready.  A peer's close is
\* noticed; a lost network path need not be.  The application and the network
\* owe nothing.
ThreadFairness(s) ==
    /\ WF_vars(ReadHeader(s) \/ ReadBody(s))
    /\ WF_vars(SendLambda(s))
    /\ WF_vars(WriteHeader(s) \/ WriteBody(s))
    /\ WF_vars(WriterFails(s) /\ link = "up")
    /\ WF_vars(ChainFails(s) /\ link = "up")

ThreadsFair == \A s \in Side : ThreadFairness(s)

Fairness == WF_vars(Validation) /\ ThreadsFair

Spec == Init /\ [][Next]_vars
FairSpec == Spec /\ Fairness

-----------------------------------------------------------------------------
(* What the connection promises.                                            *)

\* The values of the variables, and the bounds between them: nothing is read
\* that was not written, run that was not posted, polled that was not queued.
ControlTypes ==
    /\ cipher \in [Side -> Ciphers]
    /\ link \in {"up", "down"}
    /\ sock \in [Side -> {"none", "open", "closed"}]
    /\ inClients \in BOOLEAN
    /\ op \in [Side -> ChainOps]
    /\ status \in [Side -> {"none", "validated", "invalidated"}]

CheckingTypes ==
    /\ check \in [Side -> Data]
    /\ id \in [Side -> Nat]

SendingTypes ==
    /\ wr \in [Side -> WriterOps]
    /\ sent \in [Side -> Nat]
    /\ ran \in [Side -> Nat]
    /\ outgoing \in [Side -> Seq(Nat \ {0})]
    /\ \A s \in Side : ran[s] <= sent[s] /\ sent[s] <= MaxSends[s]

StreamTypes ==
    /\ stream \in [Side -> Seq(Words)]
    /\ nread \in [Side -> Nat]
    /\ \A s \in Side : nread[s] <= Len(stream[Peer(s)])

QueueTypes ==
    /\ temp \in [Side -> Nat]
    /\ incoming \in [Side -> Seq(Nat)]
    /\ polled \in 0..Len(incoming["Server"])

TypeOK ==
    /\ ControlTypes
    /\ CheckingTypes
    /\ SendingTypes
    /\ StreamTypes
    /\ QueueTypes

\* An end's incoming queue holds the messages its peer sent, in the order of
\* the calls of Send, each once, none missing, none made up: the framing of
\* header and body and the write chain over m_OutgoingMessages keep in step.
DeliveredInOrder ==
    \A s \in Side :
       /\ Len(incoming[s]) <= sent[Peer(s)]
       /\ \A i \in DOMAIN incoming[s] : incoming[s][i] = i

\* When the client has been told it is validated, the server has validated it,
\* and the two agree on the client's ID.
HandshakeAgreement ==
    status["Client"] = "validated" =>
       status["Server"] = "validated" /\ id["Client"] = id["Server"]

\* Neither end validates a peer whose Encrypt is that of another kind of owner.
ValidatedPeersShareCipher ==
    \A s \in Side :
       status[s] = "validated" => cipher["Server"] = cipher["Client"]

\* A write is pending exactly when a message is queued: the chain of writes
\* neither stops with messages left nor is started twice.  This is what the
\* test of Empty() before PushBack (Connection.inl:81) is for, and it holds
\* even when messages are sent before the connection is validated.
WriterBusyIffQueued == \A s \in Side : wr[s] = "Idle" <=> outgoing[s] = <<>>

\* The words that belong to messages, in the order an end wrote them: each
\* message's header, its body if it has one, then the next message's.
IsMessageWord(w) == w.kind \in {"hdr", "body"}

NextMessageWord(w) ==
    IF w.kind = "hdr" /\ w.n \in BodyMsgs THEN Body(w.n) ELSE Hdr(w.n + 1)

\* The message word that is due after the first i words of a stream.
Due(words, i, w) ==
    \/ w = Hdr(1) /\ \A j \in 1..i : ~IsMessageWord(words[j])
    \/ \E j \in 1..i :
          /\ IsMessageWord(words[j])
          /\ \A k \in (j + 1)..i : ~IsMessageWord(words[k])
          /\ w = NextMessageWord(words[j])

\* No message is interleaved with another, repeated or skipped on the wire, no
\* matter when Send is called and which writes fail.
MessageWordsInOrder ==
    \A s \in Side : \A i \in DOMAIN stream[s] :
       IsMessageWord(stream[s][i]) => Due(stream[s], i - 1, stream[s][i])

\* Seen from outside, the two ends are a session: the server decides first and
\* decides right, the client is then never refused, and no message is received
\* before both ends are validated, out of order, or twice.
Ideal == INSTANCE Session WITH
    alike <- cipher["Server"] = cipher["Client"], received <- incoming

ImplementsSession == Ideal!SSpec

-----------------------------------------------------------------------------
Failure == link = "down" \/ \E s \in Side : sock[s] = "closed"

\* If nothing fails, two ends that encrypt alike come to validate each other.
HandshakeCompletes ==
    cipher["Server"] = cipher["Client"] ~>
       Failure \/ \A s \in Side : status[s] = "validated"

\* If nothing fails, every message that is sent reaches the peer's queue.
EventuallyDelivered ==
    \A s \in Side : \A k \in 1..MaxSends[s] :
       sent[s] >= k ~> Failure \/ Len(incoming[Peer(s)]) >= k

-----------------------------------------------------------------------------
(* What comments in Connection.inl say.                                     *)

\* Lines 374-376: "Assume successful bidirectional validation, so begin normal
\* operation": the words of the exchange come before the words of messages.
ValidationEnds(s) == IF s = "Server" THEN 3 ELSE 1

NormalOperationAfterValidation ==
    \A s \in Side : \A i \in DOMAIN stream[s] :
       IsMessageWord(stream[s][i]) => i > ValidationEnds(s)

\* Line 375: "If client invalidates us, asio will have this fail and disconnect
\* will be called": over a working network path, the server's chain of
\* operations comes to an end.
ClientInvalidationDisconnects ==
    status["Client"] = "invalidated" ~>
       \/ op["Server"] = "Stopped" \/ sock["Server"] = "closed"
       \/ link = "down"

\* Lines 199-200: "Has to be async work so any messages the server
\* implementation sends in OnClientInvalidate can be sent before the connection
\* is closed": the step that calls OnInvalidate leaves no message behind.
InvalidateMessagesSent ==
    [][ ReadValidation2 /\ sock'["Server"] = "closed" =>
           ran'["Server"] = sent'["Server"] ]_vars

=============================================================================
