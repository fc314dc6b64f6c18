---------------------------- MODULE ConnectionInv ----------------------------
(***************************************************************************)
(* Why a connection keeps its promises when nothing is sent before its     *)
(* validation has ended (EarlySends = FALSE): an inductive invariant that  *)
(* ties each end's progress to the words on the two streams.               *)
(***************************************************************************)
EXTENDS Connection

\* How far each end is with the exchange shows in the words it has written and
\* read, and no message is sent before it is over.
ServerPhase ==
    LET n == Len(stream["Server"])
        r == nread["Server"]
    IN  /\ op["Server"] \in
              {"Accept", "WriteValidation1", "ReadValidation2", "WriteValidation3",
               "WriteValidation4", "ReadHeader", "ReadBody", "Stopped"}
        /\ op["Server"] = "Accept" => n = 0 /\ r = 0 /\ id["Server"] = 0
        /\ op["Server"] \in {"WriteValidation1", "ReadValidation2"} =>
              n = 1 /\ r = 0 /\ status["Server"] = "none"
        /\ op["Server"] = "WriteValidation3" => n = 2 /\ r = 1
        /\ op["Server"] = "WriteValidation4" => n = 3 /\ r = 1
        /\ op["Server"] \in {"ReadHeader", "ReadBody"} => n >= 3 /\ r >= 1
        /\ sent["Server"] > 0 => n >= 3 /\ op["Server"] \in {"ReadHeader", "ReadBody", "Stopped"}
        /\ n = 0 => status["Server"] = "none"

ClientPhase ==
    LET n == Len(stream["Client"])
        r == nread["Client"]
    IN  /\ op["Client"] \in
              {"Connect", "ReadValidation1", "WriteValidation2", "ReadValidation3",
               "ReadValidation4", "ReadHeader", "ReadBody", "Stopped"}
        /\ op["Client"] \in {"Connect", "ReadValidation1"} => n = 0 /\ r = 0
        /\ op["Client"] \in {"WriteValidation2", "ReadValidation3"} => n = 1 /\ r = 1
        /\ op["Client"] = "ReadValidation4" => n = 1 /\ r = 2
        /\ op["Client"] \in {"ReadHeader", "ReadBody"} =>
              n >= 1 /\ r >= 3 /\ status["Client"] = "validated"
        /\ status["Client"] = "validated" =>
              n >= 1 /\ op["Client"] \in {"ReadHeader", "ReadBody", "Stopped"}
        /\ sent["Client"] > 0 => status["Client"] = "validated"

\* The words of the exchange answer each other, and what each end compares its
\* peer's answer with is computed from them.
Challenge == stream["Server"][1].n
Answer    == stream["Client"][1].n

Handshake ==
    /\ Len(stream["Server"]) >= 1 =>
          /\ stream["Server"][1].kind = "val"
          /\ check["Server"] = cipher["Server"][Challenge]
          /\ id["Server"] = ClientID
    /\ Len(stream["Client"]) >= 1 =>
          /\ Len(stream["Server"]) >= 1
          /\ stream["Client"][1].kind = "val"
          /\ Answer = cipher["Client"][Challenge]
          /\ check["Client"] = cipher["Client"][Answer]
    /\ Len(stream["Server"]) >= 2 =>
          /\ Len(stream["Client"]) >= 1
          /\ status["Server"] = "validated"
          /\ stream["Server"][2] = Val(cipher["Server"][Answer])
    /\ Len(stream["Server"]) >= 3 => stream["Server"][3] = IDOf(ClientID)
    /\ status["Server"] = "validated" => cipher["Server"] = cipher["Client"]
    /\ status["Client"] # "invalidated"
    /\ status["Client"] = "validated" =>
          Len(stream["Server"]) >= 3 /\ id["Client"] = ClientID
    /\ status["Client"] = "none" => id["Client"] = 0

\* The word that must follow the first i words of s's stream, from the end of
\* the exchange on.
After(s, i) ==
    IF i <= ValidationEnds(s) THEN Hdr(1) ELSE NextMessageWord(stream[s][i])

StreamInStep(s) ==
    \A i \in 1..Len(stream[s]) :
       i > ValidationEnds(s) =>
          /\ stream[s][i] = After(s, i - 1)
          /\ stream[s][i].n <= ran[s]

\* A queue holds the last messages of the first k that were posted.
LastPosted(q, k) ==
    /\ Len(q) <= k
    /\ \A i \in 1..Len(q) : q[i] = k - Len(q) + i

\* The message being written is the one at the front of the queue; the queue
\* holds the last messages that were posted; between messages the next one is due.
WriterInStep(s) ==
    LET n == Len(stream[s])
    IN  /\ LastPosted(outgoing[s], ran[s])
        /\ wr[s] = "Idle" => After(s, n) = Hdr(ran[s] + 1)
        /\ wr[s] = "WriteHeader" =>
              n > ValidationEnds(s) /\ stream[s][n] = Hdr(Head(outgoing[s]))
        /\ wr[s] = "WriteBody" =>
              n > ValidationEnds(s) /\ stream[s][n] = Body(Head(outgoing[s]))
        /\ wr[s] # "Unconnected"

\* The reader has taken whole messages, or whole messages and a header.
ReaderInStep(s) ==
    LET p == Peer(s)
        r == nread[s]
    IN  /\ Len(incoming[s]) <= ran[p]
        /\ \A i \in 1..Len(incoming[s]) : incoming[s][i] = i
        /\ op[s] = "ReadHeader" => After(p, r) = Hdr(Len(incoming[s]) + 1)
        /\ op[s] = "ReadBody" =>
              /\ r > ValidationEnds(p)
              /\ stream[p][r] = Hdr(Len(incoming[s]) + 1)
              /\ temp[s] = Len(incoming[s]) + 1
              /\ temp[s] \in BodyMsgs
        /\ op[s] \notin {"ReadHeader", "ReadBody", "Stopped"} => incoming[s] = <<>>

\* The inductive invariant.
IInv ==
    /\ TypeOK
    /\ WriterBusyIffQueued
    /\ ServerPhase
    /\ ClientPhase
    /\ Handshake
    /\ \A s \in Side : StreamInStep(s) /\ WriterInStep(s) /\ ReaderInStep(s)

-----------------------------------------------------------------------------
(* Why a connection gets on as long as nothing fails.                       *)

Alike == cipher["Server"] = cipher["Client"]

\* An end that has stopped or given up writing has met a failure; until then each
\* end has its socket.
StopsByFailure ==
    /\ sock["Client"] # "none"
    /\ sock["Server"] = "none" => op["Server"] = "Accept"
    /\ op["Server"] = "Accept" => sock["Server"] # "open"
    /\ \A s \in Side : wr[s] = "Failed" => Failure
    /\ Alike /\ (\E s \in Side : op[s] = "Stopped") => Failure

\* How many of the ten steps to a validated connection have been taken.
StageOf ==
    [Accept |-> 0, WriteValidation1 |-> 1, ReadValidation2 |-> 2, WriteValidation3 |-> 3,
     WriteValidation4 |-> 4, Connect |-> 0, ReadValidation1 |-> 1, WriteValidation2 |-> 2,
     ReadValidation3 |-> 3, ReadValidation4 |-> 4, ReadHeader |-> 5, ReadBody |-> 5,
     Stopped |-> 5]
Stage == StageOf[op["Server"]] + StageOf[op["Client"]]

\* When the context's thread has something to do: a handler is called when what it
\* waits for is there.
WordThere(s) == nread[s] < Len(stream[Peer(s)])

ValidationReady ==
    \/ op["Server"] = "Accept" /\ sock["Server"] = "none" /\ link = "up"
    \/ Pending("Client", "Connect") /\ link = "up"
    \/ \E s \in Side :
       \/ \E o \in {"WriteValidation1", "WriteValidation2", "WriteValidation4"} : Pending(s, o)
       \/ s = "Server" /\ Pending(s, "WriteValidation3")
       \/ s = "Server" /\ Pending(s, "ReadValidation2") /\ WordThere(s)
       \/ /\ s = "Client" /\ WordThere(s)
          /\ \E o \in {"ReadValidation1", "ReadValidation3", "ReadValidation4"} : Pending(s, o)

ReadReady(s) == WordThere(s) /\ (Pending(s, "ReadHeader") \/ Pending(s, "ReadBody"))
LambdaReady(s) == sock[s] = "open" /\ ran[s] < sent[s]
WriteReady(s) == sock[s] = "open" /\ wr[s] \in {"WriteHeader", "WriteBody"}

ThreadGoesOn(s) ==
    /\ ReadReady(s) => ENABLED <<ReadHeader(s) \/ ReadBody(s)>>_vars
    /\ LambdaReady(s) => ENABLED <<SendLambda(s)>>_vars
    /\ WriteReady(s) => ENABLED <<WriteHeader(s) \/ WriteBody(s)>>_vars

StepsEnabled ==
    /\ ValidationReady => ENABLED <<Validation>>_vars
    /\ \A s \in Side : ThreadGoesOn(s)

Reading(s) == op[s] \in {"ReadHeader", "ReadBody"}

\* What p's next undelivered message waits for, once both ends read messages: p's thread
\* to queue it, the peer to read what has been written, or else p to write.
MessagesMove(p) ==
    LET s == Peer(p)
    IN  /\ ran[p] < sent[p] => ENABLED <<SendLambda(p)>>_vars
        /\ Len(incoming[s]) < ran[p] =>
              IF WordThere(s) THEN ENABLED <<ReadHeader(s) \/ ReadBody(s)>>_vars
              ELSE ENABLED <<WriteHeader(p) \/ WriteBody(p)>>_vars

\* Unless something fails, two ends that encrypt alike never wait for each other: until
\* both read messages a step of the validation is due at one of them, and then somebody
\* always has the next step to take for a message that has not arrived.
NobodyStuck ==
    /\ StepsEnabled
    /\ Alike /\ ~Failure =>
          IF \A s \in Side : Reading(s)
          THEN \A p \in Side : MessagesMove(p)
          ELSE ENABLED <<Validation>>_vars
=============================================================================
