--------------------------- MODULE ProgressProofs ---------------------------
(***************************************************************************)
(* What a connection gets done when nothing fails, if nothing is sent      *)
(* before its validation has ended.  The prover does not know when an      *)
(* action is ENABLED: the theorems ask for StepsEnabled, which TLC checks  *)
(* as a part of NobodyStuck.                                               *)
(***************************************************************************)
EXTENDS DeliveryProofs

-----------------------------------------------------------------------------
(* Nothing stops unless something fails.                                    *)

\* What a step may do to the sockets.
LEMMA SocketsMove ==
  ASSUME ControlTypes, [Next]_vars
  PROVE  \/ Accept
         \/ UNCHANGED sock
         \/ \E r \in Side : sock' = [sock EXCEPT ![r] = "closed"]
<1>1. sock = [sock EXCEPT !["Server"] = @] /\ "Server" \in Side
  BY DEF ControlTypes, Side
<1>2. ASSUME NEW s \in Side, Disconnect(s)
      PROVE  UNCHANGED sock \/ sock' = [sock EXCEPT !["Server"] = "closed"]
  BY <1>1, <1>2 DEF Disconnect
<1>3. ASSUME NEW s \in Side, ChainFails(s) \/ WriterFails(s)
      PROVE  UNCHANGED sock \/ sock' = [sock EXCEPT !["Server"] = "closed"]
  BY <1>2, <1>3 DEF ChainFails, WriterFails
<1>4. CASE Poll
  BY <1>1, <1>4 DEF Poll
<1>5. CASE ReadValidation2
  BY <1>1, <1>2, <1>5 DEF ReadValidation2
<1>6. CASE ReadValidation3
  BY <1>2, <1>6 DEF ReadValidation3, Side
<1>7. \/ Accept \/ UNCHANGED sock \/ Poll \/ ReadValidation2 \/ ReadValidation3
      \/ \E s \in Side : ChainFails(s) \/ WriterFails(s) \/ sock' = [sock EXCEPT ![s] = "closed"]
  BY DEF vars, Next, Validation, Connected, ValidationWritten, WriteValidation3, ReadValidation1,
     ReadValidation4, LinkDown, ReadHeader, ReadBody, Send, SendLambda, WriteHeader, WriteBody,
     Shutdown
<1>8. QED
  BY <1>1, <1>3, <1>4, <1>5, <1>6, <1>7

LEMMA FailureStays ==
  ASSUME ControlTypes, [Next]_vars, Failure
  PROVE  Failure'
<1>1. CASE link = "down"
  <2>1. link' = "down"
    BY <1>1 DEF vars, Next, Validation, Accept, Connected, ValidationWritten, WriteValidation3,
       ReadValidation1, ReadValidation2, ReadValidation3, ReadValidation4, Poll, LinkDown,
       ChainFails, ReadHeader, ReadBody, Send, SendLambda, WriteHeader, WriteBody, WriterFails,
       Shutdown
  <2>2. QED
    BY <2>1 DEF Failure
<1>2. ASSUME NEW s \in Side, sock[s] = "closed"
      PROVE  sock'[s] = "closed"
  <2>1. CASE Accept
    BY <1>2, <2>1 DEF Accept, ControlTypes, Side
  <2>2. CASE UNCHANGED sock \/ \E r \in Side : sock' = [sock EXCEPT ![r] = "closed"]
    BY <1>2, <2>2 DEF ControlTypes
  <2>3. QED
    BY <2>1, <2>2, SocketsMove
<1>3. QED
  BY <1>1, <1>2 DEF Failure

\* As long as nothing fails a socket is only opened, by the accept handler.
LEMMA SocketsStay ==
  ASSUME ControlTypes, [Next]_vars, ~Failure'
  PROVE  \/ UNCHANGED sock
         \/ /\ Accept /\ op'["Server"] = "WriteValidation1"
            /\ sock' = [sock EXCEPT !["Server"] = "open"]
<1>1. CASE Accept
  BY <1>1 DEF Accept, ControlTypes, Failure, Goto, Side
<1>2. ASSUME NEW r \in Side, sock' = [sock EXCEPT ![r] = "closed"]
      PROVE  FALSE
  BY <1>2 DEF ControlTypes, Failure
<1>3. QED
  BY <1>1, <1>2, SocketsMove

-----------------------------------------------------------------------------
(* An end stops only by a failure.                                          *)

LEMMA SendersFail ==
  ASSUME ControlTypes, SendingTypes, [Next]_vars, NEW s \in Side, wr'[s] = "Failed", wr[s] # "Failed"
  PROVE  wr[s] = "Unconnected" \/ Failure
<1>1. ASSUME NEW r \in Side, NEW o, NEW w, StartWrite(r, o, w), o # "Failed"
      PROVE  wr'[s] # "Failed"
  BY <1>1 DEF StartWrite, SendingTypes
<1>2. ASSUME NEW r \in Side, WriterFails(r)
      PROVE  wr[s] = "Unconnected" \/ Failure
  BY <1>2, PeerType DEF WriterFails, SendingTypes, Broken, Failure
<1>3. ASSUME NEW r \in Side, FinishMessage(r)
      PROVE  wr'[s] # "Failed"
  BY <1>1, <1>3 DEF FinishMessage, SendingTypes
<1>4. ASSUME NEW r \in Side, SendLambda(r) \/ WriteHeader(r) \/ WriteBody(r)
      PROVE  wr'[s] # "Failed"
  BY <1>1, <1>3, <1>4 DEF SendLambda, WriteHeader, WriteBody, SendingTypes
<1>5. \/ UNCHANGED wr
      \/ \E r \in Side : SendLambda(r) \/ WriteHeader(r) \/ WriteBody(r) \/ WriterFails(r)
  BY DEF vars, sending, Next, Validation, Accept, Connected, ValidationWritten, WriteValidation3,
     ReadValidation1, ReadValidation2, ReadValidation3, ReadValidation4, Poll, LinkDown,
     ChainFails, ReadHeader, ReadBody, Send, Shutdown
<1>6. QED
  BY <1>2, <1>4, <1>5

LEMMA ChainsStop ==
  ASSUME IInv, IInv', ~EarlySends, [Next]_vars, Alike, NEW s \in Side, op'[s] = "Stopped", op[s] # "Stopped"
  PROVE  Failure'
<1>1. ControlTypes /\ ControlTypes' /\ Handshake'
  BY DEF IInv, TypeOK
<1>2. CASE Accept
  BY <1>1, <1>2, SocketsStay DEF Accept, Goto, ControlTypes, Side
<1>3. ASSUME NEW r \in Side, ChainFails(r)
      PROVE  Failure'
  <2>1. Failure
    BY <1>3, PeerType DEF ChainFails, Broken, Failure
  <2>2. QED
    BY <1>1, <2>1, FailureStays
<1>4. CASE ReadValidation2
  <2>1. status'["Server"] = "validated"
    BY <1>1, <1>4, JudgedRightly DEF Ideal!ServerValidates, Alike, ControlTypes, Side
  <2>2. op' = [op EXCEPT !["Server"] = "WriteValidation3"]
    BY <1>1, <1>4, <2>1 DEF ReadValidation2, Goto, ControlTypes, Side
  <2>3. QED
    BY <1>1, <2>2 DEF ControlTypes, Side
<1>5. CASE ReadValidation3
  <2>1. status'["Client"] # "invalidated"
    BY <1>1 DEF Handshake
  <2>2. op' = [op EXCEPT !["Client"] = "ReadValidation4"]
    BY <1>1, <1>5, <2>1 DEF ReadValidation3, Goto, ControlTypes, Side
  <2>3. QED
    BY <1>1, <2>2 DEF ControlTypes, Side
<1>6. \/ Accept \/ ReadValidation2 \/ ReadValidation3
      \/ \E r \in Side : ChainFails(r)
      \/ op' = op
      \/ \E r \in Side, o \in ChainOps \ {"Stopped"} : op' = [op EXCEPT ![r] = o]
  BY DEF vars, Next, Validation, Connected, ValidationWritten, WriteValidation3, ReadValidation1,
     ReadValidation4, Poll, LinkDown, ReadHeader, ReadBody, AddToIncomingMessageQueue, Send,
     SendLambda, WriteHeader, WriteBody, WriterFails, Shutdown, Goto, Side, ChainOps
<1>7. QED
  BY <1>1, <1>2, <1>3, <1>4, <1>5, <1>6 DEF ControlTypes

LEMMA StopsByFailureNext ==
  ASSUME IInv, IInv', ~EarlySends, StopsByFailure, [Next]_vars
  PROVE  StopsByFailure'
<1>1. /\ ControlTypes /\ ControlTypes' /\ SendingTypes /\ SendingTypes'
      /\ \A s \in Side : WriterInStep(s)
  BY DEF IInv, TypeOK
<1>2. cipher' = cipher
  BY DEF vars, Next, Validation, Accept, Connected, ValidationWritten, WriteValidation3,
     ReadValidation1, ReadValidation2, ReadValidation3, ReadValidation4, Poll, LinkDown,
     ChainFails, ReadHeader, ReadBody, Send, SendLambda, WriteHeader, WriteBody, WriterFails,
     Shutdown
<1>3. ASSUME NEW s \in Side, wr'[s] = "Failed" PROVE Failure'
  BY <1>1, <1>3, SendersFail, FailureStays DEF StopsByFailure, WriterInStep
<1>4. ASSUME Alike', NEW s \in Side, op'[s] = "Stopped" PROVE Failure'
  BY <1>1, <1>2, <1>4, ChainsStop, FailureStays DEF StopsByFailure, Alike
<1>5. /\ sock'["Client"] # "none"
      /\ sock'["Server"] = "none" => sock["Server"] = "none"
      /\ sock'["Server"] = "open" => sock["Server"] = "open" \/ op'["Server"] # "Accept"
  <2>1. CASE Accept
    BY <1>1, <2>1 DEF Accept, StopsByFailure, ControlTypes, Goto, Side
  <2>2. QED
    BY <1>1, <2>1, SocketsMove DEF StopsByFailure, ControlTypes, Side
<1>6. sock'["Server"] = "none" => op'["Server"] = "Accept"
  <2>1. op["Server"] = "Accept" => op'["Server"] = "Accept" \/ Accept
    BY <1>1 DEF vars, Next, Validation, Connected, ValidationWritten, WriteValidation3,
       ReadValidation1, ReadValidation2, ReadValidation3, ReadValidation4, Poll, LinkDown,
       ChainFails, ReadHeader, ReadBody, AddToIncomingMessageQueue, Send, SendLambda, WriteHeader,
       WriteBody, WriterFails, Shutdown, Goto, Pending, ControlTypes, Side
  <2>2. Accept => sock'["Server"] # "none"
    BY <1>1 DEF Accept, ControlTypes, Side
  <2>3. QED
    BY <1>5, <2>1, <2>2 DEF StopsByFailure
<1>7. op'["Server"] = "Accept" => op["Server"] = "Accept"
  BY <1>1 DEF vars, Next, Validation, Accept, Connected, ValidationWritten, WriteValidation3,
     ReadValidation1, ReadValidation2, ReadValidation3, ReadValidation4, Poll, LinkDown,
     ChainFails, ReadHeader, ReadBody, AddToIncomingMessageQueue, Send, SendLambda, WriteHeader,
     WriteBody, WriterFails, Shutdown, Goto, ControlTypes, Side
<1>8. QED
  BY <1>3, <1>4, <1>5, <1>6, <1>7 DEF StopsByFailure

LEMMA StopsByFailureInit == Init => StopsByFailure
  BY DEF Init, StopsByFailure, Failure, Side

\* While nothing has failed, each end's socket is open, but for the server's until it
\* has accepted, and its chain goes on.
LEMMA Alive ==
  ASSUME IInv, StopsByFailure, ~Failure
  PROVE  /\ link = "up" /\ sock["Client"] = "open"
         /\ op["Server"] = "Accept" => sock["Server"] = "none"
         /\ op["Server"] # "Accept" => sock["Server"] = "open"
         /\ \A s \in Side : wr[s] # "Failed"
         /\ Alike => \A s \in Side : op[s] # "Stopped"
  BY DEF IInv, TypeOK, ControlTypes, StopsByFailure, Failure, Side

-----------------------------------------------------------------------------
(* The validation goes on.                                                  *)

ServerStages == {"Accept", "WriteValidation1", "ReadValidation2", "WriteValidation3", "WriteValidation4"}
ClientStages == {"Connect", "ReadValidation1", "WriteValidation2", "ReadValidation3", "ReadValidation4"}

LEMMA StageTypes ==
  /\ \A o \in ChainOps : StageOf[o] \in 0..5
  /\ \A o \in ServerStages \cup ClientStages : StageOf[o] \in 0..4
  /\ \A o \in {"ReadHeader", "ReadBody", "Stopped"} : StageOf[o] = 5
  BY DEF ChainOps, ServerStages, ClientStages, StageOf

\* Unless both ends are reading messages, the next handler of one of them can be called.
LEMMA SomeoneReady ==
  ASSUME IInv, StopsByFailure, ~Failure, Alike
  PROVE  \/ ValidationReady
         \/ \A s \in Side : op[s] \in {"ReadHeader", "ReadBody"}
<1>1. /\ ServerPhase /\ ClientPhase /\ StreamTypes /\ ControlTypes
      /\ Len(stream["Server"]) \in Nat /\ Len(stream["Client"]) \in Nat
  BY DEF IInv, TypeOK, StreamTypes, Side
<1>2. /\ link = "up" /\ sock["Client"] = "open"
      /\ op["Server"] = "Accept" => sock["Server"] = "none"
      /\ op["Server"] # "Accept" => sock["Server"] = "open"
      /\ op["Server"] # "Stopped" /\ op["Client"] # "Stopped"
  BY Alive DEF Side
<1>3. CASE op["Server"] = "Accept" \/ op["Client"] = "Connect"
  BY <1>2, <1>3 DEF ValidationReady, Pending
<1>4. CASE op["Server"] \in {"WriteValidation1", "WriteValidation3", "WriteValidation4"}
  BY <1>2, <1>4 DEF ValidationReady, Pending, Side
<1>5. CASE op["Client"] = "WriteValidation2"
  BY <1>2, <1>5 DEF ValidationReady, Pending, Side
<1>6. ASSUME op["Server"] \in {"ReadValidation2", "ReadHeader", "ReadBody"}, op["Client"] = "ReadValidation1"
      PROVE  ValidationReady
  <2>1. nread["Client"] = 0
    BY <1>1, <1>6 DEF ClientPhase
  <2>2. op["Server"] = "ReadValidation2" => Len(stream["Server"]) = 1
    BY <1>1 DEF ServerPhase
  <2>3. op["Server"] \in {"ReadHeader", "ReadBody"} => Len(stream["Server"]) >= 3
    BY <1>1 DEF ServerPhase
  <2>4. Len(stream["Server"]) = 1 \/ Len(stream["Server"]) >= 3
    BY <1>6, <2>2, <2>3
  <2>5. Len(stream["Server"]) \in Nat
    BY <1>1
  <2>6. 0 < Len(stream["Server"])
    BY <2>4, <2>5
  <2>7. WordThere("Client")
    BY <2>1, <2>6 DEF WordThere, Peer
  <2>8. QED
    BY <1>2, <1>6, <2>7 DEF ValidationReady, Pending, Side
<1>7. ASSUME op["Server"] = "ReadValidation2", op["Client"] \notin {"Connect", "ReadValidation1", "Stopped"}
      PROVE  ValidationReady
  <2>1. WordThere("Server")
    BY <1>1, <1>7 DEF ServerPhase, ClientPhase, WordThere, Peer
  <2>2. QED
    BY <1>2, <1>7, <2>1 DEF ValidationReady, Pending, Side
<1>8. ASSUME op["Server"] \in {"ReadHeader", "ReadBody"}, op["Client"] \in {"ReadValidation3", "ReadValidation4"}
      PROVE  ValidationReady
  <2>1. WordThere("Client")
    BY <1>1, <1>8 DEF ServerPhase, ClientPhase, WordThere, Peer
  <2>2. QED
    BY <1>2, <1>8, <2>1 DEF ValidationReady, Pending, Side
<1>9. QED
  BY <1>1, <1>2, <1>3, <1>4, <1>5, <1>6, <1>7, <1>8 DEF ServerPhase, ClientPhase, Side

\* Where the chain of an end may go.
Moves == {<<"Accept", "WriteValidation1">>, <<"WriteValidation1", "ReadValidation2">>,
          <<"ReadValidation2", "WriteValidation3">>, <<"WriteValidation3", "WriteValidation4">>,
          <<"WriteValidation4", "ReadHeader">>, <<"Connect", "ReadValidation1">>,
          <<"ReadValidation1", "WriteValidation2">>, <<"WriteValidation2", "ReadValidation3">>,
          <<"ReadValidation3", "ReadValidation4">>, <<"ReadValidation4", "ReadHeader">>}

LEMMA ValidationMoves ==
  ASSUME ControlTypes, Validation, \A s \in Side : op'[s] # "Stopped"
  PROVE  \E s \in Side, o \in ChainOps : <<op[s], o>> \in Moves /\ op' = [op EXCEPT ![s] = o]
<1>1. ASSUME NEW s \in Side, NEW o \in ChainOps, Goto(s, o), <<op[s], o>> \in Moves
      PROVE  \E r \in Side, p \in ChainOps : <<op[r], p>> \in Moves /\ op' = [op EXCEPT ![r] = p]
  BY <1>1 DEF Goto
<1>2. \A s \in Side : ~Goto(s, "Stopped")
  BY DEF Goto, ControlTypes
<1>3. CASE Accept \/ Connected
  BY <1>1, <1>2, <1>3 DEF Accept, Connected, Pending, Moves, ChainOps, Side
<1>4. ASSUME NEW s \in Side, ValidationWritten(s)
      PROVE  \E r \in Side, p \in ChainOps : <<op[r], p>> \in Moves /\ op' = [op EXCEPT ![r] = p]
  BY <1>1, <1>4 DEF ValidationWritten, Pending, Moves, ChainOps
<1>5. CASE WriteValidation3 \/ ReadValidation1
  BY <1>1, <1>5 DEF WriteValidation3, ReadValidation1, Pending, Moves, ChainOps, Side
<1>6. CASE ReadValidation2
  BY <1>1, <1>2, <1>6 DEF ReadValidation2, Pending, Moves, ChainOps, Side
<1>7. CASE ReadValidation3
  BY <1>1, <1>2, <1>7 DEF ReadValidation3, Pending, Moves, ChainOps, Side
<1>8. CASE ReadValidation4
  BY <1>1, <1>8 DEF ReadValidation4, Pending, Moves, ChainOps, Side
<1>9. QED
  BY <1>3, <1>4, <1>5, <1>6, <1>7, <1>8 DEF Validation

LEMMA OtherMoves ==
  ASSUME ControlTypes, [Next]_vars, ~Validation, \A s \in Side : op'[s] # "Stopped"
  PROVE  \/ UNCHANGED op
         \/ \E s \in Side, o \in {"ReadHeader", "ReadBody"} :
               op[s] \in {"ReadHeader", "ReadBody"} /\ op' = [op EXCEPT ![s] = o]
<1>1. \A s \in Side : ~ChainFails(s)
  BY DEF ChainFails, Goto, ControlTypes
<1>2. ASSUME NEW s \in Side, ReadHeader(s) \/ ReadBody(s)
      PROVE  \E o \in {"ReadHeader", "ReadBody"} :
                op[s] \in {"ReadHeader", "ReadBody"} /\ op' = [op EXCEPT ![s] = o]
  BY <1>2 DEF ReadHeader, ReadBody, AddToIncomingMessageQueue, Goto, Pending
<1>3. QED
  BY <1>1, <1>2 DEF vars, Next, Poll, LinkDown, Send, SendLambda, WriteHeader, WriteBody,
     WriterFails, Shutdown

\* No step goes back, and a step of the validation goes on.
LEMMA StageKept ==
  ASSUME IInv, IInv', StopsByFailure', ~Failure', Alike', [Next]_vars
  PROVE  /\ Stage \in 0..10 /\ Stage' \in 0..10 /\ Stage <= Stage'
         /\ Validation => Stage < Stage'
<1>1. ControlTypes /\ ControlTypes'
  BY DEF IInv, TypeOK
<1>2. \A s \in Side : op'[s] # "Stopped"
  BY DEF StopsByFailure
<1> DEFINE at(s) == StageOf[op[s]]
           then(s) == StageOf[op'[s]]
<1>3. /\ at("Server") \in 0..5 /\ at("Client") \in 0..5
      /\ then("Server") \in 0..5 /\ then("Client") \in 0..5
  BY <1>1, StageTypes DEF ControlTypes, Side
<1>4. Stage = at("Server") + at("Client") /\ Stage' = then("Server") + then("Client")
  BY DEF Stage
<1>5. ASSUME NEW s \in Side, NEW o \in ChainOps, op' = [op EXCEPT ![s] = o], at(s) <= StageOf[o]
      PROVE  Stage <= Stage' /\ (at(s) < StageOf[o] => Stage < Stage')
  <2>1. then(s) = StageOf[o] /\ \A r \in Side : r # s => then(r) = at(r)
    BY <1>1, <1>5 DEF ControlTypes
  <2> HIDE DEF at, then
  <2>2. QED
    BY <1>3, <1>4, <1>5, <2>1 DEF Side
<1>6. Stage \in 0..10 /\ Stage' \in 0..10
  BY <1>3, <1>4
<1>7. CASE Validation
  <2>1. PICK s \in Side, o \in ChainOps : <<op[s], o>> \in Moves /\ op' = [op EXCEPT ![s] = o]
    BY <1>1, <1>2, <1>7, ValidationMoves
  <2>2. at(s) < StageOf[o] /\ at(s) <= StageOf[o]
    BY <2>1 DEF Moves, StageOf
  <2>3. QED
    BY <1>5, <1>6, <2>1, <2>2
<1>8. CASE ~Validation
  <2>1. CASE UNCHANGED op
    BY <1>3, <1>4, <1>6, <1>8, <2>1
  <2>2. ASSUME NEW s \in Side, NEW o \in {"ReadHeader", "ReadBody"},
               op[s] \in {"ReadHeader", "ReadBody"}, op' = [op EXCEPT ![s] = o]
        PROVE  Stage <= Stage'
    <3>1. o \in ChainOps /\ at(s) = 5 /\ StageOf[o] = 5
      BY <2>2, StageTypes DEF ChainOps
    <3>2. at(s) <= StageOf[o]
      BY <3>1
    <3> HIDE DEF at, then
    <3>3. QED
      BY <1>5, <2>2, <3>1, <3>2
  <2>3. QED
    BY <1>1, <1>2, <1>6, <1>8, <2>1, <2>2, OtherMoves
<1>9. QED
  BY <1>7, <1>8

LEMMA CipherKept == [Next]_vars => cipher' = cipher /\ (Alike <=> Alike')
  BY DEF vars, Next, Validation, Accept, Connected, ValidationWritten, WriteValidation3,
     ReadValidation1, ReadValidation2, ReadValidation3, ReadValidation4, Poll, LinkDown,
     ChainFails, ReadHeader, ReadBody, Send, SendLambda, WriteHeader, WriteBody, WriterFails,
     Shutdown, Alike

\* An end whose chain has stopped or whose writer has given up has met a failure.
THEOREM OnlyFailuresStop ==
  ASSUME ~EarlySends
  PROVE  Spec => []StopsByFailure
<1>1. Init => IInv /\ StopsByFailure
  BY IInvInit, StopsByFailureInit
<1>2. IInv /\ IInv' /\ StopsByFailure /\ [Next]_vars => StopsByFailure'
  BY StopsByFailureNext
<1> QED
  BY <1>1, <1>2, Inductive, PTL DEF Spec

Reached(k) == Stage >= k

\* One step of the validation after another is taken.
GoesOn(k) ==
  FairSpec /\ []StepsEnabled =>
     ((Alike /\ Reached(k)) ~> Failure \/ (Alike /\ Reached(k + 1)))

LEMMA ValidationGoesOn ==
  ASSUME ~EarlySends
  PROVE  \A k \in 0..9 : GoesOn(k)
<1> SUFFICES ASSUME NEW k \in 0..9
             PROVE  GoesOn(k)
  OBVIOUS
<1> DEFINE Here == Alike /\ Reached(k) /\ ~Reached(k + 1) /\ ~Failure
           There == Failure \/ (Alike /\ Reached(k + 1))
           Inv == IInv /\ StopsByFailure
<1>1. ASSUME Inv, Inv', Here, [Next]_vars
      PROVE  (Here' \/ There') /\ (Validation => There')
  <2>1. CASE Failure'
    BY <2>1
  <2>2. CASE ~Failure'
    <3>1. Alike'
      BY <1>1, CipherKept
    <3>2. /\ Stage \in 0..10 /\ Stage' \in 0..10 /\ Stage <= Stage'
          /\ Validation => Stage < Stage'
      BY <1>1, <2>2, <3>1, StageKept
    <3>3. Stage >= k /\ ~(Stage >= k + 1)
      BY <1>1 DEF Reached
    <3>4. Stage' >= k /\ (Validation => Stage' >= k + 1)
      BY <3>2, <3>3
    <3>5. QED
      BY <2>2, <3>1, <3>4 DEF Reached
  <2>3. QED
    BY <2>1, <2>2
<1>2. ASSUME Inv, Inv', Here, <<Validation>>_vars
      PROVE  There'
  BY <1>1, <1>2 DEF Next
<1>3. ASSUME Inv, Here, StepsEnabled
      PROVE  ENABLED <<Validation>>_vars
  <2>1. ~(\A s \in Side : op[s] \in {"ReadHeader", "ReadBody"})
    <3>1. SUFFICES ASSUME \A s \in Side : op[s] \in {"ReadHeader", "ReadBody"}
                   PROVE  Reached(k + 1)
      BY <1>3
    <3>2. StageOf[op["Server"]] = 5 /\ StageOf[op["Client"]] = 5
      BY <3>1, StageTypes DEF Side
    <3>3. Stage = 10
      BY <3>2 DEF Stage
    <3>4. QED
      BY <3>3 DEF Reached
  <2>2. ValidationReady
    BY <1>3, <2>1, SomeoneReady
  <2>3. QED
    BY <1>3, <2>2 DEF StepsEnabled
<1>4. Spec => []Inv
  BY Inductive, OnlyFailuresStop, PTL
<1> HIDE DEF Inv
<1>5. Here \/ There \/ ~(Alike /\ Reached(k))
  OBVIOUS
<1> HIDE DEF Here, There
<1>6. FairSpec /\ []StepsEnabled => (Here ~> There)
  BY <1>1, <1>2, <1>3, <1>4, PTL DEF FairSpec, Spec, Fairness
<1>7. There <=> Failure \/ (Alike /\ Reached(k + 1))
  BY DEF There
<1>8. QED
  BY <1>5, <1>6, <1>7, PTL DEF GoesOn

\* At the end of the ten steps both ends read messages.
LEMMA AllStepsTaken ==
  ASSUME IInv, StopsByFailure, ~Failure, Alike, Reached(10)
  PROVE  \A s \in Side : op[s] \in {"ReadHeader", "ReadBody"} /\ status[s] = "validated"
<1>1. /\ op \in [Side -> ChainOps] /\ ServerPhase /\ ClientPhase /\ Handshake
      /\ Len(stream["Server"]) \in Nat
  BY DEF IInv, TypeOK, ControlTypes, StreamTypes, Side
<1>2. StageOf[op["Server"]] \in 0..5 /\ StageOf[op["Client"]] \in 0..5
  BY <1>1, StageTypes DEF Side
<1>3. StageOf[op["Server"]] = 5 /\ StageOf[op["Client"]] = 5
  BY <1>2 DEF Reached, Stage
<1>4. \A s \in Side : op[s] \notin ServerStages \cup ClientStages /\ op[s] # "Stopped"
  <2>1. \A o \in ServerStages \cup ClientStages : StageOf[o] # 5
    BY StageTypes
  <2>2. QED
    BY <1>3, <2>1, Alive DEF Side
<1>5. \A s \in Side : op[s] \in {"ReadHeader", "ReadBody"}
  BY <1>1, <1>4 DEF ChainOps, ServerStages, ClientStages
<1>6. status["Client"] = "validated"
  BY <1>1, <1>5 DEF ClientPhase, Side
<1>7. Len(stream["Server"]) >= 3
  BY <1>1, <1>6 DEF Handshake
<1>8. status["Server"] = "validated"
  BY <1>1, <1>7 DEF Handshake
<1>9. QED
  BY <1>5, <1>6, <1>8 DEF Side

LEMMA ValidationEndsWell ==
  ASSUME ~EarlySends
  PROVE  FairSpec /\ []StepsEnabled => (Alike ~> Failure \/ (Alike /\ Reached(10)))
<1>1. /\ GoesOn(0) /\ GoesOn(1) /\ GoesOn(2) /\ GoesOn(3) /\ GoesOn(4)
      /\ GoesOn(5) /\ GoesOn(6) /\ GoesOn(7) /\ GoesOn(8) /\ GoesOn(9)
  BY ValidationGoesOn
<1>2. /\ Reached(0 + 1) <=> Reached(1)
      /\ Reached(1 + 1) <=> Reached(2)
      /\ Reached(2 + 1) <=> Reached(3)
      /\ Reached(3 + 1) <=> Reached(4)
      /\ Reached(4 + 1) <=> Reached(5)
      /\ Reached(5 + 1) <=> Reached(6)
      /\ Reached(6 + 1) <=> Reached(7)
      /\ Reached(7 + 1) <=> Reached(8)
      /\ Reached(8 + 1) <=> Reached(9)
      /\ Reached(9 + 1) <=> Reached(10)
  BY DEF Reached
<1>3. IInv => Reached(0)
  <2>1. ASSUME IInv PROVE Stage \in Nat
    BY <2>1, StageTypes DEF IInv, TypeOK, ControlTypes, Side, Stage
  <2>2. QED
    BY <2>1 DEF Reached
<1>4. QED
  BY <1>1, <1>2, <1>3, Inductive, PTL DEF FairSpec, GoesOn

\* Two ends that encrypt alike come to validate each other unless something
\* fails (the ten handlers from DedicatedServer's accept to ReadValidation4).
THEOREM HandshakeEnds ==
  ASSUME ~EarlySends
  PROVE  FairSpec /\ []StepsEnabled => HandshakeCompletes
<1> DEFINE BothValidated == \A s \in Side : status[s] = "validated"
<1>1. IInv /\ StopsByFailure /\ Alike /\ Reached(10) => Failure \/ BothValidated
  BY AllStepsTaken
<1>2. Alike <=> cipher["Server"] = cipher["Client"]
  BY DEF Alike
<1> HIDE DEF BothValidated
<1>3. FairSpec /\ []StepsEnabled => (Alike ~> Failure \/ BothValidated)
  BY <1>1, ValidationEndsWell, Inductive, OnlyFailuresStop, PTL DEF FairSpec
<1>4. QED
  BY <1>2, <1>3, PTL DEF HandshakeCompletes, BothValidated

-----------------------------------------------------------------------------
(* The next message is delivered.                                           *)

\* Message k of writer p is owed to its reader: it is sent, the k - 1 before it are
\* queued, and both ends read.
Owed(p, k) ==
    /\ Alike /\ Reached(10) /\ ~Failure
    /\ sent[p] >= k
    /\ Len(incoming[Peer(p)]) = k - 1

Delivered(p, k) == Failure \/ Len(incoming[Peer(p)]) >= k

LEMMA OwedFacts ==
  ASSUME IInv, StopsByFailure, NEW p \in Side, NEW k \in Nat \ {0}, Owed(p, k)
  PROVE  /\ Peer(p) \in Side /\ Peer(Peer(p)) = p /\ Peer(p) # p
         /\ link = "up"
         /\ \A s \in Side : /\ op[s] \in {"ReadHeader", "ReadBody"} /\ sock[s] = "open"
                            /\ wr[s] \notin {"Failed", "Unconnected"}
         /\ ran[p] \in Nat /\ k - 1 <= ran[p] /\ ran[p] <= sent[p] /\ sent[p] \in Nat
         /\ Len(incoming[Peer(p)]) + 1 = k
         /\ nread[Peer(p)] \in Nat /\ Len(stream[p]) \in Nat /\ nread[Peer(p)] <= Len(stream[p])
<1>1. Peer(p) \in Side /\ Peer(Peer(p)) = p /\ Peer(p) # p
  BY PeerType
<1>2. \A s \in Side : op[s] \in {"ReadHeader", "ReadBody"}
  BY AllStepsTaken DEF Owed
<1>3. link = "up" /\ \A s \in Side : sock[s] = "open" /\ wr[s] # "Failed"
  BY <1>2, Alive DEF Owed, Side
<1>4. \A s \in Side : wr[s] # "Unconnected"
  BY DEF IInv, WriterInStep
<1>5. ran[p] \in Nat /\ ran[p] <= sent[p] /\ sent[p] \in Nat
  BY DEF IInv, TypeOK, SendingTypes
<1>6. Len(incoming[Peer(p)]) <= ran[p]
  BY <1>1 DEF IInv, ReaderInStep
<1>7. nread[Peer(p)] \in Nat /\ Len(stream[p]) \in Nat /\ nread[Peer(p)] <= Len(stream[p])
  BY <1>1 DEF IInv, TypeOK, StreamTypes
<1>8. k - 1 <= ran[p] /\ Len(incoming[Peer(p)]) + 1 = k
  BY <1>6 DEF Owed
<1>9. QED
  BY <1>1, <1>2, <1>3, <1>4, <1>5, <1>7, <1>8

\* What happens while a message is owed.
LEMMA OwedSteps ==
  ASSUME IInv, StopsByFailure, NEW p \in Side, NEW k \in Nat \ {0}, Owed(p, k), [Next]_vars, ~Failure'
  PROVE  \/ UNCHANGED vars \/ Poll
         \/ \E r \in Side : \/ ReadHeader(r) \/ ReadBody(r) \/ Send(r) \/ SendLambda(r)
                            \/ WriteHeader(r) \/ WriteBody(r)
<1>1. /\ \A r \in Side : /\ op[r] \in {"ReadHeader", "ReadBody"}
                         /\ wr[r] \notin {"Failed", "Unconnected"}
      /\ \A r \in Side : Peer(r) \in Side
  BY OwedFacts, PeerType
<1>2. ~Validation
  BY <1>1 DEF Validation, Accept, Connected, ValidationWritten, WriteValidation3, ReadValidation1,
     ReadValidation2, ReadValidation3, ReadValidation4, Pending, Side
<1>3. ASSUME NEW r \in Side PROVE ~ChainFails(r) /\ ~WriterFails(r)
  BY <1>1 DEF ChainFails, WriterFails, Broken, Owed, Failure
<1>4. ~LinkDown
  BY DEF LinkDown, Failure
<1>5. ASSUME NEW r \in Side PROVE ~Shutdown(r)
  <2>1. SUFFICES ASSUME Shutdown(r) PROVE sock'[r] = "closed"
    BY DEF Failure
  <2>2. QED
    BY <2>1 DEF Shutdown, IInv, TypeOK, ControlTypes
<1>6. QED
  BY <1>2, <1>3, <1>4, <1>5 DEF Next

\* The reader's part of the state changes only when it reads.
LEMMA ReaderMoves ==
  ASSUME IInv, StopsByFailure, NEW p \in Side, NEW k \in Nat \ {0}, Owed(p, k), [Next]_vars, ~Failure'
  PROVE  LET s == Peer(p)
         IN  \/ ReadHeader(s) \/ ReadBody(s)
             \/ op'[s] = op[s] /\ nread'[s] = nread[s] /\ incoming'[s] = incoming[s]
<1> DEFINE s == Peer(p)
<1>1. s \in Side /\ ControlTypes /\ StreamTypes /\ QueueTypes
  BY PeerType DEF IInv, TypeOK
<1> HIDE DEF s
<1>2. ASSUME NEW r \in Side, r # s, ReadHeader(r) \/ ReadBody(r)
      PROVE  op'[s] = op[s] /\ nread'[s] = nread[s] /\ incoming'[s] = incoming[s]
  BY <1>1, <1>2 DEF ReadHeader, ReadBody, AddToIncomingMessageQueue, Take, Goto, ControlTypes,
     StreamTypes, QueueTypes
<1>3. ASSUME NEW r \in Side, Send(r) \/ SendLambda(r) \/ WriteHeader(r) \/ WriteBody(r)
      PROVE  UNCHANGED <<op, nread, incoming>>
  BY <1>3 DEF Send, SendLambda, WriteHeader, WriteBody, receiving
<1>4. Poll \/ UNCHANGED vars => UNCHANGED <<op, nread, incoming>>
  BY DEF Poll, vars, receiving
<1>5. QED
  BY <1>2, <1>3, <1>4, OwedSteps DEF s

\* An owed message stays owed until it is delivered.
LEMMA OwedStays ==
  ASSUME IInv, IInv', StopsByFailure, StopsByFailure', NEW p \in Side, NEW k \in Nat \ {0}, Owed(p, k),
         [Next]_vars
  PROVE  Owed(p, k)' \/ Delivered(p, k)'
<1>1. CASE Failure'
  BY <1>1 DEF Delivered
<1>2. CASE ~Failure'
  <2>1. Alike'
    BY CipherKept DEF Owed
  <2>2. Reached(10)'
    <3>1. Stage \in 0..10 /\ Stage' \in 0..10 /\ Stage <= Stage'
      BY <1>2, <2>1, StageKept
    <3>2. QED
      BY <3>1 DEF Owed, Reached
  <2>3. sent'[p] >= k
    <3>1. sent \in [Side -> Nat]
      BY DEF IInv, TypeOK, SendingTypes
    <3>2. ASSUME NEW r \in Side, Send(r) PROVE sent'[p] >= sent[p]
      BY <3>1, <3>2 DEF Send
    <3>3. UNCHANGED sent \/ \E r \in Side : Send(r)
      BY <1>2, OwedSteps DEF vars, sending, Poll, ReadHeader, ReadBody, SendLambda, WriteHeader, WriteBody
    <3>4. sent[p] \in Nat /\ sent'[p] \in Nat /\ sent[p] >= k
      BY <3>1 DEF Owed, IInv, TypeOK, SendingTypes
    <3>5. QED
      BY <3>2, <3>3, <3>4
  <2>4. Len(incoming'[Peer(p)]) >= k - 1
    <3>1. /\ Peer(p) \in Side /\ incoming \in [Side -> Seq(Nat)]
          /\ Len(incoming[Peer(p)]) = k - 1
      BY PeerType DEF Owed, IInv, TypeOK, QueueTypes
    <3>2. \/ incoming'[Peer(p)] = incoming[Peer(p)]
          \/ \E m : incoming'[Peer(p)] = Append(incoming[Peer(p)], m)
      BY <1>2, <3>1, ReaderMoves DEF ReadHeader, ReadBody, AddToIncomingMessageQueue
    <3>3. ASSUME NEW m, incoming'[Peer(p)] = Append(incoming[Peer(p)], m)
          PROVE  Len(incoming'[Peer(p)]) = k
      BY <3>1, <3>3
    <3>4. QED
      BY <3>1, <3>2, <3>3
  <2>5. Len(incoming'[Peer(p)]) \in Nat
    BY PeerType DEF IInv, TypeOK, QueueTypes
  <2>6. QED
    BY <1>2, <2>1, <2>2, <2>3, <2>4, <2>5 DEF Owed, Delivered
<1>3. QED
  BY <1>1, <1>2

\* The lambda that queues it runs next.
LEMMA OwedIsPosted ==
  ASSUME IInv, StopsByFailure, NEW p \in Side, NEW k \in Nat \ {0}, Owed(p, k)
  PROVE  /\ ran[p] < k => LambdaReady(p)
         /\ SendLambda(p) => ran'[p] >= k
         /\ [Next]_vars /\ ran[p] >= k => ran'[p] >= k
<1>1. /\ sock[p] = "open" /\ ran[p] \in Nat /\ k - 1 <= ran[p] /\ sent[p] \in Nat /\ sent[p] >= k
      /\ ran \in [Side -> Nat]
  BY OwedFacts DEF Owed, IInv, TypeOK, SendingTypes
<1>2. ran[p] < k => LambdaReady(p)
  BY <1>1 DEF LambdaReady
<1>3. SendLambda(p) => ran'[p] = ran[p] + 1
  BY <1>1 DEF SendLambda
<1>4. [Next]_vars => ran'[p] \in Nat /\ ran[p] <= ran'[p]
  BY RanGrows
<1>5. QED
  BY <1>1, <1>2, <1>3, <1>4

\* What the reader of an owed message waits for: its header, then its body.
WaitsFor(p, k) == IF op[Peer(p)] = "ReadHeader" THEN Hdr(k) ELSE Body(k)

LEMMA OwedWord ==
  ASSUME IInv, StopsByFailure, NEW p \in Side, NEW k \in Nat \ {0}, Owed(p, k)
  PROVE  /\ After(p, nread[Peer(p)]) = WaitsFor(p, k)
         /\ op[Peer(p)] = "ReadBody" =>
               /\ k \in BodyMsgs
               /\ stream[p][nread[Peer(p)]] = Hdr(k)
<1> DEFINE s == Peer(p)
<1>1. /\ s \in Side /\ Peer(s) = p /\ op[s] \in {"ReadHeader", "ReadBody"}
      /\ Len(incoming[s]) + 1 = k /\ nread[s] \in Nat /\ ReaderInStep(s)
  BY OwedFacts DEF IInv
<1> HIDE DEF s
<1>2. CASE op[s] = "ReadHeader"
  BY <1>1, <1>2 DEF ReaderInStep, WaitsFor, s
<1>3. CASE op[s] = "ReadBody"
  <2>1. /\ nread[s] > ValidationEnds(p)
        /\ stream[p][nread[s]] = Hdr(Len(incoming[s]) + 1)
        /\ temp[s] = Len(incoming[s]) + 1
        /\ temp[s] \in BodyMsgs
    BY <1>1, <1>3 DEF ReaderInStep
  <2>2. stream[p][nread[s]] = Hdr(k) /\ k \in BodyMsgs
    BY <1>1, <2>1
  <2>3. ~(nread[s] <= ValidationEnds(p))
    BY <1>1, <2>1 DEF ValidationEnds
  <2>4. After(p, nread[s]) = NextMessageWord(Hdr(k))
    BY <2>2, <2>3 DEF After
  <2>5. NextMessageWord(Hdr(k)) = Body(k)
    BY <2>2 DEF NextMessageWord, Hdr
  <2>6. op[s] # "ReadHeader"
    BY <1>3
  <2>7. QED
    BY <2>2, <2>4, <2>5, <2>6 DEF WaitsFor, s
<1>4. QED
  BY <1>1, <1>2, <1>3

\* A reader that has taken every word waits for a writer that is at work.
LEMMA WriterOwes ==
  ASSUME IInv, StopsByFailure, NEW p \in Side, NEW k \in Nat \ {0}, Owed(p, k),
         ran[p] >= k, ~WordThere(Peer(p))
  PROVE  /\ WriteReady(p)
         /\ WriteHeader(p) \/ WriteBody(p) => WordThere(Peer(p))'
<1> DEFINE s == Peer(p)
           n == Len(stream[p])
           q == outgoing[p]
<1>1. /\ s \in Side /\ Peer(s) = p /\ sock[p] = "open" /\ op[p] \in {"ReadHeader", "ReadBody"}
      /\ wr[p] \notin {"Failed", "Unconnected"}
  BY OwedFacts DEF IInv
<1>2. WriterInStep(p) /\ StreamTypes /\ SendingTypes /\ WriterBusyIffQueued
  BY DEF IInv, TypeOK
<1>3. nread[s] = n /\ n \in Nat
  BY <1>1, OwedFacts DEF WordThere
<1>4. ran[p] \in Nat /\ k <= ran[p] /\ q \in Seq(Nat \ {0}) /\ wr[p] \in WriterOps
  BY <1>2, OwedFacts DEF SendingTypes
<1> HIDE DEF s, n, q
<1>5. After(p, n) = WaitsFor(p, k) /\ (op[s] = "ReadBody" => k \in BodyMsgs /\ stream[p][n] = Hdr(k))
  BY <1>3, OwedWord DEF s
<1>6. op[s] \in {"ReadHeader", "ReadBody"}
  BY <1>1, OwedFacts
<1>7. After(p, n) # Hdr(ran[p] + 1)
  <2>1. Hdr(ran[p] + 1).kind = "hdr" /\ Hdr(ran[p] + 1).n = ran[p] + 1 /\ Hdr(k).n = k /\ Body(k).kind = "body"
    BY DEF Hdr, Body
  <2>2. ran[p] + 1 # k
    BY <1>4
  <2>3. After(p, n) = Hdr(k) \/ After(p, n) = Body(k)
    BY <1>5 DEF WaitsFor
  <2>4. QED
    BY <2>1, <2>2, <2>3
<1>8. wr[p] \in {"WriteHeader", "WriteBody"}
  BY <1>1, <1>2, <1>4, <1>7 DEF WriterInStep, WriterOps, n
<1>9. ASSUME \E w : Put(p, w), UNCHANGED nread
      PROVE  WordThere(Peer(p))'
  <2>1. Len(stream'[p]) = n + 1
    BY <1>2, <1>9 DEF Put, StreamTypes, n
  <2>2. nread'[s] < Len(stream'[p])
    BY <1>3, <1>9, <2>1
  <2>3. QED
    BY <1>1, <2>2 DEF WordThere, s
<1>10. ASSUME NEW o, NEW w, StartWrite(p, o, w), UNCHANGED nread
       PROVE  WordThere(Peer(p))'
  BY <1>1, <1>9, <1>10 DEF StartWrite
<1>11. /\ q # <<>>
       /\ n > ValidationEnds(p)
       /\ wr[p] = "WriteHeader" => stream[p][n] = Hdr(Head(q))
       /\ wr[p] = "WriteBody" => stream[p][n] = Body(Head(q))
  BY <1>2, <1>8 DEF WriterInStep, WriterBusyIffQueued, n, q
<1>12. After(p, n) = NextMessageWord(stream[p][n])
  BY <1>3, <1>11 DEF After, ValidationEnds
<1>13. ASSUME FinishMessage(p), Head(q) + 1 = k, UNCHANGED nread
       PROVE  WordThere(Peer(p))'
  <2>1. outgoing'[p] = Tail(q)
    BY <1>2, <1>13 DEF FinishMessage, SendingTypes, q
  <2>2. Head(q) \in Nat /\ LastPosted(q, ran[p])
    BY <1>2, <1>4, <1>11, QueueOps DEF WriterInStep, q
  <2>3. Head(q) # ran[p]
    BY <1>4, <1>13, <2>2
  <2>4. outgoing'[p] # <<>>
    BY <1>4, <1>11, <2>1, <2>2, <2>3, PostedOps
  <2>5. StartWrite(p, "WriteHeader", Hdr(Head(outgoing'[p])))
    BY <1>13, <2>4 DEF FinishMessage
  <2>6. QED
    BY <1>10, <1>13, <2>5
<1>14. CASE op[s] = "ReadHeader"
  <2>1. After(p, n) = Hdr(k)
    BY <1>5, <1>14 DEF WaitsFor, s
  <2>2. wr[p] = "WriteHeader" => Head(q) \notin BodyMsgs /\ Head(q) + 1 = k
    BY <1>11, <1>12, <2>1 DEF NextMessageWord, Hdr, Body
  <2>3. wr[p] = "WriteBody" => Head(q) + 1 = k
    BY <1>11, <1>12, <2>1 DEF NextMessageWord, Hdr, Body
  <2>4. WriteHeader(p) => wr[p] = "WriteHeader" /\ UNCHANGED nread
    BY DEF WriteHeader, receiving
  <2>5. WriteHeader(p) /\ Head(q) \notin BodyMsgs => FinishMessage(p)
    BY DEF WriteHeader, q
  <2>6. WriteBody(p) => wr[p] = "WriteBody" /\ UNCHANGED nread /\ FinishMessage(p)
    BY DEF WriteBody, receiving
  <2>7. WriteHeader(p) \/ WriteBody(p) => WordThere(Peer(p))'
    BY <1>13, <2>2, <2>3, <2>4, <2>5, <2>6
  <2>8. QED
    BY <1>1, <1>8, <2>7 DEF WriteReady
<1>15. CASE op[s] = "ReadBody"
  <2>1. stream[p][n] = Hdr(k) /\ k \in BodyMsgs
    BY <1>5, <1>15
  <2>2. wr[p] # "WriteBody"
    BY <1>11, <2>1 DEF Hdr, Body
  <2>3. wr[p] = "WriteHeader" /\ Head(q) \in BodyMsgs
    BY <1>8, <1>11, <2>1, <2>2 DEF Hdr
  <2>4. ~WriteBody(p)
    BY <2>3 DEF WriteBody
  <2>5. WriteHeader(p) => UNCHANGED nread /\ StartWrite(p, "WriteBody", Body(Head(q)))
    BY <2>3 DEF WriteHeader, receiving, q
  <2>6. WriteHeader(p) \/ WriteBody(p) => WordThere(Peer(p))'
    BY <1>10, <2>4, <2>5
  <2>7. QED
    BY <1>1, <1>8, <2>6 DEF WriteReady
<1>16. QED
  BY <1>6, <1>14, <1>15

\* A word that is there is taken; the last one completes the message.
LEMMA OwedWordTaken ==
  ASSUME IInv, StopsByFailure, NEW p \in Side, NEW k \in Nat \ {0}, Owed(p, k), WordThere(Peer(p))
  PROVE  LET s == Peer(p)
         IN  /\ ReadReady(s)
             /\ ReadHeader(s) => op[s] = "ReadHeader" /\ (op'[s] = "ReadBody" \/ Len(incoming'[s]) >= k)
             /\ ReadBody(s) => op[s] = "ReadBody" /\ Len(incoming'[s]) >= k
<1> DEFINE s == Peer(p)
<1>1. /\ s \in Side /\ op[s] \in {"ReadHeader", "ReadBody"} /\ sock[s] = "open"
      /\ Len(incoming[s]) + 1 = k /\ ControlTypes /\ QueueTypes
  BY OwedFacts DEF IInv, TypeOK
<1> HIDE DEF s
<1>2. ASSUME NEW m, AddToIncomingMessageQueue(s, m)
      PROVE  Len(incoming'[s]) >= k
  <2>1. Len(incoming'[s]) = Len(incoming[s]) + 1 /\ Len(incoming[s]) \in Nat
    BY <1>1, <1>2 DEF AddToIncomingMessageQueue, QueueTypes
  <2>2. QED
    BY <1>1, <2>1
<1>3. ReadHeader(s) => op[s] = "ReadHeader" /\ (op'[s] = "ReadBody" \/ Len(incoming'[s]) >= k)
  BY <1>1, <1>2 DEF ReadHeader, Pending, Goto, ControlTypes
<1>4. ReadBody(s) => op[s] = "ReadBody" /\ Len(incoming'[s]) >= k
  BY <1>2 DEF ReadBody, Pending
<1>5. ReadReady(s)
  BY <1>1 DEF ReadReady, Pending, s
<1>6. QED
  BY <1>3, <1>4, <1>5 DEF s

\* Two ends that encrypt alike never wait for each other unless something fails
\* (Connection.inl: the ten handlers of the validation, then Send, the write chain and
\* the read chain).
THEOREM NobodyIsStuck ==
  ASSUME ~EarlySends
  PROVE  Spec /\ []StepsEnabled => []NobodyStuck
<1>1. ASSUME IInv, StopsByFailure, StepsEnabled
      PROVE  NobodyStuck
  <2>1. SUFFICES ASSUME Alike, ~Failure
                 PROVE  IF \A s \in Side : Reading(s)
                        THEN \A p \in Side : MessagesMove(p)
                        ELSE ENABLED <<Validation>>_vars
    BY <1>1 DEF NobodyStuck
  <2>2. ASSUME \E s \in Side : ~Reading(s)
        PROVE  ENABLED <<Validation>>_vars
    <3>1. ValidationReady
      BY <1>1, <2>1, <2>2, SomeoneReady DEF Reading
    <3>2. QED
      BY <1>1, <3>1 DEF StepsEnabled
  <2>3. ASSUME \A s \in Side : Reading(s), NEW p \in Side
        PROVE  MessagesMove(p)
    <3>1. Reached(10)
      BY <2>3, StageTypes DEF Reached, Stage, Reading, Side
    <3>2. /\ sent[p] \in Nat /\ ran[p] \in Nat /\ ran[p] <= sent[p]
          /\ Peer(p) \in Side /\ Len(incoming[Peer(p)]) \in Nat /\ Len(incoming[Peer(p)]) <= ran[p]
      BY <1>1, PeerType DEF IInv, TypeOK, SendingTypes, QueueTypes, ReaderInStep
    <3>3. sock[p] = "open"
      BY <1>1, <2>1, <2>3, Alive DEF Reading, Side
    <3>4. ASSUME ran[p] < sent[p]
          PROVE  ENABLED <<SendLambda(p)>>_vars
      <4>1. LambdaReady(p) /\ ThreadGoesOn(p)
        BY <1>1, <3>3, <3>4 DEF StepsEnabled, LambdaReady
      <4>2. QED
        BY <4>1 DEF ThreadGoesOn
    <3>5. ASSUME Len(incoming[Peer(p)]) < ran[p]
          PROVE  IF WordThere(Peer(p)) THEN ENABLED <<ReadHeader(Peer(p)) \/ ReadBody(Peer(p))>>_vars
                 ELSE ENABLED <<WriteHeader(p) \/ WriteBody(p)>>_vars
      <4> DEFINE k == Len(incoming[Peer(p)]) + 1
      <4>1. k \in Nat \ {0} /\ k <= ran[p] /\ k <= sent[p] /\ Len(incoming[Peer(p)]) = k - 1
        BY <3>2, <3>5
      <4>2. Owed(p, k)
        BY <2>1, <3>1, <4>1 DEF Owed
      <4> HIDE DEF k
      <4>3. CASE WordThere(Peer(p))
        <5>1. ReadReady(Peer(p))
          BY <1>1, <4>1, <4>2, <4>3, OwedWordTaken
        <5>2. ThreadGoesOn(Peer(p))
          BY <1>1, <3>2 DEF StepsEnabled
        <5>3. QED
          BY <4>3, <5>1, <5>2 DEF ThreadGoesOn
      <4>4. CASE ~WordThere(Peer(p))
        <5>1. WriteReady(p)
          BY <1>1, <4>1, <4>2, <4>4, WriterOwes
        <5>2. ThreadGoesOn(p)
          BY <1>1 DEF StepsEnabled
        <5>3. QED
          BY <4>4, <5>1, <5>2 DEF ThreadGoesOn
      <4>5. QED
        BY <4>3, <4>4
    <3>6. QED
      BY <3>4, <3>5 DEF MessagesMove
  <2>4. QED
    BY <2>2, <2>3
<1>2. QED
  BY <1>1, Inductive, OnlyFailuresStop, PTL

\* A word that is there stays until its reader takes it.
LEMMA WordStays ==
  ASSUME IInv, StopsByFailure, NEW p \in Side, NEW k \in Nat \ {0}, Owed(p, k), [Next]_vars, ~Failure'
  PROVE  LET s == Peer(p)
         IN  \/ ReadHeader(s) \/ ReadBody(s)
             \/ op'[s] = op[s] /\ (WordThere(s) => WordThere(s)')
<1> DEFINE s == Peer(p)
<1>1. /\ s \in Side /\ Peer(s) = p /\ nread[s] \in Nat /\ Len(stream[p]) \in Nat
      /\ Len(stream'[p]) \in Nat /\ Len(stream[p]) <= Len(stream'[p])
  BY OwedFacts, StreamKept
<1> HIDE DEF s
<1>2. ASSUME nread'[s] = nread[s], WordThere(s)
      PROVE  WordThere(s)'
  BY <1>1, <1>2 DEF WordThere
<1>3. QED
  BY <1>2, ReaderMoves DEF s

\* What has been sent and what has been received are not taken back.
LEMMA NothingTakenBack ==
  ASSUME IInv, [Next]_vars, NEW p \in Side
  PROVE  /\ sent[p] \in Nat /\ sent'[p] \in Nat /\ sent[p] <= sent'[p]
         /\ Len(incoming[p]) \in Nat /\ Len(incoming'[p]) \in Nat
         /\ Len(incoming[p]) <= Len(incoming'[p])
<1>1. sent \in [Side -> Nat] /\ incoming \in [Side -> Seq(Nat)]
  BY DEF IInv, TypeOK, SendingTypes, QueueTypes
<1>2. \/ UNCHANGED sent
      \/ \E r \in Side : sent' = [sent EXCEPT ![r] = @ + 1]
  BY DEF vars, sending, Next, Validation, Accept, Connected, ValidationWritten, WriteValidation3,
     ReadValidation1, ReadValidation2, ReadValidation3, ReadValidation4, Poll, LinkDown, ChainFails,
     ReadHeader, ReadBody, Send, SendLambda, WriteHeader, WriteBody, WriterFails, Shutdown, Side
<1>3. sent[p] \in Nat /\ sent'[p] \in Nat /\ sent[p] <= sent'[p]
  <2>1. sent[p] \in Nat
    BY <1>1
  <2>2. sent'[p] = sent[p] \/ sent'[p] = sent[p] + 1
    BY <1>1, <1>2
  <2>3. QED
    BY <2>1, <2>2
<1>4. \/ UNCHANGED incoming
      \/ \E r \in Side : \E m : incoming' = [incoming EXCEPT ![r] = Append(@, m)]
  BY DEF vars, receiving, Next, Validation, Accept, Connected, ValidationWritten, WriteValidation3,
     ReadValidation1, ReadValidation2, ReadValidation3, ReadValidation4, Poll, LinkDown, ChainFails,
     ReadHeader, ReadBody, AddToIncomingMessageQueue, Send, SendLambda, WriteHeader, WriteBody,
     WriterFails, Shutdown
<1>5. incoming'[p] = incoming[p] \/ \E m : incoming'[p] = Append(incoming[p], m)
  BY <1>1, <1>4
<1>6. ASSUME NEW m, incoming'[p] = Append(incoming[p], m)
      PROVE  Len(incoming'[p]) = Len(incoming[p]) + 1
  BY <1>1, <1>6
<1>7. Len(incoming[p]) \in Nat
  BY <1>1
<1>8. QED
  BY <1>3, <1>5, <1>6, <1>7

LEMMA SendersAlike ==
  ASSUME IInv, NEW p \in Side, sent[p] > 0
  PROVE  Alike
<1>1. ServerPhase /\ ClientPhase /\ Handshake /\ Len(stream["Server"]) \in Nat
  BY DEF IInv, TypeOK, StreamTypes, Side
<1>2. CASE p = "Server"
  <2>1. Len(stream["Server"]) >= 3
    BY <1>1, <1>2 DEF ServerPhase
  <2>2. QED
    BY <1>1, <2>1 DEF Handshake, Alike
<1>3. CASE p = "Client"
  <2>1. status["Client"] = "validated"
    BY <1>1, <1>3 DEF ClientPhase
  <2>2. Len(stream["Server"]) >= 3
    BY <1>1, <2>1 DEF Handshake
  <2>3. QED
    BY <1>1, <2>2 DEF Handshake, Alike
<1>4. QED
  BY <1>2, <1>3 DEF Side

LEMMA ThreadIsFair ==
  ASSUME NEW s \in Side
  PROVE  Fairness => ThreadFairness(s)
<1>1. Fairness => ThreadsFair
  BY PTL DEF Fairness
<1>2. ThreadsFair => ThreadFairness(s)
  BY DEF ThreadsFair
<1>3. QED
  BY <1>1, <1>2

\* An end's k-th message reaches its peer's queue after the k - 1 before it, unless
\* something fails (Connection.inl: Send, the write chain and the read chain).
THEOREM NextMessageDelivered ==
  ASSUME ~EarlySends, NEW p \in Side, NEW k \in Nat \ {0}
  PROVE  FairSpec /\ []StepsEnabled =>
            (sent[p] >= k /\ Len(incoming[Peer(p)]) >= k - 1
               ~> Failure \/ Len(incoming[Peer(p)]) >= k)
<1> DEFINE Inv == IInv /\ StopsByFailure
           s == Peer(p)
           Start == sent[p] >= k /\ Len(incoming[s]) >= k - 1
           Out == Delivered(p, k)
           Posted == Owed(p, k) /\ ran[p] >= k
           Waits(o) == Posted /\ op[s] = o /\ ~WordThere(s)
           Reads(o) == Posted /\ op[s] = o /\ WordThere(s)
<1>1. s \in Side /\ Peer(s) = p
  BY PeerType
<1>2. Spec => []Inv
  BY Inductive, OnlyFailuresStop, PTL
<1>3. ASSUME Inv, Start PROVE Alike
  BY <1>3, SendersAlike, NothingTakenBack DEF IInv, TypeOK, SendingTypes
<1>4. ASSUME Inv, Start, [Next]_vars PROVE Start'
  <2>1. sent[p] <= sent'[p] /\ sent[p] \in Nat /\ sent'[p] \in Nat
    BY <1>4, NothingTakenBack
  <2>2. Len(incoming[s]) <= Len(incoming'[s]) /\ Len(incoming[s]) \in Nat /\ Len(incoming'[s]) \in Nat
    BY <1>1, <1>4, NothingTakenBack
  <2> HIDE DEF s
  <2>3. QED
    BY <1>4, <2>1, <2>2
<1>5. ASSUME Inv, Start, Alike, Reached(10) PROVE Owed(p, k) \/ Out
  <2>1. Len(incoming[s]) \in Nat
    BY <1>1, <1>5 DEF IInv, TypeOK, QueueTypes
  <2>2. QED
    BY <1>5, <2>1 DEF Owed, Delivered
<1>6. ASSUME Inv, Inv', Owed(p, k), [Next]_vars PROVE Owed(p, k)' \/ Out'
  BY <1>6, OwedStays
<1>7. ASSUME Inv, Inv', Owed(p, k), <<SendLambda(p)>>_vars PROVE Posted' \/ Out'
  BY <1>6, <1>7, OwedIsPosted DEF Next
<1>8. ASSUME Inv, StepsEnabled, Owed(p, k), ~Posted PROVE ENABLED <<SendLambda(p)>>_vars
  <2>1. LambdaReady(p)
    BY <1>8, OwedFacts, OwedIsPosted
  <2>2. ThreadGoesOn(p)
    BY <1>8 DEF StepsEnabled
  <2>3. QED
    BY <2>1, <2>2 DEF ThreadGoesOn
<1>9. ASSUME Inv, Inv', Posted, [Next]_vars PROVE Posted' \/ Out'
  BY <1>6, <1>9, OwedIsPosted
<1>10. ASSUME Inv, Posted
       PROVE  Waits("ReadHeader") \/ Waits("ReadBody") \/ Reads("ReadHeader") \/ Reads("ReadBody")
  BY <1>1, <1>10, OwedFacts
<1>11. ASSUME Inv, Inv', Posted, [Next]_vars, ~Out', ~ReadHeader(s), ~ReadBody(s)
       PROVE  op'[s] = op[s] /\ (WordThere(s) => WordThere(s)')
  BY <1>11, WordStays DEF Delivered
<1>12. ASSUME Inv, Posted, ~WordThere(s)
       PROVE  ~ReadHeader(s) /\ ~ReadBody(s)
  BY <1>12 DEF WordThere, ReadHeader, ReadBody, Take
<1>13. ASSUME Inv, Inv', NEW o, Waits(o), [Next]_vars PROVE Waits(o)' \/ Reads(o)' \/ Out'
  BY <1>9, <1>11, <1>12, <1>13
<1>14. ASSUME Inv, Inv', NEW o, Waits(o), <<WriteHeader(p) \/ WriteBody(p)>>_vars PROVE Reads(o)' \/ Out'
  <2>1. [Next]_vars
    BY <1>14 DEF Next
  <2>2. WordThere(s)'
    BY <1>14, WriterOwes
  <2>3. QED
    BY <1>13, <1>14, <2>1, <2>2
<1>15. ASSUME Inv, StepsEnabled, NEW o, Waits(o) PROVE ENABLED <<WriteHeader(p) \/ WriteBody(p)>>_vars
  <2>1. WriteReady(p)
    BY <1>15, WriterOwes
  <2>2. ThreadGoesOn(p)
    BY <1>15 DEF StepsEnabled
  <2>3. QED
    BY <2>1, <2>2 DEF ThreadGoesOn
<1>16. ASSUME Inv, Inv', Reads("ReadHeader"), [Next]_vars
       PROVE  Reads("ReadHeader")' \/ (Posted' /\ op'[s] = "ReadBody") \/ Out'
  <2>1. CASE ReadHeader(s) \/ ReadBody(s)
    BY <1>9, <1>16, <2>1, OwedWordTaken DEF Delivered
  <2>2. CASE ~ReadHeader(s) /\ ~ReadBody(s)
    BY <1>9, <1>11, <1>16, <2>2
  <2>3. QED
    BY <2>1, <2>2
<1>17. ASSUME Inv, Inv', Reads("ReadHeader"), <<ReadHeader(s) \/ ReadBody(s)>>_vars
       PROVE  (Posted' /\ op'[s] = "ReadBody") \/ Out'
  BY <1>1, <1>9, <1>17, OwedWordTaken DEF Delivered, Next
<1>18. ASSUME Inv, Inv', Reads("ReadBody"), [Next]_vars PROVE Reads("ReadBody")' \/ Out'
  <2>1. CASE ReadHeader(s) \/ ReadBody(s)
    BY <1>18, <2>1, OwedWordTaken DEF Delivered
  <2>2. CASE ~ReadHeader(s) /\ ~ReadBody(s)
    BY <1>9, <1>11, <1>18, <2>2
  <2>3. QED
    BY <2>1, <2>2
<1>19. ASSUME Inv, Inv', Reads("ReadBody"), <<ReadHeader(s) \/ ReadBody(s)>>_vars PROVE Out'
  BY <1>1, <1>19, OwedWordTaken DEF Delivered
<1>20. ASSUME Inv, StepsEnabled, NEW o, Reads(o) PROVE ENABLED <<ReadHeader(s) \/ ReadBody(s)>>_vars
  <2>1. ReadReady(s)
    BY <1>20, OwedWordTaken
  <2>2. ThreadGoesOn(s)
    BY <1>1, <1>20 DEF StepsEnabled
  <2>3. QED
    BY <2>1, <2>2 DEF ThreadGoesOn
<1> DEFINE Owes == Owed(p, k)
           HeaderDue == Waits("ReadHeader")
           HeaderThere == Reads("ReadHeader")
           BodyDue == Waits("ReadBody")
           BodyThere == Reads("ReadBody")
<1>21. /\ Inv /\ Inv' /\ HeaderDue /\ [Next]_vars => HeaderDue' \/ HeaderThere' \/ Out'
       /\ Inv /\ Inv' /\ BodyDue /\ [Next]_vars => BodyDue' \/ BodyThere' \/ Out'
  BY <1>13
<1>22. /\ Inv /\ Inv' /\ HeaderDue /\ <<WriteHeader(p) \/ WriteBody(p)>>_vars => HeaderThere' \/ Out'
       /\ Inv /\ Inv' /\ BodyDue /\ <<WriteHeader(p) \/ WriteBody(p)>>_vars => BodyThere' \/ Out'
  BY <1>14
<1>23. Inv /\ StepsEnabled /\ (HeaderDue \/ BodyDue) => ENABLED <<WriteHeader(p) \/ WriteBody(p)>>_vars
  BY <1>15
<1>24. /\ Inv /\ StepsEnabled /\ (HeaderThere \/ BodyThere) => ENABLED <<ReadHeader(s) \/ ReadBody(s)>>_vars
  BY <1>20
<1>25. /\ Inv /\ Inv' /\ HeaderThere /\ [Next]_vars => HeaderThere' \/ BodyDue' \/ BodyThere' \/ Out'
       /\ Inv /\ Inv' /\ HeaderThere /\ <<ReadHeader(s) \/ ReadBody(s)>>_vars => BodyDue' \/ BodyThere' \/ Out'
  BY <1>16, <1>17
<1>26. Fairness => ThreadFairness(p) /\ ThreadFairness(s)
  BY <1>1, ThreadIsFair
<1>27. Failure => Out
  BY DEF Delivered
<1>28. Inv /\ Posted => HeaderDue \/ BodyDue \/ HeaderThere \/ BodyThere
  BY <1>10
<1>29. Inv /\ Inv' /\ BodyThere /\ [Next]_vars => BodyThere' \/ Out'
  BY <1>18
<1>30. Inv /\ Inv' /\ BodyThere /\ <<ReadHeader(s) \/ ReadBody(s)>>_vars => Out'
  BY <1>19
<1>31. /\ Inv /\ Inv' /\ Owes /\ [Next]_vars => Owes' \/ Out'
       /\ Inv /\ Inv' /\ Owes /\ <<SendLambda(p)>>_vars => Posted' \/ Out'
       /\ Inv /\ StepsEnabled /\ Owes /\ ~Posted => ENABLED <<SendLambda(p)>>_vars
       /\ Inv /\ Start /\ Alike /\ Reached(10) => Owes \/ Out
  BY <1>5, <1>6, <1>7, <1>8
<1> HIDE DEF Inv, Start, Out, Posted, Owes, HeaderDue, HeaderThere, BodyDue, BodyThere
<1>32. FairSpec /\ []StepsEnabled => (Owes ~> Posted \/ Out)
  BY <1>2, <1>26, <1>31, PTL DEF FairSpec, Spec, ThreadFairness
<1>33. FairSpec /\ []StepsEnabled => (HeaderDue ~> HeaderThere \/ Out) /\ (BodyDue ~> BodyThere \/ Out)
  BY <1>2, <1>21, <1>22, <1>23, <1>26, PTL DEF FairSpec, Spec, ThreadFairness
<1>34. FairSpec /\ []StepsEnabled => (HeaderThere ~> BodyDue \/ BodyThere \/ Out)
  BY <1>2, <1>24, <1>25, <1>26, PTL DEF FairSpec, Spec, ThreadFairness
<1>35. FairSpec /\ []StepsEnabled => (BodyThere ~> Out)
  BY <1>2, <1>24, <1>26, <1>29, <1>30, PTL DEF FairSpec, Spec, ThreadFairness
<1>36. FairSpec /\ []StepsEnabled => (Owes ~> Out)
  BY <1>2, <1>28, <1>32, <1>33, <1>34, <1>35, PTL DEF FairSpec
<1>37. FairSpec /\ []StepsEnabled => (Start ~> Out)
  BY <1>2, <1>3, <1>4, <1>27, <1>31, <1>36, ValidationEndsWell, PTL DEF FairSpec, Spec
<1>38. QED
  BY <1>37, PTL DEF Start, Out, Delivered
=============================================================================
