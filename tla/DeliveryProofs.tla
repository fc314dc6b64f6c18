--------------------------- MODULE DeliveryProofs ---------------------------
(***************************************************************************)
(* What a connection promises when messages are sent only after its        *)
(* validation: the inductive invariant IInv of ConnectionInv.              *)
(***************************************************************************)
EXTENDS ConnectionProofs

-----------------------------------------------------------------------------
(* What a step does to the words: shared by the parts of the invariant.     *)

\* The writer writes one word at most, on its own stream; before it was told
\* it may send, an end has nothing to write.
WriterSteps(s) == SendLambda(s) \/ WriteHeader(s) \/ WriteBody(s)

LEMMA WriterPuts ==
  ASSUME IInv, NEW s \in Side, WriterSteps(s)
  PROVE  /\ stream' = stream \/ \E w \in Words : Put(s, w)
         /\ Len(stream'[s]) \in Nat /\ Len(stream[s]) <= Len(stream'[s])
         /\ \A i \in 1..Len(stream[s]) : stream'[s][i] = stream[s][i]
         /\ \A r \in Side : r # s => stream'[r] = stream[r]
         /\ sent[s] > 0
<1>1. Base /\ SendingTypes /\ StreamTypes
  BY DEF IInv, Base, TypeOK
<1>2. sent[s] > 0
  <2>1. CASE SendLambda(s)
    BY <1>1, <2>1 DEF SendLambda, SendingTypes
  <2>2. CASE WriteHeader(s) \/ WriteBody(s)
    <3>1. outgoing[s] # <<>>
      BY <1>1, <2>2 DEF WriteHeader, WriteBody, Base, WriterBusyIffQueued
    <3>2. Len(outgoing[s]) > 0 /\ Len(outgoing[s]) <= ran[s]
      BY <1>1, <3>1 DEF SendingTypes, IInv, WriterInStep, LastPosted
    <3> QED
      BY <1>1, <3>2 DEF SendingTypes
  <2> QED
    BY <2>1, <2>2 DEF WriterSteps
<1>3. stream' = stream \/ \E w \in Words : Put(s, w)
  <2>1. CASE SendLambda(s)
    <3>1. ran'[s] \in Nat \ {0} /\ outgoing'[s] = Append(outgoing[s], ran'[s])
      BY <1>1, <2>1 DEF SendLambda, SendingTypes
    <3>2. Hdr(Head(outgoing'[s])) \in Words
      BY <1>1, <3>1, QueueOps, WordTypes DEF SendingTypes
    <3> QED
      BY <2>1, <3>2 DEF SendLambda, StartWrite
  <2>2. ASSUME outgoing[s] # <<>>, FinishMessage(s)
        PROVE  stream' = stream \/ \E w \in Words : Put(s, w)
    <3>1. outgoing'[s] \in Seq(Nat \ {0})
      BY <1>1, <2>2, QueueOps DEF FinishMessage, SendingTypes
    <3>2. outgoing'[s] # <<>> => Hdr(Head(outgoing'[s])) \in Words
      BY <3>1, QueueOps, WordTypes
    <3> QED
      BY <2>2, <3>2 DEF FinishMessage, StartWrite
  <2>3. CASE WriteHeader(s) \/ WriteBody(s)
    <3>1. outgoing[s] # <<>>
      BY <1>1, <2>3 DEF WriteHeader, WriteBody, Base, WriterBusyIffQueued
    <3>2. Body(Head(outgoing[s])) \in Words
      BY <1>1, <3>1, QueueOps, WordTypes DEF SendingTypes
    <3> QED
      BY <2>2, <2>3, <3>1, <3>2 DEF WriteHeader, WriteBody, StartWrite
  <2> QED
    BY <2>1, <2>3 DEF WriterSteps
<1> QED
  BY <1>1, <1>2, <1>3, PutWord DEF StreamTypes

\* The client's answer to the challenge.
LEMMA ClientAnswers ==
  ASSUME IInv, ReadValidation1
  PROVE  /\ Take("Client")
         /\ \E in \in AsData(Received("Client")) :
               /\ in \in Data
               /\ cipher["Client"][in] \in Data
               /\ Put("Client", Val(cipher["Client"][in]))
               /\ check' = [check EXCEPT !["Client"] = cipher["Client"][cipher["Client"][in]]]
<1>1. StreamTypes /\ ControlTypes
  BY DEF IInv, TypeOK
<1>2. Take("Client")
  BY DEF ReadValidation1
<1>3. AsData(Received("Client")) \subseteq Data
  BY <1>1, <1>2, TakeWord, WordTypes DEF Side
<1> QED
  BY <1>1, <1>2, <1>3, EncryptType DEF ReadValidation1, ControlTypes, Side

\* The server's verdict on it.
LEMMA ServerJudges ==
  ASSUME IInv, ReadValidation2
  PROVE  /\ Take("Server")
         /\ \E in \in AsData(Received("Server")) :
               /\ in \in Data
               /\ \/ /\ in = check["Server"]
                     /\ Val(cipher["Server"][in]) \in Words
                     /\ Put("Server", Val(cipher["Server"][in]))
                     /\ status' = [status EXCEPT !["Server"] = "validated"]
                     /\ op' = [op EXCEPT !["Server"] = "WriteValidation3"]
                  \/ /\ in # check["Server"]
                     /\ UNCHANGED stream
                     /\ status' = [status EXCEPT !["Server"] = "invalidated"]
                     /\ op' = [op EXCEPT !["Server"] = "Stopped"]
<1>1. StreamTypes /\ ControlTypes
  BY DEF IInv, TypeOK
<1>2. Take("Server")
  BY DEF ReadValidation2
<1>3. AsData(Received("Server")) \subseteq Data
  BY <1>1, <1>2, TakeWord, WordTypes DEF Side
<1> QED
  BY <1>1, <1>2, <1>3, EncryptType, WordTypes DEF ReadValidation2, Matches, Goto, ControlTypes, Side

-----------------------------------------------------------------------------
(* The phases of the exchange.                                              *)

LEMMA ServerPhaseNext ==
  ASSUME IInv, ~EarlySends, [Next]_vars
  PROVE  ServerPhase'
<1>0. /\ Base /\ StreamTypes /\ ControlTypes /\ SendingTypes /\ CheckingTypes
      /\ ServerPhase
      /\ Len(stream["Server"]) \in Nat /\ nread["Server"] \in Nat /\ sent["Server"] \in Nat
  BY DEF Base, IInv, TypeOK, StreamTypes, SendingTypes, Side
<1> USE DEF ServerPhase
<1> DEFINE Same ==
      /\ op'["Server"] = op["Server"] /\ stream'["Server"] = stream["Server"]
      /\ nread'["Server"] = nread["Server"] /\ status'["Server"] = status["Server"]
      /\ sent'["Server"] = sent["Server"] /\ id'["Server"] = id["Server"]
<1>1. CASE Accept
  <2>1. UNCHANGED <<sent, nread, status>> /\ nread["Server"] = 0 /\ sent["Server"] = 0
    BY <1>0, <1>1 DEF Accept, SendingTypes, sending, receiving, Side
  <2>2. CASE op' = [op EXCEPT !["Server"] = "Stopped"] /\ UNCHANGED <<id, check, stream>>
    BY <2>1, <2>2, <1>0, <1>1 DEF ControlTypes, Accept, Side
  <2>3. ASSUME NEW now \in Data, Put("Server", Val(now)), op' = [op EXCEPT !["Server"] = "WriteValidation1"]
        PROVE  ServerPhase'
    <3>1. Len(stream'["Server"]) = Len(stream["Server"]) + 1
      BY <1>0, <2>3, PutWord, WordTypes DEF StreamTypes, Side
    <3>2. op'["Server"] = "WriteValidation1"
      BY <1>0, <2>3 DEF ControlTypes, Side
    <3> QED
      BY <2>1, <3>1, <3>2, <1>0, <1>1 DEF Accept
  <2> QED
    BY <1>1, <2>2, <2>3 DEF Accept, Goto
<1>2. ASSUME NEW s \in Side, s = "Server", ValidationWritten(s)
      PROVE  ServerPhase'
  <2>1. UNCHANGED <<sent, stream, nread, status, id>>
    BY <1>2 DEF ValidationWritten, sending, receiving, checking
  <2>2. CASE op["Server"] = "WriteValidation1" /\ op'["Server"] = "ReadValidation2"
    BY <1>0, <2>1, <2>2
  <2>3. CASE op["Server"] = "WriteValidation4" /\ op'["Server"] = "ReadHeader"
    <3>1. Len(stream'["Server"]) = 3 /\ nread'["Server"] = 1 /\ sent'["Server"] = 0
      BY <1>0, <2>1, <2>3
    <3> QED
      BY <2>3, <3>1
  <2> QED
    BY <1>0, <1>2, <2>2, <2>3 DEF ValidationWritten, Pending, Goto, ControlTypes, Side
<1>3. CASE WriteValidation3
  <2>1. Len(stream'["Server"]) = Len(stream["Server"]) + 1
    BY <1>0, <1>3, PutWord, WordTypes DEF WriteValidation3, StreamTypes, CheckingTypes, Side
  <2>2. op["Server"] = "WriteValidation3" /\ op'["Server"] = "WriteValidation4"
    BY <1>0, <1>3 DEF WriteValidation3, Pending, Goto, ControlTypes, Side
  <2>3. UNCHANGED <<sent, nread, status, id>>
    BY <1>3 DEF WriteValidation3, sending, receiving, checking
  <2>4. Len(stream["Server"]) = 2 /\ nread["Server"] = 1 /\ sent["Server"] = 0
    BY <1>0, <2>2
  <2>5. Len(stream'["Server"]) = 3 /\ nread'["Server"] = 1 /\ sent'["Server"] = 0
    BY <2>1, <2>3, <2>4
  <2> QED
    BY <2>2, <2>5
<1>4. CASE ReadValidation2
  <2>1. nread'["Server"] = nread["Server"] + 1
    BY <1>0, <1>4, ServerJudges, TakeWord DEF Side
  <2>2. op["Server"] = "ReadValidation2" /\ UNCHANGED <<sent, id>>
    BY <1>4 DEF ReadValidation2, Pending
  <2>0. Len(stream["Server"]) = 1 /\ nread["Server"] = 0 /\ sent["Server"] = 0
    BY <1>0, <2>2
  <2>3. CASE /\ op'["Server"] = "WriteValidation3"
             /\ Len(stream'["Server"]) = Len(stream["Server"]) + 1
    <3>1. Len(stream'["Server"]) = 2 /\ nread'["Server"] = 1 /\ sent'["Server"] = 0
      BY <2>0, <2>1, <2>2, <2>3
    <3>2. op'["Server"] = "WriteValidation3"
      BY <2>3
    <3> QED
      BY <3>1, <3>2
  <2>4. CASE op'["Server"] = "Stopped" /\ UNCHANGED stream
    <3>1. Len(stream'["Server"]) = 1 /\ nread'["Server"] = 1 /\ sent'["Server"] = 0
      BY <2>0, <2>1, <2>2, <2>4
    <3>2. op'["Server"] = "Stopped"
      BY <2>4
    <3> QED
      BY <3>1, <3>2
  <2> QED
    BY <1>0, <1>4, <2>3, <2>4, ServerJudges, PutWord DEF StreamTypes, ControlTypes, Side
<1>5. ASSUME NEW s \in Side, s = "Server", ReadHeader(s) \/ ReadBody(s)
      PROVE  ServerPhase'
  <2>1. nread'["Server"] = nread["Server"] + 1
    BY <1>0, <1>5, TakeWord DEF ReadHeader, ReadBody, Side
  <2>2. /\ op["Server"] \in {"ReadHeader", "ReadBody"}
        /\ op'["Server"] \in {"ReadHeader", "ReadBody"}
    BY <1>0, <1>5 DEF ReadHeader, ReadBody, AddToIncomingMessageQueue, Pending, Goto, ControlTypes, Side
  <2>3. UNCHANGED <<sent, stream, status, id>>
    BY <1>5 DEF ReadHeader, ReadBody, sending, checking
  <2> QED
    BY <1>0, <2>1, <2>2, <2>3 DEF StreamTypes, Side
<1>6. ASSUME NEW s \in Side, s = "Server", ChainFails(s)
      PROVE  ServerPhase'
  BY <1>0, <1>6 DEF ChainFails, Goto, ControlTypes, Side, sending, receiving, checking
<1>7. ASSUME NEW s \in Side, s = "Server", Send(s)
      PROVE  ServerPhase'
  BY <1>0, <1>7 DEF Send, Normal, receiving, checking, SendingTypes, Side
<1>8. ASSUME NEW s \in Side, s = "Server", WriterSteps(s)
      PROVE  ServerPhase'
  <2>1. Len(stream["Server"]) <= Len(stream'["Server"]) /\ sent["Server"] > 0
    BY <1>8, WriterPuts DEF Side
  <2>2. UNCHANGED <<sent, nread, status, id, op>>
    BY <1>8 DEF WriterSteps, SendLambda, WriteHeader, WriteBody, receiving, checking
  <2> QED
    BY <1>0, <2>1, <2>2 DEF StreamTypes, Side
<1>9. CASE Same
  BY <1>0, <1>9
<1>10. ASSUME Connected \/ ReadValidation3 \/ ReadValidation4 \/ Poll \/ LinkDown \/ UNCHANGED vars
       PROVE  Same
  BY <1>0, <1>10 DEF Connected, ReadValidation3, ReadValidation4, Poll, LinkDown, vars, Take,
     Goto, sending, receiving, checking, ControlTypes, CheckingTypes, StreamTypes, Side
<1>11. ASSUME ReadValidation1
       PROVE  Same
  BY <1>0, <1>11 DEF ReadValidation1, Take, Put,
     Goto, sending, receiving, checking, ControlTypes, CheckingTypes, StreamTypes, Side
<1>12. ASSUME NEW s \in Side, s = "Client",
              ValidationWritten(s) \/ ReadHeader(s) \/ ReadBody(s) \/ ChainFails(s)
       PROVE  Same
  BY <1>0, <1>12 DEF ValidationWritten, ReadHeader, ReadBody, ChainFails, Take, AddToIncomingMessageQueue,
     Goto, sending, receiving, checking, ControlTypes, CheckingTypes, StreamTypes, Side
<1>13. ASSUME NEW s \in Side, s = "Client", WriterSteps(s)
       PROVE  Same
  BY <1>0, <1>13, WriterPuts DEF WriterSteps, SendLambda, WriteHeader, WriteBody,
     sending, receiving, checking, ControlTypes, CheckingTypes, StreamTypes, Side
<1>14. ASSUME NEW s \in Side, s = "Client", Send(s)
       PROVE  Same
  BY <1>0, <1>14 DEF Send, receiving, checking, SendingTypes, Side
<1>15. ASSUME NEW s \in Side, WriterFails(s) \/ Shutdown(s)
       PROVE  Same
  BY <1>15 DEF WriterFails, Shutdown, sending, receiving, checking
<1> HIDE DEF ServerPhase, Same
<1>16. ASSUME NEW s \in Side,
              \/ ValidationWritten(s) \/ ChainFails(s) \/ ReadHeader(s) \/ ReadBody(s)
              \/ WriterSteps(s) \/ Send(s) \/ WriterFails(s) \/ Shutdown(s)
       PROVE  ServerPhase'
  <2>1. CASE ValidationWritten(s)
    BY <1>2, <1>9, <1>12, <2>1 DEF Side
  <2>2. CASE ReadHeader(s) \/ ReadBody(s)
    BY <1>5, <1>9, <1>12, <2>2 DEF Side
  <2>3. CASE ChainFails(s)
    BY <1>6, <1>9, <1>12, <2>3 DEF Side
  <2>4. CASE WriterSteps(s)
    BY <1>8, <1>9, <1>13, <2>4 DEF Side
  <2>5. CASE Send(s)
    BY <1>7, <1>9, <1>14, <2>5 DEF Side
  <2>6. CASE WriterFails(s) \/ Shutdown(s)
    BY <1>9, <1>15, <2>6
  <2> QED
    BY <1>16, <2>1, <2>2, <2>3, <2>4, <2>5, <2>6
<1> QED
  BY <1>1, <1>3, <1>4, <1>9, <1>10, <1>11, <1>16 DEF Next, Validation, WriterSteps

LEMMA ClientPhaseNext ==
  ASSUME IInv, ~EarlySends, [Next]_vars
  PROVE  ClientPhase'
<1>0. /\ Base /\ StreamTypes /\ ControlTypes /\ SendingTypes /\ CheckingTypes
      /\ ClientPhase
      /\ Len(stream["Client"]) \in Nat /\ nread["Client"] \in Nat /\ sent["Client"] \in Nat
      /\ status["Client"] # "invalidated"
  BY DEF Base, IInv, TypeOK, StreamTypes, SendingTypes, Side, Handshake
<1> USE DEF ClientPhase
<1> DEFINE Same ==
      /\ op'["Client"] = op["Client"] /\ stream'["Client"] = stream["Client"]
      /\ nread'["Client"] = nread["Client"] /\ status'["Client"] = status["Client"]
      /\ sent'["Client"] = sent["Client"]
<1>1. CASE Connected
  BY <1>0, <1>1 DEF Connected, Pending, Goto, ControlTypes, Side, sending, receiving, checking
<1>2. ASSUME NEW s \in Side, s = "Client", ValidationWritten(s)
      PROVE  ClientPhase'
  <2>1. UNCHANGED <<sent, stream, nread, status>>
    BY <1>2 DEF ValidationWritten, sending, receiving, checking
  <2>2. op["Client"] = "WriteValidation2" /\ op'["Client"] = "ReadValidation3"
    BY <1>0, <1>2 DEF ValidationWritten, Pending, Goto, ControlTypes, Side
  <2> QED
    BY <1>0, <2>1, <2>2
<1>3. CASE ReadValidation1
  <2>1. op["Client"] = "ReadValidation1" /\ op'["Client"] = "WriteValidation2"
    BY <1>0, <1>3 DEF ReadValidation1, Pending, Goto, ControlTypes, Side
  <2>2. UNCHANGED <<sent, status>>
    BY <1>3 DEF ReadValidation1, sending
  <2>3. /\ Len(stream["Client"]) = 0 /\ nread["Client"] = 0 /\ sent["Client"] = 0
        /\ status["Client"] # "validated"
    BY <1>0, <2>1
  <2>4. nread'["Client"] = nread["Client"] + 1
    BY <1>0, <1>3, ClientAnswers, TakeWord DEF Side
  <2>5. Len(stream'["Client"]) = Len(stream["Client"]) + 1
    BY <1>0, <1>3, ClientAnswers, PutWord, WordTypes DEF StreamTypes, Side
  <2>6. /\ Len(stream'["Client"]) = 1 /\ nread'["Client"] = 1 /\ sent'["Client"] = 0
        /\ status'["Client"] # "validated"
    BY <2>2, <2>3, <2>4, <2>5
  <2>7. op'["Client"] = "WriteValidation2"
    BY <2>1
  <2> QED
    BY <2>6, <2>7
<1>4. CASE ReadValidation3
  <2>1. op["Client"] = "ReadValidation3" /\ op'["Client"] \in {"ReadValidation4", "Stopped"}
    BY <1>0, <1>4 DEF ReadValidation3, Pending, Goto, ControlTypes, Side
  <2>2. UNCHANGED <<sent, stream>>
    BY <1>4 DEF ReadValidation3, sending
  <2>3. /\ Len(stream["Client"]) = 1 /\ nread["Client"] = 1 /\ sent["Client"] = 0
        /\ status["Client"] # "validated"
    BY <1>0, <2>1
  <2>4. nread'["Client"] = nread["Client"] + 1
    BY <1>0, <1>4, TakeWord DEF ReadValidation3, Side
  <2>5. status'["Client"] # "validated"
    BY <1>0, <1>4, <2>3 DEF ReadValidation3, ControlTypes, Side
  <2>6. Len(stream'["Client"]) = 1 /\ nread'["Client"] = 2 /\ sent'["Client"] = 0
    BY <2>2, <2>3, <2>4
  <2>7. op'["Client"] \in {"ReadValidation4", "Stopped"}
    BY <2>1
  <2> QED
    BY <2>5, <2>6, <2>7
<1>5. CASE ReadValidation4
  <2>1. op["Client"] = "ReadValidation4" /\ op'["Client"] = "ReadHeader"
    BY <1>0, <1>5 DEF ReadValidation4, Pending, Goto, ControlTypes, Side
  <2>2. UNCHANGED stream /\ status'["Client"] = "validated"
    BY <1>0, <1>5 DEF ReadValidation4, ControlTypes, Side
  <2>3. Len(stream["Client"]) = 1 /\ nread["Client"] = 2
    BY <1>0, <2>1
  <2>4. nread'["Client"] = nread["Client"] + 1
    BY <1>0, <1>5, TakeWord DEF ReadValidation4, Side
  <2>5. Len(stream'["Client"]) = 1 /\ nread'["Client"] = 3
    BY <2>2, <2>3, <2>4
  <2>6. op'["Client"] = "ReadHeader" /\ status'["Client"] = "validated"
    BY <2>1, <2>2
  <2> QED
    BY <2>5, <2>6
<1>6. ASSUME NEW s \in Side, s = "Client", ReadHeader(s) \/ ReadBody(s)
      PROVE  ClientPhase'
  <2>1. nread'["Client"] = nread["Client"] + 1
    BY <1>0, <1>6, TakeWord DEF ReadHeader, ReadBody, Side
  <2>2. /\ op["Client"] \in {"ReadHeader", "ReadBody"}
        /\ op'["Client"] \in {"ReadHeader", "ReadBody"}
    BY <1>0, <1>6 DEF ReadHeader, ReadBody, AddToIncomingMessageQueue, Pending, Goto, ControlTypes, Side
  <2>3. UNCHANGED <<sent, stream, status>>
    BY <1>6 DEF ReadHeader, ReadBody, sending, checking
  <2> QED
    BY <1>0, <2>1, <2>2, <2>3
<1>7. ASSUME NEW s \in Side, s = "Client", ChainFails(s)
      PROVE  ClientPhase'
  BY <1>0, <1>7 DEF ChainFails, Goto, ControlTypes, Side, sending, receiving, checking
<1>8. ASSUME NEW s \in Side, s = "Client", Send(s)
      PROVE  ClientPhase'
  <2>1. status["Client"] = "validated" /\ UNCHANGED <<op, stream, nread, status>>
    BY <1>8 DEF Send, Normal, receiving, checking
  <2> QED
    BY <1>0, <2>1
<1>9. ASSUME NEW s \in Side, s = "Client", WriterSteps(s)
      PROVE  ClientPhase'
  <2>1. Len(stream["Client"]) <= Len(stream'["Client"]) /\ sent["Client"] > 0
    BY <1>9, WriterPuts
  <2>2. UNCHANGED <<sent, nread, status, op>>
    BY <1>9 DEF WriterSteps, SendLambda, WriteHeader, WriteBody, receiving, checking
  <2>3. status["Client"] = "validated" /\ op["Client"] \in {"ReadHeader", "ReadBody", "Stopped"}
    BY <1>0, <2>1
  <2>4. Len(stream["Client"]) >= 1 /\ Len(stream'["Client"]) \in Nat
    BY <1>0, <1>9, <2>3, WriterPuts, PutWord DEF StreamTypes
  <2>5. Len(stream'["Client"]) >= 1
    BY <1>0, <2>1, <2>4
  <2> QED
    BY <1>0, <2>2, <2>3, <2>5
<1>10. CASE Same
  BY <1>0, <1>10
<1> HIDE DEF ClientPhase
<1>11. ASSUME WriteValidation3 \/ Poll \/ LinkDown \/ UNCHANGED vars
       PROVE  Same
  BY <1>0, <1>11 DEF WriteValidation3, Poll, LinkDown, vars, Put,
     Goto, sending, receiving, checking, ControlTypes, CheckingTypes, StreamTypes, Side
<1>12. ASSUME Accept
       PROVE  Same
  BY <1>0, <1>12 DEF Accept, Put, Goto, sending, receiving, ControlTypes, StreamTypes, Side
<1>13. ASSUME ReadValidation2
       PROVE  Same
  <2>1. nread'["Client"] = nread["Client"]
    BY <1>0, <1>13, TakeWord DEF ReadValidation2, Side
  <2>2. sent'["Client"] = sent["Client"]
    BY <1>0, <1>13 DEF ReadValidation2, SendingTypes, Side
  <2>3. stream'["Client"] = stream["Client"]
    BY <1>0, <1>13, ServerJudges, PutWord DEF StreamTypes, Side
  <2>4. op'["Client"] = op["Client"] /\ status'["Client"] = status["Client"]
    BY <1>0, <1>13, ServerJudges DEF ControlTypes, Side
  <2> QED
    BY <2>1, <2>2, <2>3, <2>4
<1>14. ASSUME NEW s \in Side, s = "Server",
              ValidationWritten(s) \/ ReadHeader(s) \/ ReadBody(s) \/ ChainFails(s)
       PROVE  Same
  BY <1>0, <1>14 DEF ValidationWritten, ReadHeader, ReadBody, ChainFails, Take, AddToIncomingMessageQueue,
     Goto, sending, receiving, checking, ControlTypes, CheckingTypes, StreamTypes, Side
<1>15. ASSUME NEW s \in Side, s = "Server", WriterSteps(s)
       PROVE  Same
  BY <1>0, <1>15, WriterPuts DEF WriterSteps, SendLambda, WriteHeader, WriteBody,
     receiving, checking, Side
<1>16. ASSUME NEW s \in Side, s = "Server", Send(s)
       PROVE  Same
  BY <1>0, <1>16 DEF Send, receiving, checking, SendingTypes, Side
<1>17. ASSUME NEW s \in Side, WriterFails(s) \/ Shutdown(s)
       PROVE  Same
  BY <1>17 DEF WriterFails, Shutdown, sending, receiving, checking
<1> HIDE DEF Same
<1>18. ASSUME NEW s \in Side,
              \/ ValidationWritten(s) \/ ChainFails(s) \/ ReadHeader(s) \/ ReadBody(s)
              \/ WriterSteps(s) \/ Send(s) \/ WriterFails(s) \/ Shutdown(s)
       PROVE  ClientPhase'
  <2>1. CASE ValidationWritten(s)
    BY <1>2, <1>10, <1>14, <2>1 DEF Side
  <2>2. CASE ReadHeader(s) \/ ReadBody(s)
    BY <1>6, <1>10, <1>14, <2>2 DEF Side
  <2>3. CASE ChainFails(s)
    BY <1>7, <1>10, <1>14, <2>3 DEF Side
  <2>4. CASE WriterSteps(s)
    BY <1>9, <1>10, <1>15, <2>4 DEF Side
  <2>5. CASE Send(s)
    BY <1>8, <1>10, <1>16, <2>5 DEF Side
  <2>6. CASE WriterFails(s) \/ Shutdown(s)
    BY <1>10, <1>17, <2>6
  <2> QED
    BY <1>18, <2>1, <2>2, <2>3, <2>4, <2>5, <2>6
<1> QED
  BY <1>1, <1>3, <1>4, <1>5, <1>10, <1>11, <1>12, <1>13, <1>18 DEF Next, Validation, WriterSteps

-----------------------------------------------------------------------------
(* The words of the exchange.                                               *)

\* Once the exchange is written, what follows on the streams leaves it alone.
LEMMA HandshakeStays ==
  ASSUME IInv, UNCHANGED <<cipher, check, id, status>>,
         \A s \in Side :
            \/ stream'[s] = stream[s]
            \/ /\ Len(stream[s]) >= ValidationEnds(s)
               /\ Len(stream'[s]) \in Nat
               /\ \A i \in 1..Len(stream[s]) : stream'[s][i] = stream[s][i]
               /\ Len(stream[s]) <= Len(stream'[s])
  PROVE  Handshake'
<1>1. Handshake /\ Len(stream["Server"]) \in Nat /\ Len(stream["Client"]) \in Nat
  BY DEF IInv, TypeOK, StreamTypes, Side
<1>2. CASE stream'["Server"] = stream["Server"] /\ stream'["Client"] = stream["Client"]
  BY <1>1, <1>2 DEF Handshake, Challenge, Answer
<1>3. stream'["Server"] # stream["Server"] =>
         /\ Len(stream["Server"]) >= 3 /\ Len(stream'["Server"]) >= 3
         /\ \A i \in 1..3 : stream'["Server"][i] = stream["Server"][i]
  BY <1>1 DEF ValidationEnds, Side
<1>4. stream'["Client"] # stream["Client"] =>
         /\ Len(stream["Client"]) >= 1 /\ Len(stream'["Client"]) >= 1
         /\ stream'["Client"][1] = stream["Client"][1]
  BY <1>1 DEF ValidationEnds, Side
<1>5. CASE stream'["Server"] # stream["Server"] /\ stream'["Client"] = stream["Client"]
  <2>1. /\ Len(stream["Server"]) >= 3 /\ Len(stream'["Server"]) >= 3
        /\ stream'["Server"][1] = stream["Server"][1]
        /\ stream'["Server"][2] = stream["Server"][2]
        /\ stream'["Server"][3] = stream["Server"][3]
    BY <1>3, <1>5
  <2> QED
    BY <1>1, <1>5, <2>1 DEF Handshake, Challenge, Answer
<1>6. CASE stream'["Client"] # stream["Client"] /\ stream'["Server"] = stream["Server"]
  BY <1>1, <1>4, <1>6 DEF Handshake, Challenge, Answer
<1>7. CASE stream'["Client"] # stream["Client"] /\ stream'["Server"] # stream["Server"]
  <2>1. /\ Len(stream["Server"]) >= 3 /\ Len(stream'["Server"]) >= 3
        /\ stream'["Server"][1] = stream["Server"][1]
        /\ stream'["Server"][2] = stream["Server"][2]
        /\ stream'["Server"][3] = stream["Server"][3]
    BY <1>3, <1>7
  <2> QED
    BY <1>1, <1>4, <1>7, <2>1 DEF Handshake, Challenge, Answer
<1> QED
  BY <1>2, <1>5, <1>6, <1>7

LEMMA HandshakeNext ==
  ASSUME IInv, ~EarlySends, [Next]_vars
  PROVE  Handshake'
<1>0. /\ Base /\ StreamTypes /\ ControlTypes /\ SendingTypes /\ CheckingTypes
      /\ ServerPhase /\ ClientPhase /\ Handshake
      /\ Len(stream["Server"]) \in Nat /\ Len(stream["Client"]) \in Nat
      /\ nread["Server"] \in Nat /\ nread["Client"] \in Nat
      /\ cipher["Server"] \in Ciphers /\ cipher["Client"] \in Ciphers
  BY DEF Base, IInv, TypeOK, StreamTypes, ControlTypes, Side
<1>1. CASE Accept
  <2>0. Len(stream["Server"]) = 0 /\ Len(stream["Client"]) = 0 /\ UNCHANGED <<cipher, status>>
    BY <1>0, <1>1 DEF Accept, ServerPhase, Handshake
  <2>1. CASE UNCHANGED <<id, check, stream>>
    BY <2>0, <2>1, HandshakeStays
  <2>2. ASSUME NEW now \in Data, id' = [id EXCEPT !["Server"] = ClientID],
               check' = [check EXCEPT !["Server"] = cipher["Server"][now]],
               Put("Server", Val(now))
        PROVE  Handshake'
    <3>1. /\ Len(stream'["Server"]) = 1 /\ stream'["Server"][1] = Val(now)
          /\ stream'["Client"] = stream["Client"]
      <4>1. /\ Len(stream'["Server"]) = Len(stream["Server"]) + 1
            /\ stream'["Server"][Len(stream["Server"]) + 1] = Val(now)
            /\ stream'["Client"] = stream["Client"]
        BY <1>0, <2>2, PutWord, WordTypes DEF StreamTypes, Side
      <4>2. Len(stream["Server"]) + 1 = 1
        BY <2>0
      <4> QED
        BY <4>1, <4>2
    <3>2. /\ id'["Server"] = ClientID /\ id'["Client"] = id["Client"]
          /\ check'["Server"] = cipher["Server"][now]
      BY <1>0, <2>2 DEF CheckingTypes, Side
    <3>3. stream'["Server"][1].kind = "val" /\ stream'["Server"][1].n = now
      BY <3>1 DEF Val
    <3>4. /\ status["Server"] # "validated" /\ status["Client"] = "none" /\ id["Client"] = 0
      BY <1>0, <2>0 DEF ServerPhase, Handshake, ControlTypes, Side
    <3> QED
      BY <2>0, <3>1, <3>2, <3>3, <3>4 DEF Handshake, Challenge, Answer
  <2> QED
    BY <1>1, <2>1, <2>2 DEF Accept
<1>2. CASE WriteValidation3
  <2>0. Len(stream["Server"]) = 2
    BY <1>0, <1>2 DEF WriteValidation3, Pending, ServerPhase
  <2>1. id["Server"] = ClientID
    BY <1>0, <2>0 DEF Handshake
  <2>2. /\ stream'["Client"] = stream["Client"]
        /\ Len(stream'["Server"]) = 3 /\ stream'["Server"][3] = IDOf(ClientID)
        /\ stream'["Server"][1] = stream["Server"][1] /\ stream'["Server"][2] = stream["Server"][2]
    <3>1. Put("Server", IDOf(ClientID)) /\ IDOf(ClientID) \in Words
      BY <1>2, <2>1, WordTypes, ConstantsAssumption DEF WriteValidation3
    <3>2. /\ Len(stream'["Server"]) = Len(stream["Server"]) + 1
          /\ stream'["Server"][Len(stream["Server"]) + 1] = IDOf(ClientID)
          /\ stream'["Client"] = stream["Client"]
          /\ \A i \in 1..Len(stream["Server"]) : stream'["Server"][i] = stream["Server"][i]
      BY <1>0, <3>1, PutWord DEF StreamTypes, Side
    <3>3. Len(stream["Server"]) + 1 = 3 /\ 1 \in 1..Len(stream["Server"]) /\ 2 \in 1..Len(stream["Server"])
      BY <2>0
    <3> QED
      BY <3>2, <3>3
  <2>3. UNCHANGED <<cipher, check, id, status>>
    BY <1>2 DEF WriteValidation3, checking
  <2> QED
    BY <1>0, <2>0, <2>1, <2>2, <2>3 DEF Handshake, Challenge, Answer
<1>3. CASE ReadValidation1
  <2>1. /\ nread["Client"] = 0 /\ Len(stream["Client"]) = 0
    BY <1>0, <1>3 DEF ReadValidation1, Pending, ClientPhase
  <2>2. Len(stream["Server"]) >= 1 /\ Received("Client") = stream["Server"][1]
    BY <1>0, <1>3, <2>1, ClientAnswers, TakeWord DEF Received, Peer, Side
  <2>3. AsData(Received("Client")) = {Challenge}
    BY <1>0, <2>2 DEF AsData, Handshake, Challenge
  <2>4. /\ Put("Client", Val(cipher["Client"][Challenge]))
        /\ check' = [check EXCEPT !["Client"] = cipher["Client"][cipher["Client"][Challenge]]]
        /\ cipher["Client"][Challenge] \in Data
    BY <1>3, <2>3, ClientAnswers
  <2>5. /\ stream'["Server"] = stream["Server"] /\ Len(stream'["Client"]) = 1
        /\ stream'["Client"][1] = Val(cipher["Client"][Challenge])
    <3>1. Val(cipher["Client"][Challenge]) \in Words
      BY <2>4, WordTypes
    <3>2. /\ Len(stream'["Client"]) = Len(stream["Client"]) + 1
          /\ stream'["Client"][Len(stream["Client"]) + 1] = Val(cipher["Client"][Challenge])
          /\ stream'["Server"] = stream["Server"]
      BY <1>0, <2>4, <3>1, PutWord DEF StreamTypes, Side
    <3>3. Len(stream["Client"]) + 1 = 1
      BY <2>1
    <3> QED
      BY <3>2, <3>3
  <2>6. stream'["Client"][1].kind = "val" /\ stream'["Client"][1].n = cipher["Client"][Challenge]
    BY <2>5 DEF Val
  <2>7. /\ check'["Server"] = check["Server"]
        /\ check'["Client"] = cipher["Client"][cipher["Client"][Challenge]]
    BY <1>0, <2>4 DEF CheckingTypes, Side
  <2>8. UNCHANGED <<cipher, id, status>>
    BY <1>3 DEF ReadValidation1
  <2>9. /\ ~(Len(stream["Server"]) >= 2) /\ ~(Len(stream["Server"]) >= 3)
        /\ status["Client"] = "none"
    <3>1. ~(Len(stream["Server"]) >= 2)
      BY <1>0, <2>1 DEF Handshake
    <3>2. status["Client"] # "validated"
      BY <1>0, <2>1 DEF ClientPhase
    <3>3. status["Client"] # "invalidated"
      BY <1>0 DEF Handshake
    <3>4. status["Client"] = "none"
      BY <1>0, <3>2, <3>3 DEF ControlTypes, Side
    <3>5. ~(Len(stream["Server"]) >= 3)
      BY <1>0, <3>1
    <3> QED
      BY <3>1, <3>4, <3>5
  <2> QED
    BY <1>0, <2>2, <2>5, <2>6, <2>7, <2>8, <2>9 DEF Handshake, Challenge, Answer
<1>4. CASE ReadValidation2
  <2>1. nread["Server"] = 0 /\ Len(stream["Server"]) = 1 /\ status["Server"] = "none"
    BY <1>0, <1>4 DEF ReadValidation2, Pending, ServerPhase
  <2>2. Len(stream["Client"]) >= 1 /\ Received("Server") = stream["Client"][1]
    BY <1>0, <1>4, <2>1, ServerJudges, TakeWord DEF Received, Peer, Side
  <2>3. AsData(Received("Server")) = {Answer} /\ Answer \in Data
    BY <1>0, <1>4, <2>2, ServerJudges DEF AsData, Handshake, Answer
  <2>4. UNCHANGED <<cipher, check, id>>
    BY <1>4 DEF ReadValidation2
  <2>5. status'["Client"] = status["Client"]
    BY <1>0, <1>4, ServerJudges DEF ControlTypes, Side
  <2>6. CASE Answer # check["Server"]
    <3>1. UNCHANGED stream /\ status'["Server"] = "invalidated"
      BY <1>0, <1>4, <2>3, <2>6, ServerJudges DEF ControlTypes, Side
    <3> QED
      BY <1>0, <2>1, <2>4, <2>5, <3>1 DEF Handshake, Challenge, Answer
  <2>7. CASE Answer = check["Server"]
    <3>1. /\ Val(cipher["Server"][Answer]) \in Words
          /\ Put("Server", Val(cipher["Server"][Answer]))
          /\ status'["Server"] = "validated"
      BY <1>0, <1>4, <2>3, <2>7, ServerJudges DEF ControlTypes, Side
    <3>2. /\ Len(stream'["Server"]) = 2
          /\ stream'["Server"][1] = stream["Server"][1]
          /\ stream'["Server"][2] = Val(cipher["Server"][Answer])
          /\ stream'["Client"] = stream["Client"]
      <4>1. /\ Len(stream'["Server"]) = Len(stream["Server"]) + 1
            /\ stream'["Server"][Len(stream["Server"]) + 1] = Val(cipher["Server"][Answer])
            /\ stream'["Client"] = stream["Client"]
            /\ \A i \in 1..Len(stream["Server"]) : stream'["Server"][i] = stream["Server"][i]
        BY <1>0, <3>1, PutWord DEF StreamTypes, Side
      <4>2. Len(stream["Server"]) + 1 = 2 /\ 1 \in 1..Len(stream["Server"])
        BY <2>1
      <4> QED
        BY <4>1, <4>2
    <3>3. Challenge \in Data
      <4>1. stream["Server"][1] \in Words
        BY <1>0, <2>1 DEF StreamTypes, Side
      <4> QED
        BY <1>0, <2>1, <4>1 DEF Words, Challenge, Handshake
    <3>4. cipher["Server"][Challenge] = cipher["Client"][Challenge]
      BY <1>0, <2>1, <2>2, <2>7 DEF Handshake
    <3>5. cipher["Server"] = cipher["Client"]
      BY <1>0, <3>3, <3>4, CiphersAssumption
    <3> QED
      BY <1>0, <2>1, <2>2, <2>4, <2>5, <3>1, <3>2, <3>5 DEF Handshake, Challenge, Answer
  <2> QED
    BY <2>6, <2>7
<1>5. CASE ReadValidation3
  <2>1. /\ nread["Client"] = 1 /\ Len(stream["Client"]) = 1 /\ Take("Client")
    BY <1>0, <1>5 DEF ReadValidation3, Pending, ClientPhase
  <2>2. nread["Client"] + 1 <= Len(stream["Server"]) /\ Received("Client") = stream["Server"][nread["Client"] + 1]
    BY <1>0, <2>1, TakeWord DEF Received, Peer, Side
  <2>3. Len(stream["Server"]) >= 2 /\ Received("Client") = stream["Server"][2]
    BY <1>0, <2>1, <2>2
  <2>4. AsData(Received("Client")) = {check["Client"]}
    <3>1. Received("Client") = Val(cipher["Server"][Answer]) /\ cipher["Server"] = cipher["Client"]
      BY <1>0, <2>3 DEF Handshake
    <3>2. check["Client"] = cipher["Client"][Answer]
      BY <1>0, <2>1 DEF Handshake
    <3> QED
      BY <3>1, <3>2 DEF AsData, Val
  <2>5. UNCHANGED <<cipher, check, id, status, stream>>
    BY <1>5, <2>4 DEF ReadValidation3, Matches, sending
  <2> QED
    BY <2>5, HandshakeStays
<1>6. CASE ReadValidation4
  <2>1. /\ nread["Client"] = 2 /\ Len(stream["Client"]) = 1 /\ Take("Client")
    BY <1>0, <1>6 DEF ReadValidation4, Pending, ClientPhase
  <2>2. nread["Client"] + 1 <= Len(stream["Server"]) /\ Received("Client") = stream["Server"][nread["Client"] + 1]
    BY <1>0, <2>1, TakeWord DEF Received, Peer, Side
  <2>3. Len(stream["Server"]) >= 3 /\ Received("Client") = stream["Server"][3]
    BY <1>0, <2>1, <2>2
  <2>4. AsID(Received("Client")) = ClientID
    BY <1>0, <2>3 DEF Handshake, AsID, IDOf
  <2>5. UNCHANGED <<cipher, check, stream>>
    BY <1>6 DEF ReadValidation4, sending
  <2>6. /\ id'["Client"] = ClientID /\ id'["Server"] = id["Server"]
        /\ status'["Client"] = "validated" /\ status'["Server"] = status["Server"]
    BY <1>0, <1>6, <2>4 DEF ReadValidation4, CheckingTypes, ControlTypes, Side
  <2> QED
    BY <1>0, <2>1, <2>3, <2>5, <2>6 DEF Handshake, Challenge, Answer
<1>7. ASSUME NEW s \in Side, WriterSteps(s)
      PROVE  Handshake'
  <2>1. UNCHANGED <<cipher, check, id, status>>
    BY <1>7 DEF WriterSteps, SendLambda, WriteHeader, WriteBody, checking
  <2>2. Len(stream[s]) >= ValidationEnds(s)
    <3>1. sent[s] > 0
      BY <1>7, WriterPuts
    <3>2. CASE s = "Server"
      BY <1>0, <3>1, <3>2 DEF ServerPhase, ValidationEnds
    <3>3. CASE s = "Client"
      BY <1>0, <3>1, <3>3 DEF ClientPhase, ValidationEnds
    <3> QED
      BY <3>2, <3>3 DEF Side
  <2> QED
    BY <1>7, <2>1, <2>2, WriterPuts, HandshakeStays
<1>8. ASSUME UNCHANGED <<cipher, check, id, status, stream>>
      PROVE  Handshake'
  BY <1>8, HandshakeStays
<1>9. \/ Accept \/ WriteValidation3 \/ ReadValidation1 \/ ReadValidation2 \/ ReadValidation3
      \/ ReadValidation4 \/ \E s \in Side : WriterSteps(s)
      \/ UNCHANGED <<cipher, check, id, status, stream>>
  BY DEF vars, checking, sending, Next, Validation, Connected, ValidationWritten, Poll,
     LinkDown, ChainFails, ReadHeader, ReadBody, Send, WriterFails, Shutdown, WriterSteps
<1> QED
  BY <1>1, <1>2, <1>3, <1>4, <1>5, <1>6, <1>7, <1>8, <1>9

-----------------------------------------------------------------------------
(* Messages on the streams.                                                 *)

\* What is written stays written.
LEMMA StreamKept ==
  ASSUME IInv, [Next]_vars
  PROVE  \A s \in Side :
            /\ Len(stream[s]) \in Nat /\ Len(stream'[s]) \in Nat
            /\ Len(stream[s]) <= Len(stream'[s])
            /\ \A i \in 1..Len(stream[s]) : stream'[s][i] = stream[s][i]
<1>0. StreamTypes /\ ControlTypes /\ CheckingTypes
  BY DEF IInv, TypeOK
<1> DEFINE Kept == \A s \in Side :
                      /\ Len(stream[s]) \in Nat /\ Len(stream'[s]) \in Nat
                      /\ Len(stream[s]) <= Len(stream'[s])
                      /\ \A i \in 1..Len(stream[s]) : stream'[s][i] = stream[s][i]
<1>1. CASE UNCHANGED stream
  BY <1>0, <1>1 DEF StreamTypes
<1>2. ASSUME NEW s \in Side, NEW w \in Words, Put(s, w)
      PROVE  Kept
  BY <1>0, <1>2, PutWord DEF StreamTypes
<1>3. ASSUME NEW s \in Side, WriterSteps(s)
      PROVE  Kept
  BY <1>1, <1>2, <1>3, WriterPuts
<1>4. CASE Accept
  BY <1>1, <1>2, <1>4, WordTypes DEF Accept, Side
<1>5. CASE WriteValidation3
  BY <1>0, <1>2, <1>5, WordTypes DEF WriteValidation3, CheckingTypes, Side
<1>6. CASE ReadValidation1
  BY <1>2, <1>6, ClientAnswers, WordTypes DEF Side
<1>7. CASE ReadValidation2
  BY <1>1, <1>2, <1>7, ServerJudges DEF Side
<1>8. \/ Accept \/ WriteValidation3 \/ ReadValidation1 \/ ReadValidation2
      \/ \E s \in Side : WriterSteps(s)
      \/ UNCHANGED stream
  BY DEF vars, sending, Next, Validation, Connected, ValidationWritten, ReadValidation3,
     ReadValidation4, Poll, LinkDown, ChainFails, ReadHeader, ReadBody, Send, WriterFails,
     Shutdown, WriterSteps
<1> QED
  BY <1>1, <1>3, <1>4, <1>5, <1>6, <1>7, <1>8

\* The word that must follow the first i words does not change.
LEMMA AfterKept ==
  ASSUME IInv, [Next]_vars, NEW s \in Side, NEW i \in Nat, i <= Len(stream[s])
  PROVE  After(s, i)' = After(s, i)
<1>1. ValidationEnds(s) \in {1, 3}
  BY DEF ValidationEnds
<1>2. i > ValidationEnds(s) => i \in 1..Len(stream[s])
  BY <1>1, StreamKept
<1>3. i > ValidationEnds(s) => stream'[s][i] = stream[s][i]
  BY <1>2, StreamKept
<1> QED
  BY <1>1, <1>3 DEF After

\* The word an end reads next is the one that must follow those it has read.
LEMMA ReadsDueWord ==
  ASSUME IInv, NEW s \in Side, Take(s), op[s] \in {"ReadHeader", "ReadBody"}
  PROVE  /\ nread[s] + 1 > ValidationEnds(Peer(s))
         /\ Received(s) = stream[Peer(s)][nread[s] + 1]
         /\ Received(s) = After(Peer(s), nread[s])
         /\ Received(s).n <= ran[Peer(s)]
         /\ After(Peer(s), nread[s] + 1) = NextMessageWord(Received(s))
<1>0. StreamTypes /\ ServerPhase /\ ClientPhase /\ StreamInStep(Peer(s)) /\ nread[s] \in Nat
  BY PeerType DEF IInv, TypeOK, StreamTypes
<1>1. nread[s] >= ValidationEnds(Peer(s)) /\ ValidationEnds(Peer(s)) \in Nat
  BY <1>0 DEF ServerPhase, ClientPhase, ValidationEnds, Peer, Side
<1>2. nread[s] + 1 \in 1..Len(stream[Peer(s)]) /\ nread[s] + 1 > ValidationEnds(Peer(s))
  BY <1>0, <1>1, TakeWord
<1>3. nread[s] + 1 - 1 = nread[s]
  BY <1>0
<1> QED
  BY <1>0, <1>1, <1>2, <1>3 DEF StreamInStep, Received, After

\* A word that is due keeps the stream in step.
LEMMA WritesDueWord ==
  ASSUME IInv, [Next]_vars, NEW s \in Side, NEW w \in Words, Put(s, w),
         Len(stream[s]) >= ValidationEnds(s), w = After(s, Len(stream[s])),
         ran[s] <= ran'[s], ran'[s] \in Nat, w.n <= ran'[s]
  PROVE  /\ StreamInStep(s)'
         /\ Len(stream'[s]) > ValidationEnds(s)
         /\ stream'[s][Len(stream'[s])] = w
<1>0. /\ StreamTypes /\ StreamInStep(s) /\ ran[s] \in Nat /\ ValidationEnds(s) \in Nat
      /\ Len(stream[s]) \in Nat
  BY DEF IInv, TypeOK, StreamTypes, SendingTypes, ValidationEnds
<1>1. /\ Len(stream'[s]) = Len(stream[s]) + 1
      /\ stream'[s][Len(stream[s]) + 1] = w
      /\ \A i \in 1..Len(stream[s]) : stream'[s][i] = stream[s][i]
  BY <1>0, PutWord DEF StreamTypes
<1>2. ASSUME NEW i \in 1..Len(stream'[s]), i > ValidationEnds(s)
      PROVE  stream'[s][i] = After(s, i - 1)' /\ stream'[s][i].n <= ran'[s]
  <2>1. i - 1 \in Nat /\ i - 1 <= Len(stream[s])
    BY <1>0, <1>1
  <2>2. After(s, i - 1)' = After(s, i - 1)
    BY <2>1, AfterKept
  <2>3. CASE i = Len(stream[s]) + 1
    <3>1. i - 1 = Len(stream[s])
      BY <1>0, <2>3
    <3> QED
      BY <1>1, <2>2, <2>3, <3>1
  <2>4. CASE i # Len(stream[s]) + 1
    <3>1. i \in 1..Len(stream[s])
      BY <1>0, <1>1, <2>4
    <3>2. stream[s][i] = After(s, i - 1) /\ stream[s][i].n <= ran[s]
      BY <1>0, <1>2, <3>1 DEF StreamInStep
    <3>3. stream[s][i].n \in Nat
      <4>1. stream[s][i] \in Words
        BY <1>0, <3>1 DEF StreamTypes
      <4>2. stream[s][i].kind # "val"
        BY <3>2 DEF After, NextMessageWord, Hdr, Body
      <4> QED
        BY <4>1, <4>2 DEF Words
    <3> QED
      BY <1>0, <1>1, <2>2, <3>1, <3>2, <3>3
  <2> QED
    BY <2>3, <2>4
<1> QED
  BY <1>0, <1>1, <1>2 DEF StreamInStep

\* An end that has a message to write has the exchange behind it.
LEMMA WriterAfterExchange ==
  ASSUME IInv, NEW s \in Side, sent[s] > 0
  PROVE  Len(stream[s]) >= ValidationEnds(s) /\ op[s] # "Connect"
<1>1. ServerPhase /\ ClientPhase
  BY DEF IInv
<1>2. CASE s = "Server"
  BY <1>1, <1>2 DEF ServerPhase, ValidationEnds
<1>3. CASE s = "Client"
  BY <1>1, <1>3 DEF ClientPhase, ValidationEnds
<1> QED
  BY <1>2, <1>3 DEF Side

\* Before it is over, no message has been posted.
LEMMA NoWriterInExchange ==
  ASSUME IInv, NEW s \in Side, sent[s] = 0
  PROVE  ran[s] = 0 /\ wr[s] = "Idle" /\ outgoing[s] = <<>>
<1>1. SendingTypes /\ WriterInStep(s) /\ WriterBusyIffQueued
  BY DEF IInv, TypeOK
<1>2. ran[s] = 0
  BY <1>1 DEF SendingTypes
<1>3. Len(outgoing[s]) \in Nat /\ Len(outgoing[s]) <= 0
  BY <1>1, <1>2 DEF SendingTypes, WriterInStep, LastPosted
<1>4. outgoing[s] = <<>>
  BY <1>1, <1>3 DEF SendingTypes
<1> QED
  BY <1>1, <1>2, <1>4 DEF WriterBusyIffQueued

\* The lambda of Send.
LEMMA LambdaInStep ==
  ASSUME IInv, [Next]_vars, NEW s \in Side, SendLambda(s)
  PROVE  StreamInStep(s)' /\ WriterInStep(s)'
<1>0. /\ SendingTypes /\ StreamTypes /\ WriterBusyIffQueued /\ WriterInStep(s) /\ StreamInStep(s)
      /\ ran[s] \in Nat /\ Len(stream[s]) \in Nat /\ outgoing[s] \in Seq(Nat \ {0})
  BY DEF IInv, TypeOK, SendingTypes, StreamTypes
<1>1. ran'[s] = ran[s] + 1 /\ ran'[s] \in Nat \ {0} /\ outgoing'[s] = Append(outgoing[s], ran'[s])
  BY <1>0 DEF SendLambda, SendingTypes
<1>2. Len(stream[s]) >= ValidationEnds(s) /\ op[s] # "Connect"
  <2>1. sent[s] > 0
    BY WriterPuts DEF WriterSteps
  <2> QED
    BY <2>1, WriterAfterExchange
<1>3. CASE outgoing[s] = <<>>
  <2>1. outgoing'[s] = <<ran'[s]>> /\ Head(outgoing'[s]) = ran'[s]
    BY <1>1, <1>3
  <2>2. Put(s, Hdr(ran'[s])) /\ wr' = [wr EXCEPT ![s] = "WriteHeader"]
    BY <1>2, <1>3, <2>1 DEF SendLambda, StartWrite
  <2>3. Hdr(ran'[s]) = After(s, Len(stream[s]))
    BY <1>0, <1>1, <1>3 DEF WriterInStep, WriterBusyIffQueued
  <2>4. Hdr(ran'[s]) \in Words /\ Hdr(ran'[s]).n = ran'[s]
    BY <1>1, WordTypes DEF Hdr
  <2>5. /\ StreamInStep(s)' /\ Len(stream'[s]) > ValidationEnds(s)
        /\ stream'[s][Len(stream'[s])] = Hdr(ran'[s])
    BY <1>0, <1>1, <1>2, <2>2, <2>3, <2>4, WritesDueWord
  <2>6. wr'[s] = "WriteHeader"
    BY <1>0, <2>2 DEF SendingTypes
  <2>7. LastPosted(outgoing'[s], ran'[s])
    BY <1>0, <1>1, PostedOps DEF WriterInStep
  <2> QED
    BY <2>1, <2>5, <2>6, <2>7 DEF WriterInStep
<1>4. CASE outgoing[s] # <<>>
  <2>1. UNCHANGED <<wr, stream>>
    BY <1>4 DEF SendLambda
  <2>2. StreamInStep(s)'
    <3>1. ASSUME NEW i \in 1..Len(stream[s]), i > ValidationEnds(s)
          PROVE  stream[s][i] = After(s, i - 1)' /\ stream[s][i].n <= ran'[s]
      <4>1. stream[s][i] = After(s, i - 1) /\ stream[s][i].n <= ran[s]
        BY <1>0, <3>1 DEF StreamInStep
      <4>2. After(s, i - 1)' = After(s, i - 1)
        BY <2>1 DEF After
      <4>3. stream[s][i].n \in Nat
        <5>1. stream[s][i] \in Words
          BY <1>0 DEF StreamTypes
        <5>2. stream[s][i].kind # "val"
          BY <4>1 DEF After, NextMessageWord, Hdr, Body
        <5> QED
          BY <5>1, <5>2 DEF Words
      <4> QED
        BY <1>0, <1>1, <4>1, <4>2, <4>3
    <3> QED
      BY <2>1, <3>1 DEF StreamInStep
  <2>3. LastPosted(outgoing'[s], ran'[s]) /\ Head(outgoing'[s]) = Head(outgoing[s])
    BY <1>0, <1>1, <1>4, PostedOps DEF WriterInStep
  <2>6. wr[s] # "Idle"
    BY <1>0, <1>4 DEF WriterBusyIffQueued
  <2> QED
    BY <1>0, <2>1, <2>2, <2>3, <2>6 DEF WriterInStep
<1> QED
  BY <1>3, <1>4

\* A message is written: its successor is due.
LEMMA FinishInStep ==
  ASSUME IInv, [Next]_vars, NEW s \in Side, FinishMessage(s), outgoing[s] # <<>>, UNCHANGED ran,
         After(s, Len(stream[s])) = Hdr(Head(outgoing[s]) + 1)
  PROVE  StreamInStep(s)' /\ WriterInStep(s)'
<1>0. /\ SendingTypes /\ StreamTypes /\ WriterBusyIffQueued /\ WriterInStep(s) /\ StreamInStep(s)
      /\ ran[s] \in Nat /\ Len(stream[s]) \in Nat /\ outgoing[s] \in Seq(Nat \ {0})
  BY DEF IInv, TypeOK, SendingTypes, StreamTypes
<1>1. Len(outgoing[s]) > 0 /\ Len(outgoing[s]) <= ran[s] /\ LastPosted(outgoing[s], ran[s])
  BY <1>0 DEF WriterInStep, LastPosted
<1>2. Len(stream[s]) >= ValidationEnds(s) /\ op[s] # "Connect"
  <2>1. sent[s] > 0
    BY <1>0, <1>1 DEF SendingTypes
  <2> QED
    BY <2>1, WriterAfterExchange
<1>3. outgoing'[s] = Tail(outgoing[s]) /\ outgoing'[s] \in Seq(Nat \ {0})
  BY <1>0 DEF FinishMessage, SendingTypes
<1>4. LastPosted(outgoing'[s], ran[s])
  BY <1>0, <1>1, <1>3, PostedOps
<1>5. CASE outgoing'[s] = <<>>
  <2>1. wr' = [wr EXCEPT ![s] = "Idle"] /\ UNCHANGED stream
    BY <1>5 DEF FinishMessage
  <2>2. Head(outgoing[s]) = ran[s]
    BY <1>0, <1>1, <1>3, <1>5, PostedOps
  <2>3. StreamInStep(s)'
    BY <1>0, <2>1 DEF StreamInStep, After
  <2>4. After(s, Len(stream[s]))' = Hdr(ran[s] + 1)
    BY <2>1, <2>2 DEF After
  <2>5. wr'[s] = "Idle"
    BY <1>0, <2>1 DEF SendingTypes
  <2> QED
    BY <1>4, <2>1, <2>3, <2>4, <2>5 DEF WriterInStep
<1>6. CASE outgoing'[s] # <<>>
  <2>1. Head(outgoing'[s]) = Head(outgoing[s]) + 1
    BY <1>0, <1>1, <1>3, <1>6, PostedOps
  <2>2. Head(outgoing'[s]) \in Nat /\ Head(outgoing'[s]) <= ran[s]
    BY <1>0, <1>3, <1>4, <1>6, PostedOps, QueueOps
  <2>3. Put(s, Hdr(Head(outgoing'[s]))) /\ wr' = [wr EXCEPT ![s] = "WriteHeader"]
    BY <1>2, <1>6 DEF FinishMessage, StartWrite
  <2>4. Hdr(Head(outgoing'[s])) \in Words /\ Hdr(Head(outgoing'[s])).n = Head(outgoing'[s])
    BY <2>2, WordTypes DEF Hdr
  <2>5. /\ StreamInStep(s)' /\ Len(stream'[s]) > ValidationEnds(s)
        /\ stream'[s][Len(stream'[s])] = Hdr(Head(outgoing'[s]))
    BY <1>0, <1>2, <2>1, <2>2, <2>3, <2>4, WritesDueWord
  <2>6. wr'[s] = "WriteHeader"
    BY <1>0, <2>3 DEF SendingTypes
  <2> QED
    BY <1>4, <2>5, <2>6 DEF WriterInStep
<1> QED
  BY <1>5, <1>6

\* The handlers of the writer.
LEMMA WriterNext ==
  ASSUME IInv, [Next]_vars, NEW s \in Side, WriterSteps(s)
  PROVE  StreamInStep(s)' /\ WriterInStep(s)'
<1>0. /\ SendingTypes /\ StreamTypes /\ WriterBusyIffQueued /\ WriterInStep(s)
      /\ ran[s] \in Nat /\ Len(stream[s]) \in Nat /\ outgoing[s] \in Seq(Nat \ {0})
  BY DEF IInv, TypeOK, SendingTypes, StreamTypes
<1>1. ASSUME WriteHeader(s) \/ WriteBody(s)
      PROVE  /\ outgoing[s] # <<>> /\ Head(outgoing[s]) \in Nat /\ Head(outgoing[s]) <= ran[s]
             /\ Len(stream[s]) > ValidationEnds(s)
             /\ UNCHANGED ran
  <2>1. outgoing[s] # <<>>
    BY <1>0, <1>1 DEF WriteHeader, WriteBody, WriterBusyIffQueued
  <2>2. Head(outgoing[s]) \in Nat /\ Head(outgoing[s]) <= ran[s]
    BY <1>0, <2>1, PostedOps, QueueOps DEF WriterInStep
  <2>3. Len(stream[s]) > ValidationEnds(s)
    BY <1>0, <1>1 DEF WriteHeader, WriteBody, WriterInStep
  <2> QED
    BY <1>1, <2>1, <2>2, <2>3 DEF WriteHeader, WriteBody
<1>2. CASE WriteHeader(s)
  <2>1. stream[s][Len(stream[s])] = Hdr(Head(outgoing[s]))
    BY <1>0, <1>2 DEF WriteHeader, WriterInStep
  <2>2. After(s, Len(stream[s])) = NextMessageWord(Hdr(Head(outgoing[s])))
    <3>1. ~(Len(stream[s]) <= ValidationEnds(s))
      BY <1>0, <1>1, <1>2 DEF ValidationEnds
    <3> QED
      BY <2>1, <3>1 DEF After
  <2>3. CASE Head(outgoing[s]) \in BodyMsgs
    <3>1. op[s] # "Connect"
      <4>1. sent[s] > 0
        BY <1>2, WriterPuts DEF WriterSteps
      <4> QED
        BY <4>1, WriterAfterExchange
    <3>2. /\ Put(s, Body(Head(outgoing[s]))) /\ wr' = [wr EXCEPT ![s] = "WriteBody"]
          /\ UNCHANGED outgoing
      BY <1>2, <2>3, <3>1 DEF WriteHeader, StartWrite
    <3>3. Body(Head(outgoing[s])) = After(s, Len(stream[s]))
      BY <2>2, <2>3 DEF NextMessageWord, Hdr
    <3>4. Body(Head(outgoing[s])) \in Words /\ Body(Head(outgoing[s])).n = Head(outgoing[s])
      BY <1>1, <1>2, WordTypes DEF Body
    <3>5. ran[s] <= ran'[s] /\ ran'[s] \in Nat /\ Head(outgoing[s]) <= ran'[s]
          /\ Len(stream[s]) >= ValidationEnds(s)
      BY <1>0, <1>1, <1>2 DEF ValidationEnds
    <3>6. /\ StreamInStep(s)' /\ Len(stream'[s]) > ValidationEnds(s)
          /\ stream'[s][Len(stream'[s])] = Body(Head(outgoing[s]))
      BY <3>2, <3>3, <3>4, <3>5, WritesDueWord
    <3>7. wr'[s] = "WriteBody"
      BY <1>0, <3>2 DEF SendingTypes
    <3>8. LastPosted(outgoing'[s], ran'[s])
      BY <1>0, <1>1, <1>2, <3>2 DEF WriterInStep
    <3> QED
      BY <3>2, <3>6, <3>7, <3>8 DEF WriterInStep
  <2>4. CASE Head(outgoing[s]) \notin BodyMsgs
    <3>1. After(s, Len(stream[s])) = Hdr(Head(outgoing[s]) + 1)
      BY <2>2, <2>4 DEF NextMessageWord, Hdr
    <3>2. FinishMessage(s)
      BY <1>2, <2>4 DEF WriteHeader
    <3> QED
      BY <1>1, <1>2, <3>1, <3>2, FinishInStep
  <2> QED
    BY <2>3, <2>4
<1>3. CASE WriteBody(s)
  <2>1. stream[s][Len(stream[s])] = Body(Head(outgoing[s]))
    BY <1>0, <1>3 DEF WriteBody, WriterInStep
  <2>2. After(s, Len(stream[s])) = NextMessageWord(Body(Head(outgoing[s])))
    <3>1. ~(Len(stream[s]) <= ValidationEnds(s))
      BY <1>0, <1>1, <1>3 DEF ValidationEnds
    <3> QED
      BY <2>1, <3>1 DEF After
  <2>3. After(s, Len(stream[s])) = Hdr(Head(outgoing[s]) + 1)
    BY <2>2 DEF NextMessageWord, Body
  <2>4. FinishMessage(s)
    BY <1>3 DEF WriteBody
  <2> QED
    BY <1>1, <1>3, <2>3, <2>4, FinishInStep
<1>4. CASE SendLambda(s)
  BY <1>4, LambdaInStep
<1> QED
  BY <1>2, <1>3, <1>4 DEF WriterSteps

\* A step in which s neither writes nor moves its writer.
LEMMA WriterRests ==
  ASSUME IInv, [Next]_vars, NEW s \in Side, stream'[s] = stream[s], ran'[s] = ran[s],
         outgoing'[s] = outgoing[s], wr'[s] = wr[s] \/ wr'[s] = "Failed"
  PROVE  StreamInStep(s)' /\ WriterInStep(s)'
<1>1. StreamInStep(s) /\ WriterInStep(s)
  BY DEF IInv
<1>2. StreamInStep(s)'
  BY <1>1 DEF StreamInStep, After
<1>3. \A i \in Nat : After(s, i)' = After(s, i)
  BY DEF After
<1>4. Len(stream[s]) \in Nat
  BY StreamKept
<1>5. After(s, Len(stream[s]))' = After(s, Len(stream[s]))
  BY <1>3, <1>4
<1>6. WriterInStep(s)'
  BY <1>1, <1>4, <1>5 DEF WriterInStep
<1> QED
  BY <1>2, <1>6

\* A step that writes a word of the exchange.
LEMMA ExchangeWrites ==
  ASSUME IInv, [Next]_vars, NEW s \in Side, NEW w \in Words, Put(s, w),
         sent[s] = 0, Len(stream[s]) + 1 <= ValidationEnds(s),
         UNCHANGED <<ran, outgoing, wr>>
  PROVE  StreamInStep(s)' /\ WriterInStep(s)'
<1>0. StreamTypes /\ WriterInStep(s) /\ Len(stream[s]) \in Nat /\ ValidationEnds(s) \in Nat
  BY DEF IInv, TypeOK, StreamTypes, ValidationEnds
<1>1. ran[s] = 0 /\ wr[s] = "Idle" /\ outgoing[s] = <<>>
  BY NoWriterInExchange
<1>2. Len(stream'[s]) = Len(stream[s]) + 1
  BY <1>0, PutWord DEF StreamTypes
<1>3. Len(stream'[s]) <= ValidationEnds(s) /\ Len(stream'[s]) \in Nat
  BY <1>0, <1>2
<1>4. StreamInStep(s)'
  BY <1>0, <1>3 DEF StreamInStep
<1>5. After(s, Len(stream[s]))' = Hdr(1)
  BY <1>3 DEF After
<1>6. WriterInStep(s)'
  BY <1>0, <1>1, <1>5 DEF WriterInStep
<1> QED
  BY <1>4, <1>6

LEMMA StreamsNext ==
  ASSUME IInv, ~EarlySends, [Next]_vars
  PROVE  \A s \in Side : StreamInStep(s)' /\ WriterInStep(s)'
<1>0. /\ Base /\ StreamTypes /\ ControlTypes /\ CheckingTypes /\ SendingTypes /\ ServerPhase /\ ClientPhase
      /\ sent["Server"] \in Nat /\ sent["Client"] \in Nat
  BY DEF IInv, TypeOK, Base, SendingTypes, Side
<1> DEFINE Rests(s) == /\ stream'[s] = stream[s] /\ ran'[s] = ran[s]
                       /\ outgoing'[s] = outgoing[s]
                       /\ wr'[s] = wr[s] \/ wr'[s] = "Failed"
           InStep(s) == StreamInStep(s)' /\ WriterInStep(s)'
           AllInStep == \A t \in Side : InStep(t)
<1>1. ASSUME NEW s \in Side, Rests(s)
      PROVE  InStep(s)
  BY <1>1, WriterRests
<1>2. ASSUME NEW s \in Side, NEW w \in Words, Put(s, w), NEW t \in Side, t # s,
             UNCHANGED <<ran, outgoing, wr>>
      PROVE  Rests(t)
  BY <1>0, <1>2, PutWord DEF StreamTypes
<1>3. ASSUME NEW s \in Side, NEW w \in Words, Put(s, w), sent[s] = 0,
             Len(stream[s]) + 1 <= ValidationEnds(s), UNCHANGED <<ran, outgoing, wr>>
      PROVE  AllInStep
  <2>1. InStep(s)
    BY <1>3, ExchangeWrites
  <2>2. ASSUME NEW t \in Side, t # s
        PROVE  InStep(t)
    <3>1. Rests(t)
      BY <1>2, <1>3, <2>2
    <3> QED
      BY <1>1, <3>1
  <2> QED
    BY <2>1, <2>2
<1>4. ASSUME UNCHANGED <<stream, ran, outgoing, wr>>
      PROVE  AllInStep
  <2>1. \A t \in Side : Rests(t)
    BY <1>4
  <2> QED
    BY <1>1, <2>1
<1>5. ASSUME NEW s \in Side, WriterSteps(s)
      PROVE  AllInStep
  <2>1. InStep(s)
    BY <1>5, WriterNext
  <2>2. ASSUME NEW t \in Side, t # s
        PROVE  Rests(t)
    <3>1. stream'[t] = stream[t]
      BY <1>5, <2>2, WriterPuts
    <3>2. ran'[t] = ran[t] /\ outgoing'[t] = outgoing[t] /\ wr'[t] = wr[t]
      BY <1>0, <1>5, <2>2 DEF WriterSteps, SendLambda, WriteHeader, WriteBody, FinishMessage,
         StartWrite, SendingTypes
    <3> QED
      BY <3>1, <3>2
  <2>3. ASSUME NEW t \in Side, t # s
        PROVE  InStep(t)
    BY <1>1, <2>2, <2>3
  <2> QED
    BY <2>1, <2>3
<1>6. ASSUME NEW s \in Side, WriterFails(s)
      PROVE  AllInStep
  <2>1. \A t \in Side : Rests(t)
    BY <1>0, <1>6 DEF WriterFails, SendingTypes
  <2> QED
    BY <1>1, <2>1
<1>7. ASSUME Accept PROVE AllInStep
  <2>1. UNCHANGED <<ran, outgoing, wr>>
    BY <1>7 DEF Accept, sending
  <2>2. Len(stream["Server"]) = 0 /\ sent["Server"] = 0
    BY <1>0, <1>7 DEF Accept, ServerPhase
  <2>3. Len(stream["Server"]) + 1 <= ValidationEnds("Server") /\ "Server" \in Side
    BY <2>2 DEF ValidationEnds, Side
  <2>4. ASSUME NEW now \in Data, Put("Server", Val(now))
        PROVE  AllInStep
    <3>1. Val(now) \in Words
      BY WordTypes
    <3> QED
      BY <1>3, <2>1, <2>2, <2>3, <2>4, <3>1
  <2>5. UNCHANGED stream \/ \E now \in Data : Put("Server", Val(now))
    BY <1>7 DEF Accept
  <2> QED
    BY <1>4, <2>1, <2>4, <2>5
<1>8. ASSUME WriteValidation3 PROVE AllInStep
  <2>1. UNCHANGED <<ran, outgoing, wr>> /\ Put("Server", IDOf(id["Server"]))
    BY <1>8 DEF WriteValidation3, sending
  <2>2. Len(stream["Server"]) = 2 /\ sent["Server"] = 0
    BY <1>0, <1>8 DEF WriteValidation3, Pending, ServerPhase
  <2>3. Len(stream["Server"]) + 1 <= ValidationEnds("Server") /\ "Server" \in Side
    BY <2>2 DEF ValidationEnds, Side
  <2>4. IDOf(id["Server"]) \in Words
    BY <1>0, <2>3, WordTypes DEF CheckingTypes
  <2> QED
    BY <1>3, <2>1, <2>2, <2>3, <2>4
<1>9. ASSUME ReadValidation1 PROVE AllInStep
  <2>1. UNCHANGED <<ran, outgoing, wr>>
    BY <1>9 DEF ReadValidation1, sending
  <2>2. Len(stream["Client"]) = 0 /\ sent["Client"] = 0
    BY <1>0, <1>9 DEF ReadValidation1, Pending, ClientPhase
  <2>3. Len(stream["Client"]) + 1 <= ValidationEnds("Client") /\ "Client" \in Side
    BY <2>2 DEF ValidationEnds, Side
  <2>4. PICK w \in Words : Put("Client", w)
    BY <1>9, ClientAnswers, WordTypes
  <2> QED
    BY <1>3, <2>1, <2>2, <2>3, <2>4
<1>10. ASSUME ReadValidation2 PROVE AllInStep
  <2>1. UNCHANGED <<ran, outgoing, wr>>
    BY <1>10 DEF ReadValidation2
  <2>2. Len(stream["Server"]) = 1 /\ sent["Server"] = 0
    BY <1>0, <1>10 DEF ReadValidation2, Pending, ServerPhase
  <2>3. Len(stream["Server"]) + 1 <= ValidationEnds("Server") /\ "Server" \in Side
    BY <2>2 DEF ValidationEnds, Side
  <2>4. UNCHANGED stream \/ \E w \in Words : Put("Server", w)
    BY <1>10, ServerJudges
  <2>5. ASSUME NEW w \in Words, Put("Server", w)
        PROVE  AllInStep
    BY <1>3, <2>1, <2>2, <2>3, <2>5
  <2> QED
    BY <1>4, <2>1, <2>4, <2>5
<1>11. \/ Accept \/ WriteValidation3 \/ ReadValidation1 \/ ReadValidation2
       \/ \E s \in Side : WriterSteps(s) \/ WriterFails(s)
       \/ UNCHANGED <<stream, ran, outgoing, wr>>
  BY DEF vars, sending, Next, Validation, Connected, ValidationWritten, ReadValidation3,
     ReadValidation4, Poll, LinkDown, ChainFails, ReadHeader, ReadBody, Send, Shutdown, WriterSteps
<1> HIDE DEF AllInStep
<1>12. AllInStep
  BY <1>4, <1>5, <1>6, <1>7, <1>8, <1>9, <1>10, <1>11
<1> QED
  BY <1>12 DEF AllInStep

-----------------------------------------------------------------------------
(* Reading messages.                                                        *)

LEMMA RanGrows ==
  ASSUME IInv, [Next]_vars
  PROVE  \A s \in Side : ran[s] \in Nat /\ ran'[s] \in Nat /\ ran[s] <= ran'[s]
<1>0. SendingTypes
  BY DEF IInv, TypeOK
<1>1. ASSUME NEW s \in Side, SendLambda(s)
      PROVE  ran' = [ran EXCEPT ![s] = @ + 1]
  BY <1>1 DEF SendLambda
<1>2. UNCHANGED ran \/ \E s \in Side : SendLambda(s)
  BY DEF vars, sending, Next, Validation, Accept, Connected, ValidationWritten, WriteValidation3,
     ReadValidation1, ReadValidation2, ReadValidation3, ReadValidation4, Poll, LinkDown, ChainFails,
     ReadHeader, ReadBody, Send, WriteHeader, WriteBody, WriterFails, Shutdown
<1>3. ASSUME NEW s \in Side, SendLambda(s), NEW t \in Side
      PROVE  ran[t] \in Nat /\ ran'[t] \in Nat /\ ran[t] <= ran'[t]
  <2>1. ran[t] \in Nat /\ ran[s] \in Nat /\ ran'[t] = IF t = s THEN ran[s] + 1 ELSE ran[t]
    BY <1>0, <1>1, <1>3 DEF SendingTypes
  <2> QED
    BY <2>1
<1>4. ASSUME UNCHANGED ran
      PROVE  \A s \in Side : ran[s] \in Nat /\ ran'[s] \in Nat /\ ran[s] <= ran'[s]
  BY <1>0, <1>4 DEF SendingTypes
<1> QED
  BY <1>2, <1>3, <1>4

\* A step in which s takes no word of a message.
LEMMA ReaderRests ==
  ASSUME IInv, [Next]_vars, NEW s \in Side, incoming'[s] = incoming[s],
         \/ op'[s] = op[s] /\ nread'[s] = nread[s] /\ temp'[s] = temp[s]
         \/ op'[s] \notin {"ReadHeader", "ReadBody"} /\ op[s] \notin {"ReadHeader", "ReadBody", "Stopped"}
         \/ op'[s] = "Stopped"
  PROVE  ReaderInStep(s)'
<1> DEFINE p == Peer(s)
<1>0. /\ ReaderInStep(s) /\ p \in Side /\ StreamTypes /\ nread[s] \in Nat /\ Len(incoming[s]) \in Nat
      /\ nread[s] <= Len(stream[p]) /\ ValidationEnds(p) \in Nat
  <2>1. ReaderInStep(s) /\ p \in Side /\ StreamTypes /\ QueueTypes
    BY PeerType DEF IInv, TypeOK
  <2>2. ValidationEnds(p) \in Nat
    BY DEF ValidationEnds
  <2>3. Len(incoming[s]) \in Nat
    BY <2>1 DEF QueueTypes
  <2> QED
    BY <2>1, <2>2, <2>3 DEF StreamTypes
<1> HIDE DEF p
<1>1. /\ Len(incoming'[s]) <= ran'[p]
      /\ \A i \in 1..Len(incoming'[s]) : incoming'[s][i] = i
  <2>1. Len(incoming[s]) <= ran[p] /\ \A i \in 1..Len(incoming[s]) : incoming[s][i] = i
    BY <1>0 DEF ReaderInStep, p
  <2>2. ran[p] \in Nat /\ ran'[p] \in Nat /\ ran[p] <= ran'[p]
    BY <1>0, RanGrows
  <2> QED
    BY <1>0, <2>1, <2>2
<1>2. CASE op'[s] = op[s] /\ nread'[s] = nread[s] /\ temp'[s] = temp[s]
  <2>1. After(p, nread[s])' = After(p, nread[s])'
    OBVIOUS
  <2>2. op[s] = "ReadHeader" => After(p, nread[s]) = Hdr(Len(incoming[s]) + 1)
    BY <1>0 DEF ReaderInStep, p
  <2>3. \A i \in Nat : i <= Len(stream[p]) => After(p, i)' = After(p, i)
    BY <1>0, AfterKept
  <2>4. op'[s] = "ReadHeader" => After(p, nread[s])' = Hdr(Len(incoming'[s]) + 1)
    <3>1. ASSUME NEW i \in Nat, i = nread[s]
          PROVE  After(p, i)' = After(p, nread[s])
      BY <1>0, <2>3, <3>1
    <3> QED
      BY <1>0, <1>2, <2>2, <3>1 DEF After
  <2>5. op[s] = "ReadBody" =>
              /\ nread[s] > ValidationEnds(p)
              /\ stream[p][nread[s]] = Hdr(Len(incoming[s]) + 1)
              /\ temp[s] = Len(incoming[s]) + 1
              /\ temp[s] \in BodyMsgs
    BY <1>0 DEF ReaderInStep, p
  <2>6. nread[s] > ValidationEnds(p) => stream'[p][nread[s]] = stream[p][nread[s]]
    BY <1>0, StreamKept
  <2>7. op[s] \notin {"ReadHeader", "ReadBody", "Stopped"} => incoming[s] = <<>>
    BY <1>0 DEF ReaderInStep
  <2> QED
    BY <1>1, <1>2, <2>4, <2>5, <2>6, <2>7 DEF ReaderInStep, p
<1>3. CASE /\ op'[s] \notin {"ReadHeader", "ReadBody"}
           /\ op[s] \notin {"ReadHeader", "ReadBody", "Stopped"}
  BY <1>0, <1>1, <1>3 DEF ReaderInStep, p
<1>4. CASE op'[s] = "Stopped"
  BY <1>1, <1>4 DEF ReaderInStep, p
<1> QED
  BY <1>2, <1>3, <1>4

\* A message is complete: the header of the next is due.
LEMMA MessageComplete ==
  ASSUME IInv, [Next]_vars, NEW s \in Side, Take(s), op[s] \in {"ReadHeader", "ReadBody"},
         UNCHANGED stream,
         AddToIncomingMessageQueue(s, Len(incoming[s]) + 1),
         Received(s).n = Len(incoming[s]) + 1,
         NextMessageWord(Received(s)) = Hdr(Len(incoming[s]) + 2)
  PROVE  ReaderInStep(s)'
<1> DEFINE p == Peer(s)
           n == Len(incoming[s])
<1>0. /\ ReaderInStep(s) /\ p \in Side /\ StreamTypes /\ QueueTypes /\ ControlTypes /\ nread[s] \in Nat
      /\ n \in Nat
  <2>1. ReaderInStep(s) /\ p \in Side /\ StreamTypes /\ QueueTypes /\ ControlTypes
    BY PeerType DEF IInv, TypeOK
  <2>2. n \in Nat
    BY <2>1 DEF QueueTypes
  <2> QED
    BY <2>1, <2>2 DEF StreamTypes
<1>1. incoming'[s] = Append(incoming[s], n + 1) /\ op'[s] = "ReadHeader"
  BY <1>0 DEF AddToIncomingMessageQueue, Goto, QueueTypes, ControlTypes
<1>2. /\ Len(incoming'[s]) = n + 1 /\ incoming'[s][n + 1] = n + 1
      /\ \A i \in 1..n : incoming'[s][i] = incoming[s][i]
  BY <1>0, <1>1 DEF QueueTypes
<1>3. nread'[s] = nread[s] + 1
  BY <1>0 DEF Take, StreamTypes
<1>4. After(p, nread[s] + 1) = Hdr(n + 2) /\ n + 1 <= ran[p]
  BY ReadsDueWord
<1>5. After(p, nread[s] + 1)' = After(p, nread[s] + 1)'
  OBVIOUS
<1>6. /\ \A i \in 1..n : incoming[s][i] = i
      /\ ran[p] \in Nat /\ ran'[p] \in Nat /\ ran[p] <= ran'[p]
  BY <1>0, RanGrows DEF ReaderInStep
<1>7. n + 1 <= ran'[p]
  BY <1>0, <1>4, <1>6
<1>8. \A i \in 1..(n + 1) : incoming'[s][i] = i
  BY <1>0, <1>2, <1>6
<1>9. After(p, nread[s])' = Hdr(n + 2)
  BY <1>3, <1>4 DEF After
<1>10. (n + 1) + 1 = n + 2
  BY <1>0
<1> HIDE DEF n
<1>11. Len(incoming'[s]) + 1 = n + 2
  BY <1>0, <1>2
<1> QED
  BY <1>1, <1>2, <1>7, <1>8, <1>9, <1>11 DEF ReaderInStep

LEMMA ReadHeaderInStep ==
  ASSUME IInv, [Next]_vars, NEW s \in Side, ReadHeader(s)
  PROVE  ReaderInStep(s)'
<1> DEFINE p == Peer(s)
           k == Len(incoming[s]) + 1
<1>0. /\ ReaderInStep(s) /\ p \in Side /\ StreamTypes /\ QueueTypes /\ ControlTypes /\ nread[s] \in Nat
      /\ Len(incoming[s]) \in Nat
  <2>1. ReaderInStep(s) /\ p \in Side /\ StreamTypes /\ QueueTypes /\ ControlTypes
    BY PeerType DEF IInv, TypeOK
  <2>2. Len(incoming[s]) \in Nat
    BY <2>1 DEF QueueTypes
  <2> QED
    BY <2>1, <2>2 DEF StreamTypes
<1>1. Take(s) /\ op[s] = "ReadHeader" /\ UNCHANGED stream
  BY DEF ReadHeader, Pending
<1>2. Received(s) = Hdr(k)
  <2>1. Received(s) = After(p, nread[s])
    BY <1>1, ReadsDueWord
  <2>2. After(p, nread[s]) = Hdr(k)
    BY <1>0, <1>1 DEF ReaderInStep
  <2> QED
    BY <2>1, <2>2
<1>3. /\ AsMessage(Received(s)) = k /\ Received(s).n = k
      /\ HasBody(Received(s)) <=> k \in BodyMsgs
      /\ HasNoBody(Received(s)) <=> k \notin BodyMsgs
  <2>1. Hdr(k).kind = "hdr" /\ Hdr(k).n = k
    BY DEF Hdr
  <2>2. AsMessage(Hdr(k)) = k
    BY <2>1 DEF AsMessage
  <2>3. HasBody(Hdr(k)) <=> k \in BodyMsgs
    BY <2>1 DEF HasBody
  <2>4. HasNoBody(Hdr(k)) <=> k \notin BodyMsgs
    BY <2>1 DEF HasNoBody
  <2> HIDE DEF k
  <2> QED
    BY <1>2, <2>1, <2>2, <2>3, <2>4
<1>4. CASE k \in BodyMsgs
  <2>1. temp' = [temp EXCEPT ![s] = k] /\ Goto(s, "ReadBody") /\ UNCHANGED incoming
    BY <1>3, <1>4 DEF ReadHeader
  <2>2. temp'[s] = k /\ op'[s] = "ReadBody" /\ incoming'[s] = incoming[s]
    BY <1>0, <2>1 DEF QueueTypes, ControlTypes, Goto
  <2>3. nread'[s] = nread[s] + 1
    BY <1>0, <1>1 DEF Take, StreamTypes
  <2>4. nread'[s] > ValidationEnds(p) /\ stream'[p][nread'[s]] = Hdr(k)
    BY <1>1, <1>2, <2>3, ReadsDueWord
  <2>5. /\ \A i \in 1..Len(incoming[s]) : incoming[s][i] = i
        /\ Len(incoming[s]) <= ran'[p]
    <3>1. /\ \A i \in 1..Len(incoming[s]) : incoming[s][i] = i
          /\ Len(incoming[s]) <= ran[p]
      BY <1>0 DEF ReaderInStep
    <3>2. ran[p] \in Nat /\ ran'[p] \in Nat /\ ran[p] <= ran'[p]
      BY <1>0, RanGrows
    <3> QED
      BY <1>0, <3>1, <3>2
  <2> QED
    BY <1>4, <2>2, <2>4, <2>5 DEF ReaderInStep
<1>5. CASE k \notin BodyMsgs
  <2>1. AddToIncomingMessageQueue(s, k)
    BY <1>3, <1>5 DEF ReadHeader
  <2>2. NextMessageWord(Received(s)) = Hdr(Len(incoming[s]) + 2)
    <3>1. NextMessageWord(Received(s)) = Hdr(k + 1)
      BY <1>2, <1>5 DEF NextMessageWord, Hdr
    <3>2. k + 1 = Len(incoming[s]) + 2
      BY <1>0
    <3> QED
      BY <3>1, <3>2
  <2> QED
    BY <1>1, <1>3, <2>1, <2>2, MessageComplete
<1> QED
  BY <1>4, <1>5

LEMMA ReadBodyInStep ==
  ASSUME IInv, [Next]_vars, NEW s \in Side, ReadBody(s)
  PROVE  ReaderInStep(s)'
<1> DEFINE p == Peer(s)
           k == Len(incoming[s]) + 1
<1>0. ReaderInStep(s) /\ QueueTypes /\ Len(incoming[s]) \in Nat /\ ValidationEnds(p) \in {1, 3}
      /\ nread[s] \in Nat
  <2>1. ReaderInStep(s) /\ QueueTypes /\ StreamTypes
    BY DEF IInv, TypeOK
  <2>2. Len(incoming[s]) \in Nat
    BY <2>1 DEF QueueTypes
  <2>3. ValidationEnds(p) \in {1, 3}
    BY DEF ValidationEnds
  <2> QED
    BY <2>1, <2>2, <2>3 DEF StreamTypes
<1>1. Take(s) /\ op[s] = "ReadBody" /\ UNCHANGED stream
  BY DEF ReadBody, Pending
<1>2. /\ nread[s] > ValidationEnds(p) /\ stream[p][nread[s]] = Hdr(k)
      /\ temp[s] = k /\ k \in BodyMsgs
  BY <1>0, <1>1 DEF ReaderInStep
<1>3. Received(s) = Body(k)
  <2>1. Received(s) = After(p, nread[s])
    BY <1>1, ReadsDueWord
  <2>2. ~(nread[s] <= ValidationEnds(p))
    BY <1>0, <1>2
  <2>3. After(p, nread[s]) = NextMessageWord(Hdr(k))
    BY <1>2, <2>2 DEF After
  <2> QED
    BY <1>2, <2>1, <2>3 DEF NextMessageWord, Hdr
<1>4. AddToIncomingMessageQueue(s, k)
  BY <1>2, <1>3 DEF ReadBody
<1>5. Received(s).n = k /\ NextMessageWord(Received(s)) = Hdr(Len(incoming[s]) + 2)
  <2>1. NextMessageWord(Received(s)) = Hdr(k + 1) /\ Received(s).n = k
    BY <1>3 DEF NextMessageWord, Body
  <2>2. k + 1 = Len(incoming[s]) + 2
    BY <1>0
  <2> QED
    BY <2>1, <2>2
<1> QED
  BY <1>1, <1>4, <1>5, MessageComplete

\* The chain begins to read messages.
LEMMA FirstHeaderDue ==
  ASSUME IInv, [Next]_vars, NEW s \in Side, op'[s] = "ReadHeader",
         op[s] \notin {"ReadHeader", "ReadBody", "Stopped"}, UNCHANGED incoming,
         nread'[s] = ValidationEnds(Peer(s))
  PROVE  ReaderInStep(s)'
<1>0. ReaderInStep(s) /\ Peer(s) \in Side
  BY PeerType DEF IInv
<1>1. incoming'[s] = <<>>
  BY <1>0 DEF ReaderInStep
<1>2. After(Peer(s), nread[s])' = Hdr(1)
  <2>1. nread'[s] <= ValidationEnds(Peer(s))
    BY DEF ValidationEnds
  <2> QED
    BY <2>1 DEF After
<1>3. 0 <= ran'[Peer(s)]
  BY <1>0, RanGrows
<1>4. Len(incoming'[s]) = 0
  BY <1>1
<1> QED
  BY <1>2, <1>3, <1>4 DEF ReaderInStep

LEMMA ReadersNext ==
  ASSUME IInv, [Next]_vars
  PROVE  \A s \in Side : ReaderInStep(s)'
<1>0. ControlTypes /\ StreamTypes /\ QueueTypes /\ ServerPhase /\ ClientPhase
  BY DEF IInv, TypeOK
<1> DEFINE Exchange == {"Accept", "WriteValidation1", "ReadValidation2", "WriteValidation3",
                        "WriteValidation4", "Connect", "ReadValidation1", "WriteValidation2",
                        "ReadValidation3", "ReadValidation4"}
           Rests(s) == /\ incoming'[s] = incoming[s]
                       /\ \/ op'[s] = op[s] /\ nread'[s] = nread[s] /\ temp'[s] = temp[s]
                          \/ op'[s] \in Exchange /\ op[s] \in Exchange
                          \/ op'[s] = "Stopped"
<1>1. ASSUME NEW s \in Side, Rests(s)
      PROVE  ReaderInStep(s)'
  BY <1>1, ReaderRests
<1>2. ASSUME NEW s \in Side, s = "Server", ValidationWritten(s)
      PROVE  ReaderInStep(s)'
  <2>1. UNCHANGED <<nread, temp, incoming>>
    BY <1>2 DEF ValidationWritten, receiving
  <2>2. CASE Pending(s, "WriteValidation4") /\ Goto(s, "ReadHeader")
    <3>1. op'[s] = "ReadHeader" /\ op[s] = "WriteValidation4"
      BY <1>0, <2>2 DEF Pending, Goto, ControlTypes
    <3>2. nread[s] = 1 /\ ValidationEnds(Peer(s)) = 1
      BY <1>0, <1>2, <3>1 DEF ServerPhase, ValidationEnds, Peer
    <3> QED
      BY <2>1, <3>1, <3>2, FirstHeaderDue
  <2>3. CASE ~(Pending(s, "WriteValidation4") /\ Goto(s, "ReadHeader"))
    <3>1. Rests(s)
      BY <1>0, <1>2, <2>1, <2>3 DEF ValidationWritten, Pending, Goto, ControlTypes
    <3> QED
      BY <1>1, <3>1
  <2> QED
    BY <2>2, <2>3
<1>3. ASSUME NEW s \in Side, s = "Client", ValidationWritten(s)
      PROVE  Rests(s)
  BY <1>0, <1>3 DEF ValidationWritten, receiving, Pending, Goto, ControlTypes, ClientPhase
<1>4. ASSUME NEW s \in Side, s = "Client", ReadValidation4
      PROVE  ReaderInStep(s)'
  <2>1. op'[s] = "ReadHeader" /\ op[s] = "ReadValidation4" /\ UNCHANGED incoming
    BY <1>0, <1>4 DEF ReadValidation4, Pending, Goto, ControlTypes
  <2>2. nread[s] = 2 /\ ValidationEnds(Peer(s)) = 3
    BY <1>0, <1>4, <2>1 DEF ClientPhase, ValidationEnds, Peer
  <2>3. nread'[s] = 3
    BY <1>0, <1>4, <2>2 DEF ReadValidation4, Take, StreamTypes
  <2> QED
    BY <2>1, <2>2, <2>3, FirstHeaderDue
<1>5. ASSUME NEW s \in Side, s = "Server", Accept \/ WriteValidation3 \/ ReadValidation2
      PROVE  Rests(s)
  BY <1>0, <1>5 DEF Accept, WriteValidation3, ReadValidation2, receiving, Pending, Goto, ControlTypes
<1>6. ASSUME NEW s \in Side, s = "Client", Connected \/ ReadValidation1 \/ ReadValidation3
      PROVE  Rests(s)
  BY <1>0, <1>6 DEF Connected, ReadValidation1, ReadValidation3, receiving, Pending, Goto, ControlTypes
<1>7. ASSUME NEW s \in Side, NEW t \in Side, t # s,
             \/ ValidationWritten(s) \/ ReadHeader(s) \/ ReadBody(s)
             \/ s = "Client" /\ (ReadValidation1 \/ ReadValidation3 \/ ReadValidation4 \/ Connected)
             \/ s = "Server" /\ (Accept \/ WriteValidation3 \/ ReadValidation2)
      PROVE  Rests(t)
  BY <1>0, <1>7 DEF ValidationWritten, ReadHeader, ReadBody, AddToIncomingMessageQueue, Take, Goto, receiving,
     ReadValidation1, ReadValidation3, ReadValidation4, Connected, Accept, WriteValidation3, ReadValidation2,
     ControlTypes, StreamTypes, QueueTypes
<1>8. ASSUME NEW s \in Side, ChainFails(s), NEW t \in Side
      PROVE  Rests(t)
  BY <1>0, <1>8 DEF ChainFails, Goto, receiving, ControlTypes
<1>9. ASSUME UNCHANGED <<op, nread, temp, incoming>>, NEW t \in Side
      PROVE  Rests(t)
  BY <1>9
<1> HIDE DEF Rests
<1>10. ASSUME NEW s \in Side,
              \/ ValidationWritten(s) \/ ReadHeader(s) \/ ReadBody(s)
              \/ s = "Client" /\ (ReadValidation1 \/ ReadValidation3 \/ ReadValidation4 \/ Connected)
              \/ s = "Server" /\ (Accept \/ WriteValidation3 \/ ReadValidation2)
       PROVE  \A t \in Side : ReaderInStep(t)'
  <2>1. ReaderInStep(s)'
    BY <1>1, <1>2, <1>3, <1>4, <1>5, <1>6, <1>10, ReadHeaderInStep, ReadBodyInStep DEF Side
  <2>2. ASSUME NEW t \in Side, t # s PROVE ReaderInStep(t)'
    BY <1>1, <1>7, <1>10, <2>2
  <2> QED
    BY <2>1, <2>2
<1>11. \/ \E s \in Side :
             \/ ValidationWritten(s) \/ ReadHeader(s) \/ ReadBody(s)
             \/ s = "Client" /\ (ReadValidation1 \/ ReadValidation3 \/ ReadValidation4 \/ Connected)
             \/ s = "Server" /\ (Accept \/ WriteValidation3 \/ ReadValidation2)
       \/ \E s \in Side : ChainFails(s)
       \/ UNCHANGED <<op, nread, temp, incoming>>
  <2>1. CASE Validation
    BY <2>1 DEF Validation, Side
  <2>2. CASE ~Validation
    BY <2>2 DEF vars, receiving, Next, Poll, LinkDown, Send, SendLambda, WriteHeader, WriteBody, WriterFails, Shutdown
  <2> QED
    BY <2>1, <2>2
<1> QED
  BY <1>1, <1>8, <1>9, <1>10, <1>11

-----------------------------------------------------------------------------
LEMMA IInvInit ==
  ASSUME Init
  PROVE  IInv
<1>1. Base
  BY BaseInit
<1>2. ServerPhase /\ ClientPhase /\ Handshake
  BY DEF Init, ServerPhase, ClientPhase, Handshake, Side
<1>3. ASSUME NEW s \in Side
      PROVE  StreamInStep(s) /\ WriterInStep(s) /\ ReaderInStep(s)
  <2>1. /\ stream[s] = <<>> /\ outgoing[s] = <<>> /\ incoming[s] = <<>> /\ nread[s] = 0
        /\ ran[s] = 0 /\ ran[Peer(s)] = 0 /\ wr[s] = "Idle"
        /\ op[s] \notin {"ReadHeader", "ReadBody", "Stopped"}
    BY PeerType DEF Init
  <2>2. After(s, 0) = Hdr(1)
    BY DEF After, ValidationEnds
  <2>3. Len(stream[s]) = 0 /\ Len(outgoing[s]) = 0 /\ Len(incoming[s]) = 0
    BY <2>1
  <2>4. StreamInStep(s)
    BY <2>3 DEF StreamInStep
  <2>5. WriterInStep(s)
    BY <2>1, <2>2, <2>3 DEF WriterInStep, LastPosted
  <2>6. ReaderInStep(s)
    BY <2>1, <2>3 DEF ReaderInStep
  <2> QED
    BY <2>4, <2>5, <2>6
<1> QED
  BY <1>1, <1>2, <1>3 DEF IInv, Base

LEMMA IInvNext ==
  ASSUME IInv, ~EarlySends, [Next]_vars
  PROVE  IInv'
<1>1. Base'
  BY BaseNext DEF IInv, Base
<1>2. ServerPhase' /\ ClientPhase' /\ Handshake'
  BY ServerPhaseNext, ClientPhaseNext, HandshakeNext
<1>3. \A s \in Side : StreamInStep(s)' /\ WriterInStep(s)' /\ ReaderInStep(s)'
  BY StreamsNext, ReadersNext
<1> QED
  BY <1>1, <1>2, <1>3 DEF IInv, Base

-----------------------------------------------------------------------------
(* What follows from the invariant.                                         *)

LEMMA IInvImplies ==
  ASSUME IInv
  PROVE  DeliveredInOrder /\ HandshakeAgreement /\ ValidatedPeersShareCipher
<1>0. /\ SendingTypes /\ QueueTypes /\ Handshake
      /\ \A s \in Side : ReaderInStep(s)
  BY DEF IInv, TypeOK
<1>1. DeliveredInOrder
  <2>1. ASSUME NEW s \in Side
        PROVE  /\ Len(incoming[s]) <= sent[Peer(s)]
               /\ \A i \in DOMAIN incoming[s] : incoming[s][i] = i
    <3>1. incoming[s] \in Seq(Nat) /\ Peer(s) \in Side
      BY <1>0, PeerType DEF QueueTypes
    <3>2. Len(incoming[s]) <= ran[Peer(s)] /\ \A i \in 1..Len(incoming[s]) : incoming[s][i] = i
      BY <1>0 DEF ReaderInStep
    <3>3. Len(incoming[s]) \in Nat /\ DOMAIN incoming[s] = 1..Len(incoming[s])
      BY <3>1
    <3>4. ran[Peer(s)] \in Nat /\ sent[Peer(s)] \in Nat /\ ran[Peer(s)] <= sent[Peer(s)]
      BY <1>0, <3>1 DEF SendingTypes
    <3> QED
      BY <3>2, <3>3, <3>4
  <2> QED
    BY <2>1 DEF DeliveredInOrder
<1>2. HandshakeAgreement
  <2>1. StreamTypes
    BY DEF IInv, TypeOK
  <2>2. Len(stream["Server"]) \in Nat
    BY <2>1 DEF StreamTypes, Side
  <2> QED
    BY <1>0, <2>2 DEF Handshake, HandshakeAgreement
<1>3. ValidatedPeersShareCipher
  BY <1>0, <1>2 DEF Handshake, HandshakeAgreement, ValidatedPeersShareCipher, Side
<1> QED
  BY <1>1, <1>2, <1>3

\* The invariant holds of a connection on which nothing is sent before its
\* validation has ended.
THEOREM Inductive ==
  ASSUME ~EarlySends
  PROVE  Spec => []IInv
<1>1. Init => IInv
  BY IInvInit
<1>2. IInv /\ [Next]_vars => IInv'
  BY IInvNext
<1> QED
  BY <1>1, <1>2, PTL DEF Spec

\* Each message that is sent is received once, in the order of sending
\* (Connection.inl: Send, the write chain and the read chain).
THEOREM MessagesDelivered ==
  ASSUME ~EarlySends
  PROVE  Spec => []DeliveredInOrder
<1>1. IInv => DeliveredInOrder
  BY IInvImplies
<1> QED
  BY <1>1, Inductive, PTL

\* The client is told it is validated only after the server has validated it,
\* and with the ID the server knows it by (the validation handlers).
THEOREM PeersAgree ==
  ASSUME ~EarlySends
  PROVE  Spec => []HandshakeAgreement
<1>1. IInv => HandshakeAgreement
  BY IInvImplies
<1> QED
  BY <1>1, Inductive, PTL

\* No end validates a peer that encrypts differently (ReadValidation2,
\* ReadValidation3).
THEOREM ForeignPeersRefused ==
  ASSUME ~EarlySends
  PROVE  Spec => []ValidatedPeersShareCipher
<1>1. IInv => ValidatedPeersShareCipher
  BY IInvImplies
<1> QED
  BY <1>1, Inductive, PTL

-----------------------------------------------------------------------------
(* The connection implements a session.                                     *)

\* In what a session shows, only these steps change something.
LEMMA JudgedRightly ==
  ASSUME IInv, ~EarlySends, ReadValidation2
  PROVE  Ideal!ServerValidates
<1>0. /\ StreamTypes /\ ControlTypes /\ ServerPhase /\ Handshake
      /\ Len(stream["Client"]) \in Nat /\ Len(stream["Server"]) \in Nat
  BY DEF IInv, TypeOK, StreamTypes, Side
<1>1. /\ nread["Server"] = 0 /\ Len(stream["Server"]) = 1 /\ Take("Server")
      /\ status["Server"] = "none"
  BY <1>0 DEF ReadValidation2, Pending, ServerPhase
<1>2. nread["Server"] + 1 <= Len(stream["Client"]) /\ Received("Server") = stream["Client"][nread["Server"] + 1]
  BY <1>0, <1>1, TakeWord DEF Received, Peer, Side
<1>3. Len(stream["Client"]) >= 1 /\ Received("Server") = stream["Client"][1]
  BY <1>0, <1>1, <1>2
<1>4. /\ AsData(Received("Server")) = {cipher["Client"][Challenge]}
      /\ check["Server"] = cipher["Server"][Challenge]
      /\ id["Server"] # 0
  BY <1>0, <1>1, <1>3, ConstantsAssumption DEF Handshake, AsData, Answer
<1>5. Challenge \in Data
  <2>1. stream["Server"][1] \in Words
    BY <1>0, <1>1 DEF StreamTypes, Side
  <2> QED
    BY <1>0, <1>1, <2>1 DEF Words, Challenge, Handshake
<1>6. cipher["Client"][Challenge] = check["Server"] <=> cipher["Server"] = cipher["Client"]
  BY <1>0, <1>4, <1>5, CiphersAssumption DEF ControlTypes, Side
<1>7. status' = [status EXCEPT !["Server"] =
                    IF cipher["Server"] = cipher["Client"] THEN "validated" ELSE "invalidated"]
  BY <1>4, <1>6 DEF ReadValidation2, Matches
<1>8. UNCHANGED <<cipher, id, sent, incoming>>
  BY DEF ReadValidation2
<1> QED
  BY <1>1, <1>4, <1>7, <1>8 DEF Ideal!ServerValidates

LEMMA ClientTold ==
  ASSUME IInv, IInv', ReadValidation4
  PROVE  Ideal!ClientValidates
<1>0. /\ StreamTypes /\ ControlTypes /\ CheckingTypes /\ ClientPhase /\ Handshake
      /\ Len(stream["Server"]) \in Nat
  BY DEF IInv, TypeOK, StreamTypes, Side
<1>1. nread["Client"] = 2 /\ Take("Client") /\ status["Client"] = "none"
  BY <1>0 DEF ReadValidation4, Pending, ClientPhase, Handshake, ControlTypes, Side
<1>2. nread["Client"] + 1 <= Len(stream["Server"])
  BY <1>0, <1>1, TakeWord DEF Peer, Side
<1>3. Len(stream["Server"]) >= 3 /\ Len(stream["Server"]) >= 2 /\ Len(stream["Server"]) >= 1
  BY <1>0, <1>1, <1>2
<1>4. status["Server"] = "validated" /\ id["Server"] = ClientID
  BY <1>0, <1>3 DEF Handshake
<1>5. /\ status' = [status EXCEPT !["Client"] = "validated"]
      /\ id' = [id EXCEPT !["Client"] = AsID(Received("Client"))]
      /\ UNCHANGED <<cipher, sent, incoming>>
  BY DEF ReadValidation4, sending
<1>6. id'["Client"] = ClientID
  <2>1. status'["Client"] = "validated"
    BY <1>0, <1>5 DEF ControlTypes, Side
  <2>2. Handshake'
    BY DEF IInv
  <2> QED
    BY <2>1, <2>2 DEF Handshake
<1>7. id' = [id EXCEPT !["Client"] = id["Server"]]
  BY <1>0, <1>4, <1>5, <1>6 DEF CheckingTypes, Side
<1> QED
  BY <1>1, <1>4, <1>5, <1>7 DEF Ideal!ClientValidates

LEMMA MessageArrives ==
  ASSUME IInv, IInv', DeliveredInOrder', NEW s \in Side, ReadHeader(s) \/ ReadBody(s)
  PROVE  Ideal!ReceiveNext(s) \/ UNCHANGED <<cipher, status, id, sent, incoming>>
<1>0. /\ StreamTypes /\ ControlTypes /\ QueueTypes /\ SendingTypes /\ ServerPhase /\ ClientPhase /\ Handshake
      /\ QueueTypes'
      /\ Len(stream["Server"]) \in Nat
  BY DEF IInv, TypeOK, StreamTypes, Side
<1>1. UNCHANGED <<cipher, status, id, sent>> /\ op[s] \in {"ReadHeader", "ReadBody"}
  BY DEF ReadHeader, ReadBody, checking, sending, Pending
<1>2. incoming' = incoming \/ \E m : incoming' = [incoming EXCEPT ![s] = Append(@, m)]
  BY DEF ReadHeader, ReadBody, AddToIncomingMessageQueue
<1>3. ASSUME NEW m, incoming' = [incoming EXCEPT ![s] = Append(@, m)]
      PROVE  Ideal!ReceiveNext(s)
  <2>1. /\ incoming[s] \in Seq(Nat) /\ Len(incoming[s]) \in Nat
        /\ incoming'[s] = Append(incoming[s], m) /\ incoming'[s] \in Seq(Nat)
    BY <1>0, <1>3 DEF QueueTypes
  <2>2. /\ Len(incoming'[s]) = Len(incoming[s]) + 1
        /\ incoming'[s][Len(incoming[s]) + 1] = m
        /\ DOMAIN incoming'[s] = 1..(Len(incoming[s]) + 1)
    BY <2>1
  <2>4. m = Len(incoming[s]) + 1 /\ Len(incoming[s]) + 1 <= sent[Peer(s)]
    BY <1>1, <2>1, <2>2 DEF DeliveredInOrder
  <2>5. sent[Peer(s)] \in Nat /\ Len(incoming[s]) < sent[Peer(s)] /\ sent[Peer(s)] > 0
    <3>1. sent[Peer(s)] \in Nat
      BY <1>0, PeerType DEF SendingTypes
    <3> QED
      BY <2>1, <2>4, <3>1
  <2>6. status["Client"] = "validated"
    <3>1. CASE s = "Client"
      BY <1>0, <1>1, <3>1 DEF ClientPhase
    <3>2. CASE s = "Server"
      BY <1>0, <2>5, <3>2 DEF ClientPhase, Peer
    <3> QED
      BY <3>1, <3>2 DEF Side
  <2>7. status["Server"] = "validated"
    BY <1>0, <2>6 DEF Handshake
  <2>8. Peer(s) = Ideal!Other(s)
    BY DEF Peer, Ideal!Other
  <2> QED
    BY <1>1, <1>3, <2>4, <2>5, <2>6, <2>7, <2>8 DEF Ideal!ReceiveNext, Ideal!Ends
<1> QED
  BY <1>1, <1>2, <1>3

\* A connection on which nothing is sent before its validation has ended
\* implements a session.
THEOREM ConnectionImplementsSession ==
  ASSUME ~EarlySends
  PROVE  Spec => ImplementsSession
<1>1. Init => Ideal!SInit
  BY DEF Init, Ideal!SInit, Ideal!Ends, Side
<1>2. IInv /\ IInv' /\ DeliveredInOrder' /\ [Next]_vars => [Ideal!SNext]_Ideal!svars
  <2> SUFFICES ASSUME IInv, IInv', DeliveredInOrder', [Next]_vars
               PROVE  [Ideal!SNext]_Ideal!svars
    OBVIOUS
  <2>0. ControlTypes /\ CheckingTypes /\ SendingTypes /\ ServerPhase /\ ClientPhase /\ Handshake /\ Handshake'
    BY DEF IInv, TypeOK
  <2>1. ASSUME UNCHANGED <<cipher, status, id, sent, incoming>>
        PROVE  UNCHANGED Ideal!svars
    BY <2>1 DEF Ideal!svars
  <2>2. CASE Accept
    <3>1. UNCHANGED <<cipher, status, sent, incoming>> /\ id["Server"] = 0
      BY <2>0, <2>2 DEF Accept, ServerPhase, sending, receiving
    <3>2. UNCHANGED id \/ id' = [id EXCEPT !["Server"] = ClientID]
      BY <2>2 DEF Accept
    <3> QED
      BY <2>1, <3>1, <3>2 DEF Ideal!Admit, Ideal!SNext
  <2>3. CASE ReadValidation2
    BY <2>3, JudgedRightly DEF Ideal!SNext
  <2>4. CASE ReadValidation3
    <3>1. status'["Client"] # "invalidated"
      BY <2>0 DEF Handshake
    <3>2. UNCHANGED <<cipher, status, id, sent, incoming>>
      BY <2>0, <2>4, <3>1 DEF ReadValidation3, sending, ControlTypes, Side
    <3> QED
      BY <2>1, <3>2
  <2>5. CASE ReadValidation4
    BY <2>5, ClientTold DEF Ideal!SNext
  <2>6. ASSUME NEW s \in Side, ReadHeader(s) \/ ReadBody(s)
        PROVE  [Ideal!SNext]_Ideal!svars
    <3>1. Ideal!ReceiveNext(s) \/ UNCHANGED <<cipher, status, id, sent, incoming>>
      BY <2>6, MessageArrives
    <3> QED
      BY <2>1, <3>1 DEF Ideal!SNext, Ideal!Ends, Side
  <2>7. ASSUME NEW s \in Side, Send(s)
        PROVE  [Ideal!SNext]_Ideal!svars
    <3>1. status[s] = "validated"
      <4>1. Normal(s)
        BY <2>7 DEF Send
      <4>2. CASE s = "Server"
        <5>1. Len(stream["Server"]) \in Nat /\ Len(stream["Server"]) >= 3
          BY <2>0, <4>1, <4>2, StreamKept DEF Normal, ServerPhase, Side
        <5>2. Len(stream["Server"]) >= 2
          BY <5>1
        <5> QED
          BY <2>0, <4>2, <5>2 DEF Handshake
      <4>3. CASE s = "Client"
        BY <4>1, <4>3 DEF Normal
      <4> QED
        BY <4>2, <4>3 DEF Side
    <3>2. UNCHANGED <<cipher, status, id, incoming>> /\ sent' = [sent EXCEPT ![s] = @ + 1]
      BY <2>7 DEF Send, checking, receiving
    <3> QED
      BY <3>1, <3>2 DEF Ideal!SendNext, Ideal!SNext, Ideal!Ends, Side
  <2>8. \/ Accept \/ ReadValidation2 \/ ReadValidation3 \/ ReadValidation4
        \/ \E s \in Side : ReadHeader(s) \/ ReadBody(s) \/ Send(s)
        \/ UNCHANGED <<cipher, status, id, sent, incoming>>
    BY DEF vars, sending, receiving, checking, Next, Validation, Connected, ValidationWritten,
       WriteValidation3, ReadValidation1, Poll, LinkDown, ChainFails, SendLambda, WriteHeader,
       WriteBody, WriterFails, Shutdown
  <2> QED
    BY <2>1, <2>2, <2>3, <2>4, <2>5, <2>6, <2>7, <2>8
<1> QED
  BY <1>1, <1>2, Inductive, MessagesDelivered, PTL DEF Spec, ImplementsSession, Ideal!SSpec

-----------------------------------------------------------------------------
(* What the comments of Connection.inl say is so, as long as nothing is     *)
(* sent before the validation has ended.                                    *)

\* "Assume successful bidirectional validation, so begin normal operation"
\* (Connection.inl:374-376): the words of the exchange come first.
THEOREM ExchangePrecedesMessages ==
  ASSUME ~EarlySends
  PROVE  Spec => []NormalOperationAfterValidation
<1>1. ASSUME IInv, NEW s \in Side, NEW i \in 1..Len(stream[s]), i <= ValidationEnds(s)
      PROVE  ~IsMessageWord(stream[s][i])
  <2>1. Handshake /\ Len(stream[s]) \in Nat
    BY <1>1 DEF IInv, TypeOK, StreamTypes
  <2>2. CASE s = "Server"
    <3>1. i \in {1, 2, 3} /\ i <= Len(stream["Server"])
      BY <1>1, <2>2 DEF ValidationEnds
    <3>2. Len(stream["Server"]) \in Nat
      BY <2>1, <2>2
    <3>3. CASE i = 1
      BY <2>1, <2>2, <3>1, <3>2, <3>3 DEF Handshake, IsMessageWord
    <3>4. CASE i = 2
      BY <2>1, <2>2, <3>1, <3>2, <3>4 DEF Handshake, IsMessageWord, Val
    <3>5. CASE i = 3
      BY <2>1, <2>2, <3>1, <3>2, <3>5 DEF Handshake, IsMessageWord, IDOf
    <3>6. QED
      BY <3>1, <3>3, <3>4, <3>5
  <2>3. CASE s = "Client"
    <3>1. i = 1 /\ Len(stream["Client"]) >= 1
      BY <1>1, <2>1, <2>3 DEF ValidationEnds
    <3>2. QED
      BY <2>1, <2>3, <3>1 DEF Handshake, IsMessageWord
  <2>4. QED
    BY <2>2, <2>3 DEF Side
<1>2. IInv => NormalOperationAfterValidation
  <2>1. SUFFICES ASSUME IInv, NEW s \in Side, NEW i \in DOMAIN stream[s], IsMessageWord(stream[s][i])
                 PROVE  i > ValidationEnds(s)
    BY DEF NormalOperationAfterValidation
  <2>2. i \in 1..Len(stream[s]) /\ Len(stream[s]) \in Nat
    BY <2>1 DEF IInv, TypeOK, StreamTypes
  <2>3. ValidationEnds(s) \in Nat
    BY DEF ValidationEnds
  <2>4. QED
    BY <1>1, <2>1, <2>2, <2>3
<1>3. QED
  BY <1>2, Inductive, PTL

\* No client refuses its server, so what Connection.inl:375 says of that case
\* ("asio will have this fail and disconnect will be called") is not needed.
THEOREM NoClientRefuses ==
  ASSUME ~EarlySends
  PROVE  Spec => []~(status["Client"] = "invalidated") /\ ClientInvalidationDisconnects
<1>1. IInv => ~(status["Client"] = "invalidated")
  BY DEF IInv, Handshake
<1>2. QED
  BY <1>1, Inductive, PTL DEF ClientInvalidationDisconnects
=============================================================================
