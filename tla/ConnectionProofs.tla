-------------------------- MODULE ConnectionProofs --------------------------
(***************************************************************************)
(* Theorems about Connection, for every set of values, every choice of     *)
(* ciphers that differ everywhere, any number of messages and any choice   *)
(* of those that have a body.                                              *)
(***************************************************************************)
EXTENDS ConnectionInv, TLAPS

-----------------------------------------------------------------------------
(* Words and streams.                                                       *)

LEMMA EncryptType == ASSUME NEW f \in Ciphers, NEW d \in Data PROVE f[d] \in Data
  BY ConstantsAssumption

LEMMA ZeroType == Zero \in Data
  BY ConstantsAssumption DEF Zero

LEMMA WordTypes ==
    /\ \A d \in Data : Val(d) \in Words
    /\ \A k \in Nat : IDOf(k) \in Words /\ Hdr(k) \in Words /\ Body(k) \in Words
    /\ \A w \in Words :
          AsData(w) \subseteq Data /\ AsID(w) \in Nat /\ AsMessage(w) \in Nat
  BY DEF Val, IDOf, Hdr, Body, Words, AsData, AsID, AsMessage

LEMMA PeerType == \A s \in Side : Peer(s) \in Side /\ Peer(s) # s /\ Peer(Peer(s)) = s
  BY DEF Peer, Side

LEMMA QueueOps ==
    /\ \A q \in Seq(Nat \ {0}) :
          q # <<>> => Head(q) \in Nat \ {0} /\ Tail(q) \in Seq(Nat \ {0})
    /\ \A q \in Seq(Nat \ {0}), k \in Nat \ {0} :
          Append(q, k) \in Seq(Nat \ {0}) /\ Append(q, k) # <<>>
  OBVIOUS

\* A write adds one word to one stream.
LEMMA PutWord ==
  ASSUME stream \in [Side -> Seq(Words)], NEW s \in Side, NEW w \in Words, Put(s, w)
  PROVE  /\ stream' \in [Side -> Seq(Words)]
         /\ Len(stream'[s]) = Len(stream[s]) + 1
         /\ stream'[s][Len(stream[s]) + 1] = w
         /\ \A r \in Side : r # s => stream'[r] = stream[r]
         /\ \A r \in Side : Len(stream[r]) <= Len(stream'[r])
         /\ \A r \in Side : \A i \in 1..Len(stream[r]) : stream'[r][i] = stream[r][i]
  BY DEF Put

\* A read takes the next word of the peer's stream.
LEMMA TakeWord ==
  ASSUME StreamTypes, NEW s \in Side, Take(s)
  PROVE  /\ nread' \in [Side -> Nat]
         /\ nread'[s] = nread[s] + 1
         /\ nread[s] + 1 <= Len(stream[Peer(s)])
         /\ nread[s] + 1 \in 1..Len(stream[Peer(s)])
         /\ \A r \in Side : r # s => nread'[r] = nread[r]
         /\ \A r \in Side : nread'[r] <= Len(stream[Peer(r)])
         /\ Received(s) \in Words
  BY PeerType DEF Take, StreamTypes, Received

-----------------------------------------------------------------------------
(* Types.  Head and Tail are applied to m_OutgoingMessages only while a     *)
(* write is pending, so the type invariant needs WriterBusyIffQueued.       *)

Base == TypeOK /\ WriterBusyIffQueued

LEMMA BaseInit == Init => Base
<1> SUFFICES ASSUME Init PROVE Base
  OBVIOUS
<1> USE ConstantsAssumption, ZeroType DEF Init, Side
<1>1. ControlTypes
  BY DEF ControlTypes, ChainOps
<1>2. CheckingTypes
  BY DEF CheckingTypes
<1>3. SendingTypes /\ WriterBusyIffQueued
  BY DEF SendingTypes, WriterOps, WriterBusyIffQueued
<1>4. StreamTypes
  BY DEF StreamTypes, Peer
<1>5. QueueTypes
  BY DEF QueueTypes
<1> QED
  BY <1>1, <1>2, <1>3, <1>4, <1>5 DEF Base, TypeOK

LEMMA ControlNext == Base /\ [Next]_vars => ControlTypes'
<1> SUFFICES ASSUME Base, [Next]_vars PROVE ControlTypes'
  OBVIOUS
<1> USE DEF Base, TypeOK, ControlTypes, Side, ChainOps, Goto, Pending, Disconnect, checking
<1>1. CASE Accept
  <2>1. op' \in [Side -> ChainOps] /\ sock' \in [Side -> {"none", "open", "closed"}]
    BY <1>1 DEF Accept
  <2>2. inClients' \in BOOLEAN /\ UNCHANGED <<cipher, link, status>>
    BY <1>1 DEF Accept
  <2> QED
    BY <2>1, <2>2
<1>2. CASE ReadValidation2
  <2>1. op' \in [Side -> ChainOps] /\ sock' \in [Side -> {"none", "open", "closed"}]
    BY <1>2 DEF ReadValidation2
  <2>2. inClients' \in BOOLEAN /\ UNCHANGED <<cipher, link>>
    BY <1>2 DEF ReadValidation2
  <2>3. status' \in [Side -> {"none", "validated", "invalidated"}]
    BY <1>2 DEF ReadValidation2
  <2> QED
    BY <2>1, <2>2, <2>3
<1>3. CASE Connected \/ WriteValidation3 \/ ReadValidation1
  BY <1>3 DEF Connected, WriteValidation3, ReadValidation1
<1>4. CASE ReadValidation3
  BY <1>4 DEF ReadValidation3
<1>5. CASE ReadValidation4
  BY <1>5 DEF ReadValidation4
<1>6. CASE Poll \/ LinkDown
  BY <1>6 DEF Poll, LinkDown
<1>7. ASSUME NEW s \in Side, ValidationWritten(s)
      PROVE  ControlTypes'
  BY <1>7 DEF ValidationWritten
<1>8. ASSUME NEW s \in Side, ChainFails(s)
      PROVE  ControlTypes'
  BY <1>8 DEF ChainFails
<1>9. ASSUME NEW s \in Side, ReadHeader(s) \/ ReadBody(s)
      PROVE  ControlTypes'
  BY <1>9 DEF ReadHeader, ReadBody, AddToIncomingMessageQueue
<1>10. ASSUME NEW s \in Side, WriterFails(s)
       PROVE  ControlTypes'
  BY <1>10 DEF WriterFails
<1>11. ASSUME NEW s \in Side, Shutdown(s)
       PROVE  ControlTypes'
  BY <1>11 DEF Shutdown
<1>12. ASSUME NEW s \in Side, Send(s) \/ SendLambda(s) \/ WriteHeader(s) \/ WriteBody(s)
       PROVE  ControlTypes'
  BY <1>12 DEF Send, SendLambda, WriteHeader, WriteBody
<1>13. CASE UNCHANGED vars
  BY <1>13 DEF vars
<1> QED
  BY <1>1, <1>2, <1>3, <1>4, <1>5, <1>6, <1>7, <1>8, <1>9, <1>10, <1>11, <1>12, <1>13
  DEF Next, Validation

LEMMA CheckingNext == Base /\ [Next]_vars => CheckingTypes'
<1> SUFFICES ASSUME Base, [Next]_vars PROVE CheckingTypes'
  OBVIOUS
<1> USE DEF Base, TypeOK, ControlTypes, CheckingTypes, Side
<1>1. CASE Accept
  <2>1. CASE \E now \in Data :
               /\ id' = [id EXCEPT !["Server"] = ClientID]
               /\ check' = [check EXCEPT !["Server"] = cipher["Server"][now]]
    BY <2>1, EncryptType, ConstantsAssumption
  <2> QED
    BY <1>1, <2>1 DEF Accept
<1>2. CASE ReadValidation1
  <2> PICK in \in AsData(Received("Client")) :
        check' = [check EXCEPT !["Client"] = cipher["Client"][cipher["Client"][in]]]
    BY <1>2 DEF ReadValidation1
  <2>1. in \in Data
    BY <1>2, TakeWord, WordTypes DEF ReadValidation1
  <2>2. cipher["Client"][cipher["Client"][in]] \in Data
    BY <2>1, EncryptType
  <2> QED
    BY <1>2, <2>2 DEF ReadValidation1
<1>3. CASE ReadValidation4
  <2>1. AsID(Received("Client")) \in Nat
    BY <1>3, TakeWord, WordTypes DEF ReadValidation4
  <2> QED
    BY <1>3, <2>1 DEF ReadValidation4
<1>4. \/ Accept \/ ReadValidation1 \/ ReadValidation4
      \/ UNCHANGED <<check, id>>
  BY DEF vars, checking, Next, Validation, Connected, ValidationWritten, WriteValidation3,
     ReadValidation2, ReadValidation3, Poll, LinkDown, ChainFails, ReadHeader,
     ReadBody, Send, SendLambda, WriteHeader, WriteBody, WriterFails, Shutdown
<1> QED
  BY <1>1, <1>2, <1>3, <1>4

LEMMA SendingNext == Base /\ [Next]_vars => SendingTypes' /\ WriterBusyIffQueued'
<1> SUFFICES ASSUME Base, [Next]_vars PROVE SendingTypes' /\ WriterBusyIffQueued'
  OBVIOUS
<1> USE DEF Base, TypeOK, SendingTypes, WriterBusyIffQueued, WriterOps, StartWrite
<1>1. ASSUME NEW s \in Side, Send(s)
      PROVE  SendingTypes' /\ WriterBusyIffQueued'
  <2>1. sent' = [sent EXCEPT ![s] = @ + 1] /\ sent[s] < MaxSends[s]
    BY <1>1 DEF Send
  <2>2. sent[s] \in Nat /\ MaxSends[s] \in Nat
    BY ConstantsAssumption
  <2>3. /\ sent' \in [Side -> Nat]
        /\ sent'[s] = sent[s] + 1
        /\ \A r \in Side : r # s => sent'[r] = sent[r]
    BY <2>1, <2>2
  <2>4. UNCHANGED <<wr, ran, outgoing>>
    BY <1>1 DEF Send
  <2> QED
    BY <2>1, <2>2, <2>3, <2>4
<1>2. ASSUME NEW s \in Side, SendLambda(s)
      PROVE  SendingTypes' /\ WriterBusyIffQueued'
  <2>1. ran' = [ran EXCEPT ![s] = @ + 1] /\ UNCHANGED sent /\ ran'[s] <= sent[s]
        /\ ran'[s] \in Nat \ {0}
    BY <1>2 DEF SendLambda
  <2>2. /\ outgoing' = [outgoing EXCEPT ![s] = Append(@, ran'[s])]
        /\ outgoing' \in [Side -> Seq(Nat \ {0})]
        /\ outgoing'[s] # <<>>
    BY <1>2, <2>1 DEF SendLambda
  <2>3. /\ wr' \in [Side -> WriterOps] /\ wr'[s] # "Idle"
        /\ \A r \in Side : r # s => wr'[r] = wr[r]
    BY <1>2, <2>1 DEF SendLambda
  <2> QED
    BY <2>1, <2>2, <2>3
<1>3. ASSUME NEW s \in Side, outgoing[s] # <<>>, FinishMessage(s), UNCHANGED <<sent, ran>>
      PROVE  SendingTypes' /\ WriterBusyIffQueued'
  <2>1. Tail(outgoing[s]) \in Seq(Nat \ {0})
    BY <1>3
  <2>2. /\ outgoing' \in [Side -> Seq(Nat \ {0})]
        /\ \A r \in Side : r # s => outgoing'[r] = outgoing[r]
    BY <1>3, <2>1 DEF FinishMessage
  <2>3. /\ wr' \in [Side -> WriterOps]
        /\ wr'[s] = "Idle" <=> outgoing'[s] = <<>>
        /\ \A r \in Side : r # s => wr'[r] = wr[r]
    BY <1>3 DEF FinishMessage
  <2> QED
    BY <1>3, <2>2, <2>3
<1>4. ASSUME NEW s \in Side, WriteHeader(s)
      PROVE  SendingTypes' /\ WriterBusyIffQueued'
  BY <1>3, <1>4 DEF WriteHeader
<1>5. ASSUME NEW s \in Side, WriteBody(s)
      PROVE  SendingTypes' /\ WriterBusyIffQueued'
  BY <1>3, <1>5 DEF WriteBody
<1>6. ASSUME NEW s \in Side, WriterFails(s)
      PROVE  SendingTypes' /\ WriterBusyIffQueued'
  BY <1>6 DEF WriterFails
<1>7. CASE ReadValidation2
  BY <1>7, ConstantsAssumption DEF ReadValidation2, Side
<1>8. \/ \E s \in Side : \/ Send(s) \/ SendLambda(s) \/ WriteHeader(s) \/ WriteBody(s)
                         \/ WriterFails(s)
      \/ ReadValidation2
      \/ UNCHANGED sending
  BY DEF vars, sending, Next, Validation, Accept, Connected, ValidationWritten, WriteValidation3,
     ReadValidation1, ReadValidation3, ReadValidation4, Poll, LinkDown, ChainFails, ReadHeader,
     ReadBody, Shutdown
<1> QED
  BY <1>1, <1>2, <1>4, <1>5, <1>6, <1>7, <1>8 DEF sending

LEMMA StreamNext == Base /\ [Next]_vars => StreamTypes'
<1> SUFFICES ASSUME Base, [Next]_vars PROVE StreamTypes'
  OBVIOUS
<1> USE PeerType DEF Base, TypeOK, StreamTypes
<1>1. ASSUME NEW s \in Side, NEW w \in Words, Put(s, w), UNCHANGED nread
      PROVE  StreamTypes'
  BY <1>1, PutWord
<1>2. ASSUME NEW s \in Side, Take(s), UNCHANGED stream
      PROVE  StreamTypes'
  BY <1>2, TakeWord
<1>3. ASSUME NEW s \in Side, NEW w \in Words, Put(s, w), Take(s)
      PROVE  StreamTypes'
  <2>1. \A r \in Side : nread'[r] <= Len(stream[Peer(r)])
    BY <1>3, TakeWord
  <2> QED
    BY <1>3, <2>1, PutWord, TakeWord
<1>4. ASSUME NEW s \in Side, NEW o, NEW w \in Words, StartWrite(s, o, w), UNCHANGED nread
      PROVE  StreamTypes'
  BY <1>1, <1>4 DEF StartWrite
<1>5. CASE Accept
  BY <1>1, <1>5, WordTypes DEF Accept, receiving, Side
<1>6. CASE WriteValidation3
  BY <1>1, <1>6, WordTypes DEF WriteValidation3, receiving, CheckingTypes, Side
<1>7. CASE ReadValidation1
  <2> PICK in \in AsData(Received("Client")) : Put("Client", Val(cipher["Client"][in]))
    BY <1>7 DEF ReadValidation1
  <2>1. Take("Client")
    BY <1>7 DEF ReadValidation1
  <2>2. in \in Data
    BY <2>1, TakeWord, WordTypes DEF Side
  <2>3. Val(cipher["Client"][in]) \in Words
    BY <2>2, EncryptType, WordTypes DEF ControlTypes, Side
  <2> QED
    BY <1>3, <2>1, <2>3 DEF Side
<1>8. CASE ReadValidation2
  <2>1. Take("Server")
    BY <1>8 DEF ReadValidation2
  <2>2. CASE UNCHANGED stream
    BY <1>2, <2>1, <2>2 DEF Side
  <2>3. ASSUME NEW in \in AsData(Received("Server")), Put("Server", Val(cipher["Server"][in]))
        PROVE  StreamTypes'
    <3>1. in \in Data
      BY <2>1, TakeWord, WordTypes DEF Side
    <3>2. Val(cipher["Server"][in]) \in Words
      BY <3>1, EncryptType, WordTypes DEF ControlTypes, Side
    <3> QED
      BY <1>3, <2>1, <2>3, <3>2 DEF Side
  <2> QED
    BY <1>8, <2>2, <2>3 DEF ReadValidation2
<1>9. CASE ReadValidation3 \/ ReadValidation4
  BY <1>2, <1>9 DEF ReadValidation3, ReadValidation4, sending, Side
<1>10. ASSUME NEW s \in Side, ReadHeader(s) \/ ReadBody(s)
       PROVE  StreamTypes'
  BY <1>2, <1>10 DEF ReadHeader, ReadBody
<1>11. ASSUME NEW s \in Side, SendLambda(s)
       PROVE  StreamTypes'
  <2>1. ran'[s] \in Nat \ {0} /\ outgoing'[s] = Append(outgoing[s], ran'[s])
    BY <1>11 DEF SendLambda, SendingTypes
  <2>2. Hdr(Head(outgoing'[s])) \in Words
    BY <2>1, QueueOps, WordTypes DEF SendingTypes
  <2> QED
    BY <1>4, <1>11, <2>2 DEF SendLambda, receiving
<1>12. ASSUME NEW s \in Side, outgoing[s] # <<>>, FinishMessage(s), UNCHANGED nread
       PROVE  StreamTypes'
  <2>1. outgoing'[s] \in Seq(Nat \ {0})
    BY <1>12, QueueOps DEF FinishMessage, SendingTypes
  <2>2. outgoing'[s] # <<>> => Hdr(Head(outgoing'[s])) \in Words
    BY <2>1, QueueOps, WordTypes
  <2> QED
    BY <1>4, <1>12, <2>2 DEF FinishMessage
<1>13. ASSUME NEW s \in Side, WriteHeader(s) \/ WriteBody(s)
       PROVE  StreamTypes'
  <2>1. outgoing[s] # <<>>
    BY <1>13 DEF WriteHeader, WriteBody, WriterBusyIffQueued
  <2>2. Body(Head(outgoing[s])) \in Words
    BY <2>1, QueueOps, WordTypes DEF SendingTypes
  <2> QED
    BY <1>4, <1>12, <1>13, <2>1, <2>2 DEF WriteHeader, WriteBody, receiving
<1>14. \/ Accept \/ WriteValidation3 \/ ReadValidation1 \/ ReadValidation2
       \/ ReadValidation3 \/ ReadValidation4
       \/ \E s \in Side : \/ ReadHeader(s) \/ ReadBody(s) \/ SendLambda(s)
                          \/ WriteHeader(s) \/ WriteBody(s)
       \/ UNCHANGED <<stream, nread>>
  BY DEF vars, receiving, Next, Validation, Connected, ValidationWritten, Poll,
     LinkDown, ChainFails, Send, WriterFails, Shutdown
<1> QED
  BY <1>5, <1>6, <1>7, <1>8, <1>9, <1>10, <1>11, <1>13, <1>14

LEMMA QueueNext == Base /\ [Next]_vars => QueueTypes'
<1> SUFFICES ASSUME Base, [Next]_vars PROVE QueueTypes'
  OBVIOUS
<1> USE DEF Base, TypeOK, QueueTypes
<1>1. ASSUME NEW s \in Side, NEW m \in Nat, AddToIncomingMessageQueue(s, m), UNCHANGED polled
      PROVE  QueueTypes'
  <2>1. temp' \in [Side -> Nat]
    BY <1>1 DEF AddToIncomingMessageQueue
  <2>2. incoming' \in [Side -> Seq(Nat)]
    BY <1>1 DEF AddToIncomingMessageQueue
  <2>3. Len(incoming["Server"]) <= Len(incoming'["Server"])
    BY <1>1 DEF AddToIncomingMessageQueue, Side
  <2> QED
    BY <1>1, <2>1, <2>2, <2>3 DEF Side
<1>2. ASSUME NEW s \in Side, ReadHeader(s)
      PROVE  QueueTypes'
  <2>1. AsMessage(Received(s)) \in Nat
    BY <1>2, TakeWord, WordTypes DEF ReadHeader
  <2>2. CASE temp' = [temp EXCEPT ![s] = AsMessage(Received(s))] /\ UNCHANGED <<incoming, polled>>
    BY <2>1, <2>2
  <2> QED
    BY <1>1, <1>2, <2>1, <2>2 DEF ReadHeader
<1>3. ASSUME NEW s \in Side, ReadBody(s)
      PROVE  QueueTypes'
  BY <1>1, <1>3 DEF ReadBody
<1>4. CASE Poll
  BY <1>4 DEF Poll, receiving, Side
<1>5. \/ Poll \/ \E s \in Side : ReadHeader(s) \/ ReadBody(s)
      \/ UNCHANGED <<temp, incoming, polled>>
  BY DEF vars, receiving, Next, Validation, Accept, Connected, ValidationWritten, WriteValidation3,
     ReadValidation1, ReadValidation2, ReadValidation3, ReadValidation4, LinkDown, ChainFails,
     Send, SendLambda, WriteHeader, WriteBody, WriterFails, Shutdown
<1> QED
  BY <1>2, <1>3, <1>4, <1>5

LEMMA BaseNext == Base /\ [Next]_vars => Base'
  BY ControlNext, CheckingNext, SendingNext, StreamNext, QueueNext DEF Base, TypeOK

\* Every variable keeps its type and its bounds, in every behaviour.
THEOREM TypeCorrect == Spec => []TypeOK
<1>1. Base => TypeOK
  BY DEF Base
<1> QED
  BY <1>1, BaseInit, BaseNext, PTL DEF Spec

\* The chain of writes over m_OutgoingMessages neither stops with messages
\* queued nor runs twice, whenever Send is called and whatever fails.
THEOREM WriterNeverStalls == Spec => []WriterBusyIffQueued
<1>1. Base => WriterBusyIffQueued
  BY DEF Base
<1> QED
  BY <1>1, BaseInit, BaseNext, PTL DEF Spec

-----------------------------------------------------------------------------
(* What an end writes, whenever Send is called: the words of its messages   *)
(* are in order on the wire, though words of the validation may lie         *)
(* between them.  Nothing is assumed of EarlySends.                         *)

InOrder(words) ==
    \A i \in DOMAIN words : IsMessageWord(words[i]) => Due(words, i - 1, words[i])

\* The writer knows the word that is due from the front of the queue, and between
\* messages from the number of lambdas that have run.
WireInStep(s) ==
    LET n == Len(stream[s])
    IN  /\ LastPosted(outgoing[s], ran[s])
        /\ wr[s] = "Idle" => Due(stream[s], n, Hdr(ran[s] + 1))
        /\ wr[s] = "WriteHeader" =>
              Due(stream[s], n, NextMessageWord(Hdr(Head(outgoing[s]))))
        /\ wr[s] = "WriteBody" => Due(stream[s], n, Hdr(Head(outgoing[s]) + 1))

\* The inductive invariant.
WInv == Base /\ \A s \in Side : InOrder(stream[s]) /\ WireInStep(s)

\* The queue's arithmetic.
LEMMA PostedOps ==
  ASSUME NEW k \in Nat, NEW q \in Seq(Nat \ {0}), LastPosted(q, k)
  PROVE  /\ LastPosted(Append(q, k + 1), k + 1)
         /\ q # <<>> => /\ LastPosted(Tail(q), k)
                        /\ Head(Append(q, k + 1)) = Head(q)
                        /\ Tail(q) = <<>> => Head(q) = k
                        /\ Tail(q) # <<>> => Head(Tail(q)) = Head(q) + 1
                        /\ Head(q) <= k
<1>1. Len(q) \in Nat /\ Len(q) <= k /\ \A i \in 1..Len(q) : q[i] = k - Len(q) + i
  BY DEF LastPosted
<1>2. LastPosted(Append(q, k + 1), k + 1)
  <2>1. Len(Append(q, k + 1)) = Len(q) + 1
    OBVIOUS
  <2>2. ASSUME NEW i \in 1..(Len(q) + 1)
        PROVE  Append(q, k + 1)[i] = (k + 1) - (Len(q) + 1) + i
    <3>1. CASE i = Len(q) + 1
      <4>1. Append(q, k + 1)[i] = k + 1
        BY <3>1
      <4> QED
        BY <1>1, <3>1, <4>1
    <3>2. CASE i \in 1..Len(q)
      <4>1. Append(q, k + 1)[i] = q[i]
        BY <3>2
      <4>2. q[i] = k - Len(q) + i
        BY <1>1, <3>2
      <4> QED
        BY <1>1, <4>1, <4>2
    <3> QED
      BY <1>1, <3>1, <3>2
  <2> QED
    BY <1>1, <2>1, <2>2 DEF LastPosted
<1>3. ASSUME q # <<>>
      PROVE  /\ LastPosted(Tail(q), k)
             /\ Head(Append(q, k + 1)) = Head(q)
             /\ Tail(q) = <<>> => Head(q) = k
             /\ Tail(q) # <<>> => Head(Tail(q)) = Head(q) + 1
             /\ Head(q) <= k
  <2>1. Len(q) >= 1 /\ 1 \in 1..Len(q) /\ Head(q) = q[1]
    BY <1>1, <1>3
  <2>2. Head(q) = k - Len(q) + 1
    BY <1>1, <2>1
  <2>3. /\ Len(Tail(q)) = Len(q) - 1 /\ Tail(q) \in Seq(Nat \ {0})
        /\ \A i \in 1..Len(Tail(q)) : Tail(q)[i] = q[i + 1]
    BY <1>3
  <2>4. ASSUME NEW i \in 1..Len(Tail(q))
        PROVE  Tail(q)[i] = k - Len(Tail(q)) + i
    <3>1. i + 1 \in 1..Len(q)
      BY <1>1, <2>3
    <3>2. q[i + 1] = k - Len(q) + (i + 1)
      BY <1>1, <3>1
    <3> QED
      BY <1>1, <2>3, <3>2
  <2>5. LastPosted(Tail(q), k)
    BY <1>1, <2>3, <2>4 DEF LastPosted
  <2>6. Tail(q) = <<>> => Len(q) = 1
    <3>1. Len(<<>>) = 0
      OBVIOUS
    <3>2. Tail(q) = <<>> => Len(Tail(q)) = 0
      BY <3>1, Zenon
    <3> QED
      BY <1>1, <2>3, <3>2
  <2>7. Tail(q) # <<>> => Head(Tail(q)) = Head(q) + 1
    <3>1. SUFFICES ASSUME Tail(q) # <<>> PROVE Head(Tail(q)) = Head(q) + 1
      OBVIOUS
    <3>2. 1 \in 1..Len(Tail(q)) /\ Head(Tail(q)) = Tail(q)[1]
      BY <2>3, <3>1
    <3>3. Tail(q)[1] = k - Len(Tail(q)) + 1
      BY <2>4, <3>2
    <3> QED
      BY <1>1, <2>2, <2>3, <3>2, <3>3
  <2>8. Tail(q) = <<>> => Head(q) = k
    BY <1>1, <2>2, <2>6
  <2>9. Head(Append(q, k + 1)) = Head(q)
    BY <1>3
  <2>10. Head(q) <= k
    BY <1>1, <2>1, <2>2
  <2> QED
    BY <2>5, <2>7, <2>8, <2>9, <2>10
<1> QED
  BY <1>2, <1>3

LEMMA MessageWords ==
    ASSUME NEW k \in Nat
    PROVE  /\ IsMessageWord(Hdr(k)) /\ IsMessageWord(Body(k))
           /\ NextMessageWord(Body(k)) = Hdr(k + 1)
           /\ NextMessageWord(Hdr(k)) = IF k \in BodyMsgs THEN Body(k) ELSE Hdr(k + 1)
           /\ \A d : ~IsMessageWord(Val(d)) /\ ~IsMessageWord(IDOf(d))
BY DEF IsMessageWord, NextMessageWord, Hdr, Body, Val, IDOf

\* A word more: what is due before it is still due there, and what is due after it
\* depends on it if it is a message's, and not at all otherwise.
LEMMA WordMore ==
    ASSUME NEW t \in Seq(Words), NEW u \in Seq(Words), NEW w \in Words,
           Len(u) = Len(t) + 1, u[Len(u)] = w, \A i \in 1..Len(t) : u[i] = t[i]
    PROVE  /\ \A v : \A i \in 0..Len(t) : Due(t, i, v) => Due(u, i, v)
           /\ IsMessageWord(w) => Due(u, Len(u), NextMessageWord(w))
           /\ ~IsMessageWord(w) => \A v : Due(t, Len(t), v) => Due(u, Len(u), v)
           /\ InOrder(t) /\ (IsMessageWord(w) => Due(t, Len(t), w)) => InOrder(u)
<1> DEFINE n == Len(t)
<1>1. n \in Nat /\ Len(u) = n + 1 /\ DOMAIN t = 1..n /\ DOMAIN u = 1..(n + 1)
  OBVIOUS
<1> HIDE DEF n
<1>2. \A i \in 1..n : u[i] = t[i]
  BY DEF n
<1>3. ASSUME NEW i \in 0..n, NEW v, Due(t, i, v) PROVE Due(u, i, v)
  <2>1. \A j \in 1..i : u[j] = t[j]
    BY <1>1, <1>2
  <2>2. \A j \in 1..i : \A k \in (j + 1)..i : k \in 1..i
    BY <1>1
  <2>3. QED
    BY <1>3, <2>1, <2>2 DEF Due
<1>4. ASSUME IsMessageWord(w) PROVE Due(u, n + 1, NextMessageWord(w))
  <2>1. n + 1 \in 1..(n + 1) /\ ((n + 1) + 1)..(n + 1) = {} /\ u[n + 1] = w
    BY <1>1
  <2>2. QED
    BY <1>4, <2>1 DEF Due
<1>5. ASSUME ~IsMessageWord(w), NEW v, Due(t, n, v) PROVE Due(u, n + 1, v)
  <2>1. u[n + 1] = w
    BY <1>1
  <2>2. \A j \in 1..(n + 1) : j = n + 1 \/ j \in 1..n
    BY <1>1
  <2>3. CASE v = Hdr(1) /\ \A j \in 1..n : ~IsMessageWord(t[j])
    BY <1>2, <1>5, <2>1, <2>2, <2>3 DEF Due
  <2>4. CASE \E j \in 1..n :
                /\ IsMessageWord(t[j])
                /\ \A k \in (j + 1)..n : ~IsMessageWord(t[k])
                /\ v = NextMessageWord(t[j])
    <3>1. PICK j \in 1..n :
                /\ IsMessageWord(t[j])
                /\ \A k \in (j + 1)..n : ~IsMessageWord(t[k])
                /\ v = NextMessageWord(t[j])
      BY <2>4
    <3>2. j \in 1..(n + 1) /\ u[j] = t[j]
      BY <1>1, <1>2
    <3>3. \A k \in (j + 1)..(n + 1) : k = n + 1 \/ (k \in (j + 1)..n /\ k \in 1..n)
      BY <1>1
    <3>4. \A k \in (j + 1)..(n + 1) : ~IsMessageWord(u[k])
      BY <1>2, <1>5, <2>1, <3>1, <3>3
    <3>5. QED
      BY <3>1, <3>2, <3>4 DEF Due
  <2>5. QED
    BY <1>5, <2>3, <2>4 DEF Due
<1>6. ASSUME InOrder(t), IsMessageWord(w) => Due(t, n, w) PROVE InOrder(u)
  <2> SUFFICES ASSUME NEW i \in 1..(n + 1), IsMessageWord(u[i]) PROVE Due(u, i - 1, u[i])
    BY <1>1 DEF InOrder
  <2>1. CASE i = n + 1
    <3>1. i - 1 = n /\ n \in 0..n /\ u[i] = w
      BY <1>1, <2>1
    <3>2. QED
      BY <1>3, <1>6, <3>1
  <2>2. CASE i \in 1..n
    <3>1. i - 1 \in 0..n /\ u[i] = t[i]
      BY <1>1, <1>2, <2>2
    <3>2. Due(t, i - 1, t[i])
      BY <1>1, <1>6, <2>2, <3>1 DEF InOrder
    <3>3. QED
      BY <1>3, <3>1, <3>2
  <2>3. QED
    BY <1>1, <2>1, <2>2
<1>7. QED
  BY <1>1, <1>3, <1>4, <1>5, <1>6 DEF n

-----------------------------------------------------------------------------
(* The steps.                                                               *)

\* What a step of end r leaves alone at the other end.
LEMMA OtherEnd ==
    ASSUME WInv, NEW s \in Side,
           stream'[s] = stream[s], outgoing'[s] = outgoing[s], ran'[s] = ran[s],
           wr'[s] = wr[s]
    PROVE  InOrder(stream'[s]) /\ WireInStep(s)'
BY DEF WInv, WireInStep

\* A word of the exchange.
LEMMA ExchangePuts ==
    ASSUME WInv, NEW s \in Side, NEW w \in Words, ~IsMessageWord(w), Put(s, w),
           UNCHANGED <<outgoing, ran, wr>>
    PROVE  \A r \in Side : InOrder(stream'[r]) /\ WireInStep(r)'
<1>1. stream \in [Side -> Seq(Words)]
  BY DEF WInv, Base, TypeOK, StreamTypes
<1>2. /\ stream' \in [Side -> Seq(Words)]
      /\ Len(stream'[s]) = Len(stream[s]) + 1
      /\ stream'[s][Len(stream[s]) + 1] = w
      /\ \A r \in Side : r # s => stream'[r] = stream[r]
      /\ \A i \in 1..Len(stream[s]) : stream'[s][i] = stream[s][i]
  BY <1>1, PutWord
<1>3. InOrder(stream[s]) /\ WireInStep(s)
  BY DEF WInv
<1>4. /\ InOrder(stream'[s])
      /\ \A v : Due(stream[s], Len(stream[s]), v) => Due(stream'[s], Len(stream'[s]), v)
  BY <1>1, <1>2, <1>3, WordMore
<1>5. WireInStep(s)'
  BY <1>3, <1>4 DEF WireInStep
<1>6. QED
  BY <1>2, <1>4, <1>5, OtherEnd

\* A word of a message, when it is due.
LEMMA WriterPutsDue ==
    ASSUME WInv, NEW s \in Side, NEW w \in Words, IsMessageWord(w), Put(s, w),
           Due(stream[s], Len(stream[s]), w)
    PROVE  /\ InOrder(stream'[s])
           /\ Due(stream'[s], Len(stream'[s]), NextMessageWord(w))
           /\ \A r \in Side : r # s => stream'[r] = stream[r]
<1>1. stream \in [Side -> Seq(Words)]
  BY DEF WInv, Base, TypeOK, StreamTypes
<1>2. /\ stream' \in [Side -> Seq(Words)]
      /\ Len(stream'[s]) = Len(stream[s]) + 1
      /\ stream'[s][Len(stream[s]) + 1] = w
      /\ \A r \in Side : r # s => stream'[r] = stream[r]
      /\ \A i \in 1..Len(stream[s]) : stream'[s][i] = stream[s][i]
  BY <1>1, PutWord
<1>3. InOrder(stream[s])
  BY DEF WInv
<1>4. QED
  BY <1>1, <1>2, <1>3, WordMore

\* The header of message k is written, or the socket rejects it.
LEMMA HeaderWritten ==
    ASSUME WInv, NEW s \in Side, NEW k \in Nat, Due(stream[s], Len(stream[s]), Hdr(k)),
           StartWrite(s, "WriteHeader", Hdr(k)),
           LastPosted(outgoing'[s], ran'[s]), k = Head(outgoing'[s]),
           \A r \in Side : r # s => outgoing'[r] = outgoing[r] /\ ran'[r] = ran[r]
    PROVE  \A r \in Side : InOrder(stream'[r]) /\ WireInStep(r)'
<1>1. wr \in [Side -> WriterOps] /\ InOrder(stream[s])
  BY DEF WInv, Base, TypeOK, SendingTypes
<1>2. CASE wr' = [wr EXCEPT ![s] = "WriteHeader"] /\ Put(s, Hdr(k))
  <2>1. Hdr(k) \in Words /\ IsMessageWord(Hdr(k))
    BY WordTypes, MessageWords
  <2>2. /\ InOrder(stream'[s])
        /\ Due(stream'[s], Len(stream'[s]), NextMessageWord(Hdr(k)))
        /\ \A r \in Side : r # s => stream'[r] = stream[r]
    BY <1>2, <2>1, WriterPutsDue
  <2>3. wr'[s] = "WriteHeader" /\ \A r \in Side : r # s => wr'[r] = wr[r]
    BY <1>1, <1>2
  <2>4. WireInStep(s)'
    BY <2>2, <2>3 DEF WireInStep
  <2>5. QED
    BY <2>2, <2>3, <2>4, OtherEnd
<1>3. CASE wr' = [wr EXCEPT ![s] = "Unconnected"] /\ UNCHANGED stream
  <2>1. wr'[s] = "Unconnected" /\ \A r \in Side : r # s => wr'[r] = wr[r]
    BY <1>1, <1>3
  <2>2. WireInStep(s)'
    BY <2>1 DEF WireInStep
  <2>3. QED
    BY <1>1, <1>3, <2>1, <2>2, OtherEnd
<1>4. QED
  BY <1>2, <1>3 DEF StartWrite

LEMMA LambdaOnWire ==
    ASSUME WInv, NEW s \in Side, SendLambda(s)
    PROVE  \A r \in Side : InOrder(stream'[r]) /\ WireInStep(r)'
<1>1. /\ SendingTypes /\ WriterBusyIffQueued /\ WireInStep(s) /\ InOrder(stream[s])
      /\ ran[s] \in Nat /\ outgoing[s] \in Seq(Nat \ {0}) /\ wr \in [Side -> WriterOps]
  BY DEF WInv, Base, TypeOK, SendingTypes
<1> DEFINE k == ran[s] + 1
<1>2. /\ ran'[s] = k /\ k \in Nat /\ outgoing'[s] = Append(outgoing[s], k)
      /\ \A r \in Side : r # s => outgoing'[r] = outgoing[r] /\ ran'[r] = ran[r]
  BY <1>1 DEF SendLambda, SendingTypes
<1>3. LastPosted(outgoing'[s], ran'[s])
  BY <1>1, <1>2, PostedOps DEF WireInStep
<1>4. CASE outgoing[s] = <<>>
  <2>1. Head(outgoing'[s]) = k
    BY <1>2, <1>4
  <2>2. StartWrite(s, "WriteHeader", Hdr(k))
    BY <1>4, <2>1 DEF SendLambda
  <2>3. Due(stream[s], Len(stream[s]), Hdr(k))
    BY <1>1, <1>4 DEF WireInStep, WriterBusyIffQueued
  <2>4. QED
    BY <1>2, <1>3, <2>1, <2>2, <2>3, HeaderWritten
<1>5. CASE outgoing[s] # <<>>
  <2>1. UNCHANGED <<wr, stream>>
    BY <1>5 DEF SendLambda
  <2>2. Head(outgoing'[s]) = Head(outgoing[s])
    BY <1>1, <1>2, <1>5, PostedOps DEF WireInStep
  <2>3. wr[s] # "Idle"
    BY <1>1, <1>5 DEF WriterBusyIffQueued
  <2>4. WireInStep(s)'
    BY <1>1, <1>3, <2>1, <2>2, <2>3 DEF WireInStep
  <2>5. QED
    BY <1>1, <1>2, <2>1, <2>4, OtherEnd
<1>6. QED
  BY <1>4, <1>5

LEMMA FinishOnWire ==
    ASSUME WInv, NEW s \in Side, FinishMessage(s), outgoing[s] # <<>>, UNCHANGED ran,
           Due(stream[s], Len(stream[s]), Hdr(Head(outgoing[s]) + 1))
    PROVE  \A r \in Side : InOrder(stream'[r]) /\ WireInStep(r)'
<1>1. /\ SendingTypes /\ WireInStep(s) /\ InOrder(stream[s])
      /\ ran[s] \in Nat /\ outgoing[s] \in Seq(Nat \ {0}) /\ wr \in [Side -> WriterOps]
      /\ LastPosted(outgoing[s], ran[s])
  BY DEF WInv, Base, TypeOK, SendingTypes, WireInStep
<1> DEFINE q == Tail(outgoing[s])
<1>2. /\ outgoing'[s] = q /\ \A r \in Side : r # s => outgoing'[r] = outgoing[r]
      /\ Head(outgoing[s]) \in Nat
  BY <1>1, QueueOps DEF FinishMessage, SendingTypes
<1>3. /\ LastPosted(q, ran[s])
      /\ q = <<>> => Head(outgoing[s]) = ran[s]
      /\ q # <<>> => Head(q) = Head(outgoing[s]) + 1
  BY <1>1, PostedOps
<1> HIDE DEF q
<1>4. CASE q = <<>>
  <2>1. wr' = [wr EXCEPT ![s] = "Idle"] /\ UNCHANGED stream
    BY <1>2, <1>4 DEF FinishMessage
  <2>2. wr'[s] = "Idle" /\ \A r \in Side : r # s => wr'[r] = wr[r]
    BY <1>1, <2>1
  <2>3. Due(stream'[s], Len(stream'[s]), Hdr(ran'[s] + 1))
    BY <1>3, <1>4, <2>1
  <2>4. WireInStep(s)'
    BY <1>2, <1>3, <2>2, <2>3 DEF WireInStep
  <2>5. QED
    BY <1>1, <1>2, <2>1, <2>2, <2>4, OtherEnd
<1>5. CASE q # <<>>
  <2>1. StartWrite(s, "WriteHeader", Hdr(Head(q)))
    BY <1>2, <1>5 DEF FinishMessage
  <2>2. Head(q) \in Nat /\ Due(stream[s], Len(stream[s]), Hdr(Head(q)))
    BY <1>2, <1>3, <1>5
  <2>3. QED
    BY <1>2, <1>3, <2>1, <2>2, HeaderWritten
<1>6. QED
  BY <1>4, <1>5

LEMMA WritesOnWire ==
    ASSUME WInv, NEW s \in Side, WriteHeader(s) \/ WriteBody(s)
    PROVE  \A r \in Side : InOrder(stream'[r]) /\ WireInStep(r)'
<1>1. /\ WriterBusyIffQueued /\ WireInStep(s) /\ InOrder(stream[s])
      /\ outgoing[s] \in Seq(Nat \ {0}) /\ wr \in [Side -> WriterOps]
  BY DEF WInv, Base, TypeOK, SendingTypes
<1> DEFINE k == Head(outgoing[s])
<1>2. outgoing[s] # <<>> /\ UNCHANGED ran
  BY <1>1 DEF WriteHeader, WriteBody, WriterBusyIffQueued
<1>3. k \in Nat
  BY <1>1, <1>2, QueueOps
<1> HIDE DEF k
<1>4. CASE WriteHeader(s) /\ k \in BodyMsgs
  <2>1. StartWrite(s, "WriteBody", Body(k)) /\ UNCHANGED outgoing /\ wr[s] = "WriteHeader"
    BY <1>4 DEF WriteHeader, k
  <2>2. Due(stream[s], Len(stream[s]), Body(k))
    BY <1>1, <1>3, <1>4, <2>1, MessageWords DEF WireInStep, k
  <2>3. CASE wr' = [wr EXCEPT ![s] = "WriteBody"] /\ Put(s, Body(k))
    <3>1. Body(k) \in Words /\ IsMessageWord(Body(k)) /\ NextMessageWord(Body(k)) = Hdr(k + 1)
      BY <1>3, WordTypes, MessageWords
    <3>2. /\ InOrder(stream'[s])
          /\ Due(stream'[s], Len(stream'[s]), Hdr(k + 1))
          /\ \A r \in Side : r # s => stream'[r] = stream[r]
      BY <2>2, <2>3, <3>1, WriterPutsDue
    <3>3. wr'[s] = "WriteBody" /\ \A r \in Side : r # s => wr'[r] = wr[r]
      BY <1>1, <2>3
    <3>4. WireInStep(s)'
      BY <1>1, <1>2, <2>1, <3>2, <3>3 DEF WireInStep, k
    <3>5. QED
      BY <1>2, <2>1, <3>2, <3>3, <3>4, OtherEnd
  <2>4. CASE wr' = [wr EXCEPT ![s] = "Unconnected"] /\ UNCHANGED stream
    <3>1. wr'[s] = "Unconnected" /\ \A r \in Side : r # s => wr'[r] = wr[r]
      BY <1>1, <2>4
    <3>2. WireInStep(s)'
      BY <1>1, <1>2, <2>1, <3>1 DEF WireInStep
    <3>3. QED
      BY <1>1, <1>2, <2>1, <2>4, <3>1, <3>2, OtherEnd
  <2>5. QED
    BY <2>1, <2>3, <2>4 DEF StartWrite
<1>5. CASE WriteHeader(s) /\ k \notin BodyMsgs
  <2>1. FinishMessage(s) /\ wr[s] = "WriteHeader"
    BY <1>5 DEF WriteHeader, k
  <2>2. Due(stream[s], Len(stream[s]), Hdr(k + 1))
    BY <1>1, <1>3, <1>5, <2>1, MessageWords DEF WireInStep, k
  <2>3. QED
    BY <1>2, <2>1, <2>2, FinishOnWire DEF k
<1>6. CASE WriteBody(s)
  <2>1. FinishMessage(s) /\ wr[s] = "WriteBody"
    BY <1>6 DEF WriteBody
  <2>2. Due(stream[s], Len(stream[s]), Hdr(k + 1))
    BY <1>1, <2>1 DEF WireInStep, k
  <2>3. QED
    BY <1>2, <2>1, <2>2, FinishOnWire DEF k
<1>7. QED
  BY <1>4, <1>5, <1>6

LEMMA WInvNext == WInv /\ [Next]_vars => WInv'
<1> SUFFICES ASSUME WInv, [Next]_vars PROVE \A r \in Side : InOrder(stream'[r]) /\ WireInStep(r)'
  BY BaseNext DEF WInv
<1>1. ControlTypes /\ CheckingTypes /\ StreamTypes /\ SendingTypes
  BY DEF WInv, Base, TypeOK
<1>2. CASE UNCHANGED <<stream, outgoing, ran, wr>>
  BY <1>2, OtherEnd
<1>3. ASSUME NEW s \in Side, SendLambda(s) \/ WriteHeader(s) \/ WriteBody(s)
      PROVE  \A r \in Side : InOrder(stream'[r]) /\ WireInStep(r)'
  BY <1>3, LambdaOnWire, WritesOnWire
<1>4. ASSUME NEW s \in Side, WriterFails(s)
      PROVE  \A r \in Side : InOrder(stream'[r]) /\ WireInStep(r)'
  <2>1. wr' = [wr EXCEPT ![s] = "Failed"] /\ UNCHANGED <<stream, outgoing, ran>>
    BY <1>4 DEF WriterFails
  <2>2. wr'[s] = "Failed" /\ \A r \in Side : r # s => wr'[r] = wr[r]
    BY <1>1, <2>1 DEF SendingTypes
  <2>3. WireInStep(s) /\ InOrder(stream[s])
    BY DEF WInv
  <2>4. WireInStep(s)'
    BY <2>1, <2>2, <2>3 DEF WireInStep
  <2>5. QED
    BY <2>1, <2>2, <2>3, <2>4, OtherEnd
<1>5. ASSUME NEW s \in Side, NEW d \in Data, Put(s, Val(d)), UNCHANGED <<outgoing, ran, wr>>
      PROVE  \A r \in Side : InOrder(stream'[r]) /\ WireInStep(r)'
  <2>1. Val(d) \in Words /\ ~IsMessageWord(Val(d))
    BY WordTypes DEF IsMessageWord, Val
  <2>2. QED
    BY <1>5, <2>1, ExchangePuts
<1>6. CASE Accept
  BY <1>2, <1>5, <1>6 DEF Accept, sending, Side
<1>7. CASE WriteValidation3
  <2>1. IDOf(id["Server"]) \in Words /\ ~IsMessageWord(IDOf(id["Server"]))
    BY <1>1, WordTypes DEF CheckingTypes, IsMessageWord, IDOf, Side
  <2>2. QED
    BY <1>7, <2>1, ExchangePuts DEF WriteValidation3, sending, Side
<1>8. CASE ReadValidation1
  <2>1. PICK in \in AsData(Received("Client")) : Put("Client", Val(cipher["Client"][in]))
    BY <1>8 DEF ReadValidation1
  <2>2. in \in Data
    BY <1>1, <1>8, TakeWord, WordTypes DEF ReadValidation1, Side
  <2>3. cipher["Client"][in] \in Data
    BY <1>1, <2>2, EncryptType DEF ControlTypes, Side
  <2>4. QED
    BY <1>5, <1>8, <2>1, <2>3 DEF ReadValidation1, sending, Side
<1>9. CASE ReadValidation2
  <2>1. UNCHANGED <<outgoing, ran, wr>> /\ Take("Server")
    BY <1>9 DEF ReadValidation2
  <2>2. CASE UNCHANGED stream
    BY <1>2, <2>1, <2>2
  <2>3. ASSUME NEW in \in AsData(Received("Server")), Put("Server", Val(cipher["Server"][in]))
        PROVE  \A r \in Side : InOrder(stream'[r]) /\ WireInStep(r)'
    <3>1. in \in Data
      BY <1>1, <2>1, TakeWord, WordTypes DEF Side
    <3>2. cipher["Server"][in] \in Data
      BY <1>1, <3>1, EncryptType DEF ControlTypes, Side
    <3>3. QED
      BY <1>5, <2>1, <2>3, <3>2 DEF Side
  <2>4. QED
    BY <1>9, <2>2, <2>3 DEF ReadValidation2
<1>10. \/ Accept \/ WriteValidation3 \/ ReadValidation1 \/ ReadValidation2
       \/ \E s \in Side : \/ SendLambda(s) \/ WriteHeader(s) \/ WriteBody(s) \/ WriterFails(s)
       \/ UNCHANGED <<stream, outgoing, ran, wr>>
  BY DEF vars, sending, receiving, Next, Validation, Connected, ValidationWritten,
     ReadValidation3, ReadValidation4, Poll, LinkDown, ChainFails, ReadHeader, ReadBody,
     Send, Shutdown
<1>11. QED
  BY <1>2, <1>3, <1>4, <1>6, <1>7, <1>8, <1>9, <1>10

LEMMA WInvInit == Init => WInv
<1> SUFFICES ASSUME Init, NEW s \in Side PROVE InOrder(stream[s]) /\ WireInStep(s)
  BY BaseInit DEF WInv
<1>1. stream[s] = <<>> /\ wr[s] = "Idle" /\ ran[s] = 0 /\ outgoing[s] = <<>>
  BY DEF Init
<1>2. Len(<<>>) = 0 /\ DOMAIN <<>> = {} /\ 1..0 = {} /\ 0 + 1 = 1
  OBVIOUS
<1>3. InOrder(stream[s]) /\ Due(stream[s], Len(stream[s]), Hdr(ran[s] + 1))
  BY <1>1, <1>2 DEF InOrder, Due
<1>4. LastPosted(outgoing[s], ran[s])
  BY <1>1, <1>2 DEF LastPosted
<1>5. QED
  BY <1>1, <1>3, <1>4 DEF WireInStep

\* Whenever Send is called and whatever fails, the words of the messages are in order
\* on the wire: none is interleaved with another, repeated or skipped.
THEOREM MessagesWhole == Spec => []MessageWordsInOrder
<1>1. WInv => MessageWordsInOrder
  BY DEF WInv, InOrder, MessageWordsInOrder
<1>2. QED
  BY <1>1, WInvInit, WInvNext, PTL DEF Spec
=============================================================================
