---------------------------- MODULE ClientProofs ----------------------------
(***************************************************************************)
(* Theorems about DedicatedClient, for any number of connections, sends    *)
(* and messages: IInv is inductive, one lemma for each action.             *)
(***************************************************************************)
EXTENDS DedicatedClient, IoContextProofs

P == Packets \cup {StopEvent}
O == Operations
CNext == ContextNext(P, O)
Labels == AppLabels \cup ContextLabels

-----------------------------------------------------------------------------
(* Packets and the operations of a chain.                                   *)

LEMMA PacketsFit == PacketsOf(P, O)
<1>1. \A o \in O, good \in BOOLEAN : Packet(o, good) \in Packets
  BY DEF O, Operations, Packets, Packet
<1>2. \A p \in Packets : p.op # "stop"
  BY DEF Packets
<1>3. StopEvent.op = "stop"
  BY DEF StopEvent
<1>4. QED
  BY <1>1, <1>2, <1>3 DEF PacketsOf, P

LEMMA NotStop == \A p \in Packets : p \in P \ {StopEvent}
<1>1. \A p \in Packets : p.op # "stop"
  BY DEF Packets
<1>2. StopEvent.op = "stop"
  BY DEF StopEvent
<1>3. QED
  BY <1>1, <1>2 DEF P

LEMMA ChainAppend ==
    ASSUME NEW S, NEW s \in Seq(S), NEW e \in S, NEW c
    PROVE  /\ HasChain(s, c) => HasChain(Append(s, e), c)
           /\ e.op \in {"connect", "read"} /\ e.conn = c => HasChain(Append(s, e), c)
<1> DEFINE t == Append(s, e)
<1>1. /\ Len(t) = Len(s) + 1 /\ t[Len(s) + 1] = e
      /\ \A i \in 1 .. Len(s) : t[i] = s[i]
      /\ t \in Seq(S)
  BY AppendProperties
<1>2. DOMAIN t = 1 .. Len(s) + 1 /\ DOMAIN s = 1 .. Len(s) /\ Len(s) \in Nat
  BY <1>1, LenProperties
<1> HIDE DEF t
<1>3. HasChain(s, c) => HasChain(t, c)
  BY <1>1, <1>2 DEF HasChain
<1>4. e.op \in {"connect", "read"} /\ e.conn = c => HasChain(t, c)
  <2>1. Len(s) + 1 \in DOMAIN t
    BY <1>2
  <2>2. QED
    BY <1>1, <2>1 DEF HasChain
<1>5. QED
  BY <1>3, <1>4 DEF t

LEMMA ChainConcat ==
    ASSUME NEW S, NEW s \in Seq(S), NEW t \in Seq(S), NEW c, HasChain(s, c)
    PROVE  HasChain(s \o t, c)
<1>1. PICK i \in DOMAIN s : s[i].op \in {"connect", "read"} /\ s[i].conn = c
  BY DEF HasChain
<1>2. i \in 1 .. Len(s) /\ Len(s) \in Nat /\ Len(t) \in Nat
  BY LenProperties
<1>3. /\ (s \o t)[i] = s[i]
      /\ i \in DOMAIN (s \o t)
  BY <1>2, ConcatProperties, LenProperties
<1>4. QED
  BY <1>1, <1>3 DEF HasChain

LEMMA ChainTail ==
    ASSUME NEW S, NEW s \in Seq(S), s # <<>>, NEW c, HasChain(s, c),
           ~(Head(s).op \in {"connect", "read"} /\ Head(s).conn = c)
    PROVE  HasChain(Tail(s), c)
<1>1. PICK i \in DOMAIN s : s[i].op \in {"connect", "read"} /\ s[i].conn = c
  BY DEF HasChain
<1>2. i \in 1 .. Len(s) /\ Len(s) \in Nat
  BY LenProperties
<1>3. /\ Head(s) = s[1] /\ Tail(s) \in Seq(S) /\ Len(Tail(s)) = Len(s) - 1
      /\ \A j \in 1 .. Len(Tail(s)) : Tail(s)[j] = s[j + 1]
  BY HeadTailProperties
<1>4. i # 1
  BY <1>1, <1>3
<1>5. i - 1 \in 1 .. Len(Tail(s)) /\ DOMAIN Tail(s) = 1 .. Len(Tail(s))
  BY <1>2, <1>3, <1>4, LenProperties
<1>6. Tail(s)[i - 1] = s[(i - 1) + 1] /\ (i - 1) + 1 = i
  BY <1>2, <1>3, <1>5
<1>7. QED
  BY <1>1, <1>5, <1>6 DEF HasChain

LEMMA ChainRemove ==
    ASSUME NEW S, NEW s \in Seq(S), NEW k \in DOMAIN s, NEW c, HasChain(s, c),
           ~(s[k].op \in {"connect", "read"} /\ s[k].conn = c)
    PROVE  HasChain(RemoveAt(s, k), c)
<1> DEFINE t == RemoveAt(s, k)
<1>1. PICK i \in DOMAIN s : s[i].op \in {"connect", "read"} /\ s[i].conn = c
  BY DEF HasChain
<1>2. i \in 1 .. Len(s) /\ k \in 1 .. Len(s) /\ Len(s) \in Nat /\ i # k
  BY <1>1, LenProperties
<1>3. /\ t \in Seq(S) /\ Len(t) = Len(s) - 1
      /\ \A j \in 1 .. Len(s) - 1 : t[j] = IF j < k THEN s[j] ELSE s[j + 1]
  BY RemoveAtProperties
<1>4. DOMAIN t = 1 .. Len(s) - 1
  BY <1>3, LenProperties
<1> HIDE DEF t
<1>5. CASE i < k
  <2>1. i \in 1 .. Len(s) - 1 /\ t[i] = s[i]
    BY <1>2, <1>3, <1>5
  <2>2. QED
    BY <1>1, <1>4, <2>1 DEF HasChain, t
<1>6. CASE i > k
  <2>1. i - 1 \in 1 .. Len(s) - 1 /\ ~(i - 1 < k) /\ (i - 1) + 1 = i
    BY <1>2, <1>6
  <2>2. t[i - 1] = s[i]
    BY <1>3, <2>1
  <2>3. QED
    BY <1>1, <1>4, <2>1, <2>2 DEF HasChain, t
<1>7. i < k \/ i > k
  BY <1>2
<1>8. QED
  BY <1>5, <1>6, <1>7

-----------------------------------------------------------------------------
(* What every step has at hand, and what it leaves to show.                 *)

Rest == ClientTypeOK /\ Places /\ Sockets /\ HasWork /\ Prepared

LEMMA IInvMeans ==
    IInv <=> ContextTypeOK(P, O) /\ CInv /\ Rest
BY DEF IInv, TypeOK, P, O, CInv, Rest

LEMMA StepKeeps ==
    ASSUME IInv, CNext, Rest'
    PROVE  IInv'
<1>1. ContextTypeOK(P, O) /\ CInv /\ ClientTypeOK
  BY DEF IInv, TypeOK, P, O, CInv
<1>2. pc \in [Threads -> Labels \cup {"Terminated"}]
  BY <1>1 DEF ClientTypeOK, Labels
<1>3. ContextTypeOK(P, O)' /\ CInv'
  <2> HIDE DEF P, O, CInv, ContextTypeOK
  <2>1. QED
    BY <1>1, <1>2, ContextKept, PacketsFit DEF CNext
<1>4. QED
  BY <1>3 DEF IInv, TypeOK, P, O, CInv, Rest

LEMMA AtHand ==
    ASSUME IInv, ~Terminated
    PROVE  /\ pc \in [Threads -> Labels]
           /\ pc["App"] \in AppLabels /\ pc["Context"] \in ContextLabels
           /\ port \in Seq(P) /\ pending \in Seq(O)
           /\ outstanding_work \in Nat /\ stopped \in BOOLEAN
           /\ made \in 0 .. MaxConnects /\ m_pConnection \in 0 .. made
           /\ then \in {"Idle", "Connect"}
           /\ isOpen \in BOOLEAN /\ reopening \in BOOLEAN /\ closings \in 0 .. MaxClosings
           /\ incoming \in 0 .. MaxMessages
           /\ outgoing \in [Connections -> Nat] /\ sent \in 0 .. MaxSends
           /\ failed \in BOOLEAN
           /\ Rest
<1>1. ContextTypeOK(P, O) /\ Rest
  BY IInvMeans
<1>2. port \in Seq(P) /\ pending \in Seq(O) /\ outstanding_work \in Nat
      /\ stopped \in BOOLEAN
  BY <1>1 DEF ContextTypeOK
<1>3. ~(pc = [t \in Threads |-> "Terminated"])
  BY DEF Terminated, Threads
<1>4. QED
  BY <1>1, <1>2, <1>3 DEF Rest, ClientTypeOK, Labels

\* A step that changes no variable of the context but pc, and no label of its thread.
LEMMA AppStays ==
    ASSUME IInv, NEW a \in AppLabels \ {"PostStop"}, NEW b \in AppLabels,
           pc["App"] = a, Goto("App", b), UNCHANGED cvars
    PROVE  /\ CNext /\ ~Terminated /\ ~Terminated'
           /\ pc'["App"] = b /\ pc'["Context"] = pc["Context"]
           /\ pc' \in [Threads -> Labels]
<1>1. ~Terminated
  <2>1. pc["App"] # "Terminated"
    BY DEF AppLabels, StopLabels
  <2>2. QED
    BY <2>1 DEF IInv, TypeOK, ClientTypeOK, ContextLabels, InDoOne, InHandling, Leaving,
                Terminated, Threads
<1>2. pc \in [Threads -> Labels] /\ pc["Context"] \in ContextLabels
  BY <1>1, AtHand
<1>3. /\ pc'["App"] = b /\ pc'["Context"] = pc["Context"]
      /\ pc' \in [Threads -> Labels]
  BY <1>2 DEF Goto, Threads, Labels
<1>4. ~Terminated'
  BY <1>1, <1>3 DEF Terminated
<1>5. AppMoves
  BY <1>1, <1>3 DEF AppMoves
<1>6. QED
  BY <1>1, <1>3, <1>4, <1>5 DEF CNext, ContextNext

LEMMA CallConnectStep == ASSUME IInv, CallConnect PROVE IInv'
<1>1. /\ pc["App"] = "Idle" /\ UNCHANGED cvars
      /\ \/ m_pConnection # 0 /\ isOpen /\ Goto("App", "Disconnect")
         \/ ~(m_pConnection # 0 /\ isOpen) /\ Goto("App", "Connect")
      /\ then' = "Connect" /\ made < MaxConnects
      /\ UNCHANGED <<m_pConnection, made, isOpen, reopening, closings, incoming, outgoing,
                     sent, failed>>
  BY DEF CallConnect, IsConnected, cvars, socket, messages
<1>2. PICK b \in {"Disconnect", "Connect"} :
         Goto("App", b) /\ (m_pConnection # 0 /\ isOpen <=> b = "Disconnect")
  BY <1>1
<1>3. b \in AppLabels /\ "Idle" \in AppLabels \ {"PostStop"}
  BY DEF AppLabels, StopLabels
<1>4. /\ CNext /\ ~Terminated /\ ~Terminated'
      /\ pc'["App"] = b /\ pc'["Context"] = pc["Context"]
      /\ pc' \in [Threads -> Labels]
  BY <1>1, <1>2, <1>3, AppStays
<1>5. ClientTypeOK'
  BY <1>1, <1>3, <1>4, AtHand DEF ClientTypeOK, Labels
<1>6. Places'
  <2>1. b = "Connect" => pc["Context"] = "None" \/ closings > 0
    BY <1>2, <1>4, AtHand DEF Rest, Places, Sockets
  <2>2. QED
    BY <1>1, <1>2, <1>4, <2>1, AtHand DEF Rest, Places, InDisconnect, StopLabels
<1>7. Sockets' /\ HasWork'
  BY <1>1, <1>2, <1>4, AtHand DEF Rest, Sockets, HasWork, cvars
<1>8. Prepared'
  BY <1>1, <1>2, <1>4, AtHand DEF Rest, Prepared, cvars
<1>9. QED
  BY <1>4, <1>5, <1>6, <1>7, <1>8, StepKeeps DEF Rest

LEMMA CallDisconnectStep == ASSUME IInv, CallDisconnect PROVE IInv'
<1>1. /\ pc["App"] = "Idle" /\ UNCHANGED cvars
      /\ m_pConnection # 0 /\ Goto("App", "Disconnect")
      /\ then' = "Idle"
      /\ UNCHANGED <<m_pConnection, made, isOpen, reopening, closings, incoming, outgoing,
                     sent, failed>>
  BY DEF CallDisconnect, cvars, socket, messages
<1>2. "Disconnect" \in AppLabels /\ "Idle" \in AppLabels \ {"PostStop"}
  BY DEF AppLabels, StopLabels
<1>3. /\ CNext /\ ~Terminated /\ ~Terminated'
      /\ pc'["App"] = "Disconnect" /\ pc'["Context"] = pc["Context"]
      /\ pc' \in [Threads -> Labels]
  BY <1>1, <1>2, AppStays
<1>4. ClientTypeOK'
  BY <1>1, <1>2, <1>3, AtHand DEF ClientTypeOK, Labels
<1>5. Places'
  BY <1>1, <1>3, AtHand DEF Rest, Places, InDisconnect, StopLabels
<1>6. Sockets' /\ HasWork'
  BY <1>1, <1>3, AtHand DEF Rest, Sockets, HasWork, cvars
<1>7. Prepared'
  BY <1>1, <1>3, AtHand DEF Rest, Prepared, cvars
<1>8. QED
  BY <1>3, <1>4, <1>5, <1>6, <1>7, StepKeeps DEF Rest

\* A step from a to b of a thread that holds none of the client's variables.
LEMMA AppPasses ==
    ASSUME IInv, UNCHANGED cvars, UNCHANGED <<socket, m_pConnection, made, then, failed>>,
           incoming' \in 0 .. MaxMessages, sent' \in 0 .. MaxSends,
           outgoing' = outgoing,
           NEW a \in AppLabels, NEW b \in AppLabels, pc["App"] = a, Goto("App", b),
           \/ a = "Connect" /\ b = "Idle"
           \/ a = "Disconnect" /\ b \in {"PostClose", "StopFlag"}
           \/ a = "Idle" /\ b = "PostSend" /\ m_pConnection # 0
    PROVE  IInv'
<1>1. a # "PostStop"
  OBVIOUS
<1>2. /\ CNext /\ ~Terminated /\ ~Terminated'
      /\ pc'["App"] = b /\ pc'["Context"] = pc["Context"]
      /\ pc' \in [Threads -> Labels]
  BY <1>1, AppStays
<1>3. UNCHANGED <<isOpen, reopening, closings>>
  BY DEF socket
<1>4. ClientTypeOK'
  BY <1>2, <1>3, AtHand DEF ClientTypeOK, Labels
<1>5. Places'
  BY <1>2, <1>3, AtHand DEF Rest, Places, InDisconnect, StopLabels
<1>6. Sockets' /\ HasWork'
  BY <1>2, <1>3, AtHand DEF Rest, Sockets, HasWork, cvars
<1>7. Prepared'
  BY <1>2, <1>3, AtHand DEF Rest, Prepared, cvars
<1>8. QED
  BY <1>2, <1>4, <1>5, <1>6, <1>7, StepKeeps DEF Rest

LEMMA ConnectFailsStep == ASSUME IInv, ConnectFails PROVE IInv'
<1>1. /\ pc["App"] = "Connect" /\ UNCHANGED cvars /\ Goto("App", "Idle")
      /\ UNCHANGED <<socket, m_pConnection, made, then, failed, incoming, outgoing, sent>>
  BY DEF ConnectFails, cvars, client, messages
<1>2. "Connect" \in AppLabels /\ "Idle" \in AppLabels
  BY DEF AppLabels
<1>3. incoming \in 0 .. MaxMessages /\ sent \in 0 .. MaxSends
  BY IInvMeans DEF Rest, ClientTypeOK
<1>4. QED
  BY <1>1, <1>2, <1>3, AppPasses

LEMMA TestSocketStep == ASSUME IInv, TestSocket PROVE IInv'
<1>1. /\ pc["App"] = "Disconnect" /\ UNCHANGED cvars
      /\ \/ Goto("App", "PostClose")
         \/ Goto("App", "StopFlag")
      /\ UNCHANGED <<socket, m_pConnection, made, then, failed, incoming, outgoing, sent>>
  BY DEF TestSocket, cvars, client, messages
<1>2. PICK b \in {"PostClose", "StopFlag"} : Goto("App", b)
  BY <1>1
<1>3. "Disconnect" \in AppLabels /\ b \in AppLabels
  BY DEF AppLabels, StopLabels
<1>4. incoming \in 0 .. MaxMessages /\ sent \in 0 .. MaxSends
  BY IInvMeans DEF Rest, ClientTypeOK
<1>5. QED
  BY <1>1, <1>2, <1>3, <1>4, AppPasses

LEMMA CallSendStep == ASSUME IInv, CallSend PROVE IInv'
<1>1. /\ pc["App"] = "Idle" /\ UNCHANGED cvars /\ Goto("App", "PostSend")
      /\ m_pConnection # 0 /\ sent < MaxSends /\ sent' = sent + 1
      /\ UNCHANGED <<socket, m_pConnection, made, then, failed, incoming, outgoing>>
  BY DEF CallSend, IsConnected, cvars
<1>2. "Idle" \in AppLabels /\ "PostSend" \in AppLabels
  BY DEF AppLabels
<1>3. incoming \in 0 .. MaxMessages /\ sent' \in 0 .. MaxSends
  BY <1>1, IInvMeans, BoundsAssumption DEF Rest, ClientTypeOK
<1>4. QED
  BY <1>1, <1>2, <1>3, AppPasses

LEMMA ResetStep == ASSUME IInv, Reset PROVE IInv'
<1>1. /\ pc["App"] = "Reset" /\ UNCHANGED cvars /\ Goto("App", then)
      /\ m_pConnection' = 0 /\ isOpen' = FALSE
      /\ UNCHANGED <<made, then, reopening, closings, incoming, outgoing, sent, failed>>
  BY DEF Reset, cvars, messages
<1>2. "Reset" \in AppLabels \ {"PostStop"} /\ ~Terminated
  BY <1>1 DEF AppLabels, StopLabels, IInv, TypeOK, ClientTypeOK, ContextLabels, InDoOne,
              InHandling, Leaving, Terminated, Threads
<1>3. then \in {"Idle", "Connect"} /\ then \in AppLabels
  BY <1>2, AtHand DEF AppLabels
<1>4. /\ CNext /\ ~Terminated /\ ~Terminated'
      /\ pc'["App"] = then /\ pc'["Context"] = pc["Context"]
      /\ pc' \in [Threads -> Labels]
  BY <1>1, <1>2, <1>3, AppStays
<1>5. ClientTypeOK'
  <2>1. m_pConnection' \in 0 .. made'
    BY <1>1, <1>2, AtHand
  <2>2. pc'["App"] \in AppLabels /\ pc'["Context"] \in ContextLabels
    BY <1>2, <1>3, <1>4, AtHand
  <2>3. QED
    BY <1>1, <1>2, <1>4, <2>1, <2>2, AtHand DEF ClientTypeOK, Labels
<1>6. Places'
  BY <1>1, <1>3, <1>4, AtHand DEF Rest, Places, InDisconnect, StopLabels
<1>7. Sockets' /\ HasWork'
  BY <1>1, <1>3, <1>4, AtHand DEF Rest, Places, Sockets, HasWork, cvars
<1>8. Prepared'
  BY <1>1, <1>3, <1>4, AtHand DEF Rest, Places, Prepared, cvars
<1>9. QED
  BY <1>4, <1>5, <1>6, <1>7, <1>8, StepKeeps DEF Rest

LEMMA PollMessagesStep == ASSUME IInv, PollMessages PROVE IInv'
<1>1. /\ pc["App"] = "Idle" /\ UNCHANGED <<cvars, pc>>
      /\ incoming > 0 /\ incoming' = incoming - 1
      /\ UNCHANGED <<m_pConnection, made, then, isOpen, reopening, closings, outgoing, sent,
                     failed>>
  BY DEF PollMessages, context, cvars, socket
<1>2. CNext
  BY <1>1 DEF CNext, ContextNext
<1>3. ClientTypeOK /\ Rest
  BY IInvMeans DEF Rest
<1>4. incoming' \in 0 .. MaxMessages
  BY <1>1, <1>3, BoundsAssumption DEF ClientTypeOK
<1>5. ClientTypeOK'
  BY <1>1, <1>3, <1>4 DEF ClientTypeOK
<1>6. Places' /\ Sockets'
  BY <1>1, <1>3 DEF Rest, Places, Sockets, cvars, Terminated
<1>7. HasWork' /\ Prepared'
  BY <1>1, <1>3 DEF Rest, HasWork, Prepared, cvars, Terminated
<1>8. QED
  BY <1>2, <1>5, <1>6, <1>7, StepKeeps DEF Rest

LEMMA Running ==
    ASSUME IInv, NEW t \in Threads, pc[t] # "Terminated"
    PROVE  ~Terminated
BY DEF IInv, TypeOK, ClientTypeOK, Terminated, Threads, ContextLabels, InDoOne,
       InHandling, Leaving

\* Appending does not change the next packet.
LEMMA PortGrows ==
    ASSUME NEW S, NEW s \in Seq(S), NEW e \in S, s # <<>>
    PROVE  Append(s, e) # <<>> /\ Head(Append(s, e)) = Head(s)
<1>1. /\ Len(Append(s, e)) = Len(s) + 1 /\ Append(s, e) \in Seq(S)
      /\ \A i \in 1 .. Len(s) : Append(s, e)[i] = s[i]
  BY AppendProperties
<1>2. Len(s) \in Nat /\ Len(s) # 0
  BY LenProperties, EmptySeq
<1>3. Append(s, e) # <<>>
  BY <1>1, <1>2
<1>4. 1 \in 1 .. Len(s)
  BY <1>2
<1>5. Head(s) = s[1] /\ Head(Append(s, e)) = Append(s, e)[1]
  BY <1>1, <1>3, HeadTailProperties
<1>6. QED
  BY <1>1, <1>3, <1>4, <1>5

LEMMA ConnectToServerStep == ASSUME IInv, ConnectToServer PROVE IInv'
<1> DEFINE c == made + 1
           o == Op("connect", c)
           p == Packet(o, FALSE)
<1>1. /\ pc["App"] = "Connect" /\ Goto("App", "StartThread")
      /\ made' = c /\ m_pConnection' = c
      /\ \/ Start(o) /\ isOpen' = TRUE /\ closings' = closings /\ failed' = failed
         \/ /\ Post(p) /\ isOpen' = FALSE /\ failed' = TRUE
            /\ closings < MaxClosings /\ closings' = closings + 1
      /\ UNCHANGED <<then, reopening, incoming, outgoing, sent>>
  BY DEF ConnectToServer, messages
<1>2. ~Terminated
  BY <1>1, Running DEF Threads
<1>3. made < MaxConnects /\ (pc["Context"] = "None" \/ closings > 0)
  BY <1>1, <1>2, AtHand DEF Rest, Places
<1>4. c \in 1 .. MaxConnects
  BY <1>2, <1>3, AtHand, BoundsAssumption
<1>5. o \in O /\ o.op = "connect" /\ o.conn = c
  BY <1>4 DEF O, Operations, Op, Connections
<1>6. p \in P \ {StopEvent}
  BY <1>5, PacketsFit DEF PacketsOf
<1>7. /\ pc'["App"] = "StartThread" /\ pc'["Context"] = pc["Context"]
      /\ pc' \in [Threads -> Labels] /\ ~Terminated'
  BY <1>1, <1>2, <1>3, AtHand DEF Goto, Threads, Labels, Terminated, AppLabels
<1>8. /\ stopped' = stopped /\ outstanding_work' = outstanding_work + 1
      /\ \/ pending' = Append(pending, o) /\ port' = port
         \/ pending' = pending /\ port' = Append(port, p)
  BY <1>1 DEF Start, Post
<1>9. CNext
  <2>1. AppMoves
    BY <1>1, <1>2, <1>7 DEF AppMoves
  <2>2. QED
    BY <1>1, <1>5, <1>6, <2>1 DEF CNext, ContextNext
<1>10. ~failed' => HasChain(pending', m_pConnection')
  <2>1. pending \in Seq(O)
    BY <1>2, AtHand
  <2>2. HasChain(Append(pending, o), c)
    BY <1>5, <2>1, ChainAppend
  <2>3. QED
    BY <1>1, <2>2 DEF Start
<1>11. outstanding_work' > 0
  BY <1>2, <1>8, AtHand
<1>12. reopening => port' # <<>> /\ Head(port') = Head(port)
  <2>1. ASSUME port' = Append(port, p), port # <<>>
        PROVE  port' # <<>> /\ Head(port') = Head(port)
    BY <1>2, <1>6, <2>1, AtHand, PortGrows
  <2>2. reopening => port # <<>>
    BY <1>2, AtHand DEF Rest, Sockets
  <2>3. QED
    BY <1>8, <2>1, <2>2
<1>13. /\ closings' \in 0 .. MaxClosings /\ closings' >= closings /\ closings \in Nat
       /\ isOpen' \in BOOLEAN /\ failed' \in BOOLEAN /\ (closings' = 0 => isOpen')
       /\ failed => failed'
  <2>1. closings \in 0 .. MaxClosings /\ MaxClosings \in Nat /\ isOpen \in BOOLEAN
        /\ failed \in BOOLEAN
    BY <1>2, AtHand, BoundsAssumption
  <2>2. CASE isOpen' = TRUE /\ closings' = closings /\ failed' = failed
    BY <2>1, <2>2
  <2>3. CASE /\ isOpen' = FALSE /\ failed' = TRUE
             /\ closings < MaxClosings /\ closings' = closings + 1
    <3>1. closings' \in 0 .. MaxClosings /\ closings' >= closings /\ closings' # 0
      BY <2>1, <2>3
    <3>2. isOpen' \in BOOLEAN /\ failed' \in BOOLEAN /\ failed'
      BY <2>3
    <3>3. QED
      BY <2>1, <3>1, <3>2
  <2>4. QED
    BY <1>1, <2>2, <2>3
<1> HIDE DEF c, o, p
<1>14. ClientTypeOK'
  <2>1. made' \in 0 .. MaxConnects /\ m_pConnection' \in 0 .. made'
    BY <1>1, <1>4
  <2>2. pc'["App"] \in AppLabels /\ pc'["Context"] \in ContextLabels
    BY <1>2, <1>7, AtHand DEF AppLabels, ContextLabels
  <2>3. QED
    BY <1>1, <1>2, <1>7, <1>13, <2>1, <2>2, AtHand DEF ClientTypeOK, Labels
<1>15. m_pConnection' # 0
  BY <1>1, <1>4
<1>16. Places'
  BY <1>3, <1>7, <1>13, <1>15 DEF Places, InDisconnect, StopLabels
<1>17. Sockets'
  BY <1>1, <1>2, <1>7, <1>12, <1>13, AtHand DEF Rest, Sockets
<1>18. HasWork'
  BY <1>11 DEF HasWork
<1>19. Prepared'
  <2> SUFFICES ASSUME ~failed' PROVE Prepared'
    BY DEF Prepared
  <2>1. ~failed
    BY <1>13
  <2>2. ~stopped' /\ pc'["Context"] \notin {"RepostStop", "Restart", "Done"} \cup StopLabels
    BY <1>1, <1>2, <1>7, <1>8, <2>1, AtHand DEF Rest, Prepared
  <2>3. QED
    BY <1>10, <2>2 DEF Prepared
<1>20. QED
  BY <1>9, <1>14, <1>16, <1>17, <1>18, <1>19, StepKeeps DEF Rest

LEMMA TerminationKeeps ==
    ASSUME IInv, Terminate, UNCHANGED cvars, UNCHANGED client
    PROVE  IInv'
<1>1. /\ pc' = [t \in Threads |-> "Terminated"] /\ Terminated'
      /\ pc'["App"] = "Terminated" /\ pc'["Context"] = "Terminated"
  BY DEF Terminate, Terminated, Threads
<1>2. CNext
  BY <1>1 DEF CNext, ContextNext
<1>3. ClientTypeOK
  BY IInvMeans DEF Rest
<1>4. ClientTypeOK'
  BY <1>1, <1>3 DEF ClientTypeOK, client, socket, messages
<1>5. Places' /\ Sockets' /\ HasWork' /\ Prepared'
  BY <1>1 DEF Places, Sockets, HasWork, Prepared
<1>6. QED
  BY <1>2, <1>4, <1>5, StepKeeps DEF Rest

LEMMA StartThreadStep == ASSUME IInv, StartThread PROVE IInv'
<1>1. pc["App"] = "StartThread" /\ UNCHANGED cvars /\ UNCHANGED client
  BY DEF StartThread, cvars
<1>2. ~Terminated
  BY <1>1, Running DEF Threads
<1>3. CASE pc["Context"] # "None"
  BY <1>1, <1>3, TerminationKeeps DEF StartThread
<1>4. CASE pc["Context"] = "None"
  <2>1. m_pConnection # 0
    BY <1>1, <1>2, AtHand DEF Rest, Places
  <2>2. pc' = [pc EXCEPT !["App"] = "Idle", !["Context"] = "Run"]
    BY <1>4 DEF StartThread
  <2>3. /\ pc'["App"] = "Idle" /\ pc'["Context"] = "Run"
        /\ pc' \in [Threads -> Labels] /\ ~Terminated'
    BY <1>2, <2>2, AtHand DEF Threads, Labels, Terminated, AppLabels, ContextLabels
  <2>4. CNext
    <3>1. AppMoves
      BY <1>1, <1>2, <1>4, <2>3 DEF AppMoves
    <3>2. QED
      BY <1>1, <3>1 DEF CNext, ContextNext
  <2>5. ClientTypeOK'
    <3>1. pc'["App"] \in AppLabels /\ pc'["Context"] \in ContextLabels
      BY <2>3 DEF AppLabels, ContextLabels
    <3>2. QED
      BY <1>1, <1>2, <2>3, <3>1, AtHand DEF ClientTypeOK, Labels, client, socket, messages
  <2>6. Places'
    BY <1>1, <2>1, <2>3 DEF Places, InDisconnect, StopLabels, client
  <2>7. Sockets' /\ HasWork'
    <3>1. Sockets'
      BY <1>1, <1>2, <1>4, <2>3, AtHand DEF Rest, Sockets, client, socket
    <3>2. HasWork'
      <4>1. HasWork
        BY <1>2, AtHand DEF Rest
      <4>2. QED
        BY <1>1, <1>4, <4>1 DEF HasWork, cvars
    <3>3. QED
      BY <3>1, <3>2
  <2>8. Prepared'
    BY <1>1, <1>2, <1>4, <2>3, AtHand DEF Rest, Prepared, StopLabels, client, cvars
  <2>9. QED
    BY <2>4, <2>5, <2>6, <2>7, <2>8, StepKeeps DEF Rest
<1>5. QED
  BY <1>3, <1>4

\* Of a lambda that the application posts.
LEMMA AppPosts ==
    ASSUME IInv, NEW p \in Packets, NEW a \in AppLabels, NEW b \in AppLabels,
           pc["App"] = a, Post(p), Goto("App", b), UNCHANGED client,
           \/ a = "PostClose" /\ b = "StopFlag"
           \/ a = "PostSend" /\ b = "Idle"
    PROVE  IInv'
<1>1. ~Terminated /\ m_pConnection # 0 /\ UNCHANGED <<m_pConnection, made, then, failed>>
      /\ UNCHANGED <<isOpen, reopening, closings>>
  <2>1. ~Terminated
    <3>1. a # "Terminated"
      OBVIOUS
    <3>2. QED
      BY <3>1, Running DEF Threads
  <2>2. QED
    BY <2>1, AtHand DEF Rest, Places, client, socket
<1>2. /\ port' = Append(port, p) /\ pending' = pending /\ stopped' = stopped
      /\ outstanding_work' = outstanding_work + 1
  BY DEF Post
<1>3. /\ pc'["App"] = b /\ pc'["Context"] = pc["Context"] /\ pc' \in [Threads -> Labels]
      /\ ~Terminated'
  BY <1>1, AtHand DEF Threads, Labels, Terminated, Goto
<1>4. CNext
  <2>1. AppMoves
    BY <1>1, <1>3 DEF AppMoves
  <2>2. p \in P \ {StopEvent}
    BY NotStop
  <2>3. QED
    BY <2>1, <2>2 DEF CNext, ContextNext
<1>5. port \in Seq(P) /\ p \in P
  BY <1>1, AtHand DEF P
<1>6. HasChain(port, m_pConnection) => HasChain(port', m_pConnection)
  BY <1>2, <1>5, ChainAppend
<1>7. outstanding_work' > 0
  BY <1>1, <1>2, AtHand
<1>8. ClientTypeOK'
  BY <1>1, <1>3, AtHand DEF ClientTypeOK, Labels, client, messages
<1>9. Places'
  BY <1>1, <1>3, AtHand DEF Rest, Places, InDisconnect, StopLabels
<1>10. Sockets'
  <2>1. port # <<>> => port' # <<>> /\ Head(port') = Head(port)
    BY <1>2, <1>5, PortGrows
  <2>2. QED
    BY <1>1, <1>3, <2>1, AtHand DEF Rest, Sockets
<1>11. HasWork'
  BY <1>7 DEF HasWork
<1>12. Prepared'
  BY <1>1, <1>2, <1>3, <1>6, AtHand DEF Rest, Prepared
<1>13. QED
  BY <1>4, <1>8, <1>9, <1>10, <1>11, <1>12, StepKeeps DEF Rest

LEMMA PostCloseStep == ASSUME IInv, PostClose PROVE IInv'
<1>1. /\ pc["App"] = "PostClose" /\ Post(Lambda("close", m_pConnection))
      /\ Goto("App", "StopFlag") /\ UNCHANGED client
  BY DEF PostClose
<1>2. ~Terminated
  BY <1>1, Running DEF Threads
<1>3. m_pConnection \in Connections
  BY <1>1, <1>2, AtHand, BoundsAssumption DEF Rest, Places, Connections
<1>4. Lambda("close", m_pConnection) \in Packets
  BY <1>3 DEF Lambda, Op, Packet, Packets
<1>5. "StopFlag" \in AppLabels /\ "PostClose" \in AppLabels
  BY DEF AppLabels, StopLabels
<1>6. QED
  BY <1>1, <1>4, <1>5, AppPosts

LEMMA PostSendStep == ASSUME IInv, PostSend PROVE IInv'
<1>1. /\ pc["App"] = "PostSend" /\ Post(Lambda("send", m_pConnection))
      /\ Goto("App", "Idle") /\ UNCHANGED client
  BY DEF PostSend
<1>2. ~Terminated
  BY <1>1, Running DEF Threads
<1>3. m_pConnection \in Connections
  BY <1>1, <1>2, AtHand, BoundsAssumption DEF Rest, Places, Connections
<1>4. Lambda("send", m_pConnection) \in Packets
  BY <1>3 DEF Lambda, Op, Packet, Packets
<1>5. "Idle" \in AppLabels /\ "PostSend" \in AppLabels
  BY DEF AppLabels
<1>6. QED
  BY <1>1, <1>4, <1>5, AppPosts

-----------------------------------------------------------------------------
(* Stopping and joining.                                                    *)

LEMMA AppStopStepKeeps == ASSUME IInv, AppStopStep, UNCHANGED client PROVE IInv'
<1>1. \/ pc["App"] = "StopFlag" /\ StopFlag("App")
      \/ pc["App"] = "PostStop" /\ PostStop("App")
  BY DEF AppStopStep, StopFlag, PostStop
<1>2. ~Terminated
  BY <1>1, Running DEF Threads
<1>3. PICK b \in {"PostStop", "Join"} : pc' = [pc EXCEPT !["App"] = b]
  BY <1>1 DEF StopFlag, PostStop, Goto, AfterStop
<1>4. /\ pc'["App"] = b /\ pc'["Context"] = pc["Context"]
      /\ pc' \in [Threads -> Labels] /\ ~Terminated' /\ b \in AppLabels
  BY <1>2, <1>3, AtHand DEF Threads, Labels, Terminated, AppLabels, StopLabels
<1>5. CNext
  BY <1>2 DEF CNext, ContextNext
<1>6. /\ pending' = pending /\ outstanding_work' = outstanding_work
      /\ port' = port \/ port' = Append(port, StopEvent)
  BY <1>1 DEF StopFlag, PostStop, PostStopEvent
<1>7. HasChain(port, m_pConnection) => HasChain(port', m_pConnection)
  <2>1. port \in Seq(P) /\ StopEvent \in P
    BY <1>2, AtHand DEF P
  <2>2. QED
    BY <1>6, <2>1, ChainAppend
<1>8. ClientTypeOK'
  BY <1>2, <1>4, AtHand DEF ClientTypeOK, Labels, client, socket, messages
<1>9. Places' /\ Sockets' /\ HasWork'
  <2>1. Places'
    BY <1>1, <1>2, <1>4, AtHand DEF Rest, Places, InDisconnect, StopLabels, client, socket
  <2>2. port # <<>> => port' # <<>> /\ Head(port') = Head(port)
    <3>1. port \in Seq(P) /\ StopEvent \in P
      BY <1>2, AtHand DEF P
    <3>2. QED
      BY <1>6, <3>1, PortGrows
  <2>3. Sockets'
    BY <1>2, <1>4, <2>2, AtHand DEF Rest, Sockets, client, socket
  <2>4. HasWork'
    BY <1>1, <1>2, <1>4, <1>6, AtHand DEF Rest, HasWork, StopLabels
  <2>5. QED
    BY <2>1, <2>3, <2>4
<1>10. Prepared'
  <2>1. pc["App"] = "StopFlag" \/ stopped' = stopped
    BY <1>1 DEF PostStop
  <2>2. Prepared
    BY <1>2, AtHand DEF Rest
  <2>3. SUFFICES ASSUME ~failed PROVE Prepared'
    BY DEF Prepared, client
  <2>4. /\ pc["Context"] \in {"RepostStop", "Restart", "Done"} => pc["App"] = "PostStop"
        /\ pc["Context"] \notin StopLabels
        /\ pc["Context"] = "Done" => ~stopped
        /\ m_pConnection # 0 =>
              HasChain(pending, m_pConnection) \/ HasChain(port, m_pConnection)
    BY <1>1, <1>2, <2>2, <2>3 DEF Prepared
  <2>5. pc["Context"] = "Done" => ~stopped'
    BY <1>1, <2>1, <2>4
  <2>6. QED
    BY <1>4, <1>6, <1>7, <2>4, <2>5 DEF Prepared, client
<1>11. QED
  BY <1>5, <1>8, <1>9, <1>10, StepKeeps DEF Rest

LEMMA JoinThreadStep == ASSUME IInv, JoinThread PROVE IInv'
<1>1. /\ pc["App"] = "Join" /\ pc["Context"] \in {"Done", "None"}
      /\ pc' = [pc EXCEPT !["App"] = "Reset", !["Context"] = "None"]
      /\ UNCHANGED cvars /\ UNCHANGED client /\ Join("Reset")
  BY DEF JoinThread, Join, cvars
<1>2. ~Terminated
  BY <1>1, Running DEF Threads
<1>3. /\ pc'["App"] = "Reset" /\ pc'["Context"] = "None"
      /\ pc' \in [Threads -> Labels] /\ ~Terminated'
      /\ "Reset" \in AppLabels /\ "None" \in ContextLabels
  BY <1>1, <1>2, AtHand DEF Threads, Labels, Terminated, AppLabels, ContextLabels
<1>4. CNext
  BY <1>1 DEF CNext, ContextNext
<1>5. ClientTypeOK'
  BY <1>1, <1>2, <1>3, AtHand DEF ClientTypeOK, Labels, client, socket, messages
<1>6. m_pConnection # 0 /\ pc["Context"] # "None"
  BY <1>1, <1>2, AtHand DEF Rest, Places
<1>7. Places' /\ Sockets' /\ HasWork'
  <2>1. Places'
    BY <1>1, <1>2, <1>3, <1>6, AtHand DEF Rest, Places, InDisconnect, StopLabels, client, socket
  <2>2. Sockets'
    BY <1>1, <1>2, <1>3, AtHand DEF Rest, Sockets, client, socket
  <2>3. HasWork'
    BY <1>3 DEF HasWork
  <2>4. QED
    BY <2>1, <2>2, <2>3
<1>8. Prepared'
  BY <1>1, <1>2, <1>3, <1>6, AtHand DEF Rest, Prepared, client, cvars, StopLabels
<1>9. QED
  BY <1>4, <1>5, <1>7, <1>8, StepKeeps DEF Rest

-----------------------------------------------------------------------------
(* The context's thread.                                                    *)

\* While a connection's chain goes on, the operation that is being finished is not the
\* last one.
LEMMA ChainIsWork ==
    ASSUME IInv, ~Terminated, pc["Context"] = "WorkFinished", NEW c,
           HasChain(pending, c) \/ HasChain(port, c)
    PROVE  outstanding_work > 1
<1>1. outstanding_work = Len(pending) + Len(port) - Stops(port) + 1
  BY IInvMeans, CInvMeans DEF Kept, Busy
<1>2. /\ Len(port) \in Nat /\ Len(pending) \in Nat
      /\ DOMAIN port = 1 .. Len(port) /\ DOMAIN pending = 1 .. Len(pending)
  BY AtHand, LenProperties
<1>3. Stops(port) \in {0, 1} /\ Len(port) - Stops(port) >= 0
  BY <1>2 DEF Stops, HasStop
<1>4. CASE HasChain(pending, c)
  <2>1. Len(pending) >= 1
    BY <1>2, <1>4 DEF HasChain
  <2>2. QED
    BY <1>1, <1>2, <1>3, <2>1
<1>5. CASE HasChain(port, c)
  <2>1. PICK i \in DOMAIN port : port[i].op \in {"connect", "read"}
    BY <1>5 DEF HasChain
  <2>2. port[i] # StopEvent
    BY <2>1 DEF StopEvent
  <2>3. Len(port) >= 1
    BY <1>2, <2>1
  <2>4. CASE HasStop(port)
    <3>1. PICK j \in DOMAIN port : port[j] = StopEvent
      BY <2>4 DEF HasStop
    <3>2. i # j
      BY <2>2, <3>1
    <3>3. Len(port) >= 2 /\ Stops(port) = 1
      BY <1>2, <2>1, <2>4, <3>1, <3>2 DEF Stops
    <3>4. QED
      BY <1>1, <1>2, <3>3
  <2>5. CASE ~HasStop(port)
    <3>1. Stops(port) = 0
      BY <2>5 DEF Stops
    <3>2. QED
      BY <1>1, <1>2, <2>3, <3>1
  <2>6. QED
    BY <2>4, <2>5
<1>6. QED
  BY <1>4, <1>5

LEMMA WorkLeft ==
    ASSUME IInv, ~Terminated, ~failed, pc["Context"] = "WorkFinished"
    PROVE  outstanding_work > 1
<1>1. m_pConnection # 0
  BY AtHand DEF Rest, Places, AppLabels, StopLabels
<1>2. HasChain(pending, m_pConnection) \/ HasChain(port, m_pConnection)
  BY <1>1, AtHand DEF Rest, Prepared
<1>3. QED
  BY <1>2, ChainIsWork

\* A step of the context's thread outside the handlers.
LEMMA ContextMoves ==
    ASSUME IInv, ContextStep, UNCHANGED client,
           NEW b \in ContextLabels, pc' = [pc EXCEPT !["Context"] = b],
           pc["Context"] \in ContextLabels \ {"None"}, b \notin {"None", "Run"},
           pc["Context"] = "DoOne" => Head(port) = StopEvent,
           pending' = pending,
           HasChain(port, m_pConnection) => HasChain(port', m_pConnection),
           Prepared /\ ~failed =>
               /\ stopped' => pc["App"] \in {"PostStop", "Join"}
               /\ b \in {"RepostStop", "Restart", "Done"}
                      => pc["App"] \in {"PostStop", "Join"}
               /\ b \notin StopLabels
               /\ b = "Done" => ~stopped',
           outstanding_work' = outstanding_work \/ pc["Context"] = "WorkFinished"
    PROVE  IInv'
<1>1. ~Terminated
  BY Running DEF Threads, ContextLabels, InDoOne, InHandling, Leaving, StopLabels
<1>2. /\ pc'["App"] = pc["App"] /\ pc'["Context"] = b
      /\ pc' \in [Threads -> Labels] /\ ~Terminated'
  BY <1>1, AtHand DEF Threads, Labels, Terminated, ContextLabels, InDoOne, InHandling,
     Leaving
<1>3. CNext
  BY DEF CNext, ContextNext
<1>4. ClientTypeOK'
  BY <1>1, <1>2, AtHand DEF ClientTypeOK, Labels, client, socket, messages
<1>5. Places' /\ Sockets'
  <2>1. UNCHANGED <<m_pConnection, made, then, isOpen, reopening, closings>>
    BY DEF client, socket
  <2>2. Places'
    BY <1>1, <1>2, <2>1, AtHand DEF Rest, Places
  <2>3. ~reopening
    BY <1>1, AtHand DEF Rest, Sockets, StopEvent
  <2>4. Sockets'
    BY <1>1, <2>1, <2>3, AtHand DEF Rest, Sockets
  <2>5. QED
    BY <2>2, <2>4
<1>6. HasWork'
  BY <1>1, <1>2, AtHand DEF Rest, Places, HasWork
<1>7. Prepared'
  BY <1>1, <1>2, AtHand DEF Rest, Prepared, client
<1>8. QED
  BY <1>3, <1>4, <1>5, <1>6, <1>7, StepKeeps DEF Rest

LEMMA QuietPort ==
    ASSUME port' = port
    PROVE  HasChain(port, m_pConnection) => HasChain(port', m_pConnection)
BY DEF HasChain

LEMMA RunStep == ASSUME IInv, Run, UNCHANGED client PROVE IInv'
<1>1. /\ pc["Context"] = "Run" /\ pc' = [pc EXCEPT !["Context"] = "DoOne"]
      /\ UNCHANGED cvars
  BY DEF Run, Goto, cvars
<1>2. ~Terminated
  BY <1>1, Running DEF Threads
<1>3. "Run" \in ContextLabels /\ "DoOne" \in ContextLabels
  BY DEF ContextLabels, InDoOne
<1>4. Prepared /\ ~failed => (stopped' => pc["App"] \in {"PostStop", "Join"})
  BY <1>1, <1>2 DEF Prepared, cvars
<1>5. QED
  BY <1>1, <1>3, <1>4, QuietPort, ContextMoves DEF ContextStep, cvars, StopLabels

LEMMA WorkFinishedStep == ASSUME IInv, WorkFinished, UNCHANGED client PROVE IInv'
<1>1. /\ pc["Context"] = "WorkFinished"
      /\ \/ outstanding_work = 1 /\ pc' = [pc EXCEPT !["Context"] = "StopFlag"]
         \/ outstanding_work # 1 /\ pc' = [pc EXCEPT !["Context"] = "DoOne"]
      /\ port' = port /\ pending' = pending /\ stopped' = stopped
  BY DEF WorkFinished, Goto
<1>2. ~Terminated
  BY <1>1, Running DEF Threads
<1>3. PICK b \in {"StopFlag", "DoOne"} :
         /\ pc' = [pc EXCEPT !["Context"] = b]
         /\ b = "StopFlag" => outstanding_work = 1
  BY <1>1
<1>4. "WorkFinished" \in ContextLabels /\ b \in ContextLabels
  BY DEF ContextLabels, InDoOne, InHandling
<1>5. ~failed => b = "DoOne"
  BY <1>1, <1>2, <1>3, WorkLeft
<1>6. Prepared /\ ~failed => (stopped' => pc["App"] \in {"PostStop", "Join"})
  BY <1>1, <1>2 DEF Prepared
<1>7. QED
  BY <1>1, <1>3, <1>4, <1>5, <1>6, QuietPort, ContextMoves DEF ContextStep, StopLabels

LEMMA ContextStopStep ==
    ASSUME IInv, StopFlag("Context") \/ PostStop("Context"), UNCHANGED client
    PROVE  IInv'
<1>1. /\ pc["Context"] \in StopLabels
      /\ pc' = [pc EXCEPT !["Context"] = "PostStop"]
         \/ pc' = [pc EXCEPT !["Context"] = "DoOne"]
      /\ port' = port \/ port' = Append(port, StopEvent)
      /\ pending' = pending /\ outstanding_work' = outstanding_work
  BY DEF StopFlag, PostStop, Goto, AfterStop, PostStopEvent, StopLabels
<1>2. ~Terminated
  BY <1>1, Running DEF Threads, StopLabels
<1>3. PICK b \in {"PostStop", "DoOne"} : pc' = [pc EXCEPT !["Context"] = b]
  BY <1>1
<1>4. pc["Context"] \in ContextLabels \ {"None"} /\ b \in ContextLabels
      /\ pc["Context"] # "DoOne"
  BY <1>1 DEF ContextLabels, InDoOne, InHandling, StopLabels
<1>5. ~(Prepared /\ ~failed)
  BY <1>1, <1>2 DEF Prepared
<1>6. HasChain(port, m_pConnection) => HasChain(port', m_pConnection)
  <2>1. port \in Seq(P) /\ StopEvent \in P
    BY <1>2, AtHand DEF P
  <2>2. QED
    BY <1>1, <2>1, ChainAppend
<1>7. ContextStep
  BY DEF ContextStep
<1>8. QED
  BY <1>1, <1>3, <1>4, <1>5, <1>6, <1>7, ContextMoves

LEMMA TakeStopStep == ASSUME IInv, TakeStop, UNCHANGED client PROVE IInv'
<1>1. /\ pc["Context"] = "DoOne" /\ pc' = [pc EXCEPT !["Context"] = "StopSeen"]
      /\ port # <<>> /\ Head(port) = StopEvent /\ port' = Tail(port)
      /\ pending' = pending /\ outstanding_work' = outstanding_work
      /\ stopped' = stopped
  BY DEF TakeStop, Goto
<1>2. ~Terminated
  BY <1>1, Running DEF Threads
<1>3. "DoOne" \in ContextLabels /\ "StopSeen" \in ContextLabels
  BY DEF ContextLabels, InDoOne
<1>4. Prepared /\ ~failed => (stopped' => pc["App"] \in {"PostStop", "Join"})
  BY <1>1, <1>2 DEF Prepared
<1>5. HasChain(port, m_pConnection) => HasChain(port', m_pConnection)
  <2>1. port \in Seq(P) /\ Head(port).op = "stop"
    BY <1>1, <1>2, AtHand DEF StopEvent
  <2>2. QED
    BY <1>1, <2>1, ChainTail
<1>6. QED
  BY <1>1, <1>3, <1>4, <1>5, ContextMoves DEF ContextStep, StopLabels

LEMMA StopSeenStep == ASSUME IInv, StopSeen, UNCHANGED client PROVE IInv'
<1>1. /\ pc["Context"] = "StopSeen" /\ pc' = [pc EXCEPT !["Context"] = "CheckStopped"]
      /\ port' = port /\ pending' = pending /\ outstanding_work' = outstanding_work
      /\ stopped' = stopped
  BY DEF StopSeen, Goto
<1>2. ~Terminated
  BY <1>1, Running DEF Threads
<1>3. "StopSeen" \in ContextLabels /\ "CheckStopped" \in ContextLabels
  BY DEF ContextLabels, InDoOne
<1>4. Prepared /\ ~failed => (stopped' => pc["App"] \in {"PostStop", "Join"})
  BY <1>1, <1>2 DEF Prepared
<1>5. QED
  BY <1>1, <1>3, <1>4, QuietPort, ContextMoves DEF ContextStep, StopLabels

LEMMA CheckStoppedStep == ASSUME IInv, CheckStopped, UNCHANGED client PROVE IInv'
<1>1. /\ pc["Context"] = "CheckStopped"
      /\ \/ stopped /\ pc' = [pc EXCEPT !["Context"] = "RepostStop"]
         \/ ~stopped /\ pc' = [pc EXCEPT !["Context"] = "DoOne"]
      /\ UNCHANGED cvars
  BY DEF CheckStopped, Goto, cvars
<1>2. ~Terminated
  BY <1>1, Running DEF Threads
<1>3. PICK b \in {"RepostStop", "DoOne"} :
         /\ pc' = [pc EXCEPT !["Context"] = b]
         /\ b = "RepostStop" => stopped
  BY <1>1
<1>4. "CheckStopped" \in ContextLabels /\ b \in ContextLabels
  BY DEF ContextLabels, InDoOne, Leaving
<1>5. Prepared /\ ~failed =>
        /\ stopped' => pc["App"] \in {"PostStop", "Join"}
        /\ b = "RepostStop" => pc["App"] \in {"PostStop", "Join"}
  BY <1>1, <1>2, <1>3 DEF Prepared, cvars
<1>6. QED
  BY <1>1, <1>3, <1>4, <1>5, QuietPort, ContextMoves DEF ContextStep, StopLabels, cvars

LEMMA RepostStopStep == ASSUME IInv, RepostStop, UNCHANGED client PROVE IInv'
<1>1. /\ pc["Context"] = "RepostStop" /\ pc' = [pc EXCEPT !["Context"] = "Restart"]
      /\ port' = port \/ port' = Append(port, StopEvent)
      /\ pending' = pending /\ outstanding_work' = outstanding_work
      /\ stopped' = stopped
  BY DEF RepostStop, Goto, PostStopEvent
<1>2. ~Terminated
  BY <1>1, Running DEF Threads
<1>3. "RepostStop" \in ContextLabels /\ "Restart" \in ContextLabels
  BY DEF ContextLabels, Leaving
<1>4. Prepared /\ ~failed => pc["App"] \in {"PostStop", "Join"}
  BY <1>1, <1>2 DEF Prepared
<1>5. HasChain(port, m_pConnection) => HasChain(port', m_pConnection)
  <2>1. port \in Seq(P) /\ StopEvent \in P
    BY <1>2, AtHand DEF P
  <2>2. QED
    BY <1>1, <2>1, ChainAppend
<1>6. QED
  BY <1>1, <1>3, <1>4, <1>5, ContextMoves DEF ContextStep, StopLabels

LEMMA RestartStep == ASSUME IInv, Restart, UNCHANGED client PROVE IInv'
<1>1. /\ pc["Context"] = "Restart" /\ pc' = [pc EXCEPT !["Context"] = "Done"]
      /\ port' = port /\ pending' = pending /\ outstanding_work' = outstanding_work
      /\ stopped' = FALSE
  BY DEF Restart, Goto
<1>2. ~Terminated
  BY <1>1, Running DEF Threads
<1>3. "Restart" \in ContextLabels /\ "Done" \in ContextLabels
  BY DEF ContextLabels, Leaving
<1>4. Prepared /\ ~failed => pc["App"] \in {"PostStop", "Join"}
  BY <1>1, <1>2 DEF Prepared
<1>5. QED
  BY <1>1, <1>3, <1>4, QuietPort, ContextMoves DEF ContextStep, StopLabels

LEMMA ContextStepKeeps == ASSUME IInv, ContextStep, UNCHANGED client PROVE IInv'
BY RunStep, WorkFinishedStep, ContextStopStep, TakeStopStep, StopSeenStep,
   CheckStoppedStep, RepostStopStep, RestartStep DEF ContextStep

-----------------------------------------------------------------------------
(* The handlers.                                                            *)

\* A handler keeps IInv if it leaves the connection an operation of its chain, or
\* has failed.
LEMMA HandlerKeeps ==
    ASSUME IInv, NEW p, Handling(p),
           NEW lambdas \in Seq(Packets), NEW started \in Seq(O),
           Handle(lambdas, started),
           UNCHANGED <<m_pConnection, made, then, closings, sent>>,
           isOpen' \in BOOLEAN, isOpen' = isOpen \/ closings > 0, reopening' = FALSE,
           incoming' \in 0 .. MaxMessages, outgoing' \in [Connections -> Nat], 
           failed' \in BOOLEAN, failed => failed',
           ~failed' /\ p.op \in {"connect", "read"} /\ p.conn = m_pConnection
               => HasChain(pending', m_pConnection)
    PROVE  IInv'
<1>1. /\ pc["Context"] = "DoOne" /\ port # <<>> /\ p = Head(port)
      /\ port' = Tail(port) \o lambdas /\ pending' = pending \o started
      /\ pc' = [pc EXCEPT !["Context"] = "WorkFinished"] /\ stopped' = stopped
  BY DEF Handling, Handle, Goto
<1>2. ~Terminated
  BY <1>1, Running DEF Threads
<1>3. lambdas \in Seq(P \ {StopEvent})
  BY NotStop, SeqMonotonic
<1>4. CNext
  <2>1. Handling(Head(port))
    BY <1>1
  <2>2. QED
    BY <1>3, <2>1 DEF CNext, ContextNext
<1>5. /\ pc'["App"] = pc["App"] /\ pc'["Context"] = "WorkFinished"
      /\ pc' \in [Threads -> Labels] /\ ~Terminated'
      /\ "WorkFinished" \in ContextLabels
  BY <1>1, <1>2, AtHand DEF Threads, Labels, Terminated, ContextLabels, InHandling
<1>6. ClientTypeOK'
  <2>1. reopening' \in BOOLEAN
    BY <1>2
  <2>2. QED
    BY <1>2, <1>5, <2>1, AtHand DEF ClientTypeOK, Labels
<1>7. Places' /\ Sockets'
  <2>1. Places'
    BY <1>1, <1>2, <1>5, AtHand DEF Rest, Places
  <2>2. Sockets'
    BY <1>2, AtHand DEF Rest, Sockets
  <2>3. QED
    BY <2>1, <2>2
<1>8. HasWork'
  BY <1>1, <1>2, <1>5, AtHand DEF Rest, Places, HasWork
<1>9. ASSUME ~failed', m_pConnection # 0
      PROVE  HasChain(pending', m_pConnection) \/ HasChain(port', m_pConnection)
  <2>1. port \in Seq(P) /\ pending \in Seq(O)
    BY <1>2, AtHand
  <2>2. HasChain(pending, m_pConnection) \/ HasChain(port, m_pConnection)
    BY <1>2, <1>9, AtHand DEF Rest, Prepared
  <2>3. CASE HasChain(pending, m_pConnection)
    BY <1>1, <2>1, <2>3, ChainConcat
  <2>4. CASE p.op \in {"connect", "read"} /\ p.conn = m_pConnection
    BY <1>9, <2>4
  <2>5. CASE HasChain(port, m_pConnection)
             /\ ~(p.op \in {"connect", "read"} /\ p.conn = m_pConnection)
    <3>1. HasChain(Tail(port), m_pConnection) /\ Tail(port) \in Seq(P)
      BY <1>1, <2>1, <2>5, ChainTail, HeadTailProperties
    <3>2. lambdas \in Seq(P)
      BY <1>3, SeqMonotonic
    <3>3. QED
      BY <1>1, <3>1, <3>2, ChainConcat
  <2>6. QED
    BY <2>2, <2>3, <2>4, <2>5
<1>10. Prepared'
  BY <1>1, <1>2, <1>5, <1>9, AtHand DEF Rest, Prepared, StopLabels
<1>11. QED
  BY <1>4, <1>6, <1>7, <1>8, <1>10, StepKeeps DEF Rest

\* The packet that is handled, and the connection a handler may run with.
LEMMA Handled ==
    ASSUME IInv, NEW p, Handling(p)
    PROVE  /\ ~Terminated /\ p \in Packets /\ p.conn \in Connections
           /\ m_pConnection # 0 => m_pConnection \in Connections
<1>1. pc["Context"] = "DoOne" /\ port # <<>> /\ p = Head(port) /\ p # StopEvent
  BY DEF Handling
<1>2. ~Terminated
  BY <1>1, Running DEF Threads
<1>3. p \in P
  BY <1>1, <1>2, AtHand, HeadTailProperties
<1>4. p \in Packets
  BY <1>1, <1>3 DEF P
<1>5. m_pConnection # 0 => m_pConnection \in Connections
  BY <1>2, AtHand, BoundsAssumption DEF Connections
<1>6. QED
  BY <1>2, <1>4, <1>5 DEF Packets

\* A chain that is continued for connection c is there for the client if c is its
\* connection.
LEMMA ChainContinued ==
    ASSUME IInv, ~Terminated, NEW c \in Connections, NEW lambdas,
           Handle(lambdas, <<Op("read", c)>>)
    PROVE  HasChain(pending', c)
<1> DEFINE o == Op("read", c)
<1>1. o \in O /\ o.op = "read" /\ o.conn = c
  BY DEF O, Operations, Op
<1> HIDE DEF o
<1>2. pending \in Seq(O)
  BY AtHand
<1>3. pending' = Append(pending, o)
  <2>1. pending' = pending \o <<o>>
    BY DEF Handle, o
  <2>2. QED
    BY <1>1, <1>2, <2>1, AppendIsConcat
<1>4. QED
  BY <1>1, <1>2, <1>3, ChainAppend

LEMMA OneStarted ==
    ASSUME NEW c \in Connections, NEW op \in {"connect", "read", "write"}
    PROVE  <<Op(op, c)>> \in Seq(O) /\ <<>> \in Seq(O) /\ <<>> \in Seq(Packets)
<1>1. Op(op, c) \in O
  BY DEF O, Operations, Op
<1>2. QED
  BY <1>1

\* A handler that leaves the sockets alone, and the connection an operation of its chain.
LEMMA SocketsAlone ==
    ASSUME IInv, NEW p, Handling(p), ~reopening,
           NEW lambdas \in Seq(Packets), NEW started \in Seq(O),
           Handle(lambdas, started),
           UNCHANGED <<m_pConnection, made, then, socket, sent>>,
           incoming' \in 0 .. MaxMessages, outgoing' \in [Connections -> Nat],
           failed' \in BOOLEAN, failed => failed',
           ~failed' /\ p.op \in {"connect", "read"} /\ p.conn = m_pConnection
               => HasChain(pending', m_pConnection)
    PROVE  IInv'
<1>1. isOpen \in BOOLEAN /\ reopening \in BOOLEAN
  BY Handled, AtHand
<1>2. UNCHANGED <<m_pConnection, made, then, closings, sent>> /\ isOpen' = isOpen
      /\ reopening' = FALSE
  BY <1>1 DEF socket
<1>3. QED
  BY <1>1, <1>2, HandlerKeeps

LEMMA CloseSocketKeeps == ASSUME IInv, NEW p, Handling(p), CloseSocket(p) PROVE IInv'
<1>1. /\ UNCHANGED <<cvars, pc>> /\ isOpen' = FALSE /\ reopening' = TRUE
      /\ closings < MaxClosings /\ closings' = closings + 1 /\ p.op = "connect"
      /\ UNCHANGED <<m_pConnection, made, then, failed, incoming, outgoing, sent>>
  BY DEF CloseSocket, context, cvars, messages
<1>2. ~Terminated /\ ~Terminated'
  BY <1>1, Handled DEF Terminated
<1>3. CNext
  BY <1>1 DEF CNext, ContextNext
<1>4. closings' \in 0 .. MaxClosings /\ closings' > 0
  BY <1>1, <1>2, AtHand, BoundsAssumption
<1>5. ClientTypeOK'
  BY <1>1, <1>2, <1>4, AtHand DEF ClientTypeOK, Labels
<1>6. Places'
  BY <1>1, <1>2, <1>4, AtHand DEF Rest, Places
<1>7. Sockets'
  BY <1>1, <1>4 DEF Sockets, Handling, cvars
<1>8. HasWork' /\ Prepared'
  BY <1>1, <1>2, AtHand DEF Rest, HasWork, Prepared, cvars
<1>9. QED
  BY <1>3, <1>5, <1>6, <1>7, <1>8, StepKeeps DEF Rest

\* A handler of connection c: the one its packet p belongs to, or another, if p is
\* not of the chain of the client's connection.
LEMMA HandlerStepKeepsFor ==
    ASSUME IInv, NEW p, Handling(p), ~reopening, NEW c \in Connections, Handler(p, c),
           p.conn = m_pConnection => c = m_pConnection
    PROVE  IInv'
<1>1. /\ ~Terminated /\ p \in Packets
      /\ incoming \in 0 .. MaxMessages
      /\ outgoing \in [Connections -> Nat] /\ failed \in BOOLEAN
  BY Handled, AtHand
<1>2. CASE ChainGoesOn(p, c)
  <2>1. Handle(<<>>, <<Op("read", c)>>) /\ UNCHANGED client
    BY <1>2 DEF ChainGoesOn
  <2>2. HasChain(pending', c)
    BY <1>1, <2>1, ChainContinued
  <2>3. QED
    BY <1>1, <2>1, <2>2, OneStarted, SocketsAlone DEF client, messages
<1>3. CASE ChainReceives(p, c)
  <2>1. /\ Handle(<<>>, <<Op("read", c)>>)
        /\ incoming < MaxMessages /\ incoming' = incoming + 1
        /\ UNCHANGED <<m_pConnection, made, then, failed, socket, outgoing, sent>>
    BY <1>3 DEF ChainReceives
  <2>2. HasChain(pending', c)
    BY <1>1, <2>1, ChainContinued
  <2>3. incoming' \in 0 .. MaxMessages
    BY <1>1, <2>1, BoundsAssumption
  <2>4. QED
    BY <1>1, <2>1, <2>2, <2>3, OneStarted, SocketsAlone
<1>4. CASE Fails(p, c)
  <2>1. failed' = TRUE /\ UNCHANGED <<m_pConnection, made, then, socket, messages>>
    BY <1>4 DEF Fails
  <2>2. PICK lambdas \in {<<Lambda("close", c)>>, <<>>} : Handle(lambdas, <<>>)
    BY <1>4 DEF Fails
  <2>3. lambdas \in Seq(Packets)
    <3>1. Lambda("close", c) \in Packets
      BY DEF Lambda, Op, Packet, Packets
    <3>2. <<Lambda("close", c)>> \in Seq(Packets) /\ <<>> \in Seq(Packets)
      BY <3>1
    <3>3. QED
      BY <2>2, <3>2
  <2>4. QED
    BY <1>1, <2>1, <2>2, <2>3, OneStarted, SocketsAlone DEF messages
<1>5. CASE CloseSocket(p)
  BY <1>5, CloseSocketKeeps
<1>6. CASE SendLambda(p, c)
  <2>1. /\ p.op = "send" /\ outgoing' = [outgoing EXCEPT ![c] = @ + 1]
        /\ UNCHANGED <<m_pConnection, made, then, failed, socket, incoming, sent>>
    BY <1>6 DEF SendLambda
  <2>2. PICK started \in {<<Op("write", c)>>, <<>>} : Handle(<<>>, started)
    BY <1>6 DEF SendLambda
  <2>3. outgoing' \in [Connections -> Nat]
    BY <1>1, <2>1
  <2>4. started \in Seq(O)
    BY <2>2, OneStarted
  <2>5. QED
    BY <1>1, <2>1, <2>2, <2>3, <2>4, OneStarted, SocketsAlone
<1>7. CASE Written(p, c)
  <2>1. /\ p.op = "write" /\ outgoing[c] > 0
        /\ outgoing' = [outgoing EXCEPT ![c] = @ - 1]
        /\ UNCHANGED <<m_pConnection, made, then, failed, socket, incoming, sent>>
    BY <1>7 DEF Written
  <2>2. PICK started \in {<<Op("write", c)>>, <<>>} : Handle(<<>>, started)
    BY <1>7 DEF Written
  <2>3. outgoing' \in [Connections -> Nat]
    <3>1. outgoing[c] \in Nat
      BY <1>1
    <3>2. outgoing[c] - 1 \in Nat
      BY <2>1, <3>1
    <3>3. QED
      BY <1>1, <2>1, <3>2
  <2>4. started \in Seq(O)
    BY <2>2, OneStarted
  <2>5. QED
    BY <1>1, <2>1, <2>2, <2>3, <2>4, OneStarted, SocketsAlone
<1>8. CASE WrittenEmpty(p, c)
  <2>1. p.op = "write" /\ UNCHANGED client
    BY <1>8 DEF WrittenEmpty
  <2>2. CASE Terminate /\ UNCHANGED cvars
    BY <2>1, <2>2, TerminationKeeps
  <2>3. CASE \E started \in {<<Op("write", c)>>, <<>>} : Handle(<<>>, started)
    <3>1. PICK started \in {<<Op("write", c)>>, <<>>} : Handle(<<>>, started)
      BY <2>3
    <3>2. started \in Seq(O)
      BY <3>1, OneStarted
    <3>3. QED
      BY <1>1, <2>1, <3>1, <3>2, OneStarted, SocketsAlone DEF client, messages
  <2>4. QED
    BY <1>8, <2>2, <2>3 DEF WrittenEmpty, cvars
<1>9. QED
  BY <1>2, <1>3, <1>4, <1>5, <1>6, <1>7, <1>8 DEF Handler

\* A handler that starts nothing, and whose packet is not of the chain of the client's
\* connection.
LEMMA IdleHandlerKeeps ==
    ASSUME IInv, NEW p, Handling(p), ~reopening, NEW lambdas \in Seq(Packets),
           Handle(lambdas, <<>>), UNCHANGED client,
           p.op = "close" \/ p.conn # m_pConnection
    PROVE  IInv'
<1>1. /\ ~Terminated /\ incoming \in 0 .. MaxMessages
      /\ outgoing \in [Connections -> Nat] /\ failed \in BOOLEAN
  BY Handled, AtHand
<1>2. <<>> \in Seq(O)
  OBVIOUS
<1>3. QED
  BY <1>1, <1>2, SocketsAlone DEF client, messages

LEMMA StaleHandlerKeeps ==
    ASSUME IInv, NEW p, Handling(p), ~reopening, StaleHandler(p)
    PROVE  IInv'
<1>1. p.conn # m_pConnection /\ p.conn \in Connections
      /\ (m_pConnection # 0 => m_pConnection \in Connections)
  BY Handled DEF StaleHandler, Alive
<1>2. CASE Terminate /\ UNCHANGED cvars /\ UNCHANGED client
  BY <1>2, TerminationKeeps
<1>3. CASE Handle(<<>>, <<>>) /\ UNCHANGED client
  <2>1. <<>> \in Seq(Packets)
    OBVIOUS
  <2>2. QED
    BY <1>1, <1>3, <2>1, IdleHandlerKeeps
<1>4. CASE /\ Handle(<<Packet(Op(IF p.op = "read" THEN "read" ELSE "write", p.conn), FALSE)>>,
                     <<>>)
           /\ UNCHANGED client
  <2>1. \A op \in {"read", "write"} : Packet(Op(op, p.conn), FALSE) \in Packets
    BY <1>1 DEF Packet, Op, Packets
  <2>2. PICK op \in {"read", "write"} : Handle(<<Packet(Op(op, p.conn), FALSE)>>, <<>>)
    BY <1>4
  <2> DEFINE e == Packet(Op(op, p.conn), FALSE)
  <2>3. e \in Packets /\ Handle(<<e>>, <<>>)
    BY <2>1, <2>2
  <2> HIDE DEF e
  <2>4. <<e>> \in Seq(Packets)
    BY <2>3
  <2>5. QED
    BY <1>1, <1>4, <2>3, <2>4, IdleHandlerKeeps
<1>5. CASE m_pConnection # 0 /\ Handler(p, m_pConnection)
  BY <1>1, <1>5, HandlerStepKeepsFor
<1>6. QED
  BY <1>2, <1>3, <1>4, <1>5 DEF StaleHandler, cvars

\* The second step of a range_connect_op.
LEMMA ReopenKeeps == ASSUME IInv, NEW p, Handling(p), reopening, Reopen(p) PROVE IInv'
<1>1. /\ ~Terminated /\ p.conn \in Connections
      /\ incoming \in 0 .. MaxMessages /\ closings > 0
      /\ outgoing \in [Connections -> Nat] /\ failed \in BOOLEAN /\ isOpen \in BOOLEAN
  BY Handled, AtHand DEF Rest, Sockets
<1>2. reopening' = FALSE /\ UNCHANGED <<m_pConnection, made, then, closings, incoming, outgoing, sent>>
  BY DEF Reopen, messages
<1> DEFINE o == Op("connect", p.conn)
           e == Packet(o, FALSE)
<1>3. o \in O /\ e \in Packets /\ o.op = "connect" /\ o.conn = p.conn
  BY <1>1 DEF O, Operations, Op, Packet, Packets
<1>4. \/ Handle(<<>>, <<o>>) /\ isOpen' = TRUE /\ failed' = failed
      \/ Handle(<<e>>, <<>>) /\ isOpen' = isOpen /\ failed' = TRUE
  BY DEF Reopen
<1> HIDE DEF o, e
<1>5. <<o>> \in Seq(O) /\ <<e>> \in Seq(Packets) /\ <<>> \in Seq(O) /\ <<>> \in Seq(Packets)
  BY <1>3
<1>6. CASE Handle(<<>>, <<o>>) /\ isOpen' = TRUE /\ failed' = failed
  <2>1. HasChain(pending', p.conn)
    <3>1. pending \in Seq(O)
      BY <1>1, AtHand
    <3>2. pending' = Append(pending, o)
      BY <1>3, <1>6, <3>1, AppendIsConcat DEF Handle
    <3>3. QED
      BY <1>3, <3>1, <3>2, ChainAppend
  <2>2. QED
    BY <1>1, <1>2, <1>5, <1>6, <2>1, HandlerKeeps
<1>7. CASE Handle(<<e>>, <<>>) /\ isOpen' = isOpen /\ failed' = TRUE
  BY <1>1, <1>2, <1>5, <1>7, HandlerKeeps
<1>8. QED
  BY <1>4, <1>6, <1>7

LEMMA StaleReopenKeeps ==
    ASSUME IInv, NEW p, Handling(p), reopening, StaleReopen(p)
    PROVE  IInv'
<1>1. p.conn # m_pConnection /\ p.conn \in Connections
  BY Handled DEF StaleReopen, Alive
<1>2. CASE Terminate /\ UNCHANGED cvars /\ UNCHANGED client
  BY <1>2, TerminationKeeps
<1>3. CASE /\ \E started \in {<<>>, <<Op("connect", p.conn)>>} : Handle(<<>>, started)
           /\ reopening' = FALSE
           /\ UNCHANGED <<m_pConnection, made, then, failed, isOpen, closings, messages>>
  <2>1. PICK started \in {<<>>, <<Op("connect", p.conn)>>} : Handle(<<>>, started)
    BY <1>3
  <2>2. started \in Seq(O) /\ <<>> \in Seq(Packets)
    BY <1>1, <2>1, OneStarted
  <2>3. /\ incoming \in 0 .. MaxMessages /\ isOpen \in BOOLEAN
        /\ outgoing \in [Connections -> Nat] /\ failed \in BOOLEAN
    BY Handled, AtHand
  <2>4. QED
    BY <1>1, <1>3, <2>1, <2>2, <2>3, HandlerKeeps DEF messages
<1>4. CASE Reopen(p)
  BY <1>4, ReopenKeeps
<1>5. QED
  BY <1>2, <1>3, <1>4 DEF StaleReopen, cvars

\* The packet that do_one handles, and what is done with it.
LEMMA HandlerCases ==
    ASSUME HandlerStep
    PROVE  \E p \in ToSet(port) :
              /\ Handling(p)
              /\ \/ ~reopening /\ CloseLambda(p)
                 \/ ~reopening /\ Alive(p.conn) /\ Handler(p, p.conn)
                 \/ ~reopening /\ StaleHandler(p)
                 \/ reopening /\ Reopen(p)
                 \/ reopening /\ StaleReopen(p)
BY DEF HandlerStep

LEMMA HandlerStepKeeps == ASSUME IInv, HandlerStep PROVE IInv'
<1>1. PICK p \in ToSet(port) :
         /\ Handling(p)
         /\ \/ ~reopening /\ CloseLambda(p)
            \/ ~reopening /\ Alive(p.conn) /\ Handler(p, p.conn)
            \/ ~reopening /\ StaleHandler(p)
            \/ reopening /\ Reopen(p)
            \/ reopening /\ StaleReopen(p)
  BY HandlerCases
<1>2. p.conn \in Connections
  BY <1>1, Handled
<1>3. CASE ~reopening /\ CloseLambda(p)
  <2>1. <<>> \in Seq(Packets)
    OBVIOUS
  <2>2. QED
    BY <1>1, <1>3, <2>1, IdleHandlerKeeps DEF CloseLambda
<1>4. CASE ~reopening /\ Handler(p, p.conn)
  BY <1>1, <1>2, <1>4, HandlerStepKeepsFor
<1>5. CASE ~reopening /\ StaleHandler(p)
  BY <1>1, <1>5, StaleHandlerKeeps
<1>6. CASE reopening /\ Reopen(p)
  BY <1>1, <1>6, ReopenKeeps
<1>7. CASE reopening /\ StaleReopen(p)
  BY <1>1, <1>7, StaleReopenKeeps
<1>8. QED
  BY <1>1, <1>3, <1>4, <1>5, <1>6, <1>7

LEMMA SystemCompletesKeeps ==
    ASSUME IInv, NEW i \in DOMAIN pending, SystemCompletes(i)
    PROVE  IInv'
<1>1. PICK good \in BOOLEAN : Complete(i, good)
  BY DEF SystemCompletes
<1> DEFINE o == pending[i]
           p == Packet(o, good)
<1>2. ~Terminated /\ UNCHANGED client
  BY DEF SystemCompletes
<1>3. /\ pending' = RemoveAt(pending, i) /\ port' = Append(port, p) /\ pc' = pc
      /\ outstanding_work' = outstanding_work /\ stopped' = stopped
  BY <1>1 DEF Complete
<1>4. pending \in Seq(O) /\ port \in Seq(P) /\ o \in O
  BY <1>2, AtHand, ElementOfSeq, LenProperties
<1>5. p \in P /\ p.op = o.op /\ p.conn = o.conn
  BY <1>4, PacketsFit DEF PacketsOf, Packet
<1> HIDE DEF o, p
<1>6. CNext
  BY <1>1, <1>2 DEF CNext, ContextNext
<1>7. ClientTypeOK'
  BY <1>2, <1>3, AtHand DEF Rest, ClientTypeOK, client, socket, messages
<1>8. Places' /\ Sockets' /\ HasWork'
  <2>1. UNCHANGED <<m_pConnection, made, then, isOpen, reopening, closings>>
    BY <1>2 DEF client, socket
  <2>2. Places' /\ HasWork'
    BY <1>2, <1>3, <2>1, AtHand DEF Rest, Places, HasWork, Terminated
  <2>3. port # <<>> => port' # <<>> /\ Head(port') = Head(port)
    BY <1>3, <1>4, <1>5, PortGrows
  <2>4. Sockets'
    BY <1>2, <1>3, <2>1, <2>3, AtHand DEF Rest, Sockets
  <2>5. QED
    BY <2>2, <2>4
<1>9. HasChain(pending, m_pConnection) \/ HasChain(port, m_pConnection)
        => HasChain(pending', m_pConnection) \/ HasChain(port', m_pConnection)
  <2>1. CASE HasChain(port, m_pConnection)
    BY <1>3, <1>4, <1>5, <2>1, ChainAppend
  <2>2. CASE o.op \in {"connect", "read"} /\ o.conn = m_pConnection
    BY <1>3, <1>4, <1>5, <2>2, ChainAppend
  <2>3. CASE /\ HasChain(pending, m_pConnection)
             /\ ~(o.op \in {"connect", "read"} /\ o.conn = m_pConnection)
    BY <1>3, <1>4, <2>3, ChainRemove DEF o
  <2>4. QED
    BY <2>1, <2>2, <2>3
<1>10. Prepared'
  BY <1>2, <1>3, <1>9, AtHand DEF Rest, Prepared, client, Terminated
<1>11. QED
  BY <1>6, <1>7, <1>8, <1>10, StepKeeps DEF Rest

-----------------------------------------------------------------------------
(* The theorems.                                                            *)

LEMMA InitHolds == ASSUME Init PROVE IInv
<1>1. /\ port = <<>> /\ pending = <<>> /\ outstanding_work = 0 /\ stopped = FALSE
      /\ stop_event_posted = FALSE
      /\ pc = [t \in Threads |-> IF t = "App" THEN "Idle" ELSE "None"]
      /\ m_pConnection = 0 /\ isOpen = FALSE /\ reopening = FALSE /\ closings = 0
      /\ made = 0 /\ then = "Idle" /\ incoming = 0
      /\ outgoing = [c \in Connections |-> 0] /\ sent = 0 /\ failed = FALSE
  BY DEF Init, CInit
<1>2. pc["App"] = "Idle" /\ pc["Context"] = "None" /\ ~Terminated
  BY <1>1 DEF Threads, Terminated
<1>3. pc \in [Threads -> AppLabels \cup ContextLabels]
      /\ pc["App"] \in AppLabels /\ pc["Context"] \in ContextLabels
  BY <1>1, <1>2 DEF Threads, AppLabels, ContextLabels
<1>4. ContextTypeOK(P, O)
  <2>1. <<>> \in Seq(P) /\ <<>> \in Seq(O)
    OBVIOUS
  <2>2. QED
    BY <1>1, <2>1 DEF ContextTypeOK
<1>5. ClientTypeOK
  <2>1. 0 \in 0 .. MaxConnects /\ 0 \in 0 .. 0 /\ 0 \in 0 .. MaxSends
        /\ 0 \in 0 .. MaxMessages /\ 0 \in 0 .. MaxClosings
    BY BoundsAssumption
  <2>2. outgoing \in [Connections -> Nat]
    BY <1>1
  <2>3. QED
    BY <1>1, <1>3, <2>1, <2>2 DEF ClientTypeOK
<1>6. Places /\ Sockets /\ HasWork /\ Prepared
  BY <1>1, <1>2 DEF Places, Sockets, HasWork, Prepared, StopLabels, InDisconnect
<1>7. CInv
  <2>1. ~StopQueued
    BY <1>1 DEF StopQueued
  <2>2. Len(pending) = 0 /\ Len(port) = 0
    BY <1>1
  <2>3. WorkCounted
    BY <1>1, <1>2, <2>1, <2>2 DEF WorkCounted
  <2>4. StopEventOnce
    BY <1>1, <1>2, <2>1 DEF StopEventOnce
  <2>5. StopNotLost
    BY <1>1 DEF StopNotLost
  <2>6. QED
    BY <2>3, <2>4, <2>5 DEF CInv
<1>8. QED
  BY <1>4, <1>5, <1>6, <1>7, IInvMeans DEF Rest

LEMMA StutterKeeps == ASSUME IInv, UNCHANGED vars PROVE IInv'
<1>1. UNCHANGED <<cvars, pc>> /\ UNCHANGED client
  BY DEF vars, context, cvars
<1>2. CNext
  BY <1>1 DEF CNext, ContextNext
<1>3. Rest
  BY IInvMeans
<1>4. ClientTypeOK'
  BY <1>1, <1>3 DEF Rest, ClientTypeOK, client, socket, messages
<1>5. Places' /\ Sockets' /\ HasWork' /\ Prepared'
  <2>1. Places' /\ Sockets'
    BY <1>1, <1>3 DEF Rest, Places, Sockets, cvars, client, socket, Terminated
  <2>2. HasWork' /\ Prepared'
    BY <1>1, <1>3 DEF Rest, HasWork, Prepared, cvars, client, Terminated, HasChain
  <2>3. QED
    BY <2>1, <2>2
<1>6. QED
  BY <1>2, <1>4, <1>5, StepKeeps DEF Rest

\* IInv holds in every state of the client, whatever the threads and the system do
\* and however often it connects and disconnects.
THEOREM ClientInvariant == Spec => []IInv
<1>1. Init => IInv
  BY InitHolds
<1>2. IInv /\ [Next]_vars => IInv'
  <2> SUFFICES ASSUME IInv, [Next]_vars PROVE IInv'
    OBVIOUS
  <2>1. CASE CallConnect \/ CallDisconnect \/ CallSend \/ PollMessages
    BY <2>1, CallConnectStep, CallDisconnectStep, CallSendStep, PollMessagesStep
  <2>2. CASE AppStep
    BY <2>2, ConnectFailsStep, ConnectToServerStep, StartThreadStep, TestSocketStep,
       PostCloseStep, AppStopStepKeeps, JoinThreadStep, ResetStep, PostSendStep DEF AppStep
  <2>3. CASE ThreadStep
    BY <2>3, ContextStepKeeps, HandlerStepKeeps DEF ThreadStep
  <2>4. CASE \E i \in DOMAIN pending : SystemCompletes(i)
    BY <2>4, SystemCompletesKeeps
  <2>5. CASE UNCHANGED vars
    BY <2>5, StutterKeeps
  <2>6. QED
    BY <2>1, <2>2, <2>3, <2>4, <2>5 DEF Next
<1>3. QED
  BY <1>1, <1>2, PTL DEF Spec

\* Types; the bounds of the counters; every packet and operation is a connection's.
THEOREM ClientTypeCorrect == Spec => []TypeOK
<1>1. IInv => TypeOK
  BY DEF IInv
<1>2. QED
  BY <1>1, ClientInvariant, PTL

\* outstanding_work_ counts what is pending, queued or being handled.
THEOREM WorkIsCounted == Spec => []WorkCounted
<1>1. IInv => WorkCounted
  BY DEF IInv
<1>2. QED
  BY <1>1, ClientInvariant, PTL

\* There is one stop event at most, and stop_event_posted_ says if there is one.
THEOREM OneStopEvent == Spec => []StopEventOnce
<1>1. IInv => StopEventOnce
  BY DEF IInv
<1>2. QED
  BY <1>1, ClientInvariant, PTL

\* While the context is stopped, some thread will come to see it.
THEOREM StopIsNotLost == Spec => []StopNotLost
<1>1. IInv => StopNotLost
  BY DEF IInv
<1>2. QED
  BY <1>1, ClientInvariant, PTL

\* run() is not called on a context without work.
THEOREM RunFindsWork == Spec => []RunHasWork
<1>1. IInv => RunHasWork
  BY DEF IInv, HasWork, RunHasWork
<1>2. QED
  BY <1>1, ClientInvariant, PTL

\* No thread is started before the last one has been joined, unless a socket could not be
\* opened or has been closed for the next endpoint.
THEOREM ThreadIsJoined == Spec => []ThreadJoined
<1>1. IInv => ThreadJoined
  <2> SUFFICES ASSUME IInv, pc["App"] \in {"Connect", "StartThread"}
               PROVE  pc["Context"] = "None" \/ closings > 0
    BY DEF ThreadJoined
  <2>1. ~Terminated
    BY Running DEF Threads
  <2>2. QED
    BY <2>1, AtHand DEF Rest, Places
<1>2. QED
  BY <1>1, ClientInvariant, PTL

\* As long as no connection has failed, Connect finds a context that is not stopped.
THEOREM RunFindsContextPrepared == Spec => []RunIsPrepared
<1>1. IInv => RunIsPrepared
  <2> SUFFICES ASSUME IInv, pc["App"] = "StartThread", stopped PROVE failed
    BY DEF RunIsPrepared
  <2>1. ~Terminated
    BY Running DEF Threads
  <2>2. QED
    BY <2>1, AtHand DEF Rest, Prepared
<1>2. QED
  BY <1>1, ClientInvariant, PTL

-----------------------------------------------------------------------------
(* Packets come up, Disconnect returns.  The prover does not know when an   *)
(* action is ENABLED: the theorems ask for NobodyStuck, which TLC checks.   *)

\* The handler of an async_connect closes the socket and is not yet at its end.
SocketCloses ==
    /\ pc["Context"] = "DoOne" /\ port # <<>> /\ Head(port).op = "connect"
    /\ ~reopening /\ reopening' = TRUE /\ closings' = closings + 1
    /\ UNCHANGED context

LEMMA HandlerStepRuns ==
    ASSUME IInv, HandlerStep
    PROVE  \/ Terminated'
           \/ HandlerRuns(P) /\ pc'["App"] = pc["App"] /\ stopped' = stopped
           \/ SocketCloses
<1>1. PICK p \in ToSet(port) :
         /\ Handling(p)
         /\ \/ ~reopening /\ CloseLambda(p)
            \/ ~reopening /\ Alive(p.conn) /\ Handler(p, p.conn)
            \/ ~reopening /\ StaleHandler(p)
            \/ reopening /\ Reopen(p)
            \/ reopening /\ StaleReopen(p)
  BY HandlerCases
<1>2. ~Terminated /\ p.conn \in Connections /\ (m_pConnection # 0 => m_pConnection \in Connections)
  BY <1>1, Handled
<1> DEFINE Runs == HandlerRuns(P) /\ pc'["App"] = pc["App"] /\ stopped' = stopped
<1>3. ASSUME NEW lambdas \in Seq(P), NEW started, Handle(lambdas, started)
      PROVE  Runs
  <2>1. pc \in [Threads -> Labels]
    BY <1>2, AtHand
  <2>2. pc'["Context"] = "WorkFinished" /\ pc'["App"] = pc["App"]
    BY <1>3, <2>1 DEF Handle, Goto, Threads
  <2>3. Handling(Head(port))
    BY <1>1 DEF Handling
  <2>4. port' = Tail(port) \o lambdas /\ stopped' = stopped
    BY <1>3 DEF Handle
  <2>5. QED
    BY <2>2, <2>3, <2>4 DEF HandlerRuns
<1>4. Terminate => Terminated'
  BY DEF Terminate, Terminated, Threads
<1>5. <<>> \in Seq(P)
  OBVIOUS
<1> HIDE DEF Runs
<1>6. ASSUME NEW e \in P, NEW started, Handle(<<e>>, started)
      PROVE  Runs
  <2>1. <<e>> \in Seq(P)
    OBVIOUS
  <2>2. QED
    BY <1>3, <1>6, <2>1
<1>7. ASSUME NEW started, Handle(<<>>, started)
      PROVE  Runs
  BY <1>3, <1>5, <1>7
<1>8. ASSUME NEW c \in Connections, Handler(p, c), ~reopening
      PROVE  Terminated' \/ Runs \/ SocketCloses
  <2>1. Lambda("close", c) \in P
    BY DEF Lambda, Op, Packet, Packets, P
  <2>2. CASE Fails(p, c)
    <3>1. Handle(<<Lambda("close", c)>>, <<>>) \/ Handle(<<>>, <<>>)
      BY <2>2 DEF Fails
    <3>2. QED
      BY <1>6, <1>7, <2>1, <3>1
  <2>3. CASE CloseSocket(p)
    BY <1>1, <1>8, <2>3 DEF CloseSocket, SocketCloses, Handling
  <2>4. CASE ChainGoesOn(p, c) \/ ChainReceives(p, c)
    BY <1>7, <2>4 DEF ChainGoesOn, ChainReceives
  <2>5. CASE SendLambda(p, c) \/ Written(p, c)
    BY <1>7, <2>5 DEF SendLambda, Written
  <2>6. CASE WrittenEmpty(p, c)
    BY <1>4, <1>7, <2>6 DEF WrittenEmpty
  <2>7. QED
    BY <1>8, <2>2, <2>3, <2>4, <2>5, <2>6 DEF Handler
<1>9. CASE ~reopening /\ CloseLambda(p)
  BY <1>7, <1>9 DEF CloseLambda, Runs
<1>10. CASE ~reopening /\ Handler(p, p.conn)
  BY <1>2, <1>8, <1>10 DEF Runs
<1>11. CASE ~reopening /\ StaleHandler(p)
  <2>1. CASE m_pConnection # 0 /\ Handler(p, m_pConnection)
    BY <1>2, <1>8, <1>11, <2>1 DEF Runs
  <2>2. CASE Terminate
    BY <1>4, <2>2
  <2>3. CASE Handle(<<>>, <<>>)
    BY <1>7, <2>3 DEF Runs
  <2>4. CASE Handle(<<Packet(Op(IF p.op = "read" THEN "read" ELSE "write", p.conn), FALSE)>>, <<>>)
    <3>1. PICK op \in {"read", "write"} : Handle(<<Packet(Op(op, p.conn), FALSE)>>, <<>>)
      BY <2>4
    <3>2. Packet(Op(op, p.conn), FALSE) \in P
      BY <1>2 DEF Packet, Op, Packets, P
    <3>3. QED
      BY <1>6, <3>1, <3>2 DEF Runs
  <2>5. QED
    BY <1>11, <2>1, <2>2, <2>3, <2>4 DEF StaleHandler
<1>12. Reopen(p) => Runs
  <2>1. Packet(Op("connect", p.conn), FALSE) \in P
    BY <1>2 DEF Packet, Op, Packets, P
  <2>2. QED
    BY <1>6, <1>7, <2>1 DEF Reopen
<1>13. CASE StaleReopen(p)
  BY <1>4, <1>7, <1>12, <1>13 DEF StaleReopen, Runs
<1>14. QED
  BY <1>1, <1>9, <1>10, <1>11, <1>12, <1>13 DEF Runs

\* No other thread goes on with the two steps of a range_connect_op.
LEMMA OthersReopenNot ==
    ASSUME [Next]_vars, ~ThreadStep
    PROVE  reopening' = reopening /\ (closings' = closings \/ ConnectToServer)
<1>1. CASE AppStep
  BY <1>1 DEF AppStep, ConnectFails, ConnectToServer, StartThread, TestSocket, PostClose,
     JoinThread, Reset, PostSend, client, socket
<1>2. CASE CallConnect \/ CallDisconnect \/ CallSend \/ PollMessages
  BY <1>2 DEF CallConnect, CallDisconnect, CallSend, PollMessages, socket
<1>3. CASE UNCHANGED vars \/ \E i \in DOMAIN pending : SystemCompletes(i)
  BY <1>3 DEF SystemCompletes, vars, client, socket
<1>4. QED
  BY <1>1, <1>2, <1>3 DEF Next

LEMMA OthersMove ==
    ASSUME IInv, [Next]_vars
    PROVE  ThreadStep \/ Terminated' \/ NotRunning \/ OthersPost(P)
<1>1. CASE Terminated
  BY <1>1 DEF NotRunning, Terminated
<1>2. CASE ~Terminated
  <2>1. /\ pc \in [Threads -> Labels] /\ port \in Seq(P) /\ pending \in Seq(O)
    BY <1>2, AtHand
  <2>2. \A label : Goto("App", label) => pc'["Context"] = pc["Context"]
    BY <2>1 DEF Goto, Threads
  <2>3. (pc' = pc \/ \E label : Goto("App", label)) => pc'["Context"] = pc["Context"]
    BY <2>2
  <2>4. ASSUME pc' = pc \/ \E label : Goto("App", label),
               port' = port \/ \E e \in P : port' = Append(port, e)
        PROVE  OthersPost(P)
    <3>1. CASE port' = port
      <4>1. port' = port \o <<>> /\ <<>> \in Seq(P)
        BY <2>1, <3>1
      <4>2. QED
        BY <2>3, <2>4, <4>1 DEF OthersPost
    <3>2. CASE \E e \in P : port' = Append(port, e)
      <4>1. PICK e \in P : port' = Append(port, e)
        BY <3>2
      <4>2. port' = port \o <<e>> /\ <<e>> \in Seq(P)
        BY <2>1, <4>1, AppendIsConcat
      <4>3. QED
        BY <2>3, <2>4, <4>2 DEF OthersPost
    <3>3. QED
      BY <2>4, <3>1, <3>2
  <2>5. StopEvent \in P
    BY DEF P
  <2>6. ASSUME m_pConnection # 0, NEW op \in {"close", "send"}
        PROVE  Lambda(op, m_pConnection) \in P
    <3>1. m_pConnection \in Connections
      BY <1>2, <2>6, AtHand, BoundsAssumption DEF Connections
    <3>2. QED
      BY <3>1 DEF P, Packets, Packet, Op, Lambda
  <2>7. CASE CallConnect \/ CallDisconnect \/ CallSend \/ ConnectFails \/ TestSocket \/ Reset
    BY <2>4, <2>7 DEF CallConnect, CallDisconnect, CallSend, ConnectFails, TestSocket, Reset
  <2>8. CASE PollMessages \/ UNCHANGED vars
    BY <2>4, <2>8 DEF PollMessages, vars, context
  <2>9. CASE ConnectToServer
    <3>1. made + 1 \in Connections
      BY <1>2, <2>9, AtHand, BoundsAssumption DEF Rest, Places, ConnectToServer, Connections
    <3>2. Packet(Op("connect", made + 1), FALSE) \in P
      BY <3>1 DEF P, Packets, Packet, Op
    <3>3. /\ \E label : Goto("App", label)
          /\ port' = port \/ port' = Append(port, Packet(Op("connect", made + 1), FALSE))
      BY <2>9 DEF ConnectToServer, Start, Post
    <3>4. QED
      BY <2>4, <3>2, <3>3
  <2>10. CASE PostClose \/ PostSend
    <3>1. m_pConnection # 0
      BY <1>2, <2>10, AtHand DEF Rest, Places, PostClose, PostSend
    <3>2. PICK op \in {"close", "send"} : Post(Lambda(op, m_pConnection))
      BY <2>10 DEF PostClose, PostSend
    <3>3. Lambda(op, m_pConnection) \in P /\ port' = Append(port, Lambda(op, m_pConnection))
      BY <2>6, <3>1, <3>2 DEF Post
    <3>4. \E label : Goto("App", label)
      BY <2>10 DEF PostClose, PostSend
    <3>5. QED
      BY <2>4, <3>3, <3>4
  <2>11. CASE StartThread
    BY <2>11 DEF StartThread, NotRunning, Terminate, Terminated, Threads
  <2>12. CASE AppStopStep
    BY <2>4, <2>5, <2>12 DEF AppStopStep, StopFlag, PostStop, PostStopEvent
  <2>13. CASE JoinThread
    BY <2>13 DEF JoinThread, Join, NotRunning
  <2>14. CASE \E i \in DOMAIN pending : SystemCompletes(i)
    <3>1. PICK i \in DOMAIN pending, good \in BOOLEAN : Complete(i, good)
      BY <2>14 DEF SystemCompletes
    <3>2. pending[i] \in O
      BY <2>1, ElementOfSeq, LenProperties
    <3>3. Packet(pending[i], good) \in P
      BY <3>2, PacketsFit DEF PacketsOf
    <3>4. QED
      BY <2>4, <3>1, <3>3 DEF Complete
  <2>15. QED
    BY <2>7, <2>8, <2>9, <2>10, <2>11, <2>12, <2>13, <2>14 DEF Next, AppStep
<1>3. QED
  BY <1>1, <1>2

\* Whatever anyone does, a packet of the port stays there, and each step of the context's
\* thread brings it nearer, or the thread nearer to do_one, or closes a socket.
LEMMA ComesNearer ==
    ASSUME IInv, [Next]_vars, NEW K, NEW n \in Nat, Within(K, n + 1), ~AtHead(K), ~NotRunning
    PROVE  \/ Within(K, n)' \/ NotRunning'
           \/ /\ ~ThreadStep /\ Within(K, n + 1)' /\ pc'["Context"] = pc["Context"]
              /\ reopening' = reopening
           \/ SocketCloses /\ Within(K, n + 1)'
           \/ /\ Within(K, n + 1)'
              /\ \/ pc["Context"] \in Steps(1) /\ pc'["Context"] \in Steps(0)
                 \/ pc["Context"] \in Steps(2) /\ pc'["Context"] \in Steps(0) \cup Steps(1)
                 \/ /\ pc["Context"] \in Steps(3)
                    /\ pc'["Context"] \in Steps(0) \cup Steps(1) \cup Steps(2)
<1>1. ~Terminated
  BY DEF NotRunning, Terminated
<1>2. port \in Seq(P) /\ StopEvent \in P /\ pc \in [Threads -> Labels]
  BY <1>1, AtHand, PacketsFit DEF PacketsOf
<1>3. Terminated' => NotRunning'
  BY DEF NotRunning, Terminated
<1>4. n + 1 \in Nat
  OBVIOUS
<1>5. CASE ContextStep
  BY <1>2, <1>5, ContextNearer
<1>6. CASE HandlerStep
  <2>1. CASE SocketCloses
    BY <2>1 DEF SocketCloses, context, Within
  <2>2. CASE HandlerRuns(P)
    BY <1>2, <2>2, HandlerNearer
  <2>3. QED
    BY <1>3, <1>6, <2>1, <2>2, HandlerStepRuns
<1>7. CASE ~ThreadStep
  <2>1. CASE OthersPost(P)
    <3>1. Within(K, n + 1)'
      BY <1>2, <1>4, <2>1, OthersKeepQueue
    <3>2. QED
      BY <1>7, <2>1, <3>1, OthersReopenNot DEF OthersPost
  <2>2. QED
    BY <1>3, <1>7, <2>1, OthersMove
<1>8. QED
  BY <1>5, <1>6, <1>7 DEF ThreadStep

LEMMA RunningSomewhere ==
    ASSUME IInv, ~NotRunning
    PROVE  ContextRunning /\ \E k \in 0 .. 3 : pc["Context"] \in Steps(k)
<1>1. ~Terminated
  BY DEF NotRunning, Terminated
<1>2. pc["Context"] \in ContextLabels
  BY <1>1, AtHand
<1>3. /\ Steps(0) = {"DoOne", "Restart"} /\ Steps(1) = {"Run", "PostStop", "RepostStop"}
      /\ Steps(2) = {"CheckStopped", "StopFlag"} /\ Steps(3) = {"StopSeen", "WorkFinished"}
  BY DEF Steps
<1>4. 0 \in 0 .. 3 /\ 1 \in 0 .. 3 /\ 2 \in 0 .. 3 /\ 3 \in 0 .. 3
  OBVIOUS
<1>5. ContextRunning
  BY <1>2 DEF NotRunning, ContextRunning, ContextLabels
<1>6. QED
  BY <1>2, <1>3, <1>4, <1>5 DEF NotRunning, ContextLabels, InDoOne, InHandling, Leaving

\* A packet that is among the first n + 1 comes to be the next one or among the first n,
\* as long as the thread runs.
ComesUp(K, n) == Within(K, n + 1) ~> AtHead(K) \/ Within(K, n) \/ NotRunning

LEMMA PacketsComeUp ==
    ASSUME NEW K, NEW n \in Nat
    PROVE  Spec /\ []NobodyStuck => ComesUp(K, n)
<1> DEFINE There == Within(K, n + 1)
           Out == AtHead(K) \/ Within(K, n) \/ NotRunning
           NearR == There /\ pc["Context"] \in Steps(0) /\ reopening
           Near0 == There /\ pc["Context"] \in Steps(0) /\ ~reopening
           Near1 == There /\ pc["Context"] \in Steps(1)
           Near2 == There /\ pc["Context"] \in Steps(2)
           Near3 == There /\ pc["Context"] \in Steps(3)
<1>1. /\ Steps(0) = {"DoOne", "Restart"} /\ Steps(1) = {"Run", "PostStop", "RepostStop"}
      /\ Steps(2) = {"CheckStopped", "StopFlag"} /\ Steps(3) = {"StopSeen", "WorkFinished"}
  BY DEF Steps
<1>2. ASSUME IInv, There, ~Out PROVE NearR \/ Near0 \/ Near1 \/ Near2 \/ Near3
  <2>1. PICK k \in 0 .. 3 : pc["Context"] \in Steps(k)
    BY <1>2, RunningSomewhere
  <2>2. k = 0 \/ k = 1 \/ k = 2 \/ k = 3
    OBVIOUS
  <2>3. QED
    BY <1>2, <2>1, <2>2
<1>3. ASSUME IInv, There, ~Out, [Next]_vars
      PROVE  \/ Out'
             \/ /\ ~ThreadStep /\ There' /\ pc'["Context"] = pc["Context"]
                /\ reopening' = reopening
             \/ /\ There' /\ pc["Context"] = "DoOne" /\ pc'["Context"] = "DoOne"
                /\ ~reopening /\ reopening' = TRUE
             \/ /\ There'
                /\ \/ pc["Context"] \in Steps(1) /\ pc'["Context"] \in Steps(0)
                   \/ pc["Context"] \in Steps(2) /\ pc'["Context"] \in Steps(0) \cup Steps(1)
                   \/ /\ pc["Context"] \in Steps(3)
                      /\ pc'["Context"] \in Steps(0) \cup Steps(1) \cup Steps(2)
  BY <1>3, ComesNearer DEF SocketCloses, context
<1>4. ASSUME There, ~Out, NobodyStuck, IInv PROVE ENABLED <<ThreadStep>>_vars
  <2>1. port # <<>>
    BY <1>4 DEF Within
  <2>2. ContextRunning
    BY <1>4, RunningSomewhere
  <2>3. QED
    BY <1>4, <2>1, <2>2 DEF NobodyStuck
<1> HIDE DEF There, Out
<1>5. ASSUME IInv, NearR, ~Out, [Next]_vars
      PROVE  Out' \/ (NearR' /\ ~ThreadStep)
  BY <1>1, <1>3, <1>5
<1>6. ASSUME IInv, Near0, ~Out, [Next]_vars
      PROVE  Out' \/ (Near0' /\ ~ThreadStep) \/ NearR'
  BY <1>1, <1>3, <1>6
<1>7. ASSUME IInv, Near1, ~Out, [Next]_vars
      PROVE  Out' \/ (Near1' /\ ~ThreadStep) \/ NearR' \/ Near0'
  BY <1>1, <1>3, <1>7
<1>8. ASSUME IInv, Near2, ~Out, [Next]_vars
      PROVE  Out' \/ (Near2' /\ ~ThreadStep) \/ NearR' \/ Near0' \/ Near1'
  BY <1>1, <1>3, <1>8
<1>9. ASSUME IInv, Near3, ~Out, [Next]_vars
      PROVE  Out' \/ (Near3' /\ ~ThreadStep) \/ NearR' \/ Near0' \/ Near1' \/ Near2'
  BY <1>1, <1>3, <1>9
<1>10. /\ (NearR => There) /\ (Near0 => There) /\ (Near1 => There) /\ (Near2 => There)
       /\ (Near3 => There)
  OBVIOUS
<1> HIDE DEF NearR, Near0, Near1, Near2, Near3
<1>11. Spec /\ []NobodyStuck => (NearR ~> Out)
  BY <1>4, <1>5, <1>10, ClientInvariant, PTL DEF Spec, Fairness
<1>12. Spec /\ []NobodyStuck => (Near0 ~> Out \/ NearR)
  BY <1>4, <1>6, <1>10, ClientInvariant, PTL DEF Spec, Fairness
<1>13. Spec /\ []NobodyStuck => (Near1 ~> Out \/ NearR \/ Near0)
  BY <1>4, <1>7, <1>10, ClientInvariant, PTL DEF Spec, Fairness
<1>14. Spec /\ []NobodyStuck => (Near2 ~> Out \/ NearR \/ Near0 \/ Near1)
  BY <1>4, <1>8, <1>10, ClientInvariant, PTL DEF Spec, Fairness
<1>15. Spec /\ []NobodyStuck => (Near3 ~> Out \/ NearR \/ Near0 \/ Near1 \/ Near2)
  BY <1>4, <1>9, <1>10, ClientInvariant, PTL DEF Spec, Fairness
<1>16. Spec /\ []NobodyStuck => (There ~> Out)
  BY <1>2, <1>11, <1>12, <1>13, <1>14, <1>15, ClientInvariant, PTL
<1>17. QED
  BY <1>16 DEF There, Out, ComesUp

-----------------------------------------------------------------------------
(* Disconnect returns.                                                      *)

Returned == pc["App"] \in {"Reset", "Terminated"}

\* What the application's thread does in a call of Disconnect.
LEMMA DisconnectingSteps ==
    ASSUME IInv, [Next]_vars,
           pc["App"] \in {"Disconnect", "PostClose", "StopFlag", "PostStop", "Join"}
    PROVE  \/ Returned'
           \/ ThreadStep /\ pc'["App"] = pc["App"] /\ ~AppStep
           \/ pc' = pc /\ stopped' = stopped /\ ~ThreadStep /\ ~AppStep
           \/ /\ TestSocket /\ pc["App"] = "Disconnect" /\ pc'["App"] \in {"PostClose", "StopFlag"}
              /\ pc'["Context"] = pc["Context"] /\ stopped' = stopped
           \/ /\ PostClose /\ pc["App"] = "PostClose" /\ pc'["App"] = "StopFlag"
              /\ pc'["Context"] = pc["Context"] /\ stopped' = stopped
           \/ /\ StopFlag("App") /\ pc["App"] = "StopFlag" /\ pc'["App"] \in {"PostStop", "Join"}
              /\ pc'["Context"] = pc["Context"] /\ stopped'
           \/ /\ PostStop("App") /\ pc["App"] = "PostStop" /\ Joining'
              /\ pc'["Context"] = pc["Context"] /\ stopped' = stopped
<1>1. ~Terminated
  BY Running DEF Threads
<1>2. pc \in [Threads -> Labels]
  BY <1>1, AtHand
<1>3. AppStep => TestSocket \/ PostClose \/ StopFlag("App") \/ PostStop("App") \/ JoinThread
  BY DEF AppStep, ConnectFails, ConnectToServer, StartThread, AppStopStep, Reset, PostSend
<1>4. CASE StopFlag("App")
  BY <1>2, <1>4 DEF StopFlag, Goto, AfterStop, Threads, Joining
<1>5. CASE PostStop("App")
  BY <1>2, <1>5 DEF PostStop, Goto, AfterStop, Threads, Joining
<1>6. CASE JoinThread
  BY <1>2, <1>6 DEF JoinThread, Join, Threads, Returned
<1>7. CASE PostClose
  BY <1>2, <1>7 DEF PostClose, Post, Goto, Threads
<1>8. CASE TestSocket
  BY <1>2, <1>8 DEF TestSocket, Goto, Threads
<1>9. CASE ThreadStep /\ ~AppStep
  <2>1. CASE ContextStep
    BY <1>2, <1>9, <2>1, ContextPlaces
  <2>2. CASE HandlerStep
    <3>1. Terminated' => Returned'
      <4>1. IInv'
        BY <2>2, HandlerStepKeeps
      <4>2. QED
        BY <4>1 DEF IInv, TypeOK, ClientTypeOK, Terminated, Returned, Threads, ContextLabels, InDoOne,
           InHandling, Leaving
    <3>2. SocketCloses => pc'["App"] = pc["App"]
      BY DEF SocketCloses, context
    <3>3. QED
      BY <1>9, <2>2, <3>1, <3>2, HandlerStepRuns
  <2>3. QED
    BY <1>9, <2>1, <2>2 DEF ThreadStep
<1>10. CASE ~ThreadStep /\ ~AppStep
  <2>1. UNCHANGED vars \/ \E i \in DOMAIN pending : SystemCompletes(i)
    BY <1>10 DEF Next, CallConnect, CallDisconnect, CallSend, PollMessages
  <2>2. pc' = pc /\ stopped' = stopped
    BY <2>1 DEF SystemCompletes, Complete, vars, context
  <2>3. QED
    BY <1>10, <2>2
<1>11. QED
  BY <1>3, <1>4, <1>5, <1>6, <1>7, <1>8, <1>9, <1>10

\* Nothing moves any more once the program has ended.
LEMMA EndedForGood ==
    ASSUME IInv, Terminated, [Next]_vars
    PROVE  pc' = pc /\ pc["App"] = "Terminated"
<1>1. pc["App"] = "Terminated"
  BY DEF IInv, TypeOK, ClientTypeOK, Terminated, Threads, ContextLabels, InDoOne, InHandling,
     Leaving
<1>2. pc["Context"] = "Terminated"
  BY DEF Terminated
<1>3. ~HandlerStep /\ ~ContextStep
  BY <1>2 DEF HandlerStep, Handling, ContextStep, Run, WorkFinished, StopFlag, PostStop,
     TakeStop, StopSeen, CheckStopped, RepostStop, Restart
<1>4. ~AppStep
  BY <1>1 DEF AppStep, ConnectFails, ConnectToServer, StartThread, TestSocket, PostClose,
     AppStopStep, StopFlag, PostStop, JoinThread, Join, Reset, PostSend
<1>5. UNCHANGED vars \/ PollMessages
  BY <1>1, <1>3, <1>4 DEF Next, CallConnect, CallDisconnect, CallSend, ThreadStep, SystemCompletes
<1>6. pc' = pc
  BY <1>5 DEF vars, context, PollMessages
<1>7. QED
  BY <1>1, <1>6

LEMMA JoinSeenKept == ASSUME IInv, JoinSeen, [Next]_vars PROVE JoinSeen'
<1> DEFINE Calling == pc["App"] \in {"Disconnect", "PostClose", "StopFlag", "PostStop", "Join"}
<1>1. CASE Terminated
  BY <1>1, EndedForGood DEF JoinSeen
<1>2. CASE Terminated'
  BY <1>2 DEF JoinSeen, NotRunning, Terminated
<1>3. CASE ~Terminated /\ ~Terminated'
  <2>1. pc \in [Threads -> Labels]
    BY <1>3, AtHand
  <2>2. CASE Calling /\ ~ThreadStep
    BY <2>2, DisconnectingSteps DEF JoinSeen, NotRunning, Returned, Joining
  <2>3. CASE HandlerStep
    <3>1. CASE HandlerRuns(P) /\ pc'["App"] = pc["App"] /\ stopped' = stopped
      BY <3>1 DEF JoinSeen, HandlerRuns, Handling, NotRunning
    <3>2. CASE SocketCloses
      BY <3>2 DEF SocketCloses, context, JoinSeen, NotRunning
    <3>3. QED
      BY <1>3, <2>3, <3>1, <3>2, HandlerStepRuns
  <2>4. CASE ContextStep
    <3>1. /\ pc'["App"] = pc["App"] /\ ~NotRunning
          /\ stopped' = stopped \/ stopped' = TRUE \/ pc'["Context"] = "Done"
      BY <2>1, <2>4, ContextPlaces
    <3>2. QED
      BY <3>1 DEF JoinSeen, NotRunning
  <2>5. CASE ~Calling /\ ~ThreadStep
    <3>1. \A label : Goto("App", label) => pc'["App"] = label
      BY <2>1 DEF Goto, Threads
    <3>2. then \in {"Idle", "Connect"}
      BY <1>3, AtHand
    <3>3. ~TestSocket /\ ~PostClose /\ ~AppStopStep /\ ~JoinThread
      BY <2>5 DEF TestSocket, PostClose, AppStopStep, StopFlag, PostStop, JoinThread, Join
    <3>4. CASE StartThread
      BY <2>1, <3>4 DEF StartThread, Terminate, JoinSeen, Threads
    <3>5. CASE ConnectFails \/ ConnectToServer \/ Reset \/ PostSend
      BY <3>1, <3>2, <3>5 DEF ConnectFails, ConnectToServer, Reset, PostSend, JoinSeen
    <3>6. CASE \E i \in DOMAIN pending : SystemCompletes(i)
      BY <2>5, <3>6 DEF SystemCompletes, Complete, JoinSeen
    <3>7. CASE CallConnect \/ CallDisconnect \/ CallSend
      BY <3>1, <3>7 DEF CallConnect, CallDisconnect, CallSend, JoinSeen
    <3>8. CASE PollMessages \/ UNCHANGED vars
      BY <2>5, <3>8 DEF PollMessages, vars, context, JoinSeen
    <3>9. QED
      BY <2>5, <3>3, <3>4, <3>5, <3>6, <3>7, <3>8 DEF Next, AppStep
  <2>6. QED
    BY <2>2, <2>3, <2>4, <2>5 DEF ThreadStep
<1>4. QED
  BY <1>1, <1>2, <1>3

LEMMA StoppedByThen == Spec => [](IInv /\ JoinSeen)
<1>1. Init => JoinSeen
  BY DEF Init, JoinSeen, Threads
<1>2. IInv /\ JoinSeen /\ [Next]_vars => JoinSeen'
  BY JoinSeenKept
<1>3. QED
  BY <1>1, <1>2, ClientInvariant, PTL DEF Spec

\* What happens while Disconnect joins the thread.
LEMMA JoiningSteps ==
    ASSUME IInv, JoinSeen, Joining, [Next]_vars
    PROVE  \/ Returned'
           \/ Joining' /\ ~ThreadStep /\ ~AppStep /\ pc' = pc
           \/ /\ Joining' /\ ThreadStep /\ ~AppStep
              /\ pc["Context"] = "PostStop" => pc'["Context"] = "DoOne" /\ stop_event_posted'
              /\ pc["Context"] = "StopSeen" => pc'["Context"] = "CheckStopped"
              /\ pc["Context"] = "CheckStopped" => pc'["Context"] = "RepostStop"
              /\ pc["Context"] = "RepostStop" => pc'["Context"] = "Restart"
              /\ pc["Context"] = "Restart" => pc'["Context"] = "Done"
              /\ AtHead({StopEvent}) => pc'["Context"] = "StopSeen"
              /\ ~NotRunning
<1>1. pc["App"] = "Join" /\ ~Terminated
  BY Running DEF Joining, Threads
<1>2. pc \in [Threads -> Labels]
  BY <1>1, AtHand
<1>3. CASE ThreadStep /\ ~AppStep /\ pc'["App"] = pc["App"]
  <2>1. Joining'
    BY <1>1, <1>3 DEF Joining
  <2>2. CASE HandlerStep
    <3>1. CASE Terminated'
      <4>1. IInv'
        BY <2>2, HandlerStepKeeps
      <4>2. QED
        BY <3>1, <4>1 DEF IInv, TypeOK, ClientTypeOK, Terminated, Returned, Threads, ContextLabels,
           InDoOne, InHandling, Leaving
    <3>2. CASE HandlerRuns(P)
      BY <1>3, <2>1, <3>2 DEF HandlerRuns, Handling, AtHead, NotRunning
    <3>3. CASE SocketCloses
      <4>1. ~AtHead({StopEvent})
        BY <3>3 DEF SocketCloses, AtHead, StopEvent
      <4>2. QED
        BY <1>3, <2>1, <3>3, <4>1 DEF SocketCloses, NotRunning
    <3>4. QED
      BY <2>2, <3>1, <3>2, <3>3, HandlerStepRuns
  <2>3. CASE ContextStep
    <3>1. ~NotRunning
      BY <1>2, <2>3, ContextPlaces
    <3>2. stopped
      BY <1>1, <3>1 DEF JoinSeen
    <3>3. QED
      BY <1>2, <1>3, <2>1, <2>3, <3>1, <3>2, ContextPlaces
  <2>4. QED
    BY <1>3, <2>2, <2>3 DEF ThreadStep
<1>4. CASE pc' = pc /\ ~AppStep /\ ~ThreadStep
  BY <1>1, <1>4 DEF Joining
<1>5. QED
  BY <1>1, <1>3, <1>4, DisconnectingSteps

\* Disconnect gets to its join, with a stop event in the port: the event comes nearer until
\* Disconnect returns (DedicatedClient::Disconnect: the close is posted, m_Context.stop(),
\* m_ContextThread.join()).  This is DisconnectReturns, but for the induction over the places
\* of the port.
THEOREM DisconnectComesNearer ==
    ASSUME NEW n \in Nat
    PROVE  Spec /\ []NobodyStuck =>
              /\ (pc["App"] = "Disconnect"
                    ~> Returned \/ (Joining /\ Within({StopEvent}, Len(port))))
              /\ [](~Within({StopEvent}, 0))
              /\ (Joining /\ Within({StopEvent}, n + 1)
                    ~> Returned \/ (Joining /\ Within({StopEvent}, n)))
<1> DEFINE Inv == IInv /\ JoinSeen
           Asking == pc["App"] = "Disconnect"
           Closing == pc["App"] = "PostClose"
           Flagging == pc["App"] = "StopFlag"
           Posting == pc["App"] = "PostStop"
           Seeing == Joining /\ pc["Context"] = "StopSeen"
           Checking == Joining /\ pc["Context"] = "CheckStopped"
           Reposting == Joining /\ pc["Context"] = "RepostStop"
           Restarting == Joining /\ pc["Context"] = "Restart"
           Stopping == Joining /\ pc["Context"] = "PostStop"
           Still == Joining /\ NotRunning
           Queued == Joining /\ Within({StopEvent}, Len(port))
           Taken == Joining /\ AtHead({StopEvent})
           Far == Joining /\ Within({StopEvent}, n + 1)
           Near == Joining /\ Within({StopEvent}, n)
<1>1. ASSUME Inv, Flagging, [Next]_vars
      PROVE  Returned' \/ (Flagging' /\ ~AppStep) \/ Posting' \/ Joining'
  BY <1>1, DisconnectingSteps DEF Joining
<1>2. ASSUME Inv, Posting, [Next]_vars
      PROVE  Returned' \/ (Posting' /\ ~AppStep) \/ Joining'
  BY <1>2, DisconnectingSteps
<1>3. ASSUME Asking \/ Closing \/ Flagging \/ Posting, NobodyStuck PROVE ENABLED <<AppStep>>_vars
  BY <1>3 DEF NobodyStuck, InCall, StopLabels, AppLabels
<1>4. ASSUME Inv, Joining, [Next]_vars PROVE Returned' \/ Joining'
  BY <1>4, JoiningSteps
<1>5. ASSUME Inv, Still, [Next]_vars PROVE Returned' \/ (Still' /\ ~AppStep)
  BY <1>5, JoiningSteps DEF NotRunning
<1>6. ASSUME Inv, Still, NobodyStuck PROVE ENABLED <<AppStep>>_vars
  <2>1. pc["Context"] \in {"None", "Done"} /\ pc["App"] = "Join"
    <3>1. ~Terminated
      BY <1>6, Running DEF Joining, Threads
    <3>2. QED
      BY <1>6, <3>1 DEF NotRunning, Terminated, Joining
  <2>2. InCall /\ ~ContextRunning
    BY <2>1 DEF InCall, AppLabels, ContextRunning, InDoOne, InHandling, Leaving
  <2>3. QED
    BY <1>6, <2>2 DEF NobodyStuck
<1>7. ASSUME Inv, Restarting, [Next]_vars
      PROVE  Returned' \/ (Restarting' /\ ~ThreadStep) \/ Still'
  BY <1>7, JoiningSteps DEF NotRunning
<1>8. ASSUME Inv, Reposting, [Next]_vars
      PROVE  Returned' \/ (Reposting' /\ ~ThreadStep) \/ Restarting'
  BY <1>8, JoiningSteps
<1>9. ASSUME Inv, Checking, [Next]_vars
      PROVE  Returned' \/ (Checking' /\ ~ThreadStep) \/ Reposting'
  BY <1>9, JoiningSteps
<1>10. ASSUME Inv, Seeing, [Next]_vars
       PROVE  Returned' \/ (Seeing' /\ ~ThreadStep) \/ Checking'
  BY <1>10, JoiningSteps
<1>11. ASSUME Inv, Inv', Stopping, [Next]_vars
       PROVE  Returned' \/ (Stopping' /\ ~ThreadStep) \/ Queued'
  <2>1. SUFFICES ASSUME Joining', pc'["Context"] = "DoOne", stop_event_posted' PROVE Queued'
    BY <1>11, JoiningSteps
  <2>2. StopEventOnce' /\ ~Terminated'
    BY <1>11, <2>1 DEF IInv, CInv, Terminated
  <2>3. StopQueued'
    BY <2>1, <2>2 DEF StopEventOnce
  <2>4. ContextTypeOK(P, O)'
    BY <1>11 DEF IInv, TypeOK, P, O
  <2>5. \A i \in DOMAIN port' : i <= Len(port')
    BY <2>4, LenProperties DEF ContextTypeOK
  <2>6. QED
    BY <2>1, <2>3, <2>5 DEF StopQueued, Within
<1>12. ASSUME Inv, Taken, [Next]_vars
       PROVE  Returned' \/ (Taken' /\ ~ThreadStep) \/ Seeing'
  <2>1. CASE ~ThreadStep /\ Joining'
    <3>1. Terminated' \/ OthersPost(P)
      BY <1>12, <2>1, OthersMove DEF AtHead, NotRunning
    <3>2. ~Terminated'
      BY <1>12, <2>1, JoiningSteps DEF AtHead, Terminated, Returned, Joining
    <3>3. port \in Seq(P) /\ 0 \in Nat
      BY <1>12 DEF IInv, TypeOK, ContextTypeOK, P, O
    <3>4. AtHead({StopEvent})'
      BY <1>12, <3>1, <3>2, <3>3, OthersKeepQueue DEF AtHead, StopEvent
    <3>5. QED
      BY <2>1, <3>4
  <2>2. QED
    BY <1>12, <2>1, JoiningSteps
<1>13. ASSUME Inv, NobodyStuck,
              Seeing \/ Checking \/ Reposting \/ Restarting \/ Stopping \/ Taken
       PROVE  ENABLED <<ThreadStep>>_vars
  <2>1. ContextRunning
    BY <1>13 DEF ContextRunning, AtHead, InDoOne, InHandling, Leaving
  <2>2. ~(pc["Context"] = "DoOne" /\ port = <<>>)
    BY <1>13 DEF AtHead
  <2>3. QED
    BY <1>13, <2>1, <2>2 DEF NobodyStuck
<1>14. ASSUME Inv, Joining
       PROVE  Still \/ Queued \/ Stopping \/ Seeing \/ Checking \/ Reposting
  <2>1. ~Terminated
    BY <1>14, Running DEF Joining, Threads
  <2>2. port \in Seq(P) /\ CInv
    BY <1>14 DEF IInv, TypeOK, ContextTypeOK, P, O, CInv
  <2>3. QED
    BY <1>14, <2>1, <2>2, JoiningStates
<1>15. ASSUME Inv PROVE ~Within({StopEvent}, 0)
  <2>1. port \in Seq(P)
    BY <1>15 DEF IInv, TypeOK, ContextTypeOK, P, O
  <2>2. QED
    BY <2>1, NothingWithinNone
<1>16. ASSUME Inv, Closing, [Next]_vars
       PROVE  Returned' \/ (Closing' /\ ~AppStep) \/ Flagging'
  BY <1>16, DisconnectingSteps
<1>17. ASSUME Inv, Asking, [Next]_vars
       PROVE  Returned' \/ (Asking' /\ ~AppStep) \/ Closing' \/ Flagging'
  BY <1>17, DisconnectingSteps
<1>18. Spec => []Inv
  BY StoppedByThen, PTL
<1>19. Spec /\ []NobodyStuck => ComesUp({StopEvent}, n)
  BY PacketsComeUp
<1>20. Spec /\ []NobodyStuck =>
         (Within({StopEvent}, n + 1) ~> AtHead({StopEvent}) \/ Within({StopEvent}, n) \/ NotRunning)
  BY <1>19, PTL DEF ComesUp
<1> HIDE DEF Inv
<1>21. /\ Seeing \/ Checking \/ Reposting \/ Restarting \/ Stopping \/ Still \/ Queued \/ Taken
             \/ Far \/ Near => Joining
       /\ Far => Within({StopEvent}, n + 1)
       /\ Joining /\ AtHead({StopEvent}) => Taken
       /\ Joining /\ Within({StopEvent}, n) => Near
       /\ Joining /\ NotRunning => Still
  OBVIOUS
<1> HIDE DEF Asking, Closing, Flagging, Posting, Seeing, Checking, Reposting, Restarting,
             Stopping, Still, Queued, Taken, Far, Near
<1>22. Spec /\ []NobodyStuck => (Still ~> Returned)
  BY <1>5, <1>6, <1>18, PTL DEF Spec, Fairness
<1>23. Spec /\ []NobodyStuck => (Restarting ~> Returned \/ Still)
  BY <1>7, <1>13, <1>18, PTL DEF Spec, Fairness
<1>24. Spec /\ []NobodyStuck => (Reposting ~> Returned \/ Restarting)
  BY <1>8, <1>13, <1>18, PTL DEF Spec, Fairness
<1>25. Spec /\ []NobodyStuck => (Checking ~> Returned \/ Reposting)
  BY <1>9, <1>13, <1>18, PTL DEF Spec, Fairness
<1>26. Spec /\ []NobodyStuck => (Seeing ~> Returned \/ Checking)
  BY <1>10, <1>13, <1>18, PTL DEF Spec, Fairness
<1>27. Spec /\ []NobodyStuck => (Stopping ~> Returned \/ Queued)
  BY <1>11, <1>13, <1>18, PTL DEF Spec, Fairness
<1>28. Spec /\ []NobodyStuck => (Taken ~> Returned \/ Seeing)
  BY <1>12, <1>13, <1>18, PTL DEF Spec, Fairness
<1>29. Spec /\ []NobodyStuck => (Posting ~> Returned \/ Joining)
  BY <1>2, <1>3, <1>18, PTL DEF Spec, Fairness
<1>30. Spec /\ []NobodyStuck => (Flagging ~> Returned \/ Posting \/ Joining)
  BY <1>1, <1>3, <1>18, PTL DEF Spec, Fairness
<1>31. Spec /\ []NobodyStuck => (Closing ~> Returned \/ Flagging)
  BY <1>16, <1>3, <1>18, PTL DEF Spec, Fairness
<1>32. Spec /\ []NobodyStuck => (Asking ~> Returned \/ Closing \/ Flagging)
  BY <1>17, <1>3, <1>18, PTL DEF Spec, Fairness
<1>33. Spec /\ []NobodyStuck => (Seeing ~> Returned)
  BY <1>22, <1>23, <1>24, <1>25, <1>26, PTL
<1>34. Spec /\ []NobodyStuck => (Asking ~> Returned \/ Queued)
  BY <1>32, <1>14, <1>18, <1>22, <1>23, <1>24, <1>25, <1>27, <1>29, <1>30, <1>33, <1>31, PTL
<1>35. Spec /\ []NobodyStuck => (Far ~> Returned \/ Taken \/ Near \/ Still)
  BY <1>4, <1>18, <1>20, <1>21, PTL DEF Spec
<1>36. Spec /\ []NobodyStuck => (Far ~> Returned \/ Near)
  BY <1>22, <1>28, <1>33, <1>35, PTL
<1>37. Spec => [](~Within({StopEvent}, 0))
  BY <1>15, <1>18, PTL
<1>38. QED
  BY <1>34, <1>36, <1>37, PTL DEF Asking, Queued, Far, Near

-----------------------------------------------------------------------------
(* A connection made is served.                                             *)

\* Each connection has at most one async_connect, pending or in the port, and none before
\* it is made.
ConnectOnce ==
    ~Terminated =>
        \A c \in Connections :
            /\ None(pending, "connect", c) \/ None(port, "connect", c)
            /\ None(pending, "connect", c) \/ One(pending, "connect", c)
            /\ None(port, "connect", c) \/ One(port, "connect", c)
            /\ c > made => None(pending, "connect", c) /\ None(port, "connect", c)

\* Sequence t has no connect that s has not.
Fewer(s, t) ==
    \A c : /\ None(s, "connect", c) => None(t, "connect", c)
           /\ One(s, "connect", c) => None(t, "connect", c) \/ One(t, "connect", c)

LEMMA FewerConnects ==
    ASSUME ConnectOnce, ~Terminated, Fewer(port, port'), Fewer(pending, pending'), made' = made
    PROVE  ConnectOnce'
BY DEF ConnectOnce, Fewer

LEMMA FewerAppend ==
    ASSUME NEW S, NEW s \in Seq(S), NEW e \in S, e.op # "connect"
    PROVE  Fewer(s, Append(s, e))
BY OpAppend DEF Fewer, IsOp

LEMMA FewerTail ==
    ASSUME NEW S, NEW s \in Seq(S), s # <<>>
    PROVE  Fewer(s, Tail(s))
BY OpTail DEF Fewer

LEMMA FewerSame == \A s : Fewer(s, s)
BY DEF Fewer

LEMMA FewerFewer ==
    ASSUME NEW s, NEW t, NEW u, Fewer(s, t), Fewer(t, u)
    PROVE  Fewer(s, u)
BY DEF Fewer

\* Unless a range_connect_op goes on to the next endpoint, a handler posts at most one
\* packet and starts at most one operation, no connect.
LEMMA HandlerConnectsNot ==
    ASSUME IInv, HandlerStep, ~reopening, ~SocketCloses, ~Terminated'
    PROVE  /\ Fewer(pending, pending') /\ Fewer(port, port') /\ Fewer(Tail(port), port')
           /\ made' = made /\ m_pConnection' = m_pConnection
<1>1. PICK p \in ToSet(port) :
         /\ Handling(p)
         /\ CloseLambda(p) \/ (Alive(p.conn) /\ Handler(p, p.conn)) \/ StaleHandler(p)
  BY HandlerCases
<1>2. ~Terminated /\ p.conn \in Connections /\ (m_pConnection # 0 => m_pConnection \in Connections)
  BY <1>1, Handled
<1>3. port \in Seq(P) /\ pending \in Seq(O) /\ port # <<>>
  BY <1>1, <1>2, AtHand DEF Handling
<1>4. Tail(port) \in Seq(P) /\ Fewer(port, Tail(port))
  BY <1>3, HeadTailProperties, FewerTail
<1> DEFINE Less == Fewer(pending, pending') /\ Fewer(port, port') /\ Fewer(Tail(port), port')
<1>5. ASSUME NEW c \in Connections, NEW op \in {"read", "write"}, NEW e \in P, e.op # "connect",
             NEW lambdas \in {<<>>, <<e>>}, NEW started \in {<<>>, <<Op(op, c)>>},
             Handle(lambdas, started)
      PROVE  Less
  <2>1. port' = Tail(port) \o lambdas /\ pending' = pending \o started
    BY <1>5 DEF Handle
  <2>2. Op(op, c) \in O /\ Op(op, c).op # "connect"
    BY DEF O, Operations, Op
  <2>3. Fewer(pending, pending')
    <3>1. CASE started = <<>>
      <4>1. pending' = pending
        BY <1>3, <2>1, <3>1
      <4>2. QED
        BY <4>1, FewerSame
    <3>2. CASE started = <<Op(op, c)>>
      <4>1. pending' = Append(pending, Op(op, c))
        BY <1>3, <2>1, <2>2, <3>2, AppendIsConcat
      <4>2. QED
        BY <1>3, <2>2, <4>1, FewerAppend
    <3>3. QED
      BY <3>1, <3>2
  <2>4. Fewer(Tail(port), port')
    <3>1. CASE lambdas = <<>>
      <4>1. port' = Tail(port)
        BY <1>4, <2>1, <3>1
      <4>2. QED
        BY <4>1, FewerSame
    <3>2. CASE lambdas = <<e>>
      <4>1. port' = Append(Tail(port), e)
        BY <1>4, <2>1, <3>2, AppendIsConcat
      <4>2. QED
        BY <1>4, <1>5, <4>1, FewerAppend
    <3>3. QED
      BY <3>1, <3>2
  <2>5. QED
    BY <1>4, <2>3, <2>4, FewerFewer
<1> HIDE DEF Less
<1>6. \A c \in Connections : Lambda("close", c) \in P /\ Lambda("close", c).op # "connect"
  BY DEF P, Packets, Lambda, Op, Packet
<1>7. ASSUME NEW c \in Connections, NEW op \in {"read", "write"},
             NEW started \in {<<>>, <<Op(op, c)>>}, Handle(<<>>, started)
      PROVE  Less
  BY <1>5, <1>6, <1>7
<1>8. ASSUME NEW e \in P, e.op # "connect", Handle(<<e>>, <<>>)
      PROVE  Less
  BY <1>2, <1>5, <1>8
<1>9. ~Terminate
  BY DEF Terminate, Terminated, Threads
<1>10. ASSUME NEW c \in Connections, Handler(p, c)
       PROVE  Less /\ made' = made /\ m_pConnection' = m_pConnection
  <2>1. made' = made /\ m_pConnection' = m_pConnection
    BY <1>10 DEF Handler, ChainGoesOn, ChainReceives, Fails, CloseSocket, SendLambda, Written,
       WrittenEmpty, client
  <2>2. CASE ChainGoesOn(p, c) \/ ChainReceives(p, c)
    BY <1>7, <2>1, <2>2 DEF ChainGoesOn, ChainReceives
  <2>3. CASE Fails(p, c)
    <3>1. Handle(<<Lambda("close", c)>>, <<>>) \/ Handle(<<>>, <<>>)
      BY <2>3 DEF Fails
    <3>2. QED
      BY <1>6, <1>7, <1>8, <2>1, <3>1
  <2>4. CASE CloseSocket(p)
    BY <1>1, <2>4 DEF CloseSocket, SocketCloses, Handling
  <2>5. CASE SendLambda(p, c)
    <3>1. PICK started \in {<<>>, <<Op("write", c)>>} : Handle(<<>>, started)
      BY <2>5 DEF SendLambda
    <3>2. QED
      BY <1>7, <2>1, <3>1
  <2>6. CASE Written(p, c)
    <3>1. PICK started \in {<<>>, <<Op("write", c)>>} : Handle(<<>>, started)
      BY <2>6 DEF Written
    <3>2. QED
      BY <1>7, <2>1, <3>1
  <2>7. CASE WrittenEmpty(p, c)
    <3>1. PICK started \in {<<>>, <<Op("write", c)>>} : Handle(<<>>, started)
      BY <1>9, <2>7 DEF WrittenEmpty
    <3>2. QED
      BY <1>7, <2>1, <3>1
  <2>8. QED
    BY <1>10, <2>2, <2>3, <2>4, <2>5, <2>6, <2>7 DEF Handler
<1>11. ASSUME Handle(<<>>, <<>>), UNCHANGED client
       PROVE  Less /\ made' = made /\ m_pConnection' = m_pConnection
  BY <1>2, <1>7, <1>11 DEF client
<1>12. CASE CloseLambda(p)
  BY <1>11, <1>12 DEF CloseLambda, Less
<1>13. CASE Handler(p, p.conn)
  BY <1>2, <1>10, <1>13 DEF Less
<1>14. CASE StaleHandler(p)
  <2>1. CASE m_pConnection # 0 /\ Handler(p, m_pConnection)
    BY <1>2, <1>10, <2>1 DEF Less
  <2>2. CASE Handle(<<>>, <<>>) /\ UNCHANGED client
    BY <1>11, <2>2 DEF Less
  <2>3. CASE /\ Handle(<<Packet(Op(IF p.op = "read" THEN "read" ELSE "write", p.conn), FALSE)>>,
                       <<>>)
             /\ UNCHANGED client
    <3>1. PICK op \in {"read", "write"} : Handle(<<Packet(Op(op, p.conn), FALSE)>>, <<>>)
      BY <2>3
    <3>2. /\ Packet(Op(op, p.conn), FALSE) \in P
          /\ Packet(Op(op, p.conn), FALSE).op # "connect"
      BY <1>2 DEF P, Packets, Op, Packet
    <3>3. Less
      BY <1>8, <3>1, <3>2
    <3>4. QED
      BY <2>3, <3>3 DEF Less, client
  <2>4. QED
    BY <1>9, <1>14, <2>1, <2>2, <2>3 DEF StaleHandler
<1>15. QED
  BY <1>1, <1>12, <1>13, <1>14

\* The second step of a range_connect_op starts the same async_connect again, or ends it.
LEMMA HandlerReconnects ==
    ASSUME IInv, HandlerStep, reopening, ~Terminated'
    PROVE  /\ made' = made /\ m_pConnection' = m_pConnection
           /\ reopening' = FALSE /\ closings' = closings /\ port # <<>>
           /\ LET p == Head(port)
                  o == Op("connect", p.conn)
              IN  /\ p \in Packets /\ p.op = "connect" /\ o \in O /\ Packet(o, FALSE) \in P
                  /\ \/ port' = Tail(port) /\ pending' = Append(pending, o)
                     \/ port' = Append(Tail(port), Packet(o, FALSE)) /\ pending' = pending
                     \/ port' = Tail(port) /\ pending' = pending
<1>1. PICK p \in ToSet(port) : Handling(p) /\ (Reopen(p) \/ StaleReopen(p))
  BY HandlerCases
<1>2. ~Terminated /\ p \in Packets /\ p.conn \in Connections
  BY <1>1, Handled
<1>3. port \in Seq(P) /\ pending \in Seq(O) /\ port # <<>> /\ p = Head(port) /\ p.op = "connect"
  BY <1>1, <1>2, AtHand DEF Handling, Rest, Sockets
<1> DEFINE o == Op("connect", p.conn)
           e == Packet(o, FALSE)
<1>4. Tail(port) \in Seq(P) /\ o \in O /\ e \in P
  BY <1>2, <1>3, HeadTailProperties, PacketsFit DEF O, Operations, Op, PacketsOf
<1>5. ~Terminate
  BY DEF Terminate, Terminated, Threads
<1>6. \/ Handle(<<>>, <<o>>) \/ Handle(<<e>>, <<>>) \/ Handle(<<>>, <<>>)
  BY <1>1, <1>5 DEF Reopen, StaleReopen
<1>7. /\ made' = made /\ m_pConnection' = m_pConnection
      /\ reopening' = FALSE /\ closings' = closings
  BY <1>1, <1>5 DEF Reopen, StaleReopen
<1> HIDE DEF o, e
<1>8. /\ Tail(port) \o <<>> = Tail(port) /\ Tail(port) \o <<e>> = Append(Tail(port), e)
      /\ pending \o <<>> = pending /\ pending \o <<o>> = Append(pending, o)
  BY <1>3, <1>4, AppendIsConcat
<1>9. \/ port' = Tail(port) /\ pending' = Append(pending, o)
      \/ port' = Append(Tail(port), e) /\ pending' = pending
      \/ port' = Tail(port) /\ pending' = pending
  BY <1>6, <1>8 DEF Handle
<1>10. QED
  BY <1>2, <1>3, <1>4, <1>7, <1>9 DEF o, e

\* A connect that is started again goes from the packets to the operations, or to the end
\* of the packets.
LEMMA ReconnectMovesConnect ==
    ASSUME IInv, ConnectOnce, HandlerStep, reopening, ~Terminated, ~Terminated'
    PROVE  ConnectOnce'
<1> DEFINE p == Head(port)
           o == Op("connect", p.conn)
           e == Packet(o, FALSE)
<1>1. /\ made' = made /\ port # <<>> /\ p.op = "connect" /\ o \in O /\ e \in P
      /\ \/ port' = Tail(port) /\ pending' = Append(pending, o)
         \/ port' = Append(Tail(port), e) /\ pending' = pending
         \/ port' = Tail(port) /\ pending' = pending
  BY HandlerReconnects
<1>2. port \in Seq(P) /\ pending \in Seq(O) /\ Tail(port) \in Seq(P)
  BY <1>1, AtHand, HeadTailProperties
<1>3. \A c : /\ IsOp(o, "connect", c) <=> IsOp(p, "connect", c)
             /\ IsOp(e, "connect", c) <=> IsOp(p, "connect", c)
  BY <1>1 DEF IsOp, Op, Packet
<1> HIDE DEF p, o, e
<1>4. SUFFICES ASSUME NEW c \in Connections
               PROVE  /\ None(pending', "connect", c) \/ None(port', "connect", c)
                      /\ None(pending', "connect", c) \/ One(pending', "connect", c)
                      /\ None(port', "connect", c) \/ One(port', "connect", c)
                      /\ c > made => None(pending', "connect", c) /\ None(port', "connect", c)
  BY <1>1 DEF ConnectOnce
<1>5. /\ None(pending, "connect", c) \/ None(port, "connect", c)
      /\ None(pending, "connect", c) \/ One(pending, "connect", c)
      /\ None(port, "connect", c) \/ One(port, "connect", c)
      /\ c > made => None(pending, "connect", c) /\ None(port, "connect", c)
  BY DEF ConnectOnce
<1>6. CASE IsOp(p, "connect", c)
  <2>1. ~None(port, "connect", c)
    BY <1>1, <1>2, <1>6, OpTail DEF p
  <2>2. One(port, "connect", c) /\ None(pending, "connect", c) /\ ~(c > made)
    BY <1>5, <2>1
  <2>3. None(Tail(port), "connect", c)
    BY <1>1, <1>2, <1>6, <2>2, OpTail DEF p
  <2>4. /\ One(Append(pending, o), "connect", c)
        /\ One(Append(Tail(port), e), "connect", c)
    BY <1>1, <1>2, <1>3, <1>6, <2>2, <2>3, OpAppend
  <2>5. QED
    BY <1>1, <2>2, <2>3, <2>4
<1>7. CASE ~IsOp(p, "connect", c)
  <2>1. Fewer(port, Tail(port))
    BY <1>1, <1>2, FewerTail
  <2>2. /\ None(pending, "connect", c) => None(Append(pending, o), "connect", c)
        /\ One(pending, "connect", c) => One(Append(pending, o), "connect", c)
        /\ None(Tail(port), "connect", c) => None(Append(Tail(port), e), "connect", c)
        /\ One(Tail(port), "connect", c) => One(Append(Tail(port), e), "connect", c)
    BY <1>1, <1>2, <1>3, <1>7, OpAppend
  <2>3. /\ None(port, "connect", c) => None(Tail(port), "connect", c)
        /\ One(port, "connect", c)
               => None(Tail(port), "connect", c) \/ One(Tail(port), "connect", c)
    BY <2>1 DEF Fewer
  <2>4. /\ None(pending, "connect", c) => None(pending', "connect", c)
        /\ One(pending, "connect", c) => One(pending', "connect", c)
    BY <1>1, <2>2
  <2>5. /\ None(port, "connect", c) => None(port', "connect", c)
        /\ One(port, "connect", c)
               => None(port', "connect", c) \/ One(port', "connect", c)
    BY <1>1, <2>2, <2>3
  <2>6. QED
    BY <1>5, <2>4, <2>5
<1>8. QED
  BY <1>6, <1>7

\* A connect that completes goes from the operations to the packets.
LEMMA CompletionMovesConnect ==
    ASSUME IInv, ConnectOnce, NEW i \in DOMAIN pending, SystemCompletes(i)
    PROVE  ConnectOnce'
<1>1. PICK good \in BOOLEAN : Complete(i, good)
  BY DEF SystemCompletes
<1>2. ~Terminated /\ made' = made /\ pc' = pc
  BY <1>1 DEF SystemCompletes, Complete, client
<1> DEFINE o == pending[i]
           p == Packet(o, good)
<1>3. pending' = RemoveAt(pending, i) /\ port' = Append(port, p)
  BY <1>1 DEF Complete
<1>4. pending \in Seq(O) /\ port \in Seq(P) /\ o \in O
  BY <1>2, AtHand, SeqFacts
<1>5. p \in P /\ \A c : IsOp(p, "connect", c) <=> IsOp(o, "connect", c)
  BY <1>4, PacketsFit DEF PacketsOf, Packet, IsOp
<1> HIDE DEF o, p
<1>6. SUFFICES ASSUME NEW c \in Connections
               PROVE  /\ None(pending', "connect", c) \/ None(port', "connect", c)
                      /\ None(pending', "connect", c) \/ One(pending', "connect", c)
                      /\ None(port', "connect", c) \/ One(port', "connect", c)
                      /\ c > made => None(pending', "connect", c) /\ None(port', "connect", c)
  BY <1>2 DEF ConnectOnce
<1>7. /\ None(pending, "connect", c) \/ None(port, "connect", c)
      /\ None(pending, "connect", c) \/ One(pending, "connect", c)
      /\ None(port, "connect", c) \/ One(port, "connect", c)
      /\ c > made => None(pending, "connect", c) /\ None(port, "connect", c)
  BY <1>2 DEF ConnectOnce
<1>8. CASE IsOp(o, "connect", c)
  <2>1. ~None(pending, "connect", c)
    BY <1>4, <1>8, OpRemove DEF o
  <2>2. One(pending, "connect", c) /\ None(port, "connect", c) /\ ~(c > made)
    BY <1>7, <2>1
  <2>3. None(pending', "connect", c)
    BY <1>3, <1>4, <1>8, <2>2, OpRemove DEF o
  <2>4. One(port', "connect", c)
    BY <1>3, <1>4, <1>5, <1>8, <2>2, OpAppend
  <2>5. QED
    BY <2>2, <2>3, <2>4
<1>9. CASE ~IsOp(o, "connect", c)
  <2>1. /\ None(pending, "connect", c) => None(pending', "connect", c)
        /\ One(pending, "connect", c) => One(pending', "connect", c)
    BY <1>3, <1>4, <1>9, OpRemove DEF o
  <2>2. /\ None(port, "connect", c) => None(port', "connect", c)
        /\ One(port, "connect", c) => One(port', "connect", c)
    BY <1>3, <1>4, <1>5, <1>9, OpAppend
  <2>3. QED
    BY <1>7, <2>1, <2>2
<1>10. QED
  BY <1>8, <1>9

LEMMA HandlerMakesNone ==
    ASSUME HandlerStep
    PROVE  made' = made /\ m_pConnection' = m_pConnection
BY DEF HandlerStep, CloseLambda, StaleHandler, StaleReopen, Reopen, Handler, ChainGoesOn,
   ChainReceives, Fails, CloseSocket, SendLambda, Written, WrittenEmpty, client

\* A new connection's connect is the first of its number.
LEMMA ConnectAdds ==
    ASSUME IInv, ConnectOnce, ConnectToServer, ~Terminated
    PROVE  ConnectOnce'
<1> DEFINE o == Op("connect", made + 1)
           e == Packet(o, FALSE)
<1>1. /\ pc["App"] = "Connect" /\ made' = made + 1
      /\ \/ port' = port /\ pending' = Append(pending, o)
         \/ port' = Append(port, e) /\ pending' = pending
  BY DEF ConnectToServer, Start, Post
<1>2. port \in Seq(P) /\ pending \in Seq(O) /\ made \in Nat
  BY AtHand, BoundsAssumption
<1>3. made + 1 \in Connections
  BY <1>1, <1>2, AtHand, BoundsAssumption DEF Rest, Places, Connections
<1>4. o \in O /\ e \in P
  BY <1>3, PacketsFit DEF O, Operations, Op, PacketsOf
<1>5. \A c : /\ IsOp(o, "connect", c) <=> c = made + 1
             /\ IsOp(e, "connect", c) <=> c = made + 1
  BY DEF IsOp, Op, Packet
<1> HIDE DEF o, e
<1>6. SUFFICES ASSUME NEW c \in Connections
               PROVE  /\ None(pending', "connect", c) \/ None(port', "connect", c)
                      /\ None(pending', "connect", c) \/ One(pending', "connect", c)
                      /\ None(port', "connect", c) \/ One(port', "connect", c)
                      /\ c > made' => None(pending', "connect", c) /\ None(port', "connect", c)
  BY DEF ConnectOnce
<1>7. /\ None(pending, "connect", c) \/ None(port, "connect", c)
      /\ None(pending, "connect", c) \/ One(pending, "connect", c)
      /\ None(port, "connect", c) \/ One(port, "connect", c)
      /\ c > made => None(pending, "connect", c) /\ None(port, "connect", c)
  BY DEF ConnectOnce
<1>8. c \in Nat /\ (c > made + 1 => c > made)
  BY <1>2 DEF Connections
<1>9. CASE c = made + 1
  <2>1. None(pending, "connect", c) /\ None(port, "connect", c) /\ ~(c > made')
    BY <1>1, <1>2, <1>7, <1>9
  <2>2. One(Append(pending, o), "connect", c) /\ One(Append(port, e), "connect", c)
    BY <1>2, <1>4, <1>5, <1>9, <2>1, OpAppend
  <2>3. QED
    BY <1>1, <2>1, <2>2
<1>10. CASE c # made + 1
  <2>1. /\ None(pending, "connect", c) => None(Append(pending, o), "connect", c)
        /\ One(pending, "connect", c) => One(Append(pending, o), "connect", c)
        /\ None(port, "connect", c) => None(Append(port, e), "connect", c)
        /\ One(port, "connect", c) => One(Append(port, e), "connect", c)
    BY <1>2, <1>4, <1>5, <1>10, OpAppend
  <2>2. /\ None(pending, "connect", c) => None(pending', "connect", c)
        /\ One(pending, "connect", c) => One(pending', "connect", c)
    BY <1>1, <2>1
  <2>3. /\ None(port, "connect", c) => None(port', "connect", c)
        /\ One(port, "connect", c) => One(port', "connect", c)
    BY <1>1, <2>1
  <2>4. QED
    BY <1>1, <1>7, <1>8, <2>2, <2>3
<1>11. QED
  BY <1>9, <1>10

LEMMA ConnectOnceKept == ASSUME IInv, ConnectOnce, [Next]_vars PROVE ConnectOnce'
<1>1. CASE Terminated
  BY <1>1, EndedForGood DEF ConnectOnce, Terminated
<1>2. CASE Terminated'
  BY <1>2 DEF ConnectOnce
<1>3. CASE ~Terminated /\ ~Terminated'
  <2>1. port \in Seq(P) /\ pending \in Seq(O) /\ made \in Nat
    BY <1>3, AtHand, BoundsAssumption
  <2>2. Fewer(port, port) /\ Fewer(pending, pending)
    BY FewerSame
  <2>3. \A s, t : s = t => Fewer(s, t)
    BY FewerSame
  <2>4. ASSUME NEW e \in P, e.op # "connect" PROVE Fewer(port, Append(port, e))
    BY <2>1, <2>4, FewerAppend
  <2>5. StopEvent \in P /\ StopEvent.op # "connect"
    BY DEF P, StopEvent
  <2>6. ASSUME m_pConnection # 0, NEW op \in {"close", "send"}
        PROVE  Lambda(op, m_pConnection) \in P /\ Lambda(op, m_pConnection).op # "connect"
    <3>1. m_pConnection \in Connections
      BY <1>3, <2>6, AtHand, BoundsAssumption DEF Connections
    <3>2. QED
      BY <3>1 DEF P, Packets, Packet, Op, Lambda
  <2>7. CASE ConnectToServer
    BY <1>3, <2>7, ConnectAdds
  <2>8. CASE CallConnect \/ CallDisconnect \/ CallSend \/ ConnectFails \/ StartThread \/ TestSocket
    BY <1>3, <2>2, <2>8, FewerConnects DEF CallConnect, CallDisconnect, CallSend, ConnectFails,
       StartThread, TestSocket, client
  <2>9. CASE JoinThread \/ Reset \/ PollMessages \/ UNCHANGED vars
    BY <1>3, <2>2, <2>9, FewerConnects DEF JoinThread, Join, Reset, PollMessages, vars, client, context
  <2>10. CASE PostSend
    <3>1. port' = Append(port, Lambda("send", m_pConnection)) /\ pending' = pending /\ made' = made
          /\ pc["App"] = "PostSend"
      BY <2>10 DEF PostSend, Post, client
    <3>2. m_pConnection # 0
      BY <1>3, <3>1, AtHand DEF Rest, Places
    <3>3. QED
      BY <1>3, <2>2, <2>4, <2>6, <3>1, <3>2, FewerConnects
  <2>11. CASE PostClose
    <3>1. port' = Append(port, Lambda("close", m_pConnection)) /\ pending' = pending /\ made' = made
          /\ pc["App"] = "PostClose"
      BY <2>11 DEF PostClose, Post, client
    <3>2. m_pConnection # 0
      BY <1>3, <3>1, AtHand DEF Rest, Places
    <3>3. QED
      BY <1>3, <2>2, <2>4, <2>6, <3>1, <3>2, FewerConnects
  <2>12. CASE (AppStopStep \/ ContextStep) /\ UNCHANGED client
    <3>1. pending' = pending /\ made' = made
      BY <2>12 DEF AppStopStep, ContextStep, Run, WorkFinished, StopFlag, PostStop, TakeStop,
         StopSeen, CheckStopped, RepostStop, Restart, client
    <3>2. \/ port' = port
          \/ port' = Append(port, StopEvent)
          \/ port # <<>> /\ port' = Tail(port)
      BY <2>12 DEF AppStopStep, ContextStep, Run, WorkFinished, StopFlag, PostStop, TakeStop,
         StopSeen, CheckStopped, RepostStop, Restart, PostStopEvent
    <3>3. Fewer(port, port')
      BY <2>1, <2>2, <2>4, <2>5, <3>2, FewerTail
    <3>4. QED
      BY <1>3, <2>2, <3>1, <3>3, FewerConnects
  <2>13. CASE HandlerStep
    <3>1. CASE SocketCloses
      <4>1. made' = made /\ port' = port /\ pending' = pending
        BY <2>13, <3>1, HandlerMakesNone DEF SocketCloses, context
      <4>2. QED
        BY <1>3, <2>2, <4>1, FewerConnects
    <3>2. CASE ~reopening /\ ~SocketCloses
      BY <1>3, <2>13, <3>2, HandlerConnectsNot, FewerConnects
    <3>3. CASE reopening
      BY <1>3, <2>13, <3>3, ReconnectMovesConnect
    <3>4. QED
      BY <3>1, <3>2, <3>3
  <2>14. CASE \E i \in DOMAIN pending : SystemCompletes(i)
    BY <2>14, CompletionMovesConnect
  <2>15. QED
    BY <2>7, <2>8, <2>9, <2>10, <2>11, <2>12, <2>13, <2>14 DEF Next, AppStep, ThreadStep
<1>4. QED
  BY <1>1, <1>2, <1>3

LEMMA ConnectsOnce == Spec => [](IInv /\ ConnectOnce)
<1>1. Init => ConnectOnce
  <2>1. SUFFICES ASSUME Init PROVE ConnectOnce
    OBVIOUS
  <2>2. DOMAIN port = {} /\ DOMAIN pending = {}
    BY <2>1 DEF Init, CInit
  <2>3. QED
    BY <2>2 DEF ConnectOnce, None
<1>2. IInv /\ ConnectOnce /\ [Next]_vars => ConnectOnce'
  BY ConnectOnceKept
<1>3. QED
  BY <1>1, <1>2, ClientInvariant, PTL DEF Spec

\* The packets that a connection's async_connect becomes.
ConnectPackets(c) == {p \in Packets : p.op = "connect" /\ p.conn = c}

\* The application's thread has made a connection and starts the context's thread, or finds
\* one still joinable; it runs, and nothing disconnects; the connection is served,
\* disconnected or the program at its end.
Starting(c) ==
    /\ pc["App"] = "StartThread" /\ pc["Context"] = "None"
    /\ ~stopped
    /\ m_pConnection = c
    /\ ConnectOpen(c)
Doomed == pc["App"] = "StartThread" /\ pc["Context"] # "None"
Serving(c) ==
    /\ pc["App"] \in {"Idle", "PostSend"}
    /\ pc["Context"] \in {"Run", "WorkFinished"} \cup InDoOne
    /\ ~stopped
    /\ m_pConnection = c
    /\ ConnectOpen(c)
Escaped(c) == ~ConnectOpen(c) \/ pc["App"] \in {"Disconnect", "Connect"} \/ Terminated

\* How often a range_connect_op has closed a socket or gone on to the next endpoint.
Tries == 2 * closings - (IF reopening THEN 1 ELSE 0)

\* An async_connect that has neither been handled nor failed is pending or in the port.
LEMMA OpenMeans ==
    ASSUME IInv, NEW c \in Connections
    PROVE  /\ ConnectOpen(c) => Op("connect", c) \in ToSet(pending)
                                  \/ Within(ConnectPackets(c), Len(port))
           /\ ConnectOpen(c) => HasChain(pending, c) \/ HasChain(port, c)
           /\ Op("connect", c) \in ToSet(pending) => ~None(pending, "connect", c)
<1>1. port \in Seq(P) /\ pending \in Seq(O)
  BY DEF IInv, TypeOK, ContextTypeOK, P, O
<1>2. /\ \A i \in DOMAIN port : port[i] \in P /\ i <= Len(port)
      /\ ToSet(port) = {port[i] : i \in DOMAIN port}
      /\ ToSet(pending) = {pending[i] : i \in DOMAIN pending}
  BY <1>1, SeqFacts DEF ToSet
<1>3. ASSUME ConnectOpen(c), ~(Op("connect", c) \in ToSet(pending))
      PROVE  Within(ConnectPackets(c), Len(port)) /\ HasChain(port, c)
  <2>1. PICK i \in DOMAIN port : port[i].op = "connect" /\ port[i].conn = c
    BY <1>2, <1>3 DEF ConnectOpen
  <2>2. port[i] # StopEvent
    BY <2>1 DEF StopEvent
  <2>3. port[i] \in ConnectPackets(c)
    BY <1>2, <2>1, <2>2 DEF P, ConnectPackets
  <2>4. QED
    BY <1>2, <2>1, <2>3 DEF Within, HasChain
<1>4. ASSUME Op("connect", c) \in ToSet(pending)
      PROVE  HasChain(pending, c) /\ ~None(pending, "connect", c)
  <2>1. PICK i \in DOMAIN pending : pending[i] = Op("connect", c)
    BY <1>2, <1>4
  <2>2. IsOp(pending[i], "connect", c)
    BY <2>1 DEF IsOp, Op
  <2>3. QED
    BY <2>2 DEF HasChain, None, IsOp
<1>5. QED
  BY <1>3, <1>4

\* The same for the next state.
LEMMA NoneOpen ==
    ASSUME NEW c, None(pending, "connect", c)', None(port, "connect", c)'
    PROVE  ~ConnectOpen(c)'
<1>1. /\ ToSet(port') = {port'[i] : i \in DOMAIN port'}
      /\ ToSet(pending') = {pending'[i] : i \in DOMAIN pending'}
  BY DEF ToSet
<1>2. IsOp(Op("connect", c), "connect", c)
  BY DEF IsOp, Op
<1>3. QED
  BY <1>1, <1>2 DEF ConnectOpen, None, IsOp

LEMMA StartingSteps ==
    ASSUME IInv, NEW c \in Connections, Starting(c), [Next]_vars
    PROVE  Escaped(c)' \/ Serving(c)' \/ (Starting(c)' /\ ~AppStep)
<1>1. ~Terminated /\ pc["App"] = "StartThread" /\ pc["Context"] = "None"
  BY Running DEF Starting, Threads
<1>2. pc \in [Threads -> Labels]
  BY <1>1, AtHand
<1>3. ~ThreadStep
  BY <1>1, <1>2, ContextPlaces DEF ThreadStep, HandlerStep, Handling, NotRunning
<1>4. CASE AppStep
  <2>1. StartThread
    BY <1>1, <1>4 DEF AppStep, ConnectFails, ConnectToServer, TestSocket, PostClose, AppStopStep,
       StopFlag, PostStop, JoinThread, Join, Reset, PostSend
  <2>2. /\ pc'["App"] = "Idle" /\ pc'["Context"] = "Run"
        /\ stopped' = stopped /\ m_pConnection' = m_pConnection
    BY <1>1, <1>2, <2>1 DEF StartThread, Threads, client
  <2>3. QED
    BY <2>2 DEF Escaped, Serving, Starting
<1>5. CASE ~AppStep
  <2>1. UNCHANGED vars \/ \E i \in DOMAIN pending : SystemCompletes(i)
    BY <1>1, <1>3, <1>5 DEF Next, CallConnect, CallDisconnect, CallSend, PollMessages
  <2>2. pc' = pc /\ stopped' = stopped /\ m_pConnection' = m_pConnection
    BY <2>1 DEF SystemCompletes, Complete, vars, context, client
  <2>3. QED
    BY <1>1, <1>5, <2>2 DEF Escaped, Starting
<1>6. QED
  BY <1>4, <1>5

\* A thread that is still joinable remains so, and the assignment ends the program.
LEMMA DoomedSteps ==
    ASSUME IInv, Doomed, [Next]_vars
    PROVE  Terminated' \/ (Doomed' /\ ~AppStep)
<1>1. ~Terminated /\ pc["App"] = "StartThread" /\ pc["Context"] # "None"
  BY Running DEF Doomed, Threads
<1>2. pc \in [Threads -> Labels]
  BY <1>1, AtHand
<1>3. CASE AppStep
  <2>1. StartThread
    BY <1>1, <1>3 DEF AppStep, ConnectFails, ConnectToServer, TestSocket, PostClose, AppStopStep,
       StopFlag, PostStop, JoinThread, Join, Reset, PostSend
  <2>2. QED
    BY <1>1, <2>1 DEF StartThread, Terminate, Terminated, Threads
<1>4. CASE ContextStep /\ ~AppStep
  <2>1. \A label : Goto("Context", label) => pc'["Context"] = label /\ pc'["App"] = pc["App"]
    BY <1>2 DEF Goto, Threads
  <2>2. \E label : label # "None" /\ Goto("Context", label)
    BY <1>4 DEF ContextStep, Run, WorkFinished, StopFlag, PostStop, TakeStop, StopSeen,
       CheckStopped, RepostStop, Restart, AfterStop
  <2>3. QED
    BY <1>1, <1>4, <2>1, <2>2 DEF Doomed
<1>5. CASE HandlerStep /\ ~AppStep
  BY <1>1, <1>5, HandlerStepRuns DEF HandlerRuns, SocketCloses, context, Doomed
<1>6. CASE ~ThreadStep /\ ~AppStep
  <2>1. UNCHANGED vars \/ \E i \in DOMAIN pending : SystemCompletes(i)
    BY <1>1, <1>6 DEF Next, CallConnect, CallDisconnect, CallSend, PollMessages
  <2>2. pc' = pc
    BY <2>1 DEF SystemCompletes, Complete, vars, context
  <2>3. QED
    BY <1>1, <1>6, <2>2 DEF Doomed
<1>7. QED
  BY <1>3, <1>4, <1>5, <1>6 DEF ThreadStep

\* The thread of a context with an open async_connect goes on: work remains, and a stop
\* event it takes is a left-over.
LEMMA ServingSteps ==
    ASSUME IInv, NEW c \in Connections, Serving(c), [Next]_vars
    PROVE  Escaped(c)' \/ Serving(c)'
<1>1. /\ ~Terminated /\ pc["App"] \in {"Idle", "PostSend"} /\ m_pConnection = c /\ c # 0
      /\ ~stopped /\ pc["Context"] \in {"Run", "WorkFinished"} \cup InDoOne
  BY Running DEF Serving, Threads, Connections
<1>2. pc \in [Threads -> Labels]
  BY <1>1, AtHand
<1>3. SUFFICES ASSUME ~Terminated', ConnectOpen(c)'
               PROVE  \/ pc'["App"] \in {"Disconnect", "Connect"}
                      \/ /\ pc'["App"] \in {"Idle", "PostSend"}
                         /\ pc'["Context"] \in {"Run", "WorkFinished"} \cup InDoOne
                         /\ ~stopped' /\ m_pConnection' = c
  BY DEF Escaped, Serving
<1>4. CASE HandlerStep
  <2>1. m_pConnection' = m_pConnection
    BY <1>4, HandlerMakesNone
  <2>2. CASE SocketCloses
    BY <1>1, <2>1, <2>2 DEF SocketCloses, context
  <2>3. CASE HandlerRuns(P) /\ pc'["App"] = pc["App"] /\ stopped' = stopped
    BY <1>1, <2>1, <2>3 DEF HandlerRuns
  <2>4. QED
    BY <1>3, <1>4, <2>2, <2>3, HandlerStepRuns
<1>5. CASE ContextStep /\ UNCHANGED client
  <2>1. pc["Context"] = "WorkFinished" => outstanding_work > 1
    BY <1>1, OpenMeans, ChainIsWork DEF Serving
  <2>2. pc["Context"] = "WorkFinished" => outstanding_work # 1
    BY <2>1
  <2>3. \A label : Goto("Context", label) => pc'["Context"] = label /\ pc'["App"] = pc["App"]
    BY <1>2 DEF Goto, Threads
  <2>4. Run \/ WorkFinished \/ TakeStop \/ StopSeen \/ CheckStopped
    BY <1>1, <1>5 DEF ContextStep, StopFlag, PostStop, RepostStop, Restart, InDoOne
  <2>5. /\ pc'["Context"] \in {"DoOne", "StopSeen", "CheckStopped"}
        /\ pc'["App"] = pc["App"] /\ stopped' = stopped
    BY <1>1, <2>2, <2>3, <2>4 DEF Run, WorkFinished, TakeStop, StopSeen, CheckStopped
  <2>6. QED
    BY <1>1, <1>5, <2>5 DEF InDoOne, client
<1>6. CASE CallConnect \/ CallDisconnect
  BY <1>1, <1>2, <1>6 DEF CallConnect, CallDisconnect, Goto, Threads
<1>7. CASE CallSend \/ PostSend
  <2>1. \E label \in {"Idle", "PostSend"} : Goto("App", label)
    BY <1>7 DEF CallSend, PostSend
  <2>2. pc'["App"] \in {"Idle", "PostSend"} /\ pc'["Context"] = pc["Context"]
    BY <1>2, <2>1 DEF Goto, Threads
  <2>3. stopped' = stopped /\ m_pConnection' = m_pConnection
    BY <1>7 DEF CallSend, PostSend, Post, client
  <2>4. QED
    BY <1>1, <2>2, <2>3
<1>8. CASE PollMessages \/ UNCHANGED vars \/ \E i \in DOMAIN pending : SystemCompletes(i)
  <2>1. pc' = pc /\ stopped' = stopped /\ m_pConnection' = m_pConnection
    BY <1>8 DEF PollMessages, SystemCompletes, Complete, vars, context, client
  <2>2. QED
    BY <1>1, <2>1
<1>9. AppStep => PostSend
  BY <1>1 DEF AppStep, ConnectFails, ConnectToServer, StartThread, TestSocket, PostClose, AppStopStep,
     StopFlag, PostStop, JoinThread, Join, Reset
<1>10. QED
  BY <1>4, <1>5, <1>6, <1>7, <1>8, <1>9 DEF Next, ThreadStep

LEMMA HandlerSockets ==
    ASSUME HandlerStep
    PROVE  \/ SocketCloses
           \/ closings' = closings /\ reopening' = reopening
           \/ closings' = closings /\ reopening /\ ~reopening'
<1>1. PICK p \in ToSet(port) :
         /\ Handling(p)
         /\ \/ ~reopening /\ CloseLambda(p)
            \/ ~reopening /\ Alive(p.conn) /\ Handler(p, p.conn)
            \/ ~reopening /\ StaleHandler(p)
            \/ reopening /\ Reopen(p)
            \/ reopening /\ StaleReopen(p)
  BY HandlerCases
<1>2. ASSUME NEW c, Handler(p, c), ~reopening
      PROVE  SocketCloses \/ (closings' = closings /\ reopening' = reopening)
  <2>1. CASE CloseSocket(p)
    BY <1>1, <1>2, <2>1 DEF CloseSocket, SocketCloses, Handling
  <2>2. CASE ~CloseSocket(p)
    BY <1>2, <2>2 DEF Handler, ChainGoesOn, ChainReceives, Fails, SendLambda, Written, WrittenEmpty,
       client, socket
  <2>3. QED
    BY <2>1, <2>2
<1>3. CASE ~reopening /\ (CloseLambda(p) \/ Handler(p, p.conn) \/ StaleHandler(p))
  BY <1>2, <1>3 DEF CloseLambda, StaleHandler, client, socket
<1>4. CASE reopening /\ (Reopen(p) \/ StaleReopen(p))
  BY <1>4 DEF Reopen, StaleReopen, client, socket
<1>5. QED
  BY <1>1, <1>3, <1>4

\* Sockets are closed more and more often, and each is closed or opened again once.
LEMMA TriesGrow ==
    ASSUME IInv, [Next]_vars
    PROVE  /\ Tries \in Int /\ Tries' \in Int /\ Tries' >= Tries
           /\ SocketCloses \/ (reopening /\ ~reopening' /\ closings' = closings) => Tries' > Tries
<1>1. closings \in Nat /\ reopening \in BOOLEAN
  BY BoundsAssumption DEF IInv, TypeOK, ClientTypeOK
<1>2. \/ SocketCloses
      \/ closings' = closings /\ reopening' = reopening
      \/ closings' = closings /\ reopening /\ ~reopening'
      \/ ConnectToServer /\ reopening' = reopening
  <2>1. CASE HandlerStep
    BY <2>1, HandlerSockets
  <2>2. CASE ContextStep /\ UNCHANGED client
    BY <2>2 DEF client, socket
  <2>3. CASE ~ThreadStep
    BY <2>3, OthersReopenNot
  <2>4. QED
    BY <2>1, <2>2, <2>3 DEF ThreadStep
<1>3. ConnectToServer => closings' = closings \/ closings' = closings + 1
  BY DEF ConnectToServer, socket
<1>4. SocketCloses => closings' = closings + 1 /\ ~reopening /\ reopening'
  BY DEF SocketCloses
<1>5. CASE SocketCloses
  BY <1>1, <1>4, <1>5 DEF Tries
<1>6. CASE closings' = closings /\ reopening' = reopening
  BY <1>1, <1>4, <1>6 DEF Tries
<1>7. CASE closings' = closings /\ reopening /\ ~reopening'
  BY <1>1, <1>7 DEF Tries
<1>8. CASE ConnectToServer /\ reopening' = reopening /\ ~SocketCloses
  BY <1>1, <1>3, <1>8 DEF Tries
<1>9. QED
  BY <1>2, <1>5, <1>6, <1>7, <1>8

\* When it is next in the port, its handler is called, or goes on to the next endpoint, or
\* do_one has not come to it yet.
LEMMA ServedNext ==
    ASSUME IInv, ConnectOnce, NEW c \in Connections, Serving(c), AtHead(ConnectPackets(c)),
           [Next]_vars
    PROVE  Escaped(c)' \/ (AtHead(ConnectPackets(c))' /\ ~ThreadStep) \/ Tries' > Tries
<1>1. /\ ~Terminated /\ port # <<>> /\ pc["Context"] = "DoOne"
      /\ Head(port) \in Packets /\ IsOp(Head(port), "connect", c)
  BY Running DEF AtHead, ConnectPackets, IsOp, Threads
<1>2. port \in Seq(P) /\ pending \in Seq(O) /\ Head(port) # StopEvent /\ pc \in [Threads -> Labels]
  BY <1>1, AtHand, NotStop
<1>3. CASE Terminated'
  BY <1>3 DEF Escaped
<1>4. CASE ThreadStep /\ ~Terminated'
  <2>1. HandlerStep
    BY <1>1, <1>2, <1>4 DEF ThreadStep, ContextStep, Run, WorkFinished, StopFlag, PostStop,
       TakeStop, StopSeen, CheckStopped, RepostStop, Restart
  <2>2. CASE SocketCloses
    BY <2>2, TriesGrow
  <2>3. CASE reopening
    BY <1>4, <2>1, <2>3, HandlerReconnects, TriesGrow
  <2>4. CASE ~reopening /\ ~SocketCloses
    <3>1. Fewer(pending, pending') /\ Fewer(Tail(port), port')
      BY <1>4, <2>1, <2>4, HandlerConnectsNot
    <3>2. ~None(port, "connect", c)
      BY <1>1, <1>2, OpTail
    <3>3. None(pending, "connect", c) /\ One(port, "connect", c)
      BY <1>1, <3>2 DEF ConnectOnce
    <3>4. None(Tail(port), "connect", c)
      BY <1>1, <1>2, <3>3, OpTail
    <3>5. None(pending', "connect", c) /\ None(port', "connect", c)
      BY <3>1, <3>3, <3>4 DEF Fewer
    <3>6. QED
      BY <3>5, NoneOpen DEF Escaped
  <2>5. QED
    BY <2>2, <2>3, <2>4
<1>5. CASE ~ThreadStep /\ ~Terminated'
  <2>1. OthersPost(P)
    BY <1>1, <1>5, OthersMove DEF NotRunning
  <2>2. 0 \in Nat
    OBVIOUS
  <2>3. AtHead(ConnectPackets(c))'
    BY <1>2, <2>1, <2>2, OthersKeepQueue
  <2>4. QED
    BY <1>5, <2>3
<1>6. QED
  BY <1>3, <1>4, <1>5

\* A connection made while the context is not stopped: its async_connect completes, its
\* packet comes nearer, and its handler, which starts the validation with ReadValidation1 or
\* goes on to the next endpoint, is called, unless Disconnect or Connect comes first.  Each
\* time that it goes on it has the same to go through again, and Tries says how often that
\* can be.  This is Served, but for the induction over Tries and the places of the port.
THEOREM ServiceComesNearer ==
    ASSUME NEW c \in Connections, NEW n \in Nat, NEW r \in Int
    PROVE  Spec /\ []NobodyStuck =>
              /\ (pc["App"] = "StartThread" /\ ~stopped /\ m_pConnection = c
                    ~> Escaped(c) \/ (Serving(c) /\ Within(ConnectPackets(c), Len(port))))
              /\ (Serving(c) ~> Escaped(c) \/ (Serving(c) /\ Within(ConnectPackets(c), Len(port))))
              /\ [](~Within(ConnectPackets(c), 0))
              /\ [](Tries <= 2 * MaxClosings)
              /\ (Serving(c) /\ Within(ConnectPackets(c), n + 1) /\ Tries = r
                    ~> \/ Escaped(c)
                       \/ Serving(c) /\ Tries > r
                       \/ Serving(c) /\ Within(ConnectPackets(c), n) /\ Tries = r)
<1> DEFINE Inv == IInv /\ ConnectOnce
           K == ConnectPackets(c)
           Made == pc["App"] = "StartThread" /\ ~stopped /\ m_pConnection = c
           Waiting == Op("connect", c) \in ToSet(pending)
           Queued == Within(K, Len(port))
           Taken == AtHead(K)
           Far == Within(K, n + 1)
           Near == Within(K, n)
           S1 == Starting(c)
           S2 == Serving(c)
           Out == Escaped(c)
           Ended == Terminated \/ ~Waiting
           Now == Tries = r
           Later == Tries > r
           Few == Tries <= 2 * MaxClosings
<1>1. Made => Out \/ S1 \/ Doomed
  BY DEF Starting, Escaped, Doomed
<1>2. ASSUME Inv, S1, [Next]_vars PROVE Out' \/ S2' \/ (S1' /\ ~AppStep)
  BY <1>2, StartingSteps
<1>3. ASSUME S1 \/ Doomed, NobodyStuck PROVE ENABLED <<AppStep>>_vars
  <2>1. InCall /\ pc["App"] # "Join"
    BY <1>3 DEF Starting, Doomed, InCall, AppLabels
  <2>2. QED
    BY <1>3, <2>1 DEF NobodyStuck
<1>4. ASSUME Inv, S2, [Next]_vars PROVE Out' \/ S2'
  BY <1>4, ServingSteps
<1>5. ASSUME Inv, S2 PROVE Waiting \/ Queued
  BY <1>5, OpenMeans DEF Serving
<1>6. ASSUME Inv, Doomed, [Next]_vars PROVE Out' \/ (Doomed' /\ ~AppStep)
  BY <1>6, DoomedSteps DEF Escaped
<1>7. Terminated => Out
  BY DEF Escaped
<1>8. ASSUME Inv, S2, Taken, Now, [Next]_vars PROVE Out' \/ (Taken' /\ ~ThreadStep) \/ Later'
  <2>1. Escaped(c)' \/ (AtHead(ConnectPackets(c))' /\ ~ThreadStep) \/ Tries' > Tries
    BY <1>8, ServedNext
  <2>2. Tries' > Tries => Tries' > r
    BY <1>8
  <2>3. QED
    BY <2>1, <2>2
<1>9. ASSUME Taken, NobodyStuck PROVE ENABLED <<ThreadStep>>_vars
  <2>1. ContextRunning /\ port # <<>>
    BY <1>9 DEF ContextRunning, AtHead, InDoOne
  <2>2. QED
    BY <1>9, <2>1 DEF NobodyStuck
<1>10. ASSUME Inv PROVE ~Within(K, 0)
  <2>1. port \in Seq(P)
    BY <1>10 DEF IInv, TypeOK, ContextTypeOK, P, O
  <2>2. QED
    BY <2>1, NothingWithinNone
<1>11. S2 => ~NotRunning
  BY DEF Serving, NotRunning, InDoOne
<1>12. ASSUME Inv, [Next]_vars PROVE (Now => Now' \/ Later') /\ (Later => Later')
  <2>1. Tries \in Int /\ Tries' \in Int /\ Tries' >= Tries
    BY <1>12, TriesGrow
  <2>2. QED
    BY <2>1
<1>13. ASSUME Inv PROVE Few
  BY <1>13, BoundsAssumption DEF IInv, TypeOK, ClientTypeOK, Tries
<1>14. Spec => []Inv
  BY ConnectsOnce, PTL
<1>15. Spec /\ []NobodyStuck => ComesUp(K, n)
  BY PacketsComeUp
<1> HIDE DEF K
<1>16. Spec /\ []NobodyStuck => (Far ~> Taken \/ Near \/ NotRunning)
  BY <1>15, PTL DEF ComesUp
<1>17. Fairness => WF_vars(AppStep) /\ WF_vars(ThreadStep) /\ []<>Ended
  <2>1. Fairness => \A k \in Connections : ConnectEnds(k)
    BY PTL DEF Fairness
  <2>2. Fairness => ConnectEnds(c)
    BY <2>1
  <2>3. Fairness => WF_vars(AppStep) /\ WF_vars(ThreadStep)
    BY PTL DEF Fairness
  <2> DEFINE Over == Terminated \/ Op("connect", c) \notin ToSet(pending)
  <2>4. Over => Ended
    OBVIOUS
  <2> HIDE DEF Ended
  <2>5. ConnectEnds(c) => []<>Over
    BY PTL DEF ConnectEnds
  <2> HIDE DEF Over
  <2>6. QED
    BY <2>2, <2>3, <2>4, <2>5, PTL
<1>18. Ended => Out \/ ~Waiting
  BY <1>7
<1> HIDE DEF Inv, Made, Waiting, Queued, Taken, Far, Near, S1, S2, Out, Ended, Now, Later, Few
<1>19. Spec /\ []NobodyStuck => (S1 ~> Out \/ S2)
  BY <1>2, <1>3, <1>14, <1>17, PTL DEF Spec
<1>20. Spec /\ []NobodyStuck => (Doomed ~> Out)
  BY <1>3, <1>6, <1>14, <1>17, PTL DEF Spec
<1>21. Spec /\ []NobodyStuck => (S2 ~> Out \/ (S2 /\ Queued))
  BY <1>4, <1>5, <1>14, <1>17, <1>18, PTL DEF Spec
<1>22. Spec /\ []NobodyStuck => (Made ~> Out \/ (S2 /\ Queued))
  BY <1>1, <1>19, <1>20, <1>21, PTL
<1>23. Spec /\ []NobodyStuck => (S2 /\ Taken /\ Now ~> Out \/ (S2 /\ Later))
  BY <1>4, <1>8, <1>9, <1>12, <1>14, <1>17, PTL DEF Spec
<1>24. Spec /\ []NobodyStuck
         => (S2 /\ Far /\ Now ~> Out \/ (S2 /\ (Taken \/ Near) /\ (Now \/ Later)))
  BY <1>4, <1>11, <1>12, <1>14, <1>16, PTL DEF Spec
<1>25. Spec /\ []NobodyStuck => (S2 /\ Far /\ Now ~> Out \/ (S2 /\ Later) \/ (S2 /\ Near /\ Now))
  BY <1>23, <1>24, PTL
<1>26. Spec => [](~Within(K, 0)) /\ []Few
  BY <1>10, <1>13, <1>14, PTL
<1>27. QED
  BY <1>21, <1>22, <1>25, <1>26, PTL DEF Made, Queued, Far, Near, S2, Out, K, Now, Later, Few
=============================================================================
