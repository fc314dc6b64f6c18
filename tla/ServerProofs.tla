---------------------------- MODULE ServerProofs ----------------------------
(***************************************************************************)
(* Theorems about DedicatedServer, for any number of clients and of calls  *)
(* and messages: the inductive invariant SInv, one lemma for each action,  *)
(* and the step that refines Membership.                                   *)
(***************************************************************************)
EXTENDS DedicatedServer, IoContextProofs

P == Packets \cup {StopEvent}
O == Operations
CNext == ContextNext(P, O)
Labels == AppLabels \cup ContextLabels

-----------------------------------------------------------------------------
(* The inductive invariant.                                                 *)

\* IDs are the numbers of the connections, and only those are in m_Clients.
Registered ==
    /\ m_NextClientID = Len(ids) + 1
    /\ \A c \in DOMAIN ids : ids[c] = c
    /\ \A i \in DOMAIN m_Clients : m_Clients[i] \in DOMAIN ids

Ping == Write(Empty("ping"), 0)
Relayed(from) == Write(Empty("relay"), from)

\* What can be received, and what can be sent to client c.
Heard ==
    {o \in OwnedMessages : o.from \in DOMAIN ids /\ o.message \in ClientMessages}
Answers(c) ==
    {o \in OwnedMessages :
        /\ o.from \in DOMAIN ids
        /\ \/ o.message = Ping
           \/ o.message = Relayed(o.from) /\ o.from # c}

Contents ==
    /\ incoming \in Seq(Heard)
    /\ \/ current = NoMessage
       \/ /\ current \in OwnedMessages
          /\ current.from \in DOMAIN ids /\ current.message = Relayed(current.from)
    /\ \A c \in Connections : sentTo[c] \in Seq(Answers(c))

\* The numbers of a sequence of messages.
Used(s) == {s[i].number : i \in DOMAIN s}
Rising(s) == \A i, j \in DOMAIN s : i < j => s[i].number < s[j].number
Before(A, B) == \A m \in A, n \in B : m < n

\* Every message received is in one place: it waits, is being relayed, or has been
\* sent, and what has been sent is older than what waits.  MessageAll has not come to
\* the clients from iteration.next on.
Numbers ==
    /\ Rising(incoming) /\ Used(incoming) \subseteq 1 .. received
    /\ current.number \in 0 .. received /\ Before({current.number}, Used(incoming))
    /\ \A c \in Connections :
          /\ Rising(sentTo[c]) /\ Used(sentTo[c]) \subseteq 1 .. received
          /\ Before(Used(sentTo[c]), Used(incoming))
          /\ c \notin DOMAIN ids => sentTo[c] = <<>>
    /\ pc["App"] = "MessageAll" =>
          /\ \A c \in Connections : \A m \in Used(sentTo[c]) : m <= current.number
          /\ \A i \in DOMAIN m_Clients :
                i >= iteration.next => current.number \notin Used(sentTo[m_Clients[i]])

\* Whom MessageAll should reach, it will come to.
Reachable ==
    /\ iteration.next > 0
    /\ pc["App"] = "MessageAll" =>
          \A c \in audience :
              /\ c # current.from
              /\ \E i \in DOMAIN m_Clients :
                    m_Clients[i] = c /\ iteration.next <= i /\ i <= iteration.last

\* Each Start has one accept, pending or in the port.
Accepts ==
    ~Terminated =>
        /\ \A k \in 1 .. starts :
              \/ None(port, "accept", k) /\ One(pending, "accept", k)
              \/ One(port, "accept", k) /\ None(pending, "accept", k)
        /\ \A k \in Nat : k > starts => None(port, "accept", k) /\ None(pending, "accept", k)

Rest ==
    ServerTypeOK /\ Registered /\ Contents /\ Numbers /\ Reachable /\ Accepts

SInv == ContextTypeOK(P, O) /\ CInv /\ Rest

-----------------------------------------------------------------------------
(* Messages.                                                                *)

\* >> undoes <<, and << keeps header.size the size of the body.
LEMMA ReadUndoesWrite ==
    ASSUME NEW kind \in {"ping", "relay"}, NEW n \in Nat
    PROVE  /\ Write(Empty(kind), n) \in Messages /\ Empty(kind) \in Messages
           /\ Write(Empty(kind), n).id = kind /\ Empty(kind).id = kind
           /\ Read(Write(Empty(kind), n)) = n
           /\ AfterRead(Write(Empty(kind), n)) = Empty(kind)
           /\ SizeRight(Write(Empty(kind), n)) /\ SizeRight(Empty(kind))
<1> DEFINE w == Write(Empty(kind), n)
           size == (0 + DataSize) % SizeValues
<1>1. w = [id |-> kind, size |-> size, body |-> <<n>>]
  <2> DEFINE e == [id |-> kind, size |-> 0, body |-> <<>>]
             f == [id |-> kind, size |-> 0, body |-> Append(<<>>, n)]
  <2>1. Append(<<>>, n) = <<n>>
    OBVIOUS
  <2>2. [e EXCEPT !.body = Append(@, n)] = f
    OBVIOUS
  <2>3. [f EXCEPT !.size = size]
          = [id |-> kind, size |-> size, body |-> Append(<<>>, n)]
    OBVIOUS
  <2>4. w = [[e EXCEPT !.body = Append(@, n)] EXCEPT !.size = size]
    BY DEF Write, Empty
  <2>5. QED
    BY <2>1, <2>2, <2>3, <2>4
<1>2. Len(<<n>>) = 1 /\ <<n>>[1] = n /\ <<n>> \in Seq(Nat) /\ <<>> \in Seq(Nat)
      /\ Len(<<>>) = 0
  OBVIOUS
<1>3. SizeValues \in Nat /\ SizeValues > 0
  BY SizeAssumption
<1>4. size \in 0 .. SizeValues - 1 /\ 0 \in 0 .. SizeValues - 1
  BY <1>3 DEF DataSize
<1>5. (size - DataSize) % SizeValues = 0
  <2>1. CASE SizeValues > 8
    BY <1>3, <2>1 DEF DataSize
  <2>2. CASE SizeValues \in 1 .. 8
    BY <2>2 DEF DataSize
  <2>3. QED
    BY <1>3, <2>1, <2>2
<1>6. SubSeq(<<n>>, 1, 1 - 1) = <<>>
  OBVIOUS
<1>7. size = (DataSize * 1) % SizeValues /\ 0 = (DataSize * 0) % SizeValues
  BY <1>3 DEF DataSize
<1> HIDE DEF size, w
<1>8. w \in Messages /\ Empty(kind) \in Messages
  BY <1>1, <1>2, <1>4 DEF Messages, Empty
<1>9. Read(w) = n /\ w.id = kind /\ Empty(kind).id = kind
  BY <1>1, <1>2 DEF Read, Empty
<1>10. AfterRead(w) = Empty(kind)
  <2> DEFINE g == [id |-> kind, size |-> size, body |-> SubSeq(<<n>>, 1, Len(<<n>>) - 1)]
             h == [id |-> kind, size |-> (size - DataSize) % SizeValues, body |-> <<>>]
  <2>1. SubSeq(<<n>>, 1, Len(<<n>>) - 1) = <<>>
    BY <1>2, <1>6
  <2>2. [w EXCEPT !.body = SubSeq(@, 1, Len(@) - 1)] = g
    BY <1>1
  <2>3. [g EXCEPT !.size = (@ - DataSize) % SizeValues] = h
    BY <2>1
  <2>4. AfterRead(w) = [[w EXCEPT !.body = SubSeq(@, 1, Len(@) - 1)]
                           EXCEPT !.size = (@ - DataSize) % SizeValues]
    BY DEF AfterRead
  <2>5. h = Empty(kind)
    BY <1>5 DEF Empty
  <2>6. QED
    BY <2>2, <2>3, <2>4, <2>5
<1>11. SizeRight(w) /\ SizeRight(Empty(kind))
  BY <1>1, <1>2, <1>7 DEF SizeRight, Empty
<1>12. QED
  BY <1>8, <1>9, <1>10, <1>11 DEF w

-----------------------------------------------------------------------------
(* Sequences: numbers, the removal of an element.                           *)

\* A message with a higher number is added; the first one is taken.
LEMMA NumbersAppend ==
    ASSUME NEW s \in Seq(OwnedMessages), NEW e \in OwnedMessages
    PROVE  /\ Used(Append(s, e)) = Used(s) \cup {e.number}
           /\ Rising(s) /\ Before(Used(s), {e.number}) => Rising(Append(s, e))
<1> DEFINE t == Append(s, e)
           l == Len(s) + 1
<1>1. /\ DOMAIN t = DOMAIN s \cup {l} /\ l \notin DOMAIN s
      /\ t[l] = e /\ \A i \in DOMAIN s : t[i] = s[i]
  BY AppendFacts
<1>2. \A i \in DOMAIN s : ~(l < i)
  OBVIOUS
<1>3. ~(l < l)
  OBVIOUS
<1> HIDE DEF t, l
<1>4. Used(t) = Used(s) \cup {e.number}
  BY <1>1 DEF Used
<1>5. ASSUME Rising(s), Before(Used(s), {e.number}) PROVE Rising(t)
  <2>1. ASSUME NEW i \in DOMAIN t, NEW j \in DOMAIN t, i < j
        PROVE  t[i].number < t[j].number
    <3>1. i \in DOMAIN s
      BY <1>1, <1>2, <1>3, <2>1
    <3>2. CASE j = l
      BY <1>1, <1>5, <3>1, <3>2 DEF Before, Used
    <3>3. CASE j \in DOMAIN s
      BY <1>1, <1>5, <2>1, <3>1, <3>3 DEF Rising
    <3>4. QED
      BY <1>1, <3>2, <3>3
  <2>2. QED
    BY <2>1 DEF Rising
<1>6. QED
  BY <1>4, <1>5 DEF t

LEMMA NumbersTail ==
    ASSUME NEW S, NEW s \in Seq(S), s # <<>>
    PROVE  /\ Used(Tail(s)) \subseteq Used(s) /\ Head(s).number \in Used(s)
           /\ Rising(s) => Rising(Tail(s)) /\ Before({Head(s).number}, Used(Tail(s)))
<1> DEFINE t == Tail(s)
<1>1. /\ Head(s) = s[1] /\ 1 \in DOMAIN s
      /\ \A i \in DOMAIN t :
            i \in Nat /\ i + 1 \in DOMAIN s /\ 1 < i + 1 /\ t[i] = s[i + 1]
  BY TailFacts
<1> HIDE DEF t
<1>2. Used(t) \subseteq Used(s) /\ Head(s).number \in Used(s)
  BY <1>1 DEF Used
<1>3. ASSUME Rising(s) PROVE Rising(t) /\ Before({Head(s).number}, Used(t))
  <2>1. ASSUME NEW i \in DOMAIN t, NEW j \in DOMAIN t, i < j
        PROVE  t[i].number < t[j].number
    <3>1. i + 1 < j + 1
      BY <1>1, <2>1
    <3>2. QED
      BY <1>1, <1>3, <3>1 DEF Rising
  <2>2. ASSUME NEW i \in DOMAIN t PROVE Head(s).number < t[i].number
    BY <1>1, <1>3, <2>2 DEF Rising
  <2>3. QED
    BY <2>1, <2>2 DEF Rising, Before, Used
<1>4. QED
  BY <1>2, <1>3 DEF t

\* What RemoveFirst does to a sequence without repetitions.
LEMMA RemoveFirstMeans ==
    ASSUME NEW S, NEW s \in Seq(S), NEW e, IsInjective(s)
    PROVE  \/ /\ \A i \in DOMAIN s : s[i] # e
              /\ RemoveFirst(s, e) = s
           \/ \E k \in DOMAIN s : s[k] = e /\ RemoveFirst(s, e) = RemoveAt(s, k)
<1>1. DOMAIN s = 1 .. Len(s) /\ Len(s) \in Nat
  BY LenProperties
<1>2. CASE \A i \in DOMAIN s : s[i] # e
  BY <1>1, <1>2 DEF RemoveFirst
<1>3. CASE \E i \in DOMAIN s : s[i] = e
  <2>1. PICK k \in DOMAIN s : s[k] = e
    BY <1>3
  <2> DEFINE I == {i \in 1 .. Len(s) : s[i] = e}
  <2>2. I = {k}
    BY <1>1, <2>1 DEF IsInjective
  <2>3. Min(I) = k
    BY <1>1, <2>2 DEF Min
  <2>4. SelectInSeq(s, LAMBDA v : v = e) = IF I # {} THEN Min(I) ELSE 0
    BY DEF SelectInSeq
  <2>5. SelectInSeq(s, LAMBDA v : v = e) = k
    BY <2>2, <2>3, <2>4
  <2>6. RemoveFirst(s, e) = RemoveAt(s, k)
    BY <1>1, <2>1, <2>5 DEF RemoveFirst
  <2>7. QED
    BY <2>1, <2>6
<1>4. QED
  BY <1>2, <1>3

\* What Disconnect leaves in m_Clients: the same clients but one, none further back.
LEMMA ClientsWithout ==
    ASSUME NEW S, NEW s \in Seq(S), NEW e, IsInjective(s)
    PROVE  LET t == RemoveFirst(s, e)
           IN  /\ t \in Seq(S) /\ IsInjective(t)
               /\ \A i \in DOMAIN t : \E j \in DOMAIN s : i <= j /\ t[i] = s[j]
               /\ ToSet(t) = ToSet(s) \ {e}
               /\ t = s \/ Len(t) < Len(s)
<1> DEFINE t == RemoveFirst(s, e)
<1>1. Len(s) \in Nat /\ DOMAIN s = 1 .. Len(s)
  BY SeqFacts
<1>2. CASE (\A i \in DOMAIN s : s[i] # e) /\ t = s
  <2> HIDE DEF t
  <2>1. \A i \in DOMAIN t : i <= i
    BY <1>1, <1>2
  <2>2. QED
    BY <1>1, <1>2, <2>1 DEF ToSet, t
<1>3. CASE \E k \in DOMAIN s : s[k] = e /\ t = RemoveAt(s, k)
  <2>1. PICK k \in DOMAIN s : s[k] = e /\ t = RemoveAt(s, k)
    BY <1>3
  <2> DEFINE to(i) == IF i < k THEN i ELSE i + 1
  <2>2. /\ t \in Seq(S) /\ Len(t) = Len(s) - 1
        /\ \A i \in DOMAIN t : i \in Nat /\ to(i) \in DOMAIN s \ {k} /\ t[i] = s[to(i)]
        /\ \A j \in DOMAIN s \ {k} : \E i \in DOMAIN t : to(i) = j
    BY <2>1, RemoveFacts
  <2>3. k \in Nat
    BY <1>1
  <2>4. \A i \in DOMAIN t : i <= to(i)
    BY <2>2, <2>3
  <2>5. \A i, j \in DOMAIN t : to(i) = to(j) => i = j
    BY <2>2, <2>3
  <2> HIDE DEF t, to
  <2>6. IsInjective(t)
    BY <2>2, <2>5 DEF IsInjective
  <2>7. ToSet(t) = ToSet(s) \ {e}
    BY <2>1, <2>2 DEF ToSet, IsInjective
  <2>8. Len(t) < Len(s)
    BY <1>1, <2>2
  <2>9. QED
    BY <2>2, <2>4, <2>6, <2>7, <2>8 DEF t
<1>4. QED
  BY <1>2, <1>3, RemoveFirstMeans

-----------------------------------------------------------------------------
(* What every step has at hand, and what it leaves to show.                 *)

LEMMA PacketsFit == PacketsOf(P, O)
<1>1. \A o \in O, good \in BOOLEAN : Packet(o, good) \in Packets
  BY DEF O, Operations, Packets, Packet
<1>2. \A p \in Packets : p.op # "stop"
  BY DEF Packets
<1>3. StopEvent.op = "stop"
  BY DEF StopEvent
<1>4. QED
  BY <1>1, <1>2, <1>3 DEF PacketsOf, P

LEMMA NotStop == \A p \in Packets : p \in P \ {StopEvent}
<1>1. \A p \in Packets : p.op # "stop"
  BY DEF Packets
<1>2. StopEvent.op = "stop"
  BY DEF StopEvent
<1>3. QED
  BY <1>1, <1>2 DEF P

LEMMA StepKeeps ==
    ASSUME SInv, CNext, Rest'
    PROVE  SInv'
<1>1. pc \in [Threads -> Labels \cup {"Terminated"}]
  BY DEF SInv, Rest, ServerTypeOK, Labels
<1>2. ContextTypeOK(P, O) /\ CInv
  BY DEF SInv
<1>3. ContextTypeOK(P, O)' /\ CInv'
  <2> HIDE DEF P, O, CInv, ContextTypeOK
  <2>1. QED
    BY <1>1, <1>2, ContextKept, PacketsFit DEF CNext
<1>4. QED
  BY <1>3 DEF SInv

LEMMA Running ==
    ASSUME SInv, NEW t \in Threads, pc[t] # "Terminated"
    PROVE  ~Terminated
BY DEF SInv, Rest, ServerTypeOK, Terminated, Threads, ContextLabels, InDoOne, InHandling,
       Leaving

LEMMA AtHand ==
    ASSUME SInv, ~Terminated
    PROVE  /\ pc \in [Threads -> Labels]
           /\ pc["App"] \in AppLabels /\ pc["Context"] \in ContextLabels
           /\ current.from # Nobody <=> pc["App"] = "MessageAll"
           /\ port \in Seq(P) /\ pending \in Seq(O)
           /\ m_Clients \in Seq(Connections) /\ IsInjective(m_Clients)
           /\ ids \in Seq(Nat) /\ Len(ids) <= MaxClients /\ m_NextClientID \in Nat
           /\ starts \in 0 .. MaxInputs /\ received \in 0 .. MaxInputs
           /\ incoming \in Seq(OwnedMessages) /\ current \in OwnedMessages \cup {NoMessage}
           /\ iteration \in [next : Nat, last : Nat] /\ audience \subseteq Connections
           /\ sentTo \in [Connections -> Seq(OwnedMessages)]
           /\ outgoing \in [Connections -> Nat]
           /\ Rest
<1>1. ContextTypeOK(P, O) /\ Rest
  BY DEF SInv
<1>2. port \in Seq(P) /\ pending \in Seq(O)
  BY <1>1 DEF ContextTypeOK
<1>3. ~(pc = [t \in Threads |-> "Terminated"])
  BY DEF Terminated, Threads
<1>4. QED
  BY <1>1, <1>2, <1>3 DEF Rest, ServerTypeOK, Labels

LEMMA Known ==
    ASSUME SInv, ~Terminated
    PROVE  /\ DOMAIN ids = 1 .. Len(ids) /\ Len(ids) \in Nat /\ DOMAIN ids \subseteq Connections
           /\ Nobody \notin DOMAIN ids
           /\ \A c : Alive(c) /\ c # Nobody => c \in DOMAIN ids
<1>1. DOMAIN ids = 1 .. Len(ids) /\ Len(ids) \in Nat /\ Len(ids) <= MaxClients
  BY AtHand, SeqFacts
<1>2. DOMAIN ids \subseteq Connections /\ Nobody \notin DOMAIN ids
  BY <1>1, BoundsAssumption DEF Connections, Nobody
<1>3. /\ Registered /\ incoming \in Seq(Heard)
      /\ current = NoMessage \/ current.from \in DOMAIN ids
  BY AtHand DEF Rest, Contents
<1>4. \A i \in DOMAIN incoming : incoming[i].from \in DOMAIN ids
  BY <1>3, SeqFacts DEF Heard
<1>5. NoMessage.from = Nobody
  BY DEF NoMessage
<1>6. \A c : Alive(c) /\ c # Nobody => c \in DOMAIN ids
  BY <1>3, <1>4, <1>5 DEF Alive, Registered, ToSet
<1>7. QED
  BY <1>1, <1>2, <1>6

\* The variables that only the server's own steps change.
quiet == <<m_Clients, m_NextClientID, ids, incoming, received, current, iteration,
           audience, sentTo>>

LEMMA QuietKeeps ==
    ASSUME SInv, UNCHANGED quiet, pc'["App"] = "MessageAll" => pc["App"] = "MessageAll"
    PROVE  Registered' /\ Contents' /\ Numbers' /\ Reachable'
<1>1. Rest
  BY DEF SInv
<1>2. Registered'
  BY <1>1 DEF Rest, Registered, quiet
<1>3. Contents'
  BY <1>1 DEF Rest, Contents, Heard, Answers, quiet
<1>4. Numbers'
  BY <1>1 DEF Rest, Numbers, quiet
<1>5. Reachable'
  BY <1>1 DEF Rest, Reachable, quiet
<1>6. QED
  BY <1>2, <1>3, <1>4, <1>5

\* Sequences that differ by nothing an accept could be.
Same(s, t) == \A k : (None(s, "accept", k) => None(t, "accept", k)) /\ (One(s, "accept", k) => One(t, "accept", k))

LEMMA AcceptsQuiet ==
    ASSUME SInv, ~Terminated, Same(port, port'), Same(pending, pending'), starts' = starts
    PROVE  Accepts'
BY AtHand DEF Rest, Accepts, Same

LEMMA SameSame == \A s : Same(s, s)
BY DEF Same

LEMMA SameAppend ==
    ASSUME NEW S, NEW s \in Seq(S), NEW e \in S, e.op # "accept"
    PROVE  Same(s, Append(s, e))
BY OpAppend DEF Same, IsOp

LEMMA SameTail ==
    ASSUME NEW S, NEW s \in Seq(S), s # <<>>, Head(s).op # "accept"
    PROVE  Same(s, Tail(s))
BY OpTail DEF Same, IsOp

LEMMA QuietStep ==
    ASSUME SInv, CNext, UNCHANGED quiet,
           pc'["App"] = "MessageAll" => pc["App"] = "MessageAll",
           ServerTypeOK', Accepts'
    PROVE  SInv'
BY QuietKeeps, StepKeeps DEF Rest

LEMMA StutterKeeps == ASSUME SInv, UNCHANGED vars PROVE SInv'
<1>1. UNCHANGED <<cvars, pc>> /\ UNCHANGED server
  BY DEF vars, context, cvars
<1>2. CNext
  BY <1>1 DEF CNext, ContextNext
<1>3. Rest
  BY DEF SInv
<1>4. ServerTypeOK'
  BY <1>1, <1>3 DEF Rest, ServerTypeOK, server
<1>5. Accepts'
  BY <1>1, <1>3 DEF Rest, Accepts, server, cvars, Terminated, None, One
<1>6. UNCHANGED quiet
  BY <1>1 DEF quiet, server
<1>7. QED
  BY <1>1, <1>2, <1>4, <1>5, <1>6, QuietStep

LEMMA TerminationKeeps ==
    ASSUME SInv, Terminate, UNCHANGED cvars, UNCHANGED server
    PROVE  SInv'
<1>1. /\ pc' = [t \in Threads |-> "Terminated"] /\ Terminated'
      /\ pc'["App"] = "Terminated"
  BY DEF Terminate, Terminated, Threads
<1>2. CNext
  BY <1>1 DEF CNext, ContextNext
<1>3. ServerTypeOK
  BY DEF SInv, Rest
<1>4. ServerTypeOK'
  BY <1>1, <1>3 DEF ServerTypeOK, server
<1>5. Accepts'
  BY <1>1 DEF Accepts
<1>6. UNCHANGED quiet
  BY DEF quiet, server
<1>7. QED
  BY <1>1, <1>2, <1>4, <1>5, <1>6, QuietStep

-----------------------------------------------------------------------------
(* The application's thread.                                                *)

LEMMA AppGoes ==
    ASSUME SInv, NEW b \in AppLabels, pc["App"] \in AppLabels,
           pc' = [pc EXCEPT !["App"] = b]
    PROVE  /\ ~Terminated /\ ~Terminated'
           /\ pc["App"] # "PostStop" => AppMoves
           /\ pc'["App"] = b /\ pc'["Context"] = pc["Context"]
           /\ pc' \in [Threads -> Labels] /\ pc'["Context"] \in ContextLabels
<1>1. pc["App"] # "Terminated"
  BY DEF AppLabels, StopLabels
<1>2. ~Terminated
  BY <1>1, Running DEF Threads
<1>3. pc \in [Threads -> Labels] /\ pc["Context"] \in ContextLabels
  BY <1>2, AtHand
<1>4. /\ pc'["App"] = b /\ pc'["Context"] = pc["Context"] /\ pc' \in [Threads -> Labels]
  BY <1>3 DEF Threads, Labels
<1>5. QED
  BY <1>2, <1>3, <1>4 DEF AppMoves, Terminated

LEMMA CallStartStep == ASSUME SInv, CallStart PROVE SInv'
<1> DEFINE n == starts + 1
           o == Op("accept", n)
<1>1. /\ pc["App"] = "Idle" /\ Len(ids) + starts + received < MaxInputs /\ starts' = n /\ Start(o)
      /\ pc' = [pc EXCEPT !["App"] = "StartThread"] /\ UNCHANGED quiet
      /\ outgoing' = outgoing
  BY DEF CallStart, Goto, quiet, membership, polling
<1>2. "Idle" \in AppLabels /\ "StartThread" \in AppLabels
  BY DEF AppLabels
<1>3. /\ ~Terminated /\ ~Terminated' /\ AppMoves
      /\ pc'["App"] = "StartThread" /\ pc'["Context"] = pc["Context"]
      /\ pc' \in [Threads -> Labels] /\ pc'["Context"] \in ContextLabels
  BY <1>1, <1>2, AppGoes
<1>4. n \in Nat /\ n # Nobody /\ n \in 0 .. MaxInputs /\ starts \in Nat
  <2>1. /\ received \in Nat /\ starts \in Nat /\ Len(ids) \in Nat /\ MaxInputs \in Nat
    BY <1>3, AtHand, SeqFacts, BoundsAssumption
  <2>2. QED
    BY <1>1, <2>1 DEF Nobody
<1>5. o \in O /\ o.op = "accept" /\ o.conn = n
  BY <1>4 DEF O, Operations, Op
<1>6. pending' = Append(pending, o) /\ port' = port
  BY <1>1 DEF Start
<1>7. CNext
  BY <1>1, <1>3, <1>5 DEF CNext, ContextNext
<1>8. ServerTypeOK'
  BY <1>1, <1>2, <1>3, <1>4, AtHand DEF ServerTypeOK, quiet, Labels
<1>9. Accepts'
  <2>1. pending \in Seq(O) /\ Accepts
    BY <1>3, AtHand DEF Rest
  <2>2. ASSUME NEW k \in 1 .. n
        PROVE  \/ None(port', "accept", k) /\ One(pending', "accept", k)
               \/ One(port', "accept", k) /\ None(pending', "accept", k)
    <3>1. CASE k = n
      <4>1. None(port, "accept", k) /\ None(pending, "accept", k) /\ IsOp(o, "accept", k)
        BY <1>3, <1>4, <1>5, <2>1, <3>1 DEF Accepts, IsOp
      <4>2. QED
        BY <1>5, <1>6, <2>1, <4>1, OpAppend
    <3>2. CASE k # n
      <4>1. k \in 1 .. starts /\ ~IsOp(o, "accept", k)
        BY <1>4, <1>5, <2>2, <3>2 DEF IsOp
      <4>2. QED
        BY <1>3, <1>5, <1>6, <2>1, <4>1, OpAppend DEF Accepts
    <3>3. QED
      BY <3>1, <3>2
  <2>3. ASSUME NEW k \in Nat, k > n PROVE None(port', "accept", k) /\ None(pending', "accept", k)
    <3>1. k > starts /\ ~IsOp(o, "accept", k)
      BY <1>4, <1>5, <2>3 DEF IsOp
    <3>2. QED
      BY <1>3, <1>5, <1>6, <2>1, <3>1, OpAppend DEF Accepts
  <2>4. QED
    BY <1>1, <2>2, <2>3 DEF Accepts
<1>10. QED
  BY <1>1, <1>3, <1>7, <1>8, <1>9, QuietStep

\* A step that changes neither the context but for pc nor the server.
LEMMA IdleStep ==
    ASSUME SInv, CNext, ~Terminated, ~Terminated', UNCHANGED server,
           Same(port, port'), Same(pending, pending'),
           pc' \in [Threads -> Labels], pc'["App"] \in AppLabels,
           pc'["Context"] \in ContextLabels,
           pc'["App"] = "MessageAll" <=> pc["App"] = "MessageAll"
    PROVE  SInv'
<1>1. UNCHANGED quiet /\ starts' = starts
  BY DEF quiet, server
<1>2. ServerTypeOK'
  BY AtHand DEF ServerTypeOK, server, Labels
<1>3. Accepts'
  BY <1>1, AcceptsQuiet
<1>4. QED
  BY <1>1, <1>2, <1>3, QuietStep

LEMMA StartThreadStep == ASSUME SInv, StartThread PROVE SInv'
<1>1. pc["App"] = "StartThread" /\ UNCHANGED cvars /\ UNCHANGED server
  BY DEF StartThread, cvars
<1>2. ~Terminated
  BY <1>1, Running DEF Threads
<1>3. CASE pc["Context"] = "None" /\ pc' = [pc EXCEPT !["App"] = "Idle", !["Context"] = "Run"]
  <2>1. /\ pc'["App"] = "Idle" /\ pc'["Context"] = "Run"
        /\ pc' \in [Threads -> Labels] /\ ~Terminated'
        /\ "Idle" \in AppLabels /\ "Run" \in ContextLabels
    BY <1>2, <1>3, AtHand DEF Threads, Labels, Terminated, AppLabels, ContextLabels
  <2>2. AppMoves
    BY <1>1, <1>2, <1>3, <2>1 DEF AppMoves
  <2>3. CNext
    BY <1>1, <2>2 DEF CNext, ContextNext
  <2>4. Same(port, port') /\ Same(pending, pending')
    BY <1>1, SameSame DEF cvars
  <2>5. QED
    BY <1>1, <1>2, <2>1, <2>3, <2>4, IdleStep
<1>4. CASE Terminate
  BY <1>1, <1>4, TerminationKeeps
<1>5. QED
  BY <1>3, <1>4 DEF StartThread

LEMMA CallStopStep == ASSUME SInv, CallStop PROVE SInv'
<1>1. /\ pc["App"] = "Idle" /\ pc' = [pc EXCEPT !["App"] = "StopFlag"]
      /\ UNCHANGED cvars /\ UNCHANGED server
  BY DEF CallStop, Goto, cvars
<1>2. "Idle" \in AppLabels /\ "StopFlag" \in AppLabels
  BY DEF AppLabels, StopLabels
<1>3. /\ ~Terminated /\ ~Terminated' /\ AppMoves
      /\ pc'["App"] = "StopFlag" /\ pc'["Context"] = pc["Context"]
      /\ pc' \in [Threads -> Labels] /\ pc'["Context"] \in ContextLabels
  BY <1>1, <1>2, AppGoes
<1>4. CNext
  BY <1>1, <1>3 DEF CNext, ContextNext
<1>5. Same(port, port') /\ Same(pending, pending')
  BY <1>1, SameSame DEF cvars
<1>6. QED
  BY <1>1, <1>2, <1>3, <1>4, <1>5, IdleStep

LEMMA AppStopStepKeeps == ASSUME SInv, AppStopStep, UNCHANGED server PROVE SInv'
<1>1. /\ pc["App"] \in {"StopFlag", "PostStop"} /\ pending' = pending
      /\ port' = port \/ port' = Append(port, StopEvent)
      /\ pc' = [pc EXCEPT !["App"] = "PostStop"] \/ pc' = [pc EXCEPT !["App"] = "Join"]
  BY DEF AppStopStep, StopFlag, PostStop, PostStopEvent, Goto, AfterStop
<1>2. PICK b \in {"PostStop", "Join"} : pc' = [pc EXCEPT !["App"] = b]
  BY <1>1
<1>3. pc["App"] \in AppLabels /\ b \in AppLabels
  BY <1>1 DEF AppLabels, StopLabels
<1>4. /\ ~Terminated /\ ~Terminated'
      /\ pc'["App"] = b /\ pc'["Context"] = pc["Context"]
      /\ pc' \in [Threads -> Labels] /\ pc'["Context"] \in ContextLabels
  BY <1>2, <1>3, AppGoes
<1>5. CNext
  BY <1>4 DEF CNext, ContextNext
<1>6. Same(port, port') /\ Same(pending, pending')
  <2>1. port \in Seq(P) /\ StopEvent \in P /\ StopEvent.op # "accept"
    BY <1>4, AtHand DEF P, StopEvent
  <2>2. Same(port, Append(port, StopEvent))
    BY <2>1, SameAppend
  <2>3. Same(port, port) /\ Same(pending, pending)
    BY SameSame
  <2>4. QED
    BY <1>1, <2>2, <2>3
<1>7. QED
  BY <1>1, <1>3, <1>4, <1>5, <1>6, IdleStep

LEMMA JoinThreadStep == ASSUME SInv, JoinThread PROVE SInv'
<1>1. /\ pc["App"] = "Join" /\ pc["Context"] \in {"Done", "None"}
      /\ pc' = [pc EXCEPT !["App"] = "Idle", !["Context"] = "None"]
      /\ UNCHANGED cvars /\ UNCHANGED server /\ Join("Idle")
  BY DEF JoinThread, Join, cvars
<1>2. ~Terminated
  BY <1>1, Running DEF Threads
<1>3. /\ pc'["App"] = "Idle" /\ pc'["Context"] = "None"
      /\ pc' \in [Threads -> Labels] /\ ~Terminated'
      /\ "Idle" \in AppLabels /\ "None" \in ContextLabels
  BY <1>1, <1>2, AtHand DEF Threads, Labels, Terminated, AppLabels, ContextLabels
<1>4. CNext
  BY <1>1 DEF CNext, ContextNext
<1>5. Same(port, port') /\ Same(pending, pending')
  BY <1>1, SameSame DEF cvars
<1>6. QED
  BY <1>1, <1>2, <1>3, <1>4, <1>5, IdleStep

LEMMA ContextStepKeeps == ASSUME SInv, ContextStep, UNCHANGED server PROVE SInv'
<1>1. /\ pc["Context"] \in ContextLabels /\ pending' = pending
      /\ \E b \in ContextLabels : pc' = [pc EXCEPT !["Context"] = b]
      /\ \/ port' = port
         \/ port' = Append(port, StopEvent)
         \/ port # <<>> /\ Head(port) = StopEvent /\ port' = Tail(port)
  BY DEF ContextStep, Run, WorkFinished, StopFlag, PostStop, TakeStop, StopSeen,
     CheckStopped, RepostStop, Restart, PostStopEvent, Goto, AfterStop, ContextLabels,
     InDoOne, InHandling, Leaving
<1>2. PICK b \in ContextLabels : pc' = [pc EXCEPT !["Context"] = b]
  BY <1>1
<1>3. ~Terminated
  BY <1>1, Running DEF Threads, ContextLabels, InDoOne, InHandling, Leaving
<1>4. /\ pc'["App"] = pc["App"] /\ pc'["Context"] = b
      /\ pc' \in [Threads -> Labels] /\ ~Terminated' /\ pc["App"] \in AppLabels
  BY <1>2, <1>3, AtHand DEF Threads, Labels, Terminated, ContextLabels, InDoOne,
     InHandling, Leaving
<1>5. CNext
  BY DEF CNext, ContextNext
<1>6. Same(port, port') /\ Same(pending, pending')
  <2>1. port \in Seq(P) /\ StopEvent \in P /\ StopEvent.op # "accept"
    BY <1>3, AtHand DEF P, StopEvent
  <2>2. Same(port, Append(port, StopEvent))
    BY <2>1, SameAppend
  <2>3. port # <<>> /\ Head(port) = StopEvent => Same(port, Tail(port))
    BY <2>1, SameTail
  <2>4. Same(port, port) /\ Same(pending, pending)
    BY SameSame
  <2>5. QED
    BY <1>1, <2>2, <2>3, <2>4
<1>7. QED
  BY <1>3, <1>4, <1>5, <1>6, IdleStep

LEMMA SystemCompletesKeeps ==
    ASSUME SInv, NEW i \in DOMAIN pending, SystemCompletes(i)
    PROVE  SInv'
<1>1. PICK good \in BOOLEAN : Complete(i, good)
  BY DEF SystemCompletes
<1> DEFINE o == pending[i]
           p == Packet(o, good)
<1>2. ~Terminated /\ UNCHANGED server
  BY DEF SystemCompletes
<1>3. /\ pending' = RemoveAt(pending, i) /\ port' = Append(port, p) /\ pc' = pc
  BY <1>1 DEF Complete
<1>4. pending \in Seq(O) /\ port \in Seq(P) /\ o \in O
  BY <1>2, AtHand, SeqFacts
<1>5. p \in P /\ \A k : IsOp(p, "accept", k) <=> IsOp(o, "accept", k)
  BY <1>4, PacketsFit DEF PacketsOf, Packet, IsOp
<1>6. CNext
  BY <1>1, <1>2 DEF CNext, ContextNext
<1>7. UNCHANGED quiet /\ starts' = starts /\ ~Terminated'
  BY <1>2, <1>3 DEF server, quiet, Terminated
<1>8. ServerTypeOK'
  BY <1>2, <1>3, AtHand DEF Rest, ServerTypeOK, server
<1> HIDE DEF p
<1>9. Accepts'
  <2>1. Accepts
    BY <1>2, AtHand DEF Rest
  <2>2. ASSUME NEW k \in 1 .. starts
        PROVE  \/ None(port', "accept", k) /\ One(pending', "accept", k)
               \/ One(port', "accept", k) /\ None(pending', "accept", k)
    <3>1. \/ None(port, "accept", k) /\ One(pending, "accept", k)
          \/ One(port, "accept", k) /\ None(pending, "accept", k)
      BY <1>2, <2>1 DEF Accepts
    <3>2. CASE IsOp(o, "accept", k)
      BY <1>3, <1>4, <1>5, <3>1, <3>2, OpAppend, OpRemove
    <3>3. CASE ~IsOp(o, "accept", k)
      BY <1>3, <1>4, <1>5, <3>1, <3>3, OpAppend, OpRemove
    <3>4. QED
      BY <3>2, <3>3
  <2>3. ASSUME NEW k \in Nat, k > starts PROVE None(port', "accept", k) /\ None(pending', "accept", k)
    <3>1. None(port, "accept", k) /\ None(pending, "accept", k)
      BY <1>2, <2>1, <2>3 DEF Accepts
    <3>2. ~IsOp(o, "accept", k)
      BY <1>4, <3>1, OpRemove
    <3>3. QED
      BY <1>3, <1>4, <1>5, <3>1, <3>2, OpAppend, OpRemove
  <2>4. QED
    BY <1>7, <2>2, <2>3 DEF Accepts
<1>10. QED
  BY <1>3, <1>6, <1>7, <1>8, <1>9, QuietStep

-----------------------------------------------------------------------------
(* Polling and relaying.                                                    *)

LEMMA SendPosts ==
    ASSUME SInv, ~Terminated, AppMoves, NEW c \in DOMAIN ids,
           Post(Packet(Op("send", c), TRUE))
    PROVE  CNext /\ Same(port, port') /\ Same(pending, pending')
<1> DEFINE p == Packet(Op("send", c), TRUE)
<1>1. c \in Nat \ {Nobody}
  BY Known DEF Nobody
<1>2. p \in Packets /\ p.op # "accept"
  BY <1>1 DEF Packet, Op, Packets
<1> HIDE DEF p
<1>3. p \in P \ {StopEvent} /\ p \in P
  BY <1>2, NotStop
<1>4. Post(p)
  BY DEF p
<1>5. CNext
  BY <1>3, <1>4 DEF CNext, ContextNext
<1>6. port' = Append(port, p) /\ pending' = pending
  BY <1>4 DEF Post
<1>7. port \in Seq(P)
  BY AtHand
<1>8. QED
  BY <1>2, <1>3, <1>5, <1>6, <1>7, SameAppend, SameSame

\* A message with a higher number is added to what client c has been sent.
LEMMA Sending ==
    ASSUME SInv, ~Terminated, NEW c \in DOMAIN ids, NEW o \in Answers(c),
           Before(Used(sentTo[c]), {o.number}),
           sentTo' = [sentTo EXCEPT ![c] = Append(@, o)]
    PROVE  /\ sentTo' \in [Connections -> Seq(OwnedMessages)]
           /\ Used(sentTo'[c]) = Used(sentTo[c]) \cup {o.number}
           /\ \A d \in Connections \ {c} : sentTo'[d] = sentTo[d]
           /\ \A d \in Connections : Rising(sentTo'[d]) /\ sentTo'[d] \in Seq(Answers(d))
           /\ \A d \in Connections : d \notin DOMAIN ids => sentTo'[d] = <<>>
<1>1. c \in Connections /\ sentTo \in [Connections -> Seq(OwnedMessages)]
  BY Known, AtHand
<1>2. o \in OwnedMessages
  BY DEF Answers
<1>3. Contents /\ Numbers
  BY AtHand DEF Rest
<1>4. sentTo[c] \in Seq(Answers(c)) /\ Rising(sentTo[c])
  BY <1>1, <1>3 DEF Contents, Numbers
<1>5. Append(sentTo[c], o) \in Seq(OwnedMessages)
  BY <1>1, <1>2, AppendFacts
<1>6. /\ sentTo'[c] = Append(sentTo[c], o)
      /\ \A d \in Connections \ {c} : sentTo'[d] = sentTo[d]
      /\ sentTo' \in [Connections -> Seq(OwnedMessages)]
  BY <1>1, <1>5
<1>7. /\ Used(sentTo'[c]) = Used(sentTo[c]) \cup {o.number} /\ Rising(sentTo'[c])
      /\ sentTo'[c] \in Seq(Answers(c))
  BY <1>1, <1>2, <1>4, <1>6, NumbersAppend, AppendFacts
<1>8. \A d \in Connections : Rising(sentTo'[d]) /\ sentTo'[d] \in Seq(Answers(d))
  BY <1>3, <1>6, <1>7 DEF Contents, Numbers
<1>9. \A d \in Connections : d \notin DOMAIN ids => sentTo'[d] = <<>>
  BY <1>3, <1>6 DEF Numbers
<1>10. QED
  BY <1>6, <1>7, <1>8, <1>9

\* The message that PollMessages takes.
LEMMA Polled ==
    ASSUME SInv, ~Terminated, incoming # <<>>
    PROVE  LET owned == Head(incoming)
           IN  /\ owned \in OwnedMessages /\ owned.from \in DOMAIN ids
               /\ owned.message.id = "ping" => owned.message = Ping
               /\ owned.message.id = "relay" => owned.message = Empty("relay")
               /\ owned.number \in 1 .. received
               /\ \A c \in Connections : Before(Used(sentTo[c]), {owned.number})
               /\ Tail(incoming) \in Seq(Heard) /\ Tail(incoming) \in Seq(OwnedMessages)
               /\ Rising(Tail(incoming)) /\ Used(Tail(incoming)) \subseteq Used(incoming)
               /\ Before({owned.number}, Used(Tail(incoming)))
<1> DEFINE owned == Head(incoming)
<1>1. /\ incoming \in Seq(Heard) /\ incoming \in Seq(OwnedMessages) /\ Numbers
  BY AtHand DEF Rest, Contents
<1>2. /\ owned \in Heard /\ Tail(incoming) \in Seq(Heard)
      /\ Tail(incoming) \in Seq(OwnedMessages)
  BY <1>1, TailFacts
<1>3. /\ Used(Tail(incoming)) \subseteq Used(incoming) /\ owned.number \in Used(incoming)
      /\ Rising(Tail(incoming)) /\ Before({owned.number}, Used(Tail(incoming)))
  BY <1>1, NumbersTail DEF Numbers
<1>4. /\ owned.number \in 1 .. received
      /\ \A c \in Connections : Before(Used(sentTo[c]), {owned.number})
  BY <1>1, <1>3 DEF Numbers, Before
<1> HIDE DEF owned
<1>5. /\ owned.message.id = "ping" => owned.message = Ping
      /\ owned.message.id = "relay" => owned.message = Empty("relay")
  <2>1. Ping.id = "ping" /\ Empty("relay").id = "relay"
    BY ReadUndoesWrite DEF Ping
  <2>2. owned.message \in {Ping, Empty("relay")}
    BY <1>2 DEF Heard, ClientMessages, Ping
  <2> HIDE DEF Ping, Empty
  <2>3. QED
    BY <2>1, <2>2
<1>6. QED
  BY <1>2, <1>3, <1>4, <1>5 DEF Heard, owned

LEMMA BouncePingStep == ASSUME SInv, BouncePing PROVE SInv'
<1> DEFINE owned == Head(incoming)
           c == owned.from
<1>1. /\ pc["App"] = "Idle" /\ incoming # <<>> /\ owned.message.id = "ping"
      /\ incoming' = Tail(incoming) /\ Post(Packet(Op("send", c), TRUE))
      /\ sentTo' = [sentTo EXCEPT ![c] = Append(@, owned)] /\ pc' = pc
      /\ UNCHANGED <<m_Clients, m_NextClientID, ids, starts, received, current,
                     iteration, audience, outgoing>>
  BY DEF BouncePing, membership, polling
<1>2. ~Terminated /\ ~Terminated' /\ AppMoves
  BY <1>1, Running DEF Threads, AppMoves, Terminated
<1>3. /\ owned \in OwnedMessages /\ c \in DOMAIN ids /\ owned.message = Ping
      /\ owned.number \in 1 .. received
      /\ \A d \in Connections : Before(Used(sentTo[d]), {owned.number})
      /\ incoming' \in Seq(Heard) /\ incoming' \in Seq(OwnedMessages)
      /\ Rising(incoming') /\ Used(incoming') \subseteq Used(incoming)
      /\ Before({owned.number}, Used(incoming'))
  BY <1>1, <1>2, Polled
<1> HIDE DEF owned, c
<1>4. c \in Connections
  BY <1>2, <1>3, Known
<1>5. owned \in Answers(c)
  BY <1>3 DEF Answers, c
<1>6. /\ sentTo' \in [Connections -> Seq(OwnedMessages)]
      /\ Used(sentTo'[c]) = Used(sentTo[c]) \cup {owned.number}
      /\ \A d \in Connections \ {c} : sentTo'[d] = sentTo[d]
      /\ \A d \in Connections : Rising(sentTo'[d]) /\ sentTo'[d] \in Seq(Answers(d))
      /\ \A d \in Connections : d \notin DOMAIN ids => sentTo'[d] = <<>>
  BY <1>1, <1>2, <1>3, <1>4, <1>5, Sending
<1>7. CNext /\ Same(port, port') /\ Same(pending, pending')
  BY <1>1, <1>2, <1>3, SendPosts
<1>8. Rest
  BY <1>2, AtHand
<1>9. ServerTypeOK'
  BY <1>1, <1>3, <1>6, <1>8 DEF Rest, ServerTypeOK
<1>10. Registered'
  BY <1>1, <1>8 DEF Rest, Registered
<1>11. Contents'
  <2>1. \A d : Answers(d)' = Answers(d)
    BY <1>1 DEF Answers
  <2>2. Heard' = Heard
    BY <1>1 DEF Heard
  <2>3. QED
    BY <1>1, <1>3, <1>6, <1>8, <2>1, <2>2 DEF Rest, Contents
<1>12. Numbers'
  <2>1. Numbers
    BY <1>8 DEF Rest
  <2>2. \A d \in Connections :
          /\ Used(sentTo'[d]) \subseteq 1 .. received
          /\ Before(Used(sentTo'[d]), Used(incoming'))
    <3>1. ASSUME NEW d \in Connections
          PROVE  /\ Used(sentTo'[d]) \subseteq Used(sentTo[d]) \cup {owned.number}
                 /\ Used(sentTo[d]) \subseteq 1 .. received
                 /\ Before(Used(sentTo[d]), Used(incoming))
      BY <1>6, <2>1 DEF Numbers
    <3>2. QED
      BY <1>3, <3>1 DEF Before
  <2>3. /\ current'.number \in 0 .. received' /\ Before({current'.number}, Used(incoming'))
        /\ Used(incoming') \subseteq 1 .. received' /\ pc'["App"] # "MessageAll"
    BY <1>1, <1>3, <2>1 DEF Numbers, Before
  <2>4. \A d \in Connections :
          Rising(sentTo'[d]) /\ (d \notin DOMAIN ids' => sentTo'[d] = <<>>)
    BY <1>1, <1>6
  <2>5. QED
    BY <1>1, <1>3, <2>2, <2>3, <2>4 DEF Numbers
<1>13. Reachable'
  BY <1>1, <1>8 DEF Rest, Reachable
<1>14. Accepts'
  BY <1>1, <1>2, <1>7, AcceptsQuiet
<1>15. QED
  BY <1>7, <1>9, <1>10, <1>11, <1>12, <1>13, <1>14, StepKeeps DEF Rest

LEMMA RelayMessageStep == ASSUME SInv, RelayMessage PROVE SInv'
<1> DEFINE owned == Head(incoming)
           c == owned.from
<1>1. /\ pc["App"] = "Idle" /\ incoming # <<>> /\ owned.message.id = "relay"
      /\ incoming' = Tail(incoming)
      /\ current' = [owned EXCEPT !.message = Write(@, ids[c])]
      /\ audience' = ToSet(m_Clients) \ {c}
      /\ iteration' = [next |-> 1, last |-> Len(m_Clients)]
      /\ pc' = [pc EXCEPT !["App"] = "MessageAll"] /\ UNCHANGED cvars
      /\ UNCHANGED <<m_Clients, m_NextClientID, ids, starts, received, sentTo, outgoing>>
  BY DEF RelayMessage, membership, Goto, cvars
<1>2. "Idle" \in AppLabels /\ "MessageAll" \in AppLabels
  BY DEF AppLabels
<1>3. /\ ~Terminated /\ ~Terminated' /\ AppMoves
      /\ pc'["App"] = "MessageAll" /\ pc'["Context"] = pc["Context"]
      /\ pc' \in [Threads -> Labels] /\ pc'["Context"] \in ContextLabels
  BY <1>1, <1>2, AppGoes
<1>4. /\ owned \in OwnedMessages /\ c \in DOMAIN ids /\ owned.message = Empty("relay")
      /\ owned.number \in 1 .. received
      /\ \A d \in Connections : Before(Used(sentTo[d]), {owned.number})
      /\ incoming' \in Seq(Heard) /\ incoming' \in Seq(OwnedMessages)
      /\ Rising(incoming') /\ Used(incoming') \subseteq Used(incoming)
      /\ Before({owned.number}, Used(incoming'))
  BY <1>1, <1>3, Polled
<1>5. Rest
  BY <1>3, AtHand
<1>6. ids[c] = c /\ c \in Nat /\ c # Nobody /\ c \in Connections
  BY <1>3, <1>4, <1>5, Known DEF Rest, Registered
<1>7. /\ current' \in OwnedMessages /\ current'.from = c
      /\ current'.number = owned.number /\ current'.message = Relayed(c)
  <2>1. Relayed(c) \in Messages
    BY <1>6, ReadUndoesWrite DEF Relayed
  <2>2. current' = [owned EXCEPT !.message = Relayed(c)]
    BY <1>1, <1>4, <1>6 DEF Relayed
  <2>3. owned.from = c
    OBVIOUS
  <2> HIDE DEF owned, c
  <2>4. QED
    BY <1>4, <2>1, <2>2, <2>3 DEF OwnedMessages
<1> HIDE DEF owned, c
<1>8. m_Clients \in Seq(Connections) /\ Len(m_Clients) \in Nat
      /\ DOMAIN m_Clients = 1 .. Len(m_Clients)
      /\ \A i \in DOMAIN m_Clients : m_Clients[i] \in Connections
  BY <1>3, AtHand, SeqFacts
<1>9. ServerTypeOK'
  <2>1. audience' \subseteq Connections
    BY <1>1, <1>8 DEF ToSet
  <2>2. iteration' \in [next : Nat, last : Nat]
    BY <1>1, <1>8
  <2>3. QED
    BY <1>1, <1>2, <1>3, <1>4, <1>5, <1>6, <1>7, <2>1, <2>2 DEF Rest, ServerTypeOK, Labels
<1>10. Registered'
  BY <1>1, <1>5 DEF Rest, Registered
<1>11. Contents'
  <2>1. \A d : Answers(d)' = Answers(d)
    BY <1>1 DEF Answers
  <2>2. Heard' = Heard
    BY <1>1 DEF Heard
  <2>3. QED
    BY <1>1, <1>4, <1>5, <1>7, <2>1, <2>2 DEF Rest, Contents
<1>12. Numbers'
  <2>1. Numbers
    BY <1>5 DEF Rest
  <2>2. ASSUME NEW d \in Connections
        PROVE  /\ Rising(sentTo'[d]) /\ Used(sentTo'[d]) \subseteq 1 .. received'
               /\ Before(Used(sentTo'[d]), Used(incoming'))
               /\ d \notin DOMAIN ids' => sentTo'[d] = <<>>
    BY <1>1, <1>4, <2>1 DEF Numbers, Before
  <2>3. current'.number \in 0 .. received' /\ Before({current'.number}, Used(incoming'))
    BY <1>1, <1>4, <1>7
  <2>4. Used(incoming') \subseteq 1 .. received'
    BY <1>1, <1>4, <2>1 DEF Numbers
  <2>5. ASSUME NEW d \in Connections, NEW m \in Used(sentTo'[d])
        PROVE  m <= current'.number /\ m # current'.number
    <3>1. m \in 1 .. received /\ m < owned.number
      BY <1>1, <1>4, <2>1, <2>5 DEF Numbers, Before
    <3>2. QED
      BY <1>4, <1>7, <3>1
  <2>6. \A i \in DOMAIN m_Clients' : current'.number \notin Used(sentTo'[m_Clients'[i]])
    BY <1>1, <1>8, <2>5
  <2>7. QED
    BY <1>4, <2>2, <2>3, <2>4, <2>5, <2>6 DEF Numbers
<1>13. Reachable'
  <2>1. iteration'.next = 1 /\ iteration'.last = Len(m_Clients)
    BY <1>1
  <2>2. ASSUME NEW d \in audience'
        PROVE  /\ d # current'.from
               /\ \E i \in DOMAIN m_Clients' :
                     m_Clients'[i] = d /\ iteration'.next <= i /\ i <= iteration'.last
    BY <1>1, <1>7, <1>8, <2>1, <2>2 DEF ToSet
  <2>3. QED
    BY <2>1, <2>2 DEF Reachable
<1>14. Accepts'
  BY <1>1, <1>3, SameSame, AcceptsQuiet DEF cvars
<1>15. CNext
  BY <1>1, <1>3 DEF CNext, ContextNext
<1>16. QED
  BY <1>9, <1>10, <1>11, <1>12, <1>13, <1>14, <1>15, StepKeeps DEF Rest
\* MessageAll goes on to the next element.
LEMMA NextElement ==
    ASSUME SInv, ~Terminated, iteration' = [iteration EXCEPT !.next = @ + 1]
    PROVE  /\ iteration \in [next : Nat, last : Nat] /\ iteration.next \in Nat
           /\ iteration.last \in Nat /\ iteration' \in [next : Nat, last : Nat]
           /\ iteration'.next = iteration.next + 1 /\ iteration'.last = iteration.last
<1>1. iteration \in [next : Nat, last : Nat]
  BY AtHand
<1>2. QED
  BY <1>1

LEMMA MessageElementStep == ASSUME SInv, MessageElement PROVE SInv'
<1> DEFINE n == iteration.next
           c == m_Clients[n]
<1>1. /\ pc["App"] = "MessageAll" /\ n <= iteration.last /\ n <= Len(m_Clients)
      /\ iteration' = [iteration EXCEPT !.next = @ + 1] /\ pc' = pc
      /\ UNCHANGED <<m_Clients, m_NextClientID, ids, starts, incoming, received,
                     current, outgoing>>
  BY DEF MessageElement, membership
<1>2. ~Terminated /\ ~Terminated' /\ AppMoves
  BY <1>1, Running DEF Threads, AppMoves, Terminated
<1>3. Rest /\ current.from # Nobody
  BY <1>1, <1>2, AtHand
<1>4. /\ n \in Nat /\ n > 0 /\ iteration.last \in Nat
      /\ iteration' \in [next : Nat, last : Nat]
      /\ iteration'.next = n + 1 /\ iteration'.last = iteration.last
  <2>1. iteration.next > 0
    BY <1>3 DEF Rest, Reachable
  <2>2. QED
    BY <1>1, <1>2, <2>1, NextElement
<1>5. /\ DOMAIN m_Clients = 1 .. Len(m_Clients) /\ Len(m_Clients) \in Nat
      /\ IsInjective(m_Clients)
  BY <1>2, AtHand, SeqFacts
<1>6. n \in DOMAIN m_Clients /\ c \in DOMAIN ids
  <2>1. n \in DOMAIN m_Clients
    BY <1>1, <1>4, <1>5
  <2>2. QED
    BY <1>3, <2>1 DEF Rest, Registered
<1>7. c \in Connections
  BY <1>2, <1>6, Known
<1>8. \A i \in DOMAIN m_Clients : i >= n /\ i # n => i >= n + 1 /\ m_Clients[i] # c
  BY <1>4, <1>5, <1>6 DEF IsInjective
<1>9. \A i \in DOMAIN m_Clients : i >= n + 1 => i >= n /\ i # n
  BY <1>4, <1>5
<1>10. Registered'
  BY <1>1, <1>3 DEF Rest, Registered
<1>11. Heard' = Heard /\ \A d : Answers(d)' = Answers(d)
  BY <1>1 DEF Heard, Answers
<1>12. Reachable /\ Numbers /\ Contents
  BY <1>3 DEF Rest
<1>13. ASSUME \A d \in audience' : d \in audience /\ (d # c \/ c = current.from)
       PROVE  Reachable'
  <2>1. ASSUME NEW d \in audience'
        PROVE  /\ d # current.from
               /\ \E i \in DOMAIN m_Clients :
                     m_Clients[i] = d /\ n + 1 <= i /\ i <= iteration.last
    <3>1. d \in audience
      BY <1>13
    <3>2. d # current.from
      BY <1>1, <1>12, <3>1 DEF Reachable
    <3>3. PICK i \in DOMAIN m_Clients : m_Clients[i] = d /\ n <= i /\ i <= iteration.last
      BY <1>1, <1>12, <3>1 DEF Reachable
    <3>4. d # c
      BY <1>13, <3>2
    <3>5. i # n /\ i \in Nat
      BY <1>5, <3>3, <3>4
    <3>6. n + 1 <= i
      BY <1>4, <3>3, <3>5
    <3>7. QED
      BY <3>2, <3>3, <3>6
  <2> HIDE DEF c
  <2>2. iteration'.next > 0
    BY <1>4
  <2>3. QED
    BY <1>1, <1>4, <2>1, <2>2 DEF Reachable
<1>14. CASE c = current.from
  <2>1. UNCHANGED cvars /\ sentTo' = sentTo /\ audience' = audience
    BY <1>14 DEF MessageElement, cvars
  <2>2. CNext
    BY <1>1, <2>1 DEF CNext, ContextNext
  <2>3. ServerTypeOK'
    BY <1>1, <1>3, <1>4, <2>1 DEF Rest, ServerTypeOK
  <2>4. Contents'
    BY <1>1, <1>11, <1>12, <2>1 DEF Contents
  <2>5. Numbers'
    BY <1>1, <1>4, <1>9, <1>12, <2>1 DEF Numbers
  <2>6. Reachable'
    BY <1>13, <1>14, <2>1
  <2>7. Accepts'
    BY <1>1, <1>2, <2>1, SameSame, AcceptsQuiet DEF cvars
  <2>8. QED
    BY <1>10, <2>2, <2>3, <2>4, <2>5, <2>6, <2>7, StepKeeps DEF Rest
<1>15. CASE c # current.from
  <2>1. /\ Post(Packet(Op("send", c), TRUE)) /\ audience' = audience \ {c}
        /\ sentTo' = [sentTo EXCEPT ![c] = Append(@, current)]
    BY <1>15 DEF MessageElement
  <2>2. CNext /\ Same(port, port') /\ Same(pending, pending')
    BY <1>2, <1>6, <2>1, SendPosts
  <2>3. /\ current \in OwnedMessages /\ current.from \in DOMAIN ids
        /\ current.message = Relayed(current.from)
    BY <1>3, <1>12 DEF Contents, NoMessage
  <2>4. current \in Answers(c)
    BY <1>15, <2>3 DEF Answers
  <2>5. /\ Before(Used(sentTo[c]), {current.number}) /\ current.number \in 1 .. received
        /\ Before({current.number}, Used(incoming))
    <3>1. current.number \in 1 .. MaxInputs /\ received \in Nat
      BY <1>2, <2>3, AtHand DEF OwnedMessages
    <3>2. n >= n
      BY <1>4
    <3>3. current.number \in 0 .. received /\ Before({current.number}, Used(incoming))
      BY <1>12 DEF Numbers
    <3>4. ASSUME NEW m \in Used(sentTo[c]) PROVE m < current.number
      <4>1. m <= current.number /\ m # current.number /\ m \in 1 .. received
        BY <1>1, <1>6, <1>7, <1>12, <3>2, <3>4 DEF Numbers
      <4>2. QED
        BY <3>1, <4>1
    <3>5. QED
      BY <3>1, <3>3, <3>4 DEF Before
  <2> HIDE DEF c
  <2>6. /\ sentTo' \in [Connections -> Seq(OwnedMessages)]
        /\ Used(sentTo'[c]) = Used(sentTo[c]) \cup {current.number}
        /\ \A d \in Connections \ {c} : sentTo'[d] = sentTo[d]
        /\ \A d \in Connections : Rising(sentTo'[d]) /\ sentTo'[d] \in Seq(Answers(d))
        /\ \A d \in Connections : d \notin DOMAIN ids => sentTo'[d] = <<>>
    BY <1>2, <1>6, <2>1, <2>4, <2>5, Sending
  <2>7. ServerTypeOK'
    <3>1. audience' \subseteq Connections
      BY <1>2, <2>1, AtHand
    <3>2. QED
      BY <1>1, <1>3, <1>4, <2>6, <3>1 DEF Rest, ServerTypeOK
  <2>8. Contents'
    BY <1>1, <1>11, <1>12, <2>6 DEF Contents
  <2>9. Numbers'
    <3>1. ASSUME NEW d \in Connections
          PROVE  /\ Used(sentTo'[d]) \subseteq 1 .. received
                 /\ Before(Used(sentTo'[d]), Used(incoming))
                 /\ \A m \in Used(sentTo'[d]) : m <= current.number
      <4>1. /\ Used(sentTo'[d]) \subseteq Used(sentTo[d]) \cup {current.number}
            /\ Used(sentTo[d]) \subseteq 1 .. received
            /\ Before(Used(sentTo[d]), Used(incoming))
            /\ \A m \in Used(sentTo[d]) : m <= current.number
        BY <1>1, <1>12, <2>6 DEF Numbers
      <4>2. current.number <= current.number
        BY <2>5
      <4>3. QED
        BY <2>5, <4>1, <4>2 DEF Before
    <3>2. ASSUME NEW i \in DOMAIN m_Clients, i >= n + 1
          PROVE  current.number \notin Used(sentTo'[m_Clients[i]])
      <4>1. i >= n /\ i # n
        BY <1>9, <3>2
      <4>2. m_Clients[i] # c /\ m_Clients[i] \in Connections
        <5>1. m_Clients[i] \in Connections
          BY <1>2, AtHand, SeqFacts
        <5>2. QED
          BY <1>8, <4>1, <5>1
      <4>3. sentTo'[m_Clients[i]] = sentTo[m_Clients[i]]
        BY <2>6, <4>2
      <4>4. QED
        BY <1>1, <1>12, <4>1, <4>3 DEF Numbers
    <3>3. QED
      BY <1>1, <1>4, <1>12, <2>6, <3>1, <3>2 DEF Numbers
  <2>10. Reachable'
    <3>1. \A d \in audience' :
             d \in audience /\ (d # c \/ c = current.from)
      BY <2>1
    <3>2. QED
      BY <1>13, <3>1
  <2>11. Accepts'
    BY <1>1, <1>2, <2>2, AcceptsQuiet
  <2>12. QED
    BY <1>10, <2>2, <2>7, <2>8, <2>9, <2>10, <2>11, StepKeeps DEF Rest
<1>16. QED
  BY <1>14, <1>15

LEMMA MessageErasedStep == ASSUME SInv, MessageErased PROVE SInv'
<1> DEFINE n == iteration.next
<1>1. /\ pc["App"] = "MessageAll" /\ n > Len(m_Clients)
      /\ iteration' = [iteration EXCEPT !.next = @ + 1]
      /\ UNCHANGED cvars
      /\ UNCHANGED <<m_Clients, m_NextClientID, ids, starts, incoming, received,
                     current, audience, sentTo, outgoing>>
  BY DEF MessageErased, membership, cvars
<1>2. ~Terminated
  BY <1>1, Running DEF Threads
<1>3. Rest
  BY <1>2, AtHand
<1>4. /\ n \in Nat /\ iteration' \in [next : Nat, last : Nat] /\ iteration'.next = n + 1
  BY <1>1, <1>2, NextElement
<1>5. DOMAIN m_Clients = 1 .. Len(m_Clients) /\ Len(m_Clients) \in Nat
  BY <1>2, AtHand, SeqFacts
<1>6. \A i \in DOMAIN m_Clients : ~(i >= n) /\ ~(i >= n + 1) /\ ~(n <= i)
  BY <1>1, <1>4, <1>5
<1>7. \/ pc' = pc /\ ~Terminated'
      \/ pc' = [t \in Threads |-> "Terminated"] /\ Terminated'
  BY <1>2 DEF MessageErased, Terminate, Terminated, Threads
<1>8. CNext
  BY <1>1, <1>7 DEF CNext, ContextNext
<1>9. ServerTypeOK'
  BY <1>1, <1>3, <1>4, <1>7 DEF Rest, ServerTypeOK
<1>10. Registered' /\ Contents'
  <2>1. Heard' = Heard /\ \A d : Answers(d)' = Answers(d)
    BY <1>1 DEF Heard, Answers
  <2>2. QED
    BY <1>1, <1>3, <2>1 DEF Rest, Registered, Contents
<1>11. Numbers'
  BY <1>1, <1>3, <1>4, <1>6 DEF Rest, Numbers
<1>12. Reachable'
  <2>1. audience' = {}
    BY <1>1, <1>3, <1>6 DEF Rest, Reachable
  <2>2. iteration'.next > 0
    BY <1>4
  <2>3. QED
    BY <2>1, <2>2 DEF Reachable
<1>13. Accepts'
  <2>1. CASE Terminated'
    BY <2>1 DEF Accepts
  <2>2. CASE ~Terminated'
    BY <1>1, <1>2, SameSame, AcceptsQuiet DEF cvars
  <2>3. QED
    BY <2>1, <2>2
<1>14. QED
  BY <1>8, <1>9, <1>10, <1>11, <1>12, <1>13, StepKeeps DEF Rest

LEMMA MessageEndStep == ASSUME SInv, MessageEnd PROVE SInv'
<1>1. /\ pc["App"] = "MessageAll" /\ pc' = [pc EXCEPT !["App"] = "Idle"]
      /\ current' = NoMessage /\ iteration' = [next |-> 1, last |-> 0] /\ audience' = {}
      /\ UNCHANGED cvars
      /\ UNCHANGED <<m_Clients, m_NextClientID, ids, starts, incoming, received,
                     sentTo, outgoing>>
  BY DEF MessageEnd, membership, Goto, cvars
<1>2. "Idle" \in AppLabels /\ "MessageAll" \in AppLabels
  BY DEF AppLabels
<1>3. /\ ~Terminated /\ ~Terminated' /\ AppMoves
      /\ pc'["App"] = "Idle" /\ pc'["Context"] = pc["Context"]
      /\ pc' \in [Threads -> Labels] /\ pc'["Context"] \in ContextLabels
  BY <1>1, <1>2, AppGoes
<1>4. Rest
  BY <1>3, AtHand
<1>5. CNext
  BY <1>1, <1>3 DEF CNext, ContextNext
<1>6. current'.from = Nobody /\ current'.number = 0
  BY <1>1 DEF NoMessage
<1>7. ServerTypeOK'
  BY <1>1, <1>2, <1>3, <1>4, <1>6 DEF Rest, ServerTypeOK, Labels
<1>8. Registered' /\ Contents'
  <2>1. Heard' = Heard /\ \A d : Answers(d)' = Answers(d)
    BY <1>1 DEF Heard, Answers
  <2>2. QED
    BY <1>1, <1>4, <2>1 DEF Rest, Registered, Contents
<1>9. Numbers'
  <2>1. received \in Nat
    BY <1>3, AtHand
  <2>2. 0 \in 0 .. received /\ 0 \notin 1 .. received
    BY <2>1
  <2>3. Before({0}, Used(incoming))
    BY <1>4, <2>1 DEF Rest, Numbers, Before
  <2>4. QED
    BY <1>1, <1>3, <1>4, <1>6, <2>2, <2>3 DEF Rest, Numbers
<1>10. Reachable'
  BY <1>1 DEF Reachable
<1>11. Accepts'
  BY <1>1, <1>3, SameSame, AcceptsQuiet DEF cvars
<1>12. QED
  BY <1>5, <1>7, <1>8, <1>9, <1>10, <1>11, StepKeeps DEF Rest
-----------------------------------------------------------------------------
(* The handlers.                                                            *)

LEMMA Handled ==
    ASSUME SInv, NEW p, Handling(p), NEW started \in Seq(O), Handle(<<>>, started)
    PROVE  /\ CNext /\ ~Terminated /\ ~Terminated' /\ p \in Packets /\ Rest
           /\ port \in Seq(P) /\ pending \in Seq(O) /\ port # <<>> /\ p = Head(port)
           /\ port' = Tail(port) /\ pending' = pending \o started
           /\ pc' \in [Threads -> Labels] /\ pc'["App"] = pc["App"]
           /\ pc'["App"] \in AppLabels /\ pc'["Context"] \in ContextLabels
<1>1. /\ pc["Context"] = "DoOne" /\ port # <<>> /\ p = Head(port) /\ p # StopEvent
      /\ port' = Tail(port) \o <<>> /\ pending' = pending \o started
      /\ pc' = [pc EXCEPT !["Context"] = "WorkFinished"]
  BY DEF Handling, Handle, Goto
<1>2. ~Terminated
  BY <1>1, Running DEF Threads
<1>3. port \in Seq(P) /\ pending \in Seq(O) /\ Rest
  BY <1>2, AtHand
<1>4. Tail(port) \in Seq(P) /\ p \in P
  BY <1>1, <1>3, TailFacts
<1>5. port' = Tail(port)
  BY <1>1, <1>4, ConcatEmptySeq
<1>6. p \in Packets
  BY <1>1, <1>4 DEF P
<1>7. CNext
  <2>1. <<>> \in Seq(P \ {StopEvent}) /\ Handling(Head(port))
    BY <1>1
  <2>2. QED
    BY <2>1 DEF CNext, ContextNext
<1>8. /\ pc' \in [Threads -> Labels] /\ pc'["App"] = pc["App"]
      /\ pc'["App"] \in AppLabels /\ pc'["Context"] \in ContextLabels /\ ~Terminated'
  BY <1>1, <1>2, AtHand DEF Threads, Labels, Terminated, ContextLabels, InHandling
<1>9. QED
  BY <1>1, <1>2, <1>3, <1>5, <1>6, <1>7, <1>8

\* A handler that has to do with no accept.
LEMMA OtherHandled ==
    ASSUME SInv, NEW p, Handling(p), p.op # "accept", NEW started,
           \/ started = <<>>
           \/ \E o \in O : o.op # "accept" /\ started = <<o>>,
           Handle(<<>>, started)
    PROVE  Same(port, port') /\ Same(pending, pending') /\ started \in Seq(O)
<1>1. started \in Seq(O)
  <2>1. CASE started = <<>>
    BY <2>1
  <2>2. CASE \E o \in O : o.op # "accept" /\ started = <<o>>
    <3>1. PICK o \in O : started = <<o>>
      BY <2>2
    <3> HIDE DEF O
    <3>2. <<o>> \in Seq(O)
      OBVIOUS
    <3>3. QED
      BY <3>1, <3>2
  <2>3. QED
    BY <2>1, <2>2
<1>2. /\ port \in Seq(P) /\ pending \in Seq(O) /\ port # <<>> /\ p = Head(port)
      /\ port' = Tail(port) /\ pending' = pending \o started
  BY <1>1, Handled
<1>3. Same(port, port')
  BY <1>2, SameTail
<1>4. CASE started = <<>>
  <2>1. pending' = pending
    BY <1>2, <1>4, ConcatEmptySeq
  <2>2. QED
    BY <1>1, <1>3, <2>1, SameSame
<1>5. CASE \E o \in O : o.op # "accept" /\ started = <<o>>
  <2>1. PICK o \in O : o.op # "accept" /\ started = <<o>>
    BY <1>5
  <2>2. pending' = Append(pending, o)
    BY <1>2, <2>1, AppendIsConcat
  <2>3. QED
    BY <1>1, <1>2, <1>3, <2>1, <2>2, SameAppend
<1>6. QED
  BY <1>4, <1>5

\* A handler that changes nothing of the server but the messages queued.
LEMMA QuietHandler ==
    ASSUME SInv, NEW p, Handling(p), p.op # "accept", NEW started,
           \/ started = <<>>
           \/ \E o \in O : o.op # "accept" /\ started = <<o>>,
           Handle(<<>>, started), UNCHANGED quiet, starts' = starts,
           outgoing' \in [Connections -> Nat]
    PROVE  SInv'
<1>1. Same(port, port') /\ Same(pending, pending') /\ started \in Seq(O)
  BY OtherHandled
<1>2. /\ CNext /\ ~Terminated /\ ~Terminated' /\ Rest
      /\ pc' \in [Threads -> Labels] /\ pc'["App"] = pc["App"]
      /\ pc'["App"] \in AppLabels /\ pc'["Context"] \in ContextLabels
  BY <1>1, Handled
<1>3. ServerTypeOK'
  BY <1>2, AtHand DEF ServerTypeOK, quiet, Labels
<1>4. Accepts'
  BY <1>1, <1>2, AcceptsQuiet
<1>5. QED
  BY <1>2, <1>3, <1>4, QuietStep

\* A handler of an accept that starts the next one.
LEMMA AcceptGoesOn ==
    ASSUME SInv, ~Terminated, NEW p \in Packets, p.op = "accept",
           port # <<>>, p = Head(port), port' = Tail(port),
           NEW s \in Seq(O), Same(pending, s),
           pending' = Append(s, Op("accept", p.conn)), starts' = starts
    PROVE  Accepts'
<1> DEFINE o == Op("accept", p.conn)
<1>1. /\ o \in O /\ p.conn \in Nat
      /\ \A k : (IsOp(p, "accept", k) <=> IsOp(o, "accept", k)) /\ (IsOp(p, "accept", k) <=> k = p.conn)
  BY DEF O, Operations, Packets, Op, IsOp
<1> HIDE DEF o
<1>2. port \in Seq(P) /\ pending' = Append(s, o) /\ Accepts
  BY AtHand DEF o, Rest
<1>3. ~None(port, "accept", p.conn)
  BY <1>1, <1>2, OpTail
<1>4. ASSUME NEW k \in 1 .. starts
      PROVE  \/ None(port', "accept", k) /\ One(pending', "accept", k)
             \/ One(port', "accept", k) /\ None(pending', "accept", k)
  <2>1. \/ None(port, "accept", k) /\ One(pending, "accept", k)
        \/ One(port, "accept", k) /\ None(pending, "accept", k)
    BY <1>2 DEF Accepts
  <2>2. \/ None(port, "accept", k) /\ One(s, "accept", k)
        \/ One(port, "accept", k) /\ None(s, "accept", k)
    BY <2>1 DEF Same
  <2>3. CASE IsOp(p, "accept", k)
    BY <1>1, <1>2, <2>2, <2>3, OpTail, OpAppend
  <2>4. CASE ~IsOp(p, "accept", k)
    BY <1>1, <1>2, <2>2, <2>4, OpTail, OpAppend
  <2>5. QED
    BY <2>3, <2>4
<1>5. ASSUME NEW k \in Nat, k > starts PROVE None(port', "accept", k) /\ None(pending', "accept", k)
  <2>1. None(port, "accept", k) /\ None(pending, "accept", k)
    BY <1>2, <1>5 DEF Accepts
  <2>2. None(s, "accept", k) /\ ~IsOp(p, "accept", k)
    BY <1>1, <1>3, <2>1 DEF Same
  <2>3. QED
    BY <1>1, <1>2, <2>1, <2>2, OpTail, OpAppend
<1>6. QED
  BY <1>4, <1>5 DEF Accepts

LEMMA AcceptDeniedStep ==
    ASSUME SInv, NEW p, Handling(p), AcceptDenied(p)
    PROVE  SInv'
<1> DEFINE o == Op("accept", p.conn)
<1>1. p.op = "accept" /\ Handle(<<>>, <<o>>) /\ UNCHANGED server
  BY DEF AcceptDenied
<1>2. p \in Packets
  <2>1. pc["Context"] = "DoOne" /\ port # <<>> /\ p = Head(port) /\ p # StopEvent
    BY DEF Handling
  <2>2. port \in Seq(P)
    BY <2>1, Running, AtHand DEF Threads
  <2>3. QED
    BY <2>1, <2>2, TailFacts DEF P
<1>3. o \in O
  BY <1>2 DEF O, Operations, Op, Packets
<1>4. <<o>> \in Seq(O)
  BY <1>3
<1>5. /\ CNext /\ ~Terminated /\ ~Terminated'
      /\ port \in Seq(P) /\ pending \in Seq(O) /\ port # <<>> /\ p = Head(port)
      /\ port' = Tail(port) /\ pending' = pending \o <<o>>
      /\ pc' \in [Threads -> Labels] /\ pc'["App"] = pc["App"]
      /\ pc'["App"] \in AppLabels /\ pc'["Context"] \in ContextLabels
  BY <1>1, <1>4, Handled
<1>6. pending' = Append(pending, o)
  BY <1>3, <1>5, AppendIsConcat
<1>7. UNCHANGED quiet /\ starts' = starts
  BY <1>1 DEF quiet, server
<1>8. Accepts'
  BY <1>1, <1>2, <1>5, <1>6, <1>7, SameSame, AcceptGoesOn
<1>9. ServerTypeOK'
  BY <1>1, <1>5, AtHand DEF ServerTypeOK, server, Labels
<1>10. QED
  BY <1>5, <1>7, <1>8, <1>9, QuietStep

\* The client that is allowed is new in every respect.
LEMMA Allowed ==
    ASSUME SInv, ~Terminated, Len(ids) < MaxClients, NEW c, c = Len(ids) + 1,
           ids' = Append(ids, m_NextClientID), m_Clients' = Append(m_Clients, c),
           m_NextClientID' = m_NextClientID + 1
    PROVE  /\ c \in Connections /\ c \notin DOMAIN ids /\ m_NextClientID = c
           /\ DOMAIN ids' = DOMAIN ids \cup {c} /\ ids'[c] = c
           /\ \A d \in DOMAIN ids : ids'[d] = ids[d]
           /\ ids' \in Seq(Nat) /\ Len(ids') = c
           /\ m_Clients' \in Seq(Connections) /\ IsInjective(m_Clients')
           /\ DOMAIN m_Clients' = DOMAIN m_Clients \cup {Len(m_Clients) + 1}
           /\ m_Clients'[Len(m_Clients) + 1] = c
           /\ \A i \in DOMAIN m_Clients : m_Clients'[i] = m_Clients[i]
           /\ Registered'
<1>1. /\ ids \in Seq(Nat) /\ m_Clients \in Seq(Connections) /\ IsInjective(m_Clients)
      /\ Registered /\ Len(ids) \in Nat
  BY AtHand, SeqFacts DEF Rest
<1>2. c \in Connections /\ m_NextClientID = c /\ c \in Nat
  BY <1>1, BoundsAssumption DEF Connections, Registered
<1>3. /\ DOMAIN ids' = DOMAIN ids \cup {c} /\ ids'[c] = c /\ c \notin DOMAIN ids
      /\ \A d \in DOMAIN ids : ids'[d] = ids[d]
      /\ ids' \in Seq(Nat)
  BY <1>1, <1>2, AppendFacts
<1>4. Len(ids') = c
  BY <1>1, <1>2, AppendProperties
<1>5. /\ m_Clients' \in Seq(Connections)
      /\ DOMAIN m_Clients' = DOMAIN m_Clients \cup {Len(m_Clients) + 1}
      /\ Len(m_Clients) + 1 \notin DOMAIN m_Clients
      /\ m_Clients'[Len(m_Clients) + 1] = c
      /\ \A i \in DOMAIN m_Clients : m_Clients'[i] = m_Clients[i]
  BY <1>1, <1>2, AppendFacts
<1>6. IsInjective(m_Clients')
  <2>1. \A i \in DOMAIN m_Clients : m_Clients'[i] # c
    BY <1>1, <1>3, <1>5 DEF Registered
  <2>2. QED
    BY <1>1, <1>5, <2>1 DEF IsInjective
<1>7. Registered'
  <2>1. m_NextClientID' = Len(ids') + 1
    BY <1>2, <1>4
  <2>2. \A d \in DOMAIN ids' : ids'[d] = d
    BY <1>1, <1>3 DEF Registered
  <2>3. \A i \in DOMAIN m_Clients' : m_Clients'[i] \in DOMAIN ids'
    BY <1>1, <1>3, <1>5 DEF Registered
  <2>4. QED
    BY <2>1, <2>2, <2>3 DEF Registered
<1>8. QED
  BY <1>2, <1>3, <1>4, <1>5, <1>6, <1>7

LEMMA AcceptAllowedStep ==
    ASSUME SInv, NEW p, Handling(p), AcceptAllowed(p)
    PROVE  SInv'
<1> DEFINE c == Len(ids) + 1
           o == Op("accept", p.conn)
           q == Op("chain", c)
           l == Len(m_Clients) + 1
<1>1. /\ p.op = "accept" /\ Len(ids) < MaxClients /\ Handle(<<>>, <<q, o>>)
      /\ m_Clients' = Append(m_Clients, c)
      /\ audience' = IF Len(m_Clients') < Len(m_Clients) THEN {} ELSE audience
      /\ ids' = Append(ids, m_NextClientID) /\ m_NextClientID' = m_NextClientID + 1
      /\ UNCHANGED <<starts, incoming, received, current, iteration, sentTo, outgoing>>
  BY DEF AcceptAllowed, ChangeClients
<1>2. p \in Packets /\ ~Terminated
  <2>1. pc["Context"] = "DoOne" /\ port # <<>> /\ p = Head(port) /\ p # StopEvent
    BY DEF Handling
  <2>2. port \in Seq(P) /\ ~Terminated
    BY <2>1, Running, AtHand DEF Threads
  <2>3. QED
    BY <2>1, <2>2, TailFacts DEF P
<1>3. /\ c \in Connections /\ c \notin DOMAIN ids
      /\ DOMAIN ids' = DOMAIN ids \cup {c} /\ ids' \in Seq(Nat) /\ Len(ids') = c
      /\ m_Clients' \in Seq(Connections) /\ IsInjective(m_Clients')
      /\ DOMAIN m_Clients' = DOMAIN m_Clients \cup {l} /\ m_Clients'[l] = c
      /\ \A i \in DOMAIN m_Clients : m_Clients'[i] = m_Clients[i]
      /\ Registered'
  BY <1>1, <1>2, Allowed
<1>4. o \in O /\ q \in O /\ q.op # "accept"
  <2>1. c \in Nat \ {Nobody}
    BY <1>3 DEF Connections, Nobody
  <2> HIDE DEF c
  <2>2. QED
    BY <1>2, <2>1 DEF O, Operations, Op, Packets
<1>5. <<q, o>> \in Seq(O) /\ <<q>> \in Seq(O)
  <2> HIDE DEF q, o
  <2>1. QED
    BY <1>4
<1>6. /\ CNext /\ ~Terminated' /\ Rest
      /\ port \in Seq(P) /\ pending \in Seq(O) /\ port # <<>> /\ p = Head(port)
      /\ port' = Tail(port) /\ pending' = pending \o <<q, o>>
      /\ pc' \in [Threads -> Labels] /\ pc'["App"] = pc["App"]
      /\ pc'["App"] \in AppLabels /\ pc'["Context"] \in ContextLabels
  BY <1>1, <1>5, Handled
<1> DEFINE s == Append(pending, q)
<1>7. s \in Seq(O) /\ Same(pending, s)
  BY <1>4, <1>6, AppendProperties, SameAppend
<1>8. pending' = Append(s, o)
  <2> HIDE DEF q, o
  <2>1. s = pending \o <<q>>
    BY <1>4, <1>6, AppendIsConcat
  <2>2. Append(s, o) = s \o <<o>>
    BY <1>4, <1>7, AppendIsConcat
  <2>3. <<q, o>> = <<q>> \o <<o>> /\ <<o>> \in Seq(O)
    BY <1>4
  <2>4. (pending \o <<q>>) \o <<o>> = pending \o (<<q>> \o <<o>>)
    BY <1>5, <1>6, <2>3, ConcatAssociative
  <2>5. QED
    BY <1>6, <2>1, <2>2, <2>3, <2>4
<1> HIDE DEF s
<1>9. Accepts'
  BY <1>1, <1>2, <1>6, <1>7, <1>8, AcceptGoesOn
<1> HIDE DEF c, o, q, l
<1>10. audience' = audience
  <2>1. Len(m_Clients') = Len(m_Clients) + 1 /\ Len(m_Clients) \in Nat
    BY <1>1, <1>2, <1>3, AtHand, AppendProperties
  <2>2. ~(Len(m_Clients') < Len(m_Clients))
    BY <2>1
  <2>3. QED
    BY <1>1, <2>2
<1>11. ServerTypeOK'
  <2>1. Len(ids') <= MaxClients /\ m_NextClientID' \in Nat
    <3>1. Len(ids) \in Nat /\ m_NextClientID \in Nat
      BY <1>2, AtHand, SeqFacts
    <3>2. QED
      BY <1>1, <1>3, <3>1, BoundsAssumption DEF c
  <2>2. /\ starts \in 0 .. MaxInputs /\ received \in 0 .. MaxInputs
        /\ incoming \in Seq(OwnedMessages) /\ current \in OwnedMessages \cup {NoMessage}
        /\ iteration \in [next : Nat, last : Nat] /\ audience \subseteq Connections
        /\ sentTo \in [Connections -> Seq(OwnedMessages)]
        /\ outgoing \in [Connections -> Nat]
        /\ current.from # Nobody <=> pc["App"] = "MessageAll"
    BY <1>2, AtHand
  <2>3. QED
    BY <1>1, <1>3, <1>6, <1>10, <2>1, <2>2 DEF ServerTypeOK, Labels
<1>12. Contents'
  <2>1. Heard \subseteq Heard' /\ \A d : Answers(d) \subseteq Answers(d)'
    BY <1>3 DEF Heard, Answers
  <2>2. incoming \in Seq(Heard') /\ \A d \in Connections : sentTo[d] \in Seq(Answers(d)')
    BY <1>6, <2>1, SeqMonotonic DEF Rest, Contents
  <2>3. QED
    BY <1>1, <1>3, <1>6, <2>2 DEF Rest, Contents
<1>13. Numbers'
  <2>1. Numbers
    BY <1>6 DEF Rest
  <2>2. Used(sentTo[c]) = {}
    <3>1. sentTo[c] = <<>>
      BY <1>3, <2>1 DEF Numbers
    <3>2. QED
      BY <3>1 DEF Used
  <2>3. ASSUME pc["App"] = "MessageAll", NEW i \in DOMAIN m_Clients', i >= iteration.next
        PROVE  current.number \notin Used(sentTo[m_Clients'[i]])
    BY <1>3, <2>1, <2>2, <2>3 DEF Numbers
  <2>4. \A d \in Connections : d \notin DOMAIN ids' => sentTo[d] = <<>>
    BY <1>3, <2>1 DEF Numbers
  <2>5. UNCHANGED <<incoming, received, current, sentTo, iteration>>
        /\ (pc'["App"] = "MessageAll" => pc["App"] = "MessageAll")
    BY <1>1, <1>6
  <2>6. QED
    BY <2>1, <2>3, <2>4, <2>5 DEF Numbers
<1>14. Reachable'
  BY <1>1, <1>3, <1>6, <1>10 DEF Rest, Reachable
<1>15. QED
  BY <1>3, <1>6, <1>9, <1>11, <1>12, <1>13, <1>14, StepKeeps DEF Rest

LEMMA ChainReceivesStep ==
    ASSUME SInv, NEW p, Handling(p), NEW c \in DOMAIN ids, ChainReceives(p, c)
    PROVE  SInv'
<1> DEFINE n == received + 1
           o == Op("chain", c)
<1>1. /\ p.op = "chain" /\ Len(ids) + starts + received < MaxInputs /\ received' = n
      /\ Handle(<<>>, <<o>>)
      /\ UNCHANGED <<m_Clients, m_NextClientID, ids, starts, current, iteration,
                     audience, sentTo, outgoing>>
  BY DEF ChainReceives, membership, polling
<1>2. PICK m \in ClientMessages :
          incoming' = Append(incoming, [from |-> c, number |-> n, message |-> m])
  BY DEF ChainReceives
<1> DEFINE e == [from |-> c, number |-> n, message |-> m]
<1>3. o \in O /\ o.op # "accept"
  <2>1. ~Terminated
    BY Running DEF Handling, Threads
  <2>2. c \in Nat \ {Nobody}
    BY <2>1, Known
  <2>3. QED
    BY <2>2 DEF O, Operations, Op
<1>4. <<o>> \in Seq(O) /\ p.op # "accept"
  <2> HIDE DEF o
  <2>1. QED
    BY <1>1, <1>3
<1>5. /\ CNext /\ ~Terminated /\ ~Terminated' /\ Rest
      /\ pc' \in [Threads -> Labels] /\ pc'["App"] = pc["App"]
      /\ pc'["App"] \in AppLabels /\ pc'["Context"] \in ContextLabels
  BY <1>1, <1>4, Handled
<1>6. Same(port, port') /\ Same(pending, pending')
  <2> HIDE DEF o
  <2>1. \E q \in O : q.op # "accept" /\ <<o>> = <<q>>
    BY <1>3
  <2>2. QED
    BY <1>1, <1>4, <2>1, OtherHandled
<1>7. /\ received \in Nat /\ n \in 1 .. MaxInputs /\ n \notin 0 .. received
      /\ 0 .. received \subseteq 0 .. n /\ 1 .. received \subseteq 1 .. n /\ n \in 1 .. n
      /\ 1 .. received \subseteq 0 .. received
  <2>1. /\ received \in 0 .. MaxInputs /\ starts \in 0 .. MaxInputs /\ MaxInputs \in Nat
        /\ Len(ids) \in Nat
    BY <1>5, AtHand, SeqFacts, BoundsAssumption
  <2>2. received < MaxInputs
    BY <1>1, <2>1
  <2>3. QED
    BY <2>1, <2>2
<1>8. m \in Messages
  BY ReadUndoesWrite DEF ClientMessages
<1> HIDE DEF n
<1>9. e \in OwnedMessages /\ e \in Heard /\ e.number = n
  <2>1. c \in Connections
    BY <1>5, Known
  <2>2. QED
    BY <1>7, <1>8, <2>1 DEF OwnedMessages, Heard
<1> HIDE DEF e
<1>10. incoming \in Seq(OwnedMessages) /\ incoming \in Seq(Heard) /\ Numbers
  BY <1>5, AtHand DEF Rest, Contents
<1>11. incoming' \in Seq(OwnedMessages) /\ incoming' \in Seq(Heard)
  BY <1>2, <1>9, <1>10, AppendFacts DEF e
<1>12. /\ Used(incoming') = Used(incoming) \cup {n}
       /\ Rising(incoming')
  <2>1. Before(Used(incoming), {n})
    BY <1>7, <1>10 DEF Numbers, Before
  <2>2. QED
    BY <1>2, <1>9, <1>10, <2>1, NumbersAppend DEF Numbers, e
<1>13. ServerTypeOK'
  <2>1. received' \in 0 .. MaxInputs
    BY <1>1, <1>7, BoundsAssumption
  <2>2. QED
    BY <1>1, <1>5, <1>11, <2>1, AtHand DEF ServerTypeOK, Labels
<1>14. Registered' /\ Contents'
  <2>1. Heard' = Heard /\ \A d : Answers(d)' = Answers(d)
    BY <1>1 DEF Heard, Answers
  <2>2. QED
    BY <1>1, <1>5, <1>11, <2>1 DEF Rest, Registered, Contents
<1>15. Numbers'
  <2>1. /\ Used(incoming') \subseteq 1 .. received'
        /\ current'.number \in 0 .. received' /\ Before({current'.number}, Used(incoming'))
    <3>1. /\ Used(incoming) \subseteq 1 .. received
          /\ current.number \in 0 .. received /\ Before({current.number}, Used(incoming))
      BY <1>10 DEF Numbers
    <3>2. QED
      BY <1>1, <1>7, <1>12, <3>1 DEF Before
  <2>2. ASSUME NEW d \in Connections
        PROVE  /\ Rising(sentTo'[d]) /\ Used(sentTo'[d]) \subseteq 1 .. received'
               /\ Before(Used(sentTo'[d]), Used(incoming'))
               /\ d \notin DOMAIN ids' => sentTo'[d] = <<>>
    <3>1. /\ Rising(sentTo[d]) /\ Used(sentTo[d]) \subseteq 1 .. received
          /\ Before(Used(sentTo[d]), Used(incoming))
          /\ d \notin DOMAIN ids => sentTo[d] = <<>>
      BY <1>10 DEF Numbers
    <3>2. QED
      BY <1>1, <1>7, <1>12, <3>1 DEF Before
  <2>3. pc'["App"] = "MessageAll" =>
          /\ \A d \in Connections : \A k \in Used(sentTo'[d]) : k <= current'.number
          /\ \A i \in DOMAIN m_Clients' :
                i >= iteration'.next => current'.number \notin Used(sentTo'[m_Clients'[i]])
    BY <1>1, <1>5, <1>10 DEF Numbers
  <2>4. QED
    BY <1>12, <2>1, <2>2, <2>3 DEF Numbers
<1>16. Reachable'
  BY <1>1, <1>5 DEF Rest, Reachable
<1>17. Accepts'
  BY <1>1, <1>5, <1>6, AcceptsQuiet
<1>18. QED
  BY <1>5, <1>13, <1>14, <1>15, <1>16, <1>17, StepKeeps DEF Rest

LEMMA DisconnectsStep ==
    ASSUME SInv, NEW p, Handling(p), NEW c \in DOMAIN ids, Disconnects(p, c)
    PROVE  SInv'
<1>1. /\ p.op # "accept" /\ Handle(<<>>, <<>>)
      /\ m_Clients' = RemoveFirst(m_Clients, c)
      /\ audience' = IF Len(m_Clients') < Len(m_Clients) THEN {} ELSE audience
      /\ UNCHANGED <<m_NextClientID, ids, starts, incoming, received, current,
                     iteration, sentTo, outgoing>>
  BY DEF Disconnects, ChangeClients
<1>2. <<>> \in Seq(O)
  OBVIOUS
<1>3. /\ CNext /\ ~Terminated /\ ~Terminated' /\ Rest
      /\ pc' \in [Threads -> Labels] /\ pc'["App"] = pc["App"]
      /\ pc'["App"] \in AppLabels /\ pc'["Context"] \in ContextLabels
  BY <1>1, <1>2, Handled
<1>4. Same(port, port') /\ Same(pending, pending')
  BY <1>1, OtherHandled
<1>5. m_Clients \in Seq(Connections) /\ IsInjective(m_Clients)
  BY <1>3, AtHand
<1>6. /\ m_Clients' \in Seq(Connections) /\ IsInjective(m_Clients')
      /\ \A i \in DOMAIN m_Clients' :
            \E j \in DOMAIN m_Clients : i <= j /\ m_Clients'[i] = m_Clients[j]
      /\ m_Clients' = m_Clients \/ Len(m_Clients') < Len(m_Clients)
  BY <1>1, <1>5, ClientsWithout
<1>7. audience' = {} \/ (m_Clients' = m_Clients /\ audience' = audience)
  <2>1. CASE Len(m_Clients') < Len(m_Clients)
    BY <1>1, <2>1
  <2>2. CASE ~(Len(m_Clients') < Len(m_Clients))
    BY <1>1, <1>6, <2>2
  <2>3. QED
    BY <2>1, <2>2
<1>8. ServerTypeOK'
  <2>1. /\ ids \in Seq(Nat) /\ Len(ids) <= MaxClients /\ m_NextClientID \in Nat
        /\ starts \in 0 .. MaxInputs /\ received \in 0 .. MaxInputs
        /\ incoming \in Seq(OwnedMessages) /\ current \in OwnedMessages \cup {NoMessage}
        /\ iteration \in [next : Nat, last : Nat] /\ audience \subseteq Connections
        /\ sentTo \in [Connections -> Seq(OwnedMessages)]
        /\ outgoing \in [Connections -> Nat]
        /\ current.from # Nobody <=> pc["App"] = "MessageAll"
    BY <1>3, AtHand
  <2>2. audience' \subseteq Connections
    BY <1>7, <2>1
  <2>3. QED
    BY <1>1, <1>3, <1>6, <2>1, <2>2 DEF ServerTypeOK, Labels
<1>9. Registered'
  <2>1. Registered
    BY <1>3 DEF Rest
  <2>2. QED
    BY <1>1, <1>6, <2>1 DEF Registered
<1>10. Contents'
  <2>1. Heard' = Heard /\ \A d : Answers(d)' = Answers(d)
    BY <1>1 DEF Heard, Answers
  <2>2. QED
    BY <1>1, <1>3, <2>1 DEF Rest, Contents
<1>11. Numbers'
  <2>1. Numbers
    BY <1>3 DEF Rest
  <2>2. ASSUME pc["App"] = "MessageAll", NEW i \in DOMAIN m_Clients', i >= iteration.next
        PROVE  current.number \notin Used(sentTo[m_Clients'[i]])
    <3>1. PICK j \in DOMAIN m_Clients : i <= j /\ m_Clients'[i] = m_Clients[j]
      BY <1>6
    <3>2. iteration.next \in Nat /\ i \in Nat /\ j \in Nat
      <4>1. iteration.next \in Nat
        BY <1>3, AtHand
      <4>2. DOMAIN m_Clients' = 1 .. Len(m_Clients') /\ DOMAIN m_Clients = 1 .. Len(m_Clients)
        BY <1>5, <1>6, SeqFacts
      <4>3. QED
        BY <4>1, <4>2
    <3>3. j >= iteration.next
      BY <2>2, <3>1, <3>2
    <3>4. QED
      BY <2>1, <2>2, <3>1, <3>3 DEF Numbers
  <2>3. QED
    BY <1>1, <1>3, <2>1, <2>2 DEF Numbers
<1>12. Reachable'
  <2>1. Reachable
    BY <1>3 DEF Rest
  <2>2. CASE audience' = {}
    BY <1>1, <2>1, <2>2 DEF Reachable
  <2>3. CASE m_Clients' = m_Clients /\ audience' = audience
    BY <1>1, <1>3, <2>1, <2>3 DEF Reachable
  <2>4. QED
    BY <1>7, <2>2, <2>3
<1>13. Accepts'
  BY <1>1, <1>3, <1>4, AcceptsQuiet
<1>14. QED
  BY <1>3, <1>8, <1>9, <1>10, <1>11, <1>12, <1>13, StepKeeps DEF Rest

\* A handler that runs on a connection of the server.
LEMMA HandlerKeeps ==
    ASSUME SInv, NEW p, Handling(p), NEW c \in DOMAIN ids, Handler(p, c)
    PROVE  SInv'
<1>1. ~Terminated
  BY Running DEF Handling, Threads
<1>2. c \in Connections /\ c \in Nat \ {Nobody} /\ outgoing \in [Connections -> Nat]
  BY <1>1, Known, AtHand
<1>3. ASSUME NEW kind \in {"chain", "write"}
      PROVE  Op(kind, c) \in O /\ Op(kind, c).op # "accept"
  BY <1>2, <1>3 DEF O, Operations, Op
<1> DEFINE n == outgoing[c]
<1>4. n \in Nat
  BY <1>2
<1>5. CASE ChainGoesOn(p, c)
  <2>1. p.op # "accept" /\ Handle(<<>>, <<Op("chain", c)>>) /\ UNCHANGED server
    BY <1>5 DEF ChainGoesOn
  <2>2. UNCHANGED quiet /\ starts' = starts /\ outgoing' \in [Connections -> Nat]
    BY <1>2, <2>1 DEF quiet, server
  <2>3. \E o \in O : o.op # "accept" /\ <<Op("chain", c)>> = <<o>>
    BY <1>3
  <2>4. QED
    BY <2>1, <2>2, <2>3, QuietHandler
<1>6. CASE SendLambda(p, c)
  <2> DEFINE started == IF n = 0 THEN <<Op("write", c)>> ELSE <<>>
  <2>1. /\ p.op # "accept" /\ Handle(<<>>, started) /\ UNCHANGED quiet /\ starts' = starts
        /\ outgoing' = [outgoing EXCEPT ![c] = n + 1]
    BY <1>6 DEF SendLambda, quiet, membership, polling
  <2>2. started = <<>> \/ \E o \in O : o.op # "accept" /\ started = <<o>>
    BY <1>3
  <2>3. outgoing' \in [Connections -> Nat]
    BY <1>2, <1>4, <2>1
  <2> HIDE DEF started
  <2>4. QED
    BY <2>1, <2>2, <2>3, QuietHandler
<1>7. CASE Written(p, c)
  <2> DEFINE started == IF n > 1 THEN <<Op("write", c)>> ELSE <<>>
  <2>1. /\ p.op # "accept" /\ Handle(<<>>, started) /\ UNCHANGED quiet /\ starts' = starts
        /\ outgoing' = [outgoing EXCEPT ![c] = n - 1] /\ n > 0
    BY <1>7 DEF Written, quiet, membership, polling
  <2>2. started = <<>> \/ \E o \in O : o.op # "accept" /\ started = <<o>>
    BY <1>3
  <2>3. n - 1 \in Nat
    BY <1>4, <2>1
  <2>4. outgoing' \in [Connections -> Nat]
    BY <1>2, <2>1, <2>3
  <2> HIDE DEF started
  <2>5. QED
    BY <2>1, <2>2, <2>4, QuietHandler
<1>8. CASE WrittenEmpty(p, c)
  <2>1. p.op # "accept" /\ UNCHANGED server
    BY <1>8 DEF WrittenEmpty
  <2>2. CASE Terminate /\ UNCHANGED cvars
    BY <2>1, <2>2, TerminationKeeps
  <2>3. CASE \E started \in {<<Op("write", c)>>, <<>>} : Handle(<<>>, started)
    <3>1. PICK started \in {<<Op("write", c)>>, <<>>} : Handle(<<>>, started)
      BY <2>3
    <3>2. started = <<>> \/ \E o \in O : o.op # "accept" /\ started = <<o>>
      BY <1>3, <3>1
    <3>3. UNCHANGED quiet /\ starts' = starts /\ outgoing' \in [Connections -> Nat]
      BY <1>2, <2>1 DEF quiet, server
    <3>4. QED
      BY <2>1, <3>1, <3>2, <3>3, QuietHandler
  <2>4. QED
    BY <1>8, <2>2, <2>3 DEF WrittenEmpty, cvars
<1>9. QED
  BY <1>5, <1>6, <1>7, <1>8, ChainReceivesStep, DisconnectsStep DEF Handler

LEMMA StaleHandlerKeeps ==
    ASSUME SInv, NEW p, Handling(p), p.op # "accept", StaleHandler(p)
    PROVE  SInv'
<1>1. ASSUME Terminate, UNCHANGED <<port, pending, outstanding_work, stopped,
                                    stop_event_posted, server>>
      PROVE  SInv'
  <2>1. UNCHANGED cvars /\ UNCHANGED server
    BY <1>1 DEF cvars
  <2>2. QED
    BY <1>1, <2>1, TerminationKeeps
<1>2. ASSUME Handle(<<>>, <<>>), UNCHANGED server PROVE SInv'
  <2>1. UNCHANGED quiet /\ starts' = starts /\ outgoing' \in [Connections -> Nat]
    <3>1. ~Terminated
      BY Running DEF Handling, Threads
    <3>2. QED
      BY <1>2, <3>1, AtHand DEF quiet, server
  <2>2. QED
    BY <1>2, <2>1, QuietHandler
<1>3. ASSUME NEW c \in DOMAIN ids, Handler(p, c) PROVE SInv'
  BY <1>3, HandlerKeeps
<1>4. QED
  BY <1>1, <1>2, <1>3 DEF StaleHandler

LEMMA HandlerStepKeeps == ASSUME SInv, HandlerStep PROVE SInv'
<1>1. PICK p \in ToSet(port) :
          /\ Handling(p)
          /\ \/ AcceptAllowed(p) \/ AcceptDenied(p) \/ AcceptThrows(p)
             \/ /\ p.op # "accept"
                /\ IF Alive(p.conn) THEN Handler(p, p.conn) ELSE StaleHandler(p)
             \/ /\ p.op \in {"accept", "chain", "write"}
                /\ RaceCrashes
  BY DEF HandlerStep
<1>2. ~Terminated
  BY <1>1, Running DEF Handling, Threads
<1>3. p.conn # Nobody
  <2>1. port \in Seq(P) /\ port # <<>> /\ p = Head(port) /\ p # StopEvent
    BY <1>1, <1>2, AtHand DEF Handling
  <2>2. p \in Packets
    BY <2>1, TailFacts DEF P
  <2>3. QED
    BY <2>2 DEF Packets
<1>4. CASE AcceptThrows(p) \/ RaceCrashes
  <2>1. Terminate /\ UNCHANGED cvars /\ UNCHANGED server
    BY <1>4 DEF AcceptThrows, RaceCrashes, cvars
  <2>2. QED
    BY <2>1, TerminationKeeps
<1>5. CASE p.op # "accept" /\ Alive(p.conn) /\ Handler(p, p.conn)
  BY <1>1, <1>2, <1>3, <1>5, Known, HandlerKeeps
<1>6. CASE p.op # "accept" /\ StaleHandler(p)
  BY <1>1, <1>6, StaleHandlerKeeps
<1>7. QED
  BY <1>1, <1>4, <1>5, <1>6, AcceptAllowedStep, AcceptDeniedStep

-----------------------------------------------------------------------------
(* The theorems.                                                            *)

LEMMA InitHolds == ASSUME Init PROVE SInv
<1>1. /\ port = <<>> /\ pending = <<>> /\ outstanding_work = 0 /\ stopped = FALSE
      /\ stop_event_posted = FALSE
      /\ pc = [t \in Threads |-> IF t = "App" THEN "Idle" ELSE "None"]
      /\ m_Clients = <<>> /\ m_NextClientID = 1 /\ ids = <<>> /\ starts = 0
      /\ incoming = <<>> /\ received = 0 /\ current = NoMessage
      /\ iteration = [next |-> 1, last |-> 0] /\ audience = {}
      /\ sentTo = [c \in Connections |-> <<>>]
      /\ outgoing = [c \in Connections |-> 0]
  BY DEF Init, CInit
<1>2. pc["App"] = "Idle" /\ pc["Context"] = "None" /\ ~Terminated
  BY <1>1 DEF Threads, Terminated
<1>3. pc \in [Threads -> Labels]
      /\ pc["App"] \in AppLabels /\ pc["Context"] \in ContextLabels
  BY <1>1, <1>2 DEF Threads, AppLabels, ContextLabels, Labels
<1>4. ContextTypeOK(P, O)
  <2>1. <<>> \in Seq(P) /\ <<>> \in Seq(O)
    OBVIOUS
  <2>2. QED
    BY <1>1, <2>1 DEF ContextTypeOK
<1>5. current.from = Nobody /\ current.number = 0
  BY <1>1 DEF NoMessage
<1>6. DOMAIN <<>> = {} /\ Len(<<>>) = 0
  OBVIOUS
<1>7. ServerTypeOK
  <2>1. /\ <<>> \in Seq(Connections) /\ <<>> \in Seq(Nat) /\ <<>> \in Seq(OwnedMessages)
        /\ IsInjective(<<>>)
    BY <1>6 DEF IsInjective
  <2>2. 0 \in 0 .. MaxInputs /\ 0 <= MaxClients
    BY BoundsAssumption
  <2>3. /\ sentTo \in [Connections -> Seq(OwnedMessages)]
        /\ outgoing \in [Connections -> Nat]
    BY <1>1, <2>1
  <2>4. /\ m_Clients \in Seq(Connections) /\ IsInjective(m_Clients)
        /\ ids \in Seq(Nat) /\ Len(ids) <= MaxClients /\ m_NextClientID \in Nat
        /\ starts \in 0 .. MaxInputs /\ received \in 0 .. MaxInputs
        /\ incoming \in Seq(OwnedMessages) /\ current \in OwnedMessages \cup {NoMessage}
        /\ iteration \in [next : Nat, last : Nat] /\ audience \subseteq Connections
    BY <1>1, <1>6, <2>1, <2>2
  <2>5. QED
    BY <1>2, <1>3, <1>5, <2>3, <2>4 DEF ServerTypeOK, Labels
<1>8. Registered
  BY <1>1, <1>6 DEF Registered
<1>9. Contents
  <2>1. \A S : <<>> \in Seq(S)
    OBVIOUS
  <2>2. QED
    BY <1>1, <2>1 DEF Contents
<1>10. Numbers
  <2>1. Used(<<>>) = {} /\ Rising(<<>>)
    BY <1>6 DEF Used, Rising
  <2>2. 0 \in 0 .. 0
    OBVIOUS
  <2>3. QED
    BY <1>1, <1>2, <1>5, <2>1, <2>2 DEF Numbers, Before
<1>11. Reachable
  BY <1>1, <1>2 DEF Reachable
<1>12. Accepts
  BY <1>1, <1>6 DEF Accepts, None
<1>13. CInv
  <2>1. ~StopQueued
    BY <1>1 DEF StopQueued
  <2>2. Len(pending) = 0 /\ Len(port) = 0
    BY <1>1
  <2>3. WorkCounted
    BY <1>1, <1>2, <2>1, <2>2 DEF WorkCounted
  <2>4. StopEventOnce
    BY <1>1, <1>2, <2>1 DEF StopEventOnce
  <2>5. StopNotLost
    BY <1>1 DEF StopNotLost
  <2>6. QED
    BY <2>3, <2>4, <2>5 DEF CInv
<1>14. QED
  BY <1>4, <1>7, <1>8, <1>9, <1>10, <1>11, <1>12, <1>13 DEF Rest, SInv

\* SInv holds in every state of the server, whatever the threads, the system and the
\* clients do.
THEOREM ServerInvariant == Spec => []SInv
<1>1. Init => SInv
  BY InitHolds
<1>2. SInv /\ [Next]_vars => SInv'
  <2> SUFFICES ASSUME SInv, [Next]_vars PROVE SInv'
    OBVIOUS
  <2>1. CASE CallStart \/ CallStop \/ BouncePing \/ RelayMessage
    BY <2>1, CallStartStep, CallStopStep, BouncePingStep, RelayMessageStep
  <2>2. CASE AppStep
    BY <2>2, StartThreadStep, AppStopStepKeeps, JoinThreadStep, MessageElementStep,
       MessageErasedStep, MessageEndStep DEF AppStep
  <2>3. CASE ThreadStep
    BY <2>3, ContextStepKeeps, HandlerStepKeeps DEF ThreadStep
  <2>4. CASE \E i \in DOMAIN pending : SystemCompletes(i)
    BY <2>4, SystemCompletesKeeps
  <2>5. CASE UNCHANGED vars
    BY <2>5, StutterKeeps
  <2>6. QED
    BY <2>1, <2>2, <2>3, <2>4, <2>5 DEF Next
<1>3. QED
  BY <1>1, <1>2, PTL DEF Spec

\* Types and bounds; PollMessages holds a message only while OnMessage runs.
THEOREM ServerTypeCorrect == Spec => []TypeOK
<1>1. SInv => TypeOK
  BY DEF SInv, Rest, TypeOK, P, O
<1>2. QED
  BY <1>1, ServerInvariant, PTL

\* Every Start keeps waiting for a client, with one accept, pending or queued.
THEOREM ServerAcceptsForever == Spec => []AcceptsForever
<1>1. SInv => AcceptsForever
  <2> SUFFICES ASSUME SInv, ~Terminated, NEW k \in 1 .. starts
               PROVE  \/ /\ AcceptQueued(k) = {}
                         /\ \E i \in DOMAIN pending : AcceptPending(k) = {i}
                      \/ /\ AcceptPending(k) = {}
                         /\ \E i \in DOMAIN port : AcceptQueued(k) = {i}
    BY DEF AcceptsForever
  <2>1. pending \in Seq(O) /\ Accepts
    BY AtHand DEF Rest
  <2>2. AcceptQueued(k) = {i \in DOMAIN port : IsOp(port[i], "accept", k)}
    BY DEF AcceptQueued, IsOp
  <2>3. AcceptPending(k) = {i \in DOMAIN pending : IsOp(pending[i], "accept", k)}
    <3>1. \A o \in O : o = Op("accept", k) <=> IsOp(o, "accept", k)
      BY DEF O, Operations, Op, IsOp
    <3>2. \A i \in DOMAIN pending : pending[i] \in O
      BY <2>1, SeqFacts
    <3>3. QED
      BY <3>1, <3>2 DEF AcceptPending
  <2>4. \/ None(port, "accept", k) /\ One(pending, "accept", k)
        \/ One(port, "accept", k) /\ None(pending, "accept", k)
    BY <2>1 DEF Accepts
  <2>5. CASE None(port, "accept", k) /\ One(pending, "accept", k)
    BY <2>2, <2>3, <2>5 DEF None, One
  <2>6. CASE One(port, "accept", k) /\ None(pending, "accept", k)
    BY <2>2, <2>3, <2>6 DEF None, One
  <2>7. QED
    BY <2>4, <2>5, <2>6
<1>2. QED
  BY <1>1, ServerInvariant, PTL

\* What a client is sent, answers and relayed messages together, has the order in which
\* the server received it, and nothing comes twice.
THEOREM ServerKeepsOrder == Spec => []SentInOrder
<1>1. SInv => SentInOrder
  BY DEF SInv, Rest, Numbers, Rising, SentInOrder
<1>2. QED
  BY <1>1, ServerInvariant, PTL

\* What a client has been sent.
LEMMA SentAre ==
    ASSUME SInv, NEW c \in Connections, NEW i \in DOMAIN sentTo[c]
    PROVE  sentTo[c][i] \in Answers(c)
<1>1. sentTo[c] \in Seq(Answers(c))
  BY DEF SInv, Rest, Contents
<1>2. QED
  BY <1>1, SeqFacts

LEMMA IdsAreNumbers == ASSUME SInv PROVE \A c \in DOMAIN ids : c \in Nat /\ ids[c] = c
<1>1. ids \in Seq(Nat) /\ Registered
  BY DEF SInv, Rest, ServerTypeOK
<1>2. QED
  BY <1>1, SeqFacts DEF Registered

\* The header of every message sent says the size of its body.
LEMMA SizesAreRight ==
    ASSUME SInv, NEW c \in Connections, NEW i \in DOMAIN sentTo[c]
    PROVE  SizeRight(sentTo[c][i].message)
<1> DEFINE s == sentTo[c][i]
<1>1. s.from \in DOMAIN ids /\ (s.message = Ping \/ s.message = Relayed(s.from))
  BY SentAre DEF Answers
<1>2. s.from \in Nat
  BY <1>1, IdsAreNumbers
<1> HIDE DEF s
<1>3. CASE s.message = Ping
  BY <1>3, ReadUndoesWrite DEF Ping, s
<1>4. CASE s.message = Relayed(s.from)
  BY <1>2, <1>4, ReadUndoesWrite DEF Relayed, s
<1>5. QED
  BY <1>1, <1>3, <1>4

\* A relayed message names its sender, who does not get it, and is otherwise intact: its
\* size is right, for any width of the size.
THEOREM ServerNamesSender == Spec => []RelayNamesSender
<1>1. SInv => RelayNamesSender
  <2> SUFFICES ASSUME SInv, NEW c \in Connections, NEW i \in DOMAIN sentTo[c],
                      sentTo[c][i].message.id = "relay"
               PROVE  LET s == sentTo[c][i]
                      IN  /\ s.from # c
                          /\ SizeRight(s.message)
                          /\ Read(s.message) = ids[s.from]
                          /\ AfterRead(s.message) \in ClientMessages
    BY DEF RelayNamesSender
  <2> DEFINE s == sentTo[c][i]
  <2>1. s \in Answers(c)
    BY SentAre
  <2>2. Ping.id = "ping"
    BY ReadUndoesWrite DEF Ping
  <2> HIDE DEF s, Ping
  <2>3. /\ s.from \in DOMAIN ids
        /\ s.message = Ping \/ (s.message = Relayed(s.from) /\ s.from # c)
    BY <2>1 DEF Answers
  <2>4. s.message = Relayed(s.from) /\ s.from # c
    BY <2>2, <2>3 DEF s
  <2>5. s.from \in Nat /\ ids[s.from] = s.from
    BY <2>3, IdsAreNumbers
  <2>6. Read(s.message) = s.from /\ AfterRead(s.message) = Empty("relay")
    BY <2>4, <2>5, ReadUndoesWrite DEF Relayed
  <2>7. SizeRight(s.message)
    BY SizesAreRight DEF s
  <2>8. QED
    BY <2>4, <2>5, <2>6, <2>7 DEF ClientMessages, s
<1>2. QED
  BY <1>1, ServerInvariant, PTL

\* MessageAll reaches everyone it should, unless a client is erased meanwhile.
THEOREM ServerReachesAll == Spec => []RelayReachesAll
<1>1. SInv => RelayReachesAll
  <2> SUFFICES ASSUME SInv, pc["App"] = "MessageAll", iteration.next > iteration.last,
                      NEW c \in audience
               PROVE  FALSE
    BY DEF RelayReachesAll
  <2>1. ~Terminated
    BY Running DEF Threads
  <2>2. m_Clients \in Seq(Connections) /\ iteration.next \in Nat /\ iteration.last \in Nat
    BY <2>1, AtHand
  <2>3. PICK i \in DOMAIN m_Clients : iteration.next <= i /\ i <= iteration.last
    BY <2>1, AtHand DEF Rest, Reachable
  <2>4. i \in Nat
    BY <2>2, SeqFacts
  <2>5. QED
    BY <2>2, <2>3, <2>4
<1>2. QED
  BY <1>1, ServerInvariant, PTL

-----------------------------------------------------------------------------
(* The refinement.                                                          *)

Members == {ids[c] : c \in ToSet(m_Clients)}

\* The IDs being the numbers of the connections, m_Clients lists the members.
LEMMA MembersAre ==
    /\ SInv => Members = ToSet(m_Clients) /\ m_NextClientID = Len(ids) + 1
    /\ SInv' => Members' = ToSet(m_Clients') /\ m_NextClientID' = Len(ids') + 1
<1>1. Registered => Members = ToSet(m_Clients) /\ m_NextClientID = Len(ids) + 1
  BY DEF Registered, Members, ToSet
<1>2. Registered' => Members' = ToSet(m_Clients') /\ m_NextClientID' = Len(ids') + 1
  BY DEF Registered, Members, ToSet
<1>3. QED
  BY <1>1, <1>2 DEF SInv, Rest

\* Only two handlers change m_Clients and the IDs.
LEMMA ClientsChange ==
    ASSUME SInv, [Next]_vars
    PROVE  \/ UNCHANGED membership
           \/ \E p : AcceptAllowed(p)
           \/ \E p : \E c \in DOMAIN ids : Disconnects(p, c)
<1>1. ASSUME NEW p, NEW c, Handler(p, c)
      PROVE  UNCHANGED membership \/ Disconnects(p, c)
  BY <1>1 DEF Handler, ChainGoesOn, ChainReceives, SendLambda, Written, WrittenEmpty, server,
     membership
<1>2. CASE HandlerStep
  <2>1. PICK p \in ToSet(port) :
            /\ Handling(p)
            /\ \/ AcceptAllowed(p) \/ AcceptDenied(p) \/ AcceptThrows(p)
               \/ /\ p.op # "accept"
                  /\ IF Alive(p.conn) THEN Handler(p, p.conn) ELSE StaleHandler(p)
               \/ /\ p.op \in {"accept", "chain", "write"}
                  /\ RaceCrashes
    BY <1>2 DEF HandlerStep
  <2>2. ~Terminated
    BY <2>1, Running DEF Handling, Threads
  <2>3. p.conn # Nobody
    <3>1. port \in Seq(P) /\ port # <<>> /\ p = Head(port) /\ p # StopEvent
      BY <2>1, <2>2, AtHand DEF Handling
    <3>2. p \in Packets
      BY <3>1, TailFacts DEF P
    <3>3. QED
      BY <3>2 DEF Packets
  <2>4. CASE AcceptDenied(p) \/ AcceptThrows(p) \/ RaceCrashes
    BY <2>4 DEF AcceptDenied, AcceptThrows, RaceCrashes, server, membership
  <2>5. CASE Alive(p.conn) /\ Handler(p, p.conn)
    BY <1>1, <2>2, <2>3, <2>5, Known
  <2>6. CASE StaleHandler(p)
    <3>1. \/ UNCHANGED server
          \/ \E c \in DOMAIN ids : Handler(p, c)
      BY <2>6 DEF StaleHandler, server
    <3>2. QED
      BY <1>1, <3>1 DEF server, membership
  <2>7. QED
    BY <2>1, <2>4, <2>5, <2>6
<1>3. CASE AppStep \/ CallStart \/ CallStop \/ BouncePing \/ RelayMessage
  BY <1>3 DEF AppStep, StartThread, JoinThread, MessageElement, MessageErased, MessageEnd,
     CallStart, CallStop, BouncePing, RelayMessage, server, membership
<1>4. CASE UNCHANGED server
  BY <1>4 DEF server, membership
<1>5. QED
  BY <1>2, <1>3, <1>4 DEF Next, ThreadStep, SystemCompletes, vars

\* The server implements Membership: IDs are never given twice, and clients come and go
\* one at a time, with m_Clients a deque that is searched and shifted.
THEOREM ServerImplementsMembership == Spec => ImplementsMembership
<1>1. Init => Clients!Init
  <2> SUFFICES ASSUME Init PROVE Members = {} /\ m_NextClientID - 1 = 0
    BY DEF Clients!Init, Members
  <2>1. m_Clients = <<>> /\ m_NextClientID = 1
    BY DEF Init
  <2>2. ToSet(m_Clients) = {}
    BY <2>1 DEF ToSet
  <2>3. QED
    BY <2>1, <2>2 DEF Members
<1>2. SInv /\ SInv' /\ [Next]_vars => [Clients!Next]_<<Members, m_NextClientID - 1>>
  <2> SUFFICES ASSUME SInv, SInv', [Next]_vars
               PROVE  [Clients!Next]_<<Members, m_NextClientID - 1>>
    OBVIOUS
  <2>1. /\ Members = ToSet(m_Clients) /\ m_NextClientID = Len(ids) + 1
        /\ Members' = ToSet(m_Clients') /\ m_NextClientID' = Len(ids') + 1
    BY MembersAre
  <2>2. m_Clients \in Seq(Connections) /\ IsInjective(m_Clients) /\ m_NextClientID \in Nat
    BY DEF SInv, Rest, ServerTypeOK
  <2>3. CASE UNCHANGED membership
    BY <2>3 DEF membership, Members
  <2>4. ASSUME NEW p, AcceptAllowed(p) PROVE Clients!Join
    <3>1. /\ m_Clients' = Append(m_Clients, Len(ids) + 1)
          /\ m_NextClientID' = m_NextClientID + 1 /\ Len(ids) + 1 <= MaxClients
          /\ Len(ids) + 1 \in Connections
      <4>1. Len(ids) \in Nat
        BY SeqFacts DEF SInv, Rest, ServerTypeOK
      <4>2. QED
        BY <2>4, <4>1, BoundsAssumption DEF AcceptAllowed, ChangeClients, Connections
    <3> DEFINE c == Len(ids) + 1
    <3>2. /\ DOMAIN m_Clients' = DOMAIN m_Clients \cup {Len(m_Clients) + 1}
          /\ m_Clients'[Len(m_Clients) + 1] = c
          /\ \A i \in DOMAIN m_Clients : m_Clients'[i] = m_Clients[i]
      BY <2>2, <3>1, AppendFacts
    <3>3. m_NextClientID = c
      BY <2>1
    <3> HIDE DEF c
    <3>4. ToSet(m_Clients') = ToSet(m_Clients) \cup {c}
      BY <3>2 DEF ToSet
    <3>5. Members' = Members \cup {(m_NextClientID - 1) + 1}
      BY <2>1, <2>2, <3>3, <3>4
    <3>6. m_NextClientID' - 1 = (m_NextClientID - 1) + 1
      BY <2>2, <3>1
    <3>7. QED
      BY <3>5, <3>6 DEF Clients!Join, Members
  <2>5. ASSUME NEW p, NEW c, Disconnects(p, c)
        PROVE  [Clients!Next]_<<Members, m_NextClientID - 1>>
    <3>1. m_Clients' = RemoveFirst(m_Clients, c) /\ m_NextClientID' = m_NextClientID
      BY <2>5 DEF Disconnects, ChangeClients
    <3>2. ToSet(m_Clients') = ToSet(m_Clients) \ {c}
      BY <2>2, <3>1, ClientsWithout
    <3>3. Members' = Members \ {c}
      BY <2>1, <3>2
    <3>4. CASE c \in Members
      BY <3>1, <3>3, <3>4 DEF Clients!Next, Clients!Leave, Members
    <3>5. CASE c \notin Members
      BY <3>1, <3>3, <3>5
    <3>6. QED
      BY <3>4, <3>5
  <2>6. QED
    BY <2>3, <2>4, <2>5, ClientsChange DEF Clients!Next
<1>3. <<Members, m_NextClientID - 1>>
        = <<{ids[c] : c \in ToSet(m_Clients)}, m_NextClientID - 1>>
  BY DEF Members
<1>4. QED
  BY <1>1, <1>2, ServerInvariant, PTL DEF Spec, ImplementsMembership, Clients!Spec, Members

-----------------------------------------------------------------------------
(* Packets come up, Stop returns, who fails leaves.  The prover does not    *)
(* know when an action is ENABLED: the theorems ask for NobodyStuck, which *)
(* TLC checks.                                                              *)

LEMMA HandlerStepRuns ==
    ASSUME SInv, HandlerStep
    PROVE  Terminated' \/ (HandlerRuns(P) /\ pc'["App"] = pc["App"] /\ stopped' = stopped)
<1>1. PICK p \in ToSet(port) :
          /\ Handling(p)
          /\ \/ AcceptAllowed(p) \/ AcceptDenied(p) \/ AcceptThrows(p)
             \/ /\ p.op # "accept"
                /\ IF Alive(p.conn) THEN Handler(p, p.conn) ELSE StaleHandler(p)
             \/ /\ p.op \in {"accept", "chain", "write"}
                /\ RaceCrashes
  BY DEF HandlerStep
<1>2. ~Terminated
  BY <1>1, Running DEF Handling, Threads
<1>3. ASSUME NEW started, Handle(<<>>, started)
      PROVE  HandlerRuns(P) /\ pc'["App"] = pc["App"] /\ stopped' = stopped
  <2>1. pc \in [Threads -> Labels]
    BY <1>2, AtHand
  <2>2. pc'["Context"] = "WorkFinished" /\ pc'["App"] = pc["App"]
    BY <1>3, <2>1 DEF Handle, Goto, Threads
  <2>3. Handling(Head(port)) /\ <<>> \in Seq(P)
    BY <1>1 DEF Handling
  <2>4. port' = Tail(port) \o <<>> /\ stopped' = stopped
    BY <1>3 DEF Handle
  <2>5. QED
    BY <2>2, <2>3, <2>4 DEF HandlerRuns
<1>4. Terminate => Terminated'
  BY DEF Terminate, Terminated, Threads
<1>5. ASSUME NEW c, Handler(p, c) PROVE Terminate \/ \E started : Handle(<<>>, started)
  BY <1>5 DEF Handler, ChainGoesOn, ChainReceives, Disconnects, SendLambda, Written, WrittenEmpty
<1>6. CASE AcceptAllowed(p) \/ AcceptDenied(p)
  BY <1>3, <1>6 DEF AcceptAllowed, AcceptDenied
<1>7. CASE AcceptThrows(p) \/ RaceCrashes
  BY <1>4, <1>7 DEF AcceptThrows, RaceCrashes
<1>8. CASE StaleHandler(p)
  BY <1>3, <1>4, <1>5, <1>8 DEF StaleHandler
<1>9. CASE \E c : Handler(p, c)
  BY <1>3, <1>4, <1>5, <1>9
<1>10. QED
  BY <1>1, <1>6, <1>7, <1>8, <1>9

LEMMA OthersMove ==
    ASSUME SInv, [Next]_vars
    PROVE  ThreadStep \/ Terminated' \/ NotRunning \/ OthersPost(P)
<1>1. CASE Terminated
  BY <1>1 DEF NotRunning, Terminated
<1>2. CASE ~Terminated
  <2>1. /\ pc \in [Threads -> Labels] /\ port \in Seq(P) /\ pending \in Seq(O)
    BY <1>2, AtHand
  <2>2. \A label : Goto("App", label) => pc'["Context"] = pc["Context"]
    BY <2>1 DEF Goto, Threads
  <2>3. (pc' = pc \/ \E label : Goto("App", label)) => pc'["Context"] = pc["Context"]
    BY <2>2
  <2>4. ASSUME pc' = pc \/ \E label : Goto("App", label),
               port' = port \/ \E e \in P : port' = Append(port, e)
        PROVE  OthersPost(P)
    <3>1. CASE port' = port
      <4>1. port' = port \o <<>> /\ <<>> \in Seq(P)
        BY <2>1, <3>1
      <4>2. QED
        BY <2>3, <2>4, <4>1 DEF OthersPost
    <3>2. CASE \E e \in P : port' = Append(port, e)
      <4>1. PICK e \in P : port' = Append(port, e)
        BY <3>2
      <4>2. port' = port \o <<e>> /\ <<e>> \in Seq(P)
        BY <2>1, <4>1, AppendIsConcat
      <4>3. QED
        BY <2>3, <2>4, <4>2 DEF OthersPost
    <3>3. QED
      BY <2>4, <3>1, <3>2
  <2>5. StopEvent \in P
    BY PacketsFit DEF PacketsOf
  <2>6. ASSUME NEW c \in DOMAIN ids PROVE Packet(Op("send", c), TRUE) \in P
    <3>1. c \in Nat /\ c # Nobody
      BY <1>2, <2>6, Known
    <3>2. QED
      BY <3>1 DEF P, Packets, Packet, Op
  <2>7. CASE CallStart \/ CallStop \/ RelayMessage \/ UNCHANGED vars
    BY <2>4, <2>7 DEF CallStart, CallStop, RelayMessage, Start, vars, context
  <2>8. CASE BouncePing
    <3>1. Head(incoming).from \in DOMAIN ids
      BY <1>2, <2>8, Polled DEF BouncePing
    <3>2. QED
      BY <2>4, <2>6, <2>8, <3>1 DEF BouncePing, Post
  <2>9. CASE StartThread
    BY <2>9 DEF StartThread, NotRunning, Terminate, Terminated, Threads
  <2>10. CASE AppStopStep
    BY <2>4, <2>5, <2>10 DEF AppStopStep, StopFlag, PostStop, PostStopEvent
  <2>11. CASE JoinThread
    BY <2>11 DEF JoinThread, Join, NotRunning
  <2>12. CASE MessageElement
    <3>1. CASE m_Clients[iteration.next] = current.from
      BY <2>4, <2>12, <3>1 DEF MessageElement
    <3>2. CASE m_Clients[iteration.next] # current.from
      <4>1. m_Clients[iteration.next] \in DOMAIN ids
        <5>1. DOMAIN m_Clients = 1 .. Len(m_Clients) /\ Rest
          BY <1>2, AtHand, SeqFacts
        <5>2. iteration.next \in Nat /\ iteration.next > 0
          BY <1>2, <5>1, AtHand DEF Rest, Reachable
        <5>3. Len(m_Clients) \in Nat
          BY <1>2, AtHand, SeqFacts
        <5>4. iteration.next \in DOMAIN m_Clients
          BY <2>12, <5>1, <5>2, <5>3 DEF MessageElement
        <5>5. QED
          BY <5>1, <5>4 DEF Rest, Registered
      <4>2. QED
        BY <2>4, <2>6, <2>12, <3>2, <4>1 DEF MessageElement, Post
    <3>3. QED
      BY <3>1, <3>2
  <2>13. CASE MessageErased \/ MessageEnd
    BY <2>4, <2>13 DEF MessageErased, MessageEnd, Terminate, Terminated, Threads
  <2>14. CASE \E i \in DOMAIN pending : SystemCompletes(i)
    <3>1. PICK i \in DOMAIN pending, good \in BOOLEAN : Complete(i, good)
      BY <2>14 DEF SystemCompletes
    <3>2. pending[i] \in O
      BY <2>1, SeqFacts
    <3>3. Packet(pending[i], good) \in P
      BY <3>2, PacketsFit DEF PacketsOf
    <3>4. QED
      BY <2>4, <3>1, <3>3 DEF Complete
  <2>15. QED
    BY <2>7, <2>8, <2>9, <2>10, <2>11, <2>12, <2>13, <2>14 DEF Next, AppStep
<1>3. QED
  BY <1>1, <1>2

\* Whatever anyone does, a packet of the port stays there, and each step of the context's
\* thread brings it nearer, or the thread nearer to do_one.
LEMMA ComesNearer ==
    ASSUME SInv, [Next]_vars, NEW K, NEW n \in Nat, Within(K, n + 1), ~AtHead(K), ~NotRunning
    PROVE  \/ Within(K, n)' \/ NotRunning'
           \/ (~ThreadStep /\ Within(K, n + 1)' /\ pc'["Context"] = pc["Context"])
           \/ /\ Within(K, n + 1)'
              /\ \/ pc["Context"] \in Steps(1) /\ pc'["Context"] \in Steps(0)
                 \/ pc["Context"] \in Steps(2) /\ pc'["Context"] \in Steps(0) \cup Steps(1)
                 \/ /\ pc["Context"] \in Steps(3)
                    /\ pc'["Context"] \in Steps(0) \cup Steps(1) \cup Steps(2)
<1>1. ~Terminated
  BY DEF NotRunning, Terminated
<1>2. port \in Seq(P) /\ StopEvent \in P /\ pc \in [Threads -> Labels]
  BY <1>1, AtHand, PacketsFit DEF PacketsOf
<1>3. Terminated' => NotRunning'
  BY DEF NotRunning, Terminated
<1>4. n + 1 \in Nat
  OBVIOUS
<1>5. CASE ThreadStep /\ ContextStep
  BY <1>2, <1>5, ContextNearer
<1>6. CASE HandlerStep
  BY <1>2, <1>3, <1>6, HandlerStepRuns, HandlerNearer
<1>7. CASE ~ThreadStep
  <2>1. CASE OthersPost(P)
    <3>1. Within(K, n + 1)'
      BY <1>2, <1>4, <2>1, OthersKeepQueue
    <3>2. QED
      BY <1>7, <2>1, <3>1 DEF OthersPost
  <2>2. QED
    BY <1>3, <1>7, <2>1, OthersMove
<1>8. QED
  BY <1>5, <1>6, <1>7 DEF ThreadStep

LEMMA RunningSomewhere ==
    ASSUME SInv, ~NotRunning
    PROVE  \E k \in 0 .. 3 : pc["Context"] \in Steps(k)
<1>1. ~Terminated
  BY DEF NotRunning, Terminated
<1>2. pc["Context"] \in ContextLabels
  BY <1>1, AtHand
<1>3. /\ Steps(0) = {"DoOne", "Restart"} /\ Steps(1) = {"Run", "PostStop", "RepostStop"}
      /\ Steps(2) = {"CheckStopped", "StopFlag"} /\ Steps(3) = {"StopSeen", "WorkFinished"}
  BY DEF Steps
<1>4. 0 \in 0 .. 3 /\ 1 \in 0 .. 3 /\ 2 \in 0 .. 3 /\ 3 \in 0 .. 3
  OBVIOUS
<1>5. QED
  BY <1>2, <1>3, <1>4 DEF NotRunning, ContextLabels, InDoOne, InHandling, Leaving

\* A packet that is among the first n + 1 comes to be the next one or among the first n,
\* as long as the thread runs.
ComesUp(K, n) == Within(K, n + 1) ~> AtHead(K) \/ Within(K, n) \/ NotRunning

LEMMA PacketsComeUp ==
    ASSUME NEW K, NEW n \in Nat
    PROVE  Spec /\ []NobodyStuck => ComesUp(K, n)
<1> DEFINE There == Within(K, n + 1)
           Out == AtHead(K) \/ Within(K, n) \/ NotRunning
           Near0 == There /\ pc["Context"] \in Steps(0)
           Near1 == There /\ pc["Context"] \in Steps(1)
           Near2 == There /\ pc["Context"] \in Steps(2)
           Near3 == There /\ pc["Context"] \in Steps(3)
<1>1. /\ Steps(0) = {"DoOne", "Restart"} /\ Steps(1) = {"Run", "PostStop", "RepostStop"}
      /\ Steps(2) = {"CheckStopped", "StopFlag"} /\ Steps(3) = {"StopSeen", "WorkFinished"}
  BY DEF Steps
<1>2. ASSUME SInv, There, ~Out PROVE Near0 \/ Near1 \/ Near2 \/ Near3
  <2>1. PICK k \in 0 .. 3 : pc["Context"] \in Steps(k)
    BY <1>2, RunningSomewhere
  <2>2. k = 0 \/ k = 1 \/ k = 2 \/ k = 3
    OBVIOUS
  <2>3. QED
    BY <1>2, <2>1, <2>2
<1>3. ASSUME SInv, There, ~Out, [Next]_vars
      PROVE  \/ Out' \/ (~ThreadStep /\ There' /\ pc'["Context"] = pc["Context"])
             \/ /\ There'
                /\ \/ pc["Context"] \in Steps(1) /\ pc'["Context"] \in Steps(0)
                   \/ pc["Context"] \in Steps(2) /\ pc'["Context"] \in Steps(0) \cup Steps(1)
                   \/ /\ pc["Context"] \in Steps(3)
                      /\ pc'["Context"] \in Steps(0) \cup Steps(1) \cup Steps(2)
  BY <1>3, ComesNearer
<1>4. ASSUME There, ~Out, NobodyStuck, SInv PROVE ENABLED <<ThreadStep>>_vars
  <2>1. port # <<>>
    BY <1>4 DEF Within
  <2>2. pc["Context"] \in ContextLabels
    <3>1. ~Terminated
      BY <1>4 DEF NotRunning, Terminated
    <3>2. QED
      BY <1>4, <3>1, AtHand
  <2>3. ContextRunning
    BY <1>4, <2>2 DEF ContextRunning, NotRunning, ContextLabels
  <2>4. QED
    BY <1>4, <2>1, <2>3 DEF NobodyStuck
<1> HIDE DEF There, Out
<1>5. ASSUME SInv, Near0, ~Out, [Next]_vars
      PROVE  Out' \/ (Near0' /\ ~ThreadStep)
  BY <1>1, <1>3, <1>5
<1>6. ASSUME SInv, Near1, ~Out, [Next]_vars
      PROVE  Out' \/ (Near1' /\ ~ThreadStep) \/ Near0'
  BY <1>1, <1>3, <1>6
<1>7. ASSUME SInv, Near2, ~Out, [Next]_vars
      PROVE  Out' \/ (Near2' /\ ~ThreadStep) \/ Near0' \/ Near1'
  BY <1>1, <1>3, <1>7
<1>8. ASSUME SInv, Near3, ~Out, [Next]_vars
      PROVE  Out' \/ (Near3' /\ ~ThreadStep) \/ Near0' \/ Near1' \/ Near2'
  BY <1>1, <1>3, <1>8
<1>9. (Near0 => There) /\ (Near1 => There) /\ (Near2 => There) /\ (Near3 => There)
  OBVIOUS
<1> HIDE DEF Near0, Near1, Near2, Near3
<1>10. Spec /\ []NobodyStuck => (Near0 ~> Out)
  BY <1>4, <1>5, <1>9, ServerInvariant, PTL DEF Spec, Fairness
<1>11. Spec /\ []NobodyStuck => (Near1 ~> Out \/ Near0)
  BY <1>4, <1>6, <1>9, ServerInvariant, PTL DEF Spec, Fairness
<1>12. Spec /\ []NobodyStuck => (Near2 ~> Out \/ Near0 \/ Near1)
  BY <1>4, <1>7, <1>9, ServerInvariant, PTL DEF Spec, Fairness
<1>13. Spec /\ []NobodyStuck => (Near3 ~> Out \/ Near0 \/ Near1 \/ Near2)
  BY <1>4, <1>8, <1>9, ServerInvariant, PTL DEF Spec, Fairness
<1>14. Spec /\ []NobodyStuck => (There ~> Out)
  BY <1>2, <1>10, <1>11, <1>12, <1>13, ServerInvariant, PTL
<1>15. QED
  BY <1>14 DEF There, Out, ComesUp

-----------------------------------------------------------------------------
(* Who fails leaves.                                                        *)

Failures(c) == {p \in Packets : p.op = "chain" /\ p.conn = c /\ ~p.ok}
Gone(c) == c \notin ToSet(m_Clients) \/ NotRunning

\* The handler of a failure takes the client out of m_Clients.
LEMMA FailureHandled ==
    ASSUME SInv, NEW c \in Connections, AtHead(Failures(c)), ThreadStep
    PROVE  Gone(c)'
<1> DEFINE p == Head(port)
<1>1. /\ p \in Packets /\ p.op = "chain" /\ p.conn = c /\ ~p.ok /\ pc["Context"] = "DoOne"
  BY DEF AtHead, Failures
<1>2. p # StopEvent
  BY <1>1 DEF StopEvent
<1>3. ~Terminated
  BY <1>1 DEF Terminated
<1>4. m_Clients \in Seq(Connections) /\ IsInjective(m_Clients)
  BY <1>3, AtHand
<1> HIDE DEF p
<1>5. ~ContextStep
  BY <1>1, <1>2 DEF ContextStep, Run, WorkFinished, StopFlag, PostStop, TakeStop, StopSeen,
     CheckStopped, RepostStop, Restart, p
<1>6. HandlerStep
  BY <1>5 DEF ThreadStep
<1>7. PICK q \in ToSet(port) :
          /\ Handling(q)
          /\ \/ AcceptAllowed(q) \/ AcceptDenied(q) \/ AcceptThrows(q)
             \/ /\ q.op # "accept"
                /\ IF Alive(q.conn) THEN Handler(q, q.conn) ELSE StaleHandler(q)
             \/ /\ q.op \in {"accept", "chain", "write"}
                /\ RaceCrashes
  BY <1>6 DEF HandlerStep
<1>8. q = p
  BY <1>7 DEF Handling, p
<1>9. \A d : Handler(p, d) => m_Clients' = RemoveFirst(m_Clients, d)
  BY <1>1 DEF Handler, ChainGoesOn, ChainReceives, Disconnects, SendLambda, Written, WrittenEmpty,
     ChangeClients
<1>10. \A d : Handler(p, d) => ToSet(m_Clients') = ToSet(m_Clients) \ {d}
  BY <1>4, <1>9, ClientsWithout
<1>11. Terminate => Gone(c)'
  BY DEF Terminate, Gone, NotRunning, Threads
<1>12. ~AcceptAllowed(p) /\ ~AcceptDenied(p) /\ ~AcceptThrows(p)
  BY <1>1 DEF AcceptAllowed, AcceptDenied, AcceptThrows
<1>13. CASE RaceCrashes
  BY <1>11, <1>13 DEF RaceCrashes
<1>14. CASE Alive(c) /\ Handler(p, c)
  BY <1>10, <1>14 DEF Gone
<1>15. CASE ~Alive(c) /\ StaleHandler(p)
  <2>1. c \notin ToSet(m_Clients)
    BY <1>15 DEF Alive
  <2>2. CASE \E d : Handler(p, d)
    BY <1>10, <2>1, <2>2 DEF Gone
  <2>3. CASE UNCHANGED server
    BY <2>1, <2>3 DEF Gone, server, membership
  <2>4. QED
    BY <1>15, <2>2, <2>3 DEF StaleHandler
<1>16. QED
  BY <1>1, <1>7, <1>8, <1>12, <1>13, <1>14, <1>15

LEMMA FailureWaits ==
    ASSUME SInv, NEW c \in Connections, AtHead(Failures(c)), [Next]_vars, ~ThreadStep
    PROVE  AtHead(Failures(c))' \/ Gone(c)'
<1>1. ~Terminated /\ ~NotRunning
  BY DEF AtHead, Terminated, NotRunning
<1>2. port \in Seq(P)
  BY <1>1, AtHand
<1>3. Terminated' => Gone(c)'
  BY DEF Gone, NotRunning, Terminated
<1>4. OthersPost(P) => AtHead(Failures(c))'
  <2>1. 0 \in Nat
    OBVIOUS
  <2>2. Failures(c)' = Failures(c)
    BY DEF Failures
  <2> HIDE DEF Failures
  <2>3. QED
    BY <1>2, <2>1, <2>2, OthersKeepQueue DEF AtHead
<1>5. QED
  BY <1>1, <1>3, <1>4, OthersMove

\* The packet that says that a connection has failed is a finite number of places from
\* do_one, comes nearer, and when it is there its client leaves (Connection::Disconnect
\* calls OnDisconnect): FailedClientLeaves, but for the induction over the places.
THEOREM FailureComesNearer ==
    ASSUME NEW c \in Connections, NEW n \in Nat
    PROVE  Spec /\ []NobodyStuck =>
              /\ [](ChainFailed(c) => Within(Failures(c), Len(port)) \/ Gone(c))
              /\ [](~Within(Failures(c), 0))
              /\ (Within(Failures(c), n + 1) ~> Gone(c) \/ Within(Failures(c), n))
<1> DEFINE K == Failures(c)
<1>1. ASSUME SInv PROVE ChainFailed(c) => Within(K, Len(port)) \/ Gone(c)
  <2>1. CASE NotRunning
    BY <2>1 DEF Gone
  <2>2. CASE ~NotRunning
    <3>1. port \in Seq(P)
      BY <1>1, <2>2, AtHand DEF NotRunning, Terminated
    <3>2. DOMAIN port = 1 .. Len(port) /\ Len(port) \in Nat /\ \A i \in DOMAIN port : port[i] \in P
      BY <3>1, SeqFacts
    <3>3. SUFFICES ASSUME ChainFailed(c) PROVE Within(K, Len(port))
      OBVIOUS
    <3>4. PICK i \in DOMAIN port : port[i].op = "chain" /\ port[i].conn = c /\ ~port[i].ok
      BY <3>3 DEF ChainFailed, ToSet
    <3>5. port[i] \in K
      BY <3>2, <3>4 DEF P, Failures, StopEvent
    <3>6. i <= Len(port)
      BY <3>2
    <3>7. QED
      BY <3>5, <3>6 DEF Within
  <2>3. QED
    BY <2>1, <2>2
<1>2. ASSUME SInv PROVE ~Within(K, 0)
  <2>1. port \in Seq(P)
    BY <1>2 DEF SInv, ContextTypeOK
  <2>2. QED
    BY <2>1, NothingWithinNone
<1> DEFINE Out == Gone(c) \/ Within(K, n)
           Near == Within(K, n + 1)
           Next1 == AtHead(K)
<1>3. ASSUME SInv, Next1, [Next]_vars PROVE Gone(c)' \/ (Next1' /\ ~ThreadStep)
  BY <1>3, FailureHandled, FailureWaits
<1>4. ASSUME Next1, NobodyStuck PROVE ENABLED <<ThreadStep>>_vars
  <2>1. ContextRunning /\ port # <<>>
    BY <1>4 DEF AtHead, ContextRunning, InDoOne
  <2>2. QED
    BY <1>4, <2>1 DEF NobodyStuck
<1>5. NotRunning => Gone(c)
  BY DEF Gone
<1>6. Spec /\ []NobodyStuck => ComesUp(K, n)
  BY PacketsComeUp
<1> HIDE DEF K
<1>7. Spec /\ []NobodyStuck => (Near ~> Next1 \/ Within(K, n) \/ NotRunning)
  BY <1>6, PTL DEF ComesUp
<1> HIDE DEF Near, Next1
<1>8. Spec /\ []NobodyStuck => (Next1 ~> Gone(c))
  BY <1>3, <1>4, ServerInvariant, PTL DEF Spec, Fairness
<1>9. Spec /\ []NobodyStuck => (Near ~> Gone(c) \/ Within(K, n))
  BY <1>5, <1>7, <1>8, PTL
<1>10. Spec => [](ChainFailed(c) => Within(K, Len(port)) \/ Gone(c)) /\ [](~Within(K, 0))
  BY <1>1, <1>2, ServerInvariant, PTL
<1>11. QED
  BY <1>9, <1>10, PTL DEF K, Near

-----------------------------------------------------------------------------
(* Stop returns.                                                            *)

Returned == pc["App"] \in {"Idle", "Terminated"}

\* What the application's thread does in a call of Stop.
LEMMA StoppingSteps ==
    ASSUME SInv, [Next]_vars, pc["App"] \in {"StopFlag", "PostStop", "Join"}
    PROVE  \/ Returned'
           \/ ThreadStep /\ pc'["App"] = pc["App"] /\ ~AppStep
           \/ pc' = pc /\ stopped' = stopped /\ ~AppStep
           \/ StopFlag("App") /\ pc["App"] = "StopFlag" /\ pc'["App"] \in {"PostStop", "Join"}
              /\ pc'["Context"] = pc["Context"] /\ stopped'
           \/ PostStop("App") /\ pc["App"] = "PostStop" /\ Joining'
              /\ pc'["Context"] = pc["Context"] /\ stopped' = stopped
<1>1. ~Terminated
  BY Running DEF Threads
<1>2. pc \in [Threads -> Labels]
  BY <1>1, AtHand
<1>3. AppStep => StopFlag("App") \/ PostStop("App") \/ JoinThread
  BY DEF AppStep, StartThread, AppStopStep, MessageElement, MessageErased, MessageEnd
<1>4. CASE StopFlag("App")
  BY <1>2, <1>4 DEF StopFlag, Goto, AfterStop, Threads, Joining
<1>5. CASE PostStop("App")
  BY <1>2, <1>5 DEF PostStop, Goto, AfterStop, Threads, Joining
<1>6. CASE JoinThread
  BY <1>2, <1>6 DEF JoinThread, Join, Threads, Returned
<1>7. CASE ThreadStep /\ ~AppStep
  <2>1. CASE ContextStep
    BY <1>2, <1>7, <2>1, ContextPlaces
  <2>2. CASE HandlerStep
    <3>1. Terminated' => Returned'
      <4>1. SInv'
        BY <2>2, HandlerStepKeeps
      <4>2. QED
        BY <4>1 DEF SInv, Rest, ServerTypeOK, Terminated, Returned, Threads, ContextLabels, InDoOne,
           InHandling, Leaving
    <3>2. QED
      BY <1>7, <2>2, <3>1, HandlerStepRuns
  <2>3. QED
    BY <1>7, <2>1, <2>2 DEF ThreadStep
<1>8. CASE ~ThreadStep /\ ~AppStep
  <2>1. \/ UNCHANGED vars
        \/ \E i \in DOMAIN pending : SystemCompletes(i)
    BY <1>8 DEF Next, CallStart, CallStop, BouncePing, RelayMessage
  <2>2. pc' = pc /\ stopped' = stopped
    BY <2>1 DEF SystemCompletes, Complete, vars, context
  <2>3. QED
    BY <1>8, <2>2
<1>9. QED
  BY <1>3, <1>4, <1>5, <1>6, <1>7, <1>8

LEMMA JoinSeenKept == ASSUME SInv, JoinSeen, [Next]_vars PROVE JoinSeen'
<1>1. CASE Terminated \/ Terminated'
  <2>1. NotRunning' \/ pc' = pc
    <3>1. CASE Terminated /\ ~Terminated'
      <4>1. pc = [t \in Threads |-> "Terminated"]
        BY <3>1 DEF SInv, Rest, ServerTypeOK, Terminated, ContextLabels, InDoOne, InHandling, Leaving
      <4>2. pc["App"] = "Terminated" /\ pc["Context"] = "Terminated"
        BY <4>1 DEF Threads
      <4>3. ~HandlerStep /\ ~ContextStep
        BY <4>2 DEF HandlerStep, Handling, ContextStep, Run, WorkFinished, StopFlag, PostStop,
           TakeStop, StopSeen, CheckStopped, RepostStop, Restart
      <4>4. ~AppStep
        BY <4>2 DEF AppStep, StartThread, AppStopStep, StopFlag, PostStop, JoinThread, Join,
           MessageElement, MessageErased, MessageEnd
      <4>5. UNCHANGED vars
        BY <3>1, <4>2, <4>3, <4>4 DEF Next, CallStart, CallStop, BouncePing, RelayMessage,
           ThreadStep, SystemCompletes
      <4>6. QED
        BY <4>5 DEF vars, context
    <3>2. CASE Terminated'
      BY <3>2 DEF Terminated, NotRunning
    <3>3. QED
      BY <1>1, <3>1, <3>2
  <2>2. CASE NotRunning'
    BY <2>2 DEF JoinSeen
  <2>3. CASE pc' = pc /\ ~NotRunning'
    <3>1. FALSE
      BY <1>1, <2>3 DEF NotRunning, Terminated
    <3>2. QED
      BY <3>1
  <2>4. QED
    BY <2>1, <2>2, <2>3
<1>2. CASE ~Terminated /\ ~Terminated'
  <2>1. pc \in [Threads -> Labels]
    BY <1>2, AtHand
  <2>2. CASE pc["App"] \in {"StopFlag", "PostStop", "Join"} /\ ~ThreadStep
    BY <2>2, StoppingSteps DEF JoinSeen, NotRunning, Returned, Joining
  <2>3. CASE HandlerStep
    <3>1. HandlerRuns(P) /\ pc'["App"] = pc["App"] /\ stopped' = stopped
      BY <1>2, <2>3, HandlerStepRuns
    <3>2. QED
      BY <3>1 DEF JoinSeen, HandlerRuns, Handling, NotRunning
  <2>4. CASE ContextStep
    <3>1. /\ pc'["App"] = pc["App"] /\ ~NotRunning
          /\ stopped' = stopped \/ stopped' = TRUE \/ pc'["Context"] = "Done"
      BY <2>1, <2>4, ContextPlaces
    <3>2. QED
      BY <3>1 DEF JoinSeen, NotRunning
  <2>5. CASE pc["App"] \notin {"StopFlag", "PostStop", "Join"} /\ ~ThreadStep
    <3>1. \A label : Goto("App", label) => pc'["App"] = label
      BY <2>1 DEF Goto, Threads
    <3>2. ~AppStopStep /\ ~JoinThread
      BY <2>5 DEF AppStopStep, StopFlag, PostStop, JoinThread, Join
    <3>3. CASE AppStep
      BY <2>1, <2>5, <3>1, <3>2, <3>3 DEF AppStep, StartThread, MessageElement, MessageErased,
         MessageEnd, Terminate, JoinSeen, Threads
    <3>4. CASE \E i \in DOMAIN pending : SystemCompletes(i)
      BY <2>5, <3>4 DEF SystemCompletes, Complete, JoinSeen
    <3>5. CASE CallStart \/ CallStop \/ BouncePing \/ RelayMessage \/ UNCHANGED vars
      BY <2>5, <3>1, <3>5 DEF CallStart, CallStop, BouncePing, RelayMessage, vars, context, JoinSeen
    <3>6. QED
      BY <2>5, <3>3, <3>4, <3>5 DEF Next
  <2>6. QED
    BY <2>2, <2>3, <2>4, <2>5 DEF ThreadStep
<1>3. QED
  BY <1>1, <1>2

LEMMA StoppedByThen == Spec => [](SInv /\ JoinSeen)
<1>1. Init => JoinSeen
  BY DEF Init, JoinSeen, Threads
<1>2. SInv /\ JoinSeen /\ [Next]_vars => JoinSeen'
  BY JoinSeenKept
<1>3. QED
  BY <1>1, <1>2, ServerInvariant, PTL DEF Spec

\* What happens while Stop joins the thread.
LEMMA JoiningSteps ==
    ASSUME SInv, JoinSeen, Joining, [Next]_vars
    PROVE  \/ Returned'
           \/ Joining' /\ ~ThreadStep /\ ~AppStep /\ pc' = pc
           \/ /\ Joining' /\ ThreadStep /\ ~AppStep
              /\ pc["Context"] = "PostStop" => pc'["Context"] = "DoOne" /\ stop_event_posted'
              /\ pc["Context"] = "StopSeen" => pc'["Context"] = "CheckStopped"
              /\ pc["Context"] = "CheckStopped" => pc'["Context"] = "RepostStop"
              /\ pc["Context"] = "RepostStop" => pc'["Context"] = "Restart"
              /\ pc["Context"] = "Restart" => pc'["Context"] = "Done"
              /\ AtHead({StopEvent}) => pc'["Context"] = "StopSeen"
              /\ ~NotRunning
<1>1. pc["App"] = "Join" /\ ~Terminated
  BY Running DEF Joining, Threads
<1>2. pc \in [Threads -> Labels]
  BY <1>1, AtHand
<1>3. CASE ThreadStep /\ ~AppStep /\ pc'["App"] = pc["App"]
  <2>1. Joining'
    BY <1>1, <1>3 DEF Joining
  <2>2. CASE HandlerStep
    <3>1. Terminated' \/ HandlerRuns(P)
      BY <2>2, HandlerStepRuns
    <3>2. CASE Terminated'
      <4>1. SInv'
        BY <2>2, HandlerStepKeeps
      <4>2. QED
        BY <3>2, <4>1 DEF SInv, Rest, ServerTypeOK, Terminated, Returned, Threads, ContextLabels,
           InDoOne, InHandling, Leaving
    <3>3. CASE HandlerRuns(P)
      BY <1>3, <2>1, <3>3 DEF HandlerRuns, Handling, AtHead, NotRunning
    <3>4. QED
      BY <3>1, <3>2, <3>3
  <2>3. CASE ContextStep
    <3>1. ~NotRunning
      BY <1>2, <2>3, ContextPlaces
    <3>2. stopped
      BY <1>1, <3>1 DEF JoinSeen
    <3>3. QED
      BY <1>2, <1>3, <2>1, <2>3, <3>1, <3>2, ContextPlaces
  <2>4. QED
    BY <1>3, <2>2, <2>3 DEF ThreadStep
<1>4. CASE pc' = pc /\ ~AppStep /\ ~ThreadStep
  BY <1>1, <1>4 DEF Joining
<1>5. ThreadStep => pc' # pc \/ Returned'
  <2>1. HandlerStep => Terminated' \/ pc' # pc
    BY HandlerStepRuns DEF HandlerRuns, Handling
  <2>2. HandlerStep => pc' # pc
    BY <1>1, <2>1 DEF Terminated
  <2>3. ContextStep => pc' # pc
    BY <1>2, ContextPlaces
  <2>4. QED
    BY <2>2, <2>3 DEF ThreadStep
<1>6. QED
  BY <1>1, <1>3, <1>4, <1>5, StoppingSteps

\* Stop gets to its join, with a stop event in the port: the event comes nearer until Stop
\* returns (DedicatedServer::Stop: m_Context.stop(), m_ContextThread.join()).  This is
\* StopReturns, but for the induction over the places of the port.
THEOREM StopComesNearer ==
    ASSUME NEW n \in Nat
    PROVE  Spec /\ []NobodyStuck =>
              /\ (pc["App"] = "StopFlag"
                    ~> Returned \/ (Joining /\ Within({StopEvent}, Len(port))))
              /\ [](~Within({StopEvent}, 0))
              /\ (Joining /\ Within({StopEvent}, n + 1)
                    ~> Returned \/ (Joining /\ Within({StopEvent}, n)))
<1> DEFINE Inv == SInv /\ JoinSeen
           Flagging == pc["App"] = "StopFlag"
           Posting == pc["App"] = "PostStop"
           Seeing == Joining /\ pc["Context"] = "StopSeen"
           Checking == Joining /\ pc["Context"] = "CheckStopped"
           Reposting == Joining /\ pc["Context"] = "RepostStop"
           Restarting == Joining /\ pc["Context"] = "Restart"
           Stopping == Joining /\ pc["Context"] = "PostStop"
           Still == Joining /\ NotRunning
           Queued == Joining /\ Within({StopEvent}, Len(port))
           Taken == Joining /\ AtHead({StopEvent})
           Far == Joining /\ Within({StopEvent}, n + 1)
           Near == Joining /\ Within({StopEvent}, n)
<1>1. ASSUME Inv, Flagging, [Next]_vars
      PROVE  Returned' \/ (Flagging' /\ ~AppStep) \/ Posting' \/ Joining'
  BY <1>1, StoppingSteps DEF Joining
<1>2. ASSUME Inv, Posting, [Next]_vars
      PROVE  Returned' \/ (Posting' /\ ~AppStep) \/ Joining'
  BY <1>2, StoppingSteps
<1>3. ASSUME Flagging \/ Posting, NobodyStuck PROVE ENABLED <<AppStep>>_vars
  BY <1>3 DEF NobodyStuck, InCall, AppLabels, StopLabels
<1>4. ASSUME Inv, Joining, [Next]_vars PROVE Returned' \/ Joining'
  BY <1>4, JoiningSteps
<1>5. ASSUME Inv, Still, [Next]_vars PROVE Returned' \/ (Still' /\ ~AppStep)
  BY <1>5, JoiningSteps DEF NotRunning
<1>6. ASSUME Inv, Still, NobodyStuck PROVE ENABLED <<AppStep>>_vars
  <2>1. pc["Context"] \in {"None", "Done"} /\ pc["App"] = "Join"
    <3>1. ~Terminated
      BY <1>6, Running DEF Joining, Threads
    <3>2. QED
      BY <1>6, <3>1 DEF NotRunning, Terminated, Joining
  <2>2. InCall /\ ~ContextRunning
    BY <2>1 DEF InCall, AppLabels, ContextRunning, InDoOne, InHandling, Leaving
  <2>3. QED
    BY <1>6, <2>2 DEF NobodyStuck
<1>7. ASSUME Inv, Restarting, [Next]_vars
      PROVE  Returned' \/ (Restarting' /\ ~ThreadStep) \/ Still'
  BY <1>7, JoiningSteps DEF NotRunning
<1>8. ASSUME Inv, Reposting, [Next]_vars
      PROVE  Returned' \/ (Reposting' /\ ~ThreadStep) \/ Restarting'
  BY <1>8, JoiningSteps
<1>9. ASSUME Inv, Checking, [Next]_vars
      PROVE  Returned' \/ (Checking' /\ ~ThreadStep) \/ Reposting'
  BY <1>9, JoiningSteps
<1>10. ASSUME Inv, Seeing, [Next]_vars
       PROVE  Returned' \/ (Seeing' /\ ~ThreadStep) \/ Checking'
  BY <1>10, JoiningSteps
<1>11. ASSUME Inv, Inv', Stopping, [Next]_vars
       PROVE  Returned' \/ (Stopping' /\ ~ThreadStep) \/ Queued'
  <2>1. SUFFICES ASSUME Joining', pc'["Context"] = "DoOne", stop_event_posted' PROVE Queued'
    BY <1>11, JoiningSteps
  <2>2. StopEventOnce' /\ ~Terminated'
    BY <1>11, <2>1 DEF SInv, CInv, Terminated
  <2>3. StopQueued'
    BY <2>1, <2>2 DEF StopEventOnce
  <2>4. ContextTypeOK(P, O)'
    BY <1>11 DEF SInv
  <2>5. \A i \in DOMAIN port' : i <= Len(port')
    BY <2>4, SeqFacts DEF ContextTypeOK
  <2>6. QED
    BY <2>1, <2>3, <2>5 DEF StopQueued, Within
<1>12. ASSUME Inv, Taken, [Next]_vars
       PROVE  Returned' \/ (Taken' /\ ~ThreadStep) \/ Seeing'
  <2>1. CASE ~ThreadStep /\ Joining'
    <3>1. Terminated' \/ OthersPost(P)
      BY <1>12, <2>1, OthersMove DEF AtHead, NotRunning
    <3>2. ~Terminated'
      BY <1>12, <2>1, JoiningSteps DEF AtHead, Terminated, Returned, Joining
    <3>3. port \in Seq(P) /\ 0 \in Nat
      BY <1>12 DEF SInv, ContextTypeOK
    <3>4. AtHead({StopEvent})'
      BY <1>12, <3>1, <3>2, <3>3, OthersKeepQueue DEF AtHead, StopEvent
    <3>5. QED
      BY <2>1, <3>4
  <2>2. QED
    BY <1>12, <2>1, JoiningSteps
<1>13. ASSUME Inv, NobodyStuck,
              Seeing \/ Checking \/ Reposting \/ Restarting \/ Stopping \/ Taken
       PROVE  ENABLED <<ThreadStep>>_vars
  <2>1. ContextRunning
    BY <1>13 DEF ContextRunning, AtHead, InDoOne, InHandling, Leaving
  <2>2. ~(pc["Context"] = "DoOne" /\ port = <<>>)
    BY <1>13 DEF AtHead
  <2>3. QED
    BY <1>13, <2>1, <2>2 DEF NobodyStuck
<1>14. ASSUME Inv, Joining
       PROVE  Still \/ Queued \/ Stopping \/ Seeing \/ Checking \/ Reposting
  <2>1. ~Terminated
    BY <1>14, Running DEF Joining, Threads
  <2>2. port \in Seq(P) /\ CInv
    BY <1>14 DEF SInv, ContextTypeOK
  <2>3. QED
    BY <1>14, <2>1, <2>2, JoiningStates
<1>15. ASSUME Inv PROVE ~Within({StopEvent}, 0)
  <2>1. port \in Seq(P)
    BY <1>15 DEF SInv, ContextTypeOK
  <2>2. QED
    BY <2>1, NothingWithinNone
<1>16. Spec => []Inv
  BY StoppedByThen, PTL
<1>17. Spec /\ []NobodyStuck => ComesUp({StopEvent}, n)
  BY PacketsComeUp
<1>18. Spec /\ []NobodyStuck =>
         (Within({StopEvent}, n + 1) ~> AtHead({StopEvent}) \/ Within({StopEvent}, n) \/ NotRunning)
  BY <1>17, PTL DEF ComesUp
<1> HIDE DEF Inv
<1>19. /\ Seeing \/ Checking \/ Reposting \/ Restarting \/ Stopping \/ Still \/ Queued \/ Taken
             \/ Far \/ Near => Joining
       /\ Far => Within({StopEvent}, n + 1)
       /\ Joining /\ AtHead({StopEvent}) => Taken
       /\ Joining /\ Within({StopEvent}, n) => Near
       /\ Joining /\ NotRunning => Still
  OBVIOUS
<1> HIDE DEF Flagging, Posting, Seeing, Checking, Reposting, Restarting, Stopping, Still, Queued,
             Taken, Far, Near
<1>20. Spec /\ []NobodyStuck => (Still ~> Returned)
  BY <1>5, <1>6, <1>16, PTL DEF Spec, Fairness
<1>21. Spec /\ []NobodyStuck => (Restarting ~> Returned \/ Still)
  BY <1>7, <1>13, <1>16, PTL DEF Spec, Fairness
<1>22. Spec /\ []NobodyStuck => (Reposting ~> Returned \/ Restarting)
  BY <1>8, <1>13, <1>16, PTL DEF Spec, Fairness
<1>23. Spec /\ []NobodyStuck => (Checking ~> Returned \/ Reposting)
  BY <1>9, <1>13, <1>16, PTL DEF Spec, Fairness
<1>24. Spec /\ []NobodyStuck => (Seeing ~> Returned \/ Checking)
  BY <1>10, <1>13, <1>16, PTL DEF Spec, Fairness
<1>25. Spec /\ []NobodyStuck => (Stopping ~> Returned \/ Queued)
  BY <1>11, <1>13, <1>16, PTL DEF Spec, Fairness
<1>26. Spec /\ []NobodyStuck => (Taken ~> Returned \/ Seeing)
  BY <1>12, <1>13, <1>16, PTL DEF Spec, Fairness
<1>27. Spec /\ []NobodyStuck => (Posting ~> Returned \/ Joining)
  BY <1>2, <1>3, <1>16, PTL DEF Spec, Fairness
<1>28. Spec /\ []NobodyStuck => (Flagging ~> Returned \/ Posting \/ Joining)
  BY <1>1, <1>3, <1>16, PTL DEF Spec, Fairness
<1>29. Spec /\ []NobodyStuck => (Seeing ~> Returned)
  BY <1>20, <1>21, <1>22, <1>23, <1>24, PTL
<1>30. Spec /\ []NobodyStuck => (Flagging ~> Returned \/ Queued)
  BY <1>14, <1>16, <1>20, <1>21, <1>22, <1>23, <1>25, <1>27, <1>28, <1>29, PTL
<1>31. Spec /\ []NobodyStuck => (Far ~> Returned \/ Taken \/ Near \/ Still)
  BY <1>4, <1>16, <1>18, <1>19, PTL DEF Spec
<1>32. Spec /\ []NobodyStuck => (Far ~> Returned \/ Near)
  BY <1>20, <1>26, <1>29, <1>31, PTL
<1>33. Spec => [](~Within({StopEvent}, 0))
  BY <1>15, <1>16, PTL
<1>34. QED
  BY <1>30, <1>32, <1>33, PTL DEF Flagging, Queued, Far, Near
=============================================================================
