-------------------------- MODULE IoContextProofs --------------------------
(***************************************************************************)
(* That the context keeps its promises to an owner that uses it by the     *)
(* operations of IoContext only.  The owners' modules show that they do,   *)
(* and apply ContextKept.  P and O are an owner's packets and operations.  *)
(***************************************************************************)
EXTENDS IoContext, SequenceTheorems, TLAPS

CInv == WorkCounted /\ StopEventOnce /\ StopNotLost

cvars == <<port, pending, outstanding_work, stopped, stop_event_posted>>

\* What the application's thread may do to pc in the course of an action.
AppMoves ==
    /\ pc["App"] # "PostStop"
    /\ ~Terminated
    /\ \/ pc'["Context"] = pc["Context"]
       \/ pc["Context"] = "None" /\ pc'["Context"] = "Run"

\* Every way in which an owner uses the context.
ContextNext(P, O) ==
    \/ UNCHANGED <<cvars, pc>>
    \/ Terminated' /\ UNCHANGED cvars
    \/ AppMoves /\ UNCHANGED cvars
    \/ AppMoves /\ \E o \in O : Start(o)
    \/ AppMoves /\ \E p \in P \ {StopEvent} : Post(p)
    \/ ~Terminated /\ \E i \in DOMAIN pending, good \in BOOLEAN : Complete(i, good)
    \/ \E lambdas \in Seq(P \ {StopEvent}), started \in Seq(O) :
          Handling(Head(port)) /\ Handle(lambdas, started)
    \/ ContextStep
    \/ ~Terminated /\ AppStopStep
    \/ \E label : Join(label)

\* P and O are as an owner has them.
PacketsOf(P, O) ==
    /\ StopEvent \in P
    /\ \A o \in O, good \in BOOLEAN : Packet(o, good) \in P \ {StopEvent}

-----------------------------------------------------------------------------
(* Stop events in a sequence of packets.                                    *)

HasStop(s) == \E i \in DOMAIN s : s[i] = StopEvent
OneStop(s) == \A i, j \in DOMAIN s : s[i] = StopEvent /\ s[j] = StopEvent => i = j
Stops(s) == IF HasStop(s) THEN 1 ELSE 0

LEMMA ConcatStops ==
    ASSUME NEW P, NEW s \in Seq(P), NEW t \in Seq(P \ {StopEvent}), OneStop(s)
    PROVE  /\ s \o t \in Seq(P)
           /\ Len(s \o t) = Len(s) + Len(t)
           /\ HasStop(s \o t) <=> HasStop(s)
           /\ OneStop(s \o t)
<1>1. t \in Seq(P) /\ \A i \in DOMAIN t : t[i] # StopEvent
  BY LenProperties, ElementOfSeq, SeqMonotonic
<1>2. /\ s \o t \in Seq(P)
      /\ Len(s \o t) = Len(s) + Len(t)
      /\ \A i \in 1 .. Len(s) + Len(t) :
            (s \o t)[i] = IF i <= Len(s) THEN s[i] ELSE t[i - Len(s)]
  BY <1>1, ConcatProperties
<1>3. DOMAIN s = 1 .. Len(s) /\ DOMAIN t = 1 .. Len(t)
      /\ DOMAIN (s \o t) = 1 .. Len(s) + Len(t)
      /\ Len(s) \in Nat /\ Len(t) \in Nat
  BY <1>1, <1>2, LenProperties
<1>4. \A i \in DOMAIN (s \o t) :
        (s \o t)[i] = StopEvent => i \in DOMAIN s /\ s[i] = StopEvent
  BY <1>1, <1>2, <1>3
<1>5. \A i \in DOMAIN s : i \in DOMAIN (s \o t) /\ (s \o t)[i] = s[i]
  BY <1>2, <1>3
<1>6. QED
  BY <1>2, <1>4, <1>5 DEF HasStop, OneStop

LEMMA AppendPacket ==
    ASSUME NEW P, NEW s \in Seq(P), NEW p \in P \ {StopEvent}, OneStop(s)
    PROVE  /\ Append(s, p) \in Seq(P)
           /\ Len(Append(s, p)) = Len(s) + 1
           /\ HasStop(Append(s, p)) <=> HasStop(s)
           /\ OneStop(Append(s, p))
<1>1. Append(s, p) = s \o <<p>>
  BY AppendIsConcat
<1>2. <<p>> \in Seq(P \ {StopEvent}) /\ Len(<<p>>) = 1
  OBVIOUS
<1>3. QED
  BY <1>1, <1>2, ConcatStops

LEMMA AppendStop ==
    ASSUME NEW P, NEW s \in Seq(P), StopEvent \in P, ~HasStop(s)
    PROVE  /\ Append(s, StopEvent) \in Seq(P)
           /\ Len(Append(s, StopEvent)) = Len(s) + 1
           /\ HasStop(Append(s, StopEvent))
           /\ OneStop(Append(s, StopEvent))
<1> DEFINE t == Append(s, StopEvent)
<1>1. /\ t \in Seq(P)
      /\ Len(t) = Len(s) + 1
      /\ \A i \in 1 .. Len(s) : t[i] = s[i]
      /\ t[Len(s) + 1] = StopEvent
  BY AppendProperties
<1>2. DOMAIN t = 1 .. Len(s) + 1 /\ DOMAIN s = 1 .. Len(s) /\ Len(s) \in Nat
  BY <1>1, LenProperties
<1> HIDE DEF t
<1>3. \A i \in DOMAIN t : t[i] = StopEvent => i = Len(s) + 1
  BY <1>1, <1>2 DEF HasStop
<1>4. HasStop(t) /\ OneStop(t)
  BY <1>1, <1>2, <1>3 DEF HasStop, OneStop
<1>5. QED
  BY <1>1, <1>4 DEF t

LEMMA TailStops ==
    ASSUME NEW P, NEW s \in Seq(P), s # <<>>, OneStop(s)
    PROVE  /\ Tail(s) \in Seq(P)
           /\ Len(Tail(s)) = Len(s) - 1
           /\ Head(s) = StopEvent => HasStop(s) /\ ~HasStop(Tail(s))
           /\ Head(s) # StopEvent => (HasStop(Tail(s)) <=> HasStop(s))
           /\ OneStop(Tail(s))
           /\ Len(s) >= 1
<1> DEFINE t == Tail(s)
<1>1. /\ t \in Seq(P)
      /\ Len(t) = Len(s) - 1
      /\ \A i \in 1 .. Len(t) : t[i] = s[i + 1]
      /\ Head(s) = s[1]
  BY HeadTailProperties
<1>2. /\ Len(s) \in Nat /\ Len(s) >= 1
      /\ DOMAIN s = 1 .. Len(s)
      /\ DOMAIN t = 1 .. Len(s) - 1
  BY <1>1, LenProperties, EmptySeq
<1> HIDE DEF t
<1>3. \A i \in DOMAIN t : i + 1 \in DOMAIN s /\ t[i] = s[i + 1] /\ i \in Int
  BY <1>1, <1>2
<1>4. \A i \in DOMAIN s : i = 1 \/ (i - 1 \in DOMAIN t /\ t[i - 1] = s[i])
  BY <1>1, <1>2
<1>5. OneStop(t)
  <2> SUFFICES ASSUME NEW i \in DOMAIN t, NEW j \in DOMAIN t,
                      t[i] = StopEvent, t[j] = StopEvent
               PROVE  i = j
    BY DEF OneStop
  <2>1. i + 1 = j + 1
    BY <1>3 DEF OneStop
  <2>2. QED
    BY <2>1, <1>3
<1>6. ASSUME s[1] = StopEvent PROVE HasStop(s) /\ ~HasStop(t)
  <2>1. HasStop(s)
    BY <1>2, <1>6 DEF HasStop
  <2>2. ASSUME NEW i \in DOMAIN t, t[i] = StopEvent PROVE FALSE
    <3>1. i + 1 = 1
      BY <1>2, <1>3, <1>6, <2>2 DEF OneStop
    <3>2. QED
      BY <3>1, <1>2, <1>3
  <2>3. QED
    BY <2>1, <2>2 DEF HasStop
<1>7. ASSUME s[1] # StopEvent PROVE HasStop(t) <=> HasStop(s)
  BY <1>3, <1>4, <1>7 DEF HasStop
<1>8. QED
  BY <1>1, <1>2, <1>5, <1>6, <1>7 DEF t

LEMMA RemoveAtProperties ==
    ASSUME NEW S, NEW s \in Seq(S), NEW i \in DOMAIN s
    PROVE  /\ RemoveAt(s, i) \in Seq(S)
           /\ Len(RemoveAt(s, i)) = Len(s) - 1
           /\ \A j \in 1 .. Len(s) - 1 :
                 RemoveAt(s, i)[j] = IF j < i THEN s[j] ELSE s[j + 1]
<1> DEFINE n == Len(s)
           a == SubSeq(s, 1, i - 1)
           b == SubSeq(s, i + 1, n)
<1>1. n \in Nat /\ i \in 1 .. n /\ \A j \in 1 .. n : s[j] \in S
  BY LenProperties, ElementOfSeq
<1> HIDE DEF n
<1>2. /\ a \in Seq(S) /\ Len(a) = i - 1
      /\ \A j \in 1 .. i - 1 : a[j] = s[j]
  BY <1>1, SubSeqProperties
<1>3. /\ b \in Seq(S) /\ Len(b) = n - i
      /\ \A j \in 1 .. n - i : b[j] = s[j + i]
  BY <1>1, SubSeqProperties
<1> HIDE DEF a, b
<1>4. /\ a \o b \in Seq(S)
      /\ Len(a \o b) = Len(a) + Len(b)
      /\ \A j \in 1 .. Len(a) + Len(b) :
            (a \o b)[j] = IF j <= Len(a) THEN a[j] ELSE b[j - Len(a)]
  BY <1>2, <1>3, ConcatProperties
<1>5. Len(a) + Len(b) = n - 1
  BY <1>1, <1>2, <1>3
<1>8. ASSUME NEW j \in 1 .. n - 1
      PROVE  (a \o b)[j] = IF j < i THEN s[j] ELSE s[j + 1]
  <2>1. (a \o b)[j] = IF j <= i - 1 THEN a[j] ELSE b[j - (i - 1)]
    BY <1>2, <1>4, <1>5
  <2>2. CASE j < i
    BY <2>1, <2>2, <1>1, <1>2
  <2>3. CASE j >= i
    <3>1. j - (i - 1) \in 1 .. n - i /\ (j - (i - 1)) + i = j + 1
      BY <2>3, <1>1
    <3>2. QED
      BY <2>1, <2>3, <3>1, <1>1, <1>3
  <2>4. j < i \/ j >= i
    BY <1>1
  <2>5. QED
    BY <2>2, <2>3, <2>4
<1>6. RemoveAt(s, i) = a \o b
  BY DEF RemoveAt, a, b, n
<1>7. QED
  BY <1>4, <1>5, <1>6, <1>8 DEF n

-----------------------------------------------------------------------------
(* Sequences, and how often an operation of connection k is in one.         *)

LEMMA SeqFacts ==
    ASSUME NEW S, NEW s \in Seq(S)
    PROVE  /\ Len(s) \in Nat /\ DOMAIN s = 1 .. Len(s)
           /\ \A i \in DOMAIN s : s[i] \in S
BY LenProperties, ElementOfSeq

LEMMA AppendFacts ==
    ASSUME NEW S, NEW s \in Seq(S), NEW e \in S
    PROVE  /\ Append(s, e) \in Seq(S)
           /\ DOMAIN Append(s, e) = DOMAIN s \cup {Len(s) + 1}
           /\ Len(s) + 1 \notin DOMAIN s
           /\ Append(s, e)[Len(s) + 1] = e
           /\ \A i \in DOMAIN s : Append(s, e)[i] = s[i]
<1> DEFINE t == Append(s, e)
<1>1. /\ Len(t) = Len(s) + 1 /\ t[Len(s) + 1] = e /\ t \in Seq(S)
      /\ \A i \in 1 .. Len(s) : t[i] = s[i]
  BY AppendProperties
<1>2. /\ DOMAIN t = 1 .. Len(s) + 1 /\ DOMAIN s = 1 .. Len(s) /\ Len(s) \in Nat
  BY <1>1, SeqFacts
<1> HIDE DEF t
<1>3. 1 .. Len(s) + 1 = (1 .. Len(s)) \cup {Len(s) + 1} /\ Len(s) + 1 \notin 1 .. Len(s)
  BY <1>2
<1>4. QED
  BY <1>1, <1>2, <1>3 DEF t

LEMMA TailFacts ==
    ASSUME NEW S, NEW s \in Seq(S), s # <<>>
    PROVE  /\ Tail(s) \in Seq(S) /\ Head(s) \in S /\ Head(s) = s[1] /\ 1 \in DOMAIN s
           /\ \A i \in DOMAIN Tail(s) :
                 i \in Nat /\ i + 1 \in DOMAIN s /\ i + 1 # 1 /\ Tail(s)[i] = s[i + 1]
           /\ \A i \in DOMAIN s : i = 1 \/ (i - 1 \in DOMAIN Tail(s) /\ (i - 1) + 1 = i)
<1> DEFINE t == Tail(s)
<1>1. /\ t \in Seq(S) /\ Len(t) = Len(s) - 1
      /\ \A i \in 1 .. Len(t) : t[i] = s[i + 1]
      /\ Head(s) = s[1] /\ Head(s) \in S
  BY HeadTailProperties
<1>2. /\ Len(s) \in Nat /\ Len(s) >= 1
      /\ DOMAIN s = 1 .. Len(s) /\ DOMAIN t = 1 .. Len(s) - 1
  BY <1>1, SeqFacts, EmptySeq
<1> HIDE DEF t
<1>3. \A i \in DOMAIN t : i \in Nat /\ i + 1 \in DOMAIN s /\ i + 1 # 1 /\ t[i] = s[i + 1]
  BY <1>1, <1>2
<1>4. 1 \in DOMAIN s
  BY <1>2
<1>5. \A i \in DOMAIN s : i = 1 \/ (i - 1 \in DOMAIN t /\ (i - 1) + 1 = i)
  BY <1>2
<1>6. QED
  BY <1>1, <1>3, <1>4, <1>5 DEF t

LEMMA RemoveFacts ==
    ASSUME NEW S, NEW s \in Seq(S), NEW k \in DOMAIN s
    PROVE  LET t == RemoveAt(s, k)
               to(i) == IF i < k THEN i ELSE i + 1
           IN  /\ t \in Seq(S) /\ Len(t) = Len(s) - 1
               /\ \A i \in DOMAIN t :
                     i \in Nat /\ to(i) \in DOMAIN s \ {k} /\ t[i] = s[to(i)]
               /\ \A j \in DOMAIN s \ {k} : \E i \in DOMAIN t : to(i) = j
<1> DEFINE t == RemoveAt(s, k)
           to(i) == IF i < k THEN i ELSE i + 1
<1>1. /\ t \in Seq(S) /\ Len(t) = Len(s) - 1
      /\ \A j \in 1 .. Len(s) - 1 : t[j] = IF j < k THEN s[j] ELSE s[j + 1]
  BY RemoveAtProperties
<1>2. /\ DOMAIN t = 1 .. Len(s) - 1 /\ DOMAIN s = 1 .. Len(s) /\ Len(s) \in Nat
      /\ k \in 1 .. Len(s)
  BY <1>1, SeqFacts
<1> HIDE DEF t
<1>3. ASSUME NEW i \in DOMAIN t
      PROVE  i \in Nat /\ to(i) \in DOMAIN s \ {k} /\ t[i] = s[to(i)]
  BY <1>1, <1>2
<1>4. ASSUME NEW j \in DOMAIN s \ {k} PROVE \E i \in DOMAIN t : to(i) = j
  <2>1. CASE j < k
    <3>1. j \in DOMAIN t /\ to(j) = j
      BY <1>2, <2>1
    <3>2. QED
      BY <3>1
  <2>2. CASE j > k
    <3>1. j - 1 \in DOMAIN t /\ to(j - 1) = j
      BY <1>2, <2>2
    <3>2. QED
      BY <3>1
  <2>3. QED
    BY <1>2, <2>1, <2>2
<1>5. QED
  BY <1>1, <1>3, <1>4 DEF t

IsOp(e, op, k) == e.op = op /\ e.conn = k
None(s, op, k) == \A i \in DOMAIN s : ~IsOp(s[i], op, k)
One(s, op, k) == \E i \in DOMAIN s : \A j \in DOMAIN s : IsOp(s[j], op, k) <=> j = i

\* An op that is added, taken or removed; other packets do not matter.
LEMMA OpAppend ==
    ASSUME NEW S, NEW s \in Seq(S), NEW e \in S, NEW op, NEW k
    PROVE  /\ ~IsOp(e, op, k) => /\ None(s, op, k) => None(Append(s, e), op, k)
                                 /\ One(s, op, k) => One(Append(s, e), op, k)
           /\ IsOp(e, op, k) /\ None(s, op, k) => One(Append(s, e), op, k)
<1> DEFINE t == Append(s, e)
           l == Len(s) + 1
<1>1. /\ DOMAIN t = DOMAIN s \cup {l} /\ l \notin DOMAIN s
      /\ t[l] = e /\ \A i \in DOMAIN s : t[i] = s[i]
  BY AppendFacts
<1> HIDE DEF t, l
<1>2. ~IsOp(e, op, k) => /\ None(s, op, k) => None(t, op, k)
                         /\ One(s, op, k) => One(t, op, k)
  BY <1>1 DEF None, One
<1>3. IsOp(e, op, k) /\ None(s, op, k) => One(t, op, k)
  BY <1>1 DEF None, One
<1>4. QED
  BY <1>2, <1>3 DEF t

LEMMA OpTail ==
    ASSUME NEW S, NEW s \in Seq(S), s # <<>>, NEW op, NEW k
    PROVE  /\ ~IsOp(Head(s), op, k) => /\ None(s, op, k) => None(Tail(s), op, k)
                                       /\ One(s, op, k) => One(Tail(s), op, k)
           /\ IsOp(Head(s), op, k) => /\ ~None(s, op, k)
                                      /\ One(s, op, k) => None(Tail(s), op, k)
<1> DEFINE t == Tail(s)
<1>1. /\ Head(s) = s[1] /\ 1 \in DOMAIN s
      /\ \A i \in DOMAIN t : i \in Nat /\ i + 1 \in DOMAIN s /\ i + 1 # 1 /\ t[i] = s[i + 1]
      /\ \A i \in DOMAIN s : i = 1 \/ (i - 1 \in DOMAIN t /\ (i - 1) + 1 = i)
  BY TailFacts
<1> HIDE DEF t
<1>2. None(s, op, k) => None(t, op, k)
  BY <1>1 DEF None
<1>3. ASSUME ~IsOp(Head(s), op, k), One(s, op, k) PROVE One(t, op, k)
  <2>1. PICK i \in DOMAIN s : \A j \in DOMAIN s : IsOp(s[j], op, k) <=> j = i
    BY <1>3 DEF One
  <2>2. i # 1
    BY <1>1, <1>3, <2>1
  <2>3. i - 1 \in DOMAIN t /\ (i - 1) + 1 = i
    BY <1>1, <2>2
  <2>4. ASSUME NEW j \in DOMAIN t PROVE IsOp(t[j], op, k) <=> j = i - 1
    <3>1. j + 1 \in DOMAIN s /\ t[j] = s[j + 1] /\ j \in Nat /\ i - 1 \in Nat
      BY <1>1, <2>3
    <3>2. IsOp(t[j], op, k) <=> j + 1 = (i - 1) + 1
      BY <2>1, <2>3, <3>1
    <3>3. j + 1 = (i - 1) + 1 <=> j = i - 1
      BY <3>1
    <3>4. QED
      BY <3>2, <3>3
  <2>5. QED
    BY <2>3, <2>4 DEF One
<1>4. IsOp(Head(s), op, k) => ~None(s, op, k)
  BY <1>1 DEF None
<1>5. IsOp(Head(s), op, k) /\ One(s, op, k) => None(t, op, k)
  BY <1>1 DEF None, One
<1>6. QED
  BY <1>2, <1>3, <1>4, <1>5 DEF t

LEMMA OpRemove ==
    ASSUME NEW S, NEW s \in Seq(S), NEW n \in DOMAIN s, NEW op, NEW k
    PROVE  /\ ~IsOp(s[n], op, k) => /\ None(s, op, k) => None(RemoveAt(s, n), op, k)
                                    /\ One(s, op, k) => One(RemoveAt(s, n), op, k)
           /\ IsOp(s[n], op, k) => /\ ~None(s, op, k)
                                   /\ One(s, op, k) => None(RemoveAt(s, n), op, k)
<1> DEFINE t == RemoveAt(s, n)
           to(i) == IF i < n THEN i ELSE i + 1
<1>1. /\ \A i \in DOMAIN t : i \in Nat /\ to(i) \in DOMAIN s \ {n} /\ t[i] = s[to(i)]
      /\ \A j \in DOMAIN s \ {n} : \E i \in DOMAIN t : to(i) = j
  BY RemoveFacts
<1>2. n \in Nat
  BY SeqFacts
<1>3. \A i, j \in DOMAIN t : to(i) = to(j) => i = j
  BY <1>1, <1>2
<1> HIDE DEF t, to
<1>4. None(s, op, k) => None(t, op, k)
  BY <1>1 DEF None
<1>5. ASSUME ~IsOp(s[n], op, k), One(s, op, k) PROVE One(t, op, k)
  <2>1. PICK i \in DOMAIN s : \A j \in DOMAIN s : IsOp(s[j], op, k) <=> j = i
    BY <1>5 DEF One
  <2>2. PICK m \in DOMAIN t : to(m) = i
    BY <1>1, <1>5, <2>1
  <2>3. \A j \in DOMAIN t : IsOp(t[j], op, k) <=> j = m
    BY <1>1, <1>3, <2>1, <2>2
  <2>4. QED
    BY <2>3 DEF One
<1>6. IsOp(s[n], op, k) => ~None(s, op, k)
  BY DEF None
<1>7. IsOp(s[n], op, k) /\ One(s, op, k) => None(t, op, k)
  BY <1>1 DEF None, One
<1>8. QED
  BY <1>4, <1>5, <1>6, <1>7 DEF t

-----------------------------------------------------------------------------
(* The promises, in a form the steps below can use.                         *)

Busy == IF pc["Context"] = "WorkFinished" THEN 1 ELSE 0
Seen == pc["Context"] = "StopSeen"
Held ==
    \/ pc["App"] = "PostStop" \/ pc["Context"] = "PostStop"
    \/ pc["Context"] \in {"CheckStopped", "RepostStop"}

Kept ==
    /\ ~Terminated =>
         /\ outstanding_work = Len(pending) + Len(port) - Stops(port) + Busy
         /\ OneStop(port)
         /\ stop_event_posted <=> HasStop(port) \/ Seen
         /\ Seen => ~HasStop(port)
    /\ stopped => Terminated \/ stop_event_posted \/ Held

LEMMA CInvMeans == (CInv <=> Kept) /\ (CInv <=> Kept)'
<1>1. /\ StopQueued <=> HasStop(port)
      /\ StopQueued' <=> HasStop(port')
  BY DEF StopQueued, HasStop
<1>2. /\ Held <=> \/ \E t \in Threads : pc[t] = "PostStop"
                  \/ pc["Context"] \in {"CheckStopped", "RepostStop"}
      /\ Held' <=> \/ \E t \in Threads : pc'[t] = "PostStop"
                   \/ pc'["Context"] \in {"CheckStopped", "RepostStop"}
  BY DEF Held, Threads
<1>3. CInv <=> Kept
  BY <1>1, <1>2 DEF CInv, WorkCounted, StopEventOnce, StopNotLost, OneStop, Stops,
                    Busy, Seen, Kept
<1>4. CInv' <=> Kept'
  BY <1>1, <1>2 DEF CInv, WorkCounted, StopEventOnce, StopNotLost, OneStop, Stops,
                    Busy, Seen, Kept
<1>5. QED
  BY <1>3, <1>4

LEMMA ContextKept ==
    ASSUME NEW P, NEW O, NEW L, PacketsOf(P, O),
           ContextTypeOK(P, O), pc \in [Threads -> L],
           CInv, ContextNext(P, O)
    PROVE  ContextTypeOK(P, O)' /\ CInv'
<1> SUFFICES ContextTypeOK(P, O)' /\ Kept'
  BY CInvMeans
<1>1. Kept
  BY CInvMeans
<1>2. /\ StopEvent \in P
      /\ \A o \in O, good \in BOOLEAN : Packet(o, good) \in P \ {StopEvent}
  BY DEF PacketsOf
<1>3. /\ port \in Seq(P) /\ pending \in Seq(O)
      /\ Len(port) \in Nat /\ Len(pending) \in Nat
      /\ outstanding_work \in Nat /\ stopped \in BOOLEAN
      /\ stop_event_posted \in BOOLEAN
  BY LenProperties DEF ContextTypeOK
<1>4. Stops(port) \in {0, 1} /\ Busy \in {0, 1}
  BY DEF Stops, Busy
<1>27. /\ Len(port) \in Nat /\ Len(pending) \in Nat /\ outstanding_work \in Nat
      /\ Stops(port) \in Int /\ Busy \in Int
  BY <1>3, <1>4
<1> USE DEF ContextTypeOK
<1> HIDE DEF Kept
<1>5. ASSUME UNCHANGED <<cvars, pc>> PROVE ContextTypeOK(P, O)' /\ Kept'
  BY <1>1, <1>3, <1>5 DEF cvars, Kept, Terminated, Busy, Seen, Held
<1>6. ASSUME Terminated', UNCHANGED cvars PROVE ContextTypeOK(P, O)' /\ Kept'
  BY <1>1, <1>3, <1>6 DEF cvars, Kept
<1>7. ASSUME AppMoves
      PROVE  /\ ~Terminated /\ ~Terminated' /\ Busy' = Busy /\ Seen' = Seen
             /\ Held => Held'
  BY <1>7 DEF AppMoves, Terminated, Busy, Seen, Held
<1>8. ASSUME AppMoves, UNCHANGED cvars PROVE ContextTypeOK(P, O)' /\ Kept'
  BY <1>1, <1>3, <1>7, <1>8 DEF cvars, Kept
<1>9. ASSUME AppMoves, NEW o \in O, Start(o) PROVE ContextTypeOK(P, O)' /\ Kept'
  <2>0. ~Terminated /\ ~Terminated' /\ Busy' = Busy /\ Seen' = Seen
        /\ (Held => Held')
    BY <1>7, <1>9
  <2>1. /\ pending' = Append(pending, o) /\ outstanding_work' = outstanding_work + 1
        /\ port' = port /\ stopped' = stopped
        /\ stop_event_posted' = stop_event_posted
    BY <1>9 DEF Start
  <2>2. pending' \in Seq(O) /\ Len(pending') = Len(pending) + 1
    BY <2>1, <1>3, AppendProperties
  <2>3. /\ outstanding_work = Len(pending) + Len(port) - Stops(port) + Busy
        /\ OneStop(port)
        /\ stop_event_posted <=> HasStop(port) \/ Seen
        /\ Seen => ~HasStop(port)
        /\ stopped => stop_event_posted \/ Held
    BY <1>1, <2>0 DEF Kept
  <2>4. outstanding_work' = Len(pending') + Len(port') - Stops(port') + Busy'
    <3>1. /\ outstanding_work' = outstanding_work + 1 /\ Busy' = Busy
          /\ Len(pending') = Len(pending) + 1 /\ Len(port') = Len(port)
          /\ Stops(port') = Stops(port)
      BY <2>0, <2>1, <2>2
    <3>2. outstanding_work = Len(pending) + Len(port) - Stops(port) + Busy
      BY <2>3
    <3>3. QED
      BY <1>27, <3>1, <3>2
  <2>5. Kept'
    BY <2>0, <2>1, <2>2, <2>3, <2>4 DEF Kept
  <2>6. QED
    BY <1>3, <2>1, <2>2, <2>5
<1>10. ASSUME AppMoves, NEW p \in P \ {StopEvent}, Post(p)
       PROVE  ContextTypeOK(P, O)' /\ Kept'
  <2>0. ~Terminated /\ ~Terminated' /\ Busy' = Busy /\ Seen' = Seen
        /\ (Held => Held')
    BY <1>7, <1>10
  <2>1. /\ port' = Append(port, p) /\ outstanding_work' = outstanding_work + 1
        /\ pending' = pending /\ stopped' = stopped
        /\ stop_event_posted' = stop_event_posted
    BY <1>10 DEF Post
  <2>2. ~Terminated /\ OneStop(port)
    BY <1>1, <1>7, <1>10 DEF Kept
  <2>3. /\ port' \in Seq(P) /\ Len(port') = Len(port) + 1
        /\ HasStop(port') <=> HasStop(port)
        /\ OneStop(port')
    BY <1>3, <2>1, <2>2, AppendPacket
  <2>4. Stops(port') = Stops(port)
    BY <2>3 DEF Stops
  <2>5. /\ outstanding_work = Len(pending) + Len(port) - Stops(port) + Busy
        /\ OneStop(port)
        /\ stop_event_posted <=> HasStop(port) \/ Seen
        /\ Seen => ~HasStop(port)
        /\ stopped => stop_event_posted \/ Held
    BY <1>1, <2>0 DEF Kept
  <2>6. outstanding_work' = Len(pending') + Len(port') - Stops(port') + Busy'
    <3>1. /\ outstanding_work' = outstanding_work + 1 /\ Busy' = Busy
          /\ Len(pending') = Len(pending) /\ Len(port') = Len(port) + 1
          /\ Stops(port') = Stops(port)
      BY <2>0, <2>1, <2>3, <2>4
    <3>2. outstanding_work = Len(pending) + Len(port) - Stops(port) + Busy
      BY <2>5
    <3>3. QED
      BY <1>27, <3>1, <3>2
  <2>7. Kept'
    BY <2>0, <2>1, <2>3, <2>4, <2>5, <2>6 DEF Kept
  <2>8. QED
    BY <1>3, <2>1, <2>3, <2>4, <2>7
<1>11. ASSUME ~Terminated, NEW i \in DOMAIN pending, NEW good \in BOOLEAN,
              Complete(i, good)
       PROVE  ContextTypeOK(P, O)' /\ Kept'
  <2>1. /\ pending' = RemoveAt(pending, i)
        /\ port' = Append(port, Packet(pending[i], good))
        /\ outstanding_work' = outstanding_work /\ stopped' = stopped
        /\ stop_event_posted' = stop_event_posted /\ pc' = pc
    BY <1>11 DEF Complete
  <2>2. OneStop(port)
    BY <1>1, <1>11 DEF Kept
  <2>3. pending[i] \in O /\ i \in 1 .. Len(pending)
    BY <1>3, ElementOfSeq
  <2>4. Packet(pending[i], good) \in P \ {StopEvent}
    BY <1>2, <2>3
  <2>5. /\ port' \in Seq(P) /\ Len(port') = Len(port) + 1
        /\ HasStop(port') <=> HasStop(port)
        /\ OneStop(port')
    BY <1>3, <2>1, <2>2, <2>4, AppendPacket
  <2>6. pending' \in Seq(O) /\ Len(pending') = Len(pending) - 1
    BY <1>3, <2>1, RemoveAtProperties
  <2>7. Stops(port') = Stops(port)
    BY <2>5 DEF Stops
  <2>8. Busy' = Busy /\ Seen' = Seen /\ (Terminated' <=> Terminated)
        /\ (Held' <=> Held)
    BY <2>1 DEF Busy, Seen, Terminated, Held
  <2>9. /\ outstanding_work = Len(pending) + Len(port) - Stops(port) + Busy
        /\ stop_event_posted <=> HasStop(port) \/ Seen
        /\ Seen => ~HasStop(port)
        /\ stopped => stop_event_posted \/ Held
    BY <1>1, <1>11 DEF Kept
  <2>10. outstanding_work' = Len(pending') + Len(port') - Stops(port') + Busy'
    <3>1. outstanding_work' = outstanding_work
      BY <2>1
    <3>2. /\ Len(port') = Len(port) + 1 /\ Len(pending') = Len(pending) - 1
          /\ Stops(port') = Stops(port) /\ Busy' = Busy
      BY <2>5, <2>6, <2>7, <2>8
    <3>3. outstanding_work = Len(pending) + Len(port) - Stops(port) + Busy
      BY <2>9
    <3>4. QED
      BY <1>27, <3>1, <3>2, <3>3
  <2>11. Kept'
    BY <2>1, <2>5, <2>8, <2>9, <2>10 DEF Kept
  <2>12. QED
    BY <1>3, <2>1, <2>5, <2>6, <2>11
<1>12. ASSUME NEW lambdas \in Seq(P \ {StopEvent}), NEW started \in Seq(O),
              Handling(Head(port)), Handle(lambdas, started)
       PROVE  ContextTypeOK(P, O)' /\ Kept'
  <2>1. /\ pc["Context"] = "DoOne" /\ port # <<>> /\ Head(port) # StopEvent
        /\ port' = Tail(port) \o lambdas /\ pending' = pending \o started
        /\ outstanding_work' = outstanding_work + Len(lambdas) + Len(started)
        /\ pc' = [pc EXCEPT !["Context"] = "WorkFinished"]
        /\ stopped' = stopped /\ stop_event_posted' = stop_event_posted
    BY <1>12 DEF Handling, Handle, Goto
  <2>2. /\ Busy = 0 /\ Busy' = 1 /\ ~Seen /\ ~Seen' /\ ~Terminated /\ ~Terminated'
        /\ Held => Held'
    BY <2>1 DEF Busy, Seen, Terminated, Held, Threads
  <2>3. OneStop(port)
    BY <1>1, <2>2 DEF Kept
  <2>4. /\ Tail(port) \in Seq(P) /\ Len(Tail(port)) = Len(port) - 1
        /\ HasStop(Tail(port)) <=> HasStop(port)
        /\ OneStop(Tail(port))
    BY <1>3, <2>1, <2>3, TailStops
  <2>5. /\ port' \in Seq(P) /\ Len(port') = Len(Tail(port)) + Len(lambdas)
        /\ HasStop(port') <=> HasStop(Tail(port))
        /\ OneStop(port')
    BY <2>1, <2>4, ConcatStops
  <2>6. pending' \in Seq(O) /\ Len(pending') = Len(pending) + Len(started)
    BY <1>3, <2>1, ConcatProperties
  <2>7. Len(lambdas) \in Nat /\ Len(started) \in Nat
    BY LenProperties
  <2>8. Stops(port') = Stops(port)
    BY <2>4, <2>5 DEF Stops
  <2>9. /\ outstanding_work = Len(pending) + Len(port) - Stops(port) + Busy
        /\ stop_event_posted <=> HasStop(port) \/ Seen
        /\ stopped => stop_event_posted \/ Held
    BY <1>1, <2>2 DEF Kept
  <2>10. outstanding_work' = Len(pending') + Len(port') - Stops(port') + Busy'
    <3>1. /\ outstanding_work' = outstanding_work + Len(lambdas) + Len(started)
          /\ Len(port') = Len(port) - 1 + Len(lambdas)
          /\ Len(pending') = Len(pending) + Len(started)
          /\ Stops(port') = Stops(port) /\ Busy = 0 /\ Busy' = 1
      BY <2>1, <2>2, <2>4, <2>5, <2>6, <2>8
    <3>2. outstanding_work = Len(pending) + Len(port) - Stops(port) + Busy
      BY <2>9
    <3>3. /\ outstanding_work \in Int /\ Len(pending) \in Int /\ Len(port) \in Int
          /\ Stops(port) \in Int /\ Len(lambdas) \in Int /\ Len(started) \in Int
      BY <1>27, <2>7
    <3>4. outstanding_work = Len(pending) + Len(port) - Stops(port) + 0
      BY <3>1, <3>2
    <3>5. PICK w \in Int, l \in Int, q \in Int, s \in Int, m \in Int, n \in Int :
             /\ w = outstanding_work /\ l = Len(pending) /\ q = Len(port)
             /\ s = Stops(port) /\ m = Len(lambdas) /\ n = Len(started)
      BY <3>3
    <3>6. w = l + q - s + 0
      BY <3>4, <3>5
    <3>7. w + m + n = (l + n) + (q - 1 + m) - s + 1
      BY <3>6
    <3>8. QED
      BY <3>1, <3>5, <3>7
  <2>11. outstanding_work' \in Nat
    BY <1>3, <2>1, <2>7
  <2>12. Kept'
    BY <2>1, <2>2, <2>4, <2>5, <2>9, <2>10 DEF Kept
  <2>13. QED
    BY <1>3, <2>1, <2>5, <2>6, <2>11, <2>12
<1>13. ASSUME NEW t \in Threads, StopFlag(t), ~Terminated
       PROVE  ContextTypeOK(P, O)' /\ Kept'
  <2>1. /\ pc[t] = "StopFlag" /\ stopped' = TRUE
        /\ \/ stopped /\ pc' = [pc EXCEPT ![t] = AfterStop(t)]
           \/ ~stopped /\ pc' = [pc EXCEPT ![t] = "PostStop"]
        /\ port' = port /\ pending' = pending
        /\ outstanding_work' = outstanding_work
        /\ stop_event_posted' = stop_event_posted
    BY <1>13 DEF StopFlag, Goto
  <2>2. /\ Busy' = Busy /\ Seen' = Seen /\ ~Terminated'
    BY <1>13, <2>1 DEF Busy, Seen, Terminated, Threads, AfterStop
  <2>3. stopped /\ Held => Held'
    BY <2>1 DEF Held, Threads, AfterStop
  <2>4. ~stopped => Held'
    BY <2>1 DEF Held, Threads
  <2>5. QED
    BY <1>1, <1>3, <1>13, <2>1, <2>2, <2>3, <2>4 DEF Kept
<1>14. ASSUME PostStopEvent, ~Terminated, Seen' = Seen, Busy' = Busy,
              UNCHANGED <<pending, outstanding_work, stopped>>
       PROVE  ContextTypeOK(P, O)' /\ Kept'
  <2>1. /\ stop_event_posted' = TRUE
        /\ port' = IF stop_event_posted THEN port ELSE Append(port, StopEvent)
        /\ pending' = pending /\ outstanding_work' = outstanding_work
        /\ stopped' = stopped
    BY <1>14 DEF PostStopEvent
  <2>2. /\ outstanding_work = Len(pending) + Len(port) - Stops(port) + Busy
        /\ OneStop(port)
        /\ stop_event_posted <=> HasStop(port) \/ Seen
        /\ Seen => ~HasStop(port)
    BY <1>1, <1>14 DEF Kept
  <2>3. CASE stop_event_posted
    <3>1. port' = port
      BY <2>1, <2>3
    <3>2. QED
      BY <1>3, <1>14, <2>1, <2>2, <2>3, <3>1 DEF Kept
  <2>4. CASE ~stop_event_posted
    <3>1. port' = Append(port, StopEvent)
      BY <2>1, <2>4
    <3>2. /\ port' \in Seq(P) /\ Len(port') = Len(port) + 1
          /\ HasStop(port') /\ OneStop(port')
      BY <1>2, <1>3, <2>2, <2>4, <3>1, AppendStop
    <3>3. Stops(port) = 0 /\ Stops(port') = 1 /\ ~Seen'
      BY <1>14, <2>2, <2>4, <3>2 DEF Stops
    <3>4. outstanding_work' = Len(pending') + Len(port') - Stops(port') + Busy'
      BY <1>3, <1>4, <1>14, <2>1, <2>2, <3>2, <3>3
    <3>5. QED
      BY <1>3, <2>1, <3>2, <3>3, <3>4 DEF Kept
  <2>5. QED
    BY <2>3, <2>4
<1>17. ASSUME NEW t \in Threads, PostStop(t), ~Terminated
       PROVE  ContextTypeOK(P, O)' /\ Kept'
  <2>1. /\ pc[t] = "PostStop" /\ PostStopEvent
        /\ pc' = [pc EXCEPT ![t] = AfterStop(t)]
        /\ UNCHANGED <<pending, outstanding_work, stopped>>
    BY <1>17 DEF PostStop, Goto
  <2>2. Busy' = Busy /\ Seen' = Seen
    BY <2>1 DEF Busy, Seen, Threads, AfterStop
  <2>3. QED
    BY <1>14, <1>17, <2>1, <2>2
<1>18. ASSUME Run PROVE ContextTypeOK(P, O)' /\ Kept'
  <2>1. /\ pc["Context"] = "Run" /\ pc' = [pc EXCEPT !["Context"] = "DoOne"]
        /\ UNCHANGED cvars
    BY <1>18 DEF Run, Goto, cvars
  <2>2. /\ ~Terminated /\ ~Terminated' /\ Busy = 0 /\ Busy' = 0 /\ ~Seen /\ ~Seen'
        /\ Held => Held'
    BY <2>1 DEF Terminated, Busy, Seen, Held, Threads
  <2>3. QED
    BY <1>1, <1>3, <2>1, <2>2 DEF Kept, cvars
<1>19. ASSUME WorkFinished PROVE ContextTypeOK(P, O)' /\ Kept'
  <2>1. /\ pc["Context"] = "WorkFinished"
        /\ outstanding_work' = outstanding_work - 1
        /\ port' = port /\ pending' = pending /\ stopped' = stopped
        /\ stop_event_posted' = stop_event_posted
        /\ \/ pc' = [pc EXCEPT !["Context"] = "StopFlag"]
           \/ pc' = [pc EXCEPT !["Context"] = "DoOne"]
    BY <1>19 DEF WorkFinished, Goto
  <2>2. /\ ~Terminated /\ ~Terminated' /\ Busy = 1 /\ Busy' = 0 /\ ~Seen /\ ~Seen'
        /\ Held => Held'
    BY <2>1 DEF Terminated, Busy, Seen, Held, Threads
  <2>3. Len(port) - Stops(port) >= 0
    BY <1>3, EmptySeq DEF Stops, HasStop
  <2>4. QED
    BY <1>1, <1>3, <1>4, <2>1, <2>2, <2>3 DEF Kept
<1>20. ASSUME TakeStop PROVE ContextTypeOK(P, O)' /\ Kept'
  <2>1. /\ pc["Context"] = "DoOne" /\ port # <<>> /\ Head(port) = StopEvent
        /\ port' = Tail(port)
        /\ pc' = [pc EXCEPT !["Context"] = "StopSeen"]
        /\ pending' = pending /\ outstanding_work' = outstanding_work
        /\ stopped' = stopped /\ stop_event_posted' = stop_event_posted
    BY <1>20 DEF TakeStop, Goto
  <2>2. /\ ~Terminated /\ ~Terminated' /\ Busy = 0 /\ Busy' = 0 /\ ~Seen /\ Seen'
        /\ Held => Held'
    BY <2>1 DEF Terminated, Busy, Seen, Held, Threads
  <2>3. OneStop(port)
    BY <1>1, <2>2 DEF Kept
  <2>4. /\ port' \in Seq(P) /\ Len(port') = Len(port) - 1
        /\ HasStop(port) /\ ~HasStop(port') /\ OneStop(port')
    BY <1>3, <2>1, <2>3, TailStops
  <2>5. Stops(port) = 1 /\ Stops(port') = 0
    BY <2>4 DEF Stops
  <2>6. QED
    BY <1>1, <1>3, <2>1, <2>2, <2>4, <2>5 DEF Kept
<1>21. ASSUME StopSeen PROVE ContextTypeOK(P, O)' /\ Kept'
  <2>1. /\ pc["Context"] = "StopSeen" /\ stop_event_posted' = FALSE
        /\ pc' = [pc EXCEPT !["Context"] = "CheckStopped"]
        /\ port' = port /\ pending' = pending
        /\ outstanding_work' = outstanding_work /\ stopped' = stopped
    BY <1>21 DEF StopSeen, Goto
  <2>2. /\ ~Terminated /\ ~Terminated' /\ Busy = 0 /\ Busy' = 0 /\ Seen /\ ~Seen'
        /\ Held'
    BY <2>1 DEF Terminated, Busy, Seen, Held, Threads
  <2>3. QED
    BY <1>1, <1>3, <2>1, <2>2 DEF Kept
<1>22. ASSUME CheckStopped PROVE ContextTypeOK(P, O)' /\ Kept'
  <2>1. /\ pc["Context"] = "CheckStopped"
        /\ \/ stopped /\ pc' = [pc EXCEPT !["Context"] = "RepostStop"]
           \/ ~stopped /\ pc' = [pc EXCEPT !["Context"] = "DoOne"]
        /\ UNCHANGED cvars
    BY <1>22 DEF CheckStopped, Goto, cvars
  <2>2. /\ ~Terminated /\ ~Terminated' /\ Busy = 0 /\ Busy' = 0 /\ ~Seen /\ ~Seen'
        /\ stopped => Held'
    BY <2>1 DEF Terminated, Busy, Seen, Held, Threads
  <2>3. QED
    BY <1>1, <1>3, <2>1, <2>2 DEF Kept, cvars
<1>23. ASSUME RepostStop PROVE ContextTypeOK(P, O)' /\ Kept'
  <2>1. /\ pc["Context"] = "RepostStop" /\ PostStopEvent
        /\ pc' = [pc EXCEPT !["Context"] = "Restart"]
        /\ UNCHANGED <<pending, outstanding_work, stopped>>
    BY <1>23 DEF RepostStop, Goto
  <2>2. ~Terminated /\ Busy' = Busy /\ Seen' = Seen
    BY <2>1 DEF Terminated, Busy, Seen, Threads
  <2>3. QED
    BY <1>14, <2>1, <2>2
<1>24. ASSUME Restart PROVE ContextTypeOK(P, O)' /\ Kept'
  <2>1. /\ pc["Context"] = "Restart" /\ stopped' = FALSE
        /\ pc' = [pc EXCEPT !["Context"] = "Done"]
        /\ port' = port /\ pending' = pending
        /\ outstanding_work' = outstanding_work
        /\ stop_event_posted' = stop_event_posted
    BY <1>24 DEF Restart, Goto
  <2>2. ~Terminated /\ ~Terminated' /\ Busy = 0 /\ Busy' = 0 /\ ~Seen /\ ~Seen'
    BY <2>1 DEF Terminated, Busy, Seen, Threads
  <2>3. QED
    BY <1>1, <1>3, <2>1, <2>2 DEF Kept
<1>25. ASSUME ContextStep PROVE ContextTypeOK(P, O)' /\ Kept'
  <2>1. StopFlag("Context") \/ PostStop("Context") => ~Terminated
    BY DEF StopFlag, PostStop, Terminated
  <2>2. QED
    BY <1>13, <1>17, <1>18, <1>19, <1>20, <1>21, <1>22, <1>23, <1>24, <1>25, <2>1
       DEF ContextStep, Threads
<1>26. ASSUME ~Terminated, AppStopStep PROVE ContextTypeOK(P, O)' /\ Kept'
  BY <1>13, <1>17, <1>26 DEF AppStopStep, Threads
<1>15. ASSUME NEW label, Join(label) PROVE ContextTypeOK(P, O)' /\ Kept'
  <2>1. /\ pc["App"] = "Join" /\ pc["Context"] \in {"Done", "None"}
        /\ pc' = [pc EXCEPT !["App"] = label, !["Context"] = "None"]
        /\ UNCHANGED cvars
    BY <1>15 DEF Join, cvars
  <2>2. /\ pc'["Context"] = "None"
    BY <2>1 DEF Threads
  <2>3. /\ Busy = 0 /\ Busy' = 0 /\ ~Seen /\ ~Seen' /\ ~Terminated /\ ~Terminated'
        /\ ~Held
    BY <2>1, <2>2 DEF Busy, Seen, Terminated, Held
  <2>4. QED
    BY <1>1, <1>3, <2>1, <2>3 DEF Kept, cvars
<1>16. QED
  BY <1>5, <1>6, <1>8, <1>9, <1>10, <1>11, <1>12, <1>15, <1>25,
     <1>26 DEF ContextNext

-----------------------------------------------------------------------------
(* Packets come up in the queue.  K is a set of packets.                    *)

\* A packet of K is among the first n of the port; do_one takes one next.
Within(K, n) == \E i \in DOMAIN port : i <= n /\ port[i] \in K
AtHead(K) == pc["Context"] = "DoOne" /\ port # <<>> /\ Head(port) \in K

NotRunning == pc["Context"] \in {"None", "Done", "Terminated"}

\* What others do to the port while the context's thread does nothing, and what a
\* handler does to it.
OthersPost(P) ==
    pc'["Context"] = pc["Context"] /\ \E new \in Seq(P) : port' = port \o new
HandlerRuns(P) ==
    /\ Handling(Head(port))
    /\ pc'["Context"] = "WorkFinished"
    /\ \E new \in Seq(P) : port' = Tail(port) \o new

\* How many steps at most the thread is from do_one, or from its end.
Steps(n) ==
    CASE n = 0 -> {"DoOne", "Restart"}
      [] n = 1 -> {"Run", "PostStop", "RepostStop"}
      [] n = 2 -> {"CheckStopped", "StopFlag"}
      [] n = 3 -> {"StopSeen", "WorkFinished"}

LEMMA OthersKeepQueue ==
    ASSUME NEW P, port \in Seq(P), OthersPost(P), NEW K, NEW n \in Nat
    PROVE  /\ Within(K, n) => Within(K, n)'
           /\ AtHead(K) => AtHead(K)'
<1>1. PICK new \in Seq(P) : port' = port \o new
  BY DEF OthersPost
<1>2. /\ port' \in Seq(P) /\ Len(port') = Len(port) + Len(new)
      /\ \A i \in 1 .. Len(port) + Len(new) :
            port'[i] = IF i <= Len(port) THEN port[i] ELSE new[i - Len(port)]
  BY <1>1, ConcatProperties
<1>3. /\ DOMAIN port = 1 .. Len(port) /\ DOMAIN port' = 1 .. Len(port')
      /\ Len(port) \in Nat /\ Len(new) \in Nat
  BY <1>2, LenProperties
<1>4. \A i \in DOMAIN port : i \in DOMAIN port' /\ port'[i] = port[i]
  BY <1>2, <1>3
<1>5. Within(K, n) => Within(K, n)'
  BY <1>4 DEF Within
<1>6. ASSUME AtHead(K) PROVE AtHead(K)'
  <2>1. port # <<>> /\ Head(port) \in K
    BY <1>6 DEF AtHead
  <2>2. Head(port) = port[1] /\ Len(port) # 0
    BY <2>1, HeadTailProperties, EmptySeq
  <2>3. 1 \in DOMAIN port
    BY <1>3, <2>2
  <2>4. port'[1] = port[1] /\ 1 \in DOMAIN port'
    BY <1>4, <2>3
  <2>5. port' # <<>>
    BY <1>3, <2>4
  <2>6. Head(port') = port'[1]
    BY <1>2, <2>5, HeadTailProperties
  <2>7. pc'["Context"] = "DoOne"
    BY <1>6 DEF AtHead, OthersPost
  <2>8. QED
    BY <2>1, <2>2, <2>4, <2>5, <2>6, <2>7 DEF AtHead
<1>7. QED
  BY <1>5, <1>6

\* Without its first packet the others are one place nearer.
LEMMA TailNearer ==
    ASSUME NEW P, port \in Seq(P), port # <<>>, NEW new \in Seq(P), port' = Tail(port) \o new,
           NEW K, NEW n \in Nat, Within(K, n + 1), Head(port) \notin K
    PROVE  Within(K, n)'
<1>1. /\ Tail(port) \in Seq(P) /\ Len(Tail(port)) = Len(port) - 1
      /\ \A i \in 1 .. Len(Tail(port)) : Tail(port)[i] = port[i + 1]
      /\ Head(port) = port[1]
  BY HeadTailProperties
<1>2. /\ port' \in Seq(P) /\ Len(port') = Len(Tail(port)) + Len(new)
      /\ \A i \in 1 .. Len(Tail(port)) + Len(new) :
            port'[i] = IF i <= Len(Tail(port)) THEN Tail(port)[i] ELSE new[i - Len(Tail(port))]
  BY <1>1, ConcatProperties
<1>3. /\ DOMAIN port = 1 .. Len(port) /\ DOMAIN port' = 1 .. Len(port')
      /\ Len(port) \in Nat /\ Len(new) \in Nat /\ Len(Tail(port)) \in Nat
  BY <1>1, <1>2, LenProperties
<1>4. PICK i \in DOMAIN port : i <= n + 1 /\ port[i] \in K
  BY DEF Within
<1>5. i \in 1 .. Len(port) /\ i # 1
  BY <1>1, <1>3, <1>4
<1>6. i - 1 \in 1 .. Len(Tail(port)) /\ i - 1 <= n /\ (i - 1) + 1 = i
  BY <1>1, <1>3, <1>4, <1>5
<1>7. i - 1 \in DOMAIN port' /\ port'[i - 1] = port[i]
  BY <1>1, <1>2, <1>3, <1>6
<1>8. QED
  BY <1>4, <1>6, <1>7 DEF Within

\* A handler, or a step of the context itself, brings the packets nearer or the thread
\* nearer to do_one.
LEMMA HandlerNearer ==
    ASSUME NEW P, port \in Seq(P), HandlerRuns(P), NEW K, NEW n \in Nat, Within(K, n + 1)
    PROVE  AtHead(K) \/ Within(K, n)'
BY TailNearer DEF HandlerRuns, Handling, AtHead

LEMMA ContextNearer ==
    ASSUME NEW P, port \in Seq(P), StopEvent \in P, ContextStep, NEW K, NEW n \in Nat, Within(K, n + 1),
           NEW S, pc \in [Threads -> S]
    PROVE  \/ AtHead(K) \/ Within(K, n)' \/ NotRunning'
           \/ /\ Within(K, n + 1)'
              /\ \/ pc["Context"] \in Steps(1) /\ pc'["Context"] \in Steps(0)
                 \/ pc["Context"] \in Steps(2) /\ pc'["Context"] \in Steps(0) \cup Steps(1)
                 \/ /\ pc["Context"] \in Steps(3)
                    /\ pc'["Context"] \in Steps(0) \cup Steps(1) \cup Steps(2)
<1> DEFINE from == pc["Context"]
           to == pc'["Context"]
<1>1. \A label : Goto("Context", label) => to = label
  BY DEF Goto, Threads
<1>2. port' = port => Within(K, n + 1)'
  BY DEF Within
<1>3. ASSUME PostStopEvent PROVE Within(K, n + 1)'
  <2>1. port' = port \/ port' = Append(port, StopEvent)
    BY <1>3 DEF PostStopEvent
  <2>2. \A i \in DOMAIN port : i \in DOMAIN port' /\ port'[i] = port[i]
    <3>1. /\ \A i \in 1 .. Len(port) : Append(port, StopEvent)[i] = port[i]
          /\ Append(port, StopEvent) \in Seq(P)
          /\ Len(Append(port, StopEvent)) = Len(port) + 1
      BY AppendProperties
    <3>2. /\ DOMAIN port = 1 .. Len(port) /\ Len(port) \in Nat
          /\ DOMAIN Append(port, StopEvent) = 1 .. Len(port) + 1
      BY <3>1, LenProperties
    <3>3. QED
      BY <2>1, <3>1, <3>2
  <2>3. QED
    BY <2>2 DEF Within
<1>4. /\ Steps(0) = {"DoOne", "Restart"} /\ Steps(1) = {"Run", "PostStop", "RepostStop"}
      /\ Steps(2) = {"CheckStopped", "StopFlag"} /\ Steps(3) = {"StopSeen", "WorkFinished"}
  BY DEF Steps
<1>5. CASE TakeStop
  <2>1. /\ from = "DoOne" /\ port # <<>> /\ port' = Tail(port) \o <<>>
    <3>1. Tail(port) \in Seq(P)
      BY <1>5, HeadTailProperties DEF TakeStop
    <3>2. Tail(port) \o <<>> = Tail(port)
      BY <3>1
    <3>3. QED
      BY <1>5, <3>2 DEF TakeStop
  <2>2. <<>> \in Seq(P)
    OBVIOUS
  <2>3. QED
    BY <2>1, <2>2, TailNearer DEF AtHead
<1>6. CASE Run
  BY <1>1, <1>2, <1>4, <1>6 DEF Run
<1>7. CASE WorkFinished
  BY <1>1, <1>2, <1>4, <1>7 DEF WorkFinished
<1>8. CASE StopFlag("Context")
  BY <1>1, <1>2, <1>4, <1>8 DEF StopFlag, AfterStop
<1>9. CASE PostStop("Context")
  BY <1>1, <1>3, <1>4, <1>9 DEF PostStop, AfterStop
<1>10. CASE StopSeen
  BY <1>1, <1>2, <1>4, <1>10 DEF StopSeen
<1>11. CASE CheckStopped
  BY <1>1, <1>2, <1>4, <1>11 DEF CheckStopped
<1>12. CASE RepostStop
  BY <1>1, <1>3, <1>4, <1>12 DEF RepostStop
<1>13. CASE Restart
  BY <1>1, <1>13 DEF Restart, NotRunning
<1>14. QED
  BY <1>5, <1>6, <1>7, <1>8, <1>9, <1>10, <1>11, <1>12, <1>13 DEF ContextStep

-----------------------------------------------------------------------------
(* The application's thread stops the context and joins its thread.         *)

Joining == pc["App"] = "Join"

\* Who waits for the thread to end has stopped the context.
JoinSeen == pc["App"] \in {"PostStop", "Join"} /\ ~NotRunning => stopped

\* What a step of the context itself does to the places of the threads, and to stopped_.
LEMMA ContextPlaces ==
    ASSUME ContextStep, NEW S, pc \in [Threads -> S]
    PROVE  /\ pc'["App"] = pc["App"] /\ pc' # pc /\ ~NotRunning
           /\ stopped' = stopped \/ stopped' = TRUE \/ pc'["Context"] = "Done"
           /\ pc["Context"] = "PostStop" /\ stopped => pc'["Context"] = "DoOne" /\ stop_event_posted'
           /\ pc["Context"] = "StopSeen" => pc'["Context"] = "CheckStopped"
           /\ pc["Context"] = "CheckStopped" /\ stopped => pc'["Context"] = "RepostStop"
           /\ pc["Context"] = "RepostStop" => pc'["Context"] = "Restart"
           /\ pc["Context"] = "Restart" => pc'["Context"] = "Done"
           /\ AtHead({StopEvent}) => pc'["Context"] = "StopSeen"
<1>1. \A label : Goto("Context", label) => pc'["Context"] = label /\ pc'["App"] = pc["App"]
  BY DEF Goto, Threads
<1>2. pc'["App"] = pc["App"] /\ ~NotRunning
  BY <1>1 DEF ContextStep, Run, WorkFinished, StopFlag, PostStop, TakeStop, StopSeen,
     CheckStopped, RepostStop, Restart, NotRunning
<1>3. pc' # pc
  BY <1>1 DEF ContextStep, Run, WorkFinished, StopFlag, PostStop, TakeStop, StopSeen,
     CheckStopped, RepostStop, Restart, AfterStop
<1>4. stopped' = stopped \/ stopped' = TRUE \/ pc'["Context"] = "Done"
  BY <1>1 DEF ContextStep, Run, WorkFinished, StopFlag, PostStop, TakeStop, StopSeen,
     CheckStopped, RepostStop, Restart
<1>5. /\ pc["Context"] = "PostStop" /\ stopped => pc'["Context"] = "DoOne" /\ stop_event_posted'
      /\ pc["Context"] = "StopSeen" => pc'["Context"] = "CheckStopped"
  BY <1>1 DEF ContextStep, Run, WorkFinished, StopFlag, PostStop, TakeStop, StopSeen,
     CheckStopped, RepostStop, Restart, PostStopEvent, AfterStop
<1>6. /\ pc["Context"] = "CheckStopped" /\ stopped => pc'["Context"] = "RepostStop"
      /\ pc["Context"] = "RepostStop" => pc'["Context"] = "Restart"
      /\ pc["Context"] = "Restart" => pc'["Context"] = "Done"
  BY <1>1 DEF ContextStep, Run, WorkFinished, StopFlag, PostStop, TakeStop, StopSeen,
     CheckStopped, RepostStop, Restart
<1>7. AtHead({StopEvent}) => pc'["Context"] = "StopSeen"
  BY <1>1 DEF ContextStep, Run, WorkFinished, StopFlag, PostStop, TakeStop, StopSeen,
     CheckStopped, RepostStop, Restart, AtHead
<1>8. QED
  BY <1>2, <1>3, <1>4, <1>5, <1>6, <1>7

\* Where the context's thread and the stop event can be while the thread is joined.
LEMMA JoiningStates ==
    ASSUME CInv, JoinSeen, Joining, ~Terminated, NEW P, port \in Seq(P)
    PROVE  \/ NotRunning
           \/ Within({StopEvent}, Len(port))
           \/ pc["Context"] \in {"PostStop", "StopSeen", "CheckStopped", "RepostStop"}
<1>1. CASE ~NotRunning
  <2>1. stopped /\ pc["App"] = "Join"
    BY <1>1 DEF JoinSeen, Joining
  <2>2. StopEventOnce /\ StopNotLost
    BY DEF CInv
  <2>3. \/ StopQueued
        \/ pc["Context"] \in {"PostStop", "StopSeen", "CheckStopped", "RepostStop"}
    BY <2>1, <2>2 DEF StopEventOnce, StopNotLost, Threads
  <2>4. \A i \in DOMAIN port : i <= Len(port)
    BY LenProperties
  <2>5. StopQueued => Within({StopEvent}, Len(port))
    BY <2>4 DEF StopQueued, Within
  <2>6. QED
    BY <2>3, <2>5
<1>2. QED
  BY <1>1

\* Nothing is among the first 0 packets of the port.
LEMMA NothingWithinNone ==
    ASSUME NEW P, port \in Seq(P), NEW K
    PROVE  ~Within(K, 0)
<1>1. \A i \in DOMAIN port : ~(i <= 0)
  BY LenProperties
<1>2. QED
  BY <1>1 DEF Within
=============================================================================
