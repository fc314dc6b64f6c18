--------------------------- MODULE TSDequeProofs ---------------------------
(***************************************************************************)
(* What the deque of TSDeque guarantees for any number of threads that add *)
(* messages and one that polls: mutual exclusion, no message taken that is *)
(* not there, none lost, repeated or out of order.                         *)
(***************************************************************************)
EXTENDS TSDeque, SequenceTheorems, TLAPS

-----------------------------------------------------------------------------
(* Threads and locks.                                                       *)

Locks == ThreadTypes /\ MutualExclusion

\* A step that moves one thread and touches no mutex.
LEMMA Moves ==
  ASSUME Locks, NEW t \in Threads, NEW l \in PushLabels \cup PollLabels \cup StopLabels, Goto(t, l),
         t \in Producers => l \in PushLabels,
         t \in Consumers => l \in PollLabels,
         t = Stopper => l \in StopLabels,
         pc[t] \in HoldsDeque <=> l \in HoldsDeque,
         pc[t] \in HoldsCondition <=> l \in HoldsCondition,
         UNCHANGED <<dequeMutex, conditionMutex>>
  PROVE  Locks'
<1>1. pc'[t] = l /\ \A u \in Threads : u # t => pc'[u] = pc[u]
  BY DEF Locks, ThreadTypes, Goto
<1>2. ThreadTypes'
  BY <1>1 DEF Locks, ThreadTypes, Goto, Threads
<1>3. MutualExclusion'
  BY <1>1 DEF Locks, MutualExclusion
<1> QED
  BY <1>2, <1>3 DEF Locks

\* notify_one moves the notifier on and wakes at most one thread.
LEMMA Notified ==
  ASSUME Locks, NEW t \in Threads, NEW l, NotifyOne(t, l), pc[t] # "Asleep"
  PROVE  /\ pc'[t] = l
         /\ \A u \in Threads : u # t =>
               \/ pc'[u] = pc[u]
               \/ u \in Consumers /\ pc[u] = "Asleep" /\ pc'[u] = "WaitRelock"
         /\ pc' \in [Threads -> PushLabels \cup PollLabels \cup StopLabels \cup {l}]
  BY DEF Locks, ThreadTypes, NotifyOne, Goto, Threads, PollLabels, WaitLabels

LEMMA LocksInit ==
  ASSUME Init
  PROVE  Locks
<1> USE ThreadsAssumption DEF Init, Threads, PushLabels, PollLabels, StopLabels, HoldsDeque, HoldsCondition
<1>1. ThreadTypes
  BY DEF ThreadTypes
<1>2. MutualExclusion
  BY DEF MutualExclusion
<1> QED
  BY <1>1, <1>2 DEF Locks

LEMMA PushKeepsLocks ==
  ASSUME Locks, NEW p \in Producers, CallPush(p) \/ PushStep(p)
  PROVE  Locks'
<1> USE ThreadsAssumption DEF Threads, PushLabels, PollLabels, WaitLabels, StopLabels, HoldsDeque,
        HoldsCondition
<1>1. CASE CallPush(p)
  BY <1>1, Moves DEF CallPush
<1>2. CASE PushLock(p)
  BY <1>2 DEF Locks, ThreadTypes, MutualExclusion, PushLock, Goto
<1>3. CASE PushNotify(p)
  <2>1. /\ pc'[p] = "PushReturn"
        /\ \A u \in Threads : u # p =>
               \/ pc'[u] = pc[u]
               \/ u \in Consumers /\ pc[u] = "Asleep" /\ pc'[u] = "WaitRelock"
        /\ pc' \in [Threads -> PushLabels \cup PollLabels \cup StopLabels \cup {"PushReturn"}]
    BY <1>3, Notified DEF PushNotify
  <2> QED
    BY <1>3, <2>1 DEF Locks, ThreadTypes, MutualExclusion, PushNotify
<1>4. CASE PushReturn(p)
  BY <1>4 DEF Locks, ThreadTypes, MutualExclusion, PushReturn, Goto
<1> QED
  BY <1>1, <1>2, <1>3, <1>4 DEF PushStep

LEMMA PollKeepsLocks ==
  ASSUME Locks, NEW c \in Consumers, CallPoll(c) \/ PollStep(c) \/ WakeSpuriously(c)
  PROVE  Locks'
<1> USE ThreadsAssumption DEF Threads, PushLabels, PollLabels, WaitLabels, StopLabels,
        HoldsDeque, HoldsCondition
<1>1. CASE CallPoll(c)
  <2>1. Goto(c, "WaitEmpty") \/ Goto(c, "PollEmpty")
    BY <1>1 DEF CallPoll
  <2>2. pc[c] = "Idle" /\ UNCHANGED <<dequeMutex, conditionMutex>>
    BY <1>1 DEF CallPoll
  <2> QED
    BY <2>1, <2>2, Moves
<1>2. CASE WaitEmpty(c)
  <2>1. Goto(c, "WaitStopped") \/ Goto(c, "PollEmpty")
    BY <1>2 DEF WaitEmpty
  <2> QED
    BY <1>2, <2>1, Moves DEF WaitEmpty
<1>3. CASE WaitStopped(c)
  <2>1. Goto(c, "PollEmpty") \/ Goto(c, "WaitLock")
    BY <1>3 DEF WaitStopped
  <2> QED
    BY <1>3, <2>1, Moves DEF WaitStopped
<1>4. CASE WakeSpuriously(c)
  BY <1>4, Moves DEF WakeSpuriously
<1>5. CASE PopFront(c)
  BY <1>5, Moves DEF PopFront
<1>6. CASE PollEmpty(c)
  <2>1. Goto(c, "Idle") \/ Goto(c, "PopFront")
    BY <1>6 DEF PollEmpty
  <2>2. pc[c] = "PollEmpty" /\ UNCHANGED <<dequeMutex, conditionMutex>>
    BY <1>6 DEF PollEmpty
  <2> QED
    BY <2>1, <2>2, Moves
<1>7. CASE WaitLock(c) \/ WaitRelock(c)
  <2>1. \/ pc[c] = "WaitLock" /\ Goto(c, "WaitSleep")
        \/ pc[c] = "WaitRelock" /\ Goto(c, "WaitUnlock")
    BY <1>7 DEF WaitLock, WaitRelock
  <2>2. conditionMutex = None /\ conditionMutex' = c /\ UNCHANGED dequeMutex
    BY <1>7 DEF WaitLock, WaitRelock
  <2> QED
    BY <2>1, <2>2 DEF Locks, ThreadTypes, MutualExclusion, Goto
<1>8. CASE WaitSleep(c) \/ WaitUnlock(c)
  <2>1. \/ pc[c] = "WaitSleep" /\ Goto(c, "Asleep")
        \/ pc[c] = "WaitUnlock" /\ Goto(c, "WaitEmpty")
    BY <1>8 DEF WaitSleep, WaitUnlock
  <2>2. conditionMutex' = None /\ UNCHANGED dequeMutex
    BY <1>8 DEF WaitSleep, WaitUnlock
  <2> QED
    BY <2>1, <2>2 DEF Locks, ThreadTypes, MutualExclusion, Goto
<1> QED
  BY <1>1, <1>2, <1>3, <1>4, <1>5, <1>6, <1>7, <1>8 DEF PollStep, WaitStep

LEMMA StopKeepsLocks ==
  ASSUME Locks, CallStop \/ StopLock \/ StopReturn
  PROVE  Locks'
<1> USE ThreadsAssumption DEF Threads, PushLabels, PollLabels, WaitLabels, StopLabels,
        HoldsDeque, HoldsCondition
<1>1. CASE CallStop
  BY <1>1, Moves DEF CallStop
<1>2. CASE StopLock
  <2>1. /\ pc'[Stopper] = "StopReturn"
        /\ \A u \in Threads : u # Stopper =>
               \/ pc'[u] = pc[u]
               \/ u \in Consumers /\ pc[u] = "Asleep" /\ pc'[u] = "WaitRelock"
        /\ pc' \in [Threads -> PushLabels \cup PollLabels \cup StopLabels \cup {"StopReturn"}]
    BY <1>2, Notified DEF StopLock
  <2> QED
    BY <1>2, <2>1 DEF Locks, ThreadTypes, MutualExclusion, StopLock
<1>3. CASE StopReturn
  BY <1>3 DEF Locks, ThreadTypes, MutualExclusion, StopReturn, Goto
<1> QED
  BY <1>1, <1>2, <1>3

LEMMA LocksNext ==
  ASSUME Locks, [Next]_vars
  PROVE  Locks'
<1>1. CASE UNCHANGED vars
  BY <1>1 DEF vars, Locks, ThreadTypes, MutualExclusion
<1> QED
  BY <1>1, PushKeepsLocks, PollKeepsLocks, StopKeepsLocks DEF Next

-----------------------------------------------------------------------------
(* Messages.                                                                *)

\* Taking the front message leaves "taken, then still there" as it was; adding
\* one at the back adds it at the end.
LEMMA TakeAndAdd ==
  ASSUME NEW S, NEW t \in Seq(S), NEW d \in Seq(S)
  PROVE  /\ \A m \in S : t \o Append(d, m) = Append(t \o d, m)
         /\ d # <<>> => Append(t, Head(d)) \o Tail(d) = t \o d
<1>1. ASSUME NEW m \in S
      PROVE  t \o Append(d, m) = Append(t \o d, m)
  <2>1. /\ Append(d, m) \in Seq(S) /\ Len(Append(d, m)) = Len(d) + 1
        /\ \A i \in 1..Len(d) : Append(d, m)[i] = d[i]
        /\ Append(d, m)[Len(d) + 1] = m
    OBVIOUS
  <2>2. /\ t \o d \in Seq(S) /\ Len(t \o d) = Len(t) + Len(d)
        /\ \A i \in 1..(Len(t) + Len(d)) : (t \o d)[i] = IF i <= Len(t) THEN t[i] ELSE d[i - Len(t)]
    BY ConcatProperties
  <2>3. /\ t \o Append(d, m) \in Seq(S) /\ Len(t \o Append(d, m)) = Len(t) + (Len(d) + 1)
        /\ \A i \in 1..(Len(t) + (Len(d) + 1)) :
              (t \o Append(d, m))[i] = IF i <= Len(t) THEN t[i] ELSE Append(d, m)[i - Len(t)]
    <3> DEFINE e == Append(d, m)
    <3>1. e \in Seq(S) /\ Len(e) = Len(d) + 1
      BY <2>1
    <3> HIDE DEF e
    <3>2. /\ t \o e \in Seq(S) /\ Len(t \o e) = Len(t) + Len(e)
          /\ \A i \in 1..(Len(t) + Len(e)) : (t \o e)[i] = IF i <= Len(t) THEN t[i] ELSE e[i - Len(t)]
      BY <3>1, ConcatProperties
    <3> QED
      BY <3>1, <3>2 DEF e
  <2>4. /\ Append(t \o d, m) \in Seq(S) /\ Len(Append(t \o d, m)) = Len(t) + Len(d) + 1
        /\ \A i \in 1..(Len(t) + Len(d)) : Append(t \o d, m)[i] = (t \o d)[i]
        /\ Append(t \o d, m)[Len(t) + Len(d) + 1] = m
    BY <2>2
  <2>5. Len(t) \in Nat /\ Len(d) \in Nat
    OBVIOUS
  <2>6. ASSUME NEW i \in 1..(Len(t) + Len(d) + 1)
        PROVE  (t \o Append(d, m))[i] = Append(t \o d, m)[i]
    <3>1. CASE i <= Len(t)
      BY <2>2, <2>3, <2>4, <2>5, <3>1
    <3>2. CASE i > Len(t) /\ i <= Len(t) + Len(d)
      <4>1. i - Len(t) \in 1..Len(d)
        BY <2>5, <3>2
      <4>2. (t \o Append(d, m))[i] = Append(d, m)[i - Len(t)]
        BY <2>3, <2>5, <3>2
      <4>3. Append(t \o d, m)[i] = d[i - Len(t)]
        BY <2>2, <2>4, <2>5, <3>2
      <4> QED
        BY <2>1, <4>1, <4>2, <4>3
    <3>3. CASE i = Len(t) + Len(d) + 1
      <4>1. i - Len(t) = Len(d) + 1 /\ ~(i <= Len(t))
        BY <2>5, <3>3
      <4> QED
        BY <2>1, <2>3, <2>4, <2>5, <3>3, <4>1
    <3> QED
      BY <2>5, <3>1, <3>2, <3>3
  <2>7. Len(t \o Append(d, m)) = Len(Append(t \o d, m))
    BY <2>3, <2>4, <2>5
  <2> QED
    BY <2>3, <2>4, <2>5, <2>6, <2>7, SeqEqual
<1>2. ASSUME d # <<>>
      PROVE  Append(t, Head(d)) \o Tail(d) = t \o d
  <2>1. /\ Head(d) \in S /\ Head(d) = d[1] /\ Tail(d) \in Seq(S) /\ Len(Tail(d)) = Len(d) - 1
        /\ \A i \in 1..Len(Tail(d)) : Tail(d)[i] = d[i + 1]
        /\ Len(t) \in Nat /\ Len(d) \in Nat \ {0}
    BY <1>2, HeadTailProperties, EmptySeq
  <2>2. /\ Append(t, Head(d)) \in Seq(S) /\ Len(Append(t, Head(d))) = Len(t) + 1
        /\ \A i \in 1..Len(t) : Append(t, Head(d))[i] = t[i]
        /\ Append(t, Head(d))[Len(t) + 1] = d[1]
    BY <2>1
  <2>3. /\ t \o d \in Seq(S) /\ Len(t \o d) = Len(t) + Len(d)
        /\ \A i \in 1..(Len(t) + Len(d)) : (t \o d)[i] = IF i <= Len(t) THEN t[i] ELSE d[i - Len(t)]
    BY ConcatProperties
  <2> DEFINE a == Append(t, Head(d))
             b == Tail(d)
  <2>4. a \in Seq(S) /\ b \in Seq(S) /\ Len(a) = Len(t) + 1 /\ Len(b) = Len(d) - 1
    BY <2>1, <2>2
  <2>5. /\ a \o b \in Seq(S) /\ Len(a \o b) = Len(a) + Len(b)
        /\ \A i \in 1..(Len(a) + Len(b)) : (a \o b)[i] = IF i <= Len(a) THEN a[i] ELSE b[i - Len(a)]
    <3> HIDE DEF a, b
    <3> QED
      BY <2>4, ConcatProperties
  <2>6. Len(a \o b) = Len(t \o d)
    BY <2>1, <2>3, <2>4, <2>5
  <2>7. ASSUME NEW i \in 1..(Len(t) + Len(d))
        PROVE  (a \o b)[i] = (t \o d)[i]
    <3>1. CASE i <= Len(t)
      <4>1. (a \o b)[i] = a[i] /\ a[i] = t[i]
        BY <2>1, <2>2, <2>4, <2>5, <3>1
      <4> QED
        BY <2>3, <3>1, <4>1
    <3>2. CASE i = Len(t) + 1
      <4>1. (a \o b)[i] = a[i] /\ a[i] = d[1]
        BY <2>1, <2>2, <2>4, <2>5, <3>2
      <4>2. ~(i <= Len(t)) /\ i - Len(t) = 1
        BY <2>1, <3>2
      <4> QED
        BY <2>3, <4>1, <4>2
    <3>3. CASE i > Len(t) + 1
      <4>1. ~(i <= Len(a)) /\ i - Len(a) \in 1..Len(b) /\ (i - Len(a)) + 1 = i - Len(t) /\ ~(i <= Len(t))
        BY <2>1, <2>4, <3>3
      <4>2. (a \o b)[i] = b[i - Len(a)]
        BY <2>1, <2>4, <2>5, <4>1
      <4>3. b[i - Len(a)] = d[i - Len(t)]
        BY <2>1, <4>1
      <4>4. (t \o d)[i] = d[i - Len(t)]
        BY <2>3, <4>1
      <4> QED
        BY <4>2, <4>3, <4>4
    <3> QED
      BY <2>1, <3>1, <3>2, <3>3
  <2> HIDE DEF a, b
  <2>8. a \o b = t \o d
    BY <2>3, <2>5, <2>6, <2>7, SeqEqual
  <2> QED
    BY <2>8 DEF a, b
<1> QED
  BY <1>1, <1>2

\* Adding a producer's next message at the end keeps the order.
LEMMA AddInOrder ==
  ASSUME NEW all \in Seq(Messages), NEW n \in [Producers -> Nat], NEW p \in Producers,
         AllInOrder(all, n)
  PROVE  AllInOrder(Append(all, <<p, n[p] + 1>>), [n EXCEPT ![p] = @ + 1])
<1> DEFINE m == <<p, n[p] + 1>>
           more == Append(all, m)
           n2 == [n EXCEPT ![p] = @ + 1]
<1>1. /\ Len(all) \in Nat /\ DOMAIN all = 1..Len(all) /\ DOMAIN more = 1..(Len(all) + 1)
      /\ \A i \in 1..Len(all) : more[i] = all[i]
      /\ more[Len(all) + 1] = m
  OBVIOUS
<1>2. /\ \A q \in Producers : n[q] \in Nat /\ n2[q] = IF q = p THEN n[q] + 1 ELSE n[q]
      /\ m[1] = p /\ m[2] = n[p] + 1
  OBVIOUS
<1>3. \A i \in 1..Len(all) : all[i][1] \in Producers /\ all[i][2] \in Nat
  <2>1. \A i \in 1..Len(all) : all[i] \in Messages
    OBVIOUS
  <2> QED
    BY <2>1 DEF Messages
<1> HIDE DEF m, more, n2
<1>4. ASSUME NEW q \in Producers, NEW k \in 1..n2[q]
      PROVE  \E i \in DOMAIN more : more[i] = <<q, k>>
  <2>1. CASE k \in 1..n[q]
    <3>1. PICK i \in 1..Len(all) : all[i] = <<q, k>>
      BY <1>1, <2>1 DEF AllInOrder
    <3>2. i \in DOMAIN more /\ more[i] = <<q, k>>
      BY <1>1, <3>1
    <3> QED
      BY <3>2
  <2>2. CASE k \notin 1..n[q]
    <3>1. q = p /\ k = n[p] + 1
      BY <1>2, <1>4, <2>2
    <3>2. Len(all) + 1 \in DOMAIN more /\ more[Len(all) + 1] = <<q, k>>
      BY <1>1, <3>1 DEF m
    <3> QED
      BY <3>2
  <2> QED
    BY <2>1, <2>2
<1>5. ASSUME NEW i \in DOMAIN more
      PROVE  more[i][2] <= n2[more[i][1]]
  <2>1. CASE i \in 1..Len(all)
    <3>1. all[i][2] <= n[all[i][1]] /\ all[i][1] \in Producers /\ all[i][2] \in Nat
      BY <1>1, <1>3, <2>1 DEF AllInOrder
    <3> QED
      BY <1>1, <1>2, <2>1, <3>1
  <2>2. CASE i = Len(all) + 1
    BY <1>1, <1>2, <2>2
  <2> QED
    BY <1>1, <2>1, <2>2
<1>6. ASSUME NEW i \in DOMAIN more, NEW j \in DOMAIN more, i < j, more[i][1] = more[j][1]
      PROVE  more[i][2] < more[j][2]
  <2>0. i \in 1..Len(all) /\ more[i] = all[i]
    BY <1>1, <1>6
  <2>1. CASE j \in 1..Len(all)
    BY <1>1, <1>6, <2>0, <2>1 DEF AllInOrder
  <2>2. CASE j = Len(all) + 1
    <3>1. all[i][1] = p /\ more[j][2] = n[p] + 1
      BY <1>1, <1>2, <1>6, <2>0, <2>2
    <3>2. all[i][2] <= n[p] /\ all[i][2] \in Nat
      BY <1>1, <1>3, <2>0, <3>1 DEF AllInOrder
    <3> QED
      BY <1>2, <2>0, <3>1, <3>2
  <2> QED
    BY <1>1, <2>1, <2>2
<1>7. AllInOrder(more, n2)
  BY <1>4, <1>5, <1>6 DEF AllInOrder
<1> QED
  BY <1>7 DEF more, n2, m

-----------------------------------------------------------------------------
(* One thread polls.                                                        *)

Data == DataTypes /\ PopFindsMessage /\ WaitedPollFindsMessage /\ MessagesInOrder

LEMMA DataInit ==
  ASSUME Init
  PROVE  Data
<1>1. DataTypes /\ PopFindsMessage /\ WaitedPollFindsMessage
  <2>1. DataTypes
    <3>1. <<>> \in Seq(Messages)
      BY EmptySeq
    <3> QED
      BY <3>1 DEF Init, DataTypes
  <2>2. \A c \in Consumers : pc[c] = "Idle"
    BY DEF Init, Threads
  <2> QED
    BY <2>1, <2>2 DEF PopFindsMessage, WaitedPollFindsMessage
<1>2. taken \o deque = <<>> /\ \A p \in Producers : pushed[p] = 0
  BY DEF Init
<1>3. MessagesInOrder
  BY <1>2 DEF MessagesInOrder, AllInOrder
<1> QED
  BY <1>1, <1>3 DEF Data

\* A consumer's next test still finds the message its last one found.
LEMMA PushKeepsData ==
  ASSUME Locks, Data, NEW p \in Producers, CallPush(p) \/ PushStep(p)
  PROVE  Data'
<1> USE ThreadsAssumption DEF Threads
<1>1. /\ UNCHANGED <<stopWaiting, waits, left, got, taken>>
      /\ \A c \in Consumers :
            \/ pc'[c] = pc[c]
            \/ pc'[c] = "WaitRelock"
  <2>1. \A c \in Consumers : c # p
    OBVIOUS
  <2>2. CASE PushNotify(p)
    <3>1. pc[p] # "Asleep" /\ NotifyOne(p, "PushReturn")
      BY <2>2 DEF PushNotify
    <3> QED
      BY <2>1, <2>2, <3>1, Notified DEF PushNotify, calls
  <2>3. CASE CallPush(p) \/ PushLock(p) \/ PushReturn(p)
    BY <2>1, <2>3 DEF CallPush, PushLock, PushReturn, calls, Goto, Locks, ThreadTypes
  <2> QED
    BY <2>2, <2>3 DEF PushStep
<1>2. CASE UNCHANGED <<deque, pushed>>
  <2>1. DataTypes' /\ MessagesInOrder'
    BY <1>1, <1>2 DEF Data, DataTypes, MessagesInOrder, AllInOrder
  <2>2. PopFindsMessage' /\ WaitedPollFindsMessage'
    BY <1>1, <1>2 DEF Data, PopFindsMessage, WaitedPollFindsMessage
  <2> QED
    BY <2>1, <2>2 DEF Data
<1>3. CASE PushLock(p)
  <2>0. DataTypes /\ pushed[p] \in Nat
    BY DEF Data, DataTypes
  <2>1. /\ pushed' = [pushed EXCEPT ![p] = @ + 1]
        /\ deque' = Append(deque, <<p, pushed[p] + 1>>)
    BY <1>3, <2>0 DEF PushLock, DataTypes
  <2>2. <<p, pushed[p] + 1>> \in Messages
    BY <2>0 DEF Messages
  <2>3. DataTypes'
    BY <1>1, <2>0, <2>1, <2>2 DEF DataTypes
  <2>4. taken' \o deque' = Append(taken \o deque, <<p, pushed[p] + 1>>)
    BY <1>1, <2>0, <2>1, <2>2, TakeAndAdd DEF DataTypes
  <2>5. taken \o deque \in Seq(Messages)
    BY <2>0, ConcatProperties DEF DataTypes
  <2>6. AllInOrder(Append(taken \o deque, <<p, pushed[p] + 1>>), [pushed EXCEPT ![p] = @ + 1])
    BY <2>0, <2>5, AddInOrder DEF Data, DataTypes, MessagesInOrder
  <2>7. MessagesInOrder'
    BY <2>1, <2>4, <2>6 DEF MessagesInOrder
  <2>8. deque' # <<>>
    BY <2>0, <2>1 DEF DataTypes
  <2>9. PopFindsMessage' /\ WaitedPollFindsMessage'
    BY <2>8 DEF PopFindsMessage, WaitedPollFindsMessage
  <2> QED
    BY <2>3, <2>7, <2>9 DEF Data
<1> QED
  BY <1>2, <1>3 DEF CallPush, PushStep, PushNotify, PushReturn

LEMMA PollKeepsData ==
  ASSUME Locks, Data, NEW c, Consumers = {c}, CallPoll(c) \/ PollStep(c) \/ WakeSpuriously(c)
  PROVE  Data'
<1> USE ThreadsAssumption, BoundsAssumption DEF Threads
<1>0. DataTypes /\ pc \in [Threads -> PushLabels \cup PollLabels \cup StopLabels] /\ c \in Threads
      /\ left[c] \in Nat /\ got[c] \in Nat /\ waits[c] \in BOOLEAN
  BY DEF Data, Locks, ThreadTypes, DataTypes
<1>1. ASSUME NEW l, Goto(c, l), l \notin {"PopFront", "PollEmpty"},
             UNCHANGED <<deque, stopWaiting, pushed, waits, got, taken>>,
             left' \in [Consumers -> Nat]
      PROVE  Data'
  <2>1. pc'[c] = l
    BY <1>0, <1>1 DEF Goto
  <2>2. DataTypes' /\ MessagesInOrder'
    BY <1>0, <1>1 DEF Data, DataTypes, MessagesInOrder, AllInOrder
  <2>3. PopFindsMessage' /\ WaitedPollFindsMessage'
    BY <1>1, <2>1 DEF PopFindsMessage, WaitedPollFindsMessage
  <2> QED
    BY <2>2, <2>3 DEF Data
<1>2. ASSUME NEW l, Goto(c, l), l \in {"PopFront", "PollEmpty"},
             UNCHANGED <<deque, stopWaiting, pushed, waits, got, taken>>,
             left' \in [Consumers -> Nat],
             deque # <<>> \/ (l = "PollEmpty" /\ stopWaiting)
      PROVE  Data'
  <2>1. pc'[c] = l
    BY <1>0, <1>2 DEF Goto
  <2>2. DataTypes' /\ MessagesInOrder'
    BY <1>0, <1>2 DEF Data, DataTypes, MessagesInOrder, AllInOrder
  <2>3. PopFindsMessage' /\ WaitedPollFindsMessage'
    BY <1>2, <2>1 DEF PopFindsMessage, WaitedPollFindsMessage
  <2> QED
    BY <2>2, <2>3 DEF Data
<1>3. CASE CallPoll(c)
  <2>1. DataTypes' /\ MessagesInOrder'
    BY <1>0, <1>3 DEF CallPoll, Data, DataTypes, MessagesInOrder, AllInOrder
  <2>2. PICK w \in BOOLEAN : /\ waits' = [waits EXCEPT ![c] = w]
                             /\ Goto(c, IF w THEN "WaitEmpty" ELSE "PollEmpty")
    BY <1>3 DEF CallPoll
  <2>3. CASE w
    <3>1. pc'[c] = "WaitEmpty"
      BY <1>0, <2>2, <2>3 DEF Goto
    <3>2. PopFindsMessage' /\ WaitedPollFindsMessage'
      BY <3>1 DEF PopFindsMessage, WaitedPollFindsMessage
    <3> QED
      BY <2>1, <3>2 DEF Data
  <2>4. CASE ~w
    <3>1. pc'[c] = "PollEmpty" /\ ~waits'[c]
      BY <1>0, <2>2, <2>4 DEF Goto, DataTypes
    <3>2. PopFindsMessage' /\ WaitedPollFindsMessage'
      BY <3>1 DEF PopFindsMessage, WaitedPollFindsMessage
    <3> QED
      BY <2>1, <3>2 DEF Data
  <2> QED
    BY <2>3, <2>4
<1>4. CASE WaitEmpty(c)
  <2>1. UNCHANGED <<deque, stopWaiting, pushed, waits, got, taken>> /\ left' \in [Consumers -> Nat]
    BY <1>0, <1>4 DEF WaitEmpty, calls, DataTypes
  <2>2. \/ deque # <<>> /\ Goto(c, "PollEmpty")
        \/ Goto(c, "WaitStopped")
    BY <1>4 DEF WaitEmpty
  <2> QED
    BY <1>1, <1>2, <2>1, <2>2
<1>5. CASE WaitStopped(c)
  <2>1. UNCHANGED <<deque, stopWaiting, pushed, waits, got, taken>> /\ left' \in [Consumers -> Nat]
    BY <1>0, <1>5 DEF WaitStopped, calls, DataTypes
  <2>2. \/ stopWaiting /\ Goto(c, "PollEmpty")
        \/ Goto(c, "WaitLock")
    BY <1>5 DEF WaitStopped
  <2> QED
    BY <1>1, <1>2, <2>1, <2>2
<1>6. CASE WaitLock(c) \/ WaitSleep(c) \/ WaitRelock(c) \/ WaitUnlock(c) \/ WakeSpuriously(c)
  <2>1. UNCHANGED <<deque, stopWaiting, pushed, waits, got, taken>> /\ left' \in [Consumers -> Nat]
    BY <1>0, <1>6 DEF WaitLock, WaitSleep, WaitRelock, WaitUnlock, WakeSpuriously, calls, DataTypes
  <2>2. \E l \in {"WaitSleep", "Asleep", "WaitUnlock", "WaitEmpty", "WaitRelock"} : Goto(c, l)
    BY <1>6 DEF WaitLock, WaitSleep, WaitRelock, WaitUnlock, WakeSpuriously
  <2> QED
    BY <1>1, <2>1, <2>2
<1>7. CASE PollEmpty(c)
  <2>1. UNCHANGED <<deque, stopWaiting, pushed, waits, got, taken>> /\ left' \in [Consumers -> Nat]
    BY <1>0, <1>7 DEF PollEmpty, DataTypes
  <2>2. \/ deque # <<>> /\ Goto(c, "PopFront")
        \/ Goto(c, "Idle")
    BY <1>7 DEF PollEmpty
  <2> QED
    BY <1>1, <1>2, <2>1, <2>2
<1>8. CASE PopFront(c)
  <2>1. /\ deque # <<>> /\ taken' = Append(taken, Head(deque)) /\ deque' = Tail(deque)
        /\ got' = [got EXCEPT ![c] = @ + 1] /\ pc'[c] = "PollEmpty"
        /\ UNCHANGED <<stopWaiting, pushed, waits, left>>
    BY <1>0, <1>8 DEF PopFront, Data, PopFindsMessage, Goto
  <2>2. Head(deque) \in Messages /\ Tail(deque) \in Seq(Messages)
    BY <1>0, <2>1, HeadTailProperties DEF DataTypes
  <2>3. DataTypes'
    BY <1>0, <2>1, <2>2 DEF DataTypes
  <2>4. taken' \o deque' = taken \o deque
    BY <1>0, <2>1, TakeAndAdd DEF DataTypes
  <2>5. MessagesInOrder'
    BY <2>1, <2>4 DEF Data, MessagesInOrder
  <2>6. got'[c] # 0
    BY <1>0, <2>1 DEF DataTypes
  <2>7. PopFindsMessage' /\ WaitedPollFindsMessage'
    BY <2>1, <2>6 DEF PopFindsMessage, WaitedPollFindsMessage
  <2> QED
    BY <2>3, <2>5, <2>7 DEF Data
<1> QED
  BY <1>3, <1>4, <1>5, <1>6, <1>7, <1>8 DEF PollStep, WaitStep

LEMMA StopKeepsData ==
  ASSUME Locks, Data, CallStop \/ StopLock \/ StopReturn
  PROVE  Data'
<1> USE ThreadsAssumption DEF Threads
<1>1. /\ UNCHANGED <<deque, pushed, waits, left, got, taken>>
      /\ stopWaiting' = stopWaiting \/ stopWaiting' = TRUE
      /\ \A c \in Consumers : pc'[c] = pc[c] \/ pc'[c] = "WaitRelock"
  <2>1. \A c \in Consumers : c # Stopper
    OBVIOUS
  <2>2. CASE StopLock
    <3>1. pc[Stopper] # "Asleep" /\ NotifyOne(Stopper, "StopReturn")
      BY <2>2 DEF StopLock
    <3> QED
      BY <2>1, <2>2, <3>1, Notified DEF StopLock, calls
  <2>3. CASE CallStop \/ StopReturn
    BY <2>1, <2>3 DEF CallStop, StopReturn, calls, Goto, Locks, ThreadTypes
  <2> QED
    BY <2>2, <2>3
<1>2. DataTypes' /\ MessagesInOrder'
  BY <1>1 DEF Data, DataTypes, MessagesInOrder, AllInOrder
<1>3. PopFindsMessage' /\ WaitedPollFindsMessage'
  BY <1>1 DEF Data, PopFindsMessage, WaitedPollFindsMessage
<1> QED
  BY <1>2, <1>3 DEF Data

LEMMA DataNext ==
  ASSUME NEW c, Consumers = {c}, Locks, Data, [Next]_vars
  PROVE  Data'
<1>1. CASE UNCHANGED vars
  BY <1>1 DEF vars, Data, DataTypes, PopFindsMessage, WaitedPollFindsMessage, MessagesInOrder, AllInOrder
<1> QED
  BY <1>1, PushKeepsData, PollKeepsData, StopKeepsData DEF Next

\* No two threads hold a mutex of the deque at once (TSDeque.inl, every
\* function), however many threads there are.
THEOREM LocksExclude == Spec => []MutualExclusion
<1>1. Init => Locks
  BY LocksInit
<1>2. Locks /\ [Next]_vars => Locks'
  BY LocksNext
<1>3. Locks => MutualExclusion
  BY DEF Locks
<1> QED
  BY <1>1, <1>2, <1>3, PTL DEF Spec

\* The inductive invariant for one polling thread, and what it contains.
LEMMA DequeInvariant ==
  ASSUME NEW c, Consumers = {c}
  PROVE  Spec => [](Locks /\ Data)
<1>1. Init => Locks /\ Data
  BY LocksInit, DataInit
<1>2. Locks /\ Data /\ [Next]_vars => (Locks /\ Data)'
  BY LocksNext, DataNext
<1> QED
  BY <1>1, <1>2, PTL DEF Spec

\* Every variable keeps its type: messageCount does not wrap round and only
\* messages are ever taken.
THEOREM DequeTypeCorrect ==
  ASSUME NEW c, Consumers = {c}
  PROVE  Spec => []TypeOK
<1>1. Locks /\ Data => TypeOK
  BY DEF Locks, Data, TypeOK
<1> QED
  BY <1>1, DequeInvariant, PTL

\* PollMessages never calls PopFront on an empty deque when one thread polls
\* (DedicatedServer.inl:54-56, DedicatedClient.inl:74-76).
THEOREM PollIsSafe ==
  ASSUME NEW c, Consumers = {c}
  PROVE  Spec => []PopFindsMessage
<1>1. Locks /\ Data => PopFindsMessage
  BY DEF Data
<1> QED
  BY <1>1, DequeInvariant, PTL

\* Wait returns only when there is a message or waiting has been stopped.
THEOREM WaitIsTrue ==
  ASSUME NEW c, Consumers = {c}
  PROVE  Spec => []WaitedPollFindsMessage
<1>1. Locks /\ Data => WaitedPollFindsMessage
  BY DEF Data
<1> QED
  BY <1>1, DequeInvariant, PTL

\* Messages come out once each, in the order each producer put them in.
THEOREM OrderKept ==
  ASSUME NEW c, Consumers = {c}
  PROVE  Spec => []MessagesInOrder
<1>1. Locks /\ Data => MessagesInOrder
  BY DEF Data
<1> QED
  BY <1>1, DequeInvariant, PTL

-----------------------------------------------------------------------------
(* Calls come to an end.  The prover does not know when an action is        *)
(* ENABLED: the theorems ask for StepsEnabled, which TLC checks as a part   *)
(* of NobodyStuck.                                                          *)

LEMMA LocksHold == Spec => []Locks
<1>1. Init => Locks
  BY LocksInit
<1>2. Locks /\ [Next]_vars => Locks'
  BY LocksNext
<1> QED
  BY <1>1, <1>2, PTL DEF Spec

\* Who may hold a mutex while a producer is about to notify.
LEMMA NotifierWaitsForStopper ==
  ASSUME Locks, NEW p \in Producers, pc[p] = "PushNotify",
         conditionMutex # None, conditionMutex \notin Consumers
  PROVE  conditionMutex = Stopper /\ pc[Stopper] = "StopReturn"
<1>1. /\ dequeMutex = p
      /\ conditionMutex \in Threads /\ pc[conditionMutex] \in HoldsCondition
  BY DEF Locks, ThreadTypes, MutualExclusion, Threads, HoldsDeque
<1>2. conditionMutex \notin Producers
  <2>1. SUFFICES ASSUME conditionMutex \in Producers PROVE FALSE
    OBVIOUS
  <2>2. pc[conditionMutex] = "PushReturn"
    BY <1>1, <2>1 DEF Locks, ThreadTypes, PushLabels, HoldsCondition
  <2>3. dequeMutex = conditionMutex
    BY <1>1, <2>2 DEF Locks, MutualExclusion, HoldsDeque
  <2>4. QED
    BY <1>1, <2>2, <2>3
<1>3. conditionMutex = Stopper
  BY <1>1, <1>2 DEF Threads
<1>4. pc[Stopper] = "StopReturn"
  BY <1>1, <1>3 DEF Locks, ThreadTypes, StopLabels, HoldsCondition
<1>5. QED
  BY <1>3, <1>4

\* What can happen while one producer is about to notify and the consumer sleeps.
LEMMA SleeperAndNotifier ==
  ASSUME Locks, NEW c, Consumers = {c}, NEW p \in Producers,
         pc[c] = "Asleep", pc[p] = "PushNotify", [Next]_vars, pc'[c] = "Asleep"
  PROVE  /\ pc'[p] = "PushNotify"
         /\ pc'[Stopper] = "StopReturn" => pc[Stopper] = "StopReturn"
         /\ ~PushStep(p)
         /\ StopReturn => pc'[Stopper] = "Done"
         /\ ~StopLock
<1> USE ThreadsAssumption DEF Locks, ThreadTypes, MutualExclusion, Threads, HoldsDeque, HoldsCondition
<1>1. p # c /\ p # Stopper /\ c # Stopper /\ dequeMutex = p /\ c \in Consumers
  OBVIOUS
<1>2. ASSUME NEW t, NEW l, NotifyOne(t, l), t # c
      PROVE  FALSE
  BY <1>1, <1>2 DEF NotifyOne
<1>3. ~PushStep(p)
  BY <1>1, <1>2 DEF PushStep, PushLock, PushNotify, PushReturn
<1>4. ~StopLock
  BY <1>1, <1>2 DEF StopLock
<1>5. ~CallPush(p) /\ ~CallPoll(c) /\ ~PollStep(c)
  BY <1>1 DEF CallPush, CallPoll, PollStep, WaitStep, WaitEmpty, WaitStopped, WaitLock, WaitSleep,
     WaitRelock, WaitUnlock, PollEmpty, PopFront
<1>6. ASSUME NEW r \in Producers, r # p, CallPush(r) \/ PushStep(r)
      PROVE  pc'[p] = pc[p] /\ pc'[Stopper] = pc[Stopper]
  <2>1. CASE PushNotify(r)
    BY <1>1, <1>2, <2>1 DEF PushNotify
  <2>2. CASE CallPush(r) \/ PushLock(r) \/ PushReturn(r)
    BY <1>1, <1>6, <2>2 DEF CallPush, PushLock, PushReturn, Goto
  <2>3. QED
    BY <1>6, <2>1, <2>2 DEF PushStep
<1>7. WakeSpuriously(c) => FALSE
  BY <1>1 DEF WakeSpuriously, Goto
<1>8. CallStop => pc'[p] = pc[p] /\ pc'[Stopper] = "StopLock"
  BY <1>1 DEF CallStop, Goto
<1>9. StopReturn => pc'[p] = pc[p] /\ pc'[Stopper] = "Done"
  BY <1>1 DEF StopReturn, Goto
<1>10. QED
  BY <1>1, <1>3, <1>4, <1>5, <1>6, <1>7, <1>8, <1>9 DEF Next, vars

LEMMA ThreadsFair ==
  /\ \A p \in Producers : Fairness => PushFairness(p)
  /\ \A c \in Consumers : Fairness => PollFairness(c)
<1>1. Fairness => ProducersFair /\ ConsumersFair
  BY PTL DEF Fairness
<1>2. ASSUME NEW p \in Producers PROVE ProducersFair => PushFairness(p)
  BY DEF ProducersFair
<1>3. ASSUME NEW c \in Consumers PROVE ConsumersFair => PollFairness(c)
  BY DEF ConsumersFair
<1>4. QED
  BY <1>1, <1>2, <1>3

\* The mutexes are never waited for in a circle, and nobody sleeps with one: however many
\* threads there are, who holds what the others ask for can go on (TSDeque.inl: EmplaceBack
\* takes the deque's mutex before the condition's, Wait and StopWaiting the condition's alone).
THEOREM NobodyIsStuck == Spec /\ []StepsEnabled => []NobodyStuck
<1>1. ASSUME Locks, StepsEnabled PROVE NobodyStuck
  <2>1. /\ \A p \in Producers : PushReady(p) => CanStep(p)
        /\ \A c \in Consumers : PollReady(c) => CanStep(c)
        /\ StopReady => CanStep(Stopper)
    BY <1>1 DEF StepsEnabled, PushGoesOn, PollGoesOn, StopGoesOn, CanStep
  <2>2. ASSUME conditionMutex # None
        PROVE  CanStep(conditionMutex)
    <3>1. conditionMutex \in Threads /\ pc[conditionMutex] \in HoldsCondition
      BY <1>1, <2>2 DEF Locks, ThreadTypes, MutualExclusion
    <3>2. CASE conditionMutex \in Producers
      BY <1>1, <2>1, <3>1, <3>2 DEF Locks, ThreadTypes, PushLabels, HoldsCondition, PushReady
    <3>3. CASE conditionMutex \in Consumers
      BY <1>1, <2>1, <3>1, <3>3 DEF Locks, ThreadTypes, PollLabels, WaitLabels, HoldsCondition, PollReady
    <3>4. CASE conditionMutex = Stopper
      BY <1>1, <2>1, <3>1, <3>4 DEF Locks, ThreadTypes, StopLabels, HoldsCondition, StopReady
    <3>5. QED
      BY <3>1, <3>2, <3>3, <3>4 DEF Threads
  <2>3. ASSUME dequeMutex # None, conditionMutex = None
        PROVE  CanStep(dequeMutex)
    <3>1. dequeMutex \in Threads /\ pc[dequeMutex] \in HoldsDeque
      BY <1>1, <2>3 DEF Locks, ThreadTypes, MutualExclusion
    <3>2. dequeMutex \in Producers
      BY <1>1, <3>1 DEF Locks, ThreadTypes, Threads, HoldsDeque, PollLabels, WaitLabels, StopLabels
    <3>3. PushReady(dequeMutex)
      BY <2>3, <3>1 DEF HoldsDeque, PushReady
    <3>4. QED
      BY <2>1, <3>2, <3>3
  <2>4. ASSUME dequeMutex = None, conditionMutex = None, NEW t \in Threads, Running(t)
        PROVE  CanStep(t)
    <3>1. CASE t \in Producers
      BY <1>1, <2>1, <2>4, <3>1 DEF Locks, ThreadTypes, PushLabels, Running, PushReady
    <3>2. CASE t \in Consumers
      BY <1>1, <2>1, <2>4, <3>2 DEF Locks, ThreadTypes, PollLabels, WaitLabels, Running, PollReady
    <3>3. CASE t = Stopper
      BY <1>1, <2>1, <2>4, <3>3 DEF Locks, ThreadTypes, StopLabels, Running, StopReady
    <3>4. QED
      BY <3>1, <3>2, <3>3 DEF Threads
  <2>5. QED
    BY <1>1, <2>2, <2>3, <2>4 DEF NobodyStuck
<1>2. QED
  BY <1>1, LocksHold, PTL

\* One thread polling, asleep because it missed a wake-up, is woken by the next call of
\* EmplaceBack (TSDeque.inl: the notify_one after each addition).
THEOREM MissedWakeUpMadeGood ==
  ASSUME NEW c, Consumers = {c}
  PROVE  FairSpec /\ []StepsEnabled => WokenByNextPush
<1> SUFFICES ASSUME NEW p \in Producers
             PROVE  FairSpec /\ []StepsEnabled =>
                       (pc[c] = "Asleep" /\ pc[p] = "PushNotify" ~> pc[c] # "Asleep")
  BY DEF WokenByNextPush
<1> DEFINE Both == pc[c] = "Asleep" /\ pc[p] = "PushNotify"
           Stopping == Both /\ pc[Stopper] = "StopReturn"
           Free == Both /\ pc[Stopper] # "StopReturn"
           Awake == pc[c] # "Asleep"
<1>1. ASSUME Locks, Free, [Next]_vars PROVE Free' \/ Awake'
  BY <1>1, SleeperAndNotifier
<1>2. ASSUME Locks, Free, <<PushStep(p)>>_vars PROVE Awake'
  BY <1>2, SleeperAndNotifier DEF Next
<1>3. ASSUME Locks, Free, StepsEnabled PROVE ENABLED <<PushStep(p)>>_vars
  <2>1. conditionMutex = None
    <3>1. conditionMutex # c
      BY <1>3 DEF Locks, MutualExclusion, Threads, HoldsCondition
    <3>2. QED
      BY <1>3, <3>1, NotifierWaitsForStopper
  <2>2. PushReady(p)
    BY <1>3, <2>1 DEF PushReady
  <2>3. PushGoesOn(p)
    BY <1>3 DEF StepsEnabled
  <2>4. QED
    BY <2>2, <2>3 DEF PushGoesOn
<1>4. ASSUME Locks, Stopping, [Next]_vars PROVE Stopping' \/ Free' \/ Awake'
  BY <1>4, SleeperAndNotifier
<1>5. ASSUME Locks, Stopping, <<StopLock \/ StopReturn>>_vars PROVE Free' \/ Awake'
  BY <1>5, SleeperAndNotifier DEF Next
<1>6. ASSUME Stopping, StepsEnabled PROVE ENABLED <<StopLock \/ StopReturn>>_vars
  <2>1. StopReady
    BY <1>6 DEF StopReady
  <2>2. QED
    BY <1>6, <2>1 DEF StepsEnabled, StopGoesOn
<1>7. Both => Stopping \/ Free
  OBVIOUS
<1>8. Fairness => PushFairness(p)
  BY ThreadsFair
<1> HIDE DEF Both, Stopping, Free, Awake
<1>9. FairSpec /\ []StepsEnabled => (Free ~> Awake)
  BY <1>1, <1>2, <1>3, <1>8, LocksHold, PTL DEF FairSpec, Spec, PushFairness
<1>10. FairSpec /\ []StepsEnabled => (Stopping ~> Free \/ Awake)
  BY <1>4, <1>5, <1>6, LocksHold, PTL DEF FairSpec, Spec, Fairness
<1>11. FairSpec /\ []StepsEnabled => (Both ~> Awake)
  BY <1>7, <1>9, <1>10, PTL
<1>12. QED
  BY <1>11, PTL DEF Both, Awake

\* Who holds a mutex gives it back with its next steps, which nobody can keep it from.
LEMMA ThreadMoves ==
  ASSUME Locks, NEW t \in Threads, [Next]_vars, pc'[t] # pc[t]
  PROVE  \/ t \in Producers /\ (CallPush(t) \/ PushStep(t))
         \/ t \in Consumers /\ (CallPoll(t) \/ PollStep(t) \/ WakeSpuriously(t))
         \/ t = Stopper /\ (CallStop \/ StopLock \/ StopReturn)
         \/ t \in Consumers /\ pc[t] = "Asleep" /\ pc'[t] = "WaitRelock"
<1> USE ThreadsAssumption DEF Threads
<1>1. ASSUME NEW u \in Threads, NEW l, pc' = [pc EXCEPT ![u] = l]
      PROVE  t = u
  BY <1>1 DEF Locks, ThreadTypes
<1>2. ASSUME NEW u \in Threads, NEW l, NotifyOne(u, l)
      PROVE  t = u \/ (t \in Consumers /\ pc[t] = "Asleep" /\ pc'[t] = "WaitRelock")
  BY <1>1, <1>2 DEF NotifyOne, Goto, Locks, ThreadTypes
<1>3. ASSUME NEW p \in Producers, CallPush(p) \/ PushStep(p)
      PROVE  t = p \/ (t \in Consumers /\ pc[t] = "Asleep" /\ pc'[t] = "WaitRelock")
  BY <1>1, <1>2, <1>3 DEF CallPush, PushStep, PushLock, PushNotify, PushReturn, Goto
<1>4. ASSUME NEW c \in Consumers, CallPoll(c) \/ PollStep(c) \/ WakeSpuriously(c)
      PROVE  t = c
  <2>1. \E l : Goto(c, l)
    BY <1>4 DEF CallPoll, PollStep, WaitStep, WakeSpuriously, WaitEmpty, WaitStopped, WaitLock, WaitSleep,
       WaitRelock, WaitUnlock, PollEmpty, PopFront
  <2>2. QED
    BY <1>1, <2>1 DEF Goto
<1>5. ASSUME CallStop \/ StopLock \/ StopReturn
      PROVE  t = Stopper \/ (t \in Consumers /\ pc[t] = "Asleep" /\ pc'[t] = "WaitRelock")
  BY <1>1, <1>2, <1>5 DEF CallStop, StopLock, StopReturn, Goto
<1>6. QED
  BY <1>3, <1>4, <1>5 DEF Next, vars

\* Where the holder of the condition's mutex is, for the threads an owner has.
LEMMA ConditionHolders ==
  ASSUME Locks, NEW p, Producers = {p}, NEW c, Consumers = {c}, ~(conditionMutex = None)
  PROVE  pc[p] = "PushReturn" \/ pc[c] \in {"WaitSleep", "WaitUnlock"} \/ pc[Stopper] = "StopReturn"
<1>1. conditionMutex \in Threads /\ pc[conditionMutex] \in HoldsCondition
  BY DEF Locks, ThreadTypes, MutualExclusion
<1>2. conditionMutex = p \/ conditionMutex = c \/ conditionMutex = Stopper
  BY <1>1 DEF Threads
<1>3. QED
  BY <1>1, <1>2 DEF Locks, ThreadTypes, PushLabels, PollLabels, WaitLabels, StopLabels, HoldsCondition

\* Where the producer's steps lead.
LEMMA PushLeads ==
  ASSUME Locks, NEW p \in Producers, [Next]_vars
  PROVE  /\ pc[p] = "PushLock" =>
               (pc'[p] = "PushLock" /\ ~PushStep(p)) \/ pc'[p] = "PushNotify"
         /\ pc[p] = "PushNotify" =>
               (pc'[p] = "PushNotify" /\ ~PushStep(p)) \/ pc'[p] = "PushReturn"
         /\ pc[p] = "PushReturn" =>
               \/ pc'[p] = "PushReturn" /\ ~PushStep(p)
               \/ pc'[p] = "Idle" /\ conditionMutex' = None /\ dequeMutex' = None
<1> USE ThreadsAssumption DEF Threads
<1>1. CASE PushStep(p)
  <2>1. /\ pc[p] = "PushLock" => pc'[p] = "PushNotify"
        /\ pc[p] = "PushReturn" => pc'[p] = "Idle" /\ conditionMutex' = None /\ dequeMutex' = None
    BY <1>1 DEF PushStep, PushLock, PushNotify, PushReturn, Goto, Locks, ThreadTypes
  <2>2. pc[p] = "PushNotify" => pc'[p] = "PushReturn"
    BY <1>1, Notified DEF PushStep, PushLock, PushNotify, PushReturn
  <2>3. QED
    BY <2>1, <2>2
<1>2. CASE ~PushStep(p)
  <2>1. CASE CallPush(p)
    BY <2>1, <1>2 DEF CallPush
  <2>2. CASE ~CallPush(p)
    <3>1. p \notin Consumers /\ p # Stopper /\ p \in Threads
      OBVIOUS
    <3>2. pc'[p] = pc[p]
      BY <1>2, <2>2, <3>1, ThreadMoves
    <3>3. QED
      BY <1>2, <3>2
  <2>3. QED
    BY <2>1, <2>2
<1>3. QED
  BY <1>1, <1>2

\* Where the consumer's steps lead.
LEMMA PollLeads ==
  ASSUME Locks, DataTypes, NEW c \in Consumers, [Next]_vars
  PROVE  /\ pc[c] \in {"WaitSleep", "WaitUnlock"} =>
               (pc'[c] = pc[c] /\ ~PollStep(c)) \/ conditionMutex' = None
         /\ pc[c] \in {"WaitLock", "WaitRelock"} =>
               \/ pc'[c] = pc[c] /\ ~PollStep(c)
               \/ pc'[c] \notin {"WaitLock", "WaitRelock"}
         /\ pc[c] = "PollEmpty" =>
               \/ pc'[c] = "PollEmpty" /\ left'[c] = left[c] /\ ~PollStep(c)
               \/ pc'[c] = "Idle"
               \/ pc'[c] = "PopFront" /\ left[c] > 0 /\ left'[c] = left[c] - 1
         /\ pc[c] = "PopFront" =>
               \/ pc'[c] = "PopFront" /\ left'[c] = left[c] /\ ~PollStep(c)
               \/ pc'[c] = "PollEmpty" /\ left'[c] = left[c]
<1> USE ThreadsAssumption DEF Threads
<1>1. CASE PollStep(c)
  <2>1. CASE WaitStep(c)
    BY <2>1 DEF WaitStep, WaitEmpty, WaitStopped, WaitLock, WaitSleep, WaitRelock, WaitUnlock, Goto, Locks,
       ThreadTypes
  <2>2. CASE PollEmpty(c)
    BY <2>2 DEF PollEmpty, Goto, Locks, ThreadTypes, DataTypes
  <2>3. CASE PopFront(c)
    BY <2>3 DEF PopFront, Goto, Locks, ThreadTypes
  <2>4. QED
    BY <1>1, <2>1, <2>2, <2>3 DEF PollStep
<1>2. CASE ~PollStep(c) /\ pc[c] \notin {"Idle", "Asleep"}
  <2>1. ~CallPoll(c) /\ ~WakeSpuriously(c) /\ c \notin Producers /\ c # Stopper
    BY <1>2 DEF CallPoll, WakeSpuriously
  <2>2. pc'[c] = pc[c]
    BY <1>2, <2>1, ThreadMoves
  <2>3. left'[c] = left[c]
    <3>1. ASSUME NEW d \in Consumers, CallPoll(d) \/ PollStep(d), d # c
          PROVE  left'[c] = left[c]
      BY <3>1 DEF CallPoll, PollStep, WaitStep, WaitEmpty, WaitStopped, WaitLock, WaitSleep, WaitRelock,
         WaitUnlock, PollEmpty, PopFront, calls, DataTypes
    <3>2. ASSUME NEW d \in Consumers, WakeSpuriously(d)
          PROVE  left'[c] = left[c]
      BY <3>2 DEF WakeSpuriously, calls
    <3>3. ASSUME NEW p \in Producers, CallPush(p) \/ PushStep(p)
          PROVE  left'[c] = left[c]
      BY <3>3 DEF CallPush, PushStep, PushLock, PushNotify, PushReturn, calls
    <3>4. CallStop \/ StopLock \/ StopReturn => left'[c] = left[c]
      BY DEF CallStop, StopLock, StopReturn, calls
    <3>5. QED
      BY <1>2, <2>1, <3>1, <3>2, <3>3, <3>4 DEF Next, vars, calls
  <2>4. QED
    BY <1>2, <2>2, <2>3
<1>3. QED
  BY <1>1, <1>2

\* Where the steps of StopWaiting lead.
LEMMA StopLeads ==
  ASSUME Locks, [Next]_vars
  PROVE  /\ pc[Stopper] = "StopLock" =>
               (pc'[Stopper] = "StopLock" /\ ~(StopLock \/ StopReturn)) \/ pc'[Stopper] = "StopReturn"
         /\ pc[Stopper] = "StopReturn" =>
               \/ pc'[Stopper] = "StopReturn" /\ ~(StopLock \/ StopReturn)
               \/ pc'[Stopper] = "Done" /\ conditionMutex' = None
<1> USE ThreadsAssumption DEF Threads
<1>1. CASE StopLock
  BY <1>1, Notified DEF StopLock
<1>2. CASE StopReturn
  BY <1>2 DEF StopReturn, Goto, Locks, ThreadTypes
<1>3. CASE CallStop
  BY <1>3 DEF CallStop
<1>4. CASE ~CallStop /\ ~StopLock /\ ~StopReturn
  <2>1. pc'[Stopper] = pc[Stopper]
    BY <1>4, ThreadMoves
  <2>2. QED
    BY <1>4, <2>1
<1>5. QED
  BY <1>1, <1>2, <1>3, <1>4

\* What holds throughout for one thread polling.
LEMMA PollingThreadHolds ==
  ASSUME NEW c, Consumers = {c}
  PROVE  Spec => [](Locks /\ DataTypes)
<1>1. Locks /\ Data => Locks /\ DataTypes
  BY DEF Data
<1>2. QED
  BY <1>1, DequeInvariant, PTL

\* The mutex of the condition is free again and again.
LEMMA ConditionFreeAgain ==
  ASSUME NEW p, Producers = {p}, NEW c, Consumers = {c}
  PROVE  FairSpec /\ []StepsEnabled => []<>(conditionMutex = None)
<1> DEFINE Free == conditionMutex = None
           Pushing == pc[p] = "PushReturn"
           Waiting == pc[c] \in {"WaitSleep", "WaitUnlock"}
           Stopping == pc[Stopper] = "StopReturn"
           Holds == Locks /\ DataTypes
<1>1. Holds => Free \/ Pushing \/ Waiting \/ Stopping
  BY ConditionHolders
<1>2. /\ Holds /\ Pushing /\ [Next]_vars => Pushing' \/ Free'
      /\ Holds /\ Pushing /\ <<PushStep(p)>>_vars => Free'
  BY PushLeads DEF Next
<1>3. Pushing /\ StepsEnabled => ENABLED <<PushStep(p)>>_vars
  <2>1. Pushing => PushReady(p)
    BY DEF PushReady
  <2>2. QED
    BY <2>1 DEF StepsEnabled, PushGoesOn
<1>4. /\ Holds /\ Waiting /\ [Next]_vars => Waiting' \/ Free'
      /\ Holds /\ Waiting /\ <<PollStep(c)>>_vars => Free'
  BY PollLeads DEF Next
<1>5. Waiting /\ StepsEnabled => ENABLED <<PollStep(c)>>_vars
  <2>1. Waiting => PollReady(c)
    BY DEF PollReady
  <2>2. QED
    BY <2>1 DEF StepsEnabled, PollGoesOn
<1>6. /\ Holds /\ Stopping /\ [Next]_vars => Stopping' \/ Free'
      /\ Holds /\ Stopping /\ <<StopLock \/ StopReturn>>_vars => Free'
  BY StopLeads DEF Next
<1>7. Stopping /\ StepsEnabled => ENABLED <<StopLock \/ StopReturn>>_vars
  <2>1. Stopping => StopReady
    BY DEF StopReady
  <2>2. QED
    BY <2>1 DEF StepsEnabled, StopGoesOn
<1>8. Fairness => PushFairness(p) /\ PollFairness(c)
  BY ThreadsFair
<1>9. Spec => []Holds
  BY PollingThreadHolds
<1> HIDE DEF Free, Pushing, Waiting, Stopping, Holds
<1>10. FairSpec /\ []StepsEnabled => (Pushing ~> Free)
  BY <1>2, <1>3, <1>8, <1>9, PTL DEF FairSpec, Spec, PushFairness
<1>11. FairSpec /\ []StepsEnabled => (Waiting ~> Free)
  BY <1>4, <1>5, <1>8, <1>9, PTL DEF FairSpec, Spec, PollFairness
<1>12. FairSpec /\ []StepsEnabled => (Stopping ~> Free)
  BY <1>6, <1>7, <1>9, PTL DEF FairSpec, Spec, Fairness
<1>13. FairSpec /\ []StepsEnabled => []<>Free
  BY <1>1, <1>9, <1>10, <1>11, <1>12, PTL DEF FairSpec
<1>14. QED
  BY <1>13 DEF Free

\* For the threads an owner has - one that runs the io_context, one that polls, one that
\* calls StopWaiting - EmplaceBack returns, Wait gets the lock it waits for, and
\* StopWaiting returns: the two mutexes, which EmplaceBack nests, are never
\* waited for in a circle (TSDeque.inl).
THEOREM LocksAreGranted ==
  ASSUME NEW p, Producers = {p}, NEW c, Consumers = {c}
  PROVE  FairSpec /\ []StepsEnabled => PushReturns(p) /\ LocksInTheEnd(c) /\ StopReturns
<1> DEFINE Free == conditionMutex = None
           Holds == Locks /\ DataTypes
           Adding == pc[p] = "PushLock"
           Notifying == pc[p] = "PushNotify"
           Leaving == pc[p] = "PushReturn"
           Returned == pc[p] = "Idle"
           Locking == pc[c] \in {"WaitLock", "WaitRelock"}
           Asked == pc[Stopper] = "Idle"
           Stopping == pc[Stopper] = "StopLock"
           Stopped == pc[Stopper] = "StopReturn"
           Done == pc[Stopper] = "Done"
<1>1. Holds => /\ Adding \/ Notifying \/ Leaving \/ Returned
               /\ Asked \/ Stopping \/ Stopped \/ Done
  BY DEF Locks, ThreadTypes, PushLabels, StopLabels
<1>2. /\ Holds /\ Adding /\ [Next]_vars => Adding' \/ Notifying'
      /\ Holds /\ Adding /\ <<PushStep(p)>>_vars => Notifying'
      /\ Holds /\ Notifying /\ [Next]_vars => Notifying' \/ Leaving'
      /\ Holds /\ Notifying /\ <<PushStep(p)>>_vars => Leaving'
      /\ Holds /\ Leaving /\ [Next]_vars => Leaving' \/ Returned'
      /\ Holds /\ Leaving /\ <<PushStep(p)>>_vars => Returned'
  BY PushLeads DEF Next
<1>3. /\ Holds /\ StepsEnabled /\ Adding => ENABLED <<PushStep(p)>>_vars
      /\ StepsEnabled /\ Notifying /\ Free => ENABLED <<PushStep(p)>>_vars
      /\ StepsEnabled /\ Leaving => ENABLED <<PushStep(p)>>_vars
  <2>1. Holds /\ Adding => dequeMutex = None
    <3>1. ASSUME Holds, Adding, NEW t \in Threads, dequeMutex = t
          PROVE  FALSE
      <4>1. pc[t] \in HoldsDeque
        BY <3>1 DEF Locks, MutualExclusion
      <4>2. t \in Producers
        BY <4>1, <3>1 DEF Locks, ThreadTypes, Threads, HoldsDeque, PollLabels, WaitLabels, StopLabels
      <4>3. QED
        BY <3>1, <4>1, <4>2 DEF HoldsDeque
    <3>2. QED
      BY <3>1 DEF Locks, ThreadTypes
  <2>2. (Adding /\ dequeMutex = None) \/ (Notifying /\ Free) \/ Leaving => PushReady(p)
    BY DEF PushReady
  <2>3. StepsEnabled => PushGoesOn(p)
    BY DEF StepsEnabled
  <2>4. QED
    BY <2>1, <2>2, <2>3 DEF PushGoesOn
<1>4. /\ Holds /\ Locking /\ [Next]_vars => Locking' \/ ~Locking'
      /\ Holds /\ Locking /\ <<PollStep(c)>>_vars => ~Locking'
  BY PollLeads DEF Next
<1>5. StepsEnabled /\ Locking /\ Free => ENABLED <<PollStep(c)>>_vars
  <2>1. Locking /\ Free => PollReady(c)
    BY DEF PollReady
  <2>2. QED
    BY <2>1 DEF StepsEnabled, PollGoesOn
<1>6. /\ Holds /\ Stopping /\ [Next]_vars => Stopping' \/ Stopped'
      /\ Holds /\ Stopping /\ <<StopLock \/ StopReturn>>_vars => Stopped'
      /\ Holds /\ Stopped /\ [Next]_vars => Stopped' \/ Done'
      /\ Holds /\ Stopped /\ <<StopLock \/ StopReturn>>_vars => Done'
  BY StopLeads DEF Next
<1>7. /\ StepsEnabled /\ Stopping /\ Free => ENABLED <<StopLock \/ StopReturn>>_vars
      /\ StepsEnabled /\ Stopped => ENABLED <<StopLock \/ StopReturn>>_vars
  <2>1. (Stopping /\ Free) \/ Stopped => StopReady
    BY DEF StopReady
  <2>2. QED
    BY <2>1 DEF StepsEnabled, StopGoesOn
<1>8. Fairness => PushFairness(p) /\ PollFairness(c)
  BY ThreadsFair
<1>9. Spec => []Holds
  BY PollingThreadHolds
<1>10. FairSpec /\ []StepsEnabled => []<>Free
  BY ConditionFreeAgain
<1>11. /\ PushReturns(p) <=> (~Returned ~> Returned)
       /\ LocksInTheEnd(c) <=> (Locking ~> ~Locking)
       /\ StopReturns <=> (~Asked ~> Done)
  <2>1. /\ pc[p] # "Idle" <=> ~Returned
        /\ pc[c] \notin {"WaitLock", "WaitRelock"} <=> ~Locking
        /\ pc[Stopper] # "Idle" <=> ~Asked
    OBVIOUS
  <2>2. QED
    BY <2>1, PTL DEF PushReturns, LocksInTheEnd, StopReturns
<1> HIDE DEF Free, Holds, Adding, Notifying, Leaving, Returned, Locking, Asked, Stopping, Stopped, Done
<1>12. FairSpec /\ []StepsEnabled => (Leaving ~> Returned)
  BY <1>2, <1>3, <1>8, <1>9, PTL DEF FairSpec, Spec, PushFairness
<1>13. FairSpec /\ []StepsEnabled => (Notifying ~> Leaving)
  BY <1>2, <1>3, <1>8, <1>9, <1>10, PTL DEF FairSpec, Spec, PushFairness
<1>14. FairSpec /\ []StepsEnabled => (Adding ~> Notifying)
  BY <1>2, <1>3, <1>8, <1>9, PTL DEF FairSpec, Spec, PushFairness
<1>15. FairSpec /\ []StepsEnabled => (~Returned ~> Returned)
  BY <1>1, <1>9, <1>12, <1>13, <1>14, PTL DEF FairSpec
<1>16. FairSpec /\ []StepsEnabled => (Locking ~> ~Locking)
  BY <1>4, <1>5, <1>8, <1>9, <1>10, PTL DEF FairSpec, Spec, PollFairness
<1>17. FairSpec /\ []StepsEnabled => (Stopped ~> Done)
  BY <1>6, <1>7, <1>9, PTL DEF FairSpec, Spec, Fairness
<1>18. FairSpec /\ []StepsEnabled => (Stopping ~> Stopped)
  BY <1>6, <1>7, <1>9, <1>10, PTL DEF FairSpec, Spec, Fairness
<1>19. FairSpec /\ []StepsEnabled => (~Asked ~> Done)
  BY <1>1, <1>9, <1>17, <1>18, PTL DEF FairSpec
<1>20. QED
  BY <1>11, <1>15, <1>16, <1>19

\* Every turn of PollMessages' loop comes to an end: the call returns or goes on with a
\* smaller messageCount (TSDeque.inl: Empty and PopFront lock the deque, which EmplaceBack
\* keeps locked while it notifies).  That the call returns in the end, PollReturns, is the
\* induction over messageCount.
THEOREM PollTurnEnds ==
  ASSUME NEW p, Producers = {p}, NEW c, Consumers = {c}, NEW n \in Nat
  PROVE  FairSpec /\ []StepsEnabled =>
            (Polling(c) /\ left[c] = n ~> pc[c] = "Idle" \/ (Polling(c) /\ left[c] < n))
<1> DEFINE Free == dequeMutex = None
           Holds == Locks /\ DataTypes
           Pushed == pc[p] = "Idle"
           Taking == pc[c] = "PopFront" /\ left[c] = n
           Testing == pc[c] = "PollEmpty" /\ left[c] = n
           Goal == pc[c] = "Idle" \/ (Polling(c) /\ left[c] < n)
           Turn == Polling(c) /\ left[c] = n
<1>1. Turn => Taking \/ Testing
  BY DEF Polling
<1>2. Holds /\ Pushed => Free
  <2>1. ASSUME Holds, Pushed, NEW t \in Threads, dequeMutex = t
        PROVE  FALSE
    <3>1. pc[t] \in HoldsDeque
      BY <2>1 DEF Locks, MutualExclusion
    <3>2. t \in Producers
      BY <3>1, <2>1 DEF Locks, ThreadTypes, Threads, HoldsDeque, PollLabels, WaitLabels, StopLabels
    <3>3. QED
      BY <2>1, <3>1, <3>2 DEF HoldsDeque
  <2>2. QED
    BY <2>1 DEF Locks, ThreadTypes
<1>3. /\ Holds /\ Taking /\ [Next]_vars => Taking' \/ Testing'
      /\ Holds /\ Taking /\ <<PollStep(c)>>_vars => Testing'
      /\ Holds /\ Testing /\ [Next]_vars => Testing' \/ Goal'
      /\ Holds /\ Testing /\ <<PollStep(c)>>_vars => Goal'
  <2>2. pc'[c] = "PopFront" /\ left[c] = n /\ left'[c] = left[c] - 1 => Goal'
    BY DEF Polling
  <2>3. pc'[c] = "Idle" => Goal'
    OBVIOUS
  <2> HIDE DEF Goal
  <2>4. QED
    BY <2>2, <2>3, PollLeads DEF Next
<1>4. (Taking \/ Testing) /\ Free /\ StepsEnabled => ENABLED <<PollStep(c)>>_vars
  <2>1. (Taking \/ Testing) /\ Free => PollReady(c)
    BY DEF PollReady
  <2>2. QED
    BY <2>1 DEF StepsEnabled, PollGoesOn
<1>5. Fairness => PollFairness(c)
  BY ThreadsFair
<1>6. Spec => []Holds
  BY PollingThreadHolds
<1>7. FairSpec /\ []StepsEnabled => (~Pushed ~> Pushed)
  <2>1. pc[p] # "Idle" <=> ~Pushed
    OBVIOUS
  <2>2. QED
    BY <2>1, LocksAreGranted, PTL DEF PushReturns
<1> HIDE DEF Free, Holds, Pushed, Taking, Testing, Goal, Turn
<1>8. FairSpec /\ []StepsEnabled => []<>Free
  BY <1>2, <1>6, <1>7, PTL DEF FairSpec
<1>9. FairSpec /\ []StepsEnabled => (Testing ~> Goal)
  BY <1>3, <1>4, <1>5, <1>6, <1>8, PTL DEF FairSpec, Spec, PollFairness
<1>10. FairSpec /\ []StepsEnabled => (Taking ~> Testing)
  BY <1>3, <1>4, <1>5, <1>6, <1>8, PTL DEF FairSpec, Spec, PollFairness
<1>11. FairSpec /\ []StepsEnabled => (Turn ~> Goal)
  BY <1>1, <1>9, <1>10, PTL
<1>12. QED
  BY <1>11, PTL DEF Turn, Goal
=============================================================================
