------------------------------ MODULE TSDeque ------------------------------
(***************************************************************************)
(* The thread-safe deque of Network/src/Network/TSDeque.inl as the two     *)
(* owners use it for m_IncomingMessages: threads that run an io_context    *)
(* add messages with EmplaceBack, application threads take them with       *)
(* PollMessages, which may Wait for one first.                             *)
(*                                                                         *)
(* A step is what a thread does between two points where another thread    *)
(* can get in its way: taking a mutex, reading the atomic flag, sleeping   *)
(* on the condition variable.  Empty and PopFront take and release their   *)
(* mutex in one step, as nothing else happens while they hold it.          *)
(***************************************************************************)
EXTENDS Integers, Sequences

CONSTANTS
    Producers,  \* threads that call EmplaceBack (or PushBack)
    Consumers,  \* threads that call PollMessages
    Stopper,    \* a thread that calls StopWaiting
    None,       \* no thread
    Pushes,     \* bound: calls of EmplaceBack by each producer
    Counts      \* the values of messageCount

Threads == Producers \cup Consumers \cup {Stopper}

ASSUME ThreadsAssumption ==
    /\ Producers \cap Consumers = {}
    /\ Stopper \notin Producers \cup Consumers
    /\ None \notin Threads

ASSUME BoundsAssumption == Pushes \in Nat /\ Counts \subseteq Nat

VARIABLES
    deque,          \* m_Deque
    dequeMutex,     \* holder of m_DequeMutex
    conditionMutex, \* holder of m_ContidionMutex
    stopWaiting,    \* m_StopWaiting
    pc,             \* where each thread is
    pushed,         \* how many messages each producer has added
    waits,          \* waitForMessage of the consumer's call
    left,           \* what is left of its messageCount
    got,            \* how many messages the call has taken
    taken           \* every message taken, in the order of PopFront

vars == <<deque, dequeMutex, conditionMutex, stopWaiting, pc, pushed, waits,
          left, got, taken>>

calls == <<waits, left, got>>

PushLabels == {"Idle", "PushLock", "PushNotify", "PushReturn"}
WaitLabels == {"WaitEmpty", "WaitStopped", "WaitLock", "WaitSleep", "Asleep",
               "WaitRelock", "WaitUnlock"}
PollLabels == {"Idle", "PollEmpty", "PopFront"} \cup WaitLabels
StopLabels == {"Idle", "StopLock", "StopReturn", "Done"}

HoldsDeque     == {"PushNotify", "PushReturn"}
HoldsCondition == {"PushReturn", "WaitSleep", "WaitUnlock", "StopReturn"}

Messages == Producers \X (Nat \ {0})

-----------------------------------------------------------------------------
Init ==
    /\ deque = <<>>
    /\ dequeMutex = None
    /\ conditionMutex = None
    /\ stopWaiting = FALSE
    /\ pc = [t \in Threads |-> "Idle"]
    /\ pushed = [p \in Producers |-> 0]
    /\ waits = [c \in Consumers |-> FALSE]
    /\ left = [c \in Consumers |-> 0]
    /\ got = [c \in Consumers |-> 0]
    /\ taken = <<>>

Goto(t, l) == pc' = [pc EXCEPT ![t] = l]

\* notify_one: some thread that sleeps on the condition, if there is one, is
\* woken; t goes on to l.
NotifyOne(t, l) ==
    \/ \E c \in Consumers :
          /\ pc[c] = "Asleep"
          /\ pc' = [pc EXCEPT ![c] = "WaitRelock", ![t] = l]
    \/ /\ \A c \in Consumers : pc[c] # "Asleep"
       /\ Goto(t, l)

-----------------------------------------------------------------------------
(* EmplaceBack.                                                             *)

CallPush(p) ==
    /\ pc[p] = "Idle"
    /\ pushed[p] < Pushes
    /\ Goto(p, "PushLock")
    /\ UNCHANGED <<deque, dequeMutex, conditionMutex, stopWaiting, pushed, calls, taken>>

\* Mistake: the deque is not locked.
PushLock_Unlocked(p) ==
    /\ pc[p] = "PushLock"
    /\ dequeMutex' = p
    /\ pushed' = [pushed EXCEPT ![p] = @ + 1]
    /\ deque' = Append(deque, <<p, pushed'[p]>>)
    /\ Goto(p, "PushNotify")
    /\ UNCHANGED <<conditionMutex, stopWaiting, calls, taken>>

\* dequeLock is taken and the message added.
PushLock(p) ==
    /\ pc[p] = "PushLock"
    /\ dequeMutex = None
    /\ dequeMutex' = p
    /\ pushed' = [pushed EXCEPT ![p] = @ + 1]
    /\ deque' = Append(deque, <<p, pushed'[p]>>)
    /\ Goto(p, "PushNotify")
    /\ UNCHANGED <<conditionMutex, stopWaiting, calls, taken>>

\* Mistake: only a message added to an empty deque notifies.
PushNotify_IfWasEmpty(p) ==
    /\ pc[p] = "PushNotify"
    /\ conditionMutex = None
    /\ conditionMutex' = p
    /\ IF Len(deque) = 1 THEN NotifyOne(p, "PushReturn") ELSE Goto(p, "PushReturn")
    /\ UNCHANGED <<deque, dequeMutex, stopWaiting, pushed, calls, taken>>

\* conditionLock is taken while dequeLock is held, and the condition notified.
PushNotify(p) ==
    /\ pc[p] = "PushNotify"
    /\ conditionMutex = None
    /\ conditionMutex' = p
    /\ NotifyOne(p, "PushReturn")
    /\ UNCHANGED <<deque, dequeMutex, stopWaiting, pushed, calls, taken>>

\* Both locks are released.
PushReturn(p) ==
    /\ pc[p] = "PushReturn"
    /\ dequeMutex' = None
    /\ conditionMutex' = None
    /\ Goto(p, "Idle")
    /\ UNCHANGED <<deque, stopWaiting, pushed, calls, taken>>

-----------------------------------------------------------------------------
(* PollMessages(messageCount, waitForMessage).                              *)

CallPoll(c) ==
    /\ pc[c] = "Idle"
    /\ \E n \in Counts : left' = [left EXCEPT ![c] = n]
    /\ \E w \in BOOLEAN :
          /\ waits' = [waits EXCEPT ![c] = w]
          /\ Goto(c, IF w THEN "WaitEmpty" ELSE "PollEmpty")
    /\ got' = [got EXCEPT ![c] = 0]
    /\ UNCHANGED <<deque, dequeMutex, conditionMutex, stopWaiting, pushed, taken>>

\* The condition of Wait's loop: Empty() && !m_StopWaiting, no lock being held
\* between the two or after them.
WaitEmpty(c) ==
    /\ pc[c] = "WaitEmpty"
    /\ dequeMutex = None
    /\ Goto(c, IF deque = <<>> THEN "WaitStopped" ELSE "PollEmpty")
    /\ UNCHANGED <<deque, dequeMutex, conditionMutex, stopWaiting, pushed, calls, taken>>

WaitStopped(c) ==
    /\ pc[c] = "WaitStopped"
    /\ Goto(c, IF stopWaiting THEN "PollEmpty" ELSE "WaitLock")
    /\ UNCHANGED <<deque, dequeMutex, conditionMutex, stopWaiting, pushed, calls, taken>>

\* Mistake: Wait locks the deque as well, and sleeps with it locked.
WaitLock_Both(c) ==
    /\ pc[c] = "WaitLock"
    /\ conditionMutex = None /\ dequeMutex = None
    /\ conditionMutex' = c /\ dequeMutex' = c
    /\ Goto(c, "WaitSleep")
    /\ UNCHANGED <<deque, stopWaiting, pushed, calls, taken>>

\* conditionLock is taken.
WaitLock(c) ==
    /\ pc[c] = "WaitLock"
    /\ conditionMutex = None
    /\ conditionMutex' = c
    /\ Goto(c, "WaitSleep")
    /\ UNCHANGED <<deque, dequeMutex, stopWaiting, pushed, calls, taken>>

\* m_Contidion.wait releases the lock and sleeps, in one step.
WaitSleep(c) ==
    /\ pc[c] = "WaitSleep"
    /\ conditionMutex' = None
    /\ Goto(c, "Asleep")
    /\ UNCHANGED <<deque, dequeMutex, stopWaiting, pushed, calls, taken>>

\* A condition variable may wake a thread for no reason.
WakeSpuriously(c) ==
    /\ pc[c] = "Asleep"
    /\ Goto(c, "WaitRelock")
    /\ UNCHANGED <<deque, dequeMutex, conditionMutex, stopWaiting, pushed, calls, taken>>

\* wait takes the lock again before it returns; conditionLock then releases it.
WaitRelock(c) ==
    /\ pc[c] = "WaitRelock"
    /\ conditionMutex = None
    /\ conditionMutex' = c
    /\ Goto(c, "WaitUnlock")
    /\ UNCHANGED <<deque, dequeMutex, stopWaiting, pushed, calls, taken>>

\* Mistake: "if" in the place of "while".
WaitUnlock_NoLoop(c) ==
    /\ pc[c] = "WaitUnlock"
    /\ conditionMutex' = None
    /\ Goto(c, "PollEmpty")
    /\ UNCHANGED <<deque, dequeMutex, stopWaiting, pushed, calls, taken>>

WaitUnlock(c) ==
    /\ pc[c] = "WaitUnlock"
    /\ conditionMutex' = None
    /\ Goto(c, "WaitEmpty")
    /\ UNCHANGED <<deque, dequeMutex, stopWaiting, pushed, calls, taken>>

\* Mistake: a call that has waited takes a message without looking.
PollEmpty_TrustsWait(c) ==
    /\ pc[c] = "PollEmpty"
    /\ IF left[c] > 0
       THEN /\ dequeMutex = None
            /\ left' = [left EXCEPT ![c] = @ - 1]
            /\ Goto(c, IF deque = <<>> /\ ~waits[c] THEN "Idle" ELSE "PopFront")
       ELSE Goto(c, "Idle") /\ UNCHANGED left
    /\ UNCHANGED <<deque, dequeMutex, conditionMutex, stopWaiting, pushed, waits, got, taken>>

\* Mistake: --messageCount, which makes 0 wrap round.
PollEmpty_PreDecrement(c) ==
    /\ pc[c] = "PollEmpty"
    /\ dequeMutex = None
    /\ left' = [left EXCEPT ![c] = @ - 1]
    /\ Goto(c, IF deque = <<>> \/ left[c] = 1 THEN "Idle" ELSE "PopFront")
    /\ UNCHANGED <<deque, dequeMutex, conditionMutex, stopWaiting, pushed, waits, got, taken>>

\* The condition of PollMessages' loop: messageCount-- && !Empty().
PollEmpty(c) ==
    /\ pc[c] = "PollEmpty"
    /\ \/ /\ left[c] > 0
          /\ dequeMutex = None
          /\ left' = [left EXCEPT ![c] = @ - 1]
          /\ Goto(c, IF deque = <<>> THEN "Idle" ELSE "PopFront")
       \/ /\ left[c] = 0
          /\ Goto(c, "Idle")
          /\ UNCHANGED left
    /\ UNCHANGED <<deque, dequeMutex, conditionMutex, stopWaiting, pushed, waits, got, taken>>

\* Mistake: the message is taken from the back.
PopFront_Back(c) ==
    /\ pc[c] = "PopFront"
    /\ dequeMutex = None
    /\ taken' = Append(taken, deque[Len(deque)])
    /\ deque' = SubSeq(deque, 1, Len(deque) - 1)
    /\ got' = [got EXCEPT ![c] = @ + 1]
    /\ Goto(c, "PollEmpty")
    /\ UNCHANGED <<dequeMutex, conditionMutex, stopWaiting, pushed, waits, left>>

\* PopFront, and the application's OnMessage, which does not touch the deque.
PopFront(c) ==
    /\ pc[c] = "PopFront"
    /\ dequeMutex = None
    /\ taken' = Append(taken, Head(deque))
    /\ deque' = Tail(deque)
    /\ got' = [got EXCEPT ![c] = @ + 1]
    /\ Goto(c, "PollEmpty")
    /\ UNCHANGED <<dequeMutex, conditionMutex, stopWaiting, pushed, waits, left>>

-----------------------------------------------------------------------------
(* StopWaiting.                                                             *)

CallStop ==
    /\ pc[Stopper] = "Idle"
    /\ Goto(Stopper, "StopLock")
    /\ UNCHANGED <<deque, dequeMutex, conditionMutex, stopWaiting, pushed, calls, taken>>

StopLock ==
    /\ pc[Stopper] = "StopLock"
    /\ conditionMutex = None
    /\ conditionMutex' = Stopper
    /\ stopWaiting' = TRUE
    /\ NotifyOne(Stopper, "StopReturn")
    /\ UNCHANGED <<deque, dequeMutex, pushed, calls, taken>>

StopReturn ==
    /\ pc[Stopper] = "StopReturn"
    /\ conditionMutex' = None
    /\ Goto(Stopper, "Done")
    /\ UNCHANGED <<deque, dequeMutex, stopWaiting, pushed, calls, taken>>

-----------------------------------------------------------------------------
PushStep(p) == PushLock(p) \/ PushNotify(p) \/ PushReturn(p)

WaitStep(c) ==
    \/ WaitEmpty(c) \/ WaitStopped(c) \/ WaitLock(c) \/ WaitSleep(c)
    \/ WaitRelock(c) \/ WaitUnlock(c)

PollStep(c) == WaitStep(c) \/ PollEmpty(c) \/ PopFront(c)

Next ==
    \/ \E p \in Producers : CallPush(p) \/ PushStep(p)
    \/ \E c \in Consumers : CallPoll(c) \/ PollStep(c) \/ WakeSpuriously(c)
    \/ CallStop \/ StopLock \/ StopReturn

\* A thread that is inside a call goes on; a mutex that is free again and again
\* is taken in the end.  Nobody need make a call, nor wake for no reason.
PushFairness(p) == SF_vars(PushStep(p))
PollFairness(c) == SF_vars(PollStep(c))
ProducersFair == \A p \in Producers : PushFairness(p)
ConsumersFair == \A c \in Consumers : PollFairness(c)

Fairness == ProducersFair /\ ConsumersFair /\ SF_vars(StopLock \/ StopReturn)

Spec == Init /\ [][Next]_vars
FairSpec == Spec /\ Fairness

-----------------------------------------------------------------------------
\* The values of the variables; each kind of thread stays in its own code.
ThreadTypes ==
    /\ dequeMutex \in Threads \cup {None}
    /\ conditionMutex \in Threads \cup {None}
    /\ pc \in [Threads -> PushLabels \cup PollLabels \cup StopLabels]
    /\ \A p \in Producers : pc[p] \in PushLabels
    /\ \A c \in Consumers : pc[c] \in PollLabels
    /\ pc[Stopper] \in StopLabels

DataTypes ==
    /\ deque \in Seq(Messages)
    /\ taken \in Seq(Messages)
    /\ stopWaiting \in BOOLEAN
    /\ pushed \in [Producers -> Nat]
    /\ waits \in [Consumers -> BOOLEAN]
    /\ left \in [Consumers -> Nat]
    /\ got \in [Consumers -> Nat]

TypeOK == ThreadTypes /\ DataTypes

\* A mutex is held by the one thread whose call is where it holds it.
MutualExclusion ==
    \A t \in Threads :
       /\ dequeMutex = t <=> pc[t] \in HoldsDeque
       /\ conditionMutex = t <=> pc[t] \in HoldsCondition

\* With one thread polling, the message that PopFront takes is there: nobody
\* takes it between the test of Empty() and PopFront, which lock separately.
PopFindsMessage == \A c \in Consumers : pc[c] = "PopFront" => deque # <<>>

\* With one thread polling, a call that has waited finds a message, unless
\* waiting has been stopped: no wake-up for no reason gets through Wait.
WaitedPollFindsMessage ==
    \A c \in Consumers :
       pc[c] = "PollEmpty" /\ waits[c] /\ got[c] = 0 /\ ~stopWaiting => deque # <<>>

\* Whether a sequence consists of the first n[p] messages of each producer p,
\* each once and each producer's in its order.
AllInOrder(all, n) ==
    /\ \A p \in Producers : \A k \in 1..n[p] :
          \E i \in DOMAIN all : all[i] = <<p, k>>
    /\ \A i \in DOMAIN all : all[i][2] <= n[all[i][1]]
    /\ \A i, j \in DOMAIN all :
          i < j /\ all[i][1] = all[j][1] => all[i][2] < all[j][2]

\* What has been taken, followed by what is still there, is what was added:
\* nothing is lost, taken twice or overtaken by a later message of its sender.
MessagesInOrder == AllInOrder(taken \o deque, pushed)

Polling(c) == pc[c] \in {"PollEmpty", "PopFront"}

\* Each kind of call comes to its end.
PushReturns(p) == pc[p] # "Idle" ~> pc[p] = "Idle"
LocksInTheEnd(c) ==
    pc[c] \in {"WaitLock", "WaitRelock"} ~> pc[c] \notin {"WaitLock", "WaitRelock"}
PollReturns(c) == Polling(c) ~> pc[c] = "Idle"
StopReturns == pc[Stopper] # "Idle" ~> pc[Stopper] = "Done"

\* Whoever is inside EmplaceBack, StopWaiting, Empty or PopFront returns: the
\* two mutexes, which EmplaceBack nests, are never waited for in a circle, and
\* no thread sleeps with one of them.
CallsReturn ==
    /\ \A p \in Producers : PushReturns(p)
    /\ \A c \in Consumers : LocksInTheEnd(c) /\ PollReturns(c)
    /\ StopReturns

\* A wake-up that was missed is made good by the next message: one thread
\* polling sleeps through no call of EmplaceBack that starts to notify after it.
WokenByNextPush ==
    \A c \in Consumers, p \in Producers :
       pc[c] = "Asleep" /\ pc[p] = "PushNotify" ~> pc[c] # "Asleep"

-----------------------------------------------------------------------------
(* Who can go on when.                                                      *)

\* With the mutex it asks for free, the next step of a thread's call can be taken.
PushReady(p) ==
    \/ pc[p] = "PushLock" /\ dequeMutex = None
    \/ pc[p] = "PushNotify" /\ conditionMutex = None
    \/ pc[p] = "PushReturn"

PollReady(c) ==
    \/ pc[c] \in {"WaitStopped", "WaitSleep", "WaitUnlock"}
    \/ pc[c] \in {"WaitLock", "WaitRelock"} /\ conditionMutex = None
    \/ pc[c] \in {"WaitEmpty", "PollEmpty", "PopFront"} /\ dequeMutex = None
    \/ pc[c] = "PollEmpty" /\ left[c] = 0

StopReady ==
    \/ pc[Stopper] = "StopLock" /\ conditionMutex = None
    \/ pc[Stopper] = "StopReturn"

PushGoesOn(p) == PushReady(p) => ENABLED <<PushStep(p)>>_vars
PollGoesOn(c) == PollReady(c) => ENABLED <<PollStep(c)>>_vars
StopGoesOn == StopReady => ENABLED <<StopLock \/ StopReturn>>_vars

StepsEnabled ==
    /\ \A p \in Producers : PushGoesOn(p)
    /\ \A c \in Consumers : PollGoesOn(c)
    /\ StopGoesOn

\* Whether a thread can do the next step of the call it is in.
CanStep(t) ==
    \/ t \in Producers /\ ENABLED <<PushStep(t)>>_vars
    \/ t \in Consumers /\ ENABLED <<PollStep(t)>>_vars
    \/ t = Stopper /\ ENABLED <<StopLock \/ StopReturn>>_vars

\* Awake inside a call.
Running(t) == pc[t] \notin {"Idle", "Asleep", "Done"}

\* The mutexes are asked for in one order, the deque's before the condition's, and nobody
\* sleeps with one: who has the condition's needs nothing more, who has the deque's alone
\* can be kept from going on by the condition's only, and with both free every thread
\* that is awake inside a call goes on.
NobodyStuck ==
    /\ StepsEnabled
    /\ conditionMutex # None => CanStep(conditionMutex)
    /\ dequeMutex # None /\ conditionMutex = None => CanStep(dequeMutex)
    /\ dequeMutex = None /\ conditionMutex = None =>
          \A t \in Threads : Running(t) => CanStep(t)

-----------------------------------------------------------------------------
\* TSDeque.h:7: "Thread-Safe Deque".  A thread in Wait returns when another has
\* added a message.
MessageEndsWait ==
    \A c \in Consumers :
       pc[c] \in WaitLabels /\ deque # <<>> ~> pc[c] \notin WaitLabels
=============================================================================
