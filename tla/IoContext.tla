----------------------------- MODULE IoContext -----------------------------
(***************************************************************************)
(* The asio::io_context of an owner as it is built on Windows              *)
(* (win_iocp_io_context), and the std::thread m_ContextThread that runs it *)
(* (DedicatedClient.inl:36, DedicatedServer.inl:20).                       *)
(*                                                                         *)
(* A module of an owner extends this one: its application is thread "App", *)
(* its handlers run on thread "Context".  Between two steps of a thread    *)
(* lies at most one interlocked operation on a variable of the context and *)
(* the post of a stop event it calls for, which no other thread waits for. *)
(*                                                                         *)
(* An operation is a record [op, conn]: what it is and which connection it *)
(* belongs to.  It becomes a packet of the completion port when it has     *)
(* completed, ok or with an error; a posted lambda is a packet from the    *)
(* start.  The port hands packets out in the order they came in.           *)
(***************************************************************************)
EXTENDS Naturals, SequencesExt

Threads == {"App", "Context"}

VARIABLES
    port,               \* the packets of the completion port
    pending,            \* the operations started and not yet completed, oldest first
    outstanding_work,   \* how many operations have not been handled yet
    stopped,            \* has the context been stopped?
    stop_event_posted,  \* is a stop event under way?
    pc                  \* where each thread is

context == <<port, pending, outstanding_work, stopped, stop_event_posted, pc>>

Packet(o, good) == [op |-> o.op, conn |-> o.conn, ok |-> good]
StopEvent == [op |-> "stop", conn |-> 0, ok |-> TRUE]

\* Labels of the context's thread.  "None": m_ContextThread is not joinable.
InDoOne == {"DoOne", "StopSeen", "CheckStopped"}
InHandling == {"WorkFinished", "StopFlag", "PostStop"}
Leaving == {"RepostStop", "Restart"}
ContextLabels == {"None", "Run", "Done"} \cup InDoOne \cup InHandling \cup Leaving

\* Labels of stop(), which both threads call.
StopLabels == {"StopFlag", "PostStop"}

CInit ==
    /\ port = <<>>
    /\ pending = <<>>
    /\ outstanding_work = 0
    /\ stopped = FALSE
    /\ stop_event_posted = FALSE

Goto(t, label) == pc' = [pc EXCEPT ![t] = label]

Terminated == pc["Context"] = "Terminated"

\* An uncaught exception or a crash ends the program.
Terminate == pc' = [t \in Threads |-> "Terminated"]

-----------------------------------------------------------------------------
(* What a thread does to the context in the course of an action.            *)

\* Mistake: work_started() is not called.
Start_Uncounted(o) ==
    /\ pending' = Append(pending, o)
    /\ UNCHANGED <<port, outstanding_work, stopped, stop_event_posted>>

\* Any thread starts an overlapped operation.
Start(o) ==
    /\ pending' = Append(pending, o)
    /\ outstanding_work' = outstanding_work + 1
    /\ UNCHANGED <<port, stopped, stop_event_posted>>

\* Any thread posts a lambda.
Post(p) ==
    /\ port' = Append(port, p)
    /\ outstanding_work' = outstanding_work + 1
    /\ UNCHANGED <<pending, stopped, stop_event_posted>>

\* The system completes the i-th of the pending operations.
Complete(i, good) ==
    /\ pending' = RemoveAt(pending, i)
    /\ port' = Append(port, Packet(pending[i], good))
    /\ UNCHANGED <<outstanding_work, stopped, stop_event_posted, pc>>

\* The packet whose handler do_one calls next.
Handling(p) ==
    /\ pc["Context"] = "DoOne"
    /\ port # <<>>
    /\ p = Head(port)
    /\ p # StopEvent

\* do_one takes that packet and calls its handler, which posts the lambdas and
\* starts the operations given.
Handle(lambdas, started) ==
    /\ port' = Tail(port) \o lambdas
    /\ pending' = pending \o started
    /\ outstanding_work' = outstanding_work + Len(lambdas) + Len(started)
    /\ Goto("Context", "WorkFinished")
    /\ UNCHANGED <<stopped, stop_event_posted>>

-----------------------------------------------------------------------------
(* stop(): where thread t goes when it returns from it.                     *)
AfterStop(t) == IF t = "App" THEN "Join" ELSE "DoOne"

\* Mistake: stop() waits until an earlier stop event has been taken.
StopFlag_AwaitsEvent(t) ==
    /\ pc[t] = "StopFlag"
    /\ ~stop_event_posted
    /\ stopped' = TRUE
    /\ Goto(t, IF stopped THEN AfterStop(t) ELSE "PostStop")
    /\ UNCHANGED <<port, pending, outstanding_work, stop_event_posted>>

StopFlag(t) ==
    /\ pc[t] = "StopFlag"
    /\ stopped' = TRUE
    /\ Goto(t, IF stopped THEN AfterStop(t) ELSE "PostStop")
    /\ UNCHANGED <<port, pending, outstanding_work, stop_event_posted>>

\* Sets the flag and, if it was clear, posts the event.
PostStopEvent ==
    /\ stop_event_posted' = TRUE
    /\ port' = IF stop_event_posted THEN port ELSE Append(port, StopEvent)

PostStop(t) ==
    /\ pc[t] = "PostStop"
    /\ PostStopEvent
    /\ Goto(t, AfterStop(t))
    /\ UNCHANGED <<pending, outstanding_work, stopped>>

-----------------------------------------------------------------------------
(* The context's thread.                                                    *)

\* run() of a context that has work; RunHasWork says there is no other.
Run ==
    /\ pc["Context"] = "Run"
    /\ Goto("Context", "DoOne")
    /\ UNCHANGED <<port, pending, outstanding_work, stopped, stop_event_posted>>

\* Mistake: an operation counts until run() returns.
WorkFinished_Late ==
    /\ pc["Context"] = "WorkFinished"
    /\ Goto("Context", "DoOne")
    /\ UNCHANGED <<port, pending, outstanding_work, stopped, stop_event_posted>>

\* The operation that do_one has handled no longer counts.
WorkFinished ==
    /\ pc["Context"] = "WorkFinished"
    /\ outstanding_work' = outstanding_work - 1
    /\ Goto("Context", IF outstanding_work = 1 THEN "StopFlag" ELSE "DoOne")
    /\ UNCHANGED <<port, pending, stopped, stop_event_posted>>

\* do_one takes a stop event.
TakeStop ==
    /\ pc["Context"] = "DoOne"
    /\ port # <<>> /\ Head(port) = StopEvent
    /\ port' = Tail(port)
    /\ Goto("Context", "StopSeen")
    /\ UNCHANGED <<pending, outstanding_work, stopped, stop_event_posted>>

\* Mistake: the flag is cleared only when the event is ignored.
StopSeen_KeepsFlag ==
    /\ pc["Context"] = "StopSeen"
    /\ stop_event_posted' = stopped
    /\ Goto("Context", "CheckStopped")
    /\ UNCHANGED <<port, pending, outstanding_work, stopped>>

StopSeen ==
    /\ pc["Context"] = "StopSeen"
    /\ stop_event_posted' = FALSE
    /\ Goto("Context", "CheckStopped")
    /\ UNCHANGED <<port, pending, outstanding_work, stopped>>

\* Mistake: every stop event ends the run.
CheckStopped_Obeys ==
    /\ pc["Context"] = "CheckStopped"
    /\ Goto("Context", "RepostStop")
    /\ UNCHANGED <<port, pending, outstanding_work, stopped, stop_event_posted>>

\* Mistake: stopped_ is taken to be clear once there is work again.
CheckStopped_GoesOn ==
    /\ pc["Context"] = "CheckStopped"
    /\ Goto("Context", IF stopped /\ outstanding_work = 0
                       THEN "RepostStop" ELSE "DoOne")
    /\ UNCHANGED <<port, pending, outstanding_work, stopped, stop_event_posted>>

\* A stop event left over from an earlier run is ignored.
CheckStopped ==
    /\ pc["Context"] = "CheckStopped"
    /\ Goto("Context", IF stopped THEN "RepostStop" ELSE "DoOne")
    /\ UNCHANGED <<port, pending, outstanding_work, stopped, stop_event_posted>>

\* Mistake: the stop event is not posted again.
RepostStop_Dropped ==
    /\ pc["Context"] = "RepostStop"
    /\ Goto("Context", "Restart")
    /\ UNCHANGED <<port, pending, outstanding_work, stopped, stop_event_posted>>

\* Before run() returns, the stop event is posted again for other threads.
RepostStop ==
    /\ pc["Context"] = "RepostStop"
    /\ PostStopEvent
    /\ Goto("Context", "Restart")
    /\ UNCHANGED <<pending, outstanding_work, stopped>>

\* Mistake: the thread ends without restart().
Restart_Skipped ==
    /\ pc["Context"] = "Restart"
    /\ Goto("Context", "Done")
    /\ UNCHANGED <<port, pending, outstanding_work, stopped, stop_event_posted>>

\* The thread calls restart() when run() has returned, and ends.
Restart ==
    /\ pc["Context"] = "Restart"
    /\ stopped' = FALSE
    /\ Goto("Context", "Done")
    /\ UNCHANGED <<port, pending, outstanding_work, stop_event_posted>>

ContextStep ==
    \/ Run \/ WorkFinished
    \/ StopFlag("Context") \/ PostStop("Context")
    \/ TakeStop \/ StopSeen \/ CheckStopped
    \/ RepostStop \/ Restart

AppStopStep == StopFlag("App") \/ PostStop("App")

\* join() returns once the thread has ended; the thread may also never have
\* been started.
Join(label) ==
    /\ pc["App"] = "Join"
    /\ pc["Context"] \in {"Done", "None"}
    /\ pc' = [pc EXCEPT !["App"] = label, !["Context"] = "None"]
    /\ UNCHANGED <<port, pending, outstanding_work, stopped, stop_event_posted>>

-----------------------------------------------------------------------------
(* What the context promises whoever uses it.                               *)

ContextTypeOK(packets, operations) ==
    /\ port \in Seq(packets)
    /\ pending \in Seq(operations)
    /\ outstanding_work \in Nat
    /\ stopped \in BOOLEAN
    /\ stop_event_posted \in BOOLEAN

StopQueued == \E i \in DOMAIN port : port[i] = StopEvent

\* outstanding_work_ is the number of operations that are pending, queued or in
\* their handler, however posts, completions and handlers interleave: run()
\* neither returns while there is work nor waits when there is none.
WorkCounted ==
    ~Terminated =>
        outstanding_work =
            Len(pending) + Len(port) - (IF StopQueued THEN 1 ELSE 0)
            + (IF pc["Context"] = "WorkFinished" THEN 1 ELSE 0)

\* There is never more than one stop event, and stop_event_posted_ says whether
\* there is one, with stop() called by two threads and do_one taking events.
StopEventOnce ==
    ~Terminated =>
        /\ \A i, j \in DOMAIN port :
              port[i] = StopEvent /\ port[j] = StopEvent => i = j
        /\ stop_event_posted <=> StopQueued \/ pc["Context"] = "StopSeen"
        /\ pc["Context"] = "StopSeen" => ~StopQueued

\* A stop is never lost: as long as the context is stopped, a stop event is on
\* its way to do_one, or some thread is about to post one.  The flag is cleared
\* and stopped_ read in two steps (lines 503-507), between which stop() may run.
StopNotLost ==
    stopped =>
        \/ Terminated
        \/ stop_event_posted
        \/ \E t \in Threads : pc[t] = "PostStop"
        \/ pc["Context"] \in {"CheckStopped", "RepostStop"}

\* The context's thread is in run() or restart().
ContextRunning == pc["Context"] \in {"Run"} \cup InDoOne \cup InHandling \cup Leaving

\* run() is never called on a context without work, which it would stop.
RunHasWork == pc["Context"] = "Run" => outstanding_work > 0
=============================================================================
