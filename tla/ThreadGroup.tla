----------------------------- MODULE ThreadGroup -----------------------------
(***************************************************************************)
(* A group of managed threads (mng_thread.h, managedThread_t with          *)
(* isGrouped): the main thread constructs them one by one, StartLoop lets  *)
(* them go together once all of them wait, and the destructors stop and    *)
(* join them one by one.  The group shares its flags and its count.        *)
(*                                                                         *)
(* Every construction begins with StopLoop, a pulse of m_isExiting that    *)
(* the threads constructed before may see.  The function of the threads    *)
(* is TServer::process_iooperations: it returns when isRunning is false.   *)
(***************************************************************************)
EXTENDS Threads

VARIABLES
  main,             \* where the main thread is
  subject,          \* the thread it constructs or destroys ({}: none)
  pc,               \* where each thread is in threadFunction
  active_flag,           \* m_active_flag of each thread
  exception,        \* the threads whose function threw (m_expointer)
  detached,         \* the threads a destructor gave up
  currnumThreads,   \* m_currnumThreads
  isEnableRunning,  \* m_isEnableRunning
  isExiting,        \* m_isExiting
  destructor_error, \* m_destructor_error
  caught            \* history: a waiting thread saw the pulse of a constructor

flags == <<isEnableRunning, isExiting>>
groupvars == <<main, subject, pc, active_flag, exception, detached, currnumThreads, flags,
          destructor_error, caught>>

Numbers == Cardinality(Thread)  \* m_numThreads

-----------------------------------------------------------------------------
GroupInit ==
  /\ main = "idle" /\ subject = {}
  /\ pc = [t \in Thread |-> "none"] /\ active_flag = [t \in Thread |-> FALSE]
  /\ exception = {} /\ detached = {}
  /\ currnumThreads = 0 /\ isEnableRunning = FALSE /\ isExiting = FALSE
  /\ destructor_error = FALSE /\ caught = FALSE

(* The constructor: StopLoop, m_isExiting = false, the new thread.          *)
Construct(t) ==
  /\ main \in {"idle", "constructing"} /\ subject = {} /\ pc[t] = "none"
  /\ main' = "constructing" /\ subject' = {t}
  /\ isEnableRunning' = FALSE /\ isExiting' = TRUE
  /\ UNCHANGED <<pc, active_flag, exception, detached, currnumThreads,
                 destructor_error, caught>>

Launch(t) ==
  /\ main = "constructing" /\ subject = {t} /\ subject' = {}
  /\ isExiting' = FALSE /\ pc' = [pc EXCEPT ![t] = "launched"]
  /\ UNCHANGED <<main, active_flag, exception, detached, currnumThreads,
                 isEnableRunning, destructor_error, caught>>

\* Mutant: StartLoop does not wait for the last thread.
StartLoopEarly ==
  /\ main = "constructing" /\ subject = {} /\ \A t \in Thread : pc[t] # "none"
  /\ currnumThreads >= Numbers - 1
  /\ main' = "started" /\ isEnableRunning' = TRUE
  /\ UNCHANGED <<subject, pc, active_flag, exception, detached, currnumThreads,
                 isExiting, destructor_error, caught>>

\* Mutant: StartLoop waits for a count that is never reached.
StartLoopLate ==
  /\ main = "constructing" /\ subject = {} /\ \A t \in Thread : pc[t] # "none"
  /\ currnumThreads > Numbers
  /\ main' = "started" /\ isEnableRunning' = TRUE
  /\ UNCHANGED <<subject, pc, active_flag, exception, detached, currnumThreads,
                 isExiting, destructor_error, caught>>

\* Called once all threads are constructed; spins until all of them count.
StartLoop ==
  /\ main = "constructing" /\ subject = {} /\ \A t \in Thread : pc[t] # "none"
  /\ currnumThreads >= Numbers
  /\ main' = "started" /\ isEnableRunning' = TRUE
  /\ UNCHANGED <<subject, pc, active_flag, exception, detached, currnumThreads,
                 isExiting, destructor_error, caught>>

-----------------------------------------------------------------------------
(* The destructor: StopLoop, a wait for the thread to be inactive, join.    *)

\* Mutant: the destructor does not set m_isExiting.
DestroyUnheard(t) ==
  /\ main \in {"started", "destroying"} /\ subject = {} /\ pc[t] # "none"
  /\ main' = "destroying" /\ subject' = {t}
  /\ isEnableRunning' = FALSE
  /\ UNCHANGED <<pc, active_flag, exception, detached, currnumThreads, isExiting,
                 destructor_error, caught>>

Destroy(t) ==
  /\ main \in {"started", "destroying"} /\ subject = {} /\ pc[t] # "none"
  /\ t \notin detached
  /\ main' = "destroying" /\ subject' = {t}
  /\ isEnableRunning' = FALSE /\ isExiting' = TRUE
  /\ UNCHANGED <<pc, active_flag, exception, detached, currnumThreads,
                 destructor_error, caught>>

\* The thread was found inactive, perhaps only after all waits (an error),
\* and it has ended.
JoinThread(t) ==
  /\ main = "destroying" /\ subject = {t} /\ pc[t] = "gone"
  /\ subject' = {} /\ pc' = [pc EXCEPT ![t] = "none"]
  /\ destructor_error' \in {destructor_error \/ t \in exception, TRUE}
  /\ exception' = exception \ {t}
  /\ UNCHANGED <<main, active_flag, detached, currnumThreads, flags, caught>>

\* The thread was active at the end of all waits: it is detached.  (It goes
\* on with an object that is destroyed; the model lets it go on as before.)
GiveUp(t) ==
  /\ main = "destroying" /\ subject = {t} /\ active_flag[t]
  /\ subject' = {} /\ detached' = detached \cup {t} /\ destructor_error' = TRUE
  /\ UNCHANGED <<main, pc, active_flag, exception, currnumThreads, flags, caught>>

\* All threads are destroyed.  A server whose threads were not destroyed
\* without an error does not start again.
Destroyed ==
  /\ main = "destroying" /\ subject = {}
  /\ \A t \in Thread : pc[t] = "none" \/ t \in detached
  /\ main' = IF destructor_error THEN "failed" ELSE "idle"
  /\ UNCHANGED <<subject, pc, active_flag, exception, detached, currnumThreads, flags,
                 destructor_error, caught>>

-----------------------------------------------------------------------------
(* threadFunction.                                                          *)
bisRunning == isEnableRunning \/ isExiting
Caught == isExiting /\ main = "constructing"

\* The thread is active and counted, and looks at the flags.
Enter(t) ==
  /\ pc[t] = "launched"
  /\ active_flag' = [active_flag EXCEPT ![t] = TRUE]
  /\ currnumThreads' = currnumThreads + 1
  /\ pc' = [pc EXCEPT ![t] = IF bisRunning THEN "released" ELSE "waiting"]
  /\ caught' = (caught \/ Caught)
  /\ UNCHANGED <<main, subject, exception, detached, flags, destructor_error>>

\* Notified, or after at most five milliseconds.
Wake(t) ==
  /\ pc[t] = "waiting" /\ bisRunning
  /\ pc' = [pc EXCEPT ![t] = "released"]
  /\ caught' = (caught \/ Caught)
  /\ UNCHANGED <<main, subject, active_flag, exception, detached, currnumThreads,
                 flags, destructor_error>>

Enters(t) ==
  /\ pc[t] = "released"
  /\ pc' = [pc EXCEPT ![t] = IF isExiting THEN "leaving" ELSE "function"]
  /\ UNCHANGED <<main, subject, active_flag, exception, detached, currnumThreads,
                 flags, destructor_error, caught>>

FunctionReturns(t) ==
  /\ pc[t] = "function" /\ ~isEnableRunning
  /\ pc' = [pc EXCEPT ![t] = "leaving"]
  /\ UNCHANGED <<main, subject, active_flag, exception, detached, currnumThreads,
                 flags, destructor_error, caught>>

FunctionThrows(t) ==
  /\ pc[t] = "function" /\ pc' = [pc EXCEPT ![t] = "leaving"]
  /\ exception' = exception \cup {t}
  /\ UNCHANGED <<main, subject, active_flag, detached, currnumThreads, flags,
                 destructor_error, caught>>

\* SetThreadeState(false), on both ways out.
Leaves(t) ==
  /\ pc[t] = "leaving" /\ pc' = [pc EXCEPT ![t] = "inactive"]
  /\ active_flag' = [active_flag EXCEPT ![t] = FALSE]
  /\ UNCHANGED <<main, subject, exception, detached, currnumThreads, flags,
                 destructor_error, caught>>

\* Mutant: the way out through the exception handler does not count.
UncountReturned(t) ==
  /\ pc[t] = "inactive" /\ pc' = [pc EXCEPT ![t] = "gone"]
  /\ currnumThreads' = IF t \in exception THEN currnumThreads ELSE currnumThreads - 1
  /\ UNCHANGED <<main, subject, active_flag, exception, detached, flags,
                 destructor_error, caught>>

Uncount(t) ==
  /\ pc[t] = "inactive" /\ pc' = [pc EXCEPT ![t] = "gone"]
  /\ currnumThreads' = currnumThreads - 1
  /\ UNCHANGED <<main, subject, active_flag, exception, detached, flags,
                 destructor_error, caught>>

-----------------------------------------------------------------------------
Construction == \E t \in Thread : Construct(t) \/ Launch(t)
Destruction == (\E t \in Thread : Destroy(t) \/ JoinThread(t)) \/ Destroyed
ThreadStep(t) == Enter(t) \/ Wake(t) \/ Enters(t) \/ FunctionReturns(t)
                 \/ Leaves(t) \/ Uncount(t)

GroupNext ==
  \/ Construction \/ StartLoop \/ Destruction
  \/ \E t \in Thread : ThreadStep(t) \/ FunctionThrows(t) \/ GiveUp(t)

GroupSpec == GroupInit /\ [][GroupNext]_groupvars

\* Threads run, and the main thread finishes what it began.
GroupFairness ==
  /\ \A t \in Thread : WF_groupvars(ThreadStep(t))
  /\ WF_groupvars(main = "constructing" /\ Construction)
  /\ WF_groupvars(StartLoop)
  /\ WF_groupvars(main = "destroying" /\ Destruction)

FairGroupSpec == GroupSpec /\ GroupFairness

-----------------------------------------------------------------------------
(* Properties.                                                              *)
Counted == {t \in Thread : pc[t] \in {"waiting", "released", "function", "leaving",
                                      "inactive"}}

GroupTypeOK ==
  /\ main \in {"idle", "constructing", "started", "destroying", "failed"}
  /\ subject = {} \/ \E t \in Thread : subject = {t}
  /\ pc \in [Thread -> {"none", "launched", "waiting", "released", "function",
                        "leaving", "inactive", "gone"}]
  /\ active_flag \in [Thread -> BOOLEAN]
  /\ exception \subseteq Thread /\ detached \subseteq Thread
  /\ currnumThreads \in 0 .. Numbers
  /\ isEnableRunning \in BOOLEAN /\ isExiting \in BOOLEAN
  /\ destructor_error \in BOOLEAN /\ caught \in BOOLEAN

\* The shared count is the number of threads between their entry and their
\* end, on every way out of the thread's function: otherwise the next group
\* would start too early or never.
CountIsExact == currnumThreads = Cardinality(Counted)

\* The count that StartLoop waits for is exact; and once StartLoop has let the
\* group go, every thread of it is there: none has been left behind.  (Unless
\* a thread saw the pulse of m_isExiting meant for another: it leaves, and may
\* still be counted when StartLoop looks.)
GroupIsComplete ==
  /\ CountIsExact
  /\ main = "started" /\ ~caught =>
       \A t \in Thread \ exception : pc[t] \in {"waiting", "released", "function"}

\* The destructors come to their end, whatever the threads have been doing
\* when they were told to stop.
DestroyEnds == main = "destroying" ~> main \in {"idle", "failed"}

\* StartLoop returns unless a thread was caught by the pulse of a later
\* constructor.
StartsUnlessCaught == [](~caught) => (main = "constructing" ~> main = "started")

=============================================================================
