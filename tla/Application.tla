------------------------------ MODULE Application ------------------------------
(***************************************************************************)
(* The program from main to its exit (main.cpp, control.cpp): the log, the *)
(* controller with its client or its server, the command loop, and the     *)
(* destruction of it all while threads still run.                          *)
(*                                                                         *)
(* The client and the image processor of the server each own one thread    *)
(* that is started individually (mng_thread.h, isGrouped = false): the     *)
(* worker.  The server has its group besides, whose own start and whose    *)
(* sockets are the subjects of ThreadGroup and Server; a command of the    *)
(* client is the subject of Client.  Here is what these objects rely on in *)
(* one another: who is still there, and who is told of whose failure.      *)
(***************************************************************************)
EXTENDS Naturals

CONSTANTS Thread,                \* the threads of the server's group
          Worker,                \* the client's or the processor's thread
          m_max_reconnattempts

ASSUME ApplicationAssumption ==
  Worker \notin Thread /\ m_max_reconnattempts \in Nat \ {0}

VARIABLES
  main,                \* where the main thread is
  m_clientmode,
  failed,              \* an exception is on its way to main()
  destroying,          \* the destructor of the controller runs
  log,                 \* ILogger: "none", "on", "off"
  isRunning,           \* control.cpp: the command loop goes on
  at,                  \* where each thread is
  detached,            \* the threads a destructor has given up
  m_isEnableRunning,   \* of the worker
  m_wdticket,          \* of the worker: "unset", "registered", "released"
  m_isstarted,         \* the worker's function has begun
  members,             \* the members the worker's function uses exist
  polling,             \* the client's thread works on them
  start, working,      \* m_do_start_all_operations, m_isworking of the client
  nattempts,           \* attempts left to the command
  mstate               \* m_state of the server ("none": there is no server)

object == <<m_isEnableRunning, m_wdticket, m_isstarted, members>>
client == <<polling, start, working, nattempts>>
program == <<m_clientmode, failed, destroying, log>>
vars == <<main, program, isRunning, at, detached, object, client, mstate>>

Init ==
  /\ main = "start_log" /\ m_clientmode \in BOOLEAN
  /\ failed = FALSE /\ destroying = FALSE /\ log = "none" /\ isRunning = TRUE
  /\ at = [t \in Thread \cup {Worker} |-> "none"] /\ detached = {}
  /\ m_isEnableRunning = FALSE /\ m_wdticket = "unset" /\ m_isstarted = FALSE
  /\ members = FALSE /\ polling = FALSE /\ start = FALSE /\ working = FALSE
  /\ nattempts = 0 /\ mstate = "none"

\* The thread has ended, "failed" with an exception.
Ended == {"none", "gone", "failed"}
\* m_active_flag.
Active(t) == at[t] \in {"waiting", "begun", "function"}
Serving == [t \in DOMAIN at |-> IF t \in Thread THEN "function" ELSE at[t]]
Goto(p, q) == main = p /\ main' = q

-----------------------------------------------------------------------------
(* main() and the constructor of the controller.                            *)
StartLog ==
  /\ Goto("start_log", "controller") /\ log' = "on"
  /\ UNCHANGED <<m_clientmode, failed, destroying, isRunning, at, detached, object, client, mstate>>

\* A wrong option or a missing picture: no controller, no destructor.
ConstructionThrows ==
  /\ Goto("controller", "exit") /\ failed' = TRUE
  /\ UNCHANGED <<m_clientmode, destroying, log, isRunning, at, detached, object, client, mstate>>

\* --help: the controller has neither a client nor a server, exec returns.
Help ==
  /\ Goto("controller", "sleep")
  /\ UNCHANGED <<program, isRunning, at, detached, object, client, mstate>>

\* TClient::TClient and servimgProcessor_t: their members, then the thread.
Construct ==
  /\ Goto("controller", "register") /\ members' = TRUE
  /\ at' = [at EXCEPT ![Worker] = "waiting"]
  /\ UNCHANGED <<program, isRunning, detached, m_isEnableRunning, m_wdticket,
                 m_isstarted, client, mstate>>

Register ==
  /\ Goto("register", "StartLoop") /\ m_wdticket' = "registered"
  /\ UNCHANGED <<program, isRunning, at, detached, m_isEnableRunning, m_isstarted,
                 members, client, mstate>>

\* An asynchronous start: m_numThreads is 0, nothing is waited for.
StartLoop ==
  /\ Goto("StartLoop", "isStarted") /\ m_isEnableRunning' = TRUE
  /\ UNCHANGED <<program, isRunning, at, detached, m_wdticket, m_isstarted, members,
                 client, mstate>>

\* Then CreateServer, in the one case, which leaves the server shut down.
Started ==
  /\ Goto("isStarted", "exec") /\ m_isstarted
  /\ mstate' = IF m_clientmode THEN "none" ELSE "shutdowned"
  /\ UNCHANGED <<program, isRunning, at, detached, object, client>>

\* The processor waits three seconds, the client for ever.  An exception in
\* the constructor destroys the thread and the members, and no more.
NotStarted ==
  /\ Goto("isStarted", "thread") /\ ~m_isstarted /\ ~m_clientmode
  /\ failed' = TRUE
  /\ UNCHANGED <<m_clientmode, destroying, log, isRunning, at, detached, object, client, mstate>>

-----------------------------------------------------------------------------
(* exec().                                                                  *)
\* The loop reads a key: only then does it see isRunning again.
Prompt ==
  /\ Goto("exec", IF isRunning THEN "peek" ELSE "destroy")
  /\ UNCHANGED <<program, isRunning, at, detached, object, client, mstate>>

Quit ==
  /\ Goto("peek", "exec") /\ isRunning' = FALSE
  /\ UNCHANGED <<program, at, detached, object, client, mstate>>

\* The end of input, an unknown key, help, info, a command for the other mode.
OtherKey ==
  /\ Goto("peek", "exec")
  /\ UNCHANGED <<program, isRunning, at, detached, object, client, mstate>>

\* TServer::Start starts the group and the state becomes run ...
StartServer ==
  /\ Goto("peek", "exec") /\ mstate = "shutdowned" /\ mstate' = "run"
  /\ at' = Serving
  /\ UNCHANGED <<program, isRunning, detached, object, client>>

\* ... or does not, and Start calls Stop ...
StartGivesUp ==
  /\ Goto("peek", "Stop") /\ mstate = "shutdowned" /\ mstate' = "running"
  /\ at' = Serving
  /\ UNCHANGED <<program, isRunning, detached, object, client>>

\* ... or a thread cannot be created: the exception ends exec and main.
StartThrows ==
  /\ Goto("peek", "destroy") /\ mstate = "shutdowned" /\ failed' = TRUE
  /\ UNCHANGED <<m_clientmode, destroying, log, isRunning, at, detached, object, client, mstate>>

StopServer ==
  /\ Goto("peek", "Stop") /\ mstate # "none"
  /\ UNCHANGED <<program, isRunning, at, detached, object, client, mstate>>

\* client_connection_action: attempts, until one connects.
ConnectCommand ==
  /\ Goto("peek", "ConnectAsync") /\ m_clientmode
  /\ nattempts' = m_max_reconnattempts
  /\ UNCHANGED <<program, isRunning, at, detached, object, polling, start, working, mstate>>

Conclude(again) ==
  /\ nattempts' = nattempts - 1
  /\ main' = IF again /\ nattempts' # 0 THEN "ConnectAsync" ELSE "exec"

ConnectRefused ==
  /\ main = "ConnectAsync" /\ Conclude(TRUE)
  /\ UNCHANGED <<program, isRunning, at, detached, object, polling, start, working, mstate>>

ConnectAsync ==
  /\ Goto("ConnectAsync", "m_isworking") /\ start' = TRUE
  /\ UNCHANGED <<program, isRunning, at, detached, object, polling, working, nattempts, mstate>>

SetWorking ==
  /\ Goto("m_isworking", "isWorking") /\ working' = TRUE
  /\ UNCHANGED <<program, isRunning, at, detached, object, polling, start, nattempts, mstate>>

\* Mutant: the command is not waited for.
WaitedNot ==
  /\ main = "isWorking" /\ \E again \in BOOLEAN : Conclude(again)
  /\ UNCHANGED <<program, isRunning, at, detached, object, polling, start, working, mstate>>

Waited ==
  /\ main = "isWorking" /\ ~working /\ \E again \in BOOLEAN : Conclude(again)
  /\ UNCHANGED <<program, isRunning, at, detached, object, polling, start, working, mstate>>

-----------------------------------------------------------------------------
(* Stop, called by the command or by ~TServer, and the destruction.         *)

\* The command returns to the loop; ~TServer goes on to the processor.
Return == main' = IF destroying THEN "thread" ELSE "exec"

\* Invalid?  And if not: run or running?  The state is read again in between.
StopInvalid ==
  /\ Goto("Stop", "join") /\ mstate = "invalid"
  /\ UNCHANGED <<program, isRunning, at, detached, object, client, mstate>>

StopValid ==
  /\ Goto("Stop", "run?") /\ mstate # "invalid"
  /\ UNCHANGED <<program, isRunning, at, detached, object, client, mstate>>

\* Also when the server has become invalid since: its threads are left alone.
StopNothing ==
  /\ main = "run?" /\ mstate \notin {"run", "running"} /\ Return
  /\ UNCHANGED <<program, isRunning, at, detached, object, client, mstate>>

StopRunning ==
  /\ Goto("run?", "store") /\ mstate \in {"run", "running"}
  /\ UNCHANGED <<program, isRunning, at, detached, object, client, mstate>>

StoreShutdowned ==
  /\ Goto("store", "join") /\ mstate' = "shutdowned"
  /\ UNCHANGED <<program, isRunning, at, detached, object, client>>

\* Mutant: the destructors report exceptions, not the threads they gave up.
JoinGroupCareless ==
  /\ main = "join" /\ \A t \in Thread \ detached : at[t] \in Ended
  /\ mstate' = IF \E t \in Thread : at[t] = "failed" THEN "invalid" ELSE mstate
  /\ at' = [t \in DOMAIN at |-> IF t \in Thread \ detached THEN "none" ELSE at[t]]
  /\ Return
  /\ UNCHANGED <<program, isRunning, detached, object, client>>

\* All threads of the group are destroyed.  An error of a destructor - an
\* exception, a thread given up, or one that ended only in the second of the
\* two waits - makes the server invalid.
JoinGroup ==
  /\ main = "join" /\ \A t \in Thread \ detached : at[t] \in Ended
  /\ \/ mstate' = "invalid" /\ \E t \in Thread : at[t] # "none"
     \/ /\ detached \cap Thread = {} /\ \A t \in Thread : at[t] # "failed"
        /\ UNCHANGED mstate
  /\ at' = [t \in DOMAIN at |-> IF t \in Thread \ detached THEN "none" ELSE at[t]]
  /\ Return
  /\ UNCHANGED <<program, isRunning, detached, object, client>>

\* Still active after all waits, in the destructor of a thread.
GiveUp(t) ==
  /\ IF t = Worker THEN main = "wait" ELSE main \in {"join", "pool"}
  /\ Active(t) /\ t \notin detached /\ detached' = detached \cup {t}
  /\ main' = IF t = Worker THEN "rest" ELSE main
  /\ UNCHANGED <<program, isRunning, at, object, client, mstate>>

\* Mutant: the processor is destroyed before the server is stopped.
DestroyServerLast ==
  /\ Goto("destroy", "thread") /\ mstate # "none" /\ destroying' = TRUE
  /\ UNCHANGED <<m_clientmode, failed, log, isRunning, at, detached, object, client, mstate>>

\* ~controller_t: the server first, and with it its processor; or the client.
DestroyServer ==
  /\ Goto("destroy", "Stop") /\ mstate # "none" /\ destroying' = TRUE
  /\ UNCHANGED <<m_clientmode, failed, log, isRunning, at, detached, object, client, mstate>>

\* ~TClient only calls StopLoop.
DestroyClient ==
  /\ Goto("destroy", "members") /\ m_clientmode /\ destroying' = TRUE
  /\ m_isEnableRunning' = FALSE
  /\ UNCHANGED <<m_clientmode, failed, log, isRunning, at, detached, m_wdticket,
                 m_isstarted, members, client, mstate>>

\* The members of a client are destroyed in front of its thread: those
\* declared behind m_pthread go before it.
DestroyMembers ==
  /\ Goto("members", "thread") /\ members' = FALSE
  /\ UNCHANGED <<program, isRunning, at, detached, m_isEnableRunning, m_wdticket,
                 m_isstarted, client, mstate>>

\* The destructor of the worker's thread: unregister, StopLoop.
DestroyThread ==
  /\ Goto("thread", "wait")
  /\ m_wdticket' = "released" /\ m_isEnableRunning' = FALSE
  /\ UNCHANGED <<program, isRunning, at, detached, m_isstarted, members, client, mstate>>

\* Mutant: the thread is left alone, without an error.
JoinWorkerNot ==
  /\ Goto("wait", "rest")
  /\ UNCHANGED <<program, isRunning, at, detached, object, client, mstate>>

JoinWorker ==
  /\ Goto("wait", "rest") /\ at[Worker] \in Ended
  /\ UNCHANGED <<program, isRunning, at, detached, object, client, mstate>>

\* The rest of the object.  An exception goes on to main(), which returns
\* without stop_log.
End == IF failed THEN "exit" ELSE "sleep"

DestroyRest ==
  /\ Goto("rest", IF mstate = "none" THEN End ELSE "pool") /\ members' = FALSE
  /\ UNCHANGED <<program, isRunning, at, detached, m_isEnableRunning, m_wdticket,
                 m_isstarted, client, mstate>>

\* The members of the server come after its processor: among them the threads
\* that Stop has left.
DestroyPool ==
  /\ Goto("pool", End) /\ \A t \in Thread \ detached : at[t] \in Ended
  /\ mstate' = "none"
  /\ UNCHANGED <<program, isRunning, at, detached, object, client>>

StopLog ==
  /\ Goto("sleep", "exit") /\ log' = "off"
  /\ UNCHANGED <<m_clientmode, failed, destroying, isRunning, at, detached, object,
                 client, mstate>>

-----------------------------------------------------------------------------
(* The worker: threadFunction, and the function of its owner.               *)
Move(t, p, q) == main # "exit" /\ at[t] = p /\ at' = [at EXCEPT ![t] = q]

\* It spins until it may run, or has to end.
Begin ==
  /\ m_isEnableRunning /\ Move(Worker, "waiting", "begun")
  /\ UNCHANGED <<main, program, isRunning, detached, object, client, mstate>>

Skip ==
  /\ m_wdticket = "released" /\ Move(Worker, "waiting", "gone")
  /\ UNCHANGED <<main, program, isRunning, detached, object, client, mstate>>

Announce ==
  /\ Move(Worker, "begun", "function") /\ m_isstarted' = TRUE
  /\ UNCHANGED <<main, program, isRunning, detached, m_isEnableRunning, m_wdticket,
                 members, client, mstate>>

\* The client's thread takes an order, and has done with it.
Poll ==
  /\ main # "exit" /\ at[Worker] = "function" /\ start
  /\ start' = FALSE /\ polling' = TRUE
  /\ UNCHANGED <<main, program, isRunning, at, detached, object, working, nattempts, mstate>>

StopPolling ==
  /\ main # "exit" /\ at[Worker] = "function" /\ polling
  /\ polling' = FALSE /\ working' = FALSE /\ m_isstarted' = FALSE
  /\ UNCHANGED <<main, program, isRunning, at, detached, m_isEnableRunning, m_wdticket,
                 members, start, nattempts, mstate>>

FunctionReturns ==
  /\ ~m_isEnableRunning /\ Move(Worker, "function", "gone")
  /\ m_isstarted' = FALSE /\ polling' = FALSE
  /\ UNCHANGED <<main, program, isRunning, detached, m_isEnableRunning, m_wdticket,
                 members, start, working, nattempts, mstate>>

\* Nobody is told: the thread was made with no signal (m_sig is -1).
FunctionThrows ==
  /\ Move(Worker, "function", "failed") /\ polling' = FALSE
  /\ UNCHANGED <<main, program, isRunning, detached, object, start, working,
                 nattempts, mstate>>

-----------------------------------------------------------------------------
(* The threads of the group: process_iooperations, and a signal.            *)
GroupReturns(t) ==
  /\ main \in {"join", "pool"} \/ t \in detached \* m_isEnableRunning of the group
  /\ Move(t, "function", "gone")
  /\ UNCHANGED <<main, program, isRunning, detached, object, client, mstate>>

GroupThrows(t) ==
  /\ t \notin detached /\ Move(t, "function", "threw") /\ mstate' = "invalid"
  /\ UNCHANGED <<main, program, isRunning, detached, object, client>>

\* Mutant: no signal.
RaiseNothing(t) ==
  /\ Move(t, "threw", "failed")
  /\ UNCHANGED <<main, program, isRunning, detached, object, client, mstate>>

\* std::raise(m_sig) runs signal_handler.
Raise(t) ==
  /\ Move(t, "threw", "failed") /\ isRunning' = FALSE
  /\ UNCHANGED <<main, program, detached, object, client, mstate>>

-----------------------------------------------------------------------------
Main ==
  \/ StartLog \/ ConstructionThrows \/ Help \/ Construct \/ Register \/ StartLoop
  \/ Started \/ NotStarted
  \/ Prompt \/ Quit \/ OtherKey \/ StartServer \/ StartGivesUp \/ StartThrows
  \/ StopServer \/ ConnectCommand \/ ConnectRefused \/ ConnectAsync \/ SetWorking
  \/ Waited
  \/ StopInvalid \/ StopValid \/ StopNothing \/ StopRunning \/ StoreShutdowned \/ JoinGroup
  \/ \E t \in Thread \cup {Worker} : GiveUp(t)
  \/ DestroyServer \/ DestroyClient \/ DestroyMembers \/ DestroyThread \/ JoinWorker
  \/ DestroyRest \/ DestroyPool \/ StopLog

WorkerStep == Begin \/ Skip \/ Announce \/ Poll

Next ==
  \/ Main
  \/ WorkerStep \/ StopPolling \/ FunctionReturns \/ FunctionThrows
  \/ \E t \in Thread : GroupReturns(t) \/ GroupThrows(t) \/ Raise(t)

Spec == Init /\ [][Next]_vars

\* The main thread runs, and the user goes on to press keys (or ends the
\* input); a thread that has left its function comes to its end.  A function
\* may hang: nothing is asked of it.
FairSpec ==
  Spec /\ WF_vars(Main) /\ WF_vars(WorkerStep) /\ \A t \in Thread : WF_vars(Raise(t))

-----------------------------------------------------------------------------
(* Properties.                                                              *)
TypeOK ==
  /\ main \in {"start_log", "controller", "register", "StartLoop", "isStarted", "exec",
               "peek", "ConnectAsync", "m_isworking", "isWorking", "destroy", "Stop",
               "run?", "store", "join", "pool", "members", "thread", "wait", "rest", "sleep",
               "exit"}
  /\ m_clientmode \in BOOLEAN /\ failed \in BOOLEAN /\ destroying \in BOOLEAN
  /\ isRunning \in BOOLEAN /\ m_isEnableRunning \in BOOLEAN /\ m_isstarted \in BOOLEAN
  /\ members \in BOOLEAN /\ polling \in BOOLEAN /\ start \in BOOLEAN /\ working \in BOOLEAN
  /\ log \in {"none", "on", "off"}
  /\ at \in [Thread \cup {Worker} ->
              {"none", "waiting", "begun", "function", "threw", "failed", "gone"}]
  /\ detached \subseteq Thread \cup {Worker}
  /\ m_wdticket \in {"unset", "registered", "released"}
  /\ nattempts \in 0 .. m_max_reconnattempts
  /\ mstate \in {"none", "shutdowned", "running", "run", "invalid"}

\* The function of the worker begins, and goes on, only while what it uses is
\* there: the ticket it feeds the watchdog with, the log, the members of its
\* object.  The client destroys them in front of its thread: that is safe
\* because a command does not return while the thread works on them.
RunsWithinItsObject ==
  at[Worker] \in {"begun", "function"} /\ Worker \notin detached =>
    /\ m_wdticket # "unset" /\ log = "on"
    /\ IF m_clientmode THEN polling => members ELSE members

\* The sessions that the threads of the group serve use the processor, which
\* is destroyed in front of the group: that is safe because ~TServer has
\* stopped the group before - unless the server became invalid between the
\* two looks that Stop takes at its state.
ProcessorOutlivesGroup ==
  \A t \in Thread \ detached :
    at[t] = "function" => members \/ (mstate = "invalid" /\ main = "pool")

\* stop_log deletes the log without a look at who may still write to it.  No
\* thread may: every one has ended, except those the destructors gave up.
LogOutlivesThreads ==
  log = "off" => \A t \in Thread \cup {Worker} : t \in detached \/ at[t] \in Ended

\* A server that has lost a thread, through an exception or because its
\* destructor gave it up, never serves again: the thread may still use the
\* sockets, and Stop may overwrite the state that the exception left behind.
LostThreadIsFinal ==
  []((\E t \in Thread : at[t] = "threw" \/ t \in detached) => [](mstate # "run"))

\* An exception in a thread of the group ends the program, wherever the main
\* thread is when the signal is raised.
FailureEndsProgram == (\E t \in Thread : at[t] = "threw") ~> main = "exit"

-----------------------------------------------------------------------------
\* The client in here, which knows neither connections nor addresses, hands
\* its attempts over in the way of Handover, and so in that of Client.
Phase ==
  CASE main = "ConnectAsync" -> "attempt"
    [] main = "m_isworking" -> "ordered"
    [] main = "isWorking" -> "waiting"
    [] OTHER -> "idle"
HandoverOf == INSTANCE Handover WITH
  phase <- Phase, attempts <- nattempts,
  lost <- at[Worker] \in {"gone", "failed"}
ImplementsHandover == HandoverOf!Spec
=============================================================================
