-------------------------------- MODULE Server --------------------------------
(***************************************************************************)
(* TServer (server.cpp, server.h): its state machine, the threads that     *)
(* poll the one io_service, the pools of active sockets (one per thread),  *)
(* the chains of accept operations, and Start and Stop called by the main  *)
(* thread, again and again.                                                *)
(*                                                                         *)
(* A thread looks at the state between two polls of the io_service; in a   *)
(* poll it runs handlers, whatever the state has become.  Every thread     *)
(* runs handlers of every socket; the code of a socket names the thread    *)
(* whose pool it is in.  OnConnected is split where another thread can     *)
(* come in between: the test of the code, m_connmtx, the size of the pool, *)
(* and the accept.  A session (ServerSession) is here a socket that is     *)
(* served until one of its handlers closes it.  The garbage pools keep     *)
(* closed sockets alive and have no other effect: they are left out.       *)
(***************************************************************************)
EXTENDS Threads

CONSTANTS Main,    \* the thread that calls Start and Stop
          Socket,  \* identities of serversocket_t objects, reused when free
          Limit    \* m_connection_limit, compared with each thread's pool

ASSUME MainAssumption == Main \notin Thread
ASSUME LimitAssumption == Limit \in Nat \ {0}

NoThCode == "noThCode"
NoSocket == "none"
Free == "free"
Executor == Thread \cup {Main}

ASSUME NamesAssumption == NoThCode \notin Executor /\ Free \notin Executor
                          /\ NoSocket \notin Socket

VARIABLES
  mstate,     \* m_state: shutdowned, running, run or invalid
  counter,    \* serverstate_t::counter, the threads that arrived
  running,    \* m_isEnableRunning of the thread group
  at,         \* where each executor is, with the client and outcome (or code)
              \* that its handler works on
  code,       \* m_thcode of each socket
  accepting,  \* the accept operation (or the delay of do_reaccept) of a socket
  served,     \* the sockets on which a session runs
  active,     \* m_socketset_active
  connmtx,    \* m_connmtx: its holder
  refused,    \* history: threads whose accept failed, or was lost, since Start
  late        \* history: a socket entered the pool of a thread that had left

sockets == <<code, accepting, served, active>>
history == <<refused, late>>
vars == <<mstate, counter, running, at, sockets, connmtx, history>>

Place(p) == [in |-> p, s |-> NoSocket, arg |-> "ok"]
Goto(e, p) == at' = [at EXCEPT ![e] = Place(p)]
Handling(e, p, s, arg) == at' = [at EXCEPT ![e] = [in |-> p, s |-> s, arg |-> arg]]

\* A thread's function has returned, or an exception has left it.
Ended == {"ended", "threw"}

\* In the middle of OnConnected.
HandlerPlaces == {"connected", "admit", "accept", "register"}

\* Nothing refers to the object: no pool, operation, session or handler.
FreeSockets ==
  {s \in Socket : /\ \A t \in Thread : s \notin active[t]
                  /\ accepting[s] = "no" /\ s \notin served
                  /\ \A e \in Executor : at[e].s # s}

-----------------------------------------------------------------------------
\* Where an executor runs handlers: in m_ioservice.poll, or Stop's run.
Idle(e) == IF e = Main THEN "drain" ELSE "poll"
Dispatches(e) == at[e].in = Idle(e)

-----------------------------------------------------------------------------
(* What the methods do to the sockets.                                     *)

(* insertSocket, removeSocket and getSockListSize index the vectors of the *)
(* pools with a code.  With noThCode, -1, they are out of bounds: of what  *)
(* may come of that (the assertion fails, the lock found there never comes *)
(* free) the model takes that no pool is changed and any size is found.    *)

\* do_accept(c): a new socket is registered in the pool of the code c and waits
\* for a connection.  The number of sockets bounds the model.
do_accept(c) ==
  /\ FreeSockets # {}
  /\ LET s == CHOOSE x \in FreeSockets : TRUE IN
       /\ code' = [code EXCEPT ![s] = c]
       /\ accepting' = [accepting EXCEPT ![s] = "pending"]
       /\ active' = [t \in Thread |-> IF t = c THEN active[t] \cup {s} ELSE active[t]]
  /\ late' = (late \/ \E t \in Thread : t = c /\ at[t].in \in Ended)

\* Close: removeSocket takes the socket out of the pool its code names.  The
\* closed object is forgotten, and with it its code.
Close(s) ==
  /\ active' = [t \in Thread |-> IF t = code[s] THEN active[t] \ {s} ELSE active[t]]
  /\ code' = [code EXCEPT ![s] = NoThCode]

-----------------------------------------------------------------------------
Init ==
  /\ mstate = "shutdowned" /\ counter = 0 /\ running = FALSE
  /\ at = [e \in Executor |-> Place(IF e = Main THEN "stopped" ELSE "ended")]
  /\ code = [s \in Socket |-> NoThCode]
  /\ accepting = [s \in Socket |-> "no"] /\ served = {}
  /\ active = [t \in Thread |-> {}]
  /\ connmtx = Free
  /\ refused = {} /\ late = FALSE

-----------------------------------------------------------------------------
(* The main thread: Start.                                                 *)

\* The endpoint is bound and the threads of the group are started.  A bound
\* of the model: not again once a socket may have been left behind.
Start ==
  /\ at[Main].in = "stopped" /\ mstate = "shutdowned" /\ ~late
  /\ running' = TRUE
  /\ at' = [e \in Executor |-> Place(IF e = Main THEN "announce" ELSE "starting")]
  /\ refused' = {}
  /\ UNCHANGED <<mstate, counter, sockets, connmtx, late>>

\* m_state << running stores the state and then resets the counter.
Announce ==
  /\ at[Main].in = "announce" /\ Goto(Main, "reset")
  /\ mstate' = "running"
  /\ UNCHANGED <<counter, running, sockets, connmtx, history>>

ResetCounter ==
  /\ at[Main].in = "reset" /\ Goto(Main, "await")
  /\ counter' = 0
  /\ UNCHANGED <<mstate, running, sockets, connmtx, history>>

\* Start looks at the state for three seconds, which is taken to be enough
\* for every thread to arrive; one that has not seen the state running before
\* another's exception made it invalid never does.
Arrived(t) == \/ at[t].in \notin {"starting", "count", "check", "switch"}
              \/ at[t].in = "starting" /\ mstate # "running"

Await ==
  /\ at[Main].in = "await"
  /\ \/ mstate = "run" /\ Goto(Main, "started")
     \/ /\ mstate # "run" /\ \A t \in Thread : Arrived(t)
        /\ Goto(Main, "failed")
  /\ UNCHANGED <<mstate, counter, running, sockets, connmtx, history>>

-----------------------------------------------------------------------------
(* The main thread: Stop, called by the user or by a failed Start.         *)

Stop ==
  /\ at[Main].in \in {"started", "failed", "stopped"}
  /\ mstate \in {"run", "running"}
  /\ mstate' = "shutdowned" /\ Goto(Main, "forget")
  /\ UNCHANGED <<counter, running, sockets, connmtx, history>>

\* m_state << shutdowned resets the counter after the store.
StopCounter ==
  /\ at[Main].in = "forget" /\ Goto(Main, "clear")
  /\ counter' = 0
  /\ UNCHANGED <<mstate, running, sockets, connmtx, history>>

StopInvalid ==
  /\ at[Main].in \in {"started", "failed"} /\ mstate = "invalid"
  /\ Goto(Main, "abandon")
  /\ UNCHANGED <<mstate, counter, running, sockets, connmtx, history>>

\* m_pmngthreadpool.clear: the first destructor stops the loops of all.
StopLoop ==
  /\ at[Main].in \in {"clear", "abandon"}
  /\ running' = FALSE
  /\ Goto(Main, IF at[Main].in = "clear" THEN "join" ELSE "invalid")
  /\ UNCHANGED <<mstate, counter, sockets, connmtx, history>>

\* The destructor of a thread that does not end in time gives up.  (The
\* counter that m_state << invalid resets has been zero since Stop's.)
JoinGivesUp ==
  /\ at[Main].in = "join" /\ \E t \in Thread : at[t].in \notin Ended
  /\ mstate' = "invalid" /\ counter' = 0
  /\ Goto(Main, "invalid")
  /\ UNCHANGED <<running, sockets, connmtx, history>>

\* Mutant: the pending accepts are not cancelled.
JoinAccepting ==
  /\ at[Main].in = "join" /\ \A t \in Thread : at[t].in \in Ended
  /\ IF \E t \in Thread : at[t].in = "threw"
     THEN mstate' = "invalid" /\ counter' = 0 /\ Goto(Main, "invalid")
     ELSE Goto(Main, "drain") /\ UNCHANGED <<mstate, counter>>
  /\ UNCHANGED <<running, sockets, connmtx, history>>

\* An exception of a thread is an error of its destructor.  Otherwise
\* m_acceptor.cancel, and m_ioservice.run runs the handlers that are left.
Join ==
  /\ at[Main].in = "join" /\ \A t \in Thread : at[t].in \in Ended
  /\ IF \E t \in Thread : at[t].in = "threw"
     THEN /\ mstate' = "invalid" /\ counter' = 0 /\ Goto(Main, "invalid")
          /\ UNCHANGED accepting
     ELSE /\ Goto(Main, "drain")
          /\ accepting' = [s \in Socket |-> IF accepting[s] = "pending"
                                            THEN "aborted" ELSE accepting[s]]
          /\ UNCHANGED <<mstate, counter>>
  /\ UNCHANGED <<running, code, served, active, connmtx, history>>

\* Mutant: m_ioservice.stop without m_ioservice.run.
DrainedEarly ==
  /\ at[Main].in = "drain" /\ Goto(Main, "stopped")
  /\ UNCHANGED <<mstate, counter, running, sockets, connmtx, history>>

Drained ==
  /\ at[Main].in = "drain" /\ Goto(Main, "stopped")
  /\ \A s \in Socket : accepting[s] = "no" /\ s \notin served
  /\ UNCHANGED <<mstate, counter, running, sockets, connmtx, history>>

-----------------------------------------------------------------------------
(* A thread: process_iooperations.                                         *)

\* The first loop: the thread waits for the state running.
AcceptFirst(t) ==
  /\ at[t].in = "starting"
  /\ IF ~running
     THEN Goto(t, "loop") /\ UNCHANGED <<code, accepting, active, late>>
     ELSE mstate = "running" /\ do_accept(t) /\ Goto(t, "count")
  /\ UNCHANGED <<mstate, counter, running, served, connmtx, refused>>

\* m_state++: count, test, switch.
Count(t) ==
  /\ at[t].in = "count" /\ Goto(t, "check")
  /\ counter' = counter + 1
  /\ UNCHANGED <<mstate, running, sockets, connmtx, history>>

Check(t) ==
  /\ at[t].in = "check"
  /\ Goto(t, IF counter = Cardinality(Thread) /\ mstate = "running"
             THEN "switch" ELSE "loop")
  /\ UNCHANGED <<mstate, counter, running, sockets, connmtx, history>>

Switch(t) ==
  /\ at[t].in = "switch" /\ Goto(t, "loop")
  /\ mstate' = "run"
  /\ UNCHANGED <<counter, running, sockets, connmtx, history>>

\* The second loop: the state is looked at, then m_ioservice.poll runs handlers.
Poll(t) ==
  /\ at[t].in = "loop" /\ mstate = "run" /\ Goto(t, "poll")
  /\ UNCHANGED <<mstate, counter, running, sockets, connmtx, history>>

PollReturns(t) ==
  /\ at[t].in = "poll" /\ running /\ Goto(t, "loop")
  /\ UNCHANGED <<mstate, counter, running, sockets, connmtx, history>>

\* isRunning is false after a poll, or instead of one.
Stopping(t) ==
  ~running /\ (at[t].in = "poll" \/ (at[t].in = "loop" /\ mstate # "run"))

\* Mutant: the pool is emptied, its sockets are not cancelled.
LeaveForgetting(t) ==
  /\ Stopping(t) /\ Goto(t, "ended")
  /\ active' = [active EXCEPT ![t] = {}]
  /\ UNCHANGED <<mstate, counter, running, code, accepting, served, connmtx,
                 history>>

\* The second loop ends: the sockets of the thread's pool are cancelled and
\* get the code noThCode.  The cancelled delay of a do_reaccept completes
\* with operation_aborted; an accept is not the socket's to cancel.
Leave(t) ==
  /\ Stopping(t) /\ Goto(t, "ended")
  /\ code' = [s \in Socket |-> IF s \in active[t] THEN NoThCode ELSE code[s]]
  /\ accepting' = [s \in Socket |->
                     IF s \in active[t] /\ accepting[s] = "delayed"
                     THEN "aborted" ELSE accepting[s]]
  /\ active' = [active EXCEPT ![t] = {}]
  /\ UNCHANGED <<mstate, counter, running, served, connmtx, history>>

\* An exception in the first do_accept (nothing is registered yet) or in any
\* handler.  The pools stay as they are, OnConnected lets m_connmtx go, and the
\* connection it worked on, the chain of its thread, is lost.  One that comes to
\* main in m_ioservice.run leaves Stop.
Throws(e) ==
  /\ \/ at[e].in \in {Idle(e)} \cup HandlerPlaces
     \/ at[e].in = "starting" /\ mstate = "running" /\ running
  /\ Goto(e, IF e = Main THEN "threw" ELSE "throwing")
  /\ connmtx' = IF connmtx = e THEN Free ELSE connmtx
  /\ refused' = refused \cup {t \in Thread : \E s \in Socket : at[e].s = s /\ code[s] = t}
  /\ UNCHANGED <<mstate, counter, running, sockets, late>>

\* The catch block of process_iooperations: m_state << invalid.
Catch(t) ==
  \/ /\ at[t].in = "throwing" /\ Goto(t, "caught")
     /\ mstate' = "invalid"
     /\ UNCHANGED <<counter, running, sockets, connmtx, history>>
  \/ /\ at[t].in = "caught" /\ Goto(t, "threw")
     /\ counter' = 0
     /\ UNCHANGED <<mstate, running, sockets, connmtx, history>>

-----------------------------------------------------------------------------
(* Handlers, run by the threads in a poll and by main in Stop.             *)

\* OnConnected begins: the handler of a socket of a stopped thread idles.
OnConnected(e) ==
  /\ Dispatches(e)
  /\ \E s \in Socket :
       /\ accepting[s] \in {"ok", "error", "aborted"}
       /\ accepting' = [accepting EXCEPT ![s] = "no"]
       /\ IF code[s] = NoThCode
          THEN Goto(e, Idle(e))
          ELSE Handling(e, "connected", s, accepting[s])
  /\ UNCHANGED <<mstate, counter, running, code, served, active, connmtx, history>>

\* Under m_connmtx: an aborted accept, an error (the socket is closed and
\* nothing is accepted in its place), or a connection.
LockConn(e) ==
  /\ at[e].in = "connected" /\ connmtx = Free
  /\ \/ /\ at[e].arg = "aborted" /\ Goto(e, Idle(e))
        /\ UNCHANGED <<code, active, connmtx, refused>>
     \/ /\ at[e].arg = "error" /\ Goto(e, Idle(e)) /\ Close(at[e].s)
        /\ refused' = refused \cup ({code[at[e].s]} \ {NoThCode})
        /\ UNCHANGED connmtx
     \/ /\ at[e].arg \notin {"aborted", "error"}
        /\ connmtx' = e /\ Handling(e, "admit", at[e].s, "ok")
        /\ UNCHANGED <<code, active, refused>>
  /\ UNCHANGED <<mstate, counter, running, accepting, served, late>>

\* Mutant: the limit is compared with >.
AdmitOneMore(e) ==
  /\ at[e].in = "admit"
  /\ LET s == at[e].s IN
       \/ /\ code[s] # NoThCode => Cardinality(active[code[s]]) > Limit
          /\ accepting' = [accepting EXCEPT ![s] = "delayed"]
          /\ connmtx' = Free /\ Goto(e, Idle(e))
       \/ /\ code[s] # NoThCode => Cardinality(active[code[s]]) <= Limit
          /\ Handling(e, "accept", s, "ok") /\ UNCHANGED <<accepting, connmtx>>
  /\ UNCHANGED <<mstate, counter, running, code, served, active, history>>

\* Mutant: a connection at the limit is dropped.
AdmitDropping(e) ==
  /\ at[e].in = "admit"
  /\ LET s == at[e].s IN
       \/ /\ code[s] # NoThCode => Cardinality(active[code[s]]) >= Limit
          /\ connmtx' = Free /\ Goto(e, Idle(e)) /\ Close(s)
       \/ /\ code[s] # NoThCode => Cardinality(active[code[s]]) < Limit
          /\ Handling(e, "accept", s, "ok") /\ UNCHANGED <<code, active, connmtx>>
  /\ UNCHANGED <<mstate, counter, running, accepting, served, history>>

\* getSockListSize(getThreadCode()): the code is read again, and may have become
\* noThCode, with any size found.  At the limit do_reaccept calls OnConnected
\* again after a delay.
Admit(e) ==
  /\ at[e].in = "admit"
  /\ LET s == at[e].s IN
       \/ /\ code[s] # NoThCode => Cardinality(active[code[s]]) >= Limit
          /\ accepting' = [accepting EXCEPT ![s] = "delayed"]
          /\ connmtx' = Free /\ Goto(e, Idle(e))
       \/ /\ code[s] # NoThCode => Cardinality(active[code[s]]) < Limit
          /\ Handling(e, "accept", s, "ok") /\ UNCHANGED <<accepting, connmtx>>
  /\ UNCHANGED <<mstate, counter, running, code, served, active, history>>

\* do_accept(getThreadCode()): the code is read once more.
Accept(e) ==
  /\ at[e].in = "accept" /\ Handling(e, "register", at[e].s, code[at[e].s])
  /\ UNCHANGED <<mstate, counter, running, sockets, connmtx, history>>

\* do_accept makes the next socket and registers it in the pool of the code
\* that was read, if any; do_first starts the session; OnConnected ends.
Register(e) ==
  /\ at[e].in = "register" /\ Goto(e, Idle(e)) /\ connmtx' = Free
  /\ do_accept(at[e].arg)
  /\ served' = served \cup {at[e].s}
  /\ UNCHANGED <<mstate, counter, running, refused>>

\* A handler of the session closes the socket, which ends the session.
EndSession(e, s) ==
  /\ Dispatches(e) /\ s \in served
  /\ Close(s) /\ served' = served \ {s}
  /\ UNCHANGED <<mstate, counter, running, at, accepting, connmtx, refused, late>>

-----------------------------------------------------------------------------
(* The network and the timer of do_reaccept.                               *)
Connect ==
  \E s \in Socket, outcome \in {"ok", "error"} :
    /\ accepting[s] = "pending"
    /\ accepting' = [accepting EXCEPT ![s] = outcome]
    /\ UNCHANGED <<mstate, counter, running, at, code, served, active, connmtx,
                   history>>

DelayExpires ==
  \E s \in Socket :
    /\ accepting[s] = "delayed"
    /\ accepting' = [accepting EXCEPT ![s] = "ok"]
    /\ UNCHANGED <<mstate, counter, running, at, code, served, active, connmtx,
                   history>>

-----------------------------------------------------------------------------
Control == Start \/ Stop \/ StopInvalid
Advance == Announce \/ ResetCounter \/ Await \/ StopCounter \/ StopLoop \/ Join
           \/ JoinGivesUp \/ Drained
Thread_(t) == AcceptFirst(t) \/ Count(t) \/ Check(t) \/ Switch(t) \/ Poll(t)
              \/ PollReturns(t) \/ Leave(t) \/ Catch(t)
Handlers(e) == OnConnected(e) \/ LockConn(e) \/ Admit(e) \/ Accept(e)
               \/ Register(e)

Next ==
  \/ Control \/ Advance
  \/ \E t \in Thread : Thread_(t)
  \/ \E e \in Executor : Handlers(e) \/ Throws(e)
  \/ \E e \in Executor, s \in Socket : EndSession(e, s)
  \/ Connect \/ DelayExpires

Spec == Init /\ [][Next]_vars

(* The main thread goes on: the destructor of a thread waits for a bounded   *)
(* time.  Handlers are run, delays expire, and a session whose socket was    *)
(* cancelled comes to its end (ServerSession).  Clients, the user and the    *)
(* threads of the group promise nothing.                                     *)
EndCancelled ==
  \E e \in Executor, s \in Socket : code[s] = NoThCode /\ EndSession(e, s)

Fairness ==
  /\ WF_vars(Advance)
  /\ \A e \in Executor : WF_vars(Handlers(e))
  /\ WF_vars(EndCancelled)
  /\ WF_vars(DelayExpires)

FairSpec == Spec /\ Fairness

-----------------------------------------------------------------------------
(* Properties.                                                             *)

\* Every variable stays in its range; in particular no more threads than
\* there are are counted.
TypeOK ==
  /\ mstate \in {"invalid", "shutdowned", "running", "run"}
  /\ counter \in 0 .. Cardinality(Thread)
  /\ running \in BOOLEAN
  /\ at \in [Executor -> [in : {"stopped", "announce", "reset", "await", "started",
                                "failed", "forget", "clear", "abandon", "join",
                                "invalid", "drain", "starting", "count", "check",
                                "switch", "loop", "poll", "throwing", "caught",
                                "ended", "threw"} \cup HandlerPlaces,
                          s : Socket \cup {NoSocket},
                          arg : {"ok", "error", "aborted", NoThCode} \cup Thread]]
  /\ code \in [Socket -> Thread \cup {NoThCode}]
  /\ accepting \in [Socket -> {"no", "pending", "ok", "error", "aborted", "delayed"}]
  /\ served \subseteq Socket
  /\ active \in [Thread -> SUBSET Socket]
  /\ connmtx \in Executor \cup {Free}
  /\ late \in BOOLEAN /\ refused \subseteq Thread

\* The sockets of t that wait for a connection or whose connection is being
\* taken by a handler.
Chain(t) ==
  {s \in Socket : /\ code[s] = t
                  /\ accepting[s] # "no" \/ \E e \in Executor : at[e].s = s}

\* However the threads share the handlers, each thread that serves has one
\* accept chain and one only: it is neither lost nor forked by a connection
\* at the limit.  (An accept that fails, or whose handler throws, ends the chain
\* of its thread.)
OneAcceptChain ==
  mstate = "run" =>
    \A t \in Thread \ refused :
      at[t].in \in {"loop", "poll"} \cup HandlerPlaces /\ running
      => Cardinality(Chain(t)) = 1

\* The sockets in use of a thread never exceed the limit, although the size
\* of its pool is read by one thread and the accept is done later, under
\* m_connmtx but while other threads run.
WithinLimit ==
  \A t \in Thread :
    Cardinality({s \in Socket : code[s] = t /\ (s \in served \/ s \in Chain(t))})
      <= Limit

\* A socket that is served or delayed is in the pool of its thread, where
\* that thread finds it when it has to stop.
ServedIsTracked ==
  \A s \in Socket :
    code[s] # NoThCode /\ (s \in served \/ accepting[s] = "delayed")
    => s \in active[code[s]]

\* After Stop nothing is left: no session, no operation, and (unless a
\* socket had entered the pool of a thread that had left) no active socket.
StoppedIsEmpty ==
  at[Main].in = "stopped" =>
    /\ served = {} /\ \A s \in Socket : accepting[s] = "no"
    /\ ~late => \A t \in Thread : active[t] = {}

\* functional/main_test_server.cpp:190-214 starts the server, stops it and
\* starts it again, and expects each Start to succeed.
StartSucceeds == at[Main].in # "failed" \/ mstate = "invalid"

\* Stop comes to its end, whatever the clients do: the server is stopped, or
\* invalid, or an exception left Stop.  So it does unless a handler
\* registers a socket in the pool of a thread that has left and a connection
\* is accepted on it: m_ioservice.run in Stop may then serve clients and accept
\* the next one, for ever.
StopReturns ==
  [](~late) => (at[Main].in = "join" ~> at[Main].in \in {"stopped", "invalid", "threw"})
=============================================================================
