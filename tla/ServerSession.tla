---------------------------- MODULE ServerSession ----------------------------
(***************************************************************************)
(* One client connection of the server, serversocket_t (server.cpp): the   *)
(* handlers of its asynchronous operations and its two timers, run by all  *)
(* the threads that poll the one io_service, with no strand between them.  *)
(*                                                                         *)
(* A handler begins when a thread takes its completion (the flags are      *)
(* tested then) and does its work in a later step; the work of             *)
(* OnReceivedBin and OnProcessTimeout is split between isAvailable, the    *)
(* arming of the wait and the write of "BUSY", because the worker of the   *)
(* request processor may publish the reply, and the wait end, in between.  *)
(* The request processor is abstracted to the state of this connection's   *)
(* request (ImageProcessor models its slots).                              *)
(*                                                                         *)
(* A completion of m_timer that was cancelled does nothing in              *)
(* OnConnectTimeout, so only the expired ones are kept.                    *)
(***************************************************************************)
EXTENDS Naturals

CONSTANTS Thread,       \* the threads that poll the io_service
          Owner,        \* the thread in whose pool the socket is
          MAX_ATTEMPTS, \* server_cfg.h
          MaxCycles     \* bound of the model: wait cycles that time out

ASSUME OwnerAssumption == Owner \in Thread /\ "free" \notin Thread
ASSUME BoundsAssumption ==
  /\ MAX_ATTEMPTS \in Nat \ {0}
  /\ MaxCycles \in Nat \ {0}

VARIABLES
  op,          \* the read, the response write and the wait for eof
  busy,        \* the writes of "BUSY": how many are where
  timer,       \* m_timer, the guard of the current operation
  timeouts,    \* expired completions of m_timer not yet handled
  timer2,      \* m_timer2, the wait for the reply
  open,        \* m_sock is open
  destroyed,   \* m_isdestruction_sockstarted
  thcode,      \* m_thcode: "own" or "none" (noThCode)
  pool,        \* where TServer keeps the socket
  misplaced,   \* removeSocket was called with noThCode
  trailing,    \* m_sock.available(): bytes follow the request
  proctimecnt, \* m_proctimecnt
  cycles,      \* history: the wait cycles, by their writes of "BUSY"
  responses,   \* history: writes of the response begun
  request,     \* the request in the processor
  notify,      \* the worker's call of the ready handler
  lock,        \* m_resumemtx: the thread that holds it
  th           \* what each thread is doing

net     == <<op, busy, timer, timeouts, timer2, open>>
state   == <<destroyed, thcode, pool, misplaced>>
history == <<cycles, responses>>
proc    == <<request, notify>>
vars    == <<net, state, history, proc, trailing, proctimecnt, lock, th>>

Op == {"read", "write", "disconnect"}
Free == "free"
Polling == [in |-> "poll", err |-> FALSE]
Exited == [in |-> "exited", err |-> FALSE]

\* A handler is run with the outcome of its operation; "decide", "wait"
\* and "sendbusy" are the steps of OnReceivedBin and OnProcessTimeout under
\* m_resumemtx.
Handler == {"OnReceivedBin", "OnSent", "OnDisconnected", "OnBusy",
            "OnConnectTimeout", "OnProcessTimeout"}

-----------------------------------------------------------------------------
(* What the methods do to the operations and timers.                       *)

\* An asynchronous operation on a closed socket completes with an error.
Started == IF open THEN "pending" ELSE "failed"
Outcome(err) == IF err THEN "failed" ELSE "ok"

ArmTimer == timer' = "armed"
CancelTimer == timer' = "off"

do_read_bin == op' = [op EXCEPT !["read"] = Started] /\ ArmTimer

\* Mutant: the write of the response is not guarded.
do_write_unguarded ==
  /\ op' = [op EXCEPT !["write"] = Started] /\ CancelTimer
  /\ responses' = responses + 1

do_write == /\ op' = [op EXCEPT !["write"] = Started] /\ ArmTimer
            /\ responses' = responses + 1

do_wait_disconnect ==
  op' = [op EXCEPT !["disconnect"] = Started] /\ ArmTimer

do_wait_processcompl == timer2' = "armed"

\* The busy write borrows the same m_timer.
do_compose_send_busy ==
  /\ busy' = [busy EXCEPT ![Started] = @ + 1]
  /\ ArmTimer
  /\ cycles' = cycles + 1

\* Cancel: pending operations and waits complete with operation_aborted;
\* completions already queued are out of its reach.
Cancel ==
  /\ open' = FALSE
  /\ op' = [o \in Op |-> IF op[o] = "pending" THEN "failed" ELSE op[o]]
  /\ busy' = [busy EXCEPT !["pending"] = 0,
                          !["failed"] = @ + busy["pending"]]
  /\ timer' = "off"
  /\ timer2' = IF timer2 = "armed" THEN "queued" ELSE timer2

\* Close: removeSocket moves the socket to the garbage of the thread its
\* code names.  For noThCode there is no such pool: the vectors are indexed
\* with -1, and the model records that and leaves the pools alone.
Close ==
  /\ destroyed' = TRUE
  /\ Cancel
  /\ pool' = IF thcode = "own" THEN "garbage" ELSE pool
  /\ misplaced' = (misplaced \/ thcode = "none")
  /\ UNCHANGED thcode

Goto(t, step) == th' = [th EXCEPT ![t] = step]
Return(t) == Goto(t, Polling)
Unlock(t) == lock' = IF lock = t THEN Free ELSE lock

-----------------------------------------------------------------------------
(* TServer::OnConnected has called do_first: the request is being read.    *)
Init ==
  /\ op = [o \in Op |-> IF o = "read" THEN "pending" ELSE "off"]
  /\ busy = [pending |-> 0, ok |-> 0, failed |-> 0]
  /\ timer = "armed" /\ timeouts = 0 /\ timer2 = "off" /\ open = TRUE
  /\ destroyed = FALSE /\ thcode = "own" /\ pool = "active"
  /\ misplaced = FALSE /\ trailing = FALSE
  /\ proctimecnt = MAX_ATTEMPTS
  /\ cycles = 0 /\ responses = 0
  /\ request = "none" /\ notify = "no"
  /\ lock = Free
  /\ th = [t \in Thread |-> Polling]

(* A thread takes a completion.  A handler of a closed socket returns at   *)
(* once.  (So it would on m_isthreadserver_stopped, which nothing sets.)   *)
Take(t, h, err) ==
  CASE h = "OnReceivedBin" ->
         op["read"] = Outcome(err) /\ op' = [op EXCEPT !["read"] = "off"]
         /\ UNCHANGED <<busy, timeouts, timer2>>
    [] h = "OnSent" ->
         op["write"] = Outcome(err) /\ op' = [op EXCEPT !["write"] = "off"]
         /\ UNCHANGED <<busy, timeouts, timer2>>
    [] h = "OnDisconnected" ->
         op["disconnect"] = Outcome(err)
         /\ op' = [op EXCEPT !["disconnect"] = "off"]
         /\ UNCHANGED <<busy, timeouts, timer2>>
    [] h = "OnBusy" ->
         busy[Outcome(err)] > 0 /\ busy' = [busy EXCEPT ![Outcome(err)] = @ - 1]
         /\ UNCHANGED <<op, timeouts, timer2>>
    [] h = "OnConnectTimeout" ->
         timeouts > 0 /\ ~err /\ timeouts' = timeouts - 1
         /\ UNCHANGED <<op, busy, timer2>>
    [] h = "OnProcessTimeout" ->
         timer2 = "queued" /\ ~err /\ timer2' = "off"
         /\ UNCHANGED <<op, busy, timeouts>>

Begin(t) ==
  /\ th[t] = Polling
  /\ \E h \in Handler, err \in BOOLEAN :
       /\ Take(t, h, err)
       /\ IF destroyed THEN Return(t) ELSE Goto(t, [in |-> h, err |-> err])
  /\ UNCHANGED <<timer, open, state, history, proc, trailing, proctimecnt,
                 lock>>

-----------------------------------------------------------------------------
(* The handlers.                                                           *)

\* An io error, more bytes than the request, a refused request (empty, or no
\* free slot), or the request is in the processor and m_resumemtx is held.
OnReceivedBin(t) ==
  /\ th[t].in = "OnReceivedBin"
  /\ \/ /\ th[t].err /\ Close /\ Return(t)
        /\ UNCHANGED <<timeouts, history, proc, lock>>
     \/ /\ ~th[t].err /\ trailing /\ open /\ do_read_bin /\ Return(t)
        /\ UNCHANGED <<busy, timeouts, timer2, open, state, history, proc, lock>>
     \/ /\ ~th[t].err /\ ~(trailing /\ open) /\ lock = Free
        /\ \/ /\ Close /\ Return(t)
              /\ UNCHANGED <<timeouts, history, proc, lock>>
           \/ /\ lock' = t /\ Goto(t, [in |-> "decide", err |-> FALSE])
              /\ request' = "submitted"
              /\ CancelTimer
              /\ UNCHANGED <<op, busy, timeouts, timer2, open, state, history,
                             notify>>
  /\ UNCHANGED <<trailing, proctimecnt>>

\* x = x ? x-- : 0 leaves x as it is.
OnProcessTimeout(t) ==
  /\ th[t].in = "OnProcessTimeout" /\ lock = Free
  /\ timer2' = IF timer2 = "armed" THEN "queued" ELSE timer2
  /\ proctimecnt' = IF proctimecnt > 0 THEN proctimecnt ELSE 0
  /\ IF proctimecnt' = 0
     THEN Close /\ Return(t) /\ UNCHANGED <<timeouts, lock>>
     ELSE /\ lock' = t /\ Goto(t, [in |-> "decide", err |-> FALSE])
          /\ UNCHANGED <<op, busy, timer, timeouts, open, state>>
  /\ UNCHANGED <<history, proc, trailing>>

\* isAvailable; a ready reply is fetched and written (get_input_data never
\* yields an empty one).
Decide(t) ==
  /\ th[t].in = "decide"
  /\ IF request = "ready"
     THEN /\ request' = "fetched"
          /\ do_write /\ Unlock(t) /\ Return(t)
          /\ UNCHANGED cycles
     ELSE /\ Goto(t, [in |-> "wait", err |-> FALSE])
          /\ UNCHANGED <<op, timer, request, lock, history>>
  /\ UNCHANGED <<busy, timeouts, timer2, open, state, notify, trailing,
                 proctimecnt>>

\* The wait is armed; it may expire, and another thread take its completion,
\* before the "BUSY" is written.
Wait(t) ==
  /\ th[t].in = "wait" /\ Goto(t, [in |-> "sendbusy", err |-> FALSE])
  /\ do_wait_processcompl
  /\ UNCHANGED <<op, busy, timer, timeouts, open, state, history, proc, trailing,
                 proctimecnt, lock>>

SendBusy(t) ==
  /\ th[t].in = "sendbusy"
  /\ do_compose_send_busy /\ Unlock(t) /\ Return(t)
  /\ UNCHANGED <<op, timeouts, timer2, open, state, responses, proc, trailing,
                 proctimecnt>>

\* Mutant: a failed write is tried again.
OnSentRetry(t) ==
  /\ th[t].in = "OnSent" /\ Return(t)
  /\ IF th[t].err
     THEN op' = [op EXCEPT !["write"] = Started] /\ ArmTimer
     ELSE do_wait_disconnect
  /\ UNCHANGED <<busy, timer2, open, state, timeouts, history, proc, trailing,
                 proctimecnt, lock>>

OnSent(t) ==
  /\ th[t].in = "OnSent" /\ Return(t)
  /\ IF th[t].err
     THEN Close
     ELSE do_wait_disconnect /\ UNCHANGED <<busy, timer2, open, state>>
  /\ UNCHANGED <<timeouts, history, proc, trailing, proctimecnt, lock>>

OnConnectTimeout(t) ==
  /\ th[t].in = "OnConnectTimeout" /\ Return(t)
  /\ Close
  /\ UNCHANGED <<timeouts, history, proc, trailing, proctimecnt, lock>>

OnBusy(t) ==
  /\ th[t].in = "OnBusy" /\ Return(t)
  /\ IF th[t].err
     THEN Close
     ELSE CancelTimer /\ UNCHANGED <<op, busy, timer2, open, state>>
  /\ UNCHANGED <<timeouts, history, proc, trailing, proctimecnt, lock>>

OnDisconnected(t) ==
  /\ th[t].in = "OnDisconnected" /\ Return(t)
  /\ Close
  /\ UNCHANGED <<timeouts, history, proc, trailing, proctimecnt, lock>>

\* The owning thread leaves its loop (process_iooperations): it cancels its
\* sockets, whose code becomes noThCode, and drops them from its pool; the
\* other threads, and at last TServer::Stop itself, go on dispatching.
ThreadStop ==
  /\ th[Owner] = Polling /\ Goto(Owner, Exited)
  /\ pool' = IF pool = "active" THEN "dropped" ELSE pool
  /\ IF pool = "active"
     THEN Cancel /\ thcode' = "none"
     ELSE UNCHANGED <<op, busy, timer, timer2, open, thcode>>
  /\ UNCHANGED <<timeouts, destroyed, misplaced, history, proc, trailing,
                 proctimecnt, lock>>

-----------------------------------------------------------------------------
(* The client and the network: a pending operation succeeds or fails.  The *)
(* client may have sent more than its request.                             *)
Completes(o) ==
  /\ op[o] = "pending"
  /\ \E err \in BOOLEAN : op' = [op EXCEPT ![o] = Outcome(err)]
  /\ trailing' \in IF o = "read" THEN {trailing, TRUE} ELSE {trailing}
  /\ UNCHANGED <<busy, timer, timeouts, timer2, open, state, history, proc,
                 proctimecnt, lock, th>>

BusyCompletes ==
  /\ busy["pending"] > 0
  /\ \E err \in BOOLEAN :
       busy' = [busy EXCEPT !["pending"] = @ - 1, ![Outcome(err)] = @ + 1]
  /\ UNCHANGED <<op, timer, timeouts, timer2, open, state, history, proc,
                 trailing, proctimecnt, lock, th>>

\* One unhandled expiry at a time, which bounds the model.
TimerExpires ==
  /\ timer = "armed" /\ timeouts = 0
  /\ timer' = "off" /\ timeouts' = 1
  /\ UNCHANGED <<op, busy, timer2, open, state, history, proc, trailing,
                 proctimecnt, lock, th>>

\* Cycles that end by the timeout are bounded by MaxCycles.
Timer2Expires ==
  /\ timer2 = "armed" /\ cycles < MaxCycles
  /\ timer2' = "queued"
  /\ UNCHANGED <<op, busy, timer, timeouts, open, state, history, proc,
                 trailing, proctimecnt, lock, th>>

-----------------------------------------------------------------------------
(* The worker of the request processor.                                    *)
Publish ==
  /\ request = "submitted"
  /\ request' = "ready" /\ notify' = "due"
  /\ UNCHANGED <<net, state, history, trailing, proctimecnt, lock, th>>

\* Mutant: the ready handler does not take m_resumemtx.
do_notify_unlocked ==
  /\ notify = "due"
  /\ notify' = "done"
  /\ timer2' = IF timer2 = "armed" THEN "queued" ELSE timer2
  /\ UNCHANGED <<op, busy, timer, timeouts, open, state, history, request,
                 trailing, proctimecnt, lock, th>>

\* Mutant: the ready handler posts OnProcessTimeout, armed or not.
do_notify_posting ==
  /\ notify = "due" /\ lock = Free
  /\ notify' = "done"
  /\ timer2' = "queued"
  /\ UNCHANGED <<op, busy, timer, timeouts, open, state, history, request,
                 trailing, proctimecnt, lock, th>>

do_notify ==
  /\ notify = "due" /\ lock = Free
  /\ notify' = "done"
  /\ timer2' = IF timer2 = "armed" THEN "queued" ELSE timer2
  /\ UNCHANGED <<op, busy, timer, timeouts, open, state, history, request,
                 trailing, proctimecnt, lock, th>>

-----------------------------------------------------------------------------
Dispatch(t) ==
  \/ Begin(t) \/ OnReceivedBin(t) \/ OnProcessTimeout(t) \/ Decide(t)
  \/ Wait(t) \/ SendBusy(t) \/ OnSent(t) \/ OnConnectTimeout(t) \/ OnBusy(t)
  \/ OnDisconnected(t)

Client == (\E o \in Op : Completes(o)) \/ BusyCompletes

Next ==
  \/ \E t \in Thread : Dispatch(t)
  \/ ThreadStop \/ Client \/ TimerExpires \/ Timer2Expires
  \/ Publish \/ do_notify

Spec == Init /\ [][Next]_vars

(* Threads keep polling, the timers fire and the worker works; the client  *)
(* promises nothing.                                                       *)
Fairness ==
  /\ \A t \in Thread : WF_vars(Dispatch(t))
  /\ WF_vars(TimerExpires) /\ WF_vars(Timer2Expires)
  /\ WF_vars(Publish) /\ WF_vars(do_notify)

FairSpec == Spec /\ Fairness

-----------------------------------------------------------------------------
(* Properties.                                                             *)

\* Types.
TypeOK ==
  /\ op \in [Op -> {"off", "pending", "ok", "failed"}]
  /\ busy \in [{"pending", "ok", "failed"} -> Nat]
  /\ timer \in {"off", "armed"} /\ timeouts \in 0 .. 1
  /\ timer2 \in {"off", "armed", "queued"}
  /\ open \in BOOLEAN /\ destroyed \in BOOLEAN /\ misplaced \in BOOLEAN
  /\ thcode \in {"own", "none"} /\ pool \in {"active", "garbage", "dropped"}
  /\ trailing \in BOOLEAN /\ proctimecnt \in 0 .. MAX_ATTEMPTS
  /\ cycles \in Nat /\ responses \in Nat
  /\ request \in {"none", "submitted", "ready", "fetched"}
  /\ notify \in {"no", "due", "done"}
  /\ lock \in Thread \cup {Free}
  /\ th \in [Thread -> [in : Handler \cup {"poll", "exited", "decide", "wait",
                                             "sendbusy"},
                       err : BOOLEAN]]

\* A pending operation has its guard: m_timer is armed, or has expired and
\* OnConnectTimeout is on its way.
Guarded ==
  \A o \in Op :
    op[o] = "pending" => \/ timer = "armed" \/ timeouts > 0
                         \/ \E t \in Thread : th[t].in = "OnConnectTimeout"

\* As long as no "BUSY" was sent, no order in which the threads run the
\* handlers leaves a pending operation without its guard: the shared m_timer
\* passes from the read to the write to the wait for the client to leave.
GuardedWithoutBusy == cycles = 0 => Guarded

\* Once the worker has called the ready handler, the connection is not left
\* to sleep out its wait: m_resumemtx keeps do_notify from falling between
\* isAvailable and the arming of m_timer2.
NoLostWakeup == notify = "done" => timer2 # "armed"

\* However the expiry of the wait, its cancellation by do_notify and the
\* closing of the socket race, one handler at most fetches the reply and
\* writes it.
OneResponse ==
  /\ responses <= 1
  /\ \A t, u \in Thread :
       /\ th[t].in \in {"OnProcessTimeout", "decide", "wait"}
       /\ th[u].in \in {"OnProcessTimeout", "decide", "wait"}
       => t = u

\* Nothing keeps the socket alive: no completion, no timer, no handler.
Released ==
  /\ \A o \in Op : op[o] = "off"
  /\ \A r \in DOMAIN busy : busy[r] = 0
  /\ timer = "off" /\ timeouts = 0 /\ timer2 = "off"
  /\ \A t \in Thread : th[t] \in {Polling, Exited}

\* A socket that was closed, by one of its handlers or by its stopping
\* thread, and at whatever point of another handler, is released: what that
\* handler still starts on it comes to an end.
ClosedIsReleased == ~open ~> Released

\* A client that stalls at any point, and to which no "BUSY" was sent, is
\* disconnected (bytes after the request restart the read for ever, so they
\* are excluded).
StalledIsClosed == [](~trailing /\ cycles = 0) => <>(~open)

\* server.cpp:1049 asserts that the code removeSocket is called with names a
\* pool; server.h:95 says that noThCode makes the handlers idle instead.
NeverMisplaced == ~misplaced

\* The other side of what ImageProcessor implements: the session submits once,
\* fetches once, when the reply is there and in its critical section, and all
\* it relies on is what Request allows the processor to do.
RequestOf == INSTANCE Request WITH held <- lock # Free
ImplementsRequest == RequestOf!Spec
=============================================================================
