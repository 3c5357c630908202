--------------------------- MODULE ImageProcessor ---------------------------
(***************************************************************************)
(* The server's request processor servimgProcessor_t (image_sproc.cpp):    *)
(* connections hand their requests, through a fixed number of numbered     *)
(* slots, to the one worker thread that draws the text, and fetch the      *)
(* replies from the same slots.  A slot number travels                     *)
(*                                                                         *)
(*    free FIFO -> connection (ticket) -> request queue -> worker          *)
(*              -> reply slot (time stamp > 0) -> connection -> free FIFO  *)
(*                                                                         *)
(* The connections run on several server threads, so every access to a     *)
(* shared variable of the processor is a step of its own.  The data of a   *)
(* request is abstracted to the connection that sent it; whether it can be *)
(* drawn is chosen when the worker draws it.                               *)
(***************************************************************************)
EXTENDS Naturals, Sequences

CONSTANTS Conn,         \* the sockets that ever submit a request
          QueueSize,    \* m_queuesize: the number of slots
          REPTIMEOUT,   \* the time stamp of a fresh reply
          None          \* a null pointer

ASSUME QueueSizeAssumption == QueueSize \in Nat \ {0}
ASSUME RepTimeoutAssumption == REPTIMEOUT \in Nat /\ REPTIMEOUT > 1

\* What drawText returned for whose request; drawn is FALSE for the null
\* buffer of a request it could not parse.
Reply == [from : Conn, drawn : BOOLEAN]

ASSUME NoneAssumption == None \notin Conn \cup Reply

VARIABLES
  freeIdx,         \* m_reqfreeidx_fifo, the free slots
  requestQueue,    \* m_request_queue, the slots with a request to draw
  requestStock,    \* m_request_stock: whose request a slot holds
  responseStock,   \* m_response_stock: the reply a slot holds
  repTimeout,      \* m_rep_timeout: a slot's reply is ready iff positive
  pc,              \* where a connection is in its use of the processor
  ticket,          \* m_ticket.m_procval: the slot of a connection
  closed,          \* m_isdestruction_sockstarted of a connection
  reply,           \* m_response_owner: the reply a connection fetched
  wpc,             \* where the worker is in servimgProcessor_t::Process
  widx,            \* req_stock_idx: the slot the worker works on
  wcli,            \* the request the worker moved out, then its handler
  wi, wold         \* i and old_val of the "decrease timeout" loop

shared == <<freeIdx, requestQueue, requestStock, responseStock, repTimeout>>
conns  == <<pc, ticket, closed, reply>>
worker == <<wpc, widx, wcli, wi, wold>>
vars   == <<shared, conns, worker>>

Index == 0 .. QueueSize - 1

-----------------------------------------------------------------------------
(* Every slot is free and the worker has entered its loop.                 *)
Init ==
  /\ freeIdx = [k \in 1 .. QueueSize |-> k - 1]
  /\ requestQueue = << >>
  /\ requestStock = [i \in Index |-> None]
  /\ responseStock = [i \in Index |-> None]
  /\ repTimeout = [i \in Index |-> 0]
  /\ pc = [c \in Conn |-> "idle"]
  /\ ticket = [c \in Conn |-> 0]
  /\ closed = [c \in Conn |-> FALSE]
  /\ reply = [c \in Conn |-> None]
  /\ wpc = "pop" /\ widx = 0 /\ wcli = None /\ wi = 0 /\ wold = 0

(* boost::lockfree::queue with a fixed size: a push into a full queue is   *)
(* refused, and both callers ignore the result.                            *)
BoundedPush(q, i) == IF Len(q) < QueueSize THEN Append(q, i) ELSE q

Goto(c, l) == pc' = [pc EXCEPT ![c] = l]

(* The lock m_resumemtx of a connection is held from before the request is *)
(* submitted until the wait for the reply is armed, and again while the    *)
(* reply is fetched.                                                       *)
Locked(c) ==
  pc[c] \in {"pop", "store", "clear", "enqueue", "check", "take", "release"}

-----------------------------------------------------------------------------
(* A connection: OnReceivedBin and OnProcessTimeout.                       *)

\* process_output_data is entered; compare_resp refuses an empty request
\* and the connection is closed.
Submit(c) ==
  /\ pc[c] = "idle" /\ ~closed[c]
  /\ \/ Goto(c, "pop") /\ UNCHANGED closed
     \/ Goto(c, "done") /\ closed' = [closed EXCEPT ![c] = TRUE]
  /\ UNCHANGED <<shared, ticket, reply, worker>>

\* A free slot is taken; with none left the connection is closed.
PopIndex(c) ==
  /\ pc[c] = "pop"
  /\ IF freeIdx = << >>
     THEN /\ Goto(c, "done")
          /\ closed' = [closed EXCEPT ![c] = TRUE]
          /\ UNCHANGED <<freeIdx, ticket>>
     ELSE /\ freeIdx' = Tail(freeIdx)
          /\ ticket' = [ticket EXCEPT ![c] = Head(freeIdx)]
          /\ Goto(c, "store")
          /\ UNCHANGED closed
  /\ UNCHANGED <<requestQueue, requestStock, responseStock, repTimeout,
                 reply, worker>>

StoreRequest(c) ==
  /\ pc[c] = "store"
  /\ requestStock' = [requestStock EXCEPT ![ticket[c]] = c]
  /\ Goto(c, "clear")
  /\ UNCHANGED <<freeIdx, requestQueue, responseStock, repTimeout,
                 ticket, closed, reply, worker>>

\* Mutant: the time stamp of the slot's last user stays.
ClearTimeoutForgotten(c) ==
  /\ pc[c] = "clear"
  /\ Goto(c, "enqueue")
  /\ UNCHANGED <<shared, ticket, closed, reply, worker>>

ClearTimeout(c) ==
  /\ pc[c] = "clear"
  /\ repTimeout' = [repTimeout EXCEPT ![ticket[c]] = 0]
  /\ Goto(c, "enqueue")
  /\ UNCHANGED <<freeIdx, requestQueue, requestStock, responseStock,
                 ticket, closed, reply, worker>>

Enqueue(c) ==
  /\ pc[c] = "enqueue"
  /\ requestQueue' = BoundedPush(requestQueue, ticket[c])
  /\ Goto(c, "check")
  /\ UNCHANGED <<freeIdx, requestStock, responseStock, repTimeout,
                 ticket, closed, reply, worker>>

Available(c) == repTimeout[ticket[c]] > 0

\* isAvailable right after the submission: fetch the reply or arm the wait.
Check(c) ==
  /\ pc[c] = "check"
  /\ Goto(c, IF Available(c) THEN "take" ELSE "waiting")
  /\ UNCHANGED <<shared, ticket, closed, reply, worker>>

\* OnProcessTimeout finds the reply (not finding it, it arms the wait again,
\* which changes nothing here).
Poll(c) ==
  /\ pc[c] = "waiting" /\ ~closed[c] /\ Available(c)
  /\ Goto(c, "take")
  /\ UNCHANGED <<shared, ticket, closed, reply, worker>>

\* get_input_data up to the reset of the slot.  Its own test of the time
\* stamp repeats the caller's: no one but the owner of the slot clears it.
TakeReply(c) ==
  /\ pc[c] = "take"
  /\ reply' = [reply EXCEPT ![c] = responseStock[ticket[c]]]
  /\ responseStock' = [responseStock EXCEPT ![ticket[c]] = None]
  /\ Goto(c, "release")
  /\ UNCHANGED <<freeIdx, requestQueue, requestStock, repTimeout,
                 ticket, closed, worker>>

\* Mutant: the branch of get_input_data that answers "FAIL" returns early.
ReleaseDrawnOnly(c) ==
  /\ pc[c] = "release"
  /\ freeIdx' = IF reply[c].drawn THEN BoundedPush(freeIdx, ticket[c])
                ELSE freeIdx
  /\ Goto(c, "done")
  /\ UNCHANGED <<requestQueue, requestStock, responseStock, repTimeout,
                 ticket, closed, reply, worker>>

\* The end of get_input_data: the slot is free again, its time stamp is not
\* reset.
ReleaseIndex(c) ==
  /\ pc[c] = "release"
  /\ freeIdx' = BoundedPush(freeIdx, ticket[c])
  /\ Goto(c, "done")
  /\ UNCHANGED <<requestQueue, requestStock, responseStock, repTimeout,
                 ticket, closed, reply, worker>>

\* Mutant: a closing connection gives the slot it waits for back at once.
CloseReleasing(c) ==
  /\ ~closed[c]
  /\ closed' = [closed EXCEPT ![c] = TRUE]
  /\ IF pc[c] = "waiting"
     THEN freeIdx' = BoundedPush(freeIdx, ticket[c]) /\ Goto(c, "done")
     ELSE UNCHANGED <<freeIdx, pc>>
  /\ UNCHANGED <<requestQueue, requestStock, responseStock, repTimeout,
                 ticket, reply, worker>>

\* Another handler of the connection (a timeout, an i/o error, a stopping
\* thread) closes the socket.  A handler in progress runs on; one that has
\* not started finds the flag and returns; the processor is told nothing.
Close(c) ==
  /\ ~closed[c]
  /\ closed' = [closed EXCEPT ![c] = TRUE]
  /\ UNCHANGED <<shared, pc, ticket, reply, worker>>

-----------------------------------------------------------------------------
(* The worker: one round of the loop of Process.                           *)

PopRequest ==
  /\ wpc = "pop" /\ requestQueue # << >>
  /\ widx' = Head(requestQueue)
  /\ requestQueue' = Tail(requestQueue)
  /\ wpc' = "draw"
  /\ UNCHANGED <<freeIdx, requestStock, responseStock, repTimeout, conns,
                 wcli, wi, wold>>

\* The request is moved out of its slot, drawn, and the slot emptied.
TakeRequest ==
  /\ wpc = "draw"
  /\ wcli' = requestStock[widx]
  /\ requestStock' = [requestStock EXCEPT ![widx] = None]
  /\ wpc' = "respond"
  /\ UNCHANGED <<freeIdx, requestQueue, responseStock, repTimeout, conns,
                 widx, wi, wold>>

\* Mutant: the loop goes on to the next request when this one cannot be drawn.
StoreDrawnOnly ==
  /\ wpc = "respond"
  /\ \/ /\ responseStock' =
             [responseStock EXCEPT ![widx] = [from |-> wcli, drawn |-> TRUE]]
        /\ wpc' = "load" /\ wi' = 0
        /\ UNCHANGED <<widx, wcli>>
     \/ /\ wpc' = "pop" /\ wcli' = None /\ widx' = 0
        /\ UNCHANGED <<responseStock, wi>>
  /\ UNCHANGED <<freeIdx, requestQueue, requestStock, repTimeout, conns, wold>>

StoreReply ==
  /\ wpc = "respond"
  /\ \E drawn \in BOOLEAN :
       responseStock' =
         [responseStock EXCEPT ![widx] = [from |-> wcli, drawn |-> drawn]]
  /\ wpc' = "load" /\ wi' = 0
  /\ UNCHANGED <<freeIdx, requestQueue, requestStock, repTimeout, conns,
                 widx, wcli, wold>>

LoadTimeout ==
  /\ wpc = "load"
  /\ wold' = repTimeout[wi]
  /\ wpc' = "age"
  /\ UNCHANGED <<shared, conns, widx, wcli, wi>>

\* new_val is old_val before the post-decrement, and the exchange expects
\* old_val after it: it succeeds where the time stamp is one below the
\* value loaded, and then restores that value.
AgeReply ==
  /\ wpc = "age"
  /\ LET expected == IF wold > 0 THEN wold - 1 ELSE 0
     IN  repTimeout' = IF repTimeout[wi] = expected
                       THEN [repTimeout EXCEPT ![wi] = wold]
                       ELSE repTimeout
  /\ IF wi + 1 < QueueSize
     THEN wi' = wi + 1 /\ wpc' = "load"
     ELSE wi' = 0 /\ wpc' = "publish"
  /\ wold' = 0
  /\ UNCHANGED <<freeIdx, requestQueue, requestStock, responseStock, conns,
                 widx, wcli>>

PublishReply ==
  /\ wpc = "publish"
  /\ repTimeout' = [repTimeout EXCEPT ![widx] = REPTIMEOUT]
  /\ wpc' = "notify"
  /\ UNCHANGED <<freeIdx, requestQueue, requestStock, responseStock, conns,
                 widx, wcli, wi, wold>>

\* Mutant: the call comes while the connection decides whether to wait.
NotifyUnlocked ==
  /\ wpc = "notify"
  /\ wpc' = "pop" /\ wcli' = None /\ widx' = 0
  /\ UNCHANGED <<shared, conns, wi, wold>>

\* The ready handler enters do_notify of its connection, which needs that
\* connection's m_resumemtx (a destroyed connection is skipped).
Notify ==
  /\ wpc = "notify" /\ ~Locked(wcli)
  /\ wpc' = "pop" /\ wcli' = None /\ widx' = 0
  /\ UNCHANGED <<shared, conns, wi, wold>>

-----------------------------------------------------------------------------
Connection(c) ==
  \/ Submit(c) \/ PopIndex(c) \/ StoreRequest(c) \/ ClearTimeout(c)
  \/ Enqueue(c) \/ Check(c) \/ Poll(c) \/ TakeReply(c) \/ ReleaseIndex(c)

Worker ==
  \/ PopRequest \/ TakeRequest \/ StoreReply \/ LoadTimeout \/ AgeReply
  \/ PublishReply \/ Notify

Next == Worker \/ \E c \in Conn : Connection(c) \/ Close(c)

Spec == Init /\ [][Next]_vars

(* The worker thread is scheduled, a handler that has begun runs to its    *)
(* end, and the timer of a waiting connection is polled; no request need   *)
(* arrive and no connection need be closed.                                *)
Fairness ==
  /\ WF_vars(Worker)
  /\ \A c \in Conn : WF_vars(Connection(c) /\ pc[c] # "idle")

FairSpec == Spec /\ Fairness

-----------------------------------------------------------------------------
(* Properties.                                                             *)

\* A connection owns a slot from the moment it took it off the free FIFO
\* until it has put it back.
Owns(c, i) ==
  /\ pc[c] \in {"store", "clear", "enqueue", "check", "waiting", "take",
                "release"}
  /\ ticket[c] = i

InQueue(q, i) == \E k \in 1 .. Len(q) : q[k] = i
NoRepeat(q) == \A j, k \in 1 .. Len(q) : q[j] = q[k] => j = k

\* Every variable stays in its range; no queue outgrows its fixed size.
TypeOK ==
  /\ freeIdx \in Seq(Index) /\ Len(freeIdx) <= QueueSize
  /\ requestQueue \in Seq(Index) /\ Len(requestQueue) <= QueueSize
  /\ requestStock \in [Index -> Conn \cup {None}]
  /\ responseStock \in [Index -> Reply \cup {None}]
  /\ repTimeout \in [Index -> {0, REPTIMEOUT}]
  /\ pc \in [Conn -> {"idle", "pop", "store", "clear", "enqueue", "check",
                      "waiting", "take", "release", "done"}]
  /\ ticket \in [Conn -> Index]
  /\ closed \in [Conn -> BOOLEAN]
  /\ reply \in [Conn -> Reply \cup {None}]
  /\ wpc \in {"pop", "draw", "respond", "load", "age", "publish", "notify"}
  /\ widx \in Index /\ wcli \in Conn \cup {None}
  /\ wi \in Index /\ wold \in {0, REPTIMEOUT}

\* A slot is in the free FIFO, once, or owned by one connection, whatever
\* the interleaving of the submissions with the worker and with closing
\* connections: none is handed out twice and none vanishes in a refused
\* push.  (The slot of a connection that closed before it fetched its reply
\* stays owned for ever: image_sproc.cpp has no path that takes it back.)
SlotsConserved ==
  /\ NoRepeat(freeIdx)
  /\ \A i \in Index :
       IF InQueue(freeIdx, i)
       THEN \A c \in Conn : ~Owns(c, i)
       ELSE \E c \in Conn : Owns(c, i) /\ \A d \in Conn \ {c} : ~Owns(d, i)

\* A slot the worker finds in the request queue holds a request: Process
\* dereferences m_request_stock[req_stock_idx] without a test.
RequestStored ==
  /\ NoRepeat(requestQueue)
  /\ \A i \in Index :
       \/ InQueue(requestQueue, i)
       \/ wpc = "draw" /\ widx = i
       => requestStock[i] # None /\ Owns(requestStock[i], i)

\* While a connection that waits for its reply or fetches it sees a positive
\* time stamp, the slot holds its own reply: get_input_data dereferences
\* m_response_stock[rep_stock_idx] without a test, and a time stamp left by
\* the last user of the slot, or a reply of another request, must not be
\* taken for it.
ReplyStored ==
  \A c \in Conn :
    /\ pc[c] \in {"enqueue", "check", "waiting", "take"}
    /\ Available(c)
    => /\ responseStock[ticket[c]] # None
       /\ responseStock[ticket[c]].from = c

\* Neither the worker nor a connection dereferences an empty slot of a stock.
StocksAreFilled == RequestStored /\ ReplyStored

\* The reply a connection sends to its client was drawn from its own request.
ReplyIsOwn ==
  \A c \in Conn :
    reply[c] # None => reply[c].from = c

\* A connection that waits and stays open fetches a reply: no interleaving of
\* the submission with the worker loses one, and the pass over the time
\* stamps that other requests cause does not expire one before its owner's
\* timer has fired.
EveryRequestAnswered ==
  \A c \in Conn : pc[c] = "waiting" ~> (pc[c] = "done" \/ closed[c])
-----------------------------------------------------------------------------
(* What one connection and the processor have to do with each other, in    *)
(* the terms of Request.                                                   *)
RequestState(c) ==
  IF reply[c] # None THEN "fetched"
  ELSE IF pc[c] \notin {"check", "waiting", "take"} THEN "none"
  ELSE IF Available(c) THEN "ready" ELSE "submitted"

NotifyState(c) ==
  IF RequestState(c) \notin {"ready", "fetched"} THEN "no"
  ELSE IF wpc = "notify" /\ wcli = c THEN "due" ELSE "done"

RequestOf(c) == INSTANCE Request WITH request <- RequestState(c),
                                      notify <- NotifyState(c),
                                      held <- Locked(c)

\* Whatever the other connections do and wherever the slots go, a connection
\* sees of the processor what Request promises it: its reply is published
\* once, stays until it is fetched, and the ready handler is called once,
\* after that and outside its critical section.
ImplementsRequest ==
  /\ \A c \in Conn : RequestOf(c)!Init
  /\ [][\A c \in Conn : RequestOf(c)!Next
                        \/ UNCHANGED <<RequestState(c), NotifyState(c), Locked(c)>>]_vars
=============================================================================
