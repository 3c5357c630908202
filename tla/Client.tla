-------------------------------- MODULE Client --------------------------------
(***************************************************************************)
(* The client (client.cpp, client.h) with the processor it serves          *)
(* (image_cproc.cpp) and the command that uses it (control.cpp,            *)
(* client_connection_action; TClient::Connect is the same loop).           *)
(*                                                                         *)
(* Two threads.  The main thread starts attempts and waits; the client's   *)
(* thread runs the handlers of all connections, one at a time.  They share *)
(* two flags, the states of the connections and their request buffers.     *)
(* Messages are whole: that a read ends at the end of a packet, whatever   *)
(* the pieces were, is the subject of Completer.                           *)
(***************************************************************************)
EXTENDS Naturals, Sequences, FiniteSets

CONSTANTS
  Conn,                  \* the connections of one attempt (m_paral of them)
  m_max_reconnattempts,
  MaxBusy                \* bound: BUSY messages of one session

ASSUME ClientAssumption ==
  /\ Conn # {} /\ IsFiniteSet(Conn)
  /\ m_max_reconnattempts \in Nat \ {0} /\ MaxBusy \in Nat

VARIABLES
  \* the main thread
  main, nattempts, outcome, m_nsucces,
  m_endpoint,                  \* TRUE: resolved
  \* what both threads use
  m_do_start_all_operations, m_isworking, m_statepool, wasconnected,
  m_requestpool,               \* TRUE: a buffer is there
  \* the client's thread
  thread,
  socket,                      \* the open sockets
  op,                          \* the operation of a connection in flight
  timer,                       \* the timers that run
  stale,                       \* a timer that has expired, its handler queued
  buffer,                      \* responses: a buffer and a fresh completer
  taken,                       \* what the last read put into the buffer
  \* the other side: what it sent and nobody has read, the BUSYs, the end
  wire, busies, answered,
  saved,                       \* history: results of this command, by connection
  missed                       \* history: the session ended before m_isworking was set

mainvars == <<main, nattempts, outcome, m_nsucces, m_endpoint>>
flags == <<m_do_start_all_operations, m_isworking>>
states == <<m_statepool, wasconnected>>
server == <<wire, busies, answered>>
connvars == <<socket, op, timer, stale, buffer, taken>>
history == <<saved, missed>>
vars == <<mainvars, flags, states, m_requestpool, thread, connvars, server, history>>

Answers == {"image", "wrong", "fail"}

disconnected(c) == m_statepool[c] = "disconnected"
allConnected == \A c \in Conn : wasconnected[c]

\* Mutant: what the name says.
is_every_alive == socket = Conn
is_all_alive == socket # {}

Init ==
  /\ main = "idle" /\ nattempts = 0 /\ outcome = "none" /\ m_nsucces = 0
  /\ m_endpoint = FALSE
  /\ m_do_start_all_operations = FALSE /\ m_isworking = FALSE
  /\ m_statepool = [c \in Conn |-> "disconnected"]
  /\ wasconnected = [c \in Conn |-> FALSE]
  /\ m_requestpool = {}
  /\ thread = "loop" /\ socket = {} /\ op = [c \in Conn |-> "none"]
  /\ timer = {} /\ stale = {} /\ buffer = {} /\ taken = [c \in Conn |-> <<>>]
  /\ wire = [c \in Conn |-> <<>>] /\ busies = [c \in Conn |-> 0]
  /\ answered = {} /\ saved = {} /\ missed = FALSE

-----------------------------------------------------------------------------
\* The main thread.

\* The user's command, once: commands that follow find the same state.
Command ==
  /\ main = "idle" /\ outcome = "none"
  /\ main' = "attempt" /\ nattempts' = m_max_reconnattempts
  /\ m_nsucces' = 0 /\ saved' = {}
  /\ UNCHANGED <<outcome, m_endpoint, flags, states, m_requestpool, thread, connvars, server, missed>>

\* Mutant: to be connected is success.
ConcludeUncounted(result) ==
  /\ nattempts' = nattempts - 1
  /\ IF ~result /\ nattempts' # 0
     THEN main' = "attempt" /\ UNCHANGED outcome
     ELSE main' = "idle" /\ outcome' = IF result THEN "SUCCESS" ELSE "FAIL"

\* The end of the loop body: again, or the verdict.
Conclude(result) ==
  /\ nattempts' = nattempts - 1
  /\ IF ~result /\ nattempts' # 0
     THEN main' = "attempt" /\ UNCHANGED outcome
     ELSE /\ main' = "idle"
          /\ outcome' = IF result /\ m_nsucces = Cardinality(Conn)
                        THEN "SUCCESS" ELSE "FAIL"

\* ConnectAsync refuses: a connection is not completed, or the address is not
\* resolved - do_resolve then returns a variable it has not set.
AttemptFails ==
  /\ main = "attempt"
  /\ (\E c \in Conn : m_statepool[c] = "connected") \/ ~m_endpoint
  /\ Conclude(FALSE)
  /\ UNCHANGED <<m_nsucces, m_endpoint, flags, states, m_requestpool, thread, connvars, server, history>>

\* ConnectAsync up to its first flag: requests composed, connections marked.
\* The address may stay unresolved (see AttemptFails).
Attempt ==
  /\ main = "attempt"
  /\ \A c \in Conn : m_statepool[c] # "connected"
  /\ m_endpoint' \in {m_endpoint, TRUE}
  /\ m_requestpool' = Conn
  /\ m_statepool' = [c \in Conn |-> "connecting"]
  /\ wasconnected' = [c \in Conn |-> FALSE]
  /\ m_do_start_all_operations' = TRUE
  /\ main' = "started"
  /\ UNCHANGED <<nattempts, outcome, m_nsucces, m_isworking, thread, connvars, server, history>>

SetWorking ==
  /\ main = "started" /\ main' = "waiting"
  /\ m_isworking' = TRUE
  /\ UNCHANGED <<nattempts, outcome, m_nsucces, m_endpoint, m_do_start_all_operations,
                 states, m_requestpool, thread, connvars, server, history>>

\* The loop ends when isWorking() is false.
Waited ==
  /\ main = "waiting" /\ ~m_isworking
  /\ Conclude(allConnected)
  /\ UNCHANGED <<m_nsucces, m_endpoint, flags, states, m_requestpool, thread, connvars, server, history>>

MainStep == AttemptFails \/ Attempt \/ SetWorking \/ Waited

-----------------------------------------------------------------------------
\* The client's thread: Process_iooperations.

do_start_all_operations ==
  /\ thread = "loop" /\ m_do_start_all_operations
  /\ m_do_start_all_operations' = FALSE
  /\ thread' = "polling"
  /\ socket' = Conn /\ buffer' = Conn /\ timer' = Conn
  /\ op' = [c \in Conn |-> "connect"]
  /\ wire' = [c \in Conn |-> <<>>] /\ busies' = [c \in Conn |-> 0] /\ answered' = {}
  /\ UNCHANGED <<mainvars, m_isworking, states, m_requestpool, stale, taken, history>>

\* open throws when there is no socket to be had, and the thread ends.
OpenThrows ==
  /\ thread = "loop" /\ m_do_start_all_operations
  /\ thread' = "dead"
  /\ \E opened \in SUBSET Conn : opened # Conn /\ socket' = opened
  /\ UNCHANGED <<mainvars, flags, states, m_requestpool, op, timer, stale, buffer, taken,
                 server, history>>

\* do_disconnect, in a handler of c.  The operation in flight is aborted; what
\* is left of its handlers comes later (Aborted, StopPolling).
do_disconnect(c) ==
  /\ m_statepool' = [m_statepool EXCEPT ![c] = "disconnected"]
  /\ timer' = timer \ {c}
  /\ m_requestpool' = m_requestpool \ {c}
  /\ buffer' = buffer \ {c}
  /\ socket' = socket \ {c}
  /\ UNCHANGED wasconnected

\* The queue holds the handler of an operation before that of a timer which
\* expired in the same turn; nothing else of c runs in between.
TimerMay(c) == \E expired \in {{}, {c} \cap timer} : stale' = stale \cup expired

Handler(c, kind) == thread = "polling" /\ op[c] = kind /\ c \in socket /\ c \notin stale

OnConnected(c) ==
  /\ Handler(c, "connect") /\ m_endpoint
  /\ m_statepool' = [m_statepool EXCEPT ![c] = "connected"]
  /\ wasconnected' = [wasconnected EXCEPT ![c] = TRUE]
  /\ op' = [op EXCEPT ![c] = "write"]
  /\ timer' = timer \cup {c} /\ TimerMay(c)
  /\ UNCHANGED <<mainvars, flags, m_requestpool, thread, socket, buffer, taken, server, history>>

\* do_connect_all's, do_write's or do_read_bin's operation ends with an error
\* (for a read: of the connection or of the completer).
OperationFails(c) ==
  /\ \E kind \in {"connect", "write", "read"} : Handler(c, kind)
  /\ do_disconnect(c) /\ op' = [op EXCEPT ![c] = "none"]
  /\ UNCHANGED <<mainvars, flags, thread, stale, taken, server, history>>

OnSent(c) ==
  /\ Handler(c, "write")
  /\ op' = [op EXCEPT ![c] = "read"]
  /\ timer' = timer \cup {c} /\ TimerMay(c)
  /\ UNCHANGED <<mainvars, flags, states, m_requestpool, thread, socket, buffer, taken,
                 server, history>>

\* The timer of a connection has expired, for the operation in flight or
\* (stale) for the one before.
OnConnectTimeout(c) ==
  /\ thread = "polling" /\ c \in timer \cup stale /\ op[c] # "received"
  /\ stale' = stale \ {c}
  /\ IF disconnected(c)
     THEN UNCHANGED <<states, m_requestpool, buffer, socket, timer>>
     ELSE do_disconnect(c)
  /\ UNCHANGED <<mainvars, flags, thread, op, taken, server, history>>

\* The handler of an operation that do_disconnect has aborted: OnConnected
\* disconnects again, the others find the state and return.
Aborted(c) ==
  /\ thread = "polling" /\ op[c] # "none" /\ c \notin socket
  /\ op' = [op EXCEPT ![c] = "none"]
  /\ UNCHANGED <<mainvars, flags, states, m_requestpool, thread, socket, timer, stale,
                 buffer, taken, server, history>>

\* The read takes all that is there, and its completer has finished.
ReadCompletes(c) ==
  /\ Handler(c, "read") /\ wire[c] # <<>>
  /\ taken' = [taken EXCEPT ![c] = wire[c]]
  /\ wire' = [wire EXCEPT ![c] = <<>>]
  /\ op' = [op EXCEPT ![c] = "received"]
  /\ UNCHANGED <<mainvars, flags, states, m_requestpool, thread, socket, timer, stale,
                 buffer, busies, answered, history>>

\* OnReceivedBin when more has come since: it reads again with the completer
\* that has finished, which ends the read at once - the bytes stay, and so on.
OnReceivedBinAgain(c) ==
  /\ Handler(c, "received") /\ wire[c] # <<>>
  /\ taken' = [taken EXCEPT ![c] = <<>>]
  /\ op' = [op EXCEPT ![c] = "overrun"]
  /\ timer' = timer \ {c}          \* set and cancelled in each turn
  /\ TimerMay(c)
  /\ UNCHANGED <<mainvars, flags, states, m_requestpool, thread, socket, buffer, server, history>>

\* process_output_data on what was taken: the completer tells the last packet,
\* but a packet with an image is parsed from the start of the buffer.
IsBusy(msgs) == msgs[Len(msgs)] = "busy"
IsGood(msgs) == msgs[1] = "image" /\ Len(msgs) = 1

\* Mutant: the buffer that was taken away is not replaced.
OnReceivedBinBusyNoRefresh(c) ==
  /\ Handler(c, "received") /\ wire[c] = <<>> /\ IsBusy(taken[c])
  /\ op' = [op EXCEPT ![c] = "read"]
  /\ timer' = timer \cup {c} /\ TimerMay(c)
  /\ buffer' = buffer \ {c}
  /\ UNCHANGED <<mainvars, flags, states, m_requestpool, thread, socket, taken, server, history>>

\* BUSY: a new buffer and completer, and the next read.
OnReceivedBinBusy(c) ==
  /\ Handler(c, "received") /\ wire[c] = <<>> /\ IsBusy(taken[c])
  /\ op' = [op EXCEPT ![c] = "read"]
  /\ timer' = timer \cup {c} /\ TimerMay(c)
  /\ buffer' = buffer \cup {c}
  /\ UNCHANGED <<mainvars, flags, states, m_requestpool, thread, socket, taken, server, history>>

\* Anything else ends the session: an image is compared and saved, FAIL and
\* what cannot be parsed are not.
OnReceivedBin(c) ==
  /\ Handler(c, "received") /\ wire[c] = <<>> /\ ~IsBusy(taken[c])
  /\ saved' = IF IsGood(taken[c]) THEN saved \cup {c} ELSE saved
  /\ m_nsucces' = IF IsGood(taken[c]) THEN m_nsucces + 1 ELSE m_nsucces
  /\ do_disconnect(c) /\ op' = [op EXCEPT ![c] = "none"]
  /\ UNCHANGED <<main, nattempts, outcome, m_endpoint, flags, thread, stale, taken, server, missed>>

\* Mutant: the end is not announced.
StopPollingSilently ==
  /\ thread = "polling" /\ ~is_all_alive
  /\ thread' = "loop"
  /\ missed' = (missed \/ main = "started")
  /\ timer' = {} /\ stale' = {} /\ op' = [c \in Conn |-> "none"]
  /\ UNCHANGED <<mainvars, flags, states, m_requestpool, socket, buffer, taken, server, saved>>

\* No socket is open: timers and handlers are run to their end.
StopPolling ==
  /\ thread = "polling" /\ ~is_all_alive
  /\ thread' = "loop" /\ m_isworking' = FALSE
  /\ missed' = (missed \/ main = "started")
  /\ timer' = {} /\ stale' = {} /\ op' = [c \in Conn |-> "none"]
  /\ UNCHANGED <<mainvars, m_do_start_all_operations, states, m_requestpool, socket, buffer,
                 taken, server, saved>>

ThreadStep ==
  \/ do_start_all_operations \/ StopPolling
  \/ \E c \in Conn :
       \/ OnConnected(c) \/ OnSent(c) \/ OnConnectTimeout(c) \/ Aborted(c)
       \/ ReadCompletes(c) \/ OnReceivedBinAgain(c) \/ OnReceivedBinBusy(c)
       \/ OnReceivedBin(c)

-----------------------------------------------------------------------------
\* The server of c has the request and sends BUSY, in the end an answer.
ServerSends(c) ==
  /\ op[c] \in {"read", "received"} /\ c \in socket /\ c \notin answered
  /\ \/ /\ busies[c] < MaxBusy
        /\ busies' = [busies EXCEPT ![c] = @ + 1]
        /\ wire' = [wire EXCEPT ![c] = Append(@, "busy")]
        /\ UNCHANGED answered
     \/ /\ answered' = answered \cup {c}
        /\ \E m \in Answers : wire' = [wire EXCEPT ![c] = Append(@, m)]
        /\ UNCHANGED busies
  /\ UNCHANGED <<mainvars, flags, states, m_requestpool, thread, connvars, history>>

Next ==
  \/ Command \/ MainStep
  \/ ThreadStep \/ OpenThrows \/ \E c \in Conn : OperationFails(c)
  \/ \E c \in Conn : ServerSends(c)

\* Both threads run, and a timer that is not cancelled expires; nothing is
\* asked of the network and of the server.
Spec == Init /\ [][Next]_vars
FairSpec == Spec /\ WF_vars(MainStep) /\ WF_vars(ThreadStep)

-----------------------------------------------------------------------------
TypeOK ==
  /\ main \in {"idle", "attempt", "started", "waiting"}
  /\ nattempts \in 0 .. m_max_reconnattempts
  /\ outcome \in {"none", "SUCCESS", "FAIL"} /\ m_nsucces \in Nat
  /\ m_endpoint \in BOOLEAN /\ m_do_start_all_operations \in BOOLEAN
  /\ m_isworking \in BOOLEAN /\ missed \in BOOLEAN
  /\ m_statepool \in [Conn -> {"disconnected", "connecting", "connected"}]
  /\ wasconnected \in [Conn -> BOOLEAN]
  /\ thread \in {"loop", "polling", "dead"}
  /\ op \in [Conn -> {"none", "connect", "write", "read", "received", "overrun"}]
  /\ m_requestpool \subseteq Conn /\ socket \subseteq Conn /\ timer \subseteq Conn
  /\ stale \subseteq Conn /\ buffer \subseteq Conn /\ answered \subseteq Conn /\ saved \subseteq Conn
  /\ taken \in [Conn -> Seq({"busy"} \cup Answers)]
  /\ wire \in [Conn -> Seq({"busy"} \cup Answers)]
  /\ busies \in [Conn -> 0 .. MaxBusy]

\* The main thread replaces the request buffers and the states of connections
\* that the client's thread writes from and to, with nothing to keep them
\* apart but m_isworking: when it does, no operation is left.
ComposesInQuiet ==
  main \in {"idle", "attempt"} =>
    /\ thread = "loop" /\ socket = {} /\ ~m_do_start_all_operations
    /\ \A c \in Conn : op[c] = "none" /\ disconnected(c)

\* process_output_data takes the buffer away, do_disconnect takes all: an
\* operation in flight on an open socket still has its buffer.
BufferBehindOperation ==
  thread = "polling" =>
    \A c \in socket :
      /\ op[c] \in {"connect", "write"} => c \in m_requestpool
      /\ op[c] \in {"connect", "write", "read", "overrun"} => c \in buffer

\* SUCCESS after a single attempt: every connection has saved its result.
\* (The count is not reset between attempts.)
SuccessIsEarned ==
  outcome = "SUCCESS" /\ nattempts = m_max_reconnattempts - 1 => saved = Conn

\* The three ways in which the main thread waits for ever: the thread has
\* died, has finished before m_isworking was set, or reads in circles.
Overrun == \E c \in Conn : op[c] = "overrun"
\* A command ends with its verdict, whatever the network, the server and the
\* address do - except in those ways.
CommandEnds == main # "idle" ~> (main = "idle" \/ thread = "dead" \/ missed \/ Overrun)

-----------------------------------------------------------------------------
\* The hand-over as Handover has it: the connections, the outcome and the
\* reasons for which a thread moves on are left out.
Phase == IF main = "started" THEN "ordered" ELSE main
HandoverOf == INSTANCE Handover WITH
  phase <- Phase, attempts <- nattempts,
  start <- m_do_start_all_operations, working <- m_isworking,
  polling <- thread = "polling", lost <- thread = "dead"
ImplementsHandover == HandoverOf!Spec
=============================================================================
