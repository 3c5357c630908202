---------------------------- MODULE Client_proofs ----------------------------
(***************************************************************************)
(* The client.  First its two threads, which share buffers and states      *)
(* without a lock: that they keep out of each other's way, and that a      *)
(* SUCCESS is one, for every number of connections, attempts and BUSY      *)
(* messages.  Then the completers that its reads, and those of the server, *)
(* go through: how the packets of a stream lie in the buffer, and that     *)
(* every read ends as Framing wants it, for every stream of packets, cut   *)
(* into any pieces.                                                        *)
(***************************************************************************)
EXTENDS Client, Completer, FiniteSetTheorems, SequenceTheorems,
        WellFoundedInduction, TLAPS

-----------------------------------------------------------------------------
(* The two threads. *)

\* Nothing of an attempt is left.
Quiet ==
  /\ thread = "loop" /\ socket = {} /\ ~m_do_start_all_operations
  /\ \A c \in Conn : op[c] = "none" /\ disconnected(c)

\* The main thread composes when m_isworking has told it that all is quiet.
QuietInv == main \in {"idle", "attempt"} \/ (main = "waiting" /\ ~m_isworking) => Quiet

\* An attempt that is made is one that was left, and has no verdict yet.
AttemptInv == main # "idle" => nattempts # 0 /\ outcome = "none"

\* What the flag and the thread say of the connections.
ConnInv ==
  /\ thread = "polling" => ~m_do_start_all_operations
  /\ thread = "polling" => \A c \in Conn \ socket : disconnected(c)
  /\ thread = "loop" => socket = {} /\ \A c \in Conn : op[c] = "none"
  /\ thread = "loop" /\ m_do_start_all_operations => m_requestpool = Conn
  /\ thread = "loop" /\ ~m_do_start_all_operations => \A c \in Conn : disconnected(c)

BufferInv ==
  thread = "polling" =>
    \A c \in socket :
      /\ op[c] \in {"connect", "write"} => c \in m_requestpool
      /\ op[c] # "none" => c \in buffer

\* In the first attempt the count is that of the results.
CountInv ==
  /\ nattempts = m_max_reconnattempts /\ main # "idle" =>
       /\ m_nsucces = Cardinality(saved)
       /\ thread = "loop" /\ m_do_start_all_operations => saved = {}
       /\ thread = "polling" => saved \cap socket = {}
       /\ main = "attempt" => saved = {}
  /\ SuccessIsEarned

\* TypeOK, in the parts that one prover each is good at.
Flags ==
  /\ m_endpoint \in BOOLEAN /\ m_do_start_all_operations \in BOOLEAN
  /\ m_isworking \in BOOLEAN /\ missed \in BOOLEAN
Marks == wasconnected \in [Conn -> BOOLEAN]
Places ==
  /\ main \in {"idle", "attempt", "started", "waiting"}
  /\ nattempts \in 0 .. m_max_reconnattempts
  /\ outcome \in {"none", "SUCCESS", "FAIL"} /\ m_nsucces \in Nat
  /\ m_statepool \in [Conn -> {"disconnected", "connecting", "connected"}]
  /\ thread \in {"loop", "polling", "dead"}
  /\ op \in [Conn -> {"none", "connect", "write", "read", "received", "overrun"}]
  /\ m_requestpool \subseteq Conn /\ socket \subseteq Conn /\ timer \subseteq Conn
  /\ stale \subseteq Conn /\ buffer \subseteq Conn
  /\ answered \subseteq Conn /\ saved \subseteq Conn
Message == {"busy"} \cup Answers
Wires ==
  /\ taken \in [Conn -> Seq(Message)]
  /\ wire \in [Conn -> Seq(Message)]
  /\ busies \in [Conn -> 0 .. MaxBusy]

IInv == TypeOK /\ QuietInv /\ AttemptInv /\ ConnInv /\ BufferInv /\ CountInv
-----------------------------------------------------------------------------
LEMMA InitIInv == Init => IInv
<1> SUFFICES ASSUME Init PROVE IInv
  OBVIOUS
<1> USE ClientAssumption DEF Init
<1>1. Flags BY Zenon DEF Flags
<1>2. Marks BY Zenon DEF Marks
<1>3. Places /\ Wires BY DEF Places, Wires, Message, Answers
<1>4. TypeOK BY <1>1, <1>2, <1>3 DEF TypeOK, Flags, Marks, Places, Wires, Message
<1>5. QuietInv /\ AttemptInv BY DEF QuietInv, Quiet, AttemptInv, disconnected
<1>6. ConnInv /\ BufferInv BY DEF ConnInv, BufferInv, disconnected
<1>7. CountInv BY DEF CountInv, SuccessIsEarned
<1> QED BY <1>4, <1>5, <1>6, <1>7 DEF IInv

\* The flags stay flags.
LEMMA FlagStep == Flags /\ [Next]_vars => Flags'
<1> SUFFICES ASSUME Flags, [Next]_vars PROVE Flags'
  OBVIOUS
<1> USE ClientAssumption DEF Flags, mainvars, flags, states, server, connvars, history, Handler
<1>1. CASE Command
  BY <1>1, Zenon DEF Command
<1>2. CASE AttemptFails \/ Waited
  BY <1>2, Zenon DEF AttemptFails, Waited, Conclude
<1>3. CASE Attempt
  BY <1>3, Zenon DEF Attempt
<1>4. CASE SetWorking
  BY <1>4, Zenon DEF SetWorking
<1>5. CASE do_start_all_operations
  BY <1>5, Zenon DEF do_start_all_operations
<1>6. CASE OpenThrows
  BY <1>6, Zenon DEF OpenThrows
<1>7. CASE StopPolling
  BY <1>7, Zenon DEF StopPolling, is_all_alive
<1>8. CASE \E c \in Conn : OnConnected(c) \/ OnSent(c)
  BY <1>8, Zenon DEF OnConnected, OnSent, TimerMay
<1>9. CASE \E c \in Conn : OnConnectTimeout(c)
  BY <1>9, Zenon DEF OnConnectTimeout, do_disconnect, disconnected
<1>10. CASE \E c \in Conn : Aborted(c) \/ ReadCompletes(c)
  BY <1>10, Zenon DEF Aborted, ReadCompletes
<1>11. CASE \E c \in Conn : OnReceivedBinAgain(c) \/ OnReceivedBinBusy(c)
  BY <1>11, Zenon DEF OnReceivedBinAgain, OnReceivedBinBusy, TimerMay
<1>12. CASE \E c \in Conn : OnReceivedBin(c)
  BY <1>12, Zenon DEF OnReceivedBin, do_disconnect
<1>13. CASE \E c \in Conn : OperationFails(c)
  BY <1>13, Zenon DEF OperationFails, do_disconnect
<1>14. CASE \E c \in Conn : ServerSends(c)
  BY <1>14, Zenon DEF ServerSends, Answers
<1>15. CASE UNCHANGED vars
  BY <1>15, Zenon DEF vars
<1> QED BY <1>1, <1>2, <1>3, <1>4, <1>5, <1>6, <1>7, <1>8, <1>9, <1>10, <1>11, <1>12, <1>13,
           <1>14, <1>15 DEF Next, MainStep, ThreadStep

\* So do those of the connections.
LEMMA MarkStep == Marks /\ [Next]_vars => Marks'
<1> SUFFICES ASSUME Marks, [Next]_vars PROVE Marks'
  OBVIOUS
<1> USE ClientAssumption DEF Marks, mainvars, flags, states, server, connvars, history, Handler
<1>1. CASE Command
  BY <1>1, Zenon DEF Command
<1>2. CASE AttemptFails \/ Waited
  BY <1>2, Zenon DEF AttemptFails, Waited, Conclude
<1>3. CASE Attempt
  BY <1>3, Zenon DEF Attempt
<1>4. CASE SetWorking
  BY <1>4, Zenon DEF SetWorking
<1>5. CASE do_start_all_operations
  BY <1>5, Zenon DEF do_start_all_operations
<1>6. CASE OpenThrows
  BY <1>6, Zenon DEF OpenThrows
<1>7. CASE StopPolling
  BY <1>7, Zenon DEF StopPolling, is_all_alive
<1>8. CASE \E c \in Conn : OnConnected(c) \/ OnSent(c)
  BY <1>8, Zenon DEF OnConnected, OnSent, TimerMay
<1>9. CASE \E c \in Conn : OnConnectTimeout(c)
  BY <1>9, Zenon DEF OnConnectTimeout, do_disconnect, disconnected
<1>10. CASE \E c \in Conn : Aborted(c) \/ ReadCompletes(c)
  BY <1>10, Zenon DEF Aborted, ReadCompletes
<1>11. CASE \E c \in Conn : OnReceivedBinAgain(c) \/ OnReceivedBinBusy(c)
  BY <1>11, Zenon DEF OnReceivedBinAgain, OnReceivedBinBusy, TimerMay
<1>12. CASE \E c \in Conn : OnReceivedBin(c)
  BY <1>12, Zenon DEF OnReceivedBin, do_disconnect
<1>13. CASE \E c \in Conn : OperationFails(c)
  BY <1>13, Zenon DEF OperationFails, do_disconnect
<1>14. CASE \E c \in Conn : ServerSends(c)
  BY <1>14, Zenon DEF ServerSends, Answers
<1>15. CASE UNCHANGED vars
  BY <1>15, Zenon DEF vars
<1> QED BY <1>1, <1>2, <1>3, <1>4, <1>5, <1>6, <1>7, <1>8, <1>9, <1>10, <1>11, <1>12, <1>13,
           <1>14, <1>15 DEF Next, MainStep, ThreadStep

\* Everybody stays somewhere.
LEMMA PlaceStep == Places /\ AttemptInv /\ [Next]_vars => Places' /\ AttemptInv'
<1> SUFFICES ASSUME Places, AttemptInv, [Next]_vars PROVE Places' /\ AttemptInv'
  OBVIOUS
<1> USE ClientAssumption DEF Places, AttemptInv, mainvars, flags, states, server, connvars,
        history, Handler
<1>1. CASE Command
  BY <1>1 DEF Command
<1>2. CASE AttemptFails \/ Waited
  BY <1>2 DEF AttemptFails, Waited, Conclude
<1>3. CASE Attempt
  BY <1>3 DEF Attempt
<1>4. CASE SetWorking
  BY <1>4 DEF SetWorking
<1>5. CASE do_start_all_operations
  BY <1>5 DEF do_start_all_operations
<1>6. CASE OpenThrows
  BY <1>6 DEF OpenThrows
<1>7. CASE StopPolling
  BY <1>7 DEF StopPolling, is_all_alive
<1>8. CASE \E c \in Conn : OnConnected(c) \/ OnSent(c)
  BY <1>8 DEF OnConnected, OnSent, TimerMay
<1>9. CASE \E c \in Conn : OnConnectTimeout(c)
  BY <1>9 DEF OnConnectTimeout, do_disconnect, disconnected
<1>10. CASE \E c \in Conn : Aborted(c) \/ ReadCompletes(c)
  BY <1>10 DEF Aborted, ReadCompletes
<1>11. CASE \E c \in Conn : OnReceivedBinAgain(c) \/ OnReceivedBinBusy(c)
  BY <1>11 DEF OnReceivedBinAgain, OnReceivedBinBusy, TimerMay
<1>12. CASE \E c \in Conn : OnReceivedBin(c)
  BY <1>12 DEF OnReceivedBin, do_disconnect
<1>13. CASE \E c \in Conn : OperationFails(c)
  BY <1>13 DEF OperationFails, do_disconnect
<1>14. CASE \E c \in Conn : ServerSends(c)
  BY <1>14 DEF ServerSends, Answers
<1>15. CASE UNCHANGED vars
  BY <1>15 DEF vars
<1> QED BY <1>1, <1>2, <1>3, <1>4, <1>5, <1>6, <1>7, <1>8, <1>9, <1>10, <1>11, <1>12, <1>13,
           <1>14, <1>15 DEF Next, MainStep, ThreadStep

\* The wires carry messages.
LEMMA WireStep == Wires /\ [Next]_vars => Wires'
<1> SUFFICES ASSUME Wires, [Next]_vars PROVE Wires'
  OBVIOUS
<1> USE ClientAssumption DEF Wires, mainvars, flags, states, server, connvars, history, Handler
<1>0. <<>> \in Seq(Message)
  OBVIOUS
<1>1. CASE Command
  BY <1>1 DEF Command
<1>2. CASE AttemptFails \/ Waited
  BY <1>2 DEF AttemptFails, Waited, Conclude
<1>3. CASE Attempt
  BY <1>3 DEF Attempt
<1>4. CASE SetWorking
  BY <1>4 DEF SetWorking
<1>5. CASE do_start_all_operations
  BY <1>5 DEF do_start_all_operations
<1>6. CASE OpenThrows
  BY <1>6 DEF OpenThrows
<1>7. CASE StopPolling
  BY <1>7 DEF StopPolling, is_all_alive
<1>8. CASE \E c \in Conn : OnConnected(c) \/ OnSent(c)
  BY <1>8 DEF OnConnected, OnSent, TimerMay
<1>9. CASE \E c \in Conn : OnConnectTimeout(c)
  BY <1>9 DEF OnConnectTimeout, do_disconnect, disconnected
<1>10. CASE \E c \in Conn : Aborted(c) \/ ReadCompletes(c)
  <2> PICK c \in Conn : Aborted(c) \/ ReadCompletes(c) BY <1>10
  <2>1. wire[c] \in Seq(Message) OBVIOUS
  <2>2. taken' = taken \/ taken' = [taken EXCEPT ![c] = wire[c]]
    BY DEF Aborted, ReadCompletes
  <2>3. wire' = wire \/ wire' = [wire EXCEPT ![c] = <<>>]
    BY DEF Aborted, ReadCompletes
  <2>4. busies' = busies BY DEF Aborted, ReadCompletes
  <2> QED BY <1>0, <2>1, <2>2, <2>3, <2>4
<1>11. CASE \E c \in Conn : OnReceivedBinAgain(c) \/ OnReceivedBinBusy(c)
  <2> PICK c \in Conn : OnReceivedBinAgain(c) \/ OnReceivedBinBusy(c) BY <1>11
  <2>1. taken' = taken \/ taken' = [taken EXCEPT ![c] = <<>>]
    BY DEF OnReceivedBinAgain, OnReceivedBinBusy
  <2>2. wire' = wire /\ busies' = busies BY DEF OnReceivedBinAgain, OnReceivedBinBusy
  <2> QED BY <1>0, <2>1, <2>2
<1>12. CASE \E c \in Conn : OnReceivedBin(c)
  BY <1>12 DEF OnReceivedBin, do_disconnect
<1>13. CASE \E c \in Conn : OperationFails(c)
  BY <1>13 DEF OperationFails, do_disconnect
<1>14. CASE \E c \in Conn : ServerSends(c)
  <2> PICK c \in Conn : ServerSends(c) BY <1>14
  <2>1. \A m \in Message : Append(wire[c], m) \in Seq(Message)
    <3>1. wire[c] \in Seq(Message) OBVIOUS
    <3> QED BY <3>1, AppendProperties
  <2>4. \E m \in Message : wire' = [wire EXCEPT ![c] = Append(wire[c], m)]
    <3>1. "busy" \in Message /\ Answers \subseteq Message BY DEF Message
    <3>2. \/ wire' = [wire EXCEPT ![c] = Append(wire[c], "busy")]
          \/ \E m \in Answers : wire' = [wire EXCEPT ![c] = Append(wire[c], m)]
      BY DEF ServerSends
    <3> QED BY <3>1, <3>2
  <2>2. busies' \in [Conn -> 0 .. MaxBusy]
    <3>1. busies[c] \in 0 .. MaxBusy OBVIOUS
    <3>2. busies' = busies \/ (busies[c] < MaxBusy /\ busies' = [busies EXCEPT ![c] = busies[c] + 1])
      BY DEF ServerSends
    <3>3. busies[c] < MaxBusy => busies[c] + 1 \in 0 .. MaxBusy
      BY <3>1
    <3> QED BY <3>2, <3>3
  <2>3. taken' = taken BY DEF ServerSends
  <2> QED BY <2>1, <2>2, <2>3, <2>4
<1>15. CASE UNCHANGED vars
  BY <1>15 DEF vars
<1> QED BY <1>1, <1>2, <1>3, <1>4, <1>5, <1>6, <1>7, <1>8, <1>9, <1>10, <1>11, <1>12, <1>13,
           <1>14, <1>15 DEF Next, MainStep, ThreadStep

LEMMA TypeStep == TypeOK /\ AttemptInv /\ [Next]_vars => TypeOK' /\ AttemptInv'
BY FlagStep, MarkStep, PlaceStep, WireStep DEF TypeOK, Flags, Marks, Places, Wires, Message

\* A connection in work belongs to the thread.
LEMMA ConnStep == Places /\ QuietInv /\ ConnInv /\ [Next]_vars => ConnInv'
<1> SUFFICES ASSUME Places, QuietInv, ConnInv, [Next]_vars PROVE ConnInv'
  OBVIOUS
<1> USE ClientAssumption DEF Places, QuietInv, Quiet, ConnInv, disconnected, mainvars, flags,
        states, server, connvars, history, Handler
<1>1. CASE Command
  BY <1>1 DEF Command
<1>2. CASE AttemptFails \/ Waited
  BY <1>2 DEF AttemptFails, Waited, Conclude
<1>3. CASE Attempt
  BY <1>3 DEF Attempt
<1>4. CASE SetWorking
  BY <1>4 DEF SetWorking
<1>5. CASE do_start_all_operations
  BY <1>5 DEF do_start_all_operations
<1>6. CASE OpenThrows
  BY <1>6 DEF OpenThrows
<1>7. CASE StopPolling
  BY <1>7 DEF StopPolling, is_all_alive
<1>8. CASE \E c \in Conn : OnConnected(c) \/ OnSent(c)
  BY <1>8 DEF OnConnected, OnSent, TimerMay
<1>9. CASE \E c \in Conn : OnConnectTimeout(c)
  BY <1>9 DEF OnConnectTimeout, do_disconnect, disconnected
<1>10. CASE \E c \in Conn : Aborted(c) \/ ReadCompletes(c)
  BY <1>10 DEF Aborted, ReadCompletes
<1>11. CASE \E c \in Conn : OnReceivedBinAgain(c) \/ OnReceivedBinBusy(c)
  BY <1>11 DEF OnReceivedBinAgain, OnReceivedBinBusy, TimerMay
<1>12. CASE \E c \in Conn : OnReceivedBin(c)
  BY <1>12 DEF OnReceivedBin, do_disconnect
<1>13. CASE \E c \in Conn : OperationFails(c)
  BY <1>13 DEF OperationFails, do_disconnect
<1>14. CASE \E c \in Conn : ServerSends(c)
  BY <1>14 DEF ServerSends, Answers
<1>15. CASE UNCHANGED vars
  BY <1>15 DEF vars
<1> QED BY <1>1, <1>2, <1>3, <1>4, <1>5, <1>6, <1>7, <1>8, <1>9, <1>10, <1>11, <1>12, <1>13,
           <1>14, <1>15 DEF Next, MainStep, ThreadStep

\* Only the end of the session clears m_isworking.
LEMMA QuietStep == Flags /\ Places /\ ConnInv /\ QuietInv /\ [Next]_vars => QuietInv'
<1> SUFFICES ASSUME Flags, Places, ConnInv, QuietInv, [Next]_vars PROVE QuietInv'
  OBVIOUS
<1> USE ClientAssumption DEF Flags, Places, ConnInv, QuietInv, Quiet, disconnected,
        is_all_alive, mainvars, flags, states, server, connvars, history, Handler
<1>1. CASE Command
  BY <1>1 DEF Command
<1>2. CASE AttemptFails \/ Waited
  BY <1>2 DEF AttemptFails, Waited, Conclude
<1>3. CASE Attempt
  BY <1>3 DEF Attempt
<1>4. CASE SetWorking
  BY <1>4 DEF SetWorking
<1>5. CASE do_start_all_operations
  BY <1>5 DEF do_start_all_operations
<1>6. CASE OpenThrows
  BY <1>6 DEF OpenThrows
<1>7. CASE StopPolling
  BY <1>7 DEF StopPolling, is_all_alive
<1>8. CASE \E c \in Conn : OnConnected(c) \/ OnSent(c)
  BY <1>8 DEF OnConnected, OnSent, TimerMay
<1>9. CASE \E c \in Conn : OnConnectTimeout(c)
  BY <1>9 DEF OnConnectTimeout, do_disconnect, disconnected
<1>10. CASE \E c \in Conn : Aborted(c) \/ ReadCompletes(c)
  BY <1>10 DEF Aborted, ReadCompletes
<1>11. CASE \E c \in Conn : OnReceivedBinAgain(c) \/ OnReceivedBinBusy(c)
  BY <1>11 DEF OnReceivedBinAgain, OnReceivedBinBusy, TimerMay
<1>12. CASE \E c \in Conn : OnReceivedBin(c)
  BY <1>12 DEF OnReceivedBin, do_disconnect
<1>13. CASE \E c \in Conn : OperationFails(c)
  BY <1>13 DEF OperationFails, do_disconnect
<1>14. CASE \E c \in Conn : ServerSends(c)
  BY <1>14 DEF ServerSends, Answers
<1>15. CASE UNCHANGED vars
  BY <1>15 DEF vars
<1> QED BY <1>1, <1>2, <1>3, <1>4, <1>5, <1>6, <1>7, <1>8, <1>9, <1>10, <1>11, <1>12, <1>13,
           <1>14, <1>15 DEF Next, MainStep, ThreadStep

\* The buffers stay while the socket is open.
LEMMA BufferStep == Places /\ QuietInv /\ ConnInv /\ BufferInv /\ [Next]_vars => BufferInv'
<1> SUFFICES ASSUME Places, QuietInv, ConnInv, BufferInv, [Next]_vars PROVE BufferInv'
  OBVIOUS
<1> USE ClientAssumption DEF Places, QuietInv, Quiet, ConnInv, BufferInv, mainvars, flags,
        states, server, connvars, history, Handler
<1>1. CASE Command
  BY <1>1 DEF Command
<1>2. CASE AttemptFails \/ Waited
  BY <1>2 DEF AttemptFails, Waited, Conclude
<1>3. CASE Attempt
  BY <1>3 DEF Attempt
<1>4. CASE SetWorking
  BY <1>4 DEF SetWorking
<1>5. CASE do_start_all_operations
  BY <1>5 DEF do_start_all_operations
<1>6. CASE OpenThrows
  BY <1>6 DEF OpenThrows
<1>7. CASE StopPolling
  BY <1>7 DEF StopPolling, is_all_alive
<1>8. CASE \E c \in Conn : OnConnected(c) \/ OnSent(c)
  BY <1>8 DEF OnConnected, OnSent, TimerMay
<1>9. CASE \E c \in Conn : OnConnectTimeout(c)
  BY <1>9 DEF OnConnectTimeout, do_disconnect, disconnected
<1>10. CASE \E c \in Conn : Aborted(c) \/ ReadCompletes(c)
  BY <1>10 DEF Aborted, ReadCompletes
<1>11. CASE \E c \in Conn : OnReceivedBinAgain(c) \/ OnReceivedBinBusy(c)
  BY <1>11 DEF OnReceivedBinAgain, OnReceivedBinBusy, TimerMay
<1>12. CASE \E c \in Conn : OnReceivedBin(c)
  BY <1>12 DEF OnReceivedBin, do_disconnect
<1>13. CASE \E c \in Conn : OperationFails(c)
  BY <1>13 DEF OperationFails, do_disconnect
<1>14. CASE \E c \in Conn : ServerSends(c)
  BY <1>14 DEF ServerSends, Answers
<1>15. CASE UNCHANGED vars
  BY <1>15 DEF vars
<1> QED BY <1>1, <1>2, <1>3, <1>4, <1>5, <1>6, <1>7, <1>8, <1>9, <1>10, <1>11, <1>12, <1>13,
           <1>14, <1>15 DEF Next, MainStep, ThreadStep

\* A connection that has saved its result is closed.
LEMMA CountStep ==
  Places /\ AttemptInv /\ QuietInv /\ ConnInv /\ CountInv /\ [Next]_vars => CountInv'
<1> SUFFICES ASSUME Places, AttemptInv, QuietInv, ConnInv, CountInv, [Next]_vars PROVE CountInv'
  OBVIOUS
<1> USE ClientAssumption DEF Places, AttemptInv, QuietInv, Quiet, ConnInv, CountInv,
        SuccessIsEarned, mainvars, flags, states, server, connvars, history, Handler
<1>1. CASE Command
  BY <1>1, FS_EmptySet DEF Command
<1>2. CASE AttemptFails \/ Waited
  <2>1. Cardinality(saved) = Cardinality(Conn) => saved = Conn
    BY FS_Subset
  <2> QED BY <1>2, <2>1, FS_EmptySet DEF AttemptFails, Waited, Conclude
<1>3. CASE Attempt
  BY <1>3 DEF Attempt
<1>4. CASE SetWorking
  BY <1>4 DEF SetWorking
<1>5. CASE do_start_all_operations
  BY <1>5 DEF do_start_all_operations
<1>6. CASE OpenThrows
  BY <1>6 DEF OpenThrows
<1>7. CASE StopPolling
  BY <1>7 DEF StopPolling, is_all_alive
<1>8. CASE \E c \in Conn : OnConnected(c) \/ OnSent(c)
  BY <1>8 DEF OnConnected, OnSent, TimerMay
<1>9. CASE \E c \in Conn : OnConnectTimeout(c)
  BY <1>9 DEF OnConnectTimeout, do_disconnect, disconnected
<1>10. CASE \E c \in Conn : Aborted(c) \/ ReadCompletes(c)
  BY <1>10 DEF Aborted, ReadCompletes
<1>11. CASE \E c \in Conn : OnReceivedBinAgain(c) \/ OnReceivedBinBusy(c)
  BY <1>11 DEF OnReceivedBinAgain, OnReceivedBinBusy, TimerMay
<1>12. CASE \E c \in Conn : OnReceivedBin(c)
  <2> PICK c \in Conn : OnReceivedBin(c) BY <1>12
  <2>1. IsFiniteSet(saved) BY FS_Subset
  <2>2. c \notin saved => Cardinality(saved \cup {c}) = Cardinality(saved) + 1
    BY <2>1, FS_AddElement
  <2>3. main # "idle" /\ main # "attempt" /\ outcome = "none"
    BY DEF OnReceivedBin
  <2> QED BY <2>2, <2>3 DEF OnReceivedBin, do_disconnect
<1>13. CASE \E c \in Conn : OperationFails(c)
  BY <1>13 DEF OperationFails, do_disconnect
<1>14. CASE \E c \in Conn : ServerSends(c)
  BY <1>14 DEF ServerSends, Answers
<1>15. CASE UNCHANGED vars
  BY <1>15 DEF vars
<1> QED BY <1>1, <1>2, <1>3, <1>4, <1>5, <1>6, <1>7, <1>8, <1>9, <1>10, <1>11, <1>12, <1>13,
           <1>14, <1>15 DEF Next, MainStep, ThreadStep

LEMMA NextIInv == IInv /\ [Next]_vars => IInv'
<1> SUFFICES ASSUME IInv, [Next]_vars PROVE IInv'
  OBVIOUS
<1>1. Flags /\ Places BY DEF IInv, TypeOK, Flags, Places
<1> QED BY <1>1, TypeStep, ConnStep, QuietStep, BufferStep, CountStep DEF IInv

THEOREM Invariance == Spec => []IInv
BY InitIInv, NextIInv, PTL DEF Spec

-----------------------------------------------------------------------------
\* Types.
THEOREM Spec_TypeOK == Spec => []TypeOK
BY Invariance, PTL DEF IInv

\* The main thread composes while nothing of an attempt is left.
THEOREM Spec_ComposesInQuiet == Spec => []ComposesInQuiet
<1>1. IInv => ComposesInQuiet
  BY DEF IInv, QuietInv, Quiet, ComposesInQuiet
<1> QED BY <1>1, Invariance, PTL

\* An operation in flight on an open socket has its buffers.
THEOREM Spec_BufferBehindOperation == Spec => []BufferBehindOperation
<1>1. IInv => BufferBehindOperation
  BY DEF IInv, BufferInv, BufferBehindOperation
<1> QED BY <1>1, Invariance, PTL

\* SUCCESS in the first attempt: every connection has saved its result.
THEOREM Spec_SuccessIsEarned == Spec => []SuccessIsEarned
BY Invariance, PTL DEF IInv, CountInv

\* m_isworking is set for the wait alone.
WorkingInv == m_isworking => main = "waiting"

\* A step of the client is one of the hand-over, or leaves it alone.
LEMMA HandoverStep ==
  IInv /\ WorkingInv /\ [Next]_vars
  => WorkingInv' /\ [HandoverOf!Next]_(HandoverOf!handover)
<1> SUFFICES ASSUME IInv, WorkingInv, [Next]_vars
             PROVE  WorkingInv' /\ (HandoverOf!Next \/ UNCHANGED HandoverOf!handover)
  OBVIOUS
<1>0. Flags /\ Places /\ ConnInv /\ QuietInv /\ AttemptInv
  BY DEF IInv, TypeOK, Flags, Places
<1> DEFINE Same == UNCHANGED <<main, nattempts, m_do_start_all_operations, m_isworking, thread>>
<1>1. ASSUME Same PROVE WorkingInv' /\ UNCHANGED HandoverOf!handover
  BY <1>1 DEF WorkingInv, HandoverOf!handover, HandoverOf!flags, Phase
<1> HIDE DEF Same
<1> USE ClientAssumption
    DEF WorkingInv, Phase, HandoverOf!handover, HandoverOf!flags, HandoverOf!Next,
        mainvars, flags
<1>2. CASE Command
  BY <1>2 DEF Command, HandoverOf!Command
<1>3. CASE AttemptFails
  BY <1>0, <1>3 DEF AttemptFails, Conclude, Places, HandoverOf!Refused, HandoverOf!Conclude
<1>4. CASE Attempt
  <2>1. ~m_do_start_all_operations /\ thread = "loop" /\ ~m_isworking
    BY <1>0, <1>4 DEF Attempt, QuietInv, Quiet
  <2> QED BY <1>4, <2>1 DEF Attempt, HandoverOf!Order
<1>5. CASE SetWorking
  BY <1>5 DEF SetWorking, HandoverOf!SetWorking
<1>6. CASE Waited
  <2>1. /\ main = "waiting" /\ ~m_isworking /\ nattempts' = nattempts - 1
        /\ \E again \in BOOLEAN :
             main' = IF again /\ nattempts' # 0 THEN "attempt" ELSE "idle"
        /\ UNCHANGED <<flags, thread>>
    BY <1>6 DEF Waited, Conclude
  <2> QED BY <2>1 DEF HandoverOf!Waited, HandoverOf!Conclude
<1>7. CASE do_start_all_operations
  BY <1>7 DEF do_start_all_operations, HandoverOf!Poll
<1>8. CASE OpenThrows
  BY <1>8 DEF OpenThrows, HandoverOf!Ends
<1>9. CASE StopPolling
  <2>1. main \in {"started", "waiting"}
    BY <1>0, <1>9 DEF StopPolling, QuietInv, Quiet, Places
  <2> QED BY <1>9, <2>1 DEF StopPolling, HandoverOf!StopPolling
<1>10. CASE \E c \in Conn : \/ OnConnected(c) \/ OnSent(c) \/ OnConnectTimeout(c)
                            \/ Aborted(c) \/ ReadCompletes(c)
  BY <1>1, <1>10
     DEF Same, OnConnected, OnSent, OnConnectTimeout, Aborted, ReadCompletes
<1>11. CASE \E c \in Conn : \/ OnReceivedBinAgain(c) \/ OnReceivedBinBusy(c)
                            \/ OnReceivedBin(c) \/ OperationFails(c) \/ ServerSends(c)
  BY <1>1, <1>11
     DEF Same, OnReceivedBinAgain, OnReceivedBinBusy, OnReceivedBin, OperationFails, ServerSends
<1>12. CASE UNCHANGED vars
  BY <1>1, <1>12 DEF Same, vars
<1> QED BY <1>2, <1>3, <1>4, <1>5, <1>6, <1>7, <1>8, <1>9, <1>10, <1>11, <1>12
        DEF Next, MainStep, ThreadStep

\* With any number of connections, the client's two threads hand each attempt
\* over and back as Handover says.
THEOREM Spec_ImplementsHandover == Spec => ImplementsHandover
<1>1. Init => HandoverOf!Init /\ WorkingInv
  BY DEF Init, HandoverOf!Init, Phase, WorkingInv
<1> QED BY <1>1, HandoverStep, Invariance, PTL
        DEF Spec, ImplementsHandover, HandoverOf!Spec

-----------------------------------------------------------------------------
\* What each thread can do next.
MainGoes == main \in {"attempt", "started"} \/ (main = "waiting" /\ ~m_isworking)
ThreadGoes ==
  \/ thread = "loop" /\ m_do_start_all_operations
  \/ /\ thread = "polling"
     /\ \/ socket = {}
        \/ \E c \in Conn : op[c] = "received" \/ c \in timer \cup stale

\* The safety half of CommandEnds: while a command is under way one of the
\* threads can go on, except in the three ways.
NoDeadlock == main # "idle" => MainGoes \/ ThreadGoes \/ thread = "dead" \/ missed \/ Overrun

\* A wait has a session ahead or in work, and an operation on an open socket
\* has a timer that runs; one that has just completed has none queued.
AheadInv ==
  /\ main = "started" \/ (main = "waiting" /\ m_isworking)
     => thread # "loop" \/ m_do_start_all_operations \/ missed
  /\ thread = "polling" => \A c \in socket : op[c] # "overrun" => op[c] # "none" /\ c \in timer
  /\ \A c \in Conn : op[c] = "received" => c \notin stale

LEMMA AheadStep == Flags /\ Places /\ ConnInv /\ QuietInv /\ AheadInv /\ [Next]_vars => AheadInv'
<1> SUFFICES ASSUME Flags, Places, ConnInv, QuietInv, AheadInv, [Next]_vars PROVE AheadInv'
  OBVIOUS
<1> USE ClientAssumption DEF Flags, Places, ConnInv, QuietInv, Quiet, AheadInv, disconnected,
        is_all_alive, mainvars, flags, states, server, connvars, history, Handler
<1>1. CASE Command
  BY <1>1 DEF Command
<1>2. CASE AttemptFails \/ Waited
  BY <1>2 DEF AttemptFails, Waited, Conclude
<1>3. CASE Attempt
  BY <1>3 DEF Attempt
<1>4. CASE SetWorking
  BY <1>4 DEF SetWorking
<1>5. CASE do_start_all_operations
  BY <1>5 DEF do_start_all_operations
<1>6. CASE OpenThrows
  BY <1>6 DEF OpenThrows
<1>7. CASE StopPolling
  BY <1>7 DEF StopPolling
<1>8. CASE \E c \in Conn : OnConnected(c) \/ OnSent(c)
  BY <1>8 DEF OnConnected, OnSent, TimerMay
<1>9. CASE \E c \in Conn : OnConnectTimeout(c)
  BY <1>9 DEF OnConnectTimeout, do_disconnect
<1>10. CASE \E c \in Conn : Aborted(c) \/ ReadCompletes(c)
  BY <1>10 DEF Aborted, ReadCompletes
<1>11. CASE \E c \in Conn : OnReceivedBinAgain(c) \/ OnReceivedBinBusy(c)
  BY <1>11 DEF OnReceivedBinAgain, OnReceivedBinBusy, TimerMay
<1>12. CASE \E c \in Conn : OnReceivedBin(c)
  BY <1>12 DEF OnReceivedBin, do_disconnect
<1>13. CASE \E c \in Conn : OperationFails(c)
  BY <1>13 DEF OperationFails, do_disconnect
<1>14. CASE \E c \in Conn : ServerSends(c)
  BY <1>14 DEF ServerSends, Answers
<1>15. CASE UNCHANGED vars
  BY <1>15 DEF vars
<1> QED BY <1>1, <1>2, <1>3, <1>4, <1>5, <1>6, <1>7, <1>8, <1>9, <1>10, <1>11, <1>12, <1>13,
           <1>14, <1>15 DEF Next, MainStep, ThreadStep

\* A waiting command is given up only in the three ways, with any number of
\* connections, attempts and BUSY messages.
THEOREM Spec_NoDeadlock == Spec => []NoDeadlock
<1>1. Init => AheadInv
  BY DEF Init, AheadInv
<1>2. IInv /\ AheadInv /\ [Next]_vars => AheadInv'
  BY AheadStep DEF IInv, TypeOK, Flags, Places
<1>3. IInv /\ AheadInv => NoDeadlock
  <2> SUFFICES ASSUME TypeOK, AheadInv, main # "idle", ~MainGoes, thread = "polling",
                      ~Overrun, socket # {}
               PROVE  \E c \in Conn : op[c] = "received" \/ c \in timer \cup stale
    BY DEF IInv, TypeOK, NoDeadlock, AheadInv, MainGoes, ThreadGoes
  <2>1. PICK c \in socket : c \in Conn BY DEF TypeOK
  <2> QED BY <2>1 DEF AheadInv, Overrun
<1> QED BY <1>1, <1>2, <1>3, Invariance, PTL DEF Spec

-----------------------------------------------------------------------------
(* The stream. *)

\* Any set of numbers has a least one: what inductions over data rest on.
LEMMA Least ==
  ASSUME NEW T \in SUBSET Nat, T # {}
  PROVE  \E m \in T : \A n \in T : m <= n
<1> DEFINE R == OpToRel(<, Nat)
<1>1. \E x \in T : \A y \in T : ~ (<<y, x>> \in R)
  <2>1. IsWellFoundedOn(R, Nat) BY NatLessThanWellFounded
  <2> HIDE DEF R
  <2> QED BY <2>1, WFMin, Zenon
<1>2. ASSUME NEW i \in Nat, NEW j \in Nat, ~ (<<j, i>> \in R) PROVE i <= j
  BY <1>2 DEF OpToRel
<1> HIDE DEF R
<1> QED BY <1>1, <1>2

-----------------------------------------------------------------------------
\* How many cells a packet has.
Size(p) == IF p.kind = "bin" THEN header_size + p.size + crc_size ELSE p.size + http_lng

LEMMA CopiesType ==
  \A n \in Nat, c \in Nat : /\ Copies(n, c) \in Seq(Nat) /\ Len(Copies(n, c)) = n
                           /\ \A i \in 1 .. n : Copies(n, c)[i] = c
BY IsASeq DEF Copies

\* u is s, and then t.
Joins(s, t, u) ==
  /\ u \in Seq(Nat) /\ Len(u) = Len(s) + Len(t)
  /\ \A i \in 1 .. Len(s) : u[i] = s[i]
  /\ \A i \in 1 .. Len(t) : u[Len(s) + i] = t[i]

LEMMA Concatenation ==
  \A s, t \in Seq(Nat) : Joins(s, t, s \o t)
<1> TAKE s, t \in Seq(Nat)
<1>1. /\ s \o t \in Seq(Nat) /\ Len(s \o t) = Len(s) + Len(t)
      /\ \A i \in 1 .. Len(s) + Len(t) :
           (s \o t)[i] = IF i <= Len(s) THEN s[i] ELSE t[i - Len(s)]
  BY ConcatProperties
<1>2. Len(s) \in Nat /\ Len(t) \in Nat OBVIOUS
<1> QED BY <1>1, <1>2 DEF Joins

\* The cells of a packet as they depend on numbers only.
Binary(n, crc) == Copies(sig_size, SigCell) \o <<n>> \o Copies(n, DataCell) \o <<crc>>
Text(n) == Copies(n, TextCell) \o Copies(http_lng, TermCell)

\* What a reader finds in the cells of a binary packet.
IsBinary(c, n, crc) ==
  /\ c \in Seq(Nat) /\ Len(c) = header_size + n + crc_size
  /\ \A i \in 1 .. sig_size : c[i] = SigCell
  /\ c[header_size] = n
  /\ \A i \in 1 .. n : c[header_size + i] = DataCell
  /\ c[header_size + n + crc_size] = crc

LEMMA BinaryCells ==
  \A n, crc \in Nat : IsBinary(Binary(n, crc), n, crc)
<1> SUFFICES ASSUME NEW n \in Nat, NEW crc \in Nat, NEW c, c = Binary(n, crc)
             PROVE  IsBinary(c, n, crc)
  OBVIOUS
<1> USE PacketsAssumption DEF header_size, length_size, crc_size
<1> DEFINE s == Copies(sig_size, SigCell)
           d == Copies(n, DataCell)
           l == <<n>>
           e == <<crc>>
<1>1. s \in Seq(Nat) /\ Len(s) = sig_size /\ \A i \in 1 .. sig_size : s[i] = SigCell
  BY CopiesType DEF SigCell
<1>2. d \in Seq(Nat) /\ Len(d) = n /\ \A i \in 1 .. n : d[i] = DataCell
  BY CopiesType DEF DataCell
<1>3. /\ l \in Seq(Nat) /\ Len(l) = 1 /\ l[1] = n
      /\ e \in Seq(Nat) /\ Len(e) = 1 /\ e[1] = crc
  OBVIOUS
<1> DEFINE u == s \o l
           v == u \o d
<1>4. c = v \o e BY DEF Binary
<1> HIDE DEF s, d, l, e
<1>5. Joins(s, l, u) BY <1>1, <1>3, Concatenation
<1> HIDE DEF u
<1>6. /\ u \in Seq(Nat) /\ Len(u) = sig_size + 1
      /\ \A i \in 1 .. sig_size : u[i] = SigCell
      /\ u[sig_size + 1] = n
  BY <1>1, <1>3, <1>5 DEF Joins
<1>7. Joins(u, d, v) BY <1>2, <1>6, Concatenation
<1> HIDE DEF v
<1>8. /\ v \in Seq(Nat) /\ Len(v) = sig_size + 1 + n
      /\ \A i \in 1 .. sig_size + 1 : v[i] = u[i]
      /\ \A i \in 1 .. n : v[sig_size + 1 + i] = DataCell
  BY <1>2, <1>6, <1>7 DEF Joins
<1>9. Joins(v, e, c) BY <1>3, <1>4, <1>8, Concatenation
<1>10. /\ c \in Seq(Nat) /\ Len(c) = sig_size + 1 + n + 1
       /\ \A i \in 1 .. sig_size + 1 + n : c[i] = v[i]
  BY <1>3, <1>8, <1>9 DEF Joins
<1>11. c[sig_size + 1 + n + 1] = crc
  <2>1. 1 \in 1 .. Len(e) BY <1>3
  <2> QED BY <1>3, <1>8, <1>9, <2>1 DEF Joins
<1>12. ASSUME NEW i \in 1 .. sig_size + 1 PROVE c[i] = u[i]
  <2>1. i \in 1 .. sig_size + 1 + n OBVIOUS
  <2>2. c[i] = v[i] BY <1>10, <2>1
  <2>3. v[i] = u[i] BY <1>8
  <2> QED BY <2>2, <2>3
<1>13. ASSUME NEW i \in 1 .. n PROVE c[sig_size + 1 + i] = DataCell
  <2>1. sig_size + 1 + i \in 1 .. sig_size + 1 + n OBVIOUS
  <2> QED BY <1>8, <1>10, <2>1
<1> QED BY <1>6, <1>10, <1>11, <1>12, <1>13 DEF IsBinary

LEMMA TextCells ==
  ASSUME NEW n \in Nat, NEW c, c = Text(n)
  PROVE  /\ c \in Seq(Nat) /\ Len(c) = n + http_lng
         /\ \A i \in 1 .. n : c[i] = TextCell
         /\ \A i \in 1 .. http_lng : c[n + i] = TermCell
<1> DEFINE s == Copies(n, TextCell)
           e == Copies(http_lng, TermCell)
<1>1. s \in Seq(Nat) /\ Len(s) = n /\ \A i \in 1 .. n : s[i] = TextCell
  BY CopiesType DEF TextCell
<1>2. /\ e \in Seq(Nat) /\ Len(e) = http_lng
      /\ \A i \in 1 .. http_lng : e[i] = TermCell
  BY CopiesType, PacketsAssumption DEF TermCell
<1> HIDE DEF s, e
<1>3. Joins(s, e, c)
  <2>1. c = s \o e BY DEF s, e, Text
  <2> QED BY <1>1, <1>2, <2>1, Concatenation
<1>4. /\ c \in Seq(Nat) /\ Len(c) = n + http_lng
      /\ \A i \in 1 .. n : c[i] = s[i]
      /\ \A i \in 1 .. http_lng : c[n + i] = e[i]
  <2>1. Len(s) = n /\ Len(e) = http_lng BY <1>1, <1>2
  <2> QED BY <1>3, <2>1, Zenon DEF Joins
<1> QED BY <1>1, <1>2, <1>4

\* What a reader finds in a packet.
LEMMA PacketCells ==
  \A p \in Packet :
    /\ Cells(p) \in Seq(Nat) /\ Len(Cells(p)) = Size(p) /\ Size(p) \in Nat
    /\ sig_size <= Size(p)
    /\ p.kind = "bin" =>
         /\ Size(p) = header_size + p.size + crc_size
         /\ \A i \in 1 .. sig_size : Cells(p)[i] = SigCell
         /\ Cells(p)[header_size] = p.size
         /\ \A i \in 1 .. p.size : Cells(p)[header_size + i] = DataCell
         /\ Cells(p)[Size(p)] = crc_of(p.size, p.good)
    /\ p.kind = "text" =>
         /\ Size(p) = p.size + http_lng
         /\ \A i \in 1 .. p.size : Cells(p)[i] = TextCell
         /\ \A i \in 1 .. http_lng : Cells(p)[p.size + i] = TermCell
<1> TAKE p \in Packet
<1> DEFINE n == p.size
           good == p.good
<1>1. n \in Nat /\ p.kind \in {"bin", "text"} BY DEF Packet
<1>2. p.kind = "bin" => Cells(p) = Binary(n, crc_of(n, good))
  BY DEF Cells, make_packet, Binary
<1>3. p.kind = "text" => Cells(p) = Text(n)
  BY DEF Cells, text_packet, Text
<1>4. Size(p) = IF p.kind = "bin" THEN header_size + n + crc_size ELSE n + http_lng
  BY DEF Size
<1>5. crc_of(n, good) \in Nat BY DEF crc_of, BadCell, CrcCell, Zero
<1>6. header_size = sig_size + 1 /\ crc_size = 1 BY DEF header_size, length_size, crc_size
<1> HIDE DEF n, good
<1>7. CASE p.kind = "bin"
  <2>1. /\ Cells(p) \in Seq(Nat) /\ Len(Cells(p)) = header_size + n + crc_size
        /\ \A i \in 1 .. sig_size : Cells(p)[i] = SigCell
        /\ Cells(p)[header_size] = n
        /\ \A i \in 1 .. n : Cells(p)[header_size + i] = DataCell
        /\ Cells(p)[header_size + n + crc_size] = crc_of(n, good)
    <3>1. IsBinary(Binary(n, crc_of(n, good)), n, crc_of(n, good))
      BY <1>1, <1>5, BinaryCells
    <3>2. IsBinary(Cells(p), n, crc_of(n, good)) BY <1>2, <1>7, <3>1
    <3> QED BY <3>2 DEF IsBinary
  <2>2. Size(p) = header_size + n + crc_size BY <1>4, <1>7
  <2>3. Size(p) \in Nat /\ sig_size <= Size(p) BY <1>1, <1>6, <2>2, PacketsAssumption
  <2>4. p.kind # "text" BY <1>7
  <2> QED BY <2>1, <2>2, <2>3, <2>4 DEF n, good
<1>8. CASE p.kind = "text"
  <2>1. /\ Cells(p) \in Seq(Nat) /\ Len(Cells(p)) = n + http_lng
        /\ \A i \in 1 .. n : Cells(p)[i] = TextCell
        /\ \A i \in 1 .. http_lng : Cells(p)[n + i] = TermCell
    BY <1>1, <1>3, <1>8, TextCells
  <2>2. Size(p) = n + http_lng BY <1>4, <1>8
  <2>3. Size(p) \in Nat /\ sig_size <= Size(p) BY <1>1, <2>2, PacketsAssumption
  <2>4. p.kind # "bin" BY <1>8
  <2> QED BY <2>1, <2>2, <2>3, <2>4 DEF n
<1> QED BY <1>1, <1>7, <1>8

-----------------------------------------------------------------------------
\* The function that FlattenSeq computes, up to n.
Step(f, s, i) == IF i = 1 THEN s[i] ELSE f[i - 1] \o s[i]
Flat(f, s, n) == f = [i \in 1 .. n |-> Step(f, s, i)]

LEMMA FlatExists ==
  ASSUME NEW s \in Seq(Seq(Nat))
  PROVE  \A n \in 0 .. Len(s) : \E f \in [1 .. n -> Seq(Nat)] : Flat(f, s, n)
<1> DEFINE Bad == {n \in 0 .. Len(s) : ~ \E f \in [1 .. n -> Seq(Nat)] : Flat(f, s, n)}
<1>1. SUFFICES ASSUME Bad # {} PROVE FALSE
  OBVIOUS
<1>2. PICK m \in Bad : \A n \in Bad : m <= n
  <2> Bad \in SUBSET Nat OBVIOUS
  <2> HIDE DEF Bad
  <2> QED BY <1>1, Least
<1>3. m # 0
  <2> DEFINE f == [i \in 1 .. 0 |-> <<>>]
  <2>1. f \in [1 .. 0 -> Seq(Nat)] /\ Flat(f, s, 0) BY DEF Flat
  <2> QED BY <2>1
<1>4. m \in 1 .. Len(s) /\ m - 1 \in 0 .. Len(s) BY <1>3
<1>5. PICK g \in [1 .. m - 1 -> Seq(Nat)] : Flat(g, s, m - 1)
  <2>1. m - 1 \notin Bad
    <3> m - 1 < m BY <1>4
    <3> HIDE DEF Bad
    <3> QED BY <1>2, <1>4
  <2> QED BY <1>4, <2>1
<1> DEFINE f == [i \in 1 .. m |-> IF i < m THEN g[i] ELSE Step(g, s, i)]
<1>6. Step(g, s, m) \in Seq(Nat)
  <2>1. s[m] \in Seq(Nat) BY <1>4
  <2>2. m # 1 => g[m - 1] \in Seq(Nat) BY <1>4, <1>5
  <2> QED BY <2>1, <2>2, Concatenation DEF Step, Joins
<1>7. f \in [1 .. m -> Seq(Nat)]
  <2> HIDE DEF Bad
  <2> QED BY <1>4, <1>5, <1>6
<1>8. Flat(f, s, m)
  <2>1. ASSUME NEW i \in 1 .. m PROVE f[i] = Step(f, s, i)
    <3>1. i # 1 => i - 1 \in 1 .. m /\ i - 1 < m BY <1>4
    <3>2. i # 1 => f[i - 1] = g[i - 1] BY <3>1
    <3>3. f[i] = IF i < m THEN g[i] ELSE Step(g, s, i) BY DEF Step
    <3> HIDE DEF f
    <3>4. Step(f, s, i) = Step(g, s, i) BY <3>2, Zenon DEF Step
    <3>5. i < m => g[i] = Step(g, s, i)
      <4>1. i < m => i \in 1 .. m - 1 BY <1>4
      <4>2. g = [j \in 1 .. m - 1 |-> Step(g, s, j)] BY <1>5 DEF Flat
      <4> QED BY <4>1, <4>2, Zenon
    <3> QED BY <1>4, <3>3, <3>4, <3>5
  <2> QED BY <2>1 DEF Flat
<1> QED BY <1>2, <1>4, <1>7, <1>8

\* Sequences that begin alike are flattened alike.
LEMMA FlatUnique ==
  ASSUME NEW f, NEW g, NEW s, NEW t, NEW m \in Nat, NEW n \in 0 .. m,
         Flat(f, s, m), Flat(g, t, n), \A i \in 1 .. n : s[i] = t[i]
  PROVE  \A i \in 1 .. n : f[i] = g[i]
<1> DEFINE Bad == {i \in 1 .. n : f[i] # g[i]}
<1>1. SUFFICES ASSUME Bad # {} PROVE FALSE
  OBVIOUS
<1>2. PICK k \in Bad : \A i \in Bad : k <= i
  <2> Bad \in SUBSET Nat OBVIOUS
  <2> HIDE DEF Bad
  <2> QED BY <1>1, Least
<1>3. f[k] = Step(f, s, k) /\ g[k] = Step(g, t, k)
  <2>1. k \in 1 .. n /\ k \in 1 .. m OBVIOUS
  <2>2. f = [i \in 1 .. m |-> Step(f, s, i)] /\ g = [i \in 1 .. n |-> Step(g, t, i)]
    BY DEF Flat
  <2> QED BY <2>1, <2>2, Zenon
<1>4. k # 1 => f[k - 1] = g[k - 1] BY <1>2
<1>5. Step(f, s, k) = Step(g, t, k) BY <1>4, Zenon DEF Step
<1> QED BY <1>3, <1>5

\* The cells of packets, packet by packet.
Cut(ps) == [i \in DOMAIN ps |-> Cells(ps[i])]

LEMMA CutType ==
  ASSUME NEW ps \in Seq(Packet)
  PROVE  /\ Cut(ps) \in Seq(Seq(Nat)) /\ Len(Cut(ps)) = Len(ps)
         /\ \A i \in 1 .. Len(ps) : Cut(ps)[i] = Cells(ps[i])
<1>1. DOMAIN ps = 1 .. Len(ps) /\ Len(ps) \in Nat OBVIOUS
<1>2. \A i \in 1 .. Len(ps) : Cells(ps[i]) \in Seq(Nat) BY PacketCells
<1> QED BY <1>1, <1>2, IsASeq DEF Cut

\* The stream of the first k packets is the k-th step of the flattening of all.
LEMMA StreamOfPrefix ==
  ASSUME NEW ps \in Seq(Packet), NEW f, Flat(f, Cut(ps), Len(ps)), NEW k \in 0 .. Len(ps)
  PROVE  Stream(SubSeq(ps, 1, k)) = IF k = 0 THEN <<>> ELSE f[k]
<1> DEFINE q == SubSeq(ps, 1, k)
<1>1. q \in Seq(Packet) /\ Len(q) = k /\ \A i \in 1 .. k : q[i] = ps[i]
  BY SubSeqProperties
<1>2. Stream(q) = FlattenSeq(Cut(q)) BY DEF Stream, Cut
<1> HIDE DEF q
<1>3. /\ Cut(q) \in Seq(Seq(Nat)) /\ Len(Cut(q)) = k
      /\ \A i \in 1 .. k : Cut(q)[i] = Cut(ps)[i]
  <2>1. \A i \in 1 .. k : i \in 1 .. Len(ps) OBVIOUS
  <2>2. Cut(q) \in Seq(Seq(Nat)) /\ Len(Cut(q)) = k /\ \A i \in 1 .. k : Cut(q)[i] = Cells(q[i])
    BY <1>1, CutType
  <2>3. \A i \in 1 .. k : Cut(ps)[i] = Cells(ps[i]) BY <2>1, CutType
  <2> QED BY <1>1, <2>2, <2>3
<1>4. CASE k = 0
  <2>1. Cut(q) = <<>> BY <1>3, <1>4, EmptySeq
  <2> QED BY <1>2, <1>4, <2>1 DEF FlattenSeq, q
<1>5. CASE k # 0
  <2>1. FlattenSeq(Cut(q)) = (CHOOSE g : Flat(g, Cut(q), k))[k]
    BY <1>3, <1>5 DEF FlattenSeq, Flat, Step
  <2>2. PICK g : Flat(g, Cut(q), k) /\ g = CHOOSE h : Flat(h, Cut(q), k)
    <3>1. \E g : Flat(g, Cut(q), k) BY <1>3, FlatExists
    <3> QED BY <3>1
  <2>3. \A i \in 1 .. k : Cut(ps)[i] = Cut(q)[i] BY <1>3
  <2>4. Len(ps) \in Nat /\ k \in 1 .. k BY <1>5
  <2>5. \A i \in 1 .. k : f[i] = g[i] BY <2>2, <2>3, <2>4, FlatUnique
  <2>6. f[k] = g[k] BY <2>4, <2>5
  <2> QED BY <1>2, <1>5, <2>1, <2>2, <2>6 DEF q
<1> QED BY <1>4, <1>5

\* Appending never changes what is there.
LEMMA Appending ==
  ASSUME NEW n \in Nat, NEW P \in [0 .. n -> Seq(Nat)], NEW c \in [1 .. n -> Seq(Nat)],
         \A k \in 1 .. n : Joins(P[k - 1], c[k], P[k]),
         NEW k \in 1 .. n
  PROVE  \A m \in k .. n : \A i \in 1 .. Len(c[k]) :
           Len(P[k - 1]) + i <= Len(P[m]) /\ P[m][Len(P[k - 1]) + i] = c[k][i]
<1> DEFINE Kept(m) == \A i \in 1 .. Len(c[k]) :
             Len(P[k - 1]) + i <= Len(P[m]) /\ P[m][Len(P[k - 1]) + i] = c[k][i]
           Bad == {m \in k .. n : ~ Kept(m)}
<1>1. SUFFICES ASSUME Bad # {} PROVE FALSE
  OBVIOUS
<1>2. PICK m \in Bad : \A j \in Bad : m <= j
  <2> Bad \in SUBSET Nat OBVIOUS
  <2> HIDE DEF Bad
  <2> QED BY <1>1, Least
<1>3. m \in 1 .. n /\ m - 1 \in 0 .. n /\ k <= m /\ ~ Kept(m)
  <2>1. m \in k .. n /\ ~ Kept(m)
    <3> HIDE DEF Kept
    <3> QED OBVIOUS
  <2>2. k \in Nat /\ 1 <= k OBVIOUS
  <2> HIDE DEF Bad, Kept
  <2>3. m \in Nat /\ k <= m /\ m <= n BY <2>1, <2>2
  <2> QED BY <2>1, <2>2, <2>3
<1>4. P[m - 1] \in Seq(Nat) /\ Len(P[m - 1]) \in Nat /\ Len(c[m]) \in Nat
  <2> HIDE DEF Bad, Kept
  <2>1. P[m - 1] \in Seq(Nat) /\ c[m] \in Seq(Nat) BY <1>3
  <2> QED BY <2>1
<1>5. Joins(P[m - 1], c[m], P[m]) BY <1>3
<1>8. Len(P[k - 1]) \in Nat /\ Len(c[k]) \in Nat
  <2> HIDE DEF Bad, Kept
  <2>1. P[k - 1] \in Seq(Nat) /\ c[k] \in Seq(Nat)
    <3> k - 1 \in 0 .. n OBVIOUS
    <3> QED OBVIOUS
  <2> QED BY <2>1
<1>6. m # k
  <2>1. Joins(P[k - 1], c[k], P[k]) OBVIOUS
  <2>2. Kept(k) BY <1>8, <2>1 DEF Joins
  <2> HIDE DEF Kept
  <2> QED BY <1>3, <2>2
<1>7. Kept(m - 1)
  <2>1. m - 1 \in k .. n /\ ~ (m <= m - 1) BY <1>3, <1>6
  <2>2. m - 1 \notin Bad BY <1>2, <2>1, Zenon
  <2> HIDE DEF Kept
  <2> QED BY <2>1, <2>2
<1>9. ASSUME NEW i \in 1 .. Len(c[k])
      PROVE  Len(P[k - 1]) + i <= Len(P[m]) /\ P[m][Len(P[k - 1]) + i] = c[k][i]
  <2>1. Len(P[k - 1]) + i \in 1 .. Len(P[m - 1]) /\ P[m - 1][Len(P[k - 1]) + i] = c[k][i]
    BY <1>4, <1>7, <1>8
  <2> DEFINE j == Len(P[k - 1]) + i
             u == P[m - 1]
             v == P[m]
  <2>2. j \in 1 .. Len(u) /\ u[j] = c[k][i] /\ Len(u) \in Nat /\ Len(c[m]) \in Nat
    BY <1>4, <2>1
  <2>3. Joins(u, c[m], v) BY <1>5
  <2> HIDE DEF j, u, v
  <2>4. j <= Len(v) /\ v[j] = u[j] BY <2>2, <2>3 DEF Joins
  <2>5. j <= Len(v) /\ v[j] = c[k][i] BY <2>2, <2>4
  <2> QED BY <2>5 DEF j, v
<1> QED BY <1>3, <1>9

\* The stream of the first packets.
Prefix(ps, k) == Stream(SubSeq(ps, 1, k))

LEMMA PrefixGrows ==
  ASSUME NEW ps \in Seq(Packet)
  PROVE  /\ Prefix(ps, 0) = <<>> /\ Prefix(ps, Len(ps)) = Stream(ps)
         /\ \A k \in 0 .. Len(ps) : Prefix(ps, k) \in Seq(Nat)
         /\ \A k \in 1 .. Len(ps) : Joins(Prefix(ps, k - 1), Cells(ps[k]), Prefix(ps, k))
<1> DEFINE n == Len(ps)
<1>1. PICK f \in [1 .. n -> Seq(Nat)] : Flat(f, Cut(ps), n)
  <2>1. Cut(ps) \in Seq(Seq(Nat)) /\ Len(Cut(ps)) = n BY CutType
  <2>2. n \in 0 .. n OBVIOUS
  <2> QED BY <2>1, <2>2, FlatExists
<1>2. \A k \in 0 .. n : Prefix(ps, k) = IF k = 0 THEN <<>> ELSE f[k]
  BY <1>1, StreamOfPrefix DEF Prefix
<1>3. ASSUME NEW k \in 0 .. n PROVE Prefix(ps, k) \in Seq(Nat)
  <2>1. <<>> \in Seq(Nat) BY EmptySeq
  <2>2. k # 0 => f[k] \in Seq(Nat) BY <1>1
  <2> QED BY <1>2, <2>1, <2>2
<1>4. ASSUME NEW k \in 1 .. n
      PROVE  Joins(Prefix(ps, k - 1), Cells(ps[k]), Prefix(ps, k))
  <2>1. Cells(ps[k]) \in Seq(Nat) /\ Cut(ps)[k] = Cells(ps[k]) BY PacketCells, CutType
  <2>2. f[k] = Step(f, Cut(ps), k)
    <3>1. f = [i \in 1 .. n |-> Step(f, Cut(ps), i)] BY <1>1 DEF Flat
    <3> QED BY <3>1, Zenon
  <2>3. f[k] = IF k = 1 THEN Cells(ps[k]) ELSE f[k - 1] \o Cells(ps[k])
    BY <2>1, <2>2, Zenon DEF Step
  <2>4. CASE k = 1
    <3>1. Prefix(ps, k - 1) = <<>> /\ Prefix(ps, k) = Cells(ps[k]) BY <1>2, <2>3, <2>4
    <3> QED BY <2>1, <3>1 DEF Joins
  <2>5. CASE k # 1
    <3>1. k - 1 \in 0 .. n /\ k \in 0 .. n /\ k - 1 # 0 /\ k # 0 BY <2>5
    <3>2. Prefix(ps, k - 1) = f[k - 1] /\ Prefix(ps, k) = f[k] BY <1>2, <3>1, Zenon
    <3>3. Prefix(ps, k) = Prefix(ps, k - 1) \o Cells(ps[k]) BY <2>3, <2>5, <3>2, Zenon
    <3>4. Prefix(ps, k - 1) \in Seq(Nat) BY <1>3, <3>1
    <3> QED BY <2>1, <3>3, <3>4, Concatenation, Zenon
  <2> QED BY <2>4, <2>5
<1>5. Prefix(ps, n) = Stream(ps) BY SubSeqFull, Zenon DEF Prefix
<1>6. Prefix(ps, 0) = <<>> BY <1>2
<1> QED BY <1>3, <1>4, <1>5, <1>6

\* Where the packets of a stream begin and end, and what a reader finds there,
\* for every sequence of packets: End and Start of Packets are the offsets at
\* which make_packet and the text replies put them one behind the other.
LEMMA StreamLayout ==
  ASSUME NEW ps \in Seq(Packet)
  PROVE  /\ End(ps, 0) = 0
         /\ \A k \in 0 .. Len(ps) : End(ps, k) \in Nat
         /\ \A k \in 1 .. Len(ps) : End(ps, k) = End(ps, k - 1) + Size(ps[k])
         /\ Stream(ps) \in Seq(Nat) /\ Len(Stream(ps)) = End(ps, Len(ps))
         /\ \A k \in 1 .. Len(ps) : \A i \in 1 .. Size(ps[k]) :
              Stream(ps)[End(ps, k - 1) + i] = Cells(ps[k])[i]
<1> DEFINE n == Len(ps)
           P == [k \in 0 .. n |-> Prefix(ps, k)]
           c == [k \in 1 .. n |-> Cells(ps[k])]
<1>1. \A k \in 0 .. n : P[k] = Prefix(ps, k) /\ End(ps, k) = Len(P[k])
  BY DEF End, Prefix
<1>2. \A k \in 1 .. n : c[k] = Cells(ps[k]) /\ Len(c[k]) = Size(ps[k])
  BY PacketCells
<1>3. P \in [0 .. n -> Seq(Nat)] /\ c \in [1 .. n -> Seq(Nat)]
  BY PrefixGrows, PacketCells
<1>4. P[0] = <<>> /\ P[n] = Stream(ps) BY PrefixGrows
<1>5. \A k \in 1 .. n : Joins(P[k - 1], c[k], P[k]) BY <1>1, <1>2, PrefixGrows
<1>6. n \in Nat OBVIOUS
<1> HIDE DEF n, P, c
<1>7. \A k \in 0 .. n : Len(P[k]) \in Nat BY <1>3
<1>8. \A k \in 1 .. n : Len(P[k]) = Len(P[k - 1]) + Len(c[k]) BY <1>5 DEF Joins
<1>9. \A k \in 1 .. n : \A i \in 1 .. Len(c[k]) : P[n][Len(P[k - 1]) + i] = c[k][i]
  <2> TAKE k \in 1 .. n
  <2> n \in k .. n BY <1>6
  <2> QED BY <1>3, <1>5, <1>6, Appending
<1>10. End(ps, 0) = 0 BY <1>1, <1>4, <1>6
<1>11. \A k \in 0 .. n : End(ps, k) \in Nat BY <1>1, <1>7
<1>12. ASSUME NEW k \in 1 .. n PROVE End(ps, k) = End(ps, k - 1) + Size(ps[k])
  <2>1. k - 1 \in 0 .. n /\ k \in 0 .. n BY <1>6
  <2> QED BY <1>1, <1>2, <1>8, <2>1
<1>13. Stream(ps) \in Seq(Nat) /\ Len(Stream(ps)) = End(ps, n) BY <1>1, <1>3, <1>4, <1>6
<1>14. ASSUME NEW k \in 1 .. n, NEW i \in 1 .. Size(ps[k])
       PROVE  Stream(ps)[End(ps, k - 1) + i] = Cells(ps[k])[i]
  <2>1. k - 1 \in 0 .. n BY <1>6
  <2> QED BY <1>1, <1>2, <1>4, <1>9, <2>1
<1> QED BY <1>10, <1>11, <1>12, <1>13, <1>14 DEF n

\* Packets follow one another.
LEMMA EndsGrow ==
  ASSUME NEW ps \in Seq(Packet)
  PROVE  \A j, k \in 0 .. Len(ps) : j < k => End(ps, j) + sig_size <= End(ps, k)
<1> DEFINE n == Len(ps)
           Bad == {k \in 0 .. n :
                     \E j \in 0 .. n : j < k /\ ~ (End(ps, j) + sig_size <= End(ps, k))}
<1>1. SUFFICES ASSUME Bad # {} PROVE FALSE
  OBVIOUS
<1>2. PICK k \in Bad : \A m \in Bad : k <= m
  <2> Bad \in SUBSET Nat OBVIOUS
  <2> HIDE DEF Bad
  <2> QED BY <1>1, Least
<1>3. PICK j \in 0 .. n : j < k /\ ~ (End(ps, j) + sig_size <= End(ps, k)) OBVIOUS
<1>4. k \in 1 .. n /\ k - 1 \in 0 .. n /\ ~ (k <= k - 1) BY <1>3
<1>5. k - 1 \notin Bad BY <1>2, <1>4, Zenon
<1>6. /\ End(ps, k) = End(ps, k - 1) + Size(ps[k]) /\ sig_size <= Size(ps[k])
      /\ End(ps, k - 1) \in Nat /\ End(ps, j) \in Nat /\ Size(ps[k]) \in Nat
  <2>1. k \in 1 .. n /\ j \in 0 .. n /\ k - 1 \in 0 .. n BY <1>4
  <2>2. ps[k] \in Packet BY <2>1
  <2>3. sig_size <= Size(ps[k]) /\ Size(ps[k]) \in Nat BY <2>2, PacketCells
  <2>4. \A m \in 0 .. n : End(ps, m) \in Nat BY StreamLayout
  <2>5. End(ps, k) = End(ps, k - 1) + Size(ps[k]) BY <2>1, StreamLayout
  <2> HIDE DEF n, Bad
  <2> QED BY <2>1, <2>3, <2>4, <2>5
<1>7. j < k - 1 => End(ps, j) + sig_size <= End(ps, k - 1) BY <1>4, <1>5
<1>8. j < k - 1 \/ j = k - 1 BY <1>3
<1> QED BY <1>3, <1>6, <1>7, <1>8, PacketsAssumption

-----------------------------------------------------------------------------
(* The completers. *)

\* Framing speaks of the same streams.
LEMMA Same ==
  /\ \A ps : FramingOf!Stream(ps) = Stream(ps)
  /\ \A ps, k : FramingOf!Start(ps, k) = Start(ps, k) /\ FramingOf!End(ps, k) = End(ps, k)
<1>1. ASSUME NEW s PROVE FramingOf!FlattenSeq(s) = FlattenSeq(s)
  BY DEF FramingOf!FlattenSeq, FlattenSeq
<1>2. ASSUME NEW p PROVE FramingOf!Cells(p) = Cells(p)
  BY DEF FramingOf!Cells, Cells, FramingOf!make_packet, make_packet,
         FramingOf!text_packet, text_packet, FramingOf!Copies, Copies,
         FramingOf!crc_of, crc_of, FramingOf!Zero, Zero, FramingOf!SigCell, SigCell,
         FramingOf!DataCell, DataCell, FramingOf!CrcCell, CrcCell,
         FramingOf!BadCell, BadCell, FramingOf!TextCell, TextCell,
         FramingOf!TermCell, TermCell
<1>3. ASSUME NEW ps PROVE FramingOf!Stream(ps) = Stream(ps)
  BY <1>1, <1>2, Zenon DEF FramingOf!Stream, Stream
<1> QED BY <1>3, Zenon DEF FramingOf!Start, Start, FramingOf!End, End

\* The packets of a stream lie one behind the other.
LEMMA Order ==
  ASSUME NEW ps \in Seq(Packet)
  PROVE  /\ DOMAIN ps = 1 .. Len(ps) /\ Len(ps) \in Nat
         /\ \A k \in 1 .. Len(ps) : ps[k].kind \in {"bin", "text"}
         /\ \A k \in 1 .. Len(ps) : Start(ps, k) = End(ps, k - 1) /\ Start(ps, k) \in Nat
         /\ \A k \in 1 .. Len(ps) : Start(ps, k + 1) = End(ps, k)
         /\ \A k \in 0 .. Len(ps) : End(ps, k) \in Nat
         /\ \A j, k \in 0 .. Len(ps) : j < k <=> End(ps, j) < End(ps, k)
         /\ Len(Stream(ps)) = End(ps, Len(ps)) /\ End(ps, 0) = 0
         /\ \A k \in 1 .. Len(ps) : End(ps, k) = Start(ps, k) + Size(ps[k])
<1>1. DOMAIN ps = 1 .. Len(ps) /\ Len(ps) \in Nat OBVIOUS
<1>2. ASSUME NEW k \in 1 .. Len(ps) PROVE ps[k].kind \in {"bin", "text"}
  <2> ps[k] \in Packet OBVIOUS
  <2> QED BY DEF Packet
<1>3. /\ \A k \in 0 .. Len(ps) : End(ps, k) \in Nat
      /\ Len(Stream(ps)) = End(ps, Len(ps)) /\ End(ps, 0) = 0
      /\ \A k \in 1 .. Len(ps) : End(ps, k) = End(ps, k - 1) + Size(ps[k])
  BY StreamLayout
<1>4. \A j, k \in 0 .. Len(ps) : j < k => End(ps, j) < End(ps, k)
  BY <1>3, EndsGrow, PacketsAssumption
<1>5. \A j, k \in 0 .. Len(ps) : j < k <=> End(ps, j) < End(ps, k)
  <2> TAKE j, k \in 0 .. Len(ps)
  <2>1. j = k \/ j < k \/ k < j OBVIOUS
  <2> QED BY <1>3, <1>4, <2>1
<1>6. ASSUME NEW k \in 1 .. Len(ps)
      PROVE  /\ Start(ps, k) = End(ps, k - 1) /\ Start(ps, k) \in Nat
             /\ Start(ps, k + 1) = End(ps, k)
  <2>1. k - 1 \in 0 .. Len(ps) /\ k + 1 - 1 = k OBVIOUS
  <2> QED BY <1>3, <2>1 DEF Start
<1> QED BY <1>1, <1>2, <1>3, <1>5, <1>6

\* Where the promise holds, bytes behind the first packet belong to texts, up
\* to the packet that ends with the last byte.
LEMMA Tight ==
  ASSUME NEW ps \in Seq(Packet), NEW r \in Nat, r <= Len(Stream(ps)),
         ~ FramingOf!GoesLoose(ps, r), NEW i \in DOMAIN ps, Start(ps, i) < r
  PROVE  /\ i > 1 => End(ps, i) <= r
         /\ End(ps, i) < r => i + 1 \in DOMAIN ps /\ ps[i].kind = "text"
         /\ End(ps, i) = r =>
              \A k \in FramingOf!Begun(ps, r) : k <= i /\ (k < i => ps[k].kind = "text")
         /\ r < End(ps, i) => /\ i = 1 /\ ~ FramingOf!IsEnd(ps, r)
                              /\ \A k \in FramingOf!Begun(ps, r) : k = i
<1> DEFINE n == Len(ps)
           e(k) == End(ps, k)
<1>1. /\ DOMAIN ps = 1 .. n /\ n \in Nat /\ r <= e(n)
      /\ \A k \in 1 .. n : ps[k].kind \in {"bin", "text"}
      /\ \A k \in 1 .. n : Start(ps, k) = e(k - 1)
      /\ \A k \in 0 .. n : e(k) \in Nat
      /\ \A j, k \in 0 .. n : j < k <=> e(j) < e(k)
  BY Order
<1>2. FramingOf!IsEnd(ps, r) <=> \E k \in 1 .. n : r = e(k)
  BY <1>1, Same DEF FramingOf!IsEnd
<1>3. FramingOf!Begun(ps, r) = {k \in 1 .. n : e(k - 1) < r}
  <2>1. \A k \in 1 .. n : FramingOf!Start(ps, k) = e(k - 1) BY <1>1, Same
  <2> QED BY <1>1, <2>1 DEF FramingOf!Begun
<1>4. \A k \in 1 .. n : k > 1 /\ e(k - 1) < r =>
        FramingOf!IsEnd(ps, r) /\ ps[k - 1].kind # "bin"
  BY <1>3 DEF FramingOf!GoesLoose
<1>5. i \in 1 .. n /\ e(i - 1) < r BY <1>1
<1>6. ASSUME NEW k \in 1 .. n, e(k) < r PROVE k + 1 \in 1 .. n /\ ps[k].kind = "text"
  <2> HIDE DEF e, n
  <2>1. k + 1 \in 1 .. n /\ (k + 1) - 1 = k /\ k + 1 > 1
    <3>1. k # n BY <1>1, <1>6
    <3>2. n \in Nat BY <1>1
    <3> QED BY <3>1, <3>2
  <2>2. ps[k].kind # "bin" BY <1>4, <1>6, <2>1
  <2> QED BY <1>1, <2>1, <2>2
<1>7. ASSUME i > 1 PROVE e(i) <= r
  <2> HIDE DEF e, n
  <2>1. PICK j \in 1 .. n : r = e(j) BY <1>2, <1>4, <1>5, <1>7
  <2>2. j \in 0 .. n /\ i - 1 \in 0 .. n /\ i \in 0 .. n BY <1>1, <1>5
  <2>3. i - 1 < j BY <1>1, <1>5, <2>1, <2>2
  <2> QED BY <1>1, <1>5, <2>1, <2>2, <2>3
<1>8. ASSUME e(i) = r, NEW k \in FramingOf!Begun(ps, r)
      PROVE  k <= i /\ (k < i => ps[k].kind = "text")
  <2> HIDE DEF e, n
  <2>1. k \in 1 .. n /\ e(k - 1) < e(i) BY <1>3, <1>8
  <2>2. k \in 0 .. n /\ k - 1 \in 0 .. n /\ i \in 0 .. n BY <1>1, <1>5, <2>1
  <2>3. k - 1 < i BY <1>1, <2>1, <2>2
  <2>4. k < i => e(k) < r BY <1>1, <1>8, <2>2
  <2> QED BY <1>1, <1>5, <1>6, <2>1, <2>3, <2>4
<1>9. ASSUME r < e(i)
      PROVE  /\ i = 1 /\ ~ FramingOf!IsEnd(ps, r)
             /\ \A k \in FramingOf!Begun(ps, r) : k = i
  <2> HIDE DEF e, n
  <2>1. i = 1 /\ i \in 0 .. n
    <3>1. n \in Nat /\ i \in 1 .. n BY <1>1, <1>5
    <3>2. e(i) \in Nat BY <1>1, <3>1
    <3>3. ~ (i > 1) BY <1>7, <1>9, <3>2
    <3> QED BY <3>1, <3>3
  <2>2. ASSUME NEW k \in 1 .. n, e(k - 1) < e(i) PROVE k = 1
    <3>1. k - 1 \in 0 .. n BY <1>1
    <3>2. k - 1 < i BY <1>1, <2>1, <2>2, <3>1
    <3> QED BY <2>1, <3>2
  <2>3. \A k \in FramingOf!Begun(ps, r) : k = i
    <3> TAKE k \in FramingOf!Begun(ps, r)
    <3>1. k \in 1 .. n /\ e(k - 1) < r BY <1>3
    <3>2. e(k - 1) \in Nat /\ e(i) \in Nat BY <1>1, <2>1, <3>1
    <3> QED BY <1>9, <2>1, <2>2, <3>1, <3>2
  <2>4. ~ FramingOf!IsEnd(ps, r)
    <3> SUFFICES ASSUME NEW k \in 1 .. n, r = e(k) PROVE FALSE BY <1>2
    <3>1. k \in 0 .. n BY <1>1
    <3>2. k < i BY <1>1, <1>9, <2>1, <3>1
    <3> QED BY <2>1, <3>2
  <2> QED BY <2>1, <2>3, <2>4
<1> QED BY <1>1, <1>5, <1>6, <1>7, <1>8, <1>9

-----------------------------------------------------------------------------
\* What the state of the parser says of the packet it stands at.
Matches(p) ==
  /\ m_laststate \in {noLng, noDataCrc} => p.kind = "bin" /\ m_type = "bin"
  /\ m_laststate = noDataCrc => m_lng_value = p.size /\ p.size <= max_valid_size
  /\ m_laststate = unRec => p.kind = "text" /\ type = "compound"

\* The read has neither failed nor ended.
Goes == ~ m_iserror /\ m_laststate # finished

Fits == received <= Len(Stream(packets))

\* A call begins only when that is so, and every call is counted.
GoesInv ==
  /\ running => Goes
  /\ Goes /\ ~ running => transfer_counter <= max_transfers + 1

\* What holds of every stream, cut in any way.
Safe == CompleterTypeOK /\ Fits /\ GoesInv

\* The types of everything but the flags.
Numbers ==
  /\ packets \in PacketLists /\ type \in Types /\ memory \in Memories
  /\ received \in 0 .. BufferSize
  /\ transfer_counter \in 1 .. max_transfers + 2
  /\ m_laststate \in noSign .. unRec
  /\ m_startcurrptr \in Nat /\ m_lng_value \in Nat
  /\ Zeroed => m_startcurrptr <= received
  /\ m_type \in {"bin", "text"}

Booleans ==
  m_iserror \in BOOLEAN /\ running \in BOOLEAN /\ loose \in BOOLEAN /\ peeked \in BOOLEAN

LEMMA Split == CompleterTypeOK <=> Numbers /\ Booleans
BY DEF CompleterTypeOK, Numbers, Booleans

LEMMA Stated ==
  Safe => /\ packets \in Seq(Packet) /\ received \in Nat /\ m_startcurrptr \in Nat
          /\ Numbers /\ Booleans /\ Fits
BY CompleterAssumption, Split DEF Safe, Numbers, Fits

\* A zeroed buffer is zero behind the bytes that have come.
LEMMA ByteType ==
  ASSUME Safe
  PROVE  \A x \in Nat \ {0} : Byte(x) \in Nat /\ (Zeroed /\ x > received => Byte(x) = Zero)
<1> TAKE x \in Nat \ {0}
<1>1. Stream(packets) \in Seq(Nat) /\ received \in Nat /\ received <= Len(Stream(packets))
  BY StreamLayout, Stated DEF Fits
<1>2. x <= received => Stream(packets)[x] \in Nat
  <2> DEFINE u == Stream(packets)
  <2> HIDE DEF u
  <2>1. u \in Seq(Nat) /\ received \in Nat /\ received <= Len(u) BY <1>1 DEF u
  <2>2. x <= received => u[x] \in Nat BY <2>1
  <2> QED BY <2>2 DEF u
<1>3. memory \in Seq(Nat) BY CompleterAssumption, Stated DEF Numbers
<1>4. x \in DOMAIN memory => memory[x] \in Nat BY <1>3
<1>5. Zeroed => \A i \in DOMAIN memory : memory[i] = Zero BY Zenon DEF Zeroed
<1> QED BY <1>1, <1>2, <1>4, <1>5 DEF Byte, Zero

\* A terminator that was found in a zeroed buffer has come.
LEMMA TerminatorsCame ==
  ASSUME Safe, Terminators # {}
  PROVE  /\ Min(Terminators) \in Terminators
         /\ \A d \in Terminators : d \in Nat /\ Min(Terminators) <= d
         /\ Zeroed => m_startcurrptr + Min(Terminators) <= received
<1>1. Terminators \in SUBSET Nat
  BY PacketsAssumption, Stated DEF Terminators
<1>2. Min(Terminators) \in Terminators /\ \A d \in Terminators : Min(Terminators) <= d
  <2> PICK m \in Terminators : \A d \in Terminators : m <= d
    <3> HIDE DEF Terminators
    <3> QED BY <1>1, Least
  <2> QED BY DEF Min
<1>3. ASSUME Zeroed, NEW d \in Terminators PROVE m_startcurrptr + d <= received
  <2>1. d \in Nat /\ http_lng \in 1 .. http_lng /\ http_lng <= d /\ http_lng \in Nat
        /\ m_startcurrptr \in Nat /\ received \in Nat
    BY PacketsAssumption, Stated DEF Terminators
  <2>2. Byte(m_startcurrptr + d - http_lng + http_lng) = TermCell
    BY <2>1 DEF Terminators
  <2>3. m_startcurrptr + d - http_lng + http_lng = m_startcurrptr + d BY <2>1
  <2>4. m_startcurrptr + d \in Nat \ {0} BY <2>1, PacketsAssumption
  <2>5. m_startcurrptr + d > received => Byte(m_startcurrptr + d) = Zero BY <1>3, <2>4, ByteType
  <2>6. Byte(m_startcurrptr + d) = TermCell BY <2>2, <2>3
  <2> HIDE DEF Byte
  <2> QED BY <2>1, <2>4, <2>5, <2>6 DEF Zero, TermCell
<1> QED BY <1>1, <1>2, <1>3

LEMMA SafeRestated ==
  Safe <=> Numbers /\ Booleans /\ Fits /\ GoesInv
BY Split DEF Safe

\* What a turn of do_completer leaves alone.
LEMMA InputKept ==
  ASSUME Safe, UNCHANGED input
  PROVE  /\ Fits' /\ packets' \in PacketLists /\ type' \in Types
         /\ memory' \in Memories /\ (Zeroed' <=> Zeroed)
         /\ received' = received /\ received' \in 0 .. BufferSize
         /\ transfer_counter' = transfer_counter /\ transfer_counter' \in 1 .. max_transfers + 2
         /\ loose' \in BOOLEAN
<1>1. memory' = memory BY DEF input
<1>2. Zeroed' <=> Zeroed BY <1>1, Zenon DEF Zeroed
<1> QED BY <1>2, SafeRestated DEF input, Fits, Numbers, Booleans

\* The outcome of a turn.
Turned ==
  /\ m_laststate' \in noSign .. unRec
  /\ m_startcurrptr' \in Nat /\ m_lng_value' \in Nat
  /\ Zeroed => m_startcurrptr' <= received
  /\ m_type' \in {"bin", "text"}
  /\ m_iserror' \in BOOLEAN /\ running' \in BOOLEAN /\ peeked' \in BOOLEAN
  /\ running' => Goes'

LEMMA SafeTurn ==
  ASSUME Safe, UNCHANGED input, InTime, Turned
  PROVE  Safe'
<1>1. Numbers' /\ Fits' BY InputKept DEF Numbers, Turned
<1>2. Booleans' BY InputKept, Zenon DEF Booleans, Turned
<1>3. GoesInv' BY InputKept DEF GoesInv, Turned, InTime
<1> QED BY <1>1, <1>2, <1>3 DEF Safe, CompleterTypeOK, Numbers, Booleans

LEMMA NotFinished ==
  finished \notin {noSign, noLng, noDataCrc, unRec}
BY DEF noSign, noLng, noDataCrc, finished, unRec

LEMMA SafeSign == Safe /\ Sign => Safe'
<1> SUFFICES ASSUME Safe, Sign PROVE Safe'
  OBVIOUS
<1> DEFINE known == \A i \in 1 .. sig_size : Field(0, sig_size)[i] = SigCell
           fails == ~ known /\ type = "bin"
<1>1. /\ InTime /\ m_laststate = noSign /\ m_type' = "bin"
      /\ UNCHANGED input /\ m_startcurrptr' = m_startcurrptr /\ m_lng_value' = m_lng_value
  BY DEF Sign, ReturnMore
<1>2. \/ /\ running' = FALSE /\ m_laststate' = m_laststate
         /\ m_iserror' = m_iserror /\ peeked' = peeked
      \/ /\ m_laststate' = IF known THEN noLng ELSE IF fails THEN finished ELSE unRec
         /\ m_iserror' = fails /\ running' = ~ fails
         /\ peeked' = (peeked \/ m_startcurrptr + 0 + sig_size > received)
  BY DEF Sign, ReturnMore, Peeks
<1>7. known \in BOOLEAN /\ fails \in BOOLEAN /\ (known => ~ fails) BY Zenon
<1> HIDE DEF known, fails
<1>3. m_startcurrptr' \in Nat /\ (Zeroed => m_startcurrptr' <= received)
      /\ m_lng_value' \in Nat /\ m_type' \in {"bin", "text"}
  BY <1>1, SafeRestated DEF Numbers
<1>4. m_laststate' \in noSign .. unRec
  BY <1>1, <1>2 DEF noSign, noLng, finished, unRec
<1>5. m_iserror' \in BOOLEAN /\ running' \in BOOLEAN /\ peeked' \in BOOLEAN
  BY <1>2, <1>7, SafeRestated, Zenon DEF Booleans
<1>6. running' => Goes'
  BY <1>1, <1>2, NotFinished, Zenon DEF Goes
<1> QED BY <1>1, <1>3, <1>4, <1>5, <1>6, SafeTurn DEF Turned

LEMMA SafeLength == Safe /\ Length => Safe'
<1> SUFFICES ASSUME Safe, Length PROVE Safe'
  OBVIOUS
<1> DEFINE fails == m_lng_value' > max_valid_size
<1>1. /\ InTime /\ m_laststate = noLng /\ m_type' = m_type
      /\ UNCHANGED input /\ m_startcurrptr' = m_startcurrptr
  BY DEF Length, ReturnMore
<1>2. \/ /\ running' = FALSE /\ m_laststate' = m_laststate
         /\ m_iserror' = m_iserror /\ peeked' = peeked
         /\ m_lng_value' = m_lng_value
      \/ /\ m_laststate' = IF fails THEN finished ELSE noDataCrc
         /\ m_iserror' = fails
         /\ running' = ~ fails
         /\ peeked' = (peeked \/ m_startcurrptr + sig_size + length_size > received)
         /\ m_lng_value' = Field(sig_size, length_size)[1]
  BY DEF Length, ReturnMore, Peeks
<1>8. fails \in BOOLEAN OBVIOUS
<1> HIDE DEF fails
<1>3. m_startcurrptr' \in Nat /\ (Zeroed => m_startcurrptr' <= received)
      /\ m_type' \in {"bin", "text"}
  BY <1>1, SafeRestated DEF Numbers
<1>4. m_laststate' \in noSign .. unRec
  BY <1>1, <1>2 DEF noSign, noLng, noDataCrc, finished, unRec
<1>5. m_iserror' \in BOOLEAN /\ running' \in BOOLEAN /\ peeked' \in BOOLEAN
  BY <1>2, <1>8, SafeRestated, Zenon DEF Booleans
<1>6. running' => Goes'
  BY <1>1, <1>2, NotFinished, Zenon DEF Goes
<1>7. m_lng_value' \in Nat
  <2>1. Field(sig_size, length_size)[1] = Byte(m_startcurrptr + sig_size + 1)
    BY DEF Field, length_size
  <2>2. m_startcurrptr + sig_size + 1 \in Nat \ {0} BY Stated, PacketsAssumption
  <2> QED BY <1>2, <2>1, <2>2, ByteType, SafeRestated DEF Numbers
<1> QED BY <1>1, <1>3, <1>4, <1>5, <1>6, <1>7, SafeTurn DEF Turned

LEMMA SafeDataCrc == Safe /\ DataCrc => Safe'
<1> SUFFICES ASSUME Safe, DataCrc PROVE Safe'
  OBVIOUS
<1> DEFINE crc_ofs == header_size + m_lng_value
           next == m_startcurrptr + crc_ofs + crc_size
           fails == Field(crc_ofs, crc_size)[1] /=
                      evaluate_crc(Field(header_size, m_lng_value))
           behind == ~ fails /\ next < received
<1>1. /\ InTime /\ m_laststate = noDataCrc /\ m_type' = m_type
      /\ UNCHANGED input /\ m_lng_value' = m_lng_value /\ running' = FALSE
  BY DEF DataCrc, ReturnMore
<1>2. \/ /\ m_laststate' = m_laststate /\ m_iserror' = m_iserror /\ peeked' = peeked
         /\ m_startcurrptr' = m_startcurrptr
      \/ /\ m_iserror' = fails
         /\ m_laststate' = IF fails THEN noDataCrc ELSE IF behind THEN noSign ELSE finished
         /\ m_startcurrptr' = IF behind THEN next ELSE m_startcurrptr
         /\ peeked' = (peeked \/ m_startcurrptr + crc_ofs + crc_size > received)
  BY DEF DataCrc, ReturnMore, Peeks
<1>3. next \in Nat
  BY Stated, PacketsAssumption, SafeRestated DEF Numbers, header_size, length_size, crc_size
<1>4. fails \in BOOLEAN BY Zenon
<1>5. behind \in BOOLEAN /\ (behind => next < received) BY Zenon
<1> HIDE DEF fails, behind, next, crc_ofs
<1>6. m_startcurrptr' \in Nat /\ (Zeroed => m_startcurrptr' <= received)
      /\ m_lng_value' \in Nat /\ m_type' \in {"bin", "text"}
  BY <1>1, <1>2, <1>3, <1>5, SafeRestated DEF Numbers
<1>7. m_laststate' \in noSign .. unRec
  BY <1>1, <1>2 DEF noSign, noDataCrc, finished, unRec
<1>8. m_iserror' \in BOOLEAN /\ running' \in BOOLEAN /\ peeked' \in BOOLEAN
  BY <1>1, <1>2, <1>4, SafeRestated, Zenon DEF Booleans
<1> QED BY <1>1, <1>6, <1>7, <1>8, SafeTurn DEF Turned

LEMMA SafeUnRec == Safe /\ UnRec => Safe'
<1> SUFFICES ASSUME Safe, UnRec PROVE Safe'
  OBVIOUS
<1> DEFINE next == m_startcurrptr + Min(Terminators)
           last == next = received
<1>1. /\ InTime /\ m_laststate = unRec /\ m_type' = "text"
      /\ UNCHANGED input /\ m_lng_value' = m_lng_value /\ m_iserror' = m_iserror
  BY DEF UnRec, ReturnMore
<1>2. \/ /\ m_laststate' = m_laststate /\ m_startcurrptr' = m_startcurrptr
         /\ running' = FALSE
         /\ peeked' = peeked \/ peeked' = (peeked \/ m_startcurrptr + 0 + received > received)
      \/ /\ Terminators # {}
         /\ m_laststate' = IF last THEN finished ELSE noSign
         /\ m_startcurrptr' = IF last THEN m_startcurrptr ELSE next
         /\ running' = ~ last
         /\ peeked' = (peeked \/ m_startcurrptr + 0 + Min(Terminators) > received)
  BY DEF UnRec, ReturnMore, Peeks
<1>3. Terminators # {} => next \in Nat /\ (Zeroed => next <= received)
  BY Stated, TerminatorsCame
<1>4. last \in BOOLEAN BY Zenon
<1> HIDE DEF last, next
<1>5. m_startcurrptr' \in Nat /\ (Zeroed => m_startcurrptr' <= received)
      /\ m_lng_value' \in Nat /\ m_type' \in {"bin", "text"}
  BY <1>1, <1>2, <1>3, SafeRestated DEF Numbers
<1>6. m_laststate' \in noSign .. unRec
  BY <1>1, <1>2 DEF noSign, finished, unRec
<1>7. m_iserror' \in BOOLEAN /\ running' \in BOOLEAN /\ peeked' \in BOOLEAN
  BY <1>1, <1>2, <1>4, SafeRestated, Zenon DEF Booleans
<1>8. running' => Goes'
  <2>1. Goes BY <1>1, SafeRestated DEF InTime, GoesInv
  <2> QED BY <1>1, <1>2, <2>1, NotFinished, Zenon DEF Goes
<1> QED BY <1>1, <1>5, <1>6, <1>7, <1>8, SafeTurn DEF Turned

-----------------------------------------------------------------------------
\* A call that goes on stands at the start of packet i, and knows what it is.
Parsing(i) ==
  /\ i \in DOMAIN packets /\ m_startcurrptr = Start(packets, i) /\ m_startcurrptr < received
  /\ Matches(packets[i]) /\ (i > 1 => type = "compound")

\* Nothing has come yet that voids the promise.
Promised == Fits /\ ~ loose /\ ~ FramingOf!GoesLoose(packets, received)

\* A call looks at packet i.
Reading(i) == Safe /\ InTime /\ Promised /\ Parsing(i)

\* Between two calls the parser stands at the first packet.
WaitInv ==
  Goes /\ ~ running /\ ~ loose =>
    m_startcurrptr = 0 /\ (packets # <<>> => Matches(packets[1]))

\* A call has returned with the answer that Framing gives.
Settled ==
  /\ ~ running /\ verdict = FramingOf!Ideal(packets, type, received)
  /\ WaitInv /\ LastPacketIsKnown

\* How a turn leaves the parser.
Outcome == IF running THEN \E k \in DOMAIN packets : Parsing(k) ELSE Settled

\* The packet lies at the front of the stream, or all of it has come: this is
\* why comparing all the bytes with the size of one packet does no harm.
LEMMA Position ==
  ASSUME NEW i, Reading(i)
  PROVE  /\ i \in DOMAIN packets /\ packets \in Seq(Packet) /\ packets[i] \in Packet
         /\ m_startcurrptr \in Nat /\ received \in Nat
         /\ End(packets, i) \in Nat /\ Size(packets[i]) \in Nat
         /\ m_startcurrptr < received /\ m_startcurrptr = Start(packets, i)
         /\ End(packets, i) = m_startcurrptr + Size(packets[i]) /\ sig_size <= Size(packets[i])
         /\ m_startcurrptr = 0 \/ End(packets, i) <= received
         /\ received < End(packets, i) => i = 1 /\ m_startcurrptr = 0
<1>1. /\ i \in DOMAIN packets /\ packets \in Seq(Packet) /\ m_startcurrptr \in Nat
      /\ received \in Nat /\ m_startcurrptr < received /\ m_startcurrptr = Start(packets, i)
      /\ received <= Len(Stream(packets)) /\ ~ FramingOf!GoesLoose(packets, received)
  BY Stated DEF Reading, Parsing, Promised, Fits
<1>2. i \in 1 .. Len(packets) /\ packets[i] \in Packet BY <1>1
<1>3. /\ End(packets, i) = m_startcurrptr + Size(packets[i])
      /\ End(packets, i) \in Nat /\ Size(packets[i]) \in Nat /\ sig_size <= Size(packets[i])
  BY <1>1, <1>2, Order, PacketCells
<1>4. i > 1 => End(packets, i) <= received BY <1>1, Tight
<1>5. i = 1 => m_startcurrptr = 0
  <2>1. Len(packets) \in Nat /\ End(packets, 0) = 0 BY <1>1, Order
  <2>2. i = 1 => Start(packets, i) = End(packets, 0) BY DEF Start
  <2> QED BY <1>1, <2>1, <2>2
<1> QED BY <1>1, <1>2, <1>3, <1>4, <1>5

\* What lies there.
LEMMA Contents ==
  ASSUME NEW i, Reading(i)
  PROVE  \A x \in 1 .. Size(packets[i]) : m_startcurrptr + x <= received =>
           Byte(m_startcurrptr + x) = Cells(packets[i])[x]
<1> TAKE x \in 1 .. Size(packets[i])
<1>1. i \in 1 .. Len(packets) /\ packets \in Seq(Packet) BY Position
<1>2. Stream(packets)[End(packets, i - 1) + x] = Cells(packets[i])[x] BY <1>1, StreamLayout
<1>3. m_startcurrptr = End(packets, i - 1) BY Position DEF Start
<1> QED BY <1>2, <1>3 DEF Byte

\* Framing refuses packet i exactly when the parser can see that it is wrong.
LEMMA Refusal ==
  ASSUME NEW i, Reading(i), NEW p, p = packets[i]
  PROVE  FramingOf!Refused(packets, type, i, received) <=>
           \/ p.kind = "text" /\ type = "bin" /\ m_startcurrptr + sig_size <= received
           \/ /\ p.kind = "bin"
              /\ \/ p.size > max_valid_size /\ m_startcurrptr + header_size <= received
                 \/ ~ p.good /\ End(packets, i) <= received
<1>1. FramingOf!Start(packets, i) = m_startcurrptr /\ FramingOf!End(packets, i) = End(packets, i)
  BY Same, Position
<1>2. received \in Nat /\ m_startcurrptr \in Nat /\ End(packets, i) \in Nat BY Position
<1>3. FramingOf!header_size = header_size /\ header_size \in Nat /\ sig_size \in Nat
  BY PacketsAssumption DEF FramingOf!header_size, header_size, FramingOf!length_size, length_size
<1> QED BY <1>1, <1>2, <1>3 DEF FramingOf!Refused

\* What Framing answers depends on packet i alone.
LEMMA Ideals ==
  ASSUME NEW i, Reading(i), NEW ideal, ideal = FramingOf!Ideal(packets, type, received)
  PROVE  /\ FramingOf!Refused(packets, type, i, received) => ideal = "error"
         /\ ~ FramingOf!Refused(packets, type, i, received) =>
              /\ received = End(packets, i) => ideal = "done"
              /\ received < End(packets, i) =>
                   ideal = IF received = BufferSize THEN "full" ELSE "more"
<1> DEFINE begun == FramingOf!Begun(packets, received)
<1>1. i \in begun /\ begun \subseteq DOMAIN packets
  <2>1. \A k : FramingOf!Start(packets, k) = Start(packets, k) BY Same
  <2> QED BY <2>1, Position DEF FramingOf!Begun
<1>2. /\ received = End(packets, i) =>
           \A k \in begun : k <= i /\ (k < i => packets[k].kind = "text")
      /\ received < End(packets, i) =>
           ~ FramingOf!IsEnd(packets, received) /\ \A k \in begun : k = i
  <2>1. /\ packets \in Seq(Packet) /\ received \in Nat /\ received <= Len(Stream(packets))
        /\ ~ FramingOf!GoesLoose(packets, received) /\ i \in DOMAIN packets
        /\ Start(packets, i) < received
    BY Position DEF Reading, Promised, Fits
  <2> QED BY <2>1, Tight
<1>3. FramingOf!Refused(packets, type, i, received) => ideal = "error"
  BY <1>1 DEF FramingOf!Ideal
<1>4. ASSUME ~ FramingOf!Refused(packets, type, i, received), received < End(packets, i)
      PROVE  ideal = IF received = BufferSize THEN "full" ELSE "more"
  BY <1>2, <1>4, Zenon DEF FramingOf!Ideal
<1>5. ASSUME ~ FramingOf!Refused(packets, type, i, received), received = End(packets, i)
      PROVE  ideal = "done"
  <2>1. FramingOf!IsEnd(packets, received)
    BY <1>5, Same, Position, Zenon DEF FramingOf!IsEnd
  <2>2. ASSUME NEW k \in begun, k # i PROVE ~ FramingOf!Refused(packets, type, k, received)
    <3>1. i \in Nat /\ k \in Nat BY <1>1, Position
    <3>2. k < i /\ packets[k].kind = "text" BY <1>2, <1>5, <2>2, <3>1
    <3>3. i > 1
      <4>1. k \in 1 .. Len(packets) BY <1>1, Position
      <4> QED BY <3>1, <3>2, <4>1
    <3>4. type = "compound" BY <3>3 DEF Reading, Parsing
    <3>5. packets[k].kind # "bin" /\ type # "bin" BY <3>2, <3>4
    <3> QED BY <3>5, Zenon DEF FramingOf!Refused
  <2>3. ~ \E k \in begun : FramingOf!Refused(packets, type, k, received) BY <1>5, <2>2, Zenon
  <2> QED BY <2>1, <2>3, Zenon DEF FramingOf!Ideal
<1> QED BY <1>3, <1>4, <1>5

LEMMA InputSame ==
  UNCHANGED input => /\ packets' = packets /\ type' = type /\ received' = received
                     /\ transfer_counter' = transfer_counter /\ loose' = loose
                     /\ memory' = memory
BY DEF input

\* The three ways in which a call returns, and the one in which it goes on.
LEMMA ReturnsMore ==
  ASSUME NEW i, Reading(i), UNCHANGED input, received < End(packets, i),
         ~ FramingOf!Refused(packets, type, i, received),
         ~ running', ~ m_iserror', m_laststate' # finished,
         m_startcurrptr' = m_startcurrptr, Matches(packets[i])'
  PROVE  Outcome'
<1>1. verdict' = FramingOf!Ideal(packets, type, received)' BY InputSame, Ideals DEF verdict
<1>2. WaitInv' BY InputSame, Position DEF WaitInv
<1>3. LastPacketIsKnown' BY <1>1, InputSame DEF LastPacketIsKnown, verdict
<1> QED BY <1>1, <1>2, <1>3 DEF Outcome, Settled

LEMMA ReturnsError ==
  ASSUME NEW i, Reading(i), UNCHANGED input,
         FramingOf!Refused(packets, type, i, received), ~ running', m_iserror'
  PROVE  Outcome'
<1>1. verdict' = FramingOf!Ideal(packets, type, received)' BY InputSame, Ideals DEF verdict
<1>2. WaitInv' BY DEF WaitInv, Goes
<1>3. LastPacketIsKnown' BY DEF LastPacketIsKnown, verdict
<1> QED BY <1>1, <1>2, <1>3 DEF Outcome, Settled

LEMMA ReturnsDone ==
  ASSUME NEW i, Reading(i), UNCHANGED input, received = End(packets, i),
         ~ FramingOf!Refused(packets, type, i, received),
         ~ running', ~ m_iserror', m_laststate' = finished,
         m_startcurrptr' = m_startcurrptr, m_type' = packets[i].kind,
         packets[i].kind = "bin" => packets[i].good
  PROVE  Outcome'
<1>1. verdict' = FramingOf!Ideal(packets, type, received)' BY InputSame, Ideals DEF verdict
<1>2. WaitInv' BY DEF WaitInv, Goes
<1>3. LastPacketIsKnown' BY InputSame, Position DEF LastPacketIsKnown
<1> QED BY <1>1, <1>2, <1>3 DEF Outcome, Settled

LEMMA GoesOn ==
  ASSUME NEW i, Parsing(i)', running'
  PROVE  Outcome'
BY DEF Outcome, Parsing

\* Signature: known in binary packets only.
LEMMA Signature ==
  ASSUME NEW i, Reading(i), sig_size <= received
  PROVE  /\ m_startcurrptr + sig_size <= received
         /\ (\A x \in 1 .. sig_size : Field(0, sig_size)[x] = SigCell)
              <=> packets[i].kind = "bin"
<1> DEFINE p == packets[i]
<1>1. /\ p \in Packet /\ m_startcurrptr \in Nat /\ received \in Nat /\ Size(p) \in Nat
      /\ sig_size <= Size(p) /\ sig_size \in Nat /\ 1 <= sig_size
      /\ m_startcurrptr + sig_size <= received
  BY Position, PacketsAssumption
<1>2. \A x \in 1 .. sig_size : Field(0, sig_size)[x] = Cells(p)[x]
  <2>1. \A x \in 1 .. sig_size : x \in 1 .. Size(p) /\ m_startcurrptr + x <= received
    BY <1>1
  <2>2. \A x \in 1 .. sig_size : Byte(m_startcurrptr + x) = Cells(p)[x]
    BY <2>1, Contents
  <2>3. \A x \in 1 .. sig_size : m_startcurrptr + 0 + x = m_startcurrptr + x BY <1>1
  <2> QED BY <2>2, <2>3 DEF Field
<1>3. p.kind = "bin" => \A x \in 1 .. sig_size : Cells(p)[x] = SigCell
  BY <1>1, PacketCells
<1>4. ASSUME p.kind # "bin" PROVE Cells(p)[1] # SigCell
  <2>1. p.kind = "text" BY <1>1, <1>4 DEF Packet
  <2> DEFINE n == p.size
             c == Cells(p)
  <2>2. /\ n \in Nat /\ Size(p) = n + http_lng
        /\ \A x \in 1 .. n : c[x] = TextCell
        /\ \A x \in 1 .. http_lng : c[n + x] = TermCell
    BY <1>1, <2>1, PacketCells DEF Packet
  <2> HIDE DEF n, c
  <2>3. 1 \in 1 .. n \/ (n = 0 /\ 1 \in 1 .. http_lng) BY <2>2, PacketsAssumption
  <2>4. c[1] = TextCell \/ c[1] = TermCell
    <3>1. n = 0 /\ 1 \in 1 .. http_lng => c[0 + 1] = TermCell BY <2>2
    <3> QED BY <2>2, <2>3, <3>1
  <2> QED BY <2>4 DEF TextCell, TermCell, SigCell, c
<1> HIDE DEF p
<1>5. 1 \in 1 .. sig_size BY <1>1
<1> QED BY <1>1, <1>2, <1>3, <1>4, <1>5 DEF p

\* The length, as the sender wrote it.
LEMMA LengthField ==
  ASSUME NEW i, Reading(i), packets[i].kind = "bin", header_size <= received
  PROVE  /\ m_startcurrptr + header_size <= received
         /\ Field(sig_size, length_size)[1] = packets[i].size
<1> DEFINE p == packets[i]
           n == p.size
<1>1. /\ p \in Packet /\ m_startcurrptr \in Nat /\ received \in Nat
      /\ n \in Nat /\ Size(p) \in Nat
      /\ Size(p) = header_size + n + crc_size /\ Cells(p)[header_size] = n
  BY Position, PacketCells DEF Packet
<1> HIDE DEF p, n
<1>2. /\ header_size = sig_size + 1 /\ sig_size \in Nat /\ header_size \in 1 .. Size(p)
  BY <1>1, PacketsAssumption DEF header_size, length_size, crc_size
<1>3. m_startcurrptr + header_size <= received
  <2>1. m_startcurrptr = 0 \/ m_startcurrptr + Size(p) <= received BY Position DEF p
  <2>2. header_size \in Nat /\ header_size <= Size(p) /\ Size(p) \in Nat BY <1>1, <1>2
  <2> HIDE DEF header_size
  <2> QED BY <1>1, <2>1, <2>2
<1>4. Byte(m_startcurrptr + header_size) = n BY <1>1, <1>2, <1>3, Contents DEF p
<1>5. m_startcurrptr + sig_size + 1 = m_startcurrptr + header_size BY <1>1, <1>2
<1>6. Field(sig_size, length_size)[1] = Byte(m_startcurrptr + sig_size + 1)
  BY DEF Field, length_size
<1> QED BY <1>3, <1>4, <1>5, <1>6 DEF n, p

\* The checksum differs only in packets that are wrong; nothing lies behind.
LEMMA Checksum ==
  ASSUME NEW i, Reading(i), NEW p, p = packets[i], p.kind = "bin", NEW n, n = p.size,
         Size(p) <= received
  PROVE  /\ End(packets, i) = received
         /\ m_startcurrptr + header_size + n + crc_size = received
         /\ Field(header_size + n, crc_size)[1] = evaluate_crc(Field(header_size, n))
              <=> p.good
<1>1. /\ p \in Packet /\ m_startcurrptr \in Nat /\ received \in Nat /\ n \in Nat
      /\ Size(p) = header_size + n + crc_size /\ Cells(p)[Size(p)] = crc_of(n, p.good)
      /\ \A x \in 1 .. n : Cells(p)[header_size + x] = DataCell
      /\ End(packets, i) = m_startcurrptr + Size(p) /\ End(packets, i) \in Nat
  BY Position, PacketCells DEF Packet
<1>2. header_size \in Nat /\ 1 <= header_size /\ crc_size = 1
  BY PacketsAssumption DEF header_size, length_size, crc_size
<1>3. End(packets, i) = received
  <2>1. m_startcurrptr = 0 \/ End(packets, i) <= received BY Position
  <2>2. ~ (End(packets, i) < received)
    <3>1. /\ packets \in Seq(Packet) /\ received \in Nat /\ received <= Len(Stream(packets))
          /\ ~ FramingOf!GoesLoose(packets, received) /\ i \in DOMAIN packets
          /\ Start(packets, i) < received
      BY Position DEF Reading, Promised, Fits
    <3>2. End(packets, i) < received => packets[i].kind = "text" BY <3>1, Tight
    <3> QED BY <3>2
  <2> QED BY <1>1, <1>2, <2>1, <2>2
<1> DEFINE data == Field(header_size, n)
<1>4. \A x \in 1 .. n : data[x] = DataCell
  <2> TAKE x \in 1 .. n
  <2>1. header_size + x \in 1 .. Size(p) /\ m_startcurrptr + (header_size + x) <= received
    BY <1>1, <1>2, <1>3
  <2>2. Byte(m_startcurrptr + (header_size + x)) = DataCell BY <1>1, <2>1, Contents
  <2>3. m_startcurrptr + header_size + x = m_startcurrptr + (header_size + x) BY <1>1, <1>2
  <2>4. data[x] = Byte(m_startcurrptr + header_size + x) BY DEF Field
  <2> QED BY <2>2, <2>3, <2>4
<1>5. DOMAIN data = 1 .. n BY DEF Field
<1>6. evaluate_crc(data) = IF n = 0 THEN Zero ELSE CrcCell
  <2> HIDE DEF data
  <2>1. n # 0 => 1 \in 1 .. n BY <1>1
  <2>2. n = 0 => 1 .. n = {} OBVIOUS
  <2>3. DataCell # Zero BY DEF DataCell, Zero
  <2> QED BY <1>4, <1>5, <2>1, <2>2, <2>3 DEF evaluate_crc
<1>7. Field(header_size + n, crc_size)[1] = crc_of(n, p.good)
  <2>1. Size(p) \in 1 .. Size(p) /\ m_startcurrptr + Size(p) <= received BY <1>1, <1>2, <1>3
  <2>2. Byte(m_startcurrptr + Size(p)) = crc_of(n, p.good) BY <1>1, <2>1, Contents
  <2>3. m_startcurrptr + (header_size + n) + 1 = m_startcurrptr + Size(p) BY <1>1, <1>2
  <2>4. Field(header_size + n, crc_size)[1] = Byte(m_startcurrptr + (header_size + n) + 1)
    BY <1>2 DEF Field
  <2> QED BY <2>2, <2>3, <2>4
<1>8. crc_of(n, p.good) = (IF n = 0 THEN Zero ELSE CrcCell) <=> p.good
  BY <1>1 DEF crc_of, BadCell, CrcCell, Zero, Packet
<1>9. m_startcurrptr + header_size + n + crc_size = received BY <1>1, <1>2, <1>3
<1> QED BY <1>3, <1>6, <1>7, <1>8, <1>9

\* The first terminator found is the end of the text.
LEMMA Terminator ==
  ASSUME NEW i, Reading(i), packets[i].kind = "text"
  PROVE  /\ Terminators = {} <=> received < End(packets, i)
         /\ Terminators # {} => m_startcurrptr + Min(Terminators) = End(packets, i)
<1> DEFINE p == packets[i]
           n == p.size
           s == m_startcurrptr
<1>1. /\ s \in Nat /\ received \in Nat /\ n \in Nat
      /\ Size(p) = n + http_lng /\ Size(p) \in Nat
      /\ \A x \in 1 .. n : Cells(p)[x] = TextCell
      /\ \A x \in 1 .. http_lng : Cells(p)[n + x] = TermCell
      /\ End(packets, i) = s + Size(p) /\ (s = 0 \/ End(packets, i) <= received)
  BY Position, PacketCells DEF Packet
<1>2. http_lng \in Nat /\ 1 <= http_lng BY PacketsAssumption
<1>3. \A x \in 1 .. Size(p) : s + x <= received => Byte(s + x) = Cells(p)[x]
  BY Contents
<1>4. \A d : d \in Terminators <=>
        /\ d \in http_lng .. received
        /\ \A x \in 1 .. http_lng : Byte(s + d - http_lng + x) = TermCell
  BY DEF Terminators
<1> HIDE DEF p, n, s
<1>5. ASSUME NEW d \in Terminators PROVE d \in Nat /\ Size(p) <= d /\ d <= received
  <2>1. d \in Nat /\ http_lng <= d /\ d <= received BY <1>1, <1>2, <1>4
  <2>2. ASSUME d < Size(p) PROVE FALSE
    <3> DEFINE x == d - http_lng + 1
    <3>1. x \in 1 .. n /\ x \in 1 .. Size(p) /\ s + x <= received
      BY <1>1, <1>2, <2>1, <2>2
    <3>2. Byte(s + x) = TextCell BY <1>1, <1>3, <3>1
    <3>3. Byte(s + d - http_lng + 1) = TermCell BY <1>2, <1>4
    <3>4. s + d - http_lng + 1 = s + x BY <1>1, <1>2, <2>1
    <3> QED BY <3>2, <3>3, <3>4 DEF TextCell, TermCell
  <2> QED BY <1>1, <2>1, <2>2
<1>6. ASSUME End(packets, i) <= received PROVE Size(p) \in Terminators
  <2>1. Size(p) \in http_lng .. received BY <1>1, <1>2, <1>6
  <2>2. ASSUME NEW x \in 1 .. http_lng PROVE Byte(s + Size(p) - http_lng + x) = TermCell
    <3>1. n + x \in 1 .. Size(p) /\ s + (n + x) <= received BY <1>1, <1>2, <1>6
    <3>2. Byte(s + (n + x)) = TermCell BY <1>1, <1>3, <3>1
    <3>3. s + Size(p) - http_lng + x = s + (n + x) BY <1>1, <1>2
    <3> QED BY <3>2, <3>3
  <2> QED BY <1>4, <2>1, <2>2
<1>7. Terminators # {} => End(packets, i) <= received
  <2> SUFFICES ASSUME NEW d \in Terminators PROVE End(packets, i) <= received
    OBVIOUS
  <2> QED BY <1>1, <1>5
<1>8. Terminators # {} => Min(Terminators) = Size(p)
  <2>1. Safe BY DEF Reading
  <2>2. Terminators # {} => Min(Terminators) \in Terminators
                            /\ \A d \in Terminators : d \in Nat /\ Min(Terminators) <= d
    BY <2>1, TerminatorsCame
  <2> QED BY <1>1, <1>5, <1>6, <1>7, <2>2
<1>9. End(packets, i) \in Nat BY <1>1
<1> QED BY <1>1, <1>6, <1>7, <1>8, <1>9 DEF s

-----------------------------------------------------------------------------
\* Each turn of the switch leaves the parser as it should.
LEMMA Status ==
  \A t, l \in Nat :
    /\ complStatus(t, l) < noLng <=> t < sig_size
    /\ complStatus(t, l) < noDataCrc <=> t < header_size
    /\ complStatus(t, l) < finished <=> t < header_size + l + crc_size
BY PacketsAssumption
   DEF complStatus, noSign, noLng, noDataCrc, finished, header_size, length_size, crc_size

LEMMA ReadingGoes ==
  ASSUME NEW i, Reading(i)
  PROVE  /\ running /\ ~ m_iserror /\ m_laststate # finished
         /\ Matches(packets[i]) /\ (i > 1 => type = "compound")
         /\ packets[i].kind \in {"bin", "text"}
         /\ type \in {"bin", "compound"}
         /\ received \in Nat /\ m_lng_value \in Nat
<1>1. Safe /\ running /\ Parsing(i) BY DEF Reading, InTime
<1>2. Goes BY <1>1 DEF Safe, GoesInv
<1>3. packets[i].kind \in {"bin", "text"} BY Position DEF Packet
<1>4. type \in {"bin", "compound"} /\ received \in Nat /\ m_lng_value \in Nat
  BY <1>1, Stated, CompleterAssumption DEF Numbers
<1> QED BY <1>1, <1>2, <1>3, <1>4 DEF Goes, Parsing

LEMMA SignTurn ==
  ASSUME NEW i, Reading(i), Sign
  PROVE  Outcome' /\ peeked' = peeked
<1> DEFINE known == \A x \in 1 .. sig_size : Field(0, sig_size)[x] = SigCell
           p == packets[i]
<1>1. /\ m_laststate = noSign /\ m_type' = "bin"
      /\ UNCHANGED input /\ m_startcurrptr' = m_startcurrptr
  BY DEF Sign, ReturnMore
<1>2. complStatus(received, m_lng_value) < noLng <=> received < sig_size
  BY ReadingGoes, Status
<1>3. CASE received < sig_size
  <2>1. /\ running' = FALSE /\ m_laststate' = m_laststate
        /\ m_iserror' = m_iserror /\ peeked' = peeked
    BY <1>2, <1>3 DEF Sign, ReturnMore
  <2>2. received < End(packets, i) /\ m_startcurrptr = 0 BY <1>3, Position, PacketsAssumption
  <2>3. ~ FramingOf!Refused(packets, type, i, received)
    <3>1. /\ ~ (m_startcurrptr + sig_size <= received)
          /\ ~ (m_startcurrptr + header_size <= received)
          /\ ~ (End(packets, i) <= received)
      BY <1>3, <2>2, Position, PacketsAssumption DEF header_size, length_size
    <3> QED BY <3>1, Refusal
  <2>4. Matches(p)' BY <1>1, <2>1 DEF Matches, noSign, noLng, noDataCrc, unRec
  <2>5. ~ m_iserror' /\ m_laststate' # finished BY <2>1, ReadingGoes
  <2>6. Matches(packets[i])' BY <2>4, <1>1, InputSame
  <2> QED BY <1>1, <2>1, <2>2, <2>3, <2>5, <2>6, ReturnsMore
<1>4. CASE sig_size <= received
  <2>1. m_startcurrptr + sig_size <= received /\ (known <=> p.kind = "bin")
    BY <1>4, Signature
  <2>2. ~ (received < sig_size) BY <1>4, ReadingGoes, PacketsAssumption
  <2> DEFINE fails == ~ known /\ type = "bin"
  <2>3. /\ m_laststate' = IF known THEN noLng ELSE IF fails THEN finished ELSE unRec
        /\ m_iserror' = fails /\ running' = ~ fails
        /\ peeked' = (peeked \/ m_startcurrptr + 0 + sig_size > received)
    BY <1>2, <2>2 DEF Sign, Peeks
  <2>4. peeked' = peeked
    <3>1. ~ (m_startcurrptr + 0 + sig_size > received)
      BY <2>1, Position, PacketsAssumption
    <3>2. peeked \in BOOLEAN BY Stated DEF Reading, Booleans
    <3> QED BY <2>3, <3>1, <3>2
  <2> HIDE DEF known
  <2>5. CASE p.kind = "bin"
    <3>1. m_laststate' = noLng /\ running' BY <2>1, <2>3, <2>5, Zenon
    <3>2. Matches(packets[i])'
      BY <1>1, <2>5, <3>1, InputSame DEF Matches, noLng, noDataCrc, unRec
    <3>3. Parsing(i)' BY <1>1, <3>2, InputSame DEF Reading, Parsing
    <3> QED BY <2>4, <3>1, <3>3, GoesOn
  <2>6. CASE p.kind = "text" /\ type = "compound"
    <3>1. m_laststate' = unRec /\ running' BY <2>1, <2>3, <2>6, Zenon
    <3>2. Matches(packets[i])'
      BY <1>1, <2>6, <3>1, InputSame DEF Matches, noLng, noDataCrc, unRec
    <3>3. Parsing(i)' BY <1>1, <3>2, InputSame DEF Reading, Parsing
    <3> QED BY <2>4, <3>1, <3>3, GoesOn
  <2>7. CASE p.kind = "text" /\ type = "bin"
    <3>1. ~ running' /\ m_iserror' BY <2>1, <2>3, <2>7, Zenon
    <3>2. FramingOf!Refused(packets, type, i, received) BY <2>1, <2>7, Refusal
    <3> QED BY <1>1, <2>4, <3>1, <3>2, ReturnsError
  <2> QED BY <2>5, <2>6, <2>7, ReadingGoes
<1> QED BY <1>3, <1>4, ReadingGoes, PacketsAssumption

LEMMA LengthTurn ==
  ASSUME NEW i, Reading(i), Length
  PROVE  Outcome' /\ peeked' = peeked
<1> DEFINE p == packets[i]
<1>1. /\ m_laststate = noLng /\ m_type' = m_type
      /\ UNCHANGED input /\ m_startcurrptr' = m_startcurrptr
  BY DEF Length, ReturnMore
<1>2. complStatus(received, m_lng_value) < noDataCrc <=> received < header_size
  BY ReadingGoes, Status
<1>3. p.kind = "bin" /\ m_type = "bin" BY <1>1, ReadingGoes DEF Matches
<1>4. /\ p \in Packet /\ p.size \in Nat /\ Size(p) = header_size + p.size + crc_size
      /\ header_size = sig_size + 1 /\ crc_size = 1 /\ sig_size \in Nat
  BY <1>3, Position, PacketCells, PacketsAssumption DEF Packet, header_size, length_size, crc_size
<1>5. CASE received < header_size
  <2>1. /\ running' = FALSE /\ m_laststate' = m_laststate
        /\ m_iserror' = m_iserror /\ peeked' = peeked
    BY <1>2, <1>5 DEF Length, ReturnMore
  <2>2. received < End(packets, i) /\ m_startcurrptr = 0
    <3> DEFINE n == p.size
    <3> n \in Nat BY <1>4
    <3> HIDE DEF n
    <3> QED BY <1>4, <1>5, Position DEF n
  <2>3. ~ FramingOf!Refused(packets, type, i, received)
    <3>1. ~ (m_startcurrptr + header_size <= received) /\ ~ (End(packets, i) <= received)
      BY <1>5, <1>4, <2>2, Position
    <3> QED BY <1>3, <3>1, Refusal
  <2>4. ~ m_iserror' /\ m_laststate' # finished BY <2>1, ReadingGoes
  <2>5. Matches(packets[i])'
    BY <1>1, <1>3, <2>1, InputSame DEF Matches, noLng, noDataCrc, unRec
  <2> QED BY <1>1, <2>1, <2>2, <2>3, <2>4, <2>5, ReturnsMore
<1>6. CASE header_size <= received
  <2>1. m_startcurrptr + header_size <= received /\ Field(sig_size, length_size)[1] = p.size
    BY <1>3, <1>6, LengthField
  <2>2. ~ (received < header_size) BY <1>4, <1>6, ReadingGoes
  <2> DEFINE fails == m_lng_value' > max_valid_size
  <2>3. /\ m_lng_value' = p.size
        /\ m_laststate' = IF fails THEN finished ELSE noDataCrc
        /\ m_iserror' = fails /\ running' = ~ fails
        /\ peeked' = (peeked \/ m_startcurrptr + sig_size + length_size > received)
    BY <1>2, <2>1, <2>2 DEF Length, Peeks
  <2>4. peeked' = peeked
    <3>1. ~ (m_startcurrptr + sig_size + length_size > received)
      BY <1>4, <2>1, Position DEF length_size
    <3>2. peeked \in BOOLEAN BY Stated DEF Reading, Booleans
    <3> QED BY <2>3, <3>1, <3>2
  <2>5. fails \in BOOLEAN /\ (fails <=> p.size > max_valid_size) BY <2>3
  <2> HIDE DEF fails
  <2>6. CASE fails
    <3>1. ~ running' /\ m_iserror' BY <2>3, <2>6, Zenon
    <3>2. FramingOf!Refused(packets, type, i, received) BY <1>3, <2>1, <2>5, <2>6, Refusal
    <3> QED BY <1>1, <2>4, <3>1, <3>2, ReturnsError
  <2>7. CASE ~ fails
    <3>1. m_laststate' = noDataCrc /\ running' BY <2>3, <2>7, Zenon
    <3>2. p.size <= max_valid_size BY <1>4, <2>5, <2>7, PacketsAssumption
    <3>3. Matches(packets[i])'
      BY <1>1, <1>3, <2>3, <3>1, <3>2, InputSame DEF Matches, noLng, noDataCrc, unRec
    <3>4. Parsing(i)' BY <1>1, <3>3, InputSame DEF Reading, Parsing
    <3> QED BY <2>4, <3>1, <3>4, GoesOn
  <2> QED BY <2>6, <2>7
<1> QED BY <1>4, <1>5, <1>6, ReadingGoes

LEMMA DataCrcTurn ==
  ASSUME NEW i, Reading(i), DataCrc
  PROVE  Outcome' /\ peeked' = peeked
<1> DEFINE p == packets[i]
           n == m_lng_value
           crc_ofs == header_size + n
           fails == Field(crc_ofs, crc_size)[1] /= evaluate_crc(Field(header_size, n))
           next == m_startcurrptr + crc_ofs + crc_size
           behind == ~ fails /\ next < received
<1>1. /\ m_laststate = noDataCrc /\ m_type' = m_type /\ m_lng_value' = m_lng_value
      /\ UNCHANGED input /\ running' = FALSE
  BY DEF DataCrc, ReturnMore
<1>2. complStatus(received, n) < finished <=> received < header_size + n + crc_size
  BY ReadingGoes, Status
<1>3. p.kind = "bin" /\ m_type = "bin" /\ n = p.size /\ n <= max_valid_size /\ n \in Nat
  BY <1>1, ReadingGoes DEF Matches
<1>4. /\ p \in Packet /\ Size(p) = header_size + n + crc_size /\ p.good \in BOOLEAN
      /\ header_size \in Nat /\ crc_size = 1
  <2>1. p \in Packet BY Position
  <2>2. Size(p) = header_size + p.size + crc_size BY <1>3, <2>1, PacketCells
  <2>3. p.good \in BOOLEAN BY <2>1 DEF Packet
  <2>4. header_size \in Nat /\ crc_size = 1
    BY PacketsAssumption DEF header_size, length_size, crc_size
  <2> QED BY <1>3, <2>1, <2>2, <2>3, <2>4
<1>5. CASE received < Size(p)
  <2>1. /\ m_laststate' = m_laststate /\ m_iserror' = m_iserror /\ peeked' = peeked
        /\ m_startcurrptr' = m_startcurrptr
    BY <1>2, <1>4, <1>5 DEF DataCrc, ReturnMore
  <2>2. received < End(packets, i) BY <1>5, Position
  <2>3. ~ FramingOf!Refused(packets, type, i, received)
    <3>1. ~ (p.size > max_valid_size) /\ ~ (End(packets, i) <= received)
      BY <1>3, <2>2, Position, PacketsAssumption
    <3> QED BY <1>3, <3>1, Refusal
  <2>4. ~ m_iserror' /\ m_laststate' # finished BY <2>1, ReadingGoes
  <2>5. Matches(packets[i])'
    BY <1>1, <1>3, <2>1, InputSame DEF Matches, noLng, noDataCrc, unRec
  <2> QED BY <1>1, <2>1, <2>2, <2>3, <2>4, <2>5, ReturnsMore
<1>6. CASE Size(p) <= received
  <2>1. End(packets, i) = received /\ next = received /\ (~ fails <=> p.good)
    <3>1. /\ End(packets, i) = received
          /\ m_startcurrptr + header_size + n + crc_size = received
          /\ Field(header_size + n, crc_size)[1] = evaluate_crc(Field(header_size, n)) <=> p.good
      BY <1>3, <1>6, Checksum
    <3>2. next = m_startcurrptr + header_size + n + crc_size
      BY <1>3, <1>4, Position
    <3> QED BY <3>1, <3>2
  <2>2. ~ (received < header_size + n + crc_size)
    BY <1>3, <1>4, <1>6, ReadingGoes
  <2>3. /\ m_iserror' = fails
        /\ m_laststate' = IF fails THEN noDataCrc ELSE IF behind THEN noSign ELSE finished
        /\ m_startcurrptr' = IF behind THEN next ELSE m_startcurrptr
        /\ peeked' = (peeked \/ m_startcurrptr + crc_ofs + crc_size > received)
    BY <1>2, <2>2 DEF DataCrc, Peeks
  <2>4. peeked' = peeked
    <3>1. ~ (m_startcurrptr + crc_ofs + crc_size > received) BY <2>1, ReadingGoes
    <3>2. peeked \in BOOLEAN BY Stated DEF Reading, Booleans
    <3> QED BY <2>3, <3>1, <3>2
  <2>5. ~ behind BY <2>1, ReadingGoes
  <2> HIDE DEF fails, behind, next, crc_ofs
  <2>6. m_startcurrptr' = m_startcurrptr BY <2>3, <2>5, Zenon
  <2>7. CASE fails
    <3>1. ~ running' /\ m_iserror' BY <1>1, <2>3, <2>7, Zenon
    <3>2. FramingOf!Refused(packets, type, i, received)
      BY <1>3, <2>1, <2>7, Refusal, ReadingGoes
    <3> QED BY <1>1, <2>4, <3>1, <3>2, ReturnsError
  <2>8. CASE ~ fails
    <3>1. ~ running' /\ ~ m_iserror' /\ m_laststate' = finished
      BY <1>1, <2>3, <2>5, <2>8, Zenon
    <3>2. ~ FramingOf!Refused(packets, type, i, received)
      <4>1. ~ (p.size > max_valid_size) BY <1>3, PacketsAssumption
      <4> QED BY <1>3, <2>1, <2>8, <4>1, Refusal
    <3>3. p.good BY <2>1, <2>8
    <3>4. m_type' = p.kind BY <1>1, <1>3
    <3> QED BY <1>1, <2>1, <2>4, <2>6, <3>1, <3>2, <3>3, <3>4, ReturnsDone
  <2> QED BY <2>7, <2>8
<1> QED BY <1>3, <1>4, <1>5, <1>6, ReadingGoes

LEMMA UnRecTurn ==
  ASSUME NEW i, Reading(i), UnRec
  PROVE  Outcome' /\ peeked' = peeked
<1> DEFINE p == packets[i]
           next == m_startcurrptr + Min(Terminators)
           last == next = received
<1>1. /\ m_laststate = unRec /\ m_type' = "text"
      /\ UNCHANGED input /\ m_lng_value' = m_lng_value /\ m_iserror' = m_iserror
  BY DEF UnRec, ReturnMore
<1>2. p.kind = "text" /\ type = "compound" BY <1>1, ReadingGoes DEF Matches
<1>3. ~ FramingOf!Refused(packets, type, i, received) BY <1>2, Refusal
<1>4. /\ Terminators = {} <=> received < End(packets, i)
      /\ Terminators # {} => next = End(packets, i)
  BY <1>2, Terminator
<1>5. ~ m_iserror' BY <1>1, ReadingGoes
<1>6. ASSUME received < End(packets, i), running' = FALSE, m_laststate' = m_laststate,
             m_startcurrptr' = m_startcurrptr
      PROVE  Outcome'
  <2>1. Matches(packets[i])'
    BY <1>1, <1>2, <1>6, InputSame DEF Matches, noLng, noDataCrc, unRec
  <2>2. m_laststate' # finished BY <1>6, ReadingGoes
  <2> QED BY <1>1, <1>3, <1>5, <1>6, <2>1, <2>2, ReturnsMore
<1>7. CASE received - m_startcurrptr \in 0 .. http_lng - 1
  <2>1. /\ running' = FALSE /\ m_laststate' = m_laststate /\ m_startcurrptr' = m_startcurrptr
        /\ peeked' = peeked
    BY <1>7 DEF UnRec, ReturnMore
  <2>2. received < End(packets, i)
    <3> DEFINE n == p.size
    <3>1. n \in Nat /\ Size(p) = n + http_lng BY <1>2, Position, PacketCells DEF Packet
    <3>2. End(packets, i) = m_startcurrptr + Size(p) /\ m_startcurrptr \in Nat /\ received \in Nat
      BY Position
    <3> HIDE DEF n, p
    <3> QED BY <1>7, <3>1, <3>2, PacketsAssumption
  <2> QED BY <1>6, <2>1, <2>2
<1>8. CASE received - m_startcurrptr \notin 0 .. http_lng - 1 /\ Terminators = {}
  <2>1. /\ running' = FALSE /\ m_laststate' = m_laststate /\ m_startcurrptr' = m_startcurrptr
        /\ peeked' = (peeked \/ m_startcurrptr + 0 + received > received)
    BY <1>8 DEF UnRec, Peeks
  <2>2. received < End(packets, i) BY <1>4, <1>8
  <2>3. peeked' = peeked
    <3>1. m_startcurrptr = 0 /\ received \in Nat BY <2>2, Position
    <3>2. ~ (m_startcurrptr + 0 + received > received) BY <3>1
    <3>3. peeked \in BOOLEAN BY Stated DEF Reading, Booleans
    <3> QED BY <2>1, <3>2, <3>3
  <2> QED BY <1>6, <2>1, <2>2, <2>3
<1>9. CASE received - m_startcurrptr \notin 0 .. http_lng - 1 /\ Terminators # {}
  <2>1. /\ m_laststate' = IF last THEN finished ELSE noSign
        /\ m_startcurrptr' = IF last THEN m_startcurrptr ELSE next
        /\ running' = ~ last
        /\ peeked' = (peeked \/ m_startcurrptr + 0 + Min(Terminators) > received)
    BY <1>9 DEF UnRec, Peeks
  <2>2. ~ (received < End(packets, i)) /\ next = End(packets, i) BY <1>4, <1>9
  <2>5. peeked' = peeked
    <3>1. m_startcurrptr + Min(Terminators) = End(packets, i) BY <2>2
    <3>2. m_startcurrptr \in Nat /\ received \in Nat /\ End(packets, i) \in Nat BY Position
    <3>3. Min(Terminators) \in Nat BY <1>9, TerminatorsCame DEF Reading
    <3> DEFINE d == Min(Terminators)
    <3> HIDE DEF d
    <3>4. ~ (m_startcurrptr + 0 + d > received) BY <2>2, <3>1, <3>2, <3>3 DEF d
    <3>5. peeked \in BOOLEAN BY Stated DEF Reading, Booleans
    <3> QED BY <2>1, <3>4, <3>5, Zenon DEF d
  <2> HIDE DEF next
  <2>3. CASE last
    <3>1. ~ running' /\ m_laststate' = finished /\ m_startcurrptr' = m_startcurrptr
      BY <2>1, <2>3, Zenon
    <3>2. received = End(packets, i) BY <2>2, <2>3
    <3>3. m_type' = p.kind /\ p.kind # "bin" BY <1>1, <1>2
    <3> QED BY <1>1, <1>3, <1>5, <2>5, <3>1, <3>2, <3>3, ReturnsDone
  <2>4. CASE ~ last
    <3>1. running' /\ m_laststate' = noSign /\ m_startcurrptr' = End(packets, i)
      BY <2>1, <2>2, <2>4, Zenon
    <3>2. End(packets, i) < received BY <2>2, <2>4, Position
    <3>3. i + 1 \in DOMAIN packets
      <4>1. /\ packets \in Seq(Packet) /\ received \in Nat /\ received <= Len(Stream(packets))
            /\ ~ FramingOf!GoesLoose(packets, received) /\ i \in DOMAIN packets
            /\ Start(packets, i) < received
        BY Position DEF Reading, Promised, Fits
      <4> QED BY <3>2, <4>1, Tight
    <3>4. Start(packets, i + 1) = End(packets, i)
      <4>1. i \in 1 .. Len(packets) /\ packets \in Seq(Packet) BY Position
      <4> QED BY <4>1, Order
    <3>5. Matches(packets[i + 1])'
      BY <3>1 DEF Matches, noSign, noLng, noDataCrc, unRec
    <3>6. Parsing(i + 1)'
      BY <1>1, <1>2, <3>1, <3>2, <3>3, <3>4, <3>5, InputSame DEF Parsing
    <3> QED BY <2>5, <3>1, <3>6, GoesOn
  <2> QED BY <2>3, <2>4
<1> QED BY <1>7, <1>8, <1>9

-----------------------------------------------------------------------------
\* As long as the promise holds, a call stands at some packet, and between the
\* calls the parser stands at the first, or knows the last.
Progress ==
  ~ loose => IF running THEN \E k \in DOMAIN packets : Parsing(k)
                        ELSE WaitInv /\ LastPacketIsKnown

\* The inductive invariant.
ReadInv ==
  /\ Safe
  /\ peeked => loose
  /\ ~ loose => ~ FramingOf!GoesLoose(packets, received)
  /\ Progress

LEMMA InitReadInv == CompleterInit => ReadInv
<1> SUFFICES ASSUME CompleterInit PROVE ReadInv
  OBVIOUS
<1>1. /\ packets \in PacketLists /\ type \in Types /\ memory \in Memories
      /\ received = 0 /\ transfer_counter = 1
      /\ m_laststate = noSign /\ m_startcurrptr = 0 /\ m_lng_value = 0 /\ m_type = "bin"
      /\ m_iserror = FALSE /\ running = FALSE /\ loose = FALSE /\ peeked = FALSE
  BY DEF CompleterInit
<1>2. packets \in Seq(Packet) BY <1>1, CompleterAssumption
<1>3. Numbers
  BY <1>1, CompleterAssumption DEF Numbers, noSign, unRec
<1>4. Booleans BY <1>1, Zenon DEF Booleans
<1>5. Fits
  <2>1. Len(packets) \in Nat BY <1>2, Order
  <2>2. End(packets, Len(packets)) \in Nat /\ Len(Stream(packets)) = End(packets, Len(packets))
    BY <1>2, <2>1, Order
  <2> QED BY <1>1, <2>2 DEF Fits
<1>6. GoesInv BY <1>1, CompleterAssumption DEF GoesInv
<1>7. Safe BY <1>3, <1>4, <1>5, <1>6, SafeRestated
<1>8. ~ FramingOf!GoesLoose(packets, received)
  <2>1. \A k \in DOMAIN packets : FramingOf!Start(packets, k) \in Nat
    BY <1>2, Same, Order
  <2>2. FramingOf!Begun(packets, 0) = {} BY <2>1 DEF FramingOf!Begun
  <2> QED BY <1>1, <2>2 DEF FramingOf!GoesLoose
<1>9. WaitInv /\ LastPacketIsKnown
  BY <1>1 DEF WaitInv, Matches, LastPacketIsKnown, verdict,
              noSign, noLng, noDataCrc, unRec, finished
<1> QED BY <1>1, <1>7, <1>8, <1>9 DEF ReadInv, Progress

LEMMA MoreComes == verdict = "more" => ~ running /\ Goes
BY DEF verdict, Goes

LEMMA TransferReadInv ==
  ASSUME ReadInv, NEW r \in 1 .. BufferSize, Transfer(r)
  PROVE  ReadInv'
<1>1. /\ verdict = "more" /\ received < r /\ r <= Len(Stream(packets))
      /\ received' = r /\ transfer_counter' = transfer_counter + 1
      /\ loose' = (loose \/ FramingOf!GoesLoose(packets, r)) /\ running' = TRUE
      /\ packets' = packets /\ type' = type /\ memory' = memory /\ m_laststate' = m_laststate
      /\ m_startcurrptr' = m_startcurrptr /\ m_lng_value' = m_lng_value /\ m_type' = m_type
      /\ m_iserror' = m_iserror /\ peeked' = peeked
  BY DEF Transfer, position
<1>2. ~ running /\ Goes BY <1>1, MoreComes
<1>3. Safe /\ Numbers /\ Booleans /\ packets \in Seq(Packet) BY Stated DEF ReadInv
<1>4. transfer_counter <= max_transfers + 1 BY <1>2, <1>3 DEF Safe, GoesInv
<1>5. Numbers'
  <2>1. Zeroed' <=> Zeroed BY <1>1, Zenon DEF Zeroed
  <2> QED BY <1>1, <1>3, <1>4, <2>1, CompleterAssumption DEF Numbers
<1>6. Booleans' BY <1>1, <1>3, Zenon DEF Booleans
<1>7. Fits' /\ GoesInv' BY <1>1, <1>2 DEF Fits, GoesInv, Goes
<1>8. Safe' BY <1>5, <1>6, <1>7 DEF Safe, CompleterTypeOK, Numbers, Booleans
<1>9. peeked' => loose' BY <1>1 DEF ReadInv
<1>10. ~ loose' => ~ FramingOf!GoesLoose(packets, received)' BY <1>1
<1>11. Progress'
  <2> SUFFICES ASSUME ~ loose' PROVE \E k \in DOMAIN packets' : Parsing(k)'
    BY <1>1 DEF Progress
  <2>1. WaitInv BY <1>1, <1>2 DEF ReadInv, Progress
  <2>2. m_startcurrptr = 0 /\ (packets # <<>> => Matches(packets[1]))
    BY <1>1, <1>2, <2>1 DEF WaitInv
  <2>3. Len(packets) \in Nat /\ End(packets, 0) = 0
        /\ Len(Stream(packets)) = End(packets, Len(packets))
    BY <1>3, Order
  <2>4. Len(packets) # 0 BY <1>1, <2>3
  <2>5. 1 \in DOMAIN packets /\ packets # <<>> BY <1>3, <2>3, <2>4
  <2>6. Start(packets, 1) = 0 BY <2>3 DEF Start
  <2>7. Matches(packets[1])' BY <1>1, <2>2, <2>5 DEF Matches
  <2>8. Parsing(1)' BY <1>1, <2>2, <2>5, <2>6, <2>7 DEF Parsing
  <2> QED BY <1>1, <2>5, <2>8
<1> QED BY <1>8, <1>9, <1>10, <1>11 DEF ReadInv

\* The two errors that say nothing about the bytes.
LEMMA ErrorReadInv ==
  ASSUME ReadInv, TransferFails \/ TooManyTransfers
  PROVE  ReadInv' /\ verdict' = "error"
<1>1. /\ m_iserror' = TRUE /\ running' = FALSE
      /\ UNCHANGED input /\ m_laststate' = m_laststate /\ m_startcurrptr' = m_startcurrptr
      /\ m_lng_value' = m_lng_value /\ m_type' = m_type /\ peeked' = peeked
  <2>1. CASE TransferFails
    <3>1. running = FALSE
      <4>1. ~ running BY <2>1, MoreComes DEF TransferFails
      <4>2. Booleans BY Stated DEF ReadInv
      <4> QED BY <4>1, <4>2 DEF Booleans
    <3> QED BY <2>1, <3>1 DEF TransferFails, position
  <2>2. CASE TooManyTransfers BY <2>2 DEF TooManyTransfers, position
  <2> QED BY <2>1, <2>2
<1>2. Safe /\ Numbers /\ Booleans BY Stated DEF ReadInv
<1>3. Numbers'
  <2>1. memory' = memory BY <1>1, InputSame
  <2>2. Zeroed' <=> Zeroed BY <2>1, Zenon DEF Zeroed
  <2> QED BY <1>1, <1>2, <2>2, InputSame DEF Numbers
<1>4. Booleans' BY <1>1, <1>2, InputSame, Zenon DEF Booleans
<1>5. Fits' /\ GoesInv' BY <1>1, <1>2, InputSame DEF Safe, Fits, GoesInv, Goes
<1>6. Safe' BY <1>3, <1>4, <1>5 DEF Safe, CompleterTypeOK, Numbers, Booleans
<1>7. verdict' = "error" BY <1>1 DEF verdict
<1>8. Progress' BY <1>1, <1>7 DEF Progress, WaitInv, Goes, LastPacketIsKnown
<1> QED BY <1>1, <1>6, <1>7, <1>8, InputSame DEF ReadInv

Turn == Sign \/ Length \/ DataCrc \/ UnRec

LEMMA TurnEffect ==
  ASSUME ReadInv, Turn
  PROVE  /\ Safe' /\ InTime /\ UNCHANGED input
         /\ ~ loose => Outcome' /\ peeked' = peeked
<1>1. Safe /\ InTime /\ UNCHANGED input
  BY DEF ReadInv, Turn, Sign, Length, DataCrc, UnRec, ReturnMore
<1>2. Safe' BY <1>1, SafeSign, SafeLength, SafeDataCrc, SafeUnRec DEF Turn
<1>3. ASSUME ~ loose PROVE Outcome' /\ peeked' = peeked
  <2>1. PICK i \in DOMAIN packets : Parsing(i)
    BY <1>1, <1>3 DEF ReadInv, Progress, InTime
  <2>2. Reading(i) BY <1>1, <1>3, <2>1 DEF Reading, Promised, ReadInv, Safe
  <2> QED BY <2>2, SignTurn, LengthTurn, DataCrcTurn, UnRecTurn DEF Turn
<1> QED BY <1>1, <1>2, <1>3

LEMMA TurnReadInv == ReadInv /\ Turn => ReadInv'
<1> SUFFICES ASSUME ReadInv, Turn PROVE ReadInv'
  OBVIOUS
<1>1. Safe' /\ loose' = loose /\ packets' = packets /\ received' = received
  BY TurnEffect, InputSame
<1>2. CASE loose BY <1>1, <1>2 DEF ReadInv, Progress
<1>3. CASE ~ loose
  <2>1. Outcome' /\ peeked' = peeked BY <1>3, TurnEffect
  <2>2. Progress' BY <2>1 DEF Outcome, Settled, Progress
  <2> QED BY <1>1, <1>3, <2>1, <2>2 DEF ReadInv
<1> QED BY <1>2, <1>3

LEMMA NextReadInv == ReadInv /\ [CompleterNext]_completerVars => ReadInv'
<1> SUFFICES ASSUME ReadInv, [CompleterNext]_completerVars PROVE ReadInv'
  OBVIOUS
<1>1. ASSUME NEW r \in 1 .. BufferSize, Transfer(r) PROVE ReadInv' BY <1>1, TransferReadInv
<1>2. CASE TransferFails \/ TooManyTransfers BY <1>2, ErrorReadInv
<1>3. CASE Turn BY <1>3, TurnReadInv
<1>4. CASE UNCHANGED completerVars
  BY <1>4 DEF completerVars, input, position, ReadInv, Safe, CompleterTypeOK, Zeroed, Fits, GoesInv,
              Goes, Progress, Parsing, Matches, WaitInv, LastPacketIsKnown, verdict
<1> QED BY <1>1, <1>2, <1>3, <1>4 DEF CompleterNext, do_completer, Turn

\* Types: in particular, in a zeroed buffer the packet that comes next never
\* starts behind the bytes that have come, and no read asks more than max_transfers + 2 times.
THEOREM Completer_TypeOK == CompleterSpec => []CompleterTypeOK
<1>1. CompleterInit => ReadInv BY InitReadInv
<1>2. ReadInv /\ [CompleterNext]_completerVars => ReadInv' BY NextReadInv
<1>3. ReadInv => CompleterTypeOK BY DEF ReadInv, Safe
<1> QED BY <1>1, <1>2, <1>3, PTL DEF CompleterSpec

\* No field is taken from bytes that have not come, however the stream is cut,
\* before a piece has come that voids the promise.
THEOREM Completer_NoFieldBeyondReceived == CompleterSpec => []NoFieldBeyondReceived
<1>1. CompleterInit => ReadInv BY InitReadInv
<1>2. ReadInv /\ [CompleterNext]_completerVars => ReadInv' BY NextReadInv
<1>3. ReadInv => NoFieldBeyondReceived BY DEF ReadInv, Safe, NoFieldBeyondReceived
<1> QED BY <1>1, <1>2, <1>3, PTL DEF CompleterSpec

\* A read that ends without an error leaves offset and type of the packet it
\* ended with, whole and right, for process_output_data.
THEOREM Completer_LastPacketIsKnown == CompleterSpec => []LastPacketIsKnown
<1>1. CompleterInit => ReadInv BY InitReadInv
<1>2. ReadInv /\ [CompleterNext]_completerVars => ReadInv' BY NextReadInv
<1>3. ReadInv => LastPacketIsKnown BY DEF ReadInv, Progress, LastPacketIsKnown, verdict
<1> QED BY <1>1, <1>2, <1>3, PTL DEF CompleterSpec

-----------------------------------------------------------------------------
\* Each step of the completer is one of Framing, or changes nothing there.
LEMMA FramingInit == CompleterInit => FramingOf!Init
<1> SUFFICES ASSUME CompleterInit PROVE FramingOf!Init
  OBVIOUS
<1>1. packets \in PacketLists /\ type \in Types /\ received = 0 /\ transfer_counter = 1
      /\ m_laststate = noSign /\ ~ m_iserror /\ ~ running /\ loose = FALSE
  BY DEF CompleterInit
<1> QED BY <1>1, CompleterAssumption DEF FramingOf!Init, verdict, noSign, finished


LEMMA FramingTransfer ==
  ASSUME ReadInv, NEW r \in 1 .. BufferSize, Transfer(r)
  PROVE  FramingOf!Ask(r)
<1>1. /\ verdict = "more" /\ received < r /\ r <= Len(Stream(packets)) /\ r <= BufferSize
      /\ received' = r /\ transfer_counter' = transfer_counter + 1
      /\ loose' = (loose \/ FramingOf!GoesLoose(packets, r)) /\ running'
      /\ packets' = packets /\ type' = type
  BY DEF Transfer
<1>2. verdict' = "asked" BY <1>1 DEF verdict
<1>3. Len(FramingOf!Stream(packets)) = Len(Stream(packets)) BY Same
<1> QED BY <1>1, <1>2, <1>3 DEF FramingOf!Ask

LEMMA FramingError ==
  ASSUME ReadInv
  PROVE  /\ TransferFails => FramingOf!Break
         /\ TooManyTransfers => FramingOf!Answer
<1>1. ASSUME TransferFails PROVE FramingOf!Break
  <2>1. verdict = "more" /\ UNCHANGED input BY <1>1 DEF TransferFails
  <2>2. verdict' = "error" BY <1>1, ErrorReadInv
  <2> QED BY <2>1, <2>2, InputSame DEF FramingOf!Break
<1>2. ASSUME TooManyTransfers PROVE FramingOf!Answer
  <2>1. running /\ transfer_counter > max_transfers + 1 /\ UNCHANGED input
    BY <1>2 DEF TooManyTransfers
  <2>2. verdict = "asked" /\ verdict' = "error" BY <1>2, <2>1, ErrorReadInv DEF verdict
  <2> QED BY <2>1, <2>2, InputSame DEF FramingOf!Answer
<1> QED BY <1>1, <1>2

LEMMA FramingTurn ==
  ASSUME ReadInv, Turn
  PROVE  FramingOf!Answer \/ UNCHANGED FramingOf!vars
<1>1. /\ running /\ transfer_counter <= max_transfers + 1 /\ UNCHANGED input
      /\ (~ loose => Outcome')
  BY TurnEffect DEF InTime
<1>2. /\ packets' = packets /\ type' = type /\ received' = received
      /\ transfer_counter' = transfer_counter /\ loose' = loose
  BY <1>1, InputSame
<1>3. verdict = "asked" BY <1>1 DEF verdict
<1>4. CASE running'
  <2>1. verdict' = "asked" BY <1>4 DEF verdict
  <2> QED BY <1>2, <1>3, <2>1 DEF FramingOf!vars
<1>5. CASE ~ running'
  <2>1. verdict' \in {"more", "done", "error", "full"} BY <1>5 DEF verdict
  <2>2. ~ loose => verdict' = FramingOf!Ideal(packets, type, received)
    BY <1>1, <1>2, <1>5 DEF Outcome, Settled
  <2>3. ~ (transfer_counter > max_transfers + 1)
    <3>1. transfer_counter \in Nat BY Stated DEF ReadInv, Numbers
    <3> QED BY <1>1, <3>1, CompleterAssumption
  <2> QED BY <1>2, <1>3, <2>1, <2>2, <2>3, Zenon DEF FramingOf!Answer
<1> QED BY <1>4, <1>5

LEMMA FramingNext ==
  ReadInv /\ [CompleterNext]_completerVars => [FramingOf!Next]_(FramingOf!vars)
<1> SUFFICES ASSUME ReadInv, [CompleterNext]_completerVars PROVE [FramingOf!Next]_(FramingOf!vars)
  OBVIOUS
<1>1. ASSUME NEW r \in 1 .. BufferSize, Transfer(r) PROVE FramingOf!Next
  BY <1>1, FramingTransfer DEF FramingOf!Next
<1>2. CASE TransferFails \/ TooManyTransfers BY <1>2, FramingError DEF FramingOf!Next
<1>3. CASE Turn BY <1>3, FramingTurn DEF FramingOf!Next
<1>4. CASE UNCHANGED completerVars
  BY <1>4 DEF completerVars, input, FramingOf!vars, verdict
<1> QED BY <1>1, <1>2, <1>3, <1>4 DEF CompleterNext, do_completer, Turn

\* The completers answer as Framing does, from the bytes alone: they refuse what
\* is wrong as soon as it shows, end a read at the end of a packet, and ask for
\* more otherwise.  (That every call returns is for the runs.)
THEOREM Completer_ImplementsFraming ==
  CompleterSpec => FramingOf!Init /\ [][FramingOf!Next]_(FramingOf!vars)
<1>1. CompleterInit => ReadInv /\ FramingOf!Init BY InitReadInv, FramingInit
<1>2. ReadInv /\ [CompleterNext]_completerVars => ReadInv' BY NextReadInv
<1>3. ReadInv /\ [CompleterNext]_completerVars => [FramingOf!Next]_(FramingOf!vars) BY FramingNext
<1> QED BY <1>1, <1>2, <1>3, PTL DEF CompleterSpec
=============================================================================
