----------------------------- MODULE Server_proofs -----------------------------
(***************************************************************************)
(* The server keeps its accept chains, its limit and its pools, and its    *)
(* Stop has an end in sight, for every number of threads, of sockets and   *)
(* every limit; then the group of its threads.                             *)
(***************************************************************************)
EXTENDS Server, ThreadGroup, FiniteSetTheorems, TLAPS

-----------------------------------------------------------------------------
(* The inductive invariant.                                                *)

Handles(e) == at[e].in \in HandlerPlaces
Arriving == {t \in Thread : at[t].in \in {"starting", "count"}}

\* Only threads that have been counted are counted, and the count is zero
\* whenever the server may be started.
CountInv ==
  /\ counter <= Cardinality(Thread \ Arriving)
  /\ at[Main].in \in {"clear", "join", "drain", "stopped"} \cup HandlerPlaces => counter = 0

\* Places of main in Start, and in Stop once the state was run or running.
StartPlaces == {"announce", "reset", "await"}
StopPlaces == {"forget", "clear", "join", "drain", "stopped"} \cup HandlerPlaces

\* Where the main thread and the threads can be at the same time: no handler
\* runs before the last thread has come, and none but main's own after Join;
\* only an invalid server is stopped before that.
PhaseInv ==
  /\ at[Main].in \in {"started", "failed", "abandon", "invalid", "threw"} \cup StartPlaces
                       \cup StopPlaces
  /\ \A t \in Thread : at[t].in \in {"starting", "count", "check", "switch", "loop", "poll",
                                     "throwing", "caught", "ended", "threw"} \cup HandlerPlaces
  /\ at[Main].in = "announce" =>
       mstate = "shutdowned" /\ \A t \in Thread : at[t].in = "starting"
  /\ at[Main].in \in {"reset", "await"} => mstate # "shutdowned"
  /\ \/ at[Main].in \in StopPlaces \/ mstate = "run"
     \/ \E e \in Executor : Handles(e) \/ at[e].in \in {"switch", "poll"}
     => Arriving = {}
  /\ at[Main].in \notin StartPlaces => Arriving = {} \/ mstate = "invalid"
  /\ at[Main].in \in {"stopped", "drain"} \cup HandlerPlaces =>
       \A t \in Thread : at[t].in = "ended"
  /\ at[Main].in \in StartPlaces => running
  /\ running => at[Main].in \in StartPlaces \cup {"started", "failed", "forget", "clear",
                                                 "abandon"}

\* The pools and the codes say the same; a socket is in one place: a pool
\* waits for it, one handler works on it, or a session runs on it.
SocketInv ==
  /\ \A s \in Socket, t \in Thread : s \in active[t] <=> code[s] = t
  /\ \A e \in Executor :
       /\ Handles(e) => /\ at[e].s \in Socket /\ accepting[at[e].s] = "no"
                        /\ at[e].s \notin served
       /\ ~Handles(e) => at[e].s = NoSocket
  /\ \A e, f \in Executor : Handles(e) /\ at[e].s = at[f].s => e = f
  /\ \A s \in served : accepting[s] = "no"

\* What is left of a stopped server, for the next start.
StopInv ==
  /\ \A s \in Socket : accepting[s] = "aborted" => ~running
  /\ \A e \in Executor : at[e].in = "connected" =>
       /\ at[e].arg \in {"ok", "error", "aborted"}
       /\ at[e].arg = "aborted" => ~running
  /\ at[Main].in = "stopped" => served = {} /\ \A s \in Socket : accepting[s] = "no"
  /\ \A t \in Thread : at[t].in = "starting" => active[t] = {}
  /\ \A t \in Thread : ~late /\ at[t].in = "ended" => active[t] = {}

\* The code by which the next socket is registered is still that of the
\* connection, unless its thread has left.
RegisterInv ==
  \A e \in Executor : at[e].in = "register" =>
    /\ at[e].arg \in Thread \cup {NoThCode}
    /\ \/ code[at[e].s] = at[e].arg
       \/ code[at[e].s] = NoThCode /\ \A t \in Thread : t = at[e].arg => at[t].in = "ended"

\* m_connmtx is held from the look at the size of the pool to the accept, and
\* the size that was seen is still below the limit.
LimitInv ==
  /\ \A e \in Executor : at[e].in \in {"admit", "accept", "register"} <=> connmtx = e
  /\ \A t \in Thread : IsFiniteSet(active[t]) /\ Cardinality(active[t]) <= Limit
  /\ \A e \in Executor : at[e].in = "accept" /\ code[at[e].s] # NoThCode =>
       Cardinality(active[code[at[e].s]]) < Limit
  /\ \A e \in Executor : at[e].in = "register" =>
       \A t \in Thread : t = at[e].arg => Cardinality(active[t]) < Limit

\* A thread that has begun to accept has one chain and one only.
Serving == {"count", "check", "switch", "loop", "poll"} \cup HandlerPlaces
ChainInv ==
  running => \A t \in Thread \ refused : at[t].in \in Serving =>
               \E x \in Socket : Chain(t) = {x}

IInv == /\ TypeOK /\ CountInv /\ PhaseInv /\ SocketInv /\ StopInv /\ RegisterInv
        /\ LimitInv /\ ChainInv

-----------------------------------------------------------------------------
Places == {"stopped", "announce", "reset", "await", "started", "failed", "forget", "clear",
           "abandon", "join", "invalid", "drain", "starting", "count", "check", "switch", "loop",
           "poll", "throwing", "caught", "ended", "threw"} \cup HandlerPlaces
PlaceOf == [in : Places, s : Socket \cup {NoSocket},
            arg : {"ok", "error", "aborted", NoThCode} \cup Thread]

\* The names are different from each other.
LEMMA Names ==
  /\ Main \in Executor /\ Main \notin Thread /\ Thread \subseteq Executor
  /\ \A e \in Executor : e = Main \/ e \in Thread
  /\ NoThCode \notin Thread /\ Free \notin Executor /\ NoSocket \notin Socket
  BY MainAssumption, NamesAssumption DEF Executor

LEMMA Places_ ==
  /\ \A p \in Places : Place(p) \in PlaceOf /\ Place(p).in = p /\ Place(p).s = NoSocket
  /\ \A p \in Places, s \in Socket \cup {NoSocket}, a \in {"ok", "error", "aborted", NoThCode} \cup Thread :
       [in |-> p, s |-> s, arg |-> a] \in PlaceOf
  BY DEF Place, PlaceOf, NoThCode

\* A move of one executor keeps the type of the places.
LEMMA Moves ==
  ASSUME at \in [Executor -> PlaceOf], NEW e \in Executor, NEW r \in PlaceOf,
         at' = [at EXCEPT ![e] = r]
  PROVE  /\ at' \in [Executor -> PlaceOf] /\ at'[e] = r
         /\ \A f \in Executor \ {e} : at'[f] = at[f]
  OBVIOUS

\* What is free is nowhere.
LEMMA FreeSocket ==
  ASSUME FreeSockets # {}
  PROVE  LET s == CHOOSE x \in FreeSockets : TRUE IN
           /\ s \in Socket /\ \A t \in Thread : s \notin active[t]
           /\ accepting[s] = "no" /\ s \notin served
           /\ \A e \in Executor : at[e].s # s
  BY DEF FreeSockets

\* do_accept as an existential.
LEMMA Accepted ==
  ASSUME NEW t, do_accept(t)
  PROVE  \E s \in Socket :
           /\ \A u \in Thread : s \notin active[u]
           /\ accepting[s] = "no" /\ s \notin served
           /\ \A e \in Executor : at[e].s # s
           /\ code' = [code EXCEPT ![s] = t]
           /\ accepting' = [accepting EXCEPT ![s] = "pending"]
           /\ active' = [u \in Thread |-> IF u = t THEN active[u] \cup {s} ELSE active[u]]
           /\ late' = (late \/ \E u \in Thread : u = t /\ at[u].in \in Ended)
  BY FreeSocket DEF do_accept

LEMMA InitIInv == Init => IInv
<1> SUFFICES ASSUME Init PROVE IInv
  OBVIOUS
<1>1. TypeOK
  <2>1. at \in [Executor -> PlaceOf] BY Places_ DEF Init, Places
  <2>2. counter \in 0 .. Cardinality(Thread)
    BY ThreadAssumption, FS_CardinalityType DEF Init
  <2>3. running \in BOOLEAN /\ late \in BOOLEAN BY Zenon DEF Init
  <2> QED BY <2>1, <2>2, <2>3 DEF Init, TypeOK, PlaceOf, Places
<1>2. CountInv
  <2>1. Cardinality(Thread \ Arriving) \in Nat
    BY ThreadAssumption, FS_Subset, FS_CardinalityType DEF Arriving
  <2> QED BY <2>1 DEF Init, CountInv
<1>3. at[Main] = Place("stopped") /\ \A t \in Thread : at[t] = Place("ended")
  BY Names DEF Init
<1>4. PhaseInv
  BY <1>3, Names DEF Init, PhaseInv, StartPlaces, StopPlaces, Handles, HandlerPlaces, Arriving,
     Place
<1>5. SocketInv BY <1>3, Names DEF Init, SocketInv, Handles, HandlerPlaces, Place
<1>6. StopInv /\ RegisterInv
  BY <1>3, Names DEF Init, StopInv, RegisterInv, Place
<1>7. LimitInv
  BY <1>3, Names, FS_EmptySet, LimitAssumption DEF Init, LimitInv, Place
<1>8. ChainInv BY DEF Init, ChainInv
<1> QED BY <1>1, <1>2, <1>4, <1>5, <1>6, <1>7, <1>8 DEF IInv

-----------------------------------------------------------------------------
(* Types.                                                                  *)

\* Every step moves one executor, or none, except Start.
LEMMA AtType ==
  ASSUME TypeOK, SocketInv, Next
  PROVE  at' \in [Executor -> PlaceOf]
<1>0. at \in [Executor -> PlaceOf] BY DEF TypeOK, Places, PlaceOf
<1> USE Places_, Names
<1>1. ASSUME NEW e \in Executor, NEW p \in Places, Goto(e, p)
      PROVE  at' \in [Executor -> PlaceOf]
  <2>1. Place(p) \in PlaceOf OBVIOUS
  <2> QED BY <1>0, <1>1, <2>1 DEF Goto
<1>2. ASSUME NEW e \in Executor, NEW p \in Places, NEW s \in Socket \cup {NoSocket},
             NEW a \in {"ok", "error", "aborted", NoThCode} \cup Thread, Handling(e, p, s, a)
      PROVE  at' \in [Executor -> PlaceOf]
  <2>1. [in |-> p, s |-> s, arg |-> a] \in PlaceOf OBVIOUS
  <2> QED BY <1>0, <1>2, <2>1 DEF Handling
<1> USE DEF Places, HandlerPlaces
<1>3. CASE Control \/ Advance
  <2>1. CASE Start
    BY <2>1 DEF Start
  <2>2. CASE ~Start
    BY <1>0, <1>1, <1>3, <2>2 DEF Control, Advance, Stop, StopCounter, StopInvalid, StopLoop,
       JoinGivesUp, Announce,
       ResetCounter, Await, Join, Drained
  <2> QED BY <2>1, <2>2
<1>4. ASSUME NEW t \in Thread, Thread_(t) PROVE at' \in [Executor -> PlaceOf]
  BY <1>1, <1>4 DEF Thread_, AcceptFirst, Count, Check, Switch, Poll,
       PollReturns, Leave, Catch
<1>5. ASSUME NEW e \in Executor, Handlers(e) PROVE at' \in [Executor -> PlaceOf]
  <2>0. Idle(e) \in Places BY DEF Idle
  <2>1. CASE OnConnected(e)
    <3>1. PICK s \in Socket : /\ accepting[s] \in {"ok", "error", "aborted"}
                              /\ \/ Goto(e, Idle(e))
                                 \/ Handling(e, "connected", s, accepting[s])
      BY <2>1 DEF OnConnected
    <3> QED BY <1>1, <1>2, <2>0, <3>1
  <2>2. at[e].s \in Socket \cup {NoSocket} BY <1>0 DEF PlaceOf
  <2>3. CASE LockConn(e)
    BY <1>1, <1>2, <2>0, <2>2, <2>3 DEF LockConn
  <2>4. CASE Admit(e)
    BY <1>1, <1>2, <2>0, <2>2, <2>4 DEF Admit
  <2>5. CASE Accept(e)
    <3>1. at[e].s \in Socket BY <2>5 DEF Accept, SocketInv, Handles, HandlerPlaces
    <3>2. code[at[e].s] \in Thread \cup {NoThCode} BY <3>1 DEF TypeOK
    <3> QED BY <1>1, <1>2, <2>0, <2>2, <2>5, <3>2 DEF Accept
  <2>6. CASE Register(e)
    BY <1>1, <2>0, <2>6 DEF Register
  <2> QED BY <1>5, <2>1, <2>3, <2>4, <2>5, <2>6 DEF Handlers
<1>6. ASSUME NEW e \in Executor, Throws(e) PROVE at' \in [Executor -> PlaceOf]
  BY <1>1, <1>6 DEF Throws
<1> QED BY <1>0, <1>3, <1>4, <1>5, <1>6 DEF Next, EndSession, Connect, DelayExpires

-----------------------------------------------------------------------------
(* The count and the phases.                                               *)

\* No thread begins to arrive again, except when main starts them.
LEMMA Arrive ==
  ASSUME IInv, Next, ~Start
  PROVE  /\ Arriving' \subseteq Arriving
         /\ \A t \in Thread : at'[t].in = "starting" => at[t].in = "starting"
<1> USE DEF IInv
<1>0. at \in [Executor -> PlaceOf] BY DEF TypeOK, Places, PlaceOf
<1>1. ASSUME NEW e \in Executor, NEW p, p \notin {"starting", "count"}, Goto(e, p)
      PROVE  \A t \in Thread : at'[t].in \in {"starting", "count"} => at'[t] = at[t]
  BY <1>0, <1>1, Names DEF Goto, Place
<1>2. ASSUME NEW e \in Executor, NEW p, NEW s, NEW a, p \notin {"starting", "count"},
             Handling(e, p, s, a)
      PROVE  \A t \in Thread : at'[t].in \in {"starting", "count"} => at'[t] = at[t]
  BY <1>0, <1>2, Names DEF Handling
<1>3. CASE Control \/ Advance
  BY <1>1, <1>3, Names DEF Control, Advance, Stop, StopCounter, StopInvalid, StopLoop,
     JoinGivesUp, Announce,
       ResetCounter, Await, Join, Drained, Arriving
<1>4. ASSUME NEW t \in Thread, Thread_(t)
      PROVE  /\ Arriving' \subseteq Arriving
             /\ \A u \in Thread : at'[u].in = "starting" => at[u].in = "starting"
  <2>1. CASE AcceptFirst(t)
    <3>1. Goto(t, "loop") \/ Goto(t, "count") BY <2>1 DEF AcceptFirst
    <3>2. at[t].in = "starting" BY <2>1 DEF AcceptFirst
    <3> QED BY <1>0, <3>1, <3>2, Names DEF Goto, Place, Arriving
  <2>2. CASE ~AcceptFirst(t)
    BY <1>1, <1>4, <2>2, Names DEF Thread_, Count, Check, Switch, Poll,
       PollReturns, Leave, Catch, Arriving
  <2> QED BY <2>1, <2>2
<1>5. ASSUME NEW e \in Executor, Handlers(e)
      PROVE  \A t \in Thread : at'[t].in \in {"starting", "count"} => at'[t] = at[t]
  <2>1. Idle(e) \notin {"starting", "count"} BY DEF Idle
  <2> QED BY <1>1, <1>2, <1>5, <2>1 DEF Handlers, OnConnected, LockConn, Admit, Accept, Register
<1>6. CASE (\E e \in Executor, s \in Socket : EndSession(e, s)) \/ Connect \/ DelayExpires
  BY <1>6 DEF EndSession, Connect, DelayExpires, Arriving
<1>7. ASSUME NEW e \in Executor, Throws(e)
      PROVE  \A t \in Thread : at'[t].in \in {"starting", "count"} => at'[t] = at[t]
  BY <1>1, <1>7 DEF Throws
<1> QED BY <1>3, <1>4, <1>5, <1>6, <1>7 DEF Next, Arriving

\* The threads that have been counted are finitely many.
LEMMA ArrivedCounted ==
  /\ IsFiniteSet(Thread \ Arriving) /\ Cardinality(Thread \ Arriving) \in Nat
  /\ Cardinality(Thread \ Arriving) <= Cardinality(Thread) /\ Cardinality(Thread) \in Nat
  /\ Cardinality(Thread \ Arriving) = Cardinality(Thread) => Arriving = {}
  BY ThreadAssumption, FS_Subset, FS_CardinalityType DEF Arriving

LEMMA AllCounted == CountInv /\ counter = Cardinality(Thread) => Arriving = {}
  BY ArrivedCounted DEF CountInv

LEMMA CountStep ==
  ASSUME IInv, Next
  PROVE  CountInv' /\ counter' \in Nat
<1> USE DEF IInv
<1>0. counter \in Nat /\ at \in [Executor -> PlaceOf]
  BY ArrivedCounted DEF TypeOK, Places, PlaceOf
<1>1. CASE \E t \in Thread : Count(t)
  <2> PICK t \in Thread : Count(t) BY <1>1
  <2>1. at'[t].in = "check" /\ at[t].in = "count" /\ \A u \in Executor \ {t} : at'[u] = at[u]
    BY <1>0, Names DEF Count, Goto, Place
  <2>2. Arriving' = Arriving \ {t} /\ t \in Arriving
    BY <2>1, Names DEF Arriving
  <2>3. Thread \ Arriving' = (Thread \ Arriving) \cup {t} /\ t \notin Thread \ Arriving
    BY <2>2
  <2>4. Cardinality(Thread \ Arriving') = Cardinality(Thread \ Arriving) + 1
    BY <2>3, ArrivedCounted, FS_AddElement
  <2>5. at'[Main] = at[Main] /\ at[Main].in \notin StopPlaces
    BY <2>1, <2>2, Names DEF PhaseInv
  <2> QED BY <1>0, <2>4, <2>5, ArrivedCounted DEF Count, CountInv, StopPlaces, HandlerPlaces
<1>2. CASE Start
  BY <1>0, <1>2, ArrivedCounted, ThreadAssumption, FS_Subset, FS_CardinalityType, Names DEF Start,
     CountInv, Place, HandlerPlaces
<1>3. CASE ~Start /\ ~\E t \in Thread : Count(t)
  <2>1. counter' = counter \/ counter' = 0
    BY <1>3 DEF Next, Control, Advance, Stop, StopCounter, StopInvalid, StopLoop,
       JoinGivesUp, Announce, ResetCounter,
       Await, Join, Drained, Thread_, AcceptFirst, Check, Switch, Poll,
       PollReturns, Leave, Catch, Throws, Handlers,
       OnConnected, LockConn, Admit, Accept, Register, EndSession, Connect, DelayExpires
  <2>2. Arriving' \subseteq Arriving BY <1>3, Arrive
  <2>3. counter' <= Cardinality(Thread \ Arriving')
    <3>1. Thread \ Arriving \subseteq Thread \ Arriving' BY <2>2
    <3>2. IsFiniteSet(Thread \ Arriving') BY ThreadAssumption, FS_Subset
    <3>3. /\ Cardinality(Thread \ Arriving) <= Cardinality(Thread \ Arriving')
          /\ Cardinality(Thread \ Arriving') \in Nat
      BY <3>1, <3>2, FS_Subset, FS_CardinalityType
    <3> QED BY <1>0, <2>1, <3>3, ArrivedCounted DEF CountInv
  <2>4. at'[Main].in \in {"clear", "join", "drain", "stopped"} \cup HandlerPlaces => counter' = 0
    <3>1. CASE Control \/ Advance
      BY <1>0, <1>3, <3>1, Names DEF Control, Advance, Stop, StopCounter, StopInvalid, StopLoop,
         JoinGivesUp, Announce,
         ResetCounter, Await, Join, Drained, Goto, Place, CountInv, HandlerPlaces
    <3>2. ASSUME NEW t \in Thread, Thread_(t)
          PROVE  at'[Main] = at[Main]
      BY <1>0, <1>3, <3>2, Names
         DEF Thread_, AcceptFirst, Check, Switch, Poll,
       PollReturns, Leave, Catch, Goto
    <3>3. ASSUME NEW e \in Executor, Handlers(e)
          PROVE  at'[Main] # at[Main] => at[Main].in \in {"drain"} \cup HandlerPlaces
      BY <1>0, <3>3, Names DEF Handlers, OnConnected, Dispatches, Idle, LockConn, Admit, Accept,
         Register, Goto, Handling, HandlerPlaces
    <3>4. CASE (\E e \in Executor, s \in Socket : EndSession(e, s)) \/ Connect \/ DelayExpires
      BY <3>4 DEF EndSession, Connect, DelayExpires, CountInv
    <3>5. CASE \E e \in Executor : Handlers(e)
      <4>1. counter' = counter
        BY <3>5 DEF Handlers, OnConnected, LockConn, Admit, Accept, Register
      <4> QED BY <3>3, <3>5, <4>1 DEF CountInv
    <3>6. CASE \E t \in Thread : Thread_(t) BY <2>1, <3>2, <3>6 DEF CountInv
    <3>7. ASSUME NEW e \in Executor, Throws(e)
          PROVE  /\ counter' = counter
                 /\ at'[Main] = at[Main] \/ at'[Main].in = "threw"
      BY <1>0, <3>7, Names DEF Throws, Goto, Place
    <3>8. CASE \E e \in Executor : Throws(e) BY <3>7, <3>8 DEF CountInv, HandlerPlaces
    <3> QED BY <3>1, <3>4, <3>5, <3>6, <3>8 DEF Next
  <2> QED BY <1>0, <2>1, <2>3, <2>4 DEF CountInv
<1> QED BY <1>1, <1>2, <1>3

LEMMA TypeStep ==
  ASSUME IInv, Next
  PROVE  TypeOK'
<1> USE Names DEF IInv
<1>0. /\ at' \in [Executor -> PlaceOf] /\ at \in [Executor -> PlaceOf]
      /\ counter' \in 0 .. Cardinality(Thread)
  <2>1. Cardinality(Thread \ Arriving') \in Nat
        /\ Cardinality(Thread \ Arriving') <= Cardinality(Thread)
    BY ThreadAssumption, FS_Subset, FS_CardinalityType
  <2>2. counter' \in Nat /\ counter' <= Cardinality(Thread \ Arriving') BY CountStep DEF CountInv
  <2>3. Cardinality(Thread) \in Nat BY ThreadAssumption, FS_CardinalityType
  <2>4. counter' \in 0 .. Cardinality(Thread) BY <2>1, <2>2, <2>3
  <2> QED BY AtType, <2>4 DEF TypeOK, Places, PlaceOf
<1>1. mstate' \in {"invalid", "shutdowned", "running", "run"} /\ running' \in BOOLEAN
  <2> USE DEF TypeOK
  <2>1. CASE Control
    BY <2>1 DEF Control, Start, Stop, StopCounter, StopInvalid, StopLoop, JoinGivesUp
  <2>2. CASE Advance
    BY <2>2 DEF Advance, Announce, ResetCounter, Await, StopCounter, StopLoop, Join, JoinGivesUp,
       Drained
  <2>3. CASE \E t \in Thread : Thread_(t)
    BY <2>3 DEF Thread_, AcceptFirst, Count, Check, Switch, Poll,
       PollReturns, Leave, Catch
  <2>4. CASE \E e \in Executor : Handlers(e)
    BY <2>4 DEF Handlers, OnConnected, LockConn, Admit, Accept, Register
  <2>5. CASE (\E e \in Executor, s \in Socket : EndSession(e, s)) \/ Connect \/ DelayExpires
    BY <2>5 DEF EndSession, Connect, DelayExpires
  <2>6. CASE \E e \in Executor : Throws(e) BY <2>6 DEF Throws
  <2> QED BY <2>1, <2>2, <2>3, <2>4, <2>5, <2>6 DEF Next
<1>2. ASSUME NEW t \in Thread \cup {NoThCode}, do_accept(t)
      PROVE  /\ code' \in [Socket -> Thread \cup {NoThCode}]
             /\ accepting' \in [Socket -> {"no", "pending", "ok", "error", "aborted", "delayed"}]
             /\ active' \in [Thread -> SUBSET Socket] /\ late' \in BOOLEAN
  <2> DEFINE ended == \E u \in Thread : u = t /\ at[u].in \in Ended
  <2>0. late' = (late \/ ended) BY <1>2 DEF do_accept
  <2> HIDE DEF ended
  <2>1. late' \in BOOLEAN
    <3>1. CASE late \/ ended BY <2>0, <3>1, Zenon
    <3>2. CASE ~(late \/ ended) BY <2>0, <3>2, Zenon
    <3> QED BY <3>1, <3>2
  <2>2. PICK s \in Socket : /\ code' = [code EXCEPT ![s] = t]
                             /\ accepting' = [accepting EXCEPT ![s] = "pending"]
                             /\ active' = [u \in Thread |-> IF u = t THEN active[u] \cup {s}
                                                            ELSE active[u]]
    BY <1>2, Accepted
  <2> QED BY <2>1, <2>2 DEF TypeOK
<1>3. ASSUME NEW s \in Socket, Close(s)
      PROVE  /\ code' \in [Socket -> Thread \cup {NoThCode}]
             /\ active' \in [Thread -> SUBSET Socket]
  BY <1>3 DEF Close, TypeOK
<1>4. CASE Control \/ Advance
  BY <1>0, <1>1, <1>4 DEF Control, Advance, Start, Stop, StopCounter, StopInvalid, StopLoop,
     JoinGivesUp, Announce,
     ResetCounter, Await, Join, Drained, sockets, history, TypeOK, PlaceOf, Places
<1>5. ASSUME NEW t \in Thread, Thread_(t) PROVE TypeOK'
  <2>1. CASE AcceptFirst(t)
    BY <1>0, <1>1, <1>2, <2>1 DEF AcceptFirst, TypeOK, PlaceOf, Places
  <2>2. CASE ~AcceptFirst(t)
    BY <1>0, <1>1, <1>5, <2>2 DEF Thread_, Count, Check, Switch, Poll,
       PollReturns, Leave, Catch, sockets,
       history,
       TypeOK, PlaceOf, Places
  <2> QED BY <2>1, <2>2
<1>6. ASSUME NEW e \in Executor, Handlers(e) PROVE TypeOK'
  <2>0. at[e].in \in HandlerPlaces => at[e].s \in Socket BY DEF SocketInv, Handles
  <2>1. CASE Register(e)
    <3>1. at[e].arg \in Thread \cup {NoThCode} /\ at[e].s \in Socket
      BY <2>0, <2>1 DEF Register, RegisterInv, HandlerPlaces
    <3> QED BY <1>0, <1>1, <1>2, <2>1, <3>1 DEF Register, TypeOK, PlaceOf, Places
  <2>2. CASE LockConn(e)
    <3>1. at[e].s \in Socket /\ code[at[e].s] \in Thread \cup {NoThCode}
      BY <2>0, <2>2 DEF LockConn, HandlerPlaces, TypeOK
    <3> QED BY <1>0, <1>1, <1>3, <2>2, <3>1 DEF LockConn, TypeOK, PlaceOf, Places
  <2>3. CASE OnConnected(e) \/ Admit(e) \/ Accept(e)
    BY <1>0, <1>1, <2>3 DEF OnConnected, Admit, Accept, sockets, history, TypeOK, PlaceOf,
       Places
  <2> QED BY <1>6, <2>1, <2>2, <2>3 DEF Handlers
<1>7. CASE (\E e \in Executor, s \in Socket : EndSession(e, s)) \/ Connect \/ DelayExpires
  BY <1>0, <1>1, <1>3, <1>7 DEF EndSession, Connect, DelayExpires, history, TypeOK, PlaceOf,
     Places
<1>8. ASSUME NEW e \in Executor, Throws(e) PROVE TypeOK'
  <2>1. connmtx' \in Executor \cup {Free} /\ refused' \subseteq Thread
    BY <1>8 DEF Throws, TypeOK
  <2> QED BY <1>0, <1>1, <1>8, <2>1 DEF Throws, sockets, TypeOK, PlaceOf, Places
<1> QED BY <1>4, <1>5, <1>6, <1>7, <1>8 DEF Next

LEMMA PhaseStep ==
  ASSUME IInv, Next
  PROVE  PhaseInv'
<1> USE Names DEF IInv
<1>0. at \in [Executor -> PlaceOf] /\ mstate \in {"invalid", "shutdowned", "running", "run"}
  BY DEF TypeOK, Places, PlaceOf
<1>1. CASE Start
  BY <1>1 DEF Start, PhaseInv, StartPlaces, StopPlaces, Handles, HandlerPlaces, Arriving, Place
<1>2. CASE (Control \/ Advance) /\ ~Start
  <2>1. \A t \in Thread : at'[t] = at[t]
    BY <1>0, <1>2 DEF Control, Advance, Stop, StopCounter, StopInvalid, StopLoop, JoinGivesUp,
       Announce, ResetCounter, Await, Join, Drained, Goto
  <2>2. Arriving' = Arriving BY <2>1 DEF Arriving
  <2> USE <1>0, <2>1, <2>2 DEF Goto, Place, Handles, HandlerPlaces, StartPlaces, StopPlaces
  <2>3. CASE Announce BY <2>3 DEF Announce, PhaseInv, Arriving
  <2>4. CASE ResetCounter BY <2>4 DEF ResetCounter, PhaseInv
  <2>5. CASE Await BY <2>5 DEF Await, PhaseInv, Arrived, Arriving
  <2>6. CASE Stop \/ StopInvalid BY <2>6 DEF Stop, StopInvalid, PhaseInv
  <2>9. CASE StopCounter \/ StopLoop BY <2>9 DEF StopCounter, StopLoop, PhaseInv
  <2>7. CASE JoinGivesUp \/ Join BY <2>7 DEF JoinGivesUp, Join, PhaseInv, Ended
  <2>8. CASE Drained BY <2>8 DEF Drained, PhaseInv
  <2> QED BY <1>2, <2>3, <2>4, <2>5, <2>6, <2>7, <2>8, <2>9 DEF Control, Advance
<1>3. ASSUME NEW t \in Thread, Thread_(t) PROVE PhaseInv'
  <2>0. \A e \in Executor \ {t} : at'[e] = at[e]
    BY <1>0, <1>3 DEF Thread_, AcceptFirst, Count, Check, Switch, Poll, PollReturns, Leave,
       Catch, Goto
  <2>1. Arriving' \subseteq Arriving /\ at'[Main] = at[Main]
    <3>1. ~Start BY <2>0, Names DEF Start, Place, PhaseInv, StartPlaces, StopPlaces, HandlerPlaces
    <3> QED BY <2>0, <3>1, Arrive
  <2> USE <1>0, <2>0, <2>1 DEF Goto, Place, Handles, HandlerPlaces, StartPlaces, StopPlaces
  <2>2. CASE AcceptFirst(t) BY <2>2 DEF AcceptFirst, PhaseInv, Arriving
  <2>3. CASE Count(t) BY <2>3 DEF Count, PhaseInv, Arriving
  <2>4. CASE Check(t)
    <3>1. at'[t].in = "switch" => counter = Cardinality(Thread) BY <2>4 DEF Check
    <3>2. counter = Cardinality(Thread) => Arriving = {} BY AllCounted
    <3> QED BY <2>4, <3>1, <3>2 DEF Check, PhaseInv
  <2>5. CASE Switch(t) BY <2>5 DEF Switch, PhaseInv
  <2>8. CASE Poll(t) \/ PollReturns(t) BY <2>8 DEF Poll, PollReturns, PhaseInv
  <2>6. CASE Leave(t) BY <2>6 DEF Leave, Stopping, PhaseInv
  <2>7. CASE Catch(t) BY <2>7 DEF Catch, PhaseInv
  <2> QED BY <1>3, <2>2, <2>3, <2>4, <2>5, <2>6, <2>7, <2>8 DEF Thread_
<1>4. ASSUME NEW e \in Executor, Handlers(e) PROVE PhaseInv'
  <2>0. /\ \A f \in Executor \ {e} : at'[f] = at[f]
        /\ at[e].in = Idle(e) \/ Handles(e)
        /\ at'[e].in \in {Idle(e)} \cup HandlerPlaces
        /\ UNCHANGED <<mstate, running>>
    BY <1>0, <1>4 DEF Handlers, OnConnected, Dispatches, LockConn, Admit, Accept, Register,
       Goto, Handling, Place, HandlerPlaces, Handles, Idle
  <2>2. Arriving = {} BY <2>0 DEF PhaseInv, Idle, StopPlaces
  <2>3. Arriving' = {} BY <2>0, <2>2 DEF Arriving, HandlerPlaces, Idle
  <2> QED BY <1>0, <2>0, <2>2, <2>3 DEF PhaseInv, Idle, Handles, HandlerPlaces, StartPlaces,
         StopPlaces
<1>5. CASE (\E e \in Executor, s \in Socket : EndSession(e, s)) \/ Connect \/ DelayExpires
  BY <1>5 DEF EndSession, Connect, DelayExpires, PhaseInv, Handles, Arriving
<1>6. ASSUME NEW e \in Executor, Throws(e) PROVE PhaseInv'
  <2>0. /\ \A f \in Executor \ {e} : at'[f] = at[f]
        /\ at'[e].in = IF e = Main THEN "threw" ELSE "throwing"
        /\ at[e].in \in {"starting", Idle(e)} \cup HandlerPlaces
        /\ at[e].in = "starting" => mstate = "running"
        /\ UNCHANGED <<mstate, running>>
    BY <1>0, <1>6 DEF Throws, Goto, Place, Idle, HandlerPlaces
  <2>1. Arriving' \subseteq Arriving BY <2>0 DEF Arriving
  <2> USE DEF Handles, HandlerPlaces, StartPlaces, StopPlaces
  <2>2. CASE e = Main BY <1>0, <2>0, <2>1, <2>2 DEF PhaseInv, Idle
  <2>3. CASE e # Main
    <3>1. at[e].in # "ended" /\ at'[Main] = at[Main] /\ e \in Thread BY <2>0, <2>3 DEF Idle
    <3>2. \A f \in Executor : /\ Handles(f)' => Handles(f)
                              /\ at'[f].in \in {"switch", "poll", "starting"} => at'[f] = at[f]
      BY <2>0
    <3> QED BY <1>0, <2>0, <2>1, <3>1, <3>2 DEF PhaseInv
  <2> QED BY <2>2, <2>3
<1> QED BY <1>1, <1>2, <1>3, <1>4, <1>5, <1>6 DEF Next

-----------------------------------------------------------------------------
(* The sockets.                                                            *)

\* Steps between the places where no handler is at work, which leave the
\* sockets alone.
QuietThread(t) ==
  Count(t) \/ Check(t) \/ Switch(t) \/ Poll(t) \/ PollReturns(t) \/ Catch(t)
QuietStep ==
  \/ Control \/ StopCounter \/ StopLoop \/ JoinGivesUp
  \/ Announce \/ ResetCounter \/ Await \/ Drained
  \/ \E t \in Thread : QuietThread(t)

Quiet ==
  /\ UNCHANGED <<code, accepting, served, active, connmtx, late>>
  /\ \A e \in Executor :
       \/ at'[e] = at[e]
       \/ ~Handles(e) /\ ~Handles(e)' /\ at'[e].s = NoSocket

LEMMA QuietSteps ==
  ASSUME IInv, QuietStep
  PROVE  Quiet
<1> USE Names DEF Quiet, Handles, HandlerPlaces
<1>0. at \in [Executor -> PlaceOf] BY DEF IInv, TypeOK, Places, PlaceOf
<1>1. CASE Start
  BY <1>1 DEF Start, sockets, Place, IInv, PhaseInv
<1>2. CASE ~Start
  BY <1>0, <1>2 DEF QuietStep, Control, Stop, StopCounter, StopInvalid, StopLoop,
     JoinGivesUp, Announce, ResetCounter,
     Await, Drained, QuietThread, Count, Check, Switch, Poll, PollReturns, Catch, sockets, history, Goto, Place
<1> QED BY <1>1, <1>2

\* The types that the steps of the sockets need.
LEMMA Types ==
  ASSUME IInv
  PROVE  /\ at \in [Executor -> PlaceOf] /\ code \in [Socket -> Thread \cup {NoThCode}]
         /\ accepting \in [Socket -> {"no", "pending", "ok", "error", "aborted", "delayed"}]
         /\ served \subseteq Socket /\ active \in [Thread -> SUBSET Socket]
  BY DEF IInv, TypeOK, Places, PlaceOf

\* Executor e goes to p with socket s and argument a; the others stay.
Move(e, p, s, a) ==
  /\ at'[e].in = p /\ at'[e].s = s /\ at'[e].arg = a
  /\ \A f \in Executor \ {e} : at'[f] = at[f]

LEMMA Moved ==
  ASSUME IInv, NEW e \in Executor, NEW p, NEW s, NEW a
  PROVE  /\ Goto(e, p) => Move(e, p, NoSocket, "ok")
         /\ Handling(e, p, s, a) => Move(e, p, s, a)
  BY Types DEF Goto, Handling, Place, Move

SocketsInv == SocketInv /\ StopInv /\ RegisterInv /\ LimitInv /\ ChainInv

\* While a handler runs all threads have come, and main has not stopped.
LEMMA HandlerTimes ==
  ASSUME IInv, NEW e \in Executor, Handles(e) \/ Dispatches(e)
  PROVE  /\ \A t \in Thread : at[t].in \notin {"starting", "count"}
         /\ at[Main].in # "stopped"
         /\ running => e \in Thread /\ at[e].in \in Serving
  BY Names DEF IInv, PhaseInv, Handles, HandlerPlaces, Dispatches, Idle, Arriving, Serving,
     StartPlaces, StopPlaces

\* Steps that leave the sockets alone.
LEMMA QuietPreserves ==
  ASSUME IInv, QuietStep
  PROVE  SocketsInv'
<1> USE Names, Types
<1>0. SocketInv /\ StopInv /\ RegisterInv /\ LimitInv /\ ChainInv /\ PhaseInv BY DEF IInv
<1>1. Quiet BY QuietSteps
<1>2. SocketInv' BY <1>0, <1>1 DEF Quiet, SocketInv, Handles, HandlerPlaces
<1>8. LimitInv' BY <1>0, <1>1 DEF Quiet, LimitInv, Handles, HandlerPlaces
<1>3. CASE Start
  <2>1. /\ at[Main].in = "stopped" /\ ~late /\ at'[Main].in = "announce"
        /\ \A t \in Thread : at'[t].in = "starting"
    BY <1>3 DEF Start, Place
  <2>2. \A t \in Thread : at[t].in = "ended" BY <1>0, <2>1 DEF PhaseInv
  <2>3. \A e \in Executor : at'[e].in \in {"announce", "starting"} BY <2>1
  <2>4. StopInv' BY <1>0, <1>1, <2>1, <2>2, <2>3 DEF StopInv, Quiet
  <2>5. RegisterInv' /\ ChainInv'
    BY <2>1, <2>3 DEF RegisterInv, ChainInv, Serving, HandlerPlaces
  <2> QED BY <1>2, <1>8, <2>4, <2>5 DEF SocketsInv
<1>4. CASE ~Start
  <2> DEFINE Stays(t) == /\ at'[t].in = "starting" => at[t].in = "starting"
                         /\ at'[t].in = "ended" <=> at[t].in = "ended"
                         /\ at'[t].in \in Serving => at[t].in \in Serving
  <2>0. ASSUME Stop \/ StopCounter \/ StopInvalid \/ StopLoop
               \/ JoinGivesUp \/ Announce \/ ResetCounter \/ Await \/ Drained
        PROVE  /\ \A t \in Thread : Stays(t)
               /\ at'[Main].in = "stopped" => Drained
               /\ refused' = refused /\ (running' => running)
    <3>1. PICK p \in {"forget", "clear", "abandon", "join", "invalid", "reset", "await",
                       "started", "failed", "stopped"} :
                 Goto(Main, p) /\ (p = "stopped" => Drained)
      BY <2>0 DEF Stop, StopCounter, StopInvalid, StopLoop,
         JoinGivesUp, Announce, ResetCounter, Await, Drained
    <3>2. Move(Main, p, NoSocket, "ok") BY <3>1, Moved
    <3>3. refused' = refused /\ (running' => running)
      BY <2>0 DEF Stop, StopCounter, StopInvalid, StopLoop,
         JoinGivesUp, Announce, ResetCounter, Await, Drained,
         history
    <3>4. \A t \in Thread : Stays(t) BY <3>2 DEF Move
    <3>5. at'[Main].in = "stopped" => Drained BY <3>1, <3>2 DEF Move
    <3> QED BY <3>3, <3>4, <3>5
  <2>00. ASSUME NEW t \in Thread, QuietThread(t)
         PROVE  /\ \A u \in Thread : Stays(u)
                /\ at'[Main] = at[Main] /\ UNCHANGED <<running, refused>>
    <3>1. PICK p \in {"check", "switch", "loop", "poll", "caught", "threw"} :
                 /\ Goto(t, p)
                 /\ p \in Serving => at[t].in \in Serving
                 /\ at[t].in \notin {"starting", "ended"}
      <4>1. CASE Check(t)
        <5>1. Goto(t, "switch") \/ Goto(t, "loop") BY <4>1 DEF Check
        <5> QED BY <4>1, <5>1 DEF Check, Serving
      <4>2. CASE Count(t) \/ Switch(t) BY <4>2 DEF Count, Switch, Serving
      <4>3. CASE Poll(t) \/ PollReturns(t) BY <4>3 DEF Poll, PollReturns, Serving
      <4>4. CASE Catch(t) BY <4>4 DEF Catch, Serving, HandlerPlaces
      <4> QED BY <2>00, <4>1, <4>2, <4>3, <4>4 DEF QuietThread
    <3>2. Move(t, p, NoSocket, "ok") BY <3>1, Moved
    <3>3. UNCHANGED <<running, refused>>
      BY <2>00 DEF QuietThread, Count, Check, Switch, Poll, PollReturns, Catch, history
    <3> QED BY <3>1, <3>2, <3>3 DEF Move
  <2>1. /\ \A t \in Thread : Stays(t)
        /\ running' => running
        /\ refused' = refused
    BY <1>4, <2>0, <2>00 DEF QuietStep, Control
  <2>2. at'[Main].in = "stopped" =>
          served = {} /\ \A s \in Socket : accepting[s] = "no"
    <3>1. CASE Drained BY <1>0, <3>1 DEF Drained, StopInv
    <3>2. at'[Main].in = "stopped" => Drained \/ at'[Main] = at[Main]
      BY <1>4, <2>0, <2>00 DEF QuietStep, Control
    <3> QED BY <1>0, <3>1, <3>2 DEF StopInv
  <2>3. StopInv' BY <1>0, <1>1, <2>1, <2>2 DEF StopInv, Quiet, Handles, HandlerPlaces
  <2>4. RegisterInv' BY <1>0, <1>1, <2>1 DEF RegisterInv, Quiet, Handles, HandlerPlaces
  <2>5. \A t \in Thread : Chain(t)' = Chain(t)
    <3>1. \A e \in Executor : at'[e].s = at[e].s
      BY <1>0, <1>1 DEF Quiet, SocketInv
    <3> QED BY <1>1, <3>1 DEF Quiet, Chain
  <2>6. ChainInv' BY <1>0, <2>1, <2>5 DEF ChainInv
  <2> QED BY <1>2, <1>8, <2>3, <2>4, <2>6 DEF SocketsInv
<1> QED BY <1>3, <1>4

\* Join: the accepts that wait are aborted.
LEMMA JoinPreserves ==
  ASSUME IInv, Join
  PROVE  SocketsInv'
<1> USE Names, Types
<1>0. SocketInv /\ StopInv /\ RegisterInv /\ LimitInv /\ ChainInv /\ PhaseInv BY DEF IInv
<1>1. /\ at[Main].in = "join" /\ ~running
      /\ UNCHANGED <<running, code, served, active, connmtx, refused, late>>
      /\ \A s \in Socket : \/ accepting'[s] = accepting[s]
                           \/ accepting[s] = "pending" /\ accepting'[s] = "aborted"
  <2>1. /\ at[Main].in = "join"
        /\ UNCHANGED <<running, code, served, active, connmtx, refused, late>>
    BY DEF Join, history
  <2>2. ~running BY <1>0, <2>1 DEF PhaseInv, StartPlaces
  <2>3. \/ accepting' = accepting
        \/ accepting' = [s \in Socket |-> IF accepting[s] = "pending"
                                          THEN "aborted" ELSE accepting[s]]
    BY DEF Join
  <2>4. ASSUME NEW s \in Socket
        PROVE  \/ accepting'[s] = accepting[s]
               \/ accepting[s] = "pending" /\ accepting'[s] = "aborted"
    BY <2>3
  <2> QED BY <2>1, <2>2, <2>4
<1>2. Move(Main, "drain", NoSocket, "ok") \/ Move(Main, "invalid", NoSocket, "ok")
  BY Moved DEF Join
<1>3. /\ \A f \in Executor : f # Main => at'[f] = at[f]
      /\ at'[Main].in \in {"drain", "invalid"} /\ at'[Main].s = NoSocket
  BY <1>2 DEF Move
<1>4. SocketInv' BY <1>0, <1>1, <1>3 DEF SocketInv, Handles, HandlerPlaces
<1>5. StopInv' BY <1>0, <1>1, <1>3 DEF StopInv
<1>6. RegisterInv' BY <1>0, <1>1, <1>3 DEF RegisterInv
<1>7. LimitInv' BY <1>0, <1>1, <1>3 DEF LimitInv
<1>8. ChainInv' BY <1>1 DEF ChainInv
<1> QED BY <1>4, <1>5, <1>6, <1>7, <1>8 DEF SocketsInv

\* The end of a thread: its pool is empty and its sockets have no code.
LEMMA LeavePreserves ==
  ASSUME IInv, NEW t \in Thread, Leave(t)
  PROVE  SocketsInv'
<1> USE Names, Types
<1>0. SocketInv /\ StopInv /\ RegisterInv /\ LimitInv /\ ChainInv BY DEF IInv
<1>1. /\ ~running
      /\ UNCHANGED <<running, served, connmtx, refused, late>>
      /\ \A s \in Socket : /\ code'[s] = IF code[s] = t THEN NoThCode ELSE code[s]
                           /\ \/ accepting'[s] = accepting[s]
                              \/ accepting[s] = "delayed" /\ accepting'[s] = "aborted"
      /\ active' = [active EXCEPT ![t] = {}]
  <2>1. \A s \in Socket : s \in active[t] <=> code[s] = t BY <1>0 DEF SocketInv
  <2>2. /\ ~running
        /\ UNCHANGED <<running, served, connmtx, refused, late>>
        /\ active' = [active EXCEPT ![t] = {}]
    BY DEF Leave, Stopping, history
  <2>3. ASSUME NEW s \in Socket
        PROVE  /\ code'[s] = IF code[s] = t THEN NoThCode ELSE code[s]
               /\ \/ accepting'[s] = accepting[s]
                  \/ accepting[s] = "delayed" /\ accepting'[s] = "aborted"
    BY <2>1 DEF Leave
  <2> QED BY <2>2, <2>3
<1>2. Move(t, "ended", NoSocket, "ok") /\ ~Handles(t)
  BY Moved DEF Leave, Stopping, Handles, HandlerPlaces
<1>3. /\ \A f \in Executor : f # t => at'[f] = at[f]
      /\ at'[t].in = "ended" /\ at'[t].s = NoSocket /\ ~Handles(t)
  BY <1>2 DEF Move
<1>4. SocketInv' BY <1>0, <1>1, <1>3 DEF SocketInv, Handles, HandlerPlaces
<1>5. StopInv' BY <1>0, <1>1, <1>3 DEF StopInv
<1>6. RegisterInv' BY <1>0, <1>1, <1>3 DEF RegisterInv, SocketInv, Handles, HandlerPlaces
<1>7. LimitInv'
  <2>1. \A u \in Thread : IsFiniteSet(active'[u]) /\ Cardinality(active'[u]) <= Limit
    BY <1>0, <1>1, FS_EmptySet, LimitAssumption DEF LimitInv
  <2>2. \A e \in Executor : at'[e].in = "accept" /\ code'[at'[e].s] # NoThCode =>
          Cardinality(active'[code'[at'[e].s]]) < Limit
    BY <1>0, <1>1, <1>3 DEF LimitInv, SocketInv, Handles, HandlerPlaces
  <2>3. \A e \in Executor : at'[e].in = "register" =>
          \A u \in Thread : u = at'[e].arg => Cardinality(active'[u]) < Limit
    BY <1>0, <1>1, <1>3, FS_EmptySet, LimitAssumption DEF LimitInv
  <2> QED BY <1>0, <1>1, <1>3, <2>1, <2>2, <2>3 DEF LimitInv, Handles, HandlerPlaces
<1>8. ChainInv' BY <1>1 DEF ChainInv
<1> QED BY <1>4, <1>5, <1>6, <1>7, <1>8 DEF SocketsInv

\* The first accept of a thread begins its chain.
LEMMA AcceptFirstPreserves ==
  ASSUME IInv, NEW t \in Thread, AcceptFirst(t)
  PROVE  SocketsInv'
<1> USE Names, Types
<1>0. SocketInv /\ StopInv /\ RegisterInv /\ LimitInv /\ ChainInv /\ PhaseInv BY DEF IInv
<1>00. SUFFICES ASSUME running PROVE SocketsInv'
  <2> SUFFICES ASSUME ~running PROVE SocketsInv'
    OBVIOUS
  <2>1. /\ at[t].in = "starting" /\ Goto(t, "loop")
        /\ UNCHANGED <<running, code, accepting, served, active, connmtx, refused, late>>
    BY DEF AcceptFirst
  <2>2. Move(t, "loop", NoSocket, "ok") BY <2>1, Moved
  <2>3. /\ \A f \in Executor : f # t => at'[f] = at[f]
        /\ at'[t].in = "loop" /\ at'[t].s = NoSocket
    BY <2>2 DEF Move
  <2>4. SocketInv' BY <1>0, <2>1, <2>3 DEF SocketInv, Handles, HandlerPlaces
  <2>5. StopInv' BY <1>0, <2>1, <2>3 DEF StopInv
  <2>6. RegisterInv' BY <1>0, <2>1, <2>3 DEF RegisterInv
  <2>7. LimitInv' BY <1>0, <2>1, <2>3 DEF LimitInv
  <2>8. ChainInv' BY <2>1 DEF ChainInv
  <2> QED BY <2>4, <2>5, <2>6, <2>7, <2>8 DEF SocketsInv
<1>1. /\ at[t].in = "starting" /\ running /\ active[t] = {}
      /\ \A e \in Executor : ~Handles(e)
      /\ at[Main].in # "stopped"
  BY <1>0, <1>00 DEF AcceptFirst, PhaseInv, StopInv, Arriving, Handles, StopPlaces
<1>2. do_accept(t) /\ Goto(t, "count") /\ UNCHANGED <<running, served, connmtx, refused>>
  BY <1>1 DEF AcceptFirst
<1>3. PICK s \in Socket :
        /\ \A u \in Thread : s \notin active[u]
        /\ accepting[s] = "no" /\ s \notin served /\ \A e \in Executor : at[e].s # s
        /\ code' = [code EXCEPT ![s] = t]
        /\ accepting' = [accepting EXCEPT ![s] = "pending"]
        /\ active' = [u \in Thread |-> IF u = t THEN active[u] \cup {s} ELSE active[u]]
        /\ late' = (late \/ \E u \in Thread : u = t /\ at[u].in \in Ended)
  BY <1>2, Accepted
<1>4. Move(t, "count", NoSocket, "ok") BY <1>2, Moved
<1>5. /\ \A f \in Executor : f # t => at'[f] = at[f]
      /\ at'[t].in = "count" /\ at'[t].s = NoSocket
  BY <1>4 DEF Move
<1>6. late' = late
  <2>1. at[t].in \notin Ended BY <1>1 DEF Ended
  <2>2. late \in BOOLEAN BY DEF IInv, TypeOK
  <2> QED BY <1>3, <2>1, <2>2, Zenon
<1>7. SocketInv' BY <1>0, <1>1, <1>2, <1>3, <1>5 DEF SocketInv, Handles, HandlerPlaces
<1>8. StopInv' BY <1>0, <1>1, <1>2, <1>3, <1>5, <1>6 DEF StopInv
<1>9. RegisterInv' BY <1>1, <1>5 DEF RegisterInv, Handles, HandlerPlaces
<1>10. LimitInv'
  <2>1. active'[t] = {s} BY <1>1, <1>3
  <2>2. IsFiniteSet(active'[t]) /\ Cardinality(active'[t]) <= Limit
    <3>1. IsFiniteSet({s}) /\ Cardinality({s}) = 1 BY FS_Singleton
    <3> QED BY <2>1, <3>1, LimitAssumption
  <2> QED BY <1>0, <1>1, <1>2, <1>3, <1>5, <2>2 DEF LimitInv, Handles, HandlerPlaces
<1>11. ChainInv'
  <2>1. \A e \in Executor : at[e].s = NoSocket /\ at'[e].s = NoSocket
    BY <1>0, <1>1, <1>5 DEF SocketInv
  <2>2. Chain(t)' = {s}
    BY <1>0, <1>1, <1>3, <2>1 DEF Chain, SocketInv
  <2>3. \A u \in Thread \ {t} : Chain(u)' = Chain(u)
    BY <1>3, <2>1 DEF Chain
  <2> QED BY <1>0, <1>1, <1>2, <1>5, <2>2, <2>3 DEF ChainInv
<1> QED BY <1>7, <1>8, <1>9, <1>10, <1>11 DEF SocketsInv

\* What a handler does not disturb.  Executor e is in a handler, before and
\* after its step in "poll" (main: "drain") or at work on a socket.
HandlerStep(e) ==
  /\ Handles(e) \/ Dispatches(e)
  /\ at'[e].in \in HandlerPlaces \cup {Idle(e)}
  /\ \A f \in Executor \ {e} : at'[f] = at[f]
  /\ UNCHANGED running /\ (late => late')
  /\ refused \subseteq refused'

LEMMA HandlerLeaves ==
  ASSUME IInv, NEW e \in Executor, HandlerStep(e)
  PROVE  /\ at'[Main].in # "stopped"
         /\ \A t \in Thread : /\ at'[t].in # "starting"
                              /\ at'[t].in = "ended" <=> at[t].in = "ended"
                              /\ at'[t].in \in Serving => at[t].in \in Serving
         /\ ~running \/ e \in Thread
<1>1. Idle(e) \in {"drain", "poll"} /\ (e = Main <=> Idle(e) = "drain")
  BY DEF Idle
<1>2. /\ at[e].in \in HandlerPlaces \cup {"drain", "poll"}
      /\ at[e].in = "drain" <=> at[e].in \notin HandlerPlaces /\ e = Main
  BY Names DEF HandlerStep, Handles, Dispatches, Idle, HandlerPlaces, IInv, PhaseInv
<1> QED BY <1>1, <1>2, HandlerTimes, Names DEF HandlerStep, HandlerPlaces, Serving

\* A step of a handler that adds no socket to a pool keeps what the stopped
\* server relies on.
LEMMA HandlerStop ==
  ASSUME IInv, NEW e \in Executor, HandlerStep(e),
         \A t \in Thread : active'[t] \subseteq active[t],
         late' = late,
         \A s \in Socket : accepting'[s] = "aborted" => accepting[s] = "aborted",
         at'[e].in = "connected" =>
           /\ at'[e].arg \in {"ok", "error", "aborted"}
           /\ at'[e].arg = "aborted" => ~running
  PROVE  StopInv'
<1>1. StopInv BY DEF IInv
<1> QED BY <1>1, HandlerLeaves DEF StopInv, HandlerStep

\* The chains are those of before when the sockets in them are.
LEMMA ChainsKept ==
  ASSUME IInv, NEW e \in Executor, HandlerStep(e),
         running => \A t \in Thread \ refused' : at[t].in \in Serving => Chain(t)' = Chain(t)
  PROVE  ChainInv'
<1>1. ChainInv BY DEF IInv
<1> QED BY <1>1, HandlerLeaves DEF ChainInv, HandlerStep

LEMMA OnConnectedPreserves ==
  ASSUME IInv, NEW e \in Executor, OnConnected(e)
  PROVE  SocketsInv'
<1> USE Names, Types
<1>0. SocketInv /\ StopInv /\ RegisterInv /\ LimitInv /\ ChainInv BY DEF IInv
<1>1. PICK s \in Socket :
        /\ accepting[s] \in {"ok", "error", "aborted"}
        /\ accepting' = [accepting EXCEPT ![s] = "no"]
        /\ IF code[s] = NoThCode
           THEN Goto(e, Idle(e)) ELSE Handling(e, "connected", s, accepting[s])
  BY DEF OnConnected
<1>2. /\ Dispatches(e) /\ ~Handles(e) /\ at[e].s = NoSocket
      /\ UNCHANGED <<running, code, served, active, connmtx, refused, late>>
  <2>1. Dispatches(e) /\ UNCHANGED <<running, code, served, active, connmtx, refused, late>>
    BY DEF OnConnected, history
  <2>2. ~Handles(e) BY <2>1 DEF Dispatches, Idle, Handles, HandlerPlaces
  <2> QED BY <1>0, <2>1, <2>2 DEF SocketInv
<1>3. /\ \A f \in Executor \ {e} : at'[f] = at[f]
      /\ \/ code[s] = NoThCode /\ at'[e].in = Idle(e) /\ at'[e].s = NoSocket
         \/ /\ code[s] # NoThCode /\ at'[e].in = "connected" /\ at'[e].s = s
            /\ at'[e].arg = accepting[s]
  BY <1>1, Moved DEF Move
<1>4. Idle(e) \in {"drain", "poll"} BY DEF Idle
<1>5. HandlerStep(e) BY <1>2, <1>3 DEF HandlerStep, HandlerPlaces
<1>6. SocketInv' BY <1>0, <1>1, <1>2, <1>3, <1>4 DEF SocketInv, Handles, HandlerPlaces
<1>7. StopInv'
  <2>1. accepting[s] = "aborted" => ~running BY <1>0 DEF StopInv
  <2> QED BY <1>1, <1>2, <1>3, <1>4, <1>5, <2>1, HandlerStop
<1>8. RegisterInv' BY <1>0, <1>2, <1>3, <1>4, <1>5, HandlerLeaves DEF RegisterInv
<1>9. LimitInv' BY <1>0, <1>2, <1>3, <1>4 DEF LimitInv, Handles, HandlerPlaces
<1>10. \A t \in Thread : Chain(t)' = Chain(t)
  <2>1. ASSUME NEW t \in Thread, NEW x \in Socket, code[x] = t
        PROVE  (accepting'[x] # "no" \/ \E f \in Executor : at'[f].s = x) <=>
               (accepting[x] # "no" \/ \E f \in Executor : at[f].s = x)
    <3>1. CASE x = s BY <1>1, <1>2, <1>3, <2>1, <3>1
    <3>2. CASE x # s BY <1>1, <1>2, <1>3, <3>2
    <3> QED BY <3>1, <3>2
  <2> QED BY <1>2, <2>1 DEF Chain
<1>11. ChainInv' BY <1>5, <1>10, ChainsKept
<1> QED BY <1>6, <1>7, <1>8, <1>9, <1>11 DEF SocketsInv

\* Close takes a socket out of the pools; no pool grows.
LEMMA Closed ==
  ASSUME IInv, NEW s \in Socket, Close(s)
  PROVE  /\ code' = [code EXCEPT ![s] = NoThCode]
         /\ active' \in [Thread -> SUBSET Socket]
         /\ \A t \in Thread : /\ active'[t] = active[t] \ {s}
                              /\ IsFiniteSet(active'[t])
                              /\ Cardinality(active'[t]) <= Cardinality(active[t])
                              /\ Cardinality(active'[t]) \in Nat /\ Cardinality(active[t]) \in Nat
<1>1. /\ code' = [code EXCEPT ![s] = NoThCode]
      /\ active' = [t \in Thread |-> IF t = code[s] THEN active[t] \ {s} ELSE active[t]]
  BY DEF Close
<1>2. ASSUME NEW t \in Thread PROVE active'[t] = active[t] \ {s}
  BY <1>1 DEF IInv, SocketInv
<1>3. active' \in [Thread -> SUBSET Socket] BY <1>1, Types
<1>4. ASSUME NEW t \in Thread
      PROVE  /\ IsFiniteSet(active'[t]) /\ Cardinality(active'[t]) <= Cardinality(active[t])
             /\ Cardinality(active'[t]) \in Nat /\ Cardinality(active[t]) \in Nat
  <2>1. IsFiniteSet(active[t]) BY DEF IInv, LimitInv
  <2>2. active'[t] \subseteq active[t] BY <1>2
  <2> QED BY <2>1, <2>2, FS_Subset, FS_CardinalityType
<1> QED BY <1>1, <1>2, <1>3, <1>4

LEMMA LockConnPreserves ==
  ASSUME IInv, NEW e \in Executor, LockConn(e)
  PROVE  SocketsInv'
<1> USE Names, Types
<1>0. SocketInv /\ StopInv /\ RegisterInv /\ LimitInv /\ ChainInv BY DEF IInv
<1> DEFINE s == at[e].s
<1>1. /\ at[e].in = "connected" /\ connmtx = Free /\ Handles(e)
      /\ UNCHANGED <<running, accepting, served, late>>
  BY DEF LockConn, Handles, HandlerPlaces
<1>2. s \in Socket /\ accepting[s] = "no" /\ s \notin served
  BY <1>0, <1>1 DEF SocketInv
<1>3. Idle(e) \in {"drain", "poll"} BY DEF Idle
<1>4. CASE at[e].arg = "aborted"
  <2>1. Goto(e, Idle(e)) /\ UNCHANGED <<code, active, connmtx, refused>>
    BY <1>4 DEF LockConn
  <2>2. /\ \A f \in Executor \ {e} : at'[f] = at[f]
        /\ at'[e].in = Idle(e) /\ at'[e].s = NoSocket
    BY <2>1, Moved DEF Move
  <2>3. HandlerStep(e) BY <1>1, <2>1, <2>2 DEF HandlerStep
  <2>4. SocketInv' BY <1>0, <1>1, <1>3, <2>1, <2>2 DEF SocketInv, Handles, HandlerPlaces
  <2>5. StopInv' BY <1>1, <1>3, <2>1, <2>2, <2>3, HandlerStop
  <2>6. RegisterInv' BY <1>0, <1>3, <2>1, <2>2, <2>3, HandlerLeaves DEF RegisterInv
  <2>7. LimitInv' BY <1>0, <1>1, <1>3, <2>1, <2>2 DEF LimitInv
  <2>8. ChainInv' BY <1>0, <1>1, <1>4 DEF StopInv, ChainInv
  <2> QED BY <2>4, <2>5, <2>6, <2>7, <2>8 DEF SocketsInv
<1>5. CASE at[e].arg = "error"
  <2>1. /\ Goto(e, Idle(e)) /\ Close(s) /\ connmtx' = connmtx
        /\ refused' = refused \cup ({code[s]} \ {NoThCode})
    BY <1>5 DEF LockConn
  <2>2. /\ \A f \in Executor \ {e} : at'[f] = at[f]
        /\ at'[e].in = Idle(e) /\ at'[e].s = NoSocket
    BY <2>1, Moved DEF Move
  <2>3. HandlerStep(e) BY <1>1, <2>1, <2>2 DEF HandlerStep
  <2>0. /\ code' = [code EXCEPT ![s] = NoThCode]
        /\ active' \in [Thread -> SUBSET Socket]
        /\ \A t \in Thread : active'[t] = active[t] \ {s}
    BY <1>2, <2>1, Closed
  <2>4. SocketInv' BY <1>0, <1>1, <1>2, <1>3, <2>0, <2>2 DEF SocketInv, Handles, HandlerPlaces
  <2>5. StopInv' BY <1>1, <1>3, <2>0, <2>2, <2>3, HandlerStop
  <2>6. \A f \in Executor \ {e} : Handles(f) => at[f].s \in Socket /\ at[f].s # s
    BY <1>0, <1>1 DEF SocketInv
  <2>7. RegisterInv'
    BY <1>0, <1>2, <1>3, <2>0, <2>2, <2>3, <2>6, HandlerLeaves
       DEF RegisterInv, Handles, HandlerPlaces
  <2>8. LimitInv'
    <3>1. ASSUME NEW t \in Thread
          PROVE  /\ IsFiniteSet(active'[t]) /\ Cardinality(active'[t]) <= Limit
                 /\ Cardinality(active[t]) < Limit => Cardinality(active'[t]) < Limit
      BY <1>0, <1>2, <2>1, Closed, LimitAssumption DEF LimitInv
    <3>2. \A f \in Executor : at'[f].in \notin {"admit", "accept", "register"}
      BY <1>0, <1>1, <1>3, <2>2 DEF LimitInv
    <3> QED BY <1>1, <2>1, <3>1, <3>2 DEF LimitInv
  <2>9. ASSUME NEW t \in Thread \ refused' PROVE Chain(t)' = Chain(t)
    <3>1. code[s] # t BY <2>1, <2>9
    <3>2. \A x \in Socket : code'[x] = t <=> code[x] = t BY <1>2, <2>0, <3>1
    <3>3. \A x \in Socket : code[x] = t => x # s BY <3>1
    <3>4. \A x \in Socket \ {s} :
            (\E f \in Executor : at'[f].s = x) <=> (\E f \in Executor : at[f].s = x)
      BY <2>2
    <3> QED BY <1>1, <3>2, <3>3, <3>4 DEF Chain
  <2>10. ChainInv' BY <2>3, <2>9, ChainsKept
  <2> QED BY <2>4, <2>5, <2>7, <2>8, <2>10 DEF SocketsInv
<1>6. CASE at[e].arg \notin {"aborted", "error"}
  <2>1. connmtx' = e /\ Handling(e, "admit", s, "ok") /\ UNCHANGED <<code, active, refused>>
    BY <1>6 DEF LockConn
  <2>2. /\ \A f \in Executor \ {e} : at'[f] = at[f]
        /\ at'[e].in = "admit" /\ at'[e].s = s
    BY <2>1, Moved DEF Move
  <2>3. HandlerStep(e) BY <1>1, <2>1, <2>2 DEF HandlerStep, HandlerPlaces
  <2>4. SocketInv' BY <1>0, <1>1, <2>1, <2>2 DEF SocketInv, Handles, HandlerPlaces
  <2>5. StopInv' BY <1>1, <2>1, <2>2, <2>3, HandlerStop
  <2>6. RegisterInv' BY <1>0, <2>1, <2>2, <2>3, HandlerLeaves DEF RegisterInv
  <2>7. LimitInv' BY <1>0, <1>1, <2>1, <2>2 DEF LimitInv
  <2>8. \A f \in Executor : at'[f].s = at[f].s BY <2>2
  <2>9. ChainInv' BY <1>1, <2>1, <2>3, <2>8, ChainsKept DEF Chain
  <2> QED BY <2>4, <2>5, <2>6, <2>7, <2>9 DEF SocketsInv
<1> QED BY <1>4, <1>5, <1>6

LEMMA AdmitPreserves ==
  ASSUME IInv, NEW e \in Executor, Admit(e)
  PROVE  SocketsInv'
<1> USE Names, Types
<1>0. SocketInv /\ StopInv /\ RegisterInv /\ LimitInv /\ ChainInv BY DEF IInv
<1> DEFINE s == at[e].s
<1>1. /\ at[e].in = "admit" /\ connmtx = e /\ Handles(e)
      /\ UNCHANGED <<running, code, served, active, refused, late>>
  BY <1>0 DEF Admit, Handles, HandlerPlaces, LimitInv, history
<1>2. s \in Socket /\ accepting[s] = "no" /\ s \notin served
  BY <1>0, <1>1 DEF SocketInv
<1>3. Idle(e) \in {"drain", "poll"} BY DEF Idle
<1>4. \A f \in Executor \ {e} : at[f].in \notin {"admit", "accept", "register"} /\ at[f].s # s
  BY <1>0, <1>1, <1>2 DEF LimitInv, SocketInv, Handles
<1>5. CASE accepting' = [accepting EXCEPT ![s] = "delayed"] /\ connmtx' = Free /\ Goto(e, Idle(e))
  <2>1. /\ Goto(e, Idle(e)) /\ connmtx' = Free
        /\ accepting' = [accepting EXCEPT ![s] = "delayed"]
    BY <1>5
  <2>2. /\ \A f \in Executor \ {e} : at'[f] = at[f]
        /\ at'[e].in = Idle(e) /\ at'[e].s = NoSocket
    BY <2>1, Moved DEF Move
  <2>3. HandlerStep(e) BY <1>1, <2>2 DEF HandlerStep
  <2>4. SocketInv' BY <1>0, <1>1, <1>2, <1>3, <1>4, <2>1, <2>2 DEF SocketInv, Handles,
        HandlerPlaces
  <2>5. StopInv' BY <1>1, <1>3, <2>1, <2>2, <2>3, HandlerStop
  <2>6. RegisterInv' BY <1>0, <1>1, <1>3, <2>2, <2>3, HandlerLeaves DEF RegisterInv
  <2>7. LimitInv' BY <1>0, <1>1, <1>3, <1>4, <2>1, <2>2 DEF LimitInv
  <2>8. ASSUME NEW t \in Thread PROVE Chain(t)' = Chain(t)
    <3>1. ASSUME NEW x \in Socket, code[x] = t
          PROVE  (accepting'[x] # "no" \/ \E f \in Executor : at'[f].s = x) <=>
                 (accepting[x] # "no" \/ \E f \in Executor : at[f].s = x)
      BY <1>2, <2>1, <2>2, <3>1
    <3> QED BY <1>1, <3>1 DEF Chain
  <2>9. ChainInv' BY <2>3, <2>8, ChainsKept
  <2> QED BY <2>4, <2>5, <2>6, <2>7, <2>9 DEF SocketsInv
<1>6. CASE /\ code[s] # NoThCode => Cardinality(active[code[s]]) < Limit
           /\ Handling(e, "accept", s, "ok") /\ UNCHANGED <<accepting, connmtx>>
  <2>1. Handling(e, "accept", s, "ok") /\ UNCHANGED <<accepting, connmtx>>
    BY <1>6
  <2>2. /\ \A f \in Executor \ {e} : at'[f] = at[f]
        /\ at'[e].in = "accept" /\ at'[e].s = s
    BY <2>1, Moved DEF Move
  <2>3. HandlerStep(e) BY <1>1, <2>2 DEF HandlerStep, HandlerPlaces
  <2>4. SocketInv' BY <1>0, <1>1, <2>1, <2>2 DEF SocketInv, Handles, HandlerPlaces
  <2>5. StopInv' BY <1>1, <2>1, <2>2, <2>3, HandlerStop
  <2>6. RegisterInv' BY <1>0, <1>1, <2>2, <2>3, HandlerLeaves DEF RegisterInv
  <2>7. LimitInv'
    BY <1>0, <1>1, <1>4, <1>6, <2>1, <2>2 DEF LimitInv
  <2>8. \A f \in Executor : at'[f].s = at[f].s BY <2>2
  <2>9. ChainInv' BY <1>1, <2>1, <2>3, <2>8, ChainsKept DEF Chain
  <2> QED BY <2>4, <2>5, <2>6, <2>7, <2>9 DEF SocketsInv
<1> QED BY <1>5, <1>6 DEF Admit

LEMMA AcceptPreserves ==
  ASSUME IInv, NEW e \in Executor, Accept(e)
  PROVE  SocketsInv'
<1> USE Names, Types
<1>0. SocketInv /\ StopInv /\ RegisterInv /\ LimitInv /\ ChainInv BY DEF IInv
<1> DEFINE s == at[e].s
<1>1. /\ at[e].in = "accept" /\ connmtx = e /\ Handles(e)
      /\ UNCHANGED <<running, code, accepting, served, active, refused, late>>
  BY <1>0 DEF Accept, Handles, HandlerPlaces, LimitInv, sockets, history
<1>2. s \in Socket /\ accepting[s] = "no" /\ s \notin served
  BY <1>0, <1>1 DEF SocketInv
<1>3. Idle(e) \in {"drain", "poll"} BY DEF Idle
<1>4. \A f \in Executor \ {e} : at[f].in \notin {"admit", "accept", "register"} /\ at[f].s # s
  BY <1>0, <1>1, <1>2 DEF LimitInv, SocketInv, Handles
<1>5. Handling(e, "register", s, code[s]) /\ UNCHANGED connmtx
  BY DEF Accept
<1>6. /\ \A f \in Executor \ {e} : at'[f] = at[f]
      /\ at'[e].in = "register" /\ at'[e].s = s /\ at'[e].arg = code[s]
  BY <1>5, Moved DEF Move
<1>7. HandlerStep(e) BY <1>1, <1>6 DEF HandlerStep, HandlerPlaces
<1>8. SocketInv' BY <1>0, <1>1, <1>5, <1>6 DEF SocketInv, Handles, HandlerPlaces
<1>9. StopInv' BY <1>1, <1>5, <1>6, <1>7, HandlerStop
<1>10. RegisterInv' BY <1>0, <1>1, <1>2, <1>6, <1>7, HandlerLeaves DEF RegisterInv
<1>11. LimitInv' BY <1>0, <1>1, <1>4, <1>5, <1>6 DEF LimitInv
<1>12. \A f \in Executor : at'[f].s = at[f].s BY <1>6
<1>13. ChainInv' BY <1>1, <1>7, <1>12, ChainsKept DEF Chain
<1> QED BY <1>8, <1>9, <1>10, <1>11, <1>13 DEF SocketsInv

\* The chain goes on with the next socket, in the pool of the same thread.
LEMMA RegisterPreserves ==
  ASSUME IInv, NEW e \in Executor, Register(e)
  PROVE  SocketsInv'
<1> USE Names, Types
<1>0. SocketInv /\ StopInv /\ RegisterInv /\ LimitInv /\ ChainInv BY DEF IInv
<1> PICK s, t : s = at[e].s /\ t = at[e].arg OBVIOUS
<1>1. /\ at[e].in = "register" /\ connmtx = e /\ Handles(e) /\ t \in Thread \cup {NoThCode}
      /\ \/ code[s] = t
         \/ code[s] = NoThCode /\ \A u \in Thread : u = t => at[u].in = "ended"
      /\ do_accept(t) /\ served' = served \cup {s} /\ connmtx' = Free
      /\ UNCHANGED <<running, refused>>
  BY <1>0 DEF Register, Handles, HandlerPlaces, LimitInv, RegisterInv
<1>2. s \in Socket /\ accepting[s] = "no" /\ s \notin served
  BY <1>0, <1>1 DEF SocketInv
<1>3. Idle(e) \in {"drain", "poll"} BY DEF Idle
<1>4. \A f \in Executor \ {e} : at[f].in \notin {"admit", "accept", "register"} /\ at[f].s # s
  BY <1>0, <1>1, <1>2 DEF LimitInv, SocketInv, Handles
<1>5. PICK x \in Socket :
        /\ \A u \in Thread : x \notin active[u]
        /\ accepting[x] = "no" /\ x \notin served /\ \A f \in Executor : at[f].s # x
        /\ code' = [code EXCEPT ![x] = t]
        /\ accepting' = [accepting EXCEPT ![x] = "pending"]
        /\ active' = [u \in Thread |-> IF u = t THEN active[u] \cup {x} ELSE active[u]]
        /\ late' = (late \/ \E u \in Thread : u = t /\ at[u].in \in Ended)
  BY <1>1, Accepted
<1>6. x # s /\ code[x] \notin Thread BY <1>0, <1>5 DEF SocketInv
<1>7. /\ \A f \in Executor \ {e} : at'[f] = at[f]
      /\ at'[e].in = Idle(e) /\ at'[e].s = NoSocket
  BY Moved DEF Move, Register
<1>8. (late => late') /\ \A u \in Thread : u = t /\ at[u].in = "ended" => late'
  <2> DEFINE ended == \E u \in Thread : u = t /\ at[u].in \in Ended
  <2>1. late' = (late \/ ended) BY <1>5
  <2>2. \A u \in Thread : u = t /\ at[u].in = "ended" => ended BY DEF Ended
  <2> HIDE DEF ended
  <2> QED BY <2>1, <2>2, Zenon
<1>9. HandlerStep(e) BY <1>1, <1>7, <1>8 DEF HandlerStep
<1>10. SocketInv'
  BY <1>0, <1>1, <1>2, <1>3, <1>4, <1>5, <1>6, <1>7 DEF SocketInv, Handles, HandlerPlaces
<1>11. StopInv'
  <2>1. \A u \in Thread : ~late' /\ at'[u].in = "ended" => active'[u] = {}
    <3> SUFFICES ASSUME NEW u \in Thread, ~late', at'[u].in = "ended" PROVE active'[u] = {}
      OBVIOUS
    <3>1. at[u].in = "ended" /\ u # t BY <1>8, <1>9, HandlerLeaves
    <3>2. active[u] = {} BY <1>0, <1>8, <3>1 DEF StopInv
    <3> QED BY <1>5, <3>1, <3>2
  <2>2. /\ at'[Main].in # "stopped" /\ \A u \in Thread : at'[u].in # "starting"
    BY <1>9, HandlerLeaves
  <2>3. \A y \in Socket : accepting'[y] = "aborted" => ~running'
    BY <1>0, <1>1, <1>5 DEF StopInv
  <2>4. \A f \in Executor : at'[f].in = "connected" => at'[f] = at[f] BY <1>3, <1>7
  <2> QED BY <1>0, <1>1, <2>1, <2>2, <2>3, <2>4 DEF StopInv
<1>12. RegisterInv' BY <1>3, <1>4, <1>7 DEF RegisterInv
<1>13. LimitInv'
  <2>1. ASSUME t \in Thread PROVE IsFiniteSet(active'[t]) /\ Cardinality(active'[t]) <= Limit
    <3>1. IsFiniteSet(active[t]) /\ Cardinality(active[t]) < Limit /\ x \notin active[t]
      BY <1>0, <1>1, <1>5, <2>1 DEF LimitInv
    <3>2. Cardinality(active[t]) \in Nat BY <3>1, FS_CardinalityType
    <3>3. active'[t] = active[t] \cup {x} BY <1>5, <2>1
    <3>4. /\ IsFiniteSet(active[t] \cup {x})
          /\ Cardinality(active[t] \cup {x}) = Cardinality(active[t]) + 1
      BY <3>1, FS_AddElement
    <3> QED BY <3>1, <3>2, <3>3, <3>4, LimitAssumption
  <2>2. \A u \in Thread \ {t} : active'[u] = active[u] BY <1>5
  <2> QED BY <1>0, <1>1, <1>3, <1>4, <1>7, <2>1, <2>2 DEF LimitInv
<1>14. ChainInv'
  <2>1. \A y \in Socket : (\E f \in Executor : at'[f].s = y) <=>
                          (y # s /\ \E f \in Executor : at[f].s = y)
    BY <1>2, <1>4, <1>7
  <2>2. ASSUME NEW u \in Thread \ {t} PROVE Chain(u)' = Chain(u)
    <3>1. \A y \in Socket : code'[y] = u <=> code[y] = u BY <1>5, <1>6
    <3>2. \A y \in Socket : code[y] = u => y # s /\ y # x BY <1>1, <1>6
    <3> QED BY <1>5, <2>1, <3>1, <3>2 DEF Chain
  <2>3. ASSUME running, t \in Thread \ refused, at[t].in \in Serving PROVE Chain(t)' = {x}
    <3>1. code[s] = t BY <1>1, <2>3 DEF Serving, HandlerPlaces
    <3>2. s \in Chain(t) BY <1>2, <3>1 DEF Chain
    <3>3. Chain(t) = {s} BY <1>0, <1>1, <2>3, <3>2 DEF ChainInv
    <3>4. ASSUME NEW y \in Socket \ {x, s}, code[y] = t
          PROVE  accepting[y] = "no" /\ ~\E f \in Executor : at[f].s = y
      BY <3>3, <3>4 DEF Chain
    <3>5. x \in Chain(t)' BY <1>5 DEF Chain
    <3>6. s \notin Chain(t)' BY <1>2, <1>5, <1>6, <2>1 DEF Chain
    <3>7. ASSUME NEW y \in Socket \ {x, s} PROVE y \notin Chain(t)'
      BY <1>5, <2>1, <3>4, <3>7 DEF Chain
    <3> QED BY <3>5, <3>6, <3>7 DEF Chain
  <2>4. SUFFICES ASSUME running', NEW u \in Thread \ refused', at'[u].in \in Serving
                 PROVE  \E z \in Socket : Chain(u)' = {z}
    BY DEF ChainInv
  <2>5. running /\ u \notin refused /\ at[u].in \in Serving
    BY <1>1, <1>9, <2>4, HandlerLeaves
  <2>6. \E z \in Socket : Chain(u) = {z} BY <1>0, <2>5 DEF ChainInv
  <2> QED BY <2>2, <2>3, <2>5, <2>6
<1> QED BY <1>10, <1>11, <1>12, <1>13, <1>14 DEF SocketsInv

\* An exception leaves the sockets where they are; the chain of the connection
\* at work is lost, and its thread counts as refused.
LEMMA ThrowsPreserves ==
  ASSUME IInv, NEW e \in Executor, Throws(e)
  PROVE  SocketsInv'
<1> USE Names, Types
<1>0. SocketInv /\ StopInv /\ RegisterInv /\ LimitInv /\ ChainInv BY DEF IInv
<1>1. /\ UNCHANGED <<running, code, accepting, served, active, late>>
      /\ connmtx' = IF connmtx = e THEN Free ELSE connmtx
      /\ refused' = refused \cup {t \in Thread : \E s \in Socket : at[e].s = s /\ code[s] = t}
      /\ at[e].in \in {"starting", "poll", "drain"} \cup HandlerPlaces
  BY DEF Throws, sockets, Idle
<1>2. PICK p \in {"throwing", "threw"} : Move(e, p, NoSocket, "ok")
  BY Moved DEF Throws
<1>3. /\ \A f \in Executor \ {e} : at'[f] = at[f]
      /\ at'[e].in \in {"throwing", "threw"} /\ at'[e].s = NoSocket
  BY <1>2 DEF Move
<1>4. SocketInv' BY <1>0, <1>1, <1>3 DEF SocketInv, Handles, HandlerPlaces
<1>5. StopInv' BY <1>0, <1>1, <1>3 DEF StopInv
<1>6. RegisterInv' BY <1>0, <1>1, <1>3 DEF RegisterInv, HandlerPlaces
<1>7. LimitInv' BY <1>0, <1>1, <1>3 DEF LimitInv
<1>8. ASSUME NEW t \in Thread \ refused' PROVE Chain(t)' = Chain(t)
  <2>1. \A s \in Socket : code[s] = t => at[e].s # s BY <1>1, <1>8
  <2>2. ASSUME NEW s \in Socket, code[s] = t
        PROVE  (\E f \in Executor : at'[f].s = s) <=> (\E f \in Executor : at[f].s = s)
    BY <1>3, <2>1, <2>2
  <2> QED BY <1>1, <2>2 DEF Chain
<1>9. ChainInv'
  <2>1. \A t \in Thread : at'[t].in \in Serving => at[t].in \in Serving
    BY <1>3 DEF Serving, HandlerPlaces
  <2> QED BY <1>0, <1>1, <1>8, <2>1 DEF ChainInv
<1> QED BY <1>4, <1>5, <1>6, <1>7, <1>9 DEF SocketsInv

\* The end of a session closes a socket that no chain has.
LEMMA EndSessionPreserves ==
  ASSUME IInv, NEW e \in Executor, NEW s \in Socket, EndSession(e, s)
  PROVE  SocketsInv'
<1> USE Names, Types
<1>0. SocketInv /\ StopInv /\ RegisterInv /\ LimitInv /\ ChainInv BY DEF IInv
<1>1. /\ Dispatches(e) /\ s \in served /\ served' = served \ {s}
      /\ UNCHANGED <<running, at, accepting, connmtx, refused, late>> /\ Close(s)
  BY DEF EndSession
<1>2. accepting[s] = "no" /\ \A f \in Executor : at[f].s # s
  BY <1>0, <1>1 DEF SocketInv
<1>3. /\ code' = [code EXCEPT ![s] = NoThCode] /\ active' \in [Thread -> SUBSET Socket]
      /\ \A t \in Thread : active'[t] = active[t] \ {s}
  BY <1>1, Closed
<1>4. SocketInv' BY <1>0, <1>1, <1>2, <1>3 DEF SocketInv, Handles, HandlerPlaces
<1>5. StopInv' BY <1>0, <1>1, <1>3 DEF StopInv
<1>6. RegisterInv' BY <1>0, <1>1, <1>2, <1>3 DEF RegisterInv, SocketInv, Handles, HandlerPlaces
<1>7. LimitInv'
  <2>1. ASSUME NEW t \in Thread
        PROVE  /\ IsFiniteSet(active'[t]) /\ Cardinality(active'[t]) <= Limit
               /\ Cardinality(active[t]) < Limit => Cardinality(active'[t]) < Limit
    BY <1>0, <1>1, Closed, LimitAssumption DEF LimitInv
  <2>2. ASSUME NEW f \in Executor, at'[f].in = "accept", code'[at'[f].s] # NoThCode
        PROVE  Cardinality(active'[code'[at'[f].s]]) < Limit
    <3>1. at'[f] = at[f] /\ at[f].s \in Socket /\ at[f].s # s
      BY <1>0, <1>1, <1>2, <2>2 DEF SocketInv, Handles, HandlerPlaces
    <3>2. code'[at'[f].s] = code[at[f].s] /\ code[at[f].s] \in Thread
      BY <1>3, <2>2, <3>1
    <3>3. Cardinality(active[code[at[f].s]]) < Limit BY <1>0, <2>2, <3>1, <3>2 DEF LimitInv
    <3> QED BY <2>1, <3>2, <3>3
  <2> QED BY <1>0, <1>1, <2>1, <2>2 DEF LimitInv
<1>8. \A t \in Thread : Chain(t)' = Chain(t)
  BY <1>1, <1>2, <1>3 DEF Chain
<1>9. ChainInv' BY <1>0, <1>1, <1>8 DEF ChainInv
<1> QED BY <1>4, <1>5, <1>6, <1>7, <1>9 DEF SocketsInv

\* A connection comes, or a delay is over.
LEMMA NetworkPreserves ==
  ASSUME IInv, Connect \/ DelayExpires
  PROVE  SocketsInv'
<1> USE Names, Types
<1>0. SocketInv /\ StopInv /\ RegisterInv /\ LimitInv /\ ChainInv BY DEF IInv
<1>1. PICK s \in Socket, o \in {"ok", "error"} :
        accepting[s] \in {"pending", "delayed"} /\ accepting' = [accepting EXCEPT ![s] = o]
  BY DEF Connect, DelayExpires
<1>2. UNCHANGED <<running, at, code, served, active, connmtx, refused, late>>
  BY DEF Connect, DelayExpires, history
<1>3. SocketInv' BY <1>0, <1>1, <1>2 DEF SocketInv, Handles, HandlerPlaces
<1>4. StopInv' BY <1>0, <1>1, <1>2 DEF StopInv
<1>5. RegisterInv' /\ LimitInv' BY <1>0, <1>2 DEF RegisterInv, LimitInv
<1>6. \A t \in Thread : Chain(t)' = Chain(t) BY <1>1, <1>2 DEF Chain
<1>7. ChainInv' BY <1>0, <1>2, <1>6 DEF ChainInv
<1> QED BY <1>3, <1>4, <1>5, <1>7 DEF SocketsInv

LEMMA NextIInv == IInv /\ [Next]_vars => IInv'
<1> SUFFICES ASSUME IInv, [Next]_vars PROVE IInv'
  OBVIOUS
<1>1. CASE Next
  <2>1. SocketsInv'
    BY <1>1, QuietPreserves, JoinPreserves, LeavePreserves, AcceptFirstPreserves,
       OnConnectedPreserves, LockConnPreserves, AdmitPreserves, AcceptPreserves,
       RegisterPreserves, EndSessionPreserves, NetworkPreserves, ThrowsPreserves
       DEF Next, Advance, Thread_, Handlers, QuietStep, QuietThread
  <2> QED BY <1>1, <2>1, TypeStep, CountStep, PhaseStep DEF IInv, SocketsInv
<1>2. CASE UNCHANGED vars
  <2> USE <1>2 DEF vars, sockets, history, IInv
  <2>1. TypeOK' BY DEF TypeOK
  <2>2. CountInv' /\ PhaseInv'
    <3>1. Arriving' = Arriving BY DEF Arriving
    <3>2. \A e \in Executor : Handles(e)' = Handles(e) BY DEF Handles
    <3>3. CountInv' BY <3>1 DEF CountInv
    <3> QED BY <3>1, <3>2, <3>3 DEF PhaseInv
  <2>3. SocketInv' BY DEF SocketInv, Handles
  <2>4. StopInv' /\ RegisterInv' BY DEF StopInv, RegisterInv
  <2>5. LimitInv' BY DEF LimitInv
  <2>6. ChainInv'
    <3>1. \A t \in Thread : Chain(t)' = Chain(t) BY DEF Chain
    <3> QED BY <3>1 DEF ChainInv
  <2> QED BY <2>1, <2>2, <2>3, <2>4, <2>5, <2>6
<1> QED BY <1>1, <1>2

THEOREM Spec_IInv == Spec => []IInv
  BY InitIInv, NextIInv, PTL DEF Spec

-----------------------------------------------------------------------------
(* The properties.                                                         *)

\* TServer: types, and no more threads are counted than there are.
THEOREM Spec_TypeOK == Spec => []TypeOK
  BY Spec_IInv, PTL DEF IInv

\* OnConnected and do_accept: each thread that serves has exactly one accept
\* chain, however the threads share the handlers.
THEOREM Spec_OneAcceptChain == Spec => []OneAcceptChain
<1>1. IInv => OneAcceptChain
  <2> SUFFICES ASSUME IInv, running, NEW t \in Thread \ refused, at[t].in \in Serving
               PROVE  Cardinality(Chain(t)) = 1
    BY DEF OneAcceptChain, Serving, HandlerPlaces
  <2>1. PICK x \in Socket : Chain(t) = {x} BY DEF IInv, ChainInv
  <2>2. Cardinality({x}) = 1 BY FS_Singleton
  <2> QED BY <2>1, <2>2
<1> QED BY <1>1, Spec_IInv, PTL

\* OnConnected: the sockets in use of a thread never exceed m_connection_limit.
THEOREM Spec_WithinLimit == Spec => []WithinLimit
<1>1. IInv => WithinLimit
  <2> SUFFICES ASSUME IInv, NEW t \in Thread
               PROVE  Cardinality({s \in Socket :
                                     code[s] = t /\ (s \in served \/ s \in Chain(t))}) <= Limit
    BY DEF WithinLimit
  <2> DEFINE used == {s \in Socket : code[s] = t /\ (s \in served \/ s \in Chain(t))}
  <2>1. used \subseteq active[t] BY DEF IInv, SocketInv
  <2>2. IsFiniteSet(active[t]) /\ Cardinality(active[t]) <= Limit BY DEF IInv, LimitInv
  <2> HIDE DEF used
  <2>3. /\ Cardinality(used) <= Cardinality(active[t])
        /\ Cardinality(used) \in Nat /\ Cardinality(active[t]) \in Nat
    BY <2>1, <2>2, FS_Subset, FS_CardinalityType
  <2>4. Cardinality(used) <= Limit BY <2>2, <2>3, LimitAssumption
  <2> QED BY <2>4 DEF used
<1> QED BY <1>1, Spec_IInv, PTL

\* removeSocket, process_iooperations: a socket that is served or delayed is in
\* the pool of its thread.
THEOREM Spec_ServedIsTracked == Spec => []ServedIsTracked
<1>1. IInv => ServedIsTracked
  BY Types DEF IInv, SocketInv, ServedIsTracked
<1> QED BY <1>1, Spec_IInv, PTL

\* Stop leaves no session, no operation and no active socket.
THEOREM Spec_StoppedIsEmpty == Spec => []StoppedIsEmpty
<1>1. IInv => StoppedIsEmpty
  BY DEF IInv, PhaseInv, StopInv, StoppedIsEmpty
<1> QED BY <1>1, Spec_IInv, PTL

-----------------------------------------------------------------------------
(* What Stop has to wait for, once the threads have ended.                 *)

Draining == at[Main].in \in {"drain"} \cup HandlerPlaces

\* The safety half of StopReturns: when m_ioservice.run has only what is left
\* to run, no socket waits for a client, and none has a code by which a handler
\* would accept another; unless a socket was registered for a thread that had
\* left.
DrainIsFinite ==
  Draining /\ ~late =>
    /\ at[Main].in = "drain"
    /\ \A s \in Socket : code[s] = NoThCode /\ accepting[s] # "pending"

DrainInv ==
  Draining /\ ~late =>
    at[Main].in = "drain" /\ \A s \in Socket : accepting[s] # "pending"

LEMMA Forgotten ==
  ASSUME IInv, Draining, ~late
  PROVE  \A s \in Socket : code[s] = NoThCode
<1>1. \A t \in Thread : at[t].in = "ended" BY DEF IInv, PhaseInv, Draining
<1>2. \A t \in Thread : active[t] = {} BY <1>1 DEF IInv, StopInv
<1> QED BY <1>2, Types DEF IInv, SocketInv

\* Join cancels what waits, and nothing is accepted after it.
LEMMA DrainStep ==
  ASSUME IInv, DrainInv, Next, Draining', ~late'
  PROVE  at'[Main].in = "drain" /\ \A s \in Socket : accepting'[s] # "pending"
<1> USE Names, Types
<1>0. Draining /\ ~late =>
        /\ at[Main].in = "drain" /\ \A s \in Socket : accepting[s] # "pending"
        /\ \A s \in Socket : code[s] = NoThCode
  BY Forgotten DEF DrainInv
<1>1. CASE Join
  <2>1. Move(Main, "drain", NoSocket, "ok") \/ Move(Main, "invalid", NoSocket, "ok")
    BY <1>1, Moved DEF Join
  <2>2. at'[Main].in = "drain" BY <2>1 DEF Move, Draining, HandlerPlaces
  <2>3. ASSUME Goto(Main, "invalid") PROVE FALSE
    <3>1. Move(Main, "invalid", NoSocket, "ok") BY <2>3, Moved
    <3> QED BY <2>2, <3>1 DEF Move
  <2>4. accepting' = [s \in Socket |-> IF accepting[s] = "pending"
                                       THEN "aborted" ELSE accepting[s]]
    BY <1>1, <2>3 DEF Join
  <2> QED BY <2>2, <2>4
<1>2. CASE ~Join
  <2>1. ASSUME Control \/ StopCounter \/ StopLoop \/ JoinGivesUp \/ Announce \/ ResetCounter
               \/ Await \/ Drained
        PROVE  FALSE
    <3>1. at'[Main].in \in {"announce", "forget", "clear", "abandon", "join", "invalid", "reset",
                            "await", "started", "failed", "stopped"}
      BY <2>1 DEF Control, Start, Stop, StopCounter, StopInvalid, StopLoop,
         JoinGivesUp, Announce, ResetCounter, Await,
                  Drained, Goto, Place
    <3> QED BY <3>1 DEF Draining, HandlerPlaces
  <2>2. late \in BOOLEAN BY DEF IInv, TypeOK
  <2>3. ~late
    <3>1. ASSUME NEW c, do_accept(c) PROVE late => late'
      BY <3>1, Zenon DEF do_accept
    <3>2. late' = late \/ \E t : do_accept(t)
      BY <1>2, <2>1 DEF Next, Advance, Thread_, AcceptFirst, Count, Check, Switch, Poll,
       PollReturns, Leave, Catch,
         Throws, Handlers, OnConnected, LockConn, Admit, Accept, Register, EndSession, Connect,
         DelayExpires, history
    <3> QED BY <3>1, <3>2
  <2>4. ASSUME NEW t \in Thread, Thread_(t) PROVE FALSE
    <3>1. \A f \in Executor \ {t} : at'[f] = at[f]
      BY <2>4 DEF Thread_, AcceptFirst, Count, Check, Switch, Poll,
       PollReturns, Leave, Catch, Goto
    <3>2. Draining BY <3>1 DEF Draining
    <3>3. at[t].in = "ended" BY <3>2 DEF Draining, IInv, PhaseInv
    <3> QED BY <2>4, <3>3 DEF Thread_, AcceptFirst, Count, Check, Switch, Poll,
       PollReturns, Stopping, Leave, Catch
  <2>5. ASSUME NEW e \in Executor, Handlers(e)
        PROVE  at'[Main].in = "drain" /\ \A s \in Socket : accepting'[s] # "pending"
    <3>1. /\ \A f \in Executor \ {e} : at'[f] = at[f]
          /\ at[e].in = Idle(e) \/ Handles(e)
      BY <2>5 DEF Handlers, OnConnected, Dispatches, LockConn, Admit, Accept, Register, Goto,
                  Handling, Handles, HandlerPlaces, Idle
    <3>2. Draining BY <3>1 DEF Draining, Handles, Idle
    <3>3. \A t \in Thread : at[t].in = "ended" BY <3>2 DEF Draining, IInv, PhaseInv
    <3>4. e = Main BY <3>1, <3>3 DEF Handles, HandlerPlaces, Idle
    <3>5. at[Main].in = "drain" BY <1>0, <2>3, <3>2
    <3>6. OnConnected(Main)
      BY <2>5, <3>4, <3>5 DEF Handlers, LockConn, Admit, Accept, Register
    <3>7. PICK s \in Socket :
            /\ accepting' = [accepting EXCEPT ![s] = "no"] /\ Goto(Main, Idle(Main))
      BY <1>0, <2>3, <3>2, <3>6 DEF OnConnected
    <3>8. at'[Main].in = "drain" BY <3>7, Moved DEF Move, Idle
    <3> QED BY <1>0, <2>3, <3>2, <3>7, <3>8
  <2>7. ASSUME NEW e \in Executor, Throws(e) PROVE FALSE
    <3>1. /\ \A f \in Executor \ {e} : at'[f] = at[f]
          /\ at'[e].in \in {"throwing", "threw"}
      BY <2>7 DEF Throws, Goto, Place
    <3>2. e # Main /\ Draining BY <3>1 DEF Draining, HandlerPlaces
    <3>3. at[e].in = "ended" BY <3>2 DEF Draining, IInv, PhaseInv
    <3> QED BY <2>7, <3>2, <3>3 DEF Throws, Idle, HandlerPlaces
  <2>6. CASE (\E e \in Executor, s \in Socket : EndSession(e, s)) \/ Connect \/ DelayExpires
    <3>1. UNCHANGED at BY <2>6 DEF EndSession, Connect, DelayExpires
    <3>2. Draining BY <3>1 DEF Draining
    <3>3. \A s \in Socket : accepting'[s] = "pending" => accepting[s] = "pending"
      BY <2>6 DEF EndSession, Connect, DelayExpires
    <3> QED BY <1>0, <2>3, <3>1, <3>2, <3>3
  <2> QED BY <1>2, <2>1, <2>4, <2>5, <2>6, <2>7 DEF Next, Advance
<1> QED BY <1>1, <1>2

\* TServer::Stop: after Join only what ends by itself is left, whatever the
\* clients do, for any number of threads and sockets and any limit.
THEOREM Spec_DrainIsFinite == Spec => []DrainIsFinite
<1>1. Init => DrainInv
  <2>1. Init => at[Main].in = "stopped" BY Names DEF Init, Place
  <2>2. Init => ~Draining BY <2>1 DEF Draining, HandlerPlaces
  <2> QED BY <2>2 DEF Init, DrainInv
<1>2. IInv /\ DrainInv /\ [Next]_vars => DrainInv'
  <2>1. CASE UNCHANGED vars
    BY <2>1 DEF vars, sockets, history, DrainInv, Draining
  <2>2. CASE Next
    BY <2>2, DrainStep DEF DrainInv
  <2> QED BY <2>1, <2>2
<1>3. IInv /\ DrainInv => DrainIsFinite
  BY Forgotten, Types DEF DrainInv, DrainIsFinite
<1> QED BY <1>1, <1>2, <1>3, Spec_IInv, PTL DEF Spec

-----------------------------------------------------------------------------
(* The group of the server's threads (ThreadGroup), which Start constructs  *)
(* and starts and Stop destroys: its count is exact, and no thread is left  *)
(* behind by its start, for every number of threads.                        *)

\* What the flags say of the main thread's work, and it of the threads: a
\* thread that waits goes on before the start only when it sees the pulse of
\* a constructor, and it is caught then.
GroupPhases ==
  /\ main = "idle" => subject = {} /\ detached = {} /\ \A t \in Thread : pc[t] = "none"
  /\ main = "constructing" =>
       /\ ~isEnableRunning /\ (isExiting <=> subject # {})
       /\ \A t \in subject : pc[t] = "none"
       /\ caught \/ \A t \in Thread : pc[t] \in {"none", "launched", "waiting"}
  /\ main = "started" => isEnableRunning /\ ~isExiting /\ subject = {}
  /\ detached # {} => destructor_error
  /\ destructor_error => main \in {"destroying", "failed"}

GroupInv == GroupTypeOK /\ CountIsExact /\ GroupPhases /\ GroupIsComplete

-----------------------------------------------------------------------------
LEMMA CountedFinite ==
  /\ IsFiniteSet(Counted) /\ Counted \subseteq Thread
  /\ Cardinality(Counted) \in 0 .. Numbers
  /\ Cardinality(Counted) = Numbers => Counted = Thread
<1>1. Counted \subseteq Thread BY DEF Counted
<1> QED
  BY <1>1, ThreadAssumption, FS_Subset, FS_CardinalityType DEF Numbers

\* The range of the count follows from its being exact.
LEMMA CountInRange == CountIsExact => currnumThreads \in 0 .. Numbers
BY CountedFinite DEF CountIsExact

LEMMA InitGroupInv == GroupInit => GroupInv
<1> SUFFICES ASSUME GroupInit PROVE GroupInv
  OBVIOUS
<1>1. Counted = {} BY DEF GroupInit, Counted
<1>2. CountIsExact BY <1>1, FS_EmptySet DEF GroupInit, CountIsExact
<1>3. GroupTypeOK BY <1>2, CountInRange DEF GroupInit, GroupTypeOK
<1> QED BY <1>2, <1>3 DEF GroupInit, GroupInv, GroupPhases, GroupIsComplete

\* Only the entry and the end of a thread change who is counted.
LEMMA GroupCountStep ==
  ASSUME GroupInv, [GroupNext]_groupvars
  PROVE  CountIsExact'
<1> USE DEF GroupInv, GroupTypeOK, CountIsExact
<1>1. CASE \E t \in Thread : Enter(t)
  <2> PICK t \in Thread : Enter(t) BY <1>1
  <2>1. Counted' = Counted \cup {t} /\ t \notin Counted
    BY DEF Enter, Counted
  <2>2. /\ IsFiniteSet(Counted \cup {t})
        /\ Cardinality(Counted \cup {t}) = Cardinality(Counted) + 1
    BY <2>1, CountedFinite, FS_AddElement
  <2> QED BY <2>1, <2>2 DEF Enter
<1>2. CASE \E t \in Thread : Uncount(t)
  <2> PICK t \in Thread : Uncount(t) BY <1>2
  <2>1. Counted' = Counted \ {t} /\ t \in Counted
    BY DEF Uncount, Counted
  <2> QED BY <2>1, CountedFinite, FS_RemoveElement DEF Uncount
<1>3. CASE /\ ~\E t \in Thread : Enter(t) \/ Uncount(t)
           /\ [GroupNext]_groupvars
  <2>1. Counted' = Counted /\ currnumThreads' = currnumThreads
    <3>1. CASE \E t \in Thread : Construct(t)
      BY <3>1 DEF Construct, Counted
    <3>6. CASE \E t \in Thread : Launch(t)
      <4> PICK t \in Thread : Launch(t) BY <3>6
      <4>1. pc[t] = "none" BY DEF Launch, GroupPhases
      <4> QED BY <4>1 DEF Launch, Counted
    <3>2. CASE StartLoop \/ Destroyed \/ UNCHANGED groupvars
      BY <3>2 DEF StartLoop, Destroyed, groupvars, Counted
    <3>3. CASE \E t \in Thread : Destroy(t) \/ JoinThread(t) \/ GiveUp(t)
      BY <3>3 DEF Destroy, JoinThread, GiveUp, Counted
    <3>4. CASE \E t \in Thread : Wake(t) \/ Enters(t)
      BY <3>4 DEF Wake, Enters, Counted
    <3>5. CASE \E t \in Thread : \/ FunctionReturns(t) \/ FunctionThrows(t)
                               \/ Leaves(t)
      BY <3>5 DEF FunctionReturns, FunctionThrows, Leaves, Counted
    <3> QED
      BY <1>3, <3>1, <3>2, <3>3, <3>4, <3>5, <3>6 DEF GroupNext, Construction,
         Destruction,
         ThreadStep
  <2> QED BY <2>1
<1> QED BY <1>1, <1>2, <1>3

\* The steps of the main thread.
LEMMA GroupMainSteps ==
  ASSUME GroupInv, CountIsExact',
         \/ Construction \/ StartLoop \/ Destruction
         \/ \E t \in Thread : GiveUp(t)
  PROVE  GroupInv'
<1> USE DEF GroupInv
<1>0. CountIsExact' /\ currnumThreads' \in 0 .. Numbers'
  BY CountInRange, CountedFinite DEF CountIsExact, Construction, Destruction,
     Construct, Launch,
     StartLoop, Destroy, JoinThread, Destroyed, GiveUp,
     Numbers, GroupTypeOK
<1>1. ASSUME NEW t \in Thread, Construct(t) PROVE GroupInv'
  BY <1>0, <1>1 DEF Construct, GroupTypeOK, GroupPhases, GroupIsComplete
<1>2. ASSUME NEW t \in Thread, Launch(t) PROVE GroupInv'
  BY <1>0, <1>2 DEF Launch, GroupTypeOK, GroupPhases, GroupIsComplete
<1>3. CASE StartLoop
  <2>1. Counted = Thread
    <3>1. Numbers \in Nat
      BY ThreadAssumption, FS_CardinalityType DEF Numbers
    <3>2. Cardinality(Counted) >= Numbers
      BY <1>3 DEF StartLoop, CountIsExact
    <3> QED BY <3>1, <3>2, CountedFinite
  <2>2. ~caught => \A t \in Thread : pc[t] = "waiting"
    BY <2>1, <1>3 DEF Counted, StartLoop, GroupPhases
  <2> QED BY <1>0, <2>2, <1>3 DEF StartLoop, GroupTypeOK, GroupPhases,
             GroupIsComplete
<1>4. ASSUME NEW t \in Thread, Destroy(t) PROVE GroupInv'
  BY <1>0, <1>4 DEF Destroy, GroupTypeOK, GroupPhases, GroupIsComplete
<1>5. ASSUME NEW t \in Thread, JoinThread(t) PROVE GroupInv'
  BY <1>0, <1>5 DEF JoinThread, GroupTypeOK, GroupPhases, GroupIsComplete, flags
<1>6. CASE Destroyed
  BY <1>0, <1>6 DEF Destroyed, GroupTypeOK, GroupPhases, GroupIsComplete, flags
<1>7. ASSUME NEW t \in Thread, GiveUp(t) PROVE GroupInv'
  BY <1>0, <1>7 DEF GiveUp, GroupTypeOK, GroupPhases, GroupIsComplete, flags
<1> QED BY <1>1, <1>2, <1>3, <1>4, <1>5, <1>6, <1>7 DEF Construction, Destruction

\* The steps of the threads.
LEMMA GroupThreadSteps ==
  ASSUME GroupInv, CountIsExact', NEW t \in Thread,
         ThreadStep(t) \/ FunctionThrows(t)
  PROVE  GroupInv'
<1> USE DEF GroupInv
<1>0. CountIsExact' /\ currnumThreads' \in 0 .. Numbers'
  <2>1. Cardinality(Counted') \in 0 .. Numbers
    <3>1. Counted' \subseteq Thread BY DEF Counted
    <3> QED BY <3>1, ThreadAssumption, FS_Subset, FS_CardinalityType DEF Numbers
  <2> QED BY <2>1 DEF Numbers, CountIsExact
<1>1. CASE Enter(t)
  BY <1>0, <1>1 DEF Enter, bisRunning, Caught, GroupTypeOK, GroupPhases,
     GroupIsComplete, flags
<1>2. CASE Wake(t)
  BY <1>0, <1>2 DEF Wake, bisRunning, Caught, GroupTypeOK, GroupPhases,
     GroupIsComplete, flags
<1>3. CASE Enters(t)
  BY <1>0, <1>3 DEF Enters, GroupTypeOK, GroupPhases, GroupIsComplete, flags
<1>4. CASE FunctionReturns(t)
  BY <1>0, <1>4 DEF FunctionReturns, GroupTypeOK, GroupPhases, GroupIsComplete, flags
<1>5. CASE FunctionThrows(t)
  BY <1>0, <1>5 DEF FunctionThrows, GroupTypeOK, GroupPhases, GroupIsComplete, flags
<1>6. CASE Leaves(t)
  BY <1>0, <1>6 DEF Leaves, GroupTypeOK, GroupPhases, GroupIsComplete, flags
<1>7. CASE Uncount(t)
  BY <1>0, <1>7 DEF Uncount, GroupTypeOK, GroupPhases, GroupIsComplete, flags
<1> QED BY <1>1, <1>2, <1>3, <1>4, <1>5, <1>6, <1>7 DEF ThreadStep

LEMMA NextGroupInv == GroupInv /\ [GroupNext]_groupvars => GroupInv'
<1> SUFFICES ASSUME GroupInv, [GroupNext]_groupvars PROVE GroupInv'
  OBVIOUS
<1>1. CountIsExact' BY GroupCountStep
<1>2. CASE UNCHANGED groupvars
  BY <1>2 DEF groupvars, flags, GroupInv, GroupTypeOK, CountIsExact,
     Counted, Numbers, GroupPhases, GroupIsComplete
<1> QED BY <1>1, <1>2, GroupMainSteps, GroupThreadSteps DEF GroupNext

THEOREM Group_Invariance == GroupSpec => []GroupInv
BY InitGroupInv, NextGroupInv, PTL DEF GroupSpec

-----------------------------------------------------------------------------
\* Types, among them the range of the shared count m_currnumThreads.
THEOREM Group_TypeOK == GroupSpec => []GroupTypeOK
BY Group_Invariance, PTL DEF GroupInv

\* m_currnumThreads counts the threads between their entry and their end, on
\* every way out of threadFunction.
THEOREM Group_CountIsExact == GroupSpec => []CountIsExact
BY Group_Invariance, PTL DEF GroupInv

\* StartLoop lets the group go with all its threads, unless one saw the pulse
\* of another's constructor.
THEOREM Group_GroupIsComplete == GroupSpec => []GroupIsComplete
BY Group_Invariance, PTL DEF GroupInv

-----------------------------------------------------------------------------
(* The group does not wait on itself: the half of DestroyEnds and of        *)
(* StartsUnlessCaught that does not need fairness.                          *)

\* A destructor has told the threads to leave before it waits for one.
GroupDestroys ==
  main = "destroying" =>
    ~isEnableRunning /\ isExiting /\ \A t \in subject : pc[t] # "none"

\* A constructor or a destructor need not wait, nor need a thread.
MainGoes ==
  \/ /\ main = "constructing"
     /\ subject # {} \/ currnumThreads = Numbers \/ \E t \in Thread : pc[t] = "none"
  \/ main = "destroying" /\ \A t \in subject : pc[t] = "gone"
ThreadGoes(t) ==
  \/ pc[t] \in {"launched", "released", "leaving", "inactive"}
  \/ pc[t] = "waiting" /\ bisRunning
  \/ pc[t] = "function" /\ ~isEnableRunning

GroupGoesOn ==
  main = "destroying" \/ (main = "constructing" /\ ~caught) =>
    MainGoes \/ \E t \in Thread : ThreadGoes(t)

LEMMA DestroysStep ==
  ASSUME GroupInv, GroupDestroys, [GroupNext]_groupvars
  PROVE  GroupDestroys'
<1> USE DEF GroupInv, GroupTypeOK, GroupDestroys
<1>1. ASSUME NEW t \in Thread, Construct(t) \/ Launch(t) PROVE GroupDestroys'
  BY <1>1 DEF Construct, Launch
<1>2. CASE StartLoop \/ Destroyed
  BY <1>2 DEF StartLoop, Destroyed
<1>3. ASSUME NEW t \in Thread, Destroy(t) PROVE GroupDestroys'
  BY <1>3 DEF Destroy
<1>4. ASSUME NEW t \in Thread, JoinThread(t) \/ GiveUp(t) PROVE GroupDestroys'
  BY <1>4 DEF JoinThread, GiveUp, flags
<1>5. ASSUME NEW t \in Thread, ThreadStep(t) \/ FunctionThrows(t)
      PROVE  GroupDestroys'
  <2>1. UNCHANGED <<main, subject, flags>>
    BY <1>5 DEF ThreadStep, Enter, Wake, Enters, FunctionReturns, FunctionThrows,
       Leaves, Uncount
  <2>2. pc'[t] # "none" /\ \A u \in Thread \ {t} : pc'[u] = pc[u]
    BY <1>5 DEF ThreadStep, Enter, Wake, Enters, FunctionReturns, FunctionThrows,
       Leaves, Uncount
  <2> QED BY <2>1, <2>2 DEF flags
<1>6. CASE UNCHANGED groupvars
  BY <1>6 DEF groupvars, flags
<1> QED
  BY <1>1, <1>2, <1>3, <1>4, <1>5, <1>6 DEF GroupNext, Construction, Destruction

LEMMA StartGoesOn ==
  ASSUME GroupInv, main = "constructing", ~caught
  PROVE  MainGoes \/ \E t \in Thread : ThreadGoes(t)
<1> SUFFICES ASSUME \A t \in Thread : pc[t] \notin {"none", "launched"}
             PROVE  currnumThreads = Numbers
  BY DEF MainGoes, ThreadGoes
<1>1. \A t \in Thread : pc[t] = "waiting" BY DEF GroupInv, GroupPhases
<1>2. Counted = Thread BY <1>1 DEF Counted
<1> QED BY <1>2 DEF GroupInv, CountIsExact, Numbers

LEMMA DestroyGoesOn ==
  ASSUME GroupInv, GroupDestroys, main = "destroying"
  PROVE  MainGoes \/ \E t \in Thread : ThreadGoes(t)
<1> SUFFICES ASSUME NEW t \in subject, pc[t] # "gone" PROVE ThreadGoes(t)
  BY DEF MainGoes, GroupInv, GroupTypeOK
<1>1. t \in Thread /\ pc[t] # "none" BY DEF GroupInv, GroupTypeOK, GroupDestroys
<1>2. ~isEnableRunning /\ bisRunning BY DEF GroupDestroys, bisRunning
<1> QED BY <1>1, <1>2 DEF GroupInv, GroupTypeOK, ThreadGoes

\* The destructors and their threads never wait on each other, nor does
\* StartLoop wait for a thread that waits for it, unless one was caught by the
\* pulse of a constructor: one of them can take its next step.
THEOREM Group_GoesOn == GroupSpec => []GroupGoesOn
<1>1. GroupInit => GroupDestroys BY DEF GroupInit, GroupDestroys
<1>2. GroupInv /\ GroupDestroys /\ [GroupNext]_groupvars => GroupDestroys'
  BY DestroysStep
<1>3. GroupInv /\ GroupDestroys => GroupGoesOn
  BY StartGoesOn, DestroyGoesOn DEF GroupGoesOn
<1> QED BY <1>1, <1>2, <1>3, Group_Invariance, PTL DEF GroupSpec
=============================================================================
