----------------------- MODULE ImageProcessor_proofs -----------------------
(***************************************************************************)
(* For any number of connections and any number of slots: the safety       *)
(* properties of ImageProcessor, from one inductive invariant.             *)
(***************************************************************************)
EXTENDS ImageProcessor, FiniteSetTheorems, TLAPS

(***************************************************************************)
(* The inductive invariant.  What the properties leave open is where the   *)
(* request of an owned slot is: not yet queued, in the request queue, with *)
(* the worker, or answered (its time stamp is positive).                   *)
(***************************************************************************)

\* Connection c has submitted its request in slot i; no reply is ready.
Pending(c, i) ==
  /\ c \in Conn /\ Owns(c, i)
  /\ pc[c] \in {"check", "waiting"}
  /\ repTimeout[i] = 0

Answered(c, i) == responseStock[i] # None /\ responseStock[i].from = c

SlotInv ==
  /\ NoRepeat(freeIdx)
  /\ \A c \in Conn, i \in Index : Owns(c, i) => ~InQueue(freeIdx, i)
  /\ \A c, d \in Conn, i \in Index : Owns(c, i) /\ Owns(d, i) => c = d
  /\ \A i \in Index : InQueue(freeIdx, i) \/ \E c \in Conn : Owns(c, i)

QueueInv ==
  /\ NoRepeat(requestQueue)
  /\ \A i \in Index : InQueue(requestQueue, i) => Pending(requestStock[i], i)
  /\ \A c \in Conn : pc[c] \in {"clear", "enqueue"}
                     => requestStock[ticket[c]] = c
  /\ \A c \in Conn : pc[c] = "enqueue" => repTimeout[ticket[c]] = 0

WorkerInv ==
  /\ wpc # "pop" /\ wpc # "notify" => ~InQueue(requestQueue, widx)
  /\ wpc = "draw" => Pending(requestStock[widx], widx)
  /\ wpc \in {"respond", "load", "age", "publish"} => Pending(wcli, widx)
  /\ wpc \in {"load", "age", "publish"} => Answered(wcli, widx)
  /\ wpc = "notify" => wcli \in Conn

ReplyInv ==
  /\ \A c \in Conn : pc[c] \in {"check", "waiting", "take"} /\ Available(c)
                     => Answered(c, ticket[c])
  /\ \A c \in Conn : pc[c] = "take" => Available(c)
  /\ \A c \in Conn : reply[c] # None => reply[c].from = c

IInv == TypeOK /\ SlotInv /\ QueueInv /\ WorkerInv /\ ReplyInv

-----------------------------------------------------------------------------
(* What the queues' operators do to their elements.                        *)

\* A refused or accepted push adds at most the element, and keeps the
\* elements distinct if it is new.
LEMMA PushElements ==
  ASSUME NEW q \in Seq(Index), NEW i \in Index, Len(q) <= QueueSize
  PROVE  /\ BoundedPush(q, i) \in Seq(Index)
         /\ Len(BoundedPush(q, i)) <= QueueSize
         /\ \A j \in Index : InQueue(q, j) => InQueue(BoundedPush(q, i), j)
         /\ \A j \in Index : InQueue(BoundedPush(q, i), j)
                             => InQueue(q, j) \/ j = i
         /\ NoRepeat(q) /\ ~InQueue(q, i) => NoRepeat(BoundedPush(q, i))
  BY QueueSizeAssumption DEF BoundedPush, InQueue, NoRepeat

\* Taking the head of a queue of distinct elements removes that element.
LEMMA PopElements ==
  ASSUME NEW q \in Seq(Index), Len(q) <= QueueSize, q # << >>
  PROVE  /\ Head(q) \in Index
         /\ Tail(q) \in Seq(Index)
         /\ Len(Tail(q)) <= QueueSize
         /\ \A j \in Index : InQueue(q, j) <=> InQueue(Tail(q), j) \/ j = Head(q)
         /\ NoRepeat(q) => NoRepeat(Tail(q)) /\ ~InQueue(Tail(q), Head(q))
  BY QueueSizeAssumption DEF InQueue, NoRepeat

\* Distinct slots of which one is missing leave room for it: the ignored
\* result of bounded_push is always success.
LEMMA PushSucceeds ==
  ASSUME NEW q \in Seq(Index), NEW i \in Index, Len(q) <= QueueSize,
         NoRepeat(q), ~InQueue(q, i)
  PROVE  InQueue(BoundedPush(q, i), i)
<1>1. QueueSize \in Nat /\ Len(q) \in Nat /\ q \in [1 .. Len(q) -> Index]
  BY QueueSizeAssumption
<1>2. IsFiniteSet(Index) /\ Cardinality(Index) = QueueSize
  BY <1>1, FS_Interval, QueueSizeAssumption DEF Index
<1>3. IsFiniteSet(Index \ {i}) /\ Cardinality(Index \ {i}) = QueueSize - 1
  BY <1>2, FS_RemoveElement
<1>4. q \in [1 .. Len(q) -> Index \ {i}]
  BY <1>1 DEF InQueue
<1>5. IsFiniteSet(1 .. Len(q)) /\ Cardinality(1 .. Len(q)) = Len(q)
  <2>1. 1 \in Int /\ Len(q) \in Int
    BY <1>1
  <2>2. /\ IsFiniteSet(1 .. Len(q))
        /\ Cardinality(1 .. Len(q)) = IF 1 > Len(q) THEN 0 ELSE Len(q) - 1 + 1
    BY <2>1, FS_Interval
  <2> QED
    BY <1>1, <2>2
<1>6. ~(Cardinality(Index \ {i}) < Cardinality(1 .. Len(q)))
  BY <1>3, <1>4, <1>5, FS_PigeonHole DEF NoRepeat
<1>7. Len(q) < QueueSize
  BY <1>1, <1>3, <1>5, <1>6
<1>8. BoundedPush(q, i) = Append(q, i)
  BY <1>7 DEF BoundedPush
<1> QED
  BY <1>1, <1>8 DEF InQueue

-----------------------------------------------------------------------------
(* The invariant holds initially and every step preserves it.              *)

\* The state after the constructor: every slot is free.
LEMMA InitIInv == Init => IInv
<1> SUFFICES ASSUME Init PROVE IInv
  OBVIOUS
<1>1. QueueSize \in Nat \ {0} /\ REPTIMEOUT \in Nat
  BY QueueSizeAssumption, RepTimeoutAssumption
<1>2. freeIdx \in Seq(Index) /\ Len(freeIdx) = QueueSize
  BY <1>1 DEF Init, Index
<1>3. TypeOK
  BY <1>1, <1>2 DEF Init, TypeOK, Index
<1>4. SlotInv
  <2>1. NoRepeat(freeIdx)
    BY <1>1, <1>2 DEF Init, NoRepeat
  <2>2. ASSUME NEW i \in Index PROVE InQueue(freeIdx, i)
    <3>1. i + 1 \in 1 .. Len(freeIdx) /\ freeIdx[i + 1] = i
      BY <1>1, <1>2 DEF Init, Index
    <3> QED
      BY <3>1 DEF InQueue
  <2>3. \A c \in Conn, i \in Index : ~Owns(c, i)
    BY DEF Init, Owns
  <2> QED
    BY <2>1, <2>2, <2>3 DEF SlotInv
<1>5. QueueInv
  BY DEF Init, QueueInv, NoRepeat, InQueue
<1>6. WorkerInv
  BY DEF Init, WorkerInv
<1>7. ReplyInv
  BY DEF Init, ReplyInv
<1> QED
  BY <1>3, <1>4, <1>5, <1>6, <1>7 DEF IInv

\* One step of the processor, of a connection or of the worker.
LEMMA NextIInv == IInv /\ [Next]_vars => IInv'
<1> SUFFICES ASSUME IInv, [Next]_vars PROVE IInv'
  OBVIOUS
<1> USE QueueSizeAssumption, RepTimeoutAssumption, NoneAssumption DEF IInv
<1>1. ASSUME NEW c \in Conn, Submit(c) PROVE IInv'
  <2>1. \A d \in Conn, i \in Index : Owns(d, i)' <=> Owns(d, i)
    BY <1>1
       DEF Submit, Goto, TypeOK, Owns
  <2>2. TypeOK'
    BY <1>1, <2>1
       DEF Submit, Goto, shared, worker, TypeOK, Available, Pending,
           Answered
  <2>3. SlotInv'
    BY <1>1, <2>1
       DEF Submit, Goto, shared, worker, TypeOK, SlotInv, Owns,
           Available, Pending, Answered
  <2>4. QueueInv'
    BY <1>1, <2>1
       DEF Submit, Goto, shared, worker, TypeOK, SlotInv, QueueInv,
           WorkerInv, Owns, Pending, Available, Pending, Answered
  <2>5. WorkerInv'
    BY <1>1, <2>1
       DEF Submit, Goto, shared, worker, TypeOK, SlotInv, QueueInv,
           WorkerInv, Owns, Pending, Answered, Available, Pending, Answered
  <2>6. ReplyInv'
    BY <1>1, <2>1
       DEF Submit, Goto, shared, worker, TypeOK, SlotInv, WorkerInv,
           ReplyInv, Owns, Pending, Available, Answered, Available, Pending,
           Answered
  <2> QED
    BY <2>2, <2>3, <2>4, <2>5, <2>6
<1>2. ASSUME NEW c \in Conn, PopIndex(c) PROVE IInv'
  <2>1. CASE freeIdx = << >>
    <3>1. /\ pc[c] = "pop" /\ pc' = [pc EXCEPT ![c] = "done"]
          /\ closed' = [closed EXCEPT ![c] = TRUE]
          /\ UNCHANGED <<shared, ticket, reply, worker>>
      BY <1>2, <2>1 DEF PopIndex, Goto, shared
    <3>2. \A d \in Conn, i \in Index : Owns(d, i)' <=> Owns(d, i)
      BY <3>1 DEF TypeOK, Owns, shared, worker
    <3>3. TypeOK'
      BY <3>1, <3>2
         DEF shared, worker, TypeOK
    <3>4. SlotInv'
      BY <3>1, <3>2
         DEF shared, worker, SlotInv
    <3>5. QueueInv'
      BY <3>1, <3>2
         DEF shared, worker, TypeOK, SlotInv, QueueInv, WorkerInv, Owns,
             Pending
    <3>6. WorkerInv'
      BY <3>1, <3>2
         DEF shared, worker, TypeOK, SlotInv, QueueInv, WorkerInv, Owns,
             Pending, Answered
    <3>7. ReplyInv'
      BY <3>1, <3>2
         DEF shared, worker, TypeOK, SlotInv, WorkerInv, ReplyInv, Owns,
             Pending, Available, Answered
    <3> QED
      BY <3>3, <3>4, <3>5, <3>6, <3>7
  <2>2. CASE freeIdx # << >>
    <3> DEFINE n == Head(freeIdx)
    <3>1. /\ n \in Index
          /\ Tail(freeIdx) \in Seq(Index) /\ Len(Tail(freeIdx)) <= QueueSize
          /\ \A j \in Index : InQueue(freeIdx, j)
                                <=> InQueue(Tail(freeIdx), j) \/ j = n
          /\ NoRepeat(Tail(freeIdx)) /\ ~InQueue(Tail(freeIdx), n)
      BY <2>2, PopElements DEF TypeOK, SlotInv
    <3>2. /\ freeIdx' = Tail(freeIdx)
          /\ ticket' = [ticket EXCEPT ![c] = n]
          /\ pc[c] = "pop" /\ pc' = [pc EXCEPT ![c] = "store"]
          /\ UNCHANGED <<requestQueue, requestStock, responseStock, repTimeout,
                         closed, reply, wpc, widx, wcli, wi, wold>>
      BY <1>2, <2>2 DEF PopIndex, Goto, worker
    <3> HIDE DEF n
    <3>3. \A d \in Conn, i \in Index :
            Owns(d, i)' <=> Owns(d, i) \/ (d = c /\ i = n)
      BY <3>1, <3>2 DEF TypeOK, Owns
    <3>4. TypeOK'
      BY <3>1, <3>2, <3>3
         DEF TypeOK
    <3>5. SlotInv'
      BY <3>1, <3>2, <3>3
         DEF SlotInv
    <3>6. QueueInv'
      BY <3>1, <3>2, <3>3
         DEF TypeOK, SlotInv, QueueInv, WorkerInv, Owns, Pending
    <3>7. WorkerInv'
      BY <3>1, <3>2, <3>3
         DEF TypeOK, SlotInv, QueueInv, WorkerInv, Owns, Pending,
             Answered
    <3>8. ReplyInv'
      BY <3>1, <3>2, <3>3
         DEF TypeOK, SlotInv, WorkerInv, ReplyInv, Owns, Pending,
             Available, Answered
    <3> QED
      BY <3>4, <3>5, <3>6, <3>7, <3>8
  <2> QED
    BY <2>1, <2>2
<1>3. ASSUME NEW c \in Conn, StoreRequest(c) PROVE IInv'
  BY <1>3
     DEF StoreRequest, Goto, worker, TypeOK, SlotInv, QueueInv,
         WorkerInv, ReplyInv, Owns, Pending, Answered, Available
<1>4. ASSUME NEW c \in Conn, ClearTimeout(c) PROVE IInv'
  BY <1>4
     DEF ClearTimeout, Goto, worker, TypeOK, SlotInv, QueueInv,
         WorkerInv, ReplyInv, Owns, Pending, Answered, Available
<1>5. ASSUME NEW c \in Conn, Enqueue(c) PROVE IInv'
  <2>0. PICK n \in Index : n = ticket[c]
    BY DEF TypeOK
  <2>1. /\ requestQueue' = BoundedPush(requestQueue, n)
        /\ pc[c] = "enqueue" /\ pc' = [pc EXCEPT ![c] = "check"]
        /\ UNCHANGED <<freeIdx, requestStock, responseStock, repTimeout, ticket,
                       closed, reply, wpc, widx, wcli, wi, wold>>
    BY <1>5, <2>0 DEF Enqueue, Goto, worker
  <2>2. Owns(c, n) /\ requestStock[n] = c /\ repTimeout[n] = 0
    BY <2>0, <2>1 DEF TypeOK, QueueInv, Owns
  <2>3. ~InQueue(requestQueue, n)
    BY <2>1, <2>2 DEF QueueInv, Pending
  <2>4. wpc \in {"draw", "respond", "load", "age", "publish"} => widx # n
    BY <2>1, <2>2 DEF TypeOK, SlotInv, WorkerInv, Pending
  <2>5. /\ requestQueue' \in Seq(Index) /\ Len(requestQueue') <= QueueSize
        /\ \A j \in Index : InQueue(requestQueue', j)
                             => InQueue(requestQueue, j) \/ j = n
        /\ NoRepeat(requestQueue')
    BY <2>1, <2>2, <2>3, PushElements DEF TypeOK, QueueInv
  <2>6. \A d \in Conn, i \in Index : Owns(d, i)' <=> Owns(d, i)
    BY <2>1 DEF TypeOK, Owns
  <2>7. \A d, i : Pending(d, i) => Pending(d, i)'
    BY <2>1 DEF TypeOK, Pending, Owns
  <2>8. Pending(c, n)'
    BY <2>1, <2>2 DEF TypeOK, Pending, Owns
  <2>9. TypeOK'
    BY <2>1, <2>5 DEF TypeOK
  <2>10. SlotInv'
    BY <2>1, <2>6 DEF SlotInv
  <2>11. QueueInv'
    BY <2>1, <2>2, <2>5, <2>7, <2>8 DEF TypeOK, QueueInv
  <2>12. WorkerInv'
    BY <2>1, <2>4, <2>5, <2>7 DEF TypeOK, WorkerInv, Answered
  <2>13. ReplyInv'
    BY <2>0, <2>1, <2>2 DEF TypeOK, ReplyInv, Available, Answered
  <2> QED
    BY <2>9, <2>10, <2>11, <2>12, <2>13
<1>6. ASSUME NEW c \in Conn, Check(c) PROVE IInv'
  BY <1>6
     DEF Check, Goto, shared, worker, TypeOK, SlotInv, QueueInv,
         WorkerInv, ReplyInv, Owns, Pending, Answered, Available
<1>7. ASSUME NEW c \in Conn, Poll(c) PROVE IInv'
  BY <1>7
     DEF Poll, Goto, shared, worker, TypeOK, SlotInv, QueueInv,
         WorkerInv, ReplyInv, Owns, Pending, Answered, Available
<1>8. ASSUME NEW c \in Conn, TakeReply(c) PROVE IInv'
  BY <1>8
     DEF TakeReply, Goto, worker, TypeOK, SlotInv, QueueInv, WorkerInv,
         ReplyInv, Owns, Pending, Answered, Available
<1>9. ASSUME NEW c \in Conn, ReleaseIndex(c) PROVE IInv'
  <2> DEFINE n == ticket[c]
  <2>1. /\ freeIdx' = BoundedPush(freeIdx, n)
        /\ pc[c] = "release" /\ pc' = [pc EXCEPT ![c] = "done"]
        /\ UNCHANGED <<requestQueue, requestStock, responseStock, repTimeout,
                       ticket, closed, reply, wpc, widx, wcli, wi, wold>>
    BY <1>9 DEF ReleaseIndex, Goto, worker
  <2>2. n \in Index /\ Owns(c, n) /\ ~InQueue(freeIdx, n)
    BY <2>1 DEF TypeOK, SlotInv, Owns
  <2>3. /\ freeIdx' \in Seq(Index) /\ Len(freeIdx') <= QueueSize
        /\ \A j \in Index : InQueue(freeIdx, j) => InQueue(freeIdx', j)
        /\ \A j \in Index : InQueue(freeIdx', j) => InQueue(freeIdx, j) \/ j = n
        /\ NoRepeat(freeIdx')
    BY <2>1, <2>2, PushElements DEF TypeOK, SlotInv
  <2>4. InQueue(freeIdx', n)
    BY <2>1, <2>2, PushSucceeds DEF TypeOK, SlotInv
  <2>5. \A d \in Conn, i \in Index : Owns(d, i)' <=> Owns(d, i) /\ d # c
    BY <2>1 DEF TypeOK, Owns
  <2>6. \A d, i : Pending(d, i) => Pending(d, i)'
    BY <2>1 DEF TypeOK, Pending, Owns
  <2>7. TypeOK'
    BY <2>1, <2>3 DEF TypeOK
  <2>8. SlotInv'
    <3>1. \A i \in Index : InQueue(freeIdx', i) \/ \E d \in Conn : Owns(d, i)'
      BY <2>2, <2>3, <2>4, <2>5 DEF SlotInv, Owns
    <3>2. \A d \in Conn, i \in Index : Owns(d, i)' => ~InQueue(freeIdx', i)
      BY <2>2, <2>3, <2>5 DEF SlotInv
    <3> QED
      BY <2>3, <2>5, <3>1, <3>2 DEF SlotInv
  <2>9. QueueInv'
    BY <2>1, <2>6 DEF TypeOK, QueueInv
  <2>10. WorkerInv'
    BY <2>1, <2>6 DEF TypeOK, WorkerInv, Answered
  <2>11. ReplyInv'
    BY <2>1 DEF TypeOK, ReplyInv, Available, Answered
  <2> QED
    BY <2>7, <2>8, <2>9, <2>10, <2>11
<1>10. ASSUME NEW c \in Conn, Close(c) PROVE IInv'
  BY <1>10
     DEF Close, shared, worker, TypeOK, SlotInv, QueueInv, WorkerInv,
         ReplyInv, Owns, Pending, Answered, Available
<1>11. ASSUME PopRequest PROVE IInv'
  BY <1>11, PopElements
     DEF PopRequest, conns, TypeOK, SlotInv, QueueInv, WorkerInv,
         ReplyInv, Owns, Pending, Answered, Available
<1>12. ASSUME TakeRequest PROVE IInv'
  BY <1>12
     DEF TakeRequest, conns, TypeOK, SlotInv, QueueInv, WorkerInv,
         ReplyInv, Owns, Pending, Answered, Available
<1>13. ASSUME StoreReply PROVE IInv'
  <2>1. PICK drawn \in BOOLEAN :
          responseStock' =
            [responseStock EXCEPT ![widx] = [from |-> wcli, drawn |-> drawn]]
    BY <1>13 DEF StoreReply
  <2> DEFINE r == [from |-> wcli, drawn |-> drawn]
  <2>2. /\ wpc = "respond" /\ wpc' = "load" /\ wi' = 0
        /\ UNCHANGED <<freeIdx, requestQueue, requestStock, repTimeout, pc, ticket,
                       closed, reply, widx, wcli, wold>>
    BY <1>13 DEF StoreReply, conns
  <2>3. Pending(wcli, widx) /\ widx \in Index
    BY <2>2 DEF TypeOK, WorkerInv
  <2>4. r \in Reply /\ r.from = wcli
    BY <2>3 DEF Pending, Reply
  <2>5. r # None
    BY <2>4, NoneAssumption
  <2> HIDE DEF r
  <2>6. responseStock' = [responseStock EXCEPT ![widx] = r]
    BY <2>1 DEF r
  <2>7. \A d, i : Pending(d, i) => Pending(d, i)'
    BY <2>2 DEF Pending, Owns
  <2>8. TypeOK'
    <3>1. 0 \in Index
      BY DEF Index
    <3> QED
      BY <2>2, <2>4, <2>6, <3>1 DEF TypeOK
  <2>9. SlotInv'
    BY <2>2 DEF SlotInv, Owns
  <2>10. QueueInv'
    BY <2>2, <2>7 DEF QueueInv
  <2>11. WorkerInv'
    BY <2>2, <2>3, <2>4, <2>5, <2>6, <2>7 DEF TypeOK, WorkerInv, Answered
  <2>12. ReplyInv'
    BY <2>2, <2>3, <2>4, <2>5, <2>6
       DEF TypeOK, SlotInv, ReplyInv, Available, Answered, Pending, Owns
  <2> QED
    BY <2>8, <2>9, <2>10, <2>11, <2>12
<1>14. ASSUME LoadTimeout PROVE IInv'
  BY <1>14
     DEF LoadTimeout, shared, conns, TypeOK, SlotInv, QueueInv,
         WorkerInv, ReplyInv, Owns, Pending, Answered, Available
<1>15. ASSUME AgeReply PROVE IInv'
  <2>1. repTimeout' = repTimeout
    BY <1>15 DEF AgeReply, TypeOK
  <2> QED
    BY <1>15, <2>1
       DEF AgeReply, conns, Index, TypeOK, SlotInv, QueueInv, WorkerInv,
           ReplyInv, Owns, Pending, Answered, Available
<1>16. ASSUME PublishReply PROVE IInv'
  BY <1>16
     DEF PublishReply, conns, TypeOK, SlotInv, QueueInv, WorkerInv,
         ReplyInv, Owns, Pending, Answered, Available
<1>17. ASSUME Notify PROVE IInv'
  BY <1>17
     DEF Notify, shared, conns, Index, TypeOK, SlotInv, QueueInv,
         WorkerInv, ReplyInv, Owns, Pending, Answered, Available
<1>18. CASE UNCHANGED vars
  <2>1. TypeOK'
    BY <1>18
       DEF vars, shared, conns, worker, TypeOK, InQueue, NoRepeat,
           Available, Pending, Answered
  <2>2. SlotInv'
    BY <1>18
       DEF vars, shared, conns, worker, TypeOK, SlotInv, Owns, InQueue,
           NoRepeat, Available, Pending, Answered
  <2>3. QueueInv'
    BY <1>18
       DEF vars, shared, conns, worker, TypeOK, SlotInv, QueueInv,
           WorkerInv, Owns, Pending, InQueue, NoRepeat, Available, Pending,
           Answered
  <2>4. WorkerInv'
    BY <1>18
       DEF vars, shared, conns, worker, TypeOK, SlotInv, QueueInv,
           WorkerInv, Owns, Pending, Answered, InQueue, NoRepeat, Available,
           Pending, Answered
  <2>5. ReplyInv'
    BY <1>18
       DEF vars, shared, conns, worker, TypeOK, SlotInv, WorkerInv,
           ReplyInv, Owns, Pending, Available, Answered, InQueue, NoRepeat,
           Available, Pending, Answered
  <2> QED
    BY <2>1, <2>2, <2>3, <2>4, <2>5
<1> QED
  BY <1>1, <1>2, <1>3, <1>4, <1>5, <1>6, <1>7, <1>8, <1>9, <1>10, <1>11,
     <1>12, <1>13, <1>14, <1>15, <1>16, <1>17, <1>18
     DEF Next, Connection, Worker

-----------------------------------------------------------------------------
(* What the invariant implies.                                             *)

\* The invariant holds in every reachable state of the processor.
THEOREM Invariance == Spec => []IInv
  BY InitIInv, NextIInv, PTL DEF Spec

\* Type correctness of the processor, for any number of slots and
\* connections.
THEOREM TypeCorrect == Spec => []TypeOK
<1>1. IInv => TypeOK
  BY DEF IInv
<1> QED
  BY <1>1, Invariance, PTL

\* No slot is handed out twice, and none leaves the free FIFO and its owners.
THEOREM SlotsAreConserved == Spec => []SlotsConserved
<1>1. IInv => SlotsConserved
  BY DEF IInv, SlotInv, SlotsConserved
<1> QED
  BY <1>1, Invariance, PTL

\* The worker never dereferences an empty slot of m_request_stock.
THEOREM RequestIsStored == Spec => []RequestStored
<1>1. IInv => RequestStored
  <2>1. ASSUME IInv, NEW i \in Index, InQueue(requestQueue, i)
        PROVE  requestStock[i] # None /\ Owns(requestStock[i], i)
    BY <2>1, NoneAssumption DEF IInv, QueueInv, Pending
  <2>2. ASSUME IInv, wpc = "draw"
        PROVE  requestStock[widx] # None /\ Owns(requestStock[widx], widx)
    BY <2>2, NoneAssumption DEF IInv, WorkerInv, Pending
  <2> QED
    BY <2>1, <2>2 DEF RequestStored, IInv, QueueInv
<1> QED
  BY <1>1, Invariance, PTL

\* A connection that sees its reply ready finds its own reply in the slot.
THEOREM ReplyIsStored == Spec => []ReplyStored
<1>1. IInv => ReplyStored
  BY RepTimeoutAssumption
     DEF IInv, TypeOK, QueueInv, ReplyInv, ReplyStored, Available, Answered
<1> QED
  BY <1>1, Invariance, PTL

\* Both together: no stock is read where it is empty.
THEOREM StocksAreAlwaysFilled == Spec => []StocksAreFilled
BY RequestIsStored, ReplyIsStored, PTL DEF StocksAreFilled

\* A connection never fetches the reply to another connection's request.
THEOREM ReplyIsItsOwn == Spec => []ReplyIsOwn
<1>1. IInv => ReplyIsOwn
  BY DEF IInv, ReplyInv, ReplyIsOwn
<1> QED
  BY <1>1, Invariance, PTL
-----------------------------------------------------------------------------
(* Each connection and the processor keep to the contract Request.         *)

\* A connection holds a reply only after it fetched it.
FetchedInv == \A c \in Conn : reply[c] # None => pc[c] \in {"release", "done"}

LEMMA FetchedStep == TypeOK /\ FetchedInv /\ [Next]_vars => FetchedInv'
<1> SUFFICES ASSUME TypeOK, FetchedInv, [Next]_vars PROVE FetchedInv'
  OBVIOUS
<1> USE DEF TypeOK, FetchedInv, Goto
<1>1. CASE \E c \in Conn : Submit(c)
  BY <1>1 DEF Submit
<1>2. CASE \E c \in Conn : PopIndex(c)
  BY <1>2 DEF PopIndex
<1>3. CASE \E c \in Conn : StoreRequest(c) \/ ClearTimeout(c) \/ Enqueue(c)
  BY <1>3 DEF StoreRequest, ClearTimeout, Enqueue
<1>4. CASE \E c \in Conn : Check(c) \/ Poll(c) \/ Close(c)
  BY <1>4 DEF Check, Poll, Close
<1>5. CASE \E c \in Conn : TakeReply(c)
  BY <1>5 DEF TakeReply
<1>6. CASE \E c \in Conn : ReleaseIndex(c)
  BY <1>6 DEF ReleaseIndex
<1>7. CASE Worker
  <2>1. UNCHANGED <<pc, reply>>
    BY <1>7 DEF Worker, PopRequest, TakeRequest, StoreReply, LoadTimeout, AgeReply,
                PublishReply, Notify, conns
  <2> QED BY <2>1
<1>8. CASE UNCHANGED vars
  BY <1>8 DEF vars, conns
<1> QED
  BY <1>1, <1>2, <1>3, <1>4, <1>5, <1>6, <1>7, <1>8 DEF Next, Connection

\* The terms in which a connection is seen, and the steps they may take.
LEMMA RequestRefines ==
  IInv /\ FetchedInv /\ [Next]_vars
  => \A c \in Conn : RequestOf(c)!Next
                     \/ UNCHANGED <<RequestState(c), NotifyState(c), Locked(c)>>
<1> SUFFICES ASSUME IInv, FetchedInv, [Next]_vars, NEW d \in Conn
             PROVE  \/ RequestOf(d)!Next
                    \/ UNCHANGED <<RequestState(d), NotifyState(d), Locked(d)>>
  OBVIOUS
<1> USE RepTimeoutAssumption
    DEF IInv, TypeOK, FetchedInv, Goto, RequestState, NotifyState, Locked, Available
<1> DEFINE Rest(e) == UNCHANGED <<RequestState(e), NotifyState(e), Locked(e)>>
<1>0. ASSUME NEW c \in Conn, c # d,
             UNCHANGED <<pc[d], reply[d], ticket[d], wpc, wcli>>,
             pc[d] \in {"check", "waiting", "take"}
             => repTimeout'[ticket[d]] = repTimeout[ticket[d]]
      PROVE  Rest(d)
  BY <1>0
<1>1. CASE \E c \in Conn : Submit(c)
  <2> PICK c \in Conn : Submit(c) BY <1>1
  <2>1. CASE c # d
    BY <2>1, <1>0 DEF Submit, shared, worker
  <2>2. CASE c = d
    BY <2>2 DEF Submit, shared, worker, RequestOf!Next, RequestOf!Take
  <2> QED BY <2>1, <2>2
<1>2. CASE \E c \in Conn : PopIndex(c)
  <2> PICK c \in Conn : PopIndex(c) BY <1>2
  <2>1. CASE c # d
    BY <2>1, <1>0 DEF PopIndex, worker
  <2>2. CASE c = d
    BY <2>2 DEF PopIndex, worker, RequestOf!Next, RequestOf!Release
  <2> QED BY <2>1, <2>2
<1>3. CASE \E c \in Conn : StoreRequest(c)
  <2> PICK c \in Conn : StoreRequest(c) BY <1>3
  <2> QED BY DEF StoreRequest, worker
<1>4. CASE \E c \in Conn : ClearTimeout(c)
  <2> PICK c \in Conn : ClearTimeout(c) BY <1>4
  <2>1. CASE c # d
    <3>1. pc[d] \in {"check", "waiting", "take"} => ticket[d] # ticket[c]
      BY <2>1 DEF ClearTimeout, SlotInv, Owns
    <3> QED BY <2>1, <3>1, <1>0 DEF ClearTimeout, worker
  <2>2. CASE c = d
    BY <2>2 DEF ClearTimeout, worker
  <2> QED BY <2>1, <2>2
<1>5. CASE \E c \in Conn : Enqueue(c)
  <2> PICK c \in Conn : Enqueue(c) BY <1>5
  <2>1. CASE c # d
    BY <2>1, <1>0 DEF Enqueue, worker
  <2>2. CASE c = d
    BY <2>2 DEF Enqueue, worker, QueueInv, RequestOf!Next, RequestOf!Submit
  <2> QED BY <2>1, <2>2
<1>6. CASE \E c \in Conn : Check(c)
  <2> PICK c \in Conn : Check(c) BY <1>6
  <2>1. CASE c # d
    BY <2>1, <1>0 DEF Check, shared, worker
  <2>2. CASE c = d
    BY <2>2 DEF Check, shared, worker, RequestOf!Next, RequestOf!Release
  <2> QED BY <2>1, <2>2
<1>7. CASE \E c \in Conn : Poll(c)
  <2> PICK c \in Conn : Poll(c) BY <1>7
  <2>1. CASE c # d
    BY <2>1, <1>0 DEF Poll, shared, worker
  <2>2. CASE c = d
    BY <2>2 DEF Poll, shared, worker, RequestOf!Next, RequestOf!Take
  <2> QED BY <2>1, <2>2
<1>8. CASE \E c \in Conn : TakeReply(c)
  <2> PICK c \in Conn : TakeReply(c) BY <1>8
  <2>1. CASE c # d
    BY <2>1, <1>0 DEF TakeReply, worker
  <2>2. CASE c = d
    <3>1. RequestState(d) = "ready" /\ RequestState(d)' = "fetched"
      BY <2>2 DEF TakeReply, ReplyInv, Answered
    <3>2. Locked(d) /\ Locked(d)'
      BY <2>2 DEF TakeReply
    <3>3. NotifyState(d)' = NotifyState(d)
      BY <2>2, <3>1 DEF TakeReply, worker
    <3> QED BY <3>1, <3>2, <3>3 DEF RequestOf!Next, RequestOf!Fetch
  <2> QED BY <2>1, <2>2
<1>9. CASE \E c \in Conn : ReleaseIndex(c)
  <2> PICK c \in Conn : ReleaseIndex(c) BY <1>9
  <2>1. CASE c # d
    BY <2>1, <1>0 DEF ReleaseIndex, worker
  <2>2. CASE c = d
    BY <2>2 DEF ReleaseIndex, worker, RequestOf!Next, RequestOf!Release
  <2> QED BY <2>1, <2>2
<1>10. CASE \E c \in Conn : Close(c)
  BY <1>10 DEF Close, shared, worker
<1>11. CASE PopRequest \/ TakeRequest \/ StoreReply \/ LoadTimeout
  BY <1>11 DEF PopRequest, TakeRequest, StoreReply, LoadTimeout, shared, conns
<1>12. CASE AgeReply
  <2>1. repTimeout' = repTimeout
    BY <1>12 DEF AgeReply
  <2> QED BY <1>12, <2>1 DEF AgeReply, conns
<1>13. CASE PublishReply
  <2>1. Pending(wcli, widx)
    BY <1>13 DEF PublishReply, WorkerInv
  <2>2. CASE d = wcli
    <3>1. RequestState(d) = "submitted" /\ RequestState(d)' = "ready"
      BY <1>13, <2>1, <2>2 DEF PublishReply, conns, Pending, Owns
    <3>2. NotifyState(d) = "no" /\ NotifyState(d)' = "due"
      BY <1>13, <2>2, <3>1 DEF PublishReply
    <3>3. Locked(d)' = Locked(d)
      BY <1>13 DEF PublishReply, conns
    <3> QED BY <3>1, <3>2, <3>3 DEF RequestOf!Next, RequestOf!Publish
  <2>3. CASE d # wcli
    <3>1. pc[d] \in {"check", "waiting", "take"} => ticket[d] # widx
      BY <2>1, <2>3 DEF SlotInv, Pending, Owns
    <3>2. pc[d] \in {"check", "waiting", "take"}
          => repTimeout'[ticket[d]] = repTimeout[ticket[d]]
      BY <1>13, <3>1 DEF PublishReply
    <3>3. RequestState(d)' = RequestState(d) /\ Locked(d)' = Locked(d)
      BY <1>13, <3>2 DEF PublishReply, conns
    <3>4. NotifyState(d)' = NotifyState(d)
      BY <1>13, <2>3, <3>3 DEF PublishReply
    <3> QED BY <3>3, <3>4
  <2> QED BY <2>2, <2>3
<1>14. CASE Notify
  <2>1. RequestState(d)' = RequestState(d) /\ Locked(d)' = Locked(d)
    BY <1>14 DEF Notify, shared, conns
  <2>2. CASE d = wcli
    BY <1>14, <2>1, <2>2 DEF Notify, RequestOf!Next, RequestOf!Notify
  <2>3. CASE d # wcli
    BY <1>14, <2>1, <2>3 DEF Notify
  <2> QED BY <2>2, <2>3
<1>15. CASE UNCHANGED vars
  BY <1>15 DEF vars, shared, conns, worker
<1> QED
  BY <1>1, <1>2, <1>3, <1>4, <1>5, <1>6, <1>7, <1>8, <1>9, <1>10, <1>11, <1>12,
     <1>13, <1>14, <1>15 DEF Next, Connection, Worker

\* To each connection the processor is what Request says, for any number of
\* connections and slots.
THEOREM ContractIsKept == Spec => ImplementsRequest
<1>1. Init => \A c \in Conn : RequestOf(c)!Init
  <2> SUFFICES ASSUME Init, NEW c \in Conn PROVE RequestOf(c)!Init
    OBVIOUS
  <2>1. RequestState(c) = "none" /\ ~Locked(c)
    BY DEF Init, RequestState, Locked
  <2>2. Locked(c) = FALSE
    BY <2>1 DEF Locked
  <2> QED BY <2>1, <2>2 DEF RequestOf!Init, NotifyState
<1>2. Init => FetchedInv
  BY DEF Init, FetchedInv
<1>3. IInv => TypeOK
  BY DEF IInv
<1> QED
  BY <1>1, <1>2, <1>3, FetchedStep, RequestRefines, Invariance, PTL
     DEF Spec, ImplementsRequest

-----------------------------------------------------------------------------
(* Where a request is, between its submission and its reply.               *)

Queued(c) == InQueue(requestQueue, ticket[c]) /\ requestStock[ticket[c]] = c

WithWorker(c) ==
  /\ widx = ticket[c]
  /\ \/ wpc = "draw" /\ requestStock[widx] = c
     \/ wpc \in {"respond", "load", "age", "publish"} /\ wcli = c

\* No request is lost between the connection, the queue and the worker: one
\* that was submitted is answered, is queued, or is the worker's.
NoRequestLost ==
  \A c \in Conn : pc[c] \in {"check", "waiting"} => Available(c) \/ Queued(c) \/ WithWorker(c)

\* A connection that submits finds room in the queue, and touches no slot but
\* its own.
LEMMA ConnectionKeepsRequests ==
  ASSUME IInv, NoRequestLost, NEW c \in Conn, Connection(c) \/ Close(c)
  PROVE  NoRequestLost'
<1> USE QueueSizeAssumption, RepTimeoutAssumption DEF IInv, TypeOK
<1> SUFFICES ASSUME NEW d \in Conn, pc'[d] \in {"check", "waiting"}
             PROVE  Available(d)' \/ Queued(d)' \/ WithWorker(d)'
  BY DEF NoRequestLost
<1>0. UNCHANGED worker
  BY DEF Connection, Submit, PopIndex, StoreRequest, ClearTimeout, Enqueue, Check, Poll, TakeReply,
         ReleaseIndex, Close
<1>1. CASE d = c /\ Enqueue(c)
  <2>1. ~InQueue(requestQueue, ticket[c]) /\ requestStock[ticket[c]] = c
    BY <1>1 DEF Enqueue, QueueInv, Pending
  <2>2. ticket[c] \in Index
    OBVIOUS
  <2>3. InQueue(BoundedPush(requestQueue, ticket[c]), ticket[c])
    BY <2>1, <2>2, PushSucceeds DEF QueueInv
  <2> QED BY <1>1, <2>1, <2>3 DEF Enqueue, Queued
<1>2. CASE ~(d = c /\ Enqueue(c))
  <2>1. pc[d] \in {"check", "waiting"} /\ ticket'[d] = ticket[d]
    BY <1>2 DEF Connection, Submit, PopIndex, StoreRequest, ClearTimeout, Enqueue, Check, Poll,
                TakeReply, ReleaseIndex, Close, Goto
  <2>2. Owns(d, ticket[d]) /\ ticket[d] \in Index
    BY <2>1 DEF Owns
  <2>3. (StoreRequest(c) \/ ClearTimeout(c)) => ticket[c] # ticket[d]
    BY <2>1, <2>2 DEF StoreRequest, ClearTimeout, SlotInv, Owns
  <2>4. repTimeout'[ticket[d]] = repTimeout[ticket[d]]
    BY <2>2, <2>3
       DEF Connection, Submit, PopIndex, StoreRequest, ClearTimeout, Enqueue, Check, Poll,
           TakeReply, ReleaseIndex, Close, shared
  <2>5. requestStock'[ticket[d]] = requestStock[ticket[d]]
    BY <2>2, <2>3
       DEF Connection, Submit, PopIndex, StoreRequest, ClearTimeout, Enqueue, Check, Poll,
           TakeReply, ReleaseIndex, Close, shared
  <2>6. InQueue(requestQueue, ticket[d]) => InQueue(requestQueue', ticket[d])
    <3>1. CASE Enqueue(c)
      BY <3>1, <2>2, PushElements DEF Enqueue
    <3>2. CASE ~Enqueue(c)
      BY <3>2 DEF Connection, Submit, PopIndex, StoreRequest, ClearTimeout, Check, Poll,
                  TakeReply, ReleaseIndex, Close, shared
    <3> QED BY <3>1, <3>2
  <2>7. Available(d) \/ Queued(d) \/ WithWorker(d)
    BY <2>1 DEF NoRequestLost
  <2> QED BY <1>0, <2>1, <2>4, <2>5, <2>6, <2>7 DEF Available, Queued, WithWorker, worker
<1> QED BY <1>1, <1>2

\* The worker leaves a request only when its reply is published.
LEMMA WorkerKeepsRequests ==
  ASSUME IInv, NoRequestLost, Worker
  PROVE  NoRequestLost'
<1> USE QueueSizeAssumption, RepTimeoutAssumption DEF IInv, TypeOK
<1> SUFFICES ASSUME NEW d \in Conn, pc'[d] \in {"check", "waiting"}
             PROVE  Available(d)' \/ Queued(d)' \/ WithWorker(d)'
  BY DEF NoRequestLost
<1>0. UNCHANGED conns
  BY DEF Worker, PopRequest, TakeRequest, StoreReply, LoadTimeout, AgeReply, PublishReply, Notify
<1>1. /\ pc[d] \in {"check", "waiting"} /\ ticket'[d] = ticket[d] /\ ticket[d] \in Index
      /\ Available(d) \/ Queued(d) \/ WithWorker(d)
  BY <1>0 DEF conns, NoRequestLost
<1>2. CASE PopRequest
  <2>1. \A j \in Index : InQueue(requestQueue, j)
                         <=> InQueue(requestQueue', j) \/ j = widx'
    BY <1>2, PopElements DEF PopRequest
  <2> QED BY <1>1, <1>2, <2>1 DEF PopRequest, Available, Queued, WithWorker
<1>3. CASE TakeRequest
  <2>1. ~InQueue(requestQueue, widx) BY <1>3 DEF TakeRequest, WorkerInv
  <2> QED BY <1>1, <1>3, <2>1 DEF TakeRequest, Available, Queued, WithWorker
<1>4. CASE StoreReply \/ LoadTimeout
  BY <1>1, <1>4 DEF StoreReply, LoadTimeout, shared, Available, Queued, WithWorker
<1>5. CASE AgeReply
  <2>1. repTimeout' = repTimeout BY <1>5 DEF AgeReply
  <2> QED BY <1>1, <1>5, <2>1 DEF AgeReply, Available, Queued, WithWorker
<1>6. CASE PublishReply
  BY <1>1, <1>6 DEF PublishReply, Available, Queued, WithWorker
<1>7. CASE Notify
  BY <1>1, <1>7 DEF Notify, shared, Available, Queued, WithWorker
<1> QED BY <1>2, <1>3, <1>4, <1>5, <1>6, <1>7 DEF Worker

\* EveryRequestAnswered, as far as it is safety: wherever the worker and the
\* connections stand, what a connection waits for is still on its way.
THEOREM RequestsAreKept == Spec => []NoRequestLost
<1>1. Init => NoRequestLost
  BY DEF Init, NoRequestLost
<1>2. IInv /\ NoRequestLost /\ [Next]_vars => NoRequestLost'
  <2>1. CASE UNCHANGED vars
    BY <2>1 DEF vars, shared, conns, worker, NoRequestLost, Available, Queued, WithWorker, InQueue
  <2> QED BY <2>1, ConnectionKeepsRequests, WorkerKeepsRequests DEF Next
<1> QED
  BY <1>1, <1>2, Invariance, PTL DEF Spec
=============================================================================
