---------------------------- MODULE Signals_proofs ----------------------------
(***************************************************************************)
(* The lock of the watchdog and the error log are safe from signals, for   *)
(* every number of threads, calls, signals and attempts; the lock itself   *)
(* (TicketLock) is safe and is the fair lock; and the threads hang only    *)
(* when a handler waits for what the thread beneath it holds.              *)
(***************************************************************************)
EXTENDS Signals, SequenceTheorems, TLAPS

\* A handler is in show_errmsg only from the callback of the watchdog.
HandlerShows == \A t \in Thread : show[Handler(t)] # "none" => handler[t] = "callback"

\* What is counted is not less than what is written.
LogCounted == position <= file_buffer_size

IInv == TypeOK /\ HandlerShows /\ OneWriter /\ LogCounted /\ LogFits

-----------------------------------------------------------------------------
\* The frames of a thread are frames, and none of them is NoFrame.
LEMMA Frames ==
  /\ \A t \in Thread : Own(t) \in Frame /\ Handler(t) \in Frame /\ Own(t) # Handler(t)
  /\ \A f \in Frame : /\ f # NoFrame /\ f[1] \in Thread
                      /\ f[2] = "handler" => f = Handler(f[1])
  /\ \A t, u \in Thread : Handler(t) = Handler(u) => t = u
  BY SignalsAssumption DEF Frame, Own, Handler, NoFrame

LEMMA InitIInv == Init => IInv
<1> SUFFICES ASSUME Init PROVE IInv
  OBVIOUS
<1>1. slock_reg!TypeOK BY DEF Init, slock_reg!Init, slock_reg!TypeOK
<1>2. total \in [Thread -> 0 .. 1] BY DEF Init
<1>3. attempts \in [Frame -> 0 .. max_attempts - 1] BY SignalsAssumption DEF Init
<1>4. signals \in 0 .. MaxSignals BY SignalsAssumption DEF Init
<1>5. operation \in [Thread -> {"none", "register", "unregister", "feed", "start", "stop",
                               "failed", "stopping"}]
  BY DEF Init
<1>50. /\ handler \in [Thread -> {"none", "notify", "locking", "callback"}]
       /\ show \in [Frame -> {"none", "try", "writing", "unlock"}]
  BY DEF Init
<1>51. is_wdstarted \in BOOLEAN /\ timer \in BOOLEAN
  BY Zenon DEF Init
<1>52. m_totalthreads \in 0 .. 1
  BY DEF Init
<1>6. TypeOK BY <1>1, <1>2, <1>3, <1>4, <1>5, <1>50, <1>51, <1>52 DEF Init, TypeOK
<1>7. HandlerShows BY Frames DEF Init, HandlerShows
<1>8. OneWriter BY Frames DEF Init, OneWriter
<1> QED BY <1>6, <1>7, <1>8, SignalsAssumption DEF Init, IInv, LogCounted, LogFits

\* The calls of the watchdog and the handler up to its callback do not touch
\* the error log.
LEMMA WatchdogSteps ==
  ASSUME IInv, NEW t \in Thread,
         \/ Call(t) \/ Signal(t) \/ Body(t) \/ Return(t)
         \/ NotifyLocks(t) \/ NotifyLeaves(t) \/ NotifyReads(t) \/ (\E f \in Frame : Served(f))
  PROVE  IInv'
<1> USE DEF IInv
<1>1. slock_reg!TypeOK'
  <2>1. CASE Call(t) \/ NotifyLocks(t)
    BY <2>1, Frames DEF Call, NotifyLocks, slock_reg!FetchAdd, TypeOK, slock_reg!TypeOK
  <2>2. CASE Signal(t) \/ NotifyLeaves(t)
    BY <2>2 DEF Signal, NotifyLeaves, lockvars, TypeOK, slock_reg!TypeOK
  <2>3. CASE Body(t) \/ NotifyReads(t)
    <3>1. PICK f \in Frame : slock_reg!Load(f) BY <2>3, Frames DEF Body, NotifyReads
    <3> QED BY <3>1 DEF slock_reg!Load, TypeOK, slock_reg!TypeOK
  <2>4. CASE Return(t)
    BY <2>4, Frames DEF Return, slock_reg!Store, TypeOK, slock_reg!TypeOK
  <2>5. ASSUME NEW f \in Frame, Served(f) PROVE slock_reg!TypeOK'
    BY <2>5 DEF Served, slock_reg!Served, TypeOK, slock_reg!TypeOK
  <2> QED BY <2>1, <2>2, <2>3, <2>4, <2>5
<1>2. /\ is_wdstarted' \in BOOLEAN /\ timer' \in BOOLEAN /\ m_totalthreads' \in 0 .. 1
  <2>1. CASE Body(t)
    <3>1. is_wdstarted' \in BOOLEAN /\ timer' \in BOOLEAN
      BY <2>1, Zenon DEF Body, wdvars, TypeOK
    <3>3. m_totalthreads' = 0 \/ m_totalthreads' = 1 \/ m_totalthreads' = m_totalthreads
      BY <2>1, SMT DEF Body, Counts, wdvars
    <3>4. m_totalthreads' \in 0 .. 1 BY <3>3 DEF TypeOK
    <3> QED BY <3>1, <3>4
  <2>2. ASSUME ~Body(t) PROVE UNCHANGED wdvars
    BY <2>2 DEF Call, Signal, Return, NotifyLocks, NotifyLeaves, NotifyReads, Served
  <2> QED BY <2>1, <2>2 DEF wdvars, TypeOK
<1>3. operation' \in [Thread -> {"none", "register", "unregister", "feed", "start", "stop",
                                "failed", "stopping"}]
  BY DEF Call, Operations, Signal, Body, Return, NotifyLocks, NotifyLeaves, NotifyReads, Served,
         TypeOK
<1>4. /\ signals' \in 0 .. MaxSignals
      /\ handler' \in [Thread -> {"none", "notify", "locking", "callback"}]
  BY SignalsAssumption
     DEF Call, Signal, Body, Return, NotifyLocks, NotifyLeaves, NotifyReads, Served, sigvars, TypeOK
<1>41. total' \in [Thread -> 0 .. 1]
  BY DEF Call, Signal, Body, Return, NotifyLocks, NotifyLeaves, NotifyReads, Served, sigvars,
     TypeOK
<1>5. UNCHANGED logvars
  BY DEF Call, Signal, Body, Return, NotifyLocks, NotifyLeaves, NotifyReads, Served
<1>6. HandlerShows'
  <2> SUFFICES ASSUME NEW u \in Thread, show[Handler(u)] # "none" PROVE handler'[u] = "callback"
    BY <1>5 DEF HandlerShows, logvars, Handler
  <2>1. handler[u] = "callback" BY DEF HandlerShows
  <2> QED BY <2>1 DEF Call, Signal, Body, Return, NotifyLocks, NotifyLeaves, NotifyReads,
             Served,
                      sigvars, TypeOK
<1> QED BY <1>1, <1>2, <1>3, <1>4, <1>41, <1>5, <1>6
        DEF TypeOK, OneWriter, LogCounted, LogFits, logvars

\* A report begins, from a frame that runs.
LEMMA ReportSteps ==
  ASSUME IInv, NEW t \in Thread, NotifyReturns(t) \/ Report(t)
  PROVE  IInv'
<1> USE DEF IInv
<1>1. slock_reg!TypeOK'
  BY Frames DEF NotifyReturns, Report, lockvars, slock_reg!Store, TypeOK, slock_reg!TypeOK
<1>2. PICK f \in Frame :
        /\ show[f] = "none" /\ \E x \in {"none", "try"} : show' = [show EXCEPT ![f] = x]
  <2>1. CASE NotifyReturns(t)
    <3>1. show[Handler(t)] = "none" BY <2>1, Frames DEF NotifyReturns, HandlerShows, TypeOK
    <3> QED BY <2>1, <3>1, Frames DEF NotifyReturns
  <2>2. CASE Report(t) BY <2>2, Frames DEF Report
  <2> QED BY <2>1, <2>2
<1>3. UNCHANGED <<spin_flag, attempts, file_buffer_size, position, wdvars, signals, operation>>
  BY DEF NotifyReturns, Report, sigvars
<1>4. TypeOK'
  BY <1>1, <1>2, <1>3 DEF TypeOK, NotifyReturns, Report, wdvars, sigvars
<1>5. HandlerShows'
  <2>1. CASE NotifyReturns(t)
    BY <2>1, Frames DEF NotifyReturns, HandlerShows, TypeOK
  <2>2. CASE Report(t)
    <3>1. \A u \in Thread : Handler(u) # Own(t) BY DEF Handler, Own
    <3>2. \A u \in Thread : show'[Handler(u)] = show[Handler(u)]
      BY <2>2, <3>1, Frames DEF Report, TypeOK
    <3> QED BY <2>2, <3>2 DEF Report, HandlerShows, sigvars, Handler
  <2> QED BY <2>1, <2>2
<1>6. OneWriter' BY <1>2, <1>3 DEF OneWriter, TypeOK
<1> QED BY <1>3, <1>4, <1>5, <1>6 DEF LogCounted, LogFits

\* A report begins under the lock of the watchdog.
LEMMA FailSteps ==
  ASSUME IInv, NEW t \in Thread, Fails(t)
  PROVE  IInv'
<1> USE DEF IInv
<1>1. /\ Own(t) \in Frame /\ show[Own(t)] = "none" /\ show' = [show EXCEPT ![Own(t)] = "try"]
      /\ \A u \in Thread : Handler(u) \in Frame /\ Handler(u) # Own(t)
  BY DEF Fails, Own, Handler, Frame
<1>2. UNCHANGED <<lockvars, is_wdstarted, sigvars, spin_flag, attempts, file_buffer_size, position>>
  BY DEF Fails
<1>3. slock_reg!TypeOK' BY <1>2 DEF lockvars, TypeOK, slock_reg!TypeOK
<1>4. timer' \in BOOLEAN BY Zenon DEF Fails, TypeOK
<1>5. m_totalthreads' \in 0 .. 1
  <2>1. m_totalthreads' = 0 \/ m_totalthreads' = 1 \/ m_totalthreads' = m_totalthreads
    <3>1. \/ m_totalthreads' = 0 \/ m_totalthreads' = m_totalthreads \/ Counts(t)
      BY Zenon DEF Fails
    <3> QED BY <3>1, Zenon DEF Counts
  <2> QED BY <2>1 DEF TypeOK
<1>6. /\ operation' \in [Thread -> {"none", "register", "unregister", "feed", "start", "stop",
                                    "failed", "stopping"}]
      /\ show' \in [Frame -> {"none", "try", "writing", "unlock"}]
  BY <1>1 DEF Fails, TypeOK
<1>7. TypeOK' BY <1>2, <1>3, <1>4, <1>5, <1>6 DEF TypeOK, sigvars
<1> HIDE DEF Own, Handler
<1>8. HandlerShows' BY <1>1, <1>2 DEF HandlerShows, sigvars, TypeOK, Handler
<1>9. OneWriter' BY <1>1, <1>2 DEF OneWriter, TypeOK
<1> QED BY <1>2, <1>7, <1>8, <1>9 DEF LogCounted, LogFits

\* One frame tries, gives up, writes or unlocks; the flag is its own from the
\* attempt that succeeds to unlock().
LEMMA LogSteps ==
  ASSUME IInv, NEW f \in Frame,
         TryLock(f) \/ TryLockFails(f) \/ Ignore(f) \/ Write(f) \/ Unlock(f)
  PROVE  IInv'
<1> USE DEF IInv
<1>0. UNCHANGED <<lockvars, operation, wdvars, signals, total>>
  BY DEF TryLock, TryLockFails, Ignore, Write, Unlock, sigvars
<1>1. slock_reg!TypeOK' BY <1>0 DEF lockvars, TypeOK, slock_reg!TypeOK
<1>2. /\ spin_flag' \in Frame \cup {NoFrame}
      /\ attempts' \in [Frame -> 0 .. max_attempts - 1]
      /\ show' \in [Frame -> {"none", "try", "writing", "unlock"}]
  BY SignalsAssumption DEF TryLock, TryLockFails, Ignore, Write, Unlock, Shown, TypeOK
<1>3. handler' \in [Thread -> {"none", "notify", "locking", "callback"}]
  BY Frames DEF TryLock, TryLockFails, Ignore, Write, Unlock, Shown, sigvars, TypeOK
<1>4. OneWriter'
  BY Frames DEF TryLock, TryLockFails, Ignore, Write, Unlock, Shown, OneWriter, TypeOK
<1>5. HandlerShows'
  <2>1. CASE TryLock(f) \/ TryLockFails(f) \/ Write(f)
    BY <2>1, Frames DEF TryLock, TryLockFails, Write, HandlerShows, TypeOK, sigvars
  <2>2. CASE Ignore(f) \/ Unlock(f)
    <3>1. Shown(f) BY <2>2 DEF Ignore, Unlock
    <3>2. SUFFICES ASSUME NEW u \in Thread, show'[Handler(u)] # "none"
                   PROVE  handler'[u] = "callback"
      BY DEF HandlerShows, Handler
    <3>3. f # Handler(u) /\ show[Handler(u)] # "none"
      <4>1. Handler(u) \in Frame BY Frames
      <4>2. show' = [show EXCEPT ![f] = "none"] BY <3>1 DEF Shown
      <4> HIDE DEF Handler
      <4> QED BY <3>2, <4>1, <4>2 DEF TypeOK
    <3>4. handler[u] = "callback" BY <3>3 DEF HandlerShows
    <3>5. f[2] = "handler" => f[1] # u BY <3>3, Frames
    <3> QED BY <3>1, <3>4, <3>5, Frames DEF Shown, TypeOK
  <2> QED BY <2>1, <2>2
<1>6. file_buffer_size' \in Nat /\ position' \in Nat /\ LogCounted' /\ LogFits'
  <2>1. CASE Write(f)
    <3>1. PICK n \in MessageSizes, coded \in BOOLEAN :
            LET message == prefix_size1 + n
                restart == file_buffer_size + message >= max_errlogfilesize
                size == IF restart THEN message ELSE file_buffer_size + message
                whole == IF coded THEN size + prefix_size2 ELSE size
                start == IF restart THEN 0 ELSE position
            IN  /\ file_buffer_size' = whole
                /\ position' = IF whole < max_errlogfilesize THEN start + message + (whole - size)
                               ELSE start + message
      BY <2>1 DEF Write
    <3>2. n \in Nat /\ prefix_size1 \in Nat /\ prefix_size2 \in Nat /\ max_errlogfilesize \in Nat
          /\ prefix_size1 + n < max_errlogfilesize
      BY SignalsAssumption
    <3>3. file_buffer_size \in Nat /\ position \in Nat /\ position <= file_buffer_size
      BY DEF TypeOK, LogCounted
    <3>4. CASE coded BY <3>1, <3>2, <3>3, <3>4 DEF LogCounted, LogFits
    <3>5. CASE ~coded BY <3>1, <3>2, <3>3, <3>5 DEF LogCounted, LogFits
    <3> QED BY <3>4, <3>5
  <2>2. CASE ~Write(f)
    <3>1. UNCHANGED <<file_buffer_size, position>>
      BY <2>2 DEF TryLock, TryLockFails, Ignore, Unlock
    <3> QED BY <3>1 DEF LogCounted, LogFits, TypeOK
  <2> QED BY <2>1, <2>2
<1> QED BY <1>0, <1>1, <1>2, <1>3, <1>4, <1>5, <1>6 DEF TypeOK, wdvars

LEMMA NextIInv == IInv /\ [Next]_vars => IInv'
<1> SUFFICES ASSUME IInv, [Next]_vars PROVE IInv'
  OBVIOUS
<1>1. ASSUME NEW t \in Thread, Call(t) \/ Report(t) \/ Signal(t) PROVE IInv'
  BY <1>1, WatchdogSteps, ReportSteps
<1>2. ASSUME NEW f \in Frame, Step(f) PROVE IInv'
  BY <1>2, WatchdogSteps, LogSteps, SignalsAssumption DEF Step
<1>3. ASSUME NEW t \in Thread, Continue(t) PROVE IInv'
  BY <1>2, <1>3, WatchdogSteps, ReportSteps, FailSteps, Frames DEF Continue
<1>4. CASE UNCHANGED vars
  BY <1>4 DEF vars, lockvars, wdvars, sigvars, logvars, IInv, TypeOK, slock_reg!TypeOK,
              HandlerShows, OneWriter, LogCounted, LogFits
<1> QED BY <1>1, <1>3, <1>4 DEF Next

\* The state of the lock, of the watchdog and of the error log has its type.
THEOREM Spec_TypeOK == Spec => []TypeOK
  BY InitIInv, NextIInv, PTL DEF Spec, IInv

\* show_errmsg: a handler that interrupts the writer of the error log, and
\* reports an error of its own, does not write as well.
THEOREM Spec_OneWriter == Spec => []OneWriter
  BY InitIInv, NextIInv, PTL DEF Spec, IInv

\* show_errmsg: the log is never longer than max_errlogfilesize, for all
\* sizes of messages that fit by themselves.
THEOREM Spec_LogFits == Spec => []LogFits
  BY InitIInv, NextIInv, PTL DEF Spec, IInv

-----------------------------------------------------------------------------
(* The lock by itself: ticketspinlock_t, for the frames as its clients.    *)

LockInv == slock_reg!TypeOK /\ slock_reg!TicketsInUse

\* What holds of the tickets at first, and after each step of lock() and
\* unlock(): the inductive invariant.
LEMMA InitLockInv == slock_reg!Init => LockInv
  BY DEF slock_reg!Init, LockInv, slock_reg!TypeOK, slock_reg!TicketsInUse, slock_reg!Active,
     slock_reg!Inside

LEMMA NextLockInv == LockInv /\ [slock_reg!Next]_slock_reg!vars => LockInv'
<1> SUFFICES ASSUME LockInv, [slock_reg!Next]_slock_reg!vars PROVE LockInv'
  OBVIOUS
<1> USE DEF LockInv, slock_reg!TypeOK, slock_reg!TicketsInUse, slock_reg!Active,
        slock_reg!Inside
<1>1. ASSUME NEW c \in Frame, slock_reg!FetchAdd(c) PROVE LockInv'
  <2> USE <1>1 DEF slock_reg!FetchAdd
  <2>1. slock_reg!TypeOK' OBVIOUS
  <2>2. ServingTicketNo' <= NextTicketNo' OBVIOUS
  <2>3. (\A d \in Frame : slock_reg!Active(d) =>
           myTicketNo[d] \in ServingTicketNo .. NextTicketNo - 1)'
    OBVIOUS
  <2>4. (\A d, e \in Frame : slock_reg!Active(d) /\ slock_reg!Active(e)
           /\ myTicketNo[d] = myTicketNo[e] => d = e)'
    OBVIOUS
  <2>5. (\A n \in ServingTicketNo .. NextTicketNo - 1 :
           \E d \in Frame : slock_reg!Active(d) /\ myTicketNo[d] = n)'
    <3> SUFFICES ASSUME NEW n \in ServingTicketNo .. NextTicketNo
                 PROVE  \E d \in Frame : pc'[d] # "out" /\ myTicketNo'[d] = n
      OBVIOUS
    <3>1. CASE n = NextTicketNo BY <3>1
    <3>2. CASE n # NextTicketNo
      <4>1. PICK d \in Frame : pc[d] # "out" /\ myTicketNo[d] = n BY <3>2
      <4> QED BY <4>1
    <3> QED BY <3>1, <3>2
  <2>6. (\A d \in Frame : slock_reg!Inside(d) => myTicketNo[d] = ServingTicketNo)' OBVIOUS
  <2>7. (\A d \in Frame : pc[d] = "leaving" => newNo[d] = ServingTicketNo + 1)' OBVIOUS
  <2> QED BY <2>1, <2>2, <2>3, <2>4, <2>5, <2>6, <2>7
<1>2. ASSUME NEW c \in Frame, slock_reg!Served(c) PROVE LockInv'
  BY <1>2 DEF slock_reg!Served
<1>3. ASSUME NEW c \in Frame, slock_reg!Load(c) PROVE LockInv'
  BY <1>3 DEF slock_reg!Load
<1>4. ASSUME NEW c \in Frame, slock_reg!Store(c) PROVE LockInv'
  <2> USE <1>4 DEF slock_reg!Store
  <2>0. /\ ServingTicketNo' = ServingTicketNo + 1 /\ myTicketNo[c] = ServingTicketNo
        /\ ServingTicketNo < NextTicketNo
    OBVIOUS
  <2>1. slock_reg!TypeOK' BY <2>0
  <2>2. ServingTicketNo' <= NextTicketNo' BY <2>0
  <2>3. \A d \in Frame : d # c /\ slock_reg!Active(d) => myTicketNo[d] # ServingTicketNo
    BY <2>0
  <2>4. (\A d \in Frame : slock_reg!Active(d) =>
           myTicketNo[d] \in ServingTicketNo .. NextTicketNo - 1)'
    BY <2>0, <2>3
  <2>5. (\A d, e \in Frame : slock_reg!Active(d) /\ slock_reg!Active(e)
           /\ myTicketNo[d] = myTicketNo[e] => d = e)'
    OBVIOUS
  <2>6. (\A n \in ServingTicketNo .. NextTicketNo - 1 :
           \E d \in Frame : slock_reg!Active(d) /\ myTicketNo[d] = n)'
    <3> SUFFICES ASSUME NEW n \in ServingTicketNo + 1 .. NextTicketNo - 1
                 PROVE  \E d \in Frame : pc'[d] # "out" /\ myTicketNo'[d] = n
      BY <2>0
    <3>1. PICK d \in Frame : pc[d] # "out" /\ myTicketNo[d] = n OBVIOUS
    <3>2. d # c BY <3>1, <2>0
    <3> QED BY <3>1, <3>2
  <2>7. (\A d \in Frame : slock_reg!Inside(d) => myTicketNo[d] = ServingTicketNo)' BY <2>0, <2>3
  <2>8. (\A d \in Frame : pc[d] = "leaving" => newNo[d] = ServingTicketNo + 1)'
    BY <2>0, <2>3
  <2> QED BY <2>1, <2>2, <2>4, <2>5, <2>6, <2>7, <2>8
<1>5. CASE UNCHANGED slock_reg!vars
  BY <1>5 DEF slock_reg!vars
<1> QED BY <1>1, <1>2, <1>3, <1>4, <1>5 DEF slock_reg!Next

\* The tickets are in order in every state that lock() and unlock() reach.
THEOREM Lock_IInv == slock_reg!Spec => []LockInv
  BY InitLockInv, NextLockInv, PTL DEF slock_reg!Spec

\* ticketspinlock_t: never two clients between lock() and unlock(), though
\* unlock() reads and writes the counter in two steps.
THEOREM Lock_MutualExclusion == slock_reg!Spec => []slock_reg!MutualExclusion
<1>1. LockInv => slock_reg!MutualExclusion
  BY DEF LockInv, slock_reg!TypeOK, slock_reg!TicketsInUse, slock_reg!MutualExclusion,
     slock_reg!Active, slock_reg!Inside
<1> QED BY <1>1, Lock_IInv, PTL

-----------------------------------------------------------------------------
\* q holds the clients of A in the order of their tickets, from a to b - 1.
Ordered(q, A, my, a, b) ==
  /\ q \in Seq(A) /\ Len(q) = b - a
  /\ \A i \in 1 .. Len(q) : my[q[i]] = a + i - 1

\* No two clients of A have the same ticket.
Distinct(A, my) == \A c, d \in A : my[c] = my[d] => c = d

\* Tickets that differ order the clients in one way.
LEMMA OrderedOnce ==
  ASSUME NEW A, NEW my, NEW a \in Nat, NEW b \in Nat, NEW q, NEW r,
         Ordered(q, A, my, a, b), Ordered(r, A, my, a, b),
         Distinct(A, my)
  PROVE  q = r
<1>1. ASSUME NEW i \in 1 .. Len(q) PROVE q[i] = r[i]
  <2>1. q[i] \in A /\ r[i] \in A BY ElementOfSeq DEF Ordered
  <2>2. my[q[i]] = a + i - 1 /\ my[r[i]] = a + i - 1 BY DEF Ordered
  <2> QED BY <2>1, <2>2 DEF Distinct
<1> QED BY <1>1, SeqEqual DEF Ordered

\* The next ticket is for the end of the queue.
LEMMA OrderedAppend ==
  ASSUME NEW A, NEW my, NEW a \in Nat, NEW b \in Nat, NEW q, NEW c, NEW new,
         Ordered(q, A, my, a, b), c \notin A, new[c] = b, \A d \in A : new[d] = my[d]
  PROVE  Ordered(Append(q, c), A \cup {c}, new, a, b + 1)
<1> DEFINE r == Append(q, c)
<1>1. q \in Seq(A \cup {c}) BY SeqMonotonic, A \subseteq A \cup {c} DEF Ordered
<1>2. r \in Seq(A \cup {c}) /\ Len(r) = b + 1 - a BY <1>1 DEF Ordered
<1>3. ASSUME NEW i \in 1 .. Len(r) PROVE new[r[i]] = a + i - 1
  <2>1. CASE i = Len(r)
    <3>1. r[i] = c BY <1>1, <2>1
    <3> QED BY <3>1, <2>1, <1>2
  <2>2. CASE i # Len(r)
    <3>1. i \in 1 .. Len(q) BY <1>1, <2>2
    <3>2. r[i] = q[i] BY <1>1, <3>1
    <3>3. q[i] \in A BY <3>1, ElementOfSeq DEF Ordered
    <3> QED BY <3>1, <3>2, <3>3 DEF Ordered
  <2> QED BY <2>1, <2>2
<1> HIDE DEF r
<1>4. Ordered(r, A \cup {c}, new, a, b + 1) BY <1>2, <1>3 DEF Ordered
<1> QED BY <1>4 DEF r

\* The ticket that has been served was at the head.
LEMMA OrderedTail ==
  ASSUME NEW A, NEW my, NEW a \in Nat, NEW b \in Nat, NEW q, NEW c \in A,
         Ordered(q, A, my, a, b), a < b, my[c] = a,
         Distinct(A, my)
  PROVE  /\ q # <<>> /\ Head(q) = c
         /\ Ordered(Tail(q), A \ {c}, my, a + 1, b)
<1>1. q # <<>> /\ q \in Seq(A) /\ 1 \in 1 .. Len(q) BY DEF Ordered
<1>2. q[1] = c
  <2>1. q[1] \in A BY <1>1, ElementOfSeq
  <2>2. my[q[1]] = a BY <1>1 DEF Ordered
  <2> QED BY <2>1, <2>2 DEF Distinct
<1>3. Head(q) = c BY <1>1, <1>2
<1> DEFINE r == Tail(q)
<1>4. /\ r \in Seq(A) /\ Len(r) = Len(q) - 1
      /\ \A i \in 1 .. Len(r) : r[i] = q[i + 1]
  BY <1>1, HeadTailProperties
<1>5. ASSUME NEW i \in 1 .. Len(r) PROVE my[r[i]] = a + 1 + i - 1 /\ r[i] \in A \ {c}
  <2>1. r[i] = q[i + 1] /\ i + 1 \in 1 .. Len(q) BY <1>4, <1>1
  <2>2. my[r[i]] = a + i BY <2>1 DEF Ordered
  <2>3. r[i] \in A BY <1>4, ElementOfSeq
  <2> QED BY <2>2, <2>3
<1>6. r \in Seq(A \ {c})
  <2>1. Len(r) \in Nat /\ r \in [1 .. Len(r) -> A] BY <1>4, LenProperties
  <2> HIDE DEF r
  <2>2. r \in [1 .. Len(r) -> A \ {c}] BY <2>1, <1>5
  <2> QED BY <2>1, <2>2, SeqDef
<1> QED BY <1>1, <1>3, <1>4, <1>5, <1>6 DEF Ordered

ActiveClients == {c \in Frame : slock_reg!Active(c)}

\* The queue of the mapping has each client that is active, at its place.
QueueInOrder ==
  Ordered(slock_reg!queue, ActiveClients, myTicketNo, ServingTicketNo, NextTicketNo)

LEMMA QueueOfTickets == LockInv => QueueInOrder
<1> SUFFICES ASSUME LockInv PROVE QueueInOrder
  OBVIOUS
<1> DEFINE n == NextTicketNo - ServingTicketNo
<1>1. n \in Nat BY DEF LockInv, slock_reg!TypeOK, slock_reg!TicketsInUse
<1>2. ASSUME NEW i \in 1 .. n
      PROVE  /\ slock_reg!queue[i] \in ActiveClients
             /\ myTicketNo[slock_reg!queue[i]] = ServingTicketNo + i - 1
  <2>1. ServingTicketNo + i - 1 \in ServingTicketNo .. NextTicketNo - 1
    BY DEF LockInv, slock_reg!TypeOK
  <2>2. \E c \in Frame : slock_reg!Active(c) /\ myTicketNo[c] = ServingTicketNo + i - 1
    BY <2>1 DEF LockInv, slock_reg!TicketsInUse
  <2>3. slock_reg!queue[i] =
          CHOOSE c \in Frame : slock_reg!Active(c) /\ myTicketNo[c] = ServingTicketNo + i - 1
    BY DEF slock_reg!queue
  <2> QED BY <2>2, <2>3 DEF ActiveClients
<1>3. slock_reg!queue \in [1 .. n -> ActiveClients] BY <1>2 DEF slock_reg!queue
<1>4. slock_reg!queue \in Seq(ActiveClients) BY <1>1, <1>3, SeqDef
<1>5. Len(slock_reg!queue) = n BY <1>1, <1>3, <1>4, LenProperties
<1> QED BY <1>2, <1>4, <1>5 DEF Ordered, QueueInOrder

\* Each step of the lock is a step of the fair lock, or none of its own.
LEMMA StepRefines ==
  LockInv /\ LockInv' /\ [slock_reg!Next]_slock_reg!vars => [slock_reg!LockOf!Next]_slock_reg!queue
<1> SUFFICES ASSUME LockInv, LockInv', [slock_reg!Next]_slock_reg!vars
             PROVE  [slock_reg!LockOf!Next]_slock_reg!queue
  OBVIOUS
<1> DEFINE S == ServingTicketNo
           N == NextTicketNo
<1>0. Ordered(slock_reg!queue, ActiveClients, myTicketNo, S, N) BY QueueOfTickets DEF QueueInOrder
<1>1. Ordered(slock_reg!queue', ActiveClients', myTicketNo', S', N')
  <2>1. LockInv' => QueueInOrder'
    BY QueueOfTickets, PTL
  <2> QED BY <2>1 DEF QueueInOrder
<1>2. S \in Nat /\ N \in Nat /\ S' \in Nat /\ N' \in Nat
  BY DEF LockInv, slock_reg!TypeOK
<1>3. Distinct(ActiveClients, myTicketNo) /\ Distinct(ActiveClients', myTicketNo')
  BY DEF LockInv, slock_reg!TicketsInUse, ActiveClients, slock_reg!Active, Distinct
<1>4. ASSUME NEW c \in Frame, slock_reg!FetchAdd(c) PROVE slock_reg!LockOf!Ask(c)
  <2>1. c \notin ActiveClients /\ ActiveClients' = ActiveClients \cup {c}
    BY <1>4 DEF slock_reg!FetchAdd, ActiveClients, slock_reg!Active, LockInv, slock_reg!TypeOK
  <2>2. /\ S' = S /\ N' = N + 1 /\ myTicketNo'[c] = N
        /\ \A d \in ActiveClients : myTicketNo'[d] = myTicketNo[d]
    BY <1>4 DEF slock_reg!FetchAdd, ActiveClients, slock_reg!Active, LockInv, slock_reg!TypeOK
  <2>3. Ordered(Append(slock_reg!queue, c), ActiveClients \cup {c}, myTicketNo', S, N + 1)
    BY <1>0, <1>2, <2>1, <2>2, OrderedAppend
  <2>4. slock_reg!queue' = Append(slock_reg!queue, c)
    <3>1. Ordered(slock_reg!queue', ActiveClients \cup {c}, myTicketNo', S, N + 1) BY <1>1,
          <2>1, <2>2
    <3>2. Distinct(ActiveClients \cup {c}, myTicketNo') BY <1>3, <2>1
    <3>3. N + 1 \in Nat BY <1>2
    <3> QED BY <3>1, <3>2, <3>3, <1>2, <2>3, OrderedOnce
  <2>5. ~slock_reg!LockOf!Waits(c)
    BY <1>0, <2>1, ElementOfSeq DEF Ordered, slock_reg!LockOf!Waits
  <2> QED BY <2>4, <2>5 DEF slock_reg!LockOf!Ask
<1>5. ASSUME S' = S, N' = N, ActiveClients' = ActiveClients, myTicketNo' = myTicketNo
      PROVE  UNCHANGED slock_reg!queue
  BY <1>0, <1>1, <1>2, <1>3, <1>5, OrderedOnce
<1>6. ASSUME NEW c \in Frame, slock_reg!Served(c) PROVE UNCHANGED slock_reg!queue
  <2>1. ActiveClients' = ActiveClients BY <1>6 DEF slock_reg!Served, ActiveClients,
        slock_reg!Active, LockInv, slock_reg!TypeOK
  <2> QED BY <1>5, <1>6, <2>1 DEF slock_reg!Served
<1>7. ASSUME NEW c \in Frame, slock_reg!Load(c) PROVE UNCHANGED slock_reg!queue
  <2>1. ActiveClients' = ActiveClients BY <1>7 DEF slock_reg!Load, ActiveClients,
        slock_reg!Active, LockInv, slock_reg!TypeOK
  <2> QED BY <1>5, <1>7, <2>1 DEF slock_reg!Load
<1>8. ASSUME NEW c \in Frame, slock_reg!Store(c) PROVE slock_reg!LockOf!Leave(c)
  <2>1. c \in ActiveClients /\ ActiveClients' = ActiveClients \ {c} /\ myTicketNo' = myTicketNo
    BY <1>8 DEF slock_reg!Store, ActiveClients, slock_reg!Active, LockInv, slock_reg!TypeOK
  <2>2. S' = S + 1 /\ N' = N /\ myTicketNo[c] = S /\ S < N
    BY <1>8 DEF slock_reg!Store, LockInv, slock_reg!TypeOK, slock_reg!TicketsInUse,
       slock_reg!Active, slock_reg!Inside
  <2>3. /\ slock_reg!queue # <<>> /\ Head(slock_reg!queue) = c
        /\ Ordered(Tail(slock_reg!queue), ActiveClients \ {c}, myTicketNo, S + 1, N)
    BY <1>0, <1>2, <1>3, <2>1, <2>2, OrderedTail
  <2>4. slock_reg!queue' = Tail(slock_reg!queue)
    BY <1>1, <1>2, <1>3, <2>1, <2>2, <2>3, OrderedOnce
  <2> QED BY <2>3, <2>4 DEF slock_reg!LockOf!Leave
<1>9. CASE UNCHANGED slock_reg!vars
  <2>1. ActiveClients' = ActiveClients BY <1>9 DEF slock_reg!vars, ActiveClients,
        slock_reg!Active
  <2> QED BY <1>5, <1>9, <2>1 DEF slock_reg!vars
<1> QED BY <1>4, <1>6, <1>7, <1>8, <1>9 DEF slock_reg!Next, slock_reg!LockOf!Next

\* ticketspinlock_t is the fair lock: those who call lock() pass in the order
\* of their fetch_add, one at a time.
THEOREM Lock_ImplementsLock == slock_reg!Spec => slock_reg!ImplementsLock
<1>1. slock_reg!Init => slock_reg!LockOf!Init
  <2> SUFFICES ASSUME slock_reg!Init PROVE slock_reg!queue = <<>> BY DEF slock_reg!LockOf!Init
  <2>1. slock_reg!queue \in Seq(ActiveClients) /\ Len(slock_reg!queue) = 0
    BY InitLockInv, QueueOfTickets DEF slock_reg!Init, Ordered, QueueInOrder
  <2> QED BY <2>1
<1>2. LockInv /\ LockInv' /\ [slock_reg!Next]_slock_reg!vars
        => [slock_reg!LockOf!Next]_slock_reg!queue
  BY StepRefines
<1> QED BY <1>1, <1>2, Lock_IInv, PTL DEF slock_reg!Spec, slock_reg!ImplementsLock,
           slock_reg!LockOf!Spec

-----------------------------------------------------------------------------
\* Only the actions named after them step the lock; and each of the others
\* leaves it alone.
LEMMA LockStep == [Next]_vars => [slock_reg!Next]_slock_reg!vars
<1> SUFFICES ASSUME [Next]_vars PROVE [slock_reg!Next]_slock_reg!vars
  OBVIOUS
<1>1. ASSUME NEW f \in Frame, \/ slock_reg!FetchAdd(f) \/ slock_reg!Served(f)
                              \/ slock_reg!Load(f) \/ slock_reg!Store(f)
      PROVE  slock_reg!Next
  BY <1>1 DEF slock_reg!Next
<1>2. UNCHANGED lockvars => UNCHANGED slock_reg!vars
  BY DEF lockvars, slock_reg!vars
<1>3. ASSUME NEW t \in Thread PROVE Own(t) \in Frame /\ Handler(t) \in Frame
  BY DEF Own, Handler, Frame
<1>4. ASSUME NEW t \in Thread, Call(t) \/ Report(t) \/ Signal(t)
      PROVE  slock_reg!Next \/ UNCHANGED slock_reg!vars
  BY <1>1, <1>2, <1>3, <1>4 DEF Call, Report, Signal
<1>5. ASSUME NEW f \in Frame, Step(f)
      PROVE  slock_reg!Next \/ UNCHANGED slock_reg!vars
  BY <1>1, <1>2, <1>5 DEF Step, Served, TryLock, TryLockFails, Ignore, Write, Unlock
<1>6. ASSUME NEW t \in Thread, \/ Fails(t) \/ Body(t) \/ Return(t)
                               \/ NotifyLocks(t) \/ NotifyLeaves(t) \/ NotifyReads(t) \/ NotifyReturns(t)
      PROVE  slock_reg!Next \/ UNCHANGED slock_reg!vars
  BY <1>1, <1>2, <1>3, <1>6
     DEF Fails, Body, Return, NotifyLocks, NotifyLeaves, NotifyReads, NotifyReturns
<1>7. CASE UNCHANGED vars
  BY <1>2, <1>7 DEF vars
<1> QED BY <1>3, <1>4, <1>5, <1>6, <1>7 DEF Next, Continue

\* slock_reg is the fair lock of the frames of the program.
THEOREM Spec_ImplementsLock == Spec => ImplementsLock
<1>1. Init => slock_reg!Init
  BY DEF Init
<1>2. Spec => slock_reg!Spec
  BY <1>1, LockStep, PTL DEF Spec, slock_reg!Spec
<1> QED BY <1>2, Lock_ImplementsLock, PTL DEF ImplementsLock

-----------------------------------------------------------------------------
(* What a thread waits for.                                                *)

\* A frame is at the lock while it runs an operation or reads the watchdog,
\* and a handler reports only from its callback.
FramesInv ==
  \A t \in Thread :
    /\ operation[t] # "none" <=> pc[Own(t)] # "out"
    /\ handler[t] = "locking" <=> pc[Handler(t)] # "out"
    /\ handler[t] = "callback" <=> show[Handler(t)] # "none"

\* A frame is past the loop of lock(), or at its end.
Passes(f) ==
  \/ pc[f] \in {"in", "leaving"}
  \/ pc[f] = "spin" /\ ServingTicketNo = myTicketNo[f]

\* A thread has a step to take: its handler, and its own frame without one.
CanGo(t) ==
  \/ handler[t] = "none" /\ (show[Own(t)] # "none" \/ Passes(Own(t)))
  \/ handler[t] \in {"notify", "callback"}
  \/ handler[t] = "locking" /\ Passes(Handler(t))

UnderWay(t) == operation[t] # "none" \/ handler[t] # "none" \/ show[Own(t)] # "none"

\* Unless a handler waits for what its own thread holds or has asked for
\* before, some thread can go on whenever one has something to do.
OnlyTrapsHang ==
  (\E t \in Thread : UnderWay(t)) => \E t \in Thread : CanGo(t) \/ Trapped(t)

LEMMA InitFramesInv == Init => FramesInv
<1> SUFFICES ASSUME Init, NEW t \in Thread
             PROVE  /\ operation[t] = "none" /\ handler[t] = "none"
                    /\ pc[Own(t)] = "out" /\ pc[Handler(t)] = "out" /\ show[Handler(t)] = "none"
  BY DEF FramesInv
<1>1. Own(t) \in Frame /\ Handler(t) \in Frame BY Frames
<1> QED BY <1>1 DEF Init, slock_reg!Init

\* lock() and unlock() of a thread's own frame are the ends of its operation.
LEMMA OwnStep ==
  ASSUME TypeOK, FramesInv, NEW t \in Thread, Call(t) \/ Body(t) \/ Return(t)
  PROVE  FramesInv'
<1> SUFFICES ASSUME NEW u \in Thread
             PROVE  /\ operation'[u] # "none" <=> pc'[Own(u)] # "out"
                    /\ handler'[u] = "locking" <=> pc'[Handler(u)] # "out"
                    /\ handler'[u] = "callback" <=> show'[Handler(u)] # "none"
  BY DEF FramesInv, Own, Handler
<1>1. UNCHANGED <<handler, show>>
  BY DEF Call, Body, Return, sigvars, logvars
<1>2. /\ Own(u) \in Frame /\ Handler(u) \in Frame /\ Own(t) \in Frame
      /\ Handler(u) # Own(t) /\ (Own(u) = Own(t) => u = t)
  BY DEF Own, Handler, Frame
<1>3. /\ operation[u] # "none" <=> pc[Own(u)] # "out"
      /\ handler[u] = "locking" <=> pc[Handler(u)] # "out"
      /\ handler[u] = "callback" <=> show[Handler(u)] # "none"
  BY DEF FramesInv
<1> HIDE DEF Own, Handler
<1>4. CASE Call(t)
  <2>1. PICK o \in Operations(t) : operation' = [operation EXCEPT ![t] = o]
    BY <1>4 DEF Call
  <2>2. o # "none" BY DEF Operations
  <2> QED BY <1>1, <1>2, <1>3, <1>4, <2>1, <2>2
          DEF Call, slock_reg!FetchAdd, TypeOK, slock_reg!TypeOK
<1>5. CASE Body(t)
  BY <1>1, <1>2, <1>3, <1>5 DEF Body, slock_reg!Load, TypeOK, slock_reg!TypeOK
<1>6. CASE Return(t)
  BY <1>1, <1>2, <1>3, <1>6 DEF Return, slock_reg!Store, TypeOK, slock_reg!TypeOK
<1> QED BY <1>4, <1>5, <1>6

\* A report under the lock leaves the frames where they are.
LEMMA FailsStep ==
  ASSUME TypeOK, FramesInv, NEW t \in Thread, Fails(t)
  PROVE  FramesInv'
<1>1. /\ UNCHANGED <<pc, handler>> /\ operation[t] # "none" /\ t \in Thread
      /\ \E o \in {"failed", "stopping"} : operation' = [operation EXCEPT ![t] = o]
      /\ show' = [show EXCEPT ![Own(t)] = "try"]
  BY DEF Fails, Counts, lockvars, sigvars
<1>2. \A u \in Thread : Handler(u) \in Frame /\ Handler(u) # Own(t)
  BY DEF Own, Handler, Frame
<1> HIDE DEF Own, Handler
<1>3. \A u \in Thread : show'[Handler(u)] = show[Handler(u)] BY <1>1, <1>2 DEF TypeOK
<1>4. \A u \in Thread : operation'[u] # "none" <=> operation[u] # "none" BY <1>1 DEF TypeOK
<1> QED BY <1>1, <1>3, <1>4 DEF FramesInv, Own, Handler

\* The handler of a thread begins, is at the lock, and goes on or ends.
LEMMA HandlerStep ==
  ASSUME TypeOK, FramesInv, NEW t \in Thread,
         \/ Signal(t) \/ NotifyLocks(t) \/ NotifyLeaves(t) \/ NotifyReads(t) \/ NotifyReturns(t)
  PROVE  FramesInv'
<1> SUFFICES ASSUME NEW u \in Thread
             PROVE  /\ operation'[u] # "none" <=> pc'[Own(u)] # "out"
                    /\ handler'[u] = "locking" <=> pc'[Handler(u)] # "out"
                    /\ handler'[u] = "callback" <=> show'[Handler(u)] # "none"
  BY DEF FramesInv, Own, Handler
<1>1. UNCHANGED operation
  BY DEF Signal, NotifyLocks, NotifyLeaves, NotifyReads, NotifyReturns
<1>2. /\ Own(u) \in Frame /\ Handler(u) \in Frame /\ Handler(t) \in Frame
      /\ Own(u) # Handler(t) /\ (Handler(u) = Handler(t) => u = t)
  BY DEF Own, Handler, Frame
<1>3. ASSUME NEW v \in Thread
      PROVE  /\ operation[v] # "none" <=> pc[Own(v)] # "out"
             /\ handler[v] = "locking" <=> pc[Handler(v)] # "out"
             /\ handler[v] = "callback" <=> show[Handler(v)] # "none"
  BY DEF FramesInv
<1> HIDE DEF Own, Handler
<1>4. CASE Signal(t) \/ NotifyLeaves(t)
  BY <1>1, <1>2, <1>3, <1>4 DEF Signal, NotifyLeaves, lockvars, logvars, TypeOK
<1>5. CASE NotifyLocks(t)
  BY <1>1, <1>2, <1>3, <1>5
     DEF NotifyLocks, slock_reg!FetchAdd, logvars, TypeOK, slock_reg!TypeOK
<1>6. CASE NotifyReads(t)
  BY <1>1, <1>2, <1>3, <1>6
     DEF NotifyReads, slock_reg!Load, logvars, TypeOK, slock_reg!TypeOK
<1>7. CASE NotifyReturns(t)
  BY <1>1, <1>2, <1>3, <1>7
     DEF NotifyReturns, slock_reg!Store, TypeOK, slock_reg!TypeOK
<1> QED BY <1>4, <1>5, <1>6, <1>7

\* A frame is served, or goes on in show_errmsg.
LEMMA FrameStep ==
  ASSUME TypeOK, FramesInv, NEW f \in Frame,
         Step(f) \/ \E t \in Thread : Report(t) /\ f = Own(t)
  PROVE  FramesInv'
<1> SUFFICES ASSUME NEW u \in Thread
             PROVE  /\ operation'[u] # "none" <=> pc'[Own(u)] # "out"
                    /\ handler'[u] = "locking" <=> pc'[Handler(u)] # "out"
                    /\ handler'[u] = "callback" <=> show'[Handler(u)] # "none"
  BY DEF FramesInv, Own, Handler
<1>2. /\ Own(u) \in Frame /\ Handler(u) \in Frame /\ f[1] \in Thread
      /\ f[2] = "handler" => f = Handler(f[1])
      /\ Handler(u)[1] = u /\ Handler(u)[2] = "handler" /\ \A t \in Thread : Own(t) # Handler(u)
  BY Frames DEF Own, Handler
<1>3. /\ operation[u] # "none" <=> pc[Own(u)] # "out"
      /\ handler[u] = "locking" <=> pc[Handler(u)] # "out"
      /\ handler[u] = "callback" <=> show[Handler(u)] # "none"
      /\ f[2] = "handler" /\ show[f] # "none" => handler[f[1]] = "callback"
  BY <1>2 DEF FramesInv
<1> HIDE DEF Own, Handler
<1>4. CASE Served(f)
  BY <1>2, <1>3, <1>4 DEF Served, slock_reg!Served, sigvars, logvars, TypeOK, slock_reg!TypeOK
<1>5. CASE TryLock(f) \/ TryLockFails(f) \/ Write(f)
  BY <1>2, <1>3, <1>5 DEF TryLock, TryLockFails, Write, sigvars, lockvars, TypeOK
<1>6. CASE Ignore(f) \/ Unlock(f)
  <2>1. Shown(f) /\ UNCHANGED <<operation, pc>> /\ show[f] # "none"
    BY <1>6 DEF Ignore, Unlock, lockvars
  <2>2. CASE f = Handler(u)
    BY <1>2, <1>3, <2>1, <2>2 DEF Shown, TypeOK
  <2>3. CASE f # Handler(u)
    <3>1. show'[Handler(u)] = show[Handler(u)] BY <1>2, <2>1, <2>3 DEF Shown, TypeOK
    <3>2. handler'[u] = handler[u] BY <1>2, <2>1, <2>3 DEF Shown, TypeOK
    <3> QED BY <1>3, <2>1, <3>1, <3>2
  <2> QED BY <2>2, <2>3
<1>7. CASE \E t \in Thread : Report(t) /\ f = Own(t)
  BY <1>2, <1>3, <1>7 DEF Report, sigvars, lockvars, TypeOK
<1> QED BY <1>4, <1>5, <1>6, <1>7 DEF Step

LEMMA NextFramesInv == IInv /\ FramesInv /\ [Next]_vars => FramesInv'
<1> SUFFICES ASSUME TypeOK, FramesInv, [Next]_vars PROVE FramesInv'
  BY DEF IInv
<1>1. ASSUME NEW t \in Thread, Call(t) \/ Report(t) \/ Signal(t) PROVE FramesInv'
  BY <1>1, OwnStep, HandlerStep, FrameStep, Frames
<1>2. ASSUME NEW t \in Thread, Continue(t) PROVE FramesInv'
  BY <1>2, OwnStep, FailsStep, HandlerStep, FrameStep, Frames DEF Continue
<1>3. CASE UNCHANGED vars
  BY <1>3 DEF vars, lockvars, sigvars, logvars, FramesInv, Own, Handler
<1> QED BY <1>1, <1>2, <1>3 DEF Next

\* When somebody is at the lock, so is the one whose ticket is served.
LEMMA SomeoneIsServed ==
  ASSUME LockInv, NEW f \in Frame, pc[f] # "out"
  PROVE  \E g \in Frame : pc[g] # "out" /\ Passes(g)
<1> USE DEF LockInv, slock_reg!TypeOK, slock_reg!TicketsInUse, slock_reg!Active
<1>1. ServingTicketNo \in ServingTicketNo .. NextTicketNo - 1 OBVIOUS
<1>2. PICK g \in Frame : pc[g] # "out" /\ myTicketNo[g] = ServingTicketNo BY <1>1
<1> QED BY <1>2 DEF Passes

LEMMA SomeoneGoes == TypeOK /\ LockInv /\ FramesInv => OnlyTrapsHang
<1> SUFFICES ASSUME TypeOK, LockInv, FramesInv, NEW t \in Thread, UnderWay(t)
             PROVE  \E u \in Thread : CanGo(u) \/ Trapped(u)
  BY DEF OnlyTrapsHang
<1>1. CASE \E f \in Frame : pc[f] # "out"
  <2>1. PICK g \in Frame : pc[g] # "out" /\ Passes(g) BY <1>1, SomeoneIsServed
  <2>2. PICK u \in Thread : g = Own(u) \/ g = Handler(u) BY DEF Frame, Own, Handler
  <2>3. CASE g = Handler(u) BY <2>1, <2>3 DEF FramesInv, CanGo
  <2>4. CASE g = Own(u)
    <3>1. handler[u] \in {"none", "notify", "locking", "callback"}
          /\ pc[Handler(u)] \in {"out", "spin", "in", "leaving"}
      BY Frames DEF TypeOK, slock_reg!TypeOK
    <3>2. handler[u] = "locking" => pc[Handler(u)] # "out" BY DEF FramesInv
    <3>3. CASE handler[u] = "locking" /\ pc[Handler(u)] = "spin"
      BY <2>1, <2>4, <3>3 DEF Trapped
    <3>4. CASE handler[u] = "locking" /\ pc[Handler(u)] # "spin"
      <4>1. pc[Handler(u)] \in {"in", "leaving"} BY <3>1, <3>2, <3>4
      <4>2. CanGo(u) BY <3>4, <4>1 DEF CanGo, Passes
      <4> QED BY <4>2
    <3>5. CASE handler[u] # "locking" BY <2>1, <2>4, <3>1, <3>5 DEF CanGo
    <3> QED BY <3>3, <3>4, <3>5
  <2> QED BY <2>2, <2>3, <2>4
<1>2. CASE \A f \in Frame : pc[f] = "out"
  <2>1. operation[t] = "none" /\ handler[t] # "locking" BY <1>2, Frames DEF FramesInv
  <2> QED BY <2>1 DEF UnderWay, CanGo, TypeOK
<1> QED BY <1>1, <1>2

\* slock_reg and the error log: whatever the handlers interrupt, and whoever
\* asks first, the threads hang only when a handler waits for its own thread.
THEOREM Spec_OnlyTrapsHang == Spec => []OnlyTrapsHang
<1>1. Spec => []LockInv
  <2>1. Init => slock_reg!Init
    BY DEF Init
  <2> QED BY <2>1, LockStep, Lock_IInv, PTL DEF Spec, slock_reg!Spec
<1>2. Spec => [](IInv /\ FramesInv)
  BY InitIInv, NextIInv, InitFramesInv, NextFramesInv, PTL DEF Spec
<1>3. IInv /\ FramesInv /\ LockInv => OnlyTrapsHang
  BY SomeoneGoes DEF IInv
<1> QED BY <1>1, <1>2, <1>3, PTL
=============================================================================
