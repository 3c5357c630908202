------------------------- MODULE ServerSession_proofs -------------------------
(***************************************************************************)
(* However the threads run the handlers of a session, the reply of the     *)
(* processor is not slept through and is written once - for every number   *)
(* of threads, attempts and wait cycles.                                   *)
(***************************************************************************)
EXTENDS ServerSession, TLAPS

\* A session has one thing to do about its request: to read it, to wait for
\* the reply, or to be in a handler that decides between the two.
Deciding(t) == th[t].in \in {"OnProcessTimeout", "decide", "wait"}
Working(t) == Deciding(t) \/ th[t].in = "OnReceivedBin"

TokenInv ==
  /\ \A t, u \in Thread : Working(t) /\ Working(u) => t = u
  /\ \A t \in Thread : Working(t) => op["read"] = "off" /\ timer2 = "off"
  /\ op["read"] # "off" => timer2 = "off"

\* What is known of the request, while it is read and while it is waited for.
RequestInv ==
  /\ op["read"] # "off" => request = "none"
  /\ \A t \in Thread : th[t].in = "OnReceivedBin" => request = "none"
  /\ timer2 # "off" => request # "fetched"
  /\ \A t \in Thread : Deciding(t) => request # "fetched"
  /\ notify # "no" => request \in {"ready", "fetched"}
  /\ responses = IF request = "fetched" THEN 1 ELSE 0

\* The worker's call falls before isAvailable or behind the arming of m_timer2.
LockInv ==
  /\ \A t \in Thread : th[t].in \in {"decide", "wait", "sendbusy"} => lock = t
  /\ \A t \in Thread : th[t].in = "wait" => notify # "done"
  /\ NoLostWakeup

\* The operations follow each other: the write of the response comes after the
\* read, the wait for the client to leave after the write, so that whoever cancels
\* m_timer leaves no operation behind.  A closed socket has nothing pending.
ChainInv ==
  /\ destroyed => ~open
  /\ ~open => \A o \in Op : op[o] # "pending"
  /\ request # "fetched" => /\ op["write"] = "off" /\ op["disconnect"] = "off"
                            /\ \A t \in Thread : th[t].in # "OnSent"
  /\ cycles = 0 => /\ \A r \in {"pending", "ok", "failed"} : busy[r] = 0
                   /\ \A t \in Thread : th[t].in # "OnBusy"

\* TypeOK, in the parts that one prover each is good at.
Flags ==
  /\ open \in BOOLEAN /\ destroyed \in BOOLEAN /\ misplaced \in BOOLEAN
  /\ trailing \in BOOLEAN
Places ==
  /\ op \in [Op -> {"off", "pending", "ok", "failed"}]
  /\ busy \in [{"pending", "ok", "failed"} -> Nat]
  /\ timer \in {"off", "armed"} /\ timeouts \in 0 .. 1
  /\ timer2 \in {"off", "armed", "queued"}
  /\ thcode \in {"own", "none"} /\ pool \in {"active", "garbage", "dropped"}
  /\ proctimecnt \in 0 .. MAX_ATTEMPTS
  /\ cycles \in Nat /\ responses \in Nat
  /\ request \in {"none", "submitted", "ready", "fetched"}
  /\ notify \in {"no", "due", "done"}
  /\ lock \in Thread \cup {Free}
Step == [in : Handler \cup {"poll", "exited", "decide", "wait", "sendbusy"}, err : BOOLEAN]
Threads == th \in [Thread -> Step]

IInv == TypeOK /\ TokenInv /\ RequestInv /\ LockInv /\ ChainInv /\ GuardedWithoutBusy
-----------------------------------------------------------------------------
LEMMA InitIInv == Init => IInv
<1> SUFFICES ASSUME Init PROVE IInv
  OBVIOUS
<1> USE OwnerAssumption, BoundsAssumption DEF Init, Polling
<1>1. Flags BY Zenon DEF Flags
<1>2. Places BY DEF Places, Free, Op
<1>3. Threads BY Zenon DEF Threads, Step
<1>4. TypeOK BY <1>1, <1>2, <1>3 DEF TypeOK, Flags, Places, Threads, Step
<1>5. TokenInv /\ RequestInv BY DEF TokenInv, RequestInv, Working, Deciding, Op
<1>6. LockInv BY DEF LockInv, NoLostWakeup
<1>7. ChainInv /\ GuardedWithoutBusy BY DEF ChainInv, GuardedWithoutBusy, Guarded, Op
<1> QED BY <1>4, <1>5, <1>6, <1>7 DEF IInv

\* The flags stay flags.
LEMMA FlagStep == Flags /\ [Next]_vars => Flags'
<1> SUFFICES ASSUME Flags, [Next]_vars PROVE Flags'
  OBVIOUS
<1> USE OwnerAssumption, BoundsAssumption DEF Flags, net, state, history, proc, Polling, Exited,
        Close, Cancel, Started, Outcome, Goto, Return,
        Unlock, CancelTimer,
        ArmTimer, do_read_bin, do_write, do_wait_disconnect,
        do_wait_processcompl, do_compose_send_busy, Op
<1>1. CASE \E t \in Thread : Begin(t)
  BY <1>1, Zenon DEF Begin, Take, Handler
<1>2. CASE \E t \in Thread : OnReceivedBin(t)
  BY <1>2, Zenon DEF OnReceivedBin
<1>3. CASE \E t \in Thread : OnProcessTimeout(t)
  BY <1>3, Zenon DEF OnProcessTimeout
<1>4. CASE \E t \in Thread : Decide(t)
  BY <1>4, Zenon DEF Decide
<1>5. CASE \E t \in Thread : Wait(t) \/ SendBusy(t)
  BY <1>5, Zenon DEF Wait, SendBusy
<1>6. CASE \E t \in Thread : OnSent(t) \/ OnConnectTimeout(t)
  BY <1>6, Zenon DEF OnSent, OnConnectTimeout
<1>7. CASE \E t \in Thread : OnBusy(t) \/ OnDisconnected(t)
  BY <1>7, Zenon DEF OnBusy, OnDisconnected
<1>8. CASE ThreadStop
  BY <1>8, Zenon DEF ThreadStop
<1>9. CASE Client
  BY <1>9, Zenon DEF Client, Completes, BusyCompletes
<1>10. CASE TimerExpires \/ Timer2Expires
  BY <1>10, Zenon DEF TimerExpires, Timer2Expires
<1>11. CASE Publish \/ do_notify
  BY <1>11, Zenon DEF Publish, do_notify
<1>12. CASE UNCHANGED vars
  BY <1>12, Zenon DEF vars
<1> QED BY <1>1, <1>2, <1>3, <1>4, <1>5, <1>6, <1>7, <1>8, <1>9, <1>10, <1>11, <1>12 DEF Next,
           Dispatch

\* What taking a completion does to the operations and the waits.
LEMMA TakeEffect ==
  ASSUME Places, NEW t \in Thread, NEW h \in Handler, NEW err \in BOOLEAN, Take(t, h, err)
  PROVE  /\ op' \in [Op -> {"off", "pending", "ok", "failed"}]
         /\ busy' \in [{"pending", "ok", "failed"} -> Nat]
         /\ timeouts' \in 0 .. 1 /\ timer2' \in {"off", "armed", "queued"}
         /\ h = "OnReceivedBin" =>
              op["read"] # "off" /\ op'["read"] = "off" /\ timer2' = timer2
         /\ h = "OnProcessTimeout" => timer2 # "off" /\ timer2' = "off" /\ op' = op
         /\ h \notin {"OnReceivedBin", "OnProcessTimeout"} =>
              op'["read"] = op["read"] /\ timer2' = timer2
<1> USE DEF Places, Op, Take, Outcome
<1>1. CASE h = "OnReceivedBin" BY <1>1
<1>2. CASE h = "OnSent" BY <1>2
<1>3. CASE h = "OnDisconnected" BY <1>3
<1>4. CASE h = "OnBusy"
  <2>1. PICK r \in {"ok", "failed"} : busy[r] > 0 /\ busy' = [busy EXCEPT ![r] = busy[r] - 1]
    BY <1>4
  <2>2. busy[r] - 1 \in Nat BY <2>1
  <2>3. busy' \in [{"pending", "ok", "failed"} -> Nat] BY <2>1, <2>2
  <2>4. UNCHANGED <<op, timeouts, timer2>> BY <1>4
  <2> QED BY <1>4, <2>3, <2>4
<1>5. CASE h = "OnConnectTimeout" BY <1>5
<1>6. CASE h = "OnProcessTimeout" BY <1>6
<1> QED BY <1>1, <1>2, <1>3, <1>4, <1>5, <1>6 DEF Handler

\* A completion that is taken leaves the operations that are pending and, unless it
\* is that of m_timer, its expiry.
LEMMA TakeLeaves ==
  ASSUME Places, NEW t \in Thread, NEW h \in Handler, NEW err \in BOOLEAN, Take(t, h, err)
  PROVE  /\ \A o \in Op : op'[o] = op[o] \/ op'[o] = "off"
         /\ h = "OnSent" => op["write"] # "off"
         /\ h = "OnBusy" \/ UNCHANGED busy
         /\ h = "OnBusy" => \E r \in {"pending", "ok", "failed"} : busy[r] # 0
         /\ h = "OnConnectTimeout" \/ UNCHANGED timeouts
<1> USE DEF Places, Op, Take, Outcome
<1>1. CASE h = "OnReceivedBin" BY <1>1
<1>2. CASE h = "OnSent" BY <1>2
<1>3. CASE h = "OnDisconnected" BY <1>3
<1>4. CASE h = "OnBusy"
  <2>1. PICK r \in {"ok", "failed"} : busy[r] > 0 BY <1>4
  <2> QED BY <1>4, <2>1
<1>5. CASE h = "OnConnectTimeout" BY <1>5
<1>6. CASE h = "OnProcessTimeout" BY <1>6
<1> QED BY <1>1, <1>2, <1>3, <1>4, <1>5, <1>6 DEF Handler

LEMMA BeginEffect ==
  ASSUME Places, NEW t \in Thread, Begin(t)
  PROVE  /\ th[t] = Polling
         /\ UNCHANGED <<timer, open, state, history, proc, trailing, proctimecnt, lock>>
         /\ \E h \in Handler, err \in BOOLEAN :
              /\ Take(t, h, err)
              /\ destroyed \/ th' = [th EXCEPT ![t] = [in |-> h, err |-> err]]
              /\ \/ th' = [th EXCEPT ![t] = Polling]
                 \/ th' = [th EXCEPT ![t] = [in |-> h, err |-> err]]
BY Zenon DEF Begin, Return, Goto

\* Everything stays somewhere.
LEMMA PlaceStep == Places /\ [Next]_vars => Places'
<1> SUFFICES ASSUME Places, [Next]_vars PROVE Places'
  OBVIOUS
<1> USE OwnerAssumption, BoundsAssumption DEF Places, Free, net, state, history, proc, Polling,
        Exited,
        Close, Cancel, Started, Outcome, Goto, Return,
        Unlock, CancelTimer,
        ArmTimer, do_read_bin, do_write, do_wait_disconnect,
        do_wait_processcompl, do_compose_send_busy, Op
<1>1. CASE \E t \in Thread : Begin(t)
  <2> PICK t \in Thread : Begin(t) BY <1>1
  <2>1. PICK h \in Handler, err \in BOOLEAN :
          /\ Take(t, h, err)
          /\ th' = [th EXCEPT ![t] = Polling] \/ th' = [th EXCEPT ![t] = [in |-> h, err |-> err]]
    BY BeginEffect
  <2>2. UNCHANGED <<timer, open, state, history, proc, trailing, proctimecnt,
        lock>> /\ th[t] = Polling
    BY BeginEffect
  <2>3. /\ op' \in [Op -> {"off", "pending", "ok", "failed"}]
        /\ busy' \in [{"pending", "ok", "failed"} -> Nat]
        /\ timeouts' \in 0 .. 1 /\ timer2' \in {"off", "armed", "queued"}
    BY <2>1, TakeEffect
  <2> QED BY <2>2, <2>3
<1>2. CASE \E t \in Thread : OnReceivedBin(t)
  BY <1>2 DEF OnReceivedBin
<1>3. CASE \E t \in Thread : OnProcessTimeout(t)
  BY <1>3 DEF OnProcessTimeout
<1>4. CASE \E t \in Thread : Decide(t)
  BY <1>4 DEF Decide
<1>5. CASE \E t \in Thread : Wait(t) \/ SendBusy(t)
  BY <1>5 DEF Wait, SendBusy
<1>6. CASE \E t \in Thread : OnSent(t) \/ OnConnectTimeout(t)
  BY <1>6 DEF OnSent, OnConnectTimeout
<1>7. CASE \E t \in Thread : OnBusy(t) \/ OnDisconnected(t)
  BY <1>7 DEF OnBusy, OnDisconnected
<1>8. CASE ThreadStop
  BY <1>8 DEF ThreadStop
<1>9. CASE Client
  <2>1. CASE \E o \in Op : Completes(o)
    <3> PICK o \in Op : Completes(o) BY <2>1
    <3>1. op' = [op EXCEPT ![o] = "failed"] \/ op' = [op EXCEPT ![o] = "ok"]
      BY DEF Completes
    <3> QED BY <3>1 DEF Completes
  <2>2. CASE BusyCompletes
    <3>1. PICK r \in {"ok", "failed"} :
            busy' = [busy EXCEPT !["pending"] = busy["pending"] - 1, ![r] = busy[r] + 1]
      BY <2>2 DEF BusyCompletes
    <3>2. busy["pending"] - 1 \in Nat /\ busy[r] + 1 \in Nat BY <2>2 DEF BusyCompletes
    <3>3. busy' \in [{"pending", "ok", "failed"} -> Nat] BY <3>1, <3>2
    <3> QED BY <2>2, <3>3 DEF BusyCompletes
  <2> QED BY <1>9, <2>1, <2>2 DEF Client
<1>10. CASE TimerExpires \/ Timer2Expires
  BY <1>10 DEF TimerExpires, Timer2Expires
<1>11. CASE Publish \/ do_notify
  BY <1>11 DEF Publish, do_notify
<1>12. CASE UNCHANGED vars
  BY <1>12 DEF vars
<1> QED BY <1>1, <1>2, <1>3, <1>4, <1>5, <1>6, <1>7, <1>8, <1>9, <1>10, <1>11, <1>12 DEF Next,
           Dispatch

\* So do the threads.
LEMMA StepTypes ==
  /\ Polling \in Step /\ Exited \in Step
  /\ \A p \in {"decide", "wait", "sendbusy"} : [in |-> p, err |-> FALSE] \in Step
  /\ \A h \in Handler, err \in BOOLEAN : [in |-> h, err |-> err] \in Step
BY Zenon DEF Step, Polling, Exited

LEMMA ThreadStaysSomewhere == Threads /\ [Next]_vars => Threads'
<1> SUFFICES ASSUME Threads, [Next]_vars PROVE Threads'
  OBVIOUS
<1>1. CASE th' = th
  BY <1>1 DEF Threads
<1>2. CASE \E t \in Thread, step \in Step : th' = [th EXCEPT ![t] = step]
  BY <1>2 DEF Threads
<1>3. CASE \E t \in Thread : Dispatch(t)
  <2> PICK t \in Thread : Dispatch(t) BY <1>3
  <2>1. \E step \in Step : th' = [th EXCEPT ![t] = step]
    <3> USE StepTypes DEF Return, Goto
    <3>1. CASE Begin(t) BY <3>1, Zenon DEF Begin
    <3>2. CASE OnReceivedBin(t) BY <3>2, Zenon DEF OnReceivedBin
    <3>3. CASE OnProcessTimeout(t) BY <3>3, Zenon DEF OnProcessTimeout
    <3>4. CASE Decide(t) BY <3>4, Zenon DEF Decide
    <3>5. CASE Wait(t) \/ SendBusy(t) BY <3>5, Zenon DEF Wait, SendBusy
    <3>6. CASE OnSent(t) BY <3>6, Zenon DEF OnSent
    <3>7. CASE OnConnectTimeout(t) BY <3>7, Zenon DEF OnConnectTimeout
    <3>8. CASE OnBusy(t) BY <3>8, Zenon DEF OnBusy
    <3>9. CASE OnDisconnected(t) BY <3>9, Zenon DEF OnDisconnected
    <3> QED BY <3>1, <3>2, <3>3, <3>4, <3>5, <3>6, <3>7, <3>8, <3>9 DEF Dispatch
  <2> QED BY <1>2, <2>1
<1>4. CASE ThreadStop
  <2>1. \E step \in Step : th' = [th EXCEPT ![Owner] = step]
    BY <1>4, StepTypes, Zenon DEF ThreadStop, Goto
  <2> QED BY <1>2, <2>1, OwnerAssumption
<1>5. CASE Client \/ TimerExpires \/ Timer2Expires \/ Publish \/ do_notify \/ UNCHANGED vars
  <2>1. th' = th
    BY <1>5 DEF Client, Completes, BusyCompletes, TimerExpires, Timer2Expires, Publish,
       do_notify, vars
  <2> QED BY <1>1, <2>1
<1> QED BY <1>3, <1>4, <1>5 DEF Next

LEMMA TypeStep == TypeOK /\ [Next]_vars => TypeOK'
BY FlagStep, PlaceStep, ThreadStaysSomewhere DEF TypeOK, Flags, Places, Threads, Step

\* A handler takes the token from an operation, and leaves it to one.
LEMMA TokenStep == Places /\ Threads /\ TokenInv /\ [Next]_vars => TokenInv'
<1> SUFFICES ASSUME Places, Threads, TokenInv, [Next]_vars PROVE TokenInv'
  OBVIOUS
<1> USE OwnerAssumption, BoundsAssumption DEF Places, Threads, Step, TokenInv, Working,
        Deciding, net, state, history, proc, Polling, Exited,
        Close, Cancel, Started, Outcome, Goto, Return,
        Unlock, CancelTimer,
        ArmTimer, do_read_bin, do_write, do_wait_disconnect,
        do_wait_processcompl, do_compose_send_busy, Op
<1>1. CASE \E t \in Thread : Begin(t)
  <2> PICK t \in Thread : Begin(t) BY <1>1
  <2>1. PICK h \in Handler, err \in BOOLEAN :
          /\ Take(t, h, err)
          /\ th' = [th EXCEPT ![t] = Polling] \/ th' = [th EXCEPT ![t] = [in |-> h, err |-> err]]
    BY BeginEffect
  <2>2. UNCHANGED <<timer, open, state, history, proc, trailing, proctimecnt,
        lock>> /\ th[t] = Polling
    BY BeginEffect
  <2>3. /\ h = "OnReceivedBin" =>
             op["read"] # "off" /\ op'["read"] = "off" /\ timer2' = timer2
        /\ h = "OnProcessTimeout" => timer2 # "off" /\ timer2' = "off" /\ op' = op
        /\ h \notin {"OnReceivedBin", "OnProcessTimeout"} =>
             op'["read"] = op["read"] /\ timer2' = timer2
    BY <2>1, TakeEffect
  <2> QED BY <2>1, <2>2, <2>3 DEF Handler
<1>2. CASE \E t \in Thread : OnReceivedBin(t)
  BY <1>2 DEF OnReceivedBin
<1>3. CASE \E t \in Thread : OnProcessTimeout(t)
  BY <1>3 DEF OnProcessTimeout
<1>4. CASE \E t \in Thread : Decide(t)
  BY <1>4 DEF Decide
<1>5. CASE \E t \in Thread : Wait(t) \/ SendBusy(t)
  BY <1>5 DEF Wait, SendBusy
<1>6. CASE \E t \in Thread : OnSent(t) \/ OnConnectTimeout(t)
  <2>1. CASE \E t \in Thread : OnConnectTimeout(t)
    BY <2>1 DEF OnConnectTimeout
  <2>2. CASE \E t \in Thread : OnSent(t) /\ th[t].err
    BY <2>2 DEF OnSent
  <2>3. CASE \E t \in Thread : OnSent(t) /\ ~th[t].err
    <3> PICK t \in Thread : OnSent(t) /\ ~th[t].err BY <2>3
    <3>1. op'["read"] = op["read"] /\ timer2' = timer2 /\ th' = [th EXCEPT ![t] = Polling]
      BY DEF OnSent
    <3> QED BY <3>1
  <2> QED BY <1>6, <2>1, <2>2, <2>3
<1>7. CASE \E t \in Thread : OnBusy(t) \/ OnDisconnected(t)
  BY <1>7 DEF OnBusy, OnDisconnected
<1>8. CASE ThreadStop
  BY <1>8 DEF ThreadStop
<1>9. CASE Client
  <2>1. UNCHANGED <<timer2, th>> /\ (op'["read"] # "off" => op["read"] # "off")
    <3>1. CASE \E o \in Op : Completes(o)
      <4> PICK o \in Op : Completes(o) BY <3>1
      <4>1. op[o] # "off" /\ UNCHANGED <<timer2, th>> BY DEF Completes
      <4>2. o # "read" => op'["read"] = op["read"] BY DEF Completes
      <4> QED BY <4>1, <4>2
    <3>2. CASE BusyCompletes BY <3>2 DEF BusyCompletes
    <3> QED BY <1>9, <3>1, <3>2 DEF Client
  <2>2. op'["read"] = "off" \/ op["read"] # "off" BY <2>1
  <2> QED BY <2>1, <2>2
<1>10. CASE TimerExpires \/ Timer2Expires
  BY <1>10 DEF TimerExpires, Timer2Expires
<1>11. CASE Publish \/ do_notify
  BY <1>11 DEF Publish, do_notify
<1>12. CASE UNCHANGED vars
  BY <1>12 DEF vars
<1> QED BY <1>1, <1>2, <1>3, <1>4, <1>5, <1>6, <1>7, <1>8, <1>9, <1>10, <1>11, <1>12 DEF Next,
           Dispatch

\* The request is submitted once, and fetched once.
LEMMA RequestStep == Places /\ Threads /\ TokenInv /\ RequestInv /\ [Next]_vars => RequestInv'
<1> SUFFICES ASSUME Places, Threads, TokenInv, RequestInv, [Next]_vars PROVE RequestInv'
  OBVIOUS
<1> USE OwnerAssumption, BoundsAssumption DEF Places, Threads, Step, TokenInv, RequestInv,
        Working, Deciding, net, state, history, proc, Polling, Exited,
        Close, Cancel, Started, Outcome, Goto, Return,
        Unlock, CancelTimer,
        ArmTimer, do_read_bin, do_write, do_wait_disconnect,
        do_wait_processcompl, do_compose_send_busy, Op
<1>1. CASE \E t \in Thread : Begin(t)
  <2> PICK t \in Thread : Begin(t) BY <1>1
  <2>1. PICK h \in Handler, err \in BOOLEAN :
          /\ Take(t, h, err)
          /\ th' = [th EXCEPT ![t] = Polling] \/ th' = [th EXCEPT ![t] = [in |-> h, err |-> err]]
    BY BeginEffect
  <2>2. UNCHANGED <<timer, open, state, history, proc, trailing, proctimecnt,
        lock>> /\ th[t] = Polling
    BY BeginEffect
  <2>3. /\ h = "OnReceivedBin" =>
             op["read"] # "off" /\ op'["read"] = "off" /\ timer2' = timer2
        /\ h = "OnProcessTimeout" => timer2 # "off" /\ timer2' = "off" /\ op' = op
        /\ h \notin {"OnReceivedBin", "OnProcessTimeout"} =>
             op'["read"] = op["read"] /\ timer2' = timer2
    BY <2>1, TakeEffect
  <2> QED BY <2>1, <2>2, <2>3 DEF Handler
<1>2. CASE \E t \in Thread : OnReceivedBin(t)
  BY <1>2 DEF OnReceivedBin
<1>3. CASE \E t \in Thread : OnProcessTimeout(t)
  BY <1>3 DEF OnProcessTimeout
<1>4. CASE \E t \in Thread : Decide(t)
  BY <1>4 DEF Decide
<1>5. CASE \E t \in Thread : Wait(t) \/ SendBusy(t)
  BY <1>5 DEF Wait, SendBusy
<1>6. CASE \E t \in Thread : OnSent(t) \/ OnConnectTimeout(t)
  BY <1>6 DEF OnSent, OnConnectTimeout
<1>7. CASE \E t \in Thread : OnBusy(t) \/ OnDisconnected(t)
  BY <1>7 DEF OnBusy, OnDisconnected
<1>8. CASE ThreadStop
  BY <1>8 DEF ThreadStop
<1>9. CASE Client
  BY <1>9 DEF Client, Completes, BusyCompletes
<1>10. CASE TimerExpires \/ Timer2Expires
  BY <1>10 DEF TimerExpires, Timer2Expires
<1>11. CASE Publish \/ do_notify
  BY <1>11 DEF Publish, do_notify
<1>12. CASE UNCHANGED vars
  BY <1>12 DEF vars
<1> QED BY <1>1, <1>2, <1>3, <1>4, <1>5, <1>6, <1>7, <1>8, <1>9, <1>10, <1>11, <1>12 DEF Next,
           Dispatch

\* m_resumemtx is held from isAvailable to the arming of m_timer2.
LEMMA LockStep ==
  Places /\ Threads /\ TokenInv /\ RequestInv /\ LockInv /\ [Next]_vars => LockInv'
<1> SUFFICES ASSUME Places, Threads, TokenInv, RequestInv, LockInv, [Next]_vars PROVE LockInv'
  OBVIOUS
<1> USE OwnerAssumption, BoundsAssumption DEF Places, Threads, Step, TokenInv, RequestInv,
        LockInv, NoLostWakeup, Working, Deciding, Free, net, state, history, proc, Polling,
        Exited,
        Close, Cancel, Started, Outcome, Goto, Return,
        Unlock, CancelTimer,
        ArmTimer, do_read_bin, do_write, do_wait_disconnect,
        do_wait_processcompl, do_compose_send_busy, Op
<1>1. CASE \E t \in Thread : Begin(t)
  <2> PICK t \in Thread : Begin(t) BY <1>1
  <2>1. PICK h \in Handler, err \in BOOLEAN :
          /\ Take(t, h, err)
          /\ th' = [th EXCEPT ![t] = Polling] \/ th' = [th EXCEPT ![t] = [in |-> h, err |-> err]]
    BY BeginEffect
  <2>2. UNCHANGED <<timer, open, state, history, proc, trailing, proctimecnt,
        lock>> /\ th[t] = Polling
    BY BeginEffect
  <2>3. /\ h = "OnReceivedBin" =>
             op["read"] # "off" /\ op'["read"] = "off" /\ timer2' = timer2
        /\ h = "OnProcessTimeout" => timer2 # "off" /\ timer2' = "off" /\ op' = op
        /\ h \notin {"OnReceivedBin", "OnProcessTimeout"} =>
             op'["read"] = op["read"] /\ timer2' = timer2
    BY <2>1, TakeEffect
  <2> QED BY <2>1, <2>2, <2>3 DEF Handler
<1>2. CASE \E t \in Thread : OnReceivedBin(t)
  BY <1>2 DEF OnReceivedBin
<1>3. CASE \E t \in Thread : OnProcessTimeout(t)
  BY <1>3 DEF OnProcessTimeout
<1>4. CASE \E t \in Thread : Decide(t)
  BY <1>4 DEF Decide
<1>5. CASE \E t \in Thread : Wait(t) \/ SendBusy(t)
  BY <1>5 DEF Wait, SendBusy
<1>6. CASE \E t \in Thread : OnSent(t) \/ OnConnectTimeout(t)
  BY <1>6 DEF OnSent, OnConnectTimeout
<1>7. CASE \E t \in Thread : OnBusy(t) \/ OnDisconnected(t)
  BY <1>7 DEF OnBusy, OnDisconnected
<1>8. CASE ThreadStop
  BY <1>8 DEF ThreadStop
<1>9. CASE Client
  BY <1>9 DEF Client, Completes, BusyCompletes
<1>10. CASE TimerExpires \/ Timer2Expires
  BY <1>10 DEF TimerExpires, Timer2Expires
<1>11. CASE Publish \/ do_notify
  BY <1>11 DEF Publish, do_notify
<1>12. CASE UNCHANGED vars
  BY <1>12 DEF vars
<1> QED BY <1>1, <1>2, <1>3, <1>4, <1>5, <1>6, <1>7, <1>8, <1>9, <1>10, <1>11, <1>12 DEF Next,
           Dispatch

\* An operation begins where another one has ended.
LEMMA ChainStep ==
  Places /\ Threads /\ TokenInv /\ RequestInv /\ ChainInv /\ [Next]_vars => ChainInv'
<1> SUFFICES ASSUME Places, Threads, TokenInv, RequestInv, ChainInv, [Next]_vars PROVE ChainInv'
  OBVIOUS
<1> USE OwnerAssumption, BoundsAssumption DEF Places, Threads, Step, ChainInv, net, state,
        history, proc, Polling, Exited, Close, Cancel, Started, Outcome, Goto, Return,
        Unlock, CancelTimer,
        ArmTimer, do_read_bin, do_write, do_wait_disconnect, do_wait_processcompl,
        do_compose_send_busy, Op
<1>1. CASE \E t \in Thread : Begin(t)
  <2> PICK t \in Thread : Begin(t) BY <1>1
  <2>1. PICK h \in Handler, err \in BOOLEAN :
          /\ Take(t, h, err)
          /\ destroyed \/ th' = [th EXCEPT ![t] = [in |-> h, err |-> err]]
          /\ th' = [th EXCEPT ![t] = Polling] \/ th' = [th EXCEPT ![t] = [in |-> h, err |-> err]]
    BY BeginEffect
  <2>2. /\ UNCHANGED <<timer, open, state, history, proc>>
        /\ th[t] = Polling
    BY BeginEffect
  <2>3. /\ \A o \in Op : op'[o] = op[o] \/ op'[o] = "off"
        /\ h = "OnSent" => op["write"] # "off"
        /\ h = "OnBusy" \/ UNCHANGED busy
        /\ h = "OnBusy" => \E r \in {"pending", "ok", "failed"} : busy[r] # 0
        /\ h = "OnConnectTimeout" \/ UNCHANGED timeouts
    BY <2>1, TakeLeaves
  <2> QED BY <2>1, <2>2, <2>3 DEF Handler
<1>2. CASE \E t \in Thread : OnReceivedBin(t)
  <2> PICK t \in Thread : OnReceivedBin(t) BY <1>2
  <2>1. CASE th' = [th EXCEPT ![t] = Polling]
    <3>1. th[t].in = "OnReceivedBin" /\ request # "fetched"
      BY DEF OnReceivedBin, RequestInv
    <3>2. op["write"] = "off" /\ op["disconnect"] = "off" BY <3>1
    <3>3. CASE open' = FALSE BY <2>1, <3>1, <3>2, <3>3 DEF OnReceivedBin
    <3>4. CASE open' # FALSE BY <2>1, <3>1, <3>2, <3>4 DEF OnReceivedBin
    <3> QED BY <3>3, <3>4
  <2>2. CASE th' # [th EXCEPT ![t] = Polling] BY <2>2 DEF OnReceivedBin, RequestInv
  <2> QED BY <2>1, <2>2
<1>3. CASE \E t \in Thread : OnProcessTimeout(t)
  <2> PICK t \in Thread : OnProcessTimeout(t) BY <1>3
  <2>1. UNCHANGED <<history, proc>> /\ \A u \in Thread : th'[u].in = th[u].in \/ u = t
    BY DEF OnProcessTimeout
  <2>2. th'[t].in \in {"poll", "decide"} BY DEF OnProcessTimeout
  <2>3. CASE UNCHANGED <<op, busy, open, state>> BY <2>1, <2>2, <2>3
  <2>4. CASE Close BY <2>1, <2>2, <2>4
  <2> QED BY <2>3, <2>4 DEF OnProcessTimeout
<1>4. CASE \E t \in Thread : Decide(t)
  BY <1>4 DEF Decide
<1>5. CASE \E t \in Thread : Wait(t) \/ SendBusy(t)
  BY <1>5 DEF Wait, SendBusy
<1>6. CASE \E t \in Thread : OnSent(t) \/ OnConnectTimeout(t)
  <2>1. CASE \E t \in Thread : OnSent(t)
    BY <2>1 DEF OnSent
  <2>2. CASE \E t \in Thread : OnConnectTimeout(t)
    BY <2>2 DEF OnConnectTimeout
  <2> QED BY <1>6, <2>1, <2>2
<1>7. CASE \E t \in Thread : OnBusy(t) \/ OnDisconnected(t)
  <2>1. CASE \E t \in Thread : OnBusy(t)
    BY <2>1 DEF OnBusy
  <2>2. CASE \E t \in Thread : OnDisconnected(t)
    BY <2>2 DEF OnDisconnected
  <2> QED BY <1>7, <2>1, <2>2
<1>8. CASE ThreadStop
  BY <1>8 DEF ThreadStop
<1>9. CASE Client
  <2>1. CASE \E o \in Op : Completes(o)
    <3> PICK o \in Op : Completes(o) BY <2>1
    <3>1. op[o] = "pending" /\ UNCHANGED <<busy, timer, timeouts, open, state, history, proc, th>>
      BY DEF Completes
    <3>2. op' = [op EXCEPT ![o] = "failed"] \/ op' = [op EXCEPT ![o] = "ok"]
      BY DEF Completes
    <3> QED BY <3>1, <3>2
  <2>2. CASE BusyCompletes BY <2>2 DEF BusyCompletes
  <2> QED BY <1>9, <2>1, <2>2 DEF Client
<1>10. CASE TimerExpires \/ Timer2Expires
  BY <1>10 DEF TimerExpires, Timer2Expires
<1>11. CASE Publish \/ do_notify
  BY <1>11 DEF Publish, do_notify
<1>12. CASE UNCHANGED vars
  BY <1>12 DEF vars
<1> QED BY <1>1, <1>2, <1>3, <1>4, <1>5, <1>6, <1>7, <1>8, <1>9, <1>10, <1>11, <1>12 DEF Next,
           Dispatch

\* m_timer is armed with every operation, and cancelled with none left.
LEMMA GuardStep ==
  /\ Places /\ Threads /\ TokenInv /\ RequestInv /\ ChainInv
  /\ GuardedWithoutBusy /\ [Next]_vars
  => GuardedWithoutBusy'
<1> SUFFICES ASSUME Places, Threads, TokenInv, RequestInv, ChainInv, GuardedWithoutBusy,
                    [Next]_vars
             PROVE  GuardedWithoutBusy'
  OBVIOUS
<1> USE OwnerAssumption, BoundsAssumption DEF Places, Threads, Step, GuardedWithoutBusy, Guarded,
        net, state, history, proc, Polling, Exited, Close, Cancel, Started, Outcome, Goto, Return,
        Unlock, CancelTimer,
        ArmTimer, do_read_bin, do_write, do_wait_disconnect, do_wait_processcompl,
        do_compose_send_busy, Op
<1>1. CASE \E t \in Thread : Begin(t)
  <2> PICK t \in Thread : Begin(t) BY <1>1
  <2>1. PICK h \in Handler, err \in BOOLEAN :
          /\ Take(t, h, err)
          /\ destroyed \/ th' = [th EXCEPT ![t] = [in |-> h, err |-> err]]
          /\ th' = [th EXCEPT ![t] = Polling] \/ th' = [th EXCEPT ![t] = [in |-> h, err |-> err]]
    BY BeginEffect
  <2>2. /\ UNCHANGED <<timer, open, state, history, proc>>
        /\ th[t] = Polling
    BY BeginEffect
  <2>3. /\ \A o \in Op : op'[o] = op[o] \/ op'[o] = "off"
        /\ h = "OnSent" => op["write"] # "off"
        /\ h = "OnBusy" \/ UNCHANGED busy
        /\ h = "OnBusy" => \E r \in {"pending", "ok", "failed"} : busy[r] # 0
        /\ h = "OnConnectTimeout" \/ UNCHANGED timeouts
    BY <2>1, TakeLeaves
  <2> QED BY <2>1, <2>2, <2>3 DEF Handler, ChainInv
<1>2. CASE \E t \in Thread : OnReceivedBin(t)
  BY <1>2
     DEF OnReceivedBin, ChainInv, TokenInv, RequestInv, Working, Deciding
<1>3. CASE \E t \in Thread : OnProcessTimeout(t)
  BY <1>3 DEF OnProcessTimeout
<1>4. CASE \E t \in Thread : Decide(t)
  BY <1>4 DEF Decide
<1>5. CASE \E t \in Thread : Wait(t) \/ SendBusy(t)
  BY <1>5 DEF Wait, SendBusy
<1>6. CASE \E t \in Thread : OnSent(t) \/ OnConnectTimeout(t)
  <2>1. CASE \E t \in Thread : OnSent(t)
    BY <2>1 DEF OnSent
  <2>2. CASE \E t \in Thread : OnConnectTimeout(t)
    BY <2>2 DEF OnConnectTimeout
  <2> QED BY <1>6, <2>1, <2>2
<1>7. CASE \E t \in Thread : OnBusy(t) \/ OnDisconnected(t)
  <2>1. CASE \E t \in Thread : OnBusy(t)
    BY <2>1 DEF OnBusy, ChainInv
  <2>2. CASE \E t \in Thread : OnDisconnected(t)
    BY <2>2 DEF OnDisconnected
  <2> QED BY <1>7, <2>1, <2>2
<1>8. CASE ThreadStop
  BY <1>8 DEF ThreadStop
<1>9. CASE Client
  <2>1. CASE \E o \in Op : Completes(o)
    <3> PICK o \in Op : Completes(o) BY <2>1
    <3>1. op[o] = "pending" /\ UNCHANGED <<busy, timer, timeouts, open, state, history, proc, th>>
      BY DEF Completes
    <3>2. op' = [op EXCEPT ![o] = "failed"] \/ op' = [op EXCEPT ![o] = "ok"]
      BY DEF Completes
    <3> QED BY <3>1, <3>2
  <2>2. CASE BusyCompletes BY <2>2 DEF BusyCompletes, ChainInv
  <2> QED BY <1>9, <2>1, <2>2 DEF Client
<1>10. CASE TimerExpires \/ Timer2Expires
  BY <1>10 DEF TimerExpires, Timer2Expires
<1>11. CASE Publish \/ do_notify
  BY <1>11 DEF Publish, do_notify
<1>12. CASE UNCHANGED vars
  BY <1>12 DEF vars
<1> QED BY <1>1, <1>2, <1>3, <1>4, <1>5, <1>6, <1>7, <1>8, <1>9, <1>10, <1>11, <1>12 DEF Next,
           Dispatch

LEMMA NextIInv == IInv /\ [Next]_vars => IInv'
<1> SUFFICES ASSUME IInv, [Next]_vars PROVE IInv'
  OBVIOUS
<1>1. Places /\ Threads BY DEF IInv, TypeOK, Places, Threads, Step
<1> QED BY <1>1, TypeStep, TokenStep, RequestStep, LockStep, ChainStep, GuardStep DEF IInv

THEOREM Invariance == Spec => []IInv
BY InitIInv, NextIInv, PTL DEF Spec

-----------------------------------------------------------------------------
\* Types.
THEOREM Spec_TypeOK == Spec => []TypeOK
BY Invariance, PTL DEF IInv

\* The ready handler never finds the wait not yet armed.
THEOREM Spec_NoLostWakeup == Spec => []NoLostWakeup
BY Invariance, PTL DEF IInv, LockInv

\* Without a "BUSY", every pending operation has the guard of m_timer.
THEOREM Spec_GuardedWithoutBusy == Spec => []GuardedWithoutBusy
BY Invariance, PTL DEF IInv

\* One handler at most fetches the reply and writes it.
THEOREM Spec_OneResponse == Spec => []OneResponse
<1>1. IInv => OneResponse
  BY DEF IInv, TypeOK, TokenInv, RequestInv, Working, Deciding, OneResponse
<1> QED BY <1>1, Invariance, PTL
-----------------------------------------------------------------------------
(* The session keeps to the contract that ImageProcessor implements.       *)

\* What a step does to the request, the worker's call and m_resumemtx is one
\* of the steps of Request.
LEMMA RequestRefines ==
  IInv /\ [Next]_vars => [RequestOf!Next]_<<request, notify, lock # Free>>
<1> SUFFICES ASSUME IInv, [Next]_vars
             PROVE  RequestOf!Next \/ UNCHANGED <<request, notify, lock # Free>>
  OBVIOUS
<1>0. Places /\ Threads /\ RequestInv /\ LockInv
  BY DEF IInv, TypeOK, Places, Threads, Step
<1> USE OwnerAssumption DEF Places, Threads, Step, Free, net, history, proc, Unlock,
        RequestOf!Next, RequestOf!Take, RequestOf!Submit, RequestOf!Fetch,
        RequestOf!Release, RequestOf!Publish, RequestOf!Notify
<1>1. CASE \E t \in Thread : Begin(t)
  BY <1>1 DEF Begin
<1>2. CASE \E t \in Thread : OnReceivedBin(t)
  <2> PICK t \in Thread : OnReceivedBin(t) BY <1>2
  <2>1. request = "none" BY <1>0 DEF OnReceivedBin, RequestInv
  <2>2. \/ UNCHANGED <<request, notify, lock>>
        \/ lock = "free" /\ lock' = t /\ request' = "submitted" /\ UNCHANGED notify
    BY DEF OnReceivedBin
  <2> QED BY <2>1, <2>2
<1>3. CASE \E t \in Thread : OnProcessTimeout(t)
  BY <1>3 DEF OnProcessTimeout
<1>4. CASE \E t \in Thread : Decide(t)
  <2> PICK t \in Thread : Decide(t) BY <1>4
  <2>1. lock = t /\ UNCHANGED notify BY <1>0 DEF Decide, LockInv
  <2>2. \/ UNCHANGED <<request, lock>>
        \/ request = "ready" /\ request' = "fetched" /\ lock' = "free"
    BY <2>1 DEF Decide
  <2> QED BY <2>1, <2>2
<1>5. CASE \E t \in Thread : Wait(t) \/ SendBusy(t)
  <2>1. CASE \E t \in Thread : Wait(t)
    BY <2>1 DEF Wait
  <2>2. CASE \E t \in Thread : SendBusy(t)
    <3> PICK t \in Thread : SendBusy(t) BY <2>2
    <3>1. lock = t /\ lock' = "free" /\ UNCHANGED <<request, notify>>
      BY <1>0 DEF SendBusy, LockInv
    <3> QED BY <3>1
  <2> QED BY <1>5, <2>1, <2>2
<1>6. CASE \E t \in Thread : \/ OnSent(t) \/ OnConnectTimeout(t) \/ OnBusy(t)
                             \/ OnDisconnected(t)
  <2>1. UNCHANGED <<request, notify, lock>>
    BY <1>6 DEF OnSent, OnConnectTimeout, OnBusy, OnDisconnected
  <2> QED BY <2>1
<1>7. CASE ThreadStop \/ Client \/ TimerExpires \/ Timer2Expires
  <2>1. UNCHANGED <<request, notify, lock>>
    BY <1>7 DEF ThreadStop, Client, Completes, BusyCompletes, TimerExpires, Timer2Expires
  <2> QED BY <2>1
<1>8. CASE Publish
  <2>1. notify = "no" BY <1>0, <1>8 DEF Publish, RequestInv
  <2> QED BY <1>8, <2>1 DEF Publish
<1>9. CASE do_notify
  BY <1>9 DEF do_notify
<1>10. CASE UNCHANGED vars
  BY <1>10 DEF vars
<1> QED BY <1>1, <1>2, <1>3, <1>4, <1>5, <1>6, <1>7, <1>8, <1>9, <1>10 DEF Next, Dispatch

\* The session submits its request once, fetches the reply once, when it is
\* there and under m_resumemtx, and asks of the processor nothing that Request
\* does not promise.
THEOREM Spec_ImplementsRequest == Spec => ImplementsRequest
<1>1. Init => RequestOf!Init
  BY DEF Init, RequestOf!Init
<1> QED BY <1>1, RequestRefines, Invariance, PTL
        DEF Spec, ImplementsRequest, RequestOf!Spec

-----------------------------------------------------------------------------
(* A closed session does not hang, nor does an open one to which no "BUSY"   *)
(* was sent, whatever the client does: the halves of ClosedIsReleased and of *)
(* StalledIsClosed that need no fairness.                                    *)

\* A thread can take its next step: a completion, or the work of a handler, which
\* may need m_resumemtx.
Pending == \/ \E o \in Op : op[o] \in {"ok", "failed"}
           \/ \E r \in {"ok", "failed"} : busy[r] > 0
           \/ timeouts > 0 \/ timer2 = "queued"
NeedsLock(t) == \/ th[t].in = "OnProcessTimeout"
                \/ th[t].in = "OnReceivedBin" /\ ~th[t].err /\ ~(trailing /\ open)
Dispatches(t) == \/ th[t].in = "poll" /\ Pending
                 \/ th[t].in \notin {"poll", "exited"} /\ (NeedsLock(t) => lock = Free)

\* Someone can go on: a thread, a timer, or the worker of the processor.
GoesOn == \/ \E t \in Thread : Dispatches(t)
          \/ timer = "armed" /\ timeouts = 0
          \/ timer2 = "armed" /\ cycles < MaxCycles
          \/ request = "submitted"
          \/ notify = "due" /\ lock = Free

\* Who holds m_resumemtx is in its critical section, only the owner leaves its loop,
\* and a wait is for a reply that the worker owes.
HolderInv ==
  /\ lock # Free => th[lock].in \in {"decide", "wait", "sendbusy"}
  /\ \A t \in Thread : /\ th[t].in \in {"poll", "exited"} => ~th[t].err
                       /\ th[t].in = "exited" => t = Owner
  /\ timer2 # "off" => request # "none"
  /\ \A t \in Thread : Deciding(t) => request # "none"
  /\ request = "ready" => notify # "no"

\* A closed socket has no write pending; an open one has something to do.
AliveInv ==
  /\ ~open => busy["pending"] = 0
  /\ open => \/ \E o \in Op : op[o] # "off"
             \/ timer2 # "off"
             \/ \E t \in Thread : th[t].in \notin {"poll", "exited", "OnBusy", "sendbusy"}

SessionGoesOn ==
  (~open /\ ~Released) \/ (open /\ cycles = 0) => GoesOn

-----------------------------------------------------------------------------
\* Only a critical section holds m_resumemtx, and the worker owes its call.
LEMMA HolderStep ==
  Places /\ Threads /\ TokenInv /\ RequestInv /\ LockInv /\ HolderInv /\ [Next]_vars
  => HolderInv'
<1> SUFFICES ASSUME Places, Threads, TokenInv, RequestInv, LockInv, HolderInv, [Next]_vars
             PROVE  HolderInv'
  OBVIOUS
<1> USE OwnerAssumption, BoundsAssumption DEF Places, Threads, Step, TokenInv, RequestInv,
        LockInv, HolderInv, Working, Deciding, Free, net, state, history, proc, Polling,
        Exited,
        Close, Cancel, Started, Outcome, Goto, Return,
        Unlock, CancelTimer,
        ArmTimer, do_read_bin, do_write, do_wait_disconnect,
        do_wait_processcompl, do_compose_send_busy, Op
<1>1. CASE \E t \in Thread : Begin(t)
  <2> PICK t \in Thread : Begin(t) BY <1>1
  <2>1. PICK h \in Handler, err \in BOOLEAN :
          /\ Take(t, h, err)
          /\ destroyed \/ th' = [th EXCEPT ![t] = [in |-> h, err |-> err]]
          /\ th' = [th EXCEPT ![t] = Polling] \/ th' = [th EXCEPT ![t] = [in |-> h, err |-> err]]
    BY BeginEffect
  <2>2. /\ UNCHANGED <<timer, open, state, history, proc, lock>>
        /\ th[t] = Polling
    BY BeginEffect
  <2>3. /\ h = "OnReceivedBin" => timer2' = timer2
        /\ h = "OnProcessTimeout" => timer2 # "off" /\ timer2' = "off"
        /\ h \notin {"OnReceivedBin", "OnProcessTimeout"} => timer2' = timer2
    BY <2>1, TakeEffect
  <2> QED BY <2>1, <2>2, <2>3 DEF Handler
<1>2. CASE \E t \in Thread : OnReceivedBin(t)
  BY <1>2 DEF OnReceivedBin
<1>3. CASE \E t \in Thread : OnProcessTimeout(t)
  BY <1>3 DEF OnProcessTimeout
<1>4. CASE \E t \in Thread : Decide(t)
  BY <1>4 DEF Decide
<1>5. CASE \E t \in Thread : Wait(t) \/ SendBusy(t)
  BY <1>5 DEF Wait, SendBusy
<1>6. CASE \E t \in Thread : \/ OnSent(t) \/ OnConnectTimeout(t) \/ OnBusy(t)
                             \/ OnDisconnected(t)
  <2> PICK t \in Thread : \/ OnSent(t) \/ OnConnectTimeout(t) \/ OnBusy(t)
                         \/ OnDisconnected(t)
    BY <1>6
  <2>1. UNCHANGED <<proc, lock>> /\ (timer2' # "off" => timer2 # "off")
    BY DEF OnSent, OnConnectTimeout, OnBusy, OnDisconnected
  <2>2. /\ th' = [th EXCEPT ![t] = Polling]
        /\ th[t].in \in {"OnSent", "OnConnectTimeout", "OnBusy", "OnDisconnected"}
    BY DEF OnSent, OnConnectTimeout, OnBusy, OnDisconnected
  <2> QED BY <2>1, <2>2
<1>8. CASE ThreadStop
  BY <1>8 DEF ThreadStop
<1>9. CASE Client
  <2>1. UNCHANGED <<timer2, proc, lock, th>>
    BY <1>9 DEF Client, Completes, BusyCompletes
  <2> QED BY <2>1
<1>10. CASE TimerExpires \/ Timer2Expires
  BY <1>10 DEF TimerExpires, Timer2Expires
<1>11. CASE Publish \/ do_notify
  BY <1>11 DEF Publish, do_notify
<1>12. CASE UNCHANGED vars
  BY <1>12 DEF vars
<1> QED BY <1>1, <1>2, <1>3, <1>4, <1>5, <1>6, <1>8, <1>9, <1>10, <1>11, <1>12 DEF Next,
           Dispatch

\* A handler leaves an operation, a wait or a closed socket.
LEMMA AliveStep ==
  Places /\ Threads /\ ChainInv /\ AliveInv /\ [Next]_vars => AliveInv'
<1> SUFFICES ASSUME Places, Threads, ChainInv, AliveInv, [Next]_vars PROVE AliveInv'
  OBVIOUS
<1> USE OwnerAssumption, BoundsAssumption DEF Places, Threads, Step, ChainInv, AliveInv, net,
        state, history, proc, Polling, Exited, Close, Cancel, Started, Outcome, Goto, Return,
        Unlock, CancelTimer, ArmTimer, do_read_bin, do_write, do_wait_disconnect,
        do_wait_processcompl, do_compose_send_busy, Op
<1>1. CASE \E t \in Thread : Begin(t)
  <2> PICK t \in Thread : Begin(t) BY <1>1
  <2>1. PICK h \in Handler, err \in BOOLEAN :
          /\ Take(t, h, err)
          /\ destroyed \/ th' = [th EXCEPT ![t] = [in |-> h, err |-> err]]
          /\ th' = [th EXCEPT ![t] = Polling] \/ th' = [th EXCEPT ![t] = [in |-> h, err |-> err]]
    BY BeginEffect
  <2>2. /\ UNCHANGED <<timer, open, state, history, proc, lock>>
        /\ th[t] = Polling
    BY BeginEffect
  <2>3. /\ busy'["pending"] = busy["pending"]
        /\ h = "OnBusy" => UNCHANGED <<op, timer2>>
    BY <2>1, TakeLeaves DEF Take
  <2> QED BY <2>1, <2>2, <2>3 DEF Handler
<1>2. CASE \E t \in Thread : OnReceivedBin(t)
  BY <1>2 DEF OnReceivedBin
<1>3. CASE \E t \in Thread : OnProcessTimeout(t)
  BY <1>3 DEF OnProcessTimeout
<1>4. CASE \E t \in Thread : Decide(t)
  BY <1>4 DEF Decide
<1>5. CASE \E t \in Thread : Wait(t) \/ SendBusy(t)
  BY <1>5 DEF Wait, SendBusy
<1>6. CASE \E t \in Thread : OnSent(t) \/ OnConnectTimeout(t)
  BY <1>6 DEF OnSent, OnConnectTimeout
<1>7. CASE \E t \in Thread : OnBusy(t) \/ OnDisconnected(t)
  BY <1>7 DEF OnBusy, OnDisconnected
<1>8. CASE ThreadStop
  BY <1>8 DEF ThreadStop
<1>9. CASE Client
  <2>1. CASE \E o \in Op : Completes(o)
    <3> PICK o \in Op : Completes(o) BY <2>1
    <3>1. op[o] = "pending" /\ UNCHANGED <<busy, open, timer2, th>>
      BY DEF Completes
    <3>2. op' = [op EXCEPT ![o] = "failed"] \/ op' = [op EXCEPT ![o] = "ok"]
      BY DEF Completes
    <3> QED BY <3>1, <3>2
  <2>2. CASE BusyCompletes
    <3>1. open /\ UNCHANGED <<op, timer2, open, th>> BY <2>2 DEF BusyCompletes
    <3> QED BY <3>1
  <2> QED BY <1>9, <2>1, <2>2 DEF Client
<1>10. CASE TimerExpires \/ Timer2Expires
  BY <1>10 DEF TimerExpires, Timer2Expires
<1>11. CASE Publish \/ do_notify
  BY <1>11 DEF Publish, do_notify
<1>12. CASE UNCHANGED vars
  BY <1>12 DEF vars
<1> QED BY <1>1, <1>2, <1>3, <1>4, <1>5, <1>6, <1>7, <1>8, <1>9, <1>10, <1>11, <1>12 DEF Next,
           Dispatch

-----------------------------------------------------------------------------
\* A handler goes on, or the one in the critical section does.
LEMMA HandlerGoesOn ==
  ASSUME TypeOK, HolderInv, NEW t \in Thread, th[t].in \notin {"poll", "exited"}
  PROVE  \E u \in Thread : Dispatches(u)
<1>1. CASE lock = Free BY <1>1 DEF Dispatches
<1>2. CASE lock # Free
  <2>1. lock \in Thread /\ th[lock].in \in {"decide", "wait", "sendbusy"}
    BY <1>2 DEF TypeOK, HolderInv
  <2> QED BY <2>1 DEF Dispatches, NeedsLock
<1> QED BY <1>1, <1>2

\* A wait ends by the expiry, or by the call that the worker owes.
LEMMA WaitGoesOn ==
  ASSUME IInv, HolderInv, timer2 = "armed", lock = Free
  PROVE  GoesOn
<1>1. request \notin {"none", "fetched"} /\ notify # "done"
  BY DEF IInv, RequestInv, HolderInv, LockInv, NoLostWakeup
<1>2. CASE request = "submitted" BY <1>2 DEF GoesOn
<1>3. CASE request = "ready"
  <2>1. notify = "due" BY <1>1, <1>3 DEF HolderInv, IInv, TypeOK
  <2> QED BY <2>1 DEF GoesOn
<1> QED BY <1>1, <1>2, <1>3 DEF IInv, TypeOK

LEMMA SomeoneGoesOn ==
  ASSUME IInv, HolderInv, AliveInv, Thread # {Owner}
  PROVE  SessionGoesOn
<1> SUFFICES ASSUME (~open /\ ~Released) \/ (open /\ cycles = 0) PROVE GoesOn
  BY DEF SessionGoesOn
<1>0. Places /\ Threads /\ TypeOK BY DEF IInv, TypeOK, Places, Threads, Step
<1>1. CASE \E t \in Thread : th[t].in \notin {"poll", "exited"}
  BY <1>0, <1>1, HandlerGoesOn DEF GoesOn
<1>2. CASE \A t \in Thread : th[t].in \in {"poll", "exited"}
  <2>1. lock = Free BY <1>0, <1>2 DEF HolderInv, Places
  <2>2. CASE Pending
    <3>1. PICK u \in Thread : u # Owner BY OwnerAssumption
    <3>2. Dispatches(u) BY <1>2, <2>2, <3>1 DEF HolderInv, Dispatches
    <3> QED BY <3>2 DEF GoesOn
  <2>3. CASE ~Pending
    <3>1. timeouts = 0 /\ timer2 # "queued" BY <1>0, <2>3 DEF Pending, Places
    <3>2. CASE timer = "armed" BY <3>1, <3>2 DEF GoesOn
    <3>3. CASE timer2 = "armed" BY <2>1, <3>3, WaitGoesOn
    <3>4. CASE timer = "off" /\ timer2 = "off"
      <4>1. CASE ~open /\ ~Released
        <5>1. \A o \in Op : op[o] = "off"
          BY <1>0, <2>3, <4>1 DEF Pending, Places, IInv, ChainInv
        <5>2. \A r \in DOMAIN busy : busy[r] = 0
          BY <1>0, <2>3, <4>1 DEF Pending, Places, AliveInv
        <5>3. \A t \in Thread : th[t] \in {Polling, Exited}
          <6> TAKE t \in Thread
          <6>1. th[t] \in Step /\ th[t].err = FALSE /\ th[t].in \in {"poll", "exited"}
            BY <1>0, <1>2 DEF Threads, HolderInv, Step
          <6>2. th[t] = [in |-> th[t].in, err |-> th[t].err] BY <6>1 DEF Step
          <6> QED BY <6>1, <6>2 DEF Polling, Exited
        <5> QED BY <3>1, <3>4, <4>1, <5>1, <5>2, <5>3 DEF Released
      <4>2. CASE open /\ cycles = 0
        <5>1. PICK o \in Op : op[o] # "off" BY <1>2, <3>4, <4>2 DEF AliveInv
        <5>2. op[o] = "pending" BY <1>0, <2>3, <5>1 DEF Pending, Places
        <5>3. Guarded BY <4>2 DEF IInv, GuardedWithoutBusy
        <5> QED BY <1>0, <1>2, <3>1, <3>4, <5>2, <5>3 DEF Guarded, Places
      <4> QED BY <4>1, <4>2
    <3> QED BY <1>0, <3>1, <3>2, <3>3, <3>4 DEF Places
  <2> QED BY <2>2, <2>3
<1> QED BY <1>1, <1>2

\* A session that has to end needs no client for its next step: as long as a closed
\* one is not released, and as long as one that was sent no "BUSY" is open, a
\* thread, a timer or the worker can go on.  (Another thread than the owner of the
\* socket goes on dispatching: at last the one that runs TServer::Stop.)
THEOREM Spec_SessionGoesOn ==
  ASSUME Thread # {Owner}
  PROVE  Spec => []SessionGoesOn
<1>1. Init => HolderInv /\ AliveInv
  BY OwnerAssumption DEF Init, HolderInv, AliveInv, Deciding, Polling, Op
<1>2. IInv /\ HolderInv /\ AliveInv /\ [Next]_vars => HolderInv' /\ AliveInv'
  <2>1. IInv => Places /\ Threads BY DEF IInv, TypeOK, Places, Threads, Step
  <2> QED BY <2>1, HolderStep, AliveStep DEF IInv
<1>3. IInv /\ HolderInv /\ AliveInv => SessionGoesOn
  BY SomeoneGoesOn
<1> QED BY <1>1, <1>2, <1>3, Invariance, PTL DEF Spec
=============================================================================
