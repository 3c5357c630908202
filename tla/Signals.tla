-------------------------------- MODULE Signals --------------------------------
(***************************************************************************)
(* What a signal may interrupt.  The threads of the program run operations *)
(* of the watchdog under slock_reg and report errors (error.cpp); the      *)
(* timer of the watchdog sends a signal to any of them, and the handler    *)
(* (watchdog.cpp) runs on top of whatever that thread is doing.  It takes  *)
(* slock_reg as well and reports an error through its callback          *)
(* (control.cpp, on_wdtimeout).                                            *)
(*                                                                         *)
(* A thread has two frames, its own and that of the handler; while the     *)
(* handler runs the other one stands still.  What the operations do to the *)
(* marks of the watchdog is the subject of Watchdog.                       *)
(***************************************************************************)
EXTENDS Naturals, Sequences

CONSTANTS
  Thread, Main, None,
  MaxTicket,          \* bound: calls of slock_reg.lock
  MaxSignals,         \* bound: signals sent
  max_attempts,       \* of try_lock
  max_errlogfilesize,
  prefix_size1, prefix_size2,
  MessageSizes        \* of the texts given to show_errmsg

ASSUME SignalsAssumption ==
  /\ Main \in Thread /\ None \notin Thread
  /\ {MaxTicket, MaxSignals, prefix_size1, prefix_size2} \subseteq Nat
  /\ max_attempts \in Nat \ {0} /\ max_errlogfilesize \in Nat \ {0}
  /\ MessageSizes \subseteq Nat
  /\ \A n \in MessageSizes : prefix_size1 + n < max_errlogfilesize

Frame == Thread \X {"own", "handler"}
NoFrame == <<None, "own">>
Own(t) == <<t, "own">>
Handler(t) == <<t, "handler">>

VARIABLES
  \* slock_reg, and what is called under it
  NextTicketNo, ServingTicketNo, myTicketNo, newNo, pc,
  operation,        \* of a thread's own frame
  \* of the watchdog
  is_wdstarted, m_totalthreads, \* 1: one or more are registered
  timer,            \* the timer sends signals
  signals,          \* sent so far
  handler,          \* where the handler of each thread is
  total,            \* what it found in notify_timeout
  \* of the error log
  spin_flag,        \* the frame that has it, or NoFrame
  show,             \* where each frame is in show_errmsg
  attempts,         \* failed attempts of try_lock
  file_buffer_size, \* the size the log counts
  position          \* history: bytes from the start of the file to its end

lockvars == <<NextTicketNo, ServingTicketNo, myTicketNo, newNo, pc>>
wdvars == <<is_wdstarted, m_totalthreads, timer>>
sigvars == <<signals, handler, total>>
logvars == <<spin_flag, show, attempts, file_buffer_size, position>>
vars == <<lockvars, operation, wdvars, sigvars, logvars>>

slock_reg == INSTANCE TicketLock WITH Client <- Frame

\* The frame on top is the one that runs.
Runs(f) == f[2] = "own" => handler[f[1]] = "none"

Init ==
  /\ slock_reg!Init
  /\ operation = [t \in Thread |-> "none"]
  /\ is_wdstarted = FALSE /\ m_totalthreads = 0 /\ timer = FALSE
  /\ signals = 0 /\ handler = [t \in Thread |-> "none"] /\ total = [t \in Thread |-> 0]
  /\ spin_flag = NoFrame /\ show = [f \in Frame |-> "none"]
  /\ attempts = [f \in Frame |-> 0] /\ file_buffer_size = 0 /\ position = 0

-----------------------------------------------------------------------------
\* The operations of the watchdog.  Only the main thread starts and stops it.
Operations(t) ==
  {"register", "unregister", "feed"} \cup (IF t = Main THEN {"start", "stop"} ELSE {})

Call(t) ==
  /\ Runs(Own(t)) /\ show[Own(t)] = "none"
  /\ slock_reg!FetchAdd(Own(t))
  /\ \E o \in Operations(t) : operation' = [operation EXCEPT ![t] = o]
  /\ UNCHANGED <<wdvars, sigvars, logvars>>

\* A turn of the spinning loop that ends it, of either frame.
Served(f) ==
  /\ Runs(f) /\ slock_reg!Served(f)
  /\ UNCHANGED <<operation, wdvars, sigvars, logvars>>

\* What register and unregister do to the count; feed leaves it alone.
Counts(t) ==
  \/ operation[t] = "register" /\ m_totalthreads' = 1
  \/ operation[t] = "unregister" /\ m_totalthreads' \in {m_totalthreads, 0}
  \/ operation[t] = "feed" /\ UNCHANGED m_totalthreads

\* A call of the system fails in run_timer (before or after the timer is
\* set), stop_timer or reset_timer, once in an operation at most; the error
\* is reported under slock_reg.  stop_wd goes on afterwards.
Fails(t) ==
  /\ Runs(Own(t)) /\ pc[Own(t)] = "in" /\ show[Own(t)] = "none"
  /\ \/ /\ operation[t] = "start" /\ ~is_wdstarted
        /\ m_totalthreads' = 0 /\ timer' \in {timer, TRUE}
        /\ operation' = [operation EXCEPT ![t] = "failed"]
     \/ /\ operation[t] = "stop" /\ is_wdstarted
        /\ timer' \in {timer, FALSE} /\ UNCHANGED m_totalthreads
        /\ operation' = [operation EXCEPT ![t] = "stopping"]
     \/ /\ is_wdstarted /\ Counts(t) /\ UNCHANGED timer
        /\ operation' = [operation EXCEPT ![t] = "failed"]
  /\ show' = [show EXCEPT ![Own(t)] = "try"]
  /\ UNCHANGED <<lockvars, is_wdstarted, sigvars, spin_flag, attempts, file_buffer_size, position>>

\* The body of the operation, or what is left of it after a report, and the
\* load of unlock().
Body(t) ==
  /\ Runs(Own(t)) /\ show[Own(t)] = "none" /\ slock_reg!Load(Own(t))
  /\ \/ /\ operation[t] = "start" /\ ~is_wdstarted
        /\ m_totalthreads' = 0 /\ is_wdstarted' = TRUE /\ timer' = TRUE
     \/ /\ operation[t] = "stop" /\ is_wdstarted
        /\ is_wdstarted' = FALSE /\ timer' = FALSE /\ UNCHANGED m_totalthreads
     \/ /\ operation[t] = "stopping"
        /\ is_wdstarted' = FALSE /\ UNCHANGED <<m_totalthreads, timer>>
     \/ is_wdstarted /\ Counts(t) /\ UNCHANGED <<is_wdstarted, timer>>
     \/ operation[t] = "failed" /\ UNCHANGED wdvars
     \/ /\ operation[t] # "stopping" /\ (operation[t] = "start" <=> is_wdstarted)
        /\ UNCHANGED wdvars
  /\ UNCHANGED <<operation, sigvars, logvars>>

Return(t) ==
  /\ Runs(Own(t)) /\ slock_reg!Store(Own(t))
  /\ operation' = [operation EXCEPT ![t] = "none"]
  /\ UNCHANGED <<wdvars, sigvars, logvars>>

-----------------------------------------------------------------------------
\* The signal of the timer comes to some thread; one that is in the handler
\* has it blocked.  notify_timeout looks at is_wdstarted before it locks.
Signal(t) ==
  /\ timer /\ signals < MaxSignals /\ handler[t] = "none"
  /\ signals' = signals + 1
  /\ handler' = [handler EXCEPT ![t] = "notify"]
  /\ UNCHANGED <<lockvars, operation, wdvars, total, logvars>>

NotifyLocks(t) ==
  /\ handler[t] = "notify" /\ is_wdstarted
  /\ slock_reg!FetchAdd(Handler(t))
  /\ handler' = [handler EXCEPT ![t] = "locking"]
  /\ UNCHANGED <<operation, wdvars, signals, total, logvars>>

\* The watchdog is stopped.  (MaxTicket: the bound of the
\* model is kept away from the handler.)
NotifyLeaves(t) ==
  /\ handler[t] = "notify" /\ (~is_wdstarted \/ NextTicketNo = MaxTicket)
  /\ handler' = [handler EXCEPT ![t] = "none"]
  /\ UNCHANGED <<lockvars, operation, wdvars, signals, total, logvars>>

NotifyReads(t) ==
  /\ handler[t] = "locking" /\ slock_reg!Load(Handler(t))
  /\ total' = [total EXCEPT ![t] = m_totalthreads]
  /\ UNCHANGED <<operation, wdvars, signals, handler, logvars>>

\* on_wdtimeout reports an error.
NotifyReturns(t) ==
  /\ handler[t] = "locking" /\ slock_reg!Store(Handler(t))
  /\ total' = [total EXCEPT ![t] = 0]
  /\ handler' = [handler EXCEPT ![t] = IF total[t] > 0 THEN "callback" ELSE "none"]
  /\ show' = [show EXCEPT ![Handler(t)] = IF total[t] > 0 THEN "try" ELSE "none"]
  /\ UNCHANGED <<operation, wdvars, signals, spin_flag, attempts, file_buffer_size, position>>

-----------------------------------------------------------------------------
\* show_errmsg.  A thread's own frame calls it wherever an exception ends,
\* and under slock_reg (Fails).
Report(t) ==
  /\ Runs(Own(t)) /\ operation[t] = "none" /\ show[Own(t)] = "none"
  /\ show' = [show EXCEPT ![Own(t)] = "try"]
  /\ UNCHANGED <<lockvars, operation, wdvars, sigvars, spin_flag, attempts,
                 file_buffer_size, position>>

\* The frame returns from show_errmsg, the handler with it.
Shown(f) ==
  /\ show' = [show EXCEPT ![f] = "none"]
  /\ attempts' = [attempts EXCEPT ![f] = 0]
  /\ handler' = IF f[2] = "handler" THEN [handler EXCEPT ![f[1]] = "none"] ELSE handler

TryLock(f) ==
  /\ Runs(f) /\ show[f] = "try" /\ spin_flag = NoFrame
  /\ spin_flag' = f
  /\ show' = [show EXCEPT ![f] = "writing"]
  /\ attempts' = [attempts EXCEPT ![f] = 0]
  /\ UNCHANGED <<lockvars, operation, wdvars, sigvars, file_buffer_size, position>>

\* Mutant: the attempts are not counted.
TryLockFailsUncounted(f) ==
  /\ Runs(f) /\ show[f] = "try" /\ spin_flag # NoFrame
  /\ UNCHANGED vars

TryLockFails(f) ==
  /\ Runs(f) /\ show[f] = "try" /\ spin_flag # NoFrame
  /\ attempts[f] + 1 < max_attempts
  /\ attempts' = [attempts EXCEPT ![f] = @ + 1]
  /\ UNCHANGED <<lockvars, operation, wdvars, sigvars, spin_flag, show, file_buffer_size, position>>

\* Mutant: whoever returns from show_errmsg unlocks.
IgnoreUnlocks(f) ==
  /\ Runs(f) /\ show[f] = "try" /\ spin_flag # NoFrame
  /\ attempts[f] + 1 = max_attempts
  /\ Shown(f) /\ spin_flag' = NoFrame
  /\ UNCHANGED <<lockvars, operation, wdvars, signals, total, file_buffer_size, position>>

\* The last attempt: the message is dropped.
Ignore(f) ==
  /\ Runs(f) /\ show[f] = "try" /\ spin_flag # NoFrame
  /\ attempts[f] + 1 = max_attempts
  /\ Shown(f)
  /\ UNCHANGED <<lockvars, operation, wdvars, signals, total, spin_flag, file_buffer_size,
                 position>>

\* Mutant: the code of the error is written without a look at the size.
WriteCode(f) ==
  /\ Runs(f) /\ show[f] = "writing"
  /\ \E n \in MessageSizes, coded \in BOOLEAN :
       LET message == prefix_size1 + n + (IF coded THEN prefix_size2 ELSE 0)
           restart == file_buffer_size + prefix_size1 + n >= max_errlogfilesize
       IN  /\ file_buffer_size' = IF restart THEN message ELSE file_buffer_size + message
           /\ position' = IF restart THEN message ELSE position + message
  /\ show' = [show EXCEPT ![f] = "unlock"]
  /\ UNCHANGED <<lockvars, operation, wdvars, sigvars, spin_flag, attempts>>

\* The file is written, from its start again when it is full.  The counted
\* sizes include the zeros that end the strings.
Write(f) ==
  /\ Runs(f) /\ show[f] = "writing"
  /\ \E n \in MessageSizes, coded \in BOOLEAN :
       LET message == prefix_size1 + n
           restart == file_buffer_size + message >= max_errlogfilesize
           size == IF restart THEN message ELSE file_buffer_size + message
           whole == IF coded THEN size + prefix_size2 ELSE size
           start == IF restart THEN 0 ELSE position
       IN  /\ file_buffer_size' = whole
           /\ position' = IF whole < max_errlogfilesize THEN start + message + (whole - size)
                          ELSE start + message
  /\ show' = [show EXCEPT ![f] = "unlock"]
  /\ UNCHANGED <<lockvars, operation, wdvars, sigvars, spin_flag, attempts>>

Unlock(f) ==
  /\ Runs(f) /\ show[f] = "unlock"
  /\ spin_flag' = NoFrame /\ Shown(f)
  /\ UNCHANGED <<lockvars, operation, wdvars, signals, total, file_buffer_size, position>>

-----------------------------------------------------------------------------
Step(f) ==
  \/ Served(f) \/ TryLock(f) \/ TryLockFails(f) \/ Ignore(f) \/ Write(f) \/ Unlock(f)

Continue(t) ==
  \/ Step(Own(t)) \/ Step(Handler(t)) \/ Fails(t) \/ Body(t) \/ Return(t)
  \/ NotifyLocks(t) \/ NotifyLeaves(t) \/ NotifyReads(t) \/ NotifyReturns(t)

Next == \E t \in Thread : Call(t) \/ Report(t) \/ Signal(t) \/ Continue(t)

\* A thread goes on with what it has begun.
Spec == Init /\ [][Next]_vars /\ \A t \in Thread : WF_vars(Continue(t))

-----------------------------------------------------------------------------
TypeOK ==
  /\ slock_reg!TypeOK
  /\ operation \in [Thread -> {"none", "register", "unregister", "feed", "start", "stop",
                             "failed", "stopping"}]
  /\ is_wdstarted \in BOOLEAN /\ timer \in BOOLEAN /\ m_totalthreads \in 0 .. 1
  /\ signals \in 0 .. MaxSignals
  /\ handler \in [Thread -> {"none", "notify", "locking", "callback"}]
  /\ total \in [Thread -> 0 .. 1]
  /\ spin_flag \in Frame \cup {NoFrame}
  /\ show \in [Frame -> {"none", "try", "writing", "unlock"}]
  /\ attempts \in [Frame -> 0 .. max_attempts - 1]
  /\ file_buffer_size \in Nat /\ position \in Nat

\* slock_reg is a fair lock of the frames: a handler does not get in between
\* lock() and unlock() of another frame, not even of the one it interrupts,
\* and those who wait are served in the order in which they came.
ImplementsLock == slock_reg!ImplementsLock

\* One frame at a time writes the error log, also when the handler interrupts
\* the writer and reports an error of its own; and the flag is given back.
OneWriter ==
  \A f \in Frame : show[f] \in {"writing", "unlock"} <=> spin_flag = f

\* The cyclic log stays below its limit, though the second part of a message
\* is counted before it is compared.
LogFits == position < max_errlogfilesize

\* The handler of a thread waits for slock_reg, and its own frame beneath has
\* the lock or an earlier ticket: for ever.
Trapped(t) == handler[t] = "locking" /\ pc[Handler(t)] = "spin" /\ pc[Own(t)] # "out"

\* That is the only way to hang: unless some thread is trapped, operations of
\* the watchdog end, and so do signal handlers and reports of errors, however
\* often they interrupt one another.
EverythingEnds ==
  \A t \in Thread :
    (operation[t] # "none" \/ handler[t] # "none" \/ show[Own(t)] # "none")
      ~> \/ operation[t] = "none" /\ handler[t] = "none" /\ show[Own(t)] = "none"
         \/ \E u \in Thread : Trapped(u)
=============================================================================
