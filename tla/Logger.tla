--------------------------------- MODULE Logger ---------------------------------
(***************************************************************************)
(* The log (logger.cpp): a console logger that passes every message on to  *)
(* a file logger, both under a recursive mutex, each with a queue of       *)
(* fragments that come before the next message.  What they print is        *)
(* printed under a second mutex, which the macros OUT and DBGOUT           *)
(* (common.h) take as well: in debug builds also while slock_reg of the    *)
(* watchdog is held, and in its signal handler.                            *)
(*                                                                         *)
(* The file outlives the program, which may be killed at any point; a new  *)
(* one appends to it.  slock_reg is the fair lock of Lock, as Signals      *)
(* shows.                                                                  *)
(***************************************************************************)
EXTENDS Naturals, SequencesExt

CONSTANTS
  Thread, Main, None,
  Debug,             \* a debug build
  max_queue_size, max_logfilesize,
  prefix_size,       \* of the prompt, the time and the end of a line
  TextSizes,         \* of the messages
  OldSizes,          \* of the file before the first start
  MaxCalls,          \* bound: calls by all threads
  MaxBoots,          \* bound: starts of the program
  MaxSignals         \* bound: signals of the watchdog

ASSUME LoggerAssumption ==
  /\ Main \in Thread /\ None \notin Thread /\ Debug \in BOOLEAN
  /\ {max_queue_size, max_logfilesize, prefix_size, MaxCalls, MaxBoots, MaxSignals} \subseteq Nat
  /\ prefix_size >= 2 /\ TextSizes \subseteq Nat /\ OldSizes \subseteq Nat

Frame == Thread \X {"own", "handler"}
NoFrame == <<None, "own">>
Own(t) == <<t, "own">>
Handler(t) == <<t, "handler">>

VARIABLES
  is_log_started, boots,
  m_mtx, depth,             \* the recursive mutex: the frame that has it, how often
  m_loggermtx,              \* the frame that has it
  slock,                    \* slock_reg: the frames that asked for it
  pc,                       \* where each frame is
  message,                  \* what the frame in m_mtx logs
  consoleQueue, fileQueue,  \* m_queue of the two loggers
  doWriteToFile, m_file_buff_size,
  console,                  \* history: printed since the start
  file,                     \* printed to the file since the start, if it is still in it
  written,                  \* bytes in the file
  calls, signals

lockvars == <<m_mtx, depth, m_loggermtx, slock>>
logvars == <<consoleQueue, fileQueue, doWriteToFile, m_file_buff_size, console, file, written>>
vars == <<is_log_started, boots, lockvars, pc, message, logvars, calls, signals>>

slock_reg == INSTANCE Lock WITH Client <- Frame, queue <- slock

\* The frame on top is the one that runs.
Runs(f) == f[2] = "own" => pc[Handler(f[1])] = "idle"

\* The sizes of the strings count the zero that ends each of the two.
Counted(m) == prefix_size + m.size + Len(m.before)
Printed(m) == Counted(m) - 2

Init ==
  /\ is_log_started = FALSE /\ boots = 0
  /\ m_mtx = NoFrame /\ depth = 0 /\ m_loggermtx = NoFrame /\ slock = <<>>
  /\ pc = [f \in Frame |-> "idle"]
  /\ message = [no |-> 0, size |-> 0]
  /\ consoleQueue = <<>> /\ fileQueue = <<>>
  /\ doWriteToFile = FALSE /\ m_file_buff_size = 0
  /\ console = <<>> /\ file = <<>> /\ written \in OldSizes
  /\ calls = 0 /\ signals = 0

Goto(f, label) == pc' = [pc EXCEPT ![f] = label]

-----------------------------------------------------------------------------
\* A thread calls the log or a macro.
Calls(t) ==
  /\ pc[Own(t)] = "idle" /\ Runs(Own(t)) /\ is_log_started /\ calls < MaxCalls
  /\ calls' = calls + 1
  /\ UNCHANGED <<is_log_started, boots, m_mtx, depth, m_loggermtx, message, logvars, signals>>

Log(t) == Calls(t) /\ Goto(Own(t), "write") /\ UNCHANGED slock
LogFragment(t) == Calls(t) /\ Goto(Own(t), "push") /\ UNCHANGED slock
Out(t) == Calls(t) /\ Goto(Own(t), "out") /\ UNCHANGED slock
RegisterThread(t) == Calls(t) /\ Goto(Own(t), "wait") /\ slock_reg!Ask(Own(t))

\* The signal of the watchdog's timer.
Signal(t) ==
  /\ is_log_started /\ pc[Handler(t)] = "idle" /\ signals < MaxSignals
  /\ signals' = signals + 1
  /\ Goto(Handler(t), "wait") /\ slock_reg!Ask(Handler(t))
  /\ UNCHANGED <<is_log_started, boots, m_mtx, depth, m_loggermtx, message, logvars, calls>>

-----------------------------------------------------------------------------
\* Mutant: the mutex is not recursive.
LockOnce(f) ==
  /\ m_mtx = NoFrame
  /\ m_mtx' = f /\ depth' = depth + 1

Lock(f) ==
  /\ m_mtx \in {f, NoFrame}
  /\ m_mtx' = f /\ depth' = depth + 1

Unlock ==
  /\ m_mtx' = IF depth = 1 THEN NoFrame ELSE m_mtx
  /\ depth' = depth - 1

\* start_log: the file is opened to append, and counted from zero if it is
\* full already; then the first message is logged under the same mutex.
StartLog ==
  /\ ~is_log_started /\ boots < MaxBoots /\ pc[Own(Main)] = "idle"
  /\ Lock(Own(Main))
  /\ boots' = boots + 1 /\ is_log_started' = TRUE
  /\ doWriteToFile' \in BOOLEAN
  /\ m_file_buff_size' = IF doWriteToFile' /\ written < max_logfilesize THEN written ELSE 0
  /\ file' = <<>> /\ console' = <<>>
  /\ consoleQueue' = <<>> /\ fileQueue' = <<>> /\ message' = [no |-> 0, size |-> 0]
  /\ Goto(Own(Main), "write")
  /\ UNCHANGED <<m_loggermtx, slock, written, calls, signals>>

\* stop_log, when the other threads have ended and the timer is stopped.
StopLog ==
  /\ is_log_started /\ \A f \in Frame : pc[f] = "idle"
  /\ Lock(Own(Main))
  /\ is_log_started' = FALSE
  /\ Goto(Own(Main), "write")
  /\ UNCHANGED <<boots, m_loggermtx, slock, message, logvars, calls, signals>>

\* The program is killed; or it ends in stop_log, where the destructor of the
\* file logger closes a file that may not have been opened.
Crash ==
  /\ is_log_started \/ pc[Own(Main)] # "idle"
  /\ boots < MaxBoots
  /\ is_log_started' = FALSE
  /\ m_mtx' = NoFrame /\ depth' = 0 /\ m_loggermtx' = NoFrame /\ slock' = <<>>
  /\ pc' = [f \in Frame |-> "idle"]
  /\ UNCHANGED <<boots, message, logvars, calls, signals>>

-----------------------------------------------------------------------------
Pushed(q, x) == IF Len(q) < max_queue_size THEN Append(q, x) ELSE q

\* pushfifo_log of the console logger, and of the file logger under it.
Push(f) ==
  /\ pc[f] = "push" /\ Runs(f) /\ m_mtx = NoFrame
  /\ consoleQueue' = Pushed(consoleQueue, calls)
  /\ fileQueue' = Pushed(fileQueue, calls)
  /\ Goto(f, "idle")
  /\ UNCHANGED <<is_log_started, boots, lockvars, message, doWriteToFile,
                 m_file_buff_size, console, file, written, calls, signals>>

\* write_log of the console logger up to the call of m_pimpl.
Write(f) ==
  /\ pc[f] = "write" /\ Runs(f) /\ Lock(f)
  /\ \E n \in TextSizes : message' = [no |-> message.no + 1, size |-> n]
  /\ Goto(f, "console")
  /\ UNCHANGED <<is_log_started, boots, m_loggermtx, slock, logvars, calls, signals>>

\* Whoever prints takes m_loggermtx for it.
Acquire(f) ==
  /\ pc[f] \in {"console", "file", "out"} /\ Runs(f) /\ m_loggermtx = NoFrame
  /\ m_loggermtx' = f
  /\ UNCHANGED <<is_log_started, boots, m_mtx, depth, slock, pc, message, logvars, calls,
                 signals>>

Prints(f, label) ==
  /\ pc[f] = label /\ Runs(f) /\ m_loggermtx = f /\ m_loggermtx' = NoFrame
  /\ UNCHANGED <<is_log_started, boots, slock, calls, signals>>

With(m, fragments) == [no |-> m.no, size |-> m.size, before |-> fragments]

\* Mutant: the mutex is free while the message goes from the console to the
\* file.
PrintConsoleFree(f) ==
  /\ Prints(f, "console") /\ Unlock
  /\ console' = Append(console, With(message, consoleQueue))
  /\ consoleQueue' = <<>>
  /\ Goto(f, "pass")
  /\ UNCHANGED <<message, fileQueue, doWriteToFile, m_file_buff_size, file, written>>

PrintConsole(f) ==
  /\ Prints(f, "console")
  /\ console' = Append(console, With(message, consoleQueue))
  /\ consoleQueue' = <<>>
  /\ Goto(f, "pass")
  /\ UNCHANGED <<m_mtx, depth, message, fileQueue, doWriteToFile, m_file_buff_size, file,
                 written>>

\* Mutant: a file that was started again is counted from zero.
PassToFileFromZero(f) ==
  /\ pc[f] = "pass" /\ Runs(f) /\ doWriteToFile
  /\ LET n == m_file_buff_size + Counted(With(message, fileQueue))
     IN  IF n <= max_logfilesize
         THEN m_file_buff_size' = n /\ UNCHANGED <<file, written>>
         ELSE m_file_buff_size' = 0 /\ file' = <<>> /\ written' = 0
  /\ Goto(f, "file")
  /\ UNCHANGED <<is_log_started, boots, lockvars, message, consoleQueue, fileQueue,
                 doWriteToFile, console, calls, signals>>

\* write_log of the file logger up to the call of m_pimpl: a file that would
\* be too long is started again, if it can be opened.
PassToFile(f) ==
  /\ pc[f] = "pass" /\ Runs(f) /\ doWriteToFile
  /\ LET counted == Counted(With(message, fileQueue))
         restart == m_file_buff_size + counted > max_logfilesize
     IN  /\ doWriteToFile' \in IF restart THEN BOOLEAN ELSE {TRUE}
         /\ m_file_buff_size' = IF restart THEN counted ELSE m_file_buff_size + counted
         /\ IF restart /\ doWriteToFile'
            THEN file' = <<>> /\ written' = 0 ELSE UNCHANGED <<file, written>>
  /\ fileQueue' = IF doWriteToFile' THEN fileQueue ELSE <<>>
  /\ Goto(f, IF doWriteToFile' THEN "file" ELSE "leave")
  /\ UNCHANGED <<is_log_started, boots, lockvars, message, consoleQueue, console, calls,
                 signals>>

NoFile(f) ==
  /\ pc[f] = "pass" /\ Runs(f) /\ ~doWriteToFile
  /\ Goto(f, "leave")
  /\ UNCHANGED <<is_log_started, boots, lockvars, message, logvars, calls, signals>>

PrintFile(f) ==
  /\ Prints(f, "file")
  /\ file' = Append(file, With(message, fileQueue))
  /\ written' = written + Printed(With(message, fileQueue))
  /\ fileQueue' = <<>>
  /\ Goto(f, "leave")
  /\ UNCHANGED <<m_mtx, depth, message, consoleQueue, doWriteToFile, m_file_buff_size,
                 console>>

\* The end of write_log, and then of start_log and stop_log.
Leave(f) ==
  /\ pc[f] = "leave" /\ Runs(f) /\ Unlock
  /\ Goto(f, IF depth > 1 THEN "leave" ELSE "idle")
  /\ UNCHANGED <<is_log_started, boots, m_loggermtx, slock, message, logvars, calls, signals>>

-----------------------------------------------------------------------------
\* slock_reg: registerThread prints while it has it, the handler after that.
Granted(f) ==
  /\ pc[f] = "wait" /\ Runs(f) /\ Head(slock) = f
  /\ Goto(f, IF f[2] = "own" /\ Debug THEN "out" ELSE "drop")
  /\ UNCHANGED <<is_log_started, boots, lockvars, message, logvars, calls, signals>>

Drop(f) ==
  /\ pc[f] = "drop" /\ Runs(f) /\ slock_reg!Leave(f)
  /\ Goto(f, IF f[2] = "handler" /\ Debug THEN "out" ELSE "idle")
  /\ UNCHANGED <<is_log_started, boots, m_mtx, depth, m_loggermtx, message, logvars, calls,
                 signals>>

PrintOut(f) ==
  /\ Prints(f, "out")
  /\ Goto(f, IF slock_reg!Waits(f) THEN "drop" ELSE "idle")
  /\ UNCHANGED <<m_mtx, depth, message, logvars>>

-----------------------------------------------------------------------------
Continue(f) ==
  \/ Push(f) \/ Write(f) \/ Acquire(f) \/ PrintConsole(f) \/ PassToFile(f) \/ NoFile(f)
  \/ PrintFile(f) \/ Leave(f) \/ Granted(f) \/ Drop(f) \/ PrintOut(f)

Next ==
  \/ StartLog \/ StopLog \/ Crash
  \/ \E t \in Thread : Log(t) \/ LogFragment(t) \/ Out(t) \/ RegisterThread(t) \/ Signal(t)
  \/ \E f \in Frame : Continue(f)

\* A frame goes on as soon as it can.
Spec == Init /\ [][Next]_vars /\ \A f \in Frame : WF_vars(Continue(f))

-----------------------------------------------------------------------------
TypeOK ==
  /\ is_log_started \in BOOLEAN /\ boots \in 0 .. MaxBoots
  /\ m_mtx \in Frame \cup {NoFrame} /\ depth \in 0 .. 2 /\ (depth = 0 <=> m_mtx = NoFrame)
  /\ m_loggermtx \in Frame \cup {NoFrame} /\ slock \in Seq(Frame)
  /\ pc \in [Frame -> {"idle", "write", "push", "out", "wait", "console", "pass", "file", "leave",
                       "drop"}]
  /\ Len(consoleQueue) <= max_queue_size /\ Len(fileQueue) <= max_queue_size
  /\ doWriteToFile \in BOOLEAN /\ m_file_buff_size \in Nat
  /\ calls \in 0 .. MaxCalls /\ signals \in 0 .. MaxSignals

\* The file says what the console said: while no message is on its way, and
\* the file could be opened, it ends with the last messages of the console,
\* in their order and with the same fragments before each.
FileFollowsConsole ==
  is_log_started /\ doWriteToFile /\ m_mtx = NoFrame
    => IsSuffix(file, console) /\ (console # <<>> => file # <<>>) /\ fileQueue = consoleQueue

\* A file that is short enough at first, and messages that fit into it, with
\* all the fragments that may come before them.
MessagesFit ==
  /\ \A n \in OldSizes : n < max_logfilesize
  /\ \A n \in TextSizes : prefix_size + n + max_queue_size <= max_logfilesize

\* What has a limit keeps it.  The queues of fragments do (TypeOK), and the
\* file stays within max_logfilesize from one start of the program to
\* the next, wherever the program was killed, if it did so before and each
\* message fits.
FileFits == TypeOK /\ (MessagesFit => written <= max_logfilesize)

\* A handler waits for a lock, and the frame beneath it has one: the handler
\* or those for whom it waits may wait for that one.
Trapped(t) ==
  /\ pc[Handler(t)] \in {"wait", "out"}
  /\ m_loggermtx = Own(t) \/ slock_reg!Waits(Own(t))

\* Whoever calls the log or a macro, or is interrupted by the signal, goes on,
\* whatever the others do with the three locks; unless a handler has trapped
\* the frame beneath it.
EverythingReturns ==
  \A f \in Frame : pc[f] # "idle" ~> pc[f] = "idle" \/ \E t \in Thread : Trapped(t)
=============================================================================
