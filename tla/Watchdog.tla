------------------------------- MODULE Watchdog -------------------------------
(***************************************************************************)
(* The watchdog (watchdog.cpp): a timer that is set back when every        *)
(* registered thread has fed it once, and that otherwise expires and       *)
(* reports a hung thread.  Every operation runs under slock_reg and is one *)
(* step.  Who has fed in the current period is kept as one of two values   *)
(* per ticket, m_expected (not yet) and m_desired (fed), which change      *)
(* roles when the period ends, and as a count, m_processedthreads.         *)
(***************************************************************************)
EXTENDS Integers, Sequences, FiniteSets

CONSTANTS Thread,    \* the threads that may be constructed (managedThread_t)
          MaxThreads \* m_maxthreads, the tickets given out by start_wd,
                     \* an unsigned char

ASSUME MaxThreadsAssumption ==
  IsFiniteSet(Thread) /\ MaxThreads \in 0 .. 255 /\ Cardinality(Thread) <= MaxThreads

VARIABLES
  is_wdstarted, \* the timer runs
  ticketlist,   \* m_ticketlist, taken from the back, given back at the front
  thstate,      \* m_thstatelist: the value of each ticket
  expected,     \* m_expected, the value of a thread that has not fed
  desired,      \* m_desired, the value of a thread that has fed
  total,        \* m_totalthreads, an unsigned char
  processed,    \* m_processedthreads
  isWDTimeout,  \* the timer has expired
  elapsed,      \* a period has passed since the timer was set
  thread,       \* each managed thread: none, registered with the running
                \* watchdog, or stale (not counted by it)
  ticket,       \* m_wdticket of each thread
  hung,         \* threads that stopped feeding
  fed,          \* history: threads that fed or registered in this period
  alarm,        \* history: the last call of the callback
  skewed        \* history: why the count may be wrong: "no", a counted thread
                \* has "left", or a "stale" thread has used the watchdog

marks == <<ticketlist, thstate, expected, desired, total, processed>>
vars == <<is_wdstarted, marks, isWDTimeout, elapsed, thread, ticket, hung, fed,
          alarm, skewed>>

Ticket == 0 .. MaxThreads - 1
eInvalid == -1
eZero == 0
eOne == 1
UChar == 256
Skew(t, left) == IF thread[t] = "stale" \/ skewed = "stale" THEN "stale"
                 ELSE IF left THEN "left" ELSE skewed
Registered == {t \in Thread : thread[t] = "registered"}

-----------------------------------------------------------------------------
(* reset_wd_impl(tk), on the states, the total, the count and the set of    *)
(* threads that have fed as the caller leaves them: the last one to feed    *)
(* ends the period and sets the timer back.                                 *)
Cas(tk, states) == states[tk] = expected

\* Mutant: the two values keep their roles.
reset_wd_impl_keeping(tk, states, tot, proc, now) ==
  LET count == proc + IF Cas(tk, states) THEN 1 ELSE 0 IN
  /\ thstate' = IF Cas(tk, states) THEN [states EXCEPT ![tk] = desired] ELSE states
  /\ total' = tot /\ UNCHANGED <<expected, desired>>
  /\ IF count < tot
     THEN processed' = count /\ fed' = now /\ UNCHANGED <<elapsed, isWDTimeout>>
     ELSE processed' = 0 /\ fed' = {} /\ elapsed' = FALSE /\ isWDTimeout' = FALSE

\* Mutant: m_desired is not exchanged.
reset_wd_impl_halfway(tk, states, tot, proc, now) ==
  LET count == proc + IF Cas(tk, states) THEN 1 ELSE 0 IN
  /\ thstate' = IF Cas(tk, states) THEN [states EXCEPT ![tk] = desired] ELSE states
  /\ total' = tot /\ UNCHANGED desired
  /\ IF count < tot
     THEN /\ processed' = count /\ fed' = now
          /\ UNCHANGED <<expected, elapsed, isWDTimeout>>
     ELSE /\ processed' = 0 /\ fed' = {} /\ elapsed' = FALSE /\ isWDTimeout' = FALSE
          /\ expected' = desired

\* Mutant: every feed counts, the second of a thread too.
reset_wd_impl_counting(tk, states, tot, proc, now) ==
  /\ thstate' = IF Cas(tk, states) THEN [states EXCEPT ![tk] = desired] ELSE states
  /\ total' = tot
  /\ IF proc + 1 < tot
     THEN /\ processed' = proc + 1 /\ fed' = now
          /\ UNCHANGED <<expected, desired, elapsed, isWDTimeout>>
     ELSE /\ processed' = 0 /\ fed' = {} /\ elapsed' = FALSE /\ isWDTimeout' = FALSE
          /\ expected' = desired /\ desired' = expected

reset_wd_impl(tk, states, tot, proc, now) ==
  LET count == proc + IF Cas(tk, states) THEN 1 ELSE 0 IN
  /\ thstate' = IF Cas(tk, states) THEN [states EXCEPT ![tk] = desired] ELSE states
  /\ total' = tot
  /\ IF count < tot
     THEN /\ processed' = count /\ fed' = now
          /\ UNCHANGED <<expected, desired, elapsed, isWDTimeout>>
     ELSE /\ processed' = 0 /\ fed' = {} /\ elapsed' = FALSE /\ isWDTimeout' = FALSE
          /\ expected' = desired /\ desired' = expected

-----------------------------------------------------------------------------
Init ==
  /\ is_wdstarted = FALSE
  /\ ticketlist = <<>> /\ thstate = [k \in Ticket |-> eInvalid]
  /\ expected = eZero /\ desired = eOne /\ total = 0 /\ processed = 0
  /\ isWDTimeout = FALSE /\ elapsed = FALSE
  /\ thread = [t \in Thread |-> "none"] /\ ticket = [t \in Thread |-> 0]
  /\ hung = {} /\ fed = {} /\ alarm = "none" /\ skewed = "no"

\* Threads that were registered before are not known to the new watchdog.
start_wd ==
  /\ ~is_wdstarted /\ is_wdstarted' = TRUE
  /\ ticketlist' = [i \in 1 .. MaxThreads |-> i - 1]
  /\ thstate' = [k \in Ticket |-> eInvalid]
  /\ processed' = 0 /\ total' = 0 /\ expected' = eZero /\ desired' = eOne
  /\ isWDTimeout' = FALSE /\ elapsed' = FALSE
  /\ thread' = [t \in Thread |-> IF thread[t] = "none" THEN "none" ELSE "stale"]
  /\ fed' = {} /\ alarm' = "none" /\ skewed' = "no"
  /\ UNCHANGED <<ticket, hung>>

\* The timer is deleted.  (The marks are not used until start_wd sets them:
\* the model forgets them here.)
stop_wd ==
  /\ is_wdstarted /\ is_wdstarted' = FALSE
  /\ ticketlist' = <<>> /\ thstate' = [k \in Ticket |-> eInvalid]
  /\ expected' = eZero /\ desired' = eOne /\ total' = 0 /\ processed' = 0
  /\ elapsed' = FALSE /\ fed' = {} /\ alarm' = "none" /\ skewed' = "no"
  /\ UNCHANGED <<isWDTimeout, thread, ticket, hung>>

\* The constructor of a thread.  Without a running watchdog the ticket is 0.
\* A bound of the model: none after m_totalthreads has wrapped around.
registerThread(t) ==
  /\ thread[t] = "none" /\ total <= MaxThreads /\ hung' = hung \ {t}
  /\ IF is_wdstarted
     THEN LET tk == ticketlist[Len(ticketlist)] IN
          /\ ticketlist # <<>>
          /\ ticketlist' = SubSeq(ticketlist, 1, Len(ticketlist) - 1)
          /\ thread' = [thread EXCEPT ![t] = "registered"]
          /\ ticket' = [ticket EXCEPT ![t] = tk]
          /\ reset_wd_impl(tk, [thstate EXCEPT ![tk] = desired],
                           (total + 1) % UChar, processed + 1, fed \cup {t})
     ELSE /\ thread' = [thread EXCEPT ![t] = "stale"]
          /\ ticket' = [ticket EXCEPT ![t] = 0]
          /\ UNCHANGED <<marks, fed, elapsed, isWDTimeout>>
  /\ UNCHANGED <<is_wdstarted, alarm, skewed>>

\* The destructor of a thread: the count of those that have fed stays.
unregisterThread(t) ==
  /\ thread[t] # "none" /\ thread' = [thread EXCEPT ![t] = "none"]
  /\ hung' = hung \ {t}
  /\ IF is_wdstarted
     THEN /\ skewed' = Skew(t, thstate[ticket[t]] # expected /\ total # 1)
          /\ reset_wd_impl(ticket[t], [thstate EXCEPT ![ticket[t]] = eInvalid],
                           (total + UChar - 1) % UChar, processed, fed \ {t})
          /\ ticketlist' = <<ticket[t]>> \o ticketlist
     ELSE UNCHANGED <<marks, fed, elapsed, isWDTimeout, skewed>>
  /\ UNCHANGED <<is_wdstarted, ticket, alarm>>

\* A thread feeds the watchdog (feedwd).
reset_wd(t) ==
  /\ thread[t] # "none" /\ t \notin hung /\ is_wdstarted
  /\ reset_wd_impl(ticket[t], thstate, total, processed,
                   IF t \in Registered THEN fed \cup {t} ELSE fed)
  /\ skewed' = Skew(t, FALSE)
  /\ UNCHANGED <<is_wdstarted, ticketlist, thread, ticket, hung, alarm>>

-----------------------------------------------------------------------------
(* The environment: a thread hangs; time passes.  A period is taken to be   *)
(* long enough for every thread that feeds at all to feed.                  *)
Hangs(t) ==
  /\ thread[t] = "registered" /\ t \notin hung /\ hung' = hung \cup {t}
  /\ UNCHANGED <<is_wdstarted, marks, isWDTimeout, elapsed, thread, ticket, fed,
                 alarm, skewed>>

PeriodElapses ==
  /\ is_wdstarted /\ ~elapsed /\ Registered \ hung \subseteq fed
  /\ elapsed' = TRUE
  /\ UNCHANGED <<is_wdstarted, marks, isWDTimeout, thread, ticket, hung, fed,
                 alarm, skewed>>

\* The signal: the callback is called when threads are registered.
notify_timeout ==
  /\ is_wdstarted /\ elapsed
  /\ elapsed' = FALSE /\ isWDTimeout' = TRUE
  /\ alarm' = IF total = 0 THEN alarm
              ELSE IF Registered \cap hung # {} THEN "due" ELSE "false"
  /\ UNCHANGED <<is_wdstarted, marks, thread, ticket, hung, fed, skewed>>

-----------------------------------------------------------------------------
Next ==
  \/ start_wd \/ stop_wd \/ PeriodElapses \/ notify_timeout
  \/ \E t \in Thread : registerThread(t) \/ unregisterThread(t) \/ reset_wd(t)
                       \/ Hangs(t)

Spec == Init /\ [][Next]_vars

-----------------------------------------------------------------------------
(* Properties.                                                             *)
TypeOK ==
  /\ is_wdstarted \in BOOLEAN /\ isWDTimeout \in BOOLEAN /\ elapsed \in BOOLEAN
  /\ ticketlist \in Seq(Ticket)
  /\ thstate \in [Ticket -> {eInvalid, eZero, eOne}]
  /\ {expected, desired} = {eZero, eOne}
  /\ total \in 0 .. UChar - 1 /\ processed \in 0 .. UChar - 1
  /\ thread \in [Thread -> {"none", "registered", "stale"}]
  /\ ticket \in [Thread -> Ticket]
  /\ hung \subseteq Thread /\ fed \subseteq Thread
  /\ alarm \in {"none", "due", "false"} /\ skewed \in {"no", "left", "stale"}

\* No two threads of the running watchdog share a ticket, and no ticket in
\* use is given out, whatever the order of coming and leaving.
TicketsAreUnique ==
  \A t \in Registered :
    /\ \A u \in Registered \ {t} : ticket[u] # ticket[t]
    /\ \A i \in 1 .. Len(ticketlist) : ticketlist[i] # ticket[t]

\* While no counted thread has left, the count is the number of threads that
\* carry the desired value, these are the threads that fed in this period,
\* every other thread can still be counted, and each has a ticket of its own.
CountIsExact ==
  is_wdstarted /\ skewed = "no" =>
    /\ total = Cardinality(Registered)
    /\ processed = Cardinality(fed)
    /\ \A t \in Registered : thstate[ticket[t]] = IF t \in fed THEN desired ELSE expected
    /\ TicketsAreUnique

\* While no counted thread has left, only a hung thread causes an alarm.
NoFalseAlarmUnlessSkewed == skewed = "no" => alarm # "false"

\* The period ends, and the timer is set back, only in a step of the last
\* thread that had not fed: a hung thread is not covered up by the feeding,
\* coming or leaving of the others.
PeriodEndsWhenAllFed ==
  [][ (expected' # expected /\ is_wdstarted /\ is_wdstarted' /\ skewed' = "no")
      => \E t \in Thread \ hung' : Registered' \subseteq fed \cup {t} ]_vars

=============================================================================
