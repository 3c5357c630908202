--------------------------- MODULE Watchdog_proofs ---------------------------
(***************************************************************************)
(* The marks of the watchdog are exact, and only a hung thread causes an   *)
(* alarm, as long as no thread that was counted has left - for every       *)
(* number of threads and tickets.                                          *)
(***************************************************************************)
EXTENDS Watchdog, FiniteSetTheorems, SequenceTheorems, TLAPS

\* The threads R with tickets tk carry the marks st, tot of them in all, and
\* count of them have fed: the members of f.
Counted(R, tk, st, e, d, tot, count, f) ==
  /\ tot = Cardinality(R) /\ f \subseteq R /\ count = Cardinality(f)
  /\ \A t \in R : st[tk[t]] = IF t \in f THEN d ELSE e

Exact == is_wdstarted /\ skewed = "no"

CountInv ==
  Exact => /\ Counted(Registered, ticket, thstate, expected, desired, total, processed, fed)
           /\ processed < total \/ total = 0

TicketInv ==
  Exact => /\ TicketsAreUnique
           /\ \A i, j \in 1 .. Len(ticketlist) : i # j => ticketlist[i] # ticketlist[j]

\* A period that has passed has been long enough for all that feed.
ElapsedInv == Exact /\ elapsed => Registered \ hung \subseteq fed

IInv == TypeOK /\ CountInv /\ TicketInv /\ ElapsedInv /\ NoFalseAlarmUnlessSkewed

\* TypeOK, in the parts that one prover each is good at.
Flags == is_wdstarted \in BOOLEAN /\ isWDTimeout \in BOOLEAN /\ elapsed \in BOOLEAN
Places ==
  /\ ticketlist \in Seq(Ticket)
  /\ thstate \in [Ticket -> {eInvalid, eZero, eOne}]
  /\ {expected, desired} = {eZero, eOne}
  /\ total \in 0 .. UChar - 1 /\ processed \in 0 .. UChar - 1
  /\ thread \in [Thread -> {"none", "registered", "stale"}]
  /\ ticket \in [Thread -> Ticket]
  /\ hung \subseteq Thread /\ fed \subseteq Thread
  /\ alarm \in {"none", "due", "false"} /\ skewed \in {"no", "left", "stale"}
-----------------------------------------------------------------------------
LEMMA InitIInv == Init => IInv
<1> SUFFICES ASSUME Init PROVE IInv
  OBVIOUS
<1> USE MaxThreadsAssumption DEF Init
<1>1. Flags BY Zenon DEF Flags
<1>2. Places
  <2>1. Thread # {} => MaxThreads # 0
    <3>1. \A t \in Thread : Cardinality(Thread) # 0 BY FS_EmptySet
    <3> QED BY <3>1, FS_CardinalityType
  <2>2. ticket \in [Thread -> Ticket] BY <2>1 DEF Ticket
  <2>3. ticketlist \in Seq(Ticket) BY EmptySeq
  <2> QED BY <2>2, <2>3 DEF Places, eInvalid, eZero, eOne, UChar
<1>3. TypeOK BY <1>1, <1>2 DEF TypeOK, Flags, Places
<1> QED BY <1>3 DEF IInv, CountInv, TicketInv, ElapsedInv, NoFalseAlarmUnlessSkewed, Exact

\* The operations of a thread on the marks, for their types.
LEMMA ResetType ==
  ASSUME Places, NEW tk \in Ticket, NEW states \in [Ticket -> {eInvalid, eZero, eOne}],
         NEW tot \in 0 .. UChar - 1, NEW proc \in Nat, NEW now \in SUBSET Thread,
         reset_wd_impl(tk, states, tot, proc, now)
  PROVE  /\ thstate' \in [Ticket -> {eInvalid, eZero, eOne}]
         /\ {expected', desired'} = {eZero, eOne}
         /\ total' \in 0 .. UChar - 1 /\ processed' \in 0 .. UChar - 1
         /\ fed' \subseteq Thread
<1>1. desired \in {eZero, eOne} BY DEF Places
<1>2. thstate' \in [Ticket -> {eInvalid, eZero, eOne}]
  BY <1>1 DEF reset_wd_impl
<1>3. {expected', desired'} = {eZero, eOne} BY DEF reset_wd_impl, Places
<1>4. PICK count \in {proc, proc + 1} :
        IF count < tot THEN processed' = count /\ fed' = now
                       ELSE processed' = 0 /\ fed' = {}
  BY DEF reset_wd_impl
<1>5. total' = tot BY DEF reset_wd_impl
<1>6. processed' \in 0 .. UChar - 1 BY <1>4 DEF UChar
<1> QED BY <1>2, <1>3, <1>4, <1>5, <1>6

LEMMA PlaceStep == Places /\ [Next]_vars => Places'
<1> SUFFICES ASSUME Places, [Next]_vars PROVE Places'
  OBVIOUS
<1> USE MaxThreadsAssumption DEF Places
<1>1. CASE start_wd
  <2>1. ticketlist' \in Seq(Ticket)
    <3>1. \A i \in 1 .. MaxThreads : i - 1 \in Ticket BY DEF Ticket
    <3>2. ticketlist' \in [1 .. MaxThreads -> Ticket] BY <1>1, <3>1 DEF start_wd
    <3> QED BY <3>2, SeqDef
  <2> QED BY <1>1, <2>1 DEF start_wd, eInvalid, eZero, eOne, UChar
<1>2. CASE stop_wd
  <2>1. ticketlist' \in Seq(Ticket) BY <1>2, EmptySeq DEF stop_wd
  <2> QED BY <1>2, <2>1 DEF stop_wd, eInvalid, eZero, eOne, UChar
<1>3. CASE \E t \in Thread : registerThread(t)
  <2> PICK t \in Thread : registerThread(t) BY <1>3
  <2>1. CASE is_wdstarted
    <3> DEFINE tk == ticketlist[Len(ticketlist)]
               states == [thstate EXCEPT ![tk] = desired]
    <3>1. tk \in Ticket /\ SubSeq(ticketlist, 1, Len(ticketlist) - 1) \in Seq(Ticket)
      <4>1. ticketlist # <<>> BY <2>1 DEF registerThread
      <4>2. Len(ticketlist) \in Nat \ {0} BY <4>1, EmptySeq, LenProperties
      <4> QED BY <4>2, ElementOfSeq, SubSeqProperties
    <3>2. reset_wd_impl(tk, states, (total + 1) % UChar, processed + 1, fed \cup {t})
      BY <2>1 DEF registerThread
    <3>3. desired \in {eZero, eOne} OBVIOUS
    <3>4. states \in [Ticket -> {eInvalid, eZero, eOne}] BY <3>3
    <3>5. /\ (total + 1) % UChar \in 0 .. UChar - 1 /\ processed + 1 \in Nat
            /\ fed \cup {t} \in SUBSET Thread
      BY DEF UChar
    <3> HIDE DEF tk, states
    <3>6. /\ thstate' \in [Ticket -> {eInvalid, eZero, eOne}]
          /\ {expected', desired'} = {eZero, eOne}
          /\ total' \in 0 .. UChar - 1 /\ processed' \in 0 .. UChar - 1
          /\ fed' \subseteq Thread
      BY <3>1, <3>2, <3>4, <3>5, ResetType
    <3>7. /\ ticketlist' = SubSeq(ticketlist, 1, Len(ticketlist) - 1)
          /\ thread' = [thread EXCEPT ![t] = "registered"]
          /\ ticket' = [ticket EXCEPT ![t] = tk] /\ hung' = hung \ {t}
          /\ UNCHANGED <<alarm, skewed>>
      BY <2>1 DEF registerThread, tk
    <3> QED BY <3>1, <3>6, <3>7
  <2>2. CASE ~is_wdstarted
    <3>1. Ticket # {} => 0 \in Ticket BY DEF Ticket
    <3>2. ticket[t] \in Ticket OBVIOUS
    <3> QED BY <2>2, <3>1, <3>2 DEF registerThread, marks
  <2> QED BY <2>1, <2>2
<1>4. CASE \E t \in Thread : unregisterThread(t)
  <2> PICK t \in Thread : unregisterThread(t) BY <1>4
  <2>1. CASE is_wdstarted
    <3> DEFINE states == [thstate EXCEPT ![ticket[t]] = eInvalid]
    <3>1. ticket[t] \in Ticket OBVIOUS
    <3>2. reset_wd_impl(ticket[t], states, (total + UChar - 1) % UChar, processed, fed \ {t})
      BY <2>1 DEF unregisterThread
    <3>3. states \in [Ticket -> {eInvalid, eZero, eOne}] OBVIOUS
    <3>4. (total + UChar - 1) % UChar \in 0 .. UChar - 1 BY DEF UChar
    <3>5. processed \in Nat /\ fed \ {t} \subseteq Thread BY DEF UChar
    <3> HIDE DEF states
    <3>6. /\ thstate' \in [Ticket -> {eInvalid, eZero, eOne}]
          /\ {expected', desired'} = {eZero, eOne}
          /\ total' \in 0 .. UChar - 1 /\ processed' \in 0 .. UChar - 1
          /\ fed' \subseteq Thread
      BY <3>1, <3>2, <3>3, <3>4, <3>5, ResetType
    <3>7. <<ticket[t]>> \o ticketlist \in Seq(Ticket)
      <4>1. <<ticket[t]>> \in Seq(Ticket) BY <3>1
      <4> QED BY <4>1, ConcatProperties
    <3>8. /\ ticketlist' = <<ticket[t]>> \o ticketlist
          /\ thread' = [thread EXCEPT ![t] = "none"] /\ hung' = hung \ {t}
          /\ skewed' \in {"no", "left", "stale"} /\ UNCHANGED <<ticket, alarm>>
      BY <2>1 DEF unregisterThread, Skew
    <3> QED BY <3>6, <3>7, <3>8
  <2>2. CASE ~is_wdstarted
    BY <2>2 DEF unregisterThread, marks
  <2> QED BY <2>1, <2>2
<1>5. CASE \E t \in Thread : reset_wd(t)
  <2> PICK t \in Thread : reset_wd(t) BY <1>5
  <2> DEFINE now == IF t \in Registered THEN fed \cup {t} ELSE fed
  <2>1. ticket[t] \in Ticket /\ processed \in Nat /\ now \subseteq Thread BY DEF UChar
  <2>2. reset_wd_impl(ticket[t], thstate, total, processed, now) BY DEF reset_wd
  <2> HIDE DEF now
  <2>3. /\ thstate' \in [Ticket -> {eInvalid, eZero, eOne}]
        /\ {expected', desired'} = {eZero, eOne}
        /\ total' \in 0 .. UChar - 1 /\ processed' \in 0 .. UChar - 1
        /\ fed' \subseteq Thread
    BY <2>1, <2>2, ResetType
  <2>4. /\ UNCHANGED <<ticketlist, thread, ticket, hung, alarm>>
        /\ skewed' \in {"no", "left", "stale"}
    BY DEF reset_wd, Skew
  <2> QED BY <2>3, <2>4
<1>6. CASE \E t \in Thread : Hangs(t)
  BY <1>6 DEF Hangs, marks
<1>7. CASE PeriodElapses \/ notify_timeout \/ UNCHANGED vars
  BY <1>7 DEF PeriodElapses, notify_timeout, vars, marks
<1> QED BY <1>1, <1>2, <1>3, <1>4, <1>5, <1>6, <1>7 DEF Next

LEMMA FlagStep == Flags /\ [Next]_vars => Flags'
<1> SUFFICES ASSUME Flags, [Next]_vars PROVE Flags'
  OBVIOUS
<1> USE DEF Flags
<1>1. CASE start_wd \/ stop_wd \/ PeriodElapses \/ notify_timeout
  BY <1>1, Zenon DEF start_wd, stop_wd, PeriodElapses, notify_timeout
<1>2. \A tk, states, tot, proc, now :
        reset_wd_impl(tk, states, tot, proc, now) =>
          isWDTimeout' \in BOOLEAN /\ elapsed' \in BOOLEAN
  BY Zenon DEF reset_wd_impl
<1>3. CASE \E t \in Thread : registerThread(t)
  BY <1>2, <1>3, Zenon DEF registerThread
<1>4. CASE \E t \in Thread : unregisterThread(t)
  BY <1>2, <1>4, Zenon DEF unregisterThread
<1>5. CASE \E t \in Thread : reset_wd(t) \/ Hangs(t)
  BY <1>2, <1>5, Zenon DEF reset_wd, Hangs
<1>6. CASE UNCHANGED vars
  BY <1>6, Zenon DEF vars
<1> QED BY <1>1, <1>3, <1>4, <1>5, <1>6 DEF Next

LEMMA TypeStep == TypeOK /\ [Next]_vars => TypeOK'
BY FlagStep, PlaceStep DEF TypeOK, Flags, Places
-----------------------------------------------------------------------------
\* When the last thread has fed, all have, and the values change their roles.
LEMMA EndOfPeriod ==
  ASSUME NEW R \in SUBSET Thread, NEW tk, NEW st, NEW e, NEW d, NEW tot, NEW count, NEW f,
         Counted(R, tk, st, e, d, tot, count, f), ~(count < tot)
  PROVE  f = R /\ Counted(R, tk, st, d, e, tot, 0, {})
<1>1. IsFiniteSet(R) /\ IsFiniteSet(f)
  BY MaxThreadsAssumption, FS_Subset DEF Counted
<1>2. Cardinality(R) \in Nat /\ Cardinality(f) \in Nat /\ Cardinality(f) <= Cardinality(R)
  BY <1>1, FS_CardinalityType, FS_Subset DEF Counted
<1>3. f = R BY <1>1, <1>2, FS_Subset DEF Counted
<1> QED BY <1>3, FS_EmptySet DEF Counted

\* What a step does to the exactness of the marks, and to the end of a period.
PeriodOK ==
  expected' # expected /\ is_wdstarted /\ is_wdstarted' /\ skewed' = "no"
    => \E t \in Thread \ hung' : Registered' \subseteq fed \cup {t}

\* reset_wd_impl, when the marks are exact as its caller leaves them (count and
\* now are those of the caller, with the thread that it counts).
LEMMA ResetExact ==
  ASSUME NEW R \in SUBSET Thread, NEW tk, NEW st, NEW tot, NEW count \in Nat, NEW now,
         Counted(R, tk, st, expected, desired, tot, count, now),
         IF count < tot
         THEN /\ processed' = count /\ fed' = now
              /\ UNCHANGED <<expected, desired, elapsed, isWDTimeout>>
         ELSE /\ processed' = 0 /\ fed' = {} /\ elapsed' = FALSE /\ isWDTimeout' = FALSE
              /\ expected' = desired /\ desired' = expected
  PROVE  /\ Counted(R, tk, st, expected', desired', tot, processed', fed')
         /\ processed' < tot \/ tot = 0
         /\ elapsed' => elapsed /\ fed' = now
         /\ expected' # expected => now = R
<1>1. CASE count < tot
  BY <1>1
<1>2. CASE ~(count < tot)
  <2>1. now = R /\ Counted(R, tk, st, desired, expected, tot, 0, {})
    BY <1>2, EndOfPeriod
  <2>2. tot \in Nat
    <3>1. IsFiniteSet(R) BY MaxThreadsAssumption, FS_Subset
    <3> QED BY <3>1, FS_CardinalityType DEF Counted
  <2>3. 0 < tot \/ tot = 0 BY <2>2
  <2> QED BY <1>2, <2>1, <2>3
<1> QED BY <1>1, <1>2

LEMMA RegisterExact ==
  ASSUME IInv, NEW t \in Thread, registerThread(t), is_wdstarted, skewed = "no"
  PROVE  CountInv' /\ TicketInv' /\ ElapsedInv' /\ PeriodOK
<1> DEFINE tk == ticketlist[Len(ticketlist)]
           states == [thstate EXCEPT ![tk] = desired]
<1> USE DEF IInv, Exact
<1>1. ticketlist \in Seq(Ticket) /\ ticketlist # <<>> /\ Len(ticketlist) \in Nat \ {0}
  <2>1. ticketlist \in Seq(Ticket) /\ ticketlist # <<>> BY DEF TypeOK, registerThread
  <2> QED BY <2>1, EmptySeq, LenProperties
<1>2. tk \in Ticket BY <1>1, ElementOfSeq
<1>3. \A u \in Registered : ticket[u] # tk /\ ticket[u] \in Ticket
  BY <1>1 DEF TicketInv, TicketsAreUnique, Registered, TypeOK
<1>4. thread[t] = "none" /\ t \notin Registered BY DEF registerThread, Registered
<1>5. Registered' = Registered \cup {t} BY DEF registerThread, Registered, TypeOK
<1>6. ticket' = [ticket EXCEPT ![t] = tk] BY DEF registerThread
<1>7. Registered \in SUBSET Thread /\ fed \subseteq Registered BY DEF Registered, CountInv,
      Counted
<1>8. IsFiniteSet(Registered) /\ IsFiniteSet(fed) BY <1>7, MaxThreadsAssumption, FS_Subset
<1>9. /\ Cardinality(Registered \cup {t}) = total + 1
      /\ Cardinality(fed \cup {t}) = processed + 1 /\ processed \in Nat
  BY <1>4, <1>7, <1>8, FS_AddElement, FS_CardinalityType DEF CountInv, Counted
<1>10. (total + 1) % UChar = total + 1
  <2>1. Registered \cup {t} \subseteq Thread BY <1>7
  <2>2. Cardinality(Registered \cup {t}) <= Cardinality(Thread)
    BY <2>1, MaxThreadsAssumption, FS_Subset
  <2>3. Cardinality(Thread) \in Nat BY MaxThreadsAssumption, FS_CardinalityType
  <2>4. total \in Nat /\ total + 1 <= 255
    BY <2>2, <2>3, <1>9, MaxThreadsAssumption DEF TypeOK
  <2> QED BY <2>4 DEF UChar
<1>11. expected # desired /\ thstate \in [Ticket -> {eInvalid, eZero, eOne}]
       /\ ticket \in [Thread -> Ticket]
  <2>1. {expected, desired} = {eZero, eOne} BY DEF TypeOK
  <2>2. expected # desired
    <3>1. eZero # eOne BY DEF eZero, eOne
    <3>2. eZero \in {expected, desired} /\ eOne \in {expected, desired}
      <4>1. eZero \in {eZero, eOne} /\ eOne \in {eZero, eOne} OBVIOUS
      <4> QED BY <2>1, <4>1, Zenon
    <3> QED BY <3>1, <3>2
  <2>3. thstate \in [Ticket -> {eInvalid, eZero, eOne}] /\ ticket \in [Thread -> Ticket]
    BY DEF TypeOK
  <2> QED BY <2>2, <2>3
<1>12. Counted(Registered \cup {t}, ticket', states, expected, desired,
               total + 1, processed + 1, fed \cup {t})
  <2>1. \A u \in Registered \cup {t} :
          states[ticket'[u]] = IF u \in fed \cup {t} THEN desired ELSE expected
    BY <1>2, <1>3, <1>4, <1>6, <1>7, <1>11 DEF CountInv, Counted
  <2> QED BY <2>1, <1>7, <1>9 DEF Counted
<1>13. reset_wd_impl(tk, states, (total + 1) % UChar, processed + 1, fed \cup {t})
  BY DEF registerThread
<1>14. states[tk] = desired BY <1>2, <1>11
<1> HIDE DEF tk, states
<1>15. /\ thstate' = states /\ total' = total + 1
       /\ IF processed + 1 < total + 1
          THEN /\ processed' = processed + 1 /\ fed' = fed \cup {t}
               /\ UNCHANGED <<expected, desired, elapsed, isWDTimeout>>
          ELSE /\ processed' = 0 /\ fed' = {} /\ elapsed' = FALSE /\ isWDTimeout' = FALSE
               /\ expected' = desired /\ desired' = expected
  BY <1>9, <1>10, <1>11, <1>13, <1>14 DEF reset_wd_impl, Cas
<1>16. /\ Counted(Registered \cup {t}, ticket', states, expected', desired',
                  total + 1, processed', fed')
       /\ processed' < total + 1 \/ total + 1 = 0
       /\ elapsed' => elapsed /\ fed' = fed \cup {t}
       /\ expected' # expected => fed \cup {t} = Registered \cup {t}
  <2>1. Registered \cup {t} \in SUBSET Thread /\ processed + 1 \in Nat BY <1>7, <1>9
  <2> QED BY <2>1, <1>12, <1>15, ResetExact
<1>17. CountInv' BY <1>5, <1>15, <1>16 DEF CountInv
<1>18. hung' = hung \ {t} BY DEF registerThread
<1>19. ElapsedInv' BY <1>5, <1>16, <1>18 DEF ElapsedInv
<1>20. PeriodOK BY <1>5, <1>16, <1>18 DEF PeriodOK
<1>21. TicketInv'
  <2>1. /\ ticketlist' = SubSeq(ticketlist, 1, Len(ticketlist) - 1)
        /\ Len(ticketlist') = Len(ticketlist) - 1
        /\ \A i \in 1 .. Len(ticketlist') : ticketlist'[i] = ticketlist[i]
    <3>1. ticketlist' = SubSeq(ticketlist, 1, Len(ticketlist) - 1) BY DEF registerThread
    <3>2. Len(ticketlist) - 1 \in Nat BY <1>1
    <3>3. Len(SubSeq(ticketlist, 1, Len(ticketlist) - 1)) = Len(ticketlist) - 1
      <4>1. \A i \in 1 .. Len(ticketlist) - 1 : ticketlist[i] \in Ticket
        BY <1>1, <3>2, ElementOfSeq
      <4> DEFINE n == Len(ticketlist) - 1
                 front == SubSeq(ticketlist, 1, n)
      <4>2. n \in Nat BY <3>2
      <4>3. Len(front) = IF 1 <= n THEN n - 1 + 1 ELSE 0
        BY <4>1, <4>2, SubSeqProperties
      <4> HIDE DEF n, front
      <4>4. PICK l : l = Len(front) OBVIOUS
      <4>5. Len(front) = n
        <5>1. l = IF 1 <= n THEN n - 1 + 1 ELSE 0 BY <4>3, <4>4, Zenon
        <5>2. l = n BY <4>2, <5>1
        <5> QED BY <4>4, <5>2
      <4> QED BY <4>5, Zenon DEF n, front
    <3>4. \A i \in 1 .. Len(ticketlist) - 1 :
            SubSeq(ticketlist, 1, Len(ticketlist) - 1)[i] = ticketlist[i]
      BY <1>1, SubSeqProperties
    <3> QED BY <3>1, <3>3, <3>4
  <2>2. \A i, j \in 1 .. Len(ticketlist') : i # j => ticketlist'[i] # ticketlist'[j]
    BY <1>1, <2>1 DEF TicketInv
  <2>3. \A i \in 1 .. Len(ticketlist') : ticketlist'[i] # tk
    BY <1>1, <2>1 DEF TicketInv, tk
  <2>4. ticket'[t] = tk /\ \A u \in Registered : ticket'[u] = ticket[u]
    BY <1>4, <1>6, <1>7, <1>11
  <2>5. TicketsAreUnique'
    <3>1. \A u, v \in Registered : u # v => ticket[u] # ticket[v]
      BY DEF TicketInv, TicketsAreUnique
    <3>2. \A u \in Registered : \A i \in 1 .. Len(ticketlist) : ticketlist[i] # ticket[u]
      BY DEF TicketInv, TicketsAreUnique
    <3>3. \A u \in Registered' : \A v \in Registered' \ {u} : ticket'[v] # ticket'[u]
      BY <1>3, <1>5, <2>4, <3>1
    <3>4. \A i \in 1 .. Len(ticketlist') : i \in 1 .. Len(ticketlist)
      BY <1>1, <2>1
    <3>5. \A u \in Registered' : \A i \in 1 .. Len(ticketlist') : ticketlist'[i] # ticket'[u]
      BY <1>5, <2>1, <2>3, <2>4, <3>2, <3>4
    <3> QED BY <3>3, <3>5 DEF TicketsAreUnique
  <2> QED BY <2>2, <2>5 DEF TicketInv
<1> QED BY <1>17, <1>19, <1>20, <1>21
LEMMA ValuesDiffer == TypeOK => expected # desired /\ {expected, desired} \subseteq {eZero, eOne}
<1> SUFFICES ASSUME TypeOK PROVE expected # desired /\ {expected, desired} \subseteq {eZero,
    eOne}
  OBVIOUS
<1>1. {expected, desired} = {eZero, eOne} BY DEF TypeOK
<1>2. eZero # eOne BY DEF eZero, eOne
<1>3. eZero \in {expected, desired} /\ eOne \in {expected, desired}
  <2>1. eZero \in {eZero, eOne} /\ eOne \in {eZero, eOne} OBVIOUS
  <2> QED BY <1>1, <2>1, Zenon
<1> QED BY <1>1, <1>2, <1>3

LEMMA UnregisterExact ==
  ASSUME IInv, NEW t \in Thread, unregisterThread(t), is_wdstarted, skewed' = "no"
  PROVE  CountInv' /\ TicketInv' /\ ElapsedInv' /\ PeriodOK
<1> DEFINE states == [thstate EXCEPT ![ticket[t]] = eInvalid]
           R == Registered \ {t}
<1> USE DEF IInv, Exact
<1>1. skewed = "no" /\ thread[t] = "registered" /\ (thstate[ticket[t]] = expected \/ total = 1)
  BY DEF unregisterThread, Skew, TypeOK
<1>2. t \in Registered /\ Registered' = R BY <1>1 DEF unregisterThread, Registered, TypeOK
<1>3. Registered \in SUBSET Thread /\ fed \subseteq Registered
  BY <1>1 DEF Registered, CountInv, Counted
<1>4. /\ expected # desired /\ eInvalid # expected /\ eInvalid # desired
      /\ thstate \in [Ticket -> {eInvalid, eZero, eOne}] /\ ticket \in [Thread -> Ticket]
  <2>1. TypeOK OBVIOUS
  <2>2. thstate \in [Ticket -> {eInvalid, eZero, eOne}] /\ ticket \in [Thread -> Ticket]
    BY <2>1 DEF TypeOK
  <2> QED BY <2>1, <2>2, ValuesDiffer DEF eInvalid, eZero, eOne
<1>5. IsFiniteSet(Registered) /\ IsFiniteSet(R)
  BY <1>3, MaxThreadsAssumption, FS_Subset
<1>6. Cardinality(R) = total - 1 /\ total \in Nat \ {0} /\ Cardinality(R) \in Nat
  BY <1>1, <1>2, <1>5, FS_RemoveElement, FS_CardinalityType DEF CountInv, Counted
<1>7. (total + UChar - 1) % UChar = total - 1
  <2>1. total - 1 \in 0 .. 255 BY <1>6 DEF TypeOK, UChar
  <2>2. \A k \in 0 .. 255 : (k + 256) % 256 = k OBVIOUS
  <2>3. total + UChar - 1 = (total - 1) + 256 BY <1>6 DEF UChar
  <2> QED BY <2>1, <2>2, <2>3 DEF UChar
<1>8. processed \in Nat /\ processed = Cardinality(fed)
  <2>1. IsFiniteSet(fed) BY <1>3, <1>5, FS_Subset
  <2> QED BY <1>1, <2>1, FS_CardinalityType DEF CountInv, Counted
<1>9. /\ \A u \in R : states[ticket[u]] = thstate[ticket[u]]
      /\ states[ticket[t]] = eInvalid
  <2>1. \A u \in R : ticket[u] # ticket[t]
    BY <1>1, <1>2 DEF TicketInv, TicketsAreUnique
  <2> QED BY <1>3, <1>4, <2>1
<1>10. reset_wd_impl(ticket[t], states, (total + UChar - 1) % UChar, processed, fed \ {t})
  BY DEF unregisterThread
<1>11. ticket' = ticket /\ hung' = hung \ {t} BY DEF unregisterThread
<1>12. states[ticket[t]] # expected BY <1>4, <1>9
<1>13. TicketInv'
  <2>1. ticketlist' = <<ticket[t]>> \o ticketlist BY DEF unregisterThread
  <2>2. ticketlist \in Seq(Ticket) /\ <<ticket[t]>> \in Seq(Ticket) /\ Len(ticketlist) \in Nat
    <3>1. ticketlist \in Seq(Ticket) BY DEF TypeOK
    <3>2. ticket[t] \in Ticket BY <1>4
    <3> QED BY <3>1, <3>2, LenProperties
  <2>3. /\ Len(ticketlist') = Len(ticketlist) + 1
        /\ \A i \in 1 .. Len(ticketlist') :
             ticketlist'[i] = IF i = 1 THEN ticket[t] ELSE ticketlist[i - 1]
    <3>1. Len(<<ticket[t]>>) = 1 /\ <<ticket[t]>>[1] = ticket[t] OBVIOUS
    <3>2. Len(ticketlist') = 1 + Len(ticketlist) BY <2>1, <2>2, <3>1, ConcatProperties
    <3>3. \A i \in 1 .. 1 + Len(ticketlist) :
            ticketlist'[i] = IF i <= 1 THEN <<ticket[t]>>[i] ELSE ticketlist[i - 1]
      BY <2>1, <2>2, <3>1, ConcatProperties
    <3> QED BY <2>2, <3>1, <3>2, <3>3
  <2>4. \A i \in 1 .. Len(ticketlist) : ticketlist[i] # ticket[t]
    BY <1>1, <1>2 DEF TicketInv, TicketsAreUnique
  <2>5. \A i, j \in 1 .. Len(ticketlist) : i # j => ticketlist[i] # ticketlist[j]
    BY <1>1 DEF TicketInv
  <2>6. \A i, j \in 1 .. Len(ticketlist') : i # j => ticketlist'[i] # ticketlist'[j]
    <3> TAKE i, j \in 1 .. Len(ticketlist')
    <3> HAVE i # j
    <3>1. CASE i = 1
      <4>1. j - 1 \in 1 .. Len(ticketlist) BY <2>2, <2>3, <3>1
      <4> QED BY <2>3, <2>4, <3>1, <4>1
    <3>2. CASE j = 1
      <4>1. i - 1 \in 1 .. Len(ticketlist) BY <2>2, <2>3, <3>2
      <4> QED BY <2>3, <2>4, <3>2, <4>1
    <3>3. CASE i # 1 /\ j # 1
      <4>1. i - 1 \in 1 .. Len(ticketlist) /\ j - 1 \in 1 .. Len(ticketlist) /\ i - 1 # j - 1
        BY <2>2, <2>3, <3>3
      <4> QED BY <2>3, <2>5, <3>3, <4>1
    <3> QED BY <3>1, <3>2, <3>3
  <2>7. \A u \in R : \A i \in 1 .. Len(ticketlist') : ticketlist'[i] # ticket[u]
    <3> TAKE u \in R
    <3> TAKE i \in 1 .. Len(ticketlist')
    <3>1. ticket[u] # ticket[t] /\ \A k \in 1 .. Len(ticketlist) : ticketlist[k] # ticket[u]
      BY <1>1, <1>2 DEF TicketInv, TicketsAreUnique
    <3>2. i = 1 \/ i - 1 \in 1 .. Len(ticketlist) BY <2>2, <2>3
    <3> QED BY <2>3, <3>1, <3>2
  <2>8. \A u \in R : \A v \in R \ {u} : ticket[v] # ticket[u]
    BY <1>1 DEF TicketInv, TicketsAreUnique
  <2> QED BY <1>2, <1>11, <2>6, <2>7, <2>8 DEF TicketInv, TicketsAreUnique
<1> HIDE DEF states, R
<1>14. /\ thstate' = states /\ total' = total - 1
       /\ IF processed < total - 1
          THEN /\ processed' = processed /\ fed' = fed \ {t}
               /\ UNCHANGED <<expected, desired, elapsed, isWDTimeout>>
          ELSE /\ processed' = 0 /\ fed' = {} /\ elapsed' = FALSE /\ isWDTimeout' = FALSE
               /\ expected' = desired /\ desired' = expected
  BY <1>7, <1>8, <1>10, <1>12 DEF reset_wd_impl, Cas
<1>15. CASE t \notin fed
  <2>1. Counted(R, ticket, states, expected, desired, total - 1, processed, fed \ {t})
    BY <1>1, <1>3, <1>6, <1>8, <1>9, <1>15 DEF CountInv, Counted, R
  <2>2. /\ Counted(R, ticket, states, expected', desired', total - 1, processed', fed')
        /\ processed' < total - 1 \/ total - 1 = 0
        /\ elapsed' => elapsed /\ fed' = fed \ {t}
        /\ expected' # expected => fed \ {t} = R
    <3>1. R \in SUBSET Thread BY <1>3 DEF R
    <3> DEFINE m == total - 1
               now == fed \ {t}
    <3>2. Counted(R, ticket, states, expected, desired, m, processed, now) BY <2>1
    <3>3. IF processed < m
          THEN /\ processed' = processed /\ fed' = now
               /\ UNCHANGED <<expected, desired, elapsed, isWDTimeout>>
          ELSE /\ processed' = 0 /\ fed' = {} /\ elapsed' = FALSE /\ isWDTimeout' = FALSE
               /\ expected' = desired /\ desired' = expected
      BY <1>14
    <3> HIDE DEF m, now
    <3>4. /\ Counted(R, ticket, states, expected', desired', m, processed', fed')
          /\ processed' < m \/ m = 0
          /\ elapsed' => elapsed /\ fed' = now
          /\ expected' # expected => now = R
      BY <3>1, <3>2, <3>3, <1>8, ResetExact
    <3> QED BY <3>4 DEF m, now
  <2>3. CountInv' BY <1>2, <1>11, <1>14, <2>2 DEF CountInv
  <2>4. ElapsedInv' BY <1>1, <1>2, <1>11, <2>2 DEF ElapsedInv, R
  <2>5. PeriodOK BY <1>2, <1>11, <2>2 DEF PeriodOK
  <2> QED BY <1>13, <2>3, <2>4, <2>5
\* The only one, which has fed: the count ends with it.
<1>16. CASE t \in fed
  <2>1. total = 1 BY <1>1, <1>2, <1>4, <1>16 DEF CountInv, Counted
  <2>2. R = {} BY <1>5, <1>6, <2>1, FS_EmptySet
  <2>3. processed' = 0 /\ fed' = {} /\ elapsed' = FALSE /\ total' = 0
    BY <1>8, <1>14, <2>1
  <2>4. CountInv' BY <1>2, <2>2, <2>3, FS_EmptySet DEF CountInv, Counted
  <2>5. ElapsedInv' BY <2>3 DEF ElapsedInv
  <2>6. PeriodOK BY <1>2, <1>11, <2>2 DEF PeriodOK
  <2> QED BY <1>13, <2>4, <2>5, <2>6
<1> QED BY <1>15, <1>16

LEMMA FeedExact ==
  ASSUME IInv, NEW t \in Thread, reset_wd(t), skewed' = "no"
  PROVE  CountInv' /\ TicketInv' /\ ElapsedInv' /\ PeriodOK
<1> DEFINE states == IF Cas(ticket[t], thstate)
                     THEN [thstate EXCEPT ![ticket[t]] = desired] ELSE thstate
           count == processed + IF Cas(ticket[t], thstate) THEN 1 ELSE 0
<1> USE DEF IInv, Exact
<1>1. is_wdstarted /\ skewed = "no" /\ t \in Registered
  BY DEF reset_wd, Skew, Registered, TypeOK
<1>2. /\ UNCHANGED <<is_wdstarted, ticketlist, thread, ticket, hung>>
      /\ Registered' = Registered /\ t \notin hung
  BY DEF reset_wd, Registered
<1>3. reset_wd_impl(ticket[t], thstate, total, processed, fed \cup {t})
  BY <1>1 DEF reset_wd
<1>4. Registered \in SUBSET Thread /\ fed \subseteq Registered
  BY <1>1 DEF Registered, CountInv, Counted
<1>5. /\ expected # desired
      /\ thstate \in [Ticket -> {eInvalid, eZero, eOne}] /\ ticket \in [Thread -> Ticket]
  <2>1. TypeOK OBVIOUS
  <2>2. thstate \in [Ticket -> {eInvalid, eZero, eOne}] /\ ticket \in [Thread -> Ticket]
    BY <2>1 DEF TypeOK
  <2> QED BY <2>1, <2>2, ValuesDiffer
<1>6. Cas(ticket[t], thstate) <=> t \notin fed
  BY <1>1, <1>5 DEF CountInv, Counted, Cas
<1>7. IsFiniteSet(fed) BY <1>4, MaxThreadsAssumption, FS_Subset
<1>8. count = Cardinality(fed \cup {t}) /\ count \in Nat
  <2>1. processed = Cardinality(fed) /\ processed \in Nat
    BY <1>1, <1>7, FS_CardinalityType DEF CountInv, Counted
  <2>4. count = IF t \in fed THEN processed ELSE processed + 1
    BY <1>6, <2>1
  <2> HIDE DEF count
  <2>2. CASE t \in fed
    <3>1. fed \cup {t} = fed BY <2>2
    <3> QED BY <2>1, <2>2, <2>4, <3>1
  <2>3. CASE t \notin fed
    <3>1. Cardinality(fed \cup {t}) = Cardinality(fed) + 1
      BY <1>7, <2>3, FS_AddElement
    <3> QED BY <2>1, <2>3, <2>4, <3>1
  <2> QED BY <2>2, <2>3
<1>9. Counted(Registered, ticket, states, expected, desired, total, count, fed \cup {t})
  <2>1. \A u \in Registered : u # t => ticket[u] # ticket[t]
    BY <1>1 DEF TicketInv, TicketsAreUnique
  <2>2. \A u \in Registered :
          states[ticket[u]] = IF u \in fed \cup {t} THEN desired ELSE expected
    <3> TAKE u \in Registered
    <3>1. thstate[ticket[u]] = IF u \in fed THEN desired ELSE expected
      BY <1>1 DEF CountInv, Counted
    <3>2. ticket[u] \in Ticket /\ ticket[t] \in Ticket BY <1>4, <1>5
    <3>3. CASE u = t
      BY <1>5, <1>6, <3>1, <3>2, <3>3
    <3>4. CASE u # t
      BY <1>5, <2>1, <3>1, <3>2, <3>4
    <3> QED BY <3>3, <3>4
  <2>3. total = Cardinality(Registered) BY <1>1 DEF CountInv, Counted
  <2> QED BY <1>1, <1>4, <1>8, <2>2, <2>3 DEF Counted
<1>10. /\ thstate' = states /\ total' = total
       /\ IF count < total
          THEN /\ processed' = count /\ fed' = fed \cup {t}
               /\ UNCHANGED <<expected, desired, elapsed, isWDTimeout>>
          ELSE /\ processed' = 0 /\ fed' = {} /\ elapsed' = FALSE /\ isWDTimeout' = FALSE
               /\ expected' = desired /\ desired' = expected
  BY <1>3 DEF reset_wd_impl
<1> HIDE DEF states, count
<1>11. /\ Counted(Registered, ticket, states, expected', desired', total, processed', fed')
       /\ processed' < total \/ total = 0
       /\ elapsed' => elapsed /\ fed' = fed \cup {t}
       /\ expected' # expected => fed \cup {t} = Registered
  BY <1>4, <1>8, <1>9, <1>10, ResetExact
<1>12. CountInv' BY <1>2, <1>10, <1>11 DEF CountInv
<1>13. TicketInv' BY <1>1, <1>2 DEF TicketInv, TicketsAreUnique
<1>14. ElapsedInv' BY <1>1, <1>2, <1>11 DEF ElapsedInv
<1>15. PeriodOK BY <1>1, <1>2, <1>4, <1>11 DEF PeriodOK
<1> QED BY <1>12, <1>13, <1>14, <1>15

-----------------------------------------------------------------------------
LEMMA ExactStep ==
  ASSUME IInv, [Next]_vars
  PROVE  CountInv' /\ TicketInv' /\ ElapsedInv' /\ PeriodOK
<1> USE DEF Exact
<1>1. CASE start_wd
  <2>1. Registered' = {} BY <1>1 DEF start_wd, Registered
  <2>2. CountInv' BY <1>1, <2>1, FS_EmptySet DEF start_wd, CountInv, Counted
  <2>3. \A i, j \in 1 .. Len(ticketlist') : i # j => ticketlist'[i] # ticketlist'[j]
    BY <1>1, MaxThreadsAssumption DEF start_wd
  <2>4. TicketInv' BY <2>1, <2>3 DEF TicketInv, TicketsAreUnique
  <2>5. ElapsedInv' /\ PeriodOK BY <1>1 DEF start_wd, ElapsedInv, PeriodOK
  <2> QED BY <2>2, <2>4, <2>5
<1>2. CASE stop_wd
  BY <1>2 DEF stop_wd, CountInv, TicketInv, ElapsedInv, PeriodOK
<1>3. CASE \E t \in Thread : registerThread(t)
  <2> PICK t \in Thread : registerThread(t) BY <1>3
  <2>1. CASE is_wdstarted /\ skewed = "no"
    BY <2>1, RegisterExact
  <2>2. CASE ~(is_wdstarted /\ skewed = "no")
    BY <2>2 DEF registerThread, CountInv, TicketInv, ElapsedInv, PeriodOK
  <2> QED BY <2>1, <2>2
<1>4. CASE \E t \in Thread : unregisterThread(t)
  <2> PICK t \in Thread : unregisterThread(t) BY <1>4
  <2>1. CASE is_wdstarted /\ skewed' = "no"
    BY <2>1, UnregisterExact
  <2>2. CASE ~(is_wdstarted /\ skewed' = "no")
    BY <2>2 DEF unregisterThread, CountInv, TicketInv, ElapsedInv, PeriodOK
  <2> QED BY <2>1, <2>2
<1>5. CASE \E t \in Thread : reset_wd(t)
  <2> PICK t \in Thread : reset_wd(t) BY <1>5
  <2>1. CASE skewed' = "no"
    BY <2>1, FeedExact
  <2>2. CASE skewed' # "no"
    BY <2>2 DEF CountInv, TicketInv, ElapsedInv, PeriodOK
  <2> QED BY <2>1, <2>2
<1>6. CASE \E t \in Thread : Hangs(t)
  <2>1. UNCHANGED <<is_wdstarted, marks, ticket, thread, fed, skewed, elapsed>>
    BY <1>6 DEF Hangs
  <2>2. hung \subseteq hung' BY <1>6 DEF Hangs
  <2> QED BY <2>1, <2>2 DEF IInv, CountInv, Counted, TicketInv, TicketsAreUnique, ElapsedInv,
        PeriodOK, Registered, marks
<1>7. CASE PeriodElapses \/ notify_timeout \/ UNCHANGED vars
  <2>1. UNCHANGED <<is_wdstarted, marks, ticket, thread, fed, skewed, hung>>
    BY <1>7 DEF PeriodElapses, notify_timeout, vars
  <2>2. elapsed' => elapsed \/ Registered \ hung \subseteq fed
    BY <1>7 DEF PeriodElapses, notify_timeout, vars
  <2> QED BY <2>1, <2>2 DEF IInv, CountInv, Counted, TicketInv, TicketsAreUnique, ElapsedInv,
        PeriodOK, Registered, marks
<1> QED BY <1>1, <1>2, <1>3, <1>4, <1>5, <1>6, <1>7 DEF Next

\* In an exact watchdog an expired timer finds a thread that has not fed.
LEMMA AlarmStep ==
  ASSUME IInv, [Next]_vars
  PROVE  NoFalseAlarmUnlessSkewed'
<1> USE DEF NoFalseAlarmUnlessSkewed, IInv
<1>1. CASE notify_timeout /\ skewed = "no"
  <2>1. Registered \cap hung = {} => fed = Registered
    BY <1>1 DEF ElapsedInv, CountInv, Counted, Exact, notify_timeout
  <2>2. Registered \cap hung = {} => total = 0
    <3> SUFFICES ASSUME Registered \cap hung = {} PROVE total = 0
      OBVIOUS
    <3>1. processed = total /\ (processed < total \/ total = 0)
      BY <1>1, <2>1 DEF CountInv, Counted, Exact, notify_timeout
    <3> QED BY <3>1 DEF TypeOK
  <2> QED BY <1>1, <2>2 DEF notify_timeout
<1>2. CASE ~(notify_timeout /\ skewed = "no")
  <2>1. CASE start_wd \/ stop_wd \/ PeriodElapses \/ notify_timeout \/ UNCHANGED vars
    BY <1>2, <2>1 DEF start_wd, stop_wd, PeriodElapses, notify_timeout, vars
  <2>2. CASE \E t \in Thread : registerThread(t) \/ unregisterThread(t) \/ reset_wd(t) \/ Hangs(t)
    BY <2>2 DEF registerThread, unregisterThread, reset_wd, Hangs, Skew
  <2> QED BY <2>1, <2>2 DEF Next
<1> QED BY <1>1, <1>2

LEMMA NextIInv == IInv /\ [Next]_vars => IInv' /\ PeriodOK
BY TypeStep, ExactStep, AlarmStep DEF IInv

THEOREM Invariance == Spec => []IInv
BY InitIInv, NextIInv, PTL DEF Spec

-----------------------------------------------------------------------------
\* Types; the tickets are tickets, and no count overflows.
THEOREM Spec_TypeOK == Spec => []TypeOK
BY Invariance, PTL DEF IInv

\* While no counted thread has left, the marks tell who has fed.
THEOREM Spec_CountIsExact == Spec => []CountIsExact
<1>1. IInv => CountIsExact
  BY DEF IInv, CountInv, Counted, TicketInv, Exact, CountIsExact
<1> QED BY <1>1, Invariance, PTL

\* While no counted thread has left, only a hung thread causes an alarm.
THEOREM Spec_NoFalseAlarmUnlessSkewed == Spec => []NoFalseAlarmUnlessSkewed
BY Invariance, PTL DEF IInv

\* A period ends, and the timer is set back, only when all threads have fed.
THEOREM Spec_PeriodEndsWhenAllFed == Spec => PeriodEndsWhenAllFed
<1>1. IInv /\ [Next]_vars =>
        [(expected' # expected /\ is_wdstarted /\ is_wdstarted' /\ skewed' = "no")
          => \E t \in Thread \ hung' : Registered' \subseteq fed \cup {t}]_vars
  BY NextIInv DEF PeriodOK
<1> QED BY <1>1, Invariance, PTL DEF Spec, PeriodEndsWhenAllFed
=============================================================================
