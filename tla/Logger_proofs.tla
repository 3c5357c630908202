----------------------------- MODULE Logger_proofs -----------------------------
(***************************************************************************)
(* The file of the log follows the console and keeps its limit - for any   *)
(* threads and signals, any sizes and any number of starts, wherever the   *)
(* program was killed; and no frame waits for ever on the others' locks.   *)
(***************************************************************************)
EXTENDS Logger, SequenceTheorems, TLAPS

Label == {"idle", "write", "push", "out", "wait", "console", "pass", "file", "leave", "drop"}
Line == [no : Nat, size : Nat, before : Seq(Nat)]

\* TypeOK, and the types of what is logged.
DataInv ==
  /\ message \in [no : Nat, size : Nat]
  /\ consoleQueue \in Seq(Nat) /\ fileQueue \in Seq(Nat)
  /\ console \in Seq(Line) /\ file \in Seq(Line) /\ written \in Nat

\* Inside write_log a frame has m_mtx, and so it has when start_log or stop_log
\* calls it.
Inside == {"console", "pass", "file", "leave"}
MutexInv ==
  \A f \in Frame : /\ pc[f] \in Inside => m_mtx = f
                   /\ m_mtx = f => pc[f] \in Inside \cup {"write"}
                   /\ m_mtx = f /\ pc[f] = "write" => depth = 1

\* m_file_buff_size is never less than what the file has: what is on its way
\* has been counted.
SizeInv ==
  MessagesFit =>
    /\ written < max_logfilesize
    /\ doWriteToFile => /\ written <= m_file_buff_size
                        /\ m_file_buff_size <= max_logfilesize
    /\ \A f \in Frame :
         /\ pc[f] \in {"console", "pass", "file"} => message.size \in TextSizes
         /\ pc[f] = "file" =>
              /\ doWriteToFile
              /\ written + Counted(With(message, fileQueue)) <= m_file_buff_size

\* The file is behind the console by the message that is being passed on, and
\* by nothing otherwise.
Equal == IsSuffix(file, console) /\ (console # <<>> => file # <<>>) /\ fileQueue = consoleQueue
Behind ==
  /\ consoleQueue = <<>>
  /\ \E c \in Seq(Line) :
       console = Append(c, With(message, fileQueue)) /\ IsSuffix(file, c)

FollowInv ==
  is_log_started /\ doWriteToFile =>
    /\ (\A f \in Frame : pc[f] \notin {"pass", "file"}) => Equal
    /\ \A f \in Frame : pc[f] \in {"pass", "file"} => Behind

IInv == TypeOK /\ DataInv /\ MutexInv /\ SizeInv /\ FollowInv

\* TypeOK, in the parts that one prover each is good at.
Flags == is_log_started \in BOOLEAN /\ doWriteToFile \in BOOLEAN
Places ==
  /\ boots \in 0 .. MaxBoots
  /\ m_mtx \in Frame \cup {NoFrame} /\ depth \in 0 .. 2 /\ (depth = 0 <=> m_mtx = NoFrame)
  /\ m_loggermtx \in Frame \cup {NoFrame} /\ slock \in Seq(Frame)
  /\ pc \in [Frame -> Label]
  /\ Len(consoleQueue) <= max_queue_size /\ Len(fileQueue) <= max_queue_size
  /\ m_file_buff_size \in Nat /\ calls \in 0 .. MaxCalls /\ signals \in 0 .. MaxSignals
-----------------------------------------------------------------------------
(* The ends of sequences.                                                  *)

LEMMA SuffixIs ==
  ASSUME NEW S, NEW s \in Seq(S), NEW t \in Seq(S)
  PROVE  IsSuffix(s, t) <=> /\ Len(s) <= Len(t)
                            /\ \A i \in 1 .. Len(s) : s[i] = t[Len(t) - Len(s) + i]
<1> DEFINE rs == Reverse(s)
           rt == Reverse(t)
<1>1. rs \in Seq(S) /\ Len(rs) = Len(s) /\ \A i \in 1 .. Len(s) : rs[i] = s[Len(s) - i + 1]
  BY DEF Reverse
<1>2. rt \in Seq(S) /\ Len(rt) = Len(t) /\ \A i \in 1 .. Len(t) : rt[i] = t[Len(t) - i + 1]
  BY DEF Reverse
<1>3. IsSuffix(s, t) <=> Len(rs) <= Len(rt) /\ SubSeq(rs, 1, Len(rs)) = SubSeq(rt, 1, Len(rs))
  BY DEF IsSuffix, IsPrefix
<1> HIDE DEF rs, rt
<1>4. Len(s) <= Len(t) =>
        (SubSeq(rs, 1, Len(rs)) = SubSeq(rt, 1, Len(rs)) <=> \A i \in 1 .. Len(s) : rs[i] = rt[i])
  BY <1>1, <1>2
<1>5. ASSUME Len(s) <= Len(t), \A i \in 1 .. Len(s) : rs[i] = rt[i], NEW i \in 1 .. Len(s)
      PROVE  s[i] = t[Len(t) - Len(s) + i]
  <2>1. Len(s) - i + 1 \in 1 .. Len(s) BY <1>5
  <2>2. rs[Len(s) - i + 1] = s[i] BY <1>1, <2>1
  <2>3. rt[Len(s) - i + 1] = t[Len(t) - Len(s) + i] BY <1>2, <1>5, <2>1
  <2> QED BY <1>5, <2>1, <2>2, <2>3
<1>6. ASSUME Len(s) <= Len(t), \A i \in 1 .. Len(s) : s[i] = t[Len(t) - Len(s) + i],
             NEW i \in 1 .. Len(s)
      PROVE  rs[i] = rt[i]
  <2>1. Len(s) - i + 1 \in 1 .. Len(s) BY <1>6
  <2>2. rs[i] = s[Len(s) - i + 1] BY <1>1
  <2>3. rt[i] = t[Len(t) - i + 1] BY <1>2, <1>6
  <2> QED BY <1>6, <2>1, <2>2, <2>3
<1> QED BY <1>1, <1>2, <1>3, <1>4, <1>5, <1>6

\* Nothing ends everything, and what ends a sequence goes on to end it when both
\* grow by the same.
LEMMA EmptyIsSuffix ==
  ASSUME NEW S, NEW t \in Seq(S)
  PROVE  IsSuffix(<<>>, t)
<1> DEFINE e == <<>>
<1>1. e \in Seq(S) /\ Len(e) = 0 OBVIOUS
<1> HIDE DEF e
<1>2. Len(e) <= Len(t) /\ \A i \in 1 .. Len(e) : e[i] = t[Len(t) - Len(e) + i]
  BY <1>1
<1>3. IsSuffix(e, t) BY <1>1, <1>2, SuffixIs
<1> QED BY <1>3 DEF e

LEMMA AppendKeepsSuffix ==
  ASSUME NEW S, NEW s \in Seq(S), NEW t \in Seq(S), NEW x \in S, IsSuffix(s, t)
  PROVE  IsSuffix(Append(s, x), Append(t, x))
<1>1. Len(s) <= Len(t) /\ \A i \in 1 .. Len(s) : s[i] = t[Len(t) - Len(s) + i]
  BY SuffixIs
<1>2. /\ Append(s, x) \in Seq(S) /\ Len(Append(s, x)) = Len(s) + 1
      /\ Append(t, x) \in Seq(S) /\ Len(Append(t, x)) = Len(t) + 1
  OBVIOUS
<1>3. ASSUME NEW i \in 1 .. Len(s) + 1
      PROVE  Append(s, x)[i] = Append(t, x)[Len(t) - Len(s) + i]
  <2>1. CASE i = Len(s) + 1 BY <2>1, <1>1
  <2>2. CASE i # Len(s) + 1 BY <2>2, <1>1
  <2> QED BY <2>1, <2>2
<1> DEFINE sx == Append(s, x)
           tx == Append(t, x)
<1>4. /\ sx \in Seq(S) /\ tx \in Seq(S) /\ Len(sx) = Len(s) + 1 /\ Len(tx) = Len(t) + 1
      /\ \A i \in 1 .. Len(s) + 1 : sx[i] = tx[Len(t) - Len(s) + i]
  BY <1>2, <1>3
<1> HIDE DEF sx, tx
<1>5. Len(tx) - Len(sx) = Len(t) - Len(s) /\ Len(sx) <= Len(tx) BY <1>1, <1>4
<1>6. \A i \in 1 .. Len(sx) : sx[i] = tx[Len(tx) - Len(sx) + i] BY <1>4, <1>5
<1>7. IsSuffix(sx, tx) BY <1>4, <1>5, <1>6, SuffixIs
<1> QED BY <1>7 DEF sx, tx

-----------------------------------------------------------------------------
(* The steps, by what they touch of the log.                               *)

LEMMA Frames ==
  /\ NoFrame \notin Frame /\ Own(Main) \in Frame
  /\ \A t \in Thread : Own(t) \in Frame /\ Handler(t) \in Frame
BY LoggerAssumption DEF Frame, NoFrame, Own, Handler

LEMMA Bounds ==
  /\ max_queue_size \in Nat /\ max_logfilesize \in Nat /\ prefix_size \in Nat
  /\ prefix_size >= 2 /\ MaxCalls \in Nat /\ MaxBoots \in Nat /\ MaxSignals \in Nat
  /\ TextSizes \subseteq Nat /\ OldSizes \subseteq Nat
BY LoggerAssumption

\* Nothing of the log changes, and no frame comes to or leaves the inside.
Elsewhere ==
  /\ UNCHANGED <<is_log_started, boots, m_mtx, depth, message, logvars>>
  /\ m_loggermtx' \in Frame \cup {NoFrame} /\ slock' \in Seq(Frame)
  /\ calls' \in 0 .. MaxCalls /\ signals' \in 0 .. MaxSignals
  /\ \/ pc' = pc
     \/ \E f \in Frame, l \in Label \ Inside :
          pc[f] \notin Inside \cup {"write"} /\ pc' = [pc EXCEPT ![f] = l]

LEMMA Ask ==
  ASSUME slock \in Seq(Frame), NEW f \in Frame, slock_reg!Ask(f)
  PROVE  slock' \in Seq(Frame)
BY DEF slock_reg!Ask

LEMMA CallsIsElsewhere ==
  ASSUME TypeOK, NEW t \in Thread,
         Log(t) \/ LogFragment(t) \/ Out(t) \/ RegisterThread(t) \/ Signal(t)
  PROVE  Elsewhere
<1> USE Frames, Bounds
<1>1. slock \in Seq(Frame) /\ calls \in 0 .. MaxCalls /\ signals \in 0 .. MaxSignals
      /\ m_loggermtx \in Frame \cup {NoFrame}
  BY DEF TypeOK
<1>2. ASSUME NEW l \in Label \ Inside, pc[Own(t)] = "idle", pc' = [pc EXCEPT ![Own(t)] = l]
      PROVE  \E f \in Frame, m \in Label \ Inside :
               pc[f] \notin Inside \cup {"write"} /\ pc' = [pc EXCEPT ![f] = m]
  BY <1>2 DEF Inside
<1>3. ASSUME Calls(t), slock' \in Seq(Frame), NEW l \in Label \ Inside, Goto(Own(t), l)
      PROVE  Elsewhere
  <2>1. pc[Own(t)] = "idle" /\ pc' = [pc EXCEPT ![Own(t)] = l] BY <1>3 DEF Calls, Goto
  <2>2. calls' \in 0 .. MaxCalls BY <1>1, <1>3 DEF Calls
  <2> QED BY <1>1, <1>2, <1>3, <2>1, <2>2 DEF Calls, Elsewhere
<1>4. CASE Log(t) \/ LogFragment(t) \/ Out(t)
  <2>1. PICK l \in {"write", "push", "out"} : Goto(Own(t), l) BY <1>4 DEF Log, LogFragment, Out
  <2>2. l \in Label \ Inside BY DEF Label, Inside
  <2>3. Calls(t) /\ slock' \in Seq(Frame) BY <1>1, <1>4 DEF Log, LogFragment, Out
  <2> QED BY <1>3, <2>1, <2>2, <2>3
<1>5. CASE RegisterThread(t)
  <2>1. slock' \in Seq(Frame) BY <1>1, <1>5, Ask DEF RegisterThread
  <2>2. "wait" \in Label \ Inside BY DEF Label, Inside
  <2> QED BY <1>3, <1>5, <2>1, <2>2 DEF RegisterThread
<1>6. CASE Signal(t)
  <2>1. slock' \in Seq(Frame) BY <1>1, <1>6, Ask DEF Signal
  <2>2. "wait" \in Label \ Inside BY DEF Label, Inside
  <2>3. pc[Handler(t)] = "idle" /\ pc' = [pc EXCEPT ![Handler(t)] = "wait"]
    BY <1>6 DEF Signal, Goto
  <2>4. \E f \in Frame, m \in Label \ Inside :
           pc[f] \notin Inside \cup {"write"} /\ pc' = [pc EXCEPT ![f] = m]
    BY <2>2, <2>3 DEF Inside
  <2>5. signals' \in 0 .. MaxSignals BY <1>1, <1>6 DEF Signal
  <2> QED BY <1>1, <1>6, <2>1, <2>4, <2>5 DEF Signal, Elsewhere
<1> QED BY <1>4, <1>5, <1>6

\* Acquire, and the frames that use slock_reg or a macro.
LEMMA OtherLocksAreElsewhere ==
  ASSUME TypeOK, NEW f \in Frame, Acquire(f) \/ Granted(f) \/ Drop(f) \/ PrintOut(f)
  PROVE  Elsewhere
<1> USE Frames
<1>1. slock \in Seq(Frame) /\ calls \in 0 .. MaxCalls /\ signals \in 0 .. MaxSignals
      /\ m_loggermtx \in Frame \cup {NoFrame}
  BY DEF TypeOK
<1>2. CASE Acquire(f) BY <1>1, <1>2 DEF Acquire, Elsewhere
<1>3. CASE Granted(f)
  <2>1. \E l \in {"out", "drop"} : pc' = [pc EXCEPT ![f] = l] BY <1>3 DEF Granted, Goto
  <2> QED BY <1>1, <1>3, <2>1 DEF Granted, lockvars, Elsewhere, Label, Inside
<1>4. CASE Drop(f)
  <2>1. slock # <<>> /\ slock' = Tail(slock) BY <1>4 DEF Drop, slock_reg!Leave
  <2>2. slock' \in Seq(Frame) BY <1>1, <2>1
  <2>3. \E l \in {"out", "idle"} : pc' = [pc EXCEPT ![f] = l] BY <1>4 DEF Drop, Goto
  <2> QED BY <1>1, <1>4, <2>2, <2>3 DEF Drop, Elsewhere, Label, Inside
<1>5. CASE PrintOut(f)
  <2>1. \E l \in {"drop", "idle"} : pc' = [pc EXCEPT ![f] = l] BY <1>5 DEF PrintOut, Goto
  <2> QED BY <1>1, <1>5, <2>1 DEF PrintOut, Prints, Elsewhere, Label, Inside
<1> QED BY <1>2, <1>3, <1>4, <1>5

\* Every step is one of these.
Started == StartLog \/ StopLog \/ Crash
Logs(f) ==
  \/ Push(f) \/ Write(f) \/ PrintConsole(f) \/ PassToFile(f) \/ NoFile(f) \/ PrintFile(f)
  \/ Leave(f)

LEMMA Steps ==
  ASSUME TypeOK, [Next]_vars
  PROVE  Started \/ Elsewhere \/ \E f \in Frame : Logs(f)
<1>1. CASE Started BY <1>1
<1>2. CASE \E t \in Thread : Log(t) \/ LogFragment(t) \/ Out(t) \/ RegisterThread(t) \/ Signal(t)
  BY <1>2, CallsIsElsewhere
<1>3. CASE \E f \in Frame : Continue(f)
  <2> PICK f \in Frame : Continue(f) BY <1>3
  <2>1. CASE Acquire(f) \/ Granted(f) \/ Drop(f) \/ PrintOut(f) BY <2>1, OtherLocksAreElsewhere
  <2> QED BY <2>1 DEF Continue, Logs
<1>4. CASE UNCHANGED vars
  BY <1>4 DEF vars, lockvars, Elsewhere, TypeOK
<1> QED BY <1>1, <1>2, <1>3, <1>4 DEF Next, Started

-----------------------------------------------------------------------------
(* The initial state.                                                      *)

LEMMA InitIInv == Init => IInv
<1> SUFFICES ASSUME Init PROVE IInv
  OBVIOUS
<1> USE Frames, Bounds
<1>1. /\ consoleQueue = <<>> /\ fileQueue = <<>> /\ console = <<>> /\ file = <<>>
      /\ slock = <<>> /\ message = [no |-> 0, size |-> 0] /\ written \in OldSizes
      /\ doWriteToFile = FALSE /\ is_log_started = FALSE /\ m_mtx = NoFrame
      /\ pc = [f \in Frame |-> "idle"]
  BY DEF Init
<1>2. Flags BY <1>1, Zenon DEF Flags
<1>3. Places
  <2>1. /\ boots = 0 /\ depth = 0 /\ m_loggermtx = NoFrame /\ m_file_buff_size = 0
        /\ calls = 0 /\ signals = 0
    BY DEF Init
  <2>2. pc \in [Frame -> Label] BY <1>1 DEF Label
  <2> QED BY <1>1, <2>1, <2>2 DEF Places
<1>4. DataInv BY <1>1 DEF DataInv
<1>5. MutexInv BY <1>1 DEF MutexInv, Inside
<1>6. SizeInv BY <1>1 DEF SizeInv, MessagesFit
<1>7. FollowInv BY <1>1 DEF FollowInv
<1> QED BY <1>2, <1>3, <1>4, <1>5, <1>6, <1>7 DEF IInv, TypeOK, Flags, Places, Label

-----------------------------------------------------------------------------
(* Types and m_mtx.                                                        *)

\* How many times a frame may take m_mtx.
LEMMA Depth ==
  ASSUME TypeOK, MutexInv, NEW f \in Frame
  PROVE  /\ pc[f] = "idle" /\ Lock(f) => m_mtx = NoFrame /\ m_mtx' = f /\ depth' = 1
         /\ pc[f] = "write" /\ Lock(f) => m_mtx' = f /\ depth' \in 1 .. 2
<1>1. depth \in 0 .. 2 /\ (depth = 0 <=> m_mtx = NoFrame) BY DEF TypeOK
<1> QED BY <1>1, Frames DEF Lock, MutexInv, Inside

LEMMA PushedIsBounded ==
  ASSUME NEW q \in Seq(Nat), Len(q) <= max_queue_size, NEW x \in Nat
  PROVE  Pushed(q, x) \in Seq(Nat) /\ Len(Pushed(q, x)) <= max_queue_size
<1>1. Append(q, x) \in Seq(Nat) /\ Len(Append(q, x)) = Len(q) + 1 OBVIOUS
<1> QED BY <1>1, Bounds DEF Pushed

LEMMA CountedIsNat ==
  ASSUME NEW m \in [no : Nat, size : Nat], NEW q \in Seq(Nat)
  PROVE  /\ With(m, q) \in Line
         /\ Counted(With(m, q)) = prefix_size + m.size + Len(q)
         /\ Counted(With(m, q)) \in Nat /\ Printed(With(m, q)) \in Nat
         /\ Printed(With(m, q)) < Counted(With(m, q))
<1>1. With(m, q).size = m.size /\ With(m, q).before = q BY DEF With
<1>2. Counted(With(m, q)) = prefix_size + m.size + Len(q) BY <1>1 DEF Counted
<1>3. Len(q) \in Nat OBVIOUS
<1>4. Counted(With(m, q)) \in Nat /\ Counted(With(m, q)) >= 2 BY <1>2, <1>3, Bounds
<1> QED BY <1>2, <1>4 DEF With, Line, Printed

\* The message on its way to the file, as it is counted.
counted == Counted(With(message, fileQueue))

\* A message that is passed on is counted in the file, or in one that is started
\* again, or the file is lost.
CountedIn(f) ==
  /\ doWriteToFile' /\ m_file_buff_size' = m_file_buff_size + counted
  /\ ~(m_file_buff_size + counted > max_logfilesize)
  /\ UNCHANGED <<file, written, fileQueue>>
  /\ pc' = [pc EXCEPT ![f] = "file"]
Restarted(f) ==
  /\ doWriteToFile' /\ m_file_buff_size' = counted
  /\ file' = <<>> /\ written' = 0 /\ UNCHANGED fileQueue
  /\ pc' = [pc EXCEPT ![f] = "file"]
Lost(f) ==
  /\ ~doWriteToFile' /\ m_file_buff_size' = counted
  /\ UNCHANGED <<file, written>> /\ fileQueue' = <<>>
  /\ pc' = [pc EXCEPT ![f] = "leave"]

LEMMA PassEffect ==
  ASSUME NEW f \in Frame, PassToFile(f)
  PROVE  /\ pc[f] = "pass" /\ doWriteToFile
         /\ CountedIn(f) \/ Restarted(f) \/ Lost(f)
<1> DEFINE restart == m_file_buff_size + counted > max_logfilesize
<1>1. /\ doWriteToFile' \in IF restart THEN BOOLEAN ELSE {TRUE}
      /\ m_file_buff_size' = IF restart THEN counted ELSE m_file_buff_size + counted
      /\ IF restart /\ doWriteToFile'
         THEN file' = <<>> /\ written' = 0 ELSE UNCHANGED <<file, written>>
      /\ fileQueue' = IF doWriteToFile' THEN fileQueue ELSE <<>>
      /\ pc' = [pc EXCEPT ![f] = IF doWriteToFile' THEN "file" ELSE "leave"]
      /\ pc[f] = "pass" /\ doWriteToFile
  BY DEF PassToFile, Goto, counted
<1>2. CASE doWriteToFile' /\ restart BY <1>1, <1>2 DEF Restarted
<1>3. CASE doWriteToFile' /\ ~restart BY <1>1, <1>3 DEF CountedIn
<1>4. CASE ~doWriteToFile'
  <2>1. restart BY <1>1, <1>4, Zenon
  <2> QED BY <1>1, <1>4, <2>1 DEF Lost
<1> QED BY <1>1, <1>2, <1>3, <1>4

LEMMA FlagStep ==
  ASSUME Flags, [Next]_vars
  PROVE  Flags'
<1> USE DEF Flags
<1>1. CASE StartLog BY <1>1, Zenon DEF StartLog
<1>2. CASE StopLog BY <1>2, Zenon DEF StopLog, logvars
<1>3. CASE Crash BY <1>3, Zenon DEF Crash, logvars
<1>4. CASE \E t \in Thread : Log(t) \/ LogFragment(t) \/ Out(t) \/ RegisterThread(t) \/ Signal(t)
  BY <1>4, Zenon DEF Log, LogFragment, Out, RegisterThread, Signal, Calls, logvars
<1>5. CASE \E f \in Frame : Continue(f)
  <2> PICK f \in Frame : Continue(f) BY <1>5, Zenon
  <2>1. CASE Push(f) BY <2>1, Zenon DEF Push
  <2>2. CASE Write(f) BY <2>2, Zenon DEF Write, logvars
  <2>3. CASE Acquire(f) BY <2>3, Zenon DEF Acquire, logvars
  <2>4. CASE PrintConsole(f) BY <2>4, Zenon DEF PrintConsole, Prints
  <2>5. CASE PassToFile(f)
    <3>1. \/ doWriteToFile' \in BOOLEAN
          \/ doWriteToFile' \in {TRUE}
      BY <2>5, Zenon DEF PassToFile
    <3> QED BY <2>5, <3>1, Zenon DEF PassToFile
  <2>6. CASE NoFile(f) BY <2>6, Zenon DEF NoFile, logvars
  <2>7. CASE PrintFile(f) BY <2>7, Zenon DEF PrintFile, Prints
  <2>8. CASE Leave(f) BY <2>8, Zenon DEF Leave, logvars
  <2>9. CASE Granted(f) BY <2>9, Zenon DEF Granted, logvars
  <2>10. CASE Drop(f) BY <2>10, Zenon DEF Drop, logvars
  <2>11. CASE PrintOut(f) BY <2>11, Zenon DEF PrintOut, Prints, logvars
  <2> QED BY <2>1, <2>2, <2>3, <2>4, <2>5, <2>6, <2>7, <2>8, <2>9, <2>10, <2>11, Zenon
    DEF Continue
<1>6. CASE UNCHANGED vars BY <1>6, Zenon DEF vars, logvars
<1> QED BY <1>1, <1>2, <1>3, <1>4, <1>5, <1>6, Zenon DEF Next

LEMMA PlaceStep ==
  ASSUME TypeOK, DataInv, MutexInv, [Next]_vars
  PROVE  Places'
<1> USE Frames, Bounds DEF Label
<1>0. Places BY DEF TypeOK, Places, Label
<1>1. CASE Elsewhere
  <2>1. pc' \in [Frame -> Label] BY <1>0, <1>1 DEF Elsewhere, Places
  <2> QED BY <1>0, <1>1, <2>1 DEF Elsewhere, Places, logvars
<1>2. CASE StartLog
  <2>1. m_mtx = NoFrame /\ m_mtx' = Own(Main) /\ depth' = 1 BY <1>2, Depth DEF StartLog
  <2>2. m_file_buff_size' \in Nat BY <1>2 DEF StartLog, DataInv
  <2>3. consoleQueue' = <<>> /\ fileQueue' = <<>> BY <1>2 DEF StartLog
  <2> QED BY <1>0, <1>2, <2>1, <2>2, <2>3 DEF StartLog, Goto, Places
<1>3. CASE StopLog
  <2>1. m_mtx = NoFrame /\ m_mtx' = Own(Main) /\ depth' = 1 BY <1>3, Depth DEF StopLog
  <2>2. pc' \in [Frame -> Label] BY <1>0, <1>3 DEF StopLog, Goto, Places
  <2> QED BY <1>0, <1>3, <2>1, <2>2 DEF StopLog, Places, logvars
<1>4. CASE Crash
  <2>1. slock' \in Seq(Frame) BY <1>4 DEF Crash
  <2>2. pc' \in [Frame -> Label] BY <1>4 DEF Crash, Label
  <2> QED BY <1>0, <1>4, <2>1, <2>2 DEF Crash, Places, logvars
<1>5. CASE \E f \in Frame : Logs(f)
  <2> PICK f \in Frame : Logs(f) BY <1>5
  <2>1. CASE Push(f)
    <3>1. calls \in Nat BY <1>0 DEF Places
    <3>2. Len(consoleQueue') <= max_queue_size /\ Len(fileQueue') <= max_queue_size
      BY <1>0, <2>1, <3>1, PushedIsBounded DEF Push, Places, DataInv
    <3> QED BY <1>0, <2>1, <3>2 DEF Push, Goto, Places, lockvars
  <2>2. CASE Write(f)
    <3>1. m_mtx' = f /\ depth' \in 1 .. 2 BY <2>2, Depth DEF Write
    <3> QED BY <1>0, <2>2, <3>1 DEF Write, Goto, Places, logvars
  <2>3. CASE PrintConsole(f) BY <1>0, <2>3 DEF PrintConsole, Prints, Goto, Places
  <2>4. CASE PassToFile(f)
    <3>1. m_file_buff_size \in Nat /\ Len(fileQueue) <= max_queue_size BY <1>0 DEF Places
    <3>2. m_file_buff_size' \in Nat /\ Len(fileQueue') <= max_queue_size
      <4>1. counted \in Nat BY CountedIsNat DEF DataInv, counted
      <4>2. CountedIn(f) \/ Restarted(f) \/ Lost(f) BY <2>4, PassEffect
      <4> QED BY <3>1, <4>1, <4>2 DEF CountedIn, Restarted, Lost
    <3>3. \E l \in {"file", "leave"} : pc' = [pc EXCEPT ![f] = l] BY <2>4 DEF PassToFile, Goto
    <3> QED BY <1>0, <2>4, <3>1, <3>2, <3>3 DEF PassToFile, Places, lockvars
  <2>5. CASE NoFile(f)
    <3>1. pc' = [pc EXCEPT ![f] = "leave"] /\ UNCHANGED lockvars /\ UNCHANGED logvars
      BY <2>5 DEF NoFile, Goto
    <3> QED BY <1>0, <2>5, <3>1 DEF NoFile, Places, lockvars, logvars
  <2>6. CASE PrintFile(f) BY <1>0, <2>6 DEF PrintFile, Prints, Goto, Places
  <2>7. CASE Leave(f)
    <3>1. m_mtx = f /\ depth \in 1 .. 2 BY <1>0, <2>7 DEF Leave, MutexInv, Places, Inside
    <3>2. \E l \in {"leave", "idle"} : pc' = [pc EXCEPT ![f] = l] BY <2>7 DEF Leave, Goto
    <3> QED BY <1>0, <2>7, <3>1, <3>2 DEF Leave, Unlock, Places, logvars
  <2> QED BY <2>1, <2>2, <2>3, <2>4, <2>5, <2>6, <2>7 DEF Logs
<1> QED BY <1>1, <1>2, <1>3, <1>4, <1>5, Steps DEF Started

LEMMA TypeStep ==
  ASSUME TypeOK, DataInv, MutexInv, [Next]_vars
  PROVE  TypeOK'
<1>1. Flags BY Zenon DEF TypeOK, Flags
<1> QED BY <1>1, FlagStep, PlaceStep, Zenon DEF TypeOK, Flags, Places, Label

LEMMA DataStep ==
  ASSUME TypeOK, DataInv, [Next]_vars
  PROVE  DataInv'
<1> USE Frames, Bounds
<1>1. CASE Elsewhere BY <1>1 DEF Elsewhere, DataInv, logvars
<1>2. CASE StartLog
  <2>1. /\ consoleQueue' = <<>> /\ fileQueue' = <<>> /\ console' = <<>> /\ file' = <<>>
        /\ message' = [no |-> 0, size |-> 0] /\ written' = written
    BY <1>2 DEF StartLog
  <2> QED BY <2>1 DEF DataInv
<1>3. CASE StopLog \/ Crash BY <1>3 DEF StopLog, Crash, DataInv, logvars
<1>4. CASE \E f \in Frame : Logs(f)
  <2> PICK f \in Frame : Logs(f) BY <1>4
  <2>0. With(message, consoleQueue) \in Line /\ With(message, fileQueue) \in Line
    BY CountedIsNat DEF DataInv
  <2>1. CASE Push(f)
    <3>1. calls \in Nat BY DEF TypeOK
    <3>2. consoleQueue' \in Seq(Nat) /\ fileQueue' \in Seq(Nat)
      BY <2>1, <3>1, PushedIsBounded DEF Push, TypeOK, DataInv
    <3> QED BY <2>1, <3>2 DEF Push, DataInv
  <2>2. CASE Write(f)
    <3>1. PICK n \in TextSizes : message' = [no |-> message.no + 1, size |-> n]
      BY <2>2 DEF Write
    <3> QED BY <2>2, <3>1 DEF Write, DataInv, logvars
  <2>3. CASE PrintConsole(f)
    <3>1. console' \in Seq(Line) /\ consoleQueue' \in Seq(Nat)
      BY <2>0, <2>3 DEF PrintConsole, DataInv
    <3> QED BY <2>3, <3>1 DEF PrintConsole, DataInv
  <2>4. CASE PassToFile(f)
    <3>1. file' \in Seq(Line) /\ written' \in Nat /\ fileQueue' \in Seq(Nat)
      <4>1. CountedIn(f) \/ Restarted(f) \/ Lost(f) BY <2>4, PassEffect
      <4>2. file \in Seq(Line) /\ written \in Nat /\ fileQueue \in Seq(Nat) BY DEF DataInv
      <4>3. \/ UNCHANGED file
            \/ file' = <<>>
        BY <4>1 DEF CountedIn, Restarted, Lost
      <4>4. UNCHANGED written \/ written' = 0 BY <4>1 DEF CountedIn, Restarted, Lost
      <4>5. UNCHANGED fileQueue \/ fileQueue' = <<>> BY <4>1 DEF CountedIn, Restarted, Lost
      <4>6. <<>> \in Seq(Line) /\ <<>> \in Seq(Nat) BY EmptySeq
      <4>7. file' \in Seq(Line) BY <4>2, <4>3, <4>6, Zenon
      <4>8. fileQueue' \in Seq(Nat) BY <4>2, <4>5, <4>6, Zenon
      <4> QED BY <4>2, <4>4, <4>7, <4>8
    <3> QED BY <2>4, <3>1 DEF PassToFile, DataInv
  <2>5. CASE NoFile(f) BY <2>5 DEF NoFile, DataInv, logvars
  <2>6. CASE PrintFile(f)
    <3>1. file' \in Seq(Line) /\ fileQueue' \in Seq(Nat) BY <2>0, <2>6 DEF PrintFile, DataInv
    <3>2. written' = written + Printed(With(message, fileQueue)) BY <2>6 DEF PrintFile
    <3>3. written \in Nat /\ Printed(With(message, fileQueue)) \in Nat
      BY CountedIsNat DEF DataInv
    <3>4. written' \in Nat BY <3>2, <3>3
    <3> QED BY <2>6, <3>1, <3>4 DEF PrintFile, DataInv
  <2>7. CASE Leave(f) BY <2>7 DEF Leave, DataInv, logvars
  <2> QED BY <2>1, <2>2, <2>3, <2>4, <2>5, <2>6, <2>7 DEF Logs
<1> QED BY <1>1, <1>2, <1>3, <1>4, Steps DEF Started

\* m_mtx is recursive: a frame is inside as long as it has it.
LEMMA MutexStep ==
  ASSUME TypeOK, MutexInv, [Next]_vars
  PROVE  MutexInv'
<1> USE Frames DEF Inside
<1>0. pc \in [Frame -> Label] BY DEF TypeOK, Label
<1>1. CASE Elsewhere BY <1>0, <1>1 DEF Elsewhere, MutexInv, Label
<1>2. CASE StartLog
  <2>1. m_mtx = NoFrame /\ m_mtx' = Own(Main) /\ depth' = 1 BY <1>2, Depth DEF StartLog
  <2> QED BY <1>0, <1>2, <2>1 DEF StartLog, Goto, MutexInv
<1>3. CASE StopLog
  <2>1. m_mtx = NoFrame /\ m_mtx' = Own(Main) /\ depth' = 1 BY <1>3, Depth DEF StopLog
  <2> QED BY <1>0, <1>3, <2>1 DEF StopLog, Goto, MutexInv
<1>4. CASE Crash BY <1>4 DEF Crash, MutexInv
<1>5. CASE \E f \in Frame : Logs(f)
  <2> PICK f \in Frame : Logs(f) BY <1>5
  <2>1. CASE Push(f) BY <1>0, <2>1 DEF Push, Goto, MutexInv, lockvars
  <2>2. CASE Write(f)
    <3>1. /\ pc[f] = "write" /\ m_mtx \in {f, NoFrame} /\ m_mtx' = f
          /\ pc' = [pc EXCEPT ![f] = "console"]
      BY <2>2 DEF Write, Lock, Goto
    <3> QED BY <1>0, <3>1 DEF MutexInv
  <2>3. CASE PrintConsole(f) BY <1>0, <2>3 DEF PrintConsole, Prints, Goto, MutexInv
  <2>4. CASE PassToFile(f)
    <3>1. \E l \in {"file", "leave"} : pc' = [pc EXCEPT ![f] = l] BY <2>4 DEF PassToFile, Goto
    <3> QED BY <1>0, <2>4, <3>1 DEF PassToFile, MutexInv, lockvars
  <2>5. CASE NoFile(f)
    <3>1. pc[f] = "pass" /\ pc' = [pc EXCEPT ![f] = "leave"] /\ UNCHANGED lockvars
      BY <2>5 DEF NoFile, Goto
    <3> QED BY <1>0, <3>1 DEF MutexInv, lockvars
  <2>6. CASE PrintFile(f) BY <1>0, <2>6 DEF PrintFile, Prints, Goto, MutexInv
  <2>7. CASE Leave(f)
    <3>1. m_mtx = f /\ depth \in 1 .. 2 BY <2>7 DEF Leave, MutexInv, TypeOK
    <3> QED BY <1>0, <2>7, <3>1 DEF Leave, Unlock, Goto, MutexInv
  <2> QED BY <2>1, <2>2, <2>3, <2>4, <2>5, <2>6, <2>7 DEF Logs
<1> QED BY <1>1, <1>2, <1>3, <1>4, <1>5, Steps DEF Started

-----------------------------------------------------------------------------
(* The size of the file.                                                   *)

\* A message that fits is counted within the limit, with all its fragments.
LEMMA MessageFits ==
  ASSUME TypeOK, DataInv, MessagesFit, message.size \in TextSizes
  PROVE  counted \in Nat /\ counted <= max_logfilesize
<1>1. counted = prefix_size + message.size + Len(fileQueue) /\ counted \in Nat
  BY CountedIsNat DEF DataInv, counted
<1>2. prefix_size + message.size + max_queue_size <= max_logfilesize BY DEF MessagesFit
<1>3. Len(fileQueue) <= max_queue_size /\ Len(fileQueue) \in Nat BY DEF TypeOK, DataInv
<1>4. message.size \in Nat BY DEF DataInv
<1> QED BY <1>1, <1>2, <1>3, <1>4, Bounds

LEMMA SizeStep ==
  ASSUME TypeOK, DataInv, MutexInv, SizeInv, [Next]_vars
  PROVE  SizeInv'
<1> SUFFICES ASSUME MessagesFit PROVE SizeInv'
  BY DEF SizeInv, MessagesFit
<1> USE Frames, Bounds
<1>0. pc \in [Frame -> Label] BY DEF TypeOK, Label
<1>1. /\ written < max_logfilesize /\ written \in Nat /\ m_file_buff_size \in Nat
      /\ doWriteToFile => /\ written <= m_file_buff_size
                          /\ m_file_buff_size <= max_logfilesize
      /\ \A f \in Frame :
           /\ pc[f] \in {"console", "pass", "file"} => message.size \in TextSizes
           /\ pc[f] = "file" => doWriteToFile /\ written + counted <= m_file_buff_size
  BY DEF SizeInv, TypeOK, DataInv, counted
<1>2. SUFFICES
        /\ written' < max_logfilesize
        /\ doWriteToFile' => /\ written' <= m_file_buff_size'
                             /\ m_file_buff_size' <= max_logfilesize
        /\ \A f \in Frame :
             /\ pc'[f] \in {"console", "pass", "file"} => message'.size \in TextSizes
             /\ pc'[f] = "file" => doWriteToFile' /\ written' + counted' <= m_file_buff_size'
  BY DEF SizeInv, counted
<1>3. CASE Elsewhere
  <2>1. counted' = counted BY <1>3 DEF Elsewhere, counted, logvars
  <2>2. UNCHANGED <<message, doWriteToFile, m_file_buff_size, written>>
    BY <1>3 DEF Elsewhere, logvars
  <2>3. \A f \in Frame : pc'[f] \in Inside => pc'[f] = pc[f]
    BY <1>0, <1>3 DEF Elsewhere
  <2> QED BY <1>1, <2>1, <2>2, <2>3 DEF Inside
<1>4. CASE StartLog
  <2>1. m_mtx = NoFrame BY <1>4, Depth DEF StartLog
  <2>2. \A f \in Frame : pc'[f] \notin {"console", "pass", "file"}
    BY <1>0, <1>4, <2>1 DEF StartLog, Goto, MutexInv, Inside
  <2>3. written' = written BY <1>4 DEF StartLog
  <2>4. doWriteToFile' => m_file_buff_size' = written BY <1>1, <1>4 DEF StartLog
  <2> QED BY <1>1, <2>2, <2>3, <2>4
<1>5. CASE StopLog
  <2>1. \A f \in Frame : pc'[f] \notin {"console", "pass", "file"}
    BY <1>0, <1>5 DEF StopLog, Goto
  <2>2. UNCHANGED <<doWriteToFile, m_file_buff_size, written>> BY <1>5 DEF StopLog, logvars
  <2> QED BY <1>1, <2>1, <2>2
<1>6. CASE Crash
  <2>1. \A f \in Frame : pc'[f] \notin {"console", "pass", "file"} BY <1>6 DEF Crash
  <2>2. UNCHANGED <<doWriteToFile, m_file_buff_size, written>> BY <1>6 DEF Crash, logvars
  <2> QED BY <1>1, <2>1, <2>2
<1>7. CASE \E f \in Frame : Logs(f)
  <2> PICK f \in Frame : Logs(f) BY <1>7
  \* The other frames are outside.
  <2>0. ASSUME pc[f] \in Inside \/ m_mtx \in {f, NoFrame}, NEW g \in Frame, g # f
        PROVE  pc[g] \notin Inside
    BY <2>0 DEF MutexInv
  <2>1. CASE Push(f)
    <3>1. m_mtx = NoFrame /\ pc' = [pc EXCEPT ![f] = "idle"] BY <2>1 DEF Push, Goto
    <3>2. \A g \in Frame : pc'[g] \notin Inside BY <1>0, <2>0, <3>1 DEF Inside
    <3>3. UNCHANGED <<doWriteToFile, m_file_buff_size, written>> BY <2>1 DEF Push
    <3> QED BY <1>1, <3>2, <3>3 DEF Inside
  <2>2. CASE Write(f)
    <3>1. m_mtx \in {f, NoFrame} /\ pc' = [pc EXCEPT ![f] = "console"]
      BY <2>2 DEF Write, Lock, Goto
    <3>2. \A g \in Frame : pc'[g] \notin {"pass", "file"} BY <1>0, <2>0, <3>1 DEF Inside
    <3>3. message'.size \in TextSizes BY <2>2 DEF Write
    <3>4. UNCHANGED <<doWriteToFile, m_file_buff_size, written>> BY <2>2 DEF Write, logvars
    <3> QED BY <1>1, <3>2, <3>3, <3>4
  <2>3. CASE PrintConsole(f)
    <3>1. pc[f] = "console" /\ pc' = [pc EXCEPT ![f] = "pass"]
      BY <2>3 DEF PrintConsole, Prints, Goto
    <3>2. UNCHANGED <<message, doWriteToFile, m_file_buff_size, written>>
      BY <2>3 DEF PrintConsole
    <3>3. \A g \in Frame : g # f => pc'[g] \notin Inside BY <1>0, <2>0, <3>1 DEF Inside
    <3>4. message.size \in TextSizes BY <1>1, <3>1
    <3> QED BY <1>0, <1>1, <3>1, <3>2, <3>3, <3>4 DEF Inside
  <2>4. CASE PassToFile(f)
    <3>1. pc[f] = "pass" /\ doWriteToFile /\ (CountedIn(f) \/ Restarted(f) \/ Lost(f))
      BY <2>4, PassEffect
    <3>2. \A g \in Frame : g # f => pc[g] \notin Inside BY <2>0, <3>1 DEF Inside
    <3>3. message' = message BY <2>4 DEF PassToFile
    <3>4. counted \in Nat /\ counted <= max_logfilesize BY <1>1, <3>1, MessageFits
    <3>5. message.size \in TextSizes BY <1>1, <3>1
    <3>6. CASE CountedIn(f)
      <4>1. counted' = counted BY <3>3, <3>6 DEF CountedIn, counted
      <4>2. \A g \in Frame : g # f => pc'[g] \notin Inside BY <1>0, <3>2, <3>6 DEF CountedIn
      <4>3. /\ doWriteToFile' /\ written' = written
            /\ m_file_buff_size' = m_file_buff_size + counted
            /\ m_file_buff_size' <= max_logfilesize
        BY <1>1, <3>4, <3>6 DEF CountedIn
      <4>4. /\ written' + counted' <= m_file_buff_size' /\ written' <= m_file_buff_size'
            /\ written' < max_logfilesize
        BY <1>1, <3>1, <3>4, <4>1, <4>3
      <4> QED BY <3>3, <3>5, <4>2, <4>3, <4>4 DEF Inside
    <3>7. CASE Restarted(f)
      <4>1. counted' = counted BY <3>3, <3>7 DEF Restarted, counted
      <4>2. \A g \in Frame : g # f => pc'[g] \notin Inside BY <1>0, <3>2, <3>7 DEF Restarted
      <4>3. doWriteToFile' /\ written' = 0 /\ m_file_buff_size' = counted BY <3>7 DEF Restarted
      <4>4. /\ written' + counted' <= m_file_buff_size' /\ written' <= m_file_buff_size'
            /\ m_file_buff_size' <= max_logfilesize /\ written' < max_logfilesize
        BY <1>1, <3>4, <4>1, <4>3
      <4> QED BY <3>3, <3>5, <4>2, <4>3, <4>4 DEF Inside
    <3>8. CASE Lost(f)
      <4>1. \A g \in Frame : pc'[g] \notin {"console", "pass", "file"}
        BY <1>0, <3>2, <3>8 DEF Lost, Inside
      <4>2. ~doWriteToFile' /\ written' = written BY <3>8 DEF Lost
      <4> QED BY <1>1, <4>1, <4>2
    <3> QED BY <3>1, <3>6, <3>7, <3>8
  <2>5. CASE NoFile(f)
    <3>1. pc[f] = "pass" /\ pc' = [pc EXCEPT ![f] = "leave"] BY <2>5 DEF NoFile, Goto
    <3>2. \A g \in Frame : pc'[g] \notin {"console", "pass", "file"}
      BY <1>0, <2>0, <3>1 DEF Inside
    <3>3. UNCHANGED <<doWriteToFile, m_file_buff_size, written>> BY <2>5 DEF NoFile, logvars
    <3> QED BY <1>1, <3>2, <3>3
  <2>6. CASE PrintFile(f)
    <3>1. pc[f] = "file" /\ pc' = [pc EXCEPT ![f] = "leave"]
      BY <2>6 DEF PrintFile, Prints, Goto
    <3>2. \A g \in Frame : pc'[g] \notin {"console", "pass", "file"}
      BY <1>0, <2>0, <3>1 DEF Inside
    <3>3. UNCHANGED <<doWriteToFile, m_file_buff_size>> BY <2>6 DEF PrintFile
    <3>4. written' = written + Printed(With(message, fileQueue)) BY <2>6 DEF PrintFile
    <3>5. doWriteToFile /\ written + counted <= m_file_buff_size BY <1>1, <3>1
    <3>6. /\ Printed(With(message, fileQueue)) \in Nat /\ counted \in Nat
          /\ Printed(With(message, fileQueue)) < counted
      BY CountedIsNat DEF DataInv, counted
    <3>7. written' < m_file_buff_size /\ m_file_buff_size <= max_logfilesize
      BY <1>1, <3>4, <3>5, <3>6
    <3>8. written' \in Nat BY <1>1, <3>4, <3>6
    <3> QED BY <1>1, <3>2, <3>3, <3>5, <3>7, <3>8
  <2>7. CASE Leave(f)
    <3>1. pc[f] = "leave" /\ \E l \in {"leave", "idle"} : pc' = [pc EXCEPT ![f] = l]
      BY <2>7 DEF Leave, Goto
    <3>2. \A g \in Frame : pc'[g] \notin {"console", "pass", "file"}
      BY <1>0, <2>0, <3>1 DEF Inside
    <3>3. UNCHANGED <<doWriteToFile, m_file_buff_size, written>> BY <2>7 DEF Leave, logvars
    <3> QED BY <1>1, <3>2, <3>3
  <2> QED BY <2>1, <2>2, <2>3, <2>4, <2>5, <2>6, <2>7 DEF Logs
<1> QED BY <1>3, <1>4, <1>5, <1>6, <1>7, Steps DEF Started

-----------------------------------------------------------------------------
(* The file and the console.                                               *)

\* Equal and Behind say nothing of the locks and the threads.
LEMMA SameText ==
  ASSUME UNCHANGED <<message, consoleQueue, fileQueue, console, file>>
  PROVE  (Equal => Equal') /\ (Behind => Behind')
BY DEF Equal, Behind, With

\* What the console has printed is the next line of the file.
LEMMA FileCatchesUp ==
  ASSUME DataInv, Behind,
         file' = Append(file, With(message, fileQueue)), fileQueue' = <<>>,
         UNCHANGED <<console, consoleQueue>>
  PROVE  Equal'
<1> DEFINE line == With(message, fileQueue)
<1>1. PICK c \in Seq(Line) : console = Append(c, line) /\ IsSuffix(file, c) BY DEF Behind
<1>2. file \in Seq(Line) /\ line \in Line BY CountedIsNat DEF DataInv
<1> HIDE DEF line
<1>3. IsSuffix(Append(file, line), Append(c, line)) BY <1>1, <1>2, AppendKeepsSuffix
<1>4. Append(file, line) # <<>> BY <1>2
<1>5. file' = Append(file, line) /\ console' = Append(c, line) BY <1>1 DEF line
<1>6. consoleQueue' = <<>> /\ fileQueue' = <<>> BY DEF Behind
<1> QED BY <1>3, <1>4, <1>5, <1>6 DEF Equal

LEMMA FollowStep ==
  ASSUME TypeOK, DataInv, MutexInv, FollowInv, [Next]_vars
  PROVE  FollowInv'
<1> USE Frames
<1>0. pc \in [Frame -> Label] BY DEF TypeOK, Label
<1>1. CASE Elsewhere
  <2>1. UNCHANGED <<is_log_started, doWriteToFile, message, consoleQueue, fileQueue, console,
                    file>>
    BY <1>1 DEF Elsewhere, logvars
  <2>2. \A f \in Frame : pc'[f] \in {"pass", "file"} <=> pc[f] \in {"pass", "file"}
    BY <1>0, <1>1 DEF Elsewhere, Inside
  <2> QED BY <2>1, <2>2, SameText DEF FollowInv
<1>2. CASE StartLog
  <2>1. m_mtx = NoFrame BY <1>2, Depth DEF StartLog
  <2>2. \A f \in Frame : pc'[f] \notin {"pass", "file"}
    BY <1>0, <1>2, <2>1 DEF StartLog, Goto, MutexInv, Inside
  <2>3. console' = <<>> /\ file' = <<>> /\ consoleQueue' = <<>> /\ fileQueue' = <<>>
    BY <1>2 DEF StartLog
  <2>4. IsSuffix(<<>>, <<>>) BY EmptySeq, EmptyIsSuffix
  <2>5. Equal' BY <2>3, <2>4 DEF Equal
  <2> QED BY <2>2, <2>5 DEF FollowInv
<1>3. CASE StopLog \/ Crash
  <2>1. ~is_log_started' BY <1>3 DEF StopLog, Crash
  <2> QED BY <2>1 DEF FollowInv
<1>4. CASE \E f \in Frame : Logs(f)
  <2> PICK f \in Frame : Logs(f) BY <1>4
  <2>0. ASSUME pc[f] \in Inside \/ m_mtx \in {f, NoFrame}, NEW g \in Frame, g # f
        PROVE  pc[g] \notin {"pass", "file"}
    BY <2>0 DEF MutexInv, Inside
  <2>1. CASE Push(f)
    <3>1. pc[f] = "push" /\ m_mtx = NoFrame /\ pc' = [pc EXCEPT ![f] = "idle"]
      BY <2>1 DEF Push, Goto
    <3>2. \A g \in Frame : pc[g] \notin {"pass", "file"} /\ pc'[g] \notin {"pass", "file"}
      BY <1>0, <2>0, <3>1
    <3>3. UNCHANGED <<is_log_started, doWriteToFile, console, file>> BY <2>1 DEF Push
    <3>4. fileQueue = consoleQueue => fileQueue' = consoleQueue' BY <2>1 DEF Push
    <3>5. Equal => Equal' BY <3>3, <3>4 DEF Equal
    <3> QED BY <3>2, <3>3, <3>5 DEF FollowInv
  <2>2. CASE Write(f)
    <3>1. /\ pc[f] = "write" /\ m_mtx \in {f, NoFrame}
          /\ pc' = [pc EXCEPT ![f] = "console"]
      BY <2>2 DEF Write, Lock, Goto
    <3>2. \A g \in Frame : pc[g] \notin {"pass", "file"} /\ pc'[g] \notin {"pass", "file"}
      BY <1>0, <2>0, <3>1
    <3>3. UNCHANGED <<is_log_started, doWriteToFile, console, file, fileQueue, consoleQueue>>
      BY <2>2 DEF Write, logvars
    <3>4. Equal => Equal' BY <3>3 DEF Equal
    <3> QED BY <3>2, <3>3, <3>4 DEF FollowInv
  <2>3. CASE PrintConsole(f)
    <3>1. pc[f] = "console" /\ pc' = [pc EXCEPT ![f] = "pass"]
      BY <2>3 DEF PrintConsole, Prints, Goto
    <3>2. \A g \in Frame : pc[g] \notin {"pass", "file"} BY <1>0, <2>0, <3>1 DEF Inside
    <3>3. /\ UNCHANGED <<is_log_started, doWriteToFile, message, file, fileQueue>>
          /\ console' = Append(console, With(message, consoleQueue)) /\ consoleQueue' = <<>>
      BY <2>3 DEF PrintConsole, Prints
    <3>4. Equal => Behind'
      <4> SUFFICES ASSUME Equal PROVE Behind'
        OBVIOUS
      <4>1. fileQueue' = consoleQueue /\ IsSuffix(file', console) BY <3>3 DEF Equal
      <4>2. console' = Append(console, With(message', fileQueue')) BY <3>3, <4>1
      <4>3. console \in Seq(Line) BY DEF DataInv
      <4> QED BY <3>3, <4>1, <4>2, <4>3 DEF Behind
    <3>5. pc'[f] = "pass" BY <1>0, <3>1
    <3> QED BY <3>2, <3>3, <3>4, <3>5 DEF FollowInv
  <2>4. CASE PassToFile(f)
    <3>1. pc[f] = "pass" /\ doWriteToFile /\ (CountedIn(f) \/ Restarted(f) \/ Lost(f))
      BY <2>4, PassEffect
    <3>2. CASE Lost(f) BY <3>2 DEF Lost, FollowInv
    <3>3. CASE CountedIn(f) \/ Restarted(f)
      <4>1. UNCHANGED <<is_log_started, message, consoleQueue, console>> BY <2>4 DEF PassToFile
      <4>2. fileQueue' = fileQueue /\ pc' = [pc EXCEPT ![f] = "file"]
        BY <3>3 DEF CountedIn, Restarted
      <4>3. \/ UNCHANGED file
            \/ file' = <<>>
        BY <3>3 DEF CountedIn, Restarted
      <4>4. Behind => Behind'
        <5> SUFFICES ASSUME Behind PROVE Behind'
          OBVIOUS
        <5>1. PICK c \in Seq(Line) :
                console = Append(c, With(message, fileQueue)) /\ IsSuffix(file, c)
          BY DEF Behind
        <5>2. IsSuffix(<<>>, c) BY EmptyIsSuffix
        <5>3. IsSuffix(file', c) BY <4>3, <5>1, <5>2
        <5>4. console' = Append(c, With(message', fileQueue')) BY <4>1, <4>2, <5>1
        <5> QED BY <4>1, <5>3, <5>4 DEF Behind
      <4>5. pc'[f] = "file" BY <1>0, <4>2
      <4> QED BY <3>1, <4>1, <4>4, <4>5 DEF FollowInv
    <3> QED BY <3>1, <3>2, <3>3
  <2>5. CASE NoFile(f)
    <3>1. ~doWriteToFile /\ doWriteToFile' = doWriteToFile BY <2>5 DEF NoFile, logvars
    <3> QED BY <3>1 DEF FollowInv
  <2>6. CASE PrintFile(f)
    <3>1. pc[f] = "file" /\ pc' = [pc EXCEPT ![f] = "leave"]
      BY <2>6 DEF PrintFile, Prints, Goto
    <3>2. \A g \in Frame : pc'[g] \notin {"pass", "file"} BY <1>0, <2>0, <3>1 DEF Inside
    <3>3. /\ UNCHANGED <<is_log_started, doWriteToFile, console, consoleQueue>>
          /\ file' = Append(file, With(message, fileQueue)) /\ fileQueue' = <<>>
      BY <2>6 DEF PrintFile, Prints
    <3>4. Behind => Equal' BY <3>3, FileCatchesUp
    <3> QED BY <3>1, <3>2, <3>3, <3>4 DEF FollowInv
  <2>7. CASE Leave(f)
    <3>1. pc[f] = "leave" /\ \E l \in {"leave", "idle"} : pc' = [pc EXCEPT ![f] = l]
      BY <2>7 DEF Leave, Goto
    <3>2. \A g \in Frame : pc'[g] \in {"pass", "file"} <=> pc[g] \in {"pass", "file"}
      BY <1>0, <3>1
    <3>3. UNCHANGED <<is_log_started, doWriteToFile, message, consoleQueue, fileQueue, console,
                      file>>
      BY <2>7 DEF Leave, logvars
    <3> QED BY <3>2, <3>3, SameText DEF FollowInv
  <2> QED BY <2>1, <2>2, <2>3, <2>4, <2>5, <2>6, <2>7 DEF Logs
<1> QED BY <1>1, <1>2, <1>3, <1>4, Steps DEF Started

-----------------------------------------------------------------------------
LEMMA NextIInv == IInv /\ [Next]_vars => IInv'
BY TypeStep, DataStep, MutexStep, SizeStep, FollowStep DEF IInv

THEOREM Spec_IInv == Spec => []IInv
BY InitIInv, NextIInv, PTL DEF Spec

\* While no message is on its way, the file ends with the last messages of the
\* console, in their order and with the same fragments, although console and
\* file are printed one after the other and other threads log meanwhile.
THEOREM Spec_FileFollowsConsole == Spec => []FileFollowsConsole
<1>1. IInv => FileFollowsConsole
  <2> SUFFICES ASSUME IInv, is_log_started, doWriteToFile, m_mtx = NoFrame
               PROVE  Equal
    BY DEF FileFollowsConsole, Equal
  <2>1. \A f \in Frame : pc[f] \notin {"pass", "file"}
    BY Frames DEF IInv, MutexInv, Inside
  <2> QED BY <2>1 DEF IInv, FollowInv
<1> QED BY <1>1, Spec_IInv, PTL

\* The queues and the file keep their limits, from one start to the next.
THEOREM Spec_FileFits == Spec => []FileFits
<1>1. IInv => FileFits
  <2>1. ASSUME IInv, MessagesFit PROVE written <= max_logfilesize
    BY <2>1, Bounds DEF IInv, SizeInv, DataInv
  <2> QED BY <2>1 DEF IInv, FileFits
<1> QED BY <1>1, Spec_IInv, PTL
-----------------------------------------------------------------------------
(* The three locks.                                                        *)

\* What a frame needs for its next step is free, or it is the frame's own.
CanGo(f) ==
  /\ Runs(f)
  /\ \/ pc[f] = "push" /\ m_mtx = NoFrame
     \/ pc[f] = "write" /\ m_mtx \in {f, NoFrame}
     \/ pc[f] \in {"console", "file", "out"} /\ m_loggermtx \in {f, NoFrame}
     \/ pc[f] \in {"pass", "leave"}
     \/ pc[f] \in {"wait", "drop"} /\ slock # <<>> /\ Head(slock) = f

\* The three locks never close a circle: as long as somebody is under way, and
\* no handler has trapped the frame beneath it, somebody can go on.
NoDeadlock ==
  (\E f \in Frame : pc[f] # "idle")
  => (\E f \in Frame : CanGo(f)) \/ (\E t \in Thread : Trapped(t))

\* Who is in slock_reg, and in m_loggermtx; the handler takes no other mutex.
WaitInv ==
  /\ \A i, j \in DOMAIN slock : slock[i] = slock[j] => i = j
  /\ \A i \in DOMAIN slock : pc[slock[i]] = "wait" \/ (i = 1 /\ pc[slock[i]] \in {"out", "drop"})
  /\ \A f \in Frame : pc[f] \in {"wait", "drop"} => slock_reg!Waits(f)
  /\ \A t \in Thread : pc[Handler(t)] \in {"idle", "wait", "drop", "out"}
  /\ m_loggermtx # NoFrame => pc[m_loggermtx] \in {"console", "file", "out"}

\* A frame asks for slock_reg, and leaves it.
LEMMA AskKeepsWaitInv ==
  ASSUME TypeOK, WaitInv, NEW f \in Frame, pc[f] = "idle", slock_reg!Ask(f),
         pc' = [pc EXCEPT ![f] = "wait"], UNCHANGED m_loggermtx
  PROVE  WaitInv'
<1>1. /\ slock \in Seq(Frame) /\ slock' = Append(slock, f) /\ \A i \in DOMAIN slock : slock[i] # f
      /\ pc \in [Frame -> Label]
  BY DEF TypeOK, slock_reg!Ask, slock_reg!Waits, Label
<1>2. /\ DOMAIN slock = 1 .. Len(slock) /\ DOMAIN slock' = 1 .. Len(slock) + 1
      /\ \A i \in DOMAIN slock : slock'[i] = slock[i] /\ slock[i] \in Frame
      /\ slock'[Len(slock) + 1] = f /\ Len(slock) \in Nat
  BY <1>1
<1>3. \A i, j \in DOMAIN slock' : slock'[i] = slock'[j] => i = j
  BY <1>1, <1>2 DEF WaitInv
<1>4. \A i \in DOMAIN slock' : pc'[slock'[i]] = "wait" \/ (i = 1 /\ pc'[slock'[i]] \in {"out", "drop"})
  BY <1>1, <1>2 DEF WaitInv
<1>5. \A g \in Frame : pc'[g] \in {"wait", "drop"} => \E i \in DOMAIN slock' : slock'[i] = g
  BY <1>1, <1>2 DEF WaitInv, slock_reg!Waits
<1>6. m_loggermtx # NoFrame => m_loggermtx # f /\ m_loggermtx \in Frame
  BY DEF WaitInv, TypeOK
<1> QED BY <1>1, <1>3, <1>4, <1>5, <1>6, Frames DEF WaitInv, slock_reg!Waits

LEMMA DropKeepsWaitInv ==
  ASSUME TypeOK, WaitInv, NEW f \in Frame, pc[f] = "drop", slock_reg!Leave(f),
         NEW l \in {"out", "idle"}, pc' = [pc EXCEPT ![f] = l], UNCHANGED m_loggermtx
  PROVE  WaitInv'
<1>1. /\ slock \in Seq(Frame) /\ slock # <<>> /\ slock' = Tail(slock) /\ slock[1] = f
      /\ pc \in [Frame -> Label]
  BY DEF TypeOK, slock_reg!Leave, Label
<1>2. /\ DOMAIN slock = 1 .. Len(slock) /\ DOMAIN slock' = 1 .. Len(slock) - 1
      /\ \A i \in DOMAIN slock' : slock'[i] = slock[i + 1] /\ i + 1 \in DOMAIN slock
      /\ Len(slock) \in Nat /\ 1 \in DOMAIN slock
      /\ \A i \in DOMAIN slock : slock[i] \in Frame
  BY <1>1
<1>3. \A i \in DOMAIN slock : slock[i] = f => i = 1
  BY <1>1, <1>2 DEF WaitInv
<1>4. \A i, j \in DOMAIN slock' : slock'[i] = slock'[j] => i = j
  BY <1>2 DEF WaitInv
<1>5. \A i \in DOMAIN slock' : pc'[slock'[i]] = "wait"
  BY <1>1, <1>2, <1>3 DEF WaitInv
<1>6. ASSUME NEW g \in Frame, pc'[g] \in {"wait", "drop"}
      PROVE  \E i \in DOMAIN slock' : slock'[i] = g
  <2>1. g # f /\ pc[g] \in {"wait", "drop"} BY <1>1, <1>6
  <2>2. PICK i \in DOMAIN slock : slock[i] = g BY <2>1 DEF WaitInv, slock_reg!Waits
  <2>3. i # 1 BY <1>1, <2>1, <2>2
  <2>4. i - 1 \in DOMAIN slock' BY <1>2, <2>2, <2>3
  <2> QED BY <1>2, <2>2, <2>4
<1>7. m_loggermtx # NoFrame => m_loggermtx # f /\ m_loggermtx \in Frame
  BY DEF WaitInv, TypeOK
<1> QED BY <1>1, <1>4, <1>5, <1>6, <1>7, Frames DEF WaitInv, slock_reg!Waits

\* A frame moves on, in slock_reg or out of it.
LEMMA MoveKeepsWaitInv ==
  ASSUME TypeOK, WaitInv, NEW f \in Frame, NEW l \in Label,
         pc' = [pc EXCEPT ![f] = l], UNCHANGED slock,
         slock_reg!Waits(f) => Head(slock) = f /\ l \in {"out", "drop"},
         ~slock_reg!Waits(f) => l \notin {"wait", "drop"},
         \A t \in Thread : f = Handler(t) => l \in {"idle", "drop", "out"},
         m_loggermtx' \in {m_loggermtx, NoFrame},
         m_loggermtx' = f => l \in {"console", "file", "out"}
  PROVE  WaitInv'
<1>1. /\ slock \in Seq(Frame) /\ pc \in [Frame -> Label]
      /\ DOMAIN slock = 1 .. Len(slock) /\ \A i \in DOMAIN slock : slock[i] \in Frame
      /\ m_loggermtx \in Frame \cup {NoFrame}
  BY DEF TypeOK, Label
<1>2. \A i \in DOMAIN slock : slock[i] = f => i = 1 /\ l \in {"out", "drop"}
  BY <1>1 DEF WaitInv, slock_reg!Waits
<1>3. \A i \in DOMAIN slock : pc'[slock[i]] = "wait" \/ (i = 1 /\ pc'[slock[i]] \in {"out", "drop"})
  BY <1>1, <1>2 DEF WaitInv
<1>4. \A g \in Frame : pc'[g] \in {"wait", "drop"} => \E i \in DOMAIN slock : slock[i] = g
  BY <1>1 DEF WaitInv, slock_reg!Waits
<1>5. \A t \in Thread : pc'[Handler(t)] \in {"idle", "wait", "drop", "out"}
  BY <1>1, Frames DEF WaitInv
<1>6. m_loggermtx' # NoFrame => pc'[m_loggermtx'] \in {"console", "file", "out"}
  BY <1>1, Frames DEF WaitInv
<1> QED BY <1>3, <1>4, <1>5, <1>6 DEF WaitInv, slock_reg!Waits

LEMMA WaitStep ==
  ASSUME TypeOK, WaitInv, [Next]_vars
  PROVE  WaitInv'
<1> USE Frames
<1>0. /\ pc \in [Frame -> Label] /\ slock \in Seq(Frame)
      /\ \A i \in DOMAIN slock : slock[i] \in Frame
      /\ \A t, u \in Thread : Own(t) # Handler(u)
  BY DEF TypeOK, Label, Own, Handler
<1>1. \A f \in Frame : slock_reg!Waits(f) => pc[f] \in {"wait", "out", "drop"}
  BY <1>0 DEF WaitInv, slock_reg!Waits
<1>2. CASE \E t \in Thread : Log(t) \/ LogFragment(t) \/ Out(t)
  <2> PICK t \in Thread : Log(t) \/ LogFragment(t) \/ Out(t) BY <1>2
  <2>1. PICK l \in {"write", "push", "out"} : pc' = [pc EXCEPT ![Own(t)] = l]
    BY DEF Log, LogFragment, Out, Goto
  <2>2. pc[Own(t)] = "idle" /\ UNCHANGED <<m_loggermtx, slock>>
    BY DEF Log, LogFragment, Out, Calls
  <2>3. m_loggermtx' # Own(t)
    BY <2>2 DEF WaitInv
  <2>4. ~slock_reg!Waits(Own(t)) /\ \A u \in Thread : Own(t) # Handler(u)
    BY <1>0, <1>1, <2>2
  <2>5. l \in Label \ {"wait", "drop"}
    BY DEF Label
  <2> QED BY <2>1, <2>2, <2>3, <2>4, <2>5, MoveKeepsWaitInv
<1>3. CASE \E t \in Thread : RegisterThread(t)
  BY <1>3, AskKeepsWaitInv DEF RegisterThread, Calls, Goto
<1>4. CASE \E t \in Thread : Signal(t)
  BY <1>4, AskKeepsWaitInv DEF Signal, Goto
<1>5. CASE StartLog \/ StopLog
  <2>1. /\ pc[Own(Main)] = "idle" /\ pc' = [pc EXCEPT ![Own(Main)] = "write"]
        /\ UNCHANGED <<m_loggermtx, slock>>
    BY <1>5 DEF StartLog, StopLog, Goto
  <2>2. m_loggermtx # Own(Main) BY <2>1 DEF WaitInv
  <2> QED BY <1>0, <1>1, <2>1, <2>2, LoggerAssumption, MoveKeepsWaitInv DEF Label
<1>6. CASE Crash
  BY <1>6 DEF Crash, WaitInv, slock_reg!Waits
<1>7. CASE \E f \in Frame : Acquire(f)
  BY <1>7 DEF Acquire, WaitInv, slock_reg!Waits
<1>8. CASE \E f \in Frame : Granted(f)
  <2> PICK f \in Frame : Granted(f) BY <1>8
  <2>1. /\ pc[f] = "wait" /\ Head(slock) = f /\ UNCHANGED <<m_loggermtx, slock>>
        /\ \E l \in {"out", "drop"} : pc' = [pc EXCEPT ![f] = l]
    BY DEF Granted, Goto, lockvars
  <2>2. slock_reg!Waits(f) /\ m_loggermtx # f
    BY <2>1 DEF WaitInv
  <2> QED BY <1>0, <2>1, <2>2, MoveKeepsWaitInv DEF Label
<1>9. CASE \E f \in Frame : Drop(f)
  <2> PICK f \in Frame : Drop(f) BY <1>9
  <2>1. \E l \in {"out", "idle"} : pc' = [pc EXCEPT ![f] = l]
    BY DEF Drop, Goto
  <2> QED BY <2>1, DropKeepsWaitInv DEF Drop
<1>10. CASE \E f \in Frame : PrintOut(f)
  <2> PICK f \in Frame : PrintOut(f) BY <1>10
  <2>1. /\ pc[f] = "out" /\ UNCHANGED slock /\ m_loggermtx' = NoFrame
        /\ pc' = [pc EXCEPT ![f] = IF slock_reg!Waits(f) THEN "drop" ELSE "idle"]
    BY DEF PrintOut, Prints, Goto
  <2>2. ASSUME slock_reg!Waits(f) PROVE Head(slock) = f
    <3>1. PICK i \in DOMAIN slock : slock[i] = f BY <2>2 DEF slock_reg!Waits
    <3>2. i = 1 BY <2>1, <3>1 DEF WaitInv
    <3> QED BY <1>0, <3>1, <3>2
  <2>3. CASE slock_reg!Waits(f)
    BY <1>0, <2>1, <2>2, <2>3, MoveKeepsWaitInv DEF Label
  <2>4. CASE ~slock_reg!Waits(f)
    BY <1>0, <2>1, <2>4, MoveKeepsWaitInv DEF Label
  <2> QED BY <2>3, <2>4
<1>11. CASE \E f \in Frame : Logs(f)
  <2> PICK f \in Frame : Logs(f) BY <1>11
  <2>1. /\ pc[f] \in {"push", "write", "console", "pass", "file", "leave"}
        /\ UNCHANGED slock
        /\ \E l \in {"idle", "console", "pass", "file", "leave"} : pc' = [pc EXCEPT ![f] = l]
    <3>1. CASE Push(f) \/ Write(f) \/ PrintConsole(f) \/ PrintFile(f)
      BY <3>1 DEF Push, Write, PrintConsole, PrintFile, Prints, Goto, lockvars
    <3>2. CASE PassToFile(f) \/ NoFile(f) \/ Leave(f)
      BY <3>2 DEF PassToFile, NoFile, Leave, Goto, lockvars
    <3> QED BY <3>1, <3>2 DEF Logs
  <2>2. /\ m_loggermtx' \in {m_loggermtx, NoFrame}
        /\ m_loggermtx' # f
    <3>1. CASE PrintConsole(f) \/ PrintFile(f)
      BY <3>1 DEF PrintConsole, PrintFile, Prints
    <3>2. CASE Push(f) \/ Write(f) \/ PassToFile(f) \/ NoFile(f) \/ Leave(f)
      <4>1. UNCHANGED m_loggermtx /\ pc[f] \notin {"console", "file", "out"}
        BY <3>2 DEF Push, Write, PassToFile, NoFile, Leave, lockvars
      <4> QED BY <4>1 DEF WaitInv
    <3> QED BY <3>1, <3>2 DEF Logs
  <2>3. ~slock_reg!Waits(f) /\ \A t \in Thread : f # Handler(t)
    BY <1>1, <2>1 DEF WaitInv
  <2> QED BY <2>1, <2>2, <2>3, MoveKeepsWaitInv DEF Label
<1>12. CASE UNCHANGED vars
  BY <1>12 DEF vars, lockvars, WaitInv, slock_reg!Waits
<1> QED BY <1>2, <1>3, <1>4, <1>5, <1>6, <1>7, <1>8, <1>9, <1>10, <1>11, <1>12
        DEF Next, Continue, Logs

\* Whoever has m_loggermtx goes on, or the handler above it does; if nobody has
\* it, whoever has slock_reg; if nobody has either, whoever has m_mtx.
LEMMA SomeoneGoes == TypeOK /\ MutexInv /\ WaitInv => NoDeadlock
<1> SUFFICES ASSUME TypeOK, MutexInv, WaitInv, NEW b \in Frame, pc[b] # "idle",
                    \A t \in Thread : ~Trapped(t)
             PROVE  \E f \in Frame : CanGo(f)
  BY DEF NoDeadlock
<1> USE Frames
<1>0. /\ pc \in [Frame -> Label] /\ slock \in Seq(Frame)
      /\ m_mtx \in Frame \cup {NoFrame} /\ m_loggermtx \in Frame \cup {NoFrame}
  BY DEF TypeOK, Label
<1>1. \A f \in Frame : \E t \in Thread : f = Own(t) \/ f = Handler(t)
  BY DEF Frame, Own, Handler
<1>2. \A t \in Thread : Runs(Handler(t)) /\ (~Runs(Own(t)) => pc[Handler(t)] # "idle")
  BY DEF Runs, Own, Handler
<1>3. \A t \in Thread : pc[Handler(t)] \in {"wait", "out"}
                        => m_loggermtx # Own(t) /\ ~slock_reg!Waits(Own(t))
  BY DEF Trapped
<1>4. \A f \in Frame : pc[f] = "drop" => slock # <<>> /\ Head(slock) = f
  <2> TAKE f \in Frame
  <2> HAVE pc[f] = "drop"
  <2>1. PICK i \in DOMAIN slock : slock[i] = f BY DEF WaitInv, slock_reg!Waits
  <2>2. i = 1 BY <2>1 DEF WaitInv
  <2> QED BY <1>0, <2>1, <2>2
<1>5. CASE m_loggermtx # NoFrame
  <2>1. pc[m_loggermtx] \in {"console", "file", "out"} /\ m_loggermtx \in Frame
    BY <1>0, <1>5 DEF WaitInv
  <2>2. CASE Runs(m_loggermtx)
    BY <2>1, <2>2 DEF CanGo
  <2>3. CASE ~Runs(m_loggermtx)
    <3>1. PICK t \in Thread : m_loggermtx = Own(t) BY <1>1, <1>2, <2>1, <2>3
    <3>2. pc[Handler(t)] = "drop" BY <1>2, <1>3, <2>3, <3>1 DEF WaitInv
    <3> QED BY <1>2, <1>4, <3>2 DEF CanGo
  <2> QED BY <2>2, <2>3
<1>6. CASE m_loggermtx = NoFrame /\ slock # <<>>
  <2> DEFINE h == Head(slock)
  <2>1. h \in Frame /\ slock_reg!Waits(h) /\ pc[h] \in {"wait", "out", "drop"}
    BY <1>0, <1>6 DEF WaitInv, slock_reg!Waits
  <2> HIDE DEF h
  <2>2. CASE Runs(h)
    BY <1>6, <2>1, <2>2 DEF CanGo, h
  <2>3. CASE ~Runs(h)
    <3>1. PICK t \in Thread : h = Own(t) BY <1>1, <1>2, <2>1, <2>3
    <3>2. pc[Handler(t)] = "drop" BY <1>2, <1>3, <2>1, <2>3, <3>1 DEF WaitInv
    <3> QED BY <1>2, <1>4, <3>2 DEF CanGo
  <2> QED BY <2>2, <2>3
<1>7. CASE m_loggermtx = NoFrame /\ slock = <<>>
  <2>1. \A f \in Frame : pc[f] \notin {"wait", "drop"}
    BY <1>7 DEF WaitInv, slock_reg!Waits
  <2>2. \A t \in Thread : pc[Handler(t)] # "idle" => CanGo(Handler(t))
    BY <1>2, <1>7, <2>1 DEF WaitInv, CanGo
  <2>3. CASE m_mtx # NoFrame
    <3>1. m_mtx \in Frame /\ pc[m_mtx] \in {"console", "pass", "file", "leave", "write"}
      BY <1>0, <2>3 DEF MutexInv, Inside
    <3>2. CASE Runs(m_mtx) BY <1>7, <3>1, <3>2 DEF CanGo
    <3>3. CASE ~Runs(m_mtx) BY <1>1, <1>2, <2>2, <3>1, <3>3
    <3> QED BY <3>2, <3>3
  <2>4. CASE m_mtx = NoFrame
    <3>1. CASE Runs(b)
      BY <1>0, <1>7, <2>1, <2>4, <3>1 DEF CanGo, Label
    <3>2. CASE ~Runs(b) BY <1>1, <1>2, <2>2, <3>2
    <3> QED BY <3>1, <3>2
  <2> QED BY <2>3, <2>4
<1> QED BY <1>5, <1>6, <1>7

\* The log, the watchdog and the handler never wait for one another in a circle,
\* for any number of threads and signals.
THEOREM Spec_NoDeadlock == Spec => []NoDeadlock
<1>1. Init => WaitInv
  BY Frames DEF Init, WaitInv
<1>2. IInv => TypeOK /\ MutexInv
  BY DEF IInv
<1>3. TypeOK /\ WaitInv /\ [Next]_vars => WaitInv'
  BY WaitStep
<1> QED BY <1>1, <1>2, <1>3, SomeoneGoes, Spec_IInv, PTL DEF Spec
=============================================================================
