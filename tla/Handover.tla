------------------------------- MODULE Handover -------------------------------
(***************************************************************************)
(* How the main thread and the client's thread hand an attempt over to     *)
(* each other and back, through m_do_start_all_operations and m_isworking  *)
(* and nothing else.  Client, which has the connections, and Application,  *)
(* which has everything around the client, both implement it: what the one *)
(* leaves out of the hand-over, the other does not need.                   *)
(***************************************************************************)
EXTENDS Naturals

CONSTANT m_max_reconnattempts

VARIABLES
  phase,    \* the main thread: "idle", "attempt", "ordered", "waiting"
  attempts, \* nattempts
  start,    \* m_do_start_all_operations
  working,  \* m_isworking
  polling,  \* the client's thread works on the attempt
  lost      \* the client's thread has ended

flags == <<start, working>>
handover == <<phase, attempts, flags, polling, lost>>

Init ==
  /\ phase = "idle" /\ attempts = 0
  /\ start = FALSE /\ working = FALSE /\ polling = FALSE /\ lost = FALSE

\* The main thread.
Command ==
  /\ phase = "idle" /\ phase' = "attempt"
  /\ attempts' = m_max_reconnattempts
  /\ UNCHANGED <<flags, polling, lost>>

Conclude(again) ==
  /\ attempts' = attempts - 1
  /\ phase' = IF again /\ attempts' # 0 THEN "attempt" ELSE "idle"
  /\ UNCHANGED <<flags, polling, lost>>

Refused == phase = "attempt" /\ Conclude(TRUE)

\* The order is given before the main thread says that it waits for it.
Order ==
  /\ phase = "attempt" /\ phase' = "ordered"
  /\ ~start /\ ~working /\ ~polling
  /\ start' = TRUE
  /\ UNCHANGED <<attempts, working, polling, lost>>

SetWorking ==
  /\ phase = "ordered" /\ phase' = "waiting"
  /\ working' = TRUE
  /\ UNCHANGED <<attempts, start, polling, lost>>

Waited == phase = "waiting" /\ ~working /\ \E again \in BOOLEAN : Conclude(again)

\* The client's thread.
Poll ==
  /\ start /\ ~polling /\ ~lost
  /\ start' = FALSE /\ polling' = TRUE
  /\ UNCHANGED <<phase, attempts, working, lost>>

StopPolling ==
  /\ polling /\ polling' = FALSE
  /\ phase \in {"ordered", "waiting"}
  /\ working' = FALSE
  /\ UNCHANGED <<phase, attempts, start, lost>>

Ends ==
  /\ ~lost /\ lost' = TRUE /\ polling' = FALSE
  /\ UNCHANGED <<phase, attempts, flags>>

Next ==
  \/ Command \/ Refused \/ Order \/ SetWorking \/ Waited
  \/ Poll \/ StopPolling \/ Ends

Spec == Init /\ [][Next]_handover
=============================================================================
