------------------------------ MODULE TicketLock ------------------------------
(***************************************************************************)
(* ticketspinlock_t (utility.h): lock() takes the next ticket and spins    *)
(* until it is served; unlock() serves the next one, with a load and a     *)
(* store that are not one step.                                            *)
(***************************************************************************)
EXTENDS Naturals, Sequences

CONSTANTS
  Client,      \* those who may call lock
  MaxTicket    \* bound: tickets given out (std::size_t, taken not to wrap)

VARIABLES NextTicketNo, ServingTicketNo, myTicketNo, newNo, pc

vars == <<NextTicketNo, ServingTicketNo, myTicketNo, newNo, pc>>

Init ==
  /\ NextTicketNo = 0 /\ ServingTicketNo = 0
  /\ myTicketNo = [c \in Client |-> 0] /\ newNo = [c \in Client |-> 0]
  /\ pc = [c \in Client |-> "out"]

\* lock(), fetch_add.
FetchAdd(c) ==
  /\ pc[c] = "out" /\ NextTicketNo < MaxTicket
  /\ myTicketNo' = [myTicketNo EXCEPT ![c] = NextTicketNo]
  /\ NextTicketNo' = NextTicketNo + 1
  /\ pc' = [pc EXCEPT ![c] = "spin"]
  /\ UNCHANGED <<ServingTicketNo, newNo>>

\* The loop of lock() ends.
Served(c) ==
  /\ pc[c] = "spin" /\ ServingTicketNo = myTicketNo[c]
  /\ pc' = [pc EXCEPT ![c] = "in"]
  /\ UNCHANGED <<NextTicketNo, ServingTicketNo, myTicketNo, newNo>>

\* Mutant: the last ticket given out is served next.
LoadLast(c) ==
  /\ pc[c] = "in"
  /\ newNo' = [newNo EXCEPT ![c] = NextTicketNo]
  /\ pc' = [pc EXCEPT ![c] = "leaving"]
  /\ UNCHANGED <<NextTicketNo, ServingTicketNo, myTicketNo>>

\* unlock(): load, then store.
Load(c) ==
  /\ pc[c] = "in"
  /\ newNo' = [newNo EXCEPT ![c] = ServingTicketNo + 1]
  /\ pc' = [pc EXCEPT ![c] = "leaving"]
  /\ UNCHANGED <<NextTicketNo, ServingTicketNo, myTicketNo>>

Store(c) ==
  /\ pc[c] = "leaving"
  /\ ServingTicketNo' = newNo[c]
  /\ pc' = [pc EXCEPT ![c] = "out"]
  /\ UNCHANGED <<NextTicketNo, myTicketNo, newNo>>

Next == \E c \in Client : FetchAdd(c) \/ Served(c) \/ Load(c) \/ Store(c)

Spec == Init /\ [][Next]_vars

-----------------------------------------------------------------------------
TypeOK ==
  /\ NextTicketNo \in Nat /\ ServingTicketNo \in Nat
  /\ myTicketNo \in [Client -> Nat] /\ newNo \in [Client -> Nat]
  /\ pc \in [Client -> {"out", "spin", "in", "leaving"}]

Active(c) == pc[c] # "out"
Inside(c) == pc[c] \in {"in", "leaving"}

\* No two clients are between lock() and the end of unlock().
MutualExclusion == \A c, d \in Client : Inside(c) /\ Inside(d) => c = d

\* The tickets not yet served are those of the active clients, one each; the
\* one inside has the ticket that is served, and will serve the next.
TicketsInUse ==
  /\ ServingTicketNo <= NextTicketNo
  /\ \A c \in Client : Active(c) => myTicketNo[c] \in ServingTicketNo .. NextTicketNo - 1
  /\ \A c, d \in Client : Active(c) /\ Active(d) /\ myTicketNo[c] = myTicketNo[d] => c = d
  /\ \A n \in ServingTicketNo .. NextTicketNo - 1 :
       \E c \in Client : Active(c) /\ myTicketNo[c] = n
  /\ \A c \in Client : Inside(c) => myTicketNo[c] = ServingTicketNo
  /\ \A c \in Client : pc[c] = "leaving" => newNo[c] = ServingTicketNo + 1

\* The clients in the order of their tickets.
queue ==
  [i \in 1 .. NextTicketNo - ServingTicketNo |->
     CHOOSE c \in Client : Active(c) /\ myTicketNo[c] = ServingTicketNo + i - 1]

LockOf == INSTANCE Lock

\* It is the fair lock: an active client is in the queue from its fetch_add to
\* its store, and only the first of the queue can leave.
ImplementsLock == LockOf!Spec
=============================================================================
