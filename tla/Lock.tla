--------------------------------- MODULE Lock ---------------------------------
(***************************************************************************)
(* A fair lock: who asks first is served first, one at a time.             *)
(***************************************************************************)
EXTENDS Sequences

CONSTANT Client

VARIABLE queue    \* those that have asked; the first one has the lock

Waits(c) == \E i \in DOMAIN queue : queue[i] = c

Init == queue = <<>>

Ask(c) == ~Waits(c) /\ queue' = Append(queue, c)

Leave(c) == queue # <<>> /\ Head(queue) = c /\ queue' = Tail(queue)

Next == \E c \in Client : Ask(c) \/ Leave(c)

Spec == Init /\ [][Next]_queue
=============================================================================
