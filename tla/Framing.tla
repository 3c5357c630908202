------------------------------- MODULE Framing -------------------------------
(***************************************************************************)
(* What the reader of a connection wants of a completer: asked when bytes  *)
(* have come, it says whether the read is to go on, has ended with a       *)
(* packet, or has failed - and its answer depends on the bytes alone, not  *)
(* on the pieces they came in.                                             *)
(*                                                                         *)
(* The promise is void (loose) once a piece has ended inside a packet that *)
(* is not the first, or has gone on behind a binary packet.                *)
(***************************************************************************)
EXTENDS Packets

CONSTANTS max_transfers, Types, PacketLists, BufferSize

VARIABLES
  packets,    \* what the other side sends
  type,       \* which completer answers
  received,   \* the bytes that have come
  transfers,  \* how often it was asked
  loose,      \* nothing is promised any more
  verdict     \* "asked" until the answer is there

vars == <<packets, type, received, transfers, loose, verdict>>

\* The packets some byte of which is among the first r.
Begun(ps, r) == {k \in DOMAIN ps : Start(ps, k) < r}
IsEnd(ps, r) == \E k \in DOMAIN ps : r = End(ps, k)

GoesLoose(ps, r) ==
  \E k \in Begun(ps, r) : k > 1 /\ (~IsEnd(ps, r) \/ ps[k - 1].kind = "bin")

\* Packet k is refused once the bytes that condemn it are there.
Refused(ps, ty, k, r) ==
  LET here == r - Start(ps, k)
  IN  \/ ps[k].kind = "text" /\ ty = "bin" /\ here >= sig_size
      \/ /\ ps[k].kind = "bin"
         /\ \/ ps[k].size > max_valid_size /\ here >= header_size
            \/ ~ps[k].good /\ r >= End(ps, k)

Ideal(ps, ty, r) ==
  IF \E k \in Begun(ps, r) : Refused(ps, ty, k, r) THEN "error"
  ELSE IF IsEnd(ps, r) THEN "done"
  ELSE IF r = BufferSize THEN "full" ELSE "more"

Init ==
  /\ packets \in PacketLists /\ type \in Types
  /\ received = 0 /\ transfers = 1 /\ loose = FALSE /\ verdict = "more"

Ask(r) ==
  /\ verdict = "more" /\ received < r /\ r <= Len(Stream(packets)) /\ r <= BufferSize
  /\ received' = r /\ transfers' = transfers + 1
  /\ loose' = (loose \/ GoesLoose(packets, r))
  /\ verdict' = "asked"
  /\ UNCHANGED <<packets, type>>

Answer ==
  /\ verdict = "asked"
  /\ verdict' \in IF transfers > max_transfers + 1 THEN {"error"}
                  ELSE IF loose THEN {"more", "done", "error", "full"}
                  ELSE {Ideal(packets, type, received)}
  /\ UNCHANGED <<packets, type, received, transfers, loose>>

\* The connection breaks, or its other side ends it.
Break ==
  /\ verdict = "more" /\ verdict' = "error"
  /\ UNCHANGED <<packets, type, received, transfers, loose>>

Next == (\E r \in 1 .. BufferSize : Ask(r)) \/ Answer \/ Break

\* Every question is answered.
Spec == Init /\ [][Next]_vars /\ WF_vars(Answer)
=============================================================================
