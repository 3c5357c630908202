-------------------------------- MODULE Request --------------------------------
(***************************************************************************)
(* One request of one session, as the session and the request processor    *)
(* see it together: submitted once, published once, announced to the       *)
(* session once and after that, fetched once and when it is there.  The    *)
(* session holds m_resumemtx when it submits and when it fetches; the      *)
(* processor needs it for the announcement.                                *)
(*                                                                         *)
(* ImageProcessor implements this for each of its connections, and         *)
(* ServerSession for its own: so the steps that each of the two allows the *)
(* other are steps that the other takes.                                   *)
(***************************************************************************)
VARIABLES
  request,  \* "none", "submitted", "ready", "fetched"
  notify,   \* the call of the ready handler: "no", "due", "done"
  held      \* the session holds m_resumemtx

Init == request = "none" /\ notify = "no" /\ held = FALSE

\* The session.
Take == ~held /\ held' = TRUE /\ UNCHANGED <<request, notify>>

Submit ==
  /\ request = "none" /\ request' = "submitted"
  /\ held' = TRUE /\ UNCHANGED notify

Fetch ==
  /\ held /\ request = "ready" /\ request' = "fetched"
  /\ held' \in BOOLEAN /\ UNCHANGED notify

Release == held /\ held' = FALSE /\ UNCHANGED <<request, notify>>

\* The processor.
Publish ==
  /\ request = "submitted" /\ request' = "ready"
  /\ notify = "no" /\ notify' = "due"
  /\ UNCHANGED held

Notify ==
  /\ notify = "due" /\ ~held /\ notify' = "done"
  /\ UNCHANGED <<request, held>>

Next == Take \/ Submit \/ Fetch \/ Release \/ Publish \/ Notify

Spec == Init /\ [][Next]_<<request, notify, held>>
=============================================================================
