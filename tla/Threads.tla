------------------------------- MODULE Threads -------------------------------
(***************************************************************************)
(* The threads of the server (m_threadnumber of them), which ThreadGroup   *)
(* starts and ends and Server lets work.                                   *)
(***************************************************************************)
EXTENDS Integers, FiniteSets

CONSTANT Thread

ASSUME ThreadAssumption == IsFiniteSet(Thread) /\ Thread # {}
=============================================================================
