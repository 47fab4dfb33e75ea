----------------------------- MODULE MCRecords ------------------------------
(* Instances of Records for TLC: the worlds of MCSession beside the slots. *)
EXTENDS Records, MCSession

\* What the theorems about sessions suppose.
ASSUME WorldsAssumption == RunsAlone /\ FromScratch

\* What the theorem about cuts supposes.
ASSUME RoundingAssumption == RoundingIsSmall
=============================================================================
