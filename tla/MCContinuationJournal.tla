------------------------ MODULE MCContinuationJournal ------------------------
(* Small instances of ContinuationJournal for TLC. *)
EXTENDS ContinuationJournal, TLC

(* Processes are interchangeable: no property tells one from another. *)
ProcSymmetry == Permutations(Proc)
=============================================================================
