-------------------------- MODULE MCKnowledgeWriter --------------------------
(***************************************************************************)
(* Instances of KnowledgeWriter for TLC.                                   *)
(***************************************************************************)
EXTENDS KnowledgeWriter, TLC

WorkerSymmetry == Permutations(Workers)
=============================================================================
