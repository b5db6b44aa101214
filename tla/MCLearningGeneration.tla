------------------------ MODULE MCLearningGeneration ------------------------
(* Small instances of LearningGeneration for TLC. *)
EXTENDS LearningGeneration, TLC

MCSession == Owner \X {"main", "beat"}

Symmetry == Permutations(Owner)
=============================================================================
