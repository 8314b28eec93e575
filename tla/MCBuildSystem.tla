---------------------------- MODULE MCBuildSystem ---------------------------
(* Instances of BuildSystem for TLC: every plan wants every build.         *)
EXTENDS BuildSystem, TLC

MCNodes == [p \in Plan |-> Key]

Symmetry == Permutations(Worker) \cup Permutations(Key)
=============================================================================
