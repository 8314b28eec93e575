---------------------------- MODULE MCBuildQueue ----------------------------
(* Instance of BuildQueue for TLC: two builds and two plans that both want
   them; builds and plans are interchangeable.                             *)
EXTENDS BuildQueue, TLC

MCNodes == [p \in Plan |-> Key]

Symmetry == Permutations(Key) \cup Permutations(Plan)
=============================================================================
