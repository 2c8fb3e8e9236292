--------------------------- MODULE MCOtioObjects ---------------------------
(***************************************************************************)
(* Instances of OtioObjects for TLC.  Objects of one pool, and handles,    *)
(* differ in nothing but their names, so permuting them is a symmetry.     *)
(* Liveness runs do not use it.                                            *)
(***************************************************************************)
EXTENDS OtioObjects

Symmetry == Permutations(Stacks) \cup Permutations(Tracks) \cup Permutations(Clips)
            \cup Permutations(Media) \cup Permutations(Timelines)
            \cup Permutations(Collections) \cup Permutations(Handles)
=============================================================================
