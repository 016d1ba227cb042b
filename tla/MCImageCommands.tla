-------------------------- MODULE MCImageCommands --------------------------
(* Symmetry for the runs of ImageCommands without a liveness property.     *)
EXTENDS ImageCommands, TLC

Symmetry ==
    Permutations(Image) \cup Permutations(User) \cup Permutations(Request)
=============================================================================
