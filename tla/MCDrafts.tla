------------------------------ MODULE MCDrafts ------------------------------
(***************************************************************************)
(* Instances of Drafts for TLC.                                            *)
(***************************************************************************)
EXTENDS Drafts, TLC

\* Drafts, sessions and texts are interchangeable.
Symmetry ==
    Permutations(DraftIds) \cup Permutations(Sessions) \cup Permutations(Texts)

=============================================================================
