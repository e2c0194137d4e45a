--------------------------- MODULE MCAuthorization ---------------------------
(***************************************************************************)
(* Instances of Authorization for TLC.                                     *)
(***************************************************************************)
EXTENDS Authorization, TLC

CONSTANTS g1, g2, m1, m2, s1, s2, l1

\* Two stores that want the same location.
TwoStores == [m \in {m1, m2} |-> IF m = m1 THEN s1 ELSE s2]
OneLocation == [m \in {m1, m2} |-> l1]

Symmetry == Permutations(Grants) \cup Permutations(Genuine)

=============================================================================
