------------------------- MODULE MCAccountTransitions -------------------------
(***************************************************************************)
(* Instances of AccountTransitions for TLC.                                *)
(***************************************************************************)
EXTENDS AccountTransitions, TLC

CONSTANT d1

\* Every account wants the same display id.
OneDisplay == [a \in Accounts |-> d1]

Symmetry == Permutations(Accounts) \cup Permutations(Transitions)

=============================================================================
