-------------------------- MODULE LedgerRefinement --------------------------
(***************************************************************************)
(* The refinement mapping from the ledger to GovernedOperation.            *)
(***************************************************************************)
EXTENDS Ledger

Invoked == [o \in Ops |-> issued[o] > 0]
Applied == [o \in Ops |-> begins[o] > 0 /\ done[o] = need[o]]

Governed == INSTANCE GovernedOperation
            WITH invoked <- Invoked, applied <- Applied

\* Whatever apply calls, approvals, sweeps, crashes and a slow provider do to
\* the ledger, each operation behaves as GovernedOperation promises.
RefinesGoverned == Governed!Spec

=============================================================================
