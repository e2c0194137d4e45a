------------------------------ MODULE MCLedger ------------------------------
(***************************************************************************)
(* Instances of Ledger for TLC.                                            *)
(***************************************************************************)
EXTENDS LedgerRefinement, TLC

\* Operations are interchangeable, and nothing changes the kind and the expiry
\* of a planned one.  So of two planned operations a fixed one comes first in
\* this order.  Unlike a symmetry set this is sound for liveness: a behaviour
\* that is left out is the image of one that is explored.
KindRank == [send |-> 1, mailbox |-> 2, draft |-> 3]
Rank(o) == KindRank[kind[o]] * (MaxClock + Ttl + 1) + expiresAt[o]
FirstOp == CHOOSE o \in Ops : TRUE
PlannedInOrder ==
    (\A o \in Ops : status[o] # "none") => \A o \in Ops : Rank(FirstOp) <= Rank(o)

=============================================================================
