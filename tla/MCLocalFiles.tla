---------------------------- MODULE MCLocalFiles ----------------------------
(***************************************************************************)
(* Instance of LocalFiles for TLC.                                         *)
(***************************************************************************)
EXTENDS LocalFiles, TLC

\* Nothing orders or names the members of these sets.
Symmetry ==
    Permutations(Processes) \cup Permutations(Servers) \cup Permutations(Ids)
        \cup Permutations(Inodes)

\* The stores and the configuration file share no state: a legacy outbox is
\* explored before the first account is created.  Nothing is claimed of the
\* file after an inode number was reused.
Bound ==
    /\ legacy = {} \/ file = Missing
    /\ ~reused

=============================================================================
