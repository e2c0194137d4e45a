--------------------------- MODULE MCMessageIndex ---------------------------
(***************************************************************************)
(* Instances of MessageIndex for TLC.                                      *)
(***************************************************************************)
EXTENDS MessageIndex

=============================================================================
