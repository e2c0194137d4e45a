------------------------ MODULE MCAuthorityBootstrap ------------------------
(***************************************************************************)
(* Instance of AuthorityBootstrap for TLC.                                 *)
(***************************************************************************)
EXTENDS AuthorityBootstrap

=============================================================================
