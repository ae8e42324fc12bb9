---------------------------- MODULE MCSecuredLink ----------------------------
(***************************************************************************)
(* Instances of SecuredLink for TLC.                                       *)
(***************************************************************************)
EXTENDS SecuredLink
=============================================================================
