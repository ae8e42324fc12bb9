----------------------------- MODULE MCKeycodeMas -----------------------------
(***************************************************************************)
(* Instances of KeycodeMas for TLC.                                        *)
(***************************************************************************)
EXTENDS KeycodeMas
=============================================================================
