----------------------------- MODULE MCKeycodePro -----------------------------
(***************************************************************************)
(* Instances of KeycodePro for TLC.                                        *)
(***************************************************************************)
EXTENDS KeycodePro
=============================================================================
