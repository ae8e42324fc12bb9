---------------------------- MODULE MCOcMessaging ----------------------------
(* Instances of the messaging layer for TLC. *)
EXTENDS OcMessaging, TLC

OneToken == {1}
TwoTokens == {1, 2}
=============================================================================
