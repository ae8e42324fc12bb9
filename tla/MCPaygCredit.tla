---------------------------- MODULE MCPaygCredit ----------------------------
(* PaygCredit for TLC: three accessories and a controller; a cycle is longer *)
(* than one POST to each of them, as the 25 and 2 seconds of the code are    *)
(* for 8 links.                                                              *)
EXTENDS PaygCredit, TLC

(* Accessories differ only by their place in the link table. *)
AccessoryNames == Permutations(Accessories)

=============================================================================
