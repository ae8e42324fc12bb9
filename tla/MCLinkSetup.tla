---------------------------- MODULE MCLinkSetup ----------------------------
(***************************************************************************)
(* Instances of LinkSetup for TLC.                                         *)
(***************************************************************************)
EXTENDS LinkSetup

Create(to, id, acc, idx) ==
    [to |-> to, id |-> id, type |-> "create_link", acc |-> acc, idx |-> idx]
Other(to, id, type) == [to |-> to, id |-> id, type |-> type]

\* A controller links to an accessory twice and may be told to unlink.
OnePair ==
    {Create("c1", 1, "a1", 1), Create("c1", 2, "a1", 3), Other("c1", 3, "unlink_all")}
=============================================================================
