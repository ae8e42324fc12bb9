----------------------------- MODULE LinkContract -----------------------------
(***************************************************************************)
(* What linking two devices promises, whatever the network and the power   *)
(* do.  A link is known by its key, agreed on for one challenge of one     *)
(* accessory and one controller.  A challenge gives an accessory at most   *)
(* one link, ever; a controller has a link only if the accessory accepted  *)
(* that very key before; a device holds at most one link to another one;   *)
(* and a link that is gone does not come back.                             *)
(***************************************************************************)
EXTENDS Integers

CONSTANTS
    Devices,
    Keys       \* records with at least the fields ctl, acc and idx

VARIABLES
    held,      \* the keys of the links each device has
    ever       \* the keys of the links each device has ever had

Peer(d, k) == IF k.acc = d THEN k.ctl ELSE k.acc

Init ==
    /\ held = [d \in Devices |-> {}]
    /\ ever = [d \in Devices |-> {}]

\* A device takes on the link of key k and lets go of the links in lost.
Accept(d, k, lost) ==
    /\ k \notin ever[d]
    /\ k.acc = d  => \A used \in ever[d] : used.acc = d => used.idx # k.idx
    /\ k.acc # d  => k.ctl = d /\ k \in ever[k.acc]
    /\ \A other \in held[d] \ lost : Peer(d, other) # Peer(d, k)
    /\ held' = [held EXCEPT ![d] = (@ \ lost) \cup {k}]
    /\ ever' = [ever EXCEPT ![d] = @ \cup {k}]

\* Links end: by timeout, by command, by replacement, by power loss before
\* they were saved.
Drop(d, lost) ==
    /\ held' = [held EXCEPT ![d] = @ \ lost]
    /\ ever' = ever

Next ==
    \E d \in Devices : \E lost \in SUBSET held[d] :
        \/ Drop(d, lost)
        \/ \E k \in Keys : Accept(d, k, lost)

Spec == Init /\ [][Next]_<<held, ever>>
=============================================================================
