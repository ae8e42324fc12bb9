---------------------------- MODULE ReceiveWindow ----------------------------
(***************************************************************************)
(* The generic window of received IDs of nexus_util.c: a center, one flag  *)
(* for the center and for each of the Below IDs under it, none for the     *)
(* Above IDs over it.  Origin commands and link handshakes keep one each.  *)
(*                                                                         *)
(* A window is a record [center, flags]; flags is the set of the bits of   *)
(* the flag array that are set.  Bit Below belongs to the center.          *)
(***************************************************************************)
EXTENDS Integers

CONSTANTS
    Below,   \* flags_below
    Above    \* flags_above

Window == [center : Nat, flags : SUBSET (0..Below)]

\* nexus_util_window_init with the center both users start from: nothing is
\* flagged and the window's lowest ID is 0.
window_init == [center |-> Below, flags |-> {}]

id_within_window(w, id) ==
    /\ id >= w.center - Below
    /\ id <= w.center + Above

\* _nexus_util_window_mask_idx_from_id, for an ID within the window.
mask_idx_from_id(w, id) == Below - (w.center - id)

id_flag_already_set(w, id) ==
    /\ id <= w.center
    /\ id_within_window(w, id)
    /\ mask_idx_from_id(w, id) \in w.flags

\* The flags of a window moved up by inc: bit i becomes bit i - inc, the
\* lowest inc flags drop out.
shifted_flags(w, inc) ==
    IF inc > Below THEN {} ELSE {i - inc : i \in w.flags \cap inc..Below}

\* nexus_util_window_set_id_flag: an ID over the center becomes the center.
set_id_flag(w, id) ==
    IF ~id_within_window(w, id) THEN w
    ELSE IF id <= w.center
         THEN [w EXCEPT !.flags = @ \cup {mask_idx_from_id(w, id)}]
         ELSE [center |-> id,
               flags |-> shifted_flags(w, id - w.center) \cup {Below}]

\* An ID is tried by the receiver iff it is in the window and not flagged.
usable(w, id) == id_within_window(w, id) /\ ~id_flag_already_set(w, id)
=============================================================================
