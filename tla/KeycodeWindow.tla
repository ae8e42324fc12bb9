---------------------------- MODULE KeycodeWindow ----------------------------
(***************************************************************************)
(* The message-ID window of Nexus Keycode (nexus_keycode_pro.c).  Every    *)
(* activation keycode carries a message ID; the unit remembers the highest *)
(* ID it has seen, Pd, and one received flag for each of the Below IDs     *)
(* under Pd and for Pd itself.  This module holds the pure part: what the  *)
(* code computes from the stored record, without its NV writes.            *)
(*                                                                         *)
(* The byte array received_flags is the set of the mask indices whose bit  *)
(* is 1: index Below is Pd, index 0 is Pd - Below.                         *)
(***************************************************************************)
EXTENDS Integers

CONSTANTS
    Below,      \* NEXUS_KEYCODE_PRO_RECEIVE_WINDOW_BEFORE_PD (23)
    Above,      \* NEXUS_KEYCODE_PRO_RECEIVE_WINDOW_AFTER_PD (40)
    IdSpace,    \* number of compressed IDs a keycode can carry (0x3F + 1)
    IdModulus   \* IDs are passed on as uint16_t: 2^16 in the code

(***************************************************************************)
(* The window is exactly as wide as the space of compressed IDs, so that   *)
(* each compressed ID stands for one ID of the window.                     *)
(***************************************************************************)
ASSUME WindowAssumption ==
    /\ Below \in Nat
    /\ Above \in Nat
    /\ IdSpace = Below + Above + 1
    /\ IdModulus \in Nat \ {0}

MaskIndices == 0..Below

uint16(n) == n % IdModulus

(***************************************************************************)
(* Receiving: a keycode carries ID % IdSpace, and the unit searches its    *)
(* window upwards for the first ID with those low bits.                    *)
(***************************************************************************)
WindowIds(pd) == (pd - Below)..(pd + Above)

infer_full_message_id(compressed, pd) ==
    LET matches == {id \in WindowIds(pd) : id % IdSpace = compressed}
    IN  IF matches = {}
          THEN pd + Above + 1
          ELSE CHOOSE id \in matches : \A other \in matches : id <= other

is_message_id_within_window(pd, id) ==
    /\ pd - Below <= id
    /\ id <= pd + Above

\* Only called for IDs of the window.
mask_idx_from_message_id(pd, id) == Below - (pd - id)

\* The answer of nexus_keycode_pro_get_full_message_id_flag once the stored
\* record has been refreshed from NV: nothing is known above Pd or outside
\* the window.
MessageIdFlag(pd, flags, id) ==
    /\ id <= pd
    /\ is_message_id_within_window(pd, id)
    /\ mask_idx_from_message_id(pd, id) \in flags

(***************************************************************************)
(* Moving: raising Pd by inc keeps the flags of the IDs that stay in the   *)
(* window; a larger step keeps none.                                       *)
(***************************************************************************)
\* Faulty variants of ShiftedFlags: bits shifted out at the bottom are kept;
\* the shift is one bit short; a step as wide as the mask empties it.
ShiftedFlags_Unbounded(flags, inc) == {i - inc : i \in flags}
ShiftedFlags_OneShort(flags, inc) ==
    {i \in MaskIndices : i + inc - 1 \in flags}
ShiftedFlags_DropsLast(flags, inc) ==
    IF inc >= Below THEN {} ELSE {i \in MaskIndices : i + inc \in flags}

ShiftedFlags(flags, inc) ==
    IF inc > Below
      THEN {}
      ELSE {i \in MaskIndices : i + inc \in flags}

\* The index update_window_and_message_mask_id hands back for an ID: that of
\* Pd when the ID is the new Pd, and also when the ID is below the window.
UpdatedMaskIndex(pd, id) ==
    IF id <= pd /\ id >= pd - Below
      THEN mask_idx_from_message_id(pd, id)
      ELSE Below

=============================================================================
