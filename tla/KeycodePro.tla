------------------------------ MODULE KeycodePro ------------------------------
(***************************************************************************)
(* Nexus Keycode protocol layer (nexus_keycode_pro.c and                   *)
(* nexus_keycode_pro_extended.c): one frame at a time is handed over by    *)
(* message assembly, parsed, checked, and applied to the stored record, to *)
(* nonvolatile memory and to the product's PAYG credit.                    *)
(*                                                                         *)
(* Applying one frame is several separate effects: NV writes and calls of  *)
(* the product interface.  Each is a step here, in the order of the code,  *)
(* and power may be lost between any two of them.  What the unit then      *)
(* remembers is the last NV block written.                                 *)
(*                                                                         *)
(* Abstractions.  A keycode is a record: its type, the full message ID it  *)
(* was issued for (only the low bits travel), and the part of its body the *)
(* code branches on.  The check field is ideal: it matches exactly when    *)
(* the ID inferred by the unit is the ID the keycode was issued for.       *)
(* Credit is the product's PAYG state.  A write of an NV block is atomic.  *)
(***************************************************************************)
EXTENDS KeycodeWindow

CONSTANTS
    Protocol,     \* "full" or "small": NEXUS_KEYCODE_PROTOCOL
    Types,        \* the types of keycodes that are entered
    Ids,          \* the message IDs keycodes are issued for
    QcShortMax,   \* NEXUS_KEYCODE_PRO_FACTORY_QC_SHORT_LIFETIME_MAX
    QcLongMax,    \* NEXUS_KEYCODE_PRO_FACTORY_QC_LONG_LIFETIME_MAX
    MaxOutages    \* bound: how often power is lost

ASSUME ProAssumption ==
    /\ Protocol \in {"full", "small"}
    /\ Ids \subseteq Nat
    /\ QcShortMax \in 0..15
    /\ QcLongMax \in 0..15
    /\ MaxOutages \in Nat

VARIABLES
    stored,     \* _nexus_keycode_stored, the record in RAM
    nv,         \* NV block KEYCODE_PRO, and whether it has a valid CRC
    inbox,      \* _this_core.frame while _this_core.pending, else NoFrame
    phase,      \* how far the handler of the frame in inbox has come
    payg,       \* the product's PAYG state
    \* History of the current epoch (since the message IDs were last wiped):
    hist,       \* what became of the keycode of each ID
    floor,      \* highest ID of a SET or WIPE that has been applied, or -1
    maskTop,    \* highest ID up to which masking has begun, or -1
    qcGranted,  \* QC test credits granted in it
    torn,       \* windows between two dependent effects that power loss hit
    outages     \* number of power losses

codeVars == <<stored, nv, inbox, phase, payg>>
histVars == <<hist, floor, maskTop, qcGranted, torn, outages>>
vars == <<codeVars, histVars>>

(***************************************************************************)
(* Keycodes.                                                               *)
(***************************************************************************)
Activation(types, args) == [type : types, id : Ids, arg : args]
Unnumbered(type, args) == [type : {type}, id : {0}, arg : args]

FullFrames ==
    UNION { Activation({"ADD", "DEMO"}, {"some"}),
            Activation({"SET"}, {"some", "zero", "unlock"}),
            Activation({"WIPE"}, {"credit_and_mask", "credit", "mask_only",
                                  "custom_flag", "other"}),
            Unnumbered("QC_TEST", {"short", "mid", "long"}),
            Unnumbered("PASSTHROUGH", {"known", "unknown"}),
            Unnumbered("DEVICE_ID_DISPLAY", {"none"}),
            Unnumbered("DEVICE_ID_CONFIRMATION", {"none"}) }

\* Extended keycodes travel as passthrough keycodes of the small protocol.
ExtendedFrames == Activation({"EXTENDED"}, {"some", "zero", "unlock"})

SmallFrames ==
    UNION { Activation({"ADD"}, {"some", "unlock"}),
            ExtendedFrames,
            Activation({"SET"}, {"some", "zero", "unlock", "custom_flag"}),
            Unnumbered("WIPE", {"credit_and_mask", "credit", "mask_only",
                                "other"}),
            Unnumbered("QC_TEST", {"long"}),
            Unnumbered("PASSTHROUGH", {"unknown"}) }

Frames ==
    {f \in UNION { IF Protocol = "full" THEN FullFrames ELSE SmallFrames,
                   Unnumbered("ALLOW_TEST", {"none"}),
                   Unnumbered("GARBLED", {"none"}) } : f.type \in Types}

NoFrame == [type |-> "NONE", id |-> 0, arg |-> "none"]

\* Types whose ID is inferred on receipt.
Numbered(f) ==
    \/ f.type \in {"ADD", "SET", "DEMO", "EXTENDED"}
    \/ f.type = "WIPE" /\ Protocol = "full"

\* Faulty variant: mask_below_message_id is never called.
MasksBelow_Never(f) == FALSE

\* Types that invalidate every ID up to their own, not only their own.
MasksBelow(f) == f.type \in {"SET", "WIPE", "EXTENDED"}

(***************************************************************************)
(* Stored record and types.                                                *)
(***************************************************************************)
Stored == [pd : {n \in Nat : n >= Below}, flags : SUBSET MaskIndices,
           short : 0..15, long : 0..15, restricted : BOOLEAN]

\* The record nexus_keycode_pro_init leaves when NV holds no valid block.
Default == [pd |-> Below, flags |-> {}, short |-> 0, long |-> 0,
            restricted |-> FALSE]

Phases == {"idle", "granted", "wiped", "shifted", "marked", "zeroed", "count"}
PaygStates == {"disabled", "enabled", "unlocked"}
Fates == {"fresh", "entered", "spent", "applied", "twice"}

TypeOK ==
    /\ stored \in Stored
    /\ nv \in [valid : BOOLEAN, data : Stored]
    /\ inbox \in Frames \cup {NoFrame}
    /\ phase \in Phases
    /\ payg \in PaygStates
    /\ hist \in [Ids -> Fates]
    /\ floor \in Ids \cup {-1}
    /\ maskTop \in Ids \cup {-1}
    /\ qcGranted \in [short : 0..(QcShortMax + 1), long : 0..(QcLongMax + 1)]
    /\ torn \in SUBSET {"shift", "extended", "count"}
    /\ outages \in 0..MaxOutages

Init ==
    /\ stored = Default
    /\ nv = [valid |-> FALSE, data |-> Default]
    /\ inbox = NoFrame
    /\ phase = "idle"
    /\ payg = "disabled"
    /\ hist = [id \in Ids |-> "fresh"]
    /\ floor = -1
    /\ maskTop = -1
    /\ qcGranted = [short |-> 0, long |-> 0]
    /\ torn = {}
    /\ outages = 0

(***************************************************************************)
(* Effects.                                                                *)
(***************************************************************************)
\* nexus_nv_read: an invalid block leaves the record in RAM as it is.
nv_read(st) == IF nv.valid THEN nv.data ELSE st

\* _update_keycode_pro_nv_blocks, after the record in RAM became st.
nv_update(st) ==
    /\ stored' = st
    /\ nv' = [valid |-> TRUE, data |-> st]

payg_credit_add == payg' = IF payg = "disabled" THEN "enabled" ELSE payg

payg_credit_set(arg) ==
    payg' = CASE arg = "unlock" -> "unlocked"
              [] arg = "zero"   -> "disabled"
              [] OTHER          -> "enabled"

\* The handler returns its response: nexus_keycode_pro_process shows the
\* feedback for it, which is not modelled, and clears the pending frame.
Done == inbox' = NoFrame /\ phase' = "idle"

Higher(a, b) == IF a >= b THEN a ELSE b

Enter(f) ==
    /\ hist' = [hist EXCEPT ![f.id] = IF @ = "fresh" THEN "entered" ELSE @]
    /\ maskTop' = IF MasksBelow(f) THEN Higher(maskTop, f.id) ELSE maskTop

AppliedFate(fate) == IF fate \in {"applied", "twice"} THEN "twice" ELSE "applied"

Applied(id) == hist' = [hist EXCEPT ![id] = AppliedFate(@)]

SpentFate(fate) == IF fate = "entered" THEN "spent" ELSE fate

Spent(id) == hist' = [hist EXCEPT ![id] = SpentFate(@)]

\* A WIPE of the message IDs begins an epoch: the keycodes issued from then on
\* use the IDs again, and the unit counts its QC test codes from 0 again.
NewEpoch ==
    /\ hist' = [id \in Ids |-> "fresh"]
    /\ floor' = -1
    /\ maskTop' = -1
    /\ qcGranted' = [short |-> 0, long |-> 0]

(***************************************************************************)
(* Marking message IDs as received:                                        *)
(* nexus_keycode_pro_set_full_message_id_flag for ADD,                     *)
(* nexus_keycode_pro_mask_below_message_id(id + 1) for the others.  Raising *)
(* Pd writes NV of its own before the flags are set, and clears the flags  *)
(* with another write before that when it leaves the whole window behind.  *)
(***************************************************************************)
MarkTarget(f) == IF MasksBelow(f) THEN uint16(f.id + 1) - 1 ELSE uint16(f.id)

MarksNothing(st, f) ==
    /\ MasksBelow(f)
    /\ \/ uint16(f.id + 1) = 0
       \/ uint16(f.id + 1) < st.pd - Below

\* Faulty variant: every ID is recorded in the flag of Pd.
Marked_AtPd(st, f) == [st EXCEPT !.flags = @ \cup {Below}]

Marked(st, f) ==
    LET idx == UpdatedMaskIndex(st.pd, MarkTarget(f))
    IN  [st EXCEPT !.flags = @ \cup (IF MasksBelow(f) THEN 0..idx ELSE {idx})]

\* The first NV write of marking, from the record st.
BeginMark(st, f) ==
    LET t == MarkTarget(f)
    IN  \/ /\ MarksNothing(st, f)
           /\ stored' = st
           /\ phase' = "marked"
           /\ UNCHANGED nv
        \/ /\ ~MarksNothing(st, f)
           /\ t <= st.pd
           /\ nv_update(Marked(st, f))
           /\ phase' = "marked"
        \/ /\ ~MarksNothing(st, f)
           /\ st.pd < t /\ t <= st.pd + Below
           /\ nv_update([st EXCEPT !.pd = t,
                                   !.flags = ShiftedFlags(@, t - st.pd)])
           /\ phase' = "shifted"
        \/ /\ ~MarksNothing(st, f)
           /\ t > st.pd + Below
           /\ nv_update([st EXCEPT !.flags = ShiftedFlags(@, t - st.pd)])
           /\ phase' = "wiped"

\* increase_pd_and_shift_window_right, after wipe_message_ids_in_window.
RaisePd ==
    /\ phase = "wiped"
    /\ nv_update([stored EXCEPT !.pd = MarkTarget(inbox)])
    /\ phase' = "shifted"
    /\ UNCHANGED <<inbox, payg, histVars>>

MarkIds ==
    /\ phase = "shifted"
    /\ nv_update(Marked(stored, inbox))
    /\ phase' = "marked"
    /\ UNCHANGED <<inbox, payg, histVars>>

(***************************************************************************)
(* nexus_keycode_pro_process, up to the first effect of the pending frame. *)
(***************************************************************************)
Handling(f) ==
    /\ phase = "idle"
    /\ inbox = f
    /\ f # NoFrame

IsActivation(f) == Numbered(f) /\ f.type # "EXTENDED"

\* The ID the unit infers for the frame, from the Pd it holds in RAM, is the
\* one its check field was computed for.
CheckMatches(f) == infer_full_message_id(f.id % IdSpace, stored.pd) = f.id

\* An EXTENDED keycode is tried against every ID of the window that is not
\* flagged yet: it matches when the ID it was issued for is one of them.
ExtendedMatches(f) ==
    /\ f.id \in WindowIds(stored.pd)
    /\ ~MessageIdFlag(stored.pd, stored.flags, f.id)

\* A frame that does not parse, fails its check, or is passed on to an
\* application that does not know it.
RejectInvalid(f) ==
    /\ Handling(f)
    /\ \/ f.type = "GARBLED"
       \/ f.type = "PASSTHROUGH" /\ f.arg = "unknown"
       \/ IsActivation(f) /\ ~CheckMatches(f)
       \/ f.type = "EXTENDED" /\ ~ExtendedMatches(f)
       \/ f.type = "WIPE" /\ Protocol = "small" /\ f.arg = "other"
    /\ Done
    /\ UNCHANGED <<stored, nv, payg, histVars>>

\* "Full" passthrough commands are answered by the application, not here.
PassThrough(f) ==
    /\ Handling(f)
    /\ f.type = "PASSTHROUGH" /\ f.arg = "known"
    /\ Done
    /\ UNCHANGED <<stored, nv, payg, histVars>>

\* The test at the head of apply_activation, which first refreshes the
\* record in RAM from NV.
get_full_message_id_flag(id) ==
    LET st == nv_read(stored) IN MessageIdFlag(st.pd, st.flags, uint16(id))

\* Faulty variant: the pending frame is not cleared.
RejectDuplicate_KeepsPending(f) ==
    /\ Handling(f)
    /\ IsActivation(f) /\ CheckMatches(f)
    /\ get_full_message_id_flag(f.id)
    /\ stored' = nv_read(stored)
    /\ UNCHANGED <<inbox, phase, nv, payg, histVars>>

RejectDuplicate(f) ==
    /\ Handling(f)
    /\ IsActivation(f) /\ CheckMatches(f)
    /\ get_full_message_id_flag(f.id)
    /\ stored' = nv_read(stored)
    /\ Done
    /\ UNCHANGED <<nv, payg, histVars>>

\* ADD, SET and (in the full protocol) WIPE start by marking their ID.
BeginActivation(f) ==
    /\ Handling(f)
    /\ IsActivation(f) /\ f.type # "DEMO" /\ CheckMatches(f)
    /\ ~get_full_message_id_flag(f.id)
    /\ BeginMark(nv_read(stored), f)
    /\ Enter(f)
    /\ UNCHANGED <<inbox, payg, floor, qcGranted, torn, outages>>

\* Demo codes mark no ID and can be used again.
ApplyDemo(f) ==
    /\ Handling(f)
    /\ f.type = "DEMO" /\ CheckMatches(f)
    /\ ~get_full_message_id_flag(f.id)
    /\ stored' = nv_read(stored)
    /\ IF payg = "unlocked" THEN UNCHANGED payg ELSE payg_credit_add
    /\ Done
    /\ UNCHANGED <<nv, histVars>>

(***************************************************************************)
(* The effects that follow the marking of IDs.                             *)
(***************************************************************************)
ApplyAdd ==
    /\ phase = "marked" /\ inbox.type = "ADD"
    /\ Done
    /\ IF payg = "unlocked"
         THEN Spent(inbox.id) /\ UNCHANGED payg
         ELSE /\ Applied(inbox.id)
              /\ IF inbox.arg = "unlock" THEN payg_credit_set("unlock")
                                         ELSE payg_credit_add
    /\ UNCHANGED <<stored, nv, floor, maskTop, qcGranted, torn, outages>>

\* SET, and the WIPE of credit.
ApplySet ==
    /\ phase = "marked"
    /\ \/ inbox.type = "SET" /\ inbox.arg # "custom_flag"
          /\ payg_credit_set(inbox.arg)
       \/ inbox.type = "WIPE" /\ inbox.arg = "credit"
          /\ payg_credit_set("zero")
    /\ Done
    /\ Applied(inbox.id)
    /\ floor' = Higher(floor, inbox.id)
    /\ UNCHANGED <<stored, nv, maskTop, qcGranted, torn, outages>>

reset_custom_flag == nv_update([stored EXCEPT !.restricted = FALSE])

\* SET or WIPE of the RESTRICTED flag, and the end of an EXTENDED keycode.
ApplyCustomFlag ==
    /\ phase = "marked"
    /\ inbox.arg = "custom_flag" \/ inbox.type = "EXTENDED"
    /\ reset_custom_flag
    /\ Done
    /\ IF inbox.type = "EXTENDED" THEN UNCHANGED hist ELSE Applied(inbox.id)
    /\ floor' = Higher(floor, inbox.id)
    /\ UNCHANGED <<payg, maskTop, qcGranted, torn, outages>>

\* A WIPE whose target is unknown has marked its ID and is then refused.
RejectWipeTarget ==
    /\ phase = "marked" /\ inbox.type = "WIPE" /\ inbox.arg = "other"
    /\ Done
    /\ Spent(inbox.id)
    /\ UNCHANGED <<stored, nv, payg, floor, maskTop, qcGranted, torn, outages>>

\* reset_pd_index, reset_test_code_count, wipe_message_ids_in_window: in the
\* small protocol at once, in the full protocol after marking.
WipeMask ==
    /\ inbox.type = "WIPE" /\ inbox.arg \in {"credit_and_mask", "mask_only"}
    /\ phase = IF Protocol = "full" THEN "marked" ELSE "idle"
    /\ nv_update([stored EXCEPT !.pd = Below, !.flags = {},
                                !.short = 0, !.long = 0])
    /\ IF inbox.arg = "mask_only"
         THEN Done
         ELSE phase' = "zeroed" /\ UNCHANGED <<inbox>>
    /\ NewEpoch
    /\ UNCHANGED <<payg, torn, outages>>

\* The credit part of WIPE credit_and_mask, and the small protocol's WIPE
\* of credit, which carries no ID.
WipeCredit ==
    /\ inbox.type = "WIPE"
    /\ \/ phase = "zeroed"
       \/ phase = "idle" /\ Protocol = "small" /\ inbox.arg = "credit"
    /\ payg_credit_set("zero")
    /\ Done
    /\ UNCHANGED <<stored, nv, histVars>>

(***************************************************************************)
(* nexus_keycode_pro_extended_small_apply: the credit is set first, the ID *)
(* is marked afterwards.                                                   *)
(***************************************************************************)
GrantExtended(f) ==
    /\ Handling(f)
    /\ f.type = "EXTENDED" /\ ExtendedMatches(f)
    /\ payg_credit_set(f.arg)
    /\ phase' = "granted"
    /\ Applied(f.id)
    /\ maskTop' = Higher(maskTop, f.id)
    /\ UNCHANGED <<stored, nv, inbox, floor, qcGranted, torn, outages>>

MarkExtended ==
    /\ phase = "granted"
    /\ BeginMark(stored, inbox)
    /\ UNCHANGED <<inbox, payg, histVars>>

(***************************************************************************)
(* Factory messages.                                                       *)
(***************************************************************************)
AllowTest(f) ==
    /\ Handling(f)
    /\ f.type = "ALLOW_TEST"
    /\ Done
    /\ payg' = IF payg = "disabled" THEN "enabled" ELSE payg
    /\ UNCHANGED <<stored, nv, histVars>>

QcKind(arg) == IF arg = "short" THEN "short" ELSE "long"
QcMax(kind) == IF kind = "short" THEN QcShortMax ELSE QcLongMax

\* The two counts of a record: the nibbles of qc_test_codes_received.
QcCount(r, kind) == IF kind = "short" THEN r.short ELSE r.long
WithQcCount(r, kind, n) ==
    IF kind = "short" THEN [r EXCEPT !.short = n] ELSE [r EXCEPT !.long = n]

can_unit_accept_qc_code(arg) ==
    /\ payg # "unlocked"
    /\ arg = "long" \/ payg = "disabled"
    /\ QcCount(stored, QcKind(arg)) < QcMax(QcKind(arg))

RejectQc(f) ==
    /\ Handling(f)
    /\ f.type = "QC_TEST" /\ ~can_unit_accept_qc_code(f.arg)
    /\ Done
    /\ UNCHANGED <<stored, nv, payg, histVars>>

\* The history count saturates one above the limit.
GrantQc(f) ==
    /\ Handling(f)
    /\ f.type = "QC_TEST" /\ can_unit_accept_qc_code(f.arg)
    /\ payg_credit_add
    /\ phase' = "count"
    /\ LET kind == QcKind(f.arg)
           n == QcCount(qcGranted, kind)
       IN  qcGranted' = WithQcCount(qcGranted, kind,
                                    IF n > QcMax(kind) THEN n ELSE n + 1)
    /\ UNCHANGED <<stored, nv, inbox, hist, floor, maskTop, torn,
                   outages>>

\* Faulty variant: the count is kept in RAM only.
increment_qc_test_message_count_Unsaved ==
    /\ stored' = WithQcCount(stored, QcKind(inbox.arg),
                             QcCount(stored, QcKind(inbox.arg)) + 1)
    /\ UNCHANGED nv

increment_qc_test_message_count ==
    LET kind == QcKind(inbox.arg)
        count == QcCount(stored, kind) + 1
    IN  IF count > 15 \/ count > QcMax(kind)
          THEN UNCHANGED <<stored, nv>>
          ELSE nv_update(WithQcCount(stored, kind, count))

CountQc ==
    /\ phase = "count"
    /\ increment_qc_test_message_count
    /\ Done
    /\ UNCHANGED <<payg, histVars>>

DeviceId(f) ==
    /\ Handling(f)
    /\ f.type \in {"DEVICE_ID_DISPLAY", "DEVICE_ID_CONFIRMATION"}
    /\ Done
    /\ UNCHANGED <<stored, nv, payg, histVars>>

(***************************************************************************)
(* The callers: message assembly (at interrupt time), the product, power.  *)
(***************************************************************************)
\* Faulty variant: a new frame replaces the pending one.
pro_enqueue_Overwrites(f) ==
    /\ inbox' = f
    /\ UNCHANGED <<stored, nv, phase, payg, histVars>>

\* A frame that arrives while another one is pending is dropped.
pro_enqueue(f) ==
    /\ inbox' = IF inbox = NoFrame THEN f ELSE inbox
    /\ UNCHANGED <<stored, nv, phase, payg, histVars>>

\* Faulty variant: the flag is kept in RAM only.
nx_keycode_set_custom_flag_Unsaved ==
    /\ phase = "idle"
    /\ stored' = [stored EXCEPT !.restricted = TRUE]
    /\ UNCHANGED <<nv, inbox, phase, payg, histVars>>

\* Called from the product's main loop, so never inside a frame's handler.
nx_keycode_set_custom_flag ==
    /\ phase = "idle"
    /\ nv_update([stored EXCEPT !.restricted = TRUE])
    /\ UNCHANGED <<inbox, phase, payg, histVars>>

\* The product's credit runs out.
CreditExpires ==
    /\ payg = "enabled"
    /\ payg' = "disabled"
    /\ UNCHANGED <<stored, nv, inbox, phase, histVars>>

\* Windows that separate an effect from the write that makes it final.
TornWindows ==
    UNION { IF phase = "wiped" THEN {"shift"} ELSE {},
            IF phase = "count" THEN {"count"} ELSE {},
            IF inbox.type = "EXTENDED" /\ phase \in {"granted", "wiped", "shifted"}
              THEN {"extended"} ELSE {} }

\* Power is lost, and nexus_keycode_pro_init runs on the next start.
PowerLoss ==
    /\ outages < MaxOutages
    /\ outages' = outages + 1
    /\ torn' = torn \cup TornWindows
    /\ inbox' = NoFrame
    /\ phase' = "idle"
    /\ stored' = nv_read(Default)
    /\ UNCHANGED <<nv, payg, hist, floor, maskTop, qcGranted>>

(***************************************************************************)
(* nexus_keycode_pro_process as a whole.                                   *)
(***************************************************************************)
BeginFrame(f) ==
    \/ RejectInvalid(f) \/ PassThrough(f) \/ RejectDuplicate(f)
    \/ BeginActivation(f) \/ ApplyDemo(f) \/ GrantExtended(f)
    \/ AllowTest(f) \/ RejectQc(f) \/ GrantQc(f) \/ DeviceId(f)

ContinueFrame ==
    \/ RaisePd \/ MarkIds \/ MarkExtended
    \/ ApplyAdd \/ ApplySet \/ ApplyCustomFlag \/ RejectWipeTarget
    \/ WipeMask \/ WipeCredit \/ CountQc

pro_process == ContinueFrame \/ \E f \in Frames : BeginFrame(f)

Next ==
    \/ pro_process
    \/ \E f \in Frames : pro_enqueue(f)
    \/ nx_keycode_set_custom_flag
    \/ CreditExpires
    \/ PowerLoss

Spec == Init /\ [][Next]_vars

\* Enqueueing a frame requests processing, so the main loop runs.
FairSpec == Spec /\ WF_vars(pro_process)

(***************************************************************************)
(* Properties.                                                             *)
(***************************************************************************)
\* IDs are handed on as uint16_t, and id + 1 is formed for masking: the
\* properties hold for the IDs that survive that conversion.
IdsFit == \A id \in Ids : id + 1 < IdModulus

NotReplayable == IdsFit /\ torn \cap {"shift", "extended"} = {}

\* A keycode takes effect at most once between two wipes of the message IDs,
\* whatever is entered in whatever order and wherever power is lost, except
\* in the two windows named by torn.  (The first test of
\* full_apply_activation and small_apply.)
AtMostOnce == NotReplayable => \A id \in Ids : hist[id] # "twice"

\* The same without the exceptions, as the comment at the test says: "reject
\* any activation message if its already been applied."
NeverTwice == \A id \in Ids : hist[id] # "twice"

\* Once a SET or WIPE keycode has been applied, no keycode with a lower ID is
\* applied any more: mask_below_message_id invalidates all of them, and the
\* window never moves back.
NoStaleApply ==
    [][NotReplayable =>
          \A id \in Ids :
             /\ hist'[id] # hist[id]
             /\ hist'[id] \in {"applied", "twice"}
             => id > floor]_vars

\* No keycode is taken for a duplicate unless it was entered or a SET, WIPE
\* or EXTENDED keycode with this ID or a higher one was: shifting the window
\* never moves a flag onto another ID.
NoFalseDuplicate ==
    IdsFit =>
        \A id \in Ids :
            MessageIdFlag(nv.data.pd, nv.data.flags, id)
                => hist[id] # "fresh" \/ id <= maskTop

\* While power stays on, a keycode whose ID has been consumed has also had its
\* effect, or is one the unit declines (ADD on an unlocked unit, an unknown
\* WIPE target), by the time the handler is done.
NoSilentLoss ==
    phase = "idle" /\ outages = 0 => \A id \in Ids : hist[id] # "entered"

\* Between two WIPEs of the message IDs no more QC test codes are honoured than
\* their limit, unless power is lost between the credit of a code and the write
\* of its count.  Kconfig and the comment on increment_qc_test_message_count
\* speak of a limit over the unit's "entire lifetime"; that one does not hold,
\* since WIPE calls reset_test_code_count.
QcLimitPerEpoch ==
    "count" \notin torn => /\ qcGranted.short <= QcShortMax
                           /\ qcGranted.long <= QcLongMax

\* Nothing the record in RAM says is lost by the re-read of NV that every
\* duplicate test performs, or by a restart.
StoredPersisted == stored = nv_read(Default)

\* Every pending frame is dealt with, so that the next one can be entered.
FrameResolved == []<>(inbox = NoFrame)

\* What the record in NV and the product's credit say of each other at any
\* moment, in one invariant: no keycode twice, none refused that was not
\* entered, none consumed without its effect, no test code beyond its limit in
\* this epoch, and nothing of it in RAM only.
KeycodesSound ==
    /\ TypeOK
    /\ AtMostOnce
    /\ NoFalseDuplicate
    /\ NoSilentLoss
    /\ QcLimitPerEpoch
    /\ StoredPersisted

=============================================================================
