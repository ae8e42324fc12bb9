--------------------------- MODULE KeycodeProProofs ---------------------------
(***************************************************************************)
(* Proofs about KeycodePro, for every window size, set of message IDs and  *)
(* number of power losses.                                                 *)
(*                                                                         *)
(* The argument.  An ID is Dead once its keycode has been applied or a SET *)
(* or WIPE with this or a higher ID has; it is Covered when the stored     *)
(* record makes the unit refuse it: it lies below the window, or its flag  *)
(* is set.  Between frames every dead ID is covered, so no dead ID is      *)
(* applied.  While a frame is handled there are two exceptions, and they   *)
(* are the windows that torn records: after a jump of Pd has cleared the   *)
(* flags but has not raised Pd, dead IDs are only known to be at most the  *)
(* old Pd; and an EXTENDED keycode is dead before it is covered.           *)
(***************************************************************************)
EXTENDS KeycodePro, TLAPS, WellFoundedInduction

CoveredBy(st, id) ==
    \/ id < st.pd - Below
    \/ MessageIdFlag(st.pd, st.flags, id)

Covered(id) == CoveredBy(stored, id)

Dead(id) == hist[id] = "applied" \/ id <= floor

\* What the phase says about the frame being handled.
PhaseInv ==
    /\ phase # "idle" => inbox # NoFrame
    /\ phase \in {"granted", "wiped", "shifted", "marked"}
         => Numbered(inbox) /\ inbox.type # "DEMO"
    /\ phase = "granted" => inbox.type = "EXTENDED"
    /\ phase = "wiped" => MarkTarget(inbox) > stored.pd + Below
    /\ phase = "shifted" => MarkTarget(inbox) = stored.pd

\* The EXTENDED keycode whose credit is set but whose ID is not marked yet.
Unmarked(id) ==
    /\ phase \in {"granted", "wiped", "shifted"}
    /\ inbox.type = "EXTENDED"
    /\ id = inbox.id

DeadCovered ==
    \A id \in Ids :
        Dead(id) => \/ Unmarked(id)
                    \/ phase = "wiped" /\ id <= stored.pd
                    \/ phase # "wiped" /\ Covered(id)

FrameAlive ==
    /\ phase = "granted" => inbox.id >= stored.pd - Below
    /\ phase \in {"wiped", "shifted", "marked"} /\ inbox.type # "EXTENDED"
         => ~Dead(inbox.id)
    /\ phase = "marked" =>
         /\ Covered(inbox.id)
         /\ MasksBelow(inbox)
              => \A id \in Ids : id <= inbox.id => Covered(id)

Guarded == DeadCovered /\ FrameAlive /\ NeverTwice

ReplayInv == NotReplayable => Guarded

\* A step applies a keycode only if its ID is above every SET or WIPE applied.
AppliesOnlyAbove ==
    \A id \in Ids :
        hist'[id] # hist[id] /\ hist'[id] \in {"applied", "twice"} => id > floor

(***************************************************************************)
(* Lemmas on the operators of the model.                                   *)
(***************************************************************************)
\* Every nonempty set of naturals has a least element.
LEMMA LeastElement ==
    ASSUME NEW S, S \subseteq Nat, S # {}
    PROVE  \E x \in S : \A y \in S : x <= y
<1>1. PICK x \in S : \A y \in S : ~(<<y, x>> \in OpToRel(<, Nat))
  BY NatLessThanWellFounded, WFMin
<1>2. ASSUME NEW y \in S PROVE x <= y
  <2>1. ~(<<y, x>> \in OpToRel(<, Nat))
    BY <1>1
  <2>2. <<y, x>> \in Nat \X Nat
    OBVIOUS
  <2>3. ~(y < x)
    BY <2>1, <2>2 DEF OpToRel
  <2> QED BY <2>3
<1> QED BY <1>2

\* The conversion to uint16_t keeps an ID that fits.
LEMMA Uint16Fits ==
    ASSUME NEW n \in Nat, n < IdModulus
    PROVE  uint16(n) = n
BY WindowAssumption DEF uint16

\* An unsigned 16-bit value is a natural number.
LEMMA Uint16Type ==
    ASSUME NEW n \in Nat
    PROVE  uint16(n) \in Nat
BY WindowAssumption DEF uint16

\* What marking a frame's ID aims at: a natural number or, when id + 1 wraps
\* to 0, -1; the ID itself when it fits.
LEMMA MarkTargetType ==
    ASSUME NEW f, f.id \in Nat
    PROVE  /\ MarkTarget(f) \in Int
           /\ f.id + 1 < IdModulus => MarkTarget(f) = f.id
<1>1. uint16(f.id) \in Nat /\ uint16(f.id + 1) \in Nat
  BY Uint16Type
<1>2. f.id + 1 < IdModulus => uint16(f.id) = f.id /\ uint16(f.id + 1) = f.id + 1
  BY Uint16Fits, WindowAssumption
<1> QED BY <1>1, <1>2 DEF MarkTarget

\* infer_full_message_id never yields an ID below the window.
LEMMA InferredAboveBottom ==
    ASSUME NEW c \in Nat, NEW pd \in Nat, pd >= Below
    PROVE  infer_full_message_id(c, pd) >= pd - Below
<1> DEFINE matches == {id \in WindowIds(pd) : id % IdSpace = c}
<1>1. CASE matches = {}
  <2>1. infer_full_message_id(c, pd) = pd + Above + 1
    BY <1>1 DEF infer_full_message_id
  <2> QED BY <2>1, WindowAssumption
<1>2. CASE matches # {}
  <2>1. matches \subseteq Nat
    BY WindowAssumption DEF WindowIds
  <2>2. \E id \in matches : \A other \in matches : id <= other
    <3> HIDE DEF matches
    <3> QED BY <1>2, <2>1, LeastElement
  <2>3. infer_full_message_id(c, pd)
          = CHOOSE id \in matches : \A other \in matches : id <= other
    BY <1>2 DEF infer_full_message_id
  <2>4. infer_full_message_id(c, pd) \in matches
    <3> HIDE DEF matches
    <3> QED BY <2>2, <2>3
  <2> QED BY <2>4, WindowAssumption DEF WindowIds
<1> QED BY <1>1, <1>2

\* The fields of a numbered keycode.
LEMMA ActivationShape ==
    ASSUME NEW T, NEW A, NEW f \in Activation(T, A)
    PROVE  f.type \in T /\ f.id \in Ids /\ f.arg \in A
BY DEF Activation

\* The fields of a keycode without an ID.
LEMMA UnnumberedShape ==
    ASSUME NEW t, NEW A, NEW f \in Unnumbered(t, A)
    PROVE  f.type = t /\ f.id = 0 /\ f.arg \in A
BY DEF Unnumbered

\* The shape of a keycode.
LEMMA FrameShape ==
    ASSUME NEW f \in Frames
    PROVE  /\ f # NoFrame
           /\ f.id \in Nat
           /\ Numbered(f) => f.id \in Ids
           /\ Numbered(f) /\ f.type # "DEMO"
                => f.type \in {"ADD", "SET", "WIPE", "EXTENDED"}
           /\ f.arg = "custom_flag" => f.type \in {"SET", "WIPE"}
<1>1. \/ f \in Unnumbered("ALLOW_TEST", {"none"}) \/ f \in Unnumbered("GARBLED", {"none"})
         \/ (Protocol = "full" /\ f \in FullFrames)
         \/ (Protocol # "full" /\ f \in SmallFrames)
  BY DEF Frames
<1>2. CASE f \in Unnumbered("ALLOW_TEST", {"none"}) \/ f \in Unnumbered("GARBLED", {"none"})
  BY <1>2 DEF Unnumbered, NoFrame, Numbered
<1>3. CASE Protocol = "full" /\ f \in FullFrames
  <2>1. \/ f \in Activation({"ADD", "DEMO"}, {"some"})
        \/ f \in Activation({"SET"}, {"some", "zero", "unlock"})
        \/ f \in Activation({"WIPE"}, {"credit_and_mask", "credit", "mask_only",
                                       "custom_flag", "other"})
        \/ f \in Unnumbered("QC_TEST", {"short", "mid", "long"})
        \/ f \in Unnumbered("PASSTHROUGH", {"known", "unknown"})
        \/ f \in Unnumbered("DEVICE_ID_DISPLAY", {"none"})
        \/ f \in Unnumbered("DEVICE_ID_CONFIRMATION", {"none"})
    BY <1>3 DEF FullFrames
  <2>2. \/ f.type \in {"ADD", "DEMO", "SET"} /\ f.id \in Ids /\ f.arg # "custom_flag"
        \/ f.type = "WIPE" /\ f.id \in Ids
        \/ /\ f.type \in {"QC_TEST", "PASSTHROUGH", "DEVICE_ID_DISPLAY",
                          "DEVICE_ID_CONFIRMATION"}
           /\ f.id = 0 /\ f.arg # "custom_flag"
    BY <2>1, ActivationShape, UnnumberedShape
  <2>3. f.type # "NONE"
    BY <2>2
  <2>4. f # NoFrame
    BY <2>3 DEF NoFrame
  <2>5. f.id \in Nat
    <3>1. Ids \subseteq Nat
      BY ProAssumption
    <3>2. f.id \in Ids \/ f.id = 0
      BY <2>2
    <3>3. 0 \in Nat
      OBVIOUS
    <3> QED BY <3>1, <3>2, <3>3, Zenon
  <2>6. /\ Numbered(f) => f.id \in Ids
        /\ Numbered(f) /\ f.type # "DEMO"
             => f.type \in {"ADD", "SET", "WIPE", "EXTENDED"}
        /\ f.arg = "custom_flag" => f.type \in {"SET", "WIPE"}
    BY <2>2, <1>3 DEF Numbered
  <2> QED BY <2>4, <2>5, <2>6
<1>4. CASE Protocol # "full" /\ f \in SmallFrames
  <2>1. \/ f \in Activation({"ADD"}, {"some", "unlock"})
        \/ f \in ExtendedFrames
        \/ f \in Activation({"SET"}, {"some", "zero", "unlock", "custom_flag"})
        \/ f \in Unnumbered("WIPE", {"credit_and_mask", "credit", "mask_only", "other"})
        \/ f \in Unnumbered("QC_TEST", {"long"})
        \/ f \in Unnumbered("PASSTHROUGH", {"unknown"})
    BY <1>4 DEF SmallFrames
  <2>2. \/ f.type \in {"ADD", "EXTENDED"} /\ f.id \in Ids /\ f.arg # "custom_flag"
        \/ f.type = "SET" /\ f.id \in Ids
        \/ /\ f.type \in {"WIPE", "QC_TEST", "PASSTHROUGH"}
           /\ f.id = 0 /\ f.arg # "custom_flag"
    BY <2>1, ActivationShape, UnnumberedShape DEF ExtendedFrames
  <2>3. f.type # "NONE"
    BY <2>2
  <2>4. f # NoFrame
    BY <2>3 DEF NoFrame
  <2>5. f.id \in Nat
    <3>1. Ids \subseteq Nat
      BY ProAssumption
    <3>2. f.id \in Ids \/ f.id = 0
      BY <2>2
    <3>3. 0 \in Nat
      OBVIOUS
    <3> QED BY <3>1, <3>2, <3>3, Zenon
  <2>6. /\ Numbered(f) => f.id \in Ids
        /\ Numbered(f) /\ f.type # "DEMO"
             => f.type \in {"ADD", "SET", "WIPE", "EXTENDED"}
        /\ f.arg = "custom_flag" => f.type \in {"SET", "WIPE"}
    BY <2>2, <1>4 DEF Numbered
  <2> QED BY <2>4, <2>5, <2>6
<1> QED BY <1>1, <1>2, <1>3, <1>4

(***************************************************************************)
(* The record in RAM and its copy in NV.                                   *)
(***************************************************************************)
\* Writing a record of the right type leaves it in RAM and in NV.
LEMMA NvUpdateStep ==
    ASSUME NEW st \in Stored, nv_update(st)
    PROVE  /\ stored' = st
           /\ stored' \in Stored
           /\ nv' \in [valid : BOOLEAN, data : Stored]
           /\ StoredPersisted'
BY DEF nv_update, StoredPersisted, nv_read

\* The re-read of NV at the head of apply_activation changes nothing.
LEMMA ReadKeepsStored ==
    ASSUME StoredPersisted
    PROVE  nv_read(stored) = stored
BY DEF StoredPersisted, nv_read

\* What marking does to the record.
LEMMA MarkedType ==
    ASSUME NEW st \in Stored, NEW f, f.id \in Nat
    PROVE  /\ UpdatedMaskIndex(st.pd, MarkTarget(f)) \in MaskIndices
           /\ Marked(st, f) \in Stored
           /\ Marked(st, f).pd = st.pd
           /\ UpdatedMaskIndex(st.pd, MarkTarget(f)) \in Marked(st, f).flags
           /\ st.flags \subseteq Marked(st, f).flags
           /\ MasksBelow(f) =>
                0..UpdatedMaskIndex(st.pd, MarkTarget(f)) \subseteq Marked(st, f).flags
<1> DEFINE idx == UpdatedMaskIndex(st.pd, MarkTarget(f))
           new == IF MasksBelow(f) THEN 0..idx ELSE {idx}
<1>1. MarkTarget(f) \in Int
  BY MarkTargetType
<1>2. st.pd \in Nat
  BY DEF Stored
<1>3. idx \in MaskIndices
  BY <1>1, <1>2, WindowAssumption
  DEF UpdatedMaskIndex, mask_idx_from_message_id, MaskIndices
<1>4. new \subseteq MaskIndices /\ idx \in new
  BY <1>3, WindowAssumption DEF MaskIndices
<1>5. Marked(st, f) = [st EXCEPT !.flags = st.flags \cup new]
  BY DEF Marked
<1> HIDE DEF new, idx
<1>6. Marked(st, f) \in Stored /\ Marked(st, f).pd = st.pd
      /\ Marked(st, f).flags = st.flags \cup new
  BY <1>4, <1>5 DEF Stored
<1> QED BY <1>3, <1>4, <1>6 DEF idx, new

\* Shifting the window sets no flag outside the mask.
LEMMA ShiftedFlagsType ==
    ASSUME NEW flags, NEW inc
    PROVE  ShiftedFlags(flags, inc) \in SUBSET MaskIndices
BY DEF ShiftedFlags

\* The first step of marking leaves a well-formed record, equal in RAM and NV.
LEMMA BeginMarkStep ==
    ASSUME TypeOK, StoredPersisted, NEW f, f.id \in Nat, BeginMark(stored, f)
    PROVE  /\ stored' \in Stored
           /\ nv' \in [valid : BOOLEAN, data : Stored]
           /\ StoredPersisted'
           /\ phase' \in {"marked", "shifted", "wiped"}
           /\ phase' = "wiped" => MarkTarget(f) > stored'.pd + Below
           /\ phase' = "shifted" => MarkTarget(f) = stored'.pd
<1> DEFINE t == MarkTarget(f)
<1>1. t \in Int /\ stored \in Stored /\ stored.pd \in Nat /\ Below \in Nat
  BY MarkTargetType, WindowAssumption DEF TypeOK, Stored
<1>2. CASE /\ MarksNothing(stored, f)
           /\ stored' = stored
           /\ phase' = "marked"
           /\ UNCHANGED nv
  BY <1>1, <1>2 DEF TypeOK, StoredPersisted, nv_read
<1>3. CASE /\ t <= stored.pd
           /\ nv_update(Marked(stored, f))
           /\ phase' = "marked"
  BY <1>1, <1>3, NvUpdateStep, MarkedType
<1>4. CASE /\ stored.pd < t /\ t <= stored.pd + Below
           /\ nv_update([stored EXCEPT !.pd = t,
                            !.flags = ShiftedFlags(@, t - stored.pd)])
           /\ phase' = "shifted"
  <2> DEFINE st == [stored EXCEPT !.pd = t,
                            !.flags = ShiftedFlags(@, t - stored.pd)]
  <2>1. t \in {n \in Nat : n >= Below}
    <3>1. stored.pd >= Below /\ stored.pd < t
      BY <1>1, <1>4 DEF Stored
    <3> QED BY <3>1, <1>1
  <2>2. ShiftedFlags(stored.flags, t - stored.pd) \in SUBSET MaskIndices
    BY ShiftedFlagsType
  <2>3. st \in Stored /\ st.pd = t
    <3> HIDE DEF t
    <3> QED BY <1>1, <2>1, <2>2 DEF Stored
  <2> QED BY <2>3, <1>4, NvUpdateStep
<1>5. CASE /\ t > stored.pd + Below
           /\ nv_update([stored EXCEPT !.flags = ShiftedFlags(@, t - stored.pd)])
           /\ phase' = "wiped"
  <2> DEFINE st == [stored EXCEPT !.flags = ShiftedFlags(@, t - stored.pd)]
  <2>1. st \in Stored /\ st.pd = stored.pd
    BY <1>1, ShiftedFlagsType DEF Stored
  <2> QED BY <2>1, <1>5, NvUpdateStep
<1> QED BY <1>2, <1>3, <1>4, <1>5 DEF BeginMark

(***************************************************************************)
(* Types, phases, and the copy in NV.                                      *)
(***************************************************************************)
Inv1 == TypeOK /\ PhaseInv /\ StoredPersisted

\* The first start-up establishes Inv1.
LEMMA Inv1Init == Init => Inv1
<1> SUFFICES ASSUME Init PROVE Inv1
  OBVIOUS
<1>1. Default \in Stored
  BY WindowAssumption DEF Default, Stored, MaskIndices
<1>2. qcGranted \in [short : 0..(QcShortMax + 1), long : 0..(QcLongMax + 1)]
  BY ProAssumption DEF Init
<1>3. outages \in 0..MaxOutages
  BY ProAssumption DEF Init
<1>4. TypeOK
  BY <1>1, <1>2, <1>3 DEF Init, TypeOK, Phases, PaygStates, Fates
<1> QED BY <1>4 DEF Inv1, Init, PhaseInv, StoredPersisted, nv_read

\* Applying a keycode records a fate.
LEMMA AppliedFateType ==
    ASSUME NEW fate \in Fates
    PROVE  AppliedFate(fate) \in Fates /\ SpentFate(fate) \in Fates
BY DEF AppliedFate, SpentFate, Fates

\* Recording what became of an ID keeps the history well-formed.
LEMMA HistType ==
    ASSUME hist \in [Ids -> Fates], NEW id, Applied(id) \/ Spent(id)
    PROVE  hist' \in [Ids -> Fates]
BY AppliedFateType DEF Applied, Spent

\* The higher of two bounds on IDs is one of them.
LEMMA HigherType ==
    ASSUME NEW a \in Ids \cup {-1}, NEW b \in Ids
    PROVE  Higher(a, b) \in Ids \cup {-1}
BY DEF Higher

\* An action that only ends the handling of a frame.
LEMMA Inv1Done ==
    ASSUME Inv1, Done, payg' \in PaygStates, stored' = stored,
           UNCHANGED <<nv, histVars>>
    PROVE  Inv1'
BY DEF Inv1, Done, TypeOK, PhaseInv, StoredPersisted, nv_read, histVars, Phases

\* Taking up a frame preserves Inv1.
LEMMA Inv1Begin ==
    ASSUME Inv1, NEW f \in Frames, BeginFrame(f)
    PROVE  Inv1'
<1> USE DEF Inv1
<1>0. /\ f # NoFrame /\ f.id \in Nat
      /\ Numbered(f) => f.id \in Ids
      /\ nv_read(stored) = stored
  BY FrameShape, ReadKeepsStored
<1>1. CASE RejectInvalid(f)
  BY <1>1, Inv1Done DEF RejectInvalid, TypeOK
<1>2. CASE PassThrough(f)
  BY <1>2, Inv1Done DEF PassThrough, TypeOK
<1>3. CASE RejectDuplicate(f)
  BY <1>0, <1>3, Inv1Done DEF RejectDuplicate, TypeOK
<1>4. CASE BeginActivation(f)
  <2>1. Numbered(f) /\ f.type # "DEMO" /\ inbox = f /\ f.id \in Ids
    BY <1>0, <1>4 DEF BeginActivation, IsActivation, Handling
  <2>2. BeginMark(stored, f) /\ Enter(f) /\ UNCHANGED <<inbox, payg, floor, qcGranted, torn, outages>>
    BY <1>0, <1>4 DEF BeginActivation
  <2>3. /\ stored' \in Stored
        /\ nv' \in [valid : BOOLEAN, data : Stored]
        /\ StoredPersisted'
        /\ phase' \in {"marked", "shifted", "wiped"}
        /\ phase' = "wiped" => MarkTarget(f) > stored'.pd + Below
        /\ phase' = "shifted" => MarkTarget(f) = stored'.pd
    BY <1>0, <2>2, BeginMarkStep
  <2>4. maskTop' \in Ids \cup {-1}
    BY <2>1, <2>2, HigherType DEF Enter, TypeOK
  <2>5. hist' \in [Ids -> Fates]
    BY <2>2 DEF Enter, TypeOK, Fates
  <2>6. TypeOK'
    BY <2>1, <2>2, <2>3, <2>4, <2>5 DEF TypeOK, Phases
  <2>7. PhaseInv'
    <3>1. inbox' = f
      BY <2>1, <2>2
    <3> QED BY <1>0, <2>1, <2>3, <3>1 DEF PhaseInv, Numbered, MarkTarget, MasksBelow
  <2> QED BY <2>3, <2>6, <2>7
<1>5. CASE ApplyDemo(f)
  <2>1. payg' \in PaygStates
    BY <1>5 DEF ApplyDemo, payg_credit_add, TypeOK, PaygStates
  <2> QED BY <1>0, <1>5, <2>1, Inv1Done DEF ApplyDemo
<1>6. CASE GrantExtended(f)
  <2>1. Numbered(f) /\ f.type = "EXTENDED" /\ inbox = f /\ f.id \in Ids
    BY <1>0, <1>6 DEF GrantExtended, Numbered, Handling
  <2>2. payg' \in PaygStates
    BY <1>6 DEF GrantExtended, payg_credit_set, PaygStates
  <2>3. hist' \in [Ids -> Fates] /\ maskTop' \in Ids \cup {-1}
    BY <1>6, <2>1, HistType, HigherType DEF GrantExtended, TypeOK
  <2>4. TypeOK'
    BY <1>6, <2>2, <2>3 DEF GrantExtended, TypeOK, Phases
  <2>5. PhaseInv' /\ StoredPersisted'
    BY <1>0, <1>6, <2>1 DEF GrantExtended, PhaseInv, StoredPersisted, nv_read, Numbered
  <2> QED BY <2>4, <2>5
<1>7. CASE AllowTest(f)
  <2>1. payg' \in PaygStates
    BY <1>7 DEF AllowTest, TypeOK, PaygStates
  <2> QED BY <1>7, <2>1, Inv1Done DEF AllowTest
<1>8. CASE RejectQc(f)
  BY <1>8, Inv1Done DEF RejectQc, TypeOK
<1>9. CASE GrantQc(f)
  <2>1. payg' \in PaygStates
    BY <1>9 DEF GrantQc, payg_credit_add, TypeOK, PaygStates
  <2>2. qcGranted' \in [short : 0..(QcShortMax + 1), long : 0..(QcLongMax + 1)]
    BY <1>9, ProAssumption DEF GrantQc, TypeOK, QcCount, WithQcCount, QcMax
  <2>3. TypeOK'
    BY <1>9, <2>1, <2>2 DEF GrantQc, TypeOK, Phases
  <2>4. PhaseInv' /\ StoredPersisted'
    BY <1>0, <1>9 DEF GrantQc, Handling, PhaseInv, StoredPersisted, nv_read
  <2> QED BY <2>3, <2>4
<1>10. CASE DeviceId(f)
  BY <1>10, Inv1Done DEF DeviceId, TypeOK
<1> QED
  BY <1>1, <1>2, <1>3, <1>4, <1>5, <1>6, <1>7, <1>8, <1>9, <1>10 DEF BeginFrame

\* Every further step of the handler preserves Inv1.
LEMMA Inv1Continue ==
    ASSUME Inv1, ContinueFrame
    PROVE  Inv1'
<1> USE DEF Inv1
<1>0. /\ phase # "idle" => inbox \in Frames /\ inbox.id \in Nat
      /\ phase \in {"granted", "wiped", "shifted", "marked"}
           => Numbered(inbox) /\ inbox.id \in Ids
      /\ stored \in Stored
      /\ inbox.type \in {"WIPE", "EXTENDED"} => inbox \in Frames
  BY FrameShape DEF TypeOK, PhaseInv, NoFrame
<1>1. CASE RaisePd
  <2> DEFINE st == [stored EXCEPT !.pd = MarkTarget(inbox)]
  <2>1. MarkTarget(inbox) \in {n \in Nat : n >= Below}
    <3>1. MarkTarget(inbox) > stored.pd + Below /\ MarkTarget(inbox) \in Int
      BY <1>0, <1>1, MarkTargetType DEF RaisePd, PhaseInv
    <3>2. stored.pd \in Nat /\ stored.pd >= Below /\ Below \in Nat
      BY <1>0, WindowAssumption DEF Stored
    <3> QED BY <3>1, <3>2
  <2>2. st \in Stored /\ st.pd = MarkTarget(inbox)
    BY <1>0, <2>1 DEF Stored
  <2>3. nv_update(st)
    BY <1>1 DEF RaisePd
  <2>4. stored' = st /\ stored' \in Stored /\ StoredPersisted'
        /\ nv' \in [valid : BOOLEAN, data : Stored]
    <3> HIDE DEF st
    <3> QED BY <2>2, <2>3, NvUpdateStep
  <2>5. TypeOK'
    BY <1>1, <2>4 DEF RaisePd, TypeOK, Phases, histVars
  <2>6. PhaseInv'
    BY <1>0, <1>1, <2>2, <2>4 DEF RaisePd, PhaseInv, Numbered, MarkTarget, MasksBelow
  <2> QED BY <2>4, <2>5, <2>6
<1>2. CASE MarkIds
  <2>1. nv_update(Marked(stored, inbox)) /\ Marked(stored, inbox) \in Stored
    BY <1>0, <1>2, MarkedType DEF MarkIds
  <2>2. stored' \in Stored /\ StoredPersisted'
        /\ nv' \in [valid : BOOLEAN, data : Stored]
    BY <2>1, NvUpdateStep
  <2>3. TypeOK'
    BY <1>2, <2>2 DEF MarkIds, TypeOK, Phases, histVars
  <2>4. PhaseInv'
    BY <1>0, <1>2 DEF MarkIds, PhaseInv, Numbered
  <2> QED BY <2>2, <2>3, <2>4
<1>3. CASE MarkExtended
  <2>1. phase = "granted" /\ BeginMark(stored, inbox) /\ UNCHANGED <<inbox, payg, histVars>>
    BY <1>3 DEF MarkExtended
  <2>2. /\ stored' \in Stored
        /\ nv' \in [valid : BOOLEAN, data : Stored]
        /\ StoredPersisted'
        /\ phase' \in {"marked", "shifted", "wiped"}
        /\ phase' = "wiped" => MarkTarget(inbox) > stored'.pd + Below
        /\ phase' = "shifted" => MarkTarget(inbox) = stored'.pd
    BY <1>0, <2>1, BeginMarkStep
  <2>3. TypeOK'
    BY <2>1, <2>2 DEF TypeOK, Phases, histVars
  <2>4. PhaseInv'
    <3>1. inbox' = inbox /\ inbox # NoFrame /\ inbox.type = "EXTENDED"
      BY <2>1 DEF PhaseInv
    <3> QED BY <2>2, <3>1 DEF PhaseInv, Numbered, MarkTarget, MasksBelow
  <2> QED BY <2>2, <2>3, <2>4
<1>4. CASE ApplyAdd
  <2>1. payg' \in PaygStates /\ hist' \in [Ids -> Fates]
    BY <1>4, HistType
    DEF ApplyAdd, payg_credit_set, payg_credit_add, TypeOK, PaygStates
  <2> QED
    BY <1>4, <2>1
    DEF ApplyAdd, Done, TypeOK, PhaseInv, StoredPersisted, nv_read, Phases
<1>5. CASE ApplySet
  <2>1. payg' \in PaygStates
    BY <1>5 DEF ApplySet, payg_credit_set, PaygStates
  <2>2. hist' \in [Ids -> Fates] /\ floor' \in Ids \cup {-1}
    BY <1>0, <1>5, HistType, HigherType DEF ApplySet, TypeOK
  <2> QED
    BY <1>5, <2>1, <2>2
    DEF ApplySet, Done, TypeOK, PhaseInv, StoredPersisted, nv_read, Phases
<1>6. CASE ApplyCustomFlag
  <2>1. [stored EXCEPT !.restricted = FALSE] \in Stored
    BY <1>0 DEF Stored
  <2>2. stored' \in Stored /\ StoredPersisted'
        /\ nv' \in [valid : BOOLEAN, data : Stored]
    BY <1>6, <2>1, NvUpdateStep DEF ApplyCustomFlag, reset_custom_flag
  <2>3. hist' \in [Ids -> Fates] /\ floor' \in Ids \cup {-1}
    BY <1>0, <1>6, HistType, HigherType DEF ApplyCustomFlag, TypeOK
  <2> QED
    BY <1>6, <2>2, <2>3 DEF ApplyCustomFlag, Done, TypeOK, PhaseInv, Phases
<1>7. CASE RejectWipeTarget
  <2>1. hist' \in [Ids -> Fates]
    BY <1>7, HistType DEF RejectWipeTarget, TypeOK
  <2> QED
    BY <1>7, <2>1
    DEF RejectWipeTarget, Done, TypeOK, PhaseInv, StoredPersisted, nv_read, Phases
<1>8. CASE WipeMask
  <2>1. [stored EXCEPT !.pd = Below, !.flags = {}, !.short = 0, !.long = 0] \in Stored
    <3>1. /\ Below \in {n \in Nat : n >= Below}
          /\ {} \in SUBSET MaskIndices
          /\ 0 \in 0..15
      BY WindowAssumption
    <3> QED BY <1>0, <3>1, Zenon DEF Stored
  <2>2. stored' \in Stored /\ StoredPersisted'
        /\ nv' \in [valid : BOOLEAN, data : Stored]
    BY <1>8, <2>1, NvUpdateStep DEF WipeMask
  <2>3. hist' \in [Ids -> Fates] /\ floor' \in Ids \cup {-1} /\ maskTop' \in Ids \cup {-1}
    BY <1>8 DEF WipeMask, NewEpoch, Fates
  <2>4. qcGranted' \in [short : 0..(QcShortMax + 1), long : 0..(QcLongMax + 1)]
    BY <1>8, ProAssumption DEF WipeMask, NewEpoch
  <2>5. /\ inbox' \in Frames \cup {NoFrame}
        /\ phase' \in {"idle", "zeroed"}
        /\ phase' = "zeroed" => inbox' # NoFrame
    <3>1. inbox \in Frames /\ inbox # NoFrame
      BY <1>0, <1>8, FrameShape DEF WipeMask
    <3> QED BY <1>8, <3>1 DEF WipeMask, Done
  <2>6. TypeOK'
    BY <1>8, <2>2, <2>3, <2>4, <2>5 DEF WipeMask, TypeOK, Phases
  <2>7. PhaseInv'
    BY <2>5 DEF PhaseInv
  <2> QED BY <2>2, <2>6, <2>7
<1>9. CASE WipeCredit
  <2>1. payg' \in PaygStates
    BY <1>9 DEF WipeCredit, payg_credit_set, PaygStates
  <2> QED BY <1>9, <2>1, Inv1Done DEF WipeCredit
<1>10. CASE CountQc
  <2> DEFINE kind == QcKind(inbox.arg)
             n == QcCount(stored, kind) + 1
  <2>1. CASE n > 15 \/ n > QcMax(kind)
    BY <1>10, <2>1, Inv1Done DEF CountQc, increment_qc_test_message_count, TypeOK
  <2>2. CASE ~(n > 15 \/ n > QcMax(kind))
    <3>1. n \in 0..15
      BY <1>0, <2>2 DEF Stored, QcCount
    <3>2. WithQcCount(stored, kind, n) \in Stored
      <4> HIDE DEF n, kind
      <4> QED BY <1>0, <3>1 DEF Stored, WithQcCount
    <3>3. nv_update(WithQcCount(stored, kind, n))
      BY <1>10, <2>2 DEF CountQc, increment_qc_test_message_count
    <3>4. stored' \in Stored /\ StoredPersisted'
          /\ nv' \in [valid : BOOLEAN, data : Stored]
      BY <3>2, <3>3, NvUpdateStep
    <3> QED
      BY <1>10, <3>4 DEF CountQc, Done, TypeOK, PhaseInv, Phases, histVars
  <2> QED BY <2>1, <2>2
<1> QED
  BY <1>1, <1>2, <1>3, <1>4, <1>5, <1>6, <1>7, <1>8, <1>9, <1>10
  DEF ContinueFrame

\* The callers' steps and power loss preserve Inv1.
LEMMA Inv1Environment ==
    ASSUME Inv1,
           \/ \E f \in Frames : pro_enqueue(f)
           \/ nx_keycode_set_custom_flag
           \/ CreditExpires
           \/ PowerLoss
           \/ UNCHANGED vars
    PROVE  Inv1'
<1> USE DEF Inv1
<1>1. ASSUME NEW f \in Frames, pro_enqueue(f) PROVE Inv1'
  <2>1. inbox' \in Frames \cup {NoFrame} /\ (phase # "idle" => inbox' = inbox)
    BY <1>1 DEF pro_enqueue, TypeOK, PhaseInv
  <2> QED
    BY <1>1, <2>1 DEF pro_enqueue, TypeOK, PhaseInv, StoredPersisted, nv_read, histVars,
                      Numbered, MarkTarget, MasksBelow
<1>2. CASE nx_keycode_set_custom_flag
  <2>1. [stored EXCEPT !.restricted = TRUE] \in Stored
    BY DEF TypeOK, Stored
  <2>2. stored' \in Stored /\ StoredPersisted'
        /\ nv' \in [valid : BOOLEAN, data : Stored]
    BY <1>2, <2>1, NvUpdateStep DEF nx_keycode_set_custom_flag
  <2> QED
    BY <1>2, <2>2 DEF nx_keycode_set_custom_flag, TypeOK, PhaseInv, histVars
<1>3. CASE CreditExpires
  BY <1>3 DEF CreditExpires, TypeOK, PaygStates, PhaseInv, StoredPersisted, nv_read,
              histVars, Numbered, MarkTarget, MasksBelow
<1>4. CASE PowerLoss
  <2>1. stored' = stored
    BY <1>4 DEF PowerLoss, StoredPersisted
  <2>2. torn' \in SUBSET {"shift", "extended", "count"}
    BY <1>4 DEF PowerLoss, TypeOK, TornWindows
  <2>3. outages' \in 0..MaxOutages
    BY <1>4, ProAssumption DEF PowerLoss, TypeOK
  <2>4. TypeOK'
    BY <1>4, <2>1, <2>2, <2>3 DEF PowerLoss, TypeOK, Phases
  <2> QED
    BY <1>4, <2>1, <2>4 DEF PowerLoss, PhaseInv, StoredPersisted, nv_read
<1>5. CASE UNCHANGED vars
  BY <1>5 DEF vars, codeVars, histVars, TypeOK, PhaseInv, StoredPersisted, nv_read,
              Numbered, MarkTarget, MasksBelow
<1> QED BY <1>1, <1>2, <1>3, <1>4, <1>5

\* Every step preserves Inv1.
LEMMA Inv1Next == Inv1 /\ [Next]_vars => Inv1'
BY Inv1Begin, Inv1Continue, Inv1Environment DEF Next, pro_process

\* Inv1 is an invariant.
LEMMA Inv1Always == Spec => []Inv1
BY Inv1Init, Inv1Next, PTL DEF Spec

\* Every variable keeps its type.  For the message-ID window this says that Pd
\* never falls below the window's lower half, so that pd - Below, unsigned in
\* the code, never wraps, and that no flag is set outside the mask, so that
\* the bitset calls stay inside received_flags.
THEOREM TypeCorrect == Spec => []TypeOK
BY Inv1Always, PTL DEF Inv1

\* The record in RAM is always what a restart would read back: whatever the
\* handlers change, they have written before the next effect.
THEOREM Persisted == Spec => []StoredPersisted
BY Inv1Always, PTL DEF Inv1

(***************************************************************************)
(* Covering: what the stored record refuses stays refused.                 *)
(***************************************************************************)
\* Only IDs up to Pd are covered.
LEMMA CoveredAtMostPd ==
    ASSUME NEW st \in Stored, NEW id \in Nat, CoveredBy(st, id)
    PROVE  id <= st.pd
BY WindowAssumption DEF CoveredBy, MessageIdFlag, Stored

\* Setting flags uncovers nothing.
LEMMA MarkKeepsCovered ==
    ASSUME NEW st \in Stored, NEW f, f.id \in Nat, NEW id \in Nat, CoveredBy(st, id)
    PROVE  CoveredBy(Marked(st, f), id)
<1>1. Marked(st, f).pd = st.pd /\ st.flags \subseteq Marked(st, f).flags
  BY MarkedType
<1> QED BY <1>1 DEF CoveredBy, MessageIdFlag

\* Marking an ID that is not above Pd covers it, and every ID below it when
\* the frame masks below.
LEMMA MarkCovers ==
    ASSUME NEW st \in Stored, NEW f, f.id \in Nat, MarkTarget(f) = f.id, f.id <= st.pd
    PROVE  /\ CoveredBy(Marked(st, f), f.id)
           /\ MasksBelow(f) =>
                \A id \in Nat : id <= f.id => CoveredBy(Marked(st, f), id)
<1> DEFINE m == Marked(st, f)
           idx == UpdatedMaskIndex(st.pd, f.id)
<1>1. /\ m.pd = st.pd
      /\ idx \in m.flags
      /\ MasksBelow(f) => 0..idx \subseteq m.flags
  BY MarkedType
<1>2. st.pd \in Nat /\ Below \in Nat /\ Above \in Nat
  BY WindowAssumption DEF Stored
<1>3. f.id >= st.pd - Below => idx = Below - (st.pd - f.id)
  BY <1>2 DEF UpdatedMaskIndex, mask_idx_from_message_id
<1> HIDE DEF m, idx
<1>4. CoveredBy(m, f.id)
  <2>1. CASE f.id < st.pd - Below
    BY <1>1, <2>1 DEF CoveredBy
  <2>2. CASE f.id >= st.pd - Below
    <3>1. mask_idx_from_message_id(m.pd, f.id) \in m.flags
      BY <1>1, <1>3, <2>2 DEF mask_idx_from_message_id
    <3>2. f.id <= m.pd /\ is_message_id_within_window(m.pd, f.id)
      BY <1>1, <1>2, <2>2 DEF is_message_id_within_window
    <3> QED BY <3>1, <3>2 DEF CoveredBy, MessageIdFlag
  <2> QED BY <1>2, <2>1, <2>2
<1>5. ASSUME MasksBelow(f), NEW id \in Nat, id <= f.id
      PROVE  CoveredBy(m, id)
  <2>1. CASE id < st.pd - Below
    BY <1>1, <2>1 DEF CoveredBy
  <2>2. CASE id >= st.pd - Below
    <3>1. Below - (st.pd - id) \in 0..idx
      BY <1>2, <1>3, <1>5, <2>2
    <3>2. mask_idx_from_message_id(m.pd, id) \in m.flags
      BY <1>1, <1>5, <3>1 DEF mask_idx_from_message_id
    <3>3. id <= m.pd /\ is_message_id_within_window(m.pd, id)
      BY <1>1, <1>2, <1>5, <2>2 DEF is_message_id_within_window
    <3> QED BY <3>2, <3>3 DEF CoveredBy, MessageIdFlag
  <2> QED BY <1>2, <2>1, <2>2
<1> QED BY <1>4, <1>5 DEF m

\* Shifting the window uncovers nothing: a flag moves with its ID or the ID
\* falls below the window.
LEMMA ShiftKeepsCovered ==
    ASSUME NEW st \in Stored, NEW t \in Nat, st.pd < t, t <= st.pd + Below,
           NEW id \in Nat, CoveredBy(st, id)
    PROVE  CoveredBy([st EXCEPT !.pd = t, !.flags = ShiftedFlags(@, t - st.pd)], id)
<1> DEFINE new == [st EXCEPT !.pd = t, !.flags = ShiftedFlags(@, t - st.pd)]
<1>1. st.pd \in Nat /\ Below \in Nat /\ Above \in Nat
  BY WindowAssumption DEF Stored
<1>2. new.pd = t /\ new.flags = ShiftedFlags(st.flags, t - st.pd)
  BY DEF Stored
<1> HIDE DEF new
<1>3. CASE id < t - Below
  BY <1>2, <1>3 DEF CoveredBy
<1>4. CASE id >= t - Below
  <2>1. id <= st.pd /\ Below - (st.pd - id) \in st.flags
    BY <1>1, <1>4 DEF CoveredBy, MessageIdFlag, mask_idx_from_message_id
  <2>2. Below - (t - id) \in MaskIndices
    BY <1>1, <1>4, <2>1 DEF MaskIndices
  <2>3. (Below - (t - id)) + (t - st.pd) = Below - (st.pd - id)
    BY <1>1
  <2>4. ~(t - st.pd > Below)
    BY <1>1
  <2>5. Below - (t - id) \in ShiftedFlags(st.flags, t - st.pd)
    BY <2>1, <2>2, <2>3, <2>4 DEF ShiftedFlags
  <2>6. id <= t /\ is_message_id_within_window(t, id)
    BY <1>1, <1>4, <2>1 DEF is_message_id_within_window
  <2> QED BY <1>2, <2>5, <2>6 DEF CoveredBy, MessageIdFlag, mask_idx_from_message_id
<1> QED BY <1>1, <1>3, <1>4 DEF new

\* Raising Pd past the whole window covers every ID up to the old Pd.
LEMMA JumpCovers ==
    ASSUME NEW st \in Stored, NEW pd \in Nat, NEW t \in Nat, t > pd + Below,
           st.pd = t, NEW id \in Nat, id <= pd
    PROVE  CoveredBy(st, id)
BY WindowAssumption DEF CoveredBy

\* The first step of marking an ID of the window keeps what is covered, or
\* clears the flags and remembers only that it was at most Pd.
LEMMA BeginMarkCovers ==
    ASSUME Inv1, NEW f, f.id \in Nat, f.id + 1 < IdModulus,
           f.id >= stored.pd - Below, BeginMark(stored, f)
    PROVE  /\ \A id \in Ids :
                Covered(id) => \/ phase' = "wiped" /\ id <= stored'.pd
                               \/ phase' # "wiped" /\ Covered(id)'
           /\ phase' = "marked" =>
                /\ Covered(f.id)'
                /\ MasksBelow(f) => \A id \in Ids : id <= f.id => Covered(id)'
<1> DEFINE t == MarkTarget(f)
<1>1. /\ stored \in Stored /\ stored.pd \in Nat /\ Below \in Nat
      /\ Ids \subseteq Nat
  BY WindowAssumption, ProAssumption DEF Inv1, TypeOK, Stored
<1>2. t = f.id /\ t \in Nat
  BY MarkTargetType
<1>3. ~MarksNothing(stored, f)
  <2>1. uint16(f.id + 1) = f.id + 1
    BY Uint16Fits
  <2> QED BY <1>1, <2>1 DEF MarksNothing
<1>4. CASE /\ t <= stored.pd
           /\ nv_update(Marked(stored, f))
           /\ phase' = "marked"
  <2>1. stored' = Marked(stored, f)
    BY <1>4 DEF nv_update
  <2>2. \A id \in Ids : Covered(id) => Covered(id)'
    BY <1>1, <2>1, MarkKeepsCovered DEF Covered, CoveredBy
  <2>3. /\ CoveredBy(Marked(stored, f), f.id)
        /\ MasksBelow(f) =>
             \A id \in Nat : id <= f.id => CoveredBy(Marked(stored, f), id)
    BY <1>1, <1>2, <1>4, MarkCovers
  <2> QED BY <1>1, <1>4, <2>1, <2>2, <2>3 DEF Covered, CoveredBy
<1>5. CASE /\ stored.pd < t /\ t <= stored.pd + Below
           /\ nv_update([stored EXCEPT !.pd = t,
                            !.flags = ShiftedFlags(@, t - stored.pd)])
           /\ phase' = "shifted"
  <2> DEFINE new == [stored EXCEPT !.pd = t, !.flags = ShiftedFlags(@, t - stored.pd)]
  <2>1. stored' = new
    BY <1>5 DEF nv_update
  <2>2. ASSUME NEW id \in Ids, Covered(id) PROVE Covered(id)'
    <3>1. CoveredBy(new, id)
      BY <1>1, <1>2, <1>5, <2>2, ShiftKeepsCovered DEF Covered
    <3> QED BY <2>1, <3>1 DEF Covered, CoveredBy
  <2> QED BY <1>5, <2>2
<1>6. CASE /\ t > stored.pd + Below
           /\ nv_update([stored EXCEPT !.flags = ShiftedFlags(@, t - stored.pd)])
           /\ phase' = "wiped"
  <2>1. stored'.pd = stored.pd
    BY <1>1, <1>6 DEF nv_update, Stored
  <2>2. ASSUME NEW id \in Ids, Covered(id) PROVE id <= stored'.pd
    BY <1>1, <2>1, <2>2, CoveredAtMostPd DEF Covered
  <2> QED BY <1>6, <2>2
<1> QED BY <1>3, <1>4, <1>5, <1>6 DEF BeginMark

\* Outside the two exceptional windows every dead ID is covered.
LEMMA DeadAreCovered ==
    ASSUME DeadCovered, phase \notin {"granted", "wiped"},
           ~(phase = "shifted" /\ inbox.type = "EXTENDED")
    PROVE  \A id \in Ids : Dead(id) => Covered(id)
BY DEF DeadCovered, Unmarked

\* Steps between frames that leave the IDs and their history alone.
LEMMA GuardedQuiet ==
    ASSUME Guarded,
           phase \notin {"granted", "wiped", "shifted"},
           phase' \in {"idle", "zeroed", "count"},
           stored'.pd = stored.pd, stored'.flags = stored.flags,
           UNCHANGED <<hist, floor>>
    PROVE  Guarded' /\ AppliesOnlyAbove
<1>1. \A id \in Ids : Dead(id) => Covered(id)
  BY DeadAreCovered DEF Guarded
<1>2. \A id \in Ids : Dead(id)' => Covered(id)'
  BY <1>1 DEF Dead, Covered, CoveredBy
<1>3. DeadCovered' /\ FrameAlive'
  BY <1>2 DEF DeadCovered, FrameAlive
<1> QED BY <1>3 DEF Guarded, NeverTwice, AppliesOnlyAbove

\* A frame that passes the checks at the head of the handler is not dead.
LEMMA AcceptedAlive ==
    ASSUME Inv1, IdsFit, Guarded, phase = "idle", NEW f \in Frames, f.id \in Ids,
           \/ CheckMatches(f) /\ ~get_full_message_id_flag(f.id)
           \/ ExtendedMatches(f)
    PROVE  ~Dead(f.id) /\ f.id >= stored.pd - Below
<1>1. /\ stored \in Stored /\ stored.pd \in Nat /\ stored.pd >= Below
      /\ Below \in Nat /\ Above \in Nat /\ Ids \subseteq Nat
  BY WindowAssumption, ProAssumption DEF Inv1, TypeOK, Stored
<1>2. f.id \in Nat /\ f.id + 1 < IdModulus
  BY <1>1 DEF IdsFit
<1>3. /\ f.id >= stored.pd - Below
      /\ ~MessageIdFlag(stored.pd, stored.flags, f.id)
  <2>1. CASE CheckMatches(f) /\ ~get_full_message_id_flag(f.id)
    <3>1. f.id % IdSpace \in Nat
      BY <1>2, WindowAssumption
    <3>2. f.id >= stored.pd - Below
      BY <1>1, <2>1, <3>1, InferredAboveBottom DEF CheckMatches
    <3>3. uint16(f.id) = f.id
      BY <1>2, Uint16Fits, WindowAssumption
    <3>4. nv_read(stored) = stored
      BY ReadKeepsStored DEF Inv1
    <3> QED BY <2>1, <3>2, <3>3, <3>4 DEF get_full_message_id_flag
  <2>2. CASE ExtendedMatches(f)
    BY <1>1, <1>2, <2>2 DEF ExtendedMatches, WindowIds
  <2> QED BY <2>1, <2>2
<1>4. ~Covered(f.id)
  BY <1>1, <1>2, <1>3 DEF Covered, CoveredBy
<1> QED BY <1>3, <1>4, DeadAreCovered DEF Guarded

\* Taking up a frame.
LEMMA GuardedBegin ==
    ASSUME Inv1, IdsFit, Guarded, NEW f \in Frames, BeginFrame(f)
    PROVE  Guarded' /\ AppliesOnlyAbove
<1>0. /\ f # NoFrame /\ f.id \in Nat
      /\ Numbered(f) => f.id \in Ids
      /\ nv_read(stored) = stored
      /\ phase = "idle" /\ inbox = f
  BY FrameShape, ReadKeepsStored
  DEF Inv1, BeginFrame, RejectInvalid, PassThrough, RejectDuplicate, BeginActivation,
      ApplyDemo, GrantExtended, AllowTest, RejectQc, GrantQc, DeviceId, Handling
<1>1. CASE RejectInvalid(f) \/ PassThrough(f) \/ RejectDuplicate(f) \/ ApplyDemo(f)
           \/ AllowTest(f) \/ RejectQc(f) \/ DeviceId(f) \/ GrantQc(f)
  <2>1. stored' = stored /\ UNCHANGED <<hist, floor>> /\ phase' \in {"idle", "count"}
    BY <1>0, <1>1
    DEF RejectInvalid, PassThrough, RejectDuplicate, ApplyDemo, AllowTest, RejectQc,
        DeviceId, GrantQc, Done, histVars
  <2> QED BY <1>0, <2>1, GuardedQuiet
<1>2. CASE BeginActivation(f)
  <2>1. /\ Numbered(f) /\ f.type # "EXTENDED" /\ f.id \in Ids
        /\ CheckMatches(f) /\ ~get_full_message_id_flag(f.id)
        /\ BeginMark(stored, f) /\ Enter(f)
        /\ inbox' = inbox /\ floor' = floor
    BY <1>0, <1>2 DEF BeginActivation, IsActivation
  <2>2. ~Dead(f.id) /\ f.id >= stored.pd - Below
    BY <1>0, <2>1, AcceptedAlive
  <2>3. \A id \in Ids : Dead(id) => Covered(id)
    BY <1>0, DeadAreCovered DEF Guarded
  <2>4. f.id + 1 < IdModulus
    BY <2>1 DEF IdsFit
  <2>5. /\ \A id \in Ids :
              Covered(id) => \/ phase' = "wiped" /\ id <= stored'.pd
                             \/ phase' # "wiped" /\ Covered(id)'
        /\ phase' = "marked" =>
              /\ Covered(f.id)'
              /\ MasksBelow(f) => \A id \in Ids : id <= f.id => Covered(id)'
    BY <1>0, <2>1, <2>2, <2>4, BeginMarkCovers
  <2>6. phase' \in {"marked", "shifted", "wiped"}
    BY <2>1 DEF BeginMark
  <2>7. \A id \in Ids : /\ hist'[id] = "applied" <=> hist[id] = "applied"
                        /\ hist'[id] = "twice" <=> hist[id] = "twice"
                        /\ hist'[id] # hist[id] => hist'[id] = "entered"
    BY <2>1 DEF Enter, Inv1, TypeOK
  <2>8. \A id \in Ids : Dead(id)' <=> Dead(id)
    BY <2>1, <2>7 DEF Dead
  <2>9. DeadCovered'
    BY <2>3, <2>5, <2>8 DEF DeadCovered
  <2>10. FrameAlive'
    <3>1. inbox' = f
      BY <1>0, <2>1
    <3>2. ~Dead(f.id)'
      BY <2>1, <2>2, <2>8
    <3>3. /\ phase' # "granted"
          /\ ~Dead(inbox.id)'
          /\ phase' = "marked" => Covered(inbox.id)'
          /\ phase' = "marked" /\ MasksBelow(inbox)'
               => \A id \in Ids : id <= inbox'.id => Covered(id)'
      BY <2>5, <2>6, <3>1, <3>2 DEF Dead, Covered, CoveredBy, MasksBelow
    <3> QED BY <3>3 DEF FrameAlive
  <2>11. NeverTwice' /\ AppliesOnlyAbove
    BY <2>7 DEF Guarded, NeverTwice, AppliesOnlyAbove
  <2> QED BY <2>9, <2>10, <2>11 DEF Guarded
<1>3. CASE GrantExtended(f)
  <2>1. /\ f.type = "EXTENDED" /\ f.id \in Ids /\ ExtendedMatches(f)
        /\ Applied(f.id) /\ phase' = "granted"
        /\ inbox' = f /\ stored' = stored /\ floor' = floor
    BY <1>0, <1>3 DEF GrantExtended, Numbered
  <2>2. ~Dead(f.id) /\ f.id >= stored.pd - Below
    BY <1>0, <2>1, AcceptedAlive
  <2>3. \A id \in Ids : Dead(id) => Covered(id)
    BY <1>0, DeadAreCovered DEF Guarded
  <2>4. /\ hist[f.id] \notin {"applied", "twice"}
        /\ hist'[f.id] = "applied"
        /\ \A id \in Ids : id # f.id => hist'[id] = hist[id]
    BY <2>1, <2>2 DEF Dead, Guarded, NeverTwice, Applied, AppliedFate, Inv1, TypeOK
  <2>5. \A id \in Ids : id = f.id \/ (Dead(id)' => Covered(id)')
    BY <2>1, <2>3, <2>4 DEF Dead, Covered, CoveredBy
  <2>6. DeadCovered'
    BY <2>1, <2>5 DEF DeadCovered, Unmarked
  <2>7. FrameAlive'
    BY <2>1, <2>2 DEF FrameAlive
  <2>8. NeverTwice'
    BY <2>4 DEF Guarded, NeverTwice
  <2>9. AppliesOnlyAbove
    <3>1. f.id \in Nat /\ floor \in Int
      BY <1>0, ProAssumption DEF Inv1, TypeOK
    <3>2. ~(f.id <= floor)
      BY <2>2 DEF Dead
    <3>3. f.id > floor
      BY <3>1, <3>2
    <3>4. \A id \in Ids : hist'[id] # hist[id] => id = f.id
      BY <2>4
    <3> QED BY <3>3, <3>4 DEF AppliesOnlyAbove
  <2> QED BY <2>6, <2>7, <2>8, <2>9 DEF Guarded
<1> QED BY <1>1, <1>2, <1>3 DEF BeginFrame

\* The last step of a handler that has marked its ID.
LEMMA GuardedFinish ==
    ASSUME Inv1, Guarded, phase = "marked", phase' = "idle", inbox.id \in Ids,
           stored'.pd = stored.pd, stored'.flags = stored.flags,
           \/ UNCHANGED hist
           \/ inbox.type # "EXTENDED" /\ (Applied(inbox.id) \/ Spent(inbox.id)),
           \/ UNCHANGED floor
           \/ MasksBelow(inbox) /\ floor' = Higher(floor, inbox.id)
    PROVE  Guarded' /\ AppliesOnlyAbove
<1>1. \A id \in Ids : Dead(id) => Covered(id)
  BY DeadAreCovered DEF Guarded
<1>2. \A id \in Ids : Covered(id)' <=> Covered(id)
  BY DEF Covered, CoveredBy
<1>3. /\ \A id \in Ids : id # inbox.id => hist'[id] = hist[id]
      /\ hist'[inbox.id] # "twice"
      /\ hist'[inbox.id] # hist[inbox.id] => inbox.type # "EXTENDED"
  <2>1. CASE UNCHANGED hist
    BY <2>1 DEF Guarded, NeverTwice
  <2>2. CASE inbox.type # "EXTENDED" /\ (Applied(inbox.id) \/ Spent(inbox.id))
    <3>1. hist[inbox.id] \notin {"applied", "twice"}
      BY <2>2 DEF Guarded, FrameAlive, Dead, NeverTwice
    <3> QED
      BY <2>2, <3>1 DEF Applied, AppliedFate, Spent, SpentFate, Inv1, TypeOK
  <2> QED BY <2>1, <2>2
<1>4. \A id \in Ids : id <= floor' => Covered(id)
  <2>1. CASE UNCHANGED floor
    BY <1>1, <2>1 DEF Dead
  <2>2. CASE MasksBelow(inbox) /\ floor' = Higher(floor, inbox.id)
    <3>1. \A id \in Ids : id <= inbox.id => Covered(id)
      BY <2>2 DEF Guarded, FrameAlive
    <3>2. \A id \in Ids : id <= floor => Covered(id)
      BY <1>1 DEF Dead
    <3>3. floor' = floor \/ floor' = inbox.id
      BY <2>2 DEF Higher
    <3> QED BY <3>1, <3>2, <3>3
  <2> QED BY <2>1, <2>2
<1>5. Covered(inbox.id)
  BY DEF Guarded, FrameAlive
<1>6. ASSUME NEW id \in Ids, Dead(id)' PROVE Covered(id)'
  <2>1. CASE id <= floor'
    BY <1>2, <1>4, <2>1
  <2>2. CASE hist'[id] = "applied"
    <3>1. id = inbox.id \/ Dead(id)
      BY <1>3, <2>2 DEF Dead
    <3> QED BY <1>1, <1>2, <1>5, <3>1
  <2> QED BY <1>6, <2>1, <2>2 DEF Dead
<1>7. DeadCovered' /\ FrameAlive'
  BY <1>6 DEF DeadCovered, FrameAlive
<1>8. NeverTwice'
  BY <1>3 DEF Guarded, NeverTwice
<1>9. ASSUME NEW id \in Ids, hist'[id] # hist[id] PROVE id > floor
  <2>1. id = inbox.id /\ inbox.type # "EXTENDED"
    BY <1>3, <1>9
  <2>2. ~(id <= floor)
    BY <2>1 DEF Guarded, FrameAlive, Dead
  <2>3. id \in Nat /\ floor \in Int
    BY ProAssumption DEF Inv1, TypeOK
  <2> QED BY <2>2, <2>3
<1>10. AppliesOnlyAbove
  BY <1>9 DEF AppliesOnlyAbove
<1> QED BY <1>7, <1>8, <1>10 DEF Guarded

\* Every further step of the handler.
LEMMA GuardedContinue ==
    ASSUME Inv1, IdsFit, Guarded, ContinueFrame
    PROVE  Guarded' /\ AppliesOnlyAbove
<1>0. /\ phase \in {"granted", "wiped", "shifted", "marked"}
           => /\ inbox \in Frames /\ inbox.id \in Ids
              /\ inbox.type \in {"ADD", "SET", "WIPE", "EXTENDED"}
              /\ inbox.arg = "custom_flag" => inbox.type \in {"SET", "WIPE"}
      /\ stored \in Stored /\ stored.pd \in Nat /\ Ids \subseteq Nat
  BY FrameShape, ProAssumption DEF Inv1, TypeOK, PhaseInv, NoFrame, Stored
<1>00. phase \in {"granted", "wiped", "shifted", "marked"}
         => MarkTarget(inbox) = inbox.id /\ inbox.id + 1 < IdModulus
  BY <1>0, MarkTargetType DEF IdsFit
<1>1. CASE RaisePd
  <2>1. /\ phase = "wiped" /\ phase' = "shifted"
        /\ UNCHANGED <<inbox, hist, floor>>
        /\ stored' = [stored EXCEPT !.pd = MarkTarget(inbox)]
    BY <1>1 DEF RaisePd, histVars, nv_update
  <2>2. /\ inbox.id \in Nat /\ stored'.pd = inbox.id /\ inbox.id > stored.pd + Below
    BY <1>0, <1>00, <2>1 DEF Inv1, PhaseInv, Stored
  <2>3. ASSUME NEW id \in Ids, id <= stored.pd PROVE Covered(id)'
    <3>1. id < stored'.pd - Below
      BY <1>0, <2>2, <2>3, WindowAssumption
    <3> QED BY <3>1 DEF Covered, CoveredBy
  <2>4. \A id \in Ids : Dead(id) => Unmarked(id) \/ id <= stored.pd
    BY <2>1 DEF Guarded, DeadCovered
  <2>5. \A id \in Ids : (Dead(id)' <=> Dead(id)) /\ (Unmarked(id) => Unmarked(id)')
    BY <2>1 DEF Dead, Unmarked
  <2>6. DeadCovered'
    BY <2>1, <2>3, <2>4, <2>5 DEF DeadCovered
  <2>7. FrameAlive'
    BY <2>1 DEF Guarded, FrameAlive, Dead
  <2> QED BY <2>1, <2>6, <2>7 DEF Guarded, NeverTwice, AppliesOnlyAbove
<1>2. CASE MarkIds
  <2>1. /\ phase = "shifted" /\ phase' = "marked"
        /\ UNCHANGED <<inbox, hist, floor>>
        /\ stored' = Marked(stored, inbox)
        /\ inbox.id \in Nat /\ inbox.id = stored.pd
    BY <1>0, <1>00, <1>2 DEF MarkIds, histVars, nv_update, Inv1, PhaseInv
  <2>2. \A id \in Ids : Covered(id) => Covered(id)'
    BY <1>0, <2>1, MarkKeepsCovered DEF Covered, CoveredBy
  <2>3. /\ CoveredBy(Marked(stored, inbox), inbox.id)
        /\ MasksBelow(inbox) =>
             \A id \in Nat : id <= inbox.id => CoveredBy(Marked(stored, inbox), id)
    BY <1>0, <1>00, <2>1, MarkCovers
  <2>4. /\ Covered(inbox.id)'
        /\ MasksBelow(inbox) => \A id \in Ids : id <= inbox.id => Covered(id)'
    BY <1>0, <2>1, <2>3 DEF Covered, CoveredBy
  <2>5. \A id \in Ids : Dead(id)' => Covered(id)'
    <3>1. \A id \in Ids : Dead(id) => id = inbox.id \/ Covered(id)
      BY <2>1 DEF Guarded, DeadCovered, Unmarked
    <3>2. \A id \in Ids : Dead(id)' <=> Dead(id)
      BY <2>1 DEF Dead
    <3>3. \A id \in Ids : id = inbox.id => Covered(id)'
      BY <2>1, <2>4
    <3> QED BY <2>2, <3>1, <3>2, <3>3
  <2>6. DeadCovered'
    BY <2>1, <2>5 DEF DeadCovered
  <2>7. FrameAlive'
    <3>1. inbox.type # "EXTENDED" => ~Dead(inbox.id)'
      BY <2>1 DEF Guarded, FrameAlive, Dead
    <3>2. MasksBelow(inbox)' <=> MasksBelow(inbox)
      BY <2>1 DEF MasksBelow
    <3> QED BY <2>1, <2>4, <3>1, <3>2 DEF FrameAlive
  <2> QED BY <2>1, <2>6, <2>7 DEF Guarded, NeverTwice, AppliesOnlyAbove
<1>3. CASE MarkExtended
  <2>1. /\ phase = "granted" /\ inbox.type = "EXTENDED"
        /\ BeginMark(stored, inbox)
        /\ UNCHANGED <<inbox, hist, floor>>
        /\ phase' \in {"marked", "shifted", "wiped"}
    BY <1>3 DEF MarkExtended, histVars, Inv1, PhaseInv, BeginMark
  <2>2. inbox.id \in Nat /\ inbox.id >= stored.pd - Below
    BY <1>0, <2>1 DEF Guarded, FrameAlive
  <2>3. /\ \A id \in Ids :
              Covered(id) => \/ phase' = "wiped" /\ id <= stored'.pd
                             \/ phase' # "wiped" /\ Covered(id)'
        /\ phase' = "marked" =>
              /\ Covered(inbox.id)'
              /\ MasksBelow(inbox) => \A id \in Ids : id <= inbox.id => Covered(id)'
    BY <1>00, <2>1, <2>2, BeginMarkCovers
  <2>4. \A id \in Ids : Dead(id)' => id = inbox.id \/ Covered(id)
    BY <2>1 DEF Guarded, DeadCovered, Unmarked, Dead
  <2>5. \A id \in Ids : id = inbox.id => Unmarked(id)' \/ (phase' # "wiped" /\ Covered(id)')
    BY <2>1, <2>3 DEF Unmarked
  <2>6. DeadCovered'
    BY <2>3, <2>4, <2>5 DEF DeadCovered
  <2>7. FrameAlive'
    <3>1. MasksBelow(inbox)' <=> MasksBelow(inbox)
      BY <2>1 DEF MasksBelow
    <3> QED BY <2>1, <2>3, <3>1 DEF FrameAlive
  <2> QED BY <2>1, <2>6, <2>7 DEF Guarded, NeverTwice, AppliesOnlyAbove
<1>4. CASE ApplyAdd
  BY <1>0, <1>4, GuardedFinish DEF ApplyAdd, Done
<1>5. CASE ApplySet
  BY <1>0, <1>5, GuardedFinish DEF ApplySet, Done, MasksBelow
<1>6. CASE ApplyCustomFlag
  <2>1. stored'.pd = stored.pd /\ stored'.flags = stored.flags
    BY <1>0, <1>6 DEF ApplyCustomFlag, reset_custom_flag, nv_update, Stored
  <2> QED
    BY <1>0, <1>6, <2>1, GuardedFinish DEF ApplyCustomFlag, Done, MasksBelow
<1>7. CASE RejectWipeTarget
  BY <1>0, <1>7, GuardedFinish DEF RejectWipeTarget, Done
<1>8. CASE WipeMask
  <2>1. /\ phase' \in {"idle", "zeroed"}
        /\ floor' = -1
        /\ \A id \in Ids : hist'[id] = "fresh"
    BY <1>8 DEF WipeMask, Done, NewEpoch
  <2>2. \A id \in Ids : ~Dead(id)'
    BY <1>0, <2>1 DEF Dead
  <2>3. DeadCovered' /\ FrameAlive'
    BY <2>1, <2>2 DEF DeadCovered, FrameAlive
  <2> QED BY <2>1, <2>3 DEF Guarded, NeverTwice, AppliesOnlyAbove
<1>9. CASE WipeCredit
  BY <1>9, GuardedQuiet DEF WipeCredit, Done, histVars
<1>10. CASE CountQc
  <2>1. stored'.pd = stored.pd /\ stored'.flags = stored.flags
    BY <1>0, <1>10
    DEF CountQc, increment_qc_test_message_count, nv_update, WithQcCount, Stored
  <2> QED BY <1>10, <2>1, GuardedQuiet DEF CountQc, Done, histVars
<1> QED
  BY <1>1, <1>2, <1>3, <1>4, <1>5, <1>6, <1>7, <1>8, <1>9, <1>10 DEF ContinueFrame

\* The callers' steps, which touch neither the IDs nor a frame being handled.
LEMMA GuardedCallers ==
    ASSUME Inv1, Guarded,
           \/ \E f \in Frames : pro_enqueue(f)
           \/ nx_keycode_set_custom_flag
           \/ CreditExpires
           \/ UNCHANGED vars
    PROVE  Guarded' /\ AppliesOnlyAbove
<1>1. /\ phase' = phase /\ UNCHANGED <<hist, floor>>
      /\ stored'.pd = stored.pd /\ stored'.flags = stored.flags
  BY DEF pro_enqueue, nx_keycode_set_custom_flag, CreditExpires, nv_update, vars,
         codeVars, histVars, Inv1, TypeOK, Stored
<1>2. phase # "idle" => inbox' = inbox
  BY DEF pro_enqueue, nx_keycode_set_custom_flag, CreditExpires, vars, codeVars,
         Inv1, PhaseInv
<1>3. CASE phase = "idle"
  BY <1>1, <1>3, GuardedQuiet
<1>4. CASE phase # "idle"
  <2>1. inbox' = inbox
    BY <1>2, <1>4
  <2>2. \A id \in Ids : /\ Dead(id)' <=> Dead(id)
                        /\ Covered(id)' <=> Covered(id)
                        /\ Unmarked(id)' <=> Unmarked(id)
    BY <1>1, <2>1 DEF Dead, Covered, CoveredBy, Unmarked
  <2>3. DeadCovered'
    BY <1>1, <2>2 DEF Guarded, DeadCovered
  <2>4. /\ Dead(inbox.id)' <=> Dead(inbox.id)
        /\ Covered(inbox.id)' <=> Covered(inbox.id)
        /\ MasksBelow(inbox)' <=> MasksBelow(inbox)
    BY <1>1, <2>1 DEF Dead, Covered, CoveredBy, MasksBelow
  <2>5. FrameAlive'
    BY <1>1, <2>1, <2>2, <2>4 DEF Guarded, FrameAlive
  <2> QED BY <1>1, <2>3, <2>5 DEF Guarded, NeverTwice, AppliesOnlyAbove
<1> QED BY <1>3, <1>4

\* Power loss outside the two windows: the unit restarts with what it knew.
LEMMA GuardedPowerLoss ==
    ASSUME Inv1, Guarded, PowerLoss, torn' \cap {"shift", "extended"} = {}
    PROVE  Guarded'
<1>1. /\ stored' = stored /\ phase' = "idle" /\ UNCHANGED <<hist, floor>>
      /\ TornWindows \subseteq torn'
  BY DEF PowerLoss, Inv1, StoredPersisted
<1>2. phase # "wiped"
  BY <1>1 DEF TornWindows
<1>3. ~(phase \in {"granted", "shifted"} /\ inbox.type = "EXTENDED")
  BY <1>1 DEF TornWindows
<1>4. \A id \in Ids : Dead(id) => Covered(id)
  BY <1>2, <1>3, DeadAreCovered DEF Guarded, Inv1, PhaseInv
<1>5. \A id \in Ids : Dead(id)' => Covered(id)'
  BY <1>1, <1>4 DEF Dead, Covered, CoveredBy
<1>6. DeadCovered' /\ FrameAlive'
  BY <1>1, <1>5 DEF DeadCovered, FrameAlive
<1> QED BY <1>1, <1>6 DEF Guarded, NeverTwice

\* What power loss has torn stays torn, and nothing else tears.
LEMMA TornGrows ==
    ASSUME [Next]_vars
    PROVE  /\ torn \subseteq torn'
           /\ PowerLoss \/ torn' = torn
BY DEF Next, pro_process, vars, histVars, ContinueFrame, BeginFrame, RaisePd, MarkIds,
       MarkExtended, ApplyAdd, ApplySet, ApplyCustomFlag, RejectWipeTarget, WipeMask,
       WipeCredit, CountQc, RejectInvalid, PassThrough, RejectDuplicate,
       BeginActivation, ApplyDemo, GrantExtended, AllowTest, RejectQc, GrantQc,
       DeviceId, pro_enqueue, nx_keycode_set_custom_flag, CreditExpires, PowerLoss

\* At the first start-up no ID is dead.
LEMMA ReplayInvInit == Init => ReplayInv
<1> SUFFICES ASSUME Init PROVE Guarded
  BY DEF ReplayInv
<1>1. \A id \in Ids : ~Dead(id)
  BY ProAssumption DEF Init, Dead
<1>2. DeadCovered /\ FrameAlive /\ NeverTwice
  BY <1>1 DEF Init, DeadCovered, FrameAlive, NeverTwice
<1> QED BY <1>2 DEF Guarded

\* Every step preserves ReplayInv, and applies no ID that is dead.
LEMMA ReplayInvNext ==
    ASSUME Inv1, ReplayInv, [Next]_vars
    PROVE  /\ ReplayInv'
           /\ NotReplayable => AppliesOnlyAbove
<1>1. NotReplayable' => NotReplayable
  BY TornGrows DEF NotReplayable, IdsFit
<1>2. ASSUME NotReplayable, ~PowerLoss PROVE Guarded' /\ AppliesOnlyAbove
  <2>1. IdsFit /\ Guarded
    BY <1>2 DEF ReplayInv, NotReplayable
  <2> QED
    BY <1>2, <2>1, GuardedBegin, GuardedContinue, GuardedCallers DEF Next, pro_process
<1>3. ASSUME NotReplayable, PowerLoss PROVE AppliesOnlyAbove
  BY <1>3 DEF PowerLoss, AppliesOnlyAbove
<1>4. ASSUME NotReplayable', PowerLoss PROVE Guarded'
  <2>1. Guarded
    BY <1>1, <1>4 DEF ReplayInv
  <2>2. torn' \cap {"shift", "extended"} = {}
    BY <1>4 DEF NotReplayable
  <2> QED BY <1>4, <2>1, <2>2, GuardedPowerLoss
<1> QED BY <1>1, <1>2, <1>3, <1>4 DEF ReplayInv

\* ReplayInv is an invariant.
LEMMA ReplayInvAlways == Spec => []ReplayInv
<1>1. Init => ReplayInv
  BY ReplayInvInit
<1>2. Inv1 /\ ReplayInv /\ [Next]_vars => ReplayInv'
  BY ReplayInvNext
<1> QED BY <1>1, <1>2, Inv1Always, PTL DEF Spec

\* No keycode takes effect twice between two wipes of the message IDs: for
\* every window size, set of IDs that fit uint16_t, order of entry and
\* number of power losses, as long as none of them hits the window in which a
\* jump of Pd has cleared the flags or an EXTENDED keycode is not yet marked.
THEOREM NoReplay == Spec => []AtMostOnce
<1>1. ReplayInv => AtMostOnce
  BY DEF ReplayInv, Guarded, NeverTwice, AtMostOnce
<1> QED BY <1>1, ReplayInvAlways, PTL

\* Under the same conditions, a SET or WIPE keycode that has been applied puts
\* an end to every keycode with a lower ID.
THEOREM NoStale == Spec => NoStaleApply
<1>1. Inv1 /\ ReplayInv /\ [Next]_vars
        => [NotReplayable =>
              \A id \in Ids :
                 /\ hist'[id] # hist[id]
                 /\ hist'[id] \in {"applied", "twice"}
                 => id > floor]_vars
  BY ReplayInvNext DEF AppliesOnlyAbove
<1> QED BY <1>1, Inv1Always, ReplayInvAlways, PTL DEF Spec, NoStaleApply

=============================================================================
