------------------------- MODULE KeycodeProSoundProofs -------------------------
(***************************************************************************)
(* Proofs that nothing is lost, refused without cause or granted beyond    *)
(* its limit by the protocol layer (KeycodePro), and with KeycodeProProofs *)
(* that all it promises of a record and its credit holds together.         *)
(***************************************************************************)
EXTENDS KeycodeProProofs

(***************************************************************************)
(* No keycode is consumed without its effect.                              *)
(***************************************************************************)
\* While power stays on, the only keycode whose ID is consumed and whose
\* effect is still due is the one being handled.
EnteredIsHandled ==
    outages = 0 =>
        \A id \in Ids :
            hist[id] = "entered" =>
                /\ phase \in {"wiped", "shifted", "marked"}
                /\ inbox.type # "EXTENDED"
                /\ id = inbox.id

\* What recording a fate does to the IDs that are only entered.
LEMMA FateSettles ==
    ASSUME hist \in [Ids -> Fates], NEW id \in Ids, Applied(id) \/ Spent(id)
    PROVE  \A i \in Ids : hist'[i] = "entered" => hist[i] = "entered" /\ i # id
BY DEF Applied, Spent, AppliedFate, SpentFate

\* A step that consumes nothing and does not leave the phases of the frame
\* being handled.
LEMMA EnteredQuiet ==
    ASSUME EnteredIsHandled, UNCHANGED <<hist, outages>>,
           \/ inbox' = inbox /\ phase' = phase
           \/ phase \notin {"wiped", "shifted", "marked"}
           \/ inbox.type = "EXTENDED"
           \/ /\ inbox' = inbox
              /\ phase' \in {"wiped", "shifted", "marked"}
    PROVE  EnteredIsHandled'
BY DEF EnteredIsHandled

LEMMA EnteredBegin ==
    ASSUME Inv1, EnteredIsHandled, NEW f \in Frames, BeginFrame(f)
    PROVE  EnteredIsHandled'
<1>0. phase = "idle" /\ inbox = f
  BY DEF BeginFrame, RejectInvalid, PassThrough, RejectDuplicate, BeginActivation,
     ApplyDemo, GrantExtended, AllowTest, RejectQc, GrantQc, DeviceId, Handling
<1>1. CASE BeginActivation(f)
  <2>1. /\ hist' = [hist EXCEPT ![f.id] = IF @ = "fresh" THEN "entered" ELSE @]
        /\ inbox' = f /\ outages' = outages
        /\ f.type # "EXTENDED" /\ BeginMark(nv_read(stored), f)
    BY <1>0, <1>1 DEF BeginActivation, Enter, IsActivation
  <2>2. phase' \in {"wiped", "shifted", "marked"}
    BY <2>1 DEF BeginMark
  <2>3. ASSUME NEW id \in Ids, id # f.id PROVE hist'[id] = hist[id]
    BY <2>1, <2>3 DEF Inv1, TypeOK
  <2> QED BY <1>0, <2>1, <2>2, <2>3 DEF EnteredIsHandled
<1>2. CASE GrantExtended(f)
  <2>1. f.id \in Ids
    BY <1>2, FrameShape DEF GrantExtended, Numbered
  <2>2. Applied(f.id) /\ outages' = outages
    BY <1>2 DEF GrantExtended
  <2>3. \A i \in Ids : hist'[i] = "entered" => hist[i] = "entered"
    BY <2>1, <2>2, FateSettles DEF Inv1, TypeOK
  <2> QED BY <1>0, <2>2, <2>3 DEF EnteredIsHandled
<1>3. CASE ~BeginActivation(f) /\ ~GrantExtended(f)
  <2>1. UNCHANGED <<hist, outages>>
    BY <1>3 DEF BeginFrame, RejectInvalid, PassThrough, RejectDuplicate,
       ApplyDemo, AllowTest, RejectQc, GrantQc, DeviceId, histVars
  <2> QED BY <1>0, <2>1, EnteredQuiet
<1> QED BY <1>1, <1>2, <1>3

LEMMA EnteredContinue ==
    ASSUME Inv1, EnteredIsHandled, ContinueFrame
    PROVE  EnteredIsHandled'
<1>1. CASE RaisePd \/ MarkIds
  BY <1>1, EnteredQuiet DEF RaisePd, MarkIds, histVars
<1>2. CASE MarkExtended
  <2>1. phase = "granted" /\ UNCHANGED <<hist, outages>>
    BY <1>2 DEF MarkExtended, histVars
  <2> QED BY <2>1, EnteredQuiet
<1>3. CASE ApplyAdd \/ ApplySet \/ RejectWipeTarget
           \/ (ApplyCustomFlag /\ inbox.type # "EXTENDED")
  <2>1. phase = "marked" /\ (Applied(inbox.id) \/ Spent(inbox.id)) /\ outages' = outages
    BY <1>3 DEF ApplyAdd, ApplySet, RejectWipeTarget, ApplyCustomFlag
  <2>2. inbox.id \in Ids
    <3>1. inbox # NoFrame /\ Numbered(inbox)
      BY <2>1 DEF Inv1, PhaseInv
    <3> QED BY <3>1, FrameShape DEF Inv1, TypeOK
  <2>3. \A i \in Ids : hist'[i] = "entered" => hist[i] = "entered" /\ i # inbox.id
    BY <2>1, <2>2, FateSettles DEF Inv1, TypeOK
  <2> QED BY <2>1, <2>3 DEF EnteredIsHandled
<1>4. CASE ApplyCustomFlag /\ inbox.type = "EXTENDED"
  BY <1>4, EnteredQuiet DEF ApplyCustomFlag
<1>5. CASE WipeMask
  <2>1. hist' = [id \in Ids |-> "fresh"]
    BY <1>5 DEF WipeMask, NewEpoch
  <2> QED BY <2>1 DEF EnteredIsHandled
<1>6. CASE WipeCredit \/ CountQc
  <2>1. phase \in {"zeroed", "idle", "count"} /\ UNCHANGED <<hist, outages>>
    BY <1>6 DEF WipeCredit, CountQc, histVars
  <2> QED BY <2>1, EnteredQuiet
<1> QED BY <1>1, <1>2, <1>3, <1>4, <1>5, <1>6 DEF ContinueFrame

LEMMA EnteredNext == Inv1 /\ EnteredIsHandled /\ [Next]_vars => EnteredIsHandled'
<1> SUFFICES ASSUME Inv1, EnteredIsHandled, [Next]_vars PROVE EnteredIsHandled'
  OBVIOUS
<1>1. ASSUME NEW f \in Frames, pro_enqueue(f) PROVE EnteredIsHandled'
  <2>1. UNCHANGED <<hist, outages, phase>> /\ (phase # "idle" => inbox' = inbox)
    BY <1>1 DEF pro_enqueue, histVars, Inv1, PhaseInv
  <2> QED BY <2>1, EnteredQuiet
<1>2. CASE nx_keycode_set_custom_flag \/ CreditExpires
  BY <1>2, EnteredQuiet DEF nx_keycode_set_custom_flag, CreditExpires, histVars
<1>3. CASE PowerLoss
  <2>1. outages' # 0
    BY <1>3, ProAssumption DEF PowerLoss, Inv1, TypeOK
  <2> QED BY <2>1 DEF EnteredIsHandled
<1>4. CASE UNCHANGED vars
  BY <1>4, EnteredQuiet DEF vars, codeVars, histVars
<1> QED BY <1>1, <1>2, <1>3, <1>4, EnteredBegin, EnteredContinue DEF Next, pro_process

LEMMA EnteredInit == Init => EnteredIsHandled
BY DEF Init, EnteredIsHandled

\* While power stays on, every keycode whose ID has been consumed has had its
\* effect or was declined by the time its handler is done.
THEOREM NothingLost == Spec => []NoSilentLoss
<1>1. EnteredIsHandled => NoSilentLoss
  BY DEF EnteredIsHandled, NoSilentLoss
<1> QED BY <1>1, Inv1Init, Inv1Next, EnteredInit, EnteredNext, PTL DEF Spec

(***************************************************************************)
(* The lifetime limits on QC test codes.                                   *)
(***************************************************************************)
\* Unless power was lost between a credit and its count, every test code
\* granted is counted in the record, but for the one being handled, which
\* was below the limit.
GrantsCounted ==
    "count" \notin torn =>
        /\ \A kind \in {"short", "long"} :
              /\ QcCount(qcGranted, kind) <= QcMax(kind)
              /\ ~(phase = "count" /\ kind = QcKind(inbox.arg))
                    => QcCount(qcGranted, kind) <= QcCount(stored, kind)
        /\ phase = "count" =>
              LET kind == QcKind(inbox.arg)
              IN  /\ QcCount(qcGranted, kind) <= QcCount(stored, kind) + 1
                  /\ QcCount(stored, kind) < QcMax(kind)

\* The counts of a record and of the history are numbers.
LEMMA QcTypes ==
    ASSUME TypeOK, NEW kind \in {"short", "long"}
    PROVE  /\ QcCount(stored, kind) \in 0..15
           /\ QcCount(qcGranted, kind) \in Nat
           /\ QcMax(kind) \in 0..15
BY ProAssumption DEF TypeOK, Stored, QcCount, QcMax

\* A step outside phase "count" that keeps both counts.
LEMMA CountedQuiet ==
    ASSUME GrantsCounted, phase # "count", phase' # "count",
           stored'.short = stored.short, stored'.long = stored.long,
           qcGranted' = qcGranted, torn' = torn
    PROVE  GrantsCounted'
BY DEF GrantsCounted, QcCount

LEMMA BeginMarkCounts ==
    ASSUME NEW st \in Stored, NEW f, f.id \in Nat, BeginMark(st, f)
    PROVE  /\ stored'.short = st.short /\ stored'.long = st.long
           /\ phase' \in {"wiped", "shifted", "marked"}
BY DEF BeginMark, nv_update, Marked, Stored

LEMMA CountedBegin ==
    ASSUME Inv1, GrantsCounted, NEW f \in Frames, BeginFrame(f)
    PROVE  GrantsCounted'
<1>0. /\ phase = "idle" /\ inbox = f /\ nv_read(stored) = stored /\ f.id \in Nat
      /\ stored \in Stored
  BY ReadKeepsStored, FrameShape DEF Inv1, TypeOK, BeginFrame, RejectInvalid,
     PassThrough, RejectDuplicate, BeginActivation, ApplyDemo, GrantExtended,
     AllowTest, RejectQc, GrantQc, DeviceId, Handling
<1>1. CASE BeginActivation(f)
  <2>1. BeginMark(stored, f) /\ qcGranted' = qcGranted /\ torn' = torn
    BY <1>0, <1>1 DEF BeginActivation
  <2>2. /\ stored'.short = stored.short /\ stored'.long = stored.long
        /\ phase' \in {"wiped", "shifted", "marked"}
    BY <1>0, <2>1, BeginMarkCounts
  <2> QED BY <1>0, <2>1, <2>2, CountedQuiet
<1>2. CASE GrantQc(f)
  <2> SUFFICES ASSUME "count" \notin torn PROVE GrantsCounted'
    BY <1>2 DEF GrantQc, GrantsCounted
  <2> DEFINE kind == QcKind(f.arg)
             n == QcCount(qcGranted, kind)
  <2>1. kind \in {"short", "long"}
    BY DEF QcKind
  <2>2. /\ QcCount(stored, kind) \in Nat /\ n \in Nat /\ QcMax(kind) \in Nat
        /\ QcCount(stored, kind) < QcMax(kind)
        /\ n <= QcCount(stored, kind)
    <3>1. QcCount(stored, kind) < QcMax(kind)
      BY <1>2 DEF GrantQc, can_unit_accept_qc_code
    <3>2. n <= QcCount(stored, kind)
      BY <1>0, <2>1 DEF GrantsCounted
    <3> QED BY <2>1, <3>1, <3>2, QcTypes DEF Inv1
  <2>3. qcGranted' = WithQcCount(qcGranted, kind, n + 1)
    <3>1. qcGranted' = WithQcCount(qcGranted, kind, IF n > QcMax(kind) THEN n ELSE n + 1)
      BY <1>2 DEF GrantQc
    <3>2. ~(n > QcMax(kind))
      BY <2>2
    <3> QED BY <3>1, <3>2
  <2>4. /\ QcCount(qcGranted', kind) = n + 1
        /\ \A other \in {"short", "long"} :
              other # kind => QcCount(qcGranted', other) = QcCount(qcGranted, other)
    <3> HIDE DEF n
    <3> QED BY <2>1, <2>3 DEF WithQcCount, QcCount, Inv1, TypeOK, QcKind
  <2>5. stored' = stored /\ torn' = torn /\ inbox' = inbox /\ phase' = "count"
    BY <1>2 DEF GrantQc
  <2>6. QcKind(inbox'.arg) = kind
    BY <1>0, <2>5
  <2>7. \A other \in {"short", "long"} :
           other # kind => /\ QcCount(qcGranted, other) <= QcMax(other)
                           /\ QcCount(qcGranted, other) <= QcCount(stored, other)
    BY <1>0 DEF GrantsCounted
  <2> HIDE DEF kind, n
  <2> QED BY <2>1, <2>2, <2>4, <2>5, <2>6, <2>7 DEF GrantsCounted
<1>3. CASE ~BeginActivation(f) /\ ~GrantQc(f)
  <2>1. stored' = stored /\ phase' # "count" /\ UNCHANGED <<qcGranted, torn>>
    BY <1>0, <1>3 DEF BeginFrame, RejectInvalid, PassThrough, RejectDuplicate,
       ApplyDemo, GrantExtended, AllowTest, RejectQc, DeviceId, Done, histVars
  <2> QED BY <1>0, <2>1, CountedQuiet
<1> QED BY <1>1, <1>2, <1>3

LEMMA CountedContinue ==
    ASSUME Inv1, GrantsCounted, ContinueFrame
    PROVE  GrantsCounted'
<1>0. stored \in Stored
  BY DEF Inv1, TypeOK
<1>1. CASE RaisePd \/ MarkIds \/ ApplyAdd \/ ApplySet \/ ApplyCustomFlag
           \/ RejectWipeTarget
  <2>1. /\ stored'.short = stored.short /\ stored'.long = stored.long
        /\ phase # "count" /\ phase' # "count" /\ UNCHANGED <<qcGranted, torn>>
    BY <1>0, <1>1 DEF RaisePd, MarkIds, ApplyAdd, ApplySet, ApplyCustomFlag,
       RejectWipeTarget, Done, nv_update, Marked, reset_custom_flag, Stored, histVars
  <2> QED BY <2>1, CountedQuiet
<1>2. CASE MarkExtended
  <2>1. phase = "granted" /\ BeginMark(stored, inbox) /\ UNCHANGED <<qcGranted, torn>>
    BY <1>2 DEF MarkExtended, histVars
  <2>2. inbox.id \in Nat
    BY <2>1, FrameShape DEF Inv1, TypeOK, PhaseInv
  <2>3. /\ stored'.short = stored.short /\ stored'.long = stored.long
        /\ phase' \in {"wiped", "shifted", "marked"}
    BY <1>0, <2>1, <2>2, BeginMarkCounts
  <2> QED BY <2>1, <2>3, CountedQuiet
<1>3. CASE WipeMask
  <2>1. /\ qcGranted' = [short |-> 0, long |-> 0] /\ phase' # "count"
        /\ stored'.short = 0 /\ stored'.long = 0
    BY <1>0, <1>3 DEF WipeMask, NewEpoch, nv_update, Stored, Done
  <2>2. QcMax("short") \in Nat /\ QcMax("long") \in Nat
    BY QcTypes DEF Inv1
  <2> QED BY <2>1, <2>2 DEF GrantsCounted, QcCount
<1>4. CASE WipeCredit
  <2>1. stored' = stored /\ phase # "count" /\ phase' # "count" /\ UNCHANGED <<qcGranted, torn>>
    BY <1>4 DEF WipeCredit, Done, histVars
  <2> QED BY <2>1, CountedQuiet
<1>5. CASE CountQc
  <2> SUFFICES ASSUME "count" \notin torn PROVE GrantsCounted'
    BY <1>5 DEF CountQc, histVars, GrantsCounted
  <2> DEFINE kind == QcKind(inbox.arg)
             c == QcCount(stored, kind)
  <2>1. kind \in {"short", "long"}
    BY DEF QcKind
  <2>2. /\ phase = "count" /\ phase' = "idle" /\ UNCHANGED <<qcGranted, torn>>
        /\ increment_qc_test_message_count
    BY <1>5 DEF CountQc, Done, histVars
  <2>3. c \in 0..15 /\ QcMax(kind) \in 0..15 /\ c < QcMax(kind)
        /\ QcCount(qcGranted, kind) <= c + 1
    BY <2>1, <2>2, QcTypes DEF Inv1, GrantsCounted
  <2>4. stored' = WithQcCount(stored, kind, c + 1)
    <3>1. ~(c + 1 > 15 \/ c + 1 > QcMax(kind))
      BY <2>3
    <3> QED BY <2>2, <3>1 DEF increment_qc_test_message_count, nv_update
  <2>5. /\ QcCount(stored', kind) = c + 1
        /\ \A other \in {"short", "long"} :
              other # kind => QcCount(stored', other) = QcCount(stored, other)
    <3> HIDE DEF c
    <3> QED BY <1>0, <2>1, <2>4 DEF WithQcCount, QcCount, Stored, QcKind
  <2>6. /\ \A other \in {"short", "long"} : QcCount(qcGranted, other) <= QcMax(other)
        /\ \A other \in {"short", "long"} :
              other # kind => QcCount(qcGranted, other) <= QcCount(stored, other)
    BY <2>2 DEF GrantsCounted
  <2> HIDE DEF kind, c
  <2> QED BY <2>1, <2>2, <2>3, <2>5, <2>6 DEF GrantsCounted
<1> QED BY <1>1, <1>2, <1>3, <1>4, <1>5 DEF ContinueFrame

LEMMA CountedNext == Inv1 /\ GrantsCounted /\ [Next]_vars => GrantsCounted'
<1> SUFFICES ASSUME Inv1, GrantsCounted, [Next]_vars PROVE GrantsCounted'
  OBVIOUS
<1>0. stored \in Stored
  BY DEF Inv1, TypeOK
<1>1. ASSUME NEW f \in Frames, pro_enqueue(f) PROVE GrantsCounted'
  <2>1. UNCHANGED <<stored, phase, qcGranted, torn>> /\ (phase # "idle" => inbox' = inbox)
    BY <1>1 DEF pro_enqueue, histVars, Inv1, PhaseInv
  <2> QED BY <2>1 DEF GrantsCounted
<1>2. CASE nx_keycode_set_custom_flag
  <2>1. /\ stored'.short = stored.short /\ stored'.long = stored.long
        /\ phase = "idle" /\ phase' = "idle" /\ UNCHANGED <<qcGranted, torn>>
    BY <1>0, <1>2 DEF nx_keycode_set_custom_flag, nv_update, Stored, histVars
  <2> QED BY <2>1, CountedQuiet
<1>3. CASE CreditExpires
  BY <1>3 DEF CreditExpires, histVars, GrantsCounted
<1>4. CASE PowerLoss
  <2>1. /\ stored' = stored /\ phase' = "idle" /\ qcGranted' = qcGranted
        /\ torn' = torn \cup TornWindows
    BY <1>4 DEF PowerLoss, Inv1, StoredPersisted
  <2>2. CASE phase = "count"
    <3>1. "count" \in torn'
      BY <2>1, <2>2 DEF TornWindows
    <3> QED BY <3>1 DEF GrantsCounted
  <2>3. CASE phase # "count"
    BY <2>1, <2>3 DEF GrantsCounted
  <2> QED BY <2>2, <2>3
<1>5. CASE UNCHANGED vars
  BY <1>5 DEF vars, codeVars, histVars, GrantsCounted
<1> QED BY <1>1, <1>2, <1>3, <1>4, <1>5, CountedBegin, CountedContinue
        DEF Next, pro_process

LEMMA CountedInit == Init => GrantsCounted
<1>1. QcMax("short") \in Nat /\ QcMax("long") \in Nat
  BY ProAssumption DEF QcMax
<1> QED BY <1>1 DEF Init, GrantsCounted, QcCount, Default

LEMMA CountedIsLimited == GrantsCounted => QcLimitPerEpoch
BY DEF GrantsCounted, QcLimitPerEpoch, QcCount, QcMax

\* Between two WIPEs of the message IDs no more QC test codes are honoured than
\* their limit, over any number of restarts, unless power is lost between the
\* credit of a code and the write of its count.  Over several WIPEs the limit
\* applies to each part of the unit's life between them.
THEOREM QcLimited == Spec => []QcLimitPerEpoch
BY CountedIsLimited, Inv1Init, Inv1Next, CountedInit, CountedNext, PTL DEF Spec

(***************************************************************************)
(* No keycode is refused that was not entered.                             *)
(***************************************************************************)
\* A flag may be set for an ID that was entered, or that a SET, WIPE or
\* EXTENDED keycode with this or a higher ID has masked.
Known(id) == hist[id] # "fresh" \/ id <= maskTop

FlagsKnown == \A id \in Ids : MessageIdFlag(stored.pd, stored.flags, id) => Known(id)

\* The frame whose ID is about to be marked.
FrameKnown ==
    /\ phase \in {"granted", "wiped", "shifted"} =>
          /\ hist[inbox.id] # "fresh"
          /\ MasksBelow(inbox) => inbox.id <= maskTop
    /\ phase = "granted" => inbox.id >= stored.pd - Below
    /\ phase = "wiped" => stored.flags = {}

FlagInv ==
    /\ ~nv.valid => nv.data = Default
    /\ IdsFit => FlagsKnown /\ FrameKnown

\* Marking a frame's ID sets the flags of that ID and, for the types that
\* mask, of those below it.
LEMMA MarkedFlags ==
    ASSUME IdsFit, NEW st \in Stored, NEW f, f.id \in Ids,
           st.pd - Below <= f.id, f.id <= st.pd, NEW id \in Ids,
           MessageIdFlag(st.pd, Marked(st, f).flags, id)
    PROVE  \/ MessageIdFlag(st.pd, st.flags, id)
           \/ id = f.id
           \/ MasksBelow(f) /\ id <= f.id
<1>1. /\ f.id \in Nat /\ id \in Nat /\ st.pd \in Nat /\ Below \in Nat
      /\ MarkTarget(f) = f.id
  BY ProAssumption, WindowAssumption, MarkTargetType DEF IdsFit, Stored
<1> DEFINE idx == Below - (st.pd - f.id)
<1>2. UpdatedMaskIndex(st.pd, MarkTarget(f)) = idx
  BY <1>1 DEF UpdatedMaskIndex, mask_idx_from_message_id
<1>3. Marked(st, f).flags = st.flags \cup (IF MasksBelow(f) THEN 0..idx ELSE {idx})
  BY <1>2 DEF Marked, Stored
<1>4. /\ id <= st.pd /\ is_message_id_within_window(st.pd, id)
      /\ Below - (st.pd - id) \in Marked(st, f).flags
  BY DEF MessageIdFlag, mask_idx_from_message_id
<1>5. CASE Below - (st.pd - id) \in st.flags
  BY <1>4, <1>5 DEF MessageIdFlag, mask_idx_from_message_id
<1>6. CASE ~MasksBelow(f) /\ Below - (st.pd - id) = idx
  BY <1>1, <1>6
<1>7. CASE MasksBelow(f) /\ Below - (st.pd - id) \in 0..idx
  BY <1>1, <1>7
<1> QED BY <1>3, <1>4, <1>5, <1>6, <1>7

\* Shifting the window never moves a flag onto another ID.
LEMMA ShiftedFlagsKeep ==
    ASSUME NEW st \in Stored, NEW t \in Int, t > st.pd, NEW id \in Nat,
           MessageIdFlag(t, ShiftedFlags(st.flags, t - st.pd), id)
    PROVE  MessageIdFlag(st.pd, st.flags, id)
<1>1. st.pd \in Nat /\ Below \in Nat /\ st.flags \subseteq 0..Below
  BY WindowAssumption DEF Stored, MaskIndices
<1>2. Below - (t - id) \in ShiftedFlags(st.flags, t - st.pd)
  BY DEF MessageIdFlag, mask_idx_from_message_id
<1>3. (Below - (t - id)) + (t - st.pd) \in st.flags
  BY <1>2 DEF ShiftedFlags
<1>4. (Below - (t - id)) + (t - st.pd) = Below - (st.pd - id)
  BY <1>1
<1>5. Below - (st.pd - id) \in st.flags
  BY <1>3, <1>4
<1>6. Below - (st.pd - id) \in 0..Below
  BY <1>1, <1>5
<1>7. id <= st.pd /\ st.pd - Below <= id /\ id <= st.pd + Above
  BY <1>1, <1>6, WindowAssumption
<1> QED BY <1>5, <1>7
        DEF MessageIdFlag, is_message_id_within_window, mask_idx_from_message_id

\* The first step of marking sets no flag but those of the frame.
LEMMA BeginMarkFlags ==
    ASSUME IdsFit, stored \in Stored, NEW f, f.id \in Ids,
           stored.pd - Below <= f.id, BeginMark(stored, f)
    PROVE  /\ \A id \in Ids :
                 MessageIdFlag(stored'.pd, stored'.flags, id) =>
                    \/ MessageIdFlag(stored.pd, stored.flags, id)
                    \/ id = f.id
                    \/ MasksBelow(f) /\ id <= f.id
           /\ phase' = "wiped" => stored'.flags = {}
           /\ nv'.valid \/ nv' = nv
           /\ phase' \in {"wiped", "shifted", "marked"}
<1> DEFINE t == MarkTarget(f)
<1>1. /\ f.id \in Nat /\ t = f.id /\ stored.pd \in Nat /\ Below \in Nat
      /\ Ids \subseteq Nat
  BY ProAssumption, WindowAssumption, MarkTargetType DEF IdsFit, Stored
<1>2. CASE stored' = stored /\ phase' = "marked" /\ nv' = nv
  BY <1>2
<1>3. CASE t <= stored.pd /\ nv_update(Marked(stored, f)) /\ phase' = "marked"
  <2>1. stored' = Marked(stored, f) /\ nv'.valid
    BY <1>3 DEF nv_update
  <2>2. stored'.pd = stored.pd
    BY <1>1, <2>1, MarkedType
  <2> QED BY <1>1, <1>3, <2>1, <2>2, MarkedFlags
<1>4. CASE /\ stored.pd < t /\ t <= stored.pd + Below
           /\ nv_update([stored EXCEPT !.pd = t,
                            !.flags = ShiftedFlags(@, t - stored.pd)])
           /\ phase' = "shifted"
  <2>1. /\ stored'.pd = t /\ stored'.flags = ShiftedFlags(stored.flags, t - stored.pd)
        /\ nv'.valid
    BY <1>4 DEF nv_update, Stored
  <2> HIDE DEF t
  <2>2. t \in Int /\ t > stored.pd
    BY <1>1, <1>4
  <2> QED BY <1>1, <1>4, <2>1, <2>2, ShiftedFlagsKeep
<1>5. CASE /\ t > stored.pd + Below
           /\ nv_update([stored EXCEPT !.flags = ShiftedFlags(@, t - stored.pd)])
           /\ phase' = "wiped"
  <2>1. stored'.flags = ShiftedFlags(stored.flags, t - stored.pd) /\ nv'.valid
    BY <1>5 DEF nv_update, Stored
  <2> HIDE DEF t
  <2>2. t - stored.pd > Below
    BY <1>1, <1>5
  <2>3. stored'.flags = {}
    BY <2>1, <2>2 DEF ShiftedFlags
  <2> QED BY <1>5, <2>1, <2>3 DEF MessageIdFlag
<1> QED BY <1>2, <1>3, <1>4, <1>5 DEF BeginMark

\* An activation keycode that passes its check is not below the window.
LEMMA CheckedAboveBottom ==
    ASSUME stored \in Stored, NEW f, f.id \in Nat, CheckMatches(f)
    PROVE  stored.pd - Below <= f.id
<1>1. f.id % IdSpace \in Nat /\ stored.pd \in Nat /\ stored.pd >= Below /\ Below \in Nat
  BY WindowAssumption DEF Stored
<1>2. infer_full_message_id(f.id % IdSpace, stored.pd) >= stored.pd - Below
  BY <1>1, InferredAboveBottom
<1> QED BY <1>1, <1>2 DEF CheckMatches

\* A step that sets no flag and forgets no ID.
LEMMA FlagQuiet ==
    ASSUME FlagInv,
           stored'.pd = stored.pd, stored'.flags = stored.flags,
           nv'.valid \/ nv' = nv,
           phase' \in {"idle", "marked", "zeroed", "count"}
              \/ (phase' = phase /\ inbox' = inbox),
           maskTop' = maskTop,
           \A id \in Ids : hist'[id] = "fresh" => hist[id] = "fresh",
           phase' \in {"granted", "wiped", "shifted"} => hist' = hist
    PROVE  FlagInv'
<1>1. nv'.valid \/ (~nv'.valid => nv'.data = Default)
  BY DEF FlagInv
<1>2. ASSUME IdsFit PROVE FlagsKnown' /\ FrameKnown'
  <2>1. FlagsKnown /\ FrameKnown
    BY <1>2 DEF FlagInv
  <2>2. FlagsKnown'
    BY <2>1 DEF FlagsKnown, Known
  <2>3. FrameKnown'
    BY <2>1 DEF FrameKnown
  <2> QED BY <2>2, <2>3
<1> QED BY <1>1, <1>2 DEF FlagInv, IdsFit

LEMMA FlagBegin ==
    ASSUME Inv1, FlagInv, NEW f \in Frames, BeginFrame(f)
    PROVE  FlagInv'
<1>0. /\ phase = "idle" /\ inbox = f /\ nv_read(stored) = stored /\ f.id \in Nat
      /\ stored \in Stored /\ (Numbered(f) => f.id \in Ids)
      /\ hist \in [Ids -> Fates] /\ maskTop \in Ids \cup {-1}
  BY ReadKeepsStored, FrameShape DEF Inv1, TypeOK, BeginFrame, RejectInvalid,
     PassThrough, RejectDuplicate, BeginActivation, ApplyDemo, GrantExtended,
     AllowTest, RejectQc, GrantQc, DeviceId, Handling
<1>00. \A id \in Ids \cup {-1} : id \in Int
  BY ProAssumption
<1>1. CASE BeginActivation(f)
  <2>1. /\ f.id \in Ids /\ CheckMatches(f) /\ BeginMark(stored, f) /\ inbox' = f
        /\ hist' = [hist EXCEPT ![f.id] = IF @ = "fresh" THEN "entered" ELSE @]
        /\ maskTop' = IF MasksBelow(f) THEN Higher(maskTop, f.id) ELSE maskTop
    BY <1>0, <1>1 DEF BeginActivation, IsActivation, Enter
  <2>2. stored.pd - Below <= f.id
    BY <1>0, <2>1, CheckedAboveBottom
  <2>3. /\ hist'[f.id] # "fresh"
        /\ \A id \in Ids : hist[id] # "fresh" => hist'[id] # "fresh"
    BY <1>0, <2>1
  <2>4. maskTop' >= maskTop /\ (MasksBelow(f) => f.id <= maskTop') /\ maskTop' \in Int
    BY <1>0, <1>00, <2>1 DEF Higher
  <2>5. nv'.valid \/ nv' = nv
    BY <2>1 DEF BeginMark, nv_update
  <2>6. ASSUME IdsFit PROVE FlagsKnown' /\ FrameKnown'
    <3>1. /\ \A id \in Ids :
                MessageIdFlag(stored'.pd, stored'.flags, id) =>
                   \/ MessageIdFlag(stored.pd, stored.flags, id)
                   \/ id = f.id
                   \/ MasksBelow(f) /\ id <= f.id
          /\ phase' = "wiped" => stored'.flags = {}
          /\ phase' \in {"wiped", "shifted", "marked"}
      BY <1>0, <2>1, <2>2, <2>6, BeginMarkFlags
    <3>2. \A id \in Ids : Known(id) => Known(id)'
      BY <1>0, <1>00, <2>3, <2>4 DEF Known
    <3>3. \A id \in Ids : MasksBelow(f) /\ id <= f.id => id <= maskTop'
      BY <1>0, <1>00, <2>1, <2>4
    <3>4. FlagsKnown'
      BY <2>3, <2>6, <3>1, <3>2, <3>3 DEF FlagInv, FlagsKnown, Known
    <3>5. FrameKnown'
      BY <2>1, <2>3, <2>4, <3>1 DEF FrameKnown
    <3> QED BY <3>4, <3>5
  <2> QED BY <2>5, <2>6 DEF FlagInv, IdsFit
<1>2. CASE GrantExtended(f)
  <2>1. /\ f.id \in Ids /\ Applied(f.id) /\ inbox' = f /\ phase' = "granted"
        /\ maskTop' = Higher(maskTop, f.id) /\ UNCHANGED <<stored, nv>>
        /\ f.id \in WindowIds(stored.pd)
    BY <1>0, <1>2 DEF GrantExtended, Numbered, ExtendedMatches
  <2>2. /\ hist'[f.id] # "fresh"
        /\ \A id \in Ids : hist[id] # "fresh" => hist'[id] # "fresh"
    BY <1>0, <2>1 DEF Applied, AppliedFate
  <2>3. maskTop' >= maskTop /\ f.id <= maskTop' /\ maskTop' \in Int
    BY <1>0, <1>00, <2>1 DEF Higher
  <2>4. stored.pd - Below <= f.id
    BY <1>0, <2>1, WindowAssumption DEF WindowIds, Stored
  <2>5. \A id \in Ids : Known(id) => Known(id)'
    BY <1>0, <1>00, <2>2, <2>3 DEF Known
  <2>6. ASSUME IdsFit PROVE FlagsKnown' /\ FrameKnown'
    BY <2>1, <2>2, <2>3, <2>4, <2>5, <2>6 DEF FlagInv, FlagsKnown, FrameKnown
  <2> QED BY <2>1, <2>6 DEF FlagInv, IdsFit
<1>3. CASE ~BeginActivation(f) /\ ~GrantExtended(f)
  <2>1. /\ stored' = stored /\ phase' \in {"idle", "count"}
        /\ UNCHANGED <<nv, hist, maskTop>>
    BY <1>0, <1>3 DEF BeginFrame, RejectInvalid, PassThrough, RejectDuplicate,
       ApplyDemo, AllowTest, RejectQc, GrantQc, DeviceId, Done, histVars
  <2> QED BY <2>1, FlagQuiet
<1> QED BY <1>1, <1>2, <1>3

LEMMA FlagContinue ==
    ASSUME Inv1, FlagInv, ContinueFrame
    PROVE  FlagInv'
<1>0. stored \in Stored /\ hist \in [Ids -> Fates] /\ maskTop \in Ids \cup {-1}
  BY DEF Inv1, TypeOK
<1>00. \A id \in Ids \cup {-1} : id \in Int
  BY ProAssumption
<1>01. phase \in {"granted", "wiped", "shifted", "marked"} => inbox.id \in Ids
  <2>1. phase \in {"granted", "wiped", "shifted", "marked"}
          => inbox # NoFrame /\ Numbered(inbox)
    BY DEF Inv1, PhaseInv
  <2> QED BY <2>1, FrameShape DEF Inv1, TypeOK
<1>1. CASE RaisePd
  <2>1. /\ phase = "wiped" /\ phase' = "shifted" /\ stored'.flags = stored.flags
        /\ nv'.valid /\ UNCHANGED <<inbox, hist, maskTop>>
    BY <1>0, <1>1 DEF RaisePd, nv_update, Stored, histVars
  <2>2. ASSUME IdsFit PROVE FlagsKnown' /\ FrameKnown'
    <3>1. stored'.flags = {} /\ FrameKnown
      BY <2>1, <2>2 DEF FlagInv, FrameKnown
    <3>2. FlagsKnown'
      BY <3>1 DEF FlagsKnown, MessageIdFlag
    <3>3. FrameKnown'
      BY <2>1, <3>1 DEF FrameKnown
    <3> QED BY <3>2, <3>3
  <2> QED BY <2>1, <2>2 DEF FlagInv, IdsFit
<1>2. CASE MarkIds
  <2>1. /\ phase = "shifted" /\ phase' = "marked" /\ stored' = Marked(stored, inbox)
        /\ nv'.valid /\ UNCHANGED <<inbox, hist, maskTop>>
    BY <1>2 DEF MarkIds, nv_update, histVars
  <2>2. ASSUME IdsFit PROVE FlagsKnown' /\ FrameKnown'
    <3>1. inbox.id \in Ids /\ inbox.id \in Nat /\ MarkTarget(inbox) = inbox.id
      BY <1>01, <2>1, <2>2, MarkTargetType, ProAssumption DEF IdsFit
    <3>2. inbox.id = stored.pd
      BY <2>1, <3>1 DEF Inv1, PhaseInv
    <3>3. stored'.pd = stored.pd
      BY <1>0, <2>1, <3>1, MarkedType
    <3>4. \A id \in Ids :
             MessageIdFlag(stored.pd, Marked(stored, inbox).flags, id) =>
                \/ MessageIdFlag(stored.pd, stored.flags, id)
                \/ id = inbox.id
                \/ MasksBelow(inbox) /\ id <= inbox.id
      <4>1. stored.pd - Below <= inbox.id /\ inbox.id <= stored.pd
        BY <3>1, <3>2, WindowAssumption
      <4> QED BY <1>0, <2>2, <3>1, <4>1, MarkedFlags
    <3>5. hist[inbox.id] # "fresh" /\ (MasksBelow(inbox) => inbox.id <= maskTop)
      BY <2>1, <2>2 DEF FlagInv, FrameKnown
    <3>6. \A id \in Ids : MasksBelow(inbox) /\ id <= inbox.id => id <= maskTop
      BY <1>0, <1>00, <3>1, <3>5
    <3>7. FlagsKnown'
      BY <2>1, <2>2, <3>3, <3>4, <3>5, <3>6 DEF FlagInv, FlagsKnown, Known
    <3> QED BY <2>1, <3>7 DEF FrameKnown
  <2> QED BY <2>1, <2>2 DEF FlagInv, IdsFit
<1>3. CASE MarkExtended
  <2>1. /\ phase = "granted" /\ BeginMark(stored, inbox)
        /\ UNCHANGED <<inbox, hist, maskTop>>
    BY <1>3 DEF MarkExtended, histVars
  <2>2. nv'.valid \/ nv' = nv
    BY <2>1 DEF BeginMark, nv_update
  <2>3. ASSUME IdsFit PROVE FlagsKnown' /\ FrameKnown'
    <3>1. /\ inbox.id \in Ids /\ hist[inbox.id] # "fresh"
          /\ MasksBelow(inbox) => inbox.id <= maskTop
          /\ inbox.id >= stored.pd - Below
      BY <1>01, <2>1, <2>3 DEF FlagInv, FrameKnown
    <3>2. stored.pd - Below <= inbox.id
      BY <1>0, <1>00, <3>1, WindowAssumption DEF Stored
    <3>3. /\ \A id \in Ids :
                MessageIdFlag(stored'.pd, stored'.flags, id) =>
                   \/ MessageIdFlag(stored.pd, stored.flags, id)
                   \/ id = inbox.id
                   \/ MasksBelow(inbox) /\ id <= inbox.id
          /\ phase' = "wiped" => stored'.flags = {}
          /\ phase' \in {"wiped", "shifted", "marked"}
      BY <1>0, <2>1, <2>3, <3>1, <3>2, BeginMarkFlags
    <3>4. \A id \in Ids : MasksBelow(inbox) /\ id <= inbox.id => id <= maskTop
      BY <1>0, <1>00, <3>1
    <3>5. FlagsKnown'
      BY <2>1, <2>3, <3>1, <3>3, <3>4 DEF FlagInv, FlagsKnown, Known
    <3>6. FrameKnown'
      BY <2>1, <3>1, <3>3 DEF FrameKnown
    <3> QED BY <3>5, <3>6
  <2> QED BY <2>2, <2>3 DEF FlagInv, IdsFit
<1>4. CASE ApplyAdd \/ ApplySet \/ ApplyCustomFlag \/ RejectWipeTarget
  <2>1. /\ stored'.pd = stored.pd /\ stored'.flags = stored.flags
        /\ nv'.valid \/ nv' = nv
        /\ phase' = "idle" /\ maskTop' = maskTop /\ phase = "marked"
    BY <1>0, <1>4 DEF ApplyAdd, ApplySet, ApplyCustomFlag, RejectWipeTarget,
       reset_custom_flag, nv_update, Stored, Done
  <2>2. hist' = hist \/ Applied(inbox.id) \/ Spent(inbox.id)
    BY <1>4 DEF ApplyAdd, ApplySet, ApplyCustomFlag, RejectWipeTarget
  <2>3. \A id \in Ids : hist'[id] = "fresh" => hist[id] = "fresh"
    BY <1>0, <2>2 DEF Applied, Spent, AppliedFate, SpentFate
  <2> QED BY <2>1, <2>3, FlagQuiet
<1>5. CASE WipeMask
  <2>1. /\ stored'.flags = {} /\ nv'.valid /\ phase' \in {"idle", "zeroed"}
    BY <1>0, <1>5 DEF WipeMask, nv_update, Stored, Done
  <2>2. FlagsKnown' /\ FrameKnown'
    BY <2>1 DEF FlagsKnown, FrameKnown, MessageIdFlag
  <2> QED BY <2>1, <2>2 DEF FlagInv
<1>6. CASE WipeCredit
  <2>1. UNCHANGED <<stored, nv, hist, maskTop>> /\ phase' = "idle"
    BY <1>6 DEF WipeCredit, Done, histVars
  <2> QED BY <2>1, FlagQuiet
<1>7. CASE CountQc
  <2>1. /\ stored'.pd = stored.pd /\ stored'.flags = stored.flags
        /\ nv'.valid \/ nv' = nv
    BY <1>0, <1>7 DEF CountQc, increment_qc_test_message_count, nv_update,
       WithQcCount, Stored
  <2>2. phase' = "idle" /\ UNCHANGED <<hist, maskTop>>
    BY <1>7 DEF CountQc, Done, histVars
  <2> QED BY <2>1, <2>2, FlagQuiet
<1> QED BY <1>1, <1>2, <1>3, <1>4, <1>5, <1>6, <1>7 DEF ContinueFrame

LEMMA FlagNext == Inv1 /\ FlagInv /\ [Next]_vars => FlagInv'
<1> SUFFICES ASSUME Inv1, FlagInv, [Next]_vars PROVE FlagInv'
  OBVIOUS
<1>0. stored \in Stored
  BY DEF Inv1, TypeOK
<1>1. ASSUME NEW f \in Frames, pro_enqueue(f) PROVE FlagInv'
  <2>1. /\ UNCHANGED <<stored, nv, phase, hist, maskTop>>
        /\ (phase # "idle" => inbox' = inbox)
    BY <1>1 DEF pro_enqueue, histVars, Inv1, PhaseInv
  <2> QED BY <2>1, FlagQuiet
<1>2. CASE nx_keycode_set_custom_flag
  <2>1. /\ stored'.pd = stored.pd /\ stored'.flags = stored.flags /\ nv'.valid
        /\ phase' = "idle" /\ UNCHANGED <<hist, maskTop>>
    BY <1>0, <1>2 DEF nx_keycode_set_custom_flag, nv_update, Stored, histVars
  <2> QED BY <2>1, FlagQuiet
<1>3. CASE CreditExpires
  <2>1. UNCHANGED <<stored, nv, phase, inbox, hist, maskTop>>
    BY <1>3 DEF CreditExpires, histVars
  <2> QED BY <2>1, FlagQuiet
<1>4. CASE PowerLoss
  <2>1. stored' = stored /\ phase' = "idle" /\ UNCHANGED <<nv, hist, maskTop>>
    BY <1>4 DEF PowerLoss, Inv1, StoredPersisted
  <2> QED BY <2>1, FlagQuiet
<1>5. CASE UNCHANGED vars
  <2>1. UNCHANGED <<stored, nv, phase, inbox, hist, maskTop>>
    BY <1>5 DEF vars, codeVars, histVars
  <2> QED BY <2>1, FlagQuiet
<1> QED BY <1>1, <1>2, <1>3, <1>4, <1>5, FlagBegin, FlagContinue DEF Next, pro_process

LEMMA FlagInit == Init => FlagInv
BY DEF Init, FlagInv, FlagsKnown, FrameKnown, Default, MessageIdFlag

\* NV holds the record in RAM, so that its flags are known as well.
LEMMA FlagsAreKnown == Inv1 /\ FlagInv => NoFalseDuplicate
<1> SUFFICES ASSUME Inv1, FlagInv, IdsFit, NEW id \in Ids,
                    MessageIdFlag(nv.data.pd, nv.data.flags, id)
             PROVE  hist[id] # "fresh" \/ id <= maskTop
  BY DEF NoFalseDuplicate
<1>1. nv.data = stored
  BY DEF Inv1, StoredPersisted, nv_read, FlagInv
<1> QED BY <1>1 DEF FlagInv, FlagsKnown, Known

\* No keycode is taken for a duplicate unless it was entered, or a SET, WIPE
\* or EXTENDED keycode with its ID or a higher one was: neither marking nor
\* shifting the window ever sets the flag of another ID, whatever the width
\* of the window and wherever power is lost.
THEOREM NoneFalselyRefused == Spec => []NoFalseDuplicate
BY FlagsAreKnown, Inv1Init, Inv1Next, FlagInit, FlagNext, PTL DEF Spec

\* All that the record in NV and the product's credit say of each other holds
\* together, at every moment and across power losses.
THEOREM Sound == Spec => []KeycodesSound
BY TypeCorrect, NoReplay, NoneFalselyRefused, NothingLost, QcLimited, Persisted, PTL
   DEF KeycodesSound
=============================================================================
