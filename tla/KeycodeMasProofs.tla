--------------------------- MODULE KeycodeMasProofs ---------------------------
(***************************************************************************)
(* Proofs about KeycodeMas, for every bucket, refill time, timeout, set of *)
(* digits and pattern of process calls, with keys at interrupt time.       *)
(***************************************************************************)
EXTENDS KeycodeMas, TLAPS

(***************************************************************************)
(* Lemmas on the operators of the model.                                   *)
(***************************************************************************)
\* A frame is a sequence of at most MaxLength digits.
LEMMA FrameIsSeq ==
    ASSUME NEW f
    PROVE  f \in Frame <=> f \in Seq(Digits) /\ Len(f) <= MaxLength
BY MasAssumption DEF Frame

\* The numbers among the constants.
LEMMA Numbers ==
    /\ MaxLength \in Nat /\ MaxLength > 0
    /\ Refill \in Nat /\ Refill > 0
    /\ BucketMax \in Nat /\ InitialCount \in Nat
    /\ Timeout \in Nat /\ MaxOutages \in Nat
BY MasAssumption

LEMMA EmptyFrame == <<>> \in Frame /\ <<>> \in Seq(Digits)
<1>1. <<>> \in Seq(Digits) /\ Len(<<>>) = 0
  OBVIOUS
<1>2. Len(<<>>) <= MaxLength
  BY <1>1, Numbers
<1> QED BY <1>1, <1>2, FrameIsSeq

\* One attempt more costs one refill more.
LEMMA OneMore ==
    ASSUME NEW n \in Nat
    PROVE  /\ Refill * n \in Nat
           /\ Refill * (n + 1) = Refill * n + Refill
BY MasAssumption

\* The capacity of the bucket, and the level of a bucket at start-up.
LEMMA Levels ==
    ASSUME NEW n \in 0..InitialCount
    PROVE  /\ BucketMax * Refill \in Nat
           /\ n * Refill \in 0..(BucketMax * Refill)
           /\ n * Refill = Refill * n
BY MasAssumption

\* Adding time never lowers the level nor overfills the bucket.
LEMMA AddTime ==
    ASSUME NEW level \in 0..(BucketMax * Refill), NEW seconds \in Nat
    PROVE  /\ rate_limit_add_time(level, seconds) \in 0..(BucketMax * Refill)
           /\ rate_limit_add_time(level, seconds) >= level
           /\ rate_limit_add_time(level, seconds) <= level + seconds
<1>1. BucketMax * Refill \in Nat
  BY Levels, MasAssumption
<1> QED BY <1>1 DEF rate_limit_add_time

\* Division by a positive number rounds down.
LEMMA DivRoundsDown ==
    ASSUME NEW b \in Nat, NEW r \in Nat, r > 0
    PROVE  b \div r \in Nat /\ r * (b \div r) <= b
BY SMT

LEMMA ProductOrder ==
    ASSUME NEW r \in Nat, r > 0, NEW m \in Nat, NEW n \in Nat, r * m < n * r
    PROVE  m < n
BY SMT

\* The grace count is within its bounds, and the bucket holds what it stands
\* for.
LEMMA GraceBacked ==
    ASSUME bucket \in 0..(BucketMax * Refill)
    PROVE  /\ remaining_graceperiod_keycodes \in 0..InitialCount
           /\ Refill * remaining_graceperiod_keycodes <= bucket
<1>1. bucket \in Nat /\ Refill \in Nat /\ Refill > 0 /\ InitialCount \in Nat
  BY Levels, MasAssumption
<1>2. CASE bucket >= InitialCount * Refill
  BY <1>1, <1>2, Levels DEF remaining_graceperiod_keycodes
<1>3. CASE ~(bucket >= InitialCount * Refill)
  <2> DEFINE q == bucket \div Refill
  <2>1. remaining_graceperiod_keycodes = q
    BY <1>3 DEF remaining_graceperiod_keycodes, rate_limit_attempts_remaining
  <2>2. q \in Nat /\ Refill * q <= bucket
    BY <1>1, DivRoundsDown
  <2>3. InitialCount * Refill \in Nat /\ Refill * q \in Nat
    BY <1>1, <2>2
  <2>4. Refill * q < InitialCount * Refill
    <3> HIDE DEF q
    <3> QED BY <1>1, <1>3, <2>2, <2>3
  <2>5. q < InitialCount
    <3> HIDE DEF q
    <3> QED BY <1>1, <2>2, <2>4, ProductOrder
  <2> HIDE DEF q
  <2> QED BY <1>1, <2>1, <2>2, <2>5
<1> QED BY <1>2, <1>3

\* Pushing a key keeps a frame a frame.
LEMMA PushedType ==
    ASSUME NEW f \in Frame, NEW key \in Digits
    PROVE  /\ Pushed(f, key) \in Frame
           /\ Len(f) < MaxLength => Pushed(f, key) = Append(f, key)
<1>1. f \in Seq(Digits) /\ Len(f) \in Nat
  BY FrameIsSeq
<1>2. Append(f, key) \in Seq(Digits) /\ Len(Append(f, key)) = Len(f) + 1
  BY <1>1
<1>3. CASE Len(f) < MaxLength
  <2>1. Len(Append(f, key)) <= MaxLength
    BY <1>1, <1>2, <1>3, MasAssumption
  <2> QED BY <1>2, <1>3, <2>1, FrameIsSeq DEF Pushed
<1>4. CASE ~(Len(f) < MaxLength)
  BY <1>4 DEF Pushed
<1> QED BY <1>3, <1>4

\* A prefix of a sequence of digits that is short enough is a frame.
LEMMA PrefixType ==
    ASSUME NEW s \in Seq(Digits), NEW n \in Nat, n <= Len(s)
    PROVE  /\ SubSeq(s, 1, n) \in Seq(Digits)
           /\ Len(SubSeq(s, 1, n)) = n
OBVIOUS

\* What a complete keycode hands to mas_finish.
LEMMA TakenType ==
    ASSUME NEW keys \in CompleteKeycodes, stop_length \in StopLengths
    PROVE  /\ KeysTaken(keys) \in Seq(Digits)
           /\ Len(KeysTaken(keys)) <= MaxLength => KeysTaken(keys) \in Frame
           /\ Len(KeysTaken(keys)) > MaxLength
                => SubSeq(KeysTaken(keys), 1, MaxLength) \in Frame
<1>1. keys \in Seq(Digits)
  BY MasAssumption DEF CompleteKeycodes
<1>2. stop_length \in Nat
  BY MasAssumption
<1>3. KeysTaken(keys) \in Seq(Digits)
  BY <1>1, <1>2, PrefixType DEF KeysTaken, has_reached_stop_length
<1> DEFINE taken == KeysTaken(keys)
<1> HIDE DEF taken
<1>4. taken \in Seq(Digits) /\ Len(taken) \in Nat
  BY <1>3 DEF taken
<1>5. Len(taken) > MaxLength => SubSeq(taken, 1, MaxLength) \in Frame
  <2> SUFFICES ASSUME Len(taken) > MaxLength
               PROVE  SubSeq(taken, 1, MaxLength) \in Frame
    OBVIOUS
  <2>1. MaxLength \in Nat /\ MaxLength <= Len(taken)
    BY <1>4, Numbers
  <2>2. /\ SubSeq(taken, 1, MaxLength) \in Seq(Digits)
        /\ Len(SubSeq(taken, 1, MaxLength)) = MaxLength
    BY <1>4, <2>1, PrefixType
  <2>3. Len(SubSeq(taken, 1, MaxLength)) <= MaxLength
    BY <2>1, <2>2
  <2> DEFINE prefix == SubSeq(taken, 1, MaxLength)
  <2> HIDE DEF prefix
  <2>4. prefix \in Seq(Digits) /\ Len(prefix) <= MaxLength
    BY <2>2, <2>3 DEF prefix
  <2>5. prefix \in Frame
    BY <2>4, FrameIsSeq
  <2> QED BY <2>5 DEF prefix
<1>6. Len(taken) <= MaxLength => taken \in Frame
  BY <1>4, FrameIsSeq
<1> QED BY <1>4, <1>5, <1>6 DEF taken

(***************************************************************************)
(* Type correctness.                                                       *)
(***************************************************************************)
\* What mas_finish does to the types of the variables it assigns.
LEMMA FinishType ==
    ASSUME TypeOK, NEW f \in Frame, NEW tooLong, mas_finish(f, tooLong)
    PROVE  /\ slot' \in Frame
           /\ slotUnsaved' \in BOOLEAN
           /\ bucket' \in 0..(BucketMax * Refill)
           /\ partial' \in Frame /\ exceeded' \in BOOLEAN
           /\ finished' \in Nat /\ unsaved' \in Nat
           /\ raced' \in SUBSET {"deduct", "late", "entry"}
<1>1. slot' \in Frame /\ slotUnsaved' \in BOOLEAN
  BY DEF TypeOK, mas_finish
<1>2. bucket' \in 0..(BucketMax * Refill)
  <2>1. BucketMax * Refill \in Nat
    BY Levels, MasAssumption
  <2> QED BY <2>1, MasAssumption DEF TypeOK, mas_finish, rate_limit_deduct_msg
<1>3. partial' \in Frame /\ exceeded' \in BOOLEAN
  BY EmptyFrame DEF mas_finish, mas_reset
<1>4. finished' \in Nat /\ unsaved' \in Nat
  BY DEF TypeOK, mas_finish
<1>5. raced' \in SUBSET {"deduct", "late", "entry"}
  BY DEF TypeOK, mas_finish, FinishRace
<1> QED BY <1>1, <1>2, <1>3, <1>4, <1>5

LEMMA MasTypeInit == Init => TypeOK
<1> SUFFICES ASSUME Init PROVE TypeOK
  OBVIOUS
<1>1. bucket \in 0..(BucketMax * Refill) /\ grace \in 0..InitialCount
  BY Levels, MasAssumption DEF Init
<1>2. <<>> \in Frame /\ <<>> \in Seq(Digits)
  BY EmptyFrame
<1>3. sum \in 0..(BucketMax * Refill)
  BY Levels, MasAssumption DEF Init
<1>4. /\ outages \in 0..MaxOutages
      /\ latest \in Nat \cup {Unset} /\ uptime \in Nat /\ lastKey \in Nat
      /\ finished \in Nat /\ unsaved \in Nat
  BY Numbers DEF Init
<1>5. nv \in [valid : BOOLEAN, data : 0..InitialCount]
  BY <1>1 DEF Init
<1>6. raced \in SUBSET {"deduct", "late", "entry"} /\ proc \in ProcSteps
  BY DEF Init, ProcSteps
<1> QED BY <1>1, <1>2, <1>3, <1>4, <1>5, <1>6 DEF Init, TypeOK, NoFrame

LEMMA MasTypeKeys ==
    ASSUME TypeOK, handle_single_key
    PROVE  TypeOK'
<1>0. <<>> \in Frame /\ <<>> \in Seq(Digits)
  BY EmptyFrame
<1>1. CASE StartKey
  BY <1>0, <1>1 DEF TypeOK, StartKey, mas_reset, EntryRace
<1>2. CASE EndKey
  <2>1. partial \in Frame /\ mas_finish(partial, exceeded)
    BY <1>2 DEF EndKey, TypeOK
  <2>2. /\ slot' \in Frame
        /\ slotUnsaved' \in BOOLEAN
        /\ bucket' \in 0..(BucketMax * Refill)
        /\ partial' \in Frame /\ exceeded' \in BOOLEAN
        /\ finished' \in Nat /\ unsaved' \in Nat
        /\ raced' \in SUBSET {"deduct", "late", "entry"}
    BY <2>1, FinishType
  <2> QED BY <1>0, <1>2, <2>2 DEF TypeOK, EndKey
<1>3. ASSUME NEW key \in Digits, DigitKey(key) PROVE TypeOK'
  <2> DEFINE frame == Pushed(partial, key)
             tooLong == exceeded \/ Len(partial) >= MaxLength
  <2>1. frame \in Frame
    BY PushedType DEF TypeOK
  <2>2. CASE has_reached_stop_length(frame)
    <3>1. mas_finish(frame, tooLong)
      BY <1>3, <2>2 DEF DigitKey
    <3>2. /\ slot' \in Frame
          /\ slotUnsaved' \in BOOLEAN
          /\ bucket' \in 0..(BucketMax * Refill)
          /\ partial' \in Frame /\ exceeded' \in BOOLEAN
          /\ finished' \in Nat /\ unsaved' \in Nat
          /\ raced' \in SUBSET {"deduct", "late", "entry"}
      <4> HIDE DEF frame, tooLong
      <4> QED BY <2>1, <3>1, FinishType
    <3>3. startSeen' = FALSE /\ typed' = <<>> /\ latest' = Unset /\ lastKey' = uptime
          /\ UNCHANGED <<stop_length, grace, nv, uptime, proc, sum, booted, outages>>
      BY <1>3, <2>2 DEF DigitKey
    <3> QED BY <1>0, <3>2, <3>3 DEF TypeOK
  <2>3. CASE ~has_reached_stop_length(frame)
    <3>1. /\ partial' = frame /\ exceeded' = tooLong
          /\ typed' = Append(typed, key)
          /\ raced' = raced \cup EntryRace
          /\ latest' = Unset /\ lastKey' = uptime
          /\ UNCHANGED <<startSeen, bucket, slot, finished, unsaved, slotUnsaved,
                         stop_length, grace, nv, uptime, proc, sum, booted, outages>>
      BY <1>3, <2>3 DEF DigitKey
    <3>2. tooLong \in BOOLEAN
      BY DEF TypeOK
    <3> HIDE DEF frame, tooLong
    <3>3. typed' \in Seq(Digits)
      BY <1>3, <3>1 DEF TypeOK
    <3>4. raced' \in SUBSET {"deduct", "late", "entry"}
      BY <3>1 DEF TypeOK, EntryRace
    <3> QED BY <2>1, <3>1, <3>2, <3>3, <3>4 DEF TypeOK
  <2> QED BY <2>2, <2>3
<1>4. ASSUME NEW key \in Digits \cup {"start"}, RejectKey(key) PROVE TypeOK'
  BY <1>4 DEF TypeOK, RejectKey, coreVars, histVars
<1> QED BY <1>1, <1>2, <1>3, <1>4 DEF handle_single_key

LEMMA MasTypeOthers ==
    ASSUME TypeOK,
           \/ \E keys \in CompleteKeycodes : handle_complete_keycode(keys)
           \/ Process
           \/ PowerLoss
    PROVE  TypeOK'
<1>0. <<>> \in Frame /\ <<>> \in Seq(Digits)
  BY EmptyFrame
<1>1. ASSUME NEW keys \in CompleteKeycodes, handle_complete_keycode(keys)
      PROVE  TypeOK'
  <2> DEFINE taken == KeysTaken(keys)
  <2>1. PICK f \in Frame : \E tooLong \in BOOLEAN : mas_finish(f, tooLong)
    <3>1. Len(taken) \in Nat
      BY TakenType DEF TypeOK
    <3>2. IF Len(taken) <= MaxLength
            THEN mas_finish(taken, FALSE)
            ELSE mas_finish(SubSeq(taken, 1, MaxLength), TRUE)
      BY <1>1 DEF handle_complete_keycode
    <3>3. /\ Len(taken) <= MaxLength => taken \in Frame
          /\ Len(taken) > MaxLength => SubSeq(taken, 1, MaxLength) \in Frame
      BY TakenType DEF TypeOK
    <3> HIDE DEF taken
    <3>4. CASE Len(taken) <= MaxLength
      BY <3>2, <3>3, <3>4
    <3>5. CASE ~(Len(taken) <= MaxLength)
      <4>1. Len(taken) > MaxLength
        BY <3>1, <3>5, Numbers
      <4> QED BY <3>2, <3>3, <3>5, <4>1
    <3> QED BY <3>4, <3>5
  <2>2. /\ slot' \in Frame
        /\ slotUnsaved' \in BOOLEAN
        /\ bucket' \in 0..(BucketMax * Refill)
        /\ partial' \in Frame /\ exceeded' \in BOOLEAN
        /\ finished' \in Nat /\ unsaved' \in Nat
        /\ raced' \in SUBSET {"deduct", "late", "entry"}
    BY <2>1, FinishType
  <2> QED BY <1>0, <1>1, <2>2 DEF TypeOK, handle_complete_keycode
<1>2. ASSUME NEW seconds \in Steps, nx_common_process(seconds) PROVE TypeOK'
  <2>1. seconds \in Nat
    BY MasAssumption
  <2>2. sum' \in 0..(BucketMax * Refill)
    BY <1>2, <2>1, AddTime DEF TypeOK, nx_common_process
  <2> QED BY <1>2, <2>1, <2>2
          DEF TypeOK, nx_common_process, coreVars, bookendVars, histVars, ProcSteps
<1>3. CASE StoreBucket
  BY <1>3 DEF TypeOK, StoreBucket, bookendVars, histVars, ProcSteps
<1>4. CASE graceperiod_keycodes_update_nv
  <2>1. grace' \in 0..InitialCount
    BY <1>4, GraceBacked DEF TypeOK, graceperiod_keycodes_update_nv
  <2>2. nv' \in [valid : BOOLEAN, data : 0..InitialCount]
    BY <1>4, <2>1 DEF TypeOK, graceperiod_keycodes_update_nv
  <2> QED BY <1>4, <2>1, <2>2
          DEF TypeOK, graceperiod_keycodes_update_nv, bookendVars, ProcSteps
<1>5. CASE StampLatest
  BY <1>5 DEF TypeOK, StampLatest, coreVars, histVars, ProcSteps
<1>6. CASE CheckElapsed
  BY <1>6 DEF TypeOK, CheckElapsed, coreVars, bookendVars, histVars, ProcSteps
<1>7. CASE ExpireEntry
  BY <1>0, <1>7 DEF TypeOK, ExpireEntry, coreVars, ProcSteps
<1>8. CASE ClearExpired
  BY <1>0, <1>8 DEF TypeOK, ClearExpired, mas_reset, bookendVars, histVars, ProcSteps
<1>9. CASE pro_process
  BY <1>0, <1>9 DEF TypeOK, pro_process, coreVars, bookendVars, NoFrame, ProcSteps
<1>10. CASE PowerLoss
  <2>1. grace' \in 0..InitialCount
    BY <1>10, MasAssumption DEF TypeOK, PowerLoss
  <2>2. bucket' \in 0..(BucketMax * Refill) /\ 0 \in 0..(BucketMax * Refill)
    BY <1>10, <2>1, Levels DEF PowerLoss
  <2>3. /\ outages' \in 0..MaxOutages
        /\ latest' \in Nat \cup {Unset} /\ uptime' \in Nat /\ lastKey' \in Nat
        /\ finished' \in Nat /\ unsaved' \in Nat
    BY <1>10, Numbers DEF TypeOK, PowerLoss
  <2>4. proc' \in ProcSteps /\ partial' \in Frame /\ slot' \in Frame
        /\ typed' \in Seq(Digits)
    BY <1>0, <1>10 DEF PowerLoss, mas_reset, NoFrame, ProcSteps
  <2>5. /\ exceeded' \in BOOLEAN /\ startSeen' \in BOOLEAN /\ slotUnsaved' \in BOOLEAN
        /\ sum' \in 0..(BucketMax * Refill) /\ booted' \in 0..(BucketMax * Refill)
        /\ UNCHANGED <<nv, stop_length, raced>>
    BY <1>10, <2>2 DEF PowerLoss, mas_reset
  <2> QED BY <2>1, <2>2, <2>3, <2>4, <2>5 DEF TypeOK
<1> QED BY <1>1, <1>2, <1>3, <1>4, <1>5, <1>6, <1>7, <1>8, <1>9, <1>10 DEF Process

LEMMA MasTypeNext == TypeOK /\ [Next]_vars => TypeOK'
<1> SUFFICES ASSUME TypeOK, [Next]_vars PROVE TypeOK'
  OBVIOUS
<1>1. CASE UNCHANGED vars
  BY <1>1 DEF TypeOK, vars, coreVars, bookendVars, histVars
<1> QED BY <1>1, MasTypeKeys, MasTypeOthers DEF Next

\* The variables of message assembly keep their types and bounds: in
\* particular the bucket never overflows and the assembled frame never
\* outgrows the buffer _this_core.partial.
THEOREM MasTypeCorrect == Spec => []TypeOK
BY MasTypeInit, MasTypeNext, PTL DEF Spec

(***************************************************************************)
(* The rate limiter.                                                       *)
(***************************************************************************)
\* What RateBound needs to be inductive: while a process call has added time
\* but not stored it, the sum in hand is at least the bucket (keys can only
\* lower the bucket meanwhile) and is itself paid for.
SumPaidFor ==
    proc = "add_time" =>
        /\ bucket <= sum
        /\ "deduct" \notin raced => sum + Refill * finished <= booted + uptime

\* The grace count in RAM is what a restart would read.
GraceSaved == grace = IF nv.valid THEN nv.data ELSE InitialCount

BucketInv ==
    /\ SumPaidFor
    /\ RateBound
    /\ GraceSaved
    /\ PowerCycleGain
    /\ EntryNotStarved

\* A finished entry keeps the books: it lowers the bucket by what it adds to
\* the entries finished.
LEMMA FinishBooks ==
    ASSUME TypeOK, BucketInv, bucket >= Refill,
           NEW f, NEW tooLong, mas_finish(f, tooLong), startSeen' = FALSE,
           UNCHANGED <<grace, nv, uptime, proc, sum, booted>>
    PROVE  BucketInv'
<1>1. /\ bucket' = bucket - Refill
      /\ finished' = finished + 1 /\ unsaved' = unsaved + 1
      /\ raced' = raced \cup FinishRace
  BY DEF mas_finish, rate_limit_deduct_msg
<1>2. /\ bucket \in Nat /\ sum \in Nat /\ booted \in Nat /\ uptime \in Nat
      /\ finished \in Nat /\ unsaved \in Nat
  BY Levels, Numbers DEF TypeOK
<1>3. /\ Refill * finished \in Nat /\ Refill * finished' = Refill * finished + Refill
      /\ Refill * unsaved \in Nat /\ Refill * unsaved' = Refill * unsaved + Refill
  BY <1>1, <1>2, OneMore
<1>4. SumPaidFor'
  BY <1>1, <1>2, Numbers DEF BucketInv, SumPaidFor, FinishRace
<1>5. RateBound'
  BY <1>1, <1>2, <1>3, Numbers DEF BucketInv, RateBound
<1>6. GraceSaved' /\ EntryNotStarved'
  BY DEF BucketInv, GraceSaved, EntryNotStarved
<1>7. PowerCycleGain'
  <2>1. RestartLevel' = RestartLevel
    BY DEF RestartLevel
  <2>2. RestartLevel \in Nat
    <3>1. (IF nv.valid THEN nv.data ELSE InitialCount) \in 0..InitialCount
      BY Numbers DEF TypeOK
    <3> QED BY <3>1, Levels DEF RestartLevel
  <2> QED BY <1>1, <1>2, <1>3, <2>1, <2>2, Numbers DEF BucketInv, PowerCycleGain
<1> QED BY <1>4, <1>5, <1>6, <1>7 DEF BucketInv

LEMMA BucketInit == Init => BucketInv
<1> SUFFICES ASSUME Init PROVE BucketInv
  OBVIOUS
<1>1. InitialCount * Refill \in Nat /\ InitialCount * Refill = Refill * InitialCount
  BY Levels, Numbers
<1>2. Refill * 0 = 0
  BY Numbers
<1>3. RateBound /\ PowerCycleGain
  BY <1>1, <1>2 DEF Init, RateBound, PowerCycleGain, RestartLevel
<1>4. SumPaidFor /\ GraceSaved /\ EntryNotStarved
  BY DEF Init, SumPaidFor, GraceSaved, EntryNotStarved
<1> QED BY <1>3, <1>4 DEF BucketInv

LEMMA BucketKeys ==
    ASSUME TypeOK, BucketInv,
           \/ handle_single_key
           \/ \E keys \in CompleteKeycodes : handle_complete_keycode(keys)
    PROVE  BucketInv'
<1>0. bucket \in Nat
  BY Levels, Numbers DEF TypeOK
<1>1. CASE StartKey
  BY <1>1 DEF BucketInv, SumPaidFor, RateBound, GraceSaved, PowerCycleGain,
       RestartLevel, EntryNotStarved, nx_keycode_is_rate_limited, StartKey, EntryRace
<1>2. CASE EndKey
  <2>1. bucket >= Refill
    BY <1>0, <1>2, Numbers DEF EndKey, nx_keycode_is_rate_limited
  <2> QED BY <1>2, <2>1, FinishBooks DEF EndKey
<1>3. ASSUME NEW key \in Digits, DigitKey(key) PROVE BucketInv'
  <2> DEFINE frame == Pushed(partial, key)
             tooLong == exceeded \/ Len(partial) >= MaxLength
  <2>1. CASE has_reached_stop_length(frame)
    <3>1. bucket >= Refill
      BY <1>0, <1>3, Numbers DEF DigitKey, nx_keycode_is_rate_limited
    <3>2. mas_finish(frame, tooLong) /\ startSeen' = FALSE
      BY <1>3, <2>1 DEF DigitKey
    <3>3. UNCHANGED <<grace, nv, uptime, proc, sum, booted>>
      BY <1>3 DEF DigitKey
    <3> HIDE DEF frame, tooLong
    <3> QED BY <3>1, <3>2, <3>3, FinishBooks
  <2>2. CASE ~has_reached_stop_length(frame)
    <3>1. /\ raced' = raced \cup EntryRace
          /\ UNCHANGED <<startSeen, bucket, finished, unsaved, grace, nv, uptime,
                         proc, sum, booted>>
      BY <1>3, <2>2 DEF DigitKey
    <3> QED BY <3>1 DEF BucketInv, SumPaidFor, RateBound, GraceSaved, PowerCycleGain,
              RestartLevel, EntryNotStarved, nx_keycode_is_rate_limited, EntryRace
  <2> QED BY <2>1, <2>2
<1>4. ASSUME NEW key \in Digits \cup {"start"}, RejectKey(key) PROVE BucketInv'
  BY <1>4 DEF BucketInv, SumPaidFor, RateBound, GraceSaved, PowerCycleGain,
       RestartLevel, EntryNotStarved, nx_keycode_is_rate_limited, RejectKey,
       coreVars, histVars
<1>5. ASSUME NEW keys \in CompleteKeycodes, handle_complete_keycode(keys)
      PROVE  BucketInv'
  <2>1. bucket >= Refill
    BY <1>0, <1>5, Numbers DEF handle_complete_keycode, nx_keycode_is_rate_limited
  <2>2. PICK f, tooLong : mas_finish(f, tooLong)
    <3>1. IF Len(KeysTaken(keys)) <= MaxLength
            THEN mas_finish(KeysTaken(keys), FALSE)
            ELSE mas_finish(SubSeq(KeysTaken(keys), 1, MaxLength), TRUE)
      BY <1>5 DEF handle_complete_keycode
    <3> QED BY <3>1, Zenon
  <2>3. startSeen' = FALSE /\ UNCHANGED <<grace, nv, uptime, proc, sum, booted>>
    BY <1>5 DEF handle_complete_keycode
  <2> QED BY <2>1, <2>2, <2>3, FinishBooks
<1> QED BY <1>1, <1>2, <1>3, <1>4, <1>5 DEF handle_single_key

LEMMA BucketProcess ==
    ASSUME TypeOK, BucketInv, Process
    PROVE  BucketInv'
<1>0. /\ bucket \in Nat /\ sum \in Nat /\ booted \in Nat /\ uptime \in Nat
      /\ Refill * finished \in Nat /\ Refill * unsaved \in Nat
      /\ RestartLevel \in Nat
  <2>1. /\ bucket \in Nat /\ sum \in Nat /\ booted \in Nat /\ uptime \in Nat
        /\ finished \in Nat /\ unsaved \in Nat
    BY Levels, Numbers DEF TypeOK
  <2>2. (IF nv.valid THEN nv.data ELSE InitialCount) \in 0..InitialCount
    BY Numbers DEF TypeOK
  <2>3. RestartLevel \in Nat
    BY <2>2, Levels DEF RestartLevel
  <2> QED BY <2>1, <2>3, OneMore
<1>1. ASSUME NEW seconds \in Steps, nx_common_process(seconds) PROVE BucketInv'
  <2>1. seconds \in Nat
    BY MasAssumption
  <2>2. sum' >= bucket /\ sum' <= bucket + seconds /\ sum' \in Nat
    <3>1. bucket \in 0..(BucketMax * Refill) /\ BucketMax * Refill \in Nat
      BY Levels, Numbers DEF TypeOK
    <3>2. sum' = rate_limit_add_time(bucket, seconds)
      BY <1>1 DEF nx_common_process
    <3> QED BY <2>1, <3>1, <3>2, AddTime
  <2>3. /\ uptime' = uptime + seconds
        /\ UNCHANGED <<bucket, grace, nv, startSeen, booted, finished, unsaved, raced>>
    BY <1>1 DEF nx_common_process, coreVars, bookendVars, histVars
  <2>4. SumPaidFor' /\ RateBound'
    BY <1>0, <2>1, <2>2, <2>3 DEF BucketInv, SumPaidFor, RateBound
  <2> QED BY <2>3, <2>4 DEF BucketInv, GraceSaved, PowerCycleGain, RestartLevel,
            EntryNotStarved, nx_keycode_is_rate_limited
<1>2. CASE StoreBucket
  <2>1. /\ bucket' = sum /\ sum >= bucket /\ proc' = "grace"
        /\ "deduct" \notin raced => sum + Refill * finished <= booted + uptime
        /\ UNCHANGED <<grace, nv, startSeen, uptime, booted, finished, unsaved, raced>>
    BY <1>2, <1>0 DEF StoreBucket, bookendVars, histVars, BucketInv, SumPaidFor
  <2>2. PowerCycleGain' /\ EntryNotStarved'
    BY <1>0, <2>1, Numbers DEF BucketInv, PowerCycleGain, RestartLevel,
         EntryNotStarved, nx_keycode_is_rate_limited
  <2> QED BY <2>1, <2>2 DEF BucketInv, SumPaidFor, RateBound, GraceSaved
<1>3. CASE graceperiod_keycodes_update_nv
  <2>1. /\ grace' = remaining_graceperiod_keycodes
        /\ nv' = IF grace' = grace THEN nv ELSE [valid |-> TRUE, data |-> grace']
        /\ unsaved' = 0 /\ proc' = "bookend"
        /\ UNCHANGED <<bucket, startSeen, uptime, booted, finished, raced>>
    BY <1>3 DEF graceperiod_keycodes_update_nv, bookendVars
  <2>2. GraceSaved'
    BY <2>1 DEF BucketInv, GraceSaved
  <2>3. RestartLevel' <= bucket
    <3>1. RestartLevel' = Refill * grace'
      BY <2>2 DEF GraceSaved, RestartLevel
    <3> QED BY <2>1, <3>1, GraceBacked DEF TypeOK
  <2>4. PowerCycleGain'
    <3>1. Refill * unsaved' = 0
      BY <2>1, Numbers
    <3> QED BY <1>0, <2>1, <2>3, <3>1 DEF PowerCycleGain
  <2> QED BY <2>1, <2>2, <2>4 DEF BucketInv, SumPaidFor, RateBound, EntryNotStarved,
            nx_keycode_is_rate_limited
<1>4. CASE StampLatest \/ CheckElapsed \/ ExpireEntry \/ ClearExpired \/ pro_process
  <2>1. /\ UNCHANGED <<bucket, grace, nv, uptime, sum, booted, finished, unsaved, raced>>
        /\ startSeen' => startSeen
        /\ proc' # "add_time"
    BY <1>4 DEF StampLatest, CheckElapsed, ExpireEntry, ClearExpired, pro_process,
         mas_reset, coreVars, bookendVars, histVars
  <2> QED BY <2>1 DEF BucketInv, SumPaidFor, RateBound, GraceSaved, PowerCycleGain,
            RestartLevel, EntryNotStarved, nx_keycode_is_rate_limited
<1> QED BY <1>1, <1>2, <1>3, <1>4 DEF Process

LEMMA BucketPowerLoss ==
    ASSUME TypeOK, BucketInv, PowerLoss
    PROVE  BucketInv'
<1>1. /\ grace' = IF nv.valid THEN nv.data ELSE InitialCount
      /\ bucket' = grace' * Refill /\ booted' = bucket'
      /\ uptime' = 0 /\ finished' = 0 /\ unsaved' = 0
      /\ proc' = "idle" /\ startSeen' = FALSE /\ nv' = nv
  BY DEF PowerLoss
<1>2. grace' \in 0..InitialCount
  BY <1>1, Numbers DEF TypeOK
<1>3. bucket' \in Nat /\ bucket' = Refill * grace' /\ Refill * 0 = 0
  BY <1>1, <1>2, Levels, Numbers
<1>4. RateBound' /\ PowerCycleGain'
  BY <1>1, <1>3 DEF RateBound, PowerCycleGain, RestartLevel
<1> QED BY <1>1, <1>4 DEF BucketInv, SumPaidFor, GraceSaved, EntryNotStarved

LEMMA BucketNext == TypeOK /\ BucketInv /\ [Next]_vars => BucketInv'
<1> SUFFICES ASSUME TypeOK, BucketInv, [Next]_vars PROVE BucketInv'
  OBVIOUS
<1>1. CASE UNCHANGED vars
  BY <1>1 DEF BucketInv, SumPaidFor, RateBound, GraceSaved, PowerCycleGain,
       RestartLevel, EntryNotStarved, nx_keycode_is_rate_limited, vars, coreVars,
       bookendVars, histVars
<1> QED BY <1>1, BucketKeys, BucketProcess, BucketPowerLoss DEF Next

LEMMA BucketAlways == Spec => [](TypeOK /\ BucketInv)
BY MasTypeInit, MasTypeNext, BucketInit, BucketNext, PTL DEF Spec

\* However keys and process calls interleave and wherever power is lost, the
\* entries finished since start-up never exceed what start-up and time have
\* paid for, as long as no finishing key hits rate_limit_add_time between its
\* read and its write of the bucket.
THEOREM RateLimited == Spec => []RateBound
BY BucketAlways, PTL DEF BucketInv

\* A power cycle never gives back more attempts than were made since the
\* process call last saved the grace count, with no exception.
THEOREM PowerCycleBounded == Spec => []PowerCycleGain
BY BucketAlways, PTL DEF BucketInv

(***************************************************************************)
(* The entry timeout.                                                      *)
(***************************************************************************)
\* The last key of an open entry and its time stamp.  Until it is stamped no
\* time has passed but in the process call under way; the stamp is at most
\* one such call late; and between process calls it is within the timeout.
Stamped ==
    startSeen =>
        /\ lastKey <= uptime
        /\ latest = Unset =>
              IF proc \in {"add_time", "grace", "bookend"}
                THEN \E seconds \in Steps : uptime - lastKey <= seconds
                ELSE uptime = lastKey
        /\ latest # Unset =>
              /\ lastKey <= latest /\ latest <= uptime
              /\ \E seconds \in Steps : latest - lastKey <= seconds
              /\ proc \in {"idle", "pro"} => uptime - latest <= Timeout
        /\ proc = "clear" => latest = Unset

\* A key into an open entry is stamped anew: the argument for every key that
\* leaves the entry open.
LEMMA KeyUnstamps ==
    ASSUME TypeOK, latest' = Unset, lastKey' = uptime, uptime' = uptime
    PROVE  Stamped'
<1>1. uptime \in Nat /\ uptime - uptime = 0
  BY DEF TypeOK
<1>2. PICK seconds \in Steps : seconds \in Nat
  <2>1. Steps \subseteq Nat /\ Steps # {}
    BY MasAssumption
  <2> QED BY <2>1
<1>3. \E s \in Steps : uptime - uptime <= s
  BY <1>1, <1>2
<1> QED BY <1>1, <1>3 DEF Stamped

\* An entry let begin is not rate-limited, so its keys are not rejected.
LEMMA RejectedOutsideEntry ==
    ASSUME BucketInv, NEW key, RejectKey(key)
    PROVE  ~startSeen
BY DEF BucketInv, EntryNotStarved, RejectKey

LEMMA StampedNext == TypeOK /\ BucketInv /\ Stamped /\ [Next]_vars => Stamped'
<1> SUFFICES ASSUME TypeOK, BucketInv, Stamped, [Next]_vars PROVE Stamped'
  OBVIOUS
<1>0. uptime \in Nat /\ lastKey \in Nat /\ latest \in Nat \cup {Unset} /\ Unset \notin Nat
  BY DEF TypeOK, Unset
<1>1. CASE StartKey \/ EndKey \/ \E key \in Digits : DigitKey(key)
  <2>1. latest' = Unset /\ lastKey' = uptime /\ uptime' = uptime
    BY <1>1 DEF StartKey, EndKey, DigitKey
  <2> QED BY <2>1, KeyUnstamps
<1>2. ASSUME NEW key \in Digits \cup {"start"}, RejectKey(key) PROVE Stamped'
  <2>1. ~startSeen /\ startSeen' = startSeen
    BY <1>2, RejectedOutsideEntry DEF RejectKey
  <2> QED BY <2>1 DEF Stamped
<1>3. CASE (\E keys \in CompleteKeycodes : handle_complete_keycode(keys))
           \/ ExpireEntry \/ PowerLoss
  <2>1. startSeen' = FALSE
    BY <1>3 DEF handle_complete_keycode, ExpireEntry, PowerLoss
  <2> QED BY <2>1 DEF Stamped
<1>4. ASSUME NEW seconds \in Steps, nx_common_process(seconds) PROVE Stamped'
  <2>1. /\ proc = "idle" /\ proc' = "add_time" /\ uptime' = uptime + seconds
        /\ UNCHANGED <<startSeen, latest, lastKey>>
    BY <1>4 DEF nx_common_process, bookendVars, histVars
  <2>2. seconds \in Nat
    BY MasAssumption
  <2>3. CASE latest = Unset /\ startSeen
    <3>1. uptime = lastKey
      BY <2>1, <2>3 DEF Stamped
    <3>2. uptime' - lastKey' <= seconds /\ lastKey' <= uptime'
      BY <1>0, <2>1, <2>2, <3>1
    <3> QED BY <2>1, <2>3, <3>2 DEF Stamped
  <2>4. CASE latest # Unset /\ startSeen
    <3>1. /\ lastKey <= latest /\ latest <= uptime
          /\ \E s \in Steps : latest - lastKey <= s
      BY <2>4 DEF Stamped
    <3>2. latest <= uptime' /\ lastKey <= uptime'
      BY <1>0, <2>1, <2>2, <2>4, <3>1
    <3> QED BY <2>1, <2>4, <3>1, <3>2 DEF Stamped
  <2>5. CASE ~startSeen
    BY <2>1, <2>5 DEF Stamped
  <2> QED BY <2>3, <2>4, <2>5
<1>5. CASE StoreBucket \/ graceperiod_keycodes_update_nv
  <2>1. /\ proc \in {"add_time", "grace"} /\ proc' \in {"grace", "bookend"}
        /\ UNCHANGED <<startSeen, latest, lastKey, uptime>>
    BY <1>5 DEF StoreBucket, graceperiod_keycodes_update_nv, bookendVars, histVars
  <2> QED BY <2>1 DEF Stamped
<1>6. CASE StampLatest
  <2>1. /\ proc = "bookend" /\ proc' \in {"elapsed", "pro"}
        /\ startSeen => proc' = "elapsed"
        /\ latest' = IF startSeen /\ latest = Unset THEN uptime ELSE latest
        /\ UNCHANGED <<startSeen, lastKey, uptime>>
    BY <1>6 DEF StampLatest, histVars
  <2>2. CASE startSeen /\ latest = Unset
    <3>1. lastKey <= uptime /\ \E s \in Steps : uptime - lastKey <= s
      BY <2>1, <2>2 DEF Stamped
    <3>2. latest' = uptime /\ latest' # Unset /\ proc' = "elapsed"
      BY <1>0, <2>1, <2>2
    <3> QED BY <1>0, <2>1, <3>1, <3>2 DEF Stamped
  <2>3. CASE startSeen /\ latest # Unset
    BY <2>1, <2>3 DEF Stamped
  <2>4. CASE ~startSeen
    BY <2>1, <2>4 DEF Stamped
  <2> QED BY <2>2, <2>3, <2>4
<1>7. CASE CheckElapsed
  <2>1. /\ proc = "elapsed"
        /\ proc' = IF uptime - latest > Timeout THEN "expire" ELSE "pro"
        /\ UNCHANGED <<startSeen, latest, lastKey, uptime>>
    BY <1>7 DEF CheckElapsed, bookendVars, histVars
  <2>2. proc' = "pro" /\ latest # Unset => uptime - latest <= Timeout
    BY <1>0, <2>1, Numbers
  <2> QED BY <2>1, <2>2 DEF Stamped
<1>8. CASE ClearExpired
  BY <1>8 DEF Stamped, ClearExpired, bookendVars, histVars
<1>9. CASE pro_process
  BY <1>9 DEF Stamped, pro_process, bookendVars
<1>10. CASE UNCHANGED vars
  BY <1>10 DEF Stamped, vars, bookendVars, histVars
<1> QED BY <1>1, <1>2, <1>3, <1>4, <1>5, <1>6, <1>7, <1>8, <1>9, <1>10
        DEF Next, handle_single_key, Process

LEMMA StampedAlways == Spec => [](TypeOK /\ BucketInv /\ Stamped)
<1>1. Init => Stamped
  BY DEF Init, Stamped
<1> QED BY <1>1, StampedNext, MasTypeInit, MasTypeNext, BucketInit, BucketNext, PTL
        DEF Spec

\* Between process calls, the stamp and what it is late by bound the age of
\* an open entry.
LEMMA StampedExpires == TypeOK /\ BucketInv /\ Stamped => EntryTimely
<1> SUFFICES ASSUME TypeOK, BucketInv, Stamped, proc = "idle", startSeen
             PROVE  \E seconds \in Steps : uptime - lastKey <= Timeout + seconds
  BY DEF EntryTimely, EntryExpires, BucketInv
<1>0. /\ uptime \in Nat /\ lastKey \in Nat /\ latest \in Nat \cup {Unset}
      /\ Timeout \in Nat /\ Steps \subseteq Nat /\ Steps # {}
  BY Numbers, MasAssumption DEF TypeOK
<1>1. CASE latest = Unset
  <2>1. uptime = lastKey
    BY <1>1 DEF Stamped
  <2>2. PICK seconds \in Steps : TRUE
    BY <1>0
  <2> QED BY <1>0, <2>1, <2>2
<1>2. CASE latest # Unset
  <2>1. PICK seconds \in Steps : latest - lastKey <= seconds
    BY <1>2 DEF Stamped
  <2>2. uptime - latest <= Timeout /\ latest \in Nat /\ seconds \in Nat
    BY <1>0, <1>2 DEF Stamped
  <2> QED BY <1>0, <2>1, <2>2
<1> QED BY <1>1, <1>2

\* An entry let begin is never cut off by the rate limiter, and after a
\* process call no entry is open whose last key is older than the timeout and
\* the one call that was late to stamp it.
THEOREM EntriesTimely == Spec => []EntryTimely
BY StampedAlways, StampedExpires, PTL

(***************************************************************************)
(* What a timeout may cancel, and what an entry hands over.                *)
(***************************************************************************)
\* While no key has hit the timeout check: the check reads a stamp, what it
\* decides to expire is idle, and what it clears is no entry; and the frame
\* being assembled is what was typed.
EntryInv ==
    "entry" \notin raced =>
        /\ proc = "elapsed" /\ startSeen => latest # Unset
        /\ proc = "expire" /\ startSeen => uptime - lastKey > Timeout
        /\ proc = "clear" => ~startSeen
        /\ startSeen /\ ~exceeded => partial = typed

LEMMA EntryNext ==
    TypeOK /\ BucketInv /\ Stamped /\ EntryInv /\ [Next]_vars => EntryInv'
<1> SUFFICES ASSUME TypeOK, BucketInv, Stamped, EntryInv, [Next]_vars PROVE EntryInv'
  OBVIOUS
<1>0. /\ uptime \in Nat /\ lastKey \in Nat /\ latest \in Nat \cup {Unset}
      /\ Unset \notin Nat /\ Timeout \in Nat
  BY Numbers DEF TypeOK, Unset
<1>1. CASE StartKey
  BY <1>1 DEF StartKey, EntryInv, EntryRace, mas_reset
<1>2. CASE EndKey \/ ExpireEntry \/ PowerLoss
           \/ \E keys \in CompleteKeycodes : handle_complete_keycode(keys)
  <2>1. startSeen' = FALSE
    BY <1>2 DEF EndKey, ExpireEntry, PowerLoss, handle_complete_keycode
  <2> QED BY <2>1 DEF EntryInv
<1>3. ASSUME NEW key \in Digits, DigitKey(key) PROVE EntryInv'
  <2> DEFINE frame == Pushed(partial, key)
             tooLong == exceeded \/ Len(partial) >= MaxLength
  <2>1. CASE has_reached_stop_length(frame)
    <3>1. startSeen' = FALSE
      BY <1>3, <2>1 DEF DigitKey
    <3> QED BY <3>1 DEF EntryInv
  <2>2. CASE ~has_reached_stop_length(frame)
    <3>1. /\ startSeen /\ partial' = frame /\ exceeded' = tooLong
          /\ typed' = Append(typed, key)
          /\ raced' = raced \cup EntryRace
          /\ UNCHANGED <<startSeen, proc>>
      BY <1>3, <2>2 DEF DigitKey
    <3>2. ~tooLong => frame = Append(partial, key) /\ ~exceeded
      <4>1. Len(partial) \in Nat /\ MaxLength \in Nat
        BY FrameIsSeq, Numbers DEF TypeOK
      <4> QED BY <4>1, PushedType DEF TypeOK
    <3> HIDE DEF frame, tooLong
    <3> QED BY <3>1, <3>2 DEF EntryInv, EntryRace
  <2> QED BY <2>1, <2>2
<1>4. ASSUME NEW key \in Digits \cup {"start"}, RejectKey(key) PROVE EntryInv'
  <2>1. ~startSeen /\ startSeen' = startSeen
    BY <1>4, RejectedOutsideEntry DEF RejectKey
  <2> QED BY <2>1 DEF EntryInv
<1>5. ASSUME NEW seconds \in Steps, nx_common_process(seconds) PROVE EntryInv'
  BY <1>5 DEF nx_common_process, EntryInv, coreVars, bookendVars, histVars
<1>6. CASE StoreBucket \/ graceperiod_keycodes_update_nv
  BY <1>6 DEF StoreBucket, graceperiod_keycodes_update_nv, EntryInv, bookendVars, histVars
<1>7. CASE StampLatest
  BY <1>0, <1>7 DEF StampLatest, EntryInv, coreVars, histVars
<1>8. CASE CheckElapsed
  <2>1. /\ proc = "elapsed"
        /\ proc' = IF uptime - latest > Timeout THEN "expire" ELSE "pro"
        /\ UNCHANGED <<startSeen, latest, lastKey, uptime, raced, exceeded, partial, typed>>
    BY <1>8 DEF CheckElapsed, coreVars, bookendVars, histVars
  <2>2. ASSUME "entry" \notin raced, startSeen, uptime - latest > Timeout
        PROVE  uptime - lastKey > Timeout
    <3>1. latest # Unset /\ lastKey <= latest
      BY <2>1, <2>2 DEF EntryInv, Stamped
    <3> QED BY <1>0, <2>2, <3>1
  <2> QED BY <2>1, <2>2 DEF EntryInv
<1>9. CASE ClearExpired
  BY <1>9 DEF ClearExpired, EntryInv, mas_reset, bookendVars, histVars
<1>10. CASE pro_process
  BY <1>10 DEF pro_process, EntryInv, coreVars, bookendVars
<1>11. CASE UNCHANGED vars
  BY <1>11 DEF EntryInv, vars, coreVars, bookendVars, histVars
<1> QED BY <1>1, <1>2, <1>3, <1>4, <1>5, <1>6, <1>7, <1>8, <1>9, <1>10, <1>11
        DEF Next, handle_single_key, Process

LEMMA EntryAlways == Spec => [](TypeOK /\ EntryInv)
<1>1. Init => Stamped /\ EntryInv
  BY DEF Init, Stamped, EntryInv
<1> QED BY <1>1, StampedNext, EntryNext, MasTypeInit, MasTypeNext, BucketInit,
           BucketNext, PTL DEF Spec

\* The timeout cancels an entry only when no key was entered for longer than
\* the timeout, unless a key interrupts the timeout check itself.
THEOREM TimeoutCancelsIdle == Spec => OnlyIdleEntriesExpire
<1>1. EntryInv => [ExpireEntry /\ startSeen /\ "entry" \notin raced
                      => uptime - lastKey > Timeout]_vars
  BY DEF EntryInv, ExpireEntry
<1> QED BY <1>1, EntryAlways, PTL DEF OnlyIdleEntriesExpire

\* What an entry typed key by key hands to the protocol layer is exactly the
\* keys after its last start key, unless keys interrupt the timeout check.
THEOREM FramesAsTyped == Spec => FramesAreWhatWasTyped
<1>1. ASSUME TypeOK, EntryInv
      PROVE  ["entry" \notin raced =>
                /\ EndKey => slot' \in {slot, typed}
                /\ \A key \in Digits :
                      DigitKey(key) => slot' \in {slot, Append(typed, key)}]_vars
  <2> SUFFICES ASSUME "entry" \notin raced
               PROVE  /\ EndKey => slot' \in {slot, typed}
                      /\ \A key \in Digits :
                            DigitKey(key) => slot' \in {slot, Append(typed, key)}
    OBVIOUS
  <2>1. ASSUME EndKey PROVE slot' \in {slot, typed}
    BY <1>1, <2>1 DEF EndKey, mas_finish, EntryInv
  <2>2. ASSUME NEW key \in Digits, DigitKey(key)
        PROVE  slot' \in {slot, Append(typed, key)}
    <3> DEFINE frame == Pushed(partial, key)
               tooLong == exceeded \/ Len(partial) >= MaxLength
    <3>1. CASE ~has_reached_stop_length(frame)
      BY <2>2, <3>1 DEF DigitKey
    <3>2. CASE has_reached_stop_length(frame) /\ tooLong
      <4>1. mas_finish(frame, tooLong)
        BY <2>2, <3>2 DEF DigitKey
      <4> HIDE DEF frame, tooLong
      <4> QED BY <3>2, <4>1 DEF mas_finish
    <3>3. CASE has_reached_stop_length(frame) /\ ~tooLong
      <4>1. mas_finish(frame, tooLong) /\ startSeen
        BY <2>2, <3>3 DEF DigitKey
      <4>2. frame = Append(partial, key)
        <5>1. Len(partial) \in Nat /\ MaxLength \in Nat /\ partial \in Frame
          BY <1>1, FrameIsSeq, Numbers DEF TypeOK
        <5> QED BY <3>3, <5>1, PushedType
      <4>3. partial = typed
        BY <1>1, <3>3, <4>1 DEF EntryInv
      <4> HIDE DEF frame, tooLong
      <4> QED BY <4>1, <4>2, <4>3 DEF mas_finish
    <3> QED BY <3>1, <3>2, <3>3
  <2> QED BY <2>1, <2>2
<1> QED BY <1>1, EntryAlways, PTL DEF FramesAreWhatWasTyped

\* After the save and until the frame is taken up, the entry in the slot is
\* one whose cost is saved.
ChargeInv ==
    /\ "late" \notin raced /\ "deduct" \notin raced
    /\ proc \in {"bookend", "elapsed", "expire", "clear", "pro"}
    => ~slotUnsaved

LEMMA ChargeNext == ChargeInv /\ [Next]_vars => ChargeInv'
<1> SUFFICES ASSUME ChargeInv, [Next]_vars PROVE ChargeInv'
  OBVIOUS
<1>1. ASSUME NEW f, NEW tooLong, mas_finish(f, tooLong), proc' = proc
      PROVE  ChargeInv'
  BY <1>1 DEF ChargeInv, mas_finish, FinishRace
<1>2. CASE StartKey
  BY <1>2 DEF StartKey, ChargeInv
<1>3. CASE EndKey
  BY <1>1, <1>3 DEF EndKey
<1>4. ASSUME NEW key \in Digits, DigitKey(key) PROVE ChargeInv'
  <2> DEFINE frame == Pushed(partial, key)
             tooLong == exceeded \/ Len(partial) >= MaxLength
  <2>1. CASE has_reached_stop_length(frame)
    <3>1. mas_finish(frame, tooLong) /\ proc' = proc
      BY <1>4, <2>1 DEF DigitKey
    <3> HIDE DEF frame, tooLong
    <3> QED BY <1>1, <3>1
  <2>2. CASE ~has_reached_stop_length(frame)
    <3>1. raced' = raced \cup EntryRace /\ UNCHANGED <<proc, slotUnsaved>>
      BY <1>4, <2>2 DEF DigitKey
    <3> QED BY <3>1 DEF ChargeInv
  <2> QED BY <2>1, <2>2
<1>5. ASSUME NEW key \in Digits \cup {"start"}, RejectKey(key) PROVE ChargeInv'
  BY <1>5 DEF RejectKey, ChargeInv, histVars
<1>6. CASE (\E keys \in CompleteKeycodes : handle_complete_keycode(keys)) \/ PowerLoss
           \/ \E seconds \in Steps : nx_common_process(seconds)
  <2>1. proc' \in {"idle", "add_time"}
    BY <1>6 DEF handle_complete_keycode, PowerLoss, nx_common_process
  <2> QED BY <2>1 DEF ChargeInv
<1>7. CASE StoreBucket \/ graceperiod_keycodes_update_nv
  BY <1>7 DEF StoreBucket, graceperiod_keycodes_update_nv, ChargeInv
<1>8. CASE StampLatest \/ CheckElapsed \/ ExpireEntry \/ ClearExpired
  BY <1>8 DEF StampLatest, CheckElapsed, ExpireEntry, ClearExpired, ChargeInv, histVars
<1>9. CASE pro_process
  BY <1>9 DEF pro_process, ChargeInv
<1>10. CASE UNCHANGED vars
  BY <1>10 DEF ChargeInv, vars, histVars
<1> QED BY <1>2, <1>3, <1>4, <1>5, <1>6, <1>7, <1>8, <1>9, <1>10
        DEF Next, handle_single_key, Process

\* The attempt a frame cost is in NV before the frame is applied, unless the
\* finishing key interrupts the process call after the save.
THEOREM ChargedFirst == Spec => ChargedBeforeApplied
<1>1. Init => ChargeInv
  BY DEF Init, ChargeInv
<1>2. ChargeInv => [pro_process /\ slot # NoFrame /\ "late" \notin raced
                       /\ "deduct" \notin raced => ~slotUnsaved]_vars
  BY DEF ChargeInv, pro_process
<1> QED BY <1>1, <1>2, ChargeNext, PTL DEF Spec, ChargedBeforeApplied
=============================================================================
