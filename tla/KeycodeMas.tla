------------------------------ MODULE KeycodeMas ------------------------------
(***************************************************************************)
(* Message assembly, rate limiting and entry timeout of Nexus Keycode      *)
(* (nexus_keycode_mas.c), with the main loop that drives them              *)
(* (nexus_keycode_core.c, nexus_common_internal.c).                        *)
(*                                                                         *)
(* Keys arrive at interrupt time (nx_keycode_handle_single_key "may be     *)
(* called within an interrupt"), so a key can be handled between any two   *)
(* accesses of nx_common_process to the shared variables: the process call *)
(* is one step per group of accesses, and proc says which comes next.  A   *)
(* complete keycode is handled in the main loop, never inside a process    *)
(* call, and in one step: the header offers it to products that pass whole *)
(* keycodes instead of single keys (nx_keycode.h:37), so no key interrupts *)
(* the call between its test of the rate limit (mas.c:434) and its finish  *)
(* (471).  The two ways of entry may still follow each other.              *)
(*                                                                         *)
(* The protocol layer is its one-frame buffer (slot): filled when an entry *)
(* is finished, emptied when nexus_keycode_pro_process has handled it.     *)
(***************************************************************************)
EXTENDS Integers, Sequences

CONSTANTS
    Digits,        \* keys other than the start and end key
    MaxLength,     \* NEXUS_KEYCODE_MAX_MESSAGE_LENGTH (30)
    StopLengths,   \* NEXUS_KEYCODE_PROTOCOL_STOP_LENGTH: 14, or NoStopLength
    BucketMax,     \* ..._RATE_LIMIT_BUCKET_MAX (128)
    InitialCount,  \* ..._RATE_LIMIT_BUCKET_INITIAL_COUNT (6)
    Refill,        \* ..._RATE_LIMIT_REFILL_SECONDS_PER_ATTEMPT (720)
    Timeout,       \* ..._ENTRY_TIMEOUT_SECONDS (16)
    Preemptive,    \* do keys arrive at interrupt time?
    Steps,         \* the seconds that can pass between two process calls
    MaxUptime,     \* bound: uptime at which the product is switched off
    MaxTyped,      \* bound: keys typed in one entry
    MaxFinished,   \* bound: entries finished between two start-ups
    MaxOutages     \* bound: how often power is lost

NoStopLength == 255

(***************************************************************************)
(* Kconfig bounds each number; it does not relate InitialCount and         *)
(* BucketMax, whose defaults are 6 and 128.  The product has to call       *)
(* nx_common_process with some number of seconds.                          *)
(***************************************************************************)
ASSUME MasAssumption ==
    /\ MaxLength \in Nat \ {0}
    /\ StopLengths \subseteq 1..255
    /\ BucketMax \in 1..255
    /\ InitialCount \in 1..BucketMax
    /\ Refill \in 1..3600
    /\ Timeout \in 2..255
    /\ Preemptive \in BOOLEAN
    /\ Steps \subseteq Nat /\ Steps # {}
    /\ MaxUptime \in Nat
    /\ MaxTyped \in Nat
    /\ MaxFinished \in Nat
    /\ MaxOutages \in Nat

VARIABLES
    bucket,     \* _this_core.rl_bucket, in seconds
    grace,      \* _this_core.stored.graceperiod_keycodes
    nv,         \* NV block KEYCODE_MAS, and whether it has a valid CRC
    partial,    \* _this_core.partial
    exceeded,   \* _this_core.max_length_exceeded
    stop_length,\* _this_bookend.stop_length
    startSeen,  \* _this_bookend.start_seen
    latest,     \* _this_bookend.latest_uptime
    uptime,     \* _this.uptime_s of the common module
    proc,       \* the next step of nx_common_process, or "idle"
    sum,        \* bucket level computed and not yet stored
    slot,       \* frame pending in the protocol layer, or NoFrame
    \* History:
    typed,      \* keys typed since the start key of the open entry
    lastKey,    \* uptime at the last accepted key
    booted,     \* seconds in the bucket at start-up
    finished,   \* entries finished since start-up
    unsaved,    \* entries finished since the grace count was last computed
    slotUnsaved,\* is the entry in slot one of them?
    raced,      \* interrupts that hit a half-done process call
    outages     \* number of power losses

coreVars == <<bucket, grace, nv, partial, exceeded>>
bookendVars == <<stop_length, startSeen, latest>>
histVars == <<typed, lastKey, booted, finished, unsaved,
              slotUnsaved, raced, outages>>
vars == <<coreVars, bookendVars, uptime, proc, sum, slot, histVars>>

NoFrame == <<>>      \* an empty frame is never handed over
Unset == -1          \* stands for UINT32_MAX, which is -1 modulo 2^32

Frame == UNION {[1..n -> Digits] : n \in 0..MaxLength}

ProcSteps == {"idle", "add_time", "grace", "bookend", "elapsed", "expire",
              "clear", "pro"}

TypeOK ==
    /\ bucket \in 0..(BucketMax * Refill)
    /\ grace \in 0..InitialCount
    /\ nv \in [valid : BOOLEAN, data : 0..InitialCount]
    /\ partial \in Frame
    /\ exceeded \in BOOLEAN
    /\ stop_length \in StopLengths
    /\ startSeen \in BOOLEAN
    /\ latest \in Nat \cup {Unset}
    /\ uptime \in Nat
    /\ proc \in ProcSteps
    /\ sum \in 0..(BucketMax * Refill)
    /\ slot \in Frame
    /\ typed \in Seq(Digits)
    /\ lastKey \in Nat
    /\ booted \in 0..(BucketMax * Refill)
    /\ finished \in Nat
    /\ unsaved \in Nat
    /\ slotUnsaved \in BOOLEAN
    /\ raced \in SUBSET {"deduct", "late", "entry"}
    /\ outages \in 0..MaxOutages

Init ==
    /\ bucket = InitialCount * Refill
    /\ grace = InitialCount
    /\ nv = [valid |-> FALSE, data |-> InitialCount]
    /\ partial = <<>>
    /\ exceeded = FALSE
    /\ stop_length \in StopLengths
    /\ startSeen = FALSE
    /\ latest = 0
    /\ uptime = 0
    /\ proc = "idle"
    /\ sum = 0
    /\ slot = NoFrame
    /\ typed = <<>>
    /\ lastKey = 0
    /\ booted = bucket
    /\ finished = 0
    /\ unsaved = 0
    /\ slotUnsaved = FALSE
    /\ raced = {}
    /\ outages = 0

(***************************************************************************)
(* Rate limiting: a token bucket that holds seconds.                       *)
(***************************************************************************)
\* Faulty variant: the bucket is not capped.
rate_limit_add_time_Uncapped(level, seconds) == level + seconds

rate_limit_add_time(level, seconds) ==
    IF level + seconds >= BucketMax * Refill
      THEN BucketMax * Refill
      ELSE level + seconds

nx_keycode_is_rate_limited == bucket < Refill

rate_limit_attempts_remaining == bucket \div Refill

rate_limit_deduct_msg ==
    bucket' = IF bucket >= Refill THEN bucket - Refill ELSE bucket

remaining_graceperiod_keycodes ==
    IF bucket >= InitialCount * Refill
      THEN InitialCount
      ELSE rate_limit_attempts_remaining

(***************************************************************************)
(* Assembly.                                                               *)
(***************************************************************************)
mas_reset == partial' = <<>> /\ exceeded' = FALSE

has_reached_stop_length(frame) ==
    stop_length # NoStopLength /\ Len(frame) >= stop_length

\* mas_push: keys that do not fit are not kept, but remembered as too many.
Pushed(frame, key) ==
    IF Len(frame) < MaxLength THEN Append(frame, key) ELSE frame

\* A finishing key hits the process call between its read and its write of
\* the bucket, or after it has saved the grace count.
FinishRace ==
    CASE proc = "add_time"             -> {"deduct"}
      [] proc \in {"idle", "grace"}    -> {}
      [] OTHER                         -> {"late"}

\* Faulty variant: only an entry that is handed over is deducted.
mas_finish_FreeMisses(frame, tooLong) ==
    /\ slot' = IF frame # <<>> /\ ~tooLong /\ slot = NoFrame THEN frame ELSE slot
    /\ slotUnsaved' = IF slot' # slot THEN TRUE ELSE slotUnsaved
    /\ IF slot' # slot THEN rate_limit_deduct_msg ELSE UNCHANGED bucket
    /\ mas_reset
    /\ finished' = finished + 1
    /\ unsaved' = unsaved + 1
    /\ raced' = raced \cup FinishRace

\* mas_finish of an assembled frame: it is handed to pro_enqueue, which drops
\* it when another frame is pending; the attempt is deducted in any case.
mas_finish(frame, tooLong) ==
    /\ slot' = IF frame # <<>> /\ ~tooLong /\ slot = NoFrame THEN frame ELSE slot
    /\ slotUnsaved' = IF slot' # slot THEN TRUE ELSE slotUnsaved
    /\ rate_limit_deduct_msg
    /\ mas_reset
    /\ finished' = finished + 1
    /\ unsaved' = unsaved + 1
    /\ raced' = raced \cup FinishRace

\* A key is about to be overtaken by a timeout decided on older values.
EntryRace == IF proc \in {"elapsed", "expire", "clear"} THEN {"entry"} ELSE {}

(***************************************************************************)
(* Interrupt: one key (nexus_keycode_mas_bookend_push).                    *)
(***************************************************************************)
KeyPossible ==
    /\ Preemptive \/ proc = "idle"
    /\ finished < MaxFinished

\* A rate-limited unit rejects every key, and a key outside an entry is
\* rejected as well.
RejectKey(key) ==
    /\ KeyPossible
    /\ nx_keycode_is_rate_limited \/ (key # "start" /\ ~startSeen)
    /\ latest' = Unset
    /\ UNCHANGED <<stop_length, coreVars, startSeen, uptime, proc, sum, slot,
                   histVars>>

\* Faulty variant: the start key does not discard the entry before it.
StartKey_KeepsKeys ==
    /\ KeyPossible
    /\ ~nx_keycode_is_rate_limited
    /\ latest' = Unset
    /\ startSeen' = TRUE
    /\ typed' = <<>>
    /\ lastKey' = uptime
    /\ raced' = raced \cup EntryRace
    /\ UNCHANGED <<stop_length, coreVars, uptime, proc, sum, slot, booted,
                   finished, unsaved, slotUnsaved, outages>>

StartKey ==
    /\ KeyPossible
    /\ ~nx_keycode_is_rate_limited
    /\ latest' = Unset
    /\ startSeen' = TRUE
    /\ mas_reset
    /\ typed' = <<>>
    /\ lastKey' = uptime
    /\ raced' = raced \cup EntryRace
    /\ UNCHANGED <<stop_length, bucket, grace, nv, uptime, proc, sum, slot,
                   booted, finished, unsaved, slotUnsaved, outages>>

\* Faulty variant: the entry stays open after the end key.
EndKey_StaysOpen ==
    /\ KeyPossible
    /\ stop_length = NoStopLength
    /\ ~nx_keycode_is_rate_limited /\ startSeen
    /\ latest' = Unset
    /\ mas_finish(partial, exceeded)
    /\ typed' = <<>>
    /\ lastKey' = uptime
    /\ UNCHANGED <<stop_length, startSeen, grace, nv, uptime, proc, sum,
                   booted, outages>>

\* Only the full protocol has an end key.
EndKey ==
    /\ KeyPossible
    /\ stop_length = NoStopLength
    /\ ~nx_keycode_is_rate_limited /\ startSeen
    /\ latest' = Unset
    /\ startSeen' = FALSE
    /\ mas_finish(partial, exceeded)
    /\ typed' = <<>>
    /\ lastKey' = uptime
    /\ UNCHANGED <<stop_length, grace, nv, uptime, proc, sum, booted, outages>>

DigitKey(key) ==
    LET frame == Pushed(partial, key)
        tooLong == exceeded \/ Len(partial) >= MaxLength
    IN  /\ KeyPossible
        /\ Len(typed) < MaxTyped
        /\ ~nx_keycode_is_rate_limited /\ startSeen
        /\ latest' = Unset
        /\ lastKey' = uptime
        /\ IF has_reached_stop_length(frame)
             THEN /\ startSeen' = FALSE
                  /\ mas_finish(frame, tooLong)
                  /\ typed' = <<>>
             ELSE /\ partial' = frame
                  /\ exceeded' = tooLong
                  /\ typed' = Append(typed, key)
                  /\ raced' = raced \cup EntryRace
                  /\ UNCHANGED <<startSeen, bucket, slot, finished, unsaved,
                                 slotUnsaved>>
        /\ UNCHANGED <<stop_length, grace, nv, uptime, proc, sum, booted,
                       outages>>

handle_single_key ==
    \/ StartKey
    \/ EndKey
    \/ \E key \in Digits : DigitKey(key)
    \/ \E key \in Digits \cup {"start"} : RejectKey(key)

(***************************************************************************)
(* Main loop: a complete keycode, given by its keys after the start key.   *)
(***************************************************************************)
\* The keys taken from it: the small protocol stops at the stop length.
KeysTaken(keys) ==
    IF has_reached_stop_length(keys) THEN SubSeq(keys, 1, stop_length) ELSE keys

handle_complete_keycode(keys) ==
    /\ proc = "idle"
    /\ finished < MaxFinished
    /\ ~nx_keycode_is_rate_limited
    /\ startSeen' = FALSE
    /\ LET taken == KeysTaken(keys)
       IN  IF Len(taken) <= MaxLength
             THEN mas_finish(taken, FALSE)
             ELSE mas_finish(SubSeq(taken, 1, MaxLength), TRUE)
    /\ typed' = <<>>
    /\ UNCHANGED <<stop_length, grace, nv, latest, uptime, proc, sum, lastKey,
                   booted, outages>>

(***************************************************************************)
(* Main loop: nx_common_process.                                           *)
(***************************************************************************)
nx_common_process(seconds) ==
    /\ proc = "idle"
    /\ uptime + seconds <= MaxUptime
    /\ uptime' = uptime + seconds
    /\ sum' = rate_limit_add_time(bucket, seconds)
    /\ proc' = "add_time"
    /\ UNCHANGED <<coreVars, bookendVars, slot, histVars>>

\* Faulty variant: frames are processed before the grace count is saved.
StoreBucket_ProFirst ==
    /\ proc = "add_time"
    /\ bucket' = sum
    /\ proc' = "pro"
    /\ UNCHANGED <<grace, nv, partial, exceeded, bookendVars, uptime, sum, slot,
                   histVars>>

StoreBucket ==
    /\ proc = "add_time"
    /\ bucket' = sum
    /\ proc' = "grace"
    /\ UNCHANGED <<grace, nv, partial, exceeded, bookendVars, uptime, sum, slot,
                   histVars>>

\* Faulty variant: the grace count is kept in RAM only.
graceperiod_keycodes_update_nv_Unsaved ==
    /\ proc = "grace"
    /\ grace' = remaining_graceperiod_keycodes
    /\ proc' = "bookend"
    /\ unsaved' = 0
    /\ slotUnsaved' = FALSE
    /\ UNCHANGED <<nv, bucket, partial, exceeded, bookendVars, uptime, sum, slot,
                   typed, lastKey, booted, finished, raced, outages>>

graceperiod_keycodes_update_nv ==
    /\ proc = "grace"
    /\ grace' = remaining_graceperiod_keycodes
    /\ nv' = IF grace' = grace THEN nv ELSE [valid |-> TRUE, data |-> grace']
    /\ proc' = "bookend"
    /\ unsaved' = 0
    /\ slotUnsaved' = FALSE
    /\ UNCHANGED <<bucket, partial, exceeded, bookendVars, uptime, sum, slot,
                   typed, lastKey, booted, finished, raced, outages>>

\* Faulty variant: every process call renews the time stamp.
StampLatest_Always ==
    /\ proc = "bookend"
    /\ latest' = IF startSeen THEN uptime ELSE latest
    /\ proc' = IF startSeen THEN "elapsed" ELSE "pro"
    /\ UNCHANGED <<stop_length, coreVars, startSeen, uptime, sum, slot,
                   histVars>>

\* mas_bookend_process, up to the time stamp.
StampLatest ==
    /\ proc = "bookend"
    /\ latest' = IF startSeen /\ latest = Unset THEN uptime ELSE latest
    /\ proc' = IF startSeen THEN "elapsed" ELSE "pro"
    /\ UNCHANGED <<stop_length, coreVars, startSeen, uptime, sum, slot,
                   histVars>>

\* Faulty variant: the entry expires one second early.
CheckElapsed_Early ==
    /\ proc = "elapsed"
    /\ proc' = IF uptime - latest >= Timeout THEN "expire" ELSE "pro"
    /\ UNCHANGED <<coreVars, bookendVars, uptime, sum, slot, histVars>>

\* The stamp is read again here; when a key has just unset it, the unsigned
\* difference is uptime + 1.
CheckElapsed ==
    /\ proc = "elapsed"
    /\ proc' = IF uptime - latest > Timeout THEN "expire" ELSE "pro"
    /\ UNCHANGED <<coreVars, bookendVars, uptime, sum, slot, histVars>>

ExpireEntry ==
    /\ proc = "expire"
    /\ startSeen' = FALSE
    /\ typed' = <<>>
    /\ proc' = "clear"
    /\ UNCHANGED <<stop_length, coreVars, latest, uptime, sum, slot, lastKey,
                   booted, finished, unsaved, slotUnsaved, raced, outages>>

ClearExpired ==
    /\ proc = "clear"
    /\ mas_reset
    /\ proc' = "pro"
    /\ UNCHANGED <<bucket, grace, nv, bookendVars, uptime, sum, slot, histVars>>

\* Faulty variant: the pending frame is not cleared.
pro_process_KeepsPending ==
    /\ proc = "pro"
    /\ proc' = "idle"
    /\ UNCHANGED <<coreVars, bookendVars, uptime, sum, slot, histVars>>

\* nexus_keycode_pro_process: the pending frame is applied (KeycodePro).
pro_process ==
    /\ proc = "pro"
    /\ slot' = NoFrame
    /\ slotUnsaved' = FALSE
    /\ proc' = "idle"
    /\ UNCHANGED <<coreVars, bookendVars, uptime, sum, typed, lastKey, booted,
                   finished, unsaved, raced, outages>>

Process ==
    \/ \E seconds \in Steps : nx_common_process(seconds)
    \/ StoreBucket
    \/ graceperiod_keycodes_update_nv
    \/ StampLatest
    \/ CheckElapsed
    \/ ExpireEntry
    \/ ClearExpired
    \/ pro_process

(***************************************************************************)
(* Power is lost, and nexus_keycode_mas_init and nx_common_init run.       *)
(***************************************************************************)
PowerLoss ==
    /\ outages < MaxOutages
    /\ grace' = IF nv.valid THEN nv.data ELSE InitialCount
    /\ bucket' = grace' * Refill
    /\ mas_reset
    /\ startSeen' = FALSE
    /\ latest' = 0
    /\ uptime' = 0
    /\ proc' = "idle"
    /\ sum' = 0
    /\ slot' = NoFrame
    /\ typed' = <<>>
    /\ lastKey' = 0
    /\ booted' = bucket'
    /\ finished' = 0
    /\ unsaved' = 0
    /\ slotUnsaved' = FALSE
    /\ outages' = outages + 1
    /\ UNCHANGED <<stop_length, nv, raced>>

CompleteKeycodes == UNION {[1..n -> Digits] : n \in 0..MaxTyped}

Next ==
    \/ handle_single_key
    \/ \E keys \in CompleteKeycodes : handle_complete_keycode(keys)
    \/ Process
    \/ PowerLoss

Spec == Init /\ [][Next]_vars

\* The main loop keeps calling nx_common_process, as every interval it
\* returns and every request for processing obliges the product to do.
FairSpec == Spec /\ WF_vars(Process)

(***************************************************************************)
(* Properties.                                                             *)
(***************************************************************************)
\* Every finished entry pays for itself: the entries finished since start-up
\* and the level of the bucket never exceed what start-up and time put in,
\* unless a finishing key interrupts rate_limit_add_time between its read
\* and its write of the bucket.
RateBound ==
    "deduct" \notin raced => bucket + Refill * finished <= booted + uptime

\* What a restart would put into the bucket.
RestartLevel == Refill * (IF nv.valid THEN nv.data ELSE InitialCount)

\* A power cycle gains no more attempts than were made since the process call
\* last computed the grace count.
PowerCycleGain == RestartLevel <= bucket + Refill * unsaved

\* The attempt a frame cost is in NV before the frame is applied, so that no
\* power cycle can give back an attempt that was tried, unless the finishing
\* key interrupts the process call after the save and before the frame is
\* taken up.  (This is why mas_process comes before pro_process.)
ChargedBeforeApplied ==
    [][pro_process /\ slot # NoFrame /\ "late" \notin raced /\ "deduct" \notin raced
          => ~slotUnsaved]_vars

\* The rate limiter never cuts off an entry it let begin, so no key of an
\* entry in progress is rejected.
EntryNotStarved == startSeen => ~nx_keycode_is_rate_limited

\* After a process call no entry is open whose last key is older than the
\* timeout and the delay until the call that stamped it.
EntryExpires ==
    proc = "idle" /\ startSeen =>
        \E seconds \in Steps : uptime - lastKey <= Timeout + seconds

\* An entry is cancelled only when no key was entered for longer than the
\* timeout, unless a key interrupts the timeout check itself.
OnlyIdleEntriesExpire ==
    [][ExpireEntry /\ startSeen /\ "entry" \notin raced
          => uptime - lastKey > Timeout]_vars

\* What is handed over for an entry typed key by key is exactly the keys after
\* its last start key, and never one that was too long: nothing is left over
\* from an entry before it, unless keys interrupt the timeout check itself,
\* which then clears an entry begun after the one that expired.
FramesAreWhatWasTyped ==
    []["entry" \notin raced =>
          /\ EndKey => slot' \in {slot, typed}
          /\ \A key \in Digits :
                DigitKey(key) => slot' \in {slot, Append(typed, key)}]_vars

\* A frame handed over is dealt with, so that the next one is not dropped.
SlotEmptied == []<>(slot = NoFrame)

\* An entry once begun is not cut off by the rate limiter, and does not stay
\* open longer than the timeout and the delay of the call that stamps it.
EntryTimely == EntryNotStarved /\ EntryExpires

\* What reaches the protocol layer is what was typed, was paid for in NV before
\* it is tried, and is taken up.
HandedOver == FramesAreWhatWasTyped /\ ChargedBeforeApplied /\ SlotEmptied

=============================================================================
