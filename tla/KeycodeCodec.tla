---------------------------- MODULE KeycodeCodec ----------------------------
(* Keycodes as keys (nexus_keycode_pro.c, nexus_keycode_pro_extended.c): how *)
(* the unit reads what was typed, undoes the interleaving, infers the ID and *)
(* compares the check.  KeycodePro takes up a keycode after that, with an    *)
(* ideal check.                                                              *)
(*                                                                           *)
(* A frame is what message assembly hands over: length keys, in a buffer     *)
(* whose other bytes are left from before.  A key is a digit, or its place   *)
(* in the alphabet of the small protocol.                                    *)
EXTENDS OriginCommand

Keycodes == INSTANCE KeycodeWindow WITH Below <- 23, Above <- 40, IdSpace <- 64, IdModulus <- 65536
ExtendedWindow == INSTANCE ReceiveWindow WITH Below <- 23, Above <- 40

FixedFfKey == [i \in 1 .. 16 |-> 255]

Unparsed == [ok |-> FALSE]
Message(id, type, body, check) == [ok |-> TRUE, id |-> id, type |-> type, body |-> body, check |-> check]

-----------------------------------------------------------------------------
(* The digit stream of nexus_util.c. *)

nexus_digits_init(frame) ==
  [chars |-> frame.keys, length |-> frame.length, position |-> 0, underrun |-> FALSE, value |-> 0]

(* A uint16_t: more than any count once the position has passed the length.  *)
nexus_digits_remaining(s) == (s.length - s.position) % 65536

nexus_digits_pull_uint32(s, count) ==
  [s EXCEPT !.position = @ + count,
            !.value = chars_to_uint32(SubSeq(s.chars, s.position + 1, s.position + count))]

nexus_digits_pull_uint8(s, count) ==
  IF nexus_digits_remaining(s) < count THEN [s EXCEPT !.value = 255]
  ELSE [nexus_digits_pull_uint32(s, count) EXCEPT !.value = IF @ > 255 THEN 255 ELSE @]

nexus_digits_try_pull_uint32(s, count) ==
  IF s.underrun \/ nexus_digits_remaining(s) < count THEN [s EXCEPT !.underrun = TRUE, !.value = -1]
  ELSE nexus_digits_pull_uint32(s, count)

(* "We should now have consumed exactly every digit." *)
Consumed(s) == ~s.underrun /\ s.length = s.position

-----------------------------------------------------------------------------
(* The full protocol. *)

ActivationLength == 14
CheckDigits == 6

(* Message types. *)
ADD_CREDIT == 0
SET_CREDIT == 1
WIPE_STATE == 2
DEMO_CODE == 3
ALLOW_TEST == 4
QC_TEST == 5
DEVICE_ID_DISPLAY == 6
NOMAC_DEVICE_ID_CONFIRMATION == 7
PASSTHROUGH_COMMAND == 8

check_field_from_frame(frame) ==
  chars_to_uint32(SubSeq(frame.keys, frame.length - CheckDigits + 1, frame.length))

full_deinterleave(frame, check) ==
  [frame EXCEPT !.keys = deinterleave_digits(SubSeq(@, 1, 8), check) \o SubSeq(@, 9, Len(@))]

(* The fields after the type: the digits are pulled in turn. *)
ActivationMessage(type, id, body, pd, check) ==
  IF id > 63 THEN Unparsed
  ELSE IF type \notin {ADD_CREDIT, SET_CREDIT, WIPE_STATE, DEMO_CODE} THEN Unparsed
  ELSE IF ~Consumed(nexus_digits_pull_uint32(body, CheckDigits)) THEN Unparsed
  ELSE Message(Keycodes!infer_full_message_id(id, pd), type, body.value, check)

ActivationBody(type, id, pd, check) ==
  ActivationMessage(type, id.value,
    IF type = WIPE_STATE THEN nexus_digits_pull_uint8(nexus_digits_pull_uint32(id, 4), 1)
    ELSE nexus_digits_pull_uint32(id, 5), pd, check)

ActivationFields(type, pd, check) ==
  ActivationBody(type.value, nexus_digits_pull_uint8(type, 2), pd, check)

ActivationChecked(frame, pd, check) ==
  ActivationFields(nexus_digits_pull_uint8(nexus_digits_init(full_deinterleave(frame, check)), 1), pd, check)

full_parse_activation(frame, pd) == ActivationChecked(frame, pd, check_field_from_frame(frame))

(* A number of 32 bits in two halves: what does not fit is dropped. *)
Halves(digits) ==
  FoldLeft(LAMBDA n, digit : LET low == 10 * n[2] + digit
                             IN  <<(10 * n[1] + (low \div 65536)) % 65536, low % 65536>>,
           <<0, 0>>, digits)

(* The body of a QC test is pulled without asking whether it is there.  A    *)
(* passthrough command is given to the product, which accepts it (external). *)
full_parse_factory_and_passthrough(frame) ==
  LET checked(type, body, s) == IF Consumed(s) THEN Message(0, type, body, s.value) ELSE Unparsed
      check(type, body, s) == checked(type, body, nexus_digits_try_pull_uint32(s, CheckDigits))
      minutes(s) == check(QC_TEST, s.value, s)
      rest(type, ok, body) == IF ok THEN Message(0, type, body, 0) ELSE Unparsed
      typed(type, s) ==
        CASE type = QC_TEST -> minutes(nexus_digits_pull_uint8(nexus_digits_pull_uint32(s, 3), 2))
          [] type \in 0 .. DEVICE_ID_DISPLAY \ {QC_TEST} -> check(type, 0, s)
          [] type = NOMAC_DEVICE_ID_CONFIRMATION ->
               rest(type, frame.length - 1 \in 8 .. 10, Halves(SubSeq(frame.keys, 2, frame.length)))
          [] type = PASSTHROUGH_COMMAND -> rest(type, frame.length > 2, SubSeq(frame.keys, 2, frame.length))
          [] OTHER -> rest(type, Consumed(s), 0)
      first(s) == typed(s.value, s)
  IN  first(nexus_digits_try_pull_uint32(nexus_digits_init(frame), 1))

full_parse(frame, pd) ==
  IF frame.length = ActivationLength THEN full_parse_activation(frame, pd)
  ELSE full_parse_factory_and_passthrough(frame)

full_compute_check(message, key) ==
  six_int_digits(nexus_check_compute(key, LittleEndian(message.id) \o <<message.type>> \o LittleEndian(message.body)))

(* Faulty variant: the check is only asked of activation messages. *)
full_validated_Factory(message, key) ==
  CASE ~message.ok -> FALSE
    [] message.type >= ALLOW_TEST -> message.type <= PASSTHROUGH_COMMAND
    [] OTHER -> message.check = full_compute_check(message, key)

(* nexus_keycode_pro_full_apply up to the call that applies the message.     *)
(* Type 9 is in no case of the code that follows.                            *)
full_validated(message, key) ==
  CASE ~message.ok -> FALSE
    [] message.type >= NOMAC_DEVICE_ID_CONFIRMATION -> message.type \in {NOMAC_DEVICE_ID_CONFIRMATION, PASSTHROUGH_COMMAND}
    [] OTHER -> message.check = full_compute_check(message, IF message.type < ALLOW_TEST THEN key ELSE ZeroKey)

-----------------------------------------------------------------------------
(* The small protocol.  A bit stream is a sequence of bits, the first one    *)
(* pushed first.                                                             *)

SmallLength == 14
ObfuscatedBits == 16

SMALL_ADD_CREDIT == 0
SMALL_PASSTHROUGH == 1
SMALL_SET_CREDIT == 2
SMALL_MAINTENANCE_OR_TEST == 3
MaxTestFunction == 127

push_uint8(n, bits) == [i \in 1 .. bits |-> (n \div 2 ^ (bits - i)) % 2]

pull(stream, position, bits) ==
  FoldLeft(LAMBDA n, bit : 2 * n + bit, 0, SubSeq(stream, position + 1, position + bits))

Bits(bytes) == FlattenSeq([i \in DOMAIN bytes |-> push_uint8(bytes[i], 8)])

small_reversibly_obfuscate(stream, prng) ==
  [i \in DOMAIN stream |-> IF i <= ObfuscatedBits THEN (stream[i] + prng[i]) % 2 ELSE stream[i]]

(* The pseudorandom bytes of the check, hashed in network byte order. *)
CheckBytes(check) == nexus_check_compute_pseudorandom_bytes(ZeroKey, <<check \div 256, check % 256>>, 4)
deobscured(stream) ==
  small_reversibly_obfuscate(stream, Bits(CheckBytes(pull(stream, ObfuscatedBits, 12))))

(* The 26 bits without the type. *)
extract_passthrough_message(stream) == SubSeq(stream, 1, 6) \o SubSeq(stream, 9, 28)

extended_small_parse(stream) ==
  IF pull(stream, 1, 3) # 0 THEN Unparsed
  ELSE Message(pull(stream, 4, 2), SMALL_PASSTHROUGH, pull(stream, 6, 8), pull(stream, 14, 12))

(* The upper 12 bits of the MAC, the last of its bytes being the highest. *)
upper_check(mac) == mac[8] * 16 + (mac[7] \div 16)

extended_small_compute_auth(message, id, key) ==
  upper_check(nexus_check_compute(key, LittleEndian(id) \o <<0, message.body, message.id>>)) = message.check

extended_small_infer_windowed_message_id(message, w, key) ==
  FirstFit({id \in (w.center - 23) .. (w.center + 40) :
              /\ id % 4 = message.id
              /\ ~ExtendedWindow!id_flag_already_set(w, id)
              /\ extended_small_compute_auth(message, id, key)})

ExtendedInferred(message, id) == IF id = -1 THEN Unparsed ELSE [message EXCEPT !.id = id]
ExtendedParsed(message, w, key) ==
  IF ~message.ok THEN Unparsed
  ELSE ExtendedInferred(message, extended_small_infer_windowed_message_id(message, w, key))

extended_small_validated(stream, w, key) ==
  IF stream[1] = 0 THEN Unparsed ELSE ExtendedParsed(extended_small_parse(stream), w, key)

small_compute_check(message, key) ==
  upper_check(nexus_check_compute(key, LittleEndian(message.id) \o <<message.type, message.body>>))

(* A passthrough message is handled, and an extended one applied, while it   *)
(* is parsed: parsing gives here the message that is applied.                *)
SmallMessage(stream, id, type, w, key) ==
  IF type = SMALL_PASSTHROUGH THEN extended_small_validated(extract_passthrough_message(stream), w, key)
  ELSE Message(IF type = SMALL_MAINTENANCE_OR_TEST THEN id ELSE Keycodes!infer_full_message_id(id, w.center),
               type, pull(stream, 8, 8), pull(stream, 16, 12))

SmallFields(stream, w, key) == SmallMessage(stream, pull(stream, 0, 6), pull(stream, 6, 2), w, key)

small_parse(frame, w, key) ==
  IF frame.length # SmallLength THEN Unparsed
  ELSE IF \E i \in 1 .. SmallLength : frame.keys[i] \notin 0 .. 3 THEN Unparsed
  ELSE SmallFields(deobscured(FlattenSeq([i \in 1 .. SmallLength |-> push_uint8(frame.keys[i], 2)])), w, key)

small_validated(message, key) ==
  /\ message.ok
  /\ \/ message.type = SMALL_PASSTHROUGH
     \/ message.check = small_compute_check(message,
          IF message.type = SMALL_MAINTENANCE_OR_TEST /\ message.body <= MaxTestFunction THEN FixedFfKey ELSE key)

-----------------------------------------------------------------------------
(* Days of credit. *)

UnlockIncrement == 65535

small_get_add_credit_increment_days(id) ==
  CASE id = 255 -> UnlockIncrement
    [] id < 180 -> id + 1
    [] OTHER -> (id - 179) * 3 + 180

small_get_set_credit_increment_days(id) ==
  CASE id < 90 -> id + 1
    [] id >= 90 /\ id < 135 -> (id - 89) * 2 + 90
    [] id >= 135 /\ id < 180 -> (id - 134) * 4 + 180
    [] id >= 180 /\ id < 225 -> (id - 179) * 8 + 360
    [] id >= 225 /\ id < 240 -> (id - 224) * 16 + 720
    [] id = 255 -> UnlockIncrement
    [] OTHER -> 0
=============================================================================
