--------------------------- MODULE OriginCommand ---------------------------
(* Origin commands as digits (nexus_channel_om.c): how a controller parses   *)
(* what a person types, finds out which command ID it was made for, and      *)
(* checks the six digits of its MAC.  What an accepted command then does is  *)
(* in LinkSetup.                                                             *)
EXTENDS Integers, Sequences, SequencesExt, SipHash

OmWindow == INSTANCE ReceiveWindow WITH Below <- 31, Above <- 8

MaxDigits == 20
MacDigits == 6

CONTROLLER_ACTION == 0
ACCESSORY_UNLOCK == 1
ACCESSORY_UNLINK == 2
CREATE_LINK_MODE_3 == 9

ZeroKey == [i \in 1 .. 16 |-> 0]

chars_to_uint32(digits) == FoldLeft(LAMBDA value, digit : 10 * value + digit, 0, digits)

LittleEndian(n) == <<n % 256, (n \div 256) % 256, (n \div 65536) % 256, n \div 16777216>>

(* The lower 32 bits of a MAC, modulo a million (2^24 is 777216 modulo it).  *)
six_int_digits(mac) == (mac[1] + 256 * mac[2] + 65536 * mac[3] + 777216 * mac[4]) % 1000000

-----------------------------------------------------------------------------
(* Parsing. *)

validate_command_type(digit) ==
  digit \in {CONTROLLER_ACTION, ACCESSORY_UNLOCK, ACCESSORY_UNLINK, CREATE_LINK_MODE_3}

(* The digits of a body, by _nexus_channel_om_ascii_extract_body_*. *)
BodyDigits(type) == CASE type = CONTROLLER_ACTION -> 2
                      [] type = CREATE_LINK_MODE_3 -> 6
                      [] OTHER -> 1

(* Pseudorandom bytes of the MAC digits are taken from the others; there are *)
(* eight, and no command has as many digits before its MAC.                  *)
Without(digits, prng) == [i \in DOMAIN digits |-> (digits[i] - prng[i]) % 10]
deinterleave_digits(digits, check_value) ==
  Without(digits, nexus_check_compute_pseudorandom_bytes(ZeroKey, LittleEndian(check_value), 8))

Invalid == [ok |-> FALSE]

MessageOf(body, auth) ==
  IF ~validate_command_type(body[1]) \/ Len(body) # 1 + BodyDigits(body[1]) THEN Invalid
  ELSE [ok |-> TRUE, type |-> body[1], value |-> chars_to_uint32(Tail(body)), auth |-> auth]

MessageIn(digits, auth) ==
  IF Len(digits) \notin 1 .. 8 THEN Invalid ELSE MessageOf(deinterleave_digits(digits, auth), auth)

ascii_parse_message(command) ==
  IF Len(command) <= MacDigits THEN Invalid
  ELSE MessageIn(SubSeq(command, 1, Len(command) - MacDigits),
                 chars_to_uint32(SubSeq(command, Len(command) - MacDigits + 1, Len(command))))

-----------------------------------------------------------------------------
(* Authenticating. *)

(* The accessories a command may name, with the bytes of their IDs: the list *)
(* is fixed in the code until linked accessories can be enumerated.          *)
Accessories == << [authority |-> <<17, 1>>, device |-> <<145, 56, 135, 146>>],
                  [authority |-> <<2, 1>>, device |-> <<88, 113, 131, 148>>],
                  [authority |-> <<65, 144>>, device |-> <<25, 0, 0, 0>>] >>

(* The last decimal digit of a device ID (256 is 6 modulo 10). *)
LastDigit(device) == (device[1] + 6 * (device[2] + device[3] + device[4])) % 10

auth_arbitrary_bytes(bytes, key) == six_int_digits(nexus_check_compute(key, bytes))

(* The accessories the command may be about, none given for one that is not  *)
(* about a particular one.                                                   *)
BodiesToAuth(message) ==
  IF message.type \in {ACCESSORY_UNLOCK, ACCESSORY_UNLINK}
  THEN {Accessories[i].authority \o Accessories[i].device :
          i \in {j \in DOMAIN Accessories : LastDigit(Accessories[j].device) = message.value}}
  ELSE {LittleEndian(message.value)}

infer_inner_compute_auth(message, id, key) ==
  \E body \in BodiesToAuth(message) :
    auth_arbitrary_bytes(LittleEndian(id) \o <<message.type>> \o body, key) = message.auth

(* The first of the IDs that fit, -1 when none does. *)
FirstFit(ids) == IF ids = {} THEN -1 ELSE Min(ids)

(* The IDs of the window that are not flagged are tried in turn. *)
infer_fields_compute_auth(message, w, key) ==
  FirstFit({id \in (w.center - 31) .. (w.center + 8) :
              ~OmWindow!id_flag_already_set(w, id) /\ infer_inner_compute_auth(message, id, key)})

(* A message that was parsed, with the ID inferred for it. *)
Accepted(message, id) ==
  IF id = -1 THEN Invalid
  ELSE [ok |-> TRUE, id |-> id, type |-> message.type, value |-> message.value]

Handled(message, w, key) ==
  IF ~message.ok THEN Invalid ELSE Accepted(message, infer_fields_compute_auth(message, w, key))

(* nx_channel_handle_origin_command up to the call that applies it. *)
handle_ascii_origin_command(command, w, key) ==
  IF Len(command) > MaxDigits \/ \E i \in DOMAIN command : command[i] \notin 0 .. 9 THEN Invalid
  ELSE Handled(ascii_parse_message(command), w, key)
=============================================================================
