------------------------------ MODULE CoseMac0 ------------------------------
(* Securing a CoAP payload as a COSE MAC0 object and opening one that was    *)
(* received (nexus_cose_mac0_common.c, _sign.c and _verify.c), byte by byte. *)
(* params has the fields of nexus_cose_mac0_common_macparams_t: key, nonce   *)
(* (below 2^24, the numbers Cbor keeps exact), method, uri and payload.      *)
EXTENDS Cbor, SipHash

(* shared_oc_config.h and nexus_cose_mac0_common.h, with the defaults. *)
MaxCborPayload == 98
MaxUri == 11
MaxProtectedHeader == 7
MacStructSize == 4 + MaxProtectedHeader + (1 + 2 + MaxUri) + MaxCborPayload

Mac0 == <<77, 65, 67, 48>>   \* the context string "MAC0"
NonceLabel == 5

nexus_cose_mac0_encode_protected_header_map(nonce) ==
  LET e == cbor_encoder_init(MaxProtectedHeader)
      map == cbor_encoder_create_map(e, 1)
  IN  cbor_encoder_close_container(e, cbor_encode_uint(cbor_encode_uint(map, NonceLabel), nonce)).out

(* What is authenticated, in an array of four. *)
MacArray(e, uri, params) ==
  cbor_encoder_close_container(e,
    FoldLeft(cbor_encode_byte_string, cbor_encode_text_string(cbor_encoder_create_array(e, 4), Mac0),
             << nexus_cose_mac0_encode_protected_header_map(params.nonce),
                <<params.method>> \o uri, params.payload >>))

(* What is left in the encoder once the structure is built. *)
encoded_structure(e) ==
  IF e.err # {} THEN [err |-> "CBOR_ENCODER", bytes |-> <<>>]
  ELSE [err |-> "NONE", bytes |-> SubSeq(e.out, 1, Len(e.out) % 256)]

(* Faulty variant: the URI is not authenticated. *)
mac_structure_NoUri(params) ==
  IF Len(params.uri) > MaxUri THEN [err |-> "INPUT_DATA_INVALID", bytes |-> <<>>]
  ELSE encoded_structure(MacArray(cbor_encoder_init(MacStructSize), <<>>, params))

(* nexus_cose_mac0_common_mac_params_to_mac_structure *)
mac_structure(params) ==
  IF Len(params.uri) > MaxUri THEN [err |-> "INPUT_DATA_INVALID", bytes |-> <<>>]
  ELSE encoded_structure(MacArray(cbor_encoder_init(MacStructSize), params.uri, params))

nexus_cose_mac0_common_compute_tag(structure, key) == nexus_check_compute(key, structure)

(* _nexus_cose_mac0_sign_input_and_tag_to_nexus_cose_mac0_message_t *)
mac0_message(e, params, tag) ==
  LET map(header) == cbor_encoder_close_container(header, cbor_encoder_create_map(header, 0))
      header == cbor_encode_byte_string(cbor_encoder_create_array(e, 4),
                                        nexus_cose_mac0_encode_protected_header_map(params.nonce))
  IN  cbor_encoder_close_container(e,
        cbor_encode_byte_string(cbor_encode_byte_string(map(header), params.payload), tag))

Unsigned(code) == [err |-> code, bytes |-> <<>>]

SignedWith(structure, params, size) ==
  LET result(message) == IF message.err # {} THEN Unsigned("CBOR_ENCODER")
                         ELSE IF Len(message.out) > MaxCborPayload THEN Unsigned("INPUT_DATA_INVALID")
                         ELSE [err |-> "NONE", bytes |-> message.out]
  IN  IF structure.err # "NONE" THEN Unsigned(structure.err)
      ELSE result(mac0_message(cbor_encoder_init(size), params,
                               nexus_cose_mac0_common_compute_tag(structure.bytes, params.key)))

nexus_cose_mac0_sign_encode_message(params, size) ==
  IF size < MaxCborPayload THEN Unsigned("BUFFER_TOO_SMALL")
  ELSE SignedWith(mac_structure(params), params, size)

(* The secured payload, or none for the caller to send. *)
nexus_oc_wrapper_repack_buffer_secured(params, size) ==
  IF size < MaxCborPayload THEN <<>> ELSE nexus_cose_mac0_sign_encode_message(params, size).bytes

-----------------------------------------------------------------------------
(* Opening.                                                                  *)

Refused(code) == [err |-> code, nonce |-> 0, payload |-> <<>>, tag |-> <<>>]

(* _nexus_cose_mac0_verify_deserialize_protected_header: the header map with *)
(* a label and the nonce under it; label and nonce are iterators.            *)
IsInt(it) == it.err = "None" /\ it.type = "int"

HeaderEnds(b, root, end) ==
  end.err = "None" /\ end.type = "invalid" /\ cbor_value_leave_container(b, root, end).err = "None"

NonceUnder(b, root, nonce) ==
  IF /\ IsInt(nonce)
     /\ raw_integer(b, nonce) < Wide64
     /\ HeaderEnds(b, root, cbor_value_advance(b, nonce))
  THEN <<raw_integer(b, nonce)>> ELSE <<>>

NonceLabelled(b, root, label) ==
  IF IsInt(label) THEN NonceUnder(b, root, cbor_value_advance(b, label)) ELSE <<>>

protected_nonce(b, root) ==
  IF root.err = "None" /\ root.type = "map" /\ ~root.unknown /\ raw_integer(b, root) # 0
  THEN NonceLabelled(b, root, cbor_value_enter_container(b, root)) ELSE <<>>

IsBytes(b, it) == it.type = "bytes" /\ ~it.unknown /\ raw_integer(b, it) > 0

(* The payload is not copied: its head is taken to be one byte or two. *)
payload_start(body, length) == body.ptr + (IF length < 24 THEN 1 ELSE 2)

(* nexus_cose_mac0_verify_deserialize_protected_message, one operator for    *)
(* each element of the array in turn; m is what was read so far.  The tag's  *)
(* bytes hold what was there before: a shorter tag leaves the rest of them.  *)
TagRead(b, root, m, got) ==
  IF got.it.err # "None" THEN Refused("CBOR_PARSER")
  ELSE IF cbor_value_leave_container(b, root, got.it).err # "None" THEN Refused("CBOR_PARSER")
  ELSE [m EXCEPT !.tag = got.text \o SubSeq(@, Len(got.text) + 1, 8)]

TagAt(b, root, m, it) ==
  IF it.err # "None" THEN Refused("CBOR_PARSER")
  ELSE IF ~IsBytes(b, it) THEN Refused("INPUT_DATA_INVALID")
  ELSE TagRead(b, root, m, copy_string(b, it, 8))

BodyRead(b, root, m, it, all) ==
  LET bytes(from, length) == SubSeq(b, from, from + length - 1)
  IN  IF all.it.err # "None" THEN Refused("CBOR_PARSER")
      ELSE IF Len(all.text) >= 255 THEN Refused("INPUT_DATA_INVALID")
      ELSE TagAt(b, root, [m EXCEPT !.payload = bytes(payload_start(it, Len(all.text)), Len(all.text))],
                 cbor_value_advance(b, it))

BodyAt(b, root, m, it) ==
  IF it.err # "None" \/ it.type # "bytes" THEN Refused("INPUT_DATA_INVALID")
  ELSE BodyRead(b, root, m, it, iterate_string_chunks(b, it, <<>>))

HeaderRead(b, root, m, it, nonce) ==
  IF it.err # "None" \/ nonce = <<>> \/ it.type # "map" THEN Refused("INPUT_DATA_INVALID")
  ELSE BodyAt(b, root, [m EXCEPT !.nonce = nonce[1]], cbor_value_advance(b, it))

HeaderAt(b, root, m, it) ==
  LET read(got) == HeaderRead(b, root, m, got.it, protected_nonce(got.text, cbor_parser_init(got.text)))
  IN  IF it.err # "None" THEN Refused("CBOR_PARSER")
      ELSE IF ~IsBytes(b, it) THEN Refused("INPUT_DATA_INVALID")
      ELSE read(copy_string(b, it, MaxProtectedHeader))

verify_deserialize(b, root, stack) ==
  IF root.err # "None" \/ root.type # "array" \/ root.unknown THEN Refused("CBOR_PARSER")
  ELSE IF raw_integer(b, root) # 4 THEN Refused("INPUT_DATA_INVALID")
  ELSE HeaderAt(b, root, [err |-> "NONE", nonce |-> 0, payload |-> <<>>, tag |-> stack],
                cbor_value_enter_container(b, root))

MacChecked(got, structure, key) ==
  IF structure.err # "NONE" THEN Refused(structure.err)
  ELSE IF got.tag # nexus_cose_mac0_common_compute_tag(structure.bytes, key) THEN Refused("MAC_TAG_INVALID")
  ELSE got

(* ctx: key, method and uri of the packet the bytes came in. *)
Authenticated(ctx, got) ==
  IF got.err # "NONE" THEN got
  ELSE MacChecked(got, mac_structure([key |-> ctx.key, method |-> ctx.method, uri |-> ctx.uri,
                                      nonce |-> got.nonce, payload |-> got.payload]), ctx.key)

nexus_cose_mac0_verify_message(ctx, b, stack) ==
  Authenticated(ctx, verify_deserialize(b, cbor_parser_init(b), stack))
=============================================================================
