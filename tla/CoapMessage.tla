---------------------------- MODULE CoapMessage ----------------------------
(* CoAP messages as coap.c builds, serializes and parses them.  A packet has *)
(* the fields of coap_packet_t the program uses; options is the set of those *)
(* whose bit is set, astray whether a bit was set behind the map of options, *)
(* and a string is the sequence of its bytes.                                *)
EXTENDS Integers, Sequences, SequencesExt

(* constants.h and shared_oc_config.h, with the defaults. *)
COAP_OPTION_URI_PATH == 11
COAP_OPTION_CONTENT_FORMAT == 12
COAP_OPTION_URI_QUERY == 15
OptionBits == 80    \* in the map options[10] of coap_packet_t
APPLICATION_COSE_MAC0 == 17
APPLICATION_VND_OCF_CBOR == 10000
COAP_TOKEN_LEN == 1
COAP_HEADER_LEN == 4
COAP_MAX_HEADER_SIZE == 22
MaxTotalMessage == 120
MaxBody == MaxTotalMessage - COAP_MAX_HEADER_SIZE

Slash == 47
Ampersand == 38
Question == 63
PayloadMarker == 255

-----------------------------------------------------------------------------
(* Building a packet. *)

coap_udp_init_message(type, code, mid) ==
  [version |-> 0, type |-> type, code |-> code, mid |-> mid, token |-> <<>>, options |-> {}, astray |-> FALSE,
   path |-> <<>>, format |-> 0, query |-> <<>>, payload |-> <<>>]

Present(p, option) == option \in p.options

coap_set_token(p, token) ==
  [p EXCEPT !.token = SubSeq(token, 1, IF Len(token) < COAP_TOKEN_LEN THEN Len(token) ELSE COAP_TOKEN_LEN)]

coap_set_header_content_format(p, format) ==
  [p EXCEPT !.format = format % 65536, !.options = @ \cup {COAP_OPTION_CONTENT_FORMAT}]

(* A string from its first byte other than the leading ones. *)
Stripped(s, leading) ==
  LET rest == {i \in DOMAIN s : s[i] # leading}
  IN  IF rest = {} THEN <<>> ELSE SubSeq(s, CHOOSE i \in rest : \A j \in rest : i <= j, Len(s))

coap_set_header_uri_path(p, path) ==
  [p EXCEPT !.path = Stripped(path, Slash), !.options = @ \cup {COAP_OPTION_URI_PATH}]

coap_set_header_uri_query(p, query) ==
  [p EXCEPT !.query = Stripped(query, Question), !.options = @ \cup {COAP_OPTION_URI_QUERY}]

coap_set_payload(p, payload) ==
  [p EXCEPT !.payload = SubSeq(payload, 1, IF Len(payload) > MaxBody THEN MaxBody ELSE Len(payload))]

-----------------------------------------------------------------------------
(* Serializing. *)

coap_option_nibble(n) == IF n < 13 THEN n ELSE IF n <= 268 THEN 13 ELSE 14

Extended(n) ==
  IF n > 268 THEN <<((n - 269) \div 256) % 256, (n - 269) % 256>>
  ELSE IF n > 12 THEN <<n - 13>> ELSE <<>>

(* Faulty variant: a long option has no extended length. *)
coap_set_option_header_NoLength(delta, length) ==
  <<16 * coap_option_nibble(delta) + coap_option_nibble(length)>> \o Extended(delta)

coap_set_option_header(delta, length) ==
  <<16 * coap_option_nibble(delta) + coap_option_nibble(length)>> \o Extended(delta) \o Extended(length)

(* The value without its leading zero bytes; the values here have two bytes. *)
coap_serialize_int_option(number, current, value) ==
  LET bytes == (IF value > 255 THEN <<value \div 256>> ELSE <<>>) \o (IF value > 0 THEN <<value % 256>> ELSE <<>>)
  IN  coap_set_option_header(number - current, Len(bytes)) \o bytes

(* The loop over the parts of a string: j stands at or after the start of a  *)
(* part, and the byte after a separator is not looked at.                    *)
RECURSIVE parts(_, _, _, _)
parts(array, start, j, split) ==
  IF j > Len(array) + 2 THEN <<>>
  ELSE IF (j \in DOMAIN array /\ array[j] = split) \/ j = Len(array) + 1
       THEN <<SubSeq(array, start, j - 1)>> \o parts(array, j + 1, j + 2, split)
       ELSE parts(array, start, j + 1, split)

coap_serialize_array_option(number, current, array, split) ==
  LET all == parts(array, 1, 1, split)
      option(i) == coap_set_option_header(IF i = 1 THEN number - current ELSE 0, Len(all[i])) \o all[i]
  IN  FlattenSeq([i \in DOMAIN all |-> option(i)])

coap_serialize_options(p) ==
  LET afterPath == IF Present(p, COAP_OPTION_URI_PATH) THEN COAP_OPTION_URI_PATH ELSE 0
      afterFormat == IF Present(p, COAP_OPTION_CONTENT_FORMAT) THEN COAP_OPTION_CONTENT_FORMAT ELSE afterPath
      ifPresent(option, bytes) == IF Present(p, option) THEN bytes ELSE <<>>
  IN  ifPresent(COAP_OPTION_URI_PATH, coap_serialize_array_option(COAP_OPTION_URI_PATH, 0, p.path, Slash))
      \o ifPresent(COAP_OPTION_CONTENT_FORMAT,
                   coap_serialize_int_option(COAP_OPTION_CONTENT_FORMAT, afterPath, p.format))
      \o ifPresent(COAP_OPTION_URI_QUERY,
                   coap_serialize_array_option(COAP_OPTION_URI_QUERY, afterFormat, p.query, Ampersand))

(* coap_udp_set_header_fields, with the version coap_serialize_message sets. *)
HeaderFields(p) == <<64 + 16 * p.type + Len(p.token), p.code, p.mid \div 256, p.mid % 256>>

(* Faulty variant: the size of the header is not checked. *)
coap_serialize_message_NoLimit(p) ==
  LET token == IF p.token = <<>> THEN <<0>> ELSE p.token
      marker == IF p.payload # <<>> THEN <<PayloadMarker>> ELSE <<>>
  IN  IF p.code = 0 THEN HeaderFields(p)
      ELSE HeaderFields(p) \o token \o coap_serialize_options(p) \o marker \o p.payload

(* The bytes sent, none when the header is too large.  A token byte is       *)
(* always written, whatever the token's length.                              *)
coap_serialize_message(p) ==
  LET token == IF p.token = <<>> THEN <<0>> ELSE p.token
      head == HeaderFields(p) \o token \o coap_serialize_options(p)
      marker == IF p.payload # <<>> THEN <<PayloadMarker>> ELSE <<>>
      calculated == Len(coap_serialize_options(p)) + Len(marker) + Len(p.token) + COAP_HEADER_LEN
  IN  IF calculated > COAP_MAX_HEADER_SIZE THEN <<>>
      ELSE IF p.code = 0 THEN HeaderFields(p)
      ELSE IF Len(head) > COAP_MAX_HEADER_SIZE THEN <<>>
      ELSE head \o marker \o p.payload

-----------------------------------------------------------------------------
(* Parsing the first n bytes of buffer b; what follows them is stale.        *)

ByteAt(b, i) == IF i \in DOMAIN b THEN b[i] ELSE 0

coap_parse_int_option(bytes) ==
  FoldLeft(LAMBDA var, byte : (256 * var + byte) % 65536, 0, bytes)

coap_merge_multi_option(dst, option, separator) ==
  IF dst = <<>> THEN option ELSE dst \o <<separator>> \o option

(* The option header at i: its delta, its length and where its value starts. *)
option_header(b, i) ==
  LET ext(nibble, at) == CASE nibble = 13 -> [n |-> 13 + ByteAt(b, at), next |-> at + 1]
                           [] nibble = 14 -> [n |-> 269 + 256 * ByteAt(b, at) + ByteAt(b, at + 1), next |-> at + 2]
                           [] OTHER -> [n |-> nibble, next |-> at]
      delta == ext(b[i] \div 16, i + 1)
      length == ext(b[i] % 16, delta.next)
  IN  [delta |-> delta.n, length |-> length.n, start |-> length.next]

Result(status, p) == [status |-> status, p |-> p]

(* Any number is taken, and its bit set before its value is known to be in   *)
(* the datagram; behind the map lie the other fields of the packet.          *)
SET_OPTION(p, number) ==
  IF number < OptionBits THEN [p EXCEPT !.options = @ \cup {number}] ELSE [p EXCEPT !.astray = TRUE]

take_option(p, number, value) ==
  LET format == coap_parse_int_option(value)
  IN  CASE number = COAP_OPTION_CONTENT_FORMAT ->
             Result(IF format \in {APPLICATION_VND_OCF_CBOR, APPLICATION_COSE_MAC0} THEN "NO_ERROR"
                    ELSE "UNSUPPORTED_MEDIA_TYPE_4_15", [p EXCEPT !.format = format])
        [] number = COAP_OPTION_URI_PATH ->
             Result("NO_ERROR", [p EXCEPT !.path = coap_merge_multi_option(@, value, Slash)])
        [] number = COAP_OPTION_URI_QUERY ->
             Result("NO_ERROR", [p EXCEPT !.query = coap_merge_multi_option(@, value, Ampersand)])
        [] OTHER -> Result(IF number % 2 = 1 THEN "BAD_OPTION_4_02" ELSE "NO_ERROR", p)

(* Faulty variant: the bytes of the extended fields are not counted. *)
overruns_NoExtension(i, h, n) == i + 1 + h.length > n + 1

overruns(i, h, n) == h.start + h.length > n + 1

RECURSIVE parse_options(_, _, _, _, _)
parse_options(b, n, i, number, p) ==
  LET h == option_header(b, i)
      seen == SET_OPTION(p, number + h.delta)
      taken == take_option(seen, number + h.delta, SubSeq(b, h.start, h.start + h.length - 1))
  IN  IF i > n THEN Result("NO_ERROR", p)
      ELSE IF b[i] >= 240 THEN Result("NO_ERROR", coap_set_payload(p, SubSeq(b, i + 1, n)))
      ELSE IF overruns(i, h, n) THEN Result("BAD_OPTION_4_02", seen)
      ELSE IF taken.status # "NO_ERROR" THEN taken
      ELSE parse_options(b, n, h.start + h.length, number + h.delta, taken.p)

coap_udp_parse_message(b, n) ==
  LET length == ByteAt(b, 1) % 16
      p == [coap_udp_init_message((ByteAt(b, 1) \div 16) % 4, ByteAt(b, 2), 256 * ByteAt(b, 3) + ByteAt(b, 4))
              EXCEPT !.version = ByteAt(b, 1) \div 64,
                     !.token = IF length = 1 THEN <<ByteAt(b, 5)>> ELSE <<>>]
  IN  IF p.version # 1 \/ length > COAP_TOKEN_LEN THEN Result("BAD_REQUEST_4_00", p)
      ELSE parse_options(b, n, COAP_HEADER_LEN + 1 + length, 0, p)
=============================================================================
