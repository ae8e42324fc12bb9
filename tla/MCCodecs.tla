------------------------------ MODULE MCCodecs ------------------------------
(* Bounded inputs for the codecs: a step picks one case of one kind, and     *)
(* the invariants compare what the code computes for it with what the format *)
(* or the caller asks for.                                                   *)
EXTENDS CoseMac0, CoapMessage, LinkHandshake, KeycodeCodec, NvBlock, OcHeap

CONSTANTS Letters,       \* the bytes an arbitrary payload is made of
          MaxPayload     \* its greatest length

VARIABLES kind, input

vars == <<kind, input>>

-----------------------------------------------------------------------------
(* CBOR items: a definite array or map, an indefinite one (list, object).    *)

Numbers == {0, 1, 23, 24, 255, 256, 65535, 65536, 16777215}
Integer == {<<"int", n>> : n \in Numbers \cup {-n - 1 : n \in Numbers}}
Strings == {<<>>, <<97>>, <<255>>, <<97, 255>>} \cup {[i \in 1 .. n |-> 97] : n \in {23, 24, 255, 256}}
Leaf == {<<"int", 0>>, <<"int", -25>>, <<"bool", TRUE>>, <<"bool", FALSE>>, <<"text", <<97>>>>,
         <<"bytes", <<>>>>}
Flat == {<<t, s>> : t \in {"array", "list"}, s \in UNION {[1 .. n -> Leaf] : n \in 0 .. 2}}
        \cup {<<t, s>> : t \in {"map", "object"}, s \in UNION {[1 .. n -> Leaf] : n \in {0, 2}}}
Small == {<<"array", <<>>>>, <<"list", <<>>>>, <<"map", <<>>>>, <<"object", <<>>>>,
          <<"array", <<<<"int", 0>>>>>>, <<"list", <<<<"int", 0>>>>>>}
Nested == {<<t, <<v>>>> : t \in {"array", "list"}, v \in Flat}
          \cup {<<t, <<k, v>>>> : t \in {"map", "object"}, k \in Leaf, v \in Flat}
          \cup {<<t, <<v, w>>>> : t \in {"array", "list", "map", "object"}, v \in Small, w \in Small}
Tagged == {<<"tag", n, v>> : n \in {0, 24, 256}, v \in Small}
          \cup {<<t, <<<<"tag", 1, k>>, <<"tag", 2, <<"tag", 3, v>>>>>>>> :
                  t \in {"array", "list", "map", "object"}, k \in Leaf, v \in Leaf \cup Small}
Item == Tagged \cup Integer \cup {<<t, s>> : t \in {"bytes", "text"}, s \in Strings} \cup Leaf \cup Flat \cup Nested

RECURSIVE Write(_, _)
Write(e, v) ==
  LET container(c) == cbor_encoder_close_container(e, FoldLeft(Write, c, v[2]))
  IN  CASE v[1] = "int" -> cbor_encode_int(e, v[2])
        [] v[1] = "bool" -> cbor_encode_boolean(e, v[2])
        [] v[1] = "bytes" -> cbor_encode_byte_string(e, v[2])
        [] v[1] = "text" -> cbor_encode_text_string(e, v[2])
        [] v[1] = "array" -> container(cbor_encoder_create_array(e, Len(v[2])))
        [] v[1] = "list" -> container(cbor_encoder_create_array(e, Indefinite))
        [] v[1] = "map" -> container(cbor_encoder_create_map(e, Len(v[2]) \div 2))
        [] v[1] = "object" -> container(cbor_encoder_create_map(e, Indefinite))
        [] v[1] = "tag" -> Write(cbor_encode_tag(e, v[2]), v[3])

Written(v) == Write(cbor_encoder_init(1000), v).out

RECURSIVE Read(_, _), ReadAll(_, _, _)
Read(b, it) ==
  CASE it.type = "int" -> <<"int", cbor_value_get_int64(b, it)>>
    [] it.type = "bool" -> <<"bool", it.extra # 0>>
    [] it.type \in {"bytes", "text"} -> <<it.type, iterate_string_chunks(b, it, <<>>).text>>
    [] it.type = "array" -> <<IF it.unknown THEN "list" ELSE "array",
                              ReadAll(b, cbor_value_enter_container(b, it), <<>>)>>
    [] it.type = "map" -> <<IF it.unknown THEN "object" ELSE "map",
                            ReadAll(b, cbor_value_enter_container(b, it), <<>>)>>
    [] it.type = "tag" -> <<"tag", raw_integer(b, it), Read(b, cbor_value_advance_fixed(b, it))>>
    [] OTHER -> <<"unreadable">>
ReadAll(b, it, items) ==
  IF cbor_value_at_end(it) THEN items
  ELSE IF it.err # "None" THEN Append(items, <<"unreadable">>)
  ELSE ReadAll(b, cbor_value_advance(b, cbor_value_skip_tag(b, it)), Append(items, Read(b, it)))

(* The caller's walk: cbor_value_advance until the end, tags passed over. *)
RECURSIVE Walk(_, _)
Walk(b, it) ==
  IF cbor_value_at_end(it) \/ it.err # "None" THEN it ELSE Walk(b, cbor_value_advance(b, it))

After(b) == Walk(b, cbor_parser_init(b))

(* What cbor_encode_* writes is what the iterator reads back, item for item, *)
(* with definite and indefinite containers nested; the iterator ends exactly *)
(* at the end of the bytes, so a second item would be found in its place.    *)
CborRoundTrip ==
  kind = "item" => \A e \in {Write(cbor_encoder_init(1000), input)}, end \in {After(Written(input))} :
    /\ e.err = {}
    /\ Read(e.out, cbor_parser_init(e.out)) = input
    /\ end.err = "None"
    /\ end.ptr = Len(e.out) + 1

(* Every proper prefix of an encoded item is refused by cbor_parser_init or  *)
(* cbor_value_advance: a cut payload is never taken for a shorter one, and   *)
(* no byte after the cut is read.                                            *)
TruncationDetected ==
  kind = "item" => \A b \in {Written(input)} : \A n \in 0 .. Len(b) - 1 :
    \A end \in {After(SubSeq(b, 1, n))} : end.err # "None" /\ ~end.broken /\ ~end.overread

(* An encoder with too little room reports OutOfMemory, has written a prefix *)
(* of the whole encoding only, and the bytes it wrote and those it says it   *)
(* still needs never add up to less than the whole.                          *)
OverflowReported ==
  kind = "item" => \A b \in {Written(input)} : \A size \in 0 .. Len(b) - 1 :
    \A e \in {Write(cbor_encoder_init(size), input)} : /\ "OutOfMemory" \in e.err
                                                       /\ IsPrefix(e.out, b)
                                                       /\ size + e.needed = Len(b)

RECURSIVE Untagged(_)
Untagged(v) == IF v[1] = "tag" THEN Untagged(v[3]) ELSE v

(* cbor_value_map_find_value stops at the value of the first key that is the *)
(* string looked for, tags of the key passed over, and at the end of the map *)
(* when no key is; a value equal to the string is not taken for a key.       *)
MapFindsFirst ==
  LET keys == {i \in DOMAIN input[2] : i % 2 = 1 /\ Untagged(input[2][i]) = <<"text", <<97>>>>}
  IN  (kind = "item" /\ input[1] \in {"map", "object"}) => \A b \in {Written(input)} :
        \A found \in {cbor_value_map_find_value(b, cbor_parser_init(b), <<97>>)} :
          IF keys = {} THEN found.type = "invalid" /\ found.err = "None"
          ELSE Read(b, found) = input[2][1 + Min(keys)]

-----------------------------------------------------------------------------
(* Arbitrary payloads. *)

Payload == UNION {[1 .. n -> Letters] : n \in 0 .. MaxPayload}
           \cup {<<128 + n>> \o items : n \in 2 .. 3, items \in [1 .. 3 -> {0, 64, 96, 160, 192, 244}]}

(* Whatever the bytes received, walking over the first item reads no byte    *)
(* outside them and leaves the iterator inside them; when it succeeds, the   *)
(* same walk over the bytes up to the iterator succeeds too.  The only       *)
(* assertion of the walk that may fail is the one at cborparser.c:322, said  *)
(* of conditions that "can't be reached", at a simple value without a name.  *)
NamelessSimple == 224 .. 243
WalkInBounds ==
  kind = "payload" => \A end \in {After(input)} :
    /\ ~end.overread /\ end.ptr <= Len(input) + 1
    /\ end.err = "None" => After(SubSeq(input, 1, end.ptr - 1)).err = "None"
    /\ end.broken => \E i \in DOMAIN input : input[i] \in NamelessSimple

-----------------------------------------------------------------------------
(* Representations. *)

Name == {<<97>>, <<98, 99>>}
Node0 == {<<k, "int", n>> : k \in Name, n \in {0, -1, 500}}
         \cup {<<k, "bool", b>> : k \in Name, b \in BOOLEAN}
         \cup {<<k, t, s>> : k \in Name, t \in {"text", "bytes"}, s \in {<<>>, <<7, 255>>}}
         \cup {<<k, "ints", s>> : k \in Name, s \in {<<1>>, <<1, -2>>}}
         \cup {<<k, "texts", s>> : k \in Name, s \in {<<<<7>>>>, <<<<7>>, <<8, 9>>>>}}
Rep0 == UNION {[1 .. n -> Node0] : n \in 0 .. 1} \cup {<<x, y>> : x \in Node0, y \in Node0}
Some == {<<>>, <<<<<<97>>, "int", 1>>>>, <<<<<<97>>, "int", 1>>, <<<<98>>, "bool", TRUE>>>>}
Rep1 == {<<<<<<97>>, "object", o>>>> : o \in Some \ {<<>>}}
        \cup {<<<<<<97>>, "objects", s>>, x>> : s \in {<<o>> : o \in Some} \cup {<<o, q>> : o \in Some, q \in Some},
                                                x \in Node0}
Rep == Rep0 \cup Rep1

(* The pools as they begin, and with little left of one kind or another.     *)
Whole == Room(20, 512, 50)
Rooms == {Whole, Room(1, 512, 50), Room(3, 512, 50), Room(20, 1, 50), Room(20, 4, 0), Room(20, 65, 1), Room(20, 66, 2)}

Suffices(room, need) == need.nodes <= room.nodes /\ need.bytes <= room.bytes /\ need.ints <= room.ints

Parsed(rep, room) == oc_parse_rep(encode_payload(rep, 1000).out, room)

RoomLeft(p) == Room(p.nodes, p.bytes, p.ints)

(* A payload written with the oc_rep_set_* macros is parsed into the same    *)
(* properties, in order, nested objects and arrays included, and takes from  *)
(* the pools exactly what oc_free_rep gives back: whenever the pools have    *)
(* that much, however little more.                                           *)
RepRoundTrip ==
  kind = "rep" => \A room \in Rooms : Suffices(room, oc_free_rep(input)) =>
    \A p \in {Parsed(input, room)} :
      /\ p.err = {} /\ ~p.crashed
      /\ p.rep = input
      /\ Together(RoomLeft(p), oc_free_rep(input)) = room

(* With too few nodes in the pool a payload of plain properties, or one with *)
(* an array of objects, is refused as out of memory and not parsed in part.  *)
RepPoolExhausted ==
  (kind = "rep" /\ \A i \in DOMAIN input : input[i][2] # "object") =>
    \A room \in Rooms, need \in {oc_free_rep(input)} :
      (need.nodes > room.nodes /\ Suffices([room EXCEPT !.nodes = need.nodes], need)) =>
        \A p \in {Parsed(input, room)} : p.err = {"OutOfMemory"} /\ ~p.crashed

RECURSIVE Resembles(_, _)
Resembles(rep, all) ==
  LET value(got, node) ==
        CASE node[2] = "object" -> Resembles(got, node[3])
          [] node[2] = "objects" -> /\ Len(got) = Len(node[3])
                                    /\ \A i \in DOMAIN got : Resembles(got[i], node[3][i])
          [] node[2] \in {"text", "bytes"} -> got \in {Lost, node[3]}
          [] OTHER -> got = node[3]
  IN  /\ Len(rep) = Len(all)
      /\ \A i \in DOMAIN rep : /\ rep[i][1] \in {Lost, all[i][1]} /\ rep[i][2] = all[i][2]
                               /\ value(rep[i][3], all[i])

(* Whatever the pools have left, a payload that is taken without an error    *)
(* has all its properties, in order, each with its own name and value,       *)
(* except that a name or a string for which the pool of bytes had no room is *)
(* missing: oc_rep.c:179, 218 and 228 do not look whether there was room.    *)
RepAsWritten ==
  kind = "rep" => \A room \in Rooms : \A p \in {Parsed(input, room)} :
    (p.err = {} /\ ~p.crashed) => Resembles(p.rep, input)

(* Whatever the payload and what the pools have left, oc_free_rep gives back *)
(* all that a parse took, also of a payload refused half way, except for     *)
(* what was read of an object in which the error is: its type is set after   *)
(* its last property only (oc_rep.c:247).                                    *)
RepGivenBack ==
  kind = "payload" => \A room \in Rooms : \A bytes \in {input, <<161, 97, 97>> \o input} :
    \A p \in {oc_parse_rep(bytes, room)} :
      ~p.crashed => IF p.leaked THEN p.err # {} ELSE Together(RoomLeft(p), oc_free_rep(p.rep)) = room

-----------------------------------------------------------------------------
(* Secured payloads. *)

Key1 == [i \in 1 .. 16 |-> i]
Key2 == [Key1 EXCEPT ![16] = 0]
Filled(n) == [i \in 1 .. n |-> (7 * i) % 256]
Plain == {[key |-> Key1, nonce |-> nonce, method |-> method, uri |-> uri, payload |-> Filled(n)] :
            nonce \in {0, 24, 256, 65536}, method \in {1, 2, 69}, uri \in {<<>>, Filled(MaxUri)},
            n \in {0, 1, 23, 24, 76, 77}}
Zeros == [i \in 1 .. 8 |-> 0]

(* shared_oc_config.h:139-145: every payload of up to 77 bytes, whatever the *)
(* nonce and resource, fits secured in the 98 bytes of a CBOR payload, and   *)
(* the receiver who knows the key, method and URI gets back the same nonce   *)
(* and payload.                                                              *)
SecuredRoundTrip ==
  kind = "plain" => \A b \in {nexus_oc_wrapper_repack_buffer_secured(input, MaxCborPayload)} :
    /\ b # <<>>
    /\ \A got \in {nexus_cose_mac0_verify_message(input, b, Zeros)} :
         got.err = "NONE" /\ got.nonce = input.nonce /\ got.payload = input.payload

(* A secured message as received: changed in a byte, cut short, or taken for *)
(* a message of another device, method or resource.                          *)
Sent == [key |-> Key1, nonce |-> 300, method |-> 2, uri |-> <<110, 120>>, payload |-> Filled(5)]
SentBytes == nexus_oc_wrapper_repack_buffer_secured(Sent, MaxCborPayload)
Received ==
  {[bytes |-> [SentBytes EXCEPT ![i] = (@ + d) % 256], ctx |-> Sent] :
     i \in DOMAIN SentBytes, d \in {1, 2, 16, 32, 64, 128, 255}}
  \cup {[bytes |-> SubSeq(SentBytes, 1, n), ctx |-> Sent] : n \in 0 .. Len(SentBytes)}
  \cup {[bytes |-> SentBytes, ctx |-> c] :
           c \in {[Sent EXCEPT !.key = Key2], [Sent EXCEPT !.method = 1], [Sent EXCEPT !.uri = <<110>>]}}

(* Of these only messages that say what the sender said are accepted: the    *)
(* nonce and the payload are the sender's, and so is the device, method and  *)
(* resource they are taken for.                                              *)
AcceptedAsSent ==
  kind = "received" => \A got \in {nexus_cose_mac0_verify_message(input.ctx, input.bytes, Zeros)} :
    got.err = "NONE" => /\ input.ctx = Sent
                        /\ got.nonce = Sent.nonce
                        /\ got.payload = Sent.payload

-----------------------------------------------------------------------------
(* CoAP messages: requests and responses as oc_ri and the engine build them. *)

Segments(n, split) == {s \in UNION {[1 .. k -> {97, split}] : k \in 1 .. n} :
                         /\ s[Len(s)] # split /\ s[1] # split
                         /\ \A i \in 1 .. Len(s) - 1 : ~(s[i] = split /\ s[i + 1] = split)}
Built(type, code, mid, token, path, query, payload) ==
  LET p0 == coap_set_token(coap_udp_init_message(type, code, mid), token)
      p1 == IF path = <<>> THEN p0 ELSE coap_set_header_uri_path(p0, path)
      p2 == IF query = <<>> THEN p1 ELSE coap_set_header_uri_query(p1, query)
      p3 == IF payload = <<>> THEN p2
            ELSE coap_set_payload(coap_set_header_content_format(p2, APPLICATION_VND_OCF_CBOR), payload)
  IN  p3
Request == {Built(1, 2, 258, <<200>>, <<Slash>> \o path, query, payload) :
              path \in Segments(MaxUri, Slash), query \in {<<>>, <<97>>, <<97, Ampersand, 98>>},
              payload \in {<<>>, Filled(1), Filled(MaxCborPayload), Filled(MaxCborPayload + 1)}}
Response == {Built(type, code, 65535, token, <<>>, <<>>, payload) :
               type \in 0 .. 2, code \in {65, 69}, token \in {<<>>, <<0>>, <<255>>},
               payload \in {<<>>, Filled(1), Filled(MaxCborPayload)}}
Empty == {Built(type, 0, 1, <<>>, <<>>, <<>>, <<>>) : type \in {2, 3}}
LongQuery == {Built(1, 1, 0, <<1>>, <<97>>, [i \in 1 .. n |-> 97], <<>>) : n \in {12, 13, 14}}
Packet == Request \cup Response \cup Empty \cup LongQuery

(* What a peer parses from the bytes of a serialized message is the packet   *)
(* that was built: the options it has, path and query with their separators, *)
(* and the payload, whatever the lengths; and a message without a token too, *)
(* whose stray token byte is read as an option of number 0 and no meaning.   *)
CoapRoundTrip ==
  LET stray == IF input.token = <<>> /\ input.code # 0 THEN {0} ELSE {}
  IN  kind = "packet" => \A b \in {coap_serialize_message(input)} \ {<<>>} :
        coap_udp_parse_message(b, Len(b)) =
          Result("NO_ERROR", [input EXCEPT !.version = 1, !.options = @ \cup stray])

(* shared_oc_config.h:107-137: a message with a path of up to 11 characters, *)
(* the content format and a full payload is always serialized, and no        *)
(* message is larger than the 120 bytes of a buffer.                         *)
CoapFits ==
  kind = "packet" => \A b \in {coap_serialize_message(input)} :
    Len(b) <= MaxTotalMessage /\ (input.query = <<>> => b # <<>>)

Bytes == {0, 1, 2, 13, 14, 15, 16, 27, 176, 177, 178, 193, 194, 211, 221, 224, 238, 255}
Datagram == {[bytes |-> <<64 + 16 + length, 2, 0, 7>> \o tail, n |-> 4 + n] :
               length \in 0 .. 2, tail \in [1 .. 3 -> Bytes], n \in 0 .. 3}
            \cup {[bytes |-> <<64, 2, 0, 7, 180, 97, 97>> \o tail, n |-> 9] : tail \in [1 .. 2 -> Bytes]}

(* What is parsed from a datagram that holds its header and token does not   *)
(* depend on what the buffer held after it, although the bytes of an option  *)
(* header are read, and the bit of the option set (coap.c:452), before they  *)
(* are known to be there: the datagram is refused or not, whatever they are, *)
(* and of one that is refused only the bits of options may depend on them,   *)
(* and what a bit set behind the map changes.                                *)
StaleBytesIgnored ==
  LET cut == SubSeq(input.bytes, 1, input.n)
      stale(byte) == coap_udp_parse_message(cut \o <<byte, byte, byte, byte>>, input.n)
      apart(parsed) == IF parsed.status = "NO_ERROR" THEN parsed
                       ELSE [parsed EXCEPT !.p.options = {}, !.p.astray = FALSE]
  IN  (kind = "datagram" /\ input.n >= 4 + (input.bytes[1] % 16)) =>
        \A byte \in Bytes : apart(stale(byte)) = apart(coap_udp_parse_message(input.bytes, input.n))

-----------------------------------------------------------------------------
(* Origin commands and the handshake they start, as the origin issues them:  *)
(* the digits of the body and of the MAC, the body hidden with pseudorandom  *)
(* bytes of the MAC.                                                         *)

ControllerKey == [i \in 1 .. 16 |-> IF i <= 8 THEN 254 ELSE 162]
AccessoryKey == <<196, 184, 64, 72, 207, 4, 36, 162, 93, 197, 233, 211, 240, 103, 64, 54>>

Digits(n, count) == [i \in 1 .. count |-> (n \div 10 ^ (count - i)) % 10]
Issued(type, value, id, bytes) ==
  LET hidden(body, prng) == [i \in DOMAIN body |-> (body[i] + prng[i]) % 10]
      with(auth) == hidden(<<type>> \o Digits(value, BodyDigits(type)),
                           nexus_check_compute_pseudorandom_bytes(ZeroKey, LittleEndian(auth), 8))
                    \o Digits(auth, MacDigits)
  IN  with(auth_arbitrary_bytes(LittleEndian(id) \o <<type>> \o bytes, ControllerKey))

(* A window with these IDs flagged. *)
Flagged(center, below, ids) == [center |-> center, flags |-> {below - (center - id) : id \in ids}]

Orders == {<<CONTROLLER_ACTION, 0, LittleEndian(0)>>, <<CREATE_LINK_MODE_3, 707962, LittleEndian(707962)>>,
           <<ACCESSORY_UNLINK, LastDigit(Accessories[2].device), Accessories[2].authority \o Accessories[2].device>>}
Typed == {[order |-> order, id |-> 40 + offset, used |-> used, w |-> Flagged(40, 31, used),
           digits |-> Issued(order[1], order[2], 40 + offset, order[3])] :
            order \in Orders, offset \in {-32, -31, 0, 8, 9}, used \in {{}, {9, 40}}}
OneOrder == Issued(CREATE_LINK_MODE_3, 707962, 15, LittleEndian(707962))
Mistyped == {[OneOrder EXCEPT ![i] = (@ + d) % 10] : i \in DOMAIN OneOrder, d \in {1, 5}}
            \cup {SubSeq(OneOrder, 1, n) : n \in 0 .. Len(OneOrder) - 1}

InWindow(w, id, below, above) == w.center - below <= id /\ id <= w.center + above

(* The digits the origin issues for a command are accepted as that command,  *)
(* at the ID they were issued for, exactly when the ID is in the window and  *)
(* not flagged yet.                                                          *)
OriginCommandTaken ==
  kind = "typed" => \A got \in {handle_ascii_origin_command(input.digits, input.w, ControllerKey)} :
    IF InWindow(input.w, input.id, 31, 8) /\ input.id \notin input.used
    THEN got = [ok |-> TRUE, id |-> input.id, type |-> input.order[1], value |-> input.order[2]]
    ELSE ~got.ok

(* A command cut short, or with one digit mistyped, is refused. *)
MistypedRefused ==
  kind = "mistyped" => ~handle_ascii_origin_command(input, Flagged(31, 31, {}), ControllerKey).ok

Handshakes == {[index |-> 40 + offset, used |-> used, w |-> Flagged(40, 15, used), salt |-> salt] :
                 offset \in {-16, -15, 0, 8, 9}, used \in {{}, {25, 40}}, salt \in {<<255, 1, 2, 3, 4, 5, 6, 254>>}}

(* The controller's end: the challenge it is told, its POST on the wire.     *)
OnWire(rep) == oc_parse_rep(encode_payload(rep, MaxCborPayload).out, Whole).rep
Client(h) == link_mode_3(challenge_of_index(h.index, AccessoryKey), h.salt)
Posted(server, w, rep) == server_post(server, w, AccessoryKey, OnWire(rep))
FirstPost(client) == Posted(ServerReset, input.w, post_payload(client))

(* From the POST as CBOR the accessory finds the index the origin meant, if  *)
(* it is in its window and unused, both ends hold the same link key, and the *)
(* controller accepts the answer, and the answer to another salt it does not. *)
HandshakeAgrees(client, first) ==
  /\ first.linked <=> (InWindow(input.w, input.index, 15, 8) /\ input.index \notin input.used)
  /\ first.linked =>
       /\ first.key = client.key
       /\ \A answer \in {OnWire(first.answer)} :
            /\ client_post(client, answer)
            /\ ~client_post(Client([input EXCEPT !.salt = [i \in 1 .. 8 |-> i]]), answer)

(* A POST that comes again, or one that carries no challenge and so meets    *)
(* the challenge kept from the last one (nexus_channel_res_link_hs.c:662-713 *)
(* counts the properties, not which they are), makes no second link.         *)
HandshakeOnce(client, first) ==
  LET m == <<cM, "uint", 0>>
  IN  first.linked => \A rep \in {post_payload(client), <<m, m, m>>} : ~Posted(first.server, first.w, rep).linked

HandshakeSound ==
  kind = "handshake" => \A client \in {Client(input)} : \A first \in {FirstPost(client)} :
    HandshakeAgrees(client, first) /\ HandshakeOnce(client, first)

-----------------------------------------------------------------------------
(* Keycodes, as they are issued for the full and the small protocol.         *)

Secret == ControllerKey
Frame(keys, stale) == [keys |-> [i \in 1 .. 30 |-> IF i <= Len(keys) THEN keys[i] ELSE stale], length |-> Len(keys)]

FullIssued(type, id, body) ==
  LET hidden(plain, prng) == [i \in 1 .. 8 |-> (plain[i] + prng[i]) % 10]
      with(check) == hidden(<<type>> \o Digits(id % 64, 2) \o Digits(body, 5),
                            nexus_check_compute_pseudorandom_bytes(ZeroKey, LittleEndian(check), 8))
                     \o Digits(check, 6)
  IN  with(full_compute_check(Message(id, type, body, 0), Secret))
FactoryIssued(type, body) ==
  <<type>> \o (IF type = QC_TEST THEN Digits(body, 5) ELSE <<>>)
  \o Digits(full_compute_check(Message(0, type, body, 0), ZeroKey), 6)

(* 16 bits hidden with the pseudorandom bytes of the check, and the check.   *)
Hidden(bits, check) ==
  LET keys(sent) == [i \in 1 .. 14 |-> 2 * sent[2 * i - 1] + sent[2 * i]]
      with(prng) == keys([i \in 1 .. 16 |-> (bits[i] + prng[i]) % 2] \o push_uint8(check, 12))
  IN  with(Bits(nexus_check_compute_pseudorandom_bytes(ZeroKey, <<check \div 256, check % 256>>, 2)))
SmallIssued(type, id, body, key) ==
  Hidden(push_uint8(id % 64, 6) \o push_uint8(type, 2) \o push_uint8(body, 8),
         small_compute_check(Message(id, type, body, 0), key))
ExtendedIssued(id, body) ==
  Hidden(<<1, 0, 0, 0>> \o push_uint8(id % 4, 2) \o <<0, 1>> \o push_uint8(body, 8),
         upper_check(nexus_check_compute(Secret, LittleEndian(id) \o <<0, body, id % 4>>)))

Issue(protocol, type, id, body, keys) ==
  [protocol |-> protocol, type |-> type, id |-> id, body |-> body, keys |-> keys]
Around(pd) == {pd + offset : offset \in {-24, -23, -1, 0, 1, 40, 41}} \cap Nat
Keycodes100 == {[code |-> c, w |-> Flagged(100, 23, used)] : used \in {{}, {77, 100}}, c \in
     {Issue("full", t, id, b, FullIssued(t, id, b)) : t \in {ADD_CREDIT, SET_CREDIT, DEMO_CODE}, id \in Around(100), b \in {0, 99999}}
     \cup {Issue("full", WIPE_STATE, id, b, FullIssued(WIPE_STATE, id, b)) : id \in Around(100), b \in 0 .. 3}
     \cup {Issue("full", t, -1, b, FactoryIssued(t, b)) : t \in {ALLOW_TEST, DEVICE_ID_DISPLAY}, b \in {0}}
     \cup {Issue("full", QC_TEST, -1, b, FactoryIssued(QC_TEST, b)) : b \in {10, 60}}
     \cup {Issue("small", t, id, b, SmallIssued(t, id, b, Secret)) :
             t \in {SMALL_ADD_CREDIT, SMALL_SET_CREDIT}, id \in Around(100), b \in {0, 90, 255}}
     \cup {Issue("small", SMALL_MAINTENANCE_OR_TEST, -1, b,
                 SmallIssued(SMALL_MAINTENANCE_OR_TEST, 0, b, IF b < 128 THEN FixedFfKey ELSE Secret)) : b \in {0, 1, 128, 130}}
     \cup {Issue("extended", SMALL_PASSTHROUGH, id, b, ExtendedIssued(id, b)) : id \in Around(100), b \in {254}}}

IfFull(m) == IF full_validated(m, Secret) THEN m ELSE Unparsed
IfSmall(m) == IF small_validated(m, Secret) THEN m ELSE Unparsed
Validated(protocol, frame, w) ==
  IF protocol = "full" THEN IfFull(full_parse(frame, w.center)) ELSE IfSmall(small_parse(frame, w, Secret))

(* Another ID the unit may still accept for which the 12 bits of an extended *)
(* keycode's check would be the same.                                        *)
Alike(c, w) ==
  /\ c.protocol = "extended"
  /\ \E id \in {i \in (w.center - 23) .. (w.center + 40) : i # c.id /\ ExtendedWindow!usable(w, i)} :
       ExtendedIssued(id, c.body) = c.keys

(* The keys issued for a keycode are read as that keycode, at the ID they    *)
(* were issued for, exactly when the unit may still accept it: the ID is in  *)
(* the window or there is none, and, since an extended keycode is not told   *)
(* from its duplicate, an extended one is not flagged yet.  An extended      *)
(* keycode whose check also fits another ID may be taken for that one.       *)
KeycodeTaken ==
  LET c == input.code
      usable == /\ c.id = -1 \/ InWindow(input.w, c.id, 23, 40)
                /\ c.protocol = "extended" => ~ExtendedWindow!id_flag_already_set(input.w, c.id)
  IN  (kind = "keycode" /\ ~Alike(input.code, input.w)) =>
        \A got \in {Validated(c.protocol, Frame(c.keys, 0), input.w)} :
          IF usable THEN /\ got.ok /\ got.type = c.type /\ got.body = c.body
                         /\ got.id = IF c.id = -1 THEN 0 ELSE c.id
          ELSE ~got.ok

Changed(keys, values) == ({[keys EXCEPT ![i] = v] : i \in DOMAIN keys, v \in values} \ {keys})
                         \cup {SubSeq(keys, 1, n) : n \in 0 .. Len(keys) - 1} \cup {Append(keys, 0)}
Mistakes == {<<"full", k>> : k \in Changed(FullIssued(SET_CREDIT, 100, 168), 0 .. 9) \cup
                               {k \in Changed(FactoryIssued(QC_TEST, 10), 0 .. 6) : Len(k) = 12 => SubSeq(k, 2, 4) = <<0, 0, 0>>}}
            \cup {<<"small", k>> : k \in Changed(SmallIssued(SMALL_SET_CREDIT, 100, 6, Secret), 0 .. 4)
                                          \cup Changed(ExtendedIssued(100, 6), 0 .. 4)}

(* A keycode with one key wrong, missing at the end or too many is refused:  *)
(* except for the reserved digits of a QC test, which are skipped and not    *)
(* part of what is checked.                                                  *)
MistypedKeycodeRefused ==
  kind = "mistake" => ~Validated(input[1], Frame(input[2], 0), Flagged(100, 23, {})).ok

Entry == {<<type>> \o [i \in 1 .. n |-> digit] : type \in 0 .. 9, n \in 0 .. 13, digit \in {0, 7}} \cup {<<>>}

(* What is read from a frame of any length depends on its keys only, never   *)
(* on what the rest of the buffer held: although the body of a QC test is    *)
(* pulled without asking whether it was typed (nexus_keycode_pro.c:1241).    *)
FrameAloneRead ==
  kind = "entry" => \A stale \in {3, 9} : full_parse(Frame(input, stale), 100) = full_parse(Frame(input, 0), 100)

(* The days of credit on offer, for SET and for ADD CREDIT. *)
SetDays == {d \in 1 .. 960 : \/ d <= 90 \/ (d <= 180 /\ d % 2 = 0) \/ (d <= 360 /\ d % 4 = 0)
                             \/ (d <= 720 /\ d % 8 = 0) \/ d % 16 = 0}
AddDays == {d \in 1 .. 405 : d <= 180 \/ d % 3 = 0}
Rank(d, days) == Cardinality({e \in days : e < d})

(* A keycode for any number of days on offer, numbered in increasing order,  *)
(* gives that number of days, and locking and unlocking are no number of     *)
(* days.                                                                     *)
DaysAsIssued ==
  kind = "days" =>
    /\ input \in SetDays => small_get_set_credit_increment_days(Rank(input, SetDays)) = input
    /\ input \in AddDays => small_get_add_credit_increment_days(Rank(input, AddDays)) = input
    /\ input = 0 => /\ small_get_set_credit_increment_days(254) = 0
                    /\ small_get_set_credit_increment_days(255) = UnlockIncrement
                    /\ small_get_add_credit_increment_days(255) = UnlockIncrement

-----------------------------------------------------------------------------
(* Nonvolatile blocks. *)

(* The remainder of the division by x^16 + x^12 + x^5 + 1, bit by bit.       *)
DividedBit(crc, bit) ==
  IF crc \div 32768 = bit THEN (crc * 2) % 65536 ELSE LimbXor((crc * 2) % 65536, 4129)
DividedByte(crc, byte) ==
  FoldLeft(DividedBit, crc, [i \in 1 .. 8 |-> (byte \div 2 ^ (8 - i)) % 2])

Data == {<<a, b, b, c>> : a, b \in {0, 255}, c \in {0, 6, 255}}
Damage(block) == {[block EXCEPT ![i] = (@ + d[1]) % 256, ![i + 1] = (@ + d[2]) % 256] :
                    i \in 1 .. Len(block) - 1, d \in {<<0, 1>>, <<1, 255>>, <<128, 128>>}}
OldBlock(id, d) == {new_block(id, d), new_block(id + 1, d), [i \in 1 .. 8 |-> 255], [i \in 1 .. 8 |-> 0]}
Stored == {[id |-> id, data |-> e, readable |-> r, writable |-> w, block |-> b] :
             id \in {0, 1}, e \in Data, r \in BOOLEAN, w \in BOOLEAN,
             b \in OldBlock(0, <<6, 0, 0, 0>>) \cup OldBlock(1, <<0, 0, 0, 0>>)}

(* The table-free CRC of crc_ccitt.c is the CRC-CCITT of the bytes.          *)
CrcIsCcitt == kind = "stored" =>
  compute_crc_ccitt(input.data) = FoldLeft(DividedByte, 65535, input.data)

(* Data whose update is reported as done are what a later read returns, and  *)
(* after an update that failed the read returns what it did before; except   *)
(* that an invalid block which happens to hold the same data is left as it   *)
(* is, and goes on being refused.                                            *)
UpdateReadsBack ==
  LET kept == ~nv_block_valid(input.id, input.block) /\ input.readable
              /\ Inner(input.block) = input.data
  IN  kind = "stored" => \A up \in {nexus_nv_update(input.id, input.data, input)} :
        IF up.ok THEN nexus_nv_read(input.id, [input EXCEPT !.block = up.block, !.readable = TRUE])
                        = IF kept THEN [ok |-> FALSE, data |-> <<>>] ELSE [ok |-> TRUE, data |-> input.data]
        ELSE up.block = input.block

(* A block of another ID, one with two adjacent bytes damaged, one that was  *)
(* cut off while it was written over the old one, and one that could not be  *)
(* read are never taken for the data of the module.                          *)
DamageDetected ==
  kind = "stored" =>
    /\ ~nexus_nv_read(input.id, [input EXCEPT !.readable = FALSE]).ok
    /\ \A b \in {new_block(input.id, input.data)} :
         /\ \A x \in Damage(b) : ~nv_block_valid(input.id, x)
         /\ \A n \in 0 .. Len(b) : \A torn \in {SubSeq(b, 1, n) \o SubSeq(input.block, n + 1, Len(b))} :
              nv_block_valid(input.id, torn) => torn \in {b, input.block}

-----------------------------------------------------------------------------
(* Strings and arrays that are allocated and freed in any order.  An         *)
(* operation a handle is not in the state for does nothing, so the cases     *)
(* include the shorter ones.                                                 *)

Handles == {"a", "b", "c"}
Elements == 5
Op == {<<"new", m, n>> : m \in Handles, n \in {1, 2}} \cup {<<"free", m>> : m \in Handles}
Ops == [width : {1, 8}, ops : [1 .. 5 -> Op]]

(* A handle is allocated when it is free and freed when it is not.  held is  *)
(* what was written for each handle, lifo whether each block that was freed  *)
(* was the last of the pool.                                                 *)
Do(s, op) ==
  LET m == op[2]
      live == s.held[m] # <<>>
      values == [i \in 1 .. op[3] |-> 10 * s.step + i]
  IN  IF s.heap.crashed THEN s
      ELSE IF op[1] = "new" /\ ~live
      THEN [s EXCEPT !.step = @ + 1, !.heap = oc_new_array(@, m, values), !.held[m] = values]
      ELSE IF op[1] = "free" /\ live
      THEN [s EXCEPT !.heap = oc_free(@, m), !.held[m] = <<>>, !.lifo = @ /\ Behind(s.heap.list, m) = {}]
      ELSE s
Done(w) ==
  FoldLeft(Do, [heap |-> oc_mmem_init(Handles, Elements, w.width), held |-> [m \in Handles |-> <<>>],
                lifo |-> TRUE, step |-> 1], w.ops)

(* Every string shows what was last written to it, whatever was freed before *)
(* and after it.  Of arrays of integers this is so as long as they are freed *)
(* last first: oc_mmem.c:199-216 moves an eighth of the bytes there are, and *)
(* each pointer by an eighth of the way.                                     *)
ContentsKept == kind = "heap" =>
  LET s == Done(input) IN
    (s.heap.width = 1 \/ s.lifo) /\ ~s.heap.crashed => \A m \in Handles : oc_array(s.heap, m) = s.held[m]

(* Nothing is written through NULL unless the blocks held and the new one    *)
(* need more than the pool has: freed elements can all be used again.        *)
PoolReused == kind = "heap" =>
  LET s == Done(input) IN
    s.heap.crashed <=> FoldLeft(LAMBDA n, m : n + Len(s.held[m]), 0, SetToSeq(Handles)) > Elements

-----------------------------------------------------------------------------
(* What each format promises to those who use it.                            *)

(* CBOR: what is written is read back, a key is found where it is, and bytes *)
(* that are cut off, do not fit or are no CBOR are noticed without a step    *)
(* outside them.                                                             *)
CborFaithful ==
  CborRoundTrip /\ MapFindsFirst /\ TruncationDetected /\ OverflowReported /\ WalkInBounds

(* Representations: all properties of a payload when there is room for them, *)
(* an error when there are too few nodes, no property with the name or value *)
(* of another however little room there is, and all room given back.         *)
RepFaithful == RepRoundTrip /\ RepPoolExhausted /\ RepAsWritten /\ RepGivenBack

(* CoAP: a message arrives as it was built, fits its buffer, and owes        *)
(* nothing to the message that was in the buffer before.                     *)
CoapFaithful == CoapRoundTrip /\ CoapFits /\ StaleBytesIgnored

(* Handshakes and secured messages: both ends come to one key, once, and     *)
(* under it only what the other end sent is accepted.                        *)
SecuredFaithful == SecuredRoundTrip /\ AcceptedAsSent /\ HandshakeSound

(* NV blocks: what is read is what was written last, or nothing.             *)
BlocksFaithful == CrcIsCcitt /\ UpdateReadsBack /\ DamageDetected

(* Managed memory: strings keep their contents and freed room is used again. *)
MemoryKept == ContentsKept /\ PoolReused

(* Keycodes and origin commands: the keys issued are read as what they were  *)
(* issued for, mistyped ones are refused, and nothing but the keys matters.  *)
KeysReadAsIssued ==
  /\ KeycodeTaken /\ MistypedKeycodeRefused /\ FrameAloneRead /\ DaysAsIssued
  /\ OriginCommandTaken /\ MistypedRefused

-----------------------------------------------------------------------------
(* A behaviour starts with the kind of its case and picks the case.          *)
Kinds == {"item", "payload", "rep", "plain", "received", "packet", "datagram", "typed", "mistyped",
          "handshake", "stored", "heap", "keycode", "mistake", "entry", "days"}

Init == kind = "none" /\ input \in Kinds

Pick(k, cases) == kind = "none" /\ input = k /\ kind' = k /\ input' \in cases

PickItem == Pick("item", Item)
PickPayload == Pick("payload", Payload)
PickRep == Pick("rep", Rep)
PickPlain == Pick("plain", Plain)
PickReceived == Pick("received", Received)
PickPacket == Pick("packet", Packet)
PickDatagram == Pick("datagram", Datagram)
PickTyped == Pick("typed", Typed)
PickMistyped == Pick("mistyped", Mistyped)
PickHandshake == Pick("handshake", Handshakes)
PickStored == Pick("stored", Stored)
PickHeap == Pick("heap", Ops)
PickKeycode == Pick("keycode", Keycodes100)
PickMistake == Pick("mistake", Mistakes)
PickEntry == Pick("entry", Entry)
PickDays == Pick("days", {0} \cup SetDays \cup AddDays)

Next == PickPacket \/ PickDatagram \/ PickItem \/ PickPayload \/ PickRep \/ PickPlain \/ PickReceived
        \/ PickTyped \/ PickMistyped \/ PickHandshake \/ PickStored \/ PickHeap
        \/ PickKeycode \/ PickMistake \/ PickEntry \/ PickDays

Spec == Init /\ [][Next]_vars
=============================================================================
