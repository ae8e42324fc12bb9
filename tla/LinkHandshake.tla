--------------------------- MODULE LinkHandshake ---------------------------
(* What the two ends of a link handshake compute and send                    *)
(* (nexus_channel_res_link_hs.c): the link key derived from the origin's     *)
(* challenge and the controller's salt, the POST that carries the salt with  *)
(* its MAC, the accessory's search for the handshake index, and its answer.  *)
(* When they send and what they keep is in LinkSetup.                        *)
EXTENDS OcRep, OriginCommand

HsWindow == INSTANCE ReceiveWindow WITH Below <- 15, Above <- 8

SaltLength == 8
MacLength == 8

(* Names of properties, compared in their first two characters. *)
cD == <<99, 68>>
cM == <<99, 77>>
lS == <<108, 83>>
rD == <<114, 68>>
Named(node, name) == SubSeq(node[1], 1, 2) = name

NEXUS_CHANNEL_PUBLIC_KEY_DERIVATION_KEY_1 ==
  <<138, 94, 226, 180, 160, 207, 244, 147, 229, 237, 162, 209, 228, 196, 91, 37>>
NEXUS_CHANNEL_PUBLIC_KEY_DERIVATION_KEY_2 ==
  <<226, 111, 219, 52, 228, 221, 64, 188, 99, 53, 198, 9, 170, 223, 170, 196>>

DerivedKey(material) == nexus_check_compute(NEXUS_CHANNEL_PUBLIC_KEY_DERIVATION_KEY_1, material)
                        \o nexus_check_compute(NEXUS_CHANNEL_PUBLIC_KEY_DERIVATION_KEY_2, material)

generate_link_key(challenge, salt) == DerivedKey(salt \o LittleEndian(challenge))

mode0_compute_inverted_salt_mac(salt, key) ==
  nexus_check_compute(key, [i \in 1 .. SaltLength |-> 255 - salt[i]])

-----------------------------------------------------------------------------
(* Controller. *)

(* nexus_channel_res_link_hs_link_mode_3 and the payload of its POST. *)
ClientWith(key, salt) == [salt |-> salt, key |-> key, chal_data |-> salt \o nexus_check_compute(key, salt)]

link_mode_3(challenge, salt) == ClientWith(generate_link_key(challenge, salt), salt)

post_payload(client) == << <<cD, "bytes", client.chal_data>>, <<cM, "uint", 0>>, <<lS, "uint", 0>> >>

(* nexus_channel_res_link_hs_client_post: the properties in turn, a wrong    *)
(* one ends the search.                                                      *)
Answers(client, node) ==
  /\ node[2] = "bytes"
  /\ Len(node[3]) % 256 = MacLength
  /\ node[3] = mode0_compute_inverted_salt_mac(client.salt, client.key)

client_post(client, rep) ==
  LET first == SelectInSeq(rep, LAMBDA node : Named(node, rD))
  IN  first # 0 /\ Answers(client, rep[first])

-----------------------------------------------------------------------------
(* Accessory.  server is what the accessory keeps of the POSTs it had.       *)

ServerReset == [chal_data |-> [i \in 1 .. SaltLength + MacLength |-> 0], mode |-> 0, security |-> 0]

(* A property of the payload: the server it leaves and whether it is valid.  *)
parse_property(server, node) ==
  CASE node[2] = "bytes" ->
         [server |-> IF Named(node, cD) /\ Len(node[3]) % 256 = SaltLength + MacLength
                     THEN [server EXCEPT !.chal_data = node[3]] ELSE server,
          valid |-> Named(node, cD) /\ Len(node[3]) % 256 = SaltLength + MacLength]
    [] node[2] = "int" ->
         [server |-> server, valid |-> (Named(node, cM) \/ Named(node, lS)) /\ node[3] % 256 = 0]
    [] OTHER -> [server |-> server, valid |-> FALSE]

(* _nexus_channel_res_link_hs_server_post_parse_payload stops at the first   *)
(* property that is not valid, and counts the valid ones, whichever they are. *)
post_parse_payload(server, rep) ==
  LET step(s, node) == IF s.valid THEN parse_property(s.server, node) ELSE s
      counted(end) == [end EXCEPT !.valid = @ /\ Len(rep) = 3]
  IN  counted(FoldLeft(step, [server |-> server, valid |-> rep # <<>>], rep))

challenge_of_index(i, origin_key) == six_int_digits(nexus_check_compute(origin_key, LittleEndian(i)))

(* Whether the key of index i gives the MAC received. *)
MacOfIndex(i, salt, origin_key) ==
  nexus_check_compute(generate_link_key(challenge_of_index(i, origin_key), salt), salt)
key_fits(i, chal_data, origin_key) ==
  MacOfIndex(i, SubSeq(chal_data, 1, SaltLength), origin_key)
    = SubSeq(chal_data, SaltLength + 1, SaltLength + MacLength)

(* The first index of the window that is not flagged and whose key fits. *)
validate_challenge(chal_data, w, origin_key) ==
  FirstFit({i \in (w.center - 15) .. (w.center + 8) :
              ~HsWindow!id_flag_already_set(w, i) /\ key_fits(i, chal_data, origin_key)})

(* nexus_channel_res_link_hs_server_post, the link being created: the state  *)
(* kept, the window, the link key and the payload of the answer.             *)
PostRefused(w) == [linked |-> FALSE, server |-> ServerReset, w |-> w]

PostAnswered(server, w, salt, key) ==
  [linked |-> TRUE, server |-> server, w |-> w, key |-> key,
   answer |-> << <<rD, "bytes", mode0_compute_inverted_salt_mac(salt, key)>> >>]

PostMeets(server, w, origin_key, index, salt) ==
  IF index = -1 THEN PostRefused(w)
  ELSE PostAnswered(server, HsWindow!set_id_flag(w, index), salt,
                    generate_link_key(challenge_of_index(index, origin_key), salt))

PostParsed(parsed, w, origin_key) ==
  IF ~parsed.valid THEN PostRefused(w)
  ELSE PostMeets(parsed.server, w, origin_key, validate_challenge(parsed.server.chal_data, w, origin_key),
                 SubSeq(parsed.server.chal_data, 1, SaltLength))

server_post(server, w, origin_key, rep) == PostParsed(post_parse_payload(server, rep), w, origin_key)
=============================================================================
