------------------------------- MODULE OcRep -------------------------------
(* The representation layer (oc_rep.c, oc_rep.h): payload maps written with  *)
(* the oc_rep_set_* macros and read back by oc_parse_rep into a list of      *)
(* nodes, strings and arrays taken from fixed pools.                         *)
(*                                                                           *)
(* A node is <<name, type, value>>; an object is a sequence of nodes and an  *)
(* object array a sequence of objects, each with a node of its own.          *)
EXTENDS Cbor

STRING_ARRAY_ITEM_MAX_LEN == 32

Null == <<>>

(* A string for which the pool had no room: NULL, and no bytes of it. *)
Lost == <<-1>>

-----------------------------------------------------------------------------
(* Encoding. *)

oc_rep_begin_root_object(e) == cbor_encoder_create_map(e, Indefinite)

oc_rep_set_int(map, key, n) == cbor_encode_int(cbor_encode_text_string(map, key), n)

oc_rep_set_uint(map, key, n) == cbor_encode_uint(cbor_encode_text_string(map, key), n)

oc_rep_set_boolean(map, key, b) == cbor_encode_boolean(cbor_encode_text_string(map, key), b)

oc_rep_set_text_string(map, key, s) ==
  cbor_encode_text_string(cbor_encode_text_string(map, key), s)

oc_rep_set_byte_string(map, key, s) ==
  cbor_encode_byte_string(cbor_encode_text_string(map, key), s)

int_array(parent, ns) ==
  cbor_encoder_close_container(parent,
    FoldLeft(cbor_encode_int, cbor_encoder_create_array(parent, Len(ns)), ns))

oc_rep_set_int_array(map, key, ns) == int_array(cbor_encode_text_string(map, key), ns)

(* Empty items of the array are left out. *)
string_array(parent, items) ==
  cbor_encoder_close_container(parent,
    FoldLeft(cbor_encode_text_string, cbor_encoder_create_array(parent, Indefinite),
             SelectSeq(items, LAMBDA s : s # <<>>)))

oc_rep_set_string_array(map, key, items) == string_array(cbor_encode_text_string(map, key), items)

(* oc_rep_open_object .. oc_rep_close_object; and an array of objects with   *)
(* oc_rep_object_array_begin_item .. oc_rep_object_array_end_item.           *)
RECURSIVE set_property(_, _), set_object(_, _)
set_object(parent, rep) ==
  cbor_encoder_close_container(parent,
    FoldLeft(set_property, cbor_encoder_create_map(parent, Indefinite), rep))

object_array(parent, reps) ==
  cbor_encoder_close_container(parent,
    FoldLeft(set_object, cbor_encoder_create_array(parent, Indefinite), reps))

set_property(map, node) ==
  CASE node[2] = "int" -> oc_rep_set_int(map, node[1], node[3])
    [] node[2] = "uint" -> oc_rep_set_uint(map, node[1], node[3])
    [] node[2] = "bool" -> oc_rep_set_boolean(map, node[1], node[3])
    [] node[2] = "text" -> oc_rep_set_text_string(map, node[1], node[3])
    [] node[2] = "bytes" -> oc_rep_set_byte_string(map, node[1], node[3])
    [] node[2] = "ints" -> oc_rep_set_int_array(map, node[1], node[3])
    [] node[2] = "texts" -> oc_rep_set_string_array(map, node[1], node[3])
    [] node[2] = "object" -> set_object(cbor_encode_text_string(map, node[1]), node[3])
    [] node[2] = "objects" -> object_array(cbor_encode_text_string(map, node[1]), node[3])

oc_rep_end_root_object(e, map) == cbor_encoder_close_container(e, map)

(* A handler's use of the macros, and oc_rep_get_encoded_payload_size. *)
encode_payload(rep, size) ==
  LET e == cbor_encoder_init(size)
  IN  oc_rep_end_root_object(e, FoldLeft(set_property, oc_rep_begin_root_object(e), rep))

oc_rep_get_encoded_payload_size(e) == IF e.err # {} THEN -1 ELSE Len(e.out)

-----------------------------------------------------------------------------
(* Parsing.  A parse in progress: the iterator, the nodes, bytes and         *)
(* integers left in the pools, the error codes so far, whether nodes are no  *)
(* longer linked to the result, and whether something was stored through     *)
(* NULL or outside the block of an array, after which nothing is said.       *)

TypeBits == [int |-> {1}, bool |-> {1, 2}, bytes |-> {4}, text |-> {1, 4}, object |-> {2, 4}, nil |-> {}]

TypeOf(mark) == IF mark = "map" THEN "object" ELSE mark

(* Faulty variant: one node more than the pool has. *)
alloc_fails_Off(p) == p.nodes < 0

(* oc_alloc_rep *)
alloc_fails(p) == p.nodes = 0

Adds(err, it) == IF it.err = "None" THEN err ELSE err \cup {it.err}

(* oc_alloc_string and the copy: the string as it is stored.  Without room   *)
(* the copy goes to NULL, which cbor_value_copy_*_string takes for a request *)
(* to copy nothing: no error is reported.                                    *)
oc_alloc_string(p, text) == IF Len(text) + 1 > p.bytes THEN Lost ELSE text

StringSize(stored) == IF stored = Lost THEN 0 ELSE Len(stored) + 1

(* The bytes between the items of an array. *)
Width(type) == CASE type = "int" -> 8 [] type = "bool" -> 1 [] OTHER -> STRING_ARRAY_ITEM_MAX_LEN

(* oc_new_int_array and its kin, for the first item.  Whether there was room *)
(* is not looked at before the first store.                                  *)
oc_new_array_of(p, type, length) ==
  LET pool == IF type = "int" THEN "ints" ELSE "bytes"
      size == IF type = "int" THEN length ELSE length * Width(type)
  IN  IF type = "object" THEN p
      ELSE IF size > p[pool] THEN [p EXCEPT !.crashed = TRUE]
      ELSE [p EXCEPT ![pool] = @ - size]

(* Whether item k is stored outside the block of an array.                   *)
Strays(k, item, type, length) ==
  item # "object" /\ (type = "object" \/ k * Width(item) > length * Width(type))

(* The item at the iterator as an element of an array of strings. *)
string_item(b, it) ==
  LET item(s) == [text |-> s.text, err |-> Adds({}, s.it)]
  IN  item(copy_string(b, it, IF it.type = "text" THEN STRING_ARRAY_ITEM_MAX_LEN
                              ELSE STRING_ARRAY_ITEM_MAX_LEN - 1))

(* The parse moved to an iterator, with the error code that came with it. *)
At(p, it) == [p EXCEPT !.it = it, !.err = Adds(@, it)]

RECURSIVE oc_parse_rep_value(_, _), after_key(_, _, _), node_of_value(_, _, _)
RECURSIVE parse_object(_, _, _, _), after_property(_, _, _, _), count_items(_, _, _, _)
RECURSIVE array_item(_, _), parse_array(_, _, _, _, _), after_item(_, _, _, _, _), to_value(_, _, _)

(* Past the key and any tags: next is the iterator after the key or a tag. *)
to_value(b, next, err) ==
  IF next.type = "tag" THEN to_value(b, cbor_value_advance(b, next), Adds(err, next))
  ELSE [it |-> next, err |-> Adds(err, next)]

(* The loop over the properties of a map: p.it is inside it.  The rep it     *)
(* leaves says whether the loop came to its end.  A property that is an      *)
(* object has the NULL node dereferenced when the pool is empty, an item of  *)
(* an object array has not.                                                  *)
parse_object(b, p, rep, dereferenced) ==
  IF cbor_value_at_end(p.it) THEN [p EXCEPT !.rep = <<TRUE, rep>>]
  ELSE after_property(b, oc_parse_rep_value(b, p), rep, dereferenced)

after_property(b, one, rep, dereferenced) ==
  IF one.crashed THEN one
  ELSE IF one.rep = Null THEN [one EXCEPT !.crashed = dereferenced, !.rep = <<FALSE, rep>>]
  ELSE IF one.err # {} THEN [one EXCEPT !.rep = <<FALSE, Append(rep, @)>>]
  ELSE parse_object(b, At(one, cbor_value_advance(b, one.it)), Append(rep, one.rep), dereferenced)

(* An item of an array, none for a type that is passed over, and the error   *)
(* codes of reading it; an object takes a node and more, another item none.  *)
array_item(b, p) ==
  LET read(item, code) == [p EXCEPT !.rep = <<item>>, !.err = @ \cup code]
      string(s) == read(s.text, s.err)
      object(o) == [o EXCEPT !.it = p.it, !.rep = <<o.rep[2]>>]
  IN  CASE p.it.type = "int" -> read(cbor_value_get_int64(b, p.it), {})
        [] p.it.type = "bool" -> read(p.it.extra # 0, {})
        [] p.it.type \in {"bytes", "text"} -> string(string_item(b, p.it))
        [] p.it.type = "map" ->
             object(parse_object(b, [At(p, cbor_value_enter_container(b, p.it)) EXCEPT !.nodes = @ - 1], <<>>, FALSE))
        [] OTHER -> [p EXCEPT !.rep = <<>>]

(* The loop over the items of an array of some length: type is cur->type,    *)
(* set by the first.  An item whose type has no bit that type lacks is let   *)
(* through, and a tag counts as an item, so one may be stored astray.        *)
parse_array(b, p, length, type, items) ==
  LET t == TypeOf(p.it.type)
      known == t \in DOMAIN TypeBits \ {"nil"}
      held == IF items = <<>> /\ known THEN t ELSE type
      ends(code) == [p EXCEPT !.err = code, !.rep = <<held, items>>]
  IN  IF cbor_value_at_end(p.it) THEN [p EXCEPT !.rep = <<type, items>>]
      ELSE IF known /\ ~(TypeBits[t] \subseteq TypeBits[held]) THEN ends(p.err \cup {"IllegalType"})
      ELSE IF t = "object" /\ alloc_fails(p) THEN ends({"OutOfMemory"})
      ELSE IF known /\ items # <<>> /\ Strays(Len(items) + 1, t, type, length) THEN [p EXCEPT !.crashed = TRUE]
      ELSE after_item(b, array_item(b, IF known /\ items = <<>> THEN oc_new_array_of(p, t, length) ELSE p),
                      length, held, items)

after_item(b, q, length, type, items) ==
  IF q.crashed THEN q
  ELSE IF q.err # {} THEN [q EXCEPT !.rep = <<type, Append(items, @)>>]
  ELSE parse_array(b, At(q, cbor_value_advance(b, q.it)), length, type, Append(items, q.rep))

(* The length of an array that does not give it: a walk over its items.      *)
count_items(b, t, err, n) ==
  IF cbor_value_at_end(t) THEN [length |-> n, err |-> err, ended |-> TRUE]
  ELSE IF err # {} THEN [length |-> n, err |-> err, ended |-> FALSE]
  ELSE LET next == cbor_value_advance(b, t) IN count_items(b, next, Adds({}, next), n + 1)

array_length(b, it, p) ==
  IF ~it.unknown /\ raw_integer(b, it) # 0 THEN [length |-> raw_integer(b, it), err |-> p.err, ended |-> TRUE]
  ELSE count_items(b, p.it, p.err, 0)

ArrayType(type) ==
  CASE type = "int" -> "ints" [] type = "bool" -> "bools" [] type = "bytes" -> "byteses"
    [] type = "text" -> "texts" [] type = "object" -> "objects" [] OTHER -> "nil"

(* The items of an array as its length shows them, the ones not read blank.  *)
Shown(type, items, length) ==
  LET blank == CASE type = "int" -> 0 [] type = "bool" -> FALSE [] OTHER -> <<>>
  IN  IF type \in {"object", "nil"} THEN FlattenSeq(items)
      ELSE [i \in 1 .. length |-> IF i \in DOMAIN items /\ items[i] # <<>> THEN items[i][1] ELSE blank]

(* The value at the iterator of q, under the name already read.  An object   *)
(* cut off by an error has no type yet, so its properties are not freed.     *)
node_of_value(b, q, name) ==
  LET node(r, type, value) == [r EXCEPT !.it = q.it, !.rep = <<name, type, value>>]
      stored(text) == node([q EXCEPT !.bytes = @ - StringSize(text)], q.it.type, text)
      string(all) == IF Adds(q.err, all.it) # {} THEN node([q EXCEPT !.err = Adds(@, all.it)], "nil", 0)
                     ELSE stored(oc_alloc_string(q, all.text))
      object(p) == IF p.crashed THEN p
                   ELSE IF p.rep[1] THEN node(p, "object", p.rep[2])
                   ELSE node([p EXCEPT !.leaked = @ \/ p.rep[2] # <<>>], "nil", 0)
      array(p, length) == IF p.crashed THEN p
                          ELSE node(p, ArrayType(p.rep[1]), Shown(p.rep[1], p.rep[2], length))
      counted(p, n) == IF n.ended THEN array(parse_array(b, [p EXCEPT !.err = n.err], n.length, "nil", <<>>), n.length)
                       ELSE node([p EXCEPT !.err = n.err], "nil", 0)
      entered == At(q, cbor_value_enter_container(b, q.it))
  IN  CASE q.it.type = "int" -> node(q, "int", cbor_value_get_int64(b, q.it))
        [] q.it.type = "bool" -> node(q, "bool", q.it.extra # 0)
        [] q.it.type \in {"bytes", "text"} -> string(iterate_string_chunks(b, q.it, <<>>))
        [] q.it.type = "map" -> object(parse_object(b, entered, <<>>, TRUE))
        [] q.it.type = "array" -> counted(entered, array_length(b, q.it, entered))
        [] q.it.type = "invalid" -> node([q EXCEPT !.err = @ \cup {"IllegalType"}], "nil", 0)
        [] OTHER -> node(q, "nil", 0)

Nameless(p) == [p EXCEPT !.nodes = @ - 1, !.rep = <<Lost, "nil", 0>>]

(* p.it is at the key, which was read as key. *)
after_key(b, p, key) ==
  LET name == oc_alloc_string(p, key.text)
      named(at) == [p EXCEPT !.it = at.it, !.err = at.err, !.nodes = @ - 1, !.bytes = @ - StringSize(name)]
  IN  IF Adds(p.err, key.it) # {} THEN Nameless([p EXCEPT !.err = Adds(@, key.it)])
      ELSE node_of_value(b, named(to_value(b, cbor_value_advance(b, p.it), {})), name)

(* p.rep is the node parsed, Null when the pool had none to give. *)
oc_parse_rep_value(b, p) ==
  IF alloc_fails(p) THEN [p EXCEPT !.err = {"OutOfMemory"}, !.rep = Null]
  ELSE IF p.it.type # "text" THEN Nameless([p EXCEPT !.err = {"IllegalType"}])
  ELSE after_key(b, p, iterate_string_chunks(b, p.it, <<>>))

(* room is what the pools have. *)
Parse(it, room) ==
  [it |-> it, nodes |-> room.nodes, bytes |-> room.bytes, ints |-> room.ints, err |-> Adds({}, it),
   rep |-> Null, leaked |-> FALSE, crashed |-> FALSE]

(* The root map's loop ends on an invalid type, where an object's loop ends  *)
(* on its item count; a root NULL node ends the parse.                       *)
RECURSIVE parse_root(_, _, _), after_root_property(_, _, _)
parse_root(b, p, rep) ==
  IF p.it.type = "invalid" THEN [p EXCEPT !.rep = rep]
  ELSE after_root_property(b, oc_parse_rep_value(b, p), rep)

after_root_property(b, one, rep) ==
  IF one.crashed THEN one
  ELSE IF one.err # {} THEN [one EXCEPT !.rep = IF @ = Null THEN rep ELSE Append(rep, @)]
  ELSE parse_root(b, At(one, cbor_value_advance(b, one.it)), Append(rep, one.rep))

(* The objects of a root array, each under a node of its own. *)
RECURSIVE parse_root_array(_, _, _), after_root_object(_, _, _, _)
parse_root_array(b, p, reps) ==
  IF p.it.type = "invalid" THEN [p EXCEPT !.rep = reps]
  ELSE IF alloc_fails(p) THEN [p EXCEPT !.err = {"OutOfMemory"}, !.rep = reps]
  ELSE after_root_object(b, p.it, reps, parse_root(b,
         [At(p, cbor_value_enter_container(b, p.it)) EXCEPT !.nodes = @ - 1], <<>>))

after_root_object(b, it, reps, one) ==
  LET all == Append(reps, <<Lost, "object", one.rep>>)
  IN  IF one.crashed THEN one
      ELSE IF one.err # {} THEN [one EXCEPT !.rep = all]
      ELSE parse_root_array(b, At(one, cbor_value_advance(b, it)), all)

(* p is at the root. *)
parse_from(b, p) ==
  IF p.it.type = "map" THEN parse_root(b, At(p, cbor_value_enter_container(b, p.it)), <<>>)
  ELSE IF p.it.type = "array" THEN parse_root_array(b, At(p, cbor_value_enter_container(b, p.it)), <<>>)
  ELSE [p EXCEPT !.rep = <<>>]

oc_parse_rep(b, room) == parse_from(b, Parse(cbor_parser_init(b), room))

(* What oc_free_rep gives back to the pools: for each node itself and its    *)
(* name, and by its type its string, its array or the nodes below it, one    *)
(* for each object of an array.                                              *)
Room(nodes, bytes, ints) == [nodes |-> nodes, bytes |-> bytes, ints |-> ints]
Together(x, y) == Room(x.nodes + y.nodes, x.bytes + y.bytes, x.ints + y.ints)

RECURSIVE oc_free_rep(_)
oc_free_rep(rep) ==
  LET value(node) ==
        CASE node[2] = "object" -> oc_free_rep(node[3])
          [] node[2] = "objects" ->
               FoldLeft(LAMBDA sum, o : Together(sum, Together(Room(1, 0, 0), oc_free_rep(o))), Room(0, 0, 0), node[3])
          [] node[2] \in {"text", "bytes"} -> Room(0, StringSize(node[3]), 0)
          [] node[2] = "ints" -> Room(0, 0, Len(node[3]))
          [] node[2] = "bools" -> Room(0, Len(node[3]), 0)
          [] node[2] \in {"texts", "byteses"} -> Room(0, Len(node[3]) * STRING_ARRAY_ITEM_MAX_LEN, 0)
          [] OTHER -> Room(0, 0, 0)
  IN  FoldLeft(LAMBDA sum, node : Together(sum, Together(Room(1, StringSize(node[1]), 0), value(node))), Room(0, 0, 0), rep)
=============================================================================
