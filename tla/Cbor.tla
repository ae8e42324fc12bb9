-------------------------------- MODULE Cbor --------------------------------
(* TinyCBOR as Nexus Channel links it: the encoder of cborencoder.c and the  *)
(* iterator of cborparser.c.  A buffer is a sequence of bytes, a pointer an  *)
(* index into it, and a call returns the encoder or iterator it leaves, with *)
(* the error code it returned in the field err.                              *)
EXTENDS Integers, Sequences, SequencesExt

(* A number of 2^24 or more is only told apart by the width it needs: up to  *)
(* 31 bits, 32 bits, or UINT32_MAX and more.                                 *)
Wide31 == 2^24
Wide32 == 2^25
Wide64 == 2^26

(* remaining = UINT32_MAX, and CborIndefiniteLength. *)
Indefinite == -1

MaxRecursions == 1024
BreakByte == 255

(* get8, get16 and get32: a word of one, two or four bytes. *)
get_word(word) ==
  CASE Len(word) = 1 -> word[1]
    [] Len(word) = 2 -> 256 * word[1] + word[2]
    [] word = <<255, 255, 255, 255>> -> Wide64
    [] OTHER -> IF word[1] # 0 THEN IF word[1] < 128 THEN Wide31 ELSE Wide32
                ELSE 65536 * word[2] + 256 * word[3] + word[4]

get_number(bytes) ==
  IF Len(bytes) < 8 THEN get_word(bytes)
  ELSE IF SubSeq(bytes, 1, 4) # <<0, 0, 0, 0>> THEN Wide64 ELSE get_word(SubSeq(bytes, 5, 8))

-----------------------------------------------------------------------------
(* Encoder.  needed > 0 once a write did not fit (end = NULL); err is the    *)
(* disjunction of the error codes the writes returned.                       *)

cbor_encoder_init(size) ==
  [out |-> <<>>, size |-> size, needed |-> 0, remaining |-> 2, unknown |-> FALSE, err |-> {}]

append_to_buffer(e, data) ==
  LET put(room) ==
        IF e.needed = 0 /\ Len(data) <= room THEN [e EXCEPT !.out = @ \o data]
        ELSE [e EXCEPT !.needed = @ + Len(data) - room, !.err = @ \cup {"OutOfMemory"}]
  IN  put(IF e.needed = 0 THEN e.size - Len(e.out) ELSE 0)

(* The bytes of a head: the shortest form of the number, below Wide31. *)
ShortestHead(n, major) ==
  CASE n < 24      -> <<32 * major + n>>
    [] n \in 24 .. 255 -> <<32 * major + 24, n>>
    [] n \in 256 .. 65535 -> <<32 * major + 25, n \div 256, n % 256>>
    [] OTHER -> <<32 * major + 26, 0, n \div 65536, (n \div 256) % 256, n % 256>>

encode_number_no_update(e, n, major) == append_to_buffer(e, ShortestHead(n, major))

saturated_decrement(e) == [e EXCEPT !.remaining = IF @ = 0 THEN 0 ELSE @ - 1]

encode_number(e, n, major) == encode_number_no_update(saturated_decrement(e), n, major)

cbor_encode_uint(e, n) == encode_number(e, n, 0)

cbor_encode_int(e, n) == encode_number(e, IF n < 0 THEN -n - 1 ELSE n, IF n < 0 THEN 1 ELSE 0)

cbor_encode_boolean(e, b) == encode_number(e, IF b THEN 21 ELSE 20, 7)

cbor_encode_tag(e, tag) == encode_number_no_update(e, tag, 6)

encode_string(e, s, major) == append_to_buffer(encode_number(e, Len(s), major), s)

cbor_encode_byte_string(e, s) == encode_string(e, s, 2)

cbor_encode_text_string(e, s) == encode_string(e, s, 3)

create_container(e, length, major) ==
  append_to_buffer([e EXCEPT !.unknown = length = Indefinite,
                             !.remaining = IF major = 5 /\ length # Indefinite
                                           THEN 2 * length + 1 ELSE length + 1],
                   IF length = Indefinite THEN <<32 * major + 31>> ELSE ShortestHead(length, major))

cbor_encoder_create_array(e, length) == create_container(e, length, 4)

cbor_encoder_create_map(e, length) == create_container(e, length, 5)

(* create_container counts the container against its parent; nothing reads   *)
(* the parent before it is closed.                                           *)
cbor_encoder_close_container(e, c) ==
  LET code == CASE c.remaining = 0 -> {"TooManyItems"} [] c.remaining > 1 -> {"TooFewItems"}
                [] c.needed > 0 -> {"OutOfMemory"} [] OTHER -> {}
      closed(parent) == IF c.unknown THEN append_to_buffer(parent, <<BreakByte>>)
                        ELSE [parent EXCEPT !.err = @ \cup code]
  IN  closed([saturated_decrement(e) EXCEPT !.out = c.out, !.needed = c.needed, !.err = c.err])

-----------------------------------------------------------------------------
(* Iterator.  inMap, key, unknown, chunks, neg and big are the flags;        *)
(* broken records a cbor_assert that failed, overread a byte read past the   *)
(* end.  What follows a failed assertion is what the code does when it is    *)
(* compiled to nothing.                                                      *)

MajorTypes == <<"int", "negative", "bytes", "text", "array", "map", "tag", "simple">>

is_fixed_type(type) == type \notin {"text", "bytes", "array", "map"}

BytesNeeded(small) == IF small < 24 THEN 0 ELSE 2^(small - 24)

(* _cbor_value_extract_number: the number at ptr and the pointer after it. *)
extract_number(b, ptr) ==
  LET fails(code) == [ptr |-> ptr + 1, n |-> 0, err |-> code]
      read(small, need) ==
        IF ptr > Len(b) THEN fails("ReadPastEnd")
        ELSE IF small > 27 THEN fails("IllegalNumber")
        ELSE IF need > Len(b) - ptr THEN fails("UnexpectedEOF")
        ELSE [ptr |-> ptr + 1 + need, err |-> "None",
              n |-> IF small < 24 THEN small ELSE get_number(SubSeq(b, ptr + 1, ptr + need))]
  IN  read(b[ptr] % 32, BytesNeeded(b[ptr] % 32))

Simple(b, it, small) ==
  CASE small \in {20, 21} -> [it EXCEPT !.type = "bool", !.extra = IF small = 20 THEN 0 ELSE small]
    [] small = 22 -> [it EXCEPT !.type = "null"]
    [] small = 23 -> [it EXCEPT !.type = "undefined"]
    [] small \in 25 .. 27 -> [it EXCEPT !.type = "float", !.big = small # 25]
    [] small = 24 /\ b[it.ptr + 1] < 32 ->
         [it EXCEPT !.type = "invalid", !.err = "IllegalSimpleType", !.extra = b[it.ptr + 1]]
    [] small = 24 /\ b[it.ptr + 1] >= 32 -> [it EXCEPT !.extra = b[it.ptr + 1]]
    [] OTHER -> [it EXCEPT !.broken = TRUE, !.err = "UnexpectedBreak"]

Number(b, it, small) ==
  [it EXCEPT !.type = IF @ = "negative" THEN "int" ELSE @,
             !.neg = it.type = "negative", !.big = small \in {26, 27},
             !.extra = IF small \in {24, 25}
                       THEN get_number(SubSeq(b, it.ptr + 1, it.ptr + BytesNeeded(small)))
                       ELSE small]

(* The rest of preparse_value, with the initial byte in it.type and small. *)
preparse_item(b, it, small) ==
  LET illegal == IF it.type # "simple" THEN "IllegalNumber"
                 ELSE IF small = 31 THEN "UnexpectedBreak" ELSE "UnknownType"
  IN  IF small = 31 /\ ~is_fixed_type(it.type) THEN [it EXCEPT !.unknown = TRUE]
      ELSE IF small > 27 THEN [it EXCEPT !.err = illegal]
      ELSE IF BytesNeeded(small) > Len(b) - it.ptr THEN [it EXCEPT !.err = "UnexpectedEOF"]
      ELSE IF it.type = "simple" THEN Simple(b, it, small) ELSE Number(b, it, small)

preparse_value(b, it) ==
  IF it.ptr > Len(b)
  THEN [it EXCEPT !.type = "invalid", !.err = "UnexpectedEOF", !.overread = @ \/ it.ptr > Len(b) + 1]
  ELSE preparse_item(b, [it EXCEPT !.type = MajorTypes[b[it.ptr] \div 32 + 1], !.extra = b[it.ptr] % 32,
                                   !.unknown = FALSE, !.chunks = FALSE, !.neg = FALSE, !.big = FALSE,
                                   !.err = "None"], b[it.ptr] % 32)

preparse_next_value_nodecrement(b, it) ==
  IF it.remaining = Indefinite /\ it.ptr <= Len(b) /\ b[it.ptr] = BreakByte
  THEN IF (it.inMap /\ it.key) \/ it.type = "tag"
       THEN [it EXCEPT !.err = "UnexpectedBreak"]
       ELSE [it EXCEPT !.ptr = @ + 1, !.type = "invalid", !.remaining = 0, !.err = "None"]
  ELSE preparse_value(b, it)

(* A tag does not count as an item of its container. *)
Counted(it) ==
  IF it.type = "tag" THEN it
  ELSE [it EXCEPT !.remaining = IF @ = Indefinite THEN @ ELSE @ - 1, !.key = ~@]

preparse_next_value(b, it) ==
  IF it.type # "tag" /\ it.remaining = 1 THEN [it EXCEPT !.remaining = 0, !.type = "invalid", !.err = "None"]
  ELSE preparse_next_value_nodecrement(b, Counted(it))

advance_internal(b, it) ==
  LET string == it.type \in {"bytes", "text"}
      past(num) == [it EXCEPT !.ptr = num.ptr + (IF string THEN num.n ELSE 0),
                              !.overread = @ \/ num.err = "ReadPastEnd",
                              !.broken = @ \/ num.err # "None" \/ (string /\ it.unknown)]
  IN  preparse_next_value(b, past(extract_number(b, it.ptr)))

cbor_parser_init(b) ==
  preparse_value(b, [ptr |-> 1, remaining |-> 1, type |-> "invalid", extra |-> 0, neg |-> FALSE,
                     big |-> FALSE, unknown |-> FALSE, chunks |-> FALSE, inMap |-> FALSE,
                     key |-> FALSE, err |-> "None", broken |-> FALSE, overread |-> FALSE])

cbor_value_at_end(it) == it.remaining = 0

(* _cbor_value_extract_int64_helper, decoding the wide ones on demand. *)
raw_integer(b, it) ==
  IF it.big THEN get_number(SubSeq(b, it.ptr + 1, it.ptr + BytesNeeded(b[it.ptr] % 32))) ELSE it.extra

cbor_value_get_int64(b, it) ==
  LET signed(n) == IF it.neg THEN -n - 1 ELSE n
  IN  signed(raw_integer(b, it))

-----------------------------------------------------------------------------
(* Strings: a definite one is a single chunk; more is FALSE after the last. *)

prepare_string_iteration(it) ==
  IF it.unknown THEN [it EXCEPT !.ptr = @ + 1, !.chunks = TRUE] ELSE it

Chunk(p, ptr, bytes) ==
  [it |-> [p EXCEPT !.ptr = ptr + Len(bytes), !.chunks = TRUE, !.err = "None"], chunk |-> bytes, more |-> TRUE]

LastChunk(b, it) == [it |-> preparse_next_value(b, it), chunk |-> <<>>, more |-> FALSE]

NoChunk(it, code) == [it |-> [it EXCEPT !.err = code], chunk |-> <<>>, more |-> FALSE]

(* Faulty variant: the length is not compared with what is left. *)
next_chunk_NoLimit(b, it, num) ==
  IF it.ptr = Len(b) + 1 THEN NoChunk(it, "UnexpectedEOF")
  ELSE IF b[it.ptr] = BreakByte THEN LastChunk(b, [it EXCEPT !.ptr = @ + 1])
  ELSE IF MajorTypes[b[it.ptr] \div 32 + 1] # it.type THEN NoChunk(it, "IllegalType")
  ELSE IF num.err # "None" THEN NoChunk(it, num.err)
  ELSE Chunk(it, num.ptr, [i \in 1 .. num.n |-> IF num.ptr + i - 1 \in DOMAIN b THEN b[num.ptr + i - 1] ELSE 0])

(* num is the length at the iterator. *)
next_chunk(b, it, num) ==
  IF it.ptr = Len(b) + 1 THEN NoChunk(it, "UnexpectedEOF")
  ELSE IF b[it.ptr] = BreakByte THEN LastChunk(b, [it EXCEPT !.ptr = @ + 1])
  ELSE IF MajorTypes[b[it.ptr] \div 32 + 1] # it.type THEN NoChunk(it, "IllegalType")
  ELSE IF num.err # "None" THEN NoChunk(it, num.err)
  ELSE IF num.n > Len(b) - num.ptr + 1 THEN NoChunk(it, "UnexpectedEOF")
  ELSE Chunk(it, num.ptr, SubSeq(b, num.ptr, num.ptr + num.n - 1))

get_string_chunk(b, it) ==
  LET ptr == IF it.unknown /\ ~it.chunks THEN it.ptr + 1 ELSE it.ptr
  IN  IF it.chunks /\ ~it.unknown THEN LastChunk(b, it)
      ELSE next_chunk(b, IF it.chunks THEN it ELSE prepare_string_iteration(it), extract_number(b, ptr))

RECURSIVE iterate_string_chunks(_, _, _)
iterate_string_chunks(b, it, sofar) ==
  LET on(next) == IF next.it.err # "None" \/ ~next.more THEN [it |-> next.it, text |-> sofar]
                  ELSE iterate_string_chunks(b, next.it, sofar \o next.chunk)
  IN  on(get_string_chunk(b, it))

(* _cbor_value_copy_string into a buffer of size bytes. *)
copy_string(b, it, size) ==
  LET fitted(all) == [all EXCEPT !.it.err = IF @ = "None" /\ Len(all.text) > size THEN "OutOfMemory" ELSE @]
  IN  fitted(iterate_string_chunks(b, it, <<>>))

cbor_value_calculate_string_length(b, it) == iterate_string_chunks(b, it, <<>>)

-----------------------------------------------------------------------------
(* Containers. *)

(* num is the length of a definite one. *)
Entered(b, it, num) ==
  LET pairs == it.type = "map"
      inside(ptr, remaining) ==
        [it EXCEPT !.ptr = ptr, !.remaining = remaining, !.inMap = pairs, !.key = FALSE, !.unknown = FALSE,
                   !.neg = FALSE, !.big = FALSE, !.chunks = FALSE, !.err = "None"]
  IN  IF it.unknown THEN preparse_next_value_nodecrement(b, inside(it.ptr + 1, Indefinite))
      ELSE IF num.err # "None" THEN [it EXCEPT !.broken = TRUE, !.overread = @ \/ num.err = "ReadPastEnd", !.err = num.err]
      ELSE IF num.n >= (IF pairs THEN Wide32 ELSE Wide64) THEN [it EXCEPT !.err = "DataTooLarge"]
      ELSE IF num.n = 0 THEN [it EXCEPT !.ptr = num.ptr, !.remaining = 0, !.type = "invalid", !.err = "None"]
      ELSE preparse_next_value_nodecrement(b, inside(num.ptr, IF pairs THEN 2 * num.n ELSE num.n))

cbor_value_enter_container(b, it) == Entered(b, it, extract_number(b, it.ptr))

cbor_value_leave_container(b, it, inner) ==
  preparse_next_value(b, [it EXCEPT !.ptr = inner.ptr, !.overread = inner.overread,
                                    !.broken = inner.broken \/ inner.type # "invalid"])

Left(b, it, last) ==
  IF last.err # "None" THEN [it EXCEPT !.err = last.err, !.broken = last.broken, !.overread = last.overread]
  ELSE cbor_value_leave_container(b, it, last)

RECURSIVE advance_recursive(_, _, _), advance_inside(_, _, _)
advance_recursive(b, it, level) ==
  IF is_fixed_type(it.type) THEN advance_internal(b, it)
  ELSE IF it.type \in {"bytes", "text"} THEN copy_string(b, it, Wide64).it
  ELSE IF level = 0 THEN [it EXCEPT !.err = "NestingTooDeep"]
  ELSE Left(b, it, advance_inside(b, cbor_value_enter_container(b, it), level - 1))

(* The loop over the items of an entered container. *)
advance_inside(b, it, level) ==
  IF cbor_value_at_end(it) \/ it.err # "None" THEN it
  ELSE advance_inside(b, advance_recursive(b, it, level), level)

cbor_value_advance(b, it) ==
  IF it.remaining = 0 THEN [it EXCEPT !.err = "AdvancePastEOF"]
  ELSE advance_recursive(b, [it EXCEPT !.broken = @ \/ it.type = "invalid"], MaxRecursions)

cbor_value_advance_fixed(b, it) ==
  IF it.remaining = 0 THEN [it EXCEPT !.err = "AdvancePastEOF"]
  ELSE advance_internal(b, [it EXCEPT !.broken = @ \/ it.type = "invalid" \/ ~is_fixed_type(it.type)])

RECURSIVE cbor_value_skip_tag(_, _)
cbor_value_skip_tag(b, it) ==
  IF it.type # "tag" \/ it.err # "None" THEN it
  ELSE cbor_value_skip_tag(b, cbor_value_advance_fixed(b, it))

PastUntagged(b, it) == IF it.err = "None" THEN cbor_value_advance(b, it) ELSE it

(* Past a value and the tags in front of it. *)
skip_value(b, value) == PastUntagged(b, cbor_value_skip_tag(b, value))

(* The loop of cbor_value_map_find_value, at a key of the entered map.       *)
(* keyed is the key and the iterator after it.                               *)
KeyRead(b, it) ==
  IF it.err # "None" THEN [it |-> it, text |-> <<>>]
  ELSE IF it.type = "text" THEN [iterate_string_chunks(b, it, <<>>) EXCEPT !.text = <<@>>]
  ELSE [it |-> cbor_value_advance(b, it), text |-> <<>>]

RECURSIVE find_from(_, _, _), find_after(_, _, _)
find_from(b, at, name) ==
  IF at.err # "None" \/ cbor_value_at_end(at) THEN [at EXCEPT !.type = "invalid"]
  ELSE find_after(b, KeyRead(b, cbor_value_skip_tag(b, at)), name)

find_after(b, keyed, name) ==
  IF keyed.it.err # "None" THEN [keyed.it EXCEPT !.type = "invalid"]
  ELSE IF keyed.text = <<name>> THEN preparse_value(b, keyed.it)
  ELSE find_from(b, skip_value(b, keyed.it), name)

cbor_value_map_find_value(b, map, name) == find_from(b, cbor_value_enter_container(b, map), name)
=============================================================================
