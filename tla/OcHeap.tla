-------------------------------- MODULE OcHeap --------------------------------
(* The managed memory for strings and arrays (oc_mmem.c, oc_helpers.c): a    *)
(* pool is handed out from its start, and freeing a block moves the ones     *)
(* after it down and changes the pointers in their handles.                  *)
(*                                                                           *)
(* A heap is one pool: its width (bytes per element, 1 for BYTE_POOL and 8   *)
(* for INT_POOL), the elements available, the list of handles and what each  *)
(* holds, and its memory by byte.  A byte is <<v, k>>: byte k of value v.    *)
LOCAL INSTANCE Integers
LOCAL INSTANCE Sequences
LOCAL INSTANCE SequencesExt

Zeroed == [ptr |-> -1, size |-> 0]      \* NULL, 0

oc_mmem_init(handles, elements, width) ==
  [width |-> width, elements |-> elements, avail |-> elements, list |-> <<>>,
   handle |-> [m \in handles |-> Zeroed], mem |-> [i \in 0 .. (elements * width - 1) |-> <<0, 0>>],
   crashed |-> FALSE]

(* The first byte that is not handed out. *)
Brk(h) == (h.elements - h.avail) * h.width

(* When too little is left, the handle stays as it is. *)
oc_mmem_alloc(h, m, size) ==
  IF h.avail < size THEN h
  ELSE [h EXCEPT !.list = Append(@, m), !.handle[m] = [ptr |-> Brk(h), size |-> size], !.avail = @ - size]

(* The pointers are moved by the number of elements, as bytes; and memmove   *)
(* is told the number of elements as well.                                   *)
memmove(mem, to, from, n) ==
  [i \in DOMAIN mem |-> IF i \in to .. (to + n - 1) THEN mem[from + i - to] ELSE mem[i]]

Behind(list, m) == {list[i] : i \in {j \in DOMAIN list : \E k \in 1 .. (j - 1) : list[k] = m}}

(* Faulty variant: the handles after the freed one are not changed. *)
moved_down_Stale(h, m) == h.handle

moved_down(h, m) ==
  [n \in DOMAIN h.handle |->
     IF n \in Behind(h.list, m) THEN [h.handle[n] EXCEPT !.ptr = @ - h.handle[m].size] ELSE h.handle[n]]

(* Faulty variant: the elements of the freed block are not given back. *)
oc_mmem_free_Leaks(h, m) ==
  LET next == SelectInSeq(h.list, LAMBDA n : n = m) + 1
      from == h.handle[h.list[next]].ptr
  IN  [h EXCEPT !.mem = IF Behind(h.list, m) = {} THEN @
                        ELSE memmove(@, h.handle[m].ptr, from, (Brk(h) - from) \div h.width),
                !.handle = moved_down(h, m),
                !.list = SelectSeq(@, LAMBDA n : n # m)]

oc_mmem_free(h, m) ==
  LET next == SelectInSeq(h.list, LAMBDA n : n = m) + 1
      from == h.handle[h.list[next]].ptr
  IN  [h EXCEPT !.mem = IF Behind(h.list, m) = {} THEN @
                        ELSE memmove(@, h.handle[m].ptr, from, (Brk(h) - from) \div h.width),
                !.handle = moved_down(h, m),
                !.avail = @ + h.handle[m].size,
                !.list = SelectSeq(@, LAMBDA n : n # m)]

oc_free(h, m) == [oc_mmem_free(h, m) EXCEPT !.handle[m] = Zeroed]

(* A new block and its contents.  Whether it was allocated is not looked at: *)
(* when it was not, the contents are written to the NULL of the handle.      *)
oc_new_array(h, m, values) ==
  LET g == oc_mmem_alloc(h, m, Len(values))
      at == g.handle[m].ptr
      bytes == at .. (at + Len(values) * g.width - 1)
  IN  IF at < 0 THEN [g EXCEPT !.crashed = TRUE]
      ELSE [g EXCEPT !.mem = [i \in DOMAIN @ |->
              IF i \in bytes THEN <<values[((i - at) \div g.width) + 1], (i - at) % g.width>> ELSE @[i]]]

(* The elements a handle shows, torn ones as 0. *)
oc_array(h, m) ==
  [j \in 1 .. h.handle[m].size |->
     LET at == h.handle[m].ptr + (j - 1) * h.width
     IN  IF \A k \in 0 .. (h.width - 1) : h.mem[at + k] = <<h.mem[at][1], k>> THEN h.mem[at][1] ELSE 0]
=============================================================================
