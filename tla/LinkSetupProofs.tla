--------------------------- MODULE LinkSetupProofs ---------------------------
(***************************************************************************)
(* Proofs about LinkSetup, for every number of devices, commands, links,   *)
(* handshakes and power losses, and every size of the two windows.         *)
(***************************************************************************)
EXTENDS LinkSetup, FiniteSetTheorems, WellFoundedInduction, TLAPS

(***************************************************************************)
(* Lemmas on sets of numbers.                                              *)
(***************************************************************************)
\* A set of natural numbers has a least element.
LEMMA Least ==
    ASSUME NEW T \in SUBSET Nat, T # {}
    PROVE  \E x \in T : \A y \in T : x <= y
<1> DEFINE R == OpToRel(<, Nat)
<1>1. \E x \in T : \A y \in T : ~(<<y, x>> \in R)
  <2>1. IsWellFoundedOn(R, Nat)
    BY NatLessThanWellFounded
  <2> HIDE DEF R
  <2> QED BY <2>1, WFMin
<1>2. \A x, y \in T : <<y, x>> \notin R => x <= y
  BY DEF OpToRel
<1> HIDE DEF R
<1> QED BY <1>1, <1>2

\* A set of slots has a last element, and LastOf picks it.
LEMMA LastIsIn ==
    ASSUME NEW T \in SUBSET Slots, T # {}
    PROVE  LastOf(T) \in T
<1>1. MaxHandshakes \in Nat /\ \A i \in T : i \in Nat /\ i < MaxHandshakes
  BY SetupAssumption DEF Slots
<1> DEFINE U == {MaxHandshakes - i : i \in T}
<1>2. U \subseteq Nat /\ U # {}
  BY <1>1
<1>3. PICK u \in U : \A y \in U : u <= y
  <2> HIDE DEF U
  <2> QED BY <1>2, Least
<1>4. PICK i \in T : u = MaxHandshakes - i
  OBVIOUS
<1>5. ASSUME NEW j \in T PROVE j <= i
  <2>1. MaxHandshakes - j \in U
    OBVIOUS
  <2>2. MaxHandshakes - i <= MaxHandshakes - j
    <3> HIDE DEF U
    <3> QED BY <1>3, <1>4, <2>1
  <2>3. MaxHandshakes \in Nat /\ i \in Nat /\ j \in Nat
    BY <1>1
  <2> QED BY <2>2, <2>3
<1> QED BY <1>5 DEF LastOf

(***************************************************************************)
(* The windows.                                                            *)
(***************************************************************************)
LEMMA Numbers ==
    /\ MaxHandshakes \in Nat /\ MaxHandshakes > 0
    /\ Retry \in Nat /\ Retry > 0 /\ HsTimeout \in Nat
    /\ OmBelow \in Nat /\ OmAbove \in Nat /\ HsBelow \in Nat /\ HsAbove \in Nat
    /\ Steps \subseteq 0..Retry /\ MaxOutages \in Nat
BY SetupAssumption

\* Flagging a command that the window would try: the window does not move
\* back, the command is flagged, no other one is, and none that the window
\* had done with is tried again.
LEMMA OmFlag ==
    ASSUME NEW w \in Om!Window, NEW id \in Nat, Om!usable(w, id)
    PROVE  LET v == Om!set_id_flag(w, id)
           IN  /\ v \in Om!Window
               /\ id <= v.center /\ w.center <= v.center
               /\ ~Om!usable(v, id)
               /\ \A j \in Nat : Om!id_flag_already_set(v, j)
                                   => j = id \/ Om!id_flag_already_set(w, j)
               /\ \A j \in Nat : j <= w.center /\ ~Om!usable(w, j)
                                   => ~Om!usable(v, j)
<1> DEFINE v == Om!set_id_flag(w, id)
<1>1. w.center \in Nat /\ w.flags \subseteq 0..OmBelow /\ OmBelow \in Nat /\ OmAbove \in Nat
  BY Numbers DEF Om!Window
<1>2. id >= w.center - OmBelow /\ id <= w.center + OmAbove
  BY DEF Om!usable, Om!id_within_window
<1>3. CASE id <= w.center
  <2>1. v.center = w.center /\ v.flags = w.flags \cup {OmBelow - (w.center - id)}
        /\ v \in Om!Window
    BY <1>1, <1>2, <1>3 DEF Om!set_id_flag, Om!id_within_window, Om!mask_idx_from_id, Om!Window
  <2> HIDE DEF v
  <2>2. \A j \in Nat : Om!id_flag_already_set(v, j) => j = id \/ Om!id_flag_already_set(w, j)
    BY <1>1, <2>1 DEF Om!id_flag_already_set, Om!id_within_window, Om!mask_idx_from_id
  <2>3. \A j \in Nat : ~Om!usable(w, j) => ~Om!usable(v, j)
    BY <1>1, <2>1 DEF Om!usable, Om!id_flag_already_set, Om!id_within_window, Om!mask_idx_from_id
  <2>4. ~Om!usable(v, id)
    BY <1>1, <1>3, <2>1 DEF Om!usable, Om!id_flag_already_set, Om!id_within_window, Om!mask_idx_from_id
  <2> QED BY <1>1, <1>3, <2>1, <2>2, <2>3, <2>4 DEF v
<1>4. CASE id > w.center
  <2> DEFINE inc == id - w.center
             kept == Om!shifted_flags(w, inc)
  <2>1. inc \in Nat /\ inc > 0 /\ id = w.center + inc
    BY <1>1, <1>4
  <2>2. kept \subseteq 0..OmBelow /\ \A i \in Nat : i \in kept <=> i + inc \in w.flags
    <3> HIDE DEF inc
    <3> QED BY <1>1, <2>1 DEF Om!shifted_flags
  <2>3. v.center = id /\ v.flags = kept \cup {OmBelow} /\ v \in Om!Window
    <3>1. v = [center |-> id, flags |-> kept \cup {OmBelow}]
      BY <1>1, <1>2, <1>4 DEF Om!set_id_flag, Om!id_within_window
    <3> HIDE DEF v, kept
    <3> QED BY <1>1, <2>2, <3>1 DEF Om!Window
  <2> HIDE DEF v, kept, inc
  <2>4. \A j \in Nat : Om!id_flag_already_set(v, j) => j = id \/ Om!id_flag_already_set(w, j)
    <3> SUFFICES ASSUME NEW j \in Nat, Om!id_flag_already_set(v, j), j # id
                 PROVE  Om!id_flag_already_set(w, j)
      OBVIOUS
    <3>1. j <= id /\ j >= id - OmBelow /\ OmBelow - (id - j) \in kept \cup {OmBelow}
      BY <2>3 DEF Om!id_flag_already_set, Om!id_within_window, Om!mask_idx_from_id
    <3>2. OmBelow - (id - j) \in Nat /\ OmBelow - (id - j) \in kept
      BY <1>1, <3>1
    <3>3. OmBelow - (w.center - j) \in w.flags
      BY <1>1, <2>1, <2>2, <3>2
    <3>4. j <= w.center /\ j >= w.center - OmBelow
      BY <1>1, <3>3
    <3> QED BY <1>1, <3>3, <3>4 DEF Om!id_flag_already_set, Om!id_within_window, Om!mask_idx_from_id
  <2>5. \A j \in Nat : j <= w.center /\ ~Om!usable(w, j) => ~Om!usable(v, j)
    <3> SUFFICES ASSUME NEW j \in Nat, j <= w.center, Om!usable(v, j), ~Om!usable(w, j)
                 PROVE  FALSE
      OBVIOUS
    <3>1. j >= id - OmBelow /\ OmBelow - (id - j) \notin kept
      BY <1>1, <1>4, <2>3 DEF Om!usable, Om!id_flag_already_set, Om!id_within_window, Om!mask_idx_from_id
    <3>2. OmBelow - (id - j) \in Nat /\ OmBelow - (w.center - j) \notin w.flags
      BY <1>1, <2>1, <2>2, <3>1
    <3> QED BY <1>1, <1>4, <3>1, <3>2 DEF Om!usable, Om!id_flag_already_set, Om!id_within_window, Om!mask_idx_from_id
  <2>6. ~Om!usable(v, id)
    BY <1>1, <2>3 DEF Om!usable, Om!id_flag_already_set, Om!id_within_window, Om!mask_idx_from_id
  <2> QED BY <1>1, <1>4, <2>3, <2>4, <2>5, <2>6 DEF v
<1> QED BY <1>1, <1>3, <1>4

\* The same of the window of handshakes.
LEMMA HsFlag ==
    ASSUME NEW w \in Hs!Window, NEW id \in Nat, Hs!usable(w, id)
    PROVE  LET v == Hs!set_id_flag(w, id)
           IN  /\ v \in Hs!Window
               /\ id <= v.center /\ w.center <= v.center
               /\ ~Hs!usable(v, id)
               /\ \A j \in Nat : Hs!id_flag_already_set(v, j)
                                   => j = id \/ Hs!id_flag_already_set(w, j)
               /\ \A j \in Nat : j <= w.center /\ ~Hs!usable(w, j)
                                   => ~Hs!usable(v, j)
<1> DEFINE v == Hs!set_id_flag(w, id)
<1>1. w.center \in Nat /\ w.flags \subseteq 0..HsBelow /\ HsBelow \in Nat /\ HsAbove \in Nat
  BY Numbers DEF Hs!Window
<1>2. id >= w.center - HsBelow /\ id <= w.center + HsAbove
  BY DEF Hs!usable, Hs!id_within_window
<1>3. CASE id <= w.center
  <2>1. v.center = w.center /\ v.flags = w.flags \cup {HsBelow - (w.center - id)}
        /\ v \in Hs!Window
    BY <1>1, <1>2, <1>3 DEF Hs!set_id_flag, Hs!id_within_window, Hs!mask_idx_from_id, Hs!Window
  <2> HIDE DEF v
  <2>2. \A j \in Nat : Hs!id_flag_already_set(v, j) => j = id \/ Hs!id_flag_already_set(w, j)
    BY <1>1, <2>1 DEF Hs!id_flag_already_set, Hs!id_within_window, Hs!mask_idx_from_id
  <2>3. \A j \in Nat : ~Hs!usable(w, j) => ~Hs!usable(v, j)
    BY <1>1, <2>1 DEF Hs!usable, Hs!id_flag_already_set, Hs!id_within_window, Hs!mask_idx_from_id
  <2>4. ~Hs!usable(v, id)
    BY <1>1, <1>3, <2>1 DEF Hs!usable, Hs!id_flag_already_set, Hs!id_within_window, Hs!mask_idx_from_id
  <2> QED BY <1>1, <1>3, <2>1, <2>2, <2>3, <2>4 DEF v
<1>4. CASE id > w.center
  <2> DEFINE inc == id - w.center
             kept == Hs!shifted_flags(w, inc)
  <2>1. inc \in Nat /\ inc > 0 /\ id = w.center + inc
    BY <1>1, <1>4
  <2>2. kept \subseteq 0..HsBelow /\ \A i \in Nat : i \in kept <=> i + inc \in w.flags
    <3> HIDE DEF inc
    <3> QED BY <1>1, <2>1 DEF Hs!shifted_flags
  <2>3. v.center = id /\ v.flags = kept \cup {HsBelow} /\ v \in Hs!Window
    <3>1. v = [center |-> id, flags |-> kept \cup {HsBelow}]
      BY <1>1, <1>2, <1>4 DEF Hs!set_id_flag, Hs!id_within_window
    <3> HIDE DEF v, kept
    <3> QED BY <1>1, <2>2, <3>1 DEF Hs!Window
  <2> HIDE DEF v, kept, inc
  <2>4. \A j \in Nat : Hs!id_flag_already_set(v, j) => j = id \/ Hs!id_flag_already_set(w, j)
    <3> SUFFICES ASSUME NEW j \in Nat, Hs!id_flag_already_set(v, j), j # id
                 PROVE  Hs!id_flag_already_set(w, j)
      OBVIOUS
    <3>1. j <= id /\ j >= id - HsBelow /\ HsBelow - (id - j) \in kept \cup {HsBelow}
      BY <2>3 DEF Hs!id_flag_already_set, Hs!id_within_window, Hs!mask_idx_from_id
    <3>2. HsBelow - (id - j) \in Nat /\ HsBelow - (id - j) \in kept
      BY <1>1, <3>1
    <3>3. HsBelow - (w.center - j) \in w.flags
      BY <1>1, <2>1, <2>2, <3>2
    <3>4. j <= w.center /\ j >= w.center - HsBelow
      BY <1>1, <3>3
    <3> QED BY <1>1, <3>3, <3>4 DEF Hs!id_flag_already_set, Hs!id_within_window, Hs!mask_idx_from_id
  <2>5. \A j \in Nat : j <= w.center /\ ~Hs!usable(w, j) => ~Hs!usable(v, j)
    <3> SUFFICES ASSUME NEW j \in Nat, j <= w.center, Hs!usable(v, j), ~Hs!usable(w, j)
                 PROVE  FALSE
      OBVIOUS
    <3>1. j >= id - HsBelow /\ HsBelow - (id - j) \notin kept
      BY <1>1, <1>4, <2>3 DEF Hs!usable, Hs!id_flag_already_set, Hs!id_within_window, Hs!mask_idx_from_id
    <3>2. HsBelow - (id - j) \in Nat /\ HsBelow - (w.center - j) \notin w.flags
      BY <1>1, <2>1, <2>2, <3>1
    <3> QED BY <1>1, <1>4, <3>1, <3>2 DEF Hs!usable, Hs!id_flag_already_set, Hs!id_within_window, Hs!mask_idx_from_id
  <2>6. ~Hs!usable(v, id)
    BY <1>1, <2>3 DEF Hs!usable, Hs!id_flag_already_set, Hs!id_within_window, Hs!mask_idx_from_id
  <2> QED BY <1>1, <1>4, <2>3, <2>4, <2>5, <2>6 DEF v
<1> QED BY <1>1, <1>3, <1>4

(***************************************************************************)
(* Tables of links.                                                        *)
(***************************************************************************)
\* The links of device d: each knows its peer by the key.
Own(d) == {l \in Link : l.peer = Contract!Peer(d, l.key)}

\* RAM and NV of one table hold the same links.
Mirrors(t) ==
    \A i \in Index :
        LET l == t.links[i]
            n == t.nv[i]
        IN IF l = NoLink THEN n = NoLink
           ELSE n # NoLink /\ n.key = l.key /\ n.peer = l.peer /\ n.mode = l.mode

TableKeys(t) == {t.links[i].key : i \in in_use(t)}

LEMMA LinkIsNotNoLink == NoLink \notin Link
BY DEF NoLink, Link

LEMMA Ages ==
    /\ LinkTimeout \in Nat /\ AgeCap \in Nat
    /\ MaxLinks \in Nat /\ MaxLinks > 0
BY LinkTableAssumption

\* Growing older, being used and being new do not change whose a link is.
LEMMA OwnAged ==
    ASSUME NEW d \in Devices, NEW l \in Own(d), NEW s \in Nat, l.active + s <= LinkTimeout
    PROVE  /\ Aged(l, s) \in Own(d)
           /\ Aged(l, s).key = l.key /\ Aged(l, s).peer = l.peer /\ Aged(l, s).mode = l.mode
<1>1. l.init \in Nat /\ l.init + s \in Nat /\ l.active + s \in 0..LinkTimeout
  BY Ages DEF Own, Link
<1>2. Capped(l.init + s) \in 0..AgeCap
  BY <1>1, Ages DEF Capped
<1> DEFINE c == Capped(l.init + s)
           a == l.active + s
<1>3. Aged(l, s) = [l EXCEPT !.init = c, !.active = a]
  BY DEF Aged
<1> HIDE DEF c, a
<1> QED BY <1>1, <1>2, <1>3 DEF Own, Link, c, a

LEMMA OwnUsed ==
    ASSUME NEW d \in Devices, NEW l \in Own(d)
    PROVE  /\ [l EXCEPT !.active = 0] \in Own(d)
           /\ [l EXCEPT !.active = 0].key = l.key /\ [l EXCEPT !.active = 0].peer = l.peer
           /\ [l EXCEPT !.active = 0].mode = l.mode
BY Ages DEF Own, Link

LEMMA OwnNew ==
    ASSUME NEW d \in Devices, NEW k \in Keys, NEW mode \in {"controller", "accessory"},
           NEW peer \in Devices, peer = Contract!Peer(d, k)
    PROVE  /\ NewLink(peer, mode, k) \in Own(d)
           /\ NewLink(peer, mode, k).key = k
BY Ages DEF Own, Link, NewLink

LEMMA InitTable ==
    ASSUME NEW d \in Devices, NEW nv \in [Index -> Own(d) \cup {NoLink}]
    PROVE  /\ lm_init(nv) \in Table(Own(d)) /\ Mirrors(lm_init(nv))
           /\ HeldKeys(lm_init(nv)) = {nv[i].key : i \in {j \in Index : nv[j] # NoLink}}
           /\ ~lm_init(nv).clearing
BY DEF lm_init, Table, Mirrors, HeldKeys, in_use

LEMMA ClearTable ==
    ASSUME NEW d \in Devices, NEW t \in Table(Own(d)), Mirrors(t), NEW S
    PROVE  LET u == clear_links(t, S)
           IN  /\ u \in Table(Own(d)) /\ Mirrors(u)
               /\ in_use(u) = in_use(t) \ S
               /\ \A i \in in_use(u) : u.links[i] = t.links[i]
               /\ u.pending = t.pending /\ u.clearing = t.clearing
               /\ HeldKeys(u) \subseteq HeldKeys(t)
<1> DEFINE u == clear_links(t, S)
<1>1. /\ u.links = [i \in Index |-> IF i \in S THEN NoLink ELSE t.links[i]]
      /\ u.nv = [i \in Index |-> IF i \in S \cap in_use(t) THEN NoLink ELSE t.nv[i]]
      /\ u.pending = t.pending /\ u.clearing = t.clearing /\ u.persist = t.persist
      /\ u = [t EXCEPT !.links = u.links, !.nv = u.nv]
  BY DEF clear_links, Table
<1>2. /\ t.links \in [Index -> Own(d) \cup {NoLink}] /\ t.nv \in [Index -> Own(d) \cup {NoLink}]
  BY DEF Table
<1> HIDE DEF u
<1>3. u \in Table(Own(d))
  <2>1. u.links \in [Index -> Own(d) \cup {NoLink}] /\ u.nv \in [Index -> Own(d) \cup {NoLink}]
    BY <1>1, <1>2
  <2> QED BY <1>1, <2>1 DEF Table
<1>4. Mirrors(u)
  BY <1>1, <1>2 DEF Mirrors, in_use
<1>5. in_use(u) = in_use(t) \ S /\ \A i \in in_use(u) : u.links[i] = t.links[i]
  BY <1>1 DEF in_use
<1>6. HeldKeys(u) \subseteq HeldKeys(t)
  <2>1. TableKeys(u) \subseteq TableKeys(t)
    BY <1>5 DEF TableKeys
  <2> QED BY <1>1, <2>1 DEF HeldKeys, TableKeys
<1> QED BY <1>1, <1>3, <1>4, <1>5, <1>6 DEF u

\* The new link is pending, the link to the same peer or the oldest one gone.
LEMMA CreateTable ==
    ASSUME NEW d \in Devices, NEW t \in Table(Own(d)), Mirrors(t), t.pending = NoLink,
           NEW k \in Keys, NEW mode \in {"controller", "accessory"},
           NEW peer \in Devices, peer = Contract!Peer(d, k)
    PROVE  LET u == create_link(t, peer, mode, k)
           IN  /\ u \in Table(Own(d)) /\ Mirrors(u) /\ u.clearing = t.clearing
               /\ HeldKeys(u) = TableKeys(u) \cup {k}
               /\ TableKeys(u) \subseteq HeldKeys(t)
               /\ \A other \in TableKeys(u) : Contract!Peer(d, other) # peer
<1> DEFINE S == create_link_replaces(t, peer)
           c == clear_links(t, S)
           new == NewLink(peer, mode, k)
           u == create_link(t, peer, mode, k)
<1>1. new \in Own(d) /\ new.key = k
  BY OwnNew
<1>2. /\ c \in Table(Own(d)) /\ Mirrors(c)
      /\ in_use(c) = in_use(t) \ S
      /\ \A i \in in_use(c) : c.links[i] = t.links[i]
      /\ c.pending = t.pending /\ c.clearing = t.clearing
  BY ClearTable
<1>3. u = [c EXCEPT !.pending = new]
  BY DEF create_link
<1>4. \A i \in in_use(t) \ S : t.links[i].peer # peer
  BY DEF create_link_replaces, index_from_nxid
<1> HIDE DEF S, c, new, u
<1>5. u \in Table(Own(d)) /\ u.pending = new /\ u.clearing = t.clearing
      /\ u.links = c.links /\ u.nv = c.nv
  BY <1>1, <1>2, <1>3 DEF Table
<1>6. Mirrors(u)
  BY <1>2, <1>5 DEF Mirrors
<1>7. in_use(u) = in_use(t) \ S /\ \A i \in in_use(u) : u.links[i] = t.links[i]
  BY <1>2, <1>5 DEF in_use
<1>8. new # NoLink
  BY <1>1, LinkIsNotNoLink DEF Own
<1>9. HeldKeys(u) = TableKeys(u) \cup {k}
  BY <1>1, <1>5, <1>8 DEF HeldKeys, TableKeys
<1>10. TableKeys(u) \subseteq HeldKeys(t)
  <2>1. TableKeys(u) \subseteq TableKeys(t)
    BY <1>7 DEF TableKeys
  <2> QED BY <2>1 DEF HeldKeys, TableKeys
<1>11. ASSUME NEW other \in TableKeys(u) PROVE Contract!Peer(d, other) # peer
  <2>1. PICK i \in in_use(u) : other = u.links[i].key
    BY DEF TableKeys
  <2>2. u.links[i] = t.links[i] /\ t.links[i].peer # peer
    BY <1>4, <1>7
  <2>3. u.links[i] \in Own(d)
    BY <1>5, <2>1 DEF Table, in_use
  <2>4. u.links[i].peer = Contract!Peer(d, u.links[i].key)
    BY <2>3 DEF Own
  <2> QED BY <2>1, <2>2, <2>4
<1> QED BY <1>5, <1>6, <1>9, <1>10, <1>11 DEF u

\* The links that are not timed out grow older, in NV when they are saved.
LEMMA AgeTable ==
    ASSUME NEW d \in Devices, NEW t \in Table(Own(d)), Mirrors(t), NEW s \in Nat
    PROVE  LET u == age_links(t, s)
           IN  /\ u \in Table(Own(d)) /\ Mirrors(u)
               /\ TableKeys(u) \subseteq TableKeys(t)
               /\ u.pending = t.pending /\ u.clearing = t.clearing
<1> DEFINE timedOut == {i \in in_use(t) : t.links[i].active + s > LinkTimeout}
           older == [i \in Index |-> IF i \in in_use(t) THEN Aged(t.links[i], s) ELSE NoLink]
           saved == (in_use(t) \ timedOut) \cap t.persist
           u == age_links(t, s)
<1>1. /\ t.links \in [Index -> Own(d) \cup {NoLink}] /\ t.nv \in [Index -> Own(d) \cup {NoLink}]
      /\ t.persist \subseteq Index
  BY DEF Table
<1>2. /\ u.links = [i \in Index |-> IF i \in timedOut THEN NoLink ELSE older[i]]
      /\ u.nv = [i \in Index |-> IF i \in timedOut THEN NoLink
                                  ELSE IF i \in saved THEN older[i] ELSE t.nv[i]]
      /\ u.persist = t.persist \ saved
      /\ u.pending = t.pending /\ u.clearing = t.clearing
      /\ u = [t EXCEPT !.links = u.links, !.nv = u.nv, !.persist = u.persist]
  BY DEF age_links, Table
<1>3. ASSUME NEW i \in in_use(t) \ timedOut
      PROVE  /\ older[i] \in Own(d) /\ older[i].key = t.links[i].key
             /\ older[i].peer = t.links[i].peer /\ older[i].mode = t.links[i].mode
  <2>1. i \in Index /\ t.links[i] \in Own(d)
    BY <1>1 DEF in_use
  <2>2. t.links[i].active + s <= LinkTimeout
    <3>1. t.links[i].active \in Nat
      BY <2>1, Ages DEF Own, Link
    <3> QED BY <3>1, Ages
  <2> QED BY <2>1, <2>2, OwnAged
<1>4. \A i \in Index \ in_use(t) : older[i] = NoLink
  OBVIOUS
<1>5. timedOut \subseteq in_use(t) /\ saved \subseteq in_use(t) \ timedOut /\ in_use(t) \subseteq Index
      /\ \A i \in Index : i \notin in_use(t) <=> t.links[i] = NoLink
  BY DEF in_use
<1> HIDE DEF timedOut, older, saved, u
<1>6. \A i \in Index :
         /\ u.links[i] = IF i \in timedOut THEN NoLink ELSE older[i]
         /\ u.nv[i] = IF i \in timedOut THEN NoLink ELSE IF i \in saved THEN older[i] ELSE t.nv[i]
  BY <1>2
<1>7. u \in Table(Own(d))
  <2>1. u.links \in [Index -> Own(d) \cup {NoLink}]
    BY <1>2, <1>3, <1>4, <1>5
  <2>2. u.nv \in [Index -> Own(d) \cup {NoLink}]
    <3>1. \A i \in Index : u.nv[i] \in Own(d) \cup {NoLink}
      BY <1>1, <1>3, <1>5, <1>6
    <3>2. u.nv = [i \in Index |-> u.nv[i]]
      BY <1>2
    <3> QED BY <3>1, <3>2
  <2> QED BY <1>1, <1>2, <2>1, <2>2 DEF Table
<1>8. in_use(u) = in_use(t) \ timedOut /\ \A i \in in_use(u) : u.links[i] = older[i]
  <2>1. \A i \in in_use(t) \ timedOut : older[i] # NoLink
    BY <1>3, LinkIsNotNoLink DEF Own
  <2> QED BY <1>4, <1>5, <1>6, <2>1 DEF in_use
<1>9. Mirrors(u)
  <2> SUFFICES ASSUME NEW i \in Index
               PROVE  IF u.links[i] = NoLink THEN u.nv[i] = NoLink
                      ELSE /\ u.nv[i] # NoLink /\ u.nv[i].key = u.links[i].key
                           /\ u.nv[i].peer = u.links[i].peer /\ u.nv[i].mode = u.links[i].mode
    BY DEF Mirrors
  <2>1. CASE i \in timedOut
    BY <1>2, <2>1
  <2>2. CASE i \notin in_use(t)
    BY <1>4, <1>5, <1>6, <2>2 DEF Mirrors
  <2>3. CASE i \in in_use(t) \ timedOut
    <3>1. u.links[i] = older[i] /\ u.nv[i] = IF i \in saved THEN older[i] ELSE t.nv[i]
      BY <1>2, <2>3
    <3>2. older[i] # NoLink
      BY <1>3, <2>3, LinkIsNotNoLink DEF Own
    <3>3. t.nv[i] # NoLink /\ t.nv[i].key = t.links[i].key
          /\ t.nv[i].peer = t.links[i].peer /\ t.nv[i].mode = t.links[i].mode
      BY <1>5, <2>3 DEF Mirrors
    <3> QED BY <1>3, <2>3, <3>1, <3>2, <3>3
  <2> QED BY <2>1, <2>2, <2>3
<1>10. TableKeys(u) \subseteq TableKeys(t)
  BY <1>3, <1>8 DEF TableKeys
<1> QED BY <1>2, <1>7, <1>9, <1>10 DEF u

\* Adding the pending link adds no other key.
LEMMA AddTable ==
    ASSUME NEW d \in Devices, NEW t \in Table(Own(d)), Mirrors(t), t.pending # NoLink
    PROVE  LET u == add_pending(t)
           IN  /\ u \in Table(Own(d)) /\ Mirrors(u)
               /\ HeldKeys(u) \subseteq HeldKeys(t)
               /\ u.clearing = t.clearing
<1> DEFINE free == Index \ in_use(t)
           first == CHOOSE i \in free : \A j \in free : i <= j
           u == add_pending(t)
<1>1. /\ t.links \in [Index -> Own(d) \cup {NoLink}] /\ t.nv \in [Index -> Own(d) \cup {NoLink}]
      /\ t.pending \in Own(d)
  BY DEF Table
<1>2. t.pending # NoLink
  OBVIOUS
<1>3. CASE free = {}
  <2>1. u = [t EXCEPT !.pending = NoLink]
    BY <1>3 DEF add_pending
  <2> HIDE DEF u
  <2>2. u \in Table(Own(d)) /\ u.links = t.links /\ u.nv = t.nv /\ u.pending = NoLink
        /\ u.clearing = t.clearing
    BY <2>1 DEF Table
  <2> QED BY <2>2 DEF Mirrors, HeldKeys, in_use, u
<1>4. CASE free # {}
  <2>1. u = [t EXCEPT !.links[first] = t.pending, !.nv[first] = t.pending, !.pending = NoLink]
    BY <1>4 DEF add_pending
  <2> HIDE DEF u, first
  <2>2. /\ u.links = [t.links EXCEPT ![first] = t.pending]
        /\ u.nv = [t.nv EXCEPT ![first] = t.pending]
        /\ u.pending = NoLink /\ u.clearing = t.clearing /\ u.persist = t.persist
        /\ u = [t EXCEPT !.links = u.links, !.nv = u.nv, !.pending = u.pending]
    BY <2>1 DEF Table
  <2>3. /\ u.links \in [Index -> Own(d) \cup {NoLink}] /\ u.nv \in [Index -> Own(d) \cup {NoLink}]
        /\ \A i \in Index : u.links[i] = IF i = first THEN t.pending ELSE t.links[i]
        /\ \A i \in Index : u.nv[i] = IF i = first THEN t.pending ELSE t.nv[i]
    BY <1>1, <2>2
  <2>4. u \in Table(Own(d))
    BY <2>2, <2>3 DEF Table
  <2>5. Mirrors(u)
    BY <1>2, <2>3 DEF Mirrors
  <2>6. TableKeys(u) \subseteq TableKeys(t) \cup {t.pending.key}
    BY <2>3 DEF TableKeys, in_use
  <2>7. HeldKeys(u) \subseteq HeldKeys(t)
    BY <1>2, <2>2, <2>6 DEF HeldKeys, TableKeys
  <2> QED BY <2>2, <2>4, <2>5, <2>7 DEF u
<1> QED BY <1>3, <1>4

\* A process call of the link manager adds no key, does not forget a request
\* to clear the links, and when it has served one no link is left.
LEMMA ProcessTable ==
    ASSUME NEW d \in Devices, NEW t \in Table(Own(d)), Mirrors(t), NEW s \in Nat
    PROVE  LET u == lm_process(t, s)
           IN  /\ u \in Table(Own(d)) /\ Mirrors(u)
               /\ HeldKeys(u) \subseteq HeldKeys(t)
               /\ t.clearing /\ ~u.clearing => HeldKeys(u) = {}
<1> DEFINE a == age_links(t, s)
           u == lm_process(t, s)
<1>1. /\ a \in Table(Own(d)) /\ Mirrors(a)
      /\ TableKeys(a) \subseteq TableKeys(t)
      /\ a.pending = t.pending /\ a.clearing = t.clearing
  BY AgeTable
<1>2. HeldKeys(a) \subseteq HeldKeys(t)
  BY <1>1 DEF HeldKeys, TableKeys
<1>3. u = IF a.pending # NoLink THEN add_pending(a)
          ELSE IF a.clearing THEN [clear_links(a, Index) EXCEPT !.clearing = FALSE] ELSE a
  BY DEF lm_process
<1> HIDE DEF a, u
<1>4. CASE a.pending # NoLink
  <2>1. u = add_pending(a)
    BY <1>3, <1>4
  <2>2. /\ u \in Table(Own(d)) /\ Mirrors(u)
        /\ HeldKeys(u) \subseteq HeldKeys(a) /\ u.clearing = a.clearing
    BY <1>1, <1>4, <2>1, AddTable
  <2> QED BY <1>1, <1>2, <2>2 DEF u
<1>5. CASE a.pending = NoLink /\ a.clearing
  <2> DEFINE c == clear_links(a, Index)
  <2>1. /\ c \in Table(Own(d)) /\ Mirrors(c)
        /\ in_use(c) = in_use(a) \ Index
        /\ c.pending = a.pending
    BY <1>1, ClearTable
  <2>2. u = [c EXCEPT !.clearing = FALSE]
    BY <1>3, <1>5
  <2> HIDE DEF c
  <2>3. u \in Table(Own(d)) /\ u.links = c.links /\ u.nv = c.nv /\ u.pending = NoLink
    BY <1>5, <2>1, <2>2 DEF Table
  <2>4. Mirrors(u)
    BY <2>1, <2>3 DEF Mirrors
  <2>5. HeldKeys(u) = {}
    BY <2>1, <2>3 DEF HeldKeys, in_use
  <2> QED BY <2>3, <2>4, <2>5 DEF u
<1>6. CASE a.pending = NoLink /\ ~a.clearing
  <2>1. u = a
    BY <1>3, <1>6
  <2> QED BY <1>1, <1>2, <1>6, <2>1 DEF u
<1>7. a.clearing \in BOOLEAN
  BY <1>1 DEF Table
<1> QED BY <1>4, <1>5, <1>6, <1>7

LEMMA UsedTable ==
    ASSUME NEW d \in Devices, NEW t \in Table(Own(d)), Mirrors(t), NEW i \in in_use(t),
           NEW due \in BOOLEAN
    PROVE  LET u == link_used(t, i, due)
           IN  /\ u \in Table(Own(d)) /\ Mirrors(u)
               /\ HeldKeys(u) = HeldKeys(t) /\ u.clearing = t.clearing
<1> DEFINE used == [t.links[i] EXCEPT !.active = 0]
           u == link_used(t, i, due)
<1>1. i \in Index /\ t.links[i] \in Own(d) /\ t.links \in [Index -> Own(d) \cup {NoLink}]
  BY DEF Table, in_use
<1>2. /\ used \in Own(d) /\ used.key = t.links[i].key /\ used.peer = t.links[i].peer
      /\ used.mode = t.links[i].mode
  BY <1>1, OwnUsed
<1>3. /\ u.links = [t.links EXCEPT ![i] = used]
      /\ u.persist = IF due THEN t.persist \cup {i} ELSE t.persist
      /\ u.nv = t.nv /\ u.pending = t.pending /\ u.clearing = t.clearing
      /\ u = [t EXCEPT !.links = u.links, !.persist = u.persist]
  BY DEF link_used, Table
<1>4. used # NoLink
  BY <1>2, LinkIsNotNoLink DEF Own
<1> HIDE DEF used, u
<1>5. /\ u.links \in [Index -> Own(d) \cup {NoLink}]
      /\ \A j \in Index : u.links[j] = IF j = i THEN used ELSE t.links[j]
  BY <1>1, <1>2, <1>3
<1>6. u \in Table(Own(d))
  <2>1. u.persist \subseteq Index
    BY <1>1, <1>3 DEF Table
  <2> QED BY <1>3, <1>5, <2>1 DEF Table
<1>7. in_use(u) = in_use(t)
  BY <1>4, <1>5 DEF in_use
<1>8. Mirrors(u)
  BY <1>2, <1>3, <1>4, <1>5 DEF Mirrors, in_use
<1>9. TableKeys(u) = TableKeys(t)
  <2>1. \A j \in in_use(t) : u.links[j].key = t.links[j].key
    BY <1>2, <1>5 DEF in_use
  <2> QED BY <1>7, <2>1 DEF TableKeys
<1>10. HeldKeys(u) = HeldKeys(t)
  BY <1>3, <1>9 DEF HeldKeys, TableKeys
<1> QED BY <1>3, <1>6, <1>8, <1>10 DEF u

\* A restart loads what NV has, which RAM had too.
LEMMA ReloadTable ==
    ASSUME NEW d \in Devices, NEW t \in Table(Own(d)), Mirrors(t)
    PROVE  /\ lm_init(t.nv) \in Table(Own(d)) /\ Mirrors(lm_init(t.nv))
           /\ HeldKeys(lm_init(t.nv)) \subseteq HeldKeys(t)
<1>1. t.nv \in [Index -> Own(d) \cup {NoLink}]
  BY DEF Table
<1>2. HeldKeys(lm_init(t.nv)) = {t.nv[i].key : i \in {j \in Index : t.nv[j] # NoLink}}
  BY <1>1, InitTable
<1>3. {t.nv[i].key : i \in {j \in Index : t.nv[j] # NoLink}} \subseteq TableKeys(t)
  BY DEF Mirrors, TableKeys, in_use
<1> QED BY <1>1, <1>2, <1>3, InitTable DEF HeldKeys, TableKeys

(***************************************************************************)
(* Types.                                                                  *)
(***************************************************************************)
Client == {Idle} \cup [state : {"active"}, key : Keys, age : Seconds, posted : Seconds]

\* The type invariant, with what is kept about every table.
Typed ==
    /\ TypeOK
    /\ \A d \in Devices : lm[d] \in Table(Own(d)) /\ Mirrors(lm[d])

LEMMA KeyFacts ==
    ASSUME NEW k \in Keys
    PROVE  /\ k.ctl \in Devices /\ k.acc \in Devices /\ k.ctl # k.acc /\ k.idx \in Nat
           /\ k = [ctl |-> k.ctl, acc |-> k.acc, idx |-> k.idx, salt |-> k.salt]
<1>1. PICK c \in {e \in Commands : e.type = "create_link"}, n \in Salts :
        k = [ctl |-> c.to, acc |-> c.acc, idx |-> c.idx, salt |-> n]
  BY DEF Keys
<1>2. c.to \in Devices /\ c.acc \in Devices /\ c.acc # c.to /\ c.idx \in Nat
  BY CommandsAssumption
<1> QED BY <1>1, <1>2

\* The key of a command that is applied.
LEMMA NewKey ==
    ASSUME applied.once \subseteq Commands, NEW c \in Commands, c.type = "create_link"
    PROVE  [ctl |-> c.to, acc |-> c.acc, idx |-> c.idx,
            salt |-> Cardinality({e \in applied.once : e.type = "create_link"})] \in Keys
<1> DEFINE S == {e \in applied.once : e.type = "create_link"}
<1>1. IsFiniteSet(Commands) /\ S \subseteq Commands
  BY CommandsAssumption
<1> HIDE DEF S
<1>2. Cardinality(S) \in Nat /\ Cardinality(S) <= Cardinality(Commands) /\ Cardinality(Commands) \in Nat
  BY <1>1, FS_Subset, FS_CardinalityType
<1>3. Cardinality(S) \in Salts
  BY <1>2 DEF Salts
<1>4. \A n \in Salts : [ctl |-> c.to, acc |-> c.acc, idx |-> c.idx, salt |-> n] \in Keys
  BY DEF Keys
<1>5. [ctl |-> c.to, acc |-> c.acc, idx |-> c.idx, salt |-> Cardinality(S)] \in Keys
  BY <1>3, <1>4
<1> QED BY <1>5 DEF S

LEMMA SecondsFacts ==
    /\ 0 \in Seconds /\ \A s \in Steps : s \in Nat
    /\ \A n \in Nat : n <= HsTimeout => n \in Seconds
    /\ \A n \in Seconds : n \in Nat
BY Numbers DEF Seconds

\* A handshake goes on with its key, or ends.
LEMMA StepFacts ==
    ASSUME NEW h \in Client, NEW s \in Steps
    PROVE  /\ hs_step(h, s) \in Client
           /\ hs_step(h, s).state = "active" => h.state = "active" /\ hs_step(h, s).key = h.key
           /\ h.state = "active" /\ Due(h, s) => hs_step(h, s).state = "active"
<1>1. CASE h = Idle
  BY <1>1 DEF hs_step, Idle, Client
<1>2. CASE h \in [state : {"active"}, key : Keys, age : Seconds, posted : Seconds]
  <2>1. h.age \in Nat /\ h.age + s \in Nat /\ h.state = "active" /\ h.key \in Keys
    BY <1>2, SecondsFacts
  <2>2. CASE Expired(h, s)
    BY <2>1, <2>2 DEF hs_step, Idle, Client, Due
  <2>3. CASE ~Expired(h, s)
    <3>1. h.age + s \in Seconds
      BY <2>1, <2>3, SecondsFacts, Numbers DEF Expired
    <3> DEFINE a == h.age + s
    <3>2. hs_step(h, s) \in {[h EXCEPT !.age = a, !.posted = a], [h EXCEPT !.age = a]}
      BY <2>1, <2>3 DEF hs_step
    <3> HIDE DEF a
    <3> QED BY <1>2, <2>1, <3>1, <3>2 DEF Client, a
  <2> QED BY <2>2, <2>3
<1> QED BY <1>1, <1>2 DEF Client

\* One table changes.
LEMMA OneTable ==
    ASSUME Typed, NEW d \in Devices, NEW t \in Table(Own(d)), Mirrors(t),
           lm' = [lm EXCEPT ![d] = t]
    PROVE  /\ lm' \in [Devices -> Table(Link)]
           /\ \A e \in Devices : lm'[e] \in Table(Own(e)) /\ Mirrors(lm'[e])
           /\ lm'[d] = t /\ \A e \in Devices \ {d} : lm'[e] = lm[e]
<1>1. lm \in [Devices -> Table(Link)]
  BY DEF Typed, TypeOK
<1>2. t \in Table(Link)
  <2>1. Own(d) \subseteq Link
    BY DEF Own
  <2> QED BY <2>1 DEF Table
<1> QED BY <1>1, <1>2 DEF Typed

LEMMA SameTables ==
    ASSUME Typed, UNCHANGED lm
    PROVE  /\ lm' \in [Devices -> Table(Link)]
           /\ \A e \in Devices : lm'[e] \in Table(Own(e)) /\ Mirrors(lm'[e])
BY DEF Typed, TypeOK

LEMMA TypedInit == Init => Typed
<1> SUFFICES ASSUME Init PROVE Typed
  OBVIOUS
<1>1. om \in [Devices -> Om!Window] /\ hs \in [Devices -> Hs!Window]
  BY Numbers DEF Init, Om!window_init, Hs!window_init, Om!Window, Hs!Window
<1>2. clients \in [Devices -> [Slots -> Client]] /\ callback \in [Devices -> {NoCallback} \cup [slot : Slots, key : Keys, at : Seconds]]
  BY DEF Init, Client
<1>3. \A d \in Devices : lm[d] \in Table(Own(d)) /\ Mirrors(lm[d])
  BY InitTable DEF Init
<1>4. lm \in [Devices -> Table(Link)]
  <2>1. \A d \in Devices : Own(d) \subseteq Link
    BY DEF Own
  <2>2. \A d \in Devices : lm[d] \in Table(Link)
    BY <1>3, <2>1 DEF Table
  <2> QED BY <2>2 DEF Init
<1> QED BY <1>1, <1>2, <1>3, <1>4, Numbers DEF Init, Typed, TypeOK, Client

LEMMA TypedNext == Typed /\ [Next]_vars => Typed'
<1> SUFFICES ASSUME Typed, [Next]_vars PROVE Typed'
  OBVIOUS
<1> USE DEF Client
<1>1. TypeOK
  BY DEF Typed
<1>2. ASSUME NEW c \in Commands, EnterCommand(c) PROVE Typed'
  <2>1. c.to \in Devices /\ c.id \in Nat /\ om[c.to] \in Om!Window
    BY <1>1, CommandsAssumption DEF TypeOK
  <2>2. om' \in [Devices -> Om!Window]
    <3>1. Om!set_id_flag(om[c.to], c.id) \in Om!Window
      BY <1>2, <2>1, OmFlag DEF EnterCommand
    <3> QED BY <1>1, <1>2, <3>1 DEF EnterCommand, flag_command, TypeOK
  <2>3. applied' \in [once : SUBSET Commands, again : SUBSET Commands]
    BY <1>1, <1>2 DEF EnterCommand, RecordApplied, TypeOK
  <2>4. CASE c.type = "create_link" /\ link_mode_3(c)
    <3> DEFINE key == [ctl |-> c.to, acc |-> c.acc, idx |-> c.idx,
                       salt |-> Cardinality({e \in applied.once : e.type = "create_link"})]
               first == FirstOf(idle_slots(c.to))
    <3>1. key \in Keys
      BY <1>1, <2>4, NewKey DEF TypeOK
    <3>2. clients' = [clients EXCEPT ![c.to][first] = Handshake(key)]
      BY <2>4 DEF link_mode_3
    <3> HIDE DEF key, first
    <3>3. Handshake(key) \in Client
      BY <3>1, SecondsFacts DEF Handshake
    <3>4. clients' \in [Devices -> [Slots -> Client]]
      BY <1>1, <2>1, <3>2, <3>3 DEF TypeOK
    <3>5. UNCHANGED <<lm, doomed, hs, callback, net, ever, outages>>
      BY <1>2, <2>4 DEF link_mode_3, EnterCommand
    <3> QED BY <1>1, <2>2, <2>3, <3>4, <3>5, SameTables DEF Typed, TypeOK
  <2>5. CASE c.type = "unlink_all" /\ unlink_all(c)
    <3>1. /\ clear_all_links(lm[c.to]) \in Table(Own(c.to)) /\ Mirrors(clear_all_links(lm[c.to]))
      BY <2>1 DEF Typed, Table, clear_all_links, Mirrors
    <3>2. lm' = [lm EXCEPT ![c.to] = clear_all_links(lm[c.to])]
      BY <2>5 DEF unlink_all
    <3>3. HeldKeys(lm[c.to]) \subseteq Keys
      BY <1>1, <2>1 DEF TypeOK, HeldKeys, Table, Link, in_use
    <3>4. doomed' \in [Devices -> SUBSET Keys]
      BY <1>1, <2>1, <2>5, <3>3 DEF unlink_all, TypeOK
    <3>5. UNCHANGED <<clients, hs, callback, net, ever, outages>>
      BY <1>2, <2>5 DEF unlink_all, EnterCommand
    <3> QED BY <1>1, <2>1, <2>2, <2>3, <3>1, <3>2, <3>4, <3>5, OneTable DEF Typed, TypeOK
  <2> QED BY <1>2, <2>4, <2>5 DEF EnterCommand, apply_origin_command
<1>3. ASSUME NEW d \in Devices, DeleteAllLinks(d) PROVE Typed'
  <2>1. /\ clear_all_links(lm[d]) \in Table(Own(d)) /\ Mirrors(clear_all_links(lm[d]))
    BY DEF Typed, Table, clear_all_links, Mirrors
  <2>2. HeldKeys(lm[d]) \subseteq Keys
    BY <1>1 DEF TypeOK, HeldKeys, Table, Link, in_use
  <2>3. doomed' \in [Devices -> SUBSET Keys]
    BY <1>1, <1>3, <2>2 DEF DeleteAllLinks, TypeOK
  <2>4. lm' = [lm EXCEPT ![d] = clear_all_links(lm[d])]
    BY <1>3 DEF DeleteAllLinks
  <2>5. UNCHANGED <<om, hs, clients, callback, net, ever, applied, outages>>
    BY <1>3 DEF DeleteAllLinks
  <2> QED BY <1>1, <2>1, <2>3, <2>4, <2>5, OneTable DEF Typed, TypeOK
<1>4. ASSUME NEW d \in Devices, NEW s \in Steps, Process(d, s) PROVE Typed'
  <2> DEFINE due == {i \in Slots : clients[d][i].state = "active" /\ Due(clients[d][i], s)}
             new == [i \in Slots |-> hs_step(clients[d][i], s)]
             last == LastOf(due)
  <2>1. /\ clients' = [clients EXCEPT ![d] = new]
        /\ net' = net \cup {Post(new[i].key, new[i].posted) : i \in due}
        /\ callback' = IF due = {} THEN callback
                       ELSE [callback EXCEPT ![d] = [slot |-> last, key |-> new[last].key,
                                                    at |-> new[last].posted]]
    BY <1>4 DEF Process, hs_process
  <2>2. \A i \in Slots : clients[d][i] \in Client
    BY <1>1 DEF TypeOK
  <2>3. new \in [Slots -> Client]
    BY <2>2, StepFacts
  <2>4. ASSUME NEW i \in due
        PROVE  i \in Slots /\ new[i].key \in Keys /\ new[i].posted \in Seconds
    <3>1. i \in Slots /\ clients[d][i].state = "active" /\ Due(clients[d][i], s)
      OBVIOUS
    <3>2. new[i].state = "active"
      BY <2>2, <3>1, StepFacts
    <3>3. new[i] \in Client
      BY <2>3, <3>1
    <3> HIDE DEF new, due
    <3> QED BY <3>1, <3>2, <3>3 DEF Idle
  <2>5. due # {} => last \in due
    BY LastIsIn
  <2> HIDE DEF due, new, last
  <2>6. clients' \in [Devices -> [Slots -> Client]]
    BY <1>1, <2>1, <2>3 DEF TypeOK
  <2>7. net' \subseteq [code : {"post", "created"}, key : Keys, at : Seconds]
    BY <1>1, <2>1, <2>4 DEF TypeOK, Post
  <2>8. callback' \in [Devices -> {NoCallback} \cup [slot : Slots, key : Keys, at : Seconds]]
    BY <1>1, <2>1, <2>4, <2>5 DEF TypeOK
  <2>9. /\ lm_process(lm[d], s) \in Table(Own(d)) /\ Mirrors(lm_process(lm[d], s))
    BY SecondsFacts, ProcessTable DEF Typed
  <2>10. lm' = [lm EXCEPT ![d] = lm_process(lm[d], s)]
    BY <1>4 DEF Process
  <2>11. UNCHANGED <<om, hs, ever, applied, doomed, outages>>
    BY <1>4 DEF Process
  <2> QED BY <1>1, <2>6, <2>7, <2>8, <2>9, <2>10, <2>11, OneTable DEF Typed, TypeOK
<1>5. ASSUME NEW d \in Devices, NEW m \in net, ServerPost(m, d) PROVE Typed'
  <2>1. m.key \in Keys /\ m.at \in Seconds
    BY <1>1 DEF TypeOK
  <2>2. m.key.acc = d /\ m.key.ctl \in Devices /\ m.key.idx \in Nat /\ m.key.ctl = Contract!Peer(d, m.key)
    BY <1>5, <2>1, KeyFacts DEF ServerPost, validate_challenge, Contract!Peer
  <2>3. Hs!set_id_flag(hs[d], m.key.idx) \in Hs!Window
    BY <1>1, <1>5, <2>2, HsFlag DEF ServerPost, validate_challenge, TypeOK
  <2>4. hs' \in [Devices -> Hs!Window]
    BY <1>1, <1>5, <2>3 DEF ServerPost, finalize_success_state, TypeOK
  <2>5. net' \subseteq [code : {"post", "created"}, key : Keys, at : Seconds]
    BY <1>1, <1>5, <2>1 DEF ServerPost, TypeOK, Created
  <2>6. ever' \in [Devices -> SUBSET Keys]
    BY <1>1, <1>5, <2>1 DEF ServerPost, TypeOK
  <2> DEFINE t == create_link(lm[d], m.key.ctl, "accessory", m.key)
  <2>7. t \in Table(Own(d)) /\ Mirrors(t)
    BY <1>5, <2>1, <2>2, CreateTable DEF Typed, ServerPost, create_link_allowed
  <2>8. lm' = [lm EXCEPT ![d] = t]
    BY <1>5 DEF ServerPost
  <2>9. UNCHANGED <<om, clients, callback, applied, doomed, outages>>
    BY <1>5 DEF ServerPost
  <2> HIDE DEF t
  <2> QED BY <1>1, <2>4, <2>5, <2>6, <2>7, <2>8, <2>9, OneTable DEF Typed, TypeOK
<1>6. ASSUME NEW d \in Devices, NEW m \in net, ClientPost(m, d) PROVE Typed'
  <2>1. callback' \in [Devices -> {NoCallback} \cup [slot : Slots, key : Keys, at : Seconds]]
    BY <1>1, <1>6 DEF ClientPost, TypeOK
  <2>2. UNCHANGED <<om, hs, net, applied, doomed, outages>>
    BY <1>6 DEF ClientPost
  <2>3. CASE UNCHANGED <<lm, clients, ever>>
    BY <1>1, <2>1, <2>2, <2>3, SameTables DEF Typed, TypeOK
  <2>4. CASE ~UNCHANGED <<lm, clients, ever>>
    <3> DEFINE slot == callback[d].slot
               key == clients[d][slot].key
               t == create_link(lm[d], m.key.acc, "controller", key)
    <3>1. /\ m.key.ctl = d /\ proves_key(d, m) /\ lm[d].pending = NoLink
          /\ lm' = [lm EXCEPT ![d] = t]
          /\ clients' = [clients EXCEPT ![d][slot] = Idle]
          /\ ever' = [ever EXCEPT ![d] = @ \cup {key}]
      BY <1>6, <2>4 DEF ClientPost, create_link_allowed
    <3>2. key = m.key /\ m.key \in Keys
      BY <1>1, <3>1 DEF proves_key, TypeOK
    <3>3. m.key.acc \in Devices /\ m.key.acc = Contract!Peer(d, m.key)
      BY <3>1, <3>2, KeyFacts DEF Contract!Peer
    <3>4. t \in Table(Own(d)) /\ Mirrors(t)
      BY <3>1, <3>2, <3>3, CreateTable DEF Typed
    <3> HIDE DEF slot, key, t
    <3>5. clients' \in [Devices -> [Slots -> Client]]
      BY <1>1, <3>1 DEF TypeOK
    <3>6. ever' \in [Devices -> SUBSET Keys]
      BY <1>1, <3>1, <3>2 DEF TypeOK
    <3> QED BY <1>1, <2>1, <2>2, <3>1, <3>4, <3>5, <3>6, OneTable DEF Typed, TypeOK
  <2> QED BY <2>3, <2>4
<1>7. ASSUME NEW d \in Devices, CallbackRemoved(d) PROVE Typed'
  <2>1. callback' \in [Devices -> {NoCallback} \cup [slot : Slots, key : Keys, at : Seconds]]
    BY <1>1, <1>7 DEF CallbackRemoved, TypeOK
  <2>2. UNCHANGED <<om, hs, clients, lm, net, ever, applied, doomed, outages>>
    BY <1>7 DEF CallbackRemoved
  <2> QED BY <1>1, <2>1, <2>2, SameTables DEF Typed, TypeOK
<1>8. ASSUME NEW d \in Devices, NEW i \in Index, NEW due \in BOOLEAN, LinkUsed(d, i, due) PROVE Typed'
  <2>1. link_used(lm[d], i, due) \in Table(Own(d)) /\ Mirrors(link_used(lm[d], i, due))
    BY <1>8, UsedTable DEF LinkUsed, Typed
  <2>2. /\ lm' = [lm EXCEPT ![d] = link_used(lm[d], i, due)]
        /\ UNCHANGED <<om, hs, clients, callback, net, ever, applied, doomed, outages>>
    BY <1>8 DEF LinkUsed
  <2> QED BY <1>1, <2>1, <2>2, OneTable DEF Typed, TypeOK
<1>9. ASSUME NEW d \in Devices, NEW t \in Table(Own(d)), Mirrors(t), Restart(d, t.nv) PROVE Typed'
  <2>1. lm_init(t.nv) \in Table(Own(d)) /\ Mirrors(lm_init(t.nv))
    BY ReloadTable, <1>9
  <2>2. /\ lm' = [lm EXCEPT ![d] = lm_init(t.nv)]
        /\ clients' = [clients EXCEPT ![d] = [i \in Slots |-> Idle]]
        /\ callback' = [callback EXCEPT ![d] = NoCallback]
        /\ doomed' = [doomed EXCEPT ![d] = {}]
        /\ outages < MaxOutages /\ outages' = outages + 1
        /\ UNCHANGED <<om, hs, net, ever, applied>>
    BY <1>9 DEF Restart
  <2>3. /\ clients' \in [Devices -> [Slots -> Client]]
        /\ callback' \in [Devices -> {NoCallback} \cup [slot : Slots, key : Keys, at : Seconds]]
        /\ doomed' \in [Devices -> SUBSET Keys]
    BY <1>1, <2>2 DEF TypeOK
  <2>4. outages' \in 0..MaxOutages
    BY <1>1, <2>2, Numbers DEF TypeOK
  <2> QED BY <1>1, <2>1, <2>2, <2>3, <2>4, OneTable DEF Typed, TypeOK
<1>10. ASSUME NEW d \in Devices, PowerLoss(d) PROVE Typed'
  BY <1>9, <1>10 DEF PowerLoss, Typed
<1>11. ASSUME NEW d \in Devices, PowerLossWhileLinking(d) PROVE Typed'
  <2>1. PICK peer : Restart(d, clear_links(lm[d], create_link_replaces(lm[d], peer)).nv)
    BY <1>11 DEF PowerLossWhileLinking
  <2> DEFINE t == clear_links(lm[d], create_link_replaces(lm[d], peer))
  <2>2. t \in Table(Own(d)) /\ Mirrors(t)
    BY ClearTable DEF Typed
  <2> QED BY <1>9, <2>1, <2>2
<1>12. CASE UNCHANGED vars
  BY <1>12 DEF vars, Typed, TypeOK, Mirrors
<1> QED BY <1>2, <1>3, <1>4, <1>5, <1>6, <1>7, <1>8, <1>10, <1>11, <1>12 DEF Next

\* Windows, handshakes, tables and messages keep their types, whatever the
\* network and the power do.
THEOREM SetupTypeCorrect == Spec => []TypeOK
BY TypedInit, TypedNext, PTL DEF Spec, Typed

(***************************************************************************)
(* Commands.  FlaggedIffApplied is not inductive: a command above the      *)
(* window would come into it unflagged when the window moves.  What is     *)
(* missing is that a command that was applied is never above the center.   *)
(***************************************************************************)
CommandInv ==
    /\ FlaggedIffApplied
    /\ \A c \in applied.once : c.id <= om[c.to].center

LEMMA CommandInit == Init => CommandInv
<1> SUFFICES ASSUME Init PROVE CommandInv
  OBVIOUS
<1>1. \A c \in Commands : ~Om!id_flag_already_set(om[c.to], c.id)
  BY CommandsAssumption DEF Init, Om!id_flag_already_set, Om!window_init
<1> QED BY <1>1 DEF Init, CommandInv, FlaggedIffApplied

LEMMA CommandNext == Typed /\ CommandInv /\ [Next]_vars => CommandInv'
<1> SUFFICES ASSUME Typed, CommandInv, [Next]_vars PROVE CommandInv'
  OBVIOUS
<1>1. CASE UNCHANGED <<om, applied>>
  BY <1>1 DEF CommandInv, FlaggedIffApplied
<1>2. ASSUME NEW c \in Commands, EnterCommand(c) PROVE CommandInv'
  <2> DEFINE w == om[c.to]
             v == Om!set_id_flag(w, c.id)
  <2>1. c.to \in Devices /\ c.id \in Nat /\ w \in Om!Window /\ applied.once \subseteq Commands
    BY CommandsAssumption DEF Typed, TypeOK
  <2>2. Om!usable(w, c.id)
    BY <1>2 DEF EnterCommand
  <2>3. /\ v \in Om!Window
        /\ c.id <= v.center /\ w.center <= v.center
        /\ ~Om!usable(v, c.id)
        /\ \A j \in Nat : Om!id_flag_already_set(v, j) => j = c.id \/ Om!id_flag_already_set(w, j)
        /\ \A j \in Nat : j <= w.center /\ ~Om!usable(w, j) => ~Om!usable(v, j)
    BY <2>1, <2>2, OmFlag
  <2>4. c \notin applied.once
    BY <2>2 DEF CommandInv, FlaggedIffApplied
  <2>5. /\ om'[c.to] = v /\ \A e \in Commands : e.to # c.to => om'[e.to] = om[e.to]
        /\ applied'.once = applied.once \cup {c} /\ applied'.again = {}
    BY <1>2, <2>1, <2>4, CommandsAssumption
       DEF EnterCommand, flag_command, RecordApplied, Typed, TypeOK, CommandInv, FlaggedIffApplied
  <2>6. w.center \in Nat /\ v.center \in Nat
    BY <2>1, <2>3 DEF Om!Window
  <2> HIDE DEF v
  <2>7. ASSUME NEW e \in applied'.once
        PROVE  ~Om!usable(om'[e.to], e.id) /\ e.id <= om'[e.to].center
    <3>1. CASE e = c
      BY <2>3, <2>5, <3>1
    <3>2. CASE e # c
      <4>1. e \in applied.once /\ e.id \in Nat /\ ~Om!usable(om[e.to], e.id) /\ e.id <= om[e.to].center
        BY <2>1, <2>5, <3>2, CommandsAssumption DEF CommandInv, FlaggedIffApplied
      <4>2. CASE e.to = c.to
        BY <2>3, <2>5, <2>6, <4>1, <4>2
      <4>3. CASE e.to # c.to
        BY <2>1, <2>5, <4>1, <4>3
      <4> QED BY <4>2, <4>3
    <3> QED BY <3>1, <3>2
  <2>8. ASSUME NEW e \in Commands, Om!id_flag_already_set(om'[e.to], e.id)
        PROVE  e \in applied'.once
    <3>1. CASE e.to = c.to
      <4>1. e.id = c.id \/ Om!id_flag_already_set(om[e.to], e.id)
        BY <2>3, <2>5, <2>8, <3>1, CommandsAssumption
      <4>2. e.id = c.id => e = c
        BY <3>1, CommandsAssumption
      <4> QED BY <2>5, <4>1, <4>2 DEF CommandInv, FlaggedIffApplied
    <3>2. CASE e.to # c.to
      BY <2>5, <2>8, <3>2 DEF CommandInv, FlaggedIffApplied
    <3> QED BY <3>1, <3>2
  <2> QED BY <2>5, <2>7, <2>8 DEF CommandInv, FlaggedIffApplied
<1>3. ASSUME NEW d \in Devices,
             \/ DeleteAllLinks(d)
             \/ \E seconds \in Steps : Process(d, seconds)
             \/ \E m \in net : ServerPost(m, d) \/ ClientPost(m, d)
             \/ CallbackRemoved(d)
             \/ \E i \in Index, due \in BOOLEAN : LinkUsed(d, i, due)
             \/ PowerLoss(d)
             \/ PowerLossWhileLinking(d)
      PROVE  UNCHANGED <<om, applied>>
  BY <1>3 DEF DeleteAllLinks, Process, ServerPost, ClientPost, CallbackRemoved, LinkUsed,
              PowerLoss, PowerLossWhileLinking, Restart
<1>4. UNCHANGED vars => UNCHANGED <<om, applied>>
  BY DEF vars
<1> QED BY <1>1, <1>2, <1>3, <1>4 DEF Next

\* An origin command is flagged in NV exactly when it was applied, and it is
\* applied once (nexus_channel_om.c), also after the window has moved over it
\* or power was lost.
THEOREM CommandsOnce == Spec => []FlaggedIffApplied
BY TypedInit, TypedNext, CommandInit, CommandNext, PTL DEF Spec, CommandInv

(***************************************************************************)
(* Keys.  Made(k, once): one of these commands has k as its key.  A key    *)
(* that an accessory has used is done with in its window of handshakes; a  *)
(* handshake that is active has a key the controller never had, and no     *)
(* other one has it; a response proves that the accessory has had the key. *)
(***************************************************************************)
Made(k, once) ==
    \E c \in once :
        c.type = "create_link" /\ c.to = k.ctl /\ c.acc = k.acc /\ c.idx = k.idx

HeldBefore ==
    \A d \in Devices : HeldKeys(lm[d]) \subseteq ever[d] /\ doomed[d] \subseteq ever[d]

UsedUp ==
    \A d \in Devices : \A k \in ever[d] :
        k.acc = d => k.idx <= hs[d].center /\ ~Hs!usable(hs[d], k.idx)

FromCommands ==
    \A d \in Devices : \A k \in ever[d] : k.acc # d => Made(k, applied.once)

AcceptedFirst ==
    \A m \in net : m.code = "created" => m.key \in ever[m.key.acc]

OwnHandshakes ==
    \A d \in Devices : \A i \in Slots : clients[d][i].state = "active" =>
        LET k == clients[d][i].key
        IN  /\ k.ctl = d /\ k \notin ever[d] /\ Made(k, applied.once)
            /\ \A j \in Slots : clients[d][j].state = "active" /\ clients[d][j].key = k => j = i

KeyInv ==
    HeldBefore /\ UsedUp /\ FromCommands /\ AcceptedFirst /\ OwnHandshakes /\ ClearIsComplete

\* What a step may do to the links of d: take on the link of key k ...
Taken(d, k) ==
    /\ k \in Keys /\ k \notin ever[d]
    /\ k.acc = d => \A used \in ever[d] : used.acc = d => used.idx # k.idx
    /\ k.acc # d => k.ctl = d /\ k \in ever[k.acc]
    /\ TableKeys(lm'[d]) \subseteq HeldKeys(lm[d])
    /\ HeldKeys(lm'[d]) = TableKeys(lm'[d]) \cup {k}
    /\ \A other \in TableKeys(lm'[d]) : Contract!Peer(d, other) # Contract!Peer(d, k)
    /\ lm'[d].clearing = lm[d].clearing
    /\ \A e \in Devices \ {d} : lm'[e] = lm[e]
    /\ ever' = [ever EXCEPT ![d] = @ \cup {k}]

\* ... or let go of some.
Dropped(d) ==
    /\ HeldKeys(lm'[d]) \subseteq HeldKeys(lm[d])
    /\ \A e \in Devices \ {d} : lm'[e] = lm[e]
    /\ ever' = ever

LEMMA ServerTakes ==
    ASSUME Typed, KeyInv, NEW d \in Devices, NEW m \in net, ServerPost(m, d)
    PROVE  Taken(d, m.key) /\ m.key.acc = d
<1> DEFINE k == m.key
           t == create_link(lm[d], k.ctl, "accessory", k)
<1>1. k \in Keys
  BY DEF Typed, TypeOK
<1>2. k.acc = d /\ k.ctl \in Devices /\ k.idx \in Nat /\ k.ctl = Contract!Peer(d, k)
  BY <1>1, KeyFacts DEF ServerPost, validate_challenge, Contract!Peer
<1>3. Hs!usable(hs[d], k.idx) /\ lm[d].pending = NoLink /\ lm' = [lm EXCEPT ![d] = t]
      /\ ever' = [ever EXCEPT ![d] = @ \cup {k}]
  BY DEF ServerPost, validate_challenge, create_link_allowed
<1>4. \A used \in ever[d] : used.acc = d => used.idx # k.idx
  BY <1>3 DEF KeyInv, UsedUp
<1>5. /\ t \in Table(Own(d)) /\ Mirrors(t) /\ t.clearing = lm[d].clearing
      /\ HeldKeys(t) = TableKeys(t) \cup {k}
      /\ TableKeys(t) \subseteq HeldKeys(lm[d])
      /\ \A other \in TableKeys(t) : Contract!Peer(d, other) # k.ctl
  BY <1>1, <1>2, <1>3, CreateTable DEF Typed
<1> HIDE DEF t, k
<1>6. lm'[d] = t /\ \A e \in Devices \ {d} : lm'[e] = lm[e]
  BY <1>3, <1>5, OneTable
<1> QED BY <1>1, <1>2, <1>3, <1>4, <1>5, <1>6 DEF Taken, k

LEMMA ClientTakes ==
    ASSUME Typed, KeyInv, NEW d \in Devices, NEW m \in net, ClientPost(m, d)
    PROVE  \/ UNCHANGED <<lm, clients, ever>>
           \/ /\ Taken(d, m.key) /\ m.key.ctl = d /\ Made(m.key, applied.once)
              /\ \E slot \in Slots : /\ clients[d][slot].state = "active"
                                     /\ clients[d][slot].key = m.key
                                     /\ clients' = [clients EXCEPT ![d][slot] = Idle]
<1> SUFFICES ASSUME ~UNCHANGED <<lm, clients, ever>>
             PROVE  /\ Taken(d, m.key) /\ m.key.ctl = d /\ Made(m.key, applied.once)
                    /\ \E slot \in Slots : /\ clients[d][slot].state = "active"
                                           /\ clients[d][slot].key = m.key
                                           /\ clients' = [clients EXCEPT ![d][slot] = Idle]
  OBVIOUS
<1> DEFINE slot == callback[d].slot
           k == m.key
           t == create_link(lm[d], k.acc, "controller", k)
<1>1. k \in Keys /\ m.code = "created" /\ k.ctl = d /\ callback[d] # NoCallback
  BY DEF Typed, TypeOK, ClientPost
<1>2. k.acc \in Devices /\ k.acc # d /\ k.acc = Contract!Peer(d, k)
  BY <1>1, KeyFacts DEF Contract!Peer
<1>3. slot \in Slots
  BY <1>1 DEF Typed, TypeOK
<1>4. /\ clients[d][slot].state = "active" /\ clients[d][slot].key = k
      /\ lm[d].pending = NoLink
      /\ lm' = [lm EXCEPT ![d] = t]
      /\ clients' = [clients EXCEPT ![d][slot] = Idle]
      /\ ever' = [ever EXCEPT ![d] = @ \cup {k}]
  BY DEF ClientPost, create_link_allowed, proves_key
<1>5. k \notin ever[d] /\ Made(k, applied.once)
  BY <1>3, <1>4 DEF KeyInv, OwnHandshakes
<1>6. k \in ever[k.acc]
  BY <1>1 DEF KeyInv, AcceptedFirst
<1>7. /\ t \in Table(Own(d)) /\ Mirrors(t) /\ t.clearing = lm[d].clearing
      /\ HeldKeys(t) = TableKeys(t) \cup {k}
      /\ TableKeys(t) \subseteq HeldKeys(lm[d])
      /\ \A other \in TableKeys(t) : Contract!Peer(d, other) # k.acc
  BY <1>1, <1>2, <1>4, CreateTable DEF Typed
<1> HIDE DEF t, k, slot
<1>8. lm'[d] = t /\ \A e \in Devices \ {d} : lm'[e] = lm[e]
  BY <1>4, <1>7, OneTable
<1>9. Taken(d, k)
  BY <1>1, <1>2, <1>4, <1>5, <1>6, <1>7, <1>8 DEF Taken
<1> QED BY <1>1, <1>3, <1>4, <1>5, <1>9 DEF k

\* A request to clear the links changes none of them yet.
LEMMA ClearRequested ==
    ASSUME Typed, NEW d \in Devices, lm' = [lm EXCEPT ![d] = clear_all_links(@)], ever' = ever
    PROVE  Dropped(d) /\ HeldKeys(lm'[d]) = HeldKeys(lm[d]) /\ lm'[d].clearing
<1>1. lm[d] \in Table(Own(d)) /\ Mirrors(lm[d]) /\ lm' = [lm EXCEPT ![d] = clear_all_links(lm[d])]
  BY DEF Typed
<1> DEFINE t == clear_all_links(lm[d])
<1>2. t \in Table(Own(d)) /\ t.links = lm[d].links /\ t.nv = lm[d].nv /\ t.pending = lm[d].pending
      /\ t.clearing
  BY <1>1 DEF Table, clear_all_links
<1> HIDE DEF t
<1>3. Mirrors(t) /\ HeldKeys(t) = HeldKeys(lm[d])
  BY <1>1, <1>2 DEF Mirrors, HeldKeys, in_use
<1>4. lm'[d] = t /\ \A e \in Devices \ {d} : lm'[e] = lm[e]
  BY <1>1, <1>2, <1>3, OneTable DEF t
<1> QED BY <1>2, <1>3, <1>4 DEF Dropped

LEMMA ProcessDrops ==
    ASSUME Typed, NEW d \in Devices, NEW s \in Steps, Process(d, s)
    PROVE  Dropped(d) /\ (lm[d].clearing /\ ~lm'[d].clearing => HeldKeys(lm'[d]) = {})
<1> DEFINE t == lm_process(lm[d], s)
<1>1. lm' = [lm EXCEPT ![d] = t] /\ ever' = ever
  BY DEF Process
<1>2. /\ t \in Table(Own(d)) /\ Mirrors(t)
      /\ HeldKeys(t) \subseteq HeldKeys(lm[d])
      /\ lm[d].clearing /\ ~t.clearing => HeldKeys(t) = {}
  BY SecondsFacts, ProcessTable DEF Typed
<1> HIDE DEF t
<1>3. lm'[d] = t /\ \A e \in Devices \ {d} : lm'[e] = lm[e]
  BY <1>1, <1>2, OneTable
<1> QED BY <1>1, <1>2, <1>3 DEF Dropped

LEMMA UseDrops ==
    ASSUME Typed, NEW d \in Devices, NEW i \in Index, NEW due \in BOOLEAN, LinkUsed(d, i, due)
    PROVE  Dropped(d) /\ lm'[d].clearing = lm[d].clearing
<1> DEFINE t == link_used(lm[d], i, due)
<1>1. i \in in_use(lm[d]) /\ lm' = [lm EXCEPT ![d] = t] /\ ever' = ever
  BY DEF LinkUsed
<1>2. /\ t \in Table(Own(d)) /\ Mirrors(t)
      /\ HeldKeys(t) = HeldKeys(lm[d]) /\ t.clearing = lm[d].clearing
  BY <1>1, UsedTable DEF Typed
<1> HIDE DEF t
<1>3. lm'[d] = t /\ \A e \in Devices \ {d} : lm'[e] = lm[e]
  BY <1>1, <1>2, OneTable
<1> QED BY <1>1, <1>2, <1>3 DEF Dropped

\* What is loaded again was there before power was lost.
LEMMA RestartDrops ==
    ASSUME Typed, NEW d \in Devices, NEW t \in Table(Own(d)), Mirrors(t),
           HeldKeys(t) \subseteq HeldKeys(lm[d]), Restart(d, t.nv)
    PROVE  Dropped(d)
<1> DEFINE u == lm_init(t.nv)
<1>1. lm' = [lm EXCEPT ![d] = u] /\ ever' = ever
  BY DEF Restart
<1>2. u \in Table(Own(d)) /\ Mirrors(u) /\ HeldKeys(u) \subseteq HeldKeys(t)
  BY ReloadTable
<1> HIDE DEF u
<1>3. lm'[d] = u /\ \A e \in Devices \ {d} : lm'[e] = lm[e]
  BY <1>1, <1>2, OneTable
<1> QED BY <1>1, <1>2, <1>3 DEF Dropped

LEMMA LossDrops ==
    ASSUME Typed, NEW d \in Devices, PowerLoss(d) \/ PowerLossWhileLinking(d)
    PROVE  /\ Dropped(d)
           /\ clients' = [clients EXCEPT ![d] = [i \in Slots |-> Idle]]
           /\ doomed' = [doomed EXCEPT ![d] = {}]
           /\ UNCHANGED <<om, hs, net, applied>>
<1>1. PICK t \in Table(Own(d)) :
        Mirrors(t) /\ HeldKeys(t) \subseteq HeldKeys(lm[d]) /\ Restart(d, t.nv)
  <2>1. CASE PowerLoss(d)
    BY <2>1 DEF PowerLoss, Typed
  <2>2. CASE PowerLossWhileLinking(d)
    <3>1. PICK peer : Restart(d, clear_links(lm[d], create_link_replaces(lm[d], peer)).nv)
      BY <2>2 DEF PowerLossWhileLinking
    <3> DEFINE t == clear_links(lm[d], create_link_replaces(lm[d], peer))
    <3>2. t \in Table(Own(d)) /\ Mirrors(t) /\ HeldKeys(t) \subseteq HeldKeys(lm[d])
      BY ClearTable DEF Typed
    <3> QED BY <3>1, <3>2
  <2> QED BY <2>1, <2>2
<1>2. Dropped(d)
  BY <1>1, RestartDrops
<1> QED BY <1>1, <1>2 DEF Restart

LEMMA KeyInit == Init => KeyInv
<1> SUFFICES ASSUME Init PROVE KeyInv
  OBVIOUS
<1>1. \A d \in Devices : HeldKeys(lm[d]) = {}
  BY DEF Init, lm_init, HeldKeys, in_use
<1>2. \A d \in Devices : \A i \in Slots : clients[d][i].state # "active"
  BY DEF Init, Idle
<1> QED BY <1>1, <1>2 DEF Init, KeyInv, HeldBefore, UsedUp, FromCommands, AcceptedFirst,
                          OwnHandshakes, ClearIsComplete

\* A step that takes on no link and starts no handshake.
LEMMA QuietStep ==
    ASSUME KeyInv, NEW d \in Devices, Dropped(d), hs' = hs,
           applied.once \subseteq applied'.once,
           \A m \in net' : m.code = "created" => m \in net,
           \A e \in Devices : \A i \in Slots : clients'[e][i].state = "active" =>
              clients[e][i].state = "active" /\ clients'[e][i].key = clients[e][i].key,
           \A e \in Devices : doomed'[e] \subseteq ever[e],
           \A e \in Devices : ~lm'[e].clearing => doomed'[e] \cap HeldKeys(lm'[e]) = {}
    PROVE  KeyInv'
<1>1. ever' = ever /\ \A e \in Devices : HeldKeys(lm'[e]) \subseteq HeldKeys(lm[e])
  BY DEF Dropped
<1>2. HeldBefore'
  BY <1>1 DEF KeyInv, HeldBefore
<1>3. UsedUp'
  BY <1>1 DEF KeyInv, UsedUp
<1>4. \A k : Made(k, applied.once) => Made(k, applied'.once)
  BY DEF Made
<1>5. FromCommands'
  BY <1>1, <1>4 DEF KeyInv, FromCommands
<1>6. AcceptedFirst'
  BY <1>1 DEF KeyInv, AcceptedFirst
<1>7. OwnHandshakes'
  BY <1>1, <1>4 DEF KeyInv, OwnHandshakes
<1>8. ClearIsComplete'
  BY DEF ClearIsComplete
<1> QED BY <1>2, <1>3, <1>5, <1>6, <1>7, <1>8 DEF KeyInv

\* Clearing all links is asked for: by a command or by the product.
LEMMA AskedKeeps ==
    ASSUME Typed, KeyInv, NEW d \in Devices, lm' = [lm EXCEPT ![d] = clear_all_links(@)],
           doomed' = [doomed EXCEPT ![d] = @ \cup HeldKeys(lm[d])],
           UNCHANGED <<hs, clients, net, ever>>, applied.once \subseteq applied'.once
    PROVE  KeyInv'
<1>1. Dropped(d) /\ HeldKeys(lm'[d]) = HeldKeys(lm[d]) /\ lm'[d].clearing
  BY ClearRequested
<1>2. \A e \in Devices : doomed'[e] = IF e = d THEN doomed[e] \cup HeldKeys(lm[e]) ELSE doomed[e]
  BY DEF Typed, TypeOK
<1>3. \A e \in Devices : ~lm'[e].clearing => doomed'[e] \cap HeldKeys(lm'[e]) = {}
  BY <1>1, <1>2 DEF Dropped, KeyInv, ClearIsComplete
<1>4. \A e \in Devices : doomed'[e] \subseteq ever[e]
  BY <1>2 DEF KeyInv, HeldBefore
<1> QED BY <1>1, <1>3, <1>4, QuietStep

\* A new handshake has a key that no other one has or had.
LEMMA StartedKeeps ==
    ASSUME Typed, CommandInv, KeyInv, NEW c \in Commands, EnterCommand(c),
           c.type = "create_link", link_mode_3(c)
    PROVE  KeyInv'
<1> DEFINE d == c.to
           key == [ctl |-> c.to, acc |-> c.acc, idx |-> c.idx,
                   salt |-> Cardinality({e \in applied.once : e.type = "create_link"})]
           first == FirstOf(idle_slots(c.to))
<1>1. d \in Devices /\ c.acc # d /\ c \notin applied.once /\ applied.once \subseteq Commands
  BY CommandsAssumption DEF EnterCommand, CommandInv, FlaggedIffApplied, Typed, TypeOK
<1>2. /\ clients' = [clients EXCEPT ![d][first] = Handshake(key)]
      /\ UNCHANGED <<lm, doomed, hs, net, ever>>
      /\ applied'.once = applied.once \cup {c}
  BY DEF link_mode_3, EnterCommand, RecordApplied
<1>3. key.ctl = d /\ key.acc = c.acc /\ key.idx = c.idx
  OBVIOUS
<1> HIDE DEF key, first
<1>4. ~Made(key, applied.once)
  BY <1>1, <1>3, CommandsAssumption DEF Made
<1>5. Made(key, applied'.once) /\ \A k : Made(k, applied.once) => Made(k, applied'.once)
  BY <1>2, <1>3 DEF Made
<1>6. key \notin ever[d]
  BY <1>1, <1>3, <1>4 DEF KeyInv, FromCommands
<1>7. /\ clients \in [Devices -> [Slots -> Client]]
      /\ \A e \in Devices \ {d} : clients'[e] = clients[e]
      /\ \A i \in Slots : clients'[d][i] = IF i = first THEN Handshake(key) ELSE clients[d][i]
  BY <1>1, <1>2 DEF Typed, TypeOK, Client
<1>8. Handshake(key).state = "active" /\ Handshake(key).key = key
  BY DEF Handshake
<1>9. \A i \in Slots : clients[d][i].state = "active" => clients[d][i].key # key
  BY <1>1, <1>4 DEF KeyInv, OwnHandshakes
<1>10. OwnHandshakes'
  <2> SUFFICES ASSUME NEW e \in Devices, NEW i \in Slots, clients'[e][i].state = "active"
               PROVE  LET k == clients'[e][i].key
                      IN  /\ k.ctl = e /\ k \notin ever'[e] /\ Made(k, applied'.once)
                          /\ \A j \in Slots : clients'[e][j].state = "active" /\ clients'[e][j].key = k
                                               => j = i
    BY DEF OwnHandshakes
  <2>1. CASE e # d
    <3>1. clients'[e] = clients[e] /\ clients[e][i].state = "active"
      BY <1>7, <2>1
    <3>2. /\ clients[e][i].key.ctl = e /\ clients[e][i].key \notin ever[e]
          /\ Made(clients[e][i].key, applied.once)
          /\ \A j \in Slots : clients[e][j].state = "active" /\ clients[e][j].key = clients[e][i].key
                               => j = i
      BY <3>1 DEF KeyInv, OwnHandshakes
    <3> QED BY <1>2, <1>5, <3>1, <3>2
  <2>2. CASE e = d /\ i = first
    BY <1>2, <1>3, <1>5, <1>6, <1>7, <1>8, <1>9, <2>2
  <2>3. CASE e = d /\ i # first
    <3>1. clients'[e][i] = clients[d][i] /\ clients[d][i].state = "active" /\ clients[d][i].key # key
      BY <1>7, <1>9, <2>3
    <3>2. /\ clients[d][i].key.ctl = d /\ clients[d][i].key \notin ever[d] /\ Made(clients[d][i].key, applied.once)
          /\ \A j \in Slots : clients[d][j].state = "active" /\ clients[d][j].key = clients[d][i].key
                               => j = i
      BY <1>1, <3>1 DEF KeyInv, OwnHandshakes
    <3> QED BY <1>2, <1>5, <1>7, <1>8, <2>3, <3>1, <3>2
  <2> QED BY <2>1, <2>2, <2>3
<1>11. FromCommands'
  BY <1>2, <1>5 DEF KeyInv, FromCommands
<1> QED BY <1>2, <1>10, <1>11 DEF KeyInv, HeldBefore, UsedUp, AcceptedFirst, ClearIsComplete

\* A step that takes on a link.
LEMMA TakenKeeps ==
    ASSUME Typed, KeyInv, NEW d \in Devices, NEW k, Taken(d, k), doomed' = doomed
    PROVE  HeldBefore' /\ ClearIsComplete'
<1>1. /\ \A e \in Devices : ever'[e] = IF e = d THEN ever[e] \cup {k} ELSE ever[e]
      /\ k \notin ever[d]
      /\ HeldKeys(lm'[d]) \subseteq HeldKeys(lm[d]) \cup {k}
      /\ lm'[d].clearing = lm[d].clearing
      /\ \A e \in Devices \ {d} : lm'[e] = lm[e]
  BY DEF Taken, Typed, TypeOK
<1>2. HeldBefore'
  BY <1>1 DEF KeyInv, HeldBefore
<1>3. ClearIsComplete'
  BY <1>1 DEF KeyInv, HeldBefore, ClearIsComplete
<1> QED BY <1>2, <1>3

LEMMA ServerKeeps ==
    ASSUME Typed, KeyInv, NEW d \in Devices, NEW m \in net, ServerPost(m, d)
    PROVE  KeyInv'
<1> DEFINE k == m.key
           v == Hs!set_id_flag(hs[d], k.idx)
<1>1. Taken(d, k) /\ k.acc = d
  BY ServerTakes
<1>2. k \in Keys /\ k.idx \in Nat
  BY <1>1, KeyFacts DEF Taken
<1>3. /\ Hs!usable(hs[d], k.idx) /\ hs' = [hs EXCEPT ![d] = v]
      /\ net' = net \cup {Created(k, m.at)}
      /\ UNCHANGED <<clients, applied, doomed>>
  BY DEF ServerPost, validate_challenge, finalize_success_state
<1>4. hs[d] \in Hs!Window /\ hs \in [Devices -> Hs!Window]
  BY DEF Typed, TypeOK
<1>5. /\ v \in Hs!Window
      /\ k.idx <= v.center /\ hs[d].center <= v.center
      /\ ~Hs!usable(v, k.idx)
      /\ \A j \in Nat : j <= hs[d].center /\ ~Hs!usable(hs[d], j) => ~Hs!usable(v, j)
  BY <1>2, <1>3, <1>4, HsFlag
<1>6. v.center \in Nat /\ hs[d].center \in Nat
  BY <1>4, <1>5 DEF Hs!Window
<1> HIDE DEF v, k
<1>7. /\ \A e \in Devices : ever'[e] = IF e = d THEN ever[e] \cup {k} ELSE ever[e]
      /\ \A e \in Devices : hs'[e] = IF e = d THEN v ELSE hs[e]
      /\ \A e \in Devices : ever[e] \subseteq Keys
  BY <1>1, <1>3, <1>4 DEF Taken, Typed, TypeOK
<1>8. HeldBefore' /\ ClearIsComplete'
  BY <1>1, <1>3, TakenKeeps
<1>9. UsedUp'
  <2> SUFFICES ASSUME NEW e \in Devices, NEW u \in ever'[e], u.acc = e
               PROVE  u.idx <= hs'[e].center /\ ~Hs!usable(hs'[e], u.idx)
    BY DEF UsedUp
  <2>1. CASE e # d
    BY <1>7, <2>1 DEF KeyInv, UsedUp
  <2>2. CASE e = d /\ u = k
    BY <1>5, <1>7, <2>2
  <2>3. CASE e = d /\ u # k
    <3>1. u \in ever[d] /\ u \in Keys
      BY <1>7, <2>3
    <3>2. u.idx \in Nat
      BY <3>1, KeyFacts
    <3>3. u.idx <= hs[d].center /\ ~Hs!usable(hs[d], u.idx)
      BY <2>3, <3>1 DEF KeyInv, UsedUp
    <3>4. u.idx <= v.center /\ ~Hs!usable(v, u.idx)
      BY <1>5, <1>6, <3>2, <3>3
    <3> QED BY <1>7, <2>3, <3>4
  <2> QED BY <2>1, <2>2, <2>3
<1>10. applied'.once = applied.once
  BY <1>3
<1>11. FromCommands'
  <2> SUFFICES ASSUME NEW e \in Devices, NEW u \in ever'[e], u.acc # e
               PROVE  Made(u, applied'.once)
    BY DEF FromCommands
  <2>1. u \in ever[e]
    BY <1>1, <1>7
  <2> QED BY <1>10, <2>1 DEF KeyInv, FromCommands
<1>12. AcceptedFirst'
  <2> SUFFICES ASSUME NEW n \in net', n.code = "created" PROVE n.key \in ever'[n.key.acc]
    BY DEF AcceptedFirst
  <2>1. CASE n \in net
    <3>1. n.key \in ever[n.key.acc] /\ n.key \in Keys
      BY <2>1 DEF KeyInv, AcceptedFirst, Typed, TypeOK
    <3>2. n.key.acc \in Devices
      BY <3>1, KeyFacts
    <3> QED BY <1>7, <3>1, <3>2
  <2>2. CASE n = Created(k, m.at)
    BY <1>1, <1>7, <2>2 DEF Created
  <2> QED BY <1>3, <2>1, <2>2
<1>13. OwnHandshakes'
  <2>1. \A e \in Devices : \A i \in Slots : clients[e][i].state = "active" =>
          clients[e][i].key \in Keys
    BY DEF Typed, TypeOK, Idle
  <2>2. \A i \in Slots : clients[d][i].state = "active" => clients[d][i].key # k
    BY <1>1, <2>1, KeyFacts DEF KeyInv, OwnHandshakes
  <2> SUFFICES ASSUME NEW e \in Devices, NEW i \in Slots, clients'[e][i].state = "active"
               PROVE  LET h == clients'[e][i].key
                      IN  /\ h.ctl = e /\ h \notin ever'[e] /\ Made(h, applied'.once)
                          /\ \A j \in Slots : clients'[e][j].state = "active" /\ clients'[e][j].key = h
                                               => j = i
    BY DEF OwnHandshakes
  <2>3. clients' = clients /\ clients[e][i].state = "active"
    BY <1>3
  <2>4. /\ clients[e][i].key.ctl = e /\ clients[e][i].key \notin ever[e]
        /\ Made(clients[e][i].key, applied.once)
        /\ \A j \in Slots : clients[e][j].state = "active" /\ clients[e][j].key = clients[e][i].key
                             => j = i
    BY <2>3 DEF KeyInv, OwnHandshakes
  <2> QED BY <1>7, <1>10, <2>2, <2>3, <2>4
<1> QED BY <1>8, <1>9, <1>11, <1>12, <1>13 DEF KeyInv

LEMMA ClientKeeps ==
    ASSUME Typed, KeyInv, NEW d \in Devices, NEW m \in net, ClientPost(m, d)
    PROVE  KeyInv'
<1>1. UNCHANGED <<hs, net, applied, doomed>>
  BY DEF ClientPost
<1>2. CASE UNCHANGED <<lm, clients, ever>>
  BY <1>1, <1>2 DEF KeyInv, HeldBefore, UsedUp, FromCommands, AcceptedFirst, OwnHandshakes,
                    ClearIsComplete, Made
<1>3. CASE ~UNCHANGED <<lm, clients, ever>>
  <2> DEFINE k == m.key
  <2>1. Taken(d, k) /\ k.ctl = d /\ Made(k, applied.once)
    BY <1>3, ClientTakes
  <2>2. PICK slot \in Slots : /\ clients[d][slot].state = "active" /\ clients[d][slot].key = k
                              /\ clients' = [clients EXCEPT ![d][slot] = Idle]
    BY <1>3, ClientTakes
  <2>3. k.acc # d
    BY <2>1, KeyFacts DEF Taken
  <2> HIDE DEF k
  <2>4. /\ \A e \in Devices : ever'[e] = IF e = d THEN ever[e] \cup {k} ELSE ever[e]
        /\ \A e \in Devices \ {d} : clients'[e] = clients[e]
        /\ \A i \in Slots : clients'[d][i] = IF i = slot THEN Idle ELSE clients[d][i]
    BY <2>1, <2>2 DEF Taken, Typed, TypeOK
  <2>5. HeldBefore' /\ ClearIsComplete'
    BY <1>1, <2>1, TakenKeeps
  <2>6. UsedUp'
    BY <1>1, <2>3, <2>4 DEF KeyInv, UsedUp
  <2>7. applied'.once = applied.once
    BY <1>1
  <2>8. FromCommands'
    <3> SUFFICES ASSUME NEW e \in Devices, NEW u \in ever'[e], u.acc # e
                 PROVE  Made(u, applied'.once)
      BY DEF FromCommands
    <3>1. u \in ever[e] \/ u = k
      BY <2>4
    <3> QED BY <2>1, <2>7, <3>1 DEF KeyInv, FromCommands
  <2>9. AcceptedFirst'
    <3>1. \A n \in net : n.key.acc \in Devices
      BY KeyFacts DEF Typed, TypeOK
    <3> QED BY <1>1, <2>4, <3>1 DEF KeyInv, AcceptedFirst
  <2>10. OwnHandshakes'
    <3> SUFFICES ASSUME NEW e \in Devices, NEW i \in Slots, clients'[e][i].state = "active"
                 PROVE  LET h == clients'[e][i].key
                        IN  /\ h.ctl = e /\ h \notin ever'[e] /\ Made(h, applied'.once)
                            /\ \A j \in Slots : clients'[e][j].state = "active" /\ clients'[e][j].key = h
                                                 => j = i
      BY DEF OwnHandshakes
    <3>1. CASE e # d
      <4>1. clients'[e] = clients[e] /\ clients[e][i].state = "active" /\ ever'[e] = ever[e]
        BY <2>4, <3>1
      <4>2. /\ clients[e][i].key.ctl = e /\ clients[e][i].key \notin ever[e]
            /\ Made(clients[e][i].key, applied.once)
            /\ \A j \in Slots : clients[e][j].state = "active" /\ clients[e][j].key = clients[e][i].key
                                 => j = i
        BY <4>1 DEF KeyInv, OwnHandshakes
      <4> QED BY <2>7, <4>1, <4>2
    <3>2. CASE e = d
      <4>1. i # slot /\ clients'[d][i] = clients[d][i] /\ clients[d][i].state = "active"
        BY <2>4, <3>2 DEF Idle
      <4>2. /\ clients[d][i].key.ctl = d /\ clients[d][i].key \notin ever[d] /\ Made(clients[d][i].key, applied.once)
            /\ \A j \in Slots : clients[d][j].state = "active" /\ clients[d][j].key = clients[d][i].key
                                 => j = i
        BY <4>1 DEF KeyInv, OwnHandshakes
      <4>3. clients[d][i].key # k
        BY <2>2, <4>1, <4>2
      <4>4. \A j \in Slots : clients'[d][j].state = "active" => clients'[d][j] = clients[d][j]
        BY <2>4 DEF Idle
      <4> QED BY <2>4, <2>7, <3>2, <4>1, <4>2, <4>3, <4>4
    <3> QED BY <3>1, <3>2
  <2> QED BY <2>5, <2>6, <2>8, <2>9, <2>10 DEF KeyInv
<1> QED BY <1>2, <1>3

LEMMA KeyNext == Typed /\ CommandInv /\ KeyInv /\ [Next]_vars => KeyInv'
<1> SUFFICES ASSUME Typed, CommandInv, KeyInv, [Next]_vars PROVE KeyInv'
  OBVIOUS
<1>1. ASSUME NEW c \in Commands, EnterCommand(c) PROVE KeyInv'
  <2>1. CASE c.type = "create_link" /\ link_mode_3(c)
    BY <1>1, <2>1, StartedKeeps
  <2>2. CASE unlink_all(c)
    <3>1. c.to \in Devices /\ lm' = [lm EXCEPT ![c.to] = clear_all_links(@)]
          /\ UNCHANGED <<hs, clients, net, ever>> /\ applied.once \subseteq applied'.once
          /\ doomed' = [doomed EXCEPT ![c.to] = @ \cup HeldKeys(lm[c.to])]
      BY <1>1, <2>2, CommandsAssumption DEF EnterCommand, unlink_all, RecordApplied
    <3> QED BY <3>1, AskedKeeps
  <2> QED BY <1>1, <2>1, <2>2 DEF EnterCommand, apply_origin_command
<1>2. ASSUME NEW d \in Devices, DeleteAllLinks(d) PROVE KeyInv'
  <2>1. /\ lm' = [lm EXCEPT ![d] = clear_all_links(@)]
        /\ UNCHANGED <<hs, clients, net, ever>> /\ applied.once \subseteq applied'.once
        /\ doomed' = [doomed EXCEPT ![d] = @ \cup HeldKeys(lm[d])]
    BY <1>2 DEF DeleteAllLinks
  <2> QED BY <2>1, AskedKeeps
<1>3. ASSUME NEW d \in Devices, NEW s \in Steps, Process(d, s) PROVE KeyInv'
  <2>1. Dropped(d) /\ (lm[d].clearing /\ ~lm'[d].clearing => HeldKeys(lm'[d]) = {})
    BY <1>3, ProcessDrops
  <2>2. UNCHANGED <<hs, ever, applied, doomed>>
    BY <1>3 DEF Process
  <2>3. \A n \in net' : n.code = "created" => n \in net
    BY <1>3 DEF Process, hs_process, Post
  <2>4. \A e \in Devices : \A i \in Slots : clients'[e][i].state = "active" =>
          clients[e][i].state = "active" /\ clients'[e][i].key = clients[e][i].key
    <3> SUFFICES ASSUME NEW e \in Devices, NEW i \in Slots, clients'[e][i].state = "active"
                 PROVE  clients[e][i].state = "active" /\ clients'[e][i].key = clients[e][i].key
      OBVIOUS
    <3>1. clients'[e][i] = IF e = d THEN hs_step(clients[e][i], s) ELSE clients[e][i]
      BY <1>3 DEF Process, hs_process, Typed, TypeOK
    <3>2. clients[e][i] \in Client
      BY DEF Typed, TypeOK, Client
    <3> QED BY <3>1, <3>2 DEF hs_step, Client, Idle
  <2>5. \A e \in Devices : ~lm'[e].clearing => doomed'[e] \cap HeldKeys(lm'[e]) = {}
    BY <2>1, <2>2 DEF Dropped, KeyInv, ClearIsComplete
  <2>6. \A e \in Devices : doomed'[e] \subseteq ever[e]
    BY <2>2 DEF KeyInv, HeldBefore
  <2> QED BY <2>1, <2>2, <2>3, <2>4, <2>5, <2>6, QuietStep
<1>4. ASSUME NEW d \in Devices, NEW m \in net, ServerPost(m, d) PROVE KeyInv'
  BY <1>4, ServerKeeps
<1>5. ASSUME NEW d \in Devices, NEW m \in net, ClientPost(m, d) PROVE KeyInv'
  BY <1>5, ClientKeeps
<1>6. CASE UNCHANGED <<hs, clients, lm, net, ever, applied, doomed>>
  BY <1>6 DEF KeyInv, HeldBefore, UsedUp, FromCommands, AcceptedFirst, OwnHandshakes,
              ClearIsComplete
<1>7. ASSUME NEW d \in Devices, NEW i \in Index, NEW due \in BOOLEAN, LinkUsed(d, i, due)
      PROVE  KeyInv'
  <2>1. Dropped(d) /\ lm'[d].clearing = lm[d].clearing
    BY <1>7, UseDrops
  <2>2. UNCHANGED <<hs, clients, net, ever, applied, doomed>>
    BY <1>7 DEF LinkUsed
  <2>3. \A e \in Devices : ~lm'[e].clearing => doomed'[e] \cap HeldKeys(lm'[e]) = {}
    BY <2>1, <2>2 DEF Dropped, KeyInv, ClearIsComplete
  <2>4. \A e \in Devices : doomed'[e] \subseteq ever[e]
    BY <2>2 DEF KeyInv, HeldBefore
  <2> QED BY <2>1, <2>2, <2>3, <2>4, QuietStep
<1>8. ASSUME NEW d \in Devices, PowerLoss(d) \/ PowerLossWhileLinking(d) PROVE KeyInv'
  <2>1. /\ Dropped(d)
        /\ clients' = [clients EXCEPT ![d] = [i \in Slots |-> Idle]]
        /\ doomed' = [doomed EXCEPT ![d] = {}]
        /\ UNCHANGED <<om, hs, net, applied>>
    BY <1>8, LossDrops
  <2>2. \A e \in Devices : doomed'[e] = IF e = d THEN {} ELSE doomed[e]
    BY <2>1 DEF Typed, TypeOK
  <2>3. \A e \in Devices : \A i \in Slots : clients'[e][i].state = "active" =>
          clients[e][i].state = "active" /\ clients'[e][i].key = clients[e][i].key
    <3>1. \A e \in Devices : \A i \in Slots :
            clients'[e][i] = IF e = d THEN Idle ELSE clients[e][i]
      BY <2>1 DEF Typed, TypeOK
    <3> QED BY <3>1 DEF Idle
  <2>4. \A e \in Devices : ~lm'[e].clearing => doomed'[e] \cap HeldKeys(lm'[e]) = {}
    BY <2>1, <2>2 DEF Dropped, KeyInv, ClearIsComplete
  <2>5. \A e \in Devices : doomed'[e] \subseteq ever[e]
    BY <2>2 DEF KeyInv, HeldBefore
  <2> QED BY <2>1, <2>3, <2>4, <2>5, QuietStep
<1>9. \/ UNCHANGED vars
      \/ \E d \in Devices : CallbackRemoved(d)
      => UNCHANGED <<hs, clients, lm, net, ever, applied, doomed>>
  BY DEF vars, CallbackRemoved
<1> QED BY <1>1, <1>2, <1>3, <1>4, <1>5, <1>6, <1>7, <1>8, <1>9 DEF Next

\* The link table is what was asked of it (nexus_channel_res_lm.c): all
\* the links there were when clearing was requested are gone once it is served,
\* and RAM and NV have the same ones.
THEOREM TableRight == Spec => []TableAsRequested
<1>1. Typed /\ KeyInv => TableAsRequested
  BY DEF Typed, Mirrors, KeyInv, TableAsRequested, NvMirrorsTable
<1> QED BY <1>1, TypedInit, TypedNext, CommandInit, CommandNext, KeyInit, KeyNext, PTL DEF Spec

(***************************************************************************)
(* The refinement.  The links a device has are those of its table and the  *)
(* pending one.  A step takes on one link, or lets go of some, or changes  *)
(* none.                                                                   *)
(***************************************************************************)
held == [d \in Devices |-> HeldKeys(lm[d])]

LEMMA DropStep ==
    ASSUME Typed, NEW d \in Devices, Dropped(d)
    PROVE  Contract!Next
<1> DEFINE lost == held[d] \ held'[d]
<1>1. /\ \A e \in Devices : held[e] = HeldKeys(lm[e]) /\ held'[e] = HeldKeys(lm'[e])
      /\ held' = [e \in Devices |-> held'[e]]
  BY DEF held
<1>2. held'[d] = held[d] \ lost /\ \A e \in Devices \ {d} : held'[e] = held[e]
  BY <1>1 DEF Dropped
<1>3. held' = [held EXCEPT ![d] = @ \ lost]
  <2>1. [held EXCEPT ![d] = @ \ lost] = [e \in Devices |-> IF e = d THEN held[d] \ lost ELSE held[e]]
    BY DEF held
  <2> HIDE DEF lost
  <2> QED BY <1>1, <1>2, <2>1
<1>4. lost \in SUBSET held[d] /\ ever' = ever
  BY DEF Dropped
<1> HIDE DEF lost
<1> QED BY <1>3, <1>4 DEF Contract!Next, Contract!Drop, held

LEMMA AcceptStep ==
    ASSUME Typed, NEW d \in Devices, NEW k, Taken(d, k)
    PROVE  Contract!Next
<1> DEFINE lost == held[d] \ TableKeys(lm'[d])
<1>1. /\ \A e \in Devices : held[e] = HeldKeys(lm[e]) /\ held'[e] = HeldKeys(lm'[e])
      /\ held' = [e \in Devices |-> held'[e]]
  BY DEF held
<1>2. held[d] \ lost = TableKeys(lm'[d])
  BY <1>1 DEF Taken
<1>3. held'[d] = (held[d] \ lost) \cup {k} /\ \A e \in Devices \ {d} : held'[e] = held[e]
  BY <1>1, <1>2 DEF Taken
<1>4. lost \in SUBSET held[d] /\ k \in Keys
  BY DEF Taken
<1> HIDE DEF lost
<1>5. held' = [held EXCEPT ![d] = (@ \ lost) \cup {k}]
  <2>1. [held EXCEPT ![d] = (@ \ lost) \cup {k}]
          = [e \in Devices |-> IF e = d THEN (held[d] \ lost) \cup {k} ELSE held[e]]
    BY DEF held
  <2> QED BY <1>1, <1>3, <2>1
<1>6. Contract!Accept(d, k, lost)
  <2>1. \A other \in held[d] \ lost : Contract!Peer(d, other) # Contract!Peer(d, k)
    BY <1>2 DEF Taken
  <2> QED BY <1>5, <2>1 DEF Contract!Accept, Taken, held
<1> QED BY <1>4, <1>6 DEF Contract!Next, held

LEMMA ContractStep ==
    Typed /\ KeyInv /\ [Next]_vars => [Contract!Next]_<<held, ever>>
<1> SUFFICES ASSUME Typed, KeyInv, [Next]_vars PROVE Contract!Next \/ UNCHANGED <<held, ever>>
  OBVIOUS
<1>1. ASSUME UNCHANGED <<lm, ever>> PROVE UNCHANGED <<held, ever>>
  BY <1>1 DEF held
<1>2. ASSUME NEW c \in Commands, EnterCommand(c)
      PROVE  Contract!Next \/ UNCHANGED <<held, ever>>
  <2>1. CASE link_mode_3(c)
    BY <1>1, <1>2, <2>1 DEF EnterCommand, link_mode_3
  <2>2. CASE unlink_all(c)
    <3>1. c.to \in Devices /\ lm' = [lm EXCEPT ![c.to] = clear_all_links(@)] /\ ever' = ever
      BY <1>2, <2>2, CommandsAssumption DEF EnterCommand, unlink_all
    <3> QED BY <3>1, ClearRequested, DropStep
  <2> QED BY <1>2, <2>1, <2>2 DEF EnterCommand, apply_origin_command
<1>3. ASSUME NEW d \in Devices, DeleteAllLinks(d) PROVE Contract!Next
  BY <1>3, ClearRequested, DropStep DEF DeleteAllLinks
<1>4. ASSUME NEW d \in Devices, NEW s \in Steps, Process(d, s) PROVE Contract!Next
  BY <1>4, ProcessDrops, DropStep
<1>5. ASSUME NEW d \in Devices, NEW m \in net, ServerPost(m, d) PROVE Contract!Next
  BY <1>5, ServerTakes, AcceptStep
<1>6. ASSUME NEW d \in Devices, NEW m \in net, ClientPost(m, d)
      PROVE  Contract!Next \/ UNCHANGED <<held, ever>>
  BY <1>1, <1>6, ClientTakes, AcceptStep
<1>7. ASSUME NEW d \in Devices, NEW i \in Index, NEW due \in BOOLEAN, LinkUsed(d, i, due)
      PROVE  Contract!Next
  BY <1>7, UseDrops, DropStep
<1>8. ASSUME NEW d \in Devices, PowerLoss(d) \/ PowerLossWhileLinking(d) PROVE Contract!Next
  BY <1>8, LossDrops, DropStep
<1>9. \/ UNCHANGED vars
      \/ \E d \in Devices : CallbackRemoved(d)
      => UNCHANGED <<lm, ever>>
  BY DEF vars, CallbackRemoved
<1> QED BY <1>1, <1>2, <1>3, <1>4, <1>5, <1>6, <1>7, <1>8, <1>9 DEF Next

\* The handshake and the link managers of both ends implement LinkContract
\* (nexus_channel_res_link_hs.c, nexus_channel_res_lm.c): whatever is
\* lost, repeated or delayed and whenever power is lost, a challenge links an
\* accessory once, a controller's link was accepted by the accessory first, a
\* device has one link per peer, and no link comes back.
THEOREM ContractImplemented == Spec => ContractHolds
<1>1. Init => Contract!Init
  <2> SUFFICES ASSUME Init PROVE Contract!Init
    OBVIOUS
  <2>1. \A d \in Devices : HeldKeys(lm[d]) = {}
    BY DEF Init, lm_init, HeldKeys, in_use
  <2> QED BY <2>1 DEF Init, Contract!Init
<1>2. Typed /\ KeyInv /\ [Next]_vars
        => [Contract!Next]_<<[d \in Devices |-> HeldKeys(lm[d])], ever>>
  BY ContractStep DEF held
<1> QED BY <1>1, <1>2, TypedInit, TypedNext, CommandInit, CommandNext, KeyInit, KeyNext, PTL
        DEF Spec, ContractHolds, Contract!Spec

=============================================================================
