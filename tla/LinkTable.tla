------------------------------ MODULE LinkTable ------------------------------
(***************************************************************************)
(* The link manager of Nexus Channel (nexus_channel_res_lm.c) as a table:  *)
(* the links a device holds in RAM, their NV blocks, the one link that     *)
(* waits to be added and the request to clear them all.                    *)
(*                                                                         *)
(* A link's key stands for its security data; the nonce within it is the   *)
(* subject of SecuredLink.  Only the persist flag it raises matters here,  *)
(* because it decides when a link's ages reach NV.                         *)
(***************************************************************************)
EXTENDS Integers, FiniteSets

CONSTANTS
    MaxLinks,     \* NEXUS_CHANNEL_MAX_SIMULTANEOUS_LINKS (8)
    LinkTimeout,  \* NEXUS_CHANNEL_LINK_TIMEOUT_SECONDS (90 days)
    AgeCap        \* bound: ages since initialization are counted up to here;
                  \* they are only compared, so a table of one link needs none

ASSUME LinkTableAssumption ==
    /\ MaxLinks \in Nat \ {0}
    /\ LinkTimeout \in Nat
    /\ AgeCap \in Nat

Index == 0..(MaxLinks - 1)

\* A zeroed link: link_idx_in_use is false, or no link is pending.
NoLink == [mode |-> "none"]

NewLink(peer, mode, key) ==
    [mode |-> mode, peer |-> peer, key |-> key, init |-> 0, active |-> 0]

Table(Link) ==
    [links : [Index -> Link \cup {NoLink}],  \* _this.stored.links
     nv : [Index -> Link \cup {NoLink}],     \* NX_NV_BLOCK_CHANNEL_LM_LINK_*
     persist : SUBSET Index,                 \* link_idx_should_persist_nonce
     pending : Link \cup {NoLink},           \* pending_link_to_create
     clearing : BOOLEAN]                     \* pending_clear_all_links

in_use(t) == {i \in Index : t.links[i] # NoLink}

link_count(t) == Cardinality(in_use(t))

\* The links of a device: in the table, or about to be added to it.
HeldKeys(t) ==
    {t.links[i].key : i \in in_use(t)}
      \cup (IF t.pending = NoLink THEN {} ELSE {t.pending.key})

\* nexus_channel_link_manager_init: every block that holds a link is loaded,
\* its nonce is advanced and due to be saved.
lm_init(nv) ==
    [links |-> nv, nv |-> nv, persist |-> {i \in Index : nv[i] # NoLink},
     pending |-> NoLink, clearing |-> FALSE]

\* _nexus_channel_link_manager_link_index_from_nxid: no two links have the
\* same peer, so the first index found is the only one.
index_from_nxid(t, peer) == {i \in in_use(t) : t.links[i].peer = peer}

security_data_from_nxid(t, peer) ==
    {t.links[i].key : i \in index_from_nxid(t, peer)}

\* The last of the links of the greatest age is taken (the test is >=).
oldest_accessory_link_idx(t) ==
    {i \in in_use(t) :
        /\ t.links[i].mode = "accessory"
        /\ \A j \in in_use(t) \ {i} :
              \/ t.links[j].mode # "accessory"
              \/ t.links[j].init < t.links[i].init
              \/ t.links[j].init = t.links[i].init /\ j < i}

\* Faulty variant: only RAM is cleared.
clear_links_RamOnly(t, S) ==
    [t EXCEPT !.links = [i \in Index |-> IF i \in S THEN NoLink ELSE @[i]]]

\* _nexus_channel_link_manager_clear_link_internal for each index of S: the
\* link and its NV block are zeroed.
clear_links(t, S) ==
    [t EXCEPT !.links = [i \in Index |-> IF i \in S THEN NoLink ELSE @[i]],
              !.nv = [i \in Index |->
                        IF i \in S \cap in_use(t) THEN NoLink ELSE @[i]]]

clear_all_links(t) == [t EXCEPT !.clearing = TRUE]

(***************************************************************************)
(* nexus_channel_link_manager_create_link.  The link it replaces (one to   *)
(* the same device, or the oldest one when an accessory's table is full)   *)
(* is deleted at once; the new one is only remembered.                     *)
(***************************************************************************)
create_link_replaces(t, peer) ==
    IF index_from_nxid(t, peer) # {} THEN index_from_nxid(t, peer)
    ELSE IF link_count(t) = MaxLinks THEN oldest_accessory_link_idx(t) ELSE {}

create_link_allowed(t, peer, mode) ==
    /\ t.pending = NoLink
    /\ \/ index_from_nxid(t, peer) # {}
       \/ link_count(t) < MaxLinks
       \/ mode = "accessory" /\ oldest_accessory_link_idx(t) # {}

create_link(t, peer, mode, key) ==
    [clear_links(t, create_link_replaces(t, peer))
       EXCEPT !.pending = NewLink(peer, mode, key)]

(***************************************************************************)
(* nexus_channel_link_manager_process.                                     *)
(***************************************************************************)
Capped(age) == IF age > AgeCap THEN AgeCap ELSE age

Aged(l, seconds) ==
    [l EXCEPT !.init = Capped(@ + seconds), !.active = @ + seconds]

\* The loop over the links: a link not used for too long is deleted, any
\* other one is saved if its nonce is due to be.
age_links(t, seconds) ==
    LET timedOut == {i \in in_use(t) :
                        t.links[i].active + seconds > LinkTimeout}
        older == [i \in Index |-> IF i \in in_use(t)
                                  THEN Aged(t.links[i], seconds) ELSE NoLink]
        saved == (in_use(t) \ timedOut) \cap t.persist
    IN [t EXCEPT
          !.links = [i \in Index |-> IF i \in timedOut THEN NoLink ELSE older[i]],
          !.nv = [i \in Index |-> IF i \in timedOut THEN NoLink
                                  ELSE IF i \in saved THEN older[i] ELSE @[i]],
          !.persist = @ \ saved]

\* The pending link goes to the first free index, in RAM and in NV.
add_pending(t) ==
    LET free == Index \ in_use(t)
        first == CHOOSE i \in free : \A j \in free : i <= j
    IN IF free = {} THEN [t EXCEPT !.pending = NoLink]
       ELSE [t EXCEPT !.links[first] = t.pending, !.nv[first] = t.pending,
                      !.pending = NoLink]

\* Faulty variant: a pending clear is served first and leaves the pending
\* link to the next call.
lm_process_ClearFirst(t, seconds) ==
    LET aged == age_links(t, seconds)
    IN IF aged.clearing
       THEN [clear_links(aged, Index) EXCEPT !.clearing = FALSE]
       ELSE IF aged.pending # NoLink THEN add_pending(aged) ELSE aged

lm_process(t, seconds) ==
    LET aged == age_links(t, seconds)
    IN IF aged.pending # NoLink THEN add_pending(aged)
       ELSE IF aged.clearing
            THEN [clear_links(aged, Index) EXCEPT !.clearing = FALSE]
            ELSE aged

\* nexus_channel_link_manager_reset_link_secs_since_active, called with every
\* message verified; its nonce may be due to be saved.
link_used(t, i, due) ==
    [t EXCEPT !.links[i].active = 0,
              !.persist = IF due THEN @ \cup {i} ELSE @]

(***************************************************************************)
(* The operating mode of a device that may be controller and accessory,    *)
(* and the accessories a controller goes through in turn.                  *)
(***************************************************************************)
has_link_with_role(t, mode) == \E i \in in_use(t) : t.links[i].mode = mode

operating_mode(t) ==
    LET is_accessory == has_link_with_role(t, "accessory")
        is_controller == has_link_with_role(t, "controller")
    IN CASE is_controller /\ is_accessory   -> "dual active"
         [] is_controller /\ ~is_accessory  -> "controller"
         [] ~is_controller /\ is_accessory  -> "accessory"
         [] ~is_controller /\ ~is_accessory -> "dual idle"
=============================================================================
