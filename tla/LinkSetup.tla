------------------------------ MODULE LinkSetup ------------------------------
(***************************************************************************)
(* How links of Nexus Channel come and go: origin commands entered at a    *)
(* controller (nexus_channel_om.c, nexus_channel_core.c), the handshake    *)
(* they start (nexus_channel_res_link_hs.c), and the link managers of both *)
(* ends (LinkTable).  A build may be controller and accessory at once, and *)
(* so may every device here.                                               *)
(*                                                                         *)
(* Messages stay in the network once sent, so each may be lost, late, out  *)
(* of order or delivered again.  Devices lose power at any time.           *)
(*                                                                         *)
(* Abstractions.  MACs are ideal: a command is valid at the controller it  *)
(* was made for, a challenge at the accessory and index it was made for,   *)
(* a response proves the key.  Salts and tokens never repeat: a key's salt *)
(* is a counter, a token is the key and the time of the POST.  The answer  *)
(* with which an accessory refuses a POST does one thing at a controller,  *)
(* freeing the callback; that, the callback's expiry and a POST that could *)
(* not be sent are all CallbackRemoved.  The product calls process when it *)
(* was asked to, so no 16-bit count of seconds wraps.                      *)
(***************************************************************************)
EXTENDS LinkTable

CONSTANTS
    Devices,
    Commands,       \* origin commands made by the origin, see CommandsAssumption
    MaxHandshakes,  \* NEXUS_CHANNEL_SIMULTANEOUS_LINK_HANDSHAKES (4)
    Retry,          \* ..._LINK_HANDSHAKE_CONTROLLER_RETRY_SECONDS (5)
    HsTimeout,      \* ..._LINK_HANDSHAKE_CONTROLLER_TIMEOUT_SECONDS (3600)
    OmBelow, OmAbove,  \* window of origin commands (31, 8)
    HsBelow, HsAbove,  \* window of handshakes (15, 8)
    Steps,          \* seconds that may pass between two process calls
    MaxOutages      \* bound: how often power is lost

CommandTypes == {"create_link", "unlink_all", "unsupported"}

(***************************************************************************)
(* The origin numbers the commands of a controller and the challenges of   *)
(* an accessory, and uses no number twice.                                 *)
(***************************************************************************)
ASSUME CommandsAssumption ==
    /\ IsFiniteSet(Commands)
    /\ \A c \in Commands :
          /\ c.to \in Devices /\ c.id \in Nat /\ c.type \in CommandTypes
          /\ c.type = "create_link" =>
               c.acc \in Devices \ {c.to} /\ c.idx \in Nat
    /\ \A c, e \in Commands : c.to = e.to /\ c.id = e.id => c = e
    /\ \A c, e \in Commands :
          /\ c.type = "create_link" /\ e.type = "create_link"
          /\ c.acc = e.acc /\ c.idx = e.idx
          => c = e

ASSUME SetupAssumption ==
    /\ MaxHandshakes \in Nat \ {0}
    /\ Retry \in Nat \ {0} /\ HsTimeout \in Nat
    /\ OmBelow \in Nat /\ OmAbove \in Nat /\ HsBelow \in Nat /\ HsAbove \in Nat
    /\ Steps \subseteq 0..Retry
    /\ MaxOutages \in Nat

VARIABLES
    om,        \* _nexus_om_stored, the window of commands: NV
    hs,        \* stored_accessory, the window of handshakes: NV
    clients,   \* the controller's handshakes
    callback,  \* the one client callback of "/h"
    lm,        \* the link manager
    net,       \* messages sent
    \* History:
    ever,      \* keys of the links each device has had
    applied,   \* commands applied, and whether one was applied again
    doomed,    \* keys each device had when it was told to clear its links
    outages    \* number of power losses

vars == <<om, hs, clients, callback, lm, net, ever, applied, doomed, outages>>

Om == INSTANCE ReceiveWindow WITH Below <- OmBelow, Above <- OmAbove
Hs == INSTANCE ReceiveWindow WITH Below <- HsBelow, Above <- HsAbove

Slots == 0..(MaxHandshakes - 1)
Seconds == 0..(HsTimeout + Retry)

\* One key for each create_link command: the salt is drawn when it is applied.
Salts == 0..Cardinality(Commands)
Keys == {[ctl |-> c.to, acc |-> c.acc, idx |-> c.idx, salt |-> n] :
            c \in {e \in Commands : e.type = "create_link"}, n \in Salts}

Idle == [state |-> "idle"]
Handshake(k) == [state |-> "active", key |-> k, age |-> 0, posted |-> 0]
NoCallback == [slot |-> -1]

Link == [mode : {"controller", "accessory"}, peer : Devices, key : Keys,
         init : 0..AgeCap, active : 0..LinkTimeout]

Post(k, at) == [code |-> "post", key |-> k, at |-> at]
Created(k, at) == [code |-> "created", key |-> k, at |-> at]

TypeOK ==
    /\ om \in [Devices -> Om!Window]
    /\ hs \in [Devices -> Hs!Window]
    /\ clients \in [Devices -> [Slots -> {Idle} \cup
          [state : {"active"}, key : Keys, age : Seconds, posted : Seconds]]]
    /\ callback \in [Devices -> {NoCallback} \cup
          [slot : Slots, key : Keys, at : Seconds]]
    /\ lm \in [Devices -> Table(Link)]
    /\ net \subseteq [code : {"post", "created"}, key : Keys, at : Seconds]
    /\ ever \in [Devices -> SUBSET Keys]
    /\ applied \in [once : SUBSET Commands, again : SUBSET Commands]
    /\ doomed \in [Devices -> SUBSET Keys]
    /\ outages \in 0..MaxOutages

Init ==
    /\ om = [d \in Devices |-> Om!window_init]
    /\ hs = [d \in Devices |-> Hs!window_init]
    /\ clients = [d \in Devices |-> [i \in Slots |-> Idle]]
    /\ callback = [d \in Devices |-> NoCallback]
    /\ lm = [d \in Devices |-> lm_init([i \in Index |-> NoLink])]
    /\ net = {}
    /\ ever = [d \in Devices |-> {}]
    /\ applied = [once |-> {}, again |-> {}]
    /\ doomed = [d \in Devices |-> {}]
    /\ outages = 0

(***************************************************************************)
(* Origin commands.  A command is tried for each ID of the window that is  *)
(* not flagged.  What applying it starts is only in RAM; its ID is flagged *)
(* in NV afterwards, and only if it could be applied.                      *)
(***************************************************************************)
idle_slots(d) == {i \in Slots : clients[d][i].state = "idle"}

FirstOf(S) == CHOOSE i \in S : \A j \in S : i <= j
LastOf(S) == CHOOSE i \in S : \A j \in S : j <= i

\* Faulty variant: the ID is not flagged.
flag_command_Never(c) == om' = om

\* The end of _nexus_channel_om_ascii_apply_message.
flag_command(c) == om' = [om EXCEPT ![c.to] = Om!set_id_flag(@, c.id)]

RecordApplied(c) ==
    applied' = [once |-> applied.once \cup {c},
                again |-> applied.again \cup (applied.once \cap {c})]

\* nexus_channel_res_link_hs_link_mode_3 takes the first idle handshake.  With
\* none idle it refuses and so does the caller: nothing changes.
link_mode_3(c) ==
    LET d == c.to
        salt == Cardinality({e \in applied.once : e.type = "create_link"})
        key == [ctl |-> d, acc |-> c.acc, idx |-> c.idx, salt |-> salt]
    IN /\ idle_slots(d) # {}
       /\ clients' = [clients EXCEPT ![d][FirstOf(idle_slots(d))] = Handshake(key)]
       /\ UNCHANGED <<lm, doomed>>

\* UNLINK_ALL_LINKED_ACCESSORIES: the links go in a later process call.
unlink_all(c) ==
    /\ lm' = [lm EXCEPT ![c.to] = clear_all_links(@)]
    /\ doomed' = [doomed EXCEPT ![c.to] = @ \cup HeldKeys(lm[c.to])]
    /\ UNCHANGED clients

\* nexus_channel_core_apply_origin_command.  The commands to one accessory and
\* the other controller actions are not implemented: they are refused.
apply_origin_command(c) ==
    \/ c.type = "create_link" /\ link_mode_3(c)
    \/ c.type = "unlink_all" /\ unlink_all(c)

\* nx_channel_handle_origin_command.
EnterCommand(c) ==
    /\ Om!usable(om[c.to], c.id)
    /\ apply_origin_command(c)
    /\ flag_command(c)
    /\ RecordApplied(c)
    /\ UNCHANGED <<hs, callback, net, ever, outages>>

\* nx_channel_accessory_delete_all_links, from the product.
DeleteAllLinks(d) ==
    /\ operating_mode(lm[d]) = "accessory"
    /\ lm' = [lm EXCEPT ![d] = clear_all_links(@)]
    /\ doomed' = [doomed EXCEPT ![d] = @ \cup HeldKeys(lm[d])]
    /\ UNCHANGED <<om, hs, clients, callback, net, ever, applied, outages>>

(***************************************************************************)
(* nexus_channel_core_process: the handshakes, then the links.             *)
(***************************************************************************)
Expired(h, seconds) == h.age + seconds > HsTimeout

Due(h, seconds) == ~Expired(h, seconds) /\ h.age + seconds - h.posted >= Retry

\* Faulty variants: the timeout is not looked at; the time since the start is
\* counted anew with every POST.
hs_step_NoTimeout(h, seconds) ==
    IF h.state = "idle" THEN h
    ELSE [h EXCEPT !.age = @ + seconds,
                   !.posted = IF Due(h, seconds) THEN h.age + seconds ELSE @]

hs_step_NoAge(h, seconds) ==
    IF h.state = "idle" THEN h
    ELSE IF Expired(h, seconds) THEN Idle
    ELSE IF Due(h, seconds) THEN [h EXCEPT !.age = 0, !.posted = 0]
    ELSE [h EXCEPT !.age = @ + seconds]

hs_step(h, seconds) ==
    IF h.state = "idle" THEN h
    ELSE IF Expired(h, seconds) THEN Idle
    ELSE IF Due(h, seconds)
         THEN [h EXCEPT !.age = @ + seconds, !.posted = h.age + seconds]
    ELSE [h EXCEPT !.age = @ + seconds]

\* nexus_channel_res_link_hs_process.  Each POST that is due removes the
\* callback of "/h", whichever handshake it was for, and registers its own:
\* the last one of the call remains.
hs_process(d, seconds) ==
    LET due == {i \in Slots : clients[d][i].state = "active"
                                /\ Due(clients[d][i], seconds)}
        new == [i \in Slots |-> hs_step(clients[d][i], seconds)]
        last == LastOf(due)
    IN /\ clients' = [clients EXCEPT ![d] = new]
       /\ net' = net \cup {Post(new[i].key, new[i].posted) : i \in due}
       /\ callback' = IF due = {} THEN callback
                      ELSE [callback EXCEPT ![d] =
                              [slot |-> last, key |-> new[last].key,
                               at |-> new[last].posted]]

Process(d, seconds) ==
    /\ hs_process(d, seconds)
    /\ lm' = [lm EXCEPT ![d] = lm_process(@, seconds)]
    /\ UNCHANGED <<om, hs, ever, applied, doomed, outages>>

(***************************************************************************)
(* The accessory.                                                          *)
(***************************************************************************)
\* Faulty variant: the flags of the window are not looked at.
validate_challenge_AnyIndex(d, k) ==
    k.acc = d /\ Hs!id_within_window(hs[d], k.idx)

\* ..._server_validate_challenge: the indexes of the window that are not
\* flagged are tried.
validate_challenge(d, k) == k.acc = d /\ Hs!usable(hs[d], k.idx)

\* ..._server_post_finalize_success_state.
finalize_success_state(d, k) ==
    hs' = [hs EXCEPT ![d] = Hs!set_id_flag(@, k.idx)]

\* nexus_channel_res_link_hs_server_post.  A POST that is not for this device,
\* was used before, or for which no link can be created is refused and changes
\* nothing here.
ServerPost(m, d) ==
    /\ m.code = "post"
    /\ validate_challenge(d, m.key)
    /\ create_link_allowed(lm[d], m.key.ctl, "accessory")
    /\ lm' = [lm EXCEPT ![d] = create_link(@, m.key.ctl, "accessory", m.key)]
    /\ finalize_success_state(d, m.key)
    /\ net' = net \cup {Created(m.key, m.at)}
    /\ ever' = [ever EXCEPT ![d] = @ \cup {m.key}]
    /\ UNCHANGED <<om, clients, callback, applied, doomed, outages>>

(***************************************************************************)
(* The controller.  A response is taken for the callback that has its      *)
(* token; the handshake is the one whose address the callback carries,     *)
(* whatever it has been used for since.                                    *)
(***************************************************************************)
proves_key(d, m) ==
    /\ clients[d][callback[d].slot].state = "active"
    /\ clients[d][callback[d].slot].key = m.key

\* nexus_channel_res_link_hs_client_post, then oc_ri_invoke_client_cb frees
\* the callback in every case.
ClientPost(m, d) ==
    LET slot == callback[d].slot
    IN /\ m.code = "created" /\ m.key.ctl = d
       /\ callback[d] # NoCallback
       /\ callback[d].key = m.key /\ callback[d].at = m.at
       /\ IF proves_key(d, m)
               /\ create_link_allowed(lm[d], m.key.acc, "controller")
          THEN LET key == clients[d][slot].key
               IN /\ lm' = [lm EXCEPT ![d] =
                              create_link(@, m.key.acc, "controller", key)]
                  /\ clients' = [clients EXCEPT ![d][slot] = Idle]
                  /\ ever' = [ever EXCEPT ![d] = @ \cup {key}]
          ELSE UNCHANGED <<lm, clients, ever>>
       /\ callback' = [callback EXCEPT ![d] = NoCallback]
       /\ UNCHANGED <<om, hs, net, applied, doomed, outages>>

CallbackRemoved(d) ==
    /\ callback[d] # NoCallback
    /\ callback' = [callback EXCEPT ![d] = NoCallback]
    /\ UNCHANGED <<om, hs, clients, lm, net, ever, applied, doomed, outages>>

\* A secured message over link i is verified.
LinkUsed(d, i, due) ==
    /\ i \in in_use(lm[d])
    /\ lm' = [lm EXCEPT ![d] = link_used(@, i, due)]
    /\ UNCHANGED <<om, hs, clients, callback, net, ever, applied, doomed, outages>>

(***************************************************************************)
(* Power loss: what is left is in NV.  Between two handlers, or within one *)
(* that has just deleted the link that a new one is to replace.            *)
(***************************************************************************)
Restart(d, nv) ==
    /\ outages < MaxOutages
    /\ outages' = outages + 1
    /\ clients' = [clients EXCEPT ![d] = [i \in Slots |-> Idle]]
    /\ callback' = [callback EXCEPT ![d] = NoCallback]
    /\ lm' = [lm EXCEPT ![d] = lm_init(nv)]
    /\ doomed' = [doomed EXCEPT ![d] = {}]
    /\ UNCHANGED <<om, hs, net, ever, applied>>

PowerLoss(d) == Restart(d, lm[d].nv)

PowerLossWhileLinking(d) ==
    \E m \in net :
        LET peer == IF m.code = "post" THEN m.key.ctl ELSE m.key.acc
        IN /\ \/ /\ m.code = "post"
                 /\ validate_challenge(d, m.key)
                 /\ create_link_allowed(lm[d], peer, "accessory")
              \/ /\ m.code = "created" /\ m.key.ctl = d
                 /\ callback[d] # NoCallback
                 /\ callback[d].key = m.key /\ callback[d].at = m.at
                 /\ proves_key(d, m)
                 /\ create_link_allowed(lm[d], peer, "controller")
           /\ Restart(d, clear_links(lm[d], create_link_replaces(lm[d], peer)).nv)

Next ==
    \/ \E c \in Commands : EnterCommand(c)
    \/ \E d \in Devices :
          \/ DeleteAllLinks(d)
          \/ \E seconds \in Steps : Process(d, seconds)
          \/ \E m \in net : ServerPost(m, d) \/ ClientPost(m, d)
          \/ CallbackRemoved(d)
          \/ \E i \in Index, due \in BOOLEAN : LinkUsed(d, i, due)
          \/ PowerLoss(d)
          \/ PowerLossWhileLinking(d)

Spec == Init /\ [][Next]_vars

\* The product calls nx_common_process when asked to, so time goes on.
Fairness ==
    \A d \in Devices : WF_vars(\E seconds \in Steps \ {0} : Process(d, seconds))

FairSpec == Spec /\ Fairness

-----------------------------------------------------------------------------

(***************************************************************************)
(* The links implement LinkContract: over any order, loss and repetition   *)
(* of messages and commands and any power losses, a challenge links an     *)
(* accessory once, a controller's link was accepted by the accessory       *)
(* first, a device has one link per peer and no link comes back after it   *)
(* was deleted in RAM and in NV.                                           *)
(***************************************************************************)
Contract == INSTANCE LinkContract
    WITH held <- [d \in Devices |-> HeldKeys(lm[d])]

ContractHolds == Contract!Spec

\* An origin command is flagged in NV exactly when it was applied, and applied
\* once: one that was refused because every handshake was active can be entered
\* again, one that was applied cannot, also after the window moved or power was
\* lost.  A command below the window is lost.
FlaggedIffApplied ==
    /\ applied.again = {}
    /\ \A c \in Commands :
          LET w == om[c.to]
          IN /\ c \in applied.once => ~Om!usable(w, c.id)
             /\ Om!id_flag_already_set(w, c.id) => c \in applied.once

\* When a request to clear all links has been served, none of the links the
\* device had, or was about to add, when it was made is left.
ClearIsComplete ==
    \A d \in Devices :
        ~lm[d].clearing => doomed[d] \cap HeldKeys(lm[d]) = {}

\* RAM and NV hold the same links, so that power loss neither loses one that
\* is in the table nor brings one back.
NvMirrorsTable ==
    \A d \in Devices, i \in Index :
        LET l == lm[d].links[i]
            n == lm[d].nv[i]
        IN IF l = NoLink THEN n = NoLink
           ELSE n # NoLink /\ n.key = l.key /\ n.peer = l.peer /\ n.mode = l.mode

\* The devices come to rest: whatever is lost, repeated or cut off by a power
\* loss, every handshake a controller starts ends, by the link or by its
\* timeout, and its slot is free again; a pending link is added; and a request
\* to clear all links is served although a pending link goes first.
Settles ==
    <>[](\A d \in Devices :
           /\ \A i \in Slots : clients[d][i].state = "idle"
           /\ ~lm[d].clearing
           /\ lm[d].pending = NoLink)

\* The link table is what was asked of it, also after power was lost: all the
\* links there were when clearing was requested are gone, and RAM and NV have
\* the same ones.
TableAsRequested == ClearIsComplete /\ NvMirrorsTable

=============================================================================
