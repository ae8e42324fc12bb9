# Verification of the Nexus embedded library

TLA+ models of the Nexus library (`nexus/src`): the part of a pay-as-you-go
product that accepts *keycodes* typed by a user, turns them into usage credit,
and links products to each other over *Nexus Channel*. TLC checks the models
on small instances; TLAPS proves the safety properties of the keycode
protocol, of message assembly, of links, of the credit they carry and of the
resources they reach for every instance.

1 Inventory - 2 Plan - 3 Modules - 4 Runs - 5 Proofs - 6 Where code and
comments differ - 7 Not modelled

## 1. Inventory

### Nexus Keycode

| Component | State | Operations |
|---|---|---|
| Message assembly (`nexus_keycode_mas.c`) | keys of the open entry, start seen, time stamp of the last key, rate-limit bucket (seconds), grace count (NV block KEYCODE_MAS) | one key (interrupt), a whole keycode, process (refill, save grace count, timeout), init |
| Protocol layer (`nexus_keycode_pro.c`) | one pending frame; stored record: Pd, received flags, QC counts, RESTRICTED flag (NV block KEYCODE_PRO) | enqueue, process: parse, infer the ID, check, apply; init; set_custom_flag |
| Extended commands (`nexus_keycode_pro_extended.c`) | none of its own | windowed inference and apply, for passthrough keycodes of the small protocol |
| Core and common (`nexus_keycode_core.c`, `nexus_common_internal.c`) | uptime | init and process of the others, in a fixed order |
| NV (`nexus_nv.c`) | blocks with ID and CRC | update (skips identical data), read (ignores invalid blocks) |
| Product interface (`nxp_*`, external) | PAYG credit: disabled, enabled, unlocked | add, set, unlock |

A key press calls message assembly, possibly in an interrupt. The key that
completes an entry deducts one attempt from the bucket and hands a frame to
`nexus_keycode_pro_enqueue`, which keeps it when no other frame is pending. The
main loop calls `nx_common_process`, which refills the bucket, saves the grace
count, checks the entry timeout, and then lets the protocol layer apply the
pending frame: NV writes and calls of the product interface, one after another.

What is hard: keys interrupt the main loop between any two accesses to shared
variables; power is lost between any two effects of a frame; keycodes arrive
in any order, repeatedly, and some never; the ID travels in 6 bits and is
inferred from a window that moves; the window moves by up to 40 IDs with a mask
of only 24 flags.

What makes it correct: a keycode takes effect at most once; a SET or WIPE ends
every older keycode; a keycode that was never entered is not refused as a
duplicate; a consumed keycode has its effect; every attempt costs an attempt,
across power cycles too; an entry is handed over as typed or not at all, and
expires when idle and only then.

### Nexus Channel

| Component | State | Operations |
|---|---|---|
| Origin commands (`nexus_channel_om.c`) | command window (NV block CHANNEL_OM) | parse, infer the command ID in the window by its MAC, apply, flag |
| Link handshake (`nexus_channel_res_link_hs.c`) | controller: handshake slots; accessory: handshake state and window (NV) | start on an origin command, POST and retries, accessory validation, response, timeouts |
| Link manager (`nexus_channel_res_lm.c`) | link slots with key, nonce, ages (one NV block each), pending add, pending clear | create, clear all, process, set nonce, init with nonce jump |
| Security manager (`nexus_channel_sm.c`) | list of secured resource methods | authenticate requests and responses by MAC and nonce, nonce sync |
| PAYG credit resource (`nexus_channel_res_payg_credit.c`) | mode (independent, leading, following), times since the last update, POST and cycle, the accessory updated last | process: cycle of POSTs, loss of credit; GET and POST handlers; init |
| Core and OC wrapper (`nexus_channel_core.c`, `nexus_oc_wrapper.c`) | registered resources | registration, requests, network receive, order of init and process |
| COSE MAC0, SipHash | none | sign, verify |

Controller and accessory exchange CoAP messages that can be lost, duplicated
and reordered; both persist their windows and links, and both can lose power.
An origin command, typed at the controller, starts a handshake there; the
controller POSTs the challenge to the accessory and repeats it until it is
answered or times out; the accessory, if the challenge is valid at an index it
has not used, creates its link and answers; the answer lets the controller
create its own. Links end by timeout, by a command that clears all, or when a
new link to the same device replaces them. A link carries a nonce: a secured
request has the nonce of the link plus one; an end that finds a nonce stale
answers with its own (a *nonce sync*, CoAP code 4.06), and the controller takes
it over and sends the request again from the transaction it has kept. The
nonce is written to NV once per interval of 64, in the process call after the
messages were handled, and a restart adds 64 to what it reads.

What is hard: the NV flag of a command and what the command asks for are
separate, so are the two ends' links, and deleting an old link and adding the
new one; all handshakes share one client callback; late and repeated answers
meet slots that were reused.

What makes it correct: no command and no challenge takes effect twice, also
across restarts; a controller has a link only to an accessory that accepted that
very key; a link that is gone stays gone; RAM and NV agree; every handshake
ends; a nonce that was accepted is never accepted again; a resend never
executes a request twice; credit given by a controller ends with it.

### The IoTivity fork (`nexus/oc`)

| Component | State | Operations |
|---|---|---|
| Events, timers, pools (`util/oc_process.c`, `oc_etimer.c`, `oc_timer.c`, `oc_memb.c`) | bounded event queue, running timers, free blocks | post, run, set, expire, allocate, free |
| Messaging (`api/oc_buffer.c`, `oc_ri.c`, `oc_client_api.c`, `messaging/coap/engine.c`, `transactions.c`) | buffers with reference counts, open transactions, client callbacks, delayed callbacks | send, receive, dispatch, answer, resend, idle timeout, removal |
| Requests to resources (`api/oc_ri.c`, `oc_server_api.c`, `oc_core_res.c`) | list of resources | add, find, choose interface and handler, answer |
| Formats (`messaging/coap/coap.c`, `api/oc_rep.c`, TinyCBOR) | none; pools of representation nodes, bytes and integers | serialize, parse, encode, iterate |
| Managed memory (`util/oc_mmem.c`, `api/oc_helpers.c`) | pool, list of handles | allocate, free with compaction |

All of it runs in the main loop: what is hard is not preemption but limits (a
queue, pools of two buffers, one-byte tokens) met half way through a handler,
timers that outlive what they were set for, and bytes from the network.
What makes it correct: no buffer is lost whatever was full, a request is
answered at most once and ends, a request reaches its own handler or is refused,
and what one end writes the other end reads, or notices that it cannot.

### Outside the models

`Kconfiglib`, `examples/`, `nexus/stub` and `nexus/test` are build tooling,
sample products, stubs and tests.

## 2. Plan

Done: the keycode core (`KeycodeWindow`, `KeycodePro`, `KeycodeMas`) and its
first proofs; established links (`SecuredLink`); how links come about
(`ReceiveWindow`, `LinkTable`, `LinkSetup`) and what they promise
(`LinkContract`); the PAYG credit resource (`PaygCredit`); the layer below
(`OcMessaging`, `ResourceTable`) and the formats (`KeycodeCodec`,
`OriginCommand`, `LinkHandshake`, `NvBlock`, `SipHash`, `CoseMac0`, `Cbor`,
`OcRep`, `CoapMessage`, `OcHeap`).

Proved: the safety properties of `KeycodePro`, `KeycodeMas`, `SecuredLink` and
`LinkSetup` with its refinement of `LinkContract`, `CreditFollowsController`
of `PaygCredit`, `Accounted` of `OcMessaging` and all safety properties of
`ResourceTable` (section 5).

Worth modelling next: message assembly and protocol layer composed
through the one-frame buffer, and a protocol layer whose NV writes fail.

## 3. Modules

### KeycodeWindow

The pure part of the message-ID window, one operator per C function and with its
name: `infer_full_message_id`, `is_message_id_within_window`,
`mask_idx_from_message_id`. `received_flags` is the set of the mask indices
whose bit is 1. `ShiftedFlags` is the copy loop of
`increase_pd_and_shift_window_right`, `UpdatedMaskIndex` the index that
`update_window_and_message_mask_id` returns. IDs are naturals; `uint16` is
the conversion at the calls that take a `uint16_t`. The sizes are constants;
the only relation assumed is the one the code rests on, that the window is as
wide as the space of transmitted IDs (23 + 40 + 1 = 64).

### KeycodePro

| Variable | Code |
|---|---|
| `stored` | `_nexus_keycode_stored`: `pd`, `flags`, `short`/`long` (the nibbles of `qc_test_codes_received`), `restricted` |
| `nv` | NV block KEYCODE_PRO and whether it is valid |
| `inbox` | `_this_core.frame` while `_this_core.pending` |
| `phase` | the point the handler of the frame has reached |
| `payg` | the product's PAYG state (external) |
| `hist`, `floor`, `maskTop`, `qcGranted`, `torn`, `outages` | history, read by the properties only |

`nexus_keycode_pro_process` is cut at every effect: an NV write or a call of the
product interface. `BeginFrame` goes from the pending frame to the first
effect, `ContinueFrame` has the following ones; which action follows is the
phase. The marking of IDs is up to three writes: cleared flags (`"wiped"`),
raised Pd (`"shifted"`), set flags (`"marked"`). `PowerLoss` is possible in
every state and restarts the unit from NV.

A keycode is a record of type, issued ID and the argument the code branches on.
What travels is `id % IdSpace`; the check field is ideal, so a keycode passes
exactly when the unit infers the ID it was issued for. Parsing,
deinterleaving and the real check are in `KeycodeCodec`; here a keycode that
does not parse is `GARBLED`. Amounts of credit are not counted: `payg` is what the code
asks for (`nxp_common_payg_state_get_current`). Both protocols are one module
with `Protocol` as a constant, because they share everything from the ID
inference to the NV record; where they differ (WIPE has no ID in the small
protocol, DEMO exists in the full one, extended keycodes in the small one)
`Frames`, `Numbered` and the guards say so.

An *epoch* lasts from one wipe of the message IDs to the next: after
WIPE mask the code accepts every ID again on purpose, and the history restarts.

### KeycodeMas

| Variable | Code |
|---|---|
| `bucket`, `grace`, `partial`, `exceeded` | `_this_core` of `nexus_keycode_mas.c` |
| `stop_length` | `_this_bookend.stop_length`: entries end at this length, or by a key (255) |
| `startSeen`, `latest` | `_this_bookend`; `Unset` is UINT32_MAX, which is -1 modulo 2^32 |
| `nv` | NV block KEYCODE_MAS |
| `proc`, `sum` | where `nx_common_process` stands, and the bucket level it has computed |
| `slot` | the protocol layer's pending frame |

The process call is cut at its accesses to what the interrupt also writes: the
bucket is read (`nx_common_process`), written (`StoreBucket`), read for the grace
count, the stamp is set (`StampLatest`), read again (`CheckElapsed`), and the
two resets of an expired entry are two steps (`ExpireEntry`, `ClearExpired`).
With `Preemptive` TRUE a key can come between any two of them, as the header
allows (`nx_keycode.h`: "may be called within an interrupt"); a key itself is
one step because nothing interrupts an interrupt. A complete keycode "should
not be called from within an interrupt", so it comes between process calls; it
is one step because it is the interface of products that pass whole keycodes
instead of single keys (`nx_keycode.h:37`), so that no key falls into it.
`raced` remembers which of the half-done accesses a key has hit, so that the
properties can say what holds otherwise.

### SecuredLink

| Variable | Code |
|---|---|
| `nonce`, `persist` | `security_data.mode0.nonce` and `link_idx_should_persist_nonce` of the link, at each end |
| `nv` | the nonce in the link's NV block, at each end |
| `cached`, `stored`, `released` | open CoAP transactions of the controller, the nonce in the message each has kept, and those whose message buffer has gone back to the pool |
| `waiting` | client callbacks still registered |
| `net`, `doubled` | datagrams on their way: requests, responses, nonce syncs; those of which there are two |
| `repeated` | requests sent again by the idle timer of another one |
| `sent`, `runs`, `ran`, `copied`, `mixed`, `leapt`, `lapsed`, `outages` | history |

Receiving a message is one action per outcome of
`nexus_channel_authenticate_message` and what `coap_receive` does with it:
`RejectRequest` and `RejectResponse` send a nonce sync, `ResetNonce` is the
forced reset near the end of the range, `ExecuteRequest` and `AcceptResponse`
call the application, `AcceptSync` takes over the nonce and sends the request
again. `IdleTimeout` is `coap_check_transactions` when a cached request was
never answered: its callback is called with an error, and every *other* cached
request is sent once more under the nonce it had, and its transaction is
cleared, while its callback stays until its lifetime is over
(`CallbackLifetime`). Handling a message and saving the nonce are separate actions
(`PersistNonce` is the part of `nexus_channel_link_manager_process` that writes
it), because power can be lost in between. `nonce + 1` and the jump on restart
are computed modulo `NonceModulus`, as the uint32_t of the code.

The MAC is ideal. Message IDs and tokens are the request they belong to, so two
ends never pick the same ID by chance. The resend hands the transaction's
buffer to the network layer without a reference of its own; `ResendBuffer` lets
a second resend send whatever an open transaction may have put there, or
nothing.

### LinkTable, ReceiveWindow and LinkSetup

`ReceiveWindow` is `nexus_util_window_*`, the window of origin commands,
handshakes and extended keycodes: a centre and a set of flagged IDs, that
accepts IDs up to `Above` past the centre and forgets those more than `Below`
behind it. `LinkTable` is the state of one link manager as a record (`links`,
`nv`, `pending`, `clearing`) and its operations as operators on it:
`create_link`, `clear_all_links`, `age_links`, `add_pending`, `lm_process`.

| Variable of `LinkSetup` | Code |
|---|---|
| `om` | `_nexus_om_stored`, window of command IDs, in NV |
| `hs` | `stored_accessory`, window of challenge indices, in NV |
| `clients` | the controller's handshake slots: key, age, seconds since the POST |
| `callback` | the one client callback registered for `/h` |
| `lm` | the link manager of each device |
| `net` | every message sent so far |
| `ever`, `applied`, `doomed`, `outages` | history |

| Action | Code |
|---|---|
| `EnterCommand` | `nx_channel_handle_origin_command`: window, MAC, application, NV flag |
| `DeleteAllLinks` | the product's request to delete all links |
| `Process` | the process calls of handshake and link manager, in their order |
| `ServerPost` | the accessory's POST handler |
| `ClientPost` | the controller's response handler, through the shared callback |
| `CallbackRemoved` | a refusal, an expired callback, a POST that was not sent |
| `LinkUsed` | a secured message resets the link's idle time |
| `PowerLoss`, `PowerLossWhileLinking` | restart from NV, also between the deletion of an old link and the rest of the handler |

A message stays in `net` once it is sent, so it can be lost, late, out of order
and delivered again. MACs are ideal; salts never repeat.

`LinkContract` is the abstract specification: `held` and `ever`, the keys of
the links each device has and has had; `Accept` and `Drop`. `LinkSetup`
implements it under the mapping `held <- keys of lm[d]`: `ContractHolds`.

### PaygCredit

One device with its links, credit and the resource's state. `Process` is the
core's process call: links change, then the resource adjusts the credit, and
as a leader sends at most one POST. A process call comes when it was asked for
or earlier (`slept`, `sleep`). Messages of the controller set the credit;
GETs, changes of links and of the PAYG state, failing POSTs and restarts are the
environment, the latter bounded. `gap` is the time since an accessory's last
POST, the last change of the links or a restart, `silence` the time
since the controller last set the credit.

### OcMessaging

One device's messaging layer. The variables are its pools and lists: `events`,
`incoming` and `outgoing` buffers with their reference counts, `transactions`,
`client_cbs`, `timed` (delayed removals). `Request` and `HandshakePost` are the
two ways in which requests are made, `NetworkReceive` puts a datagram into a
buffer and the queue, `Process` lets timers age and starts `oc_main_poll`, and
`RunOnce` handles one event or poll, until there is nothing to do (`draining`).
A handler is one step, written as a chain of operators on a record of all the
variables, in the order of the C calls. What becomes of an answer is one of four
`Outcomes`: it is sent; it is not, because the resource ignores the request or
the answer does not serialize; it could not be secured, which
clears its transaction before it is serialized and sent all the same; or the
request had no token, and the answer is neither sent nor its transaction
cleared. Messages from the network may carry the ID of any open transaction.

### ResourceTable

`app` (resources in order), `slots` (blocks of the pool), `secured` (URI and
method), `last` (the last request and its answer). `Register` and
`RegisterHandler` are the two calls of the application, `Receive` takes a
request through the check of its security, the search, the interface and the
handler to its answer. A handler's verdict (created, changed, content, bad
request) and the size of what it wrote come with the request, since the model
has no bodies of handlers: one may run and still refuse, as the POST handlers of
`/h` and of the PAYG resource do. A secured answer without a payload is copied
through a null pointer (`engine.c:799`): its outcome is "fault" or, where that
address can be written, the answer. URIs are sequences of letters because two comparisons of
URIs, one by prefix, decide what is served.

### The formats

Operators without state; `MCCodecs` gives them inputs, one per state.

| Module | Code |
|---|---|
| `KeycodeCodec` | digit and bit streams, deinterleaving, every keycode format of both protocols, the check fields, the table of days |
| `OriginCommand` | digits, obscuring, inference of the ID and MAC of an origin command |
| `LinkHandshake` | derivation of the link key, payloads of both ends, the accessory's search for the challenge |
| `SipHash` | SipHash-2-4 on 16-bit limbs, since TLC's integers have 32 bits |
| `CoseMac0` | MAC structure, message on the wire, verification, repacking |
| `Cbor` | TinyCBOR's encoder and iterator with their error paths; a walk that fails the code's own assertion has `broken`, one that reads a byte past the end `overread` |
| `OcRep` | `oc_rep_set_*` and the parser with its pools of nodes, bytes and integers, and what it does when each runs out |
| `CoapMessage` | serializing and parsing of messages and options, with the map of option bits; a bit set behind its ten bytes makes the packet `astray` |
| `NvBlock` | block layout, CRC, update, read |
| `OcHeap` | managed memory by element, with compaction |

The keys, MACs and CRCs here are the real ones. The modules with state treat
them as ideal: with `KeysReadAsIssued`, `SecuredFaithful` and `BlocksFaithful`
the runs show on samples what that assumption stands for.

The `MC...` modules are those TLC runs on. Operators named `..._<Fault>` next
to a definition are faulty variants of it: each property, and of a property
that is a conjunction each part, is seen to fail when the definition is
replaced by one of them.

## 4. Runs

| Run | Question | Bounds |
|---|---|---|
| `pro_full` | full protocol: `AtMostOnce`, `NoStaleApply`, `NoFalseDuplicate`, `NoSilentLoss`, `QcLimitPerEpoch`, `StoredPersisted` | window 1 below, 2 above; IDs 0, 1, 3, 4; every keycode type; QC limits 1 and 0; one power loss |
| `pro_small` | small protocol with extended keycodes: the same invariants as `KeycodesSound`, and liveness `FrameResolved` | IDs 0, 1, 3; QC limits 0 and 1; one power loss |
| `mas` | `RateBound`, `PowerCycleGain`, `EntryTimely`, `OnlyIdleEntriesExpire`, and `HandedOver` (frames as typed, paid for, taken up: the last is liveness) | one digit; entries that end by key and at length 2; 3 keys typed, 3 entries; bucket of 3, uptime up to 5, timeout 2; one power loss |
| `link_copies` | `NonceSaved`, `FreshOnly`: no message is executed twice | one request, one copied message, losses, two power losses; starts 0, 2, 5, 8 |
| `link_serve` | `OneExecution`: a resend after a nonce sync never repeats a request that was served; liveness: `Quiesces`, `Served` | two requests at once, idle timeouts of each, one power loss, no loss, no copies; starts 0 and 1 |
| `setup_pair` | `FlaggedIffApplied`, `TableAsRequested`, the refinement `ContractHolds`, liveness `Settles` | a controller and an accessory; two commands to link and one to unlink; one slot, one link; handshake window 1 below, 2 above; two power losses |
| `payg` | `NoneStarved`, `CreditFollowsController` | three accessories, one controller; interval 1, cycle 4, silence 12; one failing POST, four changes of links or restarts, any number of the PAYG state; symmetric in the accessories |
| `messaging` | `Accounted` (no buffer lost, no request answered twice), liveness `PoolsRecover` | queue of 2, two buffers, two transactions, three client callbacks, four event callbacks, one token; two requests made, two messages received |
| `dispatch` | `SecuredNotServedPlain`, `ServedRight`, `HandlerKept` | four resources, among them URIs with and without a slash and one that begins another |
| `codec` | one property per format, see below | sixteen kinds of input, some 202 000 in all |
| `v_shift`, `v_prefix` | must fail, see section 6 | as `pro_full`, as `dispatch` |

`TypeOK` is checked for every module with state: on its own in `pro_full`,
`mas`, `link_serve` and `setup_pair`, as a part of `KeycodesSound`,
`CreditFollowsController`, `Accounted` and `ServedRight` in the others.

Why the bounds are enough. With a window of 1 below Pd and 2 above, four IDs
reach every case of the marking: at Pd, below Pd with a flag, a shift that
keeps one flag, a jump that keeps none, and an ID that has left the window. One
power loss is enough for each gap between two effects; several in a row are
covered by the theorems. In `mas` time advances by steps of at most the timeout,
so that an entry is seen before, at and after it, and the bucket holds few
enough attempts to become empty and full. In `link_copies` nonces are counted modulo
12 with an interval of 3: four intervals, so that a start at 0, before a
boundary, and just before the forced reset (8) are all present, and two restarts
reach the end of the range. `link_serve` counts modulo 6 with an interval of 2:
there two requests, their timers and one restart are to be interleaved with the
nonce at and next to a boundary, and what it checks does not depend on the end
of the range, which the theorem covers. In `setup_pair` one slot and one link make every second
handshake meet a busy slot or replace a link, two challenges make the window
move, and the network repeats everything. Its timeouts are short so that a
handshake is retried and times out, and a link expires. The ages of links are
not counted (`AgeCap` 0): they are only compared with each other, to choose
which link a full table gives up, and a table of one link has no choice. In `payg` the ratios of
the times are those of the code (a silence is three cycles; a cycle is longer than
one POST to every accessory), and three accessories have a first, a last and one
in between. In `messaging` each pool can be exhausted by two requests and two
messages, and the queue by any two events. Deadlock is not an error in
`link_*`, `setup_pair` and `payg`, where requests, changes and faults are used
up, and in `codec`, whose behaviours are one step long.

The properties of `codec`:

| Property | Says | Inputs |
|---|---|---|
| `CborFaithful` | what is written is read back; a key is found where it is; cut, oversized and arbitrary bytes are noticed; no byte outside them is read, and no assertion fails except at one of the bytes 0xE0 to 0xF3 | nested and tagged items, numbers and lengths at each change of width; all payloads of up to 3 of 17 chosen bytes |
| `RepFaithful` | all properties of a payload when there is room for them, an error when nodes run out; with too few bytes or integers a property may be lost, but none has the name or value of another; all room is given back | objects, arrays, nested ones; pools with room for all, for one node, and for a few bytes and integers |
| `CoapFaithful` | messages arrive as built, fit their buffer and owe nothing to what the buffer held; of a datagram that is refused the option bits may | path, query and payload lengths around 12, 13 and the limits; datagrams over stale bytes |
| `SecuredFaithful` | both ends derive one key, once; every payload of up to 77 bytes fits; only what was sent is accepted | lengths around 23 and 24, altered and truncated messages, repeated and incomplete POSTs |
| `BlocksFaithful` | the CRC is CRC-CCITT; reads return the last write; foreign, damaged and torn blocks are refused | reads and writes that fail, erased memory, two adjacent bytes damaged, every torn write |
| `MemoryKept` | strings keep their contents; freed room is used again | all sequences of up to 5 operations on three handles |
| `KeysReadAsIssued` | keycodes and commands are read as what they were issued for, mistyped ones are refused, days are the days on offer | IDs around the window, each digit changed, frames of every length |

Exceptions. The properties say what the code does, and so they name what it does
not protect against:

- `AtMostOnce`, `NoStaleApply`: power lost in one of two gaps (`torn`), and IDs that
  do not fit 16 bits (`IdsFit`). `QcLimitPerEpoch`: power lost between credit and
  count (`torn`); it is stated from one WIPE of the message IDs to the next,
  which clears the counts (section 6). `NoSilentLoss`: power losses at all; the code marks before it
  credits.
- `RateBound`, `HandedOver`, `OnlyIdleEntriesExpire`: keys that hit
  the process call between two accesses (`raced`).
- `FreshOnly`: an accessory whose nonce fell through one of three gaps
  (`lapsed`): a save lost in the process call that owed it, a leap from 0 (`leapt`),
  and the end of the uint32_t range.
- `OneExecution`: copies. A copied request is refused by its nonce, but the
  refusal is itself a nonce sync, and the controller sends the request again
  under a new nonce (duplicate detection by message ID is off by default). Also a
  second resend from a buffer that is no longer the transaction's, and requests
  that another one's idle timer has sent again (`repeated`): those carry the
  nonce they had, so an accessory that executed them refuses them (`FreshOnly`)
  unless its nonce has lapsed.
- `Served` speaks of a single request, since `nexus_oc_wrapper.c` declares
  simultaneous requests unsupported: a response to one makes the nonce sync of
  the other stale, and it is not sent again.
- `NoneStarved` speaks of links that stay as they are, after any changes, and of
  POSTs that can be made: then every accessory has its turn within a round,
  however often the PAYG state changes. Links that keep coming and going begin
  the round again each time, and the last accessory may starve; nothing in the
  code limits them.
  `CreditFollowsController`: power lost between the end of a link and the process
  call of the resource (`orphaned`).
- `PoolsRecover`: transactions, with their buffers, that the answers to requests
  without a token leave behind. Only a message that carries the same ID, or the
  idle timer of a request of the device's own, gives them back.
- `ServedRight`: an error of a handler is not answered to a multicast, and an
  answer without a payload to a linked node may fault.
- `KeysReadAsIssued`: extended keycodes whose 12 check bits fit a lower ID too
  (`Alike`), and the reserved digits of QC test codes. `CborFaithful`: simple values
  without a name, which fail an assertion of the parser (`broken`).
  `RepFaithful`: nodes that run out inside a nested object, and arrays whose room
  in the pool of bytes or integers cannot be had, where the code goes on through
  a null pointer (`crashed`). `CoapFaithful`: the option bits of refused datagrams
  (`coap_receive` answers or drops these without looking at them), and option
  numbers from 80 on (`astray`). `BlocksFaithful`: an invalid block with the data to be
  written. `MemoryKept`: arrays of integers not freed last first (`lifo`).

Fairness. `FairSpec` of `KeycodePro` has weak fairness of `pro_process`: every
enqueue calls `nxp_common_request_processing`, and each process call handles
the pending frame to its end. `FairSpec` of `KeycodeMas` has weak fairness of
`Process`: the product must call `nx_common_process` again within the number of
seconds it returned; for the same reason `LinkSetup` has weak fairness of
process calls with time passing, of each device. `FairSpec` of `SecuredLink` has
weak fairness of receiving some message: the engine's process handles its queue
until it is empty. It is used with `Lossy` FALSE only. `FairSpec` of
`OcMessaging` has weak fairness of `RunOnce`, the loop of `oc_main_poll`, and
strong fairness of process calls in which a second passes, which are possible only
while the loop is not running. No fairness is assumed of keys, commands,
messages, requests, losses, users or power: `Settles` and `PoolsRecover` hold
when every message is lost.

## 5. Proofs

Every theorem is about a module's whole specification and holds for all values
of its constants under its named assumptions, which TLC evaluates in every run.
They say which sizes are possible (a window as wide as the ID space, a bucket of
at least the initial count, a nonce range of whole intervals, a cycle longer
than one POST to every accessory), that the sets of messages and devices are
finite where the code counts them, and that placeholders (`NoRequest`, `None`)
are not members of them. No theorem has a bound: numbers of power losses, faults,
keys and messages are constants like the others. One needs the size the code has:
`AllServedRight` of `ResourceTable`.

### KeycodePro (`KeycodeProProofs`, `KeycodeProSoundProofs`)

- `TypeCorrect`, `Persisted`, `NoReplay`, `NoStale`: `TypeOK`,
  `StoredPersisted`, `AtMostOnce`, `NoStaleApply`.
- `NothingLost`, `QcLimited`, `NoneFalselyRefused`: `NoSilentLoss`,
  `QcLimitPerEpoch`, `NoFalseDuplicate`. `Sound` puts all of them together as
  `KeycodesSound`, for both protocols.

The interesting parts of `TypeOK` are `pd >= Below`, which keeps the unsigned
`pd - 23` of the code from wrapping, and that flags stay inside the mask. It and
`StoredPersisted` rest on `Inv1`: types, persistence, and `PhaseInv`, what each
phase implies about the frame in hand; without it, for instance, nothing says that
Pd rises when it is written.

`AtMostOnce` and `NoStaleApply` rest on `ReplayInv`. `AtMostOnce` is
far from inductive: it says nothing about which IDs the stored record would
accept. Call an ID *dead* when its keycode was applied or a SET or WIPE with
this or a higher ID was, and *covered* when the stored record refuses it: it is
below the window, or flagged. `DeadCovered` says that every dead ID is covered,
with the two exceptions that occur while a frame is handled: after a jump has
cleared the flags dead IDs are only known to be at most the old Pd (raising Pd
then puts them below the window, `JumpCovers`), and an extended keycode is dead
before it is covered. `FrameAlive` carries the result of the duplicate test to
the moment the keycode is applied. The lemmas that do the work are
`MarkKeepsCovered`, `MarkCovers`, `ShiftKeepsCovered` and `JumpCovers`: marking
and moving the window never uncover an ID. `AcceptedAlive` turns them
around: a frame that passes the checks is not dead. Power loss is harmless
unless it falls into one of the two exceptions, and `torn` records exactly those.

`NoFalseDuplicate` is the mirror image and needs an invariant of its own,
`FlagInv`: every flag of the window, read back as an ID, is *known*, that is
entered or at most the highest masking ID (`FlagsKnown`), and so is the ID the
handler is about to mark (`FrameKnown`). Marking and shifting must then be shown
to set no other flag (`MarkedFlags`, `ShiftedFlagsKeep`). `EnteredIsHandled`, for
`NoSilentLoss`, says that the only ID consumed without its effect is the one
being handled; `GrantsCounted`, for `QcLimitPerEpoch`, relates grants to the stored
count with the one that is granted and not yet counted.

### KeycodeMas (`KeycodeMasProofs`)

- `MasTypeCorrect`, `RateLimited`, `PowerCycleBounded`, `EntriesTimely`:
  `TypeOK`, `RateBound`, `PowerCycleGain`, `EntryTimely`.
- `TimeoutCancelsIdle`: `OnlyIdleEntriesExpire`.
- `FramesAsTyped`, `ChargedFirst`: the two safety parts of `HandedOver`.

A process call holds values that keys change under it, so the invariants speak
of what it has in hand. `BucketInv`: the sum it has computed and not stored is at
least the bucket and is itself paid for (`SumPaidFor`), and the grace count in
RAM is what a restart would read (`GraceSaved`). `Stamped`: how far the stamp of an
open entry can lie behind its last key at each point of the call. `EntryInv`:
what the timeout check has decided to expire is idle, and the frame assembled
is what was typed. `ChargeInv`: between the save and the hand-over the
frame in the slot has been charged. The proof of `PowerCycleGain` found that it
holds with no exception for races; the property was strengthened accordingly.

### SecuredLink (`SecuredLinkProofs`)

- `LinkTypeCorrect`, `NoncesSaved`, `Fresh`, `ExecutedOnce`: `TypeOK`,
  `NonceSaved`, `FreshOnly`, `OneExecution`.

`NonceSaved`, that the nonce is at most an interval ahead of the saved one,
is not inductive: one more message would exceed the interval. `NonceKept` says
why that message is noticed: since the save the nonce has passed no multiple
of the interval (`NoMultiple`), and an interval of numbers holds one
(`MultipleWithin`). `FreshOnly` rests on `RanBelow`: whatever was executed has
a nonce at most the accessory's. `OneExecution` rests on `OneToken`: without
copies a request is in one place, not yet made, in exactly one request or
nonce sync, which the network holds once, or served; each receive moves it. An
idle timeout is the one step that makes a second message of a request, and it
records those in `repeated`; for the same reason `TypeOK` says that a callback
has an open transaction or is that of a repeated request.

### LinkSetup (`LinkSetupProofs`)

- `SetupTypeCorrect`, `CommandsOnce`, `TableRight`: `TypeOK`,
  `FlaggedIffApplied`, `TableAsRequested`.
- `ContractImplemented`: `Spec => ContractHolds`, the refinement of
  `LinkContract`.

`Typed` adds to `TypeOK` that every link in a table is one of its device and
that RAM and NV mirror each other; one lemma per operation of the link manager
(`CreateTable`, `ClearTable`, `AgeTable`, `AddTable`, ...) shows it kept.
`CommandInv`: an applied command is never above the centre of the window,
so that it cannot come into the window unflagged when that moves. `KeyInv` is about
keys: one an accessory has used is used up in its window of handshakes
(`UsedUp`), an active handshake has a key that its controller never had and no
other handshake has (`OwnHandshakes`), and an answer proves that the accessory
had the key first (`AcceptedFirst`).

For the refinement each action is shown to do one of two things to the links of
one device: `Taken(d, k)`, take on the link of a key that is new to it, or
`Dropped(d)`, let go of some. `AcceptStep` and `DropStep` map these to
`Accept` and to `Drop` or a stutter. The case with two effects is the
POST handler, which clears the old link to a peer and takes on the new one: it is
one `Accept`, whose contract allows for that, and a power loss in between
is a `Drop`.

### PaygCredit (`PaygCreditProofs`)

- `CreditEnds`: `CreditFollowsController`.

`PaygInv` adds to the types that a device has one role (`Roles`: a
linked controller means that the resource follows, and a link about to be added
again has a free slot) and that the silence of the controller is at most what the
resource counts and the time slept since (`Counted`). The second is what the
code relies on when it adds up the seconds of its process calls.

### ResourceTable (`ResourceTableProofs`)

- `SecuredStaysSecured`, `HandlersStay`: `SecuredNotServedPlain`, `HandlerKept`.
- `RightlyServed`, `InterfacesObeyed`: the parts of `ServedRight` that hold for
  every number of resources (`TypeOK`, `OwnHandler`, `AnswerTellsRun`;
  `InterfaceAllows`).
- `AllServedRight`: `ServedRight` with all its parts, for `OC_MAX_APP_RESOURCES`
  from 2 to the 4 it is in `oc_config.h` (`CodeSize`).

Registration is a chain of steps that may fail in the middle, so the invariant
`Sound(t, Open)` has a parameter: every secured handler of the table is on the
list of secured methods, except for those in `Open`, which are being
registered. A new resource opens up to two (`AddedSound`), a new handler one
(`SetHandlerSound`); `resource_method_new` closes one, by listing it or by taking the
handler away again (`MethodNewSound`); between calls none is open. `Shape` has
the rest: URIs are unique and begin with a slash, and a handler is where it was
written for. That a listed method is found although URIs are compared by prefix
only is `ListedIsSecured`; that the comparison finds too much is `v_prefix`.
`OfferedAssumption` is the meaning of a handler's fields: it is written for the
URI and method it is registered under, and `safe` when it is registered as secured.

That the pool of secured methods suffices (`SecuredPoolSuffices`) is not true of
every size: a method can be secured before it has a handler and takes a second
entry with it, so that three entries go to one resource of the two the pool has
for each; five resources can use it up. `Room` is the invariant that shows that
four cannot: entries in use and methods still without handler (`Lacking`) are
together at most 3n - 5 for n resources, since each has one handler to begin with
and Nexus Channel's own two resources use at most one entry. A new resource adds three to
the sum (`RegisterRoom`), a new handler trades its gap for an entry
(`RegisterHandlerRoom`). `InterfaceAllows` asks what the recursive function of
`query_value` makes of the query `if=r`; `ReadQueryValue` shows that such a
function exists, by giving one, and that every one has the value `r`.

### OcMessaging (`OcMessagingProofs`)

- `MessagingAccounted`: `Accounted`, that is `TypeOK`, `NoBufferLost` and
  `HandledAtMostOnce`, for all sizes of the pools and of the queue, all timeouts
  and any requests, losses and copies, those without a token and those whose
  answer cannot be secured included.

`NoBufferLost` compares the references of a buffer with the events and
transactions that have it. It does not hold in the middle of a handler, which has
taken an event off the queue and not yet passed on its buffer, so the inductive
invariant `Sound` names the buffers in hand: `InHeld`, a received message has
exactly one holder, in the queue or in hand; `OutHeld`, a message to send has at
least as many holders as references. More are possible, and the proof shows where
they come from: a nonce sync posts the cached request again without taking a
reference, an answer that could not be secured is posted after its transaction
gave the buffer back, and a transaction can outlive its buffer. With the bounds of the lists
and distinct message IDs of transactions this is `Traffic`. `HandledAtMostOnce` rests on
`Callbacks`: a request that still has its callback has not been answered, and no
two callbacks share a slot or a message ID, so whichever of answer, idle
timeout and lifetime comes first removes the callback that the others would
need. Holders are counted by `Count`, the number of places of a list that hold an
entry of a set; `CountAppend` and `CountShortened` say how it changes when an
entry comes or goes. The loops that walk the lists of transactions and callbacks
while these shrink (`check_transactions`, `check_event_callbacks`) are functions of the
position; that the function exists and keeps the invariant is shown by
the least position where it would not (`EventWalkExists`, `CheckEventsHold`).

The proof needs one assumption beyond the types of the constants: the idle
timeout of a transaction is at most the lifetime of a callback (5 s in
`transactions.c`, 14 s in `constants.h`), so that both fit the range
of a timer.

### Only model-checked

- Liveness, which is out of the prover's reach: `FrameResolved`, `HandedOver` as a
  whole, `Quiesces`, `Served`, `Settles`, `PoolsRecover`.
- The formats, whose operators are recursive over their input: all of `codec`.
- `NoneStarved`: the order of turns after every history of changes.

## 6. Where code and comments differ

Two disagreements are kept as runs that must fail; PROJECT.json quotes the
comments.

- `v_shift`: power lost after a jump of Pd has cleared the flags in NV, before
  Pd is written: an applied keycode is applied again.
- `v_prefix`: whether a method is secured is decided by comparing as many
  characters as the URI asked for has, so an unsecured resource whose URI begins
  that of a secured one is taken for it and its plain requests are refused. `/h`,
  the handshake resource, is such a URI as soon as an application registers a
  secured resource that begins with it.

Others met while modelling, which the properties name as exceptions or which
no property depends on:

- QC test codes are limited "over their entire lifetime" (`Kconfig:107-109`,
  `123-125`, `nexus_keycode_pro.c:1943-1946`), but a WIPE of the message IDs
  clears their counts (`1891`, reached from `812`, `825`, `1455`, `1468`).
- IDs pass through `uint16_t` parameters: from 65536 on a keycode is looked up and
  marked under another ID (`nexus_keycode_pro.c:1378` says duplicates are
  rejected).
- A deduction between the read and the write of the bucket is lost, against the
  help of the rate limiter in `Kconfig:66`.
- A link at nonce 0 that receives the nonce of a restarted peer passes a storage
  boundary without marking it for NV (`nexus_channel_res_lm.c:579-586`).
- Handshakes may run simultaneously (`nexus_channel_res_link_hs.c:56-57`), but
  each POST frees the callback of the one before (861-880), whose answer is
  dropped.
- When one cached transaction times out the others are sent again and cleared
  (`transactions.c:298`, against 214-220), under their old nonce: an accessory
  whose nonce has lapsed executes them a second time. The resend after a nonce sync takes no
  reference to the buffer it hands on (`engine.c:235`).
- The answer to a request without a token is made and then neither sent nor
  cleared (`engine.c:731`). An answer that cannot be secured is cleared and then
  still serialized and sent (`engine.c:808-835`); one without a payload is copied
  to a null pointer (`engine.c:799`).
- The end of a link to the accessory updated last, or first in the cycle, begins
  the round of POSTs anew (`nexus_channel_res_payg_credit.c:447-461`): links
  that keep ending and coming back starve the last accessory.
- A new PAYG state is not sent at once when the cycle is not over
  (`nexus_channel_res_payg_credit.c:409-412` against 485-509).
- A request the interface does not allow is answered with 4.03, where the
  comment says 4.00 (`oc_ri.c:797-808`). A query parameter without "=" takes the
  next one as its value.
- Simple values 0 to 19 reach the branch of `cborparser.c:322` that "can't be
  reached". `oc_rep.c` goes on through a null pointer when nodes run out inside a
  nested object, and ignores failures of the pools of bytes and integers (`179`,
  `218`, `228`, `267`, `329`): a property loses its name or value without an error,
  and an array of strings that exceeds the 512 bytes is written through a null
  pointer (`oc_helpers.c:160-170`).
- `coap.c:452` sets the bit of an option before it is known to lie inside the
  datagram, and for numbers from 80 on behind the ten bytes of the map; the
  check for large numbers at `446` is commented out.
- The pool of integers is compacted as if it held bytes (`oc_mmem.c:199-216`).
- An extended keycode whose 12 check bits fit a lower usable ID is applied under
  that one. The reserved digits of a QC test are not covered by its check. The
  last scale of the table of days begins at 736, not at the 721 of its comment.
  The 10 digits of a device ID wrap modulo 2^32.
- A resource registered under a URI of the OCF core is never reached; a
  registration that fails keeps its slot of the pool.

## 7. Not modelled

- Amounts of credit in the keycode protocol, feedback to the user, logging.
- NV writes that fail under a protocol layer that ignores the result: `NvBlock`
  has the failing write, the modules with state have writes that succeed and are
  atomic.
- Rate limiting switched off; an uptime that runs backwards, which
  `nx_common_process` refuses; a complete keycode without its start key, which
  has no effect, and one of length 0, which is the caller's error.
- Single keys and complete keycodes at once, which the header offers as
  alternatives: a key that interrupts `nexus_keycode_mas_handle_complete_keycode`.
- Keys that interrupt the protocol layer inside one frame: they touch only the
  pending flag, which `pro_enqueue` covers.
- Links that end while secured messages are exchanged: `SecuredLink` has an
  established link, `LinkSetup` has links without their nonces.
- A device that leads and follows at once, which `PaygCredit`'s source declares
  unsupported. Commands for a linked accessory are parsed, and the code then
  drops them.
- Shutdown; confirmable messages, observation, block-wise transfer, TCP,
  collections, discovery and doubles, which the Nexus build leaves out;
  conversion to JSON.
- `examples/`, `nexus/stub`, `nexus/test`: product code, stubs and tests.
