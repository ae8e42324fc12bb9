----------------------------- MODULE OcMessaging -----------------------------
(***************************************************************************)
(* The messaging layer one Nexus Channel device runs on: the bounded event *)
(* queue of util/oc_process.c, the event timers of util/oc_etimer.c, the   *)
(* message buffers of api/oc_buffer.c with their reference counts, the     *)
(* CoAP transactions (messaging/coap/transactions.c), the client callbacks *)
(* and their delayed removal (api/oc_ri.c, api/oc_client_api.c) and the    *)
(* CoAP engine (messaging/coap/engine.c).  Every pool has a fixed size.    *)
(*                                                                         *)
(* A message is what the engine tells apart of it: a request, a response,  *)
(* a nonce sync, or a request the security manager refuses.  A confirmable *)
(* request differs in the message ID of its answer only.  What an event    *)
(* handler does until it returns is one step.  The handlers act on a       *)
(* record with one field per variable, so that the calls they make can be  *)
(* chained in the order the code makes them.                               *)
(***************************************************************************)
EXTENDS Integers, Sequences, FiniteSets, SequencesExt, FiniteSetsExt

CONSTANTS
    QueueSize,      \* OC_PROCESS_NUMEVENTS
    Buffers,        \* OC_MAX_NUM_CONCURRENT_REQUESTS: buffers of each pool
    Transactions,   \* COAP_MAX_OPEN_TRANSACTIONS
    ClientCbs,      \* size of client_cbs_s
    EventCbs,       \* size of event_callbacks_s
    IdleTimeout,    \* OC_TRANSACTION_CACHED_IDLE_TIMEOUT_SECONDS
    NonLifetime,    \* OC_NON_LIFETIME
    Tokens,         \* the values of the one random byte that is the token
    MaxRequests,    \* bound: requests this device makes
    MaxReceived     \* bound: messages that reach this device

ASSUME OcMessagingAssumption ==
    /\ {QueueSize, Buffers, Transactions, ClientCbs, EventCbs} \subseteq Nat \ {0}
    /\ {IdleTimeout, NonLifetime, MaxRequests, MaxReceived} \subseteq Nat \ {0}
    /\ IdleTimeout <= NonLifetime
    /\ IsFiniteSet(Tokens)

VARIABLES
    events,         \* the event queue, oldest first
    incoming,       \* oc_incoming_buffers
    outgoing,       \* oc_outgoing_buffers
    transactions,   \* transactions_list, oldest first
    client_cbs,     \* client_cbs, oldest first
    timed,          \* timed_callbacks, oldest first
    handled,        \* [request -> times its response handler was called]
    draining,       \* oc_main_poll is running
    made,           \* requests made so far; the n-th has message id n
    received        \* messages that reached the device so far

vars == <<events, incoming, outgoing, transactions, client_cbs, timed,
          handled, draining, made, received>>

Mids == 1..MaxRequests
Foreign == 0            \* a message id that no transaction of this device has
AnswerMids == MaxRequests + 1 .. MaxRequests + Transactions \* ids of its answers
AnyMid == Foreign..MaxRequests + Transactions
Slot == 1..Buffers

(* What becomes of the answer to a request: it is sent; it is not, because *)
(* the resource ignores the request or the answer does not serialize; it   *)
(* cannot be secured; or nothing is done, because the request has no token.*)
Outcomes == {"sent", "dropped", "unsecurable", "tokenless"}

(* The message IDs that mean something to this device; the ID of a         *)
(* transaction that is gone is as good as one it never had.                *)
KnownMids == {Foreign} \cup {transactions[i].mid : i \in DOMAIN transactions}

(* What can arrive: answers with any token, as late and as often as the    *)
(* network likes, a nonce sync for one of our requests, requests of others *)
(* and requests that are answered without reaching a resource.             *)
Message ==
    [kind : {"response"}, mid : KnownMids, token : Tokens, secured : BOOLEAN]
    \cup [kind : {"sync"}, mid : KnownMids]
    \cup [kind : {"request"}, mid : KnownMids, outcome : Outcomes]
    \cup [kind : {"refused"}]

NoMessage == [kind |-> "none"]
FreeIn == [used |-> FALSE, ref_count |-> 0, msg |-> NoMessage]
FreeOut == [used |-> FALSE, ref_count |-> 0, cose |-> FALSE]

Event ==
    [ev : {"INBOUND_NETWORK", "INBOUND_RI", "OUTBOUND"}, data : Slot]
    \cup [ev : {"TIMER_ENGINE", "TIMER_RI"}, data : {0}]

(* A timer is running (on) with `left` seconds to go; an etimer that is    *)
(* not running counts as expired (p = OC_PROCESS_NONE).                    *)
Timer == [on : BOOLEAN, left : 0..NonLifetime]
etimer_set(seconds) == [on |-> TRUE, left |-> seconds]
etimer_stopped == [on |-> FALSE, left |-> 0]
etimer_expired(t) == ~t.on
etimer_due(t) == t.on /\ t.left = 0
aged(t) == IF t.on /\ t.left > 0 THEN [t EXCEPT !.left = @ - 1] ELSE t

State == [events |-> events, incoming |-> incoming, outgoing |-> outgoing,
          transactions |-> transactions, client_cbs |-> client_cbs,
          timed |-> timed, handled |-> handled]

Becomes(next) ==
    \E s \in {next} :
        /\ events' = s.events
        /\ incoming' = s.incoming
        /\ outgoing' = s.outgoing
        /\ transactions' = s.transactions
        /\ client_cbs' = s.client_cbs
        /\ timed' = s.timed
        /\ handled' = s.handled

------------------------------------------------------------------------------
(* Event queue and message buffers *)

queue_full(s) == Len(s.events) = QueueSize

process_post(s, ev, data) ==
    IF queue_full(s)
    THEN s
    ELSE [s EXCEPT !.events = Append(@, [ev |-> ev, data |-> data])]

free_slots(pool) == {b \in Slot : ~pool[b].used}

(* Faulty variant: a buffer is given back one reference too late. *)
unreferenced_Late(buf) ==
    [buf EXCEPT !.ref_count = @ - 1, !.used = @ /\ buf.ref_count > 0]

unreferenced(buf) ==
    [buf EXCEPT !.ref_count = @ - 1, !.used = @ /\ buf.ref_count > 1]

(* A received message has one reference; what it said is not read again.   *)
message_unref_in(s, b) ==
    [s EXCEPT !.incoming[b] = [unreferenced(@) EXCEPT !.msg = NoMessage]]

message_unref_out(s, b) == [s EXCEPT !.outgoing[b] = unreferenced(@)]

message_add_ref(s, b) == [s EXCEPT !.outgoing[b].ref_count = @ + 1]

(* Faulty variant: the reference of an event that was not posted stays. *)
send_message_Kept(s, b) == process_post(s, "OUTBOUND", b)

(* A full queue takes the reference of the event that was not posted.      *)
send_message(s, b) ==
    IF queue_full(s)
    THEN [s EXCEPT !.outgoing[b].ref_count = @ - 1]
    ELSE process_post(s, "OUTBOUND", b)

(* Senders without a transaction free the message themselves when the      *)
(* queue was full.                                                         *)
send_or_free(s, b) ==
    LET sent == send_message(s, b)
    IN  IF sent.outgoing[b].ref_count = 0
        THEN message_unref_out(sent, b)
        ELSE sent

allocate_outgoing(s, b, cose) ==
    [s EXCEPT !.outgoing[b] = [used |-> TRUE, ref_count |-> 1, cose |-> cose]]

------------------------------------------------------------------------------
(* Client callbacks *)

cb_slots(s) == {cb.slot : cb \in ToSet(s.client_cbs)}
free_cb_slots(s) == (1..ClientCbs) \ cb_slots(s)

(* The first entry of those meant leaves the list, if there is one.        *)
oc_list_remove(list, meant) ==
    LET k == Min(meant)
    IN  IF meant = {} THEN list
        ELSE [i \in 1..Len(list) - 1 |-> IF i < k THEN list[i] ELSE list[i + 1]]

free_client_cb(s, slot) ==
    [s EXCEPT !.client_cbs =
        oc_list_remove(@, {i \in DOMAIN @ : @[i].slot = slot})]

(* Only the first delayed callback with this callback's address goes.      *)
remove_timed_event_callback(s, slot) ==
    [s EXCEPT !.timed =
        oc_list_remove(@, {i \in DOMAIN @ : @[i].data = slot})]

call_handler(s, cb) == [s EXCEPT !.handled[cb.mid] = @ + 1]

(* The handler is told 503, then the callback is freed with its timer.     *)
notify_client_cb_503(s, cb) ==
    free_client_cb(
        call_handler(remove_timed_event_callback(s, cb.slot), cb), cb.slot)

(* The loop starts over after each callback it ends; message IDs come from *)
(* a counter, so there is one at most.                                     *)
free_client_cbs_by_mid(s, mid) ==
    LET mine == {i \in DOMAIN s.client_cbs : s.client_cbs[i].mid = mid}
    IN  IF mine = {}
        THEN s
        ELSE notify_client_cb_503(s, s.client_cbs[Min(mine)])

(* Faulty variant: the callback outlives the response. *)
invoke_client_cb_Kept(s, cb) ==
    remove_timed_event_callback(call_handler(s, cb), cb.slot)

(* A response ends the request: handler, then timer and callback freed.    *)
invoke_client_cb(s, cb) ==
    free_client_cb(
        remove_timed_event_callback(call_handler(s, cb), cb.slot), cb.slot)

alloc_client_cb(s, mid, token, secured, hs) ==
    [s EXCEPT !.client_cbs =
        Append(@, [slot |-> Min(free_cb_slots(s)), mid |-> mid,
                   token |-> token, secured |-> secured, hs |-> hs])]

add_timed_event_callback(s, slot) ==
    IF Len(s.timed) = EventCbs
    THEN s
    ELSE [s EXCEPT !.timed =
            Append(@, [data |-> slot, timer |-> etimer_set(NonLifetime)])]

------------------------------------------------------------------------------
(* Transactions *)

can_open_transaction(s) ==
    Len(s.transactions) < Transactions /\ free_slots(s.outgoing) # {}

new_transaction(s, mid, cose) ==
    LET b == Min(free_slots(s.outgoing))
    IN  [allocate_outgoing(s, b, cose) EXCEPT
            !.transactions =
                Append(@, [mid |-> mid, message |-> b, idle |-> etimer_stopped])]

clear_transaction(s, t) ==
    [message_unref_out(s, t.message) EXCEPT
        !.transactions = oc_list_remove(@, {i \in DOMAIN @ : @[i] = t})]

(* One reference for the queued event, one for the transaction, which a    *)
(* cached transaction keeps until its idle timer fires.                    *)
send_transaction(s, t, should_cache) ==
    LET sent == send_message(message_add_ref(s, t.message), t.message)
    IN  IF should_cache
        THEN [sent EXCEPT !.transactions =
                [i \in DOMAIN @ |->
                    IF @[i] = t
                    THEN [t EXCEPT !.idle = etimer_set(IdleTimeout)]
                    ELSE @[i]]]
        ELSE clear_transaction(sent, t)

transactions_by_mid(s, mid) == {t \in ToSet(s.transactions) : t.mid = mid}

(* The retransmission timer is never set, and a timer that is not running  *)
(* counts as expired: what the idle timeout leaves is sent once more and   *)
(* cleared.                                                                *)
check_transaction(s, t) ==
    IF etimer_expired(t.idle)
    THEN clear_transaction(free_client_cbs_by_mid(s, t.mid), t)
    ELSE send_transaction(s, t, FALSE)

check_transactions(s) ==
    LET list == s.transactions
        after[i \in 0..Len(list)] ==
            IF i = 0 THEN s ELSE check_transaction(after[i - 1], list[i])
    IN  after[Len(list)]

(* Faulty variant: the timer is freed, the client callback is not. *)
check_event_callbacks_KeepsCb(s) ==
    [s EXCEPT !.timed = SelectSeq(@, LAMBDA e : ~etimer_expired(e.timer))]

(* Delayed removal of a callback whose lifetime is over: whatever now has  *)
(* the address the delayed callback was set for.                           *)
check_event_callback(s, e) ==
    IF etimer_expired(e.timer)
    THEN [free_client_cb(s, e.data) EXCEPT
            !.timed = oc_list_remove(@, {i \in DOMAIN @ : @[i] = e})]
    ELSE s

check_event_callbacks(s) ==
    LET list == s.timed
        after[i \in 0..Len(list)] ==
            IF i = 0 THEN s ELSE check_event_callback(after[i - 1], list[i])
    IN  after[Len(list)]

------------------------------------------------------------------------------
(* The CoAP engine *)

(* A message this device answers without a resource: an error, or a nonce  *)
(* sync.                                                                   *)
send_empty_response(s) ==
    LET b == Min(free_slots(s.outgoing))
    IN  IF free_slots(s.outgoing) = {}
        THEN s
        ELSE send_or_free(allocate_outgoing(s, b, FALSE), b)

(* The cached request is packed again in its own buffer and posted, without*)
(* a reference for the event.                                              *)
send_previous_request(s, mid) ==
    LET t == CHOOSE u \in transactions_by_mid(s, mid) : TRUE
    IN  IF transactions_by_mid(s, mid) = {}
        THEN s
        ELSE IF ~s.outgoing[t.message].cose
             THEN clear_transaction(s, t)
             ELSE send_or_free(s, t.message)

clear_by_mid(s, mid) ==
    LET t == CHOOSE u \in transactions_by_mid(s, mid) : TRUE
    IN  IF transactions_by_mid(s, mid) = {} THEN s ELSE clear_transaction(s, t)

(* The answer has a new ID, or that of a confirmable request, whose        *)
(* transaction was just cleared: one that no open transaction has.         *)
answer_mid(s) == Min(AnswerMids \ {t.mid : t \in ToSet(s.transactions)})

(* An answer that cannot be secured is sent, bare, through the transaction *)
(* that was cleared already: the event has a buffer that is free.  Without *)
(* a token the transaction and its buffer are neither sent nor cleared.    *)
finish_answer(s, t, outcome) ==
    CASE outcome = "sent"        -> send_transaction(s, t, FALSE)
      [] outcome = "dropped"     -> clear_transaction(s, t)
      [] outcome = "unsecurable" ->
            send_transaction(clear_transaction(s, t), t, FALSE)
      [] outcome = "tokenless"   -> s

serve_request(s, outcome) ==
    LET opened == new_transaction(s, answer_mid(s), FALSE)
    IN  IF can_open_transaction(s)
        THEN finish_answer(opened, Last(opened.transactions), outcome)
        ELSE s

deliver_response(s, msg) ==
    LET mine == {i \in DOMAIN s.client_cbs : s.client_cbs[i].token = msg.token}
        cb == s.client_cbs[Min(mine)]
    IN  IF mine = {} \/ (cb.secured /\ ~msg.secured)
        THEN s
        ELSE invoke_client_cb(s, cb)

coap_receive(s, msg) ==
    CASE msg.kind = "refused"  -> send_empty_response(s)
      [] msg.kind = "sync"     -> send_previous_request(s, msg.mid)
      [] msg.kind = "request"  ->
            serve_request(clear_by_mid(s, msg.mid), msg.outcome)
      [] msg.kind = "response" -> deliver_response(clear_by_mid(s, msg.mid), msg)

------------------------------------------------------------------------------
(* One pass of oc_process_run *)

due(s) ==
    {<<"TIMER_ENGINE", i>> : i \in {j \in DOMAIN s.transactions :
                                        etimer_due(s.transactions[j].idle)}}
    \cup {<<"TIMER_RI", i>> : i \in {j \in DOMAIN s.timed :
                                        etimer_due(s.timed[j].timer)}}

(* The timer process posts one event for each timer that is due and marks  *)
(* it expired; the timers for which the queue has no room stay due.        *)
poll_timers(s, posted) ==
    LET engine == Cardinality({d \in posted : d[1] = "TIMER_ENGINE"})
    IN  [s EXCEPT
            !.events = @ \o [i \in 1..Cardinality(posted) |->
                [ev |-> IF i <= engine THEN "TIMER_ENGINE" ELSE "TIMER_RI",
                 data |-> 0]],
            !.transactions = [i \in DOMAIN @ |->
                IF <<"TIMER_ENGINE", i>> \in posted
                THEN [@[i] EXCEPT !.idle = etimer_stopped] ELSE @[i]],
            !.timed = [i \in DOMAIN @ |->
                IF <<"TIMER_RI", i>> \in posted
                THEN [@[i] EXCEPT !.timer = etimer_stopped] ELSE @[i]]]

handle_event(s, e) ==
    CASE e.ev = "INBOUND_NETWORK" -> process_post(s, "INBOUND_RI", e.data)
      [] e.ev = "INBOUND_RI" ->
            message_unref_in(coap_receive(s, s.incoming[e.data].msg), e.data)
      [] e.ev = "OUTBOUND" -> message_unref_out(s, e.data)
      [] e.ev = "TIMER_ENGINE" -> check_transactions(s)
      [] e.ev = "TIMER_RI" -> check_event_callbacks(s)

do_event(s) ==
    IF s.events = <<>>
    THEN s
    ELSE handle_event([s EXCEPT !.events = Tail(@)], Head(s.events))

------------------------------------------------------------------------------
(* A request of the application or of a Nexus Channel resource.  `packed`  *)
(* is false when a secured request has no link to take its key from, or    *)
(* the message does not fit.                                               *)

dispatch_coap_request(s, secured, packed) ==
    LET t == Last(s.transactions)
        cb == Last(s.client_cbs)
    IN  IF packed
        THEN add_timed_event_callback(send_transaction(s, t, secured), cb.slot)
        ELSE free_client_cb(clear_transaction(s, t), cb.slot)

do_request(s, mid, token, secured, hs, packed) ==
    IF free_cb_slots(s) = {} \/ ~can_open_transaction(s)
    THEN s
    ELSE dispatch_coap_request(
            new_transaction(
                alloc_client_cb(s, mid, token, secured, hs), mid, secured),
            secured, packed)

(* The callbacks of the handshake's POST.                                  *)
get_client_cb(s) == {i \in DOMAIN s.client_cbs : s.client_cbs[i].hs}

(* The handshake frees the callback of its last POST before the next one.  *)
replaced_handshake_cb(s) ==
    [s EXCEPT !.client_cbs = oc_list_remove(@, get_client_cb(s))]

Init ==
    /\ events = <<>>
    /\ incoming = [b \in Slot |-> FreeIn]
    /\ outgoing = [b \in Slot |-> FreeOut]
    /\ transactions = <<>>
    /\ client_cbs = <<>>
    /\ timed = <<>>
    /\ handled = [m \in Mids |-> 0]
    /\ draining = FALSE
    /\ made = 0
    /\ received = 0

(* oc_do_get, or oc_init_post and oc_do_post.                              *)
Request(secured, token, packed) ==
    /\ made < MaxRequests
    /\ made' = made + 1
    /\ Becomes(do_request(State, made + 1, token, secured, FALSE, packed))
    /\ UNCHANGED <<draining, received>>

(* The multicast POST of a handshake, first or repeated.                   *)
HandshakePost(token) ==
    /\ made < MaxRequests
    /\ made' = made + 1
    /\ Becomes(do_request(replaced_handshake_cb(State), made + 1, token,
                          FALSE, TRUE, TRUE))
    /\ UNCHANGED <<draining, received>>

(* nx_channel_network_receive: without a buffer, or with a full queue, the *)
(* message is dropped.                                                     *)
NetworkReceive(msg) ==
    LET b == Min(free_slots(incoming))
        got == [State EXCEPT !.incoming[b] =
                    [used |-> TRUE, ref_count |-> 1, msg |-> msg]]
    IN  /\ received < MaxReceived
        /\ free_slots(incoming) # {}
        /\ received' = received + 1
        /\ IF queue_full(got)
           THEN Becomes(message_unref_in(got, b))
           ELSE Becomes(process_post(got, "INBOUND_NETWORK", b))
        /\ UNCHANGED <<draining, made>>

(* The timers after one more second of the clock.                          *)
a_second_later(s) ==
    [s EXCEPT
        !.transactions = [i \in DOMAIN s.transactions |->
            [s.transactions[i] EXCEPT !.idle = aged(s.transactions[i].idle)]],
        !.timed = [i \in DOMAIN s.timed |->
            [s.timed[i] EXCEPT !.timer = aged(s.timed[i].timer)]]]

(* nx_common_process: the clock moves, then oc_main_poll runs until there  *)
(* is nothing left to do.                                                  *)
Process(seconds) ==
    /\ ~draining
    /\ draining' = TRUE
    /\ Becomes(IF seconds = 0 THEN State ELSE a_second_later(State))
    /\ UNCHANGED <<made, received>>

RunOnce ==
    /\ draining
    /\ \E posted \in kSubset(Min({Cardinality(due(State)),
                                  QueueSize - Len(events)}), due(State)) :
            \E s \in {do_event(poll_timers(State, posted))} :
                /\ Becomes(s)
                /\ draining' = (s.events # <<>> \/ due(s) # {})
    /\ UNCHANGED <<made, received>>

Next ==
    \/ \E secured, packed \in BOOLEAN, token \in Tokens :
            (packed \/ secured) /\ Request(secured, token, packed)
    \/ \E token \in Tokens : HandshakePost(token)
    \/ \E msg \in Message : NetworkReceive(msg)
    \/ \E seconds \in {0, 1} : Process(seconds)
    \/ RunOnce

Spec == Init /\ [][Next]_vars

(* The product calls nx_common_process again and again with time passing,  *)
(* and oc_main_poll loops until it has nothing to do.                      *)
FairSpec == Spec /\ WF_vars(RunOnce) /\ SF_vars(Process(1))

------------------------------------------------------------------------------
TypeOK ==
    /\ Len(events) <= QueueSize
    /\ \A i \in DOMAIN events : events[i] \in Event
    /\ Len(transactions) <= Transactions
    /\ \A i \in DOMAIN transactions :
            transactions[i] \in [mid : Mids \cup AnswerMids, message : Slot,
                                 idle : Timer]
    /\ Len(client_cbs) <= ClientCbs
    /\ \A i \in DOMAIN client_cbs :
            client_cbs[i] \in [slot : 1..ClientCbs, mid : Mids, token : Tokens,
                               secured : BOOLEAN, hs : BOOLEAN]
    /\ Len(timed) <= EventCbs
    /\ \A i \in DOMAIN timed :
            timed[i] \in [data : 1..ClientCbs, timer : Timer]
    /\ \A b \in Slot : incoming[b].used <=> incoming[b].ref_count > 0

InboundHolders(b) ==
    {i \in DOMAIN events : /\ events[i].ev \in {"INBOUND_NETWORK", "INBOUND_RI"}
                           /\ events[i].data = b}

OutboundHolders(b) ==
    {i \in DOMAIN events : events[i].ev = "OUTBOUND" /\ events[i].data = b}
    \cup {QueueSize + i : i \in {j \in DOMAIN transactions :
                                    transactions[j].message = b}}

(* No message buffer is lost.  A buffer that is taken from its pool is     *)
(* always reachable from an event or a transaction that will give it back, *)
(* through full queues, retransmissions and resends; an incoming one is    *)
(* held exactly once.  With two buffers per pool one lost buffer would     *)
(* halve what the device can send.  (The transaction of a request without  *)
(* a token holds its buffer for good: see PoolsRecover.)                   *)
NoBufferLost ==
    \A b \in Slot :
        /\ incoming[b].used => Cardinality(InboundHolders(b)) = 1
        /\ outgoing[b].used =>
            /\ outgoing[b].ref_count >= 1
            /\ Cardinality(OutboundHolders(b)) >= outgoing[b].ref_count

(* The response handler of a request is called at most once: an answer, a  *)
(* copy of it, the 503 of the idle timeout and the end of the lifetime end *)
(* the request for each other.                                             *)
HandledAtMostOnce == \A m \in Mids : handled[m] <= 1

(* Once requests and messages stop, every request has ended, as "All       *)
(* callbacks should be removed eventually in the event of no response"     *)
(* asks, and every buffer and transaction is back in its pool and stays    *)
(* there, whatever the queue was full of when a timer ran out.  Except for *)
(* the requests of others that had no token: coap_receive neither sends nor*)
(* clears the transaction of their answer, which stays open with its       *)
(* buffer, and nothing else does.                                          *)
PoolsRecover ==
    <>[](/\ client_cbs = <<>>
         /\ timed = <<>>
         /\ \A i \in DOMAIN transactions : transactions[i].mid \in AnswerMids
         /\ \A b \in Slot :
                /\ ~incoming[b].used
                /\ outgoing[b].used => \E i \in DOMAIN transactions :
                                            transactions[i].message = b)

(* Every buffer and every request is accounted for: none is lost in a full *)
(* queue, and no request is answered twice.                                *)
Accounted == TypeOK /\ NoBufferLost /\ HandledAtMostOnce

=============================================================================
