----------------------------- MODULE SecuredLink -----------------------------
(***************************************************************************)
(* Secured requests over one established link of Nexus Channel: the nonce  *)
(* of the link, its persistence (nexus_channel_res_lm.c), the freshness    *)
(* check of received messages (nexus_channel_sm.c), and the nonce sync by  *)
(* which the two ends agree again and a request is sent once more          *)
(* (oc/messaging/coap/engine.c, transactions.c, oc/api/oc_client_api.c).   *)
(*                                                                         *)
(* The controller makes requests, the accessory serves them.  Both may     *)
(* lose power; the network loses, delays, reorders and copies messages.    *)
(*                                                                         *)
(* Abstractions.  The MAC is ideal, so only messages of the two ends are   *)
(* in the network.  A request's CoAP message ID and token are the request  *)
(* itself; a response is found by token, a nonce sync by message ID, and a *)
(* response carries a message ID of its own (NoRequest).  The link itself  *)
(* lasts: neither its timeout nor its replacement is modelled here.        *)
(***************************************************************************)
EXTENDS Integers, FiniteSets

CONSTANTS
    Requests,      \* secured requests the controller's application makes
    NonceModulus,  \* nonces are uint32_t: 2^32 in the code
    Interval,      \* ..._SECURITY_NONCE_NV_STORAGE_INTERVAL_COUNT (64)
    MaxOpen,       \* COAP_MAX_OPEN_TRANSACTIONS (2)
    Starts,        \* nonces at which the two ends may begin
    Lossy,         \* does the network lose messages?
    MaxCopies,     \* bound: messages the network delivers more than once
    MaxOutages     \* bound: how often an end loses power

NonceMax == NonceModulus - 1      \* UINT32_MAX
NoRequest == "none"               \* a message that answers no request

(***************************************************************************)
(* The interval divides the modulus, and the code asserts an interval of   *)
(* at least 16.  A link starts at 0 on both ends; any other start is one   *)
(* they have counted up to together, before the forced reset.              *)
(***************************************************************************)
ASSUME LinkAssumption ==
    /\ IsFiniteSet(Requests) /\ NoRequest \notin Requests
    /\ Interval \in Nat \ {0, 1}
    /\ NonceModulus \in Nat
    /\ NonceModulus % Interval = 0
    /\ NonceModulus > 2 * Interval
    /\ MaxOpen \in Nat \ {0}
    /\ Starts \subseteq 0..(NonceMax - Interval)
    /\ Lossy \in BOOLEAN
    /\ MaxCopies \in Nat
    /\ MaxOutages \in Nat

VARIABLES
    nonce,     \* security_data.mode0.nonce of the link, in RAM, at each end
    nv,        \* the nonce in the link's NV block
    persist,   \* link_idx_should_persist_nonce
    net,       \* messages in the network
    cached,    \* requests whose CoAP transaction is still open
    waiting,   \* requests whose client callback is still registered
    released,  \* open transactions whose buffer went back to the pool
    stored,    \* the nonce in the buffer of each open transaction, else 0
    doubled,   \* messages the network holds twice
    \* History:
    sent,      \* requests that have been made
    runs,      \* how often each request was executed (2: more than once)
    ran,       \* messages executed since the accessory's nonce was last reset
    copied,    \* messages the network delivered more than once
    repeated,  \* requests sent again because another one timed out
    mixed,     \* has a released buffer been sent?
    leapt,     \* ends whose nonce left 0 by an interval or more, unsaved
    lapsed,    \* has the accessory's nonce fallen through a known gap?
    outages    \* number of power losses

nonceVars == <<nonce, persist>>
clientVars == <<cached, waiting, released, stored, mixed, sent, repeated>>
serverVars == <<runs, ran, lapsed>>
vars == <<nonceVars, nv, net, doubled, clientVars, serverVars, copied, leapt, outages>>

Ends == {"controller", "accessory"}
Peer(e) == IF e = "controller" THEN "accessory" ELSE "controller"
Nonces == 0..NonceMax

Message == [to : Ends, code : {"request", "response", "sync"}, nonce : Nonces,
            req : Requests \cup {NoRequest}]

TypeOK ==
    /\ nonce \in [Ends -> Nonces]
    /\ nv \in [Ends -> Nonces]
    /\ persist \in [Ends -> BOOLEAN]
    /\ net \subseteq Message
    /\ cached \subseteq sent /\ Cardinality(cached) <= MaxOpen
    /\ waiting \subseteq cached \cup repeated
    /\ released \subseteq cached
    /\ stored \in [Requests -> Nonces]
    /\ doubled \subseteq net
    /\ repeated \subseteq sent
    /\ sent \subseteq Requests
    /\ runs \in [Requests -> 0..2]
    /\ ran \subseteq Message
    /\ copied \subseteq Message
    /\ mixed \in BOOLEAN
    /\ leapt \subseteq Ends
    /\ lapsed \in BOOLEAN
    /\ outages \in 0..MaxOutages

\* Counted up one by one, a nonce was last saved at a multiple of Interval.
Init ==
    /\ \E start \in Starts :
          /\ nonce = [e \in Ends |-> start]
          /\ nv = [e \in Ends |-> start - (start % Interval)]
    /\ persist = [e \in Ends |-> FALSE]
    /\ net = {}
    /\ cached = {}
    /\ waiting = {}
    /\ released = {}
    /\ stored = [r \in Requests |-> 0]
    /\ doubled = {}
    /\ repeated = {}
    /\ sent = {}
    /\ runs = [r \in Requests |-> 0]
    /\ ran = {}
    /\ copied = {}
    /\ mixed = FALSE
    /\ leapt = {}
    /\ lapsed = FALSE
    /\ outages = 0

(***************************************************************************)
(* nexus_channel_link_manager_set_security_data_auth_nonce.                *)
(***************************************************************************)
\* Faulty variant: the flag is raised only when the new nonce itself is a
\* multiple of the interval.
CrossesInterval_OnlyAt(old, new) == new > old /\ old > 0 /\ new % Interval = 0

\* The loop over old + 1, ..., new stops at a multiple of Interval.  When new
\* is UINT32_MAX its counter wraps to 0, which is one.
CrossesInterval(old, new) ==
    /\ new > old
    /\ old > 0
    /\ \/ \E n \in (old + 1)..new : n % Interval = 0
       \/ new = NonceMax

set_auth_nonce(e, new) ==
    /\ nonce' = [nonce EXCEPT ![e] = new]
    /\ persist' = [persist EXCEPT
                     ![e] = @ \/ new = 0 \/ CrossesInterval(nonce[e], new)]
    /\ leapt' = IF nonce[e] = 0 /\ new >= Interval THEN leapt \cup {e} ELSE leapt

(***************************************************************************)
(* Sending.                                                                *)
(***************************************************************************)
Successor(n) == (n + 1) % NonceModulus

RequestMessage(r, n) ==
    [to |-> "accessory", code |-> "request", nonce |-> n, req |-> r]

SyncMessage(e, n, r) == [to |-> Peer(e), code |-> "sync", nonce |-> n, req |-> r]

\* A message that leaves the network leaves its double, if it has one.
Remains(m) == IF m \in doubled THEN net ELSE net \ {m}

\* A message leaves the network when it is delivered, unless the network
\* keeps a copy; what the receiver sends is added.
Deliver(m, answers) ==
    \/ /\ net' = Remains(m) \cup answers
       /\ doubled' = doubled \ {m}
       /\ UNCHANGED copied
    \/ /\ Cardinality(copied) < MaxCopies
       /\ net' = net \cup answers
       /\ copied' = copied \cup {m}
       /\ UNCHANGED doubled

\* oc_do_post / oc_do_get of a secured request: it travels with the nonce
\* after the current one, which stays; the transaction is kept for a resend.
SendRequest(r) ==
    /\ r \notin sent
    /\ Cardinality(cached) < MaxOpen
    /\ net' = net \cup {RequestMessage(r, Successor(nonce["controller"]))}
    /\ cached' = cached \cup {r}
    /\ waiting' = waiting \cup {r}
    /\ stored' = [stored EXCEPT ![r] = Successor(nonce["controller"])]
    /\ sent' = sent \cup {r}
    /\ UNCHANGED <<nonceVars, nv, doubled, released, mixed, repeated, serverVars,
                   copied, leapt, outages>>

\* Messages handed to the network; it may hold them already.
Transmit(messages) ==
    /\ net' = net \cup messages
    /\ doubled' = doubled \cup (messages \cap net)

\* A transaction whose buffer is no longer its own may send any open request,
\* or nothing that parses.
SentAgain(others) ==
    {(others \ released) \cup found :
        found \in SUBSET (IF others \cap released = {} THEN {} ELSE cached)}

\* Faulty variant: the callbacks of the expired transactions stay.
IdleTimeout_KeepsCallback(expired) ==
    /\ expired # {}
    /\ LET others == cached \ expired
       IN  /\ \E again \in SentAgain(others) :
                 Transmit({RequestMessage(r, stored[r]) : r \in again})
           /\ mixed' = (mixed \/ others \cap released # {})
           /\ repeated' = repeated \cup others
    /\ cached' = {} /\ released' = {}
    /\ stored' = [r \in Requests |-> 0]
    /\ UNCHANGED <<nonceVars, nv, waiting, sent, serverVars, copied, leapt, outages>>

\* coap_check_transactions, when an idle timer has expired.  The transactions
\* whose idle timer has expired are closed, and their callbacks are freed.
\* Every other one counts as due for a retransmission, because its
\* retrans_timer was never set: its buffer is sent as it is, and the
\* transaction is closed as well, but its callback stays.
IdleTimeout(expired) ==
    /\ expired # {}
    /\ LET others == cached \ expired
       IN  /\ \E again \in SentAgain(others) :
                 Transmit({RequestMessage(r, stored[r]) : r \in again})
           /\ mixed' = (mixed \/ others \cap released # {})
           /\ repeated' = repeated \cup others
    /\ cached' = {} /\ released' = {}
    /\ stored' = [r \in Requests |-> 0]
    /\ waiting' = waiting \ expired
    /\ UNCHANGED <<nonceVars, nv, sent, serverVars, copied, leapt, outages>>

\* oc_ri_remove_client_cb after OC_NON_LIFETIME, which is longer than the
\* idle timeout: it ends a callback that has no transaction any more.
CallbackLifetime(r) ==
    /\ r \in waiting \ cached
    /\ waiting' = waiting \ {r}
    /\ UNCHANGED <<nonceVars, nv, net, doubled, cached, released, stored, mixed,
                   sent, repeated, serverVars, copied, leapt, outages>>

(***************************************************************************)
(* Receiving a request (nexus_channel_authenticate_message, coap_receive). *)
(***************************************************************************)
\* received_nonce < nonce + 1 for a request, computed as uint32_t.
Stale(m) == m.nonce < (IF m.code = "request" THEN Successor(nonce[m.to])
                                             ELSE nonce[m.to])

\* Faulty variant: a stale request is dropped without an answer.
RejectRequest_Silently(m) ==
    /\ m.code = "request" /\ Stale(m)
    /\ Deliver(m, {})
    /\ UNCHANGED <<nonceVars, nv, clientVars, serverVars, leapt, outages>>

\* A stale request is answered with the nonce of the receiver.
RejectRequest(m) ==
    /\ m.code = "request" /\ Stale(m)
    /\ Deliver(m, {SyncMessage(m.to, nonce[m.to], m.req)})
    /\ UNCHANGED <<nonceVars, nv, clientVars, serverVars, leapt, outages>>

\* Faulty variant: the request that forces the reset is executed as well.
ResetNonce_Executes(m) ==
    /\ m.code = "request" /\ ~Stale(m)
    /\ m.nonce > NonceMax - Interval
    /\ Deliver(m, {SyncMessage(m.to, NonceMax, m.req)})
    /\ set_auth_nonce(m.to, 0)
    /\ runs' = [runs EXCEPT ![m.req] = IF @ = 0 THEN 1 ELSE 2]
    /\ ran' = {}
    /\ UNCHANGED <<nv, clientVars, lapsed, outages>>

\* A fresh request whose nonce nears the end of the range is not served: both
\* ends start again from 0.
ResetNonce(m) ==
    /\ m.code = "request" /\ ~Stale(m)
    /\ m.nonce > NonceMax - Interval
    /\ Deliver(m, {SyncMessage(m.to, NonceMax, m.req)})
    /\ set_auth_nonce(m.to, 0)
    /\ ran' = {}
    /\ UNCHANGED <<nv, clientVars, runs, lapsed, outages>>

\* A fresh request is executed and answered with its own nonce.
ExecuteRequest(m) ==
    /\ m.code = "request" /\ ~Stale(m)
    /\ m.nonce <= NonceMax - Interval
    /\ Deliver(m, {[to |-> Peer(m.to), code |-> "response", nonce |-> m.nonce,
                    req |-> m.req]})
    /\ set_auth_nonce(m.to, m.nonce)
    /\ runs' = [runs EXCEPT ![m.req] = IF @ = 0 THEN 1 ELSE 2]
    /\ ran' = ran \cup {m}
    /\ lapsed' = (lapsed \/ nonce[m.to] = NonceMax)
    /\ UNCHANGED <<nv, clientVars, outages>>

(***************************************************************************)
(* Receiving a response or a nonce sync.                                   *)
(***************************************************************************)
\* A stale one is answered with a nonce sync as well, under the message ID it
\* came with.
RejectResponse(m) ==
    /\ m.code \in {"response", "sync"} /\ Stale(m)
    /\ Deliver(m, {SyncMessage(m.to, nonce[m.to],
                               IF m.code = "sync" THEN m.req ELSE NoRequest)})
    /\ UNCHANGED <<nonceVars, nv, clientVars, serverVars, leapt, outages>>

\* The callback of the request is called once; its transaction stays open,
\* because the response has a message ID of its own.
AcceptResponse(m) ==
    /\ m.code = "response" /\ ~Stale(m)
    /\ Deliver(m, {})
    /\ set_auth_nonce(m.to, m.nonce)
    /\ waiting' = waiting \ {m.req}
    /\ UNCHANGED <<nv, cached, released, stored, mixed, sent, repeated, serverVars,
                   outages>>

\* coap_send_previous_request_with_repacked_security sends the buffer of the
\* open transaction without taking a reference: from then on the buffer is
\* free, and a second resend finds what its next owner left in it.
ResendBuffer(r) == IF r \in released THEN cached \cup {NoRequest} ELSE {r}

Synced(m) == IF m.nonce = NonceMax THEN 0 ELSE m.nonce

\* Faulty variant: the current nonce, not the one after it, is sent again.
AcceptSync_SameNonce(m) ==
    /\ m.code = "sync" /\ ~Stale(m)
    /\ set_auth_nonce(m.to, Synced(m))
    /\ IF m.to = "controller" /\ m.req \in cached
         THEN /\ Deliver(m, {RequestMessage(m.req, Synced(m))})
              /\ released' = released \cup {m.req}
              /\ stored' = [stored EXCEPT ![m.req] = Synced(m)]
         ELSE Deliver(m, {}) /\ UNCHANGED <<released, stored>>
    /\ UNCHANGED <<nv, cached, waiting, sent, repeated, runs, ran, lapsed, mixed,
                   outages>>

AcceptSync(m) ==
    /\ m.code = "sync" /\ ~Stale(m)
    /\ set_auth_nonce(m.to, Synced(m))
    /\ IF m.to = "controller" /\ m.req \in cached
         THEN \E r \in ResendBuffer(m.req) :
                 /\ Deliver(m, IF r = NoRequest THEN {}
                               ELSE {RequestMessage(r, Successor(Synced(m)))})
                 /\ released' = released \cup {m.req}
                 /\ stored' = [stored EXCEPT ![m.req] = Successor(Synced(m))]
                 /\ mixed' = (mixed \/ m.req \in released)
         ELSE Deliver(m, {}) /\ UNCHANGED <<released, stored, mixed>>
    /\ ran' = IF m.to = "accessory" /\ Synced(m) = 0 THEN {} ELSE ran
    /\ UNCHANGED <<nv, cached, waiting, sent, repeated, runs, lapsed, outages>>

Receive(m) ==
    \/ RejectRequest(m)
    \/ ResetNonce(m)
    \/ ExecuteRequest(m)
    \/ RejectResponse(m)
    \/ AcceptResponse(m)
    \/ AcceptSync(m)

Lose(m) ==
    /\ Lossy
    /\ net' = Remains(m)
    /\ doubled' = doubled \ {m}
    /\ UNCHANGED <<nonceVars, nv, clientVars, serverVars, copied, leapt, outages>>

(***************************************************************************)
(* Saving and restarting.                                                  *)
(***************************************************************************)
\* nexus_channel_link_manager_process, which runs after the messages of a
\* process call have been handled.
PersistNonce(e) ==
    /\ persist[e]
    /\ nv' = [nv EXCEPT ![e] = nonce[e]]
    /\ persist' = [persist EXCEPT ![e] = FALSE]
    /\ leapt' = leapt \ {e}
    /\ UNCHANGED <<nonce, net, doubled, clientVars, serverVars, copied, outages>>

\* Faulty variant: a restart goes on from the saved nonce.
RestartNonce_NoSkip(e) == nv[e]

RestartNonce(e) == (nv[e] + Interval) % NonceModulus

\* The ways in which a restart may take a nonce back: the save was due in the
\* process call that lost power, or the nonce had left 0 by an interval or
\* more, or the saved nonce is within an interval of the end of the range.
RestartGap(e) ==
    /\ RestartNonce(e) < nonce[e]
    /\ persist[e] \/ e \in leapt \/ nv[e] + Interval > NonceMax

\* Power is lost, and nexus_channel_link_manager_init runs.
PowerLoss(e) ==
    /\ outages < MaxOutages
    /\ nonce' = [nonce EXCEPT ![e] = RestartNonce(e)]
    /\ persist' = [persist EXCEPT ![e] = TRUE]
    /\ cached' = IF e = "controller" THEN {} ELSE cached
    /\ waiting' = IF e = "controller" THEN {} ELSE waiting
    /\ released' = IF e = "controller" THEN {} ELSE released
    /\ stored' = IF e = "controller" THEN [r \in Requests |-> 0] ELSE stored
    /\ lapsed' = (lapsed \/ (e = "accessory" /\ RestartGap(e)))
    /\ outages' = outages + 1
    /\ leapt' = leapt \ {e}
    /\ UNCHANGED <<nv, net, doubled, mixed, sent, repeated, runs, ran, copied>>

Next ==
    \/ \E r \in Requests : SendRequest(r) \/ CallbackLifetime(r)
    \/ \E expired \in SUBSET cached : IdleTimeout(expired)
    \/ \E m \in net : Receive(m) \/ Lose(m)
    \/ \E e \in Ends : PersistNonce(e) \/ PowerLoss(e)

Spec == Init /\ [][Next]_vars

\* The main loop of either end handles what arrives, and a message that is
\* not lost arrives.
FairSpec == Spec /\ WF_vars(\E m \in net : Receive(m))

(***************************************************************************)
(* Properties.                                                             *)
(***************************************************************************)
\* A restart never takes a nonce back: the nonce in RAM is within one
\* interval of the saved one, unless the save is still due in this process
\* call or the nonce left 0 by an interval or more in one step.  (That leap is
\* not flagged for saving, although the code says of update_nonce: "if the
\* nonce will be updated across a storage interval boundary, flag that we
\* should persist".)
NonceSaved ==
    \A e \in Ends \ leapt : nonce[e] <= nv[e] + Interval \/ persist[e]

\* No message is executed twice between two nonce resets, however often the
\* network delivers it and wherever the accessory restarts, unless its nonce
\* fell through a gap: a save lost within the process call that owes it, a
\* leap from 0 (see NonceSaved) or the end of the uint32_t range.
FreshOnly ==
    [][\A m \in net : ExecuteRequest(m) /\ m \in ran => lapsed']_vars

\* A request is executed at most once, whatever is lost or restarts, unless
\* the network copies a message, a resend uses a buffer it no longer owns, or
\* the idle timer of another request sends it again: resending after a nonce
\* sync never repeats a request that was served.  (A request repeated by
\* another's idle timer carries the nonce it had, so FreshOnly bounds it.)
OneExecution ==
    copied = {} /\ ~mixed => \A r \in Requests \ repeated : runs[r] <= 1

\* The two ends never answer each other's nonce syncs for ever.
Quiesces == <>[](net = {})

\* On a network that loses nothing, the one request a controller has made is
\* executed before its transaction times out or is lost with the controller's
\* power, however far apart restarts have driven the nonces, unless the
\* controller restarts at the very last nonce.  (A second request may make
\* the nonce sync of the first stale, which is then not sent again.)
Served ==
    \A r \in Requests :
        sent = {r} ~> \/ runs[r] > 0
                      \/ r \notin cached
                      \/ sent # {r}
                      \/ mixed
                      \/ nonce["controller"] = NonceMax

=============================================================================
