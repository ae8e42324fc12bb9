-------------------------- MODULE SecuredLinkProofs --------------------------
(***************************************************************************)
(* Proofs about SecuredLink, for every set of requests, range of nonces    *)
(* and save interval, with a network that loses, delays, reorders and      *)
(* copies messages and ends that restart.                                  *)
(***************************************************************************)
EXTENDS SecuredLink, FiniteSetTheorems, TLAPS

(***************************************************************************)
(* Lemmas on the arithmetic of nonces.                                     *)
(***************************************************************************)
\* The numbers among the constants.
LEMMA Numbers ==
    /\ Interval \in Nat /\ Interval > 1
    /\ NonceModulus \in Nat /\ NonceModulus > 2 * Interval
    /\ NonceMax \in Nat /\ NonceMax = NonceModulus - 1 /\ NonceMax > Interval
    /\ Starts \subseteq Nonces
    /\ MaxOpen \in Nat /\ MaxOpen > 0 /\ MaxOutages \in Nat
BY LinkAssumption DEF NonceMax, Nonces

\* Quotient and remainder.
LEMMA Division ==
    ASSUME NEW n \in Nat, NEW d \in Nat, d > 0
    PROVE  /\ n \div d \in Nat /\ n % d \in 0..(d - 1)
           /\ n = d * (n \div d) + (n % d)
<1>1. n \div d \in Nat
  BY SMT
<1>2. n % d \in Nat /\ n % d < d
  BY SMT
<1>3. n = d * (n \div d) + (n % d)
  BY Z3
<1> QED BY <1>1, <1>2, <1>3

\* A number within the range is its own remainder.
LEMMA SmallRemainder ==
    ASSUME NEW n \in Nat, NEW d \in Nat, n < d
    PROVE  n % d = n
BY SMT

LEMMA ProductOrder ==
    ASSUME NEW d \in Nat, d > 0, NEW p \in Nat, NEW q \in Nat, d * p < d * q
    PROVE  p < q
BY SMT

\* Between a number less its remainder and the number itself there is no
\* multiple.
LEMMA NoMultipleBelow ==
    ASSUME NEW s \in Nat, NEW d \in Nat, d > 0,
           NEW n \in (s - (s % d) + 1)..s
    PROVE  n % d # 0
<1> SUFFICES ASSUME n % d = 0 PROVE FALSE
  OBVIOUS
<1> DEFINE q == s \div d
           r == s % d
           p == n \div d
<1>1. q \in Nat /\ r \in 0..(d - 1) /\ s = d * q + r
  BY Division
<1>2. s - r \in Int /\ s - r >= 0 /\ d * q \in Nat
  <2> HIDE DEF q, r
  <2> QED BY <1>1
<1>3. n \in Nat /\ n > s - r /\ n <= s
  <2> HIDE DEF q
  <2> QED BY <1>2
<1>4. p \in Nat /\ n = d * p /\ d * p \in Nat
  BY <1>3, Division
<1> HIDE DEF q, r, p
<1>5. d * q < d * p /\ d * p < d * q + d
  BY <1>1, <1>2, <1>3, <1>4
<1>6. q < p
  BY <1>1, <1>4, <1>5, ProductOrder
<1>7. d * (q + 1) = d * q + d /\ q + 1 \in Nat
  BY <1>1
<1>8. p < q + 1
  BY <1>4, <1>5, <1>7, ProductOrder
<1> QED BY <1>1, <1>4, <1>6, <1>8

\* Every d consecutive numbers contain a multiple of d.
LEMMA MultipleWithin ==
    ASSUME NEW a \in Nat, NEW d \in Nat, d > 0
    PROVE  \E n \in (a + 1)..(a + d) : n % d = 0
<1> DEFINE q == a \div d
           n == d * (q + 1)
           p == n \div d
           r == n % d
<1>1. q \in Nat /\ a % d \in 0..(d - 1) /\ a = d * q + (a % d)
  BY Division
<1>2. n = d * q + d /\ n \in Nat
  <2> HIDE DEF q
  <2> QED BY <1>1
<1>3. n \in (a + 1)..(a + d)
  <2>1. d * q \in Nat
    BY <1>1
  <2>2. PICK m \in 0..(d - 1) : a = d * q + m
    BY <1>1
  <2> HIDE DEF q, n
  <2> QED BY <1>2, <2>1, <2>2
<1>4. p \in Nat /\ r \in 0..(d - 1) /\ n = d * p + r
  <2> HIDE DEF n
  <2> QED BY <1>2, Division
<1>5. r = 0
  <2>1. d * p + r = d * (q + 1) /\ d * p \in Nat /\ d * (q + 1) \in Nat
    BY <1>1, <1>4
  <2>2. q + 1 \in Nat /\ p + 1 \in Nat /\ d * (p + 1) = d * p + d
    BY <1>1, <1>4
  <2> HIDE DEF q, n, p, r
  <2>3. d * (q + 1) < d * (p + 1)
    BY <1>4, <2>1, <2>2
  <2>4. q + 1 < p + 1
    BY <2>2, <2>3, ProductOrder
  <2>5. CASE r > 0
    <3>1. d * p < d * (q + 1)
      BY <1>4, <2>1, <2>5
    <3>2. p < q + 1
      BY <1>4, <2>2, <3>1, ProductOrder
    <3> QED BY <1>1, <1>4, <2>4, <3>2
  <2> QED BY <1>4, <2>5
<1> QED BY <1>3, <1>5

\* The successor of a nonce, and the nonce after a restart, are nonces.
LEMMA SuccessorType ==
    ASSUME NEW n \in Nonces
    PROVE  /\ Successor(n) \in Nonces
           /\ n < NonceMax => Successor(n) = n + 1
<1>1. n \in Nat /\ n + 1 \in Nat /\ NonceModulus \in Nat /\ NonceModulus > 0
  BY Numbers DEF Nonces
<1>2. (n + 1) % NonceModulus \in 0..(NonceModulus - 1)
  BY <1>1, Division
<1>3. n < NonceMax => n + 1 < NonceModulus
  BY <1>1, Numbers
<1> QED BY <1>1, <1>2, <1>3, SmallRemainder, Numbers DEF Successor, Nonces

LEMMA RestartType ==
    ASSUME TypeOK, NEW e \in Ends
    PROVE  /\ RestartNonce(e) \in Nonces
           /\ nv[e] + Interval <= NonceMax => RestartNonce(e) = nv[e] + Interval
<1>1. nv[e] \in Nat /\ nv[e] + Interval \in Nat /\ NonceModulus > 0
  BY Numbers DEF TypeOK, Nonces
<1>2. (nv[e] + Interval) % NonceModulus \in 0..(NonceModulus - 1)
  BY <1>1, Numbers, Division
<1>3. nv[e] + Interval <= NonceMax => nv[e] + Interval < NonceModulus
  BY <1>1, Numbers
<1> QED BY <1>1, <1>2, <1>3, SmallRemainder, Numbers DEF RestartNonce, Nonces

(***************************************************************************)
(* Type correctness.                                                       *)
(***************************************************************************)
\* Setting a nonce keeps the types of what it assigns.
LEMMA SetNonceType ==
    ASSUME TypeOK, NEW e \in Ends, NEW new \in Nonces, set_auth_nonce(e, new)
    PROVE  /\ nonce' \in [Ends -> Nonces]
           /\ persist' \in [Ends -> BOOLEAN]
           /\ leapt' \subseteq Ends
<1>1. nonce' \in [Ends -> Nonces] /\ leapt' \subseteq Ends
  BY DEF TypeOK, set_auth_nonce
<1>2. persist' \in [Ends -> BOOLEAN]
  <2>1. (persist[e] \/ new = 0 \/ CrossesInterval(nonce[e], new)) \in BOOLEAN
    OBVIOUS
  <2> QED BY <2>1 DEF TypeOK, set_auth_nonce
<1> QED BY <1>1, <1>2

\* Delivering a message adds the answers only.
LEMMA DeliverType ==
    ASSUME TypeOK, NEW m \in net, NEW answers \in SUBSET Message, Deliver(m, answers)
    PROVE  net' \subseteq Message /\ copied' \subseteq Message /\ doubled' \subseteq net'
BY DEF TypeOK, Deliver, Remains

\* A received message and what may be sent for it.
LEMMA MessageShape ==
    ASSUME TypeOK, NEW m \in net
    PROVE  /\ m \in Message
           /\ m.to \in Ends /\ m.nonce \in Nonces
           /\ m.code \in {"request", "response", "sync"}
           /\ m.req \in Requests \cup {NoRequest}
           /\ nonce[m.to] \in Nonces
BY DEF TypeOK, Message

LEMMA SyncType ==
    ASSUME NEW e \in Ends, NEW n \in Nonces, NEW r \in Requests \cup {NoRequest}
    PROVE  SyncMessage(e, n, r) \in Message
BY DEF SyncMessage, Message, Peer, Ends

LEMMA RequestType ==
    ASSUME NEW n \in Nonces, NEW r \in Requests
    PROVE  RequestMessage(r, n) \in Message
BY DEF RequestMessage, Message, Ends

LEMMA SyncedType ==
    ASSUME NEW m, m.nonce \in Nonces
    PROVE  Synced(m) \in Nonces
BY Numbers DEF Synced, Nonces

LEMMA LinkTypeInit == Init => TypeOK
<1> SUFFICES ASSUME Init PROVE TypeOK
  OBVIOUS
<1>1. PICK start \in Starts : /\ nonce = [e \in Ends |-> start]
                              /\ nv = [e \in Ends |-> start - (start % Interval)]
  BY DEF Init
<1>2. start \in Nonces /\ start \in Nat
  BY Numbers DEF Nonces
<1>3. start - (start % Interval) \in Nonces
  <2>1. /\ start % Interval \in Nat
        /\ Interval * (start \div Interval) \in Nat
        /\ start = Interval * (start \div Interval) + (start % Interval)
    BY <1>2, Numbers, Division
  <2> DEFINE r == start % Interval
             k == Interval * (start \div Interval)
  <2>2. r \in Nat /\ k \in Nat /\ start = k + r
    BY <2>1
  <2> HIDE DEF r, k
  <2>3. start - r \in Nonces
    BY <1>2, <2>2, Numbers DEF Nonces
  <2> QED BY <2>3 DEF r
<1>4. nonce \in [Ends -> Nonces] /\ nv \in [Ends -> Nonces]
  BY <1>1, <1>2, <1>3
<1>5. Cardinality(cached) <= MaxOpen
  BY FS_EmptySet, Numbers DEF Init
<1>6. outages \in 0..MaxOutages
  BY Numbers DEF Init
<1>7. persist \in [Ends -> BOOLEAN] /\ mixed \in BOOLEAN /\ lapsed \in BOOLEAN
  BY DEF Init
<1>8. runs \in [Requests -> 0..2]
  BY DEF Init
<1>9. /\ net = {} /\ cached = {} /\ waiting = {} /\ released = {} /\ sent = {}
      /\ ran = {} /\ copied = {} /\ leapt = {} /\ doubled = {} /\ repeated = {}
  BY DEF Init
<1>10. stored \in [Requests -> Nonces]
  BY Numbers DEF Init, Nonces
<1> QED BY <1>4, <1>5, <1>6, <1>7, <1>8, <1>9, <1>10 DEF TypeOK

LEMMA ReceiveType ==
    ASSUME TypeOK, NEW m \in net, Receive(m)
    PROVE  TypeOK'
<1>0. /\ m \in Message /\ m.to \in Ends /\ m.nonce \in Nonces
      /\ m.req \in Requests \cup {NoRequest} /\ nonce[m.to] \in Nonces
  BY MessageShape
<1>00. 0 \in Nonces /\ NonceMax \in Nonces
  BY Numbers DEF Nonces
<1>1. CASE RejectRequest(m)
  <2>1. SyncMessage(m.to, nonce[m.to], m.req) \in Message
    BY <1>0, SyncType
  <2>2. net' \subseteq Message /\ copied' \subseteq Message /\ doubled' \subseteq net'
    BY <1>1, <2>1, DeliverType DEF RejectRequest
  <2> QED BY <1>1, <2>2 DEF TypeOK, RejectRequest, nonceVars, clientVars, serverVars
<1>2. CASE ResetNonce(m)
  <2>1. SyncMessage(m.to, NonceMax, m.req) \in Message
    BY <1>0, <1>00, SyncType
  <2>2. net' \subseteq Message /\ copied' \subseteq Message /\ doubled' \subseteq net'
    BY <1>2, <2>1, DeliverType DEF ResetNonce
  <2>3. /\ nonce' \in [Ends -> Nonces] /\ persist' \in [Ends -> BOOLEAN]
        /\ leapt' \subseteq Ends
    BY <1>0, <1>00, <1>2, SetNonceType DEF ResetNonce
  <2> QED BY <1>2, <2>2, <2>3 DEF TypeOK, ResetNonce, clientVars
<1>3. CASE ExecuteRequest(m)
  <2> DEFINE answer == [to |-> Peer(m.to), code |-> "response", nonce |-> m.nonce,
                        req |-> m.req]
  <2>1. answer \in Message
    BY <1>0 DEF Message, Peer, Ends
  <2>2. net' \subseteq Message /\ copied' \subseteq Message /\ doubled' \subseteq net'
    <3>1. Deliver(m, {answer})
      BY <1>3 DEF ExecuteRequest
    <3> HIDE DEF answer
    <3> QED BY <2>1, <3>1, DeliverType
  <2>3. /\ nonce' \in [Ends -> Nonces] /\ persist' \in [Ends -> BOOLEAN]
        /\ leapt' \subseteq Ends
    BY <1>0, <1>3, SetNonceType DEF ExecuteRequest
  <2>4. runs' \in [Requests -> 0..2]
    <3>1. runs' = [runs EXCEPT ![m.req] = IF runs[m.req] = 0 THEN 1 ELSE 2]
      BY <1>3 DEF ExecuteRequest
    <3>2. (IF runs[m.req] = 0 THEN 1 ELSE 2) \in 0..2
      OBVIOUS
    <3>3. runs \in [Requests -> 0..2]
      BY DEF TypeOK
    <3> QED BY <3>1, <3>2, <3>3
  <2>5. ran' \subseteq Message /\ lapsed' \in BOOLEAN
    BY <1>0, <1>3 DEF TypeOK, ExecuteRequest
  <2> QED BY <1>3, <2>2, <2>3, <2>4, <2>5 DEF TypeOK, ExecuteRequest, clientVars
<1>4. CASE RejectResponse(m)
  <2> DEFINE r == IF m.code = "sync" THEN m.req ELSE NoRequest
  <2>1. r \in Requests \cup {NoRequest}
    BY <1>0
  <2>2. SyncMessage(m.to, nonce[m.to], r) \in Message
    <3> HIDE DEF r
    <3> QED BY <1>0, <2>1, SyncType
  <2>3. net' \subseteq Message /\ copied' \subseteq Message /\ doubled' \subseteq net'
    BY <1>4, <2>2, DeliverType DEF RejectResponse
  <2> QED BY <1>4, <2>3 DEF TypeOK, RejectResponse, nonceVars, clientVars, serverVars
<1>5. CASE AcceptResponse(m)
  <2>1. net' \subseteq Message /\ copied' \subseteq Message /\ doubled' \subseteq net'
    BY <1>5, DeliverType DEF AcceptResponse
  <2>2. /\ nonce' \in [Ends -> Nonces] /\ persist' \in [Ends -> BOOLEAN]
        /\ leapt' \subseteq Ends
    BY <1>0, <1>5, SetNonceType DEF AcceptResponse
  <2> QED BY <1>5, <2>1, <2>2 DEF TypeOK, AcceptResponse, serverVars
<1>6. CASE AcceptSync(m)
  <2>0. Synced(m) \in Nonces
    BY <1>0, SyncedType
  <2>1. /\ nonce' \in [Ends -> Nonces] /\ persist' \in [Ends -> BOOLEAN]
        /\ leapt' \subseteq Ends
    BY <1>0, <1>6, <2>0, SetNonceType DEF AcceptSync
  <2>2. /\ net' \subseteq Message /\ copied' \subseteq Message /\ doubled' \subseteq net'
        /\ released' \subseteq cached /\ mixed' \in BOOLEAN
        /\ stored' \in [Requests -> Nonces]
    <3>1. CASE m.to = "controller" /\ m.req \in cached
      <4>1. PICK r \in ResendBuffer(m.req) :
               /\ Deliver(m, IF r = NoRequest THEN {}
                             ELSE {RequestMessage(r, Successor(Synced(m)))})
               /\ released' = released \cup {m.req}
               /\ stored' = [stored EXCEPT ![m.req] = Successor(Synced(m))]
               /\ mixed' = (mixed \/ m.req \in released)
        BY <1>6, <3>1 DEF AcceptSync
      <4>2. r # NoRequest => r \in Requests
        BY <3>1 DEF ResendBuffer, TypeOK
      <4> DEFINE answers == IF r = NoRequest THEN {}
                            ELSE {RequestMessage(r, Successor(Synced(m)))}
      <4>3. answers \in SUBSET Message
        BY <2>0, <4>2, SuccessorType, RequestType
      <4>4. net' \subseteq Message /\ copied' \subseteq Message /\ doubled' \subseteq net'
        <5>1. Deliver(m, answers)
          BY <4>1
        <5> HIDE DEF answers
        <5> QED BY <4>3, <5>1, DeliverType
      <4>5. stored' \in [Requests -> Nonces]
        BY <2>0, <4>1, SuccessorType DEF TypeOK
      <4> QED BY <3>1, <4>1, <4>4, <4>5 DEF TypeOK
    <3>2. CASE ~(m.to = "controller" /\ m.req \in cached)
      <4>1. Deliver(m, {}) /\ UNCHANGED <<released, stored, mixed>>
        BY <1>6, <3>2 DEF AcceptSync
      <4> QED BY <4>1, DeliverType DEF TypeOK
    <3> QED BY <3>1, <3>2
  <2> QED BY <1>6, <2>1, <2>2 DEF TypeOK, AcceptSync
<1> QED BY <1>1, <1>2, <1>3, <1>4, <1>5, <1>6 DEF Receive

LEMMA OthersType ==
    ASSUME TypeOK,
           \/ \E r \in Requests : SendRequest(r) \/ CallbackLifetime(r)
           \/ \E expired \in SUBSET cached : IdleTimeout(expired)
           \/ \E m \in net : Lose(m)
           \/ \E e \in Ends : PersistNonce(e) \/ PowerLoss(e)
    PROVE  TypeOK'
<1>0. IsFiniteSet(cached) /\ Cardinality(cached) \in Nat
  <2>1. IsFiniteSet(cached)
    BY LinkAssumption, FS_Subset DEF TypeOK
  <2> QED BY <2>1, FS_CardinalityType
<1>1. ASSUME NEW r \in Requests, SendRequest(r) PROVE TypeOK'
  <2>1. net' \subseteq Message /\ stored' \in [Requests -> Nonces]
    <3>1. "controller" \in Ends
      BY DEF Ends
    <3>2. RequestMessage(r, Successor(nonce["controller"])) \in Message
      BY <3>1, SuccessorType, RequestType DEF TypeOK
    <3>3. Successor(nonce["controller"]) \in Nonces
      BY <3>1, SuccessorType DEF TypeOK
    <3> QED BY <1>1, <3>2, <3>3 DEF SendRequest, TypeOK
  <2>2. Cardinality(cached') <= MaxOpen
    <3>1. cached' = cached \cup {r} /\ r \notin cached /\ Cardinality(cached) < MaxOpen
      BY <1>1 DEF SendRequest, TypeOK
    <3>2. Cardinality(cached \cup {r}) = Cardinality(cached) + 1
      BY <1>0, <3>1, FS_AddElement
    <3> QED BY <1>0, <3>1, <3>2, Numbers
  <2> QED BY <1>1, <2>1, <2>2 DEF TypeOK, SendRequest, nonceVars, serverVars
<1>2. ASSUME NEW expired \in SUBSET cached, IdleTimeout(expired) PROVE TypeOK'
  <2>1. PICK again \in SentAgain(cached \ expired) :
           Transmit({RequestMessage(r, stored[r]) : r \in again})
    BY <1>2 DEF IdleTimeout
  <2>2. again \subseteq Requests
    BY DEF SentAgain, TypeOK
  <2>3. \A r \in again : RequestMessage(r, stored[r]) \in Message
    BY <2>2, RequestType DEF TypeOK
  <2>4. net' \subseteq Message /\ doubled' \subseteq net'
    BY <2>1, <2>3 DEF Transmit, TypeOK
  <2>5. /\ cached' = {} /\ released' = {} /\ stored' = [r \in Requests |-> 0]
        /\ waiting' = waiting \ expired
        /\ repeated' = repeated \cup (cached \ expired)
        /\ mixed' \in BOOLEAN
    BY <1>2 DEF IdleTimeout, TypeOK
  <2>6. stored' \in [Requests -> Nonces] /\ Cardinality(cached') <= MaxOpen
    BY <2>5, FS_EmptySet, Numbers DEF Nonces
  <2>7. UNCHANGED <<nonce, persist, nv, sent, runs, ran, lapsed, copied, leapt, outages>>
    BY <1>2 DEF IdleTimeout, nonceVars, serverVars
  <2> QED BY <2>4, <2>5, <2>6, <2>7 DEF TypeOK
<1>3. ASSUME NEW m \in net, Lose(m) PROVE TypeOK'
  BY <1>3 DEF TypeOK, Lose, Remains, nonceVars, clientVars, serverVars
<1>4. ASSUME NEW e \in Ends, PersistNonce(e) PROVE TypeOK'
  BY <1>4 DEF TypeOK, PersistNonce, clientVars, serverVars
<1>5. ASSUME NEW e \in Ends, PowerLoss(e) PROVE TypeOK'
  <2>1. nonce' \in [Ends -> Nonces]
    BY <1>5, RestartType DEF TypeOK, PowerLoss
  <2>2. Cardinality(cached') <= MaxOpen
    BY <1>5, FS_EmptySet, Numbers DEF TypeOK, PowerLoss
  <2>3. outages' \in 0..MaxOutages
    BY <1>5, Numbers DEF TypeOK, PowerLoss
  <2>4. /\ cached' \subseteq sent /\ waiting' \subseteq cached' \cup repeated
        /\ released' \subseteq cached' /\ sent' = sent
    BY <1>5 DEF TypeOK, PowerLoss
  <2>5. lapsed' \in BOOLEAN /\ leapt' \subseteq Ends /\ persist' \in [Ends -> BOOLEAN]
    BY <1>5 DEF TypeOK, PowerLoss
  <2>6. UNCHANGED <<nv, net, doubled, mixed, repeated, runs, ran, copied>>
    BY <1>5 DEF PowerLoss
  <2>7. stored' \in [Requests -> Nonces]
    BY <1>5, Numbers DEF TypeOK, PowerLoss, Nonces
  <2> QED BY <2>1, <2>2, <2>3, <2>4, <2>5, <2>6, <2>7 DEF TypeOK
<1>6. ASSUME NEW r \in Requests, CallbackLifetime(r) PROVE TypeOK'
  BY <1>6 DEF TypeOK, CallbackLifetime, nonceVars, serverVars
<1> QED BY <1>1, <1>2, <1>3, <1>4, <1>5, <1>6

LEMMA LinkTypeNext == TypeOK /\ [Next]_vars => TypeOK'
<1> SUFFICES ASSUME TypeOK, [Next]_vars PROVE TypeOK'
  OBVIOUS
<1>1. CASE UNCHANGED vars
  BY <1>1 DEF TypeOK, vars, nonceVars, clientVars, serverVars
<1> QED BY <1>1, ReceiveType, OthersType DEF Next

\* The variables of the two ends keep their types; in particular never more
\* transactions are open than COAP_MAX_OPEN_TRANSACTIONS, and every callback
\* that is registered belongs to an open transaction or to one that the idle
\* timer of another request closed.
THEOREM LinkTypeCorrect == Spec => []TypeOK
BY LinkTypeInit, LinkTypeNext, PTL DEF Spec

(***************************************************************************)
(* The saved nonce.                                                        *)
(***************************************************************************)
NoMultiple(from, to) == \A n \in (from + 1)..to : n % Interval # 0

\* What makes NonceSaved inductive: as long as no save is due and none was
\* skipped, the nonce has passed no multiple of Interval since it was saved.
NonceKept ==
    \A e \in Ends :
        \/ persist[e]
        \/ e \in leapt
        \/ nonce[e] <= nv[e]
        \/ NoMultiple(nv[e], nonce[e])

\* Fewer than Interval nonces fit between two multiples of Interval.
LEMMA KeptIsSaved == TypeOK /\ NonceKept => NonceSaved
<1> SUFFICES ASSUME TypeOK, NonceKept, NEW e \in Ends \ leapt, ~persist[e],
                    ~(nonce[e] <= nv[e] + Interval)
             PROVE  FALSE
  BY DEF NonceSaved
<1>1. nonce[e] \in Nat /\ nv[e] \in Nat /\ Interval \in Nat /\ Interval > 0
  BY Numbers DEF TypeOK, Nonces
<1>2. nonce[e] > nv[e] + Interval
  BY <1>1
<1>3. NoMultiple(nv[e], nonce[e])
  BY <1>1, <1>2 DEF NonceKept
<1>4. PICK n \in (nv[e] + 1)..(nv[e] + Interval) : n % Interval = 0
  BY <1>1, MultipleWithin
<1>5. n \in (nv[e] + 1)..nonce[e]
  BY <1>1, <1>2, <1>4
<1> QED BY <1>3, <1>4, <1>5 DEF NoMultiple

LEMMA KeptInit == Init => NonceKept
<1> SUFFICES ASSUME Init, NEW e \in Ends PROVE NoMultiple(nv[e], nonce[e])
  BY DEF NonceKept
<1>1. PICK start \in Starts : /\ nonce = [i \in Ends |-> start]
                              /\ nv = [i \in Ends |-> start - (start % Interval)]
  BY DEF Init
<1>2. start \in Nat /\ Interval \in Nat /\ Interval > 0
  BY Numbers DEF Nonces
<1>3. nonce[e] = start /\ nv[e] = start - (start % Interval)
  BY <1>1
<1> QED BY <1>2, <1>3, NoMultipleBelow DEF NoMultiple

\* Setting a nonce flags every multiple it passes, but for the leap from 0.
LEMMA SetNonceKeeps ==
    ASSUME TypeOK, NonceKept, nv' = nv,
           NEW e \in Ends, NEW new \in Nonces, set_auth_nonce(e, new)
    PROVE  NonceKept'
<1>0. nonce[e] \in Nat /\ nv[e] \in Nat /\ new \in Nat /\ Interval \in Nat
  BY Numbers DEF TypeOK, Nonces
<1>1. /\ nonce' = [nonce EXCEPT ![e] = new]
      /\ leapt' = IF nonce[e] = 0 /\ new >= Interval THEN leapt \cup {e} ELSE leapt
      /\ persist' = [persist EXCEPT
                       ![e] = persist[e] \/ new = 0 \/ CrossesInterval(nonce[e], new)]
  BY DEF set_auth_nonce
<1>2. /\ nonce'[e] = new
      /\ persist'[e] = (persist[e] \/ new = 0 \/ CrossesInterval(nonce[e], new))
  BY <1>1 DEF TypeOK
<1>3. ASSUME NEW i \in Ends, i # e
      PROVE  /\ nonce'[i] = nonce[i] /\ persist'[i] = persist[i]
             /\ i \in leapt <=> i \in leapt'
  BY <1>1, <1>3 DEF TypeOK
<1>4. ASSUME ~persist'[e], e \notin leapt', ~(new <= nv[e])
      PROVE  NoMultiple(nv[e], new)
  <2>1. ~persist[e] /\ new # 0 /\ ~CrossesInterval(nonce[e], new)
    BY <1>2, <1>4
  <2>2. e \notin leapt /\ ~(nonce[e] = 0 /\ new >= Interval)
    BY <1>1, <1>4
  <2>3. nonce[e] <= nv[e] \/ NoMultiple(nv[e], nonce[e])
    BY <2>1, <2>2 DEF NonceKept
  <2>4. CASE new <= nonce[e]
    BY <1>0, <1>4, <2>3, <2>4 DEF NoMultiple
  <2>5. CASE new > nonce[e] /\ nonce[e] = 0
    <3>1. ASSUME NEW n \in (nv[e] + 1)..new PROVE n % Interval # 0
      <4>1. n \in Nat /\ n # 0 /\ n < Interval
        BY <1>0, <2>2, <2>5
      <4> QED BY <1>0, <4>1, SmallRemainder
    <3> QED BY <3>1 DEF NoMultiple
  <2>6. CASE new > nonce[e] /\ nonce[e] > 0
    <3>1. \A n \in (nonce[e] + 1)..new : n % Interval # 0
      BY <2>1, <2>6 DEF CrossesInterval
    <3> QED BY <1>0, <2>3, <3>1 DEF NoMultiple
  <2> QED BY <1>0, <2>4, <2>5, <2>6
<1>5. ASSUME NEW i \in Ends
      PROVE  \/ persist'[i] \/ i \in leapt' \/ nonce'[i] <= nv'[i]
             \/ NoMultiple(nv'[i], nonce'[i])
  <2>1. CASE i = e
    BY <1>2, <1>4, <2>1
  <2>2. CASE i # e
    BY <1>3, <2>2 DEF NonceKept
  <2> QED BY <2>1, <2>2
<1> QED BY <1>5 DEF NonceKept, NoMultiple

LEMMA KeptNext == TypeOK /\ NonceKept /\ [Next]_vars => NonceKept'
<1> SUFFICES ASSUME TypeOK, NonceKept, [Next]_vars PROVE NonceKept'
  OBVIOUS
<1>1. ASSUME NEW m \in net, Receive(m) PROVE NonceKept'
  <2>0. m.to \in Ends /\ m.nonce \in Nonces /\ Synced(m) \in Nonces /\ 0 \in Nonces
    BY MessageShape, SyncedType, Numbers DEF Nonces
  <2>1. CASE RejectRequest(m) \/ RejectResponse(m)
    BY <2>1 DEF RejectRequest, RejectResponse, nonceVars, NonceKept, NoMultiple
  <2>2. CASE ~(RejectRequest(m) \/ RejectResponse(m))
    <3>1. nv' = nv /\ \E new \in {0, m.nonce, Synced(m)} : set_auth_nonce(m.to, new)
      BY <1>1, <2>2 DEF Receive, ResetNonce, ExecuteRequest, AcceptResponse, AcceptSync
    <3> QED BY <2>0, <3>1, SetNonceKeeps
  <2> QED BY <2>1, <2>2
<1>2. ASSUME NEW e \in Ends, PersistNonce(e) PROVE NonceKept'
  <2>1. ASSUME NEW i \in Ends
        PROVE  \/ persist'[i] \/ i \in leapt' \/ nonce'[i] <= nv'[i]
               \/ NoMultiple(nv'[i], nonce'[i])
    <3>1. CASE i = e
      BY <1>2, <3>1 DEF PersistNonce, TypeOK, Nonces
    <3>2. CASE i # e
      <4>1. /\ nonce'[i] = nonce[i] /\ persist'[i] = persist[i] /\ nv'[i] = nv[i]
            /\ i \in leapt => i \in leapt'
        BY <1>2, <3>2 DEF PersistNonce, TypeOK
      <4> QED BY <4>1 DEF NonceKept
    <3> QED BY <3>1, <3>2
  <2> QED BY <2>1 DEF NonceKept, NoMultiple
<1>3. ASSUME NEW e \in Ends, PowerLoss(e) PROVE NonceKept'
  <2>1. ASSUME NEW i \in Ends
        PROVE  \/ persist'[i] \/ i \in leapt' \/ nonce'[i] <= nv'[i]
               \/ NoMultiple(nv'[i], nonce'[i])
    <3>1. CASE i = e
      BY <1>3, <3>1 DEF PowerLoss, TypeOK
    <3>2. CASE i # e
      <4>1. /\ nonce'[i] = nonce[i] /\ persist'[i] = persist[i] /\ nv'[i] = nv[i]
            /\ i \in leapt => i \in leapt'
        BY <1>3, <3>2 DEF PowerLoss, TypeOK
      <4> QED BY <4>1 DEF NonceKept
    <3> QED BY <3>1, <3>2
  <2> QED BY <2>1 DEF NonceKept, NoMultiple
<1>4. CASE \/ \E r \in Requests : SendRequest(r) \/ CallbackLifetime(r)
           \/ \E expired \in SUBSET cached : IdleTimeout(expired)
           \/ \E m \in net : Lose(m)
  BY <1>4 DEF SendRequest, CallbackLifetime, IdleTimeout, Lose, nonceVars, NonceKept,
       NoMultiple
<1>5. CASE UNCHANGED vars
  BY <1>5 DEF vars, nonceVars, NonceKept, NoMultiple
<1> QED BY <1>1, <1>2, <1>3, <1>4, <1>5 DEF Next

LEMMA KeptAlways == Spec => [](TypeOK /\ NonceKept)
BY LinkTypeInit, LinkTypeNext, KeptInit, KeptNext, PTL DEF Spec

\* A restart, which goes on one interval after the saved nonce, never takes a
\* nonce back, unless the save is due in this very process call or was not
\* flagged because the nonce left 0 by an interval or more.
THEOREM NoncesSaved == Spec => []NonceSaved
BY KeptAlways, KeptIsSaved, PTL

(***************************************************************************)
(* Freshness.                                                              *)
(***************************************************************************)
\* Requests go to the accessory, and the accessory's nonce is that of the
\* newest message executed since the last reset, or above it.
RanBelow ==
    /\ \A m \in net : m.code = "request" => m.to = "accessory" /\ m.req \in Requests
    /\ ~lapsed => \A m \in ran : m.nonce <= nonce["accessory"]

\* A fresh request carries a nonce above the accessory's.
LEMMA FreshIsAbove ==
    ASSUME TypeOK, RanBelow, NEW m \in net, ExecuteRequest(m), ~lapsed'
    PROVE  m.to = "accessory" /\ m.nonce > nonce["accessory"]
<1>1. m.to = "accessory" /\ m.code = "request" /\ ~Stale(m) /\ nonce[m.to] # NonceMax
  BY DEF ExecuteRequest, RanBelow
<1>2. nonce["accessory"] \in Nonces /\ m.nonce \in Nonces
  BY <1>1, MessageShape
<1>3. nonce["accessory"] < NonceMax
  BY <1>1, <1>2, Numbers DEF Nonces
<1>4. Successor(nonce["accessory"]) = nonce["accessory"] + 1
  BY <1>2, <1>3, SuccessorType
<1>5. ~(m.nonce < nonce["accessory"] + 1)
  BY <1>1, <1>4 DEF Stale
<1> QED BY <1>1, <1>2, <1>5 DEF Nonces

\* Only requests to the accessory are sent.
LEMMA AnswersShape ==
    ASSUME TypeOK, RanBelow, NEW m \in net, Receive(m)
    PROVE  \A n \in net' : n.code = "request" => n.to = "accessory" /\ n.req \in Requests
<1>1. ASSUME NEW answers, Deliver(m, answers),
             \A n \in answers : n.code = "request"
                                  => n.to = "accessory" /\ n.req \in Requests
      PROVE  \A n \in net' : n.code = "request" => n.to = "accessory" /\ n.req \in Requests
  BY <1>1 DEF Deliver, Remains, RanBelow
<1>2. CASE RejectRequest(m) \/ RejectResponse(m) \/ ResetNonce(m)
  <2>1. \E n, r : Deliver(m, {SyncMessage(m.to, n, r)})
    BY <1>2 DEF RejectRequest, RejectResponse, ResetNonce
  <2> QED BY <1>1, <2>1 DEF SyncMessage
<1>3. CASE ExecuteRequest(m)
  BY <1>1, <1>3 DEF ExecuteRequest
<1>4. CASE AcceptResponse(m)
  BY <1>1, <1>4 DEF AcceptResponse
<1>5. CASE AcceptSync(m)
  <2>1. CASE m.to = "controller" /\ m.req \in cached
    <3>1. PICK r \in ResendBuffer(m.req) :
             Deliver(m, IF r = NoRequest THEN {}
                        ELSE {RequestMessage(r, Successor(Synced(m)))})
      BY <1>5, <2>1 DEF AcceptSync
    <3>2. r # NoRequest => r \in Requests
      BY <2>1 DEF ResendBuffer, TypeOK
    <3> QED BY <1>1, <3>1, <3>2 DEF RequestMessage
  <2>2. CASE ~(m.to = "controller" /\ m.req \in cached)
    BY <1>1, <1>5, <2>2 DEF AcceptSync
  <2> QED BY <2>1, <2>2
<1> QED BY <1>2, <1>3, <1>4, <1>5 DEF Receive

\* A restart of the accessory takes its nonce back only through a known gap.
LEMMA RestartForward ==
    ASSUME TypeOK, NonceKept, NEW e \in Ends, ~RestartGap(e)
    PROVE  nonce[e] <= RestartNonce(e)
<1> SUFFICES ASSUME ~(nonce[e] <= RestartNonce(e)) PROVE FALSE
  OBVIOUS
<1>1. /\ nonce[e] \in Nat /\ nv[e] \in Nat /\ RestartNonce(e) \in Nat
      /\ Interval \in Nat /\ NonceMax \in Nat
  BY RestartType, Numbers DEF TypeOK, Nonces
<1>2. ~persist[e] /\ e \notin leapt /\ nv[e] + Interval <= NonceMax
  BY <1>1 DEF RestartGap
<1>3. RestartNonce(e) = nv[e] + Interval
  BY <1>2, RestartType
<1>4. nonce[e] <= nv[e] + Interval
  BY <1>2, KeptIsSaved DEF NonceSaved
<1> QED BY <1>1, <1>3, <1>4

LEMMA RanNext == TypeOK /\ NonceKept /\ RanBelow /\ [Next]_vars => RanBelow'
<1> SUFFICES ASSUME TypeOK, NonceKept, RanBelow, [Next]_vars PROVE RanBelow'
  OBVIOUS
<1>0. /\ "accessory" \in Ends /\ "controller" \in Ends /\ "accessory" # "controller"
      /\ nonce["accessory"] \in Nat
      /\ \A n \in ran : n.nonce \in Nat
  BY DEF Ends, TypeOK, Nonces, Message
<1>1. ASSUME NEW m \in net, Receive(m) PROVE RanBelow'
  <2>0. /\ m.to \in Ends /\ m.nonce \in Nat /\ nonce[m.to] \in Nat
        /\ m.code \in {"request", "response", "sync"}
    BY MessageShape DEF Nonces
  <2> SUFFICES ASSUME ~lapsed' PROVE \A n \in ran' : n.nonce <= nonce'["accessory"]
    BY <1>1, AnswersShape DEF RanBelow
  <2>1. CASE RejectRequest(m) \/ RejectResponse(m)
    BY <2>1 DEF RejectRequest, RejectResponse, nonceVars, serverVars, RanBelow
  <2>2. CASE ResetNonce(m)
    BY <2>2 DEF ResetNonce
  <2>3. CASE ExecuteRequest(m)
    <3>1. m.to = "accessory" /\ m.nonce > nonce["accessory"]
      BY <2>3, FreshIsAbove
    <3>2. /\ nonce'["accessory"] = m.nonce /\ ran' = ran \cup {m} /\ ~lapsed
      BY <1>0, <2>3, <3>1 DEF ExecuteRequest, set_auth_nonce, TypeOK
    <3>3. \A n \in ran : n.nonce <= nonce["accessory"]
      BY <3>2 DEF RanBelow
    <3> QED BY <1>0, <2>0, <3>1, <3>2, <3>3
  <2>4. CASE AcceptResponse(m) \/ AcceptSync(m)
    <3>1. CASE m.to = "accessory" /\ ran' # {}
      <4>1. ran' = ran /\ lapsed' = lapsed /\ nonce'["accessory"] = m.nonce
        BY <1>0, <2>4, <3>1 DEF AcceptResponse, AcceptSync, set_auth_nonce, TypeOK,
             serverVars, Synced
      <4>2. m.nonce >= nonce["accessory"]
        BY <2>0, <2>4, <3>1 DEF AcceptResponse, AcceptSync, Stale
      <4>3. \A n \in ran : n.nonce <= nonce["accessory"]
        BY <4>1 DEF RanBelow
      <4> QED BY <1>0, <2>0, <4>1, <4>2, <4>3
    <3>2. CASE m.to # "accessory"
      <4>1. ran' = ran /\ lapsed' = lapsed /\ nonce'["accessory"] = nonce["accessory"]
        BY <1>0, <2>4, <3>2 DEF AcceptResponse, AcceptSync, set_auth_nonce, TypeOK,
             serverVars
      <4> QED BY <4>1 DEF RanBelow
    <3> QED BY <3>1, <3>2
  <2> QED BY <1>1, <2>1, <2>2, <2>3, <2>4 DEF Receive
<1>2. ASSUME NEW e \in Ends, PowerLoss(e) PROVE RanBelow'
  <2>1. net' = net /\ ran' = ran /\ lapsed' = (lapsed \/ (e = "accessory" /\ RestartGap(e)))
    BY <1>2 DEF PowerLoss
  <2>2. CASE e = "accessory" /\ ~lapsed'
    <3>1. nonce["accessory"] <= RestartNonce(e)
      BY <2>1, <2>2, RestartForward
    <3>2. nonce'["accessory"] = RestartNonce(e) /\ RestartNonce(e) \in Nat
      BY <1>2, <2>2, RestartType DEF PowerLoss, TypeOK, Nonces
    <3>3. ~lapsed
      BY <2>1, <2>2
    <3>4. \A m \in ran : m.nonce <= nonce["accessory"]
      BY <3>3 DEF RanBelow
    <3>5. \A m \in ran' : m.nonce <= nonce'["accessory"]
      BY <1>0, <2>1, <3>1, <3>2, <3>4
    <3> QED BY <2>1, <3>5 DEF RanBelow
  <2>3. CASE e # "accessory" \/ lapsed'
    <3>1. e # "accessory" => nonce'["accessory"] = nonce["accessory"]
      BY <1>0, <1>2 DEF PowerLoss, TypeOK
    <3> QED BY <2>1, <2>3, <3>1 DEF RanBelow
  <2> QED BY <2>2, <2>3
<1>3. ASSUME NEW r \in Requests, SendRequest(r) PROVE RanBelow'
  BY <1>3 DEF SendRequest, RequestMessage, RanBelow, nonceVars, serverVars
<1>4. ASSUME NEW expired \in SUBSET cached, IdleTimeout(expired) PROVE RanBelow'
  <2>1. PICK again \in SentAgain(cached \ expired) :
           Transmit({RequestMessage(r, stored[r]) : r \in again})
    BY <1>4 DEF IdleTimeout
  <2>2. again \subseteq Requests
    BY DEF SentAgain, TypeOK
  <2>3. UNCHANGED <<nonce, ran, lapsed>>
    BY <1>4 DEF IdleTimeout, nonceVars, serverVars
  <2> QED BY <2>1, <2>2, <2>3 DEF Transmit, RequestMessage, RanBelow
<1>5. ASSUME NEW m \in net, Lose(m) PROVE RanBelow'
  BY <1>5 DEF Lose, Remains, RanBelow, nonceVars, serverVars
<1>6. ASSUME NEW e \in Ends, PersistNonce(e) PROVE RanBelow'
  BY <1>6 DEF PersistNonce, RanBelow, serverVars
<1>7. CASE UNCHANGED vars
  BY <1>7 DEF vars, RanBelow, nonceVars, serverVars
<1>8. ASSUME NEW r \in Requests, CallbackLifetime(r) PROVE RanBelow'
  BY <1>8 DEF CallbackLifetime, RanBelow, nonceVars, serverVars
<1> QED BY <1>1, <1>2, <1>3, <1>4, <1>5, <1>6, <1>7, <1>8 DEF Next

\* No message is executed twice between two resets of the nonce, however
\* often the network delivers it and wherever the accessory restarts, unless
\* the accessory's nonce fell through one of the gaps RestartGap names.
THEOREM Fresh == Spec => FreshOnly
<1>1. Init => RanBelow
  BY DEF Init, RanBelow
<1>2. TypeOK /\ RanBelow
        => [\A m \in net : ExecuteRequest(m) /\ m \in ran => lapsed']_vars
  <2> SUFFICES ASSUME TypeOK, RanBelow, NEW m \in net, ExecuteRequest(m), m \in ran,
                      ~lapsed'
               PROVE  FALSE
    OBVIOUS
  <2>1. m.to = "accessory" /\ m.nonce > nonce["accessory"]
    BY FreshIsAbove
  <2>2. ~lapsed
    BY DEF ExecuteRequest
  <2>3. m.nonce <= nonce["accessory"]
    BY <2>2 DEF RanBelow
  <2>4. m.nonce \in Nat /\ nonce["accessory"] \in Nat
    BY <2>1, MessageShape DEF Nonces
  <2> QED BY <2>1, <2>3, <2>4
<1> QED BY <1>1, <1>2, RanNext, LinkTypeInit, LinkTypeNext, KeptInit, KeptNext, PTL
        DEF Spec, FreshOnly

(***************************************************************************)
(* At most one execution.                                                  *)
(***************************************************************************)
\* The messages that can still lead to an execution of r: the request itself,
\* and a nonce sync in answer to it.
Tokens(r) == {m \in net : m.req = r /\ m.code \in {"request", "sync"}}

\* On a network without copies and with buffers that stay owned, a request
\* no timer repeats is in one place at a time: not made yet, in at most one
\* message, which the network holds once, or served.
OneToken ==
    copied = {} /\ ~mixed =>
        \A r \in Requests \ repeated :
            /\ \A m, n \in Tokens(r) : m = n
            /\ Tokens(r) \cap doubled = {}
            /\ runs[r] > 0 => Tokens(r) = {}
            /\ runs[r] <= 1
            /\ r \notin sent => Tokens(r) = {} /\ runs[r] = 0

\* A delivery without a copy takes the message out of the network.
LEMMA DeliverMoves ==
    ASSUME NEW m, NEW answers, Deliver(m, answers), copied' = {}
    PROVE  copied = {} /\ net' = Remains(m) \cup answers /\ doubled' = doubled \ {m}
BY DEF Deliver

\* Answering a message with at most one token of the same request leaves at
\* most one token in the network, and none where there was none.
LEMMA TokenMoves ==
    ASSUME TypeOK, OneToken, NEW m \in net, NEW answers,
           Deliver(m, answers), copied' = {}, ~mixed,
           \A n \in answers : n.code \in {"request", "sync"} /\ n.req \in Requests
                                => m.code \in {"request", "sync"} /\ n.req = m.req,
           \A n1, n2 \in answers : n1 = n2,
           sent' = sent, runs' = runs, repeated' = repeated
    PROVE  OneToken'
<1>1. copied = {} /\ net' = Remains(m) \cup answers /\ doubled' = doubled \ {m}
  BY DeliverMoves
<1> SUFFICES ASSUME NEW r \in Requests \ repeated
             PROVE  /\ \A a, b \in Tokens(r)' : a = b
                    /\ Tokens(r)' \cap doubled' = {}
                    /\ runs[r] > 0 => Tokens(r)' = {}
                    /\ runs[r] <= 1
                    /\ r \notin sent => Tokens(r)' = {} /\ runs[r] = 0
  BY DEF OneToken
<1>2. /\ \A a, b \in Tokens(r) : a = b
      /\ Tokens(r) \cap doubled = {}
      /\ runs[r] > 0 => Tokens(r) = {}
      /\ runs[r] <= 1
      /\ r \notin sent => Tokens(r) = {} /\ runs[r] = 0
  BY <1>1 DEF OneToken
<1>3. Tokens(r)' = (Tokens(r) \ {m})
                     \cup {n \in answers : n.req = r /\ n.code \in {"request", "sync"}}
  BY <1>1, <1>2 DEF Tokens, Remains
<1>4. Tokens(r)' \cap doubled' = {}
  <2>1. doubled' \subseteq net /\ doubled' \subseteq doubled
    BY <1>1 DEF TypeOK
  <2>2. Tokens(r)' \cap net \subseteq Tokens(r)
    BY DEF Tokens
  <2> QED BY <1>2, <2>1, <2>2
<1>5. CASE m \in Tokens(r)
  BY <1>2, <1>3, <1>4, <1>5
<1>6. CASE m \notin Tokens(r)
  <2>1. {n \in answers : n.req = r /\ n.code \in {"request", "sync"}} = {}
    BY <1>6 DEF Tokens
  <2> QED BY <1>2, <1>3, <1>4, <1>6, <2>1
<1> QED BY <1>5, <1>6

LEMMA TokenReceive ==
    ASSUME TypeOK, RanBelow, OneToken, NEW m \in net, Receive(m)
    PROVE  OneToken'
<1> SUFFICES ASSUME copied' = {}, ~mixed' PROVE OneToken'
  BY DEF OneToken
<1>0. ~mixed /\ NoRequest \notin Requests
  BY LinkAssumption DEF Receive, RejectRequest, ResetNonce, ExecuteRequest,
       RejectResponse, AcceptResponse, AcceptSync, clientVars
<1>1. CASE RejectRequest(m)
  <2>1. /\ Deliver(m, {SyncMessage(m.to, nonce[m.to], m.req)})
        /\ m.code = "request" /\ sent' = sent /\ runs' = runs /\ repeated' = repeated
    BY <1>1 DEF RejectRequest, clientVars, serverVars
  <2>2. SyncMessage(m.to, nonce[m.to], m.req).req = m.req
    BY DEF SyncMessage
  <2> QED BY <1>0, <2>1, <2>2, TokenMoves
<1>2. CASE ResetNonce(m)
  <2>1. /\ Deliver(m, {SyncMessage(m.to, NonceMax, m.req)})
        /\ m.code = "request" /\ sent' = sent /\ runs' = runs /\ repeated' = repeated
    BY <1>2 DEF ResetNonce, clientVars
  <2>2. SyncMessage(m.to, NonceMax, m.req).req = m.req
    BY DEF SyncMessage
  <2> QED BY <1>0, <2>1, <2>2, TokenMoves
<1>3. CASE RejectResponse(m)
  <2> DEFINE q == IF m.code = "sync" THEN m.req ELSE NoRequest
             answer == SyncMessage(m.to, nonce[m.to], q)
  <2>1. Deliver(m, {answer}) /\ sent' = sent /\ runs' = runs /\ repeated' = repeated
    BY <1>3 DEF RejectResponse, clientVars, serverVars
  <2>2. answer.req = q
    BY DEF SyncMessage
  <2>3. answer.req \in Requests => m.code = "sync" /\ answer.req = m.req
    BY <1>0, <2>2
  <2> HIDE DEF answer, q
  <2> QED BY <1>0, <2>1, <2>3, TokenMoves
<1>4. CASE AcceptResponse(m)
  <2>1. Deliver(m, {}) /\ sent' = sent /\ runs' = runs /\ repeated' = repeated
    BY <1>4 DEF AcceptResponse, serverVars
  <2> QED BY <1>0, <2>1, TokenMoves
<1>5. CASE AcceptSync(m)
  <2>0. m.code = "sync" /\ sent' = sent /\ runs' = runs /\ repeated' = repeated
    BY <1>5 DEF AcceptSync
  <2>1. CASE m.to = "controller" /\ m.req \in cached
    <3>1. PICK r \in ResendBuffer(m.req) :
             /\ Deliver(m, IF r = NoRequest THEN {}
                           ELSE {RequestMessage(r, Successor(Synced(m)))})
             /\ mixed' = (mixed \/ m.req \in released)
      BY <1>5, <2>1 DEF AcceptSync
    <3>2. r = m.req /\ r \in Requests /\ r # NoRequest
      BY <1>0, <2>1, <3>1 DEF ResendBuffer, TypeOK
    <3>3. Deliver(m, {RequestMessage(r, Successor(Synced(m)))})
      BY <3>1, <3>2
    <3>4. RequestMessage(r, Successor(Synced(m))).req = m.req
      BY <3>2 DEF RequestMessage
    <3> QED BY <1>0, <2>0, <3>3, <3>4, TokenMoves
  <2>2. CASE ~(m.to = "controller" /\ m.req \in cached)
    <3>1. Deliver(m, {})
      BY <1>5, <2>2 DEF AcceptSync
    <3> QED BY <1>0, <2>0, <3>1, TokenMoves
  <2> QED BY <2>1, <2>2
<1>6. CASE ExecuteRequest(m)
  <2> DEFINE answer == [to |-> Peer(m.to), code |-> "response", nonce |-> m.nonce,
                        req |-> m.req]
  <2>1. copied = {} /\ net' = Remains(m) \cup {answer} /\ doubled' = doubled \ {m}
    <3>1. Deliver(m, {answer})
      BY <1>6 DEF ExecuteRequest
    <3> HIDE DEF answer
    <3> QED BY <3>1, DeliverMoves
  <2>2. /\ m.code = "request" /\ m.req \in Requests /\ sent' = sent /\ repeated' = repeated
        /\ runs' = [runs EXCEPT ![m.req] = IF runs[m.req] = 0 THEN 1 ELSE 2]
        /\ runs \in [Requests -> 0..2]
    BY <1>6 DEF ExecuteRequest, RanBelow, TypeOK, clientVars
  <2>3. m \in Tokens(m.req)
    BY <2>2 DEF Tokens
  <2> SUFFICES ASSUME NEW r \in Requests \ repeated
               PROVE  /\ \A a, b \in Tokens(r)' : a = b
                      /\ Tokens(r)' \cap doubled' = {}
                      /\ runs'[r] > 0 => Tokens(r)' = {}
                      /\ runs'[r] <= 1
                      /\ r \notin sent' => Tokens(r)' = {} /\ runs'[r] = 0
    BY <2>2 DEF OneToken
  <2>5. /\ \A a, b \in Tokens(r) : a = b
        /\ Tokens(r) \cap doubled = {}
        /\ runs[r] > 0 => Tokens(r) = {}
        /\ runs[r] <= 1
        /\ r \notin sent => Tokens(r) = {} /\ runs[r] = 0
    BY <1>0, <2>1 DEF OneToken
  <2>4. Tokens(r)' = Tokens(r) \ {m} /\ doubled' \subseteq doubled
    <3>1. answer.code = "response"
      OBVIOUS
    <3> HIDE DEF answer
    <3> QED BY <2>1, <2>5, <3>1 DEF Tokens, Remains
  <2>6. CASE r = m.req
    <3>1. Tokens(r) = {m} /\ Tokens(r)' = {}
      BY <2>3, <2>4, <2>5, <2>6
    <3>2. runs[r] \in 0..2 /\ ~(runs[r] > 0)
      BY <2>2, <2>5, <3>1
    <3>3. runs'[r] = 1
      BY <2>2, <2>6, <3>2
    <3> QED BY <2>2, <2>5, <3>1, <3>3
  <2>7. CASE r # m.req
    <3>1. runs'[r] = runs[r]
      BY <2>2, <2>7
    <3>2. Tokens(r)' = Tokens(r)
      BY <2>4, <2>7 DEF Tokens
    <3> QED BY <2>2, <2>4, <2>5, <3>1, <3>2
  <2> QED BY <2>6, <2>7
<1> QED BY <1>1, <1>2, <1>3, <1>4, <1>5, <1>6 DEF Receive

LEMMA TokenNext == TypeOK /\ RanBelow /\ OneToken /\ [Next]_vars => OneToken'
<1> SUFFICES ASSUME TypeOK, RanBelow, OneToken, [Next]_vars PROVE OneToken'
  OBVIOUS
<1>1. ASSUME NEW m \in net, Receive(m) PROVE OneToken'
  BY <1>1, TokenReceive
<1>2. ASSUME NEW r \in Requests, SendRequest(r) PROVE OneToken'
  <2> SUFFICES ASSUME copied = {}, ~mixed, NEW q \in Requests \ repeated
               PROVE  /\ \A a, b \in Tokens(q)' : a = b
                      /\ Tokens(q)' \cap doubled = {}
                      /\ runs[q] > 0 => Tokens(q)' = {}
                      /\ runs[q] <= 1
                      /\ q \notin sent' => Tokens(q)' = {} /\ runs[q] = 0
    BY <1>2 DEF OneToken, SendRequest, serverVars
  <2> DEFINE message == RequestMessage(r, Successor(nonce["controller"]))
  <2>1. /\ \A a, b \in Tokens(q) : a = b
        /\ Tokens(q) \cap doubled = {}
        /\ runs[q] > 0 => Tokens(q) = {}
        /\ runs[q] <= 1
        /\ q \notin sent => Tokens(q) = {} /\ runs[q] = 0
    BY DEF OneToken
  <2>2. r \notin sent /\ sent' = sent \cup {r} /\ net' = net \cup {message}
    BY <1>2 DEF SendRequest
  <2>3. message.req = r
    BY DEF RequestMessage
  <2> HIDE DEF message
  <2>4. CASE q = r
    <3>1. Tokens(q) = {} /\ runs[q] = 0
      BY <2>1, <2>2, <2>4
    <3>2. Tokens(q)' \subseteq {message}
      BY <2>2, <3>1 DEF Tokens
    <3>3. Tokens(q)' \cap doubled = {}
      BY <3>1 DEF Tokens, TypeOK
    <3> QED BY <2>2, <2>4, <3>1, <3>2, <3>3
  <2>5. CASE q # r
    <3>1. Tokens(q)' = Tokens(q)
      BY <2>2, <2>3, <2>5 DEF Tokens
    <3> QED BY <2>1, <2>2, <2>5, <3>1
  <2> QED BY <2>4, <2>5
<1>3. ASSUME NEW m \in net, Lose(m) PROVE OneToken'
  <2>1. /\ net' \subseteq net /\ doubled' \subseteq doubled
        /\ UNCHANGED <<copied, mixed, sent, runs, repeated>>
    BY <1>3 DEF Lose, Remains, clientVars, serverVars
  <2> QED BY <2>1 DEF OneToken, Tokens
<1>4. CASE (\E r \in Requests : CallbackLifetime(r))
           \/ \E e \in Ends : PersistNonce(e) \/ PowerLoss(e)
  <2>1. UNCHANGED <<net, doubled, copied, mixed, sent, runs, repeated>>
    BY <1>4 DEF CallbackLifetime, PersistNonce, PowerLoss, clientVars, serverVars
  <2> QED BY <2>1 DEF OneToken, Tokens
<1>6. ASSUME NEW expired \in SUBSET cached, IdleTimeout(expired) PROVE OneToken'
  <2> DEFINE others == cached \ expired
  <2> SUFFICES ASSUME ~mixed', copied = {}, NEW q \in Requests \ (repeated \cup others)
               PROVE  /\ \A a, b \in Tokens(q)' : a = b
                      /\ Tokens(q)' \cap doubled' = {}
                      /\ runs[q] > 0 => Tokens(q)' = {}
                      /\ runs[q] <= 1
                      /\ q \notin sent => Tokens(q)' = {} /\ runs[q] = 0
    BY <1>6 DEF OneToken, IdleTimeout, serverVars
  <2>1. ~mixed /\ others \cap released = {}
    BY <1>6 DEF IdleTimeout
  <2>2. SentAgain(others) = {others}
    BY <2>1 DEF SentAgain
  <2>3. Transmit({RequestMessage(r, stored[r]) : r \in others})
    <3>1. \E again \in SentAgain(others) :
             Transmit({RequestMessage(r, stored[r]) : r \in again})
      BY <1>6 DEF IdleTimeout
    <3> HIDE DEF others
    <3> QED BY <2>2, <3>1
  <2> DEFINE resent == {RequestMessage(r, stored[r]) : r \in others}
  <2>4. \A m \in resent : m.req # q
    BY DEF RequestMessage
  <2>5. net' = net \cup resent /\ doubled' = doubled \cup (resent \cap net)
    BY <2>3 DEF Transmit
  <2> HIDE DEF resent
  <2>6. Tokens(q)' = Tokens(q) /\ Tokens(q) \cap resent = {}
    BY <2>4, <2>5 DEF Tokens
  <2>7. /\ \A a, b \in Tokens(q) : a = b
        /\ Tokens(q) \cap doubled = {}
        /\ runs[q] > 0 => Tokens(q) = {}
        /\ runs[q] <= 1
        /\ q \notin sent => Tokens(q) = {} /\ runs[q] = 0
    BY <2>1 DEF OneToken
  <2> QED BY <2>5, <2>6, <2>7
<1>5. CASE UNCHANGED vars
  BY <1>5 DEF vars, clientVars, serverVars, OneToken, Tokens
<1> QED BY <1>1, <1>2, <1>3, <1>4, <1>5, <1>6 DEF Next

\* A request is executed at most once, whatever is lost and whoever restarts,
\* unless the network copies a message, a resend uses a buffer it no longer
\* owns, or the idle timer of another request sends it again: sending again
\* after a nonce sync never repeats a request that was served.
THEOREM ExecutedOnce == Spec => []OneExecution
<1>1. Init => RanBelow /\ OneToken
  BY DEF Init, RanBelow, OneToken, Tokens
<1>2. OneToken => OneExecution
  BY DEF OneToken, OneExecution
<1> QED BY <1>1, <1>2, RanNext, TokenNext, LinkTypeInit, LinkTypeNext, KeptInit,
           KeptNext, PTL DEF Spec
=============================================================================
