------------------------- MODULE OcMessagingProofs -------------------------
(***************************************************************************)
(* Proofs about OcMessaging: whatever arrives, whenever the queue is full  *)
(* and in whichever order timers run out, no message buffer is lost and no *)
(* request is answered twice.  For queues, pools and timeouts of any size. *)
(*                                                                         *)
(* A buffer is held by the entries of two lists, so the proof counts the   *)
(* entries of a list that lie in a set, and shows how each operation on a  *)
(* list changes that count.                                                *)
(***************************************************************************)
EXTENDS OcMessaging, SequenceTheorems, FiniteSetTheorems, WellFoundedInduction, TLAPS

(***************************************************************************)
(* Lists and counts.                                                       *)
(***************************************************************************)
Hits(list, S) == {i \in DOMAIN list : list[i] \in S}

Count(list, S) == Cardinality(Hits(list, S))

One(b) == IF b THEN 1 ELSE 0

\* A set of natural numbers has a least element.
LEMMA Least ==
    ASSUME NEW T \in SUBSET Nat, T # {}
    PROVE  Min(T) \in T /\ \A y \in T : Min(T) <= y
<1> DEFINE R == OpToRel(<, Nat)
<1>1. \E x \in T : \A y \in T : ~(<<y, x>> \in R)
  <2>1. IsWellFoundedOn(R, Nat)
    BY NatLessThanWellFounded
  <2> HIDE DEF R
  <2> QED BY <2>1, WFMin
<1>2. \A x, y \in T : <<y, x>> \notin R => x <= y
  BY DEF OpToRel
<1> HIDE DEF R
<1>3. \E x \in T : \A y \in T : x <= y
  BY <1>1, <1>2
<1> QED BY <1>3 DEF Min

\* The entries counted are finitely many.
LEMMA HitsFinite ==
    ASSUME NEW A, NEW list \in Seq(A), NEW S
    PROVE  /\ Hits(list, S) \in SUBSET (1..Len(list))
           /\ IsFiniteSet(Hits(list, S))
           /\ Count(list, S) \in Nat
<1>1. Len(list) \in Nat /\ DOMAIN list = 1..Len(list)
  BY LenProperties
<1>2. IsFiniteSet(1..Len(list))
  BY <1>1, FS_Interval
<1>3. Hits(list, S) \in SUBSET (1..Len(list))
  BY <1>1 DEF Hits
<1>4. IsFiniteSet(Hits(list, S))
  BY <1>2, <1>3, FS_Subset
<1> QED BY <1>3, <1>4, FS_CardinalityType DEF Count

\* Entries that change without entering or leaving the set.
LEMMA CountSame ==
    ASSUME NEW A, NEW B, NEW list \in Seq(A), NEW new \in Seq(B), NEW S,
           Len(new) = Len(list),
           \A i \in 1..Len(list) : new[i] \in S <=> list[i] \in S
    PROVE  Count(new, S) = Count(list, S)
<1>1. DOMAIN list = 1..Len(list) /\ DOMAIN new = 1..Len(list)
  BY LenProperties
<1>2. Hits(new, S) = Hits(list, S)
  BY <1>1 DEF Hits
<1> QED BY <1>2 DEF Count

\* One entry more.
LEMMA CountAppend ==
    ASSUME NEW A, NEW list \in Seq(A), NEW x \in A, NEW S
    PROVE  Count(Append(list, x), S) = Count(list, S) + One(x \in S)
<1> DEFINE n == Len(list) + 1
           long == Append(list, x)
<1>1. Len(list) \in Nat /\ DOMAIN list = 1..Len(list)
  BY LenProperties
<1>2. /\ long \in Seq(A) /\ Len(long) = n
      /\ \A i \in 1..Len(list) : long[i] = list[i]
      /\ long[n] = x
  BY AppendProperties
<1>3. DOMAIN long = 1..n
  BY <1>2, LenProperties
<1>4. IsFiniteSet(Hits(list, S)) /\ n \notin Hits(list, S) /\ Count(list, S) \in Nat
  BY <1>1, HitsFinite
<1> HIDE DEF long
<1>5. CASE x \in S
  <2>1. Hits(long, S) = Hits(list, S) \cup {n}
    BY <1>1, <1>2, <1>3, <1>5 DEF Hits
  <2>2. Cardinality(Hits(list, S) \cup {n}) = Cardinality(Hits(list, S)) + 1
    BY <1>4, FS_AddElement
  <2> QED BY <1>5, <2>1, <2>2 DEF Count, One, long
<1>6. CASE x \notin S
  <2>1. Hits(long, S) = Hits(list, S)
    BY <1>1, <1>2, <1>3, <1>6 DEF Hits
  <2> QED BY <1>4, <1>6, <2>1 DEF Count, One, long
<1> QED BY <1>5, <1>6

\* One entry less.
Shortened(list, new, k) ==
    /\ Len(new) = Len(list) - 1
    /\ \A i \in 1..Len(new) : new[i] = IF i < k THEN list[i] ELSE list[i + 1]

\* The entry that leaves is counted no more.
LEMMA CountShortened ==
    ASSUME NEW A, NEW list \in Seq(A), NEW new \in Seq(A), NEW S,
           NEW k \in 1..Len(list), Shortened(list, new, k)
    PROVE  Count(list, S) = Count(new, S) + One(list[k] \in S)
<1> DEFINE move(i) == IF i < k THEN i ELSE i + 1
           f == [i \in Hits(new, S) |-> move(i)]
           rest == Hits(list, S) \ {k}
<1>1. /\ Len(list) \in Nat /\ DOMAIN list = 1..Len(list) /\ Len(new) \in Nat
      /\ DOMAIN new = 1..Len(new) /\ Len(new) = Len(list) - 1
  BY LenProperties DEF Shortened
<1>2. \A i \in 1..Len(new) : new[i] = list[move(i)] /\ move(i) \in 1..Len(list) \ {k}
  BY <1>1 DEF Shortened
<1>3. /\ IsFiniteSet(Hits(list, S)) /\ IsFiniteSet(Hits(new, S))
      /\ Hits(new, S) \in SUBSET (1..Len(new)) /\ Hits(list, S) \in SUBSET (1..Len(list))
      /\ Count(list, S) \in Nat /\ Count(new, S) \in Nat
  BY HitsFinite
<1>4. f \in [Hits(new, S) -> rest]
  BY <1>1, <1>2, <1>3 DEF Hits
<1>5. \A i, j \in Hits(new, S) : f[i] = f[j] => i = j
  BY <1>3
<1>6. \A j \in rest : \E i \in Hits(new, S) : f[i] = j
  <2> SUFFICES ASSUME NEW j \in rest
               PROVE  \E i \in Hits(new, S) : f[i] = j
    OBVIOUS
  <2>1. j \in 1..Len(list) /\ j # k /\ list[j] \in S
    BY <1>1 DEF Hits
  <2> DEFINE i == IF j < k THEN j ELSE j - 1
  <2>2. i \in 1..Len(new) /\ move(i) = j
    BY <1>1, <2>1
  <2>3. i \in Hits(new, S)
    BY <1>1, <1>2, <2>1, <2>2 DEF Hits
  <2> QED BY <2>2, <2>3
<1>7. f \in Bijection(Hits(new, S), rest)
  <2> HIDE DEF f, rest
  <2> QED BY <1>4, <1>5, <1>6 DEF Bijection, Injection, Surjection, IsInjective
<1>8. Cardinality(rest) = Count(new, S)
  <2> HIDE DEF f, rest
  <2> QED BY <1>3, <1>7, FS_Bijection DEF ExistsBijection, Count
<1>9. Cardinality(rest) = IF k \in Hits(list, S) THEN Count(list, S) - 1 ELSE Count(list, S)
  BY <1>3, FS_RemoveElement DEF Count
<1>10. k \in Hits(list, S) <=> list[k] \in S
  BY <1>1 DEF Hits
<1> HIDE DEF rest, f
<1> QED BY <1>3, <1>8, <1>9, <1>10 DEF One

\* The head leaves the queue.
LEMMA TailShortened ==
    ASSUME NEW A, NEW list \in Seq(A), list # <<>>
    PROVE  /\ Tail(list) \in Seq(A) /\ Head(list) = list[1] /\ Head(list) \in A
           /\ 1 \in 1..Len(list) /\ Shortened(list, Tail(list), 1)
<1>1. /\ Head(list) \in A /\ Tail(list) \in Seq(A) /\ Len(Tail(list)) = Len(list) - 1
      /\ \A i \in 1..Len(Tail(list)) : Tail(list)[i] = list[i + 1]
  BY HeadTailProperties
<1>2. Len(list) \in Nat \ {0}
  BY EmptySeq
<1>3. \A i \in 1..Len(Tail(list)) : ~(i < 1)
  BY <1>1, <1>2
<1>4. Head(list) = list[1]
  OBVIOUS
<1> QED BY <1>1, <1>2, <1>3, <1>4 DEF Shortened

\* oc_list_remove takes the first entry meant, and nothing else.
LEMMA Removed ==
    ASSUME NEW A, NEW list \in Seq(A), NEW meant \in SUBSET DOMAIN list,
           NEW new, new = oc_list_remove(list, meant)
    PROVE  /\ new \in Seq(A) /\ Len(new) <= Len(list)
           /\ meant = {} => new = list
           /\ meant # {} => /\ Min(meant) \in meant /\ Min(meant) \in 1..Len(list)
                            /\ Shortened(list, new, Min(meant))
<1>1. Len(list) \in Nat /\ DOMAIN list = 1..Len(list) /\ \A i \in 1..Len(list) : list[i] \in A
  BY LenProperties, ElementOfSeq
<1>2. CASE meant = {}
  BY <1>1, <1>2 DEF oc_list_remove
<1>3. CASE meant # {}
  <2> DEFINE k == Min(meant)
             m == Len(list) - 1
  <2>1. k \in meant /\ k \in 1..Len(list)
    BY <1>1, <1>3, Least
  <2>2. m \in Nat
    BY <1>1, <2>1
  <2>3. new = [i \in 1..m |-> IF i < k THEN list[i] ELSE list[i + 1]]
    BY <1>3 DEF oc_list_remove
  <2> HIDE DEF k
  <2>4. \A i \in 1..m : (IF i < k THEN list[i] ELSE list[i + 1]) \in A
    BY <1>1
  <2>5. new \in [1..m -> A]
    BY <2>3, <2>4
  <2>6. new \in Seq(A) /\ Len(new) = m
    BY <2>2, <2>5, SeqDef
  <2>7. Shortened(list, new, k)
    BY <1>1, <2>2, <2>3, <2>6 DEF Shortened
  <2> QED BY <1>1, <1>3, <2>1, <2>6, <2>7 DEF k
<1> QED BY <1>2, <1>3

\* What a list holds after one entry left.
LEMMA ShortenedHolds ==
    ASSUME NEW A, NEW list \in Seq(A), NEW new \in Seq(A),
           NEW k \in 1..Len(list), Shortened(list, new, k)
    PROVE  /\ Len(new) + 1 = Len(list)
           /\ \A i \in 1..Len(new) : \E j \in 1..Len(list) \ {k} : new[i] = list[j]
           /\ \A j \in 1..Len(list) \ {k} : \E i \in 1..Len(new) : new[i] = list[j]
           /\ \A i, j \in 1..Len(new) : i # j =>
                \E p, q \in 1..Len(list) \ {k} : p # q /\ new[i] = list[p] /\ new[j] = list[q]
<1> DEFINE move(i) == IF i < k THEN i ELSE i + 1
<1>1. Len(list) \in Nat /\ Len(new) \in Nat /\ Len(new) + 1 = Len(list)
  BY LenProperties DEF Shortened
<1>2. \A i \in 1..Len(new) : move(i) \in 1..Len(list) \ {k} /\ new[i] = list[move(i)]
  BY <1>1 DEF Shortened
<1>3. \A i, j \in 1..Len(new) : i # j => move(i) # move(j)
  BY <1>1
<1>4. ASSUME NEW j \in 1..Len(list) \ {k}
      PROVE  \E i \in 1..Len(new) : new[i] = list[j]
  <2> DEFINE i == IF j < k THEN j ELSE j - 1
  <2>1. i \in 1..Len(new) /\ move(i) = j
    BY <1>1
  <2>2. new[i] = list[j]
    BY <1>2, <2>1
  <2> QED BY <2>1, <2>2
<1> HIDE DEF move
<1> QED BY <1>1, <1>2, <1>3, <1>4

(***************************************************************************)
(* What is in the lists and pools.                                         *)
(***************************************************************************)
Kinds == {"response", "sync", "request", "refused"}
AnyMessage ==
    [kind : {"response"}, mid : AnyMid, token : Tokens, secured : BOOLEAN]
    \cup [kind : {"sync"}, mid : AnyMid]
    \cup [kind : {"request"}, mid : AnyMid, outcome : Outcomes]
    \cup [kind : {"refused"}]
InBuf == [used : BOOLEAN, ref_count : Int, msg : {NoMessage} \cup AnyMessage]
OutBuf == [used : BOOLEAN, ref_count : Int, cose : BOOLEAN]
Transaction == [mid : AnyMid, message : Slot, idle : Timer]
ClientCb == [slot : 1..ClientCbs, mid : Mids, token : Tokens, secured : BOOLEAN, hs : BOOLEAN]
TimedCb == [data : 1..ClientCbs, timer : Timer]

States ==
    [events : Seq(Event), incoming : [Slot -> InBuf], outgoing : [Slot -> OutBuf],
     transactions : Seq(Transaction), client_cbs : Seq(ClientCb), timed : Seq(TimedCb),
     handled : [Mids -> Nat]]

Inbound(b) == {e \in Event : e.ev \in {"INBOUND_NETWORK", "INBOUND_RI"} /\ e.data = b}
Outbound(b) == {e \in Event : e.ev = "OUTBOUND" /\ e.data = b}
On(b) == {t \in Transaction : t.message = b}

(* A buffer for received messages has one holder: an event of the queue,   *)
(* or the handler that took the event and has the buffer in hand.          *)
InHeld(s, hand) ==
    \A b \in Slot :
        IF s.incoming[b].used
        THEN /\ s.incoming[b].ref_count = 1 /\ s.incoming[b].msg # NoMessage
             /\ Count(s.events, Inbound(b)) + One(b \in hand) = 1
        ELSE s.incoming[b].ref_count = 0 /\ Count(s.events, Inbound(b)) + One(b \in hand) = 0

(* A buffer for messages to send has at least as many holders as           *)
(* references.  There may be more: a nonce sync posts a cached request     *)
(* again without a reference, and a transaction can outlive its buffer.    *)
OutHolders(s, b, hand) ==
    Count(s.events, Outbound(b)) + Count(s.transactions, On(b)) + One(b \in hand)

OutHeld(s, hand) ==
    \A b \in Slot :
        s.outgoing[b].used =>
            1 <= s.outgoing[b].ref_count /\ s.outgoing[b].ref_count <= OutHolders(s, b, hand)

(* No two transactions have the same message ID.                           *)
Distinct(list, M) ==
    /\ \A i \in 1..Len(list) : list[i].mid \in M
    /\ \A i, j \in 1..Len(list) : i # j => list[i].mid # list[j].mid

(* M: the message IDs that transactions may have.                          *)
Traffic(s, M, hin, hout) ==
    /\ Len(s.events) <= QueueSize
    /\ Len(s.transactions) <= Transactions
    /\ Distinct(s.transactions, M)
    /\ InHeld(s, hin)
    /\ OutHeld(s, hout)

(* A request that still has its callback was not answered; m: requests     *)
(* made so far.                                                            *)
Callbacks(s, m) ==
    /\ Len(s.client_cbs) <= ClientCbs
    /\ Len(s.timed) <= EventCbs
    /\ Distinct(s.client_cbs, 1..m)
    /\ \A i, j \in 1..Len(s.client_cbs) : i # j => s.client_cbs[i].slot # s.client_cbs[j].slot
    /\ \A i \in 1..Len(s.client_cbs) : s.handled[s.client_cbs[i].mid] = 0
    /\ \A k \in Mids : s.handled[k] <= 1 /\ (k > m => s.handled[k] = 0)


SameTraffic(n, s) ==
    /\ n.events = s.events /\ n.incoming = s.incoming
    /\ n.outgoing = s.outgoing /\ n.transactions = s.transactions

SameCallbacks(n, s) ==
    n.client_cbs = s.client_cbs /\ n.timed = s.timed /\ n.handled = s.handled

\* Who holds what depends on queue, buffers and transactions only.
LEMMA SameTrafficHolds ==
    ASSUME NEW s, NEW n, SameTraffic(n, s), NEW M, NEW hin, NEW hout, Traffic(s, M, hin, hout)
    PROVE  Traffic(n, M, hin, hout)
BY DEF SameTraffic, Traffic, InHeld, OutHeld, OutHolders

\* Which requests wait depends on callbacks, timers and calls only.
LEMMA SameCallbacksHold ==
    ASSUME NEW s, NEW n, SameCallbacks(n, s), NEW m, Callbacks(s, m)
    PROVE  Callbacks(n, m)
BY DEF SameCallbacks, Callbacks

\* The fields of a state.
LEMMA StateFields ==
    ASSUME NEW s \in States
    PROVE  /\ s.events \in Seq(Event) /\ s.incoming \in [Slot -> InBuf]
           /\ s.outgoing \in [Slot -> OutBuf] /\ s.transactions \in Seq(Transaction)
           /\ s.client_cbs \in Seq(ClientCb) /\ s.timed \in Seq(TimedCb)
           /\ s.handled \in [Mids -> Nat]
           /\ Len(s.events) \in Nat /\ DOMAIN s.events = 1..Len(s.events)
           /\ Len(s.transactions) \in Nat /\ DOMAIN s.transactions = 1..Len(s.transactions)
           /\ Len(s.client_cbs) \in Nat /\ DOMAIN s.client_cbs = 1..Len(s.client_cbs)
           /\ Len(s.timed) \in Nat /\ DOMAIN s.timed = 1..Len(s.timed)
           /\ \A i \in 1..Len(s.events) : s.events[i] \in Event
           /\ \A i \in 1..Len(s.transactions) : s.transactions[i] \in Transaction
           /\ \A i \in 1..Len(s.client_cbs) : s.client_cbs[i] \in ClientCb
           /\ \A i \in 1..Len(s.timed) : s.timed[i] \in TimedCb
<1>1. /\ s.events \in Seq(Event) /\ s.incoming \in [Slot -> InBuf]
      /\ s.outgoing \in [Slot -> OutBuf] /\ s.transactions \in Seq(Transaction)
      /\ s.client_cbs \in Seq(ClientCb) /\ s.timed \in Seq(TimedCb)
      /\ s.handled \in [Mids -> Nat]
  BY DEF States
<1> QED BY <1>1, LenProperties, ElementOfSeq

(***************************************************************************)
(* Client callbacks.                                                       *)
(***************************************************************************)
\* A callback leaves the list, its handler called or not.
LEMMA CallbackEnds ==
    ASSUME NEW s \in States, NEW n \in States, NEW m \in Nat, Callbacks(s, m),
           NEW k \in 1..Len(s.client_cbs), Shortened(s.client_cbs, n.client_cbs, k),
           \/ n.handled = s.handled
           \/ n.handled = [s.handled EXCEPT ![s.client_cbs[k].mid] = @ + 1],
           Len(n.timed) <= Len(s.timed)
    PROVE  Callbacks(n, m)
<1> DEFINE list == s.client_cbs
           new == n.client_cbs
<1>1. /\ list \in Seq(ClientCb) /\ new \in Seq(ClientCb) /\ Len(list) \in Nat /\ Len(new) \in Nat
      /\ s.handled \in [Mids -> Nat] /\ n.handled \in [Mids -> Nat]
      /\ Len(s.timed) \in Nat /\ Len(n.timed) \in Nat
      /\ \A i \in 1..Len(list) : list[i] \in ClientCb /\ list[i].mid \in Mids
  BY StateFields DEF ClientCb
<1>2. /\ Len(new) + 1 = Len(list)
      /\ \A i \in 1..Len(new) : \E j \in 1..Len(list) \ {k} : new[i] = list[j]
      /\ \A j \in 1..Len(list) \ {k} : \E i \in 1..Len(new) : new[i] = list[j]
      /\ \A i, j \in 1..Len(new) : i # j =>
            \E p, q \in 1..Len(list) \ {k} : p # q /\ new[i] = list[p] /\ new[j] = list[q]
  <2>1. k \in 1..Len(list) /\ Shortened(list, new, k)
    OBVIOUS
  <2> HIDE DEF list, new
  <2> QED BY SMTT(30), <1>1, <2>1, ShortenedHolds
<1>3. /\ Len(list) <= ClientCbs /\ Len(s.timed) <= EventCbs
      /\ \A i \in 1..Len(list) : list[i].mid \in 1..m
      /\ \A i, j \in 1..Len(list) : i # j => list[i].mid # list[j].mid
      /\ \A i, j \in 1..Len(list) : i # j => list[i].slot # list[j].slot
      /\ \A i \in 1..Len(list) : s.handled[list[i].mid] = 0
      /\ \A c \in Mids : s.handled[c] <= 1 /\ (c > m => s.handled[c] = 0)
  BY DEF Callbacks, Distinct
<1>4. \A c \in Mids : n.handled[c] = IF c = list[k].mid /\ n.handled # s.handled
                                     THEN 1 ELSE s.handled[c]
  BY SMTT(30), <1>1, <1>3
<1>0. k \in 1..Len(list)
  OBVIOUS
<1> HIDE DEF list, new
<1>5. ClientCbs \in Nat /\ EventCbs \in Nat
  BY OcMessagingAssumption
<1>6. Len(new) <= ClientCbs /\ Len(n.timed) <= EventCbs
  BY SMTT(30), <1>1, <1>2, <1>3, <1>5
<1>7. ASSUME NEW i \in 1..Len(new)
      PROVE  new[i].mid \in 1..m /\ n.handled[new[i].mid] = 0
  <2>1. PICK j \in 1..Len(list) \ {k} : new[i] = list[j]
    BY <1>2
  <2>2. list[j].mid \in 1..m /\ list[j].mid # list[k].mid /\ s.handled[list[j].mid] = 0 /\ list[j].mid \in Mids
    BY <1>0, <1>1, <1>3, <2>1
  <2>3. n.handled[list[j].mid] = s.handled[list[j].mid]
    BY <1>4, <2>2
  <2> QED BY <2>1, <2>2, <2>3
<1>8. ASSUME NEW i \in 1..Len(new), NEW j \in 1..Len(new), i # j
      PROVE  new[i].slot # new[j].slot /\ new[i].mid # new[j].mid
  <2>1. PICK p \in 1..Len(list) \ {k}, q \in 1..Len(list) \ {k} :
            p # q /\ new[i] = list[p] /\ new[j] = list[q]
    BY <1>2, <1>8
  <2>2. list[p].slot # list[q].slot /\ list[p].mid # list[q].mid
    BY <1>3, <2>1
  <2> QED BY <2>1, <2>2
<1>9. Distinct(new, 1..m)
  BY <1>7, <1>8 DEF Distinct
<1>10. \A c \in Mids : n.handled[c] <= 1 /\ (c > m => n.handled[c] = 0)
  <2> SUFFICES ASSUME NEW c \in Mids
               PROVE  n.handled[c] <= 1 /\ (c > m => n.handled[c] = 0)
    OBVIOUS
  <2>1. CASE c = list[k].mid /\ n.handled # s.handled
    <3>1. n.handled[c] = 1 /\ c \in 1..m
      BY <1>0, <1>3, <1>4, <2>1
    <3> QED BY <3>1
  <2>2. CASE ~(c = list[k].mid /\ n.handled # s.handled)
    <3>1. n.handled[c] = s.handled[c]
      BY <1>4, <2>2
    <3> QED BY <1>3, <3>1
  <2> QED BY <2>1, <2>2
<1> QED BY <1>6, <1>7, <1>8, <1>9, <1>10 DEF Callbacks, list, new

\* A callback is freed, or was already.
LEMMA FreeFields ==
    ASSUME NEW s \in States, NEW slot, NEW n, n = free_client_cb(s, slot)
    PROVE  /\ n \in States /\ SameTraffic(n, s) /\ n.timed = s.timed /\ n.handled = s.handled
           /\ n.client_cbs = oc_list_remove(s.client_cbs,
                                {i \in DOMAIN s.client_cbs : s.client_cbs[i].slot = slot})
<1> DEFINE meant == {i \in DOMAIN s.client_cbs : s.client_cbs[i].slot = slot}
           new == oc_list_remove(s.client_cbs, meant)
<1>1. s.client_cbs \in Seq(ClientCb) /\ meant \in SUBSET DOMAIN s.client_cbs
  BY StateFields
<1>2. n = [s EXCEPT !.client_cbs = new]
  BY DEF free_client_cb
<1> HIDE DEF meant
<1>3. new \in Seq(ClientCb)
  BY <1>1, Removed
<1> HIDE DEF new
<1>4. n \in States /\ SameTraffic(n, s) /\ n.timed = s.timed /\ n.handled = s.handled /\ n.client_cbs = new
  BY <1>2, <1>3 DEF States, SameTraffic
<1> QED BY <1>4 DEF new, meant

\* A delayed removal is cancelled, or was already.
LEMMA TimedFields ==
    ASSUME NEW s \in States, NEW slot, NEW n, n = remove_timed_event_callback(s, slot)
    PROVE  /\ n \in States /\ SameTraffic(n, s)
           /\ n.client_cbs = s.client_cbs /\ n.handled = s.handled
           /\ Len(n.timed) <= Len(s.timed)
<1> DEFINE meant == {i \in DOMAIN s.timed : s.timed[i].data = slot}
           new == oc_list_remove(s.timed, meant)
<1>1. s.timed \in Seq(TimedCb) /\ meant \in SUBSET DOMAIN s.timed
  BY StateFields
<1>2. n = [s EXCEPT !.timed = new]
  BY DEF remove_timed_event_callback
<1> HIDE DEF meant
<1>3. new \in Seq(TimedCb) /\ Len(new) <= Len(s.timed)
  BY <1>1, Removed
<1> HIDE DEF new
<1> QED BY <1>2, <1>3 DEF States, SameTraffic

\* The response handler of a request is called.
LEMMA HandlerFields ==
    ASSUME NEW s \in States, NEW cb \in ClientCb, NEW n, n = call_handler(s, cb)
    PROVE  /\ n \in States /\ SameTraffic(n, s)
           /\ n.client_cbs = s.client_cbs /\ n.timed = s.timed
           /\ n.handled = [s.handled EXCEPT ![cb.mid] = @ + 1]
<1> DEFINE new == [s.handled EXCEPT ![cb.mid] = @ + 1]
<1>1. cb.mid \in Mids /\ s.handled \in [Mids -> Nat]
  BY StateFields DEF ClientCb
<1>2. new \in [Mids -> Nat]
  BY <1>1
<1>3. n = [s EXCEPT !.handled = new]
  BY DEF call_handler
<1> HIDE DEF new
<1>4. n \in States /\ SameTraffic(n, s) /\ n.client_cbs = s.client_cbs /\ n.timed = s.timed /\ n.handled = new
  BY <1>2, <1>3 DEF States, SameTraffic
<1> QED BY <1>4 DEF new

\* Two operations on callbacks in a row leave the traffic alone.
LEMMA SameTrafficTrans ==
    ASSUME NEW a, NEW b, NEW c, SameTraffic(b, a), SameTraffic(c, b)
    PROVE  SameTraffic(c, a)
BY DEF SameTraffic

\* The list without the callback that has this slot.
LEMMA OnlySlot ==
    ASSUME NEW s \in States, NEW m, Callbacks(s, m), NEW k \in 1..Len(s.client_cbs), NEW n \in States,
           n.client_cbs = oc_list_remove(s.client_cbs,
                {i \in DOMAIN s.client_cbs : s.client_cbs[i].slot = s.client_cbs[k].slot})
    PROVE  Shortened(s.client_cbs, n.client_cbs, k)
<1> DEFINE meant == {i \in DOMAIN s.client_cbs : s.client_cbs[i].slot = s.client_cbs[k].slot}
<1>1. s.client_cbs \in Seq(ClientCb) /\ DOMAIN s.client_cbs = 1..Len(s.client_cbs)
  BY StateFields
<1>2. meant = {k}
  BY <1>1 DEF Callbacks
<1>3. meant \in SUBSET DOMAIN s.client_cbs
  OBVIOUS
<1> HIDE DEF meant
<1>4. Min(meant) \in meant /\ Shortened(s.client_cbs, n.client_cbs, Min(meant))
  <2>1. n.client_cbs = oc_list_remove(s.client_cbs, meant)
    BY DEF meant
  <2>2. meant # {}
    BY <1>2
  <2> QED BY <1>1, <1>3, <2>1, <2>2, Removed
<1> QED BY <1>2, <1>4

\* A freed callback, whatever now has its address.
LEMMA FreeHolds ==
    ASSUME NEW s \in States, NEW m \in Nat, Callbacks(s, m), NEW slot,
           NEW n, n = free_client_cb(s, slot)
    PROVE  n \in States /\ SameTraffic(n, s) /\ Callbacks(n, m) /\ n.timed = s.timed
<1> DEFINE meant == {i \in DOMAIN s.client_cbs : s.client_cbs[i].slot = slot}
<1>1. /\ n \in States /\ SameTraffic(n, s) /\ n.timed = s.timed /\ n.handled = s.handled
      /\ n.client_cbs = oc_list_remove(s.client_cbs, meant)
  BY FreeFields
<1>2. s.client_cbs \in Seq(ClientCb) /\ meant \in SUBSET DOMAIN s.client_cbs /\ Len(s.timed) \in Nat
  BY StateFields
<1> HIDE DEF meant
<1>3. CASE meant = {}
  <2>1. n.client_cbs = s.client_cbs
    BY <1>1, <1>2, <1>3, Removed
  <2> QED BY <1>1, <2>1, SameCallbacksHold DEF SameCallbacks
<1>4. CASE meant # {}
  <2>1. Min(meant) \in 1..Len(s.client_cbs) /\ Shortened(s.client_cbs, n.client_cbs, Min(meant))
    BY <1>1, <1>2, <1>4, Removed
  <2>2. Len(n.timed) <= Len(s.timed)
    BY <1>1, <1>2
  <2> QED BY <1>1, <2>1, <2>2, CallbackEnds
<1> QED BY <1>3, <1>4

\* An answer or a 503 ends the request.
LEMMA NotifyHolds ==
    ASSUME NEW s \in States, NEW m \in Nat, Callbacks(s, m), NEW k \in 1..Len(s.client_cbs),
           NEW n, n = notify_client_cb_503(s, s.client_cbs[k]) \/ n = invoke_client_cb(s, s.client_cbs[k])
    PROVE  n \in States /\ SameTraffic(n, s) /\ Callbacks(n, m)
<1> DEFINE cb == s.client_cbs[k]
<1>0. cb \in ClientCb /\ s.client_cbs \in Seq(ClientCb)
  BY StateFields
<1>1. CASE n = notify_client_cb_503(s, cb)
  <2> DEFINE a == remove_timed_event_callback(s, cb.slot)
             h == call_handler(a, cb)
  <2>1. n = free_client_cb(h, cb.slot)
    BY <1>1 DEF notify_client_cb_503
  <2> HIDE DEF cb
  <2>2. a \in States /\ SameTraffic(a, s) /\ a.client_cbs = s.client_cbs /\ a.handled = s.handled /\ Len(a.timed) <= Len(s.timed)
    BY TimedFields
  <2> HIDE DEF a
  <2>3. h \in States /\ SameTraffic(h, a) /\ h.client_cbs = a.client_cbs /\ h.timed = a.timed
        /\ h.handled = [a.handled EXCEPT ![cb.mid] = @ + 1]
    BY SMTT(30), <1>0, <2>2, HandlerFields
  <2> HIDE DEF h
  <2>4. n \in States /\ SameTraffic(n, h) /\ n.timed = h.timed /\ n.handled = h.handled
        /\ n.client_cbs = oc_list_remove(h.client_cbs, {i \in DOMAIN h.client_cbs : h.client_cbs[i].slot = cb.slot})
    <3> DEFINE slot == cb.slot
    <3>1. h \in States /\ n = free_client_cb(h, slot)
      BY <2>1, <2>3
    <3> HIDE DEF slot
    <3>2. /\ n \in States /\ SameTraffic(n, h) /\ n.timed = h.timed /\ n.handled = h.handled
          /\ n.client_cbs = oc_list_remove(h.client_cbs,
                {i \in DOMAIN h.client_cbs : h.client_cbs[i].slot = slot})
      BY ZenonT(40), <3>1, FreeFields
    <3> QED BY <3>2 DEF slot
  <2>5. Shortened(s.client_cbs, n.client_cbs, k)
    <3>1. n.client_cbs = oc_list_remove(s.client_cbs,
                {i \in DOMAIN s.client_cbs : s.client_cbs[i].slot = s.client_cbs[k].slot})
      BY <2>2, <2>3, <2>4 DEF cb
    <3> QED BY <2>4, <3>1, OnlySlot
  <2>6. n.handled = [s.handled EXCEPT ![s.client_cbs[k].mid] = @ + 1]
    BY <2>2, <2>3, <2>4 DEF cb
  <2>7. Len(n.timed) <= Len(s.timed)
    BY <2>2, <2>3, <2>4
  <2>8. Callbacks(n, m)
    BY <2>4, <2>5, <2>6, <2>7, CallbackEnds
  <2>9. SameTraffic(n, s)
    BY <2>2, <2>3, <2>4, SameTrafficTrans
  <2> QED BY <2>4, <2>8, <2>9
<1>2. CASE n = invoke_client_cb(s, cb)
  <2> DEFINE h == call_handler(s, cb)
             a == remove_timed_event_callback(h, cb.slot)
  <2>1. n = free_client_cb(a, cb.slot)
    BY <1>2 DEF invoke_client_cb
  <2> HIDE DEF cb
  <2>2. h \in States /\ SameTraffic(h, s) /\ h.client_cbs = s.client_cbs /\ h.timed = s.timed
        /\ h.handled = [s.handled EXCEPT ![cb.mid] = @ + 1]
    BY <1>0, HandlerFields
  <2> HIDE DEF h
  <2>3. a \in States /\ SameTraffic(a, h) /\ a.client_cbs = h.client_cbs /\ a.handled = h.handled /\ Len(a.timed) <= Len(h.timed)
    BY <2>2, TimedFields
  <2> HIDE DEF a
  <2>4. n \in States /\ SameTraffic(n, a) /\ n.timed = a.timed /\ n.handled = a.handled
        /\ n.client_cbs = oc_list_remove(a.client_cbs, {i \in DOMAIN a.client_cbs : a.client_cbs[i].slot = cb.slot})
    <3> DEFINE slot == cb.slot
    <3>1. a \in States /\ n = free_client_cb(a, slot)
      BY <2>1, <2>3
    <3> HIDE DEF slot
    <3>2. /\ n \in States /\ SameTraffic(n, a) /\ n.timed = a.timed /\ n.handled = a.handled
          /\ n.client_cbs = oc_list_remove(a.client_cbs,
                {i \in DOMAIN a.client_cbs : a.client_cbs[i].slot = slot})
      BY ZenonT(40), <3>1, FreeFields
    <3> QED BY <3>2 DEF slot
  <2>5. Shortened(s.client_cbs, n.client_cbs, k)
    <3>1. n.client_cbs = oc_list_remove(s.client_cbs,
                {i \in DOMAIN s.client_cbs : s.client_cbs[i].slot = s.client_cbs[k].slot})
      BY <2>2, <2>3, <2>4 DEF cb
    <3> QED BY <2>4, <3>1, OnlySlot
  <2>6. n.handled = [s.handled EXCEPT ![s.client_cbs[k].mid] = @ + 1]
    BY <2>2, <2>3, <2>4 DEF cb
  <2>7. Len(n.timed) <= Len(s.timed)
    BY <2>2, <2>3, <2>4
  <2>8. Callbacks(n, m)
    BY <2>4, <2>5, <2>6, <2>7, CallbackEnds
  <2>9. SameTraffic(n, s)
    BY <2>2, <2>3, <2>4, SameTrafficTrans
  <2> QED BY <2>4, <2>8, <2>9
<1> QED BY <1>1, <1>2

\* The request of a transaction that ran out is told 503 and ends.
LEMMA FreeByMidHolds ==
    ASSUME NEW s \in States, NEW m \in Nat, Callbacks(s, m), NEW mid,
           NEW n, n = free_client_cbs_by_mid(s, mid)
    PROVE  n \in States /\ SameTraffic(n, s) /\ Callbacks(n, m)
<1> DEFINE mine == {i \in DOMAIN s.client_cbs : s.client_cbs[i].mid = mid}
<1>1. mine \in SUBSET (1..Len(s.client_cbs)) /\ mine \in SUBSET Nat
  BY StateFields
<1>2. n = IF mine = {} THEN s ELSE notify_client_cb_503(s, s.client_cbs[Min(mine)])
  BY DEF free_client_cbs_by_mid
<1> HIDE DEF mine
<1>3. CASE mine = {}
  BY <1>2, <1>3 DEF SameTraffic
<1>4. CASE mine # {}
  <2>1. Min(mine) \in 1..Len(s.client_cbs)
    BY <1>1, <1>4, Least
  <2> QED BY <1>2, <1>4, <2>1, NotifyHolds
<1> QED BY <1>3, <1>4

\* Callbacks with different slots are at most as many as there are slots.
LEMMA SlotsFit ==
    ASSUME NEW list \in Seq(ClientCb),
           \A i, j \in 1..Len(list) : i # j => list[i].slot # list[j].slot
    PROVE  Len(list) <= ClientCbs
<1> DEFINE f == [i \in 1..Len(list) |-> list[i].slot]
<1>0. Len(list) \in Nat /\ \A i \in 1..Len(list) : list[i] \in ClientCb
  BY LenProperties, ElementOfSeq
<1>1. Len(list) \in Nat /\ \A i \in 1..Len(list) : list[i].slot \in 1..ClientCbs
  BY <1>0 DEF ClientCb
<1>2. f \in Injection(1..Len(list), 1..ClientCbs)
  BY <1>1 DEF Injection, IsInjective
<1>3. /\ ClientCbs \in Nat /\ IsFiniteSet(1..ClientCbs) /\ Cardinality(1..ClientCbs) = ClientCbs
      /\ Cardinality(1..Len(list)) = Len(list)
  <2>1. ClientCbs \in Nat \ {0} /\ 1 \in Int /\ ClientCbs \in Int /\ Len(list) \in Int
    BY <1>1, OcMessagingAssumption
  <2>2. \A c \in Int : /\ IsFiniteSet(1..c)
                        /\ Cardinality(1..c) = IF 1 > c THEN 0 ELSE c - 1 + 1
    BY FS_Interval
  <2>3. \A c \in Nat : c = IF 1 > c THEN 0 ELSE c - 1 + 1
    OBVIOUS
  <2> QED BY <1>1, <2>1, <2>2, <2>3
<1> HIDE DEF f
<1>4. Cardinality(1..Len(list)) <= Cardinality(1..ClientCbs)
  BY <1>2, <1>3, FS_Injection
<1> QED BY <1>3, <1>4

\* A request more was made.
LEMMA CallbacksLater ==
    ASSUME NEW s, NEW m \in Nat, Callbacks(s, m)
    PROVE  Callbacks(s, m + 1)
<1>1. 1..m \subseteq 1..(m + 1) /\ \A k \in Mids : k > m + 1 => k > m
  BY OcMessagingAssumption DEF Mids
<1> QED BY <1>1 DEF Callbacks, Distinct

\* A new request has a callback of its own.
LEMMA AllocHolds ==
    ASSUME NEW s \in States, NEW m \in Nat, Callbacks(s, m), m + 1 \in Mids,
           NEW token \in Tokens, NEW secured \in BOOLEAN, NEW hs \in BOOLEAN,
           free_cb_slots(s) # {},
           NEW n, n = alloc_client_cb(s, m + 1, token, secured, hs)
    PROVE  /\ n \in States /\ SameTraffic(n, s) /\ Callbacks(n, m + 1)
           /\ Len(n.client_cbs) \in Nat \ {0} /\ Last(n.client_cbs).slot \in 1..ClientCbs
<1> DEFINE slot == Min(free_cb_slots(s))
           cb == [slot |-> slot, mid |-> m + 1, token |-> token, secured |-> secured, hs |-> hs]
           list == s.client_cbs
           new == Append(list, cb)
           c == Len(list) + 1
<1>1. /\ list \in Seq(ClientCb) /\ Len(list) \in Nat /\ DOMAIN list = 1..Len(list)
      /\ s.handled \in [Mids -> Nat]
      /\ \A i \in 1..Len(list) : list[i] \in ClientCb
  BY StateFields
<1>2. slot \in 1..ClientCbs /\ slot \notin cb_slots(s)
  <2>1. free_cb_slots(s) \in SUBSET Nat
    BY OcMessagingAssumption DEF free_cb_slots
  <2>2. slot \in free_cb_slots(s)
    BY <2>1, Least
  <2> HIDE DEF slot
  <2> QED BY <2>2 DEF free_cb_slots
<1>3. \A i \in 1..Len(list) : list[i].slot # slot
  <2> HIDE DEF slot
  <2> QED BY <1>1, <1>2 DEF cb_slots, ToSet
<1> HIDE DEF slot
<1>4. cb \in ClientCb /\ cb.slot = slot /\ cb.mid = m + 1
  BY <1>2 DEF ClientCb
<1>5. n = [s EXCEPT !.client_cbs = new]
  BY DEF alloc_client_cb, slot
<1> HIDE DEF cb
<1>6. /\ new \in Seq(ClientCb) /\ Len(new) = c
      /\ \A i \in 1..Len(list) : new[i] = list[i]
      /\ new[c] = cb
  BY <1>1, <1>4, AppendProperties
<1> HIDE DEF new
<1>7. /\ n \in States /\ SameTraffic(n, s) /\ n.client_cbs = new /\ n.timed = s.timed
      /\ n.handled = s.handled
  BY <1>5, <1>6 DEF States, SameTraffic
<1>8. \A i \in 1..c : i \in 1..Len(list) \/ i = c
  BY <1>1
<1>9. /\ Len(s.timed) <= EventCbs
      /\ \A i \in 1..Len(list) : list[i].mid \in 1..m /\ s.handled[list[i].mid] = 0
      /\ \A i, j \in 1..Len(list) : i # j => list[i].mid # list[j].mid
      /\ \A i, j \in 1..Len(list) : i # j => list[i].slot # list[j].slot
      /\ \A k \in Mids : s.handled[k] <= 1 /\ (k > m => s.handled[k] = 0)
  BY DEF Callbacks, Distinct
<1> HIDE DEF list
<1>10. /\ 1..m \subseteq 1..(m + 1) /\ m + 1 \in 1..(m + 1) /\ m + 1 \notin 1..m /\ m + 1 > m
       /\ \A k \in Mids : k > m + 1 => k > m
  BY OcMessagingAssumption DEF Mids
<1>11. ASSUME NEW i \in 1..c
       PROVE  new[i].mid \in 1..(m + 1) /\ s.handled[new[i].mid] = 0
  <2>1. CASE i \in 1..Len(list)
    BY <1>6, <1>9, <1>10, <2>1
  <2>2. CASE i = c
    BY <1>4, <1>6, <1>9, <1>10, <2>2
  <2> QED BY <1>8, <2>1, <2>2
<1>12. ASSUME NEW i \in 1..c, NEW j \in 1..c, i # j
       PROVE  new[i].mid # new[j].mid /\ new[i].slot # new[j].slot
  <2>1. CASE i \in 1..Len(list) /\ j \in 1..Len(list)
    BY <1>6, <1>9, <1>12, <2>1
  <2>2. CASE i \in 1..Len(list) /\ j = c
    <3>1. list[i].mid # m + 1 /\ list[i].slot # slot
      BY <1>3, <1>9, <1>10, <2>2 DEF list
    <3> QED BY <1>4, <1>6, <2>2, <3>1
  <2>3. CASE i = c /\ j \in 1..Len(list)
    <3>1. list[j].mid # m + 1 /\ list[j].slot # slot
      BY <1>3, <1>9, <1>10, <2>3 DEF list
    <3> QED BY <1>4, <1>6, <2>3, <3>1
  <2> QED BY <1>8, <1>12, <2>1, <2>2, <2>3
<1>13. Len(new) <= ClientCbs
  BY <1>6, <1>12, SlotsFit
<1>14. Distinct(new, 1..(m + 1))
  BY <1>6, <1>11, <1>12 DEF Distinct
<1>15. Callbacks(n, m + 1)
  BY SMTT(30), <1>6, <1>7, <1>9, <1>10, <1>11, <1>12, <1>13, <1>14 DEF Callbacks
<1>16. Len(new) \in Nat \ {0} /\ Last(new) = cb
  BY <1>1, <1>6 DEF Last, list
<1> QED BY <1>2, <1>4, <1>7, <1>15, <1>16

\* A delayed removal more, if there is room for it.
LEMMA AddTimedHolds ==
    ASSUME NEW s \in States, NEW m, Callbacks(s, m), NEW slot \in 1..ClientCbs,
           NEW n, n = add_timed_event_callback(s, slot)
    PROVE  n \in States /\ SameTraffic(n, s) /\ Callbacks(n, m)
<1> DEFINE e == [data |-> slot, timer |-> etimer_set(NonLifetime)]
           new == Append(s.timed, e)
<1>1. s.timed \in Seq(TimedCb) /\ Len(s.timed) \in Nat /\ EventCbs \in Nat /\ Len(s.timed) <= EventCbs
  BY StateFields, OcMessagingAssumption DEF Callbacks
<1>2. e \in TimedCb
  BY OcMessagingAssumption DEF TimedCb, Timer, etimer_set
<1>3. n = IF Len(s.timed) = EventCbs THEN s ELSE [s EXCEPT !.timed = new]
  BY DEF add_timed_event_callback
<1> HIDE DEF e
<1>4. new \in Seq(TimedCb) /\ Len(new) = Len(s.timed) + 1
  BY <1>1, <1>2, AppendProperties
<1> HIDE DEF new
<1>5. CASE Len(s.timed) = EventCbs
  BY <1>3, <1>5 DEF SameTraffic
<1>6. CASE Len(s.timed) # EventCbs
  <2>1. /\ n \in States /\ SameTraffic(n, s) /\ n.timed = new
        /\ n.client_cbs = s.client_cbs /\ n.handled = s.handled
    BY <1>3, <1>4, <1>6 DEF States, SameTraffic
  <2>2. Len(n.timed) <= EventCbs
    BY <1>1, <1>4, <1>6, <2>1
  <2> QED BY <2>1, <2>2 DEF Callbacks
<1> QED BY <1>5, <1>6

\* The handshake's last callback goes before the next one is made.
LEMMA ReplacedHolds ==
    ASSUME NEW s \in States, NEW m \in Nat, Callbacks(s, m), NEW n, n = replaced_handshake_cb(s)
    PROVE  n \in States /\ SameTraffic(n, s) /\ Callbacks(n, m)
<1> DEFINE meant == get_client_cb(s)
           new == oc_list_remove(s.client_cbs, meant)
<1>1. s.client_cbs \in Seq(ClientCb) /\ meant \in SUBSET DOMAIN s.client_cbs /\ Len(s.timed) \in Nat
  BY StateFields DEF get_client_cb
<1>2. n = [s EXCEPT !.client_cbs = new]
  BY DEF replaced_handshake_cb
<1> HIDE DEF meant
<1>3. /\ new \in Seq(ClientCb)
      /\ meant = {} => new = s.client_cbs
      /\ meant # {} => Min(meant) \in 1..Len(s.client_cbs) /\ Shortened(s.client_cbs, new, Min(meant))
  BY <1>1, Removed
<1> HIDE DEF new
<1>4. n \in States /\ SameTraffic(n, s) /\ n.timed = s.timed /\ n.handled = s.handled /\ n.client_cbs = new
  BY <1>2, <1>3 DEF States, SameTraffic
<1>5. CASE meant = {}
  BY <1>3, <1>4, <1>5, SameCallbacksHold DEF SameCallbacks
<1>6. CASE meant # {}
  <2>1. Len(n.timed) <= Len(s.timed)
    BY <1>1, <1>4
  <2>2. Min(meant) \in 1..Len(s.client_cbs) /\ Shortened(s.client_cbs, n.client_cbs, Min(meant))
    BY <1>3, <1>4, <1>6
  <2> QED BY <1>4, <2>1, <2>2, CallbackEnds
<1> QED BY <1>5, <1>6

\* The removal of one callback whose lifetime is over.
LEMMA CheckEventHolds ==
    ASSUME NEW s \in States, NEW m \in Nat, Callbacks(s, m), NEW e,
           NEW n, n = check_event_callback(s, e)
    PROVE  n \in States /\ SameTraffic(n, s) /\ Callbacks(n, m)
<1> DEFINE freed == free_client_cb(s, e.data)
           meant == {i \in DOMAIN freed.timed : freed.timed[i] = e}
           new == oc_list_remove(freed.timed, meant)
<1>1. freed \in States /\ SameTraffic(freed, s) /\ Callbacks(freed, m)
  BY FreeHolds
<1>2. n = IF etimer_expired(e.timer) THEN [freed EXCEPT !.timed = new] ELSE s
  BY DEF check_event_callback
<1>3. CASE etimer_expired(e.timer)
  <2> HIDE DEF freed
  <2>1. freed.timed \in Seq(TimedCb) /\ meant \in SUBSET DOMAIN freed.timed /\ Len(freed.timed) \in Nat
    BY <1>1, StateFields
  <2>2. n = [freed EXCEPT !.timed = new]
    BY <1>2, <1>3
  <2> HIDE DEF meant
  <2>3. new \in Seq(TimedCb) /\ Len(new) <= Len(freed.timed) /\ Len(new) \in Nat
    <3>1. new \in Seq(TimedCb) /\ Len(new) <= Len(freed.timed)
      BY <2>1, Removed
    <3> HIDE DEF new
    <3> QED BY <3>1, LenProperties
  <2> HIDE DEF new
  <2>4. /\ n \in States /\ SameTraffic(n, freed) /\ n.timed = new
        /\ n.client_cbs = freed.client_cbs /\ n.handled = freed.handled
    BY <1>1, <2>2, <2>3 DEF States, SameTraffic
  <2>5. Len(n.timed) <= EventCbs
    BY <1>1, <2>1, <2>3, <2>4, OcMessagingAssumption DEF Callbacks
  <2>6. Callbacks(n, m)
    BY <1>1, <2>4, <2>5 DEF Callbacks
  <2> QED BY <1>1, <2>4, <2>6, SameTrafficTrans
<1>4. CASE ~etimer_expired(e.timer)
  BY <1>2, <1>4 DEF SameTraffic
<1> QED BY <1>3, <1>4

\* The loop over a list has a value at every step.
EventWalk(s, list, g, n) ==
    g = [i \in 0..n |-> IF i = 0 THEN s ELSE check_event_callback(g[i - 1], list[i])]

\* By least counterexample on its length.
LEMMA EventWalkExists ==
    ASSUME NEW s, NEW list, NEW n \in Nat
    PROVE  \E g : EventWalk(s, list, g, n)
<1> DEFINE T == {k \in Nat : ~\E g : EventWalk(s, list, g, k)}
<1> SUFFICES ASSUME T # {}
             PROVE  FALSE
  OBVIOUS
<1> DEFINE k == Min(T)
<1>1. k \in T /\ \A j \in T : k <= j
  <2>1. T \in SUBSET Nat
    OBVIOUS
  <2> HIDE DEF T
  <2> QED BY <2>1, Least
<1>2. k \in Nat /\ ~\E g : EventWalk(s, list, g, k)
  BY <1>1
<1> HIDE DEF k
<1>3. CASE k = 0
  <2> DEFINE g == [i \in 0..0 |-> s]
  <2>1. EventWalk(s, list, g, 0)
    BY DEF EventWalk
  <2> QED BY <1>2, <1>3, <2>1
<1>4. CASE k # 0
  <2>1. k - 1 \in Nat /\ k - 1 \notin T
    BY <1>1, <1>2, <1>4
  <2>2. PICK g : EventWalk(s, list, g, k - 1)
    BY <2>1
  <2> DEFINE h == [i \in 0..k |-> IF i = k THEN check_event_callback(g[k - 1], list[k]) ELSE g[i]]
             body(i) == IF i = 0 THEN s ELSE check_event_callback(h[i - 1], list[i])
  <2>3. \A i \in 0..(k - 1) : g[i] = IF i = 0 THEN s ELSE check_event_callback(g[i - 1], list[i])
    BY <2>2 DEF EventWalk
  <2>4. ASSUME NEW i \in 0..k
        PROVE  h[i] = body(i)
    <3>1. CASE i = k
      BY <1>2, <1>4, <3>1
    <3>2. CASE i # k
      <4>1. i \in 0..(k - 1) /\ h[i] = g[i]
        BY <1>2, <3>2
      <4>2. CASE i = 0
        BY <2>3, <4>1, <4>2
      <4>3. CASE i # 0
        <5>1. h[i - 1] = g[i - 1]
          BY <1>2, <3>2, <4>3
        <5> QED BY <2>3, <4>1, <4>3, <5>1
      <4> QED BY <4>2, <4>3
    <3> QED BY <3>1, <3>2
  <2>5. h = [i \in 0..k |-> h[i]]
    OBVIOUS
  <2> HIDE DEF h
  <2>6. EventWalk(s, list, h, k)
    BY <2>4, <2>5 DEF EventWalk
  <2> QED BY <1>2, <2>6
<1> QED BY <1>3, <1>4

\* Every callback whose lifetime is over is gone.
LEMMA CheckEventsHold ==
    ASSUME NEW s \in States, NEW m \in Nat, Callbacks(s, m),
           NEW n, n = check_event_callbacks(s)
    PROVE  n \in States /\ SameTraffic(n, s) /\ Callbacks(n, m)
<1> DEFINE list == s.timed
           after == CHOOSE g : EventWalk(s, list, g, Len(list))
           Good(x) == x \in States /\ SameTraffic(x, s) /\ Callbacks(x, m)
           T == {k \in 0..Len(list) : ~Good(after[k])}
<1>1. Len(list) \in Nat
  BY StateFields
<1>2. EventWalk(s, list, after, Len(list))
  BY <1>1, EventWalkExists
<1>3. n = after[Len(list)]
  BY DEF check_event_callbacks, EventWalk
<1> HIDE DEF after
<1>4. \A k \in 0..Len(list) : after[k] = IF k = 0 THEN s ELSE check_event_callback(after[k - 1], list[k])
  BY <1>2 DEF EventWalk
<1>5. Good(s)
  BY DEF SameTraffic
<1>6. T = {}
  <2> SUFFICES ASSUME T # {}
               PROVE  FALSE
    OBVIOUS
  <2> DEFINE k == Min(T)
  <2>1. k \in T /\ \A j \in T : k <= j
    <3>1. T \in SUBSET Nat
      BY <1>1
    <3> HIDE DEF T
    <3> QED BY <3>1, Least
  <2> HIDE DEF k
  <2>2. k \in 0..Len(list) /\ ~Good(after[k])
    BY <2>1
  <2>3. k # 0
    BY <1>4, <1>5, <2>2
  <2>4. k - 1 \in 0..Len(list) /\ k - 1 \notin T
    BY <1>1, <2>1, <2>2, <2>3
  <2>5. Good(after[k - 1])
    BY <2>4
  <2>6. after[k] = check_event_callback(after[k - 1], list[k])
    BY <1>4, <2>2, <2>3
  <2>7. Good(after[k])
    BY <2>5, <2>6, CheckEventHolds, SameTrafficTrans
  <2> QED BY <2>2, <2>7
<1>7. Len(list) \in 0..Len(list)
  BY <1>1
<1> QED BY <1>3, <1>6, <1>7

(***************************************************************************)
(* The event queue and the buffers.                                        *)
(***************************************************************************)
\* Which events hold which buffer.
LEMMA EventHolds ==
    ASSUME NEW b \in Slot
    PROVE  /\ \A v \in {"INBOUND_NETWORK", "INBOUND_RI"} :
                /\ [ev |-> v, data |-> b] \in Event
                /\ \A c \in Slot : [ev |-> v, data |-> b] \in Inbound(c) <=> b = c
                /\ \A c \in Slot : [ev |-> v, data |-> b] \notin Outbound(c)
           /\ [ev |-> "OUTBOUND", data |-> b] \in Event
           /\ \A c \in Slot : [ev |-> "OUTBOUND", data |-> b] \in Outbound(c) <=> b = c
           /\ \A c \in Slot : [ev |-> "OUTBOUND", data |-> b] \notin Inbound(c)
BY DEF Event, Inbound, Outbound

\* Counts are numbers.
LEMMA CountsNat ==
    ASSUME NEW s \in States, NEW S
    PROVE  Count(s.events, S) \in Nat /\ Count(s.transactions, S) \in Nat
<1>1. s.events \in Seq(Event) /\ s.transactions \in Seq(Transaction)
  BY StateFields
<1> QED BY <1>1, HitsFinite

\* What one event more changes.
LEMMA PostFields ==
    ASSUME NEW s \in States, Len(s.events) < QueueSize, NEW ev, NEW data,
           [ev |-> ev, data |-> data] \in Event,
           NEW n, n = process_post(s, ev, data)
    PROVE  /\ n \in States /\ SameCallbacks(n, s)
           /\ n.incoming = s.incoming /\ n.outgoing = s.outgoing
           /\ n.transactions = s.transactions /\ Len(n.events) <= QueueSize
           /\ \A S : Count(n.events, S) = Count(s.events, S) + One([ev |-> ev, data |-> data] \in S)
<1> DEFINE e == [ev |-> ev, data |-> data]
           new == Append(s.events, e)
<1>1. s.events \in Seq(Event) /\ Len(s.events) \in Nat /\ QueueSize \in Nat
  BY StateFields, OcMessagingAssumption
<1>2. n = [s EXCEPT !.events = new]
  BY <1>1 DEF process_post, queue_full
<1>0. e \in Event
  OBVIOUS
<1> HIDE DEF e
<1>3. new \in Seq(Event) /\ Len(new) = Len(s.events) + 1
  BY <1>0, <1>1, AppendProperties
<1>4. \A S : Count(new, S) = Count(s.events, S) + One(e \in S)
  BY <1>0, <1>1, CountAppend
<1> HIDE DEF new
<1>5. /\ n \in States /\ SameCallbacks(n, s) /\ n.events = new
      /\ n.incoming = s.incoming /\ n.outgoing = s.outgoing /\ n.transactions = s.transactions
  BY <1>2, <1>3 DEF States, SameCallbacks
<1>6. Len(n.events) <= QueueSize
  BY <1>1, <1>3, <1>5
<1>7. \A S : Count(n.events, S) = Count(s.events, S) + One(e \in S)
  BY <1>4, <1>5
<1> QED BY <1>5, <1>6, <1>7 DEF e

\* The outgoing buffers change.
LEMMA OutFields ==
    ASSUME NEW s \in States, NEW new \in [Slot -> OutBuf],
           NEW n, n = [s EXCEPT !.outgoing = new]
    PROVE  /\ n \in States /\ SameCallbacks(n, s) /\ n.events = s.events
           /\ n.incoming = s.incoming /\ n.transactions = s.transactions
           /\ n.outgoing = new
BY DEF States, SameCallbacks

\* One buffer of them.
LEMMA OneOut ==
    ASSUME NEW s \in States, NEW b \in Slot, NEW buf \in OutBuf
    PROVE  /\ [s.outgoing EXCEPT ![b] = buf] \in [Slot -> OutBuf]
           /\ \A c \in Slot : [s.outgoing EXCEPT ![b] = buf][c] = IF c = b THEN buf ELSE s.outgoing[c]
<1>1. s.outgoing \in [Slot -> OutBuf]
  BY StateFields
<1> QED BY <1>1

\* A reference less.
LEMMA UnrefFields ==
    ASSUME NEW s \in States, NEW b \in Slot, NEW n, n = message_unref_out(s, b)
    PROVE  /\ n \in States /\ SameCallbacks(n, s) /\ n.events = s.events
           /\ n.incoming = s.incoming /\ n.transactions = s.transactions
           /\ \A c \in Slot : c # b => n.outgoing[c] = s.outgoing[c]
           /\ n.outgoing[b].used => s.outgoing[b].used /\ s.outgoing[b].ref_count > 1
           /\ n.outgoing[b].ref_count = s.outgoing[b].ref_count - 1
<1> DEFINE old == s.outgoing[b]
           u == old.used /\ old.ref_count > 1
           buf == [old EXCEPT !.ref_count = old.ref_count - 1, !.used = u]
           new == [s.outgoing EXCEPT ![b] = buf]
<1>1. old \in OutBuf
  BY StateFields
<1>2. u \in BOOLEAN /\ (u => old.used /\ old.ref_count > 1)
  OBVIOUS
<1>3. n = [s EXCEPT !.outgoing = new]
  BY DEF message_unref_out, unreferenced
<1> HIDE DEF u
<1>4. buf \in OutBuf /\ buf.used = u /\ buf.ref_count = old.ref_count - 1
  <2>1. old.ref_count - 1 \in Int
    BY <1>1 DEF OutBuf
  <2> DEFINE r == old.ref_count - 1
  <2>2. buf = [old EXCEPT !.ref_count = r, !.used = u]
    OBVIOUS
  <2> HIDE DEF r, buf, old
  <2>3. buf = [used |-> u, ref_count |-> r, cose |-> old.cose]
    BY <1>1, <2>2 DEF OutBuf
  <2>4. old.cose \in BOOLEAN /\ r \in Int
    BY <1>1, <2>1 DEF OutBuf, r
  <2> QED BY <1>2, <2>3, <2>4 DEF OutBuf, r
<1> HIDE DEF buf
<1>5. new \in [Slot -> OutBuf] /\ \A c \in Slot : new[c] = IF c = b THEN buf ELSE s.outgoing[c]
  BY <1>4, OneOut
<1> HIDE DEF new
<1>6. /\ n \in States /\ SameCallbacks(n, s) /\ n.events = s.events
      /\ n.incoming = s.incoming /\ n.transactions = s.transactions
      /\ n.outgoing = new
  BY <1>3, <1>5, OutFields
<1> QED BY <1>2, <1>4, <1>5, <1>6

\* The count of references changes.
Referenced(s, b, r) == [s EXCEPT !.outgoing[b].ref_count = r]

\* Nothing but the count of that buffer.
LEMMA RefFields ==
    ASSUME NEW s \in States, NEW b \in Slot, NEW r \in Int,
           NEW n, n = Referenced(s, b, r)
    PROVE  /\ n \in States /\ SameCallbacks(n, s) /\ n.events = s.events
           /\ n.incoming = s.incoming /\ n.transactions = s.transactions
           /\ \A c \in Slot : c # b => n.outgoing[c] = s.outgoing[c]
           /\ n.outgoing[b].used = s.outgoing[b].used /\ n.outgoing[b].ref_count = r
<1> DEFINE old == s.outgoing[b]
           buf == [old EXCEPT !.ref_count = r]
           new == [s.outgoing EXCEPT ![b] = buf]
<1>1. old \in OutBuf
  BY StateFields
<1>2. buf \in OutBuf /\ buf.used = old.used /\ buf.ref_count = r
  BY <1>1 DEF OutBuf
<1>3. n = [s EXCEPT !.outgoing = new]
  BY DEF Referenced
<1> HIDE DEF buf
<1>4. new \in [Slot -> OutBuf] /\ \A c \in Slot : new[c] = IF c = b THEN buf ELSE s.outgoing[c]
  BY <1>2, OneOut
<1> HIDE DEF new
<1>5. /\ n \in States /\ SameCallbacks(n, s) /\ n.events = s.events
      /\ n.incoming = s.incoming /\ n.transactions = s.transactions
      /\ n.outgoing = new
  BY <1>3, <1>4, OutFields
<1> QED BY <1>2, <1>4, <1>5

(***************************************************************************)
(* Traffic: who holds the buffers.                                         *)
(***************************************************************************)
\* The parts that a handler of outgoing messages has to keep.
LEMMA TrafficParts ==
    ASSUME NEW s, NEW n, NEW M, NEW N, NEW hin, NEW hout, NEW hnew, Traffic(s, M, hin, hout),
           n.incoming = s.incoming,
           \A c \in Slot : Count(n.events, Inbound(c)) = Count(s.events, Inbound(c)),
           Len(n.events) <= QueueSize, Len(n.transactions) <= Transactions,
           Distinct(n.transactions, N), OutHeld(n, hnew)
    PROVE  Traffic(n, N, hin, hnew)
BY DEF Traffic, InHeld

\* A buffer in hand has one holder more.
LEMMA InHand ==
    ASSUME NEW s \in States, NEW M, NEW hin, NEW b, Traffic(s, M, hin, {})
    PROVE  Traffic(s, M, hin, {b})
<1>1. OutHeld(s, {b})
  <2> SUFFICES ASSUME NEW c \in Slot, s.outgoing[c].used
               PROVE  /\ 1 <= s.outgoing[c].ref_count
                      /\ s.outgoing[c].ref_count <= OutHolders(s, c, {b})
    BY DEF OutHeld
  <2>1. 1 <= s.outgoing[c].ref_count /\ s.outgoing[c].ref_count <= OutHolders(s, c, {})
    BY DEF Traffic, OutHeld
  <2>2. s.outgoing[c].ref_count \in Int
    BY StateFields DEF OutBuf
  <2>3. Count(s.events, Outbound(c)) \in Nat /\ Count(s.transactions, On(c)) \in Nat
    BY CountsNat
  <2> QED BY <2>1, <2>2, <2>3 DEF OutHolders, One
<1> QED BY <1>1, TrafficParts DEF Traffic

\* The message in hand is given back.
LEMMA UnrefHolds ==
    ASSUME NEW s \in States, NEW M, NEW hin, NEW b \in Slot, Traffic(s, M, hin, {b}),
           NEW n, n = message_unref_out(s, b)
    PROVE  n \in States /\ SameCallbacks(n, s) /\ Traffic(n, M, hin, {})
<1>1. /\ n \in States /\ SameCallbacks(n, s) /\ n.events = s.events
      /\ n.incoming = s.incoming /\ n.transactions = s.transactions
      /\ \A c \in Slot : c # b => n.outgoing[c] = s.outgoing[c]
      /\ n.outgoing[b].used => s.outgoing[b].used /\ s.outgoing[b].ref_count > 1
      /\ n.outgoing[b].ref_count = s.outgoing[b].ref_count - 1
  BY UnrefFields
<1>2. OutHeld(n, {})
  <2> SUFFICES ASSUME NEW c \in Slot, n.outgoing[c].used
               PROVE  /\ 1 <= n.outgoing[c].ref_count
                      /\ n.outgoing[c].ref_count <= OutHolders(n, c, {})
    BY DEF OutHeld
  <2>1. s.outgoing[c].used
    BY <1>1
  <2>2. 1 <= s.outgoing[c].ref_count /\ s.outgoing[c].ref_count <= OutHolders(s, c, {b})
    BY <2>1 DEF Traffic, OutHeld
  <2>3. s.outgoing[c].ref_count \in Int
    BY StateFields DEF OutBuf
  <2>4. Count(s.events, Outbound(c)) \in Nat /\ Count(s.transactions, On(c)) \in Nat
    BY CountsNat
  <2>5. OutHolders(n, c, {}) = Count(s.events, Outbound(c)) + Count(s.transactions, On(c))
    BY <1>1, <2>4 DEF OutHolders, One
  <2>6. OutHolders(s, c, {b}) = Count(s.events, Outbound(c)) + Count(s.transactions, On(c)) + One(c = b)
    BY DEF OutHolders, One
  <2>7. CASE c = b
    BY <1>1, <2>2, <2>3, <2>4, <2>5, <2>6, <2>7 DEF One
  <2>8. CASE c # b
    BY <1>1, <2>2, <2>3, <2>4, <2>5, <2>6, <2>8 DEF One
  <2> QED BY <2>7, <2>8
<1> QED BY <1>1, <1>2, TrafficParts DEF Traffic

\* An event is posted for the message in hand, which it then holds.
LEMMA HandedHolds ==
    ASSUME NEW s \in States, NEW M, NEW hin, NEW b \in Slot, Traffic(s, M, hin, {b}),
           Len(s.events) < QueueSize, NEW n, n = process_post(s, "OUTBOUND", b)
    PROVE  /\ n \in States /\ SameCallbacks(n, s) /\ Traffic(n, M, hin, {})
           /\ n.outgoing = s.outgoing /\ n.transactions = s.transactions
<1> DEFINE e == [ev |-> "OUTBOUND", data |-> b]
<1>1. /\ e \in Event /\ \A c \in Slot : e \in Outbound(c) <=> b = c
      /\ \A c \in Slot : e \notin Inbound(c)
  BY EventHolds
<1>2. /\ n \in States /\ SameCallbacks(n, s)
      /\ n.incoming = s.incoming /\ n.outgoing = s.outgoing
      /\ n.transactions = s.transactions /\ Len(n.events) <= QueueSize
      /\ \A S : Count(n.events, S) = Count(s.events, S) + One(e \in S)
  BY <1>1, PostFields
<1> HIDE DEF e
<1>3. \A c \in Slot : Count(n.events, Inbound(c)) = Count(s.events, Inbound(c))
  <2> SUFFICES ASSUME NEW c \in Slot
               PROVE  Count(n.events, Inbound(c)) = Count(s.events, Inbound(c))
    OBVIOUS
  <2>1. Count(s.events, Inbound(c)) \in Nat
    BY CountsNat
  <2>2. One(e \in Inbound(c)) = 0
    BY <1>1 DEF One
  <2> QED BY <1>2, <2>1, <2>2
<1>4. OutHeld(n, {})
  <2> SUFFICES ASSUME NEW c \in Slot, s.outgoing[c].used
               PROVE  /\ 1 <= s.outgoing[c].ref_count
                      /\ s.outgoing[c].ref_count <= OutHolders(n, c, {})
    BY <1>2 DEF OutHeld
  <2>1. 1 <= s.outgoing[c].ref_count /\ s.outgoing[c].ref_count <= OutHolders(s, c, {b})
    BY DEF Traffic, OutHeld
  <2>2. Count(s.events, Outbound(c)) \in Nat /\ Count(s.transactions, On(c)) \in Nat
    BY CountsNat
  <2>3. Count(n.events, Outbound(c)) = Count(s.events, Outbound(c)) + One(b = c)
    BY <1>1, <1>2 DEF One
  <2>4. OutHolders(n, c, {}) = Count(s.events, Outbound(c)) + One(b = c) + Count(s.transactions, On(c))
    BY <1>2, <2>2, <2>3 DEF OutHolders, One
  <2>5. OutHolders(s, c, {b}) = Count(s.events, Outbound(c)) + Count(s.transactions, On(c)) + One(b = c)
    BY DEF OutHolders, One
  <2>6. One(b = c) \in Nat
    BY DEF One
  <2>7. OutHolders(n, c, {}) = OutHolders(s, c, {b})
    BY <2>2, <2>4, <2>5, <2>6
  <2> QED BY <2>1, <2>7
<1> QED BY <1>2, <1>3, <1>4, TrafficParts DEF Traffic

\* A message without a transaction is sent, or freed when the queue is full.
LEMMA SendOrFreeHolds ==
    ASSUME NEW s \in States, NEW M, NEW hin, NEW b \in Slot, Traffic(s, M, hin, {b}),
           NEW n, n = send_or_free(s, b)
    PROVE  n \in States /\ SameCallbacks(n, s) /\ Traffic(n, M, hin, {})
<1> DEFINE sent == send_message(s, b)
<1>0. /\ s.outgoing[b].ref_count \in Int /\ Len(s.events) \in Nat /\ QueueSize \in Nat
      /\ Len(s.events) <= QueueSize
  <2>1. s.outgoing[b] \in OutBuf
    BY StateFields
  <2> QED BY <2>1, StateFields, OcMessagingAssumption DEF OutBuf, Traffic
<1>1. n = IF sent.outgoing[b].ref_count = 0 THEN message_unref_out(sent, b) ELSE sent
  BY DEF send_or_free
<1>2. CASE queue_full(s)
  <2> DEFINE r == s.outgoing[b].ref_count - 1
  <2>1. sent = Referenced(s, b, r)
    BY <1>2 DEF send_message, Referenced
  <2> HIDE DEF sent
  <2>2. r \in Int
    BY <1>0
  <2> HIDE DEF r
  <2>3. /\ sent \in States /\ SameCallbacks(sent, s) /\ sent.events = s.events
        /\ sent.incoming = s.incoming /\ sent.transactions = s.transactions
        /\ \A c \in Slot : c # b => sent.outgoing[c] = s.outgoing[c]
        /\ sent.outgoing[b].used = s.outgoing[b].used /\ sent.outgoing[b].ref_count = r
    BY <2>1, <2>2, RefFields
  <2>4. ASSUME NEW x \in States, x.events = s.events, x.transactions = s.transactions,
               \A c \in Slot : c # b => x.outgoing[c] = s.outgoing[c],
               x.outgoing[b].used => s.outgoing[b].used /\ x.outgoing[b].ref_count = r /\ r # 0
        PROVE  OutHeld(x, {})
    <3> SUFFICES ASSUME NEW c \in Slot, x.outgoing[c].used
                 PROVE  /\ 1 <= x.outgoing[c].ref_count
                        /\ x.outgoing[c].ref_count <= OutHolders(x, c, {})
      BY DEF OutHeld
    <3>1. s.outgoing[c].used
      BY <2>4
    <3>2. 1 <= s.outgoing[c].ref_count /\ s.outgoing[c].ref_count <= OutHolders(s, c, {b})
      BY <3>1 DEF Traffic, OutHeld
    <3>3. s.outgoing[c].ref_count \in Int
      BY StateFields DEF OutBuf
    <3>4. Count(s.events, Outbound(c)) \in Nat /\ Count(s.transactions, On(c)) \in Nat
      BY CountsNat
    <3>5. OutHolders(x, c, {}) = Count(s.events, Outbound(c)) + Count(s.transactions, On(c))
      BY <2>4, <3>4 DEF OutHolders, One
    <3>6. OutHolders(s, c, {b}) = Count(s.events, Outbound(c)) + Count(s.transactions, On(c)) + One(c = b)
      BY DEF OutHolders, One
    <3>7. CASE c = b
      BY <2>4, <3>2, <3>3, <3>4, <3>5, <3>6, <3>7 DEF One, r
    <3>8. CASE c # b
      BY <2>4, <3>2, <3>3, <3>4, <3>5, <3>6, <3>8 DEF One
    <3> QED BY <3>7, <3>8
  <2>5. CASE r = 0
    <3>1. n = message_unref_out(sent, b)
      BY <1>1, <2>3, <2>5
    <3>2. /\ n \in States /\ SameCallbacks(n, sent) /\ n.events = sent.events
          /\ n.incoming = sent.incoming /\ n.transactions = sent.transactions
          /\ \A c \in Slot : c # b => n.outgoing[c] = sent.outgoing[c]
          /\ n.outgoing[b].used => sent.outgoing[b].used /\ sent.outgoing[b].ref_count > 1
      BY <2>3, <3>1, UnrefFields
    <3>3. ~n.outgoing[b].used
      BY <2>3, <2>5, <3>2
    <3>4. OutHeld(n, {})
      BY <2>3, <2>4, <3>2, <3>3
    <3>5. Traffic(n, M, hin, {})
      BY <2>3, <3>2, <3>4, TrafficParts DEF Traffic
    <3>6. SameCallbacks(n, s)
      BY <2>3, <3>2 DEF SameCallbacks
    <3> QED BY <3>2, <3>5, <3>6
  <2>6. CASE r # 0
    <3>1. n = sent
      BY <1>1, <2>3, <2>6
    <3>2. sent.outgoing[b].used => s.outgoing[b].used /\ sent.outgoing[b].ref_count = r /\ r # 0
      BY <2>3, <2>6
    <3>4. OutHeld(sent, {})
      BY <2>3, <2>4, <3>2
    <3>5. Traffic(sent, M, hin, {})
      BY <2>3, <3>4, TrafficParts DEF Traffic
    <3> QED BY <2>3, <3>1, <3>5
  <2> QED BY <2>5, <2>6
<1>3. CASE ~queue_full(s)
  <2>1. sent = process_post(s, "OUTBOUND", b) /\ Len(s.events) < QueueSize
    BY <1>0, <1>3 DEF send_message, queue_full
  <2> HIDE DEF sent
  <2>2. /\ sent \in States /\ SameCallbacks(sent, s) /\ Traffic(sent, M, hin, {})
        /\ sent.outgoing = s.outgoing /\ sent.transactions = s.transactions
    BY <2>1, HandedHolds
  <2>3. CASE sent.outgoing[b].ref_count # 0
    BY <1>1, <2>2, <2>3
  <2>4. CASE sent.outgoing[b].ref_count = 0
    <3>1. n = message_unref_out(sent, b)
      BY <1>1, <2>4
    <3>2. Traffic(sent, M, hin, {b})
      BY <2>2, InHand
    <3>3. n \in States /\ SameCallbacks(n, sent) /\ Traffic(n, M, hin, {})
      BY <2>2, <3>1, <3>2, UnrefHolds
    <3> QED BY <2>2, <3>3 DEF SameCallbacks
  <2> QED BY <2>3, <2>4
<1> QED BY <1>2, <1>3

\* A reference for the event, and the event; neither if the queue is full.
LEMMA AddRefSendHolds ==
    ASSUME NEW s \in States, NEW M, NEW hin, NEW b \in Slot, Traffic(s, M, hin, {}),
           NEW n, n = send_message(message_add_ref(s, b), b)
    PROVE  /\ n \in States /\ SameCallbacks(n, s) /\ Traffic(n, M, hin, {})
           /\ n.transactions = s.transactions
<1> DEFINE x == message_add_ref(s, b)
           r == s.outgoing[b].ref_count + 1
<1>0. /\ s.outgoing[b].ref_count \in Int /\ Len(s.events) \in Nat /\ QueueSize \in Nat
      /\ Len(s.events) <= QueueSize
  <2>1. s.outgoing[b] \in OutBuf
    BY StateFields
  <2> QED BY <2>1, StateFields, OcMessagingAssumption DEF OutBuf, Traffic
<1>1. x = Referenced(s, b, r) /\ r \in Int
  BY <1>0 DEF message_add_ref, Referenced
<1> HIDE DEF r, x
<1>2. /\ x \in States /\ SameCallbacks(x, s) /\ x.events = s.events
      /\ x.incoming = s.incoming /\ x.transactions = s.transactions
      /\ \A c \in Slot : c # b => x.outgoing[c] = s.outgoing[c]
      /\ x.outgoing[b].used = s.outgoing[b].used /\ x.outgoing[b].ref_count = r
  BY <1>1, RefFields
<1>3. CASE queue_full(s)
  <2> DEFINE q == x.outgoing[b].ref_count - 1
  <2>1. n = Referenced(x, b, q)
    BY <1>2, <1>3 DEF send_message, Referenced, queue_full, x
  <2>2. q \in Int /\ q = s.outgoing[b].ref_count
    BY <1>0, <1>2 DEF r
  <2> HIDE DEF q
  <2>3. /\ n \in States /\ SameCallbacks(n, x) /\ n.events = x.events
        /\ n.incoming = x.incoming /\ n.transactions = x.transactions
        /\ \A c \in Slot : c # b => n.outgoing[c] = x.outgoing[c]
        /\ n.outgoing[b].used = x.outgoing[b].used /\ n.outgoing[b].ref_count = q
    BY <1>2, <2>1, <2>2, RefFields
  <2>4. OutHeld(n, {})
    <3>1. \A c \in Slot : n.outgoing[c].used = s.outgoing[c].used
                          /\ n.outgoing[c].ref_count = s.outgoing[c].ref_count
      BY <1>2, <2>2, <2>3
    <3>2. \A c \in Slot : OutHolders(n, c, {}) = OutHolders(s, c, {})
      BY <1>2, <2>3 DEF OutHolders
    <3> QED BY <3>1, <3>2 DEF Traffic, OutHeld
  <2>5. Traffic(n, M, hin, {})
    BY <1>2, <2>3, <2>4, TrafficParts DEF Traffic
  <2>6. SameCallbacks(n, s)
    BY <1>2, <2>3 DEF SameCallbacks
  <2> QED BY <1>2, <2>3, <2>5, <2>6
<1>4. CASE ~queue_full(s)
  <2>1. n = process_post(x, "OUTBOUND", b) /\ Len(x.events) < QueueSize
    BY <1>0, <1>2, <1>4 DEF send_message, queue_full, x
  <2>2. OutHeld(x, {b})
    <3> SUFFICES ASSUME NEW c \in Slot, x.outgoing[c].used
                 PROVE  /\ 1 <= x.outgoing[c].ref_count
                        /\ x.outgoing[c].ref_count <= OutHolders(x, c, {b})
      BY DEF OutHeld
    <3>1. s.outgoing[c].used
      BY <1>2
    <3>2. 1 <= s.outgoing[c].ref_count /\ s.outgoing[c].ref_count <= OutHolders(s, c, {})
      BY <3>1 DEF Traffic, OutHeld
    <3>3. s.outgoing[c].ref_count \in Int
      BY StateFields DEF OutBuf
    <3>4. Count(s.events, Outbound(c)) \in Nat /\ Count(s.transactions, On(c)) \in Nat
      BY CountsNat
    <3>5. OutHolders(x, c, {b}) = Count(s.events, Outbound(c)) + Count(s.transactions, On(c)) + One(c = b)
      BY <1>2 DEF OutHolders, One
    <3>6. OutHolders(s, c, {}) = Count(s.events, Outbound(c)) + Count(s.transactions, On(c))
      BY <3>4 DEF OutHolders, One
    <3>7. CASE c = b
      BY <1>2, <3>2, <3>3, <3>4, <3>5, <3>6, <3>7 DEF One, r
    <3>8. CASE c # b
      BY <1>2, <3>2, <3>3, <3>4, <3>5, <3>6, <3>8 DEF One
    <3> QED BY <3>7, <3>8
  <2>3. Traffic(x, M, hin, {b})
    BY <1>2, <2>2, TrafficParts DEF Traffic
  <2>4. /\ n \in States /\ SameCallbacks(n, x) /\ Traffic(n, M, hin, {})
        /\ n.transactions = x.transactions
    BY <1>2, <2>1, <2>3, HandedHolds
  <2>5. SameCallbacks(n, s)
    BY <1>2, <2>4 DEF SameCallbacks
  <2> QED BY <1>2, <2>4, <2>5
<1> QED BY <1>3, <1>4

\* Transactions that keep their message and its ID, whatever their timers do.
LEMMA RetimedHolds ==
    ASSUME NEW s \in States, NEW n \in States, NEW M, NEW hin, NEW hout, Traffic(s, M, hin, hout),
           Len(n.events) <= QueueSize, n.incoming = s.incoming, n.outgoing = s.outgoing,
           \A c \in Slot : /\ Count(n.events, Inbound(c)) = Count(s.events, Inbound(c))
                           /\ Count(n.events, Outbound(c)) = Count(s.events, Outbound(c)),
           Len(n.transactions) = Len(s.transactions),
           \A i \in 1..Len(s.transactions) :
                /\ n.transactions[i].mid = s.transactions[i].mid
                /\ n.transactions[i].message = s.transactions[i].message
    PROVE  Traffic(n, M, hin, hout)
<1>1. /\ s.transactions \in Seq(Transaction) /\ n.transactions \in Seq(Transaction)
      /\ \A i \in 1..Len(s.transactions) : s.transactions[i] \in Transaction
      /\ \A i \in 1..Len(n.transactions) : n.transactions[i] \in Transaction
  BY StateFields
<1>2. \A c \in Slot : Count(n.transactions, On(c)) = Count(s.transactions, On(c))
  <2> SUFFICES ASSUME NEW c \in Slot
               PROVE  Count(n.transactions, On(c)) = Count(s.transactions, On(c))
    OBVIOUS
  <2>1. \A i \in 1..Len(s.transactions) : n.transactions[i] \in On(c) <=> s.transactions[i] \in On(c)
    BY <1>1 DEF On
  <2> QED BY <1>1, <2>1, CountSame
<1>3. \A c \in Slot : OutHolders(n, c, hout) = OutHolders(s, c, hout)
  BY <1>2 DEF OutHolders
<1>4. OutHeld(n, hout)
  BY <1>3 DEF Traffic, OutHeld
<1>5. Distinct(n.transactions, M)
  BY DEF Traffic, Distinct
<1>6. Len(n.transactions) <= Transactions
  BY DEF Traffic
<1> QED BY <1>4, <1>5, <1>6, TrafficParts

\* A transaction ends: it leaves the list and gives its reference back.
LEMMA ClearHolds ==
    ASSUME NEW s \in States, NEW M, NEW hin, Traffic(s, M, hin, {}),
           NEW k \in 1..Len(s.transactions), NEW t, t = s.transactions[k],
           NEW n, n = clear_transaction(s, t)
    PROVE  /\ n \in States /\ SameCallbacks(n, s)
           /\ Traffic(n, M, hin, {}) /\ Distinct(n.transactions, M \ {t.mid})
           /\ Shortened(s.transactions, n.transactions, k)
<1> DEFINE b == t.message
           x == message_unref_out(s, b)
           list == s.transactions
           meant == {i \in DOMAIN x.transactions : x.transactions[i] = t}
           new == oc_list_remove(x.transactions, meant)
<1>1. /\ list \in Seq(Transaction) /\ Len(list) \in Nat /\ DOMAIN list = 1..Len(list)
      /\ t \in Transaction /\ b \in Slot /\ k \in 1..Len(list) /\ t = list[k]
  BY StateFields DEF Transaction
<1>2. n = [x EXCEPT !.transactions = new]
  BY DEF clear_transaction
<1>d. /\ \A i \in 1..Len(list) : list[i].mid \in M
      /\ \A i, j \in 1..Len(list) : i # j => list[i].mid # list[j].mid
  BY DEF Traffic, Distinct
<1>l. Len(list) <= Transactions
  BY DEF Traffic
<1> HIDE DEF b, x
<1>3. /\ x \in States /\ SameCallbacks(x, s) /\ x.events = s.events
      /\ x.incoming = s.incoming /\ x.transactions = list
      /\ \A c \in Slot : c # b => x.outgoing[c] = s.outgoing[c]
      /\ x.outgoing[b].used => s.outgoing[b].used /\ s.outgoing[b].ref_count > 1
      /\ x.outgoing[b].ref_count = s.outgoing[b].ref_count - 1
  BY <1>1, UnrefFields DEF x
<1>4. meant = {k}
  BY <1>1, <1>3, <1>d
<1>5. new = oc_list_remove(list, meant) /\ meant \in SUBSET DOMAIN list /\ meant # {}
  BY <1>1, <1>3, <1>4
<1> HIDE DEF meant, new, list
<1>6. /\ new \in Seq(Transaction)
      /\ Min(meant) \in meant /\ Shortened(list, new, Min(meant))
  BY <1>1, <1>5, Removed
<1>7. Shortened(list, new, k) /\ new \in Seq(Transaction)
  BY <1>4, <1>6
<1>8. /\ n \in States /\ SameCallbacks(n, x) /\ n.events = x.events
      /\ n.incoming = x.incoming /\ n.transactions = new /\ n.outgoing = x.outgoing
  BY <1>2, <1>3, <1>7 DEF States, SameCallbacks
<1>9. /\ Len(new) + 1 = Len(list)
      /\ \A i \in 1..Len(new) : \E j \in 1..Len(list) \ {k} : new[i] = list[j]
      /\ \A j \in 1..Len(list) \ {k} : \E i \in 1..Len(new) : new[i] = list[j]
      /\ \A i, j \in 1..Len(new) : i # j =>
            \E p, q \in 1..Len(list) \ {k} : p # q /\ new[i] = list[p] /\ new[j] = list[q]
  <2>1. list \in Seq(Transaction) /\ new \in Seq(Transaction) /\ k \in 1..Len(list)
        /\ Shortened(list, new, k)
    BY <1>1, <1>7
  <2> QED BY <2>1, ShortenedHolds
<1>10. Distinct(new, M \ {t.mid})
  <2>1. ASSUME NEW i \in 1..Len(new)
        PROVE  new[i].mid \in M \ {t.mid}
    <3>1. PICK j \in 1..Len(list) \ {k} : new[i] = list[j]
      BY <1>9
    <3> QED BY <1>1, <1>d, <3>1
  <2>2. ASSUME NEW i \in 1..Len(new), NEW j \in 1..Len(new), i # j
        PROVE  new[i].mid # new[j].mid
    <3>1. PICK p \in 1..Len(list) \ {k}, q \in 1..Len(list) \ {k} :
                p # q /\ new[i] = list[p] /\ new[j] = list[q]
      BY <1>9, <2>2
    <3> QED BY <1>d, <3>1
  <2> QED BY <2>1, <2>2 DEF Distinct
<1>11. Distinct(new, M)
  BY <1>10 DEF Distinct
<1>12. Len(new) <= Transactions
  <2>1. Len(new) \in Nat /\ Transactions \in Nat
    BY <1>7, LenProperties, OcMessagingAssumption
  <2> QED BY <1>1, <1>9, <1>l, <2>1
<1>13. OutHeld(n, {})
  <2> SUFFICES ASSUME NEW c \in Slot, n.outgoing[c].used
               PROVE  /\ 1 <= n.outgoing[c].ref_count
                      /\ n.outgoing[c].ref_count <= OutHolders(n, c, {})
    BY DEF OutHeld
  <2>1. s.outgoing[c].used
    BY <1>3, <1>8
  <2>2. 1 <= s.outgoing[c].ref_count /\ s.outgoing[c].ref_count <= OutHolders(s, c, {})
    BY <2>1 DEF Traffic, OutHeld
  <2>3. s.outgoing[c].ref_count \in Int
    BY StateFields DEF OutBuf
  <2>4. Count(s.events, Outbound(c)) \in Nat /\ Count(list, On(c)) \in Nat /\ Count(new, On(c)) \in Nat
    BY <1>8, CountsNat DEF list
  <2>5. Count(list, On(c)) = Count(new, On(c)) + One(t \in On(c))
    <3>1. Count(list, On(c)) = Count(new, On(c)) + One(list[k] \in On(c))
      BY <1>1, <1>7, CountShortened
    <3> QED BY <1>1, <3>1
  <2>6. t \in On(c) <=> c = b
    BY <1>1 DEF On, b
  <2>7. OutHolders(s, c, {}) = Count(s.events, Outbound(c)) + Count(list, On(c))
    BY <2>4 DEF OutHolders, One, list
  <2>8. OutHolders(n, c, {}) = Count(s.events, Outbound(c)) + Count(new, On(c))
    BY <1>3, <1>8, <2>4 DEF OutHolders, One
  <2>9. CASE c = b
    BY SMTT(30), <1>3, <1>8, <2>2, <2>3, <2>4, <2>5, <2>6, <2>7, <2>8, <2>9 DEF One
  <2>10. CASE c # b
    BY <1>3, <1>8, <2>2, <2>3, <2>4, <2>5, <2>6, <2>7, <2>8, <2>10 DEF One
  <2> QED BY <2>9, <2>10
<1>14. Traffic(n, M, hin, {})
  <2>1. Len(n.events) <= QueueSize
    BY <1>3, <1>8 DEF Traffic
  <2> QED BY <1>3, <1>8, <1>11, <1>12, <1>13, <2>1, TrafficParts
<1>15. SameCallbacks(n, s)
  BY <1>3, <1>8 DEF SameCallbacks
<1> QED BY <1>7, <1>8, <1>10, <1>14, <1>15 DEF list

\* A cached transaction is sent and waits for its idle timer.
LEMMA CacheHolds ==
    ASSUME NEW s \in States, NEW M, NEW hin, Traffic(s, M, hin, {}),
           NEW k \in 1..Len(s.transactions), NEW t, t = s.transactions[k],
           NEW n, n = send_transaction(s, t, TRUE)
    PROVE  n \in States /\ SameCallbacks(n, s) /\ Traffic(n, M, hin, {})
<1> DEFINE b == t.message
           x == send_message(message_add_ref(s, b), b)
           kept == [t EXCEPT !.idle = etimer_set(IdleTimeout)]
           new == [i \in DOMAIN x.transactions |-> IF x.transactions[i] = t THEN kept ELSE x.transactions[i]]
<1>1. t \in Transaction /\ b \in Slot
  BY StateFields DEF Transaction
<1>2. n = [x EXCEPT !.transactions = new]
  BY DEF send_transaction
<1>3. kept \in Transaction /\ kept.mid = t.mid /\ kept.message = t.message
  <2> DEFINE idle == etimer_set(IdleTimeout)
  <2>1. idle \in Timer
    BY OcMessagingAssumption DEF Timer, etimer_set
  <2> HIDE DEF idle
  <2>2. kept = [mid |-> t.mid, message |-> t.message, idle |-> idle]
    BY <1>1 DEF Transaction, idle
  <2> QED BY <1>1, <2>1, <2>2 DEF Transaction
<1> HIDE DEF b, x, kept
<1>4. x \in States /\ SameCallbacks(x, s) /\ Traffic(x, M, hin, {}) /\ x.transactions = s.transactions
  BY <1>1, AddRefSendHolds DEF x
<1>5. /\ x.transactions \in Seq(Transaction) /\ Len(x.transactions) \in Nat
      /\ DOMAIN x.transactions = 1..Len(x.transactions)
      /\ \A i \in 1..Len(x.transactions) : x.transactions[i] \in Transaction
  BY <1>4, StateFields
<1>6. new \in [1..Len(x.transactions) -> Transaction]
  BY <1>3, <1>5
<1>7. new \in Seq(Transaction) /\ Len(new) = Len(x.transactions)
  BY <1>5, <1>6, SeqDef
<1>8. \A i \in 1..Len(x.transactions) : /\ new[i].mid = x.transactions[i].mid
                                        /\ new[i].message = x.transactions[i].message
  BY <1>3, <1>5
<1> HIDE DEF new
<1>9. /\ n \in States /\ SameCallbacks(n, x) /\ n.events = x.events
      /\ n.incoming = x.incoming /\ n.outgoing = x.outgoing /\ n.transactions = new
  BY <1>2, <1>4, <1>7 DEF States, SameCallbacks
<1>10. Len(n.events) <= QueueSize
  BY <1>4, <1>9 DEF Traffic
<1>11. Traffic(n, M, hin, {})
  BY <1>4, <1>7, <1>8, <1>9, <1>10, RetimedHolds
<1> QED BY <1>4, <1>9, <1>11 DEF SameCallbacks

\* A transaction that is not cached is sent and ends.
LEMMA SendAndClearHolds ==
    ASSUME NEW s \in States, NEW M, NEW hin, Traffic(s, M, hin, {}),
           NEW k \in 1..Len(s.transactions), NEW t, t = s.transactions[k],
           NEW n, n = send_transaction(s, t, FALSE)
    PROVE  /\ n \in States /\ SameCallbacks(n, s)
           /\ Traffic(n, M, hin, {}) /\ Distinct(n.transactions, M \ {t.mid})
           /\ Shortened(s.transactions, n.transactions, k)
<1> DEFINE b == t.message
           x == send_message(message_add_ref(s, b), b)
<1>1. b \in Slot
  BY StateFields DEF Transaction
<1>2. n = clear_transaction(x, t)
  BY DEF send_transaction
<1> HIDE DEF b, x
<1>3. x \in States /\ SameCallbacks(x, s) /\ Traffic(x, M, hin, {}) /\ x.transactions = s.transactions
  BY <1>1, AddRefSendHolds DEF x
<1>4. k \in 1..Len(x.transactions) /\ t = x.transactions[k]
  BY <1>3
<1>5. /\ n \in States /\ SameCallbacks(n, x)
      /\ Traffic(n, M, hin, {}) /\ Distinct(n.transactions, M \ {t.mid})
      /\ Shortened(x.transactions, n.transactions, k)
  BY <1>2, <1>3, <1>4, ClearHolds
<1> QED BY <1>3, <1>5 DEF SameCallbacks

\* A buffer that is free is taken, and is in hand.
LEMMA AllocateHolds ==
    ASSUME NEW s \in States, NEW M, NEW hin, Traffic(s, M, hin, {}),
           NEW cose \in BOOLEAN, free_slots(s.outgoing) # {},
           NEW b, b = Min(free_slots(s.outgoing)),
           NEW n, n = allocate_outgoing(s, b, cose)
    PROVE  /\ b \in Slot /\ n \in States /\ SameCallbacks(n, s) /\ Traffic(n, M, hin, {b})
           /\ n.events = s.events /\ n.transactions = s.transactions
<1> DEFINE buf == [used |-> TRUE, ref_count |-> 1, cose |-> cose]
           new == [s.outgoing EXCEPT ![b] = buf]
<1>1. b \in Slot
  <2>1. free_slots(s.outgoing) \in SUBSET Nat
    BY OcMessagingAssumption DEF free_slots, Slot
  <2>2. b \in free_slots(s.outgoing)
    BY <2>1, Least
  <2> QED BY <2>2 DEF free_slots
<1>2. n = [s EXCEPT !.outgoing = new]
  BY DEF allocate_outgoing
<1>3. buf \in OutBuf /\ buf.ref_count = 1
  BY DEF OutBuf
<1> HIDE DEF buf
<1>4. new \in [Slot -> OutBuf] /\ \A c \in Slot : new[c] = IF c = b THEN buf ELSE s.outgoing[c]
  BY <1>1, <1>3, OneOut
<1> HIDE DEF new
<1>5. /\ n \in States /\ SameCallbacks(n, s) /\ n.events = s.events
      /\ n.incoming = s.incoming /\ n.transactions = s.transactions
      /\ n.outgoing = new
  BY <1>2, <1>4, OutFields
<1>6. Traffic(s, M, hin, {b})
  BY InHand
<1>7. OutHeld(n, {b})
  <2> SUFFICES ASSUME NEW c \in Slot, n.outgoing[c].used
               PROVE  /\ 1 <= n.outgoing[c].ref_count
                      /\ n.outgoing[c].ref_count <= OutHolders(n, c, {b})
    BY DEF OutHeld
  <2>1. OutHolders(n, c, {b}) = OutHolders(s, c, {b})
    BY <1>5 DEF OutHolders
  <2>2. CASE c = b
    <3>1. Count(s.events, Outbound(c)) \in Nat /\ Count(s.transactions, On(c)) \in Nat
      BY CountsNat
    <3>2. OutHolders(s, c, {b}) >= 1
      BY <2>2, <3>1 DEF OutHolders, One
    <3> QED BY <1>3, <1>4, <1>5, <2>1, <2>2, <3>2
  <2>3. CASE c # b
    BY <1>4, <1>5, <1>6, <2>1, <2>3 DEF Traffic, OutHeld
  <2> QED BY <2>2, <2>3
<1>8. Traffic(n, M, hin, {b})
  BY <1>5, <1>7, TrafficParts DEF Traffic
<1> QED BY <1>1, <1>5, <1>8

\* A transaction is opened for a message ID that none has.
LEMMA OpenHolds ==
    ASSUME NEW s \in States, NEW M, NEW hin, Traffic(s, M, hin, {}),
           NEW mid \in AnyMid, mid \notin M, NEW cose \in BOOLEAN,
           can_open_transaction(s),
           NEW n, n = new_transaction(s, mid, cose)
    PROVE  /\ n \in States /\ SameCallbacks(n, s) /\ Traffic(n, M \cup {mid}, hin, {})
           /\ Len(n.transactions) \in 1..Len(n.transactions) /\ Last(n.transactions).mid = mid
<1> DEFINE b == Min(free_slots(s.outgoing))
           x == allocate_outgoing(s, b, cose)
           t == [mid |-> mid, message |-> b, idle |-> etimer_stopped]
           list == s.transactions
           new == Append(list, t)
           c == Len(list) + 1
<1>1. free_slots(s.outgoing) # {} /\ Len(list) < Transactions
  BY DEF can_open_transaction
<1>2. n = [x EXCEPT !.transactions = Append(@, t)]
  BY DEF new_transaction
<1> HIDE DEF b, x
<1>3. /\ b \in Slot /\ x \in States /\ SameCallbacks(x, s) /\ Traffic(x, M, hin, {b})
      /\ x.events = s.events /\ x.transactions = list
  <2>1. b = Min(free_slots(s.outgoing)) /\ x = allocate_outgoing(s, b, cose)
    BY DEF b, x
  <2>2. /\ b \in Slot /\ x \in States /\ SameCallbacks(x, s) /\ Traffic(x, M, hin, {b})
        /\ x.events = s.events /\ x.transactions = s.transactions
    <3>1. /\ s \in States /\ Traffic(s, M, hin, {})
          /\ cose \in BOOLEAN /\ free_slots(s.outgoing) # {}
      BY <1>1
    <3>2. \A bb, xx : /\ bb = Min(free_slots(s.outgoing))
                      /\ xx = allocate_outgoing(s, bb, cose)
                      => /\ bb \in Slot /\ xx \in States /\ SameCallbacks(xx, s) /\ Traffic(xx, M, hin, {bb})
                         /\ xx.events = s.events /\ xx.transactions = s.transactions
      BY <3>1, AllocateHolds
    <3> QED BY <2>1, <3>2
  <2> QED BY <2>2
<1>4. t \in Transaction /\ t.mid = mid /\ t.message = b
  BY <1>3, OcMessagingAssumption DEF Transaction, Timer, etimer_stopped
<1>5. list \in Seq(Transaction) /\ Len(list) \in Nat /\ Transactions \in Nat
  BY StateFields, OcMessagingAssumption
<1>6. n = [x EXCEPT !.transactions = new]
  BY <1>2, <1>3
<1>d. /\ \A i \in 1..Len(list) : list[i].mid \in M
      /\ \A i, j \in 1..Len(list) : i # j => list[i].mid # list[j].mid
  BY DEF Traffic, Distinct
<1> HIDE DEF t, list
<1>7. /\ new \in Seq(Transaction) /\ Len(new) = c
      /\ \A i \in 1..Len(list) : new[i] = list[i]
      /\ new[c] = t
  BY <1>4, <1>5, AppendProperties
<1>8. \A S : Count(new, S) = Count(list, S) + One(t \in S)
  BY <1>4, <1>5, CountAppend
<1> HIDE DEF new
<1>9. /\ n \in States /\ SameCallbacks(n, x) /\ n.events = x.events
      /\ n.incoming = x.incoming /\ n.outgoing = x.outgoing /\ n.transactions = new
  BY <1>3, <1>6, <1>7 DEF States, SameCallbacks
<1>10. OutHeld(n, {})
  <2> SUFFICES ASSUME NEW d \in Slot, x.outgoing[d].used
               PROVE  /\ 1 <= x.outgoing[d].ref_count
                      /\ x.outgoing[d].ref_count <= OutHolders(n, d, {})
    BY <1>9 DEF OutHeld
  <2>1. 1 <= x.outgoing[d].ref_count /\ x.outgoing[d].ref_count <= OutHolders(x, d, {b})
    BY <1>3 DEF Traffic, OutHeld
  <2>2. Count(x.events, Outbound(d)) \in Nat /\ Count(list, On(d)) \in Nat
    BY <1>3, CountsNat
  <2>3. Count(new, On(d)) = Count(list, On(d)) + One(d = b)
    <3>1. t \in On(d) <=> d = b
      BY <1>4 DEF On
    <3> QED BY <1>8, <3>1 DEF One
  <2>4. One(d = b) \in Nat
    BY DEF One
  <2>5. OutHolders(n, d, {}) = Count(x.events, Outbound(d)) + (Count(list, On(d)) + One(d = b))
    BY <1>9, <2>2, <2>3, <2>4 DEF OutHolders, One
  <2>6. OutHolders(x, d, {b}) = Count(x.events, Outbound(d)) + Count(list, On(d)) + One(d = b)
    BY <1>3 DEF OutHolders, One
  <2>7. OutHolders(n, d, {}) = OutHolders(x, d, {b})
    BY <2>2, <2>4, <2>5, <2>6
  <2> QED BY <2>1, <2>7
<1>11. \A i \in 1..c : i \in 1..Len(list) \/ i = c
  BY <1>5
<1>12. Distinct(new, M \cup {mid})
  <2>1. ASSUME NEW i \in 1..c
        PROVE  new[i].mid \in M \cup {mid}
    BY <1>4, <1>7, <1>11, <1>d
  <2>2. ASSUME NEW i \in 1..c, NEW j \in 1..c, i # j
        PROVE  new[i].mid # new[j].mid
    <3>1. CASE i \in 1..Len(list) /\ j \in 1..Len(list)
      BY <1>7, <1>d, <2>2, <3>1
    <3>2. CASE i \in 1..Len(list) /\ j = c
      BY <1>4, <1>7, <1>d, <3>2
    <3>3. CASE i = c /\ j \in 1..Len(list)
      BY <1>4, <1>7, <1>d, <3>3
    <3> QED BY <1>11, <2>2, <3>1, <3>2, <3>3
  <2> QED BY <1>7, <2>1, <2>2 DEF Distinct
<1>13. Len(new) <= Transactions
  BY <1>1, <1>5, <1>7 DEF list
<1>14. Traffic(n, M \cup {mid}, hin, {})
  <2>1. Len(n.events) <= QueueSize
    BY <1>3, <1>9 DEF Traffic
  <2> QED BY <1>3, <1>9, <1>10, <1>12, <1>13, <2>1, TrafficParts
<1>15. Len(new) \in 1..Len(new) /\ Last(new).mid = mid
  BY <1>4, <1>5, <1>7 DEF Last
<1> QED BY <1>3, <1>9, <1>14, <1>15 DEF SameCallbacks

(***************************************************************************)
(* The CoAP engine.  hin, hout: the buffers that the handler has in hand.  *)
(***************************************************************************)
(* The message IDs that transactions may have after m requests.            *)
Used(m) == 1..m \cup AnswerMids

Sound(s, m, hin, hout) == s \in States /\ Traffic(s, Used(m), hin, hout) /\ Callbacks(s, m)

\* An operation on the traffic leaves the callbacks sound.
LEMMA SoundTraffic ==
    ASSUME NEW s, NEW n, NEW m, NEW hin, NEW hout, NEW hnew, Sound(s, m, hin, hout),
           n \in States, SameCallbacks(n, s), Traffic(n, Used(m), hin, hnew)
    PROVE  Sound(n, m, hin, hnew)
BY SameCallbacksHold DEF Sound

\* An operation on callbacks leaves the traffic sound.
LEMMA SoundCallbacks ==
    ASSUME NEW s, NEW n, NEW m, NEW hin, NEW hout, Sound(s, m, hin, hout),
           n \in States, SameTraffic(n, s), Callbacks(n, m)
    PROVE  Sound(n, m, hin, hout)
BY SameTrafficHolds DEF Sound

\* An error or a nonce sync is answered.
LEMMA EmptyResponseSound ==
    ASSUME NEW s, NEW m, NEW hin, Sound(s, m, hin, {}), NEW n, n = send_empty_response(s)
    PROVE  Sound(n, m, hin, {})
<1> DEFINE b == Min(free_slots(s.outgoing))
           x == allocate_outgoing(s, b, FALSE)
<1>1. n = IF free_slots(s.outgoing) = {} THEN s ELSE send_or_free(x, b)
  BY DEF send_empty_response
<1>2. CASE free_slots(s.outgoing) = {}
  BY <1>1, <1>2
<1>3. CASE free_slots(s.outgoing) # {}
  <2>1. b = Min(free_slots(s.outgoing)) /\ x = allocate_outgoing(s, b, FALSE)
    OBVIOUS
  <2> HIDE DEF b, x
  <2>2. /\ s \in States /\ Traffic(s, Used(m), hin, {})
        /\ FALSE \in BOOLEAN /\ free_slots(s.outgoing) # {}
    BY <1>3 DEF Sound
  <2>3. \A bb, xx : /\ bb = Min(free_slots(s.outgoing))
                    /\ xx = allocate_outgoing(s, bb, FALSE)
                    => bb \in Slot /\ xx \in States /\ SameCallbacks(xx, s) /\ Traffic(xx, Used(m), hin, {bb})
    BY <2>2, AllocateHolds
  <2>4. b \in Slot /\ x \in States /\ SameCallbacks(x, s) /\ Traffic(x, Used(m), hin, {b})
    BY <2>1, <2>3
  <2>5. n \in States /\ SameCallbacks(n, x) /\ Traffic(n, Used(m), hin, {})
    BY <1>1, <1>3, <2>4, SendOrFreeHolds
  <2>6. SameCallbacks(n, s)
    BY <2>4, <2>5 DEF SameCallbacks
  <2> QED BY <2>5, <2>6, SoundTraffic
<1> QED BY <1>2, <1>3

\* The transaction a message ID names is in the list.
LEMMA ByMid ==
    ASSUME NEW s \in States, NEW mid, transactions_by_mid(s, mid) # {},
           NEW t, t = CHOOSE u \in transactions_by_mid(s, mid) : TRUE
    PROVE  \E k \in 1..Len(s.transactions) : t = s.transactions[k]
<1>1. t \in transactions_by_mid(s, mid)
  OBVIOUS
<1>2. DOMAIN s.transactions = 1..Len(s.transactions)
  BY StateFields
<1> QED BY <1>1, <1>2 DEF transactions_by_mid, ToSet

\* An answer ends its transaction.
LEMMA ClearByMidSound ==
    ASSUME NEW s, NEW m, NEW hin, Sound(s, m, hin, {}), NEW mid, NEW n, n = clear_by_mid(s, mid)
    PROVE  Sound(n, m, hin, {})
<1> DEFINE t == CHOOSE u \in transactions_by_mid(s, mid) : TRUE
<1>1. n = IF transactions_by_mid(s, mid) = {} THEN s ELSE clear_transaction(s, t)
  BY DEF clear_by_mid
<1>2. CASE transactions_by_mid(s, mid) = {}
  BY <1>1, <1>2
<1>3. CASE transactions_by_mid(s, mid) # {}
  <2>1. s \in States /\ Traffic(s, Used(m), hin, {})
    BY DEF Sound
  <2>2. PICK k \in 1..Len(s.transactions) : t = s.transactions[k]
    BY <1>3, <2>1, ByMid
  <2> HIDE DEF t
  <2>3. n \in States /\ SameCallbacks(n, s) /\ Traffic(n, Used(m), hin, {})
    BY <1>1, <1>3, <2>1, <2>2, ClearHolds
  <2> QED BY <2>3, SoundTraffic
<1> QED BY <1>2, <1>3

\* A nonce sync: the cached request is sent again in its own buffer.
LEMMA PreviousRequestSound ==
    ASSUME NEW s, NEW m, NEW hin, Sound(s, m, hin, {}), NEW mid,
           NEW n, n = send_previous_request(s, mid)
    PROVE  Sound(n, m, hin, {})
<1> DEFINE t == CHOOSE u \in transactions_by_mid(s, mid) : TRUE
<1>1. n = IF transactions_by_mid(s, mid) = {} THEN s
          ELSE IF ~s.outgoing[t.message].cose THEN clear_transaction(s, t)
               ELSE send_or_free(s, t.message)
  BY DEF send_previous_request
<1>2. CASE transactions_by_mid(s, mid) = {}
  BY <1>1, <1>2
<1>3. CASE transactions_by_mid(s, mid) # {}
  <2>1. s \in States /\ Traffic(s, Used(m), hin, {})
    BY DEF Sound
  <2>2. PICK k \in 1..Len(s.transactions) : t = s.transactions[k]
    BY <1>3, <2>1, ByMid
  <2> HIDE DEF t
  <2>3. CASE ~s.outgoing[t.message].cose
    <3>1. n \in States /\ SameCallbacks(n, s) /\ Traffic(n, Used(m), hin, {})
      BY <1>1, <1>3, <2>1, <2>2, <2>3, ClearHolds
    <3> QED BY <3>1, SoundTraffic
  <2>4. CASE s.outgoing[t.message].cose
    <3> DEFINE b == t.message
    <3>1. b \in Slot
      BY <2>1, <2>2, StateFields DEF Transaction
    <3>2. n = send_or_free(s, b)
      BY <1>1, <1>3, <2>4
    <3> HIDE DEF b
    <3>3. Traffic(s, Used(m), hin, {b})
      BY <2>1, InHand
    <3>4. n \in States /\ SameCallbacks(n, s) /\ Traffic(n, Used(m), hin, {})
      BY <2>1, <3>1, <3>2, <3>3, SendOrFreeHolds
    <3> QED BY <3>4, SoundTraffic
  <2> QED BY <2>3, <2>4
<1> QED BY <1>2, <1>3

\* There is an ID left for the answer that no open transaction has.
LEMMA AnswerMidFree ==
    ASSUME NEW s \in States, Len(s.transactions) < Transactions, NEW a, a = answer_mid(s)
    PROVE  a \in AnswerMids /\ \A i \in 1..Len(s.transactions) : s.transactions[i].mid # a
<1> DEFINE list == s.transactions
           open == {t.mid : t \in ToSet(list)}
           f == [i \in 1..Len(list) |-> list[i].mid]
<1>1. Len(list) \in Nat /\ DOMAIN list = 1..Len(list) /\ Transactions \in Nat /\ MaxRequests \in Nat
  BY StateFields, OcMessagingAssumption
<1>2. open = {f[i] : i \in 1..Len(list)}
  BY <1>1 DEF ToSet
<1>3. /\ IsFiniteSet(1..Len(list)) /\ Cardinality(1..Len(list)) = Len(list)
      /\ IsFiniteSet(AnswerMids) /\ Cardinality(AnswerMids) = Transactions
  <2>1. \A c, d \in Int : /\ IsFiniteSet(c..d)
                           /\ Cardinality(c..d) = IF c > d THEN 0 ELSE d - c + 1
    BY FS_Interval
  <2>2. Len(list) = IF 1 > Len(list) THEN 0 ELSE Len(list) - 1 + 1
    BY <1>1
  <2>3. Transactions = IF MaxRequests + 1 > MaxRequests + Transactions THEN 0
                       ELSE (MaxRequests + Transactions) - (MaxRequests + 1) + 1
    BY <1>1, OcMessagingAssumption
  <2>4. 1 \in Int /\ Len(list) \in Int /\ MaxRequests + 1 \in Int /\ MaxRequests + Transactions \in Int
    BY <1>1
  <2>5. IsFiniteSet(1..Len(list)) /\ Cardinality(1..Len(list)) = Len(list)
    <3> HIDE DEF list
    <3> QED BY <2>1, <2>2, <2>4
  <2> DEFINE c == MaxRequests + 1
             d == MaxRequests + Transactions
  <2>6. AnswerMids = c..d /\ c \in Int /\ d \in Int
        /\ Transactions = IF c > d THEN 0 ELSE d - c + 1
    BY <2>3, <2>4 DEF AnswerMids
  <2> HIDE DEF c, d
  <2>7. IsFiniteSet(AnswerMids) /\ Cardinality(AnswerMids) = Transactions
    BY <2>1, <2>6
  <2> QED BY <2>5, <2>7
<1>4. IsFiniteSet(open) /\ Cardinality(open) <= Len(list) /\ Cardinality(open) \in Nat
  <2>1. f \in Surjection(1..Len(list), open)
    BY <1>2 DEF Surjection
  <2> HIDE DEF f, open
  <2>2. IsFiniteSet(open) /\ Cardinality(open) <= Cardinality(1..Len(list))
    BY <1>3, <2>1, FS_Surjection
  <2> QED BY <1>3, <2>2, FS_CardinalityType
<1>5. AnswerMids \ open # {}
  <2> SUFFICES ASSUME AnswerMids \subseteq open
               PROVE  FALSE
    BY <1>1
  <2>1. Cardinality(AnswerMids) <= Cardinality(open)
    <3> HIDE DEF open
    <3> QED BY <1>4, FS_Subset
  <2> QED BY <1>1, <1>3, <1>4, <2>1
<1>6. AnswerMids \ open \in SUBSET Nat /\ a = Min(AnswerMids \ open)
  BY <1>1 DEF AnswerMids, answer_mid
<1>7. a \in AnswerMids \ open
  <2> HIDE DEF open
  <2> QED BY <1>5, <1>6, Least
<1>8. \A i \in 1..Len(list) : list[i].mid \in open
  BY <1>1 DEF ToSet
<1> QED BY <1>7, <1>8

\* The transaction of an answer ends, sent or not, or is left open.
LEMMA FinishHolds ==
    ASSUME NEW s \in States, NEW M, NEW hin, Traffic(s, M, hin, {}),
           NEW k \in 1..Len(s.transactions), NEW t, t = s.transactions[k],
           NEW outcome \in Outcomes, NEW n, n = finish_answer(s, t, outcome)
    PROVE  n \in States /\ SameCallbacks(n, s) /\ Traffic(n, M, hin, {})
<1>1. CASE outcome = "sent"
  <2>1. n = send_transaction(s, t, FALSE)
    BY <1>1 DEF finish_answer
  <2> QED BY <2>1, SendAndClearHolds
<1>2. CASE outcome = "dropped"
  <2>1. n = clear_transaction(s, t)
    BY <1>2 DEF finish_answer
  <2> QED BY <2>1, ClearHolds
<1>3. CASE outcome = "tokenless"
  <2>1. n = s
    BY <1>3 DEF finish_answer
  <2> QED BY <2>1 DEF SameCallbacks
<1>4. CASE outcome = "unsecurable"
  <2> DEFINE b == t.message
             x == clear_transaction(s, t)
             y == send_message(message_add_ref(x, b), b)
             z == message_unref_out(y, b)
             meant == {i \in DOMAIN z.transactions : z.transactions[i] = t}
  <2>1. n = clear_transaction(y, t)
    BY <1>4 DEF finish_answer, send_transaction
  <2>2. b \in Slot
    BY StateFields DEF Transaction
  <2>3. n = [z EXCEPT !.transactions = oc_list_remove(z.transactions, meant)]
    BY <2>1 DEF clear_transaction
  <2>4. x \in States /\ SameCallbacks(x, s) /\ Traffic(x, M, hin, {}) /\ Distinct(x.transactions, M \ {t.mid})
    BY ClearHolds
  <2> HIDE DEF b, x
  <2>5. /\ y \in States /\ SameCallbacks(y, x) /\ Traffic(y, M, hin, {})
        /\ y.transactions = x.transactions
    BY <2>2, <2>4, AddRefSendHolds
  <2> HIDE DEF y
  <2>6. z \in States /\ SameCallbacks(z, y) /\ Traffic(z, M, hin, {})
    <3>1. Traffic(y, M, hin, {b})
      BY <2>5, InHand
    <3> QED BY <2>2, <2>5, <3>1, UnrefHolds
  <2>7. z.transactions = y.transactions
    BY <2>2, <2>5, UnrefFields
  <2> HIDE DEF z
  <2>8. meant = {}
    <3>1. DOMAIN z.transactions = 1..Len(x.transactions)
      BY <2>4, <2>5, <2>7, StateFields
    <3>2. \A i \in 1..Len(x.transactions) : x.transactions[i].mid # t.mid
      BY <2>4 DEF Distinct
    <3> QED BY <2>5, <2>7, <3>1, <3>2
  <2>9. oc_list_remove(z.transactions, meant) = z.transactions
    BY <2>8 DEF oc_list_remove
  <2> HIDE DEF meant
  <2>10. n = z
    BY <2>3, <2>6, <2>9 DEF States
  <2>11. SameCallbacks(z, s)
    BY <2>4, <2>5, <2>6 DEF SameCallbacks
  <2> QED BY <2>6, <2>10, <2>11
<1> QED BY <1>1, <1>2, <1>3, <1>4 DEF Outcomes

\* A request of another device: a transaction is opened for the answer.
LEMMA ServeSound ==
    ASSUME NEW s, NEW m \in Nat, NEW hin, Sound(s, m, hin, {}), NEW outcome \in Outcomes,
           NEW n, n = serve_request(s, outcome)
    PROVE  Sound(n, m, hin, {})
<1> DEFINE a == answer_mid(s)
           x == new_transaction(s, a, FALSE)
           t == Last(x.transactions)
           M == Used(m) \ {a}
<1>1. n = IF can_open_transaction(s) THEN finish_answer(x, t, outcome) ELSE s
  BY DEF serve_request
<1>2. CASE ~can_open_transaction(s)
  BY <1>1, <1>2
<1>3. CASE can_open_transaction(s)
  <2>1. s \in States /\ Traffic(s, Used(m), hin, {})
    BY DEF Sound
  <2>2. a \in AnswerMids /\ \A i \in 1..Len(s.transactions) : s.transactions[i].mid # a
    <3>1. Len(s.transactions) < Transactions
      BY <1>3 DEF can_open_transaction
    <3> QED BY <2>1, <3>1, AnswerMidFree
  <2> HIDE DEF a
  <2>3. a \in AnyMid /\ a \notin M /\ M \cup {a} = Used(m)
    BY <2>2, OcMessagingAssumption DEF Used, AnswerMids, AnyMid, Foreign
  <2>4. Traffic(s, M, hin, {})
    <3>1. Distinct(s.transactions, M)
      BY <2>1, <2>2 DEF Traffic, Distinct
    <3> HIDE DEF M
    <3> QED BY <2>1, <3>1 DEF Traffic
  <2> HIDE DEF M
  <2>5. \A co \in BOOLEAN : \A xx : xx = new_transaction(s, a, co) =>
            /\ xx \in States /\ SameCallbacks(xx, s) /\ Traffic(xx, M \cup {a}, hin, {})
            /\ Len(xx.transactions) \in 1..Len(xx.transactions) /\ Last(xx.transactions).mid = a
    <3> HIDE DEF x, t
    <3> QED BY SMTT(30), <1>3, <2>1, <2>3, <2>4, OpenHolds
  <2>6. /\ x \in States /\ SameCallbacks(x, s) /\ Traffic(x, Used(m), hin, {})
        /\ Len(x.transactions) \in 1..Len(x.transactions)
    BY <2>3, <2>5
  <2> DEFINE k == Len(x.transactions)
  <2>7. k \in 1..Len(x.transactions) /\ t = x.transactions[k]
    BY <2>6 DEF Last
  <2> HIDE DEF x, k, t
  <2>8. n \in States /\ SameCallbacks(n, x) /\ Traffic(n, Used(m), hin, {})
    <3>1. n = finish_answer(x, t, outcome)
      BY <1>1, <1>3
    <3> QED BY <2>6, <2>7, <3>1, FinishHolds
  <2>9. SameCallbacks(n, s)
    BY <2>6, <2>8 DEF SameCallbacks
  <2> QED BY <2>8, <2>9, SoundTraffic
<1> QED BY <1>2, <1>3

\* A response ends the request its token names, unless it must be secured and is not.
LEMMA DeliverSound ==
    ASSUME NEW s, NEW m \in Nat, NEW hin, Sound(s, m, hin, {}), NEW msg,
           NEW n, n = deliver_response(s, msg)
    PROVE  Sound(n, m, hin, {})
<1> DEFINE mine == {i \in DOMAIN s.client_cbs : s.client_cbs[i].token = msg.token}
           k == Min(mine)
           cb == s.client_cbs[k]
<1>1. n = IF mine = {} \/ (cb.secured /\ ~msg.secured) THEN s ELSE invoke_client_cb(s, cb)
  BY DEF deliver_response
<1>2. CASE mine = {} \/ (cb.secured /\ ~msg.secured)
  BY <1>1, <1>2
<1>3. CASE ~(mine = {} \/ (cb.secured /\ ~msg.secured))
  <2>1. s \in States /\ Callbacks(s, m)
    BY DEF Sound
  <2>2. mine \in SUBSET (1..Len(s.client_cbs)) /\ mine \in SUBSET Nat /\ mine # {}
    BY <1>3, <2>1, StateFields
  <2>3. n = invoke_client_cb(s, s.client_cbs[k])
    BY <1>1, <1>3
  <2> HIDE DEF mine
  <2>4. k \in 1..Len(s.client_cbs)
    BY <2>2, Least
  <2> HIDE DEF k
  <2>5. n \in States /\ SameTraffic(n, s) /\ Callbacks(n, m)
    BY <2>1, <2>3, <2>4, NotifyHolds
  <2> QED BY <2>5, SoundCallbacks
<1> QED BY <1>2, <1>3

\* Whatever message arrives.
LEMMA ReceiveSound ==
    ASSUME NEW s, NEW m \in Nat, NEW hin, Sound(s, m, hin, {}), NEW msg \in AnyMessage,
           NEW n, n = coap_receive(s, msg)
    PROVE  Sound(n, m, hin, {})
<1>1. msg.kind \in Kinds
  BY DEF AnyMessage, Kinds
<1>2. CASE msg.kind = "refused"
  <2>1. n = send_empty_response(s)
    BY <1>2 DEF coap_receive
  <2> QED BY <2>1, EmptyResponseSound
<1>3. CASE msg.kind = "sync"
  <2>1. n = send_previous_request(s, msg.mid)
    BY <1>3 DEF coap_receive
  <2> QED BY <2>1, PreviousRequestSound
<1>4. CASE msg.kind = "request"
  <2> DEFINE x == clear_by_mid(s, msg.mid)
  <2>1. n = serve_request(x, msg.outcome)
    BY <1>4 DEF coap_receive
  <2>2. Sound(x, m, hin, {})
    BY ClearByMidSound
  <2>3. msg.outcome \in Outcomes
    BY <1>4 DEF AnyMessage
  <2> HIDE DEF x
  <2> QED BY <2>1, <2>2, <2>3, ServeSound
<1>5. CASE msg.kind = "response"
  <2> DEFINE x == clear_by_mid(s, msg.mid)
  <2>1. n = deliver_response(x, msg)
    BY <1>5 DEF coap_receive
  <2>2. Sound(x, m, hin, {})
    BY ClearByMidSound
  <2> HIDE DEF x
  <2> QED BY <2>1, <2>2, DeliverSound
<1> QED BY <1>1, <1>2, <1>3, <1>4, <1>5 DEF Kinds

\* One transaction whose timer may have run out.
LEMMA CheckTransactionSound ==
    ASSUME NEW s, NEW m \in Nat, NEW hin, Sound(s, m, hin, {}),
           NEW k \in 1..Len(s.transactions), NEW t, t = s.transactions[k],
           NEW n, n = check_transaction(s, t)
    PROVE  Sound(n, m, hin, {}) /\ Shortened(s.transactions, n.transactions, k)
<1>0. s \in States /\ Traffic(s, Used(m), hin, {}) /\ Callbacks(s, m)
  BY DEF Sound
<1>1. CASE etimer_expired(t.idle)
  <2> DEFINE x == free_client_cbs_by_mid(s, t.mid)
  <2>1. n = clear_transaction(x, t)
    BY <1>1 DEF check_transaction
  <2>2. x \in States /\ SameTraffic(x, s) /\ Callbacks(x, m)
    BY <1>0, FreeByMidHolds
  <2> HIDE DEF x
  <2>3. Sound(x, m, hin, {}) /\ x.transactions = s.transactions /\ Traffic(x, Used(m), hin, {})
    BY <2>2, SoundCallbacks DEF SameTraffic, Sound
  <2>4. k \in 1..Len(x.transactions) /\ t = x.transactions[k]
    BY <2>3
  <2>5. /\ n \in States /\ SameCallbacks(n, x) /\ Traffic(n, Used(m), hin, {})
        /\ Shortened(x.transactions, n.transactions, k)
    BY <2>1, <2>2, <2>3, <2>4, ClearHolds
  <2> QED BY <2>3, <2>5, SoundTraffic
<1>2. CASE ~etimer_expired(t.idle)
  <2>1. n = send_transaction(s, t, FALSE)
    BY <1>2 DEF check_transaction
  <2>2. /\ n \in States /\ SameCallbacks(n, s) /\ Traffic(n, Used(m), hin, {})
        /\ Shortened(s.transactions, n.transactions, k)
    BY <1>0, <2>1, SendAndClearHolds
  <2> QED BY <2>2, SoundTraffic
<1> QED BY <1>1, <1>2

\* The loop over the transactions has a value at every step.
TransWalk(s, list, g, n) ==
    g = [i \in 0..n |-> IF i = 0 THEN s ELSE check_transaction(g[i - 1], list[i])]

\* By least counterexample on its length.
LEMMA TransWalkExists ==
    ASSUME NEW s, NEW list, NEW n \in Nat
    PROVE  \E g : TransWalk(s, list, g, n)
<1> DEFINE T == {k \in Nat : ~\E g : TransWalk(s, list, g, k)}
<1> SUFFICES ASSUME T # {}
             PROVE  FALSE
  OBVIOUS
<1> DEFINE k == Min(T)
<1>1. k \in T /\ \A j \in T : k <= j
  <2>1. T \in SUBSET Nat
    OBVIOUS
  <2> HIDE DEF T
  <2> QED BY <2>1, Least
<1>2. k \in Nat /\ ~\E g : TransWalk(s, list, g, k)
  BY <1>1
<1> HIDE DEF k
<1>3. CASE k = 0
  <2> DEFINE g == [i \in 0..0 |-> s]
  <2>1. TransWalk(s, list, g, 0)
    BY DEF TransWalk
  <2> QED BY <1>2, <1>3, <2>1
<1>4. CASE k # 0
  <2>1. k - 1 \in Nat /\ k - 1 \notin T
    BY <1>1, <1>2, <1>4
  <2>2. PICK g : TransWalk(s, list, g, k - 1)
    BY <2>1
  <2> DEFINE h == [i \in 0..k |-> IF i = k THEN check_transaction(g[k - 1], list[k]) ELSE g[i]]
             body(i) == IF i = 0 THEN s ELSE check_transaction(h[i - 1], list[i])
  <2>3. \A i \in 0..(k - 1) : g[i] = IF i = 0 THEN s ELSE check_transaction(g[i - 1], list[i])
    BY <2>2 DEF TransWalk
  <2>4. ASSUME NEW i \in 0..k
        PROVE  h[i] = body(i)
    <3>1. CASE i = k
      BY <1>2, <1>4, <3>1
    <3>2. CASE i # k
      <4>1. i \in 0..(k - 1) /\ h[i] = g[i]
        BY <1>2, <3>2
      <4>2. CASE i = 0
        BY <2>3, <4>1, <4>2
      <4>3. CASE i # 0
        <5>1. h[i - 1] = g[i - 1]
          BY <1>2, <3>2, <4>3
        <5> QED BY <2>3, <4>1, <4>3, <5>1
      <4> QED BY <4>2, <4>3
    <3> QED BY <3>1, <3>2
  <2>5. h = [i \in 0..k |-> h[i]]
    OBVIOUS
  <2> HIDE DEF h
  <2>6. TransWalk(s, list, h, k)
    BY <2>4, <2>5 DEF TransWalk
  <2> QED BY <1>2, <2>6
<1> QED BY <1>3, <1>4

\* Every transaction whose timer ran out has ended; each is still in the list when its turn comes.
LEMMA CheckTransactionsSound ==
    ASSUME NEW s, NEW m \in Nat, NEW hin, Sound(s, m, hin, {}), NEW n, n = check_transactions(s)
    PROVE  Sound(n, m, hin, {})
<1> DEFINE list == s.transactions
           after == CHOOSE g : TransWalk(s, list, g, Len(list))
           Left(x, i) == \A j \in (i + 1)..Len(list) :
                            \E p \in 1..Len(x.transactions) : x.transactions[p] = list[j]
           Good(i) == Sound(after[i], m, hin, {}) /\ Left(after[i], i)
           T == {k \in 0..Len(list) : ~Good(k)}
<1>1. /\ list \in Seq(Transaction) /\ Len(list) \in Nat /\ s \in States
      /\ \A i, j \in 1..Len(list) : i # j => list[i] # list[j]
  BY StateFields DEF Sound, Traffic, Distinct
<1>2. TransWalk(s, list, after, Len(list))
  BY <1>1, TransWalkExists
<1>3. n = after[Len(list)]
  BY DEF check_transactions, TransWalk
<1> HIDE DEF after
<1>4. \A k \in 0..Len(list) : after[k] = IF k = 0 THEN s ELSE check_transaction(after[k - 1], list[k])
  BY <1>2 DEF TransWalk
<1>5. Good(0)
  <2>1. after[0] = s
    BY <1>1, <1>4
  <2>2. Left(s, 0)
    BY <1>1
  <2> HIDE DEF Left
  <2> QED BY <2>1, <2>2
<1>6. T = {}
  <2> SUFFICES ASSUME T # {}
               PROVE  FALSE
    OBVIOUS
  <2> DEFINE k == Min(T)
  <2>1. k \in T /\ \A j \in T : k <= j
    <3>1. T \in SUBSET Nat
      BY <1>1
    <3> HIDE DEF T
    <3> QED BY <3>1, Least
  <2> HIDE DEF k
  <2>2. k \in 0..Len(list) /\ ~Good(k)
    BY <2>1
  <2>3. k # 0
    <3> HIDE DEF Good
    <3> QED BY <1>5, <2>2
  <2>4. k - 1 \in 0..Len(list) /\ k - 1 \notin T /\ k \in 1..Len(list)
    BY <1>1, <2>1, <2>2, <2>3
  <2> DEFINE x == after[k - 1]
             y == after[k]
             t == list[k]
  <2>5. Sound(x, m, hin, {}) /\ Left(x, k - 1)
    BY <2>4
  <2>6. y = check_transaction(x, t)
    BY <1>4, <2>2, <2>3
  <2>7. x \in States
    BY <2>5 DEF Sound
  <2> HIDE DEF x, y
  <2>8. PICK p \in 1..Len(x.transactions) : x.transactions[p] = t
    BY <1>1, <2>4, <2>5
  <2>9. Sound(y, m, hin, {}) /\ Shortened(x.transactions, y.transactions, p)
    <3> HIDE DEF t
    <3> QED BY <2>5, <2>6, <2>8, CheckTransactionSound
  <2>10. x.transactions \in Seq(Transaction) /\ y.transactions \in Seq(Transaction)
    BY <2>7, <2>9, StateFields DEF Sound
  <2>11. \A q \in 1..Len(x.transactions) \ {p} :
            \E i \in 1..Len(y.transactions) : y.transactions[i] = x.transactions[q]
    <3> DEFINE xs == x.transactions
               ys == y.transactions
    <3>1. xs \in Seq(Transaction) /\ ys \in Seq(Transaction) /\ p \in 1..Len(xs) /\ Shortened(xs, ys, p)
      BY <2>8, <2>9, <2>10
    <3> HIDE DEF xs, ys
    <3>2. /\ Len(ys) + 1 = Len(xs)
          /\ \A i \in 1..Len(ys) : \E j \in 1..Len(xs) \ {p} : ys[i] = xs[j]
          /\ \A j \in 1..Len(xs) \ {p} : \E i \in 1..Len(ys) : ys[i] = xs[j]
          /\ \A i, j \in 1..Len(ys) : i # j =>
                \E a, q \in 1..Len(xs) \ {p} : a # q /\ ys[i] = xs[a] /\ ys[j] = xs[q]
      BY <3>1, ShortenedHolds
    <3> QED BY <3>2 DEF xs, ys
  <2>12. Left(y, k)
    <3> SUFFICES ASSUME NEW j \in (k + 1)..Len(list)
                 PROVE  \E i \in 1..Len(y.transactions) : y.transactions[i] = list[j]
      OBVIOUS
    <3>1. j \in ((k - 1) + 1)..Len(list) /\ j \in 1..Len(list) /\ j # k
      BY <1>1, <2>4
    <3>2. PICK q \in 1..Len(x.transactions) : x.transactions[q] = list[j]
      BY <2>5, <3>1
    <3>3. q # p
      BY <1>1, <2>4, <2>8, <3>1, <3>2
    <3> QED BY <2>11, <3>2, <3>3
  <2> QED BY <2>2, <2>9, <2>12 DEF y
<1>7. Len(list) \in 0..Len(list)
  BY <1>1
<1> QED BY <1>3, <1>6, <1>7

(***************************************************************************)
(* Events and timers.                                                      *)
(***************************************************************************)
\* The parts that a handler of received messages has to keep.
LEMMA InboundParts ==
    ASSUME NEW s, NEW n, NEW M, NEW hin, NEW hnew, NEW hout, Traffic(s, M, hin, hout),
           n.outgoing = s.outgoing, n.transactions = s.transactions,
           \A c \in Slot : Count(n.events, Outbound(c)) = Count(s.events, Outbound(c)),
           Len(n.events) <= QueueSize, InHeld(n, hnew)
    PROVE  Traffic(n, M, hnew, hout)
BY DEF Traffic, OutHeld, OutHolders

\* The buffers for received messages change.
LEMMA InFields ==
    ASSUME NEW s \in States, NEW new \in [Slot -> InBuf],
           NEW n, n = [s EXCEPT !.incoming = new]
    PROVE  /\ n \in States /\ SameCallbacks(n, s) /\ n.events = s.events
           /\ n.outgoing = s.outgoing /\ n.transactions = s.transactions
           /\ n.incoming = new
BY DEF States, SameCallbacks

\* One buffer of them.
LEMMA OneIn ==
    ASSUME NEW s \in States, NEW b \in Slot, NEW buf \in InBuf
    PROVE  /\ [s.incoming EXCEPT ![b] = buf] \in [Slot -> InBuf]
           /\ [s.incoming EXCEPT ![b] = buf][b] = buf
           /\ \A c \in Slot : c # b => [s.incoming EXCEPT ![b] = buf][c] = s.incoming[c]
<1>1. s.incoming \in [Slot -> InBuf]
  BY StateFields
<1> QED BY <1>1

\* The received message in hand is given back.
LEMMA UnrefInHolds ==
    ASSUME NEW s \in States, NEW M, NEW hout, NEW b \in Slot, Traffic(s, M, {b}, hout),
           NEW n, n = message_unref_in(s, b)
    PROVE  n \in States /\ SameCallbacks(n, s) /\ Traffic(n, M, {}, hout)
<1> DEFINE old == s.incoming[b]
           u == old.used /\ old.ref_count > 1
           r == old.ref_count - 1
           buf == [[old EXCEPT !.ref_count = r, !.used = u] EXCEPT !.msg = NoMessage]
           new == [s.incoming EXCEPT ![b] = buf]
<1>1. old \in InBuf
  BY StateFields
<1>2. \A c \in Slot : Count(s.events, Inbound(c)) \in Nat
  BY CountsNat
<1>3. old.used /\ old.ref_count = 1 /\ Count(s.events, Inbound(b)) = 0
  BY <1>2 DEF Traffic, InHeld, One
<1>4. n = [s EXCEPT !.incoming = new]
  BY DEF message_unref_in, unreferenced
<1>0. u \in BOOLEAN
  OBVIOUS
<1>5. u = FALSE /\ r = 0
  BY <1>3
<1> HIDE DEF u, r
<1>6. buf \in InBuf /\ buf.used = FALSE /\ buf.ref_count = 0
  <2>1. buf = [[old EXCEPT !.ref_count = r, !.used = u] EXCEPT !.msg = NoMessage]
    OBVIOUS
  <2> HIDE DEF buf, old
  <2>2. buf = [used |-> u, ref_count |-> r, msg |-> NoMessage]
    BY <1>1, <2>1 DEF InBuf
  <2>3. NoMessage \in {NoMessage} \cup AnyMessage
    OBVIOUS
  <2>4. u \in BOOLEAN /\ r \in Int
    BY <1>0, <1>5
  <2>5. buf \in InBuf
    BY <2>2, <2>3, <2>4 DEF InBuf
  <2> QED BY <1>5, <2>2, <2>5
<1> HIDE DEF buf
<1>7. /\ n \in States /\ SameCallbacks(n, s) /\ n.events = s.events
      /\ n.outgoing = s.outgoing /\ n.transactions = s.transactions
      /\ n.incoming[b] = buf /\ \A c \in Slot : c # b => n.incoming[c] = s.incoming[c]
  <2>1. /\ new \in [Slot -> InBuf] /\ new[b] = buf
        /\ \A c \in Slot : c # b => new[c] = s.incoming[c]
    BY <1>6, OneIn
  <2> HIDE DEF new
  <2>2. /\ n \in States /\ SameCallbacks(n, s) /\ n.events = s.events
        /\ n.outgoing = s.outgoing /\ n.transactions = s.transactions
        /\ n.incoming = new
    BY <1>4, <2>1, InFields
  <2> QED BY <2>1, <2>2
<1>8. InHeld(n, {})
  <2> SUFFICES ASSUME NEW c \in Slot
               PROVE  IF n.incoming[c].used
                      THEN /\ n.incoming[c].ref_count = 1 /\ n.incoming[c].msg # NoMessage
                           /\ Count(n.events, Inbound(c)) + One(c \in {}) = 1
                      ELSE n.incoming[c].ref_count = 0 /\ Count(n.events, Inbound(c)) + One(c \in {}) = 0
    BY DEF InHeld
  <2>1. CASE c = b
    BY <1>3, <1>6, <1>7, <2>1 DEF One
  <2>2. CASE c # b
    <3>1. One(c \in {b}) = One(c \in {})
      BY <2>2 DEF One
    <3> QED BY <1>7, <2>2, <3>1 DEF Traffic, InHeld
  <2> QED BY <2>1, <2>2
<1>9. Len(n.events) <= QueueSize
  BY <1>7 DEF Traffic
<1> QED BY <1>7, <1>8, <1>9, InboundParts

\* The received message in hand waits for its next handler.
LEMMA PostInHolds ==
    ASSUME NEW s \in States, NEW M, NEW hout, NEW b \in Slot, Traffic(s, M, {b}, hout),
           Len(s.events) < QueueSize, NEW v \in {"INBOUND_NETWORK", "INBOUND_RI"},
           NEW n, n = process_post(s, v, b)
    PROVE  n \in States /\ SameCallbacks(n, s) /\ Traffic(n, M, {}, hout)
<1> DEFINE e == [ev |-> v, data |-> b]
<1>1. /\ e \in Event /\ \A c \in Slot : e \in Inbound(c) <=> b = c
      /\ \A c \in Slot : e \notin Outbound(c)
  BY EventHolds
<1>2. /\ n \in States /\ SameCallbacks(n, s)
      /\ n.incoming = s.incoming /\ n.outgoing = s.outgoing
      /\ n.transactions = s.transactions /\ Len(n.events) <= QueueSize
      /\ \A S : Count(n.events, S) = Count(s.events, S) + One(e \in S)
  BY <1>1, PostFields
<1> HIDE DEF e
<1>3. \A c \in Slot : Count(n.events, Outbound(c)) = Count(s.events, Outbound(c))
  <2> SUFFICES ASSUME NEW c \in Slot
               PROVE  Count(n.events, Outbound(c)) = Count(s.events, Outbound(c))
    OBVIOUS
  <2>1. Count(s.events, Outbound(c)) \in Nat
    BY CountsNat
  <2>2. One(e \in Outbound(c)) = 0
    BY <1>1 DEF One
  <2> QED BY <1>2, <2>1, <2>2
<1>4. InHeld(n, {})
  <2>1. ASSUME NEW c \in Slot
        PROVE  Count(n.events, Inbound(c)) + One(c \in {}) = Count(s.events, Inbound(c)) + One(c \in {b})
    <3>1. Count(s.events, Inbound(c)) \in Nat
      BY CountsNat
    <3>2. One(e \in Inbound(c)) = One(c \in {b}) /\ One(c \in {}) = 0 /\ One(c \in {b}) \in Nat
      BY <1>1 DEF One
    <3> QED BY <1>2, <3>1, <3>2
  <2> QED BY <1>2, <2>1 DEF Traffic, InHeld
<1> QED BY <1>2, <1>3, <1>4, InboundParts

\* A message arrives in a free buffer.
LEMMA TakeInHolds ==
    ASSUME NEW s \in States, NEW M, NEW hout, Traffic(s, M, {}, hout), NEW msg \in AnyMessage,
           free_slots(s.incoming) # {}, NEW b, b = Min(free_slots(s.incoming)),
           NEW buf, buf = [used |-> TRUE, ref_count |-> 1, msg |-> msg],
           NEW new, new = [s.incoming EXCEPT ![b] = buf],
           NEW n, n = [s EXCEPT !.incoming = new]
    PROVE  /\ b \in Slot /\ n \in States /\ SameCallbacks(n, s) /\ Traffic(n, M, {b}, hout)
           /\ n.events = s.events
<1>1. b \in Slot /\ ~s.incoming[b].used
  <2>1. free_slots(s.incoming) \in SUBSET Nat
    BY OcMessagingAssumption DEF free_slots, Slot
  <2>2. b \in free_slots(s.incoming)
    BY <2>1, Least
  <2> QED BY <2>2 DEF free_slots
<1>2. buf \in InBuf /\ buf.used /\ buf.ref_count = 1 /\ buf.msg # NoMessage
  BY DEF InBuf, AnyMessage, NoMessage
<1>3. /\ n \in States /\ SameCallbacks(n, s) /\ n.events = s.events
      /\ n.outgoing = s.outgoing /\ n.transactions = s.transactions
      /\ n.incoming[b] = buf /\ \A c \in Slot : c # b => n.incoming[c] = s.incoming[c]
  <2>1. /\ new \in [Slot -> InBuf] /\ new[b] = buf
        /\ \A c \in Slot : c # b => new[c] = s.incoming[c]
    BY <1>1, <1>2, OneIn
  <2>2. /\ n \in States /\ SameCallbacks(n, s) /\ n.events = s.events
        /\ n.outgoing = s.outgoing /\ n.transactions = s.transactions
        /\ n.incoming = new
    BY <2>1, InFields
  <2> QED BY <2>1, <2>2
<1>4. InHeld(n, {b})
  <2> SUFFICES ASSUME NEW c \in Slot
               PROVE  IF n.incoming[c].used
                      THEN /\ n.incoming[c].ref_count = 1 /\ n.incoming[c].msg # NoMessage
                           /\ Count(n.events, Inbound(c)) + One(c \in {b}) = 1
                      ELSE n.incoming[c].ref_count = 0 /\ Count(n.events, Inbound(c)) + One(c \in {b}) = 0
    BY DEF InHeld
  <2>0. Count(s.events, Inbound(c)) \in Nat
    BY CountsNat
  <2>1. CASE c = b
    <3>1. Count(s.events, Inbound(c)) = 0
      BY <1>1, <2>0, <2>1 DEF Traffic, InHeld, One
    <3> QED BY <1>2, <1>3, <2>1, <3>1 DEF One
  <2>2. CASE c # b
    <3>1. One(c \in {b}) = One(c \in {})
      BY <2>2 DEF One
    <3> QED BY <1>3, <2>2, <3>1 DEF Traffic, InHeld
  <2> QED BY <2>1, <2>2
<1>5. Len(n.events) <= QueueSize
  BY <1>3 DEF Traffic
<1> QED BY <1>1, <1>3, <1>4, <1>5, InboundParts

\* The oldest event is taken: its handler has the buffer in hand.
LEMMA PopHolds ==
    ASSUME NEW s \in States, NEW M, Traffic(s, M, {}, {}), s.events # <<>>,
           NEW n, n = [s EXCEPT !.events = Tail(s.events)], NEW e, e = Head(s.events),
           NEW hin, hin = {c \in Slot : e \in Inbound(c)},
           NEW hout, hout = {c \in Slot : e \in Outbound(c)}
    PROVE  /\ n \in States /\ SameCallbacks(n, s) /\ e \in Event /\ Len(n.events) < QueueSize
           /\ n.incoming = s.incoming /\ Traffic(n, M, hin, hout)
<1> DEFINE new == Tail(s.events)
<1>1. /\ s.events \in Seq(Event) /\ Len(s.events) \in Nat /\ QueueSize \in Nat
      /\ Len(s.events) <= QueueSize
  BY StateFields, OcMessagingAssumption DEF Traffic
<1>2. /\ new \in Seq(Event) /\ e = s.events[1] /\ e \in Event
      /\ 1 \in 1..Len(s.events) /\ Shortened(s.events, new, 1)
  BY <1>1, TailShortened
<1>3. Len(new) < QueueSize
  BY <1>1, <1>2 DEF Shortened
<1>4. \A S : Count(s.events, S) = Count(new, S) + One(e \in S)
  BY <1>1, <1>2, CountShortened
<1>5. n = [s EXCEPT !.events = new]
  OBVIOUS
<1> HIDE DEF new
<1>6. /\ n \in States /\ SameCallbacks(n, s) /\ n.events = new /\ n.incoming = s.incoming
      /\ n.outgoing = s.outgoing /\ n.transactions = s.transactions
  BY <1>2, <1>5 DEF States, SameCallbacks
<1>7. ASSUME NEW c \in Slot
      PROVE  /\ Count(n.events, Inbound(c)) + One(c \in hin) = Count(s.events, Inbound(c)) + One(c \in {})
             /\ OutHolders(n, c, hout) = OutHolders(s, c, {})
  <2>1. /\ Count(n.events, Inbound(c)) \in Nat /\ Count(s.events, Inbound(c)) \in Nat
        /\ Count(n.events, Outbound(c)) \in Nat /\ Count(s.events, Outbound(c)) \in Nat
        /\ Count(s.transactions, On(c)) \in Nat
    BY <1>6, CountsNat
  <2>2. /\ One(c \in hin) = One(e \in Inbound(c)) /\ One(c \in {}) = 0
        /\ One(c \in hout) = One(e \in Outbound(c))
        /\ One(e \in Inbound(c)) \in Nat /\ One(e \in Outbound(c)) \in Nat
    BY DEF One
  <2>3. /\ Count(s.events, Inbound(c)) = Count(n.events, Inbound(c)) + One(e \in Inbound(c))
        /\ Count(s.events, Outbound(c)) = Count(n.events, Outbound(c)) + One(e \in Outbound(c))
    BY <1>4, <1>6
  <2>4. OutHolders(n, c, hout) = Count(n.events, Outbound(c)) + Count(s.transactions, On(c)) + One(c \in hout)
    BY <1>6 DEF OutHolders
  <2>5. OutHolders(s, c, {}) = Count(s.events, Outbound(c)) + Count(s.transactions, On(c)) + One(c \in {})
    BY DEF OutHolders
  <2> QED BY <2>1, <2>2, <2>3, <2>4, <2>5
<1>8. InHeld(n, hin) /\ OutHeld(n, hout)
  BY <1>6, <1>7 DEF Traffic, InHeld, OutHeld
<1>9. Traffic(n, M, hin, hout)
  BY <1>1, <1>3, <1>6, <1>8 DEF Traffic
<1> QED BY <1>2, <1>3, <1>6, <1>9

\* An event is handled from beginning to end.
LEMMA EventSound ==
    ASSUME NEW s, NEW m \in Nat, Sound(s, m, {}, {}), NEW n, n = do_event(s)
    PROVE  Sound(n, m, {}, {})
<1>1. CASE s.events = <<>>
  BY <1>1 DEF do_event
<1>2. CASE s.events # <<>>
  <2> DEFINE e == Head(s.events)
             x == [s EXCEPT !.events = Tail(s.events)]
             hin == {c \in Slot : e \in Inbound(c)}
             hout == {c \in Slot : e \in Outbound(c)}
  <2>1. n = handle_event(x, e)
    BY <1>2 DEF do_event
  <2>2. s \in States /\ Traffic(s, Used(m), {}, {}) /\ Callbacks(s, m)
    BY DEF Sound
  <2>3. /\ x \in States /\ SameCallbacks(x, s) /\ e \in Event /\ Len(x.events) < QueueSize
        /\ x.incoming = s.incoming /\ Traffic(x, Used(m), hin, hout)
    <3>1. /\ x = [s EXCEPT !.events = Tail(s.events)] /\ e = Head(s.events)
          /\ hin = {c \in Slot : e \in Inbound(c)} /\ hout = {c \in Slot : e \in Outbound(c)}
      OBVIOUS
    <3> HIDE DEF e, x, hin, hout
    <3> QED BY ZenonT(40), <1>2, <2>2, <3>1, PopHolds
  <2> HIDE DEF e, x
  <2>4. Sound(x, m, hin, hout)
    <3>1. Callbacks(x, m)
      BY <2>2, <2>3, SameCallbacksHold
    <3> HIDE DEF hin, hout
    <3> QED BY <2>3, <3>1 DEF Sound
  <2> DEFINE b == e.data
  <2>5. CASE e.ev \in {"INBOUND_NETWORK", "INBOUND_RI"}
    <3>1. b \in Slot /\ hin = {b} /\ hout = {}
      <4>1. b \in Slot
        BY <2>3, <2>5 DEF Event
      <4>2. \A c \in Slot : e \in Inbound(c) <=> c = b
        BY <2>3, <2>5 DEF Inbound
      <4>3. \A c \in Slot : e \notin Outbound(c)
        BY <2>3, <2>5 DEF Outbound
      <4> HIDE DEF b
      <4> QED BY <4>1, <4>2, <4>3
    <3>2. Sound(x, m, {b}, {}) /\ Traffic(x, Used(m), {b}, {}) /\ x \in States
      BY <2>4, <3>1 DEF Sound
    <3>3. CASE e.ev = "INBOUND_NETWORK"
      <4>1. n = process_post(x, "INBOUND_RI", b)
        BY <2>1, <3>3 DEF handle_event
      <4> HIDE DEF b
      <4>2. n \in States /\ SameCallbacks(n, x) /\ Traffic(n, Used(m), {}, {})
        BY <2>3, <3>1, <3>2, <4>1, PostInHolds
      <4>3. Callbacks(n, m)
        BY <3>2, <4>2, SameCallbacksHold DEF Sound
      <4> QED BY <4>2, <4>3 DEF Sound
    <3>4. CASE e.ev = "INBOUND_RI"
      <4> DEFINE msg == x.incoming[b].msg
                 y == coap_receive(x, msg)
      <4>1. n = message_unref_in(y, b)
        BY <2>1, <3>4 DEF handle_event
      <4> HIDE DEF b
      <4>2. msg \in AnyMessage
        <5>1. x.incoming[b] \in InBuf
          BY <3>1, <3>2, StateFields
        <5>2. Count(x.events, Inbound(b)) \in Nat
          BY <3>2, CountsNat
        <5>3. x.incoming[b].used /\ x.incoming[b].msg # NoMessage
          BY <3>1, <3>2, <5>2 DEF Traffic, InHeld, One
        <5> QED BY <5>1, <5>3 DEF InBuf
      <4> HIDE DEF msg
      <4>3. Sound(y, m, {b}, {})
        BY <3>2, <4>2, ReceiveSound
      <4> HIDE DEF y
      <4>4. n \in States /\ SameCallbacks(n, y) /\ Traffic(n, Used(m), {}, {})
        BY <3>1, <4>1, <4>3, UnrefInHolds DEF Sound
      <4>5. Callbacks(n, m)
        BY <4>3, <4>4, SameCallbacksHold DEF Sound
      <4> QED BY <4>4, <4>5 DEF Sound
    <3> QED BY <2>5, <3>3, <3>4
  <2>6. CASE e.ev = "OUTBOUND"
    <3>1. b \in Slot /\ hin = {} /\ hout = {b}
      <4>1. b \in Slot
        BY <2>3, <2>6 DEF Event
      <4>2. \A c \in Slot : e \in Outbound(c) <=> c = b
        BY <2>3, <2>6 DEF Outbound
      <4>3. \A c \in Slot : e \notin Inbound(c)
        BY <2>3, <2>6 DEF Inbound
      <4> HIDE DEF b
      <4> QED BY <4>1, <4>2, <4>3
    <3>2. Sound(x, m, {}, {b}) /\ Traffic(x, Used(m), {}, {b}) /\ x \in States
      BY <2>4, <3>1 DEF Sound
    <3>3. n = message_unref_out(x, b)
      BY <2>1, <2>6 DEF handle_event
    <3> HIDE DEF b
    <3>4. n \in States /\ SameCallbacks(n, x) /\ Traffic(n, Used(m), {}, {})
      BY <3>1, <3>2, <3>3, UnrefHolds
    <3> QED BY <3>2, <3>4, SoundTraffic
  <2>7. CASE e.ev \in {"TIMER_ENGINE", "TIMER_RI"}
    <3>1. hin = {} /\ hout = {}
      <4>1. \A c \in Slot : e \notin Inbound(c) /\ e \notin Outbound(c)
        BY <2>7 DEF Inbound, Outbound
      <4> QED BY <4>1
    <3>2. Sound(x, m, {}, {})
      BY <2>4, <3>1
    <3>3. CASE e.ev = "TIMER_ENGINE"
      <4>1. n = check_transactions(x)
        BY <2>1, <3>3 DEF handle_event
      <4> QED BY <3>2, <4>1, CheckTransactionsSound
    <3>4. CASE e.ev = "TIMER_RI"
      <4>1. n = check_event_callbacks(x)
        BY <2>1, <3>4 DEF handle_event
      <4>2. n \in States /\ SameTraffic(n, x) /\ Callbacks(n, m)
        BY <3>2, <4>1, CheckEventsHold DEF Sound
      <4> QED BY <3>2, <4>2, SoundCallbacks
    <3> QED BY <2>7, <3>3, <3>4
  <2>8. e.ev \in {"INBOUND_NETWORK", "INBOUND_RI", "OUTBOUND", "TIMER_ENGINE", "TIMER_RI"}
    BY <2>3 DEF Event
  <2> QED BY <2>5, <2>6, <2>7, <2>8
<1> QED BY <1>1, <1>2

\* The timers that are due are finitely many.
LEMMA DueFinite ==
    ASSUME NEW s \in States
    PROVE  IsFiniteSet(due(s)) /\ Cardinality(due(s)) \in Nat
<1> DEFINE A == {j \in DOMAIN s.transactions : etimer_due(s.transactions[j].idle)}
           B == {j \in DOMAIN s.timed : etimer_due(s.timed[j].timer)}
           E == {<<"TIMER_ENGINE", i>> : i \in A}
           R == {<<"TIMER_RI", i>> : i \in B}
<1>1. /\ Len(s.transactions) \in Nat /\ DOMAIN s.transactions = 1..Len(s.transactions)
      /\ Len(s.timed) \in Nat /\ DOMAIN s.timed = 1..Len(s.timed)
  BY StateFields
<1>2. IsFiniteSet(1..Len(s.transactions)) /\ IsFiniteSet(1..Len(s.timed))
  BY SMTT(30), <1>1, FS_Interval
<1>3. IsFiniteSet(A) /\ IsFiniteSet(B)
  <2>1. A \subseteq 1..Len(s.transactions) /\ B \subseteq 1..Len(s.timed)
    BY <1>1
  <2> QED BY <1>2, <2>1, FS_Subset
<1>4. due(s) = E \cup R
  BY DEF due
<1> HIDE DEF A, B
<1>5. IsFiniteSet(E)
  <2> DEFINE f == [d \in E |-> d[2]]
  <2>1. f \in Injection(E, A)
    BY DEF Injection, IsInjective
  <2> HIDE DEF f, E
  <2> QED BY <1>3, <2>1, FS_Injection
<1>6. IsFiniteSet(R)
  <2> DEFINE f == [d \in R |-> d[2]]
  <2>1. f \in Injection(R, B)
    BY DEF Injection, IsInjective
  <2> HIDE DEF f, R
  <2> QED BY <1>3, <2>1, FS_Injection
<1> HIDE DEF E, R
<1>7. IsFiniteSet(due(s))
  BY <1>4, <1>5, <1>6, FS_Union
<1> QED BY <1>7, FS_CardinalityType

\* Timers run on or stop; nothing else changes but events that hold no buffer.
LEMMA RetimedSound ==
    ASSUME NEW s, NEW m \in Nat, Sound(s, m, {}, {}), NEW n \in States,
           Len(n.events) <= QueueSize, n.incoming = s.incoming, n.outgoing = s.outgoing,
           \A c \in Slot : /\ Count(n.events, Inbound(c)) = Count(s.events, Inbound(c))
                           /\ Count(n.events, Outbound(c)) = Count(s.events, Outbound(c)),
           Len(n.transactions) = Len(s.transactions),
           \A i \in 1..Len(s.transactions) :
                /\ n.transactions[i].mid = s.transactions[i].mid
                /\ n.transactions[i].message = s.transactions[i].message,
           n.client_cbs = s.client_cbs, n.handled = s.handled, Len(n.timed) = Len(s.timed)
    PROVE  Sound(n, m, {}, {})
<1>1. s \in States /\ Traffic(s, Used(m), {}, {}) /\ Callbacks(s, m)
  BY DEF Sound
<1>2. Traffic(n, Used(m), {}, {})
  BY <1>1, RetimedHolds
<1>3. Callbacks(n, m)
  BY <1>1 DEF Callbacks
<1> QED BY <1>2, <1>3 DEF Sound

\* What a timer becomes.
LEMMA TimerOps == etimer_stopped \in Timer /\ \A x \in Timer : aged(x) \in Timer
<1>1. etimer_stopped \in Timer
  BY OcMessagingAssumption DEF Timer, etimer_stopped
<1>2. ASSUME NEW x \in Timer
      PROVE  aged(x) \in Timer
  <2>1. x.on \in BOOLEAN /\ x.left \in 0..NonLifetime /\ x = [on |-> x.on, left |-> x.left]
    BY DEF Timer
  <2>2. x.left > 0 => x.left - 1 \in 0..NonLifetime
    BY <2>1, OcMessagingAssumption
  <2>3. CASE x.on /\ x.left > 0
    <3>1. aged(x) = [x EXCEPT !.left = x.left - 1]
      BY <2>3 DEF aged
    <3>2. aged(x) = [on |-> x.on, left |-> x.left - 1]
      BY <2>1, <3>1 DEF Timer
    <3> QED BY <2>1, <2>2, <2>3, <3>2 DEF Timer
  <2>4. CASE ~(x.on /\ x.left > 0)
    BY <2>4 DEF aged
  <2> QED BY <2>3, <2>4
<1> QED BY <1>1, <1>2

\* A transaction keeps message and ID when its timer changes.
LEMMA RetimedOne ==
    ASSUME NEW t \in Transaction, NEW idle \in Timer, NEW n, n = [t EXCEPT !.idle = idle]
    PROVE  n \in Transaction /\ n.mid = t.mid /\ n.message = t.message
BY DEF Transaction

\* The list of transactions with their timers changed.
Retimed(new, list) ==
    /\ new \in Seq(Transaction) /\ Len(new) = Len(list)
    /\ \A i \in 1..Len(list) : new[i].mid = list[i].mid /\ new[i].message = list[i].message

\* Every transaction of the list does.
LEMMA RetimedList ==
    ASSUME NEW list \in Seq(Transaction), NEW f, \A i \in 1..Len(list) : f[i] \in Timer
    PROVE  Retimed([i \in DOMAIN list |-> [list[i] EXCEPT !.idle = f[i]]], list)
<1> DEFINE new == [i \in DOMAIN list |-> [list[i] EXCEPT !.idle = f[i]]]
<1>1. /\ Len(list) \in Nat /\ DOMAIN list = 1..Len(list)
      /\ \A i \in 1..Len(list) : list[i] \in Transaction
  BY LenProperties, ElementOfSeq
<1>2. ASSUME NEW i \in 1..Len(list)
      PROVE  new[i] \in Transaction /\ new[i].mid = list[i].mid /\ new[i].message = list[i].message
  <2> DEFINE t == list[i]
             idle == f[i]
             n == new[i]
  <2>1. t \in Transaction /\ idle \in Timer /\ n = [t EXCEPT !.idle = idle]
    BY <1>1
  <2> HIDE DEF t, idle, n
  <2>2. n \in Transaction /\ n.mid = t.mid /\ n.message = t.message
    BY <2>1, RetimedOne
  <2> QED BY <2>2 DEF t, n
<1>3. new = [i \in 1..Len(list) |-> new[i]]
  BY <1>1
<1> HIDE DEF new
<1>4. new \in [1..Len(list) -> Transaction]
  BY <1>2, <1>3
<1>5. new \in Seq(Transaction) /\ Len(new) = Len(list)
  BY <1>1, <1>4, SeqDef
<1>6. Retimed(new, list)
  BY <1>2, <1>5 DEF Retimed
<1> QED BY <1>6 DEF new

\* The same for the delayed callbacks.
LEMMA RetimedCbs ==
    ASSUME NEW s \in States, NEW S, NEW new,
           new = [i \in DOMAIN s.timed |->
                    IF i \in S THEN [s.timed[i] EXCEPT !.timer = etimer_stopped] ELSE s.timed[i]]
           \/ new = [i \in DOMAIN s.timed |->
                        [s.timed[i] EXCEPT !.timer = aged(s.timed[i].timer)]]
    PROVE  new \in Seq(TimedCb) /\ Len(new) = Len(s.timed)
<1> DEFINE list == s.timed
<1>1. /\ Len(list) \in Nat /\ DOMAIN list = 1..Len(list)
      /\ \A i \in 1..Len(list) : list[i] \in TimedCb
  BY StateFields
<1>2. ASSUME NEW t \in TimedCb, NEW timer \in Timer
      PROVE  [t EXCEPT !.timer = timer] \in TimedCb
  BY DEF TimedCb
<1>3. etimer_stopped \in Timer
  BY TimerOps
<1>4. \A t \in TimedCb : aged(t.timer) \in Timer
  BY TimerOps DEF TimedCb
<1> HIDE DEF list
<1>5. ASSUME NEW i \in 1..Len(list)
      PROVE  new[i] \in TimedCb
  <2>1. list[i] \in TimedCb
    BY <1>1
  <2>2. \/ new[i] = list[i]
        \/ new[i] = [list[i] EXCEPT !.timer = etimer_stopped]
        \/ new[i] = [list[i] EXCEPT !.timer = aged(list[i].timer)]
    BY <1>1 DEF list
  <2> DEFINE t == list[i]
             a == etimer_stopped
             g == aged(t.timer)
  <2>3. t \in TimedCb /\ a \in Timer /\ g \in Timer
    BY <1>3, <1>4, <2>1
  <2>4. new[i] = t \/ new[i] = [t EXCEPT !.timer = a] \/ new[i] = [t EXCEPT !.timer = g]
    BY <2>2
  <2> HIDE DEF t, a, g
  <2> QED BY <1>2, <2>3, <2>4
<1>6. new = [i \in 1..Len(list) |-> new[i]]
  BY <1>1 DEF list
<1>7. new \in [1..Len(list) -> TimedCb]
  BY <1>5, <1>6
<1>8. new \in Seq(TimedCb) /\ Len(new) = Len(list)
  BY <1>1, <1>7, SeqDef
<1> QED BY <1>8 DEF list

\* The timer process posts events for timers, as many as the queue has room for.
LEMMA PollSound ==
    ASSUME NEW s, NEW m \in Nat, Sound(s, m, {}, {}),
           NEW posted \in kSubset(Min({Cardinality(due(s)), QueueSize - Len(s.events)}), due(s)),
           NEW n, n = poll_timers(s, posted)
    PROVE  Sound(n, m, {}, {})
<1> DEFINE p == Cardinality(posted)
           engine == Cardinality({d \in posted : d[1] = "TIMER_ENGINE"})
           block == [i \in 1..p |-> [ev |-> IF i <= engine THEN "TIMER_ENGINE" ELSE "TIMER_RI", data |-> 0]]
           evs == s.events \o block
           stops == {i \in DOMAIN s.transactions : <<"TIMER_ENGINE", i>> \in posted}
           ends == {i \in DOMAIN s.timed : <<"TIMER_RI", i>> \in posted}
           ts == [i \in DOMAIN s.transactions |->
                    IF i \in stops THEN [s.transactions[i] EXCEPT !.idle = etimer_stopped]
                    ELSE s.transactions[i]]
           cs == [i \in DOMAIN s.timed |->
                    IF i \in ends THEN [s.timed[i] EXCEPT !.timer = etimer_stopped] ELSE s.timed[i]]
<1>0. s \in States /\ Traffic(s, Used(m), {}, {})
  BY DEF Sound
<1>1. /\ s.events \in Seq(Event) /\ Len(s.events) \in Nat /\ QueueSize \in Nat
      /\ Len(s.events) <= QueueSize
  BY <1>0, StateFields, OcMessagingAssumption DEF Traffic
<1>2. p \in Nat /\ Len(s.events) + p <= QueueSize
  <2> DEFINE room == QueueSize - Len(s.events)
             c == Cardinality(due(s))
             T == {c, room}
  <2>1. c \in Nat /\ room \in Nat
    BY <1>0, <1>1, DueFinite
  <2>2. p = Min(T)
    BY DEF kSubset
  <2> HIDE DEF c, p
  <2>3. T \in SUBSET Nat /\ T # {} /\ room \in T
    BY <2>1
  <2>4. Min(T) \in T /\ Min(T) <= room
    <3> HIDE DEF T, room
    <3> QED BY <2>3, Least
  <2>5. p \in Nat /\ p <= room
    BY <2>1, <2>2, <2>4
  <2> QED BY <1>1, <2>5
<1>3. n = [s EXCEPT !.events = evs, !.transactions = ts, !.timed = cs]
  BY DEF poll_timers
<1> HIDE DEF p, engine
<1>4. block \in [1..p -> Event]
  BY DEF Event
<1>5. block \in Seq(Event) /\ Len(block) = p
  BY <1>2, <1>4, SeqDef
<1>6. \A i \in 1..p : \A c \in Slot : block[i] \notin Inbound(c) /\ block[i] \notin Outbound(c)
  BY DEF Inbound, Outbound
<1> HIDE DEF block
<1>7. /\ evs \in Seq(Event) /\ Len(evs) = Len(s.events) + p
      /\ \A i \in 1..(Len(s.events) + p) : evs[i] = IF i <= Len(s.events) THEN s.events[i]
                                                    ELSE block[i - Len(s.events)]
  BY <1>1, <1>5, ConcatProperties
<1> HIDE DEF evs
<1>8. ASSUME NEW S, \A i \in 1..p : block[i] \notin S
      PROVE  Count(evs, S) = Count(s.events, S)
  <2>1. DOMAIN evs = 1..(Len(s.events) + p) /\ DOMAIN s.events = 1..Len(s.events)
    BY <1>1, <1>7, LenProperties
  <2>2. ASSUME NEW i
        PROVE  i \in Hits(evs, S) <=> i \in Hits(s.events, S)
    <3>1. CASE i \in 1..Len(s.events)
      <4>1. i \in 1..(Len(s.events) + p) /\ evs[i] = s.events[i]
        BY <1>1, <1>2, <1>7, <3>1
      <4> QED BY <2>1, <3>1, <4>1 DEF Hits
    <3>2. CASE i \in 1..(Len(s.events) + p) /\ i \notin 1..Len(s.events)
      <4>1. i - Len(s.events) \in 1..p /\ evs[i] = block[i - Len(s.events)]
        BY <1>1, <1>2, <1>7, <3>2
      <4> QED BY <1>8, <2>1, <3>2, <4>1 DEF Hits
    <3>3. CASE i \notin 1..(Len(s.events) + p) /\ i \notin 1..Len(s.events)
      BY <2>1, <3>3 DEF Hits
    <3> QED BY <3>1, <3>2, <3>3
  <2>3. Hits(evs, S) = Hits(s.events, S)
    BY <2>2
  <2> QED BY <2>3 DEF Count
<1>9. \A c \in Slot : /\ Count(evs, Inbound(c)) = Count(s.events, Inbound(c))
                      /\ Count(evs, Outbound(c)) = Count(s.events, Outbound(c))
  BY <1>6, <1>8
<1>10. /\ ts \in Seq(Transaction) /\ Len(ts) = Len(s.transactions)
       /\ \A i \in 1..Len(s.transactions) : /\ ts[i].mid = s.transactions[i].mid
                                            /\ ts[i].message = s.transactions[i].message
  <2> DEFINE list == s.transactions
             f == [i \in DOMAIN list |-> IF i \in stops THEN etimer_stopped ELSE list[i].idle]
  <2>1. /\ list \in Seq(Transaction) /\ DOMAIN list = 1..Len(list)
        /\ \A i \in 1..Len(list) : list[i] \in Transaction
    BY <1>0, StateFields
  <2>2. \A i \in 1..Len(list) : f[i] \in Timer
    BY <2>1, TimerOps DEF Transaction
  <2>3. \A i \in 1..Len(list) : [list[i] EXCEPT !.idle = list[i].idle] = list[i]
    BY <2>1 DEF Transaction
  <2>4. ts = [i \in DOMAIN list |-> [list[i] EXCEPT !.idle = f[i]]]
    <3> HIDE DEF stops
    <3> QED BY <2>1, <2>3
  <2> HIDE DEF list, f, ts
  <2>5. Retimed(ts, list)
    BY <2>1, <2>2, <2>4, RetimedList
  <2> QED BY <2>5 DEF Retimed, list
<1>11. cs \in Seq(TimedCb) /\ Len(cs) = Len(s.timed)
  <2> HIDE DEF ends
  <2>1. cs = [i \in DOMAIN s.timed |->
                IF i \in ends THEN [s.timed[i] EXCEPT !.timer = etimer_stopped] ELSE s.timed[i]]
    OBVIOUS
  <2> HIDE DEF cs
  <2> QED BY <1>0, <2>1, RetimedCbs
<1> HIDE DEF ts, cs
<1>12. /\ n \in States /\ n.events = evs /\ n.transactions = ts /\ n.timed = cs
       /\ n.incoming = s.incoming /\ n.outgoing = s.outgoing
       /\ n.client_cbs = s.client_cbs /\ n.handled = s.handled
  BY <1>0, <1>3, <1>7, <1>10, <1>11 DEF States
<1>13. Len(n.events) <= QueueSize
  BY <1>2, <1>7, <1>12
<1> QED BY <1>9, <1>10, <1>11, <1>12, <1>13, RetimedSound

\* The clock moves.
LEMMA LaterSound ==
    ASSUME NEW s, NEW m \in Nat, Sound(s, m, {}, {}), NEW n, n = a_second_later(s)
    PROVE  Sound(n, m, {}, {})
<1> DEFINE ts == [i \in DOMAIN s.transactions |->
                    [s.transactions[i] EXCEPT !.idle = aged(s.transactions[i].idle)]]
           cs == [i \in DOMAIN s.timed |->
                    [s.timed[i] EXCEPT !.timer = aged(s.timed[i].timer)]]
<1>0. s \in States /\ Traffic(s, Used(m), {}, {})
  BY DEF Sound
<1>1. n = [s EXCEPT !.transactions = ts, !.timed = cs]
  BY DEF a_second_later
<1>2. /\ ts \in Seq(Transaction) /\ Len(ts) = Len(s.transactions)
      /\ \A i \in 1..Len(s.transactions) : /\ ts[i].mid = s.transactions[i].mid
                                           /\ ts[i].message = s.transactions[i].message
  <2> DEFINE list == s.transactions
             f == [i \in DOMAIN list |-> aged(list[i].idle)]
  <2>1. /\ list \in Seq(Transaction) /\ DOMAIN list = 1..Len(list)
        /\ \A i \in 1..Len(list) : list[i] \in Transaction
    BY <1>0, StateFields
  <2>2. \A i \in 1..Len(list) : f[i] \in Timer
    BY <2>1, TimerOps DEF Transaction
  <2>3. ts = [i \in DOMAIN list |-> [list[i] EXCEPT !.idle = f[i]]]
    OBVIOUS
  <2> HIDE DEF list, f, ts
  <2>4. Retimed(ts, list)
    BY <2>1, <2>2, <2>3, RetimedList
  <2> QED BY <2>4 DEF Retimed, list
<1>3. cs \in Seq(TimedCb) /\ Len(cs) = Len(s.timed)
  <2>1. cs = [i \in DOMAIN s.timed |-> [s.timed[i] EXCEPT !.timer = aged(s.timed[i].timer)]]
    OBVIOUS
  <2> HIDE DEF cs
  <2> QED BY <1>0, <2>1, RetimedCbs
<1> HIDE DEF ts, cs
<1>4. /\ n \in States /\ n.events = s.events /\ n.transactions = ts /\ n.timed = cs
      /\ n.incoming = s.incoming /\ n.outgoing = s.outgoing
      /\ n.client_cbs = s.client_cbs /\ n.handled = s.handled
  BY <1>0, <1>1, <1>2, <1>3 DEF States
<1>5. Len(n.events) <= QueueSize
  BY <1>0, <1>4 DEF Traffic
<1> QED BY <1>2, <1>3, <1>4, <1>5, RetimedSound

(***************************************************************************)
(* Requests of this device.                                                *)
(***************************************************************************)
\* A request: callback, transaction, message and delayed removal, or none of them.
LEMMA RequestSound ==
    ASSUME NEW s, NEW m \in Nat, Sound(s, m, {}, {}), m + 1 \in Mids, NEW token \in Tokens,
           NEW secured \in BOOLEAN, NEW hs \in BOOLEAN, NEW packed \in BOOLEAN,
           NEW n, n = do_request(s, m + 1, token, secured, hs, packed)
    PROVE  Sound(n, m + 1, {}, {})
<1> DEFINE k == m + 1
           x == alloc_client_cb(s, k, token, secured, hs)
           y == new_transaction(x, k, secured)
           t == Last(y.transactions)
           slot == Last(y.client_cbs).slot
<1>0. s \in States /\ Traffic(s, Used(m), {}, {}) /\ Callbacks(s, m)
  BY DEF Sound
<1>1. /\ Used(m) \subseteq Used(k) /\ k \notin Used(m) /\ Used(m) \cup {k} = Used(k) /\ k \in AnyMid
      /\ k \in Nat
  BY OcMessagingAssumption DEF Mids, Foreign, AnyMid, AnswerMids, Used
<1>2. CASE free_cb_slots(s) = {} \/ ~can_open_transaction(s)
  <2>1. n = s
    BY <1>2 DEF do_request
  <2>2. Callbacks(s, k)
    BY <1>0, CallbacksLater
  <2>3. Traffic(s, Used(k), {}, {})
    <3>1. Distinct(s.transactions, Used(k))
      BY <1>0, <1>1 DEF Traffic, Distinct
    <3> QED BY <1>0, <3>1 DEF Traffic
  <2> QED BY <1>0, <2>1, <2>2, <2>3 DEF Sound
<1>3. CASE ~(free_cb_slots(s) = {} \/ ~can_open_transaction(s))
  <2>1. n = dispatch_coap_request(y, secured, packed)
    BY <1>3 DEF do_request
  <2>2. /\ x \in States /\ SameTraffic(x, s) /\ Callbacks(x, k)
        /\ Len(x.client_cbs) \in Nat \ {0} /\ Last(x.client_cbs).slot \in 1..ClientCbs
    BY <1>0, <1>3, AllocHolds
  <2>3. Traffic(x, Used(m), {}, {}) /\ can_open_transaction(x)
    <3> HIDE DEF x
    <3>1. Traffic(x, Used(m), {}, {})
      BY <1>0, <2>2, SameTrafficHolds
    <3> QED BY <1>3, <2>2, <3>1 DEF can_open_transaction, SameTraffic
  <2>4. y = new_transaction(x, k, secured)
    OBVIOUS
  <2> HIDE DEF x, y, k
  <2>5. /\ y \in States /\ SameCallbacks(y, x) /\ Traffic(y, Used(k), {}, {})
        /\ Len(y.transactions) \in 1..Len(y.transactions)
    <3> DEFINE M == Used(m)
    <3>1. Traffic(x, M, {}, {}) /\ k \notin M /\ M \cup {k} = Used(k)
      BY <1>1, <2>3
    <3> HIDE DEF M
    <3>2. /\ y \in States /\ SameCallbacks(y, x) /\ Traffic(y, M \cup {k}, {}, {})
          /\ Len(y.transactions) \in 1..Len(y.transactions) /\ Last(y.transactions).mid = k
      <4>1. \A co \in BOOLEAN : \A yy : yy = new_transaction(x, k, co) =>
                /\ yy \in States /\ SameCallbacks(yy, x) /\ Traffic(yy, M \cup {k}, {}, {})
                /\ Len(yy.transactions) \in 1..Len(yy.transactions) /\ Last(yy.transactions).mid = k
        <5>1. /\ x \in States /\ Traffic(x, M, {}, {}) /\ k \in AnyMid
              /\ k \notin M /\ can_open_transaction(x)
          BY <1>1, <2>2, <2>3, <3>1
        <5> QED BY <5>1, OpenHolds
      <4> QED BY <2>4, <4>1
    <3> QED BY <3>1, <3>2
  <2>6. Callbacks(y, k) /\ slot \in 1..ClientCbs
    BY <2>2, <2>5, SameCallbacksHold DEF SameCallbacks
  <2>7. PICK j \in 1..Len(y.transactions) : t = y.transactions[j]
    BY <2>5 DEF Last
  <2> HIDE DEF t, slot
  <2>8. CASE packed
    <3> DEFINE z == send_transaction(y, t, secured)
    <3>1. n = add_timed_event_callback(z, slot)
      BY <2>1, <2>8 DEF dispatch_coap_request, t, slot
    <3>2. z \in States /\ SameCallbacks(z, y) /\ Traffic(z, Used(k), {}, {})
      <4>1. CASE secured = TRUE
        <5>1. z = send_transaction(y, t, TRUE)
          BY <4>1
        <5> HIDE DEF z
        <5> QED BY <2>5, <2>7, <5>1, CacheHolds
      <4>2. CASE secured = FALSE
        <5>1. z = send_transaction(y, t, FALSE)
          BY <4>2
        <5> HIDE DEF z
        <5> QED BY <2>5, <2>7, <5>1, SendAndClearHolds
      <4> QED BY <4>1, <4>2
    <3> HIDE DEF z
    <3>3. Callbacks(z, k)
      BY <2>6, <3>2, SameCallbacksHold
    <3>4. n \in States /\ SameTraffic(n, z) /\ Callbacks(n, k)
      BY <2>6, <3>1, <3>2, <3>3, AddTimedHolds
    <3>5. Traffic(n, Used(k), {}, {})
      BY <3>2, <3>4, SameTrafficHolds
    <3> QED BY <3>4, <3>5 DEF Sound, k
  <2>9. CASE ~packed
    <3> DEFINE z == clear_transaction(y, t)
    <3>1. n = free_client_cb(z, slot)
      BY <2>1, <2>9 DEF dispatch_coap_request, t, slot
    <3>2. z \in States /\ SameCallbacks(z, y) /\ Traffic(z, Used(k), {}, {})
      BY <2>5, <2>7, ClearHolds
    <3> HIDE DEF z
    <3>3. Callbacks(z, k)
      BY <2>6, <3>2, SameCallbacksHold
    <3>4. n \in States /\ SameTraffic(n, z) /\ Callbacks(n, k)
      BY <1>1, <3>1, <3>2, <3>3, FreeHolds
    <3>5. Traffic(n, Used(k), {}, {})
      BY <3>2, <3>4, SameTrafficHolds
    <3> QED BY <3>4, <3>5 DEF Sound, k
  <2> QED BY <2>8, <2>9
<1> QED BY <1>2, <1>3

(***************************************************************************)
(* The invariant.                                                          *)
(***************************************************************************)
IInv == made \in 0..MaxRequests /\ Sound(State, made, {}, {})

\* The state after a step.
LEMMA BecomesState ==
    ASSUME NEW next \in States, Becomes(next)
    PROVE  State' = next
<1>1. /\ events' = next.events /\ incoming' = next.incoming /\ outgoing' = next.outgoing
      /\ transactions' = next.transactions /\ client_cbs' = next.client_cbs
      /\ timed' = next.timed /\ handled' = next.handled
  BY DEF Becomes
<1>2. next = [events |-> next.events, incoming |-> next.incoming, outgoing |-> next.outgoing,
              transactions |-> next.transactions, client_cbs |-> next.client_cbs,
              timed |-> next.timed, handled |-> next.handled]
  BY DEF States
<1> QED BY <1>1, <1>2 DEF State

\* The invariant after a step that ends in a sound state.
LEMMA Preserved ==
    ASSUME NEW next, NEW m \in 0..MaxRequests, Sound(next, m, {}, {}), Becomes(next), made' = m
    PROVE  IInv'
<1>1. State' = next
  BY BecomesState DEF Sound
<1>2. Sound(State', made', {}, {})
  BY <1>1
<1> QED BY <1>2 DEF IInv

\* All pools are full at the start.
LEMMA InitIInv == Init => IInv
<1> SUFFICES ASSUME Init
             PROVE  IInv
  OBVIOUS
<1>1. /\ events = <<>> /\ incoming = [b \in Slot |-> FreeIn] /\ outgoing = [b \in Slot |-> FreeOut]
      /\ transactions = <<>> /\ client_cbs = <<>> /\ timed = <<>> /\ handled = [k \in Mids |-> 0]
      /\ made = 0
  BY DEF Init
<1>2. State \in States
  <2>1. FreeIn \in InBuf /\ FreeOut \in OutBuf
    BY OcMessagingAssumption DEF FreeIn, FreeOut, InBuf, OutBuf, Foreign
  <2>2. incoming \in [Slot -> InBuf] /\ outgoing \in [Slot -> OutBuf] /\ handled \in [Mids -> Nat]
    BY <1>1, <2>1
  <2>3. \A A : <<>> \in Seq(A)
    BY EmptySeq
  <2> QED BY <1>1, <2>2, <2>3 DEF State, States
<1>3. \A S : Count(<<>>, S) = 0
  BY FS_EmptySet DEF Count, Hits
<1>4. Traffic(State, Used(made), {}, {})
  <2>1. \A b \in Slot : ~State.incoming[b].used /\ State.incoming[b].ref_count = 0 /\ ~State.outgoing[b].used
    BY <1>1 DEF State, FreeIn, FreeOut
  <2>2. State.events = <<>> /\ State.transactions = <<>>
    BY <1>1 DEF State
  <2>3. InHeld(State, {})
    BY <1>3, <2>1, <2>2 DEF InHeld, One
  <2>4. OutHeld(State, {})
    BY <2>1 DEF OutHeld
  <2> QED BY <2>2, <2>3, <2>4, OcMessagingAssumption DEF Traffic, Distinct
<1>5. Callbacks(State, made)
  <2>1. State.client_cbs = <<>> /\ State.timed = <<>> /\ State.handled = [k \in Mids |-> 0]
    BY <1>1 DEF State
  <2> QED BY <2>1, OcMessagingAssumption DEF Callbacks, Distinct
<1>6. made \in 0..MaxRequests
  BY <1>1, OcMessagingAssumption
<1> QED BY <1>2, <1>4, <1>5, <1>6 DEF IInv, Sound

\* Every operation and every event keeps the invariant.
LEMMA StepIInv == IInv /\ [Next]_vars => IInv'
<1> SUFFICES ASSUME IInv, [Next]_vars
             PROVE  IInv'
  OBVIOUS
<1>0. /\ made \in 0..MaxRequests /\ made \in Nat /\ MaxRequests \in Nat
      /\ Sound(State, made, {}, {}) /\ State \in States /\ Traffic(State, Used(made), {}, {})
      /\ Callbacks(State, made)
  BY OcMessagingAssumption DEF IInv, Sound
<1>1. ASSUME NEW secured \in BOOLEAN, NEW packed \in BOOLEAN, NEW token \in Tokens,
             Request(secured, token, packed)
      PROVE  IInv'
  <2> DEFINE n == do_request(State, made + 1, token, secured, FALSE, packed)
  <2>1. made + 1 \in Mids /\ made + 1 \in 0..MaxRequests /\ made' = made + 1 /\ Becomes(n)
    <3>1. made < MaxRequests /\ made' = made + 1 /\ Becomes(n)
      BY <1>1 DEF Request
    <3> HIDE DEF n
    <3> QED BY <1>0, <3>1 DEF Mids
  <2>2. Sound(n, made + 1, {}, {})
    <3>1. \A hs \in BOOLEAN : \A x : x = do_request(State, made + 1, token, secured, hs, packed) =>
                Sound(x, made + 1, {}, {})
      BY <1>0, <2>1, RequestSound
    <3> QED BY <3>1
  <2> HIDE DEF n
  <2> QED BY <2>1, <2>2, Preserved
<1>2. ASSUME NEW token \in Tokens, HandshakePost(token)
      PROVE  IInv'
  <2> DEFINE x == replaced_handshake_cb(State)
             n == do_request(x, made + 1, token, FALSE, TRUE, TRUE)
  <2>1. made + 1 \in Mids /\ made + 1 \in 0..MaxRequests /\ made' = made + 1 /\ Becomes(n)
    <3>1. made < MaxRequests /\ made' = made + 1 /\ Becomes(n)
      BY <1>2 DEF HandshakePost
    <3> HIDE DEF n
    <3> QED BY <1>0, <3>1 DEF Mids
  <2>2. Sound(x, made, {}, {})
    <3>1. x \in States /\ SameTraffic(x, State) /\ Callbacks(x, made)
      BY <1>0, ReplacedHolds
    <3> HIDE DEF x
    <3> QED BY <1>0, <3>1, SoundCallbacks
  <2>3. Sound(n, made + 1, {}, {})
    <3> HIDE DEF x
    <3>1. \A secured, hs, packed \in BOOLEAN : \A y :
                y = do_request(x, made + 1, token, secured, hs, packed) => Sound(y, made + 1, {}, {})
      BY <1>0, <2>1, <2>2, RequestSound
    <3> QED BY <3>1
  <2> HIDE DEF n
  <2> QED BY <2>1, <2>3, Preserved
<1>3. ASSUME NEW msg \in Message, NetworkReceive(msg)
      PROVE  IInv'
  <2> DEFINE b == Min(free_slots(incoming))
             buf == [used |-> TRUE, ref_count |-> 1, msg |-> msg]
             new == [State.incoming EXCEPT ![b] = buf]
             got == [State EXCEPT !.incoming = new]
  <2>1. msg \in AnyMessage
    <3>1. \A i \in DOMAIN transactions : transactions[i].mid \in AnyMid
      <4>1. State.transactions = transactions
        BY DEF State
      <4> QED BY <1>0, <4>1, StateFields DEF Transaction
    <3>2. KnownMids \subseteq AnyMid
      BY <3>1, OcMessagingAssumption DEF KnownMids, AnyMid, Foreign
    <3> QED BY <3>2 DEF Message, AnyMessage
  <2>2. /\ free_slots(incoming) # {} /\ made' = made
        /\ IF queue_full(got) THEN Becomes(message_unref_in(got, b))
           ELSE Becomes(process_post(got, "INBOUND_NETWORK", b))
    BY <1>3 DEF NetworkReceive
  <2>3. State.incoming = incoming
    BY DEF State
  <2> HIDE DEF new
  <2>4. b \in Slot /\ got \in States /\ SameCallbacks(got, State) /\ Traffic(got, Used(made), {b}, {}) /\ got.events = State.events
    <3>1. /\ b = Min(free_slots(State.incoming)) /\ free_slots(State.incoming) # {}
          /\ buf = [used |-> TRUE, ref_count |-> 1, msg |-> msg]
          /\ new = [State.incoming EXCEPT ![b] = buf]
          /\ got = [State EXCEPT !.incoming = new]
      BY <2>2, <2>3 DEF new
    <3> HIDE DEF b, buf, got
    <3> QED BY <1>0, <2>1, <3>1, TakeInHolds
  <2> HIDE DEF b, got
  <2>5. Callbacks(got, made)
    BY <1>0, <2>4, SameCallbacksHold
  <2>6. CASE queue_full(got)
    <3> DEFINE n == message_unref_in(got, b)
    <3>1. Becomes(n)
      BY <2>2, <2>6
    <3>2. n \in States /\ SameCallbacks(n, got) /\ Traffic(n, Used(made), {}, {})
      BY <2>4, UnrefInHolds
    <3> HIDE DEF n
    <3>3. Sound(n, made, {}, {})
      BY <2>5, <3>2, SameCallbacksHold DEF Sound
    <3> QED BY <1>0, <2>2, <3>1, <3>3, Preserved
  <2>7. CASE ~queue_full(got)
    <3> DEFINE n == process_post(got, "INBOUND_NETWORK", b)
    <3>1. Becomes(n)
      BY <2>2, <2>7
    <3>2. Len(got.events) < QueueSize
      <4>1. Len(got.events) \in Nat /\ QueueSize \in Nat /\ Len(got.events) <= QueueSize
        BY <2>4, StateFields, OcMessagingAssumption DEF Traffic
      <4> QED BY <2>7, <4>1 DEF queue_full
    <3>3. n \in States /\ SameCallbacks(n, got) /\ Traffic(n, Used(made), {}, {})
      BY <2>4, <3>2, PostInHolds
    <3> HIDE DEF n
    <3>4. Sound(n, made, {}, {})
      BY <2>5, <3>3, SameCallbacksHold DEF Sound
    <3> QED BY <1>0, <2>2, <3>1, <3>4, Preserved
  <2> QED BY <2>6, <2>7
<1>4. ASSUME NEW seconds \in {0, 1}, Process(seconds)
      PROVE  IInv'
  <2> DEFINE n == IF seconds = 0 THEN State ELSE a_second_later(State)
  <2>1. Becomes(n) /\ made' = made
    BY <1>4 DEF Process
  <2>2. Sound(n, made, {}, {})
    BY <1>0, LaterSound
  <2> HIDE DEF n
  <2> QED BY <1>0, <2>1, <2>2, Preserved
<1>5. ASSUME RunOnce
      PROVE  IInv'
  <2>0. State.events = events
    BY DEF State
  <2>1. PICK posted \in kSubset(Min({Cardinality(due(State)), QueueSize - Len(State.events)}), due(State)) :
            Becomes(do_event(poll_timers(State, posted)))
    BY <1>5, <2>0 DEF RunOnce
  <2> DEFINE x == poll_timers(State, posted)
             n == do_event(x)
  <2>2. Sound(x, made, {}, {})
    BY <1>0, PollSound
  <2>3. made' = made /\ Becomes(n)
    BY <1>5, <2>1 DEF RunOnce
  <2>4. Sound(n, made, {}, {})
    <3> HIDE DEF x
    <3> QED BY <1>0, <2>2, EventSound
  <2> HIDE DEF n
  <2> QED BY <1>0, <2>3, <2>4, Preserved
<1>6. ASSUME UNCHANGED vars
      PROVE  IInv'
  BY <1>6 DEF vars, IInv, State
<1> QED BY <1>1, <1>2, <1>3, <1>4, <1>5, <1>6 DEF Next

(***************************************************************************)
(* What the invariant says.                                                *)
(***************************************************************************)
\* The holders of an outgoing buffer, counted in their two lists.
LEMMA HoldersCounted ==
    ASSUME IInv, NEW b \in Slot
    PROVE  /\ Cardinality(InboundHolders(b)) = Count(events, Inbound(b))
           /\ Cardinality(OutboundHolders(b)) = Count(events, Outbound(b)) + Count(transactions, On(b))
<1>1. State \in States /\ State.events = events /\ State.transactions = transactions
  BY DEF IInv, Sound, State
<1>2. /\ events \in Seq(Event) /\ Len(events) \in Nat /\ DOMAIN events = 1..Len(events)
      /\ \A i \in 1..Len(events) : events[i] \in Event
      /\ transactions \in Seq(Transaction) /\ Len(transactions) \in Nat
      /\ DOMAIN transactions = 1..Len(transactions)
      /\ \A i \in 1..Len(transactions) : transactions[i] \in Transaction
  BY <1>1, StateFields
<1>3. Len(events) <= QueueSize /\ QueueSize \in Nat
  BY <1>1, OcMessagingAssumption DEF IInv, Sound, Traffic
<1>4. InboundHolders(b) = Hits(events, Inbound(b))
  BY <1>2 DEF InboundHolders, Hits, Inbound
<1> DEFINE E == {i \in DOMAIN events : events[i].ev = "OUTBOUND" /\ events[i].data = b}
           H == {j \in DOMAIN transactions : transactions[j].message = b}
           T == {QueueSize + i : i \in H}
<1>5. E = Hits(events, Outbound(b))
  BY <1>2 DEF Hits, Outbound
<1>6. H = Hits(transactions, On(b))
  BY <1>2 DEF Hits, On
<1>7. OutboundHolders(b) = E \cup T
  BY DEF OutboundHolders
<1>8. /\ IsFiniteSet(E) /\ IsFiniteSet(H) /\ E \in SUBSET (1..Len(events))
      /\ H \in SUBSET (1..Len(transactions))
      /\ Cardinality(E) = Count(events, Outbound(b)) /\ Cardinality(H) = Count(transactions, On(b))
      /\ Cardinality(E) \in Nat /\ Cardinality(H) \in Nat
  <2> HIDE DEF E, H
  <2> QED BY <1>2, <1>5, <1>6, HitsFinite DEF Count
<1> HIDE DEF H
<1>9. IsFiniteSet(T) /\ Cardinality(T) = Cardinality(H)
  <2> DEFINE f == [i \in H |-> QueueSize + i]
  <2>1. H \subseteq Nat
    BY <1>2, <1>8
  <2>2. f \in [H -> T]
    OBVIOUS
  <2>3. \A i, j \in H : f[i] = f[j] => i = j
    BY <1>3, <2>1
  <2>4. \A y \in T : \E i \in H : f[i] = y
    OBVIOUS
  <2>5. f \in Bijection(H, T)
    <3> HIDE DEF f, T
    <3> QED BY <2>2, <2>3, <2>4 DEF Bijection, Injection, Surjection, IsInjective
  <2> HIDE DEF f, T
  <2> QED BY <1>8, <2>5, FS_Bijection DEF ExistsBijection
<1>10. E \cap T = {}
  <2>1. \A i \in E : i <= QueueSize /\ i \in Nat
    BY <1>2, <1>3, <1>8
  <2>2. \A j \in H : j \in Nat /\ j >= 1
    BY <1>2, <1>8
  <2> HIDE DEF E
  <2>3. \A j \in H : QueueSize + j > QueueSize
    BY <1>3, <2>2
  <2> QED BY <1>3, <2>1, <2>2, <2>3
<1> HIDE DEF E, T
<1>11. Cardinality(E \cup T) = Cardinality(E) + Cardinality(T)
  <2>1. Cardinality(E \cup T) = Cardinality(E) + Cardinality(T) - Cardinality(E \cap T)
    BY <1>8, <1>9, FS_Union
  <2>2. Cardinality(E \cap T) = 0
    BY <1>10, FS_EmptySet
  <2> QED BY <1>8, <1>9, <2>1, <2>2
<1> QED BY <1>4, <1>7, <1>8, <1>9, <1>11 DEF Count

\* The invariant accounts for every buffer and every request.
LEMMA IInvAccounted == IInv => Accounted
<1> SUFFICES ASSUME IInv
             PROVE  Accounted
  OBVIOUS
<1>1. /\ State \in States /\ Traffic(State, Used(made), {}, {}) /\ Callbacks(State, made)
      /\ made \in 0..MaxRequests
  BY DEF IInv, Sound
<1>2. /\ State.events = events /\ State.incoming = incoming /\ State.outgoing = outgoing
      /\ State.transactions = transactions /\ State.client_cbs = client_cbs
      /\ State.timed = timed /\ State.handled = handled
  BY DEF State
<1>3. /\ DOMAIN events = 1..Len(events) /\ \A i \in 1..Len(events) : events[i] \in Event
      /\ DOMAIN transactions = 1..Len(transactions)
      /\ \A i \in 1..Len(transactions) : transactions[i] \in Transaction
      /\ DOMAIN client_cbs = 1..Len(client_cbs)
      /\ \A i \in 1..Len(client_cbs) : client_cbs[i] \in ClientCb
      /\ DOMAIN timed = 1..Len(timed) /\ \A i \in 1..Len(timed) : timed[i] \in TimedCb
      /\ outgoing \in [Slot -> OutBuf]
  BY <1>1, <1>2, StateFields
<1>4. \A b \in Slot : /\ Count(events, Inbound(b)) \in Nat
                      /\ Count(events, Outbound(b)) \in Nat /\ Count(transactions, On(b)) \in Nat
  BY <1>1, <1>2, CountsNat
<1>5. \A b \in Slot : IF incoming[b].used
                      THEN incoming[b].ref_count = 1 /\ Count(events, Inbound(b)) = 1
                      ELSE incoming[b].ref_count = 0
  BY <1>1, <1>2, <1>4 DEF Traffic, InHeld, One
<1>6. TypeOK
  <2>1. Len(events) <= QueueSize /\ Len(transactions) <= Transactions
    BY <1>1, <1>2 DEF Traffic
  <2>2. Len(client_cbs) <= ClientCbs /\ Len(timed) <= EventCbs
    BY <1>1, <1>2 DEF Callbacks
  <2>3. \A i \in DOMAIN transactions : transactions[i] \in [mid : Mids \cup AnswerMids, message : Slot, idle : Timer]
    <3>1. \A i \in 1..Len(transactions) : transactions[i].mid \in Mids \cup AnswerMids
      <4>1. Used(made) \subseteq Mids \cup AnswerMids
        BY <1>1, OcMessagingAssumption DEF Mids, Used
      <4> QED BY <1>1, <1>2, <4>1 DEF Traffic, Distinct
    <3>2. \A t \in Transaction : t.mid \in Mids \cup AnswerMids => t \in [mid : Mids \cup AnswerMids, message : Slot, idle : Timer]
      BY DEF Transaction
    <3> QED BY <1>3, <3>1, <3>2
  <2>4. \A b \in Slot : incoming[b].used <=> incoming[b].ref_count > 0
    BY <1>5
  <2> QED BY <1>3, <2>1, <2>2, <2>3, <2>4 DEF TypeOK, ClientCb, TimedCb
<1>7. NoBufferLost
  <2> SUFFICES ASSUME NEW b \in Slot
               PROVE  /\ incoming[b].used => Cardinality(InboundHolders(b)) = 1
                      /\ outgoing[b].used => /\ outgoing[b].ref_count >= 1
                                             /\ Cardinality(OutboundHolders(b)) >= outgoing[b].ref_count
    BY DEF NoBufferLost
  <2>1. /\ Cardinality(InboundHolders(b)) = Count(events, Inbound(b))
        /\ Cardinality(OutboundHolders(b)) = Count(events, Outbound(b)) + Count(transactions, On(b))
    BY HoldersCounted
  <2>2. outgoing[b].used =>
            /\ 1 <= outgoing[b].ref_count
            /\ outgoing[b].ref_count <= Count(events, Outbound(b)) + Count(transactions, On(b)) + One(b \in {})
    BY <1>1, <1>2 DEF Traffic, OutHeld, OutHolders
  <2>3. outgoing[b].ref_count \in Int
    BY <1>3 DEF OutBuf
  <2> QED BY <1>4, <1>5, <2>1, <2>2, <2>3 DEF One
<1>8. HandledAtMostOnce
  BY <1>1, <1>2 DEF Callbacks, HandledAtMostOnce
<1> QED BY <1>6, <1>7, <1>8 DEF Accounted

(***************************************************************************)
(* Every buffer and every request of the messaging layer is accounted for, *)
(* whatever the sizes of the queue, of the pools and of the timeouts: a    *)
(* buffer that oc_allocate_message or oc_internal_allocate_outgoing_message*)
(* took is held by an event or a transaction that gives it back, through   *)
(* full queues, resent requests and timers that run out, and no response   *)
(* handler is called twice.                                                *)
(***************************************************************************)
THEOREM MessagingAccounted == Spec => []Accounted
<1>1. Init => IInv
  BY InitIInv
<1>2. IInv /\ [Next]_vars => IInv'
  BY StepIInv
<1>3. IInv => Accounted
  BY IInvAccounted
<1> QED BY <1>1, <1>2, <1>3, PTL DEF Spec
=============================================================================
