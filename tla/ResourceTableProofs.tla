------------------------ MODULE ResourceTableProofs ------------------------
(***************************************************************************)
(* Proofs about ResourceTable: whatever the application registers and in   *)
(* which order, a request gets its own handler, a secured one only for     *)
(* those it is meant for, and no handler that is served is replaced.  For  *)
(* any number of resources, any URIs and any requests; that the pool of    *)
(* secured methods suffices, for the number of resources the code has.     *)
(***************************************************************************)
EXTENDS ResourceTable, SequenceTheorems, FiniteSetTheorems, WellFoundedInduction, TLAPS

(***************************************************************************)
(* URIs.                                                                   *)
(***************************************************************************)
\* A stored URI is stored as it is.
LEMMA StoredTwice ==
    ASSUME NEW uri \in Uris
    PROVE  /\ oc_store_uri(uri) \in Uris
           /\ oc_store_uri(oc_store_uri(uri)) = oc_store_uri(uri)
           /\ oc_store_uri(uri) # <<>>
<1>1. CASE uri # <<>> /\ uri[1] = "/"
  BY <1>1 DEF oc_store_uri
<1>2. CASE ~(uri # <<>> /\ uri[1] = "/")
  <2> DEFINE slash == <<"/">>
             s == slash \o uri
  <2>0. slash \in Seq(Letters) /\ Len(slash) = 1 /\ slash[1] = "/"
    BY PoolAssumption
  <2>1. uri \in Seq(Letters) /\ Len(uri) \in Nat
    BY LenProperties DEF Uris
  <2> HIDE DEF slash
  <2>2. s \in Seq(Letters) /\ Len(s) = 1 + Len(uri) /\ s[1] = "/"
    <3>1. /\ slash \o uri \in Seq(Letters)
          /\ Len(slash \o uri) = Len(slash) + Len(uri)
          /\ \A i \in 1..(Len(slash) + Len(uri)) :
                (slash \o uri)[i] = IF i <= Len(slash) THEN slash[i] ELSE uri[i - Len(slash)]
      BY <2>0, <2>1, ConcatProperties
    <3>2. 1 \in 1..(Len(slash) + Len(uri)) /\ 1 <= Len(slash)
      BY <2>0, <2>1
    <3> QED BY <2>0, <3>1, <3>2
  <2>3. s # <<>>
    BY <2>1, <2>2
  <2>4. oc_store_uri(uri) = s
    BY <1>2 DEF oc_store_uri, slash
  <2> HIDE DEF s
  <2> QED BY <2>2, <2>3, <2>4 DEF oc_store_uri, Uris
<1> QED BY <1>1, <1>2

\* A set of natural numbers has a least element.
LEMMA LeastIndex ==
    ASSUME NEW T \in SUBSET Nat, T # {}
    PROVE  \E x \in T : \A y \in T : x <= y
<1> DEFINE R == OpToRel(<, Nat)
<1>1. \E x \in T : \A y \in T : ~(<<y, x>> \in R)
  <2>1. IsWellFoundedOn(R, Nat)
    BY NatLessThanWellFounded
  <2> HIDE DEF R
  <2> QED BY <2>1, WFMin
<1>2. \A x, y \in T : <<y, x>> \notin R => x <= y
  BY DEF OpToRel
<1> HIDE DEF R
<1> QED BY <1>1, <1>2

(***************************************************************************)
(* Resources and their handlers.  HandlerIn is the field of the method.    *)
(***************************************************************************)
Handlers == [uri : Uris, method : Methods \cup {"none"}, safe : BOOLEAN]

Resource ==
    [uri : Uris, interfaces : SUBSET InterfaceNames, default : SUBSET InterfaceNames,
     GET : Handlers, POST : Handlers]

Served == {GET, POST}

Tables ==
    [app : Seq(Resource), slots : Nat, secured : Seq(Uris \X Served), ok : BOOLEAN]

HandlerIn(r, method) == IF method = GET THEN r.GET ELSE r.POST

LEMMA ServedDistinct == GET # POST
BY DEF GET, POST

LEMMA NoneIsHandler == None \in Handlers /\ None.safe = FALSE
<1>1. <<>> \in Uris
  BY DEF Uris
<1> QED BY <1>1 DEF None, Handlers

LEMMA FieldOfMethod ==
    ASSUME NEW r \in Resource, NEW method \in Served
    PROVE  /\ r[method] = HandlerIn(r, method)
           /\ HandlerIn(r, method) \in Handlers
BY DEF Resource, Served, HandlerIn, GET, POST

\* Replacing one handler.
LEMMA WithHandler ==
    ASSUME NEW r \in Resource, NEW method \in Served, NEW h \in Handlers,
           NEW n, n = [r EXCEPT ![method] = h]
    PROVE  /\ n \in Resource
           /\ n.uri = r.uri /\ n.interfaces = r.interfaces /\ n.default = r.default
           /\ HandlerIn(n, method) = h
           /\ \A m \in Served \ {method} : HandlerIn(n, m) = HandlerIn(r, m)
<1>1. CASE method = GET
  BY <1>1 DEF Resource, Served, HandlerIn, GET, POST
<1>2. CASE method = POST
  BY <1>2 DEF Resource, Served, HandlerIn, GET, POST
<1> QED BY <1>1, <1>2 DEF Served

\* The search finds a resource with the URI if there is one.
LEMMA ByUri ==
    ASSUME NEW list \in Seq(Resource), NEW uri,
           NEW i, i = app_resource_by_uri(list, uri)
    PROVE  \/ i = 0 /\ \A j \in DOMAIN list : list[j].uri # oc_store_uri(uri)
           \/ i \in DOMAIN list /\ i # 0 /\ list[i].uri = oc_store_uri(uri)
<1> DEFINE found == {j \in DOMAIN list : list[j].uri = oc_store_uri(uri)}
<1>1. DOMAIN list \subseteq Nat /\ 0 \notin DOMAIN list
  BY LenProperties
<1>2. CASE found = {}
  BY <1>2 DEF app_resource_by_uri
<1>3. CASE found # {}
  <2>1. found \in SUBSET Nat
    BY <1>1
  <2>2. \E x \in found : \A y \in found : x <= y
    <3> HIDE DEF found
    <3> QED BY <1>3, <2>1, LeastIndex
  <2>3. i = CHOOSE x \in found : \A y \in found : x <= y
    BY <1>3 DEF app_resource_by_uri
  <2>4. i \in found
    <3> HIDE DEF found
    <3> QED BY <2>2, <2>3
  <2> QED BY <1>1, <2>4
<1> QED BY <1>2, <1>3

(***************************************************************************)
(* The operations on a table, field by field.                              *)
(***************************************************************************)
\* Only the handler of one method of one resource differs.
OnlyHandler(list, new, i, method) ==
    /\ new \in Seq(Resource) /\ Len(new) = Len(list)
    /\ \A j \in DOMAIN list :
          /\ new[j].uri = list[j].uri
          /\ new[j].interfaces = list[j].interfaces /\ new[j].default = list[j].default
          /\ \A m \in Served :
                <<j, m>> # <<i, method>> => HandlerIn(new[j], m) = HandlerIn(list[j], m)

LEMMA SetHandlerFields ==
    ASSUME NEW t \in Tables, NEW i \in DOMAIN t.app, NEW method \in Served, NEW h \in Handlers,
           NEW n, n = SetHandler(t, i, method, h)
    PROVE  /\ n \in Tables /\ n.slots = t.slots /\ n.secured = t.secured /\ n.ok = t.ok
           /\ OnlyHandler(t.app, n.app, i, method)
           /\ HandlerIn(n.app[i], method) = h
<1> DEFINE r == [t.app[i] EXCEPT ![method] = h]
           list == [t.app EXCEPT ![i] = r]
<1>1. t.app \in Seq(Resource) /\ t.app[i] \in Resource
  BY ElementOfSeq, LenProperties DEF Tables
<1>2. /\ r \in Resource
      /\ r.uri = t.app[i].uri /\ r.interfaces = t.app[i].interfaces /\ r.default = t.app[i].default
      /\ HandlerIn(r, method) = h
      /\ \A m \in Served \ {method} : HandlerIn(r, m) = HandlerIn(t.app[i], m)
  BY <1>1, WithHandler
<1>3. n = [t EXCEPT !.app = list]
  BY DEF SetHandler, Tables
<1> HIDE DEF r
<1>4. list \in Seq(Resource) /\ Len(list) = Len(t.app)
  BY <1>1, <1>2, ExceptSeq
<1>5. list[i] = r /\ \A j \in DOMAIN t.app \ {i} : list[j] = t.app[j]
  BY <1>1
<1> HIDE DEF list
<1>6. /\ n.app = list /\ n.slots = t.slots /\ n.secured = t.secured /\ n.ok = t.ok
      /\ n \in Tables
  BY <1>3, <1>4 DEF Tables
<1>7. OnlyHandler(t.app, list, i, method)
  BY <1>2, <1>4, <1>5 DEF OnlyHandler
<1> QED BY <1>2, <1>5, <1>6, <1>7

\* nexus_channel_sm_nexus_resource_method_new: the method becomes secured, or
\* its handler is taken away.
LEMMA MethodNewFields ==
    ASSUME NEW t \in Tables, NEW i \in DOMAIN t.app, NEW method \in Served,
           NEW n, n = resource_method_new(t, i, method)
    PROVE  /\ n \in Tables /\ n.slots = t.slots
           /\ OnlyHandler(t.app, n.app, i, method)
           /\ \/ /\ Len(t.secured) < SecuredPool
                 /\ n.app = t.app /\ n.secured = Append(t.secured, <<t.app[i].uri, method>>)
              \/ n.secured = t.secured /\ HandlerIn(n.app[i], method) = None
<1>1. t.app \in Seq(Resource) /\ t.app[i] \in Resource /\ t.secured \in Seq(Uris \X Served)
  BY ElementOfSeq, LenProperties DEF Tables
<1>2. CASE Len(t.secured) < SecuredPool
  <2> DEFINE entry == <<t.app[i].uri, method>>
             list == Append(t.secured, entry)
  <2>1. entry \in Uris \X Served
    BY <1>1 DEF Resource
  <2> HIDE DEF entry
  <2>2. list \in Seq(Uris \X Served)
    BY <1>1, <2>1, AppendProperties
  <2>3. n = [t EXCEPT !.secured = list]
    BY <1>2 DEF resource_method_new, entry, Tables
  <2> HIDE DEF list
  <2>4. n \in Tables /\ n.slots = t.slots /\ n.app = t.app /\ n.secured = list
    BY <2>2, <2>3 DEF Tables
  <2>5. OnlyHandler(t.app, n.app, i, method)
    BY <1>1, <2>4 DEF OnlyHandler
  <2> QED BY <1>2, <2>4, <2>5 DEF list, entry
<1>3. CASE ~(Len(t.secured) < SecuredPool)
  <2> DEFINE u == SetHandler(t, i, method, None)
  <2>1. /\ u \in Tables /\ u.slots = t.slots /\ u.secured = t.secured
        /\ OnlyHandler(t.app, u.app, i, method)
        /\ HandlerIn(u.app[i], method) = None
    BY SetHandlerFields, NoneIsHandler
  <2>2. n = [u EXCEPT !.ok = FALSE]
    BY <1>3 DEF resource_method_new, Refused
  <2> HIDE DEF u
  <2>3. n \in Tables /\ n.slots = u.slots /\ n.app = u.app /\ n.secured = u.secured
    BY <2>1, <2>2 DEF Tables
  <2> QED BY <2>1, <2>3
<1> QED BY <1>2, <1>3

(***************************************************************************)
(* The invariant of the tables.  URIs are unique and begin with a slash, a *)
(* handler is served where it was written for, and one that is registered  *)
(* as secured is on the list of secured methods - but for those in Open,   *)
(* which are being registered.                                             *)
(***************************************************************************)
OwnHandlers(r) ==
    \A m \in Served : HandlerIn(r, m) # None =>
        HandlerIn(r, m).uri = r.uri /\ HandlerIn(r, m).method = m

Shape(list) ==
    /\ \A i, j \in DOMAIN list : list[i].uri = list[j].uri => i = j
    /\ \A i \in DOMAIN list :
          /\ oc_store_uri(list[i].uri) = list[i].uri /\ list[i].uri # <<>>
          /\ list[i].default \subseteq list[i].interfaces
          /\ OwnHandlers(list[i])

Listed(sec, uri, m) == \E k \in DOMAIN sec : sec[k] = <<uri, m>>

Guarded(list, sec, Open) ==
    \A i \in DOMAIN list, m \in Served :
        <<i, m>> \notin Open /\ HandlerIn(list[i], m).safe => Listed(sec, list[i].uri, m)

Entries(list, sec) ==
    \A k \in DOMAIN sec : \E i \in DOMAIN list : list[i].uri = sec[k][1]

Sizes(t) ==
    /\ Len(t.app) <= t.slots /\ t.slots <= MaxAppResources
    /\ Len(t.secured) <= SecuredPool

Sound(t, Open) ==
    /\ t \in Tables /\ Shape(t.app) /\ Guarded(t.app, t.secured, Open)
    /\ Entries(t.app, t.secured) /\ Sizes(t)

\* A step that changes one handler to one of the method's own, or to none.
LEMMA ShapeKept ==
    ASSUME NEW list \in Seq(Resource), Shape(list), NEW i \in DOMAIN list, NEW method \in Served,
           NEW new, OnlyHandler(list, new, i, method),
           HandlerIn(new[i], method) # None =>
               /\ HandlerIn(new[i], method).uri = list[i].uri
               /\ HandlerIn(new[i], method).method = method
    PROVE  Shape(new)
<1>1. DOMAIN new = DOMAIN list
  BY LenProperties DEF OnlyHandler
<1>2. ASSUME NEW j \in DOMAIN list
      PROVE  /\ oc_store_uri(new[j].uri) = new[j].uri /\ new[j].uri # <<>>
             /\ new[j].default \subseteq new[j].interfaces
             /\ OwnHandlers(new[j])
  <2>1. /\ new[j].uri = list[j].uri
        /\ new[j].interfaces = list[j].interfaces /\ new[j].default = list[j].default
        /\ \A m \in Served :
              <<j, m>> # <<i, method>> => HandlerIn(new[j], m) = HandlerIn(list[j], m)
    BY DEF OnlyHandler
  <2>2. OwnHandlers(new[j])
    <3> SUFFICES ASSUME NEW m \in Served, HandlerIn(new[j], m) # None
                 PROVE  HandlerIn(new[j], m).uri = new[j].uri /\ HandlerIn(new[j], m).method = m
      BY DEF OwnHandlers
    <3>1. CASE j = i /\ m = method
      BY <2>1, <3>1
    <3>2. CASE ~(j = i /\ m = method)
      BY <2>1, <3>2 DEF Shape, OwnHandlers
    <3> QED BY <3>1, <3>2
  <2> QED BY <2>1, <2>2 DEF Shape
<1>3. ASSUME NEW j \in DOMAIN list, NEW k \in DOMAIN list, new[j].uri = new[k].uri
      PROVE  j = k
  BY <1>3 DEF Shape, OnlyHandler
<1> QED BY <1>1, <1>2, <1>3 DEF Shape

LEMMA EntriesKept ==
    ASSUME NEW list \in Seq(Resource), NEW new, NEW i, NEW method, NEW sec,
           OnlyHandler(list, new, i, method), Entries(list, sec)
    PROVE  Entries(new, sec)
<1>1. DOMAIN new = DOMAIN list
  BY LenProperties DEF OnlyHandler
<1> QED BY <1>1 DEF Entries, OnlyHandler

\* Securing a method leaves its handler listed or takes it away.
LEMMA MethodNewSound ==
    ASSUME NEW t, NEW Open, Sound(t, Open), NEW i \in DOMAIN t.app, NEW method \in Served,
           NEW n, n = resource_method_new(t, i, method)
    PROVE  /\ Sound(n, Open \ {<<i, method>>})
           /\ OnlyHandler(t.app, n.app, i, method)
<1> DEFINE Rest == Open \ {<<i, method>>}
<1>0. t \in Tables /\ t.app \in Seq(Resource) /\ t.secured \in Seq(Uris \X Served)
  BY DEF Sound, Tables
<1>1. /\ n \in Tables /\ n.slots = t.slots
      /\ OnlyHandler(t.app, n.app, i, method)
      /\ \/ /\ Len(t.secured) < SecuredPool
            /\ n.app = t.app /\ n.secured = Append(t.secured, <<t.app[i].uri, method>>)
         \/ n.secured = t.secured /\ HandlerIn(n.app[i], method) = None
  BY <1>0, MethodNewFields
<1>2. Len(n.app) = Len(t.app)
  BY <1>1 DEF OnlyHandler
<1>3. CASE /\ Len(t.secured) < SecuredPool
           /\ n.app = t.app /\ n.secured = Append(t.secured, <<t.app[i].uri, method>>)
  <2> DEFINE entry == <<t.app[i].uri, method>>
             len == Len(t.secured)
  <2>1. len \in Nat /\ DOMAIN t.secured = 1..len
    BY <1>0, LenProperties
  <2>2. t.app[i] \in Resource
    BY <1>0, ElementOfSeq, LenProperties
  <2>3. entry \in Uris \X Served
    BY <2>2 DEF Resource
  <2>4. /\ Len(n.secured) = len + 1 /\ DOMAIN n.secured = 1..(len + 1)
        /\ n.secured[len + 1] = entry
        /\ \A k \in 1..len : n.secured[k] = t.secured[k]
    <3> HIDE DEF entry
    <3>1. n.secured = Append(t.secured, entry)
      BY <1>3 DEF entry
    <3> QED BY <1>0, <2>1, <2>3, <3>1, AppendProperties, LenProperties
  <2>5. len + 1 \in DOMAIN n.secured /\ \A k \in 1..len : k \in DOMAIN n.secured
    BY <2>1, <2>4
  <2>6. Guarded(n.app, n.secured, Rest)
    <3> SUFFICES ASSUME NEW j \in DOMAIN t.app, NEW m \in Served,
                        <<j, m>> \notin Rest, HandlerIn(t.app[j], m).safe
                 PROVE  Listed(n.secured, t.app[j].uri, m)
      BY <1>3 DEF Guarded
    <3>1. CASE j = i /\ m = method
      BY <2>4, <2>5, <3>1 DEF Listed
    <3>2. CASE ~(j = i /\ m = method)
      <4>1. Listed(t.secured, t.app[j].uri, m)
        BY <3>2 DEF Sound, Guarded
      <4> QED BY <2>1, <2>4, <2>5, <4>1 DEF Listed
    <3> QED BY <3>1, <3>2
  <2>7. Entries(n.app, n.secured)
    <3> SUFFICES ASSUME NEW k \in 1..(len + 1)
                 PROVE  \E j \in DOMAIN t.app : t.app[j].uri = n.secured[k][1]
      BY <1>3, <2>4 DEF Entries
    <3>1. CASE k = len + 1
      BY <2>4, <3>1
    <3>2. CASE k \in 1..len
      BY <2>1, <2>4, <3>2 DEF Sound, Entries
    <3> QED BY <2>1, <3>1, <3>2
  <2>8. Sizes(n)
    <3>1. SecuredPool \in Nat
      BY PoolAssumption DEF SecuredPool
    <3> QED BY <1>1, <1>3, <2>1, <2>4, <3>1 DEF Sound, Sizes
  <2> QED BY <1>1, <1>3, <2>6, <2>7, <2>8 DEF Sound
<1>4. CASE n.secured = t.secured /\ HandlerIn(n.app[i], method) = None
  <2>1. Shape(n.app)
    BY <1>0, <1>1, <1>4, ShapeKept DEF Sound
  <2>2. DOMAIN n.app = DOMAIN t.app
    BY <1>0, <1>1, <1>2, LenProperties DEF Tables
  <2>3. Guarded(n.app, n.secured, Rest)
    <3> SUFFICES ASSUME NEW j \in DOMAIN t.app, NEW m \in Served,
                        <<j, m>> \notin Rest, HandlerIn(n.app[j], m).safe
                 PROVE  Listed(t.secured, n.app[j].uri, m)
      BY <1>4, <2>2 DEF Guarded
    <3>1. ~(j = i /\ m = method)
      BY <1>4, NoneIsHandler
    <3>2. HandlerIn(n.app[j], m) = HandlerIn(t.app[j], m) /\ n.app[j].uri = t.app[j].uri
      BY <1>1, <3>1 DEF OnlyHandler
    <3> QED BY <3>1, <3>2 DEF Sound, Guarded
  <2>4. Entries(n.app, n.secured)
    BY <1>0, <1>1, <1>4, EntriesKept DEF Sound
  <2>5. Sizes(n)
    BY <1>1, <1>2, <1>4 DEF Sound, Sizes
  <2> QED BY <1>1, <2>1, <2>3, <2>4, <2>5 DEF Sound
<1> QED BY <1>1, <1>3, <1>4

\* A handler put where there was none.
LEMMA SetHandlerSound ==
    ASSUME NEW t, Sound(t, {}), NEW i \in DOMAIN t.app, NEW method \in Served,
           NEW h \in Handlers, h.uri = t.app[i].uri, h.method = method,
           NEW n, n = SetHandler(t, i, method, h),
           NEW Open, h.safe => <<i, method>> \in Open
    PROVE  Sound(n, Open) /\ OnlyHandler(t.app, n.app, i, method)
<1>0. t \in Tables /\ t.app \in Seq(Resource)
  BY DEF Sound, Tables
<1>1. /\ n \in Tables /\ n.slots = t.slots /\ n.secured = t.secured
      /\ OnlyHandler(t.app, n.app, i, method)
      /\ HandlerIn(n.app[i], method) = h
  BY <1>0, SetHandlerFields
<1>2. Shape(n.app)
  BY <1>0, <1>1, ShapeKept DEF Sound
<1>3. Len(n.app) = Len(t.app) /\ DOMAIN n.app = DOMAIN t.app
  BY <1>0, <1>1, LenProperties DEF OnlyHandler, Tables
<1>4. Guarded(n.app, n.secured, Open)
  <2> SUFFICES ASSUME NEW j \in DOMAIN t.app, NEW m \in Served,
                      <<j, m>> \notin Open, HandlerIn(n.app[j], m).safe
               PROVE  Listed(t.secured, n.app[j].uri, m)
    BY <1>1, <1>3 DEF Guarded
  <2>1. ~(j = i /\ m = method)
    BY <1>1
  <2>2. HandlerIn(n.app[j], m) = HandlerIn(t.app[j], m) /\ n.app[j].uri = t.app[j].uri
    BY <1>1, <2>1 DEF OnlyHandler
  <2> QED BY <2>1, <2>2 DEF Sound, Guarded
<1>5. Entries(n.app, n.secured)
  BY <1>0, <1>1, EntriesKept DEF Sound
<1>6. Sizes(n)
  BY <1>1, <1>3 DEF Sound, Sizes
<1> QED BY <1>1, <1>2, <1>4, <1>5, <1>6 DEF Sound

\* What is asked to be registered: handlers written for the URI and method.
Proper(p) ==
    /\ p.uri \in Uris /\ p.interfaces \in Seq(InterfaceNames)
    /\ p.get_secured \in BOOLEAN /\ p.post_secured \in BOOLEAN
    /\ p.get \in {None, Handler(oc_store_uri(p.uri), GET, p.get_secured)}
    /\ p.post \in {None, Handler(oc_store_uri(p.uri), POST, p.post_secured)}

LEMMA HandlerType ==
    ASSUME NEW uri \in Uris, NEW method \in Served, NEW safe \in BOOLEAN
    PROVE  /\ Handler(uri, method, safe) \in Handlers
           /\ Handler(uri, method, safe).uri = uri
           /\ Handler(uri, method, safe).method = method
           /\ Handler(uri, method, safe).safe = safe
BY DEF Handler, Handlers, Methods, Served, GET, POST

LEMMA NewResource ==
    ASSUME NEW p, Proper(p),
           NEW r, r = bind_resource_interfaces(oc_new_resource(p), p.interfaces)
    PROVE  /\ r \in Resource /\ r.uri = oc_store_uri(p.uri)
           /\ r.GET = p.get /\ r.POST = p.post
           /\ r.default \subseteq r.interfaces
           /\ OwnHandlers(r)
           /\ r.GET.safe => p.get_secured
           /\ r.POST.safe => p.post_secured
<1> DEFINE uri == oc_store_uri(p.uri)
           faces == {"baseline"} \cup Range(p.interfaces)
           default == IF p.interfaces = <<>> THEN {"baseline"} ELSE {p.interfaces[1]}
<1>1. uri \in Uris
  BY StoredTwice DEF Proper
<1> HIDE DEF uri
<1>2. /\ p.get \in Handlers /\ p.post \in Handlers
      /\ p.get # None => p.get.uri = uri /\ p.get.method = GET
      /\ p.post # None => p.post.uri = uri /\ p.post.method = POST
      /\ p.get.safe => p.get_secured
      /\ p.post.safe => p.post_secured
  <2>1. p.get = None \/ p.get = Handler(uri, GET, p.get_secured)
    BY DEF Proper, uri
  <2>2. p.post = None \/ p.post = Handler(uri, POST, p.post_secured)
    BY DEF Proper, uri
  <2>3. p.get_secured \in BOOLEAN /\ p.post_secured \in BOOLEAN
    BY DEF Proper
  <2>4. GET \in Served /\ POST \in Served
    BY DEF Served
  <2> QED BY <1>1, <2>1, <2>2, <2>3, <2>4, HandlerType, NoneIsHandler
<1>3. faces \subseteq InterfaceNames /\ default \subseteq faces
  <2>1. p.interfaces \in Seq(InterfaceNames)
    BY DEF Proper
  <2>2. Range(p.interfaces) \subseteq InterfaceNames
    BY <2>1, LenProperties DEF Range
  <2>3. "baseline" \in InterfaceNames
    BY DEF InterfaceNames
  <2>4. p.interfaces # <<>> => p.interfaces[1] \in Range(p.interfaces)
    <3> SUFFICES ASSUME p.interfaces # <<>> PROVE 1 \in DOMAIN p.interfaces
      BY DEF Range
    <3>1. Len(p.interfaces) \in Nat \ {0} /\ DOMAIN p.interfaces = 1..Len(p.interfaces)
      BY <2>1, EmptySeq, LenProperties
    <3> QED BY <3>1
  <2> QED BY <2>2, <2>3, <2>4
<1>4. r = [uri |-> uri, interfaces |-> faces, default |-> default, GET |-> p.get, POST |-> p.post]
  BY DEF bind_resource_interfaces, oc_new_resource, uri
<1> HIDE DEF faces, default
<1>5. /\ r \in Resource /\ r.uri = uri /\ r.GET = p.get /\ r.POST = p.post
      /\ r.interfaces = faces /\ r.default = default
  BY <1>1, <1>2, <1>3, <1>4 DEF Resource
<1>6. OwnHandlers(r)
  BY <1>2, <1>5, ServedDistinct DEF OwnHandlers, HandlerIn, Served
<1> QED BY <1>2, <1>3, <1>5, <1>6 DEF uri

\* What was served stays.
Kept(list, new) ==
    \A j \in DOMAIN list :
        /\ j \in DOMAIN new /\ new[j].uri = list[j].uri
        /\ \A m \in Served : HandlerIn(list[j], m) # None => HandlerIn(new[j], m) = HandlerIn(list[j], m)

LEMMA OnlyEmptyKept ==
    ASSUME NEW list \in Seq(Resource), NEW mid, NEW new, NEW i, NEW method,
           Kept(list, mid), mid \in Seq(Resource), OnlyHandler(mid, new, i, method),
           i \in DOMAIN list => HandlerIn(list[i], method) = None
    PROVE  Kept(list, new)
<1>1. DOMAIN new = DOMAIN mid
  BY LenProperties DEF OnlyHandler
<1> SUFFICES ASSUME NEW j \in DOMAIN list
             PROVE  /\ j \in DOMAIN new /\ new[j].uri = list[j].uri
                    /\ \A m \in Served : HandlerIn(list[j], m) # None =>
                           HandlerIn(new[j], m) = HandlerIn(list[j], m)
  BY DEF Kept
<1>2. j \in DOMAIN mid /\ mid[j].uri = list[j].uri
  BY DEF Kept
<1>3. ASSUME NEW m \in Served, HandlerIn(list[j], m) # None
      PROVE  HandlerIn(new[j], m) = HandlerIn(list[j], m)
  <2>1. <<j, m>> # <<i, method>>
    BY <1>3
  <2> QED BY <1>2, <1>3, <2>1 DEF Kept, OnlyHandler
<1> QED BY <1>1, <1>2, <1>3 DEF OnlyHandler

\* A resource added at the end of the list.
LEMMA AddedSound ==
    ASSUME NEW t, Sound(t, {}), t.slots # MaxAppResources,
           NEW r \in Resource, oc_store_uri(r.uri) = r.uri, r.uri # <<>>,
           r.default \subseteq r.interfaces, OwnHandlers(r),
           \A j \in DOMAIN t.app : t.app[j].uri # r.uri,
           NEW Open, \A m \in Served : HandlerIn(r, m).safe => <<Len(t.app) + 1, m>> \in Open,
           NEW n, n = [[t EXCEPT !.slots = @ + 1] EXCEPT !.app = Append(@, r)]
    PROVE  /\ Sound(n, Open) /\ Kept(t.app, n.app)
           /\ Len(n.app) = Len(t.app) + 1
<1> DEFINE list == Append(t.app, r)
           len == Len(t.app)
<1>0. t \in Tables /\ t.app \in Seq(Resource) /\ t.slots \in Nat
  BY DEF Sound, Tables
<1>1. n = [t EXCEPT !.slots = t.slots + 1, !.app = list]
  BY <1>0 DEF Tables
<1>2. len \in Nat /\ DOMAIN t.app = 1..len
  BY <1>0, LenProperties
<1>3. /\ list \in Seq(Resource) /\ Len(list) = len + 1 /\ DOMAIN list = 1..(len + 1)
      /\ list[len + 1] = r /\ \A j \in 1..len : list[j] = t.app[j]
  BY <1>0, <1>2, AppendProperties, LenProperties
<1> HIDE DEF list
<1>4. /\ n \in Tables /\ n.app = list /\ n.slots = t.slots + 1 /\ n.secured = t.secured
  <2>1. t.slots + 1 \in Nat
    BY <1>0
  <2>2. n = [app |-> list, slots |-> t.slots + 1, secured |-> t.secured, ok |-> t.ok]
    BY <1>0, <1>1 DEF Tables
  <2>3. t.secured \in Seq(Uris \X Served) /\ t.ok \in BOOLEAN
    BY <1>0 DEF Tables
  <2> QED BY <1>3, <2>1, <2>2, <2>3 DEF Tables
<1>5. \A j \in DOMAIN list : (j = len + 1 /\ list[j] = r) \/ (j \in DOMAIN t.app /\ list[j] = t.app[j])
  BY <1>2, <1>3
<1>6. Shape(list)
  <2>1. ASSUME NEW j \in DOMAIN list
        PROVE  /\ oc_store_uri(list[j].uri) = list[j].uri /\ list[j].uri # <<>>
               /\ list[j].default \subseteq list[j].interfaces
               /\ OwnHandlers(list[j])
    BY <1>5 DEF Sound, Shape
  <2>2. ASSUME NEW j \in DOMAIN list, NEW k \in DOMAIN list, list[j].uri = list[k].uri
        PROVE  j = k
    BY <1>5, <2>2 DEF Sound, Shape
  <2> QED BY <2>1, <2>2 DEF Shape
<1>7. Guarded(list, t.secured, Open)
  <2> SUFFICES ASSUME NEW j \in DOMAIN list, NEW m \in Served,
                      <<j, m>> \notin Open, HandlerIn(list[j], m).safe
               PROVE  Listed(t.secured, list[j].uri, m)
    BY DEF Guarded
  <2>1. j \in DOMAIN t.app /\ list[j] = t.app[j]
    BY <1>5
  <2> QED BY <2>1 DEF Sound, Guarded
<1>8. Entries(list, t.secured)
  <2>1. \A j \in DOMAIN t.app : j \in DOMAIN list /\ list[j] = t.app[j]
    BY <1>2, <1>3
  <2> QED BY <2>1 DEF Sound, Entries
<1>9. Sizes(n)
  BY <1>0, <1>2, <1>3, <1>4, PoolAssumption DEF Sound, Sizes
<1>10. Kept(t.app, list)
  BY <1>2, <1>3 DEF Kept
<1> QED BY <1>3, <1>4, <1>6, <1>7, <1>8, <1>9, <1>10 DEF Sound

LEMMA RefusedSound ==
    ASSUME NEW t, Sound(t, {}), NEW n, n = Refused(t)
    PROVE  Sound(n, {}) /\ n.app = t.app
<1>1. t \in Tables
  BY DEF Sound
<1>2. n \in Tables /\ n.app = t.app /\ n.slots = t.slots /\ n.secured = t.secured
  BY <1>1 DEF Refused, Tables
<1> QED BY <1>2 DEF Sound, Sizes

\* Any table keeps its own handlers.
LEMMA KeptSame ==
    ASSUME NEW list
    PROVE  Kept(list, list)
BY DEF Kept

\* nx_channel_register_resource, with all its ways to fail.
LEMMA RegisterSound ==
    ASSUME NEW t, Sound(t, {}), NEW p, Proper(p),
           NEW n, n = nx_channel_register_resource(t, p)
    PROVE  Sound(n, {}) /\ Kept(t.app, n.app)
<1> DEFINE resource == bind_resource_interfaces(oc_new_resource(p), p.interfaces)
           taken == [t EXCEPT !.slots = @ + 1]
           i == Len(t.app) + 1
           added == [taken EXCEPT !.app = Append(@, resource)]
           got == IF p.get_secured THEN resource_method_new(added, i, GET) ELSE added
           done == IF p.post_secured THEN resource_method_new(got, i, POST) ELSE got
<1>0. t \in Tables /\ t.app \in Seq(Resource) /\ t.slots \in Nat /\ Sizes(t) /\ MaxAppResources \in Nat
  BY PoolAssumption DEF Sound, Tables
<1>1. CASE t.slots = MaxAppResources
  <2>1. n = Refused(t)
    BY <1>1 DEF nx_channel_register_resource
  <2> QED BY <2>1, RefusedSound, KeptSame
<1>2. CASE t.slots # MaxAppResources /\ ~can_add(t, resource)
  <2>1. n = Refused(taken)
    BY <1>2 DEF nx_channel_register_resource
  <2>2. taken \in Tables /\ taken.app = t.app /\ taken.secured = t.secured /\ taken.slots = t.slots + 1
    BY <1>0 DEF Tables
  <2> HIDE DEF taken
  <2>3. Sizes(taken)
    BY <1>0, <1>2, <2>2, LenProperties DEF Sizes
  <2>4. Sound(taken, {})
    BY <2>2, <2>3 DEF Sound
  <2> QED BY <2>1, <2>2, <2>4, RefusedSound, KeptSame
<1>3. CASE t.slots # MaxAppResources /\ can_add(t, resource)
  <2>1. n = done
    BY <1>3 DEF nx_channel_register_resource
  <2>2. /\ resource \in Resource /\ resource.uri = oc_store_uri(p.uri)
        /\ resource.default \subseteq resource.interfaces
        /\ OwnHandlers(resource)
        /\ resource.GET.safe => p.get_secured
        /\ resource.POST.safe => p.post_secured
    BY NewResource
  <2> HIDE DEF resource
  <2>3. p.uri \in Uris /\ p.get_secured \in BOOLEAN /\ p.post_secured \in BOOLEAN
    BY DEF Proper
  <2>4. oc_store_uri(resource.uri) = resource.uri /\ resource.uri # <<>>
    BY <2>2, <2>3, StoredTwice
  <2>5. \A j \in DOMAIN t.app : t.app[j].uri # resource.uri
    BY <1>0, <1>3, <2>4, ByUri DEF can_add
  <2> DEFINE Open == (IF p.get_secured THEN {<<i, GET>>} ELSE {}) \cup
                     (IF p.post_secured THEN {<<i, POST>>} ELSE {})
  <2>6. \A m \in Served : HandlerIn(resource, m).safe => <<i, m>> \in Open
    BY <2>2, ServedDistinct DEF Served, HandlerIn
  <2>7. Sound(added, Open) /\ Kept(t.app, added.app) /\ Len(added.app) = i
    <3> HIDE DEF Open
    <3> QED BY <1>3, <2>2, <2>4, <2>5, <2>6, AddedSound
  <2>8. i \notin DOMAIN t.app /\ i \in Nat \ {0}
    BY <1>0, LenProperties
  <2> HIDE DEF i, added
  <2>9. added.app \in Seq(Resource) /\ i \in DOMAIN added.app
    <3>1. added.app \in Seq(Resource)
      BY <2>7 DEF Sound, Tables
    <3> QED BY <2>7, <2>8, <3>1, LenProperties
  <2>10. /\ Sound(got, Open \ {<<i, GET>>}) /\ Kept(t.app, got.app)
         /\ got.app \in Seq(Resource) /\ i \in DOMAIN got.app
    <3>1. CASE p.get_secured
      <4>1. got = resource_method_new(added, i, GET) /\ GET \in Served
        BY <3>1 DEF Served
      <4> HIDE DEF got, Open
      <4>2. Sound(got, Open \ {<<i, GET>>}) /\ OnlyHandler(added.app, got.app, i, GET)
        BY <2>7, <2>9, <4>1, MethodNewSound
      <4>3. got.app \in Seq(Resource) /\ i \in DOMAIN got.app
        BY <2>9, <4>2, LenProperties DEF OnlyHandler
      <4> QED BY <1>0, <2>7, <2>8, <2>9, <4>2, <4>3, OnlyEmptyKept
    <3>2. CASE ~p.get_secured
      <4>1. got = added
        BY <3>2
      <4>2. Open \ {<<i, GET>>} = Open
        BY <3>2, ServedDistinct
      <4> HIDE DEF got, Open
      <4> QED BY <2>7, <2>9, <4>1, <4>2
    <3> QED BY <2>3, <3>1, <3>2
  <2> HIDE DEF got
  <2>11. Sound(done, {}) /\ Kept(t.app, done.app)
    <3>1. CASE p.post_secured
      <4>1. done = resource_method_new(got, i, POST) /\ POST \in Served
        BY <3>1 DEF Served
      <4> DEFINE Rest == Open \ {<<i, GET>>}
      <4>2. Rest \ {<<i, POST>>} = {} /\ Sound(got, Rest)
        BY <2>10
      <4> HIDE DEF done, Open, Rest
      <4>3. Sound(done, Rest \ {<<i, POST>>}) /\ OnlyHandler(got.app, done.app, i, POST)
        BY <2>10, <4>1, <4>2, MethodNewSound
      <4>4. Sound(done, {})
        BY <4>2, <4>3
      <4> QED BY <1>0, <2>8, <2>10, <4>3, <4>4, OnlyEmptyKept
    <3>2. CASE ~p.post_secured
      <4>1. done = got
        BY <3>2
      <4>2. Open \ {<<i, GET>>} = {}
        BY <3>2
      <4> HIDE DEF done, Open
      <4> QED BY <2>10, <4>1, <4>2
    <3> QED BY <2>3, <3>1, <3>2
  <2> QED BY <2>1, <2>11
<1> QED BY <1>1, <1>2, <1>3

\* nx_channel_register_resource_handler, with all its ways to fail.
LEMMA RegisterHandlerSound ==
    ASSUME NEW t, Sound(t, {}), NEW uri \in Uris, NEW method, NEW safe \in BOOLEAN,
           NEW n, n = nx_channel_register_resource_handler(t, uri, method,
                          Handler(oc_store_uri(uri), method, safe), safe)
    PROVE  Sound(n, {}) /\ Kept(t.app, n.app)
<1> DEFINE i == app_resource_by_uri(t.app, uri)
           h == Handler(oc_store_uri(uri), method, safe)
           set == SetHandler(t, i, method, h)
<1>0. t \in Tables /\ t.app \in Seq(Resource)
  BY DEF Sound, Tables
<1>1. \/ i = 0
      \/ i \in DOMAIN t.app /\ i # 0 /\ t.app[i].uri = oc_store_uri(uri)
  BY <1>0, ByUri
<1>2. CASE n = Refused(t)
  BY <1>2, RefusedSound, KeptSame
<1>3. CASE n # Refused(t)
  <2>1. /\ i # 0 /\ method \in Served /\ t.app[i][method] = None
        /\ n = IF safe THEN resource_method_new(set, i, method) ELSE set
    BY <1>3 DEF nx_channel_register_resource_handler, nexus_channel_set_request_handler, Served
  <2> HIDE DEF i
  <2>2. /\ oc_store_uri(uri) \in Uris
        /\ h \in Handlers /\ h.uri = oc_store_uri(uri) /\ h.method = method /\ h.safe = safe
    BY <2>1, StoredTwice, HandlerType
  <2>3. i \in DOMAIN t.app /\ t.app[i].uri = oc_store_uri(uri)
    BY <1>1, <2>1
  <2>4. HandlerIn(t.app[i], method) = None
    BY <1>0, <2>1, <2>3, FieldOfMethod, ElementOfSeq, LenProperties
  <2> HIDE DEF h
  <2> DEFINE Open == IF safe THEN {<<i, method>>} ELSE {}
  <2>5. Sound(set, Open) /\ OnlyHandler(t.app, set.app, i, method)
    <3>1. h.safe => <<i, method>> \in Open
      BY <2>2
    <3> HIDE DEF Open
    <3> QED BY <2>1, <2>2, <2>3, <3>1, SetHandlerSound
  <2> HIDE DEF set
  <2>6. set.app \in Seq(Resource) /\ i \in DOMAIN set.app
    BY <1>0, <2>3, <2>5, LenProperties DEF OnlyHandler
  <2>7. Kept(t.app, set.app)
    BY <1>0, <2>4, <2>5, KeptSame, OnlyEmptyKept
  <2>8. CASE safe
    <3>1. n = resource_method_new(set, i, method)
      BY <2>1, <2>8
    <3>2. Sound(n, Open \ {<<i, method>>}) /\ OnlyHandler(set.app, n.app, i, method)
      BY <2>1, <2>5, <2>6, <3>1, MethodNewSound
    <3>3. Open \ {<<i, method>>} = {}
      BY <2>8
    <3> QED BY <1>0, <2>4, <2>6, <2>7, <3>2, <3>3, OnlyEmptyKept
  <2>9. CASE ~safe
    BY <2>1, <2>5, <2>7, <2>9
  <2> QED BY <2>8, <2>9
<1> QED BY <1>2, <1>3

(***************************************************************************)
(* The steps.                                                              *)
(***************************************************************************)
TableInv == Sound(Table, {})

LEMMA BuiltInProper == Proper(BuiltIn[1]) /\ Proper(BuiltIn[2])
<1>1. /\ <<"/", "h">> \in Uris /\ <<"/", "l">> \in Uris
  BY PoolAssumption DEF Uris
<1>2. /\ oc_store_uri(<<"/", "h">>) = <<"/", "h">>
      /\ oc_store_uri(<<"/", "l">>) = <<"/", "l">>
  BY DEF oc_store_uri
<1>3. <<"rw", "baseline">> \in Seq(InterfaceNames)
  BY DEF InterfaceNames
<1> QED BY <1>1, <1>2, <1>3 DEF Proper, BuiltIn

LEMMA NoResourcesSound == Sound(NoResources, {})
<1>1. /\ NoResources.app = <<>> /\ NoResources.slots = 0 /\ NoResources.secured = <<>>
      /\ NoResources \in Tables
  BY DEF NoResources, Tables
<1>2. Shape(<<>>) /\ Guarded(<<>>, <<>>, {}) /\ Entries(<<>>, <<>>)
  BY DEF Shape, Guarded, Entries
<1>3. Sizes(NoResources)
  BY <1>1, PoolAssumption DEF Sizes, SecuredPool
<1> QED BY <1>1, <1>2, <1>3 DEF Sound

LEMMA TableFields ==
    /\ Table.app = app /\ Table.slots = slots /\ Table.secured = secured
    /\ \A t : Sound(t, {}) /\ app = t.app /\ slots = t.slots /\ secured = t.secured => TableInv
<1>1. Table.app = app /\ Table.slots = slots /\ Table.secured = secured /\ Table.ok = TRUE
  BY DEF Table
<1>2. ASSUME NEW t, Sound(t, {}), app = t.app, slots = t.slots, secured = t.secured
      PROVE  TableInv
  <2>1. Table \in Tables
    BY <1>2 DEF Table, Tables, Sound
  <2> QED BY <1>1, <1>2, <2>1 DEF TableInv, Sound, Sizes
<1> QED BY <1>1, <1>2

LEMMA TableInit == Init => TableInv
<1> SUFFICES ASSUME Init PROVE TableInv
  OBVIOUS
<1> DEFINE handshake == nx_channel_register_resource(NoResources, BuiltIn[1])
           t == nx_channel_register_resource(handshake, BuiltIn[2])
<1>1. app = t.app /\ slots = t.slots /\ secured = t.secured
  BY DEF Init
<1>2. Sound(handshake, {})
  BY NoResourcesSound, BuiltInProper, RegisterSound
<1> HIDE DEF handshake
<1>3. Sound(t, {})
  BY <1>2, BuiltInProper, RegisterSound
<1> HIDE DEF t
<1> QED BY <1>1, <1>3, TableFields

\* A table that takes the place of the one before.
LEMMA BecomesKeeps ==
    ASSUME NEW t, Sound(t, {}), Becomes(t)
    PROVE  TableInv' /\ app' = t.app
<1>1. app' = t.app /\ slots' = t.slots /\ secured' = t.secured
  BY DEF Becomes
<1>2. Table'.app = app' /\ Table'.slots = slots' /\ Table'.secured = secured'
  BY DEF Table
<1>3. Table' \in Tables
  BY <1>1 DEF Table, Tables, Sound
<1> QED BY <1>1, <1>2, <1>3 DEF TableInv, Sound, Sizes

LEMMA TableNext ==
    TableInv /\ [Next]_vars => TableInv' /\ Kept(app, app')
<1> SUFFICES ASSUME TableInv, [Next]_vars PROVE TableInv' /\ Kept(app, app')
  OBVIOUS
<1>0. Sound(Table, {}) /\ Table.app = app
  BY TableFields DEF TableInv
<1>1. ASSUME NEW p \in Offered.resources, Register(p) PROVE TableInv' /\ Kept(app, app')
  <2> DEFINE n == nx_channel_register_resource(Table, p)
  <2>1. Becomes(n) /\ Proper(p)
    BY <1>1, OfferedAssumption DEF Register, Proper
  <2>2. Sound(n, {}) /\ Kept(Table.app, n.app)
    BY <1>0, <2>1, RegisterSound
  <2> HIDE DEF n
  <2> QED BY <1>0, <2>1, <2>2, BecomesKeeps
<1>2. ASSUME NEW h \in Offered.handlers, NEW method \in {GET, POST, "PUT"},
             RegisterHandler(h.uri, method, Handler(oc_store_uri(h.uri), method, h.safe), h.safe)
      PROVE  TableInv' /\ Kept(app, app')
  <2> DEFINE n == nx_channel_register_resource_handler(Table, h.uri, method,
                      Handler(oc_store_uri(h.uri), method, h.safe), h.safe)
  <2>1. Becomes(n) /\ h.uri \in Uris /\ h.safe \in BOOLEAN
    BY <1>2, OfferedAssumption DEF RegisterHandler
  <2>2. Sound(n, {}) /\ Kept(Table.app, n.app)
    BY <1>0, <2>1, RegisterHandlerSound
  <2> HIDE DEF n
  <2> QED BY <1>0, <2>1, <2>2, BecomesKeeps
<1>3. UNCHANGED <<app, slots, secured>> => TableInv' /\ Kept(app, app')
  BY KeptSame DEF TableInv, Table
<1>4. Finish \/ (\E request \in Requests : Receive(request)) \/ UNCHANGED vars
      => UNCHANGED <<app, slots, secured>>
  BY DEF Finish, Receive, vars
<1> QED BY <1>1, <1>2, <1>3, <1>4 DEF Next

\* What TableInv says of the variables.
LEMMA TableFacts ==
    ASSUME TableInv
    PROVE  /\ app \in Seq(Resource) /\ slots \in Nat /\ secured \in Seq(Uris \X Served)
           /\ Shape(app) /\ Guarded(app, secured, {}) /\ Entries(app, secured)
           /\ Len(app) <= slots /\ slots <= MaxAppResources /\ Len(secured) <= SecuredPool
BY TableFields DEF TableInv, Sound, Sizes, Tables

LEMMA TableIsTyped == TableInv => TypeOK
<1> SUFFICES ASSUME TableInv PROVE TypeOK
  OBVIOUS
<1>1. /\ app \in Seq(Resource) /\ secured \in Seq(Uris \X Served)
      /\ Shape(app) /\ Entries(app, secured)
      /\ Len(app) <= slots /\ slots <= MaxAppResources /\ Len(secured) <= SecuredPool
  BY TableFacts
<1>2. ASSUME NEW i \in DOMAIN app
      PROVE  /\ HandlerOrNone(app[i].GET) /\ HandlerOrNone(app[i].POST)
             /\ app[i].default \subseteq app[i].interfaces
  <2>1. /\ app[i].uri # <<>> /\ app[i].default \subseteq app[i].interfaces
        /\ OwnHandlers(app[i])
    BY <1>1 DEF Shape
  <2>2. app[i] \in Resource
    BY <1>1, ElementOfSeq, LenProperties
  <2>3. ASSUME NEW m \in Served PROVE HandlerOrNone(HandlerIn(app[i], m))
    <3>1. HandlerIn(app[i], m) \in Handlers
      BY <2>2, FieldOfMethod
    <3>2. HandlerIn(app[i], m).safe \in BOOLEAN
      BY <3>1 DEF Handlers
    <3> QED BY <2>1, <3>2 DEF HandlerOrNone, OwnHandlers, Served
  <2>4. HandlerIn(app[i], GET) = app[i].GET /\ HandlerIn(app[i], POST) = app[i].POST
    BY ServedDistinct DEF HandlerIn
  <2> QED BY <2>1, <2>3, <2>4 DEF Served
<1>3. ASSUME NEW k \in DOMAIN secured PROVE app_resource_by_uri(app, secured[k][1]) # 0
  <2>1. PICK i \in DOMAIN app : app[i].uri = secured[k][1]
    BY <1>1 DEF Entries
  <2>2. oc_store_uri(secured[k][1]) = secured[k][1]
    BY <1>1, <2>1 DEF Shape
  <2> QED BY <1>1, <2>1, <2>2, ByUri
<1> QED BY <1>1, <1>2, <1>3 DEF TypeOK

\* The resource a request finds: one of the core, which has no handlers, or
\* the one of the table.
LEMMA Found ==
    ASSUME TableInv, NEW path \in Uris
    PROVE  \/ FindResource(path) = {}
           \/ \E uri : FindResource(path) = {core_resource(uri)}
           \/ \E i \in DOMAIN app :
                 /\ FindResource(path) = {app[i]} /\ app[i].uri = oc_store_uri(path)
                 /\ i # 0 /\ i = app_resource_by_uri(app, path)
<1> DEFINE i == app_resource_by_uri(app, path)
<1>1. i = 0 \/ (i \in DOMAIN app /\ i # 0 /\ app[i].uri = oc_store_uri(path))
  BY TableFacts, ByUri
<1> HIDE DEF i
<1>2. \/ FindResource(path) = {core_resource(oc_store_uri(path))}
      \/ i = 0 /\ FindResource(path) = {}
      \/ i # 0 /\ FindResource(path) = {app[i]}
  BY DEF FindResource, i
<1> QED BY <1>1, <1>2 DEF i

\* oc_ri_invoke_coap_entity_handler: what ran is the handler of the one
\* resource found, and its verdict is the code; when nothing ran, the code is
\* not one of success.
LEMMA Invoked ==
    ASSUME TableInv, NEW request \in Requests,
           NEW done, done = invoke_coap_entity_handler(request)
    PROVE  /\ done.ran = None => done.code \notin Successes
           /\ done.ran # None =>
                \/ done.code = oc_status_code[request.verdict]
                \/ done.code = "ignore" /\ request.multicast /\ request.verdict = "BAD_REQUEST"
           /\ done.ran # None =>
                /\ request.method \in Served
                /\ \E i \in DOMAIN app :
                      /\ app[i].uri = oc_store_uri(request.path)
                      /\ i # 0 /\ i = app_resource_by_uri(app, request.path)
                      /\ done.ran = HandlerIn(app[i], request.method)
<1> DEFINE asked == interface_mask(query_value(request.query))
           found == FindResource(request.path)
           resource == CHOOSE r \in found : TRUE
           mask == IF asked = {} /\ found # {} THEN resource.default ELSE asked
           error == error_status(request.payload, found, mask, request.method)
<1>0. /\ request.path \in Uris /\ request.method \in Methods
      /\ request.payload \in {"none", "valid", "cut", "malformed"}
      /\ request.multicast \in BOOLEAN
  BY RequestsAssumption
<1>1. done = IF error = ""
             THEN [ran |-> HandlerFor(resource, request.method),
                   code |-> IF request.multicast /\ request.verdict = "BAD_REQUEST" THEN "ignore"
                            ELSE oc_status_code[request.verdict]]
             ELSE [ran |-> None, code |-> IF request.multicast THEN "ignore" ELSE oc_status_code[error]]
  BY DEF invoke_coap_entity_handler
<1> HIDE DEF asked, mask, error
<1>2. CASE error = ""
  <2>1. /\ found # {}
        /\ \A r \in found : HandlerFor(r, request.method) # None
    <3>1. error_status(request.payload, found, mask, request.method) = ""
      BY <1>2 DEF error
    <3> HIDE DEF found
    <3> QED BY <1>0, <3>1 DEF error_status
  <2>2. resource \in found
    <3> HIDE DEF found
    <3> QED BY <2>1
  <2>3. /\ done.ran = HandlerFor(resource, request.method) /\ done.ran # None
        /\ \/ done.code = oc_status_code[request.verdict]
           \/ done.code = "ignore" /\ request.multicast /\ request.verdict = "BAD_REQUEST"
    <3> HIDE DEF found, resource
    <3> DEFINE code == IF request.multicast /\ request.verdict = "BAD_REQUEST" THEN "ignore"
                       ELSE oc_status_code[request.verdict]
    <3>1. \/ code = oc_status_code[request.verdict]
          \/ code = "ignore" /\ request.multicast /\ request.verdict = "BAD_REQUEST"
      OBVIOUS
    <3> HIDE DEF code
    <3>2. done = [ran |-> HandlerFor(resource, request.method), code |-> code]
      BY <1>1, <1>2 DEF code
    <3> QED BY <2>1, <2>2, <3>1, <3>2
  <2> HIDE DEF resource
  <2>4. \A uri : HandlerFor(core_resource(uri), request.method) = None
    BY DEF HandlerFor, core_resource, GET, POST
  <2>5. PICK i \in DOMAIN app :
              /\ found = {app[i]} /\ app[i].uri = oc_store_uri(request.path)
              /\ i # 0 /\ i = app_resource_by_uri(app, request.path)
    BY <1>0, <2>1, <2>4, Found
  <2>6. resource = app[i] /\ app[i] \in Resource
    BY <2>2, <2>5, TableFacts, ElementOfSeq, LenProperties
  <2>7. request.method \in Served /\ done.ran = app[i][request.method]
    BY <2>3, <2>6 DEF HandlerFor, Served
  <2> QED BY <2>3, <2>5, <2>6, <2>7, FieldOfMethod
<1>3. CASE error # ""
  <2>1. error \in {"REQUEST_ENTITY_TOO_LARGE", "BAD_REQUEST", "NOT_FOUND", "FORBIDDEN",
                   "METHOD_NOT_ALLOWED"}
    <3> HIDE DEF found
    <3> QED BY <1>3 DEF error, error_status
  <2>2. oc_status_code[error] \in {"4.13", "4.00", "4.04", "4.03", "4.05"}
    BY <2>1 DEF oc_status_code
  <2> DEFINE code == IF request.multicast THEN "ignore" ELSE oc_status_code[error]
  <2>3. code \notin Successes
    BY <1>0, <2>2 DEF Successes
  <2> HIDE DEF code
  <2>4. done = [ran |-> None, code |-> code]
    BY <1>1, <1>3 DEF code
  <2> QED BY <2>3, <2>4
<1> QED BY <1>2, <1>3

\* What became of a request, without and with a handler that ran, and
\* whether the device survives the copy of an answer without payload or not.
LEMMA Answers ==
    ASSUME TableInv, NEW request \in Requests, NEW survives, NEW got, got = answer(request, survives)
    PROVE  /\ got.ran = None => got.code \notin Successes
           /\ got.ran # None =>
                \/ got.code = oc_status_code[request.verdict]
                \/ got.code = "none" /\ request.multicast /\ request.verdict = "BAD_REQUEST"
                \/ got.code = "fault" /\ request.linked /\ response_length(request.size) = 0
           /\ got.ran # None =>
                /\ authenticate(request) = "passed"
                /\ got.ran = invoke_coap_entity_handler(request).ran
                /\ reply_is_secured(request) /\ got.length > 0 => got.secured
<1> DEFINE status == authenticate(request)
           done == invoke_coap_entity_handler(request)
           length == IF done.ran = None THEN 0 ELSE response_length(request.size)
           says(code, safe, n) == [ran |-> done.ran, code |-> code, secured |-> safe, length |-> n]
<1>1. got = IF status # "passed" THEN [ran |-> None, code |-> status, secured |-> FALSE, length |-> 0]
            ELSE IF done.code = "ignore" THEN says("none", FALSE, 0)
            ELSE IF ~reply_is_secured(request) THEN says(done.code, FALSE, length)
            ELSE IF length > MaxSecuredPayload THEN says(done.code, FALSE, 0)
            ELSE IF length = 0 /\ ~survives THEN says("fault", FALSE, 0)
            ELSE says(done.code, TRUE, length)
  BY DEF answer
<1>2. /\ done.ran = None => done.code \notin Successes
      /\ done.ran # None =>
           \/ done.code = oc_status_code[request.verdict]
           \/ done.code = "ignore" /\ request.multicast /\ request.verdict = "BAD_REQUEST"
  BY Invoked
<1>3. status \in {"4.00", "4.01", "4.03", "passed"}
  BY DEF authenticate
<1>4. reply_is_secured(request) => request.linked
  BY DEF reply_is_secured
<1>5. done.ran # None => length = response_length(request.size)
  OBVIOUS
<1>6. "none" \notin Successes /\ "fault" \notin Successes
  BY DEF Successes
<1>7. oc_status_code[request.verdict] # "ignore"
  <2>1. request.verdict \in Verdicts
    BY RequestsAssumption
  <2> QED BY <2>1 DEF Verdicts, oc_status_code
<1> HIDE DEF status, done, length
<1>8. CASE status # "passed"
  <2>1. got = [ran |-> None, code |-> status, secured |-> FALSE, length |-> 0]
    BY <1>1, <1>8
  <2>2. got.ran = None /\ got.code = status
    BY <2>1
  <2> QED BY <1>3, <1>8, <2>2 DEF Successes
<1>9. CASE status = "passed"
  <2>1. CASE done.code = "ignore"
    <3>1. got = says("none", FALSE, 0)
      BY <1>1, <1>9, <2>1
    <3>2. got.ran = done.ran /\ got.code = "none" /\ got.length = 0
      BY <3>1
    <3>3. ~(got.length > 0)
      BY <3>2
    <3> QED BY <1>2, <1>6, <1>7, <1>9, <2>1, <3>2, <3>3 DEF status, done
  <2>2. CASE done.code # "ignore"
    <3>1. /\ got.ran = done.ran
          /\ \/ got.code = done.code
             \/ got.code = "fault" /\ reply_is_secured(request) /\ length = 0
          /\ reply_is_secured(request) => got.secured = TRUE \/ got.length = 0
      <4>1. CASE ~reply_is_secured(request)
        BY <1>1, <1>9, <2>2, <4>1
      <4>2. CASE reply_is_secured(request) /\ length > MaxSecuredPayload
        BY <1>1, <1>9, <2>2, <4>2
      <4>3. CASE reply_is_secured(request) /\ ~(length > MaxSecuredPayload) /\ length = 0 /\ ~survives
        BY <1>1, <1>9, <2>2, <4>3
      <4>4. CASE reply_is_secured(request) /\ ~(length > MaxSecuredPayload) /\ ~(length = 0 /\ ~survives)
        BY <1>1, <1>9, <2>2, <4>4
      <4> QED BY <4>1, <4>2, <4>3, <4>4
    <3>2. got.length = 0 => ~(got.length > 0)
      OBVIOUS
    <3>3. got.ran = None => got.code \notin Successes
      BY <1>2, <1>6, <3>1
    <3>4. ASSUME got.ran # None
          PROVE  \/ got.code = oc_status_code[request.verdict]
                 \/ got.code = "fault" /\ request.linked /\ response_length(request.size) = 0
      BY <1>2, <1>4, <1>5, <2>2, <3>1, <3>4
    <3>5. reply_is_secured(request) /\ got.length > 0 => got.secured
      BY <3>1, <3>2
    <3> QED BY <1>9, <3>1, <3>3, <3>4, <3>5 DEF status, done
  <2> QED BY <2>1, <2>2
<1> QED BY <1>8, <1>9

\* A method on the list of secured ones is found there for its own URI.
LEMMA ListedIsSecured ==
    ASSUME NEW i, i # 0, NEW method, Listed(secured, app[i].uri, method)
    PROVE  method_is_secured(i, method)
<1>1. PICK k \in DOMAIN secured : secured[k] = <<app[i].uri, method>>
  BY DEF Listed
<1>2. secured[k][1] = app[i].uri /\ secured[k][2] = method
  BY <1>1
<1>3. IsPrefix(app[i].uri, app[i].uri)
  BY DEF IsPrefix
<1> QED BY <1>1, <1>2, <1>3 DEF method_is_secured

\* The check of a request that passes.
LEMMA PassedSecured ==
    ASSUME NEW request \in Requests, authenticate(request) = "passed",
           requested_method_is_secured(request)
    PROVE  request.secured /\ request.linked /\ reply_is_secured(request)
<1>1. request.secured \in BOOLEAN /\ request.linked \in BOOLEAN
  BY RequestsAssumption
<1> DEFINE needs == requested_method_is_secured(request)
<1>2. needs
  OBVIOUS
<1> HIDE DEF needs
<1>3. authenticate(request) =
        CASE request.secured /\ request.payload = "none" -> "4.00"
          [] request.secured /\ request.payload # "none" /\ ~request.linked -> "4.01"
          [] ~request.secured /\ needs -> "4.03"
          [] OTHER -> "passed"
  BY DEF authenticate, needs
<1>4. request.secured /\ request.linked
  BY <1>1, <1>2, <1>3
<1> QED BY <1>4 DEF reply_is_secured

AnswerInv == SecuredNotServedPlain /\ OwnHandler /\ AnswerTellsRun

LEMMA ReceiveAnswers ==
    ASSUME TableInv, NEW request \in Requests, Receive(request)
    PROVE  AnswerInv'
<1>0. PICK survives \in BOOLEAN : last' = [asked |-> request, got |-> answer(request, survives)]
  BY DEF Receive
<1> DEFINE got == answer(request, survives)
           method == request.method
<1>1. last' = [asked |-> request, got |-> got] /\ app' = app
  BY <1>0 DEF Receive
<1>2. /\ got.ran = None => got.code \notin Successes
      /\ got.ran # None =>
           \/ got.code = oc_status_code[request.verdict]
           \/ got.code = "none" /\ request.multicast /\ request.verdict = "BAD_REQUEST"
           \/ got.code = "fault" /\ request.linked /\ response_length(request.size) = 0
      /\ got.ran # None =>
           /\ authenticate(request) = "passed"
           /\ got.ran = invoke_coap_entity_handler(request).ran
           /\ reply_is_secured(request) /\ got.length > 0 => got.secured
  BY Answers
<1>3. got.ran # None =>
           /\ method \in Served
           /\ \E i \in DOMAIN app :
                 /\ app[i].uri = oc_store_uri(request.path)
                 /\ i # 0 /\ i = app_resource_by_uri(app, request.path)
                 /\ got.ran = HandlerIn(app[i], method)
  BY <1>2, Invoked
<1> HIDE DEF got
<1>4. last'.asked = request /\ last'.got = got
  BY <1>1
<1>5. Shape(app) /\ Guarded(app, secured, {})
  BY TableFacts
<1>6. got.ran # None => got.ran.uri = oc_store_uri(request.path) /\ got.ran.method = method
  BY <1>3, <1>5 DEF Shape, OwnHandlers
<1>7. got.ran.safe => /\ request.secured /\ request.linked
                      /\ got.length > 0 => got.secured
  <2> SUFFICES ASSUME got.ran.safe
               PROVE  /\ request.secured /\ request.linked
                      /\ got.length > 0 => got.secured
    OBVIOUS
  <2>1. got.ran # None
    BY NoneIsHandler
  <2>2. PICK i \in DOMAIN app :
                 /\ app[i].uri = oc_store_uri(request.path)
                 /\ i # 0 /\ i = app_resource_by_uri(app, request.path)
                 /\ got.ran = HandlerIn(app[i], method)
    BY <1>3, <2>1
  <2>3. Listed(secured, app[i].uri, method)
    BY <1>3, <1>5, <2>1, <2>2 DEF Guarded
  <2>4. requested_method_is_secured(request)
    BY <2>2, <2>3, ListedIsSecured DEF requested_method_is_secured
  <2> QED BY <1>2, <2>1, <2>4, PassedSecured
<1>8. SecuredNotServedPlain'
  BY <1>4, <1>7 DEF SecuredNotServedPlain
<1>9. OwnHandler'
  BY <1>1, <1>4, <1>5, <1>6 DEF OwnHandler, Shape
<1>10. AnswerTellsRun'
  BY <1>2, <1>4 DEF AnswerTellsRun
<1> QED BY <1>8, <1>9, <1>10 DEF AnswerInv

LEMMA AnswerInit == Init => AnswerInv
<1> SUFFICES ASSUME Init PROVE AnswerInv
  OBVIOUS
<1>1. ~Answered /\ Shape(app)
  BY TableInit, TableFacts DEF Init, Answered, Idle
<1> QED BY <1>1 DEF AnswerInv, SecuredNotServedPlain, OwnHandler, AnswerTellsRun, Shape

LEMMA AnswerNext == TableInv /\ AnswerInv /\ [Next]_vars => AnswerInv'
<1> SUFFICES ASSUME TableInv, AnswerInv, [Next]_vars PROVE AnswerInv'
  OBVIOUS
<1>1. ASSUME NEW request \in Requests, Receive(request) PROVE AnswerInv'
  BY <1>1, ReceiveAnswers
<1>2. TableInv' /\ Shape(app')
  <2>1. TableInv'
    BY TableNext
  <2>2. Sound(Table', {}) /\ Table'.app = app'
    BY <2>1 DEF TableInv, Table
  <2> QED BY <2>1, <2>2 DEF Sound
<1>3. CASE last' = NoRequest
  <2>1. ~Answered'
    BY <1>3 DEF Answered, Idle
  <2> QED BY <1>2, <2>1 DEF AnswerInv, SecuredNotServedPlain, OwnHandler, AnswerTellsRun, Shape
<1>4. CASE UNCHANGED vars
  BY <1>4 DEF vars, AnswerInv, SecuredNotServedPlain, OwnHandler, AnswerTellsRun, Answered, Idle
<1>5. ASSUME \/ Finish
             \/ \E p \in Offered.resources : Register(p)
             \/ \E h \in Offered.handlers, method \in {GET, POST, "PUT"} :
                  RegisterHandler(h.uri, method, Handler(oc_store_uri(h.uri), method, h.safe), h.safe)
      PROVE  last' = NoRequest
  BY <1>5 DEF Finish, Register, RegisterHandler, Idle
<1> QED BY <1>1, <1>3, <1>4, <1>5 DEF Next

LEMMA AnswersAlways == Spec => [](TableInv /\ AnswerInv)
BY TableInit, TableNext, AnswerInit, AnswerNext, PTL DEF Spec

\* A handler registered as secured (nx_channel_register_resource,
\* nx_channel_register_resource_handler) runs only for a secured request of a
\* linked node, and its answer is not sent in plain, for any registrations in
\* any order, those that fail half way included.
THEOREM SecuredStaysSecured == Spec => []SecuredNotServedPlain
BY AnswersAlways, PTL DEF AnswerInv

\* A request runs the handler written for its URI and method or none, no two
\* resources are served under one URI, the peer is told the verdict of the
\* handler that ran and never of a success when none did
\* (oc_ri_invoke_coap_entity_handler, coap_receive), except for the errors
\* not answered to a multicast and the answers that fault for want of a
\* payload, and the pools keep their bounds: the parts of ServedRight that hold for every number of resources.
THEOREM RightlyServed == Spec => [](TypeOK /\ OwnHandler /\ AnswerTellsRun)
BY AnswersAlways, TableIsTyped, PTL DEF AnswerInv

\* A handler that is served is not replaced or taken away by any later
\* registration (nexus_channel_set_request_handler), also not by one that
\* fails because the list of secured methods is full.
THEOREM HandlersStay == Spec => HandlerKept
<1>1. ASSUME TableInv, [Next]_vars
      PROVE  [\A i \in DOMAIN app, method \in {GET, POST} :
                 app[i][method] # None => HandlerAt(app', app[i].uri, method) = app[i][method]]_vars
  <2> SUFFICES ASSUME NEW i \in DOMAIN app, NEW method \in Served, app[i][method] # None
               PROVE  HandlerAt(app', app[i].uri, method) = app[i][method]
    BY DEF Served
  <2>1. Kept(app, app') /\ Sound(Table', {}) /\ Table'.app = app'
    BY <1>1, TableNext DEF TableInv, Table
  <2>2. app' \in Seq(Resource) /\ Shape(app')
    BY <2>1 DEF Sound, Tables
  <2>3. app[i] \in Resource /\ app[i][method] = HandlerIn(app[i], method)
    BY <1>1, TableFacts, FieldOfMethod, ElementOfSeq, LenProperties
  <2>4. i \in DOMAIN app' /\ app'[i].uri = app[i].uri /\ HandlerIn(app'[i], method) = app[i][method]
    BY <2>1, <2>3 DEF Kept
  <2>5. app'[i] \in Resource /\ app'[i][method] = HandlerIn(app'[i], method)
    BY <2>2, <2>4, FieldOfMethod, ElementOfSeq, LenProperties
  <2> DEFINE j == app_resource_by_uri(app', app[i].uri)
  <2>6. oc_store_uri(app[i].uri) = app[i].uri
    BY <2>2, <2>4 DEF Shape
  <2>7. j \in DOMAIN app' /\ j # 0 /\ app'[j].uri = app[i].uri
    BY <2>2, <2>4, <2>6, ByUri
  <2> HIDE DEF j
  <2>8. j = i
    BY <2>2, <2>4, <2>7 DEF Shape
  <2> QED BY <2>4, <2>5, <2>7, <2>8 DEF HandlerAt, j
<1> QED BY <1>1, AnswersAlways, PTL DEF HandlerKept, Spec

(***************************************************************************)
(* The query that names the interface "r".                                 *)
(***************************************************************************)
ReadQuery == <<"if", "=", "r">>

First(set) == CHOOSE i \in set : \A j \in set : i <= j

\* The function query_value walks along a query with.
Walks(query, f) ==
    LET equals(p) == {i \in p .. Len(query) : query[i] = "="}
        stops(p) == {i \in p .. Len(query) : query[i] = "&"} \cup {Len(query) + 1}
    IN  f = [p \in 1 .. Len(query) + 2 |->
               IF equals(p) = {} THEN <<>>
               ELSE LET e == First(equals(p))
                        stop == First(stops(e + 1))
                    IN  IF SubSeq(query, p, e - 1) = <<"if">> THEN SubSeq(query, e + 1, stop - 1)
                        ELSE f[stop + 1]]

\* query_value is the value of the walk from the start.
LEMMA QueryWalks ==
    ASSUME NEW query
    PROVE  query_value(query) = (CHOOSE f : Walks(query, f))[1]
BY DEF query_value, Walks, First

\* A part of one element.
LEMMA SubSeqOne ==
    ASSUME NEW s, NEW m \in Int, NEW n \in Int, m = n
    PROVE  SubSeq(s, m, n) = <<s[m]>>
<1> DEFINE S == {s[m]}
           one == SubSeq(s, m, n)
<1>1. \A i \in m .. n : s[i] \in S
  OBVIOUS
<1> HIDE DEF S
<1>2. /\ SubSeq(s, m, n) \in Seq(S)
      /\ Len(SubSeq(s, m, n)) = IF m <= n THEN n - m + 1 ELSE 0
      /\ \A i \in 1 .. n - m + 1 : SubSeq(s, m, n)[i] = s[m + i - 1]
  BY <1>1, SubSeqProperties
<1> HIDE DEF one
<1>3. one \in Seq(S) /\ Len(one) = 1 /\ one[1] = s[m]
  <2>1. m <= n /\ n - m + 1 = 1 /\ m + 1 - 1 = m /\ 1 \in 1 .. 1
    OBVIOUS
  <2> QED BY <1>2, <2>1 DEF one
<1>4. one = [i \in 1 .. 1 |-> one[i]]
  BY <1>3, LenProperties
<1>5. one = <<s[m]>>
  BY <1>3, <1>4
<1> QED BY <1>5 DEF one

\* What query_value looks for in it.
LEMMA ReadQueryParts ==
    /\ Len(ReadQuery) = 3
    /\ \A p \in {1, 2} : {i \in p .. 3 : ReadQuery[i] = "="} = {2}
    /\ \A p \in 3 .. 5 : {i \in p .. 3 : ReadQuery[i] = "="} = {}
    /\ {i \in 3 .. 3 : ReadQuery[i] = "&"} \cup {3 + 1} = {4}
    /\ First({2}) = 2 /\ First({4}) = 4
    /\ SubSeq(ReadQuery, 1, 1) = <<"if">> /\ SubSeq(ReadQuery, 2, 1) # <<"if">>
    /\ SubSeq(ReadQuery, 3, 3) = <<"r">>
<1>1. Len(ReadQuery) = 3 /\ ReadQuery[1] = "if" /\ ReadQuery[2] = "=" /\ ReadQuery[3] = "r"
  BY DEF ReadQuery
<1>2. ASSUME NEW p \in {1, 2} PROVE {i \in p .. 3 : ReadQuery[i] = "="} = {2}
  <2>1. \A i \in p .. 3 : i \in {1, 2, 3}
    OBVIOUS
  <2>2. 2 \in p .. 3
    OBVIOUS
  <2> QED BY <1>1, <2>1, <2>2
<1>3. ASSUME NEW p \in 3 .. 5 PROVE {i \in p .. 3 : ReadQuery[i] = "="} = {}
  <2>1. \A i \in p .. 3 : i = 3
    OBVIOUS
  <2> QED BY <1>1, <2>1
<1>4. {i \in 3 .. 3 : ReadQuery[i] = "&"} \cup {3 + 1} = {4}
  <2>1. \A i \in 3 .. 3 : i = 3
    OBVIOUS
  <2>2. {i \in 3 .. 3 : ReadQuery[i] = "&"} = {}
    BY <1>1, <2>1
  <2> QED BY <2>2
<1>5. First({2}) = 2 /\ First({4}) = 4
  BY DEF First
<1>6. SubSeq(ReadQuery, 1, 1) = <<"if">> /\ SubSeq(ReadQuery, 3, 3) = <<"r">>
  BY <1>1, SubSeqOne
<1>7. SubSeq(ReadQuery, 2, 1) # <<"if">>
  <2>1. SubSeq(ReadQuery, 2, 1) = <<>>
    BY SubSeqEmpty
  <2> QED BY <2>1
<1> QED BY <1>1, <1>2, <1>3, <1>4, <1>5, <1>6, <1>7

\* Its value is "r".
LEMMA ReadQueryValue == query_value(ReadQuery) = <<"r">>
<1> DEFINE q == ReadQuery
           Equals(p) == {i \in p .. 3 : q[i] = "="}
           Stops(p) == {i \in p .. 3 : q[i] = "&"} \cup {3 + 1}
           Body(f, p) == IF Equals(p) = {} THEN <<>>
                         ELSE IF SubSeq(q, p, First(Equals(p)) - 1) = <<"if">>
                         THEN SubSeq(q, First(Equals(p)) + 1, First(Stops(First(Equals(p)) + 1)) - 1)
                         ELSE f[First(Stops(First(Equals(p)) + 1)) + 1]
<1>1. \A f : Walks(q, f) <=> f = [p \in 1 .. 5 |-> Body(f, p)]
  BY ReadQueryParts DEF Walks
<1>2. \A f : /\ Body(f, 1) = <<"r">>
             /\ Body(f, 2) = f[5]
             /\ \A p \in 3 .. 5 : Body(f, p) = <<>>
  <2>1. \A p \in {1, 2} : Equals(p) = {2}
    BY ReadQueryParts
  <2>2. \A p \in 3 .. 5 : Equals(p) = {}
    BY ReadQueryParts
  <2>3. Stops(3) = {4} /\ 2 + 1 = 3 /\ 2 - 1 = 1 /\ 4 - 1 = 3 /\ 4 + 1 = 5
    BY ReadQueryParts
  <2>4. /\ First({2}) = 2 /\ First({4}) = 4 /\ {2} # {}
        /\ SubSeq(q, 1, 1) = <<"if">> /\ SubSeq(q, 2, 1) # <<"if">>
        /\ SubSeq(q, 3, 3) = <<"r">>
    BY ReadQueryParts
  <2> HIDE DEF Equals, Stops, q
  <2>5. ASSUME NEW f PROVE Body(f, 1) = <<"r">>
    BY <2>1, <2>3, <2>4
  <2>6. ASSUME NEW f PROVE Body(f, 2) = f[5]
    BY <2>1, <2>3, <2>4
  <2> QED BY <2>2, <2>5, <2>6
<1> DEFINE g == [p \in 1 .. 5 |-> IF p = 1 THEN <<"r">> ELSE <<>>]
<1> HIDE DEF Body, q
<1>3. Walks(q, g)
  <2>1. ASSUME NEW p \in 1 .. 5 PROVE g[p] = Body(g, p)
    BY <1>2
  <2>2. g = [p \in 1 .. 5 |-> g[p]]
    OBVIOUS
  <2> HIDE DEF g
  <2> QED BY <1>1, <2>1, <2>2
<1> DEFINE f == CHOOSE f : Walks(q, f)
<1>4. Walks(q, f)
  BY <1>3
<1> HIDE DEF f
<1>5. f[1] = <<"r">>
  BY <1>1, <1>2, <1>4
<1>6. query_value(q) = f[1]
  BY QueryWalks DEF f
<1> QED BY <1>5, <1>6 DEF q

\* A handler that runs for this query runs for a GET, on a resource that has
\* the interface.
LEMMA InvokedThrough ==
    ASSUME TableInv, NEW request \in Requests, request.query = ReadQuery,
           NEW done, done = invoke_coap_entity_handler(request), done.ran # None
    PROVE  /\ request.method = GET
           /\ \E i \in DOMAIN app :
                 app[i].uri = oc_store_uri(request.path) /\ "r" \in app[i].interfaces
<1> DEFINE asked == interface_mask(query_value(request.query))
           found == FindResource(request.path)
           resource == CHOOSE r \in found : TRUE
           mask == IF asked = {} /\ found # {} THEN resource.default ELSE asked
           error == error_status(request.payload, found, mask, request.method)
<1>0. /\ request.path \in Uris /\ request.method \in Methods
      /\ request.payload \in {"none", "valid", "cut", "malformed"}
  BY RequestsAssumption
<1>1. asked = {"r"}
  <2>1. query_value(request.query) = <<"r">>
    BY ReadQueryValue
  <2>2. interface_mask(<<"r">>) = {"r"}
    <3>1. \A i \in InterfaceNames : <<"r">> = <<i>> <=> i = "r"
      OBVIOUS
    <3> QED BY <3>1 DEF interface_mask, InterfaceNames
  <2> QED BY <2>1, <2>2
<1> HIDE DEF asked
<1>2. mask = {"r"}
  BY <1>1
<1>3. done = IF error = ""
             THEN [ran |-> HandlerFor(resource, request.method),
                   code |-> IF request.multicast /\ request.verdict = "BAD_REQUEST" THEN "ignore"
                            ELSE oc_status_code[request.verdict]]
             ELSE [ran |-> None, code |-> IF request.multicast THEN "ignore" ELSE oc_status_code[error]]
  BY DEF invoke_coap_entity_handler, asked
<1> HIDE DEF mask, error
<1>4. error = ""
  <2> DEFINE code == IF request.multicast THEN "ignore" ELSE oc_status_code[error]
  <2>1. error # "" => done = [ran |-> None, code |-> code]
    BY <1>3
  <2> HIDE DEF code
  <2>2. [ran |-> None, code |-> code].ran = None
    OBVIOUS
  <2>3. ASSUME error # "" PROVE FALSE
    <3>1. done.ran = None
      BY <2>1, <2>2, <2>3
    <3> QED BY <3>1
  <2> QED BY <2>3
<1>5. /\ found # {}
      /\ \A r \in found : ~Forbids(r, {"r"}, request.method) /\ HandlerFor(r, request.method) # None
  <2>1. error_status(request.payload, found, {"r"}, request.method) = ""
    BY <1>2, <1>4 DEF error
  <2> HIDE DEF found
  <2> QED BY <1>0, <2>1 DEF error_status
<1>6. \A uri : HandlerFor(core_resource(uri), request.method) = None
  BY DEF HandlerFor, core_resource, GET, POST
<1>7. PICK i \in DOMAIN app : found = {app[i]} /\ app[i].uri = oc_store_uri(request.path)
  BY <1>0, <1>5, <1>6, Found
<1>8. "r" \in app[i].interfaces /\ request.method = GET
  BY <1>5, <1>7 DEF Forbids, does_interface_support_method
<1> QED BY <1>7, <1>8

\* So the answer to any request keeps InterfaceAllows.
LEMMA ReceiveAllows ==
    ASSUME TableInv, NEW request \in Requests, Receive(request)
    PROVE  InterfaceAllows'
<1>0. PICK survives \in BOOLEAN : last' = [asked |-> request, got |-> answer(request, survives)]
  BY DEF Receive
<1> DEFINE got == answer(request, survives)
<1>1. last' = [asked |-> request, got |-> got] /\ app' = app
  BY <1>0 DEF Receive
<1>2. got.ran # None => got.ran = invoke_coap_entity_handler(request).ran
  BY Answers
<1>3. got.ran # None /\ request.query = ReadQuery =>
        /\ request.method = GET
        /\ \E i \in DOMAIN app :
              app[i].uri = oc_store_uri(request.path) /\ "r" \in app[i].interfaces
  BY <1>2, InvokedThrough
<1>4. OwnHandler'
  BY ReceiveAnswers DEF AnswerInv
<1> HIDE DEF got
<1>5. last'.asked = request /\ last'.got = got
  BY <1>1
<1> SUFFICES ASSUME Answered', got.ran # None, request.query = ReadQuery
             PROVE  /\ request.method = GET
                    /\ \E i \in DOMAIN app : app[i].uri = got.ran.uri /\ "r" \in app[i].interfaces
  BY <1>1, <1>5 DEF InterfaceAllows, ReadQuery
<1>6. got.ran.uri = oc_store_uri(request.path)
  BY <1>4, <1>5 DEF OwnHandler
<1> QED BY <1>3, <1>6

(***************************************************************************)
(* The pool of secured methods.  Gaps are the methods served by nothing    *)
(* yet; each can use another entry of the pool, so what is used and what   *)
(* the gaps may use together grow by three with a resource: two entries    *)
(* when it is registered, and a gap left by the handler it lacks.          *)
(***************************************************************************)
Gaps(list, m) == {i \in DOMAIN list : HandlerIn(list[i], m) = None}

Lacking(list) == Cardinality(Gaps(list, GET)) + Cardinality(Gaps(list, POST))

Room(t) ==
    /\ 2 <= Len(t.app)
    /\ Len(t.secured) + Lacking(t.app) <= 3 * Len(t.app) - 5

\* Gaps are finite in number.
LEMMA GapsFinite ==
    ASSUME NEW list \in Seq(Resource)
    PROVE  /\ \A m \in Served : IsFiniteSet(Gaps(list, m)) /\ Cardinality(Gaps(list, m)) \in Nat
           /\ Lacking(list) \in Nat
<1>1. Len(list) \in Nat /\ DOMAIN list = 1 .. Len(list)
  BY LenProperties
<1>2. IsFiniteSet(1 .. Len(list))
  BY <1>1, FS_Interval
<1>3. ASSUME NEW m \in Served
      PROVE  IsFiniteSet(Gaps(list, m)) /\ Cardinality(Gaps(list, m)) \in Nat
  <2>1. Gaps(list, m) \in SUBSET (1 .. Len(list))
    BY <1>1 DEF Gaps
  <2>2. IsFiniteSet(Gaps(list, m))
    BY <1>2, <2>1, FS_Subset
  <2> QED BY <2>2, FS_CardinalityType
<1> QED BY <1>3 DEF Lacking, Served

\* Gaps that are all there before, and those that one resource adds or closes.
LEMMA FewerGaps ==
    ASSUME NEW list \in Seq(Resource), NEW new \in Seq(Resource), NEW m \in Served, NEW x
    PROVE  /\ Gaps(new, m) \subseteq Gaps(list, m) =>
                 Cardinality(Gaps(new, m)) <= Cardinality(Gaps(list, m))
           /\ Gaps(new, m) \subseteq Gaps(list, m) \cup {x} =>
                 Cardinality(Gaps(new, m)) <= Cardinality(Gaps(list, m)) + 1
           /\ x \in Gaps(list, m) /\ Gaps(new, m) \subseteq Gaps(list, m) \ {x} =>
                 Cardinality(Gaps(new, m)) + 1 <= Cardinality(Gaps(list, m))
<1> DEFINE G == Gaps(list, m)
           N == Gaps(new, m)
<1>1. IsFiniteSet(G) /\ Cardinality(G) \in Nat /\ Cardinality(N) \in Nat
  BY GapsFinite
<1> HIDE DEF G, N
<1>2. /\ IsFiniteSet(G \cup {x})
      /\ Cardinality(G \cup {x}) = IF x \in G THEN Cardinality(G) ELSE Cardinality(G) + 1
  BY <1>1, FS_AddElement
<1>3. /\ IsFiniteSet(G \ {x})
      /\ Cardinality(G \ {x}) = IF x \in G THEN Cardinality(G) - 1 ELSE Cardinality(G)
  BY <1>1, FS_RemoveElement
<1>4. N \subseteq G => Cardinality(N) <= Cardinality(G)
  BY <1>1, FS_Subset
<1>5. N \subseteq G \cup {x} => Cardinality(N) <= Cardinality(G) + 1
  <2>1. N \subseteq G \cup {x} => Cardinality(N) <= Cardinality(G \cup {x})
    BY <1>2, FS_Subset
  <2> QED BY <1>1, <1>2, <2>1
<1>6. x \in G /\ N \subseteq G \ {x} => Cardinality(N) + 1 <= Cardinality(G)
  <2>1. N \subseteq G \ {x} => Cardinality(N) <= Cardinality(G \ {x})
    BY <1>3, FS_Subset
  <2> QED BY <1>1, <1>3, <2>1
<1> QED BY <1>4, <1>5, <1>6 DEF G, N

\* While the pool has room the method becomes secured.
LEMMA MethodNewRoom ==
    ASSUME NEW t \in Tables, NEW i \in DOMAIN t.app, NEW method \in Served,
           Len(t.secured) < SecuredPool,
           NEW n, n = resource_method_new(t, i, method)
    PROVE  n \in Tables /\ n.app = t.app /\ Len(n.secured) = Len(t.secured) + 1
<1> DEFINE entry == <<t.app[i].uri, method>>
<1>1. n \in Tables
  BY MethodNewFields
<1>2. t.app[i] \in Resource /\ t.secured \in Seq(Uris \X Served)
  BY ElementOfSeq, LenProperties DEF Tables
<1>3. entry \in Uris \X Served
  BY <1>2 DEF Resource
<1> HIDE DEF entry
<1>4. n = [t EXCEPT !.secured = Append(t.secured, entry)]
  BY DEF resource_method_new, entry, Tables
<1>5. Len(Append(t.secured, entry)) = Len(t.secured) + 1
  BY <1>2, <1>3, AppendProperties
<1>6. n.app = t.app /\ n.secured = Append(t.secured, entry)
  BY <1>4 DEF Tables
<1> QED BY <1>1, <1>5, <1>6

\* A resource put at the end of the list.
LEMMA AddedFields ==
    ASSUME NEW t, Sound(t, {}), NEW r \in Resource,
           NEW n, n = [[t EXCEPT !.slots = @ + 1] EXCEPT !.app = Append(@, r)]
    PROVE  /\ n \in Tables /\ n.app = Append(t.app, r)
           /\ n.secured = t.secured /\ n.slots = t.slots + 1
<1> DEFINE list == Append(t.app, r)
<1>1. t \in Tables /\ t.app \in Seq(Resource) /\ t.slots \in Nat
  BY DEF Sound, Tables
<1>2. list \in Seq(Resource)
  BY <1>1, AppendProperties
<1>3. n = [t EXCEPT !.slots = t.slots + 1, !.app = list]
  BY <1>1 DEF Tables
<1> HIDE DEF list
<1>4. /\ n \in Tables /\ n.app = list /\ n.slots = t.slots + 1 /\ n.secured = t.secured
  <2>1. t.slots + 1 \in Nat
    BY <1>1
  <2>2. n = [app |-> list, slots |-> t.slots + 1, secured |-> t.secured, ok |-> t.ok]
    BY <1>1, <1>3 DEF Tables
  <2>3. t.secured \in Seq(Uris \X Served) /\ t.ok \in BOOLEAN
    BY <1>1 DEF Tables
  <2> DEFINE k == t.slots + 1
  <2> HIDE DEF k
  <2>4. n = [app |-> list, slots |-> k, secured |-> t.secured, ok |-> t.ok]
    BY <2>2 DEF k
  <2>5. n.app = list /\ n.slots = k /\ n.secured = t.secured
    <3> DEFINE new == [app |-> list, slots |-> k, secured |-> t.secured, ok |-> t.ok]
    <3>1. new.app = list /\ new.slots = k /\ new.secured = t.secured
      OBVIOUS
    <3>2. n = new
      BY <2>4
    <3> HIDE DEF new
    <3> QED BY <3>1, <3>2
  <2>6. n \in Tables
    BY <1>2, <2>1, <2>3, <2>4 DEF Tables, k
  <2> QED BY <2>5, <2>6 DEF k
<1> QED BY <1>4 DEF list

\* A resource with a handler brings at most one gap.
LEMMA AddedGaps ==
    ASSUME NEW list \in Seq(Resource), NEW r \in Resource, r.GET # None \/ r.POST # None,
           NEW new, new = Append(list, r)
    PROVE  Lacking(new) <= Lacking(list) + 1
<1> DEFINE len == Len(list)
<1>1. len \in Nat /\ DOMAIN list = 1 .. len
  BY LenProperties
<1>2. /\ new \in Seq(Resource) /\ DOMAIN new = 1 .. (len + 1)
      /\ new[len + 1] = r /\ \A j \in 1 .. len : new[j] = list[j]
  BY <1>1, AppendProperties, LenProperties
<1>3. \A j \in DOMAIN new : (j = len + 1 /\ new[j] = r) \/ (j \in DOMAIN list /\ new[j] = list[j])
  BY <1>1, <1>2
<1> HIDE DEF len
<1>4. \A m \in Served : Gaps(new, m) \subseteq Gaps(list, m) \cup {len + 1}
  BY <1>3 DEF Gaps
<1>5. \A m \in Served : HandlerIn(r, m) # None => Gaps(new, m) \subseteq Gaps(list, m)
  BY <1>3 DEF Gaps
<1>6. HandlerIn(r, GET) = r.GET /\ HandlerIn(r, POST) = r.POST /\ GET \in Served /\ POST \in Served
  BY ServedDistinct DEF HandlerIn, Served
<1>7. /\ Cardinality(Gaps(list, GET)) \in Nat /\ Cardinality(Gaps(list, POST)) \in Nat
      /\ Cardinality(Gaps(new, GET)) \in Nat /\ Cardinality(Gaps(new, POST)) \in Nat
  BY <1>2, <1>6, GapsFinite
<1>8. /\ Cardinality(Gaps(new, GET)) <= Cardinality(Gaps(list, GET)) + 1
      /\ Cardinality(Gaps(new, POST)) <= Cardinality(Gaps(list, POST)) + 1
  BY <1>2, <1>4, <1>6, FewerGaps
<1>9. \/ Cardinality(Gaps(new, GET)) <= Cardinality(Gaps(list, GET))
      \/ Cardinality(Gaps(new, POST)) <= Cardinality(Gaps(list, POST))
  BY <1>2, <1>5, <1>6, FewerGaps
<1> QED BY <1>7, <1>8, <1>9 DEF Lacking

\* A handler that is set fills its gap.
LEMMA FilledGap ==
    ASSUME NEW list \in Seq(Resource), NEW i \in DOMAIN list, NEW method \in Served,
           HandlerIn(list[i], method) = None,
           NEW new, OnlyHandler(list, new, i, method), HandlerIn(new[i], method) # None
    PROVE  Lacking(new) + 1 <= Lacking(list)
<1>1. new \in Seq(Resource) /\ DOMAIN new = DOMAIN list
  BY LenProperties DEF OnlyHandler
<1>2. i \in Gaps(list, method) /\ Gaps(new, method) \subseteq Gaps(list, method) \ {i}
  <2>1. i \in Gaps(list, method)
    BY DEF Gaps
  <2>2. \A j \in DOMAIN list : j # i => HandlerIn(new[j], method) = HandlerIn(list[j], method)
    BY DEF OnlyHandler
  <2> QED BY <1>1, <2>1, <2>2 DEF Gaps
<1>3. \A m \in Served \ {method} : Gaps(new, m) \subseteq Gaps(list, m)
  <2>1. \A m \in Served \ {method}, j \in DOMAIN list : HandlerIn(new[j], m) = HandlerIn(list[j], m)
    BY DEF OnlyHandler
  <2> QED BY <1>1, <2>1 DEF Gaps
<1>4. Cardinality(Gaps(new, method)) + 1 <= Cardinality(Gaps(list, method))
  BY <1>1, <1>2, FewerGaps
<1>5. \A m \in Served \ {method} : Cardinality(Gaps(new, m)) <= Cardinality(Gaps(list, m))
  BY <1>1, <1>3, FewerGaps
<1>6. /\ Cardinality(Gaps(list, GET)) \in Nat /\ Cardinality(Gaps(list, POST)) \in Nat
      /\ Cardinality(Gaps(new, GET)) \in Nat /\ Cardinality(Gaps(new, POST)) \in Nat
  BY <1>1, GapsFinite DEF Served
<1>7. CASE method = GET
  <2>1. POST \in Served \ {method}
    BY <1>7, ServedDistinct DEF Served
  <2> QED BY <1>4, <1>5, <1>6, <1>7, <2>1 DEF Lacking
<1>8. CASE method = POST
  <2>1. GET \in Served \ {method}
    BY <1>8, ServedDistinct DEF Served
  <2> QED BY <1>4, <1>5, <1>6, <1>8, <2>1 DEF Lacking
<1> QED BY <1>7, <1>8 DEF Served

\* The code has OC_MAX_APP_RESOURCES = 4 (oc_config.h:81); two of the resources
\* are Nexus Channel's own.
CodeSize == MaxAppResources \in 2 .. 4

\* A resource uses up to two entries and brings up to one gap.
LEMMA RegisterRoom ==
    ASSUME CodeSize, NEW t, Sound(t, {}), Room(t), NEW p, Proper(p),
           NEW n, n = nx_channel_register_resource(t, p)
    PROVE  Room(n)
<1> DEFINE resource == bind_resource_interfaces(oc_new_resource(p), p.interfaces)
           taken == [t EXCEPT !.slots = @ + 1]
           i == Len(t.app) + 1
           added == [taken EXCEPT !.app = Append(@, resource)]
           got == IF p.get_secured THEN resource_method_new(added, i, GET) ELSE added
           done == IF p.post_secured THEN resource_method_new(got, i, POST) ELSE got
<1>0. /\ t \in Tables /\ t.app \in Seq(Resource) /\ t.slots \in Nat /\ Sizes(t)
      /\ t.secured \in Seq(Uris \X Served) /\ Len(t.app) \in Nat /\ Len(t.secured) \in Nat
  <2>1. /\ t \in Tables /\ t.app \in Seq(Resource) /\ t.slots \in Nat /\ Sizes(t)
        /\ t.secured \in Seq(Uris \X Served)
    BY DEF Sound, Tables
  <2> QED BY <2>1, LenProperties
<1>1. CASE t.slots = MaxAppResources
  <2>1. n = Refused(t)
    BY <1>1 DEF nx_channel_register_resource
  <2>2. n.app = t.app /\ n.secured = t.secured
    BY <1>0, <2>1 DEF Refused, Tables
  <2> QED BY <2>2 DEF Room
<1>2. CASE t.slots # MaxAppResources /\ ~can_add(t, resource)
  <2>1. n = Refused(taken)
    BY <1>2 DEF nx_channel_register_resource
  <2>2. n.app = t.app /\ n.secured = t.secured
    BY <1>0, <2>1 DEF Refused, Tables
  <2> QED BY <2>2 DEF Room
<1>3. CASE t.slots # MaxAppResources /\ can_add(t, resource)
  <2>1. n = done
    BY <1>3 DEF nx_channel_register_resource
  <2>2. resource \in Resource
    BY NewResource
  <2> HIDE DEF resource
  <2>3. p.get_secured \in BOOLEAN /\ p.post_secured \in BOOLEAN
    BY DEF Proper
  <2>4. resource.GET # None \/ resource.POST # None
    BY <1>3 DEF can_add
  <2>5. /\ added \in Tables /\ added.app = Append(t.app, resource)
        /\ added.secured = t.secured
    BY <1>0, <2>2, AddedFields
  <2> HIDE DEF added
  <2>6. /\ added.app \in Seq(Resource) /\ Len(added.app) = i
        /\ i \in DOMAIN added.app
    BY <1>0, <2>2, <2>5, AppendProperties, LenProperties
  <2> DEFINE G == Lacking(t.app)
             A == Lacking(added.app)
  <2>7. G \in Nat /\ A \in Nat /\ A <= G + 1
    BY <1>0, <2>2, <2>4, <2>5, <2>6, GapsFinite, AddedGaps
  <2> HIDE DEF A
  <2>8. /\ i \in Nat /\ i <= MaxAppResources /\ 3 <= i /\ MaxAppResources \in Nat
        /\ Len(t.secured) + 1 < SecuredPool
        /\ Len(t.secured) + G <= 3 * (i - 1) - 5
    <3>1. /\ 2 <= Len(t.app) /\ Len(t.secured) + G <= 3 * Len(t.app) - 5
          /\ Len(t.app) <= t.slots /\ t.slots <= MaxAppResources
      BY <1>0 DEF Room, Sizes
    <3>2. MaxAppResources \in {2, 3, 4} /\ SecuredPool = 2 * MaxAppResources
      BY DEF CodeSize, SecuredPool
    <3> HIDE DEF G
    <3>3. Len(t.app) + 1 <= MaxAppResources
      BY <1>0, <1>3, <3>1, <3>2
    <3> QED BY <1>0, <2>7, <3>1, <3>2, <3>3
  <2> HIDE DEF G, i
  <2>9. /\ got \in Tables /\ got.app = added.app
        /\ Len(got.secured) \in {Len(t.secured), Len(t.secured) + 1}
    <3>1. CASE p.get_secured
      <4>1. got = resource_method_new(added, i, GET) /\ GET \in Served
        BY <3>1 DEF Served
      <4> HIDE DEF got
      <4>2. Len(added.secured) < SecuredPool
        BY <1>0, <2>5, <2>8 DEF SecuredPool
      <4> QED BY SMTT(30), <2>5, <2>6, <4>1, <4>2, MethodNewRoom
    <3>2. CASE ~p.get_secured
      BY <2>5, <3>2
    <3> QED BY <2>3, <3>1, <3>2
  <2> HIDE DEF got
  <2>10. /\ done.app = added.app
         /\ Len(done.secured) \in {Len(got.secured), Len(got.secured) + 1}
    <3>1. CASE p.post_secured
      <4>1. done = resource_method_new(got, i, POST) /\ POST \in Served
        BY <3>1 DEF Served
      <4> HIDE DEF done
      <4>2. Len(got.secured) < SecuredPool
        BY <1>0, <2>8, <2>9 DEF SecuredPool
      <4> QED BY <2>6, <2>9, <4>1, <4>2, MethodNewRoom
    <3>2. CASE ~p.post_secured
      BY <2>9, <3>2
    <3> QED BY <2>3, <3>1, <3>2
  <2>11. Len(n.app) = i /\ Lacking(n.app) = A
    BY <2>1, <2>6, <2>10 DEF A
  <2>12. Len(n.secured) \in Nat /\ Len(n.secured) <= Len(t.secured) + 2
    BY <1>0, <2>1, <2>9, <2>10
  <2> QED BY <1>0, <2>7, <2>8, <2>11, <2>12 DEF Room
<1> QED BY <1>1, <1>2, <1>3

\* A handler uses the entry its gap stood for.
LEMMA RegisterHandlerRoom ==
    ASSUME CodeSize, NEW t, Sound(t, {}), Room(t), NEW uri \in Uris, NEW method, NEW safe \in BOOLEAN,
           NEW n, n = nx_channel_register_resource_handler(t, uri, method,
                          Handler(oc_store_uri(uri), method, safe), safe)
    PROVE  Room(n)
<1> DEFINE i == app_resource_by_uri(t.app, uri)
           h == Handler(oc_store_uri(uri), method, safe)
           set == SetHandler(t, i, method, h)
<1>0. /\ t \in Tables /\ t.app \in Seq(Resource) /\ Sizes(t) /\ t.slots \in Nat
      /\ t.secured \in Seq(Uris \X Served) /\ Len(t.app) \in Nat /\ Len(t.secured) \in Nat
  <2>1. /\ t \in Tables /\ t.app \in Seq(Resource) /\ t.slots \in Nat /\ Sizes(t)
        /\ t.secured \in Seq(Uris \X Served)
    BY DEF Sound, Tables
  <2> QED BY <2>1, LenProperties
<1>1. \/ i = 0
      \/ i \in DOMAIN t.app /\ i # 0 /\ t.app[i].uri = oc_store_uri(uri)
  BY <1>0, ByUri
<1>2. CASE n = Refused(t)
  <2>1. n.app = t.app /\ n.secured = t.secured
    BY <1>0, <1>2 DEF Refused, Tables
  <2> QED BY <2>1 DEF Room
<1>3. CASE n # Refused(t)
  <2>1. /\ i # 0 /\ method \in Served /\ t.app[i][method] = None
        /\ n = IF safe THEN resource_method_new(set, i, method) ELSE set
    BY <1>3 DEF nx_channel_register_resource_handler, nexus_channel_set_request_handler, Served
  <2> HIDE DEF i
  <2>2. /\ h \in Handlers /\ h.method = method
    BY <2>1, StoredTwice, HandlerType
  <2>3. h # None
    BY <2>1, <2>2 DEF None, Served, GET, POST
  <2>4. i \in DOMAIN t.app
    BY <1>1, <2>1
  <2>5. HandlerIn(t.app[i], method) = None
    BY <1>0, <2>1, <2>4, FieldOfMethod, ElementOfSeq, LenProperties
  <2> HIDE DEF h
  <2>6. /\ set \in Tables /\ set.secured = t.secured
        /\ OnlyHandler(t.app, set.app, i, method)
        /\ HandlerIn(set.app[i], method) = h
    BY <1>0, <2>1, <2>2, <2>4, SetHandlerFields
  <2> HIDE DEF set
  <2> DEFINE G == Lacking(t.app)
             A == Lacking(set.app)
  <2>7. /\ set.app \in Seq(Resource) /\ Len(set.app) = Len(t.app) /\ i \in DOMAIN set.app
    BY <1>0, <2>4, <2>6, LenProperties DEF OnlyHandler
  <2>8. G \in Nat /\ A \in Nat /\ A + 1 <= G
    BY <1>0, <2>1, <2>3, <2>4, <2>5, <2>6, <2>7, GapsFinite, FilledGap
  <2> HIDE DEF A
  <2>9. /\ Len(t.secured) < SecuredPool
        /\ Len(t.secured) + G <= 3 * Len(t.app) - 5
        /\ 2 <= Len(t.app)
    BY SMTT(30), <1>0, <2>8 DEF Room, Sizes, SecuredPool, CodeSize
  <2> HIDE DEF G
  <2>10. n.app = set.app /\ Len(n.secured) \in {Len(t.secured), Len(t.secured) + 1}
    <3>1. CASE safe
      <4>1. n = resource_method_new(set, i, method) /\ Len(set.secured) < SecuredPool
        BY <2>1, <2>6, <2>9, <3>1
      <4> QED BY <2>1, <2>6, <2>7, <4>1, MethodNewRoom
    <3>2. CASE ~safe
      BY <2>1, <2>6, <3>2
    <3> QED BY <3>1, <3>2
  <2>11. Len(n.app) = Len(t.app) /\ Lacking(n.app) = A
    BY <2>7, <2>10 DEF A
  <2> QED BY SMTT(30), <1>0, <2>8, <2>9, <2>10, <2>11 DEF Room
<1> QED BY <1>2, <1>3

\* Nexus Channel's own resources leave room.
LEMMA BuiltInRoom ==
    ASSUME CodeSize, Init
    PROVE  Room(Table)
<1> DEFINE b1 == BuiltIn[1]
           b2 == BuiltIn[2]
           one == nx_channel_register_resource(NoResources, b1)
           two == nx_channel_register_resource(one, b2)
           r1 == bind_resource_interfaces(oc_new_resource(b1), b1.interfaces)
           r2 == bind_resource_interfaces(oc_new_resource(b2), b2.interfaces)
<1>1. /\ Proper(b1) /\ b1.uri = <<"/", "h">> /\ ~b1.get_secured /\ ~b1.post_secured
      /\ b1.get # None /\ b1.post # None
  BY BuiltInProper DEF BuiltIn, Handler, None, GET, POST
<1>2. /\ Proper(b2) /\ b2.uri = <<"/", "l">> /\ ~b2.get_secured /\ ~b2.post_secured
      /\ b2.get # None
  BY BuiltInProper DEF BuiltIn, Handler, None, GET, POST
<1> HIDE DEF b1, b2
<1>3. r1 \in Resource /\ r1.uri = oc_store_uri(b1.uri) /\ r1.GET # None /\ r1.POST # None
  BY <1>1, NewResource
<1>4. r2 \in Resource /\ r2.uri = oc_store_uri(b2.uri) /\ r2.GET # None
  BY <1>2, NewResource
<1>5. oc_store_uri(b1.uri) = <<"/", "h">> /\ oc_store_uri(b2.uri) = <<"/", "l">>
  BY <1>1, <1>2 DEF oc_store_uri
<1> HIDE DEF r1, r2
<1>6. /\ one \in Tables /\ one.slots = 1 /\ one.secured = <<>>
      /\ one.app \in Seq(Resource) /\ Len(one.app) = 1 /\ DOMAIN one.app = 1 .. 1 /\ one.app[1] = r1
  <2>1. NoResources.slots # MaxAppResources
    BY DEF CodeSize, NoResources
  <2>2. can_add(NoResources, r1)
    <3>1. NoResources.app = <<>> /\ <<>> \in Seq(Resource) /\ DOMAIN <<>> = {}
      BY DEF NoResources
    <3>2. app_resource_by_uri(<<>>, r1.uri) = 0
      BY DEF app_resource_by_uri
    <3> QED BY <1>3, <3>1, <3>2 DEF can_add
  <2>3. one = [[NoResources EXCEPT !.slots = @ + 1] EXCEPT !.app = Append(@, r1)]
    BY <1>1, <2>1, <2>2 DEF nx_channel_register_resource, r1
  <2>4. /\ Sound(NoResources, {}) /\ NoResources.app = <<>> /\ NoResources.app \in Seq(Resource)
        /\ NoResources.slots = 0 /\ NoResources.secured = <<>> /\ Len(NoResources.app) = 0
    BY NoResourcesSound DEF NoResources, Sound
  <2> HIDE DEF one
  <2>5. /\ one \in Tables /\ one.app = Append(NoResources.app, r1)
        /\ one.secured = NoResources.secured /\ one.slots = NoResources.slots + 1
    BY <1>3, <2>3, <2>4, AddedFields
  <2>6. one.app \in Seq(Resource) /\ Len(one.app) = 1 /\ one.app[1] = r1
    BY <1>3, <2>4, <2>5, AppendProperties
  <2> QED BY <2>4, <2>5, <2>6, LenProperties
<1>7. Sound(one, {})
  BY <1>1, NoResourcesSound, RegisterSound
<1> HIDE DEF one
<1>8. /\ two.secured = <<>> /\ two.app \in Seq(Resource)
      /\ Len(two.app) = 2 /\ DOMAIN two.app = 1 .. 2 /\ two.app[1] = r1 /\ two.app[2] = r2
  <2>1. one.slots # MaxAppResources
    BY <1>6 DEF CodeSize
  <2>2. can_add(one, r2)
    <3>1. \A j \in DOMAIN one.app : one.app[j] = r1
      BY <1>6
    <3>2. oc_store_uri(r2.uri) = <<"/", "l">> /\ r1.uri = <<"/", "h">> /\ <<"/", "l">> # <<"/", "h">>
      BY <1>3, <1>4, <1>5 DEF oc_store_uri
    <3>3. app_resource_by_uri(one.app, r2.uri) = 0
      BY <1>6, <3>1, <3>2, ByUri
    <3> QED BY <1>4, <3>3 DEF can_add
  <2>3. two = [[one EXCEPT !.slots = @ + 1] EXCEPT !.app = Append(@, r2)]
    BY <1>2, <2>1, <2>2 DEF nx_channel_register_resource, r2
  <2> HIDE DEF two
  <2>4. two \in Tables /\ two.app = Append(one.app, r2) /\ two.secured = one.secured
    BY <1>4, <1>7, <2>3, AddedFields
  <2>5. /\ two.app \in Seq(Resource) /\ Len(two.app) = 2 /\ two.app[2] = r2
        /\ \A j \in 1 .. 1 : two.app[j] = one.app[j]
    BY <1>4, <1>6, <2>4, AppendProperties
  <2>6. two.app[1] = r1
    BY <1>6, <2>5
  <2> QED BY <1>6, <2>4, <2>5, <2>6, LenProperties
<1>9. Table.app = two.app /\ Table.secured = two.secured
  <2>1. app = two.app /\ secured = two.secured
    BY DEF Init, one, b1, b2
  <2> HIDE DEF two
  <2> QED BY <2>1 DEF Table
<1> HIDE DEF two
<1> DEFINE list == two.app
<1>10. /\ list \in Seq(Resource) /\ Len(list) = 2 /\ DOMAIN list = {1, 2}
      /\ list[1] = r1 /\ list[2] = r2
  BY <1>8
<1> HIDE DEF list
<1>11. Gaps(list, GET) = {} /\ Gaps(list, POST) \subseteq {2}
  BY <1>3, <1>4, <1>10, ServedDistinct DEF Gaps, HandlerIn
<1>12. Cardinality(Gaps(list, GET)) = 0
  BY <1>11, FS_EmptySet
<1>13. Cardinality(Gaps(list, POST)) \in Nat /\ Cardinality(Gaps(list, POST)) <= 1
  <2>1. IsFiniteSet({2}) /\ Cardinality({2}) = 1
    BY FS_Singleton
  <2>2. Cardinality(Gaps(list, POST)) <= 1
    BY <1>11, <2>1, FS_Subset
  <2> QED BY <1>10, <2>2, GapsFinite DEF Served
<1>14. Lacking(list) \in Nat /\ Lacking(list) <= 1
  BY <1>12, <1>13 DEF Lacking
<1>15. Len(Table.app) = 2 /\ Lacking(Table.app) = Lacking(list) /\ Len(Table.secured) = 0
  BY <1>8, <1>9, <1>10 DEF list
<1> QED BY <1>14, <1>15 DEF Room

\* A table that takes the place of the one before.
LEMMA BecomesRoom ==
    ASSUME NEW t, Room(t), Becomes(t)
    PROVE  Room(Table)'
<1>1. Table'.app = t.app /\ Table'.secured = t.secured
  BY DEF Becomes, Table
<1> QED BY <1>1 DEF Room

\* Every step leaves room.
LEMMA RoomNext ==
    ASSUME CodeSize, TableInv, Room(Table), [Next]_vars
    PROVE  Room(Table)'
<1>0. Sound(Table, {})
  BY DEF TableInv
<1>1. ASSUME NEW p \in Offered.resources, Register(p) PROVE Room(Table)'
  <2> DEFINE n == nx_channel_register_resource(Table, p)
  <2>1. Becomes(n) /\ Proper(p)
    BY <1>1, OfferedAssumption DEF Register, Proper
  <2>2. Room(n)
    BY <1>0, <2>1, RegisterRoom
  <2> HIDE DEF n
  <2> QED BY <2>1, <2>2, BecomesRoom
<1>2. ASSUME NEW h \in Offered.handlers, NEW method \in {GET, POST, "PUT"},
             RegisterHandler(h.uri, method, Handler(oc_store_uri(h.uri), method, h.safe), h.safe)
      PROVE  Room(Table)'
  <2> DEFINE n == nx_channel_register_resource_handler(Table, h.uri, method,
                      Handler(oc_store_uri(h.uri), method, h.safe), h.safe)
  <2>1. Becomes(n) /\ h.uri \in Uris /\ h.safe \in BOOLEAN
    BY <1>2, OfferedAssumption DEF RegisterHandler
  <2>2. Room(n)
    BY <1>0, <2>1, RegisterHandlerRoom
  <2> HIDE DEF n
  <2> QED BY <2>1, <2>2, BecomesRoom
<1>3. UNCHANGED <<app, slots, secured>> => Room(Table)'
  BY DEF Room, Table
<1>4. Finish \/ (\E request \in Requests : Receive(request)) \/ UNCHANGED vars
      => UNCHANGED <<app, slots, secured>>
  BY DEF Finish, Receive, vars
<1> QED BY <1>1, <1>2, <1>3, <1>4 DEF Next

\* What is left is at least one entry.
LEMMA RoomSuffices ==
    ASSUME CodeSize, TableInv, Room(Table)
    PROVE  SecuredPoolSuffices
<1>1. /\ Len(app) \in Nat /\ Len(secured) \in Nat /\ slots \in Nat
      /\ Len(app) <= slots /\ slots <= MaxAppResources
      /\ app \in Seq(Resource)
  BY TableFacts, LenProperties
<1>2. Lacking(app) \in Nat
  BY <1>1, GapsFinite
<1>3. Len(secured) + Lacking(app) <= 3 * Len(app) - 5
  BY TableFields DEF Room
<1>4. MaxAppResources \in {2, 3, 4}
  BY DEF CodeSize
<1> QED BY <1>1, <1>2, <1>3, <1>4 DEF SecuredPoolSuffices, SecuredPool

\* Every step keeps InterfaceAllows.
LEMMA AllowsNext ==
    ASSUME TableInv, InterfaceAllows, [Next]_vars
    PROVE  InterfaceAllows'
<1>1. ASSUME NEW request \in Requests, Receive(request) PROVE InterfaceAllows'
  BY <1>1, ReceiveAllows
<1>2. last' = NoRequest => InterfaceAllows'
  BY DEF InterfaceAllows, Answered, Idle
<1>3. CASE UNCHANGED vars
  BY <1>3 DEF vars, InterfaceAllows, Answered, Idle
<1>4. ASSUME \/ Finish
             \/ \E p \in Offered.resources : Register(p)
             \/ \E h \in Offered.handlers, method \in {GET, POST, "PUT"} :
                  RegisterHandler(h.uri, method, Handler(oc_store_uri(h.uri), method, h.safe), h.safe)
      PROVE  last' = NoRequest
  BY <1>4 DEF Finish, Register, RegisterHandler, Idle
<1> QED BY <1>1, <1>2, <1>3, <1>4 DEF Next

\* A request that names the interface "r" and is served is a GET on a resource
\* that has this interface (oc_ri_invoke_coap_entity_handler,
\* does_interface_support_method), for every number of resources.
THEOREM InterfacesObeyed == Spec => []InterfaceAllows
<1>1. Init => InterfaceAllows
  BY DEF Init, InterfaceAllows, Answered, Idle
<1>2. TableInv /\ InterfaceAllows /\ [Next]_vars => InterfaceAllows'
  BY AllowsNext
<1> QED BY <1>1, <1>2, AnswersAlways, PTL DEF Spec

\* Every request is served by its own handler through an interface that allows
\* it or refused by an error, and the pool of secured methods is never used up
\* by any registrations, for the pools the code has (OC_MAX_APP_RESOURCES up to
\* 4, its value) and any resources, URIs and requests.
THEOREM AllServedRight == CodeSize => (Spec => []ServedRight)
<1> SUFFICES ASSUME CodeSize PROVE Spec => []ServedRight
  OBVIOUS
<1>1. Init => Room(Table)
  BY BuiltInRoom
<1>2. TableInv /\ Room(Table) /\ [Next]_vars => Room(Table)'
  BY RoomNext
<1>3. TableInv /\ Room(Table) => SecuredPoolSuffices
  BY RoomSuffices
<1> QED BY <1>1, <1>2, <1>3, RightlyServed, InterfacesObeyed, AnswersAlways, PTL DEF Spec, ServedRight

=============================================================================
