--------------------------- MODULE ResourceTable ---------------------------
(* The resources a device serves: registration by the application and by     *)
(* Nexus Channel itself (nexus_channel_core.c, nexus_oc_wrapper.c,           *)
(* oc_server_api.c), the list of methods that need a secured request         *)
(* (nexus_channel_sm.c), and what becomes of a request: the check of its     *)
(* security, the search for the resource, the handler that runs and the      *)
(* answer (oc_ri.c, coap/engine.c).                                          *)
(*                                                                           *)
(* A URI is a sequence of letters.  A handler is a record that says for      *)
(* which URI and method it was written and whether its author registers it   *)
(* as secured, so that a run of it can be compared with what was asked.      *)
EXTENDS Integers, Sequences, FiniteSets, SequencesExt

CONSTANTS Letters,           \* the letters of URIs
          MaxAppResources,   \* OC_MAX_APP_RESOURCES
          Offered,           \* what the application may ask to register
          Requests           \* the requests that may arrive

ASSUME PoolAssumption == MaxAppResources \in Nat \ {0} /\ {"/", "h", "l"} \subseteq Letters

VARIABLES app,       \* app_resources: the resources served, in order
          slots,     \* blocks taken from the pool of resources
          secured,   \* nexus_sec_res_methods: <<URI, method>>, in order
          last       \* the last request and what became of it

vars == <<app, slots, secured, last>>

GET == "GET"
POST == "POST"
Methods == {"GET", "POST", "PUT", "DELETE"}

(* The interfaces oc_ri_get_interface_mask knows. *)
InterfaceNames == {"baseline", "ll", "b", "r", "rw", "a", "s", "create"}

None == [uri |-> <<>>, method |-> "none", safe |-> FALSE]

-----------------------------------------------------------------------------
(* Finding a resource. *)

(* A stored URI begins with a slash: oc_store_uri puts one in front. *)
oc_store_uri(uri) == IF uri # <<>> /\ uri[1] = "/" THEN uri ELSE <<"/">> \o uri

(* Faulty variant: a prefix of a URI matches. *)
app_resource_by_uri_AnyLength(list, uri) ==
  LET found == {i \in DOMAIN list : IsPrefix(oc_store_uri(uri), list[i].uri)}
  IN  IF found = {} THEN 0 ELSE CHOOSE i \in found : \A j \in found : i <= j

(* The first resource with the URI, given with its slash or without, 0 when  *)
(* there is none.                                                            *)
app_resource_by_uri(list, uri) ==
  LET found == {i \in DOMAIN list : list[i].uri = oc_store_uri(uri)}
  IN  IF found = {} THEN 0 ELSE CHOOSE i \in found : \A j \in found : i <= j

(* The resources of the OCF core, /oic/p and /oic/d/, have no handlers. *)
CoreUris == {<<"/", "oic", "/", "p">>, <<"/", "oic", "/", "d", "/">>}
core_resource(uri) ==
  [uri |-> uri, interfaces |-> {"r", "baseline"}, default |-> {"r"}, GET |-> None, POST |-> None]

-----------------------------------------------------------------------------
(* Registering.  A table is the record of the three lists' contents and the  *)
(* result reported to the caller.                                            *)

Table == [app |-> app, slots |-> slots, secured |-> secured, ok |-> TRUE]

Becomes(t) == app' = t.app /\ slots' = t.slots /\ secured' = t.secured

Refused(t) == [t EXCEPT !.ok = FALSE]

SetHandler(t, i, method, handler) == [t EXCEPT !.app[i] = [@ EXCEPT ![method] = handler]]

(* Faulty variant: one entry for each resource. *)
SecuredPool_OnePerResource == MaxAppResources

(* nexus_sec_res_methods_memb *)
SecuredPool == 2 * MaxAppResources

(* nexus_channel_sm_nexus_resource_method_new, and what both its callers do  *)
(* when it fails: the handler is taken away again.                           *)
resource_method_new(t, i, method) ==
  IF Len(t.secured) < SecuredPool
  THEN [t EXCEPT !.secured = Append(@, <<t.app[i].uri, method>>)]
  ELSE Refused(SetHandler(t, i, method, None))

(* Faulty variant: the default interface alone is bound. *)
bind_resource_interfaces_Default(resource, interfaces) ==
  [resource EXCEPT !.default = IF interfaces = <<>> THEN @ ELSE {interfaces[1]}]

(* The interfaces bound to a resource on top of the baseline it begins with, *)
(* the first of them its default.                                            *)
bind_resource_interfaces(resource, interfaces) ==
  [resource EXCEPT !.interfaces = @ \cup Range(interfaces),
                   !.default = IF interfaces = <<>> THEN @ ELSE {interfaces[1]}]

oc_new_resource(props) ==
  [uri |-> oc_store_uri(props.uri), interfaces |-> {"baseline"}, default |-> {"baseline"},
   GET |-> props.get, POST |-> props.post]

(* nexus_add_resource and oc_ri_add_resource: not a URI that is taken, nor a *)
(* resource without a handler.                                               *)
can_add(t, resource) ==
  /\ app_resource_by_uri(t.app, resource.uri) = 0
  /\ resource.GET # None \/ resource.POST # None

(* Faulty variant: the GET method is secured twice. *)
nx_channel_register_resource_GetTwice(t, props) ==
  LET resource == bind_resource_interfaces(oc_new_resource(props), props.interfaces)
      taken == [t EXCEPT !.slots = @ + 1]
      i == Len(t.app) + 1
      added == [taken EXCEPT !.app = Append(@, resource)]
      got == IF props.get_secured THEN resource_method_new(added, i, GET) ELSE added
  IN  IF t.slots = MaxAppResources THEN Refused(t)
      ELSE IF ~can_add(t, resource) THEN Refused(taken)
      ELSE IF props.post_secured THEN resource_method_new(got, i, GET) ELSE got

(* A resource that is refused keeps its block of the pool. *)
nx_channel_register_resource(t, props) ==
  LET resource == bind_resource_interfaces(oc_new_resource(props), props.interfaces)
      taken == [t EXCEPT !.slots = @ + 1]
      i == Len(t.app) + 1
      added == [taken EXCEPT !.app = Append(@, resource)]
      got == IF props.get_secured THEN resource_method_new(added, i, GET) ELSE added
  IN  IF t.slots = MaxAppResources THEN Refused(t)
      ELSE IF ~can_add(t, resource) THEN Refused(taken)
      ELSE IF props.post_secured THEN resource_method_new(got, i, POST) ELSE got

(* Faulty variant: a handler that exists is replaced. *)
nexus_channel_set_request_handler_Replaces(t, i, method, handler, safe) ==
  IF method \notin {GET, POST} THEN Refused(t)
  ELSE LET set == SetHandler(t, i, method, handler)
       IN  IF safe THEN resource_method_new(set, i, method) ELSE set

nexus_channel_set_request_handler(t, i, method, handler, safe) ==
  IF method \notin {GET, POST} THEN Refused(t)
  ELSE IF t.app[i][method] # None THEN Refused(t)
  ELSE LET set == SetHandler(t, i, method, handler)
       IN  IF safe THEN resource_method_new(set, i, method) ELSE set

nx_channel_register_resource_handler(t, uri, method, handler, safe) ==
  LET i == app_resource_by_uri(t.app, uri)
  IN  IF i = 0 THEN Refused(t) ELSE nexus_channel_set_request_handler(t, i, method, handler, safe)

(* Nexus Channel's own: the link handshake and the links. *)
Handler(uri, method, safe) == [uri |-> uri, method |-> method, safe |-> safe]
BuiltIn ==
  << [uri |-> <<"/", "h">>, interfaces |-> <<"rw", "baseline">>,
      get |-> Handler(<<"/", "h">>, GET, FALSE), get_secured |-> FALSE,
      post |-> Handler(<<"/", "h">>, POST, FALSE), post_secured |-> FALSE],
     [uri |-> <<"/", "l">>, interfaces |-> <<"rw", "baseline">>,
      get |-> Handler(<<"/", "l">>, GET, FALSE), get_secured |-> FALSE, post |-> None, post_secured |-> FALSE] >>

(* What a handler that runs for a request may tell oc_send_response.         *)
Verdicts == {"OK", "CHANGED", "CREATED", "BAD_REQUEST"}

(* A handler the application offers is written for the URI and method it is  *)
(* registered under, and says whether it is registered as secured.           *)
Uris == Seq(Letters)
ASSUME OfferedAssumption ==
  /\ \A p \in Offered.resources :
       /\ p.uri \in Uris /\ p.interfaces \in Seq(InterfaceNames)
       /\ p.get_secured \in BOOLEAN /\ p.post_secured \in BOOLEAN
       /\ p.get \in {None, Handler(oc_store_uri(p.uri), GET, p.get_secured)}
       /\ p.post \in {None, Handler(oc_store_uri(p.uri), POST, p.post_secured)}
  /\ \A h \in Offered.handlers : h.uri \in Uris /\ h.safe \in BOOLEAN
ASSUME RequestsAssumption ==
  \A r \in Requests :
    /\ r.path \in Uris /\ r.method \in Methods /\ r.payload \in {"none", "valid", "cut", "malformed"}
    /\ r.secured \in BOOLEAN /\ r.linked \in BOOLEAN /\ r.multicast \in BOOLEAN
    /\ r.verdict \in Verdicts /\ r.size \in Nat

-----------------------------------------------------------------------------
(* Securing.  The comparison of URIs is over the length of the resource's    *)
(* own, so a URI that begins with it also counts.                            *)

method_is_secured(i, method) ==
  i # 0 /\ \E k \in DOMAIN secured : secured[k][2] = method /\ IsPrefix(app[i].uri, secured[k][1])

requested_method_is_secured(request) ==
  method_is_secured(app_resource_by_uri(app, request.path), request.method)

(* nexus_channel_authenticate_message with the codes of                      *)
(* _coap_unpack_possibly_secured_payload, for a message whose MAC and nonce  *)
(* are in order (CoseMac0, SecuredLink).                                     *)
authenticate(request) ==
  CASE request.secured /\ request.payload = "none" -> "4.00"
    [] request.secured /\ request.payload # "none" /\ ~request.linked -> "4.01"
    [] ~request.secured /\ requested_method_is_secured(request) -> "4.03"
    [] OTHER -> "passed"

-----------------------------------------------------------------------------
(* Handling. *)

(* oc_ri_get_query_value(query, "if"): the value of the first parameter      *)
(* named so.  A parameter runs up to the next "=", over any "&" on the way.  *)
query_value(query) ==
  LET first(set) == CHOOSE i \in set : \A j \in set : i <= j
      equals(p) == {i \in p .. Len(query) : query[i] = "="}
      stops(p) == {i \in p .. Len(query) : query[i] = "&"} \cup {Len(query) + 1}
      from[p \in 1 .. Len(query) + 2] ==
        IF equals(p) = {} THEN <<>>
        ELSE LET e == first(equals(p))
                 stop == first(stops(e + 1))
             IN  IF SubSeq(query, p, e - 1) = <<"if">> THEN SubSeq(query, e + 1, stop - 1)
                 ELSE from[stop + 1]
  IN  from[1]

(* oc_ri_get_interface_mask *)
interface_mask(value) == {i \in InterfaceNames : value = <<i>>}

does_interface_support_method(mask, method) == mask \in {{"ll"}, {"s"}, {"r"}} => method = GET

FindResource(path) ==
  LET i == app_resource_by_uri(app, path)
  IN  IF oc_store_uri(path) \in CoreUris /\ path[1] # "/" THEN {core_resource(oc_store_uri(path))}
      ELSE IF i = 0 THEN {} ELSE {app[i]}

(* Faulty variant: the method is not looked at. *)
Forbids_Unsupported(resource, mask, method) == ~(mask \subseteq resource.interfaces)

Forbids(resource, mask, method) ==
  ~(mask \subseteq resource.interfaces) \/ ~does_interface_support_method(mask, method)

(* The handler of the method, if the resource implements it. *)
HandlerFor(resource, method) == IF method \in {GET, POST} THEN resource[method] ELSE None

oc_status_code == [OK |-> "2.05", CHANGED |-> "2.04", CREATED |-> "2.01", BAD_REQUEST |-> "4.00",
                   FORBIDDEN |-> "4.03", NOT_FOUND |-> "4.04", METHOD_NOT_ALLOWED |-> "4.05",
                   REQUEST_ENTITY_TOO_LARGE |-> "4.13"]

(* The error flags in the order they are looked at, "" when none is raised.  *)
(* An error of the parser leaves the resource unsought.                      *)
error_status(payload, found, mask, method) ==
  CASE payload = "cut" -> "REQUEST_ENTITY_TOO_LARGE"
    [] payload = "malformed" -> "BAD_REQUEST"
    [] payload \in {"none", "valid"} /\ found = {} -> "NOT_FOUND"
    [] payload \in {"none", "valid"} /\ \E r \in found : Forbids(r, mask, method) -> "FORBIDDEN"
    [] payload \in {"none", "valid"} /\ \E r \in found : ~Forbids(r, mask, method) /\ HandlerFor(r, method) = None ->
         "METHOD_NOT_ALLOWED"
    [] OTHER -> ""

(* oc_ri_invoke_coap_entity_handler: the handler that runs and the code the  *)
(* answer gets, which is the handler's own verdict when one ran.  An error,  *)
(* its own or the handler's, is not answered to a multicast.                 *)
invoke_coap_entity_handler(request) ==
  LET asked == interface_mask(query_value(request.query))
      found == FindResource(request.path)
      resource == CHOOSE r \in found : TRUE
      mask == IF asked = {} /\ found # {} THEN resource.default ELSE asked
      error == error_status(request.payload, found, mask, request.method)
  IN  IF error = ""
      THEN [ran |-> HandlerFor(resource, request.method),
            code |-> IF request.multicast /\ request.verdict = "BAD_REQUEST" THEN "ignore"
                     ELSE oc_status_code[request.verdict]]
      ELSE [ran |-> None, code |-> IF request.multicast THEN "ignore" ELSE oc_status_code[error]]

(* response_length: what does not fit the buffer, and an empty map, is sent  *)
(* as no payload at all.                                                     *)
MaxCborPayload == 98
MaxSecuredPayload == 77
response_length(size) == IF size <= 2 \/ size > MaxCborPayload THEN 0 ELSE size

(* The answer: protected for a linked peer when the request was, or when the *)
(* method is secured.  One that cannot be packed is cleared and then sent    *)
(* all the same, without its payload, from the buffer just given back.  One  *)
(* without a payload is packed and copied to response->payload, which is     *)
(* NULL (engine.c:799): it goes out, or the device faults there.             *)
reply_is_secured(request) ==
  request.linked /\ (requested_method_is_secured(request) \/ request.secured)

answer(request, survives) ==
  LET status == authenticate(request)
      done == invoke_coap_entity_handler(request)
      length == IF done.ran = None THEN 0 ELSE response_length(request.size)
      says(code, safe, n) == [ran |-> done.ran, code |-> code, secured |-> safe, length |-> n]
  IN  IF status # "passed" THEN [ran |-> None, code |-> status, secured |-> FALSE, length |-> 0]
      ELSE IF done.code = "ignore" THEN says("none", FALSE, 0)
      ELSE IF ~reply_is_secured(request) THEN says(done.code, FALSE, length)
      ELSE IF length > MaxSecuredPayload THEN says(done.code, FALSE, 0)
      ELSE IF length = 0 /\ ~survives THEN says("fault", FALSE, 0)
      ELSE says(done.code, TRUE, length)

-----------------------------------------------------------------------------
NoRequest == [asked |-> "nothing"]

NoResources == [app |-> <<>>, slots |-> 0, secured |-> <<>>, ok |-> TRUE]

Init ==
  LET handshake == nx_channel_register_resource(NoResources, BuiltIn[1])
      t == nx_channel_register_resource(handshake, BuiltIn[2])
  IN  app = t.app /\ slots = t.slots /\ secured = t.secured /\ last = NoRequest

Idle == last = NoRequest

Register(props) ==
  /\ Idle
  /\ Becomes(nx_channel_register_resource(Table, props))
  /\ UNCHANGED last

RegisterHandler(uri, method, handler, safe) ==
  /\ Idle
  /\ Becomes(nx_channel_register_resource_handler(Table, uri, method, handler, safe))
  /\ UNCHANGED last

Receive(request) ==
  /\ Idle
  /\ \E survives \in BOOLEAN : last' = [asked |-> request, got |-> answer(request, survives)]
  /\ UNCHANGED <<app, slots, secured>>

(* The answer is out; the next request or registration may come. *)
Finish ==
  /\ ~Idle
  /\ last' = NoRequest
  /\ UNCHANGED <<app, slots, secured>>

Next ==
  \/ Finish
  \/ \E props \in Offered.resources : Register(props)
  \/ \E h \in Offered.handlers, method \in {GET, POST, "PUT"} :
       RegisterHandler(h.uri, method, Handler(oc_store_uri(h.uri), method, h.safe), h.safe)
  \/ \E request \in Requests : Receive(request)

Spec == Init /\ [][Next]_vars

-----------------------------------------------------------------------------
HandlerOrNone(h) == h = None \/ (h.uri # <<>> /\ h.method \in {GET, POST} /\ h.safe \in BOOLEAN)

TypeOK ==
  /\ Len(app) <= slots /\ slots <= MaxAppResources
  /\ \A i \in DOMAIN app : /\ HandlerOrNone(app[i].GET) /\ HandlerOrNone(app[i].POST)
                           /\ app[i].default \subseteq app[i].interfaces
  /\ Len(secured) <= SecuredPool
  /\ \A k \in DOMAIN secured : app_resource_by_uri(app, secured[k][1]) # 0

Answered == ~Idle

(* nx_channel.h:98-101: "If `secured` is true, then the resource method will *)
(* only be accessible by Nexus Channel nodes that have an active Nexus       *)
(* Channel Link with this device".  A handler registered as secured runs     *)
(* only for a secured request of a linked node and its answer is not sent in *)
(* plain, whatever was registered before it and in whichever way.            *)
SecuredNotServedPlain ==
  (Answered /\ last.got.ran.safe) =>
    /\ last.asked.secured /\ last.asked.linked
    /\ last.got.length > 0 => last.got.secured

(* The pool of secured methods, two for every resource, is never used up, so *)
(* no registration fails half way, with one method served and the other not  *)
(* (nexus_channel_core.c:237-253) - although a method registered as secured  *)
(* without a handler takes an entry, and takes another with its handler.     *)
SecuredPoolSuffices == Len(secured) < SecuredPool

(* A request runs the handler written for its URI and method or none, and no *)
(* two resources are served under one URI, with or without its slash.        *)
OwnHandler ==
  /\ (Answered /\ last.got.ran # None) =>
       last.got.ran.uri = oc_store_uri(last.asked.path) /\ last.got.ran.method = last.asked.method
  /\ \A i, j \in DOMAIN app : app[i].uri = app[j].uri => i = j

(* The peer is not told of a success when no handler ran, whichever error    *)
(* flag oc_ri_invoke_coap_entity_handler raises (oc_ri.c:880-921), and when  *)
(* one ran it is told that handler's verdict, with two exceptions: an error  *)
(* is not answered to a multicast, and an answer without a payload to a      *)
(* linked node may fault on its way out.                                     *)
Successes == {"2.01", "2.04", "2.05"}
AnswerTellsRun ==
  Answered =>
    IF last.got.ran = None THEN last.got.code \notin Successes
    ELSE \/ last.got.code = oc_status_code[last.asked.verdict]
         \/ last.got.code = "none" /\ last.asked.multicast /\ last.asked.verdict = "BAD_REQUEST"
         \/ last.got.code = "fault" /\ last.asked.linked /\ response_length(last.asked.size) = 0

(* A request that names an interface and is served means that the resource   *)
(* has it and may be used that way through it.  (oc_ri.c:789-808)            *)
InterfaceAllows ==
  (Answered /\ last.got.ran # None /\ last.asked.query = <<"if", "=", "r">>) =>
    /\ last.asked.method = GET
    /\ \E i \in DOMAIN app : app[i].uri = last.got.ran.uri /\ "r" \in app[i].interfaces

HandlerAt(list, uri, method) ==
  LET i == app_resource_by_uri(list, uri) IN IF i = 0 THEN None ELSE list[i][method]

(* nexus_oc_wrapper.c:111-114: "Only update the handler if it doesn't        *)
(* already exist. This protects against accidental resource handler          *)
(* registration collisions": a handler that was served stays in its place.   *)
HandlerKept ==
  [][\A i \in DOMAIN app, method \in {GET, POST} :
       app[i][method] # None => HandlerAt(app', app[i].uri, method) = app[i][method]]_vars

(* nexus_channel_sm.h:136-138: "If the message is unsecured, then it will    *)
(* only pass authentication if it is bound for an unsecured resource         *)
(* method", and :47-50 says what is not unsecured: a method "that was        *)
(* registered with the `secured` parameter as true".  A plain request for a  *)
(* method registered without it passes.                                      *)
UnsecuredServed ==
  (/\ Answered /\ ~last.asked.secured
   /\ <<oc_store_uri(last.asked.path), last.asked.method>> \notin Range(secured)) =>
    authenticate(last.asked) = "passed"

(* Each request is served by its own handler, whose verdict is what the peer *)
(* is told, or by none, and no registration leaves the tables in a state     *)
(* where this fails.                                                         *)
ServedRight == TypeOK /\ OwnHandler /\ AnswerTellsRun /\ InterfaceAllows /\ SecuredPoolSuffices

=============================================================================
