-------------------------- MODULE MCResourceTable --------------------------
(* What an application may register and the requests that may arrive.        *)
EXTENDS ResourceTable

ToServe(uri, method) ==
  {<<None, FALSE>>, <<None, TRUE>>} \cup
  {<<Handler(oc_store_uri(uri), method, safe), safe>> : safe \in BOOLEAN}

Props(uri, interfaces, gets, posts) ==
  {[uri |-> uri, interfaces |-> interfaces, get |-> get[1], get_secured |-> get[2],
    post |-> post[1], post_secured |-> post[2]] : get \in gets, post \in posts}

Open(uri, method) == {<<Handler(oc_store_uri(uri), method, FALSE), FALSE>>}

X == <<"/", "h", "e">>
Y == <<"/", "h", "e", "x">>
MCResources ==
  Props(X, <<"rw">>, ToServe(X, GET), ToServe(X, POST))
  \cup Props(X, <<"r", "baseline">>, ToServe(X, GET), Open(X, POST))
  \cup Props(Y, <<>>, ToServe(Y, GET), ToServe(Y, POST))
  \cup Props(<<"h">>, <<>>, Open(<<"h">>, GET), Open(<<"h">>, POST))
  \cup Props(<<"oic", "/", "p">>, <<>>, Open(<<"oic", "/", "p">>, GET), {<<None, FALSE>>})

MCHandlers == {Handler(uri, "any", safe) : uri \in {<<"l">>, X, Tail(Y), <<"y">>}, safe \in BOOLEAN}

MCOffered == [resources |-> MCResources, handlers |-> MCHandlers]

Plain == [path |-> Tail(X), method |-> GET, query |-> <<>>, payload |-> "valid", secured |-> FALSE,
          linked |-> TRUE, multicast |-> FALSE, size |-> 10, verdict |-> "OK"]
Paths == {<<"h">>, X, Tail(X), Tail(Y), <<"l">>, <<"oic", "/", "p">>, <<"y">>}

MCRequests ==
  {[Plain EXCEPT !.path = path, !.method = method, !.secured = secure, !.verdict = verdict] :
     path \in Paths, method \in Methods \ {"PUT"}, secure \in BOOLEAN, verdict \in {"OK", "BAD_REQUEST"}}
  \cup {[Plain EXCEPT !.secured = secure, !.linked = linked, !.payload = payload, !.method = POST, !.verdict = "CREATED"] :
          secure \in BOOLEAN, linked \in BOOLEAN, payload \in {"none", "valid", "cut", "malformed"}}
  \cup {[Plain EXCEPT !.query = query, !.method = method, !.multicast = multicast, !.verdict = verdict] :
          query \in {<<"if", "=", "r">>, <<"rt", "=", "a", "&", "if", "=", "r">>, <<"rt", "&", "if", "=", "r">>,
                     <<"if", "=", "?">>, <<"if">>},
          method \in {GET, POST}, multicast \in BOOLEAN, verdict \in {"CHANGED", "BAD_REQUEST"}}
  \cup {[Plain EXCEPT !.size = size, !.secured = secure] : size \in {2, 77, 78, 98, 99}, secure \in BOOLEAN}
=============================================================================
