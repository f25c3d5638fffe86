--------------------------- MODULE MCSharedDiscovery ---------------------------
(* The classes that share a discovery request between callers, for TLC: an    *)
(* AsyncLazy of either class (part "lazy"), the DiscoveryCache with the       *)
(* requests it makes (part "cache"), and two requests that share a policy     *)
(* (part "requests").  The parts share no state; a behavior is one of one of  *)
(* them, and the variables of the others stay as they are.  Callers do not    *)
(* differ: they are numbered and begin in that order.                         *)
EXTENDS AsyncLazy, Sequences, TLC

CONSTANTS
    CacheCallers, CacheDuration, MaxRefreshes, MaxCalls, MaxTime, MaxRotations,
    Calls, Server, Addresses, Documents, Policies

ASSUME CacheAssumption ==
    /\ MaxRefreshes \in Nat /\ MaxCalls \in Nat /\ MaxTime \in Nat /\ MaxRotations \in Nat
    /\ None \notin CacheCallers

VARIABLES
    part, now, nextReload, lazies, refreshes, calls, cachePc, got, asked,
    policy, published, request, address, document, keys, outcome, wanted

-----------------------------------------------------------------------------
(* For TLC: a server with a path, its addresses, what it may answer, and the *)
(* policies.                                                                 *)

Url(host, path) == [scheme |-> "https", host |-> host, caps |-> FALSE, path |-> path]
At(url, more) == [url EXCEPT !.path = @ \o more]
Http(url) == [url EXCEPT !.scheme = "http"]
Capitals(url) == [url EXCEPT !.caps = TRUE]

TheServer == Url("server", <<"/", "t">>)
Other == Url("localhost", <<>>)

TheAddresses == {
    TheServer, At(TheServer, <<"/">>), At(TheServer, <<"/", "document">>), At(TheServer, <<"/", "document", "/">>),
    Capitals(TheServer), Http(TheServer), None, [TheServer EXCEPT !.scheme = "none"]}

Good == [issuer |-> TheServer, endpoints |->
    [jwks_uri |-> At(TheServer, <<"/", "k">>), token_endpoint |-> At(TheServer, <<"t", "/", "x">>)]]
WithIssuer(issuer) == [Good EXCEPT !.issuer = issuer]
WithEndpoint(url) == [Good EXCEPT !.endpoints.token_endpoint = url]
Keyless == [issuer |-> TheServer, endpoints |-> [token_endpoint |-> At(TheServer, <<"/", "x">>)]]

TheDocuments ==
    {Good, Keyless}
    \cup {WithIssuer(url) : url \in {At(TheServer, <<"/">>), Capitals(TheServer), Http(TheServer), At(TheServer, <<"t">>), None}}
    \cup {WithEndpoint(url) : url \in {
            Http(Good.endpoints.token_endpoint), Url("server", <<"/", "x">>), Capitals(Good.endpoints.token_endpoint),
            At(Other, <<"/", "x">>), Http(At(Other, <<"/", "x">>))}}

Default == [
    authority |-> None, strategy |-> "string", requireHttps |-> TRUE, allowHttpOnLoopback |-> TRUE,
    validateIssuerName |-> TRUE, validateEndpoints |-> TRUE, excluded |-> {}, additional |-> {},
    requireKeySet |-> TRUE]
ThePolicies == {
    Default,
    [Default EXCEPT !.strategy = "url"],
    [Default EXCEPT !.authority = At(TheServer, <<"/">>), !.strategy = "url", !.requireKeySet = FALSE],
    [Default EXCEPT !.validateIssuerName = FALSE, !.allowHttpOnLoopback = FALSE, !.additional = {Http(Other), Other}],
    [Default EXCEPT !.validateEndpoints = FALSE, !.requireHttps = FALSE],
    [Default EXCEPT !.requireHttps = FALSE],
    [Default EXCEPT !.excluded = {"token_endpoint"}]}

-----------------------------------------------------------------------------
Cached == INSTANCE Discovery WITH
    Callers <- CacheCallers, pc <- cachePc, Addresses <- {Server}, Documents <- {Good}, Policies <- {Default}
Requests == INSTANCE DiscoveryDocument WITH pc <- request

ASSUME DataAssumption == Requests!IsData

cacheVars == <<now, nextReload, lazies, refreshes, calls, cachePc, got, asked, wanted>>
requestVars == <<policy, published, request, address, document, keys, outcome>>
allVars == <<part, vars, cacheVars, requestVars>>

MCInit ==
    /\ part \in {"lazy", "cache", "requests"}
    /\ Init
    /\ part = "lazy" \/ class = "introspection"
    /\ Cached!Cache!Init
    /\ wanted = [c \in CacheCallers \cup {None} |-> 0]
    /\ IF part = "requests" THEN Requests!Init ELSE Cached!Document!Init

InOrder(label, processes) ==
    \A c \in processes : label[c] = "idle" /\ label'[c] # "idle" => \A b \in 1..(c - 1) : label[b] # "idle"

MCNext ==
    /\ \/ part = "lazy" /\ Next /\ UNCHANGED <<cacheVars, requestVars>>
       \/ part = "cache" /\ Cached!Next /\ UNCHANGED vars
       \/ part = "requests" /\ Requests!Next /\ UNCHANGED <<vars, cacheVars>>
    /\ InOrder(pc, Callers) /\ InOrder(cachePc, CacheCallers)
    /\ part = "requests" => InOrder(request, Calls)
    /\ UNCHANGED part

MCSpec == MCInit /\ [][MCNext]_allVars

-----------------------------------------------------------------------------
(* Properties of the other parts.                                          *)

\* No reader of an AsyncLazy is given an attempt of which it could have seen
\* that it had failed or, with the AsyncLazy of AccessTokenManagement, that it
\* was cancelled; and an error response goes to the callers of the
\* DiscoveryCache that waited for it and to no caller that comes after it,
\* whatever other responses arrive.
FailuresAreNotKept == FailureIsNotServedAgain /\ Cached!Cache!ErrorsAreNotCached

\* IDiscoveryCache.Refresh gets the keys of the server anew: a document given
\* to a call that follows Refresh has keys no older than those the server had
\* published by then, although requests from before it may end in between.
RefreshGetsCurrentKeys == Cached!RefreshGetsCurrentKeys

\* However the addresses of the requests are spelled, and in whatever order
\* they set the Authority of their policy, a document that is returned conforms
\* to the policy as it applies to the server, by a scheme it was addressed with,
\* has its keys if it names them, and no document that conforms is refused.
VerdictsAreRight == part = "requests" => Requests!VerdictsAreRight
================================================================================
