--------------------------- MODULE DiscoveryDocument ---------------------------
(***************************************************************************)
(* IdentityModel's GetDiscoveryDocumentAsync: requests of the discovery     *)
(* document of one server that share a DiscoveryPolicy.  The first request  *)
(* sets the policy's Authority; a document is validated against the         *)
(* Authority the policy has when the document arrives.                      *)
(*                                                                          *)
(* A URL is a scheme, a host, whether the host is written in capitals, and  *)
(* a path, the sequence of its characters; "document" stands for the path   *)
(* of the discovery document and the scheme "none" for text that is no      *)
(* absolute URL.  A document is its issuer and its endpoints by name.       *)
(***************************************************************************)
EXTENDS Naturals, SequencesExt

CONSTANTS
    Calls,         \* calls of GetDiscoveryDocumentAsync
    Server,        \* the URL of the server
    Addresses,     \* the addresses they are given
    Documents,     \* what the server may answer
    Policies,      \* the policies the application may have made
    MaxRotations,  \* bound of the model: how often the server rotates its keys
    None

VARIABLES
    policy,     \* the shared DiscoveryPolicy
    published,  \* the version of the server's keys
    pc,         \* pc[c]: where call c is
    address,    \* address[c]: the address c was given
    document,   \* document[c]: what the server answered
    keys,       \* keys[c]: the version of the keys in KeySet
    outcome     \* outcome[c]: how c ended

vars == <<policy, published, pc, address, document, keys, outcome>>

Loopback == {"localhost"}
Outcomes == {"document", "violation", "error", "exception"}

TypeOK ==
    /\ policy \in UNION {{p, [p EXCEPT !.authority = policy.authority]} : p \in Policies}
    /\ published \in 0..MaxRotations
    /\ pc \in [Calls -> {"idle", "assign", "send", "document", "keys", "done"}]
    /\ address \in [Calls -> Addresses \cup {None}]
    /\ document \in [Calls -> Documents \cup {None}]
    /\ keys \in [Calls -> 0..MaxRotations \cup {None}]
    /\ outcome \in [Calls -> Outcomes \cup {None}]

Init ==
    /\ policy \in Policies
    /\ published = 0
    /\ pc = [c \in Calls |-> "idle"]
    /\ address = [c \in Calls |-> None]
    /\ document = [c \in Calls |-> None]
    /\ keys = [c \in Calls |-> None]
    /\ outcome = [c \in Calls |-> None]

-----------------------------------------------------------------------------
(* URLs.                                                                   *)

WellFormed(url) == url.scheme \in {"http", "https"}

IsAddress(a) == a # None /\ WellFormed(a)

IsSecureScheme(url) ==
    \/ ~policy.requireHttps
    \/ url.scheme = "https"
    \/ policy.allowHttpOnLoopback /\ url.host \in Loopback

EndsWith(url, atom) == url.path # <<>> /\ Last(url.path) = atom

RemoveTrailingSlash(url) == IF EndsWith(url, "/") THEN [url EXCEPT !.path = Front(@)] ELSE url

StartsWith(url, base) ==
    /\ <<url.scheme, url.host, url.caps>> = <<base.scheme, base.host, base.caps>>
    /\ IsPrefix(base.path, url.path)

\* DiscoveryEndpoint.ParseUrl(input).Authority
AuthorityOf(input) ==
    LET url == RemoveTrailingSlash(input)
    IN  IF EndsWith(url, "document") THEN [url EXCEPT !.path = Front(Front(@))] ELSE url

\* What System.Uri makes of the text of a URL.
Canonical(url) == [url EXCEPT !.caps = FALSE, !.path = IF @ = <<>> THEN <<"/">> ELSE @]

-----------------------------------------------------------------------------
(* The validation of a document.                                           *)

IsIssuerNameValid(issuer) ==
    LET authority == policy.authority
    IN  /\ issuer # None
        /\ CASE policy.strategy = "string" -> RemoveTrailingSlash(issuer) = RemoveTrailingSlash(authority)
             [] policy.strategy = "url" ->
                   /\ WellFormed(issuer)
                   /\ Canonical(RemoveTrailingSlash(issuer)) = Canonical(RemoveTrailingSlash(authority))

IsEndpointValid(endpoint) ==
    \E base \in policy.additional \cup {policy.authority} :
        CASE policy.strategy = "string" -> StartsWith(endpoint, base)
          [] policy.strategy = "url" ->
                StartsWith(Canonical(RemoveTrailingSlash(endpoint)), Canonical(RemoveTrailingSlash(base)))

ValidateEndpoints(endpoints) ==
    \A name \in DOMAIN endpoints :
        /\ WellFormed(endpoints[name])
        /\ IsSecureScheme(endpoints[name])
        /\ policy.validateEndpoints /\ name \notin policy.excluded =>
              /\ endpoints[name].host \in {base.host : base \in policy.additional \cup {policy.authority}}
              /\ IsEndpointValid(endpoints[name])

Validate(d) ==
    /\ policy.validateIssuerName => IsIssuerNameValid(d.issuer)
    /\ ValidateEndpoints(d.endpoints)
    /\ policy.requireKeySet => "jwks_uri" \in DOMAIN d.endpoints

-----------------------------------------------------------------------------
(* GetDiscoveryDocumentAsync.                                              *)

Goto(c, label) == pc' = [pc EXCEPT ![c] = label]

End(c, how) ==
    /\ Goto(c, "done")
    /\ outcome' = [outcome EXCEPT ![c] = how]

\* Without an absolute address there is no request.
Refuse(c) ==
    /\ pc[c] = "idle"
    /\ \E a \in Addresses :
          /\ ~IsAddress(a)
          /\ address' = [address EXCEPT ![c] = a]
    /\ End(c, "exception")
    /\ UNCHANGED <<policy, published, document, keys>>

TestAuthority(c) ==
    /\ pc[c] = "idle"
    /\ \E a \in Addresses :
          /\ IsAddress(a)
          /\ address' = [address EXCEPT ![c] = a]
    /\ Goto(c, IF policy.authority = None THEN "assign" ELSE "send")
    /\ UNCHANGED <<policy, published, document, keys, outcome>>

\* Mutant: the address itself becomes the Authority.
AssignAddress(c) ==
    /\ pc[c] = "assign"
    /\ policy' = [policy EXCEPT !.authority = address[c]]
    /\ Goto(c, "send")
    /\ UNCHANGED <<published, address, document, keys, outcome>>

AssignAuthority(c) ==
    /\ pc[c] = "assign"
    /\ policy' = [policy EXCEPT !.authority = AuthorityOf(address[c])]
    /\ Goto(c, "send")
    /\ UNCHANGED <<published, address, document, keys, outcome>>

Send(c) ==
    /\ pc[c] = "send"
    /\ IF IsSecureScheme(address[c])
       THEN Goto(c, "document") /\ UNCHANGED outcome
       ELSE End(c, "error")
    /\ UNCHANGED <<policy, published, address, document, keys>>

ReceiveDocument(c) ==
    /\ pc[c] = "document"
    /\ \E d \in Documents :
          /\ document' = [document EXCEPT ![c] = d]
          /\ CASE ~Validate(d) -> End(c, "violation")
               [] Validate(d) /\ "jwks_uri" \notin DOMAIN d.endpoints -> End(c, "document")
               [] OTHER -> Goto(c, "keys") /\ UNCHANGED outcome
    /\ UNCHANGED <<policy, published, address, keys>>

ReceiveKeys(c) ==
    /\ pc[c] = "keys"
    /\ keys' = [keys EXCEPT ![c] = published]
    /\ End(c, "document")
    /\ UNCHANGED <<policy, published, address, document>>

\* A status that is no success, a body that cannot be read or an exception of
\* the handlers, for the document or for its keys.
Fail(c) ==
    /\ pc[c] \in {"document", "keys"}
    /\ End(c, "error")
    /\ UNCHANGED <<policy, published, address, document, keys>>

\* A cancellation, as by the timeout of the HttpClient, is thrown.
Cancel(c) ==
    /\ pc[c] \in {"document", "keys"}
    /\ End(c, "exception")
    /\ UNCHANGED <<policy, published, address, document, keys>>

RotateKeys ==
    /\ published < MaxRotations
    /\ published' = published + 1
    /\ UNCHANGED <<policy, pc, address, document, keys, outcome>>

-----------------------------------------------------------------------------
CallStep(c) ==
    \/ Refuse(c) \/ TestAuthority(c) \/ AssignAuthority(c) \/ Send(c)
    \/ ReceiveDocument(c) \/ ReceiveKeys(c) \/ Fail(c) \/ Cancel(c)

Next == RotateKeys \/ \E c \in Calls : CallStep(c)

Spec == Init /\ [][Next]_vars

-----------------------------------------------------------------------------
(* The data.                                                               *)

Urls == {
    url \in [scheme : STRING, host : STRING, caps : BOOLEAN, path : Seq(STRING)] :
        /\ url.path # <<>> => url.path[1] = "/"
        /\ Len(url.path) > 1 => url.path[2] # "/"}

\* Those without capitals and without a slash at the end.
PlainUrls == {url \in Urls : ~url.caps /\ ~EndsWith(url, "/")}

\* An absolute address is a spelling of Server.
IsSpelling(a) ==
    /\ a \in Urls
    /\ a.host = Server.host
    /\ \E tail \in {<<>>, <<"/">>, <<"/", "document">>, <<"/", "document", "/">>} : a.path = Server.path \o tail

IsDocument(d) ==
    /\ d.issuer \in {None} \cup Urls
    /\ \A name \in DOMAIN d.endpoints : d.endpoints[name] \in Urls

\* An Authority that is compared as a string has no slash at the end.
IsPolicy(p) ==
    /\ p \in [
            authority : {None} \cup Urls, strategy : {"string", "url"}, requireHttps : BOOLEAN,
            allowHttpOnLoopback : BOOLEAN, validateIssuerName : BOOLEAN, validateEndpoints : BOOLEAN,
            excluded : SUBSET STRING, additional : SUBSET PlainUrls, requireKeySet : BOOLEAN]
    /\ \/ p.authority \in {None, Server}
       \/ p.strategy = "url" /\ p.authority = [Server EXCEPT !.path = @ \o <<"/">>]

IsData ==
    /\ Server \in PlainUrls /\ WellFormed(Server) /\ ~EndsWith(Server, "document")
    /\ \A a \in Addresses : IsAddress(a) => IsSpelling(a)
    /\ \A d \in Documents : IsDocument(d)
    /\ \A p \in Policies : IsPolicy(p)
    /\ None \notin Documents \cup Urls \cup Outcomes

-----------------------------------------------------------------------------
(* What the policy asks of a document of the server.                       *)

Begins(url, base) ==
    /\ <<url.scheme, url.host>> = <<base.scheme, base.host>>
    /\ IsPrefix(base.path, url.path)

Addressed == {a \in {address[c] : c \in Calls} : IsAddress(a)}

\* The server, by each of the schemes it is addressed with.
Authorities == {[Server EXCEPT !.scheme = scheme] : scheme \in {Server.scheme} \cup {a.scheme : a \in Addressed}}

Conforms(d) ==
    /\ policy.validateIssuerName =>
          /\ d.issuer # None
          /\ \E authority \in Authorities :
                /\ <<d.issuer.scheme, d.issuer.host>> = <<authority.scheme, authority.host>>
                /\ d.issuer.path \in {authority.path, authority.path \o <<"/">>}
    /\ \A name \in DOMAIN d.endpoints :
          LET url == d.endpoints[name]
          IN  /\ WellFormed(url) /\ IsSecureScheme(url)
              /\ \/ ~policy.validateEndpoints
                 \/ name \in policy.excluded
                 \/ \E base \in policy.additional \cup Authorities : Begins(url, base)
    /\ policy.requireKeySet => "jwks_uri" \in DOMAIN d.endpoints

\* Whether a document that conforms must be accepted: an address with another
\* scheme is that of another authority, even when its request is refused, and
\* names compared as strings tell capitals apart.
SpelledAlike(d) ==
    LET texts == Addressed \cup {d.issuer} \cup {d.endpoints[name] : name \in DOMAIN d.endpoints}
    IN  /\ \A a \in Addressed : a.scheme = Server.scheme
        /\ policy.strategy = "url" \/ \A url \in texts : url # None => ~url.caps

-----------------------------------------------------------------------------
(* Properties.                                                             *)

\* However the addresses of the requests are spelled, and in whatever order
\* they set the Authority of their policy, a document that is returned conforms
\* to the policy as it applies to the server, by a scheme it was addressed with,
\* has its keys if it names them, and no document that conforms is refused.
VerdictsAreRight ==
    \A c \in Calls : document[c] # None =>
        /\ pc[c] = "keys" \/ outcome[c] = "document" => Conforms(document[c])
        /\ outcome[c] = "document" /\ "jwks_uri" \in DOMAIN document[c].endpoints => keys[c] # None
        /\ outcome[c] = "violation" /\ SpelledAlike(document[c]) => ~Conforms(document[c])
================================================================================
