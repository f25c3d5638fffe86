----------------------- MODULE AccessTokenRequestHandler -----------------------
(***************************************************************************)
(* AccessTokenRequestHandler inside the retry strategy of Resiliency, with  *)
(* the DPoP proof service and the nonce store: requests that attach an      *)
(* access token and a proof, and are sent once more after a 401.            *)
(*                                                                          *)
(* A retry sends the same HttpRequestMessage, so what an attempt sets on    *)
(* the request is there for the next one.  Access tokens are numbered in    *)
(* the order they were issued.  The scheme of a token and whether it has a  *)
(* proof key are two fields of it, and those of the next one may differ.  A *)
(* DPoP nonce is one of an API's, numbered in the order that API supplied   *)
(* them.                                                                    *)
(***************************************************************************)
EXTENDS Naturals, FiniteSets

CONSTANTS
    Requests,
    Apis,         \* APIs, each with nonces of its own
    MaxIssued,    \* bound of the model: access tokens the endpoint issues
    MaxNonce,     \* bound of the model: nonces of one API
    None

ASSUME BoundAssumption == MaxIssued \in Nat /\ MaxNonce \in Nat

Nonces == [api : Apis, number : Nat]
AuthorizationSchemes == {"Bearer", "DPoP"}
\* scheme is that of the token's AccessTokenType, or Bearer when it has none;
\* key is its DPoPJsonWebKey.
Kinds == [scheme : AuthorizationSchemes, key : {"key", "null"}]
Tokens == [number : Nat, kind : Kinds]
Headers == [scheme : AuthorizationSchemes, token : Tokens]
Proofs == [token : Nat, nonce : Nonces \cup {None}]
Statuses == {"ok", "denied", "dpopError"}
Responses == [status : Statuses, nonce : Nonces \cup {None}]
States == {"idle", "getToken", "setToken", "send", "response", "done"}

ASSUME NoneAssumption == None \notin Nat \cup Tokens \cup Nonces \cup Headers \cup Responses

VARIABLES
    api,        \* api[r]: the API request r is for.  Constant
    issued,     \* how many access tokens were issued
    apiNonce,   \* apiNonce[a]: the number of the nonce API a supplies
    cached,     \* the access token the token manager has
    store,      \* store[a]: the nonce in the nonce store
    pc,         \* pc[r]: where request r is
    attempts,   \* attempts[r]: how often r was sent or is being sent
    force,      \* force[r]: the ForceRenewal option of r
    ownNonce,   \* ownNonce[r]: the DPoPNonce option of r
    token,      \* token[r]: the access token of this attempt
    header,     \* header[r]: the Authorization header
    proofs,     \* proofs[r]: the DPoP headers
    response    \* response[r]: the last response

serverVars == <<issued, apiNonce>>
clientVars == <<cached, store>>
requestVars == <<pc, attempts, force, ownNonce, token, header, proofs, response>>
vars == <<api, serverVars, clientVars, requestVars>>

IssuedTokens == [number : 1..issued, kind : Kinds]

TypeOK ==
    /\ api \in [Requests -> Apis]
    /\ issued \in Nat
    /\ apiNonce \in [Apis -> Nat]
    /\ cached \in IssuedTokens \cup {None}
    /\ store \in [Apis -> Nonces \cup {None}]
    /\ pc \in [Requests -> States]
    /\ attempts \in [Requests -> 0..2]
    /\ force \in [Requests -> BOOLEAN]
    /\ ownNonce \in [Requests -> Nonces \cup {None}]
    /\ token \in [Requests -> IssuedTokens \cup {None}]
    /\ header \in [Requests -> Headers \cup {None}]
    /\ proofs \in [Requests -> SUBSET Proofs]
    /\ response \in [Requests -> Responses \cup {None}]

Init ==
    /\ api \in [Requests -> Apis]
    /\ issued = 0
    /\ apiNonce = [a \in Apis |-> 0]
    /\ cached = None
    /\ store = [a \in Apis |-> None]
    /\ pc = [r \in Requests |-> "idle"]
    /\ attempts = [r \in Requests |-> 0]
    /\ force = [r \in Requests |-> FALSE]
    /\ ownNonce = [r \in Requests |-> None]
    /\ token = [r \in Requests |-> None]
    /\ header = [r \in Requests |-> None]
    /\ proofs = [r \in Requests |-> {}]
    /\ response = [r \in Requests |-> None]

-----------------------------------------------------------------------------
(* The APIs, which may change their nonce and refuse a token or a proof at  *)
(* any time, and the expiry of a nonce in the cache.                        *)

NonceOf(a) == [api |-> a, number |-> apiNonce[a]]

RotateNonce(a) ==
    /\ apiNonce[a] < MaxNonce
    /\ apiNonce' = [apiNonce EXCEPT ![a] = @ + 1]
    /\ UNCHANGED <<api, issued, clientVars, requestVars>>

EvictNonce(a) ==
    /\ store[a] # None
    /\ store' = [store EXCEPT ![a] = None]
    /\ UNCHANGED <<api, serverVars, cached, requestVars>>

Goto(r, label) == pc' = [pc EXCEPT ![r] = label]

\* "ok" is any response that is not a 401, "dpopError" a 401 that says
\* use_dpop_nonce or invalid_dpop_proof, "denied" every other 401.  The first
\* two may bring the nonce of the API; nobody reads that of the third.
Respond(r) ==
    /\ pc[r] = "send"
    /\ \E status \in Statuses, n \in {None, NonceOf(api[r])} :
        /\ status = "denied" => n = None
        /\ response' = [response EXCEPT ![r] = [status |-> status, nonce |-> n]]
    /\ Goto(r, "response")
    /\ UNCHANGED <<api, serverVars, clientVars, attempts, force, ownNonce, token, header, proofs>>

-----------------------------------------------------------------------------
(* SendAsync of AccessTokenRequestHandler.                                 *)

Begin(r) ==
    /\ pc[r] = "idle"
    /\ Goto(r, "getToken")
    /\ attempts' = [attempts EXCEPT ![r] = 1]
    /\ UNCHANGED <<api, serverVars, clientVars, force, ownNonce, token, header, proofs, response>>

\* The retriever returns the cached access token, unless it is forced to renew.
GetCachedToken(r) ==
    /\ pc[r] = "getToken"
    /\ ~force[r] /\ cached # None
    /\ token' = [token EXCEPT ![r] = cached]
    /\ Goto(r, "setToken")
    /\ UNCHANGED <<api, serverVars, clientVars, attempts, force, ownNonce, header, proofs, response>>

\* The new token may be of another kind than the one before it.
GetNewToken(r) ==
    /\ pc[r] = "getToken"
    /\ force[r] \/ cached = None
    /\ issued < MaxIssued
    /\ issued' = issued + 1
    /\ \E kind \in Kinds :
        /\ cached' = [number |-> issued + 1, kind |-> kind]
        /\ token' = [token EXCEPT ![r] = [number |-> issued + 1, kind |-> kind]]
    /\ Goto(r, "setToken")
    /\ UNCHANGED <<api, apiNonce, store, attempts, force, ownNonce, header, proofs, response>>

\* Without an access token the request is sent as it is.
GetTokenFails(r) ==
    /\ pc[r] = "getToken"
    /\ force[r] \/ cached = None
    /\ token' = [token EXCEPT ![r] = None]
    /\ Goto(r, "send")
    /\ UNCHANGED <<api, serverVars, clientVars, attempts, force, ownNonce, header, proofs, response>>

SetToken(r, scheme) ==
    /\ header' = [header EXCEPT ![r] = [scheme |-> scheme, token |-> token[r]]]
    /\ Goto(r, "send")

HasKey(t) == t.kind.key = "key"

\* A token without a key is sent with its own scheme, and with whatever proof
\* an earlier attempt left on the request.
SetKeylessToken(r) ==
    /\ pc[r] = "setToken"
    /\ ~HasKey(token[r])
    /\ SetToken(r, token[r].kind.scheme)
    /\ UNCHANGED <<api, serverVars, clientVars, attempts, force, ownNonce, token, proofs, response>>

\* StoreNonceAsync: the key is made of the URL and the method.
StoreNonce(r, n) == store' = [store EXCEPT ![api[r]] = n]

\* Mutant: the nonce of the store is used although the request has its own.
ProofNonceFromStore(r) == store[api[r]]

\* CreateProofTokenAsync: the nonce of the request, or that of the store.
ProofNonce(r) == IF ownNonce[r] # None THEN ownNonce[r] ELSE store[api[r]]

\* Mutant: the proof of the first attempt stays on the request.
CreateProofWithoutClear(r) ==
    /\ pc[r] = "setToken"
    /\ HasKey(token[r])
    /\ proofs' = [proofs EXCEPT ![r] = @ \cup {[token |-> token[r].number, nonce |-> ProofNonce(r)]}]
    /\ IF ownNonce[r] # None THEN StoreNonce(r, ownNonce[r]) ELSE UNCHANGED store
    /\ SetToken(r, token[r].kind.scheme)
    /\ UNCHANGED <<api, serverVars, cached, attempts, force, ownNonce, token, response>>

\* The proof replaces that of an earlier attempt, the scheme is the token's.
CreateProof(r) ==
    /\ pc[r] = "setToken"
    /\ HasKey(token[r])
    /\ proofs' = [proofs EXCEPT ![r] = {[token |-> token[r].number, nonce |-> ProofNonce(r)]}]
    /\ IF ownNonce[r] # None THEN StoreNonce(r, ownNonce[r]) ELSE UNCHANGED store
    /\ SetToken(r, token[r].kind.scheme)
    /\ UNCHANGED <<api, serverVars, cached, attempts, force, ownNonce, token, response>>

\* The proof service returned nothing: whatever its scheme, the token is sent
\* as a bearer token, and no proof is left.
FallBackToBearer(r) ==
    /\ pc[r] = "setToken"
    /\ HasKey(token[r])
    /\ proofs' = [proofs EXCEPT ![r] = {}]
    /\ SetToken(r, "Bearer")
    /\ UNCHANGED <<api, serverVars, clientVars, attempts, force, ownNonce, token, response>>

\* The retriever, the proof service or the connection throws: not retried.
Throw(r) ==
    /\ pc[r] \in {"getToken", "setToken", "send"}
    /\ Goto(r, "done")
    /\ UNCHANGED <<api, serverVars, clientVars, attempts, force, ownNonce, token, header, proofs, response>>

-----------------------------------------------------------------------------
(* The end of SendAsync, and the retry strategy.                           *)

\* A response that is not a 401 ends the request.  Its nonce is stored, if
\* the request was sent with a token.
Return(r) ==
    /\ pc[r] = "response"
    /\ response[r].status = "ok"
    /\ IF token[r] # None /\ response[r].nonce # None
       THEN StoreNonce(r, response[r].nonce) ELSE UNCHANGED store
    /\ Goto(r, "done")
    /\ UNCHANGED <<api, serverVars, cached, attempts, force, ownNonce, token, header, proofs, response>>

\* ShouldHandle: a DPoP error needs a nonce to be retried with.
ShouldRetry(r) ==
    response[r].status = "denied" \/ (response[r].status = "dpopError" /\ response[r].nonce # None)

\* A 401 that is not retried is returned.
GiveUp(r) ==
    /\ pc[r] = "response"
    /\ response[r].status # "ok"
    /\ attempts[r] = 2 \/ ~ShouldRetry(r)
    /\ Goto(r, "done")
    /\ UNCHANGED <<api, serverVars, clientVars, attempts, force, ownNonce, token, header, proofs, response>>

\* Mutant: the access token is not renewed.
RetryWithoutRenewal(r) ==
    /\ pc[r] = "response"
    /\ response[r].status # "ok"
    /\ attempts[r] = 1 /\ ShouldRetry(r)
    /\ IF response[r].status = "dpopError"
       THEN ownNonce' = [ownNonce EXCEPT ![r] = response[r].nonce]
       ELSE UNCHANGED ownNonce
    /\ attempts' = [attempts EXCEPT ![r] = 2]
    /\ Goto(r, "getToken")
    /\ UNCHANGED <<api, serverVars, clientVars, force, token, header, proofs, response>>

\* The request is sent again, with the nonce of the response or with a
\* renewed access token.
Retry(r) ==
    /\ pc[r] = "response"
    /\ response[r].status # "ok"
    /\ attempts[r] = 1 /\ ShouldRetry(r)
    /\ IF response[r].status = "dpopError"
       THEN ownNonce' = [ownNonce EXCEPT ![r] = response[r].nonce] /\ UNCHANGED force
       ELSE force' = [force EXCEPT ![r] = TRUE] /\ UNCHANGED ownNonce
    /\ attempts' = [attempts EXCEPT ![r] = 2]
    /\ Goto(r, "getToken")
    /\ UNCHANGED <<api, serverVars, clientVars, token, header, proofs, response>>

-----------------------------------------------------------------------------
RequestStep(r) ==
    \/ GetCachedToken(r) \/ GetNewToken(r) \/ GetTokenFails(r)
    \/ SetKeylessToken(r) \/ CreateProof(r) \/ FallBackToBearer(r)
    \/ Respond(r) \/ Return(r) \/ GiveUp(r) \/ Retry(r)

Next ==
    \/ \E a \in Apis : RotateNonce(a) \/ EvictNonce(a)
    \/ \E r \in Requests : Begin(r) \/ Throw(r) \/ RequestStep(r)

Spec == Init /\ [][Next]_vars

-----------------------------------------------------------------------------
(* Properties.                                                             *)

\* However the token of a retry differs from that of the first attempt, nothing
\* is sent with two proofs.  A token that has a key is never sent with a proof
\* that was made for another token; with the DPoP scheme it has its proof, and
\* a DPoP token that fell back to Bearer has none.
OneProofPerToken ==
    \A r \in Requests : pc[r] = "send" /\ header[r] # None =>
        /\ Cardinality(proofs[r]) <= 1
        /\ HasKey(header[r].token) =>
            /\ \A p \in proofs[r] : p.token = header[r].token.number
            /\ header[r].scheme = "DPoP" => proofs[r] # {}
            /\ header[r].scheme # header[r].token.kind.scheme => proofs[r] = {}

\* The proof of a request has a nonce of the API it is sent to, whatever other
\* requests put into the nonce store.
ProofFitsApi ==
    \A r \in Requests : pc[r] = "send" =>
        \A p \in proofs[r] : p.nonce # None => p.nonce.api = api[r]

\* A request whose proof was rejected is sent again with the nonce that came
\* with the rejection, whatever the nonce store holds by then, as long as its
\* token has a key.
RetryUsesSuppliedNonce ==
    \A r \in Requests : pc[r] = "send" /\ ownNonce[r] # None /\ token[r] # None /\ HasKey(token[r]) =>
        \A p \in proofs[r] : p.nonce = ownNonce[r]

\* A request whose access token was denied is not sent with that token again
\* when the token could be renewed.
DeniedTokensAreRenewed ==
    \A r \in Requests :
        pc[r] = "setToken" /\ attempts[r] = 2 /\ response[r].status = "denied" /\ header[r] # None
            => token[r].number > header[r].token.number

================================================================================
