---------------------------- MODULE TokenEndpointDPoP ----------------------------
(***************************************************************************)
(* DPoP at the token endpoint, on the server side of Duende                 *)
(* AccessTokenManagement: the code exchange of a login (events of           *)
(* ConfigureOpenIdConnectOptions, AuthorizationServerDPoPHandler), the      *)
(* refresh of a user's token (OpenIdConnectUserTokenEndpoint, over the same *)
(* handler) and the client credentials request (ClientCredentialsTokenClient *)
(* over an HttpClient without it).  The key store may change its key and    *)
(* the server its nonce at any time; the nonce store is shared.             *)
(*                                                                          *)
(* Keys and nonces are numbered in the order they were issued, 0 is none.   *)
(***************************************************************************)
EXTENDS Naturals, Sequences, FiniteSets

CONSTANTS
    Logins,     \* users that log in and then refresh their tokens
    Clients,    \* clients that request client credentials tokens
    MaxKey,     \* bound of the model: how often the key store changes its key
    MaxNonce,   \* bound of the model: how often the server changes its nonce
    MaxRounds   \* bound of the model: exchanges of one login or client

ASSUME BoundsAssumption == MaxKey \in Nat /\ MaxNonce \in Nat /\ MaxRounds \in Nat
ASSUME DisjointAssumption == Logins \cap Clients = {}

Flows == Logins \cup Clients
Keys == 0..MaxKey
Nonces == 0..MaxNonce

VARIABLES
    key,       \* the key GetKeyAsync of the key store returns
    current,   \* the nonce the server asks for
    store,     \* the nonce store's entry for POST to the token endpoint
    pc,        \* pc[f]: where flow f is
    assertion, \* assertion[f]: the client assertions of f's exchange
    jwk,       \* jwk[f]: the key of the authentication properties, or of the token
    bound,     \* bound[f]: the key the server has bound f's code or tokens to
    seen,      \* seen[f]: the jti of the client assertions the server has seen
    sent,      \* sent[f]: the messages of the exchange
    responses, \* responses[f]: the responses to them
    rounds     \* rounds[f]: exchanges begun

vars == <<key, current, store, pc, assertion, jwk, bound, seen, sent, responses, rounds>>

Labels == {"idle", "redirected", "sent", "answered", "session", "failed"}
AssertionModes == {"none", "service", "fixed"}
Jtis == 0..(2 * MaxRounds)
Messages == [nonce : Nonces, key : Keys, jti : Jtis]
Responses == [status : {"ok", "refused", "error"}, nonce : Nonces]

TypeOK ==
    /\ key \in Keys /\ current \in Nonces /\ store \in Nonces
    /\ pc \in [Flows -> Labels]
    /\ assertion \in [Flows -> AssertionModes]
    /\ jwk \in [Flows -> Keys]
    /\ bound \in [Flows -> Keys]
    /\ seen \in [Flows -> SUBSET Jtis]
    /\ sent \in [Flows -> Seq(Messages)]
    /\ responses \in [Flows -> Seq(Responses)]
    /\ rounds \in [Flows -> 0..MaxRounds]
    /\ \A f \in Flows : Len(sent[f]) <= 2

Init ==
    /\ key \in {0, 1} \cap Keys
    /\ current \in {0, 1} \cap Nonces
    /\ store = 0
    /\ pc = [f \in Flows |-> "idle"]
    /\ assertion = [f \in Flows |-> "none"]
    /\ jwk = [f \in Flows |-> 0]
    /\ bound = [f \in Flows |-> 0]
    /\ seen = [f \in Flows |-> {}]
    /\ sent = [f \in Flows |-> <<>>]
    /\ responses = [f \in Flows |-> <<>>]
    /\ rounds = [f \in Flows |-> 0]

Goto(f, label) == pc' = [pc EXCEPT ![f] = label]
FreshJti(f) == 1 + Cardinality(seen[f])
Response(f) == responses[f][Len(responses[f])]
LastMessage(f) == sent[f][Len(sent[f])]

\* The key store gets a new key; the server's nonce expires.
RotateKey ==
    /\ key < MaxKey /\ key' = key + 1
    /\ UNCHANGED <<current, store, pc, assertion, jwk, bound, seen, sent, responses, rounds>>
RotateNonce ==
    /\ current < MaxNonce /\ current' = current + 1
    /\ UNCHANGED <<key, store, pc, assertion, jwk, bound, seen, sent, responses, rounds>>

\* OnRedirectToIdentityProvider: the key is kept in the properties that come back
\* with the code, and its thumbprint goes to the server.
Redirect(f) ==
    /\ f \in Logins /\ pc[f] = "idle"
    /\ jwk' = [jwk EXCEPT ![f] = key]
    /\ bound' = [bound EXCEPT ![f] = key]
    /\ Goto(f, "redirected")
    /\ UNCHANGED <<key, current, store, assertion, seen, sent, responses, rounds>>

\* The first message of an exchange: CreateProofTokenAsync, which is given no
\* nonce, reads the nonce store; without a key there is no proof.
SendFirst(f, k, mode) ==
    /\ rounds[f] < MaxRounds
    /\ rounds' = [rounds EXCEPT ![f] = @ + 1]
    /\ assertion' = [assertion EXCEPT ![f] = mode]
    /\ sent' = [sent EXCEPT ![f] =
           <<[nonce |-> IF k = 0 THEN 0 ELSE store, key |-> k,
              jti |-> IF mode = "none" THEN 0 ELSE FreshJti(f)]>>]
    /\ responses' = [responses EXCEPT ![f] = <<>>]
    /\ Goto(f, "sent")
    /\ UNCHANGED <<key, current, store, seen>>

\* Mutant: the proof of the code exchange is made with the key store's key.
ExchangeWithStoredKey(f) ==
    /\ pc[f] = "redirected"
    /\ \E mode \in {"none", "service"} : SendFirst(f, key, mode)
    /\ UNCHANGED <<jwk, bound>>

\* OnAuthorizationCodeReceived, and the first part of the handler's SendAsync.
ExchangeCode(f) ==
    /\ pc[f] = "redirected"
    /\ \E mode \in {"none", "service"} : SendFirst(f, jwk[f], mode)
    /\ UNCHANGED <<jwk, bound>>

\* RefreshAccessTokenAsync with the key that was saved with the refresh token.
Refresh(f) ==
    /\ f \in Logins
    /\ pc[f] = "session" \/ (pc[f] = "failed" /\ rounds[f] > 1)
    /\ \E mode \in AssertionModes : SendFirst(f, jwk[f], mode)
    /\ UNCHANGED <<jwk, bound>>

\* RequestClientCredentialsTokenAsync: the key store's key, for a new token.
RequestToken(f) ==
    /\ f \in Clients /\ pc[f] \in {"idle", "session", "failed"}
    /\ \E mode \in AssertionModes : SendFirst(f, key, mode)
    /\ jwk' = [jwk EXCEPT ![f] = key]
    /\ bound' = [bound EXCEPT ![f] = 0]

\* What the server answers: an assertion is accepted once, a code or a refresh
\* token only with its own key.  A nonce comes with a refusal or a success.
Acceptable(f, m) ==
    /\ m.jti = 0 \/ m.jti \notin seen[f]
    /\ f \in Logins => m.key = bound[f]

Answers(f, m) ==
    {[status |-> "error", nonce |-> 0]} \cup
    IF ~Acceptable(f, m) THEN {}
    ELSE IF m.key = 0 \/ current \in {0, m.nonce}
         THEN {[status |-> "ok", nonce |-> n] : n \in {0, current}}
         ELSE {[status |-> "refused", nonce |-> current]}

Serve(f) ==
    /\ pc[f] = "sent"
    /\ \E a \in Answers(f, LastMessage(f)) :
           /\ responses' = [responses EXCEPT ![f] = Append(@, a)]
           /\ bound' = IF a.status = "ok" THEN [bound EXCEPT ![f] = LastMessage(f).key] ELSE bound
    /\ seen' = [seen EXCEPT ![f] = @ \cup ({LastMessage(f).jti} \ {0})]
    /\ Goto(f, "answered")
    /\ UNCHANGED <<key, current, store, assertion, jwk, sent, rounds>>

MayRetry(f) ==
    /\ pc[f] = "answered"
    /\ Len(sent[f]) = 1
    /\ Response(f).status = "refused"
    /\ LastMessage(f).key # 0

\* The handler and the endpoints ask the assertion service again; an assertion
\* that was passed in with the parameters is sent again.
RetryJti(f) ==
    CASE assertion[f] = "none" -> 0
      [] assertion[f] = "service" -> FreshJti(f)
      [] assertion[f] = "fixed" -> LastMessage(f).jti

\* Mutant: the second proof takes its nonce from the nonce store.
RetryWithStoredNonce(f) ==
    /\ MayRetry(f)
    /\ sent' = [sent EXCEPT ![f] =
           Append(@, [nonce |-> store, key |-> LastMessage(f).key, jti |-> RetryJti(f)])]
    /\ Goto(f, "sent")
    /\ UNCHANGED <<key, current, store, assertion, jwk, bound, seen, responses, rounds>>

\* The second attempt, with a proof for the nonce of the refusal, which
\* CreateProofTokenAsync also stores.
Retry(f) ==
    /\ MayRetry(f)
    /\ store' = Response(f).nonce
    /\ sent' = [sent EXCEPT ![f] =
           Append(@, [nonce |-> Response(f).nonce, key |-> LastMessage(f).key, jti |-> RetryJti(f)])]
    /\ Goto(f, "sent")
    /\ UNCHANGED <<key, current, assertion, jwk, bound, seen, responses, rounds>>

\* The handler stores the nonce of a success, but not of the second response to a
\* code exchange, and a client credentials request does not go through it.
StoresNonce(f) ==
    /\ Response(f).status = "ok" /\ Response(f).nonce # 0
    /\ f \in Logins
    /\ ~(rounds[f] = 1 /\ Len(sent[f]) = 2)

\* The response is returned: the tokens are saved with the key of the request.
Return(f) ==
    /\ pc[f] = "answered" /\ ~MayRetry(f)
    /\ store' = IF StoresNonce(f) THEN Response(f).nonce ELSE store
    /\ Goto(f, IF Response(f).status = "ok" THEN "session" ELSE "failed")
    /\ UNCHANGED <<key, current, assertion, jwk, bound, seen, sent, responses, rounds>>

Step(f) ==
    \/ Redirect(f) \/ ExchangeCode(f) \/ Refresh(f) \/ RequestToken(f)
    \/ Serve(f) \/ Retry(f) \/ Return(f)
Next == RotateKey \/ RotateNonce \/ \E f \in Flows : Step(f)

Spec == Init /\ [][Next]_vars

-----------------------------------------------------------------------------
\* Every proof for a code or a refresh token is made with the key its login was
\* begun with, however often the key store has changed its key since, and the
\* key that is saved with a token is the one the server has bound it to.
KeysAreKept ==
    /\ \A f \in Logins : \A i \in DOMAIN sent[f] : sent[f][i].key = jwk[f]
    /\ \A f \in Flows : pc[f] = "session" => jwk[f] = bound[f]

\* An exchange that fails for its nonce was sent twice, and the server has
\* changed its nonce after the first refusal: no other flow's nonce, stored in
\* between, can make the second proof fail.
RefusalsAreOvercome ==
    \A f \in Flows :
        pc[f] = "failed" /\ Response(f).status = "refused" =>
            /\ Len(sent[f]) = 2
            /\ sent[f][2].nonce = responses[f][1].nonce
            /\ sent[f][2].nonce < responses[f][2].nonce

\* A client assertion that the application did not pass in itself reaches the
\* server once: the retry has a fresh jti.
AssertionsAreUsedOnce ==
    \A f \in Flows :
        pc[f] = "sent" /\ assertion[f] = "service" => LastMessage(f).jti \notin seen[f]

\* What is sent again for its nonce can succeed: its proof has the nonce of the
\* refusal and its assertion is new.
RetriesCanSucceed == RefusalsAreOvercome /\ AssertionsAreUsedOnce

=============================================================================
