--------------------- MODULE RefreshTokenDelegatingHandler ---------------------
(***************************************************************************)
(* The OidcClient's RefreshTokenDelegatingHandler: HTTP requests that share *)
(* one access token and one refresh token behind a semaphore, refresh on a  *)
(* missing token or a 401, and send again.                                  *)
(*                                                                          *)
(* The handler reads a token under the semaphore and holds the semaphore    *)
(* only while it refreshes, so a read is one step.  Every wait ends after   *)
(* Timeout.  The token endpoint issues numbered tokens; with Rotates it may *)
(* replace the refresh token and then accepts only the newest one.  The API *)
(* accepts the tokens in valid, until they expire.                          *)
(***************************************************************************)
EXTENDS Integers

CONSTANTS
    Requests,      \* requests sent through the handler
    Rotates,       \* does the token endpoint rotate refresh tokens?
    Faults,        \* may responses be lost, requests fail, waits be cancelled?
    MaxExpiries,   \* bound of the model: how often the access tokens expire
    None

ASSUME RotatesAssumption == Rotates \in BOOLEAN /\ Faults \in BOOLEAN
ASSUME NoneAssumption == None \notin Nat \cup Requests

VARIABLES
    lock,          \* the request that holds _lock
    accessToken,   \* _accessToken
    refreshToken,  \* _refreshToken
    issued,        \* how many access tokens the endpoint has issued
    newest,        \* the newest refresh token of the endpoint
    valid,         \* the access tokens the API accepts
    expiries,      \* how often they have expired
    pc,            \* pc[r]: where request r is
    retried,       \* retried[r]: has r been answered with a 401?
    header,        \* header[r]: the token in r's Authorization header
    response,      \* response[r]: the answer of the endpoint to r's refresh
    outcome,       \* outcome[r]: what SendAsync returned or threw
    lost           \* has a rotated refresh token been lost on its way?

vars == <<lock, accessToken, refreshToken, issued, newest, valid, expiries, pc, retried, header,
          response, outcome, lost>>

States == {"idle", "readToken", "awaitRefresh", "refreshing", "granted", "setHeader", "sent", "done"}
Responses == [access : Nat, refresh : Nat \cup {None}]
Outcomes == {"pending", "response", "unauthorized", "exception"}

TypeOK ==
    /\ lock \in Requests \cup {None}
    /\ accessToken \in Nat \cup {None}
    /\ refreshToken \in Nat \cup {None}
    /\ issued \in Nat
    /\ newest \in Nat
    /\ valid \in SUBSET Nat
    /\ expiries \in Nat
    /\ pc \in [Requests -> States]
    /\ retried \in [Requests -> BOOLEAN]
    /\ header \in [Requests -> Nat \cup {None}]
    /\ response \in [Requests -> Responses \cup {None}]
    /\ outcome \in [Requests -> Outcomes]
    /\ lost \in BOOLEAN

\* The constructor: a refresh token is required, an access token is not.
Init ==
    /\ lock = None
    /\ accessToken \in {0, None}
    /\ refreshToken = 0
    /\ issued = 0
    /\ newest = 0
    /\ valid = {0}
    /\ expiries = 0
    /\ pc = [r \in Requests |-> "idle"]
    /\ retried = [r \in Requests |-> FALSE]
    /\ header = [r \in Requests |-> None]
    /\ response = [r \in Requests |-> None]
    /\ outcome = [r \in Requests |-> "pending"]
    /\ lost = FALSE

-----------------------------------------------------------------------------
Goto(r, label) == pc' = [pc EXCEPT ![r] = label]

Return(r, how) ==
    /\ pc' = [pc EXCEPT ![r] = "done"]
    /\ outcome' = [outcome EXCEPT ![r] = how]

endpointVars == <<issued, newest, valid, expiries>>
tokenVars == <<accessToken, refreshToken>>

SendAsync(r) ==
    /\ pc[r] = "idle"
    /\ Goto(r, "readToken")
    /\ UNCHANGED <<lock, tokenVars, endpointVars, retried, header, response, outcome, lost>>

\* GetAccessTokenAsync returns a token, or null when there is none or the
\* wait timed out; null is answered with a refresh.
GetAccessToken(r) ==
    /\ pc[r] = "readToken"
    /\ Goto(r, IF lock = None /\ accessToken # None THEN "setHeader" ELSE "awaitRefresh")
    /\ UNCHANGED <<lock, tokenVars, endpointVars, retried, header, response, outcome, lost>>

\* Mutant: the refresh token is used without waiting for the semaphore.
RefreshWithoutLock(r) ==
    /\ pc[r] = "awaitRefresh"
    /\ lock' = r
    /\ Goto(r, "refreshing")
    /\ UNCHANGED <<tokenVars, endpointVars, retried, header, response, outcome, lost>>

\* RefreshTokensAsync has the semaphore and sends the refresh token.
BeginRefresh(r) ==
    /\ pc[r] = "awaitRefresh"
    /\ lock = None
    /\ lock' = r
    /\ IF refreshToken = None
       THEN Return(r, "unauthorized")
       ELSE Goto(r, "refreshing") /\ UNCHANGED outcome
    /\ UNCHANGED <<tokenVars, endpointVars, retried, header, response, lost>>

RefreshTimesOut(r) ==
    /\ pc[r] = "awaitRefresh"
    /\ lock # None
    /\ Return(r, "unauthorized")
    /\ UNCHANGED <<lock, tokenVars, endpointVars, retried, header, response, lost>>

-----------------------------------------------------------------------------
(* The token endpoint.                                                     *)

Accepted == Rotates => refreshToken = newest

EndpointGrants(r) ==
    /\ pc[r] = "refreshing"
    /\ Accepted
    /\ issued' = issued + 1
    /\ valid' = valid \cup {issued + 1}
    /\ \E rotate \in {FALSE, Rotates} :
        /\ newest' = IF rotate THEN newest + 1 ELSE newest
        /\ response' = [response EXCEPT ![r] =
              [access |-> issued + 1, refresh |-> IF rotate THEN newest + 1 ELSE None]]
    /\ Goto(r, "granted")
    /\ UNCHANGED <<lock, tokenVars, expiries, retried, header, outcome, lost>>

\* The access tokens expire; the API answers 401 from now on.
Expire ==
    /\ expiries < MaxExpiries
    /\ valid # {}
    /\ valid' = {}
    /\ expiries' = expiries + 1
    /\ UNCHANGED <<lock, tokenVars, issued, newest, pc, retried, header, response, outcome, lost>>

-----------------------------------------------------------------------------
(* RefreshTokensAsync after the exchange; the semaphore is released.       *)

RefreshSucceeds(r) ==
    /\ pc[r] = "granted"
    /\ accessToken' = response[r].access
    /\ refreshToken' = IF response[r].refresh = None THEN refreshToken ELSE response[r].refresh
    /\ lock' = None
    /\ response' = [response EXCEPT ![r] = None]
    /\ Goto(r, "setHeader")
    /\ UNCHANGED <<endpointVars, retried, header, outcome, lost>>

\* The endpoint refuses the refresh token.
RefreshIsRefused(r) ==
    /\ pc[r] = "refreshing"
    /\ ~Accepted
    /\ lock' = None
    /\ Return(r, "unauthorized")
    /\ UNCHANGED <<tokenVars, endpointVars, retried, header, response, lost>>

\* The request or its response is lost, the response is invalid, or the
\* exchange is cancelled: its tokens are dropped.
RefreshFails(r) ==
    /\ Faults
    /\ pc[r] \in {"refreshing", "granted"}
    /\ lock' = None
    /\ \E how \in {"unauthorized", "exception"} : Return(r, how)
    /\ response' = [response EXCEPT ![r] = None]
    /\ lost' = (lost \/ (pc[r] = "granted" /\ newest # refreshToken))
    /\ UNCHANGED <<tokenVars, endpointVars, retried, header>>

-----------------------------------------------------------------------------
(* The Authorization header and the request itself.                        *)

\* The AccessToken property: the token, or null after a timeout.
SetHeader(r) ==
    /\ pc[r] = "setHeader"
    /\ header' = [header EXCEPT ![r] = IF lock = None THEN accessToken ELSE None]
    /\ Goto(r, "sent")
    /\ UNCHANGED <<lock, tokenVars, endpointVars, retried, response, outcome, lost>>

ApiAccepts(r) ==
    /\ pc[r] = "sent"
    /\ header[r] \in valid
    /\ Return(r, "response")
    /\ UNCHANGED <<lock, tokenVars, endpointVars, retried, header, response, lost>>

\* Mutant: after the refresh the request is sent until it is not rejected.
SendAgain(r) ==
    /\ pc[r] = "sent"
    /\ header[r] \notin valid
    /\ retried' = [retried EXCEPT ![r] = TRUE]
    /\ Goto(r, IF retried[r] THEN "setHeader" ELSE "awaitRefresh")
    /\ UNCHANGED <<lock, tokenVars, endpointVars, header, response, outcome, lost>>

\* Mutant: the token that is there is read again and not refreshed.
SendUnrefreshed(r) ==
    /\ pc[r] = "sent"
    /\ header[r] \notin valid
    /\ IF retried[r]
       THEN Return(r, "unauthorized") /\ UNCHANGED retried
       ELSE /\ retried' = [retried EXCEPT ![r] = TRUE]
            /\ Goto(r, "readToken")
            /\ UNCHANGED outcome
    /\ UNCHANGED <<lock, tokenVars, endpointVars, header, response, lost>>

\* The first 401 is answered with a refresh, the second one is returned.
ApiRejects(r) ==
    /\ pc[r] = "sent"
    /\ header[r] \notin valid
    /\ IF retried[r]
       THEN Return(r, "unauthorized") /\ UNCHANGED retried
       ELSE /\ retried' = [retried EXCEPT ![r] = TRUE]
            /\ Goto(r, "awaitRefresh")
            /\ UNCHANGED outcome
    /\ UNCHANGED <<lock, tokenVars, endpointVars, header, response, lost>>

\* The request fails or is cancelled outside the semaphore.
RequestFails(r) ==
    /\ Faults
    /\ pc[r] \in {"readToken", "awaitRefresh", "sent"}
    /\ Return(r, "exception")
    /\ UNCHANGED <<lock, tokenVars, endpointVars, retried, header, response, lost>>

-----------------------------------------------------------------------------
\* The steps of a request that raise no event.
QuietStep(r) ==
    \/ GetAccessToken(r) \/ BeginRefresh(r) \/ RefreshTimesOut(r) \/ EndpointGrants(r)
    \/ RefreshIsRefused(r) \/ SetHeader(r) \/ ApiAccepts(r) \/ ApiRejects(r)

RequestStep(r) == QuietStep(r) \/ RefreshSucceeds(r)

Next ==
    \/ Expire
    \/ \E r \in Requests : SendAsync(r) \/ RequestStep(r) \/ RefreshFails(r) \/ RequestFails(r)

Spec == Init /\ [][Next]_vars

-----------------------------------------------------------------------------
(* Properties.                                                             *)

\* The semaphore belongs to the request that refreshes.  The early return that
\* would leave it taken needs a missing refresh token: the constructor refuses
\* one, and a response without one does not replace what there is.
LockIsHeldToRefresh ==
    \A r \in Requests : lock = r <=> pc[r] \in {"refreshing", "granted"}

\* However many requests meet a 401 at once, none sends a refresh token that
\* an earlier one has used up, unless the response to that one was lost.
SpentTokenIsNeverSent ==
    ~lost => \A r \in Requests : pc[r] = "refreshing" => Accepted

\* A request that is sent again carries a newer token than the rejected one,
\* or none because the semaphore was taken by another refresh.
RetryCarriesNewerToken ==
    [][\A r \in Requests : pc[r] = "setHeader" /\ pc'[r] = "sent" /\ retried[r] /\ header[r] # None
            => header'[r] = None \/ header'[r] > header[r]]_vars

Rotation == INSTANCE RefreshTokenRotation
    WITH Users <- {"user"}, current <- [u \in {"user"} |-> newest],
         held <- [u \in {"user"} |-> IF refreshToken = None THEN 0 ELSE refreshToken]

\* The handler moves from one refresh token to a newer one that was issued.
ImplementsRotation == Rotation!Spec

\* Every request is answered after at most two sends.
EveryRequestEnds == \A r \in Requests : pc[r] = "readToken" ~> pc[r] = "done"
================================================================================
