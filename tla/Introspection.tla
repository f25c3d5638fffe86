----------------------------- MODULE Introspection -----------------------------
(***************************************************************************)
(* LoadClaimsForToken put together: an introspection call of the handler   *)
(* first makes its request, for which it renews the client assertion of    *)
(* the options when that has expired, and then sends it.  Requests and     *)
(* retries that run their own calls at the same time meet at the lock of   *)
(* the assertion.                                                          *)
(***************************************************************************)
EXTENDS OAuth2IntrospectionHandler

CONSTANTS
    Lifetime,      \* of a client assertion
    MaxConcurrent  \* bound of the model: requests that run at the same time

\* The event gives an assertion that has not expired; None is not the time an
\* assertion expires.
ASSUME LifetimeAssumption == Lifetime \in Nat \ {0} /\ None \notin Nat

VARIABLES assertion, expiration, lock, assertionPc, tested, updated, used

Assertion == INSTANCE IntrospectionClientAssertion WITH pc <- assertionPc

assertionVars == <<assertion, expiration, lock, assertionPc, tested, updated, used>>
allVars == <<vars, assertionVars>>

IntrospectionInit == Init /\ Assertion!Init

\* The clock is the same for both.
Time == Tick /\ Assertion!Tick

\* The request is sent when it was made, with the assertion it was given.
Send(e) ==
    /\ assertionPc[e] = "done" /\ used[e] # None
    /\ Introspect(e)
    /\ UNCHANGED assertionVars

\* The update of the assertion threw, or what came after it does.
Fail(e) ==
    /\ assertionPc[e] = "done"
    /\ CallThrows(e)
    /\ UNCHANGED assertionVars

\* CreateTokenIntrospectionRequest of a call that runs.
MakeRequest(e) ==
    /\ call[e] = "running"
    /\ Assertion!Test(e) \/ Assertion!RequestStep(e)
    /\ UNCHANGED vars

HandlerStep(r) == RequestStep(r) /\ UNCHANGED assertionVars

Running == {r \in Requests : pc[r] \notin {"idle", "done"}}

Start(r) ==
    /\ Cardinality(Running) < MaxConcurrent
    /\ HandleAuthenticate(r)
    /\ UNCHANGED assertionVars

Environment == (Revoke \/ \E r \in Requests : Abort(r)) /\ UNCHANGED assertionVars

IntrospectionNext ==
    \/ Time \/ Environment
    \/ \E r \in Requests : Start(r) \/ MakeRequest(r) \/ Send(r) \/ Fail(r) \/ HandlerStep(r)

\* A started request and its call go on: an event handler returns or throws,
\* SemaphoreSlim.WaitAsync serves those who wait, and a call that was sent
\* completes, for the HttpClient has a timeout.
IntrospectionFairness ==
    \A r \in Requests : WF_allVars(HandlerStep(r) \/ MakeRequest(r) \/ Send(r) \/ Fail(r))

IntrospectionSpec == IntrospectionInit /\ [][IntrospectionNext]_allVars /\ IntrospectionFairness

-----------------------------------------------------------------------------
(* Properties.                                                             *)

\* The assertion a request reads is there and had not expired when the request
\* was made, whatever other requests renew in between, and one that has not
\* expired is not renewed: those who waited for the lock find the new one.
AssertionsAreRenewedOnce == [][Assertion!RenewsOnce]_allVars
================================================================================
