--------------------------- MODULE OidcClient_proofs ---------------------------
(* Safety of the OIDC client: of its refresh token handler and the events of    *)
(* it, for any number of requests, with and without rotation and faults; of     *)
(* OidcClient, for any number of logins, users and key rotations; and of its    *)
(* DPoP handler, for any number of requests and nonces.                         *)
EXTENDS MCOidcClient, TLAPS

--------------------------------------------------------------------------------
(* RefreshTokenDelegatingHandler *)

\* There always is a refresh token, at most the newest one; a response on its
\* way carries the newest one, or none when it was not rotated.
RefreshInv ==
    /\ refreshToken \in Nat
    /\ refreshToken <= newest
    /\ \A r \in Requests : pc[r] = "granted" =>
            /\ response[r] \in Responses
            /\ response[r].refresh # None => response[r].refresh = newest /\ refreshToken < newest

\* The handler has the newest refresh token, or it is on its way, or was lost.
SpentInv ==
    lost \/ Accepted \/ \E r \in Requests : pc[r] = "granted" /\ response[r].refresh # None

\* Access tokens only get newer.  A request that has been rejected and goes on
\* to its header after a refresh finds a newer token than it sent.
RetryInv ==
    /\ accessToken # None => accessToken <= issued
    /\ \A r \in Requests :
        /\ header[r] # None => accessToken # None /\ header[r] <= accessToken
        /\ pc[r] = "granted" => response[r].access <= issued
        /\ pc[r] = "granted" /\ accessToken # None => accessToken < response[r].access
        /\ pc[r] \in {"idle", "readToken"} => ~retried[r]
        /\ pc[r] = "setHeader" /\ retried[r] /\ header[r] # None => header[r] < accessToken

HandlerInv == TypeOK /\ LockIsHeldToRefresh /\ RefreshInv /\ SpentInv

LEMMA InitHandlerInv == Init => HandlerInv /\ RetryInv
  <1> SUFFICES ASSUME Init PROVE HandlerInv /\ RetryInv
    OBVIOUS
  <1>1. TypeOK
    <2>1. accessToken \in Nat \cup {None}
      BY DEF Init
    <2>2. pc \in [Requests -> States] /\ outcome \in [Requests -> Outcomes]
      BY DEF Init, States, Outcomes
    <2>3. lost \in BOOLEAN /\ retried \in [Requests -> BOOLEAN]
      BY DEF Init
    <2>4. /\ header \in [Requests -> Nat \cup {None}]
          /\ response \in [Requests -> Responses \cup {None}]
      BY DEF Init
    <2>5. /\ lock \in Requests \cup {None} /\ refreshToken \in Nat \cup {None} /\ valid \in SUBSET Nat
          /\ issued \in Nat /\ newest \in Nat /\ expiries \in Nat
      BY DEF Init
    <2>6. QED
      BY <2>1, <2>2, <2>3, <2>4, <2>5 DEF TypeOK
  <1>2. LockIsHeldToRefresh /\ RefreshInv /\ SpentInv
    BY NoneAssumption DEF Init, LockIsHeldToRefresh, RefreshInv, SpentInv, Accepted
  <1>3. RetryInv
    BY NoneAssumption DEF Init, RetryInv
  <1>4. QED
    BY <1>1, <1>2, <1>3 DEF HandlerInv

LEMMA NextTypeOK == HandlerInv /\ [Next]_vars => TypeOK'
  <1> SUFFICES ASSUME HandlerInv, [Next]_vars PROVE TypeOK'
    OBVIOUS
  <1> USE NoneAssumption, RotatesAssumption DEF HandlerInv, RefreshInv, TypeOK, States, Outcomes, Responses, Goto, Return, tokenVars, endpointVars
  <1>1. ASSUME NEW r \in Requests, SendAsync(r) PROVE TypeOK'
    BY <1>1 DEF SendAsync
  <1>2. ASSUME NEW r \in Requests, GetAccessToken(r) PROVE TypeOK'
    BY <1>2 DEF GetAccessToken
  <1>3. ASSUME NEW r \in Requests, BeginRefresh(r) PROVE TypeOK'
    BY <1>3 DEF BeginRefresh
  <1>4. ASSUME NEW r \in Requests, RefreshTimesOut(r) PROVE TypeOK'
    BY <1>4 DEF RefreshTimesOut
  <1>5. ASSUME NEW r \in Requests, EndpointGrants(r) PROVE TypeOK'
    BY <1>5 DEF EndpointGrants
  <1>6. ASSUME NEW r \in Requests, RefreshSucceeds(r) PROVE TypeOK'
    BY <1>6 DEF RefreshSucceeds
  <1>7. ASSUME NEW r \in Requests, RefreshIsRefused(r) PROVE TypeOK'
    BY <1>7 DEF RefreshIsRefused
  <1>8. ASSUME NEW r \in Requests, SetHeader(r) PROVE TypeOK'
    BY <1>8 DEF SetHeader
  <1>9. ASSUME NEW r \in Requests, ApiAccepts(r) PROVE TypeOK'
    BY <1>9 DEF ApiAccepts
  <1>10. ASSUME NEW r \in Requests, ApiRejects(r) PROVE TypeOK'
    BY <1>10 DEF ApiRejects
  <1>11. ASSUME NEW r \in Requests, RefreshFails(r) PROVE TypeOK'
    BY <1>11 DEF RefreshFails
  <1>12. ASSUME NEW r \in Requests, RequestFails(r) PROVE TypeOK'
    BY <1>12 DEF RequestFails
  <1>13. CASE Expire
    BY <1>13 DEF Expire
  <1>14. CASE UNCHANGED vars
    BY <1>14 DEF vars
  <1>15. QED
    BY <1>1, <1>2, <1>3, <1>4, <1>5, <1>6, <1>7, <1>8, <1>9, <1>10, <1>11, <1>12, <1>13, <1>14 DEF Next, RequestStep, QuietStep

LEMMA NextLock == HandlerInv /\ [Next]_vars => LockIsHeldToRefresh'
  <1> SUFFICES ASSUME HandlerInv, [Next]_vars PROVE LockIsHeldToRefresh'
    OBVIOUS
  <1> USE NoneAssumption DEF HandlerInv, TypeOK, States, RefreshInv, LockIsHeldToRefresh, Goto, Return
  <1>1. ASSUME NEW r \in Requests, SendAsync(r) PROVE LockIsHeldToRefresh'
    BY <1>1 DEF SendAsync
  <1>2. ASSUME NEW r \in Requests, GetAccessToken(r) PROVE LockIsHeldToRefresh'
    BY <1>2 DEF GetAccessToken
  <1>3. ASSUME NEW r \in Requests, BeginRefresh(r) PROVE LockIsHeldToRefresh'
    BY <1>3 DEF BeginRefresh
  <1>4. ASSUME NEW r \in Requests, RefreshTimesOut(r) PROVE LockIsHeldToRefresh'
    BY <1>4 DEF RefreshTimesOut
  <1>5. ASSUME NEW r \in Requests, EndpointGrants(r) PROVE LockIsHeldToRefresh'
    BY <1>5 DEF EndpointGrants
  <1>6. ASSUME NEW r \in Requests, RefreshSucceeds(r) PROVE LockIsHeldToRefresh'
    BY <1>6 DEF RefreshSucceeds
  <1>7. ASSUME NEW r \in Requests, RefreshIsRefused(r) PROVE LockIsHeldToRefresh'
    BY <1>7 DEF RefreshIsRefused
  <1>8. ASSUME NEW r \in Requests, SetHeader(r) PROVE LockIsHeldToRefresh'
    BY <1>8 DEF SetHeader
  <1>9. ASSUME NEW r \in Requests, ApiAccepts(r) PROVE LockIsHeldToRefresh'
    BY <1>9 DEF ApiAccepts
  <1>10. ASSUME NEW r \in Requests, ApiRejects(r) PROVE LockIsHeldToRefresh'
    BY <1>10 DEF ApiRejects
  <1>11. ASSUME NEW r \in Requests, RefreshFails(r) PROVE LockIsHeldToRefresh'
    BY <1>11 DEF RefreshFails
  <1>12. ASSUME NEW r \in Requests, RequestFails(r) PROVE LockIsHeldToRefresh'
    BY <1>12 DEF RequestFails
  <1>13. CASE Expire
    BY <1>13 DEF Expire
  <1>14. CASE UNCHANGED vars
    BY <1>14 DEF vars
  <1>15. QED
    BY <1>1, <1>2, <1>3, <1>4, <1>5, <1>6, <1>7, <1>8, <1>9, <1>10, <1>11, <1>12, <1>13, <1>14 DEF Next, RequestStep, QuietStep

LEMMA NextRefreshInv == HandlerInv /\ [Next]_vars => RefreshInv'
  <1> SUFFICES ASSUME HandlerInv, [Next]_vars PROVE RefreshInv'
    OBVIOUS
  <1> USE NoneAssumption DEF HandlerInv, TypeOK, States, LockIsHeldToRefresh, RefreshInv, Responses, Goto, Return, tokenVars, endpointVars
  <1>1. ASSUME NEW r \in Requests, SendAsync(r) PROVE RefreshInv'
    BY <1>1 DEF SendAsync
  <1>2. ASSUME NEW r \in Requests, GetAccessToken(r) PROVE RefreshInv'
    BY <1>2 DEF GetAccessToken
  <1>3. ASSUME NEW r \in Requests, BeginRefresh(r) PROVE RefreshInv'
    BY <1>3 DEF BeginRefresh
  <1>4. ASSUME NEW r \in Requests, RefreshTimesOut(r) PROVE RefreshInv'
    BY <1>4 DEF RefreshTimesOut
  <1>5. ASSUME NEW r \in Requests, EndpointGrants(r) PROVE RefreshInv'
    BY <1>5 DEF EndpointGrants
  <1>6. ASSUME NEW r \in Requests, RefreshSucceeds(r) PROVE RefreshInv'
    BY <1>6 DEF RefreshSucceeds
  <1>7. ASSUME NEW r \in Requests, RefreshIsRefused(r) PROVE RefreshInv'
    BY <1>7 DEF RefreshIsRefused
  <1>8. ASSUME NEW r \in Requests, SetHeader(r) PROVE RefreshInv'
    BY <1>8 DEF SetHeader
  <1>9. ASSUME NEW r \in Requests, ApiAccepts(r) PROVE RefreshInv'
    BY <1>9 DEF ApiAccepts
  <1>10. ASSUME NEW r \in Requests, ApiRejects(r) PROVE RefreshInv'
    BY <1>10 DEF ApiRejects
  <1>11. ASSUME NEW r \in Requests, RefreshFails(r) PROVE RefreshInv'
    BY <1>11 DEF RefreshFails
  <1>12. ASSUME NEW r \in Requests, RequestFails(r) PROVE RefreshInv'
    BY <1>12 DEF RequestFails
  <1>13. CASE Expire
    BY <1>13 DEF Expire
  <1>14. CASE UNCHANGED vars
    BY <1>14 DEF vars
  <1>15. QED
    BY <1>1, <1>2, <1>3, <1>4, <1>5, <1>6, <1>7, <1>8, <1>9, <1>10, <1>11, <1>12, <1>13, <1>14 DEF Next, RequestStep, QuietStep

LEMMA NextSpentInv == HandlerInv /\ [Next]_vars => SpentInv'
  <1> SUFFICES ASSUME HandlerInv, [Next]_vars PROVE SpentInv'
    OBVIOUS
  <1> USE NoneAssumption DEF HandlerInv, TypeOK, States, LockIsHeldToRefresh, RefreshInv, SpentInv, Accepted, Responses, Goto, Return, tokenVars, endpointVars
  <1>1. ASSUME NEW r \in Requests, SendAsync(r) PROVE SpentInv'
    BY <1>1 DEF SendAsync
  <1>2. ASSUME NEW r \in Requests, GetAccessToken(r) PROVE SpentInv'
    BY <1>2 DEF GetAccessToken
  <1>3. ASSUME NEW r \in Requests, BeginRefresh(r) PROVE SpentInv'
    BY <1>3 DEF BeginRefresh
  <1>4. ASSUME NEW r \in Requests, RefreshTimesOut(r) PROVE SpentInv'
    BY <1>4 DEF RefreshTimesOut
  <1>5. ASSUME NEW r \in Requests, EndpointGrants(r) PROVE SpentInv'
    BY <1>5 DEF EndpointGrants
  <1>6. ASSUME NEW r \in Requests, RefreshSucceeds(r) PROVE SpentInv'
    BY <1>6 DEF RefreshSucceeds
  <1>7. ASSUME NEW r \in Requests, RefreshIsRefused(r) PROVE SpentInv'
    BY <1>7 DEF RefreshIsRefused
  <1>8. ASSUME NEW r \in Requests, SetHeader(r) PROVE SpentInv'
    BY <1>8 DEF SetHeader
  <1>9. ASSUME NEW r \in Requests, ApiAccepts(r) PROVE SpentInv'
    BY <1>9 DEF ApiAccepts
  <1>10. ASSUME NEW r \in Requests, ApiRejects(r) PROVE SpentInv'
    BY <1>10 DEF ApiRejects
  <1>11. ASSUME NEW r \in Requests, RefreshFails(r) PROVE SpentInv'
    <2>1. /\ lost => lost'
          /\ pc[r] = "granted" /\ newest # refreshToken => lost'
          /\ UNCHANGED <<refreshToken, newest>>
          /\ lock = r
      BY <1>11 DEF RefreshFails
    <2>2. CASE lost \/ Accepted
      BY <2>1, <2>2
    <2>3. ASSUME NEW q \in Requests, pc[q] = "granted", response[q].refresh # None PROVE lost'
      <3>1. q = r /\ newest # refreshToken
        BY <2>1, <2>3
      <3>2. QED
        BY <2>1, <2>3, <3>1
    <2>4. QED
      BY <2>2, <2>3
  <1>12. ASSUME NEW r \in Requests, RequestFails(r) PROVE SpentInv'
    BY <1>12 DEF RequestFails
  <1>13. CASE Expire
    BY <1>13 DEF Expire
  <1>14. CASE UNCHANGED vars
    BY <1>14 DEF vars
  <1>15. QED
    BY <1>1, <1>2, <1>3, <1>4, <1>5, <1>6, <1>7, <1>8, <1>9, <1>10, <1>11, <1>12, <1>13, <1>14 DEF Next, RequestStep, QuietStep

LEMMA NextRetryInv == HandlerInv /\ RetryInv /\ [Next]_vars => RetryInv'
  <1> SUFFICES ASSUME HandlerInv, RetryInv, [Next]_vars PROVE RetryInv'
    OBVIOUS
  <1> USE NoneAssumption DEF HandlerInv, TypeOK, States, LockIsHeldToRefresh, RefreshInv, RetryInv, Responses, Goto, Return, tokenVars, endpointVars
  <1>1. ASSUME NEW r \in Requests, SendAsync(r) PROVE RetryInv'
    BY <1>1 DEF SendAsync
  <1>2. ASSUME NEW r \in Requests, GetAccessToken(r) PROVE RetryInv'
    BY <1>2 DEF GetAccessToken
  <1>3. ASSUME NEW r \in Requests, BeginRefresh(r) PROVE RetryInv'
    BY <1>3 DEF BeginRefresh
  <1>4. ASSUME NEW r \in Requests, RefreshTimesOut(r) PROVE RetryInv'
    BY <1>4 DEF RefreshTimesOut
  <1>5. ASSUME NEW r \in Requests, EndpointGrants(r) PROVE RetryInv'
    BY <1>5 DEF EndpointGrants
  <1>6. ASSUME NEW r \in Requests, RefreshSucceeds(r) PROVE RetryInv'
    BY <1>6 DEF RefreshSucceeds
  <1>7. ASSUME NEW r \in Requests, RefreshIsRefused(r) PROVE RetryInv'
    BY <1>7 DEF RefreshIsRefused
  <1>8. ASSUME NEW r \in Requests, SetHeader(r) PROVE RetryInv'
    BY <1>8 DEF SetHeader
  <1>9. ASSUME NEW r \in Requests, ApiAccepts(r) PROVE RetryInv'
    BY <1>9 DEF ApiAccepts
  <1>10. ASSUME NEW r \in Requests, ApiRejects(r) PROVE RetryInv'
    BY <1>10 DEF ApiRejects
  <1>11. ASSUME NEW r \in Requests, RefreshFails(r) PROVE RetryInv'
    BY <1>11 DEF RefreshFails
  <1>12. ASSUME NEW r \in Requests, RequestFails(r) PROVE RetryInv'
    BY <1>12 DEF RequestFails
  <1>13. CASE Expire
    BY <1>13 DEF Expire
  <1>14. CASE UNCHANGED vars
    BY <1>14 DEF vars
  <1>15. QED
    BY <1>1, <1>2, <1>3, <1>4, <1>5, <1>6, <1>7, <1>8, <1>9, <1>10, <1>11, <1>12, <1>13, <1>14 DEF Next, RequestStep, QuietStep

LEMMA NextHandlerInv == HandlerInv /\ [Next]_vars => HandlerInv'
  BY NextTypeOK, NextLock, NextRefreshInv, NextSpentInv DEF HandlerInv

LEMMA HandlerInvariance == Spec => [](HandlerInv /\ RetryInv)
  BY InitHandlerInv, NextHandlerInv, NextRetryInv, PTL DEF Spec

\* Type correctness of the handler.
THEOREM TypeCorrect == Spec => []TypeOK
  <1>1. HandlerInv => TypeOK
    BY DEF HandlerInv
  <1>2. QED
    BY <1>1, HandlerInvariance, PTL

\* No path that RefreshTokensAsync can take leaves the semaphore taken.
THEOREM LockIsNeverLeaked == Spec => []LockIsHeldToRefresh
  <1>1. HandlerInv => LockIsHeldToRefresh
    BY DEF HandlerInv
  <1>2. QED
    BY <1>1, HandlerInvariance, PTL

\* Requests that refresh one after another never send a spent refresh token.
THEOREM NoSpentTokenIsSent == Spec => []SpentTokenIsNeverSent
  <1>1. HandlerInv => SpentTokenIsNeverSent
    <2> SUFFICES ASSUME HandlerInv, ~lost, NEW r \in Requests, pc[r] = "refreshing" PROVE Accepted
      BY DEF SpentTokenIsNeverSent
    <2>1. \A q \in Requests : pc[q] # "granted"
      BY DEF HandlerInv, LockIsHeldToRefresh
    <2>2. QED
      BY <2>1 DEF HandlerInv, SpentInv
  <1>2. QED
    BY <1>1, HandlerInvariance, PTL

\* A request that is sent again carries a newer token than the rejected one.
THEOREM RetriesCarryNewerTokens == Spec => RetryCarriesNewerToken
  <1> DEFINE A == \A r \in Requests :
                     pc[r] = "setHeader" /\ pc'[r] = "sent" /\ retried[r] /\ header[r] # None
                       => header'[r] = None \/ header'[r] > header[r]
  <1>1. HandlerInv /\ RetryInv /\ [Next]_vars => [A]_vars
    <2> SUFFICES ASSUME HandlerInv, RetryInv, Next, NEW r \in Requests,
                        pc[r] = "setHeader", pc'[r] = "sent", retried[r], header[r] # None
                 PROVE  header'[r] = None \/ header'[r] > header[r]
      OBVIOUS
    <2>1. SetHeader(r)
      BY DEF HandlerInv, TypeOK, States, Next, RequestStep, QuietStep, Expire, SendAsync, GetAccessToken, BeginRefresh, RefreshTimesOut,
             EndpointGrants, RefreshSucceeds, RefreshIsRefused, SetHeader, ApiAccepts, ApiRejects,
             RefreshFails, RequestFails, Goto, Return
    <2>2. QED
      BY <2>1, NoneAssumption DEF SetHeader, HandlerInv, RetryInv, TypeOK
  <1>2. QED
    BY <1>1, HandlerInvariance, PTL DEF Spec, RetryCarriesNewerToken

\* The handler implements the abstract rotation: it moves from one refresh
\* token to a newer one that was issued.
THEOREM RotationRefined == Spec => ImplementsRotation
  <1> DEFINE held == [u \in {"user"} |-> IF refreshToken = None THEN 0 ELSE refreshToken]
             newests == [u \in {"user"} |-> newest]
  <1>1. Init => Rotation!Init
    BY NoneAssumption DEF Init, Rotation!Init
  <1>2. HandlerInv /\ [Next]_vars => [Rotation!Next]_<<newests, held>>
    <2> SUFFICES ASSUME HandlerInv, [Next]_vars PROVE [Rotation!Next]_<<newests, held>>
      OBVIOUS
    <2>1. ASSUME NEW r \in Requests, EndpointGrants(r), newest' = newest + 1 PROVE Rotation!Issue("user")
      BY <2>1 DEF EndpointGrants, tokenVars, Rotation!Issue
    <2>2. ASSUME NEW r \in Requests, RefreshSucceeds(r), response[r].refresh # None
          PROVE  Rotation!Adopt("user")
      BY <2>2, NoneAssumption DEF RefreshSucceeds, endpointVars, HandlerInv, RefreshInv, TypeOK, Rotation!Adopt
    <2>3. CASE UNCHANGED <<newest, refreshToken>>
      BY <2>3
    <2>4. CASE \E r \in Requests : EndpointGrants(r) \/ RefreshSucceeds(r)
      BY <2>1, <2>2, <2>3, <2>4 DEF EndpointGrants, RefreshSucceeds, endpointVars, tokenVars, Rotation!Next
    <2>5. QED
      BY <2>3, <2>4 DEF Next, RequestStep, QuietStep, Expire, SendAsync, GetAccessToken, BeginRefresh, RefreshTimesOut,
             RefreshIsRefused, SetHeader, ApiAccepts, ApiRejects, RefreshFails, RequestFails,
             tokenVars, endpointVars, vars
  <1>3. QED
    BY <1>1, <1>2, HandlerInvariance, PTL DEF Spec, ImplementsRotation, Rotation!Spec

--------------------------------------------------------------------------------
(* TokenRefreshed *)

\* What the application has saved and what is still to be reported are refresh
\* tokens of the handler; until one overtakes another, the newest is reported
\* last.
EventInv ==
    /\ EventTypeOK
    /\ saved <= refreshToken
    /\ \A e \in events : e <= refreshToken
    /\ ~overtaken =>
        /\ \A e \in events : saved < e
        /\ saved # refreshToken => refreshToken \in events

LEMMA InitEventInv == Init /\ EventInit => EventInv
  <1> SUFFICES ASSUME Init, EventInit PROVE EventInv
    OBVIOUS
  <1>1. overtaken \in BOOLEAN /\ ~overtaken
    BY DEF EventInit
  <1>2. refreshToken = 0 /\ saved = 0 /\ events = {}
    BY DEF Init, EventInit
  <1>3. QED
    BY <1>1, <1>2 DEF EventInv, EventTypeOK

\* An event brings no step of the handler that it does not have without.
LEMMA EventNextIsNext == [EventNext]_<<vars, eventVars>> => [Next]_vars
  BY DEF EventNext, EventRequestStep, Silent, RaiseTokenRefreshed, TokenRefreshed, Next, RequestStep, QuietStep

LEMMA NextEventInv == HandlerInv /\ EventInv /\ [EventNext]_<<vars, eventVars>> => EventInv'
  <1> SUFFICES ASSUME HandlerInv, EventInv, [EventNext]_<<vars, eventVars>> PROVE EventInv'
    OBVIOUS
  <1>1. refreshToken \in Nat
    BY DEF HandlerInv, RefreshInv
  <1>2. ASSUME NEW r \in Requests, RaiseTokenRefreshed(r) PROVE EventInv'
    <2>1. CASE response[r].refresh = None
      BY <1>1, <1>2, <2>1 DEF RaiseTokenRefreshed, RefreshSucceeds, EventInv, EventTypeOK
    <2>2. CASE response[r].refresh # None
      <3>1. response[r].refresh \in Nat /\ refreshToken < response[r].refresh
        BY <1>2, <2>2 DEF RaiseTokenRefreshed, RefreshSucceeds, HandlerInv, RefreshInv, Responses, TypeOK
      <3>2. refreshToken' = response[r].refresh /\ events' = events \cup {response[r].refresh}
        BY <1>2, <2>2 DEF RaiseTokenRefreshed, RefreshSucceeds
      <3>3. saved' = saved /\ overtaken' = overtaken
        BY <1>2 DEF RaiseTokenRefreshed
      <3>4. QED
        <4>1. EventTypeOK'
          BY <3>1, <3>2, <3>3 DEF EventInv, EventTypeOK
        <4>2. (saved <= refreshToken)' /\ (\A e \in events : e <= refreshToken)'
          BY <1>1, <3>1, <3>2, <3>3 DEF EventInv, EventTypeOK
        <4>3. ASSUME ~overtaken' PROVE (\A e \in events : saved < e)' /\ (saved # refreshToken => refreshToken \in events)'
          BY <1>1, <3>1, <3>2, <3>3, <4>3 DEF EventInv, EventTypeOK
        <4>4. QED
          BY <4>1, <4>2, <4>3 DEF EventInv
    <2>3. QED
      BY <2>1, <2>2
  <1>3. ASSUME NEW e \in events, TokenRefreshed(e) PROVE EventInv'
    <2>1. refreshToken' = refreshToken /\ events' = events \ {e} /\ saved' = e
      BY <1>3 DEF TokenRefreshed, vars
    <2>2. EventTypeOK'
      <3>1. overtaken' \in BOOLEAN
        BY <1>3, Zenon DEF TokenRefreshed, EventInv, EventTypeOK
      <3>2. QED
        BY <2>1, <3>1 DEF EventInv, EventTypeOK
    <2>3. (saved <= refreshToken)' /\ (\A d \in events : d <= refreshToken)'
      BY <1>1, <2>1 DEF EventInv, EventTypeOK
    <2>4. ASSUME ~overtaken' PROVE (\A d \in events : saved < d)' /\ (saved # refreshToken => refreshToken \in events)'
      <3>1. ~overtaken /\ \A d \in events : ~(d < e)
        BY <1>3, <2>4 DEF TokenRefreshed
      <3>2. QED
        BY <1>1, <2>1, <3>1 DEF EventInv, EventTypeOK
    <2>5. QED
      BY <2>2, <2>3, <2>4 DEF EventInv
  <1>4. CASE UNCHANGED <<refreshToken, eventVars>>
    BY <1>4 DEF EventInv, EventTypeOK, eventVars
  <1>5. ASSUME NEW r \in Requests, QuietStep(r) \/ Silent(r) \/ Expire \/ UNCHANGED vars PROVE UNCHANGED refreshToken
    BY <1>5 DEF QuietStep, Silent, Expire, SendAsync, GetAccessToken, BeginRefresh, RefreshTimesOut,
           EndpointGrants, RefreshIsRefused, SetHeader, ApiAccepts, ApiRejects, RefreshFails, RequestFails,
           tokenVars, vars
  <1>6. Expire \/ UNCHANGED vars => UNCHANGED refreshToken
    BY DEF Expire, tokenVars, vars
  <1>7. QED
    BY <1>2, <1>3, <1>4, <1>5, <1>6 DEF EventNext, EventRequestStep

\* With its events the handler does nothing that it does not without.
LEMMA EventInvariance == EventSpec => [](HandlerInv /\ EventInv)
  BY InitHandlerInv, InitEventInv, EventNextIsNext, NextHandlerInv, NextEventInv, PTL DEF EventSpec

\* Until a TokenRefreshed event overtakes an earlier one, the application has
\* saved the refresh token of the handler, or it is still going to be told.
THEOREM SavedTokensAreCurrent == EventSpec => []SavedTokenIsCurrent
  <1>1. HandlerInv /\ EventInv => SavedTokenIsCurrent
    BY DEF HandlerInv, RefreshInv, EventInv, EventTypeOK, SavedTokenIsCurrent
  <1>2. QED
    BY <1>1, EventInvariance, PTL

--------------------------------------------------------------------------------
(* OidcClient *)

\* Loading a document is a detour: a call has its place where it goes on after it.
Ensuring == {"ensure", "loading", "loaded"}
Where(l) == IF flow[l].pc \in Ensuring THEN flow[l].next ELSE flow[l].pc

\* The code of login l was exchanged: it has tokens.
Exchanged(l) == Where(l) \in {"refresh", "validate", "profile"} \/ flow[l].result = "success"

\* Where a call can be, and with what.
LabelInv(l) ==
    /\ flow[l].pc \in Ensuring => flow[l].next \in {"authorize", "check", "refresh", "validate", "profile"}
    /\ flow[l].result # None <=> flow[l].pc = "done"
    /\ flow[l].pc = "loaded" => flow[l].loaded # None
    /\ Where(l) = "refresh" => flow[l].refreshing /\ ~flow[l].retried
    /\ Where(l) = "profile" => ~flow[l].refreshing
    /\ Where(l) = "validate" /\ flow[l].pc # "validate" => flow[l].retried

\* A response carries the state of the login its code was issued for, so that
\* the code is that of the login that gets beyond CheckResponse.
ResponseInv(l) ==
    /\ flow[l].response # None /\ flow[l].response.code # None =>
          flow[l].response.state = flow[l].response.code /\ codes[flow[l].response.code] # None
    /\ Where(l) = "check" \/ Where(l) = "redeem" \/ Exchanged(l) => flow[l].response # None
    /\ Where(l) = "redeem" \/ Exchanged(l) => flow[l].response.code = l

\* The identity token of a login is of the user its tokens are about, and was
\* looked at before the profile was loaded.
IdentityInv(l) ==
    flow[l].tokens.identity # None =>
        /\ flow[l].tokens.identity.user = flow[l].tokens.subject
        /\ flow[l].tokens.identity.key <= keys
        /\ Where(l) = "profile" => flow[l].tokens.identity.vouched
        /\ flow[l].result = "success" /\ ~flow[l].refreshing =>
              /\ flow[l].tokens.identity.vouched
              /\ options.LoadProfile => flow[l].profile = flow[l].tokens.identity.user

\* Tokens are those of the user who signed in for the code.
TokenInv(l) ==
    Exchanged(l) =>
        /\ flow[l].tokens # None
        /\ codes[l].redeemed /\ flow[l].tokens.subject = codes[l].user
        /\ IdentityInv(l)

\* Without faults, and with documents that are loaded again: the document of the
\* second attempt has the key of the identity token, and a refresh token is spent
\* only while the token response is being validated.
KeyInv(l) ==
    /\ flow[l].loaded # None => flow[l].loaded.complete
    /\ Exchanged(l) /\ flow[l].tokens.identity # None => flow[l].tokens.identity.vouched
    /\ flow[l].retried /\ flow[l].pc \in {"loaded", "validate"} /\ Where(l) = "validate" /\ flow[l].tokens.identity # None =>
          flow[l].loaded # None /\ flow[l].loaded.keys >= flow[l].tokens.identity.key
    /\ flow[l].spent => flow[l].refreshing /\ (Where(l) = "validate" \/ flow[l].pc = "done")
    /\ flow[l].spent => flow[l].result # "success"
    /\ flow[l].spent /\ flow[l].pc = "done" =>
            \/ flow[l].tokens.identity = None /\ options.RequireIdentityTokenOnRefreshTokenResponse
            \/ flow[l].result = "invalid signature" /\ flow[l].loaded.keys >= flow[l].tokens.identity.key

Reloads == faults = 0 /\ options.RefreshDiscoveryDocumentForLogin

FlowInv(l) == LabelInv(l) /\ ResponseInv(l) /\ TokenInv(l) /\ (Reloads => KeyInv(l))

LoginInv == Login!TypeOK /\ \A l \in Logins : FlowInv(l)

\* A step of one call leaves the others.
LEMMA SetLemma ==
    ASSUME flow \in [Logins -> Login!Flows], NEW l \in Logins, NEW new \in Login!Flows, Login!Set(l, new)
    PROVE  /\ flow' \in [Logins -> Login!Flows]
           /\ flow'[l] = new
           /\ \A m \in Logins : m # l => flow'[m] = flow[m]
  BY DEF Login!Set

\* What the operators of the flows make of a flow is one.
LEMMA LabelLemma ==
    ASSUME NEW f \in Login!Flows, NEW label \in Login!States
    PROVE  Login!Goto(f, label) \in Login!Flows /\ Login!EnsureThen(f, label) \in Login!Flows
  <1>1. Login!Goto(f, label) \in Login!Flows
    BY DEF Login!Goto, Login!Flows
  <1>2. Login!EnsureThen(f, label) \in Login!Flows
    BY DEF Login!EnsureThen, Login!Flows, Login!States
  <1>3. QED
    BY <1>1, <1>2

LEMMA EndLemma ==
    ASSUME NEW f \in Login!Flows, NEW result \in Login!Results
    PROVE  Login!End(f, result) \in Login!Flows
  BY DEF Login!End, Login!Flows, Login!States

\* A step of login l that keeps what is known of l keeps what is known of all:
\* codes of other logins stay, and no fault is taken back.
LEMMA StepLemma ==
    ASSUME LoginInv, NEW l \in Logins, NEW new \in Login!Flows, Login!Set(l, new), UNCHANGED <<options, keys>>,
           providerInformation' \in Login!Documents \cup {None},
           codes' \in [Logins -> Login!Codes \cup {None}],
           \A m \in Logins : m # l => codes'[m] = codes[m],
           codes[l] # None => codes'[l] # None,
           faults' \in 0..MaxFaults, faults <= faults',
           FlowInv(l)'
    PROVE  LoginInv'
  <1>1. /\ flow' \in [Logins -> Login!Flows]
        /\ \A m \in Logins : m # l => flow'[m] = flow[m]
    BY SetLemma DEF LoginInv, Login!TypeOK
  <1>2. Login!TypeOK'
    BY <1>1 DEF LoginInv, Login!TypeOK
  <1>3. ASSUME NEW m \in Logins, m # l PROVE FlowInv(m)'
    <2>1. FlowInv(m) /\ flow'[m] = flow[m] /\ codes'[m] = codes[m]
      BY <1>1, <1>3 DEF LoginInv
    <2>2. \A k \in Logins : codes[k] # None => codes'[k] # None
      OBVIOUS
    <2>3. LabelInv(m)'
      BY <2>1 DEF FlowInv, LabelInv, Where, Ensuring
    <2>4. ResponseInv(m)'
      BY <2>1, <2>2 DEF FlowInv, ResponseInv, Where, Ensuring, Exchanged, LoginInv, Login!TypeOK, Login!Flows, Login!Responses
    <2>5. TokenInv(m)'
      BY <2>1 DEF FlowInv, TokenInv, IdentityInv, Where, Ensuring, Exchanged
    <2>6. Reloads' => KeyInv(m)'
      <3>1. Reloads' => Reloads
        BY DEF Reloads, LoginInv, Login!TypeOK
      <3>2. KeyInv(m) => KeyInv(m)'
        BY <2>1 DEF KeyInv, Where, Ensuring, Exchanged
      <3>3. QED
        BY <2>1, <3>1, <3>2 DEF FlowInv
    <2>7. QED
      BY <2>3, <2>4, <2>5, <2>6 DEF FlowInv
  <1>4. QED
    BY <1>2, <1>3 DEF LoginInv

\* A step without a fault that changes the flow only,
LEMMA QuietLemma ==
    ASSUME LoginInv, NEW l \in Logins, NEW new \in Login!Flows, Login!Set(l, new),
           UNCHANGED <<options, providerInformation, codes, keys, faults>>,
           LabelInv(l)', ResponseInv(l)', TokenInv(l)', Reloads => KeyInv(l)'
    PROVE  LoginInv'
  <1>1. FlowInv(l)'
    BY DEF FlowInv, Reloads
  <1>2. QED
    BY <1>1, StepLemma DEF LoginInv, Login!TypeOK

\* and one that uses a fault: nothing is claimed of the keys any more.
LEMMA FaultLemma ==
    ASSUME LoginInv, NEW l \in Logins, NEW new \in Login!Flows, Login!Set(l, new),
           UNCHANGED <<options, providerInformation, codes, keys>>, Login!Fault,
           LabelInv(l)', ResponseInv(l)', TokenInv(l)'
    PROVE  LoginInv'
  <1>1. faults' \in 0..MaxFaults /\ faults <= faults' /\ faults' # 0
    BY BoundsAssumption DEF Login!Fault, LoginInv, Login!TypeOK
  <1>2. FlowInv(l)'
    BY <1>1 DEF FlowInv, Reloads
  <1>3. QED
    BY <1>1, <1>2, StepLemma DEF LoginInv, Login!TypeOK

\* A call that ends with an error disturbs nothing that a successful one relies
\* on; while it holds a refresh token that was spent, it needs a failed request
\* for its excuse.
LEMMA FailureLemma ==
    ASSUME LoginInv, NEW l \in Logins, NEW how \in {"error", "exception", "invalid state"},
           Login!Set(l, Login!End(flow[l], how)),
           UNCHANGED <<options, providerInformation, codes, keys>>,
           Login!Fault \/ (UNCHANGED faults /\ Where(l) \notin {"validate", "done"})
    PROVE  LoginInv'
  <1> DEFINE new == Login!End(flow[l], how)
  <1>1. flow[l] \in Login!Flows /\ FlowInv(l) /\ new \in Login!Flows
    BY EndLemma DEF LoginInv, Login!TypeOK, Login!Results
  <1>2. flow'[l] = [flow[l] EXCEPT !.pc = "done", !.result = how]
    BY <1>1, SetLemma DEF LoginInv, Login!TypeOK, Login!End
  <1> USE DEF Where, Ensuring, Exchanged, Login!Flows
  <1>3. LabelInv(l)' /\ ResponseInv(l)' /\ TokenInv(l)'
    <2>1. /\ flow'[l].pc = "done" /\ flow'[l].result = how /\ how # None /\ how # "success"
          /\ flow'[l].response = flow[l].response /\ flow'[l].tokens = flow[l].tokens
      BY <1>1, <1>2, NoneIsNoValue DEF Login!Results
    <2>2. LabelInv(l)' /\ TokenInv(l)'
      BY <2>1 DEF LabelInv, TokenInv
    <2>3. ResponseInv(l)'
      BY <1>1, <2>1 DEF FlowInv, ResponseInv
    <2>4. QED
      BY <2>2, <2>3
  <1>4. Reloads /\ Where(l) \notin {"validate", "done"} => KeyInv(l)'
    BY <1>1, <1>2 DEF FlowInv, KeyInv, LabelInv
  <1> HIDE DEF new
  <1>5. CASE Login!Fault
    BY <1>1, <1>3, <1>5, FaultLemma DEF new
  <1>6. CASE UNCHANGED faults /\ Where(l) \notin {"validate", "done"}
    BY <1>1, <1>3, <1>4, <1>6, QuietLemma DEF new
  <1>7. QED
    BY <1>5, <1>6

\* One lemma per action, or per kind of actions.
LEMMA KeepFailures ==
    ASSUME LoginInv, NEW l \in Logins, UNCHANGED options,
           Login!FailDiscovery(l) \/ Login!LeaveBrowser(l) \/ Login!FailRedeem(l) \/ Login!FailProfile(l)
    PROVE  LoginInv'
  <1>1. CASE Login!FailDiscovery(l)
    BY <1>1, FailureLemma DEF Login!FailDiscovery
  <1>2. CASE Login!LeaveBrowser(l)
    BY <1>2, FailureLemma DEF Login!LeaveBrowser, Login!At, Where, Ensuring
  <1>3. CASE Login!FailRedeem(l)
    BY <1>3, FailureLemma DEF Login!FailRedeem, Login!At, Where, Ensuring
  <1>4. CASE Login!FailProfile(l)
    BY <1>4, FailureLemma DEF Login!FailProfile
  <1>5. QED
    BY <1>1, <1>2, <1>3, <1>4

LEMMA KeepSkipDiscovery ==
    ASSUME LoginInv, NEW l \in Logins, Login!SkipDiscovery(l), UNCHANGED options
    PROVE  LoginInv'
  <1>1. flow[l] \in Login!Flows /\ flow[l].next \in Login!States
    BY DEF LoginInv, Login!TypeOK, Login!Flows
  <1> DEFINE new == Login!Goto(flow[l], flow[l].next)
  <1>2. new \in Login!Flows
    BY <1>1, LabelLemma
  <1>3. Login!Set(l, new) /\ UNCHANGED <<options, providerInformation, codes, keys, faults>>
    BY DEF Login!SkipDiscovery
  <1>4. /\ flow'[l] = new
        /\ flow[l] \in Login!Flows /\ FlowInv(l)
    BY <1>2, <1>3, SetLemma DEF LoginInv, Login!TypeOK
  <1> USE DEF Where, Ensuring, Exchanged, Login!SkipDiscovery, Login!At, Login!Goto, Login!EnsureThen, Login!End, Login!Flows
  <1>5. LabelInv(l)'
    BY <1>3, <1>4, NoneIsNoValue DEF FlowInv, LabelInv, Login!Results
  <1>6. ResponseInv(l)'
    BY <1>3, <1>4, NoneIsNoValue DEF FlowInv, LabelInv, ResponseInv
  <1>7. TokenInv(l)'
    BY <1>3, <1>4, NoneIsNoValue DEF FlowInv, LabelInv, TokenInv, IdentityInv
  <1>8. ASSUME Reloads PROVE KeyInv(l)'
    BY <1>3, <1>4, <1>8, NoneIsNoValue DEF FlowInv, LabelInv, KeyInv, Reloads, Login!SkipsReload
  <1> HIDE DEF new
  <1>9. QED
    BY <1>2, <1>3, <1>5, <1>6, <1>7, <1>8, QuietLemma

LEMMA KeepRequestDiscoveryDocument ==
    ASSUME LoginInv, NEW l \in Logins, Login!RequestDiscoveryDocument(l), UNCHANGED options
    PROVE  LoginInv'
  <1> DEFINE new == Login!Goto(flow[l], "loading")
  <1>1. new \in Login!Flows
    BY LabelLemma DEF LoginInv, Login!TypeOK, Login!Flows, Login!States, Login!Results
  <1>2. Login!Set(l, new) /\ UNCHANGED <<options, providerInformation, codes, keys, faults>>
    BY DEF Login!RequestDiscoveryDocument
  <1>3. /\ flow'[l] = new
        /\ flow[l] \in Login!Flows /\ FlowInv(l)
    BY <1>1, <1>2, SetLemma DEF LoginInv, Login!TypeOK
  <1> USE DEF Where, Ensuring, Exchanged, Login!RequestDiscoveryDocument, Login!At, Login!Goto, Login!EnsureThen, Login!End, Login!Flows
  <1>4. LabelInv(l)'
    BY <1>2, <1>3, NoneIsNoValue DEF FlowInv, LabelInv, Login!Results
  <1>5. ResponseInv(l)'
    BY <1>2, <1>3, NoneIsNoValue DEF FlowInv, LabelInv, ResponseInv
  <1>6. TokenInv(l)'
    BY <1>2, <1>3, NoneIsNoValue DEF FlowInv, LabelInv, TokenInv, IdentityInv
  <1>7. ASSUME Reloads PROVE KeyInv(l)'
    BY <1>2, <1>3, <1>7, NoneIsNoValue DEF FlowInv, LabelInv, KeyInv, Reloads, Login!SkipsReload
  <1> HIDE DEF new
  <1>8. QED
    BY <1>1, <1>2, <1>4, <1>5, <1>6, <1>7, QuietLemma

LEMMA KeepLogin ==
    ASSUME LoginInv, NEW l \in Logins, Login!Login(l), UNCHANGED options
    PROVE  LoginInv'
  <1> DEFINE new == Login!EnsureThen(flow[l], "authorize")
  <1>1. new \in Login!Flows
    BY LabelLemma DEF LoginInv, Login!TypeOK, Login!Flows, Login!States, Login!Results
  <1>2. Login!Set(l, new) /\ UNCHANGED <<options, providerInformation, codes, keys, faults>>
    BY DEF Login!Login
  <1>3. /\ flow'[l] = new
        /\ flow[l] \in Login!Flows /\ FlowInv(l)
    BY <1>1, <1>2, SetLemma DEF LoginInv, Login!TypeOK
  <1> USE DEF Where, Ensuring, Exchanged, Login!Login, Login!At, Login!Goto, Login!EnsureThen, Login!End, Login!Flows
  <1>4. LabelInv(l)'
    BY <1>2, <1>3, NoneIsNoValue DEF FlowInv, LabelInv, Login!Results
  <1>5. ResponseInv(l)'
    BY <1>2, <1>3, NoneIsNoValue DEF FlowInv, LabelInv, ResponseInv
  <1>6. TokenInv(l)'
    BY <1>2, <1>3, NoneIsNoValue DEF FlowInv, LabelInv, TokenInv, IdentityInv
  <1>7. ASSUME Reloads PROVE KeyInv(l)'
    BY <1>2, <1>3, <1>7, NoneIsNoValue DEF FlowInv, LabelInv, KeyInv, Reloads, Login!SkipsReload
  <1> HIDE DEF new
  <1>8. QED
    BY <1>1, <1>2, <1>4, <1>5, <1>6, <1>7, QuietLemma

LEMMA KeepRejectSignature ==
    ASSUME LoginInv, NEW l \in Logins, Login!RejectSignature(l), UNCHANGED options
    PROVE  LoginInv'
  <1> DEFINE new == Login!End(flow[l], "invalid signature")
  <1>1. new \in Login!Flows
    BY EndLemma DEF LoginInv, Login!TypeOK, Login!Flows, Login!States, Login!Results
  <1>2. Login!Set(l, new) /\ UNCHANGED <<options, providerInformation, codes, keys, faults>>
    BY DEF Login!RejectSignature
  <1>3. /\ flow'[l] = new
        /\ flow[l] \in Login!Flows /\ FlowInv(l)
    BY <1>1, <1>2, SetLemma DEF LoginInv, Login!TypeOK
  <1> USE DEF Where, Ensuring, Exchanged, Login!RejectSignature, Login!At, Login!Goto, Login!EnsureThen, Login!End, Login!Flows
  <1>4. LabelInv(l)'
    BY <1>2, <1>3, NoneIsNoValue DEF FlowInv, LabelInv, Login!Results
  <1>5. ResponseInv(l)'
    BY <1>2, <1>3, NoneIsNoValue DEF FlowInv, LabelInv, ResponseInv
  <1>6. TokenInv(l)'
    BY <1>2, <1>3, NoneIsNoValue DEF FlowInv, LabelInv, TokenInv, IdentityInv
  <1>7. ASSUME Reloads PROVE KeyInv(l)'
    BY <1>2, <1>3, <1>7, NoneIsNoValue DEF FlowInv, LabelInv, KeyInv, Reloads, Login!SkipsReload
  <1> HIDE DEF new
  <1>8. QED
    BY <1>1, <1>2, <1>4, <1>5, <1>6, <1>7, QuietLemma

LEMMA KeepStartRefresh ==
    ASSUME LoginInv, NEW l \in Logins, Login!StartRefresh(l), UNCHANGED options
    PROVE  LoginInv'
  <1> DEFINE new == Login!EnsureThen([flow[l] EXCEPT !.refreshing = TRUE, !.retried = FALSE, !.result = None], "refresh")
  <1>1. new \in Login!Flows
    <2>1. [flow[l] EXCEPT !.refreshing = TRUE, !.retried = FALSE, !.result = None] \in Login!Flows
      BY DEF LoginInv, Login!TypeOK, Login!Flows, Login!Responses
    <2>2. QED
      BY <2>1, LabelLemma DEF Login!States
  <1>2. Login!Set(l, new) /\ UNCHANGED <<options, providerInformation, codes, keys, faults>>
    BY DEF Login!StartRefresh
  <1>3. /\ flow'[l] = new
        /\ flow[l] \in Login!Flows /\ FlowInv(l)
    BY <1>1, <1>2, SetLemma DEF LoginInv, Login!TypeOK
  <1> USE DEF Where, Ensuring, Exchanged, Login!StartRefresh, Login!At, Login!Goto, Login!EnsureThen, Login!End, Login!Flows
  <1>4. LabelInv(l)'
    BY <1>2, <1>3, NoneIsNoValue DEF FlowInv, LabelInv, Login!Results
  <1>5. ResponseInv(l)'
    BY <1>2, <1>3, NoneIsNoValue DEF FlowInv, LabelInv, ResponseInv
  <1>6. TokenInv(l)'
    BY <1>2, <1>3, NoneIsNoValue DEF FlowInv, LabelInv, TokenInv, IdentityInv
  <1>7. ASSUME Reloads PROVE KeyInv(l)'
    BY <1>2, <1>3, <1>7, NoneIsNoValue DEF FlowInv, LabelInv, KeyInv, Reloads, Login!SkipsReload
  <1> HIDE DEF new
  <1>8. QED
    BY <1>1, <1>2, <1>4, <1>5, <1>6, <1>7, QuietLemma

LEMMA KeepRefreshKeys ==
    ASSUME LoginInv, NEW l \in Logins, Login!RefreshKeys(l), UNCHANGED options
    PROVE  LoginInv'
  <1> DEFINE new == Login!EnsureThen([flow[l] EXCEPT !.retried = TRUE], "validate")
  <1>1. new \in Login!Flows
    <2>1. [flow[l] EXCEPT !.retried = TRUE] \in Login!Flows
      BY DEF LoginInv, Login!TypeOK, Login!Flows, Login!Responses
    <2>2. QED
      BY <2>1, LabelLemma DEF Login!States
  <1>2. Login!Set(l, new) /\ UNCHANGED <<options, providerInformation, codes, keys, faults>>
    BY DEF Login!RefreshKeys
  <1>3. /\ flow'[l] = new
        /\ flow[l] \in Login!Flows /\ FlowInv(l)
    BY <1>1, <1>2, SetLemma DEF LoginInv, Login!TypeOK
  <1> USE DEF Where, Ensuring, Exchanged, Login!RefreshKeys, Login!At, Login!Goto, Login!EnsureThen, Login!End, Login!Flows
  <1>4. LabelInv(l)'
    BY <1>2, <1>3, NoneIsNoValue DEF FlowInv, LabelInv, Login!Results
  <1>5. ResponseInv(l)'
    BY <1>2, <1>3, NoneIsNoValue DEF FlowInv, LabelInv, ResponseInv
  <1>6. TokenInv(l)'
    BY <1>2, <1>3, NoneIsNoValue DEF FlowInv, LabelInv, TokenInv, IdentityInv
  <1>7. ASSUME Reloads PROVE KeyInv(l)'
    BY <1>2, <1>3, <1>7, NoneIsNoValue DEF FlowInv, LabelInv, KeyInv, Reloads, Login!SkipsReload
  <1> HIDE DEF new
  <1>8. QED
    BY <1>1, <1>2, <1>4, <1>5, <1>6, <1>7, QuietLemma

LEMMA KeepReceiveDenial ==
    ASSUME LoginInv, NEW l \in Logins, Login!ReceiveDenial(l), UNCHANGED options
    PROVE  LoginInv'
  <1>1. [code |-> None, state |-> l] \in Login!Responses /\ [code |-> None, state |-> l] # None
    BY NoneIsNoValue DEF Login!Responses
  <1> DEFINE new == Login!EnsureThen([flow[l] EXCEPT !.response = [code |-> None, state |-> l]], "check")
  <1>2. new \in Login!Flows
    <2>1. [flow[l] EXCEPT !.response = [code |-> None, state |-> l]] \in Login!Flows
      BY <1>1 DEF LoginInv, Login!TypeOK, Login!Flows
    <2>2. QED
      BY <2>1, LabelLemma DEF Login!States
  <1>3. Login!Set(l, new) /\ UNCHANGED <<options, providerInformation, codes, keys, faults>>
    BY DEF Login!ReceiveDenial
  <1>4. /\ flow'[l] = new
        /\ flow[l] \in Login!Flows /\ FlowInv(l)
    BY <1>2, <1>3, SetLemma DEF LoginInv, Login!TypeOK
  <1> USE DEF Where, Ensuring, Exchanged, Login!ReceiveDenial, Login!At, Login!Goto, Login!EnsureThen, Login!End, Login!Flows
  <1>5. LabelInv(l)'
    BY <1>3, <1>4, NoneIsNoValue DEF FlowInv, LabelInv, Login!Results
  <1>6. ResponseInv(l)'
    <2>1. flow'[l].response = [code |-> None, state |-> l] /\ flow'[l].pc = "ensure" /\ flow'[l].next = "check" /\ flow'[l].result # "success"
      BY <1>3, <1>4, NoneIsNoValue DEF FlowInv, LabelInv, Login!Results
    <2>2. QED
      BY <1>1, <2>1 DEF ResponseInv
  <1>7. TokenInv(l)'
    BY <1>3, <1>4, NoneIsNoValue DEF FlowInv, LabelInv, TokenInv, IdentityInv
  <1>8. ASSUME Reloads PROVE KeyInv(l)'
    BY <1>3, <1>4, <1>8, NoneIsNoValue DEF FlowInv, LabelInv, KeyInv, Reloads, Login!SkipsReload
  <1> HIDE DEF new
  <1>9. QED
    BY <1>2, <1>3, <1>5, <1>6, <1>7, <1>8, QuietLemma

LEMMA KeepAnswerDiscovery ==
    ASSUME LoginInv, NEW l \in Logins, Login!AnswerDiscovery(l), UNCHANGED options
    PROVE  LoginInv'
  <1>1. PICK complete \in BOOLEAN :
            /\ IF complete THEN UNCHANGED faults ELSE Login!Fault
            /\ Login!Set(l, [flow[l] EXCEPT !.pc = "loaded", !.loaded = [keys |-> keys, complete |-> complete]])
    BY DEF Login!AnswerDiscovery
  <1> DEFINE document == [keys |-> keys, complete |-> complete]
             new == [flow[l] EXCEPT !.pc = "loaded", !.loaded = document]
  <1>2. document \in Login!Documents /\ document # None
    BY NoneIsNoValue DEF LoginInv, Login!TypeOK, Login!Documents
  <1>3. new \in Login!Flows
    <2>1. flow[l] \in Login!Flows
      BY DEF LoginInv, Login!TypeOK
    <2> HIDE DEF document
    <2>2. QED
      BY <1>2, <2>1 DEF Login!Flows, Login!States
  <1>4. /\ flow'[l] = new /\ UNCHANGED <<options, providerInformation, codes, keys>>
        /\ flow[l] \in Login!Flows /\ FlowInv(l) /\ flow[l].pc = "loading"
    BY <1>1, <1>3, SetLemma DEF LoginInv, Login!TypeOK, Login!AnswerDiscovery, Login!At
  <1> USE DEF Where, Ensuring, Exchanged, Login!Flows
  <1>5. LabelInv(l)'
    BY <1>2, <1>4, NoneIsNoValue DEF FlowInv, LabelInv
  <1>6. ResponseInv(l)'
    BY <1>4 DEF FlowInv, ResponseInv
  <1>7. TokenInv(l)'
    BY <1>4 DEF FlowInv, TokenInv, IdentityInv
  <1>8. ASSUME Reloads, complete PROVE KeyInv(l)'
    <2>1. document.complete /\ document.keys = keys
      BY <1>8
    <2>2. KeyInv(l) /\ LabelInv(l) /\ TokenInv(l)
      BY <1>4, <1>8 DEF FlowInv
    <2> HIDE DEF document
    <2>3. QED
      BY <1>2, <1>4, <2>1, <2>2 DEF LabelInv, TokenInv, IdentityInv, KeyInv, LoginInv, Login!TypeOK
  <1> HIDE DEF new, document
  <1>9. CASE complete
    BY <1>1, <1>3, <1>4, <1>5, <1>6, <1>7, <1>8, <1>9, QuietLemma DEF new, document
  <1>10. CASE ~complete
    BY <1>1, <1>3, <1>4, <1>5, <1>6, <1>7, <1>10, FaultLemma DEF new, document
  <1>11. QED
    BY <1>9, <1>10

LEMMA KeepStoreDocument ==
    ASSUME LoginInv, NEW l \in Logins, Login!StoreDocument(l), UNCHANGED options
    PROVE  LoginInv'
  <1>1. /\ flow[l] \in Login!Flows /\ FlowInv(l) /\ flow[l].pc = "loaded"
        /\ flow[l].loaded \in Login!Documents /\ flow[l].next \in Login!States
    BY NoneIsNoValue DEF LoginInv, Login!TypeOK, Login!Flows, FlowInv, LabelInv, Login!StoreDocument, Login!At
  <1>2. providerInformation' \in Login!Documents \cup {None} /\ UNCHANGED <<options, codes, keys, faults>>
    BY <1>1 DEF Login!StoreDocument
  <1>3. faults' \in 0..MaxFaults /\ faults <= faults'
    BY <1>2, BoundsAssumption DEF LoginInv, Login!TypeOK
  <1> USE DEF Where, Ensuring, Exchanged, Login!Flows
  <1>4. CASE flow[l].loaded.complete
    <2> DEFINE new == Login!Goto(flow[l], flow[l].next)
    <2>1. new \in Login!Flows /\ Login!Set(l, new)
      BY <1>1, <1>4, LabelLemma DEF Login!StoreDocument
    <2>2. flow'[l] = [flow[l] EXCEPT !.pc = flow[l].next]
      BY <2>1, SetLemma DEF LoginInv, Login!TypeOK, Login!Goto
    <2>3. LabelInv(l)'
      BY <1>1, <1>2, <2>2 DEF FlowInv, LabelInv
    <2>4. ResponseInv(l)'
      BY <1>1, <1>2, <2>2 DEF FlowInv, ResponseInv, LabelInv
    <2>5. TokenInv(l)'
      BY <1>1, <1>2, <2>2 DEF FlowInv, TokenInv, IdentityInv, LabelInv
    <2>6. Reloads => KeyInv(l)'
      BY <1>1, <1>2, <2>2 DEF FlowInv, KeyInv, LabelInv
    <2>7. FlowInv(l)'
      BY <1>2, <2>3, <2>4, <2>5, <2>6 DEF FlowInv, Reloads
    <2> HIDE DEF new
    <2>8. QED
      BY <1>2, <1>3, <2>1, <2>7, StepLemma DEF LoginInv, Login!TypeOK
  <1>5. CASE ~flow[l].loaded.complete
    <2> DEFINE new == Login!End(flow[l], "exception")
    <2>1. new \in Login!Flows /\ Login!Set(l, new)
      BY <1>1, <1>5, EndLemma DEF Login!StoreDocument, Login!Results
    <2>2. flow'[l] = [flow[l] EXCEPT !.pc = "done", !.result = "exception"]
      BY <2>1, SetLemma DEF LoginInv, Login!TypeOK, Login!End
    <2>3. LabelInv(l)'
      BY <1>1, <1>2, <2>2, NoneIsNoValue DEF FlowInv, LabelInv, Login!Results
    <2>4. ResponseInv(l)'
      BY <1>1, <1>2, <2>2 DEF FlowInv, ResponseInv
    <2>5. TokenInv(l)'
      BY <1>1, <1>2, <2>2 DEF FlowInv, TokenInv
    <2>6. ~Reloads
      BY <1>1, <1>5 DEF FlowInv, KeyInv, LabelInv
    <2>7. FlowInv(l)'
      BY <1>2, <2>3, <2>4, <2>5, <2>6 DEF FlowInv, Reloads
    <2> HIDE DEF new
    <2>8. QED
      BY <1>2, <1>3, <2>1, <2>7, StepLemma DEF LoginInv, Login!TypeOK
  <1>6. QED
    BY <1>4, <1>5

LEMMA KeepCreateAuthorizeState ==
    ASSUME LoginInv, NEW l \in Logins, Login!CreateAuthorizeState(l), UNCHANGED options
    PROVE  LoginInv'
  <1>1. /\ flow[l] \in Login!Flows /\ FlowInv(l) /\ flow[l].pc = "authorize"
        /\ UNCHANGED <<options, providerInformation, codes, keys>>
    BY DEF LoginInv, Login!TypeOK, Login!CreateAuthorizeState, Login!At
  <1> USE DEF Where, Ensuring, Exchanged, Login!Flows
  <1>2. ASSUME Login!Set(l, Login!Goto(flow[l], "browser")), UNCHANGED faults PROVE LoginInv'
    <2> DEFINE new == Login!Goto(flow[l], "browser")
    <2>1. new \in Login!Flows
      BY <1>1, LabelLemma DEF Login!States
    <2>2. flow'[l] = [flow[l] EXCEPT !.pc = "browser"]
      BY <1>2, <2>1, SetLemma DEF LoginInv, Login!TypeOK, Login!Goto
    <2>3. LabelInv(l)' /\ ResponseInv(l)' /\ TokenInv(l)'
      BY <1>1, <2>2 DEF FlowInv, LabelInv, ResponseInv, TokenInv, IdentityInv
    <2>4. Reloads => KeyInv(l)'
      BY <1>1, <2>2 DEF FlowInv, KeyInv, LabelInv
    <2> HIDE DEF new
    <2>5. QED
      BY <1>1, <1>2, <2>1, <2>3, <2>4, QuietLemma DEF new
  <1>3. ASSUME Login!Set(l, Login!End(flow[l], "error")), Login!Fault PROVE LoginInv'
    <2> DEFINE new == Login!End(flow[l], "error")
    <2>1. new \in Login!Flows
      BY <1>1, EndLemma DEF Login!Results
    <2>2. flow'[l] = [flow[l] EXCEPT !.pc = "done", !.result = "error"]
      BY <1>3, <2>1, SetLemma DEF LoginInv, Login!TypeOK, Login!End
    <2>3. LabelInv(l)' /\ ResponseInv(l)' /\ TokenInv(l)'
      BY <1>1, <2>2, NoneIsNoValue DEF FlowInv, LabelInv, ResponseInv, TokenInv, IdentityInv, Login!Results
    <2> HIDE DEF new
    <2>4. QED
      BY <1>1, <1>3, <2>1, <2>3, FaultLemma DEF new
  <1>4. QED
    BY <1>2, <1>3 DEF Login!CreateAuthorizeState

LEMMA KeepReceiveResponse ==
    ASSUME LoginInv, NEW l \in Logins, NEW m \in Logins, Login!ReceiveResponse(l, m), UNCHANGED options
    PROVE  LoginInv'
  <1> DEFINE answer == [code |-> m, state |-> m]
             held == [flow[l] EXCEPT !.response = answer]
             new == Login!EnsureThen(held, "check")
  <1>1. answer \in Login!Responses /\ answer # None
    BY NoneIsNoValue DEF Login!Responses
  <1>2. held \in Login!Flows
    BY <1>1 DEF LoginInv, Login!TypeOK, Login!Flows
  <1>3. new \in Login!Flows
    BY <1>2, LabelLemma DEF Login!States
  <1>4. Login!Set(l, new) /\ UNCHANGED <<options, providerInformation, codes, keys, faults>>
    BY DEF Login!ReceiveResponse
  <1>5. /\ flow'[l] = [flow[l] EXCEPT !.response = answer, !.pc = "ensure", !.next = "check"]
        /\ flow[l] \in Login!Flows /\ FlowInv(l) /\ flow[l].pc = "browser" /\ codes[m] # None
    BY <1>3, <1>4, SetLemma DEF LoginInv, Login!TypeOK, Login!ReceiveResponse, Login!EnsureThen, Login!At
  <1> USE DEF Where, Ensuring, Exchanged, Login!Flows
  <1>6. LabelInv(l)'
    BY <1>4, <1>5 DEF FlowInv, LabelInv
  <1>7. ResponseInv(l)'
    <2>1. /\ flow'[l].response = answer /\ answer.code = m /\ answer.state = m
          /\ flow'[l].pc = "ensure" /\ flow'[l].next = "check" /\ flow'[l].result # "success"
      BY <1>5, NoneIsNoValue DEF FlowInv, LabelInv, Login!Results
    <2> HIDE DEF answer
    <2>2. QED
      BY <1>1, <1>4, <1>5, <2>1 DEF ResponseInv
  <1>8. TokenInv(l)'
    BY <1>4, <1>5, NoneIsNoValue DEF FlowInv, LabelInv, TokenInv, Login!Results
  <1>9. Reloads => KeyInv(l)'
    BY <1>4, <1>5 DEF FlowInv, LabelInv, KeyInv
  <1> HIDE DEF new
  <1>10. QED
    BY <1>3, <1>4, <1>6, <1>7, <1>8, <1>9, QuietLemma

LEMMA KeepSignIn ==
    ASSUME LoginInv, NEW l \in Logins, NEW u \in Users, Login!SignIn(l, u), UNCHANGED options
    PROVE  LoginInv'
  <1>1. /\ codes[l] = None /\ UNCHANGED <<options, providerInformation, flow, keys, faults>>
        /\ codes' = [codes EXCEPT ![l] = [user |-> u, redeemed |-> FALSE]]
    BY DEF Login!SignIn
  <1>2. [user |-> u, redeemed |-> FALSE] \in Login!Codes
    BY DEF Login!Codes
  <1>3. Login!TypeOK'
    BY <1>1, <1>2 DEF LoginInv, Login!TypeOK
  <1>4. \A k \in Logins : codes[k] # None => codes'[k] = codes[k]
    BY <1>1 DEF LoginInv, Login!TypeOK
  <1>5. ASSUME NEW m \in Logins PROVE FlowInv(m)'
    <2>1. FlowInv(m) /\ flow[m] \in Login!Flows
      BY DEF LoginInv, Login!TypeOK
    <2> USE DEF Where, Ensuring, Exchanged
    <2>2. LabelInv(m)'
      BY <1>1, <2>1 DEF FlowInv, LabelInv
    <2>3. ResponseInv(m)'
      BY <1>1, <1>4, <2>1, NoneIsNoValue DEF FlowInv, ResponseInv, Login!Flows, Login!Responses
    <2>4. TokenInv(m)'
      <3>1. Exchanged(m) => codes[m] # None
        BY <2>1, NoneIsNoValue DEF FlowInv, ResponseInv
      <3>2. QED
        BY <1>1, <1>4, <2>1, <3>1 DEF FlowInv, TokenInv, IdentityInv
    <2>5. Reloads' => KeyInv(m)'
      BY <1>1, <2>1 DEF FlowInv, KeyInv, Reloads
    <2>6. QED
      BY <2>2, <2>3, <2>4, <2>5 DEF FlowInv
  <1>6. QED
    BY <1>3, <1>5 DEF LoginInv

LEMMA KeepCheckResponse ==
    ASSUME LoginInv, NEW l \in Logins, Login!CheckResponse(l), UNCHANGED options
    PROVE  LoginInv'
  <1>1. /\ flow[l] \in Login!Flows /\ FlowInv(l) /\ flow[l].pc = "check"
        /\ UNCHANGED <<options, providerInformation, codes, keys, faults>>
    BY DEF LoginInv, Login!TypeOK, Login!CheckResponse, Login!At
  <1> USE DEF Where, Ensuring, Exchanged, Login!Flows
  <1>2. ASSUME NEW how \in {"error", "invalid state"}, Login!Set(l, Login!End(flow[l], how)) PROVE LoginInv'
    BY <1>1, <1>2, FailureLemma
  <1>3. ASSUME Login!Set(l, Login!Goto(flow[l], "redeem")),
               flow[l].response.code # None, flow[l].response.state = l
        PROVE  LoginInv'
    <2> DEFINE new == Login!Goto(flow[l], "redeem")
    <2>1. new \in Login!Flows
      BY <1>1, LabelLemma DEF Login!States
    <2>2. flow'[l] = [flow[l] EXCEPT !.pc = "redeem"]
      BY <1>3, <2>1, SetLemma DEF LoginInv, Login!TypeOK, Login!Goto
    <2>3. LabelInv(l)' /\ TokenInv(l)'
      BY <1>1, <2>2, NoneIsNoValue DEF FlowInv, LabelInv, TokenInv, Login!Results
    <2>4. ResponseInv(l)'
      BY <1>1, <1>3, <2>2, NoneIsNoValue DEF FlowInv, LabelInv, ResponseInv, Login!Results
    <2>5. Reloads => KeyInv(l)'
      BY <1>1, <2>2, NoneIsNoValue DEF FlowInv, KeyInv, LabelInv, Login!Results
    <2> HIDE DEF new
    <2>6. QED
      BY <1>1, <1>3, <2>1, <2>3, <2>4, <2>5, QuietLemma DEF new
  <1>4. QED
    BY <1>2, <1>3 DEF Login!CheckResponse

LEMMA KeepRedeemCode ==
    ASSUME LoginInv, NEW l \in Logins, Login!RedeemCode(l), UNCHANGED options
    PROVE  LoginInv'
  <1>1. /\ flow[l] \in Login!Flows /\ FlowInv(l) /\ flow[l].pc = "redeem" /\ keys \in 1..MaxKeys
        /\ UNCHANGED <<options, providerInformation, keys>>
        /\ codes' = [codes EXCEPT ![l].redeemed = TRUE]
        /\ Login!Redeemable(l)
    BY DEF LoginInv, Login!TypeOK, Login!RedeemCode, Login!At
  <1>2. codes[l] \in Login!Codes
    BY <1>1, NoneIsNoValue DEF FlowInv, ResponseInv, Where, Ensuring, LoginInv, Login!TypeOK
  <1>3. PICK vouched \in BOOLEAN :
            /\ IF vouched THEN UNCHANGED faults ELSE Login!Fault
            /\ \E identity \in Login!IdentityTokensOf(codes[l].user, vouched) :
                 Login!Set(l, [flow[l] EXCEPT !.pc = "validate", !.retried = FALSE,
                                              !.tokens = [subject |-> codes[l].user, identity |-> identity]])
    BY DEF Login!RedeemCode
  <1>4. PICK identity \in Login!IdentityTokensOf(codes[l].user, vouched) :
            Login!Set(l, [flow[l] EXCEPT !.pc = "validate", !.retried = FALSE,
                                         !.tokens = [subject |-> codes[l].user, identity |-> identity]])
    BY <1>3
  <1>5. /\ identity \in Login!IdentityTokens \cup {None}
        /\ identity # None => identity.user = codes[l].user /\ identity.key = keys /\ identity.vouched = vouched
    BY <1>1, <1>2, NoneIsNoValue DEF Login!IdentityTokensOf, Login!IdentityTokens, Login!Codes
  <1> DEFINE tokens == [subject |-> codes[l].user, identity |-> identity]
             new == [flow[l] EXCEPT !.pc = "validate", !.retried = FALSE, !.tokens = tokens]
  <1>6. tokens \in Login!Tokens /\ tokens # None /\ tokens.subject = codes[l].user /\ tokens.identity = identity
    BY <1>2, <1>5, NoneIsNoValue DEF Login!Tokens, Login!Codes
  <1>7. /\ new \in Login!Flows
        /\ Login!Set(l, new)
        /\ flow'[l].tokens = tokens /\ flow'[l].pc = "validate" /\ ~flow'[l].retried
        /\ flow'[l].response = flow[l].response /\ flow'[l].result = flow[l].result
        /\ flow'[l].loaded = flow[l].loaded /\ flow'[l].spent = flow[l].spent
    <2>1. Login!Set(l, new)
      BY <1>4
    <2> HIDE DEF tokens
    <2>2. new \in Login!Flows
      BY <1>1, <1>6 DEF Login!Flows, Login!States
    <2>3. flow'[l] = new
      BY <2>1, <2>2, SetLemma DEF LoginInv, Login!TypeOK
    <2>4. QED
      BY <1>1, <2>1, <2>2, <2>3 DEF Login!Flows
  <1> HIDE DEF new, tokens
  <1>8. /\ codes'[l].redeemed /\ codes'[l].user = codes[l].user /\ codes'[l] # None
        /\ codes' \in [Logins -> Login!Codes \cup {None}]
        /\ \A m \in Logins : m # l => codes'[m] = codes[m]
    <2>1. codes'[l] = [codes[l] EXCEPT !.redeemed = TRUE]
      BY <1>1 DEF LoginInv, Login!TypeOK
    <2>2. codes'[l] \in Login!Codes
      BY <1>2, <2>1 DEF Login!Codes
    <2>3. QED
      BY <1>1, <1>2, <2>1, <2>2, NoneIsNoValue DEF Login!Codes, LoginInv, Login!TypeOK
  <1> USE DEF Where, Ensuring, Exchanged
  <1>9. LabelInv(l)'
    BY <1>1, <1>7 DEF FlowInv, LabelInv
  <1>10. ResponseInv(l)'
    BY <1>1, <1>7, <1>8 DEF FlowInv, ResponseInv
  <1>11. TokenInv(l)'
    <2>1. flow'[l].result # "success"
      BY <1>1, <1>7, NoneIsNoValue DEF FlowInv, LabelInv, Login!Results
    <2>2. IdentityInv(l)'
      BY <1>1, <1>5, <1>6, <1>7, <2>1 DEF IdentityInv
    <2>3. QED
      BY <1>6, <1>7, <1>8, <2>2 DEF TokenInv
  <1>12. faults' \in 0..MaxFaults /\ faults <= faults' /\ (faults' = 0 => vouched)
    BY <1>3, BoundsAssumption DEF Login!Fault, LoginInv, Login!TypeOK
  <1>13. ASSUME Reloads' PROVE KeyInv(l)'
    <2>1. KeyInv(l) /\ vouched
      BY <1>1, <1>12, <1>13 DEF FlowInv, Reloads, LoginInv, Login!TypeOK
    <2>2. flow'[l].tokens.identity # None => flow'[l].tokens.identity.vouched
      BY <1>5, <1>6, <1>7, <2>1
    <2>3. ~flow'[l].spent
      BY <1>1, <1>7, <2>1 DEF KeyInv
    <2>4. QED
      BY <1>7, <2>1, <2>2, <2>3 DEF KeyInv
  <1>14. FlowInv(l)'
    BY <1>9, <1>10, <1>11, <1>13 DEF FlowInv
  <1>15. QED
    BY <1>1, <1>7, <1>8, <1>12, <1>14, StepLemma DEF LoginInv, Login!TypeOK

LEMMA KeepLoseRedeem ==
    ASSUME LoginInv, NEW l \in Logins, Login!LoseRedeem(l), UNCHANGED options
    PROVE  LoginInv'
  <1> DEFINE new == Login!End(flow[l], "error")
  <1>1. /\ flow[l] \in Login!Flows /\ FlowInv(l) /\ flow[l].pc = "redeem"
        /\ UNCHANGED <<options, providerInformation, keys>> /\ Login!Fault
        /\ codes' \in {codes, [codes EXCEPT ![l].redeemed = TRUE]}
        /\ Login!Set(l, new)
    BY DEF LoginInv, Login!TypeOK, Login!LoseRedeem, Login!At
  <1>2. codes[l] \in Login!Codes
    BY <1>1, NoneIsNoValue DEF FlowInv, ResponseInv, Where, Ensuring, LoginInv, Login!TypeOK
  <1>3. /\ codes' \in [Logins -> Login!Codes \cup {None}]
        /\ \A m \in Logins : m # l => codes'[m] = codes[m]
        /\ codes'[l] # None
    <2>1. CASE codes' = codes
      BY <1>2, <2>1, NoneIsNoValue DEF LoginInv, Login!TypeOK
    <2>2. CASE codes' = [codes EXCEPT ![l].redeemed = TRUE]
      <3>1. codes'[l] = [codes[l] EXCEPT !.redeemed = TRUE]
        BY <2>2 DEF LoginInv, Login!TypeOK
      <3>2. codes'[l] \in Login!Codes
        BY <1>2, <3>1 DEF Login!Codes
      <3>3. QED
        BY <2>2, <3>2, NoneIsNoValue DEF LoginInv, Login!TypeOK
    <2>3. QED
      BY <1>1, <2>1, <2>2
  <1>4. new \in Login!Flows
    BY <1>1, EndLemma DEF Login!Results
  <1>5. flow'[l] = [flow[l] EXCEPT !.pc = "done", !.result = "error"]
    BY <1>1, <1>4, SetLemma DEF LoginInv, Login!TypeOK, Login!End
  <1> USE DEF Where, Ensuring, Exchanged, Login!Flows
  <1>6. LabelInv(l)' /\ TokenInv(l)'
    BY <1>1, <1>5, NoneIsNoValue DEF FlowInv, LabelInv, TokenInv, IdentityInv, Login!Results
  <1>7. ResponseInv(l)'
    <2>1. /\ flow'[l].response = flow[l].response /\ flow'[l].pc = "done" /\ flow'[l].result = "error"
          /\ flow[l].response.code = l
      BY <1>1, <1>5 DEF FlowInv, ResponseInv
    <2>2. QED
      BY <1>1, <1>3, <2>1 DEF FlowInv, ResponseInv
  <1>8. faults' \in 0..MaxFaults /\ faults <= faults' /\ faults' # 0
    BY <1>1, BoundsAssumption DEF Login!Fault, LoginInv, Login!TypeOK
  <1>9. FlowInv(l)'
    BY <1>6, <1>7, <1>8 DEF FlowInv, Reloads
  <1> HIDE DEF new
  <1>10. QED
    BY <1>1, <1>3, <1>4, <1>8, <1>9, StepLemma DEF LoginInv, Login!TypeOK

LEMMA KeepRefreshToken ==
    ASSUME LoginInv, NEW l \in Logins, Login!RefreshToken(l), UNCHANGED options
    PROVE  LoginInv'
  <1>1. /\ flow[l] \in Login!Flows /\ FlowInv(l) /\ flow[l].pc = "refresh" /\ keys \in 1..MaxKeys
        /\ UNCHANGED <<options, providerInformation, codes, keys, faults>>
    BY DEF LoginInv, Login!TypeOK, Login!RefreshToken, Login!At
  <1>2. /\ flow[l].tokens \in Login!Tokens /\ flow[l].refreshing /\ flow[l].result = None
        /\ codes[l].redeemed /\ flow[l].tokens.subject = codes[l].user
        /\ flow[l].tokens.subject \in Users /\ ~flow[l].retried
    BY <1>1, NoneIsNoValue DEF FlowInv, LabelInv, TokenInv, Where, Ensuring, Exchanged, Login!Flows, Login!Tokens
  <1>3. PICK identity \in Login!IdentityTokensOf(flow[l].tokens.subject, TRUE) :
            Login!Set(l, [flow[l] EXCEPT !.pc = "validate", !.spent = TRUE, !.tokens.identity = identity])
    BY DEF Login!RefreshToken
  <1>4. /\ identity \in Login!IdentityTokens \cup {None}
        /\ identity # None => identity.user = flow[l].tokens.subject /\ identity.key = keys /\ identity.vouched = TRUE
    <2>1. \/ identity = None
          \/ identity = [user |-> flow[l].tokens.subject, key |-> keys, vouched |-> TRUE]
      BY DEF Login!IdentityTokensOf
    <2>2. [user |-> flow[l].tokens.subject, key |-> keys, vouched |-> TRUE] \in Login!IdentityTokens
      BY <1>1, <1>2 DEF Login!IdentityTokens
    <2>3. CASE identity = None
      BY <2>3
    <2>4. CASE identity = [user |-> flow[l].tokens.subject, key |-> keys, vouched |-> TRUE]
      <3>1. identity.user = flow[l].tokens.subject /\ identity.key = keys /\ identity.vouched = TRUE
        BY <2>4
      <3>2. QED
        BY <2>2, <2>4, <3>1
    <2>5. QED
      BY <2>1, <2>3, <2>4
  <1> DEFINE tokens == [flow[l].tokens EXCEPT !.identity = identity]
             new == [flow[l] EXCEPT !.pc = "validate", !.spent = TRUE, !.tokens.identity = identity]
  <1>5. /\ tokens \in Login!Tokens /\ tokens # None
        /\ tokens.subject = flow[l].tokens.subject /\ tokens.identity = identity
    BY <1>2, <1>4, NoneIsNoValue DEF Login!Tokens
  <1>6. /\ new \in Login!Flows
        /\ Login!Set(l, new)
        /\ flow'[l].tokens = tokens /\ flow'[l].pc = "validate" /\ ~flow'[l].retried
        /\ flow'[l].response = flow[l].response /\ flow'[l].result = None
        /\ flow'[l].loaded = flow[l].loaded /\ flow'[l].refreshing
    <2>1. Login!Set(l, new)
      BY <1>3
    <2>2. new = [flow[l] EXCEPT !.pc = "validate", !.spent = TRUE, !.tokens = tokens]
      BY <1>1 DEF Login!Flows
    <2> HIDE DEF tokens
    <2>3. new \in Login!Flows
      BY <1>1, <1>5, <2>2 DEF Login!Flows, Login!States
    <2>4. flow'[l] = new
      BY <2>1, <2>3, SetLemma DEF LoginInv, Login!TypeOK
    <2>5. QED
      <3>1. ~flow'[l].retried /\ flow'[l].refreshing
        BY <1>1, <1>2, <2>2, <2>4 DEF Login!Flows
      <3>2. flow'[l].tokens = tokens /\ flow'[l].pc = "validate"
        BY <1>1, <2>2, <2>4 DEF Login!Flows
      <3>3. /\ flow'[l].response = flow[l].response /\ flow'[l].result = flow[l].result
            /\ flow'[l].loaded = flow[l].loaded
        BY <1>1, <2>2, <2>4 DEF Login!Flows
      <3>4. QED
        BY <1>2, <2>1, <2>3, <3>1, <3>2, <3>3
  <1> HIDE DEF new, tokens
  <1> USE DEF Where, Ensuring, Exchanged
  <1>7. LabelInv(l)'
    BY <1>1, <1>6 DEF FlowInv, LabelInv
  <1>8. ResponseInv(l)'
    BY <1>1, <1>6 DEF FlowInv, ResponseInv
  <1>9. TokenInv(l)'
    <2>1. flow'[l].result # "success"
      BY <1>6, NoneIsNoValue DEF Login!Results
    <2>2. IdentityInv(l)'
      BY <1>1, <1>4, <1>5, <1>6, <2>1 DEF IdentityInv
    <2>3. QED
      BY <1>1, <1>2, <1>5, <1>6, <2>2 DEF TokenInv
  <1>10. ASSUME Reloads PROVE KeyInv(l)'
    <2>1. KeyInv(l)
      BY <1>1, <1>10 DEF FlowInv
    <2>2. flow'[l].tokens.identity # None => flow'[l].tokens.identity.vouched
      BY <1>4, <1>5, <1>6
    <2>3. QED
      BY <1>6, <2>1, <2>2, NoneIsNoValue DEF KeyInv, Login!Results
  <1>11. QED
    BY <1>1, <1>6, <1>7, <1>8, <1>9, <1>10, QuietLemma

LEMMA KeepFailRefresh ==
    ASSUME LoginInv, NEW l \in Logins, Login!FailRefresh(l), UNCHANGED options
    PROVE  LoginInv'
  <1>1. /\ flow[l] \in Login!Flows /\ FlowInv(l) /\ flow[l].pc = "refresh"
        /\ UNCHANGED <<options, providerInformation, codes, keys>>
    BY DEF LoginInv, Login!TypeOK, Login!FailRefresh, Login!At
  <1> USE DEF Where, Ensuring, Exchanged, Login!Flows
  <1>2. ASSUME Login!Set(l, Login!End(flow[l], "error")), UNCHANGED faults PROVE LoginInv'
    <2> DEFINE new == Login!End(flow[l], "error")
    <2>1. new \in Login!Flows
      BY <1>1, EndLemma DEF Login!Results
    <2>2. flow'[l] = [flow[l] EXCEPT !.pc = "done", !.result = "error"]
      BY <1>2, <2>1, SetLemma DEF LoginInv, Login!TypeOK, Login!End
    <2>3. LabelInv(l)' /\ ResponseInv(l)' /\ TokenInv(l)'
      BY <1>1, <2>2, NoneIsNoValue DEF FlowInv, LabelInv, ResponseInv, TokenInv, IdentityInv, Login!Results
    <2>4. Reloads => KeyInv(l)'
      BY <1>1, <2>2 DEF FlowInv, KeyInv, LabelInv
    <2> HIDE DEF new
    <2>5. QED
      BY <1>1, <1>2, <2>1, <2>3, <2>4, QuietLemma DEF new
  <1>3. ASSUME NEW spends \in BOOLEAN, Login!Set(l, Login!End([flow[l] EXCEPT !.spent = spends], "error")), Login!Fault
        PROVE  LoginInv'
    <2> DEFINE held == [flow[l] EXCEPT !.spent = spends]
               new == Login!End(held, "error")
    <2>1. held \in Login!Flows
      BY <1>1
    <2>2. new \in Login!Flows
      BY <2>1, EndLemma DEF Login!Results
    <2>3. flow'[l] = [flow[l] EXCEPT !.spent = spends, !.pc = "done", !.result = "error"]
      BY <1>3, <2>2, SetLemma DEF LoginInv, Login!TypeOK, Login!End
    <2>4. LabelInv(l)' /\ ResponseInv(l)' /\ TokenInv(l)'
      BY <1>1, <2>3, NoneIsNoValue DEF FlowInv, LabelInv, ResponseInv, TokenInv, IdentityInv, Login!Results
    <2> HIDE DEF new
    <2>5. QED
      BY <1>1, <1>3, <2>2, <2>4, FaultLemma DEF new
  <1>4. QED
    BY <1>2, <1>3 DEF Login!FailRefresh

\* What follows a valid token response.
LEMMA KeepAfterValidation ==
    ASSUME LoginInv, NEW l \in Logins, Login!At(l, "validate"), Login!Set(l, Login!AfterValidation(l)),
           UNCHANGED <<options, providerInformation, codes, keys, faults>>,
           flow[l].tokens.identity # None => flow[l].tokens.identity.vouched
    PROVE  LoginInv'
  <1>1. /\ flow[l] \in Login!Flows /\ FlowInv(l) /\ flow[l].pc = "validate"
        /\ options \in Login!Options
    BY DEF LoginInv, Login!TypeOK, Login!At
  <1> USE DEF Where, Ensuring, Exchanged, Login!Flows
  <1>2. CASE flow[l].refreshing
    <2> DEFINE held == [flow[l] EXCEPT !.spent = FALSE]
               new == Login!End(held, "success")
    <2>1. held \in Login!Flows
      BY <1>1
    <2>2. new \in Login!Flows /\ Login!Set(l, new)
      BY <1>2, <2>1, EndLemma DEF Login!Results, Login!AfterValidation
    <2>3. flow'[l] = [flow[l] EXCEPT !.spent = FALSE, !.pc = "done", !.result = "success"]
      BY <2>2, SetLemma DEF LoginInv, Login!TypeOK, Login!End
    <2>4. LabelInv(l)' /\ ResponseInv(l)'
      BY <1>1, <2>3, NoneIsNoValue DEF FlowInv, LabelInv, ResponseInv, Login!Results
    <2>5. TokenInv(l)'
      BY <1>1, <1>2, <2>3, NoneIsNoValue DEF FlowInv, LabelInv, TokenInv, IdentityInv, Login!Results
    <2>6. Reloads => KeyInv(l)'
      BY <1>1, <2>3 DEF FlowInv, KeyInv, LabelInv
    <2> HIDE DEF new
    <2>7. QED
      BY <2>2, <2>4, <2>5, <2>6, QuietLemma
  <1>3. CASE ~flow[l].refreshing /\ options.LoadProfile
    <2> DEFINE new == Login!EnsureThen(flow[l], "profile")
    <2>1. new \in Login!Flows /\ Login!Set(l, new)
      BY <1>1, <1>3, LabelLemma DEF Login!States, Login!AfterValidation
    <2>2. flow'[l] = [flow[l] EXCEPT !.pc = "ensure", !.next = "profile"]
      BY <2>1, SetLemma DEF LoginInv, Login!TypeOK, Login!EnsureThen
    <2>3. LabelInv(l)' /\ ResponseInv(l)'
      BY <1>1, <1>3, <2>2, NoneIsNoValue DEF FlowInv, LabelInv, ResponseInv, Login!Results
    <2>4. TokenInv(l)'
      BY <1>1, <2>2, NoneIsNoValue DEF FlowInv, LabelInv, TokenInv, IdentityInv, Login!Results
    <2>5. Reloads => KeyInv(l)'
      BY <1>1, <1>3, <2>2 DEF FlowInv, KeyInv, LabelInv
    <2> HIDE DEF new
    <2>6. QED
      BY <2>1, <2>3, <2>4, <2>5, QuietLemma
  <1>4. CASE ~flow[l].refreshing /\ ~options.LoadProfile
    <2> DEFINE new == Login!End(flow[l], "success")
    <2>1. new \in Login!Flows /\ Login!Set(l, new)
      BY <1>1, <1>4, EndLemma DEF Login!Results, Login!AfterValidation
    <2>2. flow'[l] = [flow[l] EXCEPT !.pc = "done", !.result = "success"]
      BY <2>1, SetLemma DEF LoginInv, Login!TypeOK, Login!End
    <2>3. LabelInv(l)' /\ ResponseInv(l)'
      BY <1>1, <2>2, NoneIsNoValue DEF FlowInv, LabelInv, ResponseInv, Login!Results
    <2>4. TokenInv(l)'
      BY <1>1, <1>4, <2>2, NoneIsNoValue DEF FlowInv, LabelInv, TokenInv, IdentityInv, Login!Results
    <2>5. Reloads => KeyInv(l)'
      BY <1>1, <1>4, <2>2 DEF FlowInv, KeyInv, LabelInv
    <2> HIDE DEF new
    <2>6. QED
      BY <2>1, <2>3, <2>4, <2>5, QuietLemma
  <1>5. QED
    BY <1>2, <1>3, <1>4

LEMMA KeepValidation ==
    ASSUME LoginInv, NEW l \in Logins,
           Login!ValidateWithoutIdentityToken(l) \/ Login!ValidateIdentityToken(l), UNCHANGED options
    PROVE  LoginInv'
  <1>1. /\ flow[l] \in Login!Flows /\ FlowInv(l) /\ flow[l].pc = "validate"
        /\ UNCHANGED <<options, providerInformation, codes, keys, faults>>
    BY DEF LoginInv, Login!TypeOK, Login!ValidateWithoutIdentityToken, Login!ValidateIdentityToken, Login!At
  <1>2. CASE /\ Login!Set(l, Login!AfterValidation(l))
             /\ flow[l].tokens.identity # None => flow[l].tokens.identity.vouched
    BY <1>1, <1>2, KeepAfterValidation DEF Login!At
  <1>3. CASE /\ Login!Set(l, Login!End(flow[l], "error"))
             /\ \/ flow[l].tokens.identity = None /\ options.RequireIdentityTokenOnRefreshTokenResponse
                \/ flow[l].tokens.identity # None /\ ~flow[l].tokens.identity.vouched
    <2> USE DEF Where, Ensuring, Exchanged, Login!Flows
    <2> DEFINE new == Login!End(flow[l], "error")
    <2>1. new \in Login!Flows
      BY <1>1, EndLemma DEF Login!Results
    <2>2. flow'[l] = [flow[l] EXCEPT !.pc = "done", !.result = "error"]
      BY <1>3, <2>1, SetLemma DEF LoginInv, Login!TypeOK, Login!End
    <2>3. LabelInv(l)' /\ ResponseInv(l)' /\ TokenInv(l)'
      BY <1>1, <2>2, NoneIsNoValue DEF FlowInv, LabelInv, ResponseInv, TokenInv, IdentityInv, Login!Results
    <2>4. Reloads => KeyInv(l)'
      BY <1>1, <1>3, <2>2 DEF FlowInv, KeyInv, LabelInv
    <2> HIDE DEF new
    <2>5. QED
      BY <1>1, <1>3, <2>1, <2>3, <2>4, QuietLemma DEF new
  <1>4. QED
    BY <1>2, <1>3 DEF Login!ValidateWithoutIdentityToken, Login!ValidateIdentityToken

LEMMA KeepReceiveProfile ==
    ASSUME LoginInv, NEW l \in Logins, Login!ReceiveProfile(l), UNCHANGED options
    PROVE  LoginInv'
  <1>1. /\ flow[l] \in Login!Flows /\ FlowInv(l) /\ flow[l].pc = "profile"
        /\ UNCHANGED <<options, providerInformation, codes, keys>>
        /\ flow[l].tokens \in Login!Tokens
    BY NoneIsNoValue DEF LoginInv, Login!TypeOK, Login!ReceiveProfile, Login!At, FlowInv, TokenInv, Where, Ensuring, Exchanged, Login!Flows
  <1>2. PICK u \in Users :
            /\ IF u = flow[l].tokens.subject THEN UNCHANGED faults ELSE Login!Fault
            /\ Login!Set(l, IF flow[l].tokens.identity # None /\ u # flow[l].tokens.subject
                            THEN Login!End(flow[l], "error")
                            ELSE Login!End([flow[l] EXCEPT !.profile = u], "success"))
    BY DEF Login!ReceiveProfile
  <1> USE DEF Where, Ensuring, Exchanged, Login!Flows
  <1>3. ASSUME NEW new \in Login!Flows, Login!Set(l, new), LabelInv(l)', ResponseInv(l)', TokenInv(l)',
               Reloads => KeyInv(l)'
        PROVE  LoginInv'
    BY <1>1, <1>2, <1>3, QuietLemma, FaultLemma
  <1>4. CASE flow[l].tokens.identity # None /\ u # flow[l].tokens.subject
    <2> DEFINE new == Login!End(flow[l], "error")
    <2>1. new \in Login!Flows /\ Login!Set(l, new)
      BY <1>1, <1>2, <1>4, EndLemma DEF Login!Results
    <2>2. flow'[l] = [flow[l] EXCEPT !.pc = "done", !.result = "error"]
      BY <2>1, SetLemma DEF LoginInv, Login!TypeOK, Login!End
    <2>3. LabelInv(l)' /\ ResponseInv(l)' /\ TokenInv(l)'
      BY <1>1, <2>2, NoneIsNoValue DEF FlowInv, LabelInv, ResponseInv, TokenInv, IdentityInv, Login!Results
    <2>4. Reloads => KeyInv(l)'
      BY <1>1, <2>2 DEF FlowInv, KeyInv, LabelInv
    <2> HIDE DEF new
    <2>5. QED
      BY <1>3, <2>1, <2>3, <2>4
  <1>5. CASE flow[l].tokens.identity = None \/ u = flow[l].tokens.subject
    <2> DEFINE held == [flow[l] EXCEPT !.profile = u]
               new == Login!End(held, "success")
    <2>1. held \in Login!Flows
      BY <1>1
    <2>2. new \in Login!Flows /\ Login!Set(l, new)
      BY <1>2, <1>5, <2>1, EndLemma DEF Login!Results
    <2>3. flow'[l] = [flow[l] EXCEPT !.profile = u, !.pc = "done", !.result = "success"]
      BY <2>2, SetLemma DEF LoginInv, Login!TypeOK, Login!End
    <2>4. LabelInv(l)' /\ ResponseInv(l)'
      BY <1>1, <2>3, NoneIsNoValue DEF FlowInv, LabelInv, ResponseInv, Login!Results
    <2>5. TokenInv(l)'
      <3>1. TokenInv(l) /\ IdentityInv(l) /\ codes' = codes /\ keys' = keys
        BY <1>1 DEF FlowInv, TokenInv
      <3>2. flow'[l].tokens = flow[l].tokens /\ flow'[l].profile = u /\ flow'[l].pc = "done"
        BY <1>1, <2>3
      <3>3. IdentityInv(l)'
        BY <1>1, <1>5, <3>1, <3>2 DEF IdentityInv
      <3>4. QED
        BY <1>1, <3>1, <3>2, <3>3 DEF TokenInv
    <2>6. Reloads => KeyInv(l)'
      BY <1>1, <2>3 DEF FlowInv, KeyInv, LabelInv
    <2> HIDE DEF new
    <2>7. QED
      BY <1>3, <2>2, <2>4, <2>5, <2>6
  <1>6. QED
    BY <1>4, <1>5

LEMMA KeepRotateKeys ==
    ASSUME LoginInv, Login!RotateKeys, UNCHANGED options
    PROVE  LoginInv'
  <1>1. /\ keys \in Nat /\ keys' \in 1..MaxKeys /\ keys <= keys'
        /\ UNCHANGED <<options, providerInformation, flow, codes, faults>>
    BY BoundsAssumption DEF LoginInv, Login!TypeOK, Login!RotateKeys
  <1>2. Login!TypeOK'
    BY <1>1 DEF LoginInv, Login!TypeOK
  <1>3. ASSUME NEW m \in Logins PROVE FlowInv(m)'
    <2>1. FlowInv(m) /\ flow[m] \in Login!Flows
      BY DEF LoginInv, Login!TypeOK
    <2> USE DEF Where, Ensuring, Exchanged
    <2>2. LabelInv(m)'
      BY <1>1, <2>1 DEF FlowInv, LabelInv
    <2>3. ResponseInv(m)'
      BY <1>1, <2>1 DEF FlowInv, ResponseInv
    <2>4. Reloads' => KeyInv(m)'
      BY <1>1, <2>1 DEF FlowInv, KeyInv, Reloads
    <2>5. TokenInv(m)'
      <3>1. Exchanged(m) /\ flow[m].tokens.identity # None => flow[m].tokens.identity.key \in Nat
        BY <2>1, NoneIsNoValue DEF FlowInv, TokenInv, Login!Flows, Login!Tokens, Login!IdentityTokens
      <3>2. QED
        BY <1>1, <2>1, <3>1 DEF FlowInv, TokenInv, IdentityInv
    <2>6. QED
      BY <2>2, <2>5, <2>3, <2>4 DEF FlowInv
  <1>4. QED
    BY <1>2, <1>3 DEF LoginInv

\* The invariant of the logins.
LEMMA InitLoginInv == Login!Init => LoginInv
  <1> SUFFICES ASSUME Login!Init PROVE LoginInv
    OBVIOUS
  <1> DEFINE new == [pc |-> "idle", next |-> "idle", loaded |-> None, response |-> None, tokens |-> None,
                     retried |-> FALSE, profile |-> None, refreshing |-> FALSE, spent |-> FALSE,
                     result |-> None]
  <1>1. /\ options \in Login!Options /\ providerInformation = None
        /\ flow = [l \in Logins |-> new]
        /\ codes = [l \in Logins |-> None] /\ keys = 1 /\ faults = 0
    BY DEF Login!Init
  <1>2. new \in Login!Flows
    BY DEF Login!Flows, Login!States
  <1>3. Login!TypeOK
    <2> HIDE DEF new
    <2>1. QED
      BY <1>1, <1>2, BoundsAssumption DEF Login!TypeOK
  <1>4. ASSUME NEW l \in Logins PROVE FlowInv(l)
    <2>1. /\ flow[l].pc = "idle" /\ flow[l].loaded = None /\ flow[l].response = None /\ flow[l].result = None
          /\ ~flow[l].retried /\ ~flow[l].spent
      BY <1>1
    <2>2. flow[l].result # "success"
      BY <2>1, NoneIsNoValue DEF Login!Results
    <2> USE DEF Where, Ensuring, Exchanged
    <2>3. LabelInv(l) /\ ResponseInv(l) /\ TokenInv(l) /\ KeyInv(l)
      BY <2>1, <2>2 DEF LabelInv, ResponseInv, TokenInv, KeyInv
    <2>4. QED
      BY <2>3 DEF FlowInv
  <1>5. QED
    BY <1>3, <1>4 DEF LoginInv

LEMMA NextLoginInv == LoginInv /\ [Login!Next]_(Login!vars) => LoginInv'
  <1> SUFFICES ASSUME LoginInv, [Login!Next]_(Login!vars) PROVE LoginInv'
    OBVIOUS
  <1>1. CASE UNCHANGED Login!vars
    <2>1. UNCHANGED <<options, providerInformation, flow, codes, keys, faults>>
      BY <1>1 DEF Login!vars
    <2>2. Login!TypeOK'
      BY <2>1 DEF LoginInv, Login!TypeOK
    <2>3. ASSUME NEW l \in Logins PROVE FlowInv(l)'
      <3>1. FlowInv(l)
        BY DEF LoginInv
      <3> USE DEF Where, Ensuring, Exchanged
      <3>2. LabelInv(l)' /\ ResponseInv(l)'
        BY <2>1, <3>1 DEF FlowInv, LabelInv, ResponseInv
      <3>3. TokenInv(l)' /\ (Reloads' => KeyInv(l)')
        BY <2>1, <3>1 DEF FlowInv, TokenInv, IdentityInv, KeyInv, Reloads
      <3>4. QED
        BY <3>2, <3>3 DEF FlowInv
    <2>4. QED
      BY <2>2, <2>3 DEF LoginInv
  <1>2. CASE Login!Next
    <2>1. UNCHANGED options
      BY <1>2 DEF Login!Next
    <2>2. ASSUME NEW l \in Logins, Login!Step(l) PROVE LoginInv'
      BY <2>1, <2>2, KeepSkipDiscovery, KeepRequestDiscoveryDocument, KeepAnswerDiscovery, KeepStoreDocument,
         KeepCreateAuthorizeState, KeepCheckResponse, KeepRedeemCode, KeepFailures,
         KeepRefreshToken, KeepFailRefresh, KeepValidation, KeepRefreshKeys, KeepRejectSignature,
         KeepReceiveProfile
         DEF Login!Step
    <2>3. ASSUME NEW l \in Logins,
                 \/ Login!Login(l) \/ Login!ReceiveDenial(l) \/ Login!FailDiscovery(l) \/ Login!LoseRedeem(l)
                 \/ Login!StartRefresh(l) \/ Login!FailProfile(l)
          PROVE  LoginInv'
      BY <2>1, <2>3, KeepLogin, KeepReceiveDenial, KeepLoseRedeem, KeepStartRefresh, KeepFailures
    <2>4. QED
      BY <1>2, <2>1, <2>2, <2>3, KeepSignIn, KeepReceiveResponse, KeepRotateKeys DEF Login!Next
  <1>3. QED
    BY <1>1, <1>2

LEMMA LoginInvariance == Login!Spec => []LoginInv
  BY InitLoginInv, NextLoginInv, PTL DEF Login!Spec

\* Type correctness of OidcClient.
THEOREM LoginTypeCorrect == Login!Spec => []Login!TypeOK
  <1>1. LoginInv => Login!TypeOK
    BY DEF LoginInv
  <1>2. QED
    BY <1>1, LoginInvariance, PTL

\* LoginsAreNotMixed for any number of logins and users: a login ends with the
\* tokens, the identity token and the profile of the user at its own browser.
THEOREM LoginsStayApart == Login!Spec => []LoginsAreNotMixed
  <1>1. LoginInv => LoginsAreNotMixed
    <2> SUFFICES ASSUME LoginInv, NEW l \in Logins
                 PROVE  /\ flow[l].pc \in {"redeem", "validate", "profile"} => flow[l].response.code = l
                        /\ flow[l].result = "success" => codes[l].redeemed /\ flow[l].tokens.subject = codes[l].user
                        /\ flow[l].result = "success" /\ ~flow[l].refreshing /\ flow[l].tokens.identity # None =>
                              /\ flow[l].tokens.identity.vouched
                              /\ options.LoadProfile => flow[l].profile = flow[l].tokens.identity.user
      BY DEF LoginsAreNotMixed, Login!LoginsAreNotMixed
    <2>1. ResponseInv(l) /\ TokenInv(l)
      BY DEF LoginInv, FlowInv
    <2>2. QED
      BY <2>1 DEF ResponseInv, TokenInv, IdentityInv, Exchanged, Where, Ensuring
  <1>2. QED
    BY <1>1, LoginInvariance, PTL

\* SessionsSurviveRotation for any number of logins and key rotations: what
\* RefreshTokenAsync loses is lost to a fault, an option or old keys.
THEOREM RotationsAreSurvived == Login!Spec => []SessionsSurviveRotation
  <1>1. LoginInv => SessionsSurviveRotation
    <2> SUFFICES ASSUME LoginInv PROVE SessionsSurviveRotation
      OBVIOUS
    <2>1. faults > 0 \/ faults = 0
      BY BoundsAssumption DEF LoginInv, Login!TypeOK
    <2>2. CASE faults = 0
      BY <2>2 DEF LoginInv, FlowInv, Reloads, KeyInv, SessionsSurviveRotation, Login!SessionsSurviveRotation, Login!At
    <2>3. CASE faults > 0
      BY <2>3 DEF SessionsSurviveRotation, Login!SessionsSurviveRotation
    <2>4. QED
      BY <2>1, <2>2, <2>3
  <1>2. QED
    BY <1>1, LoginInvariance, PTL

--------------------------------------------------------------------------------
(* ProofTokenMessageHandler *)

\* How many messages have been sent and answered.
MessagesInv(r) ==
    /\ proofPc[r] = "idle" => Len(sent[r]) = 0 /\ Len(responses[r]) = 0
    /\ proofPc[r] = "sent" => Len(sent[r]) = 1 /\ Len(responses[r]) = 0
    /\ proofPc[r] \in {"answered", "differs", "retry"} => Len(sent[r]) = 1 /\ Len(responses[r]) = 1
    /\ proofPc[r] = "resent" => Len(sent[r]) = 2 /\ Len(responses[r]) = 1
    /\ proofPc[r] = "done" => Len(sent[r]) \in {1, 2} /\ Len(responses[r]) = Len(sent[r])

\* The first message has no second assertion, and the second has one if it can.
AssertionInv(r) ==
    /\ Len(sent[r]) > 0 => sent[r][1].assertion # "second"
    /\ Len(sent[r]) = 2 /\ factory[r] = "fresh" => sent[r][2].assertion = "second"

\* A request that has the handler to itself has it to itself.
AloneInv(r) ==
    proofPc[r] \notin {"idle", "done"} /\ alone[r] =>
        \A q \in ProofRequests : q # r => proofPc[q] \in {"idle", "done"}

FirstRefused(r) == Len(responses[r]) > 0 /\ responses[r][1].status = "refused"

\* A refusal brings another nonce than it was sent with; while a request is
\* alone _nonce is the one it sends, and then the one that was brought.
NonceInv(r) ==
    /\ FirstRefused(r) => responses[r][1].nonce # sent[r][1].nonce
    /\ alone[r] /\ proofPc[r] \in {"sent", "answered", "differs"} => sent[r][1].nonce = nonce
    /\ alone[r] /\ proofPc[r] = "retry" => responses[r][1].nonce = nonce
    /\ alone[r] /\ Len(sent[r]) = 2 => sent[r][2].nonce = responses[r][1].nonce
    /\ undisturbed[r] /\ FirstRefused(r) /\ proofPc[r] # "done" => responses[r][1].nonce = current
    /\ alone[r] /\ FirstRefused(r) /\ proofPc[r] = "done" =>
            Len(sent[r]) = 2 /\ (undisturbed[r] => responses[r][2].status # "refused")

RequestInv(r) == MessagesInv(r) /\ AssertionInv(r) /\ AloneInv(r) /\ NonceInv(r)

ProofInv == Proof!TypeOK /\ \A r \in ProofRequests : RequestInv(r)

\* The invariant of the proof handler.
LEMMA InitProofInv == Proof!Init => ProofInv
  <1> SUFFICES ASSUME Proof!Init PROVE ProofInv
    OBVIOUS
  <1>1. Proof!TypeOK
    BY BoundsAssumption DEF Proof!Init, Proof!TypeOK, Proof!Nonces, Proof!Labels
  <1>2. ASSUME NEW r \in ProofRequests PROVE proofPc[r] = "idle" /\ Len(sent[r]) = 0 /\ Len(responses[r]) = 0
    BY DEF Proof!Init
  <1>3. QED
    BY <1>1, <1>2 DEF ProofInv, RequestInv, MessagesInv, AssertionInv, AloneInv, NonceInv, FirstRefused

\* What a step of one request leaves of another one.
LEMMA OtherRequests ==
    ASSUME ProofInv, NEW r \in ProofRequests, NEW q \in ProofRequests, q # r,
           proofPc'[q] = proofPc[q], sent'[q] = sent[q], responses'[q] = responses[q],
           UNCHANGED <<current, factory, undisturbed>>,
           alone'[q] => alone[q],
           proofPc[q] \notin {"idle", "done"} /\ alone'[q] => 
              /\ nonce' = nonce
              /\ \A p \in ProofRequests : p # q => proofPc'[p] \in {"idle", "done"}
    PROVE  RequestInv(q)'
  <1>1. RequestInv(q)
    BY DEF ProofInv, RequestInv
  <1>2. MessagesInv(q)' /\ AssertionInv(q)'
    BY <1>1 DEF RequestInv, MessagesInv, AssertionInv
  <1>3. AloneInv(q)'
    BY DEF AloneInv
  <1>4. NonceInv(q)'
    BY <1>1 DEF RequestInv, NonceInv, FirstRefused
  <1>5. QED
    BY <1>2, <1>3, <1>4 DEF RequestInv

\* A request in flight is not alone, or no other is in flight.
LEMMA AloneInFlight ==
    ASSUME ProofInv, NEW r \in ProofRequests, NEW q \in ProofRequests, q # r,
           proofPc[r] \notin {"idle", "done"}, proofPc[q] \notin {"idle", "done"}
    PROVE  ~alone[q]
  BY DEF ProofInv, RequestInv, AloneInv

LEMMA NextProofInv == ProofInv /\ [Proof!Next]_(Proof!vars) => ProofInv'
  <1> SUFFICES ASSUME ProofInv, [Proof!Next]_(Proof!vars) PROVE ProofInv'
    OBVIOUS
  <1>1. /\ Proof!TypeOK /\ \A r \in ProofRequests : RequestInv(r)
        /\ current \in Nat /\ nonce \in Nat
    BY BoundsAssumption DEF ProofInv, RequestInv, Proof!TypeOK, Proof!Nonces
  <1>2. ASSUME NEW r \in ProofRequests
        PROVE  /\ sent[r] \in Seq(Proof!Messages) /\ responses[r] \in Seq(Proof!Responses)
               /\ proofPc[r] \in Proof!Labels
    BY <1>1 DEF Proof!TypeOK
  <1>3. ASSUME NEW r \in ProofRequests, Proof!Start(r) PROVE ProofInv'
    <2> DEFINE m == [nonce |-> nonce, assertion |-> IF factory[r] = "no assertion" THEN "none" ELSE "first"]
    <2>1. /\ proofPc[r] = "idle" /\ proofPc' = [proofPc EXCEPT ![r] = "sent"]
          /\ sent' = [sent EXCEPT ![r] = Append(sent[r], m)]
          /\ alone' = [q \in ProofRequests |->
                         IF q = r THEN Proof!InFlight = {} ELSE alone[q] /\ q \notin Proof!InFlight]
          /\ UNCHANGED <<current, nonce, factory, responses, undisturbed>>
      BY <1>3 DEF Proof!Start, Proof!SendWith, Proof!Goto
    <2>2. m \in Proof!Messages /\ m.nonce = nonce /\ m.assertion # "second"
      BY <1>1 DEF Proof!TypeOK, Proof!Messages
    <2> HIDE DEF m
    <2>3. /\ Len(sent[r]) = 0 /\ Len(responses[r]) = 0
          /\ sent'[r] = Append(sent[r], m) /\ proofPc'[r] = "sent"
      BY <1>1, <2>1 DEF RequestInv, MessagesInv, Proof!TypeOK
    <2>4. sent'[r] \in Seq(Proof!Messages) /\ Len(sent'[r]) = 1 /\ sent'[r][1] = m
      BY <1>2, <2>2, <2>3
    <2>5. Proof!TypeOK'
      BY <1>1, <2>1, <2>4 DEF Proof!TypeOK, Proof!Labels
    <2>6. RequestInv(r)'
      <3>1. MessagesInv(r)' /\ AssertionInv(r)'
        BY <2>1, <2>2, <2>3, <2>4 DEF MessagesInv, AssertionInv
      <3>2. AloneInv(r)'
        BY <1>1, <2>1 DEF AloneInv, Proof!InFlight, Proof!TypeOK
      <3>3. NonceInv(r)'
        BY <2>1, <2>2, <2>3, <2>4 DEF NonceInv, FirstRefused
      <3>4. QED
        BY <3>1, <3>2, <3>3 DEF RequestInv
    <2>7. ASSUME NEW q \in ProofRequests, q # r PROVE RequestInv(q)'
      <3>1. proofPc'[q] = proofPc[q] /\ sent'[q] = sent[q] /\ responses'[q] = responses[q]
        BY <1>1, <2>1, <2>7 DEF Proof!TypeOK
      <3>2. alone'[q] => alone[q] /\ proofPc[q] \in {"idle", "done"}
        BY <2>1, <2>7 DEF Proof!InFlight
      <3>3. QED
        BY <2>1, <2>7, <3>1, <3>2, OtherRequests
    <2>8. QED
      BY <2>5, <2>6, <2>7 DEF ProofInv, RequestInv
  <1>4. ASSUME NEW r \in ProofRequests, NEW label,
               proofPc[r] \notin {"idle", "done"}, proofPc' = [proofPc EXCEPT ![r] = label],
               UNCHANGED <<current, factory, alone, undisturbed>>,
               \A q \in ProofRequests : q # r => sent'[q] = sent[q] /\ responses'[q] = responses[q],
               Proof!TypeOK', MessagesInv(r)', AssertionInv(r)', NonceInv(r)'
        PROVE  ProofInv'
    <2>1. \A q \in ProofRequests : q # r => proofPc'[q] = proofPc[q]
      BY <1>1, <1>4 DEF Proof!TypeOK
    <2>2. AloneInv(r)'
      BY <1>1, <1>4, <2>1 DEF RequestInv, AloneInv
    <2>3. ASSUME NEW q \in ProofRequests, q # r PROVE RequestInv(q)'
      BY <1>4, <2>1, <2>3, OtherRequests, AloneInFlight
    <2>4. QED
      BY <1>4, <2>2, <2>3 DEF ProofInv, RequestInv
  <1>5. ASSUME NEW r \in ProofRequests, Proof!Serve(r) PROVE ProofInv'
    <2>1. PICK a \in Proof!Answers(sent[r][Len(sent[r])]) : responses' = [responses EXCEPT ![r] = Append(responses[r], a)]
      BY <1>5 DEF Proof!Serve
    <2>2. /\ proofPc[r] \in {"sent", "resent"}
          /\ proofPc' = [proofPc EXCEPT ![r] = IF proofPc[r] = "sent" THEN "answered" ELSE "done"]
          /\ UNCHANGED <<current, nonce, factory, sent, alone, undisturbed>>
      BY <1>5 DEF Proof!Serve, Proof!Goto
    <2>3. RequestInv(r) /\ proofPc'[r] = IF proofPc[r] = "sent" THEN "answered" ELSE "done"
      BY <1>1, <2>2 DEF Proof!TypeOK
    <2>4. /\ a \in Proof!Responses
          /\ a.status = "refused" => a.nonce = current /\ current # sent[r][Len(sent[r])].nonce
      <3>1. current \in Proof!Nonces /\ 0 \in Proof!Nonces
        BY <1>1, BoundsAssumption DEF Proof!TypeOK, Proof!Nonces
      <3>2. CASE \E n \in {0, current} : a = [status |-> "error", nonce |-> n]
        BY <3>1, <3>2 DEF Proof!Responses
      <3>3. CASE \E n \in {0, current} : a = [status |-> "ok", nonce |-> n]
        BY <3>1, <3>3 DEF Proof!Responses
      <3>4. CASE /\ a = [status |-> "refused", nonce |-> current]
                 /\ current \notin {0, sent[r][Len(sent[r])].nonce}
        <4>1. a.status = "refused" /\ a.nonce = current
          BY <3>4
        <4>2. a \in Proof!Responses
          BY <3>1, <3>4 DEF Proof!Responses
        <4>3. QED
          BY <3>4, <4>1, <4>2
      <3>5. QED
        BY <2>1, <3>2, <3>3, <3>4 DEF Proof!Answers
    <2>5. responses'[r] \in Seq(Proof!Responses) /\ responses'[r] = Append(responses[r], a)
      BY <1>1, <1>2, <2>1, <2>4 DEF Proof!TypeOK
    <2>6. Proof!TypeOK'
      BY <1>1, <2>1, <2>2, <2>3, <2>5 DEF Proof!TypeOK, Proof!Labels
    <2>7. MessagesInv(r)' /\ AssertionInv(r)'
      BY <1>2, <2>2, <2>3, <2>5 DEF RequestInv, MessagesInv, AssertionInv
    <2>8. NonceInv(r)'
      <3>1. CASE proofPc[r] = "sent"
        BY <1>2, <2>2, <2>3, <2>4, <2>5, <3>1 DEF RequestInv, MessagesInv, NonceInv, FirstRefused
      <3>2. CASE proofPc[r] = "resent"
        BY <1>2, <2>2, <2>3, <2>4, <2>5, <3>2 DEF RequestInv, MessagesInv, NonceInv, FirstRefused
      <3>3. QED
        BY <2>2, <3>1, <3>2
    <2>9. \A q \in ProofRequests : q # r => sent'[q] = sent[q] /\ responses'[q] = responses[q]
      BY <1>1, <2>1, <2>2 DEF Proof!TypeOK
    <2>10. QED
      BY <1>4, <2>2, <2>6, <2>7, <2>8, <2>9
  <1>6. ASSUME NEW r \in ProofRequests, Proof!Compare(r) PROVE ProofInv'
    <2>1. /\ proofPc[r] = "answered"
          /\ proofPc' = [proofPc EXCEPT ![r] = IF Proof!Response(r).nonce # nonce THEN "differs" ELSE "done"]
          /\ UNCHANGED <<current, nonce, factory, sent, responses, alone, undisturbed>>
      BY <1>6 DEF Proof!Compare, Proof!Goto
    <2>2. RequestInv(r) /\ proofPc'[r] = IF Proof!Response(r).nonce # nonce THEN "differs" ELSE "done"
      BY <1>1, <2>1 DEF Proof!TypeOK
    <2>3. Proof!TypeOK'
      BY <1>1, <2>1 DEF Proof!TypeOK, Proof!Labels
    <2>4. MessagesInv(r)' /\ AssertionInv(r)'
      BY <2>1, <2>2 DEF RequestInv, MessagesInv, AssertionInv
    <2>5. NonceInv(r)'
      BY <2>1, <2>2 DEF RequestInv, MessagesInv, NonceInv, FirstRefused, Proof!Response
    <2>6. QED
      BY <1>4, <2>1, <2>3, <2>4, <2>5
  <1>7. ASSUME NEW r \in ProofRequests, Proof!Hold(r) PROVE ProofInv'
    <2>1. /\ proofPc[r] = "differs" /\ nonce' = Proof!Response(r).nonce
          /\ proofPc' = [proofPc EXCEPT ![r] = IF Proof!Response(r).status = "ok" THEN "done" ELSE "retry"]
          /\ UNCHANGED <<current, factory, sent, responses, alone, undisturbed>>
      BY <1>7 DEF Proof!Hold, Proof!Goto
    <2>2. RequestInv(r) /\ proofPc'[r] = IF Proof!Response(r).status = "ok" THEN "done" ELSE "retry"
      BY <1>1, <2>1 DEF Proof!TypeOK
    <2>3. Len(responses[r]) = 1 /\ Proof!Response(r) = responses[r][1] /\ responses[r][1] \in Proof!Responses
      BY <1>2, <2>1, <2>2 DEF RequestInv, MessagesInv, Proof!Response
    <2>4. Proof!TypeOK'
      BY <1>1, <2>1, <2>3 DEF Proof!TypeOK, Proof!Labels, Proof!Responses
    <2>5. MessagesInv(r)' /\ AssertionInv(r)'
      BY <2>1, <2>2 DEF RequestInv, MessagesInv, AssertionInv
    <2>6. NonceInv(r)'
      BY <2>1, <2>2, <2>3 DEF RequestInv, MessagesInv, NonceInv, FirstRefused
    <2>7. QED
      BY <1>4, <2>1, <2>4, <2>5, <2>6
  <1>8. ASSUME NEW r \in ProofRequests, Proof!Retry(r) PROVE ProofInv'
    <2> DEFINE m == [nonce |-> nonce, assertion |-> Proof!Refreshed(r, sent[r][1].assertion)]
    <2>1. /\ proofPc[r] = "retry" /\ proofPc' = [proofPc EXCEPT ![r] = "resent"]
          /\ sent' = [sent EXCEPT ![r] = Append(sent[r], m)]
          /\ UNCHANGED <<current, nonce, factory, responses, alone, undisturbed>>
      BY <1>8 DEF Proof!Retry, Proof!SendWith, Proof!Goto
    <2>2. RequestInv(r) /\ Len(sent[r]) = 1 /\ Len(responses[r]) = 1 /\ sent[r][1] \in Proof!Messages
      BY <1>1, <1>2, <2>1 DEF RequestInv, MessagesInv
    <2>3. m \in Proof!Messages /\ m.nonce = nonce /\ (factory[r] = "fresh" => m.assertion = "second")
      BY <1>1, <2>2 DEF Proof!TypeOK, Proof!Messages, Proof!Refreshed
    <2> HIDE DEF m
    <2>4. sent'[r] = Append(sent[r], m) /\ proofPc'[r] = "resent"
      BY <1>1, <2>1 DEF Proof!TypeOK
    <2>5. sent'[r] \in Seq(Proof!Messages) /\ Len(sent'[r]) = 2 /\ sent'[r][1] = sent[r][1] /\ sent'[r][2] = m
      BY <1>2, <2>2, <2>3, <2>4
    <2>6. Proof!TypeOK'
      BY <1>1, <2>1, <2>5 DEF Proof!TypeOK, Proof!Labels
    <2>7. MessagesInv(r)' /\ AssertionInv(r)'
      BY <2>1, <2>2, <2>3, <2>4, <2>5 DEF RequestInv, MessagesInv, AssertionInv
    <2>8. NonceInv(r)'
      BY <2>1, <2>2, <2>3, <2>4, <2>5 DEF RequestInv, NonceInv, FirstRefused
    <2>9. \A q \in ProofRequests : q # r => sent'[q] = sent[q] /\ responses'[q] = responses[q]
      BY <1>1, <2>1 DEF Proof!TypeOK
    <2>10. QED
      BY <1>4, <2>1, <2>6, <2>7, <2>8, <2>9
  <1>9. CASE Proof!Rotate
    <2>1. /\ current' = current + 1 /\ current' \in Proof!Nonces
          /\ undisturbed' = [r \in ProofRequests |-> undisturbed[r] /\ r \notin Proof!InFlight]
          /\ UNCHANGED <<nonce, proofPc, factory, sent, responses, alone>>
      BY <1>9, <1>1, BoundsAssumption DEF Proof!Rotate, Proof!Nonces
    <2>2. Proof!TypeOK'
      BY <1>1, <2>1 DEF Proof!TypeOK
    <2>3. ASSUME NEW r \in ProofRequests PROVE RequestInv(r)'
      <3>1. RequestInv(r)
        BY <1>1
      <3>2. MessagesInv(r)' /\ AssertionInv(r)' /\ AloneInv(r)'
        BY <2>1, <3>1 DEF RequestInv, MessagesInv, AssertionInv, AloneInv
      <3>3. undisturbed'[r] => undisturbed[r] /\ proofPc[r] \in {"idle", "done"}
        BY <2>1 DEF Proof!InFlight
      <3>4. proofPc[r] = "idle" => ~FirstRefused(r)
        BY <3>1 DEF RequestInv, MessagesInv, FirstRefused
      <3>5. NonceInv(r)'
        BY <2>1, <3>1, <3>3, <3>4 DEF RequestInv, NonceInv, FirstRefused
      <3>6. QED
        BY <3>2, <3>5 DEF RequestInv
    <2>4. QED
      BY <2>2, <2>3 DEF ProofInv, RequestInv
  <1>10. CASE UNCHANGED Proof!vars
    <2>1. UNCHANGED <<current, nonce, proofPc, factory, sent, responses, alone, undisturbed>>
      BY <1>10 DEF Proof!vars
    <2>2. Proof!TypeOK'
      BY <1>1, <2>1 DEF Proof!TypeOK
    <2>3. \A r \in ProofRequests : RequestInv(r)'
      BY <1>1, <2>1 DEF RequestInv, MessagesInv, AssertionInv, AloneInv, NonceInv, FirstRefused
    <2>4. QED
      BY <2>2, <2>3 DEF ProofInv, RequestInv
  <1>11. QED
    BY <1>3, <1>5, <1>6, <1>7, <1>8, <1>9, <1>10 DEF Proof!Next, Proof!Step

LEMMA ProofInvariance == Proof!Spec => []ProofInv
  BY InitProofInv, NextProofInv, PTL DEF Proof!Spec

\* SoleRefusalsAreOvercome for any number of requests and nonces: whatever earlier
\* requests left in _nonce, a request with the handler to itself is sent again
\* with the nonce of its refusal, and accepted if the server has kept it.
THEOREM RefusalsAreOvercomeAlone == Proof!Spec => []SoleRefusalsAreOvercome
  <1>1. ProofInv => SoleRefusalsAreOvercome
    <2> SUFFICES ASSUME ProofInv, NEW r \in ProofRequests,
                        proofPc[r] = "done", alone[r], responses[r][1].status = "refused"
                 PROVE  /\ Len(sent[r]) = 2
                        /\ undisturbed[r] => ~Proof!Refused(r)
                        /\ factory[r] = "fresh" => sent[r][1].assertion # sent[r][2].assertion
      BY DEF SoleRefusalsAreOvercome, Proof!SoleRefusalsAreOvercome
    <2>1. MessagesInv(r) /\ AssertionInv(r) /\ NonceInv(r)
      BY DEF ProofInv, RequestInv
    <2>2. Len(responses[r]) = Len(sent[r]) /\ FirstRefused(r)
      BY <2>1 DEF MessagesInv, FirstRefused
    <2>3. QED
      BY <2>1, <2>2 DEF AssertionInv, NonceInv, Proof!Refused, Proof!Response
  <1>2. QED
    BY <1>1, ProofInvariance, PTL

================================================================================
