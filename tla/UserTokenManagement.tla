------------------------- MODULE UserTokenManagement -------------------------
(***************************************************************************)
(* User access tokens of a web application: UserAccessAccessTokenManager   *)
(* asks the session store for the current tokens, decides whether they     *)
(* must be refreshed and, if so, runs the refresh under                    *)
(* UserTokenRequestConcurrencyControl, whose dictionary of lazy tasks      *)
(* groups the calls that carry the same refresh token and parameters.      *)
(*                                                                         *)
(* A call is one GetAccessTokenAsync inside an HTTP request; a flight is   *)
(* one Lazy<Task> of the dictionary.  A call adds at most one flight, so   *)
(* the flight a call creates carries that call's name: flight[c] is the    *)
(* state of the flight whose closure captured c's refresh token and        *)
(* parameters.  The call that first reads Lazy.Value is the flight's       *)
(* starter: the closure then runs in the starter's HttpContext, which      *)
(* IHttpContextAccessor finds through the async flow, whoever created it.  *)
(*                                                                         *)
(* A user has one browser and so one session cookie.  A request works on   *)
(* the ticket of the cookie it came with: the cookie handler authenticates *)
(* once per request, and AuthenticateResultCache keeps the result of a     *)
(* sign-in, so every call of one request sees one Properties object.       *)
(***************************************************************************)
EXTENDS Integers, FiniteSets

CONSTANTS
    Users,          \* people, one browser each
    Requests,       \* HTTP requests
    Calls,          \* calls of GetAccessTokenAsync
    Params,         \* what can differ between token requests: resource, scope, ...
    UserOf,         \* the user whose browser sends a request
    RequestOf,      \* the request a call is made in
    OneTimeOnly,    \* does the token endpoint rotate refresh tokens at every use?
    Faults,         \* can calls be cancelled and exchanges be lost?
    None            \* the absence of a value (null)

ASSUME UserOfAssumption == UserOf \in [Requests -> Users]
ASSUME RequestOfAssumption == RequestOf \in [Calls -> Requests]
ASSUME FlagsAssumption == OneTimeOnly \in BOOLEAN /\ Faults \in BOOLEAN

\* A refresh token; gen says which issue of the user's tokens it came with.
RefreshTokens == [user : Users, gen : Nat]

\* An access token, the n-th the token endpoint issued to the user.
Tokens == [user : Users, params : Params, n : Nat]

\* The tokens in the authentication properties of a session.
Sessions == [rt : RefreshTokens \cup {None}, at : [Params -> Tokens \cup {None}]]

ASSUME NoneAssumption ==
    /\ None \notin Users \cup Calls \cup RefreshTokens \cup Tokens \cup Sessions

Modes == {"normal", "force", "revoke"}
CallStates == {"idle", "reading", "execute", "value", "waiting", "revoking", "done"}
WritingStates == {"locked", "tokenSet", "refreshSet"}
FlightStates == {"none", "created", "sent", "granted", "done"} \cup WritingStates
Outcomes == {"pending", "token", "failure", "exception", "completed"}

VARIABLES
    cookie,      \* cookie[u]: the session cookie in u's browser
    phase,       \* phase[r]: is request r new, open or ended?
    properties,  \* properties[r]: AuthenticationProperties of r's ticket
    signedIn,    \* signedIn[r]: the cookie r's response will set
    lock,        \* lock[r]: the flight that holds AuthenticateResultCache.Lock
    pc,          \* pc[c]: where call c is
    params,      \* params[c]: the UserTokenRequestParameters of c
    mode,        \* mode[c]: plain get, ForceTokenRenewal, or a revocation
    rt,          \* rt[c]: the refresh token c read from the store
    joined,      \* joined[c]: the flight GetOrAdd gave to c
    result,      \* result[c]: the token c returned
    outcome,     \* outcome[c]: how call c ended
    dictionary,  \* the flights that have an entry in the dictionary
    flight,      \* flight[f]: progress of flight f
    starter,     \* starter[f]: the call that first read f's Lazy.Value
    granted,     \* granted[f]: the token f received from the endpoint
    ending,      \* ending[f]: how the task of flight f ended
    revoked,     \* revoked[u]: has the endpoint revoked u's refresh token?
    issued,      \* issued[u]: how many tokens the endpoint issued to u
    horizon      \* tokens of u issued before horizon[u] are due for refresh

sessionVars == <<cookie, phase, properties, signedIn, lock>>
callVars == <<pc, params, mode, rt, joined, result, outcome>>
flightVars == <<dictionary, flight, starter, granted, ending>>
serverVars == <<issued, revoked, horizon>>
vars == <<sessionVars, callVars, flightVars, serverVars>>

TypeOK ==
    /\ cookie \in [Users -> Sessions \cup {None}]
    /\ phase \in [Requests -> {"new", "open", "ended"}]
    /\ properties \in [Requests -> Sessions \cup {None}]
    /\ signedIn \in [Requests -> Sessions \cup {None}]
    /\ lock \in [Requests -> Calls \cup {None}]
    /\ pc \in [Calls -> CallStates]
    /\ params \in [Calls -> Params \cup {None}]
    /\ mode \in [Calls -> Modes]
    /\ rt \in [Calls -> RefreshTokens \cup {None}]
    /\ joined \in [Calls -> Calls \cup {None}]
    /\ result \in [Calls -> Tokens \cup {None}]
    /\ outcome \in [Calls -> Outcomes]
    /\ dictionary \subseteq Calls
    /\ flight \in [Calls -> FlightStates]
    /\ starter \in [Calls -> Calls \cup {None}]
    /\ granted \in [Calls -> Tokens \cup {None}]
    /\ ending \in [Calls -> Outcomes]
    /\ issued \in [Users -> Nat]
    /\ revoked \in [Users -> BOOLEAN]
    /\ horizon \in [Users -> Nat]

-----------------------------------------------------------------------------
UserOfCall(c) == UserOf[RequestOf[c]]

\* The request whose HttpContext a flight runs in.
ContextOf(f) == RequestOf[starter[f]]

\* The session a login has left: a user who logged in without offline_access
\* has no refresh token, and tokens are there for some of the parameters.
LoginSessions(u) ==
    {[rt |-> r, at |-> [p \in Params |-> IF p \in S THEN [user |-> u, params |-> p, n |-> 0]
                                         ELSE None]] :
        r \in {None, [user |-> u, gen |-> 0]}, S \in SUBSET Params}

\* The name under which concurrent refreshes are grouped.
BuildRequestKey(c) == <<rt[c], params[c]>>

\* The access token is expired, or will be within RefreshBeforeExpiration.
IsDue(t) == t.n < horizon[t.user]

\* Mutant: a rotated refresh token is ignored.
KeepSentRefreshToken(f) == rt[f]

\* The refresh token of a token response: the one in the response, or the
\* one that was sent when the endpoint does not rotate.
ResponseRefreshToken(f) ==
    IF OneTimeOnly THEN [user |-> rt[f].user, gen |-> granted[f].n] ELSE rt[f]

Init ==
    /\ cookie \in [Users -> (UNION {LoginSessions(u) : u \in Users}) \cup {None}]
    /\ \A u \in Users : cookie[u] \in LoginSessions(u) \cup {None}
    /\ phase = [r \in Requests |-> "new"]
    /\ properties = [r \in Requests |-> None]
    /\ signedIn = [r \in Requests |-> None]
    /\ lock = [r \in Requests |-> None]
    /\ pc = [c \in Calls |-> "idle"]
    /\ params = [c \in Calls |-> None]
    /\ mode = [c \in Calls |-> "normal"]
    /\ rt = [c \in Calls |-> None]
    /\ joined = [c \in Calls |-> None]
    /\ result = [c \in Calls |-> None]
    /\ outcome = [c \in Calls |-> "pending"]
    /\ dictionary = {}
    /\ flight = [f \in Calls |-> "none"]
    /\ starter = [f \in Calls |-> None]
    /\ granted = [f \in Calls |-> None]
    /\ ending = [f \in Calls |-> "pending"]
    /\ issued = [u \in Users |-> 0]
    /\ revoked = [u \in Users |-> FALSE]
    /\ horizon = [u \in Users |-> 0]
-----------------------------------------------------------------------------
(* Requests of the browser.                                                *)

BeginRequest(r) ==
    /\ phase[r] = "new"
    /\ phase' = [phase EXCEPT ![r] = "open"]
    /\ properties' = [properties EXCEPT ![r] = cookie[UserOf[r]]]
    /\ UNCHANGED <<cookie, signedIn, lock, callVars, flightVars, serverVars>>

\* The response leaves when the calls of the request have returned; the
\* browser takes over the cookie of a response that signed in.
EndRequest(r) ==
    /\ phase[r] = "open"
    /\ \A c \in Calls : RequestOf[c] = r => pc[c] \in {"idle", "done"}
    /\ phase' = [phase EXCEPT ![r] = "ended"]
    /\ cookie' = IF signedIn[r] = None THEN cookie
                 ELSE [cookie EXCEPT ![UserOf[r]] = signedIn[r]]
    /\ UNCHANGED <<properties, signedIn, lock, callVars, flightVars, serverVars>>

\* Time passes until every token the user has is due for a refresh.
TokensBecomeDue(u) ==
    /\ horizon[u] <= issued[u]
    /\ horizon' = [horizon EXCEPT ![u] = issued[u] + 1]
    /\ UNCHANGED <<sessionVars, callVars, flightVars, issued, revoked>>

-----------------------------------------------------------------------------
(* GetAccessTokenAsync and RevokeRefreshTokenAsync up to the refresh.      *)

StartCall(c, p, m) ==
    /\ pc[c] = "idle"
    /\ phase[RequestOf[c]] = "open"
    /\ pc' = [pc EXCEPT ![c] = "reading"]
    /\ params' = [params EXCEPT ![c] = p]
    /\ mode' = [mode EXCEPT ![c] = m]
    /\ UNCHANGED <<sessionVars, rt, joined, result, outcome, flightVars, serverVars>>

Return(c, how, t) ==
    /\ pc' = [pc EXCEPT ![c] = "done"]
    /\ outcome' = [outcome EXCEPT ![c] = how]
    /\ result' = [result EXCEPT ![c] = t]

\* GetTokenAsync of the store reads only while no flight holds the lock.
MayRead(c) == pc[c] = "reading" /\ lock[RequestOf[c]] = None

\* What the store finds for the parameters of call c.
HasSession(c) == properties[RequestOf[c]] # None
StoredToken(c) == properties[RequestOf[c]].at[params[c]]
StoredRefreshToken(c) == properties[RequestOf[c]].rt

NoTokenFound(c) ==
    /\ MayRead(c)
    /\ mode[c] # "revoke"
    /\ HasSession(c) => StoredRefreshToken(c) = None /\ StoredToken(c) = None
    /\ Return(c, "failure", None)
    /\ UNCHANGED <<sessionVars, params, mode, rt, joined, flightVars, serverVars>>

\* Without a refresh token the stored token is returned as it is, even when
\* it is expired or its renewal was asked for.
ShouldRefresh(c) ==
    /\ StoredRefreshToken(c) # None
    /\ mode[c] # "force" /\ StoredToken(c) # None => IsDue(StoredToken(c))

ReturnStoredToken(c) ==
    /\ MayRead(c)
    /\ mode[c] # "revoke"
    /\ HasSession(c)
    /\ StoredToken(c) # None
    /\ ~ShouldRefresh(c)
    /\ Return(c, "token", StoredToken(c))
    /\ UNCHANGED <<sessionVars, params, mode, rt, joined, flightVars, serverVars>>

DecideToRefresh(c) ==
    /\ MayRead(c)
    /\ mode[c] # "revoke"
    /\ HasSession(c)
    /\ ShouldRefresh(c)
    /\ rt' = [rt EXCEPT ![c] = StoredRefreshToken(c)]
    /\ pc' = [pc EXCEPT ![c] = "execute"]
    /\ UNCHANGED <<sessionVars, params, mode, joined, result, outcome, flightVars, serverVars>>

\* The caller's own cancellation token ends its wait for the lock.
ReadCancelled(c) ==
    /\ Faults
    /\ pc[c] = "reading"
    /\ lock[RequestOf[c]] # None
    /\ Return(c, "exception", None)
    /\ UNCHANGED <<sessionVars, params, mode, rt, joined, flightVars, serverVars>>

NothingToRevoke(c) ==
    /\ MayRead(c)
    /\ mode[c] = "revoke"
    /\ HasSession(c) => StoredRefreshToken(c) = None
    /\ Return(c, "completed", None)
    /\ UNCHANGED <<sessionVars, params, mode, rt, joined, flightVars, serverVars>>

DecideToRevoke(c) ==
    /\ MayRead(c)
    /\ mode[c] = "revoke"
    /\ HasSession(c)
    /\ StoredRefreshToken(c) # None
    /\ rt' = [rt EXCEPT ![c] = StoredRefreshToken(c)]
    /\ pc' = [pc EXCEPT ![c] = "revoking"]
    /\ UNCHANGED <<sessionVars, params, mode, joined, result, outcome, flightVars, serverVars>>

\* Does the token endpoint still accept this refresh token?
Accepts(t) == ~revoked[t.user] /\ (OneTimeOnly => t.gen = issued[t.user])

\* The endpoint revokes the token, or an error of it is only logged.
\* ClearTokenAsync of the session store does nothing: the session keeps the
\* tokens.
RevokeRefreshToken(c) ==
    /\ pc[c] = "revoking"
    /\ \/ revoked' = [revoked EXCEPT ![rt[c].user] = @ \/ Accepts(rt[c])]
       \/ Faults /\ UNCHANGED revoked
    /\ Return(c, "completed", None)
    /\ UNCHANGED <<sessionVars, params, mode, rt, joined, flightVars, issued, horizon>>

-----------------------------------------------------------------------------
(* ExecuteWithConcurrencyControlAsync.                                     *)

\* Dictionary.GetOrAdd: the flight of the entry with this key, or a new one.
GetOrAdd(c) ==
    /\ pc[c] = "execute"
    /\ pc' = [pc EXCEPT ![c] = "value"]
    /\ \/ \E f \in dictionary :
            /\ BuildRequestKey(f) = BuildRequestKey(c)
            /\ joined' = [joined EXCEPT ![c] = f]
            /\ UNCHANGED <<dictionary, flight>>
       \/ /\ \A f \in dictionary : BuildRequestKey(f) # BuildRequestKey(c)
          /\ joined' = [joined EXCEPT ![c] = c]
          /\ dictionary' = dictionary \cup {c}
          /\ flight' = [flight EXCEPT ![c] = "created"]
    /\ UNCHANGED <<sessionVars, params, mode, rt, result, outcome, starter, granted, ending,
                   serverVars>>

\* request.Value: the first reader runs the closure up to its request to the
\* token endpoint, the others get the task that is running or has ended.
ReadValue(c) ==
    LET f == joined[c] IN
    /\ pc[c] = "value"
    /\ pc' = [pc EXCEPT ![c] = "waiting"]
    /\ IF flight[f] = "created"
       THEN /\ flight' = [flight EXCEPT ![f] = "sent"]
            /\ starter' = [starter EXCEPT ![f] = c]
       ELSE UNCHANGED <<flight, starter>>
    /\ UNCHANGED <<sessionVars, params, mode, rt, joined, result, outcome, dictionary, granted,
                   ending, serverVars>>

\* Mutant: a caller that stops waiting removes the entry of a running flight.
StopWaiting(c) ==
    LET f == joined[c] IN
    /\ pc[c] = "waiting"
    /\ dictionary' = dictionary \ {f}
    /\ Return(c, ending[f], IF ending[f] = "token" THEN granted[f] ELSE None)
    /\ UNCHANGED <<sessionVars, params, mode, rt, joined, flight, starter, granted, ending,
                   serverVars>>

\* Mutant: the entry is removed on success only.
RemoveSuccessOnly(c) ==
    LET f == joined[c] IN
    /\ pc[c] = "waiting"
    /\ flight[f] = "done"
    /\ dictionary' = IF ending[f] = "token" THEN dictionary \ {f} ELSE dictionary
    /\ Return(c, ending[f], IF ending[f] = "token" THEN granted[f] ELSE None)
    /\ UNCHANGED <<sessionVars, params, mode, rt, joined, flight, starter, granted, ending,
                   serverVars>>

\* Mutant: every waiter signs its own request in again.
ReissueOwnCookie(c) ==
    LET f == joined[c]
        r == RequestOf[c] IN
    /\ pc[c] = "waiting"
    /\ flight[f] = "done"
    /\ dictionary' = dictionary \ {f}
    /\ signedIn' = [signedIn EXCEPT ![r] = properties[r]]
    /\ Return(c, ending[f], IF ending[f] = "token" THEN granted[f] ELSE None)
    /\ UNCHANGED <<cookie, phase, properties, lock, params, mode, rt, joined, flight, starter,
                   granted, ending, serverVars>>

\* await request.Value has returned or thrown; the finally block removes the
\* entry of the very flight that was awaited.
ReturnFlightResult(c) ==
    LET f == joined[c] IN
    /\ pc[c] = "waiting"
    /\ flight[f] = "done"
    /\ dictionary' = dictionary \ {f}
    /\ Return(c, ending[f], IF ending[f] = "token" THEN granted[f] ELSE None)
    /\ UNCHANGED <<sessionVars, params, mode, rt, joined, flight, starter, granted, ending,
                   serverVars>>

-----------------------------------------------------------------------------
(* The closure: RefreshAccessTokenAsync, then StoreTokenAsync.             *)

EndFlight(f, how) ==
    /\ flight' = [flight EXCEPT ![f] = "done"]
    /\ ending' = [ending EXCEPT ![f] = how]

\* Mutant: the closure returns without storing the token.
ReturnWithoutStoring(f) ==
    LET u == rt[f].user IN
    /\ flight[f] = "sent"
    /\ Accepts(rt[f])
    /\ issued' = [issued EXCEPT ![u] = @ + 1]
    /\ granted' = [granted EXCEPT ![f] = [user |-> u, params |-> params[f], n |-> issued[u] + 1]]
    /\ EndFlight(f, "token")
    /\ UNCHANGED <<sessionVars, callVars, dictionary, starter, revoked, horizon>>

EndpointGrants(f) ==
    LET u == rt[f].user IN
    /\ flight[f] = "sent"
    /\ Accepts(rt[f])
    /\ issued' = [issued EXCEPT ![u] = @ + 1]
    /\ granted' = [granted EXCEPT ![f] = [user |-> u, params |-> params[f], n |-> issued[u] + 1]]
    /\ flight' = [flight EXCEPT ![f] = "granted"]
    /\ UNCHANGED <<sessionVars, callVars, dictionary, starter, ending, revoked, horizon>>

EndpointRefuses(f) ==
    /\ flight[f] = "sent"
    /\ ~Accepts(rt[f])
    /\ EndFlight(f, "failure")
    /\ UNCHANGED <<sessionVars, callVars, dictionary, starter, granted, serverVars>>

\* The exchange fails, before or after the endpoint granted a token: an error
\* answer or a broken connection makes a failed result; a cancellation of the
\* creator, also while the flight waits for the lock, or a response that
\* cannot be parsed is an exception.
ExchangeFails(f) ==
    /\ Faults
    /\ flight[f] \in {"sent", "granted"}
    /\ \E how \in {"failure", "exception"} : EndFlight(f, how)
    /\ UNCHANGED <<sessionVars, callVars, dictionary, starter, granted, serverVars>>

\* Mutant: the store does not wait for the lock.
StoreWithoutLock(f) ==
    /\ flight[f] = "granted"
    /\ lock' = [lock EXCEPT ![ContextOf(f)] = f]
    /\ flight' = [flight EXCEPT ![f] = "locked"]
    /\ UNCHANGED <<cookie, phase, properties, signedIn, callVars, dictionary, starter, granted,
                   ending, serverVars>>

AcquireLock(f) ==
    /\ flight[f] = "granted"
    /\ lock[ContextOf(f)] = None
    /\ lock' = [lock EXCEPT ![ContextOf(f)] = f]
    /\ flight' = [flight EXCEPT ![f] = "locked"]
    /\ UNCHANGED <<cookie, phase, properties, signedIn, callVars, dictionary, starter, granted,
                   ending, serverVars>>

\* SetUserTokenAsync writes the access token first and the refresh token last.
SetAccessToken(f) ==
    /\ flight[f] = "locked"
    /\ properties' = [properties EXCEPT ![ContextOf(f)].at[params[f]] = granted[f]]
    /\ flight' = [flight EXCEPT ![f] = "tokenSet"]
    /\ UNCHANGED <<cookie, phase, signedIn, lock, callVars, dictionary, starter, granted, ending,
                   serverVars>>

SetRefreshToken(f) ==
    /\ flight[f] = "tokenSet"
    /\ properties' = [properties EXCEPT ![ContextOf(f)].rt = ResponseRefreshToken(f)]
    /\ flight' = [flight EXCEPT ![f] = "refreshSet"]
    /\ UNCHANGED <<cookie, phase, signedIn, lock, callVars, dictionary, starter, granted, ending,
                   serverVars>>

\* Mutant: the properties are updated but the cookie is not issued again.
UpdateWithoutSignIn(f) ==
    /\ flight[f] = "refreshSet"
    /\ lock' = [lock EXCEPT ![ContextOf(f)] = None]
    /\ EndFlight(f, "token")
    /\ UNCHANGED <<cookie, phase, properties, signedIn, callVars, dictionary, starter, granted,
                   serverVars>>

\* SignInAsync serialises the properties into the cookie of the response;
\* the lock is released and the closure returns the token.
SignIn(f) ==
    /\ flight[f] = "refreshSet"
    /\ signedIn' = [signedIn EXCEPT ![ContextOf(f)] = properties[ContextOf(f)]]
    /\ lock' = [lock EXCEPT ![ContextOf(f)] = None]
    /\ EndFlight(f, "token")
    /\ UNCHANGED <<cookie, phase, properties, callVars, dictionary, starter, granted, serverVars>>

\* Mutant: an exception leaves the lock taken.
KeepLockOnException(f) ==
    /\ Faults
    /\ flight[f] \in {"locked", "refreshSet"}
    /\ EndFlight(f, "exception")
    /\ UNCHANGED <<sessionVars, callVars, dictionary, starter, granted, serverVars>>

\* The principal transformer or the sign-in throws; the lock is released.
StoreThrows(f) ==
    /\ Faults
    /\ flight[f] \in {"locked", "refreshSet"}
    /\ lock' = [lock EXCEPT ![ContextOf(f)] = None]
    /\ EndFlight(f, "exception")
    /\ UNCHANGED <<cookie, phase, properties, signedIn, callVars, dictionary, starter, granted,
                   serverVars>>

-----------------------------------------------------------------------------
CallStep(c) ==
    \/ NoTokenFound(c) \/ ReturnStoredToken(c) \/ DecideToRefresh(c)
    \/ NothingToRevoke(c) \/ DecideToRevoke(c) \/ RevokeRefreshToken(c)
    \/ GetOrAdd(c) \/ ReadValue(c) \/ ReturnFlightResult(c)

FlightStep(f) ==
    \/ EndpointGrants(f) \/ EndpointRefuses(f) \/ AcquireLock(f)
    \/ SetAccessToken(f) \/ SetRefreshToken(f) \/ SignIn(f)

Fault(c) == ReadCancelled(c) \/ ExchangeFails(c) \/ StoreThrows(c)

Next ==
    \/ \E r \in Requests : BeginRequest(r) \/ EndRequest(r)
    \/ \E u \in Users : TokensBecomeDue(u)
    \/ \E c \in Calls :
        \/ \E p \in Params, m \in Modes : StartCall(c, p, m)
        \/ CallStep(c)
        \/ FlightStep(c)
        \/ Fault(c)

Spec == Init /\ [][Next]_vars

\* The tasks of the thread pool run and the endpoint answers; SemaphoreSlim
\* gives the lock to its waiters in turn.  No fault has to happen, and nothing makes a browser send
\* requests, a request end, a call start or a token fall due.
Fairness ==
    \A c \in Calls :
        /\ WF_vars(CallStep(c))
        /\ WF_vars(FlightStep(c))
        /\ SF_vars(AcquireLock(c))
        /\ SF_vars(NoTokenFound(c) \/ ReturnStoredToken(c) \/ DecideToRefresh(c)
                   \/ NothingToRevoke(c) \/ DecideToRevoke(c))

FairSpec == Spec /\ Fairness
-----------------------------------------------------------------------------
(* Properties.                                                             *)

Running(f) == flight[f] \notin {"none", "done"}

\* UserTokenRequestConcurrencyControl runs at most one refresh at a time for
\* the same refresh token and parameters, however calls, removals of entries
\* and new entries interleave.
SingleFlight ==
    \A f, g \in Calls :
        Running(f) /\ Running(g) /\ BuildRequestKey(f) = BuildRequestKey(g) => f = g

\* An entry stays in the dictionary only as long as a caller awaits it and
\* will remove it: neither a success nor a failure is remembered for later
\* calls, and the singleton dictionary does not grow.
EntryIsAwaited ==
    \A f \in dictionary : \E c \in Calls : joined[c] = f /\ pc[c] \in {"value", "waiting"}

\* The lock of a request's AuthenticateResultCache is held exactly by the one
\* flight that reads, updates and signs in the session of the request.
LockGuardsSession ==
    \A f \in Calls : flight[f] \in WritingStates <=>
        \E r \in Requests : lock[r] = f /\ starter[f] # None /\ r = ContextOf(f)

\* With rotation, the refresh token of a session is at least as new as its
\* access tokens.
UpToDate(s) ==
    s # None /\ s.rt # None => \A p \in Params : s.at[p] # None => s.at[p].n <= s.rt.gen

\* No one sees a half-updated session: what is read once the lock is free,
\* what is signed in and what the browser holds goes together.
SessionIsNeverTorn ==
    OneTimeOnly =>
        /\ \A u \in Users : UpToDate(cookie[u])
        /\ \A r \in Requests :
            UpToDate(signedIn[r]) /\ (lock[r] = None => UpToDate(properties[r]))

\* A call hands out a refreshed token only after the session of the request
\* that ran the refresh has been signed in with it, or with a newer one, and
\* that session is one of the user and for the parameters the call is about.
ReturnedTokenIsStored ==
    \A c \in Calls : outcome[c] = "token" /\ joined[c] # None =>
        LET s == signedIn[ContextOf(joined[c])] IN
        /\ s # None /\ s.at[params[c]] # None /\ s.at[params[c]].n >= result[c].n
        /\ result[c].user = UserOfCall(c) /\ result[c].params = params[c]

HoldsNewest(s, u) == s # None /\ s.rt = [user |-> u, gen |-> issued[u]]

\* Unless a response was lost or its tokens could not be stored, the only
\* refresh token of a user that still works is kept: a running flight has just
\* received it, or a response will set it, or the browser has it.
NewestRefreshTokenIsKept ==
    OneTimeOnly => \A u \in Users : issued[u] > 0 =>
        \/ HoldsNewest(cookie[u], u)
        \/ \E r \in Requests : phase[r] = "open" /\ HoldsNewest(signedIn[r], u)
        \/ \E f \in Calls :
              /\ granted[f] # None /\ granted[f].user = u /\ granted[f].n = issued[u]
              /\ Running(f) \/ ending[f] # "token"

\* The generation of the refresh token in the browser's cookie.
CookieGeneration ==
    [u \in Users |-> IF cookie[u] = None THEN 0
                     ELSE IF cookie[u].rt = None THEN 0 ELSE cookie[u].rt.gen]

Rotation == INSTANCE RefreshTokenRotation WITH current <- issued, held <- CookieGeneration

\* Responses of concurrent requests never put a refresh token back into the
\* browser that was already replaced, nor one that was not issued.
ImplementsRotation == Rotation!Spec

\* Every call returns or throws: no lost waiter on a flight or on the lock.
EveryCallEnds == \A c \in Calls : pc[c] = "reading" ~> pc[c] = "done"
=============================================================================
