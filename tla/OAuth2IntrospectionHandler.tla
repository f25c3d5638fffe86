---------------------- MODULE OAuth2IntrospectionHandler ----------------------
(***************************************************************************)
(* OAuth2IntrospectionHandler: requests that present one reference token   *)
(* share an introspection call through a dictionary of lazy tasks, and its *)
(* outcome through a cache.                                                *)
(*                                                                         *)
(* A call is named by the request that created it; it runs with the        *)
(* context of that request, whichever request evaluates the lazy value.  A *)
(* request whose shared call threw makes a call of its own, outside the    *)
(* dictionary.  Time is counted in ticks; the claims of the token say exp  *)
(* = TokenExpires, or nothing when HasExp is FALSE.                        *)
(***************************************************************************)
EXTENDS Integers, FiniteSets

CONSTANTS
    Requests,       \* requests that present the token
    CacheDuration,  \* OAuth2IntrospectionOptions.CacheDuration
    TokenExpires,   \* when the token expires at the authorization server
    HasExp,         \* does the introspection response contain exp?
    MaxTime,        \* bound of the model: the clock stops here
    None

ASSUME TimeAssumption ==
    CacheDuration \in Nat \ {0} /\ TokenExpires \in Nat /\ HasExp \in BOOLEAN /\ MaxTime \in Nat

CallStates == {"none", "created", "running", "active", "inactive", "error", "faulted"}
Answers == {"active", "inactive", "error"}
States == {"idle", "readCache", "getOrAdd", "value", "await", "retry", "store", "finally", "done"}
Outcomes == {"pending", "success", "inactive", "error", "exception"}
Entries == [active : BOOLEAN, until : Nat]

ASSUME NoneAssumption == None \notin Entries \cup Requests

VARIABLES
    now,        \* the clock
    revoked,    \* has the token been revoked?
    cache,      \* the cache entry of the token
    dictionary, \* IntrospectionDictionary: the call registered for the token
    call,       \* call[r]: the introspection call r created
    pc,         \* pc[r]: where request r is in HandleAuthenticateAsync
    joined,     \* joined[r]: the call r found in the dictionary
    answer,     \* answer[r]: the response r is processing
    aborted,    \* aborted[r]: has r's client disconnected?
    outcome     \* outcome[r]: what HandleAuthenticateAsync returned or threw

requestVars == <<pc, joined, answer, aborted, outcome>>
vars == <<now, revoked, cache, dictionary, call, requestVars>>

TypeOK ==
    /\ now \in 0..MaxTime
    /\ revoked \in BOOLEAN
    /\ cache \in Entries \cup {None}
    /\ dictionary \in Requests \cup {None}
    /\ call \in [Requests -> CallStates]
    /\ pc \in [Requests -> States]
    /\ joined \in [Requests -> Requests \cup {None}]
    /\ answer \in [Requests -> Answers \cup {None}]
    /\ aborted \in [Requests -> BOOLEAN]
    /\ outcome \in [Requests -> Outcomes]

Init ==
    /\ now = 0
    /\ revoked = FALSE
    /\ cache = None
    /\ dictionary = None
    /\ call = [r \in Requests |-> "none"]
    /\ pc = [r \in Requests |-> "idle"]
    /\ joined = [r \in Requests |-> None]
    /\ answer = [r \in Requests |-> None]
    /\ aborted = [r \in Requests |-> FALSE]
    /\ outcome = [r \in Requests |-> "pending"]

-----------------------------------------------------------------------------
Goto(r, label) == pc' = [pc EXCEPT ![r] = label]

\* The outcome is decided; the finally block, if there is one, still runs.
Leave(r, label, how) == Goto(r, label) /\ outcome' = [outcome EXCEPT ![r] = how]

Completed(e) == call[e] \in Answers \cup {"faulted"}

\* TryRemove of a key and value: only the entry of call e is removed.
TryRemove(e) == dictionary' = IF dictionary = e THEN None ELSE dictionary

Tick ==
    /\ now < MaxTime
    /\ now' = now + 1
    /\ UNCHANGED <<revoked, cache, dictionary, call, requestVars>>

Revoke ==
    /\ ~revoked
    /\ revoked' = TRUE
    /\ UNCHANGED <<now, cache, dictionary, call, requestVars>>

\* A client disconnects.  The handler looks at that only where it waits for
\* the call of another request.
Abort(r) ==
    /\ pc[r] = "await" /\ joined[r] # r
    /\ ~aborted[r]
    /\ aborted' = [aborted EXCEPT ![r] = TRUE]
    /\ UNCHANGED <<now, revoked, cache, dictionary, call, pc, joined, answer, outcome>>

HandleAuthenticate(r) ==
    /\ pc[r] = "idle"
    /\ Goto(r, "readCache")
    /\ UNCHANGED <<now, revoked, cache, dictionary, call, joined, answer, aborted, outcome>>

CacheHit == cache # None /\ (cache # None => now < cache.until)

\* GetClaimsAsync: an entry is final, whether the token was active or not.
GetClaims(r) ==
    /\ pc[r] = "readCache"
    /\ IF CacheHit
       THEN Leave(r, "done", IF cache.active THEN "success" ELSE "inactive")
       ELSE Goto(r, "getOrAdd") /\ UNCHANGED outcome
    /\ UNCHANGED <<now, revoked, cache, dictionary, call, joined, answer, aborted>>

GetOrAdd(r) ==
    /\ pc[r] = "getOrAdd"
    /\ IF dictionary = None
       THEN /\ dictionary' = r
            /\ call' = [call EXCEPT ![r] = "created"]
            /\ joined' = [joined EXCEPT ![r] = r]
       ELSE /\ joined' = [joined EXCEPT ![r] = dictionary]
            /\ UNCHANGED <<dictionary, call>>
    /\ Goto(r, "value")
    /\ UNCHANGED <<now, revoked, cache, answer, aborted, outcome>>

\* The first request that reads the lazy value starts the call.
ReadValue(r) ==
    /\ pc[r] = "value"
    /\ call' = [call EXCEPT ![joined[r]] = IF @ = "created" THEN "running" ELSE @]
    /\ Goto(r, "await")
    /\ UNCHANGED <<now, revoked, cache, dictionary, joined, answer, aborted, outcome>>

-----------------------------------------------------------------------------
(* LoadClaimsForToken.                                                     *)

\* The endpoint answers; HTTP and network errors are error responses.
Introspect(e) ==
    /\ call[e] = "running"
    /\ \E a \in {IF ~revoked /\ now < TokenExpires THEN "active" ELSE "inactive", "error"} :
        call' = [call EXCEPT ![e] = a]
    /\ UNCHANGED <<now, revoked, cache, dictionary, requestVars>>

\* The call is cancelled, by the client of the request that created it or by
\* the timeout of the HttpClient, or an event handler throws.
CallThrows(e) ==
    /\ call[e] = "running"
    /\ call' = [call EXCEPT ![e] = "faulted"]
    /\ UNCHANGED <<now, revoked, cache, dictionary, requestVars>>

-----------------------------------------------------------------------------
(* HandleAuthenticateAsync awaits the call.                                *)

Receive(r) ==
    /\ pc[r] = "await"
    /\ call[joined[r]] \in Answers
    /\ answer' = [answer EXCEPT ![r] = call[joined[r]]]
    /\ Goto(r, "store")
    /\ UNCHANGED <<now, revoked, cache, dictionary, call, joined, aborted, outcome>>

\* Mutant: the exception of the shared call goes on to every request.
RethrowAny(r) ==
    /\ pc[r] = "await"
    /\ call[joined[r]] = "faulted"
    /\ Leave(r, "finally", "exception")
    /\ UNCHANGED <<now, revoked, cache, dictionary, call, joined, answer, aborted>>

\* A request with an own call rethrows its exception, as does one whose
\* client is gone.
Rethrow(r) ==
    /\ pc[r] = "await"
    /\ call[joined[r]] = "faulted"
    /\ joined[r] = r \/ aborted[r]
    /\ Leave(r, "finally", "exception")
    /\ UNCHANGED <<now, revoked, cache, dictionary, call, joined, answer, aborted>>

\* The call of another request threw: its entry is evicted, and this request
\* makes a call of its own.
EvictAndRetry(r) ==
    /\ pc[r] = "await"
    /\ call[joined[r]] = "faulted"
    /\ joined[r] # r /\ ~aborted[r]
    /\ TryRemove(joined[r])
    /\ call' = [call EXCEPT ![r] = "running"]
    /\ Goto(r, "retry")
    /\ UNCHANGED <<now, revoked, cache, joined, answer, aborted, outcome>>

\* Mutant: a request that stops waiting takes the entry with it.
StopAndRemove(r) ==
    /\ pc[r] = "await"
    /\ joined[r] # r /\ aborted[r]
    /\ TryRemove(joined[r])
    /\ Leave(r, "finally", "exception")
    /\ UNCHANGED <<now, revoked, cache, call, joined, answer, aborted>>

\* WaitAsync ends with the client of a request that joined.
StopWaiting(r) ==
    /\ pc[r] = "await"
    /\ joined[r] # r /\ aborted[r]
    /\ Leave(r, "finally", "exception")
    /\ UNCHANGED <<now, revoked, cache, dictionary, call, joined, answer, aborted>>

ReceiveRetry(r) ==
    /\ pc[r] = "retry"
    /\ call[r] \in Answers
    /\ answer' = [answer EXCEPT ![r] = call[r]]
    /\ Goto(r, "store")
    /\ UNCHANGED <<now, revoked, cache, dictionary, call, joined, aborted, outcome>>

RetryThrows(r) ==
    /\ pc[r] = "retry"
    /\ call[r] = "faulted"
    /\ Leave(r, "finally", "exception")
    /\ UNCHANGED <<now, revoked, cache, dictionary, call, joined, answer, aborted>>

-----------------------------------------------------------------------------
(* SetClaimsAsync and the end of the request.                              *)

\* The expiration SetClaimsAsync finds in the claims; an inactive token is
\* given one.
Expiration(a) == IF a = "active" /\ HasExp THEN TokenExpires ELSE now + CacheDuration

\* Mutant: the cache duration is used even if the token expires before.
DurationOnly(expiration) == now + CacheDuration

\* The lifetime of the entry ends with the token or after CacheDuration.
AbsoluteLifetime(expiration) ==
    IF expiration <= now + CacheDuration THEN expiration ELSE now + CacheDuration

SetClaims(a) ==
    cache' = IF Expiration(a) <= now THEN cache
             ELSE [active |-> a = "active", until |-> AbsoluteLifetime(Expiration(a))]

StoreClaims(r) ==
    /\ pc[r] = "store"
    /\ answer[r] \in {"active", "inactive"}
    /\ SetClaims(answer[r])
    /\ Leave(r, "finally", IF answer[r] = "active" THEN "success" ELSE "inactive")
    /\ UNCHANGED <<now, revoked, dictionary, call, joined, answer, aborted>>

\* An error response is reported and not cached.
ReportError(r) ==
    /\ pc[r] = "store"
    /\ answer[r] = "error"
    /\ Leave(r, "finally", "error")
    /\ UNCHANGED <<now, revoked, cache, dictionary, call, joined, answer, aborted>>

\* Mutant: only a request that joined cleans up.
FinallyOfJoined(r) ==
    /\ pc[r] = "finally"
    /\ IF joined[r] # r /\ Completed(joined[r]) THEN TryRemove(joined[r]) ELSE UNCHANGED dictionary
    /\ Goto(r, "done")
    /\ UNCHANGED <<now, revoked, cache, call, joined, answer, aborted, outcome>>

\* The finally block: an entry whose call has completed is removed.
Finally(r) ==
    /\ pc[r] = "finally"
    /\ IF Completed(joined[r]) THEN TryRemove(joined[r]) ELSE UNCHANGED dictionary
    /\ Goto(r, "done")
    /\ UNCHANGED <<now, revoked, cache, call, joined, answer, aborted, outcome>>

-----------------------------------------------------------------------------
RequestStep(r) ==
    \/ GetClaims(r) \/ GetOrAdd(r) \/ ReadValue(r) \/ Receive(r) \/ Rethrow(r) \/ EvictAndRetry(r)
    \/ StopWaiting(r) \/ ReceiveRetry(r) \/ RetryThrows(r) \/ StoreClaims(r) \/ ReportError(r)
    \/ Finally(r)

Next ==
    \/ Tick \/ Revoke
    \/ \E r \in Requests :
        HandleAuthenticate(r) \/ Abort(r) \/ Introspect(r) \/ CallThrows(r) \/ RequestStep(r)

Spec == Init /\ [][Next]_vars

-----------------------------------------------------------------------------
(* Properties.                                                             *)

\* The class comments of the catch block: a failed call is the failure of the
\* request that started it.  Any other request throws only because its own
\* call failed or its own client is gone.
FailuresAreNotShared ==
    \A r \in Requests : outcome[r] = "exception" => aborted[r] \/ call[r] = "faulted"

\* A call in the dictionary that has not completed stays there: no request
\* evicts the call of another, so later requests for the token join it.
RunningCallIsNeverEvicted ==
    [][\A e \in Requests : dictionary = e /\ ~Completed(e) => dictionary' = e]_vars

\* Introspections of one token that requests share do not overlap.
OneSharedCall ==
    \A r, q \in Requests :
        joined[r] = r /\ joined[q] = q /\ ~Completed(r) /\ ~Completed(q) => r = q

\* The entry of the dictionary belongs to a request that will remove it.
EntryHasOwner ==
    \A e \in Requests : dictionary = e => pc[e] \in {"value", "await", "store", "finally"}

\* RFC 7662, quoted in the code: a response with exp is not cached beyond it.
\* Whenever the claims were stored, they are not accepted from the cache once
\* the token has expired.
ExpiredClaimsAreNotServed ==
    [][\A r \in Requests : pc[r] = "readCache" /\ outcome'[r] = "success" /\ HasExp
            => now < TokenExpires]_vars

\* Every request ends, also one whose client waits for the call of another.
EveryRequestEnds == \A r \in Requests : pc[r] = "readCache" ~> pc[r] = "done"
===============================================================================
