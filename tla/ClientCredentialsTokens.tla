----------------------- MODULE ClientCredentialsTokens -----------------------
(***************************************************************************)
(* Client credentials tokens: ClientCredentialsTokenManager over a         *)
(* HybridCache, for one cache key of one process.                          *)
(*                                                                         *)
(* HybridCache is external and modelled from its use: GetOrCreateAsync     *)
(* serves an entry that has not expired, groups the callers with the same  *)
(* key and flags behind one run of the factory, writes what the factory    *)
(* returned and gives its exception to the whole group.  A group is named  *)
(* by the call that leads it and by the ForceTokenRenewal its callers      *)
(* share.  The cache itself may fail before or after the factory ran.      *)
(*                                                                         *)
(* Time is counted in ticks.  A token with expires_in 0 never expires; its *)
(* Expiration is DateTimeOffset.MaxValue, here Never.                      *)
(***************************************************************************)
EXTENDS Integers, FiniteSets

CONSTANTS
    Calls,                 \* calls of GetAccessTokenAsync
    Lifetimes,             \* the expires_in values the endpoint may answer
    CacheLifetimeBuffer,   \* ClientCredentialsTokenManagementOptions
    DefaultCacheLifetime,
    UseCacheAutoTuning,
    CacheFaults,           \* can the cache throw?
    Never,                 \* DateTimeOffset.MaxValue in ticks
    MaxTime,               \* bound of the model: the clock stops here
    None

ASSUME CacheAssumption ==
    /\ Lifetimes \subseteq Nat
    /\ CacheLifetimeBuffer \in Nat
    /\ DefaultCacheLifetime \in Nat
    /\ UseCacheAutoTuning \in BOOLEAN
    /\ CacheFaults \in BOOLEAN
    /\ MaxTime \in Nat
    /\ Never \in Nat
    /\ \A l \in Lifetimes : MaxTime + l + CacheLifetimeBuffer < Never

\* The n-th token the endpoint issued, and the Expiration the client computed.
Tokens == [n : Nat, expiration : Nat]
Groups == Calls \X BOOLEAN

ASSUME NoneAssumption == None \notin Tokens \cup Calls

CallStates == {"idle", "start", "lookup", "grouped", "direct", "check", "done"}
GroupStates == {"none", "requested", "answered"}
Outcomes == {"pending", "token", "failure", "exception", "preventCache"}

VARIABLES
    now,        \* the clock
    issued,     \* how many tokens the endpoint has issued
    entry,      \* the cache entry: a token and when the entry expires
    durations,  \* ClientCredentialsCacheDurationStore: the tuned duration
    running,    \* running[k]: the leader of the group that runs with force k
    group,      \* group[g]: progress of the factory of group g
    produced,   \* produced[g]: the number of the token g's factory received
    pc,         \* pc[c]: where call c is
    force,      \* force[c]: parameters.ForceTokenRenewal
    lifetime,   \* lifetime[c]: the cache expiration c computed
    leader,     \* leader[c]: the leader of the group c waits for
    token,      \* token[c]: the token c has
    outcome,    \* outcome[c]: how c ended
    handed,     \* the tokens calls have returned
    known       \* known[c]: what handed was when c started

cacheVars == <<entry, durations, running, group, produced>>
callVars == <<pc, force, lifetime, leader, token, outcome, known>>
vars == <<now, issued, handed, cacheVars, callVars>>

Entries == [token : Tokens, until : Nat]

TypeOK ==
    /\ now \in 0..MaxTime
    /\ issued \in Nat
    /\ entry \in Entries \cup {None}
    /\ durations \in Int \cup {None}
    /\ running \in [BOOLEAN -> Calls \cup {None}]
    /\ group \in [Groups -> GroupStates]
    /\ produced \in [Groups -> Nat]
    /\ pc \in [Calls -> CallStates]
    /\ force \in [Calls -> BOOLEAN]
    /\ lifetime \in [Calls -> Int]
    /\ leader \in [Calls -> Calls \cup {None}]
    /\ token \in [Calls -> Tokens \cup {None}]
    /\ outcome \in [Calls -> Outcomes]
    /\ handed \in SUBSET Nat
    /\ known \in [Calls -> SUBSET Nat]

Init ==
    /\ now = 0
    /\ issued = 0
    /\ entry = None
    /\ durations = None
    /\ running = [k \in BOOLEAN |-> None]
    /\ group = [g \in Groups |-> "none"]
    /\ produced = [g \in Groups |-> 0]
    /\ pc = [c \in Calls |-> "idle"]
    /\ force = [c \in Calls |-> FALSE]
    /\ lifetime = [c \in Calls |-> 0]
    /\ leader = [c \in Calls |-> None]
    /\ token = [c \in Calls |-> None]
    /\ outcome = [c \in Calls |-> "pending"]
    /\ handed = {}
    /\ known = [c \in Calls |-> {}]

-----------------------------------------------------------------------------
(* ClientCredentialsCacheDurationStore and the tests of the manager.       *)

GetExpiration ==
    IF UseCacheAutoTuning /\ durations # None THEN durations ELSE DefaultCacheLifetime

\* SetExpiration: the tuned duration may be zero or negative when the token
\* lives no longer than the buffer.
SetExpiration(expiration) ==
    durations' = IF ~UseCacheAutoTuning \/ expiration = Never THEN durations
                 ELSE expiration - now - CacheLifetimeBuffer

\* The Expiration of a token response.
ExpirationOf(expiresIn) == IF expiresIn = 0 THEN Never ELSE now + expiresIn

\* The token is expired, or will be within the buffer.
IsExpired(t) == t.expiration - CacheLifetimeBuffer <= now

\* The entry HybridCache finds for a call without ForceTokenRenewal.
CacheHit == entry # None /\ (entry # None => now < entry.until)

-----------------------------------------------------------------------------
Tick ==
    /\ now < MaxTime
    /\ now' = now + 1
    /\ UNCHANGED <<issued, handed, cacheVars, callVars>>

Call(c, k) ==
    /\ pc[c] = "idle"
    /\ pc' = [pc EXCEPT ![c] = "start"]
    /\ force' = [force EXCEPT ![c] = k]
    /\ known' = [known EXCEPT ![c] = handed]
    /\ UNCHANGED <<now, issued, handed, cacheVars, lifetime, leader, token, outcome>>

\* The head of GetAccessTokenAsync, also of its recursive call.
ComputeExpiration(c) ==
    /\ pc[c] = "start"
    /\ lifetime' = [lifetime EXCEPT ![c] = GetExpiration]
    /\ pc' = [pc EXCEPT ![c] = "lookup"]
    /\ UNCHANGED <<now, issued, handed, cacheVars, force, leader, token, outcome, known>>

\* Mutant: the flags that disable reading are not set.
ReadDespiteForce(c) ==
    /\ pc[c] = "lookup"
    /\ CacheHit
    /\ token' = [token EXCEPT ![c] = entry.token]
    /\ pc' = [pc EXCEPT ![c] = "check"]
    /\ UNCHANGED <<now, issued, handed, cacheVars, force, lifetime, leader, outcome, known>>

ReadFromCache(c) ==
    /\ pc[c] = "lookup"
    /\ ~force[c]
    /\ CacheHit
    /\ token' = [token EXCEPT ![c] = entry.token]
    /\ pc' = [pc EXCEPT ![c] = "check"]
    /\ UNCHANGED <<now, issued, handed, cacheVars, force, lifetime, leader, outcome, known>>

\* Without a usable entry a call joins the group of its flags or leads one,
\* whose factory sends a token request.
JoinGroup(c) ==
    /\ pc[c] = "lookup"
    /\ force[c] \/ ~CacheHit
    /\ IF running[force[c]] # None
       THEN /\ leader' = [leader EXCEPT ![c] = running[force[c]]]
            /\ UNCHANGED <<running, group>>
       ELSE /\ leader' = [leader EXCEPT ![c] = c]
            /\ running' = [running EXCEPT ![force[c]] = c]
            /\ group' = [group EXCEPT ![<<c, force[c]>>] = "requested"]
    /\ pc' = [pc EXCEPT ![c] = "grouped"]
    /\ UNCHANGED <<now, issued, handed, entry, durations, produced, force, lifetime, token, outcome,
                   known>>

\* The cache throws before it has run the factory: the exception has no tag
\* and the token is requested without the cache.
CacheThrows(c) ==
    /\ CacheFaults
    /\ pc[c] = "lookup"
    /\ pc' = [pc EXCEPT ![c] = "direct"]
    /\ UNCHANGED <<now, issued, handed, cacheVars, force, lifetime, leader, token, outcome, known>>

-----------------------------------------------------------------------------
(* The factory of a group: RequestToken.                                   *)

\* The endpoint issues a token; the response is on its way.
EndpointIssues(g) ==
    /\ group[g] = "requested"
    /\ produced' = [produced EXCEPT ![g] = issued + 1]
    /\ issued' = issued + 1
    /\ group' = [group EXCEPT ![g] = "answered"]
    /\ UNCHANGED <<now, handed, entry, durations, running, callVars>>

Members(g) == {c \in Calls : pc[c] = "grouped" /\ leader[c] = g[1] /\ force[c] = g[2]}

\* GetOrCreateAsync returns to, or throws at, every caller of the group.
EndGroup(g) ==
    /\ group' = [group EXCEPT ![g] = "none"]
    /\ produced' = [produced EXCEPT ![g] = 0]
    /\ running' = [running EXCEPT ![g[2]] = None]

Continue(g, label) == pc' = [c \in Calls |-> IF c \in Members(g) THEN label ELSE pc[c]]

\* The factory returns the token, and the cache writes it with the expiration
\* that was computed before the request.
FactoryReturns(g) ==
    /\ group[g] = "answered"
    /\ EndGroup(g)
    /\ Continue(g, "check")
    /\ \E l \in Lifetimes :
        LET t == [n |-> produced[g], expiration |-> ExpirationOf(l)] IN
        /\ token' = [c \in Calls |-> IF c \in Members(g) THEN t ELSE token[c]]
        /\ SetExpiration(t.expiration)
        /\ entry' = IF lifetime[g[1]] > 0
                    THEN [token |-> t, until |-> now + lifetime[g[1]]]
                    ELSE entry
    /\ UNCHANGED <<now, issued, handed, force, lifetime, leader, outcome, known>>

\* The cache throws when it writes the token: the exception has no tag and
\* the token is requested again, without the cache.
CacheWriteThrows(g) ==
    /\ CacheFaults
    /\ group[g] = "answered"
    /\ EndGroup(g)
    /\ Continue(g, "direct")
    /\ \E l \in Lifetimes : SetExpiration(ExpirationOf(l))
    /\ UNCHANGED <<now, issued, handed, entry, force, lifetime, leader, token, outcome, known>>

\* An error response becomes a PreventCacheException, which is not cached and
\* gives every caller the failed result; any other exception of the request
\* is tagged as thrown inside the factory and goes on to the callers.
FactoryThrows(g) ==
    /\ group[g] \in {"requested", "answered"}
    /\ EndGroup(g)
    /\ Continue(g, "done")
    /\ \E how \in {"failure", "exception"} :
        outcome' = [c \in Calls |-> IF c \in Members(g) THEN how ELSE outcome[c]]
    /\ UNCHANGED <<now, issued, handed, entry, durations, force, lifetime, leader, token, known>>

-----------------------------------------------------------------------------
(* GetAccessTokenAsync after the cache.                                    *)

\* The call ends, and its local state with it.
Finish(c, how) ==
    /\ pc' = [pc EXCEPT ![c] = "done"]
    /\ outcome' = [outcome EXCEPT ![c] = how]
    /\ lifetime' = [lifetime EXCEPT ![c] = 0]
    /\ leader' = [leader EXCEPT ![c] = None]
    /\ token' = [token EXCEPT ![c] = None]
    /\ known' = [known EXCEPT ![c] = {}]

RequestDirectly(c) ==
    /\ pc[c] = "direct"
    /\ \E l \in Lifetimes :
        /\ token' = [token EXCEPT ![c] = [n |-> issued + 1, expiration |-> ExpirationOf(l)]]
        /\ SetExpiration(ExpirationOf(l))
    /\ issued' = issued + 1
    /\ pc' = [pc EXCEPT ![c] = "check"]
    /\ UNCHANGED <<now, handed, entry, running, group, produced, force, lifetime, leader, outcome,
                   known>>

\* The request of the catch block fails: its exceptions, PreventCacheException
\* too, leave GetAccessTokenAsync.
DirectRequestFails(c) ==
    /\ pc[c] = "direct"
    /\ \E how \in {"preventCache", "exception"} : Finish(c, how)
    /\ UNCHANGED <<now, issued, handed, cacheVars, force>>

\* Mutant: the token of the cache is not checked.
ReturnUnchecked(c) ==
    /\ pc[c] = "check"
    /\ Finish(c, "token")
    /\ handed' = handed \cup {token[c].n}
    /\ UNCHANGED <<now, issued, cacheVars, force>>

ReturnToken(c) ==
    /\ pc[c] = "check"
    /\ force[c] \/ ~IsExpired(token[c])
    /\ Finish(c, "token")
    /\ handed' = handed \cup {token[c].n}
    /\ UNCHANGED <<now, issued, cacheVars, force>>

\* Mutant: the retry does not force a renewal.
RetryWithoutForce(c) ==
    /\ pc[c] = "check"
    /\ ~force[c]
    /\ IsExpired(token[c])
    /\ pc' = [pc EXCEPT ![c] = "start"]
    /\ UNCHANGED <<now, issued, handed, cacheVars, force, lifetime, leader, token, outcome, known>>

\* Retry the request, but force a renewal.
RetryWithForce(c) ==
    /\ pc[c] = "check"
    /\ ~force[c]
    /\ IsExpired(token[c])
    /\ force' = [force EXCEPT ![c] = TRUE]
    /\ pc' = [pc EXCEPT ![c] = "start"]
    /\ UNCHANGED <<now, issued, handed, cacheVars, lifetime, leader, token, outcome, known>>

\* DeleteAccessTokenAsync.
DeleteAccessToken ==
    /\ entry # None
    /\ entry' = None
    /\ UNCHANGED <<now, issued, handed, durations, running, group, produced, callVars>>

-----------------------------------------------------------------------------
CallStep(c) ==
    \/ ComputeExpiration(c) \/ ReadFromCache(c) \/ JoinGroup(c)
    \/ RequestDirectly(c) \/ ReturnToken(c) \/ RetryWithForce(c)

GroupStep(g) == EndpointIssues(g) \/ FactoryReturns(g)

Next ==
    \/ Tick
    \/ DeleteAccessToken
    \/ \E c \in Calls : (\E k \in BOOLEAN : Call(c, k)) \/ CallStep(c) \/ CacheThrows(c)
                        \/ DirectRequestFails(c)
    \/ \E g \in Groups : GroupStep(g) \/ CacheWriteThrows(g) \/ FactoryThrows(g)

Spec == Init /\ [][Next]_vars

\* A started call goes on and a sent request is answered; time, deletions,
\* errors and new calls need not happen.
Fairness ==
    /\ \A c \in Calls : WF_vars(CallStep(c))
    /\ \A g \in Groups : WF_vars(GroupStep(g))

FairSpec == Spec /\ Fairness

-----------------------------------------------------------------------------
(* Properties.                                                             *)

Returns(c) == pc[c] = "check" /\ pc'[c] = "done"

\* What a call returns is a token that is not expired at that moment, or one
\* that no call had been given before it started: an expired entry of the
\* cache is never handed out.
ReturnsUsableToken ==
    [][\A c \in Calls : Returns(c) => ~IsExpired(token[c]) \/ token[c].n \notin known[c]]_vars

\* A renewal that was forced, as after a 401, returns a token that no caller
\* had been given when it was asked for, although forced calls share groups.
ForcedRenewalIsNew ==
    [][\A c \in Calls : Returns(c) /\ force[c] => token[c].n \notin known[c]]_vars

\* A call returns within one forced retry, however short-lived the tokens of
\* the endpoint are.
EveryCallReturns == \A c \in Calls : pc[c] = "start" ~> pc[c] = "done"

\* IClientCredentialsTokenManager: the result contains either a token or
\* protocol failure details.  An exception the manager invented to keep
\* failures out of the cache is neither.
ReturnsTokenOrFailure == \A c \in Calls : outcome[c] # "preventCache"
=============================================================================
