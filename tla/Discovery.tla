------------------------------- MODULE Discovery -------------------------------
(***************************************************************************)
(* DiscoveryCache over GetDiscoveryDocumentAsync: the task of a lazy        *)
(* response is a request of the discovery document and of its keys, made    *)
(* with the policy of the cache.  Call l of Document is the request of the  *)
(* l-th lazy response.                                                      *)
(***************************************************************************)
EXTENDS Naturals, Sequences, FiniteSets

CONSTANTS
    Callers, CacheDuration, MaxRefreshes, MaxCalls, MaxTime,
    Addresses, Server, Documents, Policies, MaxRotations,
    None

VARIABLES
    now, nextReload, lazies, refreshes, calls, pc, got, asked,
    policy, published, request, address, document, keys, outcome,
    wanted    \* wanted[c]: the version of the keys that c must at least be given

\* Each call makes one at most and so does the error of a response that a call
\* was given.
MaxLazies == 2 * MaxCalls + MaxRefreshes

Cache == INSTANCE DiscoveryCache
Document == INSTANCE DiscoveryDocument WITH Calls <- 1..MaxLazies, pc <- request

cacheVars == <<now, nextReload, lazies, refreshes, calls, pc, got, asked>>
documentVars == <<policy, published, request, address, document, keys, outcome>>
vars == <<cacheVars, documentVars, wanted>>

Init == Cache!Init /\ Document!Init /\ wanted = [c \in Callers \cup {None} |-> 0]

\* The entry of None: the version there was when Refresh was called last.
Refresh ==
    /\ Cache!Refresh
    /\ wanted' = [wanted EXCEPT ![None] = published]
    /\ UNCHANGED documentVars

Get(c) ==
    /\ Cache!Get(c)
    /\ wanted' = [wanted EXCEPT ![c] = wanted[None]]
    /\ UNCHANGED documentVars

Return(c) ==
    /\ Cache!Return(c)
    /\ wanted' = [wanted EXCEPT ![c] = 0]
    /\ UNCHANGED documentVars

\* The other steps of the cache itself.
CacheStep ==
    /\ \/ Cache!Tick
       \/ \E c \in Callers : Cache!TestReload(c) \/ Cache!RefreshDue(c) \/ Cache!ReadValue(c)
       \/ \E l \in DOMAIN lazies : Cache!ResetReload(l)
    /\ UNCHANGED <<documentVars, wanted>>

\* The request of a lazy response is made by its task, once that is running.
RequestStep(l) ==
    /\ lazies[l] = "running"
    /\ Document!CallStep(l)
    /\ UNCHANGED <<cacheVars, wanted>>

\* GetResponseAsync goes on with what the request came to.
Respond(l) ==
    /\ request[l] = "done"
    /\ \/ outcome[l] = "document" /\ Cache!ReceiveDocument(l)
       \/ outcome[l] \in {"error", "violation"} /\ Cache!ReceiveError(l)
       \/ outcome[l] = "exception" /\ Cache!Throw(l)
    /\ UNCHANGED <<documentVars, wanted>>

RotateKeys == Document!RotateKeys /\ UNCHANGED <<cacheVars, wanted>>

Next ==
    \/ Refresh \/ CacheStep \/ RotateKeys
    \/ \E c \in Callers : Get(c) \/ Return(c)
    \/ \E l \in DOMAIN lazies : RequestStep(l) \/ Respond(l)

Spec == Init /\ [][Next]_vars

-----------------------------------------------------------------------------
(* Properties.                                                             *)

\* IDiscoveryCache.Refresh gets the keys of the server anew: a document given
\* to a call that follows Refresh has keys no older than those the server had
\* published by then, although requests from before it may end in between.
RefreshGetsCurrentKeys ==
    \A c \in Callers :
        pc[c] = "await" /\ lazies[got[c]] = "document" /\ keys[got[c]] # None =>
            keys[got[c]] >= wanted[c]
================================================================================
