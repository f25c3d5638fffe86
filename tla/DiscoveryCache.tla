----------------------------- MODULE DiscoveryCache -----------------------------
(***************************************************************************)
(* IdentityModel's DiscoveryCache: GetAsync from several threads, Refresh,  *)
(* and the responses of the discovery endpoint, none of them synchronized.  *)
(*                                                                          *)
(* Every lazy response that was ever assigned to _lazyResponse is a member  *)
(* of lazies; the field holds the last one.  Time is counted in ticks and   *)
(* DateTime.MinValue is 0.                                                  *)
(***************************************************************************)
EXTENDS Naturals, Sequences, FiniteSets

CONSTANTS
    Callers,         \* threads that call GetAsync
    CacheDuration,
    MaxRefreshes,    \* bounds of the model: how often the application refreshes
    MaxCalls,        \* and calls GetAsync
    MaxTime,         \* bound of the model: the clock stops here
    None

VARIABLES
    now,         \* the clock
    nextReload,  \* _nextReload
    lazies,      \* the lazy responses; _lazyResponse is the last one
    refreshes,   \* how often Refresh was called by the application
    calls,       \* and GetAsync
    pc,          \* pc[c]: where caller c is in GetAsync
    got,         \* got[c]: the lazy response whose task c was given
    asked        \* asked[c]: the lazy responses that had ended in an error when c called

vars == <<now, nextReload, lazies, refreshes, calls, pc, got, asked>>

Statuses == {"created", "running", "failing", "document", "error", "exception"}
States == {"idle", "test", "refresh", "read", "await"}
Ended == {"document", "error", "exception"}

TypeOK ==
    /\ now \in 0..MaxTime
    /\ nextReload \in Nat
    /\ lazies \in Seq(Statuses)
    /\ refreshes \in 0..MaxRefreshes
    /\ calls \in 0..MaxCalls
    /\ pc \in [Callers -> States]
    /\ \A c \in Callers : got[c] \in DOMAIN lazies \cup {None}
    /\ asked \in [Callers -> SUBSET DOMAIN lazies]

Init ==
    /\ now = 0
    /\ nextReload = 0
    /\ lazies = <<>>
    /\ refreshes = 0
    /\ calls = 0
    /\ pc = [c \in Callers |-> "idle"]
    /\ got = [c \in Callers |-> None]
    /\ asked = [c \in Callers |-> {}]

Goto(c, label) == pc' = [pc EXCEPT ![c] = label]

\* _lazyResponse = new AsyncLazy(GetResponseAsync)
WithNewLazy(ls) == Append(ls, "created")

Tick ==
    /\ now < MaxTime
    /\ now' = now + 1
    /\ UNCHANGED <<nextReload, lazies, refreshes, calls, pc, got, asked>>

\* Mutant: the document is only marked as stale.
MarkAsStale ==
    /\ refreshes < MaxRefreshes
    /\ lazies # <<>>
    /\ refreshes' = refreshes + 1
    /\ nextReload' = 0
    /\ UNCHANGED <<now, lazies, calls, pc, got, asked>>

\* Refresh, called by the application.
Refresh ==
    /\ refreshes < MaxRefreshes
    /\ lazies # <<>>
    /\ refreshes' = refreshes + 1
    /\ lazies' = WithNewLazy(lazies)
    /\ UNCHANGED <<now, nextReload, calls, pc, got, asked>>

-----------------------------------------------------------------------------
(* GetAsync.                                                               *)

Get(c) ==
    /\ pc[c] = "idle"
    /\ calls < MaxCalls
    /\ calls' = calls + 1
    /\ asked' = [asked EXCEPT ![c] = {l \in DOMAIN lazies : lazies[l] = "error"}]
    /\ Goto(c, "test")
    /\ UNCHANGED <<now, nextReload, lazies, refreshes, got>>

TestReload(c) ==
    /\ pc[c] = "test"
    /\ Goto(c, IF nextReload <= now THEN "refresh" ELSE "read")
    /\ UNCHANGED <<now, nextReload, lazies, refreshes, calls, got, asked>>

RefreshDue(c) ==
    /\ pc[c] = "refresh"
    /\ lazies' = WithNewLazy(lazies)
    /\ Goto(c, "read")
    /\ UNCHANGED <<now, nextReload, refreshes, calls, got, asked>>

\* Reading the value of a new lazy response sends the request.
ReadValue(c) ==
    /\ pc[c] = "read"
    /\ lazies' = [lazies EXCEPT ![Len(lazies)] = IF @ = "created" THEN "running" ELSE @]
    /\ got' = [got EXCEPT ![c] = Len(lazies)]
    /\ Goto(c, "await")
    /\ UNCHANGED <<now, nextReload, refreshes, calls, asked>>

Return(c) ==
    /\ pc[c] = "await"
    /\ lazies[got[c]] \in Ended
    /\ Goto(c, "idle")
    /\ got' = [got EXCEPT ![c] = None]
    /\ asked' = [asked EXCEPT ![c] = {}]
    /\ UNCHANGED <<now, nextReload, lazies, refreshes, calls>>

-----------------------------------------------------------------------------
(* GetResponseAsync.                                                       *)

ReceiveDocument(l) ==
    /\ l \in DOMAIN lazies
    /\ lazies[l] = "running"
    /\ lazies' = [lazies EXCEPT ![l] = "document"]
    /\ nextReload' = now + CacheDuration
    /\ UNCHANGED <<now, refreshes, calls, pc, got, asked>>

\* Mutant: an error only makes the next call reload.
ReceiveErrorWithoutRefresh(l) ==
    /\ l \in DOMAIN lazies
    /\ lazies[l] = "running"
    /\ lazies' = [lazies EXCEPT ![l] = "failing"]
    /\ UNCHANGED <<now, nextReload, refreshes, calls, pc, got, asked>>

\* An error response: whatever lazy response there is now is replaced, ...
ReceiveError(l) ==
    /\ l \in DOMAIN lazies
    /\ lazies[l] = "running"
    /\ lazies' = WithNewLazy([lazies EXCEPT ![l] = "failing"])
    /\ UNCHANGED <<now, nextReload, refreshes, calls, pc, got, asked>>

\* ... then the reload time is reset, and the task completes.
ResetReload(l) ==
    /\ l \in DOMAIN lazies
    /\ lazies[l] = "failing"
    /\ lazies' = [lazies EXCEPT ![l] = "error"]
    /\ nextReload' = 0
    /\ UNCHANGED <<now, refreshes, calls, pc, got, asked>>

\* A cancellation, as by the timeout of the HttpClient, leaves the fields.
Throw(l) ==
    /\ l \in DOMAIN lazies
    /\ lazies[l] = "running"
    /\ lazies' = [lazies EXCEPT ![l] = "exception"]
    /\ UNCHANGED <<now, nextReload, refreshes, calls, pc, got, asked>>

-----------------------------------------------------------------------------
Next ==
    \/ Tick \/ Refresh
    \/ \E c \in Callers : Get(c) \/ TestReload(c) \/ RefreshDue(c) \/ ReadValue(c) \/ Return(c)
    \/ \E l \in DOMAIN lazies : ReceiveDocument(l) \/ ReceiveError(l) \/ ResetReload(l) \/ Throw(l)

Spec == Init /\ [][Next]_vars

-----------------------------------------------------------------------------
(* Properties.                                                             *)

\* An error response goes to the callers that waited for it and to no caller
\* that comes after it, whatever other responses arrive.
ErrorsAreNotCached == \A c \in Callers : pc[c] = "await" => got[c] \notin asked[c]
=================================================================================
