------------------- MODULE OAuth2IntrospectionHandler_proofs -------------------
(***************************************************************************)
(* Safety of the introspection handler for any number of requests, with any *)
(* durations.                                                               *)
(***************************************************************************)
EXTENDS MCIntrospection, TLAPS

\* A request joins a call after it missed the cache; the call was created by
\* the request it is named after, which joined it too.
JoinInv ==
    /\ \A r \in Requests :
        /\ pc[r] \in {"idle", "readCache", "getOrAdd"} => joined[r] = None
        /\ pc[r] \in {"value", "await", "retry", "store", "finally"} => joined[r] \in Requests
        /\ joined[r] \in Requests => joined[joined[r]] = joined[r]
        /\ pc[r] = "retry" => joined[r] # r
    /\ \A e \in Requests : dictionary = e => joined[e] = e

\* A shared call that has not completed is the one in the dictionary, and the
\* request that created it is there to remove it.
OwnerInv ==
    \A e \in Requests : joined[e] = e =>
        /\ call[e] # "none"
        /\ ~Completed(e) => dictionary = e /\ pc[e] \in {"value", "await"}

\* The outcome is open until the request leaves for the finally block.
PendingInv ==
    \A r \in Requests :
        pc[r] \in {"idle", "readCache", "getOrAdd", "value", "await", "retry"} => outcome[r] = "pending"

Inv == TypeOK /\ JoinInv /\ OwnerInv /\ EntryHasOwner

LEMMA InitInv == Init => Inv /\ PendingInv /\ FailuresAreNotShared
  <1> SUFFICES ASSUME Init PROVE Inv /\ PendingInv /\ FailuresAreNotShared
    OBVIOUS
  <1> USE NoneAssumption, TimeAssumption DEF Init
  <1>1. TypeOK
    <2>1. now \in 0..MaxTime
      BY DEF TimeAssumption
    <2>2. /\ revoked \in BOOLEAN
          /\ cache \in Entries \cup {None}
          /\ dictionary \in Requests \cup {None}
          /\ aborted \in [Requests -> BOOLEAN]
      OBVIOUS
    <2>3. /\ call \in [Requests -> CallStates]
          /\ pc \in [Requests -> States]
          /\ joined \in [Requests -> Requests \cup {None}]
          /\ answer \in [Requests -> Answers \cup {None}]
          /\ outcome \in [Requests -> Outcomes]
      BY DEF CallStates, States, Outcomes
    <2>4. QED
      BY <2>1, <2>2, <2>3 DEF TypeOK
  <1>2. JoinInv /\ OwnerInv /\ EntryHasOwner
    BY DEF JoinInv, OwnerInv, EntryHasOwner
  <1>3. PendingInv /\ FailuresAreNotShared
    BY DEF PendingInv, FailuresAreNotShared
  <1>4. QED
    BY <1>1, <1>2, <1>3 DEF Inv

LEMMA NextTypeOK == TypeOK /\ JoinInv /\ [Next]_vars => TypeOK'
  <1> SUFFICES ASSUME TypeOK, JoinInv, [Next]_vars PROVE TypeOK'
    OBVIOUS
  <1> USE NoneAssumption, TimeAssumption
      DEF TypeOK, Entries, CallStates, Answers, States, Outcomes, requestVars, Goto, Leave, TryRemove,
          Completed, JoinInv, SetClaims, Expiration, AbsoluteLifetime
  <1>1. ASSUME NEW r \in Requests, HandleAuthenticate(r) PROVE TypeOK'
    BY <1>1 DEF HandleAuthenticate
  <1>2. ASSUME NEW r \in Requests, Abort(r) PROVE TypeOK'
    BY <1>2 DEF Abort
  <1>3. ASSUME NEW r \in Requests, GetClaims(r) PROVE TypeOK'
    BY <1>3 DEF GetClaims
  <1>4. ASSUME NEW r \in Requests, GetOrAdd(r) PROVE TypeOK'
    BY <1>4 DEF GetOrAdd
  <1>5. ASSUME NEW r \in Requests, ReadValue(r) PROVE TypeOK'
    BY <1>5 DEF ReadValue
  <1>6. ASSUME NEW r \in Requests, Receive(r) PROVE TypeOK'
    BY <1>6 DEF Receive
  <1>7. ASSUME NEW r \in Requests, Rethrow(r) PROVE TypeOK'
    BY <1>7 DEF Rethrow
  <1>8. ASSUME NEW r \in Requests, EvictAndRetry(r) PROVE TypeOK'
    BY <1>8 DEF EvictAndRetry
  <1>9. ASSUME NEW r \in Requests, StopWaiting(r) PROVE TypeOK'
    BY <1>9 DEF StopWaiting
  <1>10. ASSUME NEW r \in Requests, ReceiveRetry(r) PROVE TypeOK'
    BY <1>10 DEF ReceiveRetry
  <1>11. ASSUME NEW r \in Requests, RetryThrows(r) PROVE TypeOK'
    BY <1>11 DEF RetryThrows
  <1>12. ASSUME NEW r \in Requests, StoreClaims(r) PROVE TypeOK'
    BY <1>12 DEF StoreClaims
  <1>13. ASSUME NEW r \in Requests, ReportError(r) PROVE TypeOK'
    BY <1>13 DEF ReportError
  <1>14. ASSUME NEW r \in Requests, Finally(r) PROVE TypeOK'
    BY <1>14 DEF Finally
  <1>15. ASSUME NEW e \in Requests, Introspect(e) PROVE TypeOK'
    BY <1>15 DEF Introspect
  <1>16. ASSUME NEW e \in Requests, CallThrows(e) PROVE TypeOK'
    BY <1>16 DEF CallThrows
  <1>17. CASE Tick
    BY <1>17 DEF Tick
  <1>18. CASE Revoke
    BY <1>18 DEF Revoke
  <1>19. CASE UNCHANGED vars
    BY <1>19 DEF vars
  <1>20. QED
    BY <1>1, <1>2, <1>3, <1>4, <1>5, <1>6, <1>7, <1>8, <1>9, <1>10, <1>11, <1>12, <1>13, <1>14, <1>15, <1>16, <1>17, <1>18, <1>19 DEF Next, RequestStep

LEMMA NextJoinInv == TypeOK /\ JoinInv /\ [Next]_vars => JoinInv'
  <1> SUFFICES ASSUME TypeOK, JoinInv, [Next]_vars PROVE JoinInv'
    OBVIOUS
  <1> USE NoneAssumption
      DEF TypeOK, Entries, CallStates, Answers, States, Outcomes, requestVars, Goto, Leave, TryRemove,
          Completed, JoinInv
  <1>1. ASSUME NEW r \in Requests, HandleAuthenticate(r) PROVE JoinInv'
    BY <1>1 DEF HandleAuthenticate
  <1>2. ASSUME NEW r \in Requests, Abort(r) PROVE JoinInv'
    BY <1>2 DEF Abort
  <1>3. ASSUME NEW r \in Requests, GetClaims(r) PROVE JoinInv'
    BY <1>3 DEF GetClaims
  <1>4. ASSUME NEW r \in Requests, GetOrAdd(r) PROVE JoinInv'
    BY <1>4 DEF GetOrAdd
  <1>5. ASSUME NEW r \in Requests, ReadValue(r) PROVE JoinInv'
    BY <1>5 DEF ReadValue
  <1>6. ASSUME NEW r \in Requests, Receive(r) PROVE JoinInv'
    BY <1>6 DEF Receive
  <1>7. ASSUME NEW r \in Requests, Rethrow(r) PROVE JoinInv'
    BY <1>7 DEF Rethrow
  <1>8. ASSUME NEW r \in Requests, EvictAndRetry(r) PROVE JoinInv'
    BY <1>8 DEF EvictAndRetry
  <1>9. ASSUME NEW r \in Requests, StopWaiting(r) PROVE JoinInv'
    BY <1>9 DEF StopWaiting
  <1>10. ASSUME NEW r \in Requests, ReceiveRetry(r) PROVE JoinInv'
    BY <1>10 DEF ReceiveRetry
  <1>11. ASSUME NEW r \in Requests, RetryThrows(r) PROVE JoinInv'
    BY <1>11 DEF RetryThrows
  <1>12. ASSUME NEW r \in Requests, StoreClaims(r) PROVE JoinInv'
    BY <1>12 DEF StoreClaims
  <1>13. ASSUME NEW r \in Requests, ReportError(r) PROVE JoinInv'
    BY <1>13 DEF ReportError
  <1>14. ASSUME NEW r \in Requests, Finally(r) PROVE JoinInv'
    BY <1>14 DEF Finally
  <1>15. ASSUME NEW e \in Requests, Introspect(e) PROVE JoinInv'
    BY <1>15 DEF Introspect
  <1>16. ASSUME NEW e \in Requests, CallThrows(e) PROVE JoinInv'
    BY <1>16 DEF CallThrows
  <1>17. CASE Tick
    BY <1>17 DEF Tick
  <1>18. CASE Revoke
    BY <1>18 DEF Revoke
  <1>19. CASE UNCHANGED vars
    BY <1>19 DEF vars
  <1>20. QED
    BY <1>1, <1>2, <1>3, <1>4, <1>5, <1>6, <1>7, <1>8, <1>9, <1>10, <1>11, <1>12, <1>13, <1>14, <1>15, <1>16, <1>17, <1>18, <1>19 DEF Next, RequestStep

LEMMA NextOwnerInv == TypeOK /\ JoinInv /\ OwnerInv /\ [Next]_vars => OwnerInv'
  <1> SUFFICES ASSUME TypeOK, JoinInv, OwnerInv, [Next]_vars PROVE OwnerInv'
    OBVIOUS
  <1> USE NoneAssumption
      DEF TypeOK, Entries, CallStates, Answers, States, Outcomes, requestVars, Goto, Leave, TryRemove,
          Completed, JoinInv, OwnerInv
  <1>1. ASSUME NEW r \in Requests, HandleAuthenticate(r) PROVE OwnerInv'
    BY <1>1 DEF HandleAuthenticate
  <1>2. ASSUME NEW r \in Requests, Abort(r) PROVE OwnerInv'
    BY <1>2 DEF Abort
  <1>3. ASSUME NEW r \in Requests, GetClaims(r) PROVE OwnerInv'
    BY <1>3 DEF GetClaims
  <1>4. ASSUME NEW r \in Requests, GetOrAdd(r) PROVE OwnerInv'
    BY <1>4 DEF GetOrAdd
  <1>5. ASSUME NEW r \in Requests, ReadValue(r) PROVE OwnerInv'
    BY <1>5 DEF ReadValue
  <1>6. ASSUME NEW r \in Requests, Receive(r) PROVE OwnerInv'
    BY <1>6 DEF Receive
  <1>7. ASSUME NEW r \in Requests, Rethrow(r) PROVE OwnerInv'
    BY <1>7 DEF Rethrow
  <1>8. ASSUME NEW r \in Requests, EvictAndRetry(r) PROVE OwnerInv'
    BY <1>8 DEF EvictAndRetry
  <1>9. ASSUME NEW r \in Requests, StopWaiting(r) PROVE OwnerInv'
    BY <1>9 DEF StopWaiting
  <1>10. ASSUME NEW r \in Requests, ReceiveRetry(r) PROVE OwnerInv'
    BY <1>10 DEF ReceiveRetry
  <1>11. ASSUME NEW r \in Requests, RetryThrows(r) PROVE OwnerInv'
    BY <1>11 DEF RetryThrows
  <1>12. ASSUME NEW r \in Requests, StoreClaims(r) PROVE OwnerInv'
    BY <1>12 DEF StoreClaims
  <1>13. ASSUME NEW r \in Requests, ReportError(r) PROVE OwnerInv'
    BY <1>13 DEF ReportError
  <1>14. ASSUME NEW r \in Requests, Finally(r) PROVE OwnerInv'
    BY <1>14 DEF Finally
  <1>15. ASSUME NEW e \in Requests, Introspect(e) PROVE OwnerInv'
    BY <1>15 DEF Introspect
  <1>16. ASSUME NEW e \in Requests, CallThrows(e) PROVE OwnerInv'
    BY <1>16 DEF CallThrows
  <1>17. CASE Tick
    BY <1>17 DEF Tick
  <1>18. CASE Revoke
    BY <1>18 DEF Revoke
  <1>19. CASE UNCHANGED vars
    BY <1>19 DEF vars
  <1>20. QED
    BY <1>1, <1>2, <1>3, <1>4, <1>5, <1>6, <1>7, <1>8, <1>9, <1>10, <1>11, <1>12, <1>13, <1>14, <1>15, <1>16, <1>17, <1>18, <1>19 DEF Next, RequestStep

LEMMA NextEntryHasOwner == TypeOK /\ JoinInv /\ OwnerInv /\ EntryHasOwner /\ [Next]_vars => EntryHasOwner'
  <1> SUFFICES ASSUME TypeOK, JoinInv, OwnerInv, EntryHasOwner, [Next]_vars PROVE EntryHasOwner'
    OBVIOUS
  <1> USE NoneAssumption
      DEF TypeOK, Entries, CallStates, Answers, States, Outcomes, requestVars, Goto, Leave, TryRemove,
          Completed, JoinInv, OwnerInv, EntryHasOwner
  <1>1. ASSUME NEW r \in Requests, HandleAuthenticate(r) PROVE EntryHasOwner'
    BY <1>1 DEF HandleAuthenticate
  <1>2. ASSUME NEW r \in Requests, Abort(r) PROVE EntryHasOwner'
    BY <1>2 DEF Abort
  <1>3. ASSUME NEW r \in Requests, GetClaims(r) PROVE EntryHasOwner'
    BY <1>3 DEF GetClaims
  <1>4. ASSUME NEW r \in Requests, GetOrAdd(r) PROVE EntryHasOwner'
    BY <1>4 DEF GetOrAdd
  <1>5. ASSUME NEW r \in Requests, ReadValue(r) PROVE EntryHasOwner'
    BY <1>5 DEF ReadValue
  <1>6. ASSUME NEW r \in Requests, Receive(r) PROVE EntryHasOwner'
    BY <1>6 DEF Receive
  <1>7. ASSUME NEW r \in Requests, Rethrow(r) PROVE EntryHasOwner'
    BY <1>7 DEF Rethrow
  <1>8. ASSUME NEW r \in Requests, EvictAndRetry(r) PROVE EntryHasOwner'
    BY <1>8 DEF EvictAndRetry
  <1>9. ASSUME NEW r \in Requests, StopWaiting(r) PROVE EntryHasOwner'
    BY <1>9 DEF StopWaiting
  <1>10. ASSUME NEW r \in Requests, ReceiveRetry(r) PROVE EntryHasOwner'
    BY <1>10 DEF ReceiveRetry
  <1>11. ASSUME NEW r \in Requests, RetryThrows(r) PROVE EntryHasOwner'
    BY <1>11 DEF RetryThrows
  <1>12. ASSUME NEW r \in Requests, StoreClaims(r) PROVE EntryHasOwner'
    BY <1>12 DEF StoreClaims
  <1>13. ASSUME NEW r \in Requests, ReportError(r) PROVE EntryHasOwner'
    BY <1>13 DEF ReportError
  <1>14. ASSUME NEW r \in Requests, Finally(r) PROVE EntryHasOwner'
    BY <1>14 DEF Finally
  <1>15. ASSUME NEW e \in Requests, Introspect(e) PROVE EntryHasOwner'
    BY <1>15 DEF Introspect
  <1>16. ASSUME NEW e \in Requests, CallThrows(e) PROVE EntryHasOwner'
    BY <1>16 DEF CallThrows
  <1>17. CASE Tick
    BY <1>17 DEF Tick
  <1>18. CASE Revoke
    BY <1>18 DEF Revoke
  <1>19. CASE UNCHANGED vars
    BY <1>19 DEF vars
  <1>20. QED
    BY <1>1, <1>2, <1>3, <1>4, <1>5, <1>6, <1>7, <1>8, <1>9, <1>10, <1>11, <1>12, <1>13, <1>14, <1>15, <1>16, <1>17, <1>18, <1>19 DEF Next, RequestStep

LEMMA NextPendingInv == TypeOK /\ PendingInv /\ [Next]_vars => PendingInv'
  <1> SUFFICES ASSUME TypeOK, PendingInv, [Next]_vars PROVE PendingInv'
    OBVIOUS
  <1> USE NoneAssumption
      DEF TypeOK, Entries, CallStates, Answers, States, Outcomes, requestVars, Goto, Leave, TryRemove,
          Completed, PendingInv
  <1>1. ASSUME NEW r \in Requests, HandleAuthenticate(r) PROVE PendingInv'
    BY <1>1 DEF HandleAuthenticate
  <1>2. ASSUME NEW r \in Requests, Abort(r) PROVE PendingInv'
    BY <1>2 DEF Abort
  <1>3. ASSUME NEW r \in Requests, GetClaims(r) PROVE PendingInv'
    BY <1>3 DEF GetClaims
  <1>4. ASSUME NEW r \in Requests, GetOrAdd(r) PROVE PendingInv'
    BY <1>4 DEF GetOrAdd
  <1>5. ASSUME NEW r \in Requests, ReadValue(r) PROVE PendingInv'
    BY <1>5 DEF ReadValue
  <1>6. ASSUME NEW r \in Requests, Receive(r) PROVE PendingInv'
    BY <1>6 DEF Receive
  <1>7. ASSUME NEW r \in Requests, Rethrow(r) PROVE PendingInv'
    BY <1>7 DEF Rethrow
  <1>8. ASSUME NEW r \in Requests, EvictAndRetry(r) PROVE PendingInv'
    BY <1>8 DEF EvictAndRetry
  <1>9. ASSUME NEW r \in Requests, StopWaiting(r) PROVE PendingInv'
    BY <1>9 DEF StopWaiting
  <1>10. ASSUME NEW r \in Requests, ReceiveRetry(r) PROVE PendingInv'
    BY <1>10 DEF ReceiveRetry
  <1>11. ASSUME NEW r \in Requests, RetryThrows(r) PROVE PendingInv'
    BY <1>11 DEF RetryThrows
  <1>12. ASSUME NEW r \in Requests, StoreClaims(r) PROVE PendingInv'
    BY <1>12 DEF StoreClaims
  <1>13. ASSUME NEW r \in Requests, ReportError(r) PROVE PendingInv'
    BY <1>13 DEF ReportError
  <1>14. ASSUME NEW r \in Requests, Finally(r) PROVE PendingInv'
    BY <1>14 DEF Finally
  <1>15. ASSUME NEW e \in Requests, Introspect(e) PROVE PendingInv'
    BY <1>15 DEF Introspect
  <1>16. ASSUME NEW e \in Requests, CallThrows(e) PROVE PendingInv'
    BY <1>16 DEF CallThrows
  <1>17. CASE Tick
    BY <1>17 DEF Tick
  <1>18. CASE Revoke
    BY <1>18 DEF Revoke
  <1>19. CASE UNCHANGED vars
    BY <1>19 DEF vars
  <1>20. QED
    BY <1>1, <1>2, <1>3, <1>4, <1>5, <1>6, <1>7, <1>8, <1>9, <1>10, <1>11, <1>12, <1>13, <1>14, <1>15, <1>16, <1>17, <1>18, <1>19 DEF Next, RequestStep

LEMMA NextFailures == TypeOK /\ JoinInv /\ PendingInv /\ FailuresAreNotShared /\ [Next]_vars => FailuresAreNotShared'
  <1> SUFFICES ASSUME TypeOK, JoinInv, PendingInv, FailuresAreNotShared, [Next]_vars PROVE FailuresAreNotShared'
    OBVIOUS
  <1> USE NoneAssumption
      DEF TypeOK, Entries, CallStates, Answers, States, Outcomes, requestVars, Goto, Leave, TryRemove,
          Completed, JoinInv, PendingInv, FailuresAreNotShared
  <1>1. ASSUME NEW r \in Requests, HandleAuthenticate(r) PROVE FailuresAreNotShared'
    BY <1>1 DEF HandleAuthenticate
  <1>2. ASSUME NEW r \in Requests, Abort(r) PROVE FailuresAreNotShared'
    BY <1>2 DEF Abort
  <1>3. ASSUME NEW r \in Requests, GetClaims(r) PROVE FailuresAreNotShared'
    BY <1>3 DEF GetClaims
  <1>4. ASSUME NEW r \in Requests, GetOrAdd(r) PROVE FailuresAreNotShared'
    BY <1>4 DEF GetOrAdd
  <1>5. ASSUME NEW r \in Requests, ReadValue(r) PROVE FailuresAreNotShared'
    BY <1>5 DEF ReadValue
  <1>6. ASSUME NEW r \in Requests, Receive(r) PROVE FailuresAreNotShared'
    BY <1>6 DEF Receive
  <1>7. ASSUME NEW r \in Requests, Rethrow(r) PROVE FailuresAreNotShared'
    BY <1>7 DEF Rethrow
  <1>8. ASSUME NEW r \in Requests, EvictAndRetry(r) PROVE FailuresAreNotShared'
    BY <1>8 DEF EvictAndRetry
  <1>9. ASSUME NEW r \in Requests, StopWaiting(r) PROVE FailuresAreNotShared'
    BY <1>9 DEF StopWaiting
  <1>10. ASSUME NEW r \in Requests, ReceiveRetry(r) PROVE FailuresAreNotShared'
    BY <1>10 DEF ReceiveRetry
  <1>11. ASSUME NEW r \in Requests, RetryThrows(r) PROVE FailuresAreNotShared'
    BY <1>11 DEF RetryThrows
  <1>12. ASSUME NEW r \in Requests, StoreClaims(r) PROVE FailuresAreNotShared'
    BY <1>12 DEF StoreClaims
  <1>13. ASSUME NEW r \in Requests, ReportError(r) PROVE FailuresAreNotShared'
    BY <1>13 DEF ReportError
  <1>14. ASSUME NEW r \in Requests, Finally(r) PROVE FailuresAreNotShared'
    BY <1>14 DEF Finally
  <1>15. ASSUME NEW e \in Requests, Introspect(e) PROVE FailuresAreNotShared'
    BY <1>15 DEF Introspect
  <1>16. ASSUME NEW e \in Requests, CallThrows(e) PROVE FailuresAreNotShared'
    BY <1>16 DEF CallThrows
  <1>17. CASE Tick
    BY <1>17 DEF Tick
  <1>18. CASE Revoke
    BY <1>18 DEF Revoke
  <1>19. CASE UNCHANGED vars
    BY <1>19 DEF vars
  <1>20. QED
    BY <1>1, <1>2, <1>3, <1>4, <1>5, <1>6, <1>7, <1>8, <1>9, <1>10, <1>11, <1>12, <1>13, <1>14, <1>15, <1>16, <1>17, <1>18, <1>19 DEF Next, RequestStep

LEMMA Invariance == Spec => [](Inv /\ PendingInv /\ FailuresAreNotShared)
  <1>1. Inv /\ [Next]_vars => Inv'
    BY NextTypeOK, NextJoinInv, NextOwnerInv, NextEntryHasOwner DEF Inv
  <1>2. Inv /\ PendingInv /\ [Next]_vars => PendingInv'
    BY NextPendingInv DEF Inv
  <1>3. Inv /\ PendingInv /\ FailuresAreNotShared /\ [Next]_vars => FailuresAreNotShared'
    BY NextFailures DEF Inv
  <1>4. QED
    BY InitInv, <1>1, <1>2, <1>3, PTL DEF Spec

\* Every variable of the handler keeps its type.
THEOREM TypeCorrect == Spec => []TypeOK
  <1>1. Inv => TypeOK
    BY DEF Inv
  <1>2. QED
    BY Invariance, <1>1, PTL

\* A request fails only with its own call or its own client, whatever the call
\* it joined did.
THEOREM OwnFailuresOnly == Spec => []FailuresAreNotShared
  BY Invariance, PTL

\* The entry of the dictionary always belongs to a request that will remove it.
THEOREM EntriesAreRemoved == Spec => []EntryHasOwner
  <1>1. Inv => EntryHasOwner
    BY DEF Inv
  <1>2. QED
    BY Invariance, <1>1, PTL

\* The calls that requests share do not overlap: one that has not completed is
\* the one in the dictionary.
THEOREM SharedCallsDoNotOverlap == Spec => []OneSharedCall
  <1>1. Inv => OneSharedCall
    BY DEF Inv, OwnerInv, OneSharedCall
  <1>2. QED
    BY Invariance, <1>1, PTL

\* No request takes a call out of the dictionary that has not completed.
THEOREM RunningCallsStay == Spec => RunningCallIsNeverEvicted
  <1>1. ASSUME Inv, [Next]_vars, NEW e \in Requests, dictionary = e, ~Completed(e)
        PROVE dictionary' = e
    <2> USE NoneAssumption, <1>1 DEF Inv, TypeOK, JoinInv, Goto, Leave, TryRemove, Completed, requestVars
    <2>1. ASSUME NEW r \in Requests, HandleAuthenticate(r) PROVE dictionary' = e
      BY <2>1 DEF HandleAuthenticate
    <2>2. ASSUME NEW r \in Requests, Abort(r) PROVE dictionary' = e
      BY <2>2 DEF Abort
    <2>3. ASSUME NEW r \in Requests, GetClaims(r) PROVE dictionary' = e
      BY <2>3 DEF GetClaims
    <2>4. ASSUME NEW r \in Requests, GetOrAdd(r) PROVE dictionary' = e
      BY <2>4 DEF GetOrAdd
    <2>5. ASSUME NEW r \in Requests, ReadValue(r) PROVE dictionary' = e
      BY <2>5 DEF ReadValue
    <2>6. ASSUME NEW r \in Requests, Receive(r) PROVE dictionary' = e
      BY <2>6 DEF Receive
    <2>7. ASSUME NEW r \in Requests, Rethrow(r) PROVE dictionary' = e
      BY <2>7 DEF Rethrow
    <2>8. ASSUME NEW r \in Requests, EvictAndRetry(r) PROVE dictionary' = e
      BY <2>8 DEF EvictAndRetry
    <2>9. ASSUME NEW r \in Requests, StopWaiting(r) PROVE dictionary' = e
      BY <2>9 DEF StopWaiting
    <2>10. ASSUME NEW r \in Requests, ReceiveRetry(r) PROVE dictionary' = e
      BY <2>10 DEF ReceiveRetry
    <2>11. ASSUME NEW r \in Requests, RetryThrows(r) PROVE dictionary' = e
      BY <2>11 DEF RetryThrows
    <2>12. ASSUME NEW r \in Requests, StoreClaims(r) PROVE dictionary' = e
      BY <2>12 DEF StoreClaims
    <2>13. ASSUME NEW r \in Requests, ReportError(r) PROVE dictionary' = e
      BY <2>13 DEF ReportError
    <2>14. ASSUME NEW r \in Requests, Finally(r) PROVE dictionary' = e
      BY <2>14 DEF Finally
    <2>15. ASSUME NEW f \in Requests, Introspect(f) PROVE dictionary' = e
      BY <2>15 DEF Introspect
    <2>16. ASSUME NEW f \in Requests, CallThrows(f) PROVE dictionary' = e
      BY <2>16 DEF CallThrows
    <2>17. CASE Tick
      BY <2>17 DEF Tick
    <2>18. CASE Revoke
      BY <2>18 DEF Revoke
    <2>19. CASE UNCHANGED vars
      BY <2>19 DEF vars
    <2>20. QED
      BY <1>1, <2>1, <2>2, <2>3, <2>4, <2>5, <2>6, <2>7, <2>8, <2>9, <2>10, <2>11, <2>12, <2>13, <2>14, <2>15, <2>16, <2>17, <2>18, <2>19 DEF Next, RequestStep
  <1>2. Inv /\ [Next]_vars => \A e \in Requests : dictionary = e /\ ~Completed(e) => dictionary' = e
    <2>1. SUFFICES ASSUME Inv, [Next]_vars, NEW e \in Requests, dictionary = e, ~Completed(e)
                   PROVE  dictionary' = e
      OBVIOUS
    <2>2. QED
      BY <1>1, <2>1
  <1>3. QED
    BY Invariance, <1>2, PTL DEF Spec, RunningCallIsNeverEvicted

-----------------------------------------------------------------------------
(* The cache.                                                              *)

\* Claims with an expiration are not kept beyond it.
CacheInv == HasExp /\ cache # None /\ cache.active => cache.until <= TokenExpires

LEMMA NextCacheInv == TypeOK /\ CacheInv /\ [Next]_vars => CacheInv'
  <1> SUFFICES ASSUME TypeOK, CacheInv, [Next]_vars PROVE CacheInv'
    OBVIOUS
  <1>1. ASSUME NEW r \in Requests, StoreClaims(r) PROVE CacheInv'
    <2>1. cache' = cache \/ cache' = [active |-> answer[r] = "active", until |-> AbsoluteLifetime(Expiration(answer[r]))]
      BY <1>1 DEF StoreClaims, SetClaims
    <2>2. answer[r] = "active" /\ HasExp => AbsoluteLifetime(Expiration(answer[r])) <= TokenExpires
      BY TimeAssumption DEF AbsoluteLifetime, Expiration, TypeOK
    <2>3. CASE answer[r] = "active"
      BY <2>1, <2>2, <2>3 DEF CacheInv
    <2>4. CASE answer[r] # "active"
      <3>1. cache' = cache \/ cache' = [active |-> FALSE, until |-> AbsoluteLifetime(Expiration(answer[r]))]
        BY <2>1, <2>4
      <3>2. QED
        BY <3>1 DEF CacheInv
    <2>5. QED
      BY <2>3, <2>4
  <1>2. CASE UNCHANGED cache
    BY <1>2 DEF CacheInv
  <1>3. ASSUME NEW r \in Requests, RequestStep(r), ~StoreClaims(r) PROVE UNCHANGED cache
    BY <1>3 DEF RequestStep, GetClaims, GetOrAdd, ReadValue, Receive, Rethrow, EvictAndRetry, StopWaiting,
                ReceiveRetry, RetryThrows, ReportError, Finally
  <1>4. QED
    BY <1>1, <1>2, <1>3 DEF Next, Tick, Revoke, HandleAuthenticate, Abort, Introspect, CallThrows, vars

\* ExpiredClaimsAreNotServed for any durations: whenever an active token is
\* accepted from the cache, it has not expired at the authorization server.
THEOREM CachedClaimsAreUnexpired == Spec => ExpiredClaimsAreNotServed
  <1> DEFINE A == \A r \in Requests : pc[r] = "readCache" /\ outcome'[r] = "success" /\ HasExp => now < TokenExpires
  <1>1. Init => CacheInv
    BY DEF Init, CacheInv
  <1>2. Spec => []CacheInv
    <2>1. Inv => TypeOK
      BY DEF Inv
    <2>2. QED
      BY <1>1, <2>1, NextCacheInv, Invariance, PTL DEF Spec
  <1>3. Inv /\ PendingInv /\ CacheInv /\ [Next]_vars => [A]_vars
    <2> SUFFICES ASSUME Inv, PendingInv, CacheInv, Next, NEW r \in Requests,
                        pc[r] = "readCache", outcome'[r] = "success", HasExp
                 PROVE  now < TokenExpires
      OBVIOUS
    <2>1. outcome[r] = "pending" /\ pc \in [Requests -> States] /\ outcome \in [Requests -> Outcomes]
      BY DEF PendingInv, Inv, TypeOK
    <2>2. ASSUME NEW q \in Requests, RequestStep(q) PROVE GetClaims(r)
      <3>1. q = r
        BY <2>1, <2>2 DEF RequestStep, GetClaims, GetOrAdd, ReadValue, Receive, Rethrow, EvictAndRetry, StopWaiting,
                ReceiveRetry, RetryThrows, StoreClaims, ReportError, Finally, Leave
      <3>2. QED
        BY <2>2, <3>1 DEF RequestStep, GetOrAdd, ReadValue, Receive, Rethrow, EvictAndRetry, StopWaiting,
                ReceiveRetry, RetryThrows, StoreClaims, ReportError, Finally
    <2>3. GetClaims(r)
      BY <2>1, <2>2 DEF Next, Tick, Revoke, HandleAuthenticate, Abort, Introspect, CallThrows, requestVars
    <2>4. cache # None /\ now < cache.until /\ cache.active
      BY <2>1, <2>3 DEF GetClaims, CacheHit, Leave
    <2>5. cache.until \in Nat /\ now \in Nat /\ cache.until <= TokenExpires
      BY <2>4, TimeAssumption DEF CacheInv, Inv, TypeOK, Entries
    <2>6. QED
      BY <2>4, <2>5, TimeAssumption
  <1>4. QED
    BY <1>2, <1>3, Invariance, PTL DEF Spec, ExpiredClaimsAreNotServed

-----------------------------------------------------------------------------
(* The handler and the client assertion together.                          *)

\* What the two do together, each of them also does alone.
THEOREM PartsAreImplemented == IntrospectionSpec => Spec /\ Assertion!Spec
  <1>1. IntrospectionInit => Init /\ Assertion!Init
    BY DEF IntrospectionInit
  <1>2. [IntrospectionNext]_allVars => [Next]_vars
    BY DEF IntrospectionNext, Time, Environment, Start, MakeRequest, Send, Fail, HandlerStep, Next, allVars
  <1>3. [IntrospectionNext]_allVars => [Assertion!Next]_(Assertion!vars)
    <2> SUFFICES ASSUME [IntrospectionNext]_allVars PROVE [Assertion!Next]_(Assertion!vars)
      OBVIOUS
    <2>1. UNCHANGED assertionVars /\ UNCHANGED now => UNCHANGED Assertion!vars
      BY DEF assertionVars, Assertion!vars
    <2>2. ASSUME NEW r \in Requests, RequestStep(r) \/ HandleAuthenticate(r) \/ Introspect(r) \/ CallThrows(r) \/ Abort(r)
          PROVE  UNCHANGED now
      BY <2>2 DEF RequestStep, GetClaims, GetOrAdd, ReadValue, Receive, Rethrow, EvictAndRetry, StopWaiting,
                  ReceiveRetry, RetryThrows, StoreClaims, ReportError, Finally, HandleAuthenticate, Introspect,
                  CallThrows, Abort
    <2>3. CASE Time
      BY <2>3 DEF Time, Assertion!Next
    <2>4. CASE Environment
      BY <2>1, <2>2, <2>4 DEF Environment, Revoke
    <2>5. ASSUME NEW r \in Requests, Start(r) \/ Send(r) \/ Fail(r) \/ HandlerStep(r) PROVE UNCHANGED Assertion!vars
      BY <2>1, <2>2, <2>5 DEF Start, Send, Fail, HandlerStep
    <2>6. ASSUME NEW r \in Requests, MakeRequest(r) PROVE Assertion!Next
      BY <2>6 DEF MakeRequest, Assertion!Next
    <2>7. CASE UNCHANGED allVars
      BY <2>1, <2>7 DEF allVars, vars
    <2>8. QED
      BY <2>3, <2>4, <2>5, <2>6, <2>7 DEF IntrospectionNext
  <1>4. QED
    BY <1>1, <1>2, <1>3, PTL DEF IntrospectionSpec, Spec, Assertion!Spec

\* The requests that hold the lock of the assertion.
Holders == {"retest", "update", "writeAssertion", "writeExpiration", "release", "throw"}

Mutex ==
    /\ lock \in {0, 1}
    /\ \A r \in Requests : assertionPc[r] \in Holders => lock = 0
    /\ \A r, q \in Requests : assertionPc[r] \in Holders /\ assertionPc[q] \in Holders => r = q

\* Assertion and expiration agree unless one of them is just being written, and
\* what is written instead of an assertion expires later.
Agree ==
    /\ assertion # None => expiration <= assertion
    /\ assertion = None => expiration = 0
    /\ (\A r \in Requests : assertionPc[r] # "writeExpiration") => assertion = None \/ assertion = expiration

\* What request r knows of the assertion where it is.
Known(r) ==
    /\ tested[r] <= now
    /\ assertionPc[r] \in {"update", "writeAssertion"} => assertion = None \/ assertion <= now
    /\ assertionPc[r] \in {"writeAssertion", "writeExpiration"} => updated[r] \in Nat /\ updated[r] > tested[r]
    /\ assertionPc[r] = "writeAssertion" => assertion = None \/ assertion <= updated[r]
    /\ assertionPc[r] = "writeExpiration" => assertion = updated[r]
    /\ assertionPc[r] = "release" => expiration > tested[r]
    /\ assertionPc[r] = "read" => assertion # None /\ assertion > tested[r]

AssertionInv == Assertion!TypeOK /\ Mutex /\ Agree /\ \A r \in Requests : Known(r)

LEMMA InitAssertionInv == Assertion!Init => AssertionInv
  <1> SUFFICES ASSUME Assertion!Init PROVE AssertionInv
    OBVIOUS
  <1>1. Assertion!TypeOK
    BY TimeAssumption DEF Assertion!Init, Assertion!TypeOK, Assertion!States
  <1>2. Mutex /\ Agree
    BY DEF Assertion!Init, Mutex, Holders, Agree
  <1>3. \A r \in Requests : Known(r)
    BY DEF Assertion!Init, Known
  <1>4. QED
    BY <1>1, <1>2, <1>3 DEF AssertionInv

LEMMA NextMutex == Assertion!TypeOK /\ Mutex /\ [Assertion!Next]_(Assertion!vars) => Mutex'
  <1> SUFFICES ASSUME Assertion!TypeOK, Mutex, [Assertion!Next]_(Assertion!vars) PROVE Mutex'
    OBVIOUS
  <1> USE DEF Assertion!TypeOK, Mutex, Holders, Assertion!Goto
  <1>1. ASSUME NEW r \in Requests, Assertion!Test(r) PROVE Mutex'
    BY <1>1 DEF Assertion!Test
  <1>2. ASSUME NEW r \in Requests, Assertion!Wait(r) PROVE Mutex'
    BY <1>2 DEF Assertion!Wait
  <1>3. ASSUME NEW r \in Requests, Assertion!Retest(r) PROVE Mutex'
    BY <1>3 DEF Assertion!Retest
  <1>4. ASSUME NEW r \in Requests, Assertion!Update(r) PROVE Mutex'
    BY <1>4 DEF Assertion!Update
  <1>5. ASSUME NEW r \in Requests, Assertion!Write(r) PROVE Mutex'
    BY <1>5 DEF Assertion!Write
  <1>6. ASSUME NEW r \in Requests, Assertion!UpdateThrows(r) PROVE Mutex'
    BY <1>6 DEF Assertion!UpdateThrows
  <1>7. ASSUME NEW r \in Requests, Assertion!Release(r) PROVE Mutex'
    BY <1>7 DEF Assertion!Release
  <1>8. ASSUME NEW r \in Requests, Assertion!Read(r) PROVE Mutex'
    BY <1>8 DEF Assertion!Read
  <1>9. CASE Assertion!Tick
    BY <1>9 DEF Assertion!Tick
  <1>10. CASE UNCHANGED Assertion!vars
    BY <1>10 DEF Assertion!vars
  <1>11. QED
    BY <1>1, <1>2, <1>3, <1>4, <1>5, <1>6, <1>7, <1>8, <1>9, <1>10 DEF Assertion!Next, Assertion!RequestStep

\* The steps keep what each request knows: only the holder of the lock writes,
\* and what it writes expires later.
LEMMA NextAssertionInv == AssertionInv /\ [Assertion!Next]_(Assertion!vars) => AssertionInv'
  <1> SUFFICES ASSUME AssertionInv, [Assertion!Next]_(Assertion!vars) PROVE AssertionInv'
    OBVIOUS
  <1>1. Mutex'
    BY NextMutex DEF AssertionInv
  <1>2. /\ Assertion!TypeOK /\ Mutex /\ Agree /\ \A r \in Requests : Known(r)
        /\ now \in Nat /\ \A r \in Requests : tested[r] \in Nat
    BY TimeAssumption DEF AssertionInv, Assertion!TypeOK
  <1> USE LifetimeAssumption, TimeAssumption DEF Assertion!Goto, Holders
  <1>3. ASSUME NEW r \in Requests, Assertion!Test(r) PROVE AssertionInv'
    <2>1. Assertion!TypeOK'
      BY <1>2, <1>3 DEF Assertion!Test, Assertion!TypeOK, Assertion!States
    <2>2. Agree'
      BY <1>2, <1>3 DEF Assertion!Test, Assertion!TypeOK, Agree
    <2>3. ASSUME NEW q \in Requests PROVE Known(q)'
      BY <1>2, <1>3 DEF Assertion!Test, Assertion!Expired, Assertion!TypeOK, Agree, Known
    <2>4. QED
      BY <1>1, <2>1, <2>2, <2>3 DEF AssertionInv
  <1>4. ASSUME NEW r \in Requests, Assertion!Wait(r) PROVE AssertionInv'
    <2>1. Assertion!TypeOK'
      BY <1>2, <1>4 DEF Assertion!Wait, Assertion!TypeOK, Assertion!States
    <2>2. Agree'
      BY <1>2, <1>4 DEF Assertion!Wait, Assertion!TypeOK, Agree
    <2>3. ASSUME NEW q \in Requests PROVE Known(q)'
      BY <1>2, <1>4 DEF Assertion!Wait, Assertion!TypeOK, Known
    <2>4. QED
      BY <1>1, <2>1, <2>2, <2>3 DEF AssertionInv
  <1>5. ASSUME NEW r \in Requests, Assertion!Retest(r) PROVE AssertionInv'
    <2>1. Assertion!TypeOK'
      BY <1>2, <1>5 DEF Assertion!Retest, Assertion!TypeOK, Assertion!States
    <2>2. Agree'
      BY <1>2, <1>5 DEF Assertion!Retest, Assertion!TypeOK, Agree
    <2>3. assertion = None \/ assertion = expiration
      BY <1>2, <1>5 DEF Assertion!Retest, Mutex, Agree
    <2>4. ASSUME NEW q \in Requests PROVE Known(q)'
      BY <1>2, <1>5, <2>3 DEF Assertion!Retest, Assertion!Expired, Assertion!TypeOK, Known
    <2>5. QED
      BY <1>1, <2>1, <2>2, <2>4 DEF AssertionInv
  <1>6. ASSUME NEW r \in Requests, Assertion!Update(r) PROVE AssertionInv'
    <2>1. Assertion!TypeOK'
      BY <1>2, <1>6 DEF Assertion!Update, Assertion!TypeOK, Assertion!States
    <2>2. Agree'
      BY <1>2, <1>6 DEF Assertion!Update, Assertion!TypeOK, Agree
    <2>3. ASSUME NEW q \in Requests PROVE Known(q)'
      BY <1>2, <1>6 DEF Assertion!Update, Assertion!TypeOK, Known
    <2>4. QED
      BY <1>1, <2>1, <2>2, <2>3 DEF AssertionInv
  <1>7. ASSUME NEW r \in Requests, Assertion!Write(r) PROVE AssertionInv'
    <2>1. updated[r] \in Nat /\ updated[r] > tested[r] /\ assertionPc[r] \in {"writeAssertion", "writeExpiration"}
      BY <1>2, <1>7 DEF Assertion!Write, Known
    <2>2. Assertion!TypeOK'
      BY <1>2, <1>7, <2>1 DEF Assertion!Write, Assertion!TypeOK, Assertion!States
    <2>3. \A q \in Requests : q # r => assertionPc[q] \notin Holders
      BY <1>2, <2>1 DEF Mutex
    <2>4. Agree'
      BY <1>2, <1>7, <2>1, <2>3 DEF Assertion!Write, Assertion!TypeOK, Agree, Known
    <2>5. ASSUME NEW q \in Requests PROVE Known(q)'
      <3>1. CASE q = r
        BY <1>2, <1>7, <2>1, <3>1 DEF Assertion!Write, Assertion!TypeOK, Known
      <3>2. CASE q # r
        BY <1>2, <1>7, <2>1, <2>3, <3>2 DEF Assertion!Write, Assertion!TypeOK, Known
      <3>3. QED
        BY <3>1, <3>2
    <2>6. QED
      BY <1>1, <2>2, <2>4, <2>5 DEF AssertionInv
  <1>8. ASSUME NEW r \in Requests, Assertion!UpdateThrows(r) PROVE AssertionInv'
    <2>1. Assertion!TypeOK'
      BY <1>2, <1>8 DEF Assertion!UpdateThrows, Assertion!TypeOK, Assertion!States
    <2>2. Agree'
      BY <1>2, <1>8 DEF Assertion!UpdateThrows, Assertion!TypeOK, Agree
    <2>3. ASSUME NEW q \in Requests PROVE Known(q)'
      BY <1>2, <1>8 DEF Assertion!UpdateThrows, Assertion!TypeOK, Known
    <2>4. QED
      BY <1>1, <2>1, <2>2, <2>3 DEF AssertionInv
  <1>9. ASSUME NEW r \in Requests, Assertion!Release(r) PROVE AssertionInv'
    <2>1. Assertion!TypeOK'
      <3>1. lock' \in 0..1
        BY <1>1, <1>2, <1>9 DEF Assertion!Release, Mutex
      <3>2. QED
        BY <1>2, <1>9, <3>1 DEF Assertion!Release, Assertion!TypeOK, Assertion!States
    <2>2. Agree'
      BY <1>2, <1>9 DEF Assertion!Release, Assertion!TypeOK, Agree
    <2>3. ASSUME NEW q \in Requests PROVE Known(q)'
      <3>1. assertion # None => expiration <= assertion /\ assertion \in Nat
        BY <1>2 DEF Agree, Assertion!TypeOK
      <3>2. QED
        BY <1>2, <1>9, <3>1 DEF Assertion!Release, Assertion!TypeOK, Agree, Known
    <2>4. QED
      BY <1>1, <2>1, <2>2, <2>3 DEF AssertionInv
  <1>10. ASSUME NEW r \in Requests, Assertion!Read(r) PROVE AssertionInv'
    <2>1. Assertion!TypeOK'
      BY <1>2, <1>10 DEF Assertion!Read, Assertion!TypeOK, Assertion!States
    <2>2. Agree'
      BY <1>2, <1>10 DEF Assertion!Read, Assertion!TypeOK, Agree
    <2>3. ASSUME NEW q \in Requests PROVE Known(q)'
      BY <1>2, <1>10 DEF Assertion!Read, Assertion!TypeOK, Known
    <2>4. QED
      BY <1>1, <2>1, <2>2, <2>3 DEF AssertionInv
  <1>11. CASE Assertion!Tick
    <2>1. Assertion!TypeOK'
      BY <1>2, <1>11 DEF Assertion!Tick, Assertion!TypeOK
    <2>2. Agree'
      BY <1>2, <1>11 DEF Assertion!Tick, Agree
    <2>3. ASSUME NEW q \in Requests PROVE Known(q)'
      BY <1>2, <1>11 DEF Assertion!Tick, Assertion!TypeOK, Known
    <2>4. QED
      BY <1>1, <2>1, <2>2, <2>3 DEF AssertionInv
  <1>12. CASE UNCHANGED Assertion!vars
    BY <1>1, <1>2, <1>12 DEF Assertion!vars, AssertionInv, Assertion!TypeOK, Agree, Known
  <1>13. QED
    BY <1>3, <1>4, <1>5, <1>6, <1>7, <1>8, <1>9, <1>10, <1>11, <1>12 DEF Assertion!Next, Assertion!RequestStep

\* AssertionsAreRenewedOnce for any number of requests and any lifetime: a
\* request is sent with an assertion that had not expired when it was made, and
\* none is renewed that has not expired.
THEOREM AssertionsAreCurrent == IntrospectionSpec => AssertionsAreRenewedOnce
  <1>1. Assertion!Spec => []AssertionInv
    BY InitAssertionInv, NextAssertionInv, PTL DEF Assertion!Spec
  <1>2. AssertionInv /\ [Assertion!Next]_(Assertion!vars) => Assertion!RenewsOnce
    <2> SUFFICES ASSUME AssertionInv, [Assertion!Next]_(Assertion!vars), NEW r \in Requests
                 PROVE  /\ assertionPc[r] = "read" /\ assertionPc'[r] = "done" =>
                             assertion # None /\ (assertion # None => assertion > tested[r])
                        /\ assertionPc[r] = "retest" /\ assertionPc'[r] = "update" =>
                             (assertion # None => assertion <= now)
      BY DEF Assertion!RenewsOnce
    <2>1. Known(r) /\ Mutex /\ Agree /\ Known(r)'
      BY NextAssertionInv DEF AssertionInv
    <2>2. ASSUME assertionPc[r] = "retest", assertionPc'[r] = "update" PROVE assertion' = assertion /\ now' = now
      BY <2>2 DEF Assertion!Next, Assertion!RequestStep, Assertion!Test, Assertion!Wait, Assertion!Retest,
                  Assertion!Update, Assertion!Write, Assertion!UpdateThrows, Assertion!Release, Assertion!Read,
                  Assertion!Tick, Assertion!vars, AssertionInv, Assertion!TypeOK, Assertion!Goto
    <2>3. QED
      BY <2>1, <2>2 DEF Known
  <1>3. QED
    BY <1>1, <1>2, PartsAreImplemented, PTL DEF Assertion!Spec, AssertionsAreRenewedOnce
================================================================================
