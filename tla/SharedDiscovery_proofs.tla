------------------------ MODULE SharedDiscovery_proofs ------------------------
(***************************************************************************)
(* Safety of the classes that share a discovery request: AsyncLazy, of      *)
(* either class, and DiscoveryCache with the requests it makes, for any     *)
(* number of callers, attempts, calls, refreshes and rotations; and of the  *)
(* documents they get, for any documents and policies of a server.          *)
(***************************************************************************)
EXTENDS MCSharedDiscovery, FiniteSetTheorems, TLAPS

-----------------------------------------------------------------------------
(* AsyncLazy.                                                              *)

\* Attempts are made one after another: those before the current one have
\* failed in a way that is started again, those after it do not exist.
Inv ==
    /\ TypeOK
    /\ \A n \in Attempts : n > current => status[n] = "none"
    /\ \A n \in Attempts : n < current => status[n] \in Restarts
    /\ status[MaxAttempts] \notin Failures
    /\ status[current] # "none"

LEMMA InitInv == Init => Inv
  BY BoundAssumption, NoneAssumption DEF Init, Inv, TypeOK, Attempts, Statuses, States, Failures, Restarts

LEMMA StartedInv == ASSUME Inv PROVE Started(status) \in [Attempts -> Statuses]
  BY DEF Inv, TypeOK, Started, Statuses

LEMMA NextInv == Inv /\ [Next]_vars => Inv'
  <1> SUFFICES ASSUME Inv, [Next]_vars PROVE Inv'
    OBVIOUS
  <1> USE BoundAssumption, NoneAssumption DEF Inv, TypeOK, Attempts, Statuses, States, Failures, Goto, Restarts
  <1>1. ASSUME NEW c \in Callers, Call(c) PROVE Inv'
    BY <1>1 DEF Call
  <1>2. ASSUME NEW c \in Callers, Check(c) PROVE Inv'
    BY <1>2 DEF Check
  <1>3. ASSUME NEW c \in Callers, Read(c) PROVE Inv'
    BY <1>3 DEF Read, Started
  <1>4. ASSUME NEW c \in Callers, Lock(c) PROVE Inv'
    <2>1. CASE status[current] \in Restarts
      <3>1. current < MaxAttempts
        BY <2>1
      <3>2. current' = current + 1 /\ status' = [status EXCEPT ![current + 1] = "running"]
        BY <1>4, <2>1 DEF Lock
      <3>3. QED
        BY <1>4, <2>1, <3>1, <3>2 DEF Lock
    <2>2. CASE status[current] \notin Restarts
      BY <1>4, <2>2 DEF Lock, Started
    <2>3. QED
      BY <2>1, <2>2
  <1>5. ASSUME NEW n \in Attempts, Complete(n) PROVE Inv'
    <2>1. n = current
      BY <1>5 DEF Complete
    <2>2. PICK s \in {"succeeded"} \cup (IF n < MaxAttempts THEN Failures ELSE {}) :
              status' = [status EXCEPT ![n] = s]
      BY <1>5 DEF Complete
    <2>3. QED
      BY <1>5, <2>1, <2>2 DEF Complete
  <1>6. ASSUME NEW c \in Callers, Return(c) \/ CancelWait(c) PROVE Inv'
    BY <1>6 DEF Return, CancelWait
  <1>7. CASE UNCHANGED vars
    BY <1>7 DEF vars
  <1>8. QED
    BY <1>1, <1>2, <1>3, <1>4, <1>5, <1>6, <1>7 DEF Next, CallerStep

LEMMA Invariance == Spec => []Inv
  BY InitInv, NextInv, PTL DEF Spec

\* Type correctness; attempts stay within their bound because each one but
\* the first replaces a failed one.
THEOREM TypeCorrect == Spec => []TypeOK
  <1>1. Inv => TypeOK
    BY DEF Inv
  <1>2. QED
    BY <1>1, Invariance, PTL

\* Racing callers never run two initializations at once.
THEOREM AttemptsDoNotOverlap == Spec => []OneAttemptRuns
  <1>1. Inv => OneAttemptRuns
    BY BoundAssumption DEF Inv, OneAttemptRuns, TypeOK, Attempts, Restarts, Failures
  <1>2. QED
    BY <1>1, Invariance, PTL

\* A successful initialization is never replaced.
THEOREM SuccessIsFinal == Spec => []SuccessIsKept
  <1>1. Inv => SuccessIsKept
    BY BoundAssumption DEF Inv, SuccessIsKept, TypeOK, Attempts, Restarts, Failures
  <1>2. QED
    BY <1>1, Invariance, PTL

\* A task that a caller gets had not failed when the caller arrived, if it
\* failed in a way that is started again.
ServedInv ==
    /\ \A c \in Callers : \A n \in failed[c] : n <= current /\ status[n] \in Failures
    /\ \A c \in Callers : pc[c] \in {"idle", "check", "read", "lock"} => task[c] = None
    /\ \A c \in Callers : pc[c] = "read" /\ current \in failed[c] => status[current] \notin Restarts
    /\ FailureIsNotServedAgain

LEMMA InitServedInv == Init => ServedInv
  BY DEF Init, ServedInv, FailureIsNotServedAgain

LEMMA NextServedInv == Inv /\ ServedInv /\ [Next]_vars => ServedInv'
  <1> SUFFICES ASSUME Inv, ServedInv, [Next]_vars PROVE ServedInv'
    OBVIOUS
  <1> USE BoundAssumption, NoneAssumption
      DEF Inv, ServedInv, FailureIsNotServedAgain, TypeOK, Attempts, Statuses, States, Failures, Restarts, Goto
  <1>1. ASSUME NEW c \in Callers, Call(c) PROVE ServedInv'
    BY <1>1 DEF Call
  <1>2. ASSUME NEW c \in Callers, Check(c) PROVE ServedInv'
    BY <1>2 DEF Check
  <1>3. ASSUME NEW c \in Callers, Read(c) PROVE ServedInv'
    BY <1>3 DEF Read, Started
  <1>4. ASSUME NEW c \in Callers, Lock(c) PROVE ServedInv'
    <2>1. CASE status[current] \in Restarts
      BY <1>4, <2>1 DEF Lock
    <2>2. CASE status[current] \notin Restarts
      BY <1>4, <2>2 DEF Lock, Started
    <2>3. QED
      BY <2>1, <2>2
  <1>5. ASSUME NEW n \in Attempts, Complete(n) PROVE ServedInv'
    BY <1>5 DEF Complete
  <1>6. ASSUME NEW c \in Callers, Return(c) \/ CancelWait(c) PROVE ServedInv'
    BY <1>6 DEF Return, CancelWait
  <1>7. CASE UNCHANGED vars
    BY <1>7 DEF vars
  <1>8. QED
    BY <1>1, <1>2, <1>3, <1>4, <1>5, <1>6, <1>7 DEF Next, CallerStep

\* A failure that is started again is not served to later callers.
THEOREM FailuresAreReplaced == Spec => []FailureIsNotServedAgain
  <1>1. ServedInv => FailureIsNotServedAgain
    BY DEF ServedInv
  <1>2. QED
    BY <1>1, Invariance, InitServedInv, NextServedInv, PTL DEF Spec
-----------------------------------------------------------------------------
(* DiscoveryCache.                                                         *)

CacheTypeInv ==
    /\ now \in 0..MaxTime
    /\ lazies \in Seq(Cached!Cache!Statuses)
    /\ refreshes \in 0..MaxRefreshes
    /\ calls \in 0..MaxCalls
    /\ cachePc \in [CacheCallers -> Cached!Cache!States]
    /\ got \in [CacheCallers -> Nat \cup {None}]
    /\ asked \in [CacheCallers -> SUBSET Nat]

\* There is a lazy response once the test was passed: the first reload is
\* always due.
LazyInv ==
    /\ lazies = <<>> => nextReload = 0
    /\ \A c \in CacheCallers : cachePc[c] = "read" => lazies # <<>>
    /\ \A c \in CacheCallers : cachePc[c] = "await" => got[c] \in DOMAIN lazies

\* The error of a response is written after the field has a newer one.
ErrorInv ==
    /\ \A l \in DOMAIN lazies : lazies[l] \in {"failing", "error"} => l < Len(lazies)
    /\ \A c \in CacheCallers : \A l \in asked[c] : l < Len(lazies)
    /\ Cached!Cache!ErrorsAreNotCached

CacheInv == CacheTypeInv /\ LazyInv /\ ErrorInv

LEMMA InitCacheInv == Cached!Cache!Init => CacheInv
  BY CacheAssumption
  DEF Cached!Cache!Init, CacheInv, CacheTypeInv, LazyInv, ErrorInv, Cached!Cache!ErrorsAreNotCached,
      Cached!Cache!Statuses, Cached!Cache!States

LEMMA AppendLazy ==
  ASSUME lazies \in Seq(Cached!Cache!Statuses), lazies' = Cached!Cache!WithNewLazy(lazies)
  PROVE  /\ lazies' \in Seq(Cached!Cache!Statuses)
         /\ Len(lazies') = Len(lazies) + 1
         /\ DOMAIN lazies' = DOMAIN lazies \cup {Len(lazies')}
         /\ \A l \in DOMAIN lazies : lazies'[l] = lazies[l] /\ l < Len(lazies')
         /\ lazies'[Len(lazies')] = "created"
  BY DEF Cached!Cache!Statuses, Cached!Cache!WithNewLazy

LEMMA NextCacheInv == CacheInv /\ [Cached!Cache!Next]_(Cached!Cache!vars) => CacheInv'
  <1> SUFFICES ASSUME CacheInv, [Cached!Cache!Next]_(Cached!Cache!vars) PROVE CacheInv'
    OBVIOUS
  <1> USE CacheAssumption, NoneAssumption
      DEF CacheInv, CacheTypeInv, LazyInv, ErrorInv, Cached!Cache!ErrorsAreNotCached, Cached!Cache!Goto,
          Cached!Cache!Statuses, Cached!Cache!States
  <1>1. CASE Cached!Cache!Tick
    BY <1>1 DEF Cached!Cache!Tick
  <1>2. CASE Cached!Cache!Refresh
    BY <1>2, AppendLazy DEF Cached!Cache!Refresh
  <1>3. ASSUME NEW c \in CacheCallers, Cached!Cache!Get(c) PROVE CacheInv'
    BY <1>3 DEF Cached!Cache!Get
  <1>4. ASSUME NEW c \in CacheCallers, Cached!Cache!TestReload(c) PROVE CacheInv'
    BY <1>4 DEF Cached!Cache!TestReload
  <1>5. ASSUME NEW c \in CacheCallers, Cached!Cache!RefreshDue(c) PROVE CacheInv'
    BY <1>5, AppendLazy DEF Cached!Cache!RefreshDue
  <1>6. ASSUME NEW c \in CacheCallers, Cached!Cache!ReadValue(c) PROVE CacheInv'
    BY <1>6 DEF Cached!Cache!ReadValue
  <1>7. ASSUME NEW c \in CacheCallers, Cached!Cache!Return(c) PROVE CacheInv'
    BY <1>7 DEF Cached!Cache!Return
  <1>8. ASSUME NEW l \in DOMAIN lazies, Cached!Cache!ReceiveDocument(l) PROVE CacheInv'
    BY <1>8 DEF Cached!Cache!ReceiveDocument
  <1>9. ASSUME NEW l \in DOMAIN lazies, Cached!Cache!ReceiveError(l) PROVE CacheInv'
    BY <1>9 DEF Cached!Cache!ReceiveError, Cached!Cache!WithNewLazy
  <1>10. ASSUME NEW l \in DOMAIN lazies, Cached!Cache!ResetReload(l) PROVE CacheInv'
    BY <1>10 DEF Cached!Cache!ResetReload
  <1>11. ASSUME NEW l \in DOMAIN lazies, Cached!Cache!Throw(l) PROVE CacheInv'
    BY <1>11 DEF Cached!Cache!Throw
  <1>12. CASE UNCHANGED Cached!Cache!vars
    BY <1>12 DEF Cached!Cache!vars
  <1>13. QED
    BY <1>1, <1>2, <1>3, <1>4, <1>5, <1>6, <1>7, <1>8, <1>9, <1>10, <1>11, <1>12 DEF Cached!Cache!Next
LEMMA CacheInvariance == Cached!Cache!Spec => []CacheInv
  BY InitCacheInv, NextCacheInv, PTL DEF Cached!Cache!Spec

\* Discovery does what DiscoveryCache allows.
THEOREM CacheIsImplemented == Cached!Spec => Cached!Cache!Spec
  <1>1. Cached!Init => Cached!Cache!Init
    BY DEF Cached!Init
  <1>2. [Cached!Next]_(Cached!vars) => [Cached!Cache!Next]_(Cached!Cache!vars)
    <2> SUFFICES ASSUME [Cached!Next]_(Cached!vars) PROVE [Cached!Cache!Next]_(Cached!Cache!vars)
      OBVIOUS
    <2>1. CASE Cached!Refresh
      BY <2>1 DEF Cached!Refresh, Cached!Cache!Next
    <2>2. CASE Cached!CacheStep
      BY <2>2 DEF Cached!CacheStep, Cached!Cache!Next
    <2>3. CASE Cached!RotateKeys
      BY <2>3 DEF Cached!RotateKeys, Cached!cacheVars, Cached!Cache!vars
    <2>4. ASSUME NEW c \in CacheCallers, Cached!Get(c) \/ Cached!Return(c)
          PROVE  Cached!Cache!Next
      BY <2>4 DEF Cached!Get, Cached!Return, Cached!Cache!Next
    <2>5. ASSUME NEW l \in DOMAIN lazies, Cached!RequestStep(l) PROVE UNCHANGED Cached!Cache!vars
      BY <2>5 DEF Cached!RequestStep, Cached!cacheVars, Cached!Cache!vars
    <2>6. ASSUME NEW l \in DOMAIN lazies, Cached!Respond(l)
          PROVE  Cached!Cache!ReceiveDocument(l) \/ Cached!Cache!ReceiveError(l) \/ Cached!Cache!Throw(l)
      BY <2>6 DEF Cached!Respond
    <2>7. CASE UNCHANGED Cached!vars
      BY <2>7 DEF Cached!vars, Cached!cacheVars, Cached!Cache!vars
    <2>8. QED
      BY <2>1, <2>2, <2>3, <2>4, <2>5, <2>6, <2>7 DEF Cached!Next, Cached!Cache!Next
  <1>3. QED
    BY <1>1, <1>2, PTL DEF Cached!Spec, Cached!Cache!Spec

-----------------------------------------------------------------------------
(* How many lazy responses there are.                                      *)

Deciding == {c \in CacheCallers : cachePc[c] \in {"test", "refresh"}}
Reading == {c \in CacheCallers : cachePc[c] = "read"}
Running == {l \in DOMAIN lazies : lazies[l] = "running"}

\* A call that may still refresh may add two lazy responses, its own and the
\* one that replaces it if it ends in an error; a call that still reads, or a
\* response that is on its way, may add one.
CountInv ==
    /\ IsFiniteSet(Deciding) /\ IsFiniteSet(Reading) /\ IsFiniteSet(Running)
    /\ Len(lazies) + 2 * Cardinality(Deciding) + Cardinality(Reading) + Cardinality(Running)
          <= 2 * calls + refreshes

LEMMA InitCountInv == Cached!Cache!Init => CountInv
  <1> SUFFICES ASSUME Cached!Cache!Init PROVE CountInv
    OBVIOUS
  <1>1. Deciding = {} /\ Reading = {} /\ Running = {}
    BY DEF Cached!Cache!Init, Deciding, Reading, Running
  <1>2. Len(lazies) = 0 /\ calls = 0 /\ refreshes = 0
    BY DEF Cached!Cache!Init
  <1>3. QED
    BY <1>1, <1>2, FS_EmptySet DEF CountInv

LEMMA NextCountInv == CacheInv /\ CountInv /\ [Cached!Cache!Next]_(Cached!Cache!vars) => CountInv'
  <1> SUFFICES ASSUME CacheInv, CountInv, [Cached!Cache!Next]_(Cached!Cache!vars) PROVE CountInv'
    OBVIOUS
  <1> USE DEF CountInv, CacheInv, CacheTypeInv, Cached!Cache!Goto
  <1>1. /\ Cardinality(Deciding) \in Nat /\ Cardinality(Reading) \in Nat /\ Cardinality(Running) \in Nat
        /\ Len(lazies) \in Nat /\ calls \in Nat /\ refreshes \in Nat
    BY FS_CardinalityType
  <1>2. CASE Cached!Cache!Tick \/ UNCHANGED Cached!Cache!vars
    <2>1. Deciding' = Deciding /\ Reading' = Reading /\ Running' = Running
      BY <1>2 DEF Cached!Cache!Tick, Cached!Cache!vars, Deciding, Reading, Running
    <2>2. QED
      BY <1>2, <2>1 DEF Cached!Cache!Tick, Cached!Cache!vars
  <1>3. CASE Cached!Cache!Refresh
    <2>1. Len(lazies') = Len(lazies) + 1 /\ refreshes' = refreshes + 1 /\ calls' = calls
      BY <1>3, AppendLazy DEF Cached!Cache!Refresh
    <2>2. Deciding' = Deciding /\ Reading' = Reading
      BY <1>3 DEF Cached!Cache!Refresh, Deciding, Reading
    <2>3. Running' = Running
      BY <1>3, AppendLazy DEF Cached!Cache!Refresh, Running
    <2>4. QED
      BY <1>1, <2>1, <2>2, <2>3, SMTT(30)
  <1>4. ASSUME NEW c \in CacheCallers, Cached!Cache!Get(c) PROVE CountInv'
    <2>1. Deciding' = Deciding \cup {c} /\ Reading' = Reading /\ Running' = Running
      BY <1>4 DEF Cached!Cache!Get, Deciding, Reading, Running
    <2>2. c \notin Deciding
      BY <1>4 DEF Cached!Cache!Get, Deciding
    <2>3. IsFiniteSet(Deciding') /\ Cardinality(Deciding') = Cardinality(Deciding) + 1
      BY <2>1, <2>2, FS_AddElement
    <2>4. lazies' = lazies /\ calls' = calls + 1 /\ refreshes' = refreshes
      BY <1>4 DEF Cached!Cache!Get
    <2>5. QED
      BY <1>1, <2>1, <2>3, <2>4, SMTT(30)
  <1>5. ASSUME NEW c \in CacheCallers, Cached!Cache!TestReload(c) PROVE CountInv'
    <2>1. lazies' = lazies /\ calls' = calls /\ refreshes' = refreshes /\ Running' = Running
      BY <1>5 DEF Cached!Cache!TestReload, Running
    <2>2. CASE nextReload <= now
      <3>1. Deciding' = Deciding /\ Reading' = Reading
        BY <1>5, <2>2 DEF Cached!Cache!TestReload, Deciding, Reading
      <3>2. QED
        BY <2>1, <3>1
    <2>3. CASE ~(nextReload <= now)
      <3>1. Deciding' = Deciding \ {c} /\ Reading' = Reading \cup {c}
        BY <1>5, <2>3 DEF Cached!Cache!TestReload, Deciding, Reading
      <3>2. c \in Deciding /\ c \notin Reading
        BY <1>5 DEF Cached!Cache!TestReload, Deciding, Reading
      <3>3. /\ IsFiniteSet(Deciding') /\ Cardinality(Deciding') = Cardinality(Deciding) - 1
            /\ IsFiniteSet(Reading') /\ Cardinality(Reading') = Cardinality(Reading) + 1
        BY <3>1, <3>2, FS_AddElement, FS_RemoveElement
      <3>4. QED
        BY <1>1, <2>1, <3>3, SMTT(30)
    <2>4. QED
      BY <2>2, <2>3
  <1>6. ASSUME NEW c \in CacheCallers, Cached!Cache!RefreshDue(c) PROVE CountInv'
    <2>1. Len(lazies') = Len(lazies) + 1 /\ refreshes' = refreshes /\ calls' = calls
      BY <1>6, AppendLazy DEF Cached!Cache!RefreshDue
    <2>2. Deciding' = Deciding \ {c} /\ Reading' = Reading \cup {c}
      BY <1>6 DEF Cached!Cache!RefreshDue, Deciding, Reading
    <2>3. c \in Deciding /\ c \notin Reading
      BY <1>6 DEF Cached!Cache!RefreshDue, Deciding, Reading
    <2>4. Running' = Running
      BY <1>6, AppendLazy DEF Cached!Cache!RefreshDue, Running
    <2>5. /\ IsFiniteSet(Deciding') /\ Cardinality(Deciding') = Cardinality(Deciding) - 1
          /\ IsFiniteSet(Reading') /\ Cardinality(Reading') = Cardinality(Reading) + 1
      BY <2>2, <2>3, FS_AddElement, FS_RemoveElement
    <2>6. IsFiniteSet(Running')
      BY <2>4
    <2>7. Len(lazies') + 2 * Cardinality(Deciding') + Cardinality(Reading') + Cardinality(Running')
             <= 2 * calls' + refreshes'
      <3>1. Cardinality(Running') = Cardinality(Running)
        BY <2>4
      <3>2. QED
        BY <1>1, <2>1, <2>5, <3>1, SMTT(30)
    <2>8. QED
      BY <2>5, <2>6, <2>7
  <1>7. ASSUME NEW c \in CacheCallers, Cached!Cache!ReadValue(c) PROVE CountInv'
    <2>1. Len(lazies') = Len(lazies) /\ refreshes' = refreshes /\ calls' = calls
      BY <1>7 DEF Cached!Cache!ReadValue, Cached!Cache!Statuses
    <2>2. Deciding' = Deciding /\ Reading' = Reading \ {c} /\ c \in Reading
      BY <1>7 DEF Cached!Cache!ReadValue, Deciding, Reading
    <2>3. IsFiniteSet(Reading') /\ Cardinality(Reading') = Cardinality(Reading) - 1
      BY <2>2, FS_RemoveElement
    <2>4. Running' = Running \/ Running' = Running \cup {Len(lazies)}
      BY <1>7 DEF Cached!Cache!ReadValue, Running, Cached!Cache!Statuses
    <2>5. IsFiniteSet(Running') /\ Cardinality(Running') \in {Cardinality(Running), Cardinality(Running) + 1}
      <3>1. CASE Running' = Running
        BY <3>1
      <3>2. CASE Running' = Running \cup {Len(lazies)}
        BY <3>2, FS_AddElement
      <3>3. QED
        BY <2>4, <3>1, <3>2
    <2>6. QED
      BY <1>1, <2>1, <2>2, <2>3, <2>5
  <1>8. ASSUME NEW c \in CacheCallers, Cached!Cache!Return(c) PROVE CountInv'
    <2>1. Deciding' = Deciding /\ Reading' = Reading /\ Running' = Running
      BY <1>8 DEF Cached!Cache!Return, Deciding, Reading, Running
    <2>2. QED
      BY <1>8, <2>1 DEF Cached!Cache!Return
  <1>9. ASSUME NEW l \in DOMAIN lazies, Cached!Cache!ReceiveDocument(l) \/ Cached!Cache!Throw(l) PROVE CountInv'
    <2>1. Len(lazies') = Len(lazies) /\ refreshes' = refreshes /\ calls' = calls
      BY <1>9 DEF Cached!Cache!ReceiveDocument, Cached!Cache!Throw, Cached!Cache!Statuses
    <2>2. Deciding' = Deciding /\ Reading' = Reading
      BY <1>9 DEF Cached!Cache!ReceiveDocument, Cached!Cache!Throw, Deciding, Reading
    <2>3. Running' = Running \ {l} /\ l \in Running
      BY <1>9 DEF Cached!Cache!ReceiveDocument, Cached!Cache!Throw, Running, Cached!Cache!Statuses
    <2>4. IsFiniteSet(Running') /\ Cardinality(Running') = Cardinality(Running) - 1
      BY <2>3, FS_RemoveElement
    <2>5. QED
      BY <1>1, <2>1, <2>2, <2>4
  <1>10. ASSUME NEW l \in DOMAIN lazies, Cached!Cache!ReceiveError(l) PROVE CountInv'
    <2>1. Len(lazies') = Len(lazies) + 1 /\ refreshes' = refreshes /\ calls' = calls
      BY <1>10 DEF Cached!Cache!ReceiveError, Cached!Cache!WithNewLazy, Cached!Cache!Statuses
    <2>2. Deciding' = Deciding /\ Reading' = Reading
      BY <1>10 DEF Cached!Cache!ReceiveError, Deciding, Reading
    <2>3. Running' = Running \ {l} /\ l \in Running
      BY <1>10 DEF Cached!Cache!ReceiveError, Cached!Cache!WithNewLazy, Running, Cached!Cache!Statuses
    <2>4. IsFiniteSet(Running') /\ Cardinality(Running') = Cardinality(Running) - 1
      BY <2>3, FS_RemoveElement
    <2>5. QED
      BY <1>1, <2>1, <2>2, <2>4
  <1>11. ASSUME NEW l \in DOMAIN lazies, Cached!Cache!ResetReload(l) PROVE CountInv'
    <2>1. Len(lazies') = Len(lazies) /\ refreshes' = refreshes /\ calls' = calls
      BY <1>11 DEF Cached!Cache!ResetReload, Cached!Cache!Statuses
    <2>2. Deciding' = Deciding /\ Reading' = Reading
      BY <1>11 DEF Cached!Cache!ResetReload, Deciding, Reading
    <2>3. Running' = Running
      BY <1>11 DEF Cached!Cache!ResetReload, Running, Cached!Cache!Statuses
    <2>4. QED
      BY <2>1, <2>2, <2>3
  <1>12. QED
    BY <1>2, <1>3, <1>4, <1>5, <1>6, <1>7, <1>8, <1>9, <1>10, <1>11 DEF Cached!Cache!Next

LEMMA CountInvariance == Cached!Cache!Spec => []CountInv
  BY CacheInvariance, InitCountInv, NextCountInv, PTL DEF Cached!Cache!Spec

\* Every lazy response has a request.
LEMMA LaziesAreBounded == CacheInv /\ CountInv => Len(lazies) <= Cached!MaxLazies
  <1> SUFFICES ASSUME CacheInv, CountInv PROVE Len(lazies) <= Cached!MaxLazies
    OBVIOUS
  <1>1. Cardinality(Deciding) \in Nat /\ Cardinality(Reading) \in Nat /\ Cardinality(Running) \in Nat
    BY FS_CardinalityType DEF CountInv
  <1>2. Len(lazies) \in Nat
    BY DEF CacheInv, CacheTypeInv
  <1>3. QED
    BY <1>1, <1>2, CacheAssumption DEF CountInv, CacheInv, CacheTypeInv, Cached!MaxLazies
-----------------------------------------------------------------------------
(* The keys.                                                               *)

KeysTypeInv ==
    /\ published \in Nat
    /\ keys \in [1..Cached!MaxLazies -> Nat \cup {None}]
    /\ wanted \in [CacheCallers \cup {None} -> Nat]

\* Nobody wants keys that are newer than what was wanted by the last Refresh,
\* nor that than what is published.
WantedInv ==
    /\ wanted[None] <= published
    /\ \A c \in CacheCallers : wanted[c] <= wanted[None]

NoOlder(l, version) == keys[l] # None => keys[l] >= version

\* The current lazy response was made by the last Refresh or later, and keys
\* are requested after it is made; what a caller waits for was current after
\* it had called.
KeysInv ==
    /\ KeysTypeInv
    /\ WantedInv
    /\ \A l \in 1..Cached!MaxLazies : l > Len(lazies) => keys[l] = None
    /\ lazies # <<>> => NoOlder(Len(lazies), wanted[None])
    /\ \A c \in CacheCallers : cachePc[c] = "await" => NoOlder(got[c], wanted[c])

LEMMA InitKeysInv == Cached!Init => KeysInv
  BY CacheAssumption, NoneAssumption
  DEF Cached!Init, Cached!Cache!Init, Cached!Document!Init, Cached!MaxLazies, KeysInv, KeysTypeInv, WantedInv, NoOlder

\* What a step that leaves the keys and what is wanted alone has to show.
LEMMA KeysInvKept ==
  ASSUME CacheInv, CacheInv', KeysInv, UNCHANGED <<published, keys, wanted>>,
         Len(lazies) <= Len(lazies'), Len(lazies') <= Cached!MaxLazies,
         \A c \in CacheCallers :
            cachePc'[c] = "await" =>
                \/ cachePc[c] = "await" /\ got'[c] = got[c]
                \/ lazies # <<>> /\ got'[c] = Len(lazies)
  PROVE  KeysInv'
  <1> USE NoneAssumption, CacheAssumption DEF KeysInv, KeysTypeInv, WantedInv, NoOlder, CacheInv, CacheTypeInv
  <1>1. KeysTypeInv' /\ WantedInv'
    BY DEF Cached!MaxLazies
  <1>2. \A l \in 1..Cached!MaxLazies : l > Len(lazies') => keys'[l] = None
    BY DEF Cached!MaxLazies
  <1>3. lazies' # <<>> => NoOlder(Len(lazies), wanted[None])'
    OBVIOUS
  <1>4. ASSUME NEW c \in CacheCallers, cachePc'[c] = "await" PROVE NoOlder(got[c], wanted[c])'
    <2>1. CASE cachePc[c] = "await" /\ got'[c] = got[c]
      BY <2>1
    <2>2. CASE lazies # <<>> /\ got'[c] = Len(lazies)
      <3>1. Len(lazies) \in 1..Cached!MaxLazies
        BY <2>2 DEF Cached!MaxLazies
      <3>2. keys[Len(lazies)] \in Nat \cup {None} /\ wanted[None] \in Nat /\ wanted[c] \in Nat
        BY <3>1
      <3>3. keys[Len(lazies)] # None => keys[Len(lazies)] >= wanted[None]
        BY <2>2
      <3>4. wanted[c] <= wanted[None]
        OBVIOUS
      <3>5. keys[Len(lazies)] # None => keys[Len(lazies)] >= wanted[c]
        BY <3>2, <3>3, <3>4
      <3>6. QED
        BY <2>2, <3>5
    <2>3. QED
      BY <1>4, <2>1, <2>2
  <1>5. QED
    BY <1>1, <1>2, <1>3, <1>4

LEMMA NextKeysInv ==
  CacheInv /\ CacheInv' /\ CountInv /\ CountInv' /\ KeysInv /\ [Cached!Next]_(Cached!vars) => KeysInv'
  <1> SUFFICES ASSUME CacheInv, CacheInv', CountInv, CountInv', KeysInv, [Cached!Next]_(Cached!vars)
               PROVE  KeysInv'
    OBVIOUS
  <1>1. Len(lazies) \in Nat /\ Len(lazies) <= Cached!MaxLazies
    BY LaziesAreBounded DEF CacheInv, CacheTypeInv
  <1>2. Len(lazies') \in Nat /\ Len(lazies') <= Cached!MaxLazies
    <2>1. (CacheInv /\ CountInv => Len(lazies) <= Cached!MaxLazies)'
      BY LaziesAreBounded, PTL
    <2>2. QED
      BY <2>1 DEF CacheInv, CacheTypeInv, Cached!MaxLazies
  <1> USE NoneAssumption, CacheAssumption DEF CacheInv, CacheTypeInv, LazyInv, Cached!Cache!Goto
  <1>3. CASE Cached!Refresh
    <2>1. /\ lazies' = Cached!Cache!WithNewLazy(lazies)
          /\ wanted' = [wanted EXCEPT ![None] = published]
          /\ UNCHANGED <<cachePc, got, published, keys>>
      BY <1>3 DEF Cached!Refresh, Cached!Cache!Refresh, Cached!documentVars
    <2>2. Len(lazies') = Len(lazies) + 1
      BY <2>1, AppendLazy
    <2>3. QED
      BY <1>1, <1>2, <2>1, <2>2, SMTT(30) DEF KeysInv, KeysTypeInv, WantedInv, NoOlder, Cached!MaxLazies
  <1>4. ASSUME NEW c \in CacheCallers, Cached!Get(c) PROVE KeysInv'
    <2>1. /\ cachePc' = [cachePc EXCEPT ![c] = "test"]
          /\ wanted' = [wanted EXCEPT ![c] = wanted[None]]
          /\ UNCHANGED <<lazies, got, published, keys>>
      BY <1>4 DEF Cached!Get, Cached!Cache!Get, Cached!documentVars
    <2>2. QED
      BY <2>1 DEF KeysInv, KeysTypeInv, WantedInv, NoOlder
  <1>5. ASSUME NEW c \in CacheCallers, Cached!Return(c) PROVE KeysInv'
    <2>1. /\ cachePc' = [cachePc EXCEPT ![c] = "idle"]
          /\ got' = [got EXCEPT ![c] = None]
          /\ wanted' = [wanted EXCEPT ![c] = 0]
          /\ UNCHANGED <<lazies, published, keys>>
      BY <1>5 DEF Cached!Return, Cached!Cache!Return, Cached!documentVars
    <2>2. QED
      BY <2>1 DEF KeysInv, KeysTypeInv, WantedInv, NoOlder
  <1>6. CASE Cached!CacheStep
    <2> USE KeysInvKept DEF Cached!CacheStep, Cached!documentVars
    <2>1. CASE Cached!Cache!Tick
      BY <1>1, <1>2, <1>6, <2>1 DEF Cached!Cache!Tick
    <2>2. ASSUME NEW c \in CacheCallers, Cached!Cache!TestReload(c) PROVE KeysInv'
      BY <1>1, <1>2, <1>6, <2>2 DEF Cached!Cache!TestReload
    <2>3. ASSUME NEW c \in CacheCallers, Cached!Cache!RefreshDue(c) PROVE KeysInv'
      BY <1>1, <1>2, <1>6, <2>3, AppendLazy DEF Cached!Cache!RefreshDue
    <2>4. ASSUME NEW c \in CacheCallers, Cached!Cache!ReadValue(c) PROVE KeysInv'
      BY <1>1, <1>2, <1>6, <2>4 DEF Cached!Cache!ReadValue
    <2>5. ASSUME NEW l \in DOMAIN lazies, Cached!Cache!ResetReload(l) PROVE KeysInv'
      BY <1>1, <1>2, <1>6, <2>5 DEF Cached!Cache!ResetReload
    <2>6. QED
      BY <1>6, <2>1, <2>2, <2>3, <2>4, <2>5
  <1>7. ASSUME NEW l \in DOMAIN lazies, Cached!RequestStep(l) PROVE KeysInv'
    <2>1. UNCHANGED <<lazies, cachePc, got, wanted>>
      BY <1>7 DEF Cached!RequestStep, Cached!cacheVars
    <2>2. published' = published /\ (keys' = keys \/ keys' = [keys EXCEPT ![l] = published])
      BY <1>7
      DEF Cached!RequestStep, Cached!Document!CallStep, Cached!Document!Refuse, Cached!Document!TestAuthority,
          Cached!Document!AssignAuthority, Cached!Document!Send, Cached!Document!ReceiveDocument,
          Cached!Document!ReceiveKeys, Cached!Document!Fail, Cached!Document!Cancel
    <2>3. \A m \in 1..Cached!MaxLazies :
             keys'[m] = keys[m] \/ (m = l /\ keys'[m] = published)
      BY <2>2 DEF KeysInv, KeysTypeInv
    <2>4. l \in 1..Len(lazies)
      OBVIOUS
    <2>5. \A c \in CacheCallers : cachePc[c] = "await" => got[c] \in 1..Cached!MaxLazies
      BY <1>1 DEF Cached!MaxLazies
    <2>6. lazies # <<>> => Len(lazies) \in 1..Cached!MaxLazies
      BY <1>1 DEF Cached!MaxLazies
    <2>7. KeysTypeInv' /\ WantedInv'
      BY <2>1, <2>2 DEF KeysInv, KeysTypeInv, WantedInv
    <2>8. \A m \in 1..Cached!MaxLazies : m > Len(lazies') => keys'[m] = None
      BY <1>1, <2>1, <2>3, <2>4 DEF KeysInv, Cached!MaxLazies
    <2>9. lazies' # <<>> => NoOlder(Len(lazies), wanted[None])'
      BY <2>1, <2>3, <2>6 DEF KeysInv, KeysTypeInv, WantedInv, NoOlder
    <2>10. \A c \in CacheCallers : cachePc'[c] = "await" => NoOlder(got[c], wanted[c])'
      BY <2>1, <2>3, <2>5 DEF KeysInv, KeysTypeInv, WantedInv, NoOlder
    <2>11. QED
      BY <2>7, <2>8, <2>9, <2>10 DEF KeysInv
  <1>8. ASSUME NEW l \in DOMAIN lazies, Cached!Respond(l) PROVE KeysInv'
    <2> USE KeysInvKept DEF Cached!Respond, Cached!documentVars
    <2>1. CASE Cached!Cache!ReceiveDocument(l)
      BY <1>1, <1>2, <1>8, <2>1 DEF Cached!Cache!ReceiveDocument
    <2>2. CASE Cached!Cache!ReceiveError(l)
      BY <1>1, <1>2, <1>8, <2>2 DEF Cached!Cache!ReceiveError, Cached!Cache!WithNewLazy
    <2>3. CASE Cached!Cache!Throw(l)
      BY <1>1, <1>2, <1>8, <2>3 DEF Cached!Cache!Throw
    <2>4. QED
      BY <1>8, <2>1, <2>2, <2>3
  <1>9. CASE Cached!RotateKeys
    <2>1. published' = published + 1 /\ UNCHANGED <<lazies, cachePc, got, keys, wanted>>
      BY <1>9 DEF Cached!RotateKeys, Cached!Document!RotateKeys, Cached!cacheVars
    <2>2. QED
      BY <2>1 DEF KeysInv, KeysTypeInv, WantedInv, NoOlder
  <1>10. CASE UNCHANGED Cached!vars
    BY <1>10 DEF Cached!vars, Cached!cacheVars, Cached!documentVars, KeysInv, KeysTypeInv, WantedInv, NoOlder
  <1>11. QED
    BY <1>3, <1>4, <1>5, <1>6, <1>7, <1>8, <1>9, <1>10 DEF Cached!Next

LEMMA KeysInvariance == Cached!Spec => []KeysInv
  <1>1. Cached!Spec => Cached!Init /\ [][Cached!Next]_(Cached!vars)
    BY DEF Cached!Spec
  <1>2. QED
    BY <1>1, CacheIsImplemented, CacheInvariance, CountInvariance, InitKeysInv, NextKeysInv, PTL

\* Refresh gets the keys of the server anew: no document that is given to a
\* call that follows has older ones, whichever requests end in between.
THEOREM RefreshedKeysAreCurrent == Cached!Spec => []RefreshGetsCurrentKeys
  <1>1. KeysInv => RefreshGetsCurrentKeys
    BY DEF KeysInv, NoOlder, RefreshGetsCurrentKeys, Cached!RefreshGetsCurrentKeys
  <1>2. QED
    BY <1>1, KeysInvariance, PTL

\* No call after a failure is given the failure, by an AsyncLazy or by the
\* DiscoveryCache over its requests.
THEOREM FailuresAreForgotten == Spec /\ Cached!Spec => []FailuresAreNotKept
  <1>1. CacheInv => Cached!Cache!ErrorsAreNotCached
    BY DEF CacheInv, ErrorInv
  <1>2. Cached!Spec => []Cached!Cache!ErrorsAreNotCached
    BY <1>1, CacheIsImplemented, CacheInvariance, PTL
  <1>3. Spec => []FailureIsNotServedAgain
    BY FailuresAreReplaced
  <1>4. FailureIsNotServedAgain /\ Cached!Cache!ErrorsAreNotCached => FailuresAreNotKept
    BY DEF FailuresAreNotKept
  <1>5. QED
    BY <1>2, <1>3, <1>4, PTL

-----------------------------------------------------------------------------
(* The paths of URLs.                                                      *)

\* What paths are made of.
Atoms == STRING \cup {"/", "document"}

LEMMA UrlParts ==
    ASSUME NEW url \in Requests!Urls
    PROVE  /\ url \in [scheme : STRING, host : STRING, caps : BOOLEAN, path : Seq(STRING)]
           /\ url.path \in Seq(Atoms)
           /\ url.path = <<>> \/ url.path[1] = "/"
           /\ Len(url.path) > 1 => url.path[2] # "/"
  <1>1. \A s \in Seq(STRING) : s \in Seq(Atoms)
    BY DEF Atoms
  <1>2. QED
    BY <1>1 DEF Requests!Urls

LEMMA PlainParts ==
    ASSUME NEW url \in Requests!PlainUrls
    PROVE  /\ url \in Requests!Urls
           /\ ~url.caps
           /\ url.path = <<>> \/ url.path[Len(url.path)] # "/"
  BY DEF Requests!PlainUrls, Requests!EndsWith, Requests!Last

LEMMA Slash ==
    /\ <<"/">> \in Seq(Atoms) /\ <<"/", "document">> \in Seq(Atoms)
    /\ Len(<<"/">>) = 1 /\ <<"/">>[1] = "/" /\ <<"/">> # <<>>
  BY DEF Atoms

LEMMA PrefixByElements ==
    ASSUME NEW s \in Seq(Atoms), NEW t \in Seq(Atoms)
    PROVE  Requests!IsPrefix(s, t) <=> Len(s) <= Len(t) /\ \A i \in 1..Len(s) : s[i] = t[i]
  <1>1. SubSeq(s, 1, Len(s)) = [i \in 1..Len(s) |-> s[i]]
    OBVIOUS
  <1>2. CASE Len(s) <= Len(t)
    <2>1. SubSeq(t, 1, Len(s)) = [i \in 1..Len(s) |-> t[i]]
      BY <1>2
    <2>2. QED
      BY <1>1, <1>2, <2>1 DEF Requests!IsPrefix
  <1>3. QED
    BY <1>2 DEF Requests!IsPrefix

\* A path without the slash at its end.
Trimmed(path) == IF path # <<>> /\ path[Len(path)] = "/" THEN SubSeq(path, 1, Len(path) - 1) ELSE path

LEMMA TrimmedUrl ==
    ASSUME NEW url \in Requests!Urls
    PROVE  Requests!RemoveTrailingSlash(url) =
               [scheme |-> url.scheme, host |-> url.host, caps |-> url.caps, path |-> Trimmed(url.path)]
  BY DEF Requests!RemoveTrailingSlash, Requests!EndsWith, Requests!Last, Requests!Front, Requests!Urls, Trimmed

LEMMA TrimmedByElements ==
    ASSUME NEW path \in Seq(Atoms)
    PROVE  /\ Trimmed(path) \in Seq(Atoms)
           /\ \/ Trimmed(path) = path /\ (path = <<>> \/ path[Len(path)] # "/")
              \/ /\ path # <<>> /\ path[Len(path)] = "/"
                 /\ Len(Trimmed(path)) = Len(path) - 1
                 /\ \A i \in 1..(Len(path) - 1) : Trimmed(path)[i] = path[i]
  <1>1. CASE path # <<>> /\ path[Len(path)] = "/"
    <2>1. Trimmed(path) = SubSeq(path, 1, Len(path) - 1)
      BY <1>1 DEF Trimmed
    <2>2. SubSeq(path, 1, Len(path) - 1) \in Seq(Atoms)
      BY <1>1
    <2>3. Len(SubSeq(path, 1, Len(path) - 1)) = Len(path) - 1
      BY <1>1
    <2>4. \A i \in 1..(Len(path) - 1) : SubSeq(path, 1, Len(path) - 1)[i] = path[i]
      BY <1>1
    <2>5. QED
      BY <1>1, <2>1, <2>2, <2>3, <2>4
  <1>2. CASE path = <<>> \/ path[Len(path)] # "/"
    BY <1>2 DEF Trimmed
  <1>3. QED
    BY <1>1, <1>2

LEMMA TrimmedPath ==
    ASSUME NEW path \in Seq(Atoms), NEW base \in Seq(Atoms), base = <<>> \/ base[Len(base)] # "/"
    PROVE  /\ Trimmed(base) = base
           /\ Trimmed(base \o <<"/">>) = base
           /\ Trimmed(path) = base <=> path \in {base, base \o <<"/">>}
  BY DEF Trimmed

\* What System.Uri makes of a path.
Rooted(path) == IF path = <<>> THEN <<"/">> ELSE path

NoCapitals == FALSE

LEMMA CanonicalUrl ==
    ASSUME NEW url, NEW Schemes, NEW Hosts, NEW Paths,
           url \in [scheme : Schemes, host : Hosts, caps : BOOLEAN, path : Paths]
    PROVE  Requests!Canonical(url) =
               [scheme |-> url.scheme, host |-> url.host, caps |-> NoCapitals, path |-> Rooted(url.path)]
  <1>1. PICK r : r = Rooted(url.path)
    OBVIOUS
  <1>2. PICK u : u = [url EXCEPT !.caps = NoCapitals]
    OBVIOUS
  <1>3. u = [scheme |-> url.scheme, host |-> url.host, caps |-> NoCapitals, path |-> url.path]
    BY <1>2
  <1>4. u \in [scheme : Schemes, host : Hosts, caps : {NoCapitals}, path : Paths]
    BY <1>3
  <1>5. [u EXCEPT !.path = r] = [scheme |-> u.scheme, host |-> u.host, caps |-> u.caps, path |-> r]
    BY <1>4
  <1>6. Requests!Canonical(url) = [u EXCEPT !.path = r]
    BY <1>1, <1>2, <1>3 DEF Requests!Canonical, Rooted, NoCapitals
  <1>7. QED
    BY <1>1, <1>3, <1>5, <1>6

\* As an issuer, a URL is compared with an Authority without the slashes at
\* their ends.
LEMMA SameIssuerPath ==
    ASSUME NEW path \in Seq(Atoms), NEW base \in Seq(Atoms),
           base = <<>> \/ base[Len(base)] # "/",
           Len(path) > 1 => path[2] # "/"
    PROVE  Rooted(Trimmed(path)) = Rooted(base) <=> path \in {base, base \o <<"/">>}
  <1>1. Trimmed(path) = base <=> path \in {base, base \o <<"/">>}
    BY TrimmedPath
  <1>2. Trimmed(path) # <<"/">>
    <2>1. SUFFICES ASSUME Len(Trimmed(path)) = 1, Trimmed(path)[1] = "/" PROVE FALSE
      BY Slash
    <2>2. \/ Trimmed(path) = path /\ (path = <<>> \/ path[Len(path)] # "/")
          \/ /\ path # <<>> /\ path[Len(path)] = "/"
             /\ Len(Trimmed(path)) = Len(path) - 1
             /\ \A i \in 1..(Len(path) - 1) : Trimmed(path)[i] = path[i]
      BY TrimmedByElements
    <2>3. Len(path) \in Nat /\ (path = <<>> => Len(path) = 0)
      OBVIOUS
    <2>4. Trimmed(path) # path
      <3>1. Trimmed(path) = path => Len(path) = 1 /\ path[Len(path)] = "/"
        BY <2>1
      <3>2. QED
        BY <2>2, <2>3, <3>1
    <2>5. Len(path) = 2 /\ path[2] = "/"
      <3>1. path[Len(path)] = "/" /\ Len(Trimmed(path)) = Len(path) - 1
        BY <2>2, <2>4
      <3>2. 1 = Len(path) - 1
        BY <2>1, <3>1
      <3>3. Len(path) = 2
        BY <2>3, <3>2
      <3>4. QED
        BY <3>1, <3>3
    <2>6. QED
      BY <2>5
  <1>3. base # <<"/">>
    BY Slash
  <1>4. QED
    BY <1>1, <1>2, <1>3 DEF Rooted

\* An endpoint begins with a base whether or not its slash at the end is left
\* out and the root has one.
LEMMA SameBeginning ==
    ASSUME NEW path \in Seq(Atoms), NEW base \in Seq(Atoms),
           base = <<>> \/ base[Len(base)] # "/",
           path = <<>> \/ path[1] = "/"
    PROVE  Requests!IsPrefix(Rooted(base), Rooted(Trimmed(path))) <=> Requests!IsPrefix(base, path)
  <1>1. PICK t \in Seq(Atoms) : t = Trimmed(path)
    BY TrimmedByElements
  <1>2. PICK slash \in Seq(Atoms) : slash = <<"/">> /\ Len(slash) = 1 /\ slash[1] = "/"
    BY Slash
  <1>3. /\ Requests!IsPrefix(base, path) <=> Len(base) <= Len(path) /\ \A i \in 1..Len(base) : base[i] = path[i]
        /\ Requests!IsPrefix(base, t) <=> Len(base) <= Len(t) /\ \A i \in 1..Len(base) : base[i] = t[i]
        /\ Requests!IsPrefix(base, slash) <=> Len(base) <= Len(slash) /\ \A i \in 1..Len(base) : base[i] = slash[i]
        /\ Requests!IsPrefix(slash, t) <=> Len(slash) <= Len(t) /\ \A i \in 1..Len(slash) : slash[i] = t[i]
        /\ Requests!IsPrefix(slash, slash)
    BY PrefixByElements
  <1>4. \/ t = path
        \/ /\ path # <<>> /\ path[Len(path)] = "/" /\ Len(t) = Len(path) - 1
           /\ \A i \in 1..(Len(path) - 1) : t[i] = path[i]
    BY <1>1, TrimmedByElements
  <1>5. CASE base = <<>>
    <2>1. Len(base) = 0
      BY <1>5
    <2>2. Requests!IsPrefix(base, path)
      BY <1>3, <2>1
    <2>3. Rooted(t) = slash \/ Requests!IsPrefix(slash, Rooted(t))
      <3>1. CASE t = <<>>
        BY <1>2, <3>1 DEF Rooted
      <3>2. CASE t # <<>>
        <4>1. Len(t) >= 1 /\ t[1] = "/"
          BY <1>4, <3>2, SMTT(30)
        <4>2. QED
          BY <1>2, <1>3, <3>2, <4>1 DEF Rooted
      <3>3. QED
        BY <3>1, <3>2
    <2>4. QED
      BY <1>1, <1>2, <1>3, <1>5, <2>2, <2>3 DEF Rooted
  <1>6. CASE base # <<>>
    <2>1. Len(base) > 0
      BY <1>6
    <2>2. Requests!IsPrefix(base, path) <=> Requests!IsPrefix(base, t)
      BY <1>3, <1>4, <2>1
    <2>3. t = <<>> => ~Requests!IsPrefix(base, t)
      BY <1>3, <2>1
    <2>4. ~Requests!IsPrefix(base, slash)
      BY <1>2, <1>3, <2>1
    <2>5. QED
      BY <1>1, <1>2, <1>6, <2>2, <2>3, <2>4 DEF Rooted
  <1>7. QED
    BY <1>5, <1>6

\* The Authority that an address makes.
AuthorityBy(scheme, caps) == [scheme |-> scheme, host |-> Server.host, caps |-> caps, path |-> Server.path]

LEMMA AddressPath ==
    ASSUME NEW server \in Seq(Atoms), server = <<>> \/ server[Len(server)] \notin {"/", "document"},
           NEW tail \in {<<>>, <<"/">>, <<"/", "document">>, <<"/", "document", "/">>}
    PROVE  Trimmed(server \o tail) \in {server, server \o <<"/", "document">>}
  <1>1. CASE tail = <<>>
    BY <1>1 DEF Trimmed
  <1>2. CASE tail = <<"/">>
    BY <1>2, TrimmedPath
  <1>3. CASE tail = <<"/", "document">>
    BY <1>3 DEF Trimmed
  <1>4. CASE tail = <<"/", "document", "/">>
    BY <1>4 DEF Trimmed
  <1>5. QED
    BY <1>1, <1>2, <1>3, <1>4

LEMMA DocumentPath ==
    ASSUME NEW server \in Seq(Atoms), NEW path, path = server \o <<"/", "document">>
    PROVE  path # <<>> /\ Requests!Last(path) = "document" /\ Requests!Front(Requests!Front(path)) = server
  BY DEF Requests!Front, Requests!Last

LEMMA AuthorityOfAddress ==
    ASSUME NEW a, Requests!IsSpelling(a)
    PROVE  Requests!AuthorityOf(a) = AuthorityBy(a.scheme, a.caps)
  <1>1. /\ Server.path \in Seq(Atoms)
        /\ Server.path = <<>> \/ Server.path[Len(Server.path)] \notin {"/", "document"}
    BY DataAssumption, UrlParts, PlainParts DEF Requests!IsData, Requests!EndsWith, Requests!Last
  <1>2. PICK tail \in {<<>>, <<"/">>, <<"/", "document">>, <<"/", "document", "/">>} : a.path = Server.path \o tail
    BY DEF Requests!IsSpelling
  <1>3. a \in Requests!Urls /\ a.host = Server.host
    BY DEF Requests!IsSpelling
  <1>4. PICK p : p = Trimmed(a.path)
    OBVIOUS
  <1>5. p = Server.path \/ p = Server.path \o <<"/", "document">>
    BY <1>1, <1>2, <1>4, AddressPath
  <1>6. PICK u : u = Requests!RemoveTrailingSlash(a)
    OBVIOUS
  <1>7. u = [scheme |-> a.scheme, host |-> Server.host, caps |-> a.caps, path |-> p]
    BY <1>3, <1>4, <1>6, TrimmedUrl
  <1>8. Requests!AuthorityOf(a) =
            IF Requests!EndsWith(u, "document") THEN [u EXCEPT !.path = Requests!Front(Requests!Front(@))] ELSE u
    BY <1>6 DEF Requests!AuthorityOf
  <1>9. CASE p = Server.path
    <2>1. ~Requests!EndsWith(u, "document")
      BY <1>1, <1>7, <1>9 DEF Requests!EndsWith, Requests!Last
    <2>2. QED
      BY <1>7, <1>8, <1>9, <2>1 DEF AuthorityBy
  <1>10. CASE p = Server.path \o <<"/", "document">>
    <2>1. p # <<>> /\ Requests!Last(p) = "document" /\ Requests!Front(Requests!Front(p)) = Server.path
      BY <1>1, <1>10, DocumentPath
    <2>2. Requests!EndsWith(u, "document")
      BY <1>7, <2>1 DEF Requests!EndsWith
    <2>3. QED
      BY <1>7, <1>8, <2>1, <2>2 DEF AuthorityBy
  <1>11. QED
    BY <1>5, <1>9, <1>10

LEMMA ServerUrl ==
    /\ Server \in Requests!PlainUrls /\ Server \in Requests!Urls
    /\ Server.path \in Seq(Atoms) /\ Trimmed(Server.path) = Server.path
    /\ Server.path = <<>> \/ Server.path[Len(Server.path)] # "/"
    /\ Trimmed(Server.path \o <<"/">>) = Server.path
    /\ Requests!WellFormed(Server) /\ ~Server.caps
  BY DataAssumption, UrlParts, PlainParts, TrimmedPath DEF Requests!IsData

-----------------------------------------------------------------------------
(* Issuers and endpoints.                                                  *)

\* A URL that names or begins with: what the strategies have in common.
LEMMA IssuerMatches ==
    ASSUME NEW issuer \in Requests!Urls, NEW authority \in Requests!Urls, policy.authority = authority,
           policy.strategy \in {"string", "url"},
           Trimmed(authority.path) = Server.path, Requests!WellFormed(authority)
    PROVE  Requests!IsIssuerNameValid(issuer) <=>
               /\ issuer # None
               /\ issuer.scheme = authority.scheme /\ issuer.host = authority.host
               /\ issuer.path \in {Server.path, Server.path \o <<"/">>}
               /\ policy.strategy = "string" => issuer.caps = authority.caps
  <1> DEFINE i == [scheme |-> issuer.scheme, host |-> issuer.host, caps |-> issuer.caps, path |-> Trimmed(issuer.path)]
             a == [scheme |-> authority.scheme, host |-> authority.host, caps |-> authority.caps, path |-> Server.path]
  <1>1. Requests!RemoveTrailingSlash(issuer) = i /\ Requests!RemoveTrailingSlash(authority) = a
    BY TrimmedUrl
  <1>2. /\ issuer.path \in Seq(Atoms) /\ (Len(issuer.path) > 1 => issuer.path[2] # "/")
        /\ issuer.caps \in BOOLEAN /\ authority.caps \in BOOLEAN
    BY UrlParts
  <1>3. CASE policy.strategy = "string"
    <2>1. Requests!IsIssuerNameValid(issuer) <=> issuer # None /\ i = a
      BY <1>1, <1>3 DEF Requests!IsIssuerNameValid
    <2>2. Trimmed(issuer.path) = Server.path <=> issuer.path \in {Server.path, Server.path \o <<"/">>}
      BY <1>2, ServerUrl, TrimmedPath
    <2>3. i = a <=> /\ issuer.scheme = authority.scheme /\ issuer.host = authority.host
                   /\ issuer.caps = authority.caps /\ Trimmed(issuer.path) = Server.path
      OBVIOUS
    <2>4. QED
      BY <1>3, <2>1, <2>2, <2>3
  <1>4. CASE policy.strategy = "url"
    <2>1. Requests!IsIssuerNameValid(issuer) <=>
              issuer # None /\ Requests!WellFormed(issuer) /\ Requests!Canonical(i) = Requests!Canonical(a)
      BY <1>1, <1>4 DEF Requests!IsIssuerNameValid
    <2>2. /\ Requests!Canonical(i) =
                [scheme |-> i.scheme, host |-> i.host, caps |-> NoCapitals, path |-> Rooted(i.path)]
          /\ Requests!Canonical(a) =
                [scheme |-> a.scheme, host |-> a.host, caps |-> NoCapitals, path |-> Rooted(a.path)]
      <3>1. /\ i \in [scheme : {issuer.scheme}, host : {issuer.host}, caps : BOOLEAN, path : {Trimmed(issuer.path)}]
            /\ a \in [scheme : {authority.scheme}, host : {authority.host}, caps : BOOLEAN, path : {Server.path}]
        BY <1>2
      <3> HIDE DEF i, a
      <3>2. QED
        BY <3>1, CanonicalUrl, ZenonT(30)
    <2>3. Rooted(Trimmed(issuer.path)) = Rooted(Server.path) <=> issuer.path \in {Server.path, Server.path \o <<"/">>}
      BY <1>2, ServerUrl, SameIssuerPath
    <2>4. Requests!Canonical(i) = Requests!Canonical(a) <=>
              /\ issuer.scheme = authority.scheme /\ issuer.host = authority.host
              /\ Rooted(Trimmed(issuer.path)) = Rooted(Server.path)
      BY <2>2
    <2>5. issuer.scheme = authority.scheme => Requests!WellFormed(issuer)
      BY DEF Requests!WellFormed
    <2>6. QED
      BY <1>4, <2>1, <2>3, <2>4, <2>5
  <1>5. QED
    BY <1>3, <1>4

\* IsEndpointValid for one base.
Matches(url, base) ==
    CASE policy.strategy = "string" -> Requests!StartsWith(url, base)
      [] policy.strategy = "url" ->
            Requests!StartsWith(
                Requests!Canonical(Requests!RemoveTrailingSlash(url)),
                Requests!Canonical(Requests!RemoveTrailingSlash(base)))

LEMMA EndpointMatches ==
    ASSUME NEW url \in Requests!Urls, NEW base \in Requests!Urls, NEW path \in Seq(Atoms),
           path = <<>> \/ path[Len(path)] # "/", Trimmed(base.path) = path,
           policy.strategy = "url" \/ (policy.strategy = "string" /\ base.path = path)
    PROVE  Matches(url, base) <=>
               /\ url.scheme = base.scheme /\ url.host = base.host
               /\ Requests!IsPrefix(path, url.path)
               /\ policy.strategy = "string" => url.caps = base.caps
  <1>1. CASE policy.strategy = "string"
    <2>1. Matches(url, base) <=> Requests!StartsWith(url, base)
      BY <1>1 DEF Matches
    <2>2. QED
      BY <1>1, <2>1 DEF Requests!StartsWith
  <1>2. CASE policy.strategy = "url"
    <2> DEFINE u == [scheme |-> url.scheme, host |-> url.host, caps |-> url.caps, path |-> Trimmed(url.path)]
               b == [scheme |-> base.scheme, host |-> base.host, caps |-> base.caps, path |-> path]
    <2>1. Requests!RemoveTrailingSlash(url) = u /\ Requests!RemoveTrailingSlash(base) = b
      BY TrimmedUrl
    <2>2. /\ url.path \in Seq(Atoms) /\ (url.path = <<>> \/ url.path[1] = "/")
          /\ url.caps \in BOOLEAN /\ base.caps \in BOOLEAN
      BY UrlParts
    <2>3. /\ Requests!Canonical(u) =
                [scheme |-> u.scheme, host |-> u.host, caps |-> NoCapitals, path |-> Rooted(u.path)]
          /\ Requests!Canonical(b) =
                [scheme |-> b.scheme, host |-> b.host, caps |-> NoCapitals, path |-> Rooted(b.path)]
      <3>1. /\ u \in [scheme : {url.scheme}, host : {url.host}, caps : BOOLEAN, path : {Trimmed(url.path)}]
            /\ b \in [scheme : {base.scheme}, host : {base.host}, caps : BOOLEAN, path : {path}]
        BY <2>2
      <3> HIDE DEF u, b
      <3>2. QED
        BY <3>1, CanonicalUrl, ZenonT(30)
    <2>4. Matches(url, base) <=> Requests!StartsWith(Requests!Canonical(u), Requests!Canonical(b))
      BY <1>2, <2>1 DEF Matches
    <2>5. Requests!StartsWith(Requests!Canonical(u), Requests!Canonical(b)) <=>
              /\ url.scheme = base.scheme /\ url.host = base.host
              /\ Requests!IsPrefix(Rooted(path), Rooted(Trimmed(url.path)))
      BY <2>3 DEF Requests!StartsWith
    <2>6. Requests!IsPrefix(Rooted(path), Rooted(Trimmed(url.path))) <=> Requests!IsPrefix(path, url.path)
      BY <2>2, SameBeginning
    <2>7. QED
      BY <1>2, <2>4, <2>5, <2>6
  <1>3. QED
    BY <1>1, <1>2

-----------------------------------------------------------------------------
(* Validation.                                                             *)

PolicyRecords == [
    authority : {None} \cup Requests!Urls, strategy : {"string", "url"}, requireHttps : BOOLEAN,
    allowHttpOnLoopback : BOOLEAN, validateIssuerName : BOOLEAN, validateEndpoints : BOOLEAN,
    excluded : SUBSET STRING, additional : SUBSET Requests!PlainUrls, requireKeySet : BOOLEAN]

\* What the Authority of the policy may be, once there is one.
AuthorityInv ==
    /\ policy \in PolicyRecords
    /\ \/ policy.authority \in {None, Server}
       \/ policy.strategy = "url" /\ policy.authority = [Server EXCEPT !.path = @ \o <<"/">>]
       \/ \E a \in Requests!Addressed : policy.authority = AuthorityBy(a.scheme, a.caps)

\* The server by the scheme of an authority.
ServerBy(scheme) == [Server EXCEPT !.scheme = scheme]

LEMMA ServerByScheme ==
    ASSUME NEW scheme
    PROVE  ServerBy(scheme) = [scheme |-> scheme, host |-> Server.host, caps |-> Server.caps, path |-> Server.path]
  BY ServerUrl DEF ServerBy, Requests!Urls

\* Addresses are spellings of the server.
AddressesInv == \A a \in Requests!Addressed : Requests!IsSpelling(a) /\ Requests!WellFormed(a)

\* The Authority is the server, by the scheme and with the capitals of itself or
\* of an address.
LEMMA AuthorityParts ==
    ASSUME AuthorityInv, AddressesInv, policy.authority # None
    PROVE  /\ policy.authority \in Requests!Urls /\ Requests!WellFormed(policy.authority)
           /\ policy.authority.host = Server.host
           /\ Trimmed(policy.authority.path) = Server.path
           /\ policy.strategy = "string" => policy.authority.path = Server.path
           /\ \/ policy.authority.scheme = Server.scheme /\ ~policy.authority.caps
              \/ \E a \in Requests!Addressed :
                    policy.authority.scheme = a.scheme /\ policy.authority.caps = a.caps
  <1>1. policy.authority \in Requests!Urls
    BY DEF AuthorityInv, PolicyRecords
  <1>2. CASE policy.authority = Server
    BY <1>1, <1>2, ServerUrl
  <1>3. CASE policy.strategy = "url" /\ policy.authority = [Server EXCEPT !.path = @ \o <<"/">>]
    <2>1. policy.authority = [
              scheme |-> Server.scheme, host |-> Server.host, caps |-> Server.caps, path |-> Server.path \o <<"/">>]
      BY <1>3, ServerUrl, UrlParts
    <2>2. QED
      BY <1>1, <1>3, <2>1, ServerUrl DEF Requests!WellFormed
  <1>4. CASE \E a \in Requests!Addressed : policy.authority = AuthorityBy(a.scheme, a.caps)
    <2>1. PICK a \in Requests!Addressed : policy.authority = AuthorityBy(a.scheme, a.caps)
      BY <1>4
    <2>2. Requests!WellFormed(a)
      BY DEF AddressesInv
    <2>3. QED
      BY <1>1, <2>1, <2>2, ServerUrl DEF Requests!WellFormed, AuthorityBy
  <1>5. QED
    BY <1>2, <1>3, <1>4 DEF AuthorityInv

\* The bases of endpoints.
LEMMA BasesMatch ==
    ASSUME AuthorityInv, AddressesInv, policy.authority # None, NEW url \in Requests!Urls
    PROVE  /\ \A base \in policy.additional :
                  Matches(url, base) <=> Requests!Begins(url, base) /\ (policy.strategy = "string" => ~url.caps)
           /\ Matches(url, policy.authority) <=>
                  /\ Requests!Begins(url, ServerBy(policy.authority.scheme))
                  /\ policy.strategy = "string" => url.caps = policy.authority.caps
  <1>1. policy.strategy \in {"string", "url"} /\ policy.additional \subseteq Requests!PlainUrls
    BY DEF AuthorityInv, PolicyRecords
  <1>2. ASSUME NEW base \in policy.additional
        PROVE  Matches(url, base) <=> Requests!Begins(url, base) /\ (policy.strategy = "string" => ~url.caps)
    <2>1. /\ base \in Requests!Urls /\ ~base.caps /\ base.path \in Seq(Atoms)
          /\ base.path = <<>> \/ base.path[Len(base.path)] # "/"
      BY <1>1, PlainParts, UrlParts
    <2>2. Trimmed(base.path) = base.path
      BY <2>1, TrimmedPath
    <2>3. Matches(url, base) <=>
              /\ url.scheme = base.scheme /\ url.host = base.host
              /\ Requests!IsPrefix(base.path, url.path)
              /\ policy.strategy = "string" => url.caps = base.caps
      BY <1>1, <2>1, <2>2, EndpointMatches
    <2>4. url.caps \in BOOLEAN /\ base.caps \in BOOLEAN
      BY <2>1, UrlParts
    <2>5. url.caps = base.caps <=> ~url.caps
      BY <2>1, <2>4
    <2>6. QED
      BY <2>3, <2>5 DEF Requests!Begins
  <1>3. Matches(url, policy.authority) <=>
            /\ Requests!Begins(url, ServerBy(policy.authority.scheme))
            /\ policy.strategy = "string" => url.caps = policy.authority.caps
    <2>1. /\ policy.authority \in Requests!Urls /\ policy.authority.host = Server.host
          /\ Trimmed(policy.authority.path) = Server.path
          /\ policy.strategy = "string" => policy.authority.path = Server.path
      BY AuthorityParts
    <2>2. Matches(url, policy.authority) <=>
              /\ url.scheme = policy.authority.scheme /\ url.host = policy.authority.host
              /\ Requests!IsPrefix(Server.path, url.path)
              /\ policy.strategy = "string" => url.caps = policy.authority.caps
      BY <1>1, <2>1, ServerUrl, EndpointMatches
    <2>3. QED
      BY <2>1, <2>2, ServerByScheme DEF Requests!Begins
  <1>4. QED
    BY <1>2, <1>3

\* All are spelled alike: the addresses have the scheme of the server, and no
\* address has capitals if names are compared as strings.
AddressedAlike ==
    /\ \A a \in Requests!Addressed : a.scheme = Server.scheme
    /\ policy.strategy = "string" => \A a \in Requests!Addressed : ~a.caps

LEMMA AuthoritiesParts ==
    ASSUME AuthorityInv, AddressesInv, policy.authority # None
    PROVE  /\ ServerBy(policy.authority.scheme) \in Requests!Authorities
           /\ \A authority \in Requests!Authorities : \E scheme : authority = ServerBy(scheme)
           /\ AddressedAlike =>
                  /\ policy.authority.scheme = Server.scheme
                  /\ policy.strategy = "string" => ~policy.authority.caps
                  /\ \A authority \in Requests!Authorities : authority = ServerBy(policy.authority.scheme)
  <1>1. Requests!Authorities =
            {ServerBy(scheme) : scheme \in {Server.scheme} \cup {a.scheme : a \in Requests!Addressed}}
    BY DEF Requests!Authorities, ServerBy
  <1>2. policy.authority.scheme \in {Server.scheme} \cup {a.scheme : a \in Requests!Addressed}
    BY AuthorityParts
  <1>3. ASSUME AddressedAlike
        PROVE  /\ policy.authority.scheme = Server.scheme
               /\ policy.strategy = "string" => ~policy.authority.caps
               /\ \A authority \in Requests!Authorities : authority = ServerBy(policy.authority.scheme)
    <2>1. policy.authority.scheme = Server.scheme
      BY <1>2, <1>3 DEF AddressedAlike
    <2>2. policy.strategy = "string" => ~policy.authority.caps
      BY <1>3, AuthorityParts DEF AddressedAlike
    <2>3. \A authority \in Requests!Authorities : authority = ServerBy(policy.authority.scheme)
      BY <1>1, <1>3, <2>1 DEF AddressedAlike
    <2>4. QED
      BY <2>1, <2>2, <2>3
  <1>4. QED
    BY <1>1, <1>2, <1>3

\* An issuer.
LEMMA IssuerVerdict ==
    ASSUME AuthorityInv, AddressesInv, policy.authority # None, NEW issuer \in {None} \cup Requests!Urls
    PROVE  LET named == /\ issuer # None
                        /\ \E authority \in Requests!Authorities :
                              /\ <<issuer.scheme, issuer.host>> = <<authority.scheme, authority.host>>
                              /\ issuer.path \in {authority.path, authority.path \o <<"/">>}
           IN  /\ Requests!IsIssuerNameValid(issuer) => named
               /\ AddressedAlike /\ (policy.strategy = "string" => issuer = None \/ ~issuer.caps) /\ named =>
                      Requests!IsIssuerNameValid(issuer)
  <1>1. CASE issuer = None
    BY <1>1 DEF Requests!IsIssuerNameValid
  <1>2. CASE issuer # None
    <2>1. issuer \in Requests!Urls
      BY <1>2
    <2>2. Requests!IsIssuerNameValid(issuer) <=>
              /\ issuer.scheme = policy.authority.scheme /\ issuer.host = Server.host
              /\ issuer.path \in {Server.path, Server.path \o <<"/">>}
              /\ policy.strategy = "string" => issuer.caps = policy.authority.caps
      <3>1. policy.strategy \in {"string", "url"}
        BY DEF AuthorityInv, PolicyRecords
      <3>2. /\ policy.authority \in Requests!Urls /\ Trimmed(policy.authority.path) = Server.path
            /\ Requests!WellFormed(policy.authority) /\ policy.authority.host = Server.host
        BY AuthorityParts
      <3>3. PICK authority : authority = policy.authority
        OBVIOUS
      <3>4. Requests!IsIssuerNameValid(issuer) <=>
                /\ issuer # None
                /\ issuer.scheme = authority.scheme /\ issuer.host = authority.host
                /\ issuer.path \in {Server.path, Server.path \o <<"/">>}
                /\ policy.strategy = "string" => issuer.caps = authority.caps
        BY <2>1, <3>1, <3>2, <3>3, IssuerMatches
      <3>5. QED
        BY <1>2, <3>2, <3>3, <3>4
    <2>3. \A scheme : ServerBy(scheme) =
              [scheme |-> scheme, host |-> Server.host, caps |-> Server.caps, path |-> Server.path]
      BY ServerByScheme
    <2>4. ASSUME Requests!IsIssuerNameValid(issuer)
          PROVE  \E authority \in Requests!Authorities :
                     /\ <<issuer.scheme, issuer.host>> = <<authority.scheme, authority.host>>
                     /\ issuer.path \in {authority.path, authority.path \o <<"/">>}
      <3>1. ServerBy(policy.authority.scheme) \in Requests!Authorities
        BY AuthoritiesParts
      <3>2. QED
        BY <2>2, <2>3, <2>4, <3>1
    <2>5. ASSUME AddressedAlike, policy.strategy = "string" => ~issuer.caps,
                 NEW authority \in Requests!Authorities,
                 <<issuer.scheme, issuer.host>> = <<authority.scheme, authority.host>>,
                 issuer.path \in {authority.path, authority.path \o <<"/">>}
          PROVE  Requests!IsIssuerNameValid(issuer)
      <3>1. authority = [
                scheme |-> policy.authority.scheme, host |-> Server.host, caps |-> Server.caps, path |-> Server.path]
        BY <2>3, <2>5, AuthoritiesParts
      <3>2. policy.strategy = "string" => issuer.caps = policy.authority.caps
        <4>1. issuer.caps \in BOOLEAN /\ policy.authority.caps \in BOOLEAN
          BY <2>1, AuthorityParts, UrlParts
        <4>2. policy.strategy = "string" => ~issuer.caps /\ ~policy.authority.caps
          BY <2>5, AuthoritiesParts
        <4>3. QED
          BY <4>1, <4>2
      <3>3. QED
        BY <2>2, <2>5, <3>1, <3>2
    <2>6. QED
      BY <1>2, <2>4, <2>5
  <1>3. QED
    BY <1>1, <1>2

\* An endpoint.
LEMMA EndpointVerdict ==
    ASSUME AuthorityInv, AddressesInv, policy.authority # None, NEW url \in Requests!Urls
    PROVE  LET valid == /\ url.host \in {base.host : base \in policy.additional \cup {policy.authority}}
                        /\ Requests!IsEndpointValid(url)
               begins == \E base \in policy.additional \cup Requests!Authorities : Requests!Begins(url, base)
           IN  /\ valid => begins
               /\ AddressedAlike /\ (policy.strategy = "string" => ~url.caps) /\ begins => valid
  <1>1. Requests!IsEndpointValid(url) <=>
            \E base \in policy.additional \cup {policy.authority} : Matches(url, base)
    BY DEF Requests!IsEndpointValid, Matches
  <1>2. ASSUME NEW base \in policy.additional \cup {policy.authority}, Matches(url, base)
        PROVE  \E b \in policy.additional \cup Requests!Authorities : Requests!Begins(url, b)
    <2>1. CASE base \in policy.additional
      BY <1>2, <2>1, BasesMatch
    <2>2. CASE base = policy.authority
      BY <1>2, <2>2, BasesMatch, AuthoritiesParts
    <2>3. QED
      BY <2>1, <2>2
  <1>3. ASSUME AddressedAlike, policy.strategy = "string" => ~url.caps,
               NEW base \in policy.additional \cup Requests!Authorities, Requests!Begins(url, base)
        PROVE  /\ url.host \in {b.host : b \in policy.additional \cup {policy.authority}}
               /\ \E b \in policy.additional \cup {policy.authority} : Matches(url, b)
    <2>1. CASE base \in policy.additional
      <3>1. Matches(url, base)
        BY <1>3, <2>1, BasesMatch
      <3>2. url.host = base.host
        BY <1>3 DEF Requests!Begins
      <3>3. QED
        BY <2>1, <3>1, <3>2
    <2>2. CASE base \in Requests!Authorities
      <3>1. base = ServerBy(policy.authority.scheme)
        BY <1>3, <2>2, AuthoritiesParts
      <3>2. policy.strategy = "string" => url.caps = policy.authority.caps
        <4>1. url.caps \in BOOLEAN /\ policy.authority.caps \in BOOLEAN
          BY AuthorityParts, UrlParts
        <4>2. policy.strategy = "string" => ~url.caps /\ ~policy.authority.caps
          BY <1>3, AuthoritiesParts
        <4>3. QED
          BY <4>1, <4>2
      <3>3. Matches(url, policy.authority)
        BY <1>3, <3>1, <3>2, BasesMatch
      <3>4. url.host = policy.authority.host
        BY <1>3, <3>1, ServerByScheme, AuthorityParts DEF Requests!Begins
      <3>5. QED
        BY <3>3, <3>4
    <2>3. QED
      BY <2>1, <2>2
  <1>4. QED
    BY <1>1, <1>2, <1>3

\* A document is accepted only if it conforms, and whenever it conforms and all
\* is spelled alike.
LEMMA Verdict ==
    ASSUME AuthorityInv, AddressesInv, policy.authority # None, NEW d, Requests!IsDocument(d)
    PROVE  /\ Requests!Validate(d) => Requests!Conforms(d)
           /\ Requests!SpelledAlike(d) /\ Requests!Conforms(d) => Requests!Validate(d)
  <1> DEFINE alike == AddressedAlike
             plain(url) == policy.strategy = "string" => ~url.caps
             named == /\ d.issuer # None
                      /\ \E authority \in Requests!Authorities :
                            /\ <<d.issuer.scheme, d.issuer.host>> = <<authority.scheme, authority.host>>
                            /\ d.issuer.path \in {authority.path, authority.path \o <<"/">>}
             valid(url) == /\ url.host \in {base.host : base \in policy.additional \cup {policy.authority}}
                           /\ Requests!IsEndpointValid(url)
             begins(url) == \E base \in policy.additional \cup Requests!Authorities : Requests!Begins(url, base)
  <1>1. /\ Requests!IsIssuerNameValid(d.issuer) => named
        /\ alike /\ (policy.strategy = "string" => d.issuer = None \/ ~d.issuer.caps) /\ named =>
               Requests!IsIssuerNameValid(d.issuer)
    BY IssuerVerdict DEF Requests!IsDocument
  <1>2. ASSUME NEW name \in DOMAIN d.endpoints
        PROVE  /\ valid(d.endpoints[name]) => begins(d.endpoints[name])
               /\ alike /\ plain(d.endpoints[name]) /\ begins(d.endpoints[name]) => valid(d.endpoints[name])
    BY <1>2, EndpointVerdict DEF Requests!IsDocument
  <1>3. Requests!Validate(d) <=>
            /\ policy.validateIssuerName => Requests!IsIssuerNameValid(d.issuer)
            /\ \A name \in DOMAIN d.endpoints :
                  /\ Requests!WellFormed(d.endpoints[name]) /\ Requests!IsSecureScheme(d.endpoints[name])
                  /\ policy.validateEndpoints /\ name \notin policy.excluded => valid(d.endpoints[name])
            /\ policy.requireKeySet => "jwks_uri" \in DOMAIN d.endpoints
    BY DEF Requests!Validate, Requests!ValidateEndpoints
  <1>4. Requests!Conforms(d) <=>
            /\ policy.validateIssuerName => named
            /\ \A name \in DOMAIN d.endpoints :
                  /\ Requests!WellFormed(d.endpoints[name]) /\ Requests!IsSecureScheme(d.endpoints[name])
                  /\ ~policy.validateEndpoints \/ name \in policy.excluded \/ begins(d.endpoints[name])
            /\ policy.requireKeySet => "jwks_uri" \in DOMAIN d.endpoints
    BY DEF Requests!Conforms
  <1>5. Requests!SpelledAlike(d) =>
            /\ alike
            /\ policy.strategy = "string" => d.issuer = None \/ ~d.issuer.caps
            /\ \A name \in DOMAIN d.endpoints : plain(d.endpoints[name])
    <2>1. SUFFICES ASSUME Requests!SpelledAlike(d), policy.strategy = "string"
                   PROVE  /\ \A a \in Requests!Addressed : ~a.caps
                          /\ d.issuer = None \/ ~d.issuer.caps
                          /\ \A name \in DOMAIN d.endpoints : ~d.endpoints[name].caps
      BY DEF Requests!SpelledAlike, AddressedAlike
    <2>2. \A url \in Requests!Addressed \cup {d.issuer} \cup {d.endpoints[name] : name \in DOMAIN d.endpoints} :
              url # None => ~url.caps
      BY <2>1 DEF Requests!SpelledAlike
    <2>3. \A a \in Requests!Addressed : a # None
      BY DEF Requests!Addressed, Requests!IsAddress
    <2>4. \A name \in DOMAIN d.endpoints : d.endpoints[name] # None
      BY DataAssumption DEF Requests!IsDocument, Requests!IsData
    <2>5. QED
      BY <2>2, <2>3, <2>4
  <1> HIDE DEF alike, plain, named, valid, begins
  <1>6. Requests!Validate(d) => Requests!Conforms(d)
    BY <1>1, <1>2, <1>3, <1>4
  <1>7. Requests!SpelledAlike(d) /\ Requests!Conforms(d) => Requests!Validate(d)
    BY <1>1, <1>2, <1>3, <1>4, <1>5
  <1>8. QED
    BY <1>6, <1>7

\* What is the same of the policy when its Authority is set.
Kept ==
    /\ policy'.strategy = policy.strategy /\ policy'.requireHttps = policy.requireHttps
    /\ policy'.allowHttpOnLoopback = policy.allowHttpOnLoopback
    /\ policy'.validateIssuerName = policy.validateIssuerName
    /\ policy'.validateEndpoints = policy.validateEndpoints
    /\ policy'.excluded = policy.excluded /\ policy'.additional = policy.additional
    /\ policy'.requireKeySet = policy.requireKeySet

\* Verdicts stay right when the Authority is set or another address is given.
LEMMA VerdictStays ==
    ASSUME Kept, Requests!Addressed \subseteq Requests!Addressed', NEW d
    PROVE  /\ Requests!Conforms(d) => Requests!Conforms(d)'
           /\ Requests!SpelledAlike(d)' => Requests!SpelledAlike(d) /\ (Requests!Conforms(d)' => Requests!Conforms(d))
  <1>1. /\ Requests!Authorities \subseteq Requests!Authorities'
        /\ Requests!SpelledAlike(d)' => Requests!Authorities' = Requests!Authorities
    BY DEF Requests!Authorities, Requests!SpelledAlike
  <1>2. \A url : Requests!IsSecureScheme(url)' <=> Requests!IsSecureScheme(url)
    BY DEF Kept, Requests!IsSecureScheme
  <1>3. Requests!Conforms(d) => Requests!Conforms(d)'
    BY <1>1, <1>2 DEF Kept, Requests!Conforms
  <1>4. Requests!SpelledAlike(d)' => Requests!SpelledAlike(d)
    BY DEF Kept, Requests!SpelledAlike
  <1>5. Requests!SpelledAlike(d)' => (Requests!Conforms(d)' => Requests!Conforms(d))
    BY <1>1, <1>2 DEF Kept, Requests!Conforms
  <1>6. QED
    BY <1>3, <1>4, <1>5

-----------------------------------------------------------------------------
(* The requests.                                                           *)

\* What a request has at each label, and that its verdict is right.
RequestInv(c) ==
    /\ request[c] = "idle" => address[c] = None
    /\ request[c] \in {"assign", "send", "document", "keys"} => Requests!IsAddress(address[c])
    /\ request[c] \in {"send", "document", "keys"} => policy.authority # None
    /\ request[c] \in {"idle", "assign", "send", "document"} => document[c] = None
    /\ request[c] # "done" => outcome[c] = None

VerdictInv(c) ==
    \A d \in Documents : document[c] = d =>
        /\ request[c] = "keys" \/ outcome[c] = "document" => Requests!Conforms(d)
        /\ outcome[c] = "document" /\ "jwks_uri" \in DOMAIN d.endpoints => keys[c] # None
        /\ outcome[c] = "violation" /\ Requests!SpelledAlike(d) => ~Requests!Conforms(d)

RequestTypes ==
    /\ request \in [Calls -> {"idle", "assign", "send", "document", "keys", "done"}]
    /\ address \in [Calls -> Addresses \cup {None}]
    /\ document \in [Calls -> Documents \cup {None}]
    /\ keys \in [Calls -> Nat \cup {None}]
    /\ outcome \in [Calls -> Requests!Outcomes \cup {None}]
    /\ published \in Nat

RequestsInv ==
    /\ RequestTypes
    /\ AuthorityInv
    /\ \A c \in Calls : RequestInv(c) /\ VerdictInv(c)

LEMMA AddressesAreSpellings == RequestTypes => AddressesInv
  BY DataAssumption DEF RequestTypes, AddressesInv, Requests!Addressed, Requests!IsAddress, Requests!IsData

LEMMA InitRequestsInv == Requests!Init => RequestsInv
  <1> SUFFICES ASSUME Requests!Init PROVE RequestsInv
    OBVIOUS
  <1>1. RequestTypes
    BY DEF Requests!Init, RequestTypes
  <1>2. AuthorityInv
    BY DataAssumption DEF Requests!Init, Requests!IsData, Requests!IsPolicy, AuthorityInv, PolicyRecords
  <1>3. \A c \in Calls : RequestInv(c) /\ VerdictInv(c)
    BY DataAssumption DEF Requests!Init, Requests!IsData, RequestInv, VerdictInv
  <1>4. QED
    BY <1>1, <1>2, <1>3 DEF RequestsInv

\* A step of one request leaves the others as they are.
LEMMA OthersKept ==
    ASSUME RequestsInv, NEW c \in Calls, Kept, Requests!Addressed \subseteq Requests!Addressed',
           policy.authority # None => policy'.authority # None,
           request'[c] = request[c], address'[c] = address[c], document'[c] = document[c], keys'[c] = keys[c],
           outcome'[c] = outcome[c]
    PROVE  RequestInv(c)' /\ VerdictInv(c)'
  <1>1. RequestInv(c) /\ VerdictInv(c)
    BY DEF RequestsInv
  <1>2. RequestInv(c)'
    BY <1>1 DEF RequestInv, Requests!IsAddress, Requests!WellFormed
  <1>3. VerdictInv(c)'
    <2>1. SUFFICES ASSUME NEW d \in Documents, document[c] = d
                   PROVE  /\ request[c] = "keys" \/ outcome[c] = "document" => Requests!Conforms(d)'
                          /\ outcome[c] = "document" /\ "jwks_uri" \in DOMAIN d.endpoints => keys[c] # None
                          /\ outcome[c] = "violation" /\ Requests!SpelledAlike(d)' => ~Requests!Conforms(d)'
      BY DEF VerdictInv
    <2>2. /\ request[c] = "keys" \/ outcome[c] = "document" => Requests!Conforms(d)
          /\ outcome[c] = "document" /\ "jwks_uri" \in DOMAIN d.endpoints => keys[c] # None
          /\ outcome[c] = "violation" /\ Requests!SpelledAlike(d) => ~Requests!Conforms(d)
      BY <1>1, <2>1 DEF VerdictInv
    <2>3. QED
      BY <2>2, VerdictStays
  <1>4. QED
    BY <1>2, <1>3

LEMMA SetAuthority ==
    ASSUME RequestsInv, NEW a \in Requests!Addressed, policy' = [policy EXCEPT !.authority = Requests!AuthorityOf(a)],
           UNCHANGED address
    PROVE  AuthorityInv' /\ Kept /\ policy'.authority # None
  <1>1. Requests!IsSpelling(a) /\ Requests!AuthorityOf(a) = AuthorityBy(a.scheme, a.caps)
    BY AddressesAreSpellings, AuthorityOfAddress DEF RequestsInv, AddressesInv
  <1>2. AuthorityBy(a.scheme, a.caps) \in Requests!Urls
    BY <1>1, ServerUrl DEF AuthorityBy, Requests!Urls, Requests!IsSpelling
  <1>3. policy \in PolicyRecords
    BY DEF RequestsInv, AuthorityInv
  <1>4. PICK new \in Requests!Urls : new = AuthorityBy(a.scheme, a.caps)
    BY <1>2
  <1>5. policy' = [policy EXCEPT !.authority = new]
    BY <1>1, <1>4
  <1>6. policy' \in PolicyRecords /\ policy'.authority = new /\ Kept
    BY <1>3, <1>5 DEF PolicyRecords, Kept
  <1>7. Requests!Addressed' = Requests!Addressed
    BY DEF Requests!Addressed, Requests!IsAddress, Requests!WellFormed
  <1>8. AuthorityInv'
    BY <1>4, <1>6, <1>7 DEF AuthorityInv
  <1>9. None \notin Requests!Urls
    BY DataAssumption DEF Requests!IsData
  <1>10. QED
    BY <1>4, <1>6, <1>8, <1>9

LEMMA AuthorityStays ==
    ASSUME AuthorityInv, UNCHANGED policy, Requests!Addressed \subseteq Requests!Addressed'
    PROVE  AuthorityInv' /\ Kept
  BY DEF AuthorityInv, Kept

LEMMA AddressGiven ==
    ASSUME RequestsInv, NEW c \in Calls, request[c] = "idle", NEW a, address' = [address EXCEPT ![c] = a]
    PROVE  Requests!Addressed \subseteq Requests!Addressed'
  <1>1. address[c] = None
    BY DEF RequestsInv, RequestInv
  <1>2. ASSUME NEW b \in Calls, Requests!IsAddress(address[b])
        PROVE  address'[b] = address[b]
    BY <1>1, <1>2 DEF RequestsInv, RequestTypes, Requests!IsAddress
  <1>3. QED
    BY <1>2 DEF Requests!Addressed, Requests!IsAddress, Requests!WellFormed

LEMMA NextRequestsInv == RequestsInv /\ [Requests!Next]_(Requests!vars) => RequestsInv'
  <1> SUFFICES ASSUME RequestsInv, [Requests!Next]_(Requests!vars) PROVE RequestsInv'
    OBVIOUS
  <1> USE DEF RequestTypes
  <1>1. RequestTypes /\ AuthorityInv /\ AddressesInv /\ \A c \in Calls : RequestInv(c) /\ VerdictInv(c)
    BY AddressesAreSpellings DEF RequestsInv
  <1>2. UNCHANGED address => Requests!Addressed' = Requests!Addressed
    BY DEF Requests!Addressed, Requests!IsAddress, Requests!WellFormed
  <1>3. None \notin Documents /\ None \notin Requests!Outcomes /\ None \notin Nat
    BY DataAssumption, NoneAssumption DEF Requests!IsData
  \* What remains to be shown of a step of request c.
  <1>4. ASSUME NEW c \in Calls, RequestTypes', Requests!Addressed \subseteq Requests!Addressed', AuthorityInv', Kept,
               policy.authority # None => policy'.authority # None,
               \A b \in Calls \ {c} :
                   /\ request'[b] = request[b] /\ address'[b] = address[b] /\ document'[b] = document[b]
                   /\ keys'[b] = keys[b] /\ outcome'[b] = outcome[b],
               RequestInv(c)', VerdictInv(c)'
        PROVE  RequestsInv'
    <2>1. ASSUME NEW b \in Calls \ {c} PROVE RequestInv(b)' /\ VerdictInv(b)'
      BY <1>4, <2>1, OthersKept
    <2>2. QED
      BY <1>4, <2>1 DEF RequestsInv
  <1>5. ASSUME NEW c \in Calls, Requests!Refuse(c) PROVE RequestsInv'
    <2>1. PICK a \in Addresses : ~Requests!IsAddress(a) /\ address' = [address EXCEPT ![c] = a]
      BY <1>5 DEF Requests!Refuse
    <2>2. Requests!Addressed \subseteq Requests!Addressed'
      BY <1>5, <2>1, AddressGiven DEF Requests!Refuse
    <2>3. AuthorityInv' /\ Kept
      BY <1>1, <1>5, <2>2, AuthorityStays DEF Requests!Refuse
    <2>4. RequestTypes'
      BY <1>1, <1>5, <2>1 DEF Requests!Refuse, Requests!End, Requests!Goto, Requests!Outcomes
    <2>5. RequestInv(c)'
      BY <1>1, <1>5 DEF Requests!Refuse, Requests!End, Requests!Goto, RequestInv
    <2>6. VerdictInv(c)'
      BY <1>1, <1>3, <1>5 DEF Requests!Refuse, RequestInv, VerdictInv
    <2>7. QED
      BY <1>1, <1>4, <1>5, <2>1, <2>2, <2>3, <2>4, <2>5, <2>6 DEF Requests!Refuse, Requests!End, Requests!Goto
  <1>6. ASSUME NEW c \in Calls, Requests!TestAuthority(c) PROVE RequestsInv'
    <2>1. PICK a \in Addresses : Requests!IsAddress(a) /\ address' = [address EXCEPT ![c] = a]
      BY <1>6 DEF Requests!TestAuthority
    <2>2. Requests!Addressed \subseteq Requests!Addressed'
      BY <1>6, <2>1, AddressGiven DEF Requests!TestAuthority
    <2>3. AuthorityInv' /\ Kept
      BY <1>1, <1>6, <2>2, AuthorityStays DEF Requests!TestAuthority
    <2>4. RequestTypes'
      BY <1>1, <1>6, <2>1 DEF Requests!TestAuthority, Requests!Goto
    <2>5. RequestInv(c)'
      BY <1>1, <1>6, <2>1 DEF Requests!TestAuthority, Requests!Goto, RequestInv, Requests!IsAddress, Requests!WellFormed
    <2>6. VerdictInv(c)'
      BY <1>1, <1>3, <1>6 DEF Requests!TestAuthority, RequestInv, VerdictInv
    <2>7. QED
      BY <1>1, <1>4, <1>6, <2>1, <2>2, <2>3, <2>4, <2>5, <2>6 DEF Requests!TestAuthority, Requests!Goto
  <1>7. ASSUME NEW c \in Calls, Requests!AssignAuthority(c) PROVE RequestsInv'
    <2>1. address[c] \in Requests!Addressed
      BY <1>1, <1>7 DEF Requests!AssignAuthority, RequestInv, Requests!Addressed
    <2>2. AuthorityInv' /\ Kept /\ policy'.authority # None
      BY <1>7, <2>1, SetAuthority DEF Requests!AssignAuthority
    <2>3. RequestTypes'
      BY <1>1, <1>7 DEF Requests!AssignAuthority, Requests!Goto
    <2>4. RequestInv(c)'
      BY <1>1, <1>7, <2>2 DEF Requests!AssignAuthority, Requests!Goto, RequestInv, Requests!IsAddress,
            Requests!WellFormed
    <2>5. VerdictInv(c)'
      BY <1>1, <1>3, <1>7 DEF Requests!AssignAuthority, RequestInv, VerdictInv
    <2>6. QED
      BY <1>1, <1>2, <1>4, <1>7, <2>2, <2>3, <2>4, <2>5 DEF Requests!AssignAuthority, Requests!Goto
  <1>8. ASSUME UNCHANGED <<policy, address>>
        PROVE  /\ AuthorityInv' /\ Kept /\ Requests!Addressed \subseteq Requests!Addressed'
               /\ policy.authority # None => policy'.authority # None
    BY <1>1, <1>2, <1>8, AuthorityStays
  <1>9. ASSUME NEW c \in Calls, Requests!Send(c) PROVE RequestsInv'
    <2>1. RequestTypes'
      BY <1>1, <1>9 DEF Requests!Send, Requests!End, Requests!Goto, Requests!Outcomes
    <2>2. RequestInv(c)'
      BY <1>1, <1>9 DEF Requests!Send, Requests!End, Requests!Goto, RequestInv, Requests!IsAddress, Requests!WellFormed
    <2>3. VerdictInv(c)'
      BY <1>1, <1>3, <1>9 DEF Requests!Send, RequestInv, VerdictInv
    <2>4. QED
      BY <1>1, <1>4, <1>8, <1>9, <2>1, <2>2, <2>3 DEF Requests!Send, Requests!End, Requests!Goto
  <1>10. ASSUME NEW c \in Calls, Requests!ReceiveDocument(c) PROVE RequestsInv'
    <2>1. PICK d \in Documents :
              /\ document' = [document EXCEPT ![c] = d]
              /\ CASE ~Requests!Validate(d) -> Requests!End(c, "violation")
                   [] Requests!Validate(d) /\ "jwks_uri" \notin DOMAIN d.endpoints -> Requests!End(c, "document")
                   [] OTHER -> Requests!Goto(c, "keys") /\ UNCHANGED outcome
      BY <1>10 DEF Requests!ReceiveDocument
    <2>2. /\ Requests!Validate(d) => Requests!Conforms(d)
          /\ Requests!SpelledAlike(d) /\ Requests!Conforms(d) => Requests!Validate(d)
      BY <1>1, <1>10, DataAssumption, Verdict DEF Requests!ReceiveDocument, RequestInv, Requests!IsData
    <2>3. /\ Requests!Conforms(d)' <=> Requests!Conforms(d)
          /\ Requests!SpelledAlike(d)' <=> Requests!SpelledAlike(d)
      BY <1>10, <1>2 DEF Requests!ReceiveDocument, Requests!Conforms, Requests!SpelledAlike, Requests!Authorities,
            Requests!IsSecureScheme
    <2>4. RequestTypes'
      BY <1>1, <1>10, <2>1 DEF Requests!ReceiveDocument, Requests!End, Requests!Goto, Requests!Outcomes
    <2>5. RequestInv(c)'
      BY <1>1, <1>10, <2>1 DEF Requests!ReceiveDocument, Requests!End, Requests!Goto, RequestInv, Requests!IsAddress,
            Requests!WellFormed
    <2>6. document'[c] = d /\ (Requests!Validate(d) /\ "jwks_uri" \in DOMAIN d.endpoints => outcome'[c] = None)
      BY <1>1, <1>10, <2>1 DEF Requests!ReceiveDocument, RequestInv
    <2>7. /\ outcome'[c] = "document" => Requests!Validate(d) /\ "jwks_uri" \notin DOMAIN d.endpoints
          /\ request'[c] = "keys" => Requests!Validate(d)
          /\ outcome'[c] = "violation" => ~Requests!Validate(d)
      BY <1>1, <1>3, <1>10, <2>1, <2>6 DEF Requests!End, Requests!Goto, Requests!Outcomes
    <2>8. VerdictInv(c)'
      BY <2>2, <2>3, <2>6, <2>7 DEF VerdictInv
    <2>9. QED
      BY <1>1, <1>4, <1>8, <1>10, <2>1, <2>4, <2>5, <2>8 DEF Requests!ReceiveDocument, Requests!End, Requests!Goto
  <1>11. ASSUME NEW c \in Calls, Requests!ReceiveKeys(c) PROVE RequestsInv'
    <2>1. RequestTypes'
      BY <1>1, <1>11 DEF Requests!ReceiveKeys, Requests!End, Requests!Goto, Requests!Outcomes
    <2>2. RequestInv(c)'
      BY <1>1, <1>11 DEF Requests!ReceiveKeys, Requests!End, Requests!Goto, RequestInv
    <2>3. VerdictInv(c)'
      <3>1. keys'[c] # None /\ outcome'[c] = "document" /\ document'[c] = document[c]
        BY <1>1, <1>3, <1>11 DEF Requests!ReceiveKeys, Requests!End
      <3>2. \A d \in Documents : document[c] = d => Requests!Conforms(d)
        BY <1>1, <1>11 DEF Requests!ReceiveKeys, VerdictInv
      <3>3. \A d \in Documents : Requests!Conforms(d) => Requests!Conforms(d)'
        BY <1>8, <1>11, VerdictStays DEF Requests!ReceiveKeys
      <3>4. QED
        BY <3>1, <3>2, <3>3 DEF VerdictInv
    <2>4. QED
      BY <1>1, <1>4, <1>8, <1>11, <2>1, <2>2, <2>3 DEF Requests!ReceiveKeys, Requests!End, Requests!Goto
  <1>12. ASSUME NEW c \in Calls, Requests!Fail(c) \/ Requests!Cancel(c) PROVE RequestsInv'
    <2>1. RequestTypes'
      BY <1>1, <1>12 DEF Requests!Fail, Requests!Cancel, Requests!End, Requests!Goto, Requests!Outcomes
    <2>2. RequestInv(c)'
      BY <1>1, <1>12 DEF Requests!Fail, Requests!Cancel, Requests!End, Requests!Goto, RequestInv
    <2>3. VerdictInv(c)'
      <3>1. outcome'[c] \in {"error", "exception"} /\ request'[c] = "done"
        BY <1>1, <1>12 DEF Requests!Fail, Requests!Cancel, Requests!End, Requests!Goto
      <3>2. QED
        BY <3>1 DEF VerdictInv
    <2>4. QED
      BY <1>1, <1>4, <1>8, <1>12, <2>1, <2>2, <2>3 DEF Requests!Fail, Requests!Cancel, Requests!End, Requests!Goto
  <1>13. CASE Requests!RotateKeys \/ UNCHANGED Requests!vars
    <2>1. UNCHANGED <<policy, request, address, document, keys, outcome>> /\ RequestTypes'
      BY <1>1, <1>13 DEF Requests!RotateKeys, Requests!vars
    <2>2. \A c \in Calls : RequestInv(c)' /\ VerdictInv(c)'
      BY <1>8, <2>1, OthersKept
    <2>3. QED
      BY <1>8, <2>1, <2>2 DEF RequestsInv
  <1>14. QED
    BY <1>5, <1>6, <1>7, <1>9, <1>10, <1>11, <1>12, <1>13 DEF Requests!Next, Requests!CallStep

LEMMA RequestsInvariance == Requests!Spec => []RequestsInv
  BY InitRequestsInv, NextRequestsInv, PTL DEF Requests!Spec

\* However addresses are spelled and in whatever order the requests set the
\* Authority of their policy: an accepted document conforms, and one that
\* conforms is not refused; for any documents, policies and requests.
THEOREM VerdictsFollowThePolicy == Requests!Spec => []VerdictsAreRight
  <1>1. RequestsInv => VerdictsAreRight
    <2> SUFFICES ASSUME RequestsInv, NEW c \in Calls, document[c] # None
                 PROVE  /\ request[c] = "keys" \/ outcome[c] = "document" => Requests!Conforms(document[c])
                        /\ outcome[c] = "document" /\ "jwks_uri" \in DOMAIN document[c].endpoints => keys[c] # None
                        /\ outcome[c] = "violation" /\ Requests!SpelledAlike(document[c]) =>
                              ~Requests!Conforms(document[c])
      BY DEF VerdictsAreRight, Requests!VerdictsAreRight
    <2>1. document[c] \in Documents
      BY DEF RequestsInv, RequestTypes
    <2>2. QED
      BY <2>1 DEF RequestsInv, VerdictInv
  <1>2. QED
    BY <1>1, RequestsInvariance, PTL
================================================================================
