-------------------- MODULE ClientCredentialsTokens_proofs --------------------
(***************************************************************************)
(* What ClientCredentialsTokens guarantees about the tokens it hands out,  *)
(* for any number of calls, any lifetimes and a clock of any length, with  *)
(* and without a failing cache.                                            *)
(***************************************************************************)
EXTENDS ClientCredentialsTokens, TLAPS

TypeInv ==
    /\ TypeOK
    /\ \A c \in Calls : pc[c] = "check" => token[c] \in Tokens

\* Nothing is known before it was handed out, nor there before it was issued.
IssuedInv ==
    /\ \A n \in handed : n <= issued
    /\ \A c \in Calls : known[c] \subseteq handed
    /\ entry # None => entry.token.n <= issued
    /\ \A c \in Calls : pc[c] = "check" => token[c].n <= issued
    /\ \A g \in Groups : produced[g] <= issued

\* The token a factory has received and not returned yet is nowhere else.
AnswerInv ==
    \A g \in Groups : group[g] = "answered" =>
        /\ produced[g] \notin handed
        /\ entry # None => entry.token.n # produced[g]
        /\ \A c \in Calls : pc[c] = "check" => token[c].n # produced[g]
        /\ \A h \in Groups : group[h] = "answered" /\ produced[h] = produced[g] => h = g

\* A call that forces a renewal has a token from a request that was answered
\* in its time.
RenewalInv == \A c \in Calls : pc[c] = "check" /\ force[c] => token[c].n \notin known[c]

Inv == TypeInv /\ IssuedInv /\ AnswerInv /\ RenewalInv

LEMMA InitInv == Init => Inv
  BY CacheAssumption, NoneAssumption
     DEF Init, Inv, TypeInv, TypeOK, IssuedInv, AnswerInv, RenewalInv, CallStates, GroupStates, Outcomes

\* What the client and the cache compute from a lifetime.
LEMMA Expirations ==
  ASSUME TypeOK, NEW l \in Lifetimes
  PROVE  ExpirationOf(l) \in Nat /\ (SetExpiration(ExpirationOf(l)) => durations' \in Int \cup {None})
  <1>1. l \in Nat /\ now \in Nat /\ Never \in Nat /\ CacheLifetimeBuffer \in Nat
    BY CacheAssumption DEF TypeOK
  <1>2. ExpirationOf(l) \in Nat
    BY <1>1 DEF ExpirationOf
  <1>3. ASSUME NEW e \in Nat, SetExpiration(e) PROVE durations' \in Int \cup {None}
    BY <1>1, <1>3 DEF SetExpiration, TypeOK
  <1>4. QED
    BY <1>2, <1>3

LEMMA NextTypeInv == TypeInv /\ [Next]_vars => TypeInv'
  <1> SUFFICES ASSUME TypeInv, [Next]_vars PROVE TypeInv'
    OBVIOUS
  <1> USE CacheAssumption, NoneAssumption
          DEF TypeInv, TypeOK, CallStates, GroupStates, Outcomes, cacheVars, callVars
  <1>1. CASE Tick
    BY <1>1 DEF Tick
  <1>2. CASE DeleteAccessToken
    BY <1>2 DEF DeleteAccessToken
  <1>3. ASSUME NEW c \in Calls, NEW k \in BOOLEAN, Call(c, k) PROVE TypeInv'
    BY <1>3 DEF Call
  <1>4. ASSUME NEW c \in Calls, ComputeExpiration(c) PROVE TypeInv'
    BY <1>4 DEF ComputeExpiration, GetExpiration
  <1>5. ASSUME NEW c \in Calls, ReadFromCache(c) PROVE TypeInv'
    BY <1>5 DEF ReadFromCache, CacheHit, Entries
  <1>6. ASSUME NEW c \in Calls, JoinGroup(c) PROVE TypeInv'
    <2>1. force[c] \in BOOLEAN /\ <<c, force[c]>> \in Groups
      BY DEF Groups
    <2>2. running' \in [BOOLEAN -> Calls \cup {None}] /\ group' \in [Groups -> GroupStates]
          /\ leader' \in [Calls -> Calls \cup {None}]
      <3>1. CASE running[force[c]] # None
        BY <1>6, <2>1, <3>1 DEF JoinGroup
      <3>2. CASE running[force[c]] = None
        <4>1. /\ leader' = [leader EXCEPT ![c] = c]
              /\ running' = [running EXCEPT ![force[c]] = c]
              /\ group' = [group EXCEPT ![<<c, force[c]>>] = "requested"]
          BY <1>6, <3>2 DEF JoinGroup
        <4>2. leader' \in [Calls -> Calls \cup {None}] /\ running' \in [BOOLEAN -> Calls \cup {None}]
          BY <2>1, <4>1
        <4>3. group' \in [Groups -> GroupStates]
          BY <2>1, <4>1
        <4>4. QED
          BY <4>2, <4>3
      <3>3. QED
        BY <3>1, <3>2
    <2>3. pc' \in [Calls -> CallStates] /\ (\A d \in Calls : pc'[d] = "check" => pc[d] = "check")
      BY <1>6 DEF JoinGroup
    <2>4. QED
      BY <1>6, <2>2, <2>3 DEF JoinGroup
  <1>7. ASSUME NEW c \in Calls, RequestDirectly(c) PROVE TypeInv'
    <2>1. PICK l \in Lifetimes :
              /\ token' = [token EXCEPT ![c] = [n |-> issued + 1, expiration |-> ExpirationOf(l)]]
              /\ SetExpiration(ExpirationOf(l))
      BY <1>7 DEF RequestDirectly
    <2>2. [n |-> issued + 1, expiration |-> ExpirationOf(l)] \in Tokens /\ durations' \in Int \cup {None}
      BY <2>1, Expirations DEF Tokens
    <2>3. QED
      BY <1>7, <2>1, <2>2 DEF RequestDirectly
  <1>8. ASSUME NEW c \in Calls, ReturnToken(c) PROVE TypeInv'
    <2>1. token[c].n \in Nat
      BY <1>8 DEF ReturnToken, Tokens
    <2>2. handed' \in SUBSET Nat
      BY <1>8, <2>1 DEF ReturnToken
    <2>3. QED
      BY <1>8, <2>2 DEF ReturnToken, Finish
  <1>9. ASSUME NEW c \in Calls, RetryWithForce(c) PROVE TypeInv'
    BY <1>9 DEF RetryWithForce
  <1>10. ASSUME NEW c \in Calls, CacheThrows(c) PROVE TypeInv'
    BY <1>10 DEF CacheThrows
  <1>11. ASSUME NEW c \in Calls, DirectRequestFails(c) PROVE TypeInv'
    BY <1>11 DEF DirectRequestFails, Finish
  <1>12. ASSUME NEW g \in Groups, EndpointIssues(g) PROVE TypeInv'
    BY <1>12 DEF EndpointIssues
  <1>13. ASSUME NEW g \in Groups, FactoryReturns(g) PROVE TypeInv'
    <2>1. PICK l \in Lifetimes : LET t == [n |-> produced[g], expiration |-> ExpirationOf(l)] IN
              /\ token' = [c \in Calls |-> IF c \in Members(g) THEN t ELSE token[c]]
              /\ SetExpiration(t.expiration)
              /\ entry' = IF lifetime[g[1]] > 0 THEN [token |-> t, until |-> now + lifetime[g[1]]] ELSE entry
      BY <1>13 DEF FactoryReturns
    <2> DEFINE t == [n |-> produced[g], expiration |-> ExpirationOf(l)]
    <2>2. t \in Tokens /\ durations' \in Int \cup {None}
      BY <2>1, Expirations DEF Tokens
    <2>3. entry' \in Entries \cup {None}
      <3>1. g[1] \in Calls
        BY DEF Groups
      <3> HIDE DEF t
      <3>2. QED
        BY <2>1, <2>2, <3>1 DEF Entries, t
    <2>4. token' = [c \in Calls |-> IF c \in Members(g) THEN t ELSE token[c]]
          /\ pc' = [c \in Calls |-> IF c \in Members(g) THEN "check" ELSE pc[c]]
      BY <1>13, <2>1 DEF FactoryReturns, Continue
    <2> HIDE DEF t
    <2>5. token' \in [Calls -> Tokens \cup {None}] /\ \A c \in Calls : pc'[c] = "check" => token'[c] \in Tokens
      BY <2>2, <2>4
    <2>6. g[2] \in BOOLEAN
      BY DEF Groups
    <2>7. QED
      BY <1>13, <2>2, <2>3, <2>4, <2>5, <2>6 DEF FactoryReturns, EndGroup
  <1>14. ASSUME NEW g \in Groups, CacheWriteThrows(g) PROVE TypeInv'
    <2>1. durations' \in Int \cup {None}
      BY <1>14, Expirations DEF CacheWriteThrows
    <2>2. g[2] \in BOOLEAN
      BY DEF Groups
    <2>3. QED
      BY <1>14, <2>1, <2>2 DEF CacheWriteThrows, EndGroup, Continue
  <1>15. ASSUME NEW g \in Groups, FactoryThrows(g) PROVE TypeInv'
    <2>1. g[2] \in BOOLEAN
      BY DEF Groups
    <2>2. QED
      BY <1>15, <2>1 DEF FactoryThrows, EndGroup, Continue
  <1>16. CASE UNCHANGED vars
    BY <1>16 DEF vars
  <1>17. QED
    <2> HIDE DEF TypeInv
    <2>1. QED
      BY <1>1, <1>2, <1>3, <1>4, <1>5, <1>6, <1>7, <1>8, <1>9, <1>10, <1>11, <1>12, <1>13, <1>14, <1>15, <1>16
         DEF Next, CallStep, GroupStep

-----------------------------------------------------------------------------
(* The steps of the calls and of the factories keep the invariant.         *)

LEMMA NextIssuedInv == TypeInv /\ TypeInv' /\ IssuedInv /\ [Next]_vars => IssuedInv'
  <1> SUFFICES ASSUME TypeInv, TypeInv', IssuedInv, [Next]_vars PROVE IssuedInv'
    OBVIOUS
  <1> USE NoneAssumption DEF IssuedInv, cacheVars, callVars
  <1>t. /\ issued \in Nat /\ handed \subseteq Nat /\ known \in [Calls -> SUBSET Nat]
        /\ produced \in [Groups -> Nat] /\ pc \in [Calls -> CallStates]
        /\ token \in [Calls -> Tokens \cup {None}]
        /\ entry # None => entry.token \in Tokens
        /\ \A c \in Calls : pc[c] = "check" => token[c] \in Tokens
    BY DEF TypeInv, TypeOK, Entries
  <1>n. \A t \in Tokens : t.n \in Nat
    BY DEF Tokens
  <1>1. CASE Tick
    BY <1>1 DEF Tick
  <1>2. CASE DeleteAccessToken
    BY <1>2 DEF DeleteAccessToken
  <1>3. ASSUME NEW c \in Calls, NEW k \in BOOLEAN, Call(c, k) PROVE IssuedInv'
    BY <1>t, <1>3 DEF Call
  <1>4. ASSUME NEW c \in Calls, ComputeExpiration(c) PROVE IssuedInv'
    BY <1>t, <1>4 DEF ComputeExpiration
  <1>5. ASSUME NEW c \in Calls, ReadFromCache(c) PROVE IssuedInv'
    BY <1>t, <1>5 DEF ReadFromCache, CacheHit
  <1>6. ASSUME NEW c \in Calls, JoinGroup(c) PROVE IssuedInv'
    BY <1>t, <1>6 DEF JoinGroup
  <1>7. ASSUME NEW c \in Calls, RequestDirectly(c) PROVE IssuedInv'
    <2>1. PICK l \in Lifetimes : token' = [token EXCEPT ![c] = [n |-> issued + 1, expiration |-> ExpirationOf(l)]]
      BY <1>7 DEF RequestDirectly
    <2>2. token' = [token EXCEPT ![c] = [n |-> issued + 1, expiration |-> ExpirationOf(l)]]
          /\ pc' = [pc EXCEPT ![c] = "check"] /\ issued' = issued + 1
          /\ UNCHANGED <<handed, known, entry, produced>>
      BY <1>7, <2>1 DEF RequestDirectly
    <2>3. \A d \in Calls : pc'[d] = "check" => token'[d].n <= issued'
      BY <1>t, <1>n, <2>2
    <2>4. (\A n \in handed : n <= issued') /\ (\A g \in Groups : produced[g] <= issued')
          /\ (entry # None => entry.token.n <= issued')
      BY <1>t, <1>n, <2>2
    <2>5. QED
      BY <2>2, <2>3, <2>4
  <1>8. ASSUME NEW c \in Calls, ReturnToken(c) PROVE IssuedInv'
    BY <1>t, <1>8 DEF ReturnToken, Finish
  <1>9. ASSUME NEW c \in Calls, RetryWithForce(c) PROVE IssuedInv'
    BY <1>t, <1>9 DEF RetryWithForce
  <1>10. ASSUME NEW c \in Calls, CacheThrows(c) PROVE IssuedInv'
    BY <1>t, <1>10 DEF CacheThrows
  <1>11. ASSUME NEW c \in Calls, DirectRequestFails(c) PROVE IssuedInv'
    BY <1>t, <1>11 DEF DirectRequestFails, Finish
  <1>12. ASSUME NEW g \in Groups, EndpointIssues(g) PROVE IssuedInv'
    <2>1. issued' = issued + 1 /\ produced' = [produced EXCEPT ![g] = issued + 1]
          /\ UNCHANGED <<handed, known, entry, pc, token>>
      BY <1>12 DEF EndpointIssues
    <2>2. \A h \in Groups : produced'[h] <= issued'
      BY <1>t, <2>1
    <2>3. QED
      BY <1>t, <1>n, <2>1, <2>2
  <1>13. ASSUME NEW g \in Groups, FactoryReturns(g) PROVE IssuedInv'
    <2>1. PICK l \in Lifetimes : LET t == [n |-> produced[g], expiration |-> ExpirationOf(l)] IN
              /\ token' = [c \in Calls |-> IF c \in Members(g) THEN t ELSE token[c]]
              /\ entry' = IF lifetime[g[1]] > 0 THEN [token |-> t, until |-> now + lifetime[g[1]]] ELSE entry
      BY <1>13 DEF FactoryReturns
    <2>2. pc' = [c \in Calls |-> IF c \in Members(g) THEN "check" ELSE pc[c]]
          /\ produced' = [produced EXCEPT ![g] = 0] /\ UNCHANGED <<handed, known, issued>>
      BY <1>13 DEF FactoryReturns, Continue, EndGroup
    <2>3. \A c \in Calls : pc'[c] = "check" => token'[c].n <= issued
      BY <2>1, <2>2
    <2>4. entry' # None => entry'.token.n <= issued
      BY <2>1
    <2>5. \A h \in Groups : produced'[h] <= issued
      BY <1>t, <2>2
    <2>6. QED
      BY <2>2, <2>3, <2>4, <2>5
  <1>14. ASSUME NEW g \in Groups, CacheWriteThrows(g) PROVE IssuedInv'
    BY <1>t, <1>14 DEF CacheWriteThrows, EndGroup, Continue
  <1>15. ASSUME NEW g \in Groups, FactoryThrows(g) PROVE IssuedInv'
    BY <1>t, <1>15 DEF FactoryThrows, EndGroup, Continue
  <1>16. CASE UNCHANGED vars
    BY <1>16 DEF vars
  <1>17. QED
    <2> HIDE DEF IssuedInv
    <2>1. QED
      BY <1>1, <1>2, <1>3, <1>4, <1>5, <1>6, <1>7, <1>8, <1>9, <1>10, <1>11, <1>12, <1>13, <1>14, <1>15, <1>16
         DEF Next, CallStep, GroupStep

LEMMA NextAnswerInv == TypeInv /\ IssuedInv /\ AnswerInv /\ [Next]_vars => AnswerInv'
  <1> SUFFICES ASSUME TypeInv, IssuedInv, AnswerInv, [Next]_vars PROVE AnswerInv'
    OBVIOUS
  <1> USE NoneAssumption DEF AnswerInv, cacheVars, callVars
  <1>t. /\ issued \in Nat /\ handed \subseteq Nat /\ group \in [Groups -> GroupStates]
        /\ produced \in [Groups -> Nat] /\ pc \in [Calls -> CallStates]
        /\ token \in [Calls -> Tokens \cup {None}]
        /\ entry # None => entry.token \in Tokens
        /\ \A c \in Calls : pc[c] = "check" => token[c] \in Tokens
    BY DEF TypeInv, TypeOK, Entries
  <1>n. \A t \in Tokens : t.n \in Nat
    BY DEF Tokens
  <1>1. CASE Tick
    BY <1>1 DEF Tick
  <1>2. CASE DeleteAccessToken
    BY <1>2 DEF DeleteAccessToken
  <1>3. ASSUME NEW c \in Calls, NEW k \in BOOLEAN, Call(c, k) PROVE AnswerInv'
    BY <1>t, <1>3 DEF Call
  <1>4. ASSUME NEW c \in Calls, ComputeExpiration(c) PROVE AnswerInv'
    BY <1>t, <1>4 DEF ComputeExpiration
  <1>5. ASSUME NEW c \in Calls, ReadFromCache(c) PROVE AnswerInv'
    BY <1>t, <1>5 DEF ReadFromCache, CacheHit
  <1>6. ASSUME NEW c \in Calls, JoinGroup(c) PROVE AnswerInv'
    <2>1. (\A g \in Groups : group'[g] = "answered" => group[g] = "answered")
          /\ (\A d \in Calls : pc'[d] = "check" => pc[d] = "check")
          /\ UNCHANGED <<handed, entry, produced, token>>
      <3>1. CASE running[force[c]] # None
        BY <1>t, <1>6, <3>1 DEF JoinGroup
      <3>2. CASE running[force[c]] = None
        BY <1>t, <1>6, <3>2 DEF JoinGroup
      <3>3. QED
        BY <3>1, <3>2
    <2>2. QED
      BY <2>1
  <1>7. ASSUME NEW c \in Calls, RequestDirectly(c) PROVE AnswerInv'
    <2>1. PICK l \in Lifetimes : token' = [token EXCEPT ![c] = [n |-> issued + 1, expiration |-> ExpirationOf(l)]]
      BY <1>7 DEF RequestDirectly
    <2>2. pc' = [pc EXCEPT ![c] = "check"] /\ UNCHANGED <<handed, entry, produced, group>>
      BY <1>7 DEF RequestDirectly
    <2>3. \A g \in Groups : produced[g] # issued + 1
      BY <1>t DEF IssuedInv
    <2>4. \A g \in Groups : group[g] = "answered" =>
              \A d \in Calls : pc'[d] = "check" => token'[d].n # produced[g]
      BY <1>t, <2>1, <2>2, <2>3
    <2>5. QED
      BY <2>2, <2>4
  <1>8. ASSUME NEW c \in Calls, ReturnToken(c) PROVE AnswerInv'
    BY <1>t, <1>8 DEF ReturnToken, Finish
  <1>9. ASSUME NEW c \in Calls, RetryWithForce(c) PROVE AnswerInv'
    BY <1>t, <1>9 DEF RetryWithForce
  <1>10. ASSUME NEW c \in Calls, CacheThrows(c) PROVE AnswerInv'
    BY <1>t, <1>10 DEF CacheThrows
  <1>11. ASSUME NEW c \in Calls, DirectRequestFails(c) PROVE AnswerInv'
    BY <1>t, <1>11 DEF DirectRequestFails, Finish
  <1>12. ASSUME NEW g \in Groups, EndpointIssues(g) PROVE AnswerInv'
    <2>1. /\ produced' = [produced EXCEPT ![g] = issued + 1]
          /\ group' = [group EXCEPT ![g] = "answered"]
          /\ UNCHANGED <<handed, entry, pc, token>>
      BY <1>12 DEF EndpointIssues
    <2>2. /\ issued + 1 \notin handed
          /\ entry # None => entry.token.n # issued + 1
          /\ \A c \in Calls : pc[c] = "check" => token[c].n # issued + 1
          /\ \A h \in Groups : produced[h] # issued + 1
      BY <1>t, <1>n DEF IssuedInv
    <2>3. ASSUME NEW h \in Groups, group'[h] = "answered"
          PROVE  /\ produced'[h] \notin handed'
                 /\ entry' # None => entry'.token.n # produced'[h]
                 /\ \A c \in Calls : pc'[c] = "check" => token'[c].n # produced'[h]
                 /\ \A i \in Groups : group'[i] = "answered" /\ produced'[i] = produced'[h] => i = h
      <3>1. CASE h = g
        BY <1>t, <2>1, <2>2, <3>1
      <3>2. CASE h # g
        BY <1>t, <2>1, <2>2, <2>3, <3>2
      <3>3. QED
        BY <3>1, <3>2
    <2>4. QED
      BY <2>3
  <1>13. ASSUME NEW g \in Groups, FactoryReturns(g) PROVE AnswerInv'
    <2>1. PICK l \in Lifetimes : LET t == [n |-> produced[g], expiration |-> ExpirationOf(l)] IN
              /\ token' = [c \in Calls |-> IF c \in Members(g) THEN t ELSE token[c]]
              /\ entry' = IF lifetime[g[1]] > 0 THEN [token |-> t, until |-> now + lifetime[g[1]]] ELSE entry
      BY <1>13 DEF FactoryReturns
    <2>2. /\ group[g] = "answered"
          /\ pc' = [c \in Calls |-> IF c \in Members(g) THEN "check" ELSE pc[c]]
          /\ produced' = [produced EXCEPT ![g] = 0] /\ group' = [group EXCEPT ![g] = "none"]
          /\ UNCHANGED handed
      BY <1>13 DEF FactoryReturns, Continue, EndGroup
    <2>3. ASSUME NEW h \in Groups, group'[h] = "answered"
          PROVE  h # g /\ group[h] = "answered" /\ produced'[h] = produced[h] /\ produced[h] # produced[g]
      BY <1>t, <2>2, <2>3
    <2>4. ASSUME NEW h \in Groups, group'[h] = "answered"
          PROVE  /\ entry' # None => entry'.token.n # produced'[h]
                 /\ \A c \in Calls : pc'[c] = "check" => token'[c].n # produced'[h]
      <3>1. h # g /\ group[h] = "answered" /\ produced'[h] = produced[h] /\ produced[h] # produced[g]
        BY <2>3, <2>4
      <3>2. entry' # None => entry'.token.n # produced[h]
        BY <2>1, <3>1
      <3>3. \A c \in Calls : pc'[c] = "check" => token'[c].n # produced[h]
        BY <2>1, <2>2, <3>1
      <3>4. QED
        BY <3>1, <3>2, <3>3
    <2>5. QED
      BY <2>2, <2>3, <2>4
  <1>14. ASSUME NEW g \in Groups, CacheWriteThrows(g) PROVE AnswerInv'
    BY <1>t, <1>14 DEF CacheWriteThrows, EndGroup, Continue
  <1>15. ASSUME NEW g \in Groups, FactoryThrows(g) PROVE AnswerInv'
    BY <1>t, <1>15 DEF FactoryThrows, EndGroup, Continue
  <1>16. CASE UNCHANGED vars
    BY <1>16 DEF vars
  <1>17. QED
    <2> HIDE DEF AnswerInv
    <2>1. QED
      BY <1>1, <1>2, <1>3, <1>4, <1>5, <1>6, <1>7, <1>8, <1>9, <1>10, <1>11, <1>12, <1>13, <1>14, <1>15, <1>16
         DEF Next, CallStep, GroupStep

LEMMA NextRenewalInv == TypeInv /\ IssuedInv /\ AnswerInv /\ RenewalInv /\ [Next]_vars => RenewalInv'
  <1> SUFFICES ASSUME TypeInv, IssuedInv, AnswerInv, RenewalInv, [Next]_vars PROVE RenewalInv'
    OBVIOUS
  <1> USE NoneAssumption DEF RenewalInv, cacheVars, callVars
  <1>t. /\ issued \in Nat /\ pc \in [Calls -> CallStates] /\ known \in [Calls -> SUBSET Nat]
        /\ token \in [Calls -> Tokens \cup {None}] /\ force \in [Calls -> BOOLEAN]
    BY DEF TypeInv, TypeOK
  <1>1. CASE Tick
    BY <1>1 DEF Tick
  <1>2. CASE DeleteAccessToken
    BY <1>2 DEF DeleteAccessToken
  <1>3. ASSUME NEW c \in Calls, NEW k \in BOOLEAN, Call(c, k) PROVE RenewalInv'
    BY <1>t, <1>3 DEF Call
  <1>4. ASSUME NEW c \in Calls, ComputeExpiration(c) PROVE RenewalInv'
    BY <1>t, <1>4 DEF ComputeExpiration
  <1>5. ASSUME NEW c \in Calls, ReadFromCache(c) PROVE RenewalInv'
    BY <1>t, <1>5 DEF ReadFromCache
  <1>6. ASSUME NEW c \in Calls, JoinGroup(c) PROVE RenewalInv'
    BY <1>t, <1>6 DEF JoinGroup
  <1>7. ASSUME NEW c \in Calls, RequestDirectly(c) PROVE RenewalInv'
    <2>1. PICK l \in Lifetimes : token' = [token EXCEPT ![c] = [n |-> issued + 1, expiration |-> ExpirationOf(l)]]
      BY <1>7 DEF RequestDirectly
    <2>2. issued + 1 \notin known[c]
      BY <1>t DEF IssuedInv
    <2>3. pc' = [pc EXCEPT ![c] = "check"] /\ UNCHANGED <<force, known>>
      BY <1>7 DEF RequestDirectly
    <2>4. QED
      BY <1>t, <2>1, <2>2, <2>3
  <1>8. ASSUME NEW c \in Calls, ReturnToken(c) PROVE RenewalInv'
    BY <1>t, <1>8 DEF ReturnToken, Finish
  <1>9. ASSUME NEW c \in Calls, RetryWithForce(c) PROVE RenewalInv'
    BY <1>t, <1>9 DEF RetryWithForce
  <1>10. ASSUME NEW c \in Calls, CacheThrows(c) PROVE RenewalInv'
    BY <1>t, <1>10 DEF CacheThrows
  <1>11. ASSUME NEW c \in Calls, DirectRequestFails(c) PROVE RenewalInv'
    BY <1>t, <1>11 DEF DirectRequestFails, Finish
  <1>12. ASSUME NEW g \in Groups, EndpointIssues(g) PROVE RenewalInv'
    BY <1>12 DEF EndpointIssues
  <1>13. ASSUME NEW g \in Groups, FactoryReturns(g) PROVE RenewalInv'
    <2>1. PICK l \in Lifetimes : token' = [c \in Calls |->
              IF c \in Members(g) THEN [n |-> produced[g], expiration |-> ExpirationOf(l)] ELSE token[c]]
      BY <1>13 DEF FactoryReturns
    <2>2. pc' = [c \in Calls |-> IF c \in Members(g) THEN "check" ELSE pc[c]] /\ UNCHANGED <<force, known>>
      BY <1>13 DEF FactoryReturns, Continue
    <2>3. \A c \in Calls : produced[g] \notin known[c]
      BY <1>13 DEF FactoryReturns, IssuedInv, AnswerInv
    <2>4. QED
      BY <2>1, <2>2, <2>3
  <1>14. ASSUME NEW g \in Groups, CacheWriteThrows(g) PROVE RenewalInv'
    BY <1>t, <1>14 DEF CacheWriteThrows, Continue
  <1>15. ASSUME NEW g \in Groups, FactoryThrows(g) PROVE RenewalInv'
    BY <1>t, <1>15 DEF FactoryThrows, Continue
  <1>16. CASE UNCHANGED vars
    BY <1>16 DEF vars
  <1>17. QED
    <2> HIDE DEF RenewalInv
    <2>1. QED
      BY <1>1, <1>2, <1>3, <1>4, <1>5, <1>6, <1>7, <1>8, <1>9, <1>10, <1>11, <1>12, <1>13, <1>14, <1>15, <1>16
         DEF Next, CallStep, GroupStep

LEMMA Invariance == Spec => []Inv
  <1>1. Inv /\ [Next]_vars => Inv'
    BY NextTypeInv, NextIssuedInv, NextAnswerInv, NextRenewalInv DEF Inv
  <1>2. QED
    BY InitInv, <1>1, PTL DEF Spec

-----------------------------------------------------------------------------
\* Only ReturnToken takes a call from the check of its token to its end.
LEMMA ReturningSteps ==
  ASSUME TypeInv, [Next]_vars, NEW c \in Calls, Returns(c)
  PROVE  ReturnToken(c)
  <1> USE DEF Returns, cacheVars, callVars
  <1>t. pc \in [Calls -> CallStates]
    BY DEF TypeInv, TypeOK
  <1>1. ASSUME Tick \/ DeleteAccessToken \/ UNCHANGED vars PROVE FALSE
    BY <1>1 DEF Tick, DeleteAccessToken, vars
  <1>2. ASSUME NEW d \in Calls,
               (\E k \in BOOLEAN : Call(d, k)) \/ ComputeExpiration(d) \/ ReadFromCache(d) \/ JoinGroup(d)
               \/ RequestDirectly(d) \/ RetryWithForce(d) \/ CacheThrows(d) \/ DirectRequestFails(d)
        PROVE  FALSE
    BY <1>t, <1>2 DEF Call, ComputeExpiration, ReadFromCache, JoinGroup, RequestDirectly, RetryWithForce,
                      CacheThrows, DirectRequestFails, Finish
  <1>3. ASSUME NEW g \in Groups, GroupStep(g) \/ CacheWriteThrows(g) \/ FactoryThrows(g) PROVE FALSE
    BY <1>t, <1>3 DEF GroupStep, EndpointIssues, FactoryReturns, CacheWriteThrows, FactoryThrows, Continue, Members
  <1>4. ASSUME NEW d \in Calls, ReturnToken(d) PROVE ReturnToken(c)
    BY <1>t, <1>4 DEF ReturnToken, Finish
  <1>5. QED
    <2> HIDE DEF Returns, cacheVars, callVars
    <2>1. QED
      BY <1>1, <1>2, <1>3, <1>4 DEF Next, CallStep

\* The state of the cache and of its calls is what TypeOK says, whatever fails.
THEOREM TypeCorrect == Spec => []TypeOK
  <1>1. Inv => TypeOK
    BY DEF Inv, TypeInv
  <1>2. QED
    BY Invariance, <1>1, PTL

\* A forced renewal never returns a token that a call had been given before it
\* was asked for: a group of forced calls is served by a request that was
\* answered while all of them waited.
THEOREM ForcedRenewalsAreNew == Spec => ForcedRenewalIsNew
  <1>1. Inv /\ [Next]_vars => \A c \in Calls : Returns(c) /\ force[c] => token[c].n \notin known[c]
    BY DEF Inv, RenewalInv, Returns
  <1>2. QED
    BY Invariance, <1>1, PTL DEF Spec, ForcedRenewalIsNew

\* GetAccessTokenAsync never hands out an expired entry of the cache: a token
\* that is expired when it is returned is new.
THEOREM UsableTokens == Spec => ReturnsUsableToken
  <1>1. Inv /\ [Next]_vars => \A c \in Calls : Returns(c) => ~IsExpired(token[c]) \/ token[c].n \notin known[c]
    <2> SUFFICES ASSUME Inv, [Next]_vars, NEW c \in Calls, Returns(c)
                 PROVE  ~IsExpired(token[c]) \/ token[c].n \notin known[c]
      OBVIOUS
    <2>1. ReturnToken(c)
      BY ReturningSteps DEF Inv
    <2>2. CASE force[c]
      BY <2>1, <2>2 DEF ReturnToken, Inv, RenewalInv
    <2>3. CASE ~force[c]
      BY <2>1, <2>3 DEF ReturnToken
    <2>4. QED
      BY <2>2, <2>3
  <1>2. QED
    BY Invariance, <1>1, PTL DEF Spec, ReturnsUsableToken
================================================================================
