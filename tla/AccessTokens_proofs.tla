-------------------------- MODULE AccessTokens_proofs --------------------------
(***************************************************************************)
(* Safety of the access token handler and its retry for any number of       *)
(* requests and APIs and tokens of every kind, and of the tokens in the     *)
(* properties of a session for any resources and challenge schemes.         *)
(***************************************************************************)
EXTENDS MCAccessTokens, FiniteSetTheorems, TLAPS

-----------------------------------------------------------------------------
(* AccessTokenRequestHandler.                                              *)

\* A token is fetched by a request that goes on to set it.  After a denied
\* attempt the renewal is forced, and what is fetched is newer.
RenewInv ==
    \A r \in Requests :
        /\ pc[r] = "setToken" => token[r] # None
        /\ header[r] # None => header[r].token.number <= issued
        /\ pc[r] = "getToken" /\ attempts[r] = 2 /\ response[r].status = "denied" => force[r]
        /\ pc[r] = "idle" => header[r] = None
        /\ pc[r] = "response" => response[r] \in Responses

\* There is one proof at most, and none without a header.  With a token that has
\* a key the proof is that token's, and it is there with the DPoP scheme and not
\* after the fallback.  Of the proof with a keyless token nothing is known.
ProofsFit(r) ==
    /\ header[r] = None => proofs[r] = {}
    /\ \A p, q \in proofs[r] : p = q
    /\ header[r] # None /\ HasKey(header[r].token) =>
        /\ \A p \in proofs[r] : p.token = header[r].token.number
        /\ header[r].scheme = "DPoP" => proofs[r] # {}
        /\ header[r].scheme # header[r].token.kind.scheme => proofs[r] = {}

ProofInv == \A r \in Requests : ProofsFit(r)

\* The nonces in the store, on the requests and in the responses are where
\* their API is.
NonceInv ==
    /\ \A a \in Apis : store[a] # None => store[a].api = a
    /\ \A r \in Requests :
        /\ ownNonce[r] # None => ownNonce[r].api = api[r]
        /\ response[r] # None => (response[r].nonce # None => response[r].nonce.api = api[r])
        /\ \A p \in proofs[r] : p.nonce # None => p.nonce.api = api[r]

\* Nothing is sent while a token is fetched or set, so a token that was fetched
\* is the one that is sent.
SuppliedInv ==
    \A r \in Requests :
        pc[r] = "send" /\ token[r] # None /\ HasKey(token[r]) =>
            \A p \in proofs[r] : ownNonce[r] # None => p.nonce = ownNonce[r]

LEMMA InitInv == Init => TypeOK /\ RenewInv /\ DeniedTokensAreRenewed /\ ProofInv /\ NonceInv /\ SuppliedInv
  <1> SUFFICES ASSUME Init PROVE TypeOK /\ RenewInv /\ DeniedTokensAreRenewed /\ ProofInv /\ NonceInv /\ SuppliedInv
    OBVIOUS
  <1> USE NoneAssumption DEF Init
  <1>1. TypeOK
    <2>1. force \in [Requests -> BOOLEAN]
      OBVIOUS
    <2>2. QED
      BY <2>1 DEF TypeOK, States
  <1>2. RenewInv /\ DeniedTokensAreRenewed
    BY DEF RenewInv, DeniedTokensAreRenewed
  <1>3. ProofInv /\ NonceInv /\ SuppliedInv
    BY DEF ProofInv, ProofsFit, NonceInv, SuppliedInv
  <1>4. QED
    BY <1>1, <1>2, <1>3

LEMMA NextTypeOK == TypeOK /\ RenewInv /\ [Next]_vars => TypeOK'
  <1> SUFFICES ASSUME TypeOK, RenewInv, [Next]_vars PROVE TypeOK'
    OBVIOUS
  <1> USE NoneAssumption
      DEF TypeOK, States, Statuses, Nonces, AuthorizationSchemes, Kinds, Tokens, IssuedTokens, Headers, Proofs, Responses,
          serverVars, clientVars, requestVars, Goto, SetToken, HasKey, StoreNonce, ProofNonce, NonceOf, RenewInv
  <1>1. ASSUME NEW r \in Requests, Begin(r) PROVE TypeOK'
    BY <1>1 DEF Begin
  <1>2. ASSUME NEW r \in Requests, GetCachedToken(r) PROVE TypeOK'
    BY <1>2 DEF GetCachedToken
  <1>3. ASSUME NEW r \in Requests, GetNewToken(r) PROVE TypeOK'
    BY <1>3 DEF GetNewToken
  <1>4. ASSUME NEW r \in Requests, GetTokenFails(r) PROVE TypeOK'
    BY <1>4 DEF GetTokenFails
  <1>5. ASSUME NEW r \in Requests, SetKeylessToken(r) PROVE TypeOK'
    BY <1>5 DEF SetKeylessToken
  <1>6. ASSUME NEW r \in Requests, CreateProof(r) PROVE TypeOK'
    BY <1>6 DEF CreateProof
  <1>7. ASSUME NEW r \in Requests, FallBackToBearer(r) PROVE TypeOK'
    BY <1>7 DEF FallBackToBearer
  <1>8. ASSUME NEW r \in Requests, Throw(r) PROVE TypeOK'
    BY <1>8 DEF Throw
  <1>9. ASSUME NEW r \in Requests, Respond(r) PROVE TypeOK'
    BY <1>9 DEF Respond
  <1>10. ASSUME NEW r \in Requests, Return(r) PROVE TypeOK'
    BY <1>10 DEF Return
  <1>11. ASSUME NEW r \in Requests, GiveUp(r) PROVE TypeOK'
    BY <1>11 DEF GiveUp
  <1>12. ASSUME NEW r \in Requests, Retry(r) PROVE TypeOK'
    <2>1. response[r] \in Responses /\ response[r].status # "ok"
      BY <1>12 DEF Retry
    <2>2. CASE response[r].status = "dpopError"
      BY <1>12, <2>1, <2>2 DEF Retry, ShouldRetry
    <2>3. ASSUME response[r].status = "denied" PROVE TypeOK'
      <3>1. force' \in [Requests -> BOOLEAN]
        <4>1. force' = [force EXCEPT ![r] = TRUE]
          BY <1>12, <2>3 DEF Retry
        <4>2. force \in [Requests -> BOOLEAN]
          BY DEF TypeOK
        <4>3. QED
          BY <4>1, <4>2, Zenon
      <3>2. ownNonce' = ownNonce
        BY <1>12, <2>3 DEF Retry
      <3>3. /\ attempts' = [attempts EXCEPT ![r] = 2] /\ pc' = [pc EXCEPT ![r] = "getToken"]
            /\ UNCHANGED <<api, serverVars, clientVars, token, header, proofs, response>>
        BY <1>12 DEF Retry
      <3>4. attempts' \in [Requests -> 0..2] /\ pc' \in [Requests -> States]
        BY <3>3
      <3>5. QED
        BY <3>1, <3>2, <3>3, <3>4
    <2>4. QED
      BY <2>1, <2>2, <2>3
  <1>13. ASSUME NEW a \in Apis, RotateNonce(a) PROVE TypeOK'
    BY <1>13 DEF RotateNonce
  <1>14. ASSUME NEW a \in Apis, EvictNonce(a) PROVE TypeOK'
    BY <1>14 DEF EvictNonce
  <1>15. CASE UNCHANGED vars
    BY <1>15 DEF vars
  <1>16. QED
    BY <1>1, <1>2, <1>3, <1>4, <1>5, <1>6, <1>7, <1>8, <1>9, <1>10, <1>11, <1>12, <1>13, <1>14, <1>15 DEF Next, RequestStep

LEMMA NextRenewInv == TypeOK /\ RenewInv /\ [Next]_vars => RenewInv'
  <1> SUFFICES ASSUME TypeOK, RenewInv, [Next]_vars PROVE RenewInv'
    OBVIOUS
  <1> USE NoneAssumption
      DEF TypeOK, States, Statuses, Nonces, AuthorizationSchemes, Kinds, Tokens, IssuedTokens, Headers, Proofs, Responses,
          serverVars, clientVars, requestVars, Goto, SetToken, HasKey, StoreNonce, ProofNonce, NonceOf, RenewInv
  <1>1. ASSUME NEW r \in Requests, Begin(r) PROVE RenewInv'
    BY <1>1 DEF Begin
  <1>2. ASSUME NEW r \in Requests, GetCachedToken(r) PROVE RenewInv'
    BY <1>2 DEF GetCachedToken
  <1>3. ASSUME NEW r \in Requests, GetNewToken(r) PROVE RenewInv'
    BY <1>3 DEF GetNewToken
  <1>4. ASSUME NEW r \in Requests, GetTokenFails(r) PROVE RenewInv'
    BY <1>4 DEF GetTokenFails
  <1>5. ASSUME NEW r \in Requests, SetKeylessToken(r) PROVE RenewInv'
    BY <1>5 DEF SetKeylessToken
  <1>6. ASSUME NEW r \in Requests, CreateProof(r) PROVE RenewInv'
    BY <1>6 DEF CreateProof
  <1>7. ASSUME NEW r \in Requests, FallBackToBearer(r) PROVE RenewInv'
    BY <1>7 DEF FallBackToBearer
  <1>8. ASSUME NEW r \in Requests, Throw(r) PROVE RenewInv'
    BY <1>8 DEF Throw
  <1>9. ASSUME NEW r \in Requests, Respond(r) PROVE RenewInv'
    BY <1>9 DEF Respond
  <1>10. ASSUME NEW r \in Requests, Return(r) PROVE RenewInv'
    BY <1>10 DEF Return
  <1>11. ASSUME NEW r \in Requests, GiveUp(r) PROVE RenewInv'
    BY <1>11 DEF GiveUp
  <1>12. ASSUME NEW r \in Requests, Retry(r) PROVE RenewInv'
    BY <1>12 DEF Retry
  <1>13. ASSUME NEW a \in Apis, RotateNonce(a) PROVE RenewInv'
    BY <1>13 DEF RotateNonce
  <1>14. ASSUME NEW a \in Apis, EvictNonce(a) PROVE RenewInv'
    BY <1>14 DEF EvictNonce
  <1>15. CASE UNCHANGED vars
    BY <1>15 DEF vars
  <1>16. QED
    BY <1>1, <1>2, <1>3, <1>4, <1>5, <1>6, <1>7, <1>8, <1>9, <1>10, <1>11, <1>12, <1>13, <1>14, <1>15 DEF Next, RequestStep

LEMMA NextRenewed == TypeOK /\ RenewInv /\ DeniedTokensAreRenewed /\ [Next]_vars => DeniedTokensAreRenewed'
  <1> SUFFICES ASSUME TypeOK, RenewInv, DeniedTokensAreRenewed, [Next]_vars PROVE DeniedTokensAreRenewed'
    OBVIOUS
  <1> USE NoneAssumption
      DEF TypeOK, States, Statuses, Nonces, AuthorizationSchemes, Kinds, Tokens, IssuedTokens, Headers, Proofs, Responses,
          serverVars, clientVars, requestVars, Goto, SetToken, HasKey, StoreNonce, ProofNonce, NonceOf, RenewInv, DeniedTokensAreRenewed
  <1>1. ASSUME NEW r \in Requests, Begin(r) PROVE DeniedTokensAreRenewed'
    BY <1>1 DEF Begin
  <1>2. ASSUME NEW r \in Requests, GetCachedToken(r) PROVE DeniedTokensAreRenewed'
    BY <1>2 DEF GetCachedToken
  <1>3. ASSUME NEW r \in Requests, GetNewToken(r) PROVE DeniedTokensAreRenewed'
    BY <1>3 DEF GetNewToken
  <1>4. ASSUME NEW r \in Requests, GetTokenFails(r) PROVE DeniedTokensAreRenewed'
    BY <1>4 DEF GetTokenFails
  <1>5. ASSUME NEW r \in Requests, SetKeylessToken(r) PROVE DeniedTokensAreRenewed'
    BY <1>5 DEF SetKeylessToken
  <1>6. ASSUME NEW r \in Requests, CreateProof(r) PROVE DeniedTokensAreRenewed'
    BY <1>6 DEF CreateProof
  <1>7. ASSUME NEW r \in Requests, FallBackToBearer(r) PROVE DeniedTokensAreRenewed'
    BY <1>7 DEF FallBackToBearer
  <1>8. ASSUME NEW r \in Requests, Throw(r) PROVE DeniedTokensAreRenewed'
    BY <1>8 DEF Throw
  <1>9. ASSUME NEW r \in Requests, Respond(r) PROVE DeniedTokensAreRenewed'
    BY <1>9 DEF Respond
  <1>10. ASSUME NEW r \in Requests, Return(r) PROVE DeniedTokensAreRenewed'
    BY <1>10 DEF Return
  <1>11. ASSUME NEW r \in Requests, GiveUp(r) PROVE DeniedTokensAreRenewed'
    BY <1>11 DEF GiveUp
  <1>12. ASSUME NEW r \in Requests, Retry(r) PROVE DeniedTokensAreRenewed'
    BY <1>12 DEF Retry
  <1>13. ASSUME NEW a \in Apis, RotateNonce(a) PROVE DeniedTokensAreRenewed'
    BY <1>13 DEF RotateNonce
  <1>14. ASSUME NEW a \in Apis, EvictNonce(a) PROVE DeniedTokensAreRenewed'
    BY <1>14 DEF EvictNonce
  <1>15. CASE UNCHANGED vars
    BY <1>15 DEF vars
  <1>16. QED
    BY <1>1, <1>2, <1>3, <1>4, <1>5, <1>6, <1>7, <1>8, <1>9, <1>10, <1>11, <1>12, <1>13, <1>14, <1>15 DEF Next, RequestStep

LEMMA NextProofInv == TypeOK /\ RenewInv /\ ProofInv /\ [Next]_vars => ProofInv'
  <1> SUFFICES ASSUME TypeOK, RenewInv, ProofInv, [Next]_vars PROVE ProofInv'
    OBVIOUS
  <1> USE NoneAssumption
      DEF TypeOK, States, Statuses, Nonces, AuthorizationSchemes, Kinds, Tokens, IssuedTokens, Headers, Proofs, Responses,
          serverVars, clientVars, requestVars, Goto, SetToken, HasKey, StoreNonce, ProofNonce, NonceOf, RenewInv, ProofInv, ProofsFit
  <1>1. ASSUME NEW r \in Requests, Begin(r) PROVE ProofInv'
    BY <1>1 DEF Begin
  <1>2. ASSUME NEW r \in Requests, GetCachedToken(r) PROVE ProofInv'
    BY <1>2 DEF GetCachedToken
  <1>3. ASSUME NEW r \in Requests, GetNewToken(r) PROVE ProofInv'
    BY <1>3 DEF GetNewToken
  <1>4. ASSUME NEW r \in Requests, GetTokenFails(r) PROVE ProofInv'
    BY <1>4 DEF GetTokenFails
  <1>5. ASSUME NEW r \in Requests, SetKeylessToken(r) PROVE ProofInv'
    BY <1>5 DEF SetKeylessToken
  <1>6. ASSUME NEW r \in Requests, CreateProof(r) PROVE ProofInv'
    <2> DEFINE proof == [token |-> token[r].number, nonce |-> ProofNonce(r)]
    <2>1. proof.token = token[r].number /\ token[r] # None
      BY <1>6 DEF CreateProof
    <2>2. /\ proofs' = [proofs EXCEPT ![r] = {proof}]
          /\ header' = [header EXCEPT ![r] = [scheme |-> token[r].kind.scheme, token |-> token[r]]]
      BY <1>6 DEF CreateProof
    <2>3. \A q \in Requests \ {r} : header'[q] = header[q] /\ proofs'[q] = proofs[q]
      BY <2>2
    <2>4. header'[r].token = token[r] /\ header'[r].scheme = token[r].kind.scheme /\ proofs'[r] = {proof}
      BY <2>2
    <2>5. header'[r] # None
      BY <2>1, <2>2
    <2> HIDE DEF proof
    <2>6. ASSUME NEW q \in Requests, q # r PROVE ProofsFit(q)'
      BY <2>3, <2>6
    <2>7. ProofsFit(r)'
      BY <2>1, <2>4, <2>5
    <2>8. QED
      BY <2>6, <2>7
  <1>7. ASSUME NEW r \in Requests, FallBackToBearer(r) PROVE ProofInv'
    BY <1>7 DEF FallBackToBearer
  <1>8. ASSUME NEW r \in Requests, Throw(r) PROVE ProofInv'
    BY <1>8 DEF Throw
  <1>9. ASSUME NEW r \in Requests, Respond(r) PROVE ProofInv'
    BY <1>9 DEF Respond
  <1>10. ASSUME NEW r \in Requests, Return(r) PROVE ProofInv'
    BY <1>10 DEF Return
  <1>11. ASSUME NEW r \in Requests, GiveUp(r) PROVE ProofInv'
    BY <1>11 DEF GiveUp
  <1>12. ASSUME NEW r \in Requests, Retry(r) PROVE ProofInv'
    BY <1>12 DEF Retry
  <1>13. ASSUME NEW a \in Apis, RotateNonce(a) PROVE ProofInv'
    BY <1>13 DEF RotateNonce
  <1>14. ASSUME NEW a \in Apis, EvictNonce(a) PROVE ProofInv'
    BY <1>14 DEF EvictNonce
  <1>15. CASE UNCHANGED vars
    BY <1>15 DEF vars
  <1>16. QED
    BY <1>1, <1>2, <1>3, <1>4, <1>5, <1>6, <1>7, <1>8, <1>9, <1>10, <1>11, <1>12, <1>13, <1>14, <1>15 DEF Next, RequestStep

LEMMA NextNonceInv == TypeOK /\ RenewInv /\ NonceInv /\ [Next]_vars => NonceInv'
  <1> SUFFICES ASSUME TypeOK, RenewInv, NonceInv, [Next]_vars PROVE NonceInv'
    OBVIOUS
  <1> USE NoneAssumption
      DEF TypeOK, States, Statuses, Nonces, AuthorizationSchemes, Kinds, Tokens, IssuedTokens, Headers, Proofs, Responses,
          serverVars, clientVars, requestVars, Goto, SetToken, HasKey, StoreNonce, ProofNonce, NonceOf, RenewInv, NonceInv
  <1>1. ASSUME NEW r \in Requests, Begin(r) PROVE NonceInv'
    BY <1>1 DEF Begin
  <1>2. ASSUME NEW r \in Requests, GetCachedToken(r) PROVE NonceInv'
    BY <1>2 DEF GetCachedToken
  <1>3. ASSUME NEW r \in Requests, GetNewToken(r) PROVE NonceInv'
    BY <1>3 DEF GetNewToken
  <1>4. ASSUME NEW r \in Requests, GetTokenFails(r) PROVE NonceInv'
    BY <1>4 DEF GetTokenFails
  <1>5. ASSUME NEW r \in Requests, SetKeylessToken(r) PROVE NonceInv'
    BY <1>5 DEF SetKeylessToken
  <1>6. ASSUME NEW r \in Requests, CreateProof(r) PROVE NonceInv'
    <2>1. ProofNonce(r) # None => ProofNonce(r).api = api[r]
      BY <1>6 DEF CreateProof
    <2>2. \A a \in Apis : store'[a] # None => store'[a].api = a
      BY <1>6 DEF CreateProof
    <2>3. proofs' = [proofs EXCEPT ![r] = {[token |-> token[r].number, nonce |-> ProofNonce(r)]}]
      BY <1>6 DEF CreateProof
    <2> HIDE DEF ProofNonce
    <2>4. \A q \in Requests : \A p \in proofs'[q] : p.nonce # None => p.nonce.api = api[q]
      BY <2>1, <2>3
    <2>5. QED
      BY <2>2, <2>4, <1>6 DEF CreateProof
  <1>7. ASSUME NEW r \in Requests, FallBackToBearer(r) PROVE NonceInv'
    BY <1>7 DEF FallBackToBearer
  <1>8. ASSUME NEW r \in Requests, Throw(r) PROVE NonceInv'
    BY <1>8 DEF Throw
  <1>9. ASSUME NEW r \in Requests, Respond(r) PROVE NonceInv'
    BY <1>9 DEF Respond
  <1>10. ASSUME NEW r \in Requests, Return(r) PROVE NonceInv'
    <2>1. response[r] # None /\ store' \in {store, [store EXCEPT ![api[r]] = response[r].nonce]}
      BY <1>10 DEF Return
    <2>2. store' # store => response[r].nonce.api = api[r]
      BY <2>1, <1>10 DEF Return
    <2>3. \A a \in Apis : store'[a] # None => store'[a].api = a
      BY <2>1, <2>2
    <2>4. UNCHANGED <<api, ownNonce, proofs, response>>
      BY <1>10 DEF Return
    <2>5. QED
      BY <2>3, <2>4
  <1>11. ASSUME NEW r \in Requests, GiveUp(r) PROVE NonceInv'
    BY <1>11 DEF GiveUp
  <1>12. ASSUME NEW r \in Requests, Retry(r) PROVE NonceInv'
    BY <1>12 DEF Retry
  <1>13. ASSUME NEW a \in Apis, RotateNonce(a) PROVE NonceInv'
    BY <1>13 DEF RotateNonce
  <1>14. ASSUME NEW a \in Apis, EvictNonce(a) PROVE NonceInv'
    BY <1>14 DEF EvictNonce
  <1>15. CASE UNCHANGED vars
    BY <1>15 DEF vars
  <1>16. QED
    BY <1>1, <1>2, <1>3, <1>4, <1>5, <1>6, <1>7, <1>8, <1>9, <1>10, <1>11, <1>12, <1>13, <1>14, <1>15 DEF Next, RequestStep

LEMMA NextSuppliedInv == TypeOK /\ ProofInv /\ SuppliedInv /\ [Next]_vars => SuppliedInv'
  <1> SUFFICES ASSUME TypeOK, ProofInv, SuppliedInv, [Next]_vars PROVE SuppliedInv'
    OBVIOUS
  <1> USE NoneAssumption
      DEF TypeOK, States, Statuses, Nonces, AuthorizationSchemes, Kinds, Tokens, IssuedTokens, Headers, Proofs, Responses,
          serverVars, clientVars, requestVars, Goto, SetToken, HasKey, StoreNonce, ProofNonce, NonceOf, ProofInv, SuppliedInv
  <1>1. ASSUME NEW r \in Requests, Begin(r) PROVE SuppliedInv'
    BY <1>1 DEF Begin
  <1>2. ASSUME NEW r \in Requests, GetCachedToken(r) PROVE SuppliedInv'
    BY <1>2 DEF GetCachedToken
  <1>3. ASSUME NEW r \in Requests, GetNewToken(r) PROVE SuppliedInv'
    BY <1>3 DEF GetNewToken
  <1>4. ASSUME NEW r \in Requests, GetTokenFails(r) PROVE SuppliedInv'
    BY <1>4 DEF GetTokenFails
  <1>5. ASSUME NEW r \in Requests, SetKeylessToken(r) PROVE SuppliedInv'
    BY <1>5 DEF SetKeylessToken
  <1>6. ASSUME NEW r \in Requests, CreateProof(r) PROVE SuppliedInv'
    BY <1>6 DEF CreateProof
  <1>7. ASSUME NEW r \in Requests, FallBackToBearer(r) PROVE SuppliedInv'
    BY <1>7 DEF FallBackToBearer
  <1>8. ASSUME NEW r \in Requests, Throw(r) PROVE SuppliedInv'
    BY <1>8 DEF Throw
  <1>9. ASSUME NEW r \in Requests, Respond(r) PROVE SuppliedInv'
    BY <1>9 DEF Respond
  <1>10. ASSUME NEW r \in Requests, Return(r) PROVE SuppliedInv'
    BY <1>10 DEF Return
  <1>11. ASSUME NEW r \in Requests, GiveUp(r) PROVE SuppliedInv'
    BY <1>11 DEF GiveUp
  <1>12. ASSUME NEW r \in Requests, Retry(r) PROVE SuppliedInv'
    BY <1>12 DEF Retry
  <1>13. ASSUME NEW a \in Apis, RotateNonce(a) PROVE SuppliedInv'
    BY <1>13 DEF RotateNonce
  <1>14. ASSUME NEW a \in Apis, EvictNonce(a) PROVE SuppliedInv'
    BY <1>14 DEF EvictNonce
  <1>15. CASE UNCHANGED vars
    BY <1>15 DEF vars
  <1>16. QED
    BY <1>1, <1>2, <1>3, <1>4, <1>5, <1>6, <1>7, <1>8, <1>9, <1>10, <1>11, <1>12, <1>13, <1>14, <1>15 DEF Next, RequestStep

Inv == TypeOK /\ RenewInv /\ DeniedTokensAreRenewed /\ ProofInv /\ NonceInv /\ SuppliedInv

LEMMA Invariance == Spec => []Inv
  <1>1. Init => Inv
    BY InitInv DEF Inv
  <1>2. Inv /\ [Next]_vars => Inv'
    BY NextTypeOK, NextRenewInv, NextRenewed, NextProofInv, NextNonceInv, NextSuppliedInv DEF Inv
  <1>3. QED
    BY <1>1, <1>2, PTL DEF Spec

\* Every variable of the handler keeps its type: no request is attempted more
\* than twice.
THEOREM TypeCorrect == Spec => []TypeOK
  <1>1. Inv => TypeOK
    BY DEF Inv
  <1>2. QED
    BY Invariance, <1>1, PTL

\* Nothing is sent with two proofs, and a token that has a key is sent with no
\* proof but its own, which the DPoP scheme requires and the fallback forbids.
THEOREM OneProof == Spec => []OneProofPerToken
  <1>1. ASSUME Inv PROVE OneProofPerToken
    <2> SUFFICES ASSUME NEW r \in Requests, pc[r] = "send", header[r] # None
                 PROVE  /\ Cardinality(proofs[r]) <= 1
                        /\ HasKey(header[r].token) =>
                            /\ \A p \in proofs[r] : p.token = header[r].token.number
                            /\ header[r].scheme = "DPoP" => proofs[r] # {}
                            /\ header[r].scheme # header[r].token.kind.scheme => proofs[r] = {}
      BY DEF OneProofPerToken
    <2>1. ProofsFit(r)
      BY <1>1 DEF Inv, ProofInv
    <2>2. Cardinality(proofs[r]) <= 1
      <3>1. CASE proofs[r] = {}
        BY <3>1, FS_EmptySet
      <3>2. ASSUME NEW p \in proofs[r] PROVE Cardinality(proofs[r]) <= 1
        <4>1. proofs[r] = {p}
          BY <2>1 DEF ProofsFit
        <4>2. Cardinality({p}) = 1
          BY FS_Singleton
        <4>3. QED
          BY <4>1, <4>2
      <3>3. QED
        BY <3>1, <3>2
    <2>3. QED
      BY <2>1, <2>2 DEF ProofsFit
  <1>2. QED
    BY Invariance, <1>1, PTL

\* The nonce of a proof is one of the API the proof is sent to.
THEOREM NoncesStayWithTheirApi == Spec => []ProofFitsApi
  <1>1. Inv => ProofFitsApi
    BY DEF Inv, NonceInv, ProofFitsApi
  <1>2. QED
    BY Invariance, <1>1, PTL

\* A retry after a rejected proof uses the nonce that came with the rejection.
THEOREM SuppliedNoncesAreUsed == Spec => []RetryUsesSuppliedNonce
  <1>1. Inv => RetryUsesSuppliedNonce
    BY DEF Inv, SuppliedInv, RetryUsesSuppliedNonce
  <1>2. QED
    BY Invariance, <1>1, PTL

\* A token that is set after a denied attempt is newer than the denied one.
THEOREM DeniedTokensAreNotRepeated == Spec => []DeniedTokensAreRenewed
  <1>1. Inv => DeniedTokensAreRenewed
    BY DEF Inv
  <1>2. QED
    BY Invariance, <1>1, PTL
-----------------------------------------------------------------------------
(* TokenProperties.                                                        *)

\* Every item has a name of the store and a value.
ItemsInv ==
    /\ sets \in Nat
    /\ stored \in [Names!Parameters -> Nat \cup {None}]
    /\ DOMAIN items \subseteq Names!Names
    /\ \A n \in DOMAIN items : items[n] \in Nat

\* A token that was stored has its item; an access token's item with both
\* suffixes is that of a token that was stored; and what the tokens of a scheme
\* share is there only with one of them.
StoredInv ==
    /\ \A p \in Names!Parameters : stored[p] # None => Names!NameWithScheme("access_token", p) \in DOMAIN items
    /\ \A n \in DOMAIN items :
          n.type = "access_token" /\ n.resource # None /\ n.scheme # None =>
              stored[[resource |-> n.resource, scheme |-> n.scheme]] # None
    /\ \A s \in Schemes : \A type \in Names!SharedTypes :
          [type |-> type, resource |-> None, scheme |-> s] \in DOMAIN items =>
              \E p \in Names!Parameters : p.scheme = s /\ stored[p] # None

NamesInv == ItemsInv /\ StoredInv

LEMMA InitNamesInv == Names!Init => NamesInv
  <1> SUFFICES ASSUME Names!Init PROVE NamesInv
    OBVIOUS
  <1> USE NamesAssumption, NoneAssumption
  <1>1. \A n \in DOMAIN items : n.resource = None /\ n.scheme = None /\ n \in Names!Names /\ items[n] \in Nat
    BY DEF Names!Init, Names!Names, Names!TokenTypes, Names!SharedTypes, Names!Suffixes
  <1>2. stored = [p \in Names!Parameters |-> None] /\ sets = 0
    BY DEF Names!Init
  <1>3. ItemsInv
    BY <1>1, <1>2 DEF ItemsInv
  <1>4. StoredInv
    BY <1>1, <1>2 DEF StoredInv
  <1>5. QED
    BY <1>3, <1>4 DEF NamesInv

\* The names of the items of p.
LEMMA NamesOf ==
  ASSUME NEW p \in Names!Parameters, NEW type \in Names!TokenTypes \cup Names!SharedTypes
  PROVE  /\ Names!NameWithScheme(type, p) =
               [type |-> type, resource |-> IF type \in Names!SharedTypes THEN None ELSE p.resource,
                scheme |-> Names!SchemeSuffix(p)]
         /\ Names!NameWithoutScheme(type, p) =
               [type |-> type, resource |-> IF type \in Names!SharedTypes THEN None ELSE p.resource,
                scheme |-> None]
         /\ Names!NameWithScheme(type, p) \in Names!Names
         /\ Names!SchemeSuffix(p) \in Schemes \cup {None}
         /\ Scoped => Names!SchemeSuffix(p) = p.scheme
         /\ Names!AppendChallengeScheme(p) <=> Names!SchemeSuffix(p) # None
         /\ Names!SchemeSuffix(p) # None => Names!SchemeSuffix(p) = p.scheme
  BY NamesAssumption
  DEF Names!Parameters, Names!NameWithScheme, Names!NameWithoutScheme, Names!Names, Names!SchemeSuffix,
      Names!AppendChallengeScheme, Names!TokenTypes, Names!SharedTypes, Names!Suffixes

\* What SetUserToken writes, and what it leaves.
LEMMA ItemsSet ==
  ASSUME NamesInv, NEW p \in Names!Parameters, NEW parts \in {{}, {"id_token"}, Names!SharedTypes},
         Names!SetUserToken(p, parts)
  PROVE  LET written == {Names!NameWithScheme(type, p) : type \in {"access_token", "client_id"} \cup parts}
         IN  /\ sets' = sets + 1
             /\ \A n \in DOMAIN items' : n \in written \/ n \in DOMAIN items
             /\ \A n \in written : n \in DOMAIN items' /\ items'[n] = sets'
             /\ \A n \in DOMAIN items \ written : n.type # "id_token" => n \in DOMAIN items'
             /\ \A n \in DOMAIN items' \ written : items'[n] = items[n]
             /\ \A q \in Names!Parameters : stored'[q] =
                   IF q.resource = p.resource /\ Names!SchemeSuffix(q) = Names!SchemeSuffix(p)
                   THEN sets' ELSE stored[q]
  <1> DEFINE written == {Names!NameWithScheme(type, p) : type \in {"access_token", "client_id"} \cup parts}
             null == {Names!NameWithScheme("id_token", p)} \ written
  <1>1. /\ sets' = sets + 1
        /\ DOMAIN items' = written \cup (DOMAIN items \ null)
        /\ \A n \in DOMAIN items' : items'[n] = IF n \in written THEN sets' ELSE items[n]
    BY DEF Names!SetUserToken
  <1>2. \A n \in null : n.type = "id_token"
    BY NamesOf DEF Names!TokenTypes
  <1>3. null \cap written = {}
    OBVIOUS
  <1> HIDE DEF null
  <1>4. \A q \in Names!Parameters : stored'[q] =
          IF q.resource = p.resource /\ Names!SchemeSuffix(q) = Names!SchemeSuffix(p) THEN sets' ELSE stored[q]
    BY DEF Names!SetUserToken
  <1>5. QED
    BY <1>1, <1>2, <1>3, <1>4

\* What RemoveUserToken removes: the access token of p, and what is shared when
\* no other resource has an access token.
LEMMA ItemsRemoved ==
  ASSUME NamesInv, NEW p \in Names!Parameters, Names!RemoveUserToken(p)
  PROVE  LET own == Names!NameWithScheme("access_token", p)
             shared == {Names!NameWithScheme(type, p) : type \in Names!SharedTypes}
             others == Names!OtherResourcesExist(DOMAIN items \ {own}, p)
         IN  /\ sets' = sets
             /\ DOMAIN items' = DOMAIN items \ ({own} \cup IF others THEN {} ELSE shared)
             /\ \A n \in DOMAIN items' : items'[n] = items[n]
             /\ \A q \in Names!Parameters : stored'[q] =
                   IF q.resource = p.resource /\ Names!SchemeSuffix(q) = Names!SchemeSuffix(p)
                   THEN None ELSE stored[q]
  BY DEF Names!RemoveUserToken, Names!Without
\* Equal names have equal resources and suffixes.
LEMMA SameName ==
  ASSUME NEW p \in Names!Parameters, NEW q \in Names!Parameters
  PROVE  Names!NameWithScheme("access_token", q) = Names!NameWithScheme("access_token", p) <=>
            q.resource = p.resource /\ Names!SchemeSuffix(q) = Names!SchemeSuffix(p)
  <1>1. "access_token" \in Names!TokenTypes \ Names!SharedTypes
    BY DEF Names!TokenTypes, Names!SharedTypes
  <1>2. /\ Names!NameWithScheme("access_token", q) =
              [type |-> "access_token", resource |-> q.resource, scheme |-> Names!SchemeSuffix(q)]
        /\ Names!NameWithScheme("access_token", p) =
              [type |-> "access_token", resource |-> p.resource, scheme |-> Names!SchemeSuffix(p)]
    BY <1>1, NamesOf
  <1>3. QED
    BY <1>2

\* An access token's item with both suffixes is the item of the parameters with
\* that resource and that scheme.
LEMMA OwnParameters ==
  ASSUME NEW n \in Names!Names, n.type = "access_token", n.resource # None, n.scheme # None
  PROVE  LET q == [resource |-> n.resource, scheme |-> n.scheme]
         IN  /\ Scoped /\ q \in Names!Parameters /\ n.scheme \in Schemes
             /\ Names!SchemeSuffix(q) = n.scheme
             /\ n = Names!NameWithScheme("access_token", q)
  <1> DEFINE q == [resource |-> n.resource, scheme |-> n.scheme]
  <1>1. n \in [type : Names!TokenTypes, resource : Resources \cup {None}, scheme : Names!Suffixes]
    BY DEF Names!Names, Names!SharedTypes
  <1>2. Scoped /\ q \in Names!Parameters /\ n.scheme \in Schemes
    BY <1>1, NamesAssumption DEF Names!Suffixes, Names!Parameters
  <1>3. Names!SchemeSuffix(q) = n.scheme
    BY <1>2 DEF Names!SchemeSuffix, Names!AppendChallengeScheme
  <1>4. Names!NameWithScheme("access_token", q) =
           [type |-> "access_token", resource |-> n.resource, scheme |-> n.scheme]
    BY <1>2, <1>3, NamesOf DEF Names!TokenTypes, Names!SharedTypes
  <1>5. QED
    BY <1>1, <1>2, <1>3, <1>4

LEMMA SetNamesInv ==
  ASSUME NamesInv, NEW p \in Names!Parameters, NEW parts \in {{}, {"id_token"}, Names!SharedTypes},
         Names!SetUserToken(p, parts)
  PROVE  NamesInv'
  <1> DEFINE written == {Names!NameWithScheme(type, p) : type \in {"access_token", "client_id"} \cup parts}
             own == Names!NameWithScheme("access_token", p)
  <1>1. /\ sets' = sets + 1
        /\ \A n \in DOMAIN items' : n \in written \/ n \in DOMAIN items
        /\ \A n \in written : n \in DOMAIN items' /\ items'[n] = sets'
        /\ \A n \in DOMAIN items \ written : n.type # "id_token" => n \in DOMAIN items'
        /\ \A n \in DOMAIN items' \ written : items'[n] = items[n]
        /\ \A q \in Names!Parameters : stored'[q] =
              IF q.resource = p.resource /\ Names!SchemeSuffix(q) = Names!SchemeSuffix(p)
              THEN sets' ELSE stored[q]
    BY ItemsSet
  <1>2. \A n \in written : n \in Names!Names /\ n.scheme = Names!SchemeSuffix(p)
    BY NamesOf DEF Names!TokenTypes, Names!SharedTypes
  <1>3. own \in written
    OBVIOUS
  <1>4. sets \in Nat /\ sets' \in Nat /\ sets' # None
    BY <1>1, NoneAssumption DEF NamesInv, ItemsInv
  <1>5. stored' \in [Names!Parameters -> Nat \cup {None}]
    BY <1>4 DEF Names!SetUserToken, NamesInv, ItemsInv
  <1>6. stored'[p] # None /\ \A q \in Names!Parameters : stored[q] # None => stored'[q] # None
    BY <1>1, <1>4
  <1> HIDE DEF written, own
  <1>7. ItemsInv'
    BY <1>1, <1>2, <1>4, <1>5 DEF ItemsInv, NamesInv
  <1>8. ASSUME NEW q \in Names!Parameters, stored'[q] # None
        PROVE  Names!NameWithScheme("access_token", q) \in DOMAIN items'
    <2>1. CASE Names!NameWithScheme("access_token", q) = own
      BY <1>1, <1>3, <2>1
    <2>2. CASE Names!NameWithScheme("access_token", q) # own
      <3>1. stored[q] # None
        BY <1>1, <1>8, <2>2, SameName DEF own
      <3>2. Names!NameWithScheme("access_token", q) \in DOMAIN items
        BY <3>1 DEF NamesInv, StoredInv
      <3>3. Names!NameWithScheme("access_token", q).type = "access_token"
        BY NamesOf DEF Names!TokenTypes
      <3>4. QED
        BY <1>1, <3>2, <3>3
    <2>3. QED
      BY <2>1, <2>2
  <1>9. ASSUME NEW n \in DOMAIN items', n.type = "access_token", n.resource # None, n.scheme # None
        PROVE  stored'[[resource |-> n.resource, scheme |-> n.scheme]] # None
    <2> DEFINE q == [resource |-> n.resource, scheme |-> n.scheme]
    <2>1. n \in Names!Names
      BY <1>7 DEF ItemsInv
    <2>2. q \in Names!Parameters /\ n = Names!NameWithScheme("access_token", q)
      BY <1>9, <2>1, OwnParameters
    <2>3. CASE n \in DOMAIN items
      <3>1. stored[q] # None
        BY <1>9, <2>3 DEF NamesInv, StoredInv
      <3>2. QED
        BY <1>6, <2>2, <3>1
    <2>4. CASE n \in written
      <3>1. PICK type \in {"access_token", "client_id"} \cup parts : n = Names!NameWithScheme(type, p)
        BY <2>4 DEF written
      <3>2. type = "access_token"
        BY <1>9, <3>1, NamesOf DEF Names!TokenTypes, Names!SharedTypes
      <3>3. q.resource = p.resource /\ Names!SchemeSuffix(q) = Names!SchemeSuffix(p)
        BY <2>2, <3>1, <3>2, SameName
      <3>4. stored'[q] = sets'
        BY <1>1, <2>2, <3>3
      <3>5. QED
        BY <1>4, <3>4
    <2>5. QED
      BY <1>1, <2>3, <2>4
  <1>10. ASSUME NEW s \in Schemes, NEW type \in Names!SharedTypes,
                [type |-> type, resource |-> None, scheme |-> s] \in DOMAIN items'
         PROVE  \E q \in Names!Parameters : q.scheme = s /\ stored'[q] # None
    <2> DEFINE n == [type |-> type, resource |-> None, scheme |-> s]
    <2>1. CASE n \in DOMAIN items
      <3>1. PICK q \in Names!Parameters : q.scheme = s /\ stored[q] # None
        BY <2>1 DEF NamesInv, StoredInv
      <3>2. QED
        BY <1>6, <3>1
    <2>2. CASE n \in written
      <3>1. Names!SchemeSuffix(p) = s /\ s # None
        BY <1>2, <2>2, NamesAssumption
      <3>2. p.scheme = s
        BY <3>1, NamesOf DEF Names!SharedTypes
      <3>3. QED
        BY <1>6, <3>2
    <2>3. QED
      BY <1>1, <1>10, <2>1, <2>2
  <1>11. StoredInv'
    BY <1>8, <1>9, <1>10 DEF StoredInv
  <1>12. QED
    BY <1>7, <1>11 DEF NamesInv
\* When what p shares is removed no access token of another resource is left
\* with its scheme.
LEMMA OthersAreCounted ==
  ASSUME NamesInv, NEW p \in Names!Parameters, NEW q \in Names!Parameters, q.resource # None,
         Names!NameWithScheme("access_token", q) # Names!NameWithScheme("access_token", p),
         Names!NameWithScheme("access_token", q) \in DOMAIN items,
         Names!SchemeSuffix(p) \in {None, Names!SchemeSuffix(q)}
  PROVE  Names!OtherResourcesExist(DOMAIN items \ {Names!NameWithScheme("access_token", p)}, p)
  <1> DEFINE n == Names!NameWithScheme("access_token", q)
  <1>1. n.type = "access_token" /\ n.resource # None /\ n.scheme = Names!SchemeSuffix(q)
    BY NamesOf DEF Names!TokenTypes, Names!SharedTypes
  <1>2. Names!AppendChallengeScheme(p) => n.scheme = p.scheme
    BY <1>1, NamesOf DEF Names!SharedTypes
  <1>3. n \in DOMAIN items \ {Names!NameWithScheme("access_token", p)}
    OBVIOUS
  <1> HIDE DEF n
  <1>4. QED
    BY <1>1, <1>2, <1>3 DEF Names!OtherResourcesExist

LEMMA RemoveNamesInv ==
  ASSUME NamesInv, NEW p \in Names!Parameters, Names!RemoveUserToken(p)
  PROVE  NamesInv'
  <1> DEFINE own == Names!NameWithScheme("access_token", p)
             shared == {Names!NameWithScheme(type, p) : type \in Names!SharedTypes}
             others == Names!OtherResourcesExist(DOMAIN items \ {own}, p)
  <1>1. /\ sets' = sets
        /\ DOMAIN items' = DOMAIN items \ ({own} \cup IF others THEN {} ELSE shared)
        /\ \A n \in DOMAIN items' : items'[n] = items[n]
        /\ \A q \in Names!Parameters : stored'[q] =
              IF q.resource = p.resource /\ Names!SchemeSuffix(q) = Names!SchemeSuffix(p)
              THEN None ELSE stored[q]
    BY ItemsRemoved
  <1>2. stored' \in [Names!Parameters -> Nat \cup {None}]
    BY DEF Names!RemoveUserToken, NamesInv, ItemsInv
  <1>3. \A n \in shared : n.type # "access_token" /\ n.scheme = Names!SchemeSuffix(p)
    BY NamesOf DEF Names!SharedTypes
  <1> HIDE DEF own, shared, others
  <1>4. ItemsInv'
    BY <1>1, <1>2 DEF ItemsInv, NamesInv
  <1>5. ASSUME NEW q \in Names!Parameters, stored'[q] # None
        PROVE  Names!NameWithScheme("access_token", q) \in DOMAIN items'
    <2>1. stored[q] # None /\ Names!NameWithScheme("access_token", q) # own
      BY <1>1, <1>5, SameName DEF own
    <2>2. Names!NameWithScheme("access_token", q) \in DOMAIN items
      BY <2>1 DEF NamesInv, StoredInv
    <2>3. Names!NameWithScheme("access_token", q).type = "access_token"
      BY NamesOf DEF Names!TokenTypes
    <2>4. QED
      BY <1>1, <1>3, <2>1, <2>2, <2>3
  <1>6. ASSUME NEW n \in DOMAIN items', n.type = "access_token", n.resource # None, n.scheme # None
        PROVE  stored'[[resource |-> n.resource, scheme |-> n.scheme]] # None
    <2> DEFINE q == [resource |-> n.resource, scheme |-> n.scheme]
    <2>1. q \in Names!Parameters /\ n = Names!NameWithScheme("access_token", q)
      BY <1>4, <1>6, OwnParameters DEF ItemsInv
    <2>2. n \in DOMAIN items /\ n # own
      BY <1>1
    <2>3. stored[q] # None
      BY <1>6, <2>2 DEF NamesInv, StoredInv
    <2>4. QED
      BY <1>1, <2>1, <2>2, <2>3, SameName DEF own
  <1>7. ASSUME NEW s \in Schemes, NEW type \in Names!SharedTypes,
               [type |-> type, resource |-> None, scheme |-> s] \in DOMAIN items'
        PROVE  \E q \in Names!Parameters : q.scheme = s /\ stored'[q] # None
    <2> DEFINE n == [type |-> type, resource |-> None, scheme |-> s]
    <2>1. n \in DOMAIN items /\ n \in Names!Names /\ s # None
      BY <1>1, <1>4, <1>7, NamesAssumption DEF ItemsInv
    <2>2. Scoped
      BY <2>1 DEF Names!Names, Names!Suffixes
    <2>3. CASE Names!SchemeSuffix(p) = s
      <3>1. Names!NameWithScheme(type, p) = n
        BY <2>3, NamesOf
      <3>2. n \in shared
        BY <3>1 DEF shared
      <3>3. others
        BY <1>1, <1>7, <3>2
      <3>4. PICK m \in DOMAIN items \ {own} : m.type = "access_token" /\ m.resource # None /\ m.scheme = s
        BY <2>1, <2>3, <3>3, NamesOf DEF others, Names!OtherResourcesExist, Names!SharedTypes
      <3> DEFINE q == [resource |-> m.resource, scheme |-> m.scheme]
      <3>5. q \in Names!Parameters /\ m = Names!NameWithScheme("access_token", q) /\ stored[q] # None
        BY <2>1, <3>4, OwnParameters DEF NamesInv, ItemsInv, StoredInv
      <3>6. stored'[q] # None
        BY <1>1, <3>4, <3>5, SameName DEF own
      <3>7. QED
        BY <3>4, <3>5, <3>6
    <2>4. CASE Names!SchemeSuffix(p) # s
      <3>1. PICK q \in Names!Parameters : q.scheme = s /\ stored[q] # None
        BY <2>1 DEF NamesInv, StoredInv
      <3>2. Names!SchemeSuffix(q) = s
        BY <2>2, <3>1, NamesOf DEF Names!SharedTypes
      <3>3. QED
        BY <1>1, <2>4, <3>1, <3>2
    <2>5. QED
      BY <2>3, <2>4
  <1>8. StoredInv'
    BY <1>5, <1>6, <1>7 DEF StoredInv
  <1>9. QED
    BY <1>4, <1>8 DEF NamesInv

LEMMA NextNamesInv == NamesInv /\ [Names!Next]_namesVars => NamesInv'
  <1> SUFFICES ASSUME NamesInv, [Names!Next]_namesVars PROVE NamesInv'
    OBVIOUS
  <1>1. CASE Names!Next
    BY <1>1, SetNamesInv, RemoveNamesInv DEF Names!Next
  <1>2. CASE UNCHANGED namesVars
    BY <1>2 DEF namesVars, NamesInv, ItemsInv, StoredInv
  <1>3. QED
    BY <1>1, <1>2

\* A refresh token that is set is newer than the one that was found.
LEMMA SetKeepsRefreshToken ==
  ASSUME NamesInv, NEW p \in Names!Parameters, NEW parts \in {{}, {"id_token"}, Names!SharedTypes},
         Names!SetUserToken(p, parts), NEW q \in Names!Parameters
  PROVE  Names!KeepsRefreshToken(q)
  <1> DEFINE written == {Names!NameWithScheme(type, p) : type \in {"access_token", "client_id"} \cup parts}
             scoped == Names!NameWithScheme("refresh_token", q)
             plain == Names!NameWithoutScheme("refresh_token", q)
  <1>1. /\ sets' = sets + 1
        /\ \A n \in DOMAIN items' : n \in written \/ n \in DOMAIN items
        /\ \A n \in written : n \in DOMAIN items' /\ items'[n] = sets'
        /\ \A n \in DOMAIN items \ written : n.type # "id_token" => n \in DOMAIN items'
        /\ \A n \in DOMAIN items' \ written : items'[n] = items[n]
    BY ItemsSet
  <1>2. scoped.type = "refresh_token" /\ plain.type = "refresh_token"
    BY NamesOf DEF Names!SharedTypes
  <1>3. sets \in Nat /\ \A n \in DOMAIN items : items[n] \in Nat
    BY DEF NamesInv, ItemsInv
  <1>4. /\ Names!GetUserToken(q)["refresh_token"] =
              IF Names!Item(scoped) # None THEN Names!Item(scoped) ELSE Names!Item(plain)
        /\ Names!GetUserToken(q)["refresh_token"]' =
              IF Names!Item(scoped)' # None THEN Names!Item(scoped)' ELSE Names!Item(plain)'
    BY DEF Names!GetUserToken, Names!GetTokenValue, Names!TokenTypes, Names!SharedTypes
  <1> HIDE DEF written, scoped, plain
  <1>5. sets' # None /\ sets' \in (sets + 1)..sets'
    BY <1>1, <1>3, NoneAssumption
  <1>6. \A n \in {scoped, plain} :
           Names!Item(n)' = sets' \/ Names!Item(n)' = Names!Item(n)
    BY <1>1, <1>2 DEF Names!Item
  <1>7. \A n \in {scoped, plain} : Names!Item(n) # None => Names!Item(n)' # None
    BY <1>5, <1>6
  <1>8. QED
    BY <1>4, <1>5, <1>6, <1>7 DEF Names!KeepsRefreshToken

\* A refresh token is not removed while the access token of a resource stays.
LEMMA RemoveKeepsRefreshToken ==
  ASSUME NamesInv, NEW p \in Names!Parameters, Names!RemoveUserToken(p),
         NEW q \in Names!Parameters, q.resource # None
  PROVE  Names!KeepsRefreshToken(q)
  <1> SUFFICES ASSUME stored[q] # None, stored'[q] # None
               PROVE  Names!GetUserToken(q)["refresh_token"]' = Names!GetUserToken(q)["refresh_token"]
    BY DEF Names!KeepsRefreshToken
  <1> DEFINE own == Names!NameWithScheme("access_token", p)
             shared == {Names!NameWithScheme(type, p) : type \in Names!SharedTypes}
             others == Names!OtherResourcesExist(DOMAIN items \ {own}, p)
             scoped == Names!NameWithScheme("refresh_token", q)
             plain == Names!NameWithoutScheme("refresh_token", q)
  <1>1. /\ DOMAIN items' = DOMAIN items \ ({own} \cup IF others THEN {} ELSE shared)
        /\ \A n \in DOMAIN items' : items'[n] = items[n]
        /\ ~(q.resource = p.resource /\ Names!SchemeSuffix(q) = Names!SchemeSuffix(p))
    BY ItemsRemoved
  <1>2. scoped.type = "refresh_token" /\ plain.type = "refresh_token" /\ own.type = "access_token"
    BY NamesOf DEF Names!SharedTypes, Names!TokenTypes
  <1>3. /\ Names!GetUserToken(q)["refresh_token"] =
              IF Names!Item(scoped) # None THEN Names!Item(scoped) ELSE Names!Item(plain)
        /\ Names!GetUserToken(q)["refresh_token"]' =
              IF Names!Item(scoped)' # None THEN Names!Item(scoped)' ELSE Names!Item(plain)'
    BY DEF Names!GetUserToken, Names!GetTokenValue, Names!TokenTypes, Names!SharedTypes
  <1>4. others \/ (Names!SchemeSuffix(p) # None /\ Names!SchemeSuffix(p) # Names!SchemeSuffix(q))
    <2>1. Names!NameWithScheme("access_token", q) \in DOMAIN items
      BY DEF NamesInv, StoredInv
    <2>2. Names!NameWithScheme("access_token", q) # own
      BY <1>1, SameName
    <2>3. QED
      BY <2>1, <2>2, OthersAreCounted
  <1>5. /\ scoped.scheme = Names!SchemeSuffix(q) /\ plain.scheme = None
        /\ \A n \in shared : n.scheme = Names!SchemeSuffix(p)
    BY NamesOf DEF Names!SharedTypes
  <1> HIDE DEF own, shared, others, scoped, plain
  <1>6. \A n \in {scoped, plain} : n \in DOMAIN items' <=> n \in DOMAIN items
    BY <1>1, <1>2, <1>4, <1>5
  <1>7. \A n \in {scoped, plain} : Names!Item(n)' = Names!Item(n)
    BY <1>1, <1>6 DEF Names!Item
  <1>8. QED
    BY <1>3, <1>7

\* What the tokens of a scheme share lasts as long as a resource needs it, and
\* no longer, whatever is set and removed in whatever order.
THEOREM SharedItemsAreKept == MCSpec => SharedItemsLastAsNeeded
  <1>1. MCInit => NamesInv
    BY InitNamesInv DEF MCInit
  <1>2. NamesInv /\ [MCNext]_allVars => NamesInv'
    <2> SUFFICES ASSUME NamesInv, [MCNext]_allVars PROVE NamesInv'
      OBVIOUS
    <2>1. [Names!Next]_namesVars
      BY DEF MCNext, allVars
    <2>2. QED
      BY <2>1, NextNamesInv
  <1>3. NamesInv /\ NamesInv' /\ [MCNext]_allVars => [part = "names" => Names!SharedItemsLast]_allVars
    <2> SUFFICES ASSUME NamesInv, NamesInv', MCNext, part = "names" PROVE Names!SharedItemsLast
      OBVIOUS
    <2>1. \A s \in Schemes : Names!SharedItemsAreRemoved(s)'
      <3>1. ASSUME NEW s \in Schemes PROVE Names!SharedItemsAreRemoved(s)'
        BY DEF NamesInv, StoredInv, Names!SharedItemsAreRemoved, Names!Item
      <3>2. QED
        BY <3>1
    <2>2. Names!Next
      BY DEF MCNext
    <2>3. ASSUME NEW q \in Names!Parameters, q.resource # None PROVE Names!KeepsRefreshToken(q)
      BY <2>2, <2>3, SetKeepsRefreshToken, RemoveKeepsRefreshToken DEF Names!Next
    <2>4. QED
      BY <2>1, <2>3 DEF Names!SharedItemsLast
  <1>4. QED
    BY <1>1, <1>2, <1>3, PTL DEF MCSpec, SharedItemsLastAsNeeded
================================================================================
