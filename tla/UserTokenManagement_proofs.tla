--------------------- MODULE UserTokenManagement_proofs ---------------------
(***************************************************************************)
(* Safety of UserTokenManagement for any number of users, requests, calls  *)
(* and parameters, with and without rotation and faults: the dictionary of *)
(* the concurrency service, the lock of a session, whom tokens belong to,  *)
(* and that the newest refresh token is neither lost nor replaced by an    *)
(* older one.                                                              *)
(***************************************************************************)
EXTENDS UserTokenManagement, TLAPS

\* A call that has started has parameters; one that decided to act on a
\* refresh token has read it from a session, which its request keeps.
CallInv ==
    /\ \A c \in Calls : pc[c] # "idle" => params[c] \in Params
    /\ \A c \in Calls : pc[c] \in {"execute", "value", "waiting", "revoking"} =>
            rt[c] \in RefreshTokens /\ properties[RequestOf[c]] # None
    /\ \A c \in Calls : pc[c] \in {"value", "waiting"} =>
            joined[c] \in Calls /\ flight[joined[c]] # "none"
    /\ \A r \in Requests : properties[r] # None => phase[r] # "new"

\* The refresh token and the parameters a flight captured no longer change;
\* a flight that runs has a starter whose request has a session.
FlightInv ==
    /\ \A f \in dictionary : flight[f] # "none"
    /\ \A f \in Calls : flight[f] # "none" =>
            pc[f] \in {"value", "waiting", "done"} /\ rt[f] \in RefreshTokens /\ params[f] \in Params
    /\ \A f \in Calls : Running(f) /\ flight[f] # "created" =>
            starter[f] \in Calls /\ properties[ContextOf(f)] # None
    /\ \A f \in Calls : flight[f] \in {"granted"} \cup WritingStates => granted[f] \in Tokens

TypeInv == TypeOK /\ CallInv /\ FlightInv

\* A session stays one when a token or a refresh token is written into it.
LEMMA SessionUpdates ==
  ASSUME NEW s \in Sessions
  PROVE  /\ \A p \in Params, t \in Tokens : [s EXCEPT !.at[p] = t] \in Sessions
         /\ \A t \in RefreshTokens : [s EXCEPT !.rt = t] \in Sessions
  BY DEF Sessions

\* A flight that was granted a token has a refresh token to store.
LEMMA GrantedRefreshToken ==
  ASSUME NEW f \in Calls, rt[f] \in RefreshTokens, granted[f] \in Tokens
  PROVE  ResponseRefreshToken(f) \in RefreshTokens
  BY DEF ResponseRefreshToken, RefreshTokens, Tokens

LEMMA InitTypeInv == Init => TypeInv
  <1> SUFFICES ASSUME Init PROVE TypeInv
    OBVIOUS
  <1>1. cookie \in [Users -> Sessions \cup {None}]
    <2>1. ASSUME NEW u \in Users PROVE LoginSessions(u) \subseteq Sessions
      BY DEF LoginSessions, Sessions, RefreshTokens, Tokens
    <2>2. QED
      BY <2>1 DEF Init
  <1>2. TypeOK
    BY <1>1 DEF Init, TypeOK, CallStates, Modes, FlightStates, Outcomes
  <1>3. QED
    BY <1>2 DEF Init, TypeInv, CallInv, FlightInv, Running, WritingStates

LEMMA NextTypeInv == TypeInv /\ [Next]_vars => TypeInv'
  <1> SUFFICES ASSUME TypeInv, [Next]_vars PROVE TypeInv'
    OBVIOUS
  <1> USE UserOfAssumption, RequestOfAssumption, NoneAssumption
          DEF TypeInv, TypeOK, CallInv, FlightInv, Running, CallStates, FlightStates, WritingStates,
              Modes, Outcomes, ContextOf, sessionVars, callVars, flightVars, serverVars
  <1>1. ASSUME NEW r \in Requests, BeginRequest(r) PROVE TypeInv'
    BY <1>1 DEF BeginRequest
  <1>2. ASSUME NEW r \in Requests, EndRequest(r) PROVE TypeInv'
    BY <1>2 DEF EndRequest
  <1>3. ASSUME NEW u \in Users, TokensBecomeDue(u) PROVE TypeInv'
    BY <1>3 DEF TokensBecomeDue
  <1>4. ASSUME NEW c \in Calls, NEW p \in Params, NEW m \in Modes, StartCall(c, p, m) PROVE TypeInv'
    BY <1>4 DEF StartCall
  <1>5. ASSUME NEW c \in Calls, NoTokenFound(c) PROVE TypeInv'
    BY <1>5 DEF NoTokenFound, MayRead, Return
  <1>6. ASSUME NEW c \in Calls, ReturnStoredToken(c) PROVE TypeInv'
    BY <1>6 DEF ReturnStoredToken, MayRead, Return, HasSession, StoredToken, Sessions
  <1>7. ASSUME NEW c \in Calls, DecideToRefresh(c) PROVE TypeInv'
    BY <1>7 DEF DecideToRefresh, MayRead, HasSession, ShouldRefresh, StoredRefreshToken, Sessions
  <1>8. ASSUME NEW c \in Calls, ReadCancelled(c) PROVE TypeInv'
    BY <1>8 DEF ReadCancelled, Return
  <1>9. ASSUME NEW c \in Calls, NothingToRevoke(c) PROVE TypeInv'
    BY <1>9 DEF NothingToRevoke, MayRead, Return
  <1>10. ASSUME NEW c \in Calls, DecideToRevoke(c) PROVE TypeInv'
    BY <1>10 DEF DecideToRevoke, MayRead, HasSession, StoredRefreshToken, Sessions
  <1>11. ASSUME NEW c \in Calls, RevokeRefreshToken(c) PROVE TypeInv'
    <2>1. rt[c].user \in Users /\ Accepts(rt[c]) \in BOOLEAN
      BY <1>11, FlagsAssumption DEF RevokeRefreshToken, Accepts, RefreshTokens
    <2> DEFINE a == revoked[rt[c].user] \/ Accepts(rt[c])
    <2>2. revoked' \in [Users -> BOOLEAN]
      <3>1. a \in BOOLEAN
        OBVIOUS
      <3>2. revoked' = [revoked EXCEPT ![rt[c].user] = a] \/ revoked' = revoked
        BY <1>11 DEF RevokeRefreshToken
      <3> HIDE DEF a
      <3>3. QED
        BY <2>1, <3>1, <3>2
    <2>3. QED
      BY <1>11, <2>2 DEF RevokeRefreshToken, Return
  <1>12. ASSUME NEW c \in Calls, GetOrAdd(c) PROVE TypeInv'
    <2>1. TypeOK'
      BY <1>12, SMTT(30) DEF GetOrAdd
    <2>2. CallInv'
      BY <1>12 DEF GetOrAdd
    <2>3. FlightInv'
      BY <1>12, SMTT(30) DEF GetOrAdd
    <2>4. QED
      BY <2>1, <2>2, <2>3
  <1>13. ASSUME NEW c \in Calls, ReadValue(c) PROVE TypeInv'
    <2>1. TypeOK'
      BY <1>13, SMTT(30) DEF ReadValue
    <2>2. CallInv'
      BY <1>13 DEF ReadValue
    <2>3. FlightInv'
      BY <1>13 DEF ReadValue
    <2>4. QED
      BY <2>1, <2>2, <2>3
  <1>14. ASSUME NEW c \in Calls, ReturnFlightResult(c) PROVE TypeInv'
    <2>1. TypeOK'
      BY <1>14 DEF ReturnFlightResult, Return
    <2>2. CallInv'
      BY <1>14 DEF ReturnFlightResult, Return
    <2>3. FlightInv'
      BY <1>14 DEF ReturnFlightResult, Return
    <2>4. QED
      BY <2>1, <2>2, <2>3
  <1>15. ASSUME NEW f \in Calls, EndpointGrants(f) PROVE TypeInv'
    BY <1>15 DEF EndpointGrants, RefreshTokens, Tokens
  <1>16. ASSUME NEW f \in Calls, EndpointRefuses(f) PROVE TypeInv'
    BY <1>16 DEF EndpointRefuses, EndFlight
  <1>17. ASSUME NEW f \in Calls, ExchangeFails(f) PROVE TypeInv'
    BY <1>17 DEF ExchangeFails, EndFlight
  <1>18. ASSUME NEW f \in Calls, AcquireLock(f) PROVE TypeInv'
    BY <1>18 DEF AcquireLock
  <1>19. ASSUME NEW f \in Calls, SetAccessToken(f) PROVE TypeInv'
    <2> DEFINE r == ContextOf(f)
               s == properties[r]
               t == [s EXCEPT !.at[params[f]] = granted[f]]
    <2>1. r \in Requests /\ s \in Sessions /\ params[f] \in Params /\ granted[f] \in Tokens
          /\ rt[f] \in RefreshTokens
      BY <1>19 DEF SetAccessToken
    <2>2. t \in Sessions
      BY <2>1, SessionUpdates
    <2>3. properties' = [properties EXCEPT ![r] = t]
      BY <1>19 DEF SetAccessToken
    <2>4. properties' \in [Requests -> Sessions \cup {None}]
          /\ \A q \in Requests : properties'[q] = None <=> properties[q] = None
      <3> HIDE DEF r, t, s
      <3>1. s = properties[r]
        BY DEF s
      <3>2. t # None /\ s # None
        BY <2>1, <2>2
      <3>3. QED
        BY <2>1, <2>2, <2>3, <3>1, <3>2
    <2>5. UNCHANGED <<dictionary, phase, pc, params, rt, joined, starter, granted>>
          /\ flight' = [flight EXCEPT ![f] = "tokenSet"]
          /\ flight[f] \in WritingStates
      BY <1>19, SMTT(30) DEF SetAccessToken
    <2> HIDE DEF r, s, t
    <2>6. TypeOK'
      BY <1>19, <2>4 DEF SetAccessToken
    <2>7. CallInv'
      BY <2>4, <2>5
    <2>8. FlightInv'
      BY <2>4, <2>5
    <2>9. QED
      BY <2>6, <2>7, <2>8
  <1>20. ASSUME NEW f \in Calls, SetRefreshToken(f) PROVE TypeInv'
    <2> DEFINE r == ContextOf(f)
               s == properties[r]
               t == [s EXCEPT !.rt = ResponseRefreshToken(f)]
    <2>1. r \in Requests /\ s \in Sessions /\ params[f] \in Params /\ granted[f] \in Tokens
          /\ rt[f] \in RefreshTokens
      BY <1>20 DEF SetRefreshToken
    <2>2. t \in Sessions
      BY <2>1, SessionUpdates, GrantedRefreshToken
    <2>3. properties' = [properties EXCEPT ![r] = t]
      BY <1>20 DEF SetRefreshToken
    <2>4. properties' \in [Requests -> Sessions \cup {None}]
          /\ \A q \in Requests : properties'[q] = None <=> properties[q] = None
      <3> HIDE DEF r, t, s
      <3>1. s = properties[r]
        BY DEF s
      <3>2. t # None /\ s # None
        BY <2>1, <2>2
      <3>3. QED
        BY <2>1, <2>2, <2>3, <3>1, <3>2
    <2>5. UNCHANGED <<dictionary, phase, pc, params, rt, joined, starter, granted>>
          /\ flight' = [flight EXCEPT ![f] = "refreshSet"]
          /\ flight[f] \in WritingStates
      BY <1>20 DEF SetRefreshToken
    <2> HIDE DEF r, s, t
    <2>6. TypeOK'
      BY <1>20, <2>4 DEF SetRefreshToken
    <2>7. CallInv'
      BY <2>4, <2>5
    <2>8. FlightInv'
      BY <2>4, <2>5
    <2>9. QED
      BY <2>6, <2>7, <2>8
  <1>21. ASSUME NEW f \in Calls, SignIn(f) PROVE TypeInv'
    BY <1>21, SMTT(30) DEF SignIn, EndFlight
  <1>22. ASSUME NEW f \in Calls, StoreThrows(f) PROVE TypeInv'
    BY <1>22 DEF StoreThrows, EndFlight
  <1>23. CASE UNCHANGED vars
    BY <1>23 DEF vars
  <1>24. QED
    <2> HIDE DEF TypeInv
    <2>1. ASSUME NEW c \in Calls, CallStep(c) PROVE TypeInv'
      BY <2>1, <1>5, <1>6, <1>7, <1>9, <1>10, <1>11, <1>12, <1>13, <1>14 DEF CallStep
    <2>2. ASSUME NEW f \in Calls, FlightStep(f) PROVE TypeInv'
      BY <2>2, <1>15, <1>16, <1>18, <1>19, <1>20, <1>21 DEF FlightStep
    <2>3. ASSUME NEW c \in Calls, Fault(c) PROVE TypeInv'
      BY <2>3, <1>8, <1>17, <1>22 DEF Fault
    <2>4. QED
      BY <1>1, <1>2, <1>3, <1>4, <2>1, <2>2, <2>3, <1>23 DEF Next

\* Type correctness: every variable of the token management keeps its type.
THEOREM TypeCorrect == Spec => []TypeOK
  <1>1. TypeInv => TypeOK
    BY DEF TypeInv
  <1>2. QED
    BY <1>1, InitTypeInv, NextTypeInv, PTL DEF Spec

-----------------------------------------------------------------------------
\* A flight keeps its entry until it has ended, and no two entries have one
\* key: a new entry is only added when no entry has its key, and an entry is
\* only removed by a caller that has awaited that very flight.
DictionaryInv ==
    /\ \A f \in Calls : Running(f) => f \in dictionary
    /\ \A f, g \in dictionary : BuildRequestKey(f) = BuildRequestKey(g) => f = g
    /\ EntryIsAwaited

LEMMA InitDictionaryInv == Init => DictionaryInv
  BY DEF Init, DictionaryInv, EntryIsAwaited, Running

LEMMA NextDictionaryInv == TypeInv /\ DictionaryInv /\ [Next]_vars => DictionaryInv'
  <1> SUFFICES ASSUME TypeInv, DictionaryInv, [Next]_vars PROVE DictionaryInv'
    OBVIOUS
  <1> USE DEF DictionaryInv, EntryIsAwaited, Running, BuildRequestKey, callVars, flightVars
  \* A call that has not reached the dictionary may still change its key.
  <1>1. ASSUME NEW c \in Calls, pc[c] \notin {"value", "waiting", "done"},
               UNCHANGED <<dictionary, flight, joined>>,
               \A d \in Calls \ {c} : /\ params'[d] = params[d] /\ rt'[d] = rt[d]
                                      /\ pc'[d] = pc[d]
        PROVE  DictionaryInv'
    <2>1. c \notin dictionary
      BY <1>1 DEF TypeInv, TypeOK, FlightInv
    <2>2. QED
      BY <1>1, <2>1 DEF TypeInv, TypeOK
  \* A flight that goes on keeps its entry.
  <1>2. ASSUME NEW f \in Calls, flight[f] \notin {"none", "done"},
               UNCHANGED <<dictionary, joined, pc, params, rt>>,
               \A g \in Calls \ {f} : flight'[g] = flight[g]
        PROVE  DictionaryInv'
    BY <1>2
  <1>3. ASSUME NEW c \in Calls, GetOrAdd(c) PROVE DictionaryInv'
    <2>1. pc' = [pc EXCEPT ![c] = "value"] /\ pc[c] = "execute"
      BY <1>3 DEF GetOrAdd
    <2>2. CASE dictionary' = dictionary /\ flight' = flight
      <3>1. \A d \in Calls \ {c} : joined'[d] = joined[d] /\ pc'[d] = pc[d]
        BY <1>3, <2>1 DEF GetOrAdd, TypeInv, TypeOK
      <3>2. \A f \in dictionary : \E d \in Calls \ {c} : joined[d] = f /\ pc[d] \in {"value", "waiting"}
        BY <2>1
      <3>3. UNCHANGED <<params, rt>>
        BY <1>3 DEF GetOrAdd
      <3>4. QED
        BY <2>2, <3>1, <3>2, <3>3
    <2>3. CASE /\ \A f \in dictionary : BuildRequestKey(f) # BuildRequestKey(c)
               /\ joined' = [joined EXCEPT ![c] = c]
               /\ dictionary' = dictionary \cup {c}
               /\ flight' = [flight EXCEPT ![c] = "created"]
      <3>1. /\ \A d \in Calls \ {c} : joined'[d] = joined[d] /\ pc'[d] = pc[d]
            /\ joined'[c] = c /\ pc'[c] = "value"
        BY <2>1, <2>3 DEF TypeInv, TypeOK
      <3>2. \A f \in dictionary : \E d \in Calls \ {c} : joined[d] = f /\ pc[d] \in {"value", "waiting"}
        BY <2>1
      <3>3. UNCHANGED <<params, rt>>
        BY <1>3 DEF GetOrAdd
      <3>4. \A f \in Calls \ {c} : flight'[f] = flight[f]
        BY <2>3 DEF TypeInv, TypeOK
      <3>5. QED
        BY <2>3, <3>1, <3>2, <3>3, <3>4
    <2>4. QED
      BY <1>3, <2>2, <2>3 DEF GetOrAdd
  <1>4. ASSUME NEW c \in Calls, ReadValue(c) PROVE DictionaryInv'
    <2>1. /\ UNCHANGED <<dictionary, joined, params, rt>>
          /\ pc' = [pc EXCEPT ![c] = "waiting"] /\ pc[c] = "value"
      BY <1>4 DEF ReadValue
    <2>2. \A f \in Calls : Running(f)' => Running(f)
      BY <1>4 DEF ReadValue, TypeInv, TypeOK
    <2>3. \A d \in Calls : pc[d] \in {"value", "waiting"} => pc'[d] \in {"value", "waiting"}
      BY <2>1 DEF TypeInv, TypeOK
    <2>4. QED
      BY <2>1, <2>2, <2>3
  <1>5. ASSUME NEW c \in Calls, ReturnFlightResult(c) PROVE DictionaryInv'
    <2>1. /\ UNCHANGED <<flight, joined, params, rt>>
          /\ dictionary' = dictionary \ {joined[c]}
          /\ flight[joined[c]] = "done"
          /\ \A d \in Calls \ {c} : pc'[d] = pc[d]
      BY <1>5 DEF ReturnFlightResult, Return, TypeInv, TypeOK
    <2>2. QED
      BY <2>1
  <1>6. ASSUME NEW c \in Calls, CallStep(c) PROVE DictionaryInv'
    <2>1. CASE \/ NoTokenFound(c) \/ ReturnStoredToken(c) \/ NothingToRevoke(c)
               \/ RevokeRefreshToken(c)
      BY <2>1, <1>1 DEF NoTokenFound, ReturnStoredToken, NothingToRevoke, RevokeRefreshToken, MayRead, Return, TypeInv, TypeOK
    <2>2. CASE DecideToRefresh(c) \/ DecideToRevoke(c)
      BY <2>2, <1>1 DEF DecideToRefresh, DecideToRevoke, MayRead, TypeInv, TypeOK
    <2>3. QED
      BY <1>6, <2>1, <2>2, <1>3, <1>4, <1>5 DEF CallStep
  <1>7. ASSUME NEW f \in Calls, FlightStep(f) PROVE DictionaryInv'
    <2>1. CASE EndpointGrants(f) \/ EndpointRefuses(f) \/ AcquireLock(f)
      BY <2>1, <1>2 DEF EndpointGrants, EndpointRefuses, AcquireLock, EndFlight, TypeInv, TypeOK
    <2>2. CASE SetAccessToken(f) \/ SetRefreshToken(f)
      BY <2>2, <1>2 DEF SetAccessToken, SetRefreshToken, TypeInv, TypeOK
    <2>3. CASE SignIn(f)
      BY <2>3, <1>2 DEF SignIn, EndFlight, TypeInv, TypeOK
    <2>4. QED
      BY <1>7, <2>1, <2>2, <2>3 DEF FlightStep
  <1>8. ASSUME NEW r \in Requests, BeginRequest(r) \/ EndRequest(r) PROVE DictionaryInv'
    BY <1>8 DEF BeginRequest, EndRequest
  <1>9. ASSUME NEW u \in Users, TokensBecomeDue(u) PROVE DictionaryInv'
    BY <1>9 DEF TokensBecomeDue
  <1>10. ASSUME NEW c \in Calls, NEW p \in Params, NEW m \in Modes, StartCall(c, p, m)
         PROVE  DictionaryInv'
    BY <1>10, <1>1 DEF StartCall, TypeInv, TypeOK
  <1>11. ASSUME NEW c \in Calls, Fault(c) PROVE DictionaryInv'
    <2>1. CASE ReadCancelled(c)
      BY <2>1, <1>1 DEF ReadCancelled, Return, TypeInv, TypeOK
    <2>2. CASE ExchangeFails(c)
      BY <2>2, <1>2 DEF ExchangeFails, EndFlight, TypeInv, TypeOK
    <2>3. CASE StoreThrows(c)
      BY <2>3, <1>2 DEF StoreThrows, EndFlight, TypeInv, TypeOK
    <2>4. QED
      BY <1>11, <2>1, <2>2, <2>3 DEF Fault
  <1>12. CASE UNCHANGED vars
    BY <1>12 DEF vars
  <1>13. QED
    BY <1>6, <1>7, <1>8, <1>9, <1>10, <1>11, <1>12 DEF Next

\* At most one refresh runs at a time for one refresh token and one set of
\* parameters.
THEOREM AtMostOneFlight == Spec => []SingleFlight
  <1>1. DictionaryInv => SingleFlight
    BY DEF DictionaryInv, SingleFlight
  <1>2. QED
    BY <1>1, InitTypeInv, NextTypeInv, InitDictionaryInv, NextDictionaryInv, PTL DEF Spec

\* No entry of the dictionary outlives the callers that will remove it.
THEOREM EntriesAreAwaited == Spec => []EntryIsAwaited
  <1>1. DictionaryInv => EntryIsAwaited
    BY DEF DictionaryInv
  <1>2. QED
    BY <1>1, InitTypeInv, NextTypeInv, InitDictionaryInv, NextDictionaryInv, PTL DEF Spec

-----------------------------------------------------------------------------
(* Who owns what.                                                          *)

\* A session belongs to its user: its tokens were issued to that user, and it
\* keeps them under their parameters.
Owns(u, s) ==
    s # None =>
        /\ s.rt # None => /\ s.rt.user = u /\ s.rt.gen <= issued[u]
                          /\ ~OneTimeOnly => s.rt.gen = 0
        /\ \A p \in Params : s.at[p] # None =>
                s.at[p].user = u /\ s.at[p].params = p /\ s.at[p].n <= issued[u]

\* So do the refresh tokens calls have read and the tokens flights were
\* granted.
OwnerInv ==
    /\ \A u \in Users : Owns(u, cookie[u])
    /\ \A r \in Requests : Owns(UserOf[r], properties[r]) /\ Owns(UserOf[r], signedIn[r])
    /\ \A c \in Calls : rt[c] # None =>
            /\ rt[c].user = UserOfCall(c) /\ rt[c].gen <= issued[UserOfCall(c)]
            /\ ~OneTimeOnly => rt[c].gen = 0
    /\ \A f \in Calls : granted[f] # None =>
            /\ granted[f].user = rt[f].user /\ granted[f].params = params[f]
            /\ granted[f].n <= issued[rt[f].user]

\* Callers of a flight carry its key; its starter awaits it as long as it
\* runs, and the starter's request is open so long.
JoinInv ==
    /\ \A c \in Calls : joined[c] # None =>
            /\ pc[c] \in {"value", "waiting", "done"} /\ flight[joined[c]] # "none"
            /\ BuildRequestKey(joined[c]) = BuildRequestKey(c)
    /\ \A f \in Calls : flight[f] \in {"none", "created"} => starter[f] = None
    /\ \A f \in Calls : flight[f] \in {"none", "created", "sent"} => granted[f] = None
    /\ \A f \in Calls : starter[f] # None => joined[starter[f]] = f
    /\ \A f \in Calls : Running(f) /\ flight[f] # "created" => pc[starter[f]] = "waiting"

\* Calls run in open requests; a new request has no response yet.
OpenInv ==
    /\ \A c \in Calls : pc[c] \notin {"idle", "done"} => phase[RequestOf[c]] = "open"
    /\ \A r \in Requests : phase[r] = "new" => signedIn[r] = None

\* A lock and the flight that holds it name each other.
LockInv ==
    /\ \A f \in Calls : flight[f] \in WritingStates => lock[ContextOf(f)] = f
    /\ \A r \in Requests : lock[r] # None => flight[lock[r]] \in WritingStates /\ ContextOf(lock[r]) = r

\* A flight that has a token it has not signed in yet.
Storing(f) == flight[f] \in {"granted"} \cup WritingStates

\* The refresh token of session s, if it has one, was issued before n.
Older(s, n) == s # None /\ s.rt # None => s.rt.gen < n

\* With rotation, one flight of a user at most has a token to store.
SoleGrantInv ==
    OneTimeOnly => \A f, g \in Calls : Storing(f) /\ Storing(g) /\ rt[f].user = rt[g].user => f = g

\* What it was granted is newer than everything anyone else holds.
Newest(f) ==
    LET n == granted[f].n
        u == rt[f].user IN
    /\ n = issued[u] /\ n = rt[f].gen + 1
    /\ \A c \in Calls : rt[c] # None /\ rt[c].user = u => rt[c].gen < n
    /\ Older(cookie[u], n)
    /\ \A r \in Requests : UserOf[r] = u =>
            /\ Older(signedIn[r], n)
            /\ r # ContextOf(f) \/ flight[f] # "refreshSet" => Older(properties[r], n)
    /\ flight[f] = "refreshSet" => properties[ContextOf(f)].rt = [user |-> u, gen |-> n]

GrantInv == OneTimeOnly => \A f \in Calls : Storing(f) => Newest(f)

\* What nobody is writing, or is not between its two tokens, goes together.
Whole(r) == UpToDate(properties[r]) \/ (lock[r] # None /\ flight[lock[r]] = "tokenSet")

\* No session that can be read, sent or signed in has an access token that is
\* newer than its refresh token.
TornInv ==
    OneTimeOnly =>
        /\ \A u \in Users : UpToDate(cookie[u])
        /\ \A r \in Requests : UpToDate(signedIn[r]) /\ Whole(r)

\* The session an open request has signed in is newer than everything that
\* was read outside this request.
Sole(r) ==
    LET n == signedIn[r].rt.gen
        u == UserOf[r] IN
    /\ signedIn[r].rt # None
    /\ Older(cookie[u], n)
    /\ \A q \in Requests \ {r} : UserOf[q] = u => Older(properties[q], n) /\ Older(signedIn[q], n)
    /\ \A c \in Calls : rt[c] # None /\ UserOfCall(c) = u /\ RequestOf[c] # r => rt[c].gen < n

SoleInv == OneTimeOnly => \A r \in Requests : phase[r] = "open" /\ signedIn[r] # None => Sole(r)

RotationInv == SoleGrantInv /\ GrantInv /\ TornInv /\ SoleInv /\ NewestRefreshTokenIsKept

\* Session s has a token for p that is as new as n.
Covers(s, p, n) == s # None /\ s.at[p] # None /\ s.at[p].n >= n

\* A flight is about to replace an older access token, or has just done so.
Fresh(f) ==
    LET s == properties[ContextOf(f)] IN
    IF flight[f] \in {"granted", "locked"}
    THEN s.at[params[f]] # None => s.at[params[f]].n <= granted[f].n
    ELSE s.at[params[f]] = granted[f]

FreshInv == \A f \in Calls : Storing(f) => Fresh(f)

\* The properties of a request hold what its response signs in, or newer.
CoverInv ==
    \A r \in Requests, p \in Params : signedIn[r] # None /\ signedIn[r].at[p] # None =>
        Covers(properties[r], p, signedIn[r].at[p].n)

\* A flight that ended with a token has signed it in.
Ended(f) ==
    /\ flight[f] = "done" /\ granted[f] # None /\ starter[f] # None
    /\ Covers(signedIn[ContextOf(f)], params[f], granted[f].n)

EndingInv == \A f \in Calls : ending[f] = "token" => Ended(f)

\* A call that joined a flight returns what the flight ended with.
ResultInv ==
    /\ \A c \in Calls : pc[c] # "done" => outcome[c] = "pending"
    /\ \A c \in Calls : outcome[c] = "token" /\ joined[c] # None =>
            ending[joined[c]] = "token" /\ result[c] = granted[joined[c]]

StoredInv == FreshInv /\ CoverInv /\ EndingInv /\ ResultInv
-----------------------------------------------------------------------------
LEMMA InitJoinInv == Init => JoinInv /\ OpenInv /\ LockInv
  BY DEF Init, JoinInv, OpenInv, LockInv, Running, WritingStates

LEMMA NextJoinInv == TypeInv /\ JoinInv /\ OpenInv /\ [Next]_vars => JoinInv' /\ OpenInv'
  <1> SUFFICES ASSUME TypeInv, JoinInv, OpenInv, [Next]_vars PROVE JoinInv' /\ OpenInv'
    OBVIOUS
  <1> USE UserOfAssumption, RequestOfAssumption, NoneAssumption
          DEF JoinInv, OpenInv, BuildRequestKey, Running, WritingStates, callVars, flightVars
  <1>0. /\ TypeOK /\ CallInv /\ FlightInv
    BY DEF TypeInv
  <1>1. ASSUME NEW r \in Requests, BeginRequest(r) PROVE JoinInv' /\ OpenInv'
    BY <1>0, <1>1 DEF BeginRequest, TypeOK
  <1>2. ASSUME NEW r \in Requests, EndRequest(r) PROVE JoinInv' /\ OpenInv'
    BY <1>0, <1>2 DEF EndRequest, TypeOK
  <1>3. ASSUME NEW u \in Users, TokensBecomeDue(u) PROVE JoinInv' /\ OpenInv'
    BY <1>3 DEF TokensBecomeDue, sessionVars
  <1>4. ASSUME NEW c \in Calls, NEW p \in Params, NEW m \in Modes, StartCall(c, p, m)
        PROVE  JoinInv' /\ OpenInv'
    <2>1. \A d \in Calls : joined[d] # None => joined[d] # c /\ d # c
      BY <1>0, <1>4 DEF StartCall, TypeOK, FlightInv
    <2>2. QED
      BY <1>0, <1>4, <2>1 DEF StartCall, TypeOK, FlightInv, sessionVars
  \* A call that has not joined a flight returns or goes on to the next statement.
  <1>5. ASSUME NEW c \in Calls, pc[c] \in {"reading", "revoking"},
               pc' = [pc EXCEPT ![c] = "done"], UNCHANGED <<sessionVars, params, rt, joined, flightVars>>
        PROVE  JoinInv' /\ OpenInv'
    BY <1>0, <1>5 DEF TypeOK, sessionVars
  <1>6. ASSUME NEW c \in Calls, DecideToRefresh(c) \/ DecideToRevoke(c) PROVE JoinInv' /\ OpenInv'
    <2>1. pc[c] = "reading" /\ rt' = [rt EXCEPT ![c] = StoredRefreshToken(c)]
          /\ UNCHANGED <<sessionVars, params, joined, flightVars>>
          /\ \E s \in {"execute", "revoking"} : pc' = [pc EXCEPT ![c] = s]
      BY <1>6 DEF DecideToRefresh, DecideToRevoke, MayRead
    <2>2. \A d \in Calls : joined[d] # None => joined[d] # c /\ d # c
      BY <1>0, <2>1 DEF TypeOK, FlightInv, CallInv
    <2>3. QED
      BY <1>0, <2>1, <2>2 DEF TypeOK, FlightInv, sessionVars
  <1>7. ASSUME NEW c \in Calls, GetOrAdd(c) PROVE JoinInv' /\ OpenInv'
    BY <1>0, <1>7 DEF GetOrAdd, TypeOK, FlightInv, sessionVars
  <1>8. ASSUME NEW c \in Calls, ReadValue(c) PROVE JoinInv' /\ OpenInv'
    BY <1>0, <1>8, SMTT(30) DEF ReadValue, TypeOK, CallInv, sessionVars
  <1>9. ASSUME NEW c \in Calls, ReturnFlightResult(c) PROVE JoinInv' /\ OpenInv'
    BY <1>0, <1>9 DEF ReturnFlightResult, Return, TypeOK, CallInv, sessionVars
  <1>10. ASSUME NEW f \in Calls, EndpointGrants(f) PROVE JoinInv' /\ OpenInv'
    BY <1>0, <1>10 DEF EndpointGrants, TypeOK, sessionVars
  \* A flight that goes on or ends.
  <1>11. ASSUME NEW f \in Calls, Running(f), flight[f] # "created", granted[f] # None \/ flight[f] = "sent",
                UNCHANGED <<phase, signedIn, pc, params, rt, joined, starter, granted>>,
                \E s \in {"done"} \cup WritingStates :
                    /\ flight' = [flight EXCEPT ![f] = s]
         PROVE  JoinInv' /\ OpenInv'
    BY <1>0, <1>11 DEF TypeOK
  <1>12. ASSUME NEW f \in Calls, SignIn(f) PROVE JoinInv' /\ OpenInv'
    <2>1. phase[ContextOf(f)] = "open" /\ granted[f] # None
      BY <1>0, <1>12 DEF SignIn, ContextOf, TypeOK, FlightInv
    <2>2. QED
      BY <1>0, <1>12, <2>1 DEF SignIn, EndFlight, TypeOK
  <1>13. QED
    <2> HIDE DEF JoinInv, OpenInv
    <2>1. ASSUME NEW c \in Calls, CallStep(c) PROVE JoinInv' /\ OpenInv'
      <3>1. CASE \/ NoTokenFound(c) \/ ReturnStoredToken(c) \/ NothingToRevoke(c)
                 \/ RevokeRefreshToken(c)
        BY <3>1, <1>5 DEF NoTokenFound, ReturnStoredToken, NothingToRevoke, RevokeRefreshToken, MayRead, Return
      <3>2. QED
        BY <2>1, <3>1, <1>6, <1>7, <1>8, <1>9 DEF CallStep
    <2>2. ASSUME NEW f \in Calls, FlightStep(f) PROVE JoinInv' /\ OpenInv'
      <3>1. CASE EndpointRefuses(f)
        BY <3>1, <1>11 DEF EndpointRefuses, EndFlight, sessionVars
      <3>2. CASE AcquireLock(f) \/ SetAccessToken(f) \/ SetRefreshToken(f)
        BY <3>2, <1>0, <1>11 DEF AcquireLock, SetAccessToken, SetRefreshToken, FlightInv
      <3>3. CASE SignIn(f)
        BY <3>3, <1>12
      <3>4. QED
        BY <2>2, <3>1, <3>2, <3>3, <1>10 DEF FlightStep
    <2>3. ASSUME NEW c \in Calls, Fault(c) PROVE JoinInv' /\ OpenInv'
      <3>1. CASE ReadCancelled(c)
        BY <3>1, <1>5 DEF ReadCancelled, Return
      <3>2. CASE ExchangeFails(c)
        BY <3>2, <1>0, <1>11 DEF ExchangeFails, EndFlight, sessionVars, FlightInv
      <3>3. CASE StoreThrows(c)
        BY <3>3, <1>0, <1>11 DEF StoreThrows, EndFlight, FlightInv
      <3>4. QED
        BY <2>3, <3>1, <3>2, <3>3 DEF Fault
    <2>4. CASE UNCHANGED vars
      BY <2>4 DEF vars, sessionVars, JoinInv, OpenInv
    <2>5. QED
      BY <1>1, <1>2, <1>3, <1>4, <2>1, <2>2, <2>3, <2>4 DEF Next

LEMMA NextLockInv == TypeInv /\ JoinInv /\ LockInv /\ [Next]_vars => LockInv'
  <1> SUFFICES ASSUME TypeInv, JoinInv, LockInv, [Next]_vars PROVE LockInv'
    OBVIOUS
  <1> USE RequestOfAssumption, NoneAssumption DEF LockInv, ContextOf, WritingStates
  <1>0. TypeOK
    BY DEF TypeInv
  <1>1. CASE UNCHANGED <<lock, flight, starter>>
    BY <1>1
  <1>2. ASSUME NEW c \in Calls, GetOrAdd(c) PROVE LockInv'
    BY <1>0, <1>2 DEF GetOrAdd, TypeInv, FlightInv, TypeOK, sessionVars
  <1>3. ASSUME NEW c \in Calls, ReadValue(c) PROVE LockInv'
    BY <1>0, <1>3 DEF ReadValue, TypeInv, CallInv, TypeOK, sessionVars
  \* Steps of a flight outside the lock.
  <1>4. ASSUME NEW f \in Calls, flight[f] \in {"sent", "granted"}, UNCHANGED <<lock, starter>>,
               \E s \in {"granted", "done"} : flight' = [flight EXCEPT ![f] = s]
        PROVE  LockInv'
    BY <1>0, <1>4 DEF TypeOK
  <1>5. ASSUME NEW f \in Calls, AcquireLock(f) PROVE LockInv'
    <2>1. /\ flight' = [flight EXCEPT ![f] = "locked"] /\ lock' = [lock EXCEPT ![ContextOf(f)] = f]
          /\ starter' = starter /\ ContextOf(f) \in Requests /\ lock[ContextOf(f)] = None
      BY <1>0, <1>5 DEF AcquireLock, TypeInv, FlightInv, TypeOK, Running
    <2>2. QED
      BY <1>0, <2>1 DEF TypeOK
  <1>6. ASSUME NEW f \in Calls, SetAccessToken(f) \/ SetRefreshToken(f) PROVE LockInv'
    BY <1>0, <1>6 DEF SetAccessToken, SetRefreshToken, TypeOK
  \* The lock is released when the flight ends.
  <1>7. ASSUME NEW f \in Calls, flight[f] \in WritingStates, starter' = starter,
               flight' = [flight EXCEPT ![f] = "done"], lock' = [lock EXCEPT ![ContextOf(f)] = None]
        PROVE  LockInv'
    <2>1. lock[ContextOf(f)] = f /\ ContextOf(f) \in Requests
      BY <1>0, <1>7 DEF TypeInv, FlightInv, TypeOK, Running
    <2>2. QED
      BY <1>0, <1>7, <2>1 DEF TypeOK
  <1>8. QED
    <2> HIDE DEF LockInv
    <2> USE DEF sessionVars, callVars, flightVars
    <2>1. ASSUME NEW c \in Calls, CallStep(c) PROVE LockInv'
      BY <2>1, <1>1, <1>2, <1>3 DEF CallStep, NoTokenFound, ReturnStoredToken, DecideToRefresh,
         NothingToRevoke, DecideToRevoke, RevokeRefreshToken, ReturnFlightResult
    <2>2. ASSUME NEW f \in Calls, FlightStep(f) PROVE LockInv'
      BY <2>2, <1>4, <1>5, <1>6, <1>7 DEF FlightStep, EndpointGrants, EndpointRefuses, SignIn, EndFlight
    <2>3. ASSUME NEW c \in Calls, Fault(c) PROVE LockInv'
      BY <2>3, <1>1, <1>4, <1>7 DEF Fault, ReadCancelled, ExchangeFails, StoreThrows, EndFlight
    <2>4. CASE UNCHANGED vars
      BY <2>4, <1>1 DEF vars
    <2>5. QED
      BY <2>1, <2>2, <2>3, <2>4, <1>1 DEF Next, BeginRequest, EndRequest, TokensBecomeDue, StartCall

\* The lock of a session is held exactly by the one flight that updates it.
THEOREM LockGuards == Spec => []LockGuardsSession
  <1>1. TypeInv /\ LockInv => LockGuardsSession
    BY RequestOfAssumption, NoneAssumption
       DEF TypeInv, TypeOK, FlightInv, Running, LockInv, LockGuardsSession, WritingStates, ContextOf
  <1>2. QED
    BY <1>1, InitTypeInv, NextTypeInv, InitJoinInv, NextJoinInv, NextLockInv, PTL DEF Spec

-----------------------------------------------------------------------------
LEMMA InitOwnerInv == Init => OwnerInv
  <1> SUFFICES ASSUME Init PROVE OwnerInv
    OBVIOUS
  <1>1. ASSUME NEW u \in Users PROVE Owns(u, cookie[u])
    <2>1. cookie[u] \in LoginSessions(u) \cup {None} /\ issued[u] = 0
      BY DEF Init
    <2>2. CASE cookie[u] = None
      BY <2>2 DEF Owns
    <2>3. CASE cookie[u] \in LoginSessions(u)
      BY <2>1, <2>3, NoneAssumption DEF LoginSessions, Owns, Tokens, RefreshTokens
    <2>4. QED
      BY <2>1, <2>2, <2>3
  <1>2. QED
    BY <1>1 DEF Init, OwnerInv, Owns

\* A session stays its owner's when more tokens are issued.
LEMMA OwnsStill ==
  ASSUME NEW u \in Users, NEW s, Owns(u, s), s \in Sessions \cup {None},
         issued[u] \in Nat, issued'[u] \in Nat, issued[u] <= issued'[u]
  PROVE  Owns(u, s)'
  BY DEF Owns, Sessions, RefreshTokens, Tokens

LEMMA NextOwnerInv ==
    TypeInv /\ JoinInv /\ OwnerInv /\ [Next]_vars => OwnerInv'
  <1> SUFFICES ASSUME TypeInv, JoinInv, OwnerInv, [Next]_vars PROVE OwnerInv'
    OBVIOUS
  <1> USE UserOfAssumption, RequestOfAssumption, NoneAssumption DEF UserOfCall
  <1>0. TypeOK
    BY DEF TypeInv
  <1>1. CASE UNCHANGED <<cookie, properties, signedIn, rt, params, granted, issued>>
    BY <1>1 DEF OwnerInv, Owns
  <1>2. ASSUME NEW r \in Requests, BeginRequest(r) PROVE OwnerInv'
    BY <1>0, <1>2 DEF BeginRequest, OwnerInv, Owns, TypeOK, callVars, flightVars, serverVars
  <1>3. ASSUME NEW r \in Requests, EndRequest(r) PROVE OwnerInv'
    BY <1>0, <1>3 DEF EndRequest, OwnerInv, Owns, TypeOK, callVars, flightVars, serverVars
  <1>4. ASSUME NEW c \in Calls, NEW p \in Params, NEW m \in Modes, StartCall(c, p, m) PROVE OwnerInv'
    <2>1. granted[c] = None
      BY <1>0, <1>4 DEF StartCall, TypeInv, FlightInv, JoinInv, TypeOK
    <2>2. UNCHANGED <<cookie, properties, signedIn, rt, granted, issued>>
          /\ params' = [params EXCEPT ![c] = p]
      BY <1>4 DEF StartCall, sessionVars, flightVars, serverVars
    <2>3. QED
      BY <1>0, <2>1, <2>2 DEF OwnerInv, Owns, TypeOK
  <1>5. ASSUME NEW c \in Calls, DecideToRefresh(c) \/ DecideToRevoke(c) PROVE OwnerInv'
    <2>1. /\ UNCHANGED <<cookie, properties, signedIn, params, granted, issued>>
          /\ rt' = [rt EXCEPT ![c] = properties[RequestOf[c]].rt]
          /\ properties[RequestOf[c]] # None /\ properties[RequestOf[c]].rt # None
          /\ pc[c] = "reading"
      BY <1>5 DEF DecideToRefresh, DecideToRevoke, StoredRefreshToken, HasSession, ShouldRefresh, MayRead,
                  sessionVars, flightVars, serverVars
    <2>2. granted[c] = None
      BY <1>0, <2>1 DEF TypeInv, FlightInv, JoinInv, TypeOK
    <2>3. QED
      BY <1>0, <2>1, <2>2 DEF OwnerInv, Owns, TypeOK
  <1>6. ASSUME NEW f \in Calls, EndpointGrants(f) PROVE OwnerInv'
    <2> DEFINE u == rt[f].user
    <2>1. u \in Users /\ issued[u] \in Nat /\ rt[f] # None /\ params[f] \in Params /\ u = UserOfCall(f)
      BY <1>0, <1>6 DEF EndpointGrants, TypeInv, FlightInv, TypeOK, RefreshTokens, OwnerInv
    <2>2. /\ UNCHANGED <<cookie, properties, signedIn, rt, params>>
          /\ issued' = [issued EXCEPT ![u] = @ + 1]
          /\ granted' = [granted EXCEPT ![f] = [user |-> u, params |-> params[f], n |-> issued[u] + 1]]
      BY <1>6 DEF EndpointGrants, sessionVars, callVars
    <2> HIDE DEF u
    <2>3. \A v \in Users : issued[v] \in Nat /\ issued'[v] \in Nat /\ issued[v] <= issued'[v]
      BY <1>0, <2>1, <2>2 DEF TypeOK
    <2>4. (\A v \in Users : Owns(v, cookie[v]))'
      BY <1>0, <2>2, <2>3, OwnsStill DEF OwnerInv, TypeOK
    <2>5. (\A r \in Requests : Owns(UserOf[r], properties[r]) /\ Owns(UserOf[r], signedIn[r]))'
      BY <1>0, <2>2, <2>3, OwnsStill DEF OwnerInv, TypeOK
    <2>6. (\A c \in Calls : rt[c] # None =>
            /\ rt[c].user = UserOfCall(c) /\ rt[c].gen <= issued[UserOfCall(c)]
            /\ ~OneTimeOnly => rt[c].gen = 0)'
      BY <1>0, <2>2, <2>3 DEF OwnerInv, TypeOK, RefreshTokens
    <2>7. (\A g \in Calls : granted[g] # None =>
            /\ granted[g].user = rt[g].user /\ granted[g].params = params[g]
            /\ granted[g].n <= issued[rt[g].user])'
      <3>1. ASSUME NEW g \in Calls, g # f, granted[g] # None
            PROVE  granted[g].n <= issued'[rt[g].user]
        <4>1. granted[g] \in Tokens /\ granted[g].n <= issued[rt[g].user] /\ granted[g].user = rt[g].user
          BY <1>0, <3>1 DEF OwnerInv, TypeOK
        <4>2. QED
          BY <2>3, <4>1 DEF Tokens
      <3>2. QED
        BY <1>0, <2>1, <2>2, <3>1, u = rt[f].user DEF OwnerInv, TypeOK, u
    <2>8. QED
      BY <2>4, <2>5, <2>6, <2>7 DEF OwnerInv
  <1>7. ASSUME NEW f \in Calls, SetAccessToken(f) PROVE OwnerInv'
    <2>0. flight[f] = "locked"
      BY <1>7 DEF SetAccessToken
    <2>1. PICK r \in Requests, p \in Params : r = ContextOf(f) /\ p = params[f]
      BY <1>0, <2>0 DEF TypeInv, FlightInv, TypeOK, WritingStates, Running, ContextOf
    <2>2. /\ UNCHANGED <<cookie, signedIn, rt, params, granted, issued>>
          /\ properties' = [properties EXCEPT ![r].at[p] = granted[f]]
          /\ properties[r] \in Sessions /\ granted[f] \in Tokens
      BY <1>0, <1>7, <2>0, <2>1
         DEF SetAccessToken, TypeInv, FlightInv, TypeOK, WritingStates, Running, callVars, serverVars
    <2>3. /\ starter[f] \in Calls /\ joined[starter[f]] = f /\ rt[starter[f]] = rt[f] /\ rt[f] # None
      BY <1>0, <2>0 DEF TypeInv, FlightInv, TypeOK, WritingStates, Running, JoinInv, BuildRequestKey
    <2>4. UserOf[r] = rt[f].user
      BY <2>1, <2>3 DEF OwnerInv, ContextOf
    <2>5. granted[f].user = UserOf[r] /\ granted[f].params = p /\ granted[f].n <= issued[UserOf[r]]
      BY <2>1, <2>2, <2>4 DEF OwnerInv
    <2>6. Owns(UserOf[r], properties[r])'
      <3>1. properties'[r] = [properties[r] EXCEPT !.at[p] = granted[f]]
        BY <1>0, <2>2 DEF TypeOK
      <3>2. /\ properties'[r].rt = properties[r].rt
            /\ \A q \in Params : properties'[r].at[q] = IF q = p THEN granted[f] ELSE properties[r].at[q]
        BY <2>2, <3>1 DEF Sessions
      <3>3. Owns(UserOf[r], properties[r]) /\ properties[r] # None
        BY <2>2 DEF OwnerInv
      <3>4. QED
        BY <2>2, <2>5, <3>2, <3>3 DEF Owns
    <2>7. \A q \in Requests \ {r} : properties'[q] = properties[q]
      BY <1>0, <2>2 DEF TypeOK
    <2>8. (\A q \in Requests : Owns(UserOf[q], properties[q]))'
      <3>1. ASSUME NEW q \in Requests \ {r} PROVE Owns(UserOf[q], properties[q])'
        BY <2>2, <2>7 DEF OwnerInv, Owns
      <3>2. QED
        BY <2>6, <3>1
    <2>9. (\A q \in Requests : Owns(UserOf[q], signedIn[q]))'
      BY <2>2 DEF OwnerInv, Owns
    <2>10. (\A u \in Users : Owns(u, cookie[u]))'
      BY <2>2 DEF OwnerInv, Owns
    <2>11. QED
      BY <2>2, <2>8, <2>9, <2>10 DEF OwnerInv
  <1>8. ASSUME NEW f \in Calls, SetRefreshToken(f) PROVE OwnerInv'
    <2> DEFINE t == ResponseRefreshToken(f)
    <2>0. flight[f] = "tokenSet"
      BY <1>8 DEF SetRefreshToken
    <2>1. PICK r \in Requests : r = ContextOf(f)
      BY <1>0, <2>0 DEF TypeInv, FlightInv, TypeOK, WritingStates, Running, ContextOf
    <2>2. /\ UNCHANGED <<cookie, signedIn, rt, params, granted, issued>>
          /\ properties' = [properties EXCEPT ![r].rt = t]
          /\ properties[r] \in Sessions /\ granted[f] \in Tokens
      BY <1>0, <1>8, <2>0, <2>1
         DEF SetRefreshToken, TypeInv, FlightInv, TypeOK, WritingStates, Running, callVars, serverVars
    <2>3. /\ starter[f] \in Calls /\ joined[starter[f]] = f /\ rt[starter[f]] = rt[f] /\ rt[f] # None
      BY <1>0, <2>0 DEF TypeInv, FlightInv, TypeOK, WritingStates, Running, JoinInv, BuildRequestKey
    <2>4. UserOf[r] = rt[f].user
      BY <2>1, <2>3 DEF OwnerInv, ContextOf
    <2>5. t.user = UserOf[r] /\ t.gen <= issued[UserOf[r]] /\ (~OneTimeOnly => t.gen = 0)
      BY <2>2, <2>3, <2>4 DEF OwnerInv, ResponseRefreshToken
    <2> HIDE DEF t
    <2>6. Owns(UserOf[r], properties[r])'
      <3>1. properties'[r] = [properties[r] EXCEPT !.rt = t]
        BY <1>0, <2>2 DEF TypeOK
      <3>2. properties'[r].rt = t /\ properties'[r].at = properties[r].at
        BY <2>2, <3>1 DEF Sessions
      <3>3. Owns(UserOf[r], properties[r]) /\ properties[r] # None
        BY <2>2 DEF OwnerInv
      <3>4. QED
        BY <2>2, <2>5, <3>2, <3>3 DEF Owns
    <2>7. \A q \in Requests \ {r} : properties'[q] = properties[q]
      BY <1>0, <2>2 DEF TypeOK
    <2>8. (\A q \in Requests : Owns(UserOf[q], properties[q]))'
      <3>1. ASSUME NEW q \in Requests \ {r} PROVE Owns(UserOf[q], properties[q])'
        BY <2>2, <2>7 DEF OwnerInv, Owns
      <3>2. QED
        BY <2>6, <3>1
    <2>9. (\A q \in Requests : Owns(UserOf[q], signedIn[q]))'
      BY <2>2 DEF OwnerInv, Owns
    <2>10. (\A u \in Users : Owns(u, cookie[u]))'
      BY <2>2 DEF OwnerInv, Owns
    <2>11. QED
      BY <2>2, <2>8, <2>9, <2>10 DEF OwnerInv
  <1>9. ASSUME NEW f \in Calls, SignIn(f) PROVE OwnerInv'
    <2>1. ContextOf(f) \in Requests
      BY <1>0, <1>9 DEF SignIn, TypeInv, FlightInv, TypeOK, WritingStates, Running, ContextOf
    <2>2. QED
      BY <1>0, <1>9, <2>1 DEF SignIn, OwnerInv, Owns, TypeOK, callVars, serverVars
  <1>10. QED
    <2> USE DEF sessionVars, callVars, flightVars, serverVars
    <2>1. ASSUME NEW c \in Calls, CallStep(c) PROVE OwnerInv'
      BY <2>1, <1>1, <1>5 DEF CallStep, NoTokenFound, ReturnStoredToken, NothingToRevoke,
         RevokeRefreshToken, GetOrAdd, ReadValue, ReturnFlightResult
    <2>2. ASSUME NEW f \in Calls, FlightStep(f) PROVE OwnerInv'
      BY <2>2, <1>1, <1>6, <1>7, <1>8, <1>9 DEF FlightStep, EndpointRefuses, AcquireLock
    <2>3. ASSUME NEW c \in Calls, Fault(c) PROVE OwnerInv'
      BY <2>3, <1>1 DEF Fault, ReadCancelled, ExchangeFails, StoreThrows
    <2>4. CASE UNCHANGED vars
      BY <2>4, <1>1 DEF vars
    <2>5. QED
      BY <2>1, <2>2, <2>3, <2>4, <1>1, <1>2, <1>3, <1>4 DEF Next, TokensBecomeDue

-----------------------------------------------------------------------------
(* Rotation.                                                               *)

SessionInv == TypeInv /\ JoinInv /\ OpenInv /\ LockInv /\ OwnerInv

LEMMA InitSessionInv == Init => SessionInv
  BY InitTypeInv, InitJoinInv, InitOwnerInv DEF SessionInv

LEMMA NextSessionInv == SessionInv /\ [Next]_vars => SessionInv'
  BY NextTypeInv, NextJoinInv, NextLockInv, NextOwnerInv DEF SessionInv

\* A flight that was sent runs in an open request of the user whose refresh
\* token it carries, and its starter carries it too.
LEMMA FlightContext ==
  ASSUME SessionInv, NEW f \in Calls, flight[f] = "sent" \/ Storing(f)
  PROVE  /\ ContextOf(f) \in Requests /\ phase[ContextOf(f)] = "open"
         /\ properties[ContextOf(f)] \in Sessions
         /\ rt[f] \in RefreshTokens /\ params[f] \in Params /\ rt[f].user \in Users
         /\ UserOf[ContextOf(f)] = rt[f].user
         /\ starter[f] \in Calls /\ rt[starter[f]] = rt[f]
         /\ Storing(f) => granted[f] \in Tokens /\ granted[f].user = rt[f].user
                          /\ granted[f].params = params[f]
         /\ flight[f] \in WritingStates => lock[ContextOf(f)] = f
  <1> USE DEF Storing, WritingStates
  <1>1. Running(f) /\ flight[f] # "created" /\ TypeOK
    BY DEF Running, SessionInv, TypeInv
  <1>2. /\ starter[f] \in Calls /\ properties[ContextOf(f)] # None
        /\ rt[f] \in RefreshTokens /\ params[f] \in Params
        /\ Storing(f) => granted[f] \in Tokens
    BY <1>1 DEF SessionInv, TypeInv, FlightInv, Running
  <1>3. pc[starter[f]] = "waiting" /\ joined[starter[f]] = f /\ rt[starter[f]] = rt[f]
    BY <1>1, <1>2, NoneAssumption DEF SessionInv, JoinInv, BuildRequestKey
  <1>4. ContextOf(f) \in Requests /\ phase[ContextOf(f)] = "open"
    BY <1>2, <1>3, RequestOfAssumption DEF ContextOf, SessionInv, OpenInv
  <1>5. rt[starter[f]] # None /\ UserOf[ContextOf(f)] = rt[f].user
    BY <1>2, <1>3, NoneAssumption DEF SessionInv, OwnerInv, UserOfCall, ContextOf
  <1>6. properties[ContextOf(f)] \in Sessions
    BY <1>1, <1>2, <1>4 DEF TypeOK
  <1>7. Storing(f) => granted[f] # None
    BY <1>2, NoneAssumption
  <1>8. rt[f].user \in Users
    BY <1>2 DEF RefreshTokens
  <1>9. QED
    BY <1>2, <1>3, <1>4, <1>5, <1>6, <1>7, <1>8 DEF SessionInv, OwnerInv, LockInv

\* The steps which leave alone what a session, a call and a flight hold, and
\* in which no flight begins to store.
Aside ==
    /\ UNCHANGED <<cookie, properties, signedIn, phase, rt, granted, issued>>
    /\ \A f \in Calls : flight[f] # "created" => starter'[f] = starter[f]
    /\ \A f \in Calls : Storing(f)' =>
            Storing(f) /\ (flight'[f] = "refreshSet" <=> flight[f] = "refreshSet")

LEMMA AsideSteps ==
  ASSUME SessionInv,
         \/ \E u \in Users : TokensBecomeDue(u)
         \/ \E c \in Calls :
               \/ \E p \in Params, m \in Modes : StartCall(c, p, m)
               \/ NoTokenFound(c) \/ ReturnStoredToken(c) \/ NothingToRevoke(c) \/ RevokeRefreshToken(c)
               \/ GetOrAdd(c) \/ ReadValue(c) \/ ReturnFlightResult(c) \/ EndpointRefuses(c)
               \/ AcquireLock(c) \/ Fault(c)
         \/ UNCHANGED vars
  PROVE  Aside
  <1> USE DEF Aside, Storing, ContextOf, WritingStates, sessionVars, callVars, flightVars, serverVars
  <1>0. TypeOK /\ FlightInv /\ CallInv
    BY DEF SessionInv, TypeInv
  <1>1. ASSUME UNCHANGED <<cookie, properties, signedIn, phase, rt, granted, issued, flight, starter>>
        PROVE  Aside
    BY <1>1
  <1>2. ASSUME NEW c \in Calls, GetOrAdd(c) PROVE Aside
    BY <1>0, <1>2 DEF GetOrAdd, TypeOK
  <1>3. ASSUME NEW c \in Calls, ReadValue(c) PROVE Aside
    BY <1>0, <1>3 DEF ReadValue, TypeOK, CallInv
  <1>4. ASSUME NEW f \in Calls, EndpointRefuses(f) \/ ExchangeFails(f) \/ StoreThrows(f) PROVE Aside
    BY <1>0, <1>4 DEF EndpointRefuses, ExchangeFails, StoreThrows, EndFlight, TypeOK
  <1>5. ASSUME NEW f \in Calls, AcquireLock(f) PROVE Aside
    BY <1>0, <1>5 DEF AcquireLock, TypeOK
  <1>6. QED
    BY <1>1, <1>2, <1>3, <1>4, <1>5 DEF TokensBecomeDue, StartCall, NoTokenFound, ReturnStoredToken,
       NothingToRevoke, RevokeRefreshToken, ReturnFlightResult, Fault, ReadCancelled, vars

\* Deciding to refresh or to revoke reads the refresh token of a session
\* that nobody is writing.
LEMMA Decides ==
  ASSUME SessionInv, NEW c \in Calls, DecideToRefresh(c) \/ DecideToRevoke(c)
  PROVE  /\ UNCHANGED <<sessionVars, flightVars, serverVars>>
         /\ rt' = [rt EXCEPT ![c] = properties[RequestOf[c]].rt]
         /\ properties[RequestOf[c]] # None /\ properties[RequestOf[c]].rt # None
         /\ flight[c] = "none" /\ lock[RequestOf[c]] = None
  <1>1. pc[c] = "reading"
    BY DEF DecideToRefresh, DecideToRevoke, MayRead
  <1>2. flight[c] = "none"
    BY <1>1 DEF SessionInv, TypeInv, FlightInv
  <1>3. QED
    BY <1>2 DEF DecideToRefresh, DecideToRevoke, StoredRefreshToken, HasSession, ShouldRefresh, MayRead

\* Writing the access token leaves the refresh token of each session alone.
LEMMA WritesAccessToken ==
  ASSUME SessionInv, NEW f \in Calls, SetAccessToken(f)
  PROVE  /\ UNCHANGED <<cookie, phase, signedIn, lock, callVars, starter, granted, serverVars>>
         /\ flight' = [flight EXCEPT ![f] = "tokenSet"] /\ flight[f] = "locked"
         /\ \A r \in Requests : /\ r # ContextOf(f) => properties'[r] = properties[r]
                                /\ properties[r] # None => properties'[r] # None
                                /\ properties'[r] # None => properties[r] # None
                                /\ properties[r] # None => properties'[r].rt = properties[r].rt
         /\ \A p \in Params : properties'[ContextOf(f)].at[p] =
                IF p = params[f] THEN granted[f] ELSE properties[ContextOf(f)].at[p]
  <1>1. flight[f] = "locked" /\ Storing(f)
    BY DEF SetAccessToken, Storing, WritingStates
  <1>2. PICK r \in Requests, p \in Params, t \in Tokens :
            r = ContextOf(f) /\ p = params[f] /\ t = granted[f] /\ properties[r] \in Sessions
    BY <1>1, FlightContext
  <1>3. /\ properties' = [properties EXCEPT ![r].at[p] = t]
        /\ properties \in [Requests -> Sessions \cup {None}]
    BY <1>2 DEF SetAccessToken, SessionInv, TypeInv, TypeOK
  <1>4. /\ \A q \in Requests \ {r} : properties'[q] = properties[q]
        /\ properties'[r] = [properties[r] EXCEPT !.at[p] = t]
    BY <1>2, <1>3
  <1>5. /\ properties'[r] \in Sessions /\ properties'[r].rt = properties[r].rt
        /\ \A q \in Params : properties'[r].at[q] = IF q = p THEN t ELSE properties[r].at[q]
    BY <1>2, <1>4 DEF Sessions
  <1>6. properties[r] # None /\ properties'[r] # None
    BY <1>2, <1>5, NoneAssumption
  <1>7. QED
    BY <1>1, <1>2, <1>4, <1>5, <1>6 DEF SetAccessToken

LEMMA WritesRefreshToken ==
  ASSUME SessionInv, NEW f \in Calls, SetRefreshToken(f)
  PROVE  /\ UNCHANGED <<cookie, phase, signedIn, lock, callVars, starter, granted, serverVars>>
         /\ flight' = [flight EXCEPT ![f] = "refreshSet"] /\ flight[f] = "tokenSet"
         /\ \A r \in Requests : /\ r # ContextOf(f) => properties'[r] = properties[r]
                                /\ properties[r] # None => properties'[r] # None
                                /\ properties'[r] # None => properties[r] # None
                                /\ properties[r] # None => properties'[r].at = properties[r].at
         /\ properties'[ContextOf(f)].rt = ResponseRefreshToken(f)
  <1>1. flight[f] = "tokenSet" /\ Storing(f)
    BY DEF SetRefreshToken, Storing, WritingStates
  <1>2. PICK r \in Requests, t \in RefreshTokens :
            r = ContextOf(f) /\ t = ResponseRefreshToken(f) /\ properties[r] \in Sessions
    BY <1>1, FlightContext, GrantedRefreshToken
  <1>3. /\ properties' = [properties EXCEPT ![r].rt = t]
        /\ properties \in [Requests -> Sessions \cup {None}]
    BY <1>2 DEF SetRefreshToken, SessionInv, TypeInv, TypeOK
  <1>4. /\ \A q \in Requests \ {r} : properties'[q] = properties[q]
        /\ properties'[r] = [properties[r] EXCEPT !.rt = t]
    BY <1>2, <1>3
  <1>5. properties'[r] \in Sessions /\ properties'[r].rt = t /\ properties'[r].at = properties[r].at
    BY <1>2, <1>4 DEF Sessions
  <1>6. properties[r] # None /\ properties'[r] # None
    BY <1>2, <1>5, NoneAssumption
  <1>7. QED
    BY <1>1, <1>2, <1>4, <1>5, <1>6 DEF SetRefreshToken

\* The token endpoint issues a token that is newer than any other of the user.
LEMMA Grants ==
  ASSUME SessionInv, NEW f \in Calls, EndpointGrants(f)
  PROVE  /\ UNCHANGED <<sessionVars, callVars, starter, ending>>
         /\ flight' = [flight EXCEPT ![f] = "granted"] /\ flight[f] = "sent"
         /\ OneTimeOnly => rt[f].gen = issued[rt[f].user]
         /\ issued' = [issued EXCEPT ![rt[f].user] = @ + 1]
         /\ granted' = [granted EXCEPT ![f] =
                [user |-> rt[f].user, params |-> params[f], n |-> issued[rt[f].user] + 1]]
  BY DEF EndpointGrants, Accepts

LEMMA SignsIn ==
  ASSUME SessionInv, NEW f \in Calls, SignIn(f)
  PROVE  /\ UNCHANGED <<cookie, phase, properties, callVars, starter, granted, serverVars>>
         /\ flight' = [flight EXCEPT ![f] = "done"] /\ flight[f] = "refreshSet"
         /\ ending' = [ending EXCEPT ![f] = "token"]
         /\ signedIn' = [signedIn EXCEPT ![ContextOf(f)] = properties[ContextOf(f)]]
  BY DEF SignIn, EndFlight

LEMMA InitRotationInv == Init => RotationInv
  <1> SUFFICES ASSUME Init PROVE RotationInv
    OBVIOUS
  <1>1. ASSUME NEW u \in Users PROVE UpToDate(cookie[u])
    <2>1. cookie[u] \in LoginSessions(u) \cup {None}
      BY DEF Init
    <2>2. CASE cookie[u] = None
      BY <2>2 DEF UpToDate
    <2>3. CASE cookie[u] \in LoginSessions(u)
      BY <2>3, NoneAssumption DEF LoginSessions, UpToDate, Tokens, RefreshTokens
    <2>4. QED
      BY <2>1, <2>2, <2>3
  <1>2. QED
    BY <1>1 DEF Init, RotationInv, SoleGrantInv, GrantInv, Newest, TornInv, Whole, SoleInv, Sole, NewestRefreshTokenIsKept,
                Storing, WritingStates, UpToDate

LEMMA NextSoleGrantInv ==
  ASSUME SessionInv, SoleGrantInv, GrantInv, [Next]_vars
  PROVE  SoleGrantInv'
  <1> SUFFICES ASSUME OneTimeOnly, NEW f \in Calls, NEW g \in Calls, f # g,
                      Storing(f)', Storing(g)', rt'[f].user = rt'[g].user
               PROVE  FALSE
    BY DEF SoleGrantInv
  <1>0. TypeOK
    BY DEF SessionInv, TypeInv
  <1>1. ASSUME NEW c \in Calls, EndpointGrants(c), NEW d \in Calls \ {c}, Storing(d)
        PROVE  rt[c].user # rt[d].user
    <2>1. rt[c].gen = issued[rt[c].user] /\ rt[c] \in RefreshTokens /\ flight[c] = "sent"
      BY <1>1, Grants, FlightContext
    <2>2. CASE rt[c].user = rt[d].user
      <3>1. granted[d].n = issued[rt[d].user] /\ rt[c].gen < granted[d].n /\ rt[d] \in RefreshTokens
        BY <1>1, <2>1, <2>2, FlightContext, NoneAssumption DEF GrantInv, Newest
      <3>2. issued[rt[d].user] \in Nat
        BY <1>0, <3>1 DEF TypeOK, RefreshTokens
      <3>3. QED
        BY <2>1, <2>2, <3>1, <3>2
    <2>3. QED
      BY <2>2
  <1>2. CASE \E c \in Calls : EndpointGrants(c)
    <2>1. PICK c \in Calls : EndpointGrants(c)
      BY <1>2
    <2>2. rt' = rt /\ flight' = [flight EXCEPT ![c] = "granted"]
      BY <2>1, Grants DEF callVars
    <2>3. \A d \in Calls \ {c} : Storing(d)' => Storing(d)
      BY <1>0, <2>2 DEF Storing, TypeOK
    <2>4. QED
      BY <1>1, <2>1, <2>2, <2>3 DEF SoleGrantInv
  <1>3. ASSUME UNCHANGED rt, \A d \in Calls : Storing(d)' => Storing(d)
        PROVE  FALSE
    BY <1>3 DEF SoleGrantInv
  <1>4. ASSUME NEW c \in Calls, DecideToRefresh(c) \/ DecideToRevoke(c) PROVE FALSE
    BY <1>0, <1>4, Decides DEF SoleGrantInv, Storing, WritingStates, flightVars, TypeOK
  <1>5. ASSUME NEW c \in Calls, SetAccessToken(c) \/ SetRefreshToken(c) \/ SignIn(c) PROVE FALSE
    BY <1>0, <1>3, <1>5 DEF SetAccessToken, SetRefreshToken, SignIn, EndFlight, Storing, WritingStates, TypeOK, callVars
  <1>6. CASE Aside
    BY <1>3, <1>6 DEF Aside
  <1>7. ASSUME NEW r \in Requests, BeginRequest(r) \/ EndRequest(r) PROVE FALSE
    BY <1>3, <1>7 DEF BeginRequest, EndRequest, callVars, flightVars, Storing
  <1>8. QED
    BY <1>2, <1>4, <1>5, <1>6, <1>7, AsideSteps DEF Next, CallStep, FlightStep

LEMMA NextGrantInv ==
  ASSUME SessionInv, SoleGrantInv, GrantInv, [Next]_vars
  PROVE  GrantInv'
  <1> SUFFICES ASSUME OneTimeOnly, NEW f \in Calls, Storing(f)' PROVE Newest(f)'
    BY DEF GrantInv, Newest
  <1> USE NoneAssumption, UserOfAssumption, RequestOfAssumption
  <1>0. TypeOK /\ (Storing(f) => Newest(f))
    BY DEF SessionInv, TypeInv, GrantInv, Newest
  <1>1. CASE Aside
    BY <1>0, <1>1 DEF Aside, Newest, Older, ContextOf, Storing, WritingStates
  <1>2. ASSUME NEW r \in Requests, BeginRequest(r) PROVE Newest(f)'
    <2>1. /\ UNCHANGED <<cookie, signedIn, rt, granted, issued, flight, starter>>
          /\ phase[r] = "new" /\ properties' = [properties EXCEPT ![r] = cookie[UserOf[r]]]
      BY <1>2 DEF BeginRequest, callVars, flightVars, serverVars
    <2>2. Storing(f) /\ r # ContextOf(f)
      BY <2>1, FlightContext DEF Storing
    <2>3. QED
      BY <1>0, <2>1, <2>2 DEF Newest, Older, ContextOf, TypeOK
  <1>3. ASSUME NEW r \in Requests, EndRequest(r) PROVE Newest(f)'
    <2>1. /\ UNCHANGED <<properties, signedIn, rt, granted, issued, flight, starter>>
          /\ cookie' = IF signedIn[r] = None THEN cookie ELSE [cookie EXCEPT ![UserOf[r]] = signedIn[r]]
      BY <1>3 DEF EndRequest, callVars, flightVars, serverVars
    <2>2. Storing(f)
      BY <2>1 DEF Storing
    <2>3. rt[f].user \in Users
      BY <2>2, FlightContext
    <2>4. QED
      BY <1>0, <2>1, <2>2, <2>3 DEF Newest, Older, ContextOf, TypeOK
  <1>4. ASSUME NEW c \in Calls, DecideToRefresh(c) \/ DecideToRevoke(c) PROVE Newest(f)'
    <2>1. /\ UNCHANGED <<cookie, properties, signedIn, granted, issued, flight, starter>>
          /\ rt' = [rt EXCEPT ![c] = properties[RequestOf[c]].rt]
          /\ properties[RequestOf[c]] # None /\ properties[RequestOf[c]].rt # None
          /\ flight[c] = "none" /\ lock[RequestOf[c]] = None
      BY <1>4, Decides DEF sessionVars, flightVars, serverVars
    <2>2. Storing(f) /\ f # c
      BY <2>1 DEF Storing, WritingStates
    <2>3. UserOf[RequestOf[c]] = rt[f].user => properties[RequestOf[c]].rt.gen < granted[f].n
      BY <1>0, <2>1, <2>2, FlightContext DEF Newest, Older, WritingStates
    <2>4. properties[RequestOf[c]].rt.user = UserOf[RequestOf[c]]
      BY <2>1 DEF SessionInv, OwnerInv, Owns
    <2>5. QED
      BY <1>0, <2>1, <2>2, <2>3, <2>4 DEF Newest, ContextOf, Older, TypeOK
  <1>5. ASSUME NEW g \in Calls, EndpointGrants(g) PROVE Newest(f)'
    <2>1. /\ UNCHANGED <<cookie, properties, signedIn, rt, starter>>
          /\ flight' = [flight EXCEPT ![g] = "granted"] /\ flight[g] = "sent"
          /\ rt[g].gen = issued[rt[g].user]
          /\ issued' = [issued EXCEPT ![rt[g].user] = @ + 1]
          /\ granted' = [granted EXCEPT ![g] =
                [user |-> rt[g].user, params |-> params[g], n |-> issued[rt[g].user] + 1]]
      BY <1>5, Grants DEF sessionVars, callVars
    <2>2. CASE f = g
      <3> DEFINE u == rt[f].user
                 n == issued[u] + 1
      <3>1. u \in Users /\ issued[u] \in Nat /\ rt[f] \in RefreshTokens
        BY <1>0, <2>1, <2>2, FlightContext DEF TypeOK
      <3>2. granted'[f].n = n /\ issued'[u] = n /\ rt[f].gen + 1 = n /\ flight'[f] = "granted"
        BY <1>0, <2>1, <2>2, <3>1 DEF TypeOK
      <3>3. \A c \in Calls : rt[c] # None /\ rt[c].user = u => rt[c].gen < n
        BY <1>0, <3>1 DEF SessionInv, OwnerInv, UserOfCall, TypeOK, RefreshTokens
      <3>4. ASSUME NEW s \in Sessions \cup {None}, Owns(u, s) PROVE Older(s, n)
        BY <3>1, <3>4 DEF Owns, Older, Sessions, RefreshTokens
      <3>5. Older(cookie[u], n)
        BY <1>0, <3>1, <3>4 DEF SessionInv, OwnerInv, TypeOK
      <3>6. \A r \in Requests : UserOf[r] = u => Older(signedIn[r], n) /\ Older(properties[r], n)
        BY <1>0, <3>4 DEF SessionInv, OwnerInv, TypeOK
      <3>7. QED
        BY <2>1, <3>2, <3>3, <3>5, <3>6 DEF Newest, Older
    <2>3. CASE f # g
      <3>1. Storing(f) /\ flight'[f] = flight[f] /\ granted'[f] = granted[f]
        BY <1>0, <2>1, <2>3 DEF Storing, TypeOK
      <3>2. rt[f].user # rt[g].user
        <4>1. CASE rt[f].user = rt[g].user
          <5>1. issued[rt[f].user] = granted[f].n /\ rt[g] # None /\ rt[g] \in RefreshTokens
            BY <1>0, <2>1, <3>1, FlightContext DEF Newest
          <5>2. rt[g].gen < rt[g].gen /\ rt[g].gen \in Nat
            BY <1>0, <2>1, <3>1, <4>1, <5>1 DEF Newest, RefreshTokens
          <5>3. QED
            BY <5>2
        <4>2. QED
          BY <4>1
      <3>3. rt[f].user \in Users /\ rt[g].user \in Users
        BY <2>1, <3>1, FlightContext
      <3>4. issued'[rt[f].user] = issued[rt[f].user]
        BY <1>0, <2>1, <3>2, <3>3 DEF TypeOK
      <3>5. QED
        BY <1>0, <2>1, <3>1, <3>4 DEF Newest, Older, ContextOf
    <2>4. QED
      BY <2>2, <2>3
  <1>6. ASSUME NEW g \in Calls, SetAccessToken(g) PROVE Newest(f)'
    <2>1. /\ UNCHANGED <<cookie, signedIn, rt, starter, granted, issued>>
          /\ flight' = [flight EXCEPT ![g] = "tokenSet"] /\ flight[g] = "locked"
          /\ \A r \in Requests : /\ properties'[r] # None => properties[r] # None
                                 /\ properties[r] # None => properties'[r].rt = properties[r].rt
      BY <1>6, WritesAccessToken DEF callVars, serverVars
    <2>2. Storing(f) /\ (flight'[f] = "refreshSet" => flight[f] = "refreshSet")
          /\ (flight[f] = "refreshSet" => flight'[f] = "refreshSet")
      BY <1>0, <2>1 DEF Storing, WritingStates, TypeOK
    <2>3. ContextOf(f) \in Requests /\ properties[ContextOf(f)] # None
      BY <2>2, FlightContext
    <2>4. QED
      BY <1>0, <2>1, <2>2, <2>3 DEF Newest, Older, ContextOf
  <1>7. ASSUME NEW g \in Calls, SetRefreshToken(g) PROVE Newest(f)'
    <2>1. /\ UNCHANGED <<cookie, signedIn, rt, starter, granted, issued>>
          /\ flight' = [flight EXCEPT ![g] = "refreshSet"] /\ flight[g] = "tokenSet"
          /\ \A r \in Requests : r # ContextOf(g) => properties'[r] = properties[r]
          /\ properties'[ContextOf(g)].rt = ResponseRefreshToken(g)
      BY <1>7, WritesRefreshToken DEF callVars, serverVars
    <2>2. Storing(f) /\ Storing(g)
      BY <1>0, <2>1 DEF Storing, WritingStates, TypeOK
    <2>3. CASE f = g
      BY <1>0, <2>1, <2>2, <2>3 DEF Newest, Older, ContextOf, ResponseRefreshToken, TypeOK
    <2>4. CASE f # g
      <3>1. rt[f].user # rt[g].user
        BY <2>2, <2>4 DEF SoleGrantInv
      <3>2. UserOf[ContextOf(g)] = rt[g].user /\ UserOf[ContextOf(f)] = rt[f].user /\ ContextOf(f) \in Requests
        BY <2>2, FlightContext
      <3>3. flight'[f] = flight[f]
        BY <1>0, <2>1, <2>4 DEF TypeOK
      <3>4. QED
        BY <1>0, <2>1, <2>2, <3>1, <3>2, <3>3 DEF Newest, Older, ContextOf
    <2>5. QED
      BY <2>3, <2>4
  <1>8. ASSUME NEW g \in Calls, SignIn(g) PROVE Newest(f)'
    <2>1. /\ UNCHANGED <<cookie, properties, rt, starter, granted, issued>>
          /\ flight' = [flight EXCEPT ![g] = "done"] /\ flight[g] = "refreshSet"
          /\ signedIn' = [signedIn EXCEPT ![ContextOf(g)] = properties[ContextOf(g)]]
      BY <1>8, SignsIn DEF callVars, serverVars
    <2>2. Storing(f) /\ Storing(g) /\ f # g /\ flight'[f] = flight[f]
      BY <1>0, <2>1 DEF Storing, WritingStates, TypeOK
    <2>3. rt[f].user # rt[g].user
      BY <2>2 DEF SoleGrantInv
    <2>4. UserOf[ContextOf(g)] = rt[g].user /\ ContextOf(g) \in Requests
      BY <2>2, FlightContext
    <2>5. \A r \in Requests : UserOf[r] = rt[f].user => signedIn'[r] = signedIn[r]
      BY <1>0, <2>1, <2>3, <2>4 DEF TypeOK
    <2>6. QED
      BY <1>0, <2>1, <2>2, <2>5 DEF Newest, Older, ContextOf
  <1>9. QED
    BY <1>1, <1>2, <1>3, <1>4, <1>5, <1>6, <1>7, <1>8, AsideSteps DEF Next, CallStep, FlightStep

\* A flight with a token to store is of the only request of its user that may
\* have been signed in: what it was granted followed on what that request holds.
LEMMA SoleHolder ==
  ASSUME SessionInv, GrantInv, SoleInv, OneTimeOnly, NEW f \in Calls, Storing(f),
         NEW r \in Requests, phase[r] = "open", signedIn[r] # None, UserOf[r] = rt[f].user
  PROVE  r = ContextOf(f)
  <1> SUFFICES ASSUME r # ContextOf(f) PROVE FALSE
    OBVIOUS
  <1> DEFINE s == starter[f]
  <1>1. /\ s \in Calls /\ rt[s] = rt[f] /\ rt[f] \in RefreshTokens /\ RequestOf[s] # r
        /\ UserOfCall(s) = UserOf[r]
    BY FlightContext DEF ContextOf, UserOfCall
  <1>2. signedIn[r].rt # None /\ rt[f].gen < signedIn[r].rt.gen
    BY <1>1, NoneAssumption DEF SoleInv, Sole
  <1>3. signedIn[r].rt.gen < rt[f].gen + 1
    BY <1>2 DEF GrantInv, Newest, Older
  <1>4. signedIn[r].rt.gen \in Nat /\ rt[f].gen \in Nat
    BY <1>1, <1>2 DEF SessionInv, TypeInv, TypeOK, Sessions, RefreshTokens
  <1>5. QED
    BY <1>2, <1>3, <1>4

LEMMA NextSoleInv ==
  ASSUME SessionInv, GrantInv, SoleInv, [Next]_vars
  PROVE  SoleInv'
  <1> SUFFICES ASSUME OneTimeOnly, NEW r \in Requests, phase'[r] = "open", signedIn'[r] # None
               PROVE  Sole(r)'
    BY DEF SoleInv, Sole
  <1> USE NoneAssumption, UserOfAssumption, RequestOfAssumption
  <1>0. TypeOK /\ (phase[r] = "open" /\ signedIn[r] # None => Sole(r))
    BY DEF SessionInv, TypeInv, SoleInv, Sole
  <1>1. CASE Aside
    BY <1>0, <1>1 DEF Aside, Sole, Older, UserOfCall
  <1>2. ASSUME NEW q \in Requests, BeginRequest(q) PROVE Sole(r)'
    <2>1. /\ UNCHANGED <<cookie, signedIn, rt>>
          /\ phase[q] = "new" /\ phase' = [phase EXCEPT ![q] = "open"]
          /\ properties' = [properties EXCEPT ![q] = cookie[UserOf[q]]]
      BY <1>2 DEF BeginRequest, callVars
    <2>2. r # q /\ phase[r] = "open"
      BY <1>0, <2>1 DEF SessionInv, OpenInv, TypeOK
    <2>3. QED
      BY <1>0, <2>1, <2>2 DEF Sole, Older, UserOfCall, TypeOK
  <1>3. ASSUME NEW q \in Requests, EndRequest(q) PROVE Sole(r)'
    <2>1. /\ UNCHANGED <<properties, signedIn, rt>>
          /\ phase' = [phase EXCEPT ![q] = "ended"]
          /\ cookie' = IF signedIn[q] = None THEN cookie ELSE [cookie EXCEPT ![UserOf[q]] = signedIn[q]]
      BY <1>3 DEF EndRequest, callVars
    <2>2. r # q /\ phase[r] = "open"
      BY <1>0, <2>1 DEF TypeOK
    <2>3. QED
      BY <1>0, <2>1, <2>2 DEF Sole, Older, UserOfCall, TypeOK
  <1>4. ASSUME NEW c \in Calls, DecideToRefresh(c) \/ DecideToRevoke(c) PROVE Sole(r)'
    <2>1. /\ UNCHANGED <<cookie, phase, properties, signedIn>>
          /\ rt' = [rt EXCEPT ![c] = properties[RequestOf[c]].rt]
          /\ properties[RequestOf[c]] # None /\ properties[RequestOf[c]].rt # None
      BY <1>4, Decides DEF sessionVars
    <2>2. QED
      BY <1>0, <2>1 DEF Sole, Older, UserOfCall, TypeOK
  <1>5. ASSUME NEW g \in Calls, EndpointGrants(g) PROVE Sole(r)'
    BY <1>0, <1>5, Grants DEF Sole, Older, UserOfCall, sessionVars, callVars
  <1>6. ASSUME NEW g \in Calls, SetAccessToken(g) PROVE Sole(r)'
    <2>1. /\ UNCHANGED <<cookie, phase, signedIn, rt>>
          /\ \A q \in Requests : /\ properties'[q] # None => properties[q] # None
                                 /\ properties[q] # None => properties'[q].rt = properties[q].rt
      BY <1>6, WritesAccessToken DEF callVars
    <2>2. QED
      BY <1>0, <2>1 DEF Sole, Older, UserOfCall
  <1>7. ASSUME NEW g \in Calls, SetRefreshToken(g) PROVE Sole(r)'
    <2>1. /\ UNCHANGED <<cookie, phase, signedIn, rt>> /\ Storing(g)
          /\ \A q \in Requests : q # ContextOf(g) => properties'[q] = properties[q]
      BY <1>7, WritesRefreshToken DEF callVars, Storing, WritingStates
    <2>2. UserOf[ContextOf(g)] = rt[g].user
      BY <2>1, FlightContext
    <2>3. UserOf[r] = rt[g].user => r = ContextOf(g)
      BY <2>1, SoleHolder
    <2>4. QED
      BY <1>0, <2>1, <2>2, <2>3 DEF Sole, Older, UserOfCall
  <1>8. ASSUME NEW g \in Calls, SignIn(g) PROVE Sole(r)'
    <2>1. /\ UNCHANGED <<cookie, phase, properties, rt>> /\ Storing(g) /\ flight[g] = "refreshSet"
          /\ signedIn' = [signedIn EXCEPT ![ContextOf(g)] = properties[ContextOf(g)]]
      BY <1>8, SignsIn DEF callVars, Storing, WritingStates
    <2>2. UserOf[ContextOf(g)] = rt[g].user /\ ContextOf(g) \in Requests
      BY <2>1, FlightContext
    <2>3. CASE r = ContextOf(g)
      <3> DEFINE n == granted[g].n
      <3>1. signedIn'[r] = properties[r] /\ properties[r].rt = [user |-> rt[g].user, gen |-> n]
        BY <1>0, <2>1, <2>3 DEF TypeOK, GrantInv, Newest
      <3>2. signedIn'[r].rt # None
        BY <1>0, <2>1, <2>2, <2>3, <3>1, FlightContext DEF Tokens, RefreshTokens
      <3>3. /\ Older(cookie[UserOf[r]], n)
            /\ \A q \in Requests \ {r} : UserOf[q] = UserOf[r] => Older(properties[q], n) /\ Older(signedIn[q], n)
            /\ \A c \in Calls : rt[c] # None /\ UserOfCall(c) = UserOf[r] => rt[c].gen < n
        BY <2>1, <2>2, <2>3 DEF GrantInv, Newest, SessionInv, OwnerInv
      <3>4. \A q \in Requests \ {r} : signedIn'[q] = signedIn[q]
        BY <1>0, <2>1, <2>3 DEF TypeOK
      <3>5. QED
        BY <2>1, <3>1, <3>2, <3>3, <3>4 DEF Sole, Older, UserOfCall
    <2>4. CASE r # ContextOf(g)
      <3>1. signedIn'[r] = signedIn[r]
        BY <1>0, <2>1, <2>4 DEF TypeOK
      <3>2. UserOf[r] # UserOf[ContextOf(g)]
        BY <2>1, <2>2, <2>4, <3>1, SoleHolder
      <3>3. \A q \in Requests : UserOf[q] = UserOf[r] => signedIn'[q] = signedIn[q]
        BY <1>0, <2>1, <3>2 DEF TypeOK
      <3>4. QED
        BY <1>0, <2>1, <3>1, <3>3 DEF Sole, Older, UserOfCall
    <2>5. QED
      BY <2>3, <2>4
  <1>9. QED
    BY <1>1, <1>2, <1>3, <1>4, <1>5, <1>6, <1>7, <1>8, AsideSteps DEF Next, CallStep, FlightStep

LEMMA NextTornInv ==
  ASSUME SessionInv, GrantInv, TornInv, [Next]_vars
  PROVE  TornInv'
  <1> SUFFICES ASSUME OneTimeOnly
               PROVE  /\ \A u \in Users : UpToDate(cookie'[u])
                      /\ \A r \in Requests : UpToDate(signedIn'[r]) /\ Whole(r)'
    BY DEF TornInv, Whole, UpToDate
  <1> DEFINE Goal == /\ \A u \in Users : UpToDate(cookie'[u])
                     /\ \A r \in Requests : UpToDate(signedIn'[r]) /\ Whole(r)'
  <1> USE NoneAssumption, UserOfAssumption, RequestOfAssumption
  <1>0. /\ TypeOK
        /\ \A u \in Users : UpToDate(cookie[u])
        /\ \A r \in Requests : UpToDate(signedIn[r]) /\ Whole(r)
    BY DEF SessionInv, TypeInv, TornInv, Whole
  <1> SUFFICES Goal
    OBVIOUS
  <1> HIDE DEF Goal
  <1>1. ASSUME UNCHANGED <<cookie, properties, signedIn, lock>>,
               \A f \in Calls : flight[f] = "tokenSet" => flight'[f] = "tokenSet"
        PROVE  Goal
    BY <1>0, <1>1 DEF Goal, Whole, UpToDate, TypeOK
  \* The flight whose steps release or take the lock.
  <1>2. ASSUME NEW f \in Calls, NEW q \in Requests, flight[f] # "tokenSet",
               lock[q] \in {None, f}, UNCHANGED <<cookie, properties>>,
               signedIn' = signedIn \/ signedIn' = [signedIn EXCEPT ![q] = properties[q]],
               \A g \in Calls \ {f} : flight'[g] = flight[g],
               \A r \in Requests \ {q} : lock'[r] = lock[r]
        PROVE  Goal
    <2>1. UpToDate(properties[q])
      BY <1>0, <1>2 DEF Whole
    <2>2. \A r \in Requests \ {q} : lock[r] # None /\ flight[lock[r]] = "tokenSet" => lock[r] \in Calls \ {f}
      BY <1>0, <1>2 DEF TypeOK
    <2>3. QED
      BY <1>0, <1>2, <2>1, <2>2 DEF Goal, Whole, UpToDate, TypeOK
  <1>3. ASSUME NEW r \in Requests, BeginRequest(r) PROVE Goal
    BY <1>0, <1>3 DEF BeginRequest, flightVars, Goal, Whole, UpToDate, TypeOK
  <1>4. ASSUME NEW r \in Requests, EndRequest(r) PROVE Goal
    BY <1>0, <1>4 DEF EndRequest, flightVars, Goal, Whole, UpToDate, TypeOK
  <1>5. ASSUME NEW c \in Calls, GetOrAdd(c) PROVE Goal
    <2>1. flight[c] = "none"
      BY <1>5 DEF GetOrAdd, SessionInv, TypeInv, FlightInv
    <2>2. QED
      BY <1>0, <1>1, <1>5, <2>1 DEF GetOrAdd, sessionVars, TypeOK
  <1>6. ASSUME NEW c \in Calls, ReadValue(c) PROVE Goal
    BY <1>0, <1>1, <1>6 DEF ReadValue, sessionVars, TypeOK
  <1>7. ASSUME NEW f \in Calls, EndpointGrants(f) \/ EndpointRefuses(f) \/ ExchangeFails(f) PROVE Goal
    BY <1>0, <1>1, <1>7 DEF EndpointGrants, EndpointRefuses, ExchangeFails, EndFlight, sessionVars, TypeOK
  <1>8. ASSUME NEW f \in Calls, AcquireLock(f) \/ SignIn(f) \/ StoreThrows(f) PROVE Goal
    <2>1. PICK q \in Requests : q = ContextOf(f)
      BY <1>8, FlightContext DEF AcquireLock, SignIn, StoreThrows, Storing, WritingStates
    <2>2. flight[f] # "tokenSet" /\ lock[q] \in {None, f}
      BY <1>8, <2>1, FlightContext DEF AcquireLock, SignIn, StoreThrows, Storing, WritingStates
    <2>3. UNCHANGED <<cookie, properties>>
      BY <1>8 DEF AcquireLock, SignIn, StoreThrows
    <2>4. signedIn' = signedIn \/ signedIn' = [signedIn EXCEPT ![q] = properties[q]]
      BY <1>8, <2>1 DEF AcquireLock, SignIn, StoreThrows
    <2>5. \A g \in Calls \ {f} : flight'[g] = flight[g]
      BY <1>0, <1>8 DEF AcquireLock, SignIn, StoreThrows, EndFlight, TypeOK
    <2>6. \A r \in Requests \ {q} : lock'[r] = lock[r]
      BY <1>0, <1>8, <2>1 DEF AcquireLock, SignIn, StoreThrows, TypeOK
    <2>7. QED
      BY <1>2, <2>2, <2>3, <2>4, <2>5, <2>6
  <1>9. ASSUME NEW f \in Calls, SetAccessToken(f) PROVE Goal
    <2>1. /\ UNCHANGED <<cookie, signedIn, lock>> /\ Storing(f) /\ flight[f] = "locked"
          /\ flight' = [flight EXCEPT ![f] = "tokenSet"]
          /\ \A r \in Requests : r # ContextOf(f) => properties'[r] = properties[r]
      BY <1>9, WritesAccessToken DEF Storing, WritingStates
    <2>2. lock[ContextOf(f)] = f
      BY <2>1, FlightContext DEF WritingStates
    <2>3. QED
      BY <1>0, <2>1, <2>2 DEF Goal, Whole, UpToDate, TypeOK
  <1>10. ASSUME NEW f \in Calls, SetRefreshToken(f) PROVE Goal
    <2>1. /\ UNCHANGED <<cookie, signedIn, lock>> /\ Storing(f) /\ flight[f] = "tokenSet"
          /\ flight' = [flight EXCEPT ![f] = "refreshSet"]
          /\ \A r \in Requests : /\ r # ContextOf(f) => properties'[r] = properties[r]
                                 /\ properties[r] # None => properties'[r].at = properties[r].at
          /\ properties'[ContextOf(f)].rt = ResponseRefreshToken(f)
      BY <1>10, WritesRefreshToken DEF Storing, WritingStates
    <2>2. PICK q \in Requests : q = ContextOf(f) /\ properties[q] # None /\ UserOf[q] = rt[f].user
      BY <2>1, FlightContext
    <2>3. properties'[q].at = properties[q].at /\ properties'[q].rt.gen = issued[UserOf[q]]
      BY <2>1, <2>2 DEF GrantInv, Newest, ResponseRefreshToken
    <2>4. \A p \in Params : properties[q].at[p] # None => properties[q].at[p].n <= issued[UserOf[q]]
      BY <2>2 DEF SessionInv, OwnerInv, Owns
    <2>5. UpToDate(properties'[q])
      BY <2>3, <2>4 DEF UpToDate
    <2>6. \A r \in Requests \ {q} : Whole(r)'
      <3>1. ASSUME NEW r \in Requests \ {q} PROVE lock[r] # f
        BY <2>1, <2>2, <3>1 DEF SessionInv, LockInv
      <3>2. QED
        BY <1>0, <2>1, <2>2, <3>1 DEF Goal, Whole, UpToDate, TypeOK
    <2>7. QED
      BY <1>0, <2>1, <2>5, <2>6 DEF Goal, Whole, UpToDate
  <1>11. QED
    <2> USE DEF sessionVars, flightVars
    <2>1. ASSUME UNCHANGED <<cookie, properties, signedIn, lock, flight>> PROVE Goal
      BY <2>1, <1>1
    <2>2. ASSUME NEW c \in Calls, CallStep(c) PROVE Goal
      <3>1. CASE ReturnFlightResult(c)
        BY <3>1, <1>1 DEF ReturnFlightResult, sessionVars
      <3>2. QED
        BY <2>2, <2>1, <3>1, <1>5, <1>6 DEF CallStep, NoTokenFound, ReturnStoredToken, DecideToRefresh,
           NothingToRevoke, DecideToRevoke, RevokeRefreshToken
    <2>3. ASSUME NEW f \in Calls, FlightStep(f) PROVE Goal
      BY <2>3, <1>7, <1>8, <1>9, <1>10 DEF FlightStep
    <2>4. ASSUME NEW c \in Calls, Fault(c) PROVE Goal
      BY <2>4, <2>1, <1>7, <1>8 DEF Fault, ReadCancelled
    <2>5. CASE UNCHANGED vars
      BY <2>5, <2>1 DEF vars
    <2>6. ASSUME \/ \E u \in Users : TokensBecomeDue(u)
                 \/ \E c \in Calls, p \in Params, m \in Modes : StartCall(c, p, m)
          PROVE  Goal
      BY <2>6, <2>1 DEF TokensBecomeDue, StartCall
    <2>7. QED
      BY <1>3, <1>4, <2>2, <2>3, <2>4, <2>5, <2>6 DEF Next

LEMMA NextNewest ==
  ASSUME SessionInv, GrantInv, SoleInv, NewestRefreshTokenIsKept, [Next]_vars
  PROVE  NewestRefreshTokenIsKept'
  <1> SUFFICES ASSUME OneTimeOnly, NEW u \in Users, issued'[u] > 0
               PROVE  \/ HoldsNewest(cookie[u], u)'
                      \/ \E r \in Requests : phase'[r] = "open" /\ HoldsNewest(signedIn[r], u)'
                      \/ \E f \in Calls : /\ granted'[f] # None /\ granted'[f].user = u
                                          /\ granted'[f].n = issued'[u]
                                          /\ Running(f)' \/ ending'[f] # "token"
    BY DEF NewestRefreshTokenIsKept, Running
  <1> DEFINE Browser == HoldsNewest(cookie[u], u)
             Response == \E r \in Requests : phase[r] = "open" /\ HoldsNewest(signedIn[r], u)
             InFlight(f) == /\ granted[f] # None /\ granted[f].user = u /\ granted[f].n = issued[u]
                            /\ Running(f) \/ ending[f] # "token"
             Goal == Browser' \/ Response' \/ \E f \in Calls : InFlight(f)'
  <1> SUFFICES Goal
    BY DEF Running
  <1> USE NoneAssumption, UserOfAssumption, RequestOfAssumption
  <1>0. TypeOK /\ (issued[u] > 0 => Browser \/ Response \/ \E f \in Calls : InFlight(f))
    BY DEF SessionInv, TypeInv, NewestRefreshTokenIsKept
  <1> HIDE DEF Goal
  <1>1. ASSUME UNCHANGED <<cookie, signedIn, phase, issued, granted>>,
               \A f \in Calls : \/ ending'[f] = ending[f] /\ (Running(f) => Running(f)')
                                \/ ending'[f] # "token"
        PROVE  Goal
    BY <1>0, <1>1 DEF Goal, HoldsNewest
  <1>2. ASSUME NEW q \in Requests, BeginRequest(q) PROVE Goal
    <2>1. /\ UNCHANGED <<cookie, signedIn, issued, granted, ending, flight>>
          /\ \A r \in Requests : phase[r] = "open" => phase'[r] = "open"
      BY <1>0, <1>2 DEF BeginRequest, flightVars, serverVars, TypeOK
    <2>2. QED
      BY <1>0, <2>1 DEF Goal, HoldsNewest, Running
  <1>3. ASSUME NEW q \in Requests, EndRequest(q) PROVE Goal
    <2>1. /\ UNCHANGED <<signedIn, issued, granted, ending, flight>> /\ phase[q] = "open"
          /\ \A r \in Requests \ {q} : phase'[r] = phase[r]
          /\ cookie' = IF signedIn[q] = None THEN cookie ELSE [cookie EXCEPT ![UserOf[q]] = signedIn[q]]
      BY <1>0, <1>3 DEF EndRequest, flightVars, serverVars, TypeOK
    <2>2. CASE Browser
      <3>1. UserOf[q] = u => signedIn[q] = None
        <4>1. SUFFICES ASSUME UserOf[q] = u, signedIn[q] # None PROVE FALSE
          OBVIOUS
        <4>2. signedIn[q].rt # None /\ issued[u] < signedIn[q].rt.gen
          BY <1>0, <2>1, <2>2, <4>1 DEF SoleInv, Sole, Older, HoldsNewest, RefreshTokens, TypeOK
        <4>3. signedIn[q].rt.gen <= issued[u]
          BY <4>1, <4>2 DEF SessionInv, OwnerInv, Owns
        <4>4. signedIn[q].rt.gen \in Nat /\ issued[u] \in Nat
          BY <1>0, <4>1, <4>2 DEF TypeOK, Sessions, RefreshTokens
        <4>5. QED
          BY <4>2, <4>3, <4>4
      <3>2. cookie'[u] = cookie[u]
        BY <1>0, <2>1, <3>1 DEF TypeOK
      <3>3. QED
        BY <2>1, <2>2, <3>2 DEF Goal, HoldsNewest
    <2>3. ASSUME NEW r \in Requests, phase[r] = "open", HoldsNewest(signedIn[r], u) PROVE Goal
      <3>1. CASE r = q
        <4>1. UserOf[q] = u
          BY <2>3, <3>1 DEF HoldsNewest, SessionInv, OwnerInv, Owns, RefreshTokens, TypeOK, SessionInv, TypeInv
        <4>2. QED
          BY <1>0, <2>1, <2>3, <3>1, <4>1 DEF Goal, HoldsNewest, TypeOK
      <3>2. CASE r # q
        BY <2>1, <2>3, <3>2 DEF Goal, HoldsNewest
      <3>3. QED
        BY <3>1, <3>2
    <2>4. ASSUME NEW f \in Calls, InFlight(f) PROVE Goal
      BY <2>1, <2>4 DEF Goal, Running
    <2>5. QED
      BY <1>0, <2>1, <2>2, <2>3, <2>4
  <1>4. ASSUME NEW g \in Calls, EndpointGrants(g) PROVE Goal
    <2>1. /\ UNCHANGED <<cookie, phase, signedIn, starter, ending>>
          /\ flight' = [flight EXCEPT ![g] = "granted"] /\ flight[g] = "sent"
          /\ issued' = [issued EXCEPT ![rt[g].user] = @ + 1]
          /\ granted' = [granted EXCEPT ![g] =
                [user |-> rt[g].user, params |-> params[g], n |-> issued[rt[g].user] + 1]]
      BY <1>4, Grants DEF sessionVars
    <2>2. rt[g].user \in Users /\ params[g] \in Params
      BY <2>1, FlightContext
    <2>3. CASE u = rt[g].user
      <3>1. granted'[g] = [user |-> u, params |-> params[g], n |-> issued[u] + 1] /\ issued'[u] = issued[u] + 1
            /\ issued[u] \in Nat /\ Running(g)'
        BY <1>0, <2>1, <2>3 DEF TypeOK, Running
      <3>2. granted'[g] \in Tokens
        BY <2>2, <2>3, <3>1 DEF Tokens
      <3>3. QED
        BY <3>1, <3>2 DEF Goal
    <2>4. CASE u # rt[g].user
      <3>1. issued'[u] = issued[u] /\ granted[g] = None
        BY <1>0, <2>1, <2>2, <2>4 DEF TypeOK, SessionInv, JoinInv
      <3>2. \A f \in Calls : granted[f] # None =>
                f # g /\ granted'[f] = granted[f] /\ flight'[f] = flight[f]
        BY <1>0, <2>1, <3>1 DEF TypeOK
      <3>3. QED
        BY <1>0, <2>1, <3>1, <3>2 DEF Goal, HoldsNewest, Running
    <2>5. QED
      BY <2>3, <2>4
  <1>5. ASSUME NEW g \in Calls, SignIn(g) PROVE Goal
    <2>1. /\ UNCHANGED <<cookie, phase, granted, issued>> /\ Storing(g)
          /\ flight' = [flight EXCEPT ![g] = "done"] /\ flight[g] = "refreshSet"
          /\ ending' = [ending EXCEPT ![g] = "token"]
          /\ signedIn' = [signedIn EXCEPT ![ContextOf(g)] = properties[ContextOf(g)]]
      BY <1>5, SignsIn DEF serverVars, Storing, WritingStates
    <2>2. PICK q \in Requests : /\ q = ContextOf(g) /\ phase[q] = "open" /\ UserOf[q] = rt[g].user
                                /\ properties[q] \in Sessions
      BY <2>1, FlightContext
    <2>3. properties[q].rt = [user |-> rt[g].user, gen |-> issued[rt[g].user]] /\ signedIn'[q] = properties[q]
      BY <1>0, <2>1, <2>2 DEF GrantInv, Newest, TypeOK
    <2>4. CASE u = rt[g].user
      BY <2>1, <2>2, <2>3, <2>4 DEF Goal, HoldsNewest
    <2>5. CASE u # rt[g].user
      <3>1. \A r \in Requests : HoldsNewest(signedIn[r], u) => r # q
        BY <2>2, <2>5 DEF HoldsNewest, SessionInv, TypeInv, TypeOK, OwnerInv, Owns, RefreshTokens
      <3>2. \A f \in Calls : granted[f] # None /\ granted[f].user = u => f # g
        BY <2>1, <2>5, FlightContext
      <3>3. QED
        BY <1>0, <2>1, <2>2, <3>1, <3>2 DEF Goal, HoldsNewest, Running, TypeOK
    <2>6. QED
      BY <2>4, <2>5
  <1>6. ASSUME NEW c \in Calls, GetOrAdd(c) \/ ReadValue(c) PROVE Goal
    <2>1. UNCHANGED <<sessionVars, serverVars, granted, ending>>
          /\ \A f \in Calls : Running(f) => Running(f)'
      BY <1>0, <1>6 DEF GetOrAdd, ReadValue, Running, TypeOK
    <2>2. QED
      BY <1>1, <2>1 DEF sessionVars, serverVars
  <1>7. ASSUME NEW f \in Calls, SetAccessToken(f) \/ SetRefreshToken(f) \/ AcquireLock(f) PROVE Goal
    <2>1. UNCHANGED <<cookie, signedIn, phase, issued, granted, ending>>
          /\ \A g \in Calls : Running(g) => Running(g)'
      BY <1>0, <1>7 DEF SetAccessToken, SetRefreshToken, AcquireLock, serverVars, Running, TypeOK
    <2>2. QED
      BY <1>1, <2>1
  <1>8. ASSUME NEW f \in Calls, EndpointRefuses(f) \/ ExchangeFails(f) \/ StoreThrows(f) PROVE Goal
    <2>1. /\ UNCHANGED <<cookie, signedIn, phase, issued, granted>>
          /\ flight' = [flight EXCEPT ![f] = "done"]
          /\ \E how \in {"failure", "exception"} : ending' = [ending EXCEPT ![f] = how]
      BY <1>8 DEF EndpointRefuses, ExchangeFails, StoreThrows, EndFlight, sessionVars, serverVars
    <2>2. QED
      BY <1>0, <1>1, <2>1 DEF Running, TypeOK
  <1>9. ASSUME UNCHANGED <<cookie, signedIn, phase, issued, granted, ending, flight>> PROVE Goal
    BY <1>1, <1>9 DEF Running
  <1>10. QED
    <2> USE DEF sessionVars, flightVars, serverVars
    <2>1. ASSUME NEW c \in Calls, CallStep(c) PROVE Goal
      BY <2>1, <1>6, <1>9 DEF CallStep, NoTokenFound, ReturnStoredToken, DecideToRefresh,
         NothingToRevoke, DecideToRevoke, RevokeRefreshToken, ReturnFlightResult
    <2>2. ASSUME NEW f \in Calls, FlightStep(f) PROVE Goal
      BY <2>2, <1>4, <1>5, <1>7, <1>8 DEF FlightStep
    <2>3. ASSUME NEW c \in Calls, Fault(c) PROVE Goal
      BY <2>3, <1>8, <1>9 DEF Fault, ReadCancelled
    <2>4. CASE UNCHANGED vars
      BY <2>4, <1>9 DEF vars
    <2>5. QED
      BY <1>2, <1>3, <2>1, <2>2, <2>3, <2>4, <1>9 DEF Next, TokensBecomeDue, StartCall

LEMMA NextRotationInv == SessionInv /\ RotationInv /\ [Next]_vars => RotationInv'
  BY NextSoleGrantInv, NextGrantInv, NextTornInv, NextSoleInv, NextNewest DEF RotationInv

\* Nobody sees a half-updated session: outside the lock, in a response and in
\* the browser, the refresh token is as new as the access tokens.
THEOREM SessionsAreWhole == Spec => []SessionIsNeverTorn
  <1>1. SessionInv /\ RotationInv => SessionIsNeverTorn
    BY DEF RotationInv, TornInv, Whole, SessionIsNeverTorn
  <1>2. QED
    BY <1>1, InitSessionInv, NextSessionInv, InitRotationInv, NextRotationInv, PTL DEF Spec

\* The only refresh token of a user that still works is not dropped: neither by
\* the response of another request, nor by the order in which requests end.
THEOREM NewestIsKept == Spec => []NewestRefreshTokenIsKept
  <1>1. RotationInv => NewestRefreshTokenIsKept
    BY DEF RotationInv
  <1>2. QED
    BY <1>1, InitSessionInv, NextSessionInv, InitRotationInv, NextRotationInv, PTL DEF Spec

\* The browser's cookie moves on to newer refresh tokens only: the token
\* management implements RefreshTokenRotation.
THEOREM RotationImplemented == Spec => ImplementsRotation
  <1> USE NoneAssumption, UserOfAssumption
  <1>1. Init => Rotation!Init
    <2> SUFFICES ASSUME Init, NEW u \in Users PROVE CookieGeneration[u] = 0
      BY DEF Init, Rotation!Init, CookieGeneration
    <2>1. cookie[u] \in LoginSessions(u) \cup {None}
      BY DEF Init
    <2>2. cookie[u] # None /\ cookie[u].rt # None => cookie[u].rt.gen = 0
      BY <2>1 DEF LoginSessions
    <2>3. QED
      BY <2>2 DEF CookieGeneration
  <1>2. SessionInv /\ RotationInv /\ [Next]_vars => [Rotation!Next]_<<issued, CookieGeneration>>
    <2> SUFFICES ASSUME SessionInv, RotationInv, [Next]_vars
                 PROVE  [Rotation!Next]_<<issued, CookieGeneration>>
      OBVIOUS
    <2>0. TypeOK
      BY DEF SessionInv, TypeInv
    <2>1. CASE UNCHANGED <<cookie, issued>>
      BY <2>1 DEF CookieGeneration
    <2>2. ASSUME NEW f \in Calls, EndpointGrants(f) PROVE Rotation!Next
      <3>1. cookie' = cookie /\ issued' = [issued EXCEPT ![rt[f].user] = @ + 1] /\ rt[f].user \in Users
        BY <2>2, Grants, FlightContext DEF sessionVars
      <3>2. Rotation!Issue(rt[f].user)
        BY <3>1 DEF Rotation!Issue, CookieGeneration
      <3>3. QED
        BY <3>1, <3>2 DEF Rotation!Next
    <2>3. ASSUME NEW r \in Requests, EndRequest(r)
          PROVE  Rotation!Adopt(UserOf[r]) \/ UNCHANGED <<issued, CookieGeneration>>
      <3> DEFINE u == UserOf[r]
                 g == signedIn[r].rt.gen
      <3>1. issued' = issued /\ phase[r] = "open"
            /\ cookie' = IF signedIn[r] = None THEN cookie ELSE [cookie EXCEPT ![u] = signedIn[r]]
        BY <2>3 DEF EndRequest, serverVars
      <3>2. CASE signedIn[r] = None
        BY <3>1, <3>2 DEF CookieGeneration
      <3>3. CASE signedIn[r] # None /\ ~OneTimeOnly
        <4>1. \A v \in Users : CookieGeneration[v] = 0
          BY <3>3 DEF CookieGeneration, SessionInv, OwnerInv, Owns
        <4>2. Owns(u, signedIn[r]) /\ u \in Users
          BY DEF SessionInv, OwnerInv
        <4>3. \A v \in Users : cookie'[v] # None /\ cookie'[v].rt # None => cookie'[v].rt.gen = 0
          BY <2>0, <3>1, <3>3, <4>2 DEF SessionInv, OwnerInv, Owns, TypeOK
        <4>4. \A v \in Users : CookieGeneration'[v] = 0
          BY <4>3 DEF CookieGeneration
        <4>5. QED
          BY <3>1, <4>1, <4>4 DEF CookieGeneration
      <3>4. CASE signedIn[r] # None /\ OneTimeOnly
        <4>1. /\ u \in Users /\ signedIn[r].rt # None /\ g \in Nat /\ g <= issued[u] /\ issued[u] \in Nat
              /\ Older(cookie[u], g)
          BY <2>0, <3>1, <3>4 DEF RotationInv, SoleInv, Sole, SessionInv, OwnerInv, Owns, TypeOK, Sessions, RefreshTokens
        <4>2. CookieGeneration[u] \in Nat
          BY <2>0, <4>1 DEF CookieGeneration, TypeOK, Sessions, RefreshTokens
        <4>3. CookieGeneration' = [CookieGeneration EXCEPT ![u] = g]
          BY <2>0, <3>1, <3>4, <4>1 DEF CookieGeneration, TypeOK
        <4>4. CookieGeneration[u] < g \/ (CookieGeneration[u] = 0 /\ g = 0)
          BY <4>1 DEF CookieGeneration, Older
        <4>5. CASE CookieGeneration[u] < g
          <5>1. g \in (CookieGeneration[u] + 1)..issued[u]
            BY <4>1, <4>2, <4>5
          <5> HIDE DEF g
          <5>2. QED
            BY <3>1, <4>3, <5>1 DEF Rotation!Adopt
        <4>6. CASE CookieGeneration[u] = 0 /\ g = 0
          BY <3>1, <4>3, <4>6 DEF CookieGeneration
        <4>7. QED
          BY <4>4, <4>5, <4>6
      <3>5. QED
        BY <3>2, <3>3, <3>4
    <2>4. ASSUME NEW r \in Requests, EndRequest(r) PROVE [Rotation!Next]_<<issued, CookieGeneration>>
      BY <2>3, <2>4 DEF Rotation!Next
    <2>5. QED
      <3> USE <2>1 DEF sessionVars, serverVars
      <3>1. CASE Aside
        BY <3>1 DEF Aside
      <3>2. ASSUME NEW f \in Calls, SetAccessToken(f) \/ SetRefreshToken(f) \/ SignIn(f)
            PROVE  UNCHANGED <<cookie, issued>>
        BY <3>2 DEF SetAccessToken, SetRefreshToken, SignIn
      <3>3. ASSUME NEW c \in Calls, DecideToRefresh(c) \/ DecideToRevoke(c) PROVE UNCHANGED <<cookie, issued>>
        BY <3>3 DEF DecideToRefresh, DecideToRevoke
      <3>4. ASSUME NEW r \in Requests, BeginRequest(r) PROVE UNCHANGED <<cookie, issued>>
        BY <3>4 DEF BeginRequest
      <3>5. QED
        BY <2>1, <2>2, <2>4, <3>1, <3>2, <3>3, <3>4, AsideSteps DEF Next, CallStep, FlightStep
  <1>3. QED
    BY <1>1, <1>2, InitSessionInv, NextSessionInv, InitRotationInv, NextRotationInv, PTL
       DEF Spec, ImplementsRotation, Rotation!Spec

-----------------------------------------------------------------------------
(* What is returned has been stored.                                       *)

LEMMA InitStoredInv == Init => StoredInv
  BY DEF Init, StoredInv, FreshInv, Fresh, CoverInv, EndingInv, Ended, ResultInv, Storing, WritingStates

\* Two flights of a user and for the same parameters do not store at once:
\* with rotation because only one is granted a token, without because they
\* carry the same refresh token and would be one flight.
LEMMA NoRival ==
  ASSUME SessionInv, DictionaryInv, SoleGrantInv, NEW f \in Calls, NEW g \in Calls,
         Storing(f), Storing(g), rt[f].user = rt[g].user, params[f] = params[g]
  PROVE  f = g
  <1>1. CASE OneTimeOnly
    BY <1>1 DEF SoleGrantInv
  <1>2. CASE ~OneTimeOnly
    <2>1. rt[f] \in RefreshTokens /\ rt[g] \in RefreshTokens
      BY FlightContext
    <2>2. rt[f].gen = 0 /\ rt[g].gen = 0
      BY <1>2, <2>1, NoneAssumption DEF SessionInv, OwnerInv
    <2>3. rt[f] = rt[g]
      BY <2>1, <2>2 DEF RefreshTokens
    <2>4. f \in dictionary /\ g \in dictionary
      BY DEF DictionaryInv, Storing, WritingStates, Running
    <2>5. QED
      BY <2>3, <2>4 DEF DictionaryInv, BuildRequestKey
  <1>3. QED
    BY <1>1, <1>2

LEMMA NextFreshInv ==
  ASSUME SessionInv, DictionaryInv, SoleGrantInv, FreshInv, [Next]_vars
  PROVE  FreshInv'
  <1> SUFFICES ASSUME NEW f \in Calls, Storing(f)' PROVE Fresh(f)'
    BY DEF FreshInv, Fresh
  <1> USE NoneAssumption
  <1>0. TypeOK /\ FlightInv /\ CallInv /\ (Storing(f) => Fresh(f))
    BY DEF SessionInv, TypeInv, FreshInv, Fresh
  <1>1. ASSUME Storing(f), UNCHANGED properties, params'[f] = params[f], granted'[f] = granted[f],
               starter'[f] = starter[f],
               flight[f] \in {"granted", "locked"} <=> flight'[f] \in {"granted", "locked"}
        PROVE  Fresh(f)'
    BY <1>0, <1>1 DEF Fresh, ContextOf
  <1>2. ASSUME NEW r \in Requests, BeginRequest(r) PROVE Fresh(f)'
    <2>1. /\ UNCHANGED <<params, granted, flight, starter>> /\ phase[r] = "new"
          /\ \A q \in Requests : phase[q] # "new" => properties'[q] = properties[q]
      BY <1>0, <1>2 DEF BeginRequest, callVars, flightVars, TypeOK
    <2>2. Storing(f)
      BY <2>1 DEF Storing
    <2>3. properties'[ContextOf(f)] = properties[ContextOf(f)]
      BY <2>1, <2>2, FlightContext
    <2>4. QED
      BY <1>0, <2>1, <2>2, <2>3 DEF Fresh, ContextOf
  <1>3. ASSUME NEW c \in Calls, NEW p \in Params, NEW m \in Modes, StartCall(c, p, m) PROVE Fresh(f)'
    <2>1. UNCHANGED <<properties, granted, flight, starter>> /\ params' = [params EXCEPT ![c] = p]
          /\ pc[c] = "idle"
      BY <1>3 DEF StartCall, sessionVars, flightVars
    <2>2. Storing(f) /\ f # c
      BY <1>0, <2>1 DEF Storing, WritingStates, FlightInv
    <2>3. QED
      BY <1>0, <1>1, <2>1, <2>2 DEF TypeOK
  <1>4. ASSUME NEW g \in Calls, EndpointGrants(g) PROVE Fresh(f)'
    <2>1. /\ UNCHANGED <<properties, params, starter>>
          /\ flight' = [flight EXCEPT ![g] = "granted"] /\ flight[g] = "sent"
          /\ granted' = [granted EXCEPT ![g] =
                [user |-> rt[g].user, params |-> params[g], n |-> issued[rt[g].user] + 1]]
      BY <1>4, Grants DEF sessionVars, callVars
    <2>2. CASE f = g
      <3>1. PICK r \in Requests, u \in Users, p \in Params :
              /\ r = ContextOf(f) /\ u = UserOf[r] /\ u = rt[f].user /\ p = params[f]
              /\ properties[r] \in Sessions
        BY <2>1, <2>2, FlightContext, UserOfAssumption
      <3>2. properties[r].at[p] # None => properties[r].at[p].n <= issued[u] /\ properties[r].at[p].n \in Nat
        <4>1. Owns(u, properties[r]) /\ properties[r] # None
          BY <3>1 DEF SessionInv, OwnerInv
        <4>2. properties[r].at[p] \in Tokens \cup {None}
          BY <3>1 DEF Sessions
        <4>3. QED
          BY <3>1, <4>1, <4>2 DEF Owns, Tokens
      <3>3. granted'[f].n = issued[u] + 1 /\ issued[u] \in Nat /\ flight'[f] = "granted"
        BY <1>0, <2>1, <2>2, <3>1 DEF TypeOK
      <3>4. QED
        BY <2>1, <3>1, <3>2, <3>3 DEF Fresh, ContextOf
    <2>3. CASE f # g
      BY <1>0, <1>1, <2>1, <2>3 DEF TypeOK, Storing
    <2>4. QED
      BY <2>2, <2>3
  <1>5. ASSUME NEW g \in Calls, SetAccessToken(g) PROVE Fresh(f)'
    <2>1. /\ UNCHANGED <<params, starter, granted>>
          /\ flight' = [flight EXCEPT ![g] = "tokenSet"] /\ flight[g] = "locked"
          /\ \A r \in Requests : r # ContextOf(g) => properties'[r] = properties[r]
          /\ \A p \in Params : properties'[ContextOf(g)].at[p] =
                IF p = params[g] THEN granted[g] ELSE properties[ContextOf(g)].at[p]
      BY <1>5, WritesAccessToken DEF callVars
    <2>2. Storing(f) /\ Storing(g)
      BY <1>0, <2>1 DEF Storing, WritingStates, TypeOK
    <2>3. params[f] \in Params /\ ContextOf(f) \in Requests /\ params[g] \in Params
      BY <2>2, FlightContext
    <2>4. CASE f = g
      BY <1>0, <2>1, <2>3, <2>4 DEF Fresh, ContextOf, TypeOK
    <2>5. CASE f # g
      <3>1. ContextOf(f) = ContextOf(g) => params[f] # params[g]
        BY <2>2, <2>5, NoRival, FlightContext
      <3>2. properties'[ContextOf(f)].at[params[f]] = properties[ContextOf(f)].at[params[f]]
        BY <2>1, <2>3, <3>1
      <3>3. flight'[f] = flight[f]
        BY <1>0, <2>1, <2>5 DEF TypeOK
      <3>4. QED
        BY <1>0, <2>1, <2>2, <3>2, <3>3 DEF Fresh, ContextOf
    <2>6. QED
      BY <2>4, <2>5
  <1>6. ASSUME NEW g \in Calls, SetRefreshToken(g) PROVE Fresh(f)'
    <2>1. /\ UNCHANGED <<params, starter, granted>>
          /\ flight' = [flight EXCEPT ![g] = "refreshSet"] /\ flight[g] = "tokenSet"
          /\ \A r \in Requests : properties[r] # None => properties'[r].at = properties[r].at
      BY <1>6, WritesRefreshToken DEF callVars
    <2>2. Storing(f) /\ (flight[f] \in {"granted", "locked"} <=> flight'[f] \in {"granted", "locked"})
      BY <1>0, <2>1 DEF Storing, WritingStates, TypeOK
    <2>3. ContextOf(f) \in Requests /\ properties[ContextOf(f)] # None
      BY <2>2, FlightContext
    <2>4. QED
      BY <1>0, <2>1, <2>2, <2>3 DEF Fresh, ContextOf
  \* The other steps of a flight.
  <1>7. ASSUME NEW g \in Calls, UNCHANGED <<properties, params, granted, starter>>,
               \/ flight' = [flight EXCEPT ![g] = "done"]
               \/ flight[g] = "granted" /\ flight' = [flight EXCEPT ![g] = "locked"]
               \/ flight[g] = "none" /\ flight' = [flight EXCEPT ![g] = "created"]
        PROVE  Fresh(f)'
    BY <1>0, <1>1, <1>7 DEF Storing, WritingStates, TypeOK
  <1>8. ASSUME NEW c \in Calls, ReadValue(c) PROVE Fresh(f)'
    <2>1. /\ UNCHANGED <<properties, params, granted>>
          /\ Storing(f) /\ flight'[f] = flight[f] /\ starter'[f] = starter[f]
      BY <1>0, <1>8 DEF ReadValue, sessionVars, Storing, WritingStates, TypeOK, CallInv
    <2>2. QED
      BY <1>1, <2>1
  <1>9. ASSUME UNCHANGED <<properties, params, flightVars>> PROVE Fresh(f)'
    BY <1>1, <1>9 DEF flightVars, Storing
  <1>10. ASSUME UNCHANGED <<properties, params, granted, starter, flight>> PROVE Fresh(f)'
    BY <1>1, <1>10 DEF Storing
  <1>11. QED
    <2> USE DEF sessionVars, callVars, flightVars
    <2>1. ASSUME NEW c \in Calls, GetOrAdd(c) PROVE Fresh(f)'
      <3>1. flight[c] = "none"
        BY <1>0, <2>1 DEF GetOrAdd, FlightInv
      <3>2. QED
        BY <2>1, <3>1, <1>7, <1>10 DEF GetOrAdd
    <2>2. ASSUME NEW c \in Calls, CallStep(c) PROVE Fresh(f)'
      BY <2>2, <2>1, <1>8, <1>10 DEF CallStep, NoTokenFound, ReturnStoredToken, DecideToRefresh,
         NothingToRevoke, DecideToRevoke, RevokeRefreshToken, ReturnFlightResult
    <2>3. ASSUME NEW g \in Calls, EndpointRefuses(g) \/ AcquireLock(g) \/ SignIn(g) PROVE Fresh(f)'
      BY <2>3, <1>7 DEF EndpointRefuses, AcquireLock, SignIn, EndFlight
    <2>4. ASSUME NEW c \in Calls, Fault(c) PROVE Fresh(f)'
      BY <2>4, <1>7, <1>10 DEF Fault, ReadCancelled, ExchangeFails, StoreThrows, EndFlight
    <2>5. CASE UNCHANGED vars
      BY <2>5, <1>10 DEF vars
    <2>6. ASSUME NEW r \in Requests, EndRequest(r) PROVE Fresh(f)'
      BY <2>6, <1>10 DEF EndRequest
    <2>7. ASSUME NEW u \in Users, TokensBecomeDue(u) PROVE Fresh(f)'
      BY <2>7, <1>10 DEF TokensBecomeDue
    <2>8. QED
      BY <1>2, <1>3, <1>4, <1>5, <1>6, <2>2, <2>3, <2>4, <2>5, <2>6, <2>7 DEF Next, FlightStep

LEMMA NextCoverInv ==
  ASSUME SessionInv, FreshInv, CoverInv, [Next]_vars
  PROVE  CoverInv'
  <1> SUFFICES ASSUME NEW r \in Requests, NEW p \in Params,
                      signedIn'[r] # None, signedIn'[r].at[p] # None
               PROVE  Covers(properties'[r], p, signedIn'[r].at[p].n)
    BY DEF CoverInv, Covers
  <1> USE NoneAssumption
  <1>0. TypeOK /\ (signedIn[r] # None /\ signedIn[r].at[p] # None =>
                        Covers(properties[r], p, signedIn[r].at[p].n))
    BY DEF SessionInv, TypeInv, CoverInv
  <1>1. ASSUME UNCHANGED <<properties, signedIn>> PROVE Covers(properties'[r], p, signedIn'[r].at[p].n)
    BY <1>0, <1>1
  <1>2. ASSUME NEW q \in Requests, BeginRequest(q) PROVE Covers(properties'[r], p, signedIn'[r].at[p].n)
    BY <1>0, <1>2 DEF BeginRequest, SessionInv, OpenInv, TypeOK
  <1>3. ASSUME NEW f \in Calls, SetAccessToken(f) PROVE Covers(properties'[r], p, signedIn'[r].at[p].n)
    <2>1. /\ signedIn' = signedIn /\ flight[f] = "locked"
          /\ r # ContextOf(f) => properties'[r] = properties[r]
          /\ properties[r] # None => properties'[r] # None
          /\ \A q \in Params : properties'[ContextOf(f)].at[q] =
                IF q = params[f] THEN granted[f] ELSE properties[ContextOf(f)].at[q]
      BY <1>3, WritesAccessToken
    <2>2. Covers(properties[r], p, signedIn[r].at[p].n)
      BY <1>0, <2>1
    <2>3. Storing(f)
      BY <2>1 DEF Storing, WritingStates
    <2>4. CASE r = ContextOf(f) /\ p = params[f]
      <3>1. granted[f] \in Tokens
        BY <2>3, FlightContext
      <3>2. properties[r] \in Sessions /\ signedIn[r] \in Sessions
        BY <1>0, <2>1, <2>2 DEF TypeOK, Covers
      <3>3. properties[r].at[p] \in Tokens /\ signedIn[r].at[p] \in Tokens
        BY <2>1, <2>2, <3>2 DEF Sessions, Covers
      <3>4. properties[r].at[p].n <= granted[f].n
        BY <2>1, <2>3, <2>4, <3>3 DEF FreshInv, Fresh
      <3>5. properties'[r] # None /\ properties'[r].at[p] = granted[f]
        BY <2>1, <2>2, <2>4 DEF Covers
      <3>6. signedIn[r].at[p].n <= granted[f].n
        BY <2>2, <3>1, <3>3, <3>4 DEF Covers, Tokens
      <3>7. granted[f] # None
        BY <3>1
      <3>8. QED
        BY <2>1, <3>1, <3>3, <3>5, <3>6, <3>7 DEF Covers, Tokens
    <2>5. CASE r = ContextOf(f) /\ p # params[f]
      BY <2>1, <2>2, <2>5 DEF Covers
    <2>6. QED
      BY <2>1, <2>2, <2>4, <2>5
  <1>4. ASSUME NEW f \in Calls, SetRefreshToken(f) PROVE Covers(properties'[r], p, signedIn'[r].at[p].n)
    BY <1>0, <1>4, WritesRefreshToken DEF Covers
  <1>5. ASSUME NEW f \in Calls, SignIn(f) PROVE Covers(properties'[r], p, signedIn'[r].at[p].n)
    <2>1. /\ properties' = properties
          /\ signedIn' = [signedIn EXCEPT ![ContextOf(f)] = properties[ContextOf(f)]]
      BY <1>5, SignsIn
    <2>2. CASE signedIn'[r] = signedIn[r]
      BY <1>0, <2>1, <2>2
    <2>3. CASE signedIn'[r] = properties[r]
      <3>1. properties[r] \in Sessions
        BY <1>0, <2>3 DEF TypeOK
      <3>2. properties[r].at[p] \in Tokens
        BY <2>3, <3>1 DEF Sessions
      <3>3. QED
        BY <2>1, <2>3, <3>2 DEF Covers, Tokens
    <2>4. QED
      BY <1>0, <2>1, <2>2, <2>3 DEF TypeOK
  <1>6. QED
    <2> USE DEF sessionVars
    <2>1. CASE Aside
      BY <2>1, <1>1 DEF Aside
    <2>2. ASSUME NEW c \in Calls,
                 DecideToRefresh(c) \/ DecideToRevoke(c) \/ EndpointGrants(c)
          PROVE  Covers(properties'[r], p, signedIn'[r].at[p].n)
      BY <2>2, <1>1 DEF DecideToRefresh, DecideToRevoke, EndpointGrants
    <2>3. ASSUME NEW q \in Requests, EndRequest(q) PROVE Covers(properties'[r], p, signedIn'[r].at[p].n)
      BY <2>3, <1>1 DEF EndRequest
    <2>4. QED
      BY <1>2, <1>3, <1>4, <1>5, <2>1, <2>2, <2>3, AsideSteps DEF Next, CallStep, FlightStep

LEMMA NextEndingInv ==
  ASSUME SessionInv, FreshInv, CoverInv, EndingInv, [Next]_vars
  PROVE  EndingInv'
  <1> SUFFICES ASSUME NEW f \in Calls, ending'[f] = "token" PROVE Ended(f)'
    BY DEF EndingInv, Ended
  <1> USE NoneAssumption, RequestOfAssumption
  <1>0. TypeOK /\ FlightInv /\ CallInv /\ (ending[f] = "token" => Ended(f))
    BY DEF SessionInv, TypeInv, EndingInv, Ended
  \* A flight that has ended stays as it is.
  <1>1. ASSUME ending'[f] = ending[f], UNCHANGED signedIn,
               flight[f] = "done" =>
                    /\ flight'[f] = "done" /\ params'[f] = params[f] /\ granted'[f] = granted[f]
                    /\ starter'[f] = starter[f]
        PROVE  Ended(f)'
    BY <1>0, <1>1 DEF Ended, ContextOf
  <1>2. ASSUME NEW g \in Calls, SignIn(g) PROVE Ended(f)'
    <2>1. /\ UNCHANGED <<params, starter, granted, properties>>
          /\ flight' = [flight EXCEPT ![g] = "done"] /\ flight[g] = "refreshSet"
          /\ ending' = [ending EXCEPT ![g] = "token"]
          /\ signedIn' = [signedIn EXCEPT ![ContextOf(g)] = properties[ContextOf(g)]]
      BY <1>2, SignsIn DEF callVars
    <2>2. Storing(g)
      BY <2>1 DEF Storing, WritingStates
    <2>3. PICK q \in Requests, p \in Params, t \in Tokens :
              /\ q = ContextOf(g) /\ p = params[g] /\ t = granted[g]
              /\ properties[q] \in Sessions /\ starter[g] \in Calls
      BY <2>2, FlightContext
    <2>4. signedIn'[q] = properties[q] /\ \A r \in Requests \ {q} : signedIn'[r] = signedIn[r]
      BY <1>0, <2>1, <2>3 DEF TypeOK
    <2>5. CASE f = g
      <3>1. properties[q].at[p] = t
        BY <2>1, <2>2, <2>3 DEF FreshInv, Fresh
      <3>2. flight'[f] = "done"
        BY <1>0, <2>1, <2>5 DEF TypeOK
      <3>3. properties[q] # None /\ t # None /\ starter[g] # None /\ t.n >= t.n
        BY <2>3 DEF Tokens
      <3>4. QED
        BY <2>1, <2>3, <2>4, <2>5, <3>1, <3>2, <3>3 DEF Ended, Covers, ContextOf
    <2>6. CASE f # g
      <3>1. ending[f] = "token" /\ Ended(f) /\ flight'[f] = "done"
        BY <1>0, <2>1, <2>6 DEF TypeOK, Ended
      <3>2. CASE ContextOf(f) # q
        <4>1. ContextOf(f) \in Requests
          BY <1>0, <3>1 DEF ContextOf, Ended, TypeOK
        <4>2. QED
          BY <2>1, <2>4, <3>1, <3>2, <4>1 DEF Ended, ContextOf
      <3>3. CASE ContextOf(f) = q
        <4> DEFINE pf == params[f]
        <4>1. pf \in Params /\ granted[f] \in Tokens
          BY <1>0, <3>1 DEF FlightInv, TypeOK, Ended
        <4>2. Covers(signedIn[q], pf, granted[f].n)
          BY <3>1, <3>3 DEF Ended
        <4>3. Covers(properties[q], pf, signedIn[q].at[pf].n)
          BY <4>1, <4>2 DEF CoverInv, Covers
        <4>4. properties[q].at[pf] \in Tokens /\ signedIn[q].at[pf] \in Tokens
          BY <1>0, <4>1, <4>2, <4>3 DEF TypeOK, Sessions, Covers
        <4>5. Covers(properties[q], pf, granted[f].n)
          BY <4>1, <4>2, <4>3, <4>4 DEF Covers, Tokens
        <4>6. QED
          BY <2>1, <2>4, <3>1, <3>3, <4>5 DEF Ended, ContextOf
      <3>4. QED
        BY <3>2, <3>3
    <2>7. QED
      BY <2>5, <2>6
  \* A flight that ends without a token.
  <1>3. ASSUME NEW g \in Calls, EndpointRefuses(g) \/ ExchangeFails(g) \/ StoreThrows(g) PROVE Ended(f)'
    <2>1. /\ UNCHANGED <<params, starter, granted, signedIn>>
          /\ flight' = [flight EXCEPT ![g] = "done"]
          /\ \E how \in {"failure", "exception"} : ending' = [ending EXCEPT ![g] = how]
      BY <1>3 DEF EndpointRefuses, ExchangeFails, StoreThrows, EndFlight, sessionVars, callVars
    <2>2. f # g
      BY <1>0, <2>1 DEF TypeOK
    <2>3. QED
      BY <1>0, <1>1, <2>1, <2>2 DEF TypeOK
  <1>4. ASSUME NEW c \in Calls, NEW p \in Params, NEW m \in Modes, StartCall(c, p, m) PROVE Ended(f)'
    <2>1. UNCHANGED <<signedIn, starter, granted, flight, ending>> /\ params' = [params EXCEPT ![c] = p]
          /\ flight[c] = "none"
      BY <1>0, <1>4 DEF StartCall, sessionVars, flightVars, FlightInv
    <2>2. QED
      BY <1>0, <1>1, <2>1 DEF TypeOK
  <1>5. ASSUME NEW c \in Calls, GetOrAdd(c) PROVE Ended(f)'
    <2>1. flight[c] = "none"
      BY <1>0, <1>5 DEF GetOrAdd, FlightInv
    <2>2. QED
      BY <1>0, <1>1, <1>5, <2>1 DEF GetOrAdd, sessionVars, TypeOK
  <1>6. ASSUME NEW c \in Calls, ReadValue(c) PROVE Ended(f)'
    BY <1>0, <1>1, <1>6 DEF ReadValue, sessionVars, TypeOK, CallInv
  <1>7. ASSUME NEW g \in Calls, EndpointGrants(g) PROVE Ended(f)'
    BY <1>0, <1>1, <1>7 DEF EndpointGrants, sessionVars, callVars, TypeOK
  <1>8. ASSUME NEW g \in Calls, AcquireLock(g) \/ SetAccessToken(g) \/ SetRefreshToken(g) PROVE Ended(f)'
    BY <1>0, <1>1, <1>8 DEF AcquireLock, SetAccessToken, SetRefreshToken, callVars, TypeOK
  <1>9. ASSUME UNCHANGED <<signedIn, params, granted, starter, flight, ending>> PROVE Ended(f)'
    BY <1>1, <1>9
  <1>10. QED
    <2> USE DEF sessionVars, callVars, flightVars
    <2>1. ASSUME NEW c \in Calls, CallStep(c) PROVE Ended(f)'
      BY <2>1, <1>5, <1>6, <1>9 DEF CallStep, NoTokenFound, ReturnStoredToken, DecideToRefresh,
         NothingToRevoke, DecideToRevoke, RevokeRefreshToken, ReturnFlightResult
    <2>2. ASSUME NEW g \in Calls, FlightStep(g) PROVE Ended(f)'
      BY <2>2, <1>2, <1>3, <1>7, <1>8 DEF FlightStep
    <2>3. ASSUME NEW c \in Calls, Fault(c) PROVE Ended(f)'
      BY <2>3, <1>3, <1>9 DEF Fault, ReadCancelled
    <2>4. CASE UNCHANGED vars
      BY <2>4, <1>9 DEF vars
    <2>5. ASSUME NEW r \in Requests, BeginRequest(r) \/ EndRequest(r) PROVE Ended(f)'
      BY <2>5, <1>9 DEF BeginRequest, EndRequest
    <2>6. ASSUME NEW u \in Users, TokensBecomeDue(u) PROVE Ended(f)'
      BY <2>6, <1>9 DEF TokensBecomeDue
    <2>7. QED
      BY <1>4, <2>1, <2>2, <2>3, <2>4, <2>5, <2>6 DEF Next

LEMMA NextResultInv ==
  ASSUME SessionInv, EndingInv, ResultInv, [Next]_vars
  PROVE  ResultInv'
  <1> USE NoneAssumption DEF ResultInv
  <1>0. TypeOK /\ CallInv /\ FlightInv
    BY DEF SessionInv, TypeInv
  <1>1. \A c \in Calls : outcome[c] = "token" /\ joined[c] # None =>
            joined[c] \in Calls /\ flight[joined[c]] = "done"
    BY <1>0 DEF TypeOK, EndingInv, Ended
  \* Steps of a flight: a flight that has ended stays as it is.
  <1>2. ASSUME UNCHANGED <<pc, outcome, result, joined>>,
               \A f \in Calls : flight[f] = "done" => ending'[f] = ending[f] /\ granted'[f] = granted[f]
        PROVE  ResultInv'
    BY <1>1, <1>2
  \* Steps of a call that has not returned.
  <1>3. ASSUME NEW c \in Calls, pc[c] # "done", UNCHANGED <<outcome, result, ending, granted>>,
               \A d \in Calls \ {c} : pc'[d] = pc[d] /\ joined'[d] = joined[d]
        PROVE  ResultInv'
    <2>1. outcome[c] = "pending"
      BY <1>3
    <2>2. QED
      BY <1>3, <2>1
  \* A call returns without having joined a flight.
  <1>4. ASSUME NEW c \in Calls, pc[c] \in {"reading", "revoking"}, UNCHANGED <<joined, ending, granted>>,
               \E how \in {"token", "failure", "exception", "completed"}, t \in Tokens \cup {None} : Return(c, how, t)
        PROVE  ResultInv'
    <2>1. joined[c] = None
      BY <1>4 DEF SessionInv, JoinInv
    <2>2. \A d \in Calls \ {c} : pc'[d] = pc[d] /\ outcome'[d] = outcome[d] /\ result'[d] = result[d]
      BY <1>0, <1>4 DEF Return, TypeOK
    <2>3. pc'[c] = "done"
      BY <1>0, <1>4 DEF Return, TypeOK
    <2>4. QED
      BY <1>4, <2>1, <2>2, <2>3
  <1>5. ASSUME NEW c \in Calls, ReturnFlightResult(c) PROVE ResultInv'
    <2>1. /\ pc[c] = "waiting" /\ UNCHANGED <<joined, ending, granted>>
          /\ Return(c, ending[joined[c]], IF ending[joined[c]] = "token" THEN granted[joined[c]] ELSE None)
      BY <1>5 DEF ReturnFlightResult
    <2>2. /\ pc'[c] = "done" /\ outcome'[c] = ending[joined[c]]
          /\ outcome'[c] = "token" => result'[c] = granted[joined[c]]
      BY <1>0, <2>1 DEF Return, TypeOK
    <2>3. \A d \in Calls \ {c} : pc'[d] = pc[d] /\ outcome'[d] = outcome[d] /\ result'[d] = result[d]
      BY <1>0, <2>1 DEF Return, TypeOK
    <2>4. QED
      BY <2>1, <2>2, <2>3
  <1>6. QED
    <2> HIDE DEF ResultInv
    <2> USE DEF callVars, flightVars
    <2>1. ASSUME NEW c \in Calls, CallStep(c) PROVE ResultInv'
      <3>1. CASE NoTokenFound(c) \/ NothingToRevoke(c) \/ RevokeRefreshToken(c)
        BY <3>1, <1>4 DEF NoTokenFound, NothingToRevoke, RevokeRefreshToken, MayRead
      <3>2. CASE ReturnStoredToken(c)
        <4>1. StoredToken(c) \in Tokens /\ pc[c] = "reading"
          BY <1>0, <3>2, RequestOfAssumption
             DEF ReturnStoredToken, MayRead, HasSession, StoredToken, TypeOK, CallInv, Sessions
        <4>2. QED
          BY <3>2, <4>1, <1>4 DEF ReturnStoredToken
      <3>3. CASE DecideToRefresh(c) \/ DecideToRevoke(c)
        BY <3>3, <1>0, <1>3 DEF DecideToRefresh, DecideToRevoke, MayRead, TypeOK
      <3>4. CASE GetOrAdd(c)
        BY <3>4, <1>0, <1>3 DEF GetOrAdd, TypeOK
      <3>5. CASE ReadValue(c)
        BY <3>5, <1>0, <1>3 DEF ReadValue, TypeOK
      <3>6. QED
        BY <2>1, <3>1, <3>2, <3>3, <3>4, <3>5, <1>5 DEF CallStep
    <2>2. ASSUME NEW f \in Calls, FlightStep(f) PROVE ResultInv'
      <3>1. CASE EndpointGrants(f) \/ EndpointRefuses(f)
        BY <3>1, <1>0, <1>2 DEF EndpointGrants, EndpointRefuses, EndFlight, TypeOK
      <3>2. CASE AcquireLock(f) \/ SetAccessToken(f) \/ SetRefreshToken(f)
        BY <3>2, <1>2 DEF AcquireLock, SetAccessToken, SetRefreshToken
      <3>3. CASE SignIn(f)
        BY <3>3, <1>0, <1>2 DEF SignIn, EndFlight, TypeOK
      <3>4. QED
        BY <2>2, <3>1, <3>2, <3>3 DEF FlightStep
    <2>3. ASSUME NEW c \in Calls, Fault(c) PROVE ResultInv'
      <3>1. CASE ReadCancelled(c)
        BY <3>1, <1>4 DEF ReadCancelled
      <3>2. CASE ExchangeFails(c) \/ StoreThrows(c)
        BY <3>2, <1>0, <1>2 DEF ExchangeFails, StoreThrows, EndFlight, WritingStates, TypeOK
      <3>3. QED
        BY <2>3, <3>1, <3>2 DEF Fault
    <2>4. CASE UNCHANGED vars
      BY <2>4, <1>2 DEF vars
    <2>5. ASSUME NEW r \in Requests, BeginRequest(r) \/ EndRequest(r) PROVE ResultInv'
      BY <2>5, <1>2 DEF BeginRequest, EndRequest
    <2>6. ASSUME NEW u \in Users, TokensBecomeDue(u) PROVE ResultInv'
      BY <2>6, <1>2 DEF TokensBecomeDue
    <2>7. ASSUME NEW c \in Calls, NEW p \in Params, NEW m \in Modes, StartCall(c, p, m) PROVE ResultInv'
      BY <2>7, <1>0, <1>3 DEF StartCall, TypeOK
    <2>8. QED
      BY <2>1, <2>2, <2>3, <2>4, <2>5, <2>6, <2>7 DEF Next

AllInv == SessionInv /\ DictionaryInv /\ RotationInv /\ StoredInv

LEMMA NextAllInv == AllInv /\ [Next]_vars => AllInv'
  BY NextSessionInv, NextDictionaryInv, NextRotationInv, NextFreshInv, NextCoverInv, NextEndingInv,
     NextResultInv DEF AllInv, SessionInv, RotationInv, StoredInv

\* A refreshed token is only handed out when the session of the request that
\* ran the refresh was signed in with it, or with a newer one, and only to a
\* caller of its user who asked with its parameters.
THEOREM ReturnsStoredTokens == Spec => []ReturnedTokenIsStored
  <1>1. AllInv => ReturnedTokenIsStored
    <2> SUFFICES ASSUME AllInv, NEW c \in Calls, outcome[c] = "token", joined[c] # None
                 PROVE  /\ Covers(signedIn[ContextOf(joined[c])], params[c], result[c].n)
                        /\ result[c].user = UserOfCall(c) /\ result[c].params = params[c]
      BY DEF ReturnedTokenIsStored, Covers
    <2> DEFINE f == joined[c]
    <2>0. TypeOK
      BY DEF AllInv, SessionInv, TypeInv
    <2>1. f \in Calls /\ ending[f] = "token" /\ result[c] = granted[f]
      BY <2>0 DEF AllInv, StoredInv, ResultInv, TypeOK
    <2>2. granted[f] # None /\ Covers(signedIn[ContextOf(f)], params[f], granted[f].n) /\ flight[f] = "done"
      BY <2>1 DEF AllInv, StoredInv, EndingInv, Ended
    <2>3. rt[f] = rt[c] /\ params[f] = params[c] /\ rt[f] \in RefreshTokens
      BY <2>1, <2>2 DEF AllInv, SessionInv, JoinInv, BuildRequestKey, TypeInv, FlightInv
    <2>4. granted[f].user = rt[f].user /\ granted[f].params = params[f]
      BY <2>1, <2>2 DEF AllInv, SessionInv, OwnerInv
    <2>5. rt[c].user = UserOfCall(c)
      BY <2>3, NoneAssumption DEF AllInv, SessionInv, OwnerInv
    <2>6. QED
      BY <2>1, <2>2, <2>3, <2>4, <2>5
  <1>2. Init => AllInv
    BY InitSessionInv, InitDictionaryInv, InitRotationInv, InitStoredInv DEF AllInv
  <1>3. QED
    BY <1>1, <1>2, NextAllInv, PTL DEF Spec
=============================================================================
