------------------------------ MODULE MCOidcClient ------------------------------
(* The parts of the OIDC client that keep state between calls, for TLC: the    *)
(* RefreshTokenDelegatingHandler and its events (part "handler"), OidcClient   *)
(* itself with a document loaded at every step or once (part "login"), and     *)
(* the ProofTokenMessageHandler (part "proof").  They share no state; a        *)
(* behavior is one of one of them, and the variables of the others stay as     *)
(* they are.  Requests do not differ, nor do logins: they are numbered and     *)
(* begin in that order.                                                        *)
EXTENDS TokenRefreshedEvents, Sequences, FiniteSets

CONSTANTS Logins, Users, MaxKeys, MaxFaults, ProofRequests, MaxNonce

ASSUME BoundsAssumption == MaxKeys \in Nat \ {0} /\ MaxFaults \in Nat /\ MaxNonce \in Nat

VARIABLES part, options, providerInformation, flow, codes, keys, faults,
          current, nonce, proofPc, factory, sent, responses, alone, undisturbed

Login == INSTANCE OidcLogin
Proof == INSTANCE ProofTokenMessageHandler WITH Requests <- ProofRequests, pc <- proofPc

\* None stands for what is missing: it is none of what may be there.
ASSUME NoneIsNoValue ==
    /\ None \notin Logins /\ None \notin Login!Results /\ None \notin Login!Documents
    /\ None \notin Login!Responses /\ None \notin Login!Codes
    /\ None \notin Login!Tokens /\ None \notin Login!IdentityTokens

loginVars == <<options, providerInformation, flow, codes, keys, faults>>
proofVars == <<current, nonce, proofPc, factory, sent, responses, alone, undisturbed>>
handlerVars == <<vars, eventVars>>
allVars == <<part, handlerVars, loginVars, proofVars>>

MCInit ==
    /\ part \in {"handler", "login", "proof"}
    /\ EventInit /\ Init /\ (part # "handler" => accessToken = 0)
    /\ Login!Init
    /\ options.LoadProfile
    /\ options.RefreshDiscoveryDocumentForLogin # options.RequireIdentityTokenOnRefreshTokenResponse
    /\ part # "login" => options.RefreshDiscoveryDocumentForLogin
    /\ Proof!Init /\ (part # "proof" => current = 0 /\ \A r \in ProofRequests : factory[r] = "kept")

InOrder(label) ==
    \A c \in DOMAIN label : label[c] = "idle" /\ label'[c] # "idle" => \A b \in 1..(c - 1) : label[b] # "idle"

LoginsInOrder ==
    \A c \in Logins : flow[c].pc = "idle" /\ flow'[c].pc # "idle" => \A b \in 1..(c - 1) : flow[b].pc # "idle"

\* One of the logins goes on to a refresh.
OneRefreshes == \A l, m \in Logins : flow'[l].refreshing /\ flow'[m].refreshing => l = m

MCNext ==
    /\ \/ part = "handler" /\ EventNext /\ InOrder(pc) /\ UNCHANGED <<loginVars, proofVars>>
       \/ part = "login" /\ Login!Next /\ LoginsInOrder /\ OneRefreshes /\ UNCHANGED <<handlerVars, proofVars>>
       \/ part = "proof" /\ Proof!Next /\ InOrder(proofPc) /\ UNCHANGED <<handlerVars, loginVars>>
    /\ UNCHANGED part

\* A wait for the semaphore ends, with it or by its timeout, servers answer or
\* time out, and the browser comes back in the end, if only by its timeout.
MCFairness ==
    /\ \A r \in Requests :
        WF_allVars(part = "handler" /\ EventRequestStep(r) /\ UNCHANGED <<part, loginVars, proofVars>>)
    /\ \A l \in Logins :
        WF_allVars(part = "login" /\ Login!Step(l) /\ UNCHANGED <<part, options, handlerVars, proofVars>>)

MCSpec == MCInit /\ [][MCNext]_allVars /\ MCFairness

-----------------------------------------------------------------------------
(* Properties of the other parts.                                          *)

\* However responses are paired with pending logins, a code is sent only by
\* the login it was issued for, and a login that succeeds has the tokens of
\* the user who signed in at its own browser: the subject of its identity
\* token, whose at_hash binds the access token and whose key some document had
\* published, is that of its userinfo claims.
LoginsAreNotMixed == Login!LoginsAreNotMixed

\* With a document loaded for every step, a refresh costs the application its
\* session, the provider having replaced the refresh token it still holds, only
\* if a request failed, the provider left out a required identity token, or
\* another call brought back old keys.
SessionsSurviveRotation == Login!SessionsSurviveRotation

\* Every request that is sent through the refresh token handler ends, and every
\* login and every refresh, also when its keys are never found.
EveryCallEnds == EveryRequestEnds /\ Login!EveryLoginEnds

\* A request that has the proof handler to itself is sent again when it is
\* refused for its nonce, with a fresh assertion, and accepted then if the
\* server has kept its nonce, whatever earlier requests have left in _nonce.
SoleRefusalsAreOvercome == Proof!SoleRefusalsAreOvercome
=================================================================================
