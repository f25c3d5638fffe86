------------------------------- MODULE OidcLogin -------------------------------
(***************************************************************************)
(* OidcClient: several code flow logins of one client, each followed by at  *)
(* most one refresh.  They share Options.ProviderInformation, which every   *)
(* one of them may load again at each of its steps, without a lock.         *)
(*                                                                          *)
(* A login stands for its own AuthorizeState: state value, code challenge   *)
(* and code verifier of login l are all l, and so is the code issued for    *)
(* it.  The provider signs with its newest key and publishes all of them,   *)
(* so a document with n keys verifies the signatures of keys 1..n.          *)
(***************************************************************************)
EXTENDS Naturals

CONSTANTS
    Logins,
    Users,
    MaxKeys,      \* bound of the model: how many keys the provider ever uses
    MaxFaults,    \* bound of the model: failures of the network and the provider
    None

VARIABLES
    options,              \* Options, which the application sets before
    providerInformation,  \* Options.ProviderInformation
    flow,                 \* flow[l]: the calls made for login l
    codes,                \* codes[l]: the code the provider issued for l
    keys,                 \* the number of keys the provider has published
    faults                \* failures so far

vars == <<options, providerInformation, flow, codes, keys, faults>>

Options == [RefreshDiscoveryDocumentForLogin : BOOLEAN, LoadProfile : BOOLEAN,
            RequireIdentityTokenOnRefreshTokenResponse : BOOLEAN]
\* complete: the document has a token endpoint.
Documents == [keys : 1..MaxKeys, complete : BOOLEAN]
Codes == [user : Users, redeemed : BOOLEAN]
\* A response without a code is an error response.
Responses == [code : Logins \cup {None}, state : Logins]
\* vouched: at_hash is the hash of the access token that came with it.
IdentityTokens == [user : Users, key : 1..MaxKeys, vouched : BOOLEAN]
Tokens == [subject : Users, identity : IdentityTokens \cup {None}]
Results == {"success", "error", "invalid state", "invalid signature", "exception"}
States == {"idle", "ensure", "loading", "loaded", "authorize", "browser", "check", "redeem",
           "refresh", "validate", "profile", "done"}

\* next: what follows EnsureConfigurationAsync.  loaded: the document this
\* login loaded last.  spent: the provider has replaced the refresh token the
\* application holds.
Flows == [pc : States, next : States, loaded : Documents \cup {None},
          response : Responses \cup {None}, tokens : Tokens \cup {None},
          retried : BOOLEAN, profile : Users \cup {None}, refreshing : BOOLEAN,
          spent : BOOLEAN, result : Results \cup {None}]

TypeOK ==
    /\ options \in Options
    /\ providerInformation \in Documents \cup {None}
    /\ flow \in [Logins -> Flows]
    /\ codes \in [Logins -> Codes \cup {None}]
    /\ keys \in 1..MaxKeys
    /\ faults \in 0..MaxFaults

Init ==
    /\ options \in Options
    /\ providerInformation = None
    /\ flow = [l \in Logins |->
                [pc |-> "idle", next |-> "idle", loaded |-> None, response |-> None, tokens |-> None,
                 retried |-> FALSE, profile |-> None, refreshing |-> FALSE, spent |-> FALSE,
                 result |-> None]]
    /\ codes = [l \in Logins |-> None]
    /\ keys = 1
    /\ faults = 0

At(l, label) == flow[l].pc = label
Set(l, new) == flow' = [flow EXCEPT ![l] = new]
Goto(f, label) == [f EXCEPT !.pc = label]
EnsureThen(f, label) == [f EXCEPT !.pc = "ensure", !.next = label]
End(f, result) == [f EXCEPT !.pc = "done", !.result = result]
Fault == faults < MaxFaults /\ faults' = faults + 1

---------------------------------------------------------------------------
(* EnsureProviderInformationAsync. *)

SkipsReload == ~options.RefreshDiscoveryDocumentForLogin /\ providerInformation # None

SkipDiscovery(l) ==
    /\ At(l, "ensure") /\ SkipsReload
    /\ Set(l, Goto(flow[l], flow[l].next))
    /\ UNCHANGED <<providerInformation, codes, keys, faults>>

RequestDiscoveryDocument(l) ==
    /\ At(l, "ensure") /\ ~SkipsReload
    /\ Set(l, Goto(flow[l], "loading"))
    /\ UNCHANGED <<providerInformation, codes, keys, faults>>

\* The provider answers with what it publishes now.
AnswerDiscovery(l) ==
    /\ At(l, "loading")
    /\ \E complete \in BOOLEAN :
         /\ IF complete THEN UNCHANGED faults ELSE Fault
         /\ Set(l, [flow[l] EXCEPT !.pc = "loaded", !.loaded = [keys |-> keys, complete |-> complete]])
    /\ UNCHANGED <<providerInformation, codes, keys>>

\* disco.IsError: an InvalidOperationException.
FailDiscovery(l) ==
    /\ At(l, "loading")
    /\ Fault
    /\ Set(l, End(flow[l], "exception"))
    /\ UNCHANGED <<providerInformation, codes, keys>>

\* The document is stored, and only then looked at.
StoreDocument(l) ==
    /\ At(l, "loaded")
    /\ providerInformation' = flow[l].loaded
    /\ Set(l, IF flow[l].loaded.complete THEN Goto(flow[l], flow[l].next) ELSE End(flow[l], "exception"))
    /\ UNCHANGED <<codes, keys, faults>>

---------------------------------------------------------------------------
(* The front channel. *)

\* LoginAsync and PrepareLoginAsync
Login(l) ==
    /\ At(l, "idle")
    /\ Set(l, EnsureThen(flow[l], "authorize"))
    /\ UNCHANGED <<providerInformation, codes, keys, faults>>

\* CreateAuthorizeStateAsync, which may push the parameters to the provider.
CreateAuthorizeState(l) ==
    /\ At(l, "authorize")
    /\ \/ Set(l, Goto(flow[l], "browser")) /\ UNCHANGED faults
       \/ Fault /\ Set(l, End(flow[l], "error"))
    /\ UNCHANGED <<providerInformation, codes, keys>>

SignIn(l, u) ==
    /\ At(l, "browser") /\ codes[l] = None
    /\ codes' = [codes EXCEPT ![l] = [user |-> u, redeemed |-> FALSE]]
    /\ UNCHANGED <<providerInformation, flow, keys, faults>>

\* The application hands a response to ProcessResponseAsync: the one of this
\* login or, when it has several pending, the one of another.
ReceiveResponse(l, m) ==
    /\ At(l, "browser") /\ codes[m] # None
    /\ Set(l, EnsureThen([flow[l] EXCEPT !.response = [code |-> m, state |-> m]], "check"))
    /\ UNCHANGED <<providerInformation, codes, keys, faults>>

ReceiveDenial(l) ==
    /\ At(l, "browser") /\ codes[l] = None
    /\ Set(l, EnsureThen([flow[l] EXCEPT !.response = [code |-> None, state |-> l]], "check"))
    /\ UNCHANGED <<providerInformation, codes, keys, faults>>

\* The browser was closed or timed out.
LeaveBrowser(l) ==
    /\ At(l, "browser")
    /\ Set(l, End(flow[l], "error"))
    /\ UNCHANGED <<providerInformation, codes, keys, faults>>

\* Mutant: the state of the response is not compared.
CheckCode(l) ==
    /\ At(l, "check")
    /\ Set(l, IF flow[l].response.code = None THEN End(flow[l], "error") ELSE Goto(flow[l], "redeem"))
    /\ UNCHANGED <<providerInformation, codes, keys, faults>>

CheckResponse(l) ==
    /\ At(l, "check")
    /\ Set(l, IF flow[l].response.code = None THEN End(flow[l], "error")
              ELSE IF flow[l].response.state # l THEN End(flow[l], "invalid state")
              ELSE Goto(flow[l], "redeem"))
    /\ UNCHANGED <<providerInformation, codes, keys, faults>>

---------------------------------------------------------------------------
(* The back channel. *)

\* The identity tokens the provider may send: none when the openid scope was
\* not requested.
IdentityTokensOf(u, vouched) == {None, [user |-> u, key |-> keys, vouched |-> vouched]}

\* RedeemCodeAsync sends the code with the verifier of this login.
Redeemable(l) ==
    LET code == codes[flow[l].response.code]
    IN  providerInformation.complete /\ flow[l].response.code = l /\ ~code.redeemed

RedeemCode(l) ==
    /\ At(l, "redeem") /\ Redeemable(l)
    /\ codes' = [codes EXCEPT ![l].redeemed = TRUE]
    /\ \E vouched \in BOOLEAN :
         /\ IF vouched THEN UNCHANGED faults ELSE Fault
         /\ \E identity \in IdentityTokensOf(codes[l].user, vouched) :
              Set(l, [flow[l] EXCEPT !.pc = "validate", !.retried = FALSE,
                                     !.tokens = [subject |-> codes[l].user, identity |-> identity]])
    /\ UNCHANGED <<providerInformation, keys>>

\* The provider refuses the code.
FailRedeem(l) ==
    /\ At(l, "redeem") /\ ~Redeemable(l)
    /\ Set(l, End(flow[l], "error"))
    /\ UNCHANGED <<providerInformation, codes, keys, faults>>

\* The answer is lost, whether the provider has redeemed the code or not.
LoseRedeem(l) ==
    /\ At(l, "redeem") /\ Redeemable(l)
    /\ Fault
    /\ codes' \in {codes, [codes EXCEPT ![l].redeemed = TRUE]}
    /\ Set(l, End(flow[l], "error"))
    /\ UNCHANGED <<providerInformation, keys>>

\* RefreshTokenAsync, called with the refresh token of a login that succeeded.
StartRefresh(l) ==
    /\ At(l, "done") /\ flow[l].result = "success" /\ ~flow[l].refreshing
    /\ Set(l, EnsureThen([flow[l] EXCEPT !.refreshing = TRUE, !.retried = FALSE, !.result = None], "refresh"))
    /\ UNCHANGED <<providerInformation, codes, keys, faults>>

\* The provider replaces the refresh token.
RefreshToken(l) ==
    /\ At(l, "refresh") /\ providerInformation.complete
    /\ \E identity \in IdentityTokensOf(flow[l].tokens.subject, TRUE) :
         Set(l, [flow[l] EXCEPT !.pc = "validate", !.spent = TRUE, !.tokens.identity = identity])
    /\ UNCHANGED <<providerInformation, codes, keys, faults>>

FailRefresh(l) ==
    /\ At(l, "refresh")
    /\ \/ ~providerInformation.complete /\ UNCHANGED faults /\ Set(l, End(flow[l], "error"))
       \/ Fault /\ \E lost \in BOOLEAN : Set(l, End([flow[l] EXCEPT !.spent = lost], "error"))
    /\ UNCHANGED <<providerInformation, codes, keys>>

---------------------------------------------------------------------------
(* ValidateTokenResponseAsync, ProcessResponseAsync and GetUserInfoAsync. *)

KeyIsKnown(l) == flow[l].tokens.identity.key <= providerInformation.keys

\* What follows a token response that is valid: the end of a refresh or of a
\* login, or the userinfo endpoint.
AfterValidation(l) ==
    IF flow[l].refreshing THEN End([flow[l] EXCEPT !.spent = FALSE], "success")
    ELSE IF options.LoadProfile THEN EnsureThen(flow[l], "profile")
    ELSE End(flow[l], "success")

ValidateWithoutIdentityToken(l) ==
    /\ At(l, "validate") /\ flow[l].tokens.identity = None
    /\ Set(l, IF flow[l].refreshing /\ options.RequireIdentityTokenOnRefreshTokenResponse
              THEN End(flow[l], "error") ELSE AfterValidation(l))
    /\ UNCHANGED <<providerInformation, codes, keys, faults>>

ValidateIdentityToken(l) ==
    /\ At(l, "validate") /\ flow[l].tokens.identity # None /\ KeyIsKnown(l)
    /\ Set(l, IF flow[l].tokens.identity.vouched THEN AfterValidation(l) ELSE End(flow[l], "error"))
    /\ UNCHANGED <<providerInformation, codes, keys, faults>>

\* Mutant: the keys are not loaded again.
ValidateAgain(l) ==
    /\ At(l, "validate") /\ flow[l].tokens.identity # None /\ ~KeyIsKnown(l) /\ ~flow[l].retried
    /\ Set(l, [flow[l] EXCEPT !.retried = TRUE])
    /\ UNCHANGED <<providerInformation, codes, keys, faults>>

\* The first "invalid_signature" loads the keys again.
RefreshKeys(l) ==
    /\ At(l, "validate") /\ flow[l].tokens.identity # None /\ ~KeyIsKnown(l) /\ ~flow[l].retried
    /\ Set(l, EnsureThen([flow[l] EXCEPT !.retried = TRUE], "validate"))
    /\ UNCHANGED <<providerInformation, codes, keys, faults>>

RejectSignature(l) ==
    /\ At(l, "validate") /\ flow[l].tokens.identity # None /\ ~KeyIsKnown(l) /\ flow[l].retried
    /\ Set(l, End(flow[l], "invalid signature"))
    /\ UNCHANGED <<providerInformation, codes, keys, faults>>

\* The subject of userinfo is compared when there is an identity token.
ReceiveProfile(l) ==
    /\ At(l, "profile")
    /\ \E u \in Users :
         /\ IF u = flow[l].tokens.subject THEN UNCHANGED faults ELSE Fault
         /\ Set(l, IF flow[l].tokens.identity # None /\ u # flow[l].tokens.subject
                   THEN End(flow[l], "error") ELSE End([flow[l] EXCEPT !.profile = u], "success"))
    /\ UNCHANGED <<providerInformation, codes, keys>>

FailProfile(l) ==
    /\ At(l, "profile")
    /\ Fault
    /\ Set(l, End(flow[l], "error"))
    /\ UNCHANGED <<providerInformation, codes, keys>>

RotateKeys ==
    /\ keys < MaxKeys
    /\ keys' = keys + 1
    /\ UNCHANGED <<providerInformation, flow, codes, faults>>

\* Steps of the client, and answers that come unless they fail.
Step(l) ==
    \/ SkipDiscovery(l) \/ RequestDiscoveryDocument(l) \/ AnswerDiscovery(l) \/ StoreDocument(l)
    \/ CreateAuthorizeState(l) \/ LeaveBrowser(l) \/ CheckResponse(l)
    \/ RedeemCode(l) \/ FailRedeem(l) \/ RefreshToken(l) \/ FailRefresh(l)
    \/ ValidateWithoutIdentityToken(l) \/ ValidateIdentityToken(l) \/ RefreshKeys(l)
    \/ RejectSignature(l) \/ ReceiveProfile(l)

Next ==
    /\ \/ \E l \in Logins :
            \/ Step(l) \/ Login(l) \/ ReceiveDenial(l) \/ FailDiscovery(l) \/ LoseRedeem(l)
            \/ StartRefresh(l) \/ FailProfile(l)
            \/ \E u \in Users : SignIn(l, u)
            \/ \E m \in Logins : ReceiveResponse(l, m)
       \/ RotateKeys
    /\ UNCHANGED options

Spec == Init /\ [][Next]_vars

---------------------------------------------------------------------------
(* Properties *)

\* However responses are paired with pending logins, a code is sent only by
\* the login it was issued for, and a login that succeeds has the tokens of
\* the user who signed in at its own browser: the subject of its identity
\* token, whose at_hash binds the access token and whose key some document had
\* published, is that of its userinfo claims.
LoginsAreNotMixed ==
    \A l \in Logins :
        /\ flow[l].pc \in {"redeem", "validate", "profile"} => flow[l].response.code = l
        /\ flow[l].result = "success" => codes[l].redeemed /\ flow[l].tokens.subject = codes[l].user
        /\ flow[l].result = "success" /\ ~flow[l].refreshing /\ flow[l].tokens.identity # None =>
              /\ flow[l].tokens.identity.vouched
              /\ options.LoadProfile => flow[l].profile = flow[l].tokens.identity.user

\* With a document loaded for every step, a refresh costs the application its
\* session, the provider having replaced the refresh token it still holds, only
\* if a request failed, the provider left out a required identity token, or
\* another call brought back old keys.
SessionsSurviveRotation ==
    options.RefreshDiscoveryDocumentForLogin => \A l \in Logins :
        At(l, "done") /\ flow[l].spent =>
            \/ faults > 0
            \/ flow[l].tokens.identity = None /\ options.RequireIdentityTokenOnRefreshTokenResponse
            \/ flow[l].result = "invalid signature" /\ flow[l].loaded.keys >= flow[l].tokens.identity.key

\* Every login and every refresh ends.
EveryLoginEnds == \A l \in Logins : ~At(l, "idle") ~> At(l, "done")
================================================================================
