# Verification of the Duende FOSS libraries

TLA+ models of the libraries in this repository, the TLC runs that check them
on small instances, and proofs, checked by TLAPS, for every value of the
constants. The models are written from the C# source. `PROJECT.json` names for
each definition the lines it stands for, and lists the components, runs,
hazards, findings and theorems.

    tlc -config UserTokens.cfg MCUserTokenManagement     a run (see section 4)
    tlapm UserTokenManagement_proofs.tla                 the proofs of a module

1. The system, its state and what is hard about it
2. The modules and the code
3. How the models are built
4. The runs
5. Fairness
6. The proofs
7. Where code and documents disagree
8. What is only model-checked, and what is not modelled
9. Plan

## 1. The system

The repository holds six libraries. They share little code, but one theme:
tokens that are obtained once, shared by many callers, and replaced while they
are in use.

**Access token management** (`access-token-management/`) keeps the access
tokens of ASP.NET Core applications and workers.

| component | state | operations | talks to |
|---|---|---|---|
| `UserAccessTokenManagementService`, `UserTokenRequestConcurrencyControl`, `AuthenticationSessionUserAccessTokenStore`, `AuthenticateResultCache` | the session cookie of each browser, the ticket of each HTTP request, a singleton dictionary of lazy refreshes, a semaphore per request | get a token (refresh when due or forced), revoke the refresh token | the token endpoint; the cookie handler |
| `StoreTokensInAuthenticationProperties` | named items of the authentication properties | set, get and remove the tokens of a resource and a challenge scheme | used by the session store |
| `ClientCredentialsTokenManager`, cache duration store | a HybridCache entry per client and parameters, auto-tuned durations | get (cached or forced), delete | HybridCache, the token client |
| `AccessTokenRequestHandler`, `Resiliency`, proof service, nonce store | the request message, the nonce of each API | attach token and proof, send, retry once after a 401 | a token retriever, the API |
| `ConfigureOpenIdConnectOptions`, `AuthorizationServerDPoPHandler`, the two token endpoint clients | the login's key in the properties and in the HttpContext, the nonce of the token endpoint | redirect, code exchange, refresh, client credentials | key store, token endpoint |
| `AsyncLazy` | the shared initialization task | read `Value` | discovery |

**Introspection** (`introspection/`): `OAuth2IntrospectionHandler` validates
reference tokens. State: a static dictionary of running introspection calls by
token, a cache of claims, the client assertion and its expiration in the
options, a lock for renewing it, an `AsyncLazy` of the client.

**IdentityModel** (`identity-model/`): protocol requests and responses,
discovery and its validation, and `DiscoveryCache`, whose fields `_lazyResponse`
and `_nextReload` are read and written by any thread. State that outlives a
request: the `Authority` of the `DiscoveryPolicy`, which the first request sets,
and the list of parameters an application may share between requests.

**IdentityModel.OidcClient** (`identity-model-oidc-client/`) for native
applications: `OidcClient` (login, response processing, refresh, user info) over
provider information kept in its options; `RefreshTokenDelegatingHandler` (one
access and one refresh token behind a semaphore, and an event for whoever saves them); `ProofTokenMessageHandler`
(DPoP proofs, one nonce field).

**RazorSlices** (`razor-slices/`) renders Razor templates to a pipe: a tree of
slices with layouts, sections, partials and helpers that share an active slice;
pooled writers that are lent to contents and delegates, pooled string writers
and builders; transcoding and HTML
encoding into spans of the pipe; attributes that are written in three calls
over one field. A source generator writes the proxies.

**Memory cache** (`memory-cache/`): Microsoft's MemoryCache with a TimeProvider.

What makes this code hard:

- *interleaving*: callers share a refresh, an introspection or a discovery, and
  its end, its removal and the next one race; two HTTP requests of one browser
  update one cookie; two flows share a nonce store;
- *partial failure*: the caller that started shared work goes away; the exchange
  succeeds and storing fails; a response is lost after the server rotated the
  refresh token; a template throws half-way through a tree of slices;
- *retries*: of the same request message, with what the first attempt left on it;
- *stale state*: a token, key, nonce or document that was read before a wait;
- *liveness*: semaphores and lazies that somebody must release or start;
- *numeric edges*: spans and arrays that end inside a character or an escape.

`PROJECT.json` lists the forty hazards that matter most, each at its line, and
the properties that would catch them going wrong.

What makes each component correct, in a sentence:

| component | correctness |
|---|---|
| user tokens | one refresh at a time per refresh token and parameters, no entry left behind; the session is never half-updated, keeps the newest refresh token and never goes back; a token is returned only when it was stored, to its owner; every call ends |
| token names | what is set for a resource and scheme is found for them; what resources share lives exactly as long as one of them |
| client credentials | nothing expired is returned from the cache; a forced renewal is a renewal; every call ends with a token or a failure |
| request handler | one proof per token; the retry uses the nonce it was told and not the denied token; nonces stay with their API |
| token endpoint DPoP | proofs and tokens keep the key of their login; a refused nonce is overcome; an assertion is sent once |
| introspection | calls for a token do not overlap; failures stay with the request that caused them; no expired claims; assertions are fresh and renewed once |
| AsyncLazy, DiscoveryCache | one attempt at a time; success is kept, failure is not; a refresh gets the keys that were published when it was asked for |
| discovery documents | the verdict of the policy is about the server, not about the spelling of its address or the order of the requests |
| protocol requests | a request that could be sent once can be sent again, and then says the same |
| OidcClient | the semaphore is not leaked; a used refresh token is not sent; what the events report is what the handler has; codes and subjects stay with their login; a rotated signing key does not lose a session |
| RazorSlices | helpers write to the running slice; everything is disposed and returned; output is complete, in order, exact and in the right response |

## 2. The modules and the code

| module | code | state and actions |
|---|---|---|
| `UserTokenManagement` | `Internal/UserAccessTokenManagementService.cs`, `UserTokenRequestConcurrencyControl.cs`, `AuthenticationSessionUserAccessTokenStore.cs`, `AuthenticateResultCache.cs`, `OpenIdConnectUserTokenEndpoint.cs` | a call is a `GetAccessTokenAsync` or `RevokeRefreshTokenAsync` in a request, a flight the `Lazy<Task>` a call put into the dictionary. `GetOrAdd`, `ReadValue` and `ReturnFlightResult` are the three statements of `ExecuteWithConcurrencyControlAsync`; `EndpointGrants` to `SignIn` are the closure, split where another thread can see the difference (lock, access token, refresh token, sign-in) |
| `RefreshTokenRotation` | none: the abstract specification | a server issues refresh tokens one after another, the client only moves on to a newer one |
| `TokenProperties` | `StoreTokensInAuthenticationProperties.cs` | a map from item names (type, resource, scheme) to values; set and remove, with the fallback of reading |
| `ClientCredentialsTokens` | `ClientCredentialsTokenManager.cs`, `ClientCredentialsCacheDurationStore.cs`, `ClientCredentialsTokenClient.cs` | one cache key; HybridCache (external) groups callers behind one factory and may throw before or after it; time in ticks |
| `AccessTokenRequestHandler` | `AccessTokenRequestHandler.cs`, `Resiliency.cs`, `DefaultDPoPProofService.cs`, `HybridDPoPNonceStore.cs` | one request message per request, with its header, its set of proofs and its options; each token has a scheme (its type) and a key or none, chosen when it is issued; APIs (external) give any answer and rotate nonces |
| `TokenEndpointDPoP` | `ConfigureOpenIdConnectOptions.cs`, `AuthorizationServerDPoPHandler.cs`, `OpenIdConnectUserTokenEndpoint.cs`, `ClientCredentialsTokenClient.cs` | logins that redirect, exchange a code and refresh, and clients, over one nonce store; the key store and the server change their key and nonce at any time |
| `OAuth2IntrospectionHandler` | `OAuth2IntrospectionHandler.cs`, `Infrastructure/CacheExtensions.cs` | requests with one token: cache, `GetOrAdd`, join, await, retry of a failure that is not one's own, cache again, removal of one's own entry |
| `IntrospectionClientAssertion` | `CreateTokenIntrospectionRequest` (lines 209 to 248) | the test, the lock, the second test, the two assignments in their order, the read |
| `Introspection` | the two together | `EXTENDS` the first and `INSTANCE`s the second: a call makes its request, and so renews the assertion, before it is sent; a failure to make it is a failure of the call |
| `AsyncLazy` | the `AsyncLazy` of access token management and of introspection | attempts and readers; the variable `class`, which never changes, decides `DoubleChecked` and `Restarts`, in which the two differ |
| `DiscoveryDocument` | `HttpClientDiscoveryExtensions.cs`, `DiscoveryEndpoint.cs`, `DiscoveryDocumentResponse.cs`, `DiscoveryPolicy.cs`, the two validation strategies, `HttpClientJsonWebKeySetExtensions.cs` | requests that share a policy; the parsing of their addresses, the assignment of the authority, the answer, its validation, the request of the keys and the set of keys |
| `DiscoveryCache` | `Client/DiscoveryCache.cs` | every lazy response ever assigned, the reload time; the callbacks that reset them when a response arrives are steps of their own |
| `Discovery` | the two together | the task of the cache's l-th lazy response is call l of the other module; the call ends and the callbacks of the cache run as they do for a response or an exception |
| `ProtocolRequest` | `ProtocolRequest.cs`, `HttpClientTokenRequestExtensions.cs`, `HttpClientPushedAuthorizationExtensions.cs`, `Parameters.cs`, the proof retries of access token management | requests that share the list of parameters of the application: clone, client assertion, parameters of the grant, `Prepare`, and the caller that sends them a second time with another proof |
| `RefreshTokenDelegatingHandler` | `RefreshTokenDelegatingHandler.cs` | requests; the semaphore is held only while one refreshes; waits end by their timeout |
| `TokenRefreshedEvents` | the event of that class | extends the handler: a refresh that succeeds leaves an event on its way when it brought a refresh token, and the application saves what arrives |
| `OidcLogin` | `OidcClient.cs`, `AuthorizeClient.cs`, `ResponseProcessor.cs` | pending logins and refreshes over shared `ProviderInformation`, a provider that rotates signing keys and whose responses may fail the validation; the variable `options` holds those of the client, which never change |
| `ProofTokenMessageHandler` | `DPoP/ProofTokenMessageHandler.cs` | the nonce field, and requests with their messages and responses |
| `RazorSliceRendering` | `RazorSlice*.cs`, `RazorSliceBase.cs`, `RazorLayoutSlice.cs`, `RazorSliceHelper*.cs` | the stack of running templates, the active slice, disposed slices, helpers; `Unwind` is the exceptional path of each template, before or after its first await; the variable `asyncTemplates`, which never changes, tells generated templates from hand-written ones |
| `RazorSliceWriters` | `Utf8PipeTextWriter.cs`, `FlushTrackingPipeWriter.cs`, `RazorSliceBase.Write.cs` | renders on threads, the thread's cached writer, the pool, frames of nested `WriteHtml`, delegates that complete later; the variable `environment`, which never changes, says which pipes cannot count their bytes, and whether delegates nest or complete late |
| `RenderedStrings` | `RazorSlice.StringBuilderExtensions.cs`, `ReusableStringWriter.cs` | renders to strings and to builders of the caller, the two pools, and what a failed render leaves behind |
| `RazorSliceOutputs` | the two together | `INSTANCE`s both, for every environment in which the code keeps outputs apart (`Faithful`) |
| `PipeWriterHtml` | `PipeWriterHtmlExtensions.cs`, `Utf8PipeTextWriter.cs`, `BufferSizes.cs` | one write of a text whose characters take one to four bytes, against any span the pipe may give |
| `RazorSliceAttributes` | `RazorSliceBase.HtmlAttributes.cs` | begin, write value, end, in sequence or, with `NestedAttributes`, nested through markup in a value |
| `RazorSliceText` | the two together | `INSTANCE`s both, with `NestedAttributes` false (section 7), and states `OutputIsExact` of them |
| `TextOperators` | none: operators on sequences | what those two modules need of the community modules; written out, since the provers look at every definition of an instance |
| `*_proofs` | | the theorems about a module (section 6) |
| `MC*` | | the instances for TLC |

Interactions that are composed: `Introspection` composes the handler and its
assertion; `Discovery` composes the cache and the requests it makes with its
policy; `TokenRefreshedEvents` the refresh token handler and the application
that listens to it. `UserTokenManagement` and `RefreshTokenDelegatingHandler`
both implement `RefreshTokenRotation` (property `ImplementsRotation`). Where a
component uses another one through a result only, that result is an input: a
token retriever returns a cached token, a new one or a failure; the discovery
of an `AsyncLazy` returns a result, fails or is cancelled.

## 3. How the models are built

- An action is what one thread does between two points where another can
  observe or disturb it. Statements under a lock whose variables no unlocked
  code reads are one step.
- Servers, the cookie handler, HybridCache and clocks are external, modelled
  from how the code uses them; `PROJECT.json` marks their definitions.
- Tokens, nonces, keys and assertions are numbered in the order they are issued,
  which lets a property say "newer". Texts, names and URLs are members of small sets.
- Time is counted in ticks, and every clock stops at a bound.
- Bounds on unbounded things are constants named `Max...`. They stand in guards
  of the environment (how often a key rotates, a token expires, a fault
  happens), never of the code.
- Operators commented `Mutant:` are variants of the definition that follows them
  with a plausible bug. No specification uses them; `PROJECT.json` says which
  property each of them violates.

Abstractions a reader should know of:

- `UserTokenManagement` treats the exchange with the token endpoint as one step
  and a failure of it. Its retry for a DPoP nonce is in `TokenEndpointDPoP`.
- A revocation that throws (`UserAccessTokenManagementService.cs:127`) ends the
  call like one whose error is logged; no property is about the session after it.
- A request of `AccessTokenRequestHandler` that throws ends; what it had set on the
  message by then is not sent.
- `TokenEndpointDPoP` has the default proof service and no pushed
  authorization or revocation requests.
- `OAuth2IntrospectionHandler` lets a client abort where the code looks at it:
  while it awaits a call that another request started.
- `PipeWriterHtml` has buffer limits of a few units; the code takes them from
  `BufferSizes`. A rejected delegate of `RazorSliceWriters` writes text only.
- `ProofTokenMessageHandler` resends a failure that clears the nonce, as the
  code does, although nothing asks for it.
- `DiscoveryDocument` has URLs of a scheme, a host, in capitals or not, and a
  path as the sequence of its characters. There are no ports, queries or
  capitals in paths, and no host is the beginning of another one. The path of
  the discovery document is one character. What the data may be is `IsData`: the
  addresses are spellings of the server, URLs have no empty first segment, and the
  bases of a policy have neither capitals nor a slash at the end (an Authority
  that is compared as a URL may have the slash). TLC evaluates it for the data of
  the run and the proof uses nothing else about them. `VerdictsAreRight` says that
  nothing that conforms is refused only for addresses with the scheme of the
  server and, where strings are compared, without capitals; and what is accepted
  is of the server by its own scheme or one it was addressed with: see section 7.
- `ProtocolRequest` has no pushed request objects (`request`), and a response is
  only a success, or a refusal that names a nonce. Its `IsData` types the
  configurations and the parameters of the application and asks nothing of their
  values, so that the proof holds for a list that repeats keys of the client.
- `TokenRefreshedEvents` has one subscriber that saves refresh tokens and does
  not throw; the handler swallows what a subscriber throws.
- `RenderedStrings` has one action for the overloads of `Write`, and templates
  do not handle the exception of a rejected delegate: a template that does and
  ends normally gives the writer back that the delegate still has.
- `RazorSliceRendering` awaits each partial where it is rendered; templates that
  start several partials at once share an unsynchronized writer and are not modelled.

## 4. The runs

Each passing run finishes within five minutes on two cores. Independent
components whose questions are alike are checked in one run: the variable
`part`, which no step changes, chooses one of them, and the variables of the
others stay as they are. Such a run explores the sum of the state spaces, not
their product.

| run | instance | shows |
|---|---|---|
| `user_tokens` | two requests of one user, one of another, who begins with a refresh token and only gets tokens, one call each, faults, refresh tokens that are taken once; 1.2 million states | `SingleFlight`, `EntryIsAwaited`, `ReturnedTokenIsStored`, `SessionIsNeverTorn`, `NewestRefreshTokenIsKept`, `ImplementsRotation` |
| `user_calls_end` | one request with two calls, for one or two sets of parameters, faults | `LockGuardsSession`, `EveryCallEnds` |
| `client_credentials` | two calls, lifetimes 1 (within the buffer) and 3, clock up to 2, failing cache | `ForcedRenewalIsNew`, `ReturnsUsableToken`, `EveryCallReturns` |
| `cc_cache_down` | the same with one lifetime | finding: `ReturnsTokenOrFailure` is violated |
| `access_tokens` | the request handler: two requests, two APIs that give any answer, three tokens, each of either scheme and with a key or without, one new nonce per API; the token names: two resources, two schemes, a sign-in, three tokens set; 2.9 million states | `OneProofPerToken`, `RetryUsesSuppliedNonce`, `DeniedTokensAreRenewed`; `SharedItemsLastAsNeeded` |
| `token_endpoint_dpop` | a login and a client, two exchanges each, two keys, two nonces; two protocol requests of eight kinds, every way to authenticate the client, eight lists of parameters of the application; 1.6 million states | `KeysAreKept`; `RetriesCanSucceed`, which is `RefusalsAreOvercome` and `AssertionsAreUsedOnce`; `RequestsCanBeSentAgain` |
| `introspection` | three requests, two at a time, a token and an assertion that expire, aborts and exceptions | `OneSharedCall`, `FailuresAreNotShared`, `EntryHasOwner`, `ExpiredClaimsAreNotServed`, `AssertionsAreRenewedOnce`, `EveryRequestEnds` |
| `shared_discovery` | three callers of each `AsyncLazy` with three attempts that may fail and a fourth; `Discovery` with two threads, three calls, a `Refresh`, a rotation of the keys and a clock; two requests that share one of seven policies, six spellings of the address, twelve documents; 1.8 million states | `OneAttemptRuns`; `FailuresAreNotKept`, which is `FailureIsNotServedAgain` of each class and `ErrorsAreNotCached` of the cache; `RefreshGetsCurrentKeys`; `VerdictsAreRight` |
| `oidc_client` | two requests of the refresh handler with its events, the tokens expire once; two logins of two users one of whom refreshes, two keys, one fault, with and without reloading the document at login; two DPoP requests, two nonces | `SpentTokenIsNeverSent`, `RetryCarriesNewerToken`, `SavedTokenIsCurrent`; `LoginsAreNotMixed`, `SessionsSurviveRotation`; `SoleRefusalsAreOvercome`; `EveryCallEnds` of the first two |
| `proof_handler_unretried` | two DPoP requests, one nonce | finding: `RefusalsAreRetried` is violated |
| `razor_slices` | a slice, two layouts, two sections or bodies, two partials, a minimal partial, two helpers, two failures; two renders on two threads, with rejected delegates, nested contents or wrapped pipes; three renders to strings and builders; texts across every buffer limit; attributes one after another, with three values and markup among them; 860 000 states | `HelpersWriteToRunningSlice`, `SlicesAreDisposedInTime`; `OutputIsFaithful` of pipes and of strings; `OutputIsExact` of texts and of attributes, `EveryWriteEnds` |
| `recycled_writers` | two renders on a thread, to pipes that cannot count their bytes, with one wrapper to share | finding: `TextStaysInItsRender` is violated |

Why the bounds are enough: the races of this code are between two callers and
something that happens between them, so two callers of the same thing suffice
to show them, and a third one (a later caller, a request of another user)
finds what the two left behind. One rotation of a key or a nonce makes things
stale, and a second one makes the replacement stale; to tell a nonce that was
supplied with a refusal from the one in the store, as `access_tokens` does, one
is enough. In the refresh handler one
expiration is enough for a second refresh, since a request that waited for the
semaphore refreshes again. Every fault can happen at
every point. The lengths in `PipeWriterHtml` reach past each limit in the code by
one character of each size.

Where liveness is checked, identical actors are numbered and begin in that
order instead of being declared symmetric: every behavior is a renaming of such
a one, and unlike `SYMMETRY` this is sound for temporal properties. Deadlock is
not checked where actors end and the clock or the budget of faults runs out:
the system then really stops, and the liveness properties say that it does so
with every call finished.

## 5. Fairness

Weak fairness on the steps of work that has started, and nothing else: thread
pool tasks run, servers answer or the timeout of the HttpClient ends the wait.
No new request, fault, expiration or rotation has to happen, and no caller has to
cancel. The one strong fairness is on taking the lock of
`AuthenticateResultCache` (and reading the session, which waits for the same
lock) in `UserTokenManagement`: the lock is a `SemaphoreSlim`, whose waiters are
queued, so a waiter gets it if it is released again and again. In
`RefreshTokenDelegatingHandler` each wait for the semaphore has a timeout, which
counts as the step of a started request. Fairness is stated per call, so a call
is not kept waiting by others that go on.

## 6. The proofs

Eight modules hold theorems, each about its components for any number of actors
and any bounds, under the assumptions the model's modules name (the types of the
constants, and that `None` is not one of the values it stands beside). Each
proof has the form: a strengthening of the property that is inductive (initially
true, and kept by each action), then the property as its consequence, and one
temporal step. A proof that a step keeps an invariant has a lemma or a step per
action, and below it one per conjunct that the action disturbs.

| module | theorems | inductive invariant |
|---|---|---|
| `UserTokenManagement_proofs` | `TypeCorrect`, `AtMostOneFlight`, `EntriesAreAwaited`; `LockGuards`, `SessionsAreWhole`, `NewestIsKept`, `RotationImplemented`, `ReturnsStoredTokens` | `TypeInv`, with `CallInv`: a call past its decision has read its refresh token from a session of its request, which stays; and `FlightInv`: what a flight captured no longer changes, and a running flight has a starter with a session; `DictionaryInv`: a running flight is in the dictionary, entries have distinct keys, and each is awaited. `SingleFlight` alone is not inductive: two flights that ran outside the dictionary could get equal keys. `SessionInv`: whom each session and token belongs to (`OwnerInv`), the starter of a running flight waits in an open request (`JoinInv`, `OpenInv`), a lock and its flight name each other (`LockInv`). `RotationInv`, for refresh tokens that are taken once: one flight of a user at most has a token to store (`SoleGrantInv`), which is newer than what anyone else holds (`GrantInv`); a session is whole unless its lock is held between the two writes (`TornInv`); and what an open request has signed in is newer than all that was read elsewhere (`SoleInv`). `SessionIsNeverTorn` alone is not inductive: it says nothing of a properties object whose lock is held. `StoredInv`: what a flight replaces is no newer than what it stores, and what it has stored stays covered until its callers return |
| `ClientCredentialsTokens_proofs` | `TypeCorrect`, `ForcedRenewalsAreNew`, `UsableTokens` | `AnswerInv`: the token a factory has received and not returned is nowhere else; with `IssuedInv` (nothing is known before it is issued) `RenewalInv` follows: a forced call has a token that is not among those it knew of |
| `OidcClient_proofs`, refresh handler | `TypeCorrect`, `LockIsNeverLeaked`, `NoSpentTokenIsSent`, `RetriesCarryNewerTokens`, `RotationRefined`, `SavedTokensAreCurrent` | `RefreshInv`: there is a refresh token, and a response on its way has a newer one; `SpentInv`: the handler has the newest one, or it is on its way, or a response was lost; `RetryInv`: the token a denied request finds after a refresh is newer; `EventInv`: until one event overtakes another, what is saved is older than all that is still to be reported, and the handler's own token is saved or reported |
| the same, logins | `LoginTypeCorrect`, `LoginsStayApart`, `RotationsAreSurvived` | `FlowInv` of each login: where it can be, and with what (`LabelInv`); a response that passed the check of its state has the login's own code (`ResponseInv`); tokens are those of the user who signed in for the code, and the identity token was looked at before the profile is (`TokenInv`, `IdentityInv`); without faults, the document of the second attempt has the key of the identity token, and a refresh token is spent only while its response is validated (`KeyInv`) |
| the same, proofs | `RefusalsAreOvercomeAlone` | `ProofInv`: what the field, the messages and the responses of a request that is refused alone hold |
| `OAuth2IntrospectionHandler_proofs`, shared calls | `TypeCorrect`, `OwnFailuresOnly`, `EntriesAreRemoved`, `SharedCallsDoNotOverlap`, `RunningCallsStay` | `JoinInv`: a call that was joined was joined by its creator; `OwnerInv`: a shared call that has not completed is the registered one, and its creator is there to remove it; `PendingInv`: the outcome is open until the finally block. `EntryHasOwner` needs the first two, for an entry may be removed by its creator only |
| the same, cache and assertion | `CachedClaimsAreUnexpired`, `PartsAreImplemented`, `AssertionsAreCurrent` | `CacheInv`: claims are not cached beyond the expiration of their token; `AssertionInv`: one request at a time renews, the assertion and its expiration agree unless one is between the two assignments, and what a request knows is no newer than what there is. `PartsAreImplemented` says that the composition implements the handler and the assertion, whose theorems it so inherits |
| `SharedDiscovery_proofs`, `AsyncLazy` | `TypeCorrect`, `AttemptsDoNotOverlap`, `SuccessIsFinal`, `FailuresAreReplaced` | `Inv`: attempts before the current one failed in a way that is started again, those after it do not exist; `ServedInv`: what a reader could see to fail is the current attempt or an older one, and it still reads without the lock only while the current one may be given out. For both classes at once |
| the same, discovery cache | `CacheIsImplemented`, `RefreshedKeysAreCurrent`, `FailuresAreForgotten` | `CacheInv`: there is a lazy response once the test was passed (`LazyInv`), and an error is written only after the field has a newer one (`ErrorInv`); `CountInv`, by which the bound on lazy responses is never met; `KeysInv`: the current lazy response was made by the last `Refresh` or later, its keys are requested after that, and what a caller waits for was current after it had called |
| the same, discovery documents | `VerdictsFollowThePolicy` | `RequestsInv`: the authority of the policy is absent, the application's, or the server by the scheme and with the capitals of an address that was given (`AuthorityInv`), a document that is validated meets one (`RequestInv`), and verdicts once right stay right when another request sets the authority or brings another scheme (`VerdictInv`, `VerdictStays`). `Verdict` compares the checks of the code with what the policy asks: trimming, the root's slash and capitals make no difference (`SameIssuerPath`, `SameBeginning`, `AuthorityOfAddress`) |
| `AccessTokens_proofs`, request handler | `TypeCorrect`, `OneProof`, `NoncesStayWithTheirApi`, `SuppliedNoncesAreUsed`, `DeniedTokensAreNotRepeated` | `ProofInv`: one proof at most, none without a header, and with a keyed token what `OneProofPerToken` says, wherever the request is; `RenewInv`: a denied attempt forces the renewal; `NonceInv`, `SuppliedInv`: where each nonce came from |
| the same, token names | `SharedItemsAreKept` | `StoredInv`: a token that was stored has its item, an access token's item with both suffixes is that of a token that was stored, and what the tokens of a scheme share is there only with one of them |
| `TokenEndpoint_proofs`, keys, nonces and assertions | `LoginKeysAreKept`, `RefusalsLeadToARetry`, `AssertionsReachTheServerOnce`, `RetriesAreNotFutile` | `Shape`: how much was sent and answered at each label of a flow; `KeyInv`: the messages, the flow and what the server has bound have one key; `NonceInv`: a second message has the nonce of the first response, and a refused nonce was older than the answer's; `JtiInv`: assertions reach the server in the order of their numbers |
| the same, requests | `RequestsCanBeRepeated` | `RequestInv`, of each request: the list of its clone has the parameters of the application and its own before `Prepare` (`RequestState`); after one message, its proof is no longer the request's, and its assertion is the request's unless the service or the factory makes another (`Once`); two messages were both made from the application's list and differ so (`Twice`). It rests on what adding parameters one by one does: a parameter that is added is there, no other is lost or repeated (`AddAllWhole`), and lists that differ in the value of an assertion are added to alike (`AddAllAgrees`), both by induction over the parameters |
| `RazorSlices_proofs` | `RenderTypeCorrect`, `HelpersFollowTheTemplate`, `NothingOutlivesTheRender` | `RenderInv`: the layouts created so far are the first ones, in order (`OuterInv`); a slice's parent is a later link of that chain, or the last one if it is a partial (`ParentInv`, `ContentInv`); what each running template is, and which one it returns to (`StackInv`); only the root knows an active slice, the running one (`ActiveInv`), and it has all helpers (`HelperInv`); a partial renders once and is not disposed before it ends (`FreshInv`); what is started and not disposed is in the chain or running (`DisposedInv`) |
| the same, outputs | `OutputsAreFaithful` | `WritersInv`: what a render has written is what its pipe has got and then what the writer of its calls of `WriteHtml`, or of its rejected delegate, still holds, until an exception returns the writer unflushed (`TextInv`); that writer is its own, or was returned in a nested call and is cached by the thread the render keeps (`FrameWriterInv`, `LateInv`, `CachedInv`); what `PopWriter` restores (`SavedInv`); the wrapper of a pipe (`TrackerInv`). `StringsInv`: writers and builders in use are not pooled and have one user |
| the same, texts | `PipeTextIsExact` | `PipeInv`: the encoded text is the output, then the granted span, then what the inner `WriteHtml`, the buffer and the rest still hold, so that every step moves scalars from one place to the one before it (`NothingLost`); each place is empty where the code does not use it (`Places`); the rented arrays are those the method has taken so far (`Arrays`); what was written and what is left of the span fit into it (`InsideSpan`). `OutputIsExact` alone says nothing of what is still to be written |
| the same, attributes | `OutputsAreExact` | `AttributesInv`: the open attribute, if any, is the last one, `_attributeInfo` is its own and says that it was suppressed only if its single value is omitted, and the output has of it exactly what its call has reached (`InProgress`, `SoFar`); the ended ones are whole (`EndedWhole`), the next ones have nothing (`NotBegun`). With `PipeInv` it gives `OutputIsExact` |

`RotationImplemented` and `RotationRefined` prove that two detailed
specifications implement the same abstract one, `CacheIsImplemented` and
`PartsAreImplemented` that a composition implements its parts. TLC agreed with
every one of these properties, and with the inductive invariants, before they
were proved. Not all of them are in a run now: type correctness,
`LockIsHeldToRefresh`, `SuccessIsKept`, `RunningCallIsNeverEvicted`,
`ProofFitsApi` and `ImplementsRotation` of `RefreshTokenDelegatingHandler` hold
for every instance by their theorems.

The root of a slice and the disposal of a chain are loops over links, which
`RazorSliceRendering` has as recursive functions over as many steps as there are
slices. `RazorSlices_proofs` shows what they compute for a chain of any length:
`Induction` (a set with 0 and the successors of its members has every number)
comes from the well-foundedness of `<` on the numbers (`TokenEndpoint_proofs`
has it too, for lists of parameters), `Iteration` says that such
recursive functions exist, and `RootOfChain`, `RootOfPartial`, `DisposalOfChain`
and `DisposalOfOthers` say what they return under the parents of `ParentInv`.

The texts of `PipeWriterHtml` have any length too. `SequenceInduction` is
induction over sequences, by `Induction` over their lengths. `SumsExist` and
`FlattensExist` say that the recursive functions in `Total` and `FlattenSeq`
exist, `TotalOfAppend`, `FlattenOfAppend` and `MappedAppend` what they do with
one more element; from these follow `BytesOfConcat`,
`EncodedOfConcat` (a text is encoded part by part) and `BytesOfEncoded` (what the
encoder counts is what it writes). `OfAttributeOfOwn` and `PiecesOfNext` say the
same of the tokens of an attribute.

## 7. Where code and documents disagree

Three runs of which TLC finds the counterexample:

- `cc_cache_down`: `ClientCredentialsTokenManager.cs:83` calls `RequestToken`
  outside the try block when the cache has failed. When the endpoint refuses
  too, the internal `PreventCacheException` reaches the application, although
  the interface promises a token or a failure.
- `proof_handler_unretried`: `ProofTokenMessageHandler.cs:47` compares the nonce
  of a response with the shared field and not with the nonce of the request's
  own proof, so of two requests that are refused together one is not retried.
- `recycled_writers`: a delegate that is rejected because it did not complete
  keeps its writer, and `RazorSliceBase.Write.cs:295` says never to pool it for
  another render. It is not pooled, but the `FlushTrackingPipeWriter` behind it
  is (`RazorSliceBase.cs:56`), with which a pipe is wrapped that cannot count its
  bytes: what the delegate still writes reaches the pipe of the render that took
  the wrapper. `OutputIsFaithful` is stated for rejected delegates and for such
  pipes, each alone.

Met while modelling, and kept in the models as the code has it:

- `UserTokenRequestConcurrencyControl.cs:12` says that of calls with the same
  refresh token "only one will execute". A call that read the refresh token
  before a refresh ended and reaches `GetOrAdd` after its entry was removed
  executes as well, with a used refresh token.
- `AsyncLazy.cs` of introspection starts a faulted discovery again but not a
  cancelled one (as by a timeout), which then stays for the life of the options.
- `DiscoveryCache` resets neither field when the request throws instead of
  returning an error: after `Refresh` the exception is served until the next
  reload time. A response that overtakes a newer one sets a reload time for the
  older document.
- The first request sets the `Authority` of a policy that has none, and later
  requests of other servers are validated against it. A request whose address is
  refused for its scheme leaves it there too, so a document that the server
  publishes under https is then refused by every request that shares the policy.
- `GetDiscoveryDocumentAsync` prepares the request of the keys, and so does
  `GetJsonWebKeySetAsync` (`HttpClientDiscoveryExtensions.cs:97`,
  `HttpClientJsonWebKeySetExtensions.cs:33`). With a client secret in the body,
  or an assertion, the second preparation throws "Duplicate parameter", and the
  result is an error; with a proof the request has two DPoP headers.
- `Parameters.AddRequired` with `allowEmptyValue` adds an empty password beside
  the one the application passed in its parameters.
- `TokenRefreshed` is raised by a task nobody awaits, so that the events of two
  refreshes may arrive in the wrong order; an application that saves what arrives
  last then restarts with a used refresh token. `SavedTokenIsCurrent` says that
  this is the only way to a wrong one.
- `AccessTokenRequestHandler.cs:45` says "sending without" when no token can be
  acquired; on a retry the request still carries the first attempt's credentials.
- `AccessTokenRequestHandler.cs:49-60` takes the scheme from the type of a token
  and makes a proof when it has a key. A keyed token of type Bearer, or of none,
  goes out as Bearer with a proof; a token of type DPoP without a key goes out as
  DPoP without one. Only the proof of a token with a key replaces the one that is
  there (line 74), so a retry whose renewed token has no key carries the proof of
  the first attempt, with its token hash and its nonce. Of such a request
  `OneProofPerToken` says only that it has no second proof, and
  `RetryUsesSuppliedNonce` is about tokens with a key.
- `StoreTokensInAuthenticationProperties.cs:241` counts only tokens with a
  resource, so removing the last of them removes the refresh token that a token
  without a resource still needs.
- `OidcClient.cs:439` stores a discovery document before it checks that it is
  complete. `RefreshDiscoveryOnSignatureFailure` of the policy is read nowhere.
- `RazorSlice.cs:139`: a content slice whose hand-written `ExecuteAsync` throws
  before it returned a task is disposed before the layout has ended. Slices the
  Razor SDK generates are async methods: `SlicesAreDisposedInTime` says of them
  that none is disposed too early, and of both kinds that none is left.
- A nested `WriteHtml` gives the writer it was lent back to the pool while the
  outer call still uses it. `OutputIsFaithful` is stated with nested contents
  too, and holds: the thread keeps the writer until the outer call ends. Not so
  if the delegate is then rejected: it goes on with a writer that its thread
  gives to the next render, contrary to `RazorSliceBase.Write.cs:295`, and TLC
  finds `TextStaysInItsRender` violated with `nested` and `async` together. So
  `Faithful` leaves that environment out too.
- An attribute written by the markup in the value of another one shares
  `_attributeInfo` with it; `OutputIsExact` is checked for attributes in
  sequence, whose values may have markup without attributes
  (`RazorSliceText` sets `NestedAttributes` to false).

## 8. What is only model-checked, and what is not modelled

Out of the reach of the prover and checked by TLC only: every liveness property
(`EveryCallEnds`, `EveryCallReturns`, `EveryRequestEnds`, `EveryWriteEnds`).
Every invariant and every action property of a passing run is proved.

Not modelled, and why:

| part | reason |
|---|---|
| protocol responses, authorization headers, the requests of revocation, introspection, registration and devices | pure, or the same clone and preparation with other parameters |
| strongly typed values, comparers, token retrieval from a header, tickets and claims | pure and small; unit tests reach them |
| revocation and configuration of the user token endpoint, token retrievers, `HttpContext` extensions | keep no state; their results are inputs |
| source generator | compiler plug-in; paths and directives are text processing |
| slice factories, hot reload, results | reflection at first use, one volatile field per slice type that a hot reload replaces, and adapters |
| formatted writes | an overload per type over what is modelled |
| browsers, data classes, constants, keys, telemetry, logging, dependency injection | no behavior that other code depends on |
| memory cache | each operation is one call of a class outside the repository |
| samples (with the scripts they ship), tests, benchmarks, build | not part of the libraries |

## 9. Plan

Done, in this order: user tokens with the concurrency control; the handler and
its proofs; client credentials; introspection; shared initializations; the
refresh handler; token names; DPoP at the token endpoint; OidcClient;
RazorSlices; discovery documents and the cache over them; protocol requests; the
proofs about sessions and client credentials; the events of the refresh handler.
Next:

1. Compositions: `UserTokenManagement` with the exchange of `TokenEndpointDPoP`
   instead of one step; `OidcLogin` over `ProofTokenMessageHandler`; the
   introspection client over `AsyncLazy`.
2. RazorSlices: templates that handle the exception of a delegate, factories.
3. Pure operators: `ClaimComparer`, the paths and directives of the source
   generator.
4. Attributes in the markup of a value: what the code writes of them (section 7).
