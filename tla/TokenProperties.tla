---------------------------- MODULE TokenProperties ----------------------------
(***************************************************************************)
(* StoreTokensInAuthenticationProperties: the tokens of a user as items of  *)
(* the AuthenticationProperties, for several resources and challenge        *)
(* schemes.                                                                 *)
(*                                                                          *)
(* The name of an item has a type, a resource suffix and a scheme suffix,   *)
(* each suffix None when it is not there; "access_token" stands for what is *)
(* written and removed with it, the token's type and its expiration.  The   *)
(* value of an item is the number of the SetUserToken call that wrote it,   *)
(* 0 for the sign-in; an item that is null reads as one that is missing.    *)
(***************************************************************************)
EXTENDS Naturals, FiniteSets

CONSTANTS
    Resources,
    Schemes,   \* challenge schemes
    Scoped,    \* UseChallengeSchemeScopedTokens
    SignedIn,  \* did the sign-in save its tokens, as ASP.NET does without suffixes?
    MaxSets,   \* bound of the model: how often tokens are set
    None

TokenTypes == {"access_token", "client_id", "id_token"}
SharedTypes == {"dpop_proof_key", "refresh_token"}

Parameters == [resource : Resources \cup {None}, scheme : Schemes \cup {None}]
Suffixes == IF Scoped THEN Schemes \cup {None} ELSE {None}
Names ==
    [type : TokenTypes, resource : Resources \cup {None}, scheme : Suffixes]
        \cup [type : SharedTypes, resource : {None}, scheme : Suffixes]

VARIABLES
    items,   \* AuthenticationProperties.Items
    sets,    \* how often SetUserToken was called
    stored   \* stored[p]: the last token set for p, None if it was removed since

vars == <<items, sets, stored>>

TypeOK ==
    /\ DOMAIN items \subseteq Names /\ \A n \in DOMAIN items : items[n] \in 0..sets
    /\ sets \in 0..MaxSets
    /\ stored \in [Parameters -> 1..MaxSets \cup {None}]

Init ==
    /\ items = IF SignedIn
               THEN [n \in {[type |-> type, resource |-> None, scheme |-> None] :
                              type \in {"access_token", "id_token", "refresh_token"}} |-> 0]
               ELSE <<>>
    /\ sets = 0
    /\ stored = [p \in Parameters |-> None]

-----------------------------------------------------------------------------
(* Names.                                                                  *)

AppendChallengeScheme(p) == Scoped /\ p.scheme # None

SchemeSuffix(p) == IF AppendChallengeScheme(p) THEN p.scheme ELSE None

\* GetTokenNamesWithoutScheme: what is shared has no resource suffix.
NameWithoutScheme(type, p) ==
    [type |-> type, resource |-> IF type \in SharedTypes THEN None ELSE p.resource, scheme |-> None]

NameWithScheme(type, p) == [NameWithoutScheme(type, p) EXCEPT !.scheme = SchemeSuffix(p)]

-----------------------------------------------------------------------------
(* GetUserToken.                                                           *)

Item(n) == IF n \in DOMAIN items THEN items[n] ELSE None

\* With a challenge scheme the suffixed item is tried first.
GetTokenValue(type, p) ==
    IF Item(NameWithScheme(type, p)) # None
    THEN Item(NameWithScheme(type, p)) ELSE Item(NameWithoutScheme(type, p))

GetUserToken(p) == [type \in TokenTypes \cup SharedTypes |-> GetTokenValue(type, p)]

-----------------------------------------------------------------------------
(* SetUserToken and RemoveUserToken.                                       *)

Without(its, names) == [n \in DOMAIN its \ names |-> its[n]]

\* A token may come without an identity token, which then is null, or without
\* what is shared, which then is left alone.
SetUserToken(p, parts) ==
    LET written == {NameWithScheme(type, p) : type \in {"access_token", "client_id"} \cup parts}
        null == {NameWithScheme("id_token", p)} \ written
    IN
    /\ sets < MaxSets
    /\ sets' = sets + 1
    /\ items' = [n \in written \cup (DOMAIN items \ null) |-> IF n \in written THEN sets' ELSE items[n]]
    /\ stored' = [q \in Parameters |->
          IF q.resource = p.resource /\ SchemeSuffix(q) = SchemeSuffix(p) THEN sets' ELSE stored[q]]

\* Mutant: the names that are compared are never equal.
NoOtherResources(names, p) == FALSE

\* Is there an access token whose name has a resource separator?
OtherResourcesExist(names, p) ==
    \E n \in names :
        /\ n.type = "access_token" /\ n.resource # None
        /\ AppendChallengeScheme(p) => n.scheme = p.scheme

RemoveUserToken(p) ==
    LET left == Without(items, {NameWithScheme("access_token", p)})
    IN
    /\ items' = IF OtherResourcesExist(DOMAIN left, p) THEN left
                ELSE Without(left, {NameWithScheme(type, p) : type \in SharedTypes})
    /\ stored' = [q \in Parameters |->
          IF q.resource = p.resource /\ SchemeSuffix(q) = SchemeSuffix(p) THEN None ELSE stored[q]]
    /\ UNCHANGED sets

-----------------------------------------------------------------------------
Next ==
    \E p \in Parameters :
        \/ RemoveUserToken(p)
        \/ \E parts \in {{}, {"id_token"}, SharedTypes} : SetUserToken(p, parts)

Spec == Init /\ [][Next]_vars

-----------------------------------------------------------------------------
(* Properties.                                                             *)

\* Is the refresh token that is found for p there after the step, or a newer one?
KeepsRefreshToken(p) ==
    LET found == GetUserToken(p)["refresh_token"]
    IN  found # None /\ stored[p] # None /\ stored'[p] # None =>
            GetUserToken(p)["refresh_token"]' \in {found} \cup (sets + 1)..sets'

\* Has the scheme lost what its tokens shared, if all of them were removed?
SharedItemsAreRemoved(s) ==
    Scoped /\ (\A p \in Parameters : p.scheme = s => stored[p] = None) =>
        \A type \in SharedTypes : Item([type |-> type, resource |-> None, scheme |-> s]) = None

\* The refresh token is shared with all resources of a scheme: no step takes it
\* from a resource whose access token stays, and the one that removes the last
\* access token of the scheme removes what they shared.
SharedItemsLast ==
    /\ \A p \in Parameters : p.resource # None => KeepsRefreshToken(p)
    /\ \A s \in Schemes : SharedItemsAreRemoved(s)'

SharedItemsLastAsNeeded == [][SharedItemsLast]_vars
================================================================================
