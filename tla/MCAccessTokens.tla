---------------------------- MODULE MCAccessTokens ----------------------------
(* Two parts of the access token management, for TLC: the handler that sends   *)
(* access tokens with its retries (part "requests"), and the tokens in the     *)
(* properties of a session that the user token store finds by their names     *)
(* (part "names").  They share no state; a behavior is one of one of them, and *)
(* the variables of the other stay as they are.                                *)
EXTENDS AccessTokenRequestHandler, TLC

CONSTANTS
    r1, r2, a1, a2,
    Resources, Schemes, Scoped, SignedIn, MaxSets  \* TokenProperties

ASSUME NamesAssumption ==
    /\ Scoped \in BOOLEAN /\ SignedIn \in BOOLEAN /\ MaxSets \in Nat
    /\ None \notin Resources \cup Schemes

VARIABLES
    part,
    items, sets, stored

Names == INSTANCE TokenProperties

Symmetry == Permutations(Resources) \cup Permutations(Schemes)

namesVars == <<items, sets, stored>>
allVars == <<part, vars, namesVars>>

\* The other APIs of r1 are a renaming of these.
MCInit ==
    /\ part \in {"requests", "names"}
    /\ Init /\ api[r1] = a1
    /\ part = "names" => api[r2] = a1
    /\ Names!Init

MCNext ==
    /\ \/ part = "requests" /\ Next /\ UNCHANGED namesVars
       \/ part = "names" /\ Names!Next /\ UNCHANGED vars
    /\ UNCHANGED part

MCSpec == MCInit /\ [][MCNext]_allVars

\* The refresh token is shared with all resources of a scheme: no step takes it
\* from a resource whose access token stays, and the one that removes the last
\* access token of the scheme removes what they shared.
SharedItemsLastAsNeeded == [][part = "names" => Names!SharedItemsLast]_allVars
================================================================================
