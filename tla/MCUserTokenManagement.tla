------------------------ MODULE MCUserTokenManagement ------------------------
(* Instances of UserTokenManagement for TLC.                               *)
EXTENDS UserTokenManagement, TLC

CONSTANTS u1, u2, r1, r2, r3, c1, c2, c3, p1, p2

\* The browser of one user sends two requests, that of another user a third.
TwoUsers == (r1 :> u1) @@ (r2 :> u1) @@ (r3 :> u2)
OneEach == (c1 :> r1) @@ (c2 :> r2) @@ (c3 :> r3)

\* One request that makes two calls.
OneUser == [r \in Requests |-> u1]
AllInOne == [c \in Calls |-> r1]

\* The first two requests may be exchanged, each with its call.
Exchange == (r1 :> r2) @@ (r2 :> r1) @@ (c1 :> c2) @@ (c2 :> c1)
Symmetry == {Exchange} \cup Permutations({p1, p2})

\* The other user has a refresh token and only gets tokens, without force.
HasRefreshToken(u) == cookie[u] # None /\ cookie[u].rt # None
MCInit == Init /\ \A u \in Users \ {u1} : HasRefreshToken(u)

Ordinary == \A c \in Calls : UserOfCall(c) # u1 /\ pc'[c] # "idle" => mode'[c] = "normal"
MCNext == Next /\ Ordinary

MCSpec == MCInit /\ [][MCNext]_vars
==============================================================================
