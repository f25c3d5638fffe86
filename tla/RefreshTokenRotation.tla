------------------------ MODULE RefreshTokenRotation ------------------------
(***************************************************************************)
(* What refresh token rotation promises for the session of a user: the     *)
(* token endpoint issues one refresh token after another, and the session  *)
(* only ever moves on to a newer one that has been issued.                 *)
(***************************************************************************)
EXTENDS Naturals

CONSTANT Users

VARIABLES
    current,    \* current[u]: the number of the newest refresh token of u
    held        \* held[u]: the number of the one in u's session

Init == current = [u \in Users |-> 0] /\ held = [u \in Users |-> 0]

Issue(u) ==
    /\ current' = [current EXCEPT ![u] = @ + 1]
    /\ UNCHANGED held

Adopt(u) ==
    /\ \E g \in (held[u] + 1)..current[u] : held' = [held EXCEPT ![u] = g]
    /\ UNCHANGED current

Next == \E u \in Users : Issue(u) \/ Adopt(u)

Spec == Init /\ [][Next]_<<current, held>>
=============================================================================
