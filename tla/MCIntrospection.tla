---------------------------- MODULE MCIntrospection ----------------------------
(* Instances of Introspection for TLC.  The requests do not differ, so they   *)
(* are numbered and begin in that order: a symmetry reduction that, unlike    *)
(* SYMMETRY, may be used with liveness properties.                            *)
EXTENDS Introspection

BeginInOrder ==
    \A r \in Requests : pc[r] = "idle" /\ pc'[r] # "idle" => \A q \in 1..(r - 1) : pc[q] # "idle"

MCNext == IntrospectionNext /\ BeginInOrder

MCSpec == IntrospectionInit /\ [][MCNext]_allVars /\ IntrospectionFairness
================================================================================
