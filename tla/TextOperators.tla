----------------------------- MODULE TextOperators -----------------------------
(***************************************************************************)
(* Sums and concatenations over sequences, and what else the modules on    *)
(* written texts need of SequencesExt and FiniteSetsExt.  Those modules    *)
(* would come with each instance of these, and the provers look at every   *)
(* definition of an instance.                                              *)
(***************************************************************************)
EXTENDS Naturals, Sequences

Max(S) == CHOOSE x \in S : \A y \in S : y <= x
Min(S) == CHOOSE x \in S : \A y \in S : x <= y

Total(sizes) ==
    LET total[k \in 0..Len(sizes)] == IF k = 0 THEN 0 ELSE total[k - 1] + sizes[k]
    IN  total[Len(sizes)]

FlattenSeq(seqs) ==
    LET flat[k \in 0..Len(seqs)] == IF k = 0 THEN <<>> ELSE flat[k - 1] \o seqs[k]
    IN  flat[Len(seqs)]

IsPrefix(s, t) == Len(s) <= Len(t) /\ SubSeq(t, 1, Len(s)) = s
================================================================================
