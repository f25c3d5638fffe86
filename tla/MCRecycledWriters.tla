-------------------------- MODULE MCRecycledWriters --------------------------
(* The pooled writers where they are not faithful to their renders: delegates *)
(* that are rejected, in renders to pipes that need a FlushTrackingPipeWriter. *)
EXTENDS RazorSliceWriters

NoneCounted == {[uncounted |-> Renders, nested |-> FALSE, async |-> TRUE]}
==============================================================================
