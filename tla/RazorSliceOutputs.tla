-------------------------- MODULE RazorSliceOutputs --------------------------
(***************************************************************************)
(* The outputs of renders: to pipes, through the pooled writers, and to      *)
(* strings and builders.  The renders of one kind share nothing with those   *)
(* of the other.                                                            *)
(***************************************************************************)
EXTENDS Naturals, Sequences, FiniteSets

CONSTANTS
    Nothing,
    Renders, Threads, Writers, Trackers, MaxPieces,                   \* RazorSliceWriters
    StringRenders, ToBuilder, StringWriters, Builders, MaxTexts       \* RenderedStrings

ASSUME WritersAssumption ==
    /\ MaxPieces \in Nat
    /\ Nothing \notin Renders \cup Threads \cup Writers \cup Trackers
    /\ Renders \cap Trackers = {}

ASSUME StringsAssumption ==
    /\ MaxTexts \in Nat
    /\ ToBuilder \subseteq StringRenders
    /\ Nothing \notin StringRenders \cup StringWriters \cup Builders
    /\ StringWriters \cap Builders = {} /\ StringRenders \cap Builders = {}

VARIABLES
    environment, phase, thread, frames, writing, textWriter, saved, late, cached, used, pipe, memory, tracker,
    pool, inner, written, rendered,
    rendering, stringWriter, builder, pooled, sb, contents, pieces, lingering, result

\* The code keeps the output of each render its own in these environments: see
\* MCRecycledWriters for the others.
Faithful == {e \in [uncounted : SUBSET Renders, nested : BOOLEAN, async : BOOLEAN] :
                e.async => e.uncounted = {} /\ ~e.nested}

Pooled == INSTANCE RazorSliceWriters WITH
    Environments <- Faithful, failing <- writing, text <- textWriter, output <- rendered, None <- Nothing

Strings == INSTANCE RenderedStrings WITH
    Renders <- StringRenders, Writers <- StringWriters, MaxPieces <- MaxTexts, None <- Nothing,
    phase <- rendering, writer <- stringWriter, content <- contents, written <- pieces, late <- lingering

\* What one render writes reaches its own output and no other, in the order it
\* was written, and all of it if the render ends without an exception, although
\* the writers and builders are pooled and a rejected delegate may go on writing.
OutputIsFaithful == Pooled!OutputIsFaithful /\ Strings!StringsAreFaithful
==============================================================================
