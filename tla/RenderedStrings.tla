--------------------------- MODULE RenderedStrings ---------------------------
(***************************************************************************)
(* Renders of RazorSlices to a string or to a StringBuilder of the caller:  *)
(* the pooled ReusableStringWriter that every such render takes, and the    *)
(* pooled StringBuilder behind it when a string is asked for.               *)
(*                                                                          *)
(* A render that does not end successfully keeps both, so that what still   *)
(* holds the writer, a rejected delegate or a task that nobody awaited,     *)
(* writes where it wrote before.                                            *)
(***************************************************************************)
EXTENDS Naturals, Sequences

CONSTANTS
    Renders,     \* distinct from Builders, as all other values here are
    ToBuilder,   \* the renders to a builder of the caller
    Writers,     \* instances of ReusableStringWriter
    Builders,    \* instances of StringBuilder in _stringBuilderPool
    MaxPieces,   \* bound of the model: pieces of text that a render writes
    None

VARIABLES
    phase,     \* of each render
    writer,    \* the ReusableStringWriter a render has, or what it left behind still has
    builder,   \* the builder a render asked to be written: its caller's is named like it
    pooled,    \* the instances in the two pools, or not constructed yet
    sb,        \* _sb of each writer
    content,   \* of each builder
    written,   \* how many pieces each render has written
    late,      \* something of a failed render still holds its writer
    result     \* the string a render returned

vars == <<phase, writer, builder, pooled, sb, content, written, late, result>>

Pieces == [by : Renders, n : 1..MaxPieces]

TypeOK ==
    /\ phase \in [Renders -> {"new", "running", "rendered", "done", "failed"}]
    /\ writer \in [Renders -> Writers \cup {None}]
    /\ builder \in [Renders -> Builders \cup Renders \cup {None}]
    /\ pooled \subseteq Writers \cup Builders
    /\ sb \in [Writers -> Builders \cup Renders \cup {None}]
    /\ content \in [Builders \cup ToBuilder -> Seq(Pieces)]
    /\ written \in [Renders -> 0..MaxPieces] /\ late \in [Renders -> BOOLEAN]
    /\ result \in [Renders -> Seq(Pieces) \cup {None}]

Init ==
    /\ phase = [r \in Renders |-> "new"]
    /\ writer = [r \in Renders |-> None] /\ builder = [r \in Renders |-> None]
    /\ pooled = Writers \cup Builders
    /\ sb = [w \in Writers |-> None]
    /\ content = [b \in Builders \cup ToBuilder |-> <<>>]
    /\ written = [r \in Renders |-> 0] /\ late = [r \in Renders |-> FALSE]
    /\ result = [r \in Renders |-> None]

\* RenderAsync: a builder from the pool for a string, then a writer.
StartRender(r) ==
    /\ phase[r] = "new"
    /\ \E w \in Writers \cap pooled, b \in IF r \in ToBuilder THEN {r} ELSE Builders \cap pooled :
          /\ pooled' = pooled \ {w, b}
          /\ writer' = [writer EXCEPT ![r] = w]
          /\ builder' = [builder EXCEPT ![r] = b]
          /\ sb' = [sb EXCEPT ![w] = b]
    /\ phase' = [phase EXCEPT ![r] = "running"]
    /\ UNCHANGED <<content, written, late, result>>

\* ReusableStringWriter.Write: nothing is written after Reset.
Write(r) ==
    /\ phase[r] = "running" \/ late[r]
    /\ written[r] < MaxPieces
    /\ LET b == sb[writer[r]]
           piece == [by |-> r, n |-> written[r] + 1]
       IN  content' = IF b = None THEN content ELSE [content EXCEPT ![b] = Append(@, piece)]
    /\ written' = [written EXCEPT ![r] = @ + 1]
    /\ UNCHANGED <<phase, writer, builder, pooled, sb, late, result>>

\* Mutant: the writer is returned whether or not the render succeeded.
FailAndReturnWriter(r) ==
    /\ phase[r] = "running"
    /\ phase' = [phase EXCEPT ![r] = "failed"]
    /\ pooled' = pooled \cup {writer[r]}
    /\ sb' = [sb EXCEPT ![writer[r]] = None]
    /\ \E l \in BOOLEAN : late' = [late EXCEPT ![r] = l]
    /\ UNCHANGED <<writer, builder, content, written, result>>

\* The exception, or the cancellation, leaves RenderAsync as it is: nothing is
\* returned to the pools, and a rejected delegate may go on writing.
Fail(r) ==
    /\ phase[r] = "running"
    /\ phase' = [phase EXCEPT ![r] = "failed"]
    /\ \E l \in BOOLEAN : late' = [late EXCEPT ![r] = l]
    /\ UNCHANGED <<writer, builder, pooled, sb, content, written, result>>

\* The inner RenderAsync has ended and returns the writer, which is reset.
ReturnWriter(r) ==
    /\ phase[r] = "running"
    /\ phase' = [phase EXCEPT ![r] = IF r \in ToBuilder THEN "done" ELSE "rendered"]
    /\ pooled' = pooled \cup {writer[r]}
    /\ sb' = [sb EXCEPT ![writer[r]] = None]
    /\ UNCHANGED <<writer, builder, content, written, late, result>>

\* The outer one takes the string and returns the builder, which is cleared, or
\* dropped if it has grown too large for the pool.
ReturnString(r) ==
    /\ phase[r] = "rendered"
    /\ phase' = [phase EXCEPT ![r] = "done"]
    /\ result' = [result EXCEPT ![r] = content[builder[r]]]
    /\ \/ /\ content' = [content EXCEPT ![builder[r]] = <<>>]
          /\ pooled' = pooled \cup {builder[r]}
       \/ UNCHANGED <<content, pooled>>
    /\ UNCHANGED <<writer, builder, sb, written, late>>

LateEnd(r) ==
    /\ late[r]
    /\ late' = [late EXCEPT ![r] = FALSE]
    /\ UNCHANGED <<phase, writer, builder, pooled, sb, content, written, result>>

Next ==
    \E r \in Renders :
        StartRender(r) \/ Write(r) \/ Fail(r) \/ ReturnWriter(r) \/ ReturnString(r) \/ LateEnd(r)

Spec == Init /\ [][Next]_vars

-----------------------------------------------------------------------------
(* Properties *)

Exactly(r, text) == text = [n \in 1..written[r] |-> [by |-> r, n |-> n]]

\* A render that succeeds gives its caller exactly what it has written, and a
\* builder of a caller only ever gets that, although writers and builders are
\* pooled and what is left of a failed render may go on writing at any time.
StringsAreFaithful ==
    /\ \A r \in ToBuilder : Exactly(r, content[r])
    /\ \A r \in Renders \ ToBuilder : phase[r] = "done" => Exactly(r, result[r])
=============================================================================
