----------------------------- MODULE RazorSliceText -----------------------------
(*****************************************************************************)
(* What a slice writes: the text that the encoding methods put into the      *)
(* pipe, and the HTML attributes.  They share nothing.  Markup in the value  *)
(* of an attribute has no attributes of its own here: the code shares        *)
(* _attributeInfo between an attribute and those in its value, which         *)
(* OutputIsExact does not say anything of.                                   *)
(*****************************************************************************)
EXTENDS Naturals, Sequences

CONSTANTS
    Scalars, Texts, Slack, SmallChars, SmallFormat, SmallFormatBytes,
    MaxBufferSize, MaxUtf8BytesPerScalar,                              \* PipeWriterHtml
    MaxValues                                                          \* RazorSliceAttributes

VARIABLES
    op, text, pipePc, rest, room, minimum, buffer, length, html, span, waiting, granted, rented, encoded,
    attributes, calls, info, output

Pipe == INSTANCE PipeWriterHtml WITH pc <- pipePc, output <- encoded

Attributes == INSTANCE RazorSliceAttributes WITH NestedAttributes <- FALSE

ASSUME TextAssumption ==
    /\ Scalars \subseteq [bytes : Nat, units : Nat, escape : Nat] /\ Pipe!Ascii \in Scalars
    /\ Texts \subseteq Seq(Scalars)
    /\ Slack \in Nat /\ SmallChars \in Nat /\ SmallFormat \in Nat /\ SmallFormatBytes \in Nat
    /\ MaxBufferSize \in Nat /\ MaxUtf8BytesPerScalar \in Nat /\ MaxValues \in Nat

\* Whatever spans the pipe grants, it gets the encoded text: at any time a part
\* of it from its beginning, and all of it when the method returns.  What is
\* advanced was written inside the granted span, and rented arrays are returned.
\* Every attribute that has ended is in the output from its prefix to its
\* suffix, with all its values, or is omitted: and that only when its single
\* value is null or false.  No attribute disturbs another one.
OutputIsExact == Pipe!OutputIsExact /\ Attributes!AttributesAreWhole
================================================================================
