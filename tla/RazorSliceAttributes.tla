-------------------------- MODULE RazorSliceAttributes --------------------------
(***************************************************************************)
(* BeginWriteAttribute, WriteAttributeValue and EndWriteAttribute, which    *)
(* the Razor compiler calls for every HTML attribute with expressions, and  *)
(* share the field _attributeInfo.  The value of an attribute may be a      *)
(* templated delegate or a call of a template method, whose markup has      *)
(* attributes of its own.                                                   *)
(*                                                                          *)
(* Attributes are numbered in the order they begin, and the output is the   *)
(* sequence of the literals and values written.                             *)
(***************************************************************************)
EXTENDS Naturals, Sequences, TextOperators

CONSTANTS
    NestedAttributes,   \* whether markup in a value has attributes of its own
    MaxValues           \* bound of the model: values of a template's attributes

\* "template" is written as a delegate, after the literal before it; the markup
\* of "method" is written while the argument of WriteAttributeValue is evaluated.
Kinds == {"null", "false", "true", "text", "template", "method"}
Values == [kind : Kinds, spaced : BOOLEAN]

VARIABLES
    attributes,  \* the values of each attribute that has begun
    calls,       \* the attributes that have not ended, the innermost last
    info,        \* _attributeInfo
    output

vars == <<attributes, calls, info, output>>

Tokens == [token : {"prefix", "suffix", "name", "space", "value"}, of : Nat]

Inner == calls[Len(calls)]

TypeOK ==
    /\ attributes \in Seq(Seq(Values))
    /\ \A i \in DOMAIN calls :
          /\ calls[i] \in [attribute : DOMAIN attributes, done : Nat, markup : BOOLEAN]
          /\ i < Len(calls) => calls[i].markup
    /\ info \in [of : Nat, single : BOOLEAN, suppressed : BOOLEAN]
    /\ output \in Seq(Tokens)
    /\ calls # <<>> => info.of >= Inner.attribute

Init ==
    /\ attributes = <<>> /\ calls = <<>> /\ output = <<>>
    /\ info = [of |-> 0, single |-> FALSE, suppressed |-> FALSE]

Literal(token) == <<[token |-> token, of |-> info.of]>>

\* The tokens of one value, without the attribute's own prefix.
ValueTokens(a, v, single) ==
    (IF v.spaced THEN <<[token |-> "space", of |-> a]>> ELSE <<>>)
        \o <<[token |-> IF v.kind = "true" /\ single /\ ~v.spaced THEN "name" ELSE "value", of |-> a]>>

\* Null or false, alone, and nothing in front of it.
IsOmitted(v, single) == single /\ ~v.spaced /\ v.kind \in {"null", "false"}

\* Mutant: one instance that is updated each time.
BeginWithSharedInfo(values) ==
    LET a == Len(attributes) + 1
        single == Len(values) = 1
    IN  /\ calls # <<>> => Inner.markup /\ NestedAttributes
        /\ attributes' = Append(attributes, values)
        /\ calls' = Append(calls, [attribute |-> a, done |-> 0, markup |-> FALSE])
        /\ info' = [info EXCEPT !.of = a, !.single = single]
        /\ output' = IF single THEN output ELSE Append(output, [token |-> "prefix", of |-> a])

BeginWriteAttribute(values) ==
    LET a == Len(attributes) + 1
        single == Len(values) = 1
    IN  /\ calls # <<>> => Inner.markup /\ NestedAttributes
        /\ attributes' = Append(attributes, values)
        /\ calls' = Append(calls, [attribute |-> a, done |-> 0, markup |-> FALSE])
        /\ info' = [of |-> a, single |-> single, suppressed |-> FALSE]
        /\ output' = IF single THEN output ELSE Append(output, [token |-> "prefix", of |-> a])

NextValue == attributes[Inner.attribute][Inner.done + 1]
HasValue == calls # <<>> /\ ~Inner.markup /\ Inner.done < Len(attributes[Inner.attribute])
ValueWritten == calls' = [calls EXCEPT ![Len(calls)].done = @ + 1, ![Len(calls)].markup = FALSE]

\* WriteAttributeValue of null or false that is not rendered.
OmitValue ==
    /\ HasValue
    /\ IsOmitted(NextValue, info.single)
    /\ info' = [info EXCEPT !.suppressed = TRUE]
    /\ ValueWritten
    /\ UNCHANGED <<attributes, output>>

\* WriteAttributeValue of any other value that is there at once; null is only
\* the attribute's prefix.
WriteAttributeValue ==
    /\ HasValue
    /\ ~IsOmitted(NextValue, info.single) /\ NextValue.kind \notin {"template", "method"}
    /\ output' = output \o (IF info.single THEN Literal("prefix") ELSE <<>>)
                        \o (IF NextValue.kind = "null" THEN <<>>
                            ELSE ValueTokens(Inner.attribute, NextValue, info.single))
    /\ ValueWritten
    /\ UNCHANGED <<attributes, info>>

\* A delegate is written after the literals in front of it, a method's markup
\* before them; attributes begin and end in it.
BeginMarkup ==
    /\ HasValue /\ NextValue.kind \in {"template", "method"}
    /\ calls' = [calls EXCEPT ![Len(calls)].markup = TRUE]
    /\ output' = IF NextValue.kind = "method" THEN output
                 ELSE output \o (IF info.single THEN Literal("prefix") ELSE <<>>)
                             \o (IF NextValue.spaced
                                 THEN <<[token |-> "space", of |-> Inner.attribute]>> ELSE <<>>)
    /\ UNCHANGED <<attributes, info>>

EndMarkup ==
    /\ calls # <<>> /\ Inner.markup
    /\ output' = IF NextValue.kind = "template"
                 THEN Append(output, [token |-> "value", of |-> Inner.attribute])
                 ELSE output \o (IF info.single THEN Literal("prefix") ELSE <<>>)
                             \o ValueTokens(Inner.attribute, NextValue, info.single)
    /\ ValueWritten
    /\ UNCHANGED <<attributes, info>>

EndWriteAttribute ==
    /\ calls # <<>> /\ ~Inner.markup /\ Inner.done = Len(attributes[Inner.attribute])
    /\ output' = IF info.suppressed THEN output ELSE output \o Literal("suffix")
    /\ calls' = SubSeq(calls, 1, Len(calls) - 1)
    /\ UNCHANGED <<attributes, info>>

EndTemplate == calls = <<>> /\ UNCHANGED vars

Next ==
    \/ \E n \in 1..(MaxValues - Len(FlattenSeq(attributes))) :
          \E values \in [1..n -> Values] : BeginWriteAttribute(values)
    \/ OmitValue \/ WriteAttributeValue \/ BeginMarkup \/ EndMarkup \/ EndWriteAttribute
    \/ EndTemplate

Spec == Init /\ [][Next]_vars

-----------------------------------------------------------------------------
(* Properties *)

\* What the output should have of an attribute, whatever is inside its value.
Whole(a) ==
    LET values == attributes[a]
        single == Len(values) = 1
        written == [i \in DOMAIN values |->
                       IF values[i].kind = "null" THEN <<>> ELSE ValueTokens(a, values[i], single)]
    IN  IF IsOmitted(values[1], single) THEN <<>>
        ELSE <<[token |-> "prefix", of |-> a]>> \o FlattenSeq(written) \o <<[token |-> "suffix", of |-> a]>>

\* What the output has of it.
TokensOf(a) == FlattenSeq([i \in DOMAIN output |-> IF output[i].of = a THEN <<output[i]>> ELSE <<>>])

\* Every attribute that has ended is in the output from its prefix to its
\* suffix, with all its values, or is omitted: and that only when its single
\* value is null or false.  No attribute disturbs another one.
AttributesAreWhole ==
    \A a \in DOMAIN attributes :
        (\A i \in DOMAIN calls : calls[i].attribute # a) => TokensOf(a) = Whole(a)
=============================================================================
