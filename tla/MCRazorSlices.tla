----------------------------- MODULE MCRazorSlices -----------------------------
(* The parts of RazorSlices, for TLC: the rendering of a slice with layouts    *)
(* (part "templates"); the pooled writers, with delegates that are rejected,   *)
(* with nested contents or with wrapped pipes (part "writers"); the renders to *)
(* a string or a builder (part "strings"); the encoding into the pipe (part    *)
(* "pipe"); and the HTML attributes (part "attributes").  They share no state;  *)
(* a behavior is one of one of them, and the variables of the others stay as   *)
(* they are.  Writers, helper types and partials do not differ: they are       *)
(* numbered and used in that order.                                            *)
EXTENDS RazorSliceRendering, RazorSliceOutputs, RazorSliceText

CONSTANTS
    l1, l2,
    MaxLength, MaxLong

VARIABLE part

TwoLayouts == <<l1, l2>>

Rejecting == [uncounted |-> {}, nested |-> FALSE, async |-> TRUE]
Nesting == [uncounted |-> {}, nested |-> TRUE, async |-> FALSE]
Wrapping == [uncounted |-> Renders, nested |-> FALSE, async |-> FALSE]

\* An ASCII letter, an ampersand, a three-byte character and one that takes
\* two UTF-16 units, in texts on both sides of every limit.
Letter == [bytes |-> 1, units |-> 1, escape |-> 0]
Ampersand == [bytes |-> 1, units |-> 1, escape |-> 5]
Dash == [bytes |-> 3, units |-> 1, escape |-> 0]
Emoji == [bytes |-> 4, units |-> 2, escape |-> 0]
FourScalars == {Letter, Ampersand, Dash, Emoji}
ShortTexts == UNION {[1..n -> FourScalars] : n \in 0..MaxLength}
LongTexts == {[i \in 1..n |-> IF i % 3 = 0 THEN Letter ELSE s] : n \in 6..MaxLong, s \in FourScalars}

TheTexts == ShortTexts \cup LongTexts

writersVars == <<environment, phase, thread, frames, writing, textWriter, saved, late, cached, used, pipe, memory,
                 tracker, pool, inner, written, rendered>>
stringsVars == <<rendering, stringWriter, builder, pooled, sb, contents, pieces, lingering, result>>
pipeVars == <<op, text, pipePc, rest, room, minimum, buffer, length, html, span, waiting, granted, rented, encoded>>
attributesVars == <<attributes, calls, info, output>>
allVars == <<part, vars, writersVars, stringsVars, pipeVars, attributesVars>>

MCInit ==
    /\ part \in {"templates", "writers", "strings", "pipe", "attributes"}
    /\ Init /\ Pooled!Init /\ Strings!Init /\ Attributes!Init
    /\ part # "templates" => asyncTemplates
    /\ environment \in IF part = "writers" THEN {Rejecting, Nesting, Wrapping} ELSE {Nesting}
    /\ part # "pipe" => op = "WriteHtml" /\ text = <<>>
    /\ Pipe!Init

ConstructedInOrder == \A w \in used' : 1..w \subseteq used'

UsedInOrder ==
    /\ \A h \in Helpers : created'[h] > 0 => \A g \in 1..(h - 1) : created'[g] > 0
    /\ \A p \in Partials \cap started' : 1..p \subseteq started'

MCNext ==
    /\ \/ part = "templates" /\ Next /\ UsedInOrder
          /\ UNCHANGED <<writersVars, stringsVars, pipeVars, attributesVars>>
       \/ part = "writers" /\ Pooled!Next /\ ConstructedInOrder
          /\ UNCHANGED <<vars, stringsVars, pipeVars, attributesVars>>
       \/ part = "strings" /\ Strings!Next /\ UNCHANGED <<vars, writersVars, pipeVars, attributesVars>>
       \/ part = "pipe" /\ Pipe!Next /\ UNCHANGED <<vars, writersVars, stringsVars, attributesVars>>
       \/ part = "attributes" /\ Attributes!Next /\ UNCHANGED <<vars, writersVars, stringsVars, pipeVars>>
    /\ UNCHANGED part

\* The methods that encode into the pipe are called synchronously.
MCFairness ==
    WF_allVars(part = "pipe" /\ Pipe!Step /\ UNCHANGED <<part, vars, writersVars, stringsVars, attributesVars>>)

MCSpec == MCInit /\ [][MCNext]_allVars /\ MCFairness

-----------------------------------------------------------------------------
(* Properties of the other parts.                                          *)

\* No text and no grant makes a loop spin: every method returns.
EveryWriteEnds == part = "pipe" => Pipe!EveryWriteEnds
================================================================================
