----------------------------- MODULE PipeWriterHtml -----------------------------
(***************************************************************************)
(* The loops of PipeWriterHtmlExtensions and of Utf8PipeTextWriter, which   *)
(* encode a text into the spans that a PipeWriter grants, whatever their    *)
(* lengths, and into rented and stack buffers in between.                   *)
(*                                                                          *)
(* A scalar is the number of bytes and of UTF-16 units it takes, and the    *)
(* number of characters the HtmlEncoder replaces it with (0: none).  The    *)
(* sizes of BufferSizes are constants, and are small in the runs.  What an  *)
(* encoder takes and writes is bound by \E over a single value, which TLC    *)
(* then computes once.                                                      *)
(***************************************************************************)
EXTENDS Naturals, Sequences, TextOperators

CONSTANTS
    Scalars,
    Texts,            \* the texts that are written
    Slack,            \* how much longer than its hint a granted span can be
    SmallChars,       \* SmallTextWriteCharSize
    SmallFormat,      \* SmallFormattableWriteCharSize
    SmallFormatBytes, \* SmallFormattableWriteByteSize
    MaxBufferSize,
    MaxUtf8BytesPerScalar

Ascii == [bytes |-> 1, units |-> 1, escape |-> 0]
MaxOf(S) == Max(S \cup {0})

VARIABLES
    op,        \* the method that was called
    text,      \* with this text
    pc,
    rest,      \* what it has not encoded yet
    room,      \* length of the rest of the encoder's destination
    minimum,   \* minimumSpanSize
    buffer,    \* encoded text in the rented or stack buffer (waitingToWrite)
    length,    \* length of that buffer
    html,      \* the text that the inner WriteHtml has not written
    span,      \* length of the rest of writerSpan
    waiting,   \* what was written to the granted span and not advanced (waitingToAdvance)
    granted,   \* length of that span
    rented,    \* arrays taken from the pool
    output

vars == <<op, text, pc, rest, room, minimum, buffer, length, html, span, waiting, granted, rented, output>>

Ops == {"HtmlEncodeAndWriteUtf8", "HtmlEncodeAndWrite", "WriteHtml", "WriteInternal",
        "WriteSpanFormattable", "WriteUtf8SpanFormattable"}

Bytes(t) == Total([i \in DOMAIN t |-> t[i].bytes])
Units(t) == Total([i \in DOMAIN t |-> t[i].units])
Escape(s) == IF s.escape = 0 THEN <<s>> ELSE [k \in 1..s.escape |-> Ascii]
Encoded(t) == FlattenSeq([i \in DOMAIN t |-> Escape(t[i])])
Expected == IF op \in {"WriteHtml", "WriteInternal"} THEN text ELSE Encoded(text)

UpTo(t, n) == SubSeq(t, 1, n)
From(t, n) == SubSeq(t, n + 1, Len(t))

\* How many scalars of these sizes a destination of length n takes: an encoder
\* never writes a part of a scalar or of an escape.
Fit(sizes, n) == MaxOf({k \in DOMAIN sizes : Total(UpTo(sizes, k)) <= n})
FitBytes(t, n) == Fit([i \in DOMAIN t |-> t[i].bytes], n)
FitEncodedBytes(t, n) == Fit([i \in DOMAIN t |-> Bytes(Escape(t[i]))], n)
FitEncodedUnits(t, n) == Fit([i \in DOMAIN t |-> Units(Escape(t[i]))], n)

\* GetHtmlEncodedSizeHint: a tenth more than the text, rounded, and not too much.
EncodedSizeHint(n) == Min({MaxBufferSize, (11 * n + 5) \div 10})

\* The lengths that PipeWriter.GetSpan and ArrayPool.Rent may answer a hint with.
Grants(hint) == MaxOf({1, hint})..(MaxOf({1, hint}) + Slack)

TypeOK ==
    /\ op \in Ops /\ text \in Texts
    /\ pc \in {"start", "format", "utf8", "rented", "small", "html", "writer", "done"}
    /\ rest \in Seq(Scalars) /\ buffer \in Seq(Scalars) /\ html \in Seq(Scalars)
    /\ waiting \in Seq(Scalars) /\ output \in Seq(Scalars)
    /\ room \in Nat /\ minimum \in Nat /\ length \in Nat /\ span \in Nat /\ granted \in Nat
    /\ rented \in 0..2
    /\ pc \notin {"html", "done"} => html = <<>>
    /\ Units(buffer) <= length

Init ==
    /\ op \in Ops /\ text \in Texts
    /\ pc = "start" /\ rest = text /\ buffer = <<>> /\ html = <<>> /\ waiting = <<>>
    /\ room = 0 /\ minimum = 0 /\ length = 0 /\ span = 0 /\ granted = 0
    /\ rented = 0 /\ output = <<>>

\* The arrays a call has rented by its end: for the encoded text, and for the
\* formatted value.
EncodingArrays ==
    IF op \in {"HtmlEncodeAndWrite", "WriteSpanFormattable"} /\ Units(text) > SmallChars THEN 1 ELSE 0
FormatArrays ==
    IF \/ op = "WriteSpanFormattable" /\ Units(text) > SmallFormat
       \/ op = "WriteUtf8SpanFormattable" /\ Bytes(text) > SmallFormatBytes
    THEN 1 ELSE 0

\* The entry of each method.
StartUtf8 ==
    /\ pc = "start" /\ op = "HtmlEncodeAndWriteUtf8"
    /\ pc' = "utf8"
    /\ UNCHANGED <<op, text, rest, room, minimum, buffer, length, html, span, waiting, granted, rented, output>>

\* HtmlEncodeAndWrite: a short text goes through the stack, a long one through
\* a rented array.
ChooseBuffer ==
    \/ /\ Units(rest) <= SmallChars
       /\ pc' = "small" /\ length' = SmallChars
       /\ UNCHANGED <<room, rented>>
    \/ /\ Units(rest) > SmallChars
       /\ length' \in Grants(EncodedSizeHint(Units(rest)))
       /\ room' = length' /\ rented' = rented + 1 /\ pc' = "rented"

StartEncode ==
    /\ pc = "start" /\ op = "HtmlEncodeAndWrite"
    /\ ChooseBuffer
    /\ UNCHANGED <<op, text, rest, minimum, buffer, html, span, waiting, granted, output>>

StartWriteHtml ==
    /\ pc = "start" /\ op = "WriteHtml"
    /\ pc' = "html" /\ html' = text /\ rest' = <<>>
    /\ UNCHANGED <<op, text, room, minimum, buffer, length, span, waiting, granted, rented, output>>

StartWriteInternal ==
    /\ pc = "start" /\ op = "WriteInternal"
    /\ pc' = "writer"
    /\ UNCHANGED <<op, text, rest, room, minimum, buffer, length, html, span, waiting, granted, rented, output>>

\* The length of a formatted value, what is on the stack for it, and what
\* happens to it when TryFormat succeeds.
FormattedLength == IF op = "WriteSpanFormattable" THEN Units(text) ELSE Bytes(text)
SmallFormatLength == IF op = "WriteSpanFormattable" THEN SmallFormat ELSE SmallFormatBytes
WriteFormatted ==
    \/ op = "WriteSpanFormattable" /\ ChooseBuffer
    \/ op = "WriteUtf8SpanFormattable" /\ pc' = "utf8" /\ UNCHANGED <<length, room, rented>>

\* HtmlEncodeAndWriteSpanFormattable and its UTF-8 twin: TryFormat into the
\* stack, then into an array of twice that size, and so on.
FormatSmall ==
    /\ pc = "start" /\ op \in {"WriteSpanFormattable", "WriteUtf8SpanFormattable"}
    /\ \/ FormattedLength <= SmallFormatLength /\ WriteFormatted
       \/ /\ FormattedLength > SmallFormatLength
          /\ length' \in Grants(2 * SmallFormatLength) /\ rented' = rented + 1 /\ pc' = "format"
          /\ UNCHANGED room
    /\ UNCHANGED <<op, text, rest, minimum, buffer, html, span, waiting, granted, output>>

FormatLarge ==
    /\ pc = "format"
    /\ \/ FormattedLength <= length /\ WriteFormatted
       \/ /\ FormattedLength > length
          /\ length' \in Grants(2 * length)   \* Return, and Rent again
          /\ UNCHANGED <<pc, room, rented>>
    /\ UNCHANGED <<op, text, rest, minimum, buffer, html, span, waiting, granted, output>>

\* HtmlEncodeAndWriteUtf8: Advance over the used span and get another one.
GetSpanForUtf8 ==
    /\ pc = "utf8" /\ rest # <<>> /\ span = 0
    /\ output' = output \o waiting /\ waiting' = <<>>
    /\ granted' \in Grants(Max({EncodedSizeHint(Bytes(rest)), minimum}))
    /\ span' = granted'
    /\ UNCHANGED <<op, text, pc, rest, room, minimum, buffer, length, html, rented>>

\* EncodeUtf8 into the span; when not even one scalar fits, ask for more room.
EncodeUtf8 ==
    /\ pc = "utf8" /\ rest # <<>> /\ span > 0
    /\ \E n \in {FitEncodedBytes(rest, span)} : \E new \in {Encoded(UpTo(rest, n))} :
          \/ n = 0 /\ minimum' = span + 1 /\ span' = 0 /\ UNCHANGED <<rest, waiting>>
          \/ /\ n > 0 /\ rest' = From(rest, n) /\ waiting' = waiting \o new /\ span' = span - Bytes(new)
             /\ UNCHANGED minimum
    /\ UNCHANGED <<op, text, pc, room, buffer, length, html, granted, rented, output>>

\* Mutant: the rest of the last span is not advanced.
EndWithoutAdvance ==
    /\ pc = "utf8" /\ rest = <<>>
    /\ span' = 0 /\ waiting' = <<>> /\ pc' = "done" /\ rented' = rented - FormatArrays
    /\ UNCHANGED <<op, text, rest, room, minimum, buffer, length, html, granted, output>>

EndUtf8 ==
    /\ pc = "utf8" /\ rest = <<>>
    /\ output' = output \o waiting /\ waiting' = <<>> /\ span' = 0
    /\ pc' = "done" /\ rented' = rented - FormatArrays
    /\ UNCHANGED <<op, text, rest, room, minimum, buffer, length, html, granted>>

\* HtmlEncodeAndWrite with a rented array: encode into the rest of it.
EncodeToRented ==
    /\ pc = "rented" /\ rest # <<>> /\ room > 0
    /\ \E n \in {FitEncodedUnits(rest, room)} : \E new \in {Encoded(UpTo(rest, n))} :
          \/ n = 0 /\ room' = 0 /\ UNCHANGED <<rest, buffer>>
          \/ n > 0 /\ rest' = From(rest, n) /\ buffer' = buffer \o new /\ room' = room - Units(new)
    /\ UNCHANGED <<op, text, pc, minimum, length, html, span, waiting, granted, rented, output>>

\* The array is full: write what it holds, and start again at its beginning.
WriteRented ==
    /\ pc = "rented" /\ (rest = <<>> \/ room = 0)
    /\ pc' = "html" /\ html' = buffer /\ buffer' = <<>> /\ room' = length
    /\ UNCHANGED <<op, text, rest, minimum, length, span, waiting, granted, rented, output>>

\* HtmlEncodeAndWriteSmall: encode into the stack buffer and write that.
EncodeSmall ==
    /\ pc = "small" /\ rest # <<>>
    /\ \E n \in {FitEncodedUnits(rest, length)} :
          rest' = From(rest, n) /\ html' = Encoded(UpTo(rest, n))
    /\ pc' = "html"
    /\ UNCHANGED <<op, text, room, minimum, buffer, length, span, waiting, granted, rented, output>>

\* Mutant: the hint is the number of UTF-16 units.
GetSpanForUnits ==
    /\ pc = "html" /\ html # <<>> /\ span = 0
    /\ output' = output \o waiting /\ waiting' = <<>>
    /\ granted' \in Grants(Min({MaxBufferSize, Units(html)}))
    /\ span' = granted'
    /\ UNCHANGED <<op, text, pc, rest, room, minimum, buffer, length, html, rented>>

\* WriteHtml: Advance over the used span and get another one.
GetSpanForHtml ==
    /\ pc = "html" /\ html # <<>> /\ span = 0
    /\ output' = output \o waiting /\ waiting' = <<>>
    /\ granted' \in Grants(Min({MaxBufferSize, Max({MaxUtf8BytesPerScalar, Units(html)})}))
    /\ span' = granted'
    /\ UNCHANGED <<op, text, pc, rest, room, minimum, buffer, length, html, rented>>

\* Utf8.FromUtf16 into the span; when nothing fits, drop the rest of the span.
Transcode ==
    /\ pc = "html" /\ html # <<>> /\ span > 0
    /\ \E n \in {FitBytes(html, span)} : \E new \in {UpTo(html, n)} :
          \/ n = 0 /\ span' = 0 /\ UNCHANGED <<html, waiting>>
          \/ n > 0 /\ html' = From(html, n) /\ waiting' = waiting \o new /\ span' = span - Bytes(new)
    /\ UNCHANGED <<op, text, pc, rest, room, minimum, buffer, length, granted, rented, output>>

\* WriteHtml returns to the method that called it; that one returns its arrays
\* when it has nothing left.
EndWriteHtml ==
    /\ pc = "html" /\ html = <<>>
    /\ output' = output \o waiting /\ waiting' = <<>> /\ span' = 0
    /\ \/ rest # <<>> /\ pc' = (IF Units(text) > SmallChars THEN "rented" ELSE "small") /\ UNCHANGED rented
       \/ /\ rest = <<>> /\ pc' = "done"
          /\ rented' = rented - EncodingArrays - FormatArrays
    /\ UNCHANGED <<op, text, rest, room, minimum, buffer, length, html, granted>>

\* Utf8PipeTextWriter.WriteInternal: EnsureBuffer keeps room for a scalar.
EnsureBuffer ==
    /\ pc = "writer" /\ rest # <<>> /\ span < MaxUtf8BytesPerScalar
    /\ output' = output \o waiting /\ waiting' = <<>>
    /\ granted' \in Grants(MaxUtf8BytesPerScalar) /\ span' = granted'
    /\ UNCHANGED <<op, text, pc, rest, room, minimum, buffer, length, html, rented>>

WriteInternal ==
    /\ pc = "writer" /\ rest # <<>> /\ span >= MaxUtf8BytesPerScalar
    /\ \E n \in {FitBytes(rest, span)} : \E new \in {UpTo(rest, n)} :
          rest' = From(rest, n) /\ waiting' = waiting \o new /\ span' = span - Bytes(new)
    /\ UNCHANGED <<op, text, pc, room, minimum, buffer, length, html, granted, rented, output>>

\* Flush
Flush ==
    /\ pc = "writer" /\ rest = <<>>
    /\ output' = output \o waiting /\ waiting' = <<>> /\ pc' = "done"
    /\ UNCHANGED <<op, text, rest, room, minimum, buffer, length, html, span, granted, rented>>

EmptySmall ==
    /\ pc = "small" /\ rest = <<>> /\ pc' = "done"
    /\ UNCHANGED <<op, text, rest, room, minimum, buffer, length, html, span, waiting, granted, rented, output>>

Done == pc = "done" /\ UNCHANGED vars

Step ==
    \/ StartUtf8 \/ StartEncode \/ StartWriteHtml \/ StartWriteInternal \/ FormatSmall \/ FormatLarge
    \/ GetSpanForUtf8 \/ EncodeUtf8 \/ EndUtf8
    \/ EncodeToRented \/ WriteRented \/ EncodeSmall \/ EmptySmall
    \/ GetSpanForHtml \/ Transcode \/ EndWriteHtml
    \/ EnsureBuffer \/ WriteInternal \/ Flush

Next == Step \/ Done

Spec == Init /\ [][Next]_vars

-----------------------------------------------------------------------------
(* Properties *)

\* Whatever spans the pipe grants, it gets the encoded text: at any time a part
\* of it from its beginning, and all of it when the method returns.  What is
\* advanced was written inside the granted span, and rented arrays are returned.
OutputIsExact ==
    /\ IsPrefix(output, Expected) /\ Bytes(waiting) <= granted
    /\ pc = "done" => output = Expected /\ rented = 0

\* No text and no grant makes a loop spin: every method returns.
EveryWriteEnds == <>(pc = "done")
=============================================================================
