--------------------------- MODULE RazorSliceWriters ---------------------------
(***************************************************************************)
(* The pooled writers of RazorSlices: renders to a PipeWriter, the          *)
(* FlushTrackingPipeWriter around a pipe that cannot count its unflushed    *)
(* bytes, and the Utf8PipeTextWriter that WriteHtml lends to an IHtmlContent *)
(* or to a templated Razor delegate.                                        *)
(*                                                                          *)
(* WriteHtml is synchronous: while it runs, its render keeps its thread.    *)
(* The pieces of text a render writes are numbered, so that the pipes show  *)
(* whose text they got, and in which order.                                 *)
(***************************************************************************)
EXTENDS Naturals, Sequences, FiniteSets

CONSTANTS
    Renders,        \* calls of RenderAsync, each with the pipe it is given
    Threads,
    Writers,        \* instances of Utf8PipeTextWriter
    Trackers,       \* instances of FlushTrackingPipeWriter
    Environments,   \* what may be true of the pipes and delegates, see the variable environment
    MaxPieces,      \* bound of the model: pieces of text that a render writes
    None

VARIABLES
    environment, \* constant: uncounted, the renders whose pipe has CanGetUnflushedBytes =
               \* false; nested, whether a delegate may write an IHtmlContent or another
               \* delegate; async, whether it may return an incomplete task
    phase,     \* of each render
    thread,    \* the thread a render's WriteHtml occupies
    frames,    \* the running calls of WriteHtml of a render, the innermost last
    failing,   \* an exception is on its way out of the render's calls of WriteHtml
    text,      \* _textWriter of the render's slice, None while it writes to its pipe
    saved,     \* _writerStack
    late,      \* the writer that a rejected delegate still holds
    cached,    \* Utf8PipeTextWriter._cachedInstance of each thread
    used,      \* the Utf8PipeTextWriters constructed so far
    pipe,      \* _pipeWriter of each Utf8PipeTextWriter
    memory,    \* what it has written and not advanced
    tracker,   \* the FlushTrackingPipeWriter of each render
    pool,      \* those in FlushTrackingPipeWriter._pool, or not constructed yet
    inner,     \* _innerPipeWriter
    written,   \* how many pieces each render has written
    output     \* what each render's pipe got

renderVars == <<phase, thread, frames, failing, text, saved, late>>
writerVars == <<cached, used, pipe, memory>>
trackerVars == <<tracker, pool, inner>>
vars == <<environment, renderVars, writerVars, trackerVars, written, output>>

Pieces == [by : Renders, n : 1..MaxPieces]
Frames == [writer : Writers, kind : {"content", "delegate"}]

TypeOK ==
    /\ environment \in Environments
    /\ phase \in [Renders -> {"new", "running", "done", "failed"}]
    /\ thread \in [Renders -> Threads \cup {None}]
    /\ frames \in [Renders -> Seq(Frames)] /\ saved \in [Renders -> Seq(Writers \cup {None})]
    /\ output \in [Renders -> Seq(Pieces)]
    /\ \A r \in Renders :
          /\ thread[r] = None <=> frames[r] = <<>>
          /\ phase[r] # "running" => frames[r] = <<>> /\ tracker[r] = None
    /\ failing \in [Renders -> BOOLEAN]
    /\ text \in [Renders -> Writers \cup {None}] /\ late \in [Renders -> Writers \cup {None}]
    /\ cached \in [Threads -> used \cup {None}] /\ used \subseteq Writers
    /\ pipe \in [Writers -> Renders \cup Trackers \cup {None}]
    /\ memory \in [Writers -> Seq(Pieces)]
    /\ tracker \in [Renders -> Trackers \cup {None}] /\ pool \subseteq Trackers
    /\ inner \in [Trackers -> Renders \cup {None}]
    /\ written \in [Renders -> 0..MaxPieces]

Init ==
    /\ environment \in Environments
    /\ phase = [r \in Renders |-> "new"] /\ thread = [r \in Renders |-> None]
    /\ frames = [r \in Renders |-> <<>>] /\ failing = [r \in Renders |-> FALSE]
    /\ text = [r \in Renders |-> None] /\ saved = [r \in Renders |-> <<>>]
    /\ late = [r \in Renders |-> None]
    /\ cached = [t \in Threads |-> None] /\ used = {}
    /\ pipe = [w \in Writers |-> None] /\ memory = [w \in Writers |-> <<>>]
    /\ tracker = [r \in Renders |-> None] /\ pool = Trackers
    /\ inner = [k \in Trackers |-> None]
    /\ written = [r \in Renders |-> 0] /\ output = [r \in Renders |-> <<>>]

Top(r) == frames[r][Len(frames[r])]
Idle(t) == \A r \in Renders : thread[r] # t
Running(r) == phase[r] = "running" /\ ~failing[r]
InWriteHtml(r) == Running(r) /\ frames[r] # <<>>

\* The PipeWriter a render writes to, and the pipe behind a PipeWriter.
PipeOf(r) == IF tracker[r] = None THEN r ELSE tracker[r]
Behind(p) == IF p \in Trackers THEN inner[p] ELSE p

Piece(r) == [by |-> r, n |-> written[r] + 1]
NextPiece(r) == written[r] < MaxPieces /\ written' = [written EXCEPT ![r] = @ + 1]

\* Utf8PipeTextWriter.Return on thread t, after Flush when there was no exception.
Return(w, t, flush) ==
    /\ output' = IF flush /\ memory[w] # <<>>
                 THEN [output EXCEPT ![Behind(pipe[w])] = @ \o memory[w]]
                 ELSE output
    /\ cached' = [cached EXCEPT ![t] = w]
    /\ pipe' = [pipe EXCEPT ![w] = None]
    /\ memory' = [memory EXCEPT ![w] = <<>>]
    /\ UNCHANGED used

\* RenderAsync: FlushTrackingPipeWriter.Create, and the render starts.
StartRender(r) ==
    /\ phase[r] = "new"
    /\ phase' = [phase EXCEPT ![r] = "running"]
    /\ \/ r \notin environment.uncounted /\ UNCHANGED trackerVars
       \/ /\ r \in environment.uncounted
          /\ \E k \in pool :
                /\ pool' = pool \ {k}
                /\ inner' = [inner EXCEPT ![k] = r]
                /\ tracker' = [tracker EXCEPT ![r] = k]
    /\ UNCHANGED <<thread, frames, failing, text, saved, late, writerVars, written, output>>

\* WriteLiteral and Write of the template itself, straight to the pipe.
WriteToPipe(r) ==
    /\ Running(r) /\ frames[r] = <<>> /\ NextPiece(r)
    /\ output' = [output EXCEPT ![Behind(PipeOf(r))] = Append(@, Piece(r))]
    /\ UNCHANGED <<renderVars, writerVars, trackerVars>>

\* Mutant: the cached instance is not thread-static.
BeginWithSharedCache(r, t, kind) ==
    /\ Running(r)
    /\ \/ frames[r] = <<>> /\ Idle(t)
       \/ environment.nested /\ InWriteHtml(r) /\ thread[r] = t /\ Top(r).kind = "delegate"
          /\ Len(frames[r]) < 2
    /\ \E w \in Writers :
          /\ \/ /\ text[r] # None /\ w = text[r]
                /\ UNCHANGED writerVars
             \/ /\ text[r] = None
                /\ IF \A u \in Threads : cached[u] = None THEN w \notin used
                   ELSE \E u \in Threads : w = cached[u]
                /\ cached' = [u \in Threads |-> IF cached[u] = w THEN None ELSE cached[u]]
                /\ used' = used \cup {w}
                /\ pipe' = [pipe EXCEPT ![w] = PipeOf(r)]
                /\ UNCHANGED memory
          /\ frames' = [frames EXCEPT ![r] = Append(@, [writer |-> w, kind |-> kind])]
          /\ \/ kind = "content" /\ UNCHANGED <<text, saved>>
             \/ /\ kind = "delegate"
                /\ saved' = [saved EXCEPT ![r] = Append(@, text[r])]
                /\ text' = [text EXCEPT ![r] = w]
    /\ thread' = [thread EXCEPT ![r] = t]
    /\ UNCHANGED <<phase, failing, late, trackerVars, written, output>>

\* WriteHtml: take the slice's text writer, or Utf8PipeTextWriter.Get on this
\* thread; a templated delegate begins with PushWriter.
BeginWriteHtml(r, t, kind) ==
    /\ Running(r)
    /\ \/ frames[r] = <<>> /\ Idle(t)
       \/ environment.nested /\ InWriteHtml(r) /\ thread[r] = t /\ Top(r).kind = "delegate"
          /\ Len(frames[r]) < 2
    /\ \E w \in Writers :
          /\ \/ /\ text[r] # None /\ w = text[r]
                /\ UNCHANGED writerVars
             \/ /\ text[r] = None
                /\ IF cached[t] = None THEN w \notin used ELSE w = cached[t]
                /\ cached' = [cached EXCEPT ![t] = None] /\ used' = used \cup {w}
                /\ pipe' = [pipe EXCEPT ![w] = PipeOf(r)]
                /\ UNCHANGED memory
          /\ frames' = [frames EXCEPT ![r] = Append(@, [writer |-> w, kind |-> kind])]
          /\ \/ kind = "content" /\ UNCHANGED <<text, saved>>
             \/ /\ kind = "delegate"
                /\ saved' = [saved EXCEPT ![r] = Append(@, text[r])]
                /\ text' = [text EXCEPT ![r] = w]
    /\ thread' = [thread EXCEPT ![r] = t]
    /\ UNCHANGED <<phase, failing, late, trackerVars, written, output>>

\* Utf8PipeTextWriter.Write: into the buffer that the pipe granted, or, when
\* that is full, Advance and a new buffer first.  (If the tracker has another
\* inner pipe by then, Advance counts as many bytes of that pipe as written.)
WriteToBuffer(w, piece) ==
    /\ pipe[w] # None
    /\ \/ /\ memory[w] # <<>> \/ Behind(pipe[w]) # None
          /\ memory' = [memory EXCEPT ![w] = Append(@, piece)]
          /\ UNCHANGED output
       \/ /\ memory[w] # <<>> /\ Behind(pipe[w]) # None
          /\ output' = [output EXCEPT ![Behind(pipe[w])] = @ \o memory[w]]
          /\ memory' = [memory EXCEPT ![w] = <<piece>>]
    /\ UNCHANGED <<cached, used, pipe>>

WriteText(r) ==
    /\ InWriteHtml(r) /\ NextPiece(r)
    /\ WriteToBuffer(Top(r).writer, Piece(r))
    /\ UNCHANGED <<renderVars, trackerVars>>

\* The writer was returned meanwhile: its _pipeWriter is null.
WriteToReturnedWriter(r) ==
    /\ InWriteHtml(r) /\ written[r] < MaxPieces
    /\ pipe[Top(r).writer] = None
    /\ failing' = [failing EXCEPT ![r] = TRUE]
    /\ UNCHANGED <<phase, thread, frames, text, saved, late, writerVars, trackerVars, written, output>>

PopFrame(r) ==
    /\ frames' = [frames EXCEPT ![r] = SubSeq(@, 1, Len(@) - 1)]
    /\ thread' = IF Len(frames[r]) = 1 THEN [thread EXCEPT ![r] = None] ELSE thread

\* The content has been written: PopWriter for a delegate, then Flush and Return.
EndWriteHtml(r) ==
    /\ InWriteHtml(r)
    /\ IF Top(r).kind = "delegate"
       THEN /\ text' = [text EXCEPT ![r] = saved[r][Len(saved[r])]]
            /\ saved' = [saved EXCEPT ![r] = SubSeq(@, 1, Len(@) - 1)]
       ELSE UNCHANGED <<text, saved>>
    /\ Return(Top(r).writer, thread[r], TRUE)
    /\ PopFrame(r)
    /\ UNCHANGED <<phase, failing, late, trackerVars, written>>

\* The content or the delegate throws.
ContentThrows(r) ==
    /\ InWriteHtml(r)
    /\ failing' = [failing EXCEPT ![r] = TRUE]
    /\ UNCHANGED <<phase, thread, frames, text, saved, late, writerVars, trackerVars, written, output>>

\* The exception leaves WriteHtml: the writer is returned, not flushed, and the
\* slice's writer is not restored.
UnwindWriteHtml(r) ==
    /\ failing[r] /\ frames[r] # <<>>
    /\ Return(Top(r).writer, thread[r], FALSE)
    /\ PopFrame(r)
    /\ UNCHANGED <<phase, failing, text, saved, late, trackerVars, written>>

\* The delegate's task is incomplete: it is rejected, and keeps its writer.
RejectDelegate(r) ==
    /\ environment.async /\ InWriteHtml(r) /\ Top(r).kind = "delegate"
    /\ late' = [late EXCEPT ![r] = Top(r).writer]
    /\ failing' = [failing EXCEPT ![r] = TRUE]
    /\ PopFrame(r)
    /\ UNCHANGED <<phase, text, saved, writerVars, trackerVars, written, output>>

\* RenderAsync ends, in either way: FlushTrackingPipeWriter.Return.
EndRender(r) ==
    /\ phase[r] = "running" /\ frames[r] = <<>>
    /\ phase' = [phase EXCEPT ![r] = IF failing[r] THEN "failed" ELSE "done"]
    /\ \/ tracker[r] = None /\ UNCHANGED trackerVars
       \/ /\ tracker[r] # None
          /\ inner' = [inner EXCEPT ![tracker[r]] = None]
          /\ pool' = pool \cup {tracker[r]}
          /\ tracker' = [tracker EXCEPT ![r] = None]
    /\ UNCHANGED <<thread, frames, failing, text, saved, late, writerVars, written, output>>

\* A rejected delegate resumes: it writes text, flushes, or ends.
LateWrite(r) ==
    /\ late[r] # None /\ NextPiece(r)
    /\ WriteToBuffer(late[r], Piece(r))
    /\ UNCHANGED <<renderVars, trackerVars>>

LateFlush(r) ==
    /\ late[r] # None /\ memory[late[r]] # <<>> /\ Behind(pipe[late[r]]) # None
    /\ output' = [output EXCEPT ![Behind(pipe[late[r]])] = @ \o memory[late[r]]]
    /\ memory' = [memory EXCEPT ![late[r]] = <<>>]
    /\ UNCHANGED <<renderVars, cached, used, pipe, trackerVars, written>>

LateEnd(r) ==
    /\ late[r] # None
    /\ late' = [late EXCEPT ![r] = None]
    /\ UNCHANGED <<phase, thread, frames, failing, text, saved, writerVars, trackerVars, written, output>>

AllEnded == (\A r \in Renders : phase[r] \in {"done", "failed"} /\ late[r] = None) /\ UNCHANGED vars

RenderStep(r) ==
    \/ StartRender(r) \/ WriteToPipe(r) \/ EndRender(r)
    \/ \E t \in Threads, kind \in {"content", "delegate"} : BeginWriteHtml(r, t, kind)
    \/ WriteText(r) \/ WriteToReturnedWriter(r) \/ EndWriteHtml(r)
    \/ ContentThrows(r) \/ UnwindWriteHtml(r) \/ RejectDelegate(r)
    \/ LateWrite(r) \/ LateFlush(r) \/ LateEnd(r)

Next == (\E r \in Renders : RenderStep(r) /\ UNCHANGED environment) \/ AllEnded

Spec == Init /\ [][Next]_vars

-----------------------------------------------------------------------------
(* Properties *)

\* "The rejected callback can still hold this writer. Never pool it for another
\* render", says WriteHtml: what one render writes, its rejected delegates
\* included, never reaches the output of another one.
TextStaysInItsRender == \A r \in Renders : \A i \in DOMAIN output[r] : output[r][i].by = r

\* What one render writes reaches no other output than that of its own pipe, in
\* the order it was written, whichever of the pipe and the lent text writers it
\* went through, and all of it does when the render ends without an exception.
OutputIsFaithful ==
    /\ TextStaysInItsRender
    /\ \A r \in Renders :
        /\ \A i, j \in DOMAIN output[r] : i < j => output[r][i].n < output[r][j].n
        /\ phase[r] = "done" => \A n \in 1..written[r] : \E i \in DOMAIN output[r] : output[r][i].n = n
=============================================================================
