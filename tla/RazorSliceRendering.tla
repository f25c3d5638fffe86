-------------------------- MODULE RazorSliceRendering --------------------------
(***************************************************************************)
(* One render of RazorSlices: a slice, its nested layouts, the partials and *)
(* minimal partials their templates render, and the helpers they share.     *)
(*                                                                          *)
(* stack holds the templates that have started and not ended, the running   *)
(* one last.  A template that waits for something incomplete returns to its *)
(* callers, which then wait for it: every template on the stack is then     *)
(* suspended, and ends in the asynchronous half of RenderCoreAsync.         *)
(***************************************************************************)
EXTENDS Naturals, Sequences, FiniteSets

CONSTANTS
    Content,      \* the slice that RenderAsync is called on
    Layouts,      \* its layout, the layout of its layout, and so on
    Partials,     \* slices rendered inline, each of them fresh
    Minimals,     \* partials that derive from RazorSliceBase only
    Helpers,      \* helper types
    MaxSections,  \* bound of the model: bodies and sections rendered by the layouts
    MaxFailures,  \* bound of the model: exceptions thrown
    None

LayoutSlices == {Layouts[i] : i \in DOMAIN Layouts}
FullSlices == {Content} \cup LayoutSlices \cup Partials
Slices == FullSlices \cup Minimals

ASSUME SliceAssumption ==
    /\ Layouts \in Seq(LayoutSlices) /\ Cardinality(LayoutSlices) = Len(Layouts)
    /\ Content \notin LayoutSlices \cup Partials \cup Minimals
    /\ LayoutSlices \cap (Partials \cup Minimals) = {} /\ Partials \cap Minimals = {}
    /\ None \notin Slices /\ IsFiniteSet(Slices)
ASSUME BoundAssumption == MaxSections \in Nat /\ MaxFailures \in Nat

VARIABLES
    asyncTemplates,  \* every ExecuteAsync is an async method, as the Razor SDK generates it.  Constant
    pc,
    outer,     \* the outermost slice so far: Content, or the last layout created
    stack,
    parent,    \* _helperParent
    content,   \* ContentSlice of each layout
    active,    \* _activeHelperSlice
    cache,     \* _helpers: the types with a helper
    owner,     \* _owner of each type's helper, None when it is unbound
    created,   \* how many helpers of each type the render created
    started,   \* slices that were given a writer
    disposed,
    failing,   \* an exception is on its way to the callers
    sections,
    failures

helperVars == <<cache, owner, created>>
counters == <<sections, failures>>
vars == <<asyncTemplates, pc, outer, stack, parent, content, active, helperVars, started, disposed, failing, counters>>

Kinds == {"body", "minimal", "section"}
Frames == [slice : Slices, kind : Kinds, previous : Slices \cup {None}, dispose : BOOLEAN,
           suspended : BOOLEAN]

TypeOK ==
    /\ asyncTemplates \in BOOLEAN
    /\ pc \in {"idle", "layouts", "running", "done", "failed"}
    /\ pc = "running" <=> stack # <<>>
    /\ outer \in {Content} \cup LayoutSlices
    /\ stack \in Seq(Frames)
    /\ parent \in [FullSlices -> FullSlices \cup {None}]
    /\ content \in [LayoutSlices -> FullSlices \cup {None}]
    /\ active \in [FullSlices -> Slices \cup {None}]
    /\ cache \in [FullSlices -> SUBSET Helpers]
    /\ owner \in [Helpers -> FullSlices \cup {None}]
    /\ created \in [Helpers -> 0..2]
    /\ started \subseteq Slices /\ disposed \subseteq Slices
    /\ failing \in BOOLEAN
    /\ sections \in 0..MaxSections /\ failures \in 0..MaxFailures

Init ==
    /\ asyncTemplates \in BOOLEAN
    /\ pc = "idle" /\ outer = Content /\ stack = <<>>
    /\ parent = [s \in FullSlices |-> None]
    /\ content = [s \in LayoutSlices |-> None]
    /\ active = [s \in FullSlices |-> None]
    /\ cache = [s \in FullSlices |-> {}]
    /\ owner = [h \in Helpers |-> None]
    /\ created = [h \in Helpers |-> 0]
    /\ started = {} /\ disposed = {}
    /\ failing = FALSE /\ sections = 0 /\ failures = 0

Depth == Cardinality(FullSlices)

\* GetHelperRoot: follow _helperParent to its end.
Root(s) ==
    LET climb[n \in 0..Depth] ==
          IF n = 0 THEN s
          ELSE IF parent[climb[n - 1]] = None THEN climb[n - 1] ELSE parent[climb[n - 1]]
    IN  climb[Depth]

\* The slice a helper bound to s, or s itself, writes to.
ActiveHelperSlice(s) == IF active[Root(s)] = None THEN Root(s) ELSE active[Root(s)]

\* s and the content slices that its Dispose reaches.
Disposal(s) ==
    LET reach[n \in 0..Depth] ==
          IF n = 0 THEN {s}
          ELSE reach[n - 1] \cup {content[l] : l \in {m \in reach[n - 1] \cap LayoutSlices : content[m] # None}}
    IN  reach[Depth]

Top == stack[Len(stack)]
Callers == SubSeq(stack, 1, Len(stack) - 1)
Running == pc = "running" /\ ~failing

\* Dispose of the slices in S; one that is disposed already is left alone.
Dispose(S) ==
    LET now == (UNION {Disposal(s) : s \in S}) \ disposed
        cleared == UNION {cache[s] : s \in now \cap FullSlices}
    IN  /\ disposed' = disposed \cup now
        /\ owner' = [h \in Helpers |-> IF h \in cleared THEN None ELSE owner[h]]
        /\ cache' = [s \in FullSlices |-> IF s \in now THEN {} ELSE cache[s]]
        /\ UNCHANGED created

Fail == failures < MaxFailures /\ failures' = failures + 1

\* GetHelper on slice s: the helper of this render, or a new one.
ObtainHelper(s, h) ==
    /\ h \notin cache[Root(s)] /\ created[h] < 2
    /\ cache' = [cache EXCEPT ![Root(s)] = @ \cup {h}]
    /\ owner' = [owner EXCEPT ![h] = Root(s)]
    /\ created' = [created EXCEPT ![h] = @ + 1]

---------------------------------------------------------------------------
(* RenderCoreAsync with renderLayout. *)

Render ==
    /\ pc = "idle"
    /\ pc' = "layouts"
    /\ started' = {Content}
    /\ UNCHANGED <<outer, stack, parent, content, active, helperVars, disposed, failing, counters>>

\* EnsureInitialized, whose callback may obtain a helper.
InitializeWithHelper(h) ==
    /\ pc = "layouts"
    /\ ObtainHelper(outer, h)
    /\ UNCHANGED <<pc, outer, stack, parent, content, active, started, disposed, failing, counters>>

LayoutsUsed == Cardinality(started \cap LayoutSlices)

\* CreateLayoutForRender; the layout becomes the root, with the helpers.
UseLayout ==
    /\ pc = "layouts" /\ LayoutsUsed < Len(Layouts)
    /\ LET layout == Layouts[LayoutsUsed + 1]
       IN  /\ content' = [content EXCEPT ![layout] = outer]
           /\ cache' = [cache EXCEPT ![layout] = cache[Root(outer)], ![Root(outer)] = {}]
           /\ parent' = [parent EXCEPT ![Root(outer)] = layout]
           /\ outer' = layout
           /\ started' = started \cup {layout}
    /\ UNCHANGED <<pc, stack, active, owner, created, disposed, failing, counters>>

\* Initialize or CreateLayout throws: every slice so far disposes itself.
FailBeforeExecute ==
    /\ pc = "layouts" /\ Fail
    /\ Dispose({outer})
    /\ pc' = "failed"
    /\ UNCHANGED <<outer, stack, parent, content, active, started, failing, sections>>

Frame(s, kind, previous, dispose) ==
    [slice |-> s, kind |-> kind, previous |-> previous, dispose |-> dispose, suspended |-> FALSE]

Execute ==
    /\ pc = "layouts" /\ LayoutsUsed = Len(Layouts)
    /\ pc' = "running"
    /\ stack' = <<Frame(outer, "body", None, TRUE)>>
    /\ UNCHANGED <<outer, parent, content, active, helperVars, started, disposed, failing, counters>>

---------------------------------------------------------------------------
(* What a running template does. *)

\* EnsureActive throws when the slice it would write to is disposed.
GetHelper(h) ==
    /\ Running /\ Top.slice \in FullSlices
    /\ IF ActiveHelperSlice(Top.slice) \in disposed
       THEN failing' = TRUE /\ UNCHANGED helperVars
       ELSE ObtainHelper(Top.slice, h) /\ UNCHANGED failing
    /\ UNCHANGED <<pc, outer, stack, parent, content, active, started, disposed, counters>>

\* RenderChildSliceAsync and EnterHelperRender.
Enter(child, dispose) ==
    LET root == Root(Top.slice)
    IN  /\ parent' = [parent EXCEPT ![child] = root]
        /\ active' = [active EXCEPT ![root] = child]
        /\ stack' = Append(stack, Frame(child, "body", active[root], dispose))
        /\ started' = started \cup {child}

RenderPartial(p) ==
    /\ Running /\ Top.slice \in FullSlices /\ p \notin started
    /\ Enter(p, TRUE)
    /\ UNCHANGED <<pc, outer, content, helperVars, disposed, failing, counters>>

\* The partial's initialization throws.
FailPartial(p) ==
    /\ Running /\ Top.slice \in FullSlices /\ p \notin started /\ Fail
    /\ parent' = [parent EXCEPT ![p] = Root(Top.slice)]
    /\ started' = started \cup {p}
    /\ Dispose({p})
    /\ failing' = TRUE
    /\ UNCHANGED <<pc, outer, stack, content, active, sections>>

RenderMinimal(m) ==
    /\ Running /\ Top.slice \in FullSlices /\ m \notin started
    /\ LET root == Root(Top.slice)
       IN  /\ active' = [active EXCEPT ![root] = m]
           /\ stack' = Append(stack, Frame(m, "minimal", active[root], TRUE))
    /\ started' = started \cup {m}
    /\ UNCHANGED <<pc, outer, parent, content, helperVars, disposed, failing, counters>>

\* RenderBodyAsync: the layout, not this render, disposes the content.
RenderBody ==
    /\ Running /\ Top.slice \in LayoutSlices /\ Top.kind = "body"
    /\ sections < MaxSections /\ sections' = sections + 1
    /\ Enter(content[Top.slice], FALSE)
    /\ UNCHANGED <<pc, outer, content, helperVars, disposed, failing, failures>>

\* Mutant: a section does not become the active slice.
RenderSectionInactive ==
    /\ Running /\ Top.slice \in LayoutSlices /\ Top.kind = "body"
    /\ sections < MaxSections /\ sections' = sections + 1
    /\ stack' = Append(stack, Frame(content[Top.slice], "section", active[Root(content[Top.slice])], FALSE))
    /\ UNCHANGED <<pc, outer, parent, content, active, helperVars, started, disposed, failing, failures>>

\* RenderSectionAsync
RenderSection ==
    /\ Running /\ Top.slice \in LayoutSlices /\ Top.kind = "body"
    /\ sections < MaxSections /\ sections' = sections + 1
    /\ LET slice == content[Top.slice]
           root == Root(slice)
       IN  /\ active' = [active EXCEPT ![root] = slice]
           /\ stack' = Append(stack, Frame(slice, "section", active[root], FALSE))
    /\ UNCHANGED <<pc, outer, parent, content, helperVars, started, disposed, failing, failures>>

\* The running template waits for something that is not complete.
Suspend ==
    /\ Running /\ \E i \in DOMAIN stack : ~stack[i].suspended
    /\ stack' = [i \in DOMAIN stack |-> [stack[i] EXCEPT !.suspended = TRUE]]
    /\ UNCHANGED <<pc, outer, parent, content, active, helperVars, started, disposed, failing, counters>>

Throw ==
    /\ Running /\ Fail
    /\ failing' = TRUE
    /\ UNCHANGED <<pc, outer, stack, parent, content, active, helperVars, started, disposed, sections>>

\* The template handles the exception.
Catch ==
    /\ failing
    /\ failing' = FALSE
    /\ UNCHANGED <<pc, outer, stack, parent, content, active, helperVars, started, disposed, counters>>

---------------------------------------------------------------------------
(* The end of a template. *)

\* ExitHelperRender, or the same for a minimal slice, whose caller's root it is.
ExitHelperRender ==
    LET slice == IF Top.kind = "minimal" THEN stack[Len(stack) - 1].slice ELSE Top.slice
    IN  active' = IF Top.kind = "minimal" \/ parent[slice] # None
                  THEN [active EXCEPT ![Root(slice)] = Top.previous] ELSE active

Return(failed) ==
    /\ stack' = Callers
    /\ failing' = (failed /\ Callers # <<>>)
    /\ pc' = IF Callers # <<>> THEN pc ELSE IF failed THEN "failed" ELSE "done"

\* The last flush may still fail, after the slice was disposed.
Complete ==
    /\ Running
    /\ ExitHelperRender
    /\ Dispose(IF Top.dispose THEN {Top.slice} ELSE {})
    /\ \/ Return(FALSE) /\ UNCHANGED failures
       \/ Top.kind # "section" /\ Fail /\ Return(TRUE)
    /\ UNCHANGED <<outer, parent, content, started, sections>>

\* The exception was thrown to the caller, not returned in a task.
Thrown(t) == t \in BOOLEAN /\ (t => ~asyncTemplates /\ ~Top.suspended /\ Top.kind # "section")

\* Mutant: the asynchronous half only leaves the helper context.
UnwindWithoutDispose ==
    /\ failing
    /\ ExitHelperRender
    /\ \E t \in BOOLEAN : Thrown(t) /\ Dispose(IF t THEN {Top.slice} ELSE {})
    /\ Return(TRUE)
    /\ UNCHANGED <<outer, parent, content, started, counters>>

\* RenderCoreAsync's catch disposes whatever disposeSlice says; AwaitExecute's
\* asks for it.
Unwind ==
    /\ failing
    /\ ExitHelperRender
    /\ \E t \in BOOLEAN : Thrown(t) /\ Dispose(IF Top.dispose \/ t THEN {Top.slice} ELSE {})
    /\ Return(TRUE)
    /\ UNCHANGED <<outer, parent, content, started, counters>>

Next ==
    /\ UNCHANGED asyncTemplates
    /\ \/ Render \/ UseLayout \/ FailBeforeExecute \/ Execute
       \/ RenderBody \/ RenderSection \/ Suspend \/ Throw \/ Catch \/ Complete \/ Unwind
       \/ \E h \in Helpers : InitializeWithHelper(h) \/ GetHelper(h)
       \/ \E p \in Partials : RenderPartial(p) \/ FailPartial(p)
       \/ \E m \in Minimals : RenderMinimal(m)

Spec == Init /\ [][Next]_vars

---------------------------------------------------------------------------
(* Properties *)

\* The slices of a render share one helper of each type.  Whoever calls it, also
\* if it was obtained before a layout took over, and after any failure that a
\* template has handled, it writes to the slice whose template is running.
HelpersWriteToRunningSlice ==
    /\ \A h \in Helpers : created[h] <= 1
    /\ Running =>
          /\ Top.slice \in FullSlices => ActiveHelperSlice(Top.slice) = Top.slice
          /\ \A h \in Helpers : owner[h] # None => ActiveHelperSlice(owner[h]) = Top.slice

\* When the render has ended, however it ended, every slice that took part is
\* disposed and no helper can write any more.
EverythingIsReleased ==
    pc \in {"done", "failed"} => started \subseteq disposed /\ \A h \in Helpers : owner[h] = None

\* A slice is not disposed while a layout that owns it may still render it.
RunningSlicesAreAlive ==
    \A i \in DOMAIN stack :
        /\ stack[i].slice \notin disposed
        /\ stack[i].slice \in LayoutSlices => content[stack[i].slice] \notin disposed

\* A slice is disposed neither too late, for none outlives the render, nor too
\* early, while a layout that owns it may still render it.  (A hand-written
\* template that throws instead of returning a failed task has its slice
\* disposed at once.)
SlicesAreDisposedInTime == EverythingIsReleased /\ (asyncTemplates => RunningSlicesAreAlive)
================================================================================
