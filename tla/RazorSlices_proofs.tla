-------------------------- MODULE RazorSlices_proofs --------------------------
EXTENDS RazorSliceRendering, RazorSliceOutputs, RazorSliceText, FiniteSetTheorems, SequenceTheorems, TLAPS

-----------------------------------------------------------------------------
(* Chains of any length: induction, and the recursive functions of the      *)
(* module.                                                                  *)

LessThan == {p \in Nat \X Nat : p[1] < p[2]}

\* A set of numbers that has 0 and the successor of each of its members has
\* every number.
LEMMA Induction ==
  ASSUME NEW S, 0 \in S, \A n \in Nat : n \in S => n + 1 \in S
  PROVE  Nat \subseteq S
  <1> DEFINE T == Nat \ S
  <1> SUFFICES ASSUME T # {} PROVE FALSE
    OBVIOUS
  <1>1. IsWellFoundedOn(LessThan, Nat)
    <2>1. OpToRel(<, Nat) = LessThan
      BY DEF OpToRel, LessThan
    <2>2. QED
      BY <2>1, NatLessThanWellFounded
  <1>2. PICK m \in T : \A k \in T : <<k, m>> \notin LessThan
    BY <1>1, WFMin
  <1>3. m # 0 /\ m - 1 \in Nat
    OBVIOUS
  <1>4. m - 1 \in S
    <2>1. <<m - 1, m>> \in LessThan
      BY <1>3 DEF LessThan
    <2>2. QED
      BY <1>2, <1>3, <2>1
  <1>5. QED
    BY <1>3, <1>4

Iterates(g, d, s, up) == g = [n \in 0..d |-> IF n = 0 THEN s ELSE up[g[n - 1]]]

\* A function can be applied again and again.
LEMMA Iteration ==
  ASSUME NEW X, NEW up \in [X -> X], NEW s \in X, NEW d \in Nat
  PROVE  \E g \in [0..d -> X] : Iterates(g, d, s, up)
  <1> DEFINE S == {m \in Nat : \E g \in [0..m -> X] : Iterates(g, m, s, up)}
  <1>1. 0 \in S
    <2> DEFINE g == [n \in 0..0 |-> s]
    <2>1. g \in [0..0 -> X] /\ Iterates(g, 0, s, up)
      BY DEF Iterates
    <2> HIDE DEF g
    <2>2. QED
      BY <2>1
  <1>2. ASSUME NEW m \in Nat, m \in S PROVE m + 1 \in S
    <2>1. PICK g \in [0..m -> X] : Iterates(g, m, s, up)
      BY <1>2
    <2> DEFINE h == [n \in 0..(m + 1) |-> IF n = m + 1 THEN up[g[m]] ELSE g[n]]
    <2>2. h \in [0..(m + 1) -> X]
      OBVIOUS
    <2>3. ASSUME NEW n \in 0..(m + 1) PROVE h[n] = IF n = 0 THEN s ELSE up[h[n - 1]]
      <3>1. g = [k \in 0..m |-> IF k = 0 THEN s ELSE up[g[k - 1]]]
        BY <2>1 DEF Iterates
      <3>2. CASE n = m + 1
        BY <3>2
      <3>3. CASE n \in 0..m
        <4>1. h[n] = g[n] /\ (n # 0 => h[n - 1] = g[n - 1])
          BY <3>3
        <4>2. g[n] = IF n = 0 THEN s ELSE up[g[n - 1]]
          BY <3>1, <3>3, Zenon
        <4>3. QED
          BY <4>1, <4>2
      <3>4. QED
        BY <3>2, <3>3
    <2>4. h = [n \in 0..(m + 1) |-> h[n]]
      OBVIOUS
    <2> HIDE DEF h
    <2>5. h = [n \in 0..(m + 1) |-> IF n = 0 THEN s ELSE up[h[n - 1]]]
      BY <2>3, <2>4, Zenon
    <2>6. Iterates(h, m + 1, s, up)
      BY <2>5 DEF Iterates
    <2>7. QED
      BY <2>2, <2>6
  <1> HIDE DEF S
  <1>3. Nat \subseteq S
    BY <1>1, <1>2, Induction
  <1>4. d \in S
    BY <1>3
  <1>5. QED
    BY <1>4 DEF S

ParentType == parent \in [FullSlices -> FullSlices \cup {None}]
Up == [x \in FullSlices |-> IF parent[x] = None THEN x ELSE parent[x]]

LEMMA DepthIsNatural == Depth \in Nat
  <1>1. IsFiniteSet(FullSlices)
    BY SliceAssumption, FS_Subset DEF Slices
  <1>2. QED
    BY <1>1, FS_CardinalityType DEF Depth

\* The root of a slice is where its parents lead.
LEMMA RootClimbs ==
  ASSUME ParentType, NEW s \in FullSlices
  PROVE  \E g : /\ Root(s) = g[Depth] /\ g[0] = s
                /\ \A n \in 1..Depth :
                     g[n] = IF parent[g[n - 1]] = None THEN g[n - 1] ELSE parent[g[n - 1]]
  <1> DEFINE Climbs(g) == g = [n \in 0..Depth |->
                 IF n = 0 THEN s ELSE IF parent[g[n - 1]] = None THEN g[n - 1] ELSE parent[g[n - 1]]]
             climb == CHOOSE g : Climbs(g)
  <1>1. None \notin FullSlices /\ Up \in [FullSlices -> FullSlices]
    BY SliceAssumption DEF ParentType, Up, Slices
  <1>2. PICK g \in [0..Depth -> FullSlices] : Iterates(g, Depth, s, Up)
    BY <1>1, DepthIsNatural, Iteration
  <1>3. \A n \in 0..Depth : n # 0 => n - 1 \in 0..Depth
    BY DepthIsNatural
  <1>4. ASSUME NEW n \in 0..Depth
        PROVE  (IF n = 0 THEN s ELSE Up[g[n - 1]]) =
               IF n = 0 THEN s ELSE IF parent[g[n - 1]] = None THEN g[n - 1] ELSE parent[g[n - 1]]
    BY <1>3 DEF Up
  <1>5. Climbs(g)
    BY <1>2, <1>4, Zenon DEF Iterates
  <1>6. Climbs(climb)
    BY <1>5, Zenon
  <1>7. Root(s) = climb[Depth]
    BY Zenon DEF Root
  <1> HIDE DEF climb
  <1>8. climb[0] = s
    BY <1>6, DepthIsNatural
  <1>9. ASSUME NEW n \in 1..Depth
        PROVE  climb[n] = IF parent[climb[n - 1]] = None THEN climb[n - 1] ELSE parent[climb[n - 1]]
    <2>1. n \in 0..Depth /\ n # 0
      OBVIOUS
    <2>2. QED
      BY <1>6, <2>1
  <1>10. QED
    BY <1>7, <1>8, <1>9

-----------------------------------------------------------------------------
(* The chain: the content and the layouts used so far, the innermost first. *)

Link(i) == IF i = 0 THEN Content ELSE Layouts[i]
Chain == {Link(i) : i \in 0..LayoutsUsed}
FirstLayouts(k) == {Layouts[i] : i \in 1..k}

\* Every link is a slice of its own.
LEMMA LinksDiffer ==
  /\ Len(Layouts) \in Nat
  /\ \A i \in 0..Len(Layouts) : Link(i) \in FullSlices \ (Partials \cup Minimals)
  /\ \A i \in 1..Len(Layouts) : Link(i) = Layouts[i] /\ Layouts[i] \in LayoutSlices
  /\ \A i, j \in 0..Len(Layouts) : Link(i) = Link(j) => i = j
  /\ \A l \in LayoutSlices : \E i \in 1..Len(Layouts) : l = Layouts[i]
  /\ None \notin Slices /\ FullSlices \subseteq Slices /\ FullSlices \cap Minimals = {}
  /\ Content \notin LayoutSlices
  <1>1. Len(Layouts) \in Nat /\ DOMAIN Layouts = 1..Len(Layouts) /\ Layouts \in [1..Len(Layouts) -> LayoutSlices]
    BY SliceAssumption
  <1>2. IsFiniteSet(1..Len(Layouts)) /\ Cardinality(1..Len(Layouts)) = Len(Layouts)
    BY <1>1, FS_Interval
  <1>3. Layouts \in Surjection(1..Len(Layouts), LayoutSlices)
    BY <1>1 DEF Surjection, LayoutSlices
  <1>4. Layouts \in Injection(1..Len(Layouts), LayoutSlices)
    BY <1>2, <1>3, SliceAssumption, FS_SurjSameCardinalityImpliesInj
  <1>5. \A i, j \in 1..Len(Layouts) : Layouts[i] = Layouts[j] => i = j
    BY <1>4 DEF Injection, IsInjective
  <1>6. \A i \in 1..Len(Layouts) : Layouts[i] \in LayoutSlices
    BY <1>1
  <1>7. \A l \in LayoutSlices : \E i \in 1..Len(Layouts) : l = Layouts[i]
    BY <1>1 DEF LayoutSlices
  <1> HIDE DEF LayoutSlices
  <1>8. Content \notin LayoutSlices /\ None \notin Slices /\ FullSlices \subseteq Slices
    BY SliceAssumption DEF Slices
  <1>9. FullSlices \cap Minimals = {}
    BY SliceAssumption DEF FullSlices
  <1>10. \A i \in 0..Len(Layouts) : Link(i) \in FullSlices \ (Partials \cup Minimals)
    BY <1>1, <1>6, SliceAssumption DEF Link, FullSlices
  <1>11. \A i, j \in 0..Len(Layouts) : Link(i) = Link(j) => i = j
    BY <1>1, <1>5, <1>6, <1>8 DEF Link
  <1>12. \A i \in 1..Len(Layouts) : Link(i) = Layouts[i]
    BY DEF Link
  <1>13. QED
    BY <1>1, <1>6, <1>7, <1>8, <1>9, <1>10, <1>11, <1>12

LEMMA FirstLayoutsCounted ==
  ASSUME NEW k \in 0..Len(Layouts)
  PROVE  Cardinality(FirstLayouts(k)) = k
  <1> DEFINE f == [i \in 1..k |-> Layouts[i]]
  <1>1. \A i, j \in 1..k : Layouts[i] = Layouts[j] => i = j
    BY LinksDiffer
  <1>2. f \in Surjection(1..k, FirstLayouts(k))
    BY DEF Surjection, FirstLayouts
  <1>3. f \in Injection(1..k, FirstLayouts(k))
    BY <1>1 DEF Injection, IsInjective, FirstLayouts
  <1>4. IsFiniteSet(1..k) /\ Cardinality(1..k) = k
    BY FS_Interval, LinksDiffer
  <1>5. QED
    BY <1>2, <1>3, <1>4, FS_Surjection

\* Climbing Depth parents is climbing far enough.
LEMMA DepthCovers == Depth \in Nat /\ Len(Layouts) + 1 <= Depth
  <1>1. IsFiniteSet(FullSlices)
    BY SliceAssumption, FS_Subset DEF Slices
  <1>2. LayoutSlices \subseteq FullSlices /\ {Content} \cup LayoutSlices \subseteq FullSlices
    BY DEF FullSlices
  <1>3. IsFiniteSet(LayoutSlices)
    BY <1>1, <1>2, FS_Subset
  <1>4. Cardinality(LayoutSlices \cup {Content}) = Len(Layouts) + 1
    BY <1>3, FS_AddElement, SliceAssumption
  <1>5. QED
    BY <1>1, <1>2, <1>4, FS_Subset, DepthIsNatural, LinksDiffer DEF Depth

-----------------------------------------------------------------------------
(* The invariant.                                                           *)

OuterInv ==
    /\ LayoutsUsed \in 0..Len(Layouts)
    /\ outer = Link(LayoutsUsed)
    /\ started \cap LayoutSlices = FirstLayouts(LayoutsUsed)
    /\ pc = "running" => LayoutsUsed = Len(Layouts)
    /\ IF pc = "idle" THEN started = {} ELSE Content \in started
    /\ pc \in {"idle", "layouts"} => started \subseteq {Content} \cup LayoutSlices
    /\ failing => pc = "running"

\* A slice's parent is a later link, or the last one if it is a partial.
ParentInv ==
    /\ parent[outer] = None
    /\ \A i \in 0..(LayoutsUsed - 1) : \E j \in (i + 1)..LayoutsUsed : parent[Link(i)] = Link(j)
    /\ \A i \in (LayoutsUsed + 1)..Len(Layouts) : parent[Layouts[i]] = None
    /\ \A p \in Partials : parent[p] # None => parent[p] = outer /\ pc \notin {"idle", "layouts"}

ContentInv == \A i \in 1..LayoutsUsed : content[Layouts[i]] = Link(i - 1)

LEMMA RootOfChain ==
  ASSUME TypeOK, OuterInv, ParentInv, NEW i \in 0..LayoutsUsed
  PROVE  Root(Link(i)) = outer
  <1>1. ParentType /\ LayoutsUsed \in 0..Len(Layouts) /\ outer = Link(LayoutsUsed)
    BY DEF ParentType, TypeOK, OuterInv
  <1>2. Link(i) \in FullSlices
    BY <1>1, LinksDiffer
  <1>3. PICK g : /\ Root(Link(i)) = g[Depth] /\ g[0] = Link(i)
                 /\ \A n \in 1..Depth :
                      g[n] = IF parent[g[n - 1]] = None THEN g[n - 1] ELSE parent[g[n - 1]]
    BY <1>1, <1>2, RootClimbs
  <1> DEFINE S == {n \in Nat : n <= Depth => \E m \in 0..LayoutsUsed : g[n] = Link(m) /\ (m = LayoutsUsed \/ m >= i + n)}
  <1>4. 0 \in S
    BY <1>3
  <1>5. ASSUME NEW n \in Nat, n \in S PROVE n + 1 \in S
    <2>1. SUFFICES ASSUME n + 1 <= Depth
                   PROVE \E m \in 0..LayoutsUsed : g[n + 1] = Link(m) /\ (m = LayoutsUsed \/ m >= i + n + 1)
      BY <1>1
    <2>2. n <= Depth /\ n + 1 \in 1..Depth
      BY <2>1, DepthCovers
    <2>3. PICK m \in 0..LayoutsUsed : g[n] = Link(m) /\ (m = LayoutsUsed \/ m >= i + n)
      BY <1>5, <2>2
    <2>4. g[n + 1] = IF parent[g[n]] = None THEN g[n] ELSE parent[g[n]]
      BY <1>3, <2>2
    <2>5. CASE m = LayoutsUsed
      BY <1>1, <2>3, <2>4, <2>5 DEF ParentInv
    <2>6. CASE m # LayoutsUsed
      <3>1. m \in 0..(LayoutsUsed - 1)
        BY <1>1, <2>6
      <3>2. PICK j \in (m + 1)..LayoutsUsed : parent[Link(m)] = Link(j)
        BY <3>1 DEF ParentInv
      <3>3. Link(j) # None /\ j \in 0..LayoutsUsed
        BY <1>1, <3>1, <3>2, LinksDiffer
      <3>4. j >= i + n + 1
        BY <1>1, <2>3, <2>6, <3>1
      <3>5. QED
        BY <2>3, <2>4, <3>2, <3>3, <3>4
    <2>7. QED
      BY <2>5, <2>6
  <1> HIDE DEF S
  <1>6. Depth \in S
    BY <1>4, <1>5, Induction, DepthCovers
  <1>7. PICK m \in 0..LayoutsUsed : g[Depth] = Link(m) /\ (m = LayoutsUsed \/ m >= i + Depth)
    BY <1>6, DepthCovers DEF S
  <1>8. m = LayoutsUsed
    BY <1>1, <1>7, DepthCovers, LinksDiffer
  <1>9. QED
    BY <1>1, <1>3, <1>7, <1>8

LEMMA RootOfPartial ==
  ASSUME TypeOK, OuterInv, ParentInv, NEW p \in Partials, parent[p] # None
  PROVE  Root(p) = outer
  <1>1. ParentType /\ p \in FullSlices
    BY DEF ParentType, TypeOK, FullSlices
  <1>2. PICK g : /\ Root(p) = g[Depth] /\ g[0] = p
                 /\ \A n \in 1..Depth :
                      g[n] = IF parent[g[n - 1]] = None THEN g[n - 1] ELSE parent[g[n - 1]]
    BY <1>1, RootClimbs
  <1>3. parent[p] = outer /\ parent[outer] = None
    BY DEF ParentInv
  <1> DEFINE S == {n \in Nat : n + 1 <= Depth => g[n + 1] = outer}
  <1>4. 0 \in S
    BY <1>2, <1>3, DepthCovers
  <1>5. ASSUME NEW n \in Nat, n \in S PROVE n + 1 \in S
    <2>1. SUFFICES ASSUME n + 1 + 1 <= Depth PROVE g[n + 1 + 1] = outer
      OBVIOUS
    <2>2. n + 1 <= Depth /\ n + 1 + 1 \in 1..Depth /\ n + 1 + 1 - 1 = n + 1
      BY <2>1, DepthCovers
    <2>3. g[n + 1] = outer
      BY <1>5, <2>2
    <2>4. QED
      BY <1>2, <1>3, <2>2, <2>3
  <1> HIDE DEF S
  <1>6. Depth - 1 \in S
    BY <1>4, <1>5, Induction, DepthCovers, LinksDiffer
  <1>7. QED
    BY <1>2, <1>6, DepthCovers, LinksDiffer DEF S

-----------------------------------------------------------------------------
(* What Dispose reaches.                                                    *)

\* The slices one step further than those in r.
Further(r) == r \cup {content[l] : l \in {m \in r \cap LayoutSlices : content[m] # None}}
ContentType == content \in [LayoutSlices -> FullSlices \cup {None}]

LEMMA DisposalReaches ==
  ASSUME ContentType, NEW s \in Slices
  PROVE  \E g : /\ Disposal(s) = g[Depth] /\ g[0] = {s}
                /\ \A n \in 1..Depth : g[n] = Further(g[n - 1])
  <1> DEFINE Reaches(g) == g = [n \in 0..Depth |->
                 IF n = 0 THEN {s}
                 ELSE g[n - 1] \cup {content[l] : l \in {m \in g[n - 1] \cap LayoutSlices : content[m] # None}}]
             reach == CHOOSE g : Reaches(g)
             up == [r \in SUBSET Slices |-> Further(r)]
  <1>1. up \in [SUBSET Slices -> SUBSET Slices]
    <2>1. ASSUME NEW r \in SUBSET Slices PROVE Further(r) \in SUBSET Slices
      BY LinksDiffer DEF Further, ContentType
    <2>2. QED
      BY <2>1
  <1> HIDE DEF up
  <1>2. PICK g \in [0..Depth -> SUBSET Slices] : Iterates(g, Depth, {s}, up)
    <2>1. {s} \in SUBSET Slices
      OBVIOUS
    <2>2. QED
      BY <1>1, <2>1, DepthIsNatural, Iteration, Zenon
  <1>3. \A n \in 0..Depth : n # 0 => n - 1 \in 0..Depth
    BY DepthIsNatural
  <1>4. ASSUME NEW n \in 0..Depth
        PROVE  (IF n = 0 THEN {s} ELSE up[g[n - 1]]) =
               IF n = 0 THEN {s}
               ELSE g[n - 1] \cup {content[l] : l \in {m \in g[n - 1] \cap LayoutSlices : content[m] # None}}
    <2>1. CASE n = 0
      BY <2>1
    <2>2. CASE n # 0
      <3>1. g[n - 1] \in SUBSET Slices
        BY <1>3, <2>2
      <3>2. up[g[n - 1]] = Further(g[n - 1])
        BY <3>1 DEF up
      <3>3. QED
        BY <2>2, <3>2 DEF Further
    <2>3. QED
      BY <2>1, <2>2
  <1>5. Reaches(g)
    BY <1>2, <1>4, Zenon DEF Iterates
  <1>6. Reaches(reach)
    BY <1>5, Zenon
  <1>7. Disposal(s) = reach[Depth]
    BY Zenon DEF Disposal
  <1> HIDE DEF reach
  <1>8. reach[0] = {s}
    BY <1>6, DepthIsNatural
  <1>9. ASSUME NEW n \in 1..Depth PROVE reach[n] = Further(reach[n - 1])
    <2>1. n \in 0..Depth /\ n # 0
      OBVIOUS
    <2>2. QED
      BY <1>6, <2>1 DEF Further
  <1>10. QED
    BY <1>7, <1>8, <1>9

\* A link's Dispose reaches the links before it: all the content inside it.
LEMMA DisposalOfChain ==
  ASSUME TypeOK, OuterInv, ContentInv, NEW i \in 0..LayoutsUsed
  PROVE  Disposal(Link(i)) = {Link(j) : j \in 0..i}
  <1>1. ContentType /\ LayoutsUsed \in 0..Len(Layouts)
    BY DEF ContentType, TypeOK, OuterInv
  <1>2. Link(i) \in Slices /\ LayoutsUsed \in Nat
    BY <1>1, LinksDiffer
  <1>3. PICK g : /\ Disposal(Link(i)) = g[Depth] /\ g[0] = {Link(i)}
                 /\ \A n \in 1..Depth : g[n] = Further(g[n - 1])
    BY <1>1, <1>2, DisposalReaches
  <1> DEFINE After(n) == {Link(j) : j \in {k \in 0..i : k + n >= i}}
             S == {n \in Nat : n <= Depth => g[n] = After(n)}
  <1>4. 0 \in S
    <2>1. After(0) = {Link(i)}
      BY <1>2
    <2>2. QED
      BY <1>3, <2>1
  <1>5. ASSUME NEW n \in Nat, n \in S PROVE n + 1 \in S
    <2>1. SUFFICES ASSUME n + 1 <= Depth PROVE g[n + 1] = After(n + 1)
      OBVIOUS
    <2>2. n <= Depth /\ n + 1 \in 1..Depth
      BY <2>1, DepthCovers
    <2>3. g[n] = After(n)
      BY <1>5, <2>2
    <2>4. g[n + 1] = Further(After(n))
      BY <1>3, <2>2, <2>3
    <2>5. ASSUME NEW j \in 1..i
          PROVE  Link(j) \in LayoutSlices /\ content[Link(j)] = Link(j - 1) /\ Link(j - 1) # None
      <3>1. j \in 1..LayoutsUsed /\ j \in 1..Len(Layouts) /\ j - 1 \in 0..Len(Layouts)
        BY <1>1, <1>2, LinksDiffer
      <3>2. Link(j) = Layouts[j] /\ Layouts[j] \in LayoutSlices /\ Link(j - 1) # None
        BY <3>1, LinksDiffer
      <3>3. QED
        BY <3>1, <3>2 DEF ContentInv
    <2>6. Link(0) \notin LayoutSlices
      BY LinksDiffer DEF Link
    <2>7. ASSUME NEW x \in Further(After(n)) PROVE x \in After(n + 1)
      <3>1. CASE x \in After(n)
        BY <3>1, <1>2
      <3>2. CASE x \in {content[l] : l \in {m \in After(n) \cap LayoutSlices : content[m] # None}}
        <4>1. PICK l \in After(n) \cap LayoutSlices : x = content[l]
          BY <3>2
        <4>2. PICK k \in 0..i : k + n >= i /\ l = Link(k)
          BY <4>1
        <4>3. k \in 1..i
          BY <4>1, <4>2, <2>6
        <4>4. x = Link(k - 1) /\ k - 1 \in 0..i /\ k - 1 + (n + 1) >= i
          BY <4>1, <4>2, <4>3, <2>5, <1>2
        <4>5. QED
          BY <4>4
      <3>3. QED
        BY <2>7, <3>1, <3>2 DEF Further
    <2>8. ASSUME NEW x \in After(n + 1) PROVE x \in Further(After(n))
      <3>1. PICK k \in 0..i : k + (n + 1) >= i /\ x = Link(k)
        BY <2>8
      <3>2. CASE k + n >= i
        BY <3>1, <3>2 DEF Further
      <3>3. CASE k + n < i
        <4>1. k + 1 \in 1..i /\ k + 1 \in 0..i /\ k + 1 + n >= i /\ k + 1 - 1 = k
          BY <3>1, <3>3, <1>2
        <4>2. Link(k + 1) \in After(n)
          BY <4>1
        <4>3. Link(k + 1) \in LayoutSlices /\ content[Link(k + 1)] = x /\ x # None
          BY <3>1, <4>1, <2>5
        <4>4. QED
          BY <4>2, <4>3 DEF Further
      <3>4. QED
        BY <3>2, <3>3, <1>2
    <2> HIDE DEF After
    <2>9. QED
      BY <2>4, <2>7, <2>8
  <1> HIDE DEF S
  <1>6. Depth \in S
    BY <1>4, <1>5, Induction, DepthCovers
  <1>7. g[Depth] = After(Depth)
    BY <1>6, DepthCovers DEF S
  <1>8. After(Depth) = {Link(j) : j \in 0..i}
    BY <1>1, <1>2, DepthCovers, LinksDiffer
  <1>9. QED
    BY <1>3, <1>7, <1>8

\* The Dispose of a slice that is no layout reaches that slice only.
LEMMA DisposalOfOthers ==
  ASSUME TypeOK, NEW s \in Slices \ LayoutSlices
  PROVE  Disposal(s) = {s}
  <1>1. ContentType
    BY DEF ContentType, TypeOK
  <1>2. PICK g : /\ Disposal(s) = g[Depth] /\ g[0] = {s}
                 /\ \A n \in 1..Depth : g[n] = Further(g[n - 1])
    BY <1>1, DisposalReaches
  <1> DEFINE S == {n \in Nat : n <= Depth => g[n] = {s}}
  <1>3. 0 \in S
    BY <1>2
  <1>4. ASSUME NEW n \in Nat, n \in S PROVE n + 1 \in S
    <2>1. SUFFICES ASSUME n + 1 <= Depth PROVE g[n + 1] = {s}
      OBVIOUS
    <2>2. n <= Depth /\ n + 1 \in 1..Depth
      BY <2>1, DepthCovers
    <2>3. g[n + 1] = Further({s})
      BY <1>2, <1>4, <2>2
    <2>4. {s} \cap LayoutSlices = {}
      OBVIOUS
    <2>5. QED
      BY <2>3, <2>4 DEF Further
  <1> HIDE DEF S
  <1>5. Depth \in S
    BY <1>3, <1>4, Induction, DepthCovers
  <1>6. QED
    BY <1>2, <1>5, DepthCovers DEF S

-----------------------------------------------------------------------------
(* The rest of the invariant, and what it says while templates run.         *)

\* A template that another one renders: a link below the last one, a partial or
\* a minimal partial, which is the running one.
FrameInv(i) ==
    /\ stack[i].slice \in {Link(j) : j \in 0..(LayoutsUsed - 1)} \cup Partials \cup Minimals
    /\ stack[i].slice \in Partials => parent[stack[i].slice] # None
    /\ stack[i].kind = "minimal" <=> stack[i].slice \in Minimals
    /\ stack[i].dispose <=> stack[i].slice \in Partials \cup Minimals
    /\ i < Len(stack) => stack[i].slice \notin Minimals
    /\ stack[i].previous = IF i = 2 THEN None ELSE stack[i - 1].slice

StackInv ==
    /\ stack # <<>> => /\ stack[1].slice = outer /\ stack[1].kind = "body"
                       /\ stack[1].previous = None /\ stack[1].dispose
    /\ \A i \in 2..Len(stack) : FrameInv(i)

\* Only the root knows an active slice: the running one, unless that is the root.
ActiveInv == active = [s \in FullSlices |-> IF s = outer /\ Len(stack) > 1 THEN Top.slice ELSE None]

\* The root has all the helpers that were created, until it is disposed.
HelperInv ==
    /\ \A s \in FullSlices : s # outer \/ outer \in disposed => cache[s] = {}
    /\ \A h \in Helpers : /\ created[h] <= 1
                          /\ created[h] = 1 => outer \in disposed \/ h \in cache[outer]
                          /\ owner[h] # None => h \in cache[outer] /\ owner[h] \in Chain

\* A partial renders once, and is not disposed before it ends.
FreshInv ==
    \A i \in DOMAIN stack :
        /\ stack[i].slice \in started
        /\ stack[i].slice \in Partials \cup Minimals =>
              /\ stack[i].slice \notin disposed
              /\ \A j \in DOMAIN stack : stack[i].slice = stack[j].slice => i = j

DisposedInv ==
    /\ disposed \subseteq started
    /\ outer \in disposed <=> pc \in {"done", "failed"}
    /\ started \subseteq disposed \cup Chain \cup {stack[i].slice : i \in DOMAIN stack}
    /\ outer \in disposed => Chain \subseteq disposed
    /\ asyncTemplates /\ outer \notin disposed => Chain \cap disposed = {}

RenderInv ==
    /\ TypeOK /\ OuterInv /\ ParentInv /\ ContentInv /\ StackInv /\ ActiveInv
    /\ HelperInv /\ FreshInv /\ DisposedInv

LEMMA ChainFacts ==
  ASSUME TypeOK, OuterInv, ParentInv
  PROVE  /\ LayoutsUsed \in Nat /\ (Chain \subseteq started \/ pc = "idle")
         /\ outer \in FullSlices /\ outer \in Chain /\ Chain \subseteq FullSlices
         /\ Root(outer) = outer
         /\ \A s \in Chain : Root(s) = outer
  <1>1. LayoutsUsed \in 0..Len(Layouts) /\ outer = Link(LayoutsUsed) /\ LayoutsUsed \in Nat /\ LayoutsUsed \in 0..LayoutsUsed
    BY LinksDiffer DEF OuterInv
  <1>2. \A s \in Chain : Root(s) = outer
    BY RootOfChain DEF Chain
  <1>3. outer \in Chain
    BY <1>1 DEF Chain
  <1>4. Chain \subseteq FullSlices
    BY <1>1, LinksDiffer DEF Chain
  <1>5. Chain \subseteq started \/ pc = "idle"
    <2>1. SUFFICES ASSUME pc # "idle", NEW i \in 0..LayoutsUsed PROVE Link(i) \in started
      BY DEF Chain
    <2>2. CASE i = 0
      BY <2>1, <2>2 DEF Link, OuterInv
    <2>3. CASE i \in 1..LayoutsUsed
      <3>1. Layouts[i] \in FirstLayouts(LayoutsUsed) /\ Link(i) = Layouts[i]
        BY <1>1, <2>3 DEF FirstLayouts, Link
      <3>2. QED
        BY <3>1 DEF OuterInv
    <2>4. QED
      BY <1>1, <2>1, <2>2, <2>3
  <1>6. QED
    BY <1>1, <1>2, <1>3, <1>4, <1>5

LEMMA RunningFacts ==
  ASSUME RenderInv, pc = "running"
  PROVE  /\ Len(stack) \in Nat /\ Len(stack) >= 1 /\ stack \in Seq(Frames) /\ Top \in Frames
         /\ LayoutsUsed = Len(Layouts) /\ outer \notin disposed /\ outer = Link(LayoutsUsed)
         /\ \A i \in DOMAIN stack : stack[i].slice \in FullSlices =>
               Root(stack[i].slice) = outer /\ (parent[stack[i].slice] # None <=> i # 1)
         /\ Top.slice \in Minimals \/ Top.slice \in FullSlices
         /\ Top.slice \in LayoutSlices => \E i \in 1..LayoutsUsed :
               Top.slice = Link(i) /\ content[Top.slice] = Link(i - 1)
         /\ active[outer] = IF Len(stack) = 1 THEN None ELSE Top.slice
         /\ Top.kind = "minimal" <=> Top.slice \in Minimals
  <1>1. Len(stack) \in Nat /\ Len(stack) >= 1 /\ stack \in Seq(Frames) /\ Top \in Frames
    BY DEF RenderInv, TypeOK, Top
  <1>2. LayoutsUsed = Len(Layouts) /\ outer = Link(LayoutsUsed) /\ outer \notin disposed
    BY DEF RenderInv, OuterInv, DisposedInv
  <1>3. outer \in FullSlices /\ outer \notin Minimals /\ Root(outer) = outer /\ parent[outer] = None
    BY ChainFacts, LinksDiffer DEF RenderInv, ParentInv
  <1>4. ASSUME NEW i \in DOMAIN stack
        PROVE  /\ stack[i].slice \in Minimals \/ stack[i].slice \in FullSlices
               /\ stack[i].slice \in FullSlices =>
                     Root(stack[i].slice) = outer /\ (parent[stack[i].slice] # None <=> i # 1)
               /\ stack[i].slice \in LayoutSlices => \E j \in 1..LayoutsUsed : stack[i].slice = Link(j)
    <2>1. CASE i = 1
      <3>1. stack[i].slice = outer
        BY <1>1, <2>1 DEF RenderInv, StackInv
      <3>2. LayoutsUsed \in Nat
        BY <1>2, LinksDiffer
      <3>3. outer \in LayoutSlices => LayoutsUsed \in 1..LayoutsUsed
        BY <1>2, <3>2, LinksDiffer DEF Link
      <3>4. QED
        BY <1>2, <1>3, <2>1, <3>1, <3>3
    <2>2. CASE i # 1
      <3>1. i \in 2..Len(stack)
        BY <1>1, <2>2
      <3>2. FrameInv(i)
        BY <3>1 DEF RenderInv, StackInv
      <3>3. CASE stack[i].slice \in {Link(j) : j \in 0..(LayoutsUsed - 1)}
        <4>1. PICK j \in 0..(LayoutsUsed - 1) : stack[i].slice = Link(j)
          BY <3>3
        <4>2. j \in 0..LayoutsUsed /\ j \in 0..Len(Layouts) /\ LayoutsUsed \in Nat
          BY <1>2, LinksDiffer
        <4>3. Root(Link(j)) = outer /\ Link(j) \in FullSlices
          BY <4>2, RootOfChain, LinksDiffer DEF RenderInv
        <4>4. PICK k \in (j + 1)..LayoutsUsed : parent[Link(j)] = Link(k)
          BY DEF RenderInv, ParentInv
        <4>5. Link(k) # None
          BY <1>2, <4>2, LinksDiffer
        <4>6. Link(j) \in LayoutSlices => j \in 1..LayoutsUsed
          BY <4>2, LinksDiffer DEF Link
        <4>7. QED
          BY <2>2, <4>1, <4>3, <4>4, <4>5, <4>6
      <3>4. CASE stack[i].slice \in Partials
        <4>1. parent[stack[i].slice] # None
          BY <3>2, <3>4 DEF FrameInv
        <4>2. Root(stack[i].slice) = outer
          BY <3>4, <4>1, RootOfPartial DEF RenderInv
        <4>3. stack[i].slice \in FullSlices /\ stack[i].slice \notin LayoutSlices
          BY <3>4, SliceAssumption DEF FullSlices
        <4>4. QED
          BY <2>2, <4>1, <4>2, <4>3
      <3>5. CASE stack[i].slice \in Minimals
        BY <3>5, LinksDiffer DEF FullSlices
      <3>6. QED
        BY <3>2, <3>3, <3>4, <3>5 DEF FrameInv
    <2>3. QED
      BY <2>1, <2>2
  <1>5. Len(stack) \in DOMAIN stack
    BY <1>1
  <1>6. Top.slice \in LayoutSlices => \E i \in 1..LayoutsUsed :
               Top.slice = Link(i) /\ content[Top.slice] = Link(i - 1)
    <2>1. SUFFICES ASSUME Top.slice \in LayoutSlices
                   PROVE \E i \in 1..LayoutsUsed : Top.slice = Link(i) /\ content[Top.slice] = Link(i - 1)
      OBVIOUS
    <2>2. PICK i \in 1..LayoutsUsed : Top.slice = Link(i)
      BY <1>4, <1>5, <2>1 DEF Top
    <2>3. Link(i) = Layouts[i]
      BY <1>2, LinksDiffer
    <2>4. QED
      BY <2>2, <2>3 DEF RenderInv, ContentInv
  <1>7. active[outer] = IF Len(stack) = 1 THEN None ELSE Top.slice
    <2>1. active[outer] = IF Len(stack) > 1 THEN Top.slice ELSE None
      BY <1>3 DEF RenderInv, ActiveInv
    <2>2. Len(stack) \in Nat /\ Len(stack) >= 1
      BY <1>1
    <2>3. CASE Len(stack) = 1
      BY <2>1, <2>2, <2>3
    <2>4. CASE Len(stack) # 1
      <3>1. Len(stack) > 1
        BY <2>2, <2>4
      <3>2. QED
        BY <2>1, <2>4, <3>1
    <2>5. QED
      BY <2>3, <2>4
  <1>8. Top.kind = "minimal" <=> Top.slice \in Minimals
    <2>1. CASE Len(stack) = 1
      <3>1. stack # <<>>
        BY <1>1
      <3>2. Top.slice = outer /\ Top.kind = "body"
        BY <2>1, <3>1 DEF RenderInv, StackInv, Top
      <3>3. QED
        BY <1>3, <3>2
    <2>2. CASE Len(stack) # 1
      <3>1. Len(stack) \in 2..Len(stack)
        <4>1. Len(stack) \in Nat /\ Len(stack) >= 1
          BY <1>1
        <4>2. \A n \in Nat : n >= 1 /\ n # 1 => n \in 2..n
          OBVIOUS
        <4>3. QED
          BY <2>2, <4>1, <4>2, Zenon
      <3>2. \A i \in 2..Len(stack) : FrameInv(i)
        BY DEF RenderInv, StackInv
      <3>3. FrameInv(Len(stack))
        BY <3>1, <3>2
      <3>4. QED
        BY <3>3 DEF FrameInv, Top
    <2>3. QED
      BY <2>1, <2>2
  <1>9. QED
    BY <1>1, <1>2, <1>4, <1>5, <1>6, <1>7, <1>8 DEF Top

-----------------------------------------------------------------------------
(* A template renders another one.                                          *)

LEMMA ChainKept ==
  ASSUME OuterInv, OuterInv', started' \cap LayoutSlices = started \cap LayoutSlices
  PROVE  LayoutsUsed' = LayoutsUsed /\ Chain' = Chain
  BY DEF LayoutsUsed, Chain, Link

LEMMA Pushed ==
  ASSUME RenderInv, pc = "running", NEW child \in Slices, NEW kind \in Kinds, NEW own \in BOOLEAN,
         child \in {Link(j) : j \in 0..(LayoutsUsed - 1)} \/ child \in (Partials \cup Minimals) \ started,
         Top.slice \in FullSlices,
         kind = "minimal" <=> child \in Minimals,
         own <=> child \in Partials \cup Minimals,
         stack' = Append(stack, Frame(child, kind, active[outer], own)),
         active' = [active EXCEPT ![outer] = child],
         started' = started \cup {child},
         \/ parent' = parent /\ child \notin Partials
         \/ parent' = [parent EXCEPT ![child] = outer] /\ child \in FullSlices,
         UNCHANGED <<asyncTemplates, pc, outer, content, helperVars, disposed, failing>>,
         sections' \in 0..MaxSections, failures' \in 0..MaxFailures
  PROVE  RenderInv'
  <1> DEFINE n == Len(stack)
             frame == Frame(child, kind, active[outer], own)
  <1>1. n \in Nat /\ n >= 1 /\ stack \in Seq(Frames) /\ DOMAIN stack = 1..n /\ Top = stack[n]
    BY RunningFacts DEF Top
  <1>2. TypeOK
    BY DEF RenderInv
  <1>3. outer \in FullSlices /\ outer \in Chain /\ Chain \subseteq started /\ Chain \subseteq FullSlices
    BY ChainFacts DEF RenderInv
  <1>4. active[outer] = IF n = 1 THEN None ELSE stack[n].slice
    BY <1>1, RunningFacts
  <1>5. frame \in Frames /\ frame.slice = child /\ frame.kind = kind /\ frame.dispose = own
        /\ frame.previous = IF n = 1 THEN None ELSE stack[n].slice
    <2>1. active[outer] \in Slices \cup {None}
      BY <1>2, <1>3 DEF TypeOK
    <2>2. QED
      BY <1>4, <2>1 DEF Frame, Frames
  <1> HIDE DEF frame
  <1>6. /\ Len(stack') = n + 1 /\ DOMAIN stack' = 1..(n + 1) /\ stack' \in Seq(Frames)
        /\ stack'[n + 1] = frame /\ \A i \in 1..n : stack'[i] = stack[i]
    BY <1>1, <1>5 DEF frame
  <1>7. LayoutsUsed = Len(Layouts) /\ LayoutsUsed \in Nat /\ outer = Link(LayoutsUsed) /\ outer \notin disposed
    BY RunningFacts, LinksDiffer
  <1>8. child \in LayoutSlices => child \in started
    BY <1>3, <1>7, LinksDiffer, SliceAssumption DEF Chain
  <1>9. started' \cap LayoutSlices = started \cap LayoutSlices
    BY <1>8
  <1>10. OuterInv'
    BY <1>9 DEF RenderInv, OuterInv, LayoutsUsed, Link, FirstLayouts
  <1>11. LayoutsUsed' = LayoutsUsed /\ Chain' = Chain
    BY <1>9, <1>10, ChainKept DEF RenderInv
  <1>12. child # outer /\ (child \in Chain \/ child \in Partials \cup Minimals)
    <2>1. CASE child \in {Link(j) : j \in 0..(LayoutsUsed - 1)}
      BY <1>7, <2>1, LinksDiffer DEF Chain
    <2>2. CASE child \in Partials \cup Minimals
      BY <1>7, <2>2, LinksDiffer
    <2>3. QED
      BY <2>1, <2>2
  <1>13. TypeOK'
    <2>1. pc' = "running" <=> stack' # <<>>
      BY <1>6
    <2>2. parent' \in [FullSlices -> FullSlices \cup {None}]
      BY <1>2, <1>3 DEF TypeOK
    <2>3. active' \in [FullSlices -> Slices \cup {None}]
      BY <1>2, <1>3 DEF TypeOK
    <2>4. QED
      BY <1>2, <1>6, <2>1, <2>2, <2>3 DEF TypeOK, helperVars
  <1>14. ParentInv'
    <2>1. parent'[outer'] = None
      BY <1>2, <1>3, <1>12 DEF RenderInv, ParentInv, TypeOK
    <2>2. ASSUME NEW i \in 0..(LayoutsUsed - 1)
          PROVE  \E j \in (i + 1)..LayoutsUsed : parent'[Link(i)] = Link(j)
      <3>1. CASE Link(i) = child /\ parent' = [parent EXCEPT ![child] = outer]
        <4>1. LayoutsUsed \in (i + 1)..LayoutsUsed
          BY <1>7
        <4>2. parent'[Link(i)] = Link(LayoutsUsed)
          BY <1>2, <1>7, <3>1, LinksDiffer DEF TypeOK
        <4>3. QED
          BY <4>1, <4>2
      <3>2. CASE ~(Link(i) = child /\ parent' = [parent EXCEPT ![child] = outer])
        <4>1. parent'[Link(i)] = parent[Link(i)]
          BY <1>2, <3>2, <1>7, LinksDiffer DEF TypeOK
        <4>2. QED
          BY <4>1 DEF RenderInv, ParentInv
      <3>3. QED
        BY <3>1, <3>2
    <2>3. ASSUME NEW p \in Partials, parent'[p] # None
          PROVE  parent'[p] = outer /\ pc \notin {"idle", "layouts"}
      <3>1. p \in FullSlices
        BY DEF FullSlices
      <3>2. CASE p = child /\ parent' = [parent EXCEPT ![child] = outer]
        BY <1>2, <3>1, <3>2 DEF TypeOK
      <3>3. CASE ~(p = child /\ parent' = [parent EXCEPT ![child] = outer])
        <4>1. parent'[p] = parent[p]
          BY <1>2, <3>1, <3>3 DEF TypeOK
        <4>2. QED
          BY <2>3, <4>1 DEF RenderInv, ParentInv
      <3>4. QED
        BY <3>2, <3>3
    <2>4. (LayoutsUsed + 1)..Len(Layouts) = {}
      BY <1>7
    <2>5. QED
      BY <1>11, <2>1, <2>2, <2>3, <2>4 DEF ParentInv, Link
  <1>15. ContentInv'
    BY <1>11 DEF RenderInv, ContentInv, Link
  <1>16. StackInv'
    <2>1. ASSUME NEW i \in 2..n PROVE FrameInv(i)'
      <3>1. FrameInv(i)
        BY <1>1 DEF RenderInv, StackInv
      <3>2. stack'[i] = stack[i] /\ stack'[i - 1] = stack[i - 1]
        BY <1>1, <1>6
      <3>3. stack[i].slice \notin Minimals
        BY <1>1, <3>1, LinksDiffer DEF FrameInv
      <3>4. stack[i].slice \in Partials => parent'[stack[i].slice] # None
        BY <1>2, <1>3, <3>1, LinksDiffer DEF FrameInv, TypeOK, FullSlices
      <3>5. QED
        BY <1>11, <3>1, <3>2, <3>3, <3>4 DEF FrameInv, Link
    <2>2. ASSUME NEW i \in {n + 1} PROVE FrameInv(i)'
      <3>1. i - 1 = n /\ n \in 1..n /\ stack'[i - 1] = stack[n]
        BY <1>1, <1>6
      <3>2. child \in Partials => parent'[child] # None
        BY <1>2, <1>3, LinksDiffer DEF TypeOK
      <3>3. (i = 2 <=> n = 1) /\ ~(i < Len(stack'))
        BY <1>1, <1>6
      <3>4. /\ child \in {Link(j) : j \in 0..(LayoutsUsed' - 1)} \cup Partials \cup Minimals
            /\ stack'[i].slice = child /\ stack'[i].kind = kind /\ stack'[i].dispose = own
        BY <1>5, <1>6, <1>11
      <3>5. stack'[i].previous = IF i = 2 THEN None ELSE stack'[i - 1].slice
        BY <1>5, <1>6, <3>1, <3>3
      <3>6. stack'[i].dispose <=> child \in Partials \cup Minimals
        BY <3>4, Zenon
      <3>7. QED
        BY <3>2, <3>3, <3>4, <3>5, <3>6 DEF FrameInv, Link
    <2>3. stack' # <<>> /\ stack'[1] = stack[1] /\ stack # <<>>
      BY <1>1, <1>6
    <2>4. 2..Len(stack') = (2..n) \cup {n + 1}
      BY <1>1, <1>6
    <2>5. QED
      <3>1. \A i \in 2..Len(stack') : FrameInv(i)'
        BY <2>1, <2>2, <2>4
      <3>2. stack'[1].slice = outer' /\ stack'[1].kind = "body" /\ stack'[1].previous = None /\ stack'[1].dispose
        BY <2>3 DEF RenderInv, StackInv
      <3>3. QED
        BY <3>1, <3>2 DEF StackInv
  <1>17. ActiveInv'
    <2>1. Top' = frame /\ Len(stack') > 1
      BY <1>1, <1>6 DEF Top
    <2>2. QED
      BY <1>2, <1>5, <2>1 DEF RenderInv, ActiveInv, TypeOK
  <1>18. HelperInv'
    BY <1>11 DEF RenderInv, HelperInv, helperVars
  <1>19. FreshInv'
    <2>1. ASSUME NEW i \in 1..n, stack[i].slice = child PROVE child \notin Partials \cup Minimals
      <3>1. child \in started
        BY <1>1, <2>1 DEF RenderInv, FreshInv
      <3>2. QED
        BY <1>7, <3>1, LinksDiffer
    <2>2. child \in Partials \cup Minimals => child \notin disposed
      BY <1>7, LinksDiffer DEF RenderInv, DisposedInv
    <2>3. DOMAIN stack' = (1..n) \cup {n + 1} /\ stack'[n + 1].slice = child
      BY <1>1, <1>5, <1>6
    <2>4. QED
      BY <1>1, <1>6, <2>1, <2>2, <2>3 DEF RenderInv, FreshInv
  <1>20. DisposedInv'
    <2>1. DOMAIN stack' = (1..n) \cup {n + 1} /\ stack'[n + 1].slice = child
      BY <1>1, <1>5, <1>6
    <2>2. {stack'[i].slice : i \in DOMAIN stack'} = {stack[i].slice : i \in DOMAIN stack} \cup {child}
      BY <1>1, <1>6, <2>1
    <2>3. QED
      BY <1>11, <2>2 DEF RenderInv, DisposedInv
  <1>21. QED
    BY <1>10, <1>13, <1>14, <1>15, <1>16, <1>17, <1>18, <1>19, <1>20 DEF RenderInv

LEMMA EnterPushes ==
  ASSUME RenderInv, pc = "running", Top.slice \in FullSlices, NEW child, NEW own, Enter(child, own)
  PROVE  /\ stack' = Append(stack, Frame(child, "body", active[outer], own))
         /\ active' = [active EXCEPT ![outer] = child]
         /\ started' = started \cup {child}
         /\ parent' = [parent EXCEPT ![child] = outer]
  <1>1. Root(Top.slice) = outer
    BY RunningFacts DEF Top
  <1>2. QED
    BY <1>1 DEF Enter

LEMMA RenderPartialKeeps ==
  ASSUME RenderInv, UNCHANGED asyncTemplates, NEW p \in Partials, RenderPartial(p)
  PROVE  RenderInv'
  <1>1. pc = "running" /\ Top.slice \in FullSlices /\ p \notin started /\ Enter(p, TRUE)
    BY DEF RenderPartial, Running
  <1>2. p \in FullSlices /\ p \in Slices /\ p \notin Minimals
    BY SliceAssumption DEF FullSlices, Slices
  <1>3. /\ stack' = Append(stack, Frame(p, "body", active[outer], TRUE))
        /\ active' = [active EXCEPT ![outer] = p]
        /\ started' = started \cup {p}
        /\ parent' = [parent EXCEPT ![p] = outer]
    BY <1>1, EnterPushes
  <1>4. UNCHANGED <<asyncTemplates, pc, outer, content, helperVars, disposed, failing>>
    BY DEF RenderPartial, helperVars
  <1>5. sections' \in 0..MaxSections /\ failures' \in 0..MaxFailures
    BY DEF RenderPartial, counters, RenderInv, TypeOK
  <1>6. "body" \in Kinds /\ TRUE \in BOOLEAN /\ "body" # "minimal"
    BY DEF Kinds
  <1>7. QED
    BY <1>1, <1>2, <1>3, <1>4, <1>5, <1>6, Pushed

LEMMA RenderMinimalKeeps ==
  ASSUME RenderInv, UNCHANGED asyncTemplates, NEW m \in Minimals, RenderMinimal(m)
  PROVE  RenderInv'
  <1>1. pc = "running" /\ Top.slice \in FullSlices /\ m \notin started /\ Root(Top.slice) = outer
    BY RunningFacts DEF RenderMinimal, Running, Top
  <1>2. m \in Slices /\ m \notin Partials
    BY SliceAssumption DEF Slices
  <1>3. /\ stack' = Append(stack, Frame(m, "minimal", active[outer], TRUE))
        /\ active' = [active EXCEPT ![outer] = m]
        /\ started' = started \cup {m}
        /\ parent' = parent
    BY <1>1 DEF RenderMinimal
  <1>4. UNCHANGED <<asyncTemplates, pc, outer, content, helperVars, disposed, failing>>
    BY DEF RenderMinimal, helperVars
  <1>5. sections' \in 0..MaxSections /\ failures' \in 0..MaxFailures
    BY DEF RenderMinimal, counters, RenderInv, TypeOK
  <1>6. "minimal" \in Kinds /\ TRUE \in BOOLEAN
    BY DEF Kinds
  <1>7. QED
    BY <1>1, <1>2, <1>3, <1>4, <1>5, <1>6, Pushed

\* The content of the layout whose template runs is a link below the last one.
LEMMA ContentOfTop ==
  ASSUME RenderInv, pc = "running", Top.slice \in LayoutSlices
  PROVE  /\ content[Top.slice] \in {Link(j) : j \in 0..(LayoutsUsed - 1)}
         /\ content[Top.slice] \in FullSlices \ (Partials \cup Minimals)
         /\ content[Top.slice] \in started /\ content[Top.slice] \in Slices
         /\ Root(content[Top.slice]) = outer
  <1>1. PICK i \in 1..LayoutsUsed : Top.slice = Link(i) /\ content[Top.slice] = Link(i - 1)
    BY RunningFacts
  <1>2. i - 1 \in 0..(LayoutsUsed - 1) /\ i - 1 \in 0..LayoutsUsed /\ i - 1 \in 0..Len(Layouts)
    BY RunningFacts, LinksDiffer
  <1>3. Link(i - 1) \in Chain
    BY <1>2 DEF Chain
  <1>4. QED
    BY <1>1, <1>2, <1>3, ChainFacts, LinksDiffer DEF RenderInv

LEMMA RenderBodyKeeps ==
  ASSUME RenderInv, UNCHANGED asyncTemplates, RenderBody
  PROVE  RenderInv'
  <1> DEFINE child == content[Top.slice]
  <1>1. pc = "running" /\ Top.slice \in LayoutSlices /\ Enter(child, FALSE) /\ Top.slice \in FullSlices
    BY DEF RenderBody, Running, FullSlices
  <1>2. /\ child \in {Link(j) : j \in 0..(LayoutsUsed - 1)} /\ child \in Slices
        /\ child \in FullSlices \ (Partials \cup Minimals)
    BY <1>1, ContentOfTop
  <1>3. /\ stack' = Append(stack, Frame(child, "body", active[outer], FALSE))
        /\ active' = [active EXCEPT ![outer] = child]
        /\ started' = started \cup {child}
        /\ parent' = [parent EXCEPT ![child] = outer]
    BY <1>1, EnterPushes
  <1>4. UNCHANGED <<asyncTemplates, pc, outer, content, helperVars, disposed, failing>>
    BY DEF RenderBody, helperVars
  <1>5. sections' \in 0..MaxSections /\ failures' \in 0..MaxFailures
    BY BoundAssumption DEF RenderBody, RenderInv, TypeOK
  <1>6. "body" \in Kinds /\ FALSE \in BOOLEAN /\ "body" # "minimal"
    BY DEF Kinds
  <1> HIDE DEF child
  <1>7. QED
    BY <1>1, <1>2, <1>3, <1>4, <1>5, <1>6, Pushed

LEMMA RenderSectionKeeps ==
  ASSUME RenderInv, UNCHANGED asyncTemplates, RenderSection
  PROVE  RenderInv'
  <1> DEFINE child == content[Top.slice]
  <1>1. pc = "running" /\ Top.slice \in LayoutSlices /\ Top.slice \in FullSlices
    BY DEF RenderSection, Running, FullSlices
  <1>2. /\ child \in {Link(j) : j \in 0..(LayoutsUsed - 1)} /\ child \in Slices
        /\ child \in FullSlices \ (Partials \cup Minimals)
        /\ child \in started /\ Root(child) = outer
    BY <1>1, ContentOfTop
  <1>3. /\ stack' = Append(stack, Frame(child, "section", active[outer], FALSE))
        /\ active' = [active EXCEPT ![outer] = child]
    BY <1>2 DEF RenderSection
  <1>4. started' = started \cup {child} /\ parent' = parent
    BY <1>2 DEF RenderSection
  <1>5. UNCHANGED <<asyncTemplates, pc, outer, content, helperVars, disposed, failing>>
    BY DEF RenderSection, helperVars
  <1>6. sections' \in 0..MaxSections /\ failures' \in 0..MaxFailures
    BY BoundAssumption DEF RenderSection, RenderInv, TypeOK
  <1>7. "section" \in Kinds /\ FALSE \in BOOLEAN /\ "section" # "minimal"
    BY DEF Kinds
  <1> HIDE DEF child
  <1>8. QED
    BY <1>1, <1>2, <1>3, <1>4, <1>5, <1>6, <1>7, Pushed

-----------------------------------------------------------------------------
(* A template ends.                                                         *)

Reached(S) == UNION {Disposal(s) : s \in S}

\* What is disposed takes the helpers with it if the root is among it.
LEMMA DisposeFacts ==
  ASSUME TypeOK, HelperInv, outer \in FullSlices, outer \notin disposed,
         NEW S, Dispose(S)
  PROVE  /\ disposed' = disposed \cup Reached(S) /\ created' = created
         /\ outer \in Reached(S) => /\ owner' = [h \in Helpers |-> None]
                                 /\ cache' = [s \in FullSlices |-> {}]
         /\ outer \notin Reached(S) => owner' = owner /\ cache' = cache
  <1> DEFINE now == Reached(S) \ disposed
             cleared == UNION {cache[s] : s \in now \cap FullSlices}
  <1>1. /\ disposed' = disposed \cup now
        /\ owner' = [h \in Helpers |-> IF h \in cleared THEN None ELSE owner[h]]
        /\ cache' = [s \in FullSlices |-> IF s \in now THEN {} ELSE cache[s]]
        /\ created' = created
    BY Zenon DEF Dispose, Reached
  <1>2. owner = [h \in Helpers |-> owner[h]] /\ cache = [s \in FullSlices |-> cache[s]]
    BY DEF TypeOK
  <1>3. \A s \in FullSlices : s # outer => cache[s] = {}
    BY DEF HelperInv
  <1>4. CASE outer \in Reached(S)
    <2>1. outer \in now \cap FullSlices
      BY <1>4
    <2>2. cache[outer] \subseteq cleared
      BY <2>1
    <2>3. \A h \in Helpers : h \in cleared \/ owner[h] = None
      BY <2>2 DEF HelperInv
    <2>4. \A s \in FullSlices : s \in now \/ cache[s] = {}
      BY <1>3, <2>1
    <2>5. owner' = [h \in Helpers |-> None]
      BY <1>1, <2>3
    <2>6. cache' = [s \in FullSlices |-> {}]
      BY <1>1, <2>4
    <2>7. QED
      BY <1>1, <1>4, <2>5, <2>6
  <1>5. CASE outer \notin Reached(S)
    <2>1. cleared = {}
      BY <1>3, <1>5
    <2>2. \A s \in FullSlices : s \in now => cache[s] = {}
      BY <1>3, <1>5
    <2>3. owner' = owner
      BY <1>1, <1>2, <2>1
    <2>4. cache' = cache
      BY <1>1, <1>2, <2>2
    <2>5. QED
      BY <1>1, <1>5, <2>3, <2>4
  <1>6. QED
    BY <1>4, <1>5

LEMMA AtLeastOne ==
  \A n \in Nat : n >= 1 => /\ n = 1 \/ n > 1
                           /\ n > 1 => n # 1 /\ n \in 2..n /\ n - 1 \in 1..n /\ n - 1 \in Nat /\ n - 1 >= 1
                           /\ n > 1 => n = 2 \/ (n > 2 /\ n # 2 /\ n - 1 \in 2..n /\ n - 1 < n /\ n - 1 > 1)
  OBVIOUS

\* What the running template, or a partial that fails, disposes.
LEMMA ReachedOfPartial ==
  ASSUME TypeOK, NEW s \in Partials \cup Minimals
  PROVE  Reached({s}) = {s}
  <1>1. s \in Slices \ LayoutSlices
    BY SliceAssumption DEF Slices, FullSlices
  <1>2. Disposal(s) = {s}
    BY <1>1, DisposalOfOthers
  <1>3. QED
    BY <1>2 DEF Reached

LEMMA ReachedOfOuter ==
  ASSUME TypeOK, OuterInv, ContentInv
  PROVE  Reached({outer}) = Chain
  <1>1. LayoutsUsed \in 0..LayoutsUsed /\ outer = Link(LayoutsUsed)
    BY LinksDiffer DEF OuterInv
  <1>2. Disposal(outer) = Chain
    BY <1>1, DisposalOfChain DEF Chain
  <1>3. QED
    BY <1>2 DEF Reached

LEMMA ReachedFromStack ==
  ASSUME RenderInv, pc = "running", NEW S, S = {} \/ S = {Top.slice},
         Top.dispose => S = {Top.slice}, asyncTemplates /\ S # {} => Top.dispose
  PROVE  /\ Len(stack) = 1 => Reached(S) = Chain
         /\ Len(stack) # 1 =>
               /\ outer \notin Reached(S)
               /\ \/ Top.slice \in Partials \cup Minimals /\ Reached(S) = {Top.slice}
                  \/ /\ Top.slice \in Chain /\ Reached(S) \subseteq Chain
                     /\ asyncTemplates => Reached(S) = {}
  <1>1. Len(stack) \in Nat /\ Len(stack) >= 1
    BY RunningFacts
  <1>2. LayoutsUsed = Len(Layouts) /\ LayoutsUsed \in Nat /\ outer = Link(LayoutsUsed)
    BY RunningFacts, LinksDiffer
  <1>3. CASE Len(stack) = 1
    <2>1. stack # <<>>
      BY <1>3
    <2>2. Top.slice = outer /\ Top.dispose
      BY <1>3, <2>1 DEF RenderInv, StackInv, Top
    <2>3. S = {outer}
      BY <2>2
    <2>4. QED
      BY <1>3, <2>3, ReachedOfOuter DEF RenderInv
  <1>4. CASE Len(stack) # 1
    <2>1. FrameInv(Len(stack))
      <3>1. Len(stack) \in 2..Len(stack)
        BY <1>1, <1>4, AtLeastOne, Zenon
      <3>2. QED
        BY <3>1 DEF RenderInv, StackInv
    <2>2. CASE Top.slice \in Partials \cup Minimals
      <3>1. Top.dispose
        BY <2>1, <2>2 DEF FrameInv, Top
      <3>2. Reached(S) = {Top.slice}
        BY <2>2, <3>1, ReachedOfPartial DEF RenderInv
      <3>3. outer # Top.slice
        BY <1>2, <2>2, LinksDiffer
      <3>4. QED
        BY <1>4, <2>2, <3>2, <3>3
    <2>3. CASE Top.slice \notin Partials \cup Minimals
      <3>1. PICK j \in 0..(LayoutsUsed - 1) : Top.slice = Link(j)
        BY <2>1, <2>3 DEF FrameInv, Top
      <3>2. ~Top.dispose
        BY <2>1, <2>3 DEF FrameInv, Top
      <3>3. j \in 0..LayoutsUsed
        BY <1>2
      <3>4. Disposal(Top.slice) = {Link(k) : k \in 0..j}
        BY <3>1, <3>3, DisposalOfChain DEF RenderInv
      <3>5. {Link(k) : k \in 0..j} \subseteq Chain /\ outer \notin {Link(k) : k \in 0..j} /\ Top.slice \in Chain
        BY <1>2, <3>1, <3>3, LinksDiffer DEF Chain
      <3>6. CASE S = {}
        <4>1. Reached(S) = {}
          BY <3>6 DEF Reached
        <4>2. QED
          BY <1>4, <3>5, <4>1
      <3>7. CASE S = {Top.slice}
        <4>1. Reached(S) = {Link(k) : k \in 0..j}
          BY <3>4, <3>7 DEF Reached
        <4>2. ~asyncTemplates
          BY <3>2, <3>7
        <4>3. QED
          BY <1>4, <3>5, <4>1, <4>2
      <3>8. QED
        BY <3>6, <3>7
    <2>4. QED
      BY <2>2, <2>3
  <1>5. QED
    BY <1>3, <1>4

LEMMA ActiveAfterExit ==
  ASSUME RenderInv, pc = "running", ExitHelperRender
  PROVE  active' = [s \in FullSlices |-> IF s = outer /\ Len(stack) > 2 THEN stack[Len(stack) - 1].slice ELSE None]
  <1> DEFINE n == Len(stack)
  <1>1. n \in Nat /\ n >= 1
    BY RunningFacts
  <1>2. active = [s \in FullSlices |-> IF s = outer /\ n > 1 THEN Top.slice ELSE None]
    BY DEF RenderInv, ActiveInv
  <1>3. outer \in FullSlices /\ outer \notin Minimals /\ parent[outer] = None
    BY ChainFacts, LinksDiffer DEF RenderInv, ParentInv
  <1>4. DOMAIN stack = 1..n
    BY RunningFacts
  <1>5. CASE n = 1
    <2>1. stack # <<>>
      BY <1>5
    <2>2. Top.slice = outer /\ Top.kind # "minimal"
      BY <1>1, <1>5, <2>1 DEF RenderInv, StackInv, Top
    <2>3. active' = active
      BY <1>3, <2>2 DEF ExitHelperRender
    <2>4. QED
      BY <1>2, <1>5, <2>3, SMTT(30)
  <1>6. CASE n > 1
    <2>1. FrameInv(n)
      <3>1. n \in 2..n
        BY <1>1, <1>6
      <3>2. QED
        BY <3>1 DEF RenderInv, StackInv
    <2>2. Top.previous = IF n = 2 THEN None ELSE stack[n - 1].slice
      BY <1>1, <2>1 DEF FrameInv, Top
    <2>3. active' = [active EXCEPT ![outer] = Top.previous]
      <3>1. CASE Top.kind = "minimal"
        <4>1. stack[n - 1].slice \in FullSlices
          <5>1. CASE n = 2
            <6>1. stack # <<>> /\ n - 1 = 1
              BY <5>1
            <6>2. QED
              BY <1>3, <6>1 DEF RenderInv, StackInv
          <5>2. CASE n # 2
            <6>1. n - 1 \in 2..Len(stack) /\ n - 1 < Len(stack)
              BY <1>1, <1>6, <5>2, AtLeastOne, Zenon
            <6>2. FrameInv(n - 1)
              BY <6>1 DEF RenderInv, StackInv
            <6>3. stack[n - 1].slice \in {Link(j) : j \in 0..(LayoutsUsed - 1)} \cup Partials
              BY <6>1, <6>2 DEF FrameInv
            <6>4. LayoutsUsed = Len(Layouts)
              BY RunningFacts
            <6>5. QED
              BY <6>3, <6>4, LinksDiffer DEF FullSlices
          <5>3. QED
            BY <5>1, <5>2
        <4>2. n - 1 \in DOMAIN stack
          BY <1>1, <1>4, <1>6
        <4>3. Root(stack[n - 1].slice) = outer
          BY <4>1, <4>2, RunningFacts
        <4>4. QED
          BY <3>1, <4>3 DEF ExitHelperRender
      <3>2. CASE Top.kind # "minimal"
        <4>1. Top.slice \in FullSlices
          BY <3>2, RunningFacts
        <4>2. n \in DOMAIN stack /\ n # 1
          BY <1>1, <1>4, <1>6
        <4>3. Root(Top.slice) = outer /\ parent[Top.slice] # None
          BY <1>1, <4>1, <4>2, RunningFacts DEF Top
        <4>4. QED
          BY <3>2, <4>3 DEF ExitHelperRender
      <3>3. QED
        BY <3>1, <3>2
    <2>4. n = 2 \/ n > 2
      BY <1>1, <1>6, AtLeastOne, Zenon
    <2>5. QED
      BY <1>2, <1>3, <2>2, <2>3, <2>4
  <1>7. QED
    BY <1>1, <1>5, <1>6, AtLeastOne, Zenon

LEMMA Popped ==
  ASSUME RenderInv, pc = "running", ExitHelperRender,
         NEW S, S = {} \/ S = {Top.slice}, Top.dispose => S = {Top.slice},
         asyncTemplates /\ S # {} => Top.dispose,
         Dispose(S), NEW f \in BOOLEAN, Return(f),
         UNCHANGED <<asyncTemplates, outer, parent, content, started>>,
         sections' \in 0..MaxSections, failures' \in 0..MaxFailures
  PROVE  RenderInv'
  <1> DEFINE n == Len(stack)
  <1>1. n \in Nat /\ n >= 1
    BY RunningFacts
  <1>2. TypeOK /\ stack \in Seq(Frames) /\ DOMAIN stack = 1..n /\ Top = stack[n] /\ n \in DOMAIN stack
    BY <1>1, RunningFacts DEF RenderInv, Top
  <1>3. outer \in FullSlices /\ outer \in Chain /\ Chain \subseteq started /\ Chain \subseteq FullSlices
    BY ChainFacts DEF RenderInv
  <1>4. LayoutsUsed = Len(Layouts) /\ LayoutsUsed \in Nat /\ outer = Link(LayoutsUsed) /\ outer \notin disposed
    BY RunningFacts, LinksDiffer
  <1>5. /\ stack' \in Seq(Frames) /\ Len(stack') = n - 1 /\ DOMAIN stack' = 1..(n - 1)
        /\ \A i \in 1..(n - 1) : stack'[i] = stack[i]
    <2>1. stack' = SubSeq(stack, 1, n - 1)
      BY DEF Return, Callers
    <2>2. QED
      BY <1>1, <1>2, <2>1
  <1>6. /\ n = 1 => Reached(S) = Chain
        /\ n # 1 => /\ outer \notin Reached(S)
                    /\ \/ Top.slice \in Partials \cup Minimals /\ Reached(S) = {Top.slice}
                       \/ /\ Top.slice \in Chain /\ Reached(S) \subseteq Chain
                          /\ asyncTemplates => Reached(S) = {}
    BY ReachedFromStack
  <1>7. /\ disposed' = disposed \cup Reached(S) /\ created' = created
        /\ outer \in Reached(S) => owner' = [h \in Helpers |-> None] /\ cache' = [s \in FullSlices |-> {}]
        /\ outer \notin Reached(S) => owner' = owner /\ cache' = cache
    BY <1>3, <1>4, DisposeFacts DEF RenderInv
  <1>8. Callers = <<>> <=> n = 1
    <2>1. stack' = Callers
      BY DEF Return
    <2>2. stack' = <<>> <=> n - 1 = 0
      BY <1>5
    <2>3. n - 1 = 0 <=> n = 1
      BY <1>1
    <2>4. QED
      BY <2>1, <2>2, <2>3
  <1>9. /\ n = 1 => pc' \in {"done", "failed"} /\ failing' = FALSE
        /\ n # 1 => pc' = "running" /\ failing' = f
    <2>1. failing' = (f /\ Callers # <<>>) /\ pc' = IF Callers # <<>> THEN pc ELSE IF f THEN "failed" ELSE "done"
      BY DEF Return
    <2>2. CASE f
      BY <1>8, <2>1, <2>2
    <2>3. CASE ~f
      BY <1>8, <2>1, <2>3
    <2>4. QED
      BY <2>2, <2>3
  <1>10. OuterInv'
    <2>1. pc' \notin {"idle", "layouts"} /\ (failing' => pc' = "running")
      BY <1>9
    <2>2. QED
      BY <2>1, <1>4 DEF RenderInv, OuterInv, LayoutsUsed, Link, FirstLayouts
  <1>11. LayoutsUsed' = LayoutsUsed /\ Chain' = Chain
    BY <1>10, ChainKept DEF RenderInv
  <1>12. Reached(S) \subseteq started /\ Reached(S) \subseteq Slices /\ Top.slice \in started
    <2>1. Top.slice \in started
      BY <1>2 DEF RenderInv, FreshInv
    <2>2. started \subseteq Slices
      BY <1>2 DEF TypeOK
    <2>3. QED
      BY <1>3, <1>6, <2>1, <2>2
  <1>13. active' = [s \in FullSlices |-> IF s = outer /\ n > 2 THEN stack[n - 1].slice ELSE None]
    BY ActiveAfterExit, SMTT(30)
  <1>14. ASSUME NEW i \in 1..(n - 1) PROVE i \in DOMAIN stack /\ i # n
    <2>1. i \in 1..n /\ i # n
      BY <1>1
    <2>2. QED
      BY <1>2, <2>1
  <1>15. TypeOK'
    <2>1. pc' \in {"idle", "layouts", "running", "done", "failed"}
      BY <1>9
    <2>2. pc' = "running" <=> stack' # <<>>
      <3>1. stack' = Callers
        BY DEF Return
      <3>2. QED
        BY <1>8, <1>9, <3>1
    <2>3. active' \in [FullSlices -> Slices \cup {None}]
      <3>1. n > 2 => stack[n - 1] \in Frames
        BY <1>1, <1>2
      <3>2. n > 2 => stack[n - 1].slice \in Slices
        BY <3>1 DEF Frames
      <3>3. QED
        BY <1>13, <3>2
    <2>4. cache' \in [FullSlices -> SUBSET Helpers] /\ owner' \in [Helpers -> FullSlices \cup {None}]
      BY <1>2, <1>7 DEF TypeOK
    <2>5. created' \in [Helpers -> 0..2] /\ disposed' \subseteq Slices /\ failing' \in BOOLEAN
      BY <1>2, <1>7, <1>9, <1>12 DEF TypeOK
    <2>6. QED
      BY <1>2, <1>5, <2>1, <2>2, <2>3, <2>4, <2>5 DEF TypeOK
  <1>16. ParentInv'
    <2>1. pc' \notin {"idle", "layouts"}
      BY <1>9
    <2>2. QED
      BY <1>11, <2>1 DEF RenderInv, ParentInv, Link
  <1>17. ContentInv'
    BY <1>11 DEF RenderInv, ContentInv, Link
  <1>18. StackInv'
    <2>1. stack' # <<>> => /\ stack'[1].slice = outer' /\ stack'[1].kind = "body"
                           /\ stack'[1].previous = None /\ stack'[1].dispose
      <3>1. SUFFICES ASSUME stack' # <<>>
                     PROVE /\ stack'[1].slice = outer' /\ stack'[1].kind = "body"
                           /\ stack'[1].previous = None /\ stack'[1].dispose
        OBVIOUS
      <3>2. stack'[1] = stack[1]
        BY <1>1, <1>5, <3>1
      <3>3. stack # <<>>
        BY <1>1
      <3>4. QED
        BY <3>2, <3>3 DEF RenderInv, StackInv
    <2>2. ASSUME NEW i \in 2..(n - 1) PROVE FrameInv(i)'
      <3>1. FrameInv(i) /\ i < Len(stack)
        BY <1>1 DEF RenderInv, StackInv
      <3>2. stack'[i] = stack[i] /\ stack'[i - 1] = stack[i - 1]
        BY <1>1, <1>5
      <3>3. QED
        BY <1>11, <3>1, <3>2 DEF FrameInv, Link
    <2>3. QED
      BY <1>5, <2>1, <2>2 DEF StackInv
  <1>19. ActiveInv'
    <2>1. n > 2 => Top' = stack[n - 1]
      BY <1>1, <1>5 DEF Top
    <2>2. Len(stack') > 1 <=> n > 2
      BY <1>1, <1>5
    <2>3. QED
      BY <1>13, <2>1, <2>2 DEF ActiveInv
  <1>20. HelperInv'
    <2>1. CASE n = 1
      BY <1>3, <1>6, <1>7, <2>1 DEF RenderInv, HelperInv
    <2>2. CASE n # 1
      BY <1>6, <1>7, <1>11, <2>2 DEF RenderInv, HelperInv
    <2>3. QED
      BY <2>1, <2>2
  <1>21. FreshInv'
    <2>1. ASSUME NEW i \in 1..(n - 1), stack[i].slice \in Partials \cup Minimals
          PROVE  stack[i].slice \notin disposed'
      <3>1. stack[i].slice \notin disposed /\ stack[i].slice # Top.slice
        BY <1>2, <1>14, <2>1 DEF RenderInv, FreshInv
      <3>2. stack[i].slice \notin Chain
        BY <1>4, <2>1, LinksDiffer DEF Chain
      <3>3. QED
        BY <1>6, <1>7, <3>1, <3>2
    <2>2. QED
      BY <1>5, <1>14, <2>1, ZenonT(30) DEF RenderInv, FreshInv
  <1>22. DisposedInv'
    <2>1. disposed' \subseteq started'
      BY <1>7, <1>12 DEF RenderInv, DisposedInv
    <2>2. outer' \in disposed' <=> pc' \in {"done", "failed"}
      BY <1>3, <1>4, <1>6, <1>7, <1>9
    <2>3. started' \subseteq disposed' \cup Chain' \cup {stack'[i].slice : i \in DOMAIN stack'}
      <3>1. \A i \in DOMAIN stack : i = n \/ i \in 1..(n - 1)
        BY <1>1, <1>2
      <3>2. \A i \in 1..(n - 1) : stack[i].slice \in {stack'[j].slice : j \in DOMAIN stack'}
        BY <1>5
      <3>3. Top.slice \in disposed' \cup Chain
        <4>1. CASE n = 1
          <5>1. stack # <<>> /\ Top.slice = stack[1].slice
            BY <1>2, <4>1
          <5>2. QED
            BY <1>3, <5>1 DEF RenderInv, StackInv
        <4>2. CASE n # 1
          BY <1>6, <1>7, <4>2
        <4>3. QED
          BY <4>1, <4>2
      <3>4. QED
        BY <1>2, <1>7, <1>11, <3>1, <3>2, <3>3 DEF RenderInv, DisposedInv
    <2>4. outer' \in disposed' => Chain' \subseteq disposed'
      BY <1>4, <1>6, <1>7, <1>11
    <2>5. asyncTemplates' /\ outer' \notin disposed' => Chain' \cap disposed' = {}
      <3>1. SUFFICES ASSUME asyncTemplates, outer \notin disposed' PROVE Chain \cap disposed' = {}
        BY <1>11
      <3>2. n # 1
        BY <1>3, <1>6, <1>7, <3>1
      <3>3. Chain \cap disposed = {}
        BY <1>4, <3>1 DEF RenderInv, DisposedInv
      <3>4. Chain \cap Reached(S) = {}
        <4>1. CASE Top.slice \in Partials \cup Minimals /\ Reached(S) = {Top.slice}
          BY <1>4, <4>1, LinksDiffer DEF Chain
        <4>2. QED
          BY <1>6, <3>1, <3>2, <4>1
      <3>5. QED
        BY <1>7, <3>3, <3>4
    <2>6. QED
      BY <2>1, <2>2, <2>3, <2>4, <2>5 DEF DisposedInv
  <1>23. QED
    BY <1>10, <1>15, <1>16, <1>17, <1>18, <1>19, <1>20, <1>21, <1>22 DEF RenderInv

LEMMA CompleteKeeps ==
  ASSUME RenderInv, UNCHANGED asyncTemplates, Complete
  PROVE  RenderInv'
  <1> DEFINE S == IF Top.dispose THEN {Top.slice} ELSE {}
  <1>1. pc = "running" /\ ExitHelperRender /\ Dispose(S)
    BY DEF Complete, Running
  <1>2. UNCHANGED <<asyncTemplates, outer, parent, content, started>> /\ sections' \in 0..MaxSections
    BY DEF Complete, RenderInv, TypeOK
  <1>3. (S = {} \/ S = {Top.slice}) /\ (Top.dispose => S = {Top.slice}) /\ (asyncTemplates /\ S # {} => Top.dispose)
    BY Zenon
  <1> HIDE DEF S
  <1>4. CASE Return(FALSE) /\ UNCHANGED failures
    <2>1. failures' \in 0..MaxFailures
      BY <1>4 DEF RenderInv, TypeOK
    <2>2. QED
      BY <1>1, <1>2, <1>3, <1>4, <2>1, Popped
  <1>5. CASE Fail /\ Return(TRUE)
    <2>1. failures' \in 0..MaxFailures
      BY <1>5, BoundAssumption DEF RenderInv, TypeOK, Fail
    <2>2. QED
      BY <1>1, <1>2, <1>3, <1>5, <2>1, Popped
  <1>6. QED
    BY <1>4, <1>5 DEF Complete

LEMMA UnwindKeeps ==
  ASSUME RenderInv, UNCHANGED asyncTemplates, Unwind
  PROVE  RenderInv'
  <1>1. PICK t \in BOOLEAN : Thrown(t) /\ Dispose(IF Top.dispose \/ t THEN {Top.slice} ELSE {})
    BY DEF Unwind
  <1> DEFINE S == IF Top.dispose \/ t THEN {Top.slice} ELSE {}
  <1>2. pc = "running" /\ ExitHelperRender /\ Dispose(S) /\ Return(TRUE)
    BY <1>1 DEF Unwind, RenderInv, OuterInv
  <1>3. UNCHANGED <<asyncTemplates, outer, parent, content, started>> /\ sections' \in 0..MaxSections /\ failures' \in 0..MaxFailures
    BY DEF Unwind, RenderInv, TypeOK, counters
  <1>4. t => ~asyncTemplates
    BY <1>1 DEF Thrown
  <1>5. (S = {} \/ S = {Top.slice}) /\ (Top.dispose => S = {Top.slice}) /\ (asyncTemplates /\ S # {} => Top.dispose)
    BY <1>4, Zenon
  <1> HIDE DEF S
  <1>6. QED
    BY <1>2, <1>3, <1>5, Popped

LEMMA FailBeforeExecuteKeeps ==
  ASSUME RenderInv, UNCHANGED asyncTemplates, FailBeforeExecute
  PROVE  RenderInv'
  <1>1. /\ TypeOK /\ pc = "layouts" /\ pc' = "failed" /\ stack = <<>> /\ Dispose({outer}) /\ failing = FALSE
        /\ outer \notin disposed /\ failures' \in 0..MaxFailures
        /\ UNCHANGED <<asyncTemplates, outer, stack, parent, content, active, started, failing, sections>>
    BY BoundAssumption DEF FailBeforeExecute, Fail, RenderInv, TypeOK, OuterInv, DisposedInv
  <1>2. outer \in FullSlices /\ outer \in Chain /\ Chain \subseteq started /\ Chain \subseteq FullSlices
    BY <1>1, ChainFacts DEF RenderInv
  <1>3. Reached({outer}) = Chain
    BY ReachedOfOuter DEF RenderInv
  <1>4. /\ disposed' = disposed \cup Chain /\ created' = created
        /\ owner' = [h \in Helpers |-> None] /\ cache' = [s \in FullSlices |-> {}]
    BY <1>1, <1>2, <1>3, DisposeFacts DEF RenderInv
  <1>5. OuterInv'
    BY <1>1 DEF RenderInv, OuterInv, LayoutsUsed, Link, FirstLayouts
  <1>6. LayoutsUsed' = LayoutsUsed /\ Chain' = Chain
    BY <1>1, <1>5, ChainKept DEF RenderInv
  <1>7. TypeOK'
    BY <1>1, <1>2, <1>4, LinksDiffer DEF TypeOK
  <1>8. ParentInv' /\ ContentInv'
    BY <1>1, <1>6 DEF RenderInv, ParentInv, ContentInv, Link
  <1>9. StackInv' /\ FreshInv'
    BY <1>1 DEF StackInv, FreshInv
  <1>10. ActiveInv'
    BY <1>1 DEF RenderInv, ActiveInv, Top
  <1>11. HelperInv'
    BY <1>1, <1>2, <1>4 DEF RenderInv, HelperInv
  <1>12. DisposedInv'
    BY <1>1, <1>2, <1>4, <1>6 DEF RenderInv, DisposedInv
  <1>13. QED
    BY <1>5, <1>7, <1>8, <1>9, <1>10, <1>11, <1>12 DEF RenderInv

LEMMA FailPartialKeeps ==
  ASSUME RenderInv, UNCHANGED asyncTemplates, NEW p \in Partials, FailPartial(p)
  PROVE  RenderInv'
  <1>1. /\ TypeOK /\ pc = "running" /\ p \notin started /\ Dispose({p}) /\ failing' = TRUE
        /\ Top.slice \in FullSlices /\ started' = started \cup {p} /\ failures' \in 0..MaxFailures
        /\ UNCHANGED <<asyncTemplates, pc, outer, stack, content, active, sections>>
    BY BoundAssumption DEF FailPartial, Running, Fail, RenderInv, TypeOK
  <1>2. outer \in FullSlices /\ outer \in Chain /\ Chain \subseteq started /\ Chain \subseteq FullSlices
    BY <1>1, ChainFacts DEF RenderInv
  <1>3. p \in FullSlices /\ p \in Slices /\ p \notin LayoutSlices /\ p # outer /\ p \notin Chain /\ outer # None
    BY <1>1, <1>2, SliceAssumption DEF FullSlices, Slices
  <1>4. parent' = [parent EXCEPT ![p] = outer]
    <2>1. Root(Top.slice) = outer
      BY <1>1, RunningFacts DEF Top
    <2>2. QED
      BY <2>1 DEF FailPartial
  <1>5. Reached({p}) = {p}
    BY <1>1, ReachedOfPartial
  <1>6. outer \notin disposed /\ LayoutsUsed = Len(Layouts) /\ LayoutsUsed \in Nat
    BY <1>1, RunningFacts, LinksDiffer
  <1>7. disposed' = disposed \cup {p} /\ created' = created /\ owner' = owner /\ cache' = cache
    BY <1>1, <1>2, <1>3, <1>5, <1>6, DisposeFacts DEF RenderInv
  <1>8. started' \cap LayoutSlices = started \cap LayoutSlices
    BY <1>1, <1>3
  <1>9. OuterInv'
    BY <1>1, <1>8 DEF RenderInv, OuterInv, LayoutsUsed, Link, FirstLayouts
  <1>10. LayoutsUsed' = LayoutsUsed /\ Chain' = Chain
    BY <1>8, <1>9, ChainKept DEF RenderInv
  <1>11. TypeOK'
    BY <1>1, <1>2, <1>3, <1>4, <1>7 DEF TypeOK
  <1>12. parent \in [FullSlices -> FullSlices \cup {None}]
    BY <1>1 DEF TypeOK
  <1>13. \A s \in FullSlices : s # p => parent'[s] = parent[s]
    BY <1>4, <1>12
  <1>14. parent'[p] = outer
    BY <1>3, <1>4, <1>12
  <1>15. ParentInv'
    <2>1. parent'[outer'] = None
      BY <1>1, <1>2, <1>3, <1>13 DEF RenderInv, ParentInv
    <2>2. \A i \in 0..(LayoutsUsed - 1) : parent'[Link(i)] = parent[Link(i)]
      BY <1>6, <1>13, LinksDiffer
    <2>3. (LayoutsUsed + 1)..Len(Layouts) = {}
      BY <1>6
    <2>4. \A q \in Partials : q \in FullSlices
      BY DEF FullSlices
    <2>5. QED
      BY <1>1, <1>10, <1>13, <1>14, <2>1, <2>2, <2>3, <2>4 DEF RenderInv, ParentInv, Link
  <1>16. ContentInv'
    BY <1>1, <1>10 DEF RenderInv, ContentInv, Link
  <1>17. StackInv'
    <2>1. ASSUME NEW i \in 2..Len(stack) PROVE FrameInv(i)'
      <3>1. FrameInv(i)
        BY DEF RenderInv, StackInv
      <3>2. stack[i].slice \in Partials => parent'[stack[i].slice] # None
        BY <1>3, <1>13, <1>14, <3>1 DEF FrameInv, FullSlices
      <3>3. QED
        BY <1>1, <1>10, <3>1, <3>2 DEF FrameInv, Link
    <2>2. QED
      BY <1>1, <2>1 DEF RenderInv, StackInv
  <1>18. ActiveInv'
    BY <1>1 DEF RenderInv, ActiveInv, Top
  <1>19. HelperInv'
    BY <1>1, <1>3, <1>6, <1>7, <1>10 DEF RenderInv, HelperInv
  <1>20. FreshInv'
    BY <1>1, <1>7 DEF RenderInv, FreshInv
  <1>21. DisposedInv'
    BY <1>1, <1>3, <1>6, <1>7, <1>10 DEF RenderInv, DisposedInv
  <1>22. QED
    BY <1>9, <1>11, <1>15, <1>16, <1>17, <1>18, <1>19, <1>20, <1>21 DEF RenderInv

-----------------------------------------------------------------------------
(* The other steps.                                                         *)

LEMMA HelperObtained ==
  ASSUME RenderInv, NEW s, Root(s) = outer, NEW h \in Helpers, ObtainHelper(s, h),
         outer \notin disposed, pc # "idle",
         UNCHANGED <<asyncTemplates, pc, outer, stack, parent, content, active, started, disposed, failing, counters>>
  PROVE  RenderInv'
  <1>1. /\ h \notin cache[outer] /\ created[h] < 2
        /\ cache' = [cache EXCEPT ![outer] = @ \cup {h}]
        /\ owner' = [owner EXCEPT ![h] = outer]
        /\ created' = [created EXCEPT ![h] = @ + 1]
    BY DEF ObtainHelper
  <1>2. outer \in FullSlices /\ outer \in Chain
    BY ChainFacts DEF RenderInv
  <1>3. TypeOK /\ created[h] \in 0..2
    BY DEF RenderInv, TypeOK
  <1>4. created[h] = 0
    BY <1>1, <1>3 DEF RenderInv, HelperInv
  <1>5. TypeOK'
    <2>1. created' \in [Helpers -> 0..2]
      BY <1>1, <1>3, <1>4 DEF TypeOK
    <2>2. cache' \in [FullSlices -> SUBSET Helpers] /\ owner' \in [Helpers -> FullSlices \cup {None}]
      BY <1>1, <1>2, <1>3 DEF TypeOK
    <2>3. QED
      BY <1>3, <2>1, <2>2 DEF TypeOK, counters
  <1>6. OuterInv'
    BY DEF RenderInv, OuterInv, LayoutsUsed, Link, FirstLayouts
  <1>7. LayoutsUsed' = LayoutsUsed /\ Chain' = Chain
    BY <1>6, ChainKept DEF RenderInv
  <1>8. ParentInv' /\ ContentInv'
    BY <1>7 DEF RenderInv, ParentInv, ContentInv, Link
  <1>9. StackInv'
    BY <1>7 DEF RenderInv, StackInv, FrameInv, Link
  <1>10. ActiveInv'
    BY DEF RenderInv, ActiveInv, Top
  <1>11. HelperInv'
    <2>1. \A t \in FullSlices : t # outer => cache'[t] = {}
      BY <1>1, <1>3 DEF RenderInv, HelperInv, TypeOK
    <2>2. cache'[outer] = cache[outer] \cup {h}
      BY <1>1, <1>2, <1>3 DEF TypeOK
    <2>3. ASSUME NEW g \in Helpers
          PROVE  /\ created'[g] <= 1
                 /\ created'[g] = 1 => g \in cache'[outer]
                 /\ owner'[g] # None => g \in cache'[outer] /\ owner'[g] \in Chain
      <3>1. CASE g = h
        BY <1>1, <1>2, <1>3, <1>4, <2>2, <3>1 DEF TypeOK
      <3>2. CASE g # h
        <4>1. created'[g] = created[g] /\ owner'[g] = owner[g]
          BY <1>1, <1>3, <3>2 DEF TypeOK
        <4>2. QED
          BY <2>2, <4>1 DEF RenderInv, HelperInv
      <3>3. QED
        BY <3>1, <3>2
    <2>4. QED
      BY <1>7, <2>1, <2>3 DEF HelperInv
  <1>12. FreshInv'
    BY DEF RenderInv, FreshInv
  <1>13. DisposedInv'
    BY <1>7 DEF RenderInv, DisposedInv
  <1>14. QED
    BY <1>5, <1>6, <1>8, <1>9, <1>10, <1>11, <1>12, <1>13 DEF RenderInv

\* Steps that only throw or catch.
LEMMA FailureKeeps ==
  ASSUME RenderInv, pc = "running", failing' \in BOOLEAN, failures' \in 0..MaxFailures,
         UNCHANGED <<asyncTemplates, pc, outer, stack, parent, content, active, helperVars, started, disposed, sections>>
  PROVE  RenderInv'
  <1>1. OuterInv'
    BY DEF RenderInv, OuterInv, LayoutsUsed, Link, FirstLayouts
  <1>2. LayoutsUsed' = LayoutsUsed /\ Chain' = Chain
    BY <1>1, ChainKept DEF RenderInv
  <1>3. TypeOK'
    BY DEF RenderInv, TypeOK, helperVars
  <1>4. ParentInv' /\ ContentInv'
    BY <1>2 DEF RenderInv, ParentInv, ContentInv, Link
  <1>5. StackInv'
    BY <1>2 DEF RenderInv, StackInv, FrameInv, Link
  <1>6. ActiveInv' /\ FreshInv'
    BY DEF RenderInv, ActiveInv, FreshInv, Top
  <1>7. HelperInv'
    BY <1>2 DEF RenderInv, HelperInv, helperVars
  <1>8. DisposedInv'
    BY <1>2 DEF RenderInv, DisposedInv
  <1>9. QED
    BY <1>1, <1>3, <1>4, <1>5, <1>6, <1>7, <1>8 DEF RenderInv

LEMMA GetHelperKeeps ==
  ASSUME RenderInv, UNCHANGED asyncTemplates, NEW h \in Helpers, GetHelper(h)
  PROVE  RenderInv'
  <1>1. pc = "running" /\ Top.slice \in FullSlices
    BY DEF GetHelper, Running
  <1>2. Root(Top.slice) = outer /\ outer \notin disposed
    BY <1>1, RunningFacts DEF Top
  <1>3. UNCHANGED <<asyncTemplates, pc, outer, stack, parent, content, active, started, disposed, counters>>
    BY DEF GetHelper
  <1>4. CASE failing' = TRUE /\ UNCHANGED helperVars
    <2>1. failures' \in 0..MaxFailures /\ UNCHANGED sections /\ failing' \in BOOLEAN
      BY <1>3, <1>4 DEF counters, RenderInv, TypeOK
    <2>2. QED
      BY <1>1, <1>3, <1>4, <2>1, FailureKeeps
  <1>5. CASE ObtainHelper(Top.slice, h) /\ UNCHANGED failing
    BY <1>1, <1>2, <1>3, <1>5, HelperObtained
  <1>6. QED
    BY <1>4, <1>5 DEF GetHelper

LEMMA InitializeWithHelperKeeps ==
  ASSUME RenderInv, UNCHANGED asyncTemplates, NEW h \in Helpers, InitializeWithHelper(h)
  PROVE  RenderInv'
  <1>1. pc = "layouts" /\ ObtainHelper(outer, h)
    BY DEF InitializeWithHelper
  <1>2. Root(outer) = outer /\ outer \notin disposed
    BY <1>1, ChainFacts DEF RenderInv, DisposedInv
  <1>3. UNCHANGED <<asyncTemplates, pc, outer, stack, parent, content, active, started, disposed, failing, counters>>
    BY DEF InitializeWithHelper
  <1>4. QED
    BY <1>1, <1>2, <1>3, HelperObtained

LEMMA ThrowKeeps ==
  ASSUME RenderInv, UNCHANGED asyncTemplates, Throw
  PROVE  RenderInv'
  <1>1. /\ pc = "running" /\ failing' \in BOOLEAN /\ failures' \in 0..MaxFailures
        /\ UNCHANGED <<asyncTemplates, pc, outer, stack, parent, content, active, helperVars, started, disposed, sections>>
    BY BoundAssumption DEF Throw, Running, Fail, RenderInv, TypeOK
  <1>2. QED
    BY <1>1, FailureKeeps

LEMMA CatchKeeps ==
  ASSUME RenderInv, UNCHANGED asyncTemplates, Catch
  PROVE  RenderInv'
  <1>1. /\ pc = "running" /\ failing' \in BOOLEAN /\ failures' \in 0..MaxFailures
        /\ UNCHANGED <<asyncTemplates, pc, outer, stack, parent, content, active, helperVars, started, disposed, sections>>
    BY DEF Catch, RenderInv, OuterInv, TypeOK, counters
  <1>2. QED
    BY <1>1, FailureKeeps

LEMMA RenderKeeps ==
  ASSUME RenderInv, UNCHANGED asyncTemplates, Render
  PROVE  RenderInv'
  <1>1. /\ TypeOK /\ pc = "idle" /\ pc' = "layouts" /\ stack = <<>> /\ started = {} /\ started' = {Content}
        /\ UNCHANGED <<asyncTemplates, outer, stack, parent, content, active, cache, owner, created, disposed, failing, sections, failures>>
    BY DEF Render, helperVars, counters, RenderInv, TypeOK, OuterInv
  <1>2. started' \cap LayoutSlices = started \cap LayoutSlices
    BY <1>1, LinksDiffer
  <1>3. OuterInv'
    BY <1>1, <1>2 DEF RenderInv, OuterInv, LayoutsUsed, Link, FirstLayouts
  <1>4. LayoutsUsed' = LayoutsUsed /\ Chain' = Chain
    BY <1>2, <1>3, ChainKept DEF RenderInv
  <1>5. TypeOK'
    BY <1>1 DEF TypeOK, Slices, FullSlices
  <1>6. ParentInv' /\ ContentInv'
    BY <1>1, <1>4 DEF RenderInv, ParentInv, ContentInv, Link
  <1>7. StackInv' /\ FreshInv'
    BY <1>1 DEF StackInv, FreshInv
  <1>8. ActiveInv'
    BY <1>1 DEF RenderInv, ActiveInv, Top
  <1>9. HelperInv'
    BY <1>1, <1>4 DEF RenderInv, HelperInv
  <1>10. DisposedInv'
    <2>1. 0 \in 0..LayoutsUsed /\ Link(0) = Content
      BY ChainFacts DEF RenderInv, Link
    <2>2. Content \in Chain
      BY <2>1 DEF Chain
    <2>3. QED
      BY <1>1, <1>4, <2>2 DEF RenderInv, DisposedInv
  <1>11. QED
    BY <1>3, <1>5, <1>6, <1>7, <1>8, <1>9, <1>10 DEF RenderInv

LEMMA UseLayoutKeeps ==
  ASSUME RenderInv, UNCHANGED asyncTemplates, UseLayout
  PROVE  RenderInv'
  <1> DEFINE k == LayoutsUsed
             layout == Layouts[LayoutsUsed + 1]
  <1>1. /\ TypeOK /\ pc = "layouts" /\ LayoutsUsed < Len(Layouts) /\ stack = <<>>
        /\ UNCHANGED <<asyncTemplates, pc, stack, active, owner, created, disposed, failing, sections, failures>>
    BY DEF UseLayout, counters, RenderInv, TypeOK
  <1>2. /\ k \in Nat /\ k \in 0..Len(Layouts) /\ k + 1 \in 1..Len(Layouts) /\ k + 1 \in 0..Len(Layouts)
        /\ Len(Layouts) \in Nat /\ k + 1 - 1 = k
    BY <1>1, LinksDiffer DEF RenderInv, OuterInv
  <1>3. /\ outer \in FullSlices /\ outer \in Chain /\ Chain \subseteq FullSlices /\ Chain \subseteq started
        /\ Root(outer) = outer /\ outer = Link(k)
    BY <1>1, ChainFacts DEF RenderInv, OuterInv
  <1>4. /\ layout = Link(k + 1) /\ layout \in LayoutSlices /\ layout \in FullSlices /\ layout # outer
        /\ layout \in Slices /\ layout # None
    BY <1>2, <1>3, LinksDiffer
  <1>5. /\ content' = [content EXCEPT ![layout] = outer]
        /\ cache' = [cache EXCEPT ![layout] = cache[outer], ![outer] = {}]
        /\ parent' = [parent EXCEPT ![outer] = layout]
        /\ outer' = layout
        /\ started' = started \cup {layout}
    BY <1>3 DEF UseLayout
  <1>6. started' \cap LayoutSlices = FirstLayouts(k + 1)
    <2>1. started \cap LayoutSlices = FirstLayouts(k)
      BY DEF RenderInv, OuterInv
    <2>2. FirstLayouts(k + 1) = FirstLayouts(k) \cup {layout}
      <3>1. 1..(k + 1) = (1..k) \cup {k + 1}
        BY <1>2
      <3>2. QED
        BY <3>1 DEF FirstLayouts
    <2>3. QED
      BY <1>4, <1>5, <2>1, <2>2
  <1>7. LayoutsUsed' = k + 1
    <2>1. LayoutsUsed' = Cardinality(started' \cap LayoutSlices)
      BY DEF LayoutsUsed, LayoutSlices
    <2>2. QED
      BY <1>2, <1>6, <2>1, FirstLayoutsCounted
  <1>8. layout \notin started
    <2>1. started \cap LayoutSlices = FirstLayouts(k)
      BY DEF RenderInv, OuterInv
    <2>2. ASSUME NEW i \in 1..k PROVE Layouts[i] # layout
      BY <1>2, <1>4, LinksDiffer
    <2>3. QED
      BY <1>4, <2>1, <2>2 DEF FirstLayouts
  <1>9. Chain' = Chain \cup {layout}
    <2>1. Chain' = {Link(i) : i \in 0..(k + 1)}
      BY <1>7 DEF Chain, Link
    <2>2. 0..(k + 1) = (0..k) \cup {k + 1}
      BY <1>2
    <2>3. QED
      BY <1>4, <2>1, <2>2 DEF Chain
  <1>10. OuterInv'
    <2>1. LayoutsUsed' \in 0..Len(Layouts) /\ outer' = Link(LayoutsUsed')
      BY <1>2, <1>4, <1>5, <1>7
    <2>2. started' \cap LayoutSlices = FirstLayouts(LayoutsUsed')
      BY <1>6, <1>7
    <2>3. Content \in started' /\ started' \subseteq {Content} \cup LayoutSlices /\ failing' = FALSE
      BY <1>1, <1>4, <1>5 DEF RenderInv, OuterInv, TypeOK
    <2>4. QED
      BY <1>1, <2>1, <2>2, <2>3 DEF OuterInv, Link, FirstLayouts
  <1>11. TypeOK'
    <2>1. parent' \in [FullSlices -> FullSlices \cup {None}]
      BY <1>1, <1>3, <1>4, <1>5 DEF TypeOK
    <2>2. content' \in [LayoutSlices -> FullSlices \cup {None}]
      BY <1>1, <1>3, <1>4, <1>5 DEF TypeOK
    <2>3. cache' \in [FullSlices -> SUBSET Helpers]
      BY <1>1, <1>3, <1>4, <1>5 DEF TypeOK
    <2>4. QED
      BY <1>1, <1>4, <1>5, <2>1, <2>2, <2>3 DEF TypeOK
  <1>12. ParentInv'
    <2>1. \A s \in FullSlices : s # outer => parent'[s] = parent[s]
      BY <1>1, <1>5 DEF TypeOK
    <2>2. parent'[outer] = layout
      BY <1>1, <1>3, <1>5 DEF TypeOK
    <2>3. parent'[layout] = None
      <3>1. k + 1 \in (k + 1)..Len(Layouts)
        BY <1>2
      <3>2. parent[Layouts[k + 1]] = None
        BY <3>1 DEF RenderInv, ParentInv
      <3>3. QED
        BY <1>4, <2>1, <3>2
    <2>4. ASSUME NEW i \in 0..(k + 1 - 1) PROVE \E j \in (i + 1)..(k + 1) : parent'[Link(i)] = Link(j)
      <3>1. CASE i = k
        <4>1. k + 1 \in (i + 1)..(k + 1)
          BY <1>2, <3>1
        <4>2. parent'[Link(i)] = Link(k + 1)
          BY <1>3, <1>4, <2>2, <3>1
        <4>3. QED
          BY <4>1, <4>2
      <3>2. CASE i # k
        <4>1. i \in 0..(k - 1) /\ i \in 0..Len(Layouts)
          BY <1>2, <3>2
        <4>2. PICK j \in (i + 1)..k : parent[Link(i)] = Link(j)
          BY <4>1 DEF RenderInv, ParentInv
        <4>3. Link(i) \in FullSlices /\ Link(i) # outer
          BY <1>2, <1>3, <3>2, <4>1, LinksDiffer
        <4>4. j \in (i + 1)..(k + 1)
          BY <1>2, <4>1
        <4>5. QED
          BY <2>1, <4>2, <4>3, <4>4
      <3>3. QED
        BY <3>1, <3>2
    <2>5. ASSUME NEW i \in (k + 1 + 1)..Len(Layouts) PROVE parent'[Layouts[i]] = None
      <3>1. i \in (k + 1)..Len(Layouts) /\ i \in 0..Len(Layouts) /\ i # k /\ i \in 1..Len(Layouts)
        BY <1>2
      <3>2. Layouts[i] \in FullSlices /\ Layouts[i] # outer
        BY <1>2, <1>3, <3>1, LinksDiffer
      <3>3. parent[Layouts[i]] = None
        BY <3>1 DEF RenderInv, ParentInv
      <3>4. QED
        BY <2>1, <3>2, <3>3
    <2>6. ASSUME NEW p \in Partials PROVE parent'[p] = None
      <3>1. p \in FullSlices /\ p # outer
        BY <1>2, <1>3, LinksDiffer DEF FullSlices
      <3>2. QED
        BY <1>1, <2>1, <3>1 DEF RenderInv, ParentInv
    <2>7. QED
      <3>1. parent'[outer'] = None
        BY <1>5, <2>3
      <3>2. \A i \in 0..(LayoutsUsed' - 1) : \E j \in (i + 1)..LayoutsUsed' : parent'[Link(i)] = Link(j)
        <4>1. SUFFICES ASSUME NEW i \in 0..(LayoutsUsed' - 1)
                       PROVE \E j \in (i + 1)..LayoutsUsed' : parent'[Link(i)] = Link(j)
          OBVIOUS
        <4>2. i \in 0..(k + 1 - 1)
          BY <1>2, <1>7
        <4>3. PICK j \in (i + 1)..(k + 1) : parent'[Link(i)] = Link(j)
          BY <2>4, <4>2
        <4>4. QED
          BY <1>7, <4>3
      <3>3. \A i \in (LayoutsUsed' + 1)..Len(Layouts) : parent'[Layouts[i]] = None
        BY <1>7, <2>5
      <3>4. QED
        BY <2>6, <3>1, <3>2, <3>3 DEF ParentInv, Link
  <1>13. ContentInv'
    <2>1. ASSUME NEW i \in 1..(k + 1) PROVE content'[Layouts[i]] = Link(i - 1)
      <3>1. CASE i = k + 1
        BY <1>1, <1>2, <1>3, <1>4, <1>5, <3>1 DEF TypeOK
      <3>2. CASE i # k + 1
        <4>1. i \in 1..k /\ i \in 1..Len(Layouts) /\ i \in 0..Len(Layouts)
          BY <1>2, <3>2
        <4>2. Layouts[i] \in LayoutSlices /\ Layouts[i] # layout
          BY <1>2, <1>4, <3>2, <4>1, LinksDiffer
        <4>3. content'[Layouts[i]] = content[Layouts[i]]
          BY <1>1, <1>5, <4>2 DEF TypeOK
        <4>4. QED
          BY <4>1, <4>3 DEF RenderInv, ContentInv
      <3>3. QED
        BY <3>1, <3>2
    <2>2. QED
      BY <1>7, <2>1 DEF ContentInv, Link
  <1>14. StackInv' /\ FreshInv'
    BY <1>1 DEF StackInv, FreshInv
  <1>15. ActiveInv'
    BY <1>1 DEF RenderInv, ActiveInv, Top
  <1>16. HelperInv'
    <2>1. cache'[layout] = cache[outer]
      BY <1>1, <1>3, <1>4, <1>5 DEF TypeOK
    <2>2. ASSUME NEW s \in FullSlices, s # layout PROVE cache'[s] = {}
      <3>1. CASE s = outer
        BY <1>1, <1>3, <1>5, <3>1 DEF TypeOK
      <3>2. CASE s # outer
        <4>1. cache'[s] = cache[s]
          BY <1>1, <1>5, <2>2, <3>2 DEF TypeOK
        <4>2. QED
          BY <3>2, <4>1 DEF RenderInv, HelperInv
      <3>3. QED
        BY <3>1, <3>2
    <2>3. outer \notin disposed /\ layout \notin disposed
      BY <1>1, <1>8 DEF RenderInv, DisposedInv
    <2>4. QED
      BY <1>1, <1>5, <1>9, <2>1, <2>2, <2>3 DEF RenderInv, HelperInv
  <1>17. DisposedInv'
    <2>1. disposed \subseteq started /\ layout \notin disposed /\ outer \notin disposed
      BY <1>1, <1>8 DEF RenderInv, DisposedInv
    <2>2. QED
      BY <1>1, <1>5, <1>9, <2>1 DEF RenderInv, DisposedInv
  <1>18. QED
    BY <1>10, <1>11, <1>12, <1>13, <1>14, <1>15, <1>16, <1>17 DEF RenderInv

LEMMA ExecuteKeeps ==
  ASSUME RenderInv, UNCHANGED asyncTemplates, Execute
  PROVE  RenderInv'
  <1>1. /\ TypeOK /\ pc = "layouts" /\ LayoutsUsed = Len(Layouts) /\ pc' = "running" /\ stack = <<>>
        /\ UNCHANGED <<asyncTemplates, outer, parent, content, active, cache, owner, created, started, disposed,
                       failing, sections, failures>>
    BY DEF Execute, helperVars, counters, RenderInv, TypeOK
  <1> DEFINE frame == Frame(outer, "body", None, TRUE)
  <1>2. outer \in FullSlices /\ outer \in started /\ outer \in Slices /\ outer \notin Partials \cup Minimals
    BY <1>1, ChainFacts, LinksDiffer DEF RenderInv, OuterInv
  <1>3. /\ frame \in Frames /\ frame.slice = outer /\ frame.kind = "body"
        /\ frame.previous = None /\ frame.dispose = TRUE
    BY <1>2 DEF Frame, Frames, Kinds
  <1> HIDE DEF frame
  <1>4. stack' = <<frame>>
    BY DEF Execute, frame
  <1>5. /\ Len(stack') = 1 /\ stack'[1] = frame /\ stack' \in Seq(Frames) /\ DOMAIN stack' = {1}
        /\ stack' # <<>> /\ 2..Len(stack') = {}
    BY <1>3, <1>4
  <1>6. OuterInv'
    BY <1>1 DEF RenderInv, OuterInv, LayoutsUsed, Link, FirstLayouts
  <1>7. LayoutsUsed' = LayoutsUsed /\ Chain' = Chain
    BY <1>1, <1>6, ChainKept DEF RenderInv
  <1>8. TypeOK'
    BY <1>1, <1>5 DEF TypeOK
  <1>9. ParentInv' /\ ContentInv'
    BY <1>1, <1>7 DEF RenderInv, ParentInv, ContentInv, Link
  <1>10. StackInv'
    BY <1>1, <1>3, <1>5 DEF StackInv
  <1>11. ActiveInv'
    BY <1>1, <1>5 DEF RenderInv, ActiveInv, Top
  <1>12. HelperInv'
    BY <1>1, <1>7 DEF RenderInv, HelperInv
  <1>13. FreshInv'
    BY <1>1, <1>2, <1>3, <1>5 DEF FreshInv
  <1>14. DisposedInv'
    BY <1>1, <1>7 DEF RenderInv, DisposedInv
  <1>15. QED
    BY <1>6, <1>8, <1>9, <1>10, <1>11, <1>12, <1>13, <1>14 DEF RenderInv

LEMMA SuspendKeeps ==
  ASSUME RenderInv, UNCHANGED asyncTemplates, Suspend
  PROVE  RenderInv'
  <1>1. /\ TypeOK /\ pc = "running"
        /\ stack' = [i \in DOMAIN stack |-> [stack[i] EXCEPT !.suspended = TRUE]]
        /\ UNCHANGED <<asyncTemplates, pc, outer, parent, content, active, cache, owner, created, started, disposed,
                       failing, sections, failures>>
    BY DEF Suspend, Running, helperVars, counters, RenderInv, TypeOK
  <1> DEFINE n == Len(stack)
  <1>2. n \in Nat /\ n >= 1 /\ DOMAIN stack = 1..n /\ stack \in Seq(Frames)
    BY <1>1, RunningFacts
  <1>3. \A i \in 1..n : stack[i] \in Frames
    BY <1>2
  <1>4. ASSUME NEW i \in 1..n
        PROVE  /\ stack'[i] \in Frames /\ stack'[i].slice = stack[i].slice /\ stack'[i].kind = stack[i].kind
               /\ stack'[i].previous = stack[i].previous /\ stack'[i].dispose = stack[i].dispose
    <2>1. stack'[i] = [stack[i] EXCEPT !.suspended = TRUE]
      BY <1>1, <1>2
    <2>2. stack[i] \in Frames
      BY <1>3
    <2>3. QED
      BY <2>1, <2>2 DEF Frames
  <1>5. /\ DOMAIN stack' = 1..n /\ stack' \in Seq(Frames) /\ Len(stack') = n /\ stack' # <<>> /\ stack # <<>>
    <2>1. stack' = [i \in 1..n |-> stack'[i]]
      BY <1>1, <1>2
    <2>2. stack' \in [1..n -> Frames]
      BY <1>4, <2>1
    <2>3. stack' \in Seq(Frames) /\ DOMAIN stack' = 1..n
      BY <1>2, <2>2
    <2>4. QED
      BY <1>2, <2>3
  <1>6. OuterInv'
    BY <1>1 DEF RenderInv, OuterInv, LayoutsUsed, Link, FirstLayouts
  <1>7. LayoutsUsed' = LayoutsUsed /\ Chain' = Chain
    BY <1>1, <1>6, ChainKept DEF RenderInv
  <1>8. TypeOK'
    BY <1>1, <1>5 DEF TypeOK
  <1>9. ParentInv' /\ ContentInv'
    BY <1>1, <1>7 DEF RenderInv, ParentInv, ContentInv, Link
  <1>10. StackInv'
    <2>1. ASSUME NEW i \in 2..n PROVE FrameInv(i)'
      <3>1. FrameInv(i) /\ i \in 1..n /\ i - 1 \in 1..n
        BY <1>2 DEF RenderInv, StackInv
      <3>2. stack'[i - 1].slice = stack[i - 1].slice
        BY <1>4, <3>1
      <3>3. /\ stack'[i].slice = stack[i].slice /\ stack'[i].kind = stack[i].kind
            /\ stack'[i].previous = stack[i].previous /\ stack'[i].dispose = stack[i].dispose
        BY <1>4, <3>1
      <3>4. QED
        BY <1>1, <1>5, <1>7, <3>1, <3>2, <3>3 DEF FrameInv, Link
    <2>2. 1 \in 1..n
      BY <1>2
    <2>3. stack[1].slice = outer /\ stack[1].kind = "body" /\ stack[1].previous = None /\ stack[1].dispose
      BY <1>5 DEF RenderInv, StackInv
    <2>4. stack'[1].slice = outer' /\ stack'[1].kind = "body" /\ stack'[1].previous = None /\ stack'[1].dispose
      BY <1>1, <1>4, <2>2, <2>3
    <2>5. QED
      BY <1>5, <2>1, <2>4 DEF StackInv
  <1>11. ActiveInv'
    <2>1. Top'.slice = Top.slice
      BY <1>2, <1>4, <1>5 DEF Top
    <2>2. QED
      BY <1>1, <1>5, <2>1 DEF RenderInv, ActiveInv
  <1>12. HelperInv'
    BY <1>1, <1>7 DEF RenderInv, HelperInv
  <1>13. FreshInv'
    BY <1>1, <1>2, <1>4, <1>5 DEF RenderInv, FreshInv
  <1>14. DisposedInv'
    <2>1. {stack'[i].slice : i \in DOMAIN stack'} = {stack[i].slice : i \in DOMAIN stack}
      BY <1>2, <1>4, <1>5
    <2>2. QED
      BY <1>1, <1>7, <2>1 DEF RenderInv, DisposedInv
  <1>15. QED
    BY <1>6, <1>8, <1>9, <1>10, <1>11, <1>12, <1>13, <1>14 DEF RenderInv

-----------------------------------------------------------------------------
(* The theorems.                                                            *)

LEMMA RenderInvInitially == Init => RenderInv
  <1> SUFFICES ASSUME Init PROVE RenderInv
    OBVIOUS
  <1> USE DEF Init, helperVars
  <1>1. started \cap LayoutSlices = {}
    OBVIOUS
  <1>2. LayoutsUsed = 0
    BY <1>1, FS_EmptySet DEF LayoutsUsed
  <1>3. Len(Layouts) \in Nat /\ Content \in FullSlices
    BY LinksDiffer DEF FullSlices
  <1>4. TypeOK
    <2>1. parent \in [FullSlices -> FullSlices \cup {None}] /\ content \in [LayoutSlices -> FullSlices \cup {None}]
      OBVIOUS
    <2>2. active \in [FullSlices -> Slices \cup {None}] /\ cache \in [FullSlices -> SUBSET Helpers]
      OBVIOUS
    <2>3. owner \in [Helpers -> FullSlices \cup {None}] /\ created \in [Helpers -> 0..2]
      OBVIOUS
    <2>4. sections \in 0..MaxSections /\ failures \in 0..MaxFailures
      BY BoundAssumption
    <2>5. stack \in Seq(Frames) /\ (pc = "running" <=> stack # <<>>)
      OBVIOUS
    <2>6. QED
      BY <2>1, <2>2, <2>3, <2>4, <2>5 DEF TypeOK
  <1>5. OuterInv
    <2>1. FirstLayouts(0) = {}
      BY DEF FirstLayouts
    <2>2. QED
      BY <1>1, <1>2, <1>3, <2>1 DEF OuterInv, Link
  <1>6. ParentInv
    <2>1. \A i \in (LayoutsUsed + 1)..Len(Layouts) : Layouts[i] \in FullSlices
      BY <1>2, LinksDiffer DEF FullSlices
    <2>2. \A p \in Partials : p \in FullSlices
      BY DEF FullSlices
    <2>3. QED
      BY <1>2, <1>3, <2>1, <2>2 DEF ParentInv
  <1>7. ContentInv
    BY <1>2 DEF ContentInv
  <1>8. StackInv /\ FreshInv /\ ActiveInv
    BY DEF StackInv, FreshInv, ActiveInv
  <1>9. HelperInv
    BY DEF HelperInv
  <1>10. DisposedInv
    BY DEF DisposedInv
  <1>11. QED
    BY <1>4, <1>5, <1>6, <1>7, <1>8, <1>9, <1>10 DEF RenderInv

LEMMA RenderInvKept == RenderInv /\ [Next]_vars => RenderInv'
  <1> SUFFICES ASSUME RenderInv, [Next]_vars PROVE RenderInv'
    OBVIOUS
  <1>1. CASE Next
    <2>1. UNCHANGED asyncTemplates
      BY <1>1 DEF Next
    <2>2. CASE Render \/ UseLayout \/ FailBeforeExecute \/ Execute
      BY <2>1, <2>2, RenderKeeps, UseLayoutKeeps, FailBeforeExecuteKeeps, ExecuteKeeps
    <2>3. CASE RenderBody \/ RenderSection \/ Suspend \/ Throw \/ Catch \/ Complete \/ Unwind
      BY <2>1, <2>3, RenderBodyKeeps, RenderSectionKeeps, SuspendKeeps, ThrowKeeps, CatchKeeps,
         CompleteKeeps, UnwindKeeps
    <2>4. CASE \E h \in Helpers : InitializeWithHelper(h) \/ GetHelper(h)
      BY <2>1, <2>4, InitializeWithHelperKeeps, GetHelperKeeps
    <2>5. CASE \E p \in Partials : RenderPartial(p) \/ FailPartial(p)
      BY <2>1, <2>5, RenderPartialKeeps, FailPartialKeeps
    <2>6. CASE \E m \in Minimals : RenderMinimal(m)
      BY <2>1, <2>6, RenderMinimalKeeps
    <2>7. QED
      BY <1>1, <2>2, <2>3, <2>4, <2>5, <2>6 DEF Next
  <1>2. CASE UNCHANGED vars
    <2> USE <1>2 DEF vars, helperVars, counters
    <2>1. OuterInv'
      BY DEF RenderInv, OuterInv, LayoutsUsed, Link, FirstLayouts
    <2>2. LayoutsUsed' = LayoutsUsed /\ Chain' = Chain
      BY <2>1, ChainKept DEF RenderInv
    <2>3. TypeOK'
      BY DEF RenderInv, TypeOK
    <2>4. ParentInv' /\ ContentInv'
      BY <2>2 DEF RenderInv, ParentInv, ContentInv, Link
    <2>5. StackInv'
      BY <2>2 DEF RenderInv, StackInv, FrameInv, Link
    <2>6. ActiveInv' /\ FreshInv'
      BY DEF RenderInv, ActiveInv, FreshInv, Top
    <2>7. HelperInv' /\ DisposedInv'
      BY <2>2 DEF RenderInv, HelperInv, DisposedInv
    <2>8. QED
      BY <2>1, <2>3, <2>4, <2>5, <2>6, <2>7 DEF RenderInv
  <1>3. QED
    BY <1>1, <1>2

LEMMA RenderInvariant == Spec => []RenderInv
  BY RenderInvInitially, RenderInvKept, PTL DEF Spec

\* Every variable keeps its type (the state of one render).
THEOREM RenderTypeCorrect == Spec => []TypeOK
  <1>1. RenderInv => TypeOK
    BY DEF RenderInv
  <1>2. QED
    BY <1>1, RenderInvariant, PTL

\* However deep the layouts, partials and minimal partials are nested, and
\* whatever throws, suspends or is caught on the way: the helpers of a render
\* write to the slice whose template is running, and there is one of each type.
THEOREM HelpersFollowTheTemplate == Spec => []HelpersWriteToRunningSlice
  <1>1. ASSUME RenderInv PROVE HelpersWriteToRunningSlice
    <2>1. \A h \in Helpers : created[h] <= 1
      BY <1>1 DEF RenderInv, HelperInv
    <2>2. ASSUME Running
          PROVE  /\ Top.slice \in FullSlices => ActiveHelperSlice(Top.slice) = Top.slice
                 /\ \A h \in Helpers : owner[h] # None => ActiveHelperSlice(owner[h]) = Top.slice
      <3>1. pc = "running"
        BY <2>2 DEF Running
      <3>2. (IF active[outer] = None THEN outer ELSE active[outer]) = Top.slice
        <4>1. active[outer] = IF Len(stack) = 1 THEN None ELSE Top.slice
          BY <1>1, <3>1, RunningFacts
        <4>2. CASE Len(stack) = 1
          <5>1. stack # <<>>
            BY <4>2
          <5>2. QED
            BY <1>1, <4>1, <4>2, <5>1 DEF RenderInv, StackInv, Top
        <4>3. CASE Len(stack) # 1
          <5>1. Top.slice \in Slices
            BY <1>1, <3>1, RunningFacts DEF Frames
          <5>2. QED
            BY <4>1, <4>3, <5>1, LinksDiffer
        <4>4. QED
          BY <4>2, <4>3
      <3>3. Top.slice \in FullSlices => Root(Top.slice) = outer
        BY <1>1, <3>1, RunningFacts DEF Top
      <3>4. \A h \in Helpers : owner[h] # None => Root(owner[h]) = outer
        <4>1. \A s \in Chain : Root(s) = outer
          BY <1>1, ChainFacts DEF RenderInv
        <4>2. QED
          BY <1>1, <4>1 DEF RenderInv, HelperInv
      <3>5. QED
        BY <3>2, <3>3, <3>4 DEF ActiveHelperSlice
    <2>3. QED
      BY <2>1, <2>2 DEF HelpersWriteToRunningSlice
  <1>2. QED
    BY <1>1, RenderInvariant, PTL

\* However a render ends, nothing that took part in it outlives it, and no slice
\* is disposed while it runs or while a layout may still render it.
THEOREM NothingOutlivesTheRender == Spec => []SlicesAreDisposedInTime
  <1>1. ASSUME RenderInv PROVE EverythingIsReleased
    <2>1. SUFFICES ASSUME pc \in {"done", "failed"}
                   PROVE started \subseteq disposed /\ \A h \in Helpers : owner[h] = None
      BY DEF EverythingIsReleased
    <2>2. stack = <<>> /\ outer \in disposed
      BY <1>1, <2>1 DEF RenderInv, TypeOK, DisposedInv
    <2>3. started \subseteq disposed
      BY <1>1, <2>2 DEF RenderInv, DisposedInv
    <2>4. outer \in FullSlices
      BY <1>1, ChainFacts DEF RenderInv
    <2>5. ASSUME NEW h \in Helpers PROVE owner[h] = None
      BY <1>1, <2>2, <2>4 DEF RenderInv, HelperInv
    <2>6. QED
      BY <2>3, <2>5
  <1>2. ASSUME RenderInv, asyncTemplates PROVE RunningSlicesAreAlive
    <2>1. SUFFICES ASSUME NEW i \in DOMAIN stack
                   PROVE /\ stack[i].slice \notin disposed
                         /\ stack[i].slice \in LayoutSlices => content[stack[i].slice] \notin disposed
      BY DEF RunningSlicesAreAlive
    <2>2. /\ pc = "running" /\ outer \notin disposed /\ Len(stack) \in Nat /\ DOMAIN stack = 1..Len(stack)
          /\ LayoutsUsed = Len(Layouts) /\ LayoutsUsed \in Nat /\ outer = Link(LayoutsUsed) /\ Len(stack) >= 1
      <3>1. pc = "running"
        BY <1>2 DEF RenderInv, TypeOK
      <3>2. QED
        BY <1>2, <3>1, RunningFacts, LinksDiffer
    <2>3. Chain \cap disposed = {}
      BY <1>2, <2>2 DEF RenderInv, DisposedInv
    <2>4. CASE \E j \in 0..LayoutsUsed : stack[i].slice = Link(j)
      <3>1. PICK j \in 0..LayoutsUsed : stack[i].slice = Link(j)
        BY <2>4
      <3>2. Link(j) \in Chain
        BY DEF Chain
      <3>3. ASSUME Link(j) \in LayoutSlices PROVE content[Link(j)] \in Chain
        <4>1. j \in 1..LayoutsUsed /\ j - 1 \in 0..LayoutsUsed
          BY <2>2, <3>3, LinksDiffer DEF Link
        <4>2. content[Link(j)] = Link(j - 1)
          BY <1>2, <2>2, <4>1, LinksDiffer DEF RenderInv, ContentInv
        <4>3. QED
          BY <4>1, <4>2 DEF Chain
      <3>4. QED
        BY <2>3, <3>1, <3>2, <3>3
    <2>5. CASE stack[i].slice \in Partials \cup Minimals
      <3>1. stack[i].slice \notin LayoutSlices
        BY <2>5, SliceAssumption
      <3>2. stack[i].slice \notin disposed
        BY <1>2, <2>5 DEF RenderInv, FreshInv
      <3>3. QED
        BY <3>1, <3>2
    <2>6. (\E j \in 0..LayoutsUsed : stack[i].slice = Link(j)) \/ stack[i].slice \in Partials \cup Minimals
      <3>1. CASE i = 1
        <4>1. stack # <<>>
          BY <2>2
        <4>2. stack[i].slice = outer /\ LayoutsUsed \in 0..LayoutsUsed
          BY <1>2, <2>2, <3>1, <4>1 DEF RenderInv, StackInv
        <4>3. QED
          BY <2>2, <4>2
      <3>2. CASE i # 1
        <4>1. i \in 2..Len(stack)
          BY <2>2, <3>2
        <4>2. FrameInv(i)
          BY <1>2, <4>1 DEF RenderInv, StackInv
        <4>3. 0..(LayoutsUsed - 1) \subseteq 0..LayoutsUsed
          BY <2>2
        <4>4. QED
          BY <4>2, <4>3 DEF FrameInv
      <3>3. QED
        BY <3>1, <3>2
    <2>7. QED
      BY <2>4, <2>5, <2>6
  <1>3. RenderInv => SlicesAreDisposedInTime
    BY <1>1, <1>2 DEF SlicesAreDisposedInTime
  <1>4. QED
    BY <1>3, RenderInvariant, PTL

-----------------------------------------------------------------------------
(* Renders to strings and builders.                                         *)

Text(r, n) == [i \in 1..n |-> [by |-> r, n |-> i]]

\* The writer of a render that runs or failed is its own, and writes to its
\* builder.
StringWriterInv ==
    \A r \in StringRenders : rendering[r] \in {"running", "failed"} =>
        /\ stringWriter[r] \in StringWriters \ pooled
        /\ sb[stringWriter[r]] = builder[r]
        /\ \A q \in StringRenders :
              q # r /\ rendering[q] \in {"running", "failed"} => stringWriter[q] # stringWriter[r]

\* A render that may still write to its builder, or read it, has it alone.
BuilderInv ==
    \A r \in StringRenders : rendering[r] \in {"running", "rendered", "failed"} =>
        /\ builder[r] \in IF r \in ToBuilder THEN {r} ELSE Builders \ pooled
        /\ contents[builder[r]] = Text(r, pieces[r])
        /\ \A q \in StringRenders :
              q # r /\ rendering[q] \in {"running", "rendered", "failed"} => builder[q] # builder[r]

ResultInv ==
    /\ \A b \in Builders \cap pooled : contents[b] = <<>>
    /\ \A r \in StringRenders :
          /\ rendering[r] = "new" => pieces[r] = 0
          /\ lingering[r] => rendering[r] = "failed"
          /\ r \in ToBuilder => contents[r] = Text(r, pieces[r]) /\ rendering[r] # "rendered"
          /\ r \notin ToBuilder /\ rendering[r] = "done" => result[r] = Text(r, pieces[r])

StringsInv == Strings!TypeOK /\ StringWriterInv /\ BuilderInv /\ ResultInv

LEMMA TextFacts ==
  ASSUME NEW r, NEW n \in Nat
  PROVE  /\ Text(r, 0) = <<>>
         /\ Text(r, n) \in Seq([by : {r}, n : 1..n]) /\ Len(Text(r, n)) = n
         /\ Append(Text(r, n), [by |-> r, n |-> n + 1]) = Text(r, n + 1)
  <1>1. Text(r, 0) = <<>>
    BY DEF Text
  <1>2. Text(r, n) \in Seq([by : {r}, n : 1..n]) /\ Len(Text(r, n)) = n
    BY DEF Text
  <1>3. Append(Text(r, n), [by |-> r, n |-> n + 1]) = Text(r, n + 1)
    BY DEF Text
  <1>4. QED
    BY <1>1, <1>2, <1>3

LEMMA StringsInitially == Strings!Init => StringsInv
  <1> SUFFICES ASSUME Strings!Init PROVE StringsInv
    OBVIOUS
  <1>1. Strings!TypeOK
    BY StringsAssumption DEF Strings!Init, Strings!TypeOK
  <1>2. StringWriterInv /\ BuilderInv
    BY DEF Strings!Init, StringWriterInv, BuilderInv
  <1>3. ResultInv
    BY StringsAssumption, TextFacts DEF Strings!Init, ResultInv
  <1>4. QED
    BY <1>1, <1>2, <1>3 DEF StringsInv

LEMMA StringStarts ==
  ASSUME StringsInv, NEW r \in StringRenders, Strings!StartRender(r)
  PROVE  StringsInv'
  <1>1. PICK w \in StringWriters \cap pooled, b \in IF r \in ToBuilder THEN {r} ELSE Builders \cap pooled :
            /\ pooled' = pooled \ {w, b}
            /\ stringWriter' = [stringWriter EXCEPT ![r] = w]
            /\ builder' = [builder EXCEPT ![r] = b]
            /\ sb' = [sb EXCEPT ![w] = b]
    BY DEF Strings!StartRender
  <1>2. /\ rendering[r] = "new" /\ rendering' = [rendering EXCEPT ![r] = "running"]
        /\ UNCHANGED <<contents, pieces, lingering, result>>
    BY DEF Strings!StartRender
  <1>3. w \notin Builders /\ b \in Builders \cup {r} /\ (b \notin StringWriters \/ b = r)
    BY StringsAssumption
  <1>4. pooled \subseteq StringWriters \cup Builders
    BY DEF StringsInv, Strings!TypeOK
  <1>5. Strings!TypeOK'
    BY <1>1, <1>2 DEF StringsInv, Strings!TypeOK
  <1>6. StringWriterInv'
    BY <1>1, <1>2, StringsAssumption DEF StringsInv, Strings!TypeOK, StringWriterInv
  <1>7. BuilderInv'
    <2>1. contents[b] = Text(r, pieces[r])
      BY <1>1, <1>2, TextFacts, StringsAssumption DEF StringsInv, ResultInv
    <2>2. QED
      BY <1>1, <1>2, <2>1, StringsAssumption DEF StringsInv, Strings!TypeOK, BuilderInv
  <1>8. ResultInv'
    BY <1>1, <1>2, StringsAssumption DEF StringsInv, Strings!TypeOK, ResultInv
  <1>9. QED
    BY <1>5, <1>6, <1>7, <1>8 DEF StringsInv

LEMMA StringWrites ==
  ASSUME StringsInv, NEW r \in StringRenders, Strings!Write(r)
  PROVE  StringsInv'
  <1> DEFINE b == builder[r]
             piece == [by |-> r, n |-> pieces[r] + 1]
  <1>1. rendering[r] \in {"running", "failed"} /\ pieces[r] \in Nat /\ pieces[r] < MaxTexts
    BY StringsAssumption DEF Strings!Write, StringsInv, Strings!TypeOK, ResultInv
  <1>2. sb[stringWriter[r]] = b /\ b \in Builders \cup ToBuilder /\ b # Nothing
    <2>1. sb[stringWriter[r]] = builder[r]
      BY <1>1 DEF StringsInv, StringWriterInv
    <2>2. b \in IF r \in ToBuilder THEN {r} ELSE Builders \ pooled
      BY <1>1 DEF StringsInv, BuilderInv
    <2>3. QED
      BY <2>1, <2>2, StringsAssumption
  <1>3. /\ contents' = [contents EXCEPT ![b] = Append(@, piece)]
        /\ pieces' = [pieces EXCEPT ![r] = @ + 1]
        /\ UNCHANGED <<rendering, stringWriter, builder, pooled, sb, lingering, result>>
    BY <1>2 DEF Strings!Write
  <1>4. piece \in Strings!Pieces
    BY <1>1, StringsAssumption DEF Strings!Pieces
  <1>5. Strings!TypeOK'
    <2>1. contents' \in [Builders \cup ToBuilder -> Seq(Strings!Pieces)]
      BY <1>2, <1>3, <1>4 DEF StringsInv, Strings!TypeOK
    <2>2. pieces' \in [StringRenders -> 0..MaxTexts]
      BY <1>1, <1>3, StringsAssumption DEF StringsInv, Strings!TypeOK
    <2>3. QED
      BY <1>3, <2>1, <2>2 DEF StringsInv, Strings!TypeOK
  <1>6. StringWriterInv'
    BY <1>3 DEF StringsInv, StringWriterInv
  <1>7. contents'[b] = Text(r, pieces'[r])
    <2>1. contents[b] = Text(r, pieces[r])
      BY <1>1 DEF StringsInv, BuilderInv
    <2>2. contents'[b] = Append(contents[b], piece) /\ pieces'[r] = pieces[r] + 1
      BY <1>1, <1>2, <1>3 DEF StringsInv, Strings!TypeOK
    <2>3. QED
      BY <1>1, <2>1, <2>2, TextFacts
  <1>8. BuilderInv'
    BY <1>1, <1>2, <1>3, <1>7 DEF StringsInv, BuilderInv, Strings!TypeOK
  <1>9. ResultInv'
    <2>1. b \notin Builders \cap pooled /\ (b \in ToBuilder => b = r)
      BY <1>1, StringsAssumption DEF StringsInv, BuilderInv, Strings!TypeOK
    <2>2. r \in ToBuilder => b = r
      BY <1>1 DEF StringsInv, BuilderInv
    <2>3. QED
      BY <1>1, <1>2, <1>3, <1>7, <2>1, <2>2 DEF StringsInv, ResultInv, Strings!TypeOK
  <1>10. QED
    BY <1>5, <1>6, <1>8, <1>9 DEF StringsInv

LEMMA StringFails ==
  ASSUME StringsInv, NEW r \in StringRenders, Strings!Fail(r)
  PROVE  StringsInv'
  <1>1. PICK l \in BOOLEAN : lingering' = [lingering EXCEPT ![r] = l]
    BY DEF Strings!Fail
  <1>2. /\ rendering[r] = "running" /\ rendering' = [rendering EXCEPT ![r] = "failed"]
        /\ UNCHANGED <<stringWriter, builder, pooled, sb, contents, pieces, result>>
    BY DEF Strings!Fail
  <1>3. Strings!TypeOK'
    BY <1>1, <1>2 DEF StringsInv, Strings!TypeOK
  <1>4. StringWriterInv' /\ BuilderInv'
    BY <1>2 DEF StringsInv, Strings!TypeOK, StringWriterInv, BuilderInv
  <1>5. ResultInv'
    BY <1>1, <1>2 DEF StringsInv, Strings!TypeOK, ResultInv
  <1>6. QED
    BY <1>3, <1>4, <1>5 DEF StringsInv

LEMMA StringWriterReturns ==
  ASSUME StringsInv, NEW r \in StringRenders, Strings!ReturnWriter(r)
  PROVE  StringsInv'
  <1>1. /\ rendering[r] = "running"
        /\ rendering' = [rendering EXCEPT ![r] = IF r \in ToBuilder THEN "done" ELSE "rendered"]
        /\ pooled' = pooled \cup {stringWriter[r]}
        /\ sb' = [sb EXCEPT ![stringWriter[r]] = Nothing]
        /\ UNCHANGED <<stringWriter, builder, contents, pieces, lingering, result>>
    BY DEF Strings!ReturnWriter
  <1>2. stringWriter[r] \in StringWriters /\ stringWriter[r] \notin Builders
    BY <1>1, StringsAssumption DEF StringsInv, StringWriterInv
  <1>3. Strings!TypeOK'
    BY <1>1, <1>2 DEF StringsInv, Strings!TypeOK
  <1>4. StringWriterInv'
    BY <1>1, <1>2 DEF StringsInv, Strings!TypeOK, StringWriterInv
  <1>5. BuilderInv'
    BY <1>1, <1>2 DEF StringsInv, Strings!TypeOK, BuilderInv
  <1>6. ResultInv'
    BY <1>1, <1>2 DEF StringsInv, Strings!TypeOK, ResultInv
  <1>7. QED
    BY <1>3, <1>4, <1>5, <1>6 DEF StringsInv

LEMMA StringReturns ==
  ASSUME StringsInv, NEW r \in StringRenders, Strings!ReturnString(r)
  PROVE  StringsInv'
  <1> DEFINE b == builder[r]
  <1>1. /\ rendering[r] = "rendered" /\ rendering' = [rendering EXCEPT ![r] = "done"]
        /\ result' = [result EXCEPT ![r] = contents[b]]
        /\ UNCHANGED <<stringWriter, builder, sb, pieces, lingering>>
    BY DEF Strings!ReturnString
  <1>2. r \notin ToBuilder /\ b \in Builders \ pooled /\ contents[b] = Text(r, pieces[r])
    BY <1>1 DEF StringsInv, BuilderInv, ResultInv
  <1>3. b \notin StringWriters /\ b \notin ToBuilder
    BY <1>2, StringsAssumption
  <1>4. \/ contents' = [contents EXCEPT ![b] = <<>>] /\ pooled' = pooled \cup {b}
        \/ UNCHANGED <<contents, pooled>>
    BY DEF Strings!ReturnString
  <1>5. Strings!TypeOK'
    <2>1. contents[b] \in Seq(Strings!Pieces)
      BY <1>2 DEF StringsInv, Strings!TypeOK
    <2>2. contents' \in [Builders \cup ToBuilder -> Seq(Strings!Pieces)] /\ pooled' \subseteq StringWriters \cup Builders
      <3>1. <<>> \in Seq(Strings!Pieces) /\ contents \in [Builders \cup ToBuilder -> Seq(Strings!Pieces)]
        BY DEF StringsInv, Strings!TypeOK
      <3>2. pooled \subseteq StringWriters \cup Builders
        BY DEF StringsInv, Strings!TypeOK
      <3>3. CASE contents' = [contents EXCEPT ![b] = <<>>] /\ pooled' = pooled \cup {b}
        BY <1>2, <3>1, <3>2, <3>3
      <3>4. QED
        BY <1>4, <3>1, <3>2, <3>3
    <2>3. QED
      BY <1>1, <2>1, <2>2 DEF StringsInv, Strings!TypeOK
  <1>6. StringWriterInv'
    BY <1>1, <1>3, <1>4 DEF StringsInv, Strings!TypeOK, StringWriterInv
  <1>7. BuilderInv'
    BY <1>1, <1>2, <1>3, <1>4, StringsAssumption DEF StringsInv, Strings!TypeOK, BuilderInv
  <1>8. ResultInv'
    BY <1>1, <1>2, <1>3, <1>4, ZenonT(30) DEF StringsInv, Strings!TypeOK, ResultInv
  <1>9. QED
    BY <1>5, <1>6, <1>7, <1>8 DEF StringsInv

LEMMA StringsInvariant == Strings!Spec => []StringsInv
  <1>1. StringsInv /\ [Strings!Next]_Strings!vars => StringsInv'
    <2> SUFFICES ASSUME StringsInv, [Strings!Next]_Strings!vars PROVE StringsInv'
      OBVIOUS
    <2>1. ASSUME NEW r \in StringRenders, Strings!LateEnd(r) PROVE StringsInv'
      BY <2>1 DEF Strings!LateEnd, StringsInv, Strings!TypeOK, StringWriterInv, BuilderInv, ResultInv
    <2>2. CASE UNCHANGED Strings!vars
      BY <2>2 DEF Strings!vars, StringsInv, Strings!TypeOK, StringWriterInv, BuilderInv, ResultInv
    <2>3. QED
      BY <2>1, <2>2, StringStarts, StringWrites, StringFails, StringWriterReturns, StringReturns DEF Strings!Next
  <1>2. QED
    BY <1>1, StringsInitially, PTL DEF Strings!Spec

LEMMA StringsStayFaithful == StringsInv => Strings!StringsAreFaithful
  BY StringsAssumption DEF StringsInv, ResultInv, Strings!StringsAreFaithful, Strings!Exactly, Text

-----------------------------------------------------------------------------
(* The pooled writers.                                                      *)

\* A render has the writer of its calls of WriteHtml alone, or has returned it
\* in a nested call and left it to its thread, which it keeps.
FrameWriterInv(r) ==
    frames[r] # <<>> =>
        LET w == frames[r][1].writer
        IN  /\ phase[r] = "running" /\ thread[r] \in Threads /\ late[r] = Nothing
            /\ Len(frames[r]) <= 2 /\ w \in used
            /\ Len(frames[r]) = 2 => environment.nested /\ frames[r][1].kind = "delegate" /\ frames[r][2].writer = w
            /\ \/ pipe[w] = Pooled!PipeOf(r)
               \/ environment.nested /\ pipe[w] = Nothing /\ cached[thread[r]] = w
            /\ \A q \in Renders : q # r => thread[q] # thread[r]

\* What PushWriter has saved, and PopWriter restores.
SavedInv(r) ==
    ~writing[r] =>
        IF frames[r] = <<>> \/ frames[r][1].kind = "content"
        THEN textWriter[r] = Nothing /\ saved[r] = <<>>
        ELSE /\ textWriter[r] = frames[r][1].writer
             /\ saved[r] = IF Len(frames[r]) = 2 /\ frames[r][2].kind = "delegate"
                           THEN <<Nothing, frames[r][1].writer>> ELSE <<Nothing>>

\* A rejected delegate has its writer alone.
LateInv(r) ==
    late[r] # Nothing =>
        /\ environment.async /\ writing[r] /\ frames[r] = <<>>
        /\ late[r] \in used /\ pipe[late[r]] = r

TrackerInv(r) ==
    /\ tracker[r] # Nothing =>
          /\ environment.uncounted # {} /\ phase[r] = "running"
          /\ inner[tracker[r]] = r /\ tracker[r] \notin pool
    /\ phase[r] = "new" => written[r] = 0 /\ ~writing[r]
    /\ phase[r] = "done" => ~writing[r]

\* What a render has written and not yet sent to its pipe.
Held(r) == IF frames[r] # <<>> THEN memory[frames[r][1].writer]
           ELSE IF late[r] # Nothing THEN memory[late[r]] ELSE <<>>

\* The pipe has the text of its render up to some point; the rest is held until
\* an exception returns the writer.
TextInv(r) ==
    /\ \E n \in 0..written[r] : rendered[r] = Text(r, n)
    /\ ~writing[r] \/ late[r] # Nothing => rendered[r] \o Held(r) = Text(r, written[r])

\* Cached writers are nobody's, and each is cached once.
CachedInv ==
    /\ \A t \in Threads : cached[t] # Nothing =>
          /\ pipe[cached[t]] = Nothing
          /\ \A u \in Threads : u # t => cached[u] # cached[t]
    /\ \A w \in Writers :
          /\ pipe[w] = Nothing => memory[w] = <<>>
          /\ w \notin used => pipe[w] = Nothing

RenderStateInv(r) ==
    FrameWriterInv(r) /\ SavedInv(r) /\ LateInv(r) /\ TrackerInv(r) /\ TextInv(r)

WritersInv == Pooled!TypeOK /\ CachedInv /\ \A r \in Renders : RenderStateInv(r)

LEMMA PipeFacts ==
  ASSUME WritersInv, NEW r \in Renders
  PROVE  /\ Pooled!Behind(Pooled!PipeOf(r)) = r
         /\ Pooled!PipeOf(r) \in Renders \cup Trackers /\ Pooled!PipeOf(r) # Nothing
         /\ Pooled!Behind(Nothing) = Nothing /\ Pooled!Behind(r) = r
         /\ environment.async => tracker[r] = Nothing /\ ~environment.nested
  BY WritersAssumption
  DEF WritersInv, Pooled!TypeOK, RenderStateInv, TrackerInv, Pooled!Behind, Pooled!PipeOf, Faithful

LEMMA WritersDiffer ==
  ASSUME WritersInv, NEW r \in Renders, NEW q \in Renders, q # r
  PROVE  /\ frames[r] # <<>> /\ frames[q] # <<>> => frames[q][1].writer # frames[r][1].writer
         /\ frames[r] # <<>> /\ late[q] # Nothing => frames[r][1].writer # late[q]
         /\ late[r] # Nothing /\ late[q] # Nothing => late[q] # late[r]
  <1>1. Pooled!PipeOf(q) # Pooled!PipeOf(r) /\ Pooled!PipeOf(q) # Nothing /\ Pooled!PipeOf(r) # Nothing /\ Pooled!PipeOf(r) # q
    BY PipeFacts
  <1>2. \A p \in Renders : FrameWriterInv(p) /\ LateInv(p)
    BY DEF WritersInv, RenderStateInv
  <1>3. frames[r] # <<>> /\ late[q] # Nothing => frames[r][1].writer # late[q]
    BY <1>1, <1>2, WritersAssumption DEF FrameWriterInv, LateInv
  <1>4. late[r] # Nothing /\ late[q] # Nothing => late[q] # late[r]
    BY <1>2 DEF LateInv
  <1>5. ASSUME frames[r] # <<>>, frames[q] # <<>>, frames[q][1].writer = frames[r][1].writer PROVE FALSE
    <2>1. cached[thread[r]] = frames[r][1].writer /\ cached[thread[q]] = frames[r][1].writer
      BY <1>1, <1>2, <1>5 DEF FrameWriterInv
    <2>2. thread[r] \in Threads /\ thread[q] \in Threads /\ thread[q] # thread[r]
      BY <1>2, <1>5 DEF FrameWriterInv
    <2>3. frames[r][1].writer # Nothing
      BY <1>2, <1>5, WritersAssumption DEF FrameWriterInv, WritersInv, Pooled!TypeOK
    <2>4. QED
      BY <2>1, <2>2, <2>3 DEF WritersInv, CachedInv
  <1>6. QED
    BY <1>3, <1>4, <1>5

\* What a step of another render leaves alone.
Undisturbed(q) ==
    /\ UNCHANGED <<environment, phase[q], thread[q], frames[q], writing[q], textWriter[q], saved[q], late[q],
                   tracker[q], written[q], rendered[q]>>
    /\ used \subseteq used'
    /\ frames[q] # <<>> =>
          /\ UNCHANGED <<pipe[frames[q][1].writer], memory[frames[q][1].writer], cached[thread[q]]>>
          /\ \A p \in Renders : p # q => thread'[p] # thread[q]
    /\ late[q] # Nothing => UNCHANGED <<pipe[late[q]], memory[late[q]]>>
    /\ tracker[q] # Nothing => UNCHANGED inner[tracker[q]] /\ tracker[q] \notin pool'

LEMMA Undisturbing ==
  ASSUME NEW q \in Renders, RenderStateInv(q), Undisturbed(q)
  PROVE  RenderStateInv(q)'
  <1>1. FrameWriterInv(q)'
    BY DEF RenderStateInv, Undisturbed, FrameWriterInv, Pooled!PipeOf
  <1>2. SavedInv(q)' /\ LateInv(q)'
    BY DEF RenderStateInv, Undisturbed, SavedInv, LateInv
  <1>3. TrackerInv(q)'
    BY DEF RenderStateInv, Undisturbed, TrackerInv
  <1>4. TextInv(q)'
    <2>1. Held(q)' = Held(q)
      BY DEF Undisturbed, Held
    <2>2. QED
      BY <2>1 DEF RenderStateInv, Undisturbed, TextInv
  <1>5. QED
    BY <1>1, <1>2, <1>3, <1>4 DEF RenderStateInv

\* The beginning of a text is a text.
LEMMA Beginning ==
  ASSUME NEW r, NEW n \in Nat, NEW S, NEW o \in Seq(S), NEW m \in Seq(S), o \o m = Text(r, n)
  PROVE  Len(o) \in 0..n /\ o = Text(r, Len(o))
  <1>1. Len(o) \in 0..n
    <2>1. Len(o \o m) = Len(o) + Len(m) /\ Len(o) \in Nat /\ Len(m) \in Nat
      OBVIOUS
    <2>2. Len(o \o m) = n
      BY TextFacts
    <2>3. QED
      BY <2>1, <2>2
  <1>2. o = Text(r, Len(o))
    <2>1. \A i \in 1..Len(o) : o[i] = (o \o m)[i]
      OBVIOUS
    <2>2. \A i \in 1..Len(o) : o[i] = [by |-> r, n |-> i]
      <3>1. \A i \in 1..n : Text(r, n)[i] = [by |-> r, n |-> i]
        BY DEF Text
      <3>2. QED
        BY <1>1, <2>1, <3>1
    <2>3. o = [i \in 1..Len(o) |-> o[i]]
      OBVIOUS
    <2>4. QED
      BY <2>2, <2>3 DEF Text
  <1>3. QED
    BY <1>1, <1>2

LEMMA Appended ==
  ASSUME NEW S, NEW o \in Seq(S), NEW m \in Seq(S), NEW p \in S, NEW t, t = o \o m
  PROVE  /\ o \o Append(m, p) = Append(t, p)
         /\ (o \o m) \o <<p>> = Append(t, p)
         /\ o \o m \in Seq(S) /\ (o \o m) \o <<>> = t
  <1>1. o \o Append(m, p) = Append(o \o m, p)
    OBVIOUS
  <1>2. (o \o m) \o <<p>> = Append(o \o m, p)
    OBVIOUS
  <1>3. o \o m \in Seq(S)
    OBVIOUS
  <1>4. (o \o m) \o <<>> = o \o m
    BY <1>3
  <1>5. QED
    BY <1>1, <1>2, <1>3, <1>4

LEMMA WritersInitially == Pooled!Init => WritersInv
  <1> SUFFICES ASSUME Pooled!Init PROVE WritersInv
    OBVIOUS
  <1>1. Pooled!TypeOK
    BY WritersAssumption DEF Pooled!Init, Pooled!TypeOK
  <1>2. CachedInv
    BY DEF Pooled!Init, CachedInv
  <1>3. ASSUME NEW r \in Renders PROVE RenderStateInv(r)
    <2>1. Text(r, 0) = <<>> /\ <<>> \o <<>> = <<>>
      BY DEF Text
    <2>2. TextInv(r)
      BY <2>1 DEF Pooled!Init, TextInv, Held
    <2>3. FrameWriterInv(r) /\ SavedInv(r) /\ LateInv(r) /\ TrackerInv(r)
      BY DEF Pooled!Init, FrameWriterInv, SavedInv, LateInv, TrackerInv
    <2>4. QED
      BY <2>2, <2>3 DEF RenderStateInv
  <1>4. QED
    BY <1>1, <1>2, <1>3 DEF WritersInv

\* What a render that is about to write, or to end, has written so far.
LEMMA WholeSoFar ==
  ASSUME WritersInv, NEW r \in Renders, ~writing[r] \/ late[r] # Nothing
  PROVE  /\ written[r] \in Nat /\ rendered[r] \in Seq(Pooled!Pieces) /\ Held(r) \in Seq(Pooled!Pieces)
         /\ rendered[r] \o Held(r) = Text(r, written[r])
  <1>1. TextInv(r) /\ FrameWriterInv(r)
    BY DEF WritersInv, RenderStateInv
  <1>2. Held(r) \in Seq(Pooled!Pieces)
    BY <1>1, WritersAssumption DEF WritersInv, Pooled!TypeOK, Held, FrameWriterInv
  <1>3. QED
    BY <1>1, <1>2, WritersAssumption DEF WritersInv, Pooled!TypeOK, TextInv

LEMMA RenderStarts ==
  ASSUME WritersInv, NEW r \in Renders, Pooled!StartRender(r), UNCHANGED environment
  PROVE  WritersInv'
  <1>1. /\ phase[r] = "new" /\ phase' = [phase EXCEPT ![r] = "running"]
        /\ UNCHANGED <<environment, thread, frames, writing, textWriter, saved, late, cached, used, pipe, memory, written, rendered>>
    BY DEF Pooled!StartRender, Pooled!writerVars
  <1>2. frames[r] = <<>> /\ tracker[r] = Nothing /\ ~writing[r] /\ late[r] = Nothing
    BY <1>1 DEF WritersInv, Pooled!TypeOK, RenderStateInv, TrackerInv, LateInv
  <1>3. \/ UNCHANGED <<tracker, pool, inner>>
        \/ /\ environment.uncounted # {}
           /\ \E k \in pool : /\ pool' = pool \ {k}
                              /\ inner' = [inner EXCEPT ![k] = r]
                              /\ tracker' = [tracker EXCEPT ![r] = k]
    BY DEF Pooled!StartRender, Pooled!trackerVars
  <1>4. CachedInv'
    BY <1>1 DEF WritersInv, CachedInv
  <1>5. CASE UNCHANGED <<tracker, pool, inner>>
    <2>1. Pooled!TypeOK'
      BY <1>1, <1>2, <1>5 DEF WritersInv, Pooled!TypeOK
    <2>2. RenderStateInv(r)'
      BY <1>1, <1>2, <1>5, <2>1 DEF WritersInv, Pooled!TypeOK, RenderStateInv, FrameWriterInv, SavedInv, LateInv, TrackerInv, TextInv, Held
    <2>3. ASSUME NEW q \in Renders, q # r PROVE RenderStateInv(q)'
      <3>1. Undisturbed(q)
        BY <1>1, <1>5, <2>3 DEF WritersInv, Pooled!TypeOK, RenderStateInv, FrameWriterInv, TrackerInv, Undisturbed
      <3>2. QED
        BY <3>1, Undisturbing DEF WritersInv
    <2>4. QED
      BY <1>4, <2>1, <2>2, <2>3 DEF WritersInv
  <1>6. ASSUME environment.uncounted # {}, NEW k \in pool, pool' = pool \ {k},
               inner' = [inner EXCEPT ![k] = r], tracker' = [tracker EXCEPT ![r] = k]
        PROVE  WritersInv'
    <2>1. k \in Trackers /\ k # Nothing
      BY WritersAssumption DEF WritersInv, Pooled!TypeOK
    <2>2. Pooled!TypeOK'
      BY <1>1, <1>2, <1>6, <2>1 DEF WritersInv, Pooled!TypeOK
    <2>3. tracker'[r] = k /\ inner'[k] = r
      BY <1>6, <2>1 DEF WritersInv, Pooled!TypeOK
    <2>4. RenderStateInv(r)'
      <3>1. FrameWriterInv(r)' /\ SavedInv(r)' /\ LateInv(r)'
        BY <1>1, <1>2 DEF WritersInv, RenderStateInv, FrameWriterInv, SavedInv, LateInv
      <3>2. TrackerInv(r)'
        BY <1>1, <1>2, <1>6, <2>3 DEF WritersInv, Pooled!TypeOK, TrackerInv
      <3>3. TextInv(r)'
        BY <1>1 DEF WritersInv, RenderStateInv, TextInv, Held
      <3>4. QED
        BY <3>1, <3>2, <3>3 DEF RenderStateInv
    <2>5. ASSUME NEW q \in Renders, q # r PROVE RenderStateInv(q)'
      <3>1. tracker[q] # Nothing => tracker[q] # k
        BY <1>6 DEF WritersInv, RenderStateInv, TrackerInv
      <3>2. Undisturbed(q)
        BY <1>1, <1>6, <2>1, <2>5, <3>1 DEF WritersInv, Pooled!TypeOK, RenderStateInv, FrameWriterInv, TrackerInv, Undisturbed
      <3>3. QED
        BY <3>2, Undisturbing DEF WritersInv
    <2>6. QED
      BY <1>4, <2>2, <2>4, <2>5 DEF WritersInv
  <1>7. QED
    BY <1>3, <1>5, <1>6

LEMMA RenderEnds ==
  ASSUME WritersInv, NEW r \in Renders, Pooled!EndRender(r), UNCHANGED environment
  PROVE  WritersInv'
  <1>1. /\ phase[r] = "running" /\ frames[r] = <<>>
        /\ phase' = [phase EXCEPT ![r] = IF writing[r] THEN "failed" ELSE "done"]
        /\ UNCHANGED <<environment, thread, frames, writing, textWriter, saved, late, cached, used, pipe, memory, written, rendered>>
    BY DEF Pooled!EndRender, Pooled!writerVars
  <1>2. \/ tracker[r] = Nothing /\ UNCHANGED <<tracker, pool, inner>>
        \/ /\ tracker[r] # Nothing
           /\ inner' = [inner EXCEPT ![tracker[r]] = Nothing]
           /\ pool' = pool \cup {tracker[r]}
           /\ tracker' = [tracker EXCEPT ![r] = Nothing]
    BY DEF Pooled!EndRender, Pooled!trackerVars
  <1>3. tracker'[r] = Nothing
    BY <1>2 DEF WritersInv, Pooled!TypeOK
  <1>4. Pooled!TypeOK'
    <2>1. phase' \in [Renders -> {"new", "running", "done", "failed"}]
      BY <1>1 DEF WritersInv, Pooled!TypeOK
    <2>2. /\ tracker' \in [Renders -> Trackers \cup {Nothing}] /\ pool' \subseteq Trackers
          /\ inner' \in [Trackers -> Renders \cup {Nothing}]
      BY <1>2 DEF WritersInv, Pooled!TypeOK
    <2>3. \A q \in Renders : phase'[q] # "running" => frames'[q] = <<>> /\ tracker'[q] = Nothing
      BY <1>1, <1>2, <1>3 DEF WritersInv, Pooled!TypeOK
    <2>4. QED
      BY <1>1, <2>1, <2>2, <2>3 DEF WritersInv, Pooled!TypeOK
  <1>5. CachedInv'
    BY <1>1 DEF WritersInv, CachedInv
  <1>6. RenderStateInv(r)'
    <2>1. FrameWriterInv(r)' /\ SavedInv(r)' /\ LateInv(r)'
      <3>1. FrameWriterInv(r)'
        BY <1>1 DEF FrameWriterInv
      <3>2. SavedInv(r)' /\ LateInv(r)'
        BY <1>1 DEF WritersInv, RenderStateInv, SavedInv, LateInv
      <3>3. QED
        BY <3>1, <3>2
    <2>2. TrackerInv(r)'
      BY <1>1, <1>3 DEF WritersInv, Pooled!TypeOK, TrackerInv
    <2>3. TextInv(r)'
      BY <1>1 DEF WritersInv, RenderStateInv, TextInv, Held
    <2>4. QED
      BY <2>1, <2>2, <2>3 DEF RenderStateInv
  <1>7. ASSUME NEW q \in Renders, q # r PROVE RenderStateInv(q)'
    <2>1. tracker[q] # Nothing => tracker[q] # tracker[r] /\ tracker[q] \in Trackers
      BY <1>7, WritersAssumption DEF WritersInv, Pooled!TypeOK, RenderStateInv, TrackerInv
    <2>2. Undisturbed(q)
      BY <1>1, <1>2, <1>7, <2>1 DEF WritersInv, Pooled!TypeOK, RenderStateInv, FrameWriterInv, TrackerInv, Undisturbed
    <2>3. QED
      BY <2>2, Undisturbing DEF WritersInv
  <1>8. QED
    BY <1>4, <1>5, <1>6, <1>7 DEF WritersInv

LEMMA WriterFails ==
  ASSUME WritersInv, NEW r \in Renders, Pooled!InWriteHtml(r), writing' = [writing EXCEPT ![r] = TRUE],
         UNCHANGED <<environment, phase, thread, frames, textWriter, saved, late, cached, used, pipe, memory,
                     tracker, pool, inner, written, rendered>>
  PROVE  WritersInv'
  <1>1. Pooled!TypeOK' /\ CachedInv'
    BY DEF WritersInv, Pooled!TypeOK, CachedInv
  <1>2. phase[r] = "running" /\ late[r] = Nothing
    BY DEF Pooled!InWriteHtml, Pooled!Running, WritersInv, RenderStateInv, FrameWriterInv
  <1>3. RenderStateInv(r)'
    <2>1. FrameWriterInv(r)'
      BY DEF WritersInv, RenderStateInv, FrameWriterInv, Pooled!PipeOf
    <2>2. writing'[r] /\ late'[r] = Nothing
      BY <1>2 DEF WritersInv, Pooled!TypeOK
    <2>3. SavedInv(r)' /\ LateInv(r)' /\ TrackerInv(r)'
      BY <1>2, <2>2 DEF WritersInv, RenderStateInv, SavedInv, LateInv, TrackerInv
    <2>4. TextInv(r)'
      BY <2>2 DEF WritersInv, RenderStateInv, TextInv
    <2>5. QED
      BY <2>1, <2>3, <2>4 DEF RenderStateInv
  <1>4. ASSUME NEW q \in Renders, q # r PROVE RenderStateInv(q)'
    <2>1. Undisturbed(q)
      BY <1>4 DEF WritersInv, Pooled!TypeOK, RenderStateInv, FrameWriterInv, TrackerInv, Undisturbed
    <2>2. QED
      BY <2>1, Undisturbing DEF WritersInv
  <1>5. QED
    BY <1>1, <1>3, <1>4 DEF WritersInv

LEMMA LateEnds ==
  ASSUME WritersInv, NEW r \in Renders, Pooled!LateEnd(r), UNCHANGED environment
  PROVE  WritersInv'
  <1>1. /\ late[r] # Nothing /\ late' = [late EXCEPT ![r] = Nothing]
        /\ UNCHANGED <<environment, phase, thread, frames, writing, textWriter, saved, cached, used, pipe, memory,
                       tracker, pool, inner, written, rendered>>
    BY DEF Pooled!LateEnd, Pooled!writerVars, Pooled!trackerVars
  <1>2. Pooled!TypeOK' /\ CachedInv'
    BY <1>1 DEF WritersInv, Pooled!TypeOK, CachedInv
  <1>3. writing[r] /\ frames[r] = <<>> /\ late'[r] = Nothing
    BY <1>1 DEF WritersInv, Pooled!TypeOK, RenderStateInv, LateInv
  <1>4. RenderStateInv(r)'
    <2>1. FrameWriterInv(r)' /\ SavedInv(r)' /\ LateInv(r)' /\ TrackerInv(r)'
      BY <1>1, <1>3 DEF WritersInv, RenderStateInv, FrameWriterInv, SavedInv, LateInv, TrackerInv
    <2>2. TextInv(r)'
      BY <1>1, <1>3 DEF WritersInv, RenderStateInv, TextInv
    <2>3. QED
      BY <2>1, <2>2 DEF RenderStateInv
  <1>5. ASSUME NEW q \in Renders, q # r PROVE RenderStateInv(q)'
    <2>1. Undisturbed(q)
      BY <1>1, <1>5 DEF WritersInv, Pooled!TypeOK, RenderStateInv, FrameWriterInv, TrackerInv, Undisturbed
    <2>2. QED
      BY <2>1, Undisturbing DEF WritersInv
  <1>6. QED
    BY <1>2, <1>4, <1>5 DEF WritersInv

LEMMA TemplateWrites ==
  ASSUME WritersInv, NEW r \in Renders, Pooled!WriteToPipe(r), UNCHANGED environment
  PROVE  WritersInv'
  <1> DEFINE piece == [by |-> r, n |-> written[r] + 1]
  <1>1. /\ phase[r] = "running" /\ ~writing[r] /\ frames[r] = <<>>
        /\ written[r] < MaxPieces /\ written' = [written EXCEPT ![r] = @ + 1]
        /\ UNCHANGED <<environment, phase, thread, frames, writing, textWriter, saved, late, cached, used, pipe, memory,
                       tracker, pool, inner>>
    BY DEF Pooled!WriteToPipe, Pooled!Running, Pooled!NextPiece, Pooled!renderVars, Pooled!writerVars, Pooled!trackerVars
  <1>2. rendered' = [rendered EXCEPT ![r] = Append(@, piece)]
    BY PipeFacts DEF Pooled!WriteToPipe, Pooled!Piece
  <1>3. written[r] \in Nat /\ rendered[r] \in Seq(Pooled!Pieces) /\ Held(r) = <<>> /\ late[r] = Nothing
        /\ rendered[r] \o Held(r) = Text(r, written[r])
    BY <1>1, WholeSoFar DEF WritersInv, RenderStateInv, LateInv, Held
  <1>4. piece \in Pooled!Pieces /\ written[r] + 1 \in 0..MaxPieces
    BY <1>1, <1>3, WritersAssumption DEF Pooled!Pieces
  <1>5. Pooled!TypeOK'
    <2>1. rendered' \in [Renders -> Seq(Pooled!Pieces)]
      BY <1>2, <1>4 DEF WritersInv, Pooled!TypeOK
    <2>2. written' \in [Renders -> 0..MaxPieces]
      BY <1>1, <1>4 DEF WritersInv, Pooled!TypeOK
    <2>3. QED
      BY <1>1, <2>1, <2>2 DEF WritersInv, Pooled!TypeOK
  <1>6. CachedInv'
    BY <1>1 DEF WritersInv, CachedInv
  <1>7. RenderStateInv(r)'
    <2>1. rendered'[r] = Text(r, written[r] + 1)
      <3>1. rendered[r] = Text(r, written[r]) /\ rendered'[r] = Append(rendered[r], piece)
        BY <1>2, <1>3 DEF WritersInv, Pooled!TypeOK
      <3>2. QED
        BY <1>3, <3>1, TextFacts
    <2>2. written'[r] = written[r] + 1 /\ written'[r] \in 0..written'[r]
      BY <1>1, <1>3 DEF WritersInv, Pooled!TypeOK
    <2>3. TextInv(r)'
      <3>1. Held(r)' = <<>>
        BY <1>1, <1>3 DEF Held
      <3>2. rendered'[r] \o <<>> = rendered'[r]
        BY <1>5 DEF Pooled!TypeOK
      <3>3. QED
        BY <2>1, <2>2, <3>1, <3>2 DEF TextInv
    <2>4. FrameWriterInv(r)' /\ SavedInv(r)' /\ LateInv(r)' /\ TrackerInv(r)'
      <3>1. FrameWriterInv(r)'
        BY <1>1 DEF FrameWriterInv
      <3>2. SavedInv(r)' /\ LateInv(r)' /\ TrackerInv(r)'
        BY <1>1 DEF WritersInv, RenderStateInv, SavedInv, LateInv, TrackerInv
      <3>3. QED
        BY <3>1, <3>2
    <2>5. QED
      BY <2>3, <2>4 DEF RenderStateInv
  <1>8. ASSUME NEW q \in Renders, q # r PROVE RenderStateInv(q)'
    <2>1. Undisturbed(q)
      BY <1>1, <1>2, <1>8 DEF WritersInv, Pooled!TypeOK, RenderStateInv, FrameWriterInv, TrackerInv, Undisturbed
    <2>2. QED
      BY <2>1, Undisturbing DEF WritersInv
  <1>9. QED
    BY <1>5, <1>6, <1>7, <1>8 DEF WritersInv

\* The writer that a render, or its rejected delegate, writes to is its own.
LEMMA OwnWriter ==
  ASSUME WritersInv, NEW r \in Renders, NEW w,
         \/ frames[r] # <<>> /\ w = frames[r][1].writer
         \/ late[r] # Nothing /\ w = late[r]
  PROVE  /\ w \in Writers /\ w \in used /\ (pipe[w] # Nothing => Pooled!Behind(pipe[w]) = r)
         /\ Held(r) = memory[w]
         /\ \A q \in Renders : q # r =>
               /\ frames[q] # <<>> => frames[q][1].writer # w
               /\ late[q] # Nothing => late[q] # w
  <1>1. FrameWriterInv(r) /\ LateInv(r)
    BY DEF WritersInv, RenderStateInv
  <1>2. w \in used /\ used \subseteq Writers
    BY <1>1 DEF FrameWriterInv, LateInv, WritersInv, Pooled!TypeOK
  <1>3. pipe[w] # Nothing => Pooled!Behind(pipe[w]) = r
    BY <1>1, PipeFacts DEF FrameWriterInv, LateInv
  <1>4. Held(r) = memory[w]
    BY <1>1 DEF LateInv, Held
  <1>5. ASSUME NEW q \in Renders, q # r
        PROVE  /\ frames[q] # <<>> => frames[q][1].writer # w
               /\ late[q] # Nothing => late[q] # w
    <2>1. CASE frames[r] # <<>> /\ w = frames[r][1].writer
      BY <1>5, <2>1, WritersDiffer
    <2>2. CASE late[r] # Nothing /\ w = late[r]
      BY <1>5, <2>2, WritersDiffer
    <2>3. QED
      BY <2>1, <2>2
  <1>6. QED
    BY <1>2, <1>3, <1>4, <1>5

\* Writing to the buffer, and flushing it.
LEMMA BufferWritten ==
  ASSUME WritersInv, NEW r \in Renders, NEW w, ~writing[r] \/ late[r] # Nothing,
         \/ frames[r] # <<>> /\ w = frames[r][1].writer
         \/ late[r] # Nothing /\ w = late[r],
         pipe[w] # Nothing, NEW n \in Nat, n <= MaxPieces, written' = [written EXCEPT ![r] = n], written[r] <= n,
         UNCHANGED <<environment, phase, thread, frames, writing, textWriter, saved, late, cached, used, pipe,
                     tracker, pool, inner>>,
         \A v \in Writers : v # w => memory'[v] = memory[v], memory' \in [Writers -> Seq(Pooled!Pieces)],
         \A q \in Renders : q # r => rendered'[q] = rendered[q], rendered' \in [Renders -> Seq(Pooled!Pieces)],
         rendered'[r] \o memory'[w] = Text(r, n),
         phase[r] # "new"
  PROVE  WritersInv'
  <1>1. Pooled!TypeOK'
    <2>1. written' \in [Renders -> 0..MaxPieces]
      BY WritersAssumption DEF WritersInv, Pooled!TypeOK
    <2>2. QED
      BY <2>1 DEF WritersInv, Pooled!TypeOK
  <1>2. w \in Writers
    BY OwnWriter
  <1>3. CachedInv'
    BY <1>2 DEF WritersInv, CachedInv
  <1>4. RenderStateInv(r)'
    <2>1. written'[r] = n
      BY DEF WritersInv, Pooled!TypeOK
    <2>2. Held(r)' = memory'[w]
      BY DEF WritersInv, RenderStateInv, LateInv, Held
    <2>3. \E k \in 0..n : rendered'[r] = Text(r, k)
      <3>1. rendered'[r] \in Seq(Pooled!Pieces) /\ memory'[w] \in Seq(Pooled!Pieces)
        BY <1>2
      <3>2. QED
        BY <3>1, Beginning
    <2>4. TextInv(r)'
      BY <2>1, <2>2, <2>3 DEF TextInv
    <2>5. FrameWriterInv(r)' /\ SavedInv(r)' /\ LateInv(r)' /\ TrackerInv(r)'
      <3>1. FrameWriterInv(r)'
        BY DEF WritersInv, RenderStateInv, FrameWriterInv, Pooled!PipeOf
      <3>2. SavedInv(r)' /\ LateInv(r)'
        BY DEF WritersInv, RenderStateInv, SavedInv, LateInv
      <3>3. TrackerInv(r)'
        BY DEF WritersInv, RenderStateInv, TrackerInv
      <3>4. QED
        BY <3>1, <3>2, <3>3
    <2>6. QED
      BY <2>4, <2>5 DEF RenderStateInv
  <1>5. ASSUME NEW q \in Renders, q # r PROVE RenderStateInv(q)'
    <2>1. /\ frames[q] # <<>> => frames[q][1].writer \in Writers /\ frames[q][1].writer # w
          /\ late[q] # Nothing => late[q] \in Writers /\ late[q] # w
      BY <1>5, OwnWriter
    <2>2. Undisturbed(q)
      BY <1>5, <2>1, SMTT(30) DEF WritersInv, Pooled!TypeOK, RenderStateInv, FrameWriterInv, TrackerInv, Undisturbed
    <2>3. QED
      BY <2>2, Undisturbing DEF WritersInv
  <1>6. QED
    BY <1>1, <1>3, <1>4, <1>5 DEF WritersInv

LEMMA TextWritten ==
  ASSUME WritersInv, NEW r \in Renders, NEW w, ~writing[r] \/ late[r] # Nothing, phase[r] # "new",
         \/ frames[r] # <<>> /\ w = frames[r][1].writer
         \/ late[r] # Nothing /\ w = late[r],
         Pooled!NextPiece(r), Pooled!WriteToBuffer(w, Pooled!Piece(r)),
         UNCHANGED <<environment, phase, thread, frames, writing, textWriter, saved, late, tracker, pool, inner>>
  PROVE  WritersInv'
  <1> DEFINE piece == [by |-> r, n |-> written[r] + 1]
  <1>1. /\ written[r] < MaxPieces /\ written' = [written EXCEPT ![r] = written[r] + 1]
        /\ pipe[w] # Nothing /\ UNCHANGED <<cached, used, pipe>>
    BY DEF Pooled!NextPiece, Pooled!WriteToBuffer
  <1>2. w \in Writers /\ Pooled!Behind(pipe[w]) = r /\ Held(r) = memory[w]
    BY <1>1, OwnWriter
  <1>3. \/ memory' = [memory EXCEPT ![w] = Append(@, piece)] /\ rendered' = rendered
        \/ /\ rendered' = [rendered EXCEPT ![r] = @ \o memory[w]]
           /\ memory' = [memory EXCEPT ![w] = <<piece>>]
    BY <1>2 DEF Pooled!WriteToBuffer, Pooled!Piece
  <1>4. /\ written[r] \in Nat /\ rendered[r] \in Seq(Pooled!Pieces) /\ memory[w] \in Seq(Pooled!Pieces)
        /\ rendered[r] \o memory[w] = Text(r, written[r])
    BY <1>2, WholeSoFar
  <1>5. piece \in Pooled!Pieces /\ written[r] + 1 \in Nat /\ written[r] + 1 <= MaxPieces /\ written[r] <= written[r] + 1
    BY <1>1, <1>4, WritersAssumption DEF Pooled!Pieces
  <1>6. /\ rendered[r] \o Append(memory[w], piece) = Text(r, written[r] + 1)
        /\ (rendered[r] \o memory[w]) \o <<piece>> = Text(r, written[r] + 1)
        /\ rendered[r] \o memory[w] \in Seq(Pooled!Pieces)
    <2> DEFINE o == rendered[r]
               m == memory[w]
               t == Text(r, written[r])
               p == piece
    <2>1. /\ o \in Seq(Pooled!Pieces) /\ m \in Seq(Pooled!Pieces) /\ t = o \o m
          /\ p \in Pooled!Pieces
      BY <1>4, <1>5
    <2>2. Append(t, p) = Text(r, written[r] + 1)
      BY <1>4, TextFacts
    <2> HIDE DEF t, o, m, p
    <2>3. /\ o \o Append(m, p) = Append(t, p)
          /\ (o \o m) \o <<p>> = Append(t, p)
          /\ o \o m \in Seq(Pooled!Pieces)
      BY <2>1, Appended
    <2>4. QED
      BY <2>2, <2>3 DEF t, o, m, p
  <1>7. CASE memory' = [memory EXCEPT ![w] = Append(@, piece)] /\ rendered' = rendered
    <2>1. memory' \in [Writers -> Seq(Pooled!Pieces)] /\ memory'[w] = Append(memory[w], piece)
      BY <1>2, <1>4, <1>5, <1>7 DEF WritersInv, Pooled!TypeOK
    <2>2. rendered' \in [Renders -> Seq(Pooled!Pieces)] /\ rendered'[r] \o memory'[w] = Text(r, written[r] + 1)
      BY <1>6, <1>7, <2>1 DEF WritersInv, Pooled!TypeOK
    <2>3. \A v \in Writers : v # w => memory'[v] = memory[v]
      BY <1>7 DEF WritersInv, Pooled!TypeOK
    <2>4. QED
      BY <1>1, <1>5, <1>7, <2>1, <2>2, <2>3, BufferWritten
  <1>8. CASE /\ rendered' = [rendered EXCEPT ![r] = @ \o memory[w]]
             /\ memory' = [memory EXCEPT ![w] = <<piece>>]
    <2>1. memory' \in [Writers -> Seq(Pooled!Pieces)] /\ memory'[w] = <<piece>>
      BY <1>2, <1>5, <1>8 DEF WritersInv, Pooled!TypeOK
    <2>3. rendered' \in [Renders -> Seq(Pooled!Pieces)] /\ rendered'[r] = rendered[r] \o memory[w]
      BY <1>6, <1>8 DEF WritersInv, Pooled!TypeOK
    <2>4. rendered'[r] \o memory'[w] = Text(r, written[r] + 1)
      BY <1>6, <2>1, <2>3
    <2>5. /\ \A v \in Writers : v # w => memory'[v] = memory[v]
          /\ \A q \in Renders : q # r => rendered'[q] = rendered[q]
      BY <1>8 DEF WritersInv, Pooled!TypeOK
    <2>6. QED
      BY <1>1, <1>5, <2>1, <2>3, <2>4, <2>5, BufferWritten, ZenonT(30)
  <1>9. QED
    BY <1>3, <1>7, <1>8

LEMMA LateFlushes ==
  ASSUME WritersInv, NEW r \in Renders, Pooled!LateFlush(r), UNCHANGED environment
  PROVE  WritersInv'
  <1> DEFINE w == late[r]
  <1>1. /\ late[r] # Nothing /\ Pooled!Behind(pipe[w]) # Nothing /\ memory' = [memory EXCEPT ![w] = <<>>]
        /\ rendered' = [rendered EXCEPT ![Pooled!Behind(pipe[w])] = @ \o memory[w]]
        /\ UNCHANGED <<environment, phase, thread, frames, writing, textWriter, saved, late, cached, used, pipe,
                       tracker, pool, inner, written>>
    BY DEF Pooled!LateFlush, Pooled!renderVars, Pooled!trackerVars
  <1>2. pipe[w] # Nothing /\ w \in Writers /\ Pooled!Behind(pipe[w]) = r /\ Held(r) = memory[w]
    BY <1>1, OwnWriter, PipeFacts
  <1>3. writing[r] /\ phase[r] # "new"
    BY <1>1 DEF WritersInv, RenderStateInv, LateInv, TrackerInv
  <1>4. /\ written[r] \in Nat /\ rendered[r] \in Seq(Pooled!Pieces) /\ memory[w] \in Seq(Pooled!Pieces)
        /\ Text(r, written[r]) = rendered[r] \o memory[w] /\ written[r] <= MaxPieces
    BY <1>1, <1>2, WholeSoFar, WritersAssumption, SMTT(30) DEF WritersInv, Pooled!TypeOK
  <1>5. rendered[r] \o memory[w] \in Seq(Pooled!Pieces) /\ (rendered[r] \o memory[w]) \o <<>> = Text(r, written[r])
    <2> DEFINE o == rendered[r]
               m == memory[w]
               t == Text(r, written[r])
    <2>1. o \in Seq(Pooled!Pieces) /\ m \in Seq(Pooled!Pieces) /\ t = o \o m
      BY <1>4
    <2> HIDE DEF o, m, t
    <2>2. o \o m \in Seq(Pooled!Pieces)
      BY <2>1
    <2>3. (o \o m) \o <<>> = t
      BY <2>1, <2>2
    <2>4. QED
      BY <2>2, <2>3 DEF o, m, t
  <1>6. memory' \in [Writers -> Seq(Pooled!Pieces)] /\ memory'[w] = <<>> /\ \A v \in Writers : v # w => memory'[v] = memory[v]
    BY <1>1, <1>2 DEF WritersInv, Pooled!TypeOK
  <1>7. /\ rendered' \in [Renders -> Seq(Pooled!Pieces)] /\ rendered'[r] = rendered[r] \o memory[w]
        /\ \A q \in Renders : q # r => rendered'[q] = rendered[q]
    BY <1>1, <1>2, <1>5 DEF WritersInv, Pooled!TypeOK
  <1>8. written' = [written EXCEPT ![r] = written[r]]
    BY <1>1 DEF WritersInv, Pooled!TypeOK
  <1>9. rendered'[r] \o memory'[w] = Text(r, written[r])
    BY <1>5, <1>6, <1>7
  <1>10. written[r] <= written[r]
    BY <1>4
  <1> HIDE DEF w
  <1>11. QED
    BY <1>1, <1>2, <1>3, <1>4, <1>6, <1>7, <1>8, <1>9, <1>10, BufferWritten, ZenonT(30) DEF w

\* The first call of WriteHtml takes a writer that nobody has.
LEMMA FirstBegins ==
  ASSUME WritersInv, NEW r \in Renders, NEW t \in Threads, NEW kind \in {"content", "delegate"}, NEW w \in Writers,
         phase[r] = "running", ~writing[r], frames[r] = <<>>, Pooled!Idle(t),
         IF cached[t] = Nothing THEN w \notin used ELSE w = cached[t],
         cached' = [cached EXCEPT ![t] = Nothing], used' = used \cup {w},
         pipe' = [pipe EXCEPT ![w] = Pooled!PipeOf(r)], thread' = [thread EXCEPT ![r] = t],
         frames' = [frames EXCEPT ![r] = Append(@, [writer |-> w, kind |-> kind])],
         \/ kind = "content" /\ UNCHANGED <<textWriter, saved>>
         \/ /\ kind = "delegate"
            /\ saved' = [saved EXCEPT ![r] = Append(@, textWriter[r])]
            /\ textWriter' = [textWriter EXCEPT ![r] = w],
         UNCHANGED <<environment, phase, writing, late, memory, tracker, pool, inner, written, rendered>>
  PROVE  WritersInv'
  <1> DEFINE f == [writer |-> w, kind |-> kind]
  <1>1. textWriter[r] = Nothing /\ saved[r] = <<>> /\ late[r] = Nothing
    BY DEF WritersInv, RenderStateInv, SavedInv, LateInv
  <1>2. Pooled!PipeOf(r) \in Renders \cup Trackers /\ Pooled!PipeOf(r) # Nothing
    BY PipeFacts
  <1>3. pipe[w] = Nothing /\ memory[w] = <<>>
    BY DEF WritersInv, CachedInv
  <1>4. \A u \in Threads : u # t => cached[u] # w
    BY WritersAssumption DEF WritersInv, CachedInv, Pooled!TypeOK
  <1>5. \A q \in Renders : thread[q] # t
    BY DEF Pooled!Idle
  <1>6. ASSUME NEW q \in Renders
        PROVE  /\ frames[q] # <<>> => frames[q][1].writer # w /\ thread[q] \in Threads
               /\ late[q] # Nothing => late[q] # w
    <2>1. FrameWriterInv(q) /\ LateInv(q)
      BY DEF WritersInv, RenderStateInv
    <2>2. late[q] # Nothing => late[q] # w
      BY <1>3, <2>1, WritersAssumption DEF LateInv
    <2>3. ASSUME frames[q] # <<>>, frames[q][1].writer = w PROVE FALSE
      <3>1. w \in used /\ thread[q] \in Threads /\ cached[thread[q]] = w
        BY <1>3, <2>1, <2>3, PipeFacts DEF FrameWriterInv
      <3>2. QED
        BY <1>4, <1>5, <3>1
    <2>4. QED
      BY <2>1, <2>2, <2>3 DEF FrameWriterInv
  <1>7. frames'[r] = <<f>> /\ frames' \in [Renders -> Seq(Pooled!Frames)] /\ \A q \in Renders : q # r => frames'[q] = frames[q]
    BY DEF WritersInv, Pooled!TypeOK, Pooled!Frames
  <1>8. /\ textWriter' \in [Renders -> Writers \cup {Nothing}] /\ saved' \in [Renders -> Seq(Writers \cup {Nothing})]
        /\ \A q \in Renders : q # r => textWriter'[q] = textWriter[q] /\ saved'[q] = saved[q]
        /\ IF kind = "content" THEN textWriter'[r] = Nothing /\ saved'[r] = <<>>
           ELSE textWriter'[r] = w /\ saved'[r] = <<Nothing>>
    <2>1. Append(<<>>, Nothing) = <<Nothing>>
      OBVIOUS
    <2>2. CASE kind = "content" /\ UNCHANGED <<textWriter, saved>>
      BY <1>1, <2>2 DEF WritersInv, Pooled!TypeOK
    <2>3. CASE kind = "delegate" /\ saved' = [saved EXCEPT ![r] = Append(@, textWriter[r])]
                                /\ textWriter' = [textWriter EXCEPT ![r] = w]
      <3>1. saved' = [saved EXCEPT ![r] = <<Nothing>>]
        BY <1>1, <2>1, <2>3
      <3>2. <<Nothing>> \in Seq(Writers \cup {Nothing})
        OBVIOUS
      <3>3. QED
        BY <2>3, <3>1, <3>2, ZenonT(30) DEF WritersInv, Pooled!TypeOK
    <2>4. QED
      BY <2>2, <2>3
  <1>9. thread'[r] = t /\ thread' \in [Renders -> Threads \cup {Nothing}] /\ t # Nothing /\ \A q \in Renders : q # r => thread'[q] = thread[q]
    <2>1. t # Nothing
      BY WritersAssumption
    <2>2. QED
      BY <2>1 DEF WritersInv, Pooled!TypeOK
  <1>10. /\ pipe'[w] = Pooled!PipeOf(r) /\ pipe' \in [Writers -> Renders \cup Trackers \cup {Nothing}]
         /\ \A v \in Writers : v # w => pipe'[v] = pipe[v]
    BY <1>2 DEF WritersInv, Pooled!TypeOK
  <1>11. cached'[t] = Nothing /\ cached' \in [Threads -> used' \cup {Nothing}] /\ \A u \in Threads : u # t => cached'[u] = cached[u]
    BY DEF WritersInv, Pooled!TypeOK
  <1>12. used' \subseteq Writers
    BY DEF WritersInv, Pooled!TypeOK
  <1>13. Pooled!TypeOK'
    <2>1. \A q \in Renders : (thread'[q] = Nothing <=> frames'[q] = <<>>) /\ (phase'[q] # "running" => frames'[q] = <<>> /\ tracker'[q] = Nothing)
      BY <1>7, <1>9 DEF WritersInv, Pooled!TypeOK
    <2>2. QED
      BY <1>7, <1>8, <1>9, <1>10, <1>11, <1>12, <2>1 DEF WritersInv, Pooled!TypeOK
  <1>14. CachedInv'
    <2>1. \A v \in Writers : (pipe'[v] = Nothing => memory'[v] = <<>>) /\ (v \notin used' => pipe'[v] = Nothing)
      BY <1>2, <1>10 DEF WritersInv, CachedInv
    <2>2. \A u \in Threads : cached'[u] # Nothing => cached'[u] \in Writers /\ pipe'[cached'[u]] = Nothing
      BY <1>4, <1>10, <1>11, <1>12 DEF WritersInv, CachedInv
    <2>3. \A u, v \in Threads : cached'[u] # Nothing /\ v # u => cached'[v] # cached'[u]
      BY <1>11 DEF WritersInv, CachedInv
    <2>4. QED
      BY <2>1, <2>2, <2>3 DEF CachedInv
  <1>15. RenderStateInv(r)'
    <2>1. Pooled!PipeOf(r)' = Pooled!PipeOf(r)
      BY DEF Pooled!PipeOf
    <2>2. FrameWriterInv(r)'
      BY <1>1, <1>5, <1>7, <1>9, <1>10, <2>1 DEF FrameWriterInv
    <2>3. SavedInv(r)'
      BY <1>7, <1>8 DEF SavedInv
    <2>4. LateInv(r)' /\ TrackerInv(r)'
      BY <1>1 DEF WritersInv, RenderStateInv, LateInv, TrackerInv
    <2>5. TextInv(r)'
      <3>1. Held(r) = <<>> /\ Held(r)' = <<>>
        BY <1>1, <1>3, <1>7 DEF Held
      <3>2. QED
        BY <1>1, <3>1 DEF WritersInv, RenderStateInv, TextInv
    <2>6. QED
      BY <2>2, <2>3, <2>4, <2>5 DEF RenderStateInv
  <1>16. ASSUME NEW q \in Renders, q # r PROVE RenderStateInv(q)'
    <2>1. /\ frames[q] # <<>> => frames[q][1].writer \in Writers /\ frames[q][1].writer # w /\ thread[q] \in Threads /\ thread[q] # t
          /\ late[q] # Nothing => late[q] \in Writers /\ late[q] # w
      BY <1>5, <1>6, OwnWriter
    <2>2. frames[q] # <<>> => \A p \in Renders : p # q => thread'[p] # thread[q]
      BY <1>9, <2>1 DEF WritersInv, RenderStateInv, FrameWriterInv
    <2>3. tracker[q] # Nothing => tracker[q] \notin pool
      BY DEF WritersInv, RenderStateInv, TrackerInv
    <2>4. Undisturbed(q)
      BY <1>7, <1>8, <1>9, <1>10, <1>11, <1>16, <2>1, <2>2, <2>3 DEF Undisturbed
    <2>5. QED
      BY <2>4, Undisturbing DEF WritersInv
  <1>17. QED
    BY <1>13, <1>14, <1>15, <1>16 DEF WritersInv

\* A sequence of one element, and one of two.
LEMMA OneElement ==
  ASSUME NEW S, NEW s \in Seq(S), s # <<>>, Len(s) < 2
  PROVE  Len(s) = 1 /\ s[1] \in S /\ s = <<s[1]>> /\ s[Len(s)] = s[1]
  <1>1. Len(s) = 1
    <2>1. Len(s) \in Nat
      OBVIOUS
    <2>2. Len(s) # 0
      BY EmptySeq, Zenon
    <2>3. \A n \in Nat : n # 0 /\ n < 2 => n = 1
      OBVIOUS
    <2>4. QED
      BY <2>1, <2>2, <2>3, Zenon
  <1>2. QED
    BY <1>1

LEMMA TwoElements ==
  ASSUME NEW S, NEW a \in S, NEW b \in S
  PROVE  /\ <<a>> \in Seq(S) /\ <<a, b>> \in Seq(S) /\ Append(<<a>>, b) = <<a, b>>
         /\ Len(<<a, b>>) = 2 /\ <<a, b>> # <<>> /\ <<a, b>>[1] = a /\ <<a, b>>[2] = b
         /\ SubSeq(<<a, b>>, 1, 2 - 1) = <<a>> /\ SubSeq(<<a>>, 1, 1 - 1) = <<>>
  <1>1. <<a>> \in Seq(S)
    OBVIOUS
  <1>7. <<a, b>> \in Seq(S)
    OBVIOUS
  <1>2. Append(<<a>>, b) = <<a, b>>
    <2> DEFINE s == Append(<<a>>, b)
    <2>1. s \in Seq(S) /\ Len(s) = 2 /\ s[1] = a /\ s[2] = b
      BY <1>1, AppendProperties
    <2> HIDE DEF s
    <2>2. s = <<s[1], s[2]>>
      BY <2>1
    <2>3. QED
      BY <2>1, <2>2 DEF s
  <1>3. Len(<<a, b>>) = 2 /\ <<a, b>> # <<>> /\ <<a, b>>[1] = a /\ <<a, b>>[2] = b
    <2>1. Len(<<a, b>>) = 2 /\ <<a, b>>[1] = a /\ <<a, b>>[2] = b
      OBVIOUS
    <2>2. <<a, b>> # <<>>
      BY <2>1, <1>7, EmptySeq
    <2>3. QED
      BY <2>1, <2>2
  <1>4. SubSeq(<<a, b>>, 1, 2 - 1) = <<a>>
    <2>0. 2 - 1 = 1
      OBVIOUS
    <2>1. SubSeq(<<a, b>>, 1, 1) \in Seq(S) /\ Len(SubSeq(<<a, b>>, 1, 1)) = 1 /\ SubSeq(<<a, b>>, 1, 1)[1] = a
      BY <1>7, <1>3
    <2>2. SubSeq(<<a, b>>, 1, 1) # <<>>
      BY <2>1, EmptySeq
    <2>3. SubSeq(<<a, b>>, 1, 1) = <<a>>
      <3> DEFINE s == SubSeq(<<a, b>>, 1, 1)
      <3>1. s \in Seq(S) /\ Len(s) = 1 /\ s[1] = a
        BY <2>1
      <3> HIDE DEF s
      <3>2. s = <<s[1]>>
        BY <3>1
      <3>3. QED
        BY <3>1, <3>2 DEF s
    <2>4. QED
      BY <2>0, <2>3
  <1>5. SubSeq(<<a>>, 1, 1 - 1) = <<>>
    <2>1. SubSeq(<<a>>, 1, 0) = <<>>
      BY <1>1
    <2>2. 1 - 1 = 0
      OBVIOUS
    <2>3. QED
      BY <2>1, <2>2
  <1>6. QED
    BY <1>1, <1>7, <1>2, <1>3, <1>4, <1>5

LEMMA OneThenAnother ==
  ASSUME NEW S, NEW a \in S, NEW b \in S
  PROVE  <<a, b>> \in Seq(S) /\ Append(<<a>>, b) = <<a, b>>
  BY TwoElements

\* A nested call, inside a templated delegate, shares the writer of its render.
LEMMA NestedBegins ==
  ASSUME WritersInv, NEW r \in Renders, NEW t \in Threads, NEW kind \in {"content", "delegate"}, NEW w,
         phase[r] = "running", ~writing[r], frames[r] # <<>>, environment.nested, thread[r] = t,
         Pooled!Top(r).kind = "delegate", Len(frames[r]) < 2, w = textWriter[r],
         thread' = [thread EXCEPT ![r] = t],
         frames' = [frames EXCEPT ![r] = Append(@, [writer |-> w, kind |-> kind])],
         \/ kind = "content" /\ UNCHANGED <<textWriter, saved>>
         \/ /\ kind = "delegate"
            /\ saved' = [saved EXCEPT ![r] = Append(@, textWriter[r])]
            /\ textWriter' = [textWriter EXCEPT ![r] = w],
         UNCHANGED <<environment, phase, writing, late, cached, used, pipe, memory, tracker, pool, inner, written, rendered>>
  PROVE  WritersInv'
  <1> DEFINE f == [writer |-> w, kind |-> kind]
             g == frames[r][1]
  <1>1. Len(frames[r]) = 1 /\ frames[r] \in Seq(Pooled!Frames) /\ g \in Pooled!Frames
        /\ frames[r] = <<g>> /\ g.kind = "delegate"
    <2>1. frames[r] \in Seq(Pooled!Frames)
      BY DEF WritersInv, Pooled!TypeOK
    <2>2. QED
      BY <2>1, OneElement DEF Pooled!Top
  <1>2. w = g.writer /\ w \in Writers /\ w # Nothing /\ saved[r] = <<Nothing>> /\ late[r] = Nothing
    BY <1>1, WritersAssumption DEF WritersInv, Pooled!TypeOK, RenderStateInv, SavedInv, FrameWriterInv, Pooled!Frames
  <1>3. f \in Pooled!Frames
    BY <1>2 DEF Pooled!Frames
  <1>4. frames' = [frames EXCEPT ![r] = <<g, f>>]
    <2> HIDE DEF f, g
    <2>1. Append(<<g>>, f) = <<g, f>>
      <3>1. g \in Pooled!Frames /\ f \in Pooled!Frames
        BY <1>1, <1>3
      <3>2. QED
        BY <3>1, OneThenAnother
    <2>2. QED
      BY <1>1, <2>1 DEF f
  <1>5. frames'[r] = <<g, f>> /\ frames' \in [Renders -> Seq(Pooled!Frames)]
        /\ \A q \in Renders : q # r => frames'[q] = frames[q]
    <2>0. frames \in [Renders -> Seq(Pooled!Frames)]
      BY DEF WritersInv, Pooled!TypeOK
    <2> HIDE DEF f, g
    <2>1. <<g, f>> \in Seq(Pooled!Frames)
      BY <1>1, <1>3, TwoElements
    <2>2. QED
      BY <1>4, <2>0, <2>1
  <1>6. thread' = thread
    BY DEF WritersInv, Pooled!TypeOK
  <1>7. textWriter' = textWriter
    BY DEF WritersInv, Pooled!TypeOK
  <1>8. /\ saved' \in [Renders -> Seq(Writers \cup {Nothing})]
        /\ \A q \in Renders : q # r => saved'[q] = saved[q]
        /\ IF kind = "content" THEN saved'[r] = <<Nothing>> ELSE saved'[r] = <<Nothing, w>>
    <2>1. CASE kind = "content" /\ saved' = saved
      BY <1>2, <2>1 DEF WritersInv, Pooled!TypeOK
    <2>2. CASE kind = "delegate" /\ saved' = [saved EXCEPT ![r] = Append(@, textWriter[r])]
      <3>1. <<Nothing, w>> \in Seq(Writers \cup {Nothing}) /\ Append(<<Nothing>>, w) = <<Nothing, w>>
        <4> DEFINE S == Writers \cup {Nothing}
        <4>1. Nothing \in S /\ w \in S
          BY <1>2
        <4> HIDE DEF S
        <4>2. <<Nothing, w>> \in Seq(S)
          BY <4>1, OneThenAnother
        <4>3. Append(<<Nothing>>, w) = <<Nothing, w>>
          BY <4>1, OneThenAnother
        <4>4. QED
          BY <4>2, <4>3 DEF S
      <3>2. saved' = [saved EXCEPT ![r] = <<Nothing, w>>]
        BY <1>2, <2>2, <3>1
      <3>3. saved \in [Renders -> Seq(Writers \cup {Nothing})]
        BY DEF WritersInv, Pooled!TypeOK
      <3>4. QED
        BY <2>2, <3>1, <3>2, <3>3
    <2>3. QED
      BY <2>1, <2>2
  <1>9. frames'[r] # <<>> /\ frames'[r][1] = g /\ frames'[r][2] = f /\ Len(frames'[r]) = 2
    BY <1>5
  <1>10. Pooled!TypeOK'
    <2>1. \A q \in Renders : (thread'[q] = Nothing <=> frames'[q] = <<>>) /\ (phase'[q] # "running" => frames'[q] = <<>> /\ tracker'[q] = Nothing)
      BY <1>5, <1>6, <1>9 DEF WritersInv, Pooled!TypeOK
    <2>2. QED
      BY <1>5, <1>6, <1>7, <1>8, <2>1 DEF WritersInv, Pooled!TypeOK
  <1>11. CachedInv'
    BY DEF WritersInv, CachedInv
  <1> HIDE DEF g
  <1>12. RenderStateInv(r)'
    <2>1. FrameWriterInv(r)'
      BY <1>1, <1>2, <1>6, <1>9 DEF g, WritersInv, RenderStateInv, FrameWriterInv, Pooled!PipeOf
    <2>2. SavedInv(r)'
      <3>1. textWriter'[r] = w
        BY <1>7
      <3>2. QED
        BY <1>1, <1>2, <1>8, <1>9, <3>1 DEF SavedInv
    <2>3. LateInv(r)' /\ TrackerInv(r)'
      BY <1>2 DEF WritersInv, RenderStateInv, LateInv, TrackerInv
    <2>4. TextInv(r)'
      <3>1. Held(r)' = Held(r)
        BY <1>9 DEF Held, g
      <3>2. QED
        BY <3>1 DEF WritersInv, RenderStateInv, TextInv
    <2>5. QED
      BY <2>1, <2>2, <2>3, <2>4 DEF RenderStateInv
  <1>13. ASSUME NEW q \in Renders, q # r PROVE RenderStateInv(q)'
    <2>1. Undisturbed(q)
      BY <1>5, <1>6, <1>7, <1>8, <1>13 DEF WritersInv, RenderStateInv, FrameWriterInv, TrackerInv, Undisturbed
    <2>2. QED
      BY <2>1, Undisturbing DEF WritersInv
  <1>14. QED
    BY <1>10, <1>11, <1>12, <1>13 DEF WritersInv

LEMMA WriteHtmlBegins ==
  ASSUME WritersInv, NEW r \in Renders, NEW t \in Threads, NEW kind \in {"content", "delegate"},
         Pooled!BeginWriteHtml(r, t, kind), UNCHANGED environment
  PROVE  WritersInv'
  <1>1. PICK w \in Writers :
          /\ \/ /\ textWriter[r] # Nothing /\ w = textWriter[r]
                /\ UNCHANGED <<cached, used, pipe, memory>>
             \/ /\ textWriter[r] = Nothing
                /\ IF cached[t] = Nothing THEN w \notin used ELSE w = cached[t]
                /\ cached' = [cached EXCEPT ![t] = Nothing] /\ used' = used \cup {w}
                /\ pipe' = [pipe EXCEPT ![w] = Pooled!PipeOf(r)]
                /\ UNCHANGED memory
          /\ frames' = [frames EXCEPT ![r] = Append(@, [writer |-> w, kind |-> kind])]
          /\ \/ kind = "content" /\ UNCHANGED <<textWriter, saved>>
             \/ /\ kind = "delegate"
                /\ saved' = [saved EXCEPT ![r] = Append(@, textWriter[r])]
                /\ textWriter' = [textWriter EXCEPT ![r] = w]
    BY DEF Pooled!BeginWriteHtml, Pooled!writerVars
  <1>2. /\ phase[r] = "running" /\ ~writing[r] /\ thread' = [thread EXCEPT ![r] = t]
        /\ UNCHANGED <<phase, writing, late, tracker, pool, inner, written, rendered>>
        /\ \/ frames[r] = <<>> /\ Pooled!Idle(t)
           \/ environment.nested /\ frames[r] # <<>> /\ thread[r] = t /\ Pooled!Top(r).kind = "delegate"
              /\ Len(frames[r]) < 2
    BY DEF Pooled!BeginWriteHtml, Pooled!Running, Pooled!InWriteHtml, Pooled!trackerVars
  <1>3. CASE frames[r] = <<>>
    <2>1. textWriter[r] = Nothing
      BY <1>2, <1>3 DEF WritersInv, RenderStateInv, SavedInv
    <2>2. QED
      BY <1>1, <1>2, <1>3, <2>1, FirstBegins
  <1>4. CASE frames[r] # <<>>
    <2>1. frames[r] \in Seq(Pooled!Frames)
      BY DEF WritersInv, Pooled!TypeOK
    <2>2. frames[r][1].kind = "delegate" /\ frames[r][1].writer \in Writers
      <3>1. Len(frames[r]) < 2 /\ frames[r][Len(frames[r])].kind = "delegate"
        BY <1>2, <1>4 DEF Pooled!Top
      <3>2. frames[r][Len(frames[r])] = frames[r][1] /\ frames[r][1] \in Pooled!Frames
        BY <1>4, <2>1, <3>1, OneElement
      <3>3. QED
        BY <3>1, <3>2 DEF Pooled!Frames
    <2>3. textWriter[r] # Nothing
      BY <1>2, <1>4, <2>2, WritersAssumption DEF WritersInv, RenderStateInv, SavedInv
    <2>4. QED
      BY <1>1, <1>2, <1>4, <2>3, NestedBegins
  <1>5. QED
    BY <1>3, <1>4

LEMMA OneOfTwo ==
  ASSUME NEW S, NEW s \in Seq(S), Len(s) = 2
  PROVE  /\ s[1] \in S /\ s[2] \in S /\ s = <<s[1], s[2]>> /\ s[Len(s)] = s[2]
         /\ SubSeq(s, 1, Len(s) - 1) = <<s[1]>>
  <1>1. s[1] \in S /\ s[2] \in S /\ s = <<s[1], s[2]>> /\ s[Len(s)] = s[2]
    OBVIOUS
  <1>2. SubSeq(s, 1, Len(s) - 1) = <<s[1]>>
    <2> DEFINE a == s[1]
               b == s[2]
    <2>1. a \in S /\ b \in S /\ s = <<a, b>>
      BY <1>1
    <2>2. Len(s) - 1 = 2 - 1
      OBVIOUS
    <2> HIDE DEF a, b
    <2>3. SubSeq(<<a, b>>, 1, 2 - 1) = <<a>>
      BY <2>1, TwoElements
    <2>4. QED
      BY <2>1, <2>2, <2>3 DEF a
  <1>3. QED
    BY <1>1, <1>2

LEMMA TopWriter ==
  ASSUME WritersInv, NEW r \in Renders, frames[r] # <<>>
  PROVE  Pooled!Top(r).writer = frames[r][1].writer
  <1>1. FrameWriterInv(r) /\ frames[r] \in Seq(Pooled!Frames)
    BY DEF WritersInv, RenderStateInv, Pooled!TypeOK
  <1>2. CASE Len(frames[r]) < 2
    BY <1>1, <1>2, OneElement DEF Pooled!Top
  <1>3. CASE Len(frames[r]) = 2
    BY <1>1, <1>3 DEF FrameWriterInv, Pooled!Top
  <1>4. QED
    <2>1. Len(frames[r]) \in Nat
      BY <1>1
    <2>2. Len(frames[r]) <= 2
      BY <1>1 DEF FrameWriterInv
    <2>3. \A n \in Nat : n <= 2 => n < 2 \/ n = 2
      OBVIOUS
    <2>4. QED
      BY <1>2, <1>3, <2>1, <2>2, <2>3, Zenon

\* The innermost call of WriteHtml ends: it has the writer of the outermost.
LEMMA FramePopped ==
  ASSUME WritersInv, NEW r \in Renders, frames[r] # <<>>, Pooled!PopFrame(r)
  PROVE  /\ Pooled!Top(r).writer = frames[r][1].writer
         /\ \/ /\ Len(frames[r]) = 1 /\ Pooled!Top(r) = frames[r][1]
               /\ frames' = [frames EXCEPT ![r] = <<>>] /\ thread' = [thread EXCEPT ![r] = Nothing]
            \/ /\ Len(frames[r]) = 2 /\ Pooled!Top(r) = frames[r][2]
               /\ environment.nested /\ frames[r][1].kind = "delegate"
               /\ frames' = [frames EXCEPT ![r] = <<frames[r][1]>>] /\ thread' = thread
  <1>1. FrameWriterInv(r) /\ frames[r] \in Seq(Pooled!Frames)
    BY DEF WritersInv, RenderStateInv, Pooled!TypeOK
  <1>2. Len(frames[r]) = 1 \/ Len(frames[r]) = 2
    <2>1. Len(frames[r]) \in Nat /\ Len(frames[r]) # 0
      BY <1>1, EmptySeq
    <2>2. Len(frames[r]) <= 2
      BY <1>1 DEF FrameWriterInv
    <2>3. \A n \in Nat : n # 0 /\ n <= 2 => n = 1 \/ n = 2
      OBVIOUS
    <2>4. QED
      BY <2>1, <2>2, <2>3, Zenon
  <1>3. frames' = [frames EXCEPT ![r] = SubSeq(frames[r], 1, Len(frames[r]) - 1)]
    BY DEF Pooled!PopFrame
  <1>4. CASE Len(frames[r]) = 1
    <2>1. frames[r] = <<frames[r][1]>> /\ frames[r][1] \in Pooled!Frames /\ Pooled!Top(r) = frames[r][1]
      BY <1>1, <1>4 DEF Pooled!Top
    <2>2. SubSeq(frames[r], 1, Len(frames[r]) - 1) = <<>>
      BY <1>4, <2>1, TwoElements
    <2>3. QED
      BY <1>3, <1>4, <2>1, <2>2 DEF Pooled!PopFrame
  <1>5. CASE Len(frames[r]) = 2
    <2>1. Pooled!Top(r) = frames[r][2]
      BY <1>1, <1>5, OneOfTwo DEF Pooled!Top
    <2>2. SubSeq(frames[r], 1, Len(frames[r]) - 1) = <<frames[r][1]>> /\ Len(frames[r]) # 1
      BY <1>1, <1>5, OneOfTwo
    <2>3. frames[r][2].writer = frames[r][1].writer /\ environment.nested /\ frames[r][1].kind = "delegate"
      BY <1>1, <1>5 DEF FrameWriterInv
    <2>4. QED
      BY <1>3, <1>5, <2>1, <2>2, <2>3 DEF Pooled!PopFrame
  <1>6. QED
    BY <1>2, <1>4, <1>5

\* A call of WriteHtml ends, with or without an exception, and caches its writer.
LEMMA WriterReturned ==
  ASSUME WritersInv, NEW r \in Renders, frames[r] # <<>>, Pooled!PopFrame(r), NEW w, NEW t,
         w = frames[r][1].writer, t = thread[r],
         cached' = [cached EXCEPT ![t] = w], pipe' = [pipe EXCEPT ![w] = Nothing],
         memory' = [memory EXCEPT ![w] = <<>>],
         UNCHANGED <<environment, phase, writing, late, used, tracker, pool, inner, written>>,
         textWriter' \in [Renders -> Writers \cup {Nothing}], saved' \in [Renders -> Seq(Writers \cup {Nothing})],
         \A q \in Renders : q # r => UNCHANGED <<textWriter[q], saved[q], rendered[q]>>,
         rendered' \in [Renders -> Seq(Pooled!Pieces)],
         \E n \in 0..written[r] : rendered'[r] = Text(r, n),
         ~writing[r] => rendered'[r] = Text(r, written[r]),
         SavedInv(r)'
  PROVE  WritersInv'
  <1>1. /\ frames \in [Renders -> Seq(Pooled!Frames)] /\ thread \in [Renders -> Threads \cup {Nothing}]
        /\ pipe \in [Writers -> Renders \cup Trackers \cup {Nothing}]
        /\ memory \in [Writers -> Seq(Pooled!Pieces)] /\ cached \in [Threads -> used \cup {Nothing}] /\ used \subseteq Writers
    BY DEF WritersInv, Pooled!TypeOK
  <1>2. /\ phase[r] = "running" /\ t \in Threads /\ late[r] = Nothing /\ w \in used
        /\ \A q \in Renders : q # r => thread[q] # t
        /\ pipe[w] = Nothing => cached[t] = w
    <2>1. Pooled!PipeOf(r) # Nothing
      BY PipeFacts
    <2>2. QED
      BY <2>1 DEF WritersInv, RenderStateInv, FrameWriterInv
  <1>3. w # Nothing /\ t # Nothing /\ w \in Writers /\ Nothing \notin Threads
    BY <1>1, <1>2, WritersAssumption
  <1>4. \A u \in Threads : u # t => cached[u] # w
    BY <1>2, <1>3 DEF WritersInv, CachedInv
  <1>5. /\ frames' \in [Renders -> Seq(Pooled!Frames)] /\ thread' \in [Renders -> Threads \cup {Nothing}]
        /\ \A q \in Renders : q # r => frames'[q] = frames[q] /\ thread'[q] = thread[q]
        /\ \/ frames'[r] = <<>> /\ thread'[r] = Nothing
           \/ /\ frames'[r] # <<>> /\ Len(frames'[r]) <= 2 /\ Len(frames'[r]) # 2 /\ frames'[r][1] = frames[r][1] /\ thread'[r] = t
              /\ environment.nested
    <2>1. CASE frames' = [frames EXCEPT ![r] = <<>>] /\ thread' = [thread EXCEPT ![r] = Nothing]
      BY <1>1, <2>1
    <2>2. CASE environment.nested /\ frames' = [frames EXCEPT ![r] = <<frames[r][1]>>] /\ thread' = thread /\ Len(frames[r]) = 2
      <3>1. frames[r][1] \in Pooled!Frames
        BY <1>1, <2>2
      <3>2. <<frames[r][1]>> \in Seq(Pooled!Frames) /\ <<frames[r][1]>> # <<>> /\ Len(<<frames[r][1]>>) = 1 /\ <<frames[r][1]>>[1] = frames[r][1]
        BY <3>1
      <3>3. QED
        BY <1>1, <2>2, <3>2
    <2>3. QED
      BY <2>1, <2>2, FramePopped
  <1>6. /\ cached'[t] = w /\ cached' \in [Threads -> used' \cup {Nothing}] /\ \A u \in Threads : u # t => cached'[u] = cached[u]
        /\ pipe'[w] = Nothing /\ pipe' \in [Writers -> Renders \cup Trackers \cup {Nothing}] /\ \A v \in Writers : v # w => pipe'[v] = pipe[v]
        /\ memory'[w] = <<>> /\ memory' \in [Writers -> Seq(Pooled!Pieces)] /\ \A v \in Writers : v # w => memory'[v] = memory[v]
    <2>1. <<>> \in Seq(Pooled!Pieces)
      BY EmptySeq
    <2>2. QED
      BY <1>1, <1>2, <1>3, <2>1
  <1>7. Pooled!TypeOK'
    <2>1. \A q \in Renders : (thread'[q] = Nothing <=> frames'[q] = <<>>) /\ (phase'[q] # "running" => frames'[q] = <<>> /\ tracker'[q] = Nothing)
      <3>1. (thread'[r] = Nothing <=> frames'[r] = <<>>) /\ phase'[r] = "running"
        BY <1>2, <1>3, <1>5
      <3>2. ASSUME NEW q \in Renders, q # r
            PROVE  (thread'[q] = Nothing <=> frames'[q] = <<>>) /\ (phase'[q] # "running" => frames'[q] = <<>> /\ tracker'[q] = Nothing)
        BY <1>5, <3>2 DEF WritersInv, Pooled!TypeOK
      <3>3. QED
        BY <3>1, <3>2
    <2>2. QED
      BY <1>5, <1>6, <2>1 DEF WritersInv, Pooled!TypeOK
  <1>8. CachedInv'
    <2>1. \A v \in Writers : (pipe'[v] = Nothing => memory'[v] = <<>>) /\ (v \notin used' => pipe'[v] = Nothing)
      BY <1>6 DEF WritersInv, CachedInv
    <2>2. \A u \in Threads : cached'[u] # Nothing => cached'[u] \in Writers /\ pipe'[cached'[u]] = Nothing
      BY <1>1, <1>3, <1>4, <1>6 DEF WritersInv, CachedInv
    <2>3. \A u, v \in Threads : cached'[u] # Nothing /\ v # u => cached'[v] # cached'[u]
      BY <1>4, <1>6 DEF WritersInv, CachedInv
    <2>4. QED
      BY <2>1, <2>2, <2>3 DEF CachedInv
  <1>9. RenderStateInv(r)'
    <2>1. FrameWriterInv(r)'
      <3>1. frames'[r] # <<>> => /\ thread'[r] = t /\ Len(frames'[r]) <= 2 /\ Len(frames'[r]) # 2 /\ frames'[r][1].writer = w
                                /\ environment'.nested /\ \A q \in Renders : q # r => thread'[q] # thread'[r]
        BY <1>2, <1>5
      <3>2. phase'[r] = "running" /\ t \in Threads /\ late'[r] = Nothing /\ w \in used' /\ pipe'[w] = Nothing /\ cached'[t] = w
        BY <1>2, <1>6
      <3>3. QED
        BY <3>1, <3>2 DEF FrameWriterInv
    <2>2. LateInv(r)' /\ TrackerInv(r)'
      BY <1>2 DEF WritersInv, RenderStateInv, LateInv, TrackerInv
    <2>3. TextInv(r)'
      <3>1. Held(r)' = <<>>
        BY <1>2, <1>5, <1>6 DEF Held
      <3>2. rendered'[r] \o <<>> = rendered'[r]
        <4> DEFINE o == rendered'[r]
        <4>1. o \in Seq(Pooled!Pieces)
          OBVIOUS
        <4> HIDE DEF o
        <4>2. o \o <<>> = o
          BY <4>1
        <4>3. QED
          BY <4>2 DEF o
      <3>3. QED
        BY <1>2, <3>1, <3>2 DEF TextInv
    <2>4. QED
      BY <2>1, <2>2, <2>3 DEF RenderStateInv
  <1>10. ASSUME NEW q \in Renders, q # r PROVE RenderStateInv(q)'
    <2>1. /\ frames[q] # <<>> => frames[q][1].writer \in Writers /\ frames[q][1].writer # w /\ thread[q] \in Threads /\ thread[q] # t
          /\ late[q] # Nothing => late[q] \in Writers /\ late[q] # w
      BY <1>2, <1>10, OwnWriter DEF WritersInv, RenderStateInv, FrameWriterInv
    <2>2. frames[q] # <<>> => \A p \in Renders : p # q => thread'[p] # thread[q]
      <3>1. frames[q] # <<>> => \A p \in Renders : p # q => thread[p] # thread[q]
        BY DEF WritersInv, RenderStateInv, FrameWriterInv
      <3>2. thread'[r] \in {Nothing, t} /\ \A p \in Renders : p # r => thread'[p] = thread[p]
        BY <1>5
      <3>3. QED
        BY <1>3, <2>1, <3>1, <3>2
    <2>3. tracker[q] # Nothing => tracker[q] \notin pool
      BY DEF WritersInv, RenderStateInv, TrackerInv
    <2>4. Undisturbed(q)
      BY <1>5, <1>6, <1>10, <2>1, <2>2, <2>3, SMTT(30) DEF Undisturbed
    <2>5. QED
      BY <2>4, Undisturbing DEF WritersInv
  <1>11. QED
    BY <1>7, <1>8, <1>9, <1>10 DEF WritersInv

LEMMA WriteHtmlEnds ==
  ASSUME WritersInv, NEW r \in Renders, Pooled!EndWriteHtml(r), UNCHANGED environment
  PROVE  WritersInv'
  <1> DEFINE w == frames[r][1].writer
  <1>1. /\ phase[r] = "running" /\ ~writing[r] /\ frames[r] # <<>> /\ Pooled!PopFrame(r)
        /\ IF Pooled!Top(r).kind = "delegate"
           THEN /\ textWriter' = [textWriter EXCEPT ![r] = saved[r][Len(saved[r])]]
                /\ saved' = [saved EXCEPT ![r] = SubSeq(@, 1, Len(@) - 1)]
           ELSE UNCHANGED <<textWriter, saved>>
        /\ UNCHANGED <<environment, phase, writing, late, tracker, pool, inner, written>>
    BY DEF Pooled!EndWriteHtml, Pooled!InWriteHtml, Pooled!Running, Pooled!trackerVars
  <1>2. Pooled!Top(r).writer = w
    BY <1>1, FramePopped
  <1>3. /\ rendered' = IF memory[w] # <<>> THEN [rendered EXCEPT ![Pooled!Behind(pipe[w])] = @ \o memory[w]] ELSE rendered
        /\ cached' = [cached EXCEPT ![thread[r]] = w] /\ pipe' = [pipe EXCEPT ![w] = Nothing]
        /\ memory' = [memory EXCEPT ![w] = <<>>] /\ UNCHANGED used
    BY <1>2 DEF Pooled!EndWriteHtml, Pooled!Return
  <1>4. w \in Writers /\ w # Nothing /\ Held(r) = memory[w] /\ (pipe[w] # Nothing => Pooled!Behind(pipe[w]) = r)
    BY <1>1, OwnWriter, WritersAssumption
  <1>5. /\ written[r] \in Nat /\ rendered[r] \in Seq(Pooled!Pieces) /\ memory[w] \in Seq(Pooled!Pieces)
        /\ Text(r, written[r]) = rendered[r] \o memory[w]
    BY <1>1, <1>4, WholeSoFar
  <1>6. rendered[r] \o memory[w] \in Seq(Pooled!Pieces) /\ (memory[w] = <<>> => rendered[r] = Text(r, written[r]))
    <2> DEFINE o == rendered[r]
               m == memory[w]
               s == Text(r, written[r])
    <2>1. o \in Seq(Pooled!Pieces) /\ m \in Seq(Pooled!Pieces) /\ s = o \o m
      BY <1>5
    <2> HIDE DEF o, m, s
    <2>2. o \o m \in Seq(Pooled!Pieces)
      BY <2>1
    <2>3. o \o <<>> = o
      BY <2>1
    <2>4. QED
      BY <2>1, <2>2, <2>3 DEF o, m, s
  <1>7. /\ rendered' \in [Renders -> Seq(Pooled!Pieces)] /\ rendered'[r] = Text(r, written[r])
        /\ \A q \in Renders : q # r => rendered'[q] = rendered[q]
    <2>1. rendered \in [Renders -> Seq(Pooled!Pieces)]
      BY DEF WritersInv, Pooled!TypeOK
    <2>2. CASE memory[w] = <<>>
      BY <1>3, <1>6, <2>1, <2>2
    <2>3. CASE memory[w] # <<>>
      <3>1. pipe[w] # Nothing
        BY <1>4, <2>3, SMTT(30) DEF WritersInv, CachedInv
      <3>2. rendered' = [rendered EXCEPT ![r] = rendered[r] \o memory[w]]
        BY <1>3, <1>4, <2>3, <3>1
      <3> HIDE DEF w
      <3>3. QED
        BY <1>5, <1>6, <2>1, <3>2, SMTT(30)
    <2>4. QED
      BY <2>2, <2>3
  <1>8. \E n \in 0..written[r] : rendered'[r] = Text(r, n)
    <2>1. written[r] \in 0..written[r]
      BY <1>5
    <2>2. QED
      BY <1>7, <2>1, Zenon
  <1>9. /\ textWriter' \in [Renders -> Writers \cup {Nothing}] /\ saved' \in [Renders -> Seq(Writers \cup {Nothing})]
        /\ \A q \in Renders : q # r => textWriter'[q] = textWriter[q] /\ saved'[q] = saved[q]
        /\ SavedInv(r)'
    <2>1. textWriter \in [Renders -> Writers \cup {Nothing}] /\ saved \in [Renders -> Seq(Writers \cup {Nothing})]
          /\ frames \in [Renders -> Seq(Pooled!Frames)]
      BY DEF WritersInv, Pooled!TypeOK
    <2>2. IF frames[r][1].kind = "content"
          THEN textWriter[r] = Nothing /\ saved[r] = <<>>
          ELSE /\ textWriter[r] = w
               /\ saved[r] = IF Len(frames[r]) = 2 /\ frames[r][2].kind = "delegate" THEN <<Nothing, w>> ELSE <<Nothing>>
      BY <1>1 DEF WritersInv, RenderStateInv, SavedInv
    <2>3. frames[r][1].kind \in {"content", "delegate"}
      <3>1. frames[r][1] \in Pooled!Frames
        BY <1>1, <2>1, EmptySeq
      <3>2. QED
        BY <3>1 DEF Pooled!Frames
    <2>4. /\ <<Nothing, w>>[2] = w /\ <<Nothing>>[1] = Nothing /\ Len(<<Nothing, w>>) = 2 /\ Len(<<Nothing>>) = 1
          /\ SubSeq(<<Nothing, w>>, 1, 2 - 1) = <<Nothing>> /\ SubSeq(<<Nothing>>, 1, 1 - 1) = <<>>
          /\ <<Nothing>> \in Seq(Writers \cup {Nothing}) /\ <<>> \in Seq(Writers \cup {Nothing})
      <3> DEFINE S == Writers \cup {Nothing}
      <3>1. Nothing \in S /\ w \in S
        BY <1>4
      <3> HIDE DEF S, w
      <3>2. /\ <<Nothing, w>>[2] = w /\ Len(<<Nothing, w>>) = 2
            /\ SubSeq(<<Nothing, w>>, 1, 2 - 1) = <<Nothing>> /\ SubSeq(<<Nothing>>, 1, 1 - 1) = <<>>
        BY <3>1, TwoElements
      <3>3. <<Nothing>>[1] = Nothing /\ Len(<<Nothing>>) = 1 /\ <<Nothing>> \in Seq(S) /\ <<>> \in Seq(S)
        BY <3>1, EmptySeq
      <3>4. QED
        BY <3>2, <3>3 DEF S
    <2> HIDE DEF w
    <2>5. CASE Len(frames[r]) = 1 /\ Pooled!Top(r) = frames[r][1] /\ frames' = [frames EXCEPT ![r] = <<>>]
      <3>1. frames'[r] = <<>>
        BY <2>1, <2>5
      <3>2. CASE frames[r][1].kind = "content"
        <4>1. textWriter' = textWriter /\ saved' = saved
          BY <1>1, <2>5, <3>2
        <4>2. QED
          BY <2>1, <2>2, <3>1, <3>2, <4>1 DEF SavedInv
      <3>3. CASE frames[r][1].kind = "delegate"
        <4>1. textWriter' = [textWriter EXCEPT ![r] = saved[r][Len(saved[r])]] /\ saved' = [saved EXCEPT ![r] = SubSeq(saved[r], 1, Len(saved[r]) - 1)]
          BY <1>1, <2>5, <3>3
        <4>2. saved[r] = <<Nothing>>
          BY <2>2, <2>5, <3>3
        <4>3. textWriter' = [textWriter EXCEPT ![r] = Nothing] /\ saved' = [saved EXCEPT ![r] = <<>>]
          BY <2>4, <4>1, <4>2
        <4>4. QED
          BY <2>1, <2>4, <3>1, <4>3 DEF SavedInv
      <3>4. QED
        BY <2>3, <3>2, <3>3
    <2>6. CASE /\ Len(frames[r]) = 2 /\ Pooled!Top(r) = frames[r][2] /\ frames[r][1].kind = "delegate"
               /\ frames' = [frames EXCEPT ![r] = <<frames[r][1]>>]
      <3>1. frames'[r] # <<>> /\ frames'[r][1] = frames[r][1] /\ Len(frames'[r]) # 2
        <4> DEFINE g == frames[r][1]
        <4>1. frames'[r] = <<g>>
          BY <2>1, <2>6
        <4> HIDE DEF g
        <4>2. <<g>> # <<>> /\ <<g>>[1] = g /\ Len(<<g>>) = 1
          OBVIOUS
        <4>3. QED
          BY <4>1, <4>2 DEF g
      <3>2. CASE frames[r][2].kind = "delegate"
        <4>1. textWriter' = [textWriter EXCEPT ![r] = saved[r][Len(saved[r])]] /\ saved' = [saved EXCEPT ![r] = SubSeq(saved[r], 1, Len(saved[r]) - 1)]
          BY <1>1, <2>6, <3>2
        <4>2. saved[r] = <<Nothing, w>>
          BY <2>2, <2>6, <3>2
        <4>3. textWriter' = [textWriter EXCEPT ![r] = w] /\ saved' = [saved EXCEPT ![r] = <<Nothing>>]
          BY <2>4, <4>1, <4>2
        <4>4. textWriter'[r] = frames'[r][1].writer /\ saved'[r] = <<Nothing>>
          BY <2>1, <3>1, <4>3 DEF w
        <4>5. QED
          BY <1>4, <2>1, <2>4, <2>6, <3>1, <4>3, <4>4 DEF SavedInv
      <3>3. CASE frames[r][2].kind # "delegate"
        <4>1. textWriter' = textWriter /\ saved' = saved
          BY <1>1, <2>6, <3>3
        <4>2. textWriter'[r] = frames'[r][1].writer /\ saved'[r] = <<Nothing>>
          BY <2>2, <2>6, <3>1, <3>3, <4>1 DEF w
        <4>3. QED
          BY <2>1, <2>6, <3>1, <4>1, <4>2 DEF SavedInv
      <3>4. QED
        BY <3>2, <3>3
    <2>7. QED
      BY <1>1, <2>5, <2>6, FramePopped
  <1> HIDE DEF w
  <1>10. QED
    BY <1>1, <1>3, <1>7, <1>8, <1>9, WriterReturned DEF w

LEMMA WriteHtmlUnwinds ==
  ASSUME WritersInv, NEW r \in Renders, Pooled!UnwindWriteHtml(r), UNCHANGED environment
  PROVE  WritersInv'
  <1> DEFINE w == frames[r][1].writer
  <1>1. /\ writing[r] /\ frames[r] # <<>> /\ Pooled!PopFrame(r)
        /\ UNCHANGED <<environment, phase, writing, textWriter, saved, late, tracker, pool, inner, written>>
    BY DEF Pooled!UnwindWriteHtml, Pooled!trackerVars
  <1>2. Pooled!Top(r).writer = w
    BY <1>1, FramePopped
  <1>3. /\ rendered' = rendered
        /\ cached' = [cached EXCEPT ![thread[r]] = w] /\ pipe' = [pipe EXCEPT ![w] = Nothing]
        /\ memory' = [memory EXCEPT ![w] = <<>>] /\ UNCHANGED used
    BY <1>2 DEF Pooled!UnwindWriteHtml, Pooled!Return
  <1>4. /\ rendered' \in [Renders -> Seq(Pooled!Pieces)] /\ textWriter' \in [Renders -> Writers \cup {Nothing}]
        /\ saved' \in [Renders -> Seq(Writers \cup {Nothing})]
        /\ \E n \in 0..written[r] : rendered'[r] = Text(r, n)
    BY <1>1, <1>3 DEF WritersInv, Pooled!TypeOK, RenderStateInv, TextInv
  <1>5. SavedInv(r)'
    BY <1>1 DEF SavedInv
  <1> HIDE DEF w
  <1>6. QED
    BY <1>1, <1>3, <1>4, <1>5, WriterReturned DEF w

\* The rejected delegate keeps the writer of its render.
LEMMA DelegateRejected ==
  ASSUME WritersInv, NEW r \in Renders, Pooled!RejectDelegate(r), UNCHANGED environment
  PROVE  WritersInv'
  <1> DEFINE w == frames[r][1].writer
  <1>1. /\ environment.async /\ phase[r] = "running" /\ ~writing[r] /\ frames[r] # <<>> /\ Pooled!PopFrame(r)
        /\ late' = [late EXCEPT ![r] = Pooled!Top(r).writer] /\ writing' = [writing EXCEPT ![r] = TRUE]
        /\ UNCHANGED <<environment, phase, textWriter, saved, cached, used, pipe, memory, tracker, pool, inner, written, rendered>>
    BY DEF Pooled!RejectDelegate, Pooled!InWriteHtml, Pooled!Running, Pooled!trackerVars, Pooled!writerVars
  <1>2. ~environment.nested /\ tracker[r] = Nothing
    BY <1>1, PipeFacts
  <1>3. Pooled!Top(r).writer = w /\ frames' = [frames EXCEPT ![r] = <<>>] /\ thread' = [thread EXCEPT ![r] = Nothing]
    BY <1>1, <1>2, FramePopped
  <1>4. w \in Writers /\ w # Nothing /\ w \in used /\ Held(r) = memory[w] /\ pipe[w] = r
    BY <1>1, <1>2, OwnWriter, WritersAssumption DEF WritersInv, RenderStateInv, FrameWriterInv, Pooled!PipeOf
  <1>5. /\ frames' \in [Renders -> Seq(Pooled!Frames)] /\ frames'[r] = <<>> /\ \A q \in Renders : q # r => frames'[q] = frames[q]
        /\ thread' \in [Renders -> Threads \cup {Nothing}] /\ thread'[r] = Nothing /\ \A q \in Renders : q # r => thread'[q] = thread[q]
    <2>1. <<>> \in Seq(Pooled!Frames)
      BY EmptySeq
    <2>2. QED
      BY <1>3, <2>1 DEF WritersInv, Pooled!TypeOK
  <1>6. /\ late' \in [Renders -> Writers \cup {Nothing}] /\ late'[r] = w /\ \A q \in Renders : q # r => late'[q] = late[q]
        /\ writing' \in [Renders -> BOOLEAN] /\ writing'[r] /\ \A q \in Renders : q # r => writing'[q] = writing[q]
    <2>1. late' = [late EXCEPT ![r] = w]
      BY <1>1, <1>3
    <2>2. late \in [Renders -> Writers \cup {Nothing}] /\ writing \in [Renders -> BOOLEAN]
      BY DEF WritersInv, Pooled!TypeOK
    <2> HIDE DEF w
    <2>3. QED
      BY <1>1, <1>4, <2>1, <2>2
  <1> HIDE DEF w
  <1>7. Pooled!TypeOK'
    <2>1. \A q \in Renders : (thread'[q] = Nothing <=> frames'[q] = <<>>) /\ (phase'[q] # "running" => frames'[q] = <<>> /\ tracker'[q] = Nothing)
      BY <1>1, <1>5 DEF WritersInv, Pooled!TypeOK
    <2>2. QED
      BY <1>1, <1>5, <1>6, <2>1 DEF WritersInv, Pooled!TypeOK
  <1>8. CachedInv'
    BY <1>1 DEF WritersInv, CachedInv
  <1>9. RenderStateInv(r)'
    <2>1. FrameWriterInv(r)'
      BY <1>5 DEF FrameWriterInv
    <2>2. SavedInv(r)'
      BY <1>6 DEF SavedInv
    <2>3. LateInv(r)'
      BY <1>1, <1>4, <1>5, <1>6 DEF LateInv
    <2>4. TrackerInv(r)'
      BY <1>1, <1>2 DEF TrackerInv
    <2>5. TextInv(r)'
      <3>1. Held(r)' = memory[w]
        BY <1>1, <1>4, <1>5, <1>6 DEF Held
      <3>2. rendered[r] \o memory[w] = Text(r, written[r])
        BY <1>1, <1>4, WholeSoFar
      <3>3. QED
        BY <1>1, <3>1, <3>2 DEF WritersInv, RenderStateInv, TextInv
    <2>6. QED
      BY <2>1, <2>2, <2>3, <2>4, <2>5 DEF RenderStateInv
  <1>10. ASSUME NEW q \in Renders, q # r PROVE RenderStateInv(q)'
    <2>1. frames[q] # <<>> => \A p \in Renders : p # q => thread'[p] # thread[q]
      <3>1. frames[q] # <<>> => thread[q] \in Threads /\ \A p \in Renders : p # q => thread[p] # thread[q]
        BY DEF WritersInv, RenderStateInv, FrameWriterInv
      <3>2. Nothing \notin Threads
        BY WritersAssumption
      <3>3. QED
        BY <1>5, <3>1, <3>2
    <2>2. tracker[q] # Nothing => tracker[q] \notin pool
      BY DEF WritersInv, RenderStateInv, TrackerInv
    <2>3. Undisturbed(q)
      BY <1>1, <1>5, <1>6, <1>10, <2>1, <2>2 DEF Undisturbed
    <2>4. QED
      BY <2>3, Undisturbing DEF WritersInv
  <1>11. QED
    BY <1>7, <1>8, <1>9, <1>10 DEF WritersInv

LEMMA RendersProceed ==
  ASSUME WritersInv, NEW r \in Renders, Pooled!RenderStep(r), UNCHANGED environment
  PROVE  WritersInv'
  <1>1. CASE Pooled!StartRender(r)
    BY <1>1, RenderStarts
  <1>2. CASE Pooled!WriteToPipe(r)
    BY <1>2, TemplateWrites
  <1>3. CASE Pooled!EndRender(r)
    BY <1>3, RenderEnds
  <1>4. CASE \E t \in Threads, kind \in {"content", "delegate"} : Pooled!BeginWriteHtml(r, t, kind)
    BY <1>4, WriteHtmlBegins
  <1>5. CASE Pooled!WriteText(r)
    <2>1. /\ phase[r] = "running" /\ ~writing[r] /\ frames[r] # <<>> /\ Pooled!NextPiece(r)
          /\ UNCHANGED <<environment, phase, thread, frames, writing, textWriter, saved, late, tracker, pool, inner>>
          /\ Pooled!WriteToBuffer(Pooled!Top(r).writer, Pooled!Piece(r))
      BY <1>5 DEF Pooled!WriteText, Pooled!InWriteHtml, Pooled!Running, Pooled!renderVars, Pooled!trackerVars
    <2>2. Pooled!Top(r).writer = frames[r][1].writer
      BY <2>1, TopWriter
    <2>3. QED
      BY <2>1, <2>2, TextWritten
  <1>6. CASE Pooled!WriteToReturnedWriter(r)
    BY <1>6, WriterFails DEF Pooled!WriteToReturnedWriter, Pooled!writerVars, Pooled!trackerVars
  <1>7. CASE Pooled!EndWriteHtml(r)
    BY <1>7, WriteHtmlEnds
  <1>8. CASE Pooled!ContentThrows(r)
    BY <1>8, WriterFails DEF Pooled!ContentThrows, Pooled!writerVars, Pooled!trackerVars
  <1>9. CASE Pooled!UnwindWriteHtml(r)
    BY <1>9, WriteHtmlUnwinds
  <1>10. CASE Pooled!RejectDelegate(r)
    BY <1>10, DelegateRejected
  <1>11. CASE Pooled!LateWrite(r)
    <2>1. /\ late[r] # Nothing /\ Pooled!NextPiece(r) /\ Pooled!WriteToBuffer(late[r], Pooled!Piece(r))
          /\ UNCHANGED <<environment, phase, thread, frames, writing, textWriter, saved, late, tracker, pool, inner>>
      BY <1>11 DEF Pooled!LateWrite, Pooled!renderVars, Pooled!trackerVars
    <2>2. phase[r] # "new"
      BY <2>1 DEF WritersInv, RenderStateInv, LateInv, TrackerInv
    <2>3. QED
      BY <2>1, <2>2, TextWritten
  <1>12. CASE Pooled!LateFlush(r)
    BY <1>12, LateFlushes
  <1>13. CASE Pooled!LateEnd(r)
    BY <1>13, LateEnds
  <1>14. QED
    BY <1>1, <1>2, <1>3, <1>4, <1>5, <1>6, <1>7, <1>8, <1>9, <1>10, <1>11, <1>12, <1>13 DEF Pooled!RenderStep

LEMMA WritersStutter == WritersInv /\ UNCHANGED Pooled!vars => WritersInv'
  <1> SUFFICES ASSUME WritersInv, UNCHANGED Pooled!vars PROVE WritersInv'
    OBVIOUS
  <1>1. UNCHANGED <<environment, phase, thread, frames, writing, textWriter, saved, late, cached, used, pipe, memory,
                    tracker, pool, inner, written, rendered>>
    BY DEF Pooled!vars, Pooled!renderVars, Pooled!writerVars, Pooled!trackerVars
  <1>2. Pooled!TypeOK' /\ CachedInv'
    BY <1>1 DEF WritersInv, Pooled!TypeOK, CachedInv
  <1>3. ASSUME NEW q \in Renders PROVE RenderStateInv(q)'
    <2>1. Undisturbed(q)
      BY <1>1 DEF WritersInv, RenderStateInv, FrameWriterInv, TrackerInv, Undisturbed
    <2>2. QED
      BY <2>1, Undisturbing DEF WritersInv
  <1>4. QED
    BY <1>2, <1>3 DEF WritersInv

LEMMA WritersInvariant == Pooled!Spec => []WritersInv
  <1>1. WritersInv /\ [Pooled!Next]_(Pooled!vars) => WritersInv'
    <2> SUFFICES ASSUME WritersInv, [Pooled!Next]_(Pooled!vars) PROVE WritersInv'
      OBVIOUS
    <2>1. CASE UNCHANGED Pooled!vars
      BY <2>1, WritersStutter
    <2>2. ASSUME NEW r \in Renders, Pooled!RenderStep(r), UNCHANGED environment PROVE WritersInv'
      BY <2>2, RendersProceed
    <2>3. QED
      BY <2>1, <2>2 DEF Pooled!Next, Pooled!AllEnded
  <1>2. QED
    BY <1>1, WritersInitially, PTL DEF Pooled!Spec

LEMMA WritersStayFaithful == WritersInv => Pooled!OutputIsFaithful
  <1> SUFFICES ASSUME WritersInv PROVE Pooled!OutputIsFaithful
    OBVIOUS
  <1>1. ASSUME NEW r \in Renders
        PROVE  /\ \A i \in DOMAIN rendered[r] : rendered[r][i] = [by |-> r, n |-> i] /\ i \in Nat
               /\ phase[r] = "done" => DOMAIN rendered[r] = 1..written[r]
    <2>1. TextInv(r) /\ TrackerInv(r) /\ LateInv(r) /\ FrameWriterInv(r) /\ written[r] \in Nat
      BY WritersAssumption DEF WritersInv, RenderStateInv, Pooled!TypeOK
    <2>2. PICK n \in 0..written[r] : rendered[r] = Text(r, n)
      BY <2>1 DEF TextInv
    <2>3. \A i \in DOMAIN rendered[r] : rendered[r][i] = [by |-> r, n |-> i] /\ i \in Nat
      BY <2>1, <2>2 DEF Text
    <2>4. ASSUME phase[r] = "done" PROVE DOMAIN rendered[r] = 1..written[r]
      <3>1. ~writing[r] /\ frames[r] = <<>> /\ late[r] = Nothing
        BY <2>1, <2>4 DEF TrackerInv, LateInv, FrameWriterInv
      <3>2. rendered[r] \o Held(r) = Text(r, written[r]) /\ Held(r) = <<>> /\ rendered[r] \in Seq(Pooled!Pieces)
        BY <3>1, WholeSoFar DEF Held
      <3>3. rendered[r] = Text(r, written[r])
        <4> DEFINE o == rendered[r]
        <4>1. o \in Seq(Pooled!Pieces) /\ o \o <<>> = Text(r, written[r])
          BY <3>2
        <4> HIDE DEF o
        <4>2. o \o <<>> = o
          BY <4>1
        <4>3. QED
          BY <4>1, <4>2 DEF o
      <3>4. QED
        BY <3>3 DEF Text
    <2>5. QED
      BY <2>3, <2>4
  <1>2. Pooled!TextStaysInItsRender
    <2>1. ASSUME NEW r \in Renders, NEW i \in DOMAIN rendered[r] PROVE rendered[r][i].by = r
      <3>1. rendered[r][i] = [by |-> r, n |-> i]
        BY <1>1
      <3>2. QED
        BY <3>1
    <2>2. QED
      BY <2>1 DEF Pooled!TextStaysInItsRender
  <1>3. ASSUME NEW r \in Renders
        PROVE  /\ \A i, j \in DOMAIN rendered[r] : i < j => rendered[r][i].n < rendered[r][j].n
               /\ phase[r] = "done" => \A n \in 1..written[r] : \E i \in DOMAIN rendered[r] : rendered[r][i].n = n
    <2>1. ASSUME NEW i \in DOMAIN rendered[r] PROVE rendered[r][i].n = i
      <3>1. rendered[r][i] = [by |-> r, n |-> i]
        BY <1>1
      <3>2. QED
        BY <3>1
    <2>2. phase[r] = "done" => \A n \in 1..written[r] : n \in DOMAIN rendered[r]
      BY <1>1
    <2>3. QED
      BY <2>1, <2>2
  <1>4. QED
    BY <1>2, <1>3 DEF Pooled!OutputIsFaithful

\* What one render writes, to its pipe, a string or a builder, reaches its own
\* output and no other, in the order it was written, and all of it if the render
\* ends without an exception, although the writers and builders are pooled and
\* a rejected delegate may go on writing.
THEOREM OutputsAreFaithful == Pooled!Spec /\ Strings!Spec => []OutputIsFaithful
  <1>1. WritersInv /\ StringsInv => OutputIsFaithful
    BY WritersStayFaithful, StringsStayFaithful DEF OutputIsFaithful
  <1>2. QED
    BY <1>1, WritersInvariant, StringsInvariant, PTL

-----------------------------------------------------------------------------
(* Texts of any length: induction over sequences, sums and concatenations.  *)

\* A set of sequences that has the empty one, and every sequence with one more
\* element than a member, has every sequence.
LEMMA SequenceInduction ==
  ASSUME NEW X, NEW P, <<>> \in P, \A s \in Seq(X), x \in X : s \in P => Append(s, x) \in P
  PROVE  Seq(X) \subseteq P
  <1> DEFINE S == {n \in Nat : \A s \in Seq(X) : Len(s) = n => s \in P}
  <1>1. 0 \in S
    BY EmptySeq
  <1>2. ASSUME NEW n \in Nat, n \in S PROVE n + 1 \in S
    <2> SUFFICES ASSUME NEW s \in Seq(X), Len(s) = n + 1 PROVE s \in P
      OBVIOUS
    <2>1. PICK r \in Seq(X), x \in X : s = Append(r, x)
      BY EmptySeq, SequenceEmptyOrAppend
    <2>2. Len(r) = n
      BY <2>1, AppendProperties
    <2>3. QED
      BY <1>2, <2>1, <2>2
  <1> HIDE DEF S
  <1>3. Nat \subseteq S
    BY <1>1, <1>2, Induction
  <1>4. ASSUME NEW s \in Seq(X) PROVE s \in P
    <2>1. Len(s) \in S
      BY <1>3
    <2>2. QED
      BY <2>1 DEF S
  <1>5. QED
    BY <1>4

\* Appending, and concatenating a sequence of one element.
LEMMA AppendConcat ==
  ASSUME NEW X, NEW s \in Seq(X), NEW t \in Seq(X), NEW x \in X
  PROVE  /\ Append(t, x) \in Seq(X) /\ s \o t \in Seq(X)
         /\ s \o Append(t, x) = Append(s \o t, x) /\ s \o Append(t, x) = (s \o t) \o <<x>>
  <1>1. <<x>> \in Seq(X) /\ Append(t, x) = t \o <<x>> /\ s \o t \in Seq(X)
    BY AppendIsConcat
  <1>2. Append(s \o t, x) = (s \o t) \o <<x>>
    BY <1>1, AppendIsConcat
  <1>3. s \o (t \o <<x>>) = (s \o t) \o <<x>>
    BY <1>1, ConcatAssociative
  <1>4. QED
    BY <1>1, <1>2, <1>3, AppendProperties

\* g has the sums of the first sizes, as in Total.
Sums(g, n, sizes) == g = [k \in 0..n |-> IF k = 0 THEN 0 ELSE g[k - 1] + sizes[k]]

\* The sums of the first sizes exist.
LEMMA SumsExist ==
  ASSUME NEW sizes \in Seq(Nat)
  PROVE  /\ Len(sizes) \in Nat
         /\ \E g \in [0..Len(sizes) -> Nat] : Sums(g, Len(sizes), sizes) /\ Pipe!Total(sizes) = g[Len(sizes)]
  <1> DEFINE N == Len(sizes)
             S == {n \in Nat : n <= N => \E g \in [0..n -> Nat] : Sums(g, n, sizes)}
  <1>0. N \in Nat /\ \A k \in 1..N : sizes[k] \in Nat
    OBVIOUS
  <1>1. 0 \in S
    <2> DEFINE g == [k \in 0..0 |-> 0]
    <2>1. g \in [0..0 -> Nat] /\ Sums(g, 0, sizes)
      BY DEF Sums
    <2> HIDE DEF g
    <2>2. QED
      BY <2>1
  <1>2. ASSUME NEW n \in Nat, n \in S PROVE n + 1 \in S
    <2> SUFFICES ASSUME n + 1 <= N PROVE \E g \in [0..(n + 1) -> Nat] : Sums(g, n + 1, sizes)
      OBVIOUS
    <2>0. n <= N /\ n + 1 \in 1..N /\ n \in 0..n
      BY <1>0
    <2>1. PICK g \in [0..n -> Nat] : Sums(g, n, sizes)
      BY <1>2, <2>0
    <2>2. PICK last \in Nat : last = g[n] + sizes[n + 1]
      <3>1. g[n] \in Nat /\ sizes[n + 1] \in Nat
        BY <1>0, <2>0
      <3>2. g[n] + sizes[n + 1] \in Nat
        BY <3>1
      <3>3. QED
        BY <3>2
    <2> DEFINE h == [k \in 0..(n + 1) |-> IF k = n + 1 THEN last ELSE g[k]]
    <2>3. h \in [0..(n + 1) -> Nat]
      OBVIOUS
    <2>4. \A k \in 0..n : g[k] = IF k = 0 THEN 0 ELSE g[k - 1] + sizes[k]
      BY <2>1 DEF Sums
    <2>5. ASSUME NEW k \in 0..(n + 1) PROVE h[k] = IF k = 0 THEN 0 ELSE h[k - 1] + sizes[k]
      <3>1. CASE k = n + 1
        <4>1. h[k] = last /\ h[k - 1] = g[n] /\ k # 0
          BY <3>1
        <4>2. QED
          BY <2>2, <3>1, <4>1
      <3>2. CASE k \in 0..n
        <4>1. h[k] = g[k] /\ (k # 0 => h[k - 1] = g[k - 1])
          BY <3>2
        <4>2. g[k] = IF k = 0 THEN 0 ELSE g[k - 1] + sizes[k]
          BY <2>4, <3>2
        <4>3. QED
          BY <4>1, <4>2, Zenon
      <3>3. QED
        BY <3>1, <3>2
    <2>6. h = [k \in 0..(n + 1) |-> h[k]]
      OBVIOUS
    <2> HIDE DEF h
    <2>7. h = [k \in 0..(n + 1) |-> IF k = 0 THEN 0 ELSE h[k - 1] + sizes[k]]
      BY <2>5, <2>6, Zenon
    <2>8. QED
      BY <2>3, <2>7 DEF Sums
  <1> HIDE DEF S
  <1>3. N \in S
    BY <1>0, <1>1, <1>2, Induction
  <1>4. PICK g \in [0..N -> Nat] : Sums(g, N, sizes)
    BY <1>0, <1>3 DEF S
  <1> DEFINE sums == CHOOSE f : Sums(f, N, sizes)
  <1>5. Sums(sums, N, sizes)
    BY <1>4, Zenon
  <1>6. Pipe!Total(sizes) = sums[N]
    BY Zenon DEF Pipe!Total, Sums
  <1> HIDE DEF sums
  <1>7. \A k \in 0..N : sums[k] = IF k = 0 THEN 0 ELSE sums[k - 1] + sizes[k]
    BY <1>5 DEF Sums
  <1>8. \A k \in 0..N : g[k] = IF k = 0 THEN 0 ELSE g[k - 1] + sizes[k]
    BY <1>4 DEF Sums
  <1> DEFINE E == {n \in Nat : n <= N => sums[n] = g[n]}
  <1>9. 0 \in E
    BY <1>7, <1>8
  <1>10. ASSUME NEW n \in Nat, n \in E PROVE n + 1 \in E
    BY <1>0, <1>7, <1>8, <1>10
  <1>11. N \in E
    <2> HIDE DEF E
    <2>1. QED
      BY <1>0, <1>9, <1>10, Induction
  <1>12. QED
    BY <1>0, <1>4, <1>6, <1>11

\* The total of the sizes grows by the size that is appended.
LEMMA TotalOfAppend ==
  ASSUME NEW sizes \in Seq(Nat), NEW n \in Nat
  PROVE  Pipe!Total(sizes) \in Nat /\ Pipe!Total(Append(sizes, n)) = Pipe!Total(sizes) + n
  <1> DEFINE N == Len(sizes)
             more == Append(sizes, n)
  <1>1. PICK g \in [0..N -> Nat] : Sums(g, N, sizes) /\ Pipe!Total(sizes) = g[N]
    BY SumsExist
  <1>2. N \in Nat /\ more \in Seq(Nat) /\ Len(more) = N + 1 /\ more[N + 1] = n /\ \A k \in 1..N : more[k] = sizes[k]
    OBVIOUS
  <1> HIDE DEF more
  <1>3. PICK h \in [0..(N + 1) -> Nat] : Sums(h, N + 1, more) /\ Pipe!Total(more) = h[N + 1]
    BY <1>2, SumsExist
  <1>4. \A k \in 0..N : g[k] = IF k = 0 THEN 0 ELSE g[k - 1] + sizes[k]
    BY <1>1 DEF Sums
  <1>5. \A k \in 0..(N + 1) : h[k] = IF k = 0 THEN 0 ELSE h[k - 1] + more[k]
    BY <1>3 DEF Sums
  <1> DEFINE E == {k \in Nat : k <= N => h[k] = g[k]}
  <1>6. 0 \in E
    BY <1>2, <1>4, <1>5
  <1>7. ASSUME NEW k \in Nat, k \in E PROVE k + 1 \in E
    <2> SUFFICES ASSUME k + 1 <= N PROVE h[k + 1] = g[k + 1]
      OBVIOUS
    <2>1. k + 1 \in 0..N /\ k + 1 \in 0..(N + 1) /\ (k + 1) - 1 = k /\ k + 1 \in 1..N /\ k + 1 # 0
      BY <1>2
    <2>2. h[k + 1] = h[k] + more[k + 1] /\ g[k + 1] = g[k] + sizes[k + 1]
      BY <1>4, <1>5, <2>1
    <2>3. QED
      BY <1>2, <1>7, <2>1, <2>2
  <1>8. N \in E
    <2> HIDE DEF E
    <2>1. QED
      BY <1>2, <1>6, <1>7, Induction
  <1>9. h[N + 1] = h[N] + more[N + 1]
    <2>1. N + 1 \in 0..(N + 1) /\ N + 1 # 0 /\ (N + 1) - 1 = N
      BY <1>2
    <2>2. QED
      BY <1>5, <2>1
  <1>10. QED
    BY <1>1, <1>2, <1>3, <1>8, <1>9 DEF more

\* Nothing has no size.
LEMMA TotalOfNothing == Pipe!Total(<<>>) = 0
  <1>1. <<>> \in Seq(Nat) /\ Len(<<>>) = 0
    BY EmptySeq
  <1>2. PICK g \in [0..0 -> Nat] : Sums(g, 0, <<>>) /\ Pipe!Total(<<>>) = g[0]
    BY <1>1, SumsExist
  <1>3. g[0] = 0
    BY <1>2 DEF Sums
  <1>4. QED
    BY <1>2, <1>3

\* g has the first sequences in one, as in FlattenSeq.
Flattens(g, n, seqs) == g = [k \in 0..n |-> IF k = 0 THEN <<>> ELSE g[k - 1] \o seqs[k]]

\* The concatenations of the first sequences exist.
LEMMA FlattensExist ==
  ASSUME NEW X, NEW seqs \in Seq(Seq(X))
  PROVE  /\ Len(seqs) \in Nat
         /\ \E g \in [0..Len(seqs) -> Seq(X)] :
               Flattens(g, Len(seqs), seqs) /\ Pipe!FlattenSeq(seqs) = g[Len(seqs)]
  <1> DEFINE N == Len(seqs)
             S == {n \in Nat : n <= N => \E g \in [0..n -> Seq(X)] : Flattens(g, n, seqs)}
  <1>0. N \in Nat /\ (\A k \in 1..N : seqs[k] \in Seq(X)) /\ <<>> \in Seq(X)
    BY EmptySeq
  <1>1. 0 \in S
    <2> DEFINE g == [k \in 0..0 |-> <<>>]
    <2>1. g \in [0..0 -> Seq(X)]
      BY <1>0
    <2>2. g = [k \in 0..0 |-> IF k = 0 THEN <<>> ELSE g[k - 1] \o seqs[k]]
      OBVIOUS
    <2> HIDE DEF g
    <2>3. Flattens(g, 0, seqs)
      BY <2>2 DEF Flattens
    <2>4. QED
      BY <2>1, <2>3
  <1>2. ASSUME NEW n \in Nat, n \in S PROVE n + 1 \in S
    <2> SUFFICES ASSUME n + 1 <= N PROVE \E g \in [0..(n + 1) -> Seq(X)] : Flattens(g, n + 1, seqs)
      OBVIOUS
    <2>0. n <= N /\ n + 1 \in 1..N /\ n \in 0..n
      BY <1>0
    <2>1. PICK g \in [0..n -> Seq(X)] : Flattens(g, n, seqs)
      BY <1>2, <2>0
    <2>2. PICK last \in Seq(X) : last = g[n] \o seqs[n + 1]
      <3>1. g[n] \in Seq(X) /\ seqs[n + 1] \in Seq(X)
        BY <1>0, <2>0
      <3>2. g[n] \o seqs[n + 1] \in Seq(X)
        BY <3>1, ConcatProperties
      <3>3. QED
        BY <3>2
    <2> DEFINE h == [k \in 0..(n + 1) |-> IF k = n + 1 THEN last ELSE g[k]]
    <2>3. h \in [0..(n + 1) -> Seq(X)]
      OBVIOUS
    <2>4. \A k \in 0..n : g[k] = IF k = 0 THEN <<>> ELSE g[k - 1] \o seqs[k]
      BY <2>1 DEF Flattens
    <2>5. ASSUME NEW k \in 0..(n + 1) PROVE h[k] = IF k = 0 THEN <<>> ELSE h[k - 1] \o seqs[k]
      <3>1. CASE k = n + 1
        <4>1. h[k] = last /\ h[k - 1] = g[n] /\ k # 0
          BY <3>1
        <4>2. QED
          BY <2>2, <3>1, <4>1
      <3>2. CASE k \in 0..n
        <4>1. h[k] = g[k] /\ (k # 0 => h[k - 1] = g[k - 1])
          BY <3>2
        <4>2. g[k] = IF k = 0 THEN <<>> ELSE g[k - 1] \o seqs[k]
          BY <2>4, <3>2
        <4>3. QED
          BY <4>1, <4>2, Zenon
      <3>3. QED
        BY <3>1, <3>2
    <2>6. h = [k \in 0..(n + 1) |-> h[k]]
      OBVIOUS
    <2> HIDE DEF h
    <2>7. h = [k \in 0..(n + 1) |-> IF k = 0 THEN <<>> ELSE h[k - 1] \o seqs[k]]
      BY <2>5, <2>6, Zenon
    <2>8. QED
      BY <2>3, <2>7 DEF Flattens
  <1> HIDE DEF S
  <1>3. N \in S
    BY <1>0, <1>1, <1>2, Induction
  <1>4. PICK g \in [0..N -> Seq(X)] : Flattens(g, N, seqs)
    BY <1>0, <1>3 DEF S
  <1> DEFINE flat == CHOOSE f : Flattens(f, N, seqs)
  <1>5. Flattens(flat, N, seqs)
    BY <1>4, Zenon
  <1>6. Pipe!FlattenSeq(seqs) = flat[N]
    BY Zenon DEF Pipe!FlattenSeq, Flattens
  <1> HIDE DEF flat
  <1>7. \A k \in 0..N : flat[k] = IF k = 0 THEN <<>> ELSE flat[k - 1] \o seqs[k]
    BY <1>5 DEF Flattens
  <1>8. \A k \in 0..N : g[k] = IF k = 0 THEN <<>> ELSE g[k - 1] \o seqs[k]
    BY <1>4 DEF Flattens
  <1> DEFINE E == {n \in Nat : n <= N => flat[n] = g[n]}
  <1>9. 0 \in E
    <2>1. 0 \in 0..N
      BY <1>0
    <2>2. flat[0] = <<>> /\ g[0] = <<>>
      BY <1>7, <1>8, <2>1
    <2>3. QED
      BY <2>2
  <1>10. ASSUME NEW n \in Nat, n \in E PROVE n + 1 \in E
    <2> SUFFICES ASSUME n + 1 <= N PROVE flat[n + 1] = g[n + 1]
      OBVIOUS
    <2>1. n + 1 \in 0..N /\ n + 1 # 0 /\ (n + 1) - 1 = n /\ n <= N
      BY <1>0
    <2>2. flat[n + 1] = flat[n] \o seqs[n + 1] /\ g[n + 1] = g[n] \o seqs[n + 1]
      BY <1>7, <1>8, <2>1
    <2>3. QED
      BY <1>10, <2>1, <2>2
  <1>11. N \in E
    <2> HIDE DEF E
    <2>1. QED
      BY <1>0, <1>9, <1>10, Induction
  <1>12. QED
    BY <1>0, <1>4, <1>6, <1>11

\* No sequences in one.
LEMMA FlattenOfNothing == Pipe!FlattenSeq(<<>>) = <<>>
  <1>1. <<>> \in Seq(Seq({})) /\ Len(<<>>) = 0
    BY EmptySeq
  <1>2. PICK g \in [0..0 -> Seq({})] : Flattens(g, 0, <<>>) /\ Pipe!FlattenSeq(<<>>) = g[0]
    BY <1>1, FlattensExist
  <1>3. g[0] = <<>>
    BY <1>2 DEF Flattens
  <1>4. QED
    BY <1>2, <1>3

\* Sequences in one: the one that is appended comes last.
LEMMA FlattenOfAppend ==
  ASSUME NEW X, NEW seqs \in Seq(Seq(X)), NEW s \in Seq(X)
  PROVE  /\ Pipe!FlattenSeq(seqs) \in Seq(X)
         /\ Pipe!FlattenSeq(Append(seqs, s)) = Pipe!FlattenSeq(seqs) \o s
  <1> DEFINE N == Len(seqs)
             more == Append(seqs, s)
  <1>1. PICK g \in [0..N -> Seq(X)] : Flattens(g, N, seqs) /\ Pipe!FlattenSeq(seqs) = g[N]
    BY FlattensExist
  <1>2. N \in Nat /\ more \in Seq(Seq(X)) /\ Len(more) = N + 1 /\ more[N + 1] = s /\ \A k \in 1..N : more[k] = seqs[k]
    BY AppendProperties
  <1> HIDE DEF more
  <1>3. PICK h \in [0..(N + 1) -> Seq(X)] : Flattens(h, N + 1, more) /\ Pipe!FlattenSeq(more) = h[N + 1]
    BY <1>2, FlattensExist
  <1>4. \A k \in 0..N : g[k] = IF k = 0 THEN <<>> ELSE g[k - 1] \o seqs[k]
    BY <1>1 DEF Flattens
  <1>5. \A k \in 0..(N + 1) : h[k] = IF k = 0 THEN <<>> ELSE h[k - 1] \o more[k]
    BY <1>3 DEF Flattens
  <1> DEFINE E == {k \in Nat : k <= N => h[k] = g[k]}
  <1>6. 0 \in E
    <2>1. 0 \in 0..N /\ 0 \in 0..(N + 1)
      BY <1>2
    <2>2. h[0] = <<>> /\ g[0] = <<>>
      BY <1>4, <1>5, <2>1
    <2>3. QED
      BY <2>2
  <1>7. ASSUME NEW k \in Nat, k \in E PROVE k + 1 \in E
    <2> SUFFICES ASSUME k + 1 <= N PROVE h[k + 1] = g[k + 1]
      OBVIOUS
    <2>1. /\ k + 1 \in 0..N /\ k + 1 \in 0..(N + 1) /\ (k + 1) - 1 = k /\ k + 1 \in 1..N /\ k + 1 # 0 /\ k <= N
      BY <1>2
    <2>2. h[k + 1] = h[k] \o more[k + 1] /\ g[k + 1] = g[k] \o seqs[k + 1]
      BY <1>4, <1>5, <2>1
    <2>3. h[k] = g[k] /\ more[k + 1] = seqs[k + 1]
      BY <1>2, <1>7, <2>1
    <2>4. QED
      BY <2>2, <2>3
  <1>8. N \in E
    <2> HIDE DEF E
    <2>1. QED
      BY <1>2, <1>6, <1>7, Induction
  <1>9. h[N + 1] = h[N] \o s
    <2>1. N + 1 \in 0..(N + 1) /\ N + 1 # 0 /\ (N + 1) - 1 = N
      BY <1>2
    <2>2. QED
      BY <1>2, <1>5, <2>1
  <1>10. g[N] \in Seq(X) /\ h[N] = g[N]
    BY <1>2, <1>8
  <1>11. QED
    BY <1>1, <1>3, <1>9, <1>10 DEF more

\* A function, and its image of a text.
Maps(f, X, Y) == f \in [X -> Y]
Mapped(t, f) == [i \in DOMAIN t |-> f[t[i]]]

\* A sequence of the values of a function.
LEMMA MappedTyped ==
  ASSUME NEW X, NEW Y, NEW f, Maps(f, X, Y), NEW t \in Seq(X)
  PROVE  /\ Mapped(t, f) \in Seq(Y) /\ Len(Mapped(t, f)) = Len(t)
         /\ \A i \in 1..Len(t) : Mapped(t, f)[i] = f[t[i]]
  <1>1. Len(t) \in Nat /\ DOMAIN t = 1..Len(t) /\ \A i \in 1..Len(t) : t[i] \in X
    OBVIOUS
  <1>2. QED
    BY <1>1 DEF Mapped, Maps

\* The image of a sequence, element by element.
LEMMA MappedAppend ==
  ASSUME NEW X, NEW Y, NEW f, Maps(f, X, Y), NEW t \in Seq(X), NEW x \in X, NEW y \in Y, y = f[x]
  PROVE  Mapped(Append(t, x), f) = Append(Mapped(t, f), y)
  <1> DEFINE N == Len(t)
             u == Append(t, x)
             v == Append(Mapped(t, f), y)
  <1>1. Mapped(t, f) \in Seq(Y) /\ Len(Mapped(t, f)) = N /\ \A i \in 1..N : Mapped(t, f)[i] = f[t[i]]
    BY MappedTyped
  <1>2. N \in Nat /\ u \in Seq(X) /\ Len(u) = N + 1 /\ u[N + 1] = x /\ \A i \in 1..N : u[i] = t[i]
    OBVIOUS
  <1>3. v \in Seq(Y) /\ Len(v) = N + 1 /\ v[N + 1] = y /\ \A i \in 1..N : v[i] = f[t[i]]
    BY <1>1
  <1> HIDE DEF u, v
  <1>4. Mapped(u, f) \in Seq(Y) /\ Len(Mapped(u, f)) = N + 1 /\ \A i \in 1..(N + 1) : Mapped(u, f)[i] = f[u[i]]
    BY <1>2, MappedTyped
  <1>5. ASSUME NEW i \in 1..(N + 1) PROVE Mapped(u, f)[i] = v[i]
    BY <1>2, <1>3, <1>4
  <1>6. Mapped(u, f) = v
    BY <1>3, <1>4, <1>5, SeqEqual
  <1>7. QED
    BY <1>6 DEF u, v

\* The image of a beginning is the beginning of the image.
LEMMA MappedSubSeq ==
  ASSUME NEW X, NEW Y, NEW f, Maps(f, X, Y), NEW t \in Seq(X), NEW k \in 0..Len(t)
  PROVE  SubSeq(t, 1, k) \in Seq(X) /\ Mapped(SubSeq(t, 1, k), f) = SubSeq(Mapped(t, f), 1, k)
  <1> DEFINE N == Len(t)
             u == SubSeq(t, 1, k)
             v == SubSeq(Mapped(t, f), 1, k)
  <1>1. Mapped(t, f) \in Seq(Y) /\ Len(Mapped(t, f)) = N /\ \A i \in 1..N : Mapped(t, f)[i] = f[t[i]]
    BY MappedTyped
  <1>2. N \in Nat /\ u \in Seq(X) /\ Len(u) = k /\ \A i \in 1..k : u[i] = t[i]
    OBVIOUS
  <1>3. v \in Seq(Y) /\ Len(v) = k /\ \A i \in 1..k : v[i] = f[t[i]]
    BY <1>1, <1>2
  <1> HIDE DEF u, v
  <1>4. Mapped(u, f) \in Seq(Y) /\ Len(Mapped(u, f)) = k /\ \A i \in 1..k : Mapped(u, f)[i] = f[u[i]]
    BY <1>2, MappedTyped
  <1>5. ASSUME NEW i \in 1..k PROVE Mapped(u, f)[i] = v[i]
    BY <1>2, <1>3, <1>4
  <1>6. Mapped(u, f) = v
    BY <1>3, <1>4, <1>5, SeqEqual
  <1>7. QED
    BY <1>2, <1>6 DEF u, v

\* The sizes and the escapes of single scalars, as functions.
ByteOf == [x \in Scalars |-> x.bytes]
UnitOf == [x \in Scalars |-> x.units]
EscapeOf == [x \in Scalars |-> Pipe!Escape(x)]
EscapedBytesOf == [x \in Scalars |-> Pipe!Bytes(Pipe!Escape(x))]
EscapedUnitsOf == [x \in Scalars |-> Pipe!Units(Pipe!Escape(x))]

\* Bytes and Units are totals of the sizes of the scalars.
LEMMA SizesTyped ==
  /\ Maps(ByteOf, Scalars, Nat) /\ Maps(UnitOf, Scalars, Nat)
  /\ \A t \in Seq(Scalars) : Pipe!Bytes(t) = Pipe!Total(Mapped(t, ByteOf)) /\ Pipe!Units(t) = Pipe!Total(Mapped(t, UnitOf))
  <1>1. \A x \in Scalars : x.bytes \in Nat /\ x.units \in Nat
    BY TextAssumption
  <1>2. ASSUME NEW t \in Seq(Scalars)
        PROVE  Mapped(t, ByteOf) = [i \in DOMAIN t |-> t[i].bytes] /\ Mapped(t, UnitOf) = [i \in DOMAIN t |-> t[i].units]
    <2>1. \A i \in DOMAIN t : t[i] \in Scalars
      OBVIOUS
    <2>2. \A i \in DOMAIN t : ByteOf[t[i]] = t[i].bytes /\ UnitOf[t[i]] = t[i].units
      BY <2>1 DEF ByteOf, UnitOf
    <2>3. QED
      BY <2>2, Zenon DEF Mapped
  <1>3. QED
    BY <1>1, <1>2 DEF ByteOf, UnitOf, Pipe!Bytes, Pipe!Units, Maps

\* The size of a text.
LEMMA BytesOfAppend ==
  /\ Pipe!Bytes(<<>>) = 0 /\ Pipe!Units(<<>>) = 0
  /\ \A t \in Seq(Scalars) : Pipe!Bytes(t) \in Nat /\ Pipe!Units(t) \in Nat
  /\ \A t \in Seq(Scalars), x \in Scalars : Pipe!Bytes(Append(t, x)) = Pipe!Bytes(t) + x.bytes
  <1>1. <<>> \in Seq(Scalars) /\ Mapped(<<>>, ByteOf) = <<>> /\ Mapped(<<>>, UnitOf) = <<>>
    BY EmptySeq DEF Mapped
  <1>2. Pipe!Bytes(<<>>) = 0 /\ Pipe!Units(<<>>) = 0
    BY <1>1, SizesTyped, TotalOfNothing
  <1>3. ASSUME NEW t \in Seq(Scalars) PROVE Pipe!Bytes(t) \in Nat /\ Pipe!Units(t) \in Nat
    <2>1. Mapped(t, ByteOf) \in Seq(Nat) /\ Mapped(t, UnitOf) \in Seq(Nat)
      BY MappedTyped, SizesTyped
    <2>2. QED
      BY <2>1, SizesTyped, TotalOfAppend
  <1>4. ASSUME NEW t \in Seq(Scalars), NEW x \in Scalars PROVE Pipe!Bytes(Append(t, x)) = Pipe!Bytes(t) + x.bytes
    <2>1. Append(t, x) \in Seq(Scalars)
      BY AppendProperties
    <2>2. Mapped(t, ByteOf) \in Seq(Nat) /\ Mapped(Append(t, x), ByteOf) = Append(Mapped(t, ByteOf), ByteOf[x])
      <3>1. Maps(ByteOf, Scalars, Nat)
        BY SizesTyped
      <3>2. Mapped(t, ByteOf) \in Seq(Nat)
        BY <3>1, MappedTyped
      <3>3. PICK b \in Nat : b = ByteOf[x]
        BY <3>1 DEF Maps
      <3>4. Mapped(Append(t, x), ByteOf) = Append(Mapped(t, ByteOf), b)
        BY <3>1, <3>3, MappedAppend
      <3>5. QED
        BY <3>2, <3>3, <3>4
    <2>3. ByteOf[x] = x.bytes /\ x.bytes \in Nat
      BY TextAssumption DEF ByteOf
    <2>4. Pipe!Total(Append(Mapped(t, ByteOf), x.bytes)) = Pipe!Total(Mapped(t, ByteOf)) + x.bytes
      BY <2>2, <2>3, TotalOfAppend
    <2>5. QED
      BY <2>1, <2>2, <2>3, <2>4, SizesTyped
  <1>5. QED
    BY <1>2, <1>3, <1>4

\* The bytes of two texts, one after the other.
LEMMA BytesOfConcat ==
  ASSUME NEW s \in Seq(Scalars), NEW t \in Seq(Scalars)
  PROVE  Pipe!Bytes(s \o t) = Pipe!Bytes(s) + Pipe!Bytes(t)
  <1> DEFINE P == {u \in Seq(Scalars) : Pipe!Bytes(s \o u) = Pipe!Bytes(s) + Pipe!Bytes(u)}
  <1>1. <<>> \in P
    <2>1. s \o <<>> = s /\ <<>> \in Seq(Scalars)
      BY ConcatEmptySeq, EmptySeq
    <2>2. QED
      BY <2>1, BytesOfAppend
  <1>2. ASSUME NEW u \in Seq(Scalars), NEW x \in Scalars, u \in P PROVE Append(u, x) \in P
    <2>1. Append(u, x) \in Seq(Scalars) /\ s \o u \in Seq(Scalars) /\ s \o Append(u, x) = Append(s \o u, x)
      BY AppendConcat
    <2>2. /\ Pipe!Bytes(Append(s \o u, x)) = Pipe!Bytes(s \o u) + x.bytes
          /\ Pipe!Bytes(Append(u, x)) = Pipe!Bytes(u) + x.bytes
      BY <2>1, BytesOfAppend
    <2>3. Pipe!Bytes(s) \in Nat /\ Pipe!Bytes(u) \in Nat /\ x.bytes \in Nat
      BY BytesOfAppend, TextAssumption
    <2>4. Pipe!Bytes(s \o u) = Pipe!Bytes(s) + Pipe!Bytes(u)
      BY <1>2
    <2>5. Pipe!Bytes(s \o Append(u, x)) = Pipe!Bytes(s \o u) + x.bytes
      BY <2>1, <2>2, Zenon
    <2>6. Pipe!Bytes(s \o Append(u, x)) = Pipe!Bytes(s) + Pipe!Bytes(Append(u, x))
      BY <2>2, <2>3, <2>4, <2>5
    <2>7. QED
      BY <2>1, <2>6
  <1> HIDE DEF P
  <1>3. t \in P
    BY <1>1, <1>2, SequenceInduction
  <1>4. QED
    BY <1>3 DEF P

\* Encoded and the sizes that the encoders look at, as images of the text.
LEMMA EscapesTyped ==
  /\ Maps(EscapeOf, Scalars, Seq(Scalars))
  /\ Maps(EscapedBytesOf, Scalars, Nat) /\ Maps(EscapedUnitsOf, Scalars, Nat)
  /\ \A t \in Seq(Scalars) :
        /\ Pipe!Encoded(t) = Pipe!FlattenSeq(Mapped(t, EscapeOf))
        /\ [i \in DOMAIN t |-> t[i].bytes] = Mapped(t, ByteOf)
        /\ [i \in DOMAIN t |-> Pipe!Bytes(Pipe!Escape(t[i]))] = Mapped(t, EscapedBytesOf)
        /\ [i \in DOMAIN t |-> Pipe!Units(Pipe!Escape(t[i]))] = Mapped(t, EscapedUnitsOf)
  <1>1. ASSUME NEW x \in Scalars PROVE Pipe!Escape(x) \in Seq(Scalars)
    <2>1. x.escape \in Nat /\ Pipe!Ascii \in Scalars
      BY TextAssumption
    <2>2. [k \in 1..x.escape |-> Pipe!Ascii] \in Seq(Scalars)
      BY <2>1
    <2>3. QED
      BY <2>2 DEF Pipe!Escape
  <1>2. \A x \in Scalars : Pipe!Bytes(Pipe!Escape(x)) \in Nat /\ Pipe!Units(Pipe!Escape(x)) \in Nat
    BY <1>1, BytesOfAppend
  <1>3. ASSUME NEW t \in Seq(Scalars)
        PROVE  /\ Pipe!Encoded(t) = Pipe!FlattenSeq(Mapped(t, EscapeOf))
               /\ [i \in DOMAIN t |-> t[i].bytes] = Mapped(t, ByteOf)
               /\ [i \in DOMAIN t |-> Pipe!Bytes(Pipe!Escape(t[i]))] = Mapped(t, EscapedBytesOf)
               /\ [i \in DOMAIN t |-> Pipe!Units(Pipe!Escape(t[i]))] = Mapped(t, EscapedUnitsOf)
    <2>1. \A i \in DOMAIN t : t[i] \in Scalars
      OBVIOUS
    <2>2. \A i \in DOMAIN t :
             /\ ByteOf[t[i]] = t[i].bytes /\ EscapeOf[t[i]] = Pipe!Escape(t[i])
             /\ EscapedBytesOf[t[i]] = Pipe!Bytes(Pipe!Escape(t[i]))
             /\ EscapedUnitsOf[t[i]] = Pipe!Units(Pipe!Escape(t[i]))
      BY <2>1 DEF ByteOf, EscapeOf, EscapedBytesOf, EscapedUnitsOf
    <2>3. [i \in DOMAIN t |-> Pipe!Escape(t[i])] = Mapped(t, EscapeOf)
      BY <2>2, Zenon DEF Mapped
    <2>4. [i \in DOMAIN t |-> t[i].bytes] = Mapped(t, ByteOf)
      BY <2>2, Zenon DEF Mapped
    <2>5. [i \in DOMAIN t |-> Pipe!Bytes(Pipe!Escape(t[i]))] = Mapped(t, EscapedBytesOf)
      BY <2>2, Zenon DEF Mapped
    <2>6. [i \in DOMAIN t |-> Pipe!Units(Pipe!Escape(t[i]))] = Mapped(t, EscapedUnitsOf)
      BY <2>2, Zenon DEF Mapped
    <2>7. QED
      BY <2>3, <2>4, <2>5, <2>6, Zenon DEF Pipe!Encoded
  <1>4. QED
    BY <1>1, <1>2, <1>3 DEF EscapeOf, EscapedBytesOf, EscapedUnitsOf, Maps

\* Encoding is scalar by scalar.
LEMMA EncodedOfAppend ==
  /\ Pipe!Encoded(<<>>) = <<>>
  /\ \A t \in Seq(Scalars) : Pipe!Encoded(t) \in Seq(Scalars)
  /\ \A t \in Seq(Scalars), x \in Scalars :
        Pipe!Encoded(Append(t, x)) = Pipe!Encoded(t) \o Pipe!Escape(x) /\ Pipe!Escape(x) \in Seq(Scalars)
  <1>1. Pipe!Encoded(<<>>) = <<>>
    <2>1. <<>> \in Seq(Scalars) /\ Mapped(<<>>, EscapeOf) = <<>>
      BY EmptySeq DEF Mapped
    <2>2. QED
      BY <2>1, EscapesTyped, FlattenOfNothing
  <1>2. ASSUME NEW t \in Seq(Scalars), NEW x \in Scalars
        PROVE  /\ Pipe!Encoded(t) \in Seq(Scalars)
               /\ Pipe!Encoded(Append(t, x)) = Pipe!Encoded(t) \o Pipe!Escape(x) /\ Pipe!Escape(x) \in Seq(Scalars)
    <2>1. Maps(EscapeOf, Scalars, Seq(Scalars)) /\ EscapeOf[x] = Pipe!Escape(x)
      BY EscapesTyped DEF EscapeOf
    <2>2. /\ Mapped(t, EscapeOf) \in Seq(Seq(Scalars))
          /\ Mapped(Append(t, x), EscapeOf) = Append(Mapped(t, EscapeOf), EscapeOf[x])
      <3>1. Mapped(t, EscapeOf) \in Seq(Seq(Scalars))
        BY <2>1, MappedTyped
      <3>2. PICK b \in Seq(Scalars) : b = EscapeOf[x]
        BY <2>1 DEF Maps
      <3>3. Mapped(Append(t, x), EscapeOf) = Append(Mapped(t, EscapeOf), b)
        BY <2>1, <3>2, MappedAppend
      <3>4. QED
        BY <3>1, <3>2, <3>3
    <2>3. EscapeOf[x] \in Seq(Scalars) /\ Append(t, x) \in Seq(Scalars)
      BY <2>1, AppendProperties DEF Maps
    <2>4. PICK m \in Seq(Seq(Scalars)) : m = Mapped(t, EscapeOf)
      BY <2>2
    <2>5. PICK e \in Seq(Scalars) : e = EscapeOf[x]
      BY <2>3
    <2>6. Pipe!FlattenSeq(m) \in Seq(Scalars) /\ Pipe!FlattenSeq(Append(m, e)) = Pipe!FlattenSeq(m) \o e
      BY FlattenOfAppend
    <2>7. Pipe!Encoded(t) = Pipe!FlattenSeq(m) /\ Pipe!Encoded(Append(t, x)) = Pipe!FlattenSeq(Append(m, e))
      BY <2>2, <2>3, <2>4, <2>5, EscapesTyped
    <2>8. QED
      BY <2>1, <2>5, <2>6, <2>7
  <1>3. ASSUME NEW t \in Seq(Scalars) PROVE Pipe!Encoded(t) \in Seq(Scalars)
    <2>1. Pipe!Ascii \in Scalars
      BY TextAssumption
    <2>2. QED
      BY <1>2, <2>1
  <1>4. QED
    BY <1>1, <1>2, <1>3

\* The HtmlEncoder encodes a text part by part.
LEMMA EncodedOfConcat ==
  ASSUME NEW s \in Seq(Scalars), NEW t \in Seq(Scalars)
  PROVE  Pipe!Encoded(s \o t) = Pipe!Encoded(s) \o Pipe!Encoded(t)
  <1> DEFINE P == {u \in Seq(Scalars) : Pipe!Encoded(s \o u) = Pipe!Encoded(s) \o Pipe!Encoded(u)}
  <1>0. Pipe!Encoded(s) \in Seq(Scalars)
    BY EncodedOfAppend
  <1>1. <<>> \in P
    <2>1. s \o <<>> = s /\ <<>> \in Seq(Scalars) /\ Pipe!Encoded(s) \o <<>> = Pipe!Encoded(s)
      BY <1>0, ConcatEmptySeq, EmptySeq
    <2>2. QED
      BY <2>1, EncodedOfAppend
  <1>2. ASSUME NEW u \in Seq(Scalars), NEW x \in Scalars, u \in P PROVE Append(u, x) \in P
    <2>1. Append(u, x) \in Seq(Scalars) /\ s \o u \in Seq(Scalars) /\ s \o Append(u, x) = Append(s \o u, x)
      BY AppendConcat
    <2>2. /\ Pipe!Encoded(Append(s \o u, x)) = Pipe!Encoded(s \o u) \o Pipe!Escape(x)
          /\ Pipe!Encoded(Append(u, x)) = Pipe!Encoded(u) \o Pipe!Escape(x)
      BY <2>1, EncodedOfAppend
    <2>3. Pipe!Encoded(u) \in Seq(Scalars) /\ Pipe!Escape(x) \in Seq(Scalars)
      BY EncodedOfAppend
    <2>4. (Pipe!Encoded(s) \o Pipe!Encoded(u)) \o Pipe!Escape(x) = Pipe!Encoded(s) \o (Pipe!Encoded(u) \o Pipe!Escape(x))
      BY <1>0, <2>3, ConcatAssociative
    <2>5. Pipe!Encoded(s \o u) = Pipe!Encoded(s) \o Pipe!Encoded(u)
      BY <1>2
    <2>6. Pipe!Encoded(s \o Append(u, x)) = Pipe!Encoded(s) \o Pipe!Encoded(Append(u, x))
      BY <2>1, <2>2, <2>4, <2>5, Zenon
    <2>7. QED
      BY <2>1, <2>6
  <1> HIDE DEF P
  <1>3. t \in P
    BY <1>1, <1>2, SequenceInduction
  <1>4. QED
    BY <1>3 DEF P

\* What FitEncodedBytes adds up are the bytes of the encoded text.
LEMMA BytesOfEncoded ==
  ASSUME NEW t \in Seq(Scalars)
  PROVE  Pipe!Bytes(Pipe!Encoded(t)) = Pipe!Total(Mapped(t, EscapedBytesOf))
  <1> DEFINE P == {u \in Seq(Scalars) : Pipe!Bytes(Pipe!Encoded(u)) = Pipe!Total(Mapped(u, EscapedBytesOf))}
  <1>1. <<>> \in P
    <2>1. <<>> \in Seq(Scalars) /\ Mapped(<<>>, EscapedBytesOf) = <<>>
      BY EmptySeq DEF Mapped
    <2>2. QED
      BY <2>1, EncodedOfAppend, BytesOfAppend, TotalOfNothing
  <1>2. ASSUME NEW u \in Seq(Scalars), NEW x \in Scalars, u \in P PROVE Append(u, x) \in P
    <2>1. Append(u, x) \in Seq(Scalars)
      BY AppendProperties
    <2>2. PICK e \in Seq(Scalars), v \in Seq(Scalars) : e = Pipe!Encoded(u) /\ v = Pipe!Escape(x)
      BY EncodedOfAppend
    <2>3. Pipe!Encoded(Append(u, x)) = e \o v
      BY <2>2, EncodedOfAppend
    <2>4. Pipe!Bytes(e \o v) = Pipe!Bytes(e) + Pipe!Bytes(v)
      BY BytesOfConcat
    <2>5. Maps(EscapedBytesOf, Scalars, Nat) /\ EscapedBytesOf[x] = Pipe!Bytes(v)
      BY <2>2, EscapesTyped DEF EscapedBytesOf
    <2>6. /\ Mapped(u, EscapedBytesOf) \in Seq(Nat)
          /\ Mapped(Append(u, x), EscapedBytesOf) = Append(Mapped(u, EscapedBytesOf), EscapedBytesOf[x])
      <3>1. Mapped(u, EscapedBytesOf) \in Seq(Nat)
        BY <2>5, MappedTyped
      <3>2. PICK b \in Nat : b = EscapedBytesOf[x]
        BY <2>5 DEF Maps
      <3>3. Mapped(Append(u, x), EscapedBytesOf) = Append(Mapped(u, EscapedBytesOf), b)
        BY <2>5, <3>2, MappedAppend
      <3>4. QED
        BY <3>1, <3>2, <3>3
    <2>7. PICK m \in Seq(Nat), n \in Nat : m = Mapped(u, EscapedBytesOf) /\ n = Pipe!Bytes(v)
      BY <2>5, <2>6 DEF Maps
    <2>8. Pipe!Total(Append(m, n)) = Pipe!Total(m) + n
      BY TotalOfAppend
    <2>9. Pipe!Total(Mapped(Append(u, x), EscapedBytesOf)) = Pipe!Total(m) + n
      BY <2>5, <2>6, <2>7, <2>8
    <2>10. Pipe!Bytes(e) = Pipe!Total(m)
      BY <1>2, <2>2, <2>7
    <2>11. QED
      BY <2>1, <2>3, <2>4, <2>7, <2>9, <2>10
  <1> HIDE DEF P
  <1>3. t \in P
    BY <1>1, <1>2, SequenceInduction
  <1>4. QED
    BY <1>3 DEF P

\* The largest and the smallest of some numbers.
LEMMA MaxMember ==
  ASSUME NEW n \in Nat, NEW S \in SUBSET (0..n), S # {}
  PROVE  Pipe!Max(S) \in S
  <1> DEFINE T == {n - x : x \in S}
  <1>1. IsWellFoundedOn(LessThan, Nat)
    <2>1. OpToRel(<, Nat) = LessThan
      BY DEF OpToRel, LessThan
    <2>2. QED
      BY <2>1, NatLessThanWellFounded
  <1>2. T \in SUBSET Nat /\ T # {}
    <2>1. \A x \in S : x \in 0..n /\ n - x \in Nat
      OBVIOUS
    <2>2. QED
      BY <2>1
  <1>3. PICK m \in T : \A k \in T : <<k, m>> \notin LessThan
    BY <1>1, <1>2, WFMin
  <1>4. PICK x \in S : m = n - x
    BY <1>3
  <1>5. ASSUME NEW y \in S PROVE x >= y
    <2>1. n - y \in T
      OBVIOUS
    <2> HIDE DEF T
    <2>2. ~(n - y < n - x)
      BY <1>2, <1>3, <1>4, <2>1 DEF LessThan
    <2>3. x \in Nat /\ y \in Nat
      OBVIOUS
    <2>4. QED
      BY <2>2, <2>3
  <1>6. QED
    BY <1>5 DEF Pipe!Max

\* The smallest number of a set is one of its members.
LEMMA MinMember ==
  ASSUME NEW S \in SUBSET Nat, S # {}
  PROVE  Pipe!Min(S) \in S
  <1>1. IsWellFoundedOn(LessThan, Nat)
    <2>1. OpToRel(<, Nat) = LessThan
      BY DEF OpToRel, LessThan
    <2>2. QED
      BY <2>1, NatLessThanWellFounded
  <1>2. PICK x \in S : \A k \in S : <<k, x>> \notin LessThan
    BY <1>1, WFMin
  <1>3. ASSUME NEW y \in S PROVE x =< y
    <2>1. x \in Nat /\ y \in Nat /\ <<y, x>> \notin LessThan
      BY <1>2
    <2>2. ~(y < x)
      BY <2>1 DEF LessThan
    <2>3. QED
      BY <2>1, <2>2
  <1>4. QED
    BY <1>3 DEF Pipe!Min

\* The hints are lengths.
LEMMA HintsTyped ==
  ASSUME NEW a \in Nat, NEW b \in Nat
  PROVE  Pipe!Max({a, b}) \in Nat /\ Pipe!Min({a, b}) \in Nat
  <1>1. {a, b} \in SUBSET (0..(a + b)) /\ {a, b} # {} /\ a + b \in Nat
    OBVIOUS
  <1>2. Pipe!Max({a, b}) \in {a, b}
    BY <1>1, MaxMember
  <1>3. Pipe!Min({a, b}) \in {a, b}
    BY MinMember
  <1>4. QED
    BY <1>2, <1>3

\* What the pipe and the pool answer are lengths.
LEMMA GrantsTyped ==
  ASSUME NEW hint \in Nat
  PROVE  Pipe!Grants(hint) \subseteq Nat
  <1>1. {1, hint} \cup {0} \in SUBSET (0..(hint + 1)) /\ {1, hint} \cup {0} # {} /\ hint + 1 \in Nat
    OBVIOUS
  <1>2. Pipe!Max({1, hint} \cup {0}) \in {1, hint} \cup {0}
    BY <1>1, MaxMember
  <1>3. Pipe!MaxOf({1, hint}) \in Nat
    BY <1>2 DEF Pipe!MaxOf
  <1>4. Slack \in Nat
    BY TextAssumption
  <1>5. QED
    BY <1>3, <1>4 DEF Pipe!Grants

\* What fits is a part of the text that is not longer than its destination.
LEMMA FitIsInside ==
  ASSUME NEW sizes \in Seq(Nat), NEW n \in Nat
  PROVE  Pipe!Fit(sizes, n) \in 0..Len(sizes) /\ Pipe!Total(SubSeq(sizes, 1, Pipe!Fit(sizes, n))) <= n
  <1> DEFINE N == Len(sizes)
             S == {k \in DOMAIN sizes : Pipe!Total(SubSeq(sizes, 1, k)) <= n}
  <1>1. N \in Nat /\ S \cup {0} \in SUBSET (0..N) /\ S \cup {0} # {}
    OBVIOUS
  <1>2. Pipe!Fit(sizes, n) = Pipe!Max(S \cup {0})
    BY Zenon DEF Pipe!Fit, Pipe!MaxOf, Pipe!UpTo
  <1>3. PICK k \in S \cup {0} : k = Pipe!Fit(sizes, n)
    <2> HIDE DEF S
    <2>1. QED
      BY <1>1, <1>2, MaxMember
  <1>4. SubSeq(sizes, 1, 0) = <<>>
    BY SubSeqEmpty
  <1>5. Pipe!Total(SubSeq(sizes, 1, k)) <= n
    <2>1. CASE k \in S
      BY <2>1
    <2>2. CASE k = 0
      <3>1. SubSeq(sizes, 1, k) = <<>>
        BY <1>4, <2>2, Zenon
      <3>2. \A t : t = <<>> => Pipe!Total(t) = 0
        BY TotalOfNothing
      <3>3. Pipe!Total(SubSeq(sizes, 1, k)) = 0
        BY <3>1, <3>2, Zenon
      <3>4. QED
        BY <3>3
    <2>3. QED
      BY <1>3, <2>1, <2>2
  <1>6. QED
    BY <1>1, <1>3, <1>5

\* A text is its first scalars and the rest of them.
LEMMA SplitText ==
  ASSUME NEW t \in Seq(Scalars), NEW k \in 0..Len(t)
  PROVE  /\ Pipe!UpTo(t, k) \in Seq(Scalars) /\ Pipe!From(t, k) \in Seq(Scalars)
         /\ Pipe!UpTo(t, k) \o Pipe!From(t, k) = t
  <1>1. \A i \in 1..Len(t) : t[i] \in Scalars
    OBVIOUS
  <1>2. SubSeq(t, 1, k) \in Seq(Scalars) /\ SubSeq(t, k + 1, Len(t)) \in Seq(Scalars)
    BY <1>1
  <1>3. SubSeq(t, 1, Len(t)) = SubSeq(t, 1, k) \o SubSeq(t, k + 1, Len(t))
    <2>1. 1 \in 1..(Len(t) + 1) /\ k \in (1 - 1)..Len(t) /\ Len(t) \in k..Len(t)
      OBVIOUS
    <2>2. QED
      BY <2>1, ConcatAdjacentSubSeq
  <1>4. SubSeq(t, 1, Len(t)) = t
    BY SubSeqFull
  <1>5. QED
    BY <1>2, <1>3, <1>4 DEF Pipe!UpTo, Pipe!From

\* A part of the text, whatever the destination.
LEMMA FitsInText ==
  ASSUME NEW t \in Seq(Scalars), NEW n
  PROVE  Pipe!FitEncodedUnits(t, n) \in 0..Len(t)
  <1> DEFINE sizes == Mapped(t, EscapedUnitsOf)
             S == {k \in DOMAIN sizes : Pipe!Total(Pipe!UpTo(sizes, k)) <= n}
  <1>1. sizes \in Seq(Nat) /\ Len(sizes) = Len(t)
    BY MappedTyped, EscapesTyped
  <1>2. Pipe!FitEncodedUnits(t, n) = Pipe!Max(S \cup {0})
    BY EscapesTyped, Zenon DEF Pipe!FitEncodedUnits, Pipe!Fit, Pipe!MaxOf
  <1> HIDE DEF sizes
  <1>3. Len(t) \in Nat /\ S \cup {0} \in SUBSET (0..Len(t)) /\ S \cup {0} # {}
    BY <1>1
  <1> HIDE DEF S
  <1>4. QED
    BY <1>2, <1>3, MaxMember

\* What an encoder takes is a beginning of the text, and fits into the destination.
LEMMA FitTyped ==
  ASSUME NEW t \in Seq(Scalars), NEW n \in Nat
  PROVE  /\ Pipe!FitBytes(t, n) \in 0..Len(t) /\ Pipe!Bytes(Pipe!UpTo(t, Pipe!FitBytes(t, n))) <= n
         /\ Pipe!FitEncodedBytes(t, n) \in 0..Len(t)
         /\ Pipe!Bytes(Pipe!Encoded(Pipe!UpTo(t, Pipe!FitEncodedBytes(t, n)))) <= n
         /\ Pipe!FitEncodedUnits(t, n) \in 0..Len(t)
  <1>1. /\ Mapped(t, ByteOf) \in Seq(Nat) /\ Len(Mapped(t, ByteOf)) = Len(t)
        /\ Mapped(t, EscapedBytesOf) \in Seq(Nat) /\ Len(Mapped(t, EscapedBytesOf)) = Len(t)
        /\ Mapped(t, EscapedUnitsOf) \in Seq(Nat) /\ Len(Mapped(t, EscapedUnitsOf)) = Len(t)
    <2>1. Mapped(t, ByteOf) \in Seq(Nat) /\ Len(Mapped(t, ByteOf)) = Len(t)
      BY MappedTyped, SizesTyped
    <2>2. Mapped(t, EscapedBytesOf) \in Seq(Nat) /\ Len(Mapped(t, EscapedBytesOf)) = Len(t)
      BY MappedTyped, EscapesTyped
    <2>3. Mapped(t, EscapedUnitsOf) \in Seq(Nat) /\ Len(Mapped(t, EscapedUnitsOf)) = Len(t)
      BY MappedTyped, EscapesTyped
    <2>4. QED
      BY <2>1, <2>2, <2>3
  <1>2. /\ Pipe!FitBytes(t, n) = Pipe!Fit(Mapped(t, ByteOf), n)
        /\ Pipe!FitEncodedBytes(t, n) = Pipe!Fit(Mapped(t, EscapedBytesOf), n)
        /\ Pipe!FitEncodedUnits(t, n) = Pipe!Fit(Mapped(t, EscapedUnitsOf), n)
    BY EscapesTyped DEF Pipe!FitBytes, Pipe!FitEncodedBytes, Pipe!FitEncodedUnits
  <1>3. Pipe!FitEncodedUnits(t, n) \in 0..Len(t)
    BY <1>1, <1>2, FitIsInside
  <1>4. Pipe!FitBytes(t, n) \in 0..Len(t) /\ Pipe!Bytes(Pipe!UpTo(t, Pipe!FitBytes(t, n))) <= n
    <2> DEFINE m == Mapped(t, ByteOf)
    <2>1. PICK k \in 0..Len(t) : k = Pipe!FitBytes(t, n) /\ Pipe!Total(SubSeq(m, 1, k)) <= n
      BY <1>1, <1>2, FitIsInside
    <2>2. SubSeq(t, 1, k) \in Seq(Scalars) /\ Mapped(SubSeq(t, 1, k), ByteOf) = SubSeq(m, 1, k)
      BY MappedSubSeq, SizesTyped
    <2>3. Pipe!Bytes(SubSeq(t, 1, k)) = Pipe!Total(SubSeq(m, 1, k))
      BY <2>2, SizesTyped
    <2>4. QED
      BY <2>1, <2>3 DEF Pipe!UpTo
  <1>5. /\ Pipe!FitEncodedBytes(t, n) \in 0..Len(t)
        /\ Pipe!Bytes(Pipe!Encoded(Pipe!UpTo(t, Pipe!FitEncodedBytes(t, n)))) <= n
    <2> DEFINE m == Mapped(t, EscapedBytesOf)
    <2>1. PICK k \in 0..Len(t) : k = Pipe!FitEncodedBytes(t, n) /\ Pipe!Total(SubSeq(m, 1, k)) <= n
      BY <1>1, <1>2, FitIsInside
    <2>2. SubSeq(t, 1, k) \in Seq(Scalars) /\ Mapped(SubSeq(t, 1, k), EscapedBytesOf) = SubSeq(m, 1, k)
      BY MappedSubSeq, EscapesTyped
    <2>3. Pipe!Bytes(Pipe!Encoded(SubSeq(t, 1, k))) = Pipe!Total(SubSeq(m, 1, k))
      BY <2>2, BytesOfEncoded
    <2>4. QED
      BY <2>1, <2>3 DEF Pipe!UpTo
  <1>6. QED
    BY <1>3, <1>4, <1>5

-----------------------------------------------------------------------------
(* A text is in the output, in the granted span, in the text of the inner    *)
(* WriteHtml, in the buffer and in the rest, in this order.                  *)

\* What a method still has to write, from its rest and from every buffer.
Pending == IF op \in {"WriteHtml", "WriteInternal"} THEN rest ELSE Pipe!Encoded(rest)
Left == html \o (buffer \o Pending)

\* The inductive invariant: no scalar of the encoded text is lost or written twice,
\* the buffers are empty where the code does not use them, the arrays are those of
\* the method, and what was written and what is left of the span fit into it.
PipeTyped ==
  /\ op \in Pipe!Ops /\ text \in Texts
  /\ encoded \in Seq(Scalars) /\ waiting \in Seq(Scalars) /\ html \in Seq(Scalars)
  /\ buffer \in Seq(Scalars) /\ rest \in Seq(Scalars)
  /\ span \in Nat /\ granted \in Nat /\ length \in Nat /\ minimum \in Nat
NothingLost == Pipe!Expected = encoded \o (waiting \o Left)
Places ==
  /\ pipePc # "html" => html = <<>>
  /\ pipePc # "rented" => buffer = <<>>
  /\ pipePc = "done" => rest = <<>> /\ waiting = <<>>
  /\ pipePc \in {"start", "format"} => rest = text /\ waiting = <<>>
  /\ pipePc = "small" /\ rest = <<>> => text = <<>> /\ waiting = <<>>
Arrays ==
  \/ pipePc \in {"start", "done"} /\ rented = 0
  \/ pipePc = "writer" /\ rented = 0 /\ op = "WriteInternal"
  \/ /\ pipePc = "format" /\ rented = 1 /\ Pipe!FormatArrays = 1
     /\ op \in {"WriteSpanFormattable", "WriteUtf8SpanFormattable"}
  \/ /\ pipePc = "utf8" /\ rented = Pipe!FormatArrays
     /\ op \in {"HtmlEncodeAndWriteUtf8", "WriteUtf8SpanFormattable"}
  \/ /\ pipePc \in {"rented", "small"} /\ rented = Pipe!FormatArrays + Pipe!EncodingArrays
     /\ op \in {"HtmlEncodeAndWrite", "WriteSpanFormattable"}
     /\ pipePc = "rented" <=> Pipe!Units(text) > SmallChars
  \/ /\ pipePc = "html" /\ rented = Pipe!FormatArrays + Pipe!EncodingArrays
     /\ op \in {"WriteHtml", "HtmlEncodeAndWrite", "WriteSpanFormattable"}
     /\ op = "WriteHtml" => rest = <<>>
InsideSpan == Pipe!Bytes(waiting) + span <= granted
PipeInv == PipeTyped /\ NothingLost /\ Places /\ Arrays /\ InsideSpan

Associates(x, y, z) == (x \o y) \o z = x \o (y \o z)

\* Associativity, behind a name: the provers need it for one triple at a time.
LEMMA ConcatAssociates ==
  ASSUME NEW T, NEW x \in Seq(T), NEW y \in Seq(T), NEW z \in Seq(T)
  PROVE  Associates(x, y, z)
  BY ConcatAssociative DEF Associates

\* Texts, one after the other.
LEMMA ConcatsRegroup ==
  ASSUME NEW a \in Seq(Scalars), NEW b \in Seq(Scalars), NEW c \in Seq(Scalars)
  PROVE  /\ a \o b \in Seq(Scalars) /\ <<>> \in Seq(Scalars) /\ <<>> \o a = a /\ a \o <<>> = a
         /\ (a \o b) \o c = a \o (b \o c)
  BY ConcatProperties, ConcatEmptySeq, ConcatAssociative, EmptySeq

\* What is left of a text is a text.
LEMMA PendingTyped ==
  ASSUME PipeTyped
  PROVE  /\ Pending \in Seq(Scalars) /\ Left \in Seq(Scalars) /\ Pipe!Expected \in Seq(Scalars) /\ text \in Seq(Scalars)
         /\ Pipe!Units(text) \in Nat /\ Pipe!Bytes(text) \in Nat
         /\ Pipe!FormatArrays \in {0, 1} /\ Pipe!EncodingArrays \in {0, 1}
  <1>1. text \in Seq(Scalars)
    BY TextAssumption DEF PipeTyped
  <1>2. Pending \in Seq(Scalars) /\ Pipe!Expected \in Seq(Scalars)
    BY <1>1, EncodedOfAppend DEF PipeTyped, Pending, Pipe!Expected
  <1>3. buffer \o Pending \in Seq(Scalars)
    BY <1>2, ConcatProperties DEF PipeTyped
  <1>4. Left \in Seq(Scalars)
    BY <1>3, ConcatProperties DEF PipeTyped, Left
  <1>5. Pipe!FormatArrays \in {0, 1} /\ Pipe!EncodingArrays \in {0, 1}
    BY DEF Pipe!FormatArrays, Pipe!EncodingArrays
  <1>6. QED
    BY <1>1, <1>2, <1>4, <1>5, BytesOfAppend

\* PendingTyped after a step.
LEMMA LeftTypedNext ==
  ASSUME PipeTyped'
  PROVE  Left' \in Seq(Scalars)
  <1>1. Pending' \in Seq(Scalars)
    BY EncodedOfAppend DEF PipeTyped, Pending
  <1>2. (buffer \o Pending)' \in Seq(Scalars)
    BY <1>1, ConcatProperties DEF PipeTyped
  <1>3. QED
    BY <1>2, ConcatProperties DEF PipeTyped, Left

\* What a call writes, and the arrays it rents, are fixed when it starts.
LEMMA CallKept ==
  ASSUME op' = op, text' = text
  PROVE  Pipe!Expected' = Pipe!Expected /\ Pipe!FormatArrays' = Pipe!FormatArrays /\ Pipe!EncodingArrays' = Pipe!EncodingArrays
  BY DEF Pipe!Expected, Pipe!FormatArrays, Pipe!EncodingArrays

\* Advance: the granted span becomes output.
LEMMA Advanced ==
  ASSUME PipeInv, PipeTyped', op' = op, text' = text, encoded' = encoded \o waiting, waiting' = <<>>, Left' = Left
  PROVE  NothingLost'
  <1>1. PICK l \in Seq(Scalars) : l = Left
    BY PendingTyped DEF PipeInv
  <1>2. (encoded \o waiting) \o (<<>> \o l) = encoded \o (waiting \o l)
    <2>1. encoded \in Seq(Scalars) /\ waiting \in Seq(Scalars)
      BY DEF PipeInv, PipeTyped
    <2>2. <<>> \o l = l
      BY ConcatsRegroup
    <2>3. (encoded \o waiting) \o l = encoded \o (waiting \o l)
      BY <2>1, ConcatsRegroup
    <2>4. QED
      BY <2>2, <2>3
  <1>3. Pipe!Expected' = Pipe!Expected
    BY CallKept
  <1>4. QED
    BY <1>1, <1>2, <1>3 DEF PipeInv, NothingLost

\* Part of what is left goes into the granted span.
LEMMA Moved ==
  ASSUME PipeInv, PipeTyped', op' = op, text' = text, encoded' = encoded,
         NEW new \in Seq(Scalars), waiting' = waiting \o new, Left = new \o Left',
         Pipe!Bytes(new) <= span, span' = span - Pipe!Bytes(new), granted' = granted
  PROVE  NothingLost' /\ InsideSpan'
  <1>1. PICK l \in Seq(Scalars) : l = Left'
    BY LeftTypedNext
  <1>2. encoded \in Seq(Scalars) /\ waiting \in Seq(Scalars) /\ span \in Nat /\ granted \in Nat
    BY DEF PipeInv, PipeTyped
  <1>3. (waiting \o new) \o l = waiting \o (new \o l)
    <2>1. Associates(waiting, new, l)
      BY <1>2, ConcatAssociates
    <2>2. QED
      BY <2>1, Zenon DEF Associates
  <1>4. Pipe!Expected' = Pipe!Expected
    BY CallKept
  <1>5. NothingLost'
    BY <1>1, <1>3, <1>4 DEF PipeInv, NothingLost
  <1>6. Pipe!Bytes(waiting \o new) = Pipe!Bytes(waiting) + Pipe!Bytes(new)
    BY <1>2, BytesOfConcat
  <1>7. Pipe!Bytes(waiting) \in Nat /\ Pipe!Bytes(new) \in Nat
    BY <1>2, BytesOfAppend
  <1>8. Pipe!Bytes(waiting') = Pipe!Bytes(waiting) + Pipe!Bytes(new)
    BY <1>6, Zenon
  <1>9. InsideSpan'
    BY <1>2, <1>7, <1>8 DEF PipeInv, InsideSpan
  <1>10. QED
    BY <1>5, <1>9

\* A step that moves no text loses none.
LEMMA Stayed ==
  ASSUME PipeInv, op' = op, text' = text, encoded' = encoded, waiting' = waiting, Left' = Left
  PROVE  NothingLost'
  BY CallKept DEF PipeInv, NothingLost

\* Nothing is in other places than the rest.
LEMMA LeftIsPending ==
  ASSUME PipeTyped, html = <<>>, buffer = <<>>
  PROVE  Left = Pending
  <1>1. Pending \in Seq(Scalars)
    BY PendingTyped
  <1>2. <<>> \o Pending = Pending
    BY <1>1, ConcatsRegroup
  <1>3. QED
    BY <1>2 DEF Left

\* LeftIsPending after a step.
LEMMA LeftIsPendingNext ==
  ASSUME PipeTyped', html' = <<>>, buffer' = <<>>
  PROVE  Left' = Pending'
  <1>1. Pending' \in Seq(Scalars)
    BY EncodedOfAppend DEF PipeTyped, Pending
  <1>2. PICK p \in Seq(Scalars) : p = Pending'
    BY <1>1
  <1>3. <<>> \o (<<>> \o p) = p
    BY ConcatsRegroup
  <1>4. QED
    BY <1>2, <1>3 DEF Left

\* The rest loses its first scalars.
LEMMA PendingSplits ==
  ASSUME PipeTyped, NEW k \in 0..Len(rest), rest' = Pipe!From(rest, k), op' = op
  PROVE  /\ rest' \in Seq(Scalars) /\ Pipe!UpTo(rest, k) \in Seq(Scalars) /\ Pipe!Encoded(Pipe!UpTo(rest, k)) \in Seq(Scalars)
         /\ op \in {"WriteHtml", "WriteInternal"} => Pending = Pipe!UpTo(rest, k) \o Pending'
         /\ op \notin {"WriteHtml", "WriteInternal"} => Pending = Pipe!Encoded(Pipe!UpTo(rest, k)) \o Pending'
  <1>1. PICK u \in Seq(Scalars), v \in Seq(Scalars) : u = Pipe!UpTo(rest, k) /\ v = Pipe!From(rest, k) /\ u \o v = rest
    BY SplitText DEF PipeTyped
  <1>2. Pipe!Encoded(u \o v) = Pipe!Encoded(u) \o Pipe!Encoded(v) /\ Pipe!Encoded(u) \in Seq(Scalars)
    BY EncodedOfConcat, EncodedOfAppend
  <1>3. Pipe!Encoded(rest) = Pipe!Encoded(u) \o Pipe!Encoded(rest')
    BY <1>1, <1>2, Zenon
  <1>4. QED
    BY <1>1, <1>2, <1>3 DEF Pending

\* GetHtmlEncodedSizeHint is a length.
LEMMA HintTyped ==
  ASSUME NEW n \in Nat
  PROVE  Pipe!EncodedSizeHint(n) \in Nat
  <1>1. (11 * n + 5) \div 10 \in Nat
    OBVIOUS
  <1>2. MaxBufferSize \in Nat
    BY TextAssumption
  <1>3. QED
    BY <1>1, <1>2, HintsTyped DEF Pipe!EncodedSizeHint

\* A short text goes through the stack, a long one through a rented array.
LEMMA BufferChosen ==
  ASSUME PipeInv, pipePc \in {"start", "format"}, Pipe!ChooseBuffer, op' = op, text' = text,
         op \in {"HtmlEncodeAndWrite", "WriteSpanFormattable"}, rented = Pipe!FormatArrays
  PROVE  length' \in Nat /\ pipePc' \in {"small", "rented"} /\ Arrays'
  <1>1. rest = text /\ rest \in Seq(Scalars)
    BY DEF PipeInv, PipeTyped, Places
  <1>2. Pipe!Units(text) \in Nat /\ SmallChars \in Nat /\ Pipe!FormatArrays \in {0, 1}
    BY PendingTyped, TextAssumption DEF PipeInv
  <1>3. Pipe!FormatArrays' = Pipe!FormatArrays /\ Pipe!EncodingArrays' = Pipe!EncodingArrays
    BY CallKept
  <1>4. Pipe!Grants(Pipe!EncodedSizeHint(Pipe!Units(text))) \subseteq Nat
    BY <1>2, HintTyped, GrantsTyped
  <1>5. CASE Pipe!Units(text) <= SmallChars /\ pipePc' = "small" /\ length' = SmallChars /\ rented' = rented
    <2>1. Pipe!EncodingArrays = 0 /\ ~(Pipe!Units(text) > SmallChars)
      BY <1>2, <1>5 DEF Pipe!EncodingArrays
    <2>2. QED
      BY <1>2, <1>3, <1>5, <2>1 DEF Arrays
  <1>6. CASE /\ Pipe!Units(text) > SmallChars /\ pipePc' = "rented" /\ rented' = rented + 1
             /\ length' \in Pipe!Grants(Pipe!EncodedSizeHint(Pipe!Units(text)))
    <2>1. Pipe!EncodingArrays = 1
      BY <1>6 DEF Pipe!EncodingArrays
    <2>2. QED
      BY <1>2, <1>3, <1>4, <1>6, <2>1 DEF Arrays
  <1>7. QED
    BY <1>1, <1>5, <1>6 DEF Pipe!ChooseBuffer

\* The entries of the methods.
LEMMA StartsPreserve ==
  ASSUME PipeInv, Pipe!StartUtf8 \/ Pipe!StartEncode \/ Pipe!StartWriteHtml \/ Pipe!StartWriteInternal
  PROVE  PipeInv'
  <1>0. pipePc = "start" /\ rented = 0 /\ op' = op /\ text' = text /\ encoded' = encoded /\ waiting' = waiting
        /\ buffer' = buffer /\ span' = span /\ granted' = granted /\ minimum' = minimum
    BY DEF PipeInv, Arrays, Pipe!StartUtf8, Pipe!StartEncode, Pipe!StartWriteHtml, Pipe!StartWriteInternal
  <1>1. html = <<>> /\ buffer = <<>> /\ rest = text /\ waiting = <<>> /\ PipeTyped
    BY <1>0 DEF PipeInv, Places
  <1>2. Pipe!FormatArrays' = Pipe!FormatArrays /\ Pipe!EncodingArrays' = Pipe!EncodingArrays
    BY <1>0, CallKept
  <1>3. InsideSpan'
    BY <1>0 DEF PipeInv, InsideSpan
  <1>4. CASE Pipe!StartUtf8
    <2>1. rest' = rest /\ html' = html /\ length' = length /\ pipePc' = "utf8" /\ rented' = 0 /\ op = "HtmlEncodeAndWriteUtf8"
      BY <1>0, <1>4 DEF Pipe!StartUtf8
    <2>2. PipeTyped' /\ Left' = Left
      BY <1>0, <1>1, <2>1 DEF PipeTyped, Left, Pending
    <2>3. NothingLost'
      BY <1>0, <2>2, Stayed
    <2>4. Places'
      BY <1>0, <1>1, <2>1 DEF Places
    <2>5. Pipe!FormatArrays = 0
      BY <2>1 DEF Pipe!FormatArrays
    <2>6. Arrays'
      BY <1>0, <1>2, <2>1, <2>5 DEF Arrays
    <2>7. QED
      BY <1>3, <2>2, <2>3, <2>4, <2>6 DEF PipeInv
  <1>5. CASE Pipe!StartEncode
    <2>1. rest' = rest /\ html' = html /\ op = "HtmlEncodeAndWrite" /\ Pipe!ChooseBuffer
      BY <1>5 DEF Pipe!StartEncode
    <2>2. Pipe!FormatArrays = 0
      BY <2>1 DEF Pipe!FormatArrays
    <2>3. length' \in Nat /\ pipePc' \in {"small", "rented"} /\ Arrays'
      BY <1>0, <2>1, <2>2, BufferChosen
    <2>4. PipeTyped' /\ Left' = Left
      BY <1>0, <1>1, <2>1, <2>3 DEF PipeTyped, Left, Pending
    <2>5. NothingLost'
      BY <1>0, <2>4, Stayed
    <2>6. Places'
      BY <1>0, <1>1, <2>1, <2>3 DEF Places
    <2>7. QED
      BY <1>3, <2>3, <2>4, <2>5, <2>6 DEF PipeInv
  <1>6. CASE Pipe!StartWriteHtml
    <2>1. rest' = <<>> /\ html' = text /\ length' = length /\ pipePc' = "html" /\ rented' = 0 /\ op = "WriteHtml"
      BY <1>0, <1>6 DEF Pipe!StartWriteHtml
    <2>2. PipeTyped' /\ text \in Seq(Scalars) /\ <<>> \in Seq(Scalars)
      BY <1>0, <1>1, <2>1, PendingTyped, EmptySeq DEF PipeTyped
    <2>3. Left' = Left
      <3>1. Left' = text \o (<<>> \o <<>>)
        BY <1>0, <1>1, <2>1 DEF Left, Pending
      <3>2. Left = <<>> \o (<<>> \o text)
        BY <1>1, <2>1 DEF Left, Pending
      <3>3. QED
        BY <2>2, <3>1, <3>2, ConcatsRegroup
    <2>4. NothingLost'
      BY <1>0, <2>3, Stayed
    <2>5. Places'
      BY <1>0, <1>1, <2>1 DEF Places
    <2>6. Pipe!FormatArrays = 0 /\ Pipe!EncodingArrays = 0
      BY <2>1 DEF Pipe!FormatArrays, Pipe!EncodingArrays
    <2>7. Arrays'
      BY <1>0, <1>2, <2>1, <2>6 DEF Arrays
    <2>8. QED
      BY <1>3, <2>2, <2>4, <2>5, <2>7 DEF PipeInv
  <1>7. CASE Pipe!StartWriteInternal
    <2>1. rest' = rest /\ html' = html /\ length' = length /\ pipePc' = "writer" /\ rented' = 0 /\ op = "WriteInternal"
      BY <1>0, <1>7 DEF Pipe!StartWriteInternal
    <2>2. PipeTyped' /\ Left' = Left
      BY <1>0, <1>1, <2>1 DEF PipeTyped, Left, Pending
    <2>3. NothingLost'
      BY <1>0, <2>2, Stayed
    <2>4. Places'
      BY <1>0, <1>1, <2>1 DEF Places
    <2>5. Arrays'
      BY <1>0, <2>1 DEF Arrays
    <2>6. QED
      BY <1>3, <2>2, <2>3, <2>4, <2>5 DEF PipeInv
  <1>8. QED
    BY <1>4, <1>5, <1>6, <1>7

\* TryFormat, and the arrays for the formatted value.
LEMMA FormatsPreserve ==
  ASSUME PipeInv, Pipe!FormatSmall \/ Pipe!FormatLarge
  PROVE  PipeInv'
  <1>0. /\ op' = op /\ text' = text /\ encoded' = encoded /\ waiting' = waiting /\ rest' = rest /\ html' = html
        /\ buffer' = buffer /\ span' = span /\ granted' = granted /\ minimum' = minimum
        /\ pipePc \in {"start", "format"} /\ op \in {"WriteSpanFormattable", "WriteUtf8SpanFormattable"}
    BY DEF PipeInv, Arrays, Pipe!FormatSmall, Pipe!FormatLarge
  <1>1. html = <<>> /\ buffer = <<>> /\ rest = text /\ waiting = <<>> /\ PipeTyped
    BY <1>0 DEF PipeInv, Places
  <1>2. Pipe!FormatArrays' = Pipe!FormatArrays /\ Pipe!EncodingArrays' = Pipe!EncodingArrays
    BY <1>0, CallKept
  <1>3. InsideSpan'
    BY <1>0 DEF PipeInv, InsideSpan
  <1>4. /\ Pipe!FormattedLength \in Nat /\ Pipe!SmallFormatLength \in Nat
        /\ Pipe!FormatArrays = IF Pipe!FormattedLength > Pipe!SmallFormatLength THEN 1 ELSE 0
    BY <1>0, <1>1, PendingTyped, TextAssumption DEF Pipe!FormattedLength, Pipe!SmallFormatLength, Pipe!FormatArrays
  <1>5. /\ length' \in Nat /\ Arrays'
        /\ pipePc' \in {"small", "rented", "utf8", "format"}
    <2>1. CASE Pipe!WriteFormatted /\ rented = Pipe!FormatArrays
      <3>1. CASE op = "WriteSpanFormattable" /\ Pipe!ChooseBuffer
        BY <1>0, <2>1, <3>1, BufferChosen
      <3>2. CASE op = "WriteUtf8SpanFormattable" /\ pipePc' = "utf8" /\ UNCHANGED <<length, room, rented>>
        BY <1>0, <1>1, <1>2, <2>1, <3>2 DEF Arrays, PipeTyped
      <3>3. QED
        BY <2>1, <3>1, <3>2 DEF Pipe!WriteFormatted
    <2>2. CASE /\ Pipe!FormattedLength > Pipe!SmallFormatLength /\ rented' = 1 /\ pipePc' = "format"
               /\ \E hint \in Nat : length' \in Pipe!Grants(hint)
      BY <1>0, <1>2, <1>4, <2>2, GrantsTyped DEF Arrays
    <2>3. CASE Pipe!FormatSmall
      <3>1. rented = 0 /\ 2 * Pipe!SmallFormatLength \in Nat
        BY <1>4, <2>3 DEF PipeInv, Arrays, Pipe!FormatSmall
      <3>2. CASE Pipe!FormattedLength <= Pipe!SmallFormatLength /\ Pipe!WriteFormatted
        BY <1>4, <2>1, <3>1, <3>2
      <3>3. CASE /\ Pipe!FormattedLength > Pipe!SmallFormatLength
                 /\ length' \in Pipe!Grants(2 * Pipe!SmallFormatLength) /\ rented' = rented + 1 /\ pipePc' = "format"
        BY <2>2, <3>1, <3>3
      <3>4. QED
        BY <2>3, <3>2, <3>3 DEF Pipe!FormatSmall
    <2>4. CASE Pipe!FormatLarge
      <3>1. rented = 1 /\ Pipe!FormatArrays = 1 /\ length \in Nat /\ 2 * length \in Nat
        BY <1>1, <2>4 DEF PipeInv, Arrays, PipeTyped, Pipe!FormatLarge
      <3>2. CASE Pipe!WriteFormatted
        BY <2>1, <3>1, <3>2
      <3>3. CASE length' \in Pipe!Grants(2 * length) /\ UNCHANGED <<pipePc, room, rented>> /\ pipePc = "format"
        <4>1. Pipe!FormattedLength > Pipe!SmallFormatLength
          BY <1>4, <3>1
        <4>2. QED
          BY <2>2, <3>1, <3>3, <4>1
      <3>4. QED
        BY <2>4, <3>2, <3>3 DEF Pipe!FormatLarge
    <2>5. QED
      BY <2>3, <2>4
  <1>6. PipeTyped' /\ Left' = Left
    BY <1>0, <1>1, <1>5 DEF PipeTyped, Left, Pending
  <1>7. NothingLost'
    BY <1>0, <1>6, Stayed
  <1>8. Places'
    BY <1>0, <1>1, <1>5 DEF Places
  <1>9. QED
    BY <1>3, <1>5, <1>6, <1>7, <1>8 DEF PipeInv

\* The arrays of a call that goes on where it is.
LEMMA ArraysKept ==
  ASSUME PipeInv, op' = op, text' = text, pipePc' = pipePc, rented' = rented, pipePc = "html" => rest' = rest
  PROVE  Arrays'
  <1>1. Pipe!FormatArrays' = Pipe!FormatArrays /\ Pipe!EncodingArrays' = Pipe!EncodingArrays
    BY CallKept
  <1>2. QED
    BY <1>1 DEF PipeInv, Arrays

\* Advance, and a new span of whatever length.
LEMMA GetSpansPreserve ==
  ASSUME PipeInv, Pipe!GetSpanForUtf8 \/ Pipe!GetSpanForHtml \/ Pipe!EnsureBuffer
  PROVE  PipeInv'
  <1>1. /\ op' = op /\ text' = text /\ encoded' = encoded \o waiting /\ waiting' = <<>> /\ rest' = rest
        /\ html' = html /\ buffer' = buffer /\ minimum' = minimum /\ length' = length /\ span' = granted'
        /\ pipePc' = pipePc /\ rented' = rented /\ pipePc \in {"utf8", "html", "writer"}
    BY DEF Pipe!GetSpanForUtf8, Pipe!GetSpanForHtml, Pipe!EnsureBuffer
  <1>2. PipeTyped
    BY DEF PipeInv
  <1>3. \E hint \in Nat : granted' \in Pipe!Grants(hint)
    <2>1. Pipe!Bytes(rest) \in Nat /\ Pipe!Units(html) \in Nat /\ MaxBufferSize \in Nat /\ MaxUtf8BytesPerScalar \in Nat
      BY <1>2, BytesOfAppend, TextAssumption DEF PipeTyped
    <2>2. CASE Pipe!GetSpanForUtf8
      <3>1. Pipe!EncodedSizeHint(Pipe!Bytes(rest)) \in Nat /\ minimum \in Nat
        BY <1>2, <2>1, HintTyped DEF PipeTyped
      <3>2. Pipe!Max({Pipe!EncodedSizeHint(Pipe!Bytes(rest)), minimum}) \in Nat
        BY <3>1, HintsTyped
      <3>3. QED
        BY <2>2, <3>2 DEF Pipe!GetSpanForUtf8
    <2>3. CASE Pipe!GetSpanForHtml
      <3>1. Pipe!Max({MaxUtf8BytesPerScalar, Pipe!Units(html)}) \in Nat
        BY <2>1, HintsTyped
      <3>2. Pipe!Min({MaxBufferSize, Pipe!Max({MaxUtf8BytesPerScalar, Pipe!Units(html)})}) \in Nat
        BY <2>1, <3>1, HintsTyped
      <3>3. QED
        BY <2>3, <3>2 DEF Pipe!GetSpanForHtml
    <2>4. CASE Pipe!EnsureBuffer
      BY <2>1, <2>4 DEF Pipe!EnsureBuffer
    <2>5. QED
      BY <2>2, <2>3, <2>4
  <1>4. granted' \in Nat
    BY <1>3, GrantsTyped
  <1>5. encoded \o waiting \in Seq(Scalars) /\ <<>> \in Seq(Scalars)
    BY <1>2, ConcatsRegroup DEF PipeTyped
  <1>6. PipeTyped'
    BY <1>1, <1>2, <1>4, <1>5 DEF PipeTyped
  <1>7. Left' = Left
    BY <1>1 DEF Left, Pending
  <1>8. NothingLost'
    BY <1>1, <1>6, <1>7, Advanced
  <1>9. Places'
    BY <1>1 DEF PipeInv, Places
  <1>10. Arrays'
    BY <1>1, ArraysKept
  <1>11. InsideSpan'
    <2>1. Pipe!Bytes(waiting') = 0
      BY <1>1, BytesOfAppend, Zenon
    <2>2. QED
      BY <1>1, <1>4, <2>1 DEF InsideSpan
  <1>12. QED
    BY <1>6, <1>8, <1>9, <1>10, <1>11 DEF PipeInv

\* A method ends, or an inner one returns: the used span is advanced.
LEMMA AdvancesPreserve ==
  ASSUME PipeInv, Pipe!EndUtf8 \/ Pipe!EndWriteHtml \/ Pipe!Flush
  PROVE  PipeInv'
  <1>1. /\ op' = op /\ text' = text /\ encoded' = encoded \o waiting /\ waiting' = <<>> /\ rest' = rest
        /\ html' = html /\ buffer' = buffer /\ minimum' = minimum /\ length' = length /\ granted' = granted
    BY DEF Pipe!EndUtf8, Pipe!EndWriteHtml, Pipe!Flush
  <1>2. PipeTyped /\ span' \in {0, span}
    BY DEF PipeInv, Pipe!EndUtf8, Pipe!EndWriteHtml, Pipe!Flush
  <1>3. encoded \o waiting \in Seq(Scalars) /\ <<>> \in Seq(Scalars)
    BY <1>2, ConcatsRegroup DEF PipeTyped
  <1>4. PipeTyped'
    BY <1>1, <1>2, <1>3 DEF PipeTyped
  <1>5. Left' = Left
    BY <1>1 DEF Left, Pending
  <1>6. NothingLost'
    BY <1>1, <1>4, <1>5, Advanced
  <1>7. InsideSpan'
    <2>1. Pipe!Bytes(waiting') = 0 /\ Pipe!Bytes(waiting) \in Nat
      BY <1>1, <1>2, BytesOfAppend, Zenon DEF PipeTyped
    <2>2. span \in Nat /\ granted \in Nat /\ Pipe!Bytes(waiting) + span <= granted
      BY <1>2 DEF PipeInv, PipeTyped, InsideSpan
    <2>3. QED
      BY <1>1, <1>2, <2>1, <2>2 DEF InsideSpan
  <1>8. /\ Pipe!FormatArrays' = Pipe!FormatArrays /\ Pipe!EncodingArrays' = Pipe!EncodingArrays
        /\ Pipe!FormatArrays \in {0, 1} /\ Pipe!EncodingArrays \in {0, 1}
    BY <1>1, <1>2, CallKept, PendingTyped
  <1>9. CASE pipePc' = "done"
    <2>1. rest = <<>> /\ html = <<>> /\ buffer = <<>>
      BY <1>9 DEF PipeInv, Places, Pipe!EndUtf8, Pipe!EndWriteHtml, Pipe!Flush
    <2>2. rented' = 0
      BY <1>8, <1>9 DEF PipeInv, Arrays, Pipe!EndUtf8, Pipe!EndWriteHtml, Pipe!Flush
    <2>3. Places' /\ Arrays'
      BY <1>1, <1>9, <2>1, <2>2 DEF Places, Arrays
    <2>4. QED
      BY <1>4, <1>6, <1>7, <2>3 DEF PipeInv
  <1>10. CASE pipePc' # "done"
    <2>1. /\ pipePc = "html" /\ html = <<>> /\ buffer = <<>> /\ rest # <<>> /\ rented' = rented
          /\ pipePc' = IF Pipe!Units(text) > SmallChars THEN "rented" ELSE "small"
      BY <1>10 DEF PipeInv, Places, Pipe!EndUtf8, Pipe!EndWriteHtml, Pipe!Flush
    <2>2. Places'
      BY <1>1, <2>1 DEF Places
    <2>3. Arrays'
      BY <1>1, <1>8, <2>1 DEF PipeInv, Arrays
    <2>4. QED
      BY <1>4, <1>6, <1>7, <2>2, <2>3 DEF PipeInv
  <1>11. QED
    BY <1>9, <1>10

\* EncodeUtf8 writes inside the span, and takes from the rest what it writes.
LEMMA EncodeUtf8Preserves ==
  ASSUME PipeInv, Pipe!EncodeUtf8
  PROVE  PipeInv'
  <1>1. /\ op' = op /\ text' = text /\ encoded' = encoded /\ html' = html /\ buffer' = buffer /\ length' = length
        /\ granted' = granted /\ pipePc' = pipePc /\ rented' = rented /\ pipePc = "utf8" /\ span \in Nat
    BY DEF PipeInv, PipeTyped, Pipe!EncodeUtf8
  <1>2. PipeTyped /\ html = <<>> /\ buffer = <<>> /\ op \notin {"WriteHtml", "WriteInternal"}
    BY <1>1 DEF PipeInv, Places, Arrays
  <1>3. Arrays'
    BY <1>1, ArraysKept
  <1>4. PICK n \in 0..Len(rest) : n = Pipe!FitEncodedBytes(rest, span) /\ Pipe!Bytes(Pipe!Encoded(Pipe!UpTo(rest, n))) <= span
    BY <1>1, <1>2, FitTyped DEF PipeTyped
  <1>5. CASE n = 0
    <2>1. minimum' = span + 1 /\ span' = 0 /\ rest' = rest /\ waiting' = waiting
      BY <1>4, <1>5 DEF Pipe!EncodeUtf8
    <2>2. PipeTyped' /\ Left' = Left
      BY <1>1, <1>2, <2>1 DEF PipeTyped, Left, Pending
    <2>3. NothingLost'
      BY <1>1, <2>1, <2>2, Stayed
    <2>4. Places'
      BY <1>1, <1>2, <2>1 DEF Places
    <2>5. InsideSpan'
      <3>1. Pipe!Bytes(waiting) \in Nat /\ granted \in Nat /\ Pipe!Bytes(waiting) + span <= granted
        BY <1>2, BytesOfAppend DEF PipeInv, PipeTyped, InsideSpan
      <3>2. QED
        BY <1>1, <2>1, <3>1 DEF InsideSpan
    <2>6. QED
      BY <1>3, <2>2, <2>3, <2>4, <2>5 DEF PipeInv
  <1>6. CASE n > 0
    <2>1. PICK new : new = Pipe!Encoded(Pipe!UpTo(rest, n))
      OBVIOUS
    <2>2. rest' = Pipe!From(rest, n) /\ waiting' = waiting \o new /\ span' = span - Pipe!Bytes(new) /\ minimum' = minimum
      BY <1>4, <1>6, <2>1 DEF Pipe!EncodeUtf8
    <2>3. rest' \in Seq(Scalars) /\ new \in Seq(Scalars) /\ Pending = new \o Pending'
      BY <1>1, <1>2, <2>1, <2>2, PendingSplits
    <2>4. waiting \o new \in Seq(Scalars) /\ span' \in Nat
      <3>1. waiting \o new \in Seq(Scalars)
        BY <1>2, <2>3, ConcatsRegroup DEF PipeTyped
      <3>2. Pipe!Bytes(new) \in Nat /\ Pipe!Bytes(new) <= span
        BY <1>4, <2>1, <2>3, BytesOfAppend
      <3>3. QED
        BY <1>1, <2>2, <3>1, <3>2
    <2>5. PipeTyped'
      BY <1>1, <1>2, <2>2, <2>3, <2>4 DEF PipeTyped
    <2>6. Left = new \o Left'
      BY <1>1, <1>2, <2>3, <2>5, LeftIsPending, LeftIsPendingNext
    <2>7. NothingLost' /\ InsideSpan'
      BY <1>1, <1>4, <2>1, <2>2, <2>3, <2>5, <2>6, Moved
    <2>8. Places'
      BY <1>1, <1>2 DEF Places
    <2>9. QED
      BY <1>3, <2>5, <2>7, <2>8 DEF PipeInv
  <1>7. QED
    BY <1>5, <1>6

\* WriteInternal transcodes inside the span.
LEMMA WriteInternalPreserves ==
  ASSUME PipeInv, Pipe!WriteInternal
  PROVE  PipeInv'
  <1>1. /\ op' = op /\ text' = text /\ encoded' = encoded /\ html' = html /\ buffer' = buffer /\ length' = length
        /\ granted' = granted /\ pipePc' = pipePc /\ rented' = rented /\ pipePc = "writer" /\ span \in Nat /\ minimum' = minimum
    BY DEF PipeInv, PipeTyped, Pipe!WriteInternal
  <1>2. PipeTyped /\ html = <<>> /\ buffer = <<>> /\ op = "WriteInternal"
    BY <1>1 DEF PipeInv, Places, Arrays
  <1>3. Arrays'
    BY <1>1, ArraysKept
  <1>4. PICK n \in 0..Len(rest) : n = Pipe!FitBytes(rest, span) /\ Pipe!Bytes(Pipe!UpTo(rest, n)) <= span
    BY <1>1, <1>2, FitTyped DEF PipeTyped
  <1>5. PICK new : new = Pipe!UpTo(rest, n)
    OBVIOUS
  <1>6. rest' = Pipe!From(rest, n) /\ waiting' = waiting \o new /\ span' = span - Pipe!Bytes(new)
    BY <1>4, <1>5 DEF Pipe!WriteInternal
  <1>7. rest' \in Seq(Scalars) /\ new \in Seq(Scalars) /\ Pending = new \o Pending'
    BY <1>1, <1>2, <1>5, <1>6, PendingSplits
  <1>8. waiting \o new \in Seq(Scalars) /\ span' \in Nat
    <2>1. waiting \o new \in Seq(Scalars)
      BY <1>2, <1>7, ConcatsRegroup DEF PipeTyped
    <2>2. Pipe!Bytes(new) \in Nat /\ Pipe!Bytes(new) <= span
      BY <1>4, <1>5, <1>7, BytesOfAppend
    <2>3. QED
      BY <1>1, <1>6, <2>1, <2>2
  <1>9. PipeTyped'
    BY <1>1, <1>2, <1>6, <1>7, <1>8 DEF PipeTyped
  <1>10. Left = new \o Left'
    BY <1>1, <1>2, <1>7, <1>9, LeftIsPending, LeftIsPendingNext
  <1>11. NothingLost' /\ InsideSpan'
    BY <1>1, <1>4, <1>5, <1>6, <1>7, <1>9, <1>10, Moved
  <1>12. Places'
    BY <1>1, <1>2 DEF Places
  <1>13. QED
    BY <1>3, <1>9, <1>11, <1>12 DEF PipeInv

\* So does the loop of WriteHtml, with a part of the buffer.
LEMMA TranscodePreserves ==
  ASSUME PipeInv, Pipe!Transcode
  PROVE  PipeInv'
  <1>1. /\ op' = op /\ text' = text /\ encoded' = encoded /\ rest' = rest /\ buffer' = buffer /\ length' = length
        /\ granted' = granted /\ pipePc' = pipePc /\ rented' = rented /\ pipePc = "html" /\ span \in Nat /\ minimum' = minimum
    BY DEF PipeInv, PipeTyped, Pipe!Transcode
  <1>2. PipeTyped /\ buffer = <<>> /\ html \in Seq(Scalars)
    BY <1>1 DEF PipeInv, PipeTyped, Places
  <1>3. Arrays'
    BY <1>1, ArraysKept
  <1>4. PICK n \in 0..Len(html) : n = Pipe!FitBytes(html, span) /\ Pipe!Bytes(Pipe!UpTo(html, n)) <= span
    BY <1>1, <1>2, FitTyped
  <1>5. Places'
    BY <1>1, <1>2 DEF Places
  <1>6. CASE n = 0
    <2>1. span' = 0 /\ html' = html /\ waiting' = waiting
      BY <1>4, <1>6 DEF Pipe!Transcode
    <2>2. PipeTyped' /\ Left' = Left
      BY <1>1, <1>2, <2>1 DEF PipeTyped, Left, Pending
    <2>3. NothingLost'
      BY <1>1, <2>1, <2>2, Stayed
    <2>4. InsideSpan'
      <3>1. Pipe!Bytes(waiting) \in Nat /\ granted \in Nat /\ Pipe!Bytes(waiting) + span <= granted
        BY <1>2, BytesOfAppend DEF PipeInv, PipeTyped, InsideSpan
      <3>2. QED
        BY <1>1, <2>1, <3>1 DEF InsideSpan
    <2>5. QED
      BY <1>3, <1>5, <2>2, <2>3, <2>4 DEF PipeInv
  <1>7. CASE n > 0
    <2>1. PICK new \in Seq(Scalars), after \in Seq(Scalars) :
             new = Pipe!UpTo(html, n) /\ after = Pipe!From(html, n) /\ new \o after = html
      BY <1>2, SplitText
    <2>2. html' = after /\ waiting' = waiting \o new /\ span' = span - Pipe!Bytes(new)
      BY <1>4, <1>7, <2>1 DEF Pipe!Transcode
    <2>3. waiting \o new \in Seq(Scalars) /\ span' \in Nat
      <3>1. waiting \o new \in Seq(Scalars)
        BY <1>2, <2>1, ConcatsRegroup DEF PipeTyped
      <3>2. Pipe!Bytes(new) \in Nat /\ Pipe!Bytes(new) <= span
        BY <1>4, <2>1, BytesOfAppend
      <3>3. QED
        BY <1>1, <2>2, <3>1, <3>2
    <2>4. PipeTyped'
      BY <1>1, <1>2, <2>2, <2>3 DEF PipeTyped
    <2>5. Left = new \o Left'
      <3>1. PICK r \in Seq(Scalars) : r = buffer \o Pending
        BY <1>2, PendingTyped, ConcatProperties DEF PipeTyped
      <3>2. (buffer \o Pending)' = r
        BY <1>1, <3>1 DEF Pending
      <3>3. Left' = after \o r
        BY <2>2, <3>2 DEF Left
      <3>4. Left = (new \o after) \o r
        BY <2>1, <3>1 DEF Left
      <3>5. QED
        BY <3>3, <3>4, ConcatsRegroup
    <2>6. NothingLost' /\ InsideSpan'
      BY <1>1, <1>4, <2>1, <2>2, <2>4, <2>5, Moved
    <2>7. QED
      BY <1>3, <1>5, <2>4, <2>6 DEF PipeInv
  <1>8. QED
    BY <1>6, <1>7

\* The rented array and the stack buffer: what leaves the rest is in one of them.
LEMMA BuffersPreserve ==
  ASSUME PipeInv, Pipe!EncodeToRented \/ Pipe!WriteRented \/ Pipe!EncodeSmall \/ Pipe!EmptySmall
  PROVE  PipeInv'
  <1>1. /\ op' = op /\ text' = text /\ encoded' = encoded /\ waiting' = waiting /\ span' = span /\ granted' = granted
        /\ rented' = rented /\ length' = length /\ minimum' = minimum /\ pipePc \in {"rented", "small"}
    BY DEF Pipe!EncodeToRented, Pipe!WriteRented, Pipe!EncodeSmall, Pipe!EmptySmall
  <1>2. /\ PipeTyped /\ html = <<>> /\ op \notin {"WriteHtml", "WriteInternal"} /\ length \in Nat
        /\ op \in {"HtmlEncodeAndWrite", "WriteSpanFormattable"}
    BY <1>1 DEF PipeInv, PipeTyped, Places, Arrays
  <1>3. InsideSpan'
    BY <1>1 DEF PipeInv, InsideSpan
  <1>4. CASE Pipe!EncodeToRented
    <2>1. pipePc = "rented" /\ pipePc' = "rented" /\ html' = html
      BY <1>4 DEF Pipe!EncodeToRented
    <2>2. Arrays' /\ Places'
      BY <1>1, <1>2, <2>1, ArraysKept DEF Places
    <2>3. CASE UNCHANGED <<rest, buffer>>
      <3>1. PipeTyped' /\ Left' = Left
        BY <1>1, <1>2, <2>1, <2>3 DEF PipeTyped, Left, Pending
      <3>2. NothingLost'
        BY <1>1, <3>1, Stayed
      <3>3. QED
        BY <1>3, <2>2, <3>1, <3>2 DEF PipeInv
    <2>4. CASE \E n \in 0..Len(rest) :
                 rest' = Pipe!From(rest, n) /\ buffer' = buffer \o Pipe!Encoded(Pipe!UpTo(rest, n))
      <3>1. PICK n \in 0..Len(rest) :
                 rest' = Pipe!From(rest, n) /\ buffer' = buffer \o Pipe!Encoded(Pipe!UpTo(rest, n))
        BY <2>4
      <3>2. PICK new \in Seq(Scalars) : new = Pipe!Encoded(Pipe!UpTo(rest, n)) /\ Pending = new \o Pending' /\ rest' \in Seq(Scalars)
        BY <1>1, <1>2, <3>1, PendingSplits
      <3>3. buffer \in Seq(Scalars) /\ buffer' = buffer \o new /\ buffer \o new \in Seq(Scalars)
        BY <1>2, <3>1, <3>2, ConcatsRegroup DEF PipeTyped
      <3>4. PipeTyped'
        BY <1>1, <1>2, <2>1, <3>2, <3>3 DEF PipeTyped
      <3>5. Left' = Left
        <4>1. PICK r \in Seq(Scalars) : r = Pending'
          BY <3>2, <3>4, EncodedOfAppend DEF PipeTyped, Pending
        <4>2. (buffer \o new) \o r = buffer \o (new \o r)
          BY <3>3, ConcatsRegroup
        <4>3. (buffer \o Pending)' = (buffer \o new) \o r
          BY <3>3, <4>1
        <4>4. QED
          BY <2>1, <3>2, <4>1, <4>2, <4>3 DEF Left
      <3>6. NothingLost'
        BY <1>1, <3>5, Stayed
      <3>7. QED
        BY <1>3, <2>2, <3>4, <3>6 DEF PipeInv
    <2>5. QED
      <3>1. Pipe!FitEncodedUnits(rest, room) \in 0..Len(rest)
        BY <1>2, FitsInText DEF PipeTyped
      <3>2. QED
        BY <1>4, <2>3, <2>4, <3>1 DEF Pipe!EncodeToRented
  <1>5. CASE Pipe!WriteRented
    <2>1. pipePc = "rented" /\ pipePc' = "html" /\ html' = buffer /\ buffer' = <<>> /\ rest' = rest
      BY <1>5 DEF Pipe!WriteRented
    <2>2. PipeTyped' /\ buffer \in Seq(Scalars) /\ Pending \in Seq(Scalars) /\ Pending' = Pending
      BY <1>1, <1>2, <2>1, PendingTyped, EmptySeq DEF PipeTyped, Pending
    <2>3. Left' = Left
      <3>1. buffer \o Pending \in Seq(Scalars) /\ <<>> \o Pending = Pending
        BY <2>2, ConcatsRegroup
      <3>2. <<>> \o (buffer \o Pending) = buffer \o Pending
        BY <3>1, ConcatsRegroup
      <3>3. Left' = buffer \o (<<>> \o Pending)
        BY <2>1, <2>2 DEF Left
      <3>4. QED
        BY <1>2, <3>1, <3>2, <3>3 DEF Left
    <2>4. NothingLost'
      BY <1>1, <2>3, Stayed
    <2>5. Places'
      BY <1>1, <2>1 DEF Places
    <2>6. Arrays'
      BY <1>1, <1>2, <2>1, CallKept DEF PipeInv, Arrays
    <2>7. QED
      BY <1>3, <2>2, <2>4, <2>5, <2>6 DEF PipeInv
  <1>6. CASE Pipe!EncodeSmall
    <2>1. PICK n \in 0..Len(rest) : rest' = Pipe!From(rest, n) /\ html' = Pipe!Encoded(Pipe!UpTo(rest, n))
      BY <1>2, <1>6, FitTyped DEF PipeTyped, Pipe!EncodeSmall
    <2>2. pipePc = "small" /\ pipePc' = "html" /\ buffer' = buffer /\ buffer = <<>>
      BY <1>6 DEF PipeInv, Places, Pipe!EncodeSmall
    <2>3. PICK new \in Seq(Scalars) : new = Pipe!Encoded(Pipe!UpTo(rest, n)) /\ Pending = new \o Pending' /\ rest' \in Seq(Scalars)
      BY <1>1, <1>2, <2>1, PendingSplits
    <2>4. PipeTyped'
      BY <1>1, <1>2, <2>1, <2>2, <2>3 DEF PipeTyped
    <2>5. Left' = Left
      <3>1. PICK r \in Seq(Scalars) : r = Pending'
        BY <2>3, <2>4, EncodedOfAppend DEF PipeTyped, Pending
      <3>2. Left = Pending
        BY <1>2, <2>2, LeftIsPending
      <3>3. (buffer \o Pending)' = <<>> \o r
        BY <2>2, <3>1
      <3>4. Left' = new \o (<<>> \o r)
        BY <2>1, <2>3, <3>3 DEF Left
      <3>5. QED
        BY <2>3, <3>1, <3>2, <3>4, ConcatsRegroup
    <2>6. NothingLost'
      BY <1>1, <2>5, Stayed
    <2>7. Places'
      BY <1>1, <2>2 DEF Places
    <2>8. Arrays'
      BY <1>1, <1>2, <2>2, CallKept DEF PipeInv, Arrays
    <2>9. QED
      BY <1>3, <2>4, <2>6, <2>7, <2>8 DEF PipeInv
  <1>7. CASE Pipe!EmptySmall
    <2>1. pipePc = "small" /\ pipePc' = "done" /\ rest = <<>> /\ rest' = rest /\ html' = html /\ buffer' = buffer
      BY <1>7 DEF Pipe!EmptySmall
    <2>2. text = <<>> /\ waiting = <<>> /\ buffer = <<>>
      BY <2>1 DEF PipeInv, Places
    <2>3. PipeTyped' /\ Left' = Left
      BY <1>1, <1>2, <2>1 DEF PipeTyped, Left, Pending
    <2>4. NothingLost'
      BY <1>1, <2>3, Stayed
    <2>5. Places'
      BY <1>1, <1>2, <2>1, <2>2 DEF Places
    <2>6. Pipe!Units(text) = 0 /\ SmallChars \in Nat /\ SmallFormat \in Nat
      BY <2>2, BytesOfAppend, TextAssumption
    <2>7. Pipe!FormatArrays = 0 /\ Pipe!EncodingArrays = 0
      BY <1>2, <2>6 DEF Pipe!FormatArrays, Pipe!EncodingArrays
    <2>8. rented' = 0
      BY <1>1, <2>1, <2>7 DEF PipeInv, Arrays
    <2>9. Arrays'
      BY <2>1, <2>8 DEF Arrays
    <2>10. QED
      BY <1>3, <2>3, <2>4, <2>5, <2>9 DEF PipeInv
  <1>8. QED
    BY <1>4, <1>5, <1>6, <1>7

\* At the call nothing is written, and the whole text is in the rest.
LEMMA PipeInitial ==
  ASSUME Pipe!Init
  PROVE  PipeInv
  <1>1. /\ op \in Pipe!Ops /\ text \in Texts /\ pipePc = "start" /\ rest = text
        /\ buffer = <<>> /\ html = <<>> /\ waiting = <<>> /\ encoded = <<>>
        /\ minimum = 0 /\ length = 0 /\ span = 0 /\ granted = 0 /\ rented = 0
    BY DEF Pipe!Init
  <1>2. PipeTyped
    BY <1>1, TextAssumption, EmptySeq DEF PipeTyped
  <1>3. Left = Pending /\ Pending = Pipe!Expected /\ Pending \in Seq(Scalars)
    BY <1>1, <1>2, LeftIsPending, PendingTyped DEF Pending, Pipe!Expected
  <1>4. NothingLost
    <2>1. PICK l \in Seq(Scalars) : l = Left
      BY <1>3
    <2>2. <<>> \o (<<>> \o l) = l
      BY ConcatsRegroup
    <2>3. QED
      BY <1>1, <1>3, <2>1, <2>2 DEF NothingLost
  <1>5. Pipe!Bytes(waiting) = 0
    BY <1>1, BytesOfAppend
  <1>6. QED
    BY <1>1, <1>2, <1>4, <1>5 DEF PipeInv, Places, Arrays, InsideSpan

\* No step of the methods loses a part of the text.
LEMMA PipePreserved ==
  ASSUME PipeInv, [Pipe!Next]_(Pipe!vars)
  PROVE  PipeInv'
  <1>1. CASE Pipe!StartUtf8 \/ Pipe!StartEncode \/ Pipe!StartWriteHtml \/ Pipe!StartWriteInternal
    BY <1>1, StartsPreserve
  <1>2. CASE Pipe!FormatSmall \/ Pipe!FormatLarge
    BY <1>2, FormatsPreserve
  <1>3. CASE Pipe!GetSpanForUtf8 \/ Pipe!GetSpanForHtml \/ Pipe!EnsureBuffer
    BY <1>3, GetSpansPreserve
  <1>4. CASE Pipe!EndUtf8 \/ Pipe!EndWriteHtml \/ Pipe!Flush
    BY <1>4, AdvancesPreserve
  <1>5. CASE Pipe!EncodeUtf8
    BY <1>5, EncodeUtf8Preserves
  <1>6. CASE Pipe!WriteInternal
    BY <1>6, WriteInternalPreserves
  <1>7. CASE Pipe!Transcode
    BY <1>7, TranscodePreserves
  <1>8. CASE Pipe!EncodeToRented \/ Pipe!WriteRented \/ Pipe!EncodeSmall \/ Pipe!EmptySmall
    BY <1>8, BuffersPreserve
  <1>9. CASE Pipe!vars' = Pipe!vars
    <2>1. /\ op' = op /\ text' = text /\ pipePc' = pipePc /\ rest' = rest /\ minimum' = minimum
          /\ buffer' = buffer /\ length' = length /\ html' = html /\ span' = span /\ waiting' = waiting
          /\ granted' = granted /\ rented' = rented /\ encoded' = encoded
      BY <1>9 DEF Pipe!vars
    <2>2. PipeTyped' /\ Left' = Left
      BY <2>1 DEF PipeInv, PipeTyped, Left, Pending
    <2>3. NothingLost'
      BY <2>1, <2>2, Stayed
    <2>4. Places' /\ InsideSpan'
      BY <2>1 DEF PipeInv, Places, InsideSpan
    <2>5. Arrays'
      BY <2>1, ArraysKept
    <2>6. QED
      BY <2>2, <2>3, <2>4, <2>5 DEF PipeInv
  <1>10. QED
    BY <1>1, <1>2, <1>3, <1>4, <1>5, <1>6, <1>7, <1>8, <1>9 DEF Pipe!Next, Pipe!Step, Pipe!Done

\* A beginning of a text.
LEMMA BeginningIsPrefix ==
  ASSUME NEW s \in Seq(Scalars), NEW t \in Seq(Scalars)
  PROVE  Pipe!IsPrefix(s, s \o t)
  <1> DEFINE u == s \o t
  <1>1. Len(s) \in Nat /\ u \in Seq(Scalars) /\ Len(u) = Len(s) + Len(t) /\ \A i \in 1..Len(s) : u[i] = s[i]
    BY ConcatProperties
  <1> HIDE DEF u
  <1>2. Len(t) \in Nat
    OBVIOUS
  <1>3. Len(s) <= Len(u)
    BY <1>1, <1>2
  <1>4. SubSeq(u, 1, Len(s)) = s
    <2> DEFINE v == SubSeq(u, 1, Len(s))
    <2>1. v \in Seq(Scalars) /\ Len(v) = Len(s) /\ \A i \in 1..Len(s) : v[i] = u[i]
      BY <1>1, <1>3
    <2> HIDE DEF v
    <2>2. v = s
      BY <1>1, <2>1, SeqEqual
    <2>3. QED
      BY <2>2 DEF v
  <1>5. SubSeq(s, 1, Len(s)) = s
    BY SubSeqFull
  <1>6. Pipe!IsPrefix(s, u)
    BY <1>3, <1>4, <1>5 DEF Pipe!IsPrefix
  <1>7. QED
    BY <1>6 DEF u

\* When nothing is left, the output is the encoded text.
LEMMA PipeInvImpliesExact ==
  ASSUME PipeInv
  PROVE  Pipe!OutputIsExact
  <1>1. /\ encoded \in Seq(Scalars) /\ waiting \in Seq(Scalars) /\ Left \in Seq(Scalars)
        /\ span \in Nat /\ granted \in Nat /\ PipeTyped
    BY PendingTyped DEF PipeInv, PipeTyped
  <1>2. PICK r \in Seq(Scalars) : r = waiting \o Left
    BY <1>1, ConcatsRegroup
  <1>3. Pipe!IsPrefix(encoded, Pipe!Expected)
    <2>1. Pipe!IsPrefix(encoded, encoded \o r)
      BY <1>1, BeginningIsPrefix
    <2>2. QED
      BY <1>2, <2>1 DEF PipeInv, NothingLost
  <1>4. Pipe!Bytes(waiting) <= granted
    <2>1. Pipe!Bytes(waiting) \in Nat
      BY <1>1, BytesOfAppend
    <2>2. QED
      BY <1>1, <2>1 DEF PipeInv, InsideSpan
  <1>5. ASSUME pipePc = "done" PROVE encoded = Pipe!Expected /\ rented = 0
    <2>1. rest = <<>> /\ waiting = <<>> /\ html = <<>> /\ buffer = <<>> /\ rented = 0
      BY <1>5 DEF PipeInv, Places, Arrays
    <2>2. Pending = <<>>
      BY <2>1, EncodedOfAppend DEF Pending
    <2>3. Left = <<>>
      BY <1>1, <2>1, <2>2, LeftIsPending
    <2>4. encoded \o (<<>> \o <<>>) = encoded
      <3>1. <<>> \o <<>> = <<>>
        BY ConcatsRegroup, EmptySeq
      <3>2. encoded \o <<>> = encoded
        BY <1>1, ConcatsRegroup
      <3>3. QED
        BY <3>1, <3>2
    <2>5. QED
      BY <2>1, <2>3, <2>4 DEF PipeInv, NothingLost
  <1>6. QED
    BY <1>3, <1>4, <1>5 DEF Pipe!OutputIsExact

\* For any texts, escapes and sizes, and whatever spans and arrays the pipe and
\* the pool grant: the methods of PipeWriterHtmlExtensions and Utf8PipeTextWriter
\* put a beginning of the encoded text into the pipe at any time and all of it by
\* their end, never advance more than they were granted, and return their arrays.
THEOREM PipeTextIsExact == Pipe!Spec => []Pipe!OutputIsExact
  <1>1. Pipe!Init => PipeInv
    BY PipeInitial
  <1>2. PipeInv /\ [Pipe!Next]_(Pipe!vars) => PipeInv'
    BY PipePreserved
  <1>3. PipeInv => Pipe!OutputIsExact
    BY PipeInvImpliesExact
  <1>4. QED
    BY <1>1, <1>2, <1>3, PTL DEF Pipe!Spec

-----------------------------------------------------------------------------
(* HTML attributes, one after another.                                      *)

\* The two instances have the same operator of the library.
LEMMA SameFlatten == \A s : Attributes!FlattenSeq(s) = Pipe!FlattenSeq(s)
  BY DEF Attributes!FlattenSeq, Pipe!FlattenSeq

\* The tokens of the attribute a, and those of them in s.
TokensFor(a) == {x \in Attributes!Tokens : x.of = a}
OnlyOf(a) == [x \in Attributes!Tokens |-> IF x.of = a THEN <<x>> ELSE <<>>]
OfAttribute(s, a) == Pipe!FlattenSeq(Mapped(s, OnlyOf(a)))

\* The tokens of an attribute, as an image of the output.
LEMMA OnlyOfTyped ==
  ASSUME NEW a
  PROVE  Maps(OnlyOf(a), Attributes!Tokens, Seq(Attributes!Tokens))
  <1>1. ASSUME NEW x \in Attributes!Tokens PROVE (IF x.of = a THEN <<x>> ELSE <<>>) \in Seq(Attributes!Tokens)
    BY EmptySeq
  <1>2. QED
    BY <1>1 DEF OnlyOf, Maps

\* The tokens of an attribute, token by token.
LEMMA OfAttributeOfAppend ==
  ASSUME NEW a
  PROVE  /\ OfAttribute(<<>>, a) = <<>>
         /\ \A s \in Seq(Attributes!Tokens) : OfAttribute(s, a) \in Seq(Attributes!Tokens)
         /\ \A s \in Seq(Attributes!Tokens), x \in Attributes!Tokens :
               OfAttribute(Append(s, x), a) = OfAttribute(s, a) \o (IF x.of = a THEN <<x>> ELSE <<>>)
  <1> DEFINE f == OnlyOf(a)
             X == Attributes!Tokens
  <1>1. Maps(f, X, Seq(X))
    BY OnlyOfTyped
  <1>2. OfAttribute(<<>>, a) = <<>>
    <2>1. Mapped(<<>>, f) = <<>>
      BY EmptySeq DEF Mapped
    <2>2. QED
      BY <2>1, FlattenOfNothing DEF OfAttribute
  <1>3. ASSUME NEW s \in Seq(X), NEW x \in X
        PROVE  /\ OfAttribute(s, a) \in Seq(X)
               /\ OfAttribute(Append(s, x), a) = OfAttribute(s, a) \o (IF x.of = a THEN <<x>> ELSE <<>>)
    <2>1. PICK b \in Seq(X) : b = f[x]
      BY <1>1 DEF Maps
    <2>2. PICK m \in Seq(Seq(X)) : m = Mapped(s, f)
      BY <1>1, MappedTyped
    <2>3. Mapped(Append(s, x), f) = Append(m, b)
      BY <1>1, <2>1, <2>2, MappedAppend
    <2>4. Pipe!FlattenSeq(m) \in Seq(X) /\ Pipe!FlattenSeq(Append(m, b)) = Pipe!FlattenSeq(m) \o b
      BY FlattenOfAppend
    <2>5. b = IF x.of = a THEN <<x>> ELSE <<>>
      BY <2>1 DEF OnlyOf
    <2>6. QED
      BY <2>2, <2>3, <2>4, <2>5 DEF OfAttribute
  <1>4. ASSUME NEW s \in Seq(X) PROVE OfAttribute(s, a) \in Seq(X)
    <2>1. [token |-> "prefix", of |-> 0] \in X
      BY DEF Attributes!Tokens
    <2>2. QED
      BY <1>3, <2>1
  <1>5. QED
    BY <1>2, <1>3, <1>4

\* Tokens of one attribute, written after others.
LEMMA OfAttributeOfOwn ==
  ASSUME NEW s \in Seq(Attributes!Tokens), NEW l, NEW new \in Seq(TokensFor(l)), NEW a
  PROVE  /\ s \o new \in Seq(Attributes!Tokens)
         /\ OfAttribute(s \o new, a) = IF a = l THEN OfAttribute(s, a) \o new ELSE OfAttribute(s, a)
  <1> DEFINE X == Attributes!Tokens
             P == {u \in Seq(X) : OfAttribute(s \o u, a) = IF a = l THEN OfAttribute(s, a) \o u ELSE OfAttribute(s, a)}
  <1>0. OfAttribute(s, a) \in Seq(X) /\ TokensFor(l) \subseteq X
    BY OfAttributeOfAppend DEF TokensFor
  <1>1. <<>> \in P
    <2>1. s \o <<>> = s /\ <<>> \in Seq(X) /\ OfAttribute(s, a) \o <<>> = OfAttribute(s, a)
      BY <1>0, ConcatEmptySeq, EmptySeq
    <2>2. QED
      BY <2>1
  <1>2. ASSUME NEW u \in Seq(TokensFor(l)), NEW x \in TokensFor(l), u \in P PROVE Append(u, x) \in P
    <2>1. x \in X /\ x.of = l /\ u \in Seq(X)
      BY <1>0, <1>2 DEF TokensFor
    <2>2. Append(u, x) \in Seq(X) /\ s \o u \in Seq(X) /\ s \o Append(u, x) = Append(s \o u, x)
      BY <2>1, AppendConcat
    <2>3. OfAttribute(Append(s \o u, x), a) = OfAttribute(s \o u, a) \o (IF x.of = a THEN <<x>> ELSE <<>>)
      BY <2>1, <2>2, OfAttributeOfAppend
    <2>4. CASE a = l
      <3>1. PICK o \in Seq(X) : o = OfAttribute(s, a)
        BY <1>0
      <3>2. OfAttribute(s \o u, a) = o \o u
        BY <1>2, <2>4, <3>1
      <3>3. OfAttribute(s \o Append(u, x), a) = (o \o u) \o <<x>>
        BY <2>1, <2>2, <2>3, <2>4, <3>2
      <3>4. o \o Append(u, x) = (o \o u) \o <<x>>
        BY <2>1, AppendConcat
      <3>5. QED
        BY <2>2, <2>4, <3>1, <3>3, <3>4
    <2>5. CASE a # l
      <3>1. OfAttribute(s \o u, a) = OfAttribute(s, a)
        BY <1>2, <2>5
      <3>2. OfAttribute(s \o Append(u, x), a) = OfAttribute(s, a) \o <<>>
        BY <2>1, <2>2, <2>3, <2>5, <3>1
      <3>3. OfAttribute(s, a) \o <<>> = OfAttribute(s, a)
        BY <1>0, ConcatEmptySeq
      <3>4. QED
        BY <2>2, <2>5, <3>2, <3>3
    <2>6. QED
      BY <2>4, <2>5
  <1> HIDE DEF P
  <1>3. new \in P
    BY <1>1, <1>2, SequenceInduction
  <1>4. new \in Seq(X)
    BY <1>0
  <1>5. s \o new \in Seq(X)
    BY <1>4, ConcatProperties
  <1>6. QED
    BY <1>3, <1>5 DEF P

\* The tokens of a value, of the first n values, one token, and the whole attribute.
Piece(a, values, i) ==
  IF values[i].kind = "null" THEN <<>> ELSE Attributes!ValueTokens(a, values[i], Len(values) = 1)
Pieces(a, values, n) == Pipe!FlattenSeq([i \in 1..n |-> Piece(a, values, i)])
Mark(token, a) == <<[token |-> token, of |-> a]>>
OmittedAt(values, i) == Attributes!IsOmitted(values[i], Len(values) = 1)
OmittedFor(values) == OmittedAt(values, 1)
WholeFor(a, values) ==
  IF OmittedFor(values) THEN <<>>
  ELSE Mark("prefix", a) \o (Pieces(a, values, Len(values)) \o Mark("suffix", a))

\* A token of an attribute.
LEMMA MarkTyped ==
  ASSUME NEW a \in Nat
  PROVE  /\ Mark("prefix", a) \in Seq(TokensFor(a)) /\ Mark("suffix", a) \in Seq(TokensFor(a))
         /\ Mark("space", a) \in Seq(TokensFor(a)) /\ Mark("value", a) \in Seq(TokensFor(a))
         /\ Mark("name", a) \in Seq(TokensFor(a)) /\ <<>> \in Seq(TokensFor(a))
  <1>1. ASSUME NEW token \in {"prefix", "suffix", "name", "space", "value"} PROVE Mark(token, a) \in Seq(TokensFor(a))
    <2>1. PICK x : x = [token |-> token, of |-> a]
      OBVIOUS
    <2>2. x \in TokensFor(a)
      BY <2>1 DEF TokensFor, Attributes!Tokens
    <2>3. QED
      BY <2>1, <2>2 DEF Mark
  <1>2. QED
    BY <1>1, EmptySeq

\* The tokens of a value.
LEMMA ValueTokensTyped ==
  ASSUME NEW a \in Nat, NEW v, NEW single
  PROVE  Attributes!ValueTokens(a, v, single) \in Seq(TokensFor(a))
  <1> DEFINE T == TokensFor(a)
  <1>1. (IF v.spaced THEN Mark("space", a) ELSE <<>>) \in Seq(T)
    BY MarkTyped
  <1>2. <<[token |-> IF v.kind = "true" /\ single /\ ~v.spaced THEN "name" ELSE "value", of |-> a]>> \in Seq(T)
    BY MarkTyped DEF Mark
  <1> HIDE DEF T
  <1>3. PICK p \in Seq(T) : p = IF v.spaced THEN Mark("space", a) ELSE <<>>
    BY <1>1
  <1>4. PICK q \in Seq(T) :
           q = <<[token |-> IF v.kind = "true" /\ single /\ ~v.spaced THEN "name" ELSE "value", of |-> a]>>
    BY <1>2
  <1>5. Attributes!ValueTokens(a, v, single) = p \o q
    BY <1>3, <1>4, Zenon DEF Attributes!ValueTokens, Mark
  <1>6. p \o q \in Seq(T)
    BY ConcatProperties
  <1>7. QED
    BY <1>5, <1>6 DEF T

\* The tokens of the first values, and of one more.
LEMMA PiecesOfNext ==
  ASSUME NEW a \in Nat, NEW values, NEW n \in Nat
  PROVE  /\ Pieces(a, values, 0) = <<>> /\ Pieces(a, values, n) \in Seq(TokensFor(a))
         /\ Piece(a, values, n + 1) \in Seq(TokensFor(a))
         /\ Pieces(a, values, n + 1) = Pieces(a, values, n) \o Piece(a, values, n + 1)
  <1> DEFINE T == TokensFor(a)
             s == [i \in 1..n |-> Piece(a, values, i)]
             t == [i \in 1..(n + 1) |-> Piece(a, values, i)]
  <1>1. \A i : Piece(a, values, i) \in Seq(T)
    BY ValueTokensTyped, MarkTyped DEF Piece
  <1>2. PICK p \in Seq(T) : p = Piece(a, values, n + 1)
    BY <1>1
  <1> HIDE DEF T
  <1>3. s \in Seq(Seq(T)) /\ Len(s) = n /\ \A i \in 1..n : s[i] = Piece(a, values, i)
    BY <1>1
  <1>4. t \in Seq(Seq(T)) /\ Len(t) = n + 1 /\ \A i \in 1..(n + 1) : t[i] = Piece(a, values, i)
    BY <1>1
  <1> HIDE DEF s, t
  <1>5. t = Append(s, p)
    <2> DEFINE u == Append(s, p)
    <2>1. u \in Seq(Seq(T)) /\ Len(u) = n + 1 /\ u[n + 1] = p /\ \A i \in 1..n : u[i] = s[i]
      BY <1>3, AppendProperties
    <2> HIDE DEF u
    <2>2. \A i \in 1..(n + 1) : u[i] = t[i]
      BY <1>2, <1>3, <1>4, <2>1
    <2>3. u = t
      BY <1>4, <2>1, <2>2, SeqEqual
    <2>4. QED
      BY <2>3 DEF u
  <1>6. Pipe!FlattenSeq(s) \in Seq(T) /\ Pipe!FlattenSeq(t) = Pipe!FlattenSeq(s) \o p
    BY <1>3, <1>5, FlattenOfAppend
  <1>7. Pieces(a, values, 0) = <<>>
    <2>1. [i \in 1..0 |-> Piece(a, values, i)] = <<>>
      BY EmptySeq
    <2>2. QED
      BY <2>1, FlattenOfNothing DEF Pieces
  <1>8. QED
    BY <1>1, <1>2, <1>6, <1>7 DEF Pieces, s, t, T

-----------------------------------------------------------------------------
(* One attribute is open at most, and has what was written of it so far.     *)

\* What the output has of the attribute a, with these values, while its call is c.
Marked(c) == c.markup
Templated(values, c) == Marked(c) /\ values[c.done + 1].kind = "template"
SoFar(a, values, c) ==
  IF c.done = 1 /\ OmittedFor(values) THEN <<>>
  ELSE (IF Len(values) = 1 /\ c.done = 0 /\ ~Templated(values, c) THEN <<>> ELSE Mark("prefix", a))
       \o (Pieces(a, values, c.done)
           \o (IF Templated(values, c) /\ values[c.done + 1].spaced THEN Mark("space", a) ELSE <<>>))

\* The inductive invariant: the last attribute that began is the one that is open,
\* if any, and _attributeInfo is its own; it has in the output exactly what SoFar
\* says, the ended ones are whole and the next ones have nothing.
Calls == [attribute : Nat, done : Nat, markup : BOOLEAN]
Infos == [of : Nat, single : BOOLEAN, suppressed : BOOLEAN]
AttributesTyped ==
  /\ attributes \in Seq(Seq(Attributes!Values)) /\ \A a \in DOMAIN attributes : Len(attributes[a]) >= 1
  /\ calls \in Seq(Calls) /\ (calls = <<>> \/ Len(calls) = 1)
  /\ info \in Infos /\ output \in Seq(Attributes!Tokens)
Open(a, values, c) ==
  /\ c.attribute = a /\ c.done <= Len(values)
  /\ c.markup => c.done < Len(values) /\ values[c.done + 1].kind \in {"template", "method"}
  /\ info.of = a /\ (info.single <=> Len(values) = 1)
  /\ info.suppressed <=> c.done = 1 /\ OmittedFor(values)
  /\ OfAttribute(output, a) = SoFar(a, values, c)
InProgress ==
  calls # <<>> => attributes # <<>> /\ Open(Len(attributes), attributes[Len(attributes)], calls[1])
EndedWhole ==
  \A a \in DOMAIN attributes :
     (calls = <<>> \/ a # Len(attributes)) => OfAttribute(output, a) = WholeFor(a, attributes[a])
NotBegun == \A a \in Nat : a > Len(attributes) => OfAttribute(output, a) = <<>>
AttributesInv == AttributesTyped /\ InProgress /\ EndedWhole /\ NotBegun

\* Before the first attribute.
LEMMA AttributesInitial ==
  ASSUME Attributes!Init
  PROVE  AttributesInv
  <1>1. attributes = <<>> /\ calls = <<>> /\ output = <<>> /\ info = [of |-> 0, single |-> FALSE, suppressed |-> FALSE]
    BY DEF Attributes!Init
  <1>2. info \in Infos
    BY <1>1, Zenon DEF Infos
  <1>3. AttributesTyped
    BY <1>1, <1>2, EmptySeq DEF AttributesTyped
  <1>4. EndedWhole
    BY <1>1, EmptySeq DEF EndedWhole
  <1>5. NotBegun
    BY <1>1, OfAttributeOfAppend DEF NotBegun
  <1>6. QED
    BY <1>1, <1>3, <1>4, <1>5 DEF AttributesInv, InProgress

\* The tokens of one attribute are written.
LEMMA OutputGrows ==
  ASSUME AttributesTyped, NEW l, NEW new \in Seq(TokensFor(l)), output' = output \o new
  PROVE  /\ output' \in Seq(Attributes!Tokens)
         /\ \A a : OfAttribute(output', a) = IF a = l THEN OfAttribute(output, a) \o new ELSE OfAttribute(output, a)
  <1>1. output \in Seq(Attributes!Tokens)
    BY DEF AttributesTyped
  <1>2. output \o new \in Seq(Attributes!Tokens)
    BY <1>1, OfAttributeOfOwn
  <1>3. ASSUME NEW a
        PROVE  OfAttribute(output \o new, a) = IF a = l THEN OfAttribute(output, a) \o new ELSE OfAttribute(output, a)
    BY <1>1, OfAttributeOfOwn
  <1>4. QED
    BY <1>2, <1>3

\* A sequence of that length has an element.
LEMMA OneIsNotEmpty == \A s : (Len(s) = 1 => s # <<>>) /\ (Len(s) \in Nat \ {0} => s # <<>>)
  <1> SUFFICES ASSUME NEW s, s = <<>> PROVE Len(s) = 0
    OBVIOUS
  <1>1. Len(<<>>) = 0
    BY EmptySeq
  <1>2. QED
    BY <1>1, Zenon

\* What an action needs to know of the attribute that is open.
LEMMA OpenCall ==
  ASSUME AttributesInv, calls # <<>>
  PROVE  /\ Len(calls) = 1 /\ Attributes!Inner = calls[1] /\ calls[1] \in Calls
         /\ Len(attributes) \in Nat \ {0} /\ Len(attributes) \in DOMAIN attributes
         /\ attributes[Len(attributes)] \in Seq(Attributes!Values) /\ Len(attributes[Len(attributes)]) \in Nat \ {0}
         /\ Open(Len(attributes), attributes[Len(attributes)], calls[1])
  <1>1. Len(calls) = 1 /\ calls \in Seq(Calls) /\ attributes \in Seq(Seq(Attributes!Values)) /\ attributes # <<>>
    BY DEF AttributesInv, AttributesTyped, InProgress
  <1>2. Len(attributes) \in Nat \ {0} /\ Len(attributes) \in DOMAIN attributes
    BY <1>1, EmptySeq
  <1>3. attributes[Len(attributes)] \in Seq(Attributes!Values)
    BY <1>1, <1>2
  <1>4. Len(attributes[Len(attributes)]) >= 1 /\ Len(attributes[Len(attributes)]) \in Nat
    BY <1>2, <1>3 DEF AttributesInv, AttributesTyped
  <1>5. calls[1] \in Calls
    BY <1>1
  <1>6. QED
    BY <1>1, <1>2, <1>3, <1>4, <1>5 DEF AttributesInv, InProgress, Attributes!Inner

\* An action on the open attribute: the other ones are as they were.
LEMMA CallPreserves ==
  ASSUME AttributesInv, calls # <<>>, attributes' = attributes, info' \in Infos,
         NEW new \in Seq(TokensFor(Len(attributes))), output' = output \o new,
         calls' \in Seq(Calls), Len(calls') = 1,
         Open(Len(attributes), attributes[Len(attributes)], calls[1])'
  PROVE  AttributesInv'
  <1>1. AttributesTyped /\ Len(attributes) \in Nat \ {0}
    BY OpenCall DEF AttributesInv
  <1>2. output' \in Seq(Attributes!Tokens) /\ \A a : a # Len(attributes) => OfAttribute(output', a) = OfAttribute(output, a)
    BY <1>1, OutputGrows
  <1>3. AttributesTyped'
    BY <1>1, <1>2 DEF AttributesTyped
  <1>4. InProgress'
    <2>1. attributes # <<>>
      BY <1>1, EmptySeq
    <2>2. QED
      BY <2>1 DEF InProgress
  <1>5. calls' # <<>>
    BY OneIsNotEmpty, Zenon
  <1>6. EndedWhole'
    BY <1>2, <1>5 DEF AttributesInv, EndedWhole
  <1>7. NotBegun'
    BY <1>1, <1>2 DEF AttributesInv, NotBegun
  <1>8. QED
    BY <1>3, <1>4, <1>6, <1>7 DEF AttributesInv

\* A new attribute begins when none is open.
LEMMA BeginPreserves ==
  ASSUME AttributesInv, NEW values \in Seq(Attributes!Values), Len(values) >= 1, Attributes!BeginWriteAttribute(values)
  PROVE  AttributesInv'
  <1>0. PICK l : l = Len(attributes) + 1
    OBVIOUS
  <1>1. /\ AttributesTyped /\ calls = <<>> /\ attributes \in Seq(Seq(Attributes!Values)) /\ output \in Seq(Attributes!Tokens)
    BY DEF AttributesInv, AttributesTyped, Attributes!BeginWriteAttribute
  <1>2. Len(attributes) \in Nat /\ l \in Nat \ {0} /\ l = Len(attributes) + 1 /\ Len(values) \in Nat
    BY <1>0, <1>1
  <1>3. PICK single \in BOOLEAN : single <=> Len(values) = 1
    OBVIOUS
  <1>4. PICK suppressed \in BOOLEAN : ~suppressed
    OBVIOUS
  <1>5. PICK markup \in BOOLEAN : ~markup
    OBVIOUS
  <1>6. PICK new \in Seq(TokensFor(l)) : new = IF single THEN <<>> ELSE Mark("prefix", l)
    BY <1>2, MarkTyped
  <1>7. /\ attributes' = Append(attributes, values)
        /\ calls' = Append(calls, [attribute |-> l, done |-> 0, markup |-> markup])
        /\ info' = [of |-> l, single |-> single, suppressed |-> suppressed]
    <2>1. markup = FALSE /\ suppressed = FALSE /\ single = (Len(values) = 1)
      BY <1>3, <1>4, <1>5
    <2>2. QED
      BY <1>0, <2>1, Zenon DEF Attributes!BeginWriteAttribute
  <1>8. output' = output \o new
    <2>1. CASE single
      <3>1. output' = output /\ output \o <<>> = output
        BY <1>1, <1>3, <2>1, ConcatEmptySeq DEF Attributes!BeginWriteAttribute
      <3>2. QED
        BY <1>6, <2>1, <3>1
    <2>2. CASE ~single
      <3>1. PICK x : x = [token |-> "prefix", of |-> l]
        OBVIOUS
      <3>2. output' = Append(output, x)
        BY <1>0, <1>3, <2>2, <3>1 DEF Attributes!BeginWriteAttribute
      <3>3. x \in Attributes!Tokens /\ new = <<x>>
        BY <1>2, <1>6, <2>2, <3>1 DEF Attributes!Tokens, Mark
      <3>4. QED
        BY <1>1, <3>2, <3>3, AppendIsConcat
    <2>3. QED
      BY <2>1, <2>2
  <1>9. PICK c \in Calls : c = [attribute |-> l, done |-> 0, markup |-> markup]
    BY <1>2 DEF Calls
  <1>10. c.attribute = l /\ c.done = 0 /\ ~c.markup
    BY <1>5, <1>9
  <1>11. calls' \in Seq(Calls) /\ Len(calls') = 1 /\ calls'[1] = c
    BY <1>1, <1>7, <1>9, EmptySeq
  <1>12. info' \in Infos /\ info'.of = l /\ (info'.single <=> Len(values) = 1) /\ ~info'.suppressed
    BY <1>2, <1>3, <1>4, <1>7 DEF Infos
  <1>13. /\ attributes' \in Seq(Seq(Attributes!Values)) /\ Len(attributes') = l /\ attributes'[l] = values
         /\ \A a \in 1..Len(attributes) : attributes'[a] = attributes[a]
         /\ DOMAIN attributes = 1..Len(attributes) /\ DOMAIN attributes' = 1..l
    BY <1>1, <1>2, <1>7
  <1>14. /\ output' \in Seq(Attributes!Tokens)
         /\ \A a : OfAttribute(output', a) = IF a = l THEN OfAttribute(output, a) \o new ELSE OfAttribute(output, a)
    BY <1>1, <1>8, OutputGrows
  <1>15. AttributesTyped'
    <2>1. ASSUME NEW a \in DOMAIN attributes' PROVE Len(attributes'[a]) >= 1
      <3>1. a = l \/ a \in DOMAIN attributes
        BY <1>2, <1>13
      <3>2. QED
        BY <1>1, <1>13, <3>1 DEF AttributesTyped
    <2>2. QED
      BY <1>11, <1>12, <1>13, <1>14, <2>1 DEF AttributesTyped
  <1>16. OfAttribute(output', l) = new
    <2>1. OfAttribute(output, l) = <<>>
      BY <1>2 DEF AttributesInv, NotBegun
    <2>2. <<>> \o new = new
      BY ConcatEmptySeq
    <2>3. QED
      BY <1>14, <2>1, <2>2
  <1>17. SoFar(l, values, c) = new
    <2>1. Pieces(l, values, 0) = <<>>
      BY <1>2, PiecesOfNext
    <2>2. ~Templated(values, c)
      BY <1>10 DEF Templated, Marked
    <2>3. <<>> \o <<>> = <<>> /\ new \o <<>> = new
      BY ConcatEmptySeq, EmptySeq
    <2>4. PICK none : none = <<>>
      OBVIOUS
    <2>5. SoFar(l, values, c) = (IF Len(values) = 1 THEN none ELSE Mark("prefix", l)) \o (none \o none)
      <3>1. c.done # 1 /\ Pieces(l, values, c.done) = none
        BY <1>10, <2>1, <2>4
      <3>2. (IF Templated(values, c) /\ values[c.done + 1].spaced THEN Mark("space", l) ELSE <<>>) = none
        BY <2>2, <2>4
      <3>3. (IF Len(values) = 1 /\ c.done = 0 /\ ~Templated(values, c) THEN <<>> ELSE Mark("prefix", l))
              = (IF Len(values) = 1 THEN none ELSE Mark("prefix", l))
        BY <1>10, <2>2, <2>4
      <3>4. QED
        BY <3>1, <3>2, <3>3, Zenon DEF SoFar
    <2>6. new = IF Len(values) = 1 THEN none ELSE Mark("prefix", l)
      BY <1>3, <1>6, <2>4
    <2>7. none \o none = none /\ new \o none = new
      BY <2>3, <2>4
    <2>8. QED
      BY <2>5, <2>6, <2>7
  <1>18. InProgress'
    <2>1. Open(l, values, c)'
      <3>1. OfAttribute(output', l) = SoFar(l, values, c)
        BY <1>16, <1>17
      <3>2. info'.suppressed <=> c.done = 1 /\ OmittedFor(values)
        BY <1>10, <1>12
      <3>3. c.done <= Len(values)
        BY <1>2, <1>10
      <3>4. QED
        BY <1>10, <1>12, <3>1, <3>2, <3>3, Zenon DEF Open
    <2>2. attributes' # <<>>
      BY <1>2, <1>13, OneIsNotEmpty
    <2>3. QED
      BY <1>11, <1>13, <2>1, <2>2 DEF InProgress
  <1>19. EndedWhole'
    <2> SUFFICES ASSUME NEW a \in DOMAIN attributes', a # l
                 PROVE  OfAttribute(output', a) = WholeFor(a, attributes'[a])
      <3>1. calls' # <<>>
        BY <1>11, OneIsNotEmpty, Zenon
      <3>2. QED
        BY <1>13, <3>1 DEF EndedWhole
    <2>1. a \in DOMAIN attributes
      BY <1>2, <1>13
    <2>2. OfAttribute(output, a) = WholeFor(a, attributes[a])
      BY <1>1, <2>1 DEF AttributesInv, EndedWhole
    <2>3. QED
      BY <1>13, <1>14, <2>1, <2>2
  <1>20. NotBegun'
    <2> SUFFICES ASSUME NEW a \in Nat, a > l PROVE OfAttribute(output', a) = <<>>
      BY <1>13 DEF NotBegun
    <2>1. a > Len(attributes) /\ a # l
      BY <1>2
    <2>2. QED
      BY <1>14, <2>1 DEF AttributesInv, NotBegun
  <1>21. QED
    BY <1>15, <1>18, <1>19, <1>20 DEF AttributesInv

\* The open attribute ends: the output has all of it.
LEMMA EndPreserves ==
  ASSUME AttributesInv, Attributes!EndWriteAttribute
  PROVE  AttributesInv'
  <1> DEFINE l == Len(attributes)
             values == attributes[l]
             c == calls[1]
             n == Len(values)
  <1>1. /\ calls # <<>> /\ Len(calls) = 1 /\ c \in Calls /\ l \in Nat \ {0} /\ l \in DOMAIN attributes
        /\ Open(l, values, c) /\ n \in Nat \ {0} /\ Attributes!Inner = c /\ values \in Seq(Attributes!Values)
    BY OpenCall DEF Attributes!EndWriteAttribute
  <1>2. /\ ~c.markup /\ c.done = n /\ attributes' = attributes /\ info' = info
        /\ output' = IF info.suppressed THEN output ELSE output \o Mark("suffix", l)
        /\ c.attribute = l /\ (info.suppressed <=> c.done = 1 /\ OmittedFor(values))
        /\ OfAttribute(output, l) = SoFar(l, values, c)
    BY <1>1, Zenon DEF Attributes!EndWriteAttribute, Attributes!Literal, Mark, Open
  <1>3. calls' = <<>> /\ calls' \in Seq(Calls)
    <2>1. calls' = SubSeq(calls, 1, 0)
      BY <1>1 DEF Attributes!EndWriteAttribute
    <2>2. SubSeq(calls, 1, 0) = <<>>
      BY SubSeqEmpty
    <2>3. QED
      BY <2>1, <2>2, EmptySeq
  <1>4. OmittedFor(values) => n = 1
    BY DEF OmittedFor, OmittedAt, Attributes!IsOmitted
  <1> HIDE DEF l, values, c, n
  <1>5. PICK new \in Seq(TokensFor(l)) : new = IF OmittedFor(values) THEN <<>> ELSE Mark("suffix", l)
    BY <1>1, MarkTyped
  <1>6. AttributesTyped
    BY DEF AttributesInv
  <1>7. output' = output \o new
    <2>1. output \o <<>> = output
      BY <1>6, ConcatEmptySeq DEF AttributesTyped
    <2>2. QED
      BY <1>2, <1>4, <1>5, <2>1
  <1>8. /\ output' \in Seq(Attributes!Tokens)
        /\ \A a : OfAttribute(output', a) = IF a = l THEN OfAttribute(output, a) \o new ELSE OfAttribute(output, a)
    BY <1>6, <1>7, OutputGrows
  <1>9. AttributesTyped'
    BY <1>2, <1>3, <1>6, <1>8 DEF AttributesTyped
  <1>10. OfAttribute(output', l) = WholeFor(l, values)
    <2>1. OfAttribute(output', l) = SoFar(l, values, c) \o new
      BY <1>2, <1>8
    <2>2. CASE OmittedFor(values)
      <3>1. SoFar(l, values, c) = <<>> /\ new = <<>> /\ <<>> \o <<>> = <<>>
        BY <1>2, <1>4, <1>5, <2>2, ConcatEmptySeq, EmptySeq DEF SoFar
      <3>2. QED
        BY <2>1, <2>2, <3>1 DEF WholeFor
    <2>3. CASE ~OmittedFor(values)
      <3>1. ~Templated(values, c)
        BY <1>2 DEF Templated, Marked
      <3>2. SoFar(l, values, c) = Mark("prefix", l) \o (Pieces(l, values, n) \o <<>>)
        BY <1>1, <1>2, <2>3, <3>1 DEF SoFar
      <3>3. PICK p \in Seq(TokensFor(l)), q \in Seq(TokensFor(l)) : p = Mark("prefix", l) /\ q = Pieces(l, values, n)
        BY <1>1, MarkTyped, PiecesOfNext
      <3>4. q \o <<>> = q /\ (p \o q) \o new = p \o (q \o new)
        BY ConcatEmptySeq, ConcatAssociative
      <3>5. OfAttribute(output', l) = p \o (q \o new)
        BY <2>1, <3>2, <3>3, <3>4
      <3>6. new = Mark("suffix", l)
        BY <1>5, <2>3
      <3>7. QED
        BY <2>3, <3>3, <3>5, <3>6, Zenon DEF WholeFor, n
    <2>4. QED
      BY <2>2, <2>3
  <1>11. EndedWhole'
    <2>1. ASSUME NEW a \in DOMAIN attributes PROVE OfAttribute(output', a) = WholeFor(a, attributes[a])
      <3>1. CASE a = l
        BY <1>10, <3>1 DEF values
      <3>2. CASE a # l
        <4>1. OfAttribute(output, a) = WholeFor(a, attributes[a])
          BY <3>2 DEF AttributesInv, EndedWhole, l
        <4>2. QED
          BY <1>8, <3>2, <4>1
      <3>3. QED
        BY <3>1, <3>2
    <2>2. QED
      BY <1>2, <2>1 DEF EndedWhole
  <1>12. NotBegun'
    <2>1. ASSUME NEW a \in Nat, a > l PROVE OfAttribute(output', a) = <<>>
      <3>1. a # l /\ a > Len(attributes)
        BY <1>1, <2>1 DEF l
      <3>2. OfAttribute(output, a) = <<>>
        BY <3>1 DEF AttributesInv, NotBegun
      <3>3. QED
        BY <1>8, <3>1, <3>2
    <2>2. QED
      BY <1>2, <2>1 DEF NotBegun, l
  <1>13. QED
    BY <1>3, <1>9, <1>11, <1>12 DEF AttributesInv, InProgress

\* Tokens, one after the other.
LEMMA TokensRegroup ==
  ASSUME NEW T, NEW x \in Seq(T), NEW y \in Seq(T), NEW z \in Seq(T)
  PROVE  /\ x \o y \in Seq(T) /\ <<>> \in Seq(T) /\ <<>> \o x = x /\ x \o <<>> = x
         /\ (x \o y) \o z = x \o (y \o z)
  BY ConcatProperties, ConcatEmptySeq, ConcatAssociative, EmptySeq

\* The parts of SoFar before and after the values.
Opening(a, values, c) == IF Len(values) = 1 /\ c.done = 0 /\ ~Templated(values, c) THEN <<>> ELSE Mark("prefix", a)
Spacing(a, values, c) == IF Templated(values, c) /\ values[c.done + 1].spaced THEN Mark("space", a) ELSE <<>>

\* The index of the next value, behind a name for the provers.
Counts(c) == c.done \in Nat

\* What is written of an open attribute, in its parts.
LEMMA SoFarParts ==
  ASSUME NEW a \in Nat, NEW values, NEW c, Counts(c)
  PROVE  /\ Opening(a, values, c) \in Seq(TokensFor(a)) /\ Spacing(a, values, c) \in Seq(TokensFor(a))
         /\ Pieces(a, values, c.done) \in Seq(TokensFor(a))
         /\ c.done = 1 /\ OmittedFor(values) => SoFar(a, values, c) = <<>>
         /\ ~(c.done = 1 /\ OmittedFor(values)) =>
               SoFar(a, values, c) = Opening(a, values, c) \o (Pieces(a, values, c.done) \o Spacing(a, values, c))
         /\ SoFar(a, values, c) \in Seq(TokensFor(a))
  <1>1. PICK h \in Seq(TokensFor(a)) : h = Opening(a, values, c)
    BY MarkTyped DEF Opening
  <1>2. PICK t \in Seq(TokensFor(a)) : t = Spacing(a, values, c)
    BY MarkTyped DEF Spacing
  <1>3. PICK m \in Seq(TokensFor(a)) : m = Pieces(a, values, c.done)
    BY PiecesOfNext DEF Counts
  <1>4. h \o (m \o t) \in Seq(TokensFor(a))
    BY TokensRegroup
  <1>5. /\ c.done = 1 /\ OmittedFor(values) => SoFar(a, values, c) = <<>>
        /\ ~(c.done = 1 /\ OmittedFor(values)) => SoFar(a, values, c) = h \o (m \o t)
    BY <1>1, <1>2, <1>3, Zenon DEF SoFar, Opening, Spacing
  <1>6. QED
    BY <1>1, <1>2, <1>3, <1>4, <1>5, EmptySeq

\* An attribute that is not omitted, behind a name for the provers.
Shown(values, c) == ~(c.done = 1 /\ OmittedFor(values))

\* What is written of it, in its parts.
LEMMA SoFarShown ==
  ASSUME NEW a \in Nat, NEW values, NEW c, Counts(c), Shown(values, c)
  PROVE  SoFar(a, values, c) = Opening(a, values, c) \o (Pieces(a, values, c.done) \o Spacing(a, values, c))
  <1>1. ~(c.done = 1 /\ OmittedFor(values))
    BY DEF Shown
  <1>2. QED
    BY <1>1, SoFarParts

\* The call c becomes d, some values later.
Follows(values, c, d, more) ==
  /\ Len(values) \in Nat /\ Len(values) # 0
  /\ c.done \in Nat /\ c.done < Len(values) /\ d.done = c.done + more

\* An omitted value is the only one.
LEMMA OmittedFollows ==
  ASSUME NEW values, NEW c, NEW d, Follows(values, c, d, 1)
  PROVE  OmittedAt(values, c.done + 1) <=> d.done = 1 /\ OmittedFor(values)
  <1>1. PICK size \in Nat : Len(values) = size /\ size # 0 /\ c.done \in Nat /\ c.done < size /\ d.done = c.done + 1
    BY DEF Follows
  <1>2. OmittedAt(values, c.done + 1) => Len(values) = 1
    BY DEF OmittedAt, Attributes!IsOmitted
  <1>3. OmittedAt(values, c.done + 1) => d.done = 1
    BY <1>1, <1>2
  <1>4. d.done = 1 => c.done + 1 = 1
    BY <1>1
  <1>5. QED
    BY <1>3, <1>4 DEF OmittedFor

\* What a value adds.
LEMMA SoFarNext ==
  ASSUME NEW a \in Nat, NEW values, NEW c, NEW d, Follows(values, c, d, 1), ~Marked(d), ~Templated(values, c)
  PROVE  /\ OmittedAt(values, c.done + 1) =>
               SoFar(a, values, c) = <<>> /\ SoFar(a, values, d) = <<>>
         /\ ~OmittedAt(values, c.done + 1) =>
               SoFar(a, values, d) = SoFar(a, values, c)
                     \o ((IF Len(values) = 1 THEN Mark("prefix", a) ELSE <<>>) \o Piece(a, values, c.done + 1))
  <1>0. PICK size \in Nat : Len(values) = size /\ size # 0 /\ c.done \in Nat /\ c.done < size /\ d.done = c.done + 1
        /\ Counts(c) /\ Counts(d)
    BY DEF Follows, Counts
  <1> USE <1>0
  <1>1. OmittedFor(values) => Len(values) = 1
    BY DEF OmittedFor, OmittedAt, Attributes!IsOmitted
  <1>2. /\ ~Templated(values, d) /\ ~(c.done = 1 /\ OmittedFor(values)) /\ d.done \in Nat /\ d.done # 0
        /\ Len(values) = 1 <=> (Len(values) = 1 /\ c.done = 0)
    <2>1. ~Templated(values, d)
      BY DEF Templated
    <2>2. d.done \in Nat /\ d.done # 0 /\ (Len(values) = 1 => c.done = 0)
      OBVIOUS
    <2>3. ~(c.done = 1 /\ OmittedFor(values))
      BY <1>1
    <2>4. QED
      BY <2>1, <2>2, <2>3
  <1>3. PICK none \in Seq(TokensFor(a)) : none = <<>>
    BY EmptySeq
  <1>4. PICK prefix \in Seq(TokensFor(a)) : prefix = Mark("prefix", a)
    BY MarkTyped
  <1>5. PICK p \in Seq(TokensFor(a)), x \in Seq(TokensFor(a)) : p = Pieces(a, values, c.done) /\ x = Piece(a, values, c.done + 1)
    BY PiecesOfNext
  <1>6. Pieces(a, values, d.done) = p \o x
    <2>1. PICK n \in Nat : n = c.done /\ n + 1 = d.done
      OBVIOUS
    <2>2. Pieces(a, values, n + 1) = Pieces(a, values, n) \o Piece(a, values, n + 1)
      BY PiecesOfNext
    <2>3. QED
      BY <1>5, <2>1, <2>2, Zenon
  <1>7. /\ Opening(a, values, c) = (IF Len(values) = 1 THEN none ELSE prefix) /\ Spacing(a, values, c) = none
        /\ Opening(a, values, d) = prefix /\ Spacing(a, values, d) = none
    BY <1>2, <1>3, <1>4 DEF Opening, Spacing
  <1>8. SoFar(a, values, c) = (IF Len(values) = 1 THEN none ELSE prefix) \o (p \o none)
    <2>1. Shown(values, c)
      BY <1>2 DEF Shown
    <2>2. SoFar(a, values, c) = Opening(a, values, c) \o (Pieces(a, values, c.done) \o Spacing(a, values, c))
      BY <2>1, SoFarShown
    <2>3. QED
      BY <1>5, <1>7, <2>2, Zenon
  <1>9. c.done = 0 => p = none
    BY <1>3, <1>5, PiecesOfNext
  <1>10. SoFar(a, values, c) = IF Len(values) = 1 THEN none ELSE prefix \o p
    <2>1. none \o (none \o none) = none /\ p \o none = p
      BY <1>3, TokensRegroup
    <2>2. QED
      BY <1>2, <1>8, <1>9, <2>1
  <1>11. ASSUME OmittedAt(values, c.done + 1)
         PROVE  SoFar(a, values, c) = <<>> /\ SoFar(a, values, d) = <<>>
    <2>1. Len(values) = 1
      BY <1>11 DEF OmittedAt, Attributes!IsOmitted
    <2>2. d.done = 1 /\ OmittedFor(values)
      BY <1>11, OmittedFollows
    <2>3. SoFar(a, values, d) = <<>>
      BY <1>2, <2>2, SoFarParts
    <2>4. QED
      BY <1>3, <1>10, <2>1, <2>2, <2>3
  <1>12. ASSUME ~OmittedAt(values, c.done + 1)
         PROVE  SoFar(a, values, d) = SoFar(a, values, c)
                     \o ((IF Len(values) = 1 THEN Mark("prefix", a) ELSE <<>>) \o Piece(a, values, c.done + 1))
    <2>1. ~(d.done = 1 /\ OmittedFor(values))
      BY <1>12, OmittedFollows
    <2>2. SoFar(a, values, d) = prefix \o ((p \o x) \o none)
      <3>1. Shown(values, d)
        BY <2>1 DEF Shown
      <3>2. SoFar(a, values, d) = Opening(a, values, d) \o (Pieces(a, values, d.done) \o Spacing(a, values, d))
        BY <3>1, SoFarShown
      <3>3. QED
        BY <1>6, <1>7, <3>2, Zenon
    <2>3. prefix \o ((p \o x) \o none) = prefix \o (p \o x)
      BY <1>3, TokensRegroup
    <2>4. CASE Len(values) = 1
      <3>1. p = none /\ none \o x = x /\ none \o (prefix \o x) = prefix \o x
        BY <1>2, <1>3, <1>9, <2>4, TokensRegroup
      <3>2. QED
        BY <1>4, <1>5, <1>10, <2>1, <2>2, <2>3, <2>4, <3>1
    <2>5. CASE Len(values) # 1
      <3>1. none \o x = x /\ Associates(prefix, p, x)
        BY <1>3, TokensRegroup, ConcatAssociates
      <3>2. QED
        BY <1>3, <1>5, <1>10, <2>1, <2>2, <2>3, <2>5, <3>1 DEF Associates
    <2>6. QED
      BY <2>4, <2>5
  <1>13. QED
    BY <1>11, <1>12

\* What the literals in front of a delegate add, and then its markup.
LEMMA SoFarTemplate ==
  ASSUME NEW a \in Nat, NEW values, NEW c, NEW d, Follows(values, c, d, 0), ~Marked(c), Marked(d),
         values[c.done + 1].kind = "template"
  PROVE  SoFar(a, values, d) = SoFar(a, values, c)
            \o ((IF Len(values) = 1 THEN Mark("prefix", a) ELSE <<>>)
                \o (IF values[c.done + 1].spaced THEN Mark("space", a) ELSE <<>>))
  <1>0. PICK size \in Nat : Len(values) = size /\ size # 0 /\ c.done \in Nat /\ c.done < size /\ d.done = c.done
        /\ Counts(c) /\ Counts(d)
    BY DEF Follows, Counts
  <1> USE <1>0
  <1>1. OmittedFor(values) => Len(values) = 1
    BY DEF OmittedFor, OmittedAt, Attributes!IsOmitted
  <1>2. /\ Templated(values, d) /\ ~Templated(values, c) /\ ~(c.done = 1 /\ OmittedFor(values))
        /\ Len(values) = 1 => c.done = 0
    BY <1>1 DEF Templated
  <1>3. PICK none \in Seq(TokensFor(a)) : none = <<>>
    BY EmptySeq
  <1>4. PICK prefix \in Seq(TokensFor(a)) : prefix = Mark("prefix", a)
    BY MarkTyped
  <1>5. PICK p \in Seq(TokensFor(a)) : p = Pieces(a, values, c.done)
    BY PiecesOfNext
  <1>6. PICK space \in Seq(TokensFor(a)) : space = IF values[c.done + 1].spaced THEN Mark("space", a) ELSE <<>>
    BY MarkTyped
  <1>7. /\ Opening(a, values, c) = (IF Len(values) = 1 THEN none ELSE prefix) /\ Spacing(a, values, c) = none
        /\ Opening(a, values, d) = prefix /\ Spacing(a, values, d) = space
    BY <1>2, <1>3, <1>4, <1>6 DEF Opening, Spacing
  <1>8. /\ SoFar(a, values, c) = (IF Len(values) = 1 THEN none ELSE prefix) \o (p \o none)
        /\ SoFar(a, values, d) = prefix \o (p \o space)
    <2>1. Shown(values, c) /\ Shown(values, d)
      BY <1>2 DEF Shown
    <2>2. SoFar(a, values, c) = Opening(a, values, c) \o (Pieces(a, values, c.done) \o Spacing(a, values, c))
      BY <2>1, SoFarShown
    <2>3. SoFar(a, values, d) = Opening(a, values, d) \o (Pieces(a, values, d.done) \o Spacing(a, values, d))
      BY <2>1, SoFarShown
    <2>4. QED
      BY <1>5, <1>7, <2>2, <2>3, Zenon
  <1>9. c.done = 0 => p = none
    BY <1>3, <1>5, PiecesOfNext
  <1>10. CASE Len(values) = 1
    <2>1. p = none /\ none \o (none \o none) = none /\ none \o space = space /\ none \o (prefix \o space) = prefix \o space
      BY <1>2, <1>3, <1>9, <1>10, TokensRegroup
    <2>2. QED
      BY <1>4, <1>6, <1>8, <1>10, <2>1
  <1>11. CASE Len(values) # 1
    <2>1. p \o none = p /\ none \o space = space
      BY <1>3, TokensRegroup
    <2>2. Associates(prefix, p, space)
      BY ConcatAssociates
    <2>3. QED
      BY <1>3, <1>6, <1>8, <1>11, <2>1, <2>2 DEF Associates
  <1>12. QED
    BY <1>10, <1>11

\* A templated value ends.
LEMMA SoFarMarkup ==
  ASSUME NEW a \in Nat, NEW values, NEW c, NEW d, Follows(values, c, d, 1), ~Marked(d), Templated(values, c)
  PROVE  /\ SoFar(a, values, d) = SoFar(a, values, c) \o Mark("value", a)
         /\ ~(d.done = 1 /\ OmittedFor(values))
  <1>0. PICK size \in Nat : Len(values) = size /\ size # 0 /\ c.done \in Nat /\ c.done < size /\ d.done = c.done + 1
        /\ Counts(c) /\ Counts(d)
    BY DEF Follows, Counts
  <1> USE <1>0
  <1>1. OmittedFor(values) => Len(values) = 1
    BY DEF OmittedFor, OmittedAt, Attributes!IsOmitted
  <1>2. /\ values[c.done + 1].kind = "template" /\ ~Templated(values, d) /\ ~(c.done = 1 /\ OmittedFor(values))
        /\ d.done \in Nat /\ d.done # 0
    BY <1>1 DEF Templated
  <1>3. ~(d.done = 1 /\ OmittedFor(values))
    <2>1. ASSUME d.done = 1 PROVE ~OmittedFor(values)
      <3>1. values[1].kind = "template"
        BY <1>2, <2>1
      <3>2. QED
        BY <3>1 DEF OmittedFor, OmittedAt, Attributes!IsOmitted
    <2>2. QED
      BY <2>1
  <1>4. PICK none \in Seq(TokensFor(a)) : none = <<>>
    BY EmptySeq
  <1>5. PICK prefix \in Seq(TokensFor(a)), value \in Seq(TokensFor(a)) : prefix = Mark("prefix", a) /\ value = Mark("value", a)
    BY MarkTyped
  <1>6. PICK p \in Seq(TokensFor(a)) : p = Pieces(a, values, c.done)
    BY PiecesOfNext
  <1>7. PICK space \in Seq(TokensFor(a)) : space = IF values[c.done + 1].spaced THEN Mark("space", a) ELSE <<>>
    BY MarkTyped
  <1>8. Piece(a, values, c.done + 1) = space \o value
    BY <1>2, <1>5, <1>7 DEF Piece, Attributes!ValueTokens, Mark
  <1>9. Pieces(a, values, d.done) = p \o (space \o value)
    <2>1. Pieces(a, values, c.done + 1) = Pieces(a, values, c.done) \o Piece(a, values, c.done + 1)
      BY PiecesOfNext
    <2>2. QED
      BY <1>6, <1>8, <2>1, Zenon
  <1>10. /\ Opening(a, values, c) = prefix /\ Spacing(a, values, c) = space
         /\ Opening(a, values, d) = prefix /\ Spacing(a, values, d) = none
    BY <1>2, <1>4, <1>5, <1>7 DEF Opening, Spacing
  <1>11. /\ SoFar(a, values, c) = prefix \o (p \o space)
         /\ SoFar(a, values, d) = prefix \o ((p \o (space \o value)) \o none)
    <2>1. Shown(values, c) /\ Shown(values, d)
      BY <1>2, <1>3 DEF Shown
    <2>2. SoFar(a, values, c) = Opening(a, values, c) \o (Pieces(a, values, c.done) \o Spacing(a, values, c))
      BY <2>1, SoFarShown
    <2>3. SoFar(a, values, d) = Opening(a, values, d) \o (Pieces(a, values, d.done) \o Spacing(a, values, d))
      BY <2>1, SoFarShown
    <2>4. QED
      BY <1>6, <1>9, <1>10, <2>2, <2>3, Zenon
  <1>12. (prefix \o (p \o space)) \o value = prefix \o ((p \o (space \o value)) \o none)
    <2>1. PICK r \in Seq(TokensFor(a)) : r = p \o (space \o value)
      BY TokensRegroup
    <2>2. PICK q \in Seq(TokensFor(a)) : q = p \o space
      BY TokensRegroup
    <2>3. Associates(p, space, value)
      BY ConcatAssociates
    <2>4. r \o none = r
      BY <1>4, TokensRegroup
    <2>5. Associates(prefix, q, value)
      BY ConcatAssociates
    <2>6. QED
      BY <2>1, <2>2, <2>3, <2>4, <2>5, Zenon DEF Associates
  <1>13. QED
    BY <1>3, <1>5, <1>11, <1>12

\* The open attribute goes on, with what is written for it.
LEMMA CallGoesOn ==
  ASSUME AttributesInv, calls # <<>>, attributes' = attributes,
         info' \in Infos, info'.of = info.of, info'.single = info.single,
         NEW new \in Seq(TokensFor(Len(attributes))), output' = output \o new,
         calls' \in Seq(Calls), Len(calls') = 1, NEW d, d = calls'[1],
         NEW values, values = attributes[Len(attributes)],
         d.attribute = Len(attributes), d.done <= Len(values),
         Marked(d) => d.done < Len(values) /\ values[d.done + 1].kind \in {"template", "method"},
         info'.suppressed <=> d.done = 1 /\ OmittedFor(values),
         SoFar(Len(attributes), values, d) = SoFar(Len(attributes), values, calls[1]) \o new
  PROVE  AttributesInv'
  <1>1. PICK l : l = Len(attributes)
    OBVIOUS
  <1>2. Open(l, values, calls[1]) /\ AttributesTyped /\ Len(attributes') = l /\ attributes'[l] = values
    BY <1>1, OpenCall DEF AttributesInv
  <1>3. OfAttribute(output', l) = SoFar(l, values, d)
    <2>1. OfAttribute(output', l) = OfAttribute(output, l) \o new
      BY <1>1, <1>2, OutputGrows
    <2>2. OfAttribute(output, l) = SoFar(l, values, calls[1])
      BY <1>2 DEF Open
    <2>3. QED
      BY <1>1, <2>1, <2>2
  <1>4. info'.of = l /\ (info'.single <=> Len(values) = 1)
    BY <1>2 DEF Open
  <1>5. Open(l, values, d)'
    BY <1>1, <1>3, <1>4, Zenon DEF Open, Marked
  <1>6. Open(Len(attributes), attributes[Len(attributes)], calls[1])'
    BY <1>2, <1>5, Zenon
  <1>7. QED
    BY <1>6, CallPreserves

\* The call after a value.
LEMMA ValueIsWritten ==
  ASSUME AttributesInv, calls # <<>>, Attributes!ValueWritten
  PROVE  /\ calls' \in Seq(Calls) /\ Len(calls') = 1 /\ calls'[1].attribute = calls[1].attribute
         /\ calls'[1].done = calls[1].done + 1 /\ ~Marked(calls'[1])
  <1>1. Len(calls) = 1 /\ calls \in Seq(Calls) /\ calls[1] \in Calls
    BY OpenCall DEF AttributesInv, AttributesTyped
  <1>2. PICK markup \in BOOLEAN : markup = FALSE
    OBVIOUS
  <1>3. PICK n \in Nat : n = calls[1].done
    BY <1>1 DEF Calls
  <1> DEFINE d == [[calls[1] EXCEPT !.done = n + 1] EXCEPT !.markup = markup]
  <1>4. d \in Calls /\ d.attribute = calls[1].attribute /\ d.done = n + 1 /\ d.markup = markup
    <2>0. PICK b \in Calls, m \in Nat : b = calls[1] /\ m = n + 1
      BY <1>1
    <2>1. PICK c : c = [b EXCEPT !.done = m]
      OBVIOUS
    <2>2. c \in Calls /\ c.attribute = calls[1].attribute /\ c.done = n + 1
      BY <2>0, <2>1 DEF Calls
    <2>3. d = [c EXCEPT !.markup = markup]
      BY <2>0, <2>1, Zenon
    <2>4. d \in Calls /\ d.attribute = c.attribute /\ d.done = c.done /\ d.markup = markup
      <3> HIDE DEF d
      <3>1. QED
        BY <2>2, <2>3 DEF Calls
    <2>5. QED
      BY <2>2, <2>4
  <1>5. calls' = [[calls EXCEPT ![1] = [calls[1] EXCEPT !.done = n + 1]] EXCEPT ![1] = d]
    BY <1>1, <1>2, <1>3 DEF Attributes!ValueWritten
  <1> HIDE DEF d
  <1>6. calls' \in Seq(Calls) /\ Len(calls') = 1 /\ calls'[1] = d
    BY <1>1, <1>4, <1>5
  <1>7. QED
    BY <1>2, <1>3, <1>4, <1>6 DEF Marked

\* WriteAttributeValue of a value that is not rendered.
LEMMA OmitPreserves ==
  ASSUME AttributesInv, Attributes!OmitValue
  PROVE  AttributesInv'
  <1>1. PICK l \in Nat, values \in Seq(Attributes!Values), c \in {calls[1]}, d \in {calls'[1]} :
           l = Len(attributes) /\ values = attributes[l] /\ c = calls[1] /\ d = calls'[1]
    <2>1. Len(attributes) \in Nat /\ attributes[Len(attributes)] \in Seq(Attributes!Values)
      BY OpenCall DEF Attributes!OmitValue, Attributes!HasValue
    <2>2. QED
      BY <2>1
  <1>2. PICK size \in Nat : size = Len(values) /\ size # 0
    BY <1>1, OpenCall DEF Attributes!OmitValue, Attributes!HasValue
  <1>3. /\ calls # <<>> /\ Attributes!Inner = c /\ c.done \in Nat /\ Open(l, values, c)
    BY <1>1, OpenCall DEF Attributes!OmitValue, Attributes!HasValue, Calls
  <1>4. /\ ~Marked(c) /\ c.done < size /\ c.attribute = l /\ (info.single <=> Len(values) = 1)
        /\ attributes' = attributes /\ output' = output /\ info' = [info EXCEPT !.suppressed = TRUE]
        /\ Attributes!ValueWritten /\ Attributes!IsOmitted(values[c.done + 1], info.single)
    BY <1>1, <1>2, <1>3, Zenon DEF Attributes!OmitValue, Attributes!HasValue, Attributes!NextValue, Open, Marked
  <1>5. /\ calls' \in Seq(Calls) /\ Len(calls') = 1 /\ d.attribute = l /\ d.done = c.done + 1 /\ ~Marked(d)
    BY <1>1, <1>3, <1>4, ValueIsWritten
  <1>6. ~Templated(values, c) /\ OmittedAt(values, c.done + 1)
    BY <1>4 DEF Templated, OmittedAt, Attributes!IsOmitted
  <1>7. SoFar(l, values, c) = <<>> /\ SoFar(l, values, d) = <<>> /\ OmittedFor(values) /\ d.done = 1
    <2>1. Follows(values, c, d, 1)
      BY <1>2, <1>3, <1>4, <1>5 DEF Follows
    <2>2. SoFar(l, values, c) = <<>> /\ SoFar(l, values, d) = <<>>
      <3>1. ~Marked(d) /\ ~Templated(values, c) /\ OmittedAt(values, c.done + 1)
        BY <1>5, <1>6
      <3>2. QED
        BY <2>1, <3>1, SoFarNext
    <2>3. OmittedFor(values) /\ d.done = 1
      BY <1>6, <2>1, OmittedFollows
    <2>4. QED
      BY <2>2, <2>3
  <1>8. info' \in Infos /\ info'.of = info.of /\ info'.single = info.single /\ info'.suppressed
    <2>1. PICK suppressed \in BOOLEAN : suppressed = TRUE
      OBVIOUS
    <2>2. info \in Infos /\ info' = [info EXCEPT !.suppressed = suppressed]
      BY <1>4, <2>1 DEF AttributesInv, AttributesTyped
    <2>3. QED
      BY <2>1, <2>2 DEF Infos
  <1>9. PICK new \in Seq(TokensFor(l)) : new = <<>>
    BY EmptySeq
  <1>10. output' = output \o new /\ SoFar(l, values, d) = SoFar(l, values, c) \o new
    <2>1. output \o <<>> = output /\ <<>> \o <<>> = <<>>
      BY ConcatEmptySeq, EmptySeq DEF AttributesInv, AttributesTyped
    <2>2. QED
      BY <1>4, <1>7, <1>9, <2>1
  <1>11. d.done <= Len(values) /\ (info'.suppressed <=> d.done = 1 /\ OmittedFor(values))
    BY <1>2, <1>7, <1>8
  <1>12. QED
    BY <1>1, <1>3, <1>4, <1>5, <1>8, <1>9, <1>10, <1>11, CallGoesOn

\* What is appended to the output can be appended part by part.
LEMMA OutputAssociates ==
  ASSUME NEW a, NEW s \in Seq(Attributes!Tokens), NEW x \in Seq(TokensFor(a)), NEW y \in Seq(TokensFor(a))
  PROVE  Associates(s, x, y)
  <1>1. x \in Seq(Attributes!Tokens) /\ y \in Seq(Attributes!Tokens)
    BY DEF TokensFor
  <1>2. QED
    BY <1>1, ConcatAssociates

\* Nothing is suppressed by a value that is not omitted.
LEMMA SuppressionKept ==
  ASSUME NEW l, NEW values, NEW c, NEW d, Open(l, values, c), Follows(values, c, d, 1), info' = info,
         ~OmittedAt(values, c.done + 1)
  PROVE  d.done <= Len(values) /\ (info'.suppressed <=> d.done = 1 /\ OmittedFor(values))
  <1>1. PICK size \in Nat : Len(values) = size /\ size # 0 /\ c.done \in Nat /\ c.done < size /\ d.done = c.done + 1
    BY DEF Follows
  <1>2. ~(d.done = 1 /\ OmittedFor(values))
    BY OmittedFollows
  <1>3. OmittedFor(values) => size = 1
    BY <1>1 DEF OmittedFor, OmittedAt, Attributes!IsOmitted
  <1>4. ~(c.done = 1 /\ OmittedFor(values))
    BY <1>1, <1>3
  <1>5. ~info.suppressed
    BY <1>4 DEF Open
  <1>6. QED
    BY <1>1, <1>2, <1>5

\* The open attribute, and what is left of its call: named for the actions.
LEMMA NamedCall ==
  ASSUME AttributesInv, calls # <<>>
  PROVE  \E l \in Nat, values \in Seq(Attributes!Values), c \in {calls[1]}, d \in {calls'[1]} :
           /\ l = Len(attributes) /\ values = attributes[l] /\ c = calls[1] /\ d = calls'[1]
           /\ Len(values) \in Nat /\ Len(values) # 0 /\ Attributes!Inner = c /\ Counts(c) /\ Open(l, values, c)
           /\ c.attribute = l /\ info.of = l /\ info.single = (Len(values) = 1) /\ info \in Infos
           /\ output \in Seq(Attributes!Tokens)
  <1>1. PICK l \in Nat, values \in Seq(Attributes!Values), c \in {calls[1]} :
           l = Len(attributes) /\ values = attributes[l] /\ c = calls[1]
    BY OpenCall
  <1>2. PICK d : d = calls'[1]
    OBVIOUS
  <1>3. /\ Len(values) \in Nat /\ Len(values) # 0 /\ Attributes!Inner = c /\ Counts(c) /\ Open(l, values, c)
    BY <1>1, OpenCall DEF Calls, Counts
  <1>4. info \in Infos /\ output \in Seq(Attributes!Tokens)
    BY DEF AttributesInv, AttributesTyped
  <1>5. c.attribute = l /\ info.of = l /\ (info.single <=> Len(values) = 1) /\ info.single \in BOOLEAN
    BY <1>3, <1>4 DEF Open, Infos
  <1>6. info.single = (Len(values) = 1)
    BY <1>5
  <1>7. QED
    BY <1>1, <1>2, <1>3, <1>4, <1>5, <1>6, Zenon

\* WriteAttributeValue of a value that is there at once.
LEMMA WritePreserves ==
  ASSUME AttributesInv, Attributes!WriteAttributeValue
  PROVE  AttributesInv'
  <1>0. calls # <<>>
    BY DEF Attributes!WriteAttributeValue, Attributes!HasValue
  <1>1. PICK l \in Nat, values \in Seq(Attributes!Values), c \in {calls[1]}, d \in {calls'[1]} :
           /\ l = Len(attributes) /\ values = attributes[l] /\ c = calls[1] /\ d = calls'[1]
           /\ Len(values) \in Nat /\ Len(values) # 0 /\ Attributes!Inner = c /\ Counts(c) /\ Open(l, values, c)
           /\ c.attribute = l /\ info.of = l /\ info.single = (Len(values) = 1) /\ info \in Infos
           /\ output \in Seq(Attributes!Tokens)
    BY <1>0, NamedCall
  <1>2. PICK value : value = values[c.done + 1]
    OBVIOUS
  <1>3. /\ ~Marked(c) /\ c.done < Len(values) /\ attributes' = attributes /\ info' = info /\ Attributes!ValueWritten
        /\ ~OmittedAt(values, c.done + 1) /\ Attributes!NextValue = value
        /\ output' = output \o (IF Len(values) = 1 THEN Mark("prefix", l) ELSE <<>>)
                            \o (IF value.kind = "null" THEN <<>> ELSE Attributes!ValueTokens(l, value, Len(values) = 1))
    <2>1. Attributes!NextValue = value
      BY <1>1, <1>2 DEF Attributes!NextValue
    <2>2. /\ ~Marked(c) /\ c.done < Len(values) /\ attributes' = attributes /\ info' = info /\ Attributes!ValueWritten
      BY <1>1, Zenon DEF Attributes!WriteAttributeValue, Attributes!HasValue, Marked
    <2>3. ~OmittedAt(values, c.done + 1)
      BY <1>1, <1>2, <2>1, Zenon DEF Attributes!WriteAttributeValue, OmittedAt
    <2>4. output' = output \o (IF Len(values) = 1 THEN Mark("prefix", l) ELSE <<>>)
                            \o (IF value.kind = "null" THEN <<>> ELSE Attributes!ValueTokens(l, value, Len(values) = 1))
      BY <1>1, <2>1, Zenon DEF Attributes!WriteAttributeValue, Attributes!Literal, Mark
    <2>5. QED
      BY <2>1, <2>2, <2>3, <2>4, Zenon
  <1>4. /\ calls' \in Seq(Calls) /\ Len(calls') = 1 /\ d.attribute = l /\ d.done = c.done + 1 /\ ~Marked(d)
    BY <1>0, <1>1, <1>3, ValueIsWritten
  <1>5. Follows(values, c, d, 1)
    BY <1>1, <1>3, <1>4 DEF Follows, Counts
  <1>6. ~Templated(values, c)
    BY <1>3 DEF Templated
  <1>7. PICK first \in Seq(TokensFor(l)) : first = IF Len(values) = 1 THEN Mark("prefix", l) ELSE <<>>
    BY <1>1, MarkTyped
  <1>8. PICK second \in Seq(TokensFor(l)) : second = Piece(l, values, c.done + 1)
    BY <1>1, PiecesOfNext DEF Counts
  <1>9. PICK new \in Seq(TokensFor(l)) : new = first \o second
    BY TokensRegroup
  <1>10. SoFar(l, values, d) = SoFar(l, values, c) \o new
    <2>1. ~Marked(d) /\ ~OmittedAt(values, c.done + 1)
      BY <1>3, <1>4
    <2>2. SoFar(l, values, d) = SoFar(l, values, c)
             \o ((IF Len(values) = 1 THEN Mark("prefix", l) ELSE <<>>) \o Piece(l, values, c.done + 1))
      BY <1>5, <1>6, <2>1, SoFarNext
    <2>3. QED
      BY <1>7, <1>8, <1>9, <2>2, Zenon
  <1>11. output' = output \o new
    <2>1. output' = (output \o first) \o second
      BY <1>2, <1>3, <1>7, <1>8, Zenon DEF Piece
    <2>2. (output \o first) \o second = output \o (first \o second)
      <3>1. Associates(output, first, second)
        BY <1>1, OutputAssociates
      <3>2. QED
        BY <3>1, Zenon DEF Associates
    <2>3. QED
      BY <1>9, <2>1, <2>2, Zenon
  <1>12. d.done <= Len(values) /\ (info'.suppressed <=> d.done = 1 /\ OmittedFor(values))
    BY <1>1, <1>3, <1>4, <1>5, <1>6, SuppressionKept
  <1>13. QED
    BY <1>0, <1>1, <1>3, <1>4, <1>9, <1>10, <1>11, <1>12, CallGoesOn

\* Markup in a value ends.
LEMMA MarkupPreserves ==
  ASSUME AttributesInv, Attributes!EndMarkup
  PROVE  AttributesInv'
  <1>0. calls # <<>>
    BY DEF Attributes!EndMarkup
  <1>1. PICK l \in Nat, values \in Seq(Attributes!Values), c \in {calls[1]}, d \in {calls'[1]} :
           /\ l = Len(attributes) /\ values = attributes[l] /\ c = calls[1] /\ d = calls'[1]
           /\ Len(values) \in Nat /\ Len(values) # 0 /\ Attributes!Inner = c /\ Counts(c) /\ Open(l, values, c)
           /\ c.attribute = l /\ info.of = l /\ info.single = (Len(values) = 1) /\ info \in Infos
           /\ output \in Seq(Attributes!Tokens)
    BY <1>0, NamedCall
  <1>2. PICK value : value = values[c.done + 1]
    OBVIOUS
  <1>3. /\ Marked(c) /\ c.done < Len(values) /\ attributes' = attributes /\ info' = info /\ Attributes!ValueWritten
        /\ Attributes!NextValue = value /\ value.kind \in {"template", "method"}
    <2>1. Attributes!NextValue = value
      BY <1>1, <1>2 DEF Attributes!NextValue
    <2>2. /\ Marked(c) /\ attributes' = attributes /\ info' = info /\ Attributes!ValueWritten
      BY <1>1, Zenon DEF Attributes!EndMarkup, Marked
    <2>3. c.done < Len(values) /\ value.kind \in {"template", "method"}
      BY <1>1, <1>2, <2>2, Zenon DEF Open, Marked
    <2>4. QED
      BY <2>1, <2>2, <2>3
  <1>4. /\ calls' \in Seq(Calls) /\ Len(calls') = 1 /\ d.attribute = l /\ d.done = c.done + 1 /\ ~Marked(d)
    BY <1>0, <1>1, <1>3, ValueIsWritten
  <1>5. Follows(values, c, d, 1)
    BY <1>1, <1>3, <1>4 DEF Follows, Counts
  <1>6. ~OmittedAt(values, c.done + 1)
    BY <1>2, <1>3 DEF OmittedAt, Attributes!IsOmitted
  <1>7. d.done <= Len(values) /\ (info'.suppressed <=> d.done = 1 /\ OmittedFor(values))
    BY <1>1, <1>3, <1>4, <1>5, <1>6, SuppressionKept
  <1>8. CASE value.kind = "template"
    <2>1. PICK new \in Seq(TokensFor(l)) : new = Mark("value", l)
      BY <1>1, MarkTyped
    <2>2. output' = output \o new
      <3>1. PICK x : x = [token |-> "value", of |-> l]
        OBVIOUS
      <3>2. output' = Append(output, x)
        BY <1>1, <1>3, <1>8, <3>1 DEF Attributes!EndMarkup
      <3>3. x \in Attributes!Tokens /\ new = <<x>>
        BY <1>1, <2>1, <3>1 DEF Attributes!Tokens, Mark
      <3>4. QED
        BY <1>1, <3>2, <3>3, AppendIsConcat
    <2>3. Templated(values, c)
      BY <1>2, <1>3, <1>8 DEF Templated
    <2>4. SoFar(l, values, d) = SoFar(l, values, c) \o new
      <3>1. ~Marked(d)
        BY <1>4
      <3>2. SoFar(l, values, d) = SoFar(l, values, c) \o Mark("value", l)
        BY <1>5, <2>3, <3>1, SoFarMarkup
      <3>3. QED
        BY <2>1, <3>2, Zenon
    <2>5. QED
      BY <1>0, <1>1, <1>3, <1>4, <1>7, <2>1, <2>2, <2>4, CallGoesOn
  <1>9. CASE value.kind # "template"
    <2>1. PICK first \in Seq(TokensFor(l)) : first = IF Len(values) = 1 THEN Mark("prefix", l) ELSE <<>>
      BY <1>1, MarkTyped
    <2>2. PICK second \in Seq(TokensFor(l)) : second = Piece(l, values, c.done + 1)
      BY <1>1, PiecesOfNext DEF Counts
    <2>3. PICK new \in Seq(TokensFor(l)) : new = first \o second
      BY TokensRegroup
    <2>4. ~Templated(values, c)
      BY <1>2, <1>9 DEF Templated
    <2>5. SoFar(l, values, d) = SoFar(l, values, c) \o new
      <3>1. ~Marked(d)
        BY <1>4
      <3>2. SoFar(l, values, d) = SoFar(l, values, c)
               \o ((IF Len(values) = 1 THEN Mark("prefix", l) ELSE <<>>) \o Piece(l, values, c.done + 1))
        BY <1>5, <1>6, <2>4, <3>1, SoFarNext
      <3>3. QED
        BY <2>1, <2>2, <2>3, <3>2, Zenon
    <2>6. output' = output \o new
      <3>1. output' = output \o (IF Len(values) = 1 THEN Mark("prefix", l) ELSE <<>>)
                             \o Attributes!ValueTokens(l, value, Len(values) = 1)
        BY <1>1, <1>3, <1>9, Zenon DEF Attributes!EndMarkup, Attributes!Literal, Mark
      <3>2. second = Attributes!ValueTokens(l, value, Len(values) = 1)
        <4>1. value.kind # "null"
          BY <1>3
        <4>2. QED
          BY <1>2, <2>2, <4>1, Zenon DEF Piece
      <3>3. output' = (output \o first) \o second
        BY <2>1, <3>1, <3>2, Zenon
      <3>4. (output \o first) \o second = output \o (first \o second)
        <4>1. Associates(output, first, second)
          BY <1>1, OutputAssociates
        <4>2. QED
          BY <4>1, Zenon DEF Associates
      <3>5. QED
        BY <2>3, <3>3, <3>4, Zenon
    <2>7. QED
      BY <1>0, <1>1, <1>3, <1>4, <1>7, <2>3, <2>5, <2>6, CallGoesOn
  <1>10. QED
    BY <1>8, <1>9

\* What BeginMarkup does to the call, behind a name for the provers.
MarkupBegins == calls' = [calls EXCEPT ![Len(calls)].markup = TRUE]

\* The call while a value's markup is written.
LEMMA MarkupIsMarked ==
  ASSUME AttributesInv, calls # <<>>, MarkupBegins
  PROVE  /\ calls' \in Seq(Calls) /\ Len(calls') = 1 /\ calls'[1].attribute = calls[1].attribute
         /\ calls'[1].done = calls[1].done /\ Marked(calls'[1])
  <1>1. Len(calls) = 1 /\ calls \in Seq(Calls) /\ calls[1] \in Calls
    BY OpenCall DEF AttributesInv, AttributesTyped
  <1>2. PICK markup \in BOOLEAN : markup = TRUE
    OBVIOUS
  <1>3. PICK b \in Calls : b = calls[1]
    BY <1>1
  <1>4. PICK d : d = [b EXCEPT !.markup = markup]
    OBVIOUS
  <1>5. d \in Calls /\ d.attribute = b.attribute /\ d.done = b.done /\ d.markup = markup
    BY <1>4 DEF Calls
  <1>6. calls' = [calls EXCEPT ![1] = d]
    BY <1>1, <1>2, <1>3, <1>4 DEF MarkupBegins
  <1>7. calls' \in Seq(Calls) /\ Len(calls') = 1 /\ calls'[1] = d
    BY <1>1, <1>5, <1>6
  <1>8. QED
    BY <1>2, <1>3, <1>5, <1>7 DEF Marked

\* Markup in a value begins.
LEMMA BeginMarkupPreserves ==
  ASSUME AttributesInv, Attributes!BeginMarkup
  PROVE  AttributesInv'
  <1>0. calls # <<>>
    BY DEF Attributes!BeginMarkup, Attributes!HasValue
  <1>1. PICK l \in Nat, values \in Seq(Attributes!Values), c \in {calls[1]}, d \in {calls'[1]} :
           /\ l = Len(attributes) /\ values = attributes[l] /\ c = calls[1] /\ d = calls'[1]
           /\ Len(values) \in Nat /\ Len(values) # 0 /\ Attributes!Inner = c /\ Counts(c) /\ Open(l, values, c)
           /\ c.attribute = l /\ info.of = l /\ info.single = (Len(values) = 1) /\ info \in Infos
           /\ output \in Seq(Attributes!Tokens)
    BY <1>0, NamedCall
  <1>2. PICK value : value = values[c.done + 1]
    OBVIOUS
  <1>3. Attributes!NextValue = value
    BY <1>1, <1>2 DEF Attributes!NextValue
  <1>4. /\ ~Marked(c) /\ c.done < Len(values) /\ attributes' = attributes /\ info' = info
        /\ value.kind \in {"template", "method"} /\ MarkupBegins
    BY <1>1, <1>3, Zenon DEF Attributes!BeginMarkup, Attributes!HasValue, Marked, MarkupBegins
  <1>5. /\ calls' \in Seq(Calls) /\ Len(calls') = 1 /\ d.attribute = l /\ d.done = c.done /\ Marked(d)
    BY <1>0, <1>1, <1>4, MarkupIsMarked
  <1>6. /\ Follows(values, c, d, 0) /\ d.done <= Len(values) /\ d.done < Len(values)
        /\ values[d.done + 1].kind \in {"template", "method"} /\ Counts(d)
    BY <1>1, <1>2, <1>4, <1>5 DEF Follows, Counts
  <1>7. info'.suppressed <=> d.done = 1 /\ OmittedFor(values)
    BY <1>1, <1>4, <1>5 DEF Open
  <1>8. CASE value.kind = "method"
    <2>1. PICK new \in Seq(TokensFor(l)) : new = <<>>
      BY EmptySeq
    <2>2. output' = output \o new
      <3>1. output' = output
        BY <1>3, <1>8 DEF Attributes!BeginMarkup
      <3>2. output \o <<>> = output
        BY <1>1, ConcatEmptySeq
      <3>3. QED
        BY <2>1, <3>1, <3>2
    <2>3. ~Templated(values, c) /\ ~Templated(values, d)
      BY <1>2, <1>5, <1>8 DEF Templated
    <2>4. SoFar(l, values, d) = SoFar(l, values, c)
      BY <1>5, <2>3 DEF SoFar
    <2>5. SoFar(l, values, c) \in Seq(TokensFor(l))
      BY <1>1, SoFarParts
    <2>6. SoFar(l, values, d) = SoFar(l, values, c) \o new
      BY <2>1, <2>4, <2>5, ConcatEmptySeq
    <2>7. QED
      BY <1>0, <1>1, <1>4, <1>5, <1>6, <1>7, <2>1, <2>2, <2>6, CallGoesOn
  <1>9. CASE value.kind = "template"
    <2>1. PICK first \in Seq(TokensFor(l)) : first = IF Len(values) = 1 THEN Mark("prefix", l) ELSE <<>>
      BY <1>1, MarkTyped
    <2>2. PICK second \in Seq(TokensFor(l)) : second = IF value.spaced THEN Mark("space", l) ELSE <<>>
      BY <1>1, MarkTyped
    <2>3. PICK new \in Seq(TokensFor(l)) : new = first \o second
      BY TokensRegroup
    <2>4. SoFar(l, values, d) = SoFar(l, values, c) \o new
      <3>1. ~Marked(c) /\ Marked(d) /\ values[c.done + 1].kind = "template"
        BY <1>2, <1>4, <1>5, <1>9
      <3>2. SoFar(l, values, d) = SoFar(l, values, c)
               \o ((IF Len(values) = 1 THEN Mark("prefix", l) ELSE <<>>)
                   \o (IF values[c.done + 1].spaced THEN Mark("space", l) ELSE <<>>))
        BY <1>6, <3>1, SoFarTemplate
      <3>3. QED
        BY <1>2, <2>1, <2>2, <2>3, <3>2, Zenon
    <2>5. output' = output \o new
      <3>1. value.kind # "method"
        BY <1>9
      <3>2. output' = (output \o (IF Len(values) = 1 THEN Mark("prefix", l) ELSE <<>>))
                         \o (IF value.spaced THEN Mark("space", l) ELSE <<>>)
        BY <1>1, <1>3, <3>1, Zenon DEF Attributes!BeginMarkup, Attributes!Literal, Mark
      <3>3. output' = (output \o first) \o second
        BY <2>1, <2>2, <3>2, Zenon
      <3>4. Associates(output, first, second)
        BY <1>1, OutputAssociates
      <3>5. QED
        BY <2>3, <3>3, <3>4, Zenon DEF Associates
    <2>6. QED
      BY <1>0, <1>1, <1>4, <1>5, <1>6, <1>7, <2>3, <2>4, <2>5, CallGoesOn
  <1>10. QED
    BY <1>4, <1>8, <1>9

\* No step of an attribute disturbs another one.
LEMMA AttributesPreserved ==
  ASSUME AttributesInv, [Attributes!Next]_(Attributes!vars)
  PROVE  AttributesInv'
  <1>1. CASE \E n \in 1..(MaxValues - Len(Attributes!FlattenSeq(attributes))) :
                \E values \in [1..n -> Attributes!Values] : Attributes!BeginWriteAttribute(values)
    <2>1. Len(Attributes!FlattenSeq(attributes)) \in Nat
      <3>1. attributes \in Seq(Seq(Attributes!Values))
        BY DEF AttributesInv, AttributesTyped
      <3>2. PICK v \in Attributes!Values : TRUE
        <4>1. [kind |-> "null", spaced |-> FALSE] \in Attributes!Values
          BY Zenon DEF Attributes!Values, Attributes!Kinds
        <4>2. QED
          BY <4>1
      <3>3. <<v>> \in Seq(Attributes!Values)
        OBVIOUS
      <3>4. Pipe!FlattenSeq(attributes) \in Seq(Attributes!Values)
        BY <3>1, <3>3, FlattenOfAppend
      <3>5. QED
        BY <3>4, SameFlatten
    <2>2. PICK n \in 1..(MaxValues - Len(Attributes!FlattenSeq(attributes))) :
             \E values \in [1..n -> Attributes!Values] : Attributes!BeginWriteAttribute(values)
      BY <1>1
    <2>3. PICK values \in [1..n -> Attributes!Values] : Attributes!BeginWriteAttribute(values)
      BY <2>2
    <2>4. n \in Nat /\ n >= 1
      BY <2>1, TextAssumption
    <2>5. values \in Seq(Attributes!Values) /\ Len(values) >= 1
      BY <2>4
    <2>6. QED
      BY <2>3, <2>5, BeginPreserves
  <1>2. CASE Attributes!OmitValue
    BY <1>2, OmitPreserves
  <1>3. CASE Attributes!WriteAttributeValue
    BY <1>3, WritePreserves
  <1>4. CASE Attributes!BeginMarkup
    BY <1>4, BeginMarkupPreserves
  <1>5. CASE Attributes!EndMarkup
    BY <1>5, MarkupPreserves
  <1>6. CASE Attributes!EndWriteAttribute
    BY <1>6, EndPreserves
  <1>7. CASE UNCHANGED Attributes!vars
    <2>1. attributes' = attributes /\ calls' = calls /\ info' = info /\ output' = output
      BY <1>7 DEF Attributes!vars
    <2>2. QED
      BY <2>1, Zenon DEF AttributesInv, AttributesTyped, InProgress, Open, EndedWhole, NotBegun
  <1>8. QED
    BY <1>1, <1>2, <1>3, <1>4, <1>5, <1>6, <1>7 DEF Attributes!Next, Attributes!EndTemplate

\* What the property says of an attribute, in the words of the invariant.
LEMMA WholeIsWholeFor ==
  ASSUME AttributesTyped, NEW a \in DOMAIN attributes
  PROVE  Attributes!Whole(a) = WholeFor(a, attributes[a]) /\ Attributes!TokensOf(a) = OfAttribute(output, a)
  <1>1. PICK values \in Seq(Attributes!Values) : values = attributes[a]
    BY DEF AttributesTyped
  <1>2. Attributes!TokensOf(a) = OfAttribute(output, a)
    <2>1. output \in Seq(Attributes!Tokens)
      BY DEF AttributesTyped
    <2>2. \A i \in DOMAIN output : output[i] \in Attributes!Tokens
      BY <2>1
    <2>3. \A i \in DOMAIN output : OnlyOf(a)[output[i]] = IF output[i].of = a THEN <<output[i]>> ELSE <<>>
      BY <2>2 DEF OnlyOf
    <2>4. [i \in DOMAIN output |-> IF output[i].of = a THEN <<output[i]>> ELSE <<>>] = Mapped(output, OnlyOf(a))
      BY <2>3, Zenon DEF Mapped
    <2>5. QED
      BY <2>4, SameFlatten DEF Attributes!TokensOf, OfAttribute
  <1>3. Attributes!Whole(a) = WholeFor(a, attributes[a])
    <2>1. DOMAIN values = 1..Len(values)
      OBVIOUS
    <2>2. PICK parts : parts = [i \in DOMAIN values |->
             IF values[i].kind = "null" THEN <<>> ELSE Attributes!ValueTokens(a, values[i], Len(values) = 1)]
      OBVIOUS
    <2>3. Attributes!FlattenSeq(parts) = Pieces(a, values, Len(values))
      BY <2>1, <2>2, SameFlatten, Zenon DEF Pieces, Piece
    <2>4. Attributes!Whole(a) = IF OmittedFor(values) THEN <<>>
             ELSE (Mark("prefix", a) \o Attributes!FlattenSeq(parts)) \o Mark("suffix", a)
      BY <1>1, <2>2, Zenon DEF Attributes!Whole, OmittedFor, OmittedAt, Mark
    <2>5. a \in Nat /\ Len(values) \in Nat
      BY DEF AttributesTyped
    <2>6. PICK p \in Seq(TokensFor(a)), m \in Seq(TokensFor(a)), q \in Seq(TokensFor(a)) :
             p = Mark("prefix", a) /\ m = Pieces(a, values, Len(values)) /\ q = Mark("suffix", a)
      BY <2>5, MarkTyped, PiecesOfNext
    <2>7. Associates(p, m, q)
      BY ConcatAssociates
    <2>8. QED
      BY <1>1, <2>3, <2>4, <2>6, <2>7, Zenon DEF WholeFor, Associates
  <1>4. QED
    BY <1>2, <1>3

\* An attribute that has ended is whole.
LEMMA AttributesInvImpliesWhole ==
  ASSUME AttributesInv
  PROVE  Attributes!AttributesAreWhole
  <1> SUFFICES ASSUME NEW a \in DOMAIN attributes, \A i \in DOMAIN calls : calls[i].attribute # a
               PROVE  Attributes!TokensOf(a) = Attributes!Whole(a)
    BY DEF Attributes!AttributesAreWhole
  <1>1. calls = <<>> \/ a # Len(attributes)
    <2> SUFFICES ASSUME calls # <<>> PROVE a # Len(attributes)
      OBVIOUS
    <2>1. Len(calls) = 1 /\ calls \in Seq(Calls) /\ calls[1].attribute = Len(attributes)
      BY OpenCall DEF AttributesInv, AttributesTyped, Open
    <2>2. 1 \in DOMAIN calls
      BY <2>1
    <2>3. QED
      BY <2>1, <2>2
  <1>2. OfAttribute(output, a) = WholeFor(a, attributes[a])
    BY <1>1 DEF AttributesInv, EndedWhole
  <1>3. QED
    BY <1>2, WholeIsWholeFor DEF AttributesInv

\* OutputIsExact, for any texts, sizes and grants and any number of attributes with
\* any values: besides PipeTextIsExact, every attribute that WriteAttributeValue and
\* EndWriteAttribute have finished is in the output from prefix to suffix with each
\* of its values, or left out when its only value is null or false, whatever was in
\* _attributeInfo before BeginWriteAttribute.
THEOREM OutputsAreExact == Pipe!Spec /\ Attributes!Spec => []OutputIsExact
  <1>1. Pipe!Init => PipeInv
    BY PipeInitial
  <1>2. PipeInv /\ [Pipe!Next]_(Pipe!vars) => PipeInv'
    BY PipePreserved
  <1>3. Attributes!Init => AttributesInv
    BY AttributesInitial
  <1>4. AttributesInv /\ [Attributes!Next]_(Attributes!vars) => AttributesInv'
    BY AttributesPreserved
  <1>5. PipeInv /\ AttributesInv => OutputIsExact
    BY PipeInvImpliesExact, AttributesInvImpliesWhole DEF OutputIsExact
  <1>6. QED
    BY <1>1, <1>2, <1>3, <1>4, <1>5, PTL DEF Pipe!Spec, Attributes!Spec

=============================================================================
