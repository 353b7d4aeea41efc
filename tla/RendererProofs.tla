---------------------------- MODULE RendererProofs ----------------------------
(***************************************************************************)
(* Theorems about Renderer: which textures its outputs hold, what becomes  *)
(* of the walls that are queued, and what is on the screen, for any set of *)
(* outputs, walls, sizes and faults and any number of walls that wait.     *)
(***************************************************************************)
EXTENDS Renderer, SequenceTheorems, FunctionTheorems, FiniteSetTheorems, WellFoundedInduction, TLAPS

(***************************************************************************)
(* Numbers, iteration and counting.                                        *)
(***************************************************************************)
LEMMA LeastNumber ==
    ASSUME NEW S \in SUBSET Nat, S # {}
    PROVE  \E n \in S : \A m \in S : n <= m
    <1>1. PICK n \in S : \A m \in S : ~(<<m, n>> \in OpToRel(<, Nat))
      <2> HIDE DEF OpToRel
      <2> QED  BY NatLessThanWellFounded, WFMin
    <1>2. \A m \in S : ~(m < n)
          BY <1>1 DEF OpToRel
    <1>3. QED  BY <1>2

\* The first n values of an iteration.
Iterates(n, g, T, Step, z) ==
    /\ g \in [0 .. n -> T] /\ g[0] = z
    /\ \A i \in 1 .. n : g[i] = Step[g[i - 1]]

\* What is defined from the number before is a function on all numbers.
LEMMA IterationExists ==
    ASSUME NEW T, NEW Step \in [T -> T], NEW z \in T
    PROVE  \E f \in [Nat -> T] : f = [n \in Nat |-> IF n = 0 THEN z ELSE Step[f[n - 1]]]
    <1>2. \A n \in Nat : \E g : Iterates(n, g, T, Step, z)
      <2> DEFINE Lacking == { n \in Nat : ~\E g : Iterates(n, g, T, Step, z) }
      <2>1. SUFFICES ASSUME Lacking # {} PROVE FALSE
            OBVIOUS
      <2>2. PICK n \in Lacking : \A m \in Lacking : n <= m
            BY <2>1, LeastNumber
      <2>3. n # 0
        <3>1. Iterates(0, [i \in 0 .. 0 |-> z], T, Step, z)
              BY DEF Iterates
        <3>2. QED  BY <2>2, <3>1
      <2>4. n \in Nat /\ n - 1 \in Nat /\ n - 1 \notin Lacking
            BY <2>2, <2>3
      <2>5. PICK g : Iterates(n - 1, g, T, Step, z)
            BY <2>4
      <2> DEFINE h == [i \in 0 .. n |-> IF i = n THEN Step[g[n - 1]] ELSE g[i]]
      <2>6. g \in [0 .. n - 1 -> T] /\ g[n - 1] \in T
            BY <2>4, <2>5 DEF Iterates
      <2>7. Step[g[n - 1]] \in T
            BY <2>6
      <2>8. h \in [0 .. n -> T]
            BY <2>4, <2>6, <2>7
      <2>9. h[0] = z
            BY <2>3, <2>4, <2>5 DEF Iterates
      <2>10. ASSUME NEW i \in 1 .. n PROVE h[i] = Step[h[i - 1]]
        <3>1. CASE i = n
          <4>1. h[i] = Step[g[n - 1]] /\ h[i - 1] = g[n - 1]
                BY <2>3, <2>4, <3>1
          <4>2. QED  BY <4>1
        <3>2. CASE i # n
          <4>1. i \in 1 .. n - 1 /\ i - 1 \in 0 .. n /\ i - 1 # n
                BY <2>4, <3>2
          <4>2. h[i] = g[i] /\ h[i - 1] = g[i - 1]
                BY <3>2, <4>1
          <4>3. g[i] = Step[g[i - 1]]
                BY <2>5, <4>1 DEF Iterates
          <4>4. QED  BY <4>2, <4>3
        <3>3. QED  BY <3>1, <3>2
      <2> HIDE DEF h
      <2>11. Iterates(n, h, T, Step, z)
            BY <2>8, <2>9, <2>10 DEF Iterates
      <2>12. QED  BY <2>2, <2>11
    <1>3. ASSUME NEW m \in Nat, NEW n \in Nat, NEW g, NEW h,
                 Iterates(m, g, T, Step, z), Iterates(n, h, T, Step, z)
          PROVE  \A i \in (0 .. m) \cap (0 .. n) : g[i] = h[i]
      <2> DEFINE Differ == { i \in (0 .. m) \cap (0 .. n) : g[i] # h[i] }
      <2>1. SUFFICES ASSUME Differ # {} PROVE FALSE
            OBVIOUS
      <2>2. PICK i \in Differ : \A k \in Differ : i <= k
        <3>1. Differ \in SUBSET Nat
              OBVIOUS
        <3>2. QED  BY <2>1, <3>1, LeastNumber
      <2>3. i \in Nat /\ i <= m /\ i <= n /\ g[i] # h[i]
            BY <2>2
      <2>4. i # 0
            BY <1>3, <2>3 DEF Iterates
      <2>5. i - 1 \in 0 .. m /\ i - 1 \in 0 .. n /\ i \in 1 .. m /\ i \in 1 .. n
            BY <2>3, <2>4
      <2>6. i - 1 \notin Differ
            BY <2>2, <2>3
      <2>7. g[i - 1] = h[i - 1]
            BY <2>5, <2>6
      <2>8. g[i] = Step[g[i - 1]] /\ h[i] = Step[h[i - 1]]
            BY <1>3, <2>5 DEF Iterates
      <2>9. QED  BY <2>3, <2>7, <2>8
    <1> DEFINE list(n) == CHOOSE g : Iterates(n, g, T, Step, z)
               all == [n \in Nat |-> list(n)[n]]
    <1>4. \A n \in Nat : Iterates(n, list(n), T, Step, z)
          BY <1>2
    <1> HIDE DEF list
    <1>5. all \in [Nat -> T] /\ all[0] = z
      <2>1. \A n \in Nat : list(n)[n] \in T
            BY <1>4 DEF Iterates
      <2>2. list(0)[0] = z
            BY <1>4 DEF Iterates
      <2>3. QED  BY <2>1, <2>2
    <1>6. ASSUME NEW n \in Nat \ {0} PROVE all[n] = Step[all[n - 1]]
      <2>1. n - 1 \in Nat /\ n \in 1 .. n /\ n - 1 \in 0 .. n /\ n - 1 \in 0 .. n - 1
            OBVIOUS
      <2>2. list(n)[n] = Step[list(n)[n - 1]]
            BY <1>4, <2>1 DEF Iterates
      <2>3. list(n)[n - 1] = list(n - 1)[n - 1]
            BY <1>3, <1>4, <2>1
      <2>4. QED  BY <2>1, <2>2, <2>3
    <1>7. all = [n \in Nat |-> IF n = 0 THEN z ELSE Step[all[n - 1]]]
      <2>1. \A n \in Nat : all[n] = IF n = 0 THEN z ELSE Step[all[n - 1]]
            BY <1>5, <1>6
      <2> HIDE DEF all
      <2>2. all = [n \in Nat |-> all[n]]
            BY <1>5
      <2>3. QED  BY <2>1, <2>2
    <1> HIDE DEF all
    <1>8. QED  BY <1>5, <1>7

\* A set of positions, and the same without the first one and moved to the front.
LEMMA ShiftedCount ==
    ASSUME NEW n \in Nat, NEW A \in SUBSET (1 .. n + 1),
           NEW B, B = {j \in 1 .. n : j + 1 \in A}
    PROVE  Cardinality(A) = Cardinality(B) + IF 1 \in A THEN 1 ELSE 0
    <1> DEFINE f == [j \in B |-> j + 1]
    <1>1. IsFiniteSet(A) /\ IsFiniteSet(B)
      <2>1. n + 1 \in Int /\ n \in Int /\ 1 \in Int
            OBVIOUS
      <2>2. IsFiniteSet(1 .. n + 1) /\ IsFiniteSet(1 .. n)
            BY <2>1, FS_Interval
      <2>3. QED  BY <2>2, FS_Subset
    <1>2. f \in Bijection(B, A \ {1})
      <2>1. f \in [B -> A \ {1}]
            OBVIOUS
      <2>2. \A a, b \in B : f[a] = f[b] => a = b
            OBVIOUS
      <2>3. ASSUME NEW a \in A \ {1} PROVE \E j \in B : f[j] = a
        <3>1. a - 1 \in B
              OBVIOUS
        <3>2. QED  BY <3>1
      <2> HIDE DEF f
      <2>4. QED  BY <2>1, <2>2, <2>3 DEF Bijection, Injection, Surjection, IsInjective
    <1> HIDE DEF f
    <1>3. Cardinality(A \ {1}) = Cardinality(B)
          BY <1>1, <1>2, FS_Bijection DEF ExistsBijection
    <1>4. Cardinality(A \ {1}) = IF 1 \in A THEN Cardinality(A) - 1 ELSE Cardinality(A)
          BY <1>1, FS_RemoveElement
    <1>5. Cardinality(A) \in Nat /\ Cardinality(B) \in Nat
          BY <1>1, FS_CardinalityType
    <1>6. QED  BY <1>3, <1>4, <1>5

\* A set of positions, without the last one.
LEMMA LastCount ==
    ASSUME NEW n \in Nat, NEW A \in SUBSET (1 .. n + 1), NEW B, B = A \cap (1 .. n)
    PROVE  Cardinality(A) = Cardinality(B) + IF n + 1 \in A THEN 1 ELSE 0
    <1>1. IsFiniteSet(A)
      <2>1. n + 1 \in Int /\ 1 \in Int
            OBVIOUS
      <2>2. IsFiniteSet(1 .. n + 1)
            BY <2>1, FS_Interval
      <2>3. QED  BY <2>2, FS_Subset
    <1>2. B = A \ {n + 1}
      <2>1. \A i \in 1 .. n + 1 : i \in 1 .. n <=> i # n + 1
            OBVIOUS
      <2>2. n + 1 \notin 1 .. n
            OBVIOUS
      <2>3. QED  BY <2>1, <2>2
    <1>3. Cardinality(A \ {n + 1}) = IF n + 1 \in A THEN Cardinality(A) - 1 ELSE Cardinality(A)
          BY <1>1, FS_RemoveElement
    <1>4. Cardinality(A) \in Nat
          BY <1>1, FS_CardinalityType
    <1>5. QED  BY <1>2, <1>3, <1>4

(***************************************************************************)
(* The textures of a queue.                                                *)
(***************************************************************************)
Scenes(queue) == {i \in DOMAIN queue : queue[i].aux = 1}
Ready(queue) == {i \in DOMAIN queue : queue[i].state = "uploaded"}
Ahead(q) == IF q.state = "uploaded" THEN 1 ELSE 0

LEMMA TexturesInDef ==
    ASSUME NEW queue
    PROVE  TexturesIn(queue) = Cardinality(Scenes(queue)) + Cardinality(Ready(queue))
    BY DEF TexturesIn, Scenes, Ready

LEMMA TexturesInType ==
    ASSUME NEW queue \in Seq(Queued)
    PROVE  /\ Scenes(queue) \in SUBSET (1 .. Len(queue)) /\ Ready(queue) \in SUBSET (1 .. Len(queue))
           /\ Cardinality(Scenes(queue)) \in Nat /\ Cardinality(Ready(queue)) \in Nat
           /\ TexturesIn(queue) \in Nat
    <1>1. Scenes(queue) \in SUBSET (1 .. Len(queue)) /\ Ready(queue) \in SUBSET (1 .. Len(queue))
          BY LenProperties DEF Scenes, Ready
    <1>2. IsFiniteSet(1 .. Len(queue))
          BY LenProperties, FS_Interval
    <1>3. IsFiniteSet(Scenes(queue)) /\ IsFiniteSet(Ready(queue))
          BY <1>1, <1>2, FS_Subset
    <1>4. Cardinality(Scenes(queue)) \in Nat /\ Cardinality(Ready(queue)) \in Nat
          BY <1>3, FS_CardinalityType
    <1>5. QED  BY <1>1, <1>4, TexturesInDef

LEMMA TexturesInEmpty == TexturesIn(<<>>) = 0
    <1>1. Scenes(<<>>) = {} /\ Ready(<<>>) = {}
          BY DEF Scenes, Ready
    <1>2. QED  BY <1>1, TexturesInDef, FS_EmptySet

LEMMA TexturesInTail ==
    ASSUME NEW queue \in Seq(Queued), queue # <<>>
    PROVE  TexturesIn(queue) = TexturesIn(Tail(queue)) + Head(queue).aux + Ahead(Head(queue))
    <1> DEFINE n == Len(queue) - 1
    <1>1. n \in Nat /\ Len(queue) = n + 1 /\ Head(queue) = queue[1] /\ Head(queue) \in Queued
      <2>1. Len(queue) \in Nat \ {0}
            BY EmptySeq
      <2>2. QED  BY <2>1, HeadTailProperties, ElementOfSeq
    <1>2. Tail(queue) \in Seq(Queued) /\ DOMAIN Tail(queue) = 1 .. n
          /\ \A i \in 1 .. n : Tail(queue)[i] = queue[i + 1]
      <2>1. Tail(queue) \in Seq(Queued) /\ Len(Tail(queue)) = n
            /\ \A i \in 1 .. n : Tail(queue)[i] = queue[i + 1]
            BY HeadTailProperties
      <2>2. QED  BY <2>1, LenProperties
    <1>3. DOMAIN queue = 1 .. n + 1
          BY <1>1, LenProperties
    <1>4. Scenes(Tail(queue)) = {j \in 1 .. n : j + 1 \in Scenes(queue)}
          BY <1>1, <1>2, <1>3 DEF Scenes
    <1>5. Ready(Tail(queue)) = {j \in 1 .. n : j + 1 \in Ready(queue)}
          BY <1>1, <1>2, <1>3 DEF Ready
    <1>6. 1 \in Scenes(queue) <=> Head(queue).aux = 1
          BY <1>1, <1>3 DEF Scenes
    <1>7. 1 \in Ready(queue) <=> Head(queue).state = "uploaded"
          BY <1>1, <1>3 DEF Ready
    <1>8. Scenes(queue) \in SUBSET (1 .. n + 1) /\ Ready(queue) \in SUBSET (1 .. n + 1)
          BY <1>3 DEF Scenes, Ready
    <1>9. Head(queue).aux \in {0, 1}
          BY <1>1 DEF Queued
    <1> HIDE DEF n
    <1>10. Cardinality(Scenes(queue)) = Cardinality(Scenes(Tail(queue))) + Head(queue).aux
      <2>1. Cardinality(Scenes(queue)) = Cardinality(Scenes(Tail(queue)))
                                          + IF 1 \in Scenes(queue) THEN 1 ELSE 0
            BY <1>1, <1>4, <1>8, ShiftedCount
      <2>2. QED  BY <2>1, <1>6, <1>9
    <1>11. Cardinality(Ready(queue)) = Cardinality(Ready(Tail(queue))) + Ahead(Head(queue))
      <2>1. Cardinality(Ready(queue)) = Cardinality(Ready(Tail(queue)))
                                         + IF 1 \in Ready(queue) THEN 1 ELSE 0
            BY <1>1, <1>5, <1>8, ShiftedCount
      <2>2. QED  BY <2>1, <1>7 DEF Ahead
    <1>12. Cardinality(Scenes(Tail(queue))) \in Nat /\ Cardinality(Ready(Tail(queue))) \in Nat
          BY <1>2, TexturesInType
    <1>13. Ahead(Head(queue)) \in Nat
          BY DEF Ahead
    <1>14. QED  BY <1>9, <1>10, <1>11, <1>12, <1>13, TexturesInDef

LEMMA TexturesInAppend ==
    ASSUME NEW queue \in Seq(Queued), NEW q \in Queued
    PROVE  TexturesIn(Append(queue, q)) = TexturesIn(queue) + q.aux + Ahead(q)
    <1> DEFINE n == Len(queue)
               more == Append(queue, q)
    <1>1. n \in Nat /\ DOMAIN queue = 1 .. n
          BY LenProperties
    <1>2. DOMAIN more = 1 .. n + 1 /\ more[n + 1] = q /\ \A i \in 1 .. n : more[i] = queue[i]
          BY <1>1
    <1> HIDE DEF n, more
    <1>3. Scenes(queue) = Scenes(more) \cap (1 .. n) /\ Ready(queue) = Ready(more) \cap (1 .. n)
          BY <1>1, <1>2 DEF Scenes, Ready
    <1>4. Scenes(more) \in SUBSET (1 .. n + 1) /\ Ready(more) \in SUBSET (1 .. n + 1)
          BY <1>2 DEF Scenes, Ready
    <1>5. (n + 1 \in Scenes(more) <=> q.aux = 1) /\ (n + 1 \in Ready(more) <=> q.state = "uploaded")
          BY <1>1, <1>2 DEF Scenes, Ready
    <1>6. q.aux \in {0, 1}
          BY DEF Queued
    <1>7. Cardinality(Scenes(more)) = Cardinality(Scenes(queue)) + q.aux
      <2>1. Cardinality(Scenes(more)) = Cardinality(Scenes(queue)) + IF n + 1 \in Scenes(more) THEN 1 ELSE 0
            BY <1>1, <1>3, <1>4, LastCount
      <2>2. QED  BY <2>1, <1>5, <1>6
    <1>8. Cardinality(Ready(more)) = Cardinality(Ready(queue)) + Ahead(q)
      <2>1. Cardinality(Ready(more)) = Cardinality(Ready(queue)) + IF n + 1 \in Ready(more) THEN 1 ELSE 0
            BY <1>1, <1>3, <1>4, LastCount
      <2>2. QED  BY <2>1, <1>5 DEF Ahead
    <1>9. Cardinality(Scenes(queue)) \in Nat /\ Cardinality(Ready(queue)) \in Nat
          BY TexturesInType
    <1>10. Ahead(q) \in Nat
          BY DEF Ahead
    <1>11. TexturesIn(more) = TexturesIn(queue) + q.aux + Ahead(q)
          BY <1>6, <1>7, <1>8, <1>9, <1>10, TexturesInDef
    <1>12. QED  BY <1>11 DEF more

\* A change of the queue that uploads nothing.
LEMMA TexturesInSame ==
    ASSUME NEW old \in Seq(Queued), NEW new \in Seq(Queued), Len(old) = Len(new),
           \A i \in 1 .. Len(old) : /\ new[i].aux = old[i].aux
                                    /\ new[i].state = "uploaded" <=> old[i].state = "uploaded"
    PROVE  TexturesIn(new) = TexturesIn(old)
    <1>1. DOMAIN old = 1 .. Len(old) /\ DOMAIN new = 1 .. Len(old)
          BY LenProperties
    <1>2. Scenes(new) = Scenes(old) /\ Ready(new) = Ready(old)
          BY <1>1 DEF Scenes, Ready
    <1>3. QED  BY <1>2, TexturesInDef

\* A change of the queue that uploads one wall.
LEMMA TexturesInUploaded ==
    ASSUME NEW old \in Seq(Queued), NEW new \in Seq(Queued), Len(old) = Len(new),
           NEW k \in 1 .. Len(old),
           old[k].state # "uploaded", new[k].state = "uploaded", new[k].aux = old[k].aux,
           \A i \in 1 .. Len(old) : i # k => new[i] = old[i]
    PROVE  TexturesIn(new) = TexturesIn(old) + 1
    <1>1. DOMAIN old = 1 .. Len(old) /\ DOMAIN new = 1 .. Len(old)
          BY LenProperties
    <1>2. Scenes(new) = Scenes(old)
      <2>1. \A i \in 1 .. Len(old) : new[i].aux = old[i].aux
            OBVIOUS
      <2>2. QED  BY <1>1, <2>1 DEF Scenes
    <1>3. Ready(new) = Ready(old) \cup {k} /\ k \notin Ready(old)
          BY <1>1 DEF Ready
    <1>4. IsFiniteSet(Ready(old))
      <2>1. IsFiniteSet(1 .. Len(old))
            BY LenProperties, FS_Interval
      <2>2. QED  BY <2>1, TexturesInType, FS_Subset
    <1>5. Cardinality(Ready(new)) = Cardinality(Ready(old)) + 1
          BY <1>3, <1>4, FS_AddElement
    <1>6. Cardinality(Scenes(old)) \in Nat /\ Cardinality(Ready(old)) \in Nat
          BY TexturesInType
    <1>7. QED  BY <1>2, <1>5, <1>6, TexturesInDef

(***************************************************************************)
(* Drawing on one output.                                                  *)
(***************************************************************************)
Outcomes == [surface : Surfaces, ok : BOOLEAN]

LEMMA OutcomeType ==
    ASSUME NEW s \in Surfaces
    PROVE  /\ Done(s) \in Outcomes /\ Done(s).surface = s /\ Done(s).ok
           /\ Failed(s) \in Outcomes /\ Failed(s).surface = s /\ ~Failed(s).ok
    BY DEF Done, Failed, Outcomes

LEMMA OutcomeFields ==
    ASSUME NEW r \in Outcomes
    PROVE  r.surface \in Surfaces /\ r.ok \in BOOLEAN
    BY DEF Outcomes

LEMMA SurfaceFields ==
    ASSUME NEW s \in Surfaces
    PROVE  /\ s.power \in Powers /\ s.size \in Sizes \cup {0} /\ s.egl \in Sizes \cup {0}
           /\ s.recreate \in BOOLEAN /\ s.image \in Pictures /\ s.wall \in Pictures
           /\ s.active \in Active \cup {NoActive} /\ s.queue \in Seq(Queued)
           /\ s.frame \in {"none", "requested", "committed"} /\ s.pending \in BOOLEAN
           /\ s.textures \in Int /\ s.shown \in Pictures \cup {"nothing", "clear", "midway"}
           /\ s.sent \in SUBSET Jobs
    BY DEF Surfaces

\* t is s after attempts to draw it: what it owns, shows next and waits for is the
\* same, and nothing was touched without power.
Redrawn(s, t) ==
    /\ t \in Surfaces
    /\ t.power = s.power /\ t.image = s.image /\ t.wall = s.wall /\ t.active = s.active
    /\ t.queue = s.queue /\ t.textures = s.textures /\ t.sent = s.sent
    /\ ~AllowsEgl(s) => t.egl = s.egl /\ t.shown = s.shown

LEMMA RedrawnTwice ==
    ASSUME NEW s, NEW t, NEW u, Redrawn(s, t), Redrawn(t, u)
    PROVE  Redrawn(s, u)
    BY DEF Redrawn, AllowsEgl

LEMMA RedrawnMarks ==
    ASSUME NEW s \in Surfaces
    PROVE  /\ Redrawn(s, s) /\ Redrawn(s, DeferRender(s)) /\ Redrawn(s, MarkRecreate(s))
           /\ Redrawn(s, WithFrame(s))
           /\ \A size \in Sizes : Redrawn(s, DeferConfigure(s, size))
           /\ AllowsEgl(s) => /\ Redrawn(s, DestroyEgl(s))
                              /\ \A picture \in Pictures \cup {"clear", "midway"} :
                                    Redrawn(s, Swapped(s, picture))
    <1>1. Redrawn(s, s) /\ Redrawn(s, DeferRender(s)) /\ Redrawn(s, MarkRecreate(s))
          BY DEF Redrawn, Surfaces, DeferRender, MarkRecreate
    <1>2. Redrawn(s, WithFrame(s))
          BY DEF Redrawn, Surfaces, WithFrame
    <1>3. ASSUME NEW size \in Sizes PROVE Redrawn(s, DeferConfigure(s, size))
          BY DEF Redrawn, Surfaces, DeferConfigure
    <1>4. ASSUME AllowsEgl(s) PROVE Redrawn(s, DestroyEgl(s))
          BY <1>4 DEF Redrawn, Surfaces, DestroyEgl
    <1>5. ASSUME AllowsEgl(s), NEW picture \in Pictures \cup {"clear", "midway"}
          PROVE  Redrawn(s, Swapped(s, picture))
      <2>1. PICK f \in {"none", "requested", "committed"} :
                f = IF s.frame = "requested" THEN "committed" ELSE s.frame
            BY SurfaceFields
      <2>2. Swapped(s, picture) = [s EXCEPT !.shown = picture, !.pending = FALSE, !.frame = f]
            BY <2>1 DEF Swapped
      <2>3. Swapped(s, picture) \in Surfaces
            BY <2>2 DEF Surfaces
      <2>4. QED  BY <1>5, <2>2, <2>3 DEF Redrawn, Surfaces
    <1>6. QED  BY <1>1, <1>2, <1>3, <1>4, <1>5

LEMMA EnsureEglRedraws ==
    ASSUME NEW s \in Surfaces, NEW size \in Sizes, NEW r \in EnsureEgl(s, size)
    PROVE  r \in Outcomes /\ Redrawn(s, r.surface)
    <1> DEFINE made == [DestroyEgl(s) EXCEPT !.size = size, !.egl = size]
    <1>1. CASE r = Done(s) \/ r = Failed(s)
          BY <1>1, OutcomeType, RedrawnMarks
    <1>2. CASE AllowsEgl(s) /\ r = Done(made)
      <2>1. made \in Surfaces /\ Redrawn(s, made)
            BY <1>2 DEF Redrawn, Surfaces, DestroyEgl
      <2>2. QED  BY <1>2, <2>1, OutcomeType
    <1>3. CASE AllowsEgl(s) /\ r = Failed(DestroyEgl(s))
      <2>1. DestroyEgl(s) \in Surfaces /\ Redrawn(s, DestroyEgl(s))
            BY <1>3, RedrawnMarks DEF Redrawn
      <2>2. QED  BY <1>3, <2>1, OutcomeType
    <1>4. QED  BY <1>1, <1>2, <1>3 DEF EnsureEgl, May

LEMMA DrawRedraws ==
    ASSUME NEW s \in Surfaces, NEW picture \in Pictures \cup {"clear", "midway"},
           NEW animated \in BOOLEAN, NEW r \in Draw(s, picture, animated)
    PROVE  r \in Outcomes /\ Redrawn(s, r.surface)
    <1>1. CASE ~AllowsEgl(s)
      <2>1. r = Done(DeferRender(s))
            BY <1>1 DEF Draw
      <2>2. QED  BY <2>1, OutcomeType, RedrawnMarks DEF Redrawn
    <1>2. CASE AllowsEgl(s) /\ s.size = 0
      <2>1. r = Done(s)
            BY <1>2 DEF Draw
      <2>2. QED  BY <2>1, OutcomeType, RedrawnMarks
    <1>3. CASE AllowsEgl(s) /\ s.size # 0
      <2>1. PICK e \in EnsureEgl(s, s.size) :
                LET t == IF animated THEN WithFrame(e.surface) ELSE e.surface IN
                \/ r = e \/ r = Done(Swapped(t, picture)) \/ r = Failed(e.surface) \/ r = Failed(t)
            BY <1>3 DEF Draw, May
      <2> DEFINE t == IF animated THEN WithFrame(e.surface) ELSE e.surface
      <2>2. e \in Outcomes /\ Redrawn(s, e.surface) /\ e.surface \in Surfaces
        <3>1. s.size \in Sizes
              BY <1>3, SurfaceFields
        <3>2. QED  BY <3>1, EnsureEglRedraws DEF Redrawn
      <2>3. Redrawn(e.surface, t)
            BY <2>2, RedrawnMarks
      <2>4. Redrawn(s, t) /\ t \in Surfaces
            BY <2>2, <2>3, RedrawnTwice DEF Redrawn
      <2>5. AllowsEgl(t)
            BY <1>3, <2>4 DEF AllowsEgl, Redrawn
      <2> HIDE DEF t
      <2>6. Redrawn(s, Swapped(t, picture)) /\ Swapped(t, picture) \in Surfaces
        <3>1. Redrawn(t, Swapped(t, picture))
              BY <2>4, <2>5, RedrawnMarks
        <3>2. QED  BY <2>4, <3>1, RedrawnTwice DEF Redrawn
      <2>7. r = e \/ r = Done(Swapped(t, picture)) \/ r = Failed(e.surface) \/ r = Failed(t)
            BY <2>1 DEF t
      <2>8. QED  BY <2>2, <2>4, <2>6, <2>7, OutcomeType
    <1>4. QED  BY <1>1, <1>2, <1>3

LEMMA RendersRedraw ==
    ASSUME NEW s \in Surfaces
    PROVE  /\ \A r \in RenderClear(s) : r \in Outcomes /\ Redrawn(s, r.surface)
           /\ \A r \in RenderCurrent(s) : r \in Outcomes /\ Redrawn(s, r.surface)
           /\ \A r \in DrawTransition(s) : r \in Outcomes /\ Redrawn(s, r.surface)
    <1>1. s.wall \in Pictures
          BY SurfaceFields
    <1>2. QED  BY <1>1, DrawRedraws DEF RenderClear, RenderCurrent, DrawTransition

(***************************************************************************)
(* What waits on one output.                                               *)
(***************************************************************************)
\* What may become of a wall while it waits: it is decoded or uploaded ahead.
Later(q, r) ==
    /\ r.id = q.id /\ r.image = q.image /\ r.kind = q.kind /\ r.aux = q.aux /\ r.content = q.content
    /\ \/ r.state = q.state
       \/ q.state = "path" /\ r.state = "decoding"
       \/ q.state = "decoded" /\ r.state \in {"uploaded", "failed"}

\* t is s after its first k walls were taken; the jobs sent are of walls that waited
\* for theirs and do not any more.
Drained(s, t, k) ==
    /\ Len(t.queue) = Len(s.queue) - k
    /\ \A i \in 1 .. Len(t.queue) : Later(s.queue[i + k], t.queue[i])
    /\ s.sent \subseteq t.sent
    /\ \A j \in t.sent \ s.sent : \E i \in 1 .. Len(s.queue) :
         /\ s.queue[i].state = "path" /\ s.queue[i].id = j.id /\ s.queue[i].image = j.image
         /\ i > k => t.queue[i - k].state = "decoding"

Behind(s, t) == \E k \in 0 .. Len(s.queue) : Drained(s, t, k)

LEMMA QueueFields ==
    ASSUME NEW s \in Surfaces
    PROVE  /\ Len(s.queue) \in Nat /\ DOMAIN s.queue = 1 .. Len(s.queue)
           /\ s.queue \in [1 .. Len(s.queue) -> Queued]
           /\ \A i \in 1 .. Len(s.queue) : s.queue[i] \in Queued
           /\ s.queue = <<>> <=> Len(s.queue) = 0
           /\ TexturesIn(s.queue) \in Nat
    <1>1. s.queue \in Seq(Queued)
          BY SurfaceFields
    <1>2. QED  BY <1>1, LenProperties, EmptySeq, TexturesInType, ElementOfSeq

LEMMA QueuedFields ==
    ASSUME NEW q \in Queued
    PROVE  /\ q.id \in Nat \ {0} /\ q.image \in Images /\ q.kind \in Kinds /\ q.aux \in {0, 1}
           /\ q.content \in Pictures
           /\ q.state \in {"path", "decoding", "decoded", "uploaded", "failed"}
           /\ q = [id |-> q.id, image |-> q.image, kind |-> q.kind, aux |-> q.aux,
                   content |-> q.content, state |-> q.state]
           /\ [id |-> q.id, image |-> q.image] \in Jobs
    BY DEF Queued, Jobs

LEMMA LaterTwice ==
    ASSUME NEW a, NEW b, NEW c, Later(a, b), Later(b, c)
    PROVE  Later(a, c)
    BY DEF Later

LEMMA BehindTwice ==
    ASSUME NEW s \in Surfaces, NEW t \in Surfaces, NEW u \in Surfaces, Behind(s, t), Behind(t, u)
    PROVE  Behind(s, u)
    <1>1. PICK k \in 0 .. Len(s.queue) : Drained(s, t, k)
          BY DEF Behind
    <1>2. PICK l \in 0 .. Len(t.queue) : Drained(t, u, l)
          BY DEF Behind
    <1>3. Len(s.queue) \in Nat /\ Len(t.queue) \in Nat /\ Len(u.queue) \in Nat
          BY QueueFields
    <1>4. k + l \in 0 .. Len(s.queue) /\ k \in Nat /\ l \in Nat
          BY <1>1, <1>2, <1>3 DEF Drained
    <1>5. Len(u.queue) = Len(s.queue) - (k + l)
          BY <1>1, <1>2, <1>3 DEF Drained
    <1>6. ASSUME NEW i \in 1 .. Len(u.queue) PROVE Later(s.queue[i + (k + l)], u.queue[i])
      <2>1. i + l \in 1 .. Len(t.queue) /\ (i + l) + k = i + (k + l)
            BY <1>2, <1>3, <1>4 DEF Drained
      <2>2. Later(t.queue[i + l], u.queue[i])
            BY <1>2 DEF Drained
      <2>3. Later(s.queue[(i + l) + k], t.queue[i + l])
            BY <1>1, <2>1 DEF Drained
      <2>4. QED  BY <2>1, <2>2, <2>3, LaterTwice
    <1>7. s.sent \subseteq u.sent
          BY <1>1, <1>2 DEF Drained
    <1>8. ASSUME NEW j \in u.sent \ s.sent
          PROVE  \E i \in 1 .. Len(s.queue) :
                   /\ s.queue[i].state = "path" /\ s.queue[i].id = j.id /\ s.queue[i].image = j.image
                   /\ i > k + l => u.queue[i - (k + l)].state = "decoding"
      <2>1. CASE j \in t.sent
        <3>1. PICK i \in 1 .. Len(s.queue) :
                /\ s.queue[i].state = "path" /\ s.queue[i].id = j.id /\ s.queue[i].image = j.image
                /\ i > k => t.queue[i - k].state = "decoding"
              BY <1>1, <1>8, <2>1 DEF Drained
        <3>2. ASSUME i > k + l PROVE u.queue[i - (k + l)].state = "decoding"
          <4>1. i - (k + l) \in 1 .. Len(u.queue) /\ (i - (k + l)) + l = i - k /\ i > k
                BY <1>3, <1>4, <1>5, <3>2
          <4>2. Later(t.queue[i - k], u.queue[i - (k + l)])
                BY <1>2, <4>1 DEF Drained
          <4>3. QED  BY <3>1, <4>1, <4>2 DEF Later
        <3>3. QED  BY <3>1, <3>2
      <2>2. CASE j \notin t.sent
        <3>1. PICK i \in 1 .. Len(t.queue) :
                /\ t.queue[i].state = "path" /\ t.queue[i].id = j.id /\ t.queue[i].image = j.image
                /\ i > l => u.queue[i - l].state = "decoding"
              BY <1>2, <1>8, <2>2 DEF Drained
        <3>2. i + k \in 1 .. Len(s.queue) /\ Later(s.queue[i + k], t.queue[i])
          <4>1. Len(t.queue) = Len(s.queue) - k /\ Later(s.queue[i + k], t.queue[i])
                BY <1>1 DEF Drained
          <4>2. QED  BY SMTT(30), <1>3, <1>4, <4>1
        <3>3. s.queue[i + k].state = "path" /\ s.queue[i + k].id = j.id /\ s.queue[i + k].image = j.image
              BY <3>1, <3>2 DEF Later
        <3>4. i + k > k + l => i > l /\ (i + k) - (k + l) = i - l
              BY <1>4
        <3>5. QED  BY <3>1, <3>2, <3>3, <3>4
      <2>3. QED  BY <2>1, <2>2
    <1>9. Drained(s, u, k + l)
          BY <1>5, <1>6, <1>7, <1>8 DEF Drained
    <1>10. QED  BY <1>4, <1>9 DEF Behind

LEMMA BehindSame ==
    ASSUME NEW s \in Surfaces, NEW t, t.queue = s.queue, t.sent = s.sent
    PROVE  Behind(s, t)
    <1>1. Len(s.queue) \in Nat
          BY QueueFields
    <1>2. Drained(s, t, 0)
          BY <1>1 DEF Drained, Later
    <1>3. QED  BY <1>1, <1>2 DEF Behind

LEMMA BehindCleared ==
    ASSUME NEW s \in Surfaces, NEW t, t.queue = <<>>, t.sent = s.sent
    PROVE  Behind(s, t)
    <1>1. Len(s.queue) \in Nat
          BY QueueFields
    <1>2. Drained(s, t, Len(s.queue))
          BY <1>1 DEF Drained
    <1>3. QED  BY <1>1, <1>2 DEF Behind

LEMMA BehindTail ==
    ASSUME NEW s \in Surfaces, s.queue # <<>>, NEW t, t.queue = Tail(s.queue), t.sent = s.sent
    PROVE  Behind(s, t)
    <1>1. Len(s.queue) \in Nat \ {0}
          BY QueueFields
    <1>2. Len(t.queue) = Len(s.queue) - 1 /\ \A i \in 1 .. Len(t.queue) : t.queue[i] = s.queue[i + 1]
          BY SurfaceFields, HeadTailProperties
    <1>3. Drained(s, t, 1)
          BY <1>1, <1>2 DEF Drained, Later
    <1>4. QED  BY <1>1, <1>3 DEF Behind

LEMMA FunctionIsSeq ==
    ASSUME NEW S, NEW n \in Nat, NEW f \in [1 .. n -> S]
    PROVE  f \in Seq(S) /\ Len(f) = n
    <1>1. f \in Seq(S)
          BY SeqDef
    <1>2. DOMAIN f = 1 .. n /\ DOMAIN f = 1 .. Len(f) /\ Len(f) \in Nat
          BY <1>1, LenProperties
    <1>3. QED  BY <1>1, <1>2

\* The lookahead sends the jobs of walls near the front, and changes nothing else.
LEMMA LookaheadBehind ==
    ASSUME NEW s \in Surfaces
    PROVE  LET t == Lookahead(s) IN
           /\ t \in Surfaces /\ Behind(s, t)
           /\ TexturesIn(t.queue) = TexturesIn(s.queue) /\ Len(t.queue) = Len(s.queue)
           /\ t.power = s.power /\ t.egl = s.egl /\ t.size = s.size /\ t.recreate = s.recreate
           /\ t.image = s.image /\ t.wall = s.wall /\ t.active = s.active /\ t.shown = s.shown
           /\ t.textures = s.textures /\ t.pending = s.pending /\ t.frame = s.frame
           /\ \A i \in 1 .. Len(s.queue) : Later(s.queue[i], t.queue[i])
    <1> DEFINE next == {i \in DOMAIN s.queue : i <= MaxPrepared /\ s.queue[i].state = "path"}
               queue == [i \in DOMAIN s.queue |-> IF i \in next THEN [s.queue[i] EXCEPT !.state = "decoding"]
                                                             ELSE s.queue[i]]
               sent == s.sent \cup {[id |-> s.queue[i].id, image |-> s.queue[i].image] : i \in next}
               t == [s EXCEPT !.queue = queue, !.sent = sent]
    <1>1. Lookahead(s) = t
          BY DEF Lookahead
    <1>2. /\ Len(s.queue) \in Nat /\ DOMAIN s.queue = 1 .. Len(s.queue)
          /\ \A i \in 1 .. Len(s.queue) : s.queue[i] \in Queued
          /\ s.queue \in Seq(Queued)
          BY QueueFields, SurfaceFields
    <1>3. ASSUME NEW i \in 1 .. Len(s.queue)
          PROVE  /\ queue[i] \in Queued /\ Later(s.queue[i], queue[i])
                 /\ queue[i].aux = s.queue[i].aux
                 /\ queue[i].state = "uploaded" <=> s.queue[i].state = "uploaded"
                 /\ i \in next => queue[i].state = "decoding"
      <2>1. CASE i \in next
        <3>1. queue[i] = [s.queue[i] EXCEPT !.state = "decoding"] /\ s.queue[i].state = "path"
              BY <1>2, <2>1
        <3>2. s.queue[i] \in Queued
              BY <1>2
        <3> HIDE DEF queue, next
        <3>3. QED  BY <3>1, <3>2, <2>1 DEF Queued, Later
      <2>2. CASE i \notin next
        <3>1. queue[i] = s.queue[i] /\ s.queue[i] \in Queued
              BY <1>2, <2>2
        <3> HIDE DEF queue, next
        <3>2. QED  BY <2>2, <3>1 DEF Later
      <2>3. QED  BY <2>1, <2>2
    <1>4. queue \in Seq(Queued) /\ Len(queue) = Len(s.queue)
      <2>1. queue \in [1 .. Len(s.queue) -> Queued]
        <3>1. DOMAIN queue = 1 .. Len(s.queue) /\ queue = [i \in DOMAIN s.queue |-> queue[i]]
              BY <1>2
        <3> HIDE DEF queue
        <3>2. QED  BY <1>2, <1>3, <3>1
      <2> HIDE DEF queue
      <2>2. QED  BY <1>2, <2>1, FunctionIsSeq
    <1>5. sent \in SUBSET Jobs
      <2>1. \A i \in next : [id |-> s.queue[i].id, image |-> s.queue[i].image] \in Jobs
            BY <1>2, QueuedFields
      <2>2. s.sent \in SUBSET Jobs
            BY SurfaceFields
      <2>3. QED  BY <2>1, <2>2
    <1>6. \A j \in sent \ s.sent : \E i \in next : s.queue[i].id = j.id /\ s.queue[i].image = j.image
          OBVIOUS
    <1>7. \A i \in next : i \in 1 .. Len(s.queue) /\ s.queue[i].state = "path"
          BY <1>2
    <1>8. s.sent \subseteq sent
          OBVIOUS
    <1> HIDE DEF queue, sent, next
    <1>9. t \in Surfaces /\ t.queue = queue /\ t.sent = sent
          BY <1>4, <1>5 DEF Surfaces
    <1>10. TexturesIn(queue) = TexturesIn(s.queue)
          BY <1>2, <1>3, <1>4, TexturesInSame
    <1> HIDE DEF t
    <1>11. Drained(s, t, 0)
      <2>1. Len(t.queue) = Len(s.queue) - 0
            BY <1>2, <1>4, <1>9
      <2>2. \A i \in 1 .. Len(t.queue) : Later(s.queue[i + 0], t.queue[i])
            BY <1>2, <1>3, <1>4, <1>9
      <2>3. ASSUME NEW j \in t.sent \ s.sent
            PROVE  \E i \in 1 .. Len(s.queue) :
                     /\ s.queue[i].state = "path" /\ s.queue[i].id = j.id /\ s.queue[i].image = j.image
                     /\ i > 0 => t.queue[i - 0].state = "decoding"
        <3>1. PICK i \in next : s.queue[i].id = j.id /\ s.queue[i].image = j.image
              BY <1>6, <1>9
        <3>2. i \in 1 .. Len(s.queue) /\ s.queue[i].state = "path" /\ i - 0 = i
              BY <1>2, <1>7
        <3>3. t.queue[i].state = "decoding"
              BY <1>3, <1>9, <3>2
        <3>4. QED  BY <3>1, <3>2, <3>3
      <2>4. QED  BY <1>8, <1>9, <2>1, <2>2, <2>3 DEF Drained
    <1>12. Behind(s, t)
          BY <1>2, <1>11 DEF Behind
    <1>13. \A i \in 1 .. Len(s.queue) : Later(s.queue[i], t.queue[i])
          BY <1>3, <1>9
    <1>14. /\ t.power = s.power /\ t.egl = s.egl /\ t.size = s.size /\ t.recreate = s.recreate
           /\ t.image = s.image /\ t.wall = s.wall /\ t.active = s.active /\ t.shown = s.shown
           /\ t.textures = s.textures /\ t.pending = s.pending /\ t.frame = s.frame
          BY DEF t, Surfaces
    <1>15. QED  BY <1>1, <1>4, <1>9, <1>10, <1>12, <1>13, <1>14

(***************************************************************************)
(* What the operations on one output preserve.                             *)
(***************************************************************************)
\* What is on an output fits together: a transition has taken over the wallpaper, and
\* a picture is the one that was asked for.
Coherent(s) ==
    /\ s.active # NoActive => s.wall = NoImage
    /\ s.active.new \in {NoImage, s.active.target}
    /\ s.active.decode # 0 => s.active.new = NoImage
    /\ \A i \in 1 .. Len(s.queue) :
         /\ s.queue[i].content \in {NoImage, s.queue[i].image}
         /\ s.queue[i].kind = "canvas" => s.queue[i].aux = 0

\* The textures alive that nothing of the output owns.
Surplus(s) == s.textures - Owned(s)

Untouched(s, t) ==
    /\ t.power = s.power
    /\ ~AllowsEgl(s) => t.egl = s.egl /\ t.shown = s.shown /\ t.textures <= s.textures

\* t is what operations make of s, after they took over n textures made for it.
Progresses(s, t, n) ==
    /\ t \in Surfaces /\ Coherent(t)
    /\ Surplus(t) = Surplus(s) - n
    /\ Untouched(s, t)
    /\ Behind(s, t)

\* The decode an active transition waits for, if any, is the one it waited for.
KeepsDecode(s, t) ==
    t.active.decode # 0 => t.active.decode = s.active.decode /\ t.active.target = s.active.target

Evolves(s, t, n) == Progresses(s, t, n) /\ KeepsDecode(s, t)

LEMMA ActiveFields ==
    ASSUME NEW s \in Surfaces
    PROVE  /\ s.active.old \in Pictures /\ s.active.new \in Pictures
           /\ s.active.aux \in {0, 1} /\ s.active.decode \in Nat /\ s.active.elapsed \in BOOLEAN
           /\ s.active # NoActive => s.active.target \in Images
           /\ s.active = NoActive => /\ s.active.old = NoImage /\ s.active.new = NoImage
                                     /\ s.active.target = NoImage
                                     /\ s.active.aux = 0 /\ s.active.decode = 0
           /\ s.active.target \in Pictures
    <1>1. CASE s.active = NoActive
          BY <1>1 DEF NoActive, Pictures
    <1>2. CASE s.active # NoActive
      <2>1. s.active \in Active
            BY <1>2, SurfaceFields
      <2>2. QED  BY <1>2, <2>1 DEF Active, Pictures
    <1>3. QED  BY <1>1, <1>2

LEMMA SurplusType ==
    ASSUME NEW s \in Surfaces
    PROVE  /\ Texture(s.wall) \in {0, 1} /\ Texture(s.active.old) \in {0, 1}
           /\ Texture(s.active.new) \in {0, 1}
           /\ Owned(s) \in Nat /\ Surplus(s) \in Int
    <1>1. TexturesIn(s.queue) \in Nat /\ s.active.aux \in {0, 1} /\ s.textures \in Int
          BY QueueFields, ActiveFields, SurfaceFields
    <1>2. QED  BY <1>1 DEF Texture, Owned, Surplus

LEMMA ProgressesTwice ==
    ASSUME NEW s \in Surfaces, NEW t, NEW u, NEW m \in Int, NEW n \in Int,
           Progresses(s, t, m), Progresses(t, u, n)
    PROVE  Progresses(s, u, m + n)
    <1>1. t \in Surfaces /\ u \in Surfaces /\ Coherent(u)
          BY DEF Progresses
    <1>2. Surplus(u) = Surplus(s) - (m + n)
          BY <1>1, SurplusType DEF Progresses
    <1>3. Untouched(s, u)
      <2>1. s.textures \in Int /\ t.textures \in Int /\ u.textures \in Int
            BY <1>1, SurfaceFields
      <2>2. QED  BY <2>1 DEF Progresses, Untouched, AllowsEgl
    <1>4. Behind(s, u)
          BY <1>1, BehindTwice DEF Progresses
    <1>5. QED  BY <1>1, <1>2, <1>3, <1>4 DEF Progresses

LEMMA EvolvesTwice ==
    ASSUME NEW s \in Surfaces, NEW t, NEW u, NEW m \in Int, NEW n \in Int,
           Evolves(s, t, m), Evolves(t, u, n)
    PROVE  Evolves(s, u, m + n)
    <1>1. Progresses(s, u, m + n)
          BY ProgressesTwice DEF Evolves
    <1>2. KeepsDecode(s, u)
          BY DEF Evolves, KeepsDecode
    <1>3. QED  BY <1>1, <1>2 DEF Evolves

LEMMA RedrawnEvolves ==
    ASSUME NEW s \in Surfaces, Coherent(s), NEW t, Redrawn(s, t)
    PROVE  Evolves(s, t, 0)
    <1>1. t \in Surfaces /\ Coherent(t)
          BY DEF Redrawn, Coherent
    <1>2. Surplus(t) = Surplus(s) - 0
      <2>1. Surplus(t) = Surplus(s)
            BY DEF Redrawn, Surplus, Owned
      <2>2. QED  BY <2>1, SurplusType
    <1>3. Untouched(s, t)
          BY <1>1, SurfaceFields DEF Redrawn, Untouched
    <1>4. Behind(s, t)
          BY BehindSame DEF Redrawn
    <1>5. KeepsDecode(s, t)
          BY DEF KeepsDecode, Redrawn
    <1>6. QED  BY <1>1, <1>2, <1>3, <1>4, <1>5 DEF Evolves, Progresses

LEMMA SettleEvolves ==
    ASSUME NEW s \in Surfaces
    PROVE  /\ Settle(s) \in Surfaces /\ ~IsRunning(Settle(s)) /\ Settle(s).queue = s.queue
           /\ Settle(s).power = s.power
           /\ Coherent(s) => Evolves(s, Settle(s), 0)
    <1> DEFINE t == Settle(s)
    <1>1. s.active.old \in Pictures /\ s.active.new \in Pictures /\ s.active.aux \in {0, 1}
          BY ActiveFields
    <1>2. Texture(s.wall) \in {0, 1} /\ Texture(s.active.old) \in {0, 1}
          /\ Texture(s.active.new) \in {0, 1} /\ TexturesIn(s.queue) \in Nat /\ s.textures \in Int
          BY SurplusType, QueueFields, SurfaceFields
    <1>3. CASE ~IsRunning(s)
      <2>1. t = s
            BY <1>3 DEF Settle
      <2>2. Coherent(s) => Evolves(s, s, 0)
            BY RedrawnMarks, RedrawnEvolves
      <2>3. QED  BY <1>3, <2>1, <2>2
    <1>4. CASE IsRunning(s) /\ s.active.new # NoImage
      <2>1. t = [s EXCEPT !.active = NoActive, !.wall = s.active.new, !.image = s.active.target,
                          !.textures = @ - s.active.aux - Texture(s.active.old)]
            BY <1>4 DEF Settle
      <2>2. s.active.target \in Pictures
            BY ActiveFields
      <2>3. t \in Surfaces /\ t.active = NoActive /\ t.wall = s.active.new /\ t.queue = s.queue
            /\ t.power = s.power /\ t.egl = s.egl /\ t.shown = s.shown /\ t.sent = s.sent
            /\ t.textures = s.textures - s.active.aux - Texture(s.active.old)
        <3>1. s.textures - s.active.aux - Texture(s.active.old) \in Int
              BY <1>1, <1>2
        <3>2. t \in Surfaces
              BY <1>1, <2>1, <2>2, <3>1 DEF Surfaces
        <3>3. QED  BY <1>1, <2>1, <2>2, <3>1, <3>2 DEF Surfaces
      <2> HIDE DEF t
      <2>4. ~IsRunning(t)
            BY <2>3 DEF IsRunning
      <2>5. ASSUME Coherent(s) PROVE Coherent(t)
        <3>1. t.active.new = NoImage /\ t.active.decode = 0
              BY <2>3 DEF NoActive
        <3>2. QED  BY <2>3, <2>5, <3>1 DEF Coherent
      <2>6. ASSUME Coherent(s) PROVE Surplus(t) = Surplus(s) - 0
        <3>1. Owned(t) = Texture(t.wall) + TexturesIn(s.queue)
              BY <1>2, <2>3 DEF Owned, NoActive, Texture
        <3>2. Owned(s) = Texture(s.active.old) + Texture(s.active.new) + s.active.aux + TexturesIn(s.queue)
          <4>1. Texture(s.wall) = 0
                BY <1>4, <2>6 DEF Coherent, IsRunning, Texture
          <4>2. QED  BY <1>1, <1>2, <4>1 DEF Owned
        <3>3. QED  BY <1>1, <1>2, <2>3, <3>1, <3>2 DEF Surplus
      <2>7. Untouched(s, t)
            BY <1>1, <1>2, <2>3 DEF Untouched
      <2>8. Behind(s, t) /\ KeepsDecode(s, t)
            BY <2>3, BehindSame DEF KeepsDecode, NoActive
      <2>9. QED  BY <2>3, <2>4, <2>5, <2>6, <2>7, <2>8 DEF Evolves, Progresses, t
    <1>5. CASE IsRunning(s) /\ s.active.new = NoImage
      <2>1. t = [s EXCEPT !.active = NoActive, !.wall = IF s.active.old # NoImage THEN s.active.old ELSE @,
                          !.textures = @ - s.active.aux]
            BY <1>5 DEF Settle
      <2>2. s.wall \in Pictures
            BY SurfaceFields
      <2>3. t \in Surfaces /\ t.active = NoActive /\ t.queue = s.queue
            /\ t.wall = (IF s.active.old # NoImage THEN s.active.old ELSE s.wall)
            /\ t.power = s.power /\ t.egl = s.egl /\ t.shown = s.shown /\ t.sent = s.sent
            /\ t.textures = s.textures - s.active.aux
        <3>1. s.textures - s.active.aux \in Int
              BY <1>1, <1>2
        <3>2. QED  BY <1>1, <2>1, <2>2, <3>1 DEF Surfaces
      <2> HIDE DEF t
      <2>4. ~IsRunning(t)
            BY <2>3 DEF IsRunning
      <2>5. ASSUME Coherent(s) PROVE Coherent(t)
        <3>1. t.active.new = NoImage /\ t.active.decode = 0
              BY <2>3 DEF NoActive
        <3>2. QED  BY <2>3, <2>5, <3>1 DEF Coherent
      <2>6. ASSUME Coherent(s) PROVE Surplus(t) = Surplus(s) - 0
        <3>1. Owned(t) = Texture(t.wall) + TexturesIn(s.queue)
              BY <1>2, <2>3 DEF Owned, NoActive, Texture
        <3>2. s.wall = NoImage
              BY <1>5, <2>6 DEF Coherent, IsRunning
        <3>3. Owned(s) = Texture(s.active.old) + s.active.aux + TexturesIn(s.queue)
              BY <1>1, <1>2, <1>5, <3>2 DEF Owned, Texture
        <3>4. Texture(t.wall) = Texture(s.active.old)
              BY <2>3, <3>2 DEF Texture
        <3>5. QED  BY <1>1, <1>2, <2>3, <3>1, <3>3, <3>4 DEF Surplus
      <2>7. Untouched(s, t)
            BY <1>1, <1>2, <2>3 DEF Untouched
      <2>8. Behind(s, t) /\ KeepsDecode(s, t)
            BY <2>3, BehindSame DEF KeepsDecode, NoActive
      <2>9. QED  BY <2>3, <2>4, <2>5, <2>6, <2>7, <2>8 DEF Evolves, Progresses, t
    <1>6. QED  BY <1>3, <1>4, <1>5

LEMMA RestoreOldEvolves ==
    ASSUME NEW s \in Surfaces
    PROVE  /\ RestoreOld(s) \in Surfaces /\ ~IsRunning(RestoreOld(s)) /\ RestoreOld(s).queue = s.queue
           /\ RestoreOld(s).power = s.power
           /\ Coherent(s) => Evolves(s, RestoreOld(s), 0)
    <1> DEFINE t == RestoreOld(s)
    <1>1. s.active.old \in Pictures /\ s.active.new \in Pictures /\ s.active.aux \in {0, 1}
          BY ActiveFields
    <1>2. Texture(s.wall) \in {0, 1} /\ Texture(s.active.old) \in {0, 1}
          /\ Texture(s.active.new) \in {0, 1} /\ TexturesIn(s.queue) \in Nat /\ s.textures \in Int
          BY SurplusType, QueueFields, SurfaceFields
    <1>3. CASE ~IsRunning(s)
      <2>1. t = s
            BY <1>3 DEF RestoreOld
      <2>2. Coherent(s) => Evolves(s, s, 0)
            BY RedrawnMarks, RedrawnEvolves
      <2>3. QED  BY <1>3, <2>1, <2>2
    <1>4. CASE IsRunning(s)
      <2>1. t = [s EXCEPT !.active = NoActive, !.wall = IF s.active.old # NoImage THEN s.active.old ELSE @,
                          !.textures = @ - s.active.aux - Texture(s.active.new)]
            BY <1>4 DEF RestoreOld
      <2>2. s.wall \in Pictures
            BY SurfaceFields
      <2>3. t \in Surfaces /\ t.active = NoActive /\ t.queue = s.queue
            /\ t.wall = (IF s.active.old # NoImage THEN s.active.old ELSE s.wall)
            /\ t.power = s.power /\ t.egl = s.egl /\ t.shown = s.shown /\ t.sent = s.sent
            /\ t.textures = s.textures - s.active.aux - Texture(s.active.new)
        <3>1. s.textures - s.active.aux - Texture(s.active.new) \in Int
              BY <1>1, <1>2
        <3>2. QED  BY <1>1, <2>1, <2>2, <3>1 DEF Surfaces
      <2> HIDE DEF t
      <2>4. ~IsRunning(t)
            BY <2>3 DEF IsRunning
      <2>5. ASSUME Coherent(s) PROVE Coherent(t)
        <3>1. t.active.new = NoImage /\ t.active.decode = 0
              BY <2>3 DEF NoActive
        <3>2. QED  BY <2>3, <2>5, <3>1 DEF Coherent
      <2>6. ASSUME Coherent(s) PROVE Surplus(t) = Surplus(s) - 0
        <3>1. Owned(t) = Texture(t.wall) + TexturesIn(s.queue)
              BY <1>2, <2>3 DEF Owned, NoActive, Texture
        <3>2. s.wall = NoImage
              BY <1>4, <2>6 DEF Coherent, IsRunning
        <3>3. Owned(s) = Texture(s.active.old) + Texture(s.active.new) + s.active.aux + TexturesIn(s.queue)
          <4>1. Texture(s.wall) = 0
                BY <3>2 DEF Texture
          <4>2. QED  BY <1>1, <1>2, <4>1 DEF Owned
        <3>4. Texture(t.wall) = Texture(s.active.old)
              BY <2>3, <3>2 DEF Texture
        <3>5. QED  BY <1>1, <1>2, <2>3, <3>1, <3>3, <3>4 DEF Surplus
      <2>7. Untouched(s, t)
            BY <1>1, <1>2, <2>3 DEF Untouched
      <2>8. Behind(s, t) /\ KeepsDecode(s, t)
            BY <2>3, BehindSame DEF KeepsDecode, NoActive
      <2>9. QED  BY <2>3, <2>4, <2>5, <2>6, <2>7, <2>8 DEF Evolves, Progresses, t
    <1>5. QED  BY <1>3, <1>4

LEMMA DiscardEvolves ==
    ASSUME NEW s \in Surfaces
    PROVE  /\ Discard(s) \in Surfaces /\ ~IsRunning(Discard(s)) /\ Discard(s).queue = s.queue
           /\ Discard(s).power = s.power
           /\ Coherent(s) => Evolves(s, Discard(s), 0)
    <1> DEFINE t == Discard(s)
    <1>1. s.active.aux \in {0, 1}
          BY ActiveFields
    <1>2. Texture(s.wall) \in {0, 1} /\ Texture(s.active.old) \in {0, 1}
          /\ Texture(s.active.new) \in {0, 1} /\ TexturesIn(s.queue) \in Nat /\ s.textures \in Int
          BY SurplusType, QueueFields, SurfaceFields
    <1>3. t \in Surfaces /\ t.active = NoActive /\ t.wall = s.wall /\ t.queue = s.queue
          /\ t.power = s.power /\ t.egl = s.egl /\ t.shown = s.shown /\ t.sent = s.sent
          /\ t.textures = s.textures - s.active.aux - Texture(s.active.old) - Texture(s.active.new)
      <2>1. s.textures - s.active.aux - Texture(s.active.old) - Texture(s.active.new) \in Int
            BY <1>1, <1>2
      <2>2. QED  BY <2>1 DEF Surfaces, Discard
    <1> HIDE DEF t
    <1>4. ~IsRunning(t)
          BY <1>3 DEF IsRunning
    <1>5. ASSUME Coherent(s) PROVE Coherent(t)
      <2>1. t.active.new = NoImage /\ t.active.decode = 0
            BY <1>3 DEF NoActive
      <2>2. QED  BY <1>3, <1>5, <2>1 DEF Coherent
    <1>6. Surplus(t) = Surplus(s) - 0
      <2>1. Owned(t) = Texture(s.wall) + TexturesIn(s.queue)
            BY <1>2, <1>3 DEF Owned, NoActive, Texture
      <2>2. QED  BY <1>1, <1>2, <1>3, <2>1 DEF Surplus, Owned
    <1>7. Untouched(s, t)
          BY <1>1, <1>2, <1>3 DEF Untouched
    <1>8. Behind(s, t) /\ KeepsDecode(s, t)
          BY <1>3, BehindSame DEF KeepsDecode, NoActive
    <1>9. QED  BY <1>3, <1>4, <1>5, <1>6, <1>7, <1>8 DEF Evolves, Progresses, t

LEMMA ClearQueueEvolves ==
    ASSUME NEW s \in Surfaces
    PROVE  /\ ClearQueue(s) \in Surfaces /\ ClearQueue(s).queue = <<>> /\ ClearQueue(s).active = s.active
           /\ ClearQueue(s).power = s.power
           /\ Coherent(s) => Evolves(s, ClearQueue(s), 0)
    <1> DEFINE t == ClearQueue(s)
    <1>1. TexturesIn(s.queue) \in Nat /\ s.textures \in Int /\ s.active.aux \in {0, 1}
          BY QueueFields, SurfaceFields, ActiveFields
    <1>2. t \in Surfaces /\ t.active = s.active /\ t.wall = s.wall /\ t.queue = <<>>
          /\ t.power = s.power /\ t.egl = s.egl /\ t.shown = s.shown /\ t.sent = s.sent
          /\ t.textures = s.textures - TexturesIn(s.queue)
      <2>1. s.textures - TexturesIn(s.queue) \in Int /\ <<>> \in Seq(Queued)
            BY <1>1, EmptySeq
      <2>2. QED  BY <2>1 DEF Surfaces, ClearQueue
    <1> HIDE DEF t
    <1>3. ASSUME Coherent(s) PROVE Coherent(t)
      <2>1. Len(t.queue) = 0
            BY <1>2
      <2>2. QED  BY <1>2, <1>3, <2>1 DEF Coherent
    <1>4. Surplus(t) = Surplus(s) - 0
      <2>1. TexturesIn(t.queue) = 0
            BY <1>2, TexturesInEmpty
      <2>2. Texture(s.wall) \in Int /\ Texture(s.active.old) \in Int /\ Texture(s.active.new) \in Int
            BY SurplusType
      <2>3. Owned(t) = Owned(s) - TexturesIn(s.queue)
            BY <1>1, <1>2, <2>1, <2>2 DEF Owned
      <2>4. Owned(s) \in Int
            BY SurplusType
      <2>5. QED  BY <1>1, <1>2, <2>3, <2>4 DEF Surplus
    <1>5. Untouched(s, t)
          BY <1>1, <1>2 DEF Untouched
    <1>6. Behind(s, t) /\ KeepsDecode(s, t)
          BY <1>2, BehindCleared DEF KeepsDecode
    <1>7. QED  BY <1>2, <1>3, <1>4, <1>5, <1>6 DEF Evolves, Progresses, t

LEMMA LookaheadEvolves ==
    ASSUME NEW s \in Surfaces, Coherent(s)
    PROVE  Evolves(s, Lookahead(s), 0)
    <1>1. PICK t \in Surfaces : t = Lookahead(s)
          BY LookaheadBehind
    <1>2. /\ Behind(s, t) /\ TexturesIn(t.queue) = TexturesIn(s.queue) /\ Len(t.queue) = Len(s.queue)
          /\ \A i \in 1 .. Len(s.queue) : Later(s.queue[i], t.queue[i])
          BY <1>1, LookaheadBehind
    <1>3. /\ t.power = s.power /\ t.egl = s.egl /\ t.shown = s.shown /\ t.textures = s.textures
          /\ t.active = s.active /\ t.wall = s.wall
          BY <1>1, LookaheadBehind
    <1>4. Coherent(t)
      <2>1. \A i \in 1 .. Len(t.queue) : /\ t.queue[i].content \in {NoImage, t.queue[i].image}
                                         /\ t.queue[i].kind = "canvas" => t.queue[i].aux = 0
            BY <1>2 DEF Later, Coherent
      <2>2. QED  BY <1>3, <2>1 DEF Coherent
    <1>5. Surplus(t) = Surplus(s) - 0
      <2>1. Surplus(t) = Surplus(s)
            BY <1>2, <1>3 DEF Surplus, Owned
      <2>2. QED  BY <2>1, SurplusType
    <1>6. Untouched(s, t) /\ KeepsDecode(s, t)
          BY <1>3, SurfaceFields DEF Untouched, KeepsDecode
    <1>7. QED  BY <1>1, <1>2, <1>4, <1>5, <1>6 DEF Evolves, Progresses

\* Textures are made, or deleted, and nothing else happens.
LEMMA CountedEvolves ==
    ASSUME NEW s \in Surfaces, NEW m \in Int, NEW t, t = [s EXCEPT !.textures = m]
    PROVE  /\ t \in Surfaces /\ t.queue = s.queue /\ t.active = s.active /\ t.wall = s.wall
           /\ t.image = s.image /\ t.power = s.power /\ t.textures = m /\ t.sent = s.sent
           /\ t.egl = s.egl /\ t.size = s.size /\ t.shown = s.shown
           /\ t.pending = s.pending /\ t.frame = s.frame /\ t.recreate = s.recreate
           /\ Coherent(s) /\ (AllowsEgl(s) \/ m <= s.textures) => Evolves(s, t, s.textures - m)
    <1>1. /\ t \in Surfaces /\ t.queue = s.queue /\ t.active = s.active /\ t.wall = s.wall
          /\ t.image = s.image /\ t.power = s.power /\ t.textures = m /\ t.sent = s.sent
          /\ t.egl = s.egl /\ t.size = s.size /\ t.shown = s.shown
          /\ t.pending = s.pending /\ t.frame = s.frame /\ t.recreate = s.recreate
          BY DEF Surfaces
    <1>2. ASSUME Coherent(s), AllowsEgl(s) \/ m <= s.textures PROVE Evolves(s, t, s.textures - m)
      <2>1. Coherent(t)
            BY <1>1, <1>2 DEF Coherent
      <2>2. Surplus(t) = Surplus(s) - (s.textures - m)
        <3>1. Owned(t) = Owned(s)
              BY <1>1 DEF Owned
        <3>2. Owned(s) \in Int /\ s.textures \in Int
              BY SurplusType, SurfaceFields
        <3>3. QED  BY <1>1, <3>1, <3>2 DEF Surplus
      <2>3. Untouched(s, t)
            BY <1>1, <1>2 DEF Untouched
      <2>4. Behind(s, t) /\ KeepsDecode(s, t)
            BY <1>1, BehindSame DEF KeepsDecode
      <2>5. QED  BY <1>1, <2>1, <2>2, <2>3, <2>4 DEF Evolves, Progresses
    <1>3. QED  BY <1>1, <1>2

LEMMA SetCutEvolves ==
    ASSUME NEW s \in Surfaces, NEW image \in Images, NEW content \in Images
    PROVE  LET t == SetCut(s, image, content) IN
           /\ t \in Surfaces /\ ~IsRunning(t) /\ t.queue = <<>> /\ t.power = s.power
           /\ t.wall = content /\ t.image = image
           /\ Coherent(s) => Evolves(s, t, 1)
    <1>1. PICK c \in Surfaces : c = ClearQueue(s)
          BY ClearQueueEvolves
    <1>2. PICK u \in Surfaces : u = Settle(c)
          BY SettleEvolves
    <1>3. u.queue = <<>> /\ ~IsRunning(u) /\ u.power = s.power
          BY <1>1, <1>2, ClearQueueEvolves, SettleEvolves
    <1>4. Coherent(s) => Evolves(s, u, 0)
      <2>1. SUFFICES ASSUME Coherent(s) PROVE Evolves(s, u, 0)
            OBVIOUS
      <2>2. Evolves(s, c, 0)
            BY <1>1, <2>1, ClearQueueEvolves
      <2>3. Evolves(c, u, 0)
            BY <1>2, <2>2, SettleEvolves DEF Evolves, Progresses
      <2>4. Evolves(s, u, 0 + 0)
            BY <2>2, <2>3, EvolvesTwice
      <2>5. QED  BY <2>4
    <1>5. PICK t : t = [u EXCEPT !.wall = content, !.image = image, !.textures = @ - Texture(u.wall)]
          OBVIOUS
    <1>6. t = SetCut(s, image, content)
          BY <1>1, <1>2, <1>5 DEF SetCut
    <1>7. u.textures \in Int /\ Texture(u.wall) \in {0, 1} /\ Owned(u) \in Int /\ TexturesIn(u.queue) \in Nat
          /\ Texture(u.active.old) \in {0, 1} /\ Texture(u.active.new) \in {0, 1} /\ u.active.aux \in {0, 1}
          BY SurfaceFields, SurplusType, QueueFields, ActiveFields
    <1>8. /\ t \in Surfaces /\ t.wall = content /\ t.image = image /\ t.queue = u.queue /\ t.active = u.active
          /\ t.power = u.power /\ t.egl = u.egl /\ t.shown = u.shown /\ t.sent = u.sent
          /\ t.textures = u.textures - Texture(u.wall)
      <2>1. u.textures - Texture(u.wall) \in Int /\ content \in Pictures /\ image \in Pictures
            BY <1>7 DEF Pictures
      <2>2. QED  BY <1>5, <2>1 DEF Surfaces
    <1>9. ~IsRunning(t) /\ t.queue = <<>> /\ t.power = s.power
          BY <1>3, <1>8 DEF IsRunning
    <1>10. ASSUME Coherent(s) PROVE Evolves(s, t, 1)
      <2>1. Evolves(s, u, 0) /\ Coherent(u)
            BY <1>4, <1>10 DEF Evolves, Progresses
      <2>2. Coherent(t)
            BY <1>8, <1>9, <2>1 DEF Coherent, IsRunning
      <2>3. Surplus(t) = Surplus(u) - 1
        <3>1. Texture(t.wall) = 1
              BY <1>8, OutputSurfaceAssumption DEF Texture
        <3>2. Owned(t) = Owned(u) - Texture(u.wall) + 1
              BY <1>7, <1>8, <3>1 DEF Owned
        <3>3. QED  BY <1>7, <1>8, <3>2 DEF Surplus
      <2>4. Untouched(u, t)
            BY <1>7, <1>8 DEF Untouched
      <2>5. Behind(u, t) /\ KeepsDecode(u, t)
            BY <1>8, BehindSame DEF KeepsDecode
      <2>6. Evolves(u, t, 1)
            BY <1>8, <2>2, <2>3, <2>4, <2>5 DEF Evolves, Progresses
      <2>7. Evolves(s, t, 0 + 1)
            BY <2>1, <2>6, EvolvesTwice
      <2>8. QED  BY <2>7
    <1>11. QED  BY <1>6, <1>8, <1>9, <1>10

LEMMA StartsDetails ==
    ASSUME NEW s \in Surfaces, NEW kind \in Kinds, NEW image \in Images, NEW content \in Pictures,
           NEW aux \in {0, 1}, NEW decode \in Nat, NEW t \in Starts(s, kind, image, content, aux, decode)
    PROVE  /\ t \in Surfaces /\ IsRunning(t) /\ t.queue = s.queue /\ t.power = s.power
           /\ t.wall = NoImage /\ t.image = Settle(s).image
           /\ t.active.old = Settle(s).wall /\ t.active.new = content /\ t.active.target = image
           /\ t.active.kind = kind /\ t.active.decode = decode
           /\ t.active.elapsed => "instant" \in Faults
           /\ t.size = Settle(s).size /\ t.egl = Settle(s).egl /\ t.pending = Settle(s).pending
           /\ t.frame = Settle(s).frame /\ t.recreate = Settle(s).recreate /\ t.sent = Settle(s).sent
           /\ Coherent(s) /\ content \in {NoImage, image} /\ (decode # 0 => content = NoImage)
                => Progresses(s, t, Texture(content) + aux)
    <1>1. PICK u \in Surfaces : u = Settle(s)
          BY SettleEvolves
    <1>2. PICK elapsed \in {FALSE} \cup May("instant", TRUE) :
            t = [u EXCEPT !.wall = NoImage,
                          !.active = [kind |-> kind, old |-> u.wall, new |-> content, target |-> image,
                                      aux |-> aux, decode |-> decode, elapsed |-> elapsed]]
          BY <1>1 DEF Starts
    <1> DEFINE a == [kind |-> kind, old |-> u.wall, new |-> content, target |-> image,
                     aux |-> aux, decode |-> decode, elapsed |-> elapsed]
    <1>3. a \in Active /\ a # NoActive
      <2>1. elapsed \in BOOLEAN
            BY DEF May
      <2>2. u.wall \in Pictures
            BY SurfaceFields
      <2>3. a \in Active
            BY <2>1, <2>2 DEF Active
      <2>4. a.kind # "none"
            BY DEF Kinds
      <2>5. QED  BY <2>3, <2>4 DEF NoActive
    <1>4. a.old = u.wall /\ a.new = content /\ a.target = image /\ a.aux = aux /\ a.decode = decode
          /\ a.elapsed = elapsed /\ a.kind = kind
          OBVIOUS
    <1>5. t = [u EXCEPT !.wall = NoImage, !.active = a]
          BY <1>2
    <1> HIDE DEF a
    <1>6. /\ t \in Surfaces /\ t.wall = NoImage /\ t.active = a /\ t.queue = u.queue
          /\ t.power = u.power /\ t.egl = u.egl /\ t.shown = u.shown /\ t.sent = u.sent
          /\ t.textures = u.textures /\ t.image = u.image /\ t.size = u.size /\ t.pending = u.pending
          /\ t.frame = u.frame /\ t.recreate = u.recreate
          BY <1>3, <1>5 DEF Surfaces, Pictures
    <1>11. elapsed => "instant" \in Faults
          BY <1>2 DEF May
    <1>7. u.queue = s.queue /\ u.power = s.power /\ ~IsRunning(u)
          BY <1>1, SettleEvolves
    <1>8. IsRunning(t)
          BY <1>3, <1>6 DEF IsRunning
    <1>9. ASSUME Coherent(s), content \in {NoImage, image}, decode # 0 => content = NoImage
          PROVE  Progresses(s, t, Texture(content) + aux)
      <2>1. Progresses(s, u, 0) /\ Coherent(u)
            BY <1>1, <1>9, SettleEvolves DEF Evolves, Progresses
      <2>2. Coherent(t)
            BY <1>4, <1>6, <1>9, <2>1 DEF Coherent
      <2>3. Surplus(t) = Surplus(u) - (Texture(content) + aux)
        <3>1. TexturesIn(u.queue) \in Nat /\ u.textures \in Int /\ Texture(u.wall) \in {0, 1}
              /\ Texture(content) \in {0, 1}
              BY QueueFields, SurfaceFields, SurplusType DEF Texture
        <3>2. Owned(u) = Texture(u.wall) + TexturesIn(u.queue)
              BY <1>7, <3>1 DEF Owned, IsRunning, NoActive, Texture
        <3>3. Owned(t) = Texture(u.wall) + Texture(content) + aux + TexturesIn(u.queue)
          <4>1. Texture(t.wall) = 0
                BY <1>6 DEF Texture
          <4>2. QED  BY <1>4, <1>6, <3>1, <4>1 DEF Owned
        <3>4. QED  BY <1>6, <3>1, <3>2, <3>3 DEF Surplus
      <2>4. Untouched(u, t)
            BY <1>6, SurfaceFields DEF Untouched
      <2>5. Behind(u, t)
            BY <1>6, BehindSame
      <2>6. Progresses(u, t, Texture(content) + aux)
            BY <1>6, <2>2, <2>3, <2>4, <2>5 DEF Progresses
      <2>7. Texture(content) + aux \in Int
            BY DEF Texture
      <2>8. Progresses(s, t, 0 + (Texture(content) + aux))
            BY <2>1, <2>6, <2>7, ProgressesTwice
      <2>9. QED  BY <2>7, <2>8
    <1>10. QED  BY <1>1, <1>4, <1>6, <1>7, <1>8, <1>9, <1>11

LEMMA StartsType ==
    ASSUME NEW s \in Surfaces, NEW kind \in Kinds, NEW image \in Images, NEW content \in Pictures,
           NEW aux \in {0, 1}, NEW decode \in Nat, NEW t \in Starts(s, kind, image, content, aux, decode)
    PROVE  t \in Surfaces /\ t.power = s.power /\ t.active.decode = decode
    BY StartsDetails

LEMMA StartsProgress ==
    ASSUME NEW s \in Surfaces, NEW kind \in Kinds, NEW image \in Images, NEW content \in {NoImage, image},
           NEW aux \in {0, 1}, NEW decode \in Nat, NEW t \in Starts(s, kind, image, content, aux, decode),
           Coherent(s), decode # 0 => content = NoImage
    PROVE  Progresses(s, t, Texture(content) + aux)
    BY StartsDetails DEF Pictures

LEMMA StartQueuedEvolves ==
    ASSUME NEW s \in Surfaces, NEW q \in Queued, NEW content \in Images, NEW t \in StartQueued(s, q, content)
    PROVE  /\ t \in Surfaces /\ t.power = s.power
           /\ Coherent(s) /\ AllowsEgl(s) /\ content = q.image /\ (q.kind = "canvas" => q.aux = 0)
                => Evolves(s, t, 1 + q.aux)
    <1>1. q.image \in Images /\ q.kind \in Kinds /\ q.aux \in {0, 1} /\ content \in Pictures
          /\ Texture(content) = 1
          BY QueuedFields, OutputSurfaceAssumption DEF Pictures, Texture
    <1>2. CASE q.kind = "canvas" /\ t = SetCut(s, q.image, content)
          BY <1>1, <1>2, SetCutEvolves
    <1>3. CASE q.kind = "canvas" /\ t \in Starts([s EXCEPT !.textures = @ + 1], "canvas", q.image, content, 1, 0)
      <2>1. s.textures \in Int
            BY SurfaceFields
      <2>2. PICK m \in Int : m = s.textures + 1
            BY <2>1
      <2>3. PICK u : u = [s EXCEPT !.textures = m]
            OBVIOUS
      <2>4. u \in Surfaces /\ u.power = s.power
            BY <2>3, CountedEvolves
      <2>5. PICK one \in {0, 1}, none \in Nat : /\ one = 1 /\ none = 0
                                                /\ t \in Starts(u, q.kind, q.image, content, one, none)
        <3>1. t \in Starts(u, q.kind, q.image, content, 1, 0)
              BY <1>3, <2>2, <2>3
        <3>2. QED  BY <3>1
      <2>6. t \in Surfaces /\ t.power = s.power /\ t.active.decode = 0
            BY <1>1, <1>3, <2>4, <2>5, StartsType
      <2>7. ASSUME Coherent(s), AllowsEgl(s), content = q.image, q.aux = 0
            PROVE  Evolves(s, t, 1 + q.aux)
        <3>1. Evolves(s, u, s.textures - m) /\ s.textures - m = -1
              BY <2>1, <2>2, <2>3, <2>7, CountedEvolves
        <3>2. Progresses(u, t, Texture(content) + one)
              BY <1>1, <1>3, <2>4, <2>5, <2>7, <3>1, StartsProgress DEF Evolves, Progresses
        <3>3. Progresses(s, t, -1 + 2)
              BY <1>1, <2>5, <3>1, <3>2, ProgressesTwice DEF Evolves
        <3>4. QED  BY <2>6, <2>7, <3>3 DEF Evolves, KeepsDecode
      <2>8. QED  BY <1>3, <2>6, <2>7
    <1>4. CASE q.kind # "canvas" /\ t \in Starts(s, q.kind, q.image, content, q.aux, 0)
      <2> PICK none \in Nat : none = 0 /\ t \in Starts(s, q.kind, q.image, content, q.aux, none)
            BY <1>4
      <2>1. t \in Surfaces /\ t.power = s.power /\ t.active.decode = 0
            BY <1>1, <1>4, StartsType
      <2>2. ASSUME Coherent(s), content = q.image PROVE Evolves(s, t, 1 + q.aux)
        <3>1. Progresses(s, t, Texture(content) + q.aux)
              BY <1>1, <1>4, <2>2, StartsProgress
        <3>2. QED  BY <1>1, <2>1, <3>1 DEF Evolves, KeepsDecode
      <2>3. QED  BY <2>1, <2>2
    <1>5. QED  BY <1>2, <1>3, <1>4 DEF StartQueued

(***************************************************************************)
(* The next wall of the queue.                                             *)
(***************************************************************************)
LEMMA TakenEvolves ==
    ASSUME NEW s \in Surfaces, s.queue # <<>>
    PROVE  LET t == Taken(s) IN
           /\ t \in Surfaces /\ Len(t.queue) = Len(s.queue) - 1
           /\ t.power = s.power /\ t.textures = s.textures /\ t.active = s.active /\ t.wall = s.wall
           /\ t.image = s.image /\ t.size = s.size /\ t.egl = s.egl /\ t.shown = s.shown
           /\ t.pending = s.pending /\ t.frame = s.frame
           /\ Head(s.queue) \in Queued
           /\ Coherent(s) => Evolves(s, t, 0 - (Head(s.queue).aux + Ahead(Head(s.queue))))
    <1>1. Head(s.queue) \in Queued /\ Tail(s.queue) \in Seq(Queued) /\ Head(s.queue) = s.queue[1]
          /\ Len(Tail(s.queue)) = Len(s.queue) - 1
          /\ \A i \in 1 .. Len(s.queue) - 1 : Tail(s.queue)[i] = s.queue[i + 1]
      <2>1. s.queue \in Seq(Queued) /\ Len(s.queue) \in Nat \ {0}
            BY SurfaceFields, QueueFields
      <2>2. QED  BY <2>1, HeadTailProperties
    <1>2. PICK v : v = [s EXCEPT !.queue = Tail(@)]
          OBVIOUS
    <1>3. /\ v \in Surfaces /\ v.queue = Tail(s.queue)
          /\ v.power = s.power /\ v.textures = s.textures /\ v.active = s.active /\ v.wall = s.wall
          /\ v.image = s.image /\ v.size = s.size /\ v.egl = s.egl /\ v.shown = s.shown
          /\ v.pending = s.pending /\ v.frame = s.frame /\ v.sent = s.sent
          BY <1>1, <1>2 DEF Surfaces
    <1>4. PICK t : t = Lookahead(v)
          OBVIOUS
    <1>5. t = Taken(s)
          BY <1>2, <1>4 DEF Taken
    <1>6. /\ t \in Surfaces /\ Len(t.queue) = Len(v.queue)
          /\ t.power = v.power /\ t.textures = v.textures /\ t.active = v.active /\ t.wall = v.wall
          /\ t.image = v.image /\ t.size = v.size /\ t.egl = v.egl /\ t.shown = v.shown
          /\ t.pending = v.pending /\ t.frame = v.frame
          BY <1>3, <1>4, LookaheadBehind
    <1>7. ASSUME Coherent(s) PROVE Evolves(s, t, 0 - (Head(s.queue).aux + Ahead(Head(s.queue))))
      <2>11. Head(s.queue).aux \in {0, 1} /\ Ahead(Head(s.queue)) \in {0, 1}
            BY <1>1, QueuedFields DEF Ahead
      <2>1. PICK x \in Int, y \in Int, n \in Int :
              x = Head(s.queue).aux /\ y = Ahead(Head(s.queue)) /\ n = 0 - (x + y)
            BY <2>11
      <2>2. Coherent(v)
        <3>1. Len(s.queue) \in Nat \ {0}
              BY QueueFields
        <3>2. \A i \in 1 .. Len(v.queue) : i + 1 \in 1 .. Len(s.queue) /\ v.queue[i] = s.queue[i + 1]
              BY <1>1, <1>3, <3>1
        <3>3. \A i \in 1 .. Len(v.queue) : /\ v.queue[i].content \in {NoImage, v.queue[i].image}
                                           /\ v.queue[i].kind = "canvas" => v.queue[i].aux = 0
              BY <1>7, <3>2 DEF Coherent
        <3>4. QED  BY <1>3, <1>7, <3>3 DEF Coherent
      <2>3. Surplus(v) = Surplus(s) - n
        <3>1. TexturesIn(s.queue) = TexturesIn(v.queue) + x + y
              BY <1>3, <2>1, SurfaceFields, TexturesInTail
        <3>2. TexturesIn(v.queue) \in Int /\ s.textures \in Int /\ Texture(s.wall) \in Int
              /\ Texture(s.active.old) \in Int /\ Texture(s.active.new) \in Int /\ s.active.aux \in Int
              BY <1>3, QueueFields, SurfaceFields, SurplusType, ActiveFields
        <3>3. Owned(v) = Texture(s.wall) + Texture(s.active.old) + Texture(s.active.new) + s.active.aux
                          + TexturesIn(v.queue)
              BY <1>3 DEF Owned
        <3>5. Owned(s) = Owned(v) + x + y /\ Owned(v) \in Int
              BY <3>1, <3>2, <3>3 DEF Owned
        <3>6. PICK z \in Int, w \in Int : z = s.textures /\ w = Owned(v)
              BY <3>2, <3>5
        <3>7. Surplus(v) = z - w /\ Surplus(s) = z - (w + x + y)
              BY <1>3, <3>5, <3>6 DEF Surplus
        <3>8. z - w = (z - (w + x + y)) - (0 - (x + y))
              OBVIOUS
        <3>9. QED  BY <2>1, <3>7, <3>8
      <2>4. Untouched(s, v) /\ KeepsDecode(s, v)
            BY <1>3, SurfaceFields DEF Untouched, KeepsDecode
      <2>5. Behind(s, v)
            BY <1>3, BehindTail
      <2>6. Evolves(s, v, n)
            BY <1>3, <2>2, <2>3, <2>4, <2>5 DEF Evolves, Progresses
      <2>7. Evolves(v, t, 0)
            BY <1>3, <1>4, <2>2, LookaheadEvolves
      <2>8. Evolves(s, t, n + 0)
            BY <2>1, <2>6, <2>7, EvolvesTwice
      <2>9. Evolves(s, t, n)
            BY <2>1, <2>8
      <2>10. QED  BY <2>1, <2>9
    <1>8. QED  BY <1>1, <1>3, <1>5, <1>6, <1>7

LEMMA ContentOfType ==
    ASSUME NEW q \in Queued
    PROVE  ContentOf(q) \in Images /\ (q.content \in {NoImage, q.image} => ContentOf(q) = q.image)
    BY QueuedFields DEF ContentOf, Pictures

LEMMA ShownEvolves ==
    ASSUME NEW s \in Surfaces, s.queue # <<>>, NEW r \in Shown(s)
    PROVE  /\ r \in Outcomes /\ r.ok /\ r.surface.power = s.power
           /\ Coherent(s) /\ AllowsEgl(s) => Evolves(s, r.surface, 0)
    <1>1. PICK q \in Queued : q = Head(s.queue)
          BY TakenEvolves
    <1>2. PICK v \in Surfaces : v = Taken(s)
          BY TakenEvolves
    <1>3. v.textures = s.textures /\ v.power = s.power /\ s.textures \in Int
          BY <1>2, TakenEvolves, SurfaceFields
    <1>4. PICK m \in Int : m = IF q.state = "uploaded" THEN s.textures ELSE s.textures + 1
          BY <1>3
    <1>5. PICK u : u = [v EXCEPT !.textures = m]
          OBVIOUS
    <1>6. u = [Taken(s) EXCEPT !.textures = IF Head(s.queue).state = "uploaded" THEN @ ELSE @ + 1]
          BY <1>1, <1>2, <1>3, <1>4, <1>5
    <1>7. u \in Surfaces /\ u.power = s.power
          BY <1>3, <1>5, CountedEvolves
    <1>8. ContentOf(q) \in Images
          BY ContentOfType
    <1>9. PICK t \in StartQueued(u, q, ContentOf(q)) : r = Done(t)
          BY <1>1, <1>6 DEF Shown
    <1>10. t \in Surfaces /\ t.power = s.power
          BY <1>7, <1>8, <1>9, StartQueuedEvolves
    <1>11. r \in Outcomes /\ r.ok /\ r.surface = t
          BY <1>9, <1>10, OutcomeType
    <1>12. ASSUME Coherent(s), AllowsEgl(s) PROVE Evolves(s, t, 0)
      <2>1. Head(s.queue) = s.queue[1] /\ 1 \in 1 .. Len(s.queue)
        <3>1. s.queue \in Seq(Queued) /\ Len(s.queue) \in Nat \ {0}
              BY SurfaceFields, QueueFields
        <3>2. QED  BY <3>1, HeadTailProperties
      <2>2. ContentOf(q) = q.image /\ (q.kind = "canvas" => q.aux = 0)
            BY <1>1, <1>12, <2>1, ContentOfType DEF Coherent
      <2>3. AllowsEgl(v) /\ AllowsEgl(u)
            BY <1>3, <1>7, <1>12 DEF AllowsEgl
      <2>4. q.aux \in {0, 1} /\ Ahead(q) \in {0, 1} /\ q.aux \in Int /\ Ahead(q) \in Int
        <3>1. q.aux \in {0, 1}
              BY QueuedFields
        <3>2. QED  BY <3>1 DEF Ahead
      <2>5. PICK a \in Int, b \in Int, c \in Int : a = 0 - (q.aux + Ahead(q)) /\ b = v.textures - m /\ c = 1 + q.aux
            BY <1>3, <2>4
      <2>6. Evolves(s, v, a) /\ Coherent(v)
            BY <1>1, <1>2, <1>12, <2>5, TakenEvolves DEF Evolves, Progresses
      <2>7. Evolves(v, u, b) /\ Coherent(u)
            BY <1>5, <2>3, <2>5, <2>6, CountedEvolves DEF Evolves, Progresses
      <2>8. Evolves(u, t, c)
            BY <1>7, <1>8, <1>9, <2>2, <2>3, <2>5, <2>7, StartQueuedEvolves
      <2>9. Evolves(s, u, a + b)
            BY <2>6, <2>7, EvolvesTwice
      <2>10. Evolves(s, t, (a + b) + c)
        <3>1. a + b \in Int
              OBVIOUS
        <3>2. QED  BY <2>8, <2>9, <3>1, EvolvesTwice
      <2>11. (a + b) + c = 0
        <3>1. PICK x \in Int, y \in Int, z \in Int : x = q.aux /\ y = Ahead(q) /\ z = s.textures
              BY <1>3, <2>4
        <3>2. a = 0 - (x + y) /\ b = z - m /\ c = 1 + x
              BY <1>3, <2>5, <3>1
        <3>3. m = z + 1 - y
          <4>1. CASE q.state = "uploaded"
                BY <1>4, <3>1, <4>1 DEF Ahead
          <4>2. CASE q.state # "uploaded"
                BY <1>4, <3>1, <4>2 DEF Ahead
          <4>3. QED  BY <4>1, <4>2
        <3>4. QED  BY <3>2, <3>3
      <2>12. QED  BY <2>10, <2>11
    <1>13. QED  BY <1>10, <1>11, <1>12

LEMMA SkippedEvolves ==
    ASSUME NEW s \in Surfaces, s.queue # <<>>
    PROVE  /\ Skipped(s) \in Surfaces /\ Len(Skipped(s).queue) = Len(s.queue) - 1
           /\ Skipped(s).power = s.power /\ Skipped(s).active = s.active
           /\ Coherent(s) /\ Head(s.queue).state # "uploaded" => Evolves(s, Skipped(s), 0)
    <1>1. PICK q \in Queued : q = Head(s.queue)
          BY TakenEvolves
    <1>2. PICK v \in Surfaces : v = Taken(s)
          BY TakenEvolves
    <1>3. v.textures = s.textures /\ v.power = s.power /\ v.active = s.active /\ s.textures \in Int
          /\ Len(v.queue) = Len(s.queue) - 1 /\ q.aux \in {0, 1}
          BY <1>2, TakenEvolves, SurfaceFields, QueuedFields
    <1>4. PICK m \in Int : m = s.textures - q.aux
          BY <1>3
    <1>5. PICK u : u = [v EXCEPT !.textures = m]
          OBVIOUS
    <1>6. u = Skipped(s)
          BY <1>1, <1>2, <1>3, <1>4, <1>5 DEF Skipped
    <1>7. u \in Surfaces /\ u.power = s.power /\ u.active = s.active /\ u.queue = v.queue
          BY <1>3, <1>5, CountedEvolves
    <1>8. ASSUME Coherent(s), q.state # "uploaded" PROVE Evolves(s, u, 0)
      <2>1. PICK a \in Int, b \in Int : a = 0 - (q.aux + Ahead(q)) /\ b = v.textures - m
            BY <1>3 DEF Ahead
      <2>2. Evolves(s, v, a) /\ Coherent(v)
            BY <1>1, <1>2, <1>8, <2>1, TakenEvolves DEF Evolves, Progresses
      <2>3. m <= v.textures
            BY <1>3, <1>4
      <2>4. Evolves(v, u, b)
            BY <1>5, <2>1, <2>2, <2>3, CountedEvolves
      <2>5. Evolves(s, u, a + b)
            BY <2>2, <2>4, EvolvesTwice
      <2>6. a + b = 0
            BY <1>3, <1>4, <1>8, <2>1 DEF Ahead
      <2>7. QED  BY <2>5, <2>6
    <1>9. QED  BY <1>1, <1>3, <1>6, <1>7, <1>8

\* The first wall is shown, or skipped when its texture was not there.
LEMMA TakeNextCases ==
    ASSUME NEW s, NEW next, NEW r \in TakeNext(s, next)
    PROVE  \/ r \in Shown(s)
           \/ Head(s.queue).state # "uploaded" /\ r \in next[Skipped(s)]
    <1>1. PICK ready \in TextureFor(Taken(s), Head(s.queue)) :
            r \in IF ready THEN Shown(s) ELSE next[Skipped(s)]
          BY DEF TakeNext
    <1>2. CASE Head(s.queue).state = "uploaded"
      <2>1. ready = TRUE
            BY <1>2 DEF TextureFor
      <2>2. QED  BY <1>1, <2>1
    <1>3. CASE Head(s.queue).state # "uploaded"
          BY <1>1, <1>3
    <1>4. QED  BY <1>2, <1>3

Results == [Surfaces -> SUBSET Outcomes]

LEMMA TakeNextType ==
    ASSUME NEW s \in Surfaces, s.queue # <<>>, NEW next \in Results
    PROVE  TakeNext(s, next) \in SUBSET Outcomes
    <1>1. ASSUME NEW r \in TakeNext(s, next) PROVE r \in Outcomes
      <2>1. Skipped(s) \in Surfaces
            BY SkippedEvolves
      <2>2. next[Skipped(s)] \in SUBSET Outcomes
            BY <2>1 DEF Results
      <2>3. CASE r \in Shown(s)
            BY <2>3, ShownEvolves
      <2>4. CASE r \in next[Skipped(s)]
            BY <2>2, <2>4
      <2>5. QED  BY <1>1, <2>3, <2>4, TakeNextCases
    <1>2. QED  BY <1>1

\* The loop over the queue, as its definition unfolds.
LEMMA StartNextsDef ==
    /\ StartNexts \in [Nat -> Results]
    /\ \A s \in Surfaces : StartNexts[0][s] = {Failed(s)}
    /\ \A n \in Nat \ {0}, s \in Surfaces :
         StartNexts[n][s] = IF s.queue = <<>> THEN {Failed(s)} ELSE TakeNext(s, StartNexts[n - 1])
    <1> DEFINE Base == [s \in Surfaces |-> {Failed(s)}]
               Again(next) == [s \in Surfaces |-> IF s.queue = <<>> THEN {Failed(s)} ELSE TakeNext(s, next)]
               Step == [next \in Results |-> Again(next)]
    <1>1. Base \in Results
          BY OutcomeType DEF Results
    <1>2. Step \in [Results -> Results]
      <2>1. ASSUME NEW next \in Results PROVE Again(next) \in Results
        <3>1. ASSUME NEW s \in Surfaces
              PROVE  (IF s.queue = <<>> THEN {Failed(s)} ELSE TakeNext(s, next)) \in SUBSET Outcomes
              BY OutcomeType, TakeNextType
        <3>2. QED  BY <3>1 DEF Results
      <2> HIDE DEF Again
      <2>2. QED  BY <2>1
    <1> HIDE DEF Base, Step
    <1>3. PICK f \in [Nat -> Results] : f = [n \in Nat |-> IF n = 0 THEN Base ELSE Step[f[n - 1]]]
          BY <1>1, <1>2, IterationExists
    <1>4. \A n \in Nat : (IF n = 0 THEN Base ELSE Step[f[n - 1]])
                          = (IF n = 0 THEN Base ELSE Again(f[n - 1]))
      <2> HIDE DEF Again
      <2>1. ASSUME NEW n \in Nat, n # 0 PROVE Step[f[n - 1]] = Again(f[n - 1])
        <3>1. n - 1 \in Nat
              BY <2>1
        <3>2. f[n - 1] \in Results
              BY <3>1
        <3>3. QED  BY <3>2 DEF Step
      <2>2. QED  BY <2>1
    <1>5. f = [n \in Nat |-> IF n = 0 THEN Base ELSE Again(f[n - 1])]
          BY <1>3, <1>4
    <1>6. f = [n \in Nat |->
                IF n = 0 THEN [s \in Surfaces |-> {Failed(s)}]
                ELSE [s \in Surfaces |-> IF s.queue = <<>> THEN {Failed(s)} ELSE TakeNext(s, f[n - 1])]]
          BY <1>5 DEF Base
    <1>7. StartNexts = [n \in Nat |->
                IF n = 0 THEN [s \in Surfaces |-> {Failed(s)}]
                ELSE [s \in Surfaces |-> IF s.queue = <<>> THEN {Failed(s)}
                                         ELSE TakeNext(s, StartNexts[n - 1])]]
          BY <1>6 DEF StartNexts
    <1>8. \A n \in Nat : StartNexts[n] = IF n = 0 THEN Base ELSE Again(StartNexts[n - 1])
          BY <1>7 DEF Base
    <1>9. StartNexts \in [Nat -> Results]
      <2> DEFINE Other == {n \in Nat : StartNexts[n] \notin Results}
      <2>1. SUFFICES Other = {}
        <3>1. StartNexts = [n \in Nat |-> StartNexts[n]]
              BY <1>7
        <3>2. QED  BY <3>1
      <2>2. SUFFICES ASSUME Other # {} PROVE FALSE
            OBVIOUS
      <2>3. PICK n \in Other : \A m \in Other : n <= m
            BY <2>2, LeastNumber
      <2> HIDE DEF Again
      <2>4. n # 0
            BY <1>1, <1>8, <2>3
      <2>5. n \in Nat /\ n - 1 \in Nat /\ n - 1 \notin Other
            BY <2>3, <2>4
      <2>6. StartNexts[n - 1] \in Results
            BY <2>5
      <2>7. StartNexts[n] = Step[StartNexts[n - 1]]
            BY <1>8, <2>4, <2>5, <2>6 DEF Step
      <2>8. QED  BY <1>2, <2>3, <2>6, <2>7
    <1>10. \A s \in Surfaces : StartNexts[0][s] = {Failed(s)}
          BY <1>8 DEF Base
    <1>11. ASSUME NEW n \in Nat \ {0}, NEW s \in Surfaces
           PROVE  StartNexts[n][s] = IF s.queue = <<>> THEN {Failed(s)} ELSE TakeNext(s, StartNexts[n - 1])
          BY <1>8
    <1>12. QED  BY <1>9, <1>10, <1>11

LEMMA StartNextsEvolve ==
    ASSUME NEW n \in Nat, NEW s \in Surfaces, Coherent(s), AllowsEgl(s), NEW r \in StartNexts[n][s]
    PROVE  Evolves(s, r.surface, 0)
    <1> DEFINE Wrong == {m \in Nat : \E u \in Surfaces : /\ Coherent(u) /\ AllowsEgl(u)
                                                         /\ \E d \in StartNexts[m][u] : ~Evolves(u, d.surface, 0)}
    <1>1. SUFFICES Wrong = {}
          OBVIOUS
    <1>2. SUFFICES ASSUME Wrong # {} PROVE FALSE
          OBVIOUS
    <1>3. PICK m \in Wrong : \A l \in Wrong : m <= l
          BY <1>2, LeastNumber
    <1>4. PICK u \in Surfaces : /\ Coherent(u) /\ AllowsEgl(u)
                                /\ \E d \in StartNexts[m][u] : ~Evolves(u, d.surface, 0)
          BY <1>3
    <1>5. PICK d \in StartNexts[m][u] : ~Evolves(u, d.surface, 0)
          BY <1>4
    <1>6. d # Failed(u)
          BY <1>4, <1>5, OutcomeType, RedrawnMarks, RedrawnEvolves
    <1>7. m \in Nat /\ m # 0 /\ u.queue # <<>> /\ d \in TakeNext(u, StartNexts[m - 1])
      <2>1. m \in Nat /\ m # 0
            BY <1>3, <1>5, <1>6, StartNextsDef
      <2>2. StartNexts[m][u] = IF u.queue = <<>> THEN {Failed(u)} ELSE TakeNext(u, StartNexts[m - 1])
            BY <2>1, StartNextsDef
      <2>3. QED  BY <1>5, <1>6, <2>1, <2>2
    <1>8. CASE d \in Shown(u)
          BY <1>4, <1>5, <1>7, <1>8, ShownEvolves
    <1>9. CASE Head(u.queue).state # "uploaded" /\ d \in StartNexts[m - 1][Skipped(u)]
      <2>1. PICK v \in Surfaces : v = Skipped(u)
            BY <1>7, SkippedEvolves
      <2>2. Evolves(u, v, 0) /\ v.power = u.power
            BY <1>4, <1>7, <1>9, <2>1, SkippedEvolves
      <2>3. Coherent(v) /\ AllowsEgl(v)
            BY <1>4, <2>2 DEF AllowsEgl, Evolves, Progresses
      <2>4. m - 1 \in Nat /\ m - 1 \notin Wrong
            BY <1>3, <1>7
      <2>5. Evolves(v, d.surface, 0)
            BY <1>9, <2>1, <2>3, <2>4
      <2>6. Evolves(u, d.surface, 0 + 0)
            BY <2>2, <2>5, EvolvesTwice
      <2>7. QED  BY <1>5, <2>6
    <1>10. QED  BY <1>7, <1>8, <1>9, TakeNextCases

LEMMA StartNextEvolves ==
    ASSUME NEW s \in Surfaces, NEW r \in StartNext(s)
    PROVE  /\ r \in Outcomes
           /\ Coherent(s) /\ AllowsEgl(s) => Evolves(s, r.surface, 0)
    <1>1. Len(s.queue) \in Nat /\ r \in StartNexts[Len(s.queue)][s]
          BY QueueFields DEF StartNext
    <1>2. r \in Outcomes
          BY <1>1, StartNextsDef DEF Results
    <1>3. QED  BY <1>1, <1>2, StartNextsEvolve

(***************************************************************************)
(* Rendering one output.                                                   *)
(***************************************************************************)
LEMMA RenderOverCases ==
    ASSUME NEW s, NEW next, NEW r \in RenderOver(s, next)
    PROVE  \E n \in StartNext(Settle(s)) :
              \/ n.ok /\ r \in next[n.surface]
              \/ ~n.ok /\ r \in RenderCurrent(n.surface)
    BY DEF RenderOver

LEMMA RenderWithCases ==
    ASSUME NEW s, NEW next, NEW r \in RenderWith(s, next)
    PROVE  \/ ~IsRunning(s) /\ r \in RenderCurrent(s)
           \/ IsRunning(s) /\ ~AllowsEgl(s) /\ r = Done(DeferRender(s))
           \/ IsRunning(s) /\ AllowsEgl(s) /\ ~IsFinished(s) /\ r \in DrawTransition(s)
           \/ IsRunning(s) /\ AllowsEgl(s) /\ IsFinished(s) /\ r \in RenderOver(s, next)
    BY DEF RenderWith

LEMMA RenderWithType ==
    ASSUME NEW s \in Surfaces, NEW next \in Results
    PROVE  RenderWith(s, next) \in SUBSET Outcomes
    <1>1. ASSUME NEW r \in RenderOver(s, next) PROVE r \in Outcomes
      <2>1. PICK n \in StartNext(Settle(s)) : \/ n.ok /\ r \in next[n.surface]
                                              \/ ~n.ok /\ r \in RenderCurrent(n.surface)
            BY RenderOverCases
      <2>2. n.surface \in Surfaces
            BY SettleEvolves, StartNextEvolves, OutcomeFields
      <2>3. next[n.surface] \in SUBSET Outcomes
            BY <2>2 DEF Results
      <2>4. QED  BY <2>1, <2>2, <2>3, RendersRedraw
    <1>2. Done(DeferRender(s)) \in Outcomes
          BY OutcomeType, RedrawnMarks DEF Redrawn
    <1>3. ASSUME NEW r \in RenderWith(s, next) PROVE r \in Outcomes
          BY <1>1, <1>2, RenderWithCases, RendersRedraw
    <1>4. QED  BY <1>3

LEMMA RenderActivesDef ==
    /\ RenderActives \in [Nat -> Results]
    /\ \A s \in Surfaces : RenderActives[0][s] = RenderWith(s, [t \in Surfaces |-> RenderCurrent(t)])
    /\ \A n \in Nat \ {0}, s \in Surfaces : RenderActives[n][s] = RenderWith(s, RenderActives[n - 1])
    <1> DEFINE Again(next) == [s \in Surfaces |-> RenderWith(s, next)]
               Current == [t \in Surfaces |-> RenderCurrent(t)]
               Base == Again(Current)
               Step == [next \in Results |-> Again(next)]
    <1>1. \A next \in Results : Again(next) \in Results
          BY RenderWithType DEF Results
    <1>2. Current \in Results
      <2>1. \A t \in Surfaces : RenderCurrent(t) \in SUBSET Outcomes
            BY RendersRedraw
      <2>2. QED  BY <2>1 DEF Results
    <1> HIDE DEF Current
    <1>3. Base \in Results
          BY <1>1, <1>2
    <1>4. Step \in [Results -> Results]
      <2> HIDE DEF Again
      <2>1. QED  BY <1>1
    <1> HIDE DEF Base, Step
    <1>5. PICK f \in [Nat -> Results] : f = [n \in Nat |-> IF n = 0 THEN Base ELSE Step[f[n - 1]]]
          BY <1>3, <1>4, IterationExists
    <1>6. \A n \in Nat : (IF n = 0 THEN Base ELSE Step[f[n - 1]])
                          = (IF n = 0 THEN Base ELSE Again(f[n - 1]))
      <2> HIDE DEF Again
      <2>1. ASSUME NEW n \in Nat, n # 0 PROVE Step[f[n - 1]] = Again(f[n - 1])
        <3>1. n - 1 \in Nat
              BY <2>1
        <3>2. f[n - 1] \in Results
              BY <3>1
        <3>3. QED  BY <3>2 DEF Step
      <2>2. QED  BY <2>1
    <1>7. f = [n \in Nat |-> IF n = 0 THEN Base ELSE Again(f[n - 1])]
          BY <1>5, <1>6
    <1>8. RenderActives = [n \in Nat |-> IF n = 0 THEN Base ELSE Again(RenderActives[n - 1])]
      <2>1. f = [n \in Nat |->
                   IF n = 0 THEN [s \in Surfaces |-> RenderWith(s, [t \in Surfaces |-> RenderCurrent(t)])]
                   ELSE [s \in Surfaces |-> RenderWith(s, f[n - 1])]]
            BY <1>7 DEF Base, Current
      <2>2. RenderActives = [n \in Nat |->
                   IF n = 0 THEN [s \in Surfaces |-> RenderWith(s, [t \in Surfaces |-> RenderCurrent(t)])]
                   ELSE [s \in Surfaces |-> RenderWith(s, RenderActives[n - 1])]]
            BY <2>1 DEF RenderActives
      <2>3. QED  BY <2>2 DEF Base, Current
    <1>9. \A n \in Nat : RenderActives[n] = IF n = 0 THEN Base ELSE Again(RenderActives[n - 1])
          BY <1>8
    <1>10. RenderActives \in [Nat -> Results]
      <2> DEFINE Other == {n \in Nat : RenderActives[n] \notin Results}
      <2>1. SUFFICES Other = {}
        <3>1. RenderActives = [n \in Nat |-> RenderActives[n]]
              BY <1>8
        <3>2. QED  BY <3>1
      <2>2. SUFFICES ASSUME Other # {} PROVE FALSE
            OBVIOUS
      <2>3. PICK n \in Other : \A m \in Other : n <= m
            BY <2>2, LeastNumber
      <2> HIDE DEF Again
      <2>4. n # 0
            BY <1>3, <1>9, <2>3
      <2>5. n \in Nat /\ n - 1 \in Nat /\ n - 1 \notin Other
            BY <2>3, <2>4
      <2>6. QED  BY <1>1, <1>9, <2>3, <2>4, <2>5
    <1>11. \A s \in Surfaces : RenderActives[0][s] = RenderWith(s, [t \in Surfaces |-> RenderCurrent(t)])
          BY <1>9 DEF Base, Current
    <1>12. \A n \in Nat \ {0}, s \in Surfaces : RenderActives[n][s] = RenderWith(s, RenderActives[n - 1])
          BY <1>9
    <1>13. QED  BY <1>10, <1>11, <1>12

LEMMA RenderWithEvolves ==
    ASSUME NEW s \in Surfaces, Coherent(s), NEW next \in Results,
           \A u \in Surfaces : Coherent(u) => \A d \in next[u] : Evolves(u, d.surface, 0),
           NEW r \in RenderWith(s, next)
    PROVE  Evolves(s, r.surface, 0)
    <1>1. CASE Redrawn(s, r.surface)
          BY <1>1, RedrawnEvolves
    <1>2. CASE AllowsEgl(s) /\ r \in RenderOver(s, next)
      <2>1. PICK n \in StartNext(Settle(s)) : \/ n.ok /\ r \in next[n.surface]
                                              \/ ~n.ok /\ r \in RenderCurrent(n.surface)
            BY <1>2, RenderOverCases
      <2>2. PICK u \in Surfaces : u = Settle(s)
            BY SettleEvolves
      <2>3. Evolves(s, u, 0) /\ Coherent(u) /\ AllowsEgl(u)
            BY <1>2, <2>2, SettleEvolves DEF Evolves, Progresses, AllowsEgl
      <2>4. PICK v \in Surfaces : v = n.surface
            BY <2>1, <2>2, StartNextEvolves, OutcomeFields
      <2>5. Evolves(u, v, 0) /\ Coherent(v)
            BY <2>1, <2>2, <2>3, <2>4, StartNextEvolves DEF Evolves, Progresses
      <2>6. Evolves(v, r.surface, 0)
        <3>1. CASE r \in next[v]
              BY <2>5, <3>1
        <3>2. CASE r \in RenderCurrent(v)
              BY <2>5, <3>2, RendersRedraw, RedrawnEvolves
        <3>3. QED  BY <2>1, <2>4, <3>1, <3>2
      <2>7. Evolves(s, v, 0 + 0)
            BY <2>3, <2>5, EvolvesTwice
      <2>8. Evolves(s, r.surface, 0 + 0)
            BY <2>6, <2>7, EvolvesTwice
      <2>9. QED  BY <2>8
    <1>3. CASE r = Done(DeferRender(s))
          BY <1>3, RedrawnMarks, RedrawnEvolves, OutcomeType DEF Redrawn
    <1>4. QED  BY <1>1, <1>2, <1>3, RenderWithCases, RendersRedraw

LEMMA RenderActivesEvolve ==
    ASSUME NEW n \in Nat, NEW s \in Surfaces, Coherent(s), NEW r \in RenderActives[n][s]
    PROVE  Evolves(s, r.surface, 0)
    <1> DEFINE Wrong == {m \in Nat : \E u \in Surfaces : /\ Coherent(u)
                                                         /\ \E d \in RenderActives[m][u] : ~Evolves(u, d.surface, 0)}
    <1>1. SUFFICES Wrong = {}
          OBVIOUS
    <1>2. SUFFICES ASSUME Wrong # {} PROVE FALSE
          OBVIOUS
    <1>3. PICK m \in Wrong : \A l \in Wrong : m <= l
          BY <1>2, LeastNumber
    <1>4. PICK u \in Surfaces : /\ Coherent(u)
                                /\ \E d \in RenderActives[m][u] : ~Evolves(u, d.surface, 0)
          BY <1>3
    <1>5. PICK d \in RenderActives[m][u] : ~Evolves(u, d.surface, 0)
          BY <1>4
    <1>6. CASE m = 0
      <2>1. PICK next : next = [t \in Surfaces |-> RenderCurrent(t)]
            OBVIOUS
      <2>2. next \in Results
        <3>1. \A t \in Surfaces : RenderCurrent(t) \in SUBSET Outcomes
              BY RendersRedraw
        <3>2. QED  BY <2>1, <3>1 DEF Results
      <2>3. d \in RenderWith(u, next)
            BY <1>5, <1>6, <2>1, RenderActivesDef
      <2>4. \A t \in Surfaces : Coherent(t) => \A e \in next[t] : Evolves(t, e.surface, 0)
            BY <2>1, RendersRedraw, RedrawnEvolves
      <2>5. QED  BY <1>4, <1>5, <2>2, <2>3, <2>4, RenderWithEvolves
    <1>7. CASE m # 0
      <2>1. m \in Nat \ {0} /\ m - 1 \in Nat /\ m - 1 \notin Wrong
            BY <1>3, <1>7
      <2>2. PICK next \in Results : next = RenderActives[m - 1]
            BY <2>1, RenderActivesDef
      <2>3. d \in RenderWith(u, next)
            BY <1>5, <2>1, <2>2, RenderActivesDef
      <2>4. \A t \in Surfaces : Coherent(t) => \A e \in next[t] : Evolves(t, e.surface, 0)
            BY <2>1, <2>2
      <2>5. QED  BY <1>4, <1>5, <2>3, <2>4, RenderWithEvolves
    <1>8. QED  BY <1>6, <1>7

LEMMA RenderActiveEvolves ==
    ASSUME NEW s \in Surfaces, NEW r \in RenderActive(s)
    PROVE  /\ r \in Outcomes
           /\ Coherent(s) => Evolves(s, r.surface, 0)
    <1>1. Len(s.queue) \in Nat /\ r \in RenderActives[Len(s.queue)][s]
          BY QueueFields DEF RenderActive
    <1>2. r \in Outcomes
          BY <1>1, RenderActivesDef DEF Results
    <1>3. QED  BY <1>1, <1>2, RenderActivesEvolve

(***************************************************************************)
(* Uploads ahead, and the target of a canvas.                              *)
(***************************************************************************)
LEMMA UploadNeedsPower ==
    ASSUME NEW s
    PROVE  /\ Uploads(s) \in SUBSET BOOLEAN /\ LoadsAndUploads(s) \in SUBSET BOOLEAN
           /\ TRUE \in LoadsAndUploads(s) => AllowsEgl(s) /\ s.egl # 0
           /\ TRUE \in Uploads(s) => AllowsEgl(s) /\ s.egl # 0
    BY DEF Uploads, LoadsAndUploads, CanUpload, May

LEMMA UploadOneEvolves ==
    ASSUME NEW s \in Surfaces, NEW t \in UploadOne(s)
    PROVE  /\ t \in Surfaces /\ t.power = s.power /\ t.active = s.active /\ t.wall = s.wall
           /\ t.image = s.image /\ t.egl = s.egl /\ t.size = s.size /\ t.shown = s.shown
           /\ t.pending = s.pending /\ t.frame = s.frame /\ t.sent = s.sent
           /\ Len(t.queue) = Len(s.queue)
           /\ \A i \in 1 .. Len(s.queue) : Later(s.queue[i], t.queue[i])
           /\ Coherent(s) => Evolves(s, t, 0)
    <1>1. CASE t = s
      <2>1. Coherent(s) => Evolves(s, t, 0)
            BY <1>1, RedrawnMarks, RedrawnEvolves
      <2>2. QED  BY <1>1, <2>1 DEF Later
    <1>2. CASE t # s
      <2>1. AllowsEgl(s) /\ FirstDecoded(s) # {}
            BY <1>2 DEF UploadOne
      <2> DEFINE After(ok) == [i \in DOMAIN s.queue |->
                        IF i \in FirstDecoded(s)
                        THEN [s.queue[i] EXCEPT !.state = IF ok THEN "uploaded" ELSE "failed"]
                        ELSE s.queue[i]]
      <2>2. PICK ok \in Uploads(s) : t = [s EXCEPT !.queue = After(ok), !.textures = IF ok THEN @ + 1 ELSE @]
            BY <1>2 DEF UploadOne
      <2>3. Len(s.queue) \in Nat /\ DOMAIN s.queue = 1 .. Len(s.queue) /\ s.queue \in Seq(Queued)
            /\ \A i \in 1 .. Len(s.queue) : s.queue[i] \in Queued
            BY QueueFields, SurfaceFields
      <2>4. PICK k : k \in FirstDecoded(s)
            BY <2>1
      <2>5. k \in 1 .. Len(s.queue) /\ s.queue[k].state = "decoded"
            BY <2>3, <2>4 DEF FirstDecoded
      <2>6. \A i \in FirstDecoded(s) : i = k
        <3>1. ASSUME NEW i \in FirstDecoded(s) PROVE i = k
          <4>1. i \in 1 .. Len(s.queue) /\ s.queue[i].state = "decoded"
                /\ \A j \in 1 .. (i - 1) : s.queue[j].state # "decoded"
                BY <2>3, <3>1 DEF FirstDecoded
          <4>2. \A j \in 1 .. (k - 1) : s.queue[j].state # "decoded"
                BY <2>4 DEF FirstDecoded
          <4>3. ~(k < i) /\ ~(i < k)
                BY <2>3, <2>5, <4>1, <4>2
          <4>4. QED  BY <2>3, <2>5, <4>1, <4>3
        <3>2. QED  BY <3>1
      <2>7. ok \in BOOLEAN
            BY UploadNeedsPower
      <2>8. PICK new : new = After(ok)
            OBVIOUS
      <2>9. DOMAIN new = 1 .. Len(s.queue) /\ new = [i \in 1 .. Len(s.queue) |-> new[i]]
            /\ new[k] = [s.queue[k] EXCEPT !.state = IF ok THEN "uploaded" ELSE "failed"]
            /\ \A i \in 1 .. Len(s.queue) : i # k => new[i] = s.queue[i]
            BY <2>3, <2>4, <2>5, <2>6, <2>8
      <2>10. s.queue[k] \in Queued
            BY <2>3, <2>5
      <2>11. new[k] \in Queued /\ Later(s.queue[k], new[k]) /\ new[k].aux = s.queue[k].aux
             /\ new[k].state = IF ok THEN "uploaded" ELSE "failed"
            BY <2>5, <2>9, <2>10 DEF Queued, Later
      <2>12. \A i \in 1 .. Len(s.queue) : new[i] \in Queued /\ Later(s.queue[i], new[i])
            BY <2>3, <2>9, <2>11 DEF Later
      <2>13. new \in Seq(Queued) /\ Len(new) = Len(s.queue)
        <3>1. new \in [1 .. Len(s.queue) -> Queued]
              BY <2>9, <2>12
        <3>2. QED  BY <2>3, <3>1, FunctionIsSeq
      <2>14. PICK m \in Int : m = IF ok THEN s.textures + 1 ELSE s.textures
        <3>1. s.textures \in Int
              BY SurfaceFields
        <3>2. QED  BY <3>1
      <2>15. t = [s EXCEPT !.queue = new, !.textures = m]
            BY <2>2, <2>8, <2>14
      <2>16. /\ t \in Surfaces /\ t.power = s.power /\ t.active = s.active /\ t.wall = s.wall
             /\ t.image = s.image /\ t.egl = s.egl /\ t.size = s.size /\ t.shown = s.shown
             /\ t.pending = s.pending /\ t.frame = s.frame /\ t.sent = s.sent
             /\ t.queue = new /\ t.textures = m
            BY <2>13, <2>15 DEF Surfaces
      <2>17. ASSUME Coherent(s) PROVE Evolves(s, t, 0)
        <3>1. Coherent(t)
          <4>1. \A i \in 1 .. Len(t.queue) : /\ t.queue[i].content \in {NoImage, t.queue[i].image}
                                             /\ t.queue[i].kind = "canvas" => t.queue[i].aux = 0
                BY <2>12, <2>13, <2>16, <2>17 DEF Coherent, Later
          <4>2. QED  BY <2>16, <2>17, <4>1 DEF Coherent
        <3>2. PICK x \in Int, y \in Int : x = TexturesIn(s.queue) /\ y = TexturesIn(new)
              BY <2>3, <2>13, TexturesInType
        <3>3. y = x + (m - s.textures)
          <4>1. s.textures \in Int
                BY SurfaceFields
          <4>2. CASE ok
            <5>1. y = x + 1
                  BY <2>3, <2>5, <2>9, <2>11, <2>13, <3>2, <4>2, TexturesInUploaded
            <5>2. QED  BY <2>14, <4>1, <4>2, <5>1
          <4>3. CASE ~ok
            <5>1. new[k].state = "failed"
                  BY <2>11, <4>3
            <5>2. \A i \in 1 .. Len(s.queue) : /\ new[i].aux = s.queue[i].aux
                                               /\ new[i].state = "uploaded" <=> s.queue[i].state = "uploaded"
                  BY <2>5, <2>9, <2>11, <5>1
            <5>3. y = x
                  BY <2>3, <2>13, <3>2, <5>2, TexturesInSame
            <5>4. QED  BY <2>14, <4>1, <4>3, <5>3
          <4>4. QED  BY <2>7, <4>2, <4>3
        <3>4. Surplus(t) = Surplus(s) - 0
          <4>1. s.textures \in Int /\ Texture(s.wall) \in Int /\ s.active.aux \in Int
                /\ Texture(s.active.old) \in Int /\ Texture(s.active.new) \in Int
                BY SurfaceFields, SurplusType, ActiveFields
          <4>2. PICK z \in Int, w \in Int : z = s.textures /\ w = Texture(s.wall) + Texture(s.active.old)
                                               + Texture(s.active.new) + s.active.aux
                BY <4>1
          <4>3. Surplus(s) = z - (w + x) /\ Surplus(t) = m - (w + y)
                BY <2>16, <3>2, <4>1, <4>2 DEF Surplus, Owned
          <4>4. QED  BY <3>3, <4>2, <4>3
        <3>5. Untouched(s, t) /\ KeepsDecode(s, t)
              BY <2>1, <2>16 DEF Untouched, KeepsDecode
        <3>6. Behind(s, t)
          <4>1. Drained(s, t, 0)
                BY <2>3, <2>12, <2>13, <2>16 DEF Drained
          <4>2. QED  BY <2>3, <4>1 DEF Behind
        <3>7. QED  BY <2>16, <3>1, <3>4, <3>5, <3>6 DEF Evolves, Progresses
      <2>18. QED  BY <2>12, <2>13, <2>16, <2>17
    <1>3. QED  BY <1>1, <1>2

LEMMA AcceptTargetEvolves ==
    ASSUME NEW s \in Surfaces, NEW job \in Jobs, NEW ok \in BOOLEAN, NEW r \in AcceptTarget(s, job, ok),
           IsRunning(s)
    PROVE  /\ r \in Outcomes
           /\ Coherent(s) /\ s.active.decode # 0 /\ s.active.target = job.image => Evolves(s, r.surface, 0)
    <1>1. CASE r = Failed(RestoreOld(s))
          BY <1>1, RestoreOldEvolves, OutcomeType
    <1>2. CASE r # Failed(RestoreOld(s))
      <2>1. job.image \in Images
            BY DEF Jobs
      <2>2. PICK a : a = [s.active EXCEPT !.new = job.image, !.decode = 0, !.elapsed = FALSE]
            OBVIOUS
      <2>3. s.active \in Active
            BY SurfaceFields DEF IsRunning
      <2>4. a \in Active /\ a.new = job.image /\ a.decode = 0 /\ a.old = s.active.old /\ a.aux = s.active.aux
            /\ a.target = s.active.target
            BY <2>1, <2>2, <2>3 DEF Active, Pictures
      <2>5. PICK m \in Int : m = s.textures + 1
        <3>1. s.textures \in Int
              BY SurfaceFields
        <3>2. QED  BY <3>1
      <2>6. PICK t : t = [s EXCEPT !.active.new = job.image, !.active.decode = 0,
                                   !.active.elapsed = FALSE, !.textures = @ + 1]
            OBVIOUS
      <2>7. r = Done(t) /\ TRUE \in Uploads(s)
            BY <1>2, <2>6 DEF AcceptTarget
      <2>8. t = [s EXCEPT !.active = a, !.textures = m]
            BY <2>2, <2>5, <2>6 DEF Surfaces
      <2>9. /\ t \in Surfaces /\ t.active = a /\ t.textures = m /\ t.wall = s.wall /\ t.queue = s.queue
            /\ t.power = s.power /\ t.egl = s.egl /\ t.shown = s.shown /\ t.sent = s.sent
            BY <2>4, <2>8 DEF Surfaces
      <2>10. r \in Outcomes /\ r.surface = t
            BY <2>7, <2>9, OutcomeType
      <2>11. ASSUME Coherent(s), s.active.decode # 0, s.active.target = job.image PROVE Evolves(s, t, 0)
        <3>1. Coherent(t)
              BY <2>4, <2>9, <2>11 DEF Coherent, IsRunning
        <3>2. Surplus(t) = Surplus(s) - 0
          <4>1. s.textures \in Int /\ Texture(s.wall) \in Int /\ s.active.aux \in Int
                /\ Texture(s.active.old) \in Int /\ TexturesIn(s.queue) \in Int
                BY SurfaceFields, SurplusType, ActiveFields, QueueFields
          <4>2. PICK z \in Int, w \in Int, x \in Int : /\ z = s.textures /\ x = TexturesIn(s.queue)
                    /\ w = Texture(s.wall) + Texture(s.active.old)
                BY <4>1
          <4>3. Texture(s.active.new) = 0 /\ Texture(a.new) = 1
                BY <2>1, <2>4, <2>11, OutputSurfaceAssumption DEF Coherent, Texture
          <4>4. PICK y \in Int : y = s.active.aux
                BY <4>1
          <4>5. Surplus(s) = z - (w + 0 + y + x)
                BY <4>2, <4>3, <4>4 DEF Surplus, Owned
          <4>6. Surplus(t) = m - (w + 1 + y + x)
                BY <2>4, <2>9, <4>2, <4>3, <4>4 DEF Surplus, Owned
          <4>7. QED  BY <2>5, <4>2, <4>5, <4>6
        <3>3. Untouched(s, t)
              BY <2>7, <2>9, UploadNeedsPower DEF Untouched
        <3>4. Behind(s, t)
              BY <2>9, BehindSame
        <3>5. KeepsDecode(s, t)
              BY <2>4, <2>9 DEF KeepsDecode
        <3>6. QED  BY <2>9, <3>1, <3>2, <3>3, <3>4, <3>5 DEF Evolves, Progresses
      <2>12. QED  BY <2>10, <2>11
    <1>3. QED  BY <1>1, <1>2

(***************************************************************************)
(* Ids, jobs and the walls that wait for them.  S gives the surface of     *)
(* each output, Q the jobs that are out or about to be sent.               *)
(***************************************************************************)
Surfacing(S) == \A o \in DOMAIN S : S[o] \in Surfaces

\* An id belongs to one queued wall, or to one that is being shown.
Distinct(S) ==
    /\ \A o, p \in DOMAIN S : \A i \in 1 .. Len(S[o].queue), k \in 1 .. Len(S[p].queue) :
         S[o].queue[i].id = S[p].queue[k].id => o = p /\ i = k
    /\ \A o, p \in DOMAIN S : \A i \in 1 .. Len(S[o].queue) : S[p].active.decode # S[o].queue[i].id

\* A job is for the wall with its id, which still waits for it.
Answering(S, Q) ==
    /\ Q \subseteq Jobs
    /\ \A j \in Q, o \in DOMAIN S :
         /\ \A i \in 1 .. Len(S[o].queue) : S[o].queue[i].id = j.id =>
              S[o].queue[i].state = "decoding" /\ S[o].queue[i].image = j.image
         /\ S[o].active.decode = j.id => S[o].active.target = j.image
    /\ \A j, k \in Q : j.id = k.id => j = k

Aligned(S, Q) == Distinct(S) /\ Answering(S, Q)

\* An id that nothing has.
Unused(S, Q, n) ==
    /\ n \in Nat \ {0}
    /\ \A j \in Q : j.id # n
    /\ \A o \in DOMAIN S : /\ \A i \in 1 .. Len(S[o].queue) : S[o].queue[i].id # n
                           /\ S[o].active.decode # n

\* The jobs that are sent by then.
Sending(S) == UNION {S[o].sent : o \in DOMAIN S}

LEMMA JobFields ==
    ASSUME NEW j \in Jobs
    PROVE  j.id \in Nat \ {0} /\ j.image \in Images /\ j = [id |-> j.id, image |-> j.image]
    BY DEF Jobs

\* How many walls were taken from the queue of each output.
LEMMA TakenCounts ==
    ASSUME NEW S, NEW T, DOMAIN T = DOMAIN S, \A o \in DOMAIN S : Behind(S[o], T[o])
    PROVE  \E k : \A o \in DOMAIN S : k[o] \in 0 .. Len(S[o].queue) /\ Drained(S[o], T[o], k[o])
    <1> DEFINE k == [o \in DOMAIN S |-> CHOOSE n \in 0 .. Len(S[o].queue) : Drained(S[o], T[o], n)]
    <1>1. ASSUME NEW o \in DOMAIN S
          PROVE  k[o] \in 0 .. Len(S[o].queue) /\ Drained(S[o], T[o], k[o])
      <2>1. PICK n \in 0 .. Len(S[o].queue) : Drained(S[o], T[o], n)
            BY DEF Behind
      <2>2. k[o] = CHOOSE m \in 0 .. Len(S[o].queue) : Drained(S[o], T[o], m)
            OBVIOUS
      <2>3. QED  BY <2>1, <2>2
    <1>2. QED  BY <1>1

\* Where a wall that waits on an output was before.
LEMMA WasBehind ==
    ASSUME NEW s \in Surfaces, NEW t \in Surfaces, NEW k \in 0 .. Len(s.queue), Drained(s, t, k),
           NEW i \in 1 .. Len(t.queue)
    PROVE  /\ i + k \in 1 .. Len(s.queue) /\ Later(s.queue[i + k], t.queue[i])
           /\ t.queue[i].id = s.queue[i + k].id /\ t.queue[i].image = s.queue[i + k].image
           /\ s.queue[i + k].state = "decoding" => t.queue[i].state = "decoding"
    <1>1. Len(s.queue) \in Nat /\ Len(t.queue) \in Nat /\ Len(t.queue) = Len(s.queue) - k
          BY QueueFields DEF Drained
    <1>2. i + k \in 1 .. Len(s.queue)
          BY <1>1
    <1>3. QED  BY <1>2 DEF Drained, Later

\* Walls that are taken, decoded ahead or replaced leave the others aligned.
LEMMA AlignedBehind ==
    ASSUME NEW S, NEW T, NEW Q, NEW R, Surfacing(S), Surfacing(T), DOMAIN T = DOMAIN S, Aligned(S, Q),
           \A o \in DOMAIN S : Behind(S[o], T[o]) /\ KeepsDecode(S[o], T[o]) /\ S[o].sent \subseteq Q,
           R \subseteq Q \cup Sending(T)
    PROVE  Aligned(T, R) /\ \A n : Unused(S, Q, n) => Unused(T, R, n)
    <1>0. PICK k : \A o \in DOMAIN S : k[o] \in 0 .. Len(S[o].queue) /\ Drained(S[o], T[o], k[o])
          BY TakenCounts
    <1>1. ASSUME NEW o \in DOMAIN S
          PROVE  S[o] \in Surfaces /\ T[o] \in Surfaces /\ k[o] \in Int
                 /\ Len(S[o].queue) \in Nat /\ Len(T[o].queue) \in Nat
      <2>1. S[o] \in Surfaces /\ T[o] \in Surfaces
            BY DEF Surfacing
      <2>2. QED  BY <2>1, <1>0, QueueFields
    <1>2. ASSUME NEW o \in DOMAIN S, NEW i \in 1 .. Len(T[o].queue)
          PROVE  /\ \E a \in 1 .. Len(S[o].queue) :
                      /\ a = i + k[o] /\ S[o].queue[a].id = T[o].queue[i].id
                      /\ S[o].queue[a].image = T[o].queue[i].image
                      /\ S[o].queue[a].state = "decoding" => T[o].queue[i].state = "decoding"
                 /\ T[o].queue[i].id \in Nat \ {0}
      <2>1. T[o].queue[i].id \in Nat \ {0}
        <3>1. T[o].queue[i] \in Queued
              BY <1>1, QueueFields
        <3>2. QED  BY <3>1, QueuedFields
      <2>2. /\ i + k[o] \in 1 .. Len(S[o].queue)
            /\ T[o].queue[i].id = S[o].queue[i + k[o]].id
            /\ T[o].queue[i].image = S[o].queue[i + k[o]].image
            /\ S[o].queue[i + k[o]].state = "decoding" => T[o].queue[i].state = "decoding"
            BY <1>0, <1>1, WasBehind
      <2>3. QED  BY <2>1, <2>2
    <1>2a. ASSUME NEW o \in DOMAIN S, NEW n, n # 0, T[o].active.decode = n
           PROVE  S[o].active.decode = n /\ T[o].active.target = S[o].active.target
      <2>1. KeepsDecode(S[o], T[o])
            OBVIOUS
      <2>2. QED  BY <2>1, <1>2a DEF KeepsDecode
    <1>3. Distinct(T)
      <2>1. ASSUME NEW o \in DOMAIN S, NEW p \in DOMAIN S, NEW i \in 1 .. Len(T[o].queue),
                   NEW m \in 1 .. Len(T[p].queue), T[o].queue[i].id = T[p].queue[m].id
            PROVE  o = p /\ i = m
        <3>a. PICK a \in 1 .. Len(S[o].queue) : a = i + k[o] /\ S[o].queue[a].id = T[o].queue[i].id
              BY <1>2
        <3>b. PICK b \in 1 .. Len(S[p].queue) : b = m + k[p] /\ S[p].queue[b].id = T[p].queue[m].id
              BY <1>2
        <3>1. o = p /\ a = b
              BY <2>1, <3>a, <3>b DEF Aligned, Distinct
        <3>2. i \in Int /\ m \in Int /\ k[o] \in Int
              BY <1>1
        <3>3. i + k[o] = m + k[o]
              BY <3>1, <3>a, <3>b
        <3>4. PICK u \in Int : u = k[o]
              BY <3>2
        <3>5. i = m
              BY <3>2, <3>3, <3>4
        <3>6. QED  BY <3>1, <3>5
      <2>2. ASSUME NEW o \in DOMAIN S, NEW p \in DOMAIN S, NEW i \in 1 .. Len(T[o].queue)
            PROVE  T[p].active.decode # T[o].queue[i].id
        <3>1. T[o].queue[i].id # 0
              BY <1>2
        <3>2. S[p].active.decode # T[o].queue[i].id
              BY <1>2 DEF Aligned, Distinct
        <3>3. QED  BY <3>1, <3>2, <1>2a
      <2>3. QED  BY <2>1, <2>2 DEF Distinct
    \* A job that is new comes from a wall that had not asked for it.
    <1>4. ASSUME NEW j \in R, j \notin Q
          PROVE  j \in Jobs /\ \E o \in DOMAIN S : \E i \in 1 .. Len(S[o].queue) :
                   /\ S[o].queue[i].state = "path" /\ S[o].queue[i].id = j.id /\ S[o].queue[i].image = j.image
                   /\ i > k[o] => T[o].queue[i - k[o]].state = "decoding"
      <2>1. PICK o \in DOMAIN S : j \in T[o].sent \ S[o].sent
            BY <1>4 DEF Sending
      <2>2. j \in Jobs
            BY <2>1, <1>1, SurfaceFields
      <2>3. QED  BY <2>1, <2>2, <1>0 DEF Drained
    <1>5. R \subseteq Jobs
          BY <1>4 DEF Aligned, Answering
    <1>6. ASSUME NEW j \in R, NEW o \in DOMAIN S
          PROVE  /\ \A i \in 1 .. Len(T[o].queue) : T[o].queue[i].id = j.id =>
                      T[o].queue[i].state = "decoding" /\ T[o].queue[i].image = j.image
                 /\ T[o].active.decode = j.id => T[o].active.target = j.image
      <2>0. j.id \in Nat \ {0}
            BY <1>5, JobFields
      <2>1. CASE j \in Q
        <3>1. ASSUME NEW i \in 1 .. Len(T[o].queue), T[o].queue[i].id = j.id
              PROVE  T[o].queue[i].state = "decoding" /\ T[o].queue[i].image = j.image
              BY <3>1, <2>1, <1>2 DEF Aligned, Answering
        <3>2. T[o].active.decode = j.id => T[o].active.target = j.image
              BY <2>0, <2>1, <1>2a DEF Aligned, Answering
        <3>3. QED  BY <3>1, <3>2
      <2>2. CASE j \notin Q
        <3>1. PICK p \in DOMAIN S : \E m \in 1 .. Len(S[p].queue) :
                     /\ S[p].queue[m].state = "path" /\ S[p].queue[m].id = j.id /\ S[p].queue[m].image = j.image
                     /\ m > k[p] => T[p].queue[m - k[p]].state = "decoding"
              BY <2>2, <1>4
        <3>1a. PICK m \in 1 .. Len(S[p].queue) :
                     /\ S[p].queue[m].state = "path" /\ S[p].queue[m].id = j.id /\ S[p].queue[m].image = j.image
                     /\ m > k[p] => T[p].queue[m - k[p]].state = "decoding"
              BY <3>1
        <3>2. ASSUME NEW i \in 1 .. Len(T[o].queue), T[o].queue[i].id = j.id
              PROVE  T[o].queue[i].state = "decoding" /\ T[o].queue[i].image = j.image
          <4>0. PICK a \in 1 .. Len(S[o].queue) : a = i + k[o] /\ S[o].queue[a].id = T[o].queue[i].id
                                                  /\ S[o].queue[a].image = T[o].queue[i].image
                BY <1>2
          <4>1. p = o /\ m = a
                BY <3>1a, <3>2, <4>0 DEF Aligned, Distinct
          <4>2. i \in Int /\ i >= 1 /\ k[o] \in Int
                BY <1>1
          <4>3. m > k[o] /\ m - k[o] = i
                BY <4>0, <4>1, <4>2
          <4>4. QED  BY <4>0, <4>1, <4>3, <3>1a
        <3>3. T[o].active.decode # j.id
              BY <2>0, <3>1a, <1>2a DEF Aligned, Distinct
        <3>4. QED  BY <3>2, <3>3
      <2>3. QED  BY <2>1, <2>2
    <1>7. ASSUME NEW j \in R, NEW l \in R, j.id = l.id
          PROVE  j = l
      <2>1. CASE j \in Q /\ l \in Q
            BY <2>1, <1>7 DEF Aligned, Answering
      <2>2. CASE j \in Q /\ l \notin Q
            BY <2>2, <1>7, <1>4 DEF Aligned, Answering
      <2>3. CASE j \notin Q /\ l \in Q
            BY <2>3, <1>7, <1>4 DEF Aligned, Answering
      <2>4. CASE j \notin Q /\ l \notin Q
        <3>1. j.image = l.image
              BY <2>4, <1>7, <1>4 DEF Aligned, Distinct
        <3>2. QED  BY <3>1, <1>7, <1>5, JobFields
      <2>5. QED  BY <2>1, <2>2, <2>3, <2>4
    <1>8. Answering(T, R)
          BY <1>5, <1>6, <1>7 DEF Answering
    <1>9. ASSUME NEW n, Unused(S, Q, n)
          PROVE  Unused(T, R, n)
      <2>1. n \in Nat \ {0}
            BY <1>9 DEF Unused
      <2>2. \A j \in R : j.id # n
            BY <1>9, <1>4 DEF Unused
      <2>3. ASSUME NEW o \in DOMAIN S
            PROVE  /\ \A i \in 1 .. Len(T[o].queue) : T[o].queue[i].id # n
                   /\ T[o].active.decode # n
        <3>1. \A i \in 1 .. Len(T[o].queue) : T[o].queue[i].id # n
              BY <1>9, <1>2 DEF Unused
        <3>2. T[o].active.decode # n
              BY <1>9, <2>1, <1>2a DEF Unused
        <3>3. QED  BY <3>1, <3>2
      <2>4. QED  BY <2>1, <2>2, <2>3 DEF Unused
    <1>10. QED  BY <1>3, <1>8, <1>9 DEF Aligned

\* Fewer outputs, fewer walls or fewer jobs.
LEMMA AlignedLess ==
    ASSUME NEW S, NEW T, NEW Q, NEW R, Surfacing(T), Aligned(S, Q), R \subseteq Q,
           \A o \in DOMAIN T :
             /\ T[o].queue = <<>> \/ (o \in DOMAIN S /\ T[o].queue = S[o].queue)
             /\ T[o].active.decode = 0 \/ (o \in DOMAIN S /\ T[o].active.decode = S[o].active.decode
                                                       /\ T[o].active.target = S[o].active.target)
    PROVE  Aligned(T, R)
    <1>1. ASSUME NEW o \in DOMAIN T, NEW i \in 1 .. Len(T[o].queue)
          PROVE  o \in DOMAIN S /\ T[o].queue = S[o].queue /\ T[o].queue[i].id # 0
      <2>1. T[o].queue # <<>> /\ T[o].queue[i] \in Queued
            BY QueueFields DEF Surfacing
      <2>2. QED  BY <2>1, QueuedFields
    <1>2. R \subseteq Jobs /\ \A j \in R : j.id # 0
          BY JobFields DEF Aligned, Answering
    <1>3. Distinct(T)
      <2>1. ASSUME NEW o \in DOMAIN T, NEW p \in DOMAIN T, NEW i \in 1 .. Len(T[o].queue),
                   NEW k \in 1 .. Len(T[p].queue), T[o].queue[i].id = T[p].queue[k].id
            PROVE  o = p /\ i = k
            BY <2>1, <1>1 DEF Aligned, Distinct
      <2>2. ASSUME NEW o \in DOMAIN T, NEW p \in DOMAIN T, NEW i \in 1 .. Len(T[o].queue)
            PROVE  T[p].active.decode # T[o].queue[i].id
            BY <1>1 DEF Aligned, Distinct
      <2>3. QED  BY <2>1, <2>2 DEF Distinct
    <1>4. ASSUME NEW j \in R, NEW o \in DOMAIN T
          PROVE  /\ \A i \in 1 .. Len(T[o].queue) : T[o].queue[i].id = j.id =>
                      T[o].queue[i].state = "decoding" /\ T[o].queue[i].image = j.image
                 /\ T[o].active.decode = j.id => T[o].active.target = j.image
      <2>1. \A i \in 1 .. Len(T[o].queue) : T[o].queue[i].id = j.id =>
                      T[o].queue[i].state = "decoding" /\ T[o].queue[i].image = j.image
            BY <1>1 DEF Aligned, Answering
      <2>2. T[o].active.decode = j.id => T[o].active.target = j.image
            BY <1>2 DEF Aligned, Answering
      <2>3. QED  BY <2>1, <2>2
    <1>5. \A j, k \in R : j.id = k.id => j = k
          BY DEF Aligned, Answering
    <1>6. QED  BY <1>2, <1>3, <1>4, <1>5 DEF Aligned, Answering

\* A new wall at the end of the queue of some outputs.
Lengthened(S, T, B, q) ==
    /\ DOMAIN T = DOMAIN S
    /\ \A o \in DOMAIN S : /\ T[o].queue = IF o \in B THEN Append(S[o].queue, q[o]) ELSE S[o].queue
                           /\ T[o].active = S[o].active
Novel(S, Q, B, q) ==
    /\ \A o \in B : q[o] \in Queued /\ Unused(S, Q, q[o].id)
    /\ \A o, p \in B : q[o].id = q[p].id => o = p

LEMMA AlignedAppended ==
    ASSUME NEW S, NEW T, NEW Q, NEW B \in SUBSET DOMAIN S, NEW q, Surfacing(S), Aligned(S, Q),
           Lengthened(S, T, B, q), Novel(S, Q, B, q)
    PROVE  Aligned(T, Q)
    <1>0. /\ DOMAIN T = DOMAIN S
          /\ \A o \in DOMAIN S : /\ T[o].queue = IF o \in B THEN Append(S[o].queue, q[o]) ELSE S[o].queue
                                 /\ T[o].active = S[o].active
          /\ \A o \in B : q[o] \in Queued /\ Unused(S, Q, q[o].id)
          /\ \A o, p \in B : q[o].id = q[p].id => o = p
          BY DEF Lengthened, Novel
    <1>1. ASSUME NEW o \in DOMAIN S, NEW i \in 1 .. Len(T[o].queue)
          PROVE  \/ i \in 1 .. Len(S[o].queue) /\ T[o].queue[i] = S[o].queue[i]
                 \/ o \in B /\ i = Len(S[o].queue) + 1 /\ T[o].queue[i] = q[o]
      <2>1. S[o].queue \in Seq(Queued) /\ Len(S[o].queue) \in Nat
            BY <1>0, QueueFields, SurfaceFields DEF Surfacing
      <2>2. CASE o \in B
        <3>1. /\ Len(Append(S[o].queue, q[o])) = Len(S[o].queue) + 1
              /\ \A m \in 1 .. Len(S[o].queue) : Append(S[o].queue, q[o])[m] = S[o].queue[m]
              /\ Append(S[o].queue, q[o])[Len(S[o].queue) + 1] = q[o]
              BY <1>0, <2>1, <2>2, AppendProperties
        <3>2. T[o].queue = Append(S[o].queue, q[o])
              BY <1>0, <2>2
        <3>3. QED  BY <1>0, <2>1, <2>2, <3>1, <3>2
      <2>3. CASE o \notin B
            BY <1>0, <2>3
      <2>4. QED  BY <1>0, <2>2, <2>3
    <1>2. ASSUME NEW o \in B
          PROVE  /\ \A j \in Q : j.id # q[o].id
                 /\ \A p \in DOMAIN S : /\ \A i \in 1 .. Len(S[p].queue) : S[p].queue[i].id # q[o].id
                                        /\ S[p].active.decode # q[o].id
          BY <1>0 DEF Unused
    <1>3. ASSUME NEW o \in DOMAIN S, NEW p \in DOMAIN S, NEW i \in 1 .. Len(T[o].queue),
                 NEW k \in 1 .. Len(T[p].queue), T[o].queue[i].id = T[p].queue[k].id
          PROVE  o = p /\ i = k
      <2>1. CASE i \in 1 .. Len(S[o].queue) /\ T[o].queue[i] = S[o].queue[i]
        <3>1. CASE k \in 1 .. Len(S[p].queue) /\ T[p].queue[k] = S[p].queue[k]
              BY <1>0, <2>1, <3>1, <1>3 DEF Aligned, Distinct
        <3>2. CASE p \in B /\ k = Len(S[p].queue) + 1 /\ T[p].queue[k] = q[p]
              BY <1>0, <2>1, <3>2, <1>3, <1>2
        <3>3. QED  BY <1>0, <3>1, <3>2, <1>1
      <2>2. CASE o \in B /\ i = Len(S[o].queue) + 1 /\ T[o].queue[i] = q[o]
        <3>1. CASE k \in 1 .. Len(S[p].queue) /\ T[p].queue[k] = S[p].queue[k]
              BY <1>0, <2>2, <3>1, <1>3, <1>2
        <3>2. CASE p \in B /\ k = Len(S[p].queue) + 1 /\ T[p].queue[k] = q[p]
              BY <1>0, <2>2, <3>2, <1>3
        <3>3. QED  BY <1>0, <3>1, <3>2, <1>1
      <2>3. QED  BY <1>0, <2>1, <2>2, <1>1
    <1>4. ASSUME NEW o \in DOMAIN S, NEW p \in DOMAIN S, NEW i \in 1 .. Len(T[o].queue)
          PROVE  T[p].active.decode # T[o].queue[i].id
          BY <1>0, <1>1, <1>2 DEF Aligned, Distinct
    <1>5. ASSUME NEW j \in Q, NEW o \in DOMAIN S
          PROVE  /\ \A i \in 1 .. Len(T[o].queue) : T[o].queue[i].id = j.id =>
                      T[o].queue[i].state = "decoding" /\ T[o].queue[i].image = j.image
                 /\ T[o].active.decode = j.id => T[o].active.target = j.image
          BY <1>0, <1>1, <1>2 DEF Aligned, Answering
    <1>6. QED  BY <1>0, <1>3, <1>4, <1>5 DEF Aligned, Distinct, Answering

\* Outputs that start to wait for a job of their own.
JobsOf(B, id, images) == {[id |-> id[o], image |-> images[o]] : o \in B}
Numbered(B, id) == \A o, p \in B : id[o] = id[p] => o = p
Sender(S, T, Q, B, id, images) ==
    /\ B \subseteq DOMAIN S /\ DOMAIN T = DOMAIN S
    /\ \A o \in DOMAIN S : T[o].queue = S[o].queue
    /\ \A o \in DOMAIN S : o \notin B => T[o].active = S[o].active
    /\ \A o \in B : /\ T[o].active.decode # 0 => T[o].active.decode = id[o] /\ T[o].active.target = images[o]
                    /\ Unused(S, Q, id[o]) /\ images[o] \in Images
    /\ Numbered(B, id)
\* What was not in use, and is not an id of theirs, is not in use.
Spares(S, Q, B, id, T, R) ==
    \A n : Unused(S, Q, n) /\ (\A o \in B : id[o] # n) => Unused(T, R, n)

LEMMA AlignedSent ==
    ASSUME NEW S, NEW T, NEW Q, NEW R, NEW B, NEW id, NEW images,
           Surfacing(S), Aligned(S, Q), Sender(S, T, Q, B, id, images),
           R \subseteq Q \cup JobsOf(B, id, images)
    PROVE  Aligned(T, R) /\ Spares(S, Q, B, id, T, R)
    <1> USE DEF Sender, JobsOf, Numbered
    <1>1. ASSUME NEW o \in B
          PROVE  /\ id[o] \in Nat \ {0} /\ [id |-> id[o], image |-> images[o]] \in Jobs
                 /\ \A j \in Q : j.id # id[o]
                 /\ \A p \in DOMAIN S : /\ \A i \in 1 .. Len(S[p].queue) : S[p].queue[i].id # id[o]
                                        /\ S[p].active.decode # id[o]
          BY DEF Unused, Jobs
    <1>2. ASSUME NEW j \in R, j \notin Q
          PROVE  \E o \in B : j = [id |-> id[o], image |-> images[o]] /\ j.id = id[o] /\ j.image = images[o]
      <2>1. PICK o \in B : j = [id |-> id[o], image |-> images[o]]
            BY <1>2
      <2>2. QED  BY <2>1
    <1>3. R \subseteq Jobs
          BY <1>1 DEF Aligned, Answering
    <1>4. \A o \in DOMAIN S : \A i \in 1 .. Len(S[o].queue) : S[o].queue[i].id # 0
      <2>1. ASSUME NEW o \in DOMAIN S, NEW i \in 1 .. Len(S[o].queue)
            PROVE  S[o].queue[i].id # 0
        <3>1. S[o].queue[i] \in Queued
              BY QueueFields DEF Surfacing
        <3>2. QED  BY <3>1, QueuedFields
      <2>2. QED  BY <2>1
    <1>5. Distinct(T)
      <2>1. ASSUME NEW o \in DOMAIN S, NEW p \in DOMAIN S, NEW i \in 1 .. Len(T[o].queue)
            PROVE  T[p].active.decode # T[o].queue[i].id
        <3>1. i \in 1 .. Len(S[o].queue) /\ T[o].queue[i] = S[o].queue[i]
              OBVIOUS
        <3>2. CASE p \in B
          <4>1. T[p].active.decode # 0 => T[p].active.decode = id[p]
                BY <3>2
          <4>2. S[o].queue[i].id # id[p] /\ S[o].queue[i].id # 0
                BY <3>1, <3>2, <1>1, <1>4
          <4>3. QED  BY <3>1, <4>1, <4>2
        <3>3. CASE p \notin B
              BY <3>1, <3>3 DEF Aligned, Distinct
        <3>4. QED  BY <3>2, <3>3
      <2>2. QED  BY <2>1 DEF Aligned, Distinct
    <1>6. ASSUME NEW j \in R, NEW o \in DOMAIN S
          PROVE  /\ \A i \in 1 .. Len(T[o].queue) : T[o].queue[i].id = j.id =>
                      T[o].queue[i].state = "decoding" /\ T[o].queue[i].image = j.image
                 /\ T[o].active.decode = j.id => T[o].active.target = j.image
      <2>0. j.id # 0
            BY <1>3, JobFields
      <2>a. o \in B /\ T[o].active.decode = j.id => j.id = id[o] /\ T[o].active.target = images[o]
            BY <2>0
      <2>1. CASE j \in Q
        <3>0. \A i \in 1 .. Len(T[o].queue) : T[o].queue[i].id = j.id =>
                      T[o].queue[i].state = "decoding" /\ T[o].queue[i].image = j.image
              BY <2>1 DEF Aligned, Answering
        <3>1. CASE o \in B
          <4>1. T[o].active.decode # j.id
                BY <2>a, <2>1, <3>1, <1>1
          <4>2. QED  BY <3>0, <4>1
        <3>2. CASE o \notin B
              BY <2>1, <3>2 DEF Aligned, Answering
        <3>3. QED  BY <3>1, <3>2
      <2>2. CASE j \notin Q
        <3>1. PICK p \in B : j = [id |-> id[p], image |-> images[p]] /\ j.id = id[p] /\ j.image = images[p]
              BY <2>2, <1>2
        <3>2. \A i \in 1 .. Len(T[o].queue) : T[o].queue[i].id # j.id
              BY <3>1, <1>1
        <3>3. CASE o \in B
          <4>1. T[o].active.decode = j.id => T[o].active.target = j.image
                BY <2>a, <3>1, <3>3
          <4>2. QED  BY <3>2, <4>1
        <3>4. CASE o \notin B
              BY <3>1, <3>2, <3>4, <1>1
        <3>5. QED  BY <3>3, <3>4
      <2>3. QED  BY <2>1, <2>2
    <1>7. ASSUME NEW j \in R, NEW l \in R, j.id = l.id
          PROVE  j = l
      <2>1. CASE j \in Q /\ l \in Q
            BY <2>1, <1>7 DEF Aligned, Answering
      <2>2. CASE j \in Q /\ l \notin Q
            BY <2>2, <1>7, <1>2, <1>1
      <2>3. CASE j \notin Q /\ l \in Q
            BY <2>3, <1>7, <1>2, <1>1
      <2>4. CASE j \notin Q /\ l \notin Q
            BY <2>4, <1>7, <1>2
      <2>5. QED  BY <2>1, <2>2, <2>3, <2>4
    <1>8. ASSUME NEW n, Unused(S, Q, n), \A o \in B : id[o] # n
          PROVE  Unused(T, R, n)
      <2>1. n \in Nat \ {0} /\ \A j \in R : j.id # n
            BY <1>8, <1>2 DEF Unused
      <2>2. ASSUME NEW o \in DOMAIN S
            PROVE  /\ \A i \in 1 .. Len(T[o].queue) : T[o].queue[i].id # n
                   /\ T[o].active.decode # n
        <3>1. CASE o \in B
              BY <3>1, <1>8, <2>1 DEF Unused
        <3>2. CASE o \notin B
              BY <3>2, <1>8 DEF Unused
        <3>3. QED  BY <3>1, <3>2
      <2>3. QED  BY <2>1, <2>2 DEF Unused
    <1>9. QED  BY <1>3, <1>5, <1>6, <1>7, <1>8 DEF Aligned, Answering, Spares

\* The result of a decode, on one output.
LEMMA AcceptDecodeFields ==
    ASSUME NEW s \in Surfaces, NEW job \in Jobs, NEW ok \in BOOLEAN
    PROVE  LET t == AcceptDecode(s, job, ok) IN
           /\ t \in Surfaces /\ Len(t.queue) = Len(s.queue)
           /\ t.power = s.power /\ t.egl = s.egl /\ t.size = s.size /\ t.recreate = s.recreate
           /\ t.image = s.image /\ t.wall = s.wall /\ t.active = s.active /\ t.shown = s.shown
           /\ t.textures = s.textures /\ t.pending = s.pending /\ t.frame = s.frame /\ t.sent = s.sent
           /\ \A i \in 1 .. Len(s.queue) :
                /\ t.queue[i].id = s.queue[i].id /\ t.queue[i].image = s.queue[i].image
                /\ t.queue[i].kind = s.queue[i].kind /\ t.queue[i].aux = s.queue[i].aux
                /\ s.queue[i].id # job.id => t.queue[i] = s.queue[i]
                /\ s.queue[i].id = job.id => /\ t.queue[i].content \in {NoImage, job.image}
                                             /\ t.queue[i].state \in {"decoded", "failed"}
    <1> DEFINE New(q) == [q EXCEPT !.state = IF ok THEN "decoded" ELSE "failed",
                                   !.content = IF ok THEN job.image ELSE NoImage]
               m == [i \in 1 .. Len(s.queue) |-> IF s.queue[i].id # job.id THEN s.queue[i] ELSE New(s.queue[i])]
               t == AcceptDecode(s, job, ok)
    <1>0. Len(s.queue) \in Nat /\ DOMAIN s.queue = 1 .. Len(s.queue)
          BY QueueFields
    <1>1. ASSUME NEW i \in 1 .. Len(s.queue)
          PROVE  /\ m[i] \in Queued
                 /\ m[i].id = s.queue[i].id /\ m[i].image = s.queue[i].image
                 /\ m[i].kind = s.queue[i].kind /\ m[i].aux = s.queue[i].aux
                 /\ s.queue[i].id # job.id => m[i] = s.queue[i]
                 /\ s.queue[i].id = job.id => /\ m[i].content \in {NoImage, job.image}
                                              /\ m[i].state \in {"decoded", "failed"}
      <2>1. PICK q \in Queued : q = s.queue[i]
            BY QueueFields
      <2>2. job.image \in Images
            BY JobFields
      <2>3. /\ New(q) \in Queued /\ New(q).id = q.id /\ New(q).image = q.image /\ New(q).kind = q.kind
            /\ New(q).aux = q.aux /\ New(q).content \in {NoImage, job.image}
            /\ New(q).state \in {"decoded", "failed"}
            BY <2>2 DEF Queued, Pictures
      <2>4. m[i] = IF q.id # job.id THEN q ELSE New(q)
            BY <2>1
      <2> HIDE DEF m, New
      <2>5. QED  BY <2>1, <2>3, <2>4
    <1>2. m \in Seq(Queued) /\ Len(m) = Len(s.queue)
      <2>1. m \in [1 .. Len(s.queue) -> Queued]
            BY <1>1
      <2> HIDE DEF m
      <2>2. QED  BY <2>1, <1>0, FunctionIsSeq
    <1>3. t = [s EXCEPT !.queue = m]
          BY <1>0 DEF AcceptDecode
    <1> HIDE DEF m, t
    <1>4. t \in Surfaces /\ t.queue = m
          BY <1>2, <1>3 DEF Surfaces
    <1>5. /\ t.power = s.power /\ t.egl = s.egl /\ t.size = s.size /\ t.recreate = s.recreate
          /\ t.image = s.image /\ t.wall = s.wall /\ t.active = s.active /\ t.shown = s.shown
          /\ t.textures = s.textures /\ t.pending = s.pending /\ t.frame = s.frame /\ t.sent = s.sent
          BY <1>3 DEF Surfaces
    <1>6. QED  BY <1>1, <1>2, <1>4, <1>5 DEF t

LEMMA AcceptDecodeCoherent ==
    ASSUME NEW s \in Surfaces, Coherent(s), NEW job \in Jobs, NEW ok \in BOOLEAN,
           \A i \in 1 .. Len(s.queue) :
             s.queue[i].id = job.id => s.queue[i].state = "decoding" /\ s.queue[i].image = job.image
    PROVE  LET t == AcceptDecode(s, job, ok) IN
           Coherent(t) /\ Surplus(t) = Surplus(s)
    <1> DEFINE t == AcceptDecode(s, job, ok)
    <1>1. /\ t \in Surfaces /\ Len(t.queue) = Len(s.queue)
          /\ t.wall = s.wall /\ t.active = s.active /\ t.textures = s.textures
          /\ \A i \in 1 .. Len(s.queue) :
                /\ t.queue[i].image = s.queue[i].image
                /\ t.queue[i].kind = s.queue[i].kind /\ t.queue[i].aux = s.queue[i].aux
                /\ s.queue[i].id # job.id => t.queue[i] = s.queue[i]
                /\ s.queue[i].id = job.id => /\ t.queue[i].content \in {NoImage, job.image}
                                             /\ t.queue[i].state \in {"decoded", "failed"}
          BY AcceptDecodeFields
    <1> HIDE DEF t
    <1>2. ASSUME NEW i \in 1 .. Len(s.queue)
          PROVE  /\ t.queue[i].content \in {NoImage, t.queue[i].image}
                 /\ t.queue[i].kind = "canvas" => t.queue[i].aux = 0
                 /\ t.queue[i].state = "uploaded" <=> s.queue[i].state = "uploaded"
      <2>1. CASE s.queue[i].id = job.id
            BY <2>1, <1>1 DEF Coherent
      <2>2. CASE s.queue[i].id # job.id
            BY <2>2, <1>1 DEF Coherent
      <2>3. QED  BY <2>1, <2>2
    <1>3. TexturesIn(t.queue) = TexturesIn(s.queue)
      <2>1. s.queue \in Seq(Queued) /\ t.queue \in Seq(Queued)
            BY <1>1, SurfaceFields
      <2>2. QED  BY <2>1, <1>1, <1>2, TexturesInSame
    <1>4. Coherent(t)
          BY <1>1, <1>2 DEF Coherent
    <1>5. Surplus(t) = Surplus(s)
          BY <1>1, <1>3 DEF Surplus, Owned
    <1>6. QED  BY <1>4, <1>5 DEF t

LEMMA AlignedAccepted ==
    ASSUME NEW S, NEW T, NEW Q, NEW job \in Q, NEW ok \in BOOLEAN, Surfacing(S), Aligned(S, Q),
           DOMAIN T = DOMAIN S, \A o \in DOMAIN S : T[o] = AcceptDecode(S[o], job, ok)
    PROVE  Aligned(T, Q \ {job})
    <1>0. job \in Jobs
          BY DEF Aligned, Answering
    <1>1. ASSUME NEW o \in DOMAIN S
          PROVE  /\ Len(T[o].queue) = Len(S[o].queue) /\ T[o].active = S[o].active
                 /\ \A i \in 1 .. Len(S[o].queue) :
                      /\ T[o].queue[i].id = S[o].queue[i].id /\ T[o].queue[i].image = S[o].queue[i].image
                      /\ S[o].queue[i].id # job.id => T[o].queue[i] = S[o].queue[i]
          BY <1>0, AcceptDecodeFields DEF Surfacing
    <1>2. Distinct(T)
      <2>1. ASSUME NEW o \in DOMAIN S, NEW p \in DOMAIN S, NEW i \in 1 .. Len(T[o].queue),
                   NEW k \in 1 .. Len(T[p].queue), T[o].queue[i].id = T[p].queue[k].id
            PROVE  o = p /\ i = k
            BY <2>1, <1>1 DEF Aligned, Distinct
      <2>2. ASSUME NEW o \in DOMAIN S, NEW p \in DOMAIN S, NEW i \in 1 .. Len(T[o].queue)
            PROVE  T[p].active.decode # T[o].queue[i].id
            BY <1>1 DEF Aligned, Distinct
      <2>3. QED  BY <2>1, <2>2 DEF Distinct
    <1>3. ASSUME NEW j \in Q \ {job}
          PROVE  j \in Jobs /\ j.id # job.id
          BY DEF Aligned, Answering
    <1>4. ASSUME NEW j \in Q \ {job}, NEW o \in DOMAIN S
          PROVE  /\ \A i \in 1 .. Len(T[o].queue) : T[o].queue[i].id = j.id =>
                      T[o].queue[i].state = "decoding" /\ T[o].queue[i].image = j.image
                 /\ T[o].active.decode = j.id => T[o].active.target = j.image
          BY <1>1, <1>3 DEF Aligned, Answering
    <1>5. \A j, k \in Q \ {job} : j.id = k.id => j = k
          BY DEF Aligned, Answering
    <1>6. QED  BY <1>2, <1>3, <1>4, <1>5 DEF Aligned, Answering

(***************************************************************************)
(* Finitely many outputs, walls and jobs.                                  *)
(***************************************************************************)
LEMMA ImageFinite ==
    ASSUME NEW D, IsFiniteSet(D), NEW f
    PROVE  IsFiniteSet({f[x] : x \in D})
    <1> DEFINE g == [x \in D |-> f[x]]
    <1>1. g \in Surjection(D, {f[x] : x \in D})
          BY DEF Surjection
    <1>2. QED  BY <1>1, FS_Surjection

LEMMA SentFinite ==
    ASSUME NEW s \in Surfaces, NEW t \in Surfaces, Behind(s, t), IsFiniteSet(s.sent)
    PROVE  IsFiniteSet(t.sent)
    <1> DEFINE f == [i \in 1 .. Len(s.queue) |-> [id |-> s.queue[i].id, image |-> s.queue[i].image]]
               U == {f[i] : i \in 1 .. Len(s.queue)}
    <1>1. IsFiniteSet(U)
      <2>1. IsFiniteSet(1 .. Len(s.queue))
        <3>1. PICK n \in Int, one \in Int : n = Len(s.queue) /\ one = 1
              BY QueueFields
        <3>2. IsFiniteSet(one .. n)
              BY FS_Interval
        <3>3. QED  BY <3>1, <3>2
      <2> HIDE DEF f
      <2>2. QED  BY <2>1, ImageFinite
    <1>2. t.sent \subseteq s.sent \cup U
      <2>1. ASSUME NEW j \in t.sent \ s.sent
            PROVE  j \in U
        <3>1. PICK i \in 1 .. Len(s.queue) : s.queue[i].id = j.id /\ s.queue[i].image = j.image
              BY <2>1 DEF Behind, Drained
        <3>2. j = [id |-> j.id, image |-> j.image]
              BY JobFields, SurfaceFields
        <3>3. j = f[i]
              BY <3>1, <3>2
        <3> HIDE DEF f
        <3>4. QED  BY <3>3
      <2>2. QED  BY <2>1
    <1> HIDE DEF U
    <1>3. IsFiniteSet(s.sent \cup U)
          BY <1>1, FS_Union
    <1>4. QED  BY <1>2, <1>3, FS_Subset

LEMMA SendingFinite ==
    ASSUME NEW S, IsFiniteSet(DOMAIN S), \A o \in DOMAIN S : IsFiniteSet(S[o].sent)
    PROVE  IsFiniteSet(Sending(S))
    <1> DEFINE f == [o \in DOMAIN S |-> S[o].sent]
               U == {f[o] : o \in DOMAIN S}
    <1>1. \A x \in U : IsFiniteSet(x)
          OBVIOUS
    <1>2. Sending(S) = UNION U
          BY DEF Sending
    <1> HIDE DEF f
    <1>3. IsFiniteSet(U)
          BY ImageFinite
    <1> HIDE DEF U
    <1>4. QED  BY <1>1, <1>2, <1>3, FS_UNION

LEMMA InjectionExists ==
    ASSUME NEW D, IsFiniteSet(D), NEW U, IsFiniteSet(U), Cardinality(D) <= Cardinality(U)
    PROVE  \E f \in [D -> U] : \A a, b \in D : f[a] = f[b] => a = b
    <1>1. PICK m \in Nat : m = Cardinality(D) /\ ExistsBijection(1 .. m, D)
          BY FS_CardinalityType
    <1>2. PICK n \in Nat : n = Cardinality(U) /\ ExistsBijection(1 .. n, U)
          BY FS_CardinalityType
    <1>3. ExistsInjection(D, 1 .. m)
          BY <1>1, Fun_ExistsBijEquiv
    <1>4. ExistsInjection(1 .. n, U)
          BY <1>2, Fun_ExistsBijEquiv
    <1>5. ExistsInjection(1 .. m, 1 .. n)
      <2>1. m <= n
            BY <1>1, <1>2
      <2>2. QED  BY <2>1, Fun_NatInjLeq
    <1>6. ExistsInjection(D, U)
      <2>1. ExistsInjection(D, 1 .. n)
            BY <1>3, <1>5, Fun_ExistsInjTransitive
      <2>2. QED  BY <2>1, <1>4, Fun_ExistsInjTransitive
    <1>7. PICK f : f \in Injection(D, U)
          BY <1>6 DEF ExistsInjection
    <1>8. QED  BY <1>7, Fun_InjectionProperties

\* The numbers not in use are enough for ids of all targets.
LEMMA FreeNumbers ==
    ASSUME NEW U, IsFiniteSet(U), NEW D, IsFiniteSet(D)
    PROVE  LET free == (1 .. Cardinality(U) + Cardinality(D)) \ U IN
           IsFiniteSet(free) /\ Cardinality(D) <= Cardinality(free)
    <1>1. PICK u \in Int, d \in Int : u = Cardinality(U) /\ d = Cardinality(D) /\ u >= 0 /\ d >= 0
          BY FS_CardinalityType
    <1>11. PICK one \in Int, n \in Int : one = 1 /\ n = u + d
          BY <1>1
    <1>2. PICK all : one = 1 /\ n = u + d /\ all = one .. n
          BY <1>11
    <1>3. IsFiniteSet(all) /\ Cardinality(all) = n
      <2>1. /\ IsFiniteSet(one .. n)
            /\ Cardinality(one .. n) = IF one > n THEN 0 ELSE n - one + 1
            BY FS_Interval
      <2>2. QED  BY <1>1, <1>2, <2>1
    <1>4. PICK free : free = all \ U
          OBVIOUS
    <1>5. IsFiniteSet(free) /\ Cardinality(free) = Cardinality(all) - Cardinality(all \cap U)
          BY <1>3, <1>4, FS_Difference
    <1>6. Cardinality(all \cap U) <= u
          BY <1>1, FS_Intersection
    <1>7. Cardinality(all \cap U) \in Int /\ Cardinality(free) \in Int
          BY <1>3, <1>5, FS_Intersection, FS_CardinalityType
    <1>8. d <= Cardinality(free)
          BY <1>1, <1>2, <1>3, <1>5, <1>6, <1>7
    <1>9. free = (1 .. Cardinality(U) + Cardinality(D)) \ U
          BY <1>1, <1>2, <1>4
    <1>10. QED  BY <1>1, <1>5, <1>8, <1>9

LEMMA UsedIdsFinite ==
    ASSUME \A o \in Live : surfaces[o] \in Surfaces, IsFiniteSet(Live), IsFiniteSet(jobs)
    PROVE  IsFiniteSet(UsedIds)
    <1> DEFINE f == [o \in Live |-> {q.id : q \in {surfaces[o].queue[i] : i \in DOMAIN surfaces[o].queue}}
                                      \cup {surfaces[o].active.decode}]
               g == [j \in jobs |-> j.id]
    <1>1. ASSUME NEW o \in Live
          PROVE  IsFiniteSet(f[o])
      <2> DEFINE w == [i \in 1 .. Len(surfaces[o].queue) |-> surfaces[o].queue[i].id]
                 W == {w[i] : i \in 1 .. Len(surfaces[o].queue)}
      <2>1. PICK n \in Int, one \in Int : n = Len(surfaces[o].queue) /\ one = 1
            BY QueueFields
      <2>2. IsFiniteSet(1 .. Len(surfaces[o].queue))
        <3>1. IsFiniteSet(one .. n)
              BY FS_Interval
        <3>2. QED  BY <2>1, <3>1
      <2>3. W = {q.id : q \in {surfaces[o].queue[i] : i \in DOMAIN surfaces[o].queue}}
        <3>1. DOMAIN surfaces[o].queue = 1 .. Len(surfaces[o].queue)
              BY QueueFields
        <3>2. QED  BY <3>1
      <2>4. IsFiniteSet(W)
        <3> HIDE DEF w
        <3>1. QED  BY <2>2, ImageFinite
      <2>5. f[o] = W \cup {surfaces[o].active.decode}
            BY <2>3
      <2>6. \A x : IsFiniteSet(W \cup {x})
        <3> HIDE DEF W
        <3>1. QED  BY <2>4, FS_AddElement
      <2> HIDE DEF W, f
      <2>7. QED  BY <2>5, <2>6
    <1>2. UsedIds = {g[j] : j \in jobs} \cup UNION {f[o] : o \in Live}
      <2>1. {g[j] : j \in jobs} = {j.id : j \in jobs}
            OBVIOUS
      <2>2. {f[o] : o \in Live} =
              {{q.id : q \in {surfaces[o].queue[i] : i \in DOMAIN surfaces[o].queue}}
                                      \cup {surfaces[o].active.decode} : o \in Live}
            OBVIOUS
      <2>3. QED  BY <2>1, <2>2, Zenon DEF UsedIds
    <1>3. IsFiniteSet({g[j] : j \in jobs})
      <2> HIDE DEF g
      <2>1. QED  BY ImageFinite
    <1>4. IsFiniteSet(UNION {f[o] : o \in Live})
      <2> HIDE DEF f
      <2>1. IsFiniteSet({f[o] : o \in Live})
            BY ImageFinite
      <2>2. \A x \in {f[o] : o \in Live} : IsFiniteSet(x)
            BY <1>1
      <2>3. QED  BY <2>1, <2>2, FS_UNION
    <1> HIDE DEF f, g
    <1>5. QED  BY <1>2, <1>3, <1>4, FS_Union

LEMMA FreshIdsUnused ==
    ASSUME \A o \in Live : surfaces[o] \in Surfaces, IsFiniteSet(Live), IsFiniteSet(jobs),
           NEW targets, IsFiniteSet(targets)
    PROVE  /\ \A o \in targets : Unused(surfaces, jobs, FreshIds(targets)[o])
           /\ \A o, p \in targets : FreshIds(targets)[o] = FreshIds(targets)[p] => o = p
    <1> DEFINE free == (1 .. Cardinality(UsedIds) + Cardinality(targets)) \ UsedIds
    <1>1. IsFiniteSet(UsedIds)
          BY UsedIdsFinite
    <1>2. IsFiniteSet(free) /\ Cardinality(targets) <= Cardinality(free)
          BY <1>1, FreeNumbers
    <1>3. \A n \in free : n \in Nat \ {0} /\ n \notin UsedIds
      <2>1. PICK u \in Nat, d \in Nat : u = Cardinality(UsedIds) /\ d = Cardinality(targets)
            BY <1>1, FS_CardinalityType
      <2>2. QED  BY <2>1
    <1>4. FreshIds(targets) = CHOOSE f \in [targets -> free] : \A a, b \in targets : f[a] = f[b] => a = b
          BY DEF FreshIds
    <1> HIDE DEF free
    <1>5. \E f \in [targets -> free] : \A a, b \in targets : f[a] = f[b] => a = b
          BY <1>2, InjectionExists
    <1>6. /\ FreshIds(targets) \in [targets -> free]
          /\ \A a, b \in targets : FreshIds(targets)[a] = FreshIds(targets)[b] => a = b
          BY <1>4, <1>5
    <1>7. ASSUME NEW n \in Nat \ {0}, n \notin UsedIds
          PROVE  Unused(surfaces, jobs, n)
      <2>1. \A j \in jobs : j.id # n
            BY <1>7 DEF UsedIds
      <2>2. ASSUME NEW o \in Live
            PROVE  /\ \A i \in 1 .. Len(surfaces[o].queue) : surfaces[o].queue[i].id # n
                   /\ surfaces[o].active.decode # n
        <3>1. DOMAIN surfaces[o].queue = 1 .. Len(surfaces[o].queue)
              BY QueueFields
        <3>2. n \notin {q.id : q \in {surfaces[o].queue[i] : i \in DOMAIN surfaces[o].queue}}
                        \cup {surfaces[o].active.decode}
              BY <1>7 DEF UsedIds
        <3>3. QED  BY <3>1, <3>2
      <2>3. QED  BY <2>1, <2>2 DEF Unused, Live
    <1>8. QED  BY <1>3, <1>6, <1>7

(***************************************************************************)
(* The inductive invariant, and a step on all outputs.                     *)
(***************************************************************************)
\* No drawing fails, or only pairwise sets and clears come, or there is one output: then
\* no batch forgets the textures of outputs it did not come to.
Tidy ==
    \/ Faults \cap {"create", "draw", "swap"} = {}
    \/ Requests \subseteq {"pairwise", "clear"}
    \/ \A o, p \in Outputs : o = p

Sound(s) == /\ s \in Surfaces /\ Coherent(s)
            /\ Surplus(s) \in Nat
            /\ Tidy => Surplus(s) = 0

RendererInv ==
    /\ TypeOK
    /\ IsFiniteSet(Live) /\ IsFiniteSet(jobs)
    /\ Aligned(surfaces, jobs)
    /\ \A o \in Live : Sound(surfaces[o])
    /\ Tidy => lost = 0

\* What a step may do to one output.
OffKept(s, t) ==
    s.power \in {"off", "unknown"} /\ t.power = s.power =>
        t.egl = s.egl /\ t.shown = s.shown /\ t.textures <= s.textures

Fifo(s, t) ==
    Waiting(t) = <<>> \/ \E k \in 1 .. Len(Waiting(s)) + 1, n \in 0 .. 1 :
        /\ Len(Waiting(t)) = Len(Waiting(s)) + 1 - k + n
        /\ \A i \in 1 .. Len(Waiting(s)) + 1 - k : Waiting(t)[i] = Waiting(s)[i + k - 1]

Kept(s, t) == OffKept(s, t) /\ Fifo(s, t)

LEMMA WaitingFields ==
    ASSUME NEW s \in Surfaces
    PROVE  /\ Len(Waiting(s)) = Len(s.queue) /\ Len(s.queue) \in Nat
           /\ \A i \in 1 .. Len(s.queue) : Waiting(s)[i] = <<s.queue[i].id, s.queue[i].image>>
           /\ Len(s.queue) = 0 => Waiting(s) = <<>>
    <1>1. PICK n \in Nat : n = Len(s.queue) /\ DOMAIN s.queue = 1 .. n
          BY QueueFields
    <1>2. Waiting(s) = [i \in 1 .. n |-> <<s.queue[i].id, s.queue[i].image>>]
          BY <1>1 DEF Waiting
    <1>3. Waiting(s) \in Seq({Waiting(s)[i] : i \in 1 .. n}) /\ Len(Waiting(s)) = n
      <2>1. Waiting(s) \in [1 .. n -> {Waiting(s)[i] : i \in 1 .. n}]
            BY <1>2
      <2>2. QED  BY <2>1, FunctionIsSeq
    <1>4. n = 0 => Waiting(s) = <<>>
          BY <1>3
    <1>5. QED  BY <1>1, <1>2, <1>3, <1>4

\* The first k walls were taken, and n came.
LEMMA ShiftedFifo ==
    ASSUME NEW s \in Surfaces, NEW t \in Surfaces, NEW k \in 0 .. Len(s.queue), NEW n \in 0 .. 1,
           Len(t.queue) = Len(s.queue) - k + n,
           \A i \in 1 .. Len(s.queue) - k : t.queue[i].id = s.queue[i + k].id
                                            /\ t.queue[i].image = s.queue[i + k].image
    PROVE  Fifo(s, t)
    <1>1. PICK a \in Nat, b \in Nat : /\ a = Len(s.queue) /\ b = Len(t.queue)
                                     /\ Len(Waiting(s)) = a /\ Len(Waiting(t)) = b
          BY WaitingFields
    <1>2. PICK m \in Int : m = k + 1
          BY <1>1
    <1>2a. PICK l \in Int : l = n
           OBVIOUS
    <1>2b. PICK c \in Int : c = k /\ 0 <= c /\ c <= a
           BY <1>1
    <1>2c. b = a - c + l
           BY <1>1, <1>2a, <1>2b
    <1>2d. m = c + 1
           BY <1>2, <1>2b
    <1>3. m \in 1 .. a + 1 /\ b = a + 1 - m + l
          BY <1>2b, <1>2c, <1>2d
    <1>4. ASSUME NEW i \in 1 .. a + 1 - m
          PROVE  Waiting(t)[i] = Waiting(s)[i + m - 1]
      <2>0. i \in 1 .. a - c /\ i + m - 1 = i + c /\ i \in 1 .. b /\ i + c \in 1 .. a
        <3>1. 0 <= l
              BY <1>2a
        <3>2. QED  BY <1>2b, <1>2c, <1>2d, <1>3, <3>1
      <2>1. i \in 1 .. a - k /\ i + m - 1 = i + k /\ i \in 1 .. b /\ i + k \in 1 .. a
            BY <1>2b, <2>0
      <2>2. t.queue[i].id = s.queue[i + k].id /\ t.queue[i].image = s.queue[i + k].image
            BY <1>1, <2>1
      <2>3. /\ Waiting(t)[i] = <<t.queue[i].id, t.queue[i].image>>
            /\ Waiting(s)[i + k] = <<s.queue[i + k].id, s.queue[i + k].image>>
            BY <1>1, <2>1, WaitingFields
      <2>4. QED  BY <2>1, <2>2, <2>3
    <1>5. QED  BY <1>1, <1>2a, <1>3, <1>4 DEF Fifo

LEMMA BehindFifo ==
    ASSUME NEW s \in Surfaces, NEW t \in Surfaces, Behind(s, t)
    PROVE  Fifo(s, t)
    <1>1. PICK k \in 0 .. Len(s.queue) : Drained(s, t, k)
          BY DEF Behind
    <1>2. PICK a \in Nat, b \in Nat : a = Len(s.queue) /\ b = Len(t.queue)
          BY QueueFields
    <1>3. b = a - k
          BY <1>1, <1>2 DEF Drained
    <1>4. \A i \in 1 .. a - k : t.queue[i].id = s.queue[i + k].id /\ t.queue[i].image = s.queue[i + k].image
          BY <1>1, <1>2, <1>3 DEF Drained, Later
    <1>5. PICK none \in 0 .. 1 : none = 0
          OBVIOUS
    <1>6. Len(t.queue) = Len(s.queue) - k + none
          BY <1>2, <1>3, <1>5
    <1>7. QED  BY <1>2, <1>4, <1>6, ShiftedFifo

LEMMA UntouchedKept ==
    ASSUME NEW s \in Surfaces, NEW t \in Surfaces, Untouched(s, t), Behind(s, t)
    PROVE  Kept(s, t)
    <1>1. OffKept(s, t)
          BY DEF OffKept, Untouched, AllowsEgl
    <1>2. QED  BY <1>1, BehindFifo DEF Kept

\* t is what a step can make of s, which may leave alive textures made for it.
Advances(s, t) == \E m \in Nat : (Tidy => m = 0) /\ Evolves(s, t, 0 - m)

LEMMA ProgressIsSound ==
    ASSUME NEW s, Sound(s), s.sent = {}, NEW t, NEW m \in Nat, Tidy => m = 0, Progresses(s, t, 0 - m)
    PROVE  Sound(t) /\ IsFiniteSet(t.sent) /\ Kept(s, t) /\ Behind(s, t)
    <1>1. /\ s \in Surfaces /\ t \in Surfaces /\ Coherent(t) /\ Surplus(t) = Surplus(s) - (0 - m)
          /\ Untouched(s, t) /\ Behind(s, t) /\ Surplus(s) \in Nat /\ (Tidy => Surplus(s) = 0)
          BY DEF Sound, Progresses
    <1>2. Surplus(t) \in Nat /\ (Tidy => Surplus(t) = 0)
          BY <1>1
    <1>3. IsFiniteSet(t.sent)
          BY <1>1, SentFinite, FS_EmptySet
    <1>4. QED  BY <1>1, <1>2, <1>3, UntouchedKept DEF Sound

LEMMA InvFields ==
    ASSUME RendererInv
    PROVE  /\ \A o \in Live : /\ surfaces[o] \in Surfaces /\ surfaces[o].sent = {} /\ Sound(surfaces[o])
                              /\ Coherent(surfaces[o]) /\ o \in Outputs
           /\ Surfacing(surfaces) /\ Live = DOMAIN surfaces
           /\ IsFiniteSet(Live) /\ IsFiniteSet(jobs) /\ Aligned(surfaces, jobs)
           /\ \A j \in jobs : j \in Jobs
    BY DEF RendererInv, TypeOK, Sound, Surfacing, Live

LEMMA AllAdvance ==
    ASSUME RendererInv, NEW T, DOMAIN T = Live, \A o \in Live : Advances(surfaces[o], T[o]),
           NEW K \in SUBSET jobs
    PROVE  /\ \A o \in Live : Sound(T[o]) /\ IsFiniteSet(T[o].sent) /\ Kept(surfaces[o], T[o])
           /\ Aligned(T, K \cup Sending(T))
           /\ \A n : Unused(surfaces, jobs, n) => Unused(T, K \cup Sending(T), n)
    <1>1. ASSUME NEW o \in Live
          PROVE  /\ Sound(T[o]) /\ IsFiniteSet(T[o].sent) /\ Kept(surfaces[o], T[o])
                 /\ Behind(surfaces[o], T[o]) /\ KeepsDecode(surfaces[o], T[o])
      <2>1. PICK m \in Nat : (Tidy => m = 0) /\ Evolves(surfaces[o], T[o], 0 - m)
            BY DEF Advances
      <2>2. Sound(surfaces[o]) /\ surfaces[o].sent = {}
            BY InvFields
      <2>3. QED  BY <2>1, <2>2, ProgressIsSound DEF Evolves
    <1>2. Surfacing(surfaces) /\ Surfacing(T) /\ Aligned(surfaces, jobs) /\ DOMAIN T = DOMAIN surfaces
          BY <1>1, InvFields DEF Surfacing, Sound
    <1>3. \A o \in DOMAIN surfaces : /\ Behind(surfaces[o], T[o]) /\ KeepsDecode(surfaces[o], T[o])
                                     /\ surfaces[o].sent \subseteq jobs
          BY <1>1, InvFields
    <1>4. K \cup Sending(T) \subseteq jobs \cup Sending(T)
          OBVIOUS
    <1>5. /\ Aligned(T, K \cup Sending(T))
          /\ \A n : Unused(surfaces, jobs, n) => Unused(T, K \cup Sending(T), n)
          BY <1>2, <1>3, <1>4, AlignedBehind
    <1>6. QED  BY <1>1, <1>5

\* What each step does to the outputs that stay.
StepKept == \A o \in Live \cap DOMAIN surfaces' : Kept(surfaces[o], surfaces'[o])

LEMMA SentIsOver ==
    ASSUME NEW s \in Surfaces
    PROVE  LET t == [s EXCEPT !.sent = {}] IN
           /\ t \in Surfaces /\ t.sent = {} /\ t.queue = s.queue /\ t.active = s.active
           /\ t.power = s.power /\ t.egl = s.egl /\ t.shown = s.shown /\ t.textures = s.textures
           /\ t.wall = s.wall /\ t.image = s.image /\ t.pending = s.pending /\ t.frame = s.frame
           /\ t.size = s.size /\ t.recreate = s.recreate
           /\ (Coherent(t) <=> Coherent(s)) /\ Surplus(t) = Surplus(s) /\ Waiting(t) = Waiting(s)
    <1> DEFINE t == [s EXCEPT !.sent = {}]
    <1>1. t \in Surfaces
          BY DEF Surfaces
    <1>2. /\ t.sent = {} /\ t.queue = s.queue /\ t.active = s.active
          /\ t.power = s.power /\ t.egl = s.egl /\ t.shown = s.shown /\ t.textures = s.textures
          /\ t.wall = s.wall /\ t.image = s.image /\ t.pending = s.pending /\ t.frame = s.frame
          /\ t.size = s.size /\ t.recreate = s.recreate
          BY DEF Surfaces
    <1> HIDE DEF t
    <1>3. Waiting(t) = Waiting(s)
          BY <1>2 DEF Waiting
    <1>4. Surplus(t) = Surplus(s)
          BY <1>2 DEF Surplus, Owned
    <1>5. Coherent(t) <=> Coherent(s)
          BY <1>2 DEF Coherent
    <1>6. QED  BY <1>1, <1>2, <1>3, <1>4, <1>5 DEF t

LEMMA Finished ==
    ASSUME RendererInv, NEW T, DOMAIN T = Live,
           \A o \in Live : Sound(T[o]) /\ IsFiniteSet(T[o].sent) /\ Kept(surfaces[o], T[o]),
           NEW K \in SUBSET jobs, Aligned(T, K \cup Sending(T)),
           surfaces' = [o \in Live |-> [T[o] EXCEPT !.sent = {}]],
           jobs' = K \cup Sending(T), dispatched' \in BOOLEAN, lost' = lost,
           refused' \in {"none"} \cup Requests
    PROVE  RendererInv' /\ StepKept
    <1>1. DOMAIN surfaces' = Live /\ Live' = Live
          BY DEF Live
    <1>2. ASSUME NEW o \in Live
          PROVE  /\ surfaces'[o] \in Surfaces /\ surfaces'[o].sent = {} /\ Sound(surfaces'[o])
                 /\ surfaces'[o].queue = T[o].queue /\ surfaces'[o].active = T[o].active
                 /\ Kept(surfaces[o], surfaces'[o])
      <2>1. PICK t \in Surfaces : t = T[o] /\ Sound(t) /\ Kept(surfaces[o], t)
            BY DEF Sound
      <2>2. PICK u : u = [t EXCEPT !.sent = {}] /\ u = surfaces'[o]
            BY <2>1
      <2>3. /\ u \in Surfaces /\ u.sent = {} /\ u.queue = t.queue /\ u.active = t.active
            /\ u.power = t.power /\ u.egl = t.egl /\ u.shown = t.shown /\ u.textures = t.textures
            /\ (Coherent(u) <=> Coherent(t)) /\ Surplus(u) = Surplus(t) /\ Waiting(u) = Waiting(t)
            BY <2>1, <2>2, SentIsOver
      <2>4. Sound(u)
            BY <2>1, <2>3 DEF Sound
      <2>5. Kept(surfaces[o], u)
            BY <2>1, <2>3 DEF Kept, OffKept, Fifo
      <2>6. QED  BY <2>1, <2>2, <2>3, <2>4, <2>5
    <1>3. IsFiniteSet(jobs')
      <2>1. IsFiniteSet(Sending(T)) /\ IsFiniteSet(jobs)
            BY InvFields, SendingFinite
      <2>2. IsFiniteSet(K)
            BY <2>1, FS_Subset
      <2>3. QED  BY <2>1, <2>2, FS_Union
    <1>4. Aligned(surfaces', jobs')
      <2>1. PICK S, Q : S = surfaces' /\ Q = jobs' /\ Q \subseteq K \cup Sending(T) /\ DOMAIN S = Live
            BY <1>1
      <2>2. Surfacing(S)
            BY <1>2, <2>1 DEF Surfacing
      <2>3. \A o \in DOMAIN S : /\ o \in DOMAIN T /\ S[o].queue = T[o].queue
                                /\ S[o].active.decode = T[o].active.decode
                                /\ S[o].active.target = T[o].active.target
            BY <1>2, <2>1
      <2>4. Aligned(S, Q)
            BY <2>1, <2>2, <2>3, AlignedLess
      <2>5. QED  BY <2>1, <2>4
    <1>5. \A j \in jobs' : j \in Jobs
          BY <1>4 DEF Aligned, Answering
    <1>6. TypeOK'
          BY <1>1, <1>2, <1>5 DEF RendererInv, TypeOK
    <1>7. RendererInv'
          BY <1>1, <1>2, <1>3, <1>4, <1>6 DEF RendererInv
    <1>8. StepKept
          BY <1>1, <1>2 DEF StepKept
    <1>9. QED  BY <1>7, <1>8

LEMMA HandledIsFinished ==
    ASSUME RendererInv, NEW T, DOMAIN T = Live,
           \A o \in Live : Sound(T[o]) /\ IsFiniteSet(T[o].sent) /\ Kept(surfaces[o], T[o]),
           NEW answered, Aligned(T, (jobs \ answered) \cup Sending(T)),
           Handled(T, answered), refused' \in {"none"} \cup Requests
    PROVE  RendererInv' /\ StepKept
    <1>1. PICK K \in SUBSET jobs : K = jobs \ answered
          OBVIOUS
    <1>2. Sending(T) = UNION {T[o].sent : o \in Live}
          BY DEF Sending
    <1>3. /\ surfaces' = [o \in Live |-> [T[o] EXCEPT !.sent = {}]]
          /\ jobs' = K \cup Sending(T) /\ dispatched' \in BOOLEAN /\ lost' = lost
          BY <1>1, <1>2 DEF Handled
    <1>4. QED  BY <1>1, <1>3, Finished

LEMMA HandledAdvance ==
    ASSUME RendererInv, NEW T, DOMAIN T = Live, \A o \in Live : Advances(surfaces[o], T[o]),
           NEW answered, Handled(T, answered), refused' \in {"none"} \cup Requests
    PROVE  RendererInv' /\ StepKept
    <1>1. PICK K \in SUBSET jobs : K = jobs \ answered
          OBVIOUS
    <1>2. /\ \A o \in Live : Sound(T[o]) /\ IsFiniteSet(T[o].sent) /\ Kept(surfaces[o], T[o])
          /\ Aligned(T, (jobs \ answered) \cup Sending(T))
          BY <1>1, AllAdvance
    <1>3. QED  BY <1>2, HandledIsFinished

(***************************************************************************)
(* Batches: a loop over targets that returns at the first failure.         *)
(***************************************************************************)
LEMMA DrawsSucceed ==
    ASSUME Faults \cap {"create", "draw", "swap"} = {}, NEW s \in Surfaces
    PROVE  /\ \A r \in RenderClear(s) : r.ok
           /\ \A r \in RenderCurrent(s) : r.ok
           /\ \A r \in DrawTransition(s) : r.ok
    <1>1. \A outcome : May("create", outcome) = {} /\ May("draw", outcome) = {} /\ May("swap", outcome) = {}
          BY DEF May
    <1>2. ASSUME AllowsEgl(s), NEW e \in EnsureEgl(s, s.size)
          PROVE  e.ok
          BY <1>1, <1>2 DEF EnsureEgl, Done
    <1>3. ASSUME NEW picture, NEW animated, NEW r \in Draw(s, picture, animated)
          PROVE  r.ok
      <2>1. CASE ~AllowsEgl(s)
            BY <2>1, <1>3 DEF Draw, Done
      <2>2. CASE AllowsEgl(s) /\ s.size = 0
            BY <2>2, <1>3 DEF Draw, Done
      <2>3. CASE AllowsEgl(s) /\ s.size # 0
        <3>1. PICK e \in EnsureEgl(s, s.size) :
                     LET t == IF animated THEN WithFrame(e.surface) ELSE e.surface IN
                     r \in IF ~e.ok THEN {e}
                           ELSE {Done(Swapped(t, picture))}
                                \cup May("draw", Failed(e.surface)) \cup May("swap", Failed(t))
              BY <2>3 DEF Draw
        <3>2. e.ok
              BY <1>2, <2>3
        <3>3. \E t : r = Done(Swapped(t, picture))
              BY <1>1, <3>1, <3>2
        <3>4. QED  BY <3>3 DEF Done
      <2>4. QED  BY <2>1, <2>2, <2>3
    <1>4. QED  BY <1>3 DEF RenderClear, RenderCurrent, DrawTransition

LEMMA RenderWithSucceeds ==
    ASSUME Faults \cap {"create", "draw", "swap"} = {}, NEW s \in Surfaces, NEW next \in Results,
           \A u \in Surfaces : \A d \in next[u] : d.ok, NEW r \in RenderWith(s, next)
    PROVE  r.ok
    <1>1. CASE ~IsRunning(s) /\ r \in RenderCurrent(s)
          BY <1>1, DrawsSucceed
    <1>2. CASE r = Done(DeferRender(s))
          BY <1>2 DEF Done
    <1>3. CASE r \in DrawTransition(s)
          BY <1>3, DrawsSucceed
    <1>4. CASE r \in RenderOver(s, next)
      <2>1. PICK n \in StartNext(Settle(s)) :
                   \/ n.ok /\ r \in next[n.surface]
                   \/ ~n.ok /\ r \in RenderCurrent(n.surface)
            BY <1>4, RenderOverCases
      <2>2. n.surface \in Surfaces
            BY SettleEvolves, StartNextEvolves, OutcomeFields
      <2>3. QED  BY <2>1, <2>2, DrawsSucceed
    <1>5. QED  BY <1>1, <1>2, <1>3, <1>4, RenderWithCases

LEMMA RenderActivesSucceed ==
    ASSUME Faults \cap {"create", "draw", "swap"} = {}, NEW n \in Nat, NEW s \in Surfaces,
           NEW r \in RenderActives[n][s]
    PROVE  r.ok
    <1> DEFINE Bad == {m \in Nat : \E u \in Surfaces : \E d \in RenderActives[m][u] : ~d.ok}
    <1>1. SUFFICES Bad = {}
          OBVIOUS
    <1>2. ASSUME Bad # {}
          PROVE  FALSE
      <2>1. PICK m \in Bad : \A k \in Bad : m <= k
            BY <1>2, LeastNumber
      <2>2a. PICK u \in Surfaces : \E d \in RenderActives[m][u] : ~d.ok
            BY <2>1
      <2>2. PICK d \in RenderActives[m][u] : ~d.ok
            BY <2>2a
      <2>3. CASE m = 0
        <3> DEFINE first == [t \in Surfaces |-> RenderCurrent(t)]
        <3>1. d \in RenderWith(u, first)
              BY <2>2, <2>3, RenderActivesDef
        <3>2. first \in Results /\ \A t \in Surfaces : \A e \in first[t] : e.ok
              BY RendersRedraw, DrawsSucceed DEF Results
        <3> HIDE DEF first
        <3>3. QED  BY <2>2, <3>1, <3>2, RenderWithSucceeds
      <2>4. CASE m # 0
        <3>1. PICK k \in Nat : k = m - 1 /\ k < m
              BY <2>1, <2>4
        <3>2. d \in RenderWith(u, RenderActives[k]) /\ RenderActives[k] \in Results
              BY <2>2, <2>4, <3>1, RenderActivesDef
        <3>3. k \notin Bad
          <4>1. ~(m <= k)
                BY <2>1, <3>1
          <4>2. QED  BY <2>1, <4>1
        <3>4. \A t \in Surfaces : \A e \in RenderActives[k][t] : e.ok
              BY <3>1, <3>3
        <3>5. QED  BY <2>2, <3>2, <3>4, RenderWithSucceeds
      <2>5. QED  BY <2>3, <2>4
    <1>3. QED  BY <1>2

LEMMA RenderActiveSucceeds ==
    ASSUME Faults \cap {"create", "draw", "swap"} = {}, NEW s \in Surfaces, NEW r \in RenderActive(s)
    PROVE  r.ok
    <1>1. Len(s.queue) \in Nat
          BY QueueFields
    <1>2. QED  BY <1>1, RenderActivesSucceed DEF RenderActive

LEMMA ProductsFields ==
    ASSUME NEW targets, NEW outcomes, NEW r \in Products(targets, outcomes)
    PROVE  DOMAIN r = targets /\ \A o \in targets : r[o] \in outcomes[o]
    BY DEF Products

LEMMA AttemptsFields ==
    ASSUME NEW targets, NEW outcomes, NEW r \in Attempts(targets, outcomes)
    PROVE  /\ DOMAIN r \in SUBSET targets
           /\ \A o \in DOMAIN r : r[o] \in outcomes[o]
           /\ Broken(r) \in SUBSET DOMAIN r
           /\ Broken(r) = {} => DOMAIN r = targets
    <1>1. PICK tried \in SUBSET targets : r \in Products(tried, outcomes)
          BY DEF Attempts
    <1>2. DOMAIN r = tried /\ \A o \in tried : r[o] \in outcomes[o]
          BY <1>1, ProductsFields
    <1>3. Broken(r) = {} => DOMAIN r = targets
          BY DEF Attempts
    <1>4. QED  BY <1>2, <1>3 DEF Broken

\* When the batch forgets nothing.
LEMMA AllReached ==
    ASSUME Tidy, NEW kind \in Requests \ {"pairwise", "clear"}, NEW targets \in SUBSET Outputs,
           NEW outcomes, NEW r \in Attempts(targets, outcomes),
           Faults \cap {"create", "draw", "swap"} = {} => \A o \in targets : \A d \in outcomes[o] : d.ok
    PROVE  DOMAIN r = targets
    <1>1. CASE Faults \cap {"create", "draw", "swap"} = {}
      <2>1. Broken(r) = {}
            BY <1>1, AttemptsFields DEF Broken
      <2>2. QED  BY <2>1, AttemptsFields
    <1>2. CASE \A o, p \in Outputs : o = p
      <2>1. CASE Broken(r) = {}
            BY <2>1, AttemptsFields
      <2>2. CASE Broken(r) # {}
        <3>1. PICK o : o \in DOMAIN r /\ DOMAIN r \in SUBSET targets
              BY <2>2, AttemptsFields
        <3>2. \A p \in targets : p = o
              BY <1>2, <3>1
        <3>3. QED  BY <3>1, <3>2
      <2>3. QED  BY <2>1, <2>2
    <1>3. QED  BY <1>1, <1>2 DEF Tidy

Proceeds(s, t) == \E m \in Nat : (Tidy => m = 0) /\ Progresses(s, t, 0 - m)

LEMMA AdvancesProceeds ==
    ASSUME NEW s, NEW t
    PROVE  Advances(s, t) <=> Proceeds(s, t) /\ KeepsDecode(s, t)
    BY DEF Advances, Proceeds, Evolves

LEMMA EvolvesAdvances ==
    ASSUME NEW s \in Surfaces, NEW t
    PROVE  /\ Progresses(s, t, 0) => Proceeds(s, t)
           /\ Evolves(s, t, 0) => Advances(s, t)
    <1>1. PICK m \in Nat : m = 0 /\ 0 - m = 0
          OBVIOUS
    <1>2. QED  BY <1>1 DEF Advances, Proceeds, Evolves

LEMMA WithTexturesEvolves ==
    ASSUME NEW s \in Surfaces, NEW n \in Nat
    PROVE  LET t == WithTextures(s, n) IN
           /\ t \in Surfaces /\ t.queue = s.queue /\ t.active = s.active /\ t.sent = s.sent
           /\ t.power = s.power /\ t.egl = s.egl /\ t.textures = s.textures + n
           /\ t.wall = s.wall /\ t.image = s.image /\ t.size = s.size /\ t.shown = s.shown
           /\ t.pending = s.pending /\ t.frame = s.frame /\ t.recreate = s.recreate
           /\ Coherent(s) /\ (AllowsEgl(s) \/ n = 0) => Evolves(s, t, 0 - n)
    <1>1. PICK a \in Int, m \in Int : a = s.textures /\ m = a + n
          BY SurfaceFields
    <1>2. PICK t : t = WithTextures(s, n)
          OBVIOUS
    <1>3. t = [s EXCEPT !.textures = m]
          BY <1>1, <1>2 DEF WithTextures
    <1>4. a - m = 0 - n /\ (n = 0 => m <= a)
          BY <1>1
    <1>5. /\ t \in Surfaces /\ t.queue = s.queue /\ t.active = s.active /\ t.sent = s.sent
          /\ t.power = s.power /\ t.egl = s.egl /\ t.textures = m
          /\ t.wall = s.wall /\ t.image = s.image /\ t.size = s.size /\ t.shown = s.shown
          /\ t.pending = s.pending /\ t.frame = s.frame /\ t.recreate = s.recreate
          /\ Coherent(s) /\ (AllowsEgl(s) \/ m <= s.textures) => Evolves(s, t, s.textures - m)
          BY <1>1, <1>3, CountedEvolves
    <1>6. QED  BY <1>1, <1>2, <1>4, <1>5

\* An output whose surface is to be made anew.
LEMMA MarkRecreateProceeds ==
    ASSUME NEW s \in Surfaces, NEW t, Progresses(s, t, 0)
    PROVE  /\ Progresses(s, MarkRecreate(t), 0)
           /\ MarkRecreate(t).active = t.active /\ MarkRecreate(t).sent = t.sent
           /\ MarkRecreate(t).queue = t.queue /\ MarkRecreate(t).image = t.image
           /\ MarkRecreate(t).wall = t.wall
    <1>1. t \in Surfaces /\ Coherent(t)
          BY DEF Progresses
    <1>2. Redrawn(t, MarkRecreate(t))
          BY <1>1, RedrawnMarks
    <1>3. Progresses(t, MarkRecreate(t), 0)
          BY <1>1, <1>2, RedrawnEvolves DEF Evolves
    <1>4. PICK z \in Int : z = 0 /\ z + z = z
          OBVIOUS
    <1>5. Progresses(s, MarkRecreate(t), z + z)
          BY <1>1, <1>3, <1>4, ProgressesTwice
    <1>6. QED  BY <1>2, <1>4, <1>5 DEF Redrawn

\* Each target comes to an outcome that fits it.
Proceeding(outcomes, targets) ==
    \A o \in targets : \A d \in outcomes[o] : d \in Outcomes /\ Progresses(surfaces[o], d.surface, 0)
Advancing(outcomes, targets) ==
    \A o \in targets : \A d \in outcomes[o] : d \in Outcomes /\ Evolves(surfaces[o], d.surface, 0)
Powered(targets, n) == n = 0 \/ \A o \in targets : AllowsEgl(surfaces[o])

AfterBatch(F, targets, r) ==
    /\ DOMAIN F = Live
    /\ \A o \in Live : Proceeds(surfaces[o], F[o])
    /\ \A o \in Live : o \notin targets => F[o] = surfaces[o]
    /\ \A o \in Live : o \notin DOMAIN r => F[o].active = surfaces[o].active /\ F[o].sent = {}
    /\ \A o \in DOMAIN r : F[o].active = r[o].surface.active

LEMMA ForgottenProceeds ==
    ASSUME RendererInv, NEW targets \in SUBSET Live, NEW n \in Nat,
           NEW outcomes, NEW r \in Attempts(targets, outcomes),
           Proceeding(outcomes, targets), Powered(targets, n),
           Tidy => n = 0 \/ DOMAIN r = targets,
           NEW F, F = Forgotten(targets, r, n)
    PROVE  AfterBatch(F, targets, r)
    <1>1. /\ DOMAIN F = Live
          /\ \A o \in Live : F[o] = IF o \notin targets THEN surfaces[o]
                    ELSE IF o \notin DOMAIN r THEN WithTextures(surfaces[o], n)
                    ELSE IF r[o].ok THEN r[o].surface ELSE MarkRecreate(r[o].surface)
          BY DEF Forgotten
    <1>2. DOMAIN r \in SUBSET targets /\ \A o \in DOMAIN r : r[o] \in outcomes[o]
          BY AttemptsFields
    <1>3. ASSUME NEW o \in Live
          PROVE  surfaces[o] \in Surfaces /\ Coherent(surfaces[o]) /\ surfaces[o].sent = {}
          BY InvFields
    <1>4. ASSUME NEW o \in Live \ targets
          PROVE  F[o] = surfaces[o] /\ Proceeds(surfaces[o], F[o])
      <2>1. Redrawn(surfaces[o], surfaces[o])
            BY <1>3, RedrawnMarks
      <2>2. QED  BY <1>1, <1>3, <2>1, RedrawnEvolves, EvolvesAdvances DEF Evolves
    <1>5. ASSUME NEW o \in targets, o \notin DOMAIN r
          PROVE  Proceeds(surfaces[o], F[o]) /\ F[o].active = surfaces[o].active /\ F[o].sent = {}
      <2>1. F[o] = WithTextures(surfaces[o], n) /\ (Tidy => n = 0) /\ (n = 0 \/ AllowsEgl(surfaces[o]))
            BY <1>1, <1>5 DEF Powered
      <2>2. /\ WithTextures(surfaces[o], n).active = surfaces[o].active
            /\ WithTextures(surfaces[o], n).sent = surfaces[o].sent
            /\ Evolves(surfaces[o], WithTextures(surfaces[o], n), 0 - n)
            BY <1>3, <2>1, WithTexturesEvolves
      <2>3. QED  BY <1>3, <2>1, <2>2 DEF Proceeds, Evolves
    <1>6. ASSUME NEW o \in DOMAIN r
          PROVE  o \in Live /\ Proceeds(surfaces[o], F[o]) /\ F[o].active = r[o].surface.active
      <2>1. r[o] \in Outcomes /\ Progresses(surfaces[o], r[o].surface, 0)
            BY <1>2 DEF Proceeding
      <2>2. CASE r[o].ok
            BY <1>1, <1>2, <1>3, <2>1, <2>2, EvolvesAdvances
      <2>3. CASE ~r[o].ok
            BY <1>1, <1>2, <1>3, <2>1, <2>3, EvolvesAdvances, MarkRecreateProceeds
      <2>4. QED  BY <2>2, <2>3
    <1>7. ASSUME NEW o \in Live
          PROVE  Proceeds(surfaces[o], F[o])
          BY <1>4, <1>5, <1>6
    <1>8. ASSUME NEW o \in Live \ DOMAIN r
          PROVE  F[o].active = surfaces[o].active /\ F[o].sent = {}
          BY <1>3, <1>4, <1>5
    <1>9. QED  BY <1>1, <1>4, <1>6, <1>7, <1>8 DEF AfterBatch

\* The same, when no output comes to wait for another decode.
LEMMA ForgottenAdvances ==
    ASSUME RendererInv, NEW targets \in SUBSET Live, NEW n \in Nat,
           NEW outcomes, NEW r \in Attempts(targets, outcomes),
           Advancing(outcomes, targets), Powered(targets, n),
           Tidy => n = 0 \/ DOMAIN r = targets,
           NEW F, F = Forgotten(targets, r, n)
    PROVE  /\ DOMAIN F = Live
           /\ \A o \in Live : Advances(surfaces[o], F[o])
           /\ \A o \in Live : o \notin targets => F[o] = surfaces[o]
    <1>1. Proceeding(outcomes, targets)
          BY DEF Proceeding, Advancing, Evolves
    <1>2. AfterBatch(F, targets, r)
          BY <1>1, ForgottenProceeds
    <1>2a. /\ DOMAIN F = Live
           /\ \A o \in Live : Proceeds(surfaces[o], F[o])
           /\ \A o \in Live : o \notin targets => F[o] = surfaces[o]
           /\ \A o \in Live : o \notin DOMAIN r => F[o].active = surfaces[o].active
           /\ \A o \in DOMAIN r : F[o].active = r[o].surface.active
           BY <1>2 DEF AfterBatch
    <1>3. ASSUME NEW o \in Live
          PROVE  KeepsDecode(surfaces[o], F[o])
      <2>1. CASE o \in DOMAIN r
        <3>1. KeepsDecode(surfaces[o], r[o].surface)
              BY <2>1, AttemptsFields DEF Evolves, Advancing
        <3>2. QED  BY <1>2a, <2>1, <3>1 DEF KeepsDecode
      <2>2. CASE o \notin DOMAIN r
            BY <1>2a, <2>2 DEF KeepsDecode
      <2>3. QED  BY <2>1, <2>2
    <1>4. QED  BY <1>2a, <1>3, AdvancesProceeds

(***************************************************************************)
(* Requests of the supervisor: cuts and clears.                            *)
(***************************************************************************)
LEMMA BatchFields ==
    ASSUME RendererInv, NEW images \in Batches, Renderable(DOMAIN images)
    PROVE  /\ DOMAIN images \in SUBSET Live /\ DOMAIN images \in SUBSET Outputs
           /\ IsFiniteSet(DOMAIN images)
           /\ \A o \in DOMAIN images : images[o] \in Images /\ AllowsEgl(surfaces[o])
    <1>1. PICK targets \in SUBSET Outputs : images \in [targets -> Images]
          BY DEF Batches
    <1>2. DOMAIN images \in SUBSET Live /\ \A o \in DOMAIN images : AllowsEgl(surfaces[o])
          BY DEF Renderable
    <1>3. IsFiniteSet(DOMAIN images)
          BY <1>2, InvFields, FS_Subset
    <1>4. QED  BY <1>1, <1>2, <1>3

LEMMA CutEvolves ==
    ASSUME NEW s \in Surfaces, Coherent(s), AllowsEgl(s), NEW image \in Images,
           NEW r \in RenderCurrent(SetCut(WithTextures(s, 1), image, image))
    PROVE  r \in Outcomes /\ Evolves(s, r.surface, 0)
    <1>1. PICK one \in Nat : one = 1
          OBVIOUS
    <1>2. PICK w : w = WithTextures(s, one)
          OBVIOUS
    <1>3. w \in Surfaces /\ Evolves(s, w, 0 - one)
          BY <1>2, WithTexturesEvolves
    <1>4. PICK t : t = SetCut(w, image, image)
          OBVIOUS
    <1>5. Coherent(w)
          BY <1>3 DEF Evolves, Progresses
    <1>6. t \in Surfaces /\ Evolves(w, t, one)
          BY <1>1, <1>3, <1>4, <1>5, SetCutEvolves
    <1>7. r \in RenderCurrent(t)
          BY <1>1, <1>2, <1>4
    <1>8. Coherent(t)
          BY <1>6 DEF Evolves, Progresses
    <1>9. r \in Outcomes /\ Redrawn(t, r.surface)
          BY <1>6, <1>7, RendersRedraw
    <1>10. Evolves(t, r.surface, 0)
          BY <1>6, <1>8, <1>9, RedrawnEvolves
    <1>11. PICK z \in Int, m \in Int : z = 0 /\ m = 0 - one /\ m + one = z /\ z + z = z
          OBVIOUS
    <1>12. Evolves(s, t, m + one)
          BY <1>1, <1>3, <1>6, <1>11, EvolvesTwice
    <1>13. Evolves(s, r.surface, z + z)
          BY <1>10, <1>11, <1>12, EvolvesTwice
    <1>14. QED  BY <1>9, <1>11, <1>13

LEMMA CutAllKeeps ==
    ASSUME RendererInv, NEW images \in Batches, Renderable(DOMAIN images),
           NEW kind \in Requests \ {"pairwise", "clear"}, CutAll(kind, images)
    PROVE  RendererInv' /\ StepKept
    <1>1. PICK targets \in SUBSET Live : targets = DOMAIN images /\ targets \in SUBSET Outputs
          BY BatchFields
    <1>2. PICK first : first = [o \in targets |->
                    RenderCurrent(SetCut(WithTextures(surfaces[o], 1), images[o], images[o]))]
          OBVIOUS
    <1>3. PICK r \in Attempts(targets, first) : Handled(Forgotten(targets, r, 1), {}) /\ Answers(r, kind)
          BY <1>1, <1>2 DEF CutAll
    <1>4. PICK one \in Nat : one = 1
          OBVIOUS
    <1>5. Advancing(first, targets)
      <2>1. ASSUME NEW o \in targets, NEW d \in first[o]
            PROVE  d \in Outcomes /\ Evolves(surfaces[o], d.surface, 0)
        <3>1. d \in RenderCurrent(SetCut(WithTextures(surfaces[o], 1), images[o], images[o]))
              BY <1>2, <2>1
        <3>2. /\ surfaces[o] \in Surfaces /\ Coherent(surfaces[o]) /\ AllowsEgl(surfaces[o])
              /\ images[o] \in Images
              BY <1>1, InvFields, BatchFields
        <3>3. QED  BY <3>1, <3>2, CutEvolves
      <2>2. QED  BY <2>1 DEF Advancing
    <1>6. Powered(targets, one)
          BY <1>1, BatchFields DEF Powered
    <1>7. Tidy => DOMAIN r = targets
      <2>1. ASSUME Faults \cap {"create", "draw", "swap"} = {}, NEW o \in targets, NEW d \in first[o]
            PROVE  d.ok
        <3>1. PICK t : t = SetCut(WithTextures(surfaces[o], one), images[o], images[o])
              OBVIOUS
        <3>2. d \in RenderCurrent(t)
              BY <1>2, <1>4, <2>1, <3>1
        <3>3. WithTextures(surfaces[o], one) \in Surfaces /\ images[o] \in Images
              BY <1>1, BatchFields, InvFields, WithTexturesEvolves
        <3>4. t \in Surfaces
              BY <3>1, <3>3, SetCutEvolves
        <3>5. QED  BY <2>1, <3>2, <3>4, DrawsSucceed
      <2>2. QED  BY <1>1, <2>1, AllReached
    <1>8. PICK F : F = Forgotten(targets, r, one)
          OBVIOUS
    <1>9. DOMAIN F = Live /\ \A o \in Live : Advances(surfaces[o], F[o])
          BY <1>5, <1>6, <1>7, <1>8, ForgottenAdvances
    <1>10. Handled(F, {}) /\ refused' \in {"none"} \cup Requests
          BY <1>3, <1>4, <1>8 DEF Answers
    <1>11. QED  BY <1>9, <1>10, HandledAdvance

LEMMA SetCutWallpapersKeeps ==
    ASSUME RendererInv, NEW images \in Batches, "cut" \in Requests, SetCutWallpapers(images)
    PROVE  RendererInv' /\ StepKept
    BY CutAllKeeps DEF SetCutWallpapers

LEMMA RefusesKeeps ==
    ASSUME RendererInv, NEW kind \in Requests, Refuses(kind)
    PROVE  RendererInv' /\ StepKept
    <1>1. surfaces' = surfaces /\ jobs' = jobs /\ lost' = lost /\ Live' = Live
          BY DEF Refuses, Live
    <1>2. dispatched' \in BOOLEAN /\ refused' \in {"none"} \cup Requests
          BY DEF Refuses
    <1>3. TypeOK'
          BY <1>1, <1>2 DEF RendererInv, TypeOK
    <1>4. RendererInv'
          BY <1>1, <1>3 DEF RendererInv
    <1>5. ASSUME NEW o \in Live
          PROVE  Kept(surfaces[o], surfaces'[o])
      <2>1. surfaces[o] \in Surfaces /\ Coherent(surfaces[o])
            BY InvFields
      <2>2. Evolves(surfaces[o], surfaces[o], 0)
            BY <2>1, RedrawnMarks, RedrawnEvolves
      <2>3. QED  BY <1>1, <2>1, <2>2, UntouchedKept DEF Evolves, Progresses
    <1>6. QED  BY <1>1, <1>4, <1>5 DEF StepKept

\* What a clear makes of an output before it is drawn.
Emptied(s) == [Discard(ClearQueue(s)) EXCEPT !.image = NoImage]
Blanked(s) == [s EXCEPT !.wall = NoImage, !.textures = @ - Texture(s.wall)]

LEMMA EmptiedEvolves ==
    ASSUME NEW s \in Surfaces, Coherent(s)
    PROVE  LET t == Emptied(s) IN
           t \in Surfaces /\ ~IsRunning(t) /\ t.queue = <<>> /\ t.image = NoImage /\ Evolves(s, t, 0)
    <1>1. PICK u \in Surfaces : u = ClearQueue(s) /\ u.queue = <<>> /\ Evolves(s, u, 0)
          BY ClearQueueEvolves
    <1>2. Coherent(u)
          BY <1>1 DEF Evolves, Progresses
    <1>3. PICK v \in Surfaces : v = Discard(u) /\ ~IsRunning(v) /\ v.queue = <<>> /\ Evolves(u, v, 0)
          BY <1>1, <1>2, DiscardEvolves
    <1>4. Coherent(v)
          BY <1>3 DEF Evolves, Progresses
    <1>5. PICK t : t = [v EXCEPT !.image = NoImage] /\ t = Emptied(s)
          BY <1>1, <1>3 DEF Emptied
    <1>6. /\ t \in Surfaces /\ t.image = NoImage
          /\ t.power = v.power /\ t.wall = v.wall /\ t.active = v.active /\ t.queue = v.queue
          /\ t.textures = v.textures /\ t.sent = v.sent /\ t.egl = v.egl /\ t.shown = v.shown
      <2>1. t \in Surfaces
            BY <1>5 DEF Surfaces, Pictures
      <2>2. QED  BY <1>5, <2>1 DEF Surfaces
    <1>7. Evolves(v, t, 0)
      <2>1. Coherent(t)
            BY <1>4, <1>6 DEF Coherent
      <2>2. Surplus(t) = Surplus(v) - 0
        <3>1. Surplus(t) = Surplus(v)
              BY <1>6 DEF Surplus, Owned
        <3>2. QED  BY <3>1, SurplusType
      <2>3. Untouched(v, t)
            BY <1>6, SurfaceFields DEF Untouched
      <2>4. Behind(v, t) /\ KeepsDecode(v, t)
            BY <1>6, BehindSame DEF KeepsDecode
      <2>5. QED  BY <1>6, <2>1, <2>2, <2>3, <2>4 DEF Evolves, Progresses
    <1>8. PICK z \in Int : z = 0 /\ z + z = z
          OBVIOUS
    <1>9. Evolves(s, v, z + z)
          BY <1>1, <1>3, <1>8, EvolvesTwice
    <1>10. Evolves(s, t, z + z)
          BY <1>7, <1>8, <1>9, EvolvesTwice
    <1>11. ~IsRunning(t) /\ t.queue = <<>>
          BY <1>3, <1>6 DEF IsRunning
    <1>12. QED  BY <1>5, <1>6, <1>8, <1>10, <1>11

LEMMA BlankedEvolves ==
    ASSUME NEW s \in Surfaces, Coherent(s)
    PROVE  LET t == Blanked(s) IN
           /\ t \in Surfaces /\ t.wall = NoImage /\ t.active = s.active /\ t.queue = s.queue
           /\ t.image = s.image /\ t.shown = s.shown /\ t.pending = s.pending /\ t.frame = s.frame
           /\ t.egl = s.egl /\ t.size = s.size
           /\ Evolves(s, t, 0)
    <1>1. PICK a \in Int, b \in {0, 1}, m \in Int : a = s.textures /\ b = Texture(s.wall) /\ m = a - b
          BY SurfaceFields, SurplusType
    <1>2. PICK t : t = [s EXCEPT !.wall = NoImage, !.textures = m] /\ t = Blanked(s)
          BY <1>1 DEF Blanked
    <1>3. t \in Surfaces
          BY <1>2 DEF Surfaces, Pictures
    <1>4. /\ t.wall = NoImage /\ t.active = s.active /\ t.queue = s.queue
          /\ t.image = s.image /\ t.shown = s.shown /\ t.pending = s.pending /\ t.frame = s.frame
          /\ t.egl = s.egl /\ t.size = s.size
          /\ t.power = s.power /\ t.textures = m /\ t.sent = s.sent
          BY <1>2 DEF Surfaces
    <1>5. Coherent(t)
          BY <1>4 DEF Coherent
    <1>6. Surplus(t) = Surplus(s) - 0
      <2>1. PICK o \in Int : o = Texture(s.active.old) + Texture(s.active.new) + s.active.aux + TexturesIn(s.queue)
            BY ActiveFields, QueueFields, SurplusType
      <2>2. Owned(s) = b + o /\ Owned(t) = 0 + o
        <3>1. PICK x \in {0, 1} : x = Texture(s.active.old)
              BY SurplusType
        <3>2. PICK y \in {0, 1} : y = Texture(s.active.new)
              BY SurplusType
        <3>3. PICK c \in {0, 1} : c = s.active.aux
              BY ActiveFields
        <3>4. PICK q \in Nat : q = TexturesIn(s.queue)
              BY QueueFields
        <3>5. Owned(s) = b + x + y + c + q
              BY <1>1, <3>1, <3>2, <3>3, <3>4 DEF Owned
        <3>6. Texture(t.wall) = 0
              BY <1>4 DEF Texture
        <3>7. Owned(t) = 0 + x + y + c + q
              BY <1>4, <3>1, <3>2, <3>3, <3>4, <3>6 DEF Owned
        <3>8. o = x + y + c + q
              BY <2>1, <3>1, <3>2, <3>3, <3>4
        <3>9. b \in Int /\ x \in Int /\ y \in Int /\ c \in Int /\ q \in Int
              OBVIOUS
        <3>10. QED  BY <3>5, <3>7, <3>8, <3>9
      <2>3. Surplus(s) = a - (b + o) /\ Surplus(t) = m - (0 + o)
            BY <1>1, <1>4, <2>2 DEF Surplus
      <2>4. b \in Int
            OBVIOUS
      <2>5. QED  BY <1>1, <2>1, <2>3, <2>4
    <1>7. Untouched(s, t)
      <2>1. b \in Int /\ 0 <= b
            OBVIOUS
      <2>2. m <= a
            BY <1>1, <2>1
      <2>3. QED  BY <1>1, <1>4, <2>2 DEF Untouched
    <1>8. Behind(s, t) /\ KeepsDecode(s, t)
          BY <1>4, BehindSame DEF KeepsDecode
    <1>9. Evolves(s, t, 0)
          BY <1>3, <1>5, <1>6, <1>7, <1>8 DEF Evolves, Progresses
    <1>10. QED  BY <1>2, <1>3, <1>4, <1>9

\* The outcomes of a clear on one output.
Cleared(s) == {IF d.ok THEN Done(Blanked(d.surface)) ELSE d : d \in RenderClear(Emptied(s))}

LEMMA ClearedEvolves ==
    ASSUME NEW s \in Surfaces, Coherent(s), NEW r \in Cleared(s)
    PROVE  r \in Outcomes /\ Evolves(s, r.surface, 0)
    <1>1. PICK t \in Surfaces : t = Emptied(s) /\ Evolves(s, t, 0)
          BY EmptiedEvolves
    <1>2. PICK d \in RenderClear(t) : r = IF d.ok THEN Done(Blanked(d.surface)) ELSE d
          BY <1>1 DEF Cleared
    <1>3. d \in Outcomes /\ Redrawn(t, d.surface) /\ Coherent(t)
          BY <1>1, <1>2, RendersRedraw DEF Evolves, Progresses
    <1>4. Evolves(t, d.surface, 0) /\ d.surface \in Surfaces /\ Coherent(d.surface)
          BY <1>3, RedrawnEvolves, OutcomeFields DEF Evolves, Progresses
    <1>5. PICK z \in Int : z = 0 /\ z + z = z
          OBVIOUS
    <1>6. Evolves(s, d.surface, z + z)
          BY <1>1, <1>4, <1>5, EvolvesTwice
    <1>7. Blanked(d.surface) \in Surfaces /\ Evolves(d.surface, Blanked(d.surface), 0)
          BY <1>4, BlankedEvolves
    <1>8. Evolves(s, Blanked(d.surface), z + z)
          BY <1>5, <1>6, <1>7, EvolvesTwice
    <1>9. CASE d.ok
          BY <1>2, <1>5, <1>7, <1>8, <1>9, OutcomeType
    <1>10. CASE ~d.ok
          BY <1>2, <1>3, <1>5, <1>6, <1>10
    <1>11. QED  BY <1>9, <1>10

LEMMA ClearKeeps ==
    ASSUME RendererInv, NEW asked \in SUBSET Outputs, "clear" \in Requests, Clear(asked)
    PROVE  RendererInv' /\ StepKept
    <1>1. PICK targets \in SUBSET Live : targets = asked \cap Live
          OBVIOUS
    <1>2. PICK first : first = [o \in Live |-> Cleared(surfaces[o])]
          OBVIOUS
    <1>3. PICK r \in Attempts(targets, first) : Handled(Forgotten(targets, r, 0), {}) /\ Answers(r, "clear")
          BY <1>1, <1>2 DEF Clear, Cleared, Emptied, Blanked
    <1>4. PICK none \in Nat : none = 0
          OBVIOUS
    <1>5. Advancing(first, targets)
      <2>1. ASSUME NEW o \in targets, NEW d \in first[o]
            PROVE  d \in Outcomes /\ Evolves(surfaces[o], d.surface, 0)
            BY <1>2, <2>1, InvFields, ClearedEvolves
      <2>2. QED  BY <2>1 DEF Advancing
    <1>6. Powered(targets, none)
          BY <1>4 DEF Powered
    <1>7. PICK F : F = Forgotten(targets, r, none)
          OBVIOUS
    <1>8. DOMAIN F = Live /\ \A o \in Live : Advances(surfaces[o], F[o])
          BY <1>4, <1>5, <1>6, <1>7, ForgottenAdvances
    <1>9. Handled(F, {}) /\ refused' \in {"none"} \cup Requests
          BY <1>3, <1>4, <1>7 DEF Answers
    <1>10. QED  BY <1>8, <1>9, HandledAdvance

(***************************************************************************)
(* Requests of the supervisor: transitions.                                *)
(***************************************************************************)
LEMMA FirstFramesProceed ==
    ASSUME NEW s \in Surfaces, Coherent(s), AllowsEgl(s), NEW kind \in Kinds, NEW image \in Images,
           NEW content \in {NoImage, image}, NEW aux \in {0, 1}, NEW decode \in Nat,
           decode # 0 => content = NoImage, NEW n \in Nat, n = Texture(content) + aux,
           NEW r \in FirstFrames(WithTextures(s, n), kind, image, content, aux, decode)
    PROVE  /\ r \in Outcomes /\ Progresses(s, r.surface, 0)
           /\ r.surface.active.decode # 0 =>
                r.surface.active.decode = decode /\ r.surface.active.target = image
    <1>1. PICK w \in Surfaces : w = WithTextures(s, n) /\ Evolves(s, w, 0 - n) /\ w.power = s.power
          BY WithTexturesEvolves
    <1>2. PICK t \in Starts(w, kind, image, content, aux, decode) : r \in RenderActive(t)
          BY <1>1 DEF FirstFrames
    <1>3. content \in Pictures
          BY DEF Pictures
    <1>4. Coherent(w)
          BY <1>1 DEF Evolves, Progresses
    <1>5. t \in Surfaces /\ t.active.decode = decode /\ t.active.target = image
          BY <1>1, <1>2, <1>3, StartsDetails
    <1>6. Progresses(w, t, n)
          BY <1>1, <1>2, <1>4, StartsProgress
    <1>7. Coherent(t)
          BY <1>6 DEF Progresses
    <1>8. r \in Outcomes /\ Evolves(t, r.surface, 0)
          BY <1>2, <1>5, <1>7, RenderActiveEvolves
    <1>9. PICK z \in Int, m \in Int : z = 0 /\ m = 0 - n /\ m + n = z /\ z + z = z
          OBVIOUS
    <1>10. Progresses(s, w, m) /\ Progresses(t, r.surface, z)
          BY <1>1, <1>8, <1>9 DEF Evolves
    <1>11. Progresses(s, t, m + n)
          BY <1>1, <1>6, <1>10, ProgressesTwice
    <1>12. Progresses(s, r.surface, z + z)
          BY <1>9, <1>10, <1>11, ProgressesTwice
    <1>13. KeepsDecode(t, r.surface)
          BY <1>8 DEF Evolves
    <1>14. QED  BY <1>5, <1>8, <1>9, <1>12, <1>13 DEF KeepsDecode

LEMMA FirstFramesSucceed ==
    ASSUME Faults \cap {"create", "draw", "swap"} = {}, NEW s \in Surfaces, NEW kind \in Kinds,
           NEW image \in Images, NEW content \in Pictures, NEW aux \in {0, 1}, NEW decode \in Nat,
           NEW r \in FirstFrames(s, kind, image, content, aux, decode)
    PROVE  r.ok
    <1>1. PICK t \in Starts(s, kind, image, content, aux, decode) : r \in RenderActive(t)
          BY DEF FirstFrames
    <1>2. t \in Surfaces
          BY <1>1, StartsType
    <1>3. QED  BY <1>1, <1>2, RenderActiveSucceeds

\* A wall that comes to wait.
Waits(q) == q \in Queued /\ q.state = "path" /\ q.content = NoImage /\ (q.kind = "canvas" => q.aux = 0)
Joined(s, q) == [WithTextures(s, q.aux) EXCEPT !.queue = Append(@, q)]

LEMMA JoinedFields ==
    ASSUME NEW s \in Surfaces, Coherent(s), NEW q, Waits(q)
    PROVE  LET u == Joined(s, q) IN
           /\ u \in Surfaces /\ u.queue = Append(s.queue, q) /\ u.active = s.active /\ u.sent = s.sent
           /\ u.power = s.power /\ u.image = s.image /\ u.wall = s.wall
           /\ Coherent(u) /\ Surplus(u) = Surplus(s)
    <1> DEFINE u == Joined(s, q)
    <1>1. q \in Queued /\ q.aux \in {0, 1} /\ q.state = "path" /\ q.content = NoImage
          BY QueuedFields DEF Waits
    <1>2. PICK n \in Nat : n = q.aux
          BY <1>1
    <1>3. PICK w \in Surfaces : /\ w = WithTextures(s, n) /\ w.queue = s.queue /\ w.active = s.active
                                /\ w.sent = s.sent /\ w.power = s.power /\ w.textures = s.textures + n
                                /\ w.wall = s.wall /\ w.image = s.image
          BY WithTexturesEvolves
    <1>4. u = [w EXCEPT !.queue = Append(s.queue, q)]
          BY <1>2, <1>3 DEF Joined
    <1>5. s.queue \in Seq(Queued) /\ Append(s.queue, q) \in Seq(Queued)
          BY <1>1, SurfaceFields, AppendProperties
    <1> HIDE DEF u
    <1>6. u \in Surfaces
          BY <1>4, <1>5 DEF Surfaces
    <1>7. /\ u.queue = Append(s.queue, q) /\ u.active = s.active /\ u.sent = s.sent
          /\ u.power = s.power /\ u.textures = s.textures + n /\ u.wall = s.wall /\ u.image = s.image
          BY <1>3, <1>4 DEF Surfaces
    <1>8. Coherent(u)
      <2>1. PICK a \in Nat : a = Len(s.queue)
            BY QueueFields
      <2>2. /\ Len(u.queue) = a + 1
            /\ \A i \in 1 .. a : u.queue[i] = s.queue[i]
            /\ u.queue[a + 1] = q
            BY <1>1, <1>5, <1>7, <2>1, AppendProperties
      <2>3. ASSUME NEW i \in 1 .. Len(u.queue)
            PROVE  /\ u.queue[i].content \in {NoImage, u.queue[i].image}
                   /\ u.queue[i].kind = "canvas" => u.queue[i].aux = 0
        <3>1. CASE i \in 1 .. a
              BY <2>1, <2>2, <3>1 DEF Coherent
        <3>2. CASE i = a + 1
              BY <1>1, <2>2, <3>2 DEF Waits
        <3>3. QED  BY <2>1, <2>2, <3>1, <3>2
      <2>4. QED  BY <1>7, <2>3 DEF Coherent
    <1>9. Surplus(u) = Surplus(s)
      <2>1. PICK tq \in Nat : tq = TexturesIn(s.queue)
            BY QueueFields
      <2>2. TexturesIn(u.queue) = tq + n
        <3>1. Ahead(q) = 0
              BY <1>1 DEF Ahead
        <3>2. TexturesIn(u.queue) = TexturesIn(s.queue) + q.aux + Ahead(q)
              BY <1>1, <1>5, <1>7, TexturesInAppend
        <3>3. QED  BY <1>2, <2>1, <3>1, <3>2
      <2>3. PICK b \in Int, x \in Int, y \in Int, c \in Int, m \in Int :
                   /\ b = Texture(s.wall) /\ x = Texture(s.active.old) /\ y = Texture(s.active.new)
                   /\ c = s.active.aux /\ m = s.textures
        <3>1. PICK b \in Int : b = Texture(s.wall)
              BY SurplusType
        <3>2. PICK x \in Int : x = Texture(s.active.old)
              BY SurplusType
        <3>3. PICK y \in Int : y = Texture(s.active.new)
              BY SurplusType
        <3>4. PICK c \in Int : c = s.active.aux
              BY ActiveFields
        <3>5. PICK m \in Int : m = s.textures
              BY SurfaceFields
        <3>6. QED  BY <3>1, <3>2, <3>3, <3>4, <3>5
      <2>4. Owned(s) = b + x + y + c + tq /\ Owned(u) = b + x + y + c + (tq + n)
            BY <1>7, <2>1, <2>2, <2>3 DEF Owned
      <2>5. Surplus(s) = m - (b + x + y + c + tq) /\ Surplus(u) = m + n - (b + x + y + c + (tq + n))
            BY <1>7, <2>3, <2>4 DEF Surplus
      <2>6. QED  BY <2>5
    <1>10. QED  BY <1>6, <1>7, <1>8, <1>9 DEF u

LEMMA EnqueueKeeps ==
    ASSUME NEW s \in Surfaces, Sound(s), AllowsEgl(s), IsFiniteSet(s.sent), NEW q, Waits(q)
    PROVE  LET t == Enqueue(WithTextures(s, q.aux), q) IN
           /\ Sound(t) /\ IsFiniteSet(t.sent) /\ Kept(s, t)
           /\ Behind(Joined(s, q), t) /\ t.active = s.active
    <1>0. Coherent(s)
          BY DEF Sound
    <1>1. PICK u \in Surfaces : /\ u = Joined(s, q) /\ u.queue = Append(s.queue, q) /\ u.active = s.active
                                /\ u.sent = s.sent /\ u.power = s.power /\ Coherent(u)
                                /\ Surplus(u) = Surplus(s)
          BY <1>0, JoinedFields
    <1>2. PICK t : t = Lookahead(u) /\ t = Enqueue(WithTextures(s, q.aux), q)
          BY <1>1 DEF Enqueue, Joined
    <1>3. /\ t \in Surfaces /\ Behind(u, t) /\ t.active = u.active /\ t.power = u.power
          /\ Len(t.queue) = Len(u.queue)
          /\ \A i \in 1 .. Len(u.queue) : Later(u.queue[i], t.queue[i])
      <2>1. LET v == Lookahead(u) IN
            /\ v \in Surfaces /\ Behind(u, v) /\ v.active = u.active /\ v.power = u.power
            /\ Len(v.queue) = Len(u.queue)
            /\ \A i \in 1 .. Len(u.queue) : Later(u.queue[i], v.queue[i])
            BY LookaheadBehind
      <2>2. QED  BY <1>2, <2>1
    <1>4. Evolves(u, t, 0)
          BY <1>1, <1>2, LookaheadEvolves
    <1>5. Sound(t)
      <2>1. Coherent(t) /\ Surplus(t) = Surplus(u) - 0
            BY <1>4 DEF Evolves, Progresses
      <2>2. Surplus(t) = Surplus(s)
            BY <1>1, <2>1, SurplusType
      <2>3. QED  BY <1>3, <2>1, <2>2 DEF Sound
    <1>6. IsFiniteSet(t.sent)
          BY <1>1, <1>3, SentFinite
    <1>7. Fifo(s, t)
      <2>1. PICK a \in Nat, none \in Int, one \in 0 .. 1 : a = Len(s.queue) /\ none = 0 /\ one = 1
            BY QueueFields
      <2>2. /\ Len(u.queue) = a + 1 /\ \A i \in 1 .. a : u.queue[i] = s.queue[i]
            BY <1>1, <2>1, SurfaceFields, AppendProperties DEF Waits
      <2>3. Len(t.queue) = Len(s.queue) - none + one /\ none \in 0 .. Len(s.queue)
        <3>1. Len(t.queue) = a + 1
              BY <1>3, <2>2
        <3>2. a + 1 = a - none + one
              BY <2>1
        <3>3. QED  BY <2>1, <3>1, <3>2
      <2>4. ASSUME NEW i \in 1 .. Len(s.queue) - none
            PROVE  t.queue[i].id = s.queue[i + none].id /\ t.queue[i].image = s.queue[i + none].image
        <3>1. i \in 1 .. a /\ i + none = i /\ i \in 1 .. Len(u.queue)
              BY <2>1, <2>2
        <3>2. Later(u.queue[i], t.queue[i]) /\ u.queue[i] = s.queue[i]
              BY <1>3, <2>2, <3>1
        <3>3. QED  BY <3>1, <3>2 DEF Later
      <2>5. QED  BY <1>3, <2>3, <2>4, ShiftedFifo
    <1>8. OffKept(s, t)
          BY DEF OffKept, AllowsEgl
    <1>9. QED  BY <1>1, <1>2, <1>3, <1>5, <1>6, <1>7, <1>8 DEF Kept

\* The set of outputs is as it should be, with the jobs Q out.
Standing(T, Q) ==
    /\ DOMAIN T = Live
    /\ \A o \in Live : Sound(T[o]) /\ IsFiniteSet(T[o].sent) /\ Kept(surfaces[o], T[o])
    /\ Aligned(T, Q)

LEMMA WithQueuedKeeps ==
    ASSUME RendererInv, NEW images \in Batches, Renderable(DOMAIN images), NEW kind \in Kinds,
           NEW aux \in {0, 1}, kind = "canvas" => aux = 0,
           NEW F, NEW K, Standing(F, K \cup Sending(F)),
           \A o \in DOMAIN images \ Idle(DOMAIN images) :
             F[o] = surfaces[o] /\ Unused(F, K \cup Sending(F), FreshIds(DOMAIN images)[o]),
           NEW G, G = WithQueued(F, kind, images, aux)
    PROVE  Standing(G, K \cup Sending(G))
    <1>0. PICK id : id = FreshIds(DOMAIN images)
          OBVIOUS
    <1>1. PICK B \in SUBSET Live : B = DOMAIN images \ Idle(DOMAIN images) /\ B \subseteq DOMAIN images
          BY BatchFields
    <1>1a. PICK q : q = [o \in B |-> [id |-> id[o], image |-> images[o], kind |-> kind, aux |-> aux,
                                      content |-> NoImage, state |-> "path"]]
           OBVIOUS
    <1>2. /\ DOMAIN F = Live
          /\ \A o \in Live : Sound(F[o]) /\ IsFiniteSet(F[o].sent) /\ Kept(surfaces[o], F[o])
          /\ Aligned(F, K \cup Sending(F))
          BY DEF Standing
    <1>3. ASSUME NEW o \in B
          PROVE  /\ Waits(q[o]) /\ q[o].id = id[o] /\ q[o].aux = aux
                 /\ q[o] = [id |-> id[o], image |-> images[o], kind |-> kind, aux |-> aux,
                            content |-> NoImage, state |-> "path"]
                 /\ F[o] = surfaces[o] /\ Unused(F, K \cup Sending(F), id[o])
                 /\ AllowsEgl(F[o])
      <2>1. /\ F[o] = surfaces[o] /\ Unused(F, K \cup Sending(F), id[o])
            /\ AllowsEgl(surfaces[o]) /\ images[o] \in Images
            BY <1>0, <1>1, BatchFields
      <2>2. id[o] \in Nat \ {0}
            BY <2>1 DEF Unused
      <2>3. q[o] = [id |-> id[o], image |-> images[o], kind |-> kind, aux |-> aux,
                    content |-> NoImage, state |-> "path"]
            BY <1>1a
      <2>4. q[o] \in Queued
            BY <2>1, <2>2, <2>3 DEF Queued, Pictures
      <2>5. /\ q[o].id = id[o] /\ q[o].aux = aux /\ q[o].state = "path" /\ q[o].content = NoImage
            /\ q[o].kind = kind
            BY <2>3
      <2>6. QED  BY <2>1, <2>3, <2>4, <2>5 DEF Waits
    <1>4. \A o, p \in B : id[o] = id[p] => o = p
          BY <1>0, <1>1, BatchFields, InvFields, FreshIdsUnused
    <1>5. /\ DOMAIN G = Live
          /\ \A o \in Live : G[o] = IF o \in B
                THEN Enqueue(WithTextures(F[o], aux),
                             [id |-> id[o], image |-> images[o], kind |-> kind, aux |-> aux,
                              content |-> NoImage, state |-> "path"])
                ELSE F[o]
          BY <1>0, <1>1 DEF WithQueued
    <1>6. ASSUME NEW o \in B
          PROVE  G[o] = Enqueue(WithTextures(F[o], q[o].aux), q[o])
          BY <1>3, <1>5
    <1>6a. PICK M : M = [o \in Live |-> IF o \in B THEN Joined(F[o], q[o]) ELSE F[o]]
           OBVIOUS
    <1>7. ASSUME NEW o \in B
          PROVE  /\ M[o] = Joined(F[o], q[o]) /\ M[o] \in Surfaces
                 /\ M[o].queue = Append(F[o].queue, q[o]) /\ M[o].active = F[o].active
                 /\ M[o].sent = F[o].sent
                 /\ Sound(G[o]) /\ IsFiniteSet(G[o].sent) /\ Kept(surfaces[o], G[o])
                 /\ Behind(M[o], G[o]) /\ G[o].active = M[o].active
      <2>1. M[o] = Joined(F[o], q[o])
            BY <1>6a
      <2>2. /\ F[o] \in Surfaces /\ Sound(F[o]) /\ Coherent(F[o]) /\ IsFiniteSet(F[o].sent)
            /\ F[o] = surfaces[o] /\ AllowsEgl(F[o]) /\ Waits(q[o])
            BY <1>2, <1>3 DEF Sound
      <2>3. /\ M[o] \in Surfaces /\ M[o].queue = Append(F[o].queue, q[o]) /\ M[o].active = F[o].active
            /\ M[o].sent = F[o].sent
            BY <2>1, <2>2, JoinedFields
      <2>4. /\ Sound(G[o]) /\ IsFiniteSet(G[o].sent) /\ Kept(F[o], G[o])
            /\ Behind(Joined(F[o], q[o]), G[o]) /\ G[o].active = F[o].active
            BY <2>2, <1>6, EnqueueKeeps
      <2>5. QED  BY <2>1, <2>2, <2>3, <2>4
    <1>8. ASSUME NEW o \in Live, o \notin B
          PROVE  M[o] = F[o] /\ G[o] = F[o]
          BY <1>5, <1>6a, <1>8
    <1>9. DOMAIN M = Live
          BY <1>6a
    <1>10. Surfacing(F) /\ Surfacing(M) /\ Surfacing(G)
          BY <1>2, <1>5, <1>7, <1>8, <1>9 DEF Surfacing, Sound
    <1>11. Aligned(M, K \cup Sending(F))
      <2>1. \A o \in DOMAIN F : /\ M[o].queue = IF o \in B THEN Append(F[o].queue, q[o]) ELSE F[o].queue
                                /\ M[o].active = F[o].active
            BY <1>2, <1>7, <1>8
      <2>0. PICK Q : Q = K \cup Sending(F)
            OBVIOUS
      <2>2. \A o \in B : q[o] \in Queued /\ Unused(F, Q, q[o].id)
            BY <1>3, <2>0 DEF Waits
      <2>3. \A o, p \in B : q[o].id = q[p].id => o = p
        <3>1. \A o \in B : q[o].id = id[o]
              BY <1>3
        <3>2. QED  BY <3>1, <1>4
      <2>4. B \in SUBSET DOMAIN F /\ DOMAIN M = DOMAIN F
            BY <1>2, <1>9
      <2>5. Aligned(F, Q) /\ Surfacing(F)
            BY <1>2, <1>10, <2>0
      <2>5a. Lengthened(F, M, B, q) /\ Novel(F, Q, B, q)
            BY <2>1, <2>2, <2>3, <2>4 DEF Lengthened, Novel
      <2>6. Aligned(M, Q)
            BY <2>4, <2>5, <2>5a, AlignedAppended
      <2>7. QED  BY <2>0, <2>6
    <1>12. Aligned(G, K \cup Sending(G))
      <2>1. ASSUME NEW o \in DOMAIN M
            PROVE  /\ Behind(M[o], G[o]) /\ KeepsDecode(M[o], G[o])
                   /\ M[o].sent \subseteq K \cup Sending(F)
        <3>0. o \in Live /\ o \in DOMAIN F /\ M[o] \in Surfaces
              BY <1>2, <1>9, <1>10 DEF Surfacing
        <3>1. M[o].sent = F[o].sent
              BY <1>7, <1>8, <3>0
        <3>2. M[o].sent \subseteq Sending(F)
              BY <3>0, <3>1 DEF Sending
        <3>3. CASE o \in B
              BY <1>7, <3>2, <3>3 DEF KeepsDecode
        <3>4. CASE o \notin B
          <4>1. G[o] = M[o]
                BY <1>8, <3>0, <3>4
          <4>2. Behind(M[o], G[o])
                BY <3>0, <4>1, BehindSame
          <4>3. QED  BY <3>2, <4>1, <4>2 DEF KeepsDecode
        <3>5. QED  BY <3>3, <3>4
      <2>2. K \cup Sending(G) \subseteq (K \cup Sending(F)) \cup Sending(G) /\ DOMAIN G = DOMAIN M
            BY <1>5, <1>9
      <2>3. PICK Q, R : Q = K \cup Sending(F) /\ R = K \cup Sending(G)
            OBVIOUS
      <2>4. Aligned(G, R)
            BY <1>10, <1>11, <2>1, <2>2, <2>3, AlignedBehind
      <2>5. QED  BY <2>3, <2>4
    <1>13. \A o \in Live : Sound(G[o]) /\ IsFiniteSet(G[o].sent) /\ Kept(surfaces[o], G[o])
          BY <1>2, <1>7, <1>8
    <1>14. QED  BY <1>5, <1>12, <1>13 DEF Standing

LEMMA StandingHandled ==
    ASSUME RendererInv, NEW T, NEW answered, Standing(T, (jobs \ answered) \cup Sending(T)),
           Handled(T, answered), refused' \in {"none"} \cup Requests
    PROVE  RendererInv' /\ StepKept
    BY HandledIsFinished DEF Standing

LEMMA AdvancesStand ==
    ASSUME RendererInv, NEW T, DOMAIN T = Live, \A o \in Live : Advances(surfaces[o], T[o])
    PROVE  /\ Standing(T, jobs \cup Sending(T))
           /\ \A n : Unused(surfaces, jobs, n) => Unused(T, jobs \cup Sending(T), n)
    <1>1. jobs \in SUBSET jobs
          OBVIOUS
    <1>2. QED  BY <1>1, AllAdvance DEF Standing

LEMMA TargetsFields ==
    ASSUME RendererInv, NEW images \in Batches, Renderable(DOMAIN images)
    PROVE  /\ Idle(DOMAIN images) \in SUBSET Live /\ Idle(DOMAIN images) \in SUBSET Outputs
           /\ \A o \in Idle(DOMAIN images) :
                /\ surfaces[o] \in Surfaces /\ Coherent(surfaces[o]) /\ AllowsEgl(surfaces[o])
                /\ images[o] \in Images /\ images[o] # NoImage /\ ~IsRunning(surfaces[o])
           /\ \A o \in DOMAIN images : Unused(surfaces, jobs, FreshIds(DOMAIN images)[o])
           /\ \A o, p \in DOMAIN images :
                FreshIds(DOMAIN images)[o] = FreshIds(DOMAIN images)[p] => o = p
    <1>1. Idle(DOMAIN images) \in SUBSET DOMAIN images
          BY DEF Idle
    <1>2. \A o \in Idle(DOMAIN images) : ~IsRunning(surfaces[o])
          BY DEF Idle
    <1>3. /\ \A o \in DOMAIN images : Unused(surfaces, jobs, FreshIds(DOMAIN images)[o])
          /\ \A o, p \in DOMAIN images :
                FreshIds(DOMAIN images)[o] = FreshIds(DOMAIN images)[p] => o = p
          BY BatchFields, InvFields, FreshIdsUnused
    <1>4. \A o \in DOMAIN images : images[o] \in Images /\ images[o] # NoImage
          BY BatchFields, OutputSurfaceAssumption
    <1>5. QED  BY <1>1, <1>2, <1>3, <1>4, BatchFields, InvFields

\* The batch queues its walls behind what runs, and answers.
LEMMA QueuedHandled ==
    ASSUME RendererInv, NEW images \in Batches, Renderable(DOMAIN images), NEW kind \in Kinds \cap Requests,
           NEW aux \in {0, 1}, kind = "canvas" => aux = 0,
           NEW F, Standing(F, jobs \cup Sending(F)),
           \A o \in DOMAIN images : o \notin Idle(DOMAIN images) =>
             F[o] = surfaces[o] /\ Unused(F, jobs \cup Sending(F), FreshIds(DOMAIN images)[o]),
           Handled(WithQueued(F, kind, images, aux), {}), refused' \in {"none"} \cup Requests
    PROVE  RendererInv' /\ StepKept
    <1>1. PICK G : G = WithQueued(F, kind, images, aux)
          OBVIOUS
    <1>2. kind \in Kinds
          OBVIOUS
    <1>3. \A o \in DOMAIN images \ Idle(DOMAIN images) :
             F[o] = surfaces[o] /\ Unused(F, jobs \cup Sending(F), FreshIds(DOMAIN images)[o])
          OBVIOUS
    <1>4. Standing(G, jobs \cup Sending(G))
          BY <1>1, <1>2, <1>3, WithQueuedKeeps
    <1>5. PICK answered : answered = {} /\ jobs \ answered = jobs
          OBVIOUS
    <1>6. QED  BY <1>1, <1>4, <1>5, StandingHandled

LEMMA RolledBackAdvances ==
    ASSUME RendererInv, NEW targets \in SUBSET Live, NEW first, NEW r \in Attempts(targets, first),
           Advancing(first, targets), NEW T \in RolledBack(targets, r)
    PROVE  DOMAIN T = Live /\ \A o \in Live : Advances(surfaces[o], T[o])
    <1>1. PICK outcomes : outcomes = [o \in DOMAIN r |-> RenderActive(RestoreOld(r[o].surface))]
          OBVIOUS
    <1>2. PICK again \in Products(DOMAIN r \ Broken(r), outcomes) :
                 T = [o \in Live |-> IF o \in Broken(r) THEN MarkRecreate(RestoreOld(r[o].surface))
                                     ELSE IF o \notin DOMAIN r THEN surfaces[o]
                                     ELSE IF again[o].ok THEN again[o].surface
                                     ELSE MarkRecreate(again[o].surface)]
          BY <1>1 DEF RolledBack
    <1>3. DOMAIN r \in SUBSET targets /\ Broken(r) \in SUBSET DOMAIN r
          BY AttemptsFields
    <1>4. ASSUME NEW o \in DOMAIN r
          PROVE  /\ surfaces[o] \in Surfaces /\ RestoreOld(r[o].surface) \in Surfaces
                 /\ Evolves(surfaces[o], RestoreOld(r[o].surface), 0)
                 /\ Coherent(RestoreOld(r[o].surface))
      <2>1. r[o] \in Outcomes /\ Evolves(surfaces[o], r[o].surface, 0)
            BY AttemptsFields DEF Advancing
      <2>2. r[o].surface \in Surfaces /\ Coherent(r[o].surface) /\ surfaces[o] \in Surfaces
            BY <2>1, <1>3, InvFields DEF Evolves, Progresses
      <2>3. RestoreOld(r[o].surface) \in Surfaces /\ Evolves(r[o].surface, RestoreOld(r[o].surface), 0)
            BY <2>2, RestoreOldEvolves
      <2>4. PICK z \in Int : z = 0 /\ z + z = z
            OBVIOUS
      <2>5. Evolves(surfaces[o], RestoreOld(r[o].surface), z + z)
            BY <2>1, <2>2, <2>3, <2>4, EvolvesTwice
      <2>6. QED  BY <2>2, <2>3, <2>4, <2>5 DEF Evolves, Progresses
    <1>5. ASSUME NEW s \in Surfaces, NEW t, Evolves(s, t, 0)
          PROVE  Advances(s, t) /\ Advances(s, MarkRecreate(t))
      <2>1. Progresses(s, t, 0) /\ KeepsDecode(s, t)
            BY <1>5 DEF Evolves
      <2>2. Progresses(s, MarkRecreate(t), 0) /\ MarkRecreate(t).active = t.active
            BY <2>1, MarkRecreateProceeds
      <2>3. KeepsDecode(s, MarkRecreate(t))
            BY <2>1, <2>2 DEF KeepsDecode
      <2>4. QED  BY <1>5, <2>2, <2>3, EvolvesAdvances DEF Evolves
    <1>6. ASSUME NEW o \in Live
          PROVE  Advances(surfaces[o], T[o])
      <2>1. CASE o \in Broken(r)
        <3>1. T[o] = MarkRecreate(RestoreOld(r[o].surface))
              BY <1>2, <2>1
        <3>2. QED  BY <1>3, <1>4, <1>5, <2>1, <3>1
      <2>2. CASE o \notin DOMAIN r
        <3>1. T[o] = surfaces[o]
              BY <1>2, <1>3, <2>2
        <3>2. Evolves(surfaces[o], surfaces[o], 0)
              BY InvFields, RedrawnMarks, RedrawnEvolves
        <3>3. QED  BY <3>1, <3>2, InvFields, EvolvesAdvances
      <2>3. CASE o \in DOMAIN r \ Broken(r)
        <3>1. again[o] \in RenderActive(RestoreOld(r[o].surface))
              BY <1>1, <1>2, <2>3, ProductsFields
        <3>2. again[o] \in Outcomes /\ Evolves(RestoreOld(r[o].surface), again[o].surface, 0)
              BY <1>4, <2>3, <3>1, RenderActiveEvolves
        <3>3. PICK z \in Int : z = 0 /\ z + z = z
              OBVIOUS
        <3>4. Evolves(surfaces[o], again[o].surface, z + z)
              BY <1>4, <2>3, <3>2, <3>3, EvolvesTwice
        <3>5. T[o] \in {again[o].surface, MarkRecreate(again[o].surface)}
              BY <1>2, <2>3
        <3>6. Evolves(surfaces[o], again[o].surface, 0) /\ surfaces[o] \in Surfaces
              BY <1>4, <2>3, <3>3, <3>4
        <3>7. Advances(surfaces[o], again[o].surface) /\ Advances(surfaces[o], MarkRecreate(again[o].surface))
              BY <3>6, <1>5
        <3>8. QED  BY <3>5, <3>7
      <2>4. QED  BY <2>1, <2>2, <2>3
    <1>7. QED  BY <1>2, <1>6

LEMMA SetPairwiseWallpapersKeeps ==
    ASSUME RendererInv, NEW images \in Batches, "pairwise" \in Requests, SetPairwiseWallpapers(images)
    PROVE  RendererInv' /\ StepKept
    <1>1. Renderable(DOMAIN images)
          BY DEF SetPairwiseWallpapers
    <1>2. PICK starts \in SUBSET Live : starts = Idle(DOMAIN images)
          BY <1>1, TargetsFields
    <1>3. PICK first : first = [o \in starts |->
                    FirstFrames(WithTextures(surfaces[o], 1), "pairwise", images[o], images[o], 0, 0)]
          OBVIOUS
    <1>4. PICK r \in Attempts(starts, first) :
            /\ Answers(r, "pairwise")
            /\ IF Broken(r) = {}
               THEN Handled(WithQueued(Forgotten(starts, r, 0), "pairwise", images, 0), {})
               ELSE \E back \in RolledBack(starts, r) : Handled(back, {})
          BY <1>2, <1>3 DEF SetPairwiseWallpapers
    <1>5. refused' \in {"none"} \cup Requests
          BY <1>4 DEF Answers
    <1>6. Advancing(first, starts)
      <2>1. ASSUME NEW o \in starts, NEW d \in first[o]
            PROVE  d \in Outcomes /\ Evolves(surfaces[o], d.surface, 0)
        <3>1. PICK one \in Nat, none \in Nat, kind \in Kinds : one = 1 /\ none = 0 /\ kind = "pairwise" /\ none \in {0, 1}
              BY DEF Kinds
        <3>2. d \in FirstFrames(WithTextures(surfaces[o], one), kind, images[o], images[o], none, none)
              BY <1>3, <3>1
        <3>3. /\ surfaces[o] \in Surfaces /\ Coherent(surfaces[o]) /\ AllowsEgl(surfaces[o])
              /\ images[o] \in Images /\ images[o] # NoImage
              BY <1>1, <1>2, TargetsFields
        <3>4. one = Texture(images[o]) + none
              BY <3>1, <3>3 DEF Texture
        <3>5. /\ d \in Outcomes /\ Progresses(surfaces[o], d.surface, 0)
              /\ d.surface.active.decode # 0 => d.surface.active.decode = none
              BY <3>1, <3>2, <3>3, <3>4, FirstFramesProceed
        <3>6. KeepsDecode(surfaces[o], d.surface)
              BY <3>1, <3>5 DEF KeepsDecode
        <3>7. QED  BY <3>5, <3>6 DEF Evolves
      <2>2. QED  BY <2>1 DEF Advancing
    <1>7. CASE Broken(r) = {}
      <2>0. PICK none \in {0, 1} : none = 0
            OBVIOUS
      <2>0a. PICK kind \in Kinds \cap Requests : kind = "pairwise"
             BY DEF Kinds
      <2>1. PICK F : F = Forgotten(starts, r, none) /\ none = 0 /\ none \in Nat /\ kind = "pairwise"
            BY <2>0, <2>0a
      <2>2. Powered(starts, none)
            BY <2>1 DEF Powered
      <2>3. /\ DOMAIN F = Live /\ \A o \in Live : Advances(surfaces[o], F[o])
            /\ \A o \in Live : o \notin starts => F[o] = surfaces[o]
            BY <1>6, <2>1, <2>2, ForgottenAdvances
      <2>4. /\ Standing(F, jobs \cup Sending(F))
            /\ \A n : Unused(surfaces, jobs, n) => Unused(F, jobs \cup Sending(F), n)
            BY <2>3, AdvancesStand
      <2>5. \A o \in DOMAIN images : o \notin Idle(DOMAIN images) =>
              F[o] = surfaces[o] /\ Unused(F, jobs \cup Sending(F), FreshIds(DOMAIN images)[o])
            BY <1>1, <1>2, <2>3, <2>4, BatchFields, TargetsFields
      <2>6. Handled(WithQueued(F, kind, images, none), {})
            BY <1>4, <1>7, <2>1
      <2>7. kind # "canvas"
            BY <2>1
      <2>8. QED  BY <1>1, <1>5, <2>1, <2>4, <2>5, <2>6, <2>7, QueuedHandled
    <1>8. CASE Broken(r) # {}
      <2>1. PICK back \in RolledBack(starts, r) : Handled(back, {})
            BY <1>4, <1>8
      <2>2. DOMAIN back = Live /\ \A o \in Live : Advances(surfaces[o], back[o])
            BY <1>6, RolledBackAdvances
      <2>3. QED  BY <1>5, <2>1, <2>2, HandledAdvance
    <1>9. QED  BY <1>7, <1>8

LEMMA SetWorldWallpapersKeeps ==
    ASSUME RendererInv, NEW images \in Batches, "world" \in Requests, SetWorldWallpapers(images)
    PROVE  RendererInv' /\ StepKept
    <1>1. Renderable(DOMAIN images)
          BY DEF SetWorldWallpapers
    <1>2. PICK starts \in SUBSET Live : starts = Idle(DOMAIN images) /\ starts \in SUBSET Outputs
          BY <1>1, TargetsFields
    <1>3. PICK first : first = [o \in starts |->
                    FirstFrames(WithTextures(surfaces[o], 2), "world", images[o], images[o], 1, 0)]
          OBVIOUS
    <1>4. PICK r \in Attempts(starts, first) :
            /\ Answers(r, "world")
            /\ LET f == Forgotten(starts, r, 2)
               IN Handled(IF Broken(r) = {} THEN WithQueued(f, "world", images, 1) ELSE f, {})
          BY <1>2, <1>3 DEF SetWorldWallpapers
    <1>5. refused' \in {"none"} \cup Requests
          BY <1>4 DEF Answers
    <1>6. PICK two \in Nat, one \in {0, 1}, none \in Nat, kind \in Kinds \cap Requests :
                 two = 2 /\ one = 1 /\ none = 0 /\ kind = "world"
          BY DEF Kinds
    <1>7. ASSUME NEW o \in starts, NEW d \in first[o]
          PROVE  /\ d \in FirstFrames(WithTextures(surfaces[o], two), kind, images[o], images[o], one, none)
                 /\ surfaces[o] \in Surfaces /\ Coherent(surfaces[o]) /\ AllowsEgl(surfaces[o])
                 /\ images[o] \in Images /\ images[o] # NoImage /\ images[o] \in Pictures
      <2>1. d \in FirstFrames(WithTextures(surfaces[o], two), kind, images[o], images[o], one, none)
            BY <1>3, <1>6, <1>7
      <2>2. QED  BY <1>1, <1>2, <2>1, TargetsFields DEF Pictures
    <1>8. Advancing(first, starts)
      <2>1. ASSUME NEW o \in starts, NEW d \in first[o]
            PROVE  d \in Outcomes /\ Evolves(surfaces[o], d.surface, 0)
        <3>1. two = Texture(images[o]) + one
              BY <1>6, <1>7 DEF Texture
        <3>2. kind \in Kinds
              OBVIOUS
        <3>3. /\ d \in Outcomes /\ Progresses(surfaces[o], d.surface, 0)
              /\ d.surface.active.decode # 0 => d.surface.active.decode = none
              BY <1>6, <1>7, <3>1, <3>2, FirstFramesProceed
        <3>4. KeepsDecode(surfaces[o], d.surface)
              BY <1>6, <3>3 DEF KeepsDecode
        <3>5. QED  BY <3>3, <3>4 DEF Evolves
      <2>2. QED  BY <2>1 DEF Advancing
    <1>9. Tidy => DOMAIN r = starts
      <2>1. ASSUME Faults \cap {"create", "draw", "swap"} = {}, NEW o \in starts, NEW d \in first[o]
            PROVE  d.ok
        <3>1. PICK w \in Surfaces : w = WithTextures(surfaces[o], two)
              BY <1>7, WithTexturesEvolves
        <3>2. d \in FirstFrames(w, kind, images[o], images[o], one, none) /\ kind \in Kinds
              BY <1>7, <3>1
        <3>3. QED  BY <1>7, <2>1, <3>2, FirstFramesSucceed
      <2>2. kind \in Requests \ {"pairwise", "clear"}
            BY <1>6
      <2>3. QED  BY <1>2, <2>1, <2>2, AllReached
    <1>10. PICK F : F = Forgotten(starts, r, two)
           OBVIOUS
    <1>11. Powered(starts, two)
           BY <1>1, <1>2, TargetsFields DEF Powered
    <1>12. /\ DOMAIN F = Live /\ \A o \in Live : Advances(surfaces[o], F[o])
           /\ \A o \in Live : o \notin starts => F[o] = surfaces[o]
           BY <1>8, <1>9, <1>10, <1>11, ForgottenAdvances
    <1>13. CASE Broken(r) = {}
      <2>1. /\ Standing(F, jobs \cup Sending(F))
            /\ \A n : Unused(surfaces, jobs, n) => Unused(F, jobs \cup Sending(F), n)
            BY <1>12, AdvancesStand
      <2>2. \A o \in DOMAIN images : o \notin Idle(DOMAIN images) =>
              F[o] = surfaces[o] /\ Unused(F, jobs \cup Sending(F), FreshIds(DOMAIN images)[o])
            BY <1>1, <1>2, <1>12, <2>1, BatchFields, TargetsFields
      <2>3. Handled(WithQueued(F, kind, images, one), {})
            BY <1>4, <1>6, <1>10, <1>13
      <2>4. kind # "canvas"
            BY <1>6
      <2>5. QED  BY <1>1, <1>5, <2>1, <2>2, <2>3, <2>4, QueuedHandled
    <1>14. CASE Broken(r) # {}
      <2>1. Handled(F, {})
            BY <1>4, <1>6, <1>10, <1>14
      <2>2. QED  BY <1>5, <1>12, <2>1, HandledAdvance
    <1>15. QED  BY <1>13, <1>14


\* Outputs at rest that start to wait for a decode of their own, whose jobs are sent.
SendingFor(F, starts, id, images) ==
    [o \in Live |-> IF o \in starts
                    THEN [F[o] EXCEPT !.sent = @ \cup {[id |-> id[o], image |-> images[o]]}]
                    ELSE F[o]]

Starting(F, starts, id, images) ==
    /\ \A o \in Live : Proceeds(surfaces[o], F[o])
    /\ \A o \in starts : /\ images[o] \in Images /\ Unused(surfaces, jobs, id[o])
                         /\ F[o].active.decode # 0 => F[o].active.decode = id[o]
                                                      /\ F[o].active.target = images[o]
    /\ \A o \in Live : o \notin starts => F[o] = surfaces[o]
    /\ Numbered(starts, id)

LEMMA MoreSent ==
    ASSUME NEW s \in Surfaces, NEW job \in Jobs
    PROVE  LET t == [s EXCEPT !.sent = @ \cup {job}] IN
           /\ t \in Surfaces /\ t.sent = s.sent \cup {job} /\ t.queue = s.queue /\ t.active = s.active
           /\ t.power = s.power /\ t.egl = s.egl /\ t.shown = s.shown /\ t.textures = s.textures
           /\ t.wall = s.wall /\ t.image = s.image /\ t.pending = s.pending /\ t.frame = s.frame
           /\ (Coherent(t) <=> Coherent(s)) /\ Surplus(t) = Surplus(s) /\ Waiting(t) = Waiting(s)
    <1> DEFINE t == [s EXCEPT !.sent = @ \cup {job}]
    <1>1. s.sent \cup {job} \in SUBSET Jobs
          BY SurfaceFields
    <1>2. t \in Surfaces
          BY <1>1 DEF Surfaces
    <1>3. /\ t.sent = s.sent \cup {job} /\ t.queue = s.queue /\ t.active = s.active
          /\ t.power = s.power /\ t.egl = s.egl /\ t.shown = s.shown /\ t.textures = s.textures
          /\ t.wall = s.wall /\ t.image = s.image /\ t.pending = s.pending /\ t.frame = s.frame
          BY DEF Surfaces
    <1> HIDE DEF t
    <1>4. Waiting(t) = Waiting(s)
          BY <1>3 DEF Waiting
    <1>5. Surplus(t) = Surplus(s)
          BY <1>3 DEF Surplus, Owned
    <1>6. Coherent(t) <=> Coherent(s)
          BY <1>3 DEF Coherent
    <1>7. QED  BY <1>2, <1>3, <1>4, <1>5, <1>6 DEF t

LEMMA SendingStands ==
    ASSUME RendererInv, NEW starts \in SUBSET Live, NEW id, NEW images, NEW F, DOMAIN F = Live,
           Starting(F, starts, id, images), NEW T, T = SendingFor(F, starts, id, images)
    PROVE  Standing(T, jobs \cup Sending(T)) /\ Spares(surfaces, jobs, starts, id, T, jobs \cup Sending(T))
    <1> USE DEF Starting, Numbered
    <1>1. PICK M : M = [o \in Live |-> IF o \in starts THEN [F[o] EXCEPT !.active = NoActive] ELSE F[o]]
          OBVIOUS
    <1>2. ASSUME NEW o \in Live
          PROVE  /\ Sound(F[o]) /\ F[o] \in Surfaces /\ IsFiniteSet(F[o].sent)
                 /\ Kept(surfaces[o], F[o]) /\ Behind(surfaces[o], F[o])
      <2>1. PICK m \in Nat : (Tidy => m = 0) /\ Progresses(surfaces[o], F[o], 0 - m)
            BY DEF Proceeds
      <2>2. QED  BY <2>1, InvFields, ProgressIsSound DEF Sound
    <1>3. ASSUME NEW o \in starts
          PROVE  /\ M[o] \in Surfaces /\ M[o].queue = F[o].queue /\ M[o].sent = F[o].sent
                 /\ M[o].active = NoActive
      <2>1. PICK s \in Surfaces : s = F[o]
            BY <1>2
      <2>2. PICK t : t = [s EXCEPT !.active = NoActive] /\ t = M[o]
            BY <1>1, <2>1
      <2>3. t \in Surfaces
            BY <2>2 DEF Surfaces
      <2>4. t.queue = s.queue /\ t.sent = s.sent /\ t.active = NoActive
            BY <2>2 DEF Surfaces
      <2>5. QED  BY <2>1, <2>2, <2>3, <2>4
    <1>4. ASSUME NEW o \in Live, o \notin starts
          PROVE  M[o] = F[o] /\ M[o] = surfaces[o]
          BY <1>1, <1>4
    <1>5. DOMAIN M = Live /\ DOMAIN M = DOMAIN surfaces /\ Surfacing(M) /\ Surfacing(surfaces)
          BY <1>1, <1>2, <1>3, <1>4, InvFields DEF Surfacing
    <1>6. ASSUME NEW o \in DOMAIN surfaces
          PROVE  /\ Behind(surfaces[o], M[o]) /\ KeepsDecode(surfaces[o], M[o])
                 /\ surfaces[o].sent \subseteq jobs
      <2>1. surfaces[o] \in Surfaces /\ surfaces[o].sent = {}
            BY InvFields DEF Live
      <2>2. CASE o \in starts
        <3>0. PICK k \in 0 .. Len(surfaces[o].queue) : Drained(surfaces[o], F[o], k)
              BY <1>2, <2>2 DEF Behind
        <3>0a. M[o].queue = F[o].queue /\ M[o].sent = F[o].sent
               BY <1>3, <2>2
        <3>0b. Drained(surfaces[o], M[o], k)
               BY SMTT(30), <3>0, <3>0a DEF Drained
        <3>1. Behind(surfaces[o], M[o])
              BY <3>0b DEF Behind
        <3>2. M[o].active.decode = 0
              BY <1>3, <2>2 DEF NoActive
        <3>3. QED  BY <2>1, <3>1, <3>2 DEF KeepsDecode
      <2>3. CASE o \notin starts
        <3>1. M[o] = surfaces[o]
              BY <1>4, <2>3 DEF Live
        <3>2. Behind(surfaces[o], M[o])
              BY <2>1, <3>1, BehindSame
        <3>3. QED  BY <2>1, <3>1, <3>2 DEF KeepsDecode
      <2>4. QED  BY <2>2, <2>3
    <1>7. PICK Q : Q = jobs \cup Sending(M)
          OBVIOUS
    <1>8. Aligned(M, Q) /\ \A n : Unused(surfaces, jobs, n) => Unused(M, Q, n)
      <2>1. Aligned(surfaces, jobs) /\ Q \subseteq jobs \cup Sending(M)
            BY <1>7, InvFields
      <2>2. QED  BY <1>5, <1>6, <2>1, AlignedBehind
    <1>9. ASSUME NEW o \in starts
          PROVE  /\ T[o] = [F[o] EXCEPT !.sent = @ \cup {[id |-> id[o], image |-> images[o]]}]
                 /\ [id |-> id[o], image |-> images[o]] \in Jobs
                 /\ T[o] \in Surfaces /\ Sound(T[o]) /\ IsFiniteSet(T[o].sent) /\ Kept(surfaces[o], T[o])
                 /\ T[o].queue = F[o].queue /\ T[o].active = F[o].active
                 /\ T[o].sent = F[o].sent \cup {[id |-> id[o], image |-> images[o]]}
      <2>1. PICK job \in Jobs : job = [id |-> id[o], image |-> images[o]]
            BY DEF Unused, Jobs
      <2>2. PICK s \in Surfaces : s = F[o]
            BY <1>2
      <2>3. PICK t : t = [s EXCEPT !.sent = @ \cup {job}] /\ t = T[o]
            BY <2>1, <2>2 DEF SendingFor
      <2>4. /\ t \in Surfaces /\ t.sent = s.sent \cup {job} /\ t.queue = s.queue /\ t.active = s.active
            /\ t.power = s.power /\ t.egl = s.egl /\ t.shown = s.shown /\ t.textures = s.textures
            /\ (Coherent(t) <=> Coherent(s)) /\ Surplus(t) = Surplus(s) /\ Waiting(t) = Waiting(s)
            BY <2>3, MoreSent
      <2>5. Sound(s) /\ IsFiniteSet(s.sent) /\ Kept(surfaces[o], s)
            BY <1>2, <2>2
      <2>6. Sound(t)
            BY <2>4, <2>5 DEF Sound
      <2>7. Kept(surfaces[o], t)
            BY <2>4, <2>5 DEF Kept, OffKept, Fifo
      <2>8. IsFiniteSet(t.sent)
        <3>1. IsFiniteSet(s.sent \cup {job})
              BY <2>5, FS_AddElement
        <3>2. QED  BY <2>4, <3>1
      <2>9. QED  BY <2>1, <2>2, <2>3, <2>4, <2>6, <2>7, <2>8
    <1>10. ASSUME NEW o \in Live, o \notin starts
           PROVE  T[o] = F[o] /\ T[o] = M[o]
           BY <1>4, <1>10 DEF SendingFor
    <1>11. DOMAIN T = Live
           BY DEF SendingFor
    <1>12. PICK R : R = jobs \cup Sending(T)
           OBVIOUS
    <1>12a. \A o \in Live : M[o].sent \subseteq Q
            BY <1>5, <1>7 DEF Sending
    <1>13. R \subseteq Q \cup JobsOf(starts, id, images)
      <2>1. ASSUME NEW o \in Live, NEW j \in T[o].sent
            PROVE  j \in Q \cup JobsOf(starts, id, images)
        <3>1. CASE o \in starts
          <4>1. j \in M[o].sent \/ j = [id |-> id[o], image |-> images[o]]
            <5>1. M[o].sent = F[o].sent
                  BY <1>3, <3>1
            <5>2. PICK new : new = [id |-> id[o], image |-> images[o]]
                  OBVIOUS
            <5>3. T[o].sent = F[o].sent \cup {new}
                  BY <1>9, <3>1, <5>2
            <5>4. QED  BY <5>1, <5>2, <5>3
          <4>2. M[o].sent \subseteq Q
                BY <1>12a
          <4>3. [id |-> id[o], image |-> images[o]] \in JobsOf(starts, id, images)
                BY <3>1 DEF JobsOf
          <4>4. QED  BY <4>1, <4>2, <4>3
        <3>2. CASE o \notin starts
          <4>1. M[o].sent \subseteq Q
                BY <1>12a
          <4>2. QED  BY <1>10, <3>2, <4>1
        <3>3. QED  BY <3>1, <3>2
      <2>2. ASSUME NEW j \in R, j \notin jobs
            PROVE  j \in Q \cup JobsOf(starts, id, images)
        <3>1. PICK o \in Live : j \in T[o].sent
              BY <1>11, <1>12, <2>2 DEF Sending
        <3>2. QED  BY <2>1, <3>1
      <2>3. QED  BY <1>7, <2>2
    <1>14. Aligned(T, R) /\ Spares(M, Q, starts, id, T, R)
      <2>1. starts \subseteq DOMAIN M /\ DOMAIN T = DOMAIN M
            BY <1>5, <1>11
      <2>2. \A o \in DOMAIN M : T[o].queue = M[o].queue
            BY <1>3, <1>5, <1>9, <1>10
      <2>3. \A o \in DOMAIN M : o \notin starts => T[o].active = M[o].active
            BY <1>5, <1>10
      <2>4. \A o \in starts : /\ T[o].active.decode # 0 => T[o].active.decode = id[o]
                                                          /\ T[o].active.target = images[o]
                              /\ Unused(M, Q, id[o]) /\ images[o] \in Images
            BY <1>8, <1>9
      <2>5. Numbered(starts, id)
            OBVIOUS
      <2>6. Sender(M, T, Q, starts, id, images)
            BY <2>1, <2>2, <2>3, <2>4, <2>5 DEF Sender
      <2>7. QED  BY <1>5, <1>8, <1>13, <2>6, AlignedSent
    <1>15. \A o \in Live : Sound(T[o]) /\ IsFiniteSet(T[o].sent) /\ Kept(surfaces[o], T[o])
           BY <1>2, <1>9, <1>10
    <1>16. Standing(T, jobs \cup Sending(T))
           BY <1>11, <1>12, <1>14, <1>15 DEF Standing
    <1>17. Spares(surfaces, jobs, starts, id, T, R)
           BY <1>8, <1>14 DEF Spares
    <1>18. QED  BY <1>12, <1>16, <1>17

LEMMA SetCanvasWallpapersKeeps ==
    ASSUME RendererInv, NEW images \in Batches, "canvas" \in Requests, SetCanvasWallpapers(images)
    PROVE  RendererInv' /\ StepKept
    <1>1. Renderable(DOMAIN images)
          BY DEF SetCanvasWallpapers
    <1>2. PICK starts \in SUBSET Live : starts = Idle(DOMAIN images) /\ starts \in SUBSET Outputs
          BY <1>1, TargetsFields
    <1>3. PICK id : id = FreshIds(DOMAIN images)
          OBVIOUS
    <1>4. PICK first : first = [o \in starts |->
                    FirstFrames(WithTextures(surfaces[o], 1), "canvas", images[o], NoImage, 1, id[o])]
          OBVIOUS
    <1>5. CASE CutAll("canvas", images)
      <2>1. PICK kind \in Requests \ {"pairwise", "clear"} : kind = "canvas"
            OBVIOUS
      <2>2. CutAll(kind, images)
            BY <1>5, <2>1
      <2>3. QED  BY <1>1, <2>2, CutAllKeeps
    <1>6. ASSUME NEW r \in Attempts(starts, first), Answers(r, "canvas"),
                 LET f == SendingFor(Forgotten(starts, r, 1), starts, id, images)
                 IN Handled(IF Broken(r) = {} THEN WithQueued(f, "canvas", images, 0) ELSE f, {})
          PROVE  RendererInv' /\ StepKept
      <2>1. refused' \in {"none"} \cup Requests
            BY <1>6 DEF Answers
      <2>2. PICK one \in {0, 1}, none \in {0, 1} : one = 1 /\ none = 0 /\ one \in Nat
            OBVIOUS
      <2>2a. PICK kind \in Kinds \cap Requests : kind = "canvas"
             BY DEF Kinds
      <2>3. ASSUME NEW o \in starts, NEW d \in first[o]
            PROVE  /\ d \in FirstFrames(WithTextures(surfaces[o], one), kind, images[o], NoImage, one, id[o])
                   /\ surfaces[o] \in Surfaces /\ Coherent(surfaces[o]) /\ AllowsEgl(surfaces[o])
                   /\ images[o] \in Images /\ id[o] \in Nat /\ o \in DOMAIN images
        <3>1. d \in FirstFrames(WithTextures(surfaces[o], one), kind, images[o], NoImage, one, id[o])
              BY <1>4, <2>2, <2>2a, <2>3
        <3>2. o \in DOMAIN images
              BY <1>2 DEF Idle
        <3>3. Unused(surfaces, jobs, id[o])
              BY <1>1, <1>3, <3>2, TargetsFields
        <3>4. QED  BY <1>1, <1>2, <3>1, <3>2, <3>3, TargetsFields DEF Unused
      <2>4. ASSUME NEW o \in starts, NEW d \in first[o]
            PROVE  /\ d \in Outcomes /\ Progresses(surfaces[o], d.surface, 0)
                   /\ d.surface.active.decode # 0 => d.surface.active.decode = id[o]
                                                     /\ d.surface.active.target = images[o]
        <3>1. PICK content \in {NoImage, images[o]} : content = NoImage
              OBVIOUS
        <3>2. one = Texture(content) + one
              BY <2>2, <3>1 DEF Texture
        <3>3. d \in FirstFrames(WithTextures(surfaces[o], one), kind, images[o], content, one, id[o])
              BY <2>3, <3>1
        <3>4. kind \in Kinds /\ (id[o] # 0 => content = NoImage)
              BY <3>1
        <3>5. QED  BY <2>2, <2>3, <3>2, <3>3, <3>4, FirstFramesProceed
      <2>5. Proceeding(first, starts)
            BY <2>4 DEF Proceeding
      <2>6. Tidy => DOMAIN r = starts
        <3>1. ASSUME Faults \cap {"create", "draw", "swap"} = {}, NEW o \in starts, NEW d \in first[o]
              PROVE  d.ok
          <4>1. PICK w \in Surfaces : w = WithTextures(surfaces[o], one)
                BY <2>2, <2>3, WithTexturesEvolves
          <4>2. d \in FirstFrames(w, kind, images[o], NoImage, one, id[o]) /\ kind \in Kinds
                BY <2>3, <4>1
          <4>3. NoImage \in Pictures
                BY DEF Pictures
          <4>4. QED  BY <2>3, <3>1, <4>2, <4>3, FirstFramesSucceed
        <3>2. kind \in Requests \ {"pairwise", "clear"}
              BY <2>2a
        <3>3. QED  BY <1>2, <3>1, <3>2, AllReached
      <2>7. PICK F, T : F = Forgotten(starts, r, one) /\ T = SendingFor(F, starts, id, images)
            OBVIOUS
      <2>8. Powered(starts, one)
            BY <1>1, <1>2, TargetsFields DEF Powered
      <2>9. AfterBatch(F, starts, r)
            BY <2>2, <2>5, <2>6, <2>7, <2>8, ForgottenProceeds
      <2>10. ASSUME NEW o \in starts
             PROVE  /\ images[o] \in Images /\ Unused(surfaces, jobs, id[o])
                    /\ F[o].active.decode # 0 => F[o].active.decode = id[o]
                                                 /\ F[o].active.target = images[o]
        <3>1. o \in DOMAIN images /\ images[o] \in Images
              BY <1>1, <1>2, TargetsFields DEF Idle
        <3>2. Unused(surfaces, jobs, id[o])
              BY <1>1, <1>3, <3>1, TargetsFields
        <3>3. CASE o \in DOMAIN r
          <4>1. r[o] \in first[o] /\ F[o].active = r[o].surface.active
                BY <2>9, <3>3, AttemptsFields DEF AfterBatch
          <4>2. QED  BY <2>4, <3>1, <3>2, <4>1
        <3>4. CASE o \notin DOMAIN r
          <4>1. F[o].active = surfaces[o].active
                BY <2>9, <3>4 DEF AfterBatch
          <4>2. surfaces[o].active = NoActive
                BY <1>1, <1>2, TargetsFields DEF IsRunning
          <4>3. F[o].active.decode = 0
                BY <4>1, <4>2 DEF NoActive
          <4>4. QED  BY <3>1, <3>2, <4>3
        <3>5. QED  BY <3>3, <3>4
      <2>11. \A o, p \in starts : id[o] = id[p] => o = p
        <3>1. starts \subseteq DOMAIN images
              BY <1>2 DEF Idle
        <3>2. QED  BY <1>1, <1>3, <3>1, TargetsFields
      <2>12. /\ DOMAIN F = Live /\ \A o \in Live : Proceeds(surfaces[o], F[o])
             /\ \A o \in Live : o \notin starts => F[o] = surfaces[o]
             BY <2>9 DEF AfterBatch
      <2>12a. Starting(F, starts, id, images)
              BY <2>10, <2>11, <2>12 DEF Starting, Numbered
      <2>13. /\ Standing(T, jobs \cup Sending(T))
             /\ Spares(surfaces, jobs, starts, id, T, jobs \cup Sending(T))
             BY <1>2, <2>7, <2>12, <2>12a, SendingStands
      <2>14. CASE Broken(r) = {}
        <3>1. ASSUME NEW o \in DOMAIN images, o \notin Idle(DOMAIN images)
              PROVE  T[o] = surfaces[o] /\ Unused(T, jobs \cup Sending(T), id[o])
          <4>1. o \in Live /\ o \notin starts /\ starts \subseteq DOMAIN images
                BY <1>1, <1>2, <3>1, BatchFields DEF Idle
          <4>2. T[o] = surfaces[o]
                BY <2>7, <2>12, <4>1 DEF SendingFor
          <4>3. Unused(surfaces, jobs, id[o]) /\ \A p \in starts : id[p] # id[o]
                BY <1>1, <1>3, <4>1, TargetsFields
          <4>4. QED  BY <2>13, <4>2, <4>3 DEF Spares
        <3>2. Handled(WithQueued(T, kind, images, none), {})
              BY <1>6, <2>2, <2>2a, <2>7, <2>14
        <3>3. kind = "canvas" => none = 0
              BY <2>2
        <3>4. QED  BY <1>1, <1>3, <2>1, <2>13, <3>1, <3>2, <3>3, QueuedHandled
      <2>15. CASE Broken(r) # {}
        <3>1. Handled(T, {})
              BY <1>6, <2>2, <2>7, <2>15
        <3>2. PICK answered : answered = {} /\ jobs \ answered = jobs
              OBVIOUS
        <3>3. QED  BY <2>1, <2>13, <3>1, <3>2, StandingHandled
      <2>16. QED  BY <2>14, <2>15
    <1>7. CutAll("canvas", images)
          \/ \E r \in Attempts(starts, first) :
               /\ Answers(r, "canvas")
               /\ LET f == SendingFor(Forgotten(starts, r, 1), starts, id, images)
                  IN Handled(IF Broken(r) = {} THEN WithQueued(f, "canvas", images, 0) ELSE f, {})
          BY <1>2, <1>3, <1>4, Zenon DEF SetCanvasWallpapers, SendingFor
    <1>8. QED  BY <1>5, <1>6, <1>7

(***************************************************************************)
(* Decode results.                                                         *)
(***************************************************************************)
\* What changes only how a surface is drawn, or the walls that wait ahead.
LEMMA AcceptedIsSound ==
    ASSUME NEW s, Sound(s), s.sent = {}, NEW job \in Jobs, NEW ok \in BOOLEAN,
           \A i \in 1 .. Len(s.queue) :
             s.queue[i].id = job.id => s.queue[i].state = "decoding" /\ s.queue[i].image = job.image,
           NEW t, t = AcceptDecode(s, job, ok)
    PROVE  Sound(t) /\ t.sent = {} /\ Kept(s, t)
    <1>1. s \in Surfaces /\ Coherent(s) /\ Surplus(s) \in Nat /\ (Tidy => Surplus(s) = 0)
          BY DEF Sound
    <1>2. /\ t \in Surfaces /\ Len(t.queue) = Len(s.queue)
          /\ t.power = s.power /\ t.egl = s.egl /\ t.shown = s.shown
          /\ t.textures = s.textures /\ t.sent = s.sent
          /\ \A i \in 1 .. Len(s.queue) :
               t.queue[i].id = s.queue[i].id /\ t.queue[i].image = s.queue[i].image
          BY <1>1, AcceptDecodeFields
    <1>3. Coherent(t) /\ Surplus(t) = Surplus(s)
          BY <1>1, AcceptDecodeCoherent
    <1>4. Sound(t)
          BY <1>1, <1>2, <1>3 DEF Sound
    <1>5. OffKept(s, t)
      <2>1. s.textures \in Int
            BY <1>1, SurfaceFields
      <2>2. QED  BY <1>2, <2>1 DEF OffKept
    <1>6. Fifo(s, t)
      <2>1. PICK a \in Nat : a = Len(s.queue)
            BY <1>1, QueueFields
      <2>2. PICK k \in 0 .. Len(s.queue), n \in 0 .. 1 : k = 0 /\ n = 0
            BY <2>1
      <2>3. Len(t.queue) = Len(s.queue) - k + n
            BY <1>2, <2>1, <2>2
      <2>4. \A i \in 1 .. Len(s.queue) - k : t.queue[i].id = s.queue[i + k].id
                                             /\ t.queue[i].image = s.queue[i + k].image
            BY <1>2, <2>1, <2>2
      <2>5. QED  BY <1>1, <1>2, <2>3, <2>4, ShiftedFifo
    <1>7. QED  BY <1>2, <1>4, <1>5, <1>6 DEF Kept

LEMMA TargetArrivesEvolves ==
    ASSUME NEW s \in Surfaces, Coherent(s), NEW job \in Jobs, NEW ok \in BOOLEAN,
           s.active.decode = job.id, s.active.target = job.image,
           NEW t \in TargetArrives(s, job, ok)
    PROVE  Evolves(s, t, 0)
    <1>1. job.id # 0 /\ s.active.decode # 0
          BY JobFields
    <1>2. IsRunning(s)
          BY <1>1, ActiveFields DEF IsRunning
    <1>3. PICK r \in AcceptTarget(s, job, ok) :
             \/ ~r.ok /\ t = r.surface
             \/ r.ok /\ \E d \in RenderActive(r.surface) :
                  t = IF d.ok THEN d.surface ELSE RestoreOld(MarkRecreate(d.surface))
          BY DEF TargetArrives
    <1>4. r \in Outcomes /\ Evolves(s, r.surface, 0)
          BY <1>1, <1>2, AcceptTargetEvolves
    <1>5. r.surface \in Surfaces /\ Coherent(r.surface)
          BY <1>4 DEF Evolves, Progresses
    <1>6. PICK z \in Int : z = 0 /\ z + z = z
          OBVIOUS
    <1>7. ASSUME NEW d \in RenderActive(r.surface)
          PROVE  Evolves(s, d.surface, 0) /\ Evolves(s, RestoreOld(MarkRecreate(d.surface)), 0)
      <2>1. Evolves(r.surface, d.surface, z)
            BY <1>5, <1>6, RenderActiveEvolves
      <2>2. Evolves(s, r.surface, z)
            BY <1>4, <1>6
      <2>3. Evolves(s, d.surface, z)
            BY <1>6, <2>1, <2>2, EvolvesTwice
      <2>4. Progresses(s, d.surface, 0) /\ KeepsDecode(s, d.surface)
            BY <1>6, <2>3 DEF Evolves
      <2>5. PICK m : m = MarkRecreate(d.surface)
            OBVIOUS
      <2>6. Progresses(s, m, 0) /\ m.active = d.surface.active
            BY <2>4, <2>5, MarkRecreateProceeds
      <2>7. Evolves(s, m, z) /\ m \in Surfaces /\ Coherent(m)
            BY <1>6, <2>4, <2>6 DEF Evolves, KeepsDecode, Progresses
      <2>8. Evolves(m, RestoreOld(m), z)
            BY <1>6, <2>7, RestoreOldEvolves
      <2>9. Evolves(s, RestoreOld(m), z)
            BY <1>6, <2>7, <2>8, EvolvesTwice
      <2>10. QED  BY <1>6, <2>3, <2>5, <2>9
    <1>8. CASE t = r.surface
          BY <1>4, <1>8
    <1>9. CASE \E d \in RenderActive(r.surface) :
                  t = IF d.ok THEN d.surface ELSE RestoreOld(MarkRecreate(d.surface))
          BY <1>7, <1>9
    <1>10. QED  BY <1>3, <1>8, <1>9

\* A decoded wall is uploaded after each result.
LEMMA PumpedStands ==
    ASSUME RendererInv, NEW f, NEW K, Standing(f, K \cup Sending(f)), NEW g \in Pumped(f)
    PROVE  Standing(g, K \cup Sending(g))
    <1>1. DOMAIN f = Live /\ \A o \in Live : Sound(f[o]) /\ IsFiniteSet(f[o].sent) /\ Kept(surfaces[o], f[o])
          BY DEF Standing
    <1>2. CASE g = f
          BY <1>2
    <1>3. CASE \E o \in Live : AllowsEgl(f[o]) /\ \E u \in UploadOne(f[o]) : g = [f EXCEPT ![o] = u]
      <2>1. PICK o \in Live : AllowsEgl(f[o]) /\ \E u \in UploadOne(f[o]) : g = [f EXCEPT ![o] = u]
            BY <1>3
      <2>2. PICK u \in UploadOne(f[o]) : g = [f EXCEPT ![o] = u]
            BY <2>1
      <2>3. PICK s \in Surfaces : s = f[o] /\ Sound(s) /\ Coherent(s) /\ AllowsEgl(s)
            BY <1>1, <2>1 DEF Sound
      <2>4. /\ u \in Surfaces /\ u.power = s.power /\ u.sent = s.sent /\ Len(u.queue) = Len(s.queue)
            /\ \A i \in 1 .. Len(s.queue) : Later(s.queue[i], u.queue[i])
            /\ Evolves(s, u, 0)
            BY <2>2, <2>3, UploadOneEvolves
      <2>5. DOMAIN g = Live /\ g[o] = u /\ \A p \in Live : p # o => g[p] = f[p]
            BY <1>1, <2>2
      <2>6. Sound(u)
        <3>1. Surplus(u) = Surplus(s) - 0 /\ Coherent(u) /\ Surplus(s) \in Nat /\ (Tidy => Surplus(s) = 0)
              BY <2>3, <2>4 DEF Evolves, Progresses, Sound
        <3>2. QED  BY <2>4, <3>1 DEF Sound
      <2>7. Kept(surfaces[o], u)
        <3>1. Waiting(u) = Waiting(s)
          <4>1. DOMAIN u.queue = DOMAIN s.queue /\ DOMAIN s.queue = 1 .. Len(s.queue)
                BY <2>3, <2>4, QueueFields
          <4>2. \A i \in DOMAIN s.queue : u.queue[i].id = s.queue[i].id /\ u.queue[i].image = s.queue[i].image
                BY <2>4, <4>1 DEF Later
          <4>3. QED  BY <4>1, <4>2 DEF Waiting
        <3>2. Fifo(surfaces[o], s)
              BY <1>1, <2>3 DEF Kept
        <3>3. Fifo(surfaces[o], u)
              BY <3>1, <3>2 DEF Fifo
        <3>4. OffKept(surfaces[o], u)
              BY <2>3, <2>4 DEF OffKept, AllowsEgl
        <3>5. QED  BY <3>3, <3>4 DEF Kept
      <2>8. PICK Q : Q = K \cup Sending(f)
            OBVIOUS
      <2>9. Sending(g) \subseteq Sending(g) /\ Aligned(f, Q) /\ Surfacing(f) /\ Surfacing(g)
            BY <1>1, <2>4, <2>5, <2>8 DEF Standing, Surfacing, Sound
      <2>10. \A p \in Live : f[p].sent \subseteq Q
             BY <1>1, <2>8 DEF Sending
      <2>11. ASSUME NEW p \in DOMAIN f
             PROVE  Behind(f[p], g[p]) /\ KeepsDecode(f[p], g[p]) /\ f[p].sent \subseteq Q
        <3>1. CASE p = o
              BY <1>1, <2>3, <2>4, <2>5, <2>10, <3>1 DEF Evolves, Progresses
        <3>2. CASE p # o
          <4>1. g[p] = f[p] /\ f[p] \in Surfaces
                BY <1>1, <2>5, <3>2 DEF Sound
          <4>2. Behind(f[p], g[p])
                BY <4>1, BehindSame
          <4>3. QED  BY <1>1, <2>10, <4>1, <4>2 DEF KeepsDecode
        <3>3. QED  BY <3>1, <3>2
      <2>12. PICK R : R = K \cup Sending(g) /\ R \subseteq Q \cup Sending(g)
             BY <2>8
      <2>13. Aligned(g, R)
        <3>1. DOMAIN g = DOMAIN f
              BY <1>1, <2>5
        <3>2. QED  BY <2>9, <2>11, <2>12, <3>1, AlignedBehind
      <2>14. \A p \in Live : Sound(g[p]) /\ IsFiniteSet(g[p].sent) /\ Kept(surfaces[p], g[p])
             BY <1>1, <2>3, <2>4, <2>5, <2>6, <2>7
      <2>15. QED  BY <2>5, <2>12, <2>13, <2>14 DEF Standing
    <1>4. QED  BY <1>2, <1>3 DEF Pumped

LEMMA DecodeResultKeeps ==
    ASSUME RendererInv, NEW job \in jobs, NEW ok \in BOOLEAN, DecodeResult(job, ok)
    PROVE  RendererInv' /\ StepKept
    <1>1. job \in Jobs /\ Aligned(surfaces, jobs) /\ Surfacing(surfaces)
          BY InvFields
    <1>2. PICK K \in SUBSET jobs : K = jobs \ {job}
          OBVIOUS
    <1>3. ASSUME NEW f, NEW pumped \in Pumped(f), Standing(f, K \cup Sending(f)), Handled(pumped, {job}),
                 refused' = "none"
          PROVE  RendererInv' /\ StepKept
      <2>1. Standing(pumped, (jobs \ {job}) \cup Sending(pumped))
            BY <1>2, <1>3, PumpedStands
      <2>2. PICK answered : answered = {job}
            OBVIOUS
      <2>3. QED  BY <1>3, <2>1, <2>2, StandingHandled
    <1>4. CASE \A o \in Live : surfaces[o].active.decode # job.id
      <2>1. PICK f : /\ f = [o \in Live |-> AcceptDecode(surfaces[o], job, ok)]
                     /\ \E pumped \in Pumped(f) : Handled(pumped, {job}) /\ refused' = "none"
            BY <1>4 DEF DecodeResult
      <2>2. ASSUME NEW o \in Live
            PROVE  Sound(f[o]) /\ f[o].sent = {} /\ Kept(surfaces[o], f[o])
        <3>1. Sound(surfaces[o]) /\ surfaces[o].sent = {}
              BY InvFields
        <3>2. \A i \in 1 .. Len(surfaces[o].queue) : surfaces[o].queue[i].id = job.id =>
                 surfaces[o].queue[i].state = "decoding" /\ surfaces[o].queue[i].image = job.image
              BY <1>1 DEF Aligned, Answering, Live
        <3>3. f[o] = AcceptDecode(surfaces[o], job, ok)
              BY <2>1
        <3>4. QED  BY <1>1, <3>1, <3>2, <3>3, AcceptedIsSound
      <2>3. DOMAIN f = Live /\ DOMAIN f = DOMAIN surfaces
            BY <2>1 DEF Live
      <2>4. Aligned(f, jobs \ {job})
        <3>1. \A o \in DOMAIN surfaces : f[o] = AcceptDecode(surfaces[o], job, ok)
              BY <2>1 DEF Live
        <3>2. PICK Q : Q = jobs
              OBVIOUS
        <3>3. job \in Q /\ Aligned(surfaces, Q)
              BY <1>1, <3>2
        <3>4. Aligned(f, Q \ {job})
              BY <1>1, <2>3, <3>1, <3>3, AlignedAccepted
        <3>5. QED  BY <3>2, <3>4
      <2>5. Sending(f) = {}
            BY <2>2, <2>3 DEF Sending
      <2>6. K \cup Sending(f) = jobs \ {job}
            BY <1>2, <2>5
      <2>7. \A o \in Live : IsFiniteSet(f[o].sent)
            BY <2>2, FS_EmptySet
      <2>8. Standing(f, K \cup Sending(f))
            BY <2>2, <2>3, <2>4, <2>6, <2>7 DEF Standing
      <2>9. QED  BY <1>3, <2>1, <2>8
    <1>5. ASSUME NEW w \in Live, surfaces[w].active.decode = job.id
          PROVE  RendererInv' /\ StepKept
      <2>1. PICK f \in UNION {{[surfaces EXCEPT ![o] = s] : s \in TargetArrives(surfaces[o], job, ok)}
                              : o \in {p \in Live : surfaces[p].active.decode = job.id}} :
                 \E pumped \in Pumped(f) : Handled(pumped, {job}) /\ refused' = "none"
            BY <1>5 DEF DecodeResult
      <2>2. PICK o \in {p \in Live : surfaces[p].active.decode = job.id} :
                 f \in {[surfaces EXCEPT ![o] = s] : s \in TargetArrives(surfaces[o], job, ok)}
            BY <2>1
      <2>3. PICK s \in TargetArrives(surfaces[o], job, ok) : f = [surfaces EXCEPT ![o] = s]
            BY <2>2
      <2>4. surfaces[o].active.target = job.image
            BY <1>1, <2>2 DEF Aligned, Answering, Live
      <2>5. Evolves(surfaces[o], s, 0)
            BY <1>1, <2>2, <2>4, InvFields, TargetArrivesEvolves
      <2>6. DOMAIN f = Live /\ f[o] = s /\ \A p \in Live : p # o => f[p] = surfaces[p]
            BY <2>3 DEF Live
      <2>7. ASSUME NEW p \in Live
            PROVE  Advances(surfaces[p], f[p])
        <3>1. Evolves(surfaces[p], surfaces[p], 0)
              BY InvFields, RedrawnMarks, RedrawnEvolves
        <3>2. Evolves(surfaces[p], f[p], 0)
              BY <2>5, <2>6, <3>1
        <3>3. QED  BY <3>2, InvFields, EvolvesAdvances
      <2>8. Standing(f, K \cup Sending(f))
            BY <2>6, <2>7, AllAdvance DEF Standing
      <2>9. QED  BY <1>3, <2>1, <2>8
    <1>6. QED  BY <1>4, <1>5
(***************************************************************************)
(* Wayland events and the clock.                                           *)
(***************************************************************************)
LEMMA BecomesKeeps ==
    ASSUME RendererInv, NEW o \in Live, NEW s, Evolves(surfaces[o], s, 0), Becomes(o, s)
    PROVE  RendererInv' /\ StepKept
    <1>1. PICK T : T = [surfaces EXCEPT ![o] = s]
          OBVIOUS
    <1>2. DOMAIN T = Live /\ T[o] = s /\ \A p \in Live : p # o => T[p] = surfaces[p]
          BY <1>1 DEF Live
    <1>3. ASSUME NEW p \in Live
          PROVE  Advances(surfaces[p], T[p])
      <2>1. Evolves(surfaces[p], surfaces[p], 0)
            BY InvFields, RedrawnMarks, RedrawnEvolves
      <2>2. Evolves(surfaces[p], T[p], 0)
            BY <1>2, <2>1
      <2>3. QED  BY <2>2, InvFields, EvolvesAdvances
    <1>4. PICK answered : answered = {} /\ Handled(T, answered)
          BY <1>1 DEF Becomes
    <1>5. refused' \in {"none"} \cup Requests
          BY DEF Becomes
    <1>6. QED  BY <1>2, <1>3, <1>4, <1>5, HandledAdvance

LEMMA ConfigureKeeps ==
    ASSUME RendererInv, NEW o \in Live, NEW size \in Sizes, Configure(o, size)
    PROVE  RendererInv' /\ StepKept
    <1>1. surfaces[o] \in Surfaces /\ Coherent(surfaces[o])
          BY InvFields
    <1>2. CASE ~AllowsEgl(surfaces[o])
      <2>1. Redrawn(surfaces[o], DeferConfigure(surfaces[o], size))
            BY <1>1, RedrawnMarks
      <2>2. Evolves(surfaces[o], DeferConfigure(surfaces[o], size), 0)
            BY <1>1, <2>1, RedrawnEvolves
      <2>3. Becomes(o, DeferConfigure(surfaces[o], size))
            BY <1>2 DEF Configure
      <2>4. QED  BY <2>2, <2>3, BecomesKeeps
    <1>3. CASE AllowsEgl(surfaces[o])
      <2>1. PICK e \in EnsureEgl(surfaces[o], size) :
                 Becomes(o, IF e.ok THEN DeferRender(e.surface) ELSE e.surface)
            BY <1>3 DEF Configure
      <2>2. e.surface \in Surfaces /\ Redrawn(surfaces[o], e.surface)
            BY <1>1, EnsureEglRedraws, OutcomeFields
      <2>3. Redrawn(e.surface, DeferRender(e.surface))
            BY <2>2, RedrawnMarks
      <2>4. Redrawn(surfaces[o], DeferRender(e.surface))
            BY <2>2, <2>3, RedrawnTwice
      <2>5. PICK s : s = (IF e.ok THEN DeferRender(e.surface) ELSE e.surface) /\ Becomes(o, s)
            BY <2>1
      <2>6. Redrawn(surfaces[o], s)
            BY <2>2, <2>4, <2>5
      <2>7. Evolves(surfaces[o], s, 0)
            BY <1>1, <2>6, RedrawnEvolves
      <2>8. QED  BY <2>5, <2>7, BecomesKeeps
    <1>4. QED  BY <1>2, <1>3

\* t differs from s in nothing the invariant is about.
Alike(s, t) ==
    /\ t \in Surfaces /\ t.queue = s.queue /\ t.wall = s.wall /\ t.textures = s.textures
    /\ t.sent = s.sent /\ t.egl = s.egl /\ t.shown = s.shown
    /\ (t.active = NoActive) <=> (s.active = NoActive)
    /\ t.active.old = s.active.old /\ t.active.new = s.active.new /\ t.active.aux = s.active.aux
    /\ t.active.target = s.active.target /\ t.active.decode = s.active.decode

LEMMA AlikeKept ==
    ASSUME NEW s, Sound(s), NEW t, Alike(s, t)
    PROVE  Sound(t) /\ Kept(s, t)
    <1>1. s \in Surfaces /\ Coherent(s) /\ Surplus(s) \in Nat /\ (Tidy => Surplus(s) = 0)
          BY DEF Sound
    <1>2. Coherent(t)
          BY <1>1 DEF Coherent, Alike
    <1>3. Surplus(t) = Surplus(s)
          BY DEF Surplus, Owned, Alike
    <1>4. Sound(t)
          BY <1>1, <1>2, <1>3 DEF Sound, Alike
    <1>5. OffKept(s, t)
      <2>1. s.textures \in Int
            BY <1>1, SurfaceFields
      <2>2. QED  BY <2>1 DEF OffKept, Alike
    <1>6. Fifo(s, t)
          BY <1>1, BehindSame, BehindFifo DEF Alike
    <1>7. QED  BY <1>4, <1>5, <1>6 DEF Kept

LEMMA AllAlikeStand ==
    ASSUME RendererInv, NEW T, DOMAIN T = Live, \A o \in Live : Alike(surfaces[o], T[o])
    PROVE  Standing(T, jobs) /\ Sending(T) = {} /\ \A o \in Live : T[o] \in Surfaces /\ T[o].sent = {}
    <1>1. \A o \in Live : Sound(surfaces[o]) /\ surfaces[o].sent = {} /\ surfaces[o] \in Surfaces
          BY InvFields
    <1>2. \A o \in Live : Sound(T[o]) /\ Kept(surfaces[o], T[o])
          BY <1>1, AlikeKept
    <1>3. \A o \in Live : T[o] \in Surfaces /\ T[o].sent = {}
          BY <1>1 DEF Alike
    <1>4. \A o \in Live : IsFiniteSet(T[o].sent)
          BY <1>3, FS_EmptySet
    <1>5. Aligned(T, jobs)
      <2>1. Aligned(surfaces, jobs) /\ Surfacing(T) /\ jobs \subseteq jobs
            BY <1>3, InvFields DEF Surfacing
      <2>2. \A o \in DOMAIN T : /\ o \in DOMAIN surfaces /\ T[o].queue = surfaces[o].queue
                                /\ T[o].active.decode = surfaces[o].active.decode
                                /\ T[o].active.target = surfaces[o].active.target
            BY DEF Alike, Live
      <2>3. QED  BY <2>1, <2>2, AlignedLess
    <1>6. Sending(T) = {}
          BY <1>3 DEF Sending
    <1>7. QED  BY <1>2, <1>3, <1>4, <1>5, <1>6 DEF Standing

LEMMA AlikeBecomes ==
    ASSUME RendererInv, NEW o \in Live, NEW s, Alike(surfaces[o], s), Becomes(o, s)
    PROVE  RendererInv' /\ StepKept
    <1>1. PICK T : T = [surfaces EXCEPT ![o] = s]
          OBVIOUS
    <1>2. DOMAIN T = Live /\ T[o] = s /\ \A p \in Live : p # o => T[p] = surfaces[p]
          BY <1>1 DEF Live
    <1>3. \A p \in Live : Alike(surfaces[p], T[p])
          BY <1>2, InvFields DEF Alike
    <1>4. Standing(T, jobs) /\ Sending(T) = {}
          BY <1>2, <1>3, AllAlikeStand
    <1>5. PICK answered : answered = {} /\ (jobs \ answered) \cup Sending(T) = jobs
          BY <1>4
    <1>6. Handled(T, answered) /\ refused' \in {"none"} \cup Requests
          BY <1>1, <1>5 DEF Becomes
    <1>7. QED  BY <1>4, <1>5, <1>6, StandingHandled

LEMMA PowerModeKeeps ==
    ASSUME RendererInv, NEW o \in Live, NEW power \in Powers, PowerMode(o, power)
    PROVE  RendererInv' /\ StepKept
    <1>1. PICK s \in Surfaces : s = surfaces[o]
          BY InvFields
    <1>2. PICK t : t = [s EXCEPT !.power = power, !.pending = @ \/ power = "off"]
          OBVIOUS
    <1>3. t \in Surfaces
      <2>1. (s.pending \/ power = "off") \in BOOLEAN
            OBVIOUS
      <2>2. QED  BY <1>2, <2>1 DEF Surfaces
    <1>4. /\ t.queue = s.queue /\ t.wall = s.wall /\ t.textures = s.textures
          /\ t.sent = s.sent /\ t.egl = s.egl /\ t.shown = s.shown /\ t.active = s.active
          BY <1>2 DEF Surfaces
    <1>5. Alike(surfaces[o], t)
          BY <1>1, <1>3, <1>4 DEF Alike
    <1>6. Becomes(o, t)
          BY <1>1, <1>2 DEF PowerMode
    <1>7. QED  BY <1>5, <1>6, AlikeBecomes

LEMMA PowerFailedKeeps ==
    ASSUME RendererInv, NEW o \in Live, PowerFailed(o)
    PROVE  RendererInv' /\ StepKept
    <1>1. PICK s \in Surfaces : s = surfaces[o]
          BY InvFields
    <1>2. PICK t : t = [s EXCEPT !.power = "unsupported"]
          OBVIOUS
    <1>3. t \in Surfaces
          BY <1>2 DEF Surfaces, Powers
    <1>4. /\ t.queue = s.queue /\ t.wall = s.wall /\ t.textures = s.textures
          /\ t.sent = s.sent /\ t.egl = s.egl /\ t.shown = s.shown /\ t.active = s.active
          BY <1>2 DEF Surfaces
    <1>5. Alike(surfaces[o], t)
          BY <1>1, <1>3, <1>4 DEF Alike
    <1>6. Becomes(o, t)
          BY <1>1, <1>2 DEF PowerFailed
    <1>7. QED  BY <1>5, <1>6, AlikeBecomes

LEMMA FrameDoneKeeps ==
    ASSUME RendererInv, NEW o \in Live, FrameDone(o)
    PROVE  RendererInv' /\ StepKept
    <1>1. PICK s \in Surfaces : s = surfaces[o]
          BY InvFields
    <1>2. PICK t : t = [s EXCEPT !.frame = "none", !.pending = @ \/ IsRunning(s)]
          OBVIOUS
    <1>3. t \in Surfaces
      <2>1. (s.pending \/ IsRunning(s)) \in BOOLEAN
            BY DEF IsRunning
      <2>2. QED  BY <1>2, <2>1 DEF Surfaces
    <1>4. /\ t.queue = s.queue /\ t.wall = s.wall /\ t.textures = s.textures
          /\ t.sent = s.sent /\ t.egl = s.egl /\ t.shown = s.shown /\ t.active = s.active
          BY <1>2 DEF Surfaces
    <1>5. Alike(surfaces[o], t)
          BY <1>1, <1>3, <1>4 DEF Alike
    <1>6. Becomes(o, t)
          BY <1>1, <1>2 DEF FrameDone
    <1>7. QED  BY <1>5, <1>6, AlikeBecomes

LEMMA ElapseKeeps ==
    ASSUME RendererInv, NEW o \in Live, Elapse(o)
    PROVE  RendererInv' /\ StepKept
    <1>1. PICK s \in Surfaces : s = surfaces[o] /\ IsRunning(s)
          BY InvFields DEF Elapse
    <1>2. PICK a \in Active : a = s.active
      <2>1. s.active # NoActive
            BY <1>1 DEF IsRunning
      <2>2. s.active \in Active
            BY <2>1, SurfaceFields
      <2>3. QED  BY <2>2
    <1>3. PICK b : b = [a EXCEPT !.elapsed = TRUE]
          OBVIOUS
    <1>4. b \in Active
          BY <1>3 DEF Active
    <1>5. /\ b.old = a.old /\ b.new = a.new /\ b.aux = a.aux /\ b.target = a.target /\ b.decode = a.decode
          /\ b.kind = a.kind
          BY <1>3 DEF Active
    <1>6. b # NoActive
      <2>1. b.kind \in Kinds
            BY <1>4 DEF Active
      <2>2. NoActive.kind = "none"
            BY DEF NoActive
      <2>3. QED  BY <2>1, <2>2 DEF Kinds
    <1>7. PICK t : t = [s EXCEPT !.active = b]
          OBVIOUS
    <1>8. t \in Surfaces
          BY <1>4, <1>7 DEF Surfaces
    <1>9. /\ t.queue = s.queue /\ t.wall = s.wall /\ t.textures = s.textures
          /\ t.sent = s.sent /\ t.egl = s.egl /\ t.shown = s.shown /\ t.active = b
          BY <1>7 DEF Surfaces
    <1>10. Alike(surfaces[o], t)
      <2>1. s.active # NoActive
            BY <1>1 DEF IsRunning
      <2>2. QED  BY <1>1, <1>2, <1>5, <1>6, <1>8, <1>9, <2>1 DEF Alike
    <1>11. PICK T : T = [surfaces EXCEPT ![o] = t]
           OBVIOUS
    <1>12. surfaces' = T
      <2>1. [s EXCEPT !.active.elapsed = TRUE] = t
            BY <1>2, <1>3, <1>7
      <2>2. [surfaces EXCEPT ![o].active.elapsed = TRUE] = [surfaces EXCEPT ![o] = [s EXCEPT !.active.elapsed = TRUE]]
            BY <1>1
      <2>3. QED  BY <1>11, <2>1, <2>2 DEF Elapse
    <1>13. DOMAIN T = Live /\ T[o] = t /\ \A p \in Live : p # o => T[p] = surfaces[p]
           BY <1>11 DEF Live
    <1>14. \A p \in Live : Alike(surfaces[p], T[p])
           BY <1>10, <1>13, InvFields DEF Alike
    <1>15. /\ Standing(T, jobs) /\ Sending(T) = {}
           /\ \A p \in Live : T[p] \in Surfaces /\ T[p].sent = {}
           BY <1>13, <1>14, AllAlikeStand
    <1>16. surfaces' = [p \in Live |-> [T[p] EXCEPT !.sent = {}]]
      <2>1. ASSUME NEW u \in Surfaces, u.sent = {}
            PROVE  [u EXCEPT !.sent = {}] = u
            BY <2>1 DEF Surfaces
      <2>2. T = [p \in Live |-> T[p]]
            BY <1>11, <1>13
      <2>3. \A p \in Live : [T[p] EXCEPT !.sent = {}] = T[p]
            BY <1>15, <2>1
      <2>4. QED  BY <1>12, <2>2, <2>3
    <1>17. PICK K \in SUBSET jobs : K = jobs /\ K \cup Sending(T) = jobs
           BY <1>15
    <1>18. /\ jobs' = K \cup Sending(T) /\ dispatched' \in BOOLEAN /\ lost' = lost
           /\ refused' \in {"none"} \cup Requests
           BY <1>17 DEF Elapse, RendererInv, TypeOK
    <1>19. QED  BY <1>15, <1>16, <1>17, <1>18, Finished DEF Standing
\* The loop, and outputs that come and go.
LEMMA NewSurfaceIsSound ==
    ASSUME NEW power \in Powers
    PROVE  /\ Sound(NewSurface(power)) /\ NewSurface(power).queue = <<>>
           /\ NewSurface(power).active.decode = 0 /\ NewSurface(power).sent = {}
    <1>1. PICK s : s = NewSurface(power)
          OBVIOUS
    <1>2. s \in Surfaces
          BY <1>1 DEF NewSurface, Surfaces, Pictures
    <1>3. /\ s.queue = <<>> /\ s.active = NoActive /\ s.wall = NoImage /\ s.textures = 0 /\ s.sent = {}
          /\ s.active.new = NoImage /\ s.active.old = NoImage /\ s.active.aux = 0 /\ s.active.decode = 0
          BY <1>1 DEF NewSurface, NoActive
    <1>4. Coherent(s)
          BY <1>3 DEF Coherent
    <1>5. Surplus(s) = 0
          BY <1>3, TexturesInEmpty DEF Surplus, Owned, Texture
    <1>6. QED  BY <1>1, <1>2, <1>3, <1>4, <1>5 DEF Sound

LEMMA NewOutputKeeps ==
    ASSUME RendererInv, NEW o \in Outputs, NEW power \in Powers, NewOutput(o, power)
    PROVE  RendererInv' /\ StepKept
    <1>1. PICK T : /\ T = [p \in Live \cup {o} |-> IF p = o THEN NewSurface(power) ELSE surfaces[p]]
                   /\ T = surfaces'
          BY DEF NewOutput
    <1>2. /\ o \notin Live /\ jobs' = jobs /\ lost' = lost /\ dispatched' \in BOOLEAN
          /\ refused' \in {"none"} \cup Requests
          BY DEF NewOutput
    <1>3. DOMAIN T = Live \cup {o} /\ T[o] = NewSurface(power) /\ \A p \in Live : T[p] = surfaces[p]
          BY <1>1, <1>2
    <1>4. Live' = Live \cup {o} /\ DOMAIN surfaces' = Live \cup {o}
          BY <1>1, <1>3 DEF Live
    <1>5. \A p \in DOMAIN T : Sound(T[p]) /\ T[p].sent = {} /\ T[p] \in Surfaces
          BY <1>3, InvFields, NewSurfaceIsSound DEF Sound
    <1>6. IsFiniteSet(Live \cup {o})
          BY InvFields, FS_AddElement
    <1>7. Aligned(T, jobs)
      <2>1. Surfacing(T) /\ Aligned(surfaces, jobs) /\ jobs \subseteq jobs
            BY <1>5, InvFields DEF Surfacing
      <2>2. \A p \in DOMAIN T :
              /\ T[p].queue = <<>> \/ (p \in DOMAIN surfaces /\ T[p].queue = surfaces[p].queue)
              /\ T[p].active.decode = 0 \/ (p \in DOMAIN surfaces
                                            /\ T[p].active.decode = surfaces[p].active.decode
                                            /\ T[p].active.target = surfaces[p].active.target)
            BY <1>3, NewSurfaceIsSound DEF Live
      <2>3. QED  BY <2>1, <2>2, AlignedLess
    <1>8. RendererInv'
      <2>1. TypeOK'
            BY <1>1, <1>2, <1>3, <1>4, <1>5 DEF RendererInv, TypeOK
      <2>2. Aligned(surfaces', jobs')
            BY <1>1, <1>2, <1>7
      <2>3. \A p \in Live' : Sound(surfaces'[p])
            BY <1>1, <1>3, <1>4, <1>5
      <2>4. QED  BY <1>2, <1>4, <1>6, <2>1, <2>2, <2>3 DEF RendererInv
    <1>9. ASSUME NEW p \in Live
          PROVE  Kept(surfaces[p], surfaces'[p])
      <2>1. Evolves(surfaces[p], surfaces[p], 0) /\ surfaces[p] \in Surfaces
            BY InvFields, RedrawnMarks, RedrawnEvolves
      <2>2. QED  BY <1>1, <1>3, <2>1, UntouchedKept DEF Evolves, Progresses
    <1>10. QED  BY <1>8, <1>9 DEF StepKept

\* What is left of an output that is gone is what nothing of it owned.
LEMMA DestroyedTextures ==
    ASSUME NEW s \in Surfaces, Coherent(s)
    PROVE  Destroy(s).textures = Surplus(s)
    <1>1. PICK t \in Surfaces : /\ t = Discard(ClearQueue(s)) /\ Coherent(t) /\ Surplus(t) = Surplus(s)
                                /\ t.queue = <<>> /\ t.active = NoActive
      <2>1. ClearQueue(s) \in Surfaces /\ ClearQueue(s).queue = <<>> /\ Evolves(s, ClearQueue(s), 0)
            BY ClearQueueEvolves
      <2>2. PICK u \in Surfaces : u = ClearQueue(s) /\ Coherent(u) /\ Surplus(u) = Surplus(s) - 0
            BY <2>1 DEF Evolves, Progresses
      <2>3. /\ Discard(u) \in Surfaces /\ ~IsRunning(Discard(u)) /\ Discard(u).queue = u.queue
            /\ Evolves(u, Discard(u), 0)
            BY <2>2, DiscardEvolves
      <2>4. Coherent(Discard(u)) /\ Surplus(Discard(u)) = Surplus(u) - 0
            BY <2>3 DEF Evolves, Progresses
      <2>5. Surplus(s) \in Int
            BY SurplusType
      <2>6. QED  BY <2>1, <2>2, <2>3, <2>4, <2>5 DEF IsRunning
    <1>2. Destroy(s).textures = t.textures - Texture(t.wall)
      <2>1. PICK n \in Int : n = t.textures - Texture(t.wall)
            BY SurfaceFields, SurplusType
      <2>2. PICK v : v = [t EXCEPT !.wall = NoImage, !.textures = n]
            OBVIOUS
      <2>3. v.textures = n
            BY <2>2 DEF Surfaces
      <2>4. v \in Surfaces
            BY <2>2 DEF Surfaces, Pictures
      <2>5. DestroyEgl(v).textures = n
            BY <2>3, <2>4 DEF DestroyEgl, Surfaces
      <2>6. Destroy(s) = DestroyEgl(v)
            BY <1>1, <2>1, <2>2 DEF Destroy
      <2>7. QED  BY <2>1, <2>5, <2>6
    <1>3. Owned(t) = Texture(t.wall)
      <2>1. t.active.old = NoImage /\ t.active.new = NoImage /\ t.active.aux = 0
            BY <1>1 DEF NoActive
      <2>2. Texture(t.wall) \in {0, 1}
            BY SurplusType
      <2>3. QED  BY <1>1, <2>1, <2>2, TexturesInEmpty DEF Owned, Texture
    <1>4. QED  BY <1>1, <1>2, <1>3 DEF Surplus

LEMMA OutputDestroyedKeeps ==
    ASSUME RendererInv, NEW o \in Live, OutputDestroyed(o)
    PROVE  RendererInv' /\ StepKept
    <1>1. PICK T : T = [p \in Live \ {o} |-> surfaces[p]] /\ T = surfaces'
          BY DEF OutputDestroyed
    <1>2. jobs' = jobs /\ dispatched' \in BOOLEAN /\ refused' \in {"none"} \cup Requests
          BY DEF OutputDestroyed
    <1>3. DOMAIN T = Live \ {o} /\ \A p \in Live \ {o} : T[p] = surfaces[p]
          BY <1>1
    <1>4. Live' = Live \ {o} /\ DOMAIN surfaces' = Live \ {o}
          BY <1>1, <1>3 DEF Live
    <1>5. \A p \in DOMAIN T : Sound(T[p]) /\ T[p].sent = {} /\ T[p] \in Surfaces
          BY <1>3, InvFields
    <1>6. IsFiniteSet(Live \ {o})
          BY InvFields, FS_RemoveElement
    <1>7. Aligned(T, jobs)
      <2>1. Surfacing(T) /\ Aligned(surfaces, jobs) /\ jobs \subseteq jobs
            BY <1>5, InvFields DEF Surfacing
      <2>2. \A p \in DOMAIN T : /\ p \in DOMAIN surfaces /\ T[p].queue = surfaces[p].queue
                                /\ T[p].active.decode = surfaces[p].active.decode
                                /\ T[p].active.target = surfaces[p].active.target
            BY <1>3 DEF Live
      <2>3. QED  BY <2>1, <2>2, AlignedLess
    <1>8. lost' \in Nat /\ (Tidy => lost' = 0)
      <2>1. PICK n \in Nat : n = Surplus(surfaces[o]) /\ (Tidy => n = 0)
            BY InvFields DEF Sound
      <2>2. Destroy(surfaces[o]).textures = n
            BY <2>1, InvFields, DestroyedTextures
      <2>3. lost' = lost + n
            BY <2>2 DEF OutputDestroyed
      <2>4. lost \in Nat /\ (Tidy => lost = 0)
            BY DEF RendererInv, TypeOK
      <2>5. QED  BY <2>1, <2>3, <2>4
    <1>9. RendererInv'
      <2>1. TypeOK'
            BY <1>1, <1>2, <1>3, <1>4, <1>5, <1>8 DEF RendererInv, TypeOK
      <2>2. Aligned(surfaces', jobs') /\ IsFiniteSet(jobs')
            BY <1>1, <1>2, <1>7, InvFields
      <2>3. \A p \in Live' : Sound(surfaces'[p])
            BY <1>1, <1>3, <1>4, <1>5
      <2>4. QED  BY <1>4, <1>6, <1>8, <2>1, <2>2, <2>3 DEF RendererInv
    <1>10. ASSUME NEW p \in Live \cap DOMAIN surfaces'
           PROVE  Kept(surfaces[p], surfaces'[p])
      <2>1. Evolves(surfaces[p], surfaces[p], 0) /\ surfaces[p] \in Surfaces
            BY InvFields, RedrawnMarks, RedrawnEvolves
      <2>2. p \in Live \ {o}
            BY <1>4
      <2>3. surfaces'[p] = surfaces[p]
            BY <1>1, <1>3, <2>2
      <2>4. QED  BY <2>1, <2>3, UntouchedKept DEF Evolves, Progresses
    <1>11. QED  BY <1>9, <1>10 DEF StepKept

LEMMA FreshKeeps ==
    ASSUME Fresh
    PROVE  RendererInv' /\ StepKept
    <1>1. /\ DOMAIN surfaces' = {} /\ jobs' = {} /\ dispatched' = FALSE /\ lost' = 0 /\ refused' = "none"
          /\ Live' = {}
          BY DEF Fresh, Live
    <1>2. IsFiniteSet(Live') /\ IsFiniteSet(jobs')
          BY <1>1, FS_EmptySet
    <1>3. Aligned(surfaces', jobs')
          BY <1>1 DEF Aligned, Distinct, Answering
    <1>4. TypeOK'
          BY <1>1 DEF TypeOK
    <1>5. RendererInv'
          BY <1>1, <1>2, <1>3, <1>4 DEF RendererInv
    <1>6. QED  BY <1>1, <1>5 DEF StepKept

LEMMA InitIsSound ==
    ASSUME Init
    PROVE  RendererInv
    <1>1. DOMAIN surfaces = {} /\ jobs = {} /\ dispatched = FALSE /\ lost = 0 /\ refused = "none" /\ Live = {}
          BY DEF Init, Live
    <1>2. IsFiniteSet(Live) /\ IsFiniteSet(jobs)
          BY <1>1, FS_EmptySet
    <1>3. Aligned(surfaces, jobs)
          BY <1>1 DEF Aligned, Distinct, Answering
    <1>4. TypeOK
          BY <1>1 DEF TypeOK
    <1>5. QED  BY <1>1, <1>2, <1>3, <1>4 DEF RendererInv
\* A pass over one output: a decoded wall is uploaded, and the output drawn.
LEMMA PassEvolves ==
    ASSUME NEW s \in Surfaces, Coherent(s), NEW d \in Pass(s)
    PROVE  d \in Outcomes /\ Evolves(s, d.surface, 0)
    <1>1. PICK t \in (IF IsRunning(s) THEN UploadOne(s) ELSE {s}) : d \in RenderActive(t)
          BY DEF Pass
    <1>2. t \in Surfaces /\ Evolves(s, t, 0)
      <2>1. Evolves(s, s, 0)
            BY RedrawnMarks, RedrawnEvolves
      <2>2. \A u \in UploadOne(s) : u \in Surfaces /\ Evolves(s, u, 0)
            BY UploadOneEvolves
      <2>3. QED  BY <1>1, <2>1, <2>2
    <1>3. PICK z \in Int : z = 0 /\ z + z = z
          OBVIOUS
    <1>4. d \in Outcomes /\ Evolves(t, d.surface, z)
      <2>1. Coherent(t)
            BY <1>2 DEF Evolves, Progresses
      <2>2. QED  BY <1>1, <1>2, <1>3, <2>1, RenderActiveEvolves
    <1>5. Evolves(s, t, z)
          BY <1>2, <1>3
    <1>6. Evolves(s, d.surface, z)
          BY <1>3, <1>4, <1>5, EvolvesTwice
    <1>7. QED  BY <1>3, <1>4, <1>6

\* What becomes of an output after its pass.
Passed(d) == IF d.ok THEN d.surface ELSE Settle(MarkRecreate(d.surface))

LEMMA PassedEvolves ==
    ASSUME NEW s \in Surfaces, Coherent(s), NEW d \in Pass(s)
    PROVE  Evolves(s, Passed(d), 0) /\ Passed(d).sent = d.surface.sent
    <1>1. d \in Outcomes /\ Evolves(s, d.surface, 0)
          BY PassEvolves
    <1>2. PICK m : m = MarkRecreate(d.surface)
          OBVIOUS
    <1>3. Progresses(s, d.surface, 0) /\ KeepsDecode(s, d.surface)
          BY <1>1 DEF Evolves
    <1>4. Progresses(s, m, 0) /\ m.active = d.surface.active /\ m.sent = d.surface.sent
          BY <1>2, <1>3, MarkRecreateProceeds
    <1>5. PICK z \in Int : z = 0 /\ z + z = z
          OBVIOUS
    <1>6. m \in Surfaces /\ Coherent(m) /\ Evolves(s, m, z)
          BY <1>3, <1>4, <1>5 DEF Evolves, KeepsDecode, Progresses
    <1>7. Evolves(m, Settle(m), z)
          BY <1>5, <1>6, SettleEvolves
    <1>8. Evolves(s, Settle(m), z)
          BY <1>5, <1>6, <1>7, EvolvesTwice
    <1>9. Settle(m).sent = m.sent
          BY <1>6 DEF Settle, Surfaces
    <1>10. QED  BY <1>1, <1>2, <1>4, <1>5, <1>8, <1>9 DEF Passed

LEMMA RenderPendingSurfacesKeeps ==
    ASSUME RendererInv, RenderPendingSurfaces
    PROVE  RendererInv' /\ StepKept
    <1>1. PICK due \in SUBSET Live : due = {o \in Live : surfaces[o].pending /\ AllowsEgl(surfaces[o])}
          OBVIOUS
    <1>2. PICK passes : passes = [o \in due |-> Pass(surfaces[o])]
          OBVIOUS
    <1>3. PICK r \in Products(due, passes) :
             \/ Fresh
             \/ /\ surfaces' = [o \in Live |-> IF o \in due THEN [Passed(r[o]) EXCEPT !.sent = {}]
                                                            ELSE surfaces[o]]
                /\ jobs' = jobs \cup UNION {r[o].surface.sent : o \in due}
                /\ dispatched' = FALSE /\ refused' = "none" /\ lost' = lost
          BY <1>1, <1>2 DEF RenderPendingSurfaces, Passed
    <1>4. CASE Fresh
          BY <1>4, FreshKeeps
    <1>5. CASE /\ surfaces' = [o \in Live |-> IF o \in due THEN [Passed(r[o]) EXCEPT !.sent = {}]
                                                            ELSE surfaces[o]]
               /\ jobs' = jobs \cup UNION {r[o].surface.sent : o \in due}
               /\ dispatched' = FALSE /\ refused' = "none" /\ lost' = lost
      <2>1. PICK T : T = [o \in Live |-> IF o \in due THEN Passed(r[o]) ELSE surfaces[o]]
            OBVIOUS
      <2>2. ASSUME NEW o \in due
            PROVE  Evolves(surfaces[o], Passed(r[o]), 0) /\ Passed(r[o]).sent = r[o].surface.sent
        <3>1. r[o] \in Pass(surfaces[o])
              BY <1>2, <1>3, ProductsFields
        <3>2. QED  BY <3>1, InvFields, PassedEvolves
      <2>3. ASSUME NEW o \in Live
            PROVE  Advances(surfaces[o], T[o])
        <3>1. Evolves(surfaces[o], surfaces[o], 0)
              BY InvFields, RedrawnMarks, RedrawnEvolves
        <3>2. Evolves(surfaces[o], T[o], 0)
              BY <2>1, <2>2, <3>1
        <3>3. QED  BY <3>2, InvFields, EvolvesAdvances
      <2>4. PICK K \in SUBSET jobs : K = jobs
            OBVIOUS
      <2>5. DOMAIN T = Live
            BY <2>1
      <2>6. /\ \A o \in Live : Sound(T[o]) /\ IsFiniteSet(T[o].sent) /\ Kept(surfaces[o], T[o])
            /\ Aligned(T, K \cup Sending(T))
            BY <2>3, <2>5, AllAdvance
      <2>7. Sending(T) = UNION {r[o].surface.sent : o \in due}
        <3>1. \A o \in due : T[o].sent = r[o].surface.sent
              BY <2>1, <2>2
        <3>2. \A o \in Live : o \notin due => T[o].sent = {}
              BY <2>1, InvFields
        <3>3. QED  BY <2>5, <3>1, <3>2 DEF Sending
      <2>8. surfaces' = [o \in Live |-> [T[o] EXCEPT !.sent = {}]]
        <3>1. ASSUME NEW u \in Surfaces, u.sent = {}
              PROVE  [u EXCEPT !.sent = {}] = u
              BY <3>1 DEF Surfaces
        <3>2. \A o \in Live : [surfaces[o] EXCEPT !.sent = {}] = surfaces[o]
              BY <3>1, InvFields
        <3>3. \A o \in Live : (IF o \in due THEN [Passed(r[o]) EXCEPT !.sent = {}] ELSE surfaces[o])
                                = [T[o] EXCEPT !.sent = {}]
              BY <2>1, <3>2
        <3>4. QED  BY <1>5, <3>3
      <2>9. jobs' = K \cup Sending(T) /\ dispatched' \in BOOLEAN /\ refused' \in {"none"} \cup Requests
            BY <1>5, <2>4, <2>7
      <2>10. QED  BY <1>5, <2>5, <2>6, <2>8, <2>9, Finished
    <1>6. QED  BY <1>3, <1>4, <1>5

LEMMA StutterKeeps ==
    ASSUME RendererInv, UNCHANGED vars
    PROVE  RendererInv' /\ StepKept
    <1>1. /\ surfaces' = surfaces /\ jobs' = jobs /\ lost' = lost /\ dispatched' = dispatched
          /\ refused' = refused /\ Live' = Live
          BY DEF vars, Live
    <1>2. RendererInv'
          BY <1>1 DEF RendererInv, TypeOK
    <1>3. ASSUME NEW o \in Live
          PROVE  Kept(surfaces[o], surfaces'[o])
      <2>1. Evolves(surfaces[o], surfaces[o], 0) /\ surfaces[o] \in Surfaces
            BY InvFields, RedrawnMarks, RedrawnEvolves
      <2>2. QED  BY <1>1, <2>1, UntouchedKept DEF Evolves, Progresses
    <1>4. QED  BY <1>1, <1>2, <1>3 DEF StepKept

(***************************************************************************)
(* Every step.                                                             *)
(***************************************************************************)
LEMMA NextKeeps ==
    ASSUME RendererInv, [Next]_vars
    PROVE  RendererInv' /\ StepKept
    <1>1. CASE Request
      <2>1. ASSUME NEW images \in Batches, "cut" \in Requests, SetCutWallpapers(images)
            PROVE  RendererInv' /\ StepKept
            BY <2>1, SetCutWallpapersKeeps
      <2>2. ASSUME NEW images \in Batches, "pairwise" \in Requests, SetPairwiseWallpapers(images)
            PROVE  RendererInv' /\ StepKept
            BY <2>2, SetPairwiseWallpapersKeeps
      <2>3. ASSUME NEW images \in Batches, "canvas" \in Requests, SetCanvasWallpapers(images)
            PROVE  RendererInv' /\ StepKept
            BY <2>3, SetCanvasWallpapersKeeps
      <2>4. ASSUME NEW images \in Batches, "world" \in Requests, SetWorldWallpapers(images)
            PROVE  RendererInv' /\ StepKept
            BY <2>4, SetWorldWallpapersKeeps
      <2>5. ASSUME "clear" \in Requests, NEW targets \in SUBSET Outputs, Clear(targets)
            PROVE  RendererInv' /\ StepKept
            BY <2>5, ClearKeeps
      <2>6. ASSUME NEW kind \in Requests, Refuses(kind)
            PROVE  RendererInv' /\ StepKept
            BY <2>6, RefusesKeeps
      <2>7. \/ \E images \in Batches : "cut" \in Requests /\ SetCutWallpapers(images)
            \/ \E images \in Batches : "pairwise" \in Requests /\ SetPairwiseWallpapers(images)
            \/ \E images \in Batches : "canvas" \in Requests /\ SetCanvasWallpapers(images)
            \/ \E images \in Batches : "world" \in Requests /\ SetWorldWallpapers(images)
            \/ "clear" \in Requests /\ \E targets \in SUBSET Outputs : Clear(targets)
            \/ \E kind \in Requests : Refuses(kind)
            BY <1>1 DEF Request
      <2>8. QED  BY <2>1, <2>2, <2>3, <2>4, <2>5, <2>6, <2>7
    <1>2. CASE DecodeResults
      <2>1. PICK job \in jobs, ok \in BOOLEAN : DecodeResult(job, ok)
            BY <1>2 DEF DecodeResults
      <2>2. QED  BY <2>1, DecodeResultKeeps
    <1>3. CASE Wayland
      <2>1. ASSUME NEW o \in Outputs, NEW power \in Powers, NewOutput(o, power)
            PROVE  RendererInv' /\ StepKept
            BY <2>1, NewOutputKeeps
      <2>2. ASSUME NEW o \in Live, NEW size \in Sizes, Configure(o, size)
            PROVE  RendererInv' /\ StepKept
            BY <2>2, ConfigureKeeps
      <2>3. ASSUME NEW o \in Live, NEW power \in Powers, PowerMode(o, power)
            PROVE  RendererInv' /\ StepKept
            BY <2>3, PowerModeKeeps
      <2>4. ASSUME NEW o \in Live, PowerFailed(o) \/ FrameDone(o) \/ OutputDestroyed(o)
            PROVE  RendererInv' /\ StepKept
            BY <2>4, PowerFailedKeeps, FrameDoneKeeps, OutputDestroyedKeeps
      <2>5. \/ \E o \in Outputs : \E power \in Powers : NewOutput(o, power)
            \/ \E o \in Live : \/ \E size \in Sizes : Configure(o, size)
                               \/ \E power \in Powers : PowerMode(o, power)
                               \/ PowerFailed(o) \/ FrameDone(o) \/ OutputDestroyed(o)
            BY <1>3 DEF Wayland, Powers
      <2>6. QED  BY <2>1, <2>2, <2>3, <2>4, <2>5
    <1>4. CASE \E o \in Live : Elapse(o)
          BY <1>4, ElapseKeeps
    <1>5. CASE RenderPendingSurfaces
          BY <1>5, RenderPendingSurfacesKeeps
    <1>6. CASE Exit
          BY <1>6, FreshKeeps DEF Exit
    <1>7. CASE UNCHANGED vars
          BY <1>7, StutterKeeps
    <1>8. QED  BY <1>1, <1>2, <1>3, <1>4, <1>5, <1>6, <1>7 DEF Next
(***************************************************************************)
(* The theorems.                                                           *)
(***************************************************************************)
\* The inductive invariant: ids belong to one wall each, a decode job that is out is for
\* the wall that waits for it, what is on an output fits together, and no texture is
\* deleted that something still owns (surface.rs, decode.rs, render_control.rs:31).
THEOREM RendererInvariant == Spec => []RendererInv
    <1>1. Init => RendererInv
          BY InitIsSound
    <1>2. RendererInv /\ [Next]_vars => RendererInv'
          BY NextKeeps
    <1>3. QED  BY <1>1, <1>2, PTL DEF Spec

\* Every surface, queue and job of the renderer has its type, whatever fails.
THEOREM RendererTypes == Spec => []TypeOK
    <1>1. RendererInv => TypeOK
          BY DEF RendererInv
    <1>2. QED  BY <1>1, RendererInvariant, PTL

\* Whatever the order of the decode answers, and whatever was replaced meanwhile, what a
\* queued or an active transition holds is the picture that was asked of it
\* (render_control.rs:31).
THEOREM DecodesAreRequested == Spec => []DecodedIsRequested
    <1>1. RendererInv => DecodedIsRequested
      <2>1. SUFFICES ASSUME RendererInv, NEW o \in Live
                     PROVE  /\ surfaces[o].active.new \in {NoImage, surfaces[o].active.target}
                            /\ \A i \in DOMAIN surfaces[o].queue :
                                 surfaces[o].queue[i].content \in {NoImage, surfaces[o].queue[i].image}
            BY DEF DecodedIsRequested
      <2>2. Coherent(surfaces[o]) /\ DOMAIN surfaces[o].queue = 1 .. Len(surfaces[o].queue)
            BY <2>1, InvFields, QueueFields
      <2>3. QED  BY <2>2 DEF Coherent
    <1>2. QED  BY <1>1, RendererInvariant, PTL

\* Every texture alive has exactly one owner, and none outlives its output, as long as no
\* batch can fail at one output and forget the textures made for the next (surface.rs,
\* pairwise.rs:222).
THEOREM TexturesHaveOwners ==
    ASSUME Tidy
    PROVE  Spec => []TexturesOwned
    <1>1. RendererInv => TexturesOwned
      <2>1. SUFFICES ASSUME RendererInv, NEW o \in Live
                     PROVE  lost = 0 /\ surfaces[o].textures = Owned(surfaces[o])
            BY DEF TexturesOwned, RendererInv
      <2>2. lost = 0
            BY <2>1 DEF RendererInv
      <2>3. surfaces[o] \in Surfaces /\ surfaces[o].textures - Owned(surfaces[o]) = 0
            BY <2>1, InvFields DEF Sound, Surplus
      <2>4. surfaces[o].textures \in Int /\ Owned(surfaces[o]) \in Nat
            BY <2>3, SurfaceFields, SurplusType
      <2>5. QED  BY <2>2, <2>3, <2>4
    <1>2. QED  BY <1>1, RendererInvariant, PTL

\* Whatever fails, no texture is deleted twice, nor one that the wallpaper, the active
\* transition or the queue still uses: there are always as many as they own.
TexturesSuffice == \A o \in Live : Owned(surfaces[o]) <= surfaces[o].textures

\* The textures of an output are never fewer than what it shows and what waits need.
THEOREM NoTextureDeletedTwice == Spec => []TexturesSuffice
    <1>1. RendererInv => TexturesSuffice
      <2>1. SUFFICES ASSUME RendererInv, NEW o \in Live
                     PROVE  Owned(surfaces[o]) <= surfaces[o].textures
            BY DEF TexturesSuffice
      <2>2. surfaces[o] \in Surfaces /\ surfaces[o].textures - Owned(surfaces[o]) \in Nat
            BY <2>1, InvFields DEF Sound, Surplus
      <2>3. surfaces[o].textures \in Int /\ Owned(surfaces[o]) \in Nat
            BY <2>2, SurfaceFields, SurplusType
      <2>4. QED  BY <2>2, <2>3
    <1>2. QED  BY <1>1, RendererInvariant, PTL

\* Decode jobs that are out have ids of their own, and the wall with the id of one is
\* still waiting for it: an answer can neither reach a second wall nor an uploaded one
\* (decode.rs, surface.rs, render_control.rs:31).
THEOREM DecodesHaveTheirWall == Spec => []Aligned(surfaces, jobs)
    <1>1. RendererInv => Aligned(surfaces, jobs)
          BY DEF RendererInv
    <1>2. QED  BY <1>1, RendererInvariant, PTL

\* Nothing is drawn on an output, and no texture uploaded for it, while its power is off
\* or not known, in any step of any number of outputs (surface.rs:39).
THEOREM OffStaysUntouched == Spec => OffIsUntouched
    <1>1. StepKept =>
            \A o \in Live \cap DOMAIN surfaces' :
              surfaces[o].power \in {"off", "unknown"} /\ surfaces'[o].power = surfaces[o].power =>
                /\ surfaces'[o].egl = surfaces[o].egl
                /\ surfaces'[o].shown = surfaces[o].shown
                /\ surfaces'[o].textures <= surfaces[o].textures
          BY DEF StepKept, Kept, OffKept
    <1>2. RendererInv /\ [Next]_vars => StepKept
          BY NextKeeps
    <1>3. QED  BY <1>1, <1>2, RendererInvariant, PTL DEF Spec, OffIsUntouched

\* The queue of an output is a FIFO: a step takes walls from its front and adds at most
\* one at its end, or clears it (surface.rs:628).
THEOREM QueuesAreFifo == Spec => QueueIsFifo
    <1>1. StepKept =>
            \A o \in Live \cap DOMAIN surfaces' :
              LET old == Waiting(surfaces[o])
                  new == Waiting(surfaces'[o])
              IN new = <<>> \/ \E k \in 1 .. Len(old) + 1, n \in 0 .. 1 :
                    /\ Len(new) = Len(old) + 1 - k + n
                    /\ \A i \in 1 .. Len(old) + 1 - k : new[i] = old[i + k - 1]
          BY DEF StepKept, Kept, Fifo
    <1>2. RendererInv /\ [Next]_vars => StepKept
          BY NextKeeps
    <1>3. QED  BY <1>1, <1>2, RendererInvariant, PTL DEF Spec, QueueIsFifo
(***************************************************************************)
(* What a refused set leaves behind.                                       *)
(***************************************************************************)
DrawsWork == Faults \cap {"create", "draw", "swap"} = {}

\* No drawing fails; or only pairwise sets and clears come, and no transition is over
\* by its first frame.  Cuts and scenes do not go back when a drawing fails.
Gentle == DrawsWork \/ (Requests \subseteq {"pairwise", "clear"} /\ "instant" \notin Faults)

Unmoved(s, t) ==
    /\ t.image = s.image /\ t.wall = s.wall /\ t.active.target = s.active.target
    /\ Waiting(t) = Waiting(s)

\* What a step that refuses a set does.
RefusedKept == refused' \in {"cut"} \cup Kinds => \A o \in Live : Unmoved(surfaces[o], surfaces'[o])

LEMMA NoneBroken ==
    ASSUME NEW targets, NEW outcomes, NEW r \in Attempts(targets, outcomes),
           \A o \in targets : \A d \in outcomes[o] : d.ok
    PROVE  Broken(r) = {}
    BY AttemptsFields DEF Broken

LEMMA CutSucceeds ==
    ASSUME RendererInv, DrawsWork, NEW images \in Batches, Renderable(DOMAIN images),
           NEW kind, CutAll(kind, images)
    PROVE  refused' = "none"
    <1>1. PICK targets \in SUBSET Live : targets = DOMAIN images
          BY BatchFields
    <1>2. PICK first : first = [o \in targets |->
                    RenderCurrent(SetCut(WithTextures(surfaces[o], 1), images[o], images[o]))]
          OBVIOUS
    <1>3. PICK r \in Attempts(targets, first) : Answers(r, kind)
          BY <1>1, <1>2 DEF CutAll
    <1>4. ASSUME NEW o \in targets, NEW d \in first[o]
          PROVE  d.ok
      <2>1. PICK one \in Nat : one = 1
            OBVIOUS
      <2>2. PICK t : t = SetCut(WithTextures(surfaces[o], one), images[o], images[o])
            OBVIOUS
      <2>3. d \in RenderCurrent(t)
            BY <1>2, <1>4, <2>1, <2>2
      <2>4. WithTextures(surfaces[o], one) \in Surfaces /\ images[o] \in Images
            BY <1>1, BatchFields, InvFields, WithTexturesEvolves
      <2>5. t \in Surfaces
            BY <2>2, <2>4, SetCutEvolves
      <2>6. QED  BY <2>3, <2>5, DrawsSucceed DEF DrawsWork
    <1>5. QED  BY <1>3, <1>4, NoneBroken DEF Answers

\* The first frames of a batch, with the content of each.
Frames(first, starts, n, kind, images, content, aux, id) ==
    \A o \in starts : /\ images[o] \in Images /\ content[o] \in Pictures /\ id[o] \in Nat
                      /\ first[o] = FirstFrames(WithTextures(surfaces[o], n), kind, images[o],
                                                content[o], aux, id[o])

\* First frames that succeed refuse nothing.
LEMMA StartsSucceed ==
    ASSUME RendererInv, DrawsWork, NEW starts \in SUBSET Live, NEW images, NEW content, NEW id,
           NEW kind \in Kinds, NEW n \in Nat, NEW aux \in {0, 1}, NEW first,
           Frames(first, starts, n, kind, images, content, aux, id),
           NEW r \in Attempts(starts, first), Answers(r, kind)
    PROVE  refused' = "none"
    <1> USE DEF Frames
    <1>1. ASSUME NEW o \in starts, NEW d \in first[o]
          PROVE  d.ok
      <2>1. PICK w \in Surfaces : w = WithTextures(surfaces[o], n)
            BY InvFields, WithTexturesEvolves
      <2>2. d \in FirstFrames(w, kind, images[o], content[o], aux, id[o])
            BY <1>1, <2>1
      <2>3. QED  BY <2>2, FirstFramesSucceed DEF DrawsWork
    <1>2. QED  BY <1>1, NoneBroken DEF Answers

LEMMA SetsSucceed ==
    ASSUME RendererInv, DrawsWork, NEW images \in Batches,
           \/ SetCutWallpapers(images) \/ SetPairwiseWallpapers(images)
           \/ SetCanvasWallpapers(images) \/ SetWorldWallpapers(images)
    PROVE  refused' = "none"
    <1>1. Renderable(DOMAIN images)
          BY DEF SetCutWallpapers, SetPairwiseWallpapers, SetCanvasWallpapers, SetWorldWallpapers
    <1>2. PICK starts \in SUBSET Live :
             /\ starts = Idle(DOMAIN images)
             /\ \A o \in starts : o \in DOMAIN images /\ images[o] \in Images
          BY <1>1, TargetsFields DEF Idle
    <1>3. PICK zero \in {0, 1}, one \in {0, 1}, two \in Nat :
             zero = 0 /\ one = 1 /\ two = 2 /\ zero \in Nat /\ one \in Nat
          OBVIOUS
    <1>3a. PICK id : id = FreshIds(DOMAIN images)
           OBVIOUS
    <1>3b. PICK none : none = [o \in starts |-> NoImage]
           OBVIOUS
    <1>4. \A o \in starts : images[o] \in Pictures /\ none[o] \in Pictures /\ id[o] \in Nat
          BY <1>1, <1>2, <1>3a, <1>3b, TargetsFields DEF Pictures, Unused
    <1>5. CASE SetCutWallpapers(images)
          BY <1>1, <1>5, CutSucceeds DEF SetCutWallpapers
    <1>6. CASE SetPairwiseWallpapers(images)
      <2>1. PICK first : first = [o \in starts |->
                      FirstFrames(WithTextures(surfaces[o], 1), "pairwise", images[o], images[o], 0, 0)]
            OBVIOUS
      <2>2. PICK r \in Attempts(starts, first) : Answers(r, "pairwise")
            BY <1>2, <1>6, <2>1 DEF SetPairwiseWallpapers
      <2>3. PICK kind, zeros : kind \in Kinds /\ kind = "pairwise" /\ zeros = [o \in starts |-> 0]
            BY DEF Kinds
      <2>4. Frames(first, starts, one, kind, images, images, zero, zeros)
            BY <1>2, <1>3, <1>4, <2>1, <2>3 DEF Frames
      <2>5. QED  BY <1>3, <2>2, <2>3, <2>4, StartsSucceed
    <1>7. CASE SetWorldWallpapers(images)
      <2>1. PICK first : first = [o \in starts |->
                      FirstFrames(WithTextures(surfaces[o], 2), "world", images[o], images[o], 1, 0)]
            OBVIOUS
      <2>2. PICK r \in Attempts(starts, first) : Answers(r, "world")
            BY <1>2, <1>7, <2>1 DEF SetWorldWallpapers
      <2>3. PICK kind, zeros : kind \in Kinds /\ kind = "world" /\ zeros = [o \in starts |-> 0]
            BY DEF Kinds
      <2>4. Frames(first, starts, two, kind, images, images, one, zeros)
            BY <1>2, <1>3, <1>4, <2>1, <2>3 DEF Frames
      <2>5. QED  BY <1>3, <2>2, <2>3, <2>4, StartsSucceed
    <1>8. CASE SetCanvasWallpapers(images)
      <2>1. PICK first : first = [o \in starts |->
                      FirstFrames(WithTextures(surfaces[o], 1), "canvas", images[o], NoImage, 1, id[o])]
            OBVIOUS
      <2>2. CutAll("canvas", images) \/ \E r \in Attempts(starts, first) : Answers(r, "canvas")
            BY <1>2, <1>3a, <1>8, <2>1, Zenon DEF SetCanvasWallpapers
      <2>3. CASE CutAll("canvas", images)
            BY <1>1, <2>3, CutSucceeds
      <2>4. CASE \E r \in Attempts(starts, first) : Answers(r, "canvas")
        <3>1. PICK r \in Attempts(starts, first) : Answers(r, "canvas")
              BY <2>4
        <3>2. PICK kind \in Kinds : kind = "canvas"
              BY DEF Kinds
        <3>3. Frames(first, starts, one, kind, images, none, one, id)
              BY <1>2, <1>3, <1>3b, <1>4, <2>1, <3>2 DEF Frames
        <3>4. QED  BY <1>3, <3>1, <3>2, <3>3, StartsSucceed
      <2>5. QED  BY <2>2, <2>3, <2>4
    <1>9. QED  BY <1>5, <1>6, <1>7, <1>8
\* A first frame of a transition that takes its time.
LEMMA FirstFrameRedraws ==
    ASSUME "instant" \notin Faults, NEW s \in Surfaces, ~IsRunning(s), NEW n \in Nat,
           NEW kind \in Kinds, NEW image \in Images, NEW content \in Pictures, NEW aux \in {0, 1},
           NEW r \in FirstFrames(WithTextures(s, n), kind, image, content, aux, 0)
    PROVE  /\ r.surface \in Surfaces /\ IsRunning(r.surface)
           /\ r.surface.active.old = s.wall /\ r.surface.wall = NoImage
           /\ r.surface.image = s.image /\ r.surface.queue = s.queue
    <1>1. PICK none \in Nat, w \in Surfaces : /\ none = 0 /\ w = WithTextures(s, n)
                                              /\ w.queue = s.queue /\ w.active = s.active
                                              /\ w.wall = s.wall /\ w.image = s.image
          BY WithTexturesEvolves
    <1>2. PICK t \in Starts(w, kind, image, content, aux, none) : r \in RenderActive(t)
          BY <1>1 DEF FirstFrames
    <1>3. Settle(w) = w
          BY <1>1 DEF Settle, IsRunning
    <1>4. /\ t \in Surfaces /\ IsRunning(t) /\ t.queue = s.queue /\ t.wall = NoImage
          /\ t.image = s.image /\ t.active.old = s.wall /\ ~t.active.elapsed
      <2>1. /\ t \in Surfaces /\ IsRunning(t) /\ t.queue = w.queue /\ t.wall = NoImage
            /\ t.image = Settle(w).image /\ t.active.old = Settle(w).wall
            /\ t.active.elapsed => "instant" \in Faults
            BY <1>1, <1>2, StartsDetails
      <2>2. QED  BY <1>1, <1>3, <2>1
    <1>5. PICK m \in Nat : m = Len(t.queue)
          BY <1>4, QueueFields
    <1>6. r \in RenderActives[m][t]
          BY <1>2, <1>5 DEF RenderActive
    <1>7. PICK next : r \in RenderWith(t, next)
      <2>1. CASE m = 0
            BY <1>4, <1>6, <2>1, RenderActivesDef
      <2>2. CASE m # 0
            BY <1>4, <1>5, <1>6, <2>2, RenderActivesDef
      <2>3. QED  BY <2>1, <2>2
    <1>8. ~IsFinished(t)
          BY <1>4 DEF IsFinished
    <1>9. r = Done(DeferRender(t)) \/ r \in DrawTransition(t)
          BY <1>4, <1>7, <1>8, RenderWithCases
    <1>10. Redrawn(t, r.surface)
      <2>1. CASE r = Done(DeferRender(t))
        <3>1. Redrawn(t, DeferRender(t))
              BY <1>4, RedrawnMarks
        <3>2. r.surface = DeferRender(t)
              BY <2>1 DEF Done
        <3>3. QED  BY <3>1, <3>2
      <2>2. CASE r \in DrawTransition(t)
            BY <1>4, <2>2, RendersRedraw
      <2>3. QED  BY <1>9, <2>1, <2>2
    <1>11. QED  BY <1>4, <1>10 DEF Redrawn, IsRunning

\* Going back restores what was there.
LEMMA RestoreOldUnmoved ==
    ASSUME NEW s \in Surfaces, ~IsRunning(s), NEW t \in Surfaces, IsRunning(t),
           t.active.old = s.wall, t.wall = NoImage, t.image = s.image, t.queue = s.queue
    PROVE  Unmoved(s, RestoreOld(t)) /\ RestoreOld(t) \in Surfaces /\ ~IsRunning(RestoreOld(t))
    <1>1. RestoreOld(t) \in Surfaces /\ ~IsRunning(RestoreOld(t)) /\ RestoreOld(t).queue = s.queue
          BY RestoreOldEvolves
    <1>2. RestoreOld(t).active.target = s.active.target
          BY <1>1 DEF IsRunning
    <1>3. RestoreOld(t).wall = s.wall /\ RestoreOld(t).image = s.image
          BY DEF RestoreOld, Surfaces
    <1>4. QED  BY <1>1, <1>2, <1>3 DEF Unmoved, Waiting

LEMMA RedrawnUnmoved ==
    ASSUME NEW s, NEW t, Unmoved(s, t), NEW u, Redrawn(t, u)
    PROVE  Unmoved(s, u)
    BY DEF Unmoved, Redrawn, Waiting

LEMMA RolledBackUnmoved ==
    ASSUME RendererInv, "instant" \notin Faults, NEW images \in Batches, Renderable(DOMAIN images),
           NEW starts, starts = Idle(DOMAIN images),
           NEW first, first = [o \in starts |->
                    FirstFrames(WithTextures(surfaces[o], 1), "pairwise", images[o], images[o], 0, 0)],
           NEW r \in Attempts(starts, first), NEW T \in RolledBack(starts, r), NEW o \in Live
    PROVE  T[o] \in Surfaces /\ Unmoved(surfaces[o], T[o])
    <1>1. PICK outcomes : outcomes = [p \in DOMAIN r |-> RenderActive(RestoreOld(r[p].surface))]
          OBVIOUS
    <1>2. PICK again \in Products(DOMAIN r \ Broken(r), outcomes) :
                 T = [p \in Live |-> IF p \in Broken(r) THEN MarkRecreate(RestoreOld(r[p].surface))
                                     ELSE IF p \notin DOMAIN r THEN surfaces[p]
                                     ELSE IF again[p].ok THEN again[p].surface
                                     ELSE MarkRecreate(again[p].surface)]
          BY <1>1 DEF RolledBack
    <1>3. DOMAIN r \in SUBSET starts /\ Broken(r) \in SUBSET DOMAIN r
          BY AttemptsFields
    <1>4. PICK s \in Surfaces : s = surfaces[o]
          BY InvFields
    <1>5. CASE o \notin DOMAIN r
      <2>1. T[o] = s
            BY <1>2, <1>3, <1>4, <1>5
      <2>2. QED  BY <1>4, <2>1 DEF Unmoved
    <1>6. CASE o \in DOMAIN r
      <2>1. r[o] \in first[o] /\ o \in starts
            BY <1>3, <1>6, AttemptsFields
      <2>2. ~IsRunning(s) /\ images[o] \in Images
            BY <1>4, <2>1, TargetsFields
      <2>3. PICK one \in Nat, zero \in {0, 1}, kind \in Kinds :
                 one = 1 /\ zero = 0 /\ kind = "pairwise" /\ images[o] \in Pictures
            BY <2>2 DEF Kinds, Pictures
      <2>4. r[o] \in FirstFrames(WithTextures(s, one), kind, images[o], images[o], zero, 0)
            BY <1>4, <2>1, <2>3
      <2>5. PICK t \in Surfaces : /\ t = r[o].surface /\ IsRunning(t)
                                  /\ t.active.old = s.wall /\ t.wall = NoImage
                                  /\ t.image = s.image /\ t.queue = s.queue
            BY <2>2, <2>3, <2>4, FirstFrameRedraws
      <2>6. PICK u \in Surfaces : u = RestoreOld(t) /\ Unmoved(s, u) /\ ~IsRunning(u)
            BY <2>2, <2>5, RestoreOldUnmoved
      <2>7. Redrawn(u, MarkRecreate(u))
            BY <2>6, RedrawnMarks
      <2>8. ASSUME o \notin Broken(r)
            PROVE  Redrawn(u, again[o].surface) /\ Redrawn(u, MarkRecreate(again[o].surface))
        <3>1. again[o] \in RenderActive(u)
          <4>1. again[o] \in outcomes[o]
                BY <1>2, <1>6, <2>8, ProductsFields
          <4>2. QED  BY <1>1, <1>6, <2>5, <2>6, <4>1
        <3>2. PICK m \in Nat : m = Len(u.queue)
              BY <2>6, QueueFields
        <3>3. again[o] \in RenderActives[m][u]
              BY <3>1, <3>2 DEF RenderActive
        <3>4. PICK next : again[o] \in RenderWith(u, next)
          <4>1. CASE m = 0
                BY <3>3, <4>1, RenderActivesDef
          <4>2. CASE m # 0
                BY <3>2, <3>3, <4>2, RenderActivesDef
          <4>3. QED  BY <4>1, <4>2
        <3>5. again[o] \in RenderCurrent(u)
              BY <2>6, <3>4, RenderWithCases
        <3>6. Redrawn(u, again[o].surface)
              BY <3>5, RendersRedraw
        <3>7. again[o].surface \in Surfaces
              BY <3>6 DEF Redrawn
        <3>8. QED  BY <3>6, <3>7, RedrawnMarks, RedrawnTwice
      <2>9. Redrawn(u, T[o])
        <3>1. CASE o \in Broken(r)
              BY <1>2, <2>5, <2>6, <2>7, <3>1
        <3>2. CASE o \notin Broken(r)
              BY <1>2, <1>6, <2>8, <3>2
        <3>3. QED  BY <3>1, <3>2
      <2>10. QED  BY <1>4, <2>6, <2>9, RedrawnUnmoved DEF Redrawn
    <1>7. QED  BY <1>5, <1>6

LEMMA PairwiseRefusedKept ==
    ASSUME RendererInv, "instant" \notin Faults, NEW images \in Batches, SetPairwiseWallpapers(images)
    PROVE  RefusedKept
    <1>1. PICK starts : starts = Idle(DOMAIN images)
          OBVIOUS
    <1>2. PICK first : first = [o \in starts |->
                    FirstFrames(WithTextures(surfaces[o], 1), "pairwise", images[o], images[o], 0, 0)]
          OBVIOUS
    <1>3. Renderable(DOMAIN images)
          BY DEF SetPairwiseWallpapers
    <1>4. PICK r \in Attempts(starts, first) :
             /\ Answers(r, "pairwise")
             /\ Broken(r) = {} \/ \E back \in RolledBack(starts, r) : Handled(back, {})
          BY <1>1, <1>2 DEF SetPairwiseWallpapers
    <1>5. CASE Broken(r) = {}
          BY <1>4, <1>5 DEF Answers, RefusedKept, Kinds
    <1>6. CASE \E back \in RolledBack(starts, r) : Handled(back, {})
      <2>1. PICK back \in RolledBack(starts, r) : Handled(back, {})
            BY <1>6
      <2>2. ASSUME NEW o \in Live
            PROVE  Unmoved(surfaces[o], surfaces'[o])
        <3>1. back[o] \in Surfaces /\ Unmoved(surfaces[o], back[o])
              BY <1>1, <1>2, <1>3, RolledBackUnmoved
        <3>2. surfaces'[o] = [back[o] EXCEPT !.sent = {}]
              BY <2>1 DEF Handled
        <3>3. PICK b, t : b \in Surfaces /\ b = back[o] /\ t = [b EXCEPT !.sent = {}]
              BY <3>1
        <3>4. t.image = b.image /\ t.wall = b.wall /\ t.active = b.active /\ t.queue = b.queue
              BY <3>3 DEF Surfaces
        <3>5. Unmoved(surfaces[o], t)
              BY <3>1, <3>3, <3>4 DEF Unmoved, Waiting
        <3>6. QED  BY <3>2, <3>3, <3>5
      <2>3. QED  BY <2>2 DEF RefusedKept
    <1>7. QED  BY <1>4, <1>5, <1>6

LEMMA NextRefusedKept ==
    ASSUME RendererInv, Gentle, [Next]_vars
    PROVE  RefusedKept
    <1>1. CASE refused' \notin {"cut"} \cup Kinds
          BY <1>1 DEF RefusedKept
    <1>2. CASE \E kind \in Requests : Refuses(kind)
          BY <1>2 DEF Refuses, RefusedKept, Unmoved
    <1>3. CASE UNCHANGED vars
          BY <1>3 DEF vars, RefusedKept, Unmoved
    <1>4. ASSUME NEW images \in Batches,
                 \/ "cut" \in Requests /\ SetCutWallpapers(images)
                 \/ "pairwise" \in Requests /\ SetPairwiseWallpapers(images)
                 \/ "canvas" \in Requests /\ SetCanvasWallpapers(images)
                 \/ "world" \in Requests /\ SetWorldWallpapers(images)
          PROVE  RefusedKept
      <2>1. CASE DrawsWork
        <3>1. refused' = "none"
              BY <1>4, <2>1, SetsSucceed
        <3>2. QED  BY <3>1 DEF RefusedKept, Kinds
      <2>2. CASE Requests \subseteq {"pairwise", "clear"} /\ "instant" \notin Faults
        <3>1. SetPairwiseWallpapers(images)
              BY <1>4, <2>2
        <3>2. QED  BY <2>2, <3>1, PairwiseRefusedKept
      <2>3. QED  BY <2>1, <2>2 DEF Gentle
    <1>5. ASSUME NEW targets, Clear(targets)
          PROVE  RefusedKept
          BY <1>5 DEF Clear, Answers, RefusedKept, Kinds
    <1>6. CASE DecodeResults \/ Wayland \/ (\E o \in Live : Elapse(o)) \/ RenderPendingSurfaces \/ Exit
      <2>1. refused' = "none"
        <3>1. CASE DecodeResults
              BY <3>1 DEF DecodeResults, DecodeResult
        <3>2. CASE Wayland
              BY <3>2 DEF Wayland, NewOutput, Configure, PowerMode, PowerFailed, FrameDone,
                          OutputDestroyed, Becomes
        <3>3. CASE \E o \in Live : Elapse(o)
              BY <3>3 DEF Elapse
        <3>4. CASE RenderPendingSurfaces
              BY <3>4 DEF RenderPendingSurfaces, Fresh
        <3>5. CASE Exit
              BY <3>5 DEF Exit, Fresh
        <3>6. QED  BY <1>6, <3>1, <3>2, <3>3, <3>4, <3>5
      <2>2. QED  BY <2>1 DEF RefusedKept, Kinds
    <1>7. Request => \/ \E images \in Batches :
                          \/ "cut" \in Requests /\ SetCutWallpapers(images)
                          \/ "pairwise" \in Requests /\ SetPairwiseWallpapers(images)
                          \/ "canvas" \in Requests /\ SetCanvasWallpapers(images)
                          \/ "world" \in Requests /\ SetWorldWallpapers(images)
                     \/ \E targets : Clear(targets)
                     \/ \E kind \in Requests : Refuses(kind)
          BY DEF Request
    <1>8. QED  BY <1>2, <1>3, <1>4, <1>5, <1>6, <1>7 DEF Next

\* A pairwise set that fails on one output leaves every output the wall, the picture and the
\* queue it had, those included that had started before, for any outputs and any failures;
\* and no set at all fails after it was accepted while drawing works
\* (docs/architecture.md:138, pairwise.rs:222).
THEOREM RefusalsPreserve ==
    ASSUME Gentle
    PROVE  Spec => RefusalPreserves
    <1>1. RendererInv /\ [Next]_vars => RefusedKept
          BY NextRefusedKept
    <1>2. RefusedKept <=> (refused' \in {"cut"} \cup Kinds =>
             \A o \in Live : /\ surfaces'[o].image = surfaces[o].image
                             /\ surfaces'[o].wall = surfaces[o].wall
                             /\ surfaces'[o].active.target = surfaces[o].active.target
                             /\ Waiting(surfaces'[o]) = Waiting(surfaces[o]))
          BY DEF RefusedKept, Unmoved
    <1>3. QED  BY <1>1, <1>2, RendererInvariant, PTL DEF Spec, RefusalPreserves
(***************************************************************************)
(* What an output waits for, and what it shows.                            *)
(***************************************************************************)
\* No canvas set comes, and no scene is cut short by a drawing that fails.
Prompt == "canvas" \notin Requests /\ ("world" \notin Requests \/ DrawsWork)

\* No canvas set comes, and no clear fails.
Plain == "canvas" \notin Requests /\ ("clear" \notin Requests \/ DrawsWork)

\* The output is drawn again, or a frame callback will come.
Alive(s) == s.pending \/ s.frame = "committed"

Sized(s) == s.egl # 0 => s.size # 0

\* Only what may be requested is shown or waits, and nothing waits for a target.
Asked(queue) == \A i \in 1 .. Len(queue) : queue[i].kind \in Requests
Fit(s) == /\ Sized(s)
          /\ s.active.kind \in Requests \cup {"none"} /\ s.active.decode = 0
          /\ Asked(s.queue)

\* Walls are queued behind a running transition only.
Backed(s) == s.queue # <<>> => IsRunning(s)
Lively(s) == Backed(s) /\ (IsRunning(s) => Alive(s))

\* The image reported is the one whose picture the wall is, or was when the transition began.
Titled(s) == /\ IsRunning(s) => s.image = s.active.old /\ s.active.new # NoImage
             /\ ~IsRunning(s) => s.wall = s.image

PictureOf(wall) == IF wall = NoImage THEN "clear" ELSE wall
Current(s) == ~IsRunning(s) /\ ~s.pending /\ s.egl # 0 => s.shown = PictureOf(s.wall)

Posed(s) == /\ s \in Surfaces /\ Fit(s)
            /\ Prompt => Lively(s)
            /\ Plain => Titled(s) /\ Current(s)

\* An operation that failed leaves an output that is at rest once it is drawn again.
Framed(d) == /\ d.surface \in Surfaces /\ Fit(d.surface)
             /\ Prompt => Backed(d.surface) /\ (d.ok => Lively(d.surface))
             /\ Plain => Titled(d.surface) /\ (d.ok => Current(d.surface))

LEMMA EnsureEglPosed ==
    ASSUME NEW s \in Surfaces, NEW size \in Sizes, NEW e \in EnsureEgl(s, size)
    PROVE  /\ Sized(s) => Sized(e.surface)
           /\ e.surface.pending = s.pending /\ e.surface.frame = s.frame
    <1>1. size # 0
          BY OutputSurfaceAssumption
    <1>2. CASE e = Done(s) \/ e = Failed(s)
          BY <1>2 DEF Done, Failed
    <1>3. CASE e = Done([DestroyEgl(s) EXCEPT !.size = size, !.egl = size])
      <2>1. e.surface = [DestroyEgl(s) EXCEPT !.size = size, !.egl = size]
            BY <1>3 DEF Done
      <2>2. e.surface.size = size /\ e.surface.pending = s.pending /\ e.surface.frame = s.frame
            BY <2>1 DEF DestroyEgl, Surfaces
      <2>3. QED  BY <1>1, <2>2 DEF Sized
    <1>4. CASE e = Failed(DestroyEgl(s))
      <2>1. e.surface = DestroyEgl(s)
            BY <1>4 DEF Failed
      <2>2. e.surface.egl = 0 /\ e.surface.pending = s.pending /\ e.surface.frame = s.frame
            BY <2>1 DEF DestroyEgl, Surfaces
      <2>3. QED  BY <2>2 DEF Sized
    <1>5. QED  BY <1>2, <1>3, <1>4 DEF EnsureEgl, May

LEMMA SwappedPosed ==
    ASSUME NEW s \in Surfaces, NEW picture
    PROVE  LET t == Swapped(s, picture) IN
           /\ t.shown = picture /\ t.egl = s.egl /\ t.size = s.size
           /\ s.frame # "none" => t.frame = "committed"
    <1>1. s.frame \in {"none", "requested", "committed"}
          BY SurfaceFields
    <1>2. QED  BY <1>1 DEF Swapped, Surfaces

LEMMA WithFramePosed ==
    ASSUME NEW s \in Surfaces
    PROVE  LET t == WithFrame(s) IN
           t.egl = s.egl /\ t.size = s.size /\ t.pending = s.pending /\ t.frame # "none"
    BY DEF WithFrame, Surfaces

\* What drawing leaves.
LEMMA DrawPosed ==
    ASSUME NEW s \in Surfaces, Sized(s), NEW picture \in Pictures \cup {"clear", "midway"},
           NEW animated \in BOOLEAN, NEW r \in Draw(s, picture, animated)
    PROVE  LET t == r.surface IN
           /\ Sized(t)
           /\ r.ok /\ animated /\ (Alive(s) \/ s.size # 0) => Alive(t)
           /\ r.ok /\ ~t.pending /\ t.egl # 0 => t.shown = picture
    <1>1. CASE ~AllowsEgl(s)
      <2>1. r = Done(DeferRender(s))
            BY <1>1 DEF Draw
      <2>2. PICK t : t = DeferRender(s) /\ t = r.surface
            BY <2>1 DEF Done
      <2>3. t.pending /\ t.egl = s.egl /\ t.size = s.size
            BY <2>2 DEF DeferRender, Surfaces
      <2>4. QED  BY <2>2, <2>3 DEF Sized, Alive
    <1>2. CASE AllowsEgl(s) /\ s.size = 0
      <2>1. r = Done(s)
            BY <1>2 DEF Draw
      <2>2. r.surface = s
            BY <2>1 DEF Done
      <2>3. QED  BY <1>2, <2>2 DEF Sized, Alive
    <1>3. CASE AllowsEgl(s) /\ s.size # 0
      <2>1. PICK e \in EnsureEgl(s, s.size) :
                LET t == IF animated THEN WithFrame(e.surface) ELSE e.surface IN
                \/ ~e.ok /\ r = e
                \/ r = Done(Swapped(t, picture))
                \/ r = Failed(e.surface) \/ r = Failed(t)
            BY <1>3 DEF Draw, May
      <2>2. s.size \in Sizes
            BY <1>3, SurfaceFields
      <2>3. PICK f \in Surfaces : f = e.surface /\ Sized(f)
            BY <2>2, EnsureEglRedraws, EnsureEglPosed DEF Redrawn
      <2>4. PICK t \in Surfaces : /\ t = IF animated THEN WithFrame(f) ELSE f
                                  /\ Sized(t) /\ (animated => t.frame # "none")
        <3>1. WithFrame(f) \in Surfaces
              BY RedrawnMarks DEF Redrawn
        <3>2. Sized(WithFrame(f)) /\ WithFrame(f).frame # "none"
              BY <2>3, WithFramePosed DEF Sized
        <3>3. QED  BY <2>3, <3>1, <3>2
      <2>5. (~r.ok /\ r.surface \in {f, t}) \/ r = Done(Swapped(t, picture))
        <3>1. (~e.ok /\ r = e) \/ r = Done(Swapped(t, picture)) \/ r = Failed(f) \/ r = Failed(t)
              BY <2>1, <2>3, <2>4
        <3>2. QED  BY <2>3, <3>1 DEF Failed
      <2>6. CASE ~r.ok /\ r.surface \in {f, t}
            BY <2>3, <2>4, <2>6
      <2>7. CASE r = Done(Swapped(t, picture))
        <3>1. PICK u : u = Swapped(t, picture) /\ u = r.surface
              BY <2>7 DEF Done
        <3>2. LET v == Swapped(t, picture) IN
              /\ v.shown = picture /\ v.egl = t.egl /\ v.size = t.size
              /\ t.frame # "none" => v.frame = "committed"
              BY SwappedPosed
        <3>3. /\ u.shown = picture /\ u.egl = t.egl /\ u.size = t.size
              /\ t.frame # "none" => u.frame = "committed"
              BY <3>1, <3>2
        <3>4. QED  BY <2>4, <3>1, <3>3 DEF Sized, Alive
      <2>8. QED  BY <2>5, <2>6, <2>7
    <1>4. QED  BY <1>1, <1>2, <1>3

LEMMA RendersPosed ==
    ASSUME NEW s \in Surfaces, Sized(s)
    PROVE  /\ \A r \in RenderClear(s) :
                Sized(r.surface) /\ (r.ok /\ ~r.surface.pending /\ r.surface.egl # 0 => r.surface.shown = "clear")
           /\ \A r \in RenderCurrent(s) : Sized(r.surface) /\ (r.ok => Current(r.surface))
           /\ \A r \in DrawTransition(s) :
                Sized(r.surface) /\ (r.ok /\ (Alive(s) \/ s.size # 0) => Alive(r.surface))
    <1>1. s.wall \in Pictures /\ PictureOf(s.wall) \in Pictures \cup {"clear", "midway"}
          BY SurfaceFields DEF PictureOf
    <1>2. ASSUME NEW r \in RenderCurrent(s)
          PROVE  Sized(r.surface) /\ (r.ok => Current(r.surface))
      <2>1. PICK animated \in BOOLEAN : animated = FALSE
            OBVIOUS
      <2>2. r \in Draw(s, PictureOf(s.wall), animated)
            BY <2>1 DEF RenderCurrent, PictureOf
      <2>3. r.surface.wall = s.wall
            BY RendersRedraw DEF Redrawn
      <2>4. QED  BY <1>1, <2>2, <2>3, DrawPosed DEF Current
    <1>3. ASSUME NEW r \in RenderClear(s)
          PROVE  Sized(r.surface) /\ (r.ok /\ ~r.surface.pending /\ r.surface.egl # 0 => r.surface.shown = "clear")
      <2>1. PICK animated \in BOOLEAN, picture \in Pictures \cup {"clear", "midway"} :
              animated = FALSE /\ picture = "clear"
            OBVIOUS
      <2>2. r \in Draw(s, picture, animated)
            BY <2>1 DEF RenderClear
      <2>3. QED  BY <2>1, <2>2, DrawPosed
    <1>4. ASSUME NEW r \in DrawTransition(s)
          PROVE  Sized(r.surface) /\ (r.ok /\ (Alive(s) \/ s.size # 0) => Alive(r.surface))
      <2>1. PICK animated \in BOOLEAN, picture \in Pictures \cup {"clear", "midway"} :
              animated = TRUE /\ picture = "midway"
            OBVIOUS
      <2>2. r \in Draw(s, picture, animated)
            BY <2>1 DEF DrawTransition
      <2>3. QED  BY <2>1, <2>2, DrawPosed
    <1>5. QED  BY <1>2, <1>3, <1>4

\* t is s with another transition, or with none.
Stays(s, t) == t.pending = s.pending /\ t.frame = s.frame /\ t.size = s.size /\ t.egl = s.egl
Turns(s, t) == /\ Stays(s, t)
               /\ Fit(s) => Fit(t)
               /\ Titled(s) => Titled(t)

LEMMA TurnsTwice ==
    ASSUME NEW s, NEW t, NEW u, Turns(s, t), Turns(t, u)
    PROVE  Turns(s, u)
    BY DEF Turns, Stays

LEMMA AskedBehind ==
    ASSUME NEW s \in Surfaces, NEW t \in Surfaces, Behind(s, t), Asked(s.queue)
    PROVE  Asked(t.queue)
    <1>1. PICK k \in 0 .. Len(s.queue) : Drained(s, t, k)
          BY DEF Behind
    <1>2. ASSUME NEW i \in 1 .. Len(t.queue)
          PROVE  t.queue[i].kind \in Requests
      <2>1. i + k \in 1 .. Len(s.queue) /\ Later(s.queue[i + k], t.queue[i])
            BY <1>1, WasBehind
      <2>2. QED  BY <2>1 DEF Asked, Later
    <1>3. QED  BY <1>2 DEF Asked

LEMMA EmptyBehind ==
    ASSUME NEW s \in Surfaces, NEW t \in Surfaces, Behind(s, t), s.queue = <<>>
    PROVE  t.queue = <<>>
    <1>1. PICK k \in 0 .. Len(s.queue) : Drained(s, t, k)
          BY DEF Behind
    <1>2. Len(t.queue) = Len(s.queue) - k /\ Len(s.queue) = 0
          BY <1>1, QueueFields DEF Drained
    <1>3. QED  BY <1>2, QueueFields

\* A transition that ends, by being shown in full or by going back.
LEMMA EndsTurn ==
    ASSUME NEW s \in Surfaces, Coherent(s)
    PROVE  Turns(s, Settle(s)) /\ Turns(s, RestoreOld(s))
    <1>1. ASSUME NEW t \in Surfaces, ~IsRunning(t), t.queue = s.queue, Stays(s, t),
                 Titled(s) => t.wall = t.image
          PROVE  Turns(s, t)
      <2>1. t.active.kind = "none" /\ t.active.decode = 0
            BY <1>1 DEF IsRunning, NoActive
      <2>2. Fit(s) => Fit(t)
            BY <1>1, <2>1 DEF Fit, Stays, Sized
      <2>3. Titled(s) => Titled(t)
            BY <1>1 DEF Titled
      <2>4. QED  BY <1>1, <2>2, <2>3 DEF Turns
    <1>2. CASE ~IsRunning(s)
      <2>1. Settle(s) = s /\ RestoreOld(s) = s
            BY <1>2 DEF Settle, RestoreOld
      <2>2. QED  BY <2>1 DEF Turns, Stays
    <1>3. CASE IsRunning(s)
      <2>1. s.wall = NoImage /\ s.active.new \in {NoImage, s.active.target}
            BY <1>3 DEF Coherent, IsRunning
      <2>2. Stays(s, Settle(s)) /\ (Titled(s) => Settle(s).wall = Settle(s).image)
        <3>1. CASE s.active.new # NoImage
          <4>1. PICK m : Settle(s) = [s EXCEPT !.active = NoActive, !.wall = s.active.new,
                                               !.image = s.active.target, !.textures = m]
                BY <1>3, <3>1 DEF Settle
          <4>2. PICK t : t = Settle(s)
                OBVIOUS
          <4>3. t.wall = s.active.new /\ t.image = s.active.target /\ Stays(s, t)
                BY <4>1, <4>2 DEF Surfaces, Stays
          <4>4. QED  BY <2>1, <3>1, <4>2, <4>3
        <3>2. CASE s.active.new = NoImage
          <4>1. ~Titled(s)
                BY <1>3, <3>2 DEF Titled
          <4>2. Stays(s, Settle(s))
                BY <1>3, <3>2 DEF Settle, Stays, Surfaces
          <4>3. QED  BY <4>1, <4>2
        <3>3. QED  BY <3>1, <3>2
      <2>3. Stays(s, RestoreOld(s)) /\ (Titled(s) => RestoreOld(s).wall = RestoreOld(s).image)
        <3>1. PICK t : t = RestoreOld(s)
              OBVIOUS
        <3>2. t.wall = (IF s.active.old # NoImage THEN s.active.old ELSE s.wall) /\ t.image = s.image
              /\ Stays(s, t)
              BY <1>3, <3>1 DEF RestoreOld, Stays, Surfaces
        <3>3. QED  BY <1>3, <2>1, <3>1, <3>2 DEF Titled
      <2>4. QED  BY <1>1, <2>2, <2>3, SettleEvolves, RestoreOldEvolves
    <1>4. QED  BY <1>2, <1>3

\* A transition that starts, with its picture there.
LEMMA StartsTurn ==
    ASSUME NEW s \in Surfaces, Coherent(s), NEW kind \in Kinds, kind \in Requests, NEW image \in Images,
           NEW aux \in {0, 1}, NEW none \in Nat, none = 0,
           NEW t \in Starts(s, kind, image, image, aux, none)
    PROVE  /\ t \in Surfaces /\ IsRunning(t) /\ t.queue = s.queue /\ t.power = s.power
           /\ Turns(s, t)
           /\ Progresses(s, t, 1 + aux)
    <1>1. image \in Pictures /\ image # NoImage /\ Texture(image) = 1
          BY OutputSurfaceAssumption DEF Pictures, Texture
    <1>2. /\ t \in Surfaces /\ IsRunning(t) /\ t.queue = s.queue /\ t.power = s.power
          /\ t.image = Settle(s).image
          /\ t.active.old = Settle(s).wall /\ t.active.new = image
          /\ t.active.kind = kind /\ t.active.decode = none
          /\ t.size = Settle(s).size /\ t.egl = Settle(s).egl /\ t.pending = Settle(s).pending
          /\ t.frame = Settle(s).frame
          /\ Coherent(s) /\ image \in {NoImage, image} /\ (none # 0 => image = NoImage)
                => Progresses(s, t, Texture(image) + aux)
          BY <1>1, StartsDetails
    <1>3. PICK u \in Surfaces : u = Settle(s) /\ ~IsRunning(u)
          BY SettleEvolves
    <1>4. Turns(s, u)
          BY <1>3, EndsTurn
    <1>5. Titled(u) => u.wall = u.image
          BY <1>3 DEF Titled
    <1>6. Stays(s, t)
          BY <1>2, <1>3, <1>4 DEF Turns, Stays
    <1>7. Fit(s) => Fit(t)
          BY <1>2, <1>6 DEF Fit, Stays, Sized
    <1>8. Titled(s) => Titled(t)
          BY <1>1, <1>2, <1>3, <1>4, <1>5 DEF Turns, Titled
    <1>9. QED  BY <1>1, <1>2, <1>6, <1>7, <1>8 DEF Turns
\* What the draining of the queue comes to: a transition runs, with fewer walls behind it,
\* or nothing waits any more.
Turned(s, r) ==
    LET t == r.surface IN
    /\ r \in Outcomes /\ Coherent(t) /\ t.power = s.power /\ Turns(s, t)
    /\ r.ok => IsRunning(t) /\ Len(t.queue) < Len(s.queue)
    /\ ~r.ok => ~IsRunning(t) /\ t.queue = <<>>

LEMMA ShownTurns ==
    ASSUME NEW s \in Surfaces, Coherent(s), AllowsEgl(s), s.queue # <<>>, Asked(s.queue),
           "canvas" \notin Requests, NEW r \in Shown(s)
    PROVE  Turned(s, r)
    <1>1. PICK q, m : q = Head(s.queue) /\ m = IF q.state = "uploaded" THEN s.textures ELSE s.textures + 1
          OBVIOUS
    <1>2. PICK t \in Surfaces : t = Taken(s)
          BY TakenEvolves
    <1>3. LET v == Taken(s) IN
          /\ v \in Surfaces /\ Len(v.queue) = Len(s.queue) - 1
          /\ v.power = s.power /\ v.textures = s.textures /\ v.active = s.active /\ v.wall = s.wall
          /\ v.image = s.image /\ v.size = s.size /\ v.egl = s.egl
          /\ v.pending = s.pending /\ v.frame = s.frame
          /\ Head(s.queue) \in Queued
          /\ Coherent(s) => Evolves(s, v, 0 - (Head(s.queue).aux + Ahead(Head(s.queue))))
          BY TakenEvolves
    <1>4. /\ Len(t.queue) = Len(s.queue) - 1 /\ q \in Queued
          /\ t.power = s.power /\ t.textures = s.textures /\ t.active = s.active /\ t.wall = s.wall
          /\ t.image = s.image /\ t.size = s.size /\ t.egl = s.egl
          /\ t.pending = s.pending /\ t.frame = s.frame
          /\ Coherent(t) /\ Behind(s, t)
          BY <1>1, <1>2, <1>3 DEF Evolves, Progresses
    <1>5. m \in Int
          BY <1>1, SurfaceFields
    <1>6. PICK u : u = [t EXCEPT !.textures = m]
          OBVIOUS
    <1>7. /\ u \in Surfaces /\ u.queue = t.queue /\ u.active = t.active /\ u.wall = t.wall
          /\ u.image = t.image /\ u.power = t.power /\ u.egl = t.egl /\ u.size = t.size
          /\ u.pending = t.pending /\ u.frame = t.frame
          BY <1>5, <1>6, CountedEvolves
    <1>8. Coherent(u)
          BY <1>4, <1>7 DEF Coherent
    <1>9. Turns(s, u)
      <2>1. Asked(u.queue)
            BY <1>4, <1>7, AskedBehind
      <2>2. QED  BY <1>4, <1>7, <2>1 DEF Turns, Stays, Fit, Sized, Titled, IsRunning
    <1>10. PICK v \in StartQueued(u, q, ContentOf(q)) : r = Done(v)
      <2>1. u = [Taken(s) EXCEPT !.textures = IF q.state = "uploaded" THEN @ ELSE @ + 1]
            BY <1>1, <1>2, <1>4, <1>6
      <2>2. QED  BY <1>1, <2>1 DEF Shown
    <1>11. q = s.queue[1] /\ 1 \in 1 .. Len(s.queue)
      <2>1. s.queue \in Seq(Queued) /\ Len(s.queue) \in Nat /\ Len(s.queue) # 0
            BY QueueFields, SurfaceFields
      <2>2. QED  BY <1>1, <2>1
    <1>12. /\ q.kind \in Requests /\ q.kind # "canvas" /\ q.kind \in Kinds /\ q.image \in Images
           /\ q.aux \in {0, 1} /\ ContentOf(q) = q.image
      <2>1. q.content \in {NoImage, q.image}
            BY <1>11 DEF Coherent
      <2>2. QED  BY <1>4, <1>11, <2>1, QueuedFields, ContentOfType DEF Asked
    <1>13. PICK none \in Nat : none = 0
          OBVIOUS
    <1>14. v \in Starts(u, q.kind, q.image, q.image, q.aux, none)
          BY <1>10, <1>12, <1>13 DEF StartQueued
    <1>15. /\ v \in Surfaces /\ IsRunning(v) /\ v.queue = u.queue /\ v.power = u.power
           /\ Turns(u, v) /\ Progresses(u, v, 1 + q.aux)
          BY <1>7, <1>8, <1>12, <1>13, <1>14, StartsTurn
    <1>16. r \in Outcomes /\ r.surface = v /\ r.ok
          BY <1>10, <1>15, OutcomeType
    <1>17. Turns(s, v)
          BY <1>9, <1>15, TurnsTwice
    <1>18. Coherent(v)
          BY <1>15 DEF Progresses
    <1>19. Len(v.queue) < Len(s.queue)
          BY <1>4, <1>7, <1>15, QueueFields
    <1>20. QED  BY <1>4, <1>7, <1>15, <1>16, <1>17, <1>18, <1>19 DEF Turned

LEMMA SkippedTurns ==
    ASSUME NEW s \in Surfaces, Coherent(s), s.queue # <<>>, Head(s.queue).state # "uploaded"
    PROVE  /\ Skipped(s) \in Surfaces /\ Coherent(Skipped(s)) /\ Turns(s, Skipped(s))
           /\ Skipped(s).power = s.power /\ Skipped(s).active = s.active
           /\ Len(Skipped(s).queue) = Len(s.queue) - 1 /\ Behind(s, Skipped(s))
    <1>1. /\ Skipped(s) \in Surfaces /\ Len(Skipped(s).queue) = Len(s.queue) - 1
          /\ Skipped(s).power = s.power /\ Skipped(s).active = s.active
          /\ Evolves(s, Skipped(s), 0)
          BY SkippedEvolves
    <1>2. PICK t \in Surfaces : t = Taken(s)
          BY TakenEvolves
    <1>3. LET v == Taken(s) IN
          /\ v.textures = s.textures /\ v.wall = s.wall
          /\ v.image = s.image /\ v.size = s.size /\ v.egl = s.egl
          /\ v.pending = s.pending /\ v.frame = s.frame
          /\ Head(s.queue) \in Queued
          BY TakenEvolves
    <1>4. PICK m \in Int : m = t.textures - Head(s.queue).aux
      <2>1. Head(s.queue).aux \in {0, 1}
            BY <1>3, QueuedFields
      <2>2. t.textures \in Int
            BY SurfaceFields
      <2>3. t.textures - Head(s.queue).aux \in Int
            BY <2>1, <2>2
      <2>4. QED  BY <2>3
    <1>5. Skipped(s) = [t EXCEPT !.textures = m]
          BY <1>2, <1>4 DEF Skipped
    <1>6. PICK u : u = [t EXCEPT !.textures = m]
          OBVIOUS
    <1>7. /\ u.wall = t.wall /\ u.image = t.image /\ u.egl = t.egl /\ u.size = t.size
          /\ u.pending = t.pending /\ u.frame = t.frame
          BY <1>6, CountedEvolves
    <1>8. Coherent(u) /\ Behind(s, u) /\ u \in Surfaces /\ u.active = s.active
          BY <1>1, <1>5, <1>6 DEF Evolves, Progresses
    <1>9. Asked(s.queue) => Asked(u.queue)
          BY <1>8, AskedBehind
    <1>10. Turns(s, u)
          BY <1>2, <1>3, <1>7, <1>8, <1>9 DEF Turns, Stays, Fit, Sized, Titled, IsRunning
    <1>11. QED  BY <1>1, <1>5, <1>6, <1>8, <1>10

LEMMA TurnedTwice ==
    ASSUME NEW s \in Surfaces, NEW t \in Surfaces, Turns(s, t), t.power = s.power,
           Len(t.queue) <= Len(s.queue), NEW r, Turned(t, r)
    PROVE  Turned(s, r)
    <1>1. Turns(s, r.surface)
          BY TurnsTwice DEF Turned
    <1>2. Len(s.queue) \in Nat /\ Len(t.queue) \in Nat /\ Len(r.surface.queue) \in Nat
          BY QueueFields, OutcomeFields DEF Turned
    <1>3. QED  BY <1>1, <1>2 DEF Turned

LEMMA StartNextsTurn ==
    ASSUME "canvas" \notin Requests, NEW n \in Nat, NEW s \in Surfaces, Coherent(s), AllowsEgl(s),
           Asked(s.queue), ~IsRunning(s), Len(s.queue) <= n, NEW r \in StartNexts[n][s]
    PROVE  Turned(s, r)
    <1> DEFINE Wrong == {m \in Nat : \E u \in Surfaces :
                            /\ Coherent(u) /\ AllowsEgl(u) /\ Asked(u.queue) /\ ~IsRunning(u)
                            /\ Len(u.queue) <= m /\ \E d \in StartNexts[m][u] : ~Turned(u, d)}
    <1>1. SUFFICES ASSUME Wrong # {} PROVE FALSE
          OBVIOUS
    <1>2. PICK m \in Wrong : \A l \in Wrong : m <= l
          BY <1>1, LeastNumber
    <1>3. PICK u \in Surfaces : /\ Coherent(u) /\ AllowsEgl(u) /\ Asked(u.queue) /\ ~IsRunning(u)
                                /\ Len(u.queue) <= m /\ \E d \in StartNexts[m][u] : ~Turned(u, d)
          BY <1>2
    <1>4. PICK d \in StartNexts[m][u] : ~Turned(u, d)
          BY <1>3
    <1>5. m \in Nat /\ Len(u.queue) \in Nat
          BY <1>2, QueueFields
    <1>6. CASE u.queue = <<>>
      <2>1. d = Failed(u)
        <3>1. CASE m = 0
              BY <1>4, <3>1, StartNextsDef
        <3>2. CASE m # 0
              BY <1>4, <1>5, <1>6, <3>2, StartNextsDef
        <3>3. QED  BY <3>1, <3>2
      <2>2. d \in Outcomes /\ d.surface = u /\ ~d.ok
            BY <2>1, OutcomeType
      <2>3. Turned(u, d)
            BY <1>3, <1>6, <2>2 DEF Turned, Turns, Stays
      <2>4. QED  BY <1>4, <2>3
    <1>7. CASE u.queue # <<>>
      <2>1. Len(u.queue) # 0 /\ m \in Nat \ {0} /\ m - 1 \in Nat
            BY <1>3, <1>5, <1>7, QueueFields
      <2>2. PICK next : next = StartNexts[m - 1]
            OBVIOUS
      <2>3. d \in TakeNext(u, next)
            BY <1>4, <1>7, <2>1, <2>2, StartNextsDef
      <2>4. CASE d \in Shown(u)
            BY <1>3, <1>4, <1>7, <2>4, ShownTurns
      <2>5. CASE Head(u.queue).state # "uploaded" /\ d \in next[Skipped(u)]
        <3>1. PICK v : v = Skipped(u)
              OBVIOUS
        <3>2. /\ v \in Surfaces /\ Coherent(v) /\ Turns(u, v)
              /\ v.power = u.power /\ v.active = u.active
              /\ Len(v.queue) = Len(u.queue) - 1 /\ Behind(u, v)
              BY <1>3, <1>7, <2>5, <3>1, SkippedTurns
        <3>3. Asked(v.queue) /\ AllowsEgl(v) /\ ~IsRunning(v)
              BY <1>3, <3>2, AskedBehind DEF AllowsEgl, IsRunning
        <3>4. Len(v.queue) <= m - 1 /\ Len(v.queue) <= Len(u.queue)
              BY <1>3, <1>5, <3>2
        <3>5. m - 1 \notin Wrong
              BY <1>2, <1>5, <2>1
        <3>6. Turned(v, d)
              BY <2>1, <2>2, <2>5, <3>1, <3>2, <3>3, <3>4, <3>5
        <3>7. Turned(u, d)
              BY <1>3, <3>2, <3>4, <3>6, TurnedTwice
        <3>8. QED  BY <1>4, <3>7
      <2>6. QED  BY <2>3, <2>4, <2>5, TakeNextCases
    <1>8. QED  BY <1>6, <1>7

LEMMA StartNextTurns ==
    ASSUME "canvas" \notin Requests, NEW s \in Surfaces, Coherent(s), AllowsEgl(s),
           Asked(s.queue), ~IsRunning(s), NEW r \in StartNext(s)
    PROVE  Turned(s, r)
    <1>1. PICK n \in Nat : n = Len(s.queue) /\ Len(s.queue) <= n
          BY QueueFields
    <1>2. QED  BY <1>1, StartNextsTurn DEF StartNext
\* What rendering an output comes to.
Rendered(s, d) ==
    LET t == d.surface IN
    /\ t \in Surfaces /\ Fit(t)
    /\ Backed(s) => Backed(t)
    /\ d.ok /\ (IsRunning(s) => Alive(s) \/ s.size # 0) /\ IsRunning(t) => Alive(t)
    /\ Titled(s) => Titled(t)
    /\ d.ok => Current(t)

Renders(next, u) == \A d \in next[u] : Rendered(u, d)

LEMMA RenderCurrentRenders ==
    ASSUME NEW s \in Surfaces, Fit(s), ~IsRunning(s), NEW d \in RenderCurrent(s)
    PROVE  Rendered(s, d) /\ d.surface.queue = s.queue /\ ~IsRunning(d.surface)
    <1>1. Redrawn(s, d.surface) /\ Sized(d.surface) /\ (d.ok => Current(d.surface))
          BY RendersRedraw, RendersPosed DEF Fit
    <1>2. Fit(d.surface)
          BY <1>1 DEF Fit, Redrawn
    <1>3. (Backed(s) => Backed(d.surface)) /\ (Titled(s) => Titled(d.surface)) /\ ~IsRunning(d.surface)
          BY <1>1 DEF Redrawn, Backed, Titled, IsRunning
    <1>4. QED  BY <1>1, <1>2, <1>3 DEF Rendered, Redrawn

LEMMA RunningRenders ==
    ASSUME NEW s \in Surfaces, Fit(s), IsRunning(s), NEW d,
           d \in DrawTransition(s) \/ d = Done(DeferRender(s))
    PROVE  Rendered(s, d)
    <1>1. /\ Redrawn(s, d.surface) /\ Sized(d.surface)
          /\ d.ok /\ (Alive(s) \/ s.size # 0) => Alive(d.surface)
      <2>1. CASE d \in DrawTransition(s)
            BY <2>1, RendersRedraw, RendersPosed DEF Fit
      <2>2. CASE d = Done(DeferRender(s))
        <3>1. PICK t : t = DeferRender(s) /\ t = d.surface
              BY <2>2 DEF Done
        <3>2. t.pending /\ t.egl = s.egl /\ t.size = s.size
              BY <3>1 DEF DeferRender, Surfaces
        <3>3. QED  BY <3>1, <3>2, RedrawnMarks DEF Sized, Alive, Fit
      <2>3. QED  BY <2>1, <2>2
    <1>2. Fit(d.surface)
          BY <1>1 DEF Fit, Redrawn
    <1>3. IsRunning(d.surface) /\ Backed(d.surface) /\ (Titled(s) => Titled(d.surface))
          BY <1>1 DEF Redrawn, Backed, Titled, IsRunning
    <1>4. Current(d.surface)
          BY <1>3 DEF Current
    <1>5. QED  BY <1>1, <1>2, <1>3, <1>4 DEF Rendered, Redrawn

LEMMA RenderWithRenders ==
    ASSUME "canvas" \notin Requests, NEW s \in Surfaces, Coherent(s), Fit(s), NEW next,
           \A u \in Surfaces : Coherent(u) /\ Fit(u) /\ Len(u.queue) < Len(s.queue) => Renders(next, u),
           NEW d \in RenderWith(s, next)
    PROVE  Rendered(s, d)
    <1>1. CASE ~IsRunning(s) /\ d \in RenderCurrent(s)
          BY <1>1, RenderCurrentRenders
    <1>2. CASE IsRunning(s) /\ (d \in DrawTransition(s) \/ d = Done(DeferRender(s)))
          BY <1>2, RunningRenders
    <1>3. CASE IsRunning(s) /\ AllowsEgl(s) /\ d \in RenderOver(s, next)
      <2>1. PICK u \in Surfaces : /\ u = Settle(s) /\ ~IsRunning(u) /\ u.queue = s.queue
                                  /\ u.power = s.power /\ Coherent(u)
            BY SettleEvolves DEF Evolves, Progresses
      <2>2. PICK n \in StartNext(u) : \/ n.ok /\ d \in next[n.surface]
                                      \/ ~n.ok /\ d \in RenderCurrent(n.surface)
            BY <1>3, <2>1, RenderOverCases
      <2>3. Turns(s, u)
            BY <2>1, EndsTurn
      <2>4. Fit(u) /\ Asked(u.queue) /\ AllowsEgl(u)
            BY <1>3, <2>1, <2>3 DEF Turns, Fit, AllowsEgl
      <2>5. Turned(u, n)
            BY <2>1, <2>2, <2>4, StartNextTurns
      <2>6. PICK v \in Surfaces : v = n.surface
            BY <2>5, OutcomeFields DEF Turned
      <2>7. /\ Coherent(v) /\ Turns(u, v) /\ Fit(v)
            /\ n.ok => IsRunning(v) /\ Len(v.queue) < Len(s.queue)
            /\ ~n.ok => ~IsRunning(v) /\ v.queue = <<>>
            BY <2>1, <2>4, <2>5, <2>6 DEF Turned, Turns
      <2>8. Rendered(v, d)
        <3>1. CASE n.ok /\ d \in next[v]
              BY <2>7, <3>1 DEF Renders
        <3>2. CASE ~n.ok /\ d \in RenderCurrent(v)
              BY <2>7, <3>2, RenderCurrentRenders
        <3>3. QED  BY <2>2, <2>6, <3>1, <3>2
      <2>9. Turns(s, v)
            BY <2>3, <2>7, TurnsTwice
      <2>10. Backed(v)
            BY <2>5, <2>7 DEF Backed, Turned, Outcomes
      <2>11. Alive(s) \/ s.size # 0 => Alive(v) \/ v.size # 0
            BY <2>9 DEF Turns, Stays, Alive
      <2>12. Titled(s) => Titled(v)
            BY <2>9 DEF Turns
      <2>13. QED  BY <1>3, <2>8, <2>10, <2>11, <2>12 DEF Rendered
    <1>4. QED  BY <1>1, <1>2, <1>3, RenderWithCases

LEMMA RenderActivesRender ==
    ASSUME "canvas" \notin Requests, NEW n \in Nat, NEW s \in Surfaces, Coherent(s), Fit(s),
           Len(s.queue) <= n, NEW r \in RenderActives[n][s]
    PROVE  Rendered(s, r)
    <1> DEFINE Wrong == {m \in Nat : \E u \in Surfaces :
                            /\ Coherent(u) /\ Fit(u) /\ Len(u.queue) <= m
                            /\ \E d \in RenderActives[m][u] : ~Rendered(u, d)}
    <1>1. SUFFICES ASSUME Wrong # {} PROVE FALSE
          OBVIOUS
    <1>2. PICK m \in Wrong : \A l \in Wrong : m <= l
          BY <1>1, LeastNumber
    <1>3. PICK u \in Surfaces : /\ Coherent(u) /\ Fit(u) /\ Len(u.queue) <= m
                                /\ \E d \in RenderActives[m][u] : ~Rendered(u, d)
          BY <1>2
    <1>4. PICK d \in RenderActives[m][u] : ~Rendered(u, d)
          BY <1>3
    <1>5. m \in Nat /\ Len(u.queue) \in Nat
          BY <1>2, QueueFields
    <1>6. PICK next : /\ d \in RenderWith(u, next)
                      /\ \A v \in Surfaces : Coherent(v) /\ Fit(v) /\ Len(v.queue) < Len(u.queue)
                                               => Renders(next, v)
      <2>1. CASE m = 0
        <3>1. PICK next : next = [t \in Surfaces |-> RenderCurrent(t)]
              OBVIOUS
        <3>2. d \in RenderWith(u, next)
              BY <1>4, <2>1, <3>1, RenderActivesDef
        <3>3. \A v \in Surfaces : ~(Len(v.queue) < Len(u.queue))
          <4>1. ASSUME NEW v \in Surfaces
                PROVE  ~(Len(v.queue) < Len(u.queue))
            <5>1. Len(v.queue) \in Nat /\ Len(u.queue) = 0
                  BY <1>3, <1>5, <2>1, QueueFields
            <5>2. QED  BY <5>1
          <4>2. QED  BY <4>1
        <3>4. QED  BY <3>2, <3>3
      <2>2. CASE m # 0
        <3>1. m \in Nat \ {0} /\ m - 1 \in Nat /\ m - 1 \notin Wrong
              BY <1>2, <1>5, <2>2
        <3>2. PICK next : next = RenderActives[m - 1]
              OBVIOUS
        <3>3. d \in RenderWith(u, next)
              BY <1>4, <3>1, <3>2, RenderActivesDef
        <3>4. ASSUME NEW v \in Surfaces, Coherent(v), Fit(v), Len(v.queue) < Len(u.queue)
              PROVE  Renders(next, v)
          <4>1. Len(v.queue) <= m - 1
            <5>1. Len(v.queue) \in Nat
                  BY QueueFields
            <5>2. QED  BY <1>3, <1>5, <3>4, <5>1
          <4>2. \A e \in RenderActives[m - 1][v] : Rendered(v, e)
                BY <3>1, <3>4, <4>1
          <4>3. QED  BY <3>2, <4>2 DEF Renders
        <3>5. QED  BY <3>3, <3>4
      <2>3. QED  BY <2>1, <2>2
    <1>7. Rendered(u, d)
          BY <1>3, <1>6, RenderWithRenders
    <1>8. QED  BY <1>4, <1>7

LEMMA RenderActiveRenders ==
    ASSUME "canvas" \notin Requests, NEW s \in Surfaces, Coherent(s), Fit(s), NEW d \in RenderActive(s)
    PROVE  Rendered(s, d)
    <1>1. PICK n \in Nat : n = Len(s.queue) /\ Len(s.queue) <= n
          BY QueueFields
    <1>2. QED  BY <1>1, RenderActivesRender DEF RenderActive
\* An output before it is drawn in a batch or after one.
Staged(s) == /\ s \in Surfaces /\ Fit(s)
             /\ Prompt => Backed(s) /\ (IsRunning(s) => Alive(s) \/ s.size # 0)
             /\ Plain => Titled(s)

LEMMA RenderedFramed ==
    ASSUME NEW s, Staged(s), NEW d, Rendered(s, d)
    PROVE  Framed(d)
    BY DEF Staged, Rendered, Framed, Lively

LEMMA StagedFramed ==
    ASSUME "canvas" \notin Requests, NEW s, Staged(s), Coherent(s), NEW d \in RenderActive(s)
    PROVE  Framed(d)
    <1>1. s \in Surfaces /\ Fit(s)
          BY DEF Staged
    <1>2. QED  BY <1>1, RenderActiveRenders, RenderedFramed

LEMMA RestFramed ==
    ASSUME NEW s, Staged(s), ~IsRunning(s), NEW d \in RenderCurrent(s)
    PROVE  Framed(d)
    <1>1. s \in Surfaces /\ Fit(s)
          BY DEF Staged
    <1>2. QED  BY <1>1, RenderCurrentRenders, RenderedFramed

\* t differs from s in nothing that is shown or due.
LEMMA PosedAlike ==
    ASSUME NEW s, Posed(s), NEW t \in Surfaces, Stays(s, t), t.active = s.active,
           t.image = s.image, t.wall = s.wall, t.shown = s.shown,
           Asked(t.queue), s.queue = <<>> => t.queue = <<>> \/ IsRunning(s)
    PROVE  Posed(t)
    <1>1. Fit(t)
          BY DEF Posed, Fit, Stays, Sized
    <1>2. Lively(s) => Lively(t)
          BY DEF Lively, Backed, Alive, IsRunning, Stays
    <1>3. Titled(s) /\ Current(s) => Titled(t) /\ Current(t)
          BY DEF Titled, Current, IsRunning, Stays
    <1>4. QED  BY <1>1, <1>2, <1>3 DEF Posed

LEMMA FramedPoses ==
    ASSUME NEW d, Framed(d)
    PROVE  /\ d.ok => Posed(d.surface)
           /\ Posed(MarkRecreate(d.surface))
    <1>1. d.ok => Posed(d.surface)
          BY DEF Framed, Posed
    <1>2. PICK s \in Surfaces : s = d.surface
          BY DEF Framed
    <1>3. PICK t : t = MarkRecreate(s)
          OBVIOUS
    <1>4. t \in Surfaces /\ t.active = s.active /\ t.queue = s.queue /\ t.image = s.image /\ t.wall = s.wall
          BY <1>3, RedrawnMarks DEF Redrawn
    <1>5. t.pending /\ t.size = s.size /\ t.egl = s.egl
          BY <1>3 DEF MarkRecreate, Surfaces
    <1>6. Fit(s) => Fit(t)
          BY <1>4, <1>5 DEF Fit, Sized
    <1>7. Alive(t) /\ (Backed(s) => Backed(t)) /\ (Titled(s) => Titled(t)) /\ Current(t)
          BY <1>4, <1>5 DEF Alive, Backed, Titled, Current, IsRunning
    <1>8. Posed(t)
          BY <1>2, <1>4, <1>6, <1>7 DEF Framed, Posed, Lively
    <1>9. QED  BY <1>1, <1>2, <1>3, <1>8

\* The first frames of a transition on an output at rest.
LEMMA FirstFramesFramed ==
    ASSUME "canvas" \notin Requests, NEW s, Posed(s), Coherent(s), AllowsEgl(s), ~IsRunning(s), s.egl # 0,
           NEW kind \in Kinds, kind \in Requests, NEW image \in Images, NEW aux \in {0, 1},
           NEW none \in Nat, none = 0, NEW n \in Nat, n = 1 + aux,
           NEW d \in FirstFrames(WithTextures(s, n), kind, image, image, aux, none)
    PROVE  /\ d \in Outcomes /\ Framed(d) /\ Coherent(d.surface)
           /\ Prompt => d.surface.queue = <<>>
    <1>1. s \in Surfaces /\ Fit(s) /\ s.size # 0
          BY DEF Posed, Fit, Sized
    <1>2. image # NoImage /\ Texture(image) = 1
          BY OutputSurfaceAssumption DEF Texture
    <1>3. d \in Outcomes /\ Progresses(s, d.surface, 0)
          BY <1>1, <1>2, FirstFramesProceed
    <1>4. PICK w : w = WithTextures(s, n)
          OBVIOUS
    <1>5. LET v == WithTextures(s, n) IN
          /\ v \in Surfaces /\ v.queue = s.queue /\ v.active = s.active /\ v.power = s.power /\ v.egl = s.egl
          /\ v.wall = s.wall /\ v.image = s.image /\ v.size = s.size /\ v.shown = s.shown
          /\ v.pending = s.pending /\ v.frame = s.frame
          /\ Coherent(s) /\ (AllowsEgl(s) \/ n = 0) => Evolves(s, v, 0 - n)
          BY <1>1, WithTexturesEvolves
    <1>6. /\ w \in Surfaces /\ w.queue = s.queue /\ w.active = s.active /\ w.egl = s.egl
          /\ w.wall = s.wall /\ w.image = s.image /\ w.size = s.size
          /\ w.pending = s.pending /\ w.frame = s.frame /\ Coherent(w)
          BY <1>4, <1>5 DEF Evolves, Progresses
    <1>7. PICK t \in Starts(w, kind, image, image, aux, none) : d \in RenderActive(t)
          BY <1>4 DEF FirstFrames
    <1>8. /\ t \in Surfaces /\ IsRunning(t) /\ t.queue = w.queue /\ Turns(w, t)
          /\ Progresses(w, t, 1 + aux)
          BY <1>6, <1>7, StartsTurn
    <1>9. Fit(w) /\ (Titled(s) => Titled(w))
          BY <1>1, <1>6 DEF Fit, Sized, Titled, IsRunning
    <1>10. Fit(t) /\ (Titled(s) => Titled(t)) /\ t.size # 0
          BY <1>1, <1>6, <1>8, <1>9 DEF Turns, Stays
    <1>11. Backed(t)
          BY <1>8 DEF Backed
    <1>12. Staged(t)
          BY <1>8, <1>10, <1>11 DEF Staged, Posed
    <1>13. Coherent(t)
          BY <1>8 DEF Progresses
    <1>14. Framed(d)
          BY <1>7, <1>12, <1>13, StagedFramed
    <1>15. Prompt => s.queue = <<>>
          BY DEF Posed, Lively, Backed
    <1>16. QED  BY <1>1, <1>3, <1>14, <1>15, EmptyBehind DEF Progresses

LEMMA CutFramed ==
    ASSUME NEW s \in Surfaces, Fit(s), NEW image \in Images,
           NEW one \in Nat, one = 1,
           NEW d \in RenderCurrent(SetCut(WithTextures(s, one), image, image))
    PROVE  Framed(d)
    <1>1. PICK w \in Surfaces : w = WithTextures(s, one) /\ w.size = s.size /\ w.egl = s.egl
          BY WithTexturesEvolves
    <1>2. PICK t : t = SetCut(w, image, image)
          OBVIOUS
    <1>3. LET v == SetCut(w, image, image) IN
          v \in Surfaces /\ ~IsRunning(v) /\ v.queue = <<>> /\ v.wall = image /\ v.image = image
          BY <1>1, SetCutEvolves
    <1>4. t \in Surfaces /\ ~IsRunning(t) /\ t.queue = <<>> /\ t.wall = image /\ t.image = image
          BY <1>2, <1>3
    <1>5. PICK c \in Surfaces : c = ClearQueue(w)
          BY <1>1, ClearQueueEvolves
    <1>6. c.size = w.size /\ c.egl = w.egl
          BY <1>1, <1>5 DEF ClearQueue, Surfaces
    <1>7. PICK e \in Surfaces : e = Settle(c)
          BY SettleEvolves
    <1>8. e.size = c.size /\ e.egl = c.egl
          BY <1>7 DEF Settle, Surfaces
    <1>9. t.size = e.size /\ t.egl = e.egl
      <2>1. PICK m : t = [e EXCEPT !.wall = image, !.image = image, !.textures = m]
            BY <1>2, <1>5, <1>7 DEF SetCut
      <2>2. QED  BY <2>1 DEF Surfaces
    <1>10. Sized(t)
          BY <1>1, <1>6, <1>8, <1>9 DEF Fit, Sized
    <1>11. Fit(t)
          BY <1>4, <1>10 DEF Fit, IsRunning, NoActive, Asked
    <1>12. Staged(t)
          BY <1>4, <1>11 DEF Staged, Backed, Titled
    <1>13. QED  BY <1>1, <1>2, <1>4, <1>12, RestFramed

LEMMA ClearedFramed ==
    ASSUME "clear" \in Requests, NEW s \in Surfaces, Coherent(s), Fit(s), NEW d \in Cleared(s)
    PROVE  Framed(d)
    <1>1. PICK e : e = Emptied(s)
          OBVIOUS
    <1>2. LET v == Emptied(s) IN
          v \in Surfaces /\ ~IsRunning(v) /\ v.queue = <<>> /\ v.image = NoImage /\ Evolves(s, v, 0)
          BY EmptiedEvolves
    <1>3. e \in Surfaces /\ ~IsRunning(e) /\ e.queue = <<>> /\ e.image = NoImage /\ Coherent(e)
          BY <1>1, <1>2 DEF Evolves, Progresses
    <1>4. e.size = s.size /\ e.egl = s.egl
      <2>1. PICK c \in Surfaces : c = ClearQueue(s)
            BY ClearQueueEvolves
      <2>2. c.size = s.size /\ c.egl = s.egl
            BY <2>1 DEF ClearQueue, Surfaces
      <2>3. PICK b \in Surfaces : b = Discard(c)
            BY DiscardEvolves
      <2>4. b.size = c.size /\ b.egl = c.egl
            BY <2>3 DEF Discard, Surfaces
      <2>5. e = [b EXCEPT !.image = NoImage]
            BY <1>1, <2>1, <2>3 DEF Emptied
      <2>6. e.size = b.size /\ e.egl = b.egl
            BY <2>5 DEF Surfaces
      <2>7. QED  BY <2>2, <2>4, <2>6
    <1>5. Sized(e)
          BY <1>4 DEF Fit, Sized
    <1>6. PICK c \in RenderClear(e) : d = IF c.ok THEN Done(Blanked(c.surface)) ELSE c
          BY <1>1 DEF Cleared
    <1>7. /\ c \in Outcomes /\ Redrawn(e, c.surface) /\ Sized(c.surface)
          /\ c.ok /\ ~c.surface.pending /\ c.surface.egl # 0 => c.surface.shown = "clear"
          BY <1>3, <1>5, <1>6, RendersRedraw, RendersPosed
    <1>8. PICK u \in Surfaces : /\ u = c.surface /\ ~IsRunning(u) /\ u.queue = <<>> /\ u.image = NoImage
                                /\ Coherent(u) /\ Sized(u)
          BY <1>3, <1>7, RedrawnEvolves DEF Redrawn, IsRunning, Evolves, Progresses
    <1>9. CASE c.ok
      <2>1. PICK b : b = Blanked(u)
            OBVIOUS
      <2>2. LET v == Blanked(u) IN
            /\ v \in Surfaces /\ v.wall = NoImage /\ v.active = u.active /\ v.queue = u.queue
            /\ v.image = u.image /\ v.shown = u.shown /\ v.pending = u.pending /\ v.egl = u.egl
            /\ v.size = u.size
            BY <1>8, BlankedEvolves
      <2>3. /\ b \in Surfaces /\ b.wall = NoImage /\ b.active = u.active /\ b.queue = u.queue
            /\ b.image = u.image /\ b.shown = u.shown /\ b.pending = u.pending /\ b.egl = u.egl
            /\ b.size = u.size
            BY <2>1, <2>2
      <2>4. Fit(b)
            BY <1>8, <2>3 DEF Fit, Sized, IsRunning, NoActive, Asked
      <2>5. Lively(b) /\ Titled(b)
            BY <1>8, <2>3 DEF Lively, Backed, Titled, IsRunning
      <2>6. Current(b)
            BY <1>7, <1>8, <1>9, <2>3 DEF Current, PictureOf
      <2>7. d.surface = b
            BY <1>6, <1>8, <1>9, <2>1 DEF Done
      <2>8. QED  BY <2>3, <2>4, <2>5, <2>6, <2>7 DEF Framed, Lively
    <1>10. CASE ~c.ok
      <2>1. d = c /\ ~d.ok
            BY <1>6, <1>10
      <2>2. ~Plain
        <3>1. CASE DrawsWork
              BY <1>3, <1>6, <1>10, <3>1, DrawsSucceed DEF DrawsWork
        <3>2. QED  BY <3>1 DEF Plain
      <2>3. Fit(u) /\ Backed(u)
            BY <1>8 DEF Fit, Backed, IsRunning, NoActive, Asked
      <2>4. QED  BY <1>8, <2>1, <2>2, <2>3 DEF Framed
    <1>11. QED  BY <1>9, <1>10
(***************************************************************************)
(* The steps, and what is due.                                             *)
(***************************************************************************)
Poised == \A o \in Live : Posed(surfaces[o])
AllPosed(T) == \A o \in Live : Posed(T[o])

LEMMA SentPosed ==
    ASSUME NEW s, Posed(s)
    PROVE  Posed([s EXCEPT !.sent = {}])
    <1>1. PICK t : t = [s EXCEPT !.sent = {}]
          OBVIOUS
    <1>2. LET v == [s EXCEPT !.sent = {}] IN
          /\ v \in Surfaces /\ v.queue = s.queue /\ v.active = s.active /\ v.egl = s.egl
          /\ v.shown = s.shown /\ v.wall = s.wall /\ v.image = s.image /\ v.pending = s.pending
          /\ v.frame = s.frame /\ v.size = s.size
          BY SentIsOver DEF Posed
    <1>3. /\ t \in Surfaces /\ t.queue = s.queue /\ t.active = s.active /\ t.egl = s.egl
          /\ t.shown = s.shown /\ t.wall = s.wall /\ t.image = s.image /\ t.pending = s.pending
          /\ t.frame = s.frame /\ t.size = s.size
          BY <1>1, <1>2
    <1>4. Posed(t)
          BY <1>3, PosedAlike DEF Stays, Posed, Fit
    <1>5. QED  BY <1>1, <1>4

LEMMA HandledPoised ==
    ASSUME NEW T, AllPosed(T), NEW answered, Handled(T, answered)
    PROVE  Poised'
    <1>1. \A o \in Live : Posed([T[o] EXCEPT !.sent = {}])
          BY SentPosed DEF AllPosed
    <1>2. surfaces' = [o \in Live |-> [T[o] EXCEPT !.sent = {}]]
          BY DEF Handled
    <1>3. QED  BY <1>1, <1>2 DEF Poised, Live

LEMMA WithTexturesPosed ==
    ASSUME NEW s, Posed(s), NEW n \in Nat
    PROVE  Posed(WithTextures(s, n))
    <1>1. PICK t : t = WithTextures(s, n)
          OBVIOUS
    <1>2. LET v == WithTextures(s, n) IN
          /\ v \in Surfaces /\ v.queue = s.queue /\ v.active = s.active /\ v.egl = s.egl
          /\ v.wall = s.wall /\ v.image = s.image /\ v.size = s.size /\ v.shown = s.shown
          /\ v.pending = s.pending /\ v.frame = s.frame
          BY WithTexturesEvolves DEF Posed
    <1>3. /\ t \in Surfaces /\ t.queue = s.queue /\ t.active = s.active /\ t.egl = s.egl
          /\ t.wall = s.wall /\ t.image = s.image /\ t.size = s.size /\ t.shown = s.shown
          /\ t.pending = s.pending /\ t.frame = s.frame
          BY <1>1, <1>2
    <1>4. QED  BY <1>1, <1>3, PosedAlike DEF Stays, Posed, Fit

Framing(outcomes, targets) == \A o \in targets : \A d \in outcomes[o] : Framed(d)

LEMMA ForgottenPosed ==
    ASSUME Poised, NEW targets \in SUBSET Live, NEW n \in Nat,
           NEW outcomes, NEW r \in Attempts(targets, outcomes), Framing(outcomes, targets)
    PROVE  AllPosed(Forgotten(targets, r, n))
    <1>1. ASSUME NEW o \in Live
          PROVE  Posed(Forgotten(targets, r, n)[o])
      <2>1. Forgotten(targets, r, n)[o] =
                IF o \notin targets THEN surfaces[o]
                ELSE IF o \notin DOMAIN r THEN WithTextures(surfaces[o], n)
                ELSE IF r[o].ok THEN r[o].surface ELSE MarkRecreate(r[o].surface)
            BY DEF Forgotten
      <2>2. o \in targets /\ o \in DOMAIN r => Framed(r[o])
            BY AttemptsFields DEF Framing
      <2>3. QED  BY <2>1, <2>2, FramedPoses, WithTexturesPosed DEF Poised
    <1>2. QED  BY <1>1 DEF AllPosed

\* Walls that come to wait do so behind what runs.
LEMMA EnqueuedPosed ==
    ASSUME NEW s, Posed(s), IsRunning(s), NEW q \in Queued, q.kind \in Requests, NEW n \in Nat
    PROVE  Posed(Enqueue(WithTextures(s, n), q))
    <1>1. PICK w \in Surfaces : w = WithTextures(s, n) /\ w.queue = s.queue /\ w.active = s.active
          BY WithTexturesEvolves DEF Posed
    <1>2. Posed(w)
          BY <1>1, WithTexturesPosed
    <1>3. PICK u : u = [w EXCEPT !.queue = Append(w.queue, q)]
          OBVIOUS
    <1>4. w.queue \in Seq(Queued) /\ Append(w.queue, q) \in Seq(Queued)
          BY SurfaceFields
    <1>5. /\ u \in Surfaces /\ u.queue = Append(w.queue, q) /\ u.active = w.active /\ u.wall = w.wall
          /\ u.image = w.image /\ u.shown = w.shown /\ Stays(w, u)
      <2>1. u \in Surfaces
            BY <1>3, <1>4 DEF Surfaces
      <2>2. /\ u.queue = Append(w.queue, q) /\ u.active = w.active /\ u.wall = w.wall
            /\ u.image = w.image /\ u.shown = w.shown
            BY <1>3 DEF Surfaces
      <2>3. Stays(w, u)
            BY <1>3 DEF Stays, Surfaces
      <2>4. QED  BY <2>1, <2>2, <2>3
    <1>6. Asked(u.queue)
      <2>1. Asked(w.queue)
            BY <1>2 DEF Posed, Fit
      <2>2. QED  BY <1>4, <1>5, <2>1 DEF Asked
    <1>7. Posed(u)
          BY <1>1, <1>2, <1>5, <1>6, PosedAlike DEF IsRunning
    <1>8. PICK t : t = Lookahead(u)
          OBVIOUS
    <1>9. LET v == Lookahead(u) IN
          /\ v \in Surfaces /\ Behind(u, v)
          /\ v.egl = u.egl /\ v.size = u.size
          /\ v.image = u.image /\ v.wall = u.wall /\ v.active = u.active /\ v.shown = u.shown
          /\ v.pending = u.pending /\ v.frame = u.frame
          BY <1>5, LookaheadBehind
    <1>10. /\ t \in Surfaces /\ Behind(u, t)
           /\ t.egl = u.egl /\ t.size = u.size
           /\ t.image = u.image /\ t.wall = u.wall /\ t.active = u.active /\ t.shown = u.shown
           /\ t.pending = u.pending /\ t.frame = u.frame
           BY <1>8, <1>9
    <1>11. Asked(t.queue)
           BY <1>5, <1>6, <1>10, AskedBehind
    <1>12. IsRunning(u)
           BY <1>1, <1>5 DEF IsRunning
    <1>13. Posed(t)
           BY <1>7, <1>10, <1>11, <1>12, PosedAlike DEF Stays
    <1>14. t = Enqueue(w, q)
           BY <1>3, <1>8 DEF Enqueue
    <1>15. QED  BY <1>1, <1>13, <1>14

LEMMA WithQueuedPosed ==
    ASSUME RendererInv, Poised, NEW images \in Batches, Renderable(DOMAIN images), NEW kind \in Kinds,
           kind \in Requests, NEW aux \in {0, 1}, NEW F, AllPosed(F),
           \A o \in Live : o \notin Idle(DOMAIN images) => F[o] = surfaces[o]
    PROVE  AllPosed(WithQueued(F, kind, images, aux))
    <1>1. PICK behind : behind = DOMAIN images \ Idle(DOMAIN images)
          OBVIOUS
    <1>2. PICK id : id = FreshIds(DOMAIN images)
          OBVIOUS
    <1>3. PICK q : q = [o \in Live |-> [id |-> id[o], image |-> images[o], kind |-> kind, aux |-> aux,
                                        content |-> NoImage, state |-> "path"]]
          OBVIOUS
    <1>4. ASSUME NEW o \in Live
          PROVE  Posed(WithQueued(F, kind, images, aux)[o])
      <2>1. WithQueued(F, kind, images, aux)[o] =
                IF o \in behind THEN Enqueue(WithTextures(F[o], aux), q[o]) ELSE F[o]
            BY <1>1, <1>2, <1>3 DEF WithQueued
      <2>2. CASE o \in behind
        <3>1. o \in DOMAIN images /\ IsRunning(surfaces[o]) /\ F[o] = surfaces[o]
              BY <1>1, <2>2 DEF Idle
        <3>2. images[o] \in Images
              BY <3>1, BatchFields
        <3>3. id[o] \in Nat \ {0}
              BY <1>2, <3>1, TargetsFields DEF Unused
        <3>4. q[o] \in Queued /\ q[o].kind = kind
              BY <1>3, <3>2, <3>3 DEF Queued, Pictures
        <3>5. aux \in Nat
              OBVIOUS
        <3>6. Posed(Enqueue(WithTextures(surfaces[o], aux), q[o]))
              BY <3>1, <3>4, <3>5, EnqueuedPosed DEF Poised
        <3>7. QED  BY <2>1, <2>2, <3>1, <3>6
      <2>3. CASE o \notin behind
            BY <2>1, <2>3 DEF AllPosed
      <2>4. QED  BY <2>2, <2>3
    <1>5. QED  BY <1>4 DEF AllPosed
LEMMA PoisedFields ==
    ASSUME Poised, NEW o \in Live
    PROVE  Posed(surfaces[o]) /\ surfaces[o] \in Surfaces /\ Fit(surfaces[o])
    BY DEF Poised, Posed

LEMMA CutAllPoised ==
    ASSUME RendererInv, Poised, NEW images \in Batches, Renderable(DOMAIN images), NEW kind,
           CutAll(kind, images)
    PROVE  Poised'
    <1>1. PICK targets \in SUBSET Live : targets = DOMAIN images
          BY BatchFields
    <1>2. PICK one \in Nat : one = 1
          OBVIOUS
    <1>3. PICK first : first = [o \in targets |->
                    RenderCurrent(SetCut(WithTextures(surfaces[o], one), images[o], images[o]))]
          OBVIOUS
    <1>4. PICK r \in Attempts(targets, first) : Handled(Forgotten(targets, r, one), {})
          BY <1>1, <1>2, <1>3 DEF CutAll
    <1>5. ASSUME NEW o \in targets, NEW d \in first[o]
          PROVE  Framed(d)
      <2>1. images[o] \in Images /\ surfaces[o] \in Surfaces /\ Fit(surfaces[o])
            BY <1>1, BatchFields, PoisedFields
      <2>2. d \in RenderCurrent(SetCut(WithTextures(surfaces[o], one), images[o], images[o]))
            BY <1>3, <1>5
      <2>3. QED  BY <1>2, <2>1, <2>2, CutFramed
    <1>6. AllPosed(Forgotten(targets, r, one))
          BY <1>4, <1>5, ForgottenPosed DEF Framing
    <1>7. QED  BY <1>4, <1>6, HandledPoised

\* The first frames of a batch on the outputs at rest.
LEMMA StartsFramed ==
    ASSUME "canvas" \notin Requests, RendererInv, Poised, NEW images \in Batches,
           Renderable(DOMAIN images), NEW kind \in Kinds, kind \in Requests, NEW aux \in {0, 1},
           NEW n \in Nat, n = 1 + aux, Prepared(Idle(DOMAIN images)), NEW none \in Nat, none = 0,
           NEW o \in Idle(DOMAIN images),
           NEW d \in FirstFrames(WithTextures(surfaces[o], n), kind, images[o], images[o], aux, none)
    PROVE  /\ d \in Outcomes /\ Framed(d) /\ Coherent(d.surface)
           /\ Prompt => d.surface.queue = <<>>
    <1>1. PICK s \in Surfaces : /\ s = surfaces[o] /\ Coherent(s) /\ AllowsEgl(s) /\ ~IsRunning(s)
                                /\ images[o] \in Images /\ o \in Live
          BY TargetsFields
    <1>2. s.egl # 0
          BY <1>1, UploadNeedsPower DEF Prepared
    <1>3. Posed(s)
          BY <1>1 DEF Poised
    <1>4. QED  BY <1>1, <1>2, <1>3, FirstFramesFramed

LEMMA RolledBackPosed ==
    ASSUME "canvas" \notin Requests, RendererInv, Poised, NEW targets \in SUBSET Live,
           NEW outcomes, NEW r \in Attempts(targets, outcomes),
           \A o \in targets : \A d \in outcomes[o] : /\ d \in Outcomes /\ Framed(d) /\ Coherent(d.surface)
                                                     /\ Prompt => d.surface.queue = <<>>,
           NEW T \in RolledBack(targets, r)
    PROVE  AllPosed(T)
    <1>1. PICK back : back = [p \in DOMAIN r |-> RenderActive(RestoreOld(r[p].surface))]
          OBVIOUS
    <1>2. PICK again \in Products(DOMAIN r \ Broken(r), back) :
                 T = [p \in Live |-> IF p \in Broken(r) THEN MarkRecreate(RestoreOld(r[p].surface))
                                     ELSE IF p \notin DOMAIN r THEN surfaces[p]
                                     ELSE IF again[p].ok THEN again[p].surface
                                     ELSE MarkRecreate(again[p].surface)]
          BY <1>1 DEF RolledBack
    <1>3. DOMAIN r \in SUBSET targets /\ Broken(r) \in SUBSET DOMAIN r
          BY AttemptsFields
    <1>4. ASSUME NEW o \in Live
          PROVE  Posed(T[o])
      <2>1. CASE o \notin DOMAIN r
        <3>1. T[o] = surfaces[o]
              BY <1>2, <1>3, <2>1
        <3>2. QED  BY <3>1 DEF Poised
      <2>2. CASE o \in DOMAIN r
        <3>1. /\ r[o] \in Outcomes /\ Framed(r[o]) /\ Coherent(r[o].surface)
              /\ Prompt => r[o].surface.queue = <<>>
              BY <1>3, <2>2, AttemptsFields
        <3>2. PICK s \in Surfaces : s = r[o].surface /\ Coherent(s)
              BY <3>1, OutcomeFields
        <3>3. PICK u \in Surfaces : /\ u = RestoreOld(s) /\ ~IsRunning(u) /\ u.queue = s.queue
                                    /\ Coherent(u) /\ Turns(s, u)
              BY <3>2, RestoreOldEvolves, EndsTurn DEF Evolves, Progresses
        <3>4. Fit(u) /\ (Plain => Titled(u)) /\ (Prompt => Backed(u))
              BY <3>1, <3>2, <3>3 DEF Framed, Turns, Backed
        <3>5. Staged(u)
              BY <3>3, <3>4 DEF Staged
        <3>6. CASE o \in Broken(r)
          <4>1. PICK d : d = Failed(u)
                OBVIOUS
          <4>2. d.surface = u /\ ~d.ok
                BY <4>1 DEF Failed
          <4>3. Framed(d)
                BY <3>4, <4>2 DEF Framed
          <4>4. Posed(MarkRecreate(u))
                BY <4>2, <4>3, FramedPoses
          <4>5. QED  BY <1>2, <3>2, <3>3, <3>6, <4>4
        <3>7. CASE o \notin Broken(r)
          <4>1. again[o] \in back[o]
                BY <1>2, <2>2, <3>7, ProductsFields
          <4>2. again[o] \in RenderActive(u)
                BY <1>1, <2>2, <3>2, <3>3, <4>1
          <4>3. Framed(again[o])
                BY <3>3, <3>5, <4>2, StagedFramed
          <4>4. QED  BY <1>2, <2>2, <3>7, <4>3, FramedPoses
        <3>8. QED  BY <3>6, <3>7
      <2>3. QED  BY <2>1, <2>2
    <1>5. QED  BY <1>4 DEF AllPosed

LEMMA QueuedPoised ==
    ASSUME RendererInv, Poised, NEW images \in Batches, Renderable(DOMAIN images), NEW kind \in Kinds,
           kind \in Requests, NEW aux \in {0, 1}, NEW n \in Nat,
           NEW r, DOMAIN r \in SUBSET Idle(DOMAIN images),
           AllPosed(Forgotten(Idle(DOMAIN images), r, n)),
           Handled(WithQueued(Forgotten(Idle(DOMAIN images), r, n), kind, images, aux), {})
    PROVE  Poised'
    <1>1. PICK F : F = Forgotten(Idle(DOMAIN images), r, n)
          OBVIOUS
    <1>2. \A o \in Live : o \notin Idle(DOMAIN images) => F[o] = surfaces[o]
          BY <1>1 DEF Forgotten
    <1>3. AllPosed(WithQueued(F, kind, images, aux))
          BY <1>1, <1>2, WithQueuedPosed
    <1>4. QED  BY <1>1, <1>3, HandledPoised

LEMMA SetPairwisePoised ==
    ASSUME "canvas" \notin Requests, RendererInv, Poised, NEW images \in Batches, "pairwise" \in Requests,
           SetPairwiseWallpapers(images)
    PROVE  Poised'
    <1>1. PICK starts : starts = Idle(DOMAIN images)
          OBVIOUS
    <1>2. PICK kind \in Kinds, none \in Nat, aux \in {0, 1}, one \in Nat :
             kind = "pairwise" /\ none = 0 /\ aux = 0 /\ one = 1
          BY DEF Kinds
    <1>3. PICK first : first = [o \in starts |->
                    FirstFrames(WithTextures(surfaces[o], one), kind, images[o], images[o], aux, none)]
          OBVIOUS
    <1>4. Renderable(DOMAIN images) /\ Prepared(starts)
          BY <1>1 DEF SetPairwiseWallpapers
    <1>5. PICK r \in Attempts(starts, first) :
             \/ Handled(WithQueued(Forgotten(starts, r, none), kind, images, aux), {})
             \/ \E back \in RolledBack(starts, r) : Handled(back, {})
          BY <1>1, <1>2, <1>3 DEF SetPairwiseWallpapers
    <1>6. starts \in SUBSET Live /\ DOMAIN r \in SUBSET starts
          BY <1>1, <1>4, TargetsFields, AttemptsFields
    <1>7. ASSUME NEW o \in starts, NEW d \in first[o]
          PROVE  /\ d \in Outcomes /\ Framed(d) /\ Coherent(d.surface)
                 /\ Prompt => d.surface.queue = <<>>
      <2>1. d \in FirstFrames(WithTextures(surfaces[o], one), kind, images[o], images[o], aux, none)
            BY <1>3, <1>7
      <2>2. one = 1 + aux /\ kind \in Requests
            BY <1>2
      <2>3. o \in Idle(DOMAIN images) /\ Prepared(Idle(DOMAIN images))
            BY <1>1, <1>4, <1>7
      <2>4. QED  BY <1>2, <1>4, <2>1, <2>2, <2>3, StartsFramed
    <1>8. CASE Handled(WithQueued(Forgotten(starts, r, none), kind, images, aux), {})
      <2>1. AllPosed(Forgotten(starts, r, none))
            BY <1>5, <1>6, <1>7, ForgottenPosed DEF Framing
      <2>2. kind \in Requests
            BY <1>2
      <2>3. QED  BY <1>1, <1>4, <1>6, <1>8, <2>1, <2>2, QueuedPoised
    <1>9. CASE \E back \in RolledBack(starts, r) : Handled(back, {})
      <2>1. PICK back \in RolledBack(starts, r) : Handled(back, {})
            BY <1>9
      <2>2. AllPosed(back)
            BY <1>5, <1>6, <1>7, <2>1, RolledBackPosed
      <2>3. QED  BY <2>1, <2>2, HandledPoised
    <1>10. QED  BY <1>5, <1>8, <1>9

LEMMA SetWorldPoised ==
    ASSUME "canvas" \notin Requests, RendererInv, Poised, NEW images \in Batches, "world" \in Requests,
           SetWorldWallpapers(images)
    PROVE  Poised'
    <1>1. PICK starts : starts = Idle(DOMAIN images)
          OBVIOUS
    <1>2. PICK kind \in Kinds, none \in Nat, aux \in {0, 1}, two \in Nat :
             kind = "world" /\ none = 0 /\ aux = 1 /\ two = 2
          BY DEF Kinds
    <1>3. PICK first : first = [o \in starts |->
                    FirstFrames(WithTextures(surfaces[o], two), kind, images[o], images[o], aux, none)]
          OBVIOUS
    <1>4. Renderable(DOMAIN images) /\ Prepared(starts)
          BY <1>1 DEF SetWorldWallpapers, Prepared, Idle
    <1>5. PICK r \in Attempts(starts, first) :
             \/ Handled(WithQueued(Forgotten(starts, r, two), kind, images, aux), {})
             \/ Handled(Forgotten(starts, r, two), {})
          BY <1>1, <1>2, <1>3 DEF SetWorldWallpapers
    <1>6. starts \in SUBSET Live /\ DOMAIN r \in SUBSET starts
          BY <1>1, <1>4, TargetsFields, AttemptsFields
    <1>7. ASSUME NEW o \in starts, NEW d \in first[o]
          PROVE  Framed(d)
      <2>1. d \in FirstFrames(WithTextures(surfaces[o], two), kind, images[o], images[o], aux, none)
            BY <1>3, <1>7
      <2>2. two = 1 + aux /\ kind \in Requests
            BY <1>2
      <2>3. o \in Idle(DOMAIN images) /\ Prepared(Idle(DOMAIN images))
            BY <1>1, <1>4, <1>7
      <2>4. QED  BY <1>2, <1>4, <2>1, <2>2, <2>3, StartsFramed
    <1>8. AllPosed(Forgotten(starts, r, two))
          BY <1>5, <1>6, <1>7, ForgottenPosed DEF Framing
    <1>9. CASE Handled(WithQueued(Forgotten(starts, r, two), kind, images, aux), {})
      <2>1. kind \in Requests
            BY <1>2
      <2>2. QED  BY <1>1, <1>4, <1>6, <1>8, <1>9, <2>1, QueuedPoised
    <1>10. CASE Handled(Forgotten(starts, r, two), {})
           BY <1>8, <1>10, HandledPoised
    <1>11. QED  BY <1>5, <1>9, <1>10

LEMMA ClearPoised ==
    ASSUME RendererInv, Poised, "clear" \in Requests, NEW asked, Clear(asked)
    PROVE  Poised'
    <1>1. PICK targets \in SUBSET Live, none \in Nat : targets = asked \cap Live /\ none = 0
          OBVIOUS
    <1>2. PICK first : first = [o \in Live |-> Cleared(surfaces[o])]
          OBVIOUS
    <1>3. PICK r \in Attempts(targets, first) : Handled(Forgotten(targets, r, none), {})
          BY <1>1, <1>2 DEF Clear, Cleared, Emptied, Blanked
    <1>4. ASSUME NEW o \in targets, NEW d \in first[o]
          PROVE  Framed(d)
          BY <1>2, <1>4, InvFields, PoisedFields, ClearedFramed
    <1>5. AllPosed(Forgotten(targets, r, none))
          BY <1>3, <1>4, ForgottenPosed DEF Framing
    <1>6. QED  BY <1>3, <1>5, HandledPoised
LEMMA BecomesPoised ==
    ASSUME Poised, NEW o \in Live, NEW s, Posed(s), Becomes(o, s)
    PROVE  Poised'
    <1>1. PICK T : T = [surfaces EXCEPT ![o] = s]
          OBVIOUS
    <1>2. \A p \in Live : T[p] = IF p = o THEN s ELSE surfaces[p]
          BY <1>1 DEF Live
    <1>3. AllPosed(T)
          BY <1>2 DEF AllPosed, Poised
    <1>4. QED  BY <1>1, <1>3, HandledPoised DEF Becomes

\* A decoded wall is uploaded, on an output that needs it.
LEMMA UploadOnePosed ==
    ASSUME NEW s, Posed(s), NEW t \in UploadOne(s)
    PROVE  Posed(t)
    <1>1. /\ t \in Surfaces /\ t.active = s.active /\ t.wall = s.wall
          /\ t.image = s.image /\ t.egl = s.egl /\ t.size = s.size /\ t.shown = s.shown
          /\ t.pending = s.pending /\ t.frame = s.frame
          /\ Len(t.queue) = Len(s.queue)
          /\ \A i \in 1 .. Len(s.queue) : Later(s.queue[i], t.queue[i])
          BY UploadOneEvolves DEF Posed
    <1>2. Asked(t.queue)
          BY <1>1 DEF Posed, Fit, Asked, Later
    <1>3. s.queue = <<>> => t.queue = <<>>
          BY <1>1, QueueFields DEF Posed
    <1>4. QED  BY <1>1, <1>2, <1>3, PosedAlike DEF Stays

LEMMA AcceptDecodePosed ==
    ASSUME NEW s, Posed(s), NEW job \in Jobs, NEW ok \in BOOLEAN
    PROVE  Posed(AcceptDecode(s, job, ok))
    <1>1. PICK t : t = AcceptDecode(s, job, ok)
          OBVIOUS
    <1>2. LET v == AcceptDecode(s, job, ok) IN
          /\ v \in Surfaces /\ Len(v.queue) = Len(s.queue)
          /\ v.egl = s.egl /\ v.size = s.size
          /\ v.image = s.image /\ v.wall = s.wall /\ v.active = s.active /\ v.shown = s.shown
          /\ v.pending = s.pending /\ v.frame = s.frame
          /\ \A i \in 1 .. Len(s.queue) : v.queue[i].kind = s.queue[i].kind
          BY AcceptDecodeFields DEF Posed
    <1>3. /\ t \in Surfaces /\ Len(t.queue) = Len(s.queue)
          /\ t.egl = s.egl /\ t.size = s.size
          /\ t.image = s.image /\ t.wall = s.wall /\ t.active = s.active /\ t.shown = s.shown
          /\ t.pending = s.pending /\ t.frame = s.frame
          /\ \A i \in 1 .. Len(s.queue) : t.queue[i].kind = s.queue[i].kind
          BY <1>1, <1>2
    <1>4. Asked(t.queue)
          BY <1>3 DEF Posed, Fit, Asked
    <1>5. s.queue = <<>> => t.queue = <<>>
          BY <1>3, QueueFields DEF Posed
    <1>6. Posed(t)
          BY <1>3, <1>4, <1>5, PosedAlike DEF Stays
    <1>7. QED  BY <1>1, <1>6

LEMMA DecodeResultPoised ==
    ASSUME RendererInv, Poised, NEW job \in jobs, NEW ok \in BOOLEAN, DecodeResult(job, ok)
    PROVE  Poised'
    <1>1. job \in Jobs /\ job.id # 0
          BY InvFields, JobFields
    <1>2. {o \in Live : surfaces[o].active.decode = job.id} = {}
          BY <1>1, PoisedFields DEF Fit
    <1>3. PICK f : f = [o \in Live |-> AcceptDecode(surfaces[o], job, ok)]
          OBVIOUS
    <1>4. AllPosed(f)
          BY <1>1, <1>3, AcceptDecodePosed DEF AllPosed, Poised
    <1>5. PICK g \in Pumped(f) : Handled(g, {job})
          BY <1>2, <1>3 DEF DecodeResult
    <1>6. AllPosed(g)
      <2>1. CASE g = f
            BY <1>4, <2>1
      <2>2. CASE \E o \in Live : \E s \in UploadOne(f[o]) : g = [f EXCEPT ![o] = s]
        <3>1. PICK o \in Live : \E s \in UploadOne(f[o]) : g = [f EXCEPT ![o] = s]
              BY <2>2
        <3>2. PICK s \in UploadOne(f[o]) : g = [f EXCEPT ![o] = s]
              BY <3>1
        <3>3. Posed(s)
              BY <1>4, UploadOnePosed DEF AllPosed
        <3>4. \A p \in Live : g[p] = IF p = o THEN s ELSE f[p]
              BY <1>3, <3>2
        <3>5. QED  BY <1>4, <3>3, <3>4 DEF AllPosed
      <2>3. QED  BY <1>5, <2>1, <2>2 DEF Pumped
    <1>7. QED  BY <1>5, <1>6, HandledPoised

\* What a configuration, a change of power, a frame callback and the clock do to an output.
LEMMA ConfigurePoised ==
    ASSUME Poised, NEW o \in Live, NEW size \in Sizes, Configure(o, size)
    PROVE  Poised'
    <1>1. PICK s \in Surfaces : s = surfaces[o] /\ Posed(s)
          BY PoisedFields
    <1>2. size # 0
          BY OutputSurfaceAssumption
    <1>3. ASSUME NEW t \in Surfaces, t.active = s.active, t.queue = s.queue, t.image = s.image,
                 t.wall = s.wall, Sized(t), t.pending
          PROVE  Posed(t)
      <2>1. Fit(t)
            BY <1>1, <1>3 DEF Posed, Fit
      <2>2. (Lively(s) => Lively(t)) /\ (Titled(s) => Titled(t)) /\ Current(t)
            BY <1>3 DEF Lively, Backed, Alive, Titled, Current, IsRunning
      <2>3. QED  BY <1>1, <2>1, <2>2 DEF Posed
    <1>4. CASE ~AllowsEgl(s)
      <2>1. PICK t : t = DeferConfigure(s, size)
            OBVIOUS
      <2>2. Redrawn(s, t)
            BY <2>1, RedrawnMarks
      <2>3. t.pending /\ t.size = size
            BY <2>1 DEF DeferConfigure, Surfaces
      <2>4. Posed(t)
            BY <1>2, <1>3, <2>2, <2>3 DEF Redrawn, Sized
      <2>5. Becomes(o, t)
            BY <1>1, <1>4, <2>1 DEF Configure
      <2>6. QED  BY <2>4, <2>5, BecomesPoised
    <1>5. CASE AllowsEgl(s)
      <2>1. PICK e \in EnsureEgl(s, size) : Becomes(o, IF e.ok THEN DeferRender(e.surface) ELSE e.surface)
            BY <1>1, <1>5 DEF Configure
      <2>2. Redrawn(s, e.surface) /\ Sized(e.surface) /\ e.surface.pending = s.pending
            /\ e.surface.frame = s.frame
            BY <1>1, EnsureEglRedraws, EnsureEglPosed DEF Posed, Fit
      <2>3. PICK t \in Surfaces : t = e.surface
            BY <2>2 DEF Redrawn
      <2>4. CASE e.ok
        <3>1. PICK u : u = DeferRender(t)
              OBVIOUS
        <3>2. Redrawn(t, u)
              BY <3>1, RedrawnMarks
        <3>3. u.pending /\ u.size = t.size /\ u.egl = t.egl
              BY <3>1 DEF DeferRender, Surfaces
        <3>4. Redrawn(s, u)
              BY <2>2, <2>3, <3>2, RedrawnTwice
        <3>5. Posed(u)
              BY <1>3, <2>2, <2>3, <3>3, <3>4 DEF Redrawn, Sized
        <3>6. QED  BY <2>1, <2>3, <2>4, <3>1, <3>5, BecomesPoised
      <2>5. CASE ~e.ok
        <3>1. e = Failed(DestroyEgl(s))
              BY <1>5, <2>1, <2>5 DEF EnsureEgl, May, Done, Failed
        <3>2. t.egl = 0
          <4>1. t = DestroyEgl(s)
                BY <2>3, <3>1 DEF Failed
          <4>2. QED  BY <4>1 DEF DestroyEgl, Surfaces
        <3>3. Fit(t)
              BY <1>1, <2>2, <2>3 DEF Posed, Fit, Redrawn
        <3>4. (Lively(s) => Lively(t)) /\ (Titled(s) => Titled(t)) /\ Current(t)
              BY <2>2, <2>3, <3>2 DEF Lively, Backed, Alive, Titled, Current, IsRunning, Redrawn
        <3>5. Posed(t)
              BY <1>1, <3>3, <3>4 DEF Posed
        <3>6. QED  BY <2>1, <2>3, <2>5, <3>5, BecomesPoised
      <2>6. QED  BY <2>4, <2>5
    <1>6. QED  BY <1>4, <1>5

\* What changes when the output is drawn, if it is drawn sooner or its callback came.
LEMMA EventPoised ==
    ASSUME Poised, NEW o \in Live, PowerFailed(o) \/ FrameDone(o) \/ \E power \in Powers : PowerMode(o, power)
    PROVE  Poised'
    <1>1. PICK s \in Surfaces : s = surfaces[o] /\ Posed(s)
          BY PoisedFields
    <1>2. ASSUME NEW t \in Surfaces, t.active = s.active, t.queue = s.queue, t.image = s.image,
                 t.wall = s.wall, t.shown = s.shown, t.size = s.size, t.egl = s.egl,
                 s.pending => t.pending,
                 t.frame = s.frame \/ (IsRunning(s) => t.pending)
          PROVE  Posed(t)
      <2>1. Fit(t)
            BY <1>1, <1>2 DEF Posed, Fit, Sized
      <2>2. (Lively(s) => Lively(t)) /\ (Titled(s) => Titled(t)) /\ (Current(s) => Current(t))
            BY <1>2 DEF Lively, Backed, Alive, Titled, Current, IsRunning
      <2>3. QED  BY <1>1, <2>1, <2>2 DEF Posed
    <1>3. CASE PowerFailed(o)
      <2>1. PICK t : t = [s EXCEPT !.power = "unsupported"]
            OBVIOUS
      <2>2. t \in Surfaces /\ t.frame = s.frame /\ t.pending = s.pending
            BY <2>1 DEF Surfaces, Powers
      <2>3. /\ t.active = s.active /\ t.queue = s.queue /\ t.image = s.image
            /\ t.wall = s.wall /\ t.shown = s.shown /\ t.size = s.size /\ t.egl = s.egl
            BY <2>1 DEF Surfaces
      <2>4. Posed(t)
            BY <1>2, <2>2, <2>3
      <2>5. QED  BY <1>1, <1>3, <2>1, <2>4, BecomesPoised DEF PowerFailed
    <1>4. CASE FrameDone(o)
      <2>1. PICK due \in BOOLEAN : due = (s.pending \/ IsRunning(s))
            BY SurfaceFields DEF IsRunning
      <2>2. PICK t : t = [s EXCEPT !.frame = "none", !.pending = due]
            OBVIOUS
      <2>3. t \in Surfaces /\ t.pending = due
            BY <2>2 DEF Surfaces
      <2>4. /\ t.active = s.active /\ t.queue = s.queue /\ t.image = s.image
            /\ t.wall = s.wall /\ t.shown = s.shown /\ t.size = s.size /\ t.egl = s.egl
            BY <2>2 DEF Surfaces
      <2>5. Posed(t)
            BY <1>2, <2>1, <2>3, <2>4
      <2>6. Becomes(o, t)
            BY <1>1, <1>4, <2>1, <2>2 DEF FrameDone
      <2>7. QED  BY <2>5, <2>6, BecomesPoised
    <1>5. ASSUME NEW power \in Powers, PowerMode(o, power)
          PROVE  Poised'
      <2>1. PICK due \in BOOLEAN : due = (s.pending \/ power = "off")
            BY SurfaceFields
      <2>2. PICK t : t = [s EXCEPT !.power = power, !.pending = due]
            OBVIOUS
      <2>3. t \in Surfaces /\ t.pending = due /\ t.frame = s.frame
            BY <2>2 DEF Surfaces
      <2>4. /\ t.active = s.active /\ t.queue = s.queue /\ t.image = s.image
            /\ t.wall = s.wall /\ t.shown = s.shown /\ t.size = s.size /\ t.egl = s.egl
            BY <2>2 DEF Surfaces
      <2>5. Posed(t)
            BY <1>2, <2>1, <2>3, <2>4
      <2>6. Becomes(o, t)
            BY <1>1, <1>5, <2>1, <2>2 DEF PowerMode
      <2>7. QED  BY <2>5, <2>6, BecomesPoised
    <1>6. QED  BY <1>3, <1>4, <1>5

LEMMA ElapsePoised ==
    ASSUME Poised, NEW o \in Live, Elapse(o)
    PROVE  Poised'
    <1>1. PICK s \in Surfaces : s = surfaces[o] /\ Posed(s) /\ IsRunning(s)
          BY PoisedFields DEF Elapse
    <1>2. s.active \in Active
          BY <1>1, SurfaceFields DEF IsRunning
    <1>3. PICK a : a = [s.active EXCEPT !.elapsed = TRUE]
          OBVIOUS
    <1>4. /\ a \in Active /\ a # NoActive /\ a.kind = s.active.kind /\ a.decode = s.active.decode
          /\ a.old = s.active.old /\ a.new = s.active.new
          BY <1>2, <1>3 DEF Active, NoActive
    <1>5. PICK t : t = [s EXCEPT !.active = a]
          OBVIOUS
    <1>6. t \in Surfaces
          BY <1>4, <1>5 DEF Surfaces
    <1>7. /\ t.active = a /\ t.queue = s.queue /\ t.image = s.image /\ t.wall = s.wall
          /\ t.size = s.size /\ t.egl = s.egl /\ t.pending = s.pending /\ t.frame = s.frame
          BY <1>5 DEF Surfaces
    <1>8. Fit(t)
          BY <1>1, <1>4, <1>7 DEF Posed, Fit, Sized
    <1>9. (Lively(s) => Lively(t)) /\ (Titled(s) => Titled(t)) /\ Current(t)
          BY <1>1, <1>4, <1>7 DEF Lively, Backed, Alive, Titled, Current, IsRunning
    <1>10. Posed(t)
           BY <1>1, <1>6, <1>8, <1>9 DEF Posed
    <1>11. surfaces' = [surfaces EXCEPT ![o] = t]
           BY <1>1, <1>3, <1>5 DEF Elapse
    <1>12. \A p \in Live : surfaces'[p] = IF p = o THEN t ELSE surfaces[p]
           BY <1>11 DEF Live
    <1>13. Live' = Live
           BY <1>11 DEF Live
    <1>14. QED  BY <1>10, <1>12, <1>13 DEF Poised
\* A pass over one output; a frame that fails cuts a scene short.
LEMMA PassFramed ==
    ASSUME "canvas" \notin Requests, NEW s, Posed(s), Coherent(s), NEW d \in Pass(s)
    PROVE  d \in Outcomes /\ Framed(d) /\ Coherent(d.surface)
    <1>1. s \in Surfaces
          BY DEF Posed
    <1>2. PICK t \in (IF IsRunning(s) THEN UploadOne(s) ELSE {s}) : d \in RenderActive(t)
          BY DEF Pass
    <1>3. Posed(t) /\ Coherent(t)
          BY <1>1, UploadOneEvolves, UploadOnePosed DEF Evolves, Progresses
    <1>4. Staged(t)
          BY <1>3 DEF Staged, Posed, Lively
    <1>5. t \in Surfaces
          BY <1>3 DEF Posed
    <1>6. d \in Outcomes /\ Coherent(d.surface)
          BY <1>2, <1>3, <1>5, RenderActiveEvolves DEF Evolves, Progresses
    <1>7. QED  BY <1>2, <1>3, <1>4, <1>6, StagedFramed

LEMMA PassedPosed ==
    ASSUME "canvas" \notin Requests, NEW s, Posed(s), Coherent(s), NEW d \in Pass(s),
           d.ok \/ d.surface.active.kind # "pairwise"
    PROVE  Posed(Passed(d))
    <1>1. d \in Outcomes /\ Framed(d) /\ Coherent(d.surface)
          BY PassFramed
    <1>2. CASE d.ok
          BY <1>1, <1>2, FramedPoses DEF Passed
    <1>3. CASE ~d.ok
      <2>1. PICK t \in Surfaces : t = d.surface
            BY <1>1, OutcomeFields
      <2>2. PICK m : m = MarkRecreate(t) /\ Posed(m)
            BY <1>1, <2>1, FramedPoses
      <2>3. m \in Surfaces /\ m.active = t.active /\ m.wall = t.wall /\ m.queue = t.queue
            BY <2>2, RedrawnMarks DEF Redrawn
      <2>4. Coherent(m)
            BY <1>1, <2>1, <2>3 DEF Coherent
      <2>5. m.pending
            BY <2>1, <2>2 DEF MarkRecreate, Surfaces
      <2>6. CASE ~IsRunning(m)
        <3>1. Settle(m) = m
              BY <2>6 DEF Settle
        <3>2. QED  BY <1>3, <2>1, <2>2, <3>1 DEF Passed
      <2>7. CASE IsRunning(m)
        <3>1. m.active.kind = "world" /\ "world" \in Requests
          <4>1. m.active.kind \in Kinds
                BY <2>3, <2>7, SurfaceFields DEF IsRunning, Active
          <4>2. m.active.kind \in Requests \cup {"none"} /\ m.active.kind # "pairwise"
                BY <1>3, <2>1, <2>2, <2>3 DEF Posed, Fit
          <4>3. QED  BY <4>1, <4>2 DEF Kinds
        <3>2. ~Prompt
          <4>1. CASE DrawsWork
            <5>1. PICK u : u \in Surfaces /\ d \in RenderActive(u)
                  BY UploadOneEvolves DEF Pass, Posed
            <5>2. QED  BY <1>3, <4>1, <5>1, RenderActiveSucceeds DEF DrawsWork
          <4>2. QED  BY <3>1, <4>1 DEF Prompt
        <3>3. PICK u \in Surfaces : u = Settle(m) /\ Turns(m, u)
              BY <2>3, <2>4, SettleEvolves, EndsTurn
        <3>4. Fit(u) /\ (Plain => Titled(u)) /\ Current(u)
              BY <2>2, <2>5, <3>3 DEF Posed, Turns, Stays, Current
        <3>5. Posed(u)
              BY <3>2, <3>4 DEF Posed
        <3>6. QED  BY <1>3, <2>1, <2>2, <3>3, <3>5 DEF Passed
      <2>8. QED  BY <2>6, <2>7
    <1>4. QED  BY <1>2, <1>3

LEMMA FreshPoised ==
    ASSUME Fresh
    PROVE  Poised'
    <1>1. surfaces' = [o \in {} |-> NewSurface("unknown")]
          BY DEF Fresh
    <1>2. DOMAIN surfaces' = {}
          BY <1>1
    <1>3. QED  BY <1>2 DEF Poised, Live

LEMMA RenderPendingPoised ==
    ASSUME "canvas" \notin Requests, RendererInv, Poised, RenderPendingSurfaces
    PROVE  Poised'
    <1>1. PICK due \in SUBSET Live : due = {o \in Live : surfaces[o].pending /\ AllowsEgl(surfaces[o])}
          OBVIOUS
    <1>2. PICK passes : passes = [o \in due |-> Pass(surfaces[o])]
          OBVIOUS
    <1>3. PICK r \in Products(due, passes) :
             \/ Fresh
             \/ /\ ~\E o \in Broken(r) : r[o].surface.active.kind = "pairwise"
                /\ surfaces' = [o \in Live |-> IF o \in due THEN [Passed(r[o]) EXCEPT !.sent = {}]
                                                            ELSE surfaces[o]]
          BY <1>1, <1>2 DEF RenderPendingSurfaces, Passed
    <1>4. CASE Fresh
          BY <1>4, FreshPoised
    <1>5. CASE /\ ~\E o \in Broken(r) : r[o].surface.active.kind = "pairwise"
               /\ surfaces' = [o \in Live |-> IF o \in due THEN [Passed(r[o]) EXCEPT !.sent = {}]
                                                           ELSE surfaces[o]]
      <2>1. ASSUME NEW o \in due
            PROVE  Posed([Passed(r[o]) EXCEPT !.sent = {}])
        <3>1. r[o] \in Pass(surfaces[o]) /\ DOMAIN r = due
              BY <1>2, <1>3, ProductsFields
        <3>2. r[o].ok \/ r[o].surface.active.kind # "pairwise"
              BY <1>5, <2>1, <3>1 DEF Broken
        <3>3. Posed(surfaces[o]) /\ Coherent(surfaces[o])
              BY InvFields, PoisedFields
        <3>4. QED  BY <3>1, <3>2, <3>3, PassedPosed, SentPosed
      <2>2. \A o \in Live : Posed(surfaces'[o])
            BY <1>5, <2>1 DEF Poised
      <2>3. Live' = Live
            BY <1>5 DEF Live
      <2>4. QED  BY <2>2, <2>3 DEF Poised
    <1>6. QED  BY <1>3, <1>4, <1>5

LEMMA NewOutputPoised ==
    ASSUME Poised, NEW o \in Outputs, NEW power \in Powers, NewOutput(o, power)
    PROVE  Poised'
    <1>1. PICK s : s = NewSurface(power)
          OBVIOUS
    <1>2. /\ s.active = NoActive /\ s.queue = <<>> /\ s.egl = 0 /\ s.wall = NoImage /\ s.image = NoImage
          BY <1>1 DEF NewSurface
    <1>3. s \in Surfaces
          BY <1>1, NewSurfaceIsSound DEF Sound
    <1>4. Fit(s)
          BY <1>2 DEF Fit, Sized, NoActive, Asked
    <1>5. Lively(s) /\ Titled(s) /\ Current(s)
          BY <1>2 DEF Lively, Backed, Titled, Current, IsRunning
    <1>6. Posed(s)
          BY <1>3, <1>4, <1>5 DEF Posed
    <1>7. surfaces' = [p \in Live \cup {o} |-> IF p = o THEN s ELSE surfaces[p]]
          BY <1>1 DEF NewOutput
    <1>8. QED  BY <1>6, <1>7 DEF Poised, Live

LEMMA OutputDestroyedPoised ==
    ASSUME Poised, NEW o \in Live, OutputDestroyed(o)
    PROVE  Poised'
    <1>1. surfaces' = [p \in Live \ {o} |-> surfaces[p]]
          BY DEF OutputDestroyed
    <1>2. QED  BY <1>1 DEF Poised, Live

LEMMA NextPoised ==
    ASSUME "canvas" \notin Requests, RendererInv, Poised, [Next]_vars
    PROVE  Poised'
    <1>1. CASE surfaces' = surfaces
          BY <1>1 DEF Poised, Live
    <1>2. CASE Request
      <2>1. ASSUME NEW images \in Batches, "cut" \in Requests, SetCutWallpapers(images)
            PROVE  Poised'
            BY <2>1, CutAllPoised DEF SetCutWallpapers
      <2>2. ASSUME NEW images \in Batches, "pairwise" \in Requests, SetPairwiseWallpapers(images)
            PROVE  Poised'
            BY <2>2, SetPairwisePoised
      <2>3. ASSUME NEW images \in Batches, "world" \in Requests, SetWorldWallpapers(images)
            PROVE  Poised'
            BY <2>3, SetWorldPoised
      <2>4. ASSUME "clear" \in Requests, NEW targets, Clear(targets)
            PROVE  Poised'
            BY <2>4, ClearPoised
      <2>5. ASSUME NEW kind, Refuses(kind)
            PROVE  Poised'
            BY <1>1, <2>5 DEF Refuses
      <2>6. \/ \E images \in Batches : "cut" \in Requests /\ SetCutWallpapers(images)
            \/ \E images \in Batches : "pairwise" \in Requests /\ SetPairwiseWallpapers(images)
            \/ \E images \in Batches : "world" \in Requests /\ SetWorldWallpapers(images)
            \/ "clear" \in Requests /\ \E targets : Clear(targets)
            \/ \E kind : Refuses(kind)
            BY <1>2 DEF Request
      <2>7. QED  BY <2>1, <2>2, <2>3, <2>4, <2>5, <2>6
    <1>3. CASE DecodeResults
      <2>1. PICK job \in jobs, ok \in BOOLEAN : DecodeResult(job, ok)
            BY <1>3 DEF DecodeResults
      <2>2. QED  BY <2>1, DecodeResultPoised
    <1>4. CASE Wayland
      <2>1. \/ \E o \in Outputs : \E power \in Powers : NewOutput(o, power)
            \/ \E o \in Live : \/ \E size \in Sizes : Configure(o, size)
                               \/ \E power \in Powers : PowerMode(o, power)
                               \/ PowerFailed(o) \/ FrameDone(o) \/ OutputDestroyed(o)
            BY <1>4 DEF Wayland, Powers
      <2>2. ASSUME NEW o \in Outputs, NEW power \in Powers, NewOutput(o, power)
            PROVE  Poised'
            BY <2>2, NewOutputPoised
      <2>3. ASSUME NEW o \in Live, NEW size \in Sizes, Configure(o, size)
            PROVE  Poised'
            BY <2>3, ConfigurePoised
      <2>4. ASSUME NEW o \in Live, PowerFailed(o) \/ FrameDone(o) \/ \E power \in Powers : PowerMode(o, power)
            PROVE  Poised'
            BY <2>4, EventPoised
      <2>5. ASSUME NEW o \in Live, OutputDestroyed(o)
            PROVE  Poised'
            BY <2>5, OutputDestroyedPoised
      <2>6. QED  BY <2>1, <2>2, <2>3, <2>4, <2>5
    <1>5. CASE \E o \in Live : Elapse(o)
          BY <1>5, ElapsePoised
    <1>6. CASE RenderPendingSurfaces
          BY <1>6, RenderPendingPoised
    <1>7. CASE Exit
          BY <1>7, FreshPoised DEF Exit
    <1>8. CASE UNCHANGED vars
          BY <1>1, <1>8 DEF vars
    <1>9. QED  BY <1>2, <1>3, <1>4, <1>5, <1>6, <1>7, <1>8 DEF Next

\* Every output is as it should be drawn: what is shown and what waits was requested, an
\* EGL surface has a size, and as far as Prompt and Plain hold, frames are due while a
\* transition runs and a picture at rest is the reported one (surface.rs, render_control.rs).
THEOREM OutputsArePoised ==
    ASSUME "canvas" \notin Requests
    PROVE  Spec => []Poised
    <1>1. Init => Poised
      <2>1. SUFFICES ASSUME Init PROVE Poised
            OBVIOUS
      <2>2. surfaces = [o \in {} |-> NewSurface("unknown")]
            BY <2>1 DEF Init
      <2>3. DOMAIN surfaces = {}
            BY <2>2
      <2>4. QED  BY <2>3 DEF Poised, Live
    <1>2. RendererInv /\ Poised /\ [Next]_vars => Poised'
          BY NextPoised
    <1>3. QED  BY <1>1, <1>2, RendererInvariant, PTL DEF Spec

\* The next frame of a running transition is always due or its frame callback committed,
\* and walls wait behind a running transition only: for pairwise sets, cuts and clears
\* whatever fails, and for world sets while drawing works (surface.rs:348, surface.rs:628,
\* wayland_handlers.rs:39).
THEOREM NothingWaitsInVain ==
    ASSUME Prompt
    PROVE  Spec => []NothingStalls
    <1>1. Poised => NothingStalls
          BY DEF Poised, Posed, Lively, Backed, Alive, NothingStalls
    <1>2. "canvas" \notin Requests
          BY DEF Prompt
    <1>3. Spec => []Poised
          BY <1>2, OutputsArePoised
    <1>4. QED  BY <1>1, <1>3, PTL

\* An output at rest with nothing due shows the image the renderer reports of it, or the
\* clear colour if there is none, after cuts, pairwise and world sets, scenes cut short and
\* refused sets, whatever fails; after clears while drawing works (surface.rs:200,
\* pairwise.rs:222).
THEOREM ScreensAreCurrent ==
    ASSUME Plain
    PROVE  Spec => []ScreenIsCurrent
    <1>1. Poised => ScreenIsCurrent
          BY DEF Poised, Posed, Titled, Current, PictureOf, ScreenIsCurrent
    <1>2. "canvas" \notin Requests
          BY DEF Plain
    <1>3. Spec => []Poised
          BY <1>2, OutputsArePoised
    <1>4. QED  BY <1>1, <1>3, PTL
================================================================================
