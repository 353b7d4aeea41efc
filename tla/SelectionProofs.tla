---------------------------- MODULE SelectionProofs ----------------------------
(***************************************************************************)
(* What the operators of LayoutState return for a tape of sets of n walls, *)
(* for any number of outputs n and any max_history, and those of           *)
(* ShuffleBag over a finite set of walls.                                  *)
(***************************************************************************)
EXTENDS LayoutState, ShuffleBag, SequenceTheorems, FunctionTheorems, FiniteSetTheorems, TLAPS

\* Least, Greatest and MinusToZero on naturals.
LEMMA MinMaxType ==
    ASSUME NEW a \in Nat, NEW b \in Nat
    PROVE  /\ Least(a, b) \in Nat /\ Least(a, b) <= a /\ Least(a, b) <= b
           /\ Greatest(a, b) \in Nat /\ Greatest(a, b) >= a /\ Greatest(a, b) >= b
           /\ MinusToZero(a, b) \in Nat
           /\ a >= b => MinusToZero(a, b) = a - b
           /\ a <= b => MinusToZero(a, b) = 0
    BY DEF Least, Greatest, MinusToZero

\* The part of a sequence between two positions that may lie outside it.
LEMMA SubSeqType ==
    ASSUME NEW S, NEW s \in Seq(S), NEW m \in Nat \ {0}, NEW n \in 0..Len(s)
    PROVE  /\ SubSeq(s, m, n) \in Seq(S)
           /\ Len(SubSeq(s, m, n)) = IF m <= n THEN n - m + 1 ELSE 0
           /\ \A i \in 1..(n - m + 1) : SubSeq(s, m, n)[i] = s[m + i - 1]
    <1>1. \A i \in m..n : s[i] \in S
          BY ElementOfSeq
    <1>2. QED  BY <1>1, SubSeqProperties

\* A complete layout reaches the end of its window: the set at the cursor is
\* there, and the next one too when the window is shifted.
LEMMA CompleteReaches ==
    ASSUME NEW n \in Nat \ {0}, NEW len \in Nat, NEW i \in Nat, NEW off \in 0..(n - 1),
           len * n >= i * n + off + n
    PROVE  /\ len >= i + 1
           /\ off > 0 => len >= i + 2
    <1>1. \A a, b \in Nat : a <= b => a * n <= b * n
          OBVIOUS
    <1>2. (i + 1) * n = i * n + n
          OBVIOUS
    <1>3. len >= i + 1
      <2>1. SUFFICES ASSUME len <= i PROVE FALSE
            OBVIOUS
      <2>2. len * n <= i * n
            BY <2>1, <1>1
      <2>3. len * n \in Nat /\ i * n \in Nat
            OBVIOUS
      <2>4. QED  BY <2>2, <2>3
    <1>4. ASSUME off > 0 PROVE len >= i + 2
      <2>1. SUFFICES ASSUME len <= i + 1 PROVE FALSE
            OBVIOUS
      <2>2. len * n <= (i + 1) * n
            BY <2>1, <1>1
      <2>3. len * n \in Nat /\ i * n \in Nat
            OBVIOUS
      <2>4. QED  BY <2>2, <2>3, <1>2, <1>4
    <1>5. QED  BY <1>3, <1>4

\* The window of a layout is a sequence of walls, with one wall for each output
\* when ensure_window has nothing to add.
LEMMA WindowType ==
    ASSUME NEW W, NEW n \in Nat \ {0}, NEW l \in LayoutsOf(W, n)
    PROVE  /\ Window(l) \in Seq(W)
           /\ Complete(l, n) => Window(l) \in SetsOf(W, n)
    <1> DEFINE i    == Greatest(l.idx, 1)
               at   == SetAt(l, i)
               next == SetAt(l, i + 1)
               hd   == SubSeq(at, l.offset + 1, Len(at))
               tl   == SubSeq(next, 1, Least(l.offset, Len(next)))
    <1>1. l.history \in Seq(SetsOf(W, n)) /\ l.idx \in Nat /\ l.offset \in 0..(n - 1)
          BY DEF LayoutsOf
    <1>2. i \in Nat /\ i + 1 \in Nat /\ i = MinusToZero(l.idx, 1) + 1
          BY <1>1 DEF Greatest, MinusToZero
    <1>3. \A j \in Nat : /\ SetAt(l, j) \in Seq(W)
                         /\ j \in 1..Len(l.history) => SetAt(l, j) \in SetsOf(W, n)
      <2> SUFFICES ASSUME NEW j \in Nat
                   PROVE  /\ SetAt(l, j) \in Seq(W)
                          /\ j \in 1..Len(l.history) => SetAt(l, j) \in SetsOf(W, n)
          OBVIOUS
      <2>1. CASE j \in 1..Len(l.history)
            BY <2>1, <1>1, ElementOfSeq DEF SetAt, SetsOf
      <2>2. CASE j \notin 1..Len(l.history)
            BY <2>2 DEF SetAt
      <2>3. QED  BY <2>1, <2>2
    <1>4. /\ at = SetAt(l, i) /\ next = SetAt(l, i + 1)
          /\ hd = SubSeq(at, l.offset + 1, Len(at))
          /\ tl = SubSeq(next, 1, Least(l.offset, Len(next)))
          /\ Window(l) = hd \o tl
          BY DEF Window
    <1> HIDE DEF i, at, next, hd, tl
    <1>5. at \in Seq(W) /\ next \in Seq(W)
          BY <1>2, <1>3, <1>4
    <1>6. Len(at) \in Nat /\ Len(next) \in Nat
          BY <1>5, LenProperties
    <1>7. hd \in Seq(W) /\ Len(hd) = IF l.offset + 1 <= Len(at) THEN Len(at) - l.offset ELSE 0
      <2>1. Len(at) \in 0..Len(at) /\ l.offset + 1 \in Nat \ {0}
            BY <1>1, <1>6
      <2>2. /\ SubSeq(at, l.offset + 1, Len(at)) \in Seq(W)
            /\ Len(SubSeq(at, l.offset + 1, Len(at))) =
                 IF l.offset + 1 <= Len(at) THEN Len(at) - (l.offset + 1) + 1 ELSE 0
            BY <2>1, <1>5, SubSeqType
      <2>3. /\ hd \in Seq(W)
            /\ Len(hd) = IF l.offset + 1 <= Len(at) THEN Len(at) - (l.offset + 1) + 1 ELSE 0
            BY <2>2, <1>4, Zenon
      <2>4. Len(at) - (l.offset + 1) + 1 = Len(at) - l.offset
            BY <1>1, <1>6
      <2>5. QED  BY <2>3, <2>4
    <1>8. tl \in Seq(W) /\ Len(tl) = Least(l.offset, Len(next))
      <2>1. Least(l.offset, Len(next)) \in 0..Len(next)
            BY <1>1, <1>6 DEF Least
      <2>2. QED  BY <2>1, <1>4, <1>5, <1>6, SubSeqType
    <1>9. Window(l) \in Seq(W) /\ Len(Window(l)) = Len(hd) + Len(tl)
          BY <1>4, <1>7, <1>8, ConcatProperties
    <1>10. ASSUME Complete(l, n) PROVE Len(Window(l)) = n
      <2>1. Len(l.history) \in Nat /\ MinusToZero(l.idx, 1) \in Nat
            BY <1>1, LenProperties DEF MinusToZero, Greatest
      <2>2. Len(l.history) * n >= MinusToZero(l.idx, 1) * n + l.offset + n
            BY <1>10 DEF Complete, WindowStart
      <2>3. /\ Len(l.history) >= MinusToZero(l.idx, 1) + 1
            /\ l.offset > 0 => Len(l.history) >= MinusToZero(l.idx, 1) + 2
            BY <2>1, <2>2, <1>1, CompleteReaches, Zenon
      <2>4. Len(at) = n
        <3>1. i \in 1..Len(l.history)
              BY <2>1, <2>3, <1>2
        <3>2. QED  BY <3>1, <1>2, <1>3, <1>4 DEF SetsOf
      <2>5. l.offset > 0 => Len(next) = n
        <3>1. l.offset > 0 => i + 1 \in 1..Len(l.history)
              BY <2>1, <2>3, <1>2
        <3>2. QED  BY <3>1, <1>2, <1>3, <1>4 DEF SetsOf
      <2>6. Len(hd) = n - l.offset
            BY <2>4, <1>7, <1>1
      <2>7. Len(tl) = l.offset
            BY <2>5, <1>8, <1>6, <1>1 DEF Least
      <2>8. QED  BY <2>6, <2>7, <1>9, <1>1
    <1>11. QED  BY <1>9, <1>10 DEF SetsOf

\* Pruning keeps the shape of a layout.
LEMMA PruneType ==
    ASSUME NEW W, NEW n \in Nat \ {0}, NEW l \in LayoutsOf(W, n)
    PROVE  Prune(l) \in LayoutsOf(W, n)
    <1> DEFINE drop == MinusToZero(Len(l.history), MaxHistory)
               kept == SubSeq(l.history, drop + 1, Len(l.history))
               at   == IF l.idx > 0 THEN Greatest(MinusToZero(l.idx, drop), 1) ELSE l.idx
    <1>1. l.history \in Seq(SetsOf(W, n)) /\ l.idx \in Nat /\ l.offset \in 0..(n - 1)
          BY DEF LayoutsOf
    <1>2. Len(l.history) \in Nat /\ Len(l.history) \in 0..Len(l.history)
          BY <1>1, LenProperties
    <1>3. drop \in Nat
          BY <1>2, MaxHistoryAssumption DEF MinusToZero, Greatest
    <1>4. Prune(l) = IF drop = 0 THEN l
                     ELSE [l EXCEPT !.history = kept, !.idx = at]
          BY DEF Prune
    <1> HIDE DEF drop
    <1>5. kept \in Seq(SetsOf(W, n))
          BY <1>1, <1>2, <1>3, SubSeqType
    <1>6. at \in Nat
          BY <1>1, <1>3 DEF Greatest, MinusToZero
    <1> HIDE DEF kept, at
    <1>7. QED  BY <1>1, <1>4, <1>5, <1>6 DEF LayoutsOf

\* A set appended to the tape of a layout.
Appended(l, s) == [l EXCEPT !.history = Append(@, s)]
LEMMA AppendedType ==
    ASSUME NEW W, NEW n, NEW l \in LayoutsOf(W, n), NEW s \in SetsOf(W, n)
    PROVE  /\ Appended(l, s) \in LayoutsOf(W, n)
           /\ Appended(l, s).idx = l.idx /\ Appended(l, s).offset = l.offset
           /\ Len(Appended(l, s).history) = Len(l.history) + 1
    <1> DEFINE hs == Seq(SetsOf(W, n))
               h  == Append(l.history, s)
    <1>1. l.history \in hs /\ l.idx \in Nat /\ l.offset \in 0..(n - 1)
          BY DEF LayoutsOf
    <1>2. l = [history |-> l.history, idx |-> l.idx, offset |-> l.offset]
          BY DEF LayoutsOf
    <1>3. h \in hs /\ Len(h) = Len(l.history) + 1
          BY <1>1, AppendProperties
    <1>4. Appended(l, s) = [l EXCEPT !.history = h]
          BY DEF Appended
    <1>5. LayoutsOf(W, n) = [history : hs, idx : Nat, offset : 0..(n - 1)]
          BY DEF LayoutsOf
    <1> HIDE DEF h, hs
    <1>6. Appended(l, s) = [history |-> h, idx |-> l.idx, offset |-> l.offset]
          BY <1>2, <1>4
    <1>7. Appended(l, s) \in LayoutsOf(W, n)
          BY <1>1, <1>3, <1>5, <1>6
    <1>8. QED  BY <1>3, <1>6, <1>7

\* append_set adds a set of n walls.
LEMMA AppendSetType ==
    ASSUME NEW W, NEW n \in Nat \ {0}, NEW l \in LayoutsOf(W, n), NEW s \in SetsOf(W, n)
    PROVE  AppendSet(l, s) \in LayoutsOf(W, n)
    <1>1. AppendSet(l, s) = Prune(Appended(l, s))
          BY DEF AppendSet, Appended
    <1>2. QED  BY <1>1, AppendedType, PruneType

\* A replaced or healed window ends the tape: pruning may drop older sets and
\* move the cursor, and the window is still exactly the new set.
LEMMA ReplaceTailType ==
    ASSUME NEW W, NEW n \in Nat \ {0}, NEW l \in LayoutsOf(W, n), NEW s \in SetsOf(W, n)
    PROVE  /\ ReplaceTail(l, s) \in LayoutsOf(W, n)
           /\ Window(ReplaceTail(l, s)) = s
    <1> DEFINE kept == SubSeq(l.history, 1, Least(l.idx, Len(l.history)))
               tape == Append(kept, s)
               r    == [history |-> tape, idx |-> Len(kept) + 1, offset |-> 0]
    <1>1. l.history \in Seq(SetsOf(W, n)) /\ l.idx \in Nat
          BY DEF LayoutsOf
    <1>2. Least(l.idx, Len(l.history)) \in 0..Len(l.history)
          BY <1>1, LenProperties DEF Least
    <1>3. kept \in Seq(SetsOf(W, n))
          BY <1>1, <1>2, SubSeqType
    <1>4. Len(kept) \in Nat
          BY <1>3, LenProperties
    <1>5. ReplaceTail(l, s) = Prune(r)
          BY DEF ReplaceTail
    <1> HIDE DEF kept
    <1>6. /\ tape \in Seq(SetsOf(W, n)) /\ Len(tape) = Len(kept) + 1
          /\ tape[Len(kept) + 1] = s
          BY <1>3, <1>4
    <1> HIDE DEF tape
    <1>7. r \in LayoutsOf(W, n)
          BY <1>4, <1>6 DEF LayoutsOf
    <1>8. Window(Prune(r)) = s
      <2> DEFINE drop == MinusToZero(Len(tape), MaxHistory)
                 p    == Prune(r)
      <2>1. drop \in Nat /\ drop < Len(tape) /\ Len(tape) \in Nat
            BY <1>4, <1>6, MaxHistoryAssumption DEF MinusToZero, Greatest
      <2>2. /\ p.offset = 0
            /\ p.history = IF drop = 0 THEN tape ELSE SubSeq(tape, drop + 1, Len(tape))
            /\ p.idx = IF drop = 0 THEN Len(tape)
                       ELSE Greatest(MinusToZero(Len(tape), drop), 1)
            BY <1>4, <1>6 DEF Prune
      <2> HIDE DEF drop, p
      <2>3. p.idx = Len(tape) - drop /\ p.idx \in Nat \ {0}
            BY <2>1, <2>2 DEF Greatest, MinusToZero
      <2>4. p.history \in Seq(SetsOf(W, n)) /\ Len(p.history) = p.idx /\ p.history[p.idx] = s
        <3>1. CASE drop = 0
              BY <3>1, <2>1, <2>2, <2>3, <1>6
        <3>2. CASE drop # 0
          <4>1. /\ SubSeq(tape, drop + 1, Len(tape)) \in Seq(SetsOf(W, n))
                /\ Len(SubSeq(tape, drop + 1, Len(tape))) = Len(tape) - (drop + 1) + 1
                /\ \A i \in 1..(Len(tape) - (drop + 1) + 1) :
                     SubSeq(tape, drop + 1, Len(tape))[i] = tape[drop + 1 + i - 1]
                BY <2>1, <1>6, SubSeqType
          <4>2. Len(p.history) = p.idx
                BY <4>1, <3>2, <2>1, <2>2, <2>3
          <4>3. p.history[p.idx] = tape[drop + 1 + p.idx - 1]
                BY <4>1, <3>2, <2>1, <2>2, <2>3
          <4>4. drop + 1 + p.idx - 1 = Len(kept) + 1
                BY <2>1, <2>3, <1>4, <1>6
          <4>5. QED  BY <4>1, <4>2, <4>3, <4>4, <3>2, <2>2, <1>6
        <3>3. QED  BY <3>1, <3>2
      <2>5. SetAt(p, Greatest(p.idx, 1)) = s
            BY <2>3, <2>4 DEF SetAt, Greatest
      <2>6. s \in Seq(W) /\ Len(s) = n
            BY DEF SetsOf
      <2>7. SubSeq(s, 0 + 1, Len(s)) = s
            BY <2>6, SubSeqFull
      <2>8. SubSeq(SetAt(p, Greatest(p.idx, 1) + 1), 1, Least(0, Len(SetAt(p, Greatest(p.idx, 1) + 1)))) = <<>>
        <3>1. SetAt(p, Greatest(p.idx, 1) + 1) = <<>>
              BY <2>3, <2>4 DEF SetAt, Greatest
        <3>2. Least(0, Len(<<>>)) = 0
              BY DEF Least
        <3>3. QED  BY <3>1, <3>2, SubSeqEmpty
      <2>9. Window(p) = s \o <<>>
            BY <2>2, <2>5, <2>7, <2>8 DEF Window
      <2>10. QED  BY <2>9, <2>6, ConcatEmptySeq DEF p
    <1>9. QED  BY <1>5, <1>7, <1>8, PruneType

\* The cursor moves keep the shape of a layout.
LEMMA CursorType ==
    ASSUME NEW W, NEW n \in Nat \ {0}, NEW l \in LayoutsOf(W, n)
    PROVE  /\ StepForward(l) \in LayoutsOf(W, n)
           /\ StepBack(l) \in LayoutsOf(W, n)
           /\ ShiftForward(l, n) \in LayoutsOf(W, n)
           /\ ShiftBack(l, n) \in LayoutsOf(W, n)
    <1>1. l.history \in Seq(SetsOf(W, n)) /\ l.idx \in Nat /\ l.offset \in 0..(n - 1)
          BY DEF LayoutsOf
    <1>2. StepForward(l) \in LayoutsOf(W, n)
          BY <1>1 DEF LayoutsOf, StepForward, Greatest
    <1>3. StepBack(l) \in LayoutsOf(W, n)
          BY <1>1, SMTT(30) DEF LayoutsOf, StepBack, Greatest
    <1>4. ShiftForward(l, n) \in LayoutsOf(W, n)
      <2>1. CASE l.offset + 1 >= n
        <3>1. ShiftForward(l, n) = [l EXCEPT !.idx = @ + 1, !.offset = 0]
              BY <2>1, Zenon DEF ShiftForward
        <3>2. 0 \in 0..(n - 1) /\ l.idx + 1 \in Nat
              BY <1>1
        <3>3. QED  BY <3>1, <3>2 DEF LayoutsOf
      <2>2. CASE ~(l.offset + 1 >= n) /\ l.idx < 1
        <3>1. ShiftForward(l, n) = [l EXCEPT !.idx = 1, !.offset = 0]
              BY <2>2, Zenon DEF ShiftForward
        <3>2. 0 \in 0..(n - 1) /\ 1 \in Nat
              OBVIOUS
        <3>3. QED  BY <3>1, <3>2 DEF LayoutsOf
      <2>3. CASE ~(l.offset + 1 >= n) /\ ~(l.idx < 1)
        <3>1. ShiftForward(l, n) = [l EXCEPT !.offset = @ + 1]
              BY <2>3, Zenon DEF ShiftForward
        <3>2. l.offset + 1 \in 0..(n - 1)
              BY <2>3, <1>1
        <3>3. QED  BY <3>1, <3>2 DEF LayoutsOf
      <2>4. QED  BY <2>1, <2>2, <2>3
    <1>5. ShiftBack(l, n) \in LayoutsOf(W, n)
      <2>1. CASE l.offset > 0
        <3>1. ShiftBack(l, n) = [l EXCEPT !.offset = @ - 1]
              BY <2>1, Zenon DEF ShiftBack
        <3>2. l.offset - 1 \in 0..(n - 1)
              BY <2>1, <1>1
        <3>3. QED  BY <3>1, <3>2 DEF LayoutsOf
      <2>2. CASE ~(l.offset > 0) /\ l.idx > 1
        <3>1. ShiftBack(l, n) = [l EXCEPT !.idx = @ - 1, !.offset = n - 1]
              BY <2>2, Zenon DEF ShiftBack
        <3>2. n - 1 \in 0..(n - 1) /\ l.idx - 1 \in Nat
              BY <2>2, <1>1
        <3>3. QED  BY <3>1, <3>2 DEF LayoutsOf
      <2>3. CASE ~(l.offset > 0) /\ ~(l.idx > 1)
            BY <2>3 DEF ShiftBack
      <2>4. QED  BY <2>1, <2>2, <2>3
    <1>6. QED  BY <1>2, <1>3, <1>4, <1>5

\* Reading a layout directory keeps the shape of a layout.
LEMMA LoadType ==
    ASSUME NEW W, NEW n \in Nat \ {0}, NEW d \in LayoutsOf(W, n)
    PROVE  Load(d, n) \in LayoutsOf(W, n)
    <1>1. d.history \in Seq(SetsOf(W, n)) /\ d.idx \in Nat /\ d.offset \in 0..(n - 1)
          BY DEF LayoutsOf
    <1>2. d.offset % n = d.offset
          BY <1>1, SMTT(30)
    <1>3. QED  BY <1>1, <1>2 DEF LayoutsOf, Load

LEMMA EmptyLayoutType ==
    ASSUME NEW W, NEW n \in Nat \ {0}
    PROVE  EmptyLayout \in LayoutsOf(W, n)
    BY DEF LayoutsOf, EmptyLayout

\* A tape that holds sets has its cursor on one of them, as load leaves it.
Normal(l) == l.history # <<>> => l.idx >= 1

\* Reading a layout directory repairs the cursor and changes nothing else: a
\* layout that was written with its cursor set is read as it was.
LEMMA LoadNormal ==
    ASSUME NEW W, NEW n \in Nat \ {0}, NEW d \in LayoutsOf(W, n)
    PROVE  /\ Normal(Load(d, n))
           /\ Load(d, n).history = d.history /\ Load(d, n).offset = d.offset
           /\ d.idx <= Load(d, n).idx
           /\ Normal(d) => Load(d, n) = d
    <1>1. d.idx \in Nat /\ d.offset \in 0..(n - 1) /\ d = [history |-> d.history, idx |-> d.idx, offset |-> d.offset]
          BY DEF LayoutsOf
    <1>2. d.offset % n = d.offset
          BY <1>1
    <1>3. /\ Load(d, n).history = d.history /\ Load(d, n).offset = d.offset
          /\ Load(d, n).idx = IF d.idx < 1 /\ d.history # <<>> THEN 1 ELSE d.idx
          BY <1>2 DEF Load
    <1>4. Normal(Load(d, n)) /\ d.idx <= Load(d, n).idx
          BY <1>1, <1>3 DEF Normal
    <1>5. ASSUME Normal(d)
          PROVE  Load(d, n) = d
      <2>1. (IF d.idx < 1 /\ d.history # <<>> THEN 1 ELSE d.idx) = d.idx
            BY <1>1, <1>5 DEF Normal
      <2>2. Load(d, n) = [history |-> d.history, idx |-> d.idx, offset |-> d.offset]
            BY <1>2, <2>1 DEF Load
      <2>3. QED  BY <1>1, <2>2
    <1>6. QED  BY <1>3, <1>4, <1>5

\* Pruning keeps at most MaxHistory sets and moves the cursor by as many as it
\* drops, but never off the tape.
LEMMA PruneShape ==
    ASSUME NEW W, NEW n \in Nat \ {0}, NEW l \in LayoutsOf(W, n)
    PROVE  /\ Prune(l).offset = l.offset
           /\ Len(Prune(l).history) = Least(Len(l.history), MaxHistory)
           /\ l.idx >= 1 => Prune(l).idx = Greatest(l.idx - MinusToZero(Len(l.history), MaxHistory), 1)
    <1> DEFINE len  == Len(l.history)
               drop == MinusToZero(len, MaxHistory)
               kept == SubSeq(l.history, drop + 1, len)
    <1>1. l.history \in Seq(SetsOf(W, n)) /\ l.idx \in Nat
          BY DEF LayoutsOf
    <1>2. len \in Nat /\ MaxHistory \in Nat \ {0}
          BY <1>1, LenProperties, MaxHistoryAssumption
    <1>3. Prune(l) = IF drop = 0 THEN l
                     ELSE [l EXCEPT !.history = kept,
                                    !.idx = IF l.idx > 0 THEN Greatest(MinusToZero(l.idx, drop), 1) ELSE l.idx]
          BY DEF Prune
    <1>4. l = [history |-> l.history, idx |-> l.idx, offset |-> l.offset]
          BY DEF LayoutsOf
    <1> HIDE DEF len
    <1>5. drop \in Nat /\ (drop = 0 <=> len <= MaxHistory) /\ (drop # 0 => drop = len - MaxHistory)
          BY <1>2 DEF MinusToZero, Greatest
    <1>6. drop # 0 => Len(kept) = MaxHistory
      <2>1. SUFFICES ASSUME drop # 0 PROVE Len(kept) = MaxHistory
            OBVIOUS
      <2>2. drop + 1 \in Nat \ {0} /\ len \in 0..Len(l.history) /\ drop + 1 <= len
            BY <2>1, <1>2, <1>5 DEF len
      <2>3. Len(kept) = len - (drop + 1) + 1
            BY <1>1, <2>2, SubSeqType
      <2>4. QED  BY <2>1, <2>3, <1>2, <1>5
    <1> HIDE DEF drop, kept
    <1>7. CASE drop = 0
      <2>1. Prune(l) = l /\ Least(len, MaxHistory) = len
            BY <1>2, <1>3, <1>5, <1>7 DEF Least
      <2>2. l.idx >= 1 => Greatest(l.idx - drop, 1) = l.idx
            BY <1>1, <1>7 DEF Greatest
      <2>3. QED  BY <2>1, <2>2 DEF len, drop
    <1>8. CASE drop # 0
      <2>1. /\ Prune(l).offset = l.offset /\ Prune(l).history = kept
            /\ l.idx >= 1 => Prune(l).idx = Greatest(MinusToZero(l.idx, drop), 1)
            BY <1>1, <1>3, <1>4, <1>8
      <2>2. Least(len, MaxHistory) = MaxHistory
            BY <1>2, <1>5, <1>8 DEF Least
      <2>3. Greatest(MinusToZero(l.idx, drop), 1) = Greatest(l.idx - drop, 1)
            BY <1>1, <1>5 DEF Greatest, MinusToZero
      <2>4. QED  BY <2>1, <2>2, <2>3, <1>6, <1>8 DEF len, drop
    <1>9. QED  BY <1>7, <1>8

\* Appending a set to a tape may push the oldest one out.
LEMMA AppendSetShape ==
    ASSUME NEW W, NEW n \in Nat \ {0}, NEW l \in LayoutsOf(W, n), NEW s \in SetsOf(W, n)
    PROVE  /\ AppendSet(l, s).offset = l.offset
           /\ Len(AppendSet(l, s).history) = Least(Len(l.history) + 1, MaxHistory)
           /\ l.idx >= 1 =>
                AppendSet(l, s).idx = Greatest(l.idx - MinusToZero(Len(l.history) + 1, MaxHistory), 1)
    <1>1. AppendSet(l, s) = Prune(Appended(l, s))
          BY DEF AppendSet, Appended
    <1>2. QED  BY <1>1, AppendedType, PruneShape

\* A replaced tail ends at its cursor, so the layout is complete.
LEMMA ReplaceTailShape ==
    ASSUME NEW W, NEW n \in Nat \ {0}, NEW l \in LayoutsOf(W, n), NEW s \in SetsOf(W, n)
    PROVE  /\ Complete(ReplaceTail(l, s), n) /\ Normal(ReplaceTail(l, s))
           /\ Len(ReplaceTail(l, s).history) = Least(Least(l.idx, Len(l.history)) + 1, MaxHistory)
           /\ ReplaceTail(l, s).idx = Len(ReplaceTail(l, s).history)
           /\ ReplaceTail(l, s).offset = 0
    <1> DEFINE at   == Least(l.idx, Len(l.history))
               kept == SubSeq(l.history, 1, at)
               r    == [history |-> Append(kept, s), idx |-> Len(kept) + 1, offset |-> 0]
               len  == Least(at + 1, MaxHistory)
    <1>1. l.history \in Seq(SetsOf(W, n)) /\ l.idx \in Nat /\ MaxHistory \in Nat \ {0}
          BY MaxHistoryAssumption DEF LayoutsOf
    <1>2. at \in 0..Len(l.history) /\ at \in Nat
          BY <1>1, LenProperties DEF Least
    <1>3. kept \in Seq(SetsOf(W, n)) /\ Len(kept) = at
          BY <1>1, <1>2, SubSeqType
    <1>4. ReplaceTail(l, s) = Prune(r)
          BY DEF ReplaceTail
    <1> HIDE DEF at, kept
    <1>5. r \in LayoutsOf(W, n) /\ Len(r.history) = at + 1 /\ r.idx = at + 1 /\ r.offset = 0
          BY <1>2, <1>3 DEF LayoutsOf
    <1> HIDE DEF r
    <1>6. /\ Prune(r).offset = 0 /\ Len(Prune(r).history) = len
          /\ Prune(r).idx = Greatest(at + 1 - MinusToZero(at + 1, MaxHistory), 1)
      <2>1. r.idx >= 1
            BY <1>2, <1>5
      <2>2. /\ Prune(r).offset = r.offset
            /\ Len(Prune(r).history) = Least(Len(r.history), MaxHistory)
            /\ Prune(r).idx = Greatest(r.idx - MinusToZero(Len(r.history), MaxHistory), 1)
            BY <2>1, <1>5, PruneShape
      <2>3. /\ Least(Len(r.history), MaxHistory) = len
            /\ r.idx - MinusToZero(Len(r.history), MaxHistory)
                 = at + 1 - MinusToZero(at + 1, MaxHistory)
            BY <1>1, <1>2, <1>5 DEF Least, MinusToZero, Greatest
      <2>4. QED  BY <2>2, <2>3, <1>5
    <1>7. Greatest(at + 1 - MinusToZero(at + 1, MaxHistory), 1) = len /\ len \in Nat \ {0}
          BY <1>1, <1>2 DEF Greatest, MinusToZero, Least
    <1> HIDE DEF len
    <1>8. Complete(Prune(r), n)
      <2>1. WindowStart(Prune(r), n) = (len - 1) * n
            BY <1>6, <1>7 DEF WindowStart, MinusToZero, Greatest
      <2>2. len * n = (len - 1) * n + n
            BY <1>7
      <2>3. (len - 1) * n \in Nat /\ len * n \in Nat
            BY <1>7
      <2>4. QED  BY <2>1, <2>2, <2>3, <1>6 DEF Complete
    <1>9. QED  BY <1>4, <1>6, <1>7, <1>8 DEF Normal, at, len

\* In a complete layout the cursor is on the tape.
LEMMA CompleteCursor ==
    ASSUME NEW W, NEW n \in Nat \ {0}, NEW l \in LayoutsOf(W, n), Complete(l, n)
    PROVE  l.idx <= Len(l.history) /\ Len(l.history) >= 1
    <1>1. l.history \in Seq(SetsOf(W, n)) /\ l.idx \in Nat /\ l.offset \in 0..(n - 1) /\ Len(l.history) \in Nat
          BY LenProperties DEF LayoutsOf
    <1>2. MinusToZero(l.idx, 1) \in Nat /\ l.idx <= MinusToZero(l.idx, 1) + 1
          BY <1>1 DEF MinusToZero, Greatest
    <1>3. Len(l.history) * n >= MinusToZero(l.idx, 1) * n + l.offset + n
          BY DEF Complete, WindowStart
    <1>4. Len(l.history) >= MinusToZero(l.idx, 1) + 1
          BY <1>1, <1>2, <1>3, CompleteReaches
    <1>5. QED  BY <1>1, <1>2, <1>4

LEMMA TapeReaches ==
    ASSUME NEW n \in Nat \ {0}, NEW len \in Nat, NEW i \in Nat \ {0}, NEW off \in 0..(n - 1), len >= i + 1
    PROVE  len * n >= (i - 1) * n + off + n
    <1>1. \A a, b \in Nat : a <= b => a * n <= b * n
          OBVIOUS
    <1>2. (i + 1) * n <= len * n
          BY <1>1
    <1>3. (i + 1) * n = i * n + n /\ (i - 1) * n = i * n - n
          OBVIOUS
    <1>4. len * n \in Nat /\ i * n \in Nat
          OBVIOUS
    <1>5. QED  BY <1>2, <1>3, <1>4

\* A layout that ensure_window extends has its cursor at the end of the tape or
\* behind it.
LEMMA IncompleteCursor ==
    ASSUME NEW W, NEW n \in Nat \ {0}, NEW l \in LayoutsOf(W, n), l.idx >= 1, ~Complete(l, n)
    PROVE  Len(l.history) <= l.idx
    <1>1. l.idx \in Nat /\ l.offset \in 0..(n - 1) /\ Len(l.history) \in Nat
          BY LenProperties DEF LayoutsOf
    <1> DEFINE len == Len(l.history)
               i   == l.idx
    <1>2. SUFFICES ASSUME len >= i + 1
                   PROVE  FALSE
          BY <1>1
    <1>3. MinusToZero(i, 1) = i - 1
          BY <1>1 DEF MinusToZero, Greatest
    <1>4. len \in Nat /\ i \in Nat \ {0} /\ l.offset \in 0..(n - 1)
          BY <1>1
    <1> HIDE DEF len, i
    <1>5. len * n >= (i - 1) * n + l.offset + n
          BY <1>2, <1>4, TapeReaches
    <1>6. QED  BY <1>1, <1>3, <1>5 DEF len, i, Complete, WindowStart
-----------------------------------------------------------------------------
(* The bag. *)

LEMMA CoreType ==
    ASSUME NEW W, NEW lib \in SUBSET W, NEW favs \in SUBSET W, NEW bag \in Seq(W), NEW pos \in Nat
    PROVE  [lib |-> lib, favs |-> favs, bag |-> bag, pos |-> pos] \in Cores(W)
    BY DEF Cores

LEMMA FunctionIsSeq ==
    ASSUME NEW S, NEW n \in Nat, NEW f \in [1..n -> S]
    PROVE  f \in Seq(S)
    BY SeqDef

\* The walls kept of a bag are again a sequence of walls.
LEMMA RetainedType ==
    ASSUME NEW W, NEW s \in Seq(W), NEW S
    PROVE  Retained(s, S) \subseteq Seq(W)
    <1> DEFINE kept == {i \in DOMAIN s : s[i] \in S}
    <1>1. kept \subseteq 1..Len(s) /\ Len(s) \in Nat
          BY LenProperties
    <1>2. IsFiniteSet(kept)
          BY <1>1, FS_Interval, FS_Subset
    <1>3. Cardinality(kept) \in Nat
          BY <1>2, FS_CardinalityType
    <1>4. \A i \in kept : s[i] \in W
          BY <1>1, ElementOfSeq
    <1>5. ASSUME NEW f \in [1..Cardinality(kept) -> kept]
          PROVE  [j \in DOMAIN f |-> s[f[j]]] \in Seq(W)
      <2>1. [j \in DOMAIN f |-> s[f[j]]] \in [1..Cardinality(kept) -> W]
            BY <1>4, <1>5
      <2>2. QED  BY <2>1, <1>3, FunctionIsSeq
    <1>6. QED  BY <1>5 DEF Retained

\* An order of a finite set is a sequence of its elements.
LEMMA OrdersType ==
    ASSUME NEW W, IsFiniteSet(W), NEW S \in SUBSET W
    PROVE  Orders(S) \subseteq Seq(W)
    <1>1. Cardinality(S) \in Nat
          BY FS_Subset, FS_CardinalityType
    <1>2. \A s \in [1..Cardinality(S) -> S] : s \in Seq(S)
          BY <1>1, FunctionIsSeq
    <1>3. QED  BY <1>2, SeqMonotonic DEF Orders

\* A rebuilt bag holds walls of the library.
LEMMA RebuiltType ==
    ASSUME NEW W, IsFiniteSet(W), NEW c \in Cores(W), NEW F
    PROVE  Rebuilt(c, F) \subseteq Cores(W)
    <1> DEFINE favs == c.favs \cap c.lib \cap F
               size == Cardinality(c.lib) + (FavoriteWeight - 1) * Cardinality(c.lib \cap c.favs)
    <1>1. c.lib \in SUBSET W /\ favs \in SUBSET W
          BY DEF Cores
    <1>2. \A T \in SUBSET W : Cardinality(T) \in Nat
          BY FS_Subset, FS_CardinalityType
    <1>3. \A T \in SUBSET W : FullBags(c.lib, T) \subseteq Seq(W)
      <2> SUFFICES ASSUME NEW T \in SUBSET W, NEW b \in FullBags(c.lib, T)
                   PROVE  b \in Seq(W)
          OBVIOUS
      <2> DEFINE n == Cardinality(c.lib) + (FavoriteWeight - 1) * Cardinality(c.lib \cap T)
      <2>1. Cardinality(c.lib) \in Nat /\ Cardinality(c.lib \cap T) \in Nat
        <3>1. c.lib \cap T \in SUBSET W
              BY <1>1
        <3>2. QED  BY <3>1, <1>1, <1>2
      <2>2. n \in Nat
        <3>1. FavoriteWeight - 1 \in Nat
              BY FavoriteWeightAssumption
        <3>2. \A a, b1, c1 \in Nat : a + b1 * c1 \in Nat
              OBVIOUS
        <3>3. QED  BY <3>1, <3>2, <2>1
      <2>3. b \in [1..n -> c.lib]
            BY DEF FullBags
      <2> HIDE DEF n
      <2>4. b \in Seq(c.lib)
            BY <2>2, <2>3, FunctionIsSeq
      <2>5. QED  BY <2>4, <1>1, SeqMonotonic
    <1>4. QED  BY <1>1, <1>3 DEF Rebuilt, Cores

\* A rescan keeps the types of a core.
LEMMA RescannedType ==
    ASSUME NEW W, IsFiniteSet(W), NEW c \in Cores(W), NEW F \in SUBSET W
    PROVE  Rescanned(c, F) \subseteq Cores(W)
    <1> DEFINE Merge(kept, added) ==
                 [lib |-> F, favs |-> c.favs \cap F, bag |-> kept \o added,
                  pos |-> IF c.pos > Len(kept) THEN Len(kept) ELSE c.pos]
               merged == {Merge(kept, added) :
                              kept \in Retained(c.bag, F), added \in Orders(F \ c.lib)}
    <1>1. ASSUME NEW kept \in Retained(c.bag, F), NEW added \in Orders(F \ c.lib)
          PROVE  Merge(kept, added) \in Cores(W)
      <2>1. c.bag \in Seq(W) /\ c.pos \in Nat /\ c.favs \in SUBSET W
            BY DEF Cores
      <2>2. kept \in Seq(W)
            BY <2>1, RetainedType
      <2>3. added \in Seq(W)
        <3>1. F \ c.lib \in SUBSET W
              OBVIOUS
        <3>2. QED  BY <3>1, OrdersType
      <2>4. kept \o added \in Seq(W) /\ Len(kept) \in Nat
            BY <2>2, <2>3, ConcatProperties, LenProperties
      <2>5. (IF c.pos > Len(kept) THEN Len(kept) ELSE c.pos) \in Nat
            BY <2>1, <2>4
      <2>6. c.favs \cap F \in SUBSET W
            BY <2>1
      <2>7. QED  BY <2>4, <2>5, <2>6, CoreType
    <1> HIDE DEF Merge
    <1>5. merged \subseteq Cores(W)
      <2>1. \A kept \in Retained(c.bag, F), added \in Orders(F \ c.lib) : Merge(kept, added) \in Cores(W)
            BY <1>1
      <2>2. QED  BY <2>1
    <1>2. \A m \in merged : Rebuilt(m, F) \subseteq Cores(W)
          BY <1>5, RebuiltType
    <1> HIDE DEF merged
    <1>3. \A m \in merged : (IF m.bag = <<>> /\ m.lib # {} THEN Rebuilt(m, F) ELSE {m}) \subseteq Cores(W)
          BY <1>5, <1>2
    <1>4. Rescanned(c, F) = UNION {IF m.bag = <<>> /\ m.lib # {} THEN Rebuilt(m, F) ELSE {m} : m \in merged}
          BY DEF Rescanned, merged, Merge
    <1>6. QED  BY <1>3, <1>4

\* Adding a wall and forgetting one keep the types of a core.
LEMMA AddedType ==
    ASSUME NEW W, NEW c \in Cores(W), NEW w \in W
    PROVE  Added(c, w) \in Cores(W)
    <1>1. c.lib \cup {w} \in SUBSET W /\ c.favs \in SUBSET W /\ c.bag \in Seq(W) /\ c.pos \in Nat
          BY DEF Cores
    <1>2. Append(c.bag, w) \in Seq(W)
          BY <1>1
    <1> DEFINE lib == c.lib \cup {w}
               bag == Append(c.bag, w)
    <1>3. Added(c, w) = [c EXCEPT !.lib = lib, !.bag = bag]
          BY DEF Added
    <1> HIDE DEF lib, bag
    <1>4. \A x \in SUBSET W, y \in Seq(W) : [c EXCEPT !.lib = x, !.bag = y] \in Cores(W)
          BY DEF Cores
    <1>5. QED  BY <1>1, <1>2, <1>3, <1>4 DEF lib, bag

LEMMA WithoutType ==
    ASSUME NEW W, NEW c \in Cores(W), NEW w
    PROVE  Without(c, w) \subseteq Cores(W)
    <1>1. c.bag \in Seq(W)
          BY DEF Cores
    <1>2. \A S : Retained(c.bag, S) \subseteq Seq(W)
          BY <1>1, RetainedType
    <1>3. c.lib \ {w} \in SUBSET W /\ c.favs \ {w} \in SUBSET W /\ c.pos \in Nat
          BY DEF Cores
    <1>4. \A b \in Seq(W) : [lib |-> c.lib \ {w}, favs |-> c.favs \ {w}, bag |-> b, pos |-> c.pos] \in Cores(W)
          BY <1>3, CoreType
    <1>5. QED  BY <1>2, <1>4 DEF Without

-----------------------------------------------------------------------------
(***************************************************************************)
(* Counting.  The weight of a wall in the bag is the number of its copies, *)
(* so the operators that edit the bag are characterised by what they do to *)
(* Copies.                                                                 *)
(***************************************************************************)

\* A one-to-one correspondence preserves the number of elements.
LEMMA SameSize ==
    ASSUME NEW S, NEW T, IsFiniteSet(S), NEW f \in [S -> T],
           \A a, b \in S : f[a] = f[b] => a = b,
           \A t \in T : \E a \in S : f[a] = t
    PROVE  Cardinality(T) = Cardinality(S)
    <1>1. f \in Bijection(S, T)
          BY Fun_IsBij
    <1>2. ExistsBijection(S, T)
          BY <1>1, Fun_ExistsBij
    <1>3. QED  BY <1>2, FS_Bijection

\* Numbering a finite set without repetition reaches every element.
LEMMA NumberingIsFull ==
    ASSUME NEW T, IsFiniteSet(T), NEW f \in [1..Cardinality(T) -> T],
           \A a, b \in 1..Cardinality(T) : f[a] = f[b] => a = b
    PROVE  \A t \in T : \E a \in 1..Cardinality(T) : f[a] = t
    <1> DEFINE S == 1..Cardinality(T)
    <1>1. f \in Injection(S, T)
          BY Fun_IsInj
    <1>2. Cardinality(T) \in Nat
          BY FS_CardinalityType
    <1>3. Cardinality(S) = Cardinality(T)
          BY <1>2, FS_Interval
    <1> HIDE DEF S
    <1>4. f \in Surjection(S, T)
          BY <1>1, <1>3, FS_Injection
    <1>5. \A t \in T : \E a \in S : f[a] = t
          BY <1>4, Fun_SurjectionProperties
    <1>6. QED  BY <1>5 DEF S

LEMMA CopiesType ==
    ASSUME NEW W, NEW s \in Seq(W), NEW w
    PROVE  /\ IsFiniteSet({i \in DOMAIN s : s[i] = w}) /\ Copies(s, w) \in Nat
           /\ (\A i \in DOMAIN s : s[i] # w) => Copies(s, w) = 0
    <1>1. DOMAIN s = 1..Len(s) /\ Len(s) \in Nat
          BY LenProperties
    <1>2. IsFiniteSet({i \in DOMAIN s : s[i] = w})
      <2>1. {i \in DOMAIN s : s[i] = w} \in SUBSET (1..Len(s))
            BY <1>1
      <2>2. IsFiniteSet(1..Len(s))
            BY <1>1, FS_Interval
      <2>3. QED  BY <2>1, <2>2, FS_Subset
    <1>3. (\A i \in DOMAIN s : s[i] # w) => {i \in DOMAIN s : s[i] = w} = {}
          OBVIOUS
    <1>4. QED  BY <1>2, <1>3, FS_CardinalityType, FS_EmptySet DEF Copies

LEMMA CopiesAppend ==
    ASSUME NEW W, NEW s \in Seq(W), NEW x \in W, NEW w
    PROVE  Copies(Append(s, x), w) = Copies(s, w) + IF x = w THEN 1 ELSE 0
    <1> DEFINE t == Append(s, x)
               A == {i \in DOMAIN s : s[i] = w}
               B == {i \in DOMAIN t : t[i] = w}
               n == Len(s) + 1
    <1>1. /\ DOMAIN s = 1..Len(s) /\ Len(s) \in Nat /\ DOMAIN t = 1..n
          /\ t[n] = x /\ \A i \in 1..Len(s) : t[i] = s[i]
          BY LenProperties, AppendProperties
    <1>2. IsFiniteSet(A) /\ Cardinality(A) \in Nat
          BY CopiesType DEF Copies
    <1>3. n \notin A
          BY <1>1
    <1>4. CASE x = w
      <2>1. B = A \cup {n}
            BY <1>1, <1>4
      <2> HIDE DEF A, B, n
      <2>2. Cardinality(B) = Cardinality(A) + 1
            BY <1>2, <1>3, <2>1, FS_AddElement
      <2>3. QED  BY <1>4, <2>2 DEF Copies, A, B
    <1>5. CASE x # w
      <2>1. B = A
            BY <1>1, <1>5
      <2>2. Copies(t, w) = Copies(s, w) /\ Copies(s, w) \in Nat
            BY <1>2, <2>1 DEF Copies
      <2>3. QED  BY <1>5, <2>2
    <1>6. QED  BY <1>4, <1>5

LEMMA CopiesConcat ==
    ASSUME NEW W, NEW s \in Seq(W), NEW t \in Seq(W), NEW w
    PROVE  Copies(s \o t, w) = Copies(s, w) + Copies(t, w)
    <1> DEFINE u == s \o t
               A == {i \in DOMAIN s : s[i] = w}
               B == {i \in DOMAIN t : t[i] = w}
               C == {i \in DOMAIN u : u[i] = w}
               D == {i \in C : i > Len(s)}
    <1>1. /\ DOMAIN s = 1..Len(s) /\ Len(s) \in Nat /\ DOMAIN t = 1..Len(t) /\ Len(t) \in Nat
          /\ u \in Seq(W) /\ DOMAIN u = 1..(Len(s) + Len(t))
          /\ \A i \in 1..Len(s) : u[i] = s[i]
          /\ \A i \in 1..Len(t) : u[Len(s) + i] = t[i]
          BY LenProperties, ConcatProperties
    <1>2. /\ IsFiniteSet(A) /\ IsFiniteSet(B) /\ IsFiniteSet(C)
          /\ Cardinality(A) \in Nat /\ Cardinality(B) \in Nat
          BY <1>1, CopiesType DEF Copies
    <1>3. C = A \cup D
          BY <1>1
    <1>4. A \cap D = {}
          BY <1>1
    <1>5. Cardinality(D) = Cardinality(B)
      <2> DEFINE f == [i \in B |-> Len(s) + i]
      <2>1. \A i \in B : Len(s) + i \in D
            BY <1>1
      <2>2. f \in [B -> D]
            BY <2>1
      <2>3. \A i, j \in B : f[i] = f[j] => i = j
            BY <1>1
      <2>4. \A d \in D : d - Len(s) \in B /\ f[d - Len(s)] = d
        <3>1. SUFFICES ASSUME NEW d \in D
                       PROVE  d - Len(s) \in B /\ f[d - Len(s)] = d
              OBVIOUS
        <3>2. d - Len(s) \in 1..Len(t) /\ Len(s) + (d - Len(s)) = d /\ u[d] = w
              BY <1>1
        <3>3. d - Len(s) \in B
              BY <1>1, <3>2
        <3>4. QED  BY <3>2, <3>3
      <2>5. \A d \in D : \E i \in B : f[i] = d
            BY <2>4
      <2> HIDE DEF f, B, D
      <2>6. QED  BY <1>2, <2>2, <2>3, <2>5, SameSize
    <1>6. IsFiniteSet(D)
          BY <1>2, FS_Subset
    <1> HIDE DEF A, B, C, D, u
    <1>7. Cardinality(C) = Cardinality(A) + Cardinality(D) - Cardinality({})
          BY <1>2, <1>3, <1>4, <1>6, FS_Union
    <1>8. Cardinality(C) = Cardinality(A) + Cardinality(B)
          BY <1>2, <1>5, <1>7, FS_EmptySet
    <1>9. QED  BY <1>8 DEF A, B, C, u, Copies

\* What is retained of a bag are its walls in S, each as often as before.
LEMMA CopiesRetained ==
    ASSUME NEW W, NEW s \in Seq(W), NEW S, NEW r \in Retained(s, S)
    PROVE  /\ \A i \in DOMAIN r : r[i] \in S /\ \E j \in DOMAIN s : r[i] = s[j]
           /\ \A w \in S : Copies(r, w) = Copies(s, w)
    <1> DEFINE kept == {i \in DOMAIN s : s[i] \in S}
               n    == Cardinality(kept)
    <1>1. PICK f \in [1..n -> kept] :
              /\ \A i, j \in DOMAIN f : i < j => f[i] < f[j]
              /\ r = [j \in DOMAIN f |-> s[f[j]]]
          BY DEF Retained
    <1>2. DOMAIN s = 1..Len(s) /\ Len(s) \in Nat /\ kept \subseteq 1..Len(s)
          BY LenProperties
    <1>3. IsFiniteSet(kept) /\ n \in Nat
      <2>1. IsFiniteSet(1..Len(s))
            BY <1>2, FS_Interval
      <2>2. IsFiniteSet(kept)
            BY <1>2, <2>1, FS_Subset
      <2> HIDE DEF kept
      <2>3. QED  BY <2>2, FS_CardinalityType
    <1> HIDE DEF n
    <1>4. DOMAIN f = 1..n /\ DOMAIN r = 1..n /\ \A i \in 1..n : f[i] \in kept /\ f[i] \in Nat /\ r[i] = s[f[i]]
          BY <1>1, <1>2
    <1>5. \A i \in DOMAIN r : r[i] \in S /\ \E j \in DOMAIN s : r[i] = s[j]
          BY <1>4
    <1>6. \A i, j \in 1..n : f[i] = f[j] => i = j
      <2>1. SUFFICES ASSUME NEW i \in 1..n, NEW j \in 1..n, i < j
                     PROVE  f[i] # f[j]
            BY <1>3
      <2>2. f[i] < f[j]
            BY <1>1, <1>4, <2>1
      <2>3. QED  BY <1>4, <2>2
    <1>7. \A k \in kept : \E i \in 1..n : f[i] = k
      <2> HIDE DEF kept
      <2>1. QED  BY <1>3, <1>6, NumberingIsFull DEF n
    <1>8. ASSUME NEW w \in S
          PROVE  Copies(r, w) = Copies(s, w)
      <2> DEFINE A == {i \in DOMAIN r : r[i] = w}
                 B == {i \in DOMAIN s : s[i] = w}
                 g == [i \in A |-> f[i]]
      <2>1. \A i \in A : f[i] \in B
            BY <1>4
      <2>2. g \in [A -> B]
            BY <2>1
      <2>3. \A i, j \in A : g[i] = g[j] => i = j
            BY <1>4, <1>6
      <2>4. \A b \in B : \E i \in A : g[i] = b
            BY <1>4, <1>7, <1>8
      <2>5. IsFiniteSet(A)
        <3>1. A \in SUBSET (1..n)
              BY <1>4
        <3>2. IsFiniteSet(1..n)
              BY <1>3, FS_Interval
        <3>3. QED  BY <3>1, <3>2, FS_Subset
      <2> HIDE DEF A, B, g
      <2>6. Cardinality(B) = Cardinality(A)
            BY <2>2, <2>3, <2>4, <2>5, SameSize
      <2>7. QED  BY <2>6 DEF A, B, Copies
    <1>9. QED  BY <1>5, <1>8

\* An order of a finite set holds each element once.
LEMMA CopiesOrders ==
    ASSUME NEW S, IsFiniteSet(S), NEW s \in Orders(S)
    PROVE  /\ \A i \in DOMAIN s : s[i] \in S
           /\ \A w \in S : Copies(s, w) = 1
    <1>1. /\ s \in [1..Cardinality(S) -> S]
          /\ \A i, j \in 1..Cardinality(S) : s[i] = s[j] => i = j
          BY DEF Orders
    <1>2. \A w \in S : \E i \in 1..Cardinality(S) : s[i] = w
          BY <1>1, NumberingIsFull
    <1>3. ASSUME NEW w \in S
          PROVE  Copies(s, w) = 1
      <2>1. PICK i \in DOMAIN s : s[i] = w
            BY <1>1, <1>2
      <2>2. {j \in DOMAIN s : s[j] = w} = {i}
            BY <1>1, <2>1
      <2>3. QED  BY <2>2, FS_Singleton DEF Copies
    <1>4. QED  BY <1>1, <1>3

-----------------------------------------------------------------------------
(***************************************************************************)
(* The bag fits the library: it holds every wall of the library exactly as *)
(* often as its weight and nothing else, and the favourites are walls of   *)
(* the library.  Every operator on cores keeps this.                       *)
(***************************************************************************)
Fits(c) ==
    /\ \A i \in DOMAIN c.bag : c.bag[i] \in c.lib
    /\ \A w \in c.lib : Copies(c.bag, w) = Weight(w, c.favs)
    /\ c.favs \subseteq c.lib

LEMMA EmptyFits == Fits(EmptyCore)
    BY DEF Fits, EmptyCore

\* A rebuilt bag fits whatever was in memory before.
LEMMA RebuiltFits ==
    ASSUME NEW c, NEW F, NEW d \in Rebuilt(c, F)
    PROVE  Fits(d)
    <1> DEFINE favs == c.favs \cap c.lib \cap F
               size == Cardinality(c.lib) + (FavoriteWeight - 1) * Cardinality(c.lib \cap favs)
    <1>1. PICK b \in FullBags(c.lib, favs) : d = [lib |-> c.lib, favs |-> favs, bag |-> b, pos |-> 0]
          BY DEF Rebuilt
    <1>2. b \in [1..size -> c.lib] /\ \A w \in c.lib : Copies(b, w) = Weight(w, favs)
          BY DEF FullBags
    <1>3. d.lib = c.lib /\ d.favs = favs /\ d.bag = b
          BY <1>1
    <1> HIDE DEF size
    <1>4. QED  BY <1>2, <1>3 DEF Fits

\* A rescan keeps the copies of the walls it finds again and adds one of each
\* new wall; a wall that is gone takes its copies and its mark with it.
LEMMA RescannedFits ==
    ASSUME NEW W, IsFiniteSet(W), NEW c \in Cores(W), Fits(c), NEW F \in SUBSET W, NEW d \in Rescanned(c, F)
    PROVE  Fits(d)
    <1> DEFINE Merge(k, a) ==
                 [lib |-> F, favs |-> c.favs \cap F, bag |-> k \o a,
                  pos |-> IF c.pos > Len(k) THEN Len(k) ELSE c.pos]
               merged == {Merge(k, a) : k \in Retained(c.bag, F), a \in Orders(F \ c.lib)}
    <1>1. ASSUME NEW kept \in Retained(c.bag, F), NEW added \in Orders(F \ c.lib)
          PROVE  Fits(Merge(kept, added))
      <2> DEFINE m == Merge(kept, added)
      <2>1. c.bag \in Seq(W) /\ F \ c.lib \in SUBSET W
            BY DEF Cores
      <2>2. IsFiniteSet(F \ c.lib)
            BY <2>1, FS_Subset
      <2>3. kept \in Seq(W) /\ added \in Seq(W)
            BY <2>1, RetainedType, OrdersType
      <2>4. \A i \in DOMAIN kept : kept[i] \in F \cap c.lib
            BY <2>1, CopiesRetained DEF Fits
      <2>5. \A i \in DOMAIN added : added[i] \in F \ c.lib
            BY <2>2, CopiesOrders
      <2>6. \A i \in DOMAIN m.bag : m.bag[i] \in m.lib
        <3>1. m.bag = kept \o added /\ m.lib = F
              OBVIOUS
        <3>2. /\ DOMAIN kept = 1..Len(kept) /\ DOMAIN added = 1..Len(added)
              /\ Len(kept) \in Nat /\ Len(added) \in Nat
              /\ DOMAIN (kept \o added) = 1..(Len(kept) + Len(added))
              /\ \A i \in 1..(Len(kept) + Len(added)) :
                     (kept \o added)[i] = IF i <= Len(kept) THEN kept[i] ELSE added[i - Len(kept)]
              BY <2>3, LenProperties, ConcatProperties
        <3>3. ASSUME NEW i \in 1..(Len(kept) + Len(added))
              PROVE  (kept \o added)[i] \in F
          <4>1. CASE i <= Len(kept)
            <5>1. i \in 1..Len(kept)
                  BY <3>2, <4>1
            <5>2. QED  BY <2>4, <3>2, <4>1, <5>1
          <4>2. CASE ~(i <= Len(kept))
            <5>1. i - Len(kept) \in 1..Len(added)
                  BY <3>2, <4>2
            <5>2. QED  BY <2>5, <3>2, <4>2, <5>1
          <4>3. QED  BY <4>1, <4>2
        <3>4. QED  BY <3>1, <3>2, <3>3
      <2>7. ASSUME NEW w \in F
            PROVE  Copies(kept \o added, w) = Weight(w, c.favs \cap F)
        <3>1. Copies(kept \o added, w) = Copies(kept, w) + Copies(added, w)
              BY <2>3, CopiesConcat
        <3>2. Weight(w, c.favs \cap F) = Weight(w, c.favs)
              BY DEF Weight
        <3>3. CASE w \in c.lib
          <4>1. Copies(kept, w) = Weight(w, c.favs)
                BY <2>1, <3>3, CopiesRetained DEF Fits
          <4>2. Copies(added, w) = 0
                BY <2>3, <2>5, <3>3, CopiesType
          <4>3. Copies(kept, w) \in Nat
                BY <2>3, CopiesType
          <4>4. QED  BY <3>1, <3>2, <4>1, <4>2, <4>3
        <3>4. CASE w \notin c.lib
          <4>1. Copies(kept, w) = 0
                BY <2>3, <2>4, <3>4, CopiesType, ZenonT(60)
          <4>2. Copies(added, w) = 1
                BY <2>2, <3>4, CopiesOrders
          <4>3. Weight(w, c.favs) = 1
                BY <3>4 DEF Weight, Fits
          <4>4. QED  BY <3>1, <3>2, <4>1, <4>2, <4>3
        <3>5. QED  BY <3>3, <3>4
      <2>8. QED  BY <2>6, <2>7 DEF Fits
    <1> HIDE DEF Merge
    <1>2. \A m \in merged : Fits(m)
      <2>1. \A kept \in Retained(c.bag, F), added \in Orders(F \ c.lib) : Fits(Merge(kept, added))
            BY <1>1
      <2>2. QED  BY <2>1
    <1>3. \A m \in merged : \A x \in Rebuilt(m, F) : Fits(x)
          BY RebuiltFits
    <1> HIDE DEF merged
    <1>4. Rescanned(c, F) = UNION {IF m.bag = <<>> /\ m.lib # {} THEN Rebuilt(m, F) ELSE {m} : m \in merged}
          BY DEF Rescanned, merged, Merge
    <1>5. QED  BY <1>2, <1>3, <1>4

LEMMA AddedFits ==
    ASSUME NEW W, NEW c \in Cores(W), Fits(c), NEW w \in W \ c.lib
    PROVE  Fits(Added(c, w))
    <1> DEFINE d == Added(c, w)
    <1>1. c.bag \in Seq(W) /\ d.lib = c.lib \cup {w} /\ d.favs = c.favs /\ d.bag = Append(c.bag, w)
          BY DEF Cores, Added
    <1> HIDE DEF d
    <1>2. /\ DOMAIN c.bag = 1..Len(c.bag) /\ Len(c.bag) \in Nat
          /\ DOMAIN d.bag = 1..(Len(c.bag) + 1) /\ d.bag[Len(c.bag) + 1] = w
          /\ \A i \in 1..Len(c.bag) : d.bag[i] = c.bag[i]
          BY <1>1, LenProperties, AppendProperties
    <1>3. \A i \in DOMAIN d.bag : d.bag[i] \in d.lib
          BY <1>1, <1>2 DEF Fits
    <1>4. ASSUME NEW x \in d.lib
          PROVE  Copies(d.bag, x) = Weight(x, d.favs)
      <2>1. Copies(d.bag, x) = Copies(c.bag, x) + IF w = x THEN 1 ELSE 0
            BY <1>1, CopiesAppend
      <2>2. Copies(c.bag, x) \in Nat
            BY <1>1, CopiesType
      <2>3. CASE x = w
        <3>1. Copies(c.bag, x) = 0
              BY <1>1, <2>3, CopiesType DEF Fits
        <3>2. QED  BY <1>1, <2>1, <2>3, <3>1 DEF Weight, Fits
      <2>4. CASE x # w
        <3>1. Copies(c.bag, x) = Weight(x, c.favs)
              BY <1>1, <1>4, <2>4 DEF Fits
        <3>2. QED  BY <1>1, <2>1, <2>2, <2>4, <3>1
      <2>5. QED  BY <2>3, <2>4
    <1>5. QED  BY <1>1, <1>3, <1>4 DEF Fits, d

LEMMA WithoutFits ==
    ASSUME NEW W, NEW c \in Cores(W), Fits(c), NEW w, NEW d \in Without(c, w)
    PROVE  Fits(d)
    <1> DEFINE S == {c.bag[i] : i \in DOMAIN c.bag} \ {w}
    <1>1. PICK b \in Retained(c.bag, S) :
              d = [lib |-> c.lib \ {w}, favs |-> c.favs \ {w}, bag |-> b, pos |-> c.pos]
          BY DEF Without
    <1>2. c.bag \in Seq(W)
          BY DEF Cores
    <1>3. /\ \A i \in DOMAIN b : b[i] \in S /\ \E j \in DOMAIN c.bag : b[i] = c.bag[j]
          /\ \A x \in S : Copies(b, x) = Copies(c.bag, x)
          BY <1>2, CopiesRetained
    <1>4. d.lib = c.lib \ {w} /\ d.favs = c.favs \ {w} /\ d.bag = b
          BY <1>1
    <1>5. \A i \in DOMAIN b : b[i] \in c.lib \ {w}
          BY <1>3 DEF Fits
    <1>6. ASSUME NEW x \in c.lib \ {w}
          PROVE  Copies(b, x) = Weight(x, c.favs \ {w})
      <2>1. Copies(c.bag, x) = Weight(x, c.favs) /\ Weight(x, c.favs \ {w}) = Weight(x, c.favs)
            BY DEF Fits, Weight
      <2>2. CASE x \in S
            BY <1>3, <2>1, <2>2
      <2>3. CASE x \notin S
        <3>1. (\A i \in DOMAIN c.bag : c.bag[i] # x) /\ (\A i \in DOMAIN b : b[i] # x)
              BY <1>3, <2>3
        <3>2. b \in Seq(W)
              BY <1>2, RetainedType
        <3>3. Copies(c.bag, x) = 0 /\ Copies(b, x) = 0
              BY <1>2, <3>1, <3>2, CopiesType
        <3>4. QED  BY <2>1, <3>3
      <2>4. QED  BY <2>2, <2>3
    <1>7. QED  BY <1>4, <1>5, <1>6 DEF Fits
================================================================================
