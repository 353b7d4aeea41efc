------------------------------ MODULE LayoutState ------------------------------
(***************************************************************************)
(* The layout history of one set of outputs: LayoutState in                *)
(* crates/mural-core/src/wallpaper.rs.  A layout is a tape of wallpaper    *)
(* sets, one wall per output in each set, with a one-based cursor idx and  *)
(* an offset that shifts the shown window by that many walls.  The window  *)
(* of a layout for n outputs is what those outputs show.                   *)
(***************************************************************************)
EXTENDS Integers, Sequences

CONSTANT MaxHistory   \* max_history: sets kept on the tape

ASSUME MaxHistoryAssumption == MaxHistory \in Nat \ {0}

\* Layouts for n outputs: the tape holds sets of n walls of W.
SetsOf(W, n) == {s \in Seq(W) : Len(s) = n}
LayoutsOf(W, n) == [history : Seq(SetsOf(W, n)), idx : Nat, offset : 0..(n - 1)]

EmptyLayout == [history |-> <<>>, idx |-> 0, offset |-> 0]

Least(a, b) == IF a <= b THEN a ELSE b
Greatest(a, b) == IF a >= b THEN a ELSE b
MinusToZero(a, b) == Greatest(a - b, 0)     \* usize::saturating_sub

\* What a layout directory holding the record d is read as, for n outputs.
Load(d, n) ==
    [history |-> d.history,
     idx     |-> IF d.idx < 1 /\ d.history # <<>> THEN 1 ELSE d.idx,
     offset  |-> d.offset % n]

SetAt(l, i) == IF i \in 1..Len(l.history) THEN l.history[i] ELSE <<>>

(***************************************************************************)
(* The code flattens the tape, skips (idx - 1) * n + offset walls and      *)
(* takes n.  Sets hold n walls each and offset < n, so the window is the   *)
(* end of one set and the start of the next.                               *)
(***************************************************************************)
Window(l) ==
    LET at   == SetAt(l, Greatest(l.idx, 1))
        next == SetAt(l, Greatest(l.idx, 1) + 1)
    IN  SubSeq(at, l.offset + 1, Len(at)) \o SubSeq(next, 1, Least(l.offset, Len(next)))

WindowStart(l, n) == MinusToZero(l.idx, 1) * n + l.offset

\* ensure_window has nothing to add: the tape reaches the end of the window.
Complete(l, n) == Len(l.history) * n >= WindowStart(l, n) + n

Prune_TooFar(l) ==     \* mutant: the cursor moves one set too far
    LET drop == MinusToZero(Len(l.history), MaxHistory) IN
    IF drop = 0 THEN l
    ELSE [l EXCEPT !.history = SubSeq(@, drop + 1, Len(@)),
                   !.idx = IF @ > 0 THEN Greatest(MinusToZero(@, drop + 1), 1) ELSE @]

\* Keep the newest MaxHistory sets and move the cursor with them.
Prune(l) ==
    LET drop == MinusToZero(Len(l.history), MaxHistory) IN
    IF drop = 0 THEN l
    ELSE [l EXCEPT !.history = SubSeq(@, drop + 1, Len(@)),
                   !.idx = IF @ > 0 THEN Greatest(MinusToZero(@, drop), 1) ELSE @]

AppendSet(l, s) == Prune([l EXCEPT !.history = Append(@, s)])

ReplaceTail_KeepsOffset(l, s) ==     \* mutant: the window of the new set is still shifted
    LET kept == SubSeq(l.history, 1, Least(l.idx, Len(l.history))) IN
    Prune([history |-> Append(kept, s), idx |-> Len(kept) + 1, offset |-> l.offset])

\* Forget the sets after the cursor, push s and make it the window.
ReplaceTail(l, s) ==
    LET kept == SubSeq(l.history, 1, Least(l.idx, Len(l.history))) IN
    Prune([history |-> Append(kept, s), idx |-> Len(kept) + 1, offset |-> 0])

\* The cursor moves of the four navigation actions, before the window is extended.
StepForward(l) == [l EXCEPT !.idx = Greatest(@, 1) + 1]

StepBack(l) == [l EXCEPT !.idx = IF @ > 1 THEN @ - 1 ELSE Greatest(@, 1)]

ShiftForward(l, n) ==
    IF l.offset + 1 >= n THEN [l EXCEPT !.idx = @ + 1, !.offset = 0]
    ELSE IF l.idx < 1 THEN [l EXCEPT !.idx = 1, !.offset = 0]
    ELSE [l EXCEPT !.offset = @ + 1]

ShiftBack(l, n) ==
    IF l.offset > 0 THEN [l EXCEPT !.offset = @ - 1]
    ELSE IF l.idx > 1 THEN [l EXCEPT !.idx = @ - 1, !.offset = n - 1]
    ELSE l
=============================================================================
