--------------------------- MODULE RenderTransaction ---------------------------
(***************************************************************************)
(* What the supervisor promises about wallpaper actions, without saying    *)
(* how (docs/render-supervisor-plan.md, Transaction rule): the current     *)
(* walls of a set of outputs change only to walls that the renderer has    *)
(* accepted for those outputs, and every acceptance is committed before    *)
(* the renderer is asked again.  An offer is a record of a set of outputs  *)
(* and their walls; offer and shown hold at most one.                      *)
(***************************************************************************)
CONSTANTS Keys,        \* sets of active outputs
          Selections   \* the walls a request may offer, one per output

VARIABLES current,     \* the walls each set of outputs is to show
          shown,       \* the offer accepted last
          offer        \* accepted and not yet committed

vars == <<current, shown, offer>>

Init ==
    /\ current = [k \in Keys |-> <<>>]
    /\ shown = {}
    /\ offer = {}

\* The renderer accepts the walls w for the outputs k.
Accept(k, w) ==
    /\ offer = {}
    /\ offer' = {[key |-> k, walls |-> w]}
    /\ shown' = {[key |-> k, walls |-> w]}
    /\ UNCHANGED current

Commit ==
    \E o \in offer :
        /\ current' = [current EXCEPT ![o.key] = o.walls]
        /\ offer' = {}
        /\ UNCHANGED shown

Next == Commit \/ \E k \in Keys, w \in Selections : Accept(k, w)

Spec == Init /\ [][Next]_vars
=============================================================================
