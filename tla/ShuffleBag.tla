------------------------------ MODULE ShuffleBag ------------------------------
(***************************************************************************)
(* The wallpaper library and its weighted shuffle bag: the core state of   *)
(* WallpaperControl in crates/mural-core/src/wallpaper.rs that the files   *)
(* library, favorites, walls and walls_idx keep.  A core holds             *)
(*   lib   the walls known to the daemon (a sorted list without            *)
(*         duplicates in the code, so a set here),                         *)
(*   favs  the favourite walls, likewise,                                  *)
(*   bag   the shuffled sequence the walls are drawn from,                 *)
(*   pos   how many of the bag have been drawn.                            *)
(* Shuffles are random in the code, so operators that shuffle return the   *)
(* set of possible results.                                                *)
(***************************************************************************)
EXTENDS Integers, Sequences, FiniteSets

CONSTANT FavoriteWeight   \* favorite_weight: copies of a favourite in the bag

ASSUME FavoriteWeightAssumption == FavoriteWeight \in Nat \ {0}

\* Cores over the walls W.
Cores(W) == [lib : SUBSET W, favs : SUBSET W, bag : Seq(W), pos : Nat]

EmptyCore == [lib |-> {}, favs |-> {}, bag |-> <<>>, pos |-> 0]

Copies(s, w) == Cardinality({i \in DOMAIN s : s[i] = w})
Weight(w, favs) == IF w \in favs THEN FavoriteWeight ELSE 1

\* Every order of the set S.
Orders(S) ==
    {s \in [1..Cardinality(S) -> S] : \A i, j \in DOMAIN s : i # j => s[i] # s[j]}

\* The subsequence of s of the walls in S (the only element of the set).
Retained(s, S) ==
    LET kept == {i \in DOMAIN s : s[i] \in S} IN
    {[j \in DOMAIN f |-> s[f[j]]] :
        f \in {g \in [1..Cardinality(kept) -> kept] :
                  \A i, j \in DOMAIN g : i < j => g[i] < g[j]}}

\* A full bag: each wall of lib as often as its weight, in any order.
FullBags(lib, favs) ==
    LET size == Cardinality(lib) + (FavoriteWeight - 1) * Cardinality(lib \cap favs) IN
    {b \in [1..size -> lib] : \A w \in lib : Copies(b, w) = Weight(w, favs)}

Rebuilt_KeepsCursor(core, files) ==     \* mutant: the new bag is not drawn from its start
    {[core EXCEPT !.bag = b] : b \in FullBags(core.lib, core.favs)}

\* rebuild_bag, when the files of the walls in files are present.
Rebuilt(core, files) ==
    LET favs == core.favs \cap core.lib \cap files IN
    {[lib |-> core.lib, favs |-> favs, bag |-> b, pos |-> 0] : b \in FullBags(core.lib, favs)}

\* rescan_top_level: the directory holds exactly files.
Rescanned(core, files) ==
    LET merged == {[lib |-> files, favs |-> core.favs \cap files, bag |-> kept \o added,
                    pos |-> IF core.pos > Len(kept) THEN Len(kept) ELSE core.pos] :
                       kept \in Retained(core.bag, files), added \in Orders(files \ core.lib)}
    IN  UNION {IF c.bag = <<>> /\ c.lib # {} THEN Rebuilt(c, files) ELSE {c} : c \in merged}

Added_ForgetsBag(core, w) == [core EXCEPT !.lib = @ \cup {w}]     \* mutant

\* add_top_level_file for a wall the library does not hold.
Added(core, w) == [core EXCEPT !.lib = @ \cup {w}, !.bag = Append(@, w)]

Without_KeepsBag(core, w) ==     \* mutant: the wall stays in the bag
    {[core EXCEPT !.lib = @ \ {w}, !.favs = @ \ {w}]}

\* commit_wallpaper_change: the quarantined wall w leaves every list.
Without(core, w) ==
    {[lib |-> core.lib \ {w}, favs |-> core.favs \ {w}, bag |-> b, pos |-> core.pos] :
        b \in Retained(core.bag, {core.bag[i] : i \in DOMAIN core.bag} \ {w})}
=============================================================================
