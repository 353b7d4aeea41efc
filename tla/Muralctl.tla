------------------------------ MODULE Muralctl ------------------------------
(***************************************************************************)
(* The command line of muralctl: the request that a command and its        *)
(* arguments become, or none when the program refuses them and exits 1.    *)
(*                                                                         *)
(* An argument is a record [option, value]: an option is named after the   *)
(* field it sets (--canvas-pan-ms is "pan_ms"), a positional one has the   *)
(* option "".  Help, the socket and the timeout are left out, and so are   *)
(* the world commands, which are in WorldCache.                            *)
(***************************************************************************)
EXTENDS Protocol

CONSTANT FileAt(_)  \* the file that a path names once resolved, or Bad

CanvasOptions == {"zoom_out_ms", "pan_ms", "zoom_in_ms", "pan_axis", "walk",
                  "overview_scale", "tile_count", "max_tile_count"}
TransitionOptions == {"transition", "duration_ms", "easing", "mode"} \cup CanvasOptions
Directed == {"next", "back", "shift", "shift-forward", "shift-back", "replace", "quarantine"}
JsonOnly == {"favorite", "unfavorite", "favorites", "current", "rescan"}
WallpaperCommands == Directed \cup JsonOnly
CacheCommands == {"cache-status", "cache-clear", "cache-warm"}
Commands == Plain \cup WallpaperCommands \cup CacheCommands \cup {"set", "preload", "clear"}

\* The options that each command has an arm for.
Accepts(command) ==
  CASE command \in Directed -> TransitionOptions \cup {"json", "scale_mode"}
    [] command \in JsonOnly \cup {"health", "query", "capabilities", "cache-status", "cache-clear"} ->
         {"json"}
    [] command = "set" -> (TransitionOptions \ {"walk"}) \cup {"output", "scale_mode", "allow_partial"}
    [] command = "preload" -> {"output"}
    [] command = "clear" -> {"output", "color"}
    [] command = "cache-warm" -> {"json", "scope", "workers", "backend"}
    [] OTHER -> {}

ReadOption(option, v) ==
  CASE option \in {"duration_ms", "zoom_out_ms", "pan_ms", "zoom_in_ms", "workers"} ->
         Positive(AsNat(v))
    [] option = "transition"     -> IF v.t = "token" THEN v ELSE Bad
    [] option = "easing"         -> OneOf(v, Easings)
    [] option = "pan_axis"       -> OneOf(v, Axes)
    [] option = "walk"           -> OneOf(v, Walks)
    [] option = "overview_scale" -> Scale(AsScale(v))
    [] option = "tile_count"     -> IF v = Word("auto") THEN v ELSE TileNumber(AsNat(v))
    [] option = "max_tile_count" -> TileNumber(AsNat(v))
    [] option = "scale_mode"     -> OneOf(v, ScaleModes)
    [] option = "scope"          -> OneOf(v, WarmScopes)
    [] option = "backend"        -> OneOf(v, Backends)
    [] option \in {"mode", "color"} -> AsString(v)
    [] option \in {"json", "allow_partial"} -> Bool(TRUE)
    [] option = "output"         -> v

\* What has been read so far: the options' values, the positional arguments,
\* the outputs and the output that still waits for its path.
Pair(name, path) == [t |-> "pair", name |-> name, path |-> path]
Nothing == [t |-> "parsed", given |-> [option \in {} |-> Null], positionals |-> <<>>,
            outputs |-> [name \in {} |-> Null], names |-> <<>>, pending |-> Null]

\* insert_output_path: a name that is new and a path that names a file.
InsertOutput(p, name, path) ==
  IF name = "" \/ path = Null \/ path.t # "string" \/ name \in DOMAIN p.outputs THEN Bad
  ELSE IF FileAt(path) = Bad THEN Bad
       ELSE [p EXCEPT !.outputs = (name :> FileAt(path)) @@ @, !.pending = Null]
\* parse_output_path_option: NAME=PATH, or NAME and the path in its place or
\* further on.
OutputOption(p, v) ==
  CASE p.pending # Null -> Bad
    [] p.pending = Null /\ v.t = "pair" -> InsertOutput(p, v.name, v.path)
    [] p.pending = Null /\ v.t = "string" /\ v.s # "" -> [p EXCEPT !.pending = v]
    [] OTHER -> Bad
Positional(p, command, v) ==
  CASE command \in WallpaperCommands -> [p EXCEPT !.positionals = Append(@, v)]
    [] command \in {"set", "preload"} /\ p.pending # Null -> InsertOutput(p, p.pending.s, v)
    [] OTHER -> Bad

\* Mutant: an automatic count forgets the maximum given before it.
TileOption_Forgets(given, option, v) ==
  IF option = "tile_count" THEN (option :> v) @@ Drop(given, {"max_tile_count"})
  ELSE (option :> v) @@ given
\* A maximum is of use to the automatic count only: a fixed count drops it,
\* and it does not change one.
TileOption(given, option, v) ==
  LET tiles == IF "tile_count" \in DOMAIN given THEN given["tile_count"] ELSE Word("auto")
  IN CASE option = "tile_count" /\ v = Word("auto") /\ tiles = Word("auto") -> (option :> v) @@ given
       [] option = "tile_count" /\ (v # Word("auto") \/ tiles # Word("auto")) ->
            (option :> v) @@ Drop(given, {"max_tile_count"})
       [] option = "max_tile_count" /\ tiles = Word("auto") -> (option :> v) @@ given
       [] option = "max_tile_count" /\ tiles # Word("auto") -> given
       [] OTHER -> (option :> v) @@ given

Argument(p, command, arg) ==
  IF p = Bad THEN Bad
  ELSE IF arg.option = "" THEN Positional(p, command, arg.value)
  ELSE IF arg.option \notin Accepts(command) THEN Bad
  ELSE IF arg.option = "output" /\ command # "clear" THEN OutputOption(p, arg.value)
  ELSE LET v == ReadOption(arg.option, arg.value)
       IN CASE v = Bad -> Bad
            [] v # Bad /\ arg.option = "output" ->
                 IF IsString(v) /\ v.s # "" THEN [p EXCEPT !.names = Append(@, v)] ELSE Bad
            [] OTHER -> [p EXCEPT !.given = TileOption(@, arg.option, v)]

Given(p, option, default) == IF option \in DOMAIN p.given THEN p.given[option] ELSE default

-----------------------------------------------------------------------------
(* build_transition, parse_wallpaper_options, with_default_transition.     *)

\* A mode is read for the kind of transition it is given to.
Moded(p, transition, modes) ==
  IF transition = Bad THEN Bad
  ELSE Whole([transition.f EXCEPT !["mode"] =
                IF "mode" \in DOMAIN p.given THEN OneOf(p.given["mode"], modes) ELSE @])
BuildTransition(p, token) ==
  LET base == ParseCliToken(token, Given(p, "duration_ms", DEFAULT_DURATION),
                            Given(p, "easing", DEFAULT_EASING))
      option(key) == Given(p, key, base.f[key])
      mode == OneOf(Given(p, "mode", Word("clipped")), CanvasModes)
  IN IF base = Bad THEN Bad ELSE
     CASE token.name = "push" -> Moded(p, base, PushModes)
       [] token.name = "canvas" ->
            Canvas(option("zoom_out_ms"), option("pan_ms"), option("zoom_in_ms"),
                   base.f["easing"], mode, option("walk"), option("pan_axis"),
                   option("overview_scale"), option("tile_count"), option("max_tile_count"))
       [] token.name \in {"cut", "fade", "world"} -> IF "mode" \in DOMAIN p.given THEN Bad ELSE base

\* shift takes its direction from the command line.
Backwards == {Word("b"), Word("back"), Word("backward")}
Forwards  == {Word("f"), Word("forward")}
ShiftDirection(p) ==
  CASE p.positionals = <<>> \/ (Len(p.positionals) = 1 /\ p.positionals[1] \in Forwards) ->
         "shift-forward"
    [] Len(p.positionals) = 1 /\ p.positionals[1] \in Backwards -> "shift-back"
    [] OTHER -> "neither"
ActionOf(command, p) == IF command = "shift" THEN ShiftDirection(p) ELSE command
DefaultToken(action) ==
  CASE action = "next" -> Token("push", Word("up"))
    [] action = "back" -> Token("push", Word("down"))
    [] action = "shift-forward" -> Token("push", Word("left"))
    [] action = "shift-back" -> Token("push", Word("right"))
    [] OTHER -> Token("cut", Null)
\* A canvas option alone asks for the canvas; any option of a transition
\* makes the request carry one, and the daemon's own is not used.
WallpaperTransition(action, p) ==
  LET options == DOMAIN p.given \cap TransitionOptions
      canvas == DOMAIN p.given \cap CanvasOptions # {}
      token == Given(p, "transition", IF canvas THEN Token("canvas", Null) ELSE DefaultToken(action))
  IN IF options = {} THEN Null
     ELSE IF canvas /\ token.name # "canvas" THEN Bad ELSE BuildTransition(p, token)

WallpaperCommand(command, p) ==
  LET action == ActionOf(command, p)
      index == IF action \notin Indexed THEN Null
               ELSE IF Len(p.positionals) = 1 THEN AsNat(p.positionals[1]) ELSE Bad
  IN IF action \notin Actions \/ (action \notin Indexed /\ command # "shift" /\ p.positionals # <<>>)
     THEN Bad
     ELSE Whole([type |-> Word("wallpaper"),
                 action |-> Whole([type |-> Word(action), index |-> index]),
                 transition |-> WallpaperTransition(action, p),
                 scale_mode |-> Given(p, "scale_mode", Null)])

-----------------------------------------------------------------------------
(* parse_set, parse_preload, parse_clear, parse_cache.                     *)

\* There is no canvas without an action's history, so a canvas option is
\* refused whatever the transition is.
SetTransition(p) ==
  LET token == Given(p, "transition", Token("cut", Null))
  IN IF DOMAIN p.given \cap CanvasOptions # {} \/ token.name = "canvas" THEN Bad
     ELSE BuildTransition(p, token)
OutputsOf(p) == IF p.pending # Null \/ DOMAIN p.outputs = {} THEN Bad ELSE Obj(p.outputs)
SetCommand(p) ==
  Whole([type |-> Word("set"), outputs |-> OutputsOf(p), transition |-> SetTransition(p),
         scale_mode |-> Given(p, "scale_mode", Word("fill")),
         allow_partial |-> Given(p, "allow_partial", Bool(FALSE))])
ClearCommand(p) ==
  Obj([type |-> Word("clear"), outputs |-> Arr(p.names),
       color |-> Given(p, "color", Word("#000000"))])
CacheCommand(command, p) ==
  CASE command = "cache-status" -> Obj([type |-> Word("cache"), action |-> Word("status")])
    [] command = "cache-clear"  -> Obj([type |-> Word("cache"), action |-> Word("clear")])
    [] command = "cache-warm"   ->
         Obj([type |-> Word("cache"), action |-> Word("warm"),
              scope |-> Given(p, "scope", Word("current")), workers |-> Given(p, "workers", Num(1)),
              backend |-> Given(p, "backend", Word("auto"))])

\* build_command.
BuildCommand(command, args) ==
  LET p == FoldLeft(LAMBDA acc, arg : Argument(acc, command, arg), Nothing, args)
  IN IF p = Bad THEN Bad ELSE
     CASE command \in Plain -> Obj([type |-> Word(command)])
       [] command \in WallpaperCommands -> WallpaperCommand(command, p)
       [] command \in CacheCommands -> CacheCommand(command, p)
       [] command = "set" -> SetCommand(p)
       [] command = "preload" -> Whole([type |-> Word("preload"), outputs |-> OutputsOf(p)])
       [] command = "clear" -> ClearCommand(p)
=============================================================================
