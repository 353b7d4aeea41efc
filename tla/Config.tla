------------------------------- MODULE Config -------------------------------
(***************************************************************************)
(* The configuration of Mural: what a file's lines and the environment     *)
(* become, which profiles are refused and which transition each action of  *)
(* the wallpaper gets.                                                     *)
(*                                                                         *)
(* A line is a record [profile, key, value].  With profile "" the key is   *)
(* one of the plain ones (an action's key is its name in the protocol:     *)
(* action.shift_forward is "shift-forward"), otherwise the line is         *)
(* transition.<profile>.<key>.  Comments, quotes and the expansion of ~    *)
(* are left out.  A variable of the environment is the same record:        *)
(* MURAL_CANVAS_PAN_MS has the profile "canvas" and the key "pan_ms".      *)
(***************************************************************************)
EXTENDS Protocol

CONSTANT Parallelism  \* available_parallelism
ASSUME ParallelismAssumption == Parallelism \in Nat \ {0}

ActionKeys == {"next", "back", "shift-forward", "shift-back", "replace", "quarantine", "startup"}
PathKeys   == {"wall_dir", "state_dir", "quarantine_dir"}
Workers == {"canvas.cache.workers", "decode.full_workers"}
Counts  == {"favorite_weight", "max_history", "canvas.thumbnail_max_edge", "canvas.cache.memory_mib"}
Times   == {"duration_ms", "zoom_out_ms", "pan_ms", "zoom_in_ms"}

\* RawConfig::default.
PlainDefaults ==
  [key \in PathKeys \cup {"favorite_weight", "max_history"} |-> Null]
    @@ ("canvas.thumbnail_max_edge" :> Num(1536)) @@ ("canvas.cache.memory_mib" :> Num(512))
    @@ ("canvas.cache.workers" :> Num(1)) @@ ("decode.full_workers" :> Num(2))
    @@ ("canvas.cache.backend" :> Word("auto")) @@ ("scale_mode" :> Word("fill"))
    @@ ("next" :> Token("push", Word("up"))) @@ ("back" :> Token("push", Word("down")))
    @@ ("shift-forward" :> Token("push", Word("left")))
    @@ ("shift-back" :> Token("push", Word("right")))
    @@ [key \in {"replace", "quarantine", "startup"} |-> Token("cut", Null)]
\* The settings that MURAL_CANVAS_* sets.
CanvasDefaults ==
  [zoom_out_ms |-> Num(180), pan_ms |-> Num(80), zoom_in_ms |-> Num(260),
   mode |-> Word("clipped"), walk |-> Word("paged"), pan_axis |-> Word("auto"),
   overview_scale |-> DEFAULT_SCALE, tile_count |-> Word("auto"), max_tile_count |-> Null]
DefaultConfig ==
  [t |-> "raw", values |-> PlainDefaults, canvas |-> CanvasDefaults,
   profiles |-> [name \in {} |-> CanvasDefaults]]

ClampWorkers(v) ==
  IF v = Bad THEN Bad
  ELSE LET most == IF Parallelism < 32 THEN Parallelism ELSE 32
       IN Num(IF v.n < most THEN v.n ELSE most)

-----------------------------------------------------------------------------
(* apply_value, apply_transition_profile_value, apply_env.                 *)

ReadPlain(key, v) ==
  CASE key \in PathKeys                  -> AsString(v)
    [] key \in Counts                 -> Positive(AsNat(v))
    [] key \in Workers                -> ClampWorkers(Positive(AsNat(v)))
    [] key = "scale_mode"             -> OneOf(v, ScaleModes)
    [] key = "canvas.cache.backend"   -> OneOf(v, Backends)
    [] key \in ActionKeys             -> v
    [] OTHER                          -> Bad

\* The built-in profiles know their modes; another may have either kind.
ModesOf(profile) ==
  CASE profile = "push" -> PushModes
    [] profile = "canvas" -> CanvasModes
    [] OTHER -> PushModes \cup CanvasModes
ReadField(profile, key, v) ==
  CASE key = "type"           -> OneOf(v, Kinds)
    [] key = "direction"      -> OneOf(v, Directions)
    [] key \in Times          -> Positive(AsNat(v))
    [] key = "easing"         -> OneOf(v, Easings)
    [] key = "mode"           -> OneOf(v, ModesOf(profile))
    [] key = "walk"           -> OneOf(v, Walks)
    [] key = "pan_axis"       -> OneOf(v, Axes)
    [] key = "overview_scale" -> Scale(AsScale(v))
    [] key = "tile_count"     -> IF v = Word("auto") THEN v ELSE TileNumber(AsNat(v))
    [] key = "max_tile_count" -> TileNumber(AsNat(v))
    [] key = "fallback"       -> IF profile = "world" THEN v ELSE Bad
    [] OTHER                  -> Bad

Profile(raw, name) ==
  IF name \in DOMAIN raw.profiles THEN raw.profiles[name] ELSE [key \in {} |-> Null]
\* Mutant: a line replaces the profile instead of adding to it.
ApplyValue_Replaces(raw, line) ==
  LET v == IF line.profile = "" THEN ReadPlain(line.key, line.value)
           ELSE ReadField(line.profile, line.key, line.value)
  IN CASE raw = Bad \/ v = Bad -> Bad
       [] raw # Bad /\ v # Bad /\ line.profile = "" ->
            [raw EXCEPT !.values = (line.key :> v) @@ @]
       [] OTHER -> [raw EXCEPT !.profiles = (line.profile :> (line.key :> v)) @@ @]
ApplyValue(raw, line) ==
  LET v == IF line.profile = "" THEN ReadPlain(line.key, line.value)
           ELSE ReadField(line.profile, line.key, line.value)
  IN CASE raw = Bad \/ v = Bad -> Bad
       [] raw # Bad /\ v # Bad /\ line.profile = "" ->
            [raw EXCEPT !.values = (line.key :> v) @@ @]
       [] OTHER ->
            [raw EXCEPT !.profiles =
               (line.profile :> ((line.key :> v) @@ Profile(raw, line.profile))) @@ @]

\* A canvas variable replaces a default, which a profile's own setting goes
\* before.
ApplyVariable(raw, variable) ==
  IF variable.profile = "" THEN ApplyValue(raw, variable)
  ELSE LET v == ReadField("canvas", variable.key, variable.value)
       IN IF raw = Bad \/ v = Bad THEN Bad
          ELSE [raw EXCEPT !.canvas = (variable.key :> v) @@ @]

-----------------------------------------------------------------------------
(* build: the profiles are validated, then every reference is resolved.    *)

\* The declared type, or the built-in one of that name.
KindOf(raw, name) ==
  CASE "type" \in DOMAIN Profile(raw, name) -> Profile(raw, name)["type"]
    [] "type" \notin DOMAIN Profile(raw, name) /\ name \in Kinds -> Word(name)
    [] OTHER -> Bad
\* The profile's own setting, the built-in profile's, or the default.
Setting(raw, name, kind, key, default) ==
  CASE key \in DOMAIN Profile(raw, name) -> Profile(raw, name)[key]
    [] key \notin DOMAIN Profile(raw, name) /\ key \in DOMAIN Profile(raw, kind) ->
         Profile(raw, kind)[key]
    [] OTHER -> default
\* resolve_push_mode, resolve_canvas_mode.
ResolveMode(raw, name, kind, default) ==
  LET mode == Setting(raw, name, kind, "mode", default)
  IN IF mode.s \in ModesOf(kind) THEN mode ELSE Bad
Walk(raw, name) == Setting(raw, name, "canvas", "walk", raw.canvas.walk)
CanvasMode(raw, name) == ResolveMode(raw, name, "canvas", raw.canvas.mode)

ProfileIsValid(raw, name) ==
  LET kind == KindOf(raw, name)
  IN /\ kind # Bad
     /\ name \in Kinds => kind = Word(name)
     /\ \A key \in DOMAIN Profile(raw, name) \ {"type"} :
          \/ key \in DOMAIN TRANSITION_REGISTRY[kind.s].parameters
          \/ kind = Word("world") /\ key = "fallback"
     /\ kind = Word("push") => ResolveMode(raw, name, "push", Word("portal")) # Bad
     /\ kind = Word("canvas") =>
          CanvasMode(raw, name) # Bad /\ WalkFits(CanvasMode(raw, name), Walk(raw, name)) # Bad

\* resolve_transition_ref: a push takes its direction from the reference or
\* from the profile itself, a canvas its axis from any of them.
ResolveReference(raw, ref) ==
  LET name == ref.name
      kind == KindOf(raw, name)
      setting(key, default) == Setting(raw, name, kind.s, key, default)
      canvas(key) == setting(key, raw.canvas[key])
      timed == Timed(kind.s, setting("duration_ms", DEFAULT_DURATION),
                     setting("easing", DEFAULT_EASING))
      direction == IF ref.suffix # Null THEN OneOf(ref.suffix, Directions)
                   ELSE IF "direction" \in DOMAIN Profile(raw, name)
                        THEN Profile(raw, name)["direction"] ELSE Bad
      axis == IF ref.suffix # Null THEN OneOf(ref.suffix, Axes) ELSE canvas("pan_axis")
  IN IF kind = Bad THEN Bad ELSE
     CASE kind.s \in {"cut", "fade", "world"} /\ ref.suffix # Null -> Bad
       [] kind.s = "cut" /\ ref.suffix = Null -> Obj([type |-> kind])
       [] kind.s \in {"fade", "world"} /\ ref.suffix = Null -> timed
       [] kind.s = "push" ->
            IF timed = Bad THEN Bad
            ELSE Whole([direction |-> direction,
                        mode |-> ResolveMode(raw, name, "push", Word("portal"))] @@ timed.f)
       [] kind.s = "canvas" ->
            Canvas(canvas("zoom_out_ms"), canvas("pan_ms"), canvas("zoom_in_ms"),
                   setting("easing", DEFAULT_EASING), CanvasMode(raw, name), Walk(raw, name),
                   axis, canvas("overview_scale"), canvas("tile_count"), canvas("max_tile_count"))

WorldFallback(raw) ==
  IF "fallback" \notin DOMAIN Profile(raw, "world") THEN Null
  ELSE LET fallback == ResolveReference(raw, Profile(raw, "world")["fallback"])
       IN IF fallback # Bad /\ fallback.f["type"].s \in {"cut", "push"} THEN fallback ELSE Bad

Build(raw) ==
  IF raw = Bad \/ \E name \in DOMAIN raw.profiles : ~ProfileIsValid(raw, name) THEN Bad
  ELSE Whole([key \in DOMAIN raw.values |->
                CASE key \in ActionKeys -> ResolveReference(raw, raw.values[key])
                  [] key \in Workers -> ClampWorkers(raw.values[key])
                  [] OTHER -> raw.values[key]]
             @@ [world_fallback_transition |-> WorldFallback(raw)])

\* The file's lines in their order, then the environment.
Load(lines, variables) ==
  Build(FoldLeft(ApplyVariable, FoldLeft(ApplyValue, DefaultConfig, lines), variables))

\* transition_for_wallpaper_action.
TransitionFor(config, action) ==
  IF action \in ActionKeys THEN config.f[action] ELSE Obj([type |-> Word("cut")])
=============================================================================
