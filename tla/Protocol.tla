------------------------------ MODULE Protocol ------------------------------
(***************************************************************************)
(* The requests and answers of mural-ipc: how each is written as JSON, how *)
(* it is read, with what is required, optional, refused or replaced by a   *)
(* default, and the registry of transitions that clients can ask for.      *)
(*                                                                         *)
(* A JSON value is a record tagged by its kind.  A value of the program is *)
(* written the same way, an object with every field of its Rust type and   *)
(* Null for None; what an encoder leaves out or changes is in Encode*.     *)
(* Integers stand for themselves; a decimal counts units of 10^-7.         *)
(***************************************************************************)
EXTENDS Integers, Sequences, SequencesExt, FiniteSets, TLC

Null       == [t |-> "null"]
Bool(b)    == [t |-> "bool", b |-> b]
Num(n)     == [t |-> "number", n |-> n]
Decimal(n) == [t |-> "decimal", n |-> n]
Word(s)    == [t |-> "string", s |-> s]
Arr(q)     == [t |-> "array", q |-> q]
Obj(f)     == [t |-> "object", f |-> f]
\* A ProtocolError, whatever it says.
Bad        == [t |-> "error"]

U32 == 2147483647  \* bound: the widest integer TLC has
Unit == 10000000  \* 1.0

IsString(v) == v.t = "string"
IsObject(v) == v.t = "object"
Has(o, key) == key \in DOMAIN o.f
\* A structure with a part that could not be read is refused as a whole.
Whole(f) == IF \E key \in DOMAIN f : f[key] = Bad THEN Bad ELSE Obj(f)
MapArr(Op(_), v) ==
  IF v.t # "array" THEN Bad
  ELSE LET q == [n \in DOMAIN v.q |-> Op(v.q[n])]
       IN IF \E n \in DOMAIN q : q[n] = Bad THEN Bad ELSE Arr(q)
AsString(v) == IF IsString(v) THEN v ELSE Bad

-----------------------------------------------------------------------------
(* Readers of one field: required_string, optional_string, optional_u64... *)

RequiredString(o, key) == IF Has(o, key) THEN AsString(o.f[key]) ELSE Bad
OptionalString(o, key, default) == IF Has(o, key) THEN AsString(o.f[key]) ELSE default
\* Mutant: a null is not read as None.
NullableString_NotNull(o, key) == IF Has(o, key) THEN AsString(o.f[key]) ELSE Null
NullableString(o, key) ==
  IF ~Has(o, key) \/ o.f[key] = Null THEN Null ELSE AsString(o.f[key])
OptionalBool(o, key, default) ==
  IF ~Has(o, key) THEN default ELSE IF o.f[key].t = "bool" THEN o.f[key] ELSE Bad
RequiredBool(o, key) == OptionalBool(o, key, Bad)
AsNat(v) == IF v.t = "number" /\ v.n \in 0 .. U32 THEN v ELSE Bad
OptionalNat(o, key, default) == IF Has(o, key) THEN AsNat(o.f[key]) ELSE default
RequiredNat(o, key) == OptionalNat(o, key, Bad)
NullableNat(o, key) == IF ~Has(o, key) \/ o.f[key] = Null THEN Null ELSE AsNat(o.f[key])
OptionalInt(o, key, default) ==
  IF ~Has(o, key) THEN default ELSE IF o.f[key].t = "number" THEN o.f[key] ELSE Bad
\* The texts that are read as a number where one is wanted; bound: one of them.
SpelledNumbers == "0.25" :> 2500000
AsScale(v) ==
  CASE v.t = "decimal" -> v
    [] v.t = "number"  -> Decimal(v.n * Unit)
    [] IsString(v) /\ v.s \in DOMAIN SpelledNumbers -> Decimal(SpelledNumbers[v.s])
    [] OTHER           -> Bad
\* validate_positive_milliseconds, validate_canvas_tile_count and the others.
Positive(v) == IF v = Bad \/ v = Num(0) THEN Bad ELSE v
MaxTiles == 256
TileNumber(v) == IF v # Bad /\ v.n \in 1 .. MaxTiles THEN v ELSE Bad
Scale(v) == IF v # Bad /\ v.n \in 1 .. Unit THEN v ELSE Bad

Easings    == {"linear", "ease-out-cubic", "ease-in-out-cubic"}
ScaleModes == {"fill", "fit", "center", "stretch"}
Directions == {"up", "down", "left", "right"}
PushModes  == {"portal", "screen", "pan"}
CanvasModes == {"clipped", "morph", "overlap", "collage", "span"}
Walks      == {"paged", "strip"}
Axes       == {"auto", "horizontal", "vertical"}
WarmScopes == {"current", "all"}
Backends   == {"auto", "vips", "internal"}
\* Spellings that are read and never written.
Alias(s) == CASE s \in {"page", "grid"} -> "paged" [] s = "line" -> "strip"
              [] s = "quarentine" -> "quarantine" [] OTHER -> s
OneOf(v, names) ==
  IF IsString(v) /\ Alias(v.s) \in names THEN Word(Alias(v.s)) ELSE Bad
Enum(o, key, names, default) == OneOf(OptionalString(o, key, Word(default)), names)

-----------------------------------------------------------------------------
(* The registry of transitions. *)

Parameter(type, allowed, required, default) ==
  [type |-> type, allowed |-> allowed, required |-> required, default |-> default]
Milliseconds(default) == Parameter("integer", {}, FALSE, Num(default))
Choice(names, default) == Parameter("enum", names, FALSE, Word(default))
TIMING == [duration_ms |-> Milliseconds(900), easing |-> Choice(Easings, "ease-out-cubic")]
Descriptor(class, set, experimental, parameters) ==
  [class |-> class, set |-> set, experimental |-> experimental, parameters |-> parameters]

TRANSITION_REGISTRY ==
  [cut    |-> Descriptor("immediate", TRUE, FALSE, <<>>),
   fade   |-> Descriptor("pairwise", TRUE, FALSE, TIMING),
   push   |-> Descriptor("pairwise", TRUE, FALSE,
                [direction   |-> Parameter("enum", Directions, TRUE, Null),
                 duration_ms |-> TIMING.duration_ms,
                 easing      |-> TIMING.easing,
                 mode        |-> Choice(PushModes, "portal")]),
   canvas |-> Descriptor("scene", FALSE, FALSE,
                [zoom_out_ms    |-> Milliseconds(180),
                 pan_ms         |-> Milliseconds(80),
                 zoom_in_ms     |-> Milliseconds(260),
                 easing         |-> TIMING.easing,
                 mode           |-> Choice(CanvasModes, "clipped"),
                 walk           |-> Choice(Walks, "paged"),
                 pan_axis       |-> Choice(Axes, "auto"),
                 overview_scale |-> Parameter("number", {}, FALSE, Decimal(3333330)),
                 tile_count     |-> Parameter("integer-or-enum", {"auto"}, FALSE, Word("auto")),
                 max_tile_count |-> Parameter("integer", {}, FALSE, Null)]),
   world  |-> Descriptor("scene", TRUE, TRUE, TIMING)]
Kinds == DOMAIN TRANSITION_REGISTRY
ParameterTypes == {"integer", "number", "enum", "integer-or-enum"}
Classes == {"immediate", "pairwise", "scene"}

-----------------------------------------------------------------------------
(* Transitions: parse_cli_token, parse_transition, encode_transition. *)

\* Mutant: the parser's default is not the registry's.
DEFAULT_DURATION_Other == Num(800)
DEFAULT_DURATION == Num(900)
DEFAULT_EASING == Word("ease-out-cubic")
DEFAULT_SCALE == Decimal(3333333)

Timed(kind, duration, easing) ==
  Whole([type |-> Word(kind), duration_ms |-> Positive(duration), easing |-> easing])
\* validate_canvas_mode_walk.
WalkFits(mode, walk) ==
  IF mode.s \in {"collage", "span"} /\ walk.s = "paged" THEN Bad ELSE walk
Canvas(out, pan, in, easing, mode, walk, axis, scale, tiles, max) ==
  Whole([type |-> Word("canvas"),
         zoom_out_ms |-> Positive(out), pan_ms |-> Positive(pan), zoom_in_ms |-> Positive(in),
         easing |-> easing, mode |-> mode,
         walk |-> IF mode = Bad \/ walk = Bad THEN Bad ELSE WalkFits(mode, walk),
         pan_axis |-> axis, overview_scale |-> scale, tile_count |-> tiles,
         \* CanvasTileCount::Fixed has no maximum
         max_tile_count |-> IF tiles = Word("auto") \/ max = Bad THEN max ELSE Null])

\* A token is a name, with an override after the colon or Null.
Token(name, suffix) == [t |-> "token", name |-> name, suffix |-> suffix]
ParseCliToken(token, duration, easing) ==
  CASE token.name = "cut" /\ token.suffix = Null -> Obj([type |-> Word("cut")])
    [] token.name \in {"fade", "world"} /\ token.suffix = Null -> Timed(token.name, duration, easing)
    [] token.name = "push" ->
         Whole([type |-> Word("push"), direction |-> OneOf(token.suffix, Directions),
                duration_ms |-> Positive(duration), easing |-> easing, mode |-> Word("portal")])
    [] token.name = "canvas" ->
         Canvas(Num(180), Num(80), Num(260), easing, Word("clipped"), Word("paged"),
                IF token.suffix = Null THEN Word("auto") ELSE OneOf(token.suffix, Axes),
                DEFAULT_SCALE, Word("auto"), Null)
    [] OTHER -> Bad

\* parse_canvas_tile_count_policy.
MaxTileCount(o) ==
  IF Has(o, "max_tile_count") THEN TileNumber(OptionalNat(o, "max_tile_count", Bad)) ELSE Null
TileCount(o) ==
  CASE ~Has(o, "tile_count") \/ o.f["tile_count"] = Word("auto") -> Word("auto")
    [] OTHER -> TileNumber(AsNat(o.f["tile_count"]))

ParseTransition(v) ==
  IF v.t = "token" THEN ParseCliToken(v, DEFAULT_DURATION, DEFAULT_EASING)
  ELSE IF ~IsObject(v) \/ RequiredString(v, "type") = Bad THEN Bad
  ELSE
    LET kind == v.f["type"].s
        duration == OptionalNat(v, "duration_ms", DEFAULT_DURATION)
        easing == Enum(v, "easing", Easings, "ease-out-cubic")
    IN IF duration = Bad \/ easing = Bad THEN Bad ELSE
       CASE kind = "cut" -> Obj([type |-> Word("cut")])
         [] kind \in {"fade", "world"} -> Timed(kind, duration, easing)
         [] kind = "push" ->
              Whole([type |-> Word("push"),
                     direction |-> OneOf(RequiredString(v, "direction"), Directions),
                     duration_ms |-> Positive(duration), easing |-> easing,
                     mode |-> Enum(v, "mode", PushModes, "portal")])
         [] kind = "canvas" ->
              Canvas(OptionalNat(v, "zoom_out_ms", Num(180)), OptionalNat(v, "pan_ms", Num(80)),
                     OptionalNat(v, "zoom_in_ms", Num(260)), easing,
                     Enum(v, "mode", CanvasModes, "clipped"), Enum(v, "walk", Walks, "paged"),
                     Enum(v, "pan_axis", Axes, "auto"),
                     IF Has(v, "overview_scale") THEN Scale(AsScale(v.f["overview_scale"]))
                     ELSE DEFAULT_SCALE,
                     TileCount(v), MaxTileCount(v))
         [] OTHER -> Bad

Drop(f, keys) == [key \in DOMAIN f \ keys |-> f[key]]
\* format_overview_scale writes six digits.
FormatScale(v) == Decimal(((v.n + 5) \div 10) * 10)
\* Mutant: the walk is not written.
EncodeTransition_NoWalk(v) ==
  IF v.f["type"].s # "canvas" THEN v
  ELSE Obj([Drop(v.f, {"walk"} \cup IF v.f["max_tile_count"] = Null THEN {"max_tile_count"} ELSE {})
              EXCEPT !["overview_scale"] = FormatScale(@)])
EncodeTransition(v) ==
  IF v.f["type"].s # "canvas" THEN v
  ELSE Obj([Drop(v.f, IF v.f["max_tile_count"] = Null THEN {"max_tile_count"} ELSE {})
              EXCEPT !["overview_scale"] = FormatScale(@)])
EncodeOptional(Op(_), v) == IF v = Null THEN Null ELSE Op(v)

-----------------------------------------------------------------------------
(* Requests: parse_request, parse_public_request, Request::to_json. *)

\* required_outputs: names and paths that are not empty, at least one.
RequiredOutputs(o) ==
  IF ~Has(o, "outputs") \/ ~IsObject(o.f["outputs"]) THEN Bad
  ELSE LET f == o.f["outputs"].f
       IN IF DOMAIN f = {} \/ "" \in DOMAIN f THEN Bad
          ELSE Whole([name \in DOMAIN f |-> IF f[name] = Word("") THEN Bad ELSE AsString(f[name])])
OptionalArr(o, key, default) == IF Has(o, key) THEN MapArr(AsString, o.f[key]) ELSE default

Indexed == {"replace", "quarantine", "favorite", "unfavorite"}
Actions == Indexed \cup
  {"next", "back", "shift-forward", "shift-back", "favorites", "current", "rescan"}
\* WallpaperAction::parse: an index that the action has no use for is dropped.
ParseAction(name, index) ==
  LET action == OneOf(name, Actions)
  IN IF action # Bad /\ action.s \in Indexed
     THEN Whole([type |-> action, index |-> IF index = Null THEN Bad ELSE index])
     ELSE Whole([type |-> action, index |-> IF index = Bad THEN Bad ELSE Null])
ParseWallpaperAction(v) ==
  IF IsString(v) THEN ParseAction(v, Null)
  ELSE IF IsObject(v) THEN ParseAction(RequiredString(v, "type"), OptionalNat(v, "index", Null))
  ELSE Bad
EncodeAction(a) ==
  IF a.f["type"].s \in Indexed THEN a ELSE a.f["type"]

SetFields(o, transition) ==
  [type |-> Word("set"), outputs |-> RequiredOutputs(o), transition |-> transition,
   scale_mode |-> Enum(o, "scale_mode", ScaleModes, "fill"),
   allow_partial |-> OptionalBool(o, "allow_partial", Bool(FALSE))]
RequiredTransition(o) == IF Has(o, "transition") THEN ParseTransition(o.f["transition"]) ELSE Bad

ParseSet(o) ==
  Whole(SetFields(o, IF Has(o, "transition") THEN ParseTransition(o.f["transition"])
                     ELSE Obj([type |-> Word("cut")])))
ParsePreload(o) == Whole([type |-> Word("preload"), outputs |-> RequiredOutputs(o)])
ParseClear(o) ==
  Whole([type |-> Word("clear"), outputs |-> OptionalArr(o, "outputs", Arr(<<>>)),
         color |-> OptionalString(o, "color", Word("#000000"))])
ParseWallpaper(o) ==
  Whole([type |-> Word("wallpaper"),
         action |-> IF Has(o, "action") THEN ParseWallpaperAction(o.f["action"]) ELSE Bad,
         transition |-> IF ~Has(o, "transition") \/ o.f["transition"] = Null THEN Null
                        ELSE ParseTransition(o.f["transition"]),
         scale_mode |-> IF ~Has(o, "scale_mode") \/ o.f["scale_mode"] = Null THEN Null
                        ELSE OneOf(o.f["scale_mode"], ScaleModes)])
ParseCache(o) ==
  LET action == RequiredString(o, "action")
  IN CASE action = Bad -> Bad
       [] action.s \in {"status", "clear"} -> Obj([type |-> Word("cache"), action |-> action])
       [] action.s = "warm" ->
            Whole([type |-> Word("cache"), action |-> action,
                   scope |-> Enum(o, "scope", WarmScopes, "current"),
                   workers |-> Positive(OptionalNat(o, "workers", Num(1))),
                   backend |-> Enum(o, "backend", Backends, "auto")])
       [] OTHER -> Bad
ParseCanvasSet(o) ==
  Whole([SetFields(o, RequiredTransition(o)) EXCEPT !.type = Word("renderer_canvas_set")]
        @@ [preview_paths |-> OptionalArr(o, "preview_paths", Bad),
            preview_start |-> OptionalNat(o, "preview_start", Num(0))])
ParseFocus(v) ==
  IF ~IsObject(v) THEN Bad
  ELSE Whole([current_index |-> RequiredNat(v, "current_index"),
              target_index |-> RequiredNat(v, "target_index"),
              lod |-> OptionalNat(v, "lod", Num(0))])
ParseRoutes(o) ==
  IF ~Has(o, "routes") \/ ~IsObject(o.f["routes"]) THEN Bad
  ELSE LET f == o.f["routes"].f
       IN IF DOMAIN f = {} \/ "" \in DOMAIN f THEN Bad
          ELSE Whole([name \in DOMAIN f |-> ParseFocus(f[name])])
WorldNumbers == {"library_count", "columns", "fingerprint", "thumbnail_edge", "tile_cells"}
ParseWorldSet(o) ==
  Whole([SetFields(o, RequiredTransition(o)) EXCEPT !.type = Word("renderer_world_set")]
        @@ [key \in WorldNumbers |-> RequiredNat(o, key)]
        @@ [routes |-> ParseRoutes(o)])

Plain == {"ping", "capabilities", "health", "query", "stop"}
Internal == {"renderer_canvas_set", "renderer_world_set"}
ParseRequest(v, allow_renderer_control) ==
  IF ~IsObject(v) \/ RequiredString(v, "type") = Bad THEN Bad
  ELSE
    LET type == v.f["type"].s
    IN CASE type \in Plain     -> Obj([type |-> Word(type)])
         [] type = "set"       -> ParseSet(v)
         [] type = "preload"   -> ParsePreload(v)
         [] type = "clear"     -> ParseClear(v)
         [] type = "wallpaper" -> ParseWallpaper(v)
         [] type = "cache"     -> ParseCache(v)
         [] type = "renderer_canvas_set" /\ allow_renderer_control -> ParseCanvasSet(v)
         [] type = "renderer_world_set" /\ allow_renderer_control -> ParseWorldSet(v)
         [] OTHER -> Bad

\* The fields that to_json writes for each type of request.
Written(r) ==
  LET type == r.f["type"].s
  IN CASE type \in Plain -> {"type"}
       [] type = "set" -> {"type", "outputs", "transition", "scale_mode", "allow_partial"}
       [] type = "preload" -> {"type", "outputs"}
       [] type = "clear" -> {"type", "outputs", "color"}
       [] type = "wallpaper" -> {"type", "action", "transition", "scale_mode"}
       [] type = "cache" -> {"type", "action"} \cup
            IF r.f["action"] = Word("warm") THEN {"scope", "workers", "backend"} ELSE {}
       [] type = "renderer_canvas_set" ->
            {"type", "outputs", "transition", "scale_mode", "allow_partial",
             "preview_paths", "preview_start"}
       [] type = "renderer_world_set" ->
            {"type", "outputs", "transition", "scale_mode", "allow_partial", "library_count",
             "columns", "fingerprint", "thumbnail_edge", "tile_cells", "routes"}
EncodeField(r, key) ==
  CASE key = "transition" -> EncodeOptional(EncodeTransition, r.f[key])
    [] key = "action" /\ IsObject(r.f[key]) -> EncodeAction(r.f[key])
    [] OTHER -> r.f[key]
EncodeRequest(r) == Obj([key \in Written(r) |-> EncodeField(r, key)])

-----------------------------------------------------------------------------
(* Answers: Response::to_json and the parsers of muralctl and supervisor. *)

ErrorResponse == Obj([status |-> Word("error"), message |-> Word("why")])
ResponseIsError(v) == IsObject(v) /\ Has(v, "status") /\ v.f["status"] = Word("error")

ParseState(v) ==
  IF ~IsObject(v) THEN Bad
  ELSE LET state == RequiredString(v, "state")
       IN CASE state = Word("idle") -> Obj([state |-> state])
            [] state = Word("running") -> Whole([state |-> state, transition |-> RequiredTransition(v)])
            [] OTHER -> Bad
EncodeState(v) ==
  IF Has(v, "transition") THEN Obj([v.f EXCEPT !["transition"] = EncodeTransition(@)]) ELSE v
ParseHealthOutput(v) ==
  IF ~IsObject(v) THEN Bad
  ELSE Whole([name |-> RequiredString(v, "name")]
    @@ [key \in {"layout_x", "layout_y", "width", "height"} |-> OptionalInt(v, key, Num(0))]
    @@ [key \in {"power_state", "render_state"} |-> OptionalString(v, key, Word("unknown"))]
    @@ [key \in {"restore_pending", "frame_callback_pending", "render_pending"} |->
          OptionalBool(v, key, Bool(FALSE))]
    @@ [key \in {"current_image", "transition_target_image"} |-> NullableString(v, key)]
    @@ [scale_mode |-> Enum(v, "scale_mode", ScaleModes, "fill"),
        transition_state |-> IF Has(v, "transition_state") THEN ParseState(v.f["transition_state"])
                             ELSE Obj([state |-> Word("idle")]),
        queue_depth |-> OptionalNat(v, "queue_depth", Num(0))])
EncodeHealthOutput(v) == Obj([v.f EXCEPT !["transition_state"] = EncodeState(@)])

\* Every parser wants the status ok and its own type of answer.
Answers(v, type) ==
  IsObject(v) /\ RequiredString(v, "status") = Word("ok") /\ RequiredString(v, "type") = Word(type)
OptionalItems(Op(_), v, key) == IF Has(v, key) THEN MapArr(Op, v.f[key]) ELSE Arr(<<>>)

ParseHealthResponse(v) ==
  IF ~Answers(v, "health") THEN Bad
  ELSE Whole([role |-> RequiredString(v, "role"),
              supervisor_pid |-> NullableNat(v, "supervisor_pid"),
              renderer_pid |-> NullableNat(v, "renderer_pid"),
              renderer_generation |-> OptionalNat(v, "renderer_generation", Num(0)),
              renderer_state |-> OptionalString(v, "renderer_state", Word("unknown")),
              restart_count |-> OptionalNat(v, "restart_count", Num(0)),
              last_error |-> NullableString(v, "last_error"),
              last_diagnostic |-> NullableString(v, "last_diagnostic"),
              outputs |-> OptionalItems(ParseHealthOutput, v, "outputs")])
EncodeHealthResponse(r) ==
  Obj([r.f EXCEPT !["outputs"] = MapArr(EncodeHealthOutput, @)]
      @@ [status |-> Word("ok"), type |-> Word("health")])

ParseEntry(v) ==
  IF ~IsObject(v) THEN Bad
  ELSE Whole([index |-> RequiredNat(v, "index"), output |-> RequiredString(v, "output"),
              favorite |-> OptionalBool(v, "favorite", Bool(FALSE)), path |-> RequiredString(v, "path")])
ParseWallpaperResponse(v) ==
  IF ~Answers(v, "wallpaper") THEN Bad
  ELSE Whole([action |-> RequiredString(v, "action"), message |-> OptionalString(v, "message", Word("")),
              entries |-> OptionalItems(ParseEntry, v, "entries"),
              favorites |-> OptionalItems(AsString, v, "favorites")])
EncodeWallpaperResponse(r) == Obj(r.f @@ [status |-> Word("ok"), type |-> Word("wallpaper")])

\* The default of a parameter has the type the parameter says.
ParseDefault(v, type) ==
  IF ~Has(v, "default") THEN Bad
  ELSE LET d == v.f["default"]
       IN CASE d = Null -> Null
            [] type \in {"enum", "integer-or-enum"} /\ IsString(d) -> d
            [] type \in {"integer", "integer-or-enum"} /\ d.t = "number" -> d
            [] type = "number" /\ ~IsString(d) -> AsScale(d)
            [] OTHER -> Bad
ParseParameter(v) ==
  IF ~IsObject(v) THEN Bad
  ELSE LET type == OneOf(RequiredString(v, "type"), ParameterTypes)
       IN IF type = Bad THEN Bad
          ELSE Whole([name |-> RequiredString(v, "name"), type |-> type,
                      allowed_values |-> OptionalItems(AsString, v, "allowed_values"),
                      required |-> RequiredBool(v, "required"),
                      default |-> ParseDefault(v, type.s),
                      constraint |-> NullableString(v, "constraint")])
ParseCapability(v) ==
  IF ~IsObject(v) \/ ~Has(v, "scopes") \/ ~IsObject(v.f["scopes"]) THEN Bad
  ELSE Whole([name |-> RequiredString(v, "name"), class |-> OneOf(RequiredString(v, "class"), Classes),
              scopes |-> Whole([key \in {"explicit_set", "wallpaper_actions"} |->
                                  OptionalBool(v.f["scopes"], key, Bool(FALSE))]),
              experimental |-> OptionalBool(v, "experimental", Bool(FALSE)),
              parameters |-> OptionalItems(ParseParameter, v, "parameters")])
SCHEMA == Num(1)
ParseCapabilitiesResponse(v) ==
  IF ~Answers(v, "capabilities") \/ NullableNat(v, "schema_version") # SCHEMA THEN Bad
  ELSE Whole([schema_version |-> SCHEMA, protocol_version |-> RequiredNat(v, "protocol_version"),
              daemon_mode |-> OneOf(RequiredString(v, "daemon_mode"), {"supervisor", "standalone"}),
              transitions |-> IF Has(v, "transitions") THEN MapArr(ParseCapability, v.f["transitions"])
                              ELSE Bad])
EncodeCapabilitiesResponse(r) ==
  Obj(r.f @@ [status |-> Word("ok"), type |-> Word("capabilities")])

Listed(s) == FoldSet(LAMBDA x, q : Append(q, x), <<>>, s)
\* CapabilitiesResponse::current: the registry as a client is told about it.
\* A standalone daemon plans no worlds.
Capability(kind, mode) ==
  LET d == TRANSITION_REGISTRY[kind]  planned == mode = "supervisor" \/ kind # "world"
      parameter(name) ==
        LET q == d.parameters[name]
        IN Obj([name |-> Word(name), type |-> Word(q.type),
                allowed_values |-> Arr(Listed({Word(value) : value \in q.allowed})),
                required |-> Bool(q.required), default |-> q.default, constraint |-> Null])
      names == Listed(DOMAIN d.parameters)
  IN Obj([name |-> Word(kind), class |-> Word(d.class),
          scopes |-> Obj([explicit_set |-> Bool(d.set /\ planned), wallpaper_actions |-> Bool(planned)]),
          experimental |-> Bool(d.experimental),
          parameters |-> Arr([n \in DOMAIN names |-> parameter(names[n])])])
CapabilitiesResponse(mode) ==
  LET kinds == Listed(Kinds)
  IN Obj([schema_version |-> SCHEMA, protocol_version |-> Num(1), daemon_mode |-> Word(mode),
          transitions |-> Arr([n \in DOMAIN kinds |-> Capability(kinds[n], mode)])])
=============================================================================
