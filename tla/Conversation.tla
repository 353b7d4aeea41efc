---------------------------- MODULE Conversation ----------------------------
(***************************************************************************)
(* One request on its way: the daemon loads its configuration, a user      *)
(* types a muralctl command (or another client writes its own JSON), the   *)
(* supervisor reads it, answers it itself or plans what the renderer has   *)
(* to do, the renderer reads that, and the answer goes back.               *)
(*                                                                         *)
(* Every hop writes JSON and reads it again; the requests as they were     *)
(* before being written are kept beside what was read, to be compared.     *)
(***************************************************************************)
EXTENDS Config, Muralctl

CONSTANTS Lines, Variables,  \* of the configuration file and the environment
          Arguments,         \* of the command line
          RawRequests,       \* what other clients write
          MaxTokens          \* bound: lines, variables and arguments together

ASSUME ConversationAssumption == MaxTokens \in Nat

VARIABLES stage,      \* who has the conversation
          lines, variables, config,
          command, args,
          built,      \* the request muralctl means, Null when another client wrote it
          wire,       \* the JSON between client and supervisor
          taken,      \* the request the supervisor read
          planned,    \* the request it has for the renderer, Null when there is none
          received,   \* what the renderer read
          answer,     \* the response as its author means it
          shown       \* what the one who asked reads
vars == <<stage, lines, variables, config, command, args, built, wire, taken, planned,
          received, answer, shown>>

Init ==
  /\ stage = "configure"
  /\ lines = <<>> /\ variables = <<>> /\ args = <<>>
  /\ command = "none"
  /\ config = Null /\ built = Null /\ wire = Null /\ taken = Null
  /\ planned = Null /\ received = Null /\ answer = Null /\ shown = Null

HasRoom == Len(lines) + Len(variables) + Len(args) < MaxTokens

-----------------------------------------------------------------------------
(* The configuration and the command line.                                 *)

AddLine(line) ==
  /\ stage = "configure" /\ variables = <<>> /\ HasRoom
  /\ lines' = Append(lines, line)
  /\ UNCHANGED <<stage, variables, config, command, args, built, wire, taken, planned, received, answer, shown>>
AddVariable(variable) ==
  /\ stage = "configure" /\ HasRoom
  /\ \A n \in DOMAIN variables : variables[n].key # variable.key
  /\ variables' = Append(variables, variable)
  /\ UNCHANGED <<stage, lines, config, command, args, built, wire, taken, planned, received, answer, shown>>
\* A configuration that does not load keeps the daemon from starting.
Start ==
  /\ stage = "configure"
  /\ config' = Load(lines, variables)
  /\ stage' = IF config' = Bad THEN "end" ELSE "type"
  /\ UNCHANGED <<lines, variables, command, args, built, wire, taken, planned, received, answer, shown>>

Type(arg) ==
  /\ stage = "type" /\ HasRoom
  /\ args' = Append(args, arg)
  /\ UNCHANGED <<stage, lines, variables, config, command, built, wire, taken, planned, received, answer, shown>>
\* A command line that is refused sends nothing.
Enter(name) ==
  /\ stage = "type"
  /\ command' = name
  /\ built' = BuildCommand(name, args)
  /\ IF built' = Bad THEN stage' = "end" /\ UNCHANGED wire
     ELSE stage' = "supervisor" /\ wire' = EncodeRequest(built')
  /\ UNCHANGED <<lines, variables, config, args, taken, planned, received, answer, shown>>
SendRaw(json) ==
  /\ stage = "type" /\ args = <<>>
  /\ wire' = json
  /\ stage' = "supervisor"
  /\ UNCHANGED <<lines, variables, config, command, args, built, taken, planned, received, answer, shown>>

-----------------------------------------------------------------------------
(* The supervisor: handle_public_request and what it plans.                *)

\* What the wallpaper and the library say, which are modelled elsewhere.
Target == Obj("DP-1" :> Word("next.png"))
Ack == Obj([status |-> Word("ok"), type |-> Word("ack")])
Pong == Obj([status |-> Word("ok"), type |-> Word("pong")])
Entries == Arr(<<Obj([index |-> Num(0), output |-> Word("DP-1"), favorite |-> Bool(TRUE),
                      path |-> Word("next.png")])>>)
WallpaperResponse(action, message) ==
  Obj([action |-> Word(action), message |-> Word(message), entries |-> Entries,
       favorites |-> IF action = "favorites" THEN Arr(<<Word("next.png")>>) ELSE Arr(<<>>)])

CanvasSet(set) ==
  Obj([set.f EXCEPT !["type"] = Word("renderer_canvas_set")]
      @@ [preview_paths |-> Arr(<<Word("now.png"), Word("next.png")>>), preview_start |-> Num(0)])
WorldSet(set) ==
  Obj([set.f EXCEPT !["type"] = Word("renderer_world_set")]
      @@ [library_count |-> Num(4), columns |-> Num(2), fingerprint |-> Num(7),
          thumbnail_edge |-> Num(512), tile_cells |-> Num(4),
          routes |-> Obj("DP-1" :> Obj([current_index |-> Num(0), target_index |-> Num(3),
                                        lod |-> Num(0)]))])
SetRequest(transition, mode) ==
  Obj([type |-> Word("set"), outputs |-> Target, transition |-> transition,
       scale_mode |-> mode, allow_partial |-> Bool(FALSE)])

\* The requests that a set may become.  A world takes the fallback, or is
\* refused without one, while the cache does not cover its route; a canvas
\* is planned for an action only.
Fallback == config.f["world_fallback_transition"]
Plans(set, is_action) ==
  LET kind == set.f["transition"].f["type"].s
  IN CASE kind = "canvas" /\ is_action -> {CanvasSet(set)}
       [] kind = "world" ->
            {WorldSet(set), IF Fallback = Null THEN Null
                            ELSE Obj([set.f EXCEPT !["transition"] = Fallback])}
       [] OTHER -> {set}

\* render_wallpaper_action: the request's own transition and scale mode, or
\* the configured ones.
ActionSet(request) ==
  LET or(v, default) == IF v = Null THEN default ELSE v
      action == request.f["action"].f["type"].s
  IN SetRequest(or(request.f["transition"], TransitionFor(config, action)),
                or(request.f["scale_mode"], config.f["scale_mode"]))

Answer(response) ==
  /\ answer' = response
  /\ stage' = "client"
  /\ UNCHANGED <<planned, received>>
Forward(request) ==
  /\ planned' = request
  /\ stage' = "renderer"
  /\ UNCHANGED <<received, answer>>

Refused == Answer(ErrorResponse)
HandleWallpaper(request) ==
  LET action == request.f["action"].f["type"].s
  IN IF action \notin ActionKeys THEN Answer(WallpaperResponse(action, ""))
     ELSE \/ Answer(WallpaperResponse(action, "skipped"))  \* every output is off
          \/ \E plan \in Plans(ActionSet(request), TRUE) :
               IF plan = Null THEN Refused ELSE Forward(plan)
HandleRequest(request) ==
  LET type == request.f["type"].s
  IN CASE type = "ping" -> Answer(Pong)
       [] type = "stop" -> Answer(Ack)
       [] type = "capabilities" -> Answer(CapabilitiesResponse("supervisor"))
       [] type = "wallpaper" -> HandleWallpaper(request)
       [] type = "set" ->
            \E plan \in Plans(request, FALSE) : IF plan = Null THEN Refused ELSE Forward(plan)
       [] OTHER -> Forward(request)

Supervise ==
  /\ stage = "supervisor"
  /\ taken' = ParseRequest(wire, FALSE)
  /\ IF taken' = Bad THEN Refused ELSE HandleRequest(taken')
  /\ UNCHANGED <<lines, variables, config, command, args, built, wire, shown>>

-----------------------------------------------------------------------------
(* The renderer, and the answers.                                          *)

\* An output in the middle of the transition it was asked for.
HealthOutput(transition) ==
  Obj([key \in {"layout_x", "layout_y", "width", "height"} |-> Num(-1)]
      @@ [name |-> Word("DP-1"), power_state |-> Word("on"), render_state |-> Word("rendering"),
          restore_pending |-> Bool(FALSE), frame_callback_pending |-> Bool(TRUE),
          render_pending |-> Bool(TRUE), current_image |-> Null,
          transition_target_image |-> Word("next.png"), scale_mode |-> Word("fit"),
          transition_state |-> Obj([state |-> Word("running"), transition |-> transition]),
          queue_depth |-> Num(2)])
HealthResponse(transition) ==
  Obj([role |-> Word("renderer"), supervisor_pid |-> Null, renderer_pid |-> Num(5),
       renderer_generation |-> Num(1), renderer_state |-> Word("ready"), restart_count |-> Num(0),
       last_error |-> Null, last_diagnostic |-> Word("none"),
       outputs |-> Arr(<<HealthOutput(transition)>>)])

\* set_wallpapers refuses a canvas or a world that was not planned.
Rendered(request) ==
  LET type == request.f["type"].s
  IN CASE type = "set" /\ request.f["transition"].f["type"].s \in {"canvas", "world"} -> ErrorResponse
       [] type = "health" -> HealthResponse(TransitionFor(config, "next"))
       [] OTHER -> Ack
\* The supervisor answers an action itself once the renderer took it.
Completed(response) ==
  IF taken.f["type"] = Word("wallpaper") /\ response # ErrorResponse
  THEN WallpaperResponse(taken.f["action"].f["type"].s, "") ELSE response

Render ==
  /\ stage = "renderer"
  /\ received' = ParseRequest(EncodeRequest(planned), TRUE)
  /\ answer' = Completed(IF received' = Bad THEN ErrorResponse ELSE Rendered(received'))
  /\ stage' = "client"
  /\ UNCHANGED <<lines, variables, config, command, args, built, wire, taken, planned, shown>>

\* Reads the answer the way its request calls for: the supervisor parses
\* health, and muralctl what it prints as text.
Show ==
  /\ stage = "client"
  /\ shown' = IF answer = ErrorResponse THEN answer ELSE
              CASE taken.f["type"] = Word("health") -> ParseHealthResponse(EncodeHealthResponse(answer))
                [] taken.f["type"] = Word("wallpaper") ->
                     ParseWallpaperResponse(EncodeWallpaperResponse(answer))
                [] taken.f["type"] = Word("capabilities") ->
                     ParseCapabilitiesResponse(EncodeCapabilitiesResponse(answer))
                [] OTHER -> answer
  /\ stage' = "end"
  /\ UNCHANGED <<lines, variables, config, command, args, built, wire, taken, planned, received, answer>>

Next ==
  \/ \E line \in Lines : AddLine(line)
  \/ \E variable \in Variables : AddVariable(variable)
  \/ Start
  \/ \E arg \in Arguments : Type(arg)
  \/ \E name \in Commands : Enter(name)
  \/ \E json \in RawRequests : SendRaw(json)
  \/ Supervise
  \/ Render
  \/ Show
Spec == Init /\ [][Next]_vars

-----------------------------------------------------------------------------
(* Properties.                                                             *)

\* Requests say the same when they differ in the canvas' scale only, by less
\* than a millionth: it is written with six digits.
Without(r, keys) == Drop(r.f, keys)
SameTransition(a, b) ==
  \/ a = b
  \/ /\ a # Null /\ b # Null
     /\ a.f["type"] = Word("canvas") /\ b.f["type"] = Word("canvas")
     /\ Without(a, {"overview_scale"}) = Without(b, {"overview_scale"})
     /\ a.f["overview_scale"].n - b.f["overview_scale"].n \in -5 .. 5
SameRequest(a, b) ==
  /\ a # Bad /\ b # Bad
  /\ Without(a, {"transition"}) = Without(b, {"transition"})
  /\ Has(a, "transition") <=> Has(b, "transition")
  /\ Has(a, "transition") => SameTransition(a.f["transition"], b.f["transition"])

\* A transition is its registry entry filled in: exactly the parameters that
\* clients are told of, each within its constraint.
TransitionOK(t) ==
  LET kind == t.f["type"].s
      parameters == TRANSITION_REGISTRY[kind].parameters
  IN /\ DOMAIN t.f = {"type"} \cup DOMAIN parameters
     /\ \A key \in DOMAIN parameters :
          LET v == t.f[key]
          IN CASE parameters[key].type = "enum" -> v.s \in parameters[key].allowed
               [] key \in Times -> v.n > 0
               [] key = "overview_scale" -> v.n \in 1 .. Unit
               [] key \in {"tile_count", "max_tile_count"} ->
                    v \in {Null, Word("auto")} \/ v.n \in 1 .. MaxTiles
     /\ kind = "canvas" => ~(t.f["mode"].s \in {"collage", "span"} /\ t.f["walk"].s = "paged")
RequestOK(r) ==
  r \in {Null, Bad}
    \/ /\ r.f["type"].s \in Plain \cup Internal \cup {"set", "preload", "clear", "wallpaper", "cache"}
       /\ Has(r, "transition") => r.f["transition"] = Null \/ TransitionOK(r.f["transition"])

\* What muralctl means is what the supervisor reads, and what the supervisor
\* plans is what the renderer reads: no field is lost, renamed or refused
\* between Request::to_json and parse_request.
RequestsAreUnderstood ==
  /\ (built \notin {Null, Bad} /\ taken # Null) => SameRequest(built, taken)
  /\ received # Null => SameRequest(planned, received)

\* What a daemon answers is what its reader gets from parse_*_response.
SameState(a, b) ==
  a = b \/ (Has(a, "transition") /\ Has(b, "transition")
              /\ SameTransition(a.f["transition"], b.f["transition"]))
SameOutput(a, b) ==
  /\ Without(a, {"transition_state"}) = Without(b, {"transition_state"})
  /\ SameState(a.f["transition_state"], b.f["transition_state"])
AnswersAreUnderstood ==
  shown # Null =>
    \/ shown = answer
    \/ /\ shown # Bad /\ taken.f["type"] = Word("health")
       /\ Without(shown, {"outputs"}) = Without(answer, {"outputs"})
       /\ \A n \in DOMAIN answer.f["outputs"].q :
            SameOutput(answer.f["outputs"].q[n], shown.f["outputs"].q[n])

\* Two neighbours that set different things may change places, in the file
\* and on the command line, and nothing changes.  (Every order of a sequence
\* is reached, so this is true of any reordering.)  A command line that gives
\* an option twice is left out: a maximum between a fixed and an automatic
\* tile count is dropped, and after them it is not.
EachOnce == \A m, n \in DOMAIN args : args[m].option = args[n].option => m = n
Exchanged(q, n) == [q EXCEPT ![n] = q[n + 1], ![n + 1] = q[n]]
OrderDoesNotMatter ==
  /\ config # Null =>
       \A n \in 1 .. Len(lines) - 1 :
         <<lines[n].profile, lines[n].key>> # <<lines[n + 1].profile, lines[n + 1].key>>
           => Load(Exchanged(lines, n), variables) = config
  /\ built # Null /\ EachOnce =>
       \A n \in 1 .. Len(args) - 1 :
         {args[n].option, args[n + 1].option} \cap {"", "output"} = {}
         => BuildCommand(command, Exchanged(args, n)) = built

\* The renderer is told what the user wrote, wherever that was: an option of
\* the command line, or else the configuration that the action's reference names.
\* There a key has the value of the profile's own line, of the environment when
\* no line of the profile or of the built-in one sets it, and the scale mode
\* that of the environment before the file's.  (Where a line and a MURAL_CANVAS_*
\* variable set the same key the manual and the code disagree, see the README;
\* nothing is said of it here.)  A fixed tile count has no maximum, and an
\* override in the reference goes before the profile's.
Latest(q, Test(_)) == LET s == SelectSeq(q, Test) IN IF s = <<>> THEN Null ELSE s[Len(s)]
Agrees(t, key, v) ==
  CASE key = "overview_scale" -> t.f[key].n - AsScale(v).n \in -5 .. 5
    [] key = "max_tile_count" -> t.f["tile_count"] # Word("auto") \/ t.f[key] = v
    [] OTHER -> t.f[key] \in {v, IF IsString(v) THEN Word(Alias(v.s)) ELSE v}
Reference(action) ==
  LET line == Latest(lines, LAMBDA l : l.profile = "" /\ l.key = action)
  IN IF line = Null THEN PlainDefaults[action] ELSE line.value
SettingsReachRenderer ==
  LET t == received.f["transition"]
      own(key, profile) == Latest(lines, LAMBDA l : l.profile = profile /\ l.key = key)
      variable(key, profile) == Latest(variables, LAMBDA v : v.profile = profile /\ v.key = key)
      option(key) == Latest(args, LAMBDA a : a.option = key)
      keys == DOMAIN t.f \ {"type"}
      from_config == taken.f["transition"] = Null
      ref == Reference(taken.f["action"].f["type"].s)
      canvas(key) == IF t.f["type"] = Word("canvas") THEN variable(key, "canvas") ELSE Null
      overridden(key) == ref.suffix # Null /\ key \in {"direction", "pan_axis"}
      Is(key, setting) == setting # Null => Agrees(t, key, setting.value)
  IN /\ received # Null /\ taken.f["type"] = Word("wallpaper")
     /\ Fallback = Null  \* otherwise a world may have become another one
     /\ EachOnce
     => /\ \A key \in keys :
             /\ Is(key, option(key))
             /\ from_config /\ ~overridden(key) =>
                  /\ canvas(key) = Null => Is(key, own(key, ref.name))
                  /\ own(key, ref.name) = Null /\ own(key, "canvas") = Null => Is(key, canvas(key))
        /\ LET said == SelectSeq(<<option("scale_mode"), variable("scale_mode", ""), own("scale_mode", "")>>,
                                 LAMBDA setting : setting # Null)
           IN said # <<>> => received.f["scale_mode"] = Head(said).value

\* Wherever a transition comes from (a profile, a command line, a client's
\* JSON or the other end of a hop), its fields are the registry's.
TransitionsAreRegistered ==
  /\ config \notin {Null, Bad} =>
       /\ \A action \in ActionKeys : TransitionOK(config.f[action])
       /\ Fallback # Null => TransitionOK(Fallback)
  /\ \A r \in {built, taken, planned, received} : RequestOK(r)

\* A client that builds transitions from the capabilities it was shown is
\* understood: a parameter it leaves out has the default, one it sets has
\* the value it sets, a required one cannot be left out, and an explicit set
\* is rendered for exactly the transitions whose scope says so.  And every
\* transition in the system is one that can be built so.
Values(p) ==
  CASE p.f["type"].s = "enum" -> {p.f["allowed_values"].q[n] : n \in DOMAIN p.f["allowed_values"].q}
    [] p.f["type"].s = "integer" -> {Num(1), Num(256)}
    [] p.f["type"].s = "number" -> {Decimal(Unit), Decimal(2500000)}
    [] p.f["type"].s = "integer-or-enum" -> {Word("auto"), Num(1), Num(256)}
ByName(d, name) ==
  LET n == CHOOSE n \in DOMAIN d.f["parameters"].q : d.f["parameters"].q[n].f["name"].s = name
  IN d.f["parameters"].q[n]
Names(d, required) ==
  {d.f["parameters"].q[n].f["name"].s :
     n \in {m \in DOMAIN d.f["parameters"].q : required => d.f["parameters"].q[m].f["required"].b}}
Minimal(d) ==
  Obj([type |-> d.f["name"]]
      @@ [key \in Names(d, TRUE) |-> ByName(d, key).f["allowed_values"].q[1]])
\* constraint: collage and span require walk=strip.
Companions(v) ==
  IF v \in {Word("collage"), Word("span")} THEN [walk |-> Word("strip")]
  ELSE [key \in {} |-> Null]
IsRendered(t) ==
  \E plan \in Plans(SetRequest(t, Word("fill")), FALSE) : plan # Null /\ Rendered(plan) # ErrorResponse
CapabilityIsTrue(d) ==
  LET least == Minimal(d)  read == ParseTransition(least)
  IN /\ read # Bad
     /\ \A key \in Names(d, FALSE) \ Names(d, TRUE) :
          /\ SameTransition(Obj([read.f EXCEPT ![key] = ByName(d, key).f["default"]]), read)
          /\ \A v \in Values(ByName(d, key)) :
               LET set == ParseTransition(Obj((key :> v) @@ Companions(v) @@ least.f))
               IN set # Bad /\ set.f[key] = v
     /\ \A key \in Names(d, TRUE) : ParseTransition(Obj(Drop(least.f, {key}))) = Bad
     /\ d.f["scopes"].f["explicit_set"].b = IsRendered(read)
CapabilitiesAreTrue ==
  /\ TransitionsAreRegistered
  /\ shown # Null /\ taken # Bad =>
    (taken.f["type"] = Word("capabilities") =>
       \A n \in DOMAIN shown.f["transitions"].q : CapabilityIsTrue(shown.f["transitions"].q[n]))

=============================================================================
